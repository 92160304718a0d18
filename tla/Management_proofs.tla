--------------------------- MODULE Management_proofs ---------------------------
(***************************************************************************)
(* The management surface, for every value of the constants. The walk over  *)
(* a paged list (PageWalk): any rows, any page size the server settles on,  *)
(* and rows added and removed while it is walked. And manifests (Manifest): *)
(* any manifests and tenants, any number of applies, of failed requests and *)
(* of writes of others. Before them, the lemmas on lists both rest on:      *)
(* induction over lists without an operator parameter, from the library's   *)
(* theorem of well-foundedness, and what the listings of the models         *)
(* (Listings) return. After them edits (ManagementEdit): any operations and *)
(* members that are what IsTask says, any editors, any number of versions.  *)
(***************************************************************************)
EXTENDS Manifest, PageWalk, ManagementEdit, SequenceTheorems, FiniteSetTheorems, WellFoundedInduction,
        TLAPS

-----------------------------------------------------------------------------
(* Induction and recursion over an initial segment of the naturals.         *)

(* Every set of naturals but the empty one has a least element. *)
LEMMA LeastNatural ==
  ASSUME NEW S \in SUBSET Nat, S # {}
  PROVE  \E x \in S : \A y \in S : x <= y
<1> DEFINE R == {ss \in Nat \X Nat : ss[1] < ss[2]}
<1>1. IsWellFoundedOn(R, Nat)
  BY NatLessThanWellFounded DEF OpToRel
<1> HIDE DEF R
<1>2. PICK x \in S : \A y \in S : ~(<<y, x>> \in R)
  BY <1>1, WFMin
<1>3. ASSUME NEW y \in S PROVE x <= y
  <2>1. <<y, x>> \in Nat \X Nat /\ ~(<<y, x>> \in R)
    BY <1>2
  <2> QED
    BY <2>1 DEF R
<1> QED
  BY <1>3

(* A set that holds 0 and with each number below n the next one holds all   *)
(* numbers up to n.                                                        *)
LEMMA UpTo ==
  ASSUME NEW n \in Nat, NEW T, 0 \in T, \A i \in 1..n : i - 1 \in T => i \in T
  PROVE  0..n \subseteq T
<1> DEFINE M == (0..n) \ T
<1> SUFFICES ASSUME M # {} PROVE FALSE
  OBVIOUS
<1>1. PICK x \in M : \A y \in M : x <= y
  <2>1. M \in SUBSET Nat
    OBVIOUS
  <2> HIDE DEF M
  <2> QED
    BY <2>1, LeastNatural
<1>2. x \in 1..n /\ x - 1 \notin M /\ x - 1 \in 0..n
  BY <1>1
<1> QED
  BY <1>1, <1>2

(* F begins with `first` and goes on by the steps, up to n. *)
Follows(F, n, first, step) == F[0] = first /\ \A i \in 1..n : F[i] = step[i][F[i - 1]]

(* A value for 0 and a step from each number to the next make a function.   *)
LEMMA Recursion ==
  ASSUME NEW n \in Nat, NEW V, NEW first \in V, NEW step \in [1..n -> [V -> V]]
  PROVE  \E F \in [0..n -> V] : Follows(F, n, first, step)
<1> DEFINE Makes(k, F) == F[0] = first /\ \A i \in 1..k : F[i] = step[i][F[i - 1]]
           T == {k \in 0..n : \E F \in [0..k -> V] : Makes(k, F)}
<1>1. 0 \in T
  <2> DEFINE G == [j \in 0..0 |-> first]
  <2>1. G \in [0..0 -> V] /\ G[0] = first
    OBVIOUS
  <2>2. Makes(0, G)
    BY <2>1
  <2> HIDE DEF G, Makes
  <2> QED
    BY <2>1, <2>2
<1>2. ASSUME NEW i \in 1..n, i - 1 \in T PROVE i \in T
  <2>1. PICK F \in [0..(i - 1) -> V] : Makes(i - 1, F)
    BY <1>2
  <2> DEFINE v == step[i][F[i - 1]]
             G == [j \in 0..i |-> IF j = i THEN v ELSE F[j]]
  <2>2. i - 1 \in 0..(i - 1) /\ v \in V
    OBVIOUS
  <2>3. G \in [0..i -> V]
    BY <2>2
  <2>4. G[0] = first
    BY <2>1
  <2>5. G[i] = v /\ \A j \in 0..(i - 1) : G[j] = F[j]
    OBVIOUS
  <2> HIDE DEF G
  <2>6. ASSUME NEW k \in 1..i PROVE G[k] = step[k][G[k - 1]]
    <3>1. CASE k = i
      BY <2>5, <3>1
    <3>2. CASE k # i
      <4>1. k \in 1..(i - 1) /\ k \in 0..(i - 1) /\ k - 1 \in 0..(i - 1)
        BY <3>2
      <4> QED
        BY <2>1, <2>5, <4>1
    <3> QED
      BY <3>1, <3>2
  <2>7. Makes(i, G)
    BY <2>4, <2>6
  <2> HIDE DEF Makes
  <2> QED
    BY <2>3, <2>7
<1> HIDE DEF T
<1>3. 0..n \subseteq T
  BY <1>1, <1>2, UpTo
<1> QED
  BY <1>3 DEF T, Follows

-----------------------------------------------------------------------------
(* What is kept of a list.                                                 *)

(* F[i] is what is kept of the first i members. *)
Keeps(F, s, S) ==
  /\ F[0] = <<>>
  /\ \A i \in 1..Len(s) : F[i] = IF s[i] \in S THEN Append(F[i - 1], s[i]) ELSE F[i - 1]

(* The recursion by which Kept is defined has its solution. *)
LEMMA KeptSteps ==
  ASSUME NEW X, NEW s \in Seq(X), NEW S
  PROVE  \E F \in [0..Len(s) -> Seq(X)] : Kept(s, S) = F[Len(s)] /\ Keeps(F, s, S)
<1> DEFINE n == Len(s)
           Grown(i, t) == IF s[i] \in S THEN Append(t, s[i]) ELSE t
           step == [i \in 1..n |-> [t \in Seq(X) |-> Grown(i, t)]]
           Solves(f) == f = [k \in 0..n |->
                               IF k = 0 THEN <<>>
                               ELSE IF s[k] \in S THEN Append(f[k - 1], s[k])
                               ELSE f[k - 1]]
           kept == CHOOSE f : Solves(f)
<1>1. n \in Nat /\ \A i \in 1..n : s[i] \in X
  BY LenProperties, ElementOfSeq
<1>2. Kept(s, S) = kept[n]
  BY DEF Kept
<1>3. step \in [1..n -> [Seq(X) -> Seq(X)]]
  <2>1. ASSUME NEW i \in 1..n, NEW t \in Seq(X) PROVE Grown(i, t) \in Seq(X)
    BY <1>1, AppendProperties
  <2> QED
    BY <2>1
<1>4. \A i \in 1..n, t \in Seq(X) : step[i][t] = Grown(i, t)
  OBVIOUS
<1> HIDE DEF n, step
<1>5. PICK F \in [0..n -> Seq(X)] : F[0] = <<>> /\ \A i \in 1..n : F[i] = step[i][F[i - 1]]
  <2>1. <<>> \in Seq(X)
    BY EmptySeq
  <2> DEFINE V == Seq(X)
             e == <<>>
  <2>2. n \in Nat /\ e \in V /\ step \in [1..n -> [V -> V]]
    BY <1>1, <1>3, <2>1
  <2> HIDE DEF V, e
  <2>3. \E F \in [0..n -> V] : Follows(F, n, e, step)
    BY <2>2, Recursion
  <2> QED
    BY <2>3 DEF V, e, Follows
<1>6. \A i \in 1..n : F[i] = Grown(i, F[i - 1])
  <2> TAKE i \in 1..n
  <2>1. F[i - 1] \in Seq(X)
    BY <1>1
  <2> QED
    BY <1>4, <1>5, <2>1
<1>7. Solves(F)
  <2>1. ASSUME NEW k \in 0..n PROVE F[k] = IF k = 0 THEN <<>> ELSE Grown(k, F[k - 1])
    <3> HIDE DEF Grown
    <3>1. k = 0 \/ k \in 1..n
      BY <1>1
    <3> QED
      BY <1>5, <1>6, <3>1
  <2> QED
    BY <2>1
<1>8. Solves(kept)
  <2> HIDE DEF Solves
  <2> QED
    BY <1>7
<1>9. \A k \in 0..n : kept[k] = IF k = 0 THEN <<>> ELSE Grown(k, kept[k - 1])
  <2> HIDE DEF kept
  <2> QED
    BY <1>8
<1> HIDE DEF kept, Solves, Grown
<1> DEFINE T == {k \in 0..n : kept[k] = F[k]}
<1>10. 0 \in T
  BY <1>1, <1>5, <1>9
<1>11. ASSUME NEW i \in 1..n, i - 1 \in T PROVE i \in T
  BY <1>1, <1>6, <1>9, <1>11
<1>12. n \in T
  <2> HIDE DEF T
  <2>1. 0..n \subseteq T
    BY <1>1, <1>10, <1>11, UpTo
  <2> QED
    BY <1>1, <2>1
<1> QED
  BY <1>2, <1>5, <1>6, <1>12 DEF n, Grown, Keeps

(* A kept list is a list of the same members. *)
LEMMA KeptType ==
  ASSUME NEW X, NEW s \in Seq(X), NEW S
  PROVE  Kept(s, S) \in Seq(X)
<1>1. Len(s) \in 0..Len(s)
  BY LenProperties
<1> QED
  BY <1>1, KeptSteps

(* Nothing is kept of nothing. *)
LEMMA KeptOfEmpty ==
  ASSUME NEW S
  PROVE  Kept(<<>>, S) = <<>>
<1> DEFINE e == <<>>
<1>1. e \in Seq({}) /\ Len(e) = 0
  BY EmptySeq
<1> HIDE DEF e
<1>2. PICK F \in [0..Len(e) -> Seq({})] : Kept(e, S) = F[Len(e)] /\ Keeps(F, e, S)
  BY <1>1, KeptSteps
<1> QED
  BY <1>1, <1>2 DEF Keeps, e

(* One member more in the list is one more kept, if it is wanted. *)
LEMMA KeptOfAppend ==
  ASSUME NEW X, NEW t \in Seq(X), NEW x \in X, NEW S
  PROVE  Kept(Append(t, x), S) = IF x \in S THEN Append(Kept(t, S), x) ELSE Kept(t, S)
<1> DEFINE s == Append(t, x)
           n == Len(t)
<1>1. /\ s \in Seq(X) /\ n \in Nat /\ Len(s) = n + 1
      /\ s[n + 1] = x /\ \A i \in 1..n : s[i] = t[i]
  BY AppendProperties, LenProperties
<1> HIDE DEF s
<1>2. PICK F \in [0..Len(s) -> Seq(X)] : Kept(s, S) = F[Len(s)] /\ Keeps(F, s, S)
  BY <1>1, KeptSteps
<1>3. PICK G \in [0..Len(t) -> Seq(X)] : Kept(t, S) = G[Len(t)] /\ Keeps(G, t, S)
  BY KeptSteps
<1> USE DEF Keeps
<1> DEFINE T == {k \in 0..n : F[k] = G[k]}
<1>4. 0 \in T
  BY <1>1, <1>2, <1>3
<1>5. ASSUME NEW i \in 1..n, i - 1 \in T PROVE i \in T
  <2>1. i \in 1..Len(s) /\ i \in 0..n /\ s[i] = t[i] /\ F[i - 1] = G[i - 1]
    BY <1>1, <1>5
  <2> QED
    BY <1>2, <1>3, <2>1
<1>6. F[n] = G[n]
  <2> HIDE DEF T
  <2>1. 0..n \subseteq T
    BY <1>1, <1>4, <1>5, UpTo
  <2> QED
    BY <1>1, <2>1 DEF T
<1>7. n + 1 \in 1..Len(s) /\ (n + 1) - 1 = n
  BY <1>1
<1>8. F[n + 1] = IF x \in S THEN Append(F[n], x) ELSE F[n]
  BY <1>1, <1>2, <1>7
<1> QED
  BY <1>1, <1>2, <1>3, <1>6, <1>8 DEF s

(* What holds of the empty list, and of each list that is one member longer *)
(* than one it holds of, holds of every list: as a set of lists.            *)
LEMMA EveryList ==
  ASSUME NEW X, NEW T, <<>> \in T,
         \A t \in Seq(X), x \in X : t \in T => Append(t, x) \in T
  PROVE  Seq(X) \subseteq T
<1> DEFINE N == {n \in Nat : \E s \in Seq(X) : s \notin T /\ Len(s) = n}
<1> SUFFICES ASSUME NEW u \in Seq(X), u \notin T PROVE FALSE
  OBVIOUS
<1>1. N \in SUBSET Nat /\ N # {}
  BY LenProperties
<1> HIDE DEF N
<1>2. PICK n \in N : \A k \in N : n <= k
  BY <1>1, LeastNatural
<1>3. PICK s \in Seq(X) : s \notin T /\ Len(s) = n
  BY <1>2 DEF N
<1>4. s # <<>>
  BY <1>3
<1>5. PICK t \in Seq(X), x \in X : s = Append(t, x)
  BY <1>4, SequenceEmptyOrAppend
<1>6. Len(t) \in Nat /\ n = Len(t) + 1
  BY <1>3, <1>5, AppendProperties, LenProperties
<1>7. t \notin T
  BY <1>3, <1>5
<1>8. Len(t) \in N
  BY <1>6, <1>7 DEF N
<1> QED
  BY <1>2, <1>6, <1>8

(* A member appended to two lists joined is appended to the second. *)
LEMMA AppendAfter ==
  ASSUME NEW X, NEW a \in Seq(X), NEW b \in Seq(X), NEW x \in X
  PROVE  a \o Append(b, x) = Append(a \o b, x)
<1>1. <<x>> \in Seq(X) /\ a \o b \in Seq(X)
  BY ConcatProperties
<1> QED
  BY <1>1, AppendIsConcat, ConcatAssociative

(* A member appended joins the members. *)
LEMMA AppendMembers ==
  ASSUME NEW X, NEW s \in Seq(X), NEW x \in X
  PROVE  Range(Append(s, x)) = Range(s) \cup {x}
<1>1. /\ Append(s, x) \in Seq(X) /\ Len(s) \in Nat /\ Len(Append(s, x)) = Len(s) + 1
      /\ \A i \in 1..Len(s) : Append(s, x)[i] = s[i]
      /\ Append(s, x)[Len(s) + 1] = x
      /\ DOMAIN s = 1..Len(s) /\ DOMAIN Append(s, x) = 1..(Len(s) + 1)
  BY AppendProperties, LenProperties
<1> QED
  BY <1>1 DEF Range

(* What is kept of two lists joined is what is kept of each. *)
KeepsEach(a, b, S) == Kept(a \o b, S) = Kept(a, S) \o Kept(b, S)

LEMMA KeptOfConcat ==
  ASSUME NEW X, NEW a \in Seq(X), NEW b \in Seq(X), NEW S
  PROVE  KeepsEach(a, b, S)
<1> DEFINE T == {t \in Seq(X) : Kept(a \o t, S) = Kept(a, S) \o Kept(t, S)}
<1>1. <<>> \in T
  <2>1. <<>> \in Seq(X) /\ a \o <<>> = a /\ Kept(a, S) \in Seq(X)
    BY EmptySeq, ConcatEmptySeq, KeptType
  <2>2. Kept(a, S) \o <<>> = Kept(a, S)
    BY <2>1, ConcatEmptySeq
  <2> QED
    BY <2>1, <2>2, KeptOfEmpty
<1>2. ASSUME NEW t \in Seq(X), NEW x \in X, t \in T PROVE Append(t, x) \in T
  <2>1. Append(t, x) \in Seq(X) /\ a \o t \in Seq(X) /\ a \o Append(t, x) = Append(a \o t, x)
    BY AppendProperties, ConcatProperties, AppendAfter
  <2>2. PICK ka \in Seq(X), kt \in Seq(X) : ka = Kept(a, S) /\ kt = Kept(t, S)
    BY KeptType
  <2>3. Kept(a \o t, S) = ka \o kt
    BY <1>2, <2>2
  <2>4. Kept(Append(a \o t, x), S) = IF x \in S THEN Append(ka \o kt, x) ELSE ka \o kt
    BY <2>1, <2>3, KeptOfAppend
  <2>5. ka \o Append(kt, x) = Append(ka \o kt, x)
    BY AppendAfter
  <2>6. Kept(Append(t, x), S) = IF x \in S THEN Append(kt, x) ELSE kt
    BY <2>2, KeptOfAppend
  <2> QED
    BY <2>1, <2>2, <2>4, <2>5, <2>6
<1> HIDE DEF T
<1>3. Seq(X) \subseteq T
  BY <1>1, <1>2, EveryList
<1> QED
  BY <1>3 DEF T, KeepsEach

(* Exactly the members that are wanted are kept. *)
LEMMA KeptMembers ==
  ASSUME NEW X, NEW s \in Seq(X), NEW S
  PROVE  Range(Kept(s, S)) = Range(s) \cap S
<1> DEFINE T == {t \in Seq(X) : Range(Kept(t, S)) = Range(t) \cap S}
<1>1. <<>> \in T
  <2>1. <<>> \in Seq(X) /\ Range(<<>>) = {}
    BY EmptySeq DEF Range
  <2> QED
    BY <2>1, KeptOfEmpty
<1>2. ASSUME NEW t \in Seq(X), NEW x \in X, t \in T PROVE Append(t, x) \in T
  <2>1. PICK k \in Seq(X) : k = Kept(t, S)
    BY KeptType
  <2>2. Append(t, x) \in Seq(X) /\ Range(Append(t, x)) = Range(t) \cup {x} /\ Range(Append(k, x)) = Range(k) \cup {x}
    BY AppendProperties, AppendMembers
  <2>3. Kept(Append(t, x), S) = IF x \in S THEN Append(k, x) ELSE k
    BY <2>1, KeptOfAppend
  <2> QED
    BY <1>2, <2>1, <2>2, <2>3
<1> HIDE DEF T
<1>3. Seq(X) \subseteq T
  BY <1>1, <1>2, EveryList
<1> QED
  BY <1>3 DEF T

(* What is kept of a list without repetitions has none. *)
LEMMA KeptInjective ==
  ASSUME NEW X, NEW s \in Seq(X), NEW S, IsInjective(s)
  PROVE  IsInjective(Kept(s, S))
<1> DEFINE T == {t \in Seq(X) : IsInjective(t) => IsInjective(Kept(t, S))}
<1>1. <<>> \in T
  BY EmptySeq, KeptOfEmpty
<1>2. ASSUME NEW t \in Seq(X), NEW x \in X, t \in T PROVE Append(t, x) \in T
  <2> DEFINE k == Kept(t, S)
  <2>1. /\ Append(t, x) \in Seq(X) /\ Len(t) \in Nat /\ Len(Append(t, x)) = Len(t) + 1
        /\ \A i \in 1..Len(t) : Append(t, x)[i] = t[i]
        /\ Append(t, x)[Len(t) + 1] = x
        /\ DOMAIN t = 1..Len(t) /\ DOMAIN Append(t, x) = 1..(Len(t) + 1)
    BY AppendProperties, LenProperties
  <2>2. /\ k \in Seq(X) /\ Len(k) \in Nat /\ Len(Append(k, x)) = Len(k) + 1
        /\ \A i \in 1..Len(k) : Append(k, x)[i] = k[i]
        /\ Append(k, x)[Len(k) + 1] = x
        /\ DOMAIN k = 1..Len(k) /\ DOMAIN Append(k, x) = 1..(Len(k) + 1)
    BY KeptType, AppendProperties, LenProperties
  <2>3. Range(k) \subseteq Range(t)
    BY KeptMembers
  <2> HIDE DEF k
  <2>4. ASSUME IsInjective(Append(t, x)) PROVE IsInjective(t) /\ x \notin Range(t)
    <3>1. \A i, j \in 1..(Len(t) + 1) : Append(t, x)[i] = Append(t, x)[j] => i = j
      BY <2>1, <2>4 DEF IsInjective
    <3>2. IsInjective(t)
      BY <2>1, <3>1 DEF IsInjective
    <3>3. ASSUME NEW i \in 1..Len(t), t[i] = x PROVE FALSE
      <4>1. i \in 1..(Len(t) + 1) /\ Len(t) + 1 \in 1..(Len(t) + 1) /\ i # Len(t) + 1
        BY <2>1
      <4> QED
        BY <2>1, <3>1, <3>3, <4>1
    <3> QED
      BY <2>1, <3>2, <3>3 DEF Range
  <2>5. ASSUME IsInjective(k), x \notin Range(k) PROVE IsInjective(Append(k, x))
    <3>1. \A i \in 1..Len(k) : k[i] # x
      BY <2>2, <2>5 DEF Range
    <3>2. \A i, j \in 1..Len(k) : k[i] = k[j] => i = j
      BY <2>2, <2>5 DEF IsInjective
    <3>3. ASSUME NEW i \in 1..(Len(k) + 1), NEW j \in 1..(Len(k) + 1), Append(k, x)[i] = Append(k, x)[j]
          PROVE  i = j
      <4>1. (i \in 1..Len(k) \/ i = Len(k) + 1) /\ (j \in 1..Len(k) \/ j = Len(k) + 1)
        BY <2>2
      <4> QED
        BY <2>2, <3>1, <3>2, <3>3, <4>1
    <3> QED
      BY <2>2, <3>3 DEF IsInjective
  <2>6. Kept(Append(t, x), S) = IF x \in S THEN Append(k, x) ELSE k
    BY KeptOfAppend DEF k
  <2> QED
    BY <1>2, <2>1, <2>3, <2>4, <2>5, <2>6 DEF k
<1> HIDE DEF T
<1>3. Seq(X) \subseteq T
  BY <1>1, <1>2, EveryList
<1> QED
  BY <1>3 DEF T

-----------------------------------------------------------------------------
(* Sets in an order, and lists of lists.                                   *)

(* A finite set whose members have different numbers up to its size has one *)
(* of each number.                                                         *)
LEMMA EveryNumberIsTaken ==
  ASSUME NEW S, IsFiniteSet(S), NEW n, n = Cardinality(S), NEW r \in [S -> 1..n],
         \A x, y \in S : r[x] = r[y] => x = y
  PROVE  n \in Nat /\ \A k \in 1..n : \E x \in S : r[x] = k
<1>1. n \in Nat
  BY FS_CardinalityType
<1>2. IsFiniteSet(1..n) /\ Cardinality(1..n) = n
  BY <1>1, FS_Interval
<1>3. r \in Injection(S, 1..n)
  BY DEF Injection, IsInjective
<1>4. r \in Surjection(S, 1..n)
  BY <1>2, <1>3, FS_Injection
<1> QED
  BY <1>1, <1>4 DEF Surjection

(* The members of S that R puts before x. *)
Earlier(S, R, x) == {y \in S : <<y, x>> \in R}

StrictlyOrders(R, S) ==
  /\ \A x \in S : <<x, x>> \notin R
  /\ \A x, y, z \in S : <<x, y>> \in R /\ <<y, z>> \in R => <<x, z>> \in R
  /\ \A x, y \in S : x # y => <<x, y>> \in R \/ <<y, x>> \in R

(* What comes before a member of a finite set is finite. *)
LEMMA FewAreEarlier ==
  ASSUME NEW S, IsFiniteSet(S), NEW R, StrictlyOrders(R, S), NEW x \in S
  PROVE  IsFiniteSet(Earlier(S, R, x)) /\ Cardinality(Earlier(S, R, x)) + 1 \in 1..Cardinality(S)
<1>1. Earlier(S, R, x) \in SUBSET (S \ {x})
  BY DEF Earlier, StrictlyOrders
<1>2. IsFiniteSet(S \ {x}) /\ Cardinality(S \ {x}) = Cardinality(S) - 1 /\ Cardinality(S) \in Nat
  BY FS_RemoveElement, FS_CardinalityType
<1>3. IsFiniteSet(Earlier(S, R, x)) /\ Cardinality(Earlier(S, R, x)) <= Cardinality(S) - 1
  BY <1>1, <1>2, FS_Subset
<1>4. Cardinality(Earlier(S, R, x)) \in Nat
  BY <1>3, FS_CardinalityType
<1> QED
  BY <1>2, <1>3, <1>4

(* A member that comes before another has fewer before it. *)
LEMMA FewerAreEarlier ==
  ASSUME NEW S, IsFiniteSet(S), NEW R, StrictlyOrders(R, S), NEW x \in S, NEW y \in S, <<x, y>> \in R
  PROVE  Cardinality(Earlier(S, R, x)) < Cardinality(Earlier(S, R, y))
<1>1. Earlier(S, R, x) \in SUBSET Earlier(S, R, y) /\ x \in Earlier(S, R, y) /\ x \notin Earlier(S, R, x)
  BY DEF Earlier, StrictlyOrders
<1>2. IsFiniteSet(Earlier(S, R, x)) /\ IsFiniteSet(Earlier(S, R, y))
  BY FewAreEarlier
<1>3. Cardinality(Earlier(S, R, x)) <= Cardinality(Earlier(S, R, y))
      /\ Cardinality(Earlier(S, R, x)) # Cardinality(Earlier(S, R, y))
  BY <1>1, <1>2, FS_Subset
<1>4. Cardinality(Earlier(S, R, x)) \in Nat /\ Cardinality(Earlier(S, R, y)) \in Nat
  BY <1>2, FS_CardinalityType
<1> QED
  BY <1>3, <1>4

(* A finite set that R orders strictly and totally is listed whole.         *)
LEMMA InOrderMembers ==
  ASSUME NEW S, IsFiniteSet(S), NEW R, StrictlyOrders(R, S)
  PROVE  InOrder(S, R) \in Seq(S) /\ Range(InOrder(S, R)) = S
<1> DEFINE n == Cardinality(S)
           c(x) == Cardinality(Earlier(S, R, x))
           at(k) == CHOOSE x \in S : c(x) = k - 1
           o == [k \in 1..n |-> at(k)]
           r == [x \in S |-> c(x) + 1]
<1>1. InOrder(S, R) = o
  BY DEF InOrder, Earlier
<1>2. \A x \in S : c(x) \in Int /\ c(x) + 1 \in 1..n
  BY FewAreEarlier, FS_CardinalityType
<1>3. \A x, y \in S : c(x) = c(y) => x = y
  <2>1. \A x, y \in S : <<x, y>> \in R => c(x) < c(y)
    BY FewerAreEarlier
  <2>2. \A x, y \in S : x # y => <<x, y>> \in R \/ <<y, x>> \in R
    BY DEF StrictlyOrders
  <2> HIDE DEF c
  <2>3. ASSUME NEW x \in S, NEW y \in S, c(x) = c(y) PROVE x = y
    <3>1. c(x) \in Int /\ ~ c(x) < c(y) /\ ~ c(y) < c(x)
      BY <1>2, <2>3
    <3> QED
      BY <2>1, <2>2, <3>1
  <2> QED
    BY <2>3
<1>4. n = Cardinality(S)
  OBVIOUS
<1> HIDE DEF c, n
<1>5. r \in [S -> 1..n] /\ \A x \in S : r[x] = c(x) + 1
  BY <1>2
<1>6. \A x, y \in S : r[x] = r[y] => x = y
  BY <1>2, <1>3
<1> HIDE DEF r
<1>7. n \in Nat /\ \A k \in 1..n : \E x \in S : r[x] = k
  BY <1>4, <1>5, <1>6, EveryNumberIsTaken
<1>8. \A k \in 1..n : at(k) \in S /\ c(at(k)) = k - 1
  <2>1. ASSUME NEW k \in 1..n PROVE \E x \in S : c(x) = k - 1
    <3>1. PICK x \in S : r[x] = k
      BY <1>7
    <3> QED
      BY <1>2, <1>5, <3>1
  <2> QED
    BY <2>1
<1> HIDE DEF at
<1>9. o \in [1..n -> S] /\ DOMAIN o = 1..n /\ \A k \in 1..n : o[k] = at(k)
  BY <1>8
<1> HIDE DEF o
<1>10. o \in Seq(S)
  BY <1>7, <1>9, SeqDef
<1>11. ASSUME NEW x \in S PROVE x \in Range(o)
  <2>1. c(x) + 1 \in 1..n /\ (c(x) + 1) - 1 = c(x)
    BY <1>2
  <2>2. at(c(x) + 1) \in S /\ c(at(c(x) + 1)) = c(x)
    BY <1>8, <2>1
  <2>3. at(c(x) + 1) = x
    BY <1>3, <2>2
  <2> QED
    BY <1>9, <2>1, <2>3 DEF Range
<1>12. Range(o) \subseteq S
  BY <1>9 DEF Range
<1> QED
  BY <1>1, <1>10, <1>11, <1>12

(* F[i] is the first i lists joined. *)
Joins(F, ss) == F[0] = <<>> /\ \A i \in 1..Len(ss) : F[i] = F[i - 1] \o ss[i]

LEMMA FlattenSteps ==
  ASSUME NEW X, NEW ss \in Seq(Seq(X))
  PROVE  \E F \in [0..Len(ss) -> Seq(X)] : FlattenSeq(ss) = F[Len(ss)] /\ Joins(F, ss)
<1> DEFINE n == Len(ss)
           V == Seq(X)
           e == <<>>
           step == [i \in 1..n |-> [t \in V |-> t \o ss[i]]]
           Solves(f) == f = [i \in 1..n |-> IF i = 1 THEN ss[i] ELSE f[i - 1] \o ss[i]]
           flat == CHOOSE f : Solves(f)
<1>1. n \in Nat /\ e \in V /\ (\A i \in 1..n : ss[i] \in V) /\ (n = 0 => ss = e)
  BY LenProperties, ElementOfSeq, EmptySeq
<1>2. n # 0 => FlattenSeq(ss) = flat[n]
  BY DEF FlattenSeq
<1>3. n = 0 => FlattenSeq(ss) = ss
  BY DEF FlattenSeq
<1>4. step \in [1..n -> [V -> V]]
  <2>1. ASSUME NEW i \in 1..n, NEW t \in V PROVE t \o ss[i] \in V
    BY <1>1, ConcatProperties
  <2> QED
    BY <2>1
<1>5. \A i \in 1..n, t \in V : step[i][t] = t \o ss[i]
  OBVIOUS
<1>6. \A i \in 1..n : e \o ss[i] = ss[i]
  BY <1>1, ConcatEmptySeq
<1> HIDE DEF n, V, e, step, Solves
<1>7. PICK F \in [0..n -> V] : Follows(F, n, e, step)
  BY <1>1, <1>4, Recursion
<1>8. F[0] = e /\ \A i \in 1..n : F[i] = F[i - 1] \o ss[i]
  <2>1. \A i \in 1..n : F[i - 1] \in V
    BY <1>1
  <2> QED
    BY <1>5, <1>7, <2>1 DEF Follows
<1>9. Solves([i \in 1..n |-> F[i]])
  <2> DEFINE f == [i \in 1..n |-> F[i]]
  <2>1. ASSUME NEW i \in 1..n PROVE F[i] = IF i = 1 THEN ss[i] ELSE f[i - 1] \o ss[i]
    <3>1. CASE i = 1
      <4>1. 1 \in 1..n /\ 1 - 1 = 0
        BY <3>1
      <4>2. F[1] = F[0] \o ss[1] /\ e \o ss[1] = ss[1]
        BY <1>6, <1>8, <4>1
      <4>3. F[1] = ss[1]
        BY <1>8, <4>2
      <4> QED
        BY <3>1, <4>3
    <3>2. CASE i # 1
      <4>1. i - 1 \in 1..n
        BY <1>1, <3>2
      <4> QED
        BY <1>8, <3>2, <4>1
    <3> QED
      BY <3>1, <3>2
  <2> QED
    BY <2>1 DEF Solves
<1>10. Solves(flat)
  BY <1>9
<1>11. \A i \in 1..n : flat[i] = IF i = 1 THEN ss[i] ELSE flat[i - 1] \o ss[i]
  <2> HIDE DEF flat
  <2> QED
    BY <1>10 DEF Solves
<1> HIDE DEF flat
<1> DEFINE T == {k \in 0..n : k = 0 \/ flat[k] = F[k]}
<1>12. 0 \in T
  BY <1>1
<1>13. ASSUME NEW i \in 1..n, i - 1 \in T PROVE i \in T
  <2>1. CASE i = 1
    <3>1. 1 \in 1..n /\ 1 - 1 = 0 /\ 1 \in 0..n
      BY <2>1
    <3>2. F[1] = F[0] \o ss[1] /\ e \o ss[1] = ss[1] /\ flat[1] = ss[1]
      BY <1>6, <1>8, <1>11, <3>1
    <3>3. F[1] = ss[1]
      BY <1>8, <3>2
    <3> QED
      BY <2>1, <3>1, <3>2, <3>3
  <2>2. CASE i # 1
    <3>1. i - 1 # 0 /\ i \in 0..n
      BY <2>2
    <3>2. flat[i - 1] = F[i - 1]
      BY <1>13, <3>1
    <3> QED
      BY <1>8, <1>11, <2>2, <3>1, <3>2
  <2> QED
    BY <2>1, <2>2
<1>14. n = 0 \/ flat[n] = F[n]
  <2> HIDE DEF T
  <2>1. 0..n \subseteq T
    BY <1>1, <1>12, <1>13, UpTo
  <2> QED
    BY <1>1, <2>1 DEF T
<1>15. FlattenSeq(ss) = F[n]
  BY <1>1, <1>2, <1>3, <1>8, <1>14
<1> QED
  BY <1>8, <1>15 DEF n, V, e, Joins

(* A list of lists, flattened, has the members of the lists. *)
LEMMA FlattenMembers ==
  ASSUME NEW X, NEW ss \in Seq(Seq(X))
  PROVE  /\ FlattenSeq(ss) \in Seq(X)
         /\ \A x \in Range(FlattenSeq(ss)) : \E i \in 1..Len(ss) : x \in Range(ss[i])
<1>1. PICK F \in [0..Len(ss) -> Seq(X)] : FlattenSeq(ss) = F[Len(ss)] /\ Joins(F, ss)
  BY FlattenSteps
<1>2. Len(ss) \in Nat /\ \A i \in 1..Len(ss) : ss[i] \in Seq(X)
  BY LenProperties, ElementOfSeq
<1> DEFINE T == {k \in 0..Len(ss) : \A x \in Range(F[k]) : \E i \in 1..Len(ss) : x \in Range(ss[i])}
<1>3. 0 \in T
  <2>1. F[0] = <<>> /\ Range(<<>>) = {}
    BY <1>1, EmptySeq DEF Joins, Range
  <2> QED
    BY <1>2, <2>1
<1>4. ASSUME NEW i \in 1..Len(ss), i - 1 \in T PROVE i \in T
  <2>1. i - 1 \in 0..Len(ss) /\ i \in 0..Len(ss)
    BY <1>2
  <2>3. F[i] = F[i - 1] \o ss[i] /\ F[i - 1] \in Seq(X) /\ ss[i] \in Seq(X)
    BY <1>1, <1>2, <2>1 DEF Joins
  <2>2. Range(F[i]) = Range(F[i - 1]) \cup Range(ss[i])
    BY <2>3, RangeConcatenation
  <2> QED
    BY <1>4, <2>1, <2>2
<1>5. 0..Len(ss) \subseteq T
  <2> HIDE DEF T
  <2> QED
    BY <1>2, <1>3, <1>4, UpTo
<1> QED
  BY <1>1, <1>2, <1>5

-----------------------------------------------------------------------------
(* Lists with a member more or less, and pages of them.                    *)

(* A list cut in two is the two parts joined. *)
LEMMA CutInTwo ==
  ASSUME NEW X, NEW s \in Seq(X), NEW i \in 0..Len(s)
  PROVE  /\ SubSeq(s, 1, i) \in Seq(X) /\ SubSeq(s, i + 1, Len(s)) \in Seq(X)
         /\ Len(SubSeq(s, 1, i)) = i /\ Len(SubSeq(s, i + 1, Len(s))) = Len(s) - i
         /\ \A k \in 1..i : SubSeq(s, 1, i)[k] = s[k]
         /\ s = SubSeq(s, 1, i) \o SubSeq(s, i + 1, Len(s))
<1>1. Len(s) \in Nat /\ i \in Int /\ \A k \in 1..Len(s) : s[k] \in X
  BY LenProperties, ElementOfSeq
<1>2. \A k \in 1..i : s[k] \in X
  BY <1>1
<1>3. \A k \in (i + 1)..Len(s) : s[k] \in X
  BY <1>1
<1>4. /\ SubSeq(s, 1, i) \in Seq(X) /\ Len(SubSeq(s, 1, i)) = IF 1 <= i THEN i - 1 + 1 ELSE 0
      /\ \A k \in 1..(i - 1 + 1) : SubSeq(s, 1, i)[k] = s[1 + k - 1]
  BY <1>1, <1>2, SubSeqProperties
<1>5. /\ SubSeq(s, i + 1, Len(s)) \in Seq(X)
      /\ Len(SubSeq(s, i + 1, Len(s))) = IF i + 1 <= Len(s) THEN Len(s) - (i + 1) + 1 ELSE 0
  BY <1>1, <1>3, SubSeqProperties
<1>6. s = SubSeq(s, 1, i) \o SubSeq(s, i + 1, Len(s))
  <2>1. 1 \in 1..(Len(s) + 1) /\ i \in (1 - 1)..Len(s) /\ Len(s) \in i..Len(s)
    BY <1>1
  <2> QED
    BY <2>1, ConcatAdjacentSubSeq, SubSeqFull
<1>7. Len(SubSeq(s, 1, i)) = i /\ Len(SubSeq(s, i + 1, Len(s))) = Len(s) - i
  BY <1>1, <1>4, <1>5
<1>8. ASSUME NEW k \in 1..i PROVE SubSeq(s, 1, i)[k] = s[k]
  <2>1. k \in 1..(i - 1 + 1) /\ 1 + k - 1 = k
    BY <1>1
  <2> QED
    BY <1>4, <2>1
<1> QED
  BY <1>4, <1>5, <1>6, <1>7, <1>8

(* g is s with e put in after the first a members. *)
IsPut(g, s, a, e) ==
  /\ a \in 0..Len(s) /\ Len(g) = Len(s) + 1
  /\ \A k \in 1..a : g[k] = s[k]
  /\ g[a + 1] = e
  /\ \A k \in (a + 1)..Len(s) : g[k + 1] = s[k]

LEMMA PutBetween ==
  ASSUME NEW X, NEW a \in Seq(X), NEW b \in Seq(X), NEW e \in X
  PROVE  /\ a \o b \in Seq(X) /\ a \o <<e>> \o b \in Seq(X)
         /\ IsPut(a \o <<e>> \o b, a \o b, Len(a), e)
<1> DEFINE ae == a \o <<e>>
<1>1. <<e>> \in Seq(X) /\ Len(<<e>>) = 1 /\ <<e>>[1] = e
  OBVIOUS
<1>2. PICK la \in Nat, lb \in Nat : la = Len(a) /\ lb = Len(b)
  BY LenProperties
<1>3. ae \in Seq(X) /\ Len(ae) = la + 1 /\ ae[la + 1] = e /\ \A k \in 1..la : ae[k] = a[k]
  <2>1. ae = Append(a, e)
    BY AppendIsConcat
  <2> QED
    BY <1>2, <2>1, AppendProperties
<1> HIDE DEF ae
<1>4. /\ ae \o b \in Seq(X) /\ Len(ae \o b) = la + 1 + lb
      /\ \A k \in 1..(la + 1 + lb) : (ae \o b)[k] = IF k <= la + 1 THEN ae[k] ELSE b[k - (la + 1)]
  <2>1. /\ ae \o b \in Seq(X) /\ Len(ae \o b) = Len(ae) + Len(b)
        /\ \A k \in 1..Len(ae) + Len(b) : (ae \o b)[k] = IF k <= Len(ae) THEN ae[k] ELSE b[k - Len(ae)]
    BY <1>3, ConcatProperties
  <2> QED
    BY <1>2, <1>3, <2>1
<1>5. /\ a \o b \in Seq(X) /\ Len(a \o b) = la + lb
      /\ \A k \in 1..(la + lb) : (a \o b)[k] = IF k <= la THEN a[k] ELSE b[k - la]
  BY <1>2, ConcatProperties
<1>6. ASSUME NEW k \in 1..la PROVE (ae \o b)[k] = (a \o b)[k]
  BY <1>3, <1>4, <1>5
<1>7. (ae \o b)[la + 1] = e
  BY <1>3, <1>4
<1>8. ASSUME NEW k \in (la + 1)..(la + lb) PROVE (ae \o b)[k + 1] = (a \o b)[k]
  <2>1. (k + 1) - (la + 1) = k - la /\ k + 1 \in 1..(la + 1 + lb) /\ k \in 1..(la + lb) /\ ~ k + 1 <= la + 1 /\ ~ k <= la
    OBVIOUS
  <2> QED
    BY <1>4, <1>5, <2>1
<1>9. PICK g \in Seq(X), s \in Seq(X) : g = ae \o b /\ s = a \o b
  BY <1>4, <1>5
<1>10. la \in 0..Len(s) /\ Len(g) = Len(s) + 1 /\ Len(s) = la + lb
  BY <1>2, <1>4, <1>5, <1>9
<1>11. IsPut(g, s, la, e)
  BY <1>6, <1>7, <1>8, <1>9, <1>10 DEF IsPut
<1> QED
  BY <1>2, <1>9, <1>11 DEF ae

(* A member put into a list without repetitions, that is not in it, leaves  *)
(* it without.                                                             *)
LEMMA PutIsInjective ==
  ASSUME NEW X, NEW s \in Seq(X), NEW g \in Seq(X), NEW a, NEW e, IsPut(g, s, a, e),
         IsInjective(s), e \notin Range(s)
  PROVE  IsInjective(g)
<1>1. PICK n \in Nat : n = Len(s)
  BY LenProperties
<1>2. /\ a \in 0..n /\ Len(g) = n + 1
      /\ \A k \in 1..a : g[k] = s[k]
      /\ g[a + 1] = e
      /\ \A k \in (a + 1)..n : g[k + 1] = s[k]
  BY <1>1 DEF IsPut
<1>3. DOMAIN s = 1..n /\ DOMAIN g = 1..(n + 1)
  BY <1>1, <1>2, LenProperties
<1>4. \A k \in 1..n : s[k] # e
  BY <1>3 DEF Range
<1>5. \A j, k \in 1..n : s[j] = s[k] => j = k
  BY <1>3 DEF IsInjective
<1>6. ASSUME NEW k \in 1..(n + 1), k # a + 1
      PROVE  \E i \in 1..n : g[k] = s[i] /\ i = IF k <= a THEN k ELSE k - 1
  <2>1. CASE k <= a
    <3>1. k \in 1..n /\ k \in 1..a
      BY <1>2, <2>1
    <3> QED
      BY <1>2, <2>1, <3>1
  <2>2. CASE ~ k <= a
    <3>1. k - 1 \in (a + 1)..n /\ k - 1 \in 1..n /\ (k - 1) + 1 = k
      BY <1>2, <1>6, <2>2
    <3>2. g[(k - 1) + 1] = s[k - 1]
      BY <1>2, <3>1
    <3> QED
      BY <2>2, <3>1, <3>2
  <2> QED
    BY <2>1, <2>2
<1>7. ASSUME NEW j \in 1..(n + 1), NEW k \in 1..(n + 1), g[j] = g[k] PROVE j = k
  <2>1. CASE j = a + 1 \/ k = a + 1
    <3>1. j = a + 1 => k = a + 1
      BY <1>2, <1>4, <1>6, <1>7
    <3>2. k = a + 1 => j = a + 1
      BY <1>2, <1>4, <1>6, <1>7
    <3> QED
      BY <2>1, <3>1, <3>2
  <2>2. CASE j # a + 1 /\ k # a + 1
    <3>1. PICK i1 \in 1..n : g[j] = s[i1] /\ i1 = IF j <= a THEN j ELSE j - 1
      BY <1>6, <2>2
    <3>2. PICK i2 \in 1..n : g[k] = s[i2] /\ i2 = IF k <= a THEN k ELSE k - 1
      BY <1>6, <2>2
    <3>3. i1 = i2
      BY <1>5, <1>7, <3>1, <3>2
    <3>4. j \in Int /\ k \in Int /\ a \in Int
      BY <1>2
    <3> QED
      BY <2>2, <3>1, <3>2, <3>3, <3>4
  <2> QED
    BY <2>1, <2>2
<1> QED
  BY <1>3, <1>7 DEF IsInjective

(* A member taken out of a list without repetitions leaves it without. *)
LEMMA RemoveIsInjective ==
  ASSUME NEW X, NEW s \in Seq(X), IsInjective(s), NEW i \in 1..Len(s)
  PROVE  RemoveAt(s, i) \in Seq(X) /\ IsInjective(RemoveAt(s, i))
<1>1. PICK n \in Nat : n = Len(s) /\ DOMAIN s = 1..n
  BY LenProperties
<1>2. i - 1 \in 0..Len(s) /\ i \in 0..Len(s) /\ i \in Int
  BY <1>1
<1> DEFINE x == SubSeq(s, 1, i - 1)
           y == SubSeq(s, i + 1, Len(s))
<1>3. /\ x \in Seq(X) /\ Len(x) = i - 1 /\ \A k \in 1..(i - 1) : x[k] = s[k]
  BY <1>2, CutInTwo
<1>4. y \in Seq(X) /\ Len(y) = n - i
  BY <1>1, <1>2, CutInTwo
<1>5. ASSUME NEW k \in 1..(n - i) PROVE y[k] = s[k + i]
  <2>1. s = SubSeq(s, 1, i) \o y /\ SubSeq(s, 1, i) \in Seq(X) /\ Len(SubSeq(s, 1, i)) = i
    BY <1>2, CutInTwo
  <2> HIDE DEF y
  <2>2. PICK z \in Seq(X) : z = SubSeq(s, 1, i) /\ s = z \o y /\ Len(z) = i
    BY <2>1
  <2>3. k + i \in 1..(Len(z) + Len(y)) /\ ~ k + i <= Len(z) /\ (k + i) - Len(z) = k
    BY <1>1, <1>2, <1>4, <2>2
  <2> QED
    BY <1>4, <2>2, <2>3, ConcatProperties
<1> HIDE DEF x, y
<1>6. RemoveAt(s, i) = x \o y
  BY DEF RemoveAt, x, y
<1>7. PICK g \in Seq(X) : /\ g = x \o y /\ Len(g) = n - 1
                          /\ \A k \in 1..(n - 1) : g[k] = IF k <= i - 1 THEN x[k] ELSE y[k - (i - 1)]
  <2>1. /\ x \o y \in Seq(X) /\ Len(x \o y) = Len(x) + Len(y)
        /\ \A k \in 1..(Len(x) + Len(y)) : (x \o y)[k] = IF k <= Len(x) THEN x[k] ELSE y[k - Len(x)]
    BY <1>3, <1>4, ConcatProperties
  <2>2. Len(x) + Len(y) = n - 1
    BY <1>1, <1>2, <1>3, <1>4
  <2> QED
    BY <1>3, <2>1, <2>2
<1>8. ASSUME NEW k \in 1..(n - 1)
      PROVE  \E j \in 1..n : g[k] = s[j] /\ j = IF k <= i - 1 THEN k ELSE k + 1
  <2>1. CASE k <= i - 1
    <3>1. k \in 1..(i - 1) /\ k \in 1..n
      BY <1>1, <2>1
    <3> QED
      BY <1>3, <1>7, <2>1, <3>1
  <2>2. CASE ~ k <= i - 1
    <3>1. k - (i - 1) \in 1..(n - i) /\ (k - (i - 1)) + i = k + 1 /\ k + 1 \in 1..n
      BY <1>1, <1>2, <2>2
    <3> QED
      BY <1>5, <1>7, <2>2, <3>1
  <2> QED
    BY <2>1, <2>2
<1>9. ASSUME NEW k \in 1..(n - 1), NEW l \in 1..(n - 1), g[k] = g[l] PROVE k = l
  <2>1. PICK j1 \in 1..n : g[k] = s[j1] /\ j1 = IF k <= i - 1 THEN k ELSE k + 1
    BY <1>8
  <2>2. PICK j2 \in 1..n : g[l] = s[j2] /\ j2 = IF l <= i - 1 THEN l ELSE l + 1
    BY <1>8
  <2>3. j1 = j2
    BY <1>1, <1>9, <2>1, <2>2 DEF IsInjective
  <2> QED
    BY <1>2, <2>1, <2>2, <2>3
<1>10. DOMAIN g = 1..(n - 1)
  BY <1>7, LenProperties
<1> QED
  BY <1>6, <1>7, <1>9, <1>10 DEF IsInjective

(* A row put into a list is put into what is kept of the list, if it is     *)
(* wanted.                                                                 *)
LEMMA KeptOfInsert ==
  ASSUME NEW X, NEW s \in Seq(X), NEW i \in 1..(Len(s) + 1), NEW e \in X, NEW S
  PROVE  /\ InsertAt(s, i, e) \in Seq(X)
         /\ \E a : IsPut(InsertAt(s, i, e), s, a, e)
         /\ IF e \in S THEN \E a : IsPut(Kept(InsertAt(s, i, e), S), Kept(s, S), a, e)
            ELSE Kept(InsertAt(s, i, e), S) = Kept(s, S)
<1> DEFINE x == SubSeq(s, 1, i - 1)
           y == SubSeq(s, i, Len(s))
<1>1. x \in Seq(X) /\ y \in Seq(X) /\ s = x \o y
  <2>1. i - 1 \in 0..Len(s) /\ (i - 1) + 1 = i
    BY LenProperties
  <2> QED
    BY <2>1, CutInTwo
<1>2. InsertAt(s, i, e) = x \o <<e>> \o y
  BY DEF InsertAt
<1> HIDE DEF x, y
<1>3. /\ Kept(x, S) \in Seq(X) /\ Kept(y, S) \in Seq(X)
      /\ Kept(x \o y, S) = Kept(x, S) \o Kept(y, S)
  <2>1. KeepsEach(x, y, S)
    BY <1>1, KeptOfConcat
  <2> QED
    BY <1>1, <2>1, KeptType DEF KeepsEach
<1>4. x \o <<e>> = Append(x, e) /\ Append(x, e) \in Seq(X)
  BY <1>1, AppendIsConcat, AppendProperties
<1> DEFINE xe == Append(x, e)
<1> HIDE DEF xe
<1>5. Kept(xe \o y, S) = Kept(xe, S) \o Kept(y, S)
  <2>1. xe \in Seq(X)
    BY <1>4 DEF xe
  <2>2. KeepsEach(xe, y, S)
    BY <1>1, <2>1, KeptOfConcat
  <2> QED
    BY <2>2 DEF KeepsEach
<1>6. Kept(xe, S) = IF e \in S THEN Append(Kept(x, S), e) ELSE Kept(x, S)
  BY <1>1, KeptOfAppend DEF xe
<1>7. PICK a \in Seq(X), b \in Seq(X) : a = Kept(x, S) /\ b = Kept(y, S)
  BY <1>3
<1>8. Append(a, e) = a \o <<e>>
  BY AppendIsConcat
<1>9. Kept(InsertAt(s, i, e), S) = IF e \in S THEN a \o <<e>> \o b ELSE a \o b
  BY <1>2, <1>4, <1>5, <1>6, <1>7, <1>8 DEF xe
<1>10. IsPut(a \o <<e>> \o b, a \o b, Len(a), e)
  BY PutBetween
<1>11. InsertAt(s, i, e) \in Seq(X) /\ IsPut(InsertAt(s, i, e), s, Len(x), e)
  BY <1>1, <1>2, PutBetween
<1>12. Kept(s, S) = a \o b
  BY <1>1, <1>3, <1>7
<1> QED
  BY <1>9, <1>10, <1>11, <1>12

-----------------------------------------------------------------------------
(* The walk over a list: the invariant.                                    *)
Requests == [offset : Int, limit : Int, search : {NoTerm, Spaces, Term}]

WalkTypeOK ==
  /\ list \in Seq(Rows) /\ IsInjective(list)
  /\ walk \in [pc : {"off", "reading", "done", "failed"}, request : Requests, req : Requests,
                items : Seq(Rows), total : Nat, start : Seq(Rows), removed : BOOLEAN, added : BOOLEAN]

(* What the first page asks for, and the next one. *)
First == PageQuery(walk.request)
Following == PageQuery(walk.req)

(* What the server finds, and of what it found at first what is due. *)
Standing == Found(First.search)
Due == SubSeq(walk.start, First.offset + 1, Len(walk.start))

(* Whether the server's pages are as long as they are asked to be. *)
Whole == First.limit <= ServerCap

(* Each page is asked for as the first was, from where the last one ended. *)
SameQuestion ==
  /\ First.offset \in Nat /\ First.limit \in Nat \ {0} /\ First.search \in {NoTerm, Term}
  /\ Following.offset \in Nat /\ First.offset <= Following.offset
  /\ Following.limit = First.limit /\ Following.search = First.search

TermIsKept == First.search = Term => Range(walk.items) \subseteq Matches

(* With nothing removed, what is due and stands before the next page has    *)
(* been collected.                                                         *)
NothingIsSkipped ==
  ~ walk.removed =>
    /\ Range(walk.start) \subseteq Range(Standing)
    /\ Whole => \A k \in 1..Len(Standing) :
         k <= Following.offset /\ Standing[k] \in Range(Due) => Standing[k] \in Range(walk.items)

(* With nothing added either, what has been collected is what is due, up to *)
(* there.                                                                  *)
CutInOrder ==
  ~ walk.removed /\ ~ walk.added =>
    /\ Standing = walk.start
    /\ Whole => walk.items =
         SubSeq(walk.start, First.offset + 1,
                IF Following.offset <= Len(walk.start) THEN Following.offset ELSE Len(walk.start))

ReadToTheEnd ==
  walk.pc = "done" => walk.total = Len(Standing) /\ (Whole => Len(Standing) <= Following.offset)

WalkInv ==
  /\ WalkTypeOK
  /\ walk.pc \in {"reading", "done"} =>
       SameQuestion /\ TermIsKept /\ NothingIsSkipped /\ CutInOrder /\ ReadToTheEnd

-----------------------------------------------------------------------------
(* Requests and pages.                                                     *)

LEMMA QueryIsSound ==
  ASSUME NEW r \in Requests
  PROVE  /\ PageQuery(r).offset \in Nat /\ PageQuery(r).limit \in Nat \ {0}
         /\ PageQuery(r).search \in {NoTerm, Term}
         /\ PageQuery(r).search = PageSearch(r.search)
         /\ PageQuery(r).offset = IF r.offset < 0 THEN 0 ELSE r.offset
<1>1. DefaultLimit \in Nat \ {0}
  BY WalkAssumption
<1>2. r.offset \in Int /\ r.limit \in Int /\ r.search \in {NoTerm, Spaces, Term}
  BY DEF Requests
<1>3. PageSearch(r.search) \in {NoTerm, Term}
  BY <1>2 DEF PageSearch
<1> QED
  BY <1>1, <1>2, <1>3 DEF PageQuery

(* A page asks its question as the first one did. *)
LEMMA NextIsSound ==
  ASSUME NEW r \in Requests
  PROVE  /\ PageNext(r) \in Requests
         /\ PageQuery(PageNext(r)).offset = PageQuery(r).offset + PageQuery(r).limit
         /\ PageQuery(PageNext(r)).limit = PageQuery(r).limit
         /\ PageQuery(PageNext(r)).search = PageQuery(r).search
<1>1. PICK o \in Nat, l \in Nat \ {0} : o = PageQuery(r).offset /\ l = PageQuery(r).limit
  BY QueryIsSound
<1>2. PageNext(r) = [offset |-> o + l, limit |-> l, search |-> r.search]
  BY <1>1 DEF PageNext
<1>3. PageNext(r) \in Requests
  BY <1>2 DEF Requests
<1>4. PageQuery(PageNext(r)) = [offset |-> o + l, limit |-> l, search |-> PageSearch(r.search)]
  BY <1>2 DEF PageQuery
<1> QED
  BY <1>1, <1>3, <1>4, QueryIsSound

(* What a page holds of what is found. *)
LEMMA PageIsCut ==
  ASSUME NEW X, NEW f \in Seq(X), NEW o \in Nat, NEW n \in Nat \ {0}, NEW last,
         last = IF o + n > Len(f) THEN Len(f) ELSE o + n, NEW page, page = SubSeq(f, o + 1, last)
  PROVE  /\ Len(f) \in Nat /\ last \in Nat
         /\ page \in Seq(X) /\ Range(page) \subseteq Range(f)
         /\ page = <<>> <=> Len(f) <= o
         /\ \A k \in 1..Len(f) : o < k /\ k <= o + n => f[k] \in Range(page)
<1>1. Len(f) \in Nat /\ last \in Nat /\ last <= Len(f) /\ \A k \in 1..Len(f) : f[k] \in X
  BY LenProperties, ElementOfSeq
<1>2. \A k \in (o + 1)..last : f[k] \in X
  BY <1>1
<1>3. /\ page \in Seq(X) /\ Len(page) = IF o + 1 <= last THEN last - (o + 1) + 1 ELSE 0
      /\ \A k \in 1..(last - (o + 1) + 1) : page[k] = f[(o + 1) + k - 1]
  BY <1>1, <1>2, SubSeqProperties
<1>4. page = <<>> <=> Len(page) = 0
  BY <1>3, EmptySeq
<1>5. Len(page) = 0 <=> Len(f) <= o
  BY <1>1, <1>3
<1>6. DOMAIN page = 1..Len(page) /\ DOMAIN f = 1..Len(f)
  BY <1>3, LenProperties
<1>7. ASSUME NEW k \in 1..Len(page) PROVE page[k] \in Range(f)
  <2>1. k \in 1..(last - (o + 1) + 1) /\ (o + 1) + k - 1 \in 1..Len(f)
    BY <1>1, <1>3
  <2> QED
    BY <1>3, <1>6, <2>1 DEF Range
<1>8. ASSUME NEW k \in 1..Len(f), o < k, k <= o + n PROVE f[k] \in Range(page)
  <2>1. k - o \in 1..(last - (o + 1) + 1) /\ (o + 1) + (k - o) - 1 = k /\ k - o \in 1..Len(page)
    BY <1>1, <1>3, <1>8
  <2> QED
    BY <1>3, <1>6, <2>1 DEF Range
<1> QED
  BY <1>1, <1>3, <1>4, <1>5, <1>6, <1>7, <1>8 DEF Range

(* What is kept of a list of rows. *)
Answering(search) == IF search = NoTerm THEN Rows ELSE Matches

LEMMA KeptRows ==
  ASSUME NEW l \in Seq(Rows), IsInjective(l), NEW search \in {NoTerm, Term}
  PROVE  /\ Kept(l, Answering(search)) \in Seq(Rows) /\ IsInjective(Kept(l, Answering(search)))
         /\ Range(Kept(l, Answering(search))) \subseteq Range(l)
         /\ search = Term => Range(Kept(l, Answering(search))) \subseteq Matches
  BY KeptType, KeptInjective, KeptMembers DEF Answering, NoTerm, Term

-----------------------------------------------------------------------------
(* Before a walk there is nothing to keep. *)
LEMMA WalkInitIsSound == WalkInit => WalkInv
<1> SUFFICES ASSUME WalkInit PROVE WalkInv
  OBVIOUS
<1>1. list \in Seq(Rows) /\ IsInjective(list)
  <2>1. PICK n \in 0..Cardinality(Rows) : list \in [1..n -> Rows]
    BY DEF WalkInit
  <2>2. n \in Nat
    OBVIOUS
  <2> QED
    BY <2>1, <2>2, SeqDef DEF WalkInit
<1>2. NoRequest \in Requests
  BY WalkAssumption DEF NoRequest, Requests
<1> QED
  BY <1>1, <1>2 DEF WalkInit, WalkInv, WalkTypeOK, NoWalk

(* A walk begins with nothing collected and nothing due before its place.   *)
LEMMA BeginPreserves == WalkInv /\ BeginWalk => WalkInv'
<1> SUFFICES ASSUME WalkInv, BeginWalk PROVE WalkInv'
  OBVIOUS
<1>1. PICK o \in Offsets, l \in Limits, s \in {NoTerm, Spaces, Term} :
         walk' = [NoWalk EXCEPT !.pc = "reading", !.request = [offset |-> o, limit |-> l, search |-> s],
                                !.req = [offset |-> o, limit |-> l, search |-> s],
                                !.start = Found(PageSearch(s))]
  BY DEF BeginWalk
<1>2. PICK r \in Requests : r = [offset |-> o, limit |-> l, search |-> s]
  BY WalkAssumption DEF Requests
<1>3. /\ list' = list /\ list \in Seq(Rows) /\ IsInjective(list)
  BY DEF BeginWalk, WalkInv, WalkTypeOK
<1>4. PICK search \in {NoTerm, Term} : search = PageSearch(s) /\ search = PageQuery(r).search
  BY <1>2, QueryIsSound
<1>5. PICK f \in Seq(Rows) : f = Kept(list, Answering(search)) /\ f = Found(search) /\ IsInjective(f)
  BY <1>3, <1>4, KeptRows DEF Found, Answering
<1>6. walk' = [pc |-> "reading", request |-> r, req |-> r, items |-> <<>>, total |-> 0, start |-> f,
               removed |-> FALSE, added |-> FALSE]
  BY <1>1, <1>2, <1>4, <1>5 DEF NoWalk
<1>7. WalkTypeOK'
  BY <1>3, <1>6 DEF WalkTypeOK
<1>8. PICK a \in Nat : a = PageQuery(r).offset /\ First'.offset = a /\ Following'.offset = a
  BY <1>6, QueryIsSound DEF First, Following
<1>9. SameQuestion' /\ First'.search = search
  BY <1>4, <1>6, <1>8, QueryIsSound DEF SameQuestion, First, Following
<1>10. Standing' = f
  BY <1>3, <1>5, <1>9 DEF Standing, Found
<1>11. Len(f) \in Nat /\ DOMAIN f = 1..Len(f) /\ \A k \in 1..Len(f) : f[k] \in Rows
  BY LenProperties, ElementOfSeq
<1>12. Due' = SubSeq(f, a + 1, Len(f))
  BY <1>6, <1>8 DEF Due
<1>13. ASSUME NEW k \in 1..Len(f), k <= a, f[k] \in Range(Due') PROVE FALSE
  <2>1. /\ Due' \in Seq(Rows) /\ Len(Due') = IF a + 1 <= Len(f) THEN Len(f) - (a + 1) + 1 ELSE 0
        /\ \A i \in 1..(Len(f) - (a + 1) + 1) : Due'[i] = f[(a + 1) + i - 1]
    <3>1. \A i \in (a + 1)..Len(f) : f[i] \in Rows
      BY <1>11
    <3> QED
      BY <1>11, <1>12, <3>1, SubSeqProperties
  <2>2. PICK i \in 1..Len(Due') : Due'[i] = f[k]
    BY <1>13, <2>1, LenProperties DEF Range
  <2>3. i \in 1..(Len(f) - (a + 1) + 1) /\ (a + 1) + i - 1 \in 1..Len(f) /\ (a + 1) + i - 1 # k
    <3>1. PICK n \in Nat : n = Len(f)
      BY <1>11
    <3>2. Len(Due') = IF a + 1 <= n THEN n - (a + 1) + 1 ELSE 0
      BY <2>1, <3>1
    <3>3. i \in 1..(n - (a + 1) + 1)
      BY <3>2
    <3> QED
      BY <1>13, <3>1, <3>3
  <2> QED
    BY <1>5, <1>11, <2>1, <2>2, <2>3 DEF IsInjective
<1>14. TermIsKept'
  BY <1>6, EmptySeq DEF TermIsKept, Range
<1>15. NothingIsSkipped'
  BY <1>6, <1>8, <1>10, <1>13 DEF NothingIsSkipped
<1>16. CutInOrder'
  <2> DEFINE end == IF a <= Len(f) THEN a ELSE Len(f)
  <2>1. end \in Int /\ end < a + 1
    BY <1>11
  <2>2. SubSeq(f, a + 1, end) = <<>>
    BY <2>1, SubSeqEmpty
  <2> QED
    BY <1>6, <1>8, <1>10, <2>2 DEF CutInOrder
<1>17. ReadToTheEnd'
  BY <1>6 DEF ReadToTheEnd
<1> QED
  BY <1>7, <1>9, <1>14, <1>15, <1>16, <1>17 DEF WalkInv

(* A walk under way, in the facts that its steps use.                       *)
LEMMA UnderWay ==
  ASSUME WalkInv, walk.pc = "reading"
  PROVE  \E r \in Requests, c \in Requests, its \in Seq(Rows), st \in Seq(Rows), removed \in BOOLEAN,
           added \in BOOLEAN, total \in Nat :
           /\ walk = [pc |-> "reading", request |-> r, req |-> c, items |-> its, total |-> total,
                      start |-> st, removed |-> removed, added |-> added]
<1>1. walk \in [pc : {"off", "reading", "done", "failed"}, request : Requests, req : Requests,
                items : Seq(Rows), total : Nat, start : Seq(Rows), removed : BOOLEAN, added : BOOLEAN]
  BY DEF WalkInv, WalkTypeOK
<1>2. walk = [pc |-> walk.pc, request |-> walk.request, req |-> walk.req, items |-> walk.items,
              total |-> walk.total, start |-> walk.start, removed |-> walk.removed, added |-> walk.added]
  BY <1>1
<1> QED
  BY <1>1, <1>2

(* The rows that stand are rows of the list. *)
LEMMA StandingIsSound ==
  ASSUME WalkInv, walk.pc = "reading"
  PROVE  /\ Standing \in Seq(Rows) /\ Range(Standing) \subseteq Range(list)
         /\ First.search = Term => Range(Standing) \subseteq Matches
<1>1. list \in Seq(Rows) /\ IsInjective(list) /\ First.search \in {NoTerm, Term}
  BY DEF WalkInv, WalkTypeOK, SameQuestion
<1> QED
  BY <1>1, KeptRows DEF Standing, Found, Answering

(* Pages that follow each other make one cut. *)
OneCut(f, m, o, end) == SubSeq(f, m, o) \o SubSeq(f, o + 1, end) = SubSeq(f, m, end)

LEMMA PagesMakeOneCut ==
  ASSUME NEW X, NEW f \in Seq(X), NEW m \in 1..(Len(f) + 1), NEW o \in (m - 1)..Len(f),
         NEW end \in o..Len(f)
  PROVE  OneCut(f, m, o, end)
BY ConcatAdjacentSubSeq DEF OneCut

(* A page with rows is added to what has been collected.                    *)
AddsPage(page) ==
  /\ page = ServerPage(Following) /\ page # <<>>
  /\ walk' = [walk EXCEPT !.items = @ \o page, !.total = Len(Found(Following.search)),
                          !.req = PageNext(walk.req)]
  /\ list' = list

(* The walk and the server as such a step finds and leaves them: o rows are  *)
(* behind the walk, and n are asked for.                                    *)
IsPage(page, f, o, n, got) ==
  /\ Standing = f /\ Following.offset = o /\ Following.limit = n /\ First.limit = n
  /\ Following.search = First.search
  /\ o < Len(f) /\ Range(page) \subseteq Range(f) /\ Range(got) = Range(walk.items) \cup Range(page)
  /\ got = walk.items \o page
  /\ Whole => /\ page = SubSeq(f, o + 1, IF o + n > Len(f) THEN Len(f) ELSE o + n)
              /\ \A k \in 1..Len(f) : o < k /\ k <= o + n => f[k] \in Range(page)

(* A page is a cut of what is found, from its offset on. *)
LEMMA PageIsFound ==
  ASSUME WalkInv, walk.pc = "reading", NEW page, AddsPage(page)
  PROVE  \E f \in Seq(Rows), o \in Nat, n \in Nat \ {0}, got \in Seq(Rows) : IsPage(page, f, o, n, got)
<1>1. PICK o \in Nat, n \in Nat \ {0} :
        /\ o = Following.offset /\ n = First.limit /\ n = Following.limit
        /\ Following.search = First.search
  BY DEF WalkInv, SameQuestion
<1>2. PICK f \in Seq(Rows) : f = Standing
  BY StandingIsSound
<1>3. PICK m \in Nat \ {0} : m = (IF n > ServerCap THEN ServerCap ELSE n) /\ (Whole => m = n)
  <2>1. ServerCap \in Nat \ {0}
    BY WalkAssumption
  <2> QED
    BY <1>1, <2>1 DEF Whole
<1>4. PICK last : last = (IF o + m > Len(f) THEN Len(f) ELSE o + m) /\ page = SubSeq(f, o + 1, last)
  BY <1>1, <1>2, <1>3 DEF ServerPage, AddsPage, Standing
<1>5. /\ Len(f) \in Nat
      /\ page \in Seq(Rows) /\ Range(page) \subseteq Range(f) /\ ~ Len(f) <= o
      /\ \A k \in 1..Len(f) : o < k /\ k <= o + m => f[k] \in Range(page)
  BY <1>4, PageIsCut DEF AddsPage
<1>6. walk.items \in Seq(Rows)
  BY DEF WalkInv, WalkTypeOK
<1>7. walk.items \o page \in Seq(Rows) /\ Range(walk.items \o page) = Range(walk.items) \cup Range(page)
  BY <1>5, <1>6, ConcatProperties, RangeConcatenation
<1>8. PICK got \in Seq(Rows) : got = walk.items \o page /\ Range(got) = Range(walk.items) \cup Range(page)
  BY <1>7
<1>9. ASSUME Whole
      PROVE  /\ page = SubSeq(f, o + 1, IF o + n > Len(f) THEN Len(f) ELSE o + n)
             /\ \A k \in 1..Len(f) : o < k /\ k <= o + n => f[k] \in Range(page)
  BY <1>3, <1>4, <1>5, <1>9
<1>10. o < Len(f)
  BY <1>5
<1>11. IsPage(page, f, o, n, got)
  BY <1>1, <1>2, <1>5, <1>8, <1>9, <1>10 DEF IsPage
<1> QED
  BY <1>11

(* A page with rows is added where the last one ended. *)
LEMMA AddsPagePreserves ==
  ASSUME WalkInv, walk.pc = "reading", NEW page, AddsPage(page)
  PROVE  WalkInv'
<1>1. PICK f \in Seq(Rows), o \in Nat, n \in Nat \ {0}, got \in Seq(Rows) : IsPage(page, f, o, n, got)
  BY PageIsFound
<1>2. PICK r \in Requests, c \in Requests, its \in Seq(Rows), st \in Seq(Rows), removed \in BOOLEAN,
           added \in BOOLEAN, was \in Nat :
         walk = [pc |-> "reading", request |-> r, req |-> c, items |-> its, total |-> was,
                 start |-> st, removed |-> removed, added |-> added]
  BY UnderWay
<1>3. SameQuestion /\ TermIsKept /\ NothingIsSkipped /\ CutInOrder /\ WalkTypeOK
  BY DEF WalkInv
<1>4. PICK next \in Requests, total \in Nat : next = PageNext(c) /\ total = Len(f)
  BY NextIsSound, LenProperties
<1>5. walk' = [pc |-> "reading", request |-> r, req |-> next, items |-> got, total |-> total,
               start |-> st, removed |-> removed, added |-> added]
  BY <1>1, <1>2, <1>4 DEF AddsPage, IsPage, Standing
<1>6. WalkTypeOK'
  BY <1>3, <1>5 DEF WalkTypeOK, AddsPage
<1>7. First' = First /\ Whole' = Whole /\ Due' = Due
  BY <1>2, <1>5 DEF First, Whole, Due
<1>8. Standing' = f
  BY <1>1, <1>7 DEF Standing, Found, AddsPage, IsPage
<1>9. Following'.offset = o + n /\ Following'.limit = n /\ Following'.search = First.search
  BY <1>1, <1>2, <1>4, <1>5, NextIsSound DEF Following, IsPage
<1>10. SameQuestion'
  <2>1. PICK a \in Nat : a = First.offset /\ a <= o
    BY <1>1, <1>3 DEF SameQuestion, IsPage
  <2>2. a <= o + n /\ o + n \in Nat
    BY <2>1
  <2> QED
    BY <1>1, <1>3, <1>7, <1>9, <2>1, <2>2 DEF SameQuestion, IsPage
<1>11. TermIsKept'
  BY <1>1, <1>2, <1>3, <1>5, <1>7, StandingIsSound DEF TermIsKept, IsPage
<1>12. NothingIsSkipped'
  <2> SUFFICES ASSUME ~ removed
               PROVE  /\ Range(st) \subseteq Range(f)
                      /\ Whole => \A k \in 1..Len(f) :
                           k <= o + n /\ f[k] \in Range(Due) => f[k] \in Range(got)
    BY <1>5, <1>7, <1>8, <1>9 DEF NothingIsSkipped
  <2>1. Range(st) \subseteq Range(f)
    BY <1>1, <1>2, <1>3 DEF NothingIsSkipped, IsPage
  <2>2. ASSUME Whole, NEW k \in 1..Len(f), k <= o + n, f[k] \in Range(Due) PROVE f[k] \in Range(got)
    <3>1. CASE k <= o
      BY <1>1, <1>2, <1>3, <2>2, <3>1 DEF NothingIsSkipped, IsPage
    <3>2. CASE o < k
      BY <1>1, <2>2, <3>2 DEF IsPage
    <3>3. k \in Int
      OBVIOUS
    <3> QED
      BY <3>1, <3>2, <3>3
  <2> QED
    BY <2>1, <2>2
<1>13. CutInOrder'
  <2> SUFFICES ASSUME ~ removed, ~ added
               PROVE  /\ f = st
                      /\ Whole => got = SubSeq(st, First.offset + 1,
                                               IF o + n <= Len(st) THEN o + n ELSE Len(st))
    BY <1>5, <1>7, <1>8, <1>9 DEF CutInOrder
  <2>1. /\ f = st
        /\ Whole => its = SubSeq(st, First.offset + 1, IF o <= Len(st) THEN o ELSE Len(st))
    BY <1>1, <1>2, <1>3 DEF CutInOrder, IsPage
  <2>2. Len(f) \in Nat /\ o < Len(f)
    BY <1>1, LenProperties DEF IsPage
  <2>3. PICK a \in Nat : a = First.offset /\ a <= o
    BY <1>1, <1>3 DEF SameQuestion, IsPage
  <2>4. ASSUME Whole
        PROVE  got = SubSeq(f, a + 1, IF o + n > Len(f) THEN Len(f) ELSE o + n)
    <3>1. its = SubSeq(f, a + 1, o)
      BY <2>1, <2>2, <2>3, <2>4
    <3>2. got = its \o SubSeq(f, o + 1, IF o + n > Len(f) THEN Len(f) ELSE o + n)
      BY <1>1, <1>2, <2>4 DEF IsPage
    <3>3. PICK m, end : m = a + 1 /\ end = IF o + n > Len(f) THEN Len(f) ELSE o + n
      OBVIOUS
    <3>4. m \in 1..(Len(f) + 1) /\ o \in (m - 1)..Len(f) /\ end \in o..Len(f)
      BY <2>2, <2>3, <3>3
    <3>5. OneCut(f, m, o, end)
      BY <3>4, PagesMakeOneCut
    <3> QED
      BY <3>1, <3>2, <3>3, <3>5 DEF OneCut
  <2>5. (IF o + n > Len(f) THEN Len(f) ELSE o + n) = (IF o + n <= Len(f) THEN o + n ELSE Len(f))
    BY <2>2
  <2> QED
    BY <2>1, <2>3, <2>4, <2>5
<1>14. ReadToTheEnd'
  BY <1>5 DEF ReadToTheEnd
<1> QED
  BY <1>6, <1>10, <1>11, <1>12, <1>13, <1>14 DEF WalkInv

(* The walk ends at an empty page: nothing stands after what was asked for. *)
EndsWalk ==
  /\ ServerPage(Following) = <<>>
  /\ walk' = [walk EXCEPT !.pc = "done", !.total = Len(Found(Following.search))]
  /\ list' = list

(* An empty page ends the walk, and nothing is left. *)
LEMMA EndPreserves ==
  ASSUME WalkInv, walk.pc = "reading", EndsWalk
  PROVE  WalkInv'
<1>1. PICK o \in Nat, n \in Nat \ {0} :
        /\ o = Following.offset /\ n = First.limit /\ n = Following.limit
        /\ Following.search = First.search
  BY DEF WalkInv, SameQuestion
<1>2. PICK f \in Seq(Rows) : f = Standing
  BY StandingIsSound
<1>3. PICK m \in Nat \ {0} : m = (IF n > ServerCap THEN ServerCap ELSE n)
  <2>1. ServerCap \in Nat \ {0}
    BY WalkAssumption
  <2> QED
    BY <1>1, <2>1
<1>4. PICK last, page : /\ last = (IF o + m > Len(f) THEN Len(f) ELSE o + m)
                        /\ page = SubSeq(f, o + 1, last) /\ page = <<>>
  BY <1>1, <1>2, <1>3 DEF ServerPage, Standing, EndsWalk
<1>5. Len(f) \in Nat /\ Len(f) <= o
  BY <1>4, PageIsCut
<1>6. PICK r \in Requests, c \in Requests, its \in Seq(Rows), st \in Seq(Rows), removed \in BOOLEAN,
           added \in BOOLEAN, was \in Nat :
         walk = [pc |-> "reading", request |-> r, req |-> c, items |-> its, total |-> was,
                 start |-> st, removed |-> removed, added |-> added]
  BY UnderWay
<1>7. walk' = [pc |-> "done", request |-> r, req |-> c, items |-> its, total |-> Len(f),
               start |-> st, removed |-> removed, added |-> added]
  BY <1>1, <1>2, <1>6 DEF Standing, EndsWalk
<1>8. SameQuestion /\ TermIsKept /\ NothingIsSkipped /\ CutInOrder /\ WalkTypeOK
  BY DEF WalkInv
<1>9. WalkTypeOK'
  BY <1>5, <1>7, <1>8 DEF WalkTypeOK, EndsWalk
<1>10. First' = First /\ Following' = Following /\ Whole' = Whole /\ Due' = Due
  BY <1>6, <1>7 DEF First, Following, Whole, Due
<1>11. Standing' = Standing
  BY <1>10 DEF Standing, Found, EndsWalk
<1>12. SameQuestion' /\ TermIsKept' /\ NothingIsSkipped' /\ CutInOrder'
  BY <1>6, <1>7, <1>8, <1>10, <1>11 DEF SameQuestion, TermIsKept, NothingIsSkipped, CutInOrder
<1>13. ReadToTheEnd'
  BY <1>1, <1>2, <1>5, <1>7, <1>10, <1>11 DEF ReadToTheEnd
<1> QED
  BY <1>9, <1>12, <1>13 DEF WalkInv

(* A page read, or failed, keeps the invariant. *)
LEMMA ReadPagePreserves == WalkInv /\ ReadPage => WalkInv'
<1> SUFFICES ASSUME WalkInv, ReadPage PROVE WalkInv'
  OBVIOUS
<1>1. walk.pc = "reading" /\ list' = list
  BY DEF ReadPage
<1>2. CASE AddsPage(ServerPage(Following))
  BY <1>1, <1>2, AddsPagePreserves
<1>3. CASE EndsWalk
  BY <1>1, <1>3, EndPreserves
<1>4. CASE walk' = [walk EXCEPT !.pc = "failed", !.items = <<>>]
  <2>1. PICK r \in Requests, c \in Requests, its \in Seq(Rows), st \in Seq(Rows), removed \in BOOLEAN,
             added \in BOOLEAN, was \in Nat :
           walk = [pc |-> "reading", request |-> r, req |-> c, items |-> its, total |-> was,
                   start |-> st, removed |-> removed, added |-> added]
    BY <1>1, UnderWay
  <2>2. walk' = [pc |-> "failed", request |-> r, req |-> c, items |-> <<>>, total |-> was,
                 start |-> st, removed |-> removed, added |-> added]
    BY <1>4, <2>1
  <2>3. <<>> \in Seq(Rows)
    BY EmptySeq
  <2> QED
    BY <1>1, <2>2, <2>3 DEF WalkInv, WalkTypeOK
<1> QED
  BY <1>1, <1>2, <1>3, <1>4 DEF ReadPage, AddsPage, EndsWalk, Following

(* Of the members of f before place o, those in D are in C. *)
Collected(f, o, D, C) == \A k \in 1..Len(f) : k <= o /\ f[k] \in D => f[k] \in C

LEMMA PutLeavesCollected ==
  ASSUME NEW X, NEW f \in Seq(X), NEW g \in Seq(X), NEW a, NEW e, IsPut(g, f, a, e),
         NEW D, e \notin D, NEW C, NEW o \in Nat, Collected(f, o, D, C)
  PROVE  Collected(g, o, D, C) /\ Range(f) \subseteq Range(g)
<1>1. PICK n \in Nat : n = Len(f) /\ DOMAIN f = 1..n /\ DOMAIN g = 1..Len(g)
  BY LenProperties
<1>2. /\ a \in 0..n /\ Len(g) = n + 1
      /\ \A k \in 1..a : g[k] = f[k]
      /\ g[a + 1] = e
      /\ \A k \in (a + 1)..n : g[k + 1] = f[k]
  BY <1>1 DEF IsPut
<1>3. ASSUME NEW k \in 1..(n + 1), k <= o, g[k] \in D PROVE g[k] \in C
  <2>1. CASE k <= a
    <3>1. k \in 1..n /\ k \in 1..a
      BY <1>2, <2>1
    <3> QED
      BY <1>1, <1>2, <1>3, <3>1 DEF Collected
  <2>2. CASE ~ k <= a
    <3>1. k # a + 1
      BY <1>2, <1>3
    <3>2. k - 1 \in (a + 1)..n /\ k - 1 \in 1..n /\ (k - 1) + 1 = k /\ k - 1 <= o
      BY <1>2, <1>3, <2>2, <3>1
    <3>3. g[k] = f[k - 1]
      BY <1>2, <3>2
    <3> QED
      BY <1>1, <1>3, <3>2, <3>3 DEF Collected
  <2> QED
    BY <2>1, <2>2
<1>4. ASSUME NEW k \in 1..n PROVE f[k] \in Range(g)
  <2>1. CASE k <= a
    <3>1. k \in 1..a /\ k \in 1..(n + 1)
      BY <1>2, <2>1
    <3> QED
      BY <1>1, <1>2, <3>1 DEF Range
  <2>2. CASE ~ k <= a
    <3>1. k \in (a + 1)..n /\ k + 1 \in 1..(n + 1)
      BY <1>2, <2>2
    <3> QED
      BY <1>1, <1>2, <3>1 DEF Range
  <2> QED
    BY <2>1, <2>2
<1> QED
  BY <1>1, <1>2, <1>3, <1>4 DEF Collected, Range

(* What is due is of what stood. *)
LEMMA DueStood ==
  ASSUME NEW X, NEW s \in Seq(X), NEW a \in Nat
  PROVE  Range(SubSeq(s, a + 1, Len(s))) \subseteq Range(s)
<1>1. PICK m \in Nat : m = Len(s) /\ DOMAIN s = 1..m /\ \A k \in 1..m : s[k] \in X
  BY LenProperties, ElementOfSeq
<1>2. PICK b \in Nat : b = a + 1 /\ b >= 1
  OBVIOUS
<1>3. \A k \in b..m : s[k] \in X
  BY <1>1, <1>2
<1>4. PICK page : page = SubSeq(s, b, m)
  OBVIOUS
<1>5. /\ page \in Seq(X) /\ Len(page) = IF b <= m THEN m - b + 1 ELSE 0
      /\ \A k \in 1..(m - b + 1) : page[k] = s[b + k - 1]
  BY <1>1, <1>2, <1>3, <1>4, SubSeqProperties
<1>6. DOMAIN page = 1..Len(page)
  BY <1>5, LenProperties
<1>7. ASSUME NEW k \in 1..Len(page) PROVE page[k] \in Range(s)
  <2>1. k \in 1..(m - b + 1) /\ b + k - 1 \in 1..m
    BY <1>2, <1>5
  <2>2. page[k] = s[b + k - 1]
    BY <1>5, <2>1
  <2> QED
    BY <1>1, <2>1, <2>2 DEF Range
<1>8. Range(page) \subseteq Range(s)
  BY <1>6, <1>7 DEF Range
<1> QED
  BY <1>1, <1>2, <1>4, <1>8

(* A row added anywhere moves rows back, past nothing that is due.          *)
LEMMA AddRowPreserves == WalkInv /\ AddRow => WalkInv'
<1> SUFFICES ASSUME WalkInv, AddRow PROVE WalkInv'
  OBVIOUS
<1>1. /\ walk.pc = "reading" /\ list \in Seq(Rows) /\ IsInjective(list)
  BY DEF AddRow, WalkInv, WalkTypeOK
<1>2. PICK e \in Rows \ Range(list), i \in 1..(Len(list) + 1) : list' = InsertAt(list, i, e)
  BY DEF AddRow
<1>3. PICK r \in Requests, c \in Requests, its \in Seq(Rows), st \in Seq(Rows), removed \in BOOLEAN,
           added \in BOOLEAN, total \in Nat :
         walk = [pc |-> "reading", request |-> r, req |-> c, items |-> its, total |-> total,
                 start |-> st, removed |-> removed, added |-> added]
  BY <1>1, UnderWay
<1>4. walk' = [pc |-> "reading", request |-> r, req |-> c, items |-> its, total |-> total,
               start |-> st, removed |-> removed, added |-> TRUE]
  BY <1>3 DEF AddRow
<1>5. SameQuestion /\ TermIsKept /\ NothingIsSkipped
  BY <1>1 DEF WalkInv
<1>6. First' = First /\ Following' = Following /\ Whole' = Whole /\ Due' = Due
  BY <1>3, <1>4 DEF First, Following, Whole, Due
<1>7. PICK a \in Nat, o \in Nat, search \in {NoTerm, Term} :
         a = First.offset /\ o = Following.offset /\ search = First.search
  BY <1>5 DEF SameQuestion
<1>8. list' \in Seq(Rows) /\ IsInjective(list')
  <2>1. list' \in Seq(Rows) /\ \E k : IsPut(list', list, k, e)
    BY <1>1, <1>2, KeptOfInsert
  <2> QED
    BY <1>1, <1>2, <2>1, PutIsInjective
<1>9. WalkTypeOK'
  BY <1>4, <1>8 DEF WalkTypeOK
<1>10. PICK f \in Seq(Rows), g \in Seq(Rows) :
          /\ f = Kept(list, Answering(search)) /\ g = Kept(list', Answering(search))
          /\ f = Standing /\ g = Standing'
          /\ Range(f) \subseteq Range(list)
  BY <1>1, <1>6, <1>7, <1>8, KeptRows DEF Standing, Found, Answering
<1>11. NothingIsSkipped'
  <2> SUFFICES ASSUME ~ removed
               PROVE  Range(st) \subseteq Range(g) /\ (Whole => Collected(g, o, Range(Due), Range(its)))
    BY <1>4, <1>6, <1>7, <1>10 DEF NothingIsSkipped, Collected
  <2>1. Range(st) \subseteq Range(f) /\ (Whole => Collected(f, o, Range(Due), Range(its)))
    BY <1>3, <1>5, <1>7, <1>10 DEF NothingIsSkipped, Collected
  <2>2. CASE g = f
    BY <2>1, <2>2
  <2>3. CASE g # f
    <3>1. PICK k : IsPut(g, f, k, e)
      <4>1. IF e \in Answering(search)
            THEN \E k : IsPut(Kept(InsertAt(list, i, e), Answering(search)), Kept(list, Answering(search)), k, e)
            ELSE Kept(InsertAt(list, i, e), Answering(search)) = Kept(list, Answering(search))
        BY <1>1, KeptOfInsert
      <4> QED
        BY <1>2, <1>10, <2>3, <4>1
    <3>2. Range(Due) \subseteq Range(st)
      BY <1>3, <1>7, DueStood DEF Due
    <3>3. e \notin Range(Due)
      BY <1>2, <1>10, <2>1, <3>2
    <3>4. Collected(f, o, {}, {})
      BY DEF Collected
    <3>5. Range(f) \subseteq Range(g)
      BY <3>1, <3>4, PutLeavesCollected
    <3>6. Whole => Collected(g, o, Range(Due), Range(its))
      BY <2>1, <3>1, <3>3, PutLeavesCollected
    <3> QED
      BY <2>1, <3>5, <3>6
  <2> QED
    BY <2>2, <2>3
<1>12. SameQuestion' /\ TermIsKept' /\ CutInOrder' /\ ReadToTheEnd'
  BY <1>3, <1>4, <1>5, <1>6 DEF SameQuestion, TermIsKept, CutInOrder, ReadToTheEnd
<1> QED
  BY <1>9, <1>11, <1>12 DEF WalkInv

(* Once a row is removed, only the term is vouched for.                     *)
LEMMA RemoveRowPreserves == WalkInv /\ RemoveRow => WalkInv'
<1> SUFFICES ASSUME WalkInv, RemoveRow PROVE WalkInv'
  OBVIOUS
<1>1. /\ walk.pc = "reading" /\ list \in Seq(Rows) /\ IsInjective(list)
  BY DEF RemoveRow, WalkInv, WalkTypeOK
<1>2. PICK i \in 1..Len(list) : list' = RemoveAt(list, i)
  BY DEF RemoveRow
<1>3. PICK r \in Requests, c \in Requests, its \in Seq(Rows), st \in Seq(Rows), removed \in BOOLEAN,
           added \in BOOLEAN, total \in Nat :
         walk = [pc |-> "reading", request |-> r, req |-> c, items |-> its, total |-> total,
                 start |-> st, removed |-> removed, added |-> added]
  BY <1>1, UnderWay
<1>4. walk' = [pc |-> "reading", request |-> r, req |-> c, items |-> its, total |-> total,
               start |-> st, removed |-> TRUE, added |-> added]
  BY <1>3 DEF RemoveRow
<1>5. SameQuestion /\ TermIsKept
  BY <1>1 DEF WalkInv
<1>6. First' = First /\ Following' = Following
  BY <1>3, <1>4 DEF First, Following
<1>7. list' \in Seq(Rows) /\ IsInjective(list')
  BY <1>1, <1>2, RemoveIsInjective
<1>8. WalkTypeOK'
  BY <1>4, <1>7 DEF WalkTypeOK
<1>9. SameQuestion' /\ TermIsKept' /\ NothingIsSkipped' /\ CutInOrder' /\ ReadToTheEnd'
  BY <1>3, <1>4, <1>5, <1>6 DEF SameQuestion, TermIsKept, NothingIsSkipped, CutInOrder, ReadToTheEnd
<1> QED
  BY <1>8, <1>9 DEF WalkInv

(* Every step keeps the invariant. *)
LEMMA WalkNextPreserves == WalkInv /\ [WalkNext]_walkVars => WalkInv'
<1> SUFFICES ASSUME WalkInv, [WalkNext]_walkVars PROVE WalkInv'
  OBVIOUS
<1>1. CASE UNCHANGED walkVars
  BY <1>1 DEF walkVars, WalkInv, WalkTypeOK, SameQuestion, TermIsKept, NothingIsSkipped, CutInOrder,
              ReadToTheEnd, First, Following, Standing, Found, Due, Whole
<1> QED
  BY <1>1, BeginPreserves, ReadPagePreserves, AddRowPreserves, RemoveRowPreserves DEF WalkNext

(* The invariant of a walk over a list that others write meanwhile: each    *)
(* page is asked for as the first was, and with nothing removed no row that *)
(* is due stands before the next page and has not been collected.           *)
THEOREM WalkInductive == WalkSpec => []WalkInv
BY WalkInitIsSound, WalkNextPreserves, PTL DEF WalkSpec

(* A list_all that completes has every row that was due, whatever rows,     *)
(* term, page sizes and offsets, and whatever others add meanwhile: the     *)
(* list_all operations of management_ops.c over axiam_mgmt_page_next().     *)
THEOREM WalkComplete == WalkSpec => []WalkIsComplete
<1>1. WalkInv => WalkIsComplete
  <2> SUFFICES ASSUME WalkInv, walk.pc = "done"
               PROVE  /\ First.search = Term => Range(walk.items) \subseteq Matches
                      /\ ~ walk.removed /\ Whole => Range(Due) \subseteq Range(walk.items)
                      /\ ~ walk.removed /\ ~ walk.added /\ Whole =>
                           walk.items = Due /\ walk.total = Len(walk.start)
    BY DEF WalkIsComplete, First, Due, Whole
  <2>1. SameQuestion /\ TermIsKept /\ NothingIsSkipped /\ CutInOrder /\ ReadToTheEnd
        /\ list \in Seq(Rows) /\ IsInjective(list) /\ walk.start \in Seq(Rows)
    BY DEF WalkInv, WalkTypeOK
  <2>2. PICK st \in Seq(Rows), a \in Nat, o \in Nat, search \in {NoTerm, Term} :
          st = walk.start /\ a = First.offset /\ o = Following.offset /\ search = First.search
    BY <2>1 DEF SameQuestion
  <2>3. PICK f \in Seq(Rows) : f = Standing /\ Len(f) \in Nat /\ DOMAIN f = 1..Len(f)
    BY <2>1, <2>2, KeptRows, LenProperties DEF Standing, Found, Answering
  <2>4. Len(st) \in Nat
    BY LenProperties
  <2>5. ASSUME ~ walk.removed, Whole, NEW x \in Range(Due) PROVE x \in Range(walk.items)
    <3>1. x \in Range(f)
      BY <2>1, <2>2, <2>3, <2>5, DueStood DEF Due, NothingIsSkipped
    <3>2. PICK k \in 1..Len(f) : x = f[k]
      BY <2>3, <3>1 DEF Range
    <3>3. k <= o
      BY <2>1, <2>2, <2>3, <2>5, <3>2 DEF ReadToTheEnd
    <3> QED
      BY <2>1, <2>2, <2>3, <2>5, <3>2, <3>3 DEF NothingIsSkipped
  <2>6. ASSUME ~ walk.removed, ~ walk.added, Whole
        PROVE  walk.items = Due /\ walk.total = Len(walk.start)
    <3>1. f = st /\ walk.total = Len(f) /\ Len(f) <= o
      BY <2>1, <2>2, <2>3, <2>6 DEF CutInOrder, ReadToTheEnd
    <3>2. (IF o <= Len(st) THEN o ELSE Len(st)) = Len(st)
      BY <2>4, <3>1
    <3> QED
      BY <2>1, <2>2, <2>6, <3>1, <3>2 DEF CutInOrder, Due
  <2> QED
    BY <2>1, <2>5, <2>6 DEF TermIsKept
<1> QED
  BY <1>1, WalkInductive, PTL

-----------------------------------------------------------------------------
(* What the server makes of a tenant. A tenant that follows another knows    *)
(* its objects by the ids and names they had, and its rows by versions that *)
(* only grow.                                                              *)
ObjectsFollow(t, u) ==
  /\ t.next <= u.next
  /\ \A o \in u.objects : o.id < t.next => \E p \in t.objects : p.id = o.id /\ p.kind = o.kind /\ p.name = o.name

SegmentFollows(r, s) == r.id = s.id /\ r.name = s.name /\ r.version <= s.version /\ (r.version = s.version => r = s)

ProfileFollows(p, q) ==
  p.segment = q.segment /\ p.version <= q.version /\ (p.version = q.version => p.idle = q.idle)

NetworkFollows(t, u) ==
  /\ \A s \in u.segments : s.id < t.next => \E r \in t.segments : SegmentFollows(r, s)
  /\ \A p \in t.profiles : \E q \in u.profiles : ProfileFollows(p, q)

Succeeds(t, u) == WellFormed(u) /\ ObjectsFollow(t, u) /\ NetworkFollows(t, u)

(* A tenant left alone follows itself. *)
LEMMA LeftAlone ==
  ASSUME NEW t, WellFormed(t)
  PROVE  Succeeds(t, t)
<1>1. IsTenant(t)
  BY DEF WellFormed
<1>2. ObjectsFollow(t, t)
  BY <1>1 DEF IsTenant, ObjectsFollow
<1>3. NetworkFollows(t, t)
  BY <1>1 DEF IsTenant, NetworkFollows, SegmentFollows, ProfileFollows, SegmentRows, ProfileRows
<1> QED
  BY <1>2, <1>3 DEF Succeeds

(* An object created has an id of its own, and what was there stands. *)
LEMMA CreateIsSound ==
  ASSUME NEW t, WellFormed(t), NEW o \in Objects, o.kind # "resource" => o.parent = NoId,
         NEW u \in Create(t, o)
  PROVE  Succeeds(t, u) /\ u.held = t.held /\ u.next = t.next + 1
         /\ t.objects \subseteq u.objects /\ u.segments = t.segments /\ u.profiles = t.profiles
<1>1. IsTenant(t) /\ ObjectsAreKept(t) /\ AssignmentsAreKept(t) /\ NetworkIsKept(t)
  BY DEF WellFormed
<1>2. PICK n \in Nat \ {NoId} : n = t.next /\ n + 1 \in Nat \ {NoId} /\ n < n + 1
  BY <1>1 DEF IsTenant, NoId
<1>3. PICK new \in Objects : /\ new = [o EXCEPT !.id = n] /\ new.id = n /\ new.kind = o.kind
                             /\ new.name = o.name /\ new.parent = o.parent
  <2> DEFINE new == [o EXCEPT !.id = n]
  <2>1. new \in Objects /\ new.id = n /\ new.kind = o.kind /\ new.name = o.name /\ new.parent = o.parent
    BY <1>2 DEF Objects
  <2> HIDE DEF new
  <2> QED
    BY <2>1 DEF new
<1>4. /\ u = [t EXCEPT !.objects = @ \cup {new}, !.next = @ + 1]
      /\ \A x \in t.objects : SameName(x, o) => o.kind = "account"
  BY <1>2, <1>3 DEF Create
<1>5. /\ IsTenant(u)
      /\ u.objects = t.objects \cup {new} /\ u.next = n + 1
      /\ u.held = t.held /\ u.segments = t.segments /\ u.profiles = t.profiles
  BY <1>1, <1>2, <1>4 DEF IsTenant
<1>6. \A x \in t.objects : x \in Objects /\ x.id \in Nat /\ x.id < n
  BY <1>1, <1>2 DEF IsTenant, Objects, ObjectsAreKept
<1>7. ObjectsAreKept(u)
  <2>1. ASSUME NEW x \in u.objects, NEW p \in u.objects, p.id = x.id \/ (SameName(x, p) /\ x.kind # "account")
        PROVE  p = x
    <3>1. CASE x = new
      BY <1>3, <1>4, <1>5, <1>6, <2>1, <3>1 DEF SameName
    <3>2. CASE p = new
      BY <1>3, <1>4, <1>5, <1>6, <2>1, <3>2 DEF SameName
    <3> QED
      BY <1>1, <1>5, <2>1, <3>1, <3>2 DEF ObjectsAreKept
  <2>2. ASSUME NEW x \in u.objects
        PROVE  x.id # NoId /\ x.id < u.next /\ (x.kind # "resource" => x.parent = NoId)
    <3>1. CASE x = new
      BY <1>2, <1>3, <1>5, <3>1
    <3>2. CASE x \in t.objects
      BY <1>1, <1>2, <1>5, <1>6, <3>2 DEF ObjectsAreKept
    <3> QED
      BY <1>5, <3>1, <3>2
  <2> QED
    BY <2>1, <2>2 DEF ObjectsAreKept
<1>8. AssignmentsAreKept(u)
  BY <1>1, <1>5 DEF AssignmentsAreKept, OfKind, WithId
<1>9. NetworkIsKept(u)
  <2>1. \A s \in t.segments : s.id \in Nat
    BY <1>1 DEF IsTenant, SegmentRows
  <2> QED
    BY <1>1, <1>2, <1>5, <2>1 DEF NetworkIsKept
<1>10. ObjectsFollow(t, u)
  <2>1. t.next <= u.next
    BY <1>2, <1>5
  <2>2. ASSUME NEW x \in u.objects, x.id < t.next PROVE x \in t.objects
    <3>1. x.id # n
      BY <1>2, <2>2
    <3> QED
      BY <1>3, <1>5, <3>1
  <2> QED
    BY <2>1, <2>2 DEF ObjectsFollow
<1>11. NetworkFollows(t, u)
  BY <1>1, <1>5, LeftAlone DEF NetworkFollows, Succeeds
<1> QED
  BY <1>2, <1>5, <1>7, <1>8, <1>9, <1>10, <1>11 DEF Succeeds, WellFormed

(* An object updated keeps its id, its kind, its name and its place. *)
LEMMA UpdateIsSound ==
  ASSUME NEW t, WellFormed(t), NEW i, NEW d \in Texts, NEW x \in Texts, NEW u \in Update(t, i, d, x)
  PROVE  Succeeds(t, u) /\ u.held = t.held /\ u.next = t.next /\ u.segments = t.segments /\ u.profiles = t.profiles
<1>1. IsTenant(t) /\ ObjectsAreKept(t) /\ AssignmentsAreKept(t) /\ NetworkIsKept(t)
  BY DEF WellFormed
<1>2. PICK o \in t.objects :
        /\ o.id = i /\ o \in Objects
        /\ u = [t EXCEPT !.objects = (@ \ {o}) \cup
                  {[o EXCEPT !.description = Keep(d, @), !.metadata = Keep(x, @)]}]
  BY <1>1 DEF Update, WithId, IsTenant
<1>3. PICK new \in Objects :
        /\ new = [o EXCEPT !.description = Keep(d, @), !.metadata = Keep(x, @)]
        /\ new.id = o.id /\ new.kind = o.kind /\ new.name = o.name /\ new.parent = o.parent
  <2> DEFINE new == [o EXCEPT !.description = Keep(d, @), !.metadata = Keep(x, @)]
  <2>1. Keep(d, o.description) \in Texts /\ Keep(x, o.metadata) \in Texts
    BY <1>2 DEF Objects, Keep
  <2>2. /\ new \in Objects
        /\ new.id = o.id /\ new.kind = o.kind /\ new.name = o.name /\ new.parent = o.parent
    BY <1>2, <2>1 DEF Objects
  <2> HIDE DEF new
  <2> QED
    BY <2>2 DEF new
<1>4. u = [t EXCEPT !.objects = (t.objects \ {o}) \cup {new}]
  BY <1>2, <1>3
<1>5. /\ IsTenant(u)
      /\ u.objects = (t.objects \ {o}) \cup {new} /\ u.next = t.next
      /\ u.held = t.held /\ u.segments = t.segments /\ u.profiles = t.profiles
  BY <1>1, <1>4 DEF IsTenant
<1>6. \A y \in u.objects : \E p \in t.objects : /\ p.id = y.id /\ p.kind = y.kind /\ p.name = y.name /\ p.parent = y.parent
                                                /\ y = IF p = o THEN new ELSE p
  BY <1>2, <1>3, <1>5
<1>7. \A p \in t.objects : \E y \in u.objects : p.id = y.id /\ p.kind = y.kind
  BY <1>2, <1>3, <1>5
<1>8. ObjectsAreKept(u)
  BY <1>1, <1>5, <1>6 DEF ObjectsAreKept, SameName
<1>9. AssignmentsAreKept(u)
  BY <1>1, <1>5, <1>7 DEF AssignmentsAreKept, OfKind, WithId
<1>10. NetworkIsKept(u)
  BY <1>1, <1>5 DEF NetworkIsKept
<1>11. ObjectsFollow(t, u)
  BY <1>1, <1>5, <1>6 DEF ObjectsFollow, IsTenant
<1>12. NetworkFollows(t, u)
  BY <1>5, LeftAlone DEF NetworkFollows, Succeeds
<1> QED
  BY <1>5, <1>8, <1>9, <1>10, <1>11, <1>12 DEF Succeeds, WellFormed

(* A role given to a holder that does not hold it. *)
LEMMA AssignIsSound ==
  ASSUME NEW t, WellFormed(t), NEW b \in Assignments, NEW u \in Assign(t, b)
  PROVE  /\ Succeeds(t, u) /\ u.held = t.held \cup {b} /\ \A h \in t.held : Pair(h) # Pair(b)
         /\ u.next = t.next /\ u.objects = t.objects /\ u.segments = t.segments /\ u.profiles = t.profiles
<1>1. IsTenant(t) /\ ObjectsAreKept(t) /\ AssignmentsAreKept(t) /\ NetworkIsKept(t)
  BY DEF WellFormed
<1>2. /\ u = [t EXCEPT !.held = @ \cup {b}]
      /\ \A h \in t.held : Pair(h) # Pair(b)
      /\ OfKind(t, b.subject, Holders) # {} /\ OfKind(t, b.role, {"role"}) # {}
  BY DEF Assign
<1>3. /\ IsTenant(u)
      /\ u.objects = t.objects /\ u.next = t.next
      /\ u.held = t.held \cup {b} /\ u.segments = t.segments /\ u.profiles = t.profiles
  BY <1>1, <1>2 DEF IsTenant
<1>4. AssignmentsAreKept(u)
  <2>1. ASSUME NEW h \in u.held, NEW g \in u.held, Pair(g) = Pair(h) PROVE g = h
    BY <1>1, <1>2, <1>3, <2>1 DEF AssignmentsAreKept
  <2>2. ASSUME NEW h \in u.held PROVE OfKind(u, h.subject, Holders) # {} /\ OfKind(u, h.role, {"role"}) # {}
    BY <1>1, <1>2, <1>3 DEF AssignmentsAreKept, OfKind, WithId
  <2> QED
    BY <2>1, <2>2 DEF AssignmentsAreKept
<1>5. ObjectsAreKept(u) /\ NetworkIsKept(u)
  BY <1>1, <1>3 DEF ObjectsAreKept, NetworkIsKept
<1>6. ObjectsFollow(t, u) /\ NetworkFollows(t, u)
  BY <1>3, LeftAlone DEF ObjectsFollow, NetworkFollows, Succeeds
<1> QED
  BY <1>2, <1>3, <1>4, <1>5, <1>6 DEF Succeeds, WellFormed

(* A role taken away is the one of its pair, and only that. *)
LEMMA UnassignIsSound ==
  ASSUME NEW t, WellFormed(t), NEW pair, NEW i, NEW u \in Unassign(t, pair, i)
  PROVE  /\ Succeeds(t, u) /\ u.held = {h \in t.held : Pair(h) # pair}
         /\ u.next = t.next /\ u.objects = t.objects /\ u.segments = t.segments /\ u.profiles = t.profiles
<1>1. IsTenant(t) /\ ObjectsAreKept(t) /\ AssignmentsAreKept(t) /\ NetworkIsKept(t)
  BY DEF WellFormed
<1>2. PICK b \in t.held : Pair(b) = pair /\ u = [t EXCEPT !.held = @ \ {b}]
  BY DEF Unassign
<1>3. /\ IsTenant(u)
      /\ u.objects = t.objects /\ u.next = t.next
      /\ u.held = t.held \ {b} /\ u.segments = t.segments /\ u.profiles = t.profiles
  BY <1>1, <1>2 DEF IsTenant
<1>4. u.held = {h \in t.held : Pair(h) # pair}
  BY <1>1, <1>2, <1>3 DEF AssignmentsAreKept
<1>5. AssignmentsAreKept(u)
  BY <1>1, <1>3 DEF AssignmentsAreKept, OfKind, WithId
<1>6. ObjectsAreKept(u) /\ NetworkIsKept(u)
  BY <1>1, <1>3 DEF ObjectsAreKept, NetworkIsKept
<1>7. ObjectsFollow(t, u) /\ NetworkFollows(t, u)
  BY <1>3, LeftAlone DEF ObjectsFollow, NetworkFollows, Succeeds
<1> QED
  BY <1>3, <1>4, <1>5, <1>6, <1>7 DEF Succeeds, WellFormed

(* A deletion takes the assignments of what it deletes with it. *)
LEMMA DeleteIsSound ==
  ASSUME NEW t, WellFormed(t), NEW o \in t.objects
  PROVE  Succeeds(t, Delete(t, o))
<1>1. IsTenant(t) /\ ObjectsAreKept(t) /\ AssignmentsAreKept(t) /\ NetworkIsKept(t)
  BY DEF WellFormed
<1> DEFINE left == {h \in t.held : o.id \notin {h.subject, h.role, h.resource}}
<1>2. PICK u : u = Delete(t, o)
  OBVIOUS
<1>3. /\ IsTenant(u)
      /\ u.objects = t.objects \ {o} /\ u.next = t.next
      /\ u.held = left /\ u.segments = t.segments /\ u.profiles = t.profiles
  BY <1>1, <1>2 DEF IsTenant, Delete
<1>4. AssignmentsAreKept(u)
  <2>1. ASSUME NEW h \in u.held PROVE OfKind(u, h.subject, Holders) # {} /\ OfKind(u, h.role, {"role"}) # {}
    <3>1. h \in t.held /\ h.subject # o.id /\ h.role # o.id
      BY <1>3
    <3>2. OfKind(t, h.subject, Holders) # {} /\ OfKind(t, h.role, {"role"}) # {}
      BY <1>1, <3>1 DEF AssignmentsAreKept
    <3> QED
      BY <1>3, <3>1, <3>2 DEF OfKind, WithId
  <2> QED
    BY <1>1, <1>3, <2>1 DEF AssignmentsAreKept
<1>5. ObjectsAreKept(u) /\ NetworkIsKept(u)
  BY <1>1, <1>3 DEF ObjectsAreKept, NetworkIsKept
<1>6. ObjectsFollow(t, u) /\ NetworkFollows(t, u)
  BY <1>3, LeftAlone DEF ObjectsFollow, NetworkFollows, Succeeds
<1> QED
  BY <1>2, <1>3, <1>4, <1>5, <1>6 DEF Succeeds, WellFormed

(* A write of the network leaves the objects and what is held.             *)
OfNetwork(t, u) == u.objects = t.objects /\ u.held = t.held

(* The cap replaced. *)
LEMMA PolicyIsSound ==
  ASSUME NEW t, WellFormed(t), NEW max \in Nat, NEW version, NEW u \in ReplacePolicy(t, max, version)
  PROVE  Succeeds(t, u) /\ OfNetwork(t, u) /\ u.segments = t.segments /\ u.profiles = t.profiles
<1>1. IsTenant(t) /\ ObjectsAreKept(t) /\ AssignmentsAreKept(t) /\ NetworkIsKept(t)
  BY DEF WellFormed
<1>2. u = [t EXCEPT !.cap = [max |-> max, version |-> version + 1]] /\ version \in Nat
  BY <1>1 DEF ReplacePolicy, IsTenant
<1>3. /\ IsTenant(u)
      /\ u.objects = t.objects /\ u.next = t.next
      /\ u.held = t.held /\ u.segments = t.segments /\ u.profiles = t.profiles
  BY <1>1, <1>2 DEF IsTenant
<1>4. ObjectsAreKept(u) /\ NetworkIsKept(u)
  BY <1>1, <1>3 DEF ObjectsAreKept, NetworkIsKept
<1>5. AssignmentsAreKept(u)
  BY <1>1, <1>3 DEF AssignmentsAreKept, OfKind, WithId
<1>6. ObjectsFollow(t, u) /\ NetworkFollows(t, u)
  BY <1>3, LeftAlone DEF ObjectsFollow, NetworkFollows, Succeeds
<1> QED
  BY <1>3, <1>4, <1>5, <1>6 DEF Succeeds, WellFormed, OfNetwork

(* A segment created has an id and a name of its own. *)
LEMMA CreateSegmentIsSound ==
  ASSUME NEW t, WellFormed(t), NEW name \in Texts, NEW vlan \in Nat, NEW rank \in Texts,
         NEW u \in CreateSegment(t, name, vlan, rank)
  PROVE  /\ Succeeds(t, u) /\ OfNetwork(t, u) /\ u.profiles = t.profiles
         /\ t.segments \subseteq u.segments
<1>1. IsTenant(t) /\ ObjectsAreKept(t) /\ AssignmentsAreKept(t) /\ NetworkIsKept(t)
  BY DEF WellFormed
<1>2. PICK n \in Nat : n = t.next /\ n # NoId /\ n + 1 \in Nat \ {NoId} /\ n < n + 1
  BY <1>1 DEF IsTenant, NoId
<1>3. PICK new \in SegmentRows : /\ new.id = n /\ new.name = name /\ \A s \in t.segments : s.name # name
                                 /\ u = [t EXCEPT !.segments = @ \cup {new}, !.next = @ + 1]
  <2> DEFINE new == [id |-> n, name |-> name, vlan |-> vlan, rank |-> Keep(rank, Nothing), version |-> 1]
  <2>1. new \in SegmentRows /\ new.id = n /\ new.name = name
    <3>1. Keep(rank, Nothing) \in Texts
      BY TextsAssumption DEF Keep, Nothing
    <3> QED
      BY <1>2, <3>1 DEF SegmentRows
  <2>2. u = [t EXCEPT !.segments = @ \cup {new}, !.next = @ + 1] /\ \A s \in t.segments : s.name # name
    BY <1>2 DEF CreateSegment
  <2> HIDE DEF new
  <2> QED
    BY <2>1, <2>2
<1>4. /\ IsTenant(u)
      /\ u.objects = t.objects /\ u.next = n + 1
      /\ u.held = t.held /\ u.segments = t.segments \cup {new} /\ u.profiles = t.profiles
  BY <1>1, <1>2, <1>3 DEF IsTenant
<1>5. \A s \in t.segments : s.id \in Nat /\ s.id < n /\ s.id # NoId
  BY <1>1, <1>2 DEF IsTenant, SegmentRows, NetworkIsKept
<1>6. ObjectsAreKept(u)
  <2>1. \A o \in t.objects : o.id \in Nat
    BY <1>1 DEF IsTenant, Objects
  <2> QED
    BY <1>1, <1>2, <1>4, <2>1 DEF ObjectsAreKept
<1>7. NetworkIsKept(u)
  <2>1. ASSUME NEW s \in u.segments, NEW r \in u.segments, r.id = s.id \/ r.name = s.name PROVE r = s
    <3>1. CASE s = new
      BY <1>2, <1>3, <1>4, <1>5, <2>1, <3>1
    <3>2. CASE r = new
      BY <1>2, <1>3, <1>4, <1>5, <2>1, <3>2
    <3> QED
      BY <1>1, <1>4, <2>1, <3>1, <3>2 DEF NetworkIsKept
  <2>2. ASSUME NEW s \in u.segments PROVE s.id # NoId /\ s.id < u.next
    <3>1. CASE s = new
      BY <1>2, <1>3, <1>4, <3>1
    <3>2. CASE s \in t.segments
      BY <1>2, <1>4, <1>5, <3>2
    <3> QED
      BY <1>4, <3>1, <3>2
  <2> QED
    BY <1>1, <1>4, <2>1, <2>2 DEF NetworkIsKept
<1>8. AssignmentsAreKept(u)
  BY <1>1, <1>4 DEF AssignmentsAreKept, OfKind, WithId
<1>9. ObjectsFollow(t, u)
  BY <1>2, <1>4 DEF ObjectsFollow
<1>10. NetworkFollows(t, u)
  <2>1. NetworkFollows(t, t)
    BY LeftAlone DEF Succeeds
  <2>2. ASSUME NEW s \in u.segments, s.id < t.next PROVE s \in t.segments
    <3>1. s.id # n
      BY <1>2, <2>2
    <3> QED
      BY <1>3, <1>4, <3>1
  <2> QED
    BY <1>4, <2>1, <2>2 DEF NetworkFollows
<1> QED
  BY <1>4, <1>6, <1>7, <1>8, <1>9, <1>10 DEF Succeeds, WellFormed, OfNetwork

(* A segment replaced is the one of that id at that version: its version    *)
(* moves on, its id and its name stay.                                     *)
IsReplaced(t, u, s, r) == u.segments = (t.segments \ {s}) \cup {r} /\ r.id = s.id /\ r.name = s.name

LEMMA ReplaceSegmentIsSound ==
  ASSUME NEW t, WellFormed(t), NEW i, NEW version, NEW vlan \in Nat, NEW rank \in Texts,
         NEW u \in ReplaceSegment(t, i, version, vlan, rank)
  PROVE  /\ Succeeds(t, u) /\ OfNetwork(t, u) /\ u.profiles = t.profiles
         /\ \E s \in t.segments, r \in SegmentRows :
              s.id = i /\ s.version = version /\ r.rank = rank /\ IsReplaced(t, u, s, r)
<1>1. IsTenant(t) /\ ObjectsAreKept(t) /\ AssignmentsAreKept(t) /\ NetworkIsKept(t)
  BY DEF WellFormed
<1>2. PICK s \in t.segments :
        /\ s \in SegmentRows /\ s.id = i /\ s.version = version
        /\ u = [t EXCEPT !.segments = (@ \ {s}) \cup {[s EXCEPT !.vlan = vlan, !.rank = rank, !.version = @ + 1]}]
  BY <1>1 DEF ReplaceSegment, WithId, IsTenant
<1>3. PICK r \in SegmentRows : /\ r.id = s.id /\ r.name = s.name /\ r.rank = rank /\ r.version = s.version + 1
                               /\ u = [t EXCEPT !.segments = (t.segments \ {s}) \cup {r}]
  <2> DEFINE r == [s EXCEPT !.vlan = vlan, !.rank = rank, !.version = @ + 1]
  <2>1. r \in SegmentRows /\ r.id = s.id /\ r.name = s.name /\ r.rank = rank /\ r.version = s.version + 1
    <3>1. s.version + 1 \in Nat
      BY <1>2 DEF SegmentRows
    <3> QED
      BY <1>2, <3>1 DEF SegmentRows
  <2>2. u = [t EXCEPT !.segments = (t.segments \ {s}) \cup {r}]
    BY <1>2
  <2> HIDE DEF r
  <2> QED
    BY <2>1, <2>2
<1>4. /\ IsTenant(u)
      /\ u.objects = t.objects /\ u.next = t.next
      /\ u.held = t.held /\ u.segments = (t.segments \ {s}) \cup {r} /\ u.profiles = t.profiles
  BY <1>1, <1>3 DEF IsTenant
<1>5. \A x \in u.segments : \E y \in t.segments : y.id = x.id /\ y.name = x.name /\ x = IF y = s THEN r ELSE y
  BY <1>3, <1>4
<1>6. ObjectsAreKept(u) /\ NetworkIsKept(u)
  BY <1>1, <1>4, <1>5 DEF ObjectsAreKept, NetworkIsKept
<1>7. AssignmentsAreKept(u)
  BY <1>1, <1>4 DEF AssignmentsAreKept, OfKind, WithId
<1>8. NetworkFollows(t, t) /\ ObjectsFollow(t, t)
  BY LeftAlone DEF Succeeds
<1>9. SegmentFollows(s, r)
  <2>1. PICK v \in Nat : v = s.version /\ r.version = v + 1 /\ v <= v + 1 /\ v # v + 1
    BY <1>2, <1>3 DEF SegmentRows
  <2> QED
    BY <1>3, <2>1 DEF SegmentFollows
<1>10. NetworkFollows(t, u)
  <2>1. ASSUME NEW x \in u.segments, x.id < t.next PROVE \E y \in t.segments : SegmentFollows(y, x)
    <3>1. CASE x = r
      BY <1>9, <3>1
    <3>2. CASE x # r
      BY <1>4, <1>8, <2>1, <3>2 DEF NetworkFollows
    <3> QED
      BY <3>1, <3>2
  <2> QED
    BY <1>4, <1>8, <2>1 DEF NetworkFollows
<1>11. ObjectsFollow(t, u)
  BY <1>4, <1>8 DEF ObjectsFollow
<1> QED
  BY <1>2, <1>3, <1>4, <1>6, <1>7, <1>10, <1>11 DEF Succeeds, WellFormed, OfNetwork, IsReplaced

ProfilesGrow(t, u) == u.segments = t.segments /\ t.profiles \subseteq u.profiles

(* A profile created is the first of its segment. *)
LEMMA CreateProfileIsSound ==
  ASSUME NEW t, WellFormed(t), NEW i, i \in Nat, NEW version, NEW timeout, timeout \in Nat, NEW idle \in Texts,
         NEW u \in CreateProfile(t, i, version, timeout, idle)
  PROVE  Succeeds(t, u) /\ OfNetwork(t, u) /\ ProfilesGrow(t, u)
<1>1. IsTenant(t) /\ ObjectsAreKept(t) /\ AssignmentsAreKept(t) /\ NetworkIsKept(t)
  BY DEF WellFormed
<1>2. PICK new \in ProfileRows : /\ new.segment = i /\ \A p \in t.profiles : p.segment # i
                                 /\ u = [t EXCEPT !.profiles = @ \cup {new}]
  <2> DEFINE new == [segment |-> i, timeout |-> timeout, idle |-> Keep(idle, Nothing), version |-> 1]
  <2>1. new \in ProfileRows /\ new.segment = i
    <3>1. Keep(idle, Nothing) \in Texts
      BY TextsAssumption DEF Keep, Nothing
    <3> QED
      BY <3>1 DEF ProfileRows
  <2>2. u = [t EXCEPT !.profiles = @ \cup {new}] /\ \A p \in t.profiles : p.segment # i
    BY DEF CreateProfile
  <2> HIDE DEF new
  <2> QED
    BY <2>1, <2>2
<1>3. /\ IsTenant(u)
      /\ u.objects = t.objects /\ u.next = t.next
      /\ u.held = t.held /\ u.segments = t.segments /\ u.profiles = t.profiles \cup {new}
  BY <1>1, <1>2 DEF IsTenant
<1>4. ObjectsAreKept(u) /\ NetworkIsKept(u)
  BY <1>1, <1>2, <1>3 DEF ObjectsAreKept, NetworkIsKept
<1>5. AssignmentsAreKept(u)
  BY <1>1, <1>3 DEF AssignmentsAreKept, OfKind, WithId
<1>6. ObjectsFollow(t, u) /\ NetworkFollows(t, u)
  BY <1>3, LeftAlone DEF ObjectsFollow, NetworkFollows, Succeeds
<1> QED
  BY <1>3, <1>4, <1>5, <1>6 DEF Succeeds, WellFormed, OfNetwork, ProfilesGrow

(* A profile replaced is the one of that segment at that version.           *)
Reprofiled(t, u, p, q) == u.profiles = (t.profiles \ {p}) \cup {q} /\ q.segment = p.segment

LEMMA ReplaceProfileIsSound ==
  ASSUME NEW t, WellFormed(t), NEW i, NEW version, NEW segmentVersion, NEW timeout \in Nat, NEW idle \in Texts,
         NEW u \in ReplaceProfile(t, i, version, segmentVersion, timeout, idle)
  PROVE  /\ Succeeds(t, u) /\ OfNetwork(t, u) /\ u.segments = t.segments
         /\ \E p \in t.profiles, q \in ProfileRows :
              p.segment = i /\ p.version = version /\ q.idle = idle /\ Reprofiled(t, u, p, q)
<1>1. IsTenant(t) /\ ObjectsAreKept(t) /\ AssignmentsAreKept(t) /\ NetworkIsKept(t)
  BY DEF WellFormed
<1>2. PICK p \in t.profiles :
        /\ p \in ProfileRows /\ p.segment = i /\ p.version = version
        /\ u = [t EXCEPT !.profiles = (@ \ {p}) \cup {[p EXCEPT !.timeout = timeout, !.idle = idle, !.version = @ + 1]}]
  BY <1>1 DEF ReplaceProfile, IsTenant
<1>3. PICK q \in ProfileRows : /\ q.segment = p.segment /\ q.idle = idle /\ q.version = p.version + 1
                               /\ u = [t EXCEPT !.profiles = (t.profiles \ {p}) \cup {q}]
  <2> DEFINE q == [p EXCEPT !.timeout = timeout, !.idle = idle, !.version = @ + 1]
  <2>1. q \in ProfileRows /\ q.segment = p.segment /\ q.idle = idle /\ q.version = p.version + 1
    <3>1. p.version + 1 \in Nat
      BY <1>2 DEF ProfileRows
    <3> QED
      BY <1>2, <3>1 DEF ProfileRows
  <2>2. u = [t EXCEPT !.profiles = (t.profiles \ {p}) \cup {q}]
    BY <1>2
  <2> HIDE DEF q
  <2> QED
    BY <2>1, <2>2
<1>4. /\ IsTenant(u)
      /\ u.objects = t.objects /\ u.next = t.next
      /\ u.held = t.held /\ u.segments = t.segments /\ u.profiles = (t.profiles \ {p}) \cup {q}
  BY <1>1, <1>3 DEF IsTenant
<1>5. ObjectsAreKept(u) /\ NetworkIsKept(u)
  BY <1>1, <1>3, <1>4 DEF ObjectsAreKept, NetworkIsKept
<1>6. AssignmentsAreKept(u)
  BY <1>1, <1>4 DEF AssignmentsAreKept, OfKind, WithId
<1>7. NetworkFollows(t, t) /\ ObjectsFollow(t, t)
  BY LeftAlone DEF Succeeds
<1>8. ProfileFollows(p, q)
  <2>1. PICK v \in Nat : v = p.version /\ q.version = v + 1 /\ v <= v + 1 /\ v # v + 1
    BY <1>2, <1>3 DEF ProfileRows
  <2> QED
    BY <1>3, <2>1 DEF ProfileFollows
<1>9. NetworkFollows(t, u)
  <2>1. ASSUME NEW x \in t.profiles PROVE \E y \in u.profiles : ProfileFollows(x, y)
    <3>1. CASE x = p
      BY <1>4, <1>8, <3>1
    <3>2. CASE x # p
      <4>1. ProfileFollows(x, x)
        BY <1>1 DEF ProfileFollows, IsTenant, ProfileRows
      <4> QED
        BY <1>4, <3>2, <4>1
    <3> QED
      BY <3>1, <3>2
  <2> QED
    BY <1>4, <1>7, <2>1 DEF NetworkFollows
<1>10. ObjectsFollow(t, u)
  BY <1>4, <1>7 DEF ObjectsFollow
<1> QED
  BY <1>2, <1>3, <1>4, <1>5, <1>6, <1>9, <1>10 DEF Succeeds, WellFormed, OfNetwork, Reprofiled

-----------------------------------------------------------------------------
(* The order of an apply.                                                  *)

(* The kinds are numbered, each with a number of its own. *)
LEMMA RankIsOneToOne ==
  ASSUME NEW k \in EntityKinds, NEW l \in EntityKinds
  PROVE  Rank(k) \in Nat /\ (Rank(k) = Rank(l) => k = l)
<1>1. DOMAIN Kinds = 1..5
  BY DEF Kinds
<1>2. ASSUME NEW kind \in EntityKinds PROVE \E i \in DOMAIN Kinds : Kinds[i] = kind
  <2>1. /\ Kinds[1] = "resource" /\ Kinds[2] = "permission" /\ Kinds[3] = "role"
        /\ Kinds[4] = "group" /\ Kinds[5] = "account"
    BY DEF Kinds
  <2> QED
    BY <1>1, <1>2, <2>1 DEF EntityKinds
<1>3. ASSUME NEW kind \in EntityKinds PROVE Rank(kind) \in 1..5 /\ Kinds[Rank(kind)] = kind
  BY <1>1, <1>2 DEF Rank
<1> QED
  BY <1>3

(* How deep an entity lies is a number. *)
LEMMA DepthIsNatural ==
  ASSUME NEW m, Len(m.entities) \in Nat, NEW e
  PROVE  Depth(m, e) \in Nat
<1> DEFINE D == {n \in 1..Len(m.entities) :
                   \A k \in 1..n : Ancestors(m, e)[k] # NoEntity /\ Ancestors(m, e)[k].kind = e.kind}
<1>1. IsFiniteSet(1..Len(m.entities))
  BY FS_Interval
<1>2. IsFiniteSet(D)
  BY <1>1, FS_Subset
<1> QED
  BY <1>2, FS_CardinalityType DEF Depth

(* The members of a list are finitely many. *)
LEMMA FewMembers ==
  ASSUME NEW X, NEW s \in Seq(X)
  PROVE  IsFiniteSet(Range(s)) /\ Range(s) \subseteq X
<1>1. Len(s) \in Nat /\ DOMAIN s = 1..Len(s) /\ \A i \in 1..Len(s) : s[i] \in X
  BY LenProperties, ElementOfSeq
<1>2. IsFiniteSet(1..Len(s))
  BY <1>1, FS_Interval
<1>3. s \in [1..Len(s) -> X]
  BY SeqDef, <1>1
<1>4. s \in Surjection(1..Len(s), Range(s))
  BY <1>1, <1>3 DEF Surjection, Range
<1>5. IsFiniteSet(Range(s))
  BY <1>2, <1>4, FS_Surjection
<1> QED
  BY <1>1, <1>5 DEF Range

(* What a manifest is made of. *)
LEMMA ManifestParts ==
  ASSUME NEW m \in Manifests
  PROVE  /\ m.entities \in Seq(Entities) /\ m.policy \in Nat
         /\ m.segments \in Seq(SegmentSpecs) /\ m.profiles \in Seq(ProfileSpecs)
BY ManifestAssumption

(* The entities of a valid manifest are put in an order, each once.         *)
LEMMA OrderedMembers ==
  ASSUME NEW m \in Manifests, Valid(m)
  PROVE  Ordered[m] \in Seq(Range(m.entities)) /\ Range(Ordered[m]) = Range(m.entities)
<1> DEFINE E == Range(m.entities)
           R == {p \in E \X E : Before(m, p[1], p[2])}
<1>1. m.entities \in Seq(Entities) /\ Len(m.entities) \in Nat /\ DOMAIN m.entities = 1..Len(m.entities)
  BY ManifestParts, LenProperties
<1>2. IsFiniteSet(E) /\ E \subseteq Entities
  BY <1>1, FewMembers
<1>3. ASSUME NEW a \in E, NEW b \in E PROVE <<a, b>> \in R <=> Before(m, a, b)
  OBVIOUS
<1>4. ASSUME NEW a \in E
      PROVE  Depth(m, a) \in Nat /\ a.key \in Nat /\ a.kind \in EntityKinds /\ Rank(a.kind) \in Nat
  BY <1>1, <1>2, DepthIsNatural, RankIsOneToOne DEF Entities
<1>5. ASSUME NEW a \in E, NEW b \in E, a # b, a.kind = b.kind PROVE a.key # b.key
  BY <1>1, <1>5 DEF Valid, EntitiesAreValid, Range
<1>6. StrictlyOrders(R, E)
  <2>1. ASSUME NEW a \in E PROVE ~ Before(m, a, a)
    BY <1>4 DEF Before
  <2>2. ASSUME NEW a \in E, NEW b \in E, a # b PROVE Before(m, a, b) \/ Before(m, b, a)
    BY <1>4, <1>5, <2>2, RankIsOneToOne DEF Before
  <2>3. ASSUME NEW a \in E, NEW b \in E, NEW c \in E, Before(m, a, b), Before(m, b, c) PROVE Before(m, a, c)
    BY <1>4, <2>3 DEF Before
  <2> HIDE DEF R, E
  <2> QED
    BY <1>3, <2>1, <2>2, <2>3 DEF StrictlyOrders
<1>7. Ordered[m] = InOrder(E, R)
  BY DEF Ordered
<1> HIDE DEF E, R
<1>8. InOrder(E, R) \in Seq(E) /\ Range(InOrder(E, R)) = E
  BY <1>2, <1>6, InOrderMembers
<1> QED
  BY <1>7, <1>8 DEF E

-----------------------------------------------------------------------------
(* What a plan knows. An id is known by the kind and the name of its object *)
(* when no object of another kind or name can ever have it.                *)
Knows(t, i, kind, name) ==
  i \in Nat \ {NoId} /\ i < t.next /\ \A o \in t.objects : o.id = i => o.kind = kind /\ o.name = name

(* What is known of a tenant is known of those that follow it. *)
LEMMA KnowsStill ==
  ASSUME NEW t, WellFormed(t), NEW u, Succeeds(t, u), NEW i, NEW kind, NEW name, Knows(t, i, kind, name)
  PROVE  Knows(u, i, kind, name)
<1>1. t.next \in Nat /\ u.next \in Nat /\ t.next <= u.next
  BY DEF WellFormed, Succeeds, IsTenant, ObjectsFollow
<1>2. i \in Nat \ {NoId} /\ i < t.next /\ i < u.next
  BY <1>1 DEF Knows
<1>3. ASSUME NEW o \in u.objects, o.id = i PROVE o.kind = kind /\ o.name = name
  <2>1. PICK p \in t.objects : p.id = i /\ p.kind = o.kind /\ p.name = o.name
    BY <1>2, <1>3 DEF Succeeds, ObjectsFollow
  <2> QED
    BY <2>1 DEF Knows
<1> QED
  BY <1>2, <1>3 DEF Knows

(* What has been read of the kinds.                                        *)
KindsKnown(t, seen) ==
  \A k : <<"kind", k>> \in DOMAIN seen =>
           \A r \in seen[<<"kind", k>>] : Knows(t, r.id, k, r.name)

KindsRead(seen, m) == \A e \in Range(m.entities) : <<"kind", e.kind>> \in DOMAIN seen

(* A page of a kind tells of objects of that kind. *)
LEMMA PageIsKnown ==
  ASSUME NEW t, WellFormed(t), NEW kind, NEW r \in Page(t, kind)
  PROVE  Knows(t, r.id, kind, r.name)
<1>1. PICK o \in t.objects : o.kind = kind /\ (r = o \/ r = [o EXCEPT !.description = Nothing])
  BY DEF Page
<1>2. o \in Objects /\ t.next \in Nat /\ o.id # NoId /\ o.id < t.next
  BY DEF WellFormed, IsTenant, ObjectsAreKept
<1>3. r.id = o.id /\ r.name = o.name /\ o.id \in Nat
  BY <1>1, <1>2 DEF Objects
<1>4. \A p \in t.objects : p.id = o.id => p = o
  BY DEF WellFormed, ObjectsAreKept
<1> QED
  BY <1>1, <1>2, <1>3, <1>4 DEF Knows

Actions == {"create", "update", "unchanged"}

ChangeRows(m) == [entity : Range(m.entities), action : Actions, id : Nat]

(* A planned change is a creation of what has no id, or is known by what    *)
(* its entity states.                                                      *)
IsPlanned(t, c) ==
  \/ c.action = "create" /\ c.id = NoId
  \/ c.action # "create" /\ Knows(t, c.id, c.entity.kind, c.entity.name)

(* A change is planned for what the plan has read. *)
LEMMA ChangeIsPlanned ==
  ASSUME NEW m, NEW e \in Range(m.entities), NEW t, NEW seen, KindsKnown(t, seen), KindsRead(seen, m)
  PROVE  Change(seen, e) \in ChangeRows(m) /\ Change(seen, e).entity = e /\ IsPlanned(t, Change(seen, e))
<1> DEFINE rows == Matching(seen, e)
           ids == {o.id : o \in rows}
           found == CHOOSE o \in rows : \A x \in rows : o.id <= x.id
<1>1. ASSUME NEW o \in rows PROVE Knows(t, o.id, e.kind, e.name)
  BY DEF Matching, KindsKnown, KindsRead
<1>2. CASE rows = {}
  BY <1>2 DEF Change, ChangeRows, Actions, IsPlanned, NoId
<1>3. CASE rows # {}
  <2>1. ids \in SUBSET Nat /\ ids # {}
    BY <1>1, <1>3 DEF Knows
  <2>2. PICK x \in ids : \A y \in ids : x <= y
    <3> HIDE DEF ids
    <3> QED
      BY <2>1, LeastNatural
  <2>3. \E o \in rows : \A y \in rows : o.id <= y.id
    BY <2>2
  <2>4. found \in rows
    BY <2>3
  <2>5. PICK n \in Nat : n = found.id /\ Knows(t, n, e.kind, e.name)
    BY <1>1, <2>4 DEF Knows
  <2>6. PICK a \in {"update", "unchanged"} : Change(seen, e) = [entity |-> e, action |-> a, id |-> n]
    BY <1>3, <2>5 DEF Change
  <2> QED
    BY <2>5, <2>6 DEF ChangeRows, Actions, IsPlanned
<1> QED
  BY <1>2, <1>3

(* The changes of a plan are one for each entity, in the order of an apply. *)
LEMMA ChangesArePlanned ==
  ASSUME NEW m \in Manifests, Valid(m), NEW t, NEW seen, KindsKnown(t, seen), KindsRead(seen, m)
  PROVE  /\ Changes(seen, m) \in Seq(ChangeRows(m))
         /\ \A i \in 1..Len(Changes(seen, m)) : IsPlanned(t, Changes(seen, m)[i])
<1>1. PICK o \in Seq(Range(m.entities)) : o = Ordered[m]
  BY OrderedMembers
<1>2. DOMAIN o = 1..Len(o) /\ Len(o) \in Nat /\ \A i \in 1..Len(o) : o[i] \in Range(m.entities)
  BY LenProperties, ElementOfSeq
<1>3. PICK c : c = [i \in 1..Len(o) |-> Change(seen, o[i])]
  OBVIOUS
<1>4. Changes(seen, m) = c
  BY <1>1, <1>2, <1>3 DEF Changes
<1>5. \A i \in 1..Len(o) : c[i] \in ChangeRows(m) /\ IsPlanned(t, c[i])
  BY <1>2, <1>3, ChangeIsPlanned
<1>6. c \in [1..Len(o) -> ChangeRows(m)]
  BY <1>3, <1>5
<1>7. c \in Seq(ChangeRows(m))
  BY <1>2, <1>6, SeqDef
<1>8. Len(c) = Len(o)
  BY <1>2, <1>3, <1>7, LenProperties
<1> QED
  BY <1>4, <1>5, <1>7, <1>8

(* What is read later leaves the changes as they are. *)
LEMMA ChangesStand ==
  ASSUME NEW m \in Manifests, Valid(m), NEW seen, NEW more, KindsRead(seen, m),
         \A r \in DOMAIN seen : more[r] = seen[r]
  PROVE  Changes(more, m) = Changes(seen, m)
<1>1. PICK o \in Seq(Range(m.entities)) : o = Ordered[m]
  BY OrderedMembers
<1>2. \A i \in DOMAIN o : o[i] \in Range(m.entities)
  BY LenProperties, ElementOfSeq
<1>3. ASSUME NEW e \in Range(m.entities) PROVE Change(more, e) = Change(seen, e)
  <2>1. Matching(more, e) = Matching(seen, e)
    BY DEF KindsRead, Matching
  <2> QED
    BY <2>1 DEF Change
<1> QED
  BY <1>1, <1>2, <1>3 DEF Changes

(* The id of a key is that of a change with the key. *)
LEMMA IdOfAChange ==
  ASSUME NEW m, NEW c \in Seq(ChangeRows(m)), NEW key
  PROVE  /\ IdOf(c, key) \in Nat
         /\ IdOf(c, key) # NoId => \E i \in 1..Len(c) : c[i].entity.key = key /\ c[i].id = IdOf(c, key)
<1> DEFINE at == {i \in DOMAIN c : c[i].entity.key = key}
<1>1. DOMAIN c = 1..Len(c) /\ Len(c) \in Nat /\ \A i \in 1..Len(c) : c[i] \in ChangeRows(m)
  BY LenProperties, ElementOfSeq
<1>2. ASSUME at # {} PROVE Min(at) \in at
  <2>1. at \in SUBSET Nat
    BY <1>1
  <2> HIDE DEF at
  <2>2. \E x \in at : \A y \in at : x <= y
    BY <1>2, <2>1, LeastNatural
  <2> QED
    BY <2>2 DEF Min
<1>3. IdOf(c, key) = IF key = NoKey \/ at = {} THEN NoId ELSE c[Min(at)].id
  BY DEF IdOf
<1>4. CASE key = NoKey \/ at = {}
  BY <1>3, <1>4 DEF NoId
<1>5. CASE ~ (key = NoKey \/ at = {})
  <2>1. PICK i \in 1..Len(c) : i = Min(at) /\ c[i].entity.key = key
    BY <1>1, <1>2, <1>5
  <2>2. IdOf(c, key) = c[i].id /\ c[i].id \in Nat
    BY <1>1, <1>3, <1>5, <2>1 DEF ChangeRows
  <2> QED
    BY <2>1, <2>2
<1> QED
  BY <1>4, <1>5

(* When one change gets an id, the id of a key stays or becomes that. *)
Numbered(c, i, v) == [c EXCEPT ![i].id = v]

LEMMA IdOfMoves ==
  ASSUME NEW m, NEW c \in Seq(ChangeRows(m)), NEW i \in 1..Len(c), NEW v \in Nat, NEW d,
         d = Numbered(c, i, v), NEW key
  PROVE  d \in Seq(ChangeRows(m)) /\ IdOf(d, key) \in {IdOf(c, key), v}
<1>1. DOMAIN c = 1..Len(c) /\ Len(c) \in Nat /\ \A j \in 1..Len(c) : c[j] \in ChangeRows(m)
  BY LenProperties, ElementOfSeq
<1>2. PICK x \in ChangeRows(m) : x = [c[i] EXCEPT !.id = v] /\ x.entity = c[i].entity /\ x.id = v
  <2> DEFINE x == [c[i] EXCEPT !.id = v]
  <2>1. x \in ChangeRows(m) /\ x.entity = c[i].entity /\ x.id = v
    BY <1>1 DEF ChangeRows
  <2> HIDE DEF x
  <2> QED
    BY <2>1 DEF x
<1>3. d = [c EXCEPT ![i] = x]
  BY <1>2 DEF Numbered
<1>4. d \in Seq(ChangeRows(m)) /\ DOMAIN d = DOMAIN c
  BY <1>1, <1>3, ExceptSeq
<1>5. \A j \in DOMAIN c : d[j] = IF j = i THEN x ELSE c[j]
  BY <1>3
<1>6. {j \in DOMAIN d : d[j].entity.key = key} = {j \in DOMAIN c : c[j].entity.key = key}
  BY <1>1, <1>2, <1>4, <1>5
<1> DEFINE at == {j \in DOMAIN c : c[j].entity.key = key}
<1>7. ASSUME at # {} PROVE Min(at) \in at
  <2>1. at \in SUBSET Nat
    BY <1>1
  <2> HIDE DEF at
  <2>2. \E y \in at : \A z \in at : y <= z
    BY <1>7, <2>1, LeastNatural
  <2> QED
    BY <2>2 DEF Min
<1>8. /\ IdOf(c, key) = IF key = NoKey \/ at = {} THEN NoId ELSE c[Min(at)].id
      /\ IdOf(d, key) = IF key = NoKey \/ at = {} THEN NoId ELSE d[Min(at)].id
  <2> DEFINE there == {j \in DOMAIN d : d[j].entity.key = key}
  <2>1. IdOf(d, key) = IF key = NoKey \/ there = {} THEN NoId ELSE d[Min(there)].id
    BY Zenon DEF IdOf
  <2>2. IdOf(c, key) = IF key = NoKey \/ at = {} THEN NoId ELSE c[Min(at)].id
    BY Zenon DEF IdOf
  <2>3. there = at
    BY <1>6
  <2> HIDE DEF there, at
  <2> QED
    BY <2>1, <2>2, <2>3
<1> HIDE DEF at
<1>9. IdOf(d, key) \in {IdOf(c, key), v}
  <2>1. CASE key = NoKey \/ at = {}
    BY <1>8, <2>1
  <2>2. CASE ~ (key = NoKey \/ at = {})
    <3>1. PICK j \in DOMAIN c : j = Min(at)
      BY <1>7, <2>2 DEF at
    <3>2. IdOf(d, key) = d[j].id /\ IdOf(c, key) = c[j].id
      BY <1>8, <2>2, <3>1
    <3> QED
      BY <1>2, <1>5, <3>1, <3>2
  <2> QED
    BY <2>1, <2>2
<1> QED
  BY <1>4, <1>9

-----------------------------------------------------------------------------
(* The reads of a plan.                                                    *)

(* Nothing left of the reads is nothing unread. *)
LEMMA NothingLeft ==
  ASSUME NEW X, NEW reads \in Seq(X), NEW D, Kept(reads, Range(reads) \ D) = <<>>
  PROVE  Range(reads) \subseteq D
<1>1. Range(Kept(reads, Range(reads) \ D)) = Range(reads) \cap (Range(reads) \ D)
  BY KeptMembers
<1>2. Range(<<>>) = {}
  BY EmptySeq DEF Range
<1> QED
  BY <1>1, <1>2

(* A list made of another, place by place. *)
LEMMA ListOf ==
  ASSUME NEW X, NEW s \in Seq(X), NEW Y, NEW r, DOMAIN r = DOMAIN s, \A i \in DOMAIN s : r[i] \in Y,
         r = [i \in DOMAIN s |-> r[i]]
  PROVE  r \in Seq(Y) /\ Len(r) = Len(s) /\ DOMAIN r = 1..Len(s)
<1>1. DOMAIN s = 1..Len(s) /\ Len(s) \in Nat
  BY LenProperties
<1>2. r \in [1..Len(s) -> Y]
  BY <1>1
<1>3. r \in Seq(Y)
  BY <1>1, <1>2, SeqDef
<1> QED
  BY <1>1, <1>3, LenProperties

(* A list is one of its members. *)
LEMMA MembersOf ==
  ASSUME NEW X, NEW s \in Seq(X)
  PROVE  s \in Seq(Range(s))
<1>1. DOMAIN s = 1..Len(s) /\ Len(s) \in Nat /\ s \in [1..Len(s) -> X]
  BY LenProperties, SeqDef
<1>2. s \in [1..Len(s) -> Range(s)]
  BY <1>1 DEF Range
<1> QED
  BY <1>1, <1>2, SeqDef

(* The kinds read are those of the entities. *)
LEMMA KindReadsAre ==
  ASSUME NEW m \in Manifests
  PROVE  /\ KindReads(m) \in Seq({<<"kind", k>> : k \in EntityKinds})
         /\ \A e \in Range(m.entities) : <<"kind", e.kind>> \in Range(KindReads(m))
<1>1. Kinds \in Seq(EntityKinds) /\ Range(Kinds) = EntityKinds
  <2>1. DOMAIN Kinds = 1..5 /\ Kinds = [i \in 1..5 |-> Kinds[i]]
    BY DEF Kinds
  <2>2. /\ Kinds[1] = "resource" /\ Kinds[2] = "permission" /\ Kinds[3] = "role"
        /\ Kinds[4] = "group" /\ Kinds[5] = "account"
    BY DEF Kinds
  <2>3. \A i \in 1..5 : Kinds[i] \in EntityKinds
    BY <2>2 DEF EntityKinds
  <2>4. Kinds \in [1..5 -> EntityKinds]
    BY <2>1, <2>3
  <2>5. Kinds \in Seq(EntityKinds)
    BY <2>4, SeqDef
  <2>6. \A k \in EntityKinds : \E i \in 1..5 : Kinds[i] = k
    BY <2>2 DEF EntityKinds
  <2> QED
    BY <2>1, <2>3, <2>5, <2>6 DEF Range
<1>2. PICK K : K = {e.kind : e \in Range(m.entities)}
  OBVIOUS
<1>3. m.entities \in Seq(Entities) /\ Range(m.entities) \subseteq Entities
  BY ManifestParts, FewMembers
<1>4. PICK kinds \in Seq(EntityKinds) : kinds = Kept(Kinds, K) /\ Range(kinds) = EntityKinds \cap K
  BY <1>1, KeptType, KeptMembers
<1>5. PICK r : r = [i \in DOMAIN kinds |-> <<"kind", kinds[i]>>]
  OBVIOUS
<1>6. KindReads(m) = r
  BY <1>2, <1>4, <1>5 DEF KindReads
<1>7. \A i \in DOMAIN kinds : kinds[i] \in EntityKinds
  BY <1>4, LenProperties, ElementOfSeq
<1>8. r \in Seq({<<"kind", k>> : k \in EntityKinds})
  BY <1>4, <1>5, <1>7, ListOf
<1>9. ASSUME NEW e \in Range(m.entities) PROVE <<"kind", e.kind>> \in Range(r)
  <2>1. e.kind \in Range(kinds)
    BY <1>2, <1>3, <1>4 DEF Entities
  <2>2. PICK i \in DOMAIN kinds : kinds[i] = e.kind
    BY <2>1 DEF Range
  <2> QED
    BY <1>5, <2>2 DEF Range
<1> QED
  BY <1>6, <1>8, <1>9

(* The subjects that state roles are the groups and accounts that do. *)
LEMMA StatingAre ==
  ASSUME NEW m \in Manifests
  PROVE  /\ Stating(m) \in Seq(Range(m.entities))
         /\ \A e \in Range(Stating(m)) : e \in Range(m.entities) /\ e.kind \in Subjects
<1>1. PICK es \in Seq(Range(m.entities)) : es = m.entities /\ Range(es) = Range(m.entities)
  <2>1. m.entities \in Seq(Entities)
    BY ManifestParts
  <2>2. m.entities \in Seq(Range(m.entities))
    BY <2>1, MembersOf
  <2> QED
    BY <2>2
<1> DEFINE of(kind) == Kept(es, {e \in Range(m.entities) : e.kind = kind /\ e.roles # <<>>})
<1>2. ASSUME NEW kind
      PROVE  of(kind) \in Seq(Range(m.entities)) /\ \A e \in Range(of(kind)) : e \in Range(m.entities) /\ e.kind = kind
  BY <1>1, KeptType, KeptMembers
<1>3. Stating(m) = of("group") \o of("account")
  BY <1>1 DEF Stating
<1> HIDE DEF of
<1>4. /\ of("group") \o of("account") \in Seq(Range(m.entities))
      /\ Range(of("group") \o of("account")) = Range(of("group")) \cup Range(of("account"))
  BY <1>2, ConcatProperties, RangeConcatenation
<1> QED
  BY <1>2, <1>3, <1>4 DEF Subjects

(* The roles read are those of the subjects that exist. *)
LEMMA HeldReadsAre ==
  ASSUME NEW m \in Manifests, NEW seen
  PROVE  /\ HeldReads(seen, m) \in Seq({<<"held", k>> : k \in Nat})
         /\ \A e \in Range(Stating(m)) :
              IdOf(Changes(seen, m), e.key) # NoId => <<"held", e.key>> \in Range(HeldReads(seen, m))
<1>1. PICK E : E = {e \in Range(m.entities) : IdOf(Changes(seen, m), e.key) # NoId}
  OBVIOUS
<1>2. PICK S \in Seq(Range(m.entities)) : S = Stating(m) /\ Range(S) \subseteq Range(m.entities)
  BY StatingAre
<1>3. PICK x \in Seq(Range(m.entities)) : x = Kept(S, E) /\ Range(x) = Range(S) \cap E
  BY <1>2, KeptType, KeptMembers
<1>4. PICK r : r = [i \in DOMAIN x |-> <<"held", x[i].key>>]
  OBVIOUS
<1>5. HeldReads(seen, m) = r
  BY <1>1, <1>2, <1>3, <1>4 DEF HeldReads
<1>6. \A e \in Range(m.entities) : e.key \in Nat
  <2>1. Range(m.entities) \subseteq Entities
    BY ManifestParts, FewMembers
  <2> QED
    BY <2>1 DEF Entities
<1>7. \A i \in DOMAIN x : x[i] \in Range(m.entities)
  BY <1>3, LenProperties, ElementOfSeq
<1>8. r \in Seq({<<"held", k>> : k \in Nat})
  BY <1>3, <1>4, <1>6, <1>7, ListOf
<1>9. ASSUME NEW e \in Range(S), IdOf(Changes(seen, m), e.key) # NoId PROVE <<"held", e.key>> \in Range(r)
  <2>1. e \in Range(x)
    BY <1>1, <1>2, <1>3, <1>9
  <2>2. PICK i \in DOMAIN x : x[i] = e
    BY <2>1 DEF Range
  <2> QED
    BY <1>4, <2>2 DEF Range
<1> QED
  BY <1>2, <1>5, <1>8, <1>9

NetworkParts == {<<"network", "policy">>, <<"network", "segments">>, <<"network", "profiles">>}

(* Of the network is read what the manifest states. *)
LEMMA NetworkReadsAre ==
  ASSUME NEW m \in Manifests
  PROVE  /\ NetworkReads(m) \in Seq(NetworkParts)
         /\ m.policy # NoPolicy => <<"network", "policy">> \in Range(NetworkReads(m))
         /\ m.segments # <<>> => <<"network", "segments">> \in Range(NetworkReads(m))
         /\ m.profiles # <<>> => <<"network", "profiles">> \in Range(NetworkReads(m))
<1> DEFINE a == IF m.policy = NoPolicy THEN <<>> ELSE <<<<"network", "policy">>>>
           b == IF m.segments = <<>> THEN <<>> ELSE <<<<"network", "segments">>>>
           c == IF m.profiles = <<>> THEN <<>> ELSE <<<<"network", "profiles">>>>
<1>1. ASSUME NEW x \in NetworkParts PROVE <<x>> \in Seq(NetworkParts) /\ Range(<<x>>) = {x}
  BY DEF Range
<1>2. <<>> \in Seq(NetworkParts)
  BY EmptySeq
<1>3. a \in Seq(NetworkParts) /\ b \in Seq(NetworkParts) /\ c \in Seq(NetworkParts)
  BY <1>1, <1>2 DEF NetworkParts
<1>4. /\ m.policy # NoPolicy => <<"network", "policy">> \in Range(a)
      /\ m.segments # <<>> => <<"network", "segments">> \in Range(b)
      /\ m.profiles # <<>> => <<"network", "profiles">> \in Range(c)
  BY <1>1 DEF NetworkParts
<1>5. NetworkReads(m) = a \o b \o c
  BY DEF NetworkReads
<1> HIDE DEF a, b, c
<1>6. PICK ab \in Seq(NetworkParts) : ab = a \o b /\ Range(ab) = Range(a) \cup Range(b)
  BY <1>3, ConcatProperties, RangeConcatenation
<1>7. PICK abc \in Seq(NetworkParts) : abc = ab \o c /\ Range(abc) = Range(ab) \cup Range(c)
  BY <1>3, ConcatProperties, RangeConcatenation
<1> QED
  BY <1>4, <1>5, <1>6, <1>7

(* A list of members of one set is one of members of a larger. *)
LEMMA SeqIsMonotone ==
  ASSUME NEW X, NEW Y, X \subseteq Y, NEW s \in Seq(X)
  PROVE  s \in Seq(Y)
<1>1. Len(s) \in Nat /\ s \in [1..Len(s) -> X]
  BY LenProperties, SeqDef
<1>2. s \in [1..Len(s) -> Y]
  BY <1>1
<1> QED
  BY <1>1, <1>2, SeqDef

(* The first of two lists joined is of one of them. *)
LEMMA HeadOfTwo ==
  ASSUME NEW a, NEW b, a \in Seq(Range(a)), b \in Seq(Range(b)), a \o b # <<>>
  PROVE  Head(a \o b) \in Range(a) \cup Range(b)
<1> DEFINE Y == Range(a) \cup Range(b)
<1>1. a \in Seq(Y) /\ b \in Seq(Y)
  BY SeqIsMonotone
<1> HIDE DEF Y
<1>2. a \o b \in Seq(Y)
  BY <1>1, ConcatProperties
<1>3. Head(a \o b) \in Y
  BY <1>2, HeadTailProperties
<1> QED
  BY <1>3 DEF Y

(* A read that follows: of a kind, or, once all the kinds are read, of what *)
(* a subject holds or of the network.                                      *)
IsNext(seen, m, read) ==
  \/ \E k \in EntityKinds : read = <<"kind", k>>
  \/ KindsRead(seen, m) /\ \E k \in Nat : read = <<"held", k>>
  \/ KindsRead(seen, m) /\ read \in NetworkParts

(* Once nothing is left of the kinds, each is read. *)
LEMMA AllKindsRead ==
  ASSUME NEW m \in Manifests, NEW seen, Kept(KindReads(m), Range(KindReads(m)) \ DOMAIN seen) = <<>>
  PROVE  KindsRead(seen, m)
<1>1. PICK r \in Seq({<<"kind", k>> : k \in EntityKinds}) :
        r = KindReads(m) /\ \A e \in Range(m.entities) : <<"kind", e.kind>> \in Range(r)
  BY KindReadsAre
<1>2. Range(r) \subseteq DOMAIN seen
  BY <1>1, NothingLeft
<1> QED
  BY <1>1, <1>2 DEF KindsRead

(* The next read is one that is yet to be made. *)
LEMMA NextRead ==
  ASSUME NEW m \in Manifests, NEW seen, Unread(seen, m) # <<>>
  PROVE  Head(Unread(seen, m)) \notin DOMAIN seen /\ IsNext(seen, m, Head(Unread(seen, m)))
<1> DEFINE left(reads) == Kept(reads, Range(reads) \ DOMAIN seen)
<1>1. PICK K \in Seq({<<"kind", k>> : k \in EntityKinds}) : K = KindReads(m)
  BY KindReadsAre
<1>2. PICK H \in Seq({<<"held", k>> : k \in Nat}) : H = HeldReads(seen, m)
  BY HeldReadsAre
<1>3. PICK N \in Seq(NetworkParts) : N = NetworkReads(m)
  BY NetworkReadsAre
<1>4. ASSUME NEW X, NEW reads \in Seq(X)
      PROVE  left(reads) \in Seq(X) /\ Range(left(reads)) \cap DOMAIN seen = {}
  BY KeptType, KeptMembers
<1>5. ASSUME NEW X, NEW s \in Seq(X), s # <<>> PROVE Head(s) \in X /\ Head(s) \in Range(s)
  <2>1. s \in Seq(Range(s))
    BY MembersOf
  <2> QED
    BY <1>5, <2>1, HeadTailProperties
<1>6. Unread(seen, m) = IF left(K) # <<>> THEN left(K) ELSE left(H) \o left(N)
  BY <1>1, <1>2, <1>3 DEF Unread
<1>7. CASE left(K) # <<>>
  <2>1. PICK s \in Seq({<<"kind", k>> : k \in EntityKinds}) : s = left(K) /\ Range(s) \cap DOMAIN seen = {}
    BY <1>4
  <2>2. Head(s) \in {<<"kind", k>> : k \in EntityKinds} /\ Head(s) \in Range(s)
    BY <1>5, <1>7, <2>1
  <2> QED
    BY <1>6, <1>7, <2>1, <2>2 DEF IsNext
<1>8. CASE left(K) = <<>>
  <2>1. KindsRead(seen, m)
    BY <1>1, <1>8, AllKindsRead
  <2>2. PICK h \in Seq({<<"held", k>> : k \in Nat}) : h = left(H) /\ Range(h) \cap DOMAIN seen = {}
    BY <1>4
  <2>3. PICK n \in Seq(NetworkParts) : n = left(N) /\ Range(n) \cap DOMAIN seen = {}
    BY <1>4
  <2>4. Unread(seen, m) = h \o n
    BY <1>6, <1>8, <2>2, <2>3
  <2>5. h \in Seq(Range(h)) /\ n \in Seq(Range(n))
    BY <2>2, <2>3, MembersOf
  <2>6. Head(h \o n) \in Range(h) \cup Range(n)
    BY <2>4, <2>5, HeadOfTwo
  <2>7. Range(h) \subseteq {<<"held", k>> : k \in Nat} /\ Range(n) \subseteq NetworkParts
    BY <2>2, <2>3, FewMembers
  <2>8. PICK read : read = Head(Unread(seen, m)) /\ read \in Range(h) \cup Range(n)
    BY <2>4, <2>6
  <2> QED
    BY <2>1, <2>2, <2>3, <2>7, <2>8 DEF IsNext
<1> QED
  BY <1>7, <1>8

(* When nothing is unread, all that a plan is made of has been read. *)
LEMMA AllRead ==
  ASSUME NEW m \in Manifests, NEW seen, Unread(seen, m) = <<>>
  PROVE  /\ KindsRead(seen, m)
         /\ \A e \in Range(Stating(m)) :
              IdOf(Changes(seen, m), e.key) # NoId => <<"held", e.key>> \in DOMAIN seen
         /\ m.policy # NoPolicy => <<"network", "policy">> \in DOMAIN seen
         /\ m.segments # <<>> => <<"network", "segments">> \in DOMAIN seen
         /\ m.profiles # <<>> => <<"network", "profiles">> \in DOMAIN seen
<1> DEFINE left(reads) == Kept(reads, Range(reads) \ DOMAIN seen)
           Y == {<<"held", k>> : k \in Nat} \cup NetworkParts
<1>1. PICK H \in Seq(Y) :
        H = HeldReads(seen, m) /\ \A e \in Range(Stating(m)) :
              IdOf(Changes(seen, m), e.key) # NoId => <<"held", e.key>> \in Range(H)
  BY HeldReadsAre, SeqIsMonotone
<1>2. PICK N \in Seq(Y) : N = NetworkReads(m)
  BY NetworkReadsAre, SeqIsMonotone
<1> HIDE DEF Y
<1>3. left(H) \in Seq(Y) /\ left(N) \in Seq(Y)
  BY KeptType
<1>4. left(KindReads(m)) = <<>> /\ left(H) \o left(N) = <<>>
  BY <1>1, <1>2 DEF Unread
<1>5. KindsRead(seen, m)
  BY <1>4, AllKindsRead
<1>6. PICK h \in Seq(Y), n \in Seq(Y) : h = left(H) /\ n = left(N) /\ h \o n = <<>>
  BY <1>3, <1>4
<1>7. h = <<>> /\ n = <<>>
  <2>1. Len(h \o n) = Len(h) + Len(n) /\ Len(h \o n) = 0
    BY <1>6, ConcatProperties, EmptySeq
  <2>2. Len(h) \in Nat /\ Len(n) \in Nat
    BY LenProperties
  <2> QED
    BY <2>1, <2>2, EmptySeq
<1>8. Range(H) \subseteq DOMAIN seen /\ Range(N) \subseteq DOMAIN seen
  BY <1>6, <1>7, NothingLeft
<1> QED
  BY <1>1, <1>2, <1>5, <1>8, NetworkReadsAre

-----------------------------------------------------------------------------
(* What subjects hold, as it is read and as it is planned.                 *)
HeldRows == [role : Texts, resource : Nat, inherit : BOOLEAN, scope : Texts]

(* A role held is known by its name. *)
LEMMA RoleHasName ==
  ASSUME NEW t, WellFormed(t), NEW h \in t.held
  PROVE  /\ \E o \in t.objects : o.id = h.role /\ o.kind = "role" /\ o.name = RoleName(t, h)
         /\ Row(t, h) \in HeldRows
<1>1. t.objects \subseteq Objects /\ h \in Assignments
  BY DEF WellFormed, IsTenant
<1>2. PICK o \in t.objects : o.id = h.role /\ o.kind = "role"
  BY DEF WellFormed, AssignmentsAreKept, OfKind, WithId
<1>3. WithId(t.objects, h.role) = {o}
  BY <1>2 DEF WellFormed, ObjectsAreKept, WithId
<1>4. RoleName(t, h) = o.name
  BY <1>3 DEF RoleName
<1>5. o.name \in Texts /\ h.resource \in Nat /\ h.inherit \in BOOLEAN /\ h.scope \in Texts
  BY <1>1 DEF Objects, Assignments
<1> QED
  BY <1>2, <1>4, <1>5 DEF Row, HeldRows

(* A subject's roles are listed once each, by names that are theirs alone. *)
LEMMA RowsAreUnique ==
  ASSUME NEW t, WellFormed(t), NEW h \in t.held, NEW g \in t.held, g.subject = h.subject,
         RoleName(t, g) = RoleName(t, h)
  PROVE  g = h
<1>1. PICK o \in t.objects : o.id = h.role /\ o.kind = "role" /\ o.name = RoleName(t, h)
  BY RoleHasName
<1>2. PICK p \in t.objects : p.id = g.role /\ p.kind = "role" /\ p.name = RoleName(t, g)
  BY RoleHasName
<1>3. p = o
  BY <1>1, <1>2 DEF WellFormed, ObjectsAreKept, SameName
<1>4. Pair(g) = Pair(h)
  BY <1>1, <1>2, <1>3 DEF Pair
<1> QED
  BY <1>4 DEF WellFormed, AssignmentsAreKept

(* A name that is kept: what is held through a change is listed as before. *)
LEMMA RowStands ==
  ASSUME NEW t, WellFormed(t), NEW u, Succeeds(t, u), NEW h \in t.held, h \in u.held
  PROVE  RoleName(u, h) = RoleName(t, h) /\ Row(u, h) = Row(t, h)
<1>1. PICK o \in t.objects : o.id = h.role /\ o.name = RoleName(t, h)
  BY RoleHasName
<1>2. PICK p \in u.objects : p.id = h.role /\ p.name = RoleName(u, h)
  BY RoleHasName DEF Succeeds
<1>3. PICK q \in t.objects : q.id = p.id /\ q.name = p.name
  BY <1>1, <1>2 DEF Succeeds, ObjectsFollow, WellFormed, ObjectsAreKept
<1>4. q = o
  BY <1>1, <1>2, <1>3 DEF WellFormed, ObjectsAreKept
<1> QED
  BY <1>1, <1>2, <1>3, <1>4 DEF Row

(* What was read of a subject's roles, of the bindings that stood at the    *)
(* start and nobody has touched: each is in it, and is all there is of its  *)
(* role.                                                                   *)
IsListed(t, listed, h) == Row(t, h) \in listed /\ \A r \in listed : r.role = RoleName(t, h) => r = Row(t, h)

RolesKnown(t, seen, m, before) ==
  \A k : <<"held", k>> \in DOMAIN seen =>
    /\ KindsRead(seen, m)
    /\ seen[<<"held", k>>] \subseteq HeldRows
    /\ \A h \in before : h.subject = IdOf(Changes(seen, m), k) => IsListed(t, seen[<<"held", k>>], h)

(* A subject's roles are read as they are held. *)
LEMMA HeldIsListed ==
  ASSUME NEW t, WellFormed(t), NEW i
  PROVE  /\ HeldBy(t, i) \subseteq HeldRows
         /\ \A h \in t.held : h.subject = i => IsListed(t, HeldBy(t, i), h)
<1>1. HeldBy(t, i) \subseteq HeldRows
  BY RoleHasName DEF HeldBy
<1>2. ASSUME NEW h \in t.held, h.subject = i PROVE IsListed(t, HeldBy(t, i), h)
  <2>1. Row(t, h) \in HeldBy(t, i)
    BY <1>2 DEF HeldBy
  <2>2. ASSUME NEW r \in HeldBy(t, i), r.role = RoleName(t, h) PROVE r = Row(t, h)
    <3>1. PICK g \in t.held : g.subject = i /\ r = Row(t, g)
      BY DEF HeldBy
    <3>2. g = h
      BY <1>2, <2>2, <3>1, RowsAreUnique DEF Row
    <3> QED
      BY <3>1, <3>2
  <2> QED
    BY <2>1, <2>2 DEF IsListed
<1> QED
  BY <1>1, <1>2

(* And stay known while the tenant changes. *)
LEMMA RolesKnownStill ==
  ASSUME NEW t, WellFormed(t), NEW u, Succeeds(t, u), NEW seen, NEW m, NEW before, NEW left,
         before \subseteq t.held, left \subseteq before, left \subseteq u.held, RolesKnown(t, seen, m, before)
  PROVE  RolesKnown(u, seen, m, left)
<1>1. \A h \in left : RoleName(u, h) = RoleName(t, h) /\ Row(u, h) = Row(t, h)
  BY RowStands
<1>2. \A h \in left : \A listed : IsListed(t, listed, h) => IsListed(u, listed, h)
  BY <1>1 DEF IsListed
<1> QED
  BY <1>2 DEF RolesKnown

-----------------------------------------------------------------------------
(* The bindings of a plan.                                                 *)

(* Of the entities of a kind, one has the key that is declared. *)
LEMMA DeclaredIsUnique ==
  ASSUME NEW m \in Manifests, Valid(m), NEW kind, NEW key, Declares(m, kind, key),
         NEW e \in Range(m.entities), e.key = key, e.kind = kind
  PROVE  e = Entity(m, key)
<1> DEFINE at == {i \in DOMAIN m.entities : m.entities[i].key = key}
<1>1. DOMAIN m.entities \subseteq Nat
  BY ManifestParts, LenProperties
<1>2. PICK j \in at : Entity(m, key) = m.entities[j]
  <2>1. Entity(m, key) = IF key = NoKey \/ at = {} THEN NoEntity ELSE m.entities[Min(at)]
    BY Zenon DEF Entity
  <2>2. at # {} /\ Entity(m, key) = m.entities[Min(at)]
    BY <2>1 DEF Declares
  <2>3. at \in SUBSET Nat
    BY <1>1
  <2> HIDE DEF at
  <2>4. \E x \in at : \A y \in at : x <= y
    BY <2>2, <2>3, LeastNatural
  <2>5. Min(at) \in at
    BY <2>4 DEF Min
  <2> QED
    BY <2>2, <2>5
<1>3. PICK i \in DOMAIN m.entities : m.entities[i] = e
  BY DEF Range
<1>4. m.entities[j].kind = kind /\ m.entities[j].key = key /\ j \in DOMAIN m.entities
  BY <1>2 DEF Declares
<1>5. i = j
  BY <1>3, <1>4 DEF Valid, EntitiesAreValid
<1> QED
  BY <1>2, <1>3, <1>5

(* The roles a subject of a valid manifest states are roles of it. *)
LEMMA StatedRoles ==
  ASSUME NEW m \in Manifests, Valid(m), NEW e \in Range(m.entities), e.kind \in Subjects
  PROVE  /\ e.roles \in Seq(RoleSpecs)
         /\ \A b \in Range(e.roles) : b \in RoleSpecs /\ Declares(m, "role", b.role)
<1>1. Range(m.entities) \subseteq Entities
  BY ManifestParts, FewMembers
<1>2. e.roles \in Seq(RoleSpecs)
  BY <1>1 DEF Entities
<1>3. Range(e.roles) \subseteq RoleSpecs
  BY <1>2, FewMembers
<1>4. PICK i \in DOMAIN m.entities : m.entities[i] = e
  BY DEF Range
<1>5. \A b \in DOMAIN e.roles : BindingIsValid(m, e.roles[b])
  BY <1>4 DEF Valid, BindingsAreValid
<1> QED
  BY <1>2, <1>3, <1>5 DEF Range, BindingIsValid

Olds == [resource : Nat, inherit : BOOLEAN, scope : Texts]
BindingRows(m) == [subject : Range(m.entities), binding : RoleSpecs, action : Actions, old : Olds]

(* PairOf, of a plan's changes. *)
PairBy(changes, pb) == <<IdOf(changes, pb.subject.key), IdOf(changes, pb.binding.role)>>

OldOf(h) == [resource |-> h.resource, inherit |-> h.inherit, scope |-> h.scope]

(* A binding that stood at the start and nobody has touched is not created  *)
(* anew, and when it is moved its old place is known.                      *)
IsKnown(changes, pb, before) ==
  \A h \in before : Pair(h) = PairBy(changes, pb) =>
    pb.action # "create" /\ (pb.action = "update" => pb.old = OldOf(h))

(* A role that is planned under a key is found by the name of the key.      *)
LEMMA RoleOfKey ==
  ASSUME NEW m \in Manifests, Valid(m), NEW t, WellFormed(t), NEW seen, KindsKnown(t, seen), KindsRead(seen, m),
         NEW h \in t.held, NEW key, Declares(m, "role", key), IdOf(Changes(seen, m), key) = h.role
  PROVE  RoleName(t, h) = Entity(m, key).name
<1>1. PICK c \in Seq(ChangeRows(m)) : c = Changes(seen, m) /\ \A i \in 1..Len(c) : IsPlanned(t, c[i])
  BY ChangesArePlanned
<1>2. PICK o \in t.objects : o.id = h.role /\ o.kind = "role" /\ o.name = RoleName(t, h)
  BY RoleHasName
<1>3. h.role # NoId
  BY <1>2 DEF WellFormed, ObjectsAreKept
<1>4. PICK i \in 1..Len(c) : c[i].entity.key = key /\ c[i].id = h.role
  BY <1>1, <1>3, IdOfAChange
<1>5. Knows(t, h.role, c[i].entity.kind, c[i].entity.name)
  BY <1>1, <1>3, <1>4 DEF IsPlanned
<1>6. c[i].entity.kind = "role" /\ c[i].entity.name = RoleName(t, h)
  BY <1>2, <1>5 DEF Knows
<1>7. c[i].entity \in Range(m.entities)
  <2>1. c[i] \in ChangeRows(m)
    BY ElementOfSeq
  <2> QED
    BY <2>1 DEF ChangeRows
<1>8. c[i].entity = Entity(m, key)
  BY <1>4, <1>6, <1>7, DeclaredIsUnique
<1> QED
  BY <1>6, <1>8

(* A binding that is planned is known. *)
LEMMA BindingIsKnown ==
  ASSUME NEW m \in Manifests, Valid(m), NEW t, WellFormed(t), NEW seen, KindsKnown(t, seen), KindsRead(seen, m),
         NEW before, before \subseteq t.held, RolesKnown(t, seen, m, before),
         NEW e \in Range(m.entities), e.kind \in Subjects,
         IdOf(Changes(seen, m), e.key) # NoId => <<"held", e.key>> \in DOMAIN seen,
         NEW b \in Range(e.roles)
  PROVE  /\ Binding(seen, m, Changes(seen, m), e, b) \in BindingRows(m)
         /\ IsKnown(Changes(seen, m), Binding(seen, m, Changes(seen, m), e, b), before)
<1>1. b \in RoleSpecs /\ Declares(m, "role", b.role)
  BY StatedRoles
<1>2. PICK c \in Seq(ChangeRows(m)) : c = Changes(seen, m)
  BY ChangesArePlanned
<1> DEFINE listed == seen[<<"held", e.key>>]
           rows == IF IdOf(c, e.key) = NoId THEN {} ELSE {h \in listed : h.role = Entity(m, b.role).name}
           held == CHOOSE h \in rows : TRUE
           pb == Binding(seen, m, c, e, b)
<1>3. rows \subseteq HeldRows
  BY <1>2 DEF RolesKnown
<1>4. rows # {} => held \in rows /\ held \in HeldRows
  BY <1>3
<1>5. NotHeld \in Olds /\ (held \in HeldRows => OldOf(held) \in Olds)
  BY TextsAssumption DEF NotHeld, Olds, OldOf, HeldRows, NoId
<1>6. PICK a \in Actions, o \in Olds :
        /\ pb = [subject |-> e, binding |-> b, action |-> a, old |-> o]
        /\ a = "create" => rows = {}
        /\ a = "update" => rows # {} /\ o = OldOf(held)
  <2> DEFINE resource == IdOf(c, b.resource)
             matches == /\ (held.resource = NoId) = (b.resource = NoKey)
                        /\ held.resource = resource
                        /\ held.inherit = b.inherit
             planned(action, old) == [subject |-> e, binding |-> b, action |-> action, old |-> old]
  <2>1. pb = IF rows = {} THEN planned("create", NotHeld)
             ELSE IF matches THEN planned("unchanged", NotHeld)
             ELSE planned("update", OldOf(held))
    BY DEF Binding, OldOf
  <2> HIDE DEF matches, rows, held, pb
  <2>2. CASE rows = {}
    BY <1>5, <2>1, <2>2 DEF Actions
  <2>3. CASE rows # {} /\ matches
    BY <1>5, <2>1, <2>3 DEF Actions
  <2>4. CASE rows # {} /\ ~ matches
    BY <1>4, <1>5, <2>1, <2>4 DEF Actions
  <2> QED
    BY <2>2, <2>3, <2>4
<1>7. pb \in BindingRows(m)
  BY <1>1, <1>6 DEF BindingRows
<1>8. ASSUME NEW h \in before, Pair(h) = PairBy(c, pb) PROVE rows # {} /\ OldOf(held) = OldOf(h)
  <2>1. h.subject = IdOf(c, e.key) /\ h.role = IdOf(c, b.role)
    BY <1>6, <1>8 DEF Pair, PairBy
  <2>2. RoleName(t, h) = Entity(m, b.role).name
    BY <1>1, <1>2, <2>1, RoleOfKey
  <2>3. h.subject # NoId
    BY DEF WellFormed, AssignmentsAreKept, OfKind, WithId, ObjectsAreKept
  <2>4. IsListed(t, listed, h)
    BY <1>2, <2>1, <2>3 DEF RolesKnown
  <2>5. rows = {r \in listed : r.role = RoleName(t, h)}
    BY <2>1, <2>2, <2>3
  <2>6. Row(t, h) \in rows
    BY <2>4, <2>5 DEF IsListed, Row
  <2>7. \A r \in rows : r = Row(t, h)
    BY <2>4, <2>5 DEF IsListed
  <2> HIDE DEF rows
  <2>8. held = Row(t, h)
    BY <2>6, <2>7
  <2> HIDE DEF held
  <2> QED
    BY <2>6, <2>8 DEF OldOf, Row
<1>9. IsKnown(c, pb, before)
  <2> HIDE DEF pb, rows, held
  <2> QED
    BY <1>6, <1>8 DEF IsKnown
<1> QED
  BY <1>2, <1>7, <1>9

(* So every binding of a plan is. *)
LEMMA BindingsAreKnown ==
  ASSUME NEW m \in Manifests, Valid(m), NEW t, WellFormed(t), NEW seen, KindsKnown(t, seen),
         NEW before, before \subseteq t.held, RolesKnown(t, seen, m, before), Unread(seen, m) = <<>>
  PROVE  /\ Bindings(seen, m) \in Seq(BindingRows(m))
         /\ \A i \in 1..Len(Bindings(seen, m)) : IsKnown(Changes(seen, m), Bindings(seen, m)[i], before)
<1>1. PICK c : c = Changes(seen, m)
  OBVIOUS
<1> DEFINE X == {pb \in BindingRows(m) : IsKnown(c, pb, before)}
           of(e) == [i \in DOMAIN e.roles |-> Binding(seen, m, c, e, e.roles[i])]
<1>2. PICK s \in Seq(Range(m.entities)) :
        s = Stating(m) /\ \A e \in Range(s) : e \in Range(m.entities) /\ e.kind \in Subjects
  BY StatingAre
<1>3. ASSUME NEW e \in Range(s) PROVE of(e) \in Seq(X)
  <2>1. e \in Range(m.entities) /\ e.kind \in Subjects
    BY <1>2
  <2>2. KindsRead(seen, m) /\ (IdOf(c, e.key) # NoId => <<"held", e.key>> \in DOMAIN seen)
    BY <1>1, <1>2, AllRead
  <2>3. \A b \in Range(e.roles) : Binding(seen, m, c, e, b) \in X
    BY <1>1, <2>1, <2>2, BindingIsKnown
  <2>4. e.roles \in Seq(RoleSpecs)
    BY <2>1, StatedRoles
  <2> HIDE DEF X
  <2>5. \A i \in DOMAIN e.roles : Binding(seen, m, c, e, e.roles[i]) \in X
    BY <2>3 DEF Range
  <2>6. PICK r : r = of(e)
    OBVIOUS
  <2>7. DOMAIN r = DOMAIN e.roles /\ r = [i \in DOMAIN e.roles |-> r[i]] /\ \A i \in DOMAIN e.roles : r[i] \in X
    BY <2>5, <2>6
  <2> HIDE DEF of
  <2>8. r \in Seq(X)
    BY <2>4, <2>7, ListOf
  <2> QED
    BY <2>6, <2>8
<1>4. PICK ss : ss = [i \in DOMAIN s |-> of(s[i])]
  OBVIOUS
<1>5. Bindings(seen, m) = FlattenSeq(ss)
  BY <1>1, <1>2, <1>4 DEF Bindings
<1> HIDE DEF X, of
<1>6. ss \in Seq(Seq(X))
  <2>1. \A i \in DOMAIN s : ss[i] \in Seq(X)
    BY <1>3, <1>4 DEF Range
  <2> QED
    BY <1>4, <2>1, ListOf
<1>7. FlattenSeq(ss) \in Seq(X)
  BY <1>6, FlattenMembers
<1>8. PICK all \in Seq(X) : all = Bindings(seen, m)
  BY <1>5, <1>7
<1>9. \A i \in 1..Len(all) : all[i] \in X
  BY ElementOfSeq
<1>10. X \subseteq BindingRows(m) /\ \A pb \in X : IsKnown(c, pb, before)
  BY DEF X
<1>11. all \in Seq(BindingRows(m))
  BY <1>10, SeqIsMonotone
<1> QED
  BY <1>1, <1>8, <1>9, <1>10, <1>11

-----------------------------------------------------------------------------
(* The work of a plan.                                                     *)
Dues(part, plan) == {<<part, i>> : i \in {j \in 1..Len(plan) : plan[j].action # "unchanged"}}

(* The items of a list name its actions that are due. *)
LEMMA ItemsAre ==
  ASSUME NEW part, NEW X, NEW plan \in Seq(X), NEW places
  PROVE  Items(part, plan, places) \in Seq(Dues(part, plan))
<1> DEFINE D == 1..Len(plan)
           S == {i \in places : plan[i].action # "unchanged"}
<1>1. DOMAIN plan = D /\ Len(plan) \in Nat
  BY LenProperties
<1>2. PICK id : id = [i \in D |-> i]
  OBVIOUS
<1>3. id \in Seq(D) /\ Len(id) = Len(plan) /\ Range(id) = D
  <2>1. id \in [D -> D]
    BY <1>2
  <2>2. id \in Seq(D)
    BY <1>1, <2>1, SeqDef
  <2> QED
    BY <1>1, <1>2, <2>2, LenProperties DEF Range
<1>4. PICK due \in Seq(D) : due = Kept(id, S) /\ Range(due) = D \cap S
  BY <1>3, KeptType, KeptMembers
<1>5. PICK r : r = [n \in DOMAIN due |-> <<part, due[n]>>]
  OBVIOUS
<1>6. Items(part, plan, places) = r
  BY <1>1, <1>2, <1>4, <1>5 DEF Items
<1>7. \A n \in DOMAIN due : due[n] \in D \cap S
  BY <1>4 DEF Range
<1>8. \A n \in DOMAIN due : r[n] \in Dues(part, plan)
  BY <1>5, <1>7 DEF Dues
<1>9. r \in Seq(Dues(part, plan))
  BY <1>5, <1>8, ListOf
<1> QED
  BY <1>6, <1>9

AllDue(c, b, n) == Dues("entity", c) \cup Dues("binding", b) \cup Dues("network", n)

(* The work of a plan is of what is due in it. *)
LEMMA WorkIsDue ==
  ASSUME NEW X, NEW c \in Seq(X), NEW Y, NEW b \in Seq(Y), NEW Z, NEW n \in Seq(Z)
  PROVE  Work(c, b, n) \in Seq(AllDue(c, b, n))
<1>1. PICK accounts : accounts = {i \in DOMAIN c : c[i].entity.kind = "account"}
  OBVIOUS
<1>2. PICK of : of = {i \in DOMAIN b : b[i].subject.kind = "account"}
  OBVIOUS
<1> DEFINE A == AllDue(c, b, n)
<1>3. /\ Dues("entity", c) \subseteq A /\ Dues("binding", b) \subseteq A /\ Dues("network", n) \subseteq A
  BY DEF AllDue
<1> HIDE DEF A
<1>4. ASSUME NEW places
      PROVE  /\ Items("entity", c, places) \in Seq(A)
             /\ Items("binding", b, places) \in Seq(A)
             /\ Items("network", n, places) \in Seq(A)
  <2>1. Items("entity", c, places) \in Seq(Dues("entity", c))
    BY ItemsAre
  <2>2. Items("binding", b, places) \in Seq(Dues("binding", b))
    BY ItemsAre
  <2>3. Items("network", n, places) \in Seq(Dues("network", n))
    BY ItemsAre
  <2> QED
    BY <1>3, <2>1, <2>2, <2>3, SeqIsMonotone
<1>5. PICK p1 \in Seq(A) : p1 = Items("entity", c, DOMAIN c \ accounts)
  BY <1>4
<1>6. PICK p2 \in Seq(A) : p2 = Items("binding", b, DOMAIN b \ of)
  BY <1>4
<1>7. PICK p3 \in Seq(A) : p3 = Items("entity", c, accounts)
  BY <1>4
<1>8. PICK p4 \in Seq(A) : p4 = Items("binding", b, of)
  BY <1>4
<1>9. PICK p5 \in Seq(A) : p5 = Items("network", n, DOMAIN n)
  BY <1>4
<1>10. Work(c, b, n) = p1 \o p2 \o p3 \o p4 \o p5
  BY <1>1, <1>2, <1>5, <1>6, <1>7, <1>8, <1>9 DEF Work
<1>11. p1 \o p2 \o p3 \o p4 \o p5 \in Seq(A)
  BY ConcatProperties
<1> QED
  BY <1>10, <1>11 DEF A

-----------------------------------------------------------------------------
(* The network of a plan.                                                  *)

(* The segments of a valid manifest are put in the order of their keys. *)
LEMMA OrderedSegments ==
  ASSUME NEW m \in Manifests, Valid(m)
  PROVE  Segments[m] \in Seq(Range(m.segments)) /\ Range(Segments[m]) = Range(m.segments)
<1> DEFINE S == Range(m.segments)
           R == {p \in S \X S : p[1].key < p[2].key}
<1>1. m.segments \in Seq(SegmentSpecs)
  BY ManifestParts
<1>2. IsFiniteSet(S) /\ S \subseteq SegmentSpecs
  BY <1>1, FewMembers
<1>3. ASSUME NEW a \in S, NEW b \in S PROVE <<a, b>> \in R <=> a.key < b.key
  OBVIOUS
<1>4. \A a \in S : a.key \in Nat
  BY <1>2 DEF SegmentSpecs
<1>5. ASSUME NEW a \in S, NEW b \in S, a # b PROVE a.key # b.key
  BY <1>5 DEF Valid, NetworkIsValid, Range
<1>6. StrictlyOrders(R, S)
  <2> HIDE DEF R, S
  <2> QED
    BY <1>3, <1>4, <1>5 DEF StrictlyOrders
<1>7. Segments[m] = InOrder(S, R)
  BY DEF Segments
<1> HIDE DEF S, R
<1>8. InOrder(S, R) \in Seq(S) /\ Range(InOrder(S, R)) = S
  BY <1>2, <1>6, InOrderMembers
<1> QED
  BY <1>7, <1>8 DEF S

(* The profiles of a plan are profiles of the manifest. *)
LEMMA ProfilesAre ==
  ASSUME NEW m \in Manifests, Valid(m)
  PROVE  Profiles(m) \in Seq(Range(m.profiles))
<1>1. PICK S : S = {s \in Range(m.segments) : \E i \in DOMAIN m.profiles : m.profiles[i].segment = s.key}
  OBVIOUS
<1>2. PICK all \in Seq(Range(m.segments)) : all = Segments[m]
  BY OrderedSegments
<1>3. PICK stated \in Seq(Range(m.segments)) : stated = Kept(all, S) /\ Range(stated) = Range(all) \cap S
  BY KeptType, KeptMembers
<1> DEFINE of(s) == m.profiles[CHOOSE j \in DOMAIN m.profiles : m.profiles[j].segment = s.key]
<1>4. ASSUME NEW s \in S PROVE of(s) \in Range(m.profiles)
  BY <1>1 DEF Range
<1>5. PICK r : r = [i \in DOMAIN stated |-> of(stated[i])]
  OBVIOUS
<1>6. Profiles(m) = r
  BY <1>1, <1>2, <1>3, <1>5 DEF Profiles
<1> HIDE DEF of
<1>7. \A i \in DOMAIN stated : r[i] \in Range(m.profiles)
  BY <1>3, <1>4, <1>5 DEF Range
<1>8. r \in Seq(Range(m.profiles))
  BY <1>5, <1>7, ListOf
<1> QED
  BY <1>6, <1>8

PolicyItems(seen, m) == {x \in {PolicyItem(seen, m)} : m.policy # NoPolicy}
SegmentItems(seen, m) == {SegmentItem(seen, s) : s \in Range(m.segments)}
ProfileItems(seen, m) == {ProfileItem(seen, m, p) : p \in Range(m.profiles)}

(* The network of a plan is the cap, each segment and each profile stated. *)
LEMMA NetworkMembers ==
  ASSUME NEW m \in Manifests, Valid(m), NEW seen
  PROVE  /\ Network(seen, m) \in Seq(PolicyItems(seen, m) \cup SegmentItems(seen, m) \cup ProfileItems(seen, m))
         /\ SegmentItems(seen, m) \subseteq Range(Network(seen, m))
<1> DEFINE A == PolicyItems(seen, m) \cup SegmentItems(seen, m) \cup ProfileItems(seen, m)
           a == IF m.policy = NoPolicy THEN <<>> ELSE <<PolicyItem(seen, m)>>
<1>1. PICK segments \in Seq(Range(m.segments)) : segments = Segments[m] /\ Range(segments) = Range(m.segments)
  BY OrderedSegments
<1>2. PICK profiles \in Seq(Range(m.profiles)) : profiles = Profiles(m)
  BY ProfilesAre
<1>3. PICK b : b = [i \in DOMAIN segments |-> SegmentItem(seen, segments[i])]
  OBVIOUS
<1>4. PICK c : c = [i \in DOMAIN profiles |-> ProfileItem(seen, m, profiles[i])]
  OBVIOUS
<1>5. Network(seen, m) = a \o b \o c
  BY <1>1, <1>2, <1>3, <1>4 DEF Network
<1>6. a \in Seq(A)
  <2>1. CASE m.policy = NoPolicy
    BY <2>1, EmptySeq
  <2>2. CASE m.policy # NoPolicy
    <3>1. PICK x \in A : x = PolicyItem(seen, m)
      BY <2>2 DEF PolicyItems
    <3> HIDE DEF A
    <3>2. <<x>> \in Seq(A)
      OBVIOUS
    <3> QED
      BY <2>2, <3>1, <3>2
  <2> QED
    BY <2>1, <2>2
<1>7. SegmentItems(seen, m) \subseteq A /\ ProfileItems(seen, m) \subseteq A
  OBVIOUS
<1> HIDE DEF A, a
<1>8. \A i \in DOMAIN segments : b[i] \in A
  BY <1>1, <1>3, <1>7 DEF SegmentItems, Range
<1>9. \A i \in DOMAIN profiles : c[i] \in A
  <2>1. \A i \in DOMAIN profiles : profiles[i] \in Range(m.profiles)
    BY LenProperties, ElementOfSeq
  <2> QED
    BY <1>4, <1>7, <2>1 DEF ProfileItems
<1>10. b \in Seq(A) /\ DOMAIN b = DOMAIN segments
  BY <1>3, <1>8, ListOf
<1>11. c \in Seq(A)
  BY <1>4, <1>9, ListOf
<1>12. PICK ab \in Seq(A) : ab = a \o b /\ Range(ab) = Range(a) \cup Range(b)
  BY <1>6, <1>10, ConcatProperties, RangeConcatenation
<1>13. PICK abc \in Seq(A) : abc = ab \o c /\ Range(abc) = Range(ab) \cup Range(c)
  BY <1>11, ConcatProperties, RangeConcatenation
<1>14. SegmentItems(seen, m) \subseteq Range(b)
  <2>1. ASSUME NEW s \in Range(m.segments) PROVE SegmentItem(seen, s) \in Range(b)
    <3>1. PICK i \in DOMAIN segments : segments[i] = s
      BY <1>1 DEF Range
    <3>2. i \in DOMAIN b /\ b[i] = SegmentItem(seen, s)
      BY <1>3, <3>1
    <3> QED
      BY <3>2 DEF Range
  <2> QED
    BY <2>1 DEF SegmentItems
<1> QED
  BY <1>5, <1>12, <1>13, <1>14 DEF A

Caps == [max : Nat, version : Nat]

(* What a plan may hold of the network.                                    *)
NetworkItems(m) ==
  [item : {"policy"}, spec : {m.policy}, read : SUBSET Caps, written : {Unwritten}, action : Actions]
    \cup [item : {"segment"}, spec : Range(m.segments), read : SUBSET SegmentRows,
          written : [id : Nat, version : Nat], action : Actions]
    \cup [item : {"profile"}, spec : Range(m.profiles), read : SUBSET ProfileRows,
          written : {Unwritten}, action : Actions]

(* A segment or a profile is known by a row of it that was read: at the      *)
(* version of the read it is as it was read.                               *)
SegmentIsKnown(t, r) == r.id < t.next /\ \A s \in t.segments : s.id = r.id => SegmentFollows(r, s)

ProfileIsKnown(t, r) == \E p \in t.profiles : ProfileFollows(r, p)

NetworkSeen(t, seen) ==
  /\ <<"network", "policy">> \in DOMAIN seen => seen[<<"network", "policy">>] \in Caps
  /\ <<"network", "segments">> \in DOMAIN seen =>
       /\ seen[<<"network", "segments">>] \subseteq SegmentRows
       /\ \A r \in seen[<<"network", "segments">>] : SegmentIsKnown(t, r)
       /\ \A r, q \in seen[<<"network", "segments">>] : r.name = q.name => r = q
  /\ <<"network", "profiles">> \in DOMAIN seen =>
       /\ seen[<<"network", "profiles">>] \subseteq ProfileRows
       /\ \A r \in seen[<<"network", "profiles">>] : ProfileIsKnown(t, r)

(* An item of a plan is known: a segment by its name and, once this apply    *)
(* has written it, by its id.                                              *)
ItemIsKnown(t, n) ==
  /\ n.action = "create" <=> n.read = {}
  /\ n.item = "segment" =>
       /\ \A r \in n.read : r.name = n.spec.name /\ SegmentIsKnown(t, r)
       /\ n.written = Unwritten \/ n.read = {} \/ n.written.id = Old(n).id
  /\ n.item = "profile" => \A r \in n.read : ProfileIsKnown(t, r)

IsSegmentOf(p, s) == s.item = "segment" /\ s.spec.key = p.spec.segment

(* A profile that was read is one of its segment, which was read with it.   *)
ItemsMatch(net) ==
  \A i \in 1..Len(net) : net[i].item = "profile" /\ net[i].read # {} =>
    /\ \E j \in 1..Len(net) : IsSegmentOf(net[i], net[j])
    /\ \A j \in 1..Len(net) : IsSegmentOf(net[i], net[j]) => net[j].read # {} /\ Old(net[j]).id = Old(net[i]).segment

(* What is known of the network of a tenant is known of those that follow it. *)
LEMMA NetworkKnownStill ==
  ASSUME NEW t, WellFormed(t), NEW u, Succeeds(t, u)
  PROVE  /\ \A r \in SegmentRows : SegmentIsKnown(t, r) => SegmentIsKnown(u, r)
         /\ \A r \in ProfileRows : ProfileIsKnown(t, r) => ProfileIsKnown(u, r)
<1>1. /\ t.next \in Nat /\ u.next \in Nat /\ t.next <= u.next
      /\ t.segments \subseteq SegmentRows /\ u.segments \subseteq SegmentRows
      /\ t.profiles \subseteq ProfileRows /\ u.profiles \subseteq ProfileRows
  BY DEF WellFormed, Succeeds, IsTenant, ObjectsFollow
<1>2. ASSUME NEW r \in SegmentRows, SegmentIsKnown(t, r) PROVE SegmentIsKnown(u, r)
  <2>1. r.id \in Nat /\ r.id < t.next /\ r.id < u.next
    BY <1>1, <1>2 DEF SegmentIsKnown, SegmentRows
  <2>2. ASSUME NEW s \in u.segments, s.id = r.id PROVE SegmentFollows(r, s)
    <3>1. PICK x \in t.segments : SegmentFollows(x, s)
      BY <2>1, <2>2 DEF Succeeds, NetworkFollows
    <3>2. SegmentFollows(r, x)
      BY <1>2, <2>2, <3>1 DEF SegmentIsKnown, SegmentFollows
    <3>3. r.version \in Nat /\ x.version \in Nat /\ s.version \in Nat
      BY <1>1 DEF SegmentRows
    <3> QED
      BY <3>1, <3>2, <3>3 DEF SegmentFollows
  <2> QED
    BY <2>1, <2>2 DEF SegmentIsKnown
<1>3. ASSUME NEW r \in ProfileRows, ProfileIsKnown(t, r) PROVE ProfileIsKnown(u, r)
  <2>1. PICK p \in t.profiles : ProfileFollows(r, p)
    BY <1>3 DEF ProfileIsKnown
  <2>2. PICK q \in u.profiles : ProfileFollows(p, q)
    BY DEF Succeeds, NetworkFollows
  <2>3. r.version \in Nat /\ p.version \in Nat /\ q.version \in Nat
    BY <1>1 DEF ProfileRows
  <2>4. ProfileFollows(r, q)
    BY <2>1, <2>2, <2>3 DEF ProfileFollows
  <2> QED
    BY <2>4 DEF ProfileIsKnown
<1> QED
  BY <1>2, <1>3

(* An item as it is planned. *)
IsItem(n, item, spec, rows) ==
  /\ n.item = item /\ n.spec = spec /\ n.read = rows /\ n.written = Unwritten
  /\ n.action \in Actions /\ (n.action = "create" <=> rows = {})
  /\ n = [item |-> n.item, spec |-> n.spec, read |-> n.read, written |-> n.written, action |-> n.action]

LEMMA ItemIsOne ==
  ASSUME NEW item, NEW spec, NEW rows, NEW drifted
  PROVE  IsItem(Item(item, spec, rows, drifted), item, spec, rows)
<1>1. PICK a \in Actions :
        /\ Item(item, spec, rows, drifted) =
             [item |-> item, spec |-> spec, read |-> rows, written |-> Unwritten, action |-> a]
        /\ a = "create" <=> rows = {}
  <2> DEFINE read == CHOOSE r \in rows : TRUE
  <2>1. CASE rows = {}
    BY <2>1 DEF Item, Actions
  <2>2. CASE rows # {} /\ read \in drifted
    BY <2>2 DEF Item, Actions
  <2>3. CASE rows # {} /\ read \notin drifted
    BY <2>3 DEF Item, Actions
  <2> QED
    BY <2>1, <2>2, <2>3
<1> QED
  BY <1>1 DEF IsItem

(* The item of a cap is the one that was read. *)
LEMMA PolicyIsItem ==
  ASSUME NEW m, NEW t, NEW seen, NetworkSeen(t, seen), <<"network", "policy">> \in DOMAIN seen
  PROVE  /\ PolicyItem(seen, m) \in NetworkItems(m) /\ PolicyItem(seen, m).item = "policy"
         /\ ItemIsKnown(t, PolicyItem(seen, m))
<1>1. PICK cap \in Caps : cap = seen[<<"network", "policy">>]
  BY DEF NetworkSeen
<1>2. IsItem(PolicyItem(seen, m), "policy", m.policy, {cap})
  BY <1>1, ItemIsOne DEF PolicyItem
<1>3. PICK n : n = PolicyItem(seen, m)
  OBVIOUS
<1>4. n \in NetworkItems(m)
  BY <1>2, <1>3 DEF IsItem, NetworkItems
<1> QED
  BY <1>2, <1>3, <1>4 DEF IsItem, ItemIsKnown

(* The item of a segment has the row of its name. *)
LEMMA SegmentIsItem ==
  ASSUME NEW m, NEW t, NEW seen, NetworkSeen(t, seen), <<"network", "segments">> \in DOMAIN seen,
         NEW s \in Range(m.segments)
  PROVE  /\ SegmentItem(seen, s) \in NetworkItems(m)
         /\ SegmentItem(seen, s).item = "segment" /\ SegmentItem(seen, s).spec = s
         /\ SegmentItem(seen, s).read = {r \in seen[<<"network", "segments">>] : r.name = s.name}
         /\ ItemIsKnown(t, SegmentItem(seen, s))
<1>1. PICK rows \in SUBSET SegmentRows : rows = {r \in seen[<<"network", "segments">>] : r.name = s.name}
  BY DEF NetworkSeen
<1>2. IsItem(SegmentItem(seen, s), "segment", s, rows)
  BY <1>1, ItemIsOne DEF SegmentItem
<1>3. PICK n : n = SegmentItem(seen, s)
  OBVIOUS
<1>4. Unwritten \in [id : Nat, version : Nat]
  BY DEF Unwritten, NoId
<1>5. n \in NetworkItems(m)
  BY <1>2, <1>3, <1>4 DEF IsItem, NetworkItems
<1>6. \A r \in rows : r.name = s.name /\ SegmentIsKnown(t, r)
  BY <1>1 DEF NetworkSeen
<1> QED
  BY <1>1, <1>2, <1>3, <1>5, <1>6 DEF IsItem, ItemIsKnown

(* The item of a profile has the rows of its segment. *)
LEMMA ProfileIsItem ==
  ASSUME NEW m \in Manifests, Valid(m), NEW t, NEW seen, NetworkSeen(t, seen),
         <<"network", "segments">> \in DOMAIN seen, <<"network", "profiles">> \in DOMAIN seen,
         NEW p \in Range(m.profiles)
  PROVE  /\ ProfileItem(seen, m, p) \in NetworkItems(m)
         /\ ProfileItem(seen, m, p).item = "profile" /\ ProfileItem(seen, m, p).spec = p
         /\ ItemIsKnown(t, ProfileItem(seen, m, p))
         /\ \E s \in Range(m.segments) :
              /\ \A x \in Range(m.segments) : x.key = p.segment <=> x = s
              /\ \A r \in ProfileItem(seen, m, p).read : r.segment \in {x.id : x \in SegmentItem(seen, s).read}
<1>1. PICK s \in Range(m.segments) : s = CHOOSE x \in Range(m.segments) : x.key = p.segment
  BY DEF Valid, NetworkIsValid, Range
<1>2. \A x \in Range(m.segments) : x.key = p.segment <=> x = s
  <2>1. s.key = p.segment
    BY <1>1 DEF Valid, NetworkIsValid, Range
  <2>2. ASSUME NEW x \in Range(m.segments), x.key = p.segment PROVE x = s
    BY <2>1, <2>2 DEF Valid, NetworkIsValid, Range
  <2> QED
    BY <2>1, <2>2
<1>3. PICK ids : ids = {r.id : r \in {x \in seen[<<"network", "segments">>] : x.name = s.name}}
  OBVIOUS
<1>4. PICK rows \in SUBSET ProfileRows : rows = {r \in seen[<<"network", "profiles">>] : r.segment \in ids}
  BY DEF NetworkSeen
<1>5. IsItem(ProfileItem(seen, m, p), "profile", p, rows)
  BY <1>1, <1>3, <1>4, ItemIsOne DEF ProfileItem
<1>6. PICK n : n = ProfileItem(seen, m, p)
  OBVIOUS
<1>7. n \in NetworkItems(m)
  BY <1>5, <1>6 DEF IsItem, NetworkItems
<1>8. \A r \in rows : ProfileIsKnown(t, r)
  BY <1>4 DEF NetworkSeen
<1>9. ItemIsKnown(t, n) /\ n.item = "profile" /\ n.spec = p /\ n.read = rows
  BY <1>5, <1>6, <1>8 DEF IsItem, ItemIsKnown
<1>10. ids = {x.id : x \in SegmentItem(seen, s).read}
  BY <1>3, SegmentIsItem
<1> QED
  BY <1>2, <1>4, <1>6, <1>7, <1>9, <1>10

(* So the network of a plan is known, and matches. *)
LEMMA NetworkIsKnown ==
  ASSUME NEW m \in Manifests, Valid(m), NEW t, NEW seen, NetworkSeen(t, seen), Unread(seen, m) = <<>>
  PROVE  /\ Network(seen, m) \in Seq(NetworkItems(m)) /\ ItemsMatch(Network(seen, m))
         /\ \A i \in 1..Len(Network(seen, m)) : ItemIsKnown(t, Network(seen, m)[i])
<1>1. /\ m.policy # NoPolicy => <<"network", "policy">> \in DOMAIN seen
      /\ m.segments # <<>> => <<"network", "segments">> \in DOMAIN seen
      /\ m.profiles # <<>> => <<"network", "profiles">> \in DOMAIN seen
  BY AllRead
<1>2. Range(<<>>) = {}
  BY EmptySeq DEF Range
<1>3. ASSUME NEW s \in Range(m.segments) PROVE <<"network", "segments">> \in DOMAIN seen
  BY <1>1, <1>2
<1>4. ASSUME NEW p \in Range(m.profiles)
      PROVE  <<"network", "segments">> \in DOMAIN seen /\ <<"network", "profiles">> \in DOMAIN seen
  <2>1. Range(m.segments) # {}
    BY DEF Valid, NetworkIsValid, Range
  <2> QED
    BY <1>1, <1>2, <2>1
<1> DEFINE P == PolicyItems(seen, m)
           S == SegmentItems(seen, m)
           Q == ProfileItems(seen, m)
           A == P \cup S \cup Q
<1>5. ASSUME NEW n \in P PROVE n \in NetworkItems(m) /\ n.item = "policy" /\ ItemIsKnown(t, n)
  BY <1>1, PolicyIsItem DEF PolicyItems
<1>6. ASSUME NEW n \in S PROVE n \in NetworkItems(m) /\ n.item = "segment" /\ ItemIsKnown(t, n)
  BY <1>3, SegmentIsItem DEF SegmentItems
<1>7. ASSUME NEW n \in Q PROVE n \in NetworkItems(m) /\ n.item = "profile" /\ ItemIsKnown(t, n)
  BY <1>4, ProfileIsItem DEF ProfileItems
<1>8. PICK net \in Seq(A) : net = Network(seen, m) /\ S \subseteq Range(net)
  BY NetworkMembers
<1>9. ASSUME NEW n \in Q, n.read # {}
      PROVE  /\ \E s \in S : IsSegmentOf(n, s)
             /\ \A s \in S : IsSegmentOf(n, s) => s.read # {} /\ Old(s).id = Old(n).segment
  <2>1. PICK p \in Range(m.profiles) : n = ProfileItem(seen, m, p)
    BY DEF ProfileItems
  <2>2. PICK s \in Range(m.segments) :
          /\ n.spec = p
          /\ \A x \in Range(m.segments) : x.key = p.segment <=> x = s
          /\ \A r \in n.read : r.segment \in {x.id : x \in SegmentItem(seen, s).read}
    BY <1>4, <2>1, ProfileIsItem
  <2>3. ASSUME NEW x \in Range(m.segments)
        PROVE  SegmentItem(seen, x).item = "segment" /\ SegmentItem(seen, x).spec = x
    BY <1>3, SegmentIsItem
  <2>4. ASSUME NEW x \in Range(m.segments) PROVE IsSegmentOf(n, SegmentItem(seen, x)) <=> x = s
    BY <2>2, <2>3 DEF IsSegmentOf
  <2>5. PICK read : read = SegmentItem(seen, s).read
    OBVIOUS
  <2>6. \A a, b \in read : a = b
    <3>1. <<"network", "segments">> \in DOMAIN seen
      BY <1>3
    <3>2. read = {r \in seen[<<"network", "segments">>] : r.name = s.name}
      BY <2>5, <3>1, SegmentIsItem
    <3> QED
      BY <3>1, <3>2 DEF NetworkSeen
  <2>7. Old(n) \in n.read
    BY <1>9 DEF Old
  <2>8. PICK x \in read : x.id = Old(n).segment
    BY <2>2, <2>5, <2>7
  <2>9. Old(SegmentItem(seen, s)) = x
    BY <2>5, <2>6, <2>8 DEF Old
  <2> QED
    BY <2>4, <2>5, <2>8, <2>9 DEF SegmentItems
<1> HIDE DEF P, S, Q
<1>10. A \subseteq NetworkItems(m) /\ \A n \in A : ItemIsKnown(t, n)
  BY <1>5, <1>6, <1>7
<1>11. \A n \in A : (n.item = "segment" => n \in S) /\ (n.item = "profile" => n \in Q)
  BY <1>5, <1>6, <1>7
<1> HIDE DEF A
<1>12. net \in Seq(NetworkItems(m)) /\ \A i \in 1..Len(net) : net[i] \in A
  BY <1>10, SeqIsMonotone, ElementOfSeq
<1>13. DOMAIN net = 1..Len(net)
  BY LenProperties
<1>14. ItemsMatch(net)
  <2>1. ASSUME NEW i \in 1..Len(net), net[i].item = "profile" /\ net[i].read # {}
        PROVE  \E j \in 1..Len(net) : IsSegmentOf(net[i], net[j])
    <3>1. PICK s \in S : IsSegmentOf(net[i], s)
      BY <1>9, <1>11, <1>12, <2>1
    <3> QED
      BY <1>8, <1>13, <3>1 DEF Range
  <2>2. ASSUME NEW i \in 1..Len(net), net[i].item = "profile" /\ net[i].read # {},
               NEW j \in 1..Len(net), IsSegmentOf(net[i], net[j])
        PROVE  net[j].read # {} /\ Old(net[j]).id = Old(net[i]).segment
    <3>1. net[j] \in S
      BY <1>11, <1>12, <2>2 DEF IsSegmentOf
    <3> QED
      BY <1>9, <1>11, <1>12, <2>2, <3>1
  <2> QED
    BY <2>1, <2>2 DEF ItemsMatch
<1> QED
  BY <1>8, <1>10, <1>12, <1>14

-----------------------------------------------------------------------------
(* What has been read.                                                     *)

(* Segments and profiles are read as they are, but for the timeout. *)
LEMMA NetworkIsSeen ==
  ASSUME NEW t, WellFormed(t)
  PROVE  /\ t.cap \in Caps
         /\ t.segments \subseteq SegmentRows /\ \A r \in t.segments : SegmentIsKnown(t, r)
         /\ \A r, q \in t.segments : r.name = q.name => r = q
         /\ Effective(t) \subseteq ProfileRows /\ \A r \in Effective(t) : ProfileIsKnown(t, r)
<1>1. /\ t.cap \in Caps /\ t.cap.max \in Nat
      /\ t.segments \subseteq SegmentRows /\ t.profiles \subseteq ProfileRows
  BY DEF WellFormed, IsTenant, Caps
<1>2. ASSUME NEW r \in t.segments PROVE SegmentIsKnown(t, r)
  <2>1. r.id < t.next /\ \A s \in t.segments : s.id = r.id => s = r
    BY DEF WellFormed, NetworkIsKept
  <2>2. SegmentFollows(r, r)
    BY <1>1 DEF SegmentFollows, SegmentRows
  <2> QED
    BY <2>1, <2>2 DEF SegmentIsKnown
<1>3. ASSUME NEW r \in Effective(t) PROVE r \in ProfileRows /\ ProfileIsKnown(t, r)
  <2>1. PICK p \in t.profiles :
          r = [p EXCEPT !.timeout = IF p.timeout < t.cap.max THEN p.timeout ELSE t.cap.max]
    BY DEF Effective
  <2>2. p \in ProfileRows /\ p.timeout \in Nat /\ p.version \in Nat
    BY <1>1 DEF ProfileRows
  <2>3. PICK n \in Nat : r = [p EXCEPT !.timeout = n]
    BY <1>1, <2>1, <2>2
  <2>4. r \in ProfileRows /\ r.segment = p.segment /\ r.version = p.version /\ r.idle = p.idle
    BY <2>2, <2>3 DEF ProfileRows
  <2> QED
    BY <2>2, <2>4 DEF ProfileIsKnown, ProfileFollows
<1> QED
  BY <1>1, <1>2, <1>3 DEF WellFormed, NetworkIsKept

(* One read more. *)
Having(seen, read, value) == [r \in DOMAIN seen \cup {read} |-> IF r = read THEN value ELSE seen[r]]

LEMMA ReadIsKnown ==
  ASSUME NEW m \in Manifests, Valid(m), NEW t, WellFormed(t), NEW seen, NEW before, before \subseteq t.held,
         KindsKnown(t, seen), RolesKnown(t, seen, m, before), NetworkSeen(t, seen),
         NEW read, read \notin DOMAIN seen, IsNext(seen, m, read), NEW more,
         more = Having(seen, read, Observed(t, seen, m, read))
  PROVE  KindsKnown(t, more) /\ RolesKnown(t, more, m, before) /\ NetworkSeen(t, more)
<1> DEFINE new == Observed(t, seen, m, read)
<1>1. /\ DOMAIN more = DOMAIN seen \cup {read} /\ more[read] = new
      /\ \A r \in DOMAIN seen : r # read => more[r] = seen[r]
  BY DEF Having
<1>2. ASSUME NEW k, read = <<"kind", k>>, NEW o \in new PROVE Knows(t, o.id, k, o.name)
  <2>1. new = Page(t, k)
    BY <1>2 DEF Observed
  <2> HIDE DEF new
  <2> QED
    BY <1>2, <2>1, PageIsKnown
<1>3. ASSUME NEW k, read = <<"held", k>>
      PROVE  new = HeldBy(t, IdOf(Changes(seen, m), k)) /\ KindsRead(seen, m)
  <2>1. KindsRead(seen, m)
    BY <1>3 DEF IsNext, NetworkParts
  <2> QED
    BY <1>3, <2>1 DEF Observed
<1>4. /\ read = <<"network", "policy">> => new = t.cap
      /\ read = <<"network", "segments">> => new = t.segments
      /\ read = <<"network", "profiles">> => new = Effective(t)
  BY DEF Observed
<1> HIDE DEF new
<1>5. KindsKnown(t, more)
  BY <1>1, <1>2 DEF KindsKnown
<1>6. ASSUME KindsRead(seen, m) PROVE KindsRead(more, m) /\ Changes(more, m) = Changes(seen, m)
  <2>1. KindsRead(more, m)
    BY <1>1, <1>6 DEF KindsRead
  <2>2. \A r \in DOMAIN seen : more[r] = seen[r]
    BY <1>1
  <2> QED
    BY <1>6, <2>1, <2>2, ChangesStand
<1>7. RolesKnown(t, more, m, before)
  <2>1. ASSUME NEW k, <<"held", k>> \in DOMAIN more
        PROVE  /\ KindsRead(seen, m)
               /\ more[<<"held", k>>] \subseteq HeldRows
               /\ \A h \in before : h.subject = IdOf(Changes(seen, m), k) => IsListed(t, more[<<"held", k>>], h)
    <3>1. CASE read = <<"held", k>>
      BY <1>1, <1>3, <3>1, HeldIsListed
    <3>2. CASE read # <<"held", k>>
      BY <1>1, <2>1, <3>2 DEF RolesKnown
    <3> QED
      BY <3>1, <3>2
  <2> QED
    BY <1>6, <2>1 DEF RolesKnown
<1>8. NetworkSeen(t, more)
  BY <1>1, <1>4, NetworkIsSeen DEF NetworkSeen
<1> QED
  BY <1>5, <1>7, <1>8

-----------------------------------------------------------------------------
(* The invariant: what is known while a plan is made and carried out.        *)
ChangesKnown(t, m, c) ==
  /\ c \in Seq(ChangeRows(m))
  /\ \A i \in 1..Len(c) : c[i].action # "create" => Knows(t, c[i].id, c[i].entity.kind, c[i].entity.name)

BindingsKnown(m, c, b, before) ==
  b \in Seq(BindingRows(m)) /\ \A i \in 1..Len(b) : IsKnown(c, b[i], before)

NetworkKnown(t, m, n) ==
  n \in Seq(NetworkItems(m)) /\ ItemsMatch(n) /\ \A i \in 1..Len(n) : ItemIsKnown(t, n[i])

Midway == {"rebinding", "restoring"}
Working == {"applying"} \cup Midway

(* A job is one of its phases. The report is empty while one is under way.  *)
Phased(j, r) ==
  /\ j.at \in {"idle", "planning"} \cup Working
  /\ j.at = "idle" => j = Idle
  /\ j.at # "idle" => /\ j.manifest \in Manifests /\ Valid(j.manifest)
                      /\ r.outcome = "none" /\ r.failed = <<>> /\ r.restore = "none"
  /\ j.at = "planning" => j.changes = <<>>

Planning(t, j, before) ==
  j.at = "planning" =>
    /\ before \subseteq t.held
    /\ KindsKnown(t, j.seen) /\ RolesKnown(t, j.seen, j.manifest, before) /\ NetworkSeen(t, j.seen)

Planned(t, j, before) ==
  j.at \in Working =>
    /\ ChangesKnown(t, j.manifest, j.changes)
    /\ BindingsKnown(j.manifest, j.changes, j.bindings, before)
    /\ NetworkKnown(t, j.manifest, j.network)
    /\ j.work \in Seq(AllDue(j.changes, j.bindings, j.network))
    /\ j.next \in 1..(Len(j.work) + 1)

(* Between the halves of a rebind the work at hand is a binding to update.  *)
BindingAt(j) == j.bindings[j.work[j.next][2]]

Rebinding(j) ==
  j.at \in Midway => /\ j.next <= Len(j.work) /\ j.work[j.next][1] = "binding"
                     /\ BindingAt(j).action = "update"

(* A binding that stood is held with the scope it had, *)
Stood(t, before) ==
  /\ before \subseteq Assignments
  /\ \A h \in before : /\ h.subject < t.next /\ h.role < t.next
                       /\ \A b \in t.held : Pair(b) = Pair(h) => b.scope = h.scope

(* and is held, unless it is the one that is being moved or the report names *)
(* it.                                                                     *)
IsHeld(t, h) == \E b \in t.held : Pair(b) = Pair(h)

Moved(t, j, r, before) ==
  \A h \in before :
    \/ IsHeld(t, h)
    \/ r.failed = <<"binding", Pair(h)>>
    \/ j.at \in Midway /\ Pair(h) = PairBy(j.changes, BindingAt(j))

Restored(t, r, before) ==
  \A h \in before : r.restore = "succeeded" /\ r.failed = <<"binding", Pair(h)>> => h \in t.held

Reported(r) ==
  /\ r.outcome \in {"none", "refused", "failed", "applied"}
  /\ r.outcome = "failed" <=> r.failed # <<>>
  /\ r.restore # "none" => r.failed # <<>> /\ r.failed[1] = "binding"

(* The accounts that have been created by a plan's changes.                 *)
AccountsMade(c) ==
  {x.entity.key : x \in {y \in Range(c) : y.entity.kind = "account" /\ y.action = "create" /\ y.id # NoId}}

IsJob(j) ==
  j = [at |-> j.at, manifest |-> j.manifest, seen |-> j.seen, changes |-> j.changes, bindings |-> j.bindings,
       network |-> j.network, work |-> j.work, next |-> j.next]

IsReport(r) == r = [outcome |-> r.outcome, failed |-> r.failed, restore |-> r.restore, secrets |-> r.secrets]

Consistent(t, j, r, before) ==
  /\ WellFormed(t)
  /\ IsJob(j) /\ IsReport(r) /\ Reported(r) /\ Phased(j, r)
  /\ Planning(t, j, before) /\ Planned(t, j, before) /\ Rebinding(j)
  /\ Stood(t, before) /\ Moved(t, j, r, before) /\ Restored(t, r, before)
  /\ AccountsMade(j.changes) \subseteq r.secrets

ManifestInv == Consistent(tenant, job, report, heldBefore)

-----------------------------------------------------------------------------
(* What is known of a tenant while it changes.                              *)

LEMMA ReadStill ==
  ASSUME NEW t, WellFormed(t), NEW u, Succeeds(t, u), NEW seen
  PROVE  /\ KindsKnown(t, seen) => KindsKnown(u, seen)
         /\ NetworkSeen(t, seen) => NetworkSeen(u, seen)
<1>1. ASSUME KindsKnown(t, seen) PROVE KindsKnown(u, seen)
  BY <1>1, KnowsStill DEF KindsKnown
<1>2. ASSUME NetworkSeen(t, seen) PROVE NetworkSeen(u, seen)
  BY <1>2, NetworkKnownStill DEF NetworkSeen
<1> QED
  BY <1>1, <1>2

(* What is known of the items. *)
LEMMA ItemsStill ==
  ASSUME NEW t, WellFormed(t), NEW u, Succeeds(t, u), NEW m, NEW n, NetworkKnown(t, m, n)
  PROVE  NetworkKnown(u, m, n)
<1>1. ASSUME NEW i \in 1..Len(n) PROVE ItemIsKnown(u, n[i])
  <2>1. n[i] \in NetworkItems(m) /\ ItemIsKnown(t, n[i])
    BY ElementOfSeq DEF NetworkKnown
  <2>2. n[i].item = "segment" => \A r \in n[i].read : r \in SegmentRows
    BY <2>1 DEF NetworkItems
  <2>3. n[i].item = "profile" => \A r \in n[i].read : r \in ProfileRows
    BY <2>1 DEF NetworkItems
  <2> QED
    BY <2>1, <2>2, <2>3, NetworkKnownStill DEF ItemIsKnown
<1> QED
  BY <1>1 DEF NetworkKnown

(* What is known of the changes. *)
LEMMA ChangesStill ==
  ASSUME NEW t, WellFormed(t), NEW u, Succeeds(t, u), NEW m, NEW c, ChangesKnown(t, m, c)
  PROVE  ChangesKnown(u, m, c)
BY KnowsStill DEF ChangesKnown

(* What is known of the bindings. *)
LEMMA BindingsStill ==
  ASSUME NEW m, NEW c, NEW b, NEW before, NEW left, left \subseteq before, BindingsKnown(m, c, b, before)
  PROVE  BindingsKnown(m, c, b, left)
BY DEF BindingsKnown, IsKnown

(* What a job knows, it knows of the tenants that follow. *)
LEMMA PlannedStill ==
  ASSUME NEW t, WellFormed(t), NEW u, Succeeds(t, u), NEW j, NEW before, NEW left, left \subseteq before,
         Planned(t, j, before)
  PROVE  Planned(u, j, left)
BY ChangesStill, BindingsStill, ItemsStill DEF Planned

(* What a plan in the making knows, likewise. *)
LEMMA PlanningStill ==
  ASSUME NEW t, WellFormed(t), NEW u, Succeeds(t, u), NEW j, NEW before, NEW left, left \subseteq before,
         left \subseteq u.held, Planning(t, j, before)
  PROVE  Planning(u, j, left)
BY ReadStill, RolesKnownStill DEF Planning

(* A failed request ends the apply: the report names it. *)
Failed(r, failed, restore) == [r EXCEPT !.outcome = "failed", !.failed = failed, !.restore = restore]

Excused(t, failed, restore, before) ==
  \A h \in before : /\ IsHeld(t, h) \/ failed = <<"binding", Pair(h)>>
                    /\ restore = "succeeded" /\ failed = <<"binding", Pair(h)>> => h \in t.held

LEMMA StopIsConsistent ==
  ASSUME NEW t, NEW j, NEW r, NEW before, Consistent(t, j, r, before), j.at # "idle",
         NEW u, WellFormed(u), NEW failed, NEW restore, failed # <<>>, restore # "none" => failed[1] = "binding",
         NEW s, s = Failed(r, failed, restore), Stood(u, before), Excused(u, failed, restore, before)
  PROVE  Consistent(u, Idle, s, before)
<1>1. /\ s.outcome = "failed" /\ s.failed = failed /\ s.restore = restore /\ s.secrets = r.secrets
      /\ IsReport(s)
  <2>1. IsReport(r)
    BY DEF Consistent
  <2> QED
    BY <2>1 DEF IsReport, Failed
<1>2. /\ Idle.at = "idle" /\ Idle.changes = <<>> /\ IsJob(Idle)
  BY DEF Idle, IsJob
<1>3. Reported(s)
  BY <1>1 DEF Reported
<1>4. AccountsMade(<<>>) = {}
  BY EmptySeq DEF AccountsMade, Range
<1>5. Phased(Idle, s) /\ Planning(u, Idle, before) /\ Planned(u, Idle, before) /\ Rebinding(Idle)
  BY <1>2 DEF Phased, Planning, Planned, Rebinding, Working, Midway
<1>6. Moved(u, Idle, s, before) /\ Restored(u, s, before)
  BY <1>1 DEF Moved, Restored, Excused
<1> QED
  BY <1>1, <1>2, <1>3, <1>4, <1>5, <1>6 DEF Consistent

-----------------------------------------------------------------------------
(* An idle job is consistent with a report of its tenant. *)
LEMMA IdleIsConsistent ==
  ASSUME NEW t, WellFormed(t), NEW r, IsReport(r), Reported(r), NEW before,
         Stood(t, before), Moved(t, Idle, r, before), Restored(t, r, before)
  PROVE  Consistent(t, Idle, r, before)
<1>1. /\ Idle.at = "idle" /\ Idle.changes = <<>> /\ IsJob(Idle)
  BY DEF Idle, IsJob
<1>2. AccountsMade(<<>>) = {}
  BY EmptySeq DEF AccountsMade, Range
<1>3. Phased(Idle, r) /\ Planning(t, Idle, before) /\ Planned(t, Idle, before) /\ Rebinding(Idle)
  BY <1>1 DEF Phased, Planning, Planned, Rebinding, Working, Midway
<1> QED
  BY <1>1, <1>2, <1>3 DEF Consistent

(* What is held at the start stands. *)
LEMMA AllStood ==
  ASSUME NEW t, WellFormed(t)
  PROVE  Stood(t, t.held) /\ \A h \in t.held : IsHeld(t, h)
<1>1. t.held \subseteq Assignments
  BY DEF WellFormed, IsTenant
<1>2. ASSUME NEW h \in t.held PROVE h.subject < t.next /\ h.role < t.next
  BY DEF WellFormed, AssignmentsAreKept, ObjectsAreKept, OfKind, WithId
<1>3. ASSUME NEW h \in t.held, NEW b \in t.held, Pair(b) = Pair(h) PROVE b.scope = h.scope
  BY <1>3 DEF WellFormed, AssignmentsAreKept
<1> QED
  BY <1>1, <1>2, <1>3 DEF Stood, IsHeld

(* Nothing has happened at the start. *)
LEMMA InitIsConsistent == Init => ManifestInv
<1> SUFFICES ASSUME Init PROVE ManifestInv
  OBVIOUS
<1>1. WellFormed(tenant) /\ job = Idle /\ report = Unreported /\ heldBefore = {}
  BY ManifestAssumption DEF Init
<1>2. IsReport(Unreported) /\ Reported(Unreported)
  BY DEF Unreported, IsReport, Reported
<1>3. Stood(tenant, {}) /\ Moved(tenant, Idle, Unreported, {}) /\ Restored(tenant, Unreported, {})
  BY DEF Stood, Moved, Restored
<1> QED
  BY <1>1, <1>2, <1>3, IdleIsConsistent DEF ManifestInv

(* A run that begins, or is refused. *)
LEMMA BeginIsConsistent ==
  ASSUME NEW m \in Manifests, ManifestInv, Begin(m)
  PROVE  ManifestInv'
<1>1. PICK t : t = tenant /\ t = tenant' /\ WellFormed(t) /\ heldBefore' = t.held
  BY DEF ManifestInv, Consistent, Begin
<1>2. Stood(t, t.held) /\ \A h \in t.held : IsHeld(t, h)
  BY <1>1, AllStood
<1>3. CASE Valid(m)
  <2>1. PICK j : j = [Idle EXCEPT !.at = "planning", !.manifest = m] /\ job' = j
    BY <1>3 DEF Begin
  <2>2. PICK r : r = Unreported /\ report' = r
    BY <1>3 DEF Begin, Cleared
  <2>3. /\ j.at = "planning" /\ j.manifest = m /\ j.seen = <<>> /\ j.changes = <<>> /\ IsJob(j)
    BY <2>1 DEF Idle, IsJob
  <2>4. /\ r.outcome = "none" /\ r.failed = <<>> /\ r.restore = "none" /\ IsReport(r) /\ Reported(r)
    BY <2>2 DEF Unreported, IsReport, Reported
  <2>5. Phased(j, r)
    BY <1>3, <2>3, <2>4 DEF Phased
  <2>6. DOMAIN <<>> = {}
    BY EmptySeq
  <2>7. Planning(t, j, t.held)
    BY <2>3, <2>6 DEF Planning, KindsKnown, RolesKnown, NetworkSeen
  <2>8. Planned(t, j, t.held) /\ Rebinding(j)
    BY <2>3 DEF Planned, Rebinding, Working, Midway
  <2>9. Moved(t, j, r, t.held) /\ Restored(t, r, t.held)
    BY <1>2, <2>4 DEF Moved, Restored
  <2>10. AccountsMade(<<>>) = {}
    BY EmptySeq DEF AccountsMade, Range
  <2>11. Consistent(t, j, r, t.held)
    BY <1>1, <1>2, <2>3, <2>4, <2>5, <2>7, <2>8, <2>9, <2>10 DEF Consistent
  <2> QED
    BY <1>1, <2>1, <2>2, <2>11 DEF ManifestInv
<1>4. CASE ~ Valid(m)
  <2>1. PICK r : r = [Unreported EXCEPT !.outcome = "refused"] /\ report' = r /\ job' = Idle
    BY <1>4 DEF Begin, Cleared
  <2>2. /\ r.outcome = "refused" /\ r.failed = <<>> /\ r.restore = "none" /\ IsReport(r) /\ Reported(r)
    BY <2>1 DEF Unreported, IsReport, Reported
  <2>3. Moved(t, Idle, r, t.held) /\ Restored(t, r, t.held)
    BY <1>2, <2>2 DEF Moved, Restored
  <2>4. Consistent(t, Idle, r, t.held)
    BY <1>1, <1>2, <2>2, <2>3, IdleIsConsistent
  <2> QED
    BY <1>1, <2>1, <2>4 DEF ManifestInv
<1> QED
  BY <1>3, <1>4

(* A plan's job, with what it has read. *)
LEMMA ReadIsConsistent ==
  ASSUME ManifestInv, Read
  PROVE  ManifestInv'
<1>1. PICK t, j, r, before : /\ t = tenant /\ j = job /\ r = report /\ before = heldBefore
                             /\ Consistent(t, j, r, before)
  BY DEF ManifestInv
<1>2. PICK m : m = j.manifest
  OBVIOUS
<1>3. j.at = "planning" /\ m \in Manifests /\ Valid(m) /\ Unread(j.seen, m) # <<>>
  BY <1>1, <1>2 DEF Read, Consistent, Phased
<1>4. PICK read : read = Head(Unread(j.seen, m))
  OBVIOUS
<1>5. PICK more :
        more = Having(j.seen, read, Observed(t, j.seen, m, read))
  OBVIOUS
<1>6. PICK k : k = [j EXCEPT !.seen = more]
  OBVIOUS
<1>7. tenant' = t /\ job' = k /\ report' = r /\ heldBefore' = before
  BY <1>1, <1>2, <1>4, <1>5, <1>6 DEF Read, Having
<1>8. read \notin DOMAIN j.seen /\ IsNext(j.seen, m, read)
  BY <1>3, <1>4, NextRead
<1>9. /\ WellFormed(t) /\ before \subseteq t.held
      /\ KindsKnown(t, j.seen) /\ RolesKnown(t, j.seen, m, before) /\ NetworkSeen(t, j.seen)
  BY <1>1, <1>2, <1>3 DEF Consistent, Planning
<1>10. KindsKnown(t, more) /\ RolesKnown(t, more, m, before) /\ NetworkSeen(t, more)
  BY <1>3, <1>5, <1>8, <1>9, ReadIsKnown
<1>11. k.at = "planning" /\ k.manifest = m /\ k.seen = more /\ k.changes = j.changes /\ IsJob(k)
  <2>1. IsJob(j)
    BY <1>1 DEF Consistent
  <2> QED
    BY <1>2, <1>3, <1>6, <2>1 DEF IsJob
<1>12. Phased(k, r)
  BY <1>1, <1>2, <1>3, <1>11 DEF Consistent, Phased
<1>13. Planning(t, k, before)
  BY <1>9, <1>10, <1>11 DEF Planning
<1>14. Planned(t, k, before) /\ Rebinding(k)
  BY <1>11 DEF Planned, Rebinding, Working, Midway
<1>15. Moved(t, k, r, before)
  BY <1>1, <1>3, <1>11 DEF Consistent, Moved, Midway
<1>16. Consistent(t, k, r, before)
  BY <1>1, <1>11, <1>12, <1>13, <1>14, <1>15 DEF Consistent
<1> QED
  BY <1>7, <1>16 DEF ManifestInv

(* Before anything is done, what stood is held as it was. *)
LEMMA StopBeforeWork ==
  ASSUME ManifestInv, job.at = "planning", UNCHANGED <<tenant, heldBefore>>,
         NEW failed, failed # <<>>, Stop(failed, "none")
  PROVE  ManifestInv'
<1>1. PICK t, j, r, before : /\ t = tenant /\ j = job /\ r = report /\ before = heldBefore
                             /\ Consistent(t, j, r, before)
  BY DEF ManifestInv
<1>2. PICK s : s = Failed(r, failed, "none")
  OBVIOUS
<1>3. tenant' = t /\ job' = Idle /\ report' = s /\ heldBefore' = before
  BY <1>1, <1>2 DEF Stop, Failed
<1>4. j.at = "planning" /\ WellFormed(t) /\ Stood(t, before) /\ Excused(t, failed, "none", before)
  BY <1>1 DEF Consistent, Planning, IsHeld, Excused
<1>5. Consistent(t, Idle, s, before)
  BY <1>1, <1>2, <1>4, StopIsConsistent
<1> QED
  BY <1>3, <1>5 DEF ManifestInv

(* A read that fails leaves no plan. *)
LEMMA ReadFailsIsConsistent ==
  ASSUME ManifestInv, ReadFails
  PROVE  ManifestInv'
<1>1. <<"read">> # <<>> /\ job.at = "planning" /\ UNCHANGED <<tenant, heldBefore>> /\ Stop(<<"read">>, "none")
  BY DEF ReadFails
<1> QED
  BY <1>1, StopBeforeWork

(* The plan is made, and none of it is done. *)
LEMMA DecideIsConsistent ==
  ASSUME ManifestInv, Decide
  PROVE  ManifestInv'
<1>1. PICK t, j, r, before : /\ t = tenant /\ j = job /\ r = report /\ before = heldBefore
                             /\ Consistent(t, j, r, before)
  BY DEF ManifestInv
<1>2. PICK m : m = j.manifest
  OBVIOUS
<1>3. j.at = "planning" /\ m \in Manifests /\ Valid(m) /\ Unread(j.seen, m) = <<>>
  BY <1>1, <1>2 DEF Decide, Consistent, Phased
<1>4. /\ WellFormed(t) /\ before \subseteq t.held
      /\ KindsKnown(t, j.seen) /\ RolesKnown(t, j.seen, m, before) /\ NetworkSeen(t, j.seen)
  BY <1>1, <1>2, <1>3 DEF Consistent, Planning
<1>5. CASE Ambiguous(j.seen, m)
  <2>1. /\ <<"ambiguous">> # <<>> /\ job.at = "planning" /\ UNCHANGED <<tenant, heldBefore>>
        /\ Stop(<<"ambiguous">>, "none")
    BY <1>1, <1>2, <1>5 DEF Decide
  <2> QED
    BY <2>1, StopBeforeWork
<1>6. CASE ~ Ambiguous(j.seen, m)
  <2>1. PICK c : c = Changes(j.seen, m)
    OBVIOUS
  <2>2. PICK b : b = Bindings(j.seen, m)
    OBVIOUS
  <2>3. PICK n : n = Network(j.seen, m)
    OBVIOUS
  <2>4. PICK w : w = Work(c, b, n)
    OBVIOUS
  <2>5. PICK k : k = [j EXCEPT !.at = "applying", !.changes = c, !.bindings = b, !.network = n, !.work = w, !.next = 1]
    OBVIOUS
  <2>6. tenant' = t /\ job' = k /\ report' = r /\ heldBefore' = before
    BY <1>1, <1>2, <1>6, <2>1, <2>2, <2>3, <2>4, <2>5 DEF Decide
  <2>7. KindsRead(j.seen, m)
    BY <1>3, AllRead
  <2>8. c \in Seq(ChangeRows(m)) /\ \A i \in 1..Len(c) : IsPlanned(t, c[i])
    BY <1>3, <1>4, <2>1, <2>7, ChangesArePlanned
  <2>9. b \in Seq(BindingRows(m)) /\ \A i \in 1..Len(b) : IsKnown(c, b[i], before)
    BY <1>3, <1>4, <2>1, <2>2, BindingsAreKnown
  <2>10. n \in Seq(NetworkItems(m)) /\ NetworkKnown(t, m, n)
    BY <1>3, <1>4, <2>3, NetworkIsKnown DEF NetworkKnown
  <2>11. w \in Seq(AllDue(c, b, n)) /\ Len(w) \in Nat
    BY <2>4, <2>8, <2>9, <2>10, WorkIsDue, LenProperties
  <2>12. /\ k.at = "applying" /\ k.manifest = m /\ k.changes = c /\ k.bindings = b /\ k.network = n
         /\ k.work = w /\ k.next = 1 /\ IsJob(k)
    <3>1. IsJob(j)
      BY <1>1 DEF Consistent
    <3> QED
      BY <1>2, <2>5, <3>1 DEF IsJob
  <2>13. Phased(k, r)
    BY <1>1, <1>2, <1>3, <2>12 DEF Consistent, Phased, Working
  <2>14. Planned(t, k, before)
    <3>1. ChangesKnown(t, m, c)
      BY <2>8 DEF ChangesKnown, IsPlanned
    <3>2. BindingsKnown(m, c, b, before)
      BY <2>9 DEF BindingsKnown
    <3>3. k.next \in 1..(Len(k.work) + 1)
      BY <2>11, <2>12
    <3> QED
      BY <2>10, <2>11, <2>12, <3>1, <3>2, <3>3 DEF Planned
  <2>15. Planning(t, k, before) /\ Rebinding(k)
    BY <2>12 DEF Planning, Rebinding, Midway
  <2>16. Moved(t, k, r, before)
    BY <1>4 DEF Moved, IsHeld
  <2>17. AccountsMade(c) = {}
    <3>1. \A y \in Range(c) : y.action = "create" => y.id = NoId
      <4>1. DOMAIN c = 1..Len(c)
        BY <2>8, LenProperties
      <4> QED
        BY <2>8, <4>1 DEF Range, IsPlanned
    <3> QED
      BY <3>1 DEF AccountsMade
  <2>18. Consistent(t, k, r, before)
    BY <1>1, <2>12, <2>13, <2>14, <2>15, <2>16, <2>17 DEF Consistent
  <2> QED
    BY <2>6, <2>18 DEF ManifestInv
<1> QED
  BY <1>5, <1>6

(* An apply that has come to its end. *)
LEMMA FinishIsConsistent ==
  ASSUME ManifestInv, Finish
  PROVE  ManifestInv'
<1>1. PICK t, j, r, before : /\ t = tenant /\ j = job /\ r = report /\ before = heldBefore
                             /\ Consistent(t, j, r, before)
  BY DEF ManifestInv
<1>2. PICK s : s = [r EXCEPT !.outcome = "applied"]
  OBVIOUS
<1>3. j.at = "applying" /\ tenant' = t /\ job' = Idle /\ report' = s /\ heldBefore' = before
  BY <1>1, <1>2 DEF Finish
<1>4. r.failed = <<>> /\ r.restore = "none" /\ IsReport(r)
  BY <1>1, <1>3 DEF Consistent, Phased
<1>5. s.outcome = "applied" /\ s.failed = <<>> /\ s.restore = "none" /\ IsReport(s) /\ Reported(s)
  BY <1>2, <1>4 DEF IsReport, Reported
<1>6. Moved(t, Idle, s, before) /\ Restored(t, s, before)
  BY <1>1, <1>3, <1>4, <1>5 DEF Consistent, Moved, Restored, Midway
<1>7. Consistent(t, Idle, s, before)
  BY <1>1, <1>5, <1>6, IdleIsConsistent DEF Consistent
<1> QED
  BY <1>3, <1>7 DEF ManifestInv

(* What others write leaves the bindings nobody has touched since.          *)
LEMMA OthersAreSound ==
  ASSUME WellFormed(tenant), heldBefore \subseteq Assignments, NEW u \in Foreign
  PROVE  Succeeds(tenant, u)
<1>1. PICK t, before : t = tenant /\ before = heldBefore /\ WellFormed(t) /\ before \subseteq Assignments
  OBVIOUS
<1>2. IsTenant(t)
  BY <1>1 DEF WellFormed
<1>3. ASSUME NEW o \in t.objects PROVE Succeeds(t, Delete(t, o))
  BY <1>1, DeleteIsSound
<1>4. ASSUME NEW m \in Manifests, NEW e \in Range(m.entities),
             NEW x \in Create(t, [id |-> NoId, kind |-> e.kind, name |-> e.name, description |-> Theirs,
                                  metadata |-> Nothing, global |-> FALSE, parent |-> NoId])
      PROVE  Succeeds(t, x)
  <2>1. PICK o : o = [id |-> NoId, kind |-> e.kind, name |-> e.name, description |-> Theirs,
                      metadata |-> Nothing, global |-> FALSE, parent |-> NoId]
    OBVIOUS
  <2>2. e \in Entities
    BY ManifestParts, FewMembers
  <2>3. o \in Objects /\ o.parent = NoId
    BY <2>1, <2>2, TextsAssumption DEF Objects, Entities, NoId
  <2> QED
    BY <1>1, <1>4, <2>1, <2>3, CreateIsSound
<1>5. ASSUME NEW h \in t.held, NEW x \in Unassign(t, Pair(h), h.resource) PROVE Succeeds(t, x)
  BY <1>1, UnassignIsSound
<1>6. ASSUME NEW h \in before, NEW x \in Assign(t, [h EXCEPT !.scope = Theirs]) PROVE Succeeds(t, x)
  <2>1. PICK b : b = [h EXCEPT !.scope = Theirs]
    OBVIOUS
  <2>2. b \in Assignments
    BY <1>1, <2>1, TextsAssumption DEF Assignments
  <2> QED
    BY <1>1, <1>6, <2>1, <2>2, AssignIsSound
<1>7. ASSUME NEW s \in t.segments, NEW x \in ReplaceSegment(t, s.id, s.version, s.vlan, Theirs)
      PROVE  Succeeds(t, x)
  <2>1. s.vlan \in Nat /\ Theirs \in Texts
    BY <1>2, TextsAssumption DEF IsTenant, SegmentRows
  <2> QED
    BY <1>1, <2>1, ReplaceSegmentIsSound
<1> DEFINE New(e) == [id |-> NoId, kind |-> e.kind, name |-> e.name, description |-> Theirs,
                      metadata |-> Nothing, global |-> FALSE, parent |-> NoId]
           A == {Delete(tenant, o) : o \in {x \in tenant.objects : ~ \E y \in tenant.objects : y.parent = x.id}}
           B == UNION {Create(tenant, New(e)) : e \in UNION {Range(m.entities) : m \in Manifests}}
           C == UNION {Unassign(tenant, Pair(h), h.resource) : h \in tenant.held}
           D == UNION {Assign(tenant, [h EXCEPT !.scope = Theirs]) : h \in heldBefore}
           E == UNION {ReplaceSegment(tenant, s.id, s.version, s.vlan, Theirs) : s \in tenant.segments}
<1>8. Foreign = A \cup B \cup C \cup D \cup E
  BY DEF Foreign
<1>9. u \in A => Succeeds(t, u)
  BY <1>1, <1>3
<1>10. u \in B => Succeeds(t, u)
  BY <1>1, <1>4
<1>11. u \in C => Succeeds(t, u)
  BY <1>1, <1>5
<1>12. u \in D => Succeeds(t, u)
  BY <1>1, <1>6
<1>13. u \in E => Succeeds(t, u)
  BY <1>1, <1>7
<1> HIDE DEF A, B, C, D, E
<1> QED
  BY <1>1, <1>8, <1>9, <1>10, <1>11, <1>12, <1>13

(* What others write leaves what the plan knows. *)
LEMMA OthersAreConsistent ==
  ASSUME ManifestInv, OthersWrite
  PROVE  ManifestInv'
<1>1. PICK t, j, r, before : /\ t = tenant /\ j = job /\ r = report /\ before = heldBefore
                             /\ Consistent(t, j, r, before)
  BY DEF ManifestInv
<1>2. PICK u : u = tenant' /\ u \in Foreign
  BY DEF OthersWrite
<1>3. WellFormed(t) /\ before \subseteq Assignments
  BY <1>1 DEF Consistent, Stood
<1>4. Succeeds(t, u)
  BY <1>1, <1>2, <1>3, OthersAreSound
<1>5. PICK left \in SUBSET before : /\ left = heldBefore'
                                    /\ \A h \in left : {b \in t.held : Pair(b) = Pair(h)} = {b \in u.held : Pair(b) = Pair(h)}
  <2>1. heldBefore' = {h \in before : {b \in t.held : Pair(b) = Pair(h)} = {b \in u.held : Pair(b) = Pair(h)}}
    BY <1>1, <1>2 DEF OthersWrite
  <2> QED
    BY <2>1
<1>6. job' = j /\ report' = r
  BY <1>1 DEF OthersWrite
<1>7. \A h \in left : \A b : b \in t.held /\ Pair(b) = Pair(h) <=> b \in u.held /\ Pair(b) = Pair(h)
  BY <1>5
<1>8. t.next \in Nat /\ u.next \in Nat /\ t.next <= u.next /\ WellFormed(u)
  BY <1>3, <1>4 DEF WellFormed, IsTenant, Succeeds, ObjectsFollow
<1>9. Stood(u, left)
  <2>1. ASSUME NEW h \in left PROVE h.subject < u.next /\ h.role < u.next
    <3>1. h.subject \in Nat /\ h.role \in Nat /\ h.subject < t.next /\ h.role < t.next
      BY <1>1, <1>3 DEF Consistent, Stood, Assignments
    <3> QED
      BY <1>8, <3>1
  <2> QED
    BY <1>1, <1>7, <2>1 DEF Consistent, Stood
<1>10. Moved(u, j, r, left)
  BY <1>1, <1>7 DEF Consistent, Moved, IsHeld
<1>11. Restored(u, r, left)
  BY <1>1, <1>7 DEF Consistent, Restored
<1>12. Planned(u, j, left)
  BY <1>1, <1>3, <1>4, PlannedStill DEF Consistent
<1>13. Planning(u, j, left)
  <2>1. CASE j.at = "planning"
    <3>1. left \subseteq u.held
      BY <1>1, <1>7, <2>1 DEF Consistent, Planning
    <3> QED
      BY <1>1, <1>3, <1>4, <3>1, PlanningStill DEF Consistent
  <2>2. CASE j.at # "planning"
    BY <2>2 DEF Planning
  <2> QED
    BY <2>1, <2>2
<1>14. Consistent(u, j, r, left)
  BY <1>1, <1>8, <1>9, <1>10, <1>11, <1>12, <1>13 DEF Consistent
<1> QED
  BY <1>2, <1>5, <1>6, <1>14 DEF ManifestInv

-----------------------------------------------------------------------------
(* The work.                                                               *)

(* What is at hand is due in the list it is of. *)
LEMMA AtHand ==
  ASSUME NEW t, NEW j, NEW before, Planned(t, j, before), j.at \in Working, j.next <= Len(j.work),
         NEW part, NEW i, part = j.work[j.next][1], i = j.work[j.next][2]
  PROVE  /\ part = "entity" => i \in 1..Len(j.changes) /\ j.changes[i].action # "unchanged"
         /\ part = "binding" => i \in 1..Len(j.bindings) /\ j.bindings[i].action # "unchanged"
         /\ part = "network" => i \in 1..Len(j.network) /\ j.network[i].action # "unchanged"
         /\ j.next \in Nat /\ j.next + 1 \in 1..(Len(j.work) + 1)
<1>1. j.work \in Seq(AllDue(j.changes, j.bindings, j.network)) /\ j.next \in 1..(Len(j.work) + 1)
  BY DEF Planned
<1>2. Len(j.work) \in Nat /\ j.next \in 1..Len(j.work)
  BY <1>1, LenProperties
<1>3. j.work[j.next] \in AllDue(j.changes, j.bindings, j.network)
  BY <1>1, <1>2, ElementOfSeq
<1>4. PICK d : d = j.work[j.next] /\ d[1] = part /\ d[2] = i
  OBVIOUS
<1>5. d \in Dues("entity", j.changes) \/ d \in Dues("binding", j.bindings) \/ d \in Dues("network", j.network)
  BY <1>3, <1>4 DEF AllDue
<1>6. /\ d \in Dues("entity", j.changes) =>
           part = "entity" /\ i \in 1..Len(j.changes) /\ j.changes[i].action # "unchanged"
      /\ d \in Dues("binding", j.bindings) =>
           part = "binding" /\ i \in 1..Len(j.bindings) /\ j.bindings[i].action # "unchanged"
      /\ d \in Dues("network", j.network) =>
           part = "network" /\ i \in 1..Len(j.network) /\ j.network[i].action # "unchanged"
  BY <1>4 DEF Dues
<1>7. j.next \in Nat /\ j.next + 1 \in 1..(Len(j.work) + 1)
  BY <1>2
<1> QED
  BY <1>5, <1>6, <1>7

(* One change numbered, the others stay. *)
LEMMA NumberedIs ==
  ASSUME NEW m, NEW c \in Seq(ChangeRows(m)), NEW i \in 1..Len(c), NEW v \in Nat, NEW d,
         d = Numbered(c, i, v)
  PROVE  /\ Len(d) = Len(c) /\ DOMAIN d = 1..Len(c) /\ d \in Seq(ChangeRows(m))
         /\ \A k \in 1..Len(c) : k # i => d[k] = c[k]
         /\ d[i].entity = c[i].entity /\ d[i].action = c[i].action /\ d[i].id = v
         /\ v = c[i].id => d = c
<1>1. DOMAIN c = 1..Len(c) /\ Len(c) \in Nat /\ \A k \in 1..Len(c) : c[k] \in ChangeRows(m)
  BY LenProperties, ElementOfSeq
<1>2. PICK x \in ChangeRows(m) : /\ x = [c[i] EXCEPT !.id = v] /\ x.entity = c[i].entity
                                 /\ x.action = c[i].action /\ x.id = v /\ (v = c[i].id => x = c[i])
  <2> DEFINE x == [c[i] EXCEPT !.id = v]
  <2>1. /\ x \in ChangeRows(m) /\ x.entity = c[i].entity /\ x.action = c[i].action /\ x.id = v
        /\ v = c[i].id => x = c[i]
    BY <1>1 DEF ChangeRows
  <2> HIDE DEF x
  <2> QED
    BY <2>1 DEF x
<1>3. d = [c EXCEPT ![i] = x]
  BY <1>2 DEF Numbered
<1>4. d \in Seq(ChangeRows(m)) /\ DOMAIN d = DOMAIN c /\ Len(d) = Len(c)
  BY <1>1, <1>3, ExceptSeq, LenProperties
<1>5. v = c[i].id => d = c
  <2>1. c = [k \in 1..Len(c) |-> c[k]]
    BY <1>1, SeqDef
  <2> QED
    BY <1>1, <1>2, <1>3, <2>1
<1> QED
  BY <1>1, <1>2, <1>3, <1>4, <1>5

(* What comes of a request is what the server makes of it, or nothing. *)
LEMMA OutcomesAre ==
  ASSUME NEW after, NEW x \in Outcomes(after)
  PROVE  /\ x.tenant = tenant \/ x.tenant \in after
         /\ x.ok => x.tenant \in after
<1>1. \/ \E t \in after : x = [ok |-> TRUE, tenant |-> t, fault |-> 0]
      \/ x = [ok |-> FALSE, tenant |-> tenant, fault |-> 0]
      \/ \E t \in {tenant} \cup after : x = [ok |-> FALSE, tenant |-> t, fault |-> 1]
  BY DEF Outcomes
<1> QED
  BY <1>1

(* An entity is created, or updated as the plan knows it. *)
LEMMA CreatedIsSound ==
  ASSUME ManifestInv, job.at \in Working, NEW c \in ChangeRows(job.manifest), NEW u \in Created(c)
  PROVE  /\ Succeeds(tenant, u) /\ u.held = tenant.held /\ u.next = tenant.next + 1
         /\ tenant.objects \subseteq u.objects /\ u.segments = tenant.segments /\ u.profiles = tenant.profiles
<1>1. /\ WellFormed(tenant) /\ job.manifest \in Manifests
      /\ job.changes \in Seq(ChangeRows(job.manifest))
  BY DEF ManifestInv, Consistent, Phased, Planned, ChangesKnown, Working, Midway
<1>2. c.entity \in Entities
  <2>1. Range(job.manifest.entities) \subseteq Entities
    BY <1>1, ManifestParts, FewMembers
  <2> QED
    BY <2>1 DEF ChangeRows
<1>3. PICK i \in Nat : i = IdOf(job.changes, c.entity.depends)
  BY <1>1, IdOfAChange
<1>4. PICK o : o = [id |-> NoId, kind |-> c.entity.kind, name |-> c.entity.name,
                    description |-> IF c.entity.kind = "resource" THEN Nothing ELSE Keep(c.entity.description, Nothing),
                    metadata |-> Keep(c.entity.metadata, Nothing), global |-> c.entity.global,
                    parent |-> IF c.entity.kind = "resource" THEN i ELSE NoId]
  OBVIOUS
<1>5. o \in Objects /\ (o.kind # "resource" => o.parent = NoId)
  <2>1. Keep(c.entity.description, Nothing) \in Texts /\ Keep(c.entity.metadata, Nothing) \in Texts /\ Nothing \in Texts
    BY <1>2, TextsAssumption DEF Keep, Entities
  <2> QED
    BY <1>2, <1>4, <2>1 DEF Objects, Entities, NoId
<1>6. u \in Create(tenant, o)
  BY <1>3, <1>4 DEF Created
<1> QED
  BY <1>1, <1>5, <1>6, CreateIsSound

(* An update, likewise. *)
LEMMA UpdatedIsSound ==
  ASSUME ManifestInv, job.at \in Working, NEW c \in ChangeRows(job.manifest), NEW u \in Updated(c)
  PROVE  /\ Succeeds(tenant, u) /\ u.held = tenant.held /\ u.next = tenant.next
         /\ u.segments = tenant.segments /\ u.profiles = tenant.profiles
<1>1. WellFormed(tenant) /\ job.manifest \in Manifests
  BY DEF ManifestInv, Consistent, Phased, Working, Midway
<1>2. c.entity \in Entities
  <2>1. Range(job.manifest.entities) \subseteq Entities
    BY <1>1, ManifestParts, FewMembers
  <2> QED
    BY <2>1 DEF ChangeRows
<1>3. c.entity.description \in Texts /\ c.entity.metadata \in Texts /\ Unstated \in Texts
  BY <1>2, TextsAssumption DEF Entities
<1>4. PICK d \in Texts, x \in Texts : u \in Update(tenant, c.id, d, x)
  BY <1>3 DEF Updated
<1> QED
  BY <1>1, <1>4, UpdateIsSound

(* What stood stands as long as its scope does. *)
Scoped(t, before) == \A h \in before : \A b \in t.held : Pair(b) = Pair(h) => b.scope = h.scope

LEMMA StillStood ==
  ASSUME NEW t, WellFormed(t), NEW u, Succeeds(t, u), NEW before, Stood(t, before), Scoped(u, before)
  PROVE  Stood(u, before)
<1>1. t.next \in Nat /\ u.next \in Nat /\ t.next <= u.next
  BY DEF WellFormed, IsTenant, Succeeds, ObjectsFollow
<1>2. ASSUME NEW h \in before PROVE h.subject < u.next /\ h.role < u.next
  <2>1. h.subject \in Nat /\ h.role \in Nat /\ h.subject < t.next /\ h.role < t.next
    BY DEF Stood, Assignments
  <2> QED
    BY <1>1, <2>1
<1> QED
  BY <1>2 DEF Stood, Scoped

(* A job that applies has all that stood where it stood, or has moved it. *)
LEMMA AllHeld ==
  ASSUME NEW t, NEW j, NEW r, NEW before, Consistent(t, j, r, before), j.at = "applying", NEW u, u.held = t.held
  PROVE  Scoped(u, before) /\ \A h \in before : IsHeld(u, h)
BY DEF Consistent, Phased, Stood, Scoped, Moved, IsHeld, Midway

(* An apply goes on when its plan does, with the next of its work. *)
LEMMA GoesOn ==
  ASSUME NEW t, NEW j, NEW r, NEW before, Consistent(t, j, r, before), j.at \in Working,
         NEW u, WellFormed(u), NEW k, IsJob(k), k.at = "applying", k.manifest = j.manifest,
         NEW s, IsReport(s), s.outcome = r.outcome, s.failed = r.failed, s.restore = r.restore,
         Planned(u, k, before), Stood(u, before), \A h \in before : IsHeld(u, h),
         AccountsMade(k.changes) \subseteq s.secrets
  PROVE  Consistent(u, k, s, before)
<1>1. j.at # "idle" /\ Phased(j, r) /\ Reported(r)
  BY DEF Working, Midway, Consistent
<1>2. Phased(k, s) /\ Reported(s)
  BY <1>1 DEF Phased, Reported, Working
<1>3. Planning(u, k, before) /\ Rebinding(k)
  BY DEF Planning, Rebinding, Midway
<1>4. Moved(u, k, s, before) /\ Restored(u, s, before)
  BY <1>1 DEF Moved, Restored, Phased
<1> QED
  BY <1>2, <1>3, <1>4 DEF Consistent

(* A change that is numbered: the rest of the plan stays known. *)
LEMMA NumberedIsPlanned ==
  ASSUME NEW t, WellFormed(t), NEW u, Succeeds(t, u), NEW j, NEW before, Planned(t, j, before), Stood(t, before),
         j.at \in Working, NEW i \in 1..Len(j.changes), NEW v \in Nat,
         j.changes[i].action # "create" => v = j.changes[i].id, j.changes[i].action = "create" => v = t.next,
         NEW k, k.manifest = j.manifest, k.changes = Numbered(j.changes, i, v),
         k.bindings = j.bindings, k.network = j.network, k.work = j.work, k.next \in 1..(Len(j.work) + 1)
  PROVE  Planned(u, k, before)
<1>1. PICK m, c, b, n : m = j.manifest /\ c = j.changes /\ b = j.bindings /\ n = j.network
  OBVIOUS
<1>2. ChangesKnown(t, m, c) /\ BindingsKnown(m, c, b, before) /\ NetworkKnown(t, m, n) /\ j.work \in Seq(AllDue(c, b, n))
  BY <1>1 DEF Planned
<1>3. PICK d : d = Numbered(c, i, v)
  OBVIOUS
<1>4. c \in Seq(ChangeRows(m)) /\ i \in 1..Len(c)
  BY <1>1, <1>2 DEF ChangesKnown
<1>5. /\ Len(d) = Len(c) /\ d \in Seq(ChangeRows(m))
      /\ \A x \in 1..Len(c) : x # i => d[x] = c[x]
      /\ d[i].entity = c[i].entity /\ d[i].action = c[i].action /\ d[i].id = v
      /\ v = c[i].id => d = c
  BY <1>3, <1>4, NumberedIs
<1>6. ChangesKnown(u, m, c)
  BY <1>2, ChangesStill
<1>7. ChangesKnown(u, m, d)
  BY <1>1, <1>5, <1>6 DEF ChangesKnown
<1>8. ASSUME NEW h \in before, NEW pb, Pair(h) = PairBy(d, pb) PROVE Pair(h) = PairBy(c, pb)
  <2>1. h.subject = IdOf(d, pb.subject.key) /\ h.role = IdOf(d, pb.binding.role)
    BY <1>8 DEF Pair, PairBy
  <2>2. CASE c[i].action # "create"
    BY <1>1, <1>5, <1>8, <2>2
  <2>3. CASE c[i].action = "create"
    <3>1. v = t.next
      BY <1>1, <2>3
    <3>2. h.subject \in Nat /\ h.role \in Nat /\ h.subject < v /\ h.role < v
      BY <3>1 DEF Stood, Assignments
    <3>3. h.subject # v /\ h.role # v
      BY <3>2
    <3>4. h.subject = IdOf(c, pb.subject.key) /\ h.role = IdOf(c, pb.binding.role)
      BY <1>3, <1>4, <2>1, <3>3, IdOfMoves
    <3> QED
      BY <3>4 DEF Pair, PairBy
  <2> QED
    BY <2>2, <2>3
<1>9. BindingsKnown(m, d, b, before)
  BY <1>2, <1>8 DEF BindingsKnown, IsKnown
<1>10. NetworkKnown(u, m, n)
  BY <1>2, ItemsStill
<1>11. Dues("entity", d) = Dues("entity", c)
  <2>1. \A x \in 1..Len(c) : d[x].action = c[x].action
    BY <1>5
  <2> QED
    BY <1>5, <2>1 DEF Dues
<1>12. j.work \in Seq(AllDue(d, b, n))
  BY <1>2, <1>11 DEF AllDue
<1> QED
  BY <1>1, <1>3, <1>7, <1>9, <1>10, <1>12 DEF Planned

(* And what has been made is reported. *)
LEMMA MadeIsReported ==
  ASSUME NEW m, NEW c \in Seq(ChangeRows(m)), NEW i \in 1..Len(c), NEW v \in Nat, NEW d, d = Numbered(c, i, v),
         c[i].action # "create" => v = c[i].id, NEW secrets, AccountsMade(c) \subseteq secrets
  PROVE  AccountsMade(d) \subseteq secrets \cup Secrets(c[i])
<1>1. /\ DOMAIN d = 1..Len(c) /\ DOMAIN c = 1..Len(c)
      /\ \A x \in 1..Len(c) : x # i => d[x] = c[x]
      /\ d[i].entity = c[i].entity /\ d[i].action = c[i].action /\ d[i].id = v
  BY NumberedIs, LenProperties
<1>2. ASSUME NEW x \in 1..Len(c), d[x].entity.kind = "account", d[x].action = "create", d[x].id # NoId
      PROVE  d[x].entity.key \in secrets \cup Secrets(c[i])
  <2>1. CASE x = i
    BY <1>1, <1>2, <2>1 DEF Secrets
  <2>2. CASE x # i
    <3>1. c[x] \in Range(c) /\ d[x] = c[x]
      BY <1>1, <2>2 DEF Range
    <3>2. c[x].entity.key \in AccountsMade(c)
      BY <1>2, <3>1 DEF AccountsMade
    <3> QED
      BY <3>1, <3>2
  <2> QED
    BY <2>1, <2>2
<1> QED
  BY <1>1, <1>2 DEF AccountsMade, Range

(* An entity is created or updated, or the apply ends there. *)
LEMMA EntityIsConsistent ==
  ASSUME ManifestInv, PerformEntity
  PROVE  ManifestInv'
<1>1. PICK t, j, r, before : /\ t = tenant /\ j = job /\ r = report /\ before = heldBefore
                             /\ Consistent(t, j, r, before)
  BY DEF ManifestInv
<1>2. PICK i : i = Current[2] /\ i = j.work[j.next][2]
  BY <1>1 DEF Current
<1>3. PICK c : c = j.changes[i]
  OBVIOUS
<1>4. j.at = "applying" /\ j.at \in Working /\ j.next <= Len(j.work) /\ j.work[j.next][1] = "entity"
  BY <1>1 DEF PerformEntity, Doing, Current, Working
<1>5. /\ WellFormed(t) /\ IsJob(j) /\ IsReport(r) /\ Planned(t, j, before) /\ Stood(t, before)
      /\ r.failed = <<>> /\ AccountsMade(j.changes) \subseteq r.secrets
  BY <1>1, <1>4 DEF Consistent, Phased
<1>6. i \in 1..Len(j.changes) /\ c.action # "unchanged" /\ j.next + 1 \in 1..(Len(j.work) + 1)
  BY <1>2, <1>3, <1>4, <1>5, AtHand
<1>7. j.changes \in Seq(ChangeRows(j.manifest)) /\ c \in ChangeRows(j.manifest)
  BY <1>3, <1>4, <1>5, <1>6, ElementOfSeq DEF Planned, ChangesKnown
<1>8. PICK after : after = IF c.action = "create" THEN Created(c) ELSE Updated(c)
  OBVIOUS
<1>9. PICK x \in Outcomes(after) :
        /\ tenant' = x.tenant
        /\ IF x.ok
           THEN /\ job' = [job EXCEPT !.next = @ + 1,
                                      !.changes[i].id = IF c.action = "create" THEN tenant.next ELSE @]
                /\ report' = [report EXCEPT !.secrets = @ \cup Secrets(c)]
           ELSE Stop(<<"entity", c.entity.key>>, "none")
  BY <1>1, <1>2, <1>3, <1>8 DEF PerformEntity, Sent
<1>10. heldBefore' = before
  BY <1>1 DEF PerformEntity
<1>11. PICK u : u = x.tenant
  OBVIOUS
<1>12. u = t \/ u \in after
  BY <1>1, <1>9, <1>11, OutcomesAre
<1>13. Succeeds(t, u) /\ u.held = t.held
  <2>1. CASE u = t
    BY <1>5, <2>1, LeftAlone
  <2>2. CASE u \in after
    BY <1>1, <1>4, <1>7, <1>8, <2>2, CreatedIsSound, UpdatedIsSound
  <2> QED
    BY <1>12, <2>1, <2>2
<1>14. Scoped(u, before) /\ \A h \in before : IsHeld(u, h)
  BY <1>1, <1>4, <1>13, AllHeld
<1>15. Stood(u, before) /\ WellFormed(u)
  BY <1>5, <1>13, <1>14, StillStood DEF Succeeds
<1>16. CASE ~ x.ok
  <2>1. PICK failed : failed = <<"entity", c.entity.key>> /\ failed # <<>>
    <3>1. <<"entity", c.entity.key>> # <<>>
      OBVIOUS
    <3> QED
      BY <3>1
  <2>2. PICK s : s = Failed(r, failed, "none")
    OBVIOUS
  <2>3. job' = Idle /\ report' = s
    BY <1>1, <1>9, <1>16, <2>1, <2>2 DEF Stop, Failed
  <2>4. Excused(u, failed, "none", before)
    BY <1>14 DEF Excused
  <2>5. Consistent(u, Idle, s, before)
    BY <1>1, <1>4, <1>15, <2>1, <2>2, <2>4, StopIsConsistent
  <2> QED
    BY <1>9, <1>10, <1>11, <2>3, <2>5 DEF ManifestInv
<1>17. CASE x.ok
  <2>1. PICK v : v = IF c.action = "create" THEN t.next ELSE c.id
    OBVIOUS
  <2>2. v \in Nat
    BY <1>5, <1>7, <2>1 DEF WellFormed, IsTenant, ChangeRows
  <2>3. PICK d : d = Numbered(j.changes, i, v)
    OBVIOUS
  <2>4. PICK k : k = [j EXCEPT !.next = j.next + 1, !.changes = d]
    OBVIOUS
  <2>5. PICK s : s = [r EXCEPT !.secrets = r.secrets \cup Secrets(c)]
    OBVIOUS
  <2>6. job' = k /\ report' = s
    <3>1. job' = [j EXCEPT !.next = @ + 1, !.changes[i].id = IF c.action = "create" THEN t.next ELSE @]
      BY <1>1, <1>9, <1>17
    <3>2. [j EXCEPT !.next = @ + 1, !.changes[i].id = IF c.action = "create" THEN t.next ELSE @] = k
      BY <1>3, <1>5, <1>6, <1>7, <2>1, <2>3, <2>4 DEF Numbered, IsJob
    <3> QED
      BY <1>1, <1>9, <1>17, <2>5, <3>1, <3>2
  <2>7. /\ IsJob(k) /\ k.at = "applying" /\ k.manifest = j.manifest /\ k.changes = d /\ k.bindings = j.bindings
        /\ k.network = j.network /\ k.work = j.work /\ k.next = j.next + 1
    BY <1>4, <1>5, <2>4 DEF IsJob
  <2>8. IsReport(s) /\ s.outcome = r.outcome /\ s.failed = r.failed /\ s.restore = r.restore
        /\ s.secrets = r.secrets \cup Secrets(c)
    BY <1>5, <2>5 DEF IsReport
  <2>9. Planned(u, k, before)
    BY <1>3, <1>4, <1>5, <1>6, <1>13, <2>1, <2>2, <2>3, <2>7, NumberedIsPlanned
  <2>10. AccountsMade(d) \subseteq r.secrets \cup Secrets(c)
    BY <1>3, <1>5, <1>6, <1>7, <2>1, <2>2, <2>3, MadeIsReported
  <2>11. Consistent(u, k, s, before)
    BY <1>1, <1>4, <1>14, <1>15, <2>7, <2>8, <2>9, <2>10, GoesOn
  <2> QED
    BY <1>9, <1>10, <1>11, <2>6, <2>11 DEF ManifestInv
<1> QED
  BY <1>16, <1>17

(* The binding at hand is known: its pair, its old place and its new.        *)
Placed(b, pb, pair) == b \in Assignments /\ Pair(b) = pair /\ b.scope = pb.old.scope

LEMMA BindingAtHand ==
  ASSUME ManifestInv, job.at \in Working, job.next <= Len(job.work), Current[1] = "binding",
         NEW pb, pb = BindingAt(job)
  PROVE  /\ job.bindings[Current[2]] = pb /\ PairOf(pb) = PairBy(job.changes, pb)
         /\ pb.action # "unchanged" /\ IsKnown(job.changes, pb, heldBefore)
         /\ Placed(Wanted(pb), pb, PairOf(pb)) /\ Placed(Previous(pb), pb, PairOf(pb))
         /\ \A h \in heldBefore : Pair(h) = PairOf(pb) /\ pb.action = "update" =>
              h = Previous(pb) /\ h.scope = pb.old.scope
         /\ job.next + 1 \in 1..(Len(job.work) + 1)
<1>1. PICK j, before : j = job /\ before = heldBefore
  OBVIOUS
<1>2. /\ Planned(tenant, j, before) /\ before \subseteq Assignments
      /\ j.at \in Working /\ j.next <= Len(j.work) /\ j.work[j.next][1] = "binding"
  BY <1>1 DEF ManifestInv, Consistent, Stood, Current
<1>3. PICK i : i = j.work[j.next][2] /\ i = Current[2]
  BY <1>1 DEF Current
<1>4. i \in 1..Len(j.bindings) /\ j.bindings[i].action # "unchanged" /\ j.next + 1 \in 1..(Len(j.work) + 1)
  BY <1>2, <1>3, AtHand
<1>5. pb = j.bindings[i] /\ pb \in BindingRows(j.manifest) /\ IsKnown(j.changes, pb, before)
  BY <1>1, <1>2, <1>3, <1>4, ElementOfSeq DEF Planned, BindingsKnown, BindingAt
<1>6. j.changes \in Seq(ChangeRows(j.manifest))
  BY <1>2 DEF Planned, ChangesKnown
<1>7. PairOf(pb) = PairBy(job.changes, pb)
  BY DEF PairOf, PairBy
<1>8. PICK s \in Nat, q \in Nat, p \in Nat :
        /\ s = IdOf(j.changes, pb.subject.key) /\ q = IdOf(j.changes, pb.binding.role)
        /\ p = IdOf(j.changes, pb.binding.resource)
  BY <1>6, IdOfAChange
<1>9. /\ pb.binding.inherit \in BOOLEAN /\ pb.old.resource \in Nat /\ pb.old.inherit \in BOOLEAN
      /\ pb.old.scope \in Texts
  BY <1>5 DEF BindingRows, RoleSpecs, Olds
<1>10. PairOf(pb) = <<s, q>>
  BY <1>1, <1>7, <1>8 DEF PairBy
<1>11. Wanted(pb) = [subject |-> s, role |-> q, resource |-> p, inherit |-> pb.binding.inherit, scope |-> pb.old.scope]
  BY <1>1, <1>8, <1>10 DEF Wanted, Scope
<1>12. Previous(pb) = [subject |-> s, role |-> q, resource |-> pb.old.resource, inherit |-> pb.old.inherit,
                       scope |-> pb.old.scope]
  BY <1>10 DEF Previous, Scope
<1>13. Placed(Wanted(pb), pb, PairOf(pb)) /\ Placed(Previous(pb), pb, PairOf(pb))
  BY <1>9, <1>10, <1>11, <1>12 DEF Placed, Assignments, Pair
<1>14. ASSUME NEW h \in before, Pair(h) = PairOf(pb), pb.action = "update"
       PROVE  h = Previous(pb) /\ h.scope = pb.old.scope
  <2>1. h.subject = s /\ h.role = q
    BY <1>10, <1>14 DEF Pair
  <2>2. pb.old = OldOf(h)
    BY <1>1, <1>5, <1>7, <1>14 DEF IsKnown
  <2>3. pb.old.resource = h.resource /\ pb.old.inherit = h.inherit /\ pb.old.scope = h.scope
    BY <2>2 DEF OldOf
  <2>4. h = [subject |-> h.subject, role |-> h.role, resource |-> h.resource, inherit |-> h.inherit, scope |-> h.scope]
    BY <1>2 DEF Assignments
  <2> QED
    BY <1>12, <2>1, <2>3, <2>4
<1> QED
  BY <1>1, <1>3, <1>4, <1>5, <1>7, <1>13, <1>14

(* A job that goes over to another phase with the same plan. *)
LEMMA SamePlan ==
  ASSUME NEW t, WellFormed(t), NEW u, Succeeds(t, u), NEW j, NEW before, Planned(t, j, before), j.at \in Working,
         NEW k, k.manifest = j.manifest, k.changes = j.changes, k.bindings = j.bindings, k.network = j.network,
         k.work = j.work, k.next \in 1..(Len(j.work) + 1)
  PROVE  Planned(u, k, before)
<1>1. Planned(u, j, before)
  BY PlannedStill
<1> QED
  BY <1>1 DEF Planned

(* A rebind that is under way. *)
LEMMA RebindsOn ==
  ASSUME NEW t, NEW j, NEW r, NEW before, Consistent(t, j, r, before), j.at \in Working, j.next <= Len(j.work),
         j.work[j.next][1] = "binding", BindingAt(j).action = "update",
         NEW u, Succeeds(t, u), Stood(u, before),
         \A h \in before : IsHeld(u, h) \/ Pair(h) = PairBy(j.changes, BindingAt(j)),
         NEW at \in Midway, NEW k, k = [j EXCEPT !.at = at]
  PROVE  Consistent(u, k, r, before)
<1>1. WellFormed(t) /\ IsJob(j) /\ Planned(t, j, before) /\ Phased(j, r)
  BY DEF Consistent
<1>2. /\ IsJob(k) /\ k.at = at /\ k.manifest = j.manifest /\ k.changes = j.changes /\ k.bindings = j.bindings
      /\ k.network = j.network /\ k.work = j.work /\ k.next = j.next
  BY <1>1 DEF IsJob
<1>3. Planned(u, k, before)
  BY <1>1, <1>2, SamePlan DEF Planned
<1>4. k.at \in Working /\ k.at # "idle" /\ k.at # "planning" /\ j.at # "idle"
  BY <1>2 DEF Working, Midway
<1>5. Phased(k, r) /\ Planning(u, k, before)
  BY <1>1, <1>2, <1>4 DEF Phased, Planning
<1>6. BindingAt(k) = BindingAt(j)
  BY <1>2 DEF BindingAt
<1>7. Rebinding(k) /\ Moved(u, k, r, before)
  BY <1>2, <1>6 DEF Rebinding, Moved
<1>8. Restored(u, r, before)
  BY <1>1, <1>4 DEF Restored, Phased
<1> QED
  BY <1>2, <1>3, <1>5, <1>7, <1>8 DEF Consistent, Succeeds

(* The old binding is taken away, and only that. *)
LEMMA UnassignIsConsistent ==
  ASSUME ManifestInv, UnassignOld
  PROVE  ManifestInv'
<1>1. PICK t, j, r, before : /\ t = tenant /\ j = job /\ r = report /\ before = heldBefore
                             /\ Consistent(t, j, r, before)
  BY DEF ManifestInv
<1>2. PICK pb, pair : pb = BindingAt(j) /\ pair = PairOf(pb)
  OBVIOUS
<1>3. j.at = "applying" /\ j.at \in Working /\ j.next <= Len(j.work) /\ j.work[j.next][1] = "binding" /\ Current[1] = "binding"
  BY <1>1 DEF UnassignOld, Doing, Current, Working
<1>4. /\ job.bindings[Current[2]] = pb /\ pair = PairBy(j.changes, pb)
  BY <1>1, <1>2, <1>3, BindingAtHand
<1>5. PICK after : after = IF Resolved(pb) THEN Unassign(tenant, pair, pb.old.resource) ELSE {}
  OBVIOUS
<1>6. PICK x \in Outcomes(after) :
        /\ tenant' = x.tenant /\ pb.action = "update"
        /\ IF x.ok THEN job' = [job EXCEPT !.at = "rebinding"] /\ UNCHANGED report
           ELSE Stop(<<"binding", pair>>, "none")
  BY <1>2, <1>4, <1>5 DEF UnassignOld, Sent
<1>7. heldBefore' = before
  BY <1>1 DEF UnassignOld
<1>8. PICK u : u = x.tenant
  OBVIOUS
<1>9. WellFormed(t) /\ Stood(t, before) /\ r.failed = <<>> /\ Scoped(t, before) /\ \A h \in before : IsHeld(t, h)
  BY <1>1, <1>3, AllHeld DEF Consistent, Phased
<1>10. Succeeds(t, u) /\ u.held \subseteq t.held /\ \A b \in t.held : Pair(b) # pair => b \in u.held
  <2>1. CASE u = t
    BY <1>9, <2>1, LeftAlone
  <2>2. CASE u \in after
    <3>1. u \in Unassign(t, pair, pb.old.resource)
      BY <1>1, <1>5, <2>2
    <3> QED
      BY <1>9, <3>1, UnassignIsSound
  <2> QED
    BY <1>1, <1>6, <1>8, <2>1, <2>2, OutcomesAre
<1>11. Scoped(u, before) /\ Stood(u, before)
  <2>1. Scoped(u, before)
    BY <1>9, <1>10 DEF Scoped
  <2> QED
    BY <1>9, <1>10, <2>1, StillStood
<1>12. \A h \in before : IsHeld(u, h) \/ Pair(h) = pair
  BY <1>9, <1>10 DEF IsHeld
<1>13. CASE x.ok
  <2>1. PICK k : k = [j EXCEPT !.at = "rebinding"]
    OBVIOUS
  <2>2. "rebinding" \in Midway
    BY DEF Midway
  <2>3. Consistent(u, k, r, before)
    BY <1>1, <1>2, <1>3, <1>4, <1>6, <1>10, <1>11, <1>12, <2>1, <2>2, RebindsOn
  <2> QED
    BY <1>1, <1>6, <1>7, <1>8, <1>13, <2>1, <2>3 DEF ManifestInv
<1>14. CASE ~ x.ok
  <2>1. <<"binding", pair>> # <<>> /\ <<"binding", pair>>[1] = "binding"
    OBVIOUS
  <2>2. PICK s : s = Failed(r, <<"binding", pair>>, "none")
    OBVIOUS
  <2>3. job' = Idle /\ report' = s
    BY <1>1, <1>6, <1>14, <2>2 DEF Stop, Failed
  <2>4. Excused(u, <<"binding", pair>>, "none", before)
    BY <1>12 DEF Excused
  <2>5. j.at # "idle" /\ WellFormed(u)
    BY <1>3, <1>10 DEF Succeeds
  <2>6. Consistent(u, Idle, s, before)
    BY <1>1, <1>11, <2>1, <2>2, <2>4, <2>5, StopIsConsistent
  <2> QED
    BY <1>6, <1>7, <1>8, <2>3, <2>6 DEF ManifestInv
<1> QED
  BY <1>13, <1>14

(* What is assigned stands in for what was held. *)
LEMMA AssignedIsSound ==
  ASSUME NEW t, WellFormed(t), NEW before, Stood(t, before), NEW b, NEW pb, NEW pair, Placed(b, pb, pair),
         \A h \in before : Pair(h) = pair => h.scope = pb.old.scope, NEW u, u = t \/ u \in Assign(t, b)
  PROVE  /\ Succeeds(t, u) /\ Stood(u, before) /\ t.held \subseteq u.held
         /\ u \in Assign(t, b) => b \in u.held /\ Pair(b) = pair
<1>1. /\ Succeeds(t, u) /\ t.held \subseteq u.held /\ u.held \subseteq t.held \cup {b}
      /\ u \in Assign(t, b) => b \in u.held
  <2>1. CASE u = t /\ u \notin Assign(t, b)
    BY <2>1, LeftAlone
  <2>2. CASE u \in Assign(t, b)
    BY <2>2, AssignIsSound DEF Placed
  <2> QED
    BY <2>1, <2>2
<1>2. Scoped(u, before)
  BY <1>1 DEF Scoped, Stood, Placed
<1>3. Stood(u, before)
  BY <1>1, <1>2, StillStood
<1> QED
  BY <1>1, <1>3 DEF Placed

(* The new one is given, and what is being moved has arrived. *)
LEMMA AssignIsConsistent ==
  ASSUME ManifestInv, AssignNew
  PROVE  ManifestInv'
<1>1. PICK t, j, r, before : /\ t = tenant /\ j = job /\ r = report /\ before = heldBefore
                             /\ Consistent(t, j, r, before)
  BY DEF ManifestInv
<1>2. PICK pb, pair : pb = BindingAt(j) /\ pair = PairOf(pb)
  OBVIOUS
<1>3. /\ j.at \in Working /\ j.next <= Len(j.work) /\ j.work[j.next][1] = "binding" /\ Current[1] = "binding"
      /\ j.at = "rebinding" => pb.action = "update"
      /\ j.at = "rebinding" \/ (j.at = "applying" /\ job.bindings[Current[2]].action = "create")
  <2>1. CASE j.at = "rebinding"
    BY <1>1, <1>2, <2>1 DEF Consistent, Rebinding, Midway, Working, Current
  <2>2. CASE j.at # "rebinding"
    BY <1>1, <2>2 DEF AssignNew, Doing, Current, Working
  <2> QED
    BY <2>1, <2>2
<1>4. /\ job.bindings[Current[2]] = pb /\ pair = PairBy(j.changes, pb)
      /\ IsKnown(j.changes, pb, before) /\ Placed(Wanted(pb), pb, pair)
      /\ \A h \in before : Pair(h) = pair /\ pb.action = "update" => h.scope = pb.old.scope
      /\ j.next + 1 \in 1..(Len(j.work) + 1)
  BY <1>1, <1>2, <1>3, BindingAtHand
<1>5. PICK after : after = IF Resolved(pb) THEN Assign(tenant, Wanted(pb)) ELSE {}
  OBVIOUS
<1>6. PICK x \in Outcomes(after) :
        /\ tenant' = x.tenant
        /\ IF x.ok THEN job' = [job EXCEPT !.at = "applying", !.next = @ + 1] /\ UNCHANGED report
           ELSE IF job.at = "rebinding" THEN job' = [job EXCEPT !.at = "restoring"] /\ UNCHANGED report
           ELSE Stop(<<"binding", pair>>, "none")
  BY <1>2, <1>4, <1>5 DEF AssignNew, Sent
<1>7. heldBefore' = before
  BY <1>1 DEF AssignNew
<1>8. PICK u : u = x.tenant
  OBVIOUS
<1>9. PICK w : w = Wanted(pb)
  OBVIOUS
<1>10. WellFormed(t) /\ Stood(t, before) /\ r.failed = <<>> /\ Planned(t, j, before) /\ IsJob(j) /\ IsReport(r)
  BY <1>1, <1>3 DEF Consistent, Phased, Working, Midway
<1>11. \A h \in before : Pair(h) = pair => h.scope = pb.old.scope /\ j.at = "rebinding"
  BY <1>3, <1>4 DEF IsKnown
<1>12. (u = t \/ u \in Assign(t, w)) /\ (x.ok => u \in Assign(t, w))
  BY <1>1, <1>5, <1>6, <1>8, <1>9, OutcomesAre
<1>13. /\ Succeeds(t, u) /\ Stood(u, before) /\ t.held \subseteq u.held /\ WellFormed(u)
       /\ x.ok => w \in u.held /\ Pair(w) = pair
  BY <1>4, <1>9, <1>10, <1>11, <1>12, AssignedIsSound DEF Succeeds
<1>14. \A h \in before : IsHeld(u, h) \/ (Pair(h) = pair /\ j.at = "rebinding")
  <2>1. \A h \in before : IsHeld(t, h) \/ (j.at \in Midway /\ Pair(h) = pair)
    BY <1>1, <1>2, <1>4, <1>10 DEF Consistent, Moved
  <2> QED
    BY <1>3, <1>13, <2>1 DEF IsHeld, Midway
<1>15. CASE x.ok
  <2>1. PICK k : k = [j EXCEPT !.at = "applying", !.next = j.next + 1]
    OBVIOUS
  <2>2. /\ IsJob(k) /\ k.at = "applying" /\ k.manifest = j.manifest /\ k.changes = j.changes
        /\ k.bindings = j.bindings /\ k.network = j.network /\ k.work = j.work /\ k.next = j.next + 1
    BY <1>10, <2>1 DEF IsJob
  <2>3. Planned(u, k, before)
    BY <1>3, <1>4, <1>10, <1>13, <2>2, SamePlan
  <2>4. \A h \in before : IsHeld(u, h)
    BY <1>13, <1>14, <1>15 DEF IsHeld
  <2>5. AccountsMade(k.changes) \subseteq r.secrets
    BY <1>1, <2>2 DEF Consistent
  <2>6. Consistent(u, k, r, before)
    BY <1>1, <1>3, <1>10, <1>13, <2>2, <2>3, <2>4, <2>5, GoesOn
  <2> QED
    BY <1>1, <1>6, <1>7, <1>8, <1>15, <2>1, <2>6 DEF ManifestInv
<1>16. CASE ~ x.ok /\ j.at = "rebinding"
  <2>1. PICK k : k = [j EXCEPT !.at = "restoring"]
    OBVIOUS
  <2>2. "restoring" \in Midway /\ pb.action = "update"
    BY <1>3, <1>16 DEF Midway
  <2>3. \A h \in before : IsHeld(u, h) \/ Pair(h) = PairBy(j.changes, BindingAt(j))
    BY <1>2, <1>4, <1>14
  <2>4. Consistent(u, k, r, before)
    BY <1>1, <1>2, <1>3, <1>13, <2>1, <2>2, <2>3, RebindsOn
  <2> QED
    BY <1>1, <1>6, <1>7, <1>8, <1>16, <2>1, <2>4 DEF ManifestInv
<1>17. CASE ~ x.ok /\ j.at # "rebinding"
  <2>1. <<"binding", pair>> # <<>> /\ <<"binding", pair>>[1] = "binding"
    OBVIOUS
  <2>2. PICK s : s = Failed(r, <<"binding", pair>>, "none")
    OBVIOUS
  <2>3. job' = Idle /\ report' = s
    BY <1>1, <1>6, <1>17, <2>2 DEF Stop, Failed
  <2>4. Excused(u, <<"binding", pair>>, "none", before)
    BY <1>14, <1>17 DEF Excused
  <2>5. j.at # "idle"
    BY <1>3 DEF Working, Midway
  <2>6. Consistent(u, Idle, s, before)
    BY <1>1, <1>13, <2>1, <2>2, <2>4, <2>5, StopIsConsistent
  <2> QED
    BY <1>6, <1>7, <1>8, <2>3, <2>6 DEF ManifestInv
<1> QED
  BY <1>15, <1>16, <1>17

(* The old one is put back, or the report says that it could not be. *)
LEMMA RestoreIsConsistent ==
  ASSUME ManifestInv, RestoreOld
  PROVE  ManifestInv'
<1>1. PICK t, j, r, before : /\ t = tenant /\ j = job /\ r = report /\ before = heldBefore
                             /\ Consistent(t, j, r, before)
  BY DEF ManifestInv
<1>2. PICK pb, pair : pb = BindingAt(j) /\ pair = PairOf(pb)
  OBVIOUS
<1>3. /\ j.at \in Working /\ j.next <= Len(j.work) /\ Current[1] = "binding" /\ pb.action = "update"
      /\ j.at = "restoring"
  BY <1>1, <1>2 DEF RestoreOld, Consistent, Rebinding, Midway, Working, Current
<1>4. /\ job.bindings[Current[2]] = pb /\ pair = PairBy(j.changes, pb) /\ Placed(Previous(pb), pb, pair)
      /\ \A h \in before : Pair(h) = pair => h = Previous(pb) /\ h.scope = pb.old.scope
  BY <1>1, <1>2, <1>3, BindingAtHand
<1>5. PICK x \in Outcomes(Assign(tenant, Previous(pb))) :
        tenant' = x.tenant /\ Stop(<<"binding", pair>>, IF x.ok THEN "succeeded" ELSE "failed")
  BY <1>2, <1>4 DEF RestoreOld, Sent
<1>6. heldBefore' = before
  BY <1>1 DEF RestoreOld
<1>7. PICK u : u = x.tenant
  OBVIOUS
<1>8. PICK p : p = Previous(pb)
  OBVIOUS
<1>9. WellFormed(t) /\ Stood(t, before) /\ r.failed = <<>>
  BY <1>1, <1>3 DEF Consistent, Phased
<1>10. (u = t \/ u \in Assign(t, p)) /\ (x.ok => u \in Assign(t, p))
  BY <1>1, <1>5, <1>7, <1>8, OutcomesAre
<1>11. /\ Succeeds(t, u) /\ Stood(u, before) /\ t.held \subseteq u.held /\ WellFormed(u)
       /\ x.ok => p \in u.held
  BY <1>4, <1>8, <1>9, <1>10, AssignedIsSound DEF Succeeds
<1>12. \A h \in before : IsHeld(u, h) \/ Pair(h) = pair
  <2>1. \A h \in before : IsHeld(t, h) \/ Pair(h) = pair
    BY <1>1, <1>2, <1>4, <1>9 DEF Consistent, Moved
  <2> QED
    BY <1>11, <2>1 DEF IsHeld
<1>13. PICK restore : restore = IF x.ok THEN "succeeded" ELSE "failed"
  OBVIOUS
<1>14. PICK failed : failed = <<"binding", pair>> /\ failed # <<>> /\ failed[1] = "binding"
  <2>1. <<"binding", pair>> # <<>> /\ <<"binding", pair>>[1] = "binding"
    OBVIOUS
  <2> QED
    BY <2>1
<1>15. PICK s : s = Failed(r, failed, restore)
  OBVIOUS
<1>16. job' = Idle /\ report' = s
  BY <1>1, <1>5, <1>13, <1>14, <1>15 DEF Stop, Failed
<1>17. Excused(u, failed, restore, before)
  <2>1. ASSUME NEW h \in before, failed = <<"binding", Pair(h)>>, restore = "succeeded" PROVE h \in u.held
    <3>1. Pair(h) = pair /\ x.ok
      BY <1>13, <1>14, <2>1
    <3> QED
      BY <1>4, <1>8, <1>11, <3>1
  <2> QED
    BY <1>12, <1>14, <2>1 DEF Excused
<1>18. Consistent(u, Idle, s, before)
  BY <1>1, <1>3, <1>11, <1>14, <1>15, <1>17, StopIsConsistent
<1> QED
  BY <1>5, <1>6, <1>7, <1>16, <1>18 DEF ManifestInv

-----------------------------------------------------------------------------
(* A write of the network leaves every segment and profile where it was, and *)
(* of what the manifest does not state, every member as it was.              *)
SegmentsAreSpared(t, u, specs) ==
  \A s \in t.segments : \E r \in u.segments :
    r.id = s.id /\ (r = s \/ \E x \in specs : x.name = s.name /\ r.rank = Keep(x.rank, s.rank))

ProfilesAreSpared(t, u, specs) ==
  \A p \in t.profiles : \E q \in u.profiles :
    q.segment = p.segment /\ (q = p \/ \E x \in specs : q.idle = Keep(x.idle, p.idle))

(* Nothing is spared that is the same. *)
LEMMA SparedAlone ==
  ASSUME NEW t, NEW u, NEW specs
  PROVE  /\ t.segments \subseteq u.segments => SegmentsAreSpared(t, u, specs)
         /\ t.profiles \subseteq u.profiles => ProfilesAreSpared(t, u, specs)
BY DEF SegmentsAreSpared, ProfilesAreSpared

(* The segment of the manifest is there once it is written, under the id of  *)
(* the read if there was one.                                              *)
IsThere(u, n) == \E x \in u.segments : x.name = n.spec.name /\ (n.read = {} \/ x.id = Old(n).id)

LEMMA SegmentWritten ==
  ASSUME NEW m \in Manifests, NEW n \in NetworkItems(m), n.item = "segment", n.action # "unchanged",
         WellFormed(tenant), ItemIsKnown(tenant, n), NEW u \in Written(n)
  PROVE  /\ Succeeds(tenant, u) /\ OfNetwork(tenant, u) /\ u.profiles = tenant.profiles
         /\ SegmentsAreSpared(tenant, u, Range(m.segments)) /\ IsThere(u, n)
<1>1. PICK t : t = tenant
  OBVIOUS
<1>2. IsTenant(t) /\ NetworkIsKept(t) /\ WellFormed(t)
  BY <1>1 DEF WellFormed
<1>3. n.spec \in Range(m.segments) /\ n.read \subseteq SegmentRows /\ n.action \in Actions
  BY DEF NetworkItems
<1>4. n.spec \in SegmentSpecs
  BY <1>3, ManifestParts, FewMembers
<1>5. n.spec.name \in Texts /\ n.spec.vlan \in Nat /\ n.spec.rank \in Texts
  BY <1>4 DEF SegmentSpecs
<1>6. CASE n.action = "create"
  <2>1. u \in CreateSegment(t, n.spec.name, n.spec.vlan, n.spec.rank)
    BY <1>1, <1>6 DEF Written
  <2>2. Succeeds(t, u) /\ OfNetwork(t, u) /\ u.profiles = t.profiles /\ t.segments \subseteq u.segments
    BY <1>2, <1>5, <2>1, CreateSegmentIsSound
  <2>3. \E x \in u.segments : x.name = n.spec.name
    <3>1. PICK new : new = [id |-> t.next, name |-> n.spec.name, vlan |-> n.spec.vlan,
                            rank |-> Keep(n.spec.rank, Nothing), version |-> 1]
      OBVIOUS
    <3>2. u = [t EXCEPT !.segments = @ \cup {new}, !.next = @ + 1]
      BY <2>1, <3>1 DEF CreateSegment
    <3>3. new \in u.segments /\ new.name = n.spec.name
      BY <1>2, <3>1, <3>2 DEF IsTenant
    <3> QED
      BY <3>3
  <2>4. n.read = {}
    BY <1>6 DEF ItemIsKnown
  <2> QED
    BY <1>1, <2>2, <2>3, <2>4, SparedAlone DEF IsThere
<1>7. CASE n.action # "create"
  <2>1. PICK o \in n.read : o = Old(n)
    BY <1>7 DEF ItemIsKnown, Old
  <2>2. o \in SegmentRows /\ o.name = n.spec.name /\ SegmentIsKnown(t, o)
    BY <1>1, <1>3, <2>1 DEF ItemIsKnown
  <2>3. PICK rank \in Texts : rank = Keep(n.spec.rank, o.rank)
    BY <1>5, <2>2 DEF Keep, SegmentRows
  <2>4. n.action = "update"
    BY <1>3, <1>7 DEF Actions
  <2>5. u \in ReplaceSegment(t, o.id, o.version, n.spec.vlan, rank)
    BY <1>1, <2>1, <2>3, <2>4 DEF Written, Carried
  <2>6. /\ Succeeds(t, u) /\ OfNetwork(t, u) /\ u.profiles = t.profiles
        /\ \E s \in t.segments, r \in SegmentRows :
             s.id = o.id /\ s.version = o.version /\ r.rank = rank /\ IsReplaced(t, u, s, r)
    BY <1>2, <1>5, <2>5, ReplaceSegmentIsSound
  <2>7. PICK s \in t.segments, r \in SegmentRows :
          s.id = o.id /\ s.version = o.version /\ r.rank = rank /\ IsReplaced(t, u, s, r)
    BY <2>6
  <2>8. s = o
    BY <2>2, <2>7 DEF SegmentIsKnown, SegmentFollows
  <2>9. r \in u.segments /\ r.id = s.id /\ r.name = s.name /\ \A x \in t.segments : x # s => x \in u.segments
    BY <2>7 DEF IsReplaced
  <2>10. SegmentsAreSpared(t, u, Range(m.segments))
    BY <1>3, <2>2, <2>3, <2>7, <2>8, <2>9 DEF SegmentsAreSpared
  <2>11. IsThere(u, n)
    BY <2>1, <2>2, <2>8, <2>9 DEF IsThere
  <2> QED
    BY <1>1, <2>6, <2>10, <2>11
<1> QED
  BY <1>6, <1>7

(* The segment a profile that was read is written against is the one it was  *)
(* read of.                                                                *)
LEMMA SegmentOfIs ==
  ASSUME NEW m, NetworkKnown(tenant, m, job.network), NEW i \in 1..Len(job.network), NEW n, n = job.network[i],
         n.item = "profile", n.read # {}
  PROVE  SegmentOf(n).id = Old(n).segment
<1>1. PICK net : net = job.network
  OBVIOUS
<1>2. net \in Seq(NetworkItems(m)) /\ ItemsMatch(net) /\ DOMAIN net = 1..Len(net)
  BY <1>1, LenProperties DEF NetworkKnown
<1>3. Range(net) = {net[j] : j \in 1..Len(net)}
  BY <1>2 DEF Range
<1>4. \E j \in 1..Len(net) : IsSegmentOf(n, net[j])
  BY <1>1, <1>2 DEF ItemsMatch
<1>5. PICK s : s = CHOOSE x \in Range(net) : x.item = "segment" /\ x.spec.key = n.spec.segment
  OBVIOUS
<1>6. s \in Range(net) /\ s.item = "segment" /\ s.spec.key = n.spec.segment
  BY <1>3, <1>4, <1>5 DEF IsSegmentOf
<1>7. PICK j \in 1..Len(net) : s = net[j]
  BY <1>3, <1>6
<1>8. s.read # {} /\ Old(s).id = Old(n).segment
  BY <1>1, <1>2, <1>6, <1>7 DEF ItemsMatch, IsSegmentOf
<1>9. ItemIsKnown(tenant, s)
  BY <1>1, <1>7 DEF NetworkKnown
<1>10. s.written = Unwritten \/ s.written.id = Old(s).id
  BY <1>6, <1>8, <1>9 DEF ItemIsKnown
<1>11. SegmentOf(n) = IF s.written # Unwritten THEN s.written ELSE [id |-> Old(s).id, version |-> Old(s).version]
  BY <1>1, <1>5, <1>8 DEF SegmentOf
<1> QED
  BY <1>8, <1>10, <1>11

(* A profile that is made changes none. *)
LEMMA ProfileMade ==
  ASSUME NEW t, WellFormed(t), NEW i, NEW version, NEW timeout, timeout \in Nat, NEW idle \in Texts,
         NEW u \in CreateProfile(t, i, version, timeout, idle), NEW listed, NEW specs
  PROVE  /\ Succeeds(t, u) /\ OfNetwork(t, u)
         /\ SegmentsAreSpared(t, u, listed) /\ ProfilesAreSpared(t, u, specs)
<1>1. i \in Nat
  <2>1. \E s \in t.segments : s.id = i
    BY DEF CreateProfile, Accepts, WithId
  <2> QED
    BY <2>1 DEF WellFormed, IsTenant, SegmentRows
<1>2. Succeeds(t, u) /\ OfNetwork(t, u) /\ ProfilesGrow(t, u)
  BY <1>1, CreateProfileIsSound
<1> QED
  BY <1>2, SparedAlone DEF ProfilesGrow

(* A profile is written where it was read, and carries what is not stated. *)
LEMMA ProfileWritten ==
  ASSUME NEW m \in Manifests, NetworkKnown(tenant, m, job.network), NEW i \in 1..Len(job.network),
         NEW n, n = job.network[i], n.item = "profile", n.action # "unchanged",
         WellFormed(tenant), NEW u \in Written(n)
  PROVE  /\ Succeeds(tenant, u) /\ OfNetwork(tenant, u)
         /\ SegmentsAreSpared(tenant, u, Range(m.segments))
         /\ ProfilesAreSpared(tenant, u, Range(m.profiles))
<1>1. PICK t : t = tenant
  OBVIOUS
<1>2. IsTenant(t) /\ NetworkIsKept(t) /\ WellFormed(t)
  BY <1>1 DEF WellFormed
<1>3. n \in NetworkItems(m) /\ ItemIsKnown(t, n)
  BY <1>1, ElementOfSeq DEF NetworkKnown
<1>4. n.spec \in Range(m.profiles) /\ n.read \subseteq ProfileRows /\ n.action \in Actions
  BY <1>3 DEF NetworkItems
<1>5. n.spec \in ProfileSpecs
  BY <1>4, ManifestParts, FewMembers
<1>6. n.spec.timeout \in Nat /\ n.spec.idle \in Texts
  BY <1>5 DEF ProfileSpecs
<1>7. CASE n.action = "create"
  <2>1. PICK g, v : g = SegmentOf(n).id /\ v = SegmentOf(n).version
    OBVIOUS
  <2>2. u \in CreateProfile(t, g, v, n.spec.timeout, n.spec.idle)
    BY <1>1, <1>7, <2>1 DEF Written
  <2> QED
    BY <1>1, <1>2, <1>6, <2>2, ProfileMade
<1>8. CASE n.action # "create"
  <2>1. PICK o \in n.read : o = Old(n)
    BY <1>3, <1>8 DEF ItemIsKnown, Old
  <2>2. o \in ProfileRows /\ ProfileIsKnown(t, o)
    BY <1>3, <1>4, <2>1 DEF ItemIsKnown
  <2>3. PICK idle \in Texts : idle = Keep(n.spec.idle, o.idle)
    BY <1>6, <2>2 DEF Keep, ProfileRows
  <2>4. n.action = "update"
    BY <1>4, <1>8 DEF Actions
  <2>5. SegmentOf(n).id = o.segment
    BY <2>1, SegmentOfIs
  <2>6. PICK v : v = SegmentOf(n).version
    OBVIOUS
  <2>7. u \in ReplaceProfile(t, o.segment, o.version, v, n.spec.timeout, idle)
    BY <1>1, <2>1, <2>3, <2>4, <2>5, <2>6 DEF Written, Carried
  <2>8. /\ Succeeds(t, u) /\ OfNetwork(t, u) /\ u.segments = t.segments
        /\ \E p \in t.profiles, q \in ProfileRows :
             p.segment = o.segment /\ p.version = o.version /\ q.idle = idle /\ Reprofiled(t, u, p, q)
    BY <1>2, <1>6, <2>7, ReplaceProfileIsSound
  <2>9. PICK p \in t.profiles, q \in ProfileRows :
          p.segment = o.segment /\ p.version = o.version /\ q.idle = idle /\ Reprofiled(t, u, p, q)
    BY <2>8
  <2>10. p.idle = o.idle
    BY <1>2, <2>2, <2>9 DEF ProfileIsKnown, ProfileFollows, NetworkIsKept
  <2>11. q \in u.profiles /\ q.segment = p.segment /\ \A x \in t.profiles : x # p => x \in u.profiles
    BY <2>9 DEF Reprofiled
  <2>12. ProfilesAreSpared(t, u, Range(m.profiles))
    BY <1>4, <2>3, <2>9, <2>10, <2>11 DEF ProfilesAreSpared
  <2> QED
    BY <1>1, <2>8, <2>12, SparedAlone
<1> QED
  BY <1>7, <1>8

(* A write of the network, whatever it is of. *)
LEMMA WrittenIsSound ==
  ASSUME NEW m \in Manifests, NetworkKnown(tenant, m, job.network), NEW i \in 1..Len(job.network),
         NEW n, n = job.network[i], n.action # "unchanged", WellFormed(tenant), NEW u \in Written(n)
  PROVE  /\ Succeeds(tenant, u) /\ OfNetwork(tenant, u)
         /\ SegmentsAreSpared(tenant, u, Range(m.segments)) /\ ProfilesAreSpared(tenant, u, Range(m.profiles))
         /\ n.item = "segment" => IsThere(u, n)
<1>1. n \in NetworkItems(m) /\ ItemIsKnown(tenant, n)
  BY ElementOfSeq DEF NetworkKnown
<1>2. CASE n.item = "policy"
  <2>1. n.spec \in Nat
    BY <1>1, <1>2, ManifestParts DEF NetworkItems
  <2>2. PICK v : v = Old(n).version
    OBVIOUS
  <2>3. u \in ReplacePolicy(tenant, n.spec, v)
    BY <1>2, <2>2 DEF Written
  <2>4. /\ Succeeds(tenant, u) /\ OfNetwork(tenant, u) /\ u.segments = tenant.segments
        /\ u.profiles = tenant.profiles
    BY <2>1, <2>3, PolicyIsSound
  <2> QED
    BY <1>2, <2>4, SparedAlone
<1>3. CASE n.item = "segment"
  BY <1>1, <1>3, SegmentWritten, SparedAlone
<1>4. CASE n.item = "profile"
  BY <1>4, ProfileWritten, SparedAlone
<1> QED
  BY <1>1, <1>2, <1>3, <1>4 DEF NetworkItems

(* What the answer to a write says: of a segment, its id and its version.    *)
IsAnswer(n, w) ==
  IF n.item = "segment" THEN w \in [id : Nat, version : Nat] /\ (n.read = {} \/ w.id = Old(n).id)
  ELSE w = Unwritten

LEMMA AnsweredIs ==
  ASSUME NEW u, WellFormed(u), NEW n, n.item = "segment" => IsThere(u, n), NEW w, w = Answered(n, u)
  PROVE  IsAnswer(n, w)
<1>1. CASE n.item = "segment"
  <2>1. PICK x \in u.segments : x.name = n.spec.name /\ (n.read = {} \/ x.id = Old(n).id)
    BY <1>1 DEF IsThere
  <2>2. \A s \in u.segments : s.name = n.spec.name => s = x
    BY <2>1 DEF WellFormed, NetworkIsKept
  <2>3. PICK s : s = CHOOSE y \in u.segments : y.name = n.spec.name
    OBVIOUS
  <2>4. s = x
    BY <2>1, <2>2, <2>3
  <2>5. w = [id |-> s.id, version |-> s.version]
    BY <1>1, <2>3 DEF Answered
  <2>6. x.id \in Nat /\ x.version \in Nat
    BY DEF WellFormed, IsTenant, SegmentRows
  <2> QED
    BY <1>1, <2>1, <2>4, <2>5, <2>6 DEF IsAnswer
<1>2. CASE n.item # "segment"
  BY <1>2 DEF Answered, IsAnswer
<1> QED
  BY <1>1, <1>2

(* One item answered, the others stay. *)
WrittenAt(net, i, w) == [net EXCEPT ![i].written = w]

SameItem(x, y) == x.item = y.item /\ x.spec = y.spec /\ x.read = y.read /\ x.action = y.action

LEMMA WrittenAtIs ==
  ASSUME NEW m, NEW net \in Seq(NetworkItems(m)), NEW i \in 1..Len(net), NEW w, IsAnswer(net[i], w), NEW d,
         d = WrittenAt(net, i, w)
  PROVE  /\ Len(d) = Len(net) /\ d \in Seq(NetworkItems(m))
         /\ \A k \in 1..Len(net) : k # i => d[k] = net[k]
         /\ SameItem(d[i], net[i]) /\ d[i].written = w
<1>1. DOMAIN net = 1..Len(net) /\ Len(net) \in Nat /\ \A k \in 1..Len(net) : net[k] \in NetworkItems(m)
  BY LenProperties, ElementOfSeq
<1>2. PICK n \in NetworkItems(m) : n = net[i]
  BY <1>1
<1>3. PICK x : x = [n EXCEPT !.written = w]
  OBVIOUS
<1>4. x \in NetworkItems(m) /\ SameItem(x, n) /\ x.written = w
  <2>1. CASE n.item = "policy"
    BY <1>2, <1>3, <2>1 DEF NetworkItems, SameItem, IsAnswer
  <2>2. CASE n.item = "segment"
    BY <1>2, <1>3, <2>2 DEF NetworkItems, SameItem, IsAnswer
  <2>3. CASE n.item = "profile"
    BY <1>2, <1>3, <2>3 DEF NetworkItems, SameItem, IsAnswer
  <2> QED
    BY <1>2, <2>1, <2>2, <2>3 DEF NetworkItems
<1>5. d = [net EXCEPT ![i] = x]
  BY <1>2, <1>3 DEF WrittenAt
<1>6. d \in Seq(NetworkItems(m)) /\ DOMAIN d = DOMAIN net /\ Len(d) = Len(net)
  BY <1>1, <1>4, <1>5, ExceptSeq, LenProperties
<1> QED
  BY <1>1, <1>2, <1>4, <1>5, <1>6

(* An item that is answered: the rest of the plan stays known. *)
LEMMA AnsweredIsPlanned ==
  ASSUME NEW t, WellFormed(t), NEW u, Succeeds(t, u), NEW j, NEW before, Planned(t, j, before), j.at \in Working,
         NEW i \in 1..Len(j.network), NEW w, IsAnswer(j.network[i], w),
         NEW k, k.manifest = j.manifest, k.network = WrittenAt(j.network, i, w),
         k.bindings = j.bindings, k.changes = j.changes, k.work = j.work, k.next \in 1..(Len(j.work) + 1)
  PROVE  Planned(u, k, before)
<1>1. PICK m, c, b, n : m = j.manifest /\ c = j.changes /\ b = j.bindings /\ n = j.network
  OBVIOUS
<1>2. ChangesKnown(t, m, c) /\ BindingsKnown(m, c, b, before) /\ NetworkKnown(t, m, n) /\ j.work \in Seq(AllDue(c, b, n))
  BY <1>1 DEF Planned
<1>3. PICK d : d = WrittenAt(n, i, w)
  OBVIOUS
<1>4. ChangesKnown(u, m, c) /\ NetworkKnown(u, m, n)
  BY <1>2, ChangesStill, ItemsStill
<1>5. n \in Seq(NetworkItems(m)) /\ i \in 1..Len(n) /\ IsAnswer(n[i], w) /\ \A x \in 1..Len(n) : ItemIsKnown(u, n[x])
  BY <1>1, <1>4 DEF NetworkKnown
<1>6. /\ Len(d) = Len(n) /\ d \in Seq(NetworkItems(m))
      /\ \A x \in 1..Len(n) : x # i => d[x] = n[x]
      /\ SameItem(d[i], n[i]) /\ d[i].written = w
  BY <1>3, <1>5, WrittenAtIs
<1>7. \A x \in 1..Len(n) : SameItem(d[x], n[x])
  BY <1>6 DEF SameItem
<1>8. \A x \in 1..Len(n) : Old(d[x]) = Old(n[x])
  BY <1>7 DEF Old, SameItem
<1>9. ItemsMatch(d)
  <2>1. \A x, y \in 1..Len(n) : IsSegmentOf(d[x], d[y]) <=> IsSegmentOf(n[x], n[y])
    BY <1>7 DEF SameItem, IsSegmentOf
  <2>2. \A x \in 1..Len(n) : d[x].item = n[x].item /\ d[x].read = n[x].read
    BY <1>7 DEF SameItem
  <2>3. ItemsMatch(n)
    BY <1>2 DEF NetworkKnown
  <2> QED
    BY <1>6, <1>8, <2>1, <2>2, <2>3 DEF ItemsMatch
<1>10. \A x \in 1..Len(n) : ItemIsKnown(u, d[x])
  <2>1. ItemIsKnown(u, d[i])
    <3>1. Old(d[i]) = Old(n[i]) /\ ItemIsKnown(u, n[i])
      BY <1>5, <1>8
    <3> QED
      BY <1>5, <1>6, <3>1 DEF ItemIsKnown, SameItem, IsAnswer
  <2>2. ASSUME NEW x \in 1..Len(n), x # i PROVE ItemIsKnown(u, d[x])
    BY <1>5, <1>6, <2>2
  <2> QED
    BY <2>1, <2>2
<1>11. NetworkKnown(u, m, d)
  BY <1>6, <1>9, <1>10 DEF NetworkKnown
<1>12. Dues("network", d) = Dues("network", n)
  BY <1>6, <1>7 DEF Dues, SameItem
<1>13. j.work \in Seq(AllDue(c, b, d))
  BY <1>2, <1>12 DEF AllDue
<1> QED
  BY <1>1, <1>2, <1>3, <1>4, <1>11, <1>13 DEF Planned

(* The network is written, one item after the other, or the apply ends there. *)
LEMMA NetworkIsConsistent ==
  ASSUME ManifestInv, PerformNetwork
  PROVE  ManifestInv'
<1>1. PICK t, j, r, before : /\ t = tenant /\ j = job /\ r = report /\ before = heldBefore
                             /\ Consistent(t, j, r, before)
  BY DEF ManifestInv
<1>2. PICK i : i = Current[2] /\ i = j.work[j.next][2]
  BY <1>1 DEF Current
<1>3. PICK n : n = j.network[i]
  OBVIOUS
<1>4. j.at = "applying" /\ j.at \in Working /\ j.next <= Len(j.work) /\ j.work[j.next][1] = "network"
  BY <1>1 DEF PerformNetwork, Doing, Current, Working
<1>5. /\ WellFormed(t) /\ IsJob(j) /\ IsReport(r) /\ Planned(t, j, before) /\ Stood(t, before)
      /\ r.failed = <<>> /\ AccountsMade(j.changes) \subseteq r.secrets /\ j.manifest \in Manifests
  BY <1>1, <1>4 DEF Consistent, Phased
<1>6. i \in 1..Len(j.network) /\ n.action # "unchanged" /\ j.next + 1 \in 1..(Len(j.work) + 1)
  BY <1>2, <1>3, <1>4, <1>5, AtHand
<1>7. NetworkKnown(t, j.manifest, j.network)
  BY <1>4, <1>5 DEF Planned
<1>8. PICK after : after = Written(n)
  OBVIOUS
<1>9. PICK x \in Outcomes(after) :
        /\ tenant' = x.tenant
        /\ IF x.ok
           THEN /\ job' = [job EXCEPT !.next = @ + 1, !.network[i].written = Answered(n, x.tenant)]
                /\ UNCHANGED report
           ELSE Stop(<<"network", n.item>>, "none")
  BY <1>1, <1>2, <1>3, <1>8 DEF PerformNetwork, Sent
<1>10. heldBefore' = before
  BY <1>1 DEF PerformNetwork
<1>11. PICK u : u = x.tenant
  OBVIOUS
<1>12. (u = t \/ u \in after) /\ (x.ok => u \in after)
  BY <1>1, <1>9, <1>11, OutcomesAre
<1>13. ASSUME u \in after PROVE Succeeds(t, u) /\ OfNetwork(t, u) /\ (n.item = "segment" => IsThere(u, n))
  BY <1>1, <1>3, <1>5, <1>6, <1>7, <1>8, <1>13, WrittenIsSound
<1>14. Succeeds(t, u) /\ u.held = t.held
  <2>1. CASE u = t
    BY <1>5, <2>1, LeftAlone
  <2>2. CASE u \in after
    BY <1>13, <2>2 DEF OfNetwork
  <2> QED
    BY <1>12, <2>1, <2>2
<1>15. Scoped(u, before) /\ \A h \in before : IsHeld(u, h)
  BY <1>1, <1>4, <1>14, AllHeld
<1>16. Stood(u, before) /\ WellFormed(u)
  BY <1>5, <1>14, <1>15, StillStood DEF Succeeds
<1>17. CASE ~ x.ok
  <2>1. PICK failed : failed = <<"network", n.item>> /\ failed # <<>>
    <3>1. <<"network", n.item>> # <<>>
      OBVIOUS
    <3> QED
      BY <3>1
  <2>2. PICK s : s = Failed(r, failed, "none")
    OBVIOUS
  <2>3. job' = Idle /\ report' = s
    BY <1>1, <1>9, <1>17, <2>1, <2>2 DEF Stop, Failed
  <2>4. Excused(u, failed, "none", before)
    BY <1>15 DEF Excused
  <2>5. Consistent(u, Idle, s, before)
    BY <1>1, <1>4, <1>16, <2>1, <2>2, <2>4, StopIsConsistent
  <2> QED
    BY <1>9, <1>10, <1>11, <2>3, <2>5 DEF ManifestInv
<1>18. CASE x.ok
  <2>1. PICK w : w = Answered(n, u)
    OBVIOUS
  <2>2. IsAnswer(n, w)
    BY <1>12, <1>13, <1>16, <1>18, <2>1, AnsweredIs
  <2>3. PICK d : d = WrittenAt(j.network, i, w)
    OBVIOUS
  <2>4. PICK k : k = [j EXCEPT !.next = j.next + 1, !.network = d]
    OBVIOUS
  <2>5. job' = k /\ report' = r
    <3>1. job' = [j EXCEPT !.next = @ + 1, !.network[i].written = w]
      BY <1>1, <1>9, <1>11, <1>18, <2>1
    <3>2. [j EXCEPT !.next = @ + 1, !.network[i].written = w] = k
      BY <1>5, <2>3, <2>4 DEF WrittenAt, IsJob
    <3> QED
      BY <1>1, <1>9, <1>18, <3>1, <3>2
  <2>6. /\ IsJob(k) /\ k.at = "applying" /\ k.manifest = j.manifest /\ k.changes = j.changes
        /\ k.bindings = j.bindings /\ k.network = d /\ k.work = j.work /\ k.next = j.next + 1
    BY <1>4, <1>5, <2>4 DEF IsJob
  <2>7. Planned(u, k, before)
    BY <1>3, <1>4, <1>5, <1>6, <1>14, <2>2, <2>3, <2>6, AnsweredIsPlanned
  <2>8. Consistent(u, k, r, before)
    BY <1>1, <1>4, <1>5, <1>15, <1>16, <2>6, <2>7, GoesOn
  <2> QED
    BY <1>9, <1>10, <1>11, <2>5, <2>8 DEF ManifestInv
<1> QED
  BY <1>17, <1>18

-----------------------------------------------------------------------------
(* Every step keeps the invariant. *)
LEMMA StepIsConsistent ==
  ASSUME ManifestInv, [Next]_vars
  PROVE  ManifestInv'
<1>1. CASE \E m \in Manifests : Begin(m)
  BY <1>1, BeginIsConsistent
<1>2. CASE Read
  BY <1>2, ReadIsConsistent
<1>3. CASE ReadFails
  BY <1>3, ReadFailsIsConsistent
<1>4. CASE Decide
  BY <1>4, DecideIsConsistent
<1>5. CASE PerformEntity
  BY <1>5, EntityIsConsistent
<1>6. CASE UnassignOld
  BY <1>6, UnassignIsConsistent
<1>7. CASE AssignNew
  BY <1>7, AssignIsConsistent
<1>8. CASE RestoreOld
  BY <1>8, RestoreIsConsistent
<1>9. CASE PerformNetwork
  BY <1>9, NetworkIsConsistent
<1>10. CASE Finish
  BY <1>10, FinishIsConsistent
<1>11. CASE OthersWrite
  BY <1>11, OthersAreConsistent
<1>12. CASE UNCHANGED vars
  BY <1>12 DEF vars, ManifestInv
<1> QED
  BY <1>1, <1>2, <1>3, <1>4, <1>5, <1>6, <1>7, <1>8, <1>9, <1>10, <1>11, <1>12 DEF Next

(* What is known while a manifest is planned and applied, whatever others    *)
(* write and whichever request fails: that what the plan has read or made    *)
(* still names what it named, that its work is of its own lists, and where   *)
(* every binding that stood at the start is: axiam_mgmt_apply and           *)
(* axiam_mgmt_plan of management_manifest.c.                               *)
THEOREM ManifestInductive == Spec => []ManifestInv
BY InitIsConsistent, StepIsConsistent, PTL DEF Spec

(* An apply moves a binding and loses none: perform_binding, with the rebind *)
(* that is restored when its second half fails, whatever the manifests, the *)
(* tenants, the faults and the writes of others.                           *)
THEOREM BindingsMoved == Spec => []BindingsAreOnlyMoved
<1>1. ManifestInv => BindingsAreOnlyMoved
  <2> SUFFICES ASSUME ManifestInv PROVE BindingsAreOnlyMoved
    OBVIOUS
  <2>1. PICK t, j, r, before : /\ t = tenant /\ j = job /\ r = report /\ before = heldBefore
                               /\ Consistent(t, j, r, before)
    BY DEF ManifestInv
  <2>2. /\ Phased(j, r) /\ Planned(t, j, before) /\ Reported(r) /\ Stood(t, before)
        /\ Moved(t, j, r, before) /\ Restored(t, r, before)
    BY <2>1 DEF Consistent
  <2>3. TypeOK
    BY <2>1, <2>2 DEF TypeOK, Phased, Planned, Reported, Working, Midway
  <2>4. ASSUME NEW h \in before, NEW b \in t.held, Pair(b) = Pair(h) PROVE b.scope = h.scope
    BY <2>2, <2>4 DEF Stood
  <2>5. ASSUME NEW h \in before, j.at = "idle"
        PROVE  (\E b \in t.held : Pair(b) = Pair(h)) \/ r.failed = <<"binding", Pair(h)>>
    BY <2>2, <2>5 DEF Moved, IsHeld, Midway
  <2>6. ASSUME NEW h \in before, r.restore = "succeeded", r.failed = <<"binding", Pair(h)>> PROVE h \in t.held
    BY <2>2, <2>6 DEF Restored
  <2> QED
    BY <2>1, <2>3, <2>4, <2>5, <2>6 DEF BindingsAreOnlyMoved
<1> QED
  BY <1>1, ManifestInductive, PTL

(* A job that stops or is done keeps the secrets it has in the report. *)
LEMMA SecretsStay ==
  ASSUME ManifestInv, Next, job'.at = "idle"
  PROVE  AccountsMade(job.changes) \subseteq report'.secrets
<1>1. PICK j, r : j = job /\ r = report /\ IsJob(j) /\ IsReport(r) /\ AccountsMade(j.changes) \subseteq r.secrets
  BY DEF ManifestInv, Consistent
<1>2. AccountsMade(<<>>) = {} /\ Idle.changes = <<>>
  BY EmptySeq DEF AccountsMade, Range, Idle
<1>3. ASSUME NEW failed, NEW restore, Stop(failed, restore) PROVE report'.secrets = r.secrets
  BY <1>1, <1>3 DEF Stop, IsReport
<1>4. CASE \E m \in Manifests : Begin(m)
  <2>1. j = Idle
    BY <1>1, <1>4 DEF Begin, ManifestInv, Consistent, Phased
  <2> QED
    BY <1>1, <1>2, <2>1
<1>5. CASE Read
  BY <1>1, <1>5 DEF Read, IsJob
<1>6. CASE ReadFails
  BY <1>1, <1>3, <1>6 DEF ReadFails
<1>7. CASE Decide
  <2>1. CASE Ambiguous(job.seen, job.manifest)
    BY <1>1, <1>3, <1>7, <2>1 DEF Decide
  <2>2. CASE ~ Ambiguous(job.seen, job.manifest)
    BY <1>1, <1>7, <2>2 DEF Decide, IsJob
  <2> QED
    BY <2>1, <2>2
<1>8. CASE PerformEntity
  <2>1. PICK x, i, c, v :
          /\ i = Current[2] /\ c = job.changes[i]
          /\ IF x.ok
             THEN job' = [job EXCEPT !.next = @ + 1, !.changes[i].id = IF c.action = "create" THEN tenant.next ELSE @]
             ELSE Stop(<<"entity", c.entity.key>>, "none")
    BY <1>8 DEF PerformEntity
  <2>2. job.at = "applying"
    BY <1>8 DEF PerformEntity, Doing
  <2>3. ~ x.ok
    BY <1>1, <2>1, <2>2 DEF IsJob
  <2> QED
    BY <1>1, <1>3, <2>1, <2>3
<1>9. CASE UnassignOld
  <2>1. job'.at = "rebinding" \/ \E failed, restore : Stop(failed, restore)
    BY <1>1, <1>9 DEF UnassignOld, IsJob
  <2> QED
    BY <1>1, <1>3, <2>1
<1>10. CASE AssignNew
  <2>1. job'.at \in {"applying", "restoring"} \/ \E failed, restore : Stop(failed, restore)
    BY <1>1, <1>10 DEF AssignNew, IsJob
  <2> QED
    BY <1>1, <1>3, <2>1
<1>11. CASE RestoreOld
  BY <1>1, <1>3, <1>11 DEF RestoreOld
<1>12. CASE PerformNetwork
  <2>1. PICK x, i, n :
          IF x.ok THEN job' = [job EXCEPT !.next = @ + 1, !.network[i].written = Answered(n, x.tenant)]
          ELSE Stop(<<"network", n.item>>, "none")
    BY <1>12 DEF PerformNetwork
  <2>2. job.at = "applying"
    BY <1>12 DEF PerformNetwork, Doing
  <2>3. ~ x.ok
    BY <1>1, <2>1, <2>2 DEF IsJob
  <2> QED
    BY <1>1, <1>3, <2>1, <2>3
<1>13. CASE Finish
  BY <1>1, <1>13 DEF Finish, IsReport
<1>14. CASE OthersWrite
  BY <1>1, <1>14 DEF OthersWrite
<1> QED
  BY <1>4, <1>5, <1>6, <1>7, <1>8, <1>9, <1>10, <1>11, <1>12, <1>13, <1>14 DEF Next

(* The secret of every account an apply has created is in its report, however *)
(* it ends: record_created_secret, called as soon as the answer is there.    *)
THEOREM SecretsKept == Spec => SecretsAreReported
<1>1. ASSUME ManifestInv, [Next]_vars
      PROVE  [job'.at = "idle" => {c.entity.key : c \in {x \in Range(job.changes) :
                x.entity.kind = "account" /\ x.action = "create" /\ x.id # NoId}} \subseteq report'.secrets]_vars
  BY <1>1, SecretsStay DEF AccountsMade
<1> QED
  BY <1>1, ManifestInductive, PTL DEF Spec, SecretsAreReported

-----------------------------------------------------------------------------
(* An object is where it was, and of what the manifest does not state as it  *)
(* was.                                                                    *)
IsSpared(o, p, e) ==
  /\ e.kind = o.kind /\ e.name = o.name
  /\ p = [o EXCEPT !.description = p.description, !.metadata = p.metadata]
  /\ p.description \in {o.description, Keep(e.description, o.description)}
  /\ p.metadata \in {o.metadata, Keep(e.metadata, o.metadata)}

ObjectsAreSpared(t, u, specs) ==
  \A o \in t.objects : \E p \in u.objects : p.id = o.id /\ (p = o \/ \E e \in specs : IsSpared(o, p, e))

(* An update writes the object the change is of, and no other. *)
LEMMA UpdateSpares ==
  ASSUME NEW t, IsTenant(t), NEW e, NEW i, NEW d \in Texts, NEW x \in Texts,
         d \in {Unstated, e.description}, x \in {Unstated, e.metadata}, Knows(t, i, e.kind, e.name),
         NEW u \in Update(t, i, d, x), NEW specs, e \in specs
  PROVE  ObjectsAreSpared(t, u, specs)
<1>1. PICK o \in t.objects :
        /\ o.id = i /\ o \in Objects
        /\ u = [t EXCEPT !.objects = (@ \ {o}) \cup
                  {[o EXCEPT !.description = Keep(d, @), !.metadata = Keep(x, @)]}]
  BY DEF Update, WithId, IsTenant
<1>2. PICK p : p = [o EXCEPT !.description = Keep(d, o.description), !.metadata = Keep(x, o.metadata)]
  OBVIOUS
<1>3. /\ p.id = o.id /\ p.description = Keep(d, o.description) /\ p.metadata = Keep(x, o.metadata)
      /\ p = [o EXCEPT !.description = p.description, !.metadata = p.metadata]
  BY <1>1, <1>2 DEF Objects
<1>4. e.kind = o.kind /\ e.name = o.name
  BY <1>1 DEF Knows
<1>5. IsSpared(o, p, e)
  BY <1>3, <1>4 DEF IsSpared, Keep
<1>6. u.objects = (t.objects \ {o}) \cup {p}
  BY <1>1, <1>2 DEF IsTenant
<1>7. ASSUME NEW y \in t.objects
      PROVE  \E z \in u.objects : z.id = y.id /\ (z = y \/ \E f \in specs : IsSpared(y, z, f))
  <2>1. CASE y = o
    <3>1. p \in u.objects
      BY <1>6
    <3> QED
      BY <1>3, <1>5, <2>1, <3>1
  <2>2. CASE y # o
    <3>1. y \in u.objects
      BY <1>6, <2>2
    <3> QED
      BY <3>1
  <2> QED
    BY <2>1, <2>2
<1> QED
  BY <1>7 DEF ObjectsAreSpared

(* What a step leaves of the tenant. *)
Spared(t, u, m) ==
  /\ ObjectsAreSpared(t, u, Range(m.entities))
  /\ SegmentsAreSpared(t, u, Range(m.segments))
  /\ ProfilesAreSpared(t, u, Range(m.profiles))

(* Nothing is lost of what stays. *)
Stays(t, u) == t.objects \subseteq u.objects /\ t.segments \subseteq u.segments /\ t.profiles \subseteq u.profiles

LEMMA StaysSpared ==
  ASSUME NEW t, NEW u, Stays(t, u), NEW m
  PROVE  Spared(t, u, m)
BY SparedAlone DEF Stays, Spared, ObjectsAreSpared

(* An entity is created, or the one the change is of is updated. *)
LEMMA EntitySpares ==
  ASSUME ManifestInv, PerformEntity
  PROVE  Spared(tenant, tenant', job.manifest)
<1>1. PICK t, j, before : t = tenant /\ j = job /\ before = heldBefore /\ WellFormed(t) /\ Planned(t, j, before)
                          /\ j.at = "applying" /\ j.at \in Working /\ j.next <= Len(j.work) /\ Current[1] = "entity"
                          /\ j.manifest \in Manifests
  <2>1. /\ job.at = "applying" /\ job.at \in Working /\ job.next <= Len(job.work) /\ Current[1] = "entity"
        /\ job.manifest \in Manifests
    BY DEF PerformEntity, Doing, Working, ManifestInv, Consistent, Phased
  <2> QED
    BY <2>1 DEF ManifestInv, Consistent
<1>2. PICK i : i = Current[2] /\ i = j.work[j.next][2]
  BY <1>1 DEF Current
<1>3. PICK c : c = j.changes[i]
  OBVIOUS
<1>4. i \in 1..Len(j.changes) /\ c.action # "unchanged"
  BY <1>1, <1>2, <1>3, AtHand DEF Current
<1>5. /\ c \in ChangeRows(j.manifest)
      /\ c.action # "create" => Knows(t, c.id, c.entity.kind, c.entity.name)
  BY <1>1, <1>3, <1>4, ElementOfSeq DEF Planned, ChangesKnown
<1>6. PICK after : after = IF c.action = "create" THEN Created(c) ELSE Updated(c)
  OBVIOUS
<1>7. PICK x \in Outcomes(after) : tenant' = x.tenant
  BY <1>1, <1>2, <1>3, <1>6 DEF PerformEntity, Sent
<1>8. PICK u : u = tenant' /\ (u = t \/ u \in after)
  BY <1>1, <1>7, OutcomesAre
<1>9. CASE u = t
  <2>1. Stays(t, u)
    BY <1>9 DEF Stays
  <2> QED
    BY <1>1, <1>8, <2>1, StaysSpared
<1>10. CASE u \in after /\ c.action = "create"
  <2>1. u \in Created(c)
    BY <1>6, <1>10
  <2>2. Stays(t, u)
    BY <1>1, <1>5, <2>1, CreatedIsSound DEF Stays
  <2> QED
    BY <1>1, <1>8, <2>2, StaysSpared
<1>11. CASE u \in after /\ c.action # "create"
  <2>1. u \in Updated(c)
    BY <1>6, <1>11
  <2>2. u.segments = t.segments /\ u.profiles = t.profiles
    BY <1>1, <1>5, <2>1, UpdatedIsSound
  <2>3. PICK e : e = c.entity /\ e \in Range(j.manifest.entities) /\ e \in Entities
    <3>1. Range(j.manifest.entities) \subseteq Entities
      BY <1>1, ManifestParts, FewMembers
    <3> QED
      BY <1>5, <3>1 DEF ChangeRows
  <2>4. e.description \in Texts /\ e.metadata \in Texts /\ Unstated \in Texts
    BY <2>3, TextsAssumption DEF Entities
  <2>5. PICK d \in Texts, y \in Texts : /\ d \in {Unstated, e.description} /\ y \in {Unstated, e.metadata}
                                        /\ u \in Update(t, c.id, d, y)
    BY <1>1, <2>1, <2>3, <2>4 DEF Updated
  <2>6. IsTenant(t) /\ Knows(t, c.id, e.kind, e.name)
    BY <1>1, <1>5, <1>11, <2>3 DEF WellFormed
  <2>7. ObjectsAreSpared(t, u, Range(j.manifest.entities))
    BY <2>3, <2>5, <2>6, UpdateSpares
  <2>8. Spared(t, u, j.manifest)
    BY <2>2, <2>7, SparedAlone DEF Spared
  <2> QED
    BY <1>1, <1>8, <2>8
<1> QED
  BY <1>8, <1>9, <1>10, <1>11

(* A binding is a matter of what is held. *)
LEMMA BindingSpares ==
  ASSUME ManifestInv, UnassignOld \/ AssignNew \/ RestoreOld
  PROVE  Spared(tenant, tenant', job.manifest)
<1>1. PICK t : t = tenant /\ WellFormed(t)
  BY DEF ManifestInv, Consistent
<1>2. \A pair, i : \A u \in Unassign(t, pair, i) : Stays(t, u)
  BY <1>1 DEF Unassign, Stays, WellFormed, IsTenant
<1>3. \A b : \A u \in Assign(t, b) : Stays(t, u)
  <2> SUFFICES ASSUME NEW b, NEW u \in Assign(t, b) PROVE Stays(t, u)
    OBVIOUS
  <2>1. u = [t EXCEPT !.held = @ \cup {b}]
    BY DEF Assign
  <2> QED
    BY <1>1, <2>1 DEF Stays, WellFormed, IsTenant
<1>4. Stays(t, t)
  BY DEF Stays
<1>5. ASSUME NEW after, NEW x \in Outcomes(after), tenant' = x.tenant, \A u \in after : Stays(t, u)
      PROVE  Stays(t, tenant')
  BY <1>1, <1>4, <1>5, OutcomesAre
<1>6. CASE UnassignOld
  <2>1. PICK pb, after : /\ after = IF Resolved(pb) THEN Unassign(tenant, PairOf(pb), pb.old.resource) ELSE {}
                         /\ \E x \in Outcomes(after) : tenant' = x.tenant
    BY <1>6 DEF UnassignOld, Sent
  <2>2. \A u \in after : Stays(t, u)
    BY <1>1, <1>2, <2>1
  <2> QED
    BY <1>1, <1>5, <2>1, <2>2, StaysSpared
<1>7. CASE AssignNew
  <2>1. PICK pb, after : /\ after = IF Resolved(pb) THEN Assign(tenant, Wanted(pb)) ELSE {}
                         /\ \E x \in Outcomes(after) : tenant' = x.tenant
    BY <1>7 DEF AssignNew, Sent
  <2>2. \A u \in after : Stays(t, u)
    BY <1>1, <1>3, <2>1
  <2> QED
    BY <1>1, <1>5, <2>1, <2>2, StaysSpared
<1>8. CASE RestoreOld
  <2>1. PICK pb, after : after = Assign(tenant, Previous(pb)) /\ \E x \in Outcomes(after) : tenant' = x.tenant
    BY <1>8 DEF RestoreOld, Sent
  <2>2. \A u \in after : Stays(t, u)
    BY <1>1, <1>3, <2>1
  <2> QED
    BY <1>1, <1>5, <2>1, <2>2, StaysSpared
<1> QED
  BY <1>6, <1>7, <1>8

(* A write of the network spares what it does not state. *)
LEMMA NetworkSpares ==
  ASSUME ManifestInv, PerformNetwork
  PROVE  Spared(tenant, tenant', job.manifest)
<1>1. PICK t, j, before : t = tenant /\ j = job /\ before = heldBefore /\ WellFormed(t) /\ Planned(t, j, before)
                          /\ j.at \in Working /\ j.next <= Len(j.work) /\ Current[1] = "network"
                          /\ j.manifest \in Manifests
  <2>1. /\ job.at \in Working /\ job.next <= Len(job.work) /\ Current[1] = "network"
        /\ job.manifest \in Manifests
    BY DEF PerformNetwork, Doing, Working, ManifestInv, Consistent, Phased
  <2> QED
    BY <2>1 DEF ManifestInv, Consistent
<1>2. PICK i : i = Current[2] /\ i = j.work[j.next][2]
  BY <1>1 DEF Current
<1>3. PICK n : n = j.network[i]
  OBVIOUS
<1>4. i \in 1..Len(j.network) /\ n.action # "unchanged" /\ NetworkKnown(t, j.manifest, j.network)
  BY <1>1, <1>2, <1>3, AtHand DEF Current, Planned
<1>5. PICK x \in Outcomes(Written(n)) : tenant' = x.tenant
  BY <1>1, <1>2, <1>3 DEF PerformNetwork, Sent
<1>6. PICK u : u = tenant' /\ (u = t \/ u \in Written(n))
  BY <1>1, <1>5, OutcomesAre
<1>7. CASE u = t
  <2>1. Stays(t, u)
    BY <1>7 DEF Stays
  <2> QED
    BY <1>1, <1>6, <2>1, StaysSpared
<1>8. CASE u \in Written(n)
  <2>1. /\ OfNetwork(t, u) /\ SegmentsAreSpared(t, u, Range(j.manifest.segments))
        /\ ProfilesAreSpared(t, u, Range(j.manifest.profiles))
    BY <1>1, <1>3, <1>4, <1>8, WrittenIsSound
  <2>2. ObjectsAreSpared(t, u, Range(j.manifest.entities))
    BY <2>1 DEF OfNetwork, ObjectsAreSpared
  <2> QED
    BY <1>1, <1>6, <2>1, <2>2 DEF Spared
<1> QED
  BY <1>6, <1>7, <1>8

(* Of what it finds, an apply changes only what the manifest states, and     *)
(* deletes nothing: a replacement carries what is unstated from the very     *)
(* object it replaces, or the server refuses it. perform, perform_binding    *)
(* and perform_network.                                                    *)
THEOREM SilenceKept == Spec => SilenceChangesNothing
<1>1. Init => others \in Nat
  BY DEF Init
<1>2. others \in Nat /\ [Next]_vars => (others \in Nat)'
  <2> SUFFICES ASSUME others \in Nat, [Next]_vars PROVE others' \in Nat
    OBVIOUS
  <2>1. others' = others \/ others' = others + 1
    BY DEF Next, vars, Begin, Read, ReadFails, Decide, PerformEntity, UnassignOld, AssignNew, RestoreOld,
           PerformNetwork, Finish, OthersWrite
  <2> QED
    BY <2>1
<1>3. ASSUME ManifestInv, others \in Nat, Next, UNCHANGED others
      PROVE  Spared(tenant, tenant', job.manifest)
  <2>1. CASE tenant' = tenant
    BY <2>1, StaysSpared DEF Stays
  <2>2. CASE PerformEntity
    BY <1>3, <2>2, EntitySpares
  <2>3. CASE UnassignOld \/ AssignNew \/ RestoreOld
    BY <1>3, <2>3, BindingSpares
  <2>4. CASE PerformNetwork
    BY <1>3, <2>4, NetworkSpares
  <2>5. ~ OthersWrite
    BY <1>3 DEF OthersWrite
  <2> QED
    BY <1>3, <2>1, <2>2, <2>3, <2>4, <2>5 DEF Next, Begin, Read, ReadFails, Decide, Finish
<1>4. ASSUME ManifestInv, others \in Nat, [Next]_vars
      PROVE  [UNCHANGED others =>
       /\ \A o \in tenant.objects : \E p \in tenant'.objects :
            /\ p.id = o.id
            /\ \/ p = o
               \/ \E e \in Range(job.manifest.entities) :
                    /\ e.kind = o.kind /\ e.name = o.name
                    /\ p = [o EXCEPT !.description = p.description, !.metadata = p.metadata]
                    /\ p.description \in {o.description, Keep(e.description, o.description)}
                    /\ p.metadata \in {o.metadata, Keep(e.metadata, o.metadata)}
       /\ \A s \in tenant.segments : \E r \in tenant'.segments :
            /\ r.id = s.id
            /\ \/ r = s
               \/ \E x \in Range(job.manifest.segments) : x.name = s.name /\ r.rank = Keep(x.rank, s.rank)
       /\ \A p \in tenant.profiles : \E q \in tenant'.profiles :
            /\ q.segment = p.segment
            /\ \/ q = p
               \/ \E x \in Range(job.manifest.profiles) : q.idle = Keep(x.idle, p.idle)]_vars
  BY <1>3, <1>4 DEF Spared, ObjectsAreSpared, SegmentsAreSpared, ProfilesAreSpared, IsSpared
<1> QED
  BY <1>1, <1>2, <1>4, ManifestInductive, PTL DEF Spec, SilenceChangesNothing

-----------------------------------------------------------------------------
(* Edits: what is carried from a reading to a body.                         *)

(* What a document that is replaced may hold: what the server answered, and *)
(* what the SDK makes of an arm it does not know.                          *)
DocValues(c) == Answers(c) \cup (IF c.kind = "union" THEN {TagOnly} ELSE {})

LEMMA OrdinaryIsNoMark ==
  ASSUME NEW c, IsClass(c)
  PROVE  /\ Ordinary(c) \cap Marks = {}
         /\ Ordinary(c) # {} \/ c.kind = "union"
<1>1. CASE c.kind \in Closed
  <2>1. c.words \in Seq(STRING) \ {<<>>} /\ Range(c.words) \cap Marks = {}
    BY <1>1 DEF IsClass
  <2>2. Ordinary(c) = Range(c.words)
    BY <1>1 DEF Ordinary, Closed
  <2>3. c.words[1] \in Range(c.words)
    BY <2>1 DEF Range
  <2> QED
    BY <2>1, <2>2, <2>3
<1>2. CASE c.kind = "union"
  BY <1>2 DEF IsClass, Ordinary, Closed
<1>3. CASE c.kind \notin Closed /\ c.kind # "union"
  <2>1. Ordinary(c) \in {{"false", "true"}, {"0", "7"}, {Empty, "a", "b"}, {"a", "b"}}
    BY <1>3 DEF Ordinary
  <2>2. ASSUME NEW x \in Ordinary(c) PROVE x \in {"false", "true", "0", "7", Empty, "a", "b"}
    BY <2>1
  <2>3. ASSUME NEW x \in {"false", "true", "0", "7", Empty, "a", "b"} PROVE x \notin Marks
    BY DEF Marks, Absent, Null, Newer, TagOnly, Blank, Misnamed, Unset, Unknown, Empty
  <2>4. Ordinary(c) # {}
    BY <2>1
  <2> QED
    BY <2>2, <2>3, <2>4
<1> QED
  BY <1>1, <1>2, <1>3

LEMMA ZeroIsHeld ==
  ASSUME NEW c, IsClass(c)
  PROVE  Zero(c) \in HeldValues(c)
<1>1. CASE c.kind = "enum"
  <2>1. c.words \in Seq(STRING) \ {<<>>} /\ Zero(c) = c.words[1] /\ Ordinary(c) = Range(c.words)
    BY <1>1 DEF IsClass, Closed, Zero, Ordinary
  <2>2. c.words[1] \in Range(c.words)
    BY <2>1 DEF Range
  <2> QED
    BY <2>1, <2>2 DEF HeldValues, Settable
<1>2. CASE c.kind = "flag"
  BY <1>2 DEF Zero, Ordinary, HeldValues, Settable, Closed
<1>3. CASE c.kind \in {"number", "real"}
  BY <1>3 DEF Zero, Ordinary, HeldValues, Settable, Closed
<1>4. CASE c.kind \notin {"enum", "flag", "number", "real"}
  BY <1>4 DEF Zero, HeldValues
<1> QED
  BY <1>1, <1>2, <1>3, <1>4

(* A closed word that is none of the vocabulary's becomes _UNKNOWN, and the *)
(* constant has no word.                                                   *)
LEMMA ClosedRoundTrip ==
  ASSUME NEW c, IsClass(c), c.kind \in Closed, NEW w
  PROVE  /\ w \in Ordinary(c) => Parse(c, w) = w /\ Build(c, w) = w
         /\ w \in {Newer, Blank} => Parse(c, w) = Unknown
         /\ Build(c, Unknown) = Blank
         /\ Build(c, Unset) = Absent
         /\ Parse(c, Absent) = Zero(c)
<1>1. Ordinary(c) = Range(c.words) /\ Ordinary(c) \cap Marks = {} /\ c.kind # "sometexts"
  BY OrdinaryIsNoMark DEF Ordinary, Closed
<1>2. ASSUME w \in Ordinary(c) PROVE Parse(c, w) = w /\ Build(c, w) = w
  BY <1>1, <1>2 DEF Parse, Build, Stated, FromWire, ToWire, Marks, Closed
<1>3. ASSUME w \in {Newer, Blank} PROVE Parse(c, w) = Unknown
  <2>1. w \notin Range(c.words) /\ w \notin {Absent, Null}
    BY <1>1, <1>3 DEF Marks, Absent, Null, Newer, Blank
  <2> QED
    BY <1>1, <2>1 DEF Parse, FromWire, Closed
<1>4. Build(c, Unknown) = Blank /\ Build(c, Unset) = Absent
  BY <1>1 DEF Build, Stated, ToWire, Unknown, Unset, Closed
<1>5. Parse(c, Absent) = Zero(c)
  <2>1. Absent \notin Ordinary(c) /\ c.kind \notin {"union", "json", "nullable", "trueflag", "maybetrueflag"}
    BY <1>1 DEF Marks, Closed
  <2> QED
    BY <2>1 DEF Parse
<1> QED
  BY <1>2, <1>3, <1>4, <1>5

LEMMA UnionRoundTrip ==
  ASSUME NEW c, IsClass(c), c.kind = "union", NEW w
  PROVE  /\ w \in Ordinary(c) => Parse(c, w) = w
         /\ w \in {Newer, TagOnly} => Parse(c, w) = TagOnly
         /\ Parse(c, Absent) = Unset
         /\ \A h : h # Unset => Build(c, h) = h
         /\ Build(c, Unset) = Absent
<1>1. Ordinary(c) = DOMAIN c.arms /\ Ordinary(c) \cap Marks = {} /\ c.kind \notin Closed
  BY OrdinaryIsNoMark DEF Ordinary, Closed
<1>2. ASSUME w \in Ordinary(c) PROVE Parse(c, w) = w
  BY <1>1, <1>2 DEF Parse, UnionDeclared, Marks
<1>3. ASSUME w \in {Newer, TagOnly} PROVE Parse(c, w) = TagOnly
  <2>1. w \notin DOMAIN c.arms /\ w \notin {Absent, Null}
    BY <1>1, <1>3 DEF Marks, Absent, Null, Newer, TagOnly
  <2> QED
    BY <1>1, <2>1 DEF Parse, UnionDeclared
<1>4. (\A h : h # Unset => Build(c, h) = h) /\ Build(c, Unset) = Absent
  BY <1>1 DEF Build, Stated, Closed
<1>5. Parse(c, Absent) = Unset
  BY <1>1 DEF Parse, Zero, Marks
<1> QED
  BY <1>2, <1>3, <1>4, <1>5

(* The other classes: what is ordinary is kept, what is absent stays so.    *)
Plain(c) == c.kind \notin Closed \cup {"union", "maybetrueflag"}

LEMMA PlainRoundTrip ==
  ASSUME NEW c, IsClass(c), Plain(c), NEW w
  PROVE  /\ w \in Ordinary(c) => Parse(c, w) = w
         /\ w \in Ordinary(c) => Build(c, w) = IF c.kind = "sometexts" /\ w = Empty THEN Absent ELSE w
         /\ Build(c, Unset) = Absent
         /\ c.kind \notin Required => Parse(c, Absent) = Unset
         /\ Parse(c, Null) = IF c.kind \in {"json", "nullable"} THEN Null ELSE IF c.kind = "trueflag" THEN "true" ELSE Zero(c)
         /\ c.kind \in {"json", "nullable"} => Build(c, Null) = Null
<1>1. Ordinary(c) \cap Marks = {}
  BY OrdinaryIsNoMark
<1>2. ASSUME w \in Ordinary(c) PROVE Parse(c, w) = w
  <2>1. c.kind \in {"trueflag", "maybetrueflag"} => Ordinary(c) = {"false", "true"}
    BY DEF Ordinary, Closed
  <2>2. w # Absent /\ w # Null
    BY <1>1, <1>2 DEF Marks
  <2> QED
    BY <1>2, <2>1, <2>2 DEF Parse, Plain
<1>3. ASSUME w \in Ordinary(c) PROVE Build(c, w) = IF c.kind = "sometexts" /\ w = Empty THEN Absent ELSE w
  <2>1. w # Unset /\ w # Unknown
    BY <1>1, <1>3 DEF Marks
  <2> QED
    BY <2>1 DEF Build, Stated, Plain
<1>4. Build(c, Unset) = Absent
  BY DEF Build
<1>5. ASSUME c.kind \notin Required PROVE Parse(c, Absent) = Unset
  <2>1. Absent \notin Ordinary(c)
    BY <1>1 DEF Marks
  <2> QED
    BY <1>5, <2>1 DEF Parse, Plain, Required, Zero, Absent, Null, Closed
<1>6. Parse(c, Null) = IF c.kind \in {"json", "nullable"} THEN Null ELSE IF c.kind = "trueflag" THEN "true" ELSE Zero(c)
  <2>1. Null \notin Ordinary(c)
    BY <1>1 DEF Marks
  <2> QED
    BY <2>1 DEF Parse, Plain, Absent, Null
<1>7. ASSUME c.kind \in {"json", "nullable"} PROVE Build(c, Null) = Null
  BY <1>7 DEF Build, Stated, Null, Unset, Unknown, Closed
<1> QED
  BY <1>2, <1>3, <1>4, <1>5, <1>6, <1>7

LEMMA SameWords ==
  ASSUME NEW r, IsClass(r), NEW b, IsClass(b), SaysAsMuch(r, b)
  PROVE  /\ Ordinary(b) = Ordinary(r)
         /\ r.kind \in Closed => b.kind \in Closed
         /\ r.kind \notin Required => b.kind = r.kind
         /\ r.kind = "union" => b.kind = "union"
         /\ Plain(r) => Plain(b)
         /\ b.kind = "sometexts" => r.kind = "sometexts"
         /\ Plain(r) \/ r.kind \in Closed \/ r.kind = "union"
<1>1. CASE b.kind = r.kind
  <2>1. Ordinary(b) = Ordinary(r)
    <3>1. CASE r.kind \in Closed
      BY <1>1, <3>1 DEF SaysAsMuch, Ordinary, Closed
    <3>2. CASE r.kind = "union"
      BY <1>1, <3>2 DEF SaysAsMuch, Ordinary, Closed
    <3>3. CASE r.kind \notin Closed /\ r.kind # "union"
      BY <1>1, <3>3 DEF Ordinary
    <3> QED
      BY <3>1, <3>2, <3>3
  <2> QED
    BY <1>1, <2>1 DEF SaysAsMuch, Plain
<1>2. CASE b.kind # r.kind
  <2>1. <<r.kind, b.kind>> \in {<<"number", "maybenumber">>, <<"real", "maybereal">>,
                                <<"flag", "maybeflag">>, <<"enum", "maybeenum">>}
    BY <1>2 DEF SaysAsMuch
  <2>2. CASE r.kind = "enum" /\ b.kind = "maybeenum"
    BY <2>2 DEF SaysAsMuch, Ordinary, Closed, Required, Plain
  <2>3. CASE r.kind = "flag" /\ b.kind = "maybeflag"
    BY <2>3 DEF Ordinary, Closed, Required, Plain
  <2>4. CASE r.kind \in {"number", "real"} /\ b.kind \in {"maybenumber", "maybereal"}
    BY <2>4 DEF Ordinary, Closed, Required, Plain
  <2> QED
    BY <2>1, <2>2, <2>3, <2>4
<1> QED
  BY <1>1, <1>2

(* A reading, written out and read in as the body (ToInput).                *)
AsInput(r, b, w) == Parse(b, Build(r, Parse(r, w)))

(* Two values a reader of the document does not tell apart (Norm).          *)
NormOf(c, w) == IF w = Null \/ (c.kind = "sometexts" /\ w = Empty) THEN Absent ELSE w

(* What is carried of a value that was read.                                *)
IsCarried(r, b, w) ==
  /\ AsInput(r, b, w) \in HeldValues(b)
  /\ w = Newer => AsInput(r, b, w) = IF b.kind = "union" THEN TagOnly ELSE Unknown
  /\ w # Newer => NormOf(b, Build(b, AsInput(r, b, w))) = NormOf(b, w)
  /\ w # Newer /\ r.kind \in Required => Build(b, AsInput(r, b, w)) # Absent
  /\ w = Newer => b.kind \in Closed \cup {"union"}

LEMMA ClosedIsCarried ==
  ASSUME NEW r, IsClass(r), NEW b, IsClass(b), SaysAsMuch(r, b), r.kind \in Closed,
         NEW w \in DocValues(r)
  PROVE  IsCarried(r, b, w)
<1>1. b.kind \in Closed /\ Ordinary(b) = Ordinary(r) /\ (r.kind = "enum" \/ (b.kind = "maybeenum" /\ r.kind = "maybeenum"))
  BY SameWords DEF Closed, Required
<1>2. w \in Ordinary(r) \/ w = Newer \/ (w = Absent /\ r.kind = "maybeenum")
  BY DEF DocValues, Answers, Closed, Required
<1>3. Ordinary(r) \cap Marks = {}
  BY OrdinaryIsNoMark
<1>4. CASE w \in Ordinary(r)
  <2>1. AsInput(r, b, w) = w /\ Build(b, w) = w
    BY <1>1, <1>4, ClosedRoundTrip DEF AsInput
  <2>2. w # Newer /\ w # Absent
    BY <1>3, <1>4 DEF Marks
  <2> QED
    BY <1>1, <1>4, <2>1, <2>2 DEF IsCarried, HeldValues, Settable
<1>5. CASE w = Newer
  <2>1. Parse(r, w) = Unknown /\ Build(r, Unknown) = Blank
    BY <1>5, ClosedRoundTrip
  <2>2. Parse(b, Blank) = Unknown
    BY <1>1, ClosedRoundTrip
  <2> QED
    BY <1>1, <1>5, <2>1, <2>2 DEF IsCarried, AsInput, HeldValues, Settable, Closed
<1>6. CASE w = Absent /\ r.kind = "maybeenum"
  <2>1. Zero(r) = Unset /\ Zero(b) = Unset
    BY <1>1, <1>6 DEF Zero
  <2>2. Parse(r, w) = Unset /\ Build(r, Unset) = Absent
    BY <1>6, <2>1, ClosedRoundTrip
  <2>3. Parse(b, Absent) = Unset /\ Build(b, Unset) = Absent
    BY <1>1, <2>1, ClosedRoundTrip
  <2>4. AsInput(r, b, w) = Unset
    BY <2>2, <2>3 DEF AsInput
  <2>5. w # Newer /\ r.kind \notin Required
    BY <1>6 DEF Absent, Newer, Required
  <2> QED
    BY <1>6, <2>3, <2>4, <2>5 DEF IsCarried, HeldValues
<1> QED
  BY <1>2, <1>4, <1>5, <1>6

LEMMA UnionIsCarried ==
  ASSUME NEW r, IsClass(r), NEW b, IsClass(b), SaysAsMuch(r, b), r.kind = "union",
         NEW w \in DocValues(r)
  PROVE  IsCarried(r, b, w)
<1>1. b.kind = "union" /\ Ordinary(b) = Ordinary(r) /\ r.kind \notin Required
  BY SameWords DEF Required
<1>2. w \in Ordinary(r) \/ w = Newer \/ w = Absent \/ w = TagOnly
  BY DEF DocValues, Answers
<1>3. Ordinary(r) \cap Marks = {}
  BY OrdinaryIsNoMark
<1>4. CASE w \in Ordinary(r)
  <2>1. w # Newer /\ w # Unset
    BY <1>3, <1>4 DEF Marks
  <2>2. AsInput(r, b, w) = w /\ Build(b, w) = w
    BY <1>1, <1>4, <2>1, UnionRoundTrip DEF AsInput
  <2> QED
    BY <1>1, <1>4, <2>1, <2>2 DEF IsCarried, HeldValues, Settable
<1>5. CASE w \in {Newer, TagOnly}
  <2>1. TagOnly # Unset /\ TagOnly # Newer
    BY DEF TagOnly, Unset, Newer
  <2>2. Parse(r, w) = TagOnly /\ Build(r, TagOnly) = TagOnly
    BY <1>5, <2>1, UnionRoundTrip
  <2>3. Parse(b, TagOnly) = TagOnly /\ Build(b, TagOnly) = TagOnly
    BY <1>1, <2>1, UnionRoundTrip
  <2>4. AsInput(r, b, w) = TagOnly
    BY <2>2, <2>3 DEF AsInput
  <2> QED
    BY <1>1, <1>5, <2>3, <2>4 DEF IsCarried, HeldValues
<1>6. CASE w = Absent
  <2>1. Parse(r, w) = Unset /\ Build(r, Unset) = Absent
    BY <1>6, UnionRoundTrip
  <2>2. Parse(b, Absent) = Unset /\ Build(b, Unset) = Absent
    BY <1>1, UnionRoundTrip
  <2>3. AsInput(r, b, w) = Unset
    BY <2>1, <2>2 DEF AsInput
  <2>4. w # Newer
    BY <1>6 DEF Absent, Newer
  <2> QED
    BY <1>1, <1>6, <2>2, <2>3, <2>4 DEF IsCarried, HeldValues
<1> QED
  BY <1>2, <1>4, <1>5, <1>6

LEMMA PlainIsCarried ==
  ASSUME NEW r, IsClass(r), NEW b, IsClass(b), SaysAsMuch(r, b), Plain(r), NEW w \in DocValues(r)
  PROVE  IsCarried(r, b, w)
<1>1. Plain(b) /\ Ordinary(b) = Ordinary(r) /\ (b.kind = "sometexts" => r.kind = "sometexts")
      /\ (r.kind \notin Required => b.kind = r.kind)
  BY SameWords
<1>2. /\ w \in Ordinary(r) \/ (w = Absent /\ r.kind \notin Required)
         \/ (w = Null /\ r.kind \in {"text", "json", "nullable"})
      /\ w # Newer
  <2>1. w \in Ordinary(r) \/ (w = Absent /\ r.kind \notin Required)
          \/ (w = Null /\ r.kind \in {"text", "json", "nullable"})
    BY DEF DocValues, Answers, Plain
  <2>2. Ordinary(r) \cap Marks = {}
    BY OrdinaryIsNoMark
  <2> QED
    BY <2>1, <2>2 DEF Marks, Newer, Absent, Null
<1>3. Ordinary(r) \cap Marks = {}
  BY OrdinaryIsNoMark
<1>4. CASE w \in Ordinary(r) /\ ~(r.kind = "sometexts" /\ w = Empty)
  <2>1. Parse(r, w) = w /\ Build(r, w) = w
    BY <1>4, PlainRoundTrip
  <2>2. Parse(b, w) = w /\ Build(b, w) = w
    BY <1>1, <1>4, PlainRoundTrip
  <2>3. AsInput(r, b, w) = w /\ w # Absent
    BY <1>3, <1>4, <2>1, <2>2 DEF AsInput, Marks
  <2> QED
    BY <1>1, <1>2, <1>4, <2>2, <2>3 DEF IsCarried, HeldValues, Settable
<1>5. CASE r.kind = "sometexts" /\ w = Empty
  <2>1. b.kind = r.kind /\ r.kind \notin Required
    BY <1>1, <1>5 DEF Required
  <2>2. w \in Ordinary(r) /\ w \in Ordinary(b)
    BY <1>1, <1>5 DEF Ordinary, Closed
  <2>3. Parse(r, w) = w /\ Build(r, w) = Absent
    BY <1>5, <2>2, PlainRoundTrip
  <2>4. Parse(b, Absent) = Unset /\ Build(b, Unset) = Absent
    BY <1>1, <2>1, PlainRoundTrip
  <2>5. AsInput(r, b, w) = Unset
    BY <2>3, <2>4 DEF AsInput
  <2> QED
    BY <1>2, <1>5, <2>1, <2>4, <2>5 DEF IsCarried, HeldValues, NormOf
<1>6. CASE w = Absent /\ r.kind \notin Required
  <2>1. b.kind = r.kind
    BY <1>1, <1>6
  <2>2. Parse(r, w) = Unset /\ Build(r, Unset) = Absent
    BY <1>6, PlainRoundTrip
  <2>3. Parse(b, Absent) = Unset /\ Build(b, Unset) = Absent
    BY <1>1, <1>6, <2>1, PlainRoundTrip
  <2>4. AsInput(r, b, w) = Unset
    BY <2>2, <2>3 DEF AsInput
  <2> QED
    BY <1>2, <1>6, <2>3, <2>4 DEF IsCarried, HeldValues
<1>7. CASE w = Null /\ r.kind \in {"json", "nullable"}
  <2>1. b.kind = r.kind /\ r.kind \notin Required
    BY <1>1, <1>7 DEF Required
  <2>2. Parse(r, w) = Null /\ Build(r, Null) = Null
    BY <1>7, PlainRoundTrip
  <2>3. Parse(b, Null) = Null /\ Build(b, Null) = Null
    BY <1>1, <1>7, <2>1, PlainRoundTrip
  <2>4. AsInput(r, b, w) = Null
    BY <2>2, <2>3 DEF AsInput
  <2> QED
    BY <1>2, <1>7, <2>1, <2>3, <2>4 DEF IsCarried, HeldValues, Settable
<1>8. CASE w = Null /\ r.kind = "text"
  <2>1. b.kind = r.kind /\ r.kind \notin Required /\ Zero(r) = Unset
    BY <1>1, <1>8 DEF Required, Zero
  <2>2. Parse(r, w) = Unset /\ Build(r, Unset) = Absent
    BY <1>8, <2>1, PlainRoundTrip
  <2>3. Parse(b, Absent) = Unset /\ Build(b, Unset) = Absent
    BY <1>1, <2>1, PlainRoundTrip
  <2>4. AsInput(r, b, w) = Unset
    BY <2>2, <2>3 DEF AsInput
  <2>5. NormOf(b, Absent) = Absent /\ NormOf(b, w) = Absent
    BY <1>8 DEF NormOf
  <2> QED
    BY <1>2, <2>1, <2>3, <2>4, <2>5 DEF IsCarried, HeldValues
<1> QED
  BY <1>2, <1>4, <1>5, <1>6, <1>7, <1>8

LEMMA ValuesAreCarried ==
  ASSUME NEW r, IsClass(r), NEW b, IsClass(b), SaysAsMuch(r, b), NEW w \in DocValues(r)
  PROVE  IsCarried(r, b, w)
BY SameWords, ClosedIsCarried, UnionIsCarried, PlainIsCarried

(* What a body says of what is held.                                        *)
LEMMA BodiesSay ==
  ASSUME NEW b, IsClass(b), NEW h \in HeldValues(b)
  PROVE  /\ Build(b, h) \in HeldValues(b) \cup {Absent, Blank, Misnamed}
         /\ Build(b, h) = Blank => b.kind \in Closed /\ h = Unknown
         /\ Build(b, h) = Misnamed => b.kind = "arm" /\ h = Unknown
         /\ Build(b, h) \in {Newer, TagOnly} => b.kind = "union" /\ h = Build(b, h)
<1>1. Ordinary(b) \cap Marks = {}
  BY OrdinaryIsNoMark
<1>2. /\ h \notin {Blank, Misnamed}
      /\ h \in {Newer, TagOnly} => b.kind = "union"
  <2>1. h \in Ordinary(b) \cup {Unset, Unknown, Null} \/ (h \in {Newer, TagOnly} /\ b.kind = "union")
    BY DEF HeldValues, Settable
  <2> QED
    BY <1>1, <2>1 DEF Marks, Absent, Null, Newer, TagOnly, Blank, Misnamed, Unset, Unknown
<1>3. CASE h = Unset \/ (b.kind = "sometexts" /\ h = Empty)
  <2>1. Build(b, h) = Absent
    BY <1>3 DEF Build
  <2> QED
    BY <2>1 DEF Absent, Newer, TagOnly, Blank, Misnamed
<1>4. CASE ~(h = Unset \/ (b.kind = "sometexts" /\ h = Empty))
  <2>1. Build(b, h) = Stated(b, h)
    BY <1>4 DEF Build
  <2>2. CASE b.kind \in Closed
    <3>1. Stated(b, h) = IF h = Unknown THEN Blank ELSE h
      BY <2>2 DEF Stated, ToWire, Closed
    <3> QED
      BY <1>2, <2>1, <2>2, <3>1 DEF Newer, TagOnly, Blank, Misnamed
  <2>3. CASE b.kind = "arm"
    <3>1. Stated(b, h) = IF h = Unknown THEN Misnamed ELSE h
      BY <2>3 DEF Stated, Closed
    <3> QED
      BY <1>2, <2>1, <2>3, <3>1 DEF Newer, TagOnly, Blank, Misnamed
  <2>4. CASE b.kind \notin Closed /\ b.kind # "arm"
    <3>1. Stated(b, h) = h
      BY <2>4 DEF Stated
    <3> QED
      BY <1>2, <2>1, <3>1
  <2> QED
    BY <2>2, <2>3, <2>4
<1> QED
  BY <1>3, <1>4

(* What a server keeps of a body it understands.                            *)
LEMMA BodiesAreKept ==
  ASSUME NEW r, IsClass(r), NEW b, IsClass(b), SaysAsMuch(r, b), NEW h \in HeldValues(b),
         Build(b, h) \notin {Absent, Blank, Misnamed, Newer}
  PROVE  Build(b, h) \in DocValues(r)
<1>1. Build(b, h) \in HeldValues(b)
  BY BodiesSay
<1>2. Ordinary(b) = Ordinary(r) /\ (b.kind \in {"union", "nullable", "json"} => r.kind = b.kind)
  BY SameWords DEF SaysAsMuch
<1>3. CASE Build(b, h) \in Ordinary(b)
  BY <1>2, <1>3 DEF DocValues, Answers
<1>4. CASE Build(b, h) = Null /\ b.kind \in {"nullable", "json"}
  BY <1>2, <1>4 DEF DocValues, Answers
<1>5. CASE Build(b, h) = TagOnly /\ b.kind = "union"
  BY <1>2, <1>5 DEF DocValues
<1>6. Build(b, h) # Unset
  <2>1. h # Unset /\ Build(b, h) = Stated(b, h)
    BY DEF Build
  <2> QED
    BY <2>1 DEF Stated, ToWire, Blank, Misnamed, Unset
<1>7. Build(b, h) # Unknown
  <2>1. Build(b, h) = Stated(b, h)
    BY DEF Build
  <2>2. CASE b.kind \in Closed \/ b.kind = "arm"
    BY <2>1, <2>2 DEF Stated, ToWire, Closed, Misnamed, Unknown
  <2>3. CASE b.kind \notin Closed /\ b.kind # "arm"
    <3>1. Build(b, h) = h /\ Unknown \notin Ordinary(b)
      BY <2>1, <2>3, OrdinaryIsNoMark DEF Stated, Marks
    <3> QED
      BY <2>3, <3>1 DEF HeldValues, Settable, Newer, Null, Unset, TagOnly, Unknown
  <2> QED
    BY <2>2, <2>3
<1> QED
  BY <1>1, <1>3, <1>4, <1>5, <1>6, <1>7 DEF HeldValues, Settable

(* What is not named is as it was read.                                     *)
OfThisVersion(t, d, b) ==
  /\ "value" \notin b.names => b.held = AsInput(t.read, t.body, d.value)
  /\ "rest" \notin b.names => b.rest = d.rest
  /\ "asked" \notin b.names =>
       b.asked.stated = d.asked.stated /\ b.asked.events \subseteq d.asked.events

(* What is held was read of a version no later than the one that stands; a  *)
(* sparse update says only what is named, a replacement of the version that *)
(* stands all the rest as well, and one that can be conditional is.         *)
BuiltFrom(t, d, b) ==
  /\ b.seen <= d.version
  /\ t.way = "sparse" =>
       /\ "value" \notin b.names => b.held = Zero(t.body)
       /\ "rest" \notin b.names => b.rest = Unset
  /\ t.way = "replacing" =>
       /\ t.condition # {} /\ "version" \notin b.names => b.expected = {b.seen}
       /\ b.seen = d.version => OfThisVersion(t, d, b)

AskedOfStreams(t, asked) == asked.stated => AboutEvents(t)

Fits(t, d, b) ==
  /\ AskedOfStreams(t, b.asked)
  /\ b.pc # "idle" => BuiltFrom(t, d, b)
  /\ b.pc = "holding" => b.names = {}

EditInv ==
  /\ EditTypeOK
  /\ task.way = "replacing" => doc.value \in DocValues(task.read)
  /\ AskedOfStreams(task, doc.asked)
  /\ \A e \in Editors : Fits(task, doc, editor[e])

-----------------------------------------------------------------------------

LEMMA TasksAreSound ==
  ASSUME EditTypeOK
  PROVE  /\ IsTask(task) /\ MaxVersion \in Nat
         /\ \A e \in Editors : editor[e] \in Drafts(task)
BY TasksAssumption DEF EditTypeOK

LEMMA RestingFits ==
  ASSUME NEW t, NEW d
  PROVE  Resting \in Drafts(t) /\ Fits(t, d, Resting)
<1>1. 0 \in 0..MaxVersion
  BY TasksAssumption
<1>2. Resting \in Drafts(t)
  BY <1>1 DEF Resting, Drafts, HeldValues, Lists, Unasked
<1> QED
  BY <1>2 DEF Resting, Fits, AskedOfStreams, Unasked

(* A step of one editor that leaves the document alone.                     *)
LEMMA OneEditor ==
  ASSUME EditInv, NEW e \in Editors, NEW b \in Drafts(task), Fits(task, doc, b),
         editor' = [editor EXCEPT ![e] = b], UNCHANGED <<task, doc>>
  PROVE  EditInv'
<1>1. editor \in [Editors -> Drafts(task)]
  BY DEF EditInv, EditTypeOK
<1>2. editor' \in [Editors -> Drafts(task)]
  BY <1>1
<1>3. EditTypeOK'
  BY <1>2 DEF EditInv, EditTypeOK, Drafts, Lists
<1>4. ASSUME NEW x \in Editors PROVE Fits(task, doc, editor'[x])
  BY <1>1 DEF EditInv
<1>5. ASSUME NEW x \in Editors PROVE Fits(task, doc, editor[x])'
  BY <1>4 DEF Fits, AskedOfStreams, AboutEvents, BuiltFrom, OfThisVersion, AsInput
<1> QED
  BY <1>3, <1>5 DEF EditInv, AskedOfStreams, AboutEvents, DocValues, Answers

LEMMA InitFits ==
  ASSUME EditInit
  PROVE  EditInv
<1>1. IsTask(task) /\ 1 \in 1..MaxVersion
  BY TasksAssumption DEF EditInit
<1>2. editor \in [Editors -> Drafts(task)] /\ \A e \in Editors : Fits(task, doc, editor[e])
  BY RestingFits DEF EditInit
<1>3. CASE doc \in [value : Answers(task.read), rest : {Original}, version : {1}, asked : {Unasked},
                    ceiling : IF AboutEvents(task) THEN {Events} ELSE {{}}]
  <2>1. Unasked \in Lists /\ Unasked.stated = FALSE
    BY DEF Unasked, Lists
  <2>2. /\ doc.value \in Answers(task.read) /\ AskedOfStreams(task, doc.asked)
        /\ doc \in [value : Answers(task.read) \cup HeldValues(task.body), rest : {Original} \cup Editors,
                    version : 1..MaxVersion, asked : Lists, ceiling : SUBSET Events]
    BY <1>1, <1>3, <2>1 DEF AskedOfStreams
  <2> QED
    BY <1>2, <2>2 DEF EditInv, EditTypeOK, EditInit, DocValues
<1>4. CASE /\ AboutEvents(task)
           /\ doc \in [value : {Absent}, rest : {Original}, version : {1},
                       asked : {Asked(S) : S \in SUBSET Events}, ceiling : {Events}]
  <2>1. Absent \in Answers(task.read)
    BY <1>1, <1>4 DEF IsTask, Answers
  <2>2. doc.asked \in Lists /\ AskedOfStreams(task, doc.asked)
    <3>1. PICK S \in SUBSET Events : doc.asked = Asked(S)
      BY <1>4
    <3> QED
      BY <1>4, <3>1 DEF Asked, Lists, AskedOfStreams
  <2>3. doc \in [value : Answers(task.read) \cup HeldValues(task.body), rest : {Original} \cup Editors,
                 version : 1..MaxVersion, asked : Lists, ceiling : SUBSET Events]
    BY <1>1, <1>4, <2>1, <2>2
  <2> QED
    BY <1>2, <1>4, <2>1, <2>2, <2>3 DEF EditInv, EditTypeOK, EditInit, DocValues
<1> QED
  BY <1>3, <1>4 DEF EditInit

-----------------------------------------------------------------------------

(* A conversion holds what was read, and the version it was read at.        *)
LEMMA ReadingsFit ==
  ASSUME EditInv, NEW e \in Editors, ReadDocument(e)
  PROVE  EditInv'
<1> DEFINE replacement == [Resting EXCEPT !.pc = "holding", !.held = ToInput(doc.value), !.rest = doc.rest,
                                          !.seen = doc.version, !.expected = Condition,
                                          !.asked = doc.asked, !.ceiling = doc.ceiling]
           sparse == [Resting EXCEPT !.pc = "holding", !.held = Zero(task.body), !.seen = doc.version]
<1>1. IsTask(task) /\ EditTypeOK
  BY TasksAreSound DEF EditInv
<1>2. doc.version \in 1..MaxVersion /\ doc.version \in 0..MaxVersion /\ doc.version <= doc.version
  BY <1>1, TasksAssumption DEF EditTypeOK
<1>3. CASE task.way = "replacing"
  <2>1. IsCarried(task.read, task.body, doc.value)
    BY <1>1, <1>3, ValuesAreCarried DEF EditInv, IsTask
  <2>2. ToInput(doc.value) = AsInput(task.read, task.body, doc.value)
    BY DEF ToInput, AsInput
  <2>3. ToInput(doc.value) \in HeldValues(task.body)
    BY <2>1, <2>2 DEF IsCarried
  <2>4. Condition \in SUBSET (1..MaxVersion) /\ (task.condition # {} => Condition = {doc.version})
    BY <1>2 DEF Condition
  <2>5. replacement \in Drafts(task)
    BY <1>1, <1>2, <2>3, <2>4 DEF EditTypeOK, Drafts, Resting
  <2>6. Fits(task, doc, replacement)
    BY <1>2, <1>3, <2>2, <2>4 DEF Fits, BuiltFrom, OfThisVersion, Resting, AskedOfStreams, EditInv
  <2>7. editor' = [editor EXCEPT ![e] = replacement]
    BY <1>3 DEF ReadDocument
  <2> HIDE DEF replacement
  <2> QED
    BY <2>5, <2>6, <2>7, OneEditor DEF ReadDocument
<1>4. CASE task.way # "replacing"
  <2>1. sparse \in Drafts(task)
    BY <1>1, <1>2, ZeroIsHeld DEF Drafts, Resting, Lists, Unasked, IsTask
  <2>2. Fits(task, doc, sparse)
    BY <1>2, <1>4 DEF Fits, BuiltFrom, Resting, AskedOfStreams, Unasked
  <2>3. editor' = [editor EXCEPT ![e] = sparse]
    BY <1>4 DEF ReadDocument
  <2> HIDE DEF sparse
  <2> QED
    BY <2>1, <2>2, <2>3, OneEditor DEF ReadDocument
<1> QED
  BY <1>3, <1>4

LEMMA CompositionsFit ==
  ASSUME EditInv, NEW e \in Editors, Compose(e)
  PROVE  EditInv'
<1>1. PICK v \in Settable(task.body), r \in {Unset, e} :
        editor' = [editor EXCEPT ![e] = [Resting EXCEPT !.pc = "ready", !.held = v, !.rest = r,
                                                        !.names = {"value", "rest"}]]
  BY DEF Compose
<1> DEFINE b == [Resting EXCEPT !.pc = "ready", !.held = v, !.rest = r, !.names = {"value", "rest"}]
<1>2. b \in Drafts(task)
  BY RestingFits, <1>1 DEF Drafts, Resting, HeldValues
<1>3. doc.version \in Nat
  BY DEF EditInv, EditTypeOK
<1>4. Fits(task, doc, b)
  BY <1>3 DEF Fits, BuiltFrom, Resting, AskedOfStreams, Unasked, Compose
<1> HIDE DEF b
<1> QED
  BY <1>1, <1>2, <1>4, OneEditor DEF Compose, b

(* A change of what is held: it names what it changes, and leaves the rest. *)
ChangesOnly(t, a, b) ==
  /\ b.pc = "ready" /\ b.seen = a.seen /\ b.expected = a.expected
  /\ "version" \notin b.names
  /\ "value" \notin b.names => b.held = a.held
  /\ "rest" \notin b.names => b.rest = a.rest
  /\ "asked" \notin b.names =>
       b.asked.stated = a.asked.stated /\ b.asked.events \subseteq a.asked.events
  /\ AskedOfStreams(t, b.asked)

LEMMA ChangesFit ==
  ASSUME NEW t, NEW d, NEW a, NEW b, Fits(t, d, a), a.pc = "holding", ChangesOnly(t, a, b)
  PROVE  Fits(t, d, b)
<1>1. a.names = {} /\ BuiltFrom(t, d, a)
  BY DEF Fits
<1>2. BuiltFrom(t, d, b)
  <2>1. b.seen = d.version /\ t.way = "replacing" => OfThisVersion(t, d, b)
    BY <1>1 DEF BuiltFrom, ChangesOnly, OfThisVersion
  <2> QED
    BY <1>1, <2>1 DEF BuiltFrom, ChangesOnly
<1> QED
  BY <1>2 DEF Fits, ChangesOnly

LEMMA ChangedDocumentsFit ==
  ASSUME EditInv, NEW e \in Editors, ChangeDocument(e)
  PROVE  EditInv'
<1> DEFINE a == editor[e]
<1>1. a \in Drafts(task) /\ Fits(task, doc, a) /\ a.pc = "holding"
  BY TasksAreSound DEF EditInv, ChangeDocument
<1>2. ASSUME NEW b \in Drafts(task), ChangesOnly(task, a, b), editor' = [editor EXCEPT ![e] = b]
      PROVE  EditInv'
  BY <1>1, <1>2, ChangesFit, OneEditor DEF ChangeDocument
<1>3. AskedOfStreams(task, a.asked) /\ a.asked \in Lists
  BY <1>1 DEF Fits, Drafts
<1>4. editor[e] = a
  OBVIOUS
<1> HIDE DEF a
<1>5. ASSUME NEW v \in Settable(task.body),
             editor' = [editor EXCEPT ![e] = [@ EXCEPT !.pc = "ready", !.held = v, !.names = {"value"}]]
      PROVE  EditInv'
  <2> DEFINE b == [a EXCEPT !.pc = "ready", !.held = v, !.names = {"value"}]
  <2>1. b \in Drafts(task)
    BY <1>1 DEF Drafts, HeldValues
  <2>2. ChangesOnly(task, a, b)
    BY <1>1, <1>3 DEF ChangesOnly, Drafts
  <2>3. editor' = [editor EXCEPT ![e] = b]
    BY <1>4, <1>5
  <2> HIDE DEF b
  <2> QED
    BY <1>2, <2>1, <2>2, <2>3
<1>6. ASSUME editor' = [editor EXCEPT ![e] = [@ EXCEPT !.pc = "ready", !.rest = e, !.names = {"rest"}]]
      PROVE  EditInv'
  <2> DEFINE b == [a EXCEPT !.pc = "ready", !.rest = e, !.names = {"rest"}]
  <2>1. b \in Drafts(task)
    BY <1>1 DEF Drafts
  <2>2. ChangesOnly(task, a, b)
    BY <1>1, <1>3 DEF ChangesOnly, Drafts
  <2>3. editor' = [editor EXCEPT ![e] = b]
    BY <1>4, <1>6
  <2> HIDE DEF b
  <2> QED
    BY <1>2, <2>1, <2>2, <2>3
<1>7. ASSUME AboutEvents(task), NEW top \in SUBSET Events,
             editor' = [editor EXCEPT ![e] =
               [@ EXCEPT !.pc = "ready", !.ceiling = top, !.asked = CutToCeiling(editor[e].asked, top),
                         !.names = {"ceiling"}]]
      PROVE  EditInv'
  <2> DEFINE cut == CutToCeiling(a.asked, top)
             b == [a EXCEPT !.pc = "ready", !.ceiling = top, !.asked = cut, !.names = {"ceiling"}]
  <2>1. /\ cut \in Lists /\ cut.stated = a.asked.stated
        /\ cut.events \subseteq a.asked.events
    BY <1>3 DEF CutToCeiling, Asked, Lists
  <2>2. editor' = [editor EXCEPT ![e] = b]
    BY <1>1, <1>4, <1>7 DEF Drafts
  <2> HIDE DEF cut
  <2>3. b \in Drafts(task)
    BY <1>1, <2>1 DEF Drafts
  <2>4. ChangesOnly(task, a, b)
    BY <1>1, <1>7, <2>1 DEF ChangesOnly, Drafts, AskedOfStreams
  <2> HIDE DEF b
  <2> QED
    BY <1>2, <2>2, <2>3, <2>4
<1>8. ASSUME AboutEvents(task), NEW top \in SUBSET Events, NEW S \in SUBSET Events,
             editor' = [editor EXCEPT ![e] =
               [@ EXCEPT !.pc = "ready", !.ceiling = top, !.asked = Asked(S),
                         !.names = {"ceiling", "asked"}]]
      PROVE  EditInv'
  <2> DEFINE b == [a EXCEPT !.pc = "ready", !.ceiling = top, !.asked = Asked(S),
                            !.names = {"ceiling", "asked"}]
  <2>1. Asked(S) \in Lists
    BY DEF Asked, Lists
  <2>2. b \in Drafts(task)
    BY <1>1, <2>1 DEF Drafts
  <2>3. ChangesOnly(task, a, b)
    BY <1>1, <1>8 DEF ChangesOnly, Drafts, AskedOfStreams
  <2>4. editor' = [editor EXCEPT ![e] = b]
    BY <1>4, <1>8
  <2> HIDE DEF b
  <2> QED
    BY <1>2, <2>2, <2>3, <2>4
<1> QED
  BY <1>5, <1>6, <1>7, <1>8 DEF ChangeDocument

LEMMA GivenUpFit ==
  ASSUME EditInv, NEW e \in Editors, GiveUpCondition(e)
  PROVE  EditInv'
<1> DEFINE a == editor[e]
           b == [a EXCEPT !.expected = {}, !.names = a.names \cup {"version"}]
<1>1. a \in Drafts(task) /\ Fits(task, doc, a) /\ a.pc = "ready"
  BY TasksAreSound DEF EditInv, GiveUpCondition
<1>2. editor' = [editor EXCEPT ![e] = b] /\ UNCHANGED <<task, doc>>
  BY <1>1 DEF GiveUpCondition, Drafts
<1> HIDE DEF a
<1>3. b \in Drafts(task)
  BY <1>1 DEF Drafts
<1>4. /\ b.pc = "ready" /\ b.seen = a.seen /\ b.held = a.held /\ b.rest = a.rest /\ b.asked = a.asked
      /\ b.names = a.names \cup {"version"}
  BY <1>1 DEF Drafts
<1> HIDE DEF b
<1>5. BuiltFrom(task, doc, b)
  BY <1>1, <1>4 DEF Fits, BuiltFrom, OfThisVersion
<1>6. Fits(task, doc, b)
  BY <1>1, <1>4, <1>5 DEF Fits
<1> QED
  BY <1>2, <1>3, <1>6, OneEditor

LEMMA RefusalsFit ==
  ASSUME EditInv, NEW e \in Editors, Refuse(e)
  PROVE  EditInv'
BY RestingFits, OneEditor DEF Refuse

-----------------------------------------------------------------------------

(* What an accepted body makes of the document fits its task.               *)
LEMMA StoredFits ==
  ASSUME EditInv, NEW e \in Editors, doc.version < MaxVersion, Body(e) \notin {Blank, Misnamed, Newer}
  PROVE  /\ Stored(e) \in [value : Answers(task.read) \cup HeldValues(task.body),
                           rest : {Original} \cup Editors, version : 1..MaxVersion, asked : Lists,
                           ceiling : SUBSET Events]
         /\ task.way = "replacing" => Stored(e).value \in DocValues(task.read)
         /\ Stored(e).version = doc.version + 1
         /\ AskedOfStreams(task, Stored(e).asked)
<1> DEFINE b == editor[e]
           default == CHOOSE v \in Ordinary(task.read) : TRUE
           left == IF task.way # "replacing" THEN doc.value
                   ELSE IF task.read.kind \in Required THEN default ELSE Absent
           value == IF Body(e) = Absent THEN left ELSE Body(e)
           rest == IF b.rest = Unset THEN doc.rest ELSE b.rest
<1>1. IsTask(task) /\ EditTypeOK /\ b \in Drafts(task) /\ AskedOfStreams(task, b.asked)
  BY TasksAreSound DEF EditInv, Fits
<1>2. Stored(e) = [value |-> value, rest |-> rest, version |-> doc.version + 1,
                   asked |-> b.asked, ceiling |-> b.ceiling]
  BY DEF Stored
<1>3. /\ doc.version \in 1..MaxVersion /\ doc.value \in Answers(task.read) \cup HeldValues(task.body)
      /\ doc.rest \in {Original} \cup Editors
  BY <1>1 DEF EditTypeOK
<1>4. /\ b.held \in HeldValues(task.body) /\ b.asked \in Lists /\ b.ceiling \in SUBSET Events
      /\ b.rest \in {Unset, Original} \cup Editors
  BY <1>1 DEF Drafts
<1>5. Body(e) = Build(task.body, b.held)
  BY DEF Body
<1> HIDE DEF b
<1>6. ASSUME task.way = "replacing" PROVE left \in Answers(task.read)
  <2>1. CASE task.read.kind \in Required
    <3>1. Ordinary(task.read) # {}
      BY <1>1, <2>1, OrdinaryIsNoMark DEF IsTask, Required
    <3>2. default \in Ordinary(task.read)
      BY <3>1
    <3> QED
      BY <1>6, <2>1, <3>2 DEF Answers
  <2>2. CASE task.read.kind \notin Required
    BY <1>6, <2>2 DEF Answers
  <2> QED
    BY <2>1, <2>2
<1>7. left \in Answers(task.read) \cup HeldValues(task.body)
  BY <1>3, <1>6
<1>8. Body(e) # Absent => Body(e) \in HeldValues(task.body)
  BY <1>1, <1>4, <1>5, BodiesSay DEF IsTask
<1> HIDE DEF left
<1>9. value \in Answers(task.read) \cup HeldValues(task.body)
  BY <1>7, <1>8
<1>10. ASSUME task.way = "replacing" PROVE value \in DocValues(task.read)
  <2>1. Body(e) # Absent => Body(e) \in DocValues(task.read)
    BY <1>1, <1>4, <1>5, <1>10, BodiesAreKept DEF IsTask
  <2> QED
    BY <1>6, <1>10, <2>1 DEF DocValues
<1>11. rest \in {Original} \cup Editors
  BY <1>3, <1>4
<1>12. doc.version + 1 \in 1..MaxVersion
  BY <1>3, TasksAssumption
<1> HIDE DEF value, rest
<1> QED
  BY <1>1, <1>2, <1>4, <1>9, <1>10, <1>11, <1>12

(* A later version is none that anyone has read.                            *)
LEMMA LaterVersionsFit ==
  ASSUME NEW t, NEW d, NEW b, NEW d2, Fits(t, d, b), b.seen \in Nat, d.version \in Nat,
         d2.version = d.version + 1
  PROVE  Fits(t, d2, b)
<1>1. CASE b.pc = "idle"
  BY <1>1 DEF Fits
<1>2. CASE b.pc # "idle"
  <2>1. b.seen <= d.version /\ b.seen <= d2.version /\ b.seen # d2.version
    BY <1>2 DEF Fits, BuiltFrom
  <2>2. BuiltFrom(t, d2, b)
    BY <1>2, <2>1 DEF Fits, BuiltFrom
  <2> QED
    BY <2>2 DEF Fits
<1> QED
  BY <1>1, <1>2

LEMMA SentBodiesFit ==
  ASSUME EditInv, NEW e \in Editors, Send(e)
  PROVE  EditInv'
<1>1. editor' = [editor EXCEPT ![e] = Resting] /\ task' = task
  BY DEF Send
<1>2. CASE doc' = doc
  BY <1>1, <1>2, RestingFits, OneEditor
<1>3. CASE doc' # doc
  <2>1. doc' = Stored(e) /\ Body(e) \notin {Blank, Misnamed, Newer} /\ doc.version < MaxVersion
    BY <1>3 DEF Send
  <2>2. /\ doc' \in [value : Answers(task.read) \cup HeldValues(task.body),
                     rest : {Original} \cup Editors, version : 1..MaxVersion, asked : Lists,
                     ceiling : SUBSET Events]
        /\ task.way = "replacing" => doc'.value \in DocValues(task.read)
        /\ doc'.version = doc.version + 1
        /\ AskedOfStreams(task, doc'.asked)
    BY <2>1, StoredFits
  <2>3. editor \in [Editors -> Drafts(task)] /\ doc.version \in Nat /\ task \in Tasks
    BY DEF EditInv, EditTypeOK
  <2>4. editor' \in [Editors -> Drafts(task)]
    BY <1>1, <2>3, RestingFits
  <2>5. EditTypeOK'
    BY <1>1, <2>2, <2>3, <2>4 DEF EditTypeOK, Answers, Drafts, Lists
  <2>6. ASSUME NEW x \in Editors PROVE Fits(task, doc', editor'[x])
    <3>1. CASE x = e
      BY <1>1, <2>3, <3>1, RestingFits
    <3>2. CASE x # e
      <4>1. editor'[x] = editor[x] /\ Fits(task, doc, editor[x]) /\ editor[x].seen \in Nat
        BY <1>1, <2>3, <3>2 DEF EditInv, Drafts
      <4> QED
        BY <2>2, <2>3, <4>1, LaterVersionsFit
    <3> QED
      BY <3>1, <3>2
  <2>7. ASSUME NEW x \in Editors PROVE Fits(task, doc, editor[x])'
    BY <1>1, <2>6 DEF Fits, AskedOfStreams, AboutEvents, BuiltFrom, OfThisVersion, AsInput
  <2> QED
    BY <1>1, <2>2, <2>5, <2>7 DEF EditInv, AskedOfStreams, AboutEvents, DocValues, Answers
<1> QED
  BY <1>2, <1>3

LEMMA EditStepsFit ==
  ASSUME EditInv, [EditNext]_editVars
  PROVE  EditInv'
<1>1. CASE UNCHANGED editVars
  <2>1. task' = task /\ doc' = doc /\ editor' = editor
    BY <1>1 DEF editVars
  <2>2. EditTypeOK'
    BY <2>1 DEF EditInv, EditTypeOK, Answers, Drafts, Lists
  <2>3. ASSUME NEW x \in Editors PROVE Fits(task, doc, editor[x])'
    <3>1. Fits(task, doc, editor[x])
      BY DEF EditInv
    <3> QED
      BY <2>1, <3>1 DEF Fits, AskedOfStreams, AboutEvents, BuiltFrom, OfThisVersion, AsInput
  <2> QED
    BY <2>1, <2>2, <2>3 DEF EditInv, AskedOfStreams, AboutEvents, DocValues, Answers
<1>2. ASSUME NEW e \in Editors, ReadDocument(e) \/ Compose(e) \/ ChangeDocument(e)
                                \/ GiveUpCondition(e) \/ Refuse(e) \/ Send(e)
      PROVE  EditInv'
  BY <1>2, ReadingsFit, CompositionsFit, ChangedDocumentsFit, GivenUpFit, RefusalsFit, SentBodiesFit
<1> QED
  BY <1>1, <1>2 DEF EditNext

(* What is known while any number of editors read, change and send a         *)
(* document, in any order and with answers lost: the conversions of          *)
(* management_helpers.c carry what was read and not named, a body that can   *)
(* be conditional holds the version it was read at, and what the server      *)
(* holds is what a reading can answer.                                      *)
THEOREM EditInductive == EditSpec => []EditInv
<1>1. EditInit => EditInv
  BY InitFits
<1>2. EditInv /\ [EditNext]_editVars => EditInv'
  BY EditStepsFit
<1> QED
  BY <1>1, <1>2, PTL DEF EditSpec

(* No request of an operation of management_ops.c carries a word, a name or  *)
(* an arm the SDK does not know: the checks of the bodies' types refuse it,  *)
(* whatever the vocabulary, whether it was read or set.                     *)
THEOREM NothingUnknown == EditSpec => []NothingUnknownIsSent
<1>1. ASSUME EditInv PROVE NothingUnknownIsSent
  <2>1. SUFFICES ASSUME NEW e \in Editors, Sendable(e)
                 PROVE  /\ Body(e) \notin {Blank, Misnamed}
                        /\ Body(e) \in {Newer, TagOnly} => task.leaf[1] = "provider"
    BY DEF NothingUnknownIsSent
  <2>2. IsTask(task) /\ editor[e].held \in HeldValues(task.body)
    BY <1>1, TasksAreSound DEF EditInv, Drafts
  <2>3. ~Refused(e) /\ Body(e) = Build(task.body, editor[e].held)
    BY <2>1 DEF Sendable, Body
  <2>4. Body(e) \notin {Blank, Misnamed}
    BY <2>2, <2>3, BodiesSay DEF IsTask, Refused
  <2>5. Body(e) \in {Newer, TagOnly} => task.leaf[1] = "provider"
    BY <2>2, <2>3, BodiesSay DEF IsTask, Refused
  <2> QED
    BY <2>4, <2>5
<1> QED
  BY <1>1, EditInductive, PTL

(* What an accepted replacement says of a value that is not named.          *)
LEMMA ReplacementsKeepValues ==
  ASSUME NEW t, IsTask(t), t.way = "replacing", NEW w \in DocValues(t.read),
         ~(t.leaf[1] = "provider" /\ w = Newer),
         NEW h, h = AsInput(t.read, t.body, w), ~(t.checked /\ h = Unknown),
         ~(t.knownOnly /\ h \in {Unknown, Newer, TagOnly})
  PROVE  /\ NormOf(t.body, Build(t.body, h)) = NormOf(t.body, w)
         /\ Build(t.body, h) = Absent => t.read.kind \notin Required
<1>1. IsCarried(t.read, t.body, w)
  BY ValuesAreCarried DEF IsTask
<1>2. w # Newer
  <2>1. SUFFICES ASSUME w = Newer PROVE FALSE
    OBVIOUS
  <2>2. t.body.kind \in Closed \cup {"union"} /\ h = IF t.body.kind = "union" THEN TagOnly ELSE Unknown
    BY <1>1, <2>1 DEF IsCarried
  <2>3. CASE t.body.kind = "union"
    BY <2>1, <2>2, <2>3 DEF IsTask
  <2>4. CASE t.body.kind # "union"
    BY <2>2, <2>4 DEF IsTask
  <2> QED
    BY <2>3, <2>4
<1> QED
  BY <1>1, <1>2 DEF IsCarried

(* An accepted body keeps what it does not name.                            *)
LEMMA AcceptedBodiesKeepTheRest ==
  ASSUME EditInv, NEW e \in Editors, Send(e), doc'.version # doc.version,
         \/ task.way = "sparse"
         \/ editor[e].seen = doc.version
         \/ task.condition # {} /\ "version" \notin editor[e].names,
         task.way # "composed"
  PROVE  /\ "value" \notin editor[e].names /\ ~(task.leaf[1] = "provider" /\ doc.value = Newer) =>
              Norm(doc'.value) = Norm(doc.value)
         /\ "rest" \notin editor[e].names => doc'.rest = doc.rest
         /\ doc.asked.stated /\ "asked" \notin editor[e].names =>
              doc'.asked.stated /\ doc'.asked.events \subseteq doc.asked.events
<1> DEFINE b == editor[e]
           default == CHOOSE v \in Ordinary(task.read) : TRUE
           left == IF task.way # "replacing" THEN doc.value
                   ELSE IF task.read.kind \in Required THEN default ELSE Absent
<1>1. IsTask(task) /\ b \in Drafts(task) /\ Fits(task, doc, b) /\ AskedOfStreams(task, doc.asked)
  BY TasksAreSound DEF EditInv
<1>2. doc' = Stored(e) /\ b.expected \subseteq {doc.version} /\ b.pc = "ready" /\ ~Refused(e)
  BY DEF Send, Sendable
<1>3. /\ doc'.value = IF Body(e) = Absent THEN left ELSE Body(e)
      /\ doc'.rest = IF b.rest = Unset THEN doc.rest ELSE b.rest
      /\ doc'.asked = b.asked
  BY <1>2 DEF Stored
<1>4. Body(e) = Build(task.body, b.held)
  BY DEF Body
<1>5. BuiltFrom(task, doc, b)
  BY <1>1, <1>2 DEF Fits
<1>6. /\ ~(task.checked /\ b.held = Unknown)
      /\ ~(task.knownOnly /\ b.held \in {Unknown, Newer, TagOnly})
  BY <1>2 DEF Refused
<1>7. editor[e] = b
  OBVIOUS
<1> HIDE DEF b
<1>8. CASE task.way = "sparse"
  <2>1. ASSUME "value" \notin b.names PROVE doc'.value = doc.value
    <3>1. b.held = Unset
      BY <1>1, <1>5, <1>8, <2>1 DEF BuiltFrom, IsTask, Zero, Required
    <3>2. Body(e) = Absent
      BY <1>4, <3>1 DEF Build
    <3> QED
      BY <1>3, <1>8, <3>2
  <2>2. "rest" \notin b.names => doc'.rest = doc.rest
    BY <1>3, <1>5, <1>8 DEF BuiltFrom
  <2>3. ~doc.asked.stated
    BY <1>1, <1>8 DEF AskedOfStreams, IsTask
  <2> QED
    BY <1>7, <2>1, <2>2, <2>3 DEF Norm
<1>9. CASE task.way = "replacing"
  <2>1. b.seen = doc.version
    BY <1>2, <1>5, <1>7, <1>9 DEF BuiltFrom
  <2>2. OfThisVersion(task, doc, b)
    BY <1>5, <1>9, <2>1 DEF BuiltFrom
  <2>3. ASSUME "value" \notin b.names, ~(task.leaf[1] = "provider" /\ doc.value = Newer)
        PROVE  Norm(doc'.value) = Norm(doc.value)
    <3>1. doc.value \in DocValues(task.read)
      BY <1>9 DEF EditInv
    <3>2. b.held = AsInput(task.read, task.body, doc.value)
      BY <2>2, <2>3 DEF OfThisVersion
    <3>3. /\ NormOf(task.body, Body(e)) = NormOf(task.body, doc.value)
          /\ Body(e) = Absent => task.read.kind \notin Required
      BY <1>1, <1>4, <1>6, <1>9, <2>3, <3>1, <3>2, ReplacementsKeepValues
    <3>4. doc'.value = Body(e)
      BY <1>3, <1>9, <3>3
    <3> QED
      BY <3>3, <3>4 DEF Norm, NormOf
  <2>4. "rest" \notin b.names => doc'.rest = doc.rest
    BY <1>3, <2>2 DEF OfThisVersion
  <2>5. "asked" \notin b.names =>
          doc'.asked.stated = doc.asked.stated /\ doc'.asked.events \subseteq doc.asked.events
    BY <1>3, <2>2 DEF OfThisVersion
  <2> QED
    BY <1>7, <2>3, <2>4, <2>5
<1> QED
  BY <1>1, <1>8, <1>9 DEF IsTask

(* An accepted edit changes what it names and nothing else, whatever other   *)
(* editors had accepted since it was read: the conversions and conditions of *)
(* management_helpers.c, for every task, any editors and any events.        *)
THEOREM EditsKept == EditSpec => EditsKeepTheRest
<1> DEFINE KeepsTheRest(e) ==
       LET b == editor[e]
           accepted == doc'.version # doc.version /\ editor'[e] # b
           coarse == task.leaf[1] = "provider" /\ doc.value = Newer
           answerable == \/ task.way = "sparse"
                         \/ b.seen = doc.version
                         \/ task.condition # {} /\ "version" \notin b.names
       IN accepted /\ answerable /\ task.way # "composed" =>
            /\ "value" \notin b.names /\ ~coarse => Norm(doc'.value) = Norm(doc.value)
            /\ "rest" \notin b.names => doc'.rest = doc.rest
            /\ doc.asked.stated /\ "asked" \notin b.names =>
                 doc'.asked.stated /\ doc'.asked.events \subseteq doc.asked.events
<1>1. ASSUME EditInv, [EditNext]_editVars PROVE [\A e \in Editors : KeepsTheRest(e)]_editVars
  <2>1. SUFFICES ASSUME NEW e \in Editors, doc'.version # doc.version, editor'[e] # editor[e]
                 PROVE  KeepsTheRest(e)
    OBVIOUS
  <2>2. PICK x \in Editors : Send(x)
    BY <1>1, <2>1 DEF EditNext, editVars, ReadDocument, Compose, ChangeDocument, GiveUpCondition, Refuse
  <2>3. x = e
    BY <1>1, <2>1, <2>2 DEF Send, EditInv, EditTypeOK
  <2> QED
    BY <1>1, <2>1, <2>2, <2>3, AcceptedBodiesKeepTheRest
<1> QED
  BY <1>1, EditInductive, PTL DEF EditSpec, EditsKeepTheRest
=============================================================================
