-------------------------- MODULE OidcRefresh_proofs --------------------------
(***************************************************************************)
(* axiam_oidc_refresh() for any number of threads, tokens and addresses:   *)
(* the heap of shared flights is sound, and the registry, the reference    *)
(* counts and the one condition variable implement the coalesced call of   *)
(* CoalescedCall.  Both rest on one inductive invariant.                   *)
(***************************************************************************)
EXTENDS OidcRefresh, FiniteSetTheorems, SequenceTheorems, TLAPS

Leading(t) == pc[t] \in {"leading", "landed"}

(* A thread holds a node exactly while it is inside the call. *)
IdleHoldNothing == \A t \in Threads : pc[t] = "idle" <=> ptr[t] = Null

(* The registry links exactly the flights still in the air, each once, and *)
(* one at most for a token.                                                *)
RegistryIsSound ==
  /\ IsInjective(flights)
  /\ \A a \in Addresses : a \in ToSet(flights) <=> heap[a].live /\ ~heap[a].done
  /\ \A a, b \in ToSet(flights) : heap[a].key = heap[b].key => a = b

(* A linked flight has one leader, which will unlink it and wake its       *)
(* followers: none is left in the registry by a thread that has gone.      *)
EveryFlightIsLed ==
  /\ \A t \in Threads : Leading(t) => ptr[t] \in ToSet(flights)
  /\ \A t, u \in Threads : Leading(t) /\ Leading(u) /\ ptr[t] = ptr[u] => t = u
  /\ \A a \in ToSet(flights) : \E t \in Threads : Leading(t) /\ ptr[t] = a

(* What a node says is what the history says of the flight at its address. *)
LogIsTrue ==
  \A a \in Addresses : heap[a].live =>
    /\ serial[a] \in 1..Len(log)
    /\ log[serial[a]].key = heap[a].key
    /\ log[serial[a]].outcome = IF heap[a].done THEN heap[a].kind ELSE "pending"

(* Two nodes alive are two flights, however addresses are recycled. *)
SerialsAreDistinct ==
  \A a, b \in Addresses :
    heap[a].live /\ heap[b].live /\ serial[a] = serial[b] => a = b

IInv ==
  /\ TypeOK
  /\ ReferencesCountHolders
  /\ FollowersKeepTheirToken
  /\ IdleHoldNothing
  /\ RegistryIsSound
  /\ EveryFlightIsLed
  /\ LogIsTrue
  /\ SerialsAreDistinct

-------------------------------------------------------------------------------
(* The registry as a sequence *)

(* The library's Min is the least element of a set of numbers. *)
LEMMA LeastElement ==
  ASSUME NEW S \in SUBSET Nat, S # {}
  PROVE  Min(S) \in S /\ \A i \in S : Min(S) <= i
<1> DEFINE R == {ss \in Nat \X Nat : ss[1] < ss[2]}
<1>1. IsWellFoundedOn(R, Nat)
  BY NatLessThanWellFounded DEF OpToRel
<1> HIDE DEF R
<1>2. PICK x \in S : \A y \in S : ~(<<y, x>> \in R)
  BY <1>1, WFMin
<1>3. ASSUME NEW y \in S PROVE x <= y
  <2>1. <<y, x>> \in Nat \X Nat /\ ~(<<y, x>> \in R)
    BY <1>2
  <2> QED
    BY <2>1 DEF R
<1> QED
  BY <1>3 DEF Min

(* Linking a node at the head adds it to the nodes linked. *)
LEMMA LinkAtHead ==
  ASSUME NEW S, NEW s \in Seq(S), NEW a \in S, IsInjective(s), a \notin ToSet(s)
  PROVE  /\ <<a>> \o s \in Seq(S)
         /\ IsInjective(<<a>> \o s)
         /\ ToSet(<<a>> \o s) = ToSet(s) \cup {a}
<1> DEFINE r == <<a>> \o s
<1>1. /\ <<a>> \in Seq(S) /\ Len(<<a>>) = 1 /\ <<a>>[1] = a
      /\ Len(s) \in Nat /\ DOMAIN s = 1..Len(s)
  BY LenProperties
<1>2. /\ r \in Seq(S)
      /\ Len(r) = 1 + Len(s)
      /\ \A i \in 1..(1 + Len(s)) : r[i] = IF i <= 1 THEN <<a>>[i] ELSE s[i - 1]
  BY <1>1, ConcatProperties
<1> HIDE DEF r
<1>3. DOMAIN r = 1..(1 + Len(s))
  BY <1>2, LenProperties
<1>4. r[1] = a /\ \A i \in 1..Len(s) : i + 1 \in DOMAIN r /\ r[i + 1] = s[i]
  BY <1>1, <1>2, <1>3
<1>5. \A j \in DOMAIN r : j = 1 \/ (j - 1 \in 1..Len(s) /\ r[j] = s[j - 1])
  BY <1>1, <1>2, <1>3
<1>6. ToSet(r) = ToSet(s) \cup {a}
  BY <1>1, <1>3, <1>4, <1>5 DEF ToSet
<1>7. ASSUME NEW i \in DOMAIN r, NEW j \in DOMAIN r, r[i] = r[j] PROVE i = j
  <2>1. CASE i = 1 \/ j = 1
    BY <1>1, <1>3, <1>4, <1>5, <1>7, <2>1 DEF ToSet
  <2>2. CASE i # 1 /\ j # 1
    BY <1>1, <1>3, <1>5, <1>7, <2>2 DEF IsInjective
  <2> QED
    BY <2>1, <2>2
<1> QED
  BY <1>2, <1>6, <1>7 DEF r, IsInjective

(* Unlinking a node takes it, and no other, out of the nodes linked. *)
LEMMA Unlink ==
  ASSUME NEW S, NEW s \in Seq(S), NEW a \in ToSet(s), IsInjective(s)
  PROVE  /\ RemoveFirst(s, a) \in Seq(S)
         /\ IsInjective(RemoveFirst(s, a))
         /\ ToSet(RemoveFirst(s, a)) = ToSet(s) \ {a}
<1>1. /\ Len(s) \in Nat /\ DOMAIN s = 1..Len(s)
      /\ \A i \in 1..Len(s) : s[i] \in S
  BY LenProperties, ElementOfSeq
<1>2. PICK j \in 1..Len(s) :
        /\ s[j] = a
        /\ RemoveFirst(s, a) = SubSeq(s, 1, j - 1) \o SubSeq(s, j + 1, Len(s))
  <2> DEFINE I == {i \in 1..Len(s) : s[i] = a}
  <2>1. I \in SUBSET Nat /\ I # {}
    BY <1>1 DEF ToSet
  <2>2. Min(I) \in I
    BY <2>1, LeastElement
  <2> QED
    BY <2>2 DEF RemoveFirst, RemoveAt, SelectInSeq
<1> DEFINE front == SubSeq(s, 1, j - 1)
           back == SubSeq(s, j + 1, Len(s))
           r == front \o back
<1>3. /\ front \in Seq(S) /\ Len(front) = j - 1
      /\ \A i \in 1..(j - 1) : front[i] = s[i]
  <2>1. \A i \in 1..(j - 1) : s[i] \in S
    BY <1>1
  <2>2. /\ front \in Seq(S) /\ Len(front) = IF 1 <= j - 1 THEN j - 1 - 1 + 1 ELSE 0
        /\ \A i \in 1..(j - 1 - 1 + 1) : front[i] = s[1 + i - 1]
    BY <1>1, <2>1, SubSeqProperties
  <2> QED
    BY <1>1, <2>2
<1>4. /\ back \in Seq(S) /\ Len(back) = Len(s) - j
      /\ \A i \in 1..(Len(s) - j) : back[i] = s[i + j]
  <2>1. \A i \in (j + 1)..Len(s) : s[i] \in S
    BY <1>1
  <2>2. /\ back \in Seq(S)
        /\ Len(back) = IF j + 1 <= Len(s) THEN Len(s) - (j + 1) + 1 ELSE 0
        /\ \A i \in 1..(Len(s) - (j + 1) + 1) : back[i] = s[(j + 1) + i - 1]
    BY <1>1, <2>1, SubSeqProperties
  <2> HIDE DEF front, back, r
  <2>3. /\ Len(s) - (j + 1) + 1 = Len(s) - j
        /\ ~(j + 1 <= Len(s)) => Len(s) - j = 0
    <3> DEFINE n == Len(s)
    <3>1. n \in Nat /\ j \in 1..n
      BY <1>1
    <3> HIDE DEF n
    <3>2. /\ n - (j + 1) + 1 = n - j
          /\ ~(j + 1 <= n) => n - j = 0
      BY <3>1
    <3> QED
      BY <3>2 DEF n
  <2>5. Len(back) = Len(s) - j
    BY <2>2, <2>3
  <2>4. ASSUME NEW i \in 1..(Len(s) - j) PROVE back[i] = s[i + j]
    <3>1. back[i] = s[(j + 1) + i - 1]
      BY <2>2, <2>3
    <3>2. (j + 1) + i - 1 = i + j
      BY <1>1
    <3> QED
      BY <3>1, <3>2
  <2> QED
    BY <2>2, <2>4, <2>5
<1> HIDE DEF front, back
<1>5. /\ r \in Seq(S)
      /\ Len(r) = Len(s) - 1
      /\ \A i \in 1..(Len(s) - 1) : r[i] = IF i <= j - 1 THEN front[i] ELSE back[i - (j - 1)]
  <2>1. Len(front) + Len(back) = Len(s) - 1
    BY <1>1, <1>3, <1>4
  <2>2. /\ r \in Seq(S)
        /\ Len(r) = Len(front) + Len(back)
        /\ \A i \in 1..(Len(front) + Len(back)) :
             r[i] = IF i <= Len(front) THEN front[i] ELSE back[i - Len(front)]
    BY <1>3, <1>4, ConcatProperties
  <2> HIDE DEF r
  <2> QED
    BY <1>3, <2>1, <2>2
<1> HIDE DEF r
<1>6. DOMAIN r = 1..(Len(s) - 1)
  BY <1>5, LenProperties
<1>7. \A i \in DOMAIN r : r[i] = IF i < j THEN s[i] ELSE s[i + 1]
  <2> SUFFICES ASSUME NEW i \in 1..(Len(s) - 1)
               PROVE  r[i] = IF i < j THEN s[i] ELSE s[i + 1]
    BY <1>6
  <2>1. CASE i < j
    BY <1>1, <1>3, <1>5, <2>1
  <2>2. CASE ~(i < j)
    <3>1. /\ i - (j - 1) \in 1..(Len(s) - j)
          /\ i - (j - 1) + j = i + 1
          /\ ~(i <= j - 1)
      BY <1>1, <2>2
    <3> QED
      BY <1>4, <1>5, <2>2, <3>1
  <2> QED
    BY <2>1, <2>2
<1>8. IsInjective(r)
  BY <1>1, <1>6, <1>7 DEF IsInjective
<1>9. ASSUME NEW x PROVE x \in ToSet(r) <=> x \in ToSet(s) /\ x # a
  <2>1. ASSUME x \in ToSet(r) PROVE x \in ToSet(s) /\ x # a
    BY <1>1, <1>2, <1>6, <1>7, <2>1 DEF ToSet, IsInjective
  <2>2. ASSUME NEW i \in 1..Len(s), s[i] # a PROVE s[i] \in ToSet(r)
    <3>1. CASE i < j
      BY <1>1, <1>6, <1>7, <3>1 DEF ToSet
    <3>2. CASE i > j
      <4>1. i - 1 \in DOMAIN r /\ r[i - 1] = s[i]
        BY <1>1, <1>6, <1>7, <3>2
      <4> QED
        BY <4>1 DEF ToSet
    <3> QED
      BY <1>1, <1>2, <2>2, <3>1, <3>2
  <2> QED
    BY <1>1, <2>1, <2>2 DEF ToSet
<1> QED
  BY <1>2, <1>5, <1>8, <1>9 DEF r, front, back

-------------------------------------------------------------------------------
(* Who holds a node *)

(* A node's holders can be counted.                                        *)
LEMMA HoldersFinite ==
  ASSUME NEW a
  PROVE  /\ IsFiniteSet(Holders(a))
         /\ Cardinality(Holders(a)) \in Nat
         /\ Cardinality(Holders(a)) = 0 <=> Holders(a) = {}
<1>1. Holders(a) \subseteq Threads
  BY DEF Holders
<1>2. IsFiniteSet(Holders(a))
  BY <1>1, ThreadsAssumption, FS_Subset
<1> QED
  BY <1>2, FS_CardinalityType, FS_EmptySet

(* A thread that takes a node's address is one holder more of that node,   *)
(* and of no other.                                                        *)
LEMMA HoldersGain ==
  ASSUME TypeOK, NEW t \in Threads, NEW a \in Addresses, ptr[t] = Null,
         ptr' = [ptr EXCEPT ![t] = a]
  PROVE  /\ Cardinality(Holders(a)') = Cardinality(Holders(a)) + 1
         /\ Holders(a)' # {}
         /\ \A b \in Addresses \ {a} : Holders(b)' = Holders(b)
<1>1. Holders(a)' = Holders(a) \cup {t} /\ t \notin Holders(a)
  BY NullAssumption DEF TypeOK, Holders
<1>2. \A b \in Addresses \ {a} : Holders(b)' = Holders(b)
  BY NullAssumption DEF TypeOK, Holders
<1>3. Cardinality(Holders(a) \cup {t}) = Cardinality(Holders(a)) + 1
  BY <1>1, HoldersFinite, FS_AddElement
<1> QED
  BY <1>1, <1>2, <1>3

(* A thread that leaves is one holder less, and the last one leaves none.  *)
LEMMA HoldersLose ==
  ASSUME TypeOK, NEW t \in Threads, NEW a \in Addresses, ptr[t] = a,
         ptr' = [ptr EXCEPT ![t] = Null]
  PROVE  /\ Cardinality(Holders(a)) \in Nat \ {0}
         /\ Cardinality(Holders(a)') = Cardinality(Holders(a)) - 1
         /\ Holders(a)' = {} <=> Cardinality(Holders(a)) = 1
         /\ \A b \in Addresses \ {a} : Holders(b)' = Holders(b)
<1>1. Holders(a)' = Holders(a) \ {t} /\ t \in Holders(a)
  BY NullAssumption DEF TypeOK, Holders
<1>2. \A b \in Addresses \ {a} : Holders(b)' = Holders(b)
  BY NullAssumption DEF TypeOK, Holders
<1>3. Cardinality(Holders(a)) \in Nat \ {0}
  BY <1>1, HoldersFinite
<1>4. /\ IsFiniteSet(Holders(a) \ {t})
      /\ Cardinality(Holders(a) \ {t}) = Cardinality(Holders(a)) - 1
  BY <1>1, HoldersFinite, FS_RemoveElement
<1>5. Cardinality(Holders(a) \ {t}) = 0 <=> Holders(a) \ {t} = {}
  BY <1>4, FS_EmptySet
<1> QED
  BY <1>1, <1>2, <1>3, <1>4, <1>5

-------------------------------------------------------------------------------
(* The inductive invariant *)

(* Nothing is linked, held or logged before the first call.               *)
LEMMA InitEstablishes == Init => IInv
<1> SUFFICES ASSUME Init PROVE IInv
  OBVIOUS
<1> USE DEF Init
<1>1. TypeOK
  <2>1. heap \in [Addresses -> [live : BOOLEAN, key : Tokens \cup {Null}, done : BOOLEAN,
                                refs : Nat, kind : Kinds]]
    BY KindsAssumption DEF Freed
  <2>2. flights \in Seq(Addresses) /\ log \in Seq([key : Tokens, outcome : Kinds \cup {"pending"}])
    OBVIOUS
  <2>3. /\ count \in Nat
        /\ pc \in [Threads -> {"idle", "leading", "landed", "asleep", "woken"}]
        /\ ptr \in [Threads -> Addresses \cup {Null}]
        /\ token \in [Threads -> Tokens \cup {Null}]
        /\ local \in [Threads -> Kinds]
        /\ got \in [Threads -> Kinds \cup {"none"}]
        /\ calls \in [Threads -> 0..MaxCalls]
        /\ serial \in [Addresses -> Nat]
    BY KindsAssumption, MaxCallsAssumption
  <2> QED
    BY <2>1, <2>2, <2>3 DEF TypeOK
<1>2. ToSet(flights) = {} /\ IsInjective(flights)
  BY DEF ToSet, IsInjective
<1>3. ReferencesCountHolders
  <2>1. \A a \in Addresses : Holders(a) = {} /\ heap[a] = Freed
    BY NullAssumption DEF Holders
  <2>2. \A a \in Addresses : Cardinality(Holders(a)) = 0
    BY <2>1, FS_EmptySet
  <2> QED
    BY <2>1, <2>2 DEF ReferencesCountHolders, Freed
<1>4. FollowersKeepTheirToken /\ IdleHoldNothing
  BY DEF FollowersKeepTheirToken, IdleHoldNothing
<1>5. RegistryIsSound /\ EveryFlightIsLed /\ LogIsTrue /\ SerialsAreDistinct
  BY <1>2 DEF RegistryIsSound, EveryFlightIsLed, LogIsTrue, SerialsAreDistinct, Leading, Freed
<1> QED
  BY <1>1, <1>3, <1>4, <1>5 DEF IInv

(* A thread inside the call holds a node that lives.                       *)
LEMMA HeldNodesLive ==
  ASSUME IInv, NEW t \in Threads, pc[t] # "idle"
  PROVE  /\ ptr[t] \in Addresses
         /\ heap[ptr[t]].live
         /\ heap[ptr[t]].key = token[t]
         /\ heap[ptr[t]].refs \in Nat \ {0}
<1>1. ptr[t] \in Addresses
  BY DEF IInv, TypeOK, IdleHoldNothing
<1>2. t \in Holders(ptr[t])
  BY DEF Holders
<1>3. heap[ptr[t]].live /\ heap[ptr[t]].refs = Cardinality(Holders(ptr[t]))
  BY <1>1, <1>2 DEF IInv, ReferencesCountHolders
<1>4. Cardinality(Holders(ptr[t])) \in Nat \ {0}
  BY <1>2, HoldersFinite
<1> QED
  BY <1>1, <1>3, <1>4 DEF IInv, FollowersKeepTheirToken

(* The steps that touch neither the heap nor the registry: where a thread  *)
(* is changes, but not whether it leads or is inside the call.             *)
LEMMA QuietStep ==
  ASSUME IInv, TypeOK', UNCHANGED <<flights, heap, ptr, log, serial>>,
         NEW u \in Threads,
         \A t \in Threads \ {u} : pc'[t] = pc[t],
         pc'[u] = "idle" <=> pc[u] = "idle",
         Leading(u)' <=> Leading(u),
         \A t \in Threads : pc[t] # "idle" => token'[t] = token[t]
  PROVE  IInv'
<1>1. \A a : Holders(a)' = Holders(a)
  BY DEF Holders
<1>2. ReferencesCountHolders'
  BY <1>1 DEF IInv, ReferencesCountHolders
<1>3. \A t \in Threads : pc'[t] = "idle" <=> pc[t] = "idle"
  OBVIOUS
<1>4. \A t \in Threads : Leading(t)' <=> Leading(t)
  BY DEF Leading
<1>5. FollowersKeepTheirToken' /\ IdleHoldNothing'
  BY <1>3 DEF IInv, FollowersKeepTheirToken, IdleHoldNothing
<1>6. EveryFlightIsLed'
  BY <1>4 DEF IInv, EveryFlightIsLed
<1>7. RegistryIsSound' /\ LogIsTrue' /\ SerialsAreDistinct'
  BY DEF IInv, RegistryIsSound, LogIsTrue, SerialsAreDistinct
<1> QED
  BY <1>2, <1>5, <1>6, <1>7 DEF IInv

(* Linked nodes are addresses, and at most one of them is the token's. *)
LEMMA LinkedNodes ==
  ASSUME IInv
  PROVE  /\ ToSet(flights) \subseteq Addresses
         /\ \A k : \A a, b \in Linked(k) : a = b
<1>1. ToSet(flights) \subseteq Addresses
  BY LenProperties, ElementOfSeq DEF IInv, TypeOK, ToSet
<1> QED
  BY <1>1 DEF IInv, RegistryIsSound, Linked

(* What a node may be. *)
Nodes == [live : BOOLEAN, key : Tokens \cup {Null}, done : BOOLEAN, refs : Nat, kind : Kinds]

(* A follower adds itself to the holders of the token's own flight.        *)
LEMMA FollowPreserves ==
  ASSUME IInv, NEW t \in Threads, NEW k \in Tokens, Follow(t, k)
  PROVE  IInv'
<1> USE DEF Follow, Call, history
<1>1. PICK a \in Linked(k) :
        /\ heap' = [heap EXCEPT ![a].refs = @ + 1]
        /\ ptr' = [ptr EXCEPT ![t] = a]
  OBVIOUS
<1>2. /\ a \in ToSet(flights) /\ a \in Addresses
      /\ heap[a].key = k /\ heap[a].live /\ ~heap[a].done
      /\ heap[a] \in Nodes
  BY LinkedNodes DEF Linked, IInv, RegistryIsSound, TypeOK, Nodes
<1>3. /\ heap'[a] = [heap[a] EXCEPT !.refs = @ + 1]
      /\ \A b \in Addresses \ {a} : heap'[b] = heap[b]
  BY <1>1, <1>2 DEF IInv, TypeOK
<1>4. /\ heap'[a] \in Nodes
      /\ heap'[a].refs = heap[a].refs + 1
      /\ \A b \in Addresses : /\ heap'[b].live = heap[b].live
                              /\ heap'[b].key = heap[b].key
                              /\ heap'[b].done = heap[b].done
                              /\ heap'[b].kind = heap[b].kind
  BY <1>2, <1>3 DEF Nodes
<1>5. TypeOK'
  <2>1. heap' \in [Addresses -> Nodes]
    BY <1>1, <1>2, <1>3, <1>4 DEF IInv, TypeOK, Nodes
  <2>2. /\ pc' \in [Threads -> {"idle", "leading", "landed", "asleep", "woken"}]
        /\ ptr' \in [Threads -> Addresses \cup {Null}]
        /\ token' \in [Threads -> Tokens \cup {Null}]
        /\ got' \in [Threads -> Kinds \cup {"none"}]
        /\ calls' \in [Threads -> 0..MaxCalls]
    BY <1>1, <1>2, MaxCallsAssumption DEF IInv, TypeOK
  <2> QED
    BY <2>1, <2>2 DEF IInv, TypeOK, Nodes
<1>6. ptr[t] = Null
  BY DEF IInv, IdleHoldNothing
<1>7. ReferencesCountHolders'
  <2>1. /\ Cardinality(Holders(a)') = Cardinality(Holders(a)) + 1
        /\ Holders(a)' # {}
        /\ \A b \in Addresses \ {a} : Holders(b)' = Holders(b)
    BY <1>1, <1>2, <1>6, HoldersGain DEF IInv
  <2>2. ASSUME NEW b \in Addresses
        PROVE  heap[b].refs = Cardinality(Holders(b)) /\ (heap[b].live <=> Holders(b) # {})
    BY DEF IInv, ReferencesCountHolders
  <2>3. /\ heap'[a].refs = Cardinality(Holders(a)')
        /\ heap'[a].live <=> Holders(a)' # {}
    BY <1>2, <1>4, <2>1, <2>2
  <2>4. ASSUME NEW b \in Addresses \ {a}
        PROVE  /\ heap'[b].refs = Cardinality(Holders(b)')
               /\ heap'[b].live <=> Holders(b)' # {}
    BY <1>3, <2>1, <2>2
  <2> QED
    BY <2>3, <2>4 DEF ReferencesCountHolders
<1>8. /\ \A u \in Threads \ {t} : pc'[u] = pc[u] /\ ptr'[u] = ptr[u] /\ token'[u] = token[u]
      /\ pc'[t] = "asleep" /\ ptr'[t] = a /\ token'[t] = k
  BY <1>1 DEF IInv, TypeOK
<1>9. FollowersKeepTheirToken' /\ IdleHoldNothing'
  <2>1. ASSUME NEW u \in Threads, pc[u] # "idle" PROVE ptr[u] \in Addresses
    BY <2>1, HeldNodesLive
  <2> QED
    BY <1>2, <1>4, <1>8, <2>1, NullAssumption
       DEF IInv, FollowersKeepTheirToken, IdleHoldNothing
<1>10. RegistryIsSound' /\ LogIsTrue' /\ SerialsAreDistinct'
  <2>1. ToSet(flights) \subseteq Addresses
    BY LinkedNodes
  <2> QED
    BY <1>4, <2>1 DEF IInv, RegistryIsSound, LogIsTrue, SerialsAreDistinct
<1>11. EveryFlightIsLed'
  <2>1. \A u \in Threads : Leading(u)' <=> Leading(u) /\ u # t
    BY <1>8 DEF Leading
  <2>2. ~Leading(t)
    BY DEF Leading
  <2> QED
    BY <1>8, <2>1, <2>2 DEF IInv, EveryFlightIsLed
<1> QED
  BY <1>5, <1>7, <1>9, <1>10, <1>11 DEF IInv

(* A leader opens its flight at an address nobody holds.                   *)
LEMMA LeadPreserves ==
  ASSUME IInv, NEW t \in Threads, NEW k \in Tokens, Lead(t, k)
  PROVE  IInv'
<1> USE DEF Lead, Call
<1> DEFINE entry == [key |-> k, outcome |-> "pending"]
           Entries == [key : Tokens, outcome : Kinds \cup {"pending"}]
<1>1. PICK a \in Addresses :
        /\ ~heap[a].live
        /\ heap' = [heap EXCEPT ![a] = Opened(k)]
        /\ flights' = <<a>> \o flights
        /\ ptr' = [ptr EXCEPT ![t] = a]
        /\ serial' = [serial EXCEPT ![a] = Len(log) + 1]
  OBVIOUS
<1>2. /\ heap'[a] = Opened(k)
      /\ \A b \in Addresses \ {a} : heap'[b] = heap[b]
      /\ serial'[a] = Len(log) + 1
      /\ \A b \in Addresses \ {a} : serial'[b] = serial[b]
  BY <1>1 DEF IInv, TypeOK
<1>3. /\ log' \in Seq(Entries)
      /\ Len(log) \in Nat
      /\ Len(log') = Len(log) + 1
      /\ \A i \in 1..Len(log) : log'[i] = log[i]
      /\ log'[Len(log) + 1] = entry
  BY AppendProperties, LenProperties DEF IInv, TypeOK
<1>4. /\ flights' \in Seq(Addresses)
      /\ IsInjective(flights)'
      /\ ToSet(flights)' = ToSet(flights) \cup {a}
      /\ a \notin ToSet(flights)
  <2>1. a \notin ToSet(flights)
    BY <1>1 DEF IInv, RegistryIsSound
  <2> QED
    BY <1>1, <2>1, LinkAtHead DEF IInv, TypeOK, RegistryIsSound
<1>5. TypeOK'
  <2>1. heap' \in [Addresses -> Nodes]
    BY <1>1, KindsAssumption DEF IInv, TypeOK, Nodes, Opened
  <2>2. /\ pc' \in [Threads -> {"idle", "leading", "landed", "asleep", "woken"}]
        /\ ptr' \in [Threads -> Addresses \cup {Null}]
        /\ token' \in [Threads -> Tokens \cup {Null}]
        /\ got' \in [Threads -> Kinds \cup {"none"}]
        /\ calls' \in [Threads -> 0..MaxCalls]
    BY <1>1, MaxCallsAssumption DEF IInv, TypeOK
  <2>3. serial' \in [Addresses -> Nat]
    BY <1>1, <1>3 DEF IInv, TypeOK
  <2> HIDE DEF Lead, Call
  <2>4. count' \in Nat /\ local' \in [Threads -> Kinds]
    BY DEF IInv, TypeOK, Lead
  <2> QED
    BY <1>3, <1>4, <2>1, <2>2, <2>3, <2>4 DEF TypeOK, Nodes
<1>6. ptr[t] = Null
  BY DEF IInv, IdleHoldNothing
<1>7. ReferencesCountHolders'
  <2>1. /\ Cardinality(Holders(a)') = Cardinality(Holders(a)) + 1
        /\ Holders(a)' # {}
        /\ \A b \in Addresses \ {a} : Holders(b)' = Holders(b)
    BY <1>1, <1>6, HoldersGain DEF IInv
  <2>2. Cardinality(Holders(a)) = 0
    BY <1>1, HoldersFinite DEF IInv, ReferencesCountHolders
  <2> QED
    BY <1>2, <2>1, <2>2 DEF IInv, ReferencesCountHolders, Opened
<1>8. /\ \A u \in Threads \ {t} : pc'[u] = pc[u] /\ ptr'[u] = ptr[u] /\ token'[u] = token[u]
      /\ pc'[t] = "leading" /\ ptr'[t] = a /\ token'[t] = k
  BY <1>1 DEF IInv, TypeOK
<1>9. ASSUME NEW u \in Threads, pc[u] # "idle"
      PROVE  ptr[u] \in Addresses \ {a} /\ u # t
  BY <1>1, <1>9, HeldNodesLive
<1>10. FollowersKeepTheirToken' /\ IdleHoldNothing'
  BY <1>2, <1>8, <1>9, NullAssumption
     DEF IInv, FollowersKeepTheirToken, IdleHoldNothing, Opened
<1>11. RegistryIsSound'
  <2>1. ToSet(flights) \subseteq Addresses
    BY LinkedNodes
  <2>2. \A b \in ToSet(flights) : heap[b].key # k
    BY DEF Linked
  <2>4. heap'[a].live /\ ~heap'[a].done /\ heap'[a].key = k
    BY <1>2 DEF Opened
  <2>5. ASSUME NEW b \in Addresses
        PROVE  b \in ToSet(flights)' <=> heap'[b].live /\ ~heap'[b].done
    BY <1>2, <1>4, <2>4 DEF IInv, RegistryIsSound
  <2>6. ASSUME NEW b \in ToSet(flights)', NEW c \in ToSet(flights)',
               heap'[b].key = heap'[c].key
        PROVE  b = c
    <3>1. \A d \in ToSet(flights) : heap'[d].key = heap[d].key /\ heap[d].key # k
      BY <1>2, <1>4, <2>1, <2>2
    <3> QED
      BY <1>4, <2>4, <2>6, <3>1 DEF IInv, RegistryIsSound
  <2> QED
    BY <1>4, <2>5, <2>6 DEF RegistryIsSound
<1>12. LogIsTrue'
  BY <1>2, <1>3 DEF IInv, LogIsTrue, Opened
<1>13. SerialsAreDistinct'
  <2>1. \A b \in Addresses \ {a} : heap[b].live => serial[b] # Len(log) + 1
    BY <1>3 DEF IInv, LogIsTrue
  <2> QED
    BY <1>2, <2>1 DEF IInv, SerialsAreDistinct
<1>14. EveryFlightIsLed'
  <2>1. \A u \in Threads : Leading(u)' <=> Leading(u) \/ u = t
    BY <1>8 DEF Leading
  <2>2. \A u \in Threads : Leading(u) => ptr[u] # a /\ u # t
    BY <1>9 DEF Leading
  <2>3. \A u \in Threads : Leading(u) => ptr'[u] = ptr[u] /\ ptr[u] \in ToSet(flights)
    BY <1>8, <2>2 DEF IInv, EveryFlightIsLed
  <2>4. ToSet(flights)' = ToSet(flights) \cup {a}
    BY <1>4
  <2>5. /\ \A u \in Threads : Leading(u)' => ptr'[u] \in ToSet(flights)'
        /\ \A u, v \in Threads : Leading(u)' /\ Leading(v)' /\ ptr'[u] = ptr'[v] => u = v
    BY <1>8, <2>1, <2>2, <2>3, <2>4 DEF IInv, EveryFlightIsLed
  <2>6. ASSUME NEW b \in ToSet(flights)'
        PROVE  \E u \in Threads : Leading(u)' /\ ptr'[u] = b
    <3>1. CASE b = a
      BY <1>8, <2>1, <3>1
    <3>2. CASE b \in ToSet(flights)
      <4>1. PICK u \in Threads : Leading(u) /\ ptr[u] = b
        BY <3>2 DEF IInv, EveryFlightIsLed
      <4> QED
        BY <2>1, <2>3, <4>1
    <3> QED
      BY <2>4, <3>1, <3>2
  <2> QED
    BY <2>5, <2>6 DEF EveryFlightIsLed
<1> QED
  BY <1>5, <1>7, <1>10, <1>11, <1>12, <1>13, <1>14 DEF IInv

(* Dropping a reference keeps the counts right, and frees the node exactly *)
(* when nobody else holds it.                                              *)
LEMMA DropReference ==
  ASSUME IInv, NEW t \in Threads, pc[t] # "idle", NEW a \in Addresses, ptr[t] = a,
         NEW node \in Nodes, node.refs = heap[a].refs, node.live,
         heap'[a] = Release(node), \A b \in Addresses \ {a} : heap'[b] = heap[b],
         ptr' = [ptr EXCEPT ![t] = Null]
  PROVE  /\ ReferencesCountHolders'
         /\ heap'[a] \in Nodes
         /\ heap'[a].live => /\ heap'[a].key = node.key
                             /\ heap'[a].done = node.done
                             /\ heap'[a].kind = node.kind
<1>1. TypeOK
  BY DEF IInv
<1>3. /\ Cardinality(Holders(a)) \in Nat \ {0}
      /\ Cardinality(Holders(a)') = Cardinality(Holders(a)) - 1
      /\ Holders(a)' = {} <=> Cardinality(Holders(a)) = 1
      /\ \A b \in Addresses \ {a} : Holders(b)' = Holders(b)
  BY <1>1, HoldersLose
<1>4. ASSUME NEW b \in Addresses
      PROVE  heap[b].refs = Cardinality(Holders(b)) /\ (heap[b].live <=> Holders(b) # {})
  BY DEF IInv, ReferencesCountHolders
<1>5. ASSUME NEW b \in Addresses \ {a}
      PROVE  /\ heap'[b].refs = Cardinality(Holders(b)')
             /\ heap'[b].live <=> Holders(b)' # {}
  BY <1>3, <1>4
<1>6. CASE node.refs = 1
  <2>1. heap'[a] = Freed
    BY <1>6 DEF Release
  <2>2. Freed \in Nodes /\ ~Freed.live /\ Freed.refs = 0
    BY KindsAssumption DEF Freed, Nodes
  <2>4. /\ heap'[a].refs = Cardinality(Holders(a)')
        /\ ~heap'[a].live
        /\ Holders(a)' = {}
    <3>1. Cardinality(Holders(a)) = 1
      BY <1>4, <1>6
    <3>2. Cardinality(Holders(a)') = 0 /\ Holders(a)' = {}
      BY <1>3, <3>1
    <3> QED
      BY <2>1, <2>2, <3>2
  <2>5. ReferencesCountHolders'
    BY <1>5, <2>4 DEF ReferencesCountHolders
  <2> QED
    BY <2>1, <2>2, <2>5
<1>7. CASE node.refs # 1
  <2>1. heap'[a] = [node EXCEPT !.refs = @ - 1]
    BY <1>7 DEF Release
  <2>2. node.refs \in Nat \ {0}
    BY <1>3, <1>4
  <2>3. /\ heap'[a] \in Nodes
        /\ heap'[a].refs = node.refs - 1
        /\ heap'[a].live /\ heap'[a].key = node.key
        /\ heap'[a].done = node.done /\ heap'[a].kind = node.kind
    BY <1>7, <2>1, <2>2 DEF Nodes
  <2>5. ReferencesCountHolders'
    BY <1>3, <1>4, <1>5, <1>7, <2>3 DEF ReferencesCountHolders
  <2> QED
    BY <2>3, <2>5
<1> QED
  BY <1>6, <1>7

(* The leader's critical section: it leaves no trace of the flight but the *)
(* outcome in the node, for those who still hold it.                       *)
LEMMA PublishPreserves ==
  ASSUME IInv, NEW t \in Threads, Publish(t)
  PROVE  IInv'
<1> USE DEF Publish, Depart
<1> DEFINE Entries == [key : Tokens, outcome : Kinds \cup {"pending"}]
<1>1. PICK a \in Addresses :
        /\ a = ptr[t]
        /\ heap[a].live
        /\ heap[a].refs \in Nat \ {0}
        /\ heap[a] \in Nodes
  BY HeldNodesLive DEF IInv, TypeOK, Nodes
<1>2. /\ a \in ToSet(flights) /\ ~heap[a].done
      /\ local[t] \in Kinds
      /\ serial[a] \in 1..Len(log)
  BY <1>1 DEF Leading, IInv, TypeOK, EveryFlightIsLed, RegistryIsSound, LogIsTrue
<1>3. PICK node \in Nodes :
        /\ heap' = [heap EXCEPT ![a] = Release(node)]
        /\ node.refs = heap[a].refs /\ node.live
        /\ node.key = heap[a].key /\ node.done /\ node.kind = local[t]
  <2> DEFINE n == [heap[a] EXCEPT !.done = TRUE, !.kind = local[t]]
  <2>1. /\ n \in Nodes
        /\ n.refs = heap[a].refs /\ n.live = heap[a].live
        /\ n.key = heap[a].key /\ n.done = TRUE /\ n.kind = local[t]
    BY <1>1, <1>2 DEF Nodes
  <2>2. heap' = [heap EXCEPT ![a] = Release(n)]
    BY <1>1 DEF IInv, TypeOK
  <2> HIDE DEF n, Publish
  <2>3. n.live /\ n.done
    BY <1>1, <2>1
  <2> QED
    BY <2>1, <2>2, <2>3
<1>4. heap'[a] = Release(node) /\ \A b \in Addresses \ {a} : heap'[b] = heap[b]
  <2> HIDE DEF Publish, Depart
  <2> QED
    BY <1>3 DEF IInv, TypeOK
<1>5. /\ ReferencesCountHolders'
      /\ heap'[a] \in Nodes
      /\ heap'[a].live => /\ heap'[a].key = node.key
                          /\ heap'[a].done = node.done
                          /\ heap'[a].kind = node.kind
  <2>1. pc[t] # "idle" /\ ptr' = [ptr EXCEPT ![t] = Null]
    OBVIOUS
  <2>2. ptr[t] = a
    BY <1>1
  <2> HIDE DEF Publish, Depart
  <2> QED
    BY <1>3, <1>4, <2>1, <2>2, DropReference
<1>6. /\ flights' \in Seq(Addresses)
      /\ IsInjective(flights)'
      /\ ToSet(flights)' = ToSet(flights) \ {a}
  <2>1. flights' = RemoveFirst(flights, a)
    BY <1>1
  <2>2. flights \in Seq(Addresses) /\ IsInjective(flights)
    BY DEF IInv, TypeOK, RegistryIsSound
  <2> QED
    BY <1>2, <2>1, <2>2, Unlink
<1>7. /\ log' \in Seq(Entries)
      /\ Len(log') = Len(log)
      /\ log'[serial[a]] = [log[serial[a]] EXCEPT !.outcome = local[t]]
      /\ \A i \in 1..Len(log) : i # serial[a] => log'[i] = log[i]
  <2>1. log \in Seq(Entries) /\ log[serial[a]] \in Entries
    BY <1>2, ElementOfSeq DEF IInv, TypeOK
  <2>2. PICK e \in Entries : e = [log[serial[a]] EXCEPT !.outcome = local[t]]
    BY <1>2, <2>1
  <2>3. PICK n \in 1..Len(log) : n = serial[a]
    BY <1>2
  <2>4. log' = [log EXCEPT ![n] = e]
    BY <1>1, <2>2, <2>3
  <2>5. /\ log' \in Seq(Entries) /\ Len(log') = Len(log)
        /\ \A i \in 1..Len(log) : log'[i] = IF i = n THEN e ELSE log[i]
    <3> HIDE DEF Entries, Publish
    <3> QED
      BY <2>1, <2>4, ExceptSeq
  <2> QED
    BY <2>2, <2>3, <2>5
<1>8. /\ log'[serial[a]].key = heap[a].key
      /\ log'[serial[a]].outcome = local[t]
  <2>1. log[serial[a]] \in Entries
    BY <1>2, ElementOfSeq DEF IInv, TypeOK
  <2> QED
    BY <1>1, <1>7, <2>1 DEF IInv, LogIsTrue
<1>9. /\ pc' \in [Threads -> {"idle", "leading", "landed", "asleep", "woken"}]
      /\ pc'[t] = "idle" /\ ptr'[t] = Null
      /\ \A u \in Threads \ {t} : /\ ptr'[u] = ptr[u] /\ token'[u] = token[u]
                                  /\ pc'[u] = IF pc[u] = "asleep" THEN "woken" ELSE pc[u]
  BY DEF IInv, TypeOK
<1>10. TypeOK'
  <2>1. /\ ptr' \in [Threads -> Addresses \cup {Null}]
        /\ token' \in [Threads -> Tokens \cup {Null}]
        /\ local' \in [Threads -> Kinds]
        /\ calls' \in [Threads -> 0..MaxCalls]
        /\ serial' \in [Addresses -> Nat]
        /\ count' \in Nat
    BY KindsAssumption DEF IInv, TypeOK
  <2>2. got' \in [Threads -> Kinds \cup {"none"}]
    BY <1>2, KindsAssumption DEF IInv, TypeOK, Outcomes
  <2> HIDE DEF Publish, Depart
  <2>3. heap' \in [Addresses -> Nodes]
    BY <1>3, <1>5 DEF IInv, TypeOK, Nodes
  <2> QED
    BY <1>6, <1>7, <1>9, <2>1, <2>2, <2>3 DEF TypeOK, Nodes
<1> HIDE DEF Publish, Depart
<1>11. \A u \in Threads \ {t} : Leading(u)' <=> Leading(u)
  BY <1>9 DEF Leading
<1>12. ~Leading(t)' /\ Leading(t)
  BY <1>9 DEF Leading, Publish
<1>13. ASSUME NEW b \in Addresses \ {a} PROVE serial[b] = serial'[b] /\ heap'[b] = heap[b]
  BY <1>4 DEF Publish
<1>14. FollowersKeepTheirToken' /\ IdleHoldNothing'
  <2>1. ASSUME NEW u \in Threads \ {t}, pc'[u] # "idle"
        PROVE  heap'[ptr'[u]].key = token'[u]
    <3>1. pc[u] # "idle"
      BY <1>9, <2>1
    <3>2. ptr[u] \in Addresses /\ heap[ptr[u]].key = token[u]
      BY <3>1, HeldNodesLive
    <3>3. CASE ptr[u] # a
      BY <1>9, <1>13, <3>2, <3>3
    <3>4. CASE ptr[u] = a
      <4>1. u \in Holders(a)'
        BY <1>9, <3>4 DEF Holders
      <4>2. heap'[a].live
        BY <1>5, <4>1 DEF ReferencesCountHolders
      <4> QED
        BY <1>3, <1>5, <1>9, <3>2, <3>4, <4>2
    <3> QED
      BY <3>3, <3>4
  <2>2. \A u \in Threads : pc'[u] = "idle" <=> ptr'[u] = Null
    BY <1>9 DEF IInv, IdleHoldNothing
  <2> QED
    BY <1>9, <2>1, <2>2 DEF FollowersKeepTheirToken, IdleHoldNothing
<1>15. RegistryIsSound'
  <2>1. ToSet(flights) \subseteq Addresses
    BY LinkedNodes
  <2>2. ASSUME NEW b \in Addresses
        PROVE  b \in ToSet(flights)' <=> heap'[b].live /\ ~heap'[b].done
    BY <1>3, <1>5, <1>6, <1>13 DEF IInv, RegistryIsSound
  <2>3. \A b, c \in ToSet(flights)' : heap'[b].key = heap'[c].key => b = c
    BY <1>6, <1>13, <2>1 DEF IInv, RegistryIsSound
  <2> QED
    BY <1>6, <2>2, <2>3 DEF RegistryIsSound
<1>16. EveryFlightIsLed'
  <2>1. \A u \in Threads : Leading(u)' => Leading(u) /\ u # t /\ ptr'[u] = ptr[u] /\ ptr[u] # a
    BY <1>1, <1>9, <1>11, <1>12 DEF IInv, EveryFlightIsLed
  <2>2. ASSUME NEW b \in ToSet(flights)'
        PROVE  \E u \in Threads : Leading(u)' /\ ptr'[u] = b
    <3>1. PICK u \in Threads : Leading(u) /\ ptr[u] = b
      BY <1>6 DEF IInv, EveryFlightIsLed
    <3>2. u # t
      BY <1>1, <1>6, <3>1
    <3> QED
      BY <1>9, <1>11, <3>1, <3>2
  <2>3. /\ \A u \in Threads : Leading(u)' => ptr'[u] \in ToSet(flights)'
        /\ \A u, v \in Threads : Leading(u)' /\ Leading(v)' /\ ptr'[u] = ptr'[v] => u = v
    BY <1>6, <2>1 DEF IInv, EveryFlightIsLed
  <2> QED
    BY <2>2, <2>3 DEF EveryFlightIsLed
<1>17. serial' = serial
  BY DEF Publish
<1>18. ASSUME NEW b \in Addresses, heap'[b].live
       PROVE  /\ serial'[b] \in 1..Len(log')
              /\ log'[serial'[b]].key = heap'[b].key
              /\ log'[serial'[b]].outcome = IF heap'[b].done THEN heap'[b].kind ELSE "pending"
  <2>1. CASE b = a
    BY <1>2, <1>3, <1>5, <1>7, <1>8, <1>17, <1>18, <2>1
  <2>2. CASE b # a
    <3>1. heap'[b] = heap[b] /\ heap[b].live
      BY <1>13, <1>18, <2>2
    <3>2. serial[b] # serial[a] /\ serial[b] \in 1..Len(log)
      BY <1>1, <2>2, <3>1 DEF IInv, SerialsAreDistinct, LogIsTrue
    <3>3. log'[serial[b]] = log[serial[b]]
      BY <1>7, <3>2
    <3> QED
      BY <1>7, <1>17, <3>1, <3>2, <3>3 DEF IInv, LogIsTrue
  <2> QED
    BY <2>1, <2>2
<1>19. LogIsTrue'
  BY <1>18 DEF LogIsTrue
<1>20. SerialsAreDistinct'
  <2>1. \A b \in Addresses : heap'[b].live => heap[b].live
    BY <1>1, <1>13
  <2> QED
    BY <1>17, <2>1 DEF IInv, SerialsAreDistinct
<1> QED
  BY <1>5, <1>10, <1>14, <1>15, <1>16, <1>19, <1>20 DEF IInv

(* A follower leaves a flight that is no longer linked.                    *)
LEMMA TakeOutcomePreserves ==
  ASSUME IInv, NEW t \in Threads, TakeOutcome(t)
  PROVE  IInv'
<1> USE DEF TakeOutcome, Depart, history
<1>1. PICK a \in Addresses :
        /\ a = ptr[t]
        /\ heap[a].live /\ heap[a].done
        /\ heap[a] \in Nodes
  BY HeldNodesLive DEF IInv, TypeOK, Nodes
<1>2. heap' = [heap EXCEPT ![a] = Release(heap[a])]
  BY <1>1 DEF IInv, TypeOK
<1>3. heap'[a] = Release(heap[a]) /\ \A b \in Addresses \ {a} : heap'[b] = heap[b]
  BY <1>2 DEF IInv, TypeOK
<1>4. /\ ReferencesCountHolders'
      /\ heap'[a] \in Nodes
      /\ heap'[a].live => /\ heap'[a].key = heap[a].key
                          /\ heap'[a].done = heap[a].done
                          /\ heap'[a].kind = heap[a].kind
  <2>1. pc[t] # "idle" /\ ptr' = [ptr EXCEPT ![t] = Null] /\ ptr[t] = a
    BY <1>1
  <2>2. PICK node \in Nodes : node = heap[a]
    BY <1>1
  <2> HIDE DEF TakeOutcome, Depart
  <2>3. /\ node.refs = heap[a].refs /\ node.live
        /\ heap'[a] = Release(node)
    BY <1>1, <1>3, <2>2
  <2>4. /\ ReferencesCountHolders'
        /\ heap'[a] \in Nodes
        /\ heap'[a].live => /\ heap'[a].key = node.key
                            /\ heap'[a].done = node.done
                            /\ heap'[a].kind = node.kind
    BY <1>3, <2>1, <2>3, DropReference
  <2> QED
    BY <2>2, <2>4
<1>5. /\ pc'[t] = "idle" /\ ptr'[t] = Null
      /\ \A u \in Threads \ {t} : ptr'[u] = ptr[u] /\ token'[u] = token[u] /\ pc'[u] = pc[u]
  BY DEF IInv, TypeOK
<1>6. TypeOK'
  <2>1. /\ ptr' \in [Threads -> Addresses \cup {Null}]
        /\ token' \in [Threads -> Tokens \cup {Null}]
        /\ pc' \in [Threads -> {"idle", "leading", "landed", "asleep", "woken"}]
    BY DEF IInv, TypeOK
  <2>2. got' \in [Threads -> Kinds \cup {"none"}]
    <3>1. heap[a].kind \in Kinds
      BY <1>1 DEF Nodes
    <3> QED
      BY <1>1, <3>1, KindsAssumption DEF IInv, TypeOK, Outcomes
  <2>3. heap' \in [Addresses -> Nodes]
    <3> HIDE DEF TakeOutcome
    <3> QED
      BY <1>2, <1>4 DEF IInv, TypeOK, Nodes
  <2> QED
    BY <2>1, <2>2, <2>3 DEF IInv, TypeOK, Nodes
<1>7. \A u \in Threads : Leading(u)' <=> Leading(u)
  BY <1>5 DEF Leading
<1>8. UNCHANGED <<flights, log, serial>> /\ ~Leading(t)
  BY DEF Leading
<1> HIDE DEF TakeOutcome, Depart
<1>9. FollowersKeepTheirToken' /\ IdleHoldNothing'
  <2>1. ASSUME NEW u \in Threads \ {t}, pc'[u] # "idle"
        PROVE  heap'[ptr'[u]].key = token'[u]
    <3>1. pc[u] # "idle"
      BY <1>5, <2>1
    <3>2. ptr[u] \in Addresses /\ heap[ptr[u]].key = token[u]
      BY <3>1, HeldNodesLive
    <3>3. CASE ptr[u] # a
      BY <1>3, <1>5, <3>2, <3>3
    <3>4. CASE ptr[u] = a
      <4>1. u \in Holders(a)'
        BY <1>5, <3>4 DEF Holders
      <4>2. heap'[a].live
        BY <1>4, <4>1 DEF ReferencesCountHolders
      <4> QED
        BY <1>4, <1>5, <3>2, <3>4, <4>2
    <3> QED
      BY <3>3, <3>4
  <2>2. \A u \in Threads : pc'[u] = "idle" <=> ptr'[u] = Null
    BY <1>5 DEF IInv, IdleHoldNothing
  <2> QED
    BY <1>5, <2>1, <2>2 DEF FollowersKeepTheirToken, IdleHoldNothing
<1>10. RegistryIsSound'
  <2>1. ToSet(flights) \subseteq Addresses /\ a \notin ToSet(flights)
    BY <1>1, LinkedNodes DEF IInv, RegistryIsSound
  <2>2. ASSUME NEW b \in Addresses
        PROVE  b \in ToSet(flights) <=> heap'[b].live /\ ~heap'[b].done
    BY <1>1, <1>3, <1>4, <2>1 DEF IInv, RegistryIsSound
  <2>3. \A b, c \in ToSet(flights) : heap'[b].key = heap'[c].key => b = c
    BY <1>3, <2>1 DEF IInv, RegistryIsSound
  <2>4. IsInjective(flights)
    BY DEF IInv, RegistryIsSound
  <2> QED
    BY <1>8, <2>2, <2>3, <2>4 DEF RegistryIsSound
<1>11. EveryFlightIsLed'
  <2>1. \A u \in Threads : Leading(u) => ptr'[u] = ptr[u]
    BY <1>5, <1>8
  <2> QED
    BY <1>7, <1>8, <2>1 DEF IInv, EveryFlightIsLed
<1>12. ASSUME NEW b \in Addresses, heap'[b].live
       PROVE  /\ heap[b].live /\ heap'[b].key = heap[b].key
              /\ heap'[b].done = heap[b].done /\ heap'[b].kind = heap[b].kind
  BY <1>1, <1>3, <1>4, <1>12
<1>13. LogIsTrue' /\ SerialsAreDistinct'
  BY <1>8, <1>12 DEF IInv, LogIsTrue, SerialsAreDistinct
<1> QED
  BY <1>4, <1>6, <1>9, <1>10, <1>11, <1>13 DEF IInv

(* One step per action; those that touch no node go through QuietStep.     *)
LEMMA NextPreserves == IInv /\ [Next]_vars => IInv'
<1> SUFFICES ASSUME IInv, [Next]_vars PROVE IInv'
  OBVIOUS
<1> USE DEF Call, history
<1>1. ASSUME NEW t \in Threads, NEW k \in Tokens, LeadOutOfMemory(t, k) PROVE IInv'
  <2> USE <1>1 DEF LeadOutOfMemory
  <2>1. TypeOK'
    BY KindsAssumption, MaxCallsAssumption DEF IInv, TypeOK
  <2>2. \A u \in Threads : pc[u] # "idle" => token'[u] = token[u]
    BY DEF IInv, TypeOK
  <2>3. UNCHANGED <<flights, heap, pc, ptr, log, serial>>
    OBVIOUS
  <2>4. Leading(t)' <=> Leading(t)
    BY DEF Leading
  <2> HIDE <1>1
  <2> QED
    BY <2>1, <2>2, <2>3, <2>4, QuietStep
<1>2. ASSUME NEW t \in Threads, NEW kind \in Kinds, Perform(t, kind) PROVE IInv'
  <2> USE <1>2 DEF Perform
  <2>1. TypeOK'
    BY DEF IInv, TypeOK
  <2>2. /\ \A u \in Threads \ {t} : pc'[u] = pc[u]
        /\ pc'[t] = "landed" /\ pc[t] = "leading"
    BY DEF IInv, TypeOK
  <2>3. UNCHANGED <<flights, heap, ptr, token, log, serial>>
    OBVIOUS
  <2>4. Leading(t)' <=> Leading(t)
    BY <2>2 DEF Leading
  <2> HIDE <1>2
  <2> QED
    BY <2>1, <2>2, <2>3, <2>4, QuietStep
<1>3. ASSUME NEW t \in Threads, WaitAgain(t) PROVE IInv'
  <2> USE <1>3 DEF WaitAgain
  <2>1. TypeOK'
    BY DEF IInv, TypeOK
  <2>2. /\ \A u \in Threads \ {t} : pc'[u] = pc[u]
        /\ pc'[t] = "asleep" /\ pc[t] = "woken"
    BY DEF IInv, TypeOK
  <2>3. UNCHANGED <<flights, heap, ptr, token, log, serial>>
    OBVIOUS
  <2>4. Leading(t)' <=> Leading(t)
    BY <2>2 DEF Leading
  <2> HIDE <1>3
  <2> QED
    BY <2>1, <2>2, <2>3, <2>4, QuietStep
<1>4. ASSUME NEW t \in Threads, SpuriousWakeup(t) PROVE IInv'
  <2> USE <1>4 DEF SpuriousWakeup
  <2>1. TypeOK'
    BY DEF IInv, TypeOK
  <2>2. /\ \A u \in Threads \ {t} : pc'[u] = pc[u]
        /\ pc'[t] = "woken" /\ pc[t] = "asleep"
    BY DEF IInv, TypeOK
  <2>3. UNCHANGED <<flights, heap, ptr, token, log, serial>>
    OBVIOUS
  <2>4. Leading(t)' <=> Leading(t)
    BY <2>2 DEF Leading
  <2> HIDE <1>4
  <2> QED
    BY <2>1, <2>2, <2>3, <2>4, QuietStep
<1>5. ASSUME UNCHANGED vars PROVE IInv'
  <2> USE <1>5 DEF vars
  <2>1. TypeOK' /\ FollowersKeepTheirToken' /\ IdleHoldNothing'
    BY DEF IInv, TypeOK, FollowersKeepTheirToken, IdleHoldNothing
  <2>3. ReferencesCountHolders'
    BY DEF IInv, ReferencesCountHolders, Holders
  <2>2. RegistryIsSound' /\ EveryFlightIsLed' /\ LogIsTrue' /\ SerialsAreDistinct'
    BY DEF IInv, RegistryIsSound, EveryFlightIsLed, Leading, LogIsTrue, SerialsAreDistinct
  <2> QED
    BY <2>1, <2>2, <2>3 DEF IInv
<1> QED
  BY <1>1, <1>2, <1>3, <1>4, <1>5, FollowPreserves, LeadPreserves, PublishPreserves,
     TakeOutcomePreserves
  DEF Next, Advance, Quiesced

(* The invariant holds of every state the call can reach.                  *)
THEOREM Inductive == Spec => []IInv
  BY InitEstablishes, NextPreserves, PTL DEF Spec

(* No thread reaches a freed node and none is leaked; a follower is only   *)
(* ever answered for the token it was called with.                         *)
THEOREM HeapSound == Spec => []HeapIsSound
<1>1. IInv => HeapIsSound
  BY DEF IInv, HeapIsSound
<1> QED
  BY <1>1, Inductive, PTL

(* Nobody waits for a flight that has no leader left to publish it.        *)
THEOREM FlightsAreLed == Spec => []EveryFlightIsLed
<1>1. IInv => EveryFlightIsLed
  BY DEF IInv
<1> QED
  BY <1>1, Inductive, PTL

-------------------------------------------------------------------------------
(* Refinement *)

(* The abstract slot of a token is the serial of the node linked for it. *)
SlotsFollowRegistry ==
  \A k \in Tokens :
    /\ \A a \in Linked(k) : SlotBar[k] = serial[a] /\ serial[a] \in Nat \ {0}
    /\ Linked(k) = {} => SlotBar[k] = 0

(* It is a function of what is linked, whichever node CHOOSE picks.        *)
LEMMA SlotOfLinked == IInv => SlotsFollowRegistry
<1> SUFFICES ASSUME IInv, NEW k \in Tokens
             PROVE  /\ \A a \in Linked(k) : SlotBar[k] = serial[a] /\ serial[a] \in Nat \ {0}
                    /\ Linked(k) = {} => SlotBar[k] = 0
  BY DEF SlotsFollowRegistry
<1>1. Linked(k) = {} => SlotBar[k] = 0
  BY DEF SlotBar
<1>2. ASSUME NEW a \in Linked(k)
      PROVE  SlotBar[k] = serial[a] /\ serial[a] \in Nat \ {0}
  <2>1. (CHOOSE b \in Linked(k) : TRUE) = a
    BY LinkedNodes
  <2>2. a \in Addresses /\ heap[a].live
    BY LinkedNodes DEF Linked, IInv, RegistryIsSound
  <2>3. serial[a] \in Nat \ {0}
    BY <2>2 DEF IInv, LogIsTrue
  <2> QED
    BY <2>1, <2>3 DEF SlotBar
<1> QED
  BY <1>1, <1>2

(* The same, after a step.                                                 *)
LEMMA SlotOfLinkedNext == IInv' => SlotsFollowRegistry'
  BY SlotOfLinked, PTL

(* The other two mapped variables, as the INSTANCE of OidcRefresh has them. *)
SeatBar == [t \in Threads |-> IF ptr[t] = Null THEN 0 ELSE serial[ptr[t]]]
OutcomeBar == [i \in DOMAIN log |-> log[i].outcome]

(* Being in a seat is being inside the call. *)
LEMMA Seated ==
  ASSUME IInv, NEW t \in Threads
  PROVE  /\ SeatBar[t] = 0 <=> pc[t] = "idle"
         /\ pc[t] # "idle" => SeatBar[t] = serial[ptr[t]] /\ SeatBar[t] \in 1..Len(log)
<1>1. pc[t] = "idle" => SeatBar[t] = 0
  BY DEF IInv, IdleHoldNothing, SeatBar
<1>2. ASSUME pc[t] # "idle"
      PROVE  SeatBar[t] = serial[ptr[t]] /\ SeatBar[t] \in 1..Len(log) /\ SeatBar[t] # 0
  <2>1. ptr[t] \in Addresses /\ heap[ptr[t]].live
    BY <1>2, HeldNodesLive
  <2>2. serial[ptr[t]] \in 1..Len(log)
    BY <2>1 DEF IInv, LogIsTrue
  <2>3. SeatBar[t] = serial[ptr[t]]
    BY <2>1, NullAssumption DEF SeatBar
  <2>4. 0 \notin 1..Len(log)
    BY LenProperties DEF IInv, TypeOK
  <2> QED
    BY <2>2, <2>3, <2>4
<1> QED
  BY <1>1, <1>2

(* The initial states map to the initial state.                            *)
LEMMA InitRefines == Init => Abstract!Init
<1> SUFFICES ASSUME Init PROVE Abstract!Init
  OBVIOUS
<1> USE DEF Init
<1>1. SlotBar = [k \in Tokens |-> 0]
  BY DEF SlotBar, Linked, ToSet
<1>2. OutcomeBar = <<>>
  BY DEF OutcomeBar
<1>3. SeatBar = [t \in Threads |-> 0]
  BY DEF SeatBar
<1> QED
  BY <1>1, <1>2, <1>3 DEF Abstract!Init, OutcomeBar, SeatBar

(* Taking a reference is taking a seat.                                    *)
LEMMA FollowJoins ==
  ASSUME IInv, NEW t \in Threads, NEW k \in Tokens, Follow(t, k)
  PROVE  Abstract!Join(t, k)
<1> USE DEF Follow, Call, history
<1>1. PICK a \in Linked(k) :
        /\ heap' = [heap EXCEPT ![a].refs = @ + 1]
        /\ ptr' = [ptr EXCEPT ![t] = a]
  OBVIOUS
<1>2. /\ a \in Addresses
      /\ \A b \in Addresses : heap'[b].key = heap[b].key
  BY <1>1, LinkedNodes DEF Linked, IInv, TypeOK
<1>3. SlotBar[k] = serial[a] /\ SlotBar[k] # 0
  BY SlotOfLinked DEF SlotsFollowRegistry
<1>4. SeatBar[t] = 0
  BY Seated
<1>5. SlotBar' = SlotBar
  <2>1. \A j \in Tokens : Linked(j)' = Linked(j)
    BY <1>2, LinkedNodes DEF Linked
  <2>2. ASSUME NEW j \in Tokens PROVE SlotBar'[j] = SlotBar[j]
    <3>1. IInv'
      BY FollowPreserves
    <3>2. serial' = serial
      OBVIOUS
    <3> HIDE DEF Follow
    <3> QED
      BY <2>1, <3>1, <3>2, SlotOfLinked, SlotOfLinkedNext DEF SlotsFollowRegistry
  <2> QED
    BY <2>2 DEF SlotBar
<1>6. SeatBar' = [SeatBar EXCEPT ![t] = SlotBar[k]]
  BY <1>1, <1>2, <1>3, NullAssumption DEF SeatBar, IInv, TypeOK
<1>7. OutcomeBar' = OutcomeBar
  BY DEF OutcomeBar
<1> QED
  BY <1>3, <1>4, <1>5, <1>6, <1>7 DEF Abstract!Join, SeatBar, OutcomeBar

(* The history's entries have their fields. *)
LEMMA LogEntries ==
  ASSUME TypeOK, NEW i \in 1..Len(log)
  PROVE  log[i].key \in Tokens /\ log[i].outcome \in Kinds \cup {"pending"}
<1> DEFINE Entries == [key : Tokens, outcome : Kinds \cup {"pending"}]
<1>1. log \in Seq(Entries)
  BY DEF TypeOK
<1> HIDE DEF Entries
<1>2. log[i] \in Entries
  BY <1>1, ElementOfSeq
<1> QED
  BY <1>2 DEF Entries

(* The mapped outcomes are a sequence, as long as the history.             *)
LEMMA OutcomeSequence ==
  ASSUME TypeOK
  PROVE  /\ OutcomeBar \in Seq(Kinds \cup {"pending"})
         /\ Len(OutcomeBar) = Len(log)
         /\ \A i \in 1..Len(log) : OutcomeBar[i] = log[i].outcome
<1> DEFINE S == Kinds \cup {"pending"}
<1>1. /\ Len(log) \in Nat /\ DOMAIN log = 1..Len(log)
      /\ \A i \in 1..Len(log) : log[i].outcome \in S
  BY LenProperties, LogEntries DEF TypeOK
<1>2. OutcomeBar \in [1..Len(log) -> S]
  BY <1>1 DEF OutcomeBar
<1>3. OutcomeBar \in Seq(S)
  BY <1>1, <1>2, SeqDef
<1>4. Len(OutcomeBar) = Len(log)
  <2> HIDE DEF S
  <2>1. DOMAIN OutcomeBar = 1..Len(OutcomeBar) /\ Len(OutcomeBar) \in Nat
    BY <1>3, LenProperties
  <2>2. \A i : i \in 1..Len(OutcomeBar) <=> i \in 1..Len(log)
    BY <1>2, <2>1
  <2>3. ~(Len(OutcomeBar) < Len(log))
    <3>1. Len(log) \in 1..Len(log) => Len(log) \in 1..Len(OutcomeBar)
      BY <2>2
    <3> QED
      BY <1>1, <2>1, <3>1
  <2>4. ~(Len(log) < Len(OutcomeBar))
    <3>1. Len(OutcomeBar) \in 1..Len(OutcomeBar) => Len(OutcomeBar) \in 1..Len(log)
      BY <2>2
    <3> QED
      BY <1>1, <2>1, <3>1
  <2>5. ASSUME NEW m \in Nat, NEW n \in Nat, ~(m < n), ~(n < m) PROVE m = n
    BY <2>5
  <2> QED
    BY <1>1, <2>1, <2>3, <2>4, <2>5
<1> QED
  BY <1>1, <1>3, <1>4 DEF OutcomeBar

(* Linking a fresh node is opening the next flight.                        *)
LEMMA LeadLeads ==
  ASSUME IInv, NEW t \in Threads, NEW k \in Tokens, Lead(t, k)
  PROVE  Abstract!Lead(t, k)
<1> USE DEF Lead, Call
<1> DEFINE entry == [key |-> k, outcome |-> "pending"]
           Entries == [key : Tokens, outcome : Kinds \cup {"pending"}]
<1>1. PICK a \in Addresses :
        /\ ~heap[a].live
        /\ heap' = [heap EXCEPT ![a] = Opened(k)]
        /\ flights' = <<a>> \o flights
        /\ ptr' = [ptr EXCEPT ![t] = a]
        /\ serial' = [serial EXCEPT ![a] = Len(log) + 1]
  OBVIOUS
<1>2. /\ heap'[a].key = k
      /\ \A b \in Addresses \ {a} : heap'[b] = heap[b]
      /\ serial'[a] = Len(log) + 1
      /\ \A b \in Addresses \ {a} : serial'[b] = serial[b]
  BY <1>1 DEF IInv, TypeOK, Opened
<1>3. /\ log \in Seq(Entries) /\ log' \in Seq(Entries)
      /\ Len(log) \in Nat
      /\ Len(log') = Len(log) + 1
      /\ \A i \in 1..Len(log) : log'[i] = log[i]
      /\ log'[Len(log) + 1].outcome = "pending"
  BY AppendProperties, LenProperties DEF IInv, TypeOK
<1>4. /\ ToSet(flights)' = ToSet(flights) \cup {a}
      /\ ToSet(flights) \subseteq Addresses \ {a}
  <2>1. a \notin ToSet(flights) /\ ToSet(flights) \subseteq Addresses
    BY <1>1, LinkedNodes DEF IInv, RegistryIsSound
  <2> QED
    BY <1>1, <2>1, LinkAtHead DEF IInv, TypeOK, RegistryIsSound
<1>5. /\ Linked(k)' = {a}
      /\ \A j \in Tokens \ {k} : Linked(j)' = Linked(j)
      /\ \A j \in Tokens : Linked(j) \subseteq Addresses \ {a}
  BY <1>2, <1>4 DEF Linked
<1>6. IInv'
  BY LeadPreserves
<1>7. SeatBar[t] = 0 /\ SlotBar[k] = 0
  BY Seated, SlotOfLinked DEF SlotsFollowRegistry
<1>8. ptr[t] = Null /\ \A u \in Threads \ {t} : ptr[u] # a
  <2>1. ASSUME NEW u \in Threads \ {t} PROVE ptr[u] # a
    <3>1. pc[u] # "idle" => heap[ptr[u]].live
      BY HeldNodesLive
    <3> QED
      BY <1>1, <3>1, NullAssumption DEF IInv, IdleHoldNothing
  <2> QED
    BY <2>1 DEF IInv, IdleHoldNothing
<1>9. Len(OutcomeBar) = Len(log)
  BY OutcomeSequence DEF IInv
<1>10. SeatBar' = [SeatBar EXCEPT ![t] = Len(OutcomeBar) + 1]
  BY <1>1, <1>2, <1>8, <1>9, NullAssumption DEF SeatBar, IInv, TypeOK
<1> HIDE DEF Lead
<1>11. SlotBar' = [SlotBar EXCEPT ![k] = Len(OutcomeBar) + 1]
  <2>1. SlotBar'[k] = Len(OutcomeBar) + 1
    BY <1>2, <1>5, <1>6, <1>9, SlotOfLinkedNext DEF SlotsFollowRegistry
  <2>2. ASSUME NEW j \in Tokens \ {k} PROVE SlotBar'[j] = SlotBar[j]
    BY <1>2, <1>5, <1>6, SlotOfLinked, SlotOfLinkedNext DEF SlotsFollowRegistry
  <2> QED
    BY <2>1, <2>2 DEF SlotBar
<1>12. OutcomeBar' = Append(OutcomeBar, "pending")
  <2> DEFINE S == Kinds \cup {"pending"}
             extended == Append(OutcomeBar, "pending")
  <2>1. /\ OutcomeBar \in Seq(S)
        /\ \A i \in 1..Len(log) : OutcomeBar[i] = log[i].outcome
    BY OutcomeSequence DEF IInv
  <2>2. /\ extended \in Seq(S)
        /\ Len(extended) = Len(log) + 1
        /\ \A i \in 1..Len(log) : extended[i] = OutcomeBar[i]
        /\ extended[Len(log) + 1] = "pending"
    BY <1>9, <2>1, AppendProperties
  <2>3. DOMAIN extended = 1..(Len(log) + 1) /\ extended \in [1..(Len(log) + 1) -> S]
    BY <2>2, LenProperties
  <2> HIDE DEF extended
  <2>4. DOMAIN log' = 1..(Len(log) + 1)
    BY <1>3, LenProperties
  <2>5. OutcomeBar' = [i \in 1..(Len(log) + 1) |-> log'[i].outcome]
    BY <2>4 DEF OutcomeBar
  <2>6. ASSUME NEW i \in 1..(Len(log) + 1) PROVE log'[i].outcome = extended[i]
    <3>1. i \in 1..Len(log) \/ i = Len(log) + 1
      BY <1>3
    <3> QED
      BY <1>3, <2>1, <2>2, <3>1
  <2> QED
    BY <2>3, <2>5, <2>6 DEF extended
<1>13. got' = [got EXCEPT ![t] = "none"]
  BY DEF Lead
<1> QED
  BY <1>7, <1>10, <1>11, <1>12, <1>13 DEF Abstract!Lead, SeatBar, OutcomeBar

(* Unlinking and publishing is settling, in one step.                      *)
LEMMA PublishSettles ==
  ASSUME IInv, NEW t \in Threads, Publish(t)
  PROVE  \E k \in Tokens, kind \in Kinds : Abstract!Settle(t, k, kind)
<1>1. PICK a \in Addresses :
        /\ a = ptr[t]
        /\ heap[a].live
        /\ heap[a].key = token[t]
  BY HeldNodesLive DEF Publish
<1>2. /\ a \in ToSet(flights)
      /\ local[t] \in Kinds
      /\ serial[a] \in 1..Len(log)
  BY <1>1 DEF Publish, Leading, IInv, TypeOK, EveryFlightIsLed, RegistryIsSound, LogIsTrue
<1>3. /\ \A b \in Addresses \ {a} : heap'[b] = heap[b]
      /\ serial' = serial
      /\ ptr' = [ptr EXCEPT ![t] = Null]
      /\ log' = [log EXCEPT ![serial[a]].outcome = local[t]]
      /\ \E o \in Outcomes(local[t]) : got' = [got EXCEPT ![t] = o]
  BY <1>1 DEF Publish, Depart, IInv, TypeOK
<1>4. ToSet(flights)' = ToSet(flights) \ {a}
  <2>1. flights' = RemoveFirst(flights, a)
    BY <1>1 DEF Publish
  <2>2. flights \in Seq(Addresses) /\ IsInjective(flights)
    BY DEF IInv, TypeOK, RegistryIsSound
  <2> QED
    BY <1>2, <2>1, <2>2, Unlink
<1>5. PICK k \in Tokens : k = heap[a].key
  <2>1. PICK i \in 1..Len(log) : i = serial[a]
    BY <1>2
  <2>2. log[i].key \in Tokens
    BY LogEntries DEF IInv
  <2> QED
    BY <1>1, <2>1, <2>2 DEF IInv, LogIsTrue
<1> PICK kind \in Kinds : kind = local[t]
  BY <1>2
<1>6. /\ a \in Linked(k)
      /\ Linked(k)' = {}
      /\ \A j \in Tokens \ {k} : Linked(j)' = Linked(j)
  <2>1. ToSet(flights) \subseteq Addresses
    BY LinkedNodes
  <2>2. a \in Linked(k)
    BY <1>2, <1>5 DEF Linked
  <2>3. \A j \in Tokens : Linked(j)' = Linked(j) \ {a}
    BY <1>3, <1>4, <2>1 DEF Linked
  <2>4. \A b \in Linked(k) : b = a
    BY <2>2, LinkedNodes
  <2>5. \A j \in Tokens \ {k} : a \notin Linked(j)
    BY <1>5 DEF Linked
  <2> QED
    BY <2>2, <2>3, <2>4, <2>5
<1>7. IInv'
  BY PublishPreserves
<1>8. SeatBar[t] # 0 /\ SeatBar[t] = serial[a] /\ SlotBar[k] = SeatBar[t]
  <2>1. SeatBar[t] # 0 /\ SeatBar[t] = serial[a]
    BY <1>1, Seated DEF Publish
  <2> QED
    BY <1>6, <2>1, SlotOfLinked DEF SlotsFollowRegistry
<1>9. SeatBar' = [SeatBar EXCEPT ![t] = 0]
  BY <1>3 DEF SeatBar, IInv, TypeOK
<1>10. SlotBar' = [SlotBar EXCEPT ![k] = 0]
  <2>1. SlotBar'[k] = 0
    BY <1>6, <1>7, SlotOfLinkedNext DEF SlotsFollowRegistry
  <2>2. ASSUME NEW j \in Tokens \ {k} PROVE SlotBar'[j] = SlotBar[j]
    BY <1>3, <1>6, <1>7, SlotOfLinked, SlotOfLinkedNext DEF SlotsFollowRegistry
  <2> QED
    BY <2>1, <2>2 DEF SlotBar
<1>11. OutcomeBar' = [OutcomeBar EXCEPT ![SeatBar[t]] = kind]
  <2> DEFINE Entries == [key : Tokens, outcome : Kinds \cup {"pending"}]
  <2>1. /\ DOMAIN log = 1..Len(log)
        /\ \A i \in 1..Len(log) : log[i] \in Entries
    BY LenProperties, ElementOfSeq DEF IInv, TypeOK
  <2>2. /\ DOMAIN log' = 1..Len(log)
        /\ log'[serial[a]].outcome = kind
        /\ \A i \in 1..Len(log) : i # serial[a] => log'[i] = log[i]
    BY <1>2, <1>3, <2>1
  <2> QED
    BY <1>2, <1>8, <2>1, <2>2 DEF OutcomeBar
<1>12. \E o \in Abstract!Answer(kind) : got' = [got EXCEPT ![t] = o]
  BY <1>3 DEF Outcomes, Abstract!Answer
<1> QED
  BY <1>2, <1>8, <1>9, <1>10, <1>11, <1>12 DEF Abstract!Settle, SeatBar, OutcomeBar

(* Reading a node that is done is reading the settled flight's outcome.    *)
LEMMA TakeOutcomeLeaves ==
  ASSUME IInv, NEW t \in Threads, TakeOutcome(t)
  PROVE  Abstract!Leave(t)
<1>1. PICK a \in Addresses :
        /\ a = ptr[t]
        /\ heap[a].live /\ heap[a].done
        /\ heap[a] \in Nodes
  BY HeldNodesLive DEF TakeOutcome, IInv, TypeOK, Nodes
<1>2. /\ \A b \in Addresses \ {a} : heap'[b] = heap[b]
      /\ UNCHANGED <<flights, log, serial>>
      /\ ptr' = [ptr EXCEPT ![t] = Null]
      /\ \E o \in Outcomes(heap[a].kind) : got' = [got EXCEPT ![t] = o]
  BY <1>1 DEF TakeOutcome, Depart, history, IInv, TypeOK
<1>3. SeatBar[t] # 0 /\ SeatBar[t] = serial[a] /\ serial[a] \in 1..Len(log)
  BY <1>1, Seated DEF TakeOutcome
<1>4. OutcomeBar[SeatBar[t]] = heap[a].kind /\ heap[a].kind # "pending"
  <2>1. OutcomeBar[SeatBar[t]] = log[serial[a]].outcome
    BY <1>3, OutcomeSequence DEF IInv
  <2> QED
    BY <1>1, <2>1, KindsAssumption DEF IInv, LogIsTrue, Nodes
<1>5. \A j \in Tokens : Linked(j)' = Linked(j)
  <2>1. ToSet(flights) \subseteq Addresses \ {a}
    BY <1>1, LinkedNodes DEF IInv, RegistryIsSound
  <2> QED
    BY <1>2, <2>1 DEF Linked
<1>6. IInv'
  BY TakeOutcomePreserves
<1>7. SlotBar' = SlotBar
  <2>1. ASSUME NEW j \in Tokens PROVE SlotBar'[j] = SlotBar[j]
    BY <1>2, <1>5, <1>6, SlotOfLinked, SlotOfLinkedNext DEF SlotsFollowRegistry
  <2> QED
    BY <2>1 DEF SlotBar
<1>8. SeatBar' = [SeatBar EXCEPT ![t] = 0]
  BY <1>2 DEF SeatBar, IInv, TypeOK
<1>9. OutcomeBar' = OutcomeBar
  BY <1>2 DEF OutcomeBar
<1>10. \E o \in Abstract!Answer(OutcomeBar[SeatBar[t]]) : got' = [got EXCEPT ![t] = o]
  BY <1>2, <1>4 DEF Outcomes, Abstract!Answer
<1> QED
  BY <1>3, <1>4, <1>7, <1>8, <1>9, <1>10 DEF Abstract!Leave, SeatBar, OutcomeBar

(* Every step maps to a step or to a stutter.                              *)
LEMMA StepRefines ==
  ASSUME IInv, [Next]_vars
  PROVE  [Abstract!Next]_(Abstract!vars)
<1>1. ASSUME NEW t \in Threads, NEW k \in Tokens, LeadOutOfMemory(t, k)
      PROVE  Abstract!Refuse(t)
  <2>1. SeatBar[t] = 0
    BY <1>1, Seated DEF LeadOutOfMemory, Call
  <2>2. UNCHANGED <<flights, heap, ptr, log, serial>> /\ got' = [got EXCEPT ![t] = "network"]
    BY <1>1 DEF LeadOutOfMemory, history
  <2>3. SlotBar' = SlotBar /\ SeatBar' = SeatBar /\ OutcomeBar' = OutcomeBar
    BY <2>2 DEF SlotBar, Linked, SeatBar, OutcomeBar
  <2> QED
    BY <2>1, <2>2, <2>3 DEF Abstract!Refuse, SeatBar, OutcomeBar
<1>2. ASSUME UNCHANGED <<flights, heap, ptr, log, serial, got>>
      PROVE  UNCHANGED Abstract!vars
  <2>1. SlotBar' = SlotBar /\ SeatBar' = SeatBar /\ OutcomeBar' = OutcomeBar
    BY <1>2 DEF SlotBar, Linked, SeatBar, OutcomeBar
  <2> QED
    BY <1>2, <2>1 DEF Abstract!vars, SeatBar, OutcomeBar
<1>3. ASSUME NEW t \in Threads,
             (\E kind \in Kinds : Perform(t, kind)) \/ WaitAgain(t) \/ SpuriousWakeup(t)
      PROVE  UNCHANGED Abstract!vars
  BY <1>2, <1>3 DEF Perform, WaitAgain, SpuriousWakeup, history
<1>4. ASSUME Quiesced \/ UNCHANGED vars PROVE UNCHANGED Abstract!vars
  BY <1>2, <1>4 DEF Quiesced, vars
<1>5. ASSUME NEW t \in Threads, NEW k \in Tokens,
             Follow(t, k) \/ Lead(t, k) \/ LeadOutOfMemory(t, k)
      PROVE  Abstract!Next
  BY <1>1, <1>5, FollowJoins, LeadLeads DEF Abstract!Next
<1>6. ASSUME NEW t \in Threads, Publish(t) PROVE Abstract!Next
  BY <1>6, PublishSettles DEF Abstract!Next
<1>7. ASSUME NEW t \in Threads, TakeOutcome(t) PROVE Abstract!Next
  BY <1>7, TakeOutcomeLeaves DEF Abstract!Next
<1> QED
  BY <1>3, <1>4, <1>5, <1>6, <1>7 DEF Next, Advance

(* The registry, the heap and the condition variable implement the         *)
(* coalesced call: at every step, whatever the allocator and the scheduler *)
(* do.                                                                     *)
THEOREM Refinement == Spec => CoalescesCalls
<1>1. Init => Abstract!Init
  BY InitRefines
<1>2. IInv /\ [Next]_vars => [Abstract!Next]_(Abstract!vars)
  BY StepRefines
<1> QED
  BY <1>1, <1>2, Inductive, PTL DEF Spec, CoalescesCalls, Abstract!Spec
===============================================================================
