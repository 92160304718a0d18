------------------------ MODULE CachesAndGrants_proofs ------------------------
(***************************************************************************)
(* The caches of answers that threads share, for any number of threads,    *)
(* questions and documents and any bounds: the decision memo               *)
(* (DecisionMemo), which implements the cache of DecisionCache, and the    *)
(* discovery caches with the code flow that reads them (CodeFlow). And the *)
(* other grants, which are polled for (GrantPolling), for any interval,    *)
(* lifetime, budget and delays: nothing is sent after the deadline, the    *)
(* polls are spaced as the server asked, and the outcome is what became of *)
(* the grant.                                                              *)
(***************************************************************************)
EXTENDS DecisionMemo, CodeFlow, GrantPolling, SequenceTheorems, WellFoundedInduction, TLAPS

(* One element is taken out of a sequence, the others keep their order.    *)
LEMMA RemoveAtProperties ==
  ASSUME NEW S, NEW s \in Seq(S), NEW j \in 1..Len(s)
  PROVE  /\ RemoveAt(s, j) \in Seq(S)
         /\ Len(RemoveAt(s, j)) = Len(s) - 1
         /\ \A i \in 1..(Len(s) - 1) : RemoveAt(s, j)[i] = IF i < j THEN s[i] ELSE s[i + 1]
<1>1. /\ Len(s) \in Nat /\ j \in Int
      /\ \A i \in 1..Len(s) : s[i] \in S
  BY LenProperties, ElementOfSeq
<1> DEFINE front == SubSeq(s, 1, j - 1)
           back == SubSeq(s, j + 1, Len(s))
           n == Len(s)
<1>2. /\ front \in Seq(S) /\ Len(front) = j - 1
      /\ \A i \in 1..(j - 1) : front[i] = s[i]
  <2>1. \A i \in 1..(j - 1) : s[i] \in S
    BY <1>1
  <2>2. /\ front \in Seq(S) /\ Len(front) = IF 1 <= j - 1 THEN j - 1 - 1 + 1 ELSE 0
        /\ \A i \in 1..(j - 1 - 1 + 1) : front[i] = s[1 + i - 1]
    BY <1>1, <2>1, SubSeqProperties
  <2> QED
    BY <1>1, <2>2
<1>3. /\ back \in Seq(S) /\ Len(back) = n - j
      /\ \A i \in 1..(n - j) : back[i] = s[i + j]
  <2>1. \A i \in (j + 1)..Len(s) : s[i] \in S
    BY <1>1
  <2>2. /\ back \in Seq(S)
        /\ Len(back) = IF j + 1 <= n THEN n - (j + 1) + 1 ELSE 0
        /\ \A i \in 1..(n - (j + 1) + 1) : back[i] = s[(j + 1) + i - 1]
    BY <1>1, <2>1, SubSeqProperties
  <2>3. n \in Nat /\ j \in 1..n
    BY <1>1
  <2> HIDE DEF back, n
  <2>4. Len(back) = n - j
    BY <2>2, <2>3
  <2>5. ASSUME NEW i \in 1..(n - j) PROVE back[i] = s[i + j]
    <3>1. i \in 1..(n - (j + 1) + 1) /\ (j + 1) + i - 1 = i + j
      BY <2>3
    <3> QED
      BY <2>2, <3>1
  <2> QED
    BY <2>2, <2>4, <2>5
<1>4. n \in Nat /\ j \in 1..n /\ RemoveAt(s, j) = front \o back
  BY <1>1 DEF RemoveAt
<1> HIDE DEF front, back
<1>5. /\ front \o back \in Seq(S)
      /\ Len(front \o back) = Len(front) + Len(back)
      /\ \A i \in 1..(Len(front) + Len(back)) :
           (front \o back)[i] = IF i <= Len(front) THEN front[i] ELSE back[i - Len(front)]
  BY <1>2, <1>3, ConcatProperties
<1> DEFINE r == RemoveAt(s, j)
<1> HIDE DEF n, r
<1>6. /\ r \in Seq(S) /\ Len(r) = n - 1
      /\ \A i \in 1..(n - 1) : r[i] = IF i <= j - 1 THEN front[i] ELSE back[i - (j - 1)]
  <2>1. Len(front) + Len(back) = n - 1 /\ Len(front) = j - 1
    BY <1>2, <1>3, <1>4
  <2> QED
    BY <1>4, <1>5, <2>1 DEF r
<1>7. ASSUME NEW i \in 1..(n - 1) PROVE r[i] = IF i < j THEN s[i] ELSE s[i + 1]
  <2>1. CASE i < j
    <3>1. i \in 1..(j - 1) /\ i <= j - 1
      BY <1>4, <2>1
    <3> QED
      BY <1>2, <1>6, <2>1, <3>1
  <2>2. CASE ~(i < j)
    <3>1. /\ i - (j - 1) \in 1..(n - j)
          /\ i - (j - 1) + j = i + 1
          /\ ~(i <= j - 1)
      BY <1>4, <2>2
    <3>2. back[i - (j - 1)] = s[i + 1]
      BY <1>3, <3>1
    <3> QED
      BY <1>6, <2>2, <3>1, <3>2
  <2> QED
    BY <2>1, <2>2
<1> QED
  BY <1>6, <1>7 DEF r, n

(* Every set of naturals but the empty one has a least element. *)
LEMMA LeastElement ==
  ASSUME NEW S \in SUBSET Nat, S # {}
  PROVE  Min(S) \in S
<1> DEFINE R == {ss \in Nat \X Nat : ss[1] < ss[2]}
<1>1. IsWellFoundedOn(R, Nat)
  BY NatLessThanWellFounded DEF OpToRel
<1> HIDE DEF R
<1>2. PICK x \in S : \A y \in S : ~(<<y, x>> \in R)
  BY <1>1, WFMin
<1>3. ASSUME NEW y \in S PROVE x <= y
  <2>1. <<y, x>> \in Nat \X Nat /\ ~(<<y, x>> \in R)
    BY <1>2
  <2> QED
    BY <2>1 DEF R
<1> QED
  BY <1>3 DEF Min

-------------------------------------------------------------------------------
(* The decision memo: its list.                                            *)

Entry == [key : Keys, allowed : BOOLEAN, at : Nat]

(* No key twice. *)
Distinct(list) == \A i, j \in DOMAIN list : list[i].key = list[j].key => i = j

(* unlink_key() takes out whatever the list holds of the key: one entry,   *)
(* since there is no second.                                               *)
LEMMA UnlinkKey ==
  ASSUME entries \in Seq(Entry), Distinct(entries), NEW k
  PROVE  /\ Without(k) \in Seq(Entry)
         /\ Distinct(Without(k))
         /\ Len(Without(k)) <= Len(entries)
         /\ ToSet(Without(k)) \subseteq ToSet(entries)
         /\ \A e \in ToSet(Without(k)) : e.key # k
<1>1. PICK s \in Seq(Entry) : s = entries
  OBVIOUS
<1>2. Len(s) \in Nat /\ DOMAIN s = 1..Len(s)
  BY LenProperties
<1> DEFINE I == {i \in 1..Len(s) : s[i].key = k}
<1>3. CASE I = {}
  <2>1. Without(k) = s
    BY <1>1, <1>3 DEF Without, RemoveFirstMatch
  <2> QED
    BY <1>1, <1>2, <1>3, <2>1 DEF ToSet
<1>4. CASE I # {}
  <2>1. PICK j \in 1..Len(s) : s[j].key = k /\ Without(k) = RemoveAt(s, j)
    <3>1. I \in SUBSET Nat
      BY <1>2
    <3>2. Min(I) \in I
      BY <1>4, <3>1, LeastElement
    <3> QED
      BY <1>1, <3>2 DEF Without, RemoveFirstMatch, SelectInSeq
  <2> DEFINE r == Without(k)
             n == Len(s)
  <2>2. /\ r \in Seq(Entry) /\ Len(r) = n - 1
        /\ \A i \in 1..(n - 1) : r[i] = IF i < j THEN s[i] ELSE s[i + 1]
    BY <2>1, RemoveAtProperties
  <2>3. n \in Nat /\ j \in 1..n /\ DOMAIN s = 1..n
    BY <1>2
  <2> HIDE DEF r, n
  <2>4. DOMAIN r = 1..(n - 1) /\ Len(r) <= n
    BY <2>2, <2>3, LenProperties
  <2> DEFINE from(i) == IF i < j THEN i ELSE i + 1
  <2>5. /\ \A i \in DOMAIN r : from(i) \in 1..n /\ from(i) # j /\ r[i] = s[from(i)]
        /\ \A i, m \in DOMAIN r : from(i) = from(m) => i = m
    BY <2>2, <2>3, <2>4
  <2> HIDE DEF from
  <2>6. \A i, m \in 1..n : s[i].key = s[m].key => i = m
    BY <1>1, <2>3 DEF Distinct
  <2>7. Distinct(r)
    BY <2>5, <2>6 DEF Distinct
  <2>8. \A i \in DOMAIN r : r[i] \in ToSet(s) /\ r[i].key # k
    BY <2>1, <2>3, <2>5, <2>6 DEF ToSet, n
  <2>9. ToSet(r) \subseteq ToSet(s) /\ \A e \in ToSet(r) : e.key # k
    BY <2>8 DEF ToSet
  <2> QED
    BY <1>1, <2>2, <2>4, <2>7, <2>9 DEF r, n
<1> QED
  BY <1>3, <1>4

(* What the list holds. *)
LEMMA Listed ==
  ASSUME entries \in Seq(Entry)
  PROVE  \A e \in ToSet(entries) : e \in Entry
<1>1. PICK s \in Seq(Entry) : s = entries
  OBVIOUS
<1>2. DOMAIN s = 1..Len(s) /\ \A i \in 1..Len(s) : s[i] \in Entry
  BY LenProperties, ElementOfSeq
<1> QED
  BY <1>1, <1>2 DEF ToSet

(* A new entry for a key the list does not hold. *)
LEMMA AppendEntry ==
  ASSUME NEW s \in Seq(Entry), Distinct(s), NEW e \in Entry,
         \A f \in ToSet(s) : f.key # e.key
  PROVE  /\ Append(s, e) \in Seq(Entry)
         /\ Distinct(Append(s, e))
         /\ Len(Append(s, e)) = Len(s) + 1
         /\ ToSet(Append(s, e)) \subseteq ToSet(s) \cup {e}
<1> DEFINE r == Append(s, e)
           n == Len(s)
<1>1. /\ r \in Seq(Entry) /\ Len(r) = n + 1
      /\ \A i \in 1..n : r[i] = s[i]
      /\ r[n + 1] = e
  BY AppendProperties
<1>2. n \in Nat /\ DOMAIN s = 1..n
  BY LenProperties
<1> HIDE DEF r, n
<1>3. DOMAIN r = 1..(n + 1)
  BY <1>1, LenProperties
<1>4. \A i \in DOMAIN r : (i \in DOMAIN s /\ r[i] = s[i]) \/ (i = n + 1 /\ r[i] = e)
  BY <1>1, <1>2, <1>3
<1>5. \A i \in DOMAIN s : s[i].key # e.key
  BY DEF ToSet
<1>6. Distinct(r)
  BY <1>4, <1>5 DEF Distinct
<1>7. ToSet(r) \subseteq ToSet(s) \cup {e}
  BY <1>4 DEF ToSet
<1> QED
  BY <1>1, <1>6, <1>7 DEF r, n

(* Evicting the head makes room and loses nothing else. *)
LEMMA EvictHead ==
  ASSUME NEW s \in Seq(Entry), Distinct(s), Len(s) <= Cap + 1
  PROVE  /\ Evict(s) \in Seq(Entry)
         /\ Distinct(Evict(s))
         /\ Len(Evict(s)) <= Cap
         /\ ToSet(Evict(s)) \subseteq ToSet(s)
<1>1. Len(s) \in Nat /\ DOMAIN s = 1..Len(s) /\ Cap \in Nat
  BY LenProperties, CapAssumption
<1>2. CASE Len(s) > Cap
  <2> DEFINE r == Tail(s)
             n == Len(s)
  <2>1. s # <<>>
    BY <1>1, <1>2, EmptySeq
  <2>2. /\ r \in Seq(Entry) /\ Len(r) = n - 1
        /\ \A i \in 1..Len(r) : r[i] = s[i + 1]
    BY <2>1, HeadTailProperties
  <2>3. n \in Nat /\ DOMAIN s = 1..n /\ n <= Cap + 1 /\ Evict(s) = r
    BY <1>1, <1>2 DEF Evict
  <2> HIDE DEF r, n
  <2>4. DOMAIN r = 1..(n - 1)
    BY <2>2, LenProperties
  <2>5. \A i \in DOMAIN r : i + 1 \in DOMAIN s /\ r[i] = s[i + 1]
    BY <2>2, <2>3, <2>4
  <2>6. Distinct(r)
    BY <2>3, <2>4, <2>5 DEF Distinct
  <2>7. ToSet(r) \subseteq ToSet(s)
    BY <2>5 DEF ToSet
  <2> QED
    BY <1>1, <2>2, <2>3, <2>6, <2>7
<1>3. CASE ~(Len(s) > Cap)
  BY <1>1, <1>3 DEF Evict
<1> QED
  BY <1>2, <1>3

-------------------------------------------------------------------------------
(* The decision memo: its invariant.                                       *)

(* What a call keeps between its steps, and only then: the question while  *)
(* it is out, the body until it is read, a stamp no later than now.        *)
CallsKeepTheirPlace ==
  \A t \in Threads :
    /\ pc[t] = "idle" <=> key[t] = Null
    /\ pc[t] \in {"answered", "stamped"} <=> body[t] # Null
    /\ pc[t] = "stamped" => Enabled /\ stamp[t] <= now

MemoInv ==
  /\ TypeOK
  /\ Len(entries) <= Cap
  /\ Distinct(entries)
  /\ CallsKeepTheirPlace

(* An empty list. *)
LEMMA EmptyList ==
  <<>> \in Seq(Entry) /\ Len(<<>>) <= Cap /\ Distinct(<<>>) /\ ToSet(<<>>) = {}
BY EmptySeq, CapAssumption DEF Distinct, ToSet

(* A memo just made. *)
LEMMA InitMemo == Init => MemoInv
<1> SUFFICES ASSUME Init PROVE MemoInv
  OBVIOUS
<1>1. ttl \in 0..MaxTTL
  BY RequestedAssumption DEF Init, Effective
<1>2. TypeOK
  BY <1>1, EmptyList, MaxTimeAssumption DEF Init, TypeOK, Entry
<1>3. CallsKeepTheirPlace
  BY DEF Init, CallsKeepTheirPlace
<1> QED
  BY <1>2, <1>3, EmptyList DEF Init, MemoInv

(* A call that has come back keeps nothing, and its caller has the answer. *)
LEMMA ReturnPreserves ==
  ASSUME MemoInv, NEW t \in Threads, pc[t] \in {"answered", "stamped"}, Return(t)
  PROVE  /\ pc' \in [Threads -> {"idle", "asked", "answered", "stamped"}]
         /\ key' \in [Threads -> Keys \cup {Null}]
         /\ body' \in [Threads -> Bodies \cup {Null}]
         /\ stamp' \in [Threads -> 0..MaxTime]
         /\ got' \in [Threads -> [key : Keys, allowed : BOOLEAN] \cup {Null}]
         /\ ttl' = ttl /\ now' = now => CallsKeepTheirPlace'
<1>1. key[t] \in Keys /\ body[t] \in Bodies
  BY DEF MemoInv, TypeOK, CallsKeepTheirPlace
<1>2. /\ pc' \in [Threads -> {"idle", "asked", "answered", "stamped"}]
      /\ key' \in [Threads -> Keys \cup {Null}]
      /\ body' \in [Threads -> Bodies \cup {Null}]
      /\ stamp' \in [Threads -> 0..MaxTime]
  BY MaxTimeAssumption DEF MemoInv, TypeOK, Return
<1>3. got' \in [Threads -> [key : Keys, allowed : BOOLEAN] \cup {Null}]
  <2>1. PICK allowed \in BOOLEAN : allowed = Reading(body[t])
    BY DEF Reading
  <2>2. PICK k \in Keys : k = key[t]
    BY <1>1
  <2>3. PICK g : g = [key |-> k, allowed |-> allowed]
    OBVIOUS
  <2>4. g \in [key : Keys, allowed : BOOLEAN] /\ got' = [got EXCEPT ![t] = g]
    BY <2>1, <2>2, <2>3 DEF Return
  <2> QED
    BY <2>4 DEF MemoInv, TypeOK
<1>4. ASSUME ttl' = ttl, now' = now PROVE CallsKeepTheirPlace'
  BY <1>4 DEF MemoInv, TypeOK, CallsKeepTheirPlace, Return, Enabled
<1> QED
  BY <1>2, <1>3, <1>4

(* The decision is linked at the tail, in place of what was there for its  *)
(* key, and the list is what it was otherwise, or shorter.                 *)
LEMMA LinkedList ==
  ASSUME MemoInv, NEW t \in Threads, Link(t)
  PROVE  /\ entries' \in Seq(Entry)
         /\ Distinct(entries')
         /\ Len(entries') <= Cap
         /\ \A e \in ToSet(entries') :
              \/ e \in ToSet(entries) /\ e.key # key[t]
              \/ e = [key |-> key[t], allowed |-> Reading(body[t]), at |-> stamp[t]]
<1>1. PICK k \in Keys : k = key[t]
  BY DEF Link, MemoInv, TypeOK, CallsKeepTheirPlace
<1>2. PICK e \in Entry :
        e = [key |-> key[t], allowed |-> Reading(body[t]), at |-> stamp[t]]
  <2>1. PICK allowed \in BOOLEAN : allowed = Reading(body[t])
    BY DEF Reading
  <2>2. stamp[t] \in Nat
    BY MaxTimeAssumption DEF MemoInv, TypeOK
  <2>3. [key |-> k, allowed |-> allowed, at |-> stamp[t]] \in Entry
    BY <2>2 DEF Entry
  <2> QED
    BY <1>1, <2>1, <2>3
<1>3. entries \in Seq(Entry) /\ Distinct(entries) /\ Len(entries) <= Cap
  BY DEF MemoInv, TypeOK, Entry
<1>4. PICK r : r = Without(k)
  OBVIOUS
<1>5. /\ r \in Seq(Entry) /\ Distinct(r) /\ Len(r) <= Len(entries)
      /\ ToSet(r) \subseteq ToSet(entries)
      /\ \A f \in ToSet(r) : f.key # k
  BY <1>3, <1>4, UnlinkKey
<1>6. e.key = k
  BY <1>1, <1>2
<1>7. PICK s : s = Append(r, e)
  OBVIOUS
<1>8. /\ s \in Seq(Entry) /\ Distinct(s) /\ Len(s) = Len(r) + 1
      /\ ToSet(s) \subseteq ToSet(r) \cup {e}
  BY <1>5, <1>6, <1>7, AppendEntry
<1>9. entries' = Evict(s)
  BY <1>1, <1>2, <1>4, <1>7 DEF Link
<1>10. Len(s) <= Cap + 1
  <2>1. Len(r) \in Nat /\ Len(entries) \in Nat /\ Cap \in Nat
    BY <1>3, <1>5, LenProperties, CapAssumption
  <2> QED
    BY <1>3, <1>5, <1>8, <2>1
<1>11. /\ Evict(s) \in Seq(Entry) /\ Distinct(Evict(s)) /\ Len(Evict(s)) <= Cap
       /\ ToSet(Evict(s)) \subseteq ToSet(s)
  BY <1>8, <1>10, EvictHead
<1>12. \A f \in ToSet(Evict(s)) : (f \in ToSet(entries) /\ f.key # k) \/ f = e
  BY <1>5, <1>8, <1>11
<1> QED
  BY <1>1, <1>2, <1>9, <1>11, <1>12

(* Every step of the memo's callers, one by one. *)
LEMMA NextMemo == MemoInv /\ [Next]_vars => MemoInv'
<1> SUFFICES ASSUME MemoInv, [Next]_vars PROVE MemoInv'
  OBVIOUS
<1> USE MaxTimeAssumption, CapAssumption, NullAssumption DEF Entry
<1>0. entries \in Seq(Entry) /\ Distinct(entries) /\ Len(entries) \in Nat
  BY LenProperties DEF MemoInv, TypeOK
<1>1. ASSUME NEW t \in Threads, NEW k \in Keys, Hit(t, k) PROVE MemoInv'
  <2>1. PICK e \in ToSet(entries) :
          got' = [got EXCEPT ![t] = [key |-> k, allowed |-> e.allowed]]
    BY <1>1 DEF Hit, EntriesOf
  <2>2. PICK g \in [key : Keys, allowed : BOOLEAN] : g = [key |-> k, allowed |-> e.allowed]
    <3>1. e \in Entry
      BY <1>0, Listed
    <3> QED
      BY <3>1
  <2>3. got' \in [Threads -> [key : Keys, allowed : BOOLEAN] \cup {Null}]
    BY <2>1, <2>2 DEF MemoInv, TypeOK
  <2> QED
    BY <1>1, <2>3 DEF Hit, MemoInv, TypeOK, CallsKeepTheirPlace, Enabled
<1>2. ASSUME NEW t \in Threads, NEW k \in Keys, Miss(t, k) PROVE MemoInv'
  <2>1. /\ Without(k) \in Seq(Entry) /\ Distinct(Without(k))
        /\ Len(Without(k)) <= Len(entries)
    BY <1>0, UnlinkKey
  <2>2. /\ entries' \in Seq(Entry) /\ Distinct(entries')
        /\ Len(entries') <= Cap
    <3>1. entries' = Without(k) /\ Len(entries) <= Cap
      BY <1>2 DEF Miss, MemoInv
    <3>2. Len(Without(k)) \in Nat
      BY <2>1, LenProperties
    <3> QED
      BY <1>0, <2>1, <3>1, <3>2
  <2>3. TypeOK'
    BY <1>2, <2>2 DEF Miss, MemoInv, TypeOK
  <2>4. CallsKeepTheirPlace'
    BY <1>2 DEF Miss, MemoInv, TypeOK, CallsKeepTheirPlace, Enabled
  <2> QED
    BY <2>2, <2>3, <2>4 DEF MemoInv
<1>3. ASSUME NEW t \in Threads, NEW b \in Bodies, Answer(t, b) PROVE MemoInv'
  BY <1>3 DEF Answer, MemoInv, TypeOK, CallsKeepTheirPlace, Enabled
<1>4. ASSUME NEW t \in Threads, Fail(t) PROVE MemoInv'
  BY <1>4 DEF Fail, MemoInv, TypeOK, CallsKeepTheirPlace, Enabled
<1>5. ASSUME NEW t \in Threads, Drop(t) PROVE MemoInv'
  <2>1. Return(t) /\ pc[t] \in {"answered", "stamped"} /\ UNCHANGED <<ttl, entries, now>>
    BY <1>5 DEF Drop
  <2> QED
    BY <2>1, ReturnPreserves DEF MemoInv, TypeOK
<1>6. ASSUME NEW t \in Threads, Stamp(t) PROVE MemoInv'
  BY <1>6 DEF Stamp, MemoInv, TypeOK, CallsKeepTheirPlace, Enabled
<1>7. ASSUME NEW t \in Threads, Link(t) PROVE MemoInv'
  <2>1. Return(t) /\ pc[t] \in {"answered", "stamped"} /\ UNCHANGED <<ttl, now>>
    BY <1>7 DEF Link
  <2>2. /\ entries' \in Seq(Entry) /\ Distinct(entries')
        /\ Len(entries') <= Cap
    BY <1>7, LinkedList
  <2> QED
    BY <2>1, <2>2, ReturnPreserves DEF MemoInv, TypeOK
<1>8. CASE Clear
  <2>1. entries' = <<>>
    BY <1>8 DEF Clear
  <2>2. entries' \in Seq(Entry) /\ Distinct(entries') /\ Len(entries') <= Cap
    BY <2>1, EmptyList
  <2> QED
    BY <1>8, <2>2 DEF Clear, MemoInv, TypeOK, CallsKeepTheirPlace, Enabled
<1>9. CASE Tick
  BY <1>9 DEF Tick, MemoInv, TypeOK, CallsKeepTheirPlace, Enabled
<1>10. CASE UNCHANGED vars
  BY <1>10 DEF vars, MemoInv, TypeOK, CallsKeepTheirPlace, Enabled
<1> QED
  BY <1>1, <1>2, <1>3, <1>4, <1>5, <1>6, <1>7, <1>8, <1>9, <1>10 DEF Next

(* The memo's invariant. *)
THEOREM MemoInductive == Spec => []MemoInv
BY InitMemo, NextMemo, PTL DEF Spec

(* The list never outgrows the cap and never holds a key twice, however    *)
(* many threads put and look up at a time: axiam_memo_put(),               *)
(* axiam_memo_get().                                                       *)
THEOREM MemoBounded == Spec => []BoundedAndUnique
<1>1. MemoInv => BoundedAndUnique
  BY DEF MemoInv, Distinct, BoundedAndUnique
<1> QED
  BY <1>1, MemoInductive, PTL

-------------------------------------------------------------------------------
(* The decision memo: it implements DecisionCache.                         *)

(* What the abstract cache remembers of a key is the entry the list holds. *)
BarFollowsList ==
  \A k \in Keys :
    /\ EntriesOf(k) = {} => CacheBar[k] = Null
    /\ \A e \in EntriesOf(k) : CacheBar[k] = [allowed |-> e.allowed, at |-> e.at]

(* That follows from the invariant: a key has one entry to choose. *)
LEMMA BarOfList == MemoInv => BarFollowsList
<1> SUFFICES ASSUME MemoInv, NEW k \in Keys
             PROVE  /\ EntriesOf(k) = {} => CacheBar[k] = Null
                    /\ \A e \in EntriesOf(k) : CacheBar[k] = [allowed |-> e.allowed, at |-> e.at]
  BY DEF BarFollowsList
<1>1. EntriesOf(k) = {} => CacheBar[k] = Null
  BY DEF CacheBar
<1>2. ASSUME NEW e \in EntriesOf(k) PROVE CacheBar[k] = [allowed |-> e.allowed, at |-> e.at]
  <2>1. \A f \in EntriesOf(k) : f = e
    BY DEF MemoInv, Distinct, EntriesOf, ToSet
  <2>2. (CHOOSE f \in EntriesOf(k) : TRUE) = e
    BY <2>1
  <2> QED
    BY <2>2 DEF CacheBar
<1> QED
  BY <1>1, <1>2

(* The same after a step. *)
LEMMA BarOfListNext == MemoInv' => BarFollowsList'
BY BarOfList, PTL

(* An entry served is remembered, and nothing is not a memory. *)
LEMMA Remembered ==
  ASSUME MemoInv, NEW k \in Keys, NEW e \in EntriesOf(k)
  PROVE  /\ CacheBar[k] # Null
         /\ CacheBar[k].at = e.at
         /\ CacheBar[k].allowed = e.allowed
<1>1. e \in Entry
  BY Listed DEF EntriesOf, MemoInv, TypeOK, Entry
<1>2. CacheBar[k] = [allowed |-> e.allowed, at |-> e.at]
  BY BarOfList DEF BarFollowsList
<1>3. [allowed |-> e.allowed, at |-> e.at] \in [allowed : BOOLEAN, at : Nat]
  BY <1>1 DEF Entry
<1> QED
  BY <1>2, <1>3, NullAssumption

(* A list that only lost entries is a cache that forgot. *)
LEMMA LosingForgets ==
  ASSUME MemoInv, MemoInv', \A e \in ToSet(entries') : e \in ToSet(entries)
  PROVE  Abstract!Forgets(CacheBar, CacheBar')
<1> SUFFICES ASSUME NEW k \in Keys PROVE CacheBar'[k] \in {CacheBar[k], Null}
  BY DEF Abstract!Forgets
<1>1. BarFollowsList /\ BarFollowsList'
  BY BarOfList, BarOfListNext
<1>2. CASE EntriesOf(k)' = {}
  BY <1>1, <1>2 DEF BarFollowsList
<1>3. CASE EntriesOf(k)' # {}
  <2>1. PICK e \in EntriesOf(k)' : TRUE
    BY <1>3
  <2>2. e \in EntriesOf(k)
    BY <2>1 DEF EntriesOf
  <2>3. CacheBar[k] = [allowed |-> e.allowed, at |-> e.at]
    BY <1>1, <2>2 DEF BarFollowsList
  <2>4. CacheBar'[k] = [allowed |-> e.allowed, at |-> e.at]
    BY <1>1, <2>1 DEF BarFollowsList
  <2> QED
    BY <2>3, <2>4
<1> QED
  BY <1>2, <1>3

(* An empty list is an empty cache. *)
LEMMA InitIsCache == Init => Abstract!Init
<1> SUFFICES ASSUME Init PROVE Abstract!Init
  OBVIOUS
<1>1. MemoInv
  BY InitMemo
<1>2. CacheBar = [k \in Keys |-> Null]
  <2>1. \A k \in Keys : EntriesOf(k) = {}
    BY EmptyList DEF Init, EntriesOf
  <2> QED
    BY <2>1 DEF CacheBar
<1>3. ttl \in Nat
  BY <1>1, RequestedAssumption DEF MemoInv, TypeOK
<1> QED
  BY <1>2, <1>3 DEF Init, Abstract!Init

(* A hit serves. *)
LEMMA HitServes ==
  ASSUME MemoInv, NEW t \in Threads, NEW k \in Keys, Hit(t, k)
  PROVE  Abstract!Serve(t, k)
<1>1. PICK e \in EntriesOf(k) :
        Fresh(e) /\ got' = [got EXCEPT ![t] = [key |-> k, allowed |-> e.allowed]]
  BY DEF Hit
<1>2. /\ CacheBar[k] # Null
      /\ CacheBar[k].at = e.at
      /\ CacheBar[k].allowed = e.allowed
  BY Remembered
<1>3. key[t] = Null
  BY DEF Hit, MemoInv, CallsKeepTheirPlace
<1>4. CacheBar' = CacheBar
  BY DEF Hit, CacheBar, EntriesOf
<1> QED
  BY <1>1, <1>2, <1>3, <1>4 DEF Hit, Fresh, Abstract!Serve

(* A miss asks, and may forget an entry too old. *)
LEMMA MissAsks ==
  ASSUME MemoInv, MemoInv', NEW t \in Threads, NEW k \in Keys, Miss(t, k)
  PROVE  Abstract!Ask(t, k)
<1>1. ToSet(Without(k)) \subseteq ToSet(entries)
  BY UnlinkKey DEF MemoInv, TypeOK, Entry
<1>2. Abstract!Forgets(CacheBar, CacheBar')
  BY <1>1, LosingForgets DEF Miss
<1>3. key[t] = Null
  BY DEF Miss, MemoInv, CallsKeepTheirPlace
<1> QED
  BY <1>2, <1>3 DEF Miss, Abstract!Ask

(* The list as it is, the cache as it is. *)
LEMMA SameList == entries' = entries => CacheBar' = CacheBar
BY DEF CacheBar, EntriesOf

(* A call that returns is answered with what the server told it; if its    *)
(* decision is kept, it is dated no later than now.                        *)
LEMMA ReturnConcludes ==
  ASSUME MemoInv, MemoInv', NEW t \in Threads, Drop(t) \/ Link(t)
  PROVE  Abstract!Conclude(t)
<1>1. /\ Return(t) /\ pc[t] \in {"answered", "stamped"}
      /\ UNCHANGED <<ttl, now>>
  BY DEF Drop, Link
<1>2. body[t] # Null
  BY <1>1 DEF MemoInv, CallsKeepTheirPlace
<1>3. /\ got' = [got EXCEPT ![t] = [key |-> key[t], allowed |-> Abstract!Allows(body[t])]]
      /\ key' = [key EXCEPT ![t] = Null]
      /\ body' = [body EXCEPT ![t] = Null]
  BY <1>1 DEF Return, Reading, Abstract!Allows
<1>4. CASE Drop(t)
  <2>1. \A e \in ToSet(entries') : e \in ToSet(entries)
    BY <1>4 DEF Drop
  <2>2. Abstract!Forgets(CacheBar, CacheBar')
    BY <2>1, LosingForgets
  <2> QED
    BY <1>1, <1>2, <1>3, <2>2 DEF Abstract!Conclude
<1>5. CASE Link(t)
  <2> DEFINE new == [allowed |-> Abstract!Allows(body[t]), at |-> stamp[t]]
  <2>1. ttl > 0 /\ stamp[t] \in 0..now
    BY <1>5, MaxTimeAssumption DEF Link, MemoInv, TypeOK, CallsKeepTheirPlace, Enabled
  <2>2. Abstract!Forgets([CacheBar EXCEPT ![key[t]] = new], CacheBar')
    <3> SUFFICES ASSUME NEW k \in Keys
                 PROVE  CacheBar'[k] \in {[CacheBar EXCEPT ![key[t]] = new][k], Null}
      BY DEF Abstract!Forgets
    <3>1. BarFollowsList /\ BarFollowsList'
      BY BarOfList, BarOfListNext
    <3>2. CASE EntriesOf(k)' = {}
      BY <3>1, <3>2 DEF BarFollowsList
    <3>3. CASE EntriesOf(k)' # {}
      <4>1. PICK e \in ToSet(entries') : e \in EntriesOf(k)' /\ e.key = k
        BY <3>3 DEF EntriesOf
      <4>2. CacheBar'[k] = [allowed |-> e.allowed, at |-> e.at]
        BY <3>1, <4>1 DEF BarFollowsList
      <4>3. \/ e \in ToSet(entries) /\ e.key # key[t]
            \/ e = [key |-> key[t], allowed |-> Reading(body[t]), at |-> stamp[t]]
        BY <1>5, LinkedList
      <4>4. CASE e \in ToSet(entries) /\ e.key # key[t]
        <5>1. CacheBar[k] = [allowed |-> e.allowed, at |-> e.at]
          BY <3>1, <4>1, <4>4 DEF BarFollowsList, EntriesOf
        <5> QED
          BY <4>1, <4>2, <4>4, <5>1 DEF CacheBar
      <4>5. CASE e = [key |-> key[t], allowed |-> Reading(body[t]), at |-> stamp[t]]
        <5>1. CacheBar'[k] = new /\ k = key[t]
          BY <4>1, <4>2, <4>5 DEF Reading, Abstract!Allows
        <5> QED
          BY <5>1 DEF CacheBar
      <4> QED
        BY <4>3, <4>4, <4>5
    <3> QED
      BY <3>2, <3>3
  <2> QED
    BY <1>1, <1>2, <1>3, <2>1, <2>2 DEF Abstract!Conclude
<1> QED
  BY <1>4, <1>5

(* Every step is one of the abstract cache, or changes nothing of it. *)
LEMMA StepIsCached ==
  MemoInv /\ MemoInv' /\ [Next]_vars => [Abstract!Next]_(Abstract!vars)
<1> SUFFICES ASSUME MemoInv, MemoInv', [Next]_vars PROVE [Abstract!Next]_(Abstract!vars)
  OBVIOUS
<1>1. ASSUME NEW t \in Threads, NEW k \in Keys, Hit(t, k) PROVE Abstract!Next
  BY <1>1, HitServes DEF Abstract!Next
<1>2. ASSUME NEW t \in Threads, NEW k \in Keys, Miss(t, k) PROVE Abstract!Next
  BY <1>2, MissAsks DEF Abstract!Next
<1>3. ASSUME NEW t \in Threads, NEW b \in Bodies, Answer(t, b) PROVE Abstract!Next
  <2>1. key[t] # Null /\ body[t] = Null
    BY <1>3 DEF Answer, MemoInv, CallsKeepTheirPlace
  <2>2. Abstract!Tell(t, b)
    BY <1>3, <2>1, SameList DEF Answer, Abstract!Tell
  <2> QED
    BY <2>2 DEF Abstract!Next
<1>4. ASSUME NEW t \in Threads, Fail(t) PROVE Abstract!Next
  <2>1. key[t] # Null /\ body[t] = Null
    BY <1>4 DEF Fail, MemoInv, CallsKeepTheirPlace
  <2>2. Abstract!GiveUp(t)
    BY <1>4, <2>1, SameList DEF Fail, Abstract!GiveUp
  <2> QED
    BY <2>2 DEF Abstract!Next
<1>5. ASSUME NEW t \in Threads, Drop(t) \/ Link(t) PROVE Abstract!Next
  BY <1>5, ReturnConcludes DEF Abstract!Next
<1>6. ASSUME NEW t \in Threads, Stamp(t) PROVE UNCHANGED Abstract!vars
  BY <1>6, SameList DEF Stamp, Abstract!vars
<1>7. ASSUME Clear PROVE Abstract!Next
  <2>1. \A e \in ToSet(entries') : e \in ToSet(entries)
    BY <1>7, EmptyList DEF Clear
  <2>2. Abstract!Forget
    BY <1>7, <2>1, LosingForgets DEF Clear, Abstract!Forget
  <2> QED
    BY <2>2 DEF Abstract!Next
<1>8. ASSUME Tick PROVE Abstract!Next
  <2>1. Abstract!Tick
    BY <1>8, SameList DEF Tick, Abstract!Tick
  <2> QED
    BY <2>1 DEF Abstract!Next
<1>9. ASSUME UNCHANGED vars PROVE UNCHANGED Abstract!vars
  BY <1>9, SameList DEF vars, Abstract!vars
<1> QED
  BY <1>1, <1>2, <1>3, <1>4, <1>5, <1>6, <1>7, <1>8, <1>9 DEF Next

(* A check answered from the memo gives what the server said of that very  *)
(* question, stored under the TTL ago: the list, its lock, its late stamp, *)
(* its evictions and its clears (src/memo.c) implement a cache that may    *)
(* forget and never errs.                                                  *)
THEOREM MemoRefines == Spec => MemoIsACache
<1>1. Init => Abstract!Init
  BY InitIsCache
<1>2. MemoInv /\ MemoInv' /\ [Next]_vars => [Abstract!Next]_(Abstract!vars)
  BY StepIsCached
<1> QED
  BY <1>1, <1>2, MemoInductive, PTL DEF Spec, MemoIsACache, Abstract!Spec

-------------------------------------------------------------------------------
(* Discovery and the code flow: the invariant.                             *)

Steps == {"idle", "asking", "fetching", "landing", "ready", "verifying", "accepted"}
Names == {"this", "other", "none"}
Token == [issuer : Names, party : Names, nonce : Requests \cup {"none"},
          aud : Seq(Names), azp : Names, minted : Nat]
Call == [step : Steps, goal : {"none", "begin", "exchange", "uma"},
         request : Requests \cup {"none"}, number : Nat, since : Nat, seen : Nat,
         token : Token]

CodeTypeOK ==
  /\ which \in {"oidc", "uma"}
  /\ time \in Nat
  /\ document \in 1..MaxDocuments
  /\ retired \in [1..MaxDocuments -> Nat]
  /\ cached \in [number : Nat, at : Nat]
  /\ mutex \in Callers \cup {NoOne}
  /\ call \in [Callers -> Call]
  /\ newest \in Nat

(* A document that was served at an instant had not been retired before.   *)
ServedAt(number, instant) ==
  /\ number \in 1..document
  /\ number = document \/ retired[number] >= instant

(* A fetch ends within its transit, and what it brings was served since it *)
(* was sent.                                                               *)
FetchesAreRecent(c) ==
  /\ call[c].step \in {"fetching", "landing"} =>
       call[c].since <= time /\ time <= call[c].since + MaxTransit
  /\ At(c, "landing") => ServedAt(call[c].number, call[c].since)

(* What is cached was served a transit before it landed at the earliest;   *)
(* what is handed over, a transit and a lifetime before.                   *)
CacheIsRecent ==
  cached.number # 0 =>
    cached.at <= time /\ ServedAt(cached.number, cached.at - MaxTransit)

HandedIsRecent(c) ==
  At(c, "ready") =>
    /\ call[c].since <= time
    /\ ServedAt(call[c].number, call[c].since + 1 - Ttl - MaxTransit)

(* The OIDC document: one call fetches at a time, it holds the lock, and   *)
(* nobody has been handed a newer document than the one cached, nor than   *)
(* the one that is about to land.                                          *)
OneFetches(c) ==
  which = "oidc" =>
    /\ call[c].step \in {"fetching", "landing"} <=> mutex = c
    /\ call[c].seen <= newest
    /\ At(c, "landing") => call[c].number >= newest
    /\ At(c, "ready") => call[c].number >= call[c].seen

CacheIsNewest == which = "oidc" => newest <= cached.number

(* A token under judgement was minted for one party, and says so; once it  *)
(* is accepted, for this one, by this issuer and for this request.         *)
ForItsParty(t) ==
  \/ t.aud = <<t.party>> /\ t.azp = "none"
  \/ t.aud = <<OtherParty(t.party), t.party>> /\ t.azp = t.party

TokensAreMinted(c) ==
  /\ At(c, "verifying") => ForItsParty(call[c].token)
  /\ At(c, "accepted") =>
       /\ call[c].token.issuer = "this"
       /\ call[c].token.party = "this"
       /\ call[c].token.nonce = call[c].request
       /\ call[c].since <= call[c].token.minted + TokenLife + Skew

CodeInv ==
  /\ CodeTypeOK
  /\ CacheIsRecent
  /\ CacheIsNewest
  /\ \A c \in Callers :
       /\ FetchesAreRecent(c)
       /\ HandedIsRecent(c)
       /\ OneFetches(c)
       /\ TokensAreMinted(c)

(* The lifetimes are positive, and the bounds are numbers. *)
LEMMA Lifetimes ==
  /\ Ttl \in Nat \ {0} /\ MaxTransit \in Nat /\ TokenLife \in Nat /\ Skew \in Nat
  /\ MaxDocuments \in Nat \ {0} /\ NoOne \notin Callers
BY CodeFlowAssumption DEF Ttl

(* A call at rest has a type. *)
LEMMA RestingTyped == NoToken \in Token /\ Resting \in Call
<1>1. <<>> \in Seq(Names)
  BY EmptySeq
<1>2. NoToken \in Token
  BY <1>1 DEF NoToken, Token, Names
<1> QED
  BY <1>2 DEF Resting, Call, Steps

(* Nothing cached, nobody asking. *)
LEMMA InitCode == CodeInit => CodeInv
<1> SUFFICES ASSUME CodeInit PROVE CodeInv
  OBVIOUS
<1>1. CodeTypeOK
  BY RestingTyped, Lifetimes DEF CodeInit, CodeTypeOK, Nothing
<1>2. \A c \in Callers : call[c].step = "idle" /\ call[c].seen = 0
  BY DEF CodeInit, Resting
<1>3. CacheIsRecent /\ CacheIsNewest
  BY DEF CodeInit, CacheIsRecent, CacheIsNewest, Nothing
<1>4. ASSUME NEW c \in Callers
      PROVE  FetchesAreRecent(c) /\ HandedIsRecent(c) /\ TokensAreMinted(c)
  BY <1>2 DEF FetchesAreRecent, HandedIsRecent, TokensAreMinted, At
<1>5. ASSUME NEW c \in Callers PROVE OneFetches(c)
  BY <1>2, Lifetimes DEF OneFetches, At, CodeInit
<1> QED
  BY <1>1, <1>3, <1>4, <1>5 DEF CodeInv

(* What the organization's servers mint names its party. *)
LEMMA MintedShape ==
  ASSUME time \in Nat, NEW issuer \in {"this", "other"}, NEW party \in {"this", "other"},
         NEW nonce \in Requests \cup {"none"}, NEW t \in MintedFor(issuer, party, nonce)
  PROVE  t \in Token /\ ForItsParty(t)
<1>1. OtherParty(party) \in {"this", "other"}
  BY DEF OtherParty
<1>2. \/ t = [issuer |-> issuer, party |-> party, nonce |-> nonce, aud |-> <<party>>,
              azp |-> "none", minted |-> time]
      \/ t = [issuer |-> issuer, party |-> party, nonce |-> nonce,
              aud |-> <<OtherParty(party), party>>, azp |-> party, minted |-> time]
  BY DEF MintedFor
<1>3. <<party>> \in Seq(Names) /\ <<OtherParty(party), party>> \in Seq(Names)
  BY <1>1 DEF Names
<1>4. t \in Token
  <2>1. PICK aud \in Seq(Names), azp \in Names :
          t = [issuer |-> issuer, party |-> party, nonce |-> nonce, aud |-> aud,
               azp |-> azp, minted |-> time]
    <3>1. "none" \in Names /\ party \in Names
      BY DEF Names
    <3> QED
      BY <1>2, <1>3, <3>1
  <2>2. issuer \in Names /\ party \in Names
    BY DEF Names
  <2> QED
    BY <2>1, <2>2 DEF Token
<1>5. ForItsParty(t)
  BY <1>2 DEF ForItsParty
<1> QED
  BY <1>4, <1>5

(* So does whatever token an answer carries. *)
LEMMA GenuineShape ==
  ASSUME time \in Nat, NEW request \in Requests \cup {"none"}, NEW t \in Genuine(request)
  PROVE  t \in Token /\ ForItsParty(t)
<1>1. \/ t \in MintedFor("this", "this", request)
      \/ t \in MintedFor("other", "this", request)
      \/ t \in MintedFor("this", "other", request)
      \/ \E r \in Requests : t \in MintedFor("this", "this", r)
  BY DEF Genuine
<1> QED
  BY <1>1, MintedShape

(* A token that names its party and passes the judgement is for this party. *)
LEMMA JudgedForThis ==
  ASSUME NEW t \in Token, ForItsParty(t), AudienceOk(t.aud, t.azp)
  PROVE  t.party = "this"
<1>1. CASE t.aud = <<t.party>>
  BY <1>1 DEF AudienceOk
<1>2. CASE t.aud = <<OtherParty(t.party), t.party>> /\ t.azp = t.party
  <2>1. Len(t.aud) > 1
    BY <1>2
  <2> QED
    BY <1>2, <2>1 DEF AudienceOk
<1> QED
  BY <1>1, <1>2 DEF ForItsParty

(* A step of one call, when the documents and the clock stand still: what  *)
(* the invariant asks is asked of that call alone, if the lock and what    *)
(* others have been handed stay sound.                                     *)
LEMMA OneCallMoves ==
  ASSUME CodeInv, NEW c \in Callers, NEW r \in Call, Move(c, r),
         UNCHANGED <<which, time, document, retired>>,
         cached' \in [number : Nat, at : Nat], mutex' \in Callers \cup {NoOne},
         newest' \in Nat, CacheIsRecent', CacheIsNewest',
         newest' >= newest,
         \A d \in Callers \ {c} :
           which = "oidc" => (mutex' = d <=> mutex = d) /\ (mutex = d => newest' = newest),
         FetchesAreRecent(c)', HandedIsRecent(c)', OneFetches(c)', TokensAreMinted(c)'
  PROVE  CodeInv'
<1>1. /\ call' \in [Callers -> Call]
      /\ \A d \in Callers \ {c} : call'[d] = call[d]
  BY DEF CodeInv, CodeTypeOK, Move
<1>2. CodeTypeOK'
  BY <1>1 DEF CodeInv, CodeTypeOK
<1>3. ASSUME NEW d \in Callers, d # c
      PROVE  FetchesAreRecent(d)' /\ HandedIsRecent(d)' /\ TokensAreMinted(d)'
  <2>1. FetchesAreRecent(d) /\ HandedIsRecent(d) /\ TokensAreMinted(d) /\ call'[d] = call[d]
    BY <1>1, <1>3 DEF CodeInv
  <2> QED
    BY <2>1 DEF FetchesAreRecent, HandedIsRecent, TokensAreMinted, ServedAt, At, Ttl
<1>4. ASSUME NEW d \in Callers, d # c PROVE OneFetches(d)'
  <2>1. /\ OneFetches(d) /\ call'[d] = call[d]
        /\ call[d].seen \in Nat /\ newest \in Nat /\ newest' \in Nat
    BY <1>1, <1>4 DEF CodeInv, CodeTypeOK, Call
  <2> QED
    BY <1>4, <2>1 DEF OneFetches, At
<1> QED
  BY <1>2, <1>3, <1>4 DEF CodeInv

(* The steps that touch neither lock, cache nor history, and leave the call *)
(* outside a fetch and without a document.                                 *)
LEMMA QuietMove ==
  ASSUME CodeInv, NEW c \in Callers, NEW r \in Call, Move(c, r),
         UNCHANGED <<which, time, document, retired, cached, mutex, newest>>,
         call[c].step \notin {"fetching", "landing"},
         r.step \notin {"fetching", "landing", "ready"},
         which = "oidc" => r.seen <= newest,
         TokensAreMinted(c)'
  PROVE  CodeInv'
<1>1. call'[c] = r
  BY DEF Move, CodeInv, CodeTypeOK
<1>2. FetchesAreRecent(c)' /\ HandedIsRecent(c)'
  BY <1>1 DEF FetchesAreRecent, HandedIsRecent, At
<1>3. OneFetches(c)'
  BY <1>1 DEF OneFetches, At, CodeInv
<1>4. CacheIsRecent' /\ CacheIsNewest'
  BY DEF CodeInv, CacheIsRecent, CacheIsNewest, ServedAt
<1>5. cached' \in [number : Nat, at : Nat] /\ mutex' \in Callers \cup {NoOne}
      /\ newest' \in Nat /\ newest' >= newest
  BY DEF CodeInv, CodeTypeOK
<1> QED
  BY <1>2, <1>3, <1>4, <1>5, OneCallMoves

(* A call that is over, other than one that was fetching. *)
LEMMA RestPreserves ==
  ASSUME CodeInv, NEW c \in Callers, Move(c, Resting),
         UNCHANGED <<which, time, document, retired, cached, mutex, newest>>,
         call[c].step \notin {"fetching", "landing"}
  PROVE  CodeInv'
<1>1. call'[c] = Resting
  BY DEF Move, CodeInv, CodeTypeOK
<1>2. TokensAreMinted(c)'
  BY <1>1 DEF TokensAreMinted, At, Resting
<1>3. Resting.seen = 0 /\ Resting.step = "idle" /\ newest \in Nat
  BY DEF Resting, CodeInv, CodeTypeOK
<1> QED
  BY <1>2, <1>3, QuietMove, RestingTyped

(* What every call is typed as. *)
LEMMA CallTyped ==
  ASSUME CodeInv, NEW c \in Callers
  PROVE  /\ call[c] \in Call
         /\ call[c].number \in Nat /\ call[c].since \in Nat /\ call[c].seen \in Nat
         /\ call[c].token \in Token
         /\ call[c].token.minted \in Nat
         /\ call[c].request \in Requests \cup {"none"}
         /\ time \in Nat /\ newest \in Nat
BY DEF CodeInv, CodeTypeOK, Call, Token

(* A call notes the newest document that anyone was handed before it. *)
LEMMA DiscoverPreserves ==
  ASSUME CodeInv, NEW c \in Callers, Discover(c)
  PROVE  CodeInv'
<1>1. PICK goal \in {"begin", "exchange", "uma"}, request \in Requests :
        Move(c, [call[c] EXCEPT !.step = "asking", !.goal = goal, !.request = request,
                                !.seen = newest])
  BY DEF Discover
<1>2. PICK r : r = [call[c] EXCEPT !.step = "asking", !.goal = goal, !.request = request,
                                   !.seen = newest]
  OBVIOUS
<1>3. r \in Call /\ r.step = "asking" /\ r.seen = newest
  BY <1>2, CallTyped DEF Call, Steps
<1>4. Move(c, r) /\ call'[c] = r
  BY <1>1, <1>2 DEF Move, CodeInv, CodeTypeOK
<1>5. TokensAreMinted(c)'
  BY <1>3, <1>4 DEF TokensAreMinted, At
<1>6. /\ UNCHANGED <<which, time, document, retired, cached, mutex, newest>>
      /\ call[c].step \notin {"fetching", "landing"}
  BY DEF Discover, At
<1> QED
  BY <1>3, <1>4, <1>5, <1>6, CallTyped, QuietMove

(* The token of an answer is judged as it was minted. *)
LEMMA ExchangedPreserves ==
  ASSUME CodeInv, NEW c \in Callers, Exchanged(c)
  PROVE  CodeInv'
<1>1. /\ UNCHANGED <<which, time, document, retired, cached, mutex, newest>>
      /\ call[c].step \notin {"fetching", "landing"}
  BY DEF Exchanged, At
<1>2. CASE Move(c, Resting)
  BY <1>1, <1>2, RestPreserves
<1>3. ASSUME NEW t \in Genuine(call[c].request),
             Move(c, [Resting EXCEPT !.step = "verifying", !.request = call[c].request,
                                     !.token = t])
      PROVE  CodeInv'
  <2>1. PICK request \in Requests \cup {"none"} : request = call[c].request
    BY CallTyped
  <2>2. t \in Token /\ ForItsParty(t)
    BY <1>3, <2>1, GenuineShape, CallTyped
  <2>3. PICK r : r = [Resting EXCEPT !.step = "verifying", !.request = request, !.token = t]
    OBVIOUS
  <2>4. r \in Call /\ r.step = "verifying" /\ r.seen = 0 /\ r.token = t
    BY <2>2, <2>3, RestingTyped DEF Call, Steps, Resting
  <2>5. Move(c, r) /\ call'[c] = r
    BY <1>3, <2>1, <2>3 DEF Move, CodeInv, CodeTypeOK
  <2>6. TokensAreMinted(c)'
    BY <2>2, <2>4, <2>5 DEF TokensAreMinted, At
  <2>7. r.seen <= newest
    BY <2>4, CallTyped
  <2> QED
    BY <1>1, <2>4, <2>5, <2>6, <2>7, QuietMove
<1> QED
  BY <1>2, <1>3 DEF Exchanged

(* A token accepted has passed the judgement. *)
LEMMA AcceptPreserves ==
  ASSUME CodeInv, NEW c \in Callers, Accept(c)
  PROVE  CodeInv'
<1>1. PICK r : r = [call[c] EXCEPT !.step = "accepted", !.since = time]
  OBVIOUS
<1>2. /\ r \in Call /\ r.step = "accepted" /\ r.seen = call[c].seen /\ r.since = time
      /\ r.token = call[c].token /\ r.request = call[c].request
  BY <1>1, CallTyped DEF Call, Steps
<1>3. Move(c, r) /\ call'[c] = r
  BY <1>1 DEF Accept, Move, CodeInv, CodeTypeOK
<1>4. /\ call[c].token.issuer = "this" /\ AudienceOk(call[c].token.aud, call[c].token.azp)
      /\ Live(call[c].token) /\ call[c].token.nonce = call[c].request
      /\ At(c, "verifying")
      /\ UNCHANGED <<which, time, document, retired, cached, mutex, newest>>
  BY DEF Accept, CheckIdClaims
<1>5. call[c].token.party = "this"
  <2>1. PICK t \in Token : t = call[c].token
    BY CallTyped
  <2>2. ForItsParty(t)
    BY <1>4, <2>1 DEF CodeInv, TokensAreMinted
  <2> QED
    BY <1>4, <2>1, <2>2, JudgedForThis
<1>6. TokensAreMinted(c)'
  BY <1>2, <1>3, <1>4, <1>5 DEF TokensAreMinted, At, Live
<1>7. which = "oidc" => r.seen <= newest
  BY <1>2 DEF CodeInv, OneFetches
<1>8. call[c].step \notin {"fetching", "landing"}
  BY <1>4 DEF At
<1> QED
  BY <1>2, <1>3, <1>4, <1>6, <1>7, <1>8, QuietMove

(* A copy of the cached document is handed over. *)
LEMMA LookUpPreserves ==
  ASSUME CodeInv, NEW c \in Callers, LookUp(c)
  PROVE  CodeInv'
<1>1. PICK r : r = [call[c] EXCEPT !.step = "ready", !.number = cached.number, !.since = time]
  OBVIOUS
<1>2. /\ r \in Call /\ r.step = "ready" /\ r.seen = call[c].seen /\ r.since = time
      /\ r.number = cached.number
  BY <1>1, CallTyped DEF Call, Steps, CodeInv, CodeTypeOK
<1>3. Move(c, r) /\ call'[c] = r
  BY <1>1 DEF LookUp, Handed, Move, CodeInv, CodeTypeOK
<1>4. /\ UNCHANGED <<which, time, document, retired, cached, mutex>>
      /\ newest' = IF which = "oidc" /\ cached.number > newest THEN cached.number ELSE newest
      /\ which = "oidc" => mutex = NoOne
      /\ cached.number # 0 /\ time - cached.at < Ttl
      /\ call[c].step \notin {"fetching", "landing"}
  BY DEF LookUp, Handed, MayLook, DocumentFresh, At
<1>5. /\ cached.number \in Nat /\ cached.at \in Nat
      /\ time \in Nat /\ newest \in Nat /\ document \in Nat
      /\ retired \in [1..MaxDocuments -> Nat] /\ document \in 1..MaxDocuments
  BY Lifetimes DEF CodeInv, CodeTypeOK
<1>6. HandedIsRecent(c)'
  <2>1. ServedAt(cached.number, cached.at - MaxTransit)
    BY <1>4 DEF CodeInv, CacheIsRecent
  <2>2. ServedAt(cached.number, time + 1 - Ttl - MaxTransit)
    <3>1. cached.number \in 1..document
      BY <2>1 DEF ServedAt
    <3>2. retired[cached.number] \in Int
      BY <1>5, <3>1, Lifetimes
    <3>3. cached.at - MaxTransit >= time + 1 - Ttl - MaxTransit
      BY <1>4, <1>5, Lifetimes
    <3>4. \/ cached.number = document
          \/ retired[cached.number] >= cached.at - MaxTransit
      BY <2>1 DEF ServedAt
    <3>5. cached.number # document =>
            retired[cached.number] >= time + 1 - Ttl - MaxTransit
      BY <1>5, <3>2, <3>3, <3>4, Lifetimes
    <3> QED
      BY <3>1, <3>5 DEF ServedAt
  <2>3. Ttl' = Ttl
    BY <1>4 DEF Ttl
  <2> QED
    BY <1>2, <1>3, <1>4, <1>5, <2>2, <2>3 DEF HandedIsRecent, ServedAt, At
<1>7. newest' \in Nat /\ newest' >= newest /\ (which = "oidc" => newest' = cached.number)
  BY <1>4, <1>5 DEF CodeInv, CacheIsNewest
<1>8. FetchesAreRecent(c)' /\ TokensAreMinted(c)'
  BY <1>2, <1>3 DEF FetchesAreRecent, TokensAreMinted, At
<1>9. OneFetches(c)'
  BY <1>2, <1>3, <1>4, <1>5, <1>7, CallTyped, Lifetimes DEF OneFetches, At, CodeInv, CacheIsNewest
<1>10. CacheIsRecent' /\ CacheIsNewest'
  BY <1>4, <1>5, <1>7 DEF CodeInv, CacheIsRecent, CacheIsNewest, ServedAt
<1>11. /\ cached' \in [number : Nat, at : Nat] /\ mutex' \in Callers \cup {NoOne}
       /\ \A d \in Callers \ {c} :
            which = "oidc" => (mutex' = d <=> mutex = d) /\ (mutex = d => newest' = newest)
  BY <1>4, Lifetimes DEF CodeInv, CodeTypeOK
<1> QED
  BY <1>2, <1>3, <1>4, <1>6, <1>7, <1>8, <1>9, <1>10, <1>11, OneCallMoves

(* A fetch begins, under the lock if the document is the OIDC one. *)
LEMMA FetchPreserves ==
  ASSUME CodeInv, NEW c \in Callers, Fetch(c)
  PROVE  CodeInv'
<1>1. PICK r : r = [call[c] EXCEPT !.step = "fetching", !.since = time]
  OBVIOUS
<1>2. r \in Call /\ r.step = "fetching" /\ r.seen = call[c].seen /\ r.since = time
  BY <1>1, CallTyped DEF Call, Steps
<1>3. Move(c, r) /\ call'[c] = r
  BY <1>1 DEF Fetch, Move, CodeInv, CodeTypeOK
<1>4. /\ UNCHANGED <<which, time, document, retired, cached, newest>>
      /\ mutex' = IF which = "oidc" THEN c ELSE mutex
      /\ which = "oidc" => mutex = NoOne
  BY DEF Fetch, MayLook
<1>5. FetchesAreRecent(c)' /\ HandedIsRecent(c)' /\ TokensAreMinted(c)'
  BY <1>2, <1>3, <1>4, CallTyped, Lifetimes
     DEF FetchesAreRecent, HandedIsRecent, TokensAreMinted, At
<1>6. OneFetches(c)'
  BY <1>2, <1>3, <1>4 DEF OneFetches, At, CodeInv
<1>7. CacheIsRecent' /\ CacheIsNewest'
  BY <1>4 DEF CodeInv, CacheIsRecent, CacheIsNewest, ServedAt
<1>8. /\ cached' \in [number : Nat, at : Nat] /\ mutex' \in Callers \cup {NoOne}
      /\ newest' \in Nat /\ newest' >= newest
      /\ \A d \in Callers \ {c} :
           which = "oidc" => (mutex' = d <=> mutex = d) /\ (mutex = d => newest' = newest)
  BY <1>4, Lifetimes DEF CodeInv, CodeTypeOK
<1> QED
  BY <1>2, <1>3, <1>4, <1>5, <1>6, <1>7, <1>8, OneCallMoves

(* The server answers with what it serves now: nothing newer was ever      *)
(* handed over.                                                            *)
LEMMA ServePreserves ==
  ASSUME CodeInv, NEW c \in Callers, Serve(c)
  PROVE  CodeInv'
<1>1. PICK r : r = [call[c] EXCEPT !.step = "landing", !.number = document]
  OBVIOUS
<1>2. /\ r \in Call /\ r.step = "landing" /\ r.seen = call[c].seen
      /\ r.since = call[c].since /\ r.number = document
  <2>1. document \in Nat
    BY Lifetimes DEF CodeInv, CodeTypeOK
  <2> QED
    BY <1>1, <2>1, CallTyped DEF Call, Steps
<1>3. Move(c, r) /\ call'[c] = r
  BY <1>1 DEF Serve, Move, CodeInv, CodeTypeOK
<1>4. /\ UNCHANGED <<which, time, document, retired, cached, mutex, newest>>
      /\ call[c].step = "fetching"
  BY DEF Serve, At
<1>5. /\ document \in 1..MaxDocuments /\ newest \in Nat /\ cached.number \in Nat
      /\ MaxDocuments \in Nat
  BY Lifetimes DEF CodeInv, CodeTypeOK
<1>6. FetchesAreRecent(c)' /\ HandedIsRecent(c)' /\ TokensAreMinted(c)'
  BY <1>2, <1>3, <1>4, <1>5
     DEF CodeInv, FetchesAreRecent, HandedIsRecent, TokensAreMinted, ServedAt, At
<1>7. which = "oidc" => document >= newest
  <2>1. cached.number <= document
    BY <1>5 DEF CodeInv, CacheIsRecent, ServedAt
  <2> QED
    BY <1>5, <2>1 DEF CodeInv, CacheIsNewest
<1>8. OneFetches(c)'
  BY <1>2, <1>3, <1>4, <1>7 DEF OneFetches, At, CodeInv
<1>9. CacheIsRecent' /\ CacheIsNewest'
  BY <1>4 DEF CodeInv, CacheIsRecent, CacheIsNewest, ServedAt
<1>10. /\ cached' \in [number : Nat, at : Nat] /\ mutex' \in Callers \cup {NoOne}
       /\ newest' \in Nat /\ newest' >= newest
       /\ \A d \in Callers \ {c} :
            which = "oidc" => (mutex' = d <=> mutex = d) /\ (mutex = d => newest' = newest)
  BY <1>4 DEF CodeInv, CodeTypeOK
<1> QED
  BY <1>2, <1>3, <1>4, <1>6, <1>8, <1>9, <1>10, OneCallMoves

(* The answer lands: it is not older than what was handed over meanwhile,  *)
(* since nothing was while the lock was held.                              *)
LEMMA LandPreserves ==
  ASSUME CodeInv, NEW c \in Callers, Land(c)
  PROVE  CodeInv'
<1> DEFINE number == call[c].number
<1>1. PICK r : r = [call[c] EXCEPT !.step = "ready", !.number = number, !.since = time]
  OBVIOUS
<1>2. /\ r \in Call /\ r.step = "ready" /\ r.seen = call[c].seen /\ r.since = time
      /\ r.number = number
  BY <1>1, CallTyped DEF Call, Steps
<1>3. Move(c, r) /\ call'[c] = r
  BY <1>1 DEF Land, Handed, Move, CodeInv, CodeTypeOK
<1>4. /\ UNCHANGED <<which, time, document, retired>>
      /\ newest' = IF which = "oidc" /\ number > newest THEN number ELSE newest
      /\ mutex' = IF mutex = c THEN NoOne ELSE mutex
      /\ cached'.number = number /\ cached'.at = time
      /\ cached' \in [number : Nat, at : Nat]
      /\ call[c].step = "landing"
  BY CallTyped DEF Land, Handed, At, Unlocked
<1>5. /\ document \in 1..MaxDocuments /\ MaxDocuments \in Nat
      /\ retired \in [1..MaxDocuments -> Nat]
      /\ number \in Nat /\ call[c].since \in Nat /\ time \in Nat /\ newest \in Nat
  BY CallTyped, Lifetimes DEF CodeInv, CodeTypeOK
<1>6. /\ call[c].since <= time /\ time <= call[c].since + MaxTransit
      /\ ServedAt(number, call[c].since)
  BY <1>4 DEF CodeInv, FetchesAreRecent, At
<1>7. which = "oidc" => mutex = c /\ call[c].seen <= newest /\ number >= newest
  BY <1>4 DEF CodeInv, OneFetches, At
<1> HIDE DEF number
<1>8. ServedAt(number, time - MaxTransit)
  BY <1>5, <1>6, Lifetimes DEF ServedAt
<1>9. HandedIsRecent(c)'
  <2>1. ServedAt(number, time + 1 - Ttl - MaxTransit)
    BY <1>5, <1>8, Lifetimes DEF ServedAt
  <2>2. Ttl' = Ttl
    BY <1>4 DEF Ttl
  <2> QED
    BY <1>2, <1>3, <1>4, <1>5, <2>1, <2>2 DEF HandedIsRecent, ServedAt, At
<1>10. newest' \in Nat /\ newest' >= newest /\ (which = "oidc" => newest' = number)
  BY <1>4, <1>5, <1>7
<1>11. FetchesAreRecent(c)' /\ TokensAreMinted(c)'
  BY <1>2, <1>3 DEF FetchesAreRecent, TokensAreMinted, At
<1>12. OneFetches(c)'
  BY <1>2, <1>3, <1>4, <1>5, <1>7, <1>10, CallTyped, Lifetimes DEF OneFetches, At
<1>13. CacheIsRecent' /\ CacheIsNewest'
  BY <1>4, <1>5, <1>8, <1>10 DEF CacheIsRecent, CacheIsNewest, ServedAt
<1>14. /\ mutex' \in Callers \cup {NoOne}
       /\ \A d \in Callers \ {c} :
            which = "oidc" => (mutex' = d <=> mutex = d) /\ (mutex = d => newest' = newest)
  BY <1>4, <1>7, Lifetimes DEF CodeInv, CodeTypeOK
<1> QED
  BY <1>2, <1>3, <1>4, <1>9, <1>10, <1>11, <1>12, <1>13, <1>14, OneCallMoves

(* A fetch fails: the lock is free again, and the cache is what it was. *)
LEMMA FetchFailsPreserves ==
  ASSUME CodeInv, NEW c \in Callers, FetchFails(c)
  PROVE  CodeInv'
<1>1. /\ Move(c, Resting) /\ call'[c] = Resting
      /\ Resting.step = "idle" /\ Resting.seen = 0
  BY DEF FetchFails, Move, CodeInv, CodeTypeOK, Resting
<1>2. /\ UNCHANGED <<which, time, document, retired, cached, newest>>
      /\ mutex' = IF mutex = c THEN NoOne ELSE mutex
      /\ call[c].step \in {"fetching", "landing"}
  BY DEF FetchFails, Unlocked
<1>3. which = "oidc" => mutex = c
  BY <1>2 DEF CodeInv, OneFetches
<1>4. FetchesAreRecent(c)' /\ HandedIsRecent(c)' /\ TokensAreMinted(c)'
  BY <1>1 DEF FetchesAreRecent, HandedIsRecent, TokensAreMinted, At
<1>5. OneFetches(c)'
  BY <1>1, <1>2, CallTyped, Lifetimes DEF OneFetches, At
<1>6. CacheIsRecent' /\ CacheIsNewest'
  BY <1>2 DEF CodeInv, CacheIsRecent, CacheIsNewest, ServedAt
<1>7. /\ cached' \in [number : Nat, at : Nat] /\ mutex' \in Callers \cup {NoOne}
      /\ newest' \in Nat /\ newest' >= newest
      /\ \A d \in Callers \ {c} :
           which = "oidc" => (mutex' = d <=> mutex = d) /\ (mutex = d => newest' = newest)
  BY <1>2, <1>3, Lifetimes DEF CodeInv, CodeTypeOK
<1> QED
  BY <1>1, <1>2, <1>4, <1>5, <1>6, <1>7, RestingTyped, OneCallMoves

(* A document retired now was served until now. *)
LEMMA RetirePreserves ==
  ASSUME CodeInv, Republish, NEW number \in Nat, NEW instant \in Int,
         ServedAt(number, instant), instant <= time
  PROVE  ServedAt(number, instant)'
<1>1. /\ document \in 1..MaxDocuments /\ MaxDocuments \in Nat /\ document < MaxDocuments
      /\ retired \in [1..MaxDocuments -> Nat] /\ time \in Nat
      /\ document' = document + 1
      /\ retired' = [retired EXCEPT ![document] = time]
  BY Lifetimes DEF CodeInv, CodeTypeOK, Republish
<1> QED
  BY <1>1 DEF ServedAt

(* The server publishes: what was handed over or is on its way stays as    *)
(* recent as it was.                                                       *)
LEMMA RepublishPreserves == CodeInv /\ Republish => CodeInv'
<1> SUFFICES ASSUME CodeInv, Republish PROVE CodeInv'
  OBVIOUS
<1>1. UNCHANGED <<which, time, cached, mutex, call, begun, newest>>
  BY DEF Republish
<1>2. CodeTypeOK'
  BY Lifetimes DEF Republish, CodeInv, CodeTypeOK
<1>3. CacheIsNewest' /\ Ttl' = Ttl
  BY <1>1 DEF CodeInv, CacheIsNewest, Ttl
<1>4. CacheIsRecent'
  <2>1. PICK number \in Nat, landed \in Nat : number = cached.number /\ landed = cached.at
    BY DEF CodeInv, CodeTypeOK
  <2>2. CASE number = 0
    BY <1>1, <2>1, <2>2 DEF CacheIsRecent
  <2>3. CASE number # 0
    <3>1. landed <= time /\ ServedAt(number, landed - MaxTransit) /\ time \in Nat
      BY <2>1, <2>3 DEF CodeInv, CacheIsRecent, CodeTypeOK
    <3>2. landed - MaxTransit \in Int /\ landed - MaxTransit <= time
      BY <3>1, Lifetimes
    <3>3. ServedAt(number, landed - MaxTransit)'
      BY <3>1, <3>2, RetirePreserves
    <3> QED
      BY <1>1, <2>1, <3>1, <3>3 DEF CacheIsRecent, ServedAt
  <2> QED
    BY <2>2, <2>3
<1>5. ASSUME NEW c \in Callers
      PROVE  FetchesAreRecent(c)' /\ HandedIsRecent(c)' /\ OneFetches(c)' /\ TokensAreMinted(c)'
  <2>1. PICK number \in Nat, since \in Nat : number = call[c].number /\ since = call[c].since
    BY CallTyped
  <2>2. FetchesAreRecent(c)'
    <3>1. At(c, "landing") => ServedAt(number, since) /\ since <= time
      BY <2>1 DEF CodeInv, FetchesAreRecent, At
    <3>2. At(c, "landing") => ServedAt(number, since)'
      BY <3>1, RetirePreserves
    <3> QED
      BY <1>1, <2>1, <3>2 DEF CodeInv, FetchesAreRecent, ServedAt, At
  <2>3. HandedIsRecent(c)'
    <3>1. PICK instant \in Int : instant = since + 1 - Ttl - MaxTransit
      BY Lifetimes
    <3>2. At(c, "ready") => ServedAt(number, instant) /\ since <= time
      BY <2>1, <3>1 DEF CodeInv, HandedIsRecent
    <3>3. At(c, "ready") => instant <= time
      BY <3>1, <3>2, Lifetimes, CallTyped
    <3>4. At(c, "ready") => ServedAt(number, instant)'
      BY <3>2, <3>3, RetirePreserves
    <3> QED
      BY <1>1, <1>3, <2>1, <3>1, <3>2, <3>4 DEF HandedIsRecent, ServedAt, At
  <2>4. OneFetches(c)' /\ TokensAreMinted(c)'
    BY <1>1 DEF CodeInv, OneFetches, TokensAreMinted, At
  <2> QED
    BY <2>2, <2>3, <2>4
<1> QED
  BY <1>2, <1>3, <1>4, <1>5 DEF CodeInv

(* A fetch that would outlast its transit holds the clock. *)
LEMMA PassPreserves == CodeInv /\ Pass => CodeInv'
<1> SUFFICES ASSUME CodeInv, Pass PROVE CodeInv'
  OBVIOUS
<1>1. /\ UNCHANGED <<which, document, retired, cached, mutex, call, begun, newest>>
      /\ time' = time + 1
  BY DEF Pass
<1>2. CodeTypeOK' /\ time \in Nat
  BY <1>1 DEF CodeInv, CodeTypeOK
<1>3. CacheIsNewest' /\ Ttl' = Ttl
  BY <1>1 DEF CodeInv, CacheIsNewest, Ttl
<1>4. CacheIsRecent'
  BY <1>1, <1>2 DEF CodeInv, CodeTypeOK, CacheIsRecent, ServedAt
<1>5. ASSUME NEW c \in Callers
      PROVE  FetchesAreRecent(c)' /\ HandedIsRecent(c)' /\ OneFetches(c)' /\ TokensAreMinted(c)'
  <2>1. call[c].since \in Nat
    BY CallTyped
  <2>2. call[c].step \in {"fetching", "landing"} => time - call[c].since < MaxTransit
    BY DEF Pass
  <2>3. FetchesAreRecent(c)'
    BY <1>1, <1>2, <2>1, <2>2, Lifetimes DEF CodeInv, FetchesAreRecent, ServedAt, At
  <2>4. HandedIsRecent(c)'
    BY <1>1, <1>2, <1>3, <2>1 DEF CodeInv, HandedIsRecent, ServedAt, At
  <2>5. OneFetches(c)' /\ TokensAreMinted(c)'
    BY <1>1 DEF CodeInv, OneFetches, TokensAreMinted, At
  <2> QED
    BY <2>3, <2>4, <2>5
<1> QED
  BY <1>2, <1>3, <1>4, <1>5 DEF CodeInv

(* Every step of discovery and the code flow. *)
LEMMA NextCode == CodeInv /\ [CodeNext]_codeVars => CodeInv'
<1> SUFFICES ASSUME CodeInv, [CodeNext]_codeVars PROVE CodeInv'
  OBVIOUS
<1>1. ASSUME NEW c \in Callers, Discover(c) PROVE CodeInv'
  BY <1>1, DiscoverPreserves
<1>2. ASSUME NEW c \in Callers, LookUp(c) \/ Fetch(c) \/ Serve(c) PROVE CodeInv'
  BY <1>2, LookUpPreserves, FetchPreserves, ServePreserves
<1>3. ASSUME NEW c \in Callers, Land(c) \/ FetchFails(c) PROVE CodeInv'
  BY <1>3, LandPreserves, FetchFailsPreserves
<1>4. ASSUME NEW c \in Callers, Begin(c) \/ UseUma(c) \/ Refuse(c) \/ Taken(c) PROVE CodeInv'
  <2>1. /\ Move(c, Resting)
        /\ UNCHANGED <<which, time, document, retired, cached, mutex, newest>>
        /\ call[c].step \notin {"fetching", "landing"}
    BY <1>4 DEF Begin, UseUma, Refuse, Taken, At
  <2> QED
    BY <2>1, RestPreserves
<1>5. ASSUME NEW c \in Callers, Exchanged(c) \/ Accept(c) PROVE CodeInv'
  BY <1>5, ExchangedPreserves, AcceptPreserves
<1>6. CASE Republish
  BY <1>6, RepublishPreserves
<1>7. CASE Pass
  BY <1>7, PassPreserves
<1>8. CASE UNCHANGED codeVars
  BY <1>8 DEF codeVars, CodeInv, CodeTypeOK, CacheIsRecent, CacheIsNewest, FetchesAreRecent,
              HandedIsRecent, OneFetches, TokensAreMinted, ServedAt, At, Ttl
<1> QED
  BY <1>1, <1>2, <1>3, <1>4, <1>5, <1>6, <1>7, <1>8 DEF CodeNext

(* The invariant of discovery and the code flow. *)
THEOREM CodeInductive == CodeSpec => []CodeInv
BY InitCode, NextCode, PTL DEF CodeSpec

(* No call works with a discovery document that was retired longer ago     *)
(* than a cache lifetime and a fetch, and a call that asks after another   *)
(* was handed the OIDC document never gets an older one: the lock held     *)
(* across the fetch in axiam_oidc_discover().                              *)
THEOREM DocumentsCurrent == CodeSpec => []DocumentsAreCurrent
<1>1. CodeInv => DocumentsAreCurrent
  <2> SUFFICES ASSUME CodeInv, NEW c \in Callers, At(c, "ready")
               PROVE  /\ \/ call[c].number = document
                         \/ call[c].since - retired[call[c].number] < Ttl + MaxTransit
                      /\ which = "oidc" => call[c].number >= call[c].seen
    BY DEF DocumentsAreCurrent
  <2>1. ServedAt(call[c].number, call[c].since + 1 - Ttl - MaxTransit)
    BY DEF CodeInv, HandedIsRecent
  <2>2. call[c].number \in 1..MaxDocuments => retired[call[c].number] \in Nat
    BY DEF CodeInv, CodeTypeOK
  <2>3. call[c].number \in 1..MaxDocuments /\ call[c].since \in Nat
    BY <2>1, CallTyped, Lifetimes DEF ServedAt, CodeInv, CodeTypeOK
  <2> QED
    BY <2>1, <2>2, <2>3, Lifetimes DEF ServedAt, CodeInv, OneFetches
<1> QED
  BY <1>1, CodeInductive, PTL

(* The claims a code exchange hands over were minted by this issuer, for   *)
(* this client and for the request whose parameters were given, and were   *)
(* alive as they were judged: validate_id_token(), check_id_claims().      *)
THEOREM ExchangeAcceptsItsOwn == CodeSpec => []AcceptedIsThisRequests
<1>1. CodeInv => AcceptedIsThisRequests
  <2> SUFFICES ASSUME CodeInv, NEW c \in Callers, At(c, "accepted")
               PROVE  /\ call[c].token.issuer = "this"
                      /\ call[c].token.party = "this"
                      /\ call[c].token.nonce = call[c].request
                      /\ call[c].since - call[c].token.minted <= TokenLife + Skew
    BY DEF AcceptedIsThisRequests
  <2> QED
    BY CallTyped, Lifetimes DEF CodeInv, TokensAreMinted
<1> QED
  BY <1>1, CodeInductive, PTL

-----------------------------------------------------------------------------
(* The polling loops of the device grant and of CIBA.                     *)

(* The slow_down answers that the interval has grown by. *)
Raised == IF at = "answered" /\ SlowDown THEN slowed - 1 ELSE slowed

(* The clock, the deadline and the answers. *)
TimeIsKept ==
  /\ answered <= clock
  /\ at = "started" => clock < Second /\ deadline = ExpiresIn
  /\ deadline <= Seconds(clock) + ExpiresIn
  /\ deadline * Second <= MaxPause + (ExpiresIn + 1) * Second
  /\ flow = "ciba" => deadline * Second <= expiry
  /\ at = "send" => clock < deadline * Second

(* The interval grows by what the server asked for, and while a poll is     *)
(* under way it is shorter than the grant's life.                           *)
IntervalGrows ==
  /\ Raised \in Nat
  /\ interval = Interval + Raised * Increment
  /\ interval <= ExpiresIn + Increment + Interval
  /\ at \in {"send", "answered"} => interval < ExpiresIn /\ attempt >= 1
  /\ at \in {"started", "loop"} =>
       /\ wait >= interval * Second
       /\ flow = "device" /\ answer.status = "429" => wait >= answer.hint * Second

(* What an answer that settles the matter leads to, and what it says of the *)
(* grant.                                                                   *)
MatterIsSettled ==
  /\ decided => at \in {"answered", "done"}
  /\ decided /\ at = "answered" => Decisive(answer)
  /\ answer.code \in {"tokens", "unusable", "invalid_grant"} => grant = "redeemed"
  /\ answer.code = "access_denied" => grant = "denied"
  /\ at # "done" => outcome = "none"
  /\ outcome \in {"tokens", "unusable", "invalid_grant", "access_denied"} =>
       answer.code = outcome
  /\ outcome = "expired_token" => ~ decided

PollingInv ==
  /\ PollingTypeOK
  /\ TimeIsKept
  /\ IntervalGrows
  /\ MatterIsSettled
  /\ PollsAreSpaced

-------------------------------------------------------------------------------
(* Arithmetic. *)

(* The constants are numbers. *)
LEMMA Bounds ==
  /\ Second \in Nat /\ Second >= 1 /\ Interval \in Nat /\ Interval >= 1
  /\ Increment \in Nat /\ Increment >= 1 /\ ExpiresIn \in Nat /\ ExpiresIn >= 1
  /\ Budget \in Nat /\ Budget >= 1
  /\ MaxBackoff \in Nat /\ MaxHint \in Nat /\ MaxFlight \in Nat /\ MaxPause \in Nat
  /\ NoHint = -1
BY PollingAssumption DEF NoHint

(* A product grows with its factors. *)
LEMMA Times ==
  ASSUME NEW a \in Int, NEW b \in Int, NEW c \in Nat, a <= b
  PROVE  a * c <= b * c
OBVIOUS

(* The whole seconds of an instant. *)
LEMMA Whole ==
  ASSUME NEW t \in Nat
  PROVE  /\ Seconds(t) \in Nat /\ Seconds(t) <= t
         /\ Seconds(t) * Second <= t /\ t < (Seconds(t) + 1) * Second
BY Bounds DEF Seconds

(* Later instants do not have fewer. *)
LEMMA WholeGrows ==
  ASSUME NEW t \in Nat, NEW u \in Nat, t <= u
  PROVE  Seconds(t) <= Seconds(u)
BY Bounds DEF Seconds

(* A wait rounded up is no shorter. *)
LEMMA Rounded ==
  ASSUME NEW w \in Nat
  PROVE  RoundedUp(w) \in Nat /\ w <= RoundedUp(w) * Second
BY Bounds DEF RoundedUp

(* A wait of so many seconds counts for as many. *)
LEMMA RoundedAtLeast ==
  ASSUME NEW w \in Nat, NEW n \in Nat, w >= n * Second
  PROVE  RoundedUp(w) >= n
BY Bounds, Rounded DEF RoundedUp

-------------------------------------------------------------------------------
(* The answers. *)

Codes == {"", "tokens", "unusable", "authorization_pending", "slow_down",
          "rate_limit_exceeded", "access_denied", "invalid_grant"}

(* What an answer may be: its code goes with some statuses and not others. *)
Plausible(a) ==
  /\ a.hint \in Int /\ a.hint <= MaxHint
  /\ a.code \in Codes
  /\ a.code = "" => a.status \in {"none", "4xx", "408", "429", "5xx"}
  /\ a.code \in {"tokens", "unusable"} => a.status = "2xx"
  /\ a.code = "authorization_pending" => a.status = "4xx"
  /\ a.code = "slow_down" => a.status \in {"4xx", "429"}
  /\ a.code = "rate_limit_exceeded" => a.status = "429"
  /\ a.code \in {"access_denied", "invalid_grant"} => a.status = "4xx"
  /\ a.code = "invalid_grant" => a = Spent
  /\ a \in Pending <=> (a.code \in {"authorization_pending", "slow_down"} /\ a.status = "4xx")

(* Without a decision there are two answers. *)
LEMMA PendingIs ==
  ASSUME NEW a \in Pending
  PROVE  /\ a.status = "4xx" /\ a.hint = NoHint
         /\ a.code \in {"authorization_pending", "slow_down"}
<1>1. CASE a = Replied("4xx", "authorization_pending", NoHint)
  BY <1>1 DEF Replied
<1>2. CASE a = Replied("4xx", "slow_down", NoHint)
  BY <1>2 DEF Replied
<1> QED
  BY <1>1, <1>2 DEF Pending

(* What others say is nothing of the grant. *)
LEMMA ElsewhereKnowsNothing ==
  ASSUME NEW a \in Elsewhere
  PROVE  /\ a.status \in {"none", "4xx", "408", "429", "5xx"}
         /\ a.hint \in Hints \cup {NoHint}
         /\ \/ a.code = ""
            \/ a.code \in {"rate_limit_exceeded", "slow_down"} /\ a.status = "429"
<1>1. CASE a = Lost
  BY <1>1 DEF Replied, Lost
<1>2. CASE a = Replied("4xx", "", NoHint)
  BY <1>2 DEF Replied
<1>3. CASE a \in [status : {"408", "429", "5xx"}, code : {""}, hint : Hints]
  BY <1>3
<1>4. CASE a \in [status : {"429"}, code : {"rate_limit_exceeded", "slow_down"}, hint : Hints]
  BY <1>4
<1> QED
  BY Zenon, <1>1, <1>2, <1>3, <1>4 DEF Elsewhere

(* The other answers, one by one. *)
LEMMA AnswersAre ==
  ASSUME NEW a \in AllAnswers
  PROVE  \/ a \in Elsewhere
         \/ a \in Pending
         \/ a = Granted /\ a.status = "2xx" /\ a.code = "tokens" /\ a.hint = NoHint
         \/ a.status = "2xx" /\ a.code = "unusable" /\ a.hint = NoHint
         \/ a = Denied /\ a.status = "4xx" /\ a.code = "access_denied" /\ a.hint = NoHint
         \/ a = Spent /\ a.status = "4xx" /\ a.code = "invalid_grant" /\ a.hint = NoHint
<1>1. CASE a = Granted
  BY <1>1 DEF Replied, Granted
<1>2. CASE a = Replied("2xx", "unusable", NoHint)
  BY <1>2 DEF Replied
<1>3. CASE a = Denied
  BY <1>3 DEF Replied, Denied
<1>4. CASE a = Spent
  BY <1>4 DEF Replied, Spent
<1>5. a \in Elsewhere \cup Pending \cup {Granted, Replied("2xx", "unusable", NoHint), Denied, Spent}
  <2>1. Lost \in Elsewhere
    BY Zenon DEF Elsewhere
  <2> QED
    BY <2>1 DEF AllAnswers, Redeemed
<1> QED
  BY Zenon, <1>1, <1>2, <1>3, <1>4, <1>5

(* Every answer is plausible. *)
LEMMA AnswersArePlausible ==
  ASSUME NEW a \in AllAnswers
  PROVE  Plausible(a)
<1>1. /\ NoHint \in Int /\ NoHint <= MaxHint
      /\ \A h \in Hints : h \in Int /\ h <= MaxHint
  BY Bounds DEF Hints
<1>2. CASE a \in Elsewhere
  BY <1>1, <1>2, ElsewhereKnowsNothing, PendingIs DEF Plausible, Codes
<1>3. CASE a \in Pending
  BY <1>1, <1>3, PendingIs DEF Plausible, Codes
<1>4. CASE a \notin Elsewhere /\ a \notin Pending
  BY <1>1, <1>4, AnswersAre DEF Plausible, Codes
<1> QED
  BY <1>2, <1>3, <1>4

(* What the server says of a grant. *)
LEMMA RepliesAreTrue ==
  ASSUME NEW g \in {"pending", "approved", "denied", "redeemed"}, NEW a \in Replies(g)
  PROVE  /\ a \in AllAnswers
         /\ a.code \in {"tokens", "unusable"} => g = "approved"
         /\ a.code = "invalid_grant" => g = "redeemed"
         /\ a.code = "access_denied" => g = "denied"
<1>1. CASE g = "pending"
  BY <1>1, PendingIs DEF Replies, AllAnswers
<1>2. CASE g = "approved"
  <2>1. a \in Redeemed
    BY <1>2 DEF Replies
  <2>2. a.code \notin {"invalid_grant", "access_denied"}
    <3>1. CASE a = Granted
      BY <3>1 DEF Granted, Replied
    <3>2. CASE a = Lost
      BY <3>2 DEF Lost, Replied
    <3>3. CASE a = Replied("2xx", "unusable", NoHint)
      BY <3>3 DEF Replied
    <3> QED
      BY <2>1, <3>1, <3>2, <3>3 DEF Redeemed
  <2> QED
    BY <1>2, <2>1, <2>2 DEF AllAnswers
<1>3. CASE g = "denied"
  <2>1. a = Denied
    BY <1>3 DEF Replies
  <2>2. a.code = "access_denied"
    BY <2>1 DEF Denied, Replied
  <2> QED
    BY <1>3, <2>1, <2>2 DEF AllAnswers
<1>4. CASE g = "redeemed"
  <2>1. a = Spent
    BY <1>4 DEF Replies
  <2>2. a.code = "invalid_grant"
    BY <2>1 DEF Spent, Replied
  <2> QED
    BY <1>4, <2>1, <2>2 DEF AllAnswers
<1> QED
  BY <1>1, <1>2, <1>3, <1>4

(* The same of what others say. *)
LEMMA ElsewhereIsTrue ==
  ASSUME NEW a \in Elsewhere
  PROVE  /\ a \in AllAnswers
         /\ a.code \notin {"tokens", "unusable", "invalid_grant", "access_denied"}
BY ElsewhereKnowsNothing DEF AllAnswers

(* An answer that settles the matter ends the call, and no other way leads  *)
(* out of a settled matter.                                                *)
LEMMA DecisiveEnds ==
  ASSUME PollingTypeOK, Decisive(answer)
  PROVE  ~ Transient /\ ~ Another /\ ~ SlowDown
<1>1. Plausible(answer)
  BY AnswersArePlausible DEF PollingTypeOK
<1>2. CASE flow = "device"
  <2>1. answer = Granted \/ answer = Denied \/ answer = Spent
    BY <1>2 DEF Decisive
  <2>2. CASE answer = Granted
    <3>1. answer.status = "2xx" /\ answer.code = "tokens"
      BY <2>2 DEF Granted, Replied
    <3> QED
      BY <1>2, <3>1 DEF Transient, Another, SlowDown
  <2>3. CASE answer = Denied
    <3>1. answer.status = "4xx" /\ answer.code = "access_denied"
      BY <2>3 DEF Denied, Replied
    <3> QED
      BY <1>2, <3>1 DEF Transient, Another, SlowDown
  <2>4. CASE answer = Spent
    <3>1. answer.status = "4xx" /\ answer.code = "invalid_grant"
      BY <2>4 DEF Spent, Replied
    <3> QED
      BY <1>2, <3>1 DEF Transient, Another, SlowDown
  <2> QED
    BY <2>1, <2>2, <2>3, <2>4
<1>3. CASE flow = "ciba"
  BY <1>1, <1>3 DEF Decisive, Plausible, Transient, Another, SlowDown
<1> QED
  BY <1>2, <1>3 DEF PollingTypeOK

(* A slow_down is neither retried at once nor taken for another failure. *)
LEMMA SlowDownIsHeard ==
  ASSUME PollingTypeOK, SlowDown
  PROVE  ~ Transient /\ ~ Another
<1>1. Plausible(answer)
  BY AnswersArePlausible DEF PollingTypeOK
<1> QED
  BY <1>1 DEF PollingTypeOK, Plausible, Transient, Another, SlowDown

(* An answer that ends the call names the outcome. *)
LEMMA VerdictIsTyped ==
  ASSUME PollingTypeOK, ~ Another, ~ SlowDown
  PROVE  /\ Verdict \in Endings \ {"none", "expired_token"}
         /\ Verdict = answer.code \/ Verdict = "refused"
         /\ Verdict = "invalid_grant" => answer = Spent
<1>1. Plausible(answer)
  BY AnswersArePlausible DEF PollingTypeOK
<1> QED
  BY <1>1 DEF PollingTypeOK, Plausible, Codes, Another, SlowDown, Verdict, Endings

-------------------------------------------------------------------------------
(* The steps. *)

(* A wait that does not overrun a deadline ends before it. *)
LEMMA Fits ==
  ASSUME NEW t \in Nat, NEW w \in Nat, NEW d \in Nat, Seconds(t) + RoundedUp(w) < d
  PROVE  t + w < d * Second
<1>1. PICK s \in Nat : s = Seconds(t)
  BY Whole
<1>2. PICK r \in Nat : r = RoundedUp(w)
  BY Rounded
<1>3. t < (s + 1) * Second /\ w <= r * Second
  BY <1>1, <1>2, Whole, Rounded
<1>4. (s + 1 + r) * Second <= d * Second
  BY <1>1, <1>2, Times, Bounds
<1>5. (s + 1 + r) * Second = (s + 1) * Second + r * Second
  BY Bounds
<1> QED
  BY <1>3, <1>4, <1>5, Bounds

(* The longest waits and the end of the clock. *)
LEMMA Horizon ==
  /\ MaxClock \in Nat
  /\ Second <= (ExpiresIn + 1) * Second
  /\ \A n \in Nat : n * Second \in Nat
  /\ \A n \in Nat : 1 <= n /\ n <= MaxHint + ExpiresIn + Increment + Interval =>
       n * Second \in 1..((MaxHint + ExpiresIn + Increment + Interval) * Second)
<1>1. \A n \in Nat : n * Second \in Nat
  BY Bounds
<1>2. Second <= (ExpiresIn + 1) * Second
  BY Bounds
<1>3. MaxClock \in Nat
  BY <1>1, Bounds DEF MaxClock
<1>4. ASSUME NEW n \in Nat, 1 <= n, n <= MaxHint + ExpiresIn + Increment + Interval
      PROVE  n * Second \in 1..((MaxHint + ExpiresIn + Increment + Interval) * Second)
  <2>1. n * Second <= (MaxHint + ExpiresIn + Increment + Interval) * Second
    BY <1>4, Times, Bounds
  <2>2. 1 * Second <= n * Second
    BY <1>4, Times, Bounds
  <2> QED
    BY <2>1, <2>2, <1>1, Bounds
<1> QED
  BY <1>1, <1>2, <1>3, <1>4

(* The variables are numbers, and the latest answer is one there is. *)
LEMMA Typed ==
  ASSUME PollingInv
  PROVE  /\ clock \in Nat /\ clock <= MaxClock /\ interval \in Nat /\ interval >= 1
         /\ wait \in Nat /\ wait >= 1 /\ deadline \in Nat /\ attempt \in Nat
         /\ answered \in Nat /\ answered <= clock /\ expiry \in Nat /\ slowed \in Nat
         /\ Plausible(answer)
         /\ flow \in {"device", "ciba"}
BY Horizon, Bounds, AnswersArePlausible DEF PollingInv, PollingTypeOK, TimeIsKept

(* The interval's type is what its growth leaves. *)
LEMMA IntervalIs ==
  ASSUME NEW n \in Nat, NEW m \in Nat, n <= m
  PROVE  Interval + n * Increment \in Interval..(Interval + m * Increment)
<1>1. n * Increment <= m * Increment
  BY Times, Bounds
<1>2. n * Increment \in Nat /\ m * Increment \in Nat
  BY Bounds
<1> QED
  BY <1>1, <1>2, Bounds

(* Nothing is asked, slowed or settled at first. *)
LEMMA InitIsSound == PollingInit => PollingInv
<1> SUFFICES ASSUME PollingInit PROVE PollingInv
  OBVIOUS
<1>1. Lost.status = "none" /\ Lost.code = "" /\ Lost \in AllAnswers
  BY DEF Lost, Replied, AllAnswers, Redeemed
<1>2. clock \in Nat /\ clock < Second /\ clock <= MaxClock
  BY Horizon, Bounds DEF PollingInit, MaxClock
<1>3. ExpiresIn * Second \in Nat /\ expiry \in Nat
  BY <1>2, Horizon, Bounds DEF PollingInit
<1>4. /\ interval \in Interval..(Interval + slowed * Increment)
      /\ slowed = 0 /\ Interval = Interval + slowed * Increment
  BY Bounds DEF PollingInit
<1>5. wait \in 1..((MaxHint + ExpiresIn + Increment + Interval) * Second)
  BY Horizon, Bounds DEF PollingInit
<1>6. PollingTypeOK
  <2>1. /\ clock \in 0..MaxClock /\ answered \in 0..MaxClock
        /\ deadline \in ExpiresIn..(MaxClock + ExpiresIn)
        /\ attempt \in 0..Budget
    BY <1>2, Horizon, Bounds DEF PollingInit
  <2>2. /\ flow \in {"device", "ciba"} /\ at = "started" /\ answer \in AllAnswers
        /\ outcome \in Endings /\ grant = "pending" /\ decided = FALSE
    BY <1>1 DEF PollingInit, Endings
  <2> QED
    BY <1>3, <1>4, <1>5, <2>1, <2>2 DEF PollingTypeOK
<1>7. TimeIsKept
  <2>1. (ExpiresIn + 1) * Second = ExpiresIn * Second + Second
    BY Bounds
  <2>2. deadline * Second = ExpiresIn * Second /\ deadline = ExpiresIn
    BY DEF PollingInit
  <2>3. Seconds(clock) \in Nat
    BY <1>2, Whole
  <2> QED
    BY <1>2, <1>3, <2>1, <2>2, <2>3, Bounds DEF PollingInit, TimeIsKept
<1>8. IntervalGrows
  <2>1. Raised = 0
    BY DEF PollingInit, Raised
  <2> QED
    <3>1. interval = Interval + Raised * Increment /\ Raised \in Nat
      BY <1>4, <2>1 DEF PollingInit
    <3>2. interval <= ExpiresIn + Increment + Interval
      BY Bounds DEF PollingInit
    <3>3. wait >= interval * Second
      BY Horizon, Bounds DEF PollingInit
    <3>4. at = "started" /\ answer.status = "none"
      BY <1>1 DEF PollingInit
    <3> QED
      BY <3>1, <3>2, <3>3, <3>4 DEF IntervalGrows
<1>9. MatterIsSettled /\ PollsAreSpaced
  BY <1>1 DEF PollingInit, MatterIsSettled, PollsAreSpaced
<1> QED
  BY <1>6, <1>7, <1>8, <1>9 DEF PollingInv

(* The deadline is set once, by an instant within the pause. *)
LEMMA EnterPreserves == PollingInv /\ Enter => PollingInv'
<1> SUFFICES ASSUME PollingInv, Enter PROVE PollingInv'
  OBVIOUS
<1>1. PICK pause \in 0..MaxPause : clock' = clock + pause
  BY DEF Enter
<1>2. /\ at = "started" /\ at' = "loop" /\ answered' = clock'
      /\ deadline' = IF flow = "device" THEN Seconds(clock') + ExpiresIn ELSE deadline
      /\ UNCHANGED <<flow, interval, wait, attempt, answer, outcome, grant, expiry, slowed,
                     decided>>
  BY DEF Enter
<1>3. clock' \in Nat /\ clock <= clock' /\ clock' < MaxPause + Second /\ clock' <= MaxClock
  <2>1. clock < Second /\ clock \in Nat
    BY <1>2, Typed DEF PollingInv, TimeIsKept
  <2> QED
    BY <1>1, <2>1, Horizon, Bounds DEF MaxClock
<1>4. PICK s \in Nat : s = Seconds(clock') /\ s <= clock' /\ s * Second <= clock'
  BY <1>3, Whole
<1>5. Seconds(clock) <= s /\ Seconds(clock) \in Nat
  BY <1>3, <1>4, Typed, WholeGrows, Whole
<1>6. (s + ExpiresIn) * Second <= MaxPause + (ExpiresIn + 1) * Second
  <2>1. (s + ExpiresIn) * Second = s * Second + ExpiresIn * Second
    BY Bounds
  <2>2. (ExpiresIn + 1) * Second = ExpiresIn * Second + Second
    BY Bounds
  <2>3. ExpiresIn * Second \in Nat /\ s * Second \in Nat
    BY Horizon, Bounds
  <2> QED
    BY <1>3, <1>4, <2>1, <2>2, <2>3, Bounds
<1>7. deadline' \in ExpiresIn..(MaxClock + ExpiresIn)
  BY <1>2, <1>3, <1>4, Horizon, Bounds DEF PollingInv, PollingTypeOK
<1>8. PollingTypeOK'
  BY <1>2, <1>3, <1>7, Horizon DEF PollingInv, PollingTypeOK
<1>9. TimeIsKept'
  BY <1>2, <1>3, <1>4, <1>5, <1>6, Typed, Bounds DEF PollingInv, TimeIsKept
<1>10. IntervalGrows'
  BY <1>2 DEF PollingInv, IntervalGrows, Raised
<1>11. MatterIsSettled' /\ PollsAreSpaced'
  BY <1>2 DEF PollingInv, MatterIsSettled, PollsAreSpaced
<1> QED
  BY <1>8, <1>9, <1>10, <1>11 DEF PollingInv

(* The user decides about a grant of which no answer has told yet. *)
LEMMA DecidePreserves == PollingInv /\ Decide => PollingInv'
<1> SUFFICES ASSUME PollingInv, Decide PROVE PollingInv'
  OBVIOUS
<1>1. /\ grant = "pending" /\ grant' \in {"approved", "denied"}
      /\ UNCHANGED <<clock, at, attempt, answer, answered, decided, flow, interval, wait,
                     deadline, outcome, expiry, slowed>>
  BY DEF Decide, loopVars
<1>2. PollingTypeOK'
  BY <1>1 DEF PollingInv, PollingTypeOK
<1>3. TimeIsKept'
  BY <1>1 DEF PollingInv, TimeIsKept
<1>4. IntervalGrows'
  BY <1>1 DEF PollingInv, IntervalGrows, Raised, SlowDown
<1>5. PollsAreSpaced'
  BY <1>1 DEF PollingInv, PollsAreSpaced
<1>6. MatterIsSettled'
  BY <1>1 DEF PollingInv, MatterIsSettled, Decisive
<1> QED
  BY <1>2, <1>3, <1>4, <1>5, <1>6 DEF PollingInv

(* The loop gives up where nothing has been settled. *)
LEMMA ExpirePreserves == PollingInv /\ Expire => PollingInv'
<1> SUFFICES ASSUME PollingInv, Expire PROVE PollingInv'
  OBVIOUS
<1>1. /\ at = "loop" /\ at' = "done" /\ outcome' = "expired_token"
      /\ UNCHANGED <<flow, clock, interval, wait, deadline, attempt, answer, grant, expiry,
                     answered, slowed, decided>>
  BY DEF Expire
<1>2. PollingTypeOK'
  BY <1>1 DEF PollingInv, PollingTypeOK, Endings
<1>3. TimeIsKept' /\ IntervalGrows' /\ PollsAreSpaced' /\ MatterIsSettled'
  BY <1>1 DEF PollingInv, TimeIsKept, IntervalGrows, Raised, PollsAreSpaced, MatterIsSettled
<1> QED
  BY <1>2, <1>3 DEF PollingInv

(* A poll leaves before the deadline, and an interval after the latest      *)
(* answer.                                                                 *)
LEMMA PollPreserves == PollingInv /\ Poll => PollingInv'
<1> SUFFICES ASSUME PollingInv, Poll PROVE PollingInv'
  OBVIOUS
<1>1. /\ at = "loop" /\ at' = "send" /\ ~ Overruns(wait)
      /\ clock' = clock + wait /\ wait' = interval * Second /\ attempt' = 1
      /\ UNCHANGED <<flow, interval, deadline, answer, outcome, grant, expiry, answered, slowed,
                     decided>>
  BY DEF Poll
<1>2. PICK s \in Nat : s = Seconds(clock)
  BY Typed, Whole
<1>3. PICK r \in Nat : r = RoundedUp(wait)
  BY Typed, Rounded
<1>4. s + r < deadline
  BY <1>1, <1>2, <1>3, Typed DEF Overruns
<1>5. clock' < deadline * Second /\ clock' \in Nat /\ clock <= clock'
  BY <1>1, <1>2, <1>3, <1>4, Typed, Fits
<1>6. deadline * Second <= MaxPause + (ExpiresIn + 1) * Second /\ deadline <= s + ExpiresIn
  BY <1>2 DEF PollingInv, TimeIsKept
<1>7. interval < ExpiresIn
  <2>1. r >= interval
    BY <1>1, <1>3, Typed, RoundedAtLeast DEF PollingInv, IntervalGrows
  <2> QED
    BY <1>4, <1>6, <2>1, Typed, Bounds
<1>8. (ExpiresIn + 1) * Second \in Nat /\ deadline * Second \in Nat
  BY Typed, Horizon, Bounds
<1>9. clock' <= MaxClock
  BY <1>5, <1>6, <1>8, Bounds DEF MaxClock
<1>10. PollingTypeOK'
  <2>1. wait' \in 1..((MaxHint + ExpiresIn + Increment + Interval) * Second)
    BY <1>1, <1>7, Typed, Horizon, Bounds
  <2>2. clock' \in 0..MaxClock /\ attempt' \in 0..Budget /\ at' = "send"
    BY <1>1, <1>5, <1>9, Bounds, Horizon
  <2> QED
    BY <1>1, <2>1, <2>2 DEF PollingInv, PollingTypeOK
<1>11. TimeIsKept'
  <2>1. Seconds(clock') \in Nat /\ s <= Seconds(clock')
    BY <1>2, <1>5, Typed, Whole, WholeGrows
  <2> QED
    BY <1>1, <1>2, <1>5, <1>6, <2>1, Typed, Bounds DEF PollingInv, TimeIsKept
<1>12. IntervalGrows'
  <2>1. Raised' = Raised
    BY <1>1 DEF Raised
  <2> QED
    BY <1>1, <1>7, <2>1 DEF PollingInv, IntervalGrows
<1>13. MatterIsSettled'
  BY <1>1 DEF PollingInv, MatterIsSettled
<1>14. PollsAreSpaced'
  <2>1. interval = Interval + slowed * Increment /\ wait >= interval * Second
    BY <1>1 DEF PollingInv, IntervalGrows, Raised
  <2>2. PICK n \in Nat : n = interval * Second
    BY Typed, Horizon
  <2>3. clock + wait >= answered + n
    BY <2>1, <2>2, Typed
  <2>4. flow = "device" /\ answer.status = "429" => wait >= answer.hint * Second
    BY <1>1 DEF PollingInv, IntervalGrows
  <2>5. answer.hint * Second \in Int
    <3>1. answer.hint \in Int
      BY Typed, Bounds DEF Plausible
    <3> QED
      BY <3>1, Bounds
  <2>6. PICK h \in Int : h = answer.hint * Second
    BY <2>5
  <2>7. flow = "device" /\ answer.status = "429" => clock + wait >= answered + h
    BY <2>4, <2>6, Typed
  <2> QED
    BY <1>1, <2>1, <2>2, <2>3, <2>6, <2>7 DEF PollsAreSpaced
<1> QED
  BY <1>10, <1>11, <1>12, <1>13, <1>14 DEF PollingInv

(* An answer, from whomever: what it settles and what it asks for. *)
LEMMA RequestPreserves == PollingInv /\ Request => PollingInv'
<1> SUFFICES ASSUME PollingInv, Request PROVE PollingInv'
  OBVIOUS
<1>1. /\ at = "send" /\ at' = "answered"
      /\ \E flight \in 0..MaxFlight : clock' = clock + flight /\ answered' = clock'
      /\ UNCHANGED <<flow, interval, wait, deadline, attempt, outcome, expiry>>
  BY DEF Request
<1>2. PICK a \in AllAnswers :
        /\ Settle(a)
        /\ grant' = grant \/ (grant = "approved" /\ grant' = "redeemed")
        /\ a.code \in {"tokens", "unusable", "invalid_grant"} => grant' = "redeemed"
        /\ a.code = "access_denied" => grant' = "denied"
  <2>1. grant \in {"pending", "approved", "denied", "redeemed"}
    BY DEF PollingInv, PollingTypeOK
  <2>2. ASSUME NEW a \in Replies(grant), Settle(a),
               grant' = IF grant = "approved" THEN "redeemed" ELSE grant
        PROVE  /\ a \in AllAnswers
               /\ grant' = grant \/ (grant = "approved" /\ grant' = "redeemed")
               /\ a.code \in {"tokens", "unusable", "invalid_grant"} => grant' = "redeemed"
               /\ a.code = "access_denied" => grant' = "denied"
    <3>1. PICK g \in {"pending", "approved", "denied", "redeemed"} : g = grant
      BY <2>1
    <3> QED
      BY <2>2, <3>1, RepliesAreTrue
  <2> QED
    BY <2>2, ElsewhereIsTrue DEF Request
<1>3. /\ answer' = a
      /\ decided' = (decided \/ Decisive(a))
      /\ slowed' = IF a.code = "slow_down" /\ (flow = "ciba" \/ a.status = "4xx")
                   THEN slowed + 1 ELSE slowed
  BY <1>2 DEF Settle
<1>4. Plausible(a)
  BY AnswersArePlausible
<1>5. clock' \in Nat /\ clock <= clock' /\ clock' <= MaxClock /\ answered' = clock'
  <2>1. clock < deadline * Second /\ deadline * Second <= MaxPause + (ExpiresIn + 1) * Second
    BY <1>1 DEF PollingInv, TimeIsKept
  <2>2. (ExpiresIn + 1) * Second \in Nat /\ deadline * Second \in Nat
    BY Typed, Horizon, Bounds
  <2> QED
    BY <1>1, <2>1, <2>2, Typed, Bounds DEF MaxClock
<1>6. Raised' = Raised /\ slowed' \in Nat /\ slowed <= slowed' /\ Raised = slowed
  <2>1. Raised = slowed /\ slowed \in Nat /\ flow \in {"device", "ciba"}
    BY <1>1, Typed DEF Raised
  <2>2. SlowDown' <=> (a.code = "slow_down" /\ (flow = "device" => a.status # "429"))
    BY <1>1, <1>3 DEF SlowDown
  <2>3. a.code = "slow_down" => a.status \in {"4xx", "429"}
    BY <1>4 DEF Plausible
  <2>4. CASE SlowDown'
    <3>1. slowed' = slowed + 1
      BY <1>3, <2>1, <2>2, <2>3, <2>4
    <3>2. Raised' = slowed' - 1
      BY <1>1, <2>4 DEF Raised
    <3> QED
      BY <2>1, <3>1, <3>2
  <2>5. CASE ~ SlowDown'
    <3>1. slowed' = slowed
      BY <1>3, <2>1, <2>2, <2>3, <2>5
    <3>2. Raised' = slowed'
      BY <1>1, <2>5 DEF Raised
    <3> QED
      BY <2>1, <3>1, <3>2
  <2> QED
    BY <2>4, <2>5
<1>7. PICK b \in BOOLEAN : b = (decided \/ Decisive(a))
  <2>1. (decided \/ Decisive(a)) \in BOOLEAN
    OBVIOUS
  <2> QED
    BY <2>1, Zenon
<1>8. PollingTypeOK'
  <2>1. interval \in Interval..(Interval + slowed' * Increment)
    BY <1>6, Typed, IntervalIs DEF PollingInv, IntervalGrows
  <2>2. decided' \in BOOLEAN
    BY <1>3, <1>7
  <2>3. grant' \in {"pending", "approved", "denied", "redeemed"} /\ answer' \in AllAnswers
    BY <1>2, <1>3 DEF PollingInv, PollingTypeOK
  <2>4. clock' \in 0..MaxClock /\ answered' \in 0..MaxClock
    BY <1>5
  <2> QED
    BY <1>1, <1>6, <2>1, <2>2, <2>3, <2>4 DEF PollingInv, PollingTypeOK
<1>9. TimeIsKept'
  <2>1. Seconds(clock) \in Nat /\ Seconds(clock') \in Nat /\ Seconds(clock) <= Seconds(clock')
    BY <1>5, Typed, Whole, WholeGrows
  <2> QED
    BY <1>1, <1>5, <2>1, Typed, Bounds DEF PollingInv, TimeIsKept
<1>10. IntervalGrows'
  BY <1>1, <1>6 DEF PollingInv, IntervalGrows
<1>11. MatterIsSettled'
  <2>1. ~ decided /\ outcome = "none"
    BY <1>1 DEF PollingInv, MatterIsSettled
  <2>2. decided' => Decisive(a)
    BY <1>3, <2>1
  <2>3. Decisive(answer)' = Decisive(a)
    BY <1>1, <1>3 DEF Decisive
  <2> QED
    BY <1>1, <1>2, <1>3, <2>1, <2>2, <2>3 DEF MatterIsSettled
<1>12. PollsAreSpaced'
  BY <1>1 DEF PollsAreSpaced
<1> QED
  BY <1>8, <1>9, <1>10, <1>11, <1>12 DEF PollingInv

(* What an answer in hand leaves open: a call that goes on has not been     *)
(* settled, and a slow_down is what Raise is for.                          *)
LEMMA GoesOn ==
  ASSUME PollingInv, at = "answered"
  PROVE  /\ Transient \/ Another \/ SlowDown => ~ decided
         /\ Transient \/ Another => Raised = slowed
         /\ ~ SlowDown => Raised = slowed
         /\ SlowDown => slowed >= 1 /\ Raised = slowed - 1
<1>1. decided => Decisive(answer)
  BY DEF PollingInv, MatterIsSettled
<1>2. Transient \/ Another => ~ SlowDown
  BY SlowDownIsHeard DEF PollingInv
<1>3. SlowDown => slowed >= 1 /\ Raised = slowed - 1
  BY Typed DEF PollingInv, IntervalGrows, Raised
<1>4. ~ SlowDown => Raised = slowed
  BY DEF Raised
<1> QED
  BY <1>1, <1>2, <1>3, <1>4, DecisiveEnds DEF PollingInv

(* The retry inside a poll: served its Retry-After, and before the deadline. *)
LEMMA RetryPreserves == PollingInv /\ RetryInside => PollingInv'
<1> SUFFICES ASSUME PollingInv, RetryInside PROVE PollingInv'
  OBVIOUS
<1>1. PICK delay \in Backoffs : ~ Overruns(delay) /\ clock' = clock + delay
  BY DEF RetryInside
<1>2. /\ at = "answered" /\ at' = "send" /\ Transient /\ attempt < Budget
      /\ attempt' = attempt + 1
      /\ UNCHANGED <<answer, grant, answered, decided, flow, interval, wait, deadline, outcome,
                     expiry, slowed>>
  BY DEF RetryInside, loopVars
<1>3. PICK h \in Int : h = answer.hint * Second
  <2>1. answer.hint \in Int
    BY Typed, Bounds DEF Plausible
  <2> QED
    BY <2>1, Bounds
<1>4. delay \in Nat /\ h <= delay
  <2>1. PICK backoff \in 0..MaxBackoff : delay = Larger(h, backoff)
    BY <1>1, <1>3 DEF Backoffs
  <2> QED
    BY <2>1, Bounds DEF Larger
<1>5. clock' < deadline * Second /\ clock' \in Nat /\ clock <= clock'
  <2>1. Seconds(clock) + RoundedUp(delay) < deadline
    BY <1>1, <1>4, Typed, Whole, Rounded DEF Overruns
  <2> QED
    BY <1>1, <1>4, <2>1, Typed, Fits
<1>6. deadline * Second <= MaxPause + (ExpiresIn + 1) * Second
      /\ deadline <= Seconds(clock) + ExpiresIn
  BY DEF PollingInv, TimeIsKept
<1>7. clock' <= MaxClock
  <2>1. (ExpiresIn + 1) * Second \in Nat /\ deadline * Second \in Nat
    BY Typed, Horizon, Bounds
  <2> QED
    BY <1>5, <1>6, <2>1, Bounds DEF MaxClock
<1>8. ~ decided /\ Raised = slowed
  BY <1>2, GoesOn
<1>9. PollingTypeOK'
  <2>1. clock' \in 0..MaxClock /\ attempt' \in 0..Budget /\ at' = "send"
    BY <1>2, <1>5, <1>7, Typed, Bounds
  <2> QED
    BY <1>2, <2>1 DEF PollingInv, PollingTypeOK
<1>10. TimeIsKept'
  <2>1. Seconds(clock) \in Nat /\ Seconds(clock') \in Nat /\ Seconds(clock) <= Seconds(clock')
    BY <1>5, Typed, Whole, WholeGrows
  <2> QED
    BY <1>2, <1>5, <2>1, Typed, Bounds DEF PollingInv, TimeIsKept
<1>11. IntervalGrows'
  <2>1. Raised' = Raised
    BY <1>2, <1>8 DEF Raised
  <2> QED
    BY <1>2, <2>1, Typed DEF PollingInv, IntervalGrows
<1>12. MatterIsSettled'
  BY <1>2, <1>8 DEF PollingInv, MatterIsSettled
<1>13. PollsAreSpaced'
  <2>1. attempt' # 1
    BY <1>2, Typed DEF PollingInv, IntervalGrows
  <2>2. clock' >= answered + h
    BY <1>1, <1>3, <1>4, Typed
  <2> QED
    BY <1>2, <1>3, <2>1, <2>2 DEF PollsAreSpaced
<1> QED
  BY <1>9, <1>10, <1>11, <1>12, <1>13 DEF PollingInv

(* Round again, with the interval as it is or, after a 429, its Retry-After *)
(* if that is longer.                                                      *)
LEMMA AgainPreserves == PollingInv /\ Again => PollingInv'
<1> SUFFICES ASSUME PollingInv, Again PROVE PollingInv'
  OBVIOUS
<1>1. /\ at = "answered" /\ at' = "loop" /\ Another /\ wait' = NextWait
      /\ UNCHANGED <<flow, clock, interval, deadline, attempt, answer, outcome, grant, expiry,
                     answered, slowed, decided>>
  BY DEF Again, PollOver
<1>2. ~ decided /\ Raised = slowed
  BY <1>1, GoesOn
<1>3. /\ wait' \in 1..((MaxHint + ExpiresIn + Increment + Interval) * Second)
      /\ wait' >= interval * Second
      /\ flow = "device" /\ answer.status = "429" => wait' >= answer.hint * Second
  <2>1. interval < ExpiresIn
    BY <1>1 DEF PollingInv, IntervalGrows
  <2>2. PICK n \in Nat :
          /\ n = interval * Second
          /\ n \in 1..((MaxHint + ExpiresIn + Increment + Interval) * Second)
    BY <2>1, Typed, Horizon, Bounds
  <2>3. PICK h \in Int :
          /\ h = answer.hint * Second
          /\ h <= (MaxHint + ExpiresIn + Increment + Interval) * Second
    <3>1. PICK hint \in Int : hint = answer.hint /\ hint <= MaxHint
      BY Typed DEF Plausible
    <3>2. hint * Second <= (MaxHint + ExpiresIn + Increment + Interval) * Second
      BY <3>1, Times, Bounds
    <3>3. hint * Second \in Int
      BY Bounds
    <3> QED
      BY <3>1, <3>2, <3>3
  <2>4. wait' = n \/ wait' = Larger(n, h)
    BY <1>1, <2>2, <2>3 DEF NextWait
  <2>5. flow = "device" /\ answer.status = "429" => wait' = Larger(n, h)
    BY <1>1, <2>2, <2>3 DEF NextWait
  <2>6. n <= Larger(n, h) /\ h <= Larger(n, h) /\ Larger(n, h) \in {n, h}
    BY DEF Larger
  <2>7. PICK top \in Int : top = (MaxHint + ExpiresIn + Increment + Interval) * Second
    BY Bounds
  <2> QED
    BY <2>2, <2>3, <2>4, <2>5, <2>6, <2>7
<1>4. PollingTypeOK'
  BY <1>1, <1>3 DEF PollingInv, PollingTypeOK
<1>5. TimeIsKept'
  BY <1>1 DEF PollingInv, TimeIsKept
<1>6. IntervalGrows'
  <2>1. Raised' = Raised
    BY <1>1, <1>2 DEF Raised
  <2> QED
    BY <1>1, <1>3, <2>1 DEF PollingInv, IntervalGrows
<1>7. MatterIsSettled' /\ PollsAreSpaced'
  BY <1>1, <1>2 DEF PollingInv, MatterIsSettled, PollsAreSpaced
<1> QED
  BY <1>4, <1>5, <1>6, <1>7 DEF PollingInv

(* Round again with a longer interval. *)
LEMMA RaisePreserves == PollingInv /\ Raise => PollingInv'
<1> SUFFICES ASSUME PollingInv, Raise PROVE PollingInv'
  OBVIOUS
<1>1. /\ at = "answered" /\ at' = "loop" /\ SlowDown
      /\ interval' = interval + Increment /\ wait' = interval' * Second
      /\ UNCHANGED <<flow, clock, deadline, attempt, answer, outcome, grant, expiry, answered,
                     slowed, decided>>
  BY DEF Raise, PollOver
<1>2. ~ decided /\ slowed >= 1 /\ Raised = slowed - 1
  BY <1>1, GoesOn
<1>3. Raised' = slowed /\ slowed \in Nat
  BY <1>1, Typed DEF Raised
<1>4. interval' = Interval + slowed * Increment
  <2>1. interval = Interval + Raised * Increment
    BY DEF PollingInv, IntervalGrows
  <2>2. (slowed - 1) * Increment = slowed * Increment - Increment
    BY <1>3, Bounds
  <2>3. slowed * Increment \in Int
    BY <1>3, Bounds
  <2> QED
    BY <1>1, <1>2, <2>1, <2>2, <2>3, Bounds
<1>5. interval' \in Nat /\ interval' >= 1 /\ interval' <= ExpiresIn + Increment + Interval
  BY <1>1, Typed, Bounds DEF PollingInv, IntervalGrows
<1>6. wait' \in 1..((MaxHint + ExpiresIn + Increment + Interval) * Second)
  BY <1>1, <1>5, Horizon, Bounds
<1>7. PollingTypeOK'
  <2>1. interval' \in Interval..(Interval + slowed' * Increment)
    BY <1>1, <1>3, <1>4, IntervalIs
  <2> QED
    BY <1>1, <1>6, <2>1 DEF PollingInv, PollingTypeOK
<1>8. TimeIsKept'
  BY <1>1 DEF PollingInv, TimeIsKept
<1>9. IntervalGrows'
  <2>1. wait' >= interval' * Second
    BY <1>1, <1>5, Horizon
  <2>2. ~ (flow = "device" /\ answer.status = "429")
    BY <1>1 DEF SlowDown
  <2> QED
    BY <1>1, <1>3, <1>4, <1>5, <2>1, <2>2 DEF IntervalGrows
<1>10. MatterIsSettled' /\ PollsAreSpaced'
  BY <1>1, <1>2 DEF PollingInv, MatterIsSettled, PollsAreSpaced
<1> QED
  BY <1>7, <1>8, <1>9, <1>10 DEF PollingInv

(* The call ends with the answer's own code. *)
LEMMA FinishPreserves == PollingInv /\ Finish => PollingInv'
<1> SUFFICES ASSUME PollingInv, Finish PROVE PollingInv'
  OBVIOUS
<1>1. /\ at = "answered" /\ at' = "done" /\ ~ Another /\ ~ SlowDown /\ outcome' = Verdict
      /\ UNCHANGED <<flow, clock, interval, wait, deadline, attempt, answer, grant, expiry,
                     answered, slowed, decided>>
  BY DEF Finish, PollOver
<1>2. /\ Verdict \in Endings /\ Verdict # "expired_token"
      /\ Verdict = answer.code \/ Verdict = "refused"
  BY <1>1, VerdictIsTyped DEF PollingInv
<1>3. Raised' = Raised
  BY <1>1, GoesOn DEF Raised
<1>4. PollingTypeOK'
  BY <1>1, <1>2 DEF PollingInv, PollingTypeOK
<1>5. TimeIsKept' /\ IntervalGrows' /\ PollsAreSpaced'
  BY <1>1, <1>3 DEF PollingInv, TimeIsKept, IntervalGrows, PollsAreSpaced
<1>6. MatterIsSettled'
  BY <1>1, <1>2 DEF PollingInv, MatterIsSettled
<1> QED
  BY <1>4, <1>5, <1>6 DEF PollingInv

(* Every step keeps the invariant. *)
LEMMA NextPreserves == PollingInv /\ [PollingNext]_pollingVars => PollingInv'
<1> SUFFICES ASSUME PollingInv, [PollingNext]_pollingVars PROVE PollingInv'
  OBVIOUS
<1>1. CASE UNCHANGED pollingVars
  BY <1>1 DEF pollingVars, PollingInv, PollingTypeOK, TimeIsKept, IntervalGrows, Raised, SlowDown, MatterIsSettled,
              Decisive, PollsAreSpaced
<1>2. CASE Step
  BY <1>2, EnterPreserves, ExpirePreserves, PollPreserves, RequestPreserves, RetryPreserves,
     AgainPreserves, RaisePreserves, FinishPreserves DEF Step
<1> QED
  BY <1>1, <1>2, DecidePreserves DEF PollingNext

(* The invariant: the deadline is a grant's life away at most, the interval *)
(* is the first one and an increment for every slow_down, and a matter that *)
(* is settled is not asked about again.                                    *)
THEOREM PollingInductive == PollingSpec => []PollingInv
BY InitIsSound, NextPreserves, PTL DEF PollingSpec

(* No request leaves at or after the deadline, whatever the interval, the  *)
(* lifetime, the answers and the fractions of seconds (axiam_device_login() *)
(* and axiam_ciba_await(), the retries inside a poll included).            *)
THEOREM InTime == PollingSpec => []NothingAfterDeadline
<1>1. PollingInv => NothingAfterDeadline
  <2> SUFFICES ASSUME PollingInv, at = "send"
               PROVE  clock < deadline * Second /\ (flow = "ciba" => clock < expiry)
    BY DEF NothingAfterDeadline
  <2>1. deadline * Second \in Nat
    BY Typed, Horizon
  <2> QED
    BY <2>1, Typed DEF PollingInv, TimeIsKept
<1> QED
  BY <1>1, PollingInductive, PTL

(* A poll leaves an interval after the latest answer at the earliest, grown *)
(* by every slow_down; a Retry-After that reaches the loop is served whole.  *)
THEOREM Spaced == PollingSpec => []PollsAreSpaced
<1>1. PollingInv => PollsAreSpaced
  BY DEF PollingInv
<1> QED
  BY <1>1, PollingInductive, PTL

(* The outcome is what became of the grant, nothing is sent once an answer *)
(* has settled the matter, and every variable is of its type: the interval *)
(* stays below the grant's life while polls leave, so that waits are        *)
(* bounded.                                                                *)
THEOREM Truthful == PollingSpec => []OutcomeIsTrue
<1>1. PollingInv => OutcomeIsTrue
  <2> SUFFICES ASSUME PollingInv PROVE OutcomeIsTrue
    OBVIOUS
  <2>1. Plausible(answer)
    BY Typed
  <2>2. outcome = "invalid_grant" => answer = Spent
    BY <2>1 DEF PollingInv, MatterIsSettled, Plausible
  <2> QED
    BY <2>2 DEF PollingInv, MatterIsSettled, OutcomeIsTrue
<1> QED
  BY <1>1, PollingInductive, PTL
===============================================================================
