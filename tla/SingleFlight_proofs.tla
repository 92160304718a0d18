-------------------------- MODULE SingleFlight_proofs --------------------------
(***************************************************************************)
(* The refresh guard is correct for any number of threads and calls: type  *)
(* correctness, the safety invariants and the action property the run      *)
(* MCSingleFlight checks, all from one inductive invariant.                *)
(***************************************************************************)
EXTENDS SingleFlight, SequenceTheorems, TLAPS

(* The flag is set exactly while some thread is on its way to clear it: it *)
(* is never left set by a leader that has gone (every later caller would   *)
(* wait for ever), nor cleared under a leader still in the air.            *)
FlagHasAnOwner == inFlight <=> \E t \in Threads : Airborne(t)

(* refresh_result is the latest settled flight's outcome, and the counter  *)
(* axiam_client_refresh_count() reports is the number of flights settled.  *)
ResultIsLatest ==
  /\ count = Len(outcomes)
  /\ count > 0 => result = outcomes[count]

(* A waiting thread joined the flight now in the air, or one that settled. *)
(* With TypeOK this is all the invariants lack to be inductive: it is what *)
(* makes "the flag is clear" imply "my flight has settled".                *)
JoinedIsKnown == \A t \in Threads : Waiting(t) => joined[t] \in 1..(count + 1)

IInv ==
  /\ TypeOK
  /\ AtMostOneFlight
  /\ FlagHasAnOwner
  /\ SleepersAreAwaited
  /\ NeverAnEarlierOutcome
  /\ ResultIsLatest
  /\ JoinedIsKnown

-------------------------------------------------------------------------------

LEMMA InitEstablishes == Init => IInv
<1> SUFFICES ASSUME Init PROVE IInv
  OBVIOUS
<1> USE DEF Init
<1>1. TypeOK
  <2>1. outcomes \in Seq(Kinds)
    OBVIOUS
  <2>2. /\ inFlight \in BOOLEAN
        /\ result \in Kinds
        /\ count \in Nat
        /\ pc \in [Threads -> Points]
        /\ local \in [Threads -> Kinds]
    BY KindsAssumption DEF Points
  <2>3. /\ answer \in [Threads -> Kinds \cup {"none"}]
        /\ calls \in [Threads -> 0..MaxCalls]
        /\ joined \in [Threads -> Nat]
    BY MaxCallsAssumption
  <2> QED
    BY <2>1, <2>2, <2>3 DEF TypeOK
<1>2. AtMostOneFlight /\ FlagHasAnOwner /\ SleepersAreAwaited
  BY DEF AtMostOneFlight, FlagHasAnOwner, SleepersAreAwaited, Airborne
<1>3. NeverAnEarlierOutcome /\ JoinedIsKnown
  BY DEF NeverAnEarlierOutcome, JoinedIsKnown, Waiting
<1>4. ResultIsLatest
  BY DEF ResultIsLatest
<1> QED
  BY <1>1, <1>2, <1>3, <1>4 DEF IInv

(* Appending the leader's outcome keeps the history a sequence, one longer *)
(* and ending in what was appended.                                        *)
LEMMA AppendOutcome ==
  ASSUME NEW s \in Seq(Kinds), NEW k \in Kinds
  PROVE  /\ Append(s, k) \in Seq(Kinds)
         /\ Len(Append(s, k)) = Len(s) + 1
         /\ Append(s, k)[Len(s) + 1] = k
  BY AppendProperties

(* One step per action; in each, the conjuncts the action can disturb.     *)
LEMMA NextPreserves == IInv /\ [Next]_vars => IInv'
<1> SUFFICES ASSUME IInv, [Next]_vars PROVE IInv'
  OBVIOUS
<1> USE DEF IInv
<1>1. ASSUME NEW t \in Threads, Follow(t) PROVE IInv'
  <2> USE <1>1 DEF Follow, Arrive, guard
  <2>1. TypeOK'
    BY MaxCallsAssumption DEF TypeOK, Points
  <2>2. AtMostOneFlight' /\ FlagHasAnOwner' /\ SleepersAreAwaited'
    BY DEF TypeOK, AtMostOneFlight, FlagHasAnOwner, SleepersAreAwaited, Airborne
  <2>3. NeverAnEarlierOutcome' /\ JoinedIsKnown' /\ ResultIsLatest'
    BY DEF TypeOK, NeverAnEarlierOutcome, JoinedIsKnown, ResultIsLatest, Waiting
  <2> QED
    BY <2>1, <2>2, <2>3
<1>2. ASSUME NEW t \in Threads, Lead(t) PROVE IInv'
  <2> USE <1>2 DEF Lead, Arrive
  <2>1. TypeOK'
    BY MaxCallsAssumption DEF TypeOK, Points
  <2>2. AtMostOneFlight' /\ FlagHasAnOwner' /\ SleepersAreAwaited'
    BY DEF TypeOK, AtMostOneFlight, FlagHasAnOwner, SleepersAreAwaited, Airborne
  <2>3. NeverAnEarlierOutcome' /\ JoinedIsKnown' /\ ResultIsLatest'
    BY DEF TypeOK, NeverAnEarlierOutcome, JoinedIsKnown, ResultIsLatest, Waiting
  <2> QED
    BY <2>1, <2>2, <2>3
<1>3. ASSUME NEW t \in Threads, NEW kind \in Kinds, Perform(t, kind) PROVE IInv'
  <2> USE <1>3 DEF Perform, guard, history
  <2>1. TypeOK'
    BY DEF TypeOK, Points
  <2>2. AtMostOneFlight' /\ FlagHasAnOwner' /\ SleepersAreAwaited'
    BY DEF TypeOK, AtMostOneFlight, FlagHasAnOwner, SleepersAreAwaited, Airborne
  <2>3. NeverAnEarlierOutcome' /\ JoinedIsKnown' /\ ResultIsLatest'
    BY DEF TypeOK, NeverAnEarlierOutcome, JoinedIsKnown, ResultIsLatest, Waiting
  <2> QED
    BY <2>1, <2>2, <2>3
<1>4. ASSUME NEW t \in Threads, Publish(t) PROVE IInv'
  <2> USE <1>4 DEF Publish
  <2>1. /\ outcomes' \in Seq(Kinds)
        /\ Len(outcomes') = Len(outcomes) + 1
        /\ outcomes'[Len(outcomes) + 1] = local[t]
    BY AppendOutcome DEF TypeOK
  <2>2. /\ pc' \in [Threads -> Points]
        /\ \A u \in Threads : pc'[u] = IF u = t THEN "clearing"
                                       ELSE IF pc[u] = "asleep" THEN "woken"
                                       ELSE pc[u]
    BY DEF TypeOK, Broadcast, Points
  <2>3. TypeOK'
    <3>1. inFlight' \in BOOLEAN
      OBVIOUS
    <3>3. count' \in Nat /\ result' \in Kinds
      BY DEF TypeOK
    <3>2. /\ local' \in [Threads -> Kinds]
          /\ answer' \in [Threads -> Kinds \cup {"none"}]
          /\ calls' \in [Threads -> 0..MaxCalls]
          /\ joined' \in [Threads -> Nat]
      BY DEF TypeOK
    <3> QED
      BY <2>1, <2>2, <3>1, <3>2, <3>3 DEF TypeOK
  <2>4. \A u \in Threads : ~Airborne(u)'
    BY <2>2 DEF AtMostOneFlight, Airborne
  <2>5. AtMostOneFlight' /\ FlagHasAnOwner' /\ SleepersAreAwaited'
    BY <2>2, <2>4 DEF AtMostOneFlight, FlagHasAnOwner, SleepersAreAwaited
  <2>6. inFlight
    BY DEF FlagHasAnOwner, Airborne
  <2>7. \A u \in Threads : Waiting(u)' => Waiting(u)
    BY <2>2 DEF Waiting
  <2>8. NeverAnEarlierOutcome' /\ JoinedIsKnown'
    BY <2>7 DEF TypeOK, NeverAnEarlierOutcome, JoinedIsKnown
  <2>9. ResultIsLatest'
    BY <2>1 DEF TypeOK, ResultIsLatest
  <2> QED
    BY <2>3, <2>5, <2>8, <2>9
<1>5. ASSUME NEW t \in Threads, ClearMemo(t) PROVE IInv'
  <2> USE <1>5 DEF ClearMemo, guard, history
  <2>1. TypeOK'
    BY KindsAssumption DEF TypeOK, Points
  <2>2. AtMostOneFlight' /\ FlagHasAnOwner' /\ SleepersAreAwaited'
    BY DEF TypeOK, AtMostOneFlight, FlagHasAnOwner, SleepersAreAwaited, Airborne
  <2>3. NeverAnEarlierOutcome' /\ JoinedIsKnown' /\ ResultIsLatest'
    BY DEF TypeOK, NeverAnEarlierOutcome, JoinedIsKnown, ResultIsLatest, Waiting
  <2> QED
    BY <2>1, <2>2, <2>3
<1>6. ASSUME NEW t \in Threads, WaitAgain(t) \/ SpuriousWakeup(t) PROVE IInv'
  <2> USE <1>6 DEF WaitAgain, SpuriousWakeup, guard, history
  <2>1. TypeOK'
    BY DEF TypeOK, Points
  <2>2. AtMostOneFlight' /\ FlagHasAnOwner' /\ SleepersAreAwaited'
    BY DEF TypeOK, AtMostOneFlight, FlagHasAnOwner, SleepersAreAwaited, Airborne
  <2>3. NeverAnEarlierOutcome' /\ JoinedIsKnown' /\ ResultIsLatest'
    BY DEF TypeOK, NeverAnEarlierOutcome, JoinedIsKnown, ResultIsLatest, Waiting
  <2> QED
    BY <2>1, <2>2, <2>3
<1>7. ASSUME NEW t \in Threads, TakeResult(t) PROVE IInv'
  <2> USE <1>7 DEF TakeResult, guard, history
  <2>1. TypeOK'
    BY DEF TypeOK, Points
  <2>2. AtMostOneFlight' /\ FlagHasAnOwner' /\ SleepersAreAwaited'
    BY DEF TypeOK, AtMostOneFlight, FlagHasAnOwner, SleepersAreAwaited, Airborne
  <2>3. NeverAnEarlierOutcome' /\ JoinedIsKnown' /\ ResultIsLatest'
    BY DEF TypeOK, NeverAnEarlierOutcome, JoinedIsKnown, ResultIsLatest, Waiting
  <2> QED
    BY <2>1, <2>2, <2>3
<1>8. CASE UNCHANGED vars
  BY <1>8 DEF vars, TypeOK, AtMostOneFlight, FlagHasAnOwner, SleepersAreAwaited,
     NeverAnEarlierOutcome, JoinedIsKnown, ResultIsLatest, Airborne, Waiting
<1> QED
  BY <1>1, <1>2, <1>3, <1>4, <1>5, <1>6, <1>7, <1>8 DEF Next, Advance, Quiesced

(* The inductive invariant holds of every reachable state. *)
THEOREM Inductive == Spec => []IInv
<1>1. Init => IInv
  BY InitEstablishes
<1>2. IInv /\ [Next]_vars => IInv'
  BY NextPreserves
<1> QED
  BY <1>1, <1>2, PTL DEF Spec

(* Every variable of the guard keeps its type. *)
THEOREM TypeCorrect == Spec => []TypeOK
<1>1. IInv => TypeOK
  BY DEF IInv
<1> QED
  BY <1>1, Inductive, PTL

(* Never two refreshes on the wire, however many threads there are. *)
THEOREM Exclusive == Spec => []AtMostOneFlight
<1>1. IInv => AtMostOneFlight
  BY DEF IInv
<1> QED
  BY <1>1, Inductive, PTL

(* The flag is never orphaned, and no thread sleeps without a leader that  *)
(* will wake it: the two facts that rule out waiting for ever.             *)
THEOREM NobodyIsForgotten == Spec => [](FlagHasAnOwner /\ SleepersAreAwaited)
<1>1. IInv => FlagHasAnOwner /\ SleepersAreAwaited
  BY DEF IInv
<1> QED
  BY <1>1, Inductive, PTL

(* No follower is ever in a position to take an outcome older than its     *)
(* own flight's, and refresh_result is the latest one.                     *)
THEOREM OutcomeIsFresh == Spec => [](NeverAnEarlierOutcome /\ ResultIsLatest)
<1>1. IInv => NeverAnEarlierOutcome /\ ResultIsLatest
  BY DEF IInv
<1> QED
  BY <1>1, Inductive, PTL

(* A follower's return is always the return of a settled flight, at or     *)
(* after the one it joined.                                                *)
THEOREM FollowersReturnSettled == Spec => FollowerReturnsSettled
<1> DEFINE Good == \A t \in Threads :
                     pc[t] = "woken" /\ pc'[t] = "idle" =>
                       /\ ~inFlight
                       /\ joined[t] \in 1..count
                       /\ answer'[t] = outcomes[count]
<1>1. ASSUME IInv, Next PROVE Good
  <2> SUFFICES ASSUME NEW t \in Threads, pc[t] = "woken", pc'[t] = "idle"
               PROVE  /\ ~inFlight
                      /\ joined[t] \in 1..count
                      /\ answer'[t] = outcomes[count]
    OBVIOUS
  <2>1. TakeResult(t)
    BY <1>1 DEF Next, Follow, Lead, Arrive, Advance, Perform, Publish, Broadcast,
       ClearMemo, WaitAgain, SpuriousWakeup, TakeResult, Quiesced, vars,
       IInv, TypeOK, Points
  <2>2. ~inFlight /\ answer'[t] = result
    BY <2>1, <1>1 DEF TakeResult, IInv, TypeOK
  <2>3. joined[t] \in 1..count
    BY <2>2, <1>1 DEF IInv, TypeOK, NeverAnEarlierOutcome, JoinedIsKnown, Waiting
  <2> QED
    BY <2>2, <2>3, <1>1 DEF IInv, TypeOK, ResultIsLatest
<1>2. IInv /\ [Next]_vars => [Good]_vars
  BY <1>1
<1> QED
  BY <1>2, Inductive, PTL DEF Spec, FollowerReturnsSettled
===============================================================================
