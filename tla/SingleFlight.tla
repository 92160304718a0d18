----------------------------- MODULE SingleFlight -----------------------------
(***************************************************************************)
(* The client's refresh guard: single_flight_refresh() of src/client.c.    *)
(*                                                                         *)
(* refresh_mtx protects refresh_in_flight, refresh_result and              *)
(* refresh_count; refresh_cond is where followers wait.  Each critical     *)
(* section of refresh_mtx is one action, because nothing outside it can    *)
(* see the guard in between.  pthread_cond_wait releases the mutex and     *)
(* sleeps in one step; POSIX lets it return without a signal, and a        *)
(* signalled thread still has to win the mutex before it re-reads the      *)
(* flag, so "asleep" and "woken" are two program points.                   *)
(*                                                                         *)
(* What perform_refresh() does on the wire is not modelled here, only that *)
(* it ends with some kind: Session.tla gives it its effects.               *)
(***************************************************************************)
EXTENDS Naturals, Sequences

CONSTANTS Threads,   \* the application threads that share one axiam_client_t
          Kinds,     \* what perform_refresh() can return
          MaxCalls   \* bound: how many refreshes one thread asks for

ASSUME KindsAssumption == "ok" \in Kinds /\ "none" \notin Kinds
ASSUME MaxCallsAssumption == MaxCalls \in Nat

VARIABLES
  inFlight,  \* refresh_in_flight
  result,    \* refresh_result
  count,     \* refresh_count
  pc,        \* where each thread is in single_flight_refresh()
  local,     \* the leader's own r
  answer,    \* the kind each thread's latest call returned
  calls,     \* how many calls each thread has made (see MaxCalls)
  joined,    \* history: the flight each thread leads or found in the air
  outcomes   \* history: what each completed flight answered, in order

guard == <<inFlight, result, count>>
history == <<joined, outcomes>>
vars == <<inFlight, result, count, pc, local, answer, calls, joined, outcomes>>

Init ==
  /\ inFlight = FALSE
  /\ result = "ok"
  /\ count = 0
  /\ pc = [t \in Threads |-> "idle"]
  /\ local = [t \in Threads |-> "ok"]
  /\ answer = [t \in Threads |-> "none"]
  /\ calls = [t \in Threads |-> 0]
  /\ joined = [t \in Threads |-> 0]
  /\ outcomes = <<>>

-------------------------------------------------------------------------------

(* What every call does on the way in, leader or follower: the flight it   *)
(* will lead, or finds in the air, is the one after those already counted. *)
Arrive(t) ==
  /\ pc[t] = "idle"
  /\ calls[t] < MaxCalls
  /\ calls' = [calls EXCEPT ![t] = @ + 1]
  /\ answer' = [answer EXCEPT ![t] = "none"]
  /\ joined' = [joined EXCEPT ![t] = count + 1]

(* A flight is in the air: wait for it. *)
Follow(t) ==
  /\ Arrive(t)
  /\ inFlight
  /\ pc' = [pc EXCEPT ![t] = "asleep"]
  /\ UNCHANGED <<guard, local, outcomes>>

(* Mutant: the flag is not looked at. *)
LeadUnchecked(t) ==
  /\ Arrive(t)
  /\ inFlight' = TRUE
  /\ pc' = [pc EXCEPT ![t] = "leading"]
  /\ UNCHANGED <<result, count, local, outcomes>>

(* None is: take the flag and leave the critical section. *)
Lead(t) ==
  /\ Arrive(t)
  /\ ~inFlight
  /\ inFlight' = TRUE
  /\ pc' = [pc EXCEPT ![t] = "leading"]
  /\ UNCHANGED <<result, count, local, outcomes>>

(* perform_refresh() returns, outside every lock. *)
Perform(t, kind) ==
  /\ pc[t] = "leading"
  /\ pc' = [pc EXCEPT ![t] = "landed"]
  /\ local' = [local EXCEPT ![t] = kind]
  /\ UNCHANGED <<guard, answer, calls, history>>

(* Mutant: nobody is woken. *)
NoBroadcast(program) == program

(* pthread_cond_broadcast: every thread asleep may go for the mutex. *)
Broadcast(program) ==
  [u \in Threads |-> IF program[u] = "asleep" THEN "woken" ELSE program[u]]

(* The leader's second critical section: vacate, publish, wake. *)
Publish(t) ==
  /\ pc[t] = "landed"
  /\ inFlight' = FALSE
  /\ result' = local[t]
  /\ count' = count + 1
  /\ outcomes' = Append(outcomes, local[t])
  /\ pc' = Broadcast([pc EXCEPT ![t] = "clearing"])
  /\ UNCHANGED <<local, answer, calls, joined>>

(* The leader clears the decision memo, with the guard already released,   *)
(* and returns its own r.                                                  *)
ClearMemo(t) ==
  /\ pc[t] = "clearing"
  /\ pc' = [pc EXCEPT ![t] = "idle"]
  /\ answer' = [answer EXCEPT ![t] = local[t]]
  /\ local' = [local EXCEPT ![t] = "ok"]
  /\ UNCHANGED <<guard, calls, history>>

(* A woken follower holds the mutex again and finds the flag still, or     *)
(* again, set: the while loop waits once more.                             *)
WaitAgain(t) ==
  /\ pc[t] = "woken"
  /\ inFlight
  /\ pc' = [pc EXCEPT ![t] = "asleep"]
  /\ UNCHANGED <<guard, local, answer, calls, history>>

(* Mutant: "if" for "while", the flag is not read again. *)
TakeResultUnchecked(t) ==
  /\ pc[t] = "woken"
  /\ pc' = [pc EXCEPT ![t] = "idle"]
  /\ answer' = [answer EXCEPT ![t] = result]
  /\ UNCHANGED <<guard, local, calls, history>>

(* It finds the flag clear: it takes refresh_result as it stands now. *)
TakeResult(t) ==
  /\ pc[t] = "woken"
  /\ ~inFlight
  /\ pc' = [pc EXCEPT ![t] = "idle"]
  /\ answer' = [answer EXCEPT ![t] = result]
  /\ UNCHANGED <<guard, local, calls, history>>

(* pthread_cond_wait returned although nobody signalled. *)
SpuriousWakeup(t) ==
  /\ pc[t] = "asleep"
  /\ pc' = [pc EXCEPT ![t] = "woken"]
  /\ UNCHANGED <<guard, local, answer, calls, history>>

(* Every thread has made its calls and returned from them. *)
Quiesced ==
  /\ \A t \in Threads : pc[t] = "idle" /\ calls[t] = MaxCalls
  /\ UNCHANGED vars

(* The steps a thread inside the guard takes on its own. *)
Advance(t) ==
  \/ \E kind \in Kinds : Perform(t, kind)
  \/ Publish(t)
  \/ ClearMemo(t)
  \/ WaitAgain(t)
  \/ TakeResult(t)

Next ==
  \/ \E t \in Threads : Follow(t) \/ Lead(t) \/ Advance(t) \/ SpuriousWakeup(t)
  \/ Quiesced

Spec == Init /\ [][Next]_vars

(* Threads are scheduled, a configured timeout ends every wire call,       *)
(* and a thread that can take the mutex takes it.  Nothing obliges an      *)
(* application to make calls, nor cond_wait to wake spuriously.            *)
FairSpec == Spec /\ \A t \in Threads : WF_vars(Advance(t))

-------------------------------------------------------------------------------
(* Properties *)

Points == {"idle", "asleep", "woken", "leading", "landed", "clearing"}

TypeOK ==
  /\ inFlight \in BOOLEAN
  /\ result \in Kinds
  /\ count \in Nat
  /\ pc \in [Threads -> Points]
  /\ local \in [Threads -> Kinds]
  /\ answer \in [Threads -> Kinds \cup {"none"}]
  /\ calls \in [Threads -> 0..MaxCalls]
  /\ joined \in [Threads -> Nat]
  /\ outcomes \in Seq(Kinds)

Airborne(t) == pc[t] \in {"leading", "landed"}
Waiting(t) == pc[t] \in {"asleep", "woken"}

(* Rule 1 of CONTRACT section 9: at no instant are two threads between     *)
(* taking the flag and clearing it, so two refreshes are never on the wire *)
(* together and a rotated refresh token is not presented twice.            *)
AtMostOneFlight ==
  \A t, u \in Threads : Airborne(t) /\ Airborne(u) => t = u

(* No lost wakeup: a thread that sleeps on refresh_cond has a leader ahead *)
(* of it that will broadcast.                                              *)
SleepersAreAwaited == \A t \in Threads : pc[t] = "asleep" => inFlight

(* Rule 6(d) of section 9: a caller is never handed the outcome of a       *)
(* flight that had already settled when it arrived.  A follower that can   *)
(* return has a settled flight at or after the one it joined.              *)
NeverAnEarlierOutcome ==
  \A t \in Threads : Waiting(t) /\ ~inFlight => joined[t] <= count

(* Rule 2 of section 9, what a step may do: a follower returns only with   *)
(* the outcome of a flight that landed during its own call, and never      *)
(* while one is in the air.                                                *)
FollowerReturnsSettled ==
  [][\A t \in Threads :
       pc[t] = "woken" /\ pc'[t] = "idle" =>
         /\ ~inFlight
         /\ joined[t] \in 1..count
         /\ answer'[t] = outcomes[count]]_vars

(* A finite burst drains: every thread that entered the guard returns.     *)
EveryCallerReturns ==
  \A t \in Threads : pc[t] # "idle" ~> pc[t] = "idle"
===============================================================================
