---------------------------- MODULE Delivery_proofs ----------------------------
(***************************************************************************)
(* What is sent may be lost and is sent again: proofs about CallBudget and *)
(* about SsfReceiver.                                                      *)
(*                                                                         *)
(* The first part: what one call may send, for every budget, every clamp   *)
(* and every choice of operations, and how soon. No proof needs the length *)
(* of a doubled delay, which a recursive function gives and no prover here *)
(* can reach by induction: that the cap cuts it is enough.                 *)
(*                                                                         *)
(* The second part: that no event is lost, that none is given twice and    *)
(* that only current keys are trusted, for every number of threads, events *)
(* and keys and every window, lifetime and interval. The three need one    *)
(* another: that nothing is refused without excuse rests on how old the    *)
(* cached keys can be, that on who may fetch and when, and that an event   *)
(* answered for has passed on the store and what is recorded there.        *)
(***************************************************************************)
EXTENDS CallBudget, SsfReceiver, SequenceTheorems, FiniteSetTheorems, TLAPS

Calls == [op : Op \cup {"none"}, at : {"idle", "send", "answered", "refresh"},
          attempt : Nat, last : Nat, refreshed : BOOLEAN,
          answer : Answers \cup {"none"}, hint : Int, slept : Int]

Shape ==
  /\ authenticated \in BOOLEAN
  /\ pool \in BOOLEAN
  /\ call \in Calls
  /\ landed \in Nat
  /\ renewed \in Nat
  /\ sends \in Nat

(* The events count the calls of the transport. *)
Counted ==
  /\ call.at = "send" => sends = call.attempt - 1
  /\ call.at \in {"answered", "refresh"} => sends = call.attempt

(* The loop stops at the budget, or at the one attempt after a refresh.     *)
Capped ==
  IF call.at = "idle" THEN call.op = "none"
  ELSE
    /\ call.op \in Op
    /\ call.attempt \in 1..call.last
    /\ call.at = "refresh" => call.refreshed
    /\ ~ call.refreshed \/ call.at = "refresh" => call.last = Budget(call.op)
    /\ call.refreshed => call.op = "check" /\ call.last <= Budget(call.op) + 1

(* A mutation is sent once, and lands as often as it is sent.               *)
Single == call.op \in Mutations => landed <= sends /\ call.at # "refresh"

(* The refresh is sent in one state only, which is entered once.            *)
RenewedOnce ==
  /\ renewed <= 1
  /\ call.at # "idle" /\ (~ call.refreshed \/ call.at = "refresh") => renewed = 0

IInv == Shape /\ Counted /\ Capped /\ Single /\ RenewedOnce

-----------------------------------------------------------------------------
(* The budget is a positive number, and one for a mutation.                 *)
LEMMA BudgetIsPositive ==
  ASSUME NEW op \in Op
  PROVE  Budget(op) \in Nat \ {0} /\ (op \in Mutations => Budget(op) = 1)
BY BudgetAssumption DEF Budget, Retried

(* A mutation never travels on a connection libcurl could re-send it over.  *)
LEMMA MutationsAreNotPooled ==
  ASSUME NEW op \in Mutations
  PROVE  Deliveries(op) = {0, 1}
BY DEF Mutations, Deliveries, Reusing, Pooled, Retried

LEMMA InitIInv == Init => IInv
<1> SUFFICES ASSUME Init PROVE IInv
  OBVIOUS
<1>1. /\ call.op = "none" /\ call.at = "idle" /\ call.attempt = 0
      /\ landed = 0 /\ renewed = 0 /\ sends = 0
  BY DEF Init, Idle
<1>2. Shape
  <2>1. Idle \in Calls
    BY DEF Idle, Calls, NoHint
  <2> QED
    BY <2>1 DEF Init, Shape
<1>3. Counted /\ Capped /\ Single /\ RenewedOnce
  BY <1>1 DEF Counted, Capped, Single, RenewedOnce, Mutations
<1> QED
  BY <1>2, <1>3 DEF IInv

(* One step per action; in each, the type first and the fields it writes,  *)
(* and what follows from them.                                             *)
LEMMA StepIInv == IInv /\ [Next]_vars => IInv'
<1> SUFFICES ASSUME IInv, [Next]_vars
             PROVE  IInv'
  OBVIOUS
<1>a. Shape /\ Counted /\ Capped /\ Single /\ RenewedOnce
  BY DEF IInv
<1>b. /\ call.attempt \in Nat /\ call.last \in Nat /\ call.refreshed \in BOOLEAN
      /\ sends \in Nat /\ landed \in Nat /\ renewed \in Nat
  BY <1>a DEF Shape, Calls
<1>1. CASE Transport
  <2>a. PICK copies \in Deliveries(call.op), answer \in Answers :
          /\ \E hint \in Hints(answer) :
               call' = [call EXCEPT !.at = "answered", !.answer = answer, !.hint = hint,
                                    !.slept = 0]
          /\ pool' \in Keeps(call.op, answer)
          /\ landed' = landed + copies
    BY <1>1 DEF Transport
  <2>b. PICK hint \in Hints(answer) :
          call' = [call EXCEPT !.at = "answered", !.answer = answer, !.hint = hint, !.slept = 0]
    BY <2>a
  <2>1. call.at = "send" /\ sends' = sends + 1 /\ UNCHANGED <<authenticated, renewed>>
    BY <1>1 DEF Transport
  <2>2. copies \in Nat /\ (call.op \in Mutations => copies <= 1)
    <3>1. copies \in {0, 1, 2}
      BY DEF Deliveries
    <3>2. ASSUME call.op \in Mutations PROVE copies \in {0, 1}
      BY <3>2, MutationsAreNotPooled
    <3> QED
      BY <3>1, <3>2
  <2>3. hint \in Int
    BY BudgetAssumption DEF Hints, NoHint
  <2>4. pool' \in BOOLEAN
    BY <2>a, <1>a DEF Keeps, Shape
  <2>5. /\ call' \in Calls
        /\ call'.at = "answered"
        /\ call'.op = call.op /\ call'.attempt = call.attempt /\ call'.last = call.last
        /\ call'.refreshed = call.refreshed
    <3>1. call \in Calls
      BY <1>a DEF Shape
    <3>2. call' = [op |-> call.op, at |-> "answered", attempt |-> call.attempt,
                   last |-> call.last, refreshed |-> call.refreshed, answer |-> answer,
                   hint |-> hint, slept |-> 0]
      BY <2>b, <3>1 DEF Calls
    <3>3. call' \in Calls
      BY <2>3, <3>1, <3>2 DEF Calls
    <3> QED
      BY <3>2, <3>3
  <2>6. Shape'
    BY <1>a, <1>b, <2>a, <2>1, <2>2, <2>4, <2>5 DEF Shape
  <2>7. Counted'
    BY <1>a, <1>b, <2>1, <2>5 DEF Counted
  <2>8. Capped'
    BY <1>a, <2>1, <2>5 DEF Capped
  <2>9. Single'
    BY <1>a, <1>b, <2>a, <2>1, <2>2, <2>5 DEF Single
  <2>10. RenewedOnce'
    BY <1>a, <2>1, <2>5 DEF RenewedOnce
  <2> QED
    BY <2>6, <2>7, <2>8, <2>9, <2>10 DEF IInv
<1>2. CASE Retry
  <2>a. PICK delay \in Delays(call.attempt, HandedOn(call.hint)) :
          call' = [call EXCEPT !.at = "send", !.attempt = @ + 1, !.slept = delay]
    BY <1>2 DEF Retry
  <2>1. /\ call.at = "answered"
        /\ UNCHANGED <<authenticated, pool, landed, renewed, sends>>
    BY <1>2 DEF Retry
  <2>2. call.attempt # call.last
    BY <1>2 DEF Retry, Exhausted
  <2>3. delay \in Int
    <3>1. PICK jittered \in Jittered(call.attempt) :
            delay = Larger(RetryAfter(HandedOn(call.hint)), jittered)
      BY <2>a DEF Delays
    <3>2. jittered \in Int
      BY <3>1 DEF Jittered
    <3>3. RetryAfter(HandedOn(call.hint)) \in Int
      <4>1. HandedOn(call.hint) \in Int /\ FloorCap \in Int /\ -1 \in Int
        BY <1>a, BudgetAssumption DEF Shape, Calls, HandedOn, NoHint
      <4> QED
        BY <4>1 DEF RetryAfter, Smaller, NoHint
    <3> QED
      BY <3>1, <3>2, <3>3 DEF Larger
  <2>4. /\ call' \in Calls
        /\ call'.at = "send"
        /\ call'.op = call.op /\ call'.attempt = call.attempt + 1 /\ call'.last = call.last
        /\ call'.refreshed = call.refreshed
    <3>1. call \in Calls /\ call.attempt + 1 \in Nat
      BY <1>a, <1>b DEF Shape
    <3>2. call' \in Calls
      BY <2>a, <2>3, <3>1 DEF Calls
    <3> QED
      BY <2>a, <3>1, <3>2 DEF Calls
  <2>5. call.attempt + 1 \in 1..call.last
    BY <1>a, <1>b, <2>1, <2>2 DEF Capped
  <2>6. Shape'
    BY <1>a, <2>1, <2>4 DEF Shape
  <2>7. Counted'
    BY <1>a, <1>b, <2>1, <2>4 DEF Counted
  <2>8. Capped'
    BY <1>a, <2>1, <2>4, <2>5 DEF Capped
  <2>9. Single'
    BY <1>a, <2>1, <2>4 DEF Single
  <2>10. RenewedOnce'
    BY <1>a, <2>1, <2>4 DEF RenewedOnce
  <2> QED
    BY <2>6, <2>7, <2>8, <2>9, <2>10 DEF IInv
<1>3. CASE EnterRefresh
  <2>1. /\ call.at = "answered" /\ call.op = "check" /\ ~ call.refreshed
        /\ UNCHANGED <<authenticated, pool, landed, renewed, sends>>
    BY <1>3 DEF EnterRefresh, MayRefresh
  <2>2. /\ call' \in Calls
        /\ call'.at = "refresh" /\ call'.refreshed
        /\ call'.op = call.op /\ call'.attempt = call.attempt /\ call'.last = call.last
    <3>1. call' = [call EXCEPT !.at = "refresh", !.refreshed = TRUE]
      BY <1>3 DEF EnterRefresh
    <3> QED
      BY <1>a, <3>1 DEF Shape, Calls
  <2>3. call.op \notin Mutations /\ Budget(call.op) \in Nat
    <3>1. "check" \notin Mutations /\ "check" \in Op
      BY DEF Mutations, Op
    <3> QED
      BY <2>1, <3>1, BudgetIsPositive
  <2>4. Shape'
    BY <1>a, <2>1, <2>2 DEF Shape
  <2>5. Counted'
    BY <1>a, <2>1, <2>2 DEF Counted
  <2>6. Capped'
    <3>1. call.last = Budget(call.op) /\ call.op \in Op /\ call.attempt \in 1..call.last
      BY <1>a, <2>1 DEF Capped
    <3>2. call.last <= Budget(call.op) + 1
      BY <3>1, <2>3
    <3> QED
      BY <2>1, <2>2, <3>1, <3>2 DEF Capped
  <2>7. Single' /\ RenewedOnce'
    BY <1>a, <2>1, <2>2, <2>3 DEF Single, RenewedOnce
  <2> QED
    BY <2>4, <2>5, <2>6, <2>7 DEF IInv
<1>4. CASE Refreshed
  <2>1. call.at = "refresh" /\ UNCHANGED <<authenticated, pool, landed, sends>>
    BY <1>4 DEF Refreshed
  <2>2. /\ call.op = "check" /\ call.refreshed
        /\ call.attempt \in 1..call.last /\ call.last = Budget(call.op)
    BY <1>a, <2>1 DEF Capped
  <2>3. renewed' \in {0, 1}
    <3>1. renewed = 0
      BY <1>a, <2>1 DEF RenewedOnce
    <3> QED
      BY <1>4, <3>1 DEF Refreshed
  <2>4. /\ call' \in Calls
        /\ call'.at = "send" /\ call'.refreshed
        /\ call'.op = call.op /\ call'.attempt = call.attempt + 1
        /\ call'.last = call.attempt + 1
    <3>1. call' = [call EXCEPT !.at = "send", !.attempt = @ + 1, !.last = call.attempt + 1,
                               !.answer = "none", !.hint = NoHint, !.slept = 0]
      BY <1>4 DEF Refreshed
    <3> QED
      <4>1. call \in Calls /\ call.attempt + 1 \in Nat /\ NoHint \in Int
        BY <1>a, <1>b DEF Shape, NoHint
      <4>2. call' = [op |-> call.op, at |-> "send", attempt |-> call.attempt + 1,
                     last |-> call.attempt + 1, refreshed |-> call.refreshed,
                     answer |-> "none", hint |-> NoHint, slept |-> 0]
        BY <3>1, <4>1 DEF Calls
      <4>3. call' \in Calls
        BY <4>1, <4>2 DEF Calls
      <4> QED
        BY <2>2, <4>2, <4>3
  <2>5. call.op \notin Mutations /\ call.op \in Op
    BY <2>2 DEF Mutations, Op
  <2>6. Shape'
    BY <1>a, <2>1, <2>3, <2>4 DEF Shape
  <2>7. Counted'
    BY <1>a, <1>b, <2>1, <2>4 DEF Counted
  <2>8. Capped'
    <3>1. call.attempt + 1 \in 1..(call.attempt + 1)
      BY <1>b
    <3>2. call.attempt + 1 <= Budget(call.op) + 1
      BY <1>b, <2>2
    <3> QED
      BY <2>2, <2>4, <2>5, <3>1, <3>2 DEF Capped
  <2>9. Single' /\ RenewedOnce'
    BY <2>3, <2>4, <2>5 DEF Single, RenewedOnce
  <2> QED
    BY <2>6, <2>7, <2>8, <2>9 DEF IInv
<1>5. ASSUME call' = Idle, renewed' \in {0, 1}, authenticated' \in BOOLEAN,
             UNCHANGED <<pool, landed, sends>>
      PROVE  IInv'
  <2>1. call' \in Calls /\ call'.op = "none" /\ call'.at = "idle"
    BY <1>5 DEF Idle, Calls, NoHint
  <2>2. Shape'
    BY <1>a, <1>5, <2>1 DEF Shape
  <2>3. Counted' /\ Capped' /\ Single' /\ RenewedOnce'
    BY <1>5, <2>1 DEF Counted, Capped, Single, RenewedOnce, Mutations
  <2> QED
    BY <2>2, <2>3 DEF IInv
<1>6. CASE RefreshFailed
  <2>1. /\ call.at = "refresh" /\ renewed' \in {renewed, renewed + 1} /\ call' = Idle
        /\ authenticated' \in {authenticated, FALSE} /\ UNCHANGED <<pool, landed, sends>>
    BY <1>6 DEF RefreshFailed
  <2>2. renewed = 0
    BY <1>a, <2>1 DEF RenewedOnce
  <2>3. authenticated \in BOOLEAN
    BY <1>a DEF Shape
  <2>4. authenticated' \in BOOLEAN
    BY <2>1, <2>3
  <2>5. renewed' \in {0, 1}
    BY <2>1, <2>2
  <2> QED
    BY <1>5, <2>1, <2>4, <2>5
<1>7. CASE Return
  <2>1. call' = Idle /\ UNCHANGED <<authenticated, pool, landed, renewed, sends>>
    BY <1>7 DEF Return
  <2>2. renewed' \in {0, 1} /\ authenticated' \in BOOLEAN
    BY <1>a, <1>b, <2>1 DEF Shape, RenewedOnce
  <2> QED
    BY <1>5, <2>1, <2>2
<1>8. CASE OthersSignInOrOut
  <2>1. authenticated' \in BOOLEAN /\ UNCHANGED <<pool, call, landed, renewed, sends>>
    BY <1>8, <1>a DEF OthersSignInOrOut, Shape
  <2> QED
    BY <1>a, <2>1 DEF IInv, Shape, Counted, Capped, Single, RenewedOnce
<1>9. ASSUME NEW op \in Operations, Begin(op)
      PROVE  IInv'
  <2>1. op \in Op /\ Budget(op) \in Nat \ {0}
    BY OperationsAssumption, BudgetIsPositive
  <2>2. /\ call' \in Calls
        /\ call'.at = "send" /\ ~ call'.refreshed
        /\ call'.op = op /\ call'.attempt = 1 /\ call'.last = Budget(op)
    <3>1. call' = [Idle EXCEPT !.op = op, !.at = "send", !.attempt = 1, !.last = Budget(op)]
      BY <1>9 DEF Begin
    <3>2. call' = [op |-> op, at |-> "send", attempt |-> 1, last |-> Budget(op),
                   refreshed |-> FALSE, answer |-> "none", hint |-> NoHint, slept |-> 0]
      BY <3>1 DEF Idle
    <3>3. NoHint \in Int
      BY DEF NoHint
    <3> QED
      BY <2>1, <3>2, <3>3 DEF Calls
  <2>3. /\ landed' = 0 /\ renewed' = 0 /\ sends' = 0
        /\ UNCHANGED <<authenticated, pool>>
    BY <1>9 DEF Begin
  <2>4. Shape'
    BY <1>a, <2>2, <2>3 DEF Shape
  <2>5. Counted' /\ Single' /\ RenewedOnce'
    BY <2>2, <2>3 DEF Counted, Single, RenewedOnce
  <2>6. Capped'
    <3>1. 1 \in 1..Budget(op)
      BY <2>1
    <3> QED
      BY <2>1, <2>2, <3>1 DEF Capped
  <2> QED
    BY <2>4, <2>5, <2>6 DEF IInv
<1>10. ASSUME NEW op \in Operations, NoSession(op)
       PROVE  IInv'
  <2>1. UNCHANGED <<authenticated, pool, call, landed, renewed, sends>>
    BY <1>10 DEF NoSession
  <2> QED
    BY <1>a, <2>1 DEF IInv, Shape, Counted, Capped, Single, RenewedOnce
<1>11. CASE UNCHANGED vars
  BY <1>a, <1>11 DEF vars, IInv, Shape, Counted, Capped, Single, RenewedOnce
<1> QED
  BY <1>1, <1>2, <1>3, <1>4, <1>6, <1>7, <1>8, <1>9, <1>10, <1>11 DEF Next

THEOREM Inductive == Spec => []IInv
BY InitIInv, StepIInv, PTL DEF Spec

-----------------------------------------------------------------------------
(* No write, sign-in or grant reaches the server twice, and no refresh      *)
(* inside a check does.                                                     *)
THEOREM LandOnce == Spec => []WritesLandOnce
<1>1. IInv => WritesLandOnce
  <2> SUFFICES ASSUME IInv PROVE WritesLandOnce
    OBVIOUS
  <2>1. renewed <= 1
    BY DEF IInv, RenewedOnce
  <2>2. ASSUME call.op \in Mutations, call.at # "idle" PROVE sends <= 1
    <3>1. call.op \in Op /\ Budget(call.op) = 1
      BY <2>2, BudgetIsPositive DEF IInv, Capped
    <3>2. ~ call.refreshed /\ call.last = 1 /\ call.attempt \in 1..1
      BY <2>2, <3>1 DEF IInv, Capped, Mutations
    <3> QED
      BY <2>2, <3>2 DEF IInv, Counted, Single, Shape, Calls
  <2>3. call.at = "idle" => call.op = "none"
    BY DEF IInv, Capped
  <2> QED
    BY <2>1, <2>2, <2>3 DEF IInv, Shape, Single, WritesLandOnce, Mutations
<1> QED
  BY <1>1, Inductive, PTL

(* No call outspends its budget, but for the one attempt after a refresh,   *)
(* and its events count the calls of the transport.                         *)
THEOREM Bounded == Spec => []AttemptsAreBounded
<1>1. IInv => AttemptsAreBounded
  <2> SUFFICES ASSUME IInv PROVE AttemptsAreBounded
    OBVIOUS
  <2>1. call.attempt \in Nat /\ call.last \in Nat /\ sends \in Nat
    BY DEF IInv, Shape, Calls
  <2>2. call.at # "idle" => sends <= call.attempt
    BY <2>1 DEF IInv, Shape, Calls, Counted
  <2>3. ASSUME call.at # "idle"
        PROVE  sends <= Budget(call.op) + (IF call.refreshed THEN 1 ELSE 0)
    <3>1. Budget(call.op) \in Nat /\ sends <= call.last
      BY <2>1, <2>2, <2>3, BudgetIsPositive DEF IInv, Capped
    <3> QED
      BY <2>1, <2>3, <3>1 DEF IInv, Capped
  <2> QED
    BY <2>3 DEF IInv, Counted, AttemptsAreBounded
<1> QED
  BY <1>1, Inductive, PTL

-----------------------------------------------------------------------------
(* A wait is no shorter than the hint that reaches the loop, an hour at     *)
(* most, and no longer than that or the cap.                                *)
LEMMA DelayBounds ==
  ASSUME NEW attempt \in Nat, NEW hint \in Int, hint >= NoHint,
         NEW delay \in Delays(attempt, hint)
  PROVE  /\ delay \in Int
         /\ delay >= Smaller(hint, FloorCap)
         /\ delay <= Larger(DelayCap, Smaller(hint, FloorCap))
<1>1. PICK jittered \in Jittered(attempt) : delay = Larger(RetryAfter(hint), jittered)
  BY DEF Delays
<1>2. jittered \in Int /\ 0 <= jittered /\ jittered <= DelayCap
  BY BudgetAssumption DEF Jittered
<1>3. DelayCap \in Int /\ FloorCap \in Nat
  BY BudgetAssumption
<1>4. CASE hint = NoHint
  BY <1>1, <1>2, <1>3, <1>4 DEF RetryAfter, NoHint, Larger, Smaller
<1>5. CASE hint # NoHint
  BY <1>1, <1>2, <1>3, <1>5 DEF RetryAfter, NoHint, Larger, Smaller
<1> QED
  BY <1>4, <1>5

Patient == WaitsAreAsTold /\ call.hint >= NoHint

(* What reaches the loop is a hint, whatever the transport; no step changes *)
(* the transport.                                                           *)
LEMMA Handed ==
  ASSUME NEW hint \in Int, hint >= NoHint
  PROVE  HandedOn(hint) \in Int /\ HandedOn(hint) >= NoHint
BY DEF HandedOn, NoHint

LEMMA TransportIsKept ==
  ASSUME [Next]_vars
  PROVE  bundled' = bundled
BY DEF Next, Transport, Retry, EnterRefresh, Refreshed, RefreshFailed, Return,
       OthersSignInOrOut, Begin, NoSession, vars

(* Who has been told of no delay need not have waited.                      *)
LEMMA Unhurried ==
  0 >= Smaller(NoHint, FloorCap) /\ 0 <= Larger(DelayCap, Smaller(NoHint, FloorCap))
<1>1. DelayCap \in Nat /\ FloorCap \in Nat
  BY BudgetAssumption
<1> QED
  BY <1>1 DEF NoHint, Smaller, Larger

LEMMA StepPatient ==
  ASSUME IInv, Patient, [Next]_vars
  PROVE  Patient'
<1>a. call \in Calls /\ call.attempt \in Nat /\ call.hint \in Int /\ call.hint >= NoHint
  BY DEF IInv, Shape, Calls, Patient
<1>0. bundled' = bundled
  BY TransportIsKept
<1>b. ASSUME call' = call PROVE Patient'
  BY <1>0, <1>b DEF Patient, WaitsAreAsTold, HandedOn
<1>c. ASSUME call'.hint = NoHint, call'.slept = 0 PROVE Patient'
  BY <1>c, Unhurried DEF Patient, WaitsAreAsTold, HandedOn, NoHint
<1>1. CASE Transport
  <2>0. PICK answer \in Answers :
          \E hint \in Hints(answer) :
            call' = [call EXCEPT !.at = "answered", !.answer = answer, !.hint = hint, !.slept = 0]
    BY <1>1 DEF Transport
  <2>1. PICK hint \in Hints(answer) :
          call' = [call EXCEPT !.at = "answered", !.answer = answer, !.hint = hint, !.slept = 0]
    BY <2>0
  <2>2. hint \in Int /\ hint >= NoHint
    BY BudgetAssumption DEF Hints, NoHint
  <2>3. call'.at = "answered" /\ call'.hint = hint /\ call'.slept = 0
    BY <1>a, <2>1 DEF Calls
  <2>4. DelayCap \in Nat /\ FloorCap \in Nat
    BY BudgetAssumption
  <2>5. HandedOn(hint) \in Int
    BY <2>2, Handed
  <2>6. 0 <= Larger(DelayCap, Smaller(HandedOn(hint), FloorCap))
    BY <2>4, <2>5 DEF Larger, Smaller
  <2>7. HandedOn(call.hint)' = HandedOn(hint)
    BY <1>0, <2>3 DEF HandedOn
  <2> QED
    BY <2>2, <2>3, <2>6, <2>7 DEF Patient, WaitsAreAsTold
<1>2. CASE Retry
  <2>1. PICK delay \in Delays(call.attempt, HandedOn(call.hint)) :
          call' = [call EXCEPT !.at = "send", !.attempt = @ + 1, !.slept = delay]
    BY <1>2 DEF Retry
  <2>2. call'.hint = call.hint /\ call'.slept = delay
    BY <1>a, <2>1 DEF Calls
  <2>3. HandedOn(call.hint) \in Int /\ HandedOn(call.hint) >= NoHint
    BY <1>a, Handed
  <2>4. HandedOn(call.hint)' = HandedOn(call.hint)
    BY <1>0, <2>2 DEF HandedOn
  <2>5. /\ delay >= Smaller(HandedOn(call.hint), FloorCap)
        /\ delay <= Larger(DelayCap, Smaller(HandedOn(call.hint), FloorCap))
    BY <1>a, <2>1, <2>3, DelayBounds
  <2> QED
    BY <1>a, <2>2, <2>4, <2>5 DEF Patient, WaitsAreAsTold
<1>3. CASE EnterRefresh
  <2>1. call' = [call EXCEPT !.at = "refresh", !.refreshed = TRUE]
    BY <1>3 DEF EnterRefresh
  <2>2. call'.at = "refresh" /\ call'.hint = call.hint /\ call'.slept = call.slept
    BY <1>a, <2>1 DEF Calls
  <2> QED
    BY <1>0, <2>2 DEF Patient, WaitsAreAsTold, HandedOn
<1>4. CASE Refreshed
  <2>1. call' = [call EXCEPT !.at = "send", !.attempt = @ + 1, !.last = call.attempt + 1,
                             !.answer = "none", !.hint = NoHint, !.slept = 0]
    BY <1>4 DEF Refreshed
  <2>2. call'.hint = NoHint /\ call'.slept = 0
    BY <1>a, <2>1 DEF Calls
  <2> QED
    BY <1>c, <2>2
<1>5. CASE RefreshFailed \/ Return
  <2>1. call' = Idle
    BY <1>5 DEF RefreshFailed, Return
  <2> QED
    BY <1>c, <2>1 DEF Idle
<1>6. ASSUME NEW op \in Operations, Begin(op) PROVE Patient'
  <2>1. call' = [Idle EXCEPT !.op = op, !.at = "send", !.attempt = 1, !.last = Budget(op)]
    BY <1>6 DEF Begin
  <2>2. call'.hint = NoHint /\ call'.slept = 0
    BY <2>1 DEF Idle
  <2> QED
    BY <1>c, <2>2
<1>7. ASSUME NEW op \in Operations, NoSession(op) PROVE Patient'
  BY <1>7, <1>b DEF NoSession
<1>8. CASE OthersSignInOrOut \/ UNCHANGED vars
  BY <1>8, <1>b DEF OthersSignInOrOut, vars
<1> QED
  BY <1>1, <1>2, <1>3, <1>4, <1>5, <1>6, <1>7, <1>8 DEF Next

(* Whatever the transport: no retry leaves sooner than the Retry-After that *)
(* reached the loop (none does over the built-in one), and no wait is       *)
(* longer than that or the backoff's cap.                                   *)
THEOREM Patience == Spec => []WaitsAreAsTold
<1>1. Init => Patient
  BY Unhurried DEF Init, Idle, Patient, WaitsAreAsTold, HandedOn, NoHint
<1>2. IInv /\ Patient /\ [Next]_vars => Patient'
  BY StepPatient
<1>3. Patient => WaitsAreAsTold
  BY DEF Patient
<1> QED
  BY <1>1, <1>2, <1>3, Inductive, PTL DEF Spec

-----------------------------------------------------------------------------
(* The receiver of security events. *)

(* What a SET and a thread may be. *)
SetRecord == [jti : Jtis, kid : Keys \cup {Bogus}, ok : BOOLEAN]

Doing == [pc : {"idle", "reply", "judge", "store", "fill", "refetch"}, todo : Seq(SetRecord),
          got : SUBSET Jtis, replayed : SUBSET Jtis, refused : SUBSET Jtis,
          polled : BOOLEAN, began : Nat]

Dates == Nat \cup {None}

SsfTyped ==
  /\ now \in Nat /\ fetchedAt \in Nat /\ countedAt \in Dates
  /\ published \in SUBSET Keys /\ since \in [Keys -> Nat] /\ retired \in [Keys -> Dates]
  /\ event \in [Jtis -> [state : {"unborn", "offered", "gone"}, key : Keys \cup {None}, born : Nat]]
  /\ keys \in (SUBSET Keys) \cup {None}
  /\ failed \in BOOLEAN /\ forgot \in BOOLEAN
  /\ seen \in [Jtis -> Dates]
  /\ thread \in [Threads -> Doing]
  /\ {toAck, toRefuse, excused} \subseteq SUBSET Jtis
  /\ handed \in [Jtis -> Nat]

(* What was replaced was so before the key published now came, and an event *)
(* is signed with a key that was published.                                 *)
Rotated ==
  /\ \A k \in Keys : since[k] <= now /\ (retired[k] # None => retired[k] <= now)
  /\ \A k \in published :
       retired[k] = None /\ \A x \in Keys : retired[x] # None => retired[x] <= since[k]
  /\ \A j \in Jtis : event[j].state # "unborn" =>
       /\ event[j].key \in Keys /\ event[j].born <= now
       /\ event[j].key \in published \/ retired[event[j].key] # None

(* Who fetches holds the lock, for as long as a fetch takes, and may.       *)
Locked ==
  \A t \in Threads :
    /\ thread[t].pc \in {"store", "fill", "refetch"} => thread[t].todo # <<>>
    /\ thread[t].pc = "store" => Set(t).kid \in Keys
    /\ thread[t].pc \in {"fill", "refetch"} =>
         holder = t /\ thread[t].began <= now /\ now <= thread[t].began + MaxFlight
    /\ thread[t].pc = "fill" => countedAt = None \/ countedAt + Interval <= thread[t].began
    /\ thread[t].pc = "refetch" => countedAt # None /\ countedAt <= thread[t].began /\ ~failed

(* The cached keys are those of a moment since their date: one of them that *)
(* is retired was retired after it, one that is not among them came after   *)
(* it. Unless the latest counted fetch failed, or is under way, they are at *)
(* least as recent as it.                                                   *)
Dated ==
  /\ keys # None =>
       /\ fetchedAt <= now
       /\ \A k \in keys : retired[k] = None \/ fetchedAt <= retired[k]
       /\ \A k \in published : k \in keys \/ fetchedAt <= since[k]
  /\ countedAt # None =>
       /\ countedAt <= now
       /\ failed \/ countedAt <= fetchedAt \/ \E t \in Threads : thread[t].pc = "refetch"

(* An event that has passed was recorded until its window is over, and is   *)
(* in one place.                                                            *)
Passed(j) == handed[j] > 0 \/ \E t \in Threads : j \in thread[t].got
Answered(j) == Passed(j) \/ j \in excused
Recorded ==
  /\ \A t \in Threads : \A i \in 1..Len(thread[t].todo) :
       event[thread[t].todo[i].jti].state # "unborn"
  /\ \A j \in Jtis : event[j].state = "unborn" => ~Answered(j)
  /\ \A j \in Jtis : ~forgot /\ now < event[j].born + Window =>
       /\ Passed(j) => seen[j] # None /\ event[j].born + Window <= seen[j]
       /\ handed[j] <= 1
       /\ \A t \in Threads : j \in thread[t].got =>
            handed[j] = 0 /\ \A u \in Threads : j \in thread[u].got => u = t

(* What is answered for, or on its way to be, has passed or is excused.     *)
Accounted ==
  /\ \A j \in Jtis : event[j].state = "gone" \/ j \in toAck \cup toRefuse \/ seen[j] # None =>
       Answered(j)
  /\ \A t \in Threads : thread[t].pc \in {"idle", "reply"} =>
       thread[t].got = {} /\ thread[t].replayed = {} /\ thread[t].refused = {}
  /\ \A t \in Threads : thread[t].polled =>
       /\ \A j \in thread[t].replayed \cup thread[t].refused : Answered(j)
       /\ \A i \in 1..Len(thread[t].todo) :
            thread[t].todo[i].ok /\ thread[t].todo[i].kid = event[thread[t].todo[i].jti].key

Delivered ==
  SsfTyped /\ Rotated /\ Locked /\ Dated /\ KeysAreCurrent /\ Recorded /\ Accounted

-----------------------------------------------------------------------------
LEMMA Items ==
  ASSUME NEW s \in Seq(SetRecord), s # <<>>
  PROVE  /\ Head(s) = s[1] /\ 1 \in 1..Len(s) /\ s[1] \in SetRecord
         /\ Tail(s) \in Seq(SetRecord)
         /\ \A i \in 1..Len(Tail(s)) : i + 1 \in 1..Len(s) /\ Tail(s)[i] = s[i + 1]
BY HeadTailProperties, LenProperties, ElementOfSeq

LEMMA Constants ==
  /\ TTL \in Nat /\ Interval \in Nat /\ MaxFlight \in Nat /\ Window \in Nat
  /\ TTL > 0 /\ Interval > 0 /\ MaxFlight > 0 /\ Window > 0
  /\ None \notin Nat /\ None \notin Threads /\ None \notin Keys
BY SsfAssumption

LEMMA RestingFields ==
  /\ Resting \in Doing /\ Resting.pc = "idle" /\ Resting.todo = <<>>
  /\ Resting.got = {} /\ Resting.replayed = {} /\ Resting.refused = {} /\ ~Resting.polled
BY EmptySeq DEF Resting, Doing

(* What a verdict makes of what a thread does. *)
LEMMA RestFields ==
  ASSUME SsfTyped, NEW t \in Threads, thread[t].todo # <<>>
  PROVE  /\ Rest(t) \in Doing /\ Rest(t).pc = "judge" /\ Rest(t).todo = Tail(thread[t].todo)
         /\ Rest(t).polled = thread[t].polled /\ Rest(t).got = thread[t].got
         /\ Rest(t).replayed = thread[t].replayed /\ Rest(t).refused = thread[t].refused
<1> PICK d \in Doing : d = thread[t]
  BY DEF SsfTyped
<1>1. Tail(d.todo) \in Seq(SetRecord)
  BY Items DEF Doing
<1> PICK s \in Seq(SetRecord) : s = Tail(d.todo)
  BY <1>1
<1> PICK r : r = [d EXCEPT !.pc = "judge", !.todo = s, !.began = 0]
  OBVIOUS
<1>2. r = Rest(t)
  BY DEF Rest
<1>3. /\ r \in Doing /\ r.pc = "judge" /\ r.todo = s /\ r.polled = d.polled
      /\ r.got = d.got /\ r.replayed = d.replayed /\ r.refused = d.refused
  BY DEF Doing
<1> QED
  BY <1>2, <1>3

LEMMA Verdicts ==
  ASSUME SsfTyped, NEW t \in Threads, thread[t].todo # <<>>
  PROVE  /\ {Accepted(t), Replayed(t), Refused(t)} \subseteq Doing
         /\ \A r \in {Accepted(t), Replayed(t), Refused(t)} :
              /\ r.pc = "judge" /\ r.todo = Tail(thread[t].todo) /\ r.polled = thread[t].polled
         /\ Accepted(t).got = thread[t].got \cup {Set(t).jti}
         /\ Accepted(t).replayed = thread[t].replayed /\ Accepted(t).refused = thread[t].refused
         /\ Replayed(t).got = thread[t].got /\ Replayed(t).refused = thread[t].refused
         /\ Replayed(t).replayed = thread[t].replayed \cup {Set(t).jti}
         /\ Refused(t).got = thread[t].got /\ Refused(t).replayed = thread[t].replayed
         /\ Refused(t).refused = thread[t].refused \cup {Set(t).jti}
<1> PICK r \in Doing : r = Rest(t)
  BY RestFields
<1>1. Set(t).jti \in Jtis
  BY Items DEF SsfTyped, Doing, Set, SetRecord
<1> PICK j \in Jtis : j = Set(t).jti
  BY <1>1
<1>2. r.got \cup {j} \in SUBSET Jtis /\ r.replayed \cup {j} \in SUBSET Jtis
      /\ r.refused \cup {j} \in SUBSET Jtis
  BY DEF Doing
<1>3. /\ Accepted(t) \in Doing /\ Accepted(t).pc = r.pc /\ Accepted(t).todo = r.todo
      /\ Accepted(t).polled = r.polled /\ Accepted(t).got = r.got \cup {j}
      /\ Accepted(t).replayed = r.replayed /\ Accepted(t).refused = r.refused
  <2> PICK a : a = [r EXCEPT !.got = r.got \cup {j}]
    OBVIOUS
  <2>1. a = Accepted(t)
    BY DEF Accepted
  <2>2. /\ a \in Doing /\ a.pc = r.pc /\ a.todo = r.todo /\ a.polled = r.polled
        /\ a.got = r.got \cup {j} /\ a.replayed = r.replayed /\ a.refused = r.refused
    BY <1>2 DEF Doing
  <2> QED
    BY <2>1, <2>2
<1>4. /\ Replayed(t) \in Doing /\ Replayed(t).pc = r.pc /\ Replayed(t).todo = r.todo
      /\ Replayed(t).polled = r.polled /\ Replayed(t).got = r.got
      /\ Replayed(t).replayed = r.replayed \cup {j} /\ Replayed(t).refused = r.refused
  <2> PICK a : a = [r EXCEPT !.replayed = r.replayed \cup {j}]
    OBVIOUS
  <2>1. a = Replayed(t)
    BY DEF Replayed
  <2>2. /\ a \in Doing /\ a.pc = r.pc /\ a.todo = r.todo /\ a.polled = r.polled
        /\ a.got = r.got /\ a.replayed = r.replayed \cup {j} /\ a.refused = r.refused
    BY <1>2 DEF Doing
  <2> QED
    BY <2>1, <2>2
<1>5. /\ Refused(t) \in Doing /\ Refused(t).pc = r.pc /\ Refused(t).todo = r.todo
      /\ Refused(t).polled = r.polled /\ Refused(t).got = r.got
      /\ Refused(t).replayed = r.replayed /\ Refused(t).refused = r.refused \cup {j}
  <2> PICK a : a = [r EXCEPT !.refused = r.refused \cup {j}]
    OBVIOUS
  <2>1. a = Refused(t)
    BY DEF Refused
  <2>2. /\ a \in Doing /\ a.pc = r.pc /\ a.todo = r.todo /\ a.polled = r.polled
        /\ a.got = r.got /\ a.replayed = r.replayed /\ a.refused = r.refused \cup {j}
    BY <1>2 DEF Doing
  <2> QED
    BY <2>1, <2>2
<1> QED
  BY <1>3, <1>4, <1>5, RestFields

(* A failure that is no verdict takes none away. *)
LEMMA Unjudging ==
  ASSUME SsfTyped, NEW t \in Threads, thread[t].todo # <<>>
  PROVE  /\ Unjudged(t) \in Doing /\ Unjudged(t).todo = <<>>
         /\ Unjudged(t).pc \in {"idle", "judge"}
         /\ Unjudged(t).got = thread[t].got /\ Unjudged(t).replayed = thread[t].replayed
         /\ Unjudged(t).refused = thread[t].refused
         /\ Unjudged(t).pc = "idle" => Unjudged(t) = Resting
         /\ Unjudged(t).polled => thread[t].polled
<1>1. CASE thread[t].got \cup thread[t].replayed \cup thread[t].refused = {}
  <2>1. Unjudged(t) = Resting
    BY <1>1 DEF Unjudged
  <2> QED
    BY <1>1, <2>1, RestingFields
<1>2. CASE thread[t].got \cup thread[t].replayed \cup thread[t].refused # {}
  <2> PICK r \in Doing : r = Rest(t)
    BY RestFields
  <2> PICK e \in Seq(SetRecord) : e = <<>>
    BY EmptySeq
  <2> PICK u : u = [r EXCEPT !.todo = e]
    OBVIOUS
  <2>1. u = Unjudged(t)
    BY <1>2 DEF Unjudged
  <2>2. /\ u \in Doing /\ u.todo = e /\ u.pc = r.pc /\ u.polled = r.polled
        /\ u.got = r.got /\ u.replayed = r.replayed /\ u.refused = r.refused
    BY DEF Doing
  <2> QED
    BY <2>1, <2>2, RestFields
<1> QED
  BY <1>1, <1>2

(* A thread that waits for the keys, or has found one, keeps its batch. *)
LEMMA Keeping ==
  ASSUME SsfTyped, NEW t \in Threads, NEW what \in {"fill", "refetch"}
  PROVE  /\ {Asking(t, what), Verified(t)} \subseteq Doing
         /\ \A r \in {Asking(t, what), Verified(t)} :
              /\ r.todo = thread[t].todo /\ r.polled = thread[t].polled
              /\ r.got = thread[t].got /\ r.replayed = thread[t].replayed
              /\ r.refused = thread[t].refused
         /\ Asking(t, what).pc = what /\ Asking(t, what).began = now /\ Verified(t).pc = "store"
<1> PICK d \in Doing : d = thread[t]
  BY DEF SsfTyped
<1> PICK n \in Nat : n = now
  BY DEF SsfTyped
<1> PICK a : a = [d EXCEPT !.pc = what, !.began = n]
  OBVIOUS
<1> PICK v : v = [d EXCEPT !.pc = "store", !.began = 0]
  OBVIOUS
<1>1. a = Asking(t, what) /\ v = Verified(t)
  BY DEF Asking, Verified
<1>3. /\ a \in Doing /\ a.pc = what /\ a.began = n /\ a.todo = d.todo
      /\ a.polled = d.polled /\ a.got = d.got /\ a.replayed = d.replayed
      /\ a.refused = d.refused
  BY DEF Doing
<1>4. /\ v \in Doing /\ v.pc = "store" /\ v.todo = d.todo
      /\ v.polled = d.polled /\ v.got = d.got /\ v.replayed = d.replayed
      /\ v.refused = d.refused
  BY DEF Doing
<1> QED
  BY <1>1, <1>3, <1>4

(* A document holds no key that was retired before it was asked for, and    *)
(* lacks none that was published by then.                                   *)
LEMMA WhatIsPublished ==
  ASSUME SsfTyped, Rotated, NEW t \in Threads, NEW doc \in Documents(t)
  PROVE  /\ doc \in SUBSET Keys
         /\ \A k \in doc : retired[k] = None \/ thread[t].began <= retired[k]
         /\ \A k \in published : k \in doc \/ thread[t].began <= since[k]
<1>1. CASE doc = published
  BY <1>1 DEF SsfTyped, Rotated
<1>2. CASE \E x \in Keys : doc = {x} /\ retired[x] # None /\ thread[t].began <= retired[x]
  <2> PICK x \in Keys : doc = {x} /\ retired[x] # None /\ thread[t].began <= retired[x]
    BY <1>2
  <2>1. thread[t].began \in Nat /\ retired[x] \in Nat
    BY DEF SsfTyped, Doing, Dates
  <2>2. ASSUME NEW k \in published
        PROVE  thread[t].began <= since[k]
    <3>1. retired[x] <= since[k] /\ since[k] \in Nat
      BY DEF SsfTyped, Rotated
    <3> QED
      BY <2>1, <3>1
  <2> QED
    BY <2>2
<1> QED
  BY <1>1, <1>2 DEF Documents

(* A genuine SET is only refused for the want of a key it may do without.   *)
LEMMA RefusedForWantOfAKey ==
  ASSUME SsfTyped, Rotated, Recorded, Accounted,
         NEW t \in Threads, thread[t].todo # <<>>, thread[t].polled,
         Set(t).kid \in published => New(Set(t).kid) \/ failed
  PROVE  Set(t).ok /\ Excusable(Set(t).kid)
<1> PICK s \in Seq(SetRecord) : s = thread[t].todo
  BY DEF SsfTyped, Doing
<1>1. 1 \in 1..Len(s) /\ Set(t) = s[1]
  BY Items DEF Set
<1>2. Set(t).ok /\ Set(t).kid = event[Set(t).jti].key
  BY <1>1 DEF Accounted
<1>3. event[Set(t).jti].state # "unborn" /\ Set(t).jti \in Jtis
  <2>1. Set(t).jti \in Jtis
    BY <1>1, Items DEF SetRecord
  <2>2. event[Set(t).jti].state # "unborn"
    BY <1>1 DEF Recorded
  <2> QED
    BY <2>1, <2>2
<1>4. event[Set(t).jti].key \in published \/ retired[event[Set(t).jti].key] # None
  BY <1>3 DEF Rotated
<1> QED
  BY <1>2, <1>4 DEF Excusable

(* What a step leaves of a batch that it hands nothing out of: at most its  *)
(* first SET is gone, no verdict is lost, and one refusal is added at most, *)
(* which is excused if the SET came by a poll.                              *)
Kept(t, r) ==
  /\ r \in Doing /\ thread' = [thread EXCEPT ![t] = r]
  /\ r.pc # "reply" /\ (r.pc = "idle" => r = Resting)
  /\ r.todo \in {thread[t].todo, Tail(thread[t].todo), <<>>}
  /\ r.got = thread[t].got /\ r.replayed = thread[t].replayed
  /\ r.polled => thread[t].polled
  /\ \A j \in r.refused : j \in thread[t].refused \/ (thread[t].polled => j \in excused')
  /\ excused \subseteq excused' /\ excused' \in SUBSET Jtis
  /\ \A j \in excused' : j \in excused \/ event[j].state # "unborn"

LEMMA Refusing ==
  ASSUME SsfTyped, Rotated, Recorded, Accounted,
         NEW t \in Threads, thread[t].todo # <<>>, Refuse(t),
         (thread[t].polled /\ Set(t).kid \in published /\ Set(t).ok) => New(Set(t).kid) \/ failed
  PROVE  Kept(t, Refused(t)) /\ Refused(t).pc = "judge"
<1>1. Set(t).jti \in Jtis
  BY Items DEF SsfTyped, Doing, Set, SetRecord
<1>2. /\ excused \subseteq excused' /\ excused' \in SUBSET Jtis
      /\ \A j \in excused' : j \in excused \/ event[j].state # "unborn"
  <2> PICK s \in Seq(SetRecord) : s = thread[t].todo
    BY DEF SsfTyped, Doing
  <2>1. event[Set(t).jti].state # "unborn"
    BY Items DEF Set, Recorded
  <2> QED
    BY <1>1, <2>1 DEF Refuse, SsfTyped
<1>3. ASSUME thread[t].polled
      PROVE  Set(t).jti \in excused'
  <2> PICK s \in Seq(SetRecord) : s = thread[t].todo
    BY DEF SsfTyped, Doing
  <2>1. Set(t).ok
    BY <1>3, Items DEF Set, Accounted
  <2>2. Excusable(Set(t).kid)
    BY <1>3, <2>1, RefusedForWantOfAKey
  <2> QED
    BY <2>1, <2>2 DEF Refuse
<1>4. thread' = [thread EXCEPT ![t] = Refused(t)]
  BY DEF Refuse
<1> PICK r : r = Refused(t)
  OBVIOUS
<1>5. /\ r \in Doing /\ r.pc = "judge" /\ r.todo = Tail(thread[t].todo)
      /\ r.polled = thread[t].polled /\ r.got = thread[t].got
      /\ r.replayed = thread[t].replayed /\ r.refused = thread[t].refused \cup {Set(t).jti}
  BY Verdicts
<1> QED
  BY <1>2, <1>3, <1>4, <1>5 DEF Kept

LEMMA Looking ==
  ASSUME SsfTyped, Rotated, Recorded, Accounted,
         NEW t \in Threads, thread[t].todo # <<>>, NEW held, NEW at, Look(t, held, at),
         \A k \in published : k \notin held /\ Limited(at) => New(k) \/ failed
  PROVE  \E r \in Doing :
           /\ Kept(t, r)
           /\ \/ /\ r.pc = "store" /\ r.todo = thread[t].todo /\ Set(t).kid \in held
                 /\ holder' = None /\ UNCHANGED <<countedAt, failed>>
              \/ r.pc = "judge" /\ holder' = None /\ UNCHANGED <<countedAt, failed>>
              \/ /\ r.pc = "refetch" /\ r.todo = thread[t].todo /\ r.began = now
                 /\ holder' = t /\ countedAt' = at /\ failed' = FALSE
<1>1. CASE /\ Set(t).kid \in held /\ Set(t).ok
           /\ thread' = [thread EXCEPT ![t] = Verified(t)]
           /\ holder' = None
           /\ UNCHANGED <<countedAt, failed, excused>>
  <2> PICK r : r = Verified(t)
    OBVIOUS
  <2>1. /\ r \in Doing /\ r.pc = "store" /\ r.todo = thread[t].todo
        /\ r.polled = thread[t].polled /\ r.got = thread[t].got
        /\ r.replayed = thread[t].replayed /\ r.refused = thread[t].refused
    BY Keeping
  <2>2. Kept(t, r)
    BY <1>1, <2>1 DEF Kept, SsfTyped
  <2> QED
    BY <1>1, <2>1, <2>2
<1>2. CASE /\ Set(t).kid \in held => ~Set(t).ok
           /\ Set(t).kid \in held \/ Limited(at)
           /\ Refuse(t)
           /\ holder' = None
           /\ UNCHANGED <<countedAt, failed>>
  <2>1. Kept(t, Refused(t)) /\ Refused(t).pc = "judge"
    BY <1>2, Refusing
  <2>2. Refused(t) \in Doing
    BY Verdicts
  <2> QED
    BY <1>2, <2>1, <2>2
<1>3. CASE /\ Set(t).kid \notin held /\ ~Limited(at)
           /\ countedAt' = at /\ failed' = FALSE
           /\ thread' = [thread EXCEPT ![t] = Asking(t, "refetch")]
           /\ holder' = t
           /\ UNCHANGED excused
  <2> PICK r : r = Asking(t, "refetch")
    OBVIOUS
  <2>1. /\ r \in Doing /\ r.pc = "refetch" /\ r.began = now /\ r.todo = thread[t].todo
        /\ r.polled = thread[t].polled /\ r.got = thread[t].got
        /\ r.replayed = thread[t].replayed /\ r.refused = thread[t].refused
    BY Keeping
  <2>2. Kept(t, r)
    BY <1>3, <2>1 DEF Kept, SsfTyped
  <2> QED
    BY <1>3, <2>1, <2>2
<1> QED
  BY <1>1, <1>2, <1>3 DEF Look

LEMMA Stopping ==
  ASSUME SsfTyped, NEW t \in Threads, thread[t].todo # <<>>,
         thread' = [thread EXCEPT ![t] = Unjudged(t)], UNCHANGED excused
  PROVE  Kept(t, Unjudged(t))
<1> PICK r : r = Unjudged(t)
  OBVIOUS
<1>1. /\ r \in Doing /\ r.todo = <<>> /\ r.pc \in {"idle", "judge"}
      /\ r.got = thread[t].got /\ r.replayed = thread[t].replayed
      /\ r.refused = thread[t].refused
      /\ (r.pc = "idle" => r = Resting) /\ (r.polled => thread[t].polled)
  BY Unjudging
<1> QED
  BY <1>1 DEF Kept, SsfTyped

-----------------------------------------------------------------------------
(* A step that hands nothing out keeps what was passed, and accounts for    *)
(* what it refuses.                                                         *)
LEMMA KeptIsAccounted ==
  ASSUME SsfTyped, Recorded, Accounted, NEW t \in Threads, thread[t].todo # <<>>,
         NEW r \in Doing, Kept(t, r),
         UNCHANGED <<now, event, seen, toAck, toRefuse, handed, forgot>>
  PROVE  Recorded' /\ Accounted'
<1> PICK s \in Seq(SetRecord) : s = thread[t].todo
  BY DEF SsfTyped, Doing
<1>1. thread' = [thread EXCEPT ![t] = r] /\ thread'[t] = r
      /\ \A u \in Threads : u # t => thread'[u] = thread[u]
  BY DEF Kept, SsfTyped
<1>2. \A u \in Threads : thread'[u].got = thread[u].got
  BY <1>1 DEF Kept
<1>3. \A j : Passed(j)' <=> Passed(j)
  BY <1>2 DEF Passed
<1>4. ASSUME NEW i \in 1..Len(r.todo)
      PROVE  \E k \in 1..Len(s) : r.todo[i] = s[k]
  <2>1. CASE r.todo = s
    BY <2>1
  <2>2. CASE r.todo = Tail(s)
    <3>1. i + 1 \in 1..Len(s) /\ Tail(s)[i] = s[i + 1]
      BY <2>2, Items
    <3> QED
      BY <2>2, <3>1
  <2>3. CASE r.todo = <<>>
    BY <2>3
  <2> QED
    BY <2>1, <2>2, <2>3 DEF Kept
<1>5. Recorded'
  <2>1. ASSUME NEW u \in Threads, NEW i \in 1..Len(thread'[u].todo)
        PROVE  event[thread'[u].todo[i].jti].state # "unborn"
    <3>1. CASE u = t
      <4>1. i \in 1..Len(r.todo)
        BY <1>1, <2>1, <3>1
      <4> PICK k \in 1..Len(s) : r.todo[i] = s[k]
        BY <1>4, <4>1
      <4>2. event[s[k].jti].state # "unborn"
        BY DEF Recorded
      <4> QED
        BY <1>1, <3>1, <4>2
    <3>2. CASE u # t
      BY <1>1, <2>1, <3>2 DEF Recorded
    <3> QED
      BY <3>1, <3>2
  <2>2. \A j \in Jtis : event[j].state = "unborn" => ~Answered(j)'
    BY <1>3 DEF Recorded, Answered, Kept
  <2>3. ASSUME NEW j \in Jtis, ~forgot, now < event[j].born + Window
        PROVE  /\ Passed(j)' => seen[j] # None /\ event[j].born + Window <= seen[j]
               /\ handed[j] <= 1
               /\ \A u \in Threads : j \in thread'[u].got =>
                    handed[j] = 0 /\ \A v \in Threads : j \in thread'[v].got => v = u
    BY <1>2, <1>3, <2>3 DEF Recorded
  <2> QED
    BY <2>1, <2>2, <2>3 DEF Recorded
<1>6. Accounted'
  <2>1. \A j : Answered(j) => Answered(j)'
    BY <1>3 DEF Answered, Kept
  <2>2. \A j \in Jtis : event[j].state = "gone" \/ j \in toAck \cup toRefuse \/ seen[j] # None =>
          Answered(j)'
    BY <2>1 DEF Accounted
  <2>3. ASSUME NEW u \in Threads, thread'[u].pc \in {"idle", "reply"}
        PROVE  thread'[u].got = {} /\ thread'[u].replayed = {} /\ thread'[u].refused = {}
    BY <1>1, <2>3, RestingFields DEF Accounted, Kept
  <2>4. ASSUME NEW u \in Threads, thread'[u].polled
        PROVE  /\ \A j \in thread'[u].replayed \cup thread'[u].refused : Answered(j)'
               /\ \A i \in 1..Len(thread'[u].todo) :
                    thread'[u].todo[i].ok
                    /\ thread'[u].todo[i].kid = event[thread'[u].todo[i].jti].key
    <3>1. CASE u = t
      <4>1. thread[t].polled
        BY <1>1, <2>4, <3>1 DEF Kept
      <4>2. \A j \in r.replayed \cup r.refused : Answered(j)'
        BY <2>1, <4>1 DEF Kept, Accounted, Answered
      <4>3. \A i \in 1..Len(r.todo) : r.todo[i].ok /\ r.todo[i].kid = event[r.todo[i].jti].key
        BY <1>4, <4>1 DEF Accounted
      <4> QED
        BY <1>1, <3>1, <4>2, <4>3
    <3>2. CASE u # t
      BY <1>1, <2>1, <2>4, <3>2 DEF Accounted
    <3> QED
      BY <3>1, <3>2
  <2> QED
    BY <2>2, <2>3, <2>4 DEF Accounted
<1> QED
  BY <1>5, <1>6

(* While nobody holds the lock nobody fetches.                              *)
LEMMA NobodyFetches ==
  ASSUME SsfTyped, Locked, holder = None, NEW u \in Threads
  PROVE  thread[u].pc \notin {"fill", "refetch"}
BY Constants DEF Locked

(* While one thread fetches no other does.                                  *)
LEMMA OneFetches ==
  ASSUME Locked, NEW t \in Threads, thread[t].pc \in {"fill", "refetch"},
         NEW u \in Threads, u # t
  PROVE  thread[u].pc \notin {"fill", "refetch"}
BY DEF Locked

(* After a step of key_for_kid the lock and the cache are in order, if they *)
(* are for its thread.                                                      *)
LEMMA OthersWait ==
  ASSUME SsfTyped, Locked, NEW t \in Threads, NEW r \in Doing,
         thread' = [thread EXCEPT ![t] = r],
         \A u \in Threads : u # t => thread[u].pc \notin {"fill", "refetch"},
         r.pc \in {"store", "fill", "refetch"} => r.todo # <<>>,
         r.pc = "store" => Head(r.todo).kid \in Keys,
         r.pc \in {"fill", "refetch"} =>
           holder' = t /\ r.began <= now' /\ now' <= r.began + MaxFlight,
         r.pc = "fill" => countedAt' = None \/ countedAt' + Interval <= r.began,
         r.pc = "refetch" => countedAt' # None /\ countedAt' <= r.began /\ ~failed'
  PROVE  Locked'
<1>1. thread'[t] = r /\ \A u \in Threads : u # t => thread'[u] = thread[u]
  BY DEF SsfTyped
<1>2. ASSUME NEW u \in Threads
      PROVE  /\ thread'[u].pc \in {"store", "fill", "refetch"} => thread'[u].todo # <<>>
             /\ thread'[u].pc = "store" => Head(thread'[u].todo).kid \in Keys
             /\ thread'[u].pc \in {"fill", "refetch"} =>
                  holder' = u /\ thread'[u].began <= now' /\ now' <= thread'[u].began + MaxFlight
             /\ thread'[u].pc = "fill" =>
                  countedAt' = None \/ countedAt' + Interval <= thread'[u].began
             /\ thread'[u].pc = "refetch" =>
                  countedAt' # None /\ countedAt' <= thread'[u].began /\ ~failed'
  <2>1. CASE u = t
    BY <1>1, <2>1
  <2>2. CASE u # t
    BY <1>1, <2>2 DEF Locked, Set
  <2> QED
    BY <2>1, <2>2
<1> QED
  BY <1>2 DEF Locked, Set

(* A SET goes on to the store with a key that is current.                   *)
LEMMA OthersAreCurrent ==
  ASSUME SsfTyped, KeysAreCurrent, NEW t \in Threads, NEW r \in Doing,
         thread' = [thread EXCEPT ![t] = r], UNCHANGED <<now, retired>>,
         (r.pc = "store" /\ retired[Head(r.todo).kid] # None) =>
           \/ now < retired[Head(r.todo).kid] + TTL
           \/ now <= retired[Head(r.todo).kid] + MaxFlight
  PROVE  KeysAreCurrent'
<1>1. thread'[t] = r /\ \A u \in Threads : u # t => thread'[u] = thread[u]
  BY DEF SsfTyped
<1>2. ASSUME NEW u \in Threads, thread'[u].pc = "store",
             retired[Head(thread'[u].todo).kid] # None
      PROVE  \/ now < retired[Head(thread'[u].todo).kid] + TTL
             \/ now <= retired[Head(thread'[u].todo).kid] + MaxFlight
  <2>1. CASE u = t
    BY <1>1, <1>2, <2>1
  <2>2. CASE u # t
    BY <1>1, <1>2, <2>2 DEF KeysAreCurrent, At, Set
  <2> QED
    BY <2>1, <2>2
<1> QED
  BY <1>2 DEF KeysAreCurrent, At, Set

(* A thread that turns to what needs no lock leaves the keys in order.      *)
LEMMA Aside ==
  ASSUME SsfTyped, Locked, Dated, KeysAreCurrent, NEW t \in Threads, NEW r \in Doing,
         thread' = [thread EXCEPT ![t] = r], r.pc \in {"idle", "reply", "judge"},
         thread[t].pc # "refetch", UNCHANGED <<now, transmitter, cache>>
  PROVE  Locked' /\ Dated' /\ KeysAreCurrent'
<1>1. /\ thread'[t] = r /\ \A u \in Threads : u # t => thread'[u] = thread[u]
      /\ UNCHANGED <<now, published, since, retired, keys, fetchedAt, countedAt, failed, holder>>
  BY DEF SsfTyped, transmitter, cache
<1>2. Locked'
  <2>1. \A u \in Threads : thread'[u] = thread[u] \/ thread'[u].pc \in {"idle", "reply", "judge"}
    BY <1>1
  <2> QED
    BY <1>1, <2>1 DEF Locked, Set
<1>3. Dated'
  <2>1. \A u \in Threads : thread[u].pc = "refetch" => thread'[u].pc = "refetch"
    BY <1>1
  <2> QED
    BY <1>1, <2>1 DEF Dated
<1>4. KeysAreCurrent'
  BY <1>1, OthersAreCurrent
<1> QED
  BY <1>2, <1>3, <1>4

Unheard == UNCHANGED <<now, transmitter, event, seen, toAck, toRefuse, handed, death>>

(* What the steps of key_for_kid have in common.                            *)
LEMMA KeyStep ==
  ASSUME SsfTyped, Rotated, Recorded, Accounted, NEW t \in Threads, thread[t].todo # <<>>,
         NEW r \in Doing, Kept(t, r), Unheard,
         keys' \in (SUBSET Keys) \cup {None}, fetchedAt' \in Nat, countedAt' \in Dates,
         failed' \in BOOLEAN
  PROVE  SsfTyped' /\ Rotated' /\ Recorded' /\ Accounted'
<1>1. Recorded' /\ Accounted'
  BY KeptIsAccounted DEF Unheard, death
<1>2. SsfTyped'
  BY DEF SsfTyped, Kept, Unheard, transmitter, death
<1>3. Rotated'
  BY DEF Rotated, Unheard, transmitter
<1> QED
  BY <1>1, <1>2, <1>3

LEMMA Readings ==
  ASSUME Delivered, NEW t \in Threads, thread[t].todo # <<>>, holder = None, ReadKeys(t), Unheard
  PROVE  Delivered'
<1> USE DEF Delivered
<1>1. /\ Look(t, keys, now) /\ keys \in SUBSET Keys /\ keys # None /\ now < fetchedAt + TTL
      /\ UNCHANGED <<keys, fetchedAt>>
  BY Constants DEF ReadKeys, Stale, SsfTyped
<1>2. \A u \in Threads : thread[u].pc \notin {"fill", "refetch"}
  BY NobodyFetches
<1>3. ASSUME NEW k \in published, k \notin keys, Limited(now)
      PROVE  New(k) \/ failed
  <2>1. countedAt \in Nat /\ now < countedAt + Interval
    BY <1>3 DEF Limited, SsfTyped, Dates
  <2>2. failed \/ countedAt <= fetchedAt
    BY <1>2, <2>1, Constants DEF Dated
  <2>3. fetchedAt <= since[k] /\ since[k] \in Nat /\ fetchedAt \in Nat /\ now \in Nat
    BY <1>1, <1>3 DEF Dated, SsfTyped
  <2>4. Interval \in Nat
    BY Constants
  <2> QED
    BY <2>1, <2>2, <2>3, <2>4 DEF New
<1> PICK r \in Doing :
      /\ Kept(t, r)
      /\ \/ /\ r.pc = "store" /\ r.todo = thread[t].todo /\ Set(t).kid \in keys
            /\ holder' = None /\ UNCHANGED <<countedAt, failed>>
         \/ r.pc = "judge" /\ holder' = None /\ UNCHANGED <<countedAt, failed>>
         \/ /\ r.pc = "refetch" /\ r.todo = thread[t].todo /\ r.began = now
            /\ holder' = t /\ countedAt' = now /\ failed' = FALSE
  BY <1>1, <1>3, Looking
<1>4. SsfTyped' /\ Rotated' /\ Recorded' /\ Accounted'
  <2>1. /\ keys' \in (SUBSET Keys) \cup {None} /\ fetchedAt' \in Nat /\ countedAt' \in Dates
        /\ failed' \in BOOLEAN
    BY <1>1 DEF SsfTyped, Dates
  <2> QED
    BY <2>1, KeyStep
<1>5. now' = now /\ retired' = retired /\ since' = since /\ published' = published
  BY DEF Unheard, transmitter
<1>6. thread' = [thread EXCEPT ![t] = r] /\ thread'[t] = r
  BY DEF Kept, SsfTyped
<1>7. now \in Nat /\ MaxFlight \in Nat /\ now <= now + MaxFlight
  BY Constants DEF SsfTyped
<1>8. Locked'
  <2>1. r.pc \in {"fill", "refetch"} =>
          holder' = t /\ r.began <= now' /\ now' <= r.began + MaxFlight
    BY <1>5, <1>7
  <2>2. r.pc = "refetch" => countedAt' # None /\ countedAt' <= r.began /\ ~failed'
    BY <1>7, Constants
  <2>3. r.pc = "store" => Head(r.todo).kid \in Keys
    BY <1>1 DEF Set
  <2> QED
    BY <1>2, <1>6, <2>1, <2>2, <2>3, OthersWait
<1>9. Dated'
  <2>1. ASSUME countedAt' # None
        PROVE  /\ countedAt' <= now'
               /\ failed' \/ countedAt' <= fetchedAt' \/ \E u \in Threads : thread'[u].pc = "refetch"
    <3>1. CASE countedAt' = now /\ r.pc = "refetch"
      BY <1>5, <1>6, <1>7, <3>1
    <3>2. CASE UNCHANGED <<countedAt, failed>>
      BY <1>1, <1>2, <1>5, <2>1, <3>2 DEF Dated
    <3> QED
      BY <3>1, <3>2
  <2>2. ASSUME keys' # None
        PROVE  /\ fetchedAt' <= now'
               /\ \A k \in keys' : retired'[k] = None \/ fetchedAt' <= retired'[k]
               /\ \A k \in published' : k \in keys' \/ fetchedAt' <= since'[k]
    BY <1>1, <1>5 DEF Dated
  <2> QED
    BY <2>1, <2>2 DEF Dated
<1>10. KeysAreCurrent'
  <2>1. ASSUME r.pc = "store", retired[Head(r.todo).kid] # None
        PROVE  now < retired[Head(r.todo).kid] + TTL
    <3>1. Head(r.todo).kid \in keys
      BY <2>1 DEF Set
    <3>2. fetchedAt <= retired[Head(r.todo).kid] /\ retired[Head(r.todo).kid] \in Nat
      BY <1>1, <2>1, <3>1 DEF Dated, SsfTyped, Dates
    <3> QED
      BY <1>1, <3>2, Constants DEF SsfTyped
  <2> QED
    BY <1>5, <1>6, <2>1, OthersAreCurrent
<1> QED
  BY <1>4, <1>8, <1>9, <1>10

LEMMA Postponings ==
  ASSUME Delivered, NEW t \in Threads, thread[t].todo # <<>>, holder = None, FillLater(t), Unheard
  PROVE  Delivered'
<1> USE DEF Delivered
<1>1. thread' = [thread EXCEPT ![t] = Unjudged(t)] /\ UNCHANGED <<cache, excused>>
  BY DEF FillLater
<1> PICK r \in Doing : r = Unjudged(t)
  BY Unjudging
<1>2. Kept(t, r) /\ r.pc \in {"idle", "judge"}
  BY <1>1, Stopping, Unjudging
<1>3. SsfTyped' /\ Rotated' /\ Recorded' /\ Accounted'
  <2>1. /\ keys' \in (SUBSET Keys) \cup {None} /\ fetchedAt' \in Nat /\ countedAt' \in Dates
        /\ failed' \in BOOLEAN
    BY <1>1 DEF SsfTyped, cache
  <2> QED
    BY <1>2, <2>1, KeyStep
<1>4. /\ now' = now /\ retired' = retired /\ since' = since /\ published' = published
      /\ UNCHANGED <<keys, fetchedAt, countedAt, failed>>
  BY <1>1 DEF Unheard, transmitter, cache
<1>5. thread' = [thread EXCEPT ![t] = r] /\ thread'[t] = r
  BY <1>1 DEF SsfTyped
<1>6. \A u \in Threads : thread[u].pc \notin {"fill", "refetch"}
  BY NobodyFetches
<1>7. Locked'
  BY <1>2, <1>5, <1>6, OthersWait
<1>8. Dated'
  BY <1>4, <1>6 DEF Dated
<1>9. KeysAreCurrent'
  BY <1>2, <1>4, <1>5, OthersAreCurrent
<1> QED
  BY <1>3, <1>7, <1>8, <1>9

LEMMA Beginnings ==
  ASSUME Delivered, NEW t \in Threads, thread[t].todo # <<>>, holder = None, BeginFill(t), Unheard
  PROVE  Delivered'
<1> USE DEF Delivered
<1>1. /\ thread' = [thread EXCEPT ![t] = Asking(t, "fill")] /\ holder' = t /\ ~Limited(now)
      /\ UNCHANGED <<keys, fetchedAt, countedAt, failed, excused>>
  BY DEF BeginFill
<1> PICK r : r = Asking(t, "fill")
  OBVIOUS
<1>2. /\ r \in Doing /\ r.pc = "fill" /\ r.began = now /\ r.todo = thread[t].todo
      /\ r.polled = thread[t].polled /\ r.got = thread[t].got
      /\ r.replayed = thread[t].replayed /\ r.refused = thread[t].refused
  BY Keeping
<1>3. Kept(t, r)
  BY <1>1, <1>2 DEF Kept, SsfTyped
<1>4. SsfTyped' /\ Rotated' /\ Recorded' /\ Accounted'
  <2>1. /\ keys' \in (SUBSET Keys) \cup {None} /\ fetchedAt' \in Nat /\ countedAt' \in Dates
        /\ failed' \in BOOLEAN
    BY <1>1 DEF SsfTyped
  <2> QED
    BY <1>2, <1>3, <2>1, KeyStep
<1>5. now' = now /\ retired' = retired /\ since' = since /\ published' = published
  BY DEF Unheard, transmitter
<1>6. thread' = [thread EXCEPT ![t] = r] /\ thread'[t] = r
  BY <1>1 DEF SsfTyped
<1>7. \A u \in Threads : thread[u].pc \notin {"fill", "refetch"}
  BY NobodyFetches
<1>8. Locked'
  <2>1. now \in Nat /\ now <= now + MaxFlight
    BY Constants DEF SsfTyped
  <2>2. countedAt' = None \/ countedAt' + Interval <= r.began
    BY <1>1, <1>2, <2>1, Constants DEF Limited, SsfTyped, Dates
  <2> QED
    <3>1. holder' = t /\ r.began <= now' /\ now' <= r.began + MaxFlight
      BY <1>1, <1>2, <1>5, <2>1
    <3>2. r.pc # "refetch" /\ r.todo # <<>>
      BY <1>2
    <3> QED
      BY <1>2, <1>6, <1>7, <2>2, <3>1, <3>2, OthersWait
<1>9. Dated'
  BY <1>1, <1>5, <1>7 DEF Dated
<1>10. KeysAreCurrent'
  BY <1>2, <1>5, <1>6, OthersAreCurrent
<1> QED
  BY <1>4, <1>8, <1>9, <1>10

(* Of the thread that fetches: what it holds, and what it may assume.       *)
LEMMA Fetching ==
  ASSUME Delivered, NEW t \in Threads, thread[t].pc \in {"fill", "refetch"}
  PROVE  /\ thread[t].todo # <<>> /\ holder = t
         /\ thread[t].began \in Nat /\ now \in Nat
         /\ thread[t].began <= now /\ now <= thread[t].began + MaxFlight
         /\ \A u \in Threads : u # t => thread[u].pc \notin {"fill", "refetch"}
BY OneFetches DEF Delivered, Locked, SsfTyped, Doing

LEMMA Fillings ==
  ASSUME Delivered, NEW t \in Threads, FillLands(t)
  PROVE  Delivered'
<1> USE DEF Delivered
<1>1. Unheard /\ thread[t].pc = "fill" /\ fetchedAt' = thread[t].began
  BY DEF FillLands, At, Unheard
<1> PICK doc \in Documents(t) : keys' = doc /\ Look(t, doc, thread[t].began)
  BY DEF FillLands
<1>2. /\ doc \in SUBSET Keys
      /\ \A k \in doc : retired[k] = None \/ thread[t].began <= retired[k]
      /\ \A k \in published : k \in doc \/ thread[t].began <= since[k]
  BY WhatIsPublished
<1>3. /\ thread[t].todo # <<>> /\ holder = t
      /\ thread[t].began \in Nat /\ now \in Nat
      /\ thread[t].began <= now /\ now <= thread[t].began + MaxFlight
      /\ \A u \in Threads : u # t => thread[u].pc \notin {"fill", "refetch"}
  BY <1>1, Fetching
<1>4. countedAt = None \/ (countedAt \in Nat /\ countedAt + Interval <= thread[t].began)
  BY <1>1 DEF Locked, SsfTyped, Dates
<1>5. ~Limited(thread[t].began)
  BY <1>3, <1>4, Constants DEF Limited
<1> PICK r \in Doing :
      /\ Kept(t, r)
      /\ \/ /\ r.pc = "store" /\ r.todo = thread[t].todo /\ Set(t).kid \in doc
            /\ holder' = None /\ UNCHANGED <<countedAt, failed>>
         \/ r.pc = "judge" /\ holder' = None /\ UNCHANGED <<countedAt, failed>>
         \/ /\ r.pc = "refetch" /\ r.todo = thread[t].todo /\ r.began = now
            /\ holder' = t /\ countedAt' = thread[t].began /\ failed' = FALSE
  BY <1>3, <1>5, Looking
<1>6. /\ now' = now /\ retired' = retired /\ since' = since /\ published' = published
      /\ thread' = [thread EXCEPT ![t] = r] /\ thread'[t] = r
  BY <1>1 DEF Unheard, transmitter, Kept, SsfTyped
<1>7. SsfTyped' /\ Rotated' /\ Recorded' /\ Accounted'
  <2>1. /\ keys' \in (SUBSET Keys) \cup {None} /\ fetchedAt' \in Nat /\ countedAt' \in Dates
        /\ failed' \in BOOLEAN
    BY <1>1, <1>2, <1>3 DEF SsfTyped, Dates
  <2> QED
    BY <1>1, <1>3, <2>1, KeyStep
<1>8. Locked'
  <2>1. r.pc \in {"fill", "refetch"} =>
          holder' = t /\ r.began <= now' /\ now' <= r.began + MaxFlight
    BY <1>3, <1>6, Constants
  <2>2. r.pc = "refetch" => countedAt' # None /\ countedAt' <= r.began /\ ~failed'
    BY <1>3, Constants
  <2>3. r.pc = "store" => Head(r.todo).kid \in Keys
    BY <1>2 DEF Set
  <2> QED
    BY <1>3, <1>6, <2>1, <2>2, <2>3, OthersWait
<1>9. Dated'
  <2>1. ASSUME countedAt' # None
        PROVE  countedAt' <= now' /\ countedAt' <= fetchedAt'
    <3>1. countedAt' = thread[t].began \/ countedAt' = countedAt
      OBVIOUS
    <3> QED
      BY <1>1, <1>3, <1>4, <1>6, <2>1, <3>1, Constants
  <2>2. /\ fetchedAt' <= now'
        /\ \A k \in keys' : retired'[k] = None \/ fetchedAt' <= retired'[k]
        /\ \A k \in published' : k \in keys' \/ fetchedAt' <= since'[k]
    BY <1>1, <1>2, <1>3, <1>6
  <2> QED
    BY <2>1, <2>2 DEF Dated
<1>10. KeysAreCurrent'
  <2>1. ASSUME r.pc = "store", retired[Head(r.todo).kid] # None
        PROVE  now <= retired[Head(r.todo).kid] + MaxFlight
    <3>1. Head(r.todo).kid \in doc
      BY <2>1 DEF Set
    <3>2. /\ thread[t].began <= retired[Head(r.todo).kid]
          /\ retired[Head(r.todo).kid] \in Nat
      BY <1>2, <2>1, <3>1 DEF SsfTyped, Dates
    <3> QED
      BY <1>3, <3>2, Constants
  <2> QED
    BY <1>6, <2>1, OthersAreCurrent
<1> QED
  BY <1>7, <1>8, <1>9, <1>10

LEMMA Failures ==
  ASSUME Delivered, NEW t \in Threads, FillFails(t) \/ RefetchFails(t)
  PROVE  Delivered'
<1> USE DEF Delivered
<1>1. /\ Unheard /\ thread[t].pc \in {"fill", "refetch"}
      /\ UNCHANGED <<keys, fetchedAt, excused>> /\ failed' = TRUE /\ holder' = None
      /\ countedAt' \in {countedAt, thread[t].began}
      /\ thread' = [thread EXCEPT ![t] = Unjudged(t)]
  BY DEF FillFails, RefetchFails, At, Unheard, app
<1>2. /\ thread[t].todo # <<>> /\ thread[t].began \in Nat /\ thread[t].began <= now
      /\ \A u \in Threads : u # t => thread[u].pc \notin {"fill", "refetch"}
  BY <1>1, Fetching
<1> PICK r \in Doing : r = Unjudged(t)
  BY <1>2, Unjudging
<1>3. Kept(t, r) /\ r.pc \in {"idle", "judge"}
  BY <1>1, <1>2, Stopping, Unjudging
<1>4. SsfTyped' /\ Rotated' /\ Recorded' /\ Accounted'
  <2>1. /\ keys' \in (SUBSET Keys) \cup {None} /\ fetchedAt' \in Nat /\ countedAt' \in Dates
        /\ failed' \in BOOLEAN
    BY <1>1, <1>2 DEF SsfTyped, Dates
  <2> QED
    BY <1>1, <1>2, <1>3, <2>1, KeyStep
<1>5. /\ now' = now /\ retired' = retired /\ since' = since /\ published' = published
      /\ thread' = [thread EXCEPT ![t] = r]
  BY <1>1 DEF Unheard, transmitter
<1>6. Locked'
  BY <1>2, <1>3, <1>5, OthersWait
<1>7. Dated'
  BY <1>1, <1>2, <1>5 DEF Dated
<1>8. KeysAreCurrent'
  BY <1>3, <1>5, OthersAreCurrent
<1> QED
  BY <1>4, <1>6, <1>7, <1>8

LEMMA Refetchings ==
  ASSUME Delivered, NEW t \in Threads, RefetchLands(t)
  PROVE  Delivered'
<1> USE DEF Delivered
<1>1. /\ Unheard /\ thread[t].pc = "refetch" /\ fetchedAt' = countedAt /\ holder' = None
      /\ UNCHANGED <<countedAt, failed>>
  BY DEF RefetchLands, At, Unheard
<1> PICK doc \in Documents(t) : keys' = doc
  BY DEF RefetchLands
<1>2. /\ doc \in SUBSET Keys
      /\ \A k \in doc : retired[k] = None \/ thread[t].began <= retired[k]
      /\ \A k \in published : k \in doc \/ thread[t].began <= since[k]
  BY WhatIsPublished
<1>3. /\ thread[t].todo # <<>> /\ holder = t
      /\ thread[t].began \in Nat /\ now \in Nat
      /\ thread[t].began <= now /\ now <= thread[t].began + MaxFlight
      /\ \A u \in Threads : u # t => thread[u].pc \notin {"fill", "refetch"}
  BY <1>1, Fetching
<1>4. countedAt \in Nat /\ countedAt <= thread[t].began
  BY <1>1, Constants DEF Locked, SsfTyped, Dates
<1>5. PICK r \in Doing :
        /\ Kept(t, r) /\ r.pc \in {"store", "judge"}
        /\ r.pc = "store" => r.todo = thread[t].todo /\ Set(t).kid \in doc
  <2>1. CASE Set(t).kid \in doc /\ Set(t).ok
    <3>1. thread' = [thread EXCEPT ![t] = Verified(t)] /\ UNCHANGED excused
      BY <2>1 DEF RefetchLands
    <3> PICK r : r = Verified(t)
      OBVIOUS
    <3>2. /\ r \in Doing /\ r.pc = "store" /\ r.todo = thread[t].todo
          /\ r.polled = thread[t].polled /\ r.got = thread[t].got
          /\ r.replayed = thread[t].replayed /\ r.refused = thread[t].refused
      BY Keeping
    <3>3. Kept(t, r)
      BY <3>1, <3>2 DEF Kept, SsfTyped
    <3> QED
      BY <2>1, <3>2, <3>3
  <2>2. CASE ~(Set(t).kid \in doc /\ Set(t).ok)
    <3>1. Refuse(t)
      BY <2>2 DEF RefetchLands
    <3>2. ASSUME Set(t).kid \in published, Set(t).ok
          PROVE  New(Set(t).kid)
      <4>1. thread[t].began <= since[Set(t).kid] /\ since[Set(t).kid] \in Nat
        BY <1>2, <2>2, <3>2 DEF SsfTyped
      <4> QED
        BY <1>3, <4>1, Constants DEF New
    <3>3. Kept(t, Refused(t)) /\ Refused(t).pc = "judge"
      BY <1>3, <3>1, <3>2, Refusing
    <3>4. Refused(t) \in Doing
      BY <1>3, Verdicts
    <3> QED
      BY <3>3, <3>4
  <2> QED
    BY <2>1, <2>2
<1>6. /\ now' = now /\ retired' = retired /\ since' = since /\ published' = published
      /\ thread' = [thread EXCEPT ![t] = r]
  BY <1>1, <1>5 DEF Unheard, transmitter, Kept
<1>7. SsfTyped' /\ Rotated' /\ Recorded' /\ Accounted'
  <2>1. /\ keys' \in (SUBSET Keys) \cup {None} /\ fetchedAt' \in Nat /\ countedAt' \in Dates
        /\ failed' \in BOOLEAN
    BY <1>1, <1>2, <1>4 DEF SsfTyped, Dates
  <2> QED
    BY <1>1, <1>3, <1>5, <2>1, KeyStep
<1>8. Locked'
  <2>1. r.pc = "store" => Head(r.todo).kid \in Keys
    BY <1>2, <1>5 DEF Set
  <2> QED
    BY <1>3, <1>5, <1>6, <2>1, OthersWait
<1>9. Dated'
  <2>1. countedAt' <= now' /\ countedAt' <= fetchedAt'
    BY <1>1, <1>3, <1>4, <1>6
  <2>2. ASSUME NEW k \in keys', retired'[k] # None
        PROVE  fetchedAt' <= retired'[k]
    <3>1. thread[t].began <= retired[k] /\ retired[k] \in Nat
      BY <1>2, <1>6, <2>2 DEF SsfTyped, Dates
    <3> QED
      BY <1>1, <1>3, <1>4, <1>6, <3>1
  <2>3. ASSUME NEW k \in published', k \notin keys'
        PROVE  fetchedAt' <= since'[k]
    <3>1. thread[t].began <= since[k] /\ since[k] \in Nat
      BY <1>2, <1>6, <2>3 DEF SsfTyped
    <3> QED
      BY <1>1, <1>3, <1>4, <1>6, <3>1
  <2>4. fetchedAt' <= now'
    BY <1>1, <2>1
  <2> QED
    BY <2>1, <2>2, <2>3, <2>4 DEF Dated
<1>10. KeysAreCurrent'
  <2>1. ASSUME r.pc = "store", retired[Head(r.todo).kid] # None
        PROVE  now <= retired[Head(r.todo).kid] + MaxFlight
    <3>1. Head(r.todo).kid \in doc
      BY <1>5, <2>1 DEF Set
    <3>2. /\ thread[t].began <= retired[Head(r.todo).kid]
          /\ retired[Head(r.todo).kid] \in Nat
      BY <1>2, <2>1, <3>1 DEF SsfTyped, Dates
    <3> QED
      BY <1>3, <3>2, Constants
  <2> QED
    BY <1>6, <2>1, OthersAreCurrent
<1> QED
  BY <1>7, <1>8, <1>9, <1>10

-----------------------------------------------------------------------------
(* Step 9: what the store lets pass was not held, so that its window is     *)
(* over or nobody was given it.                                             *)
LEMMA Recordings ==
  ASSUME Delivered, NEW t \in Threads, CheckAndRecord(t)
  PROVE  Delivered'
<1> USE DEF Delivered
<1>1. /\ thread[t].pc = "store" /\ thread[t].todo # <<>>
      /\ UNCHANGED <<now, transmitter, event, cache, app, death>>
  BY DEF CheckAndRecord, At, Locked
<1> PICK s \in Seq(SetRecord) : s = thread[t].todo
  BY DEF SsfTyped, Doing
<1>2. /\ Set(t) = s[1] /\ 1 \in 1..Len(s) /\ s[1] \in SetRecord
      /\ \A i \in 1..Len(Tail(s)) : i + 1 \in 1..Len(s) /\ Tail(s)[i] = s[i + 1]
  BY <1>1, Items DEF Set
<1>3. PICK j \in Jtis : j = Set(t).jti /\ event[j].state # "unborn"
  BY <1>1, <1>2 DEF SetRecord, Recorded
<1>4. PICK r \in Doing :
        /\ thread' = [thread EXCEPT ![t] = r]
        /\ r.pc = "judge" /\ r.todo = Tail(s) /\ r.polled = thread[t].polled
        /\ r.refused = thread[t].refused
        /\ \/ /\ Held(j) /\ seen' = seen /\ r.got = thread[t].got
              /\ r.replayed = thread[t].replayed \cup {j}
           \/ /\ ~Held(j) /\ seen' = [seen EXCEPT ![j] = now + Window]
              /\ r.got = thread[t].got \cup {j} /\ r.replayed = thread[t].replayed
  <2>1. CASE Held(j)
    <3>1. thread' = [thread EXCEPT ![t] = Replayed(t)] /\ seen' = seen
      BY <1>3, <2>1 DEF CheckAndRecord
    <3> QED
      BY <1>1, <1>3, <2>1, <3>1, Verdicts
  <2>2. CASE ~Held(j)
    <3>1. /\ thread' = [thread EXCEPT ![t] = Accepted(t)]
          /\ seen' = [seen EXCEPT ![j] = now + Window]
      BY <1>3, <2>2 DEF CheckAndRecord
    <3> QED
      BY <1>1, <1>3, <2>2, <3>1, Verdicts
  <2> QED
    BY <2>1, <2>2
<1>5. thread'[t] = r /\ \A u \in Threads : u # t => thread'[u] = thread[u]
  BY <1>4 DEF SsfTyped
<1>6. /\ now' = now /\ event' = event /\ handed' = handed /\ forgot' = forgot
      /\ UNCHANGED <<published, since, retired, keys, fetchedAt, countedAt, failed, holder>>
      /\ UNCHANGED <<toAck, toRefuse, excused>>
  BY <1>1 DEF transmitter, cache, app, death
<1>7. \A i \in 1..Len(r.todo) : i + 1 \in 1..Len(s) /\ r.todo[i] = s[i + 1]
  BY <1>2, <1>4
<1>8. now \in Nat /\ now + Window \in Nat /\ now + Window # None
  BY Constants DEF SsfTyped
<1>9. SsfTyped'
  <2>1. seen' \in [Jtis -> Dates]
    BY <1>4, <1>8 DEF SsfTyped, Dates
  <2>2. thread' \in [Threads -> Doing]
    BY <1>4 DEF SsfTyped
  <2> QED
    BY <1>6, <2>1, <2>2 DEF SsfTyped
<1>10. Rotated'
  BY <1>6 DEF Rotated
<1>11. Locked' /\ Dated' /\ KeysAreCurrent'
  BY <1>1, <1>4, Aside
<1>12. \A i : Passed(i) => Passed(i)'
  BY <1>4, <1>5, <1>6 DEF Passed
<1>13. \A i : i # j => (Passed(i)' <=> Passed(i))
  BY <1>4, <1>5, <1>6 DEF Passed
<1>14. Recorded'
  <2>1. ASSUME NEW u \in Threads, NEW i \in 1..Len(thread'[u].todo)
        PROVE  event[thread'[u].todo[i].jti].state # "unborn"
    <3>1. CASE u = t
      <4>1. i + 1 \in 1..Len(s) /\ r.todo[i] = s[i + 1]
        BY <1>5, <1>7, <2>1, <3>1
      <4> QED
        BY <1>5, <3>1, <4>1 DEF Recorded
    <3>2. CASE u # t
      BY <1>5, <2>1, <3>2 DEF Recorded
    <3> QED
      BY <3>1, <3>2
  <2>2. \A i \in Jtis : event[i].state = "unborn" => ~Answered(i)'
    BY <1>3, <1>6, <1>13 DEF Recorded, Answered
  <2>3. ASSUME NEW i \in Jtis, ~forgot, now < event[i].born + Window
        PROVE  /\ Passed(i)' => seen'[i] # None /\ event[i].born + Window <= seen'[i]
               /\ handed[i] <= 1
               /\ \A u \in Threads : i \in thread'[u].got =>
                    handed[i] = 0 /\ \A v \in Threads : i \in thread'[v].got => v = u
    <3>1. CASE i # j \/ Held(j)
      <4>1. Passed(i)' <=> Passed(i)
        BY <1>4, <1>5, <1>6, <1>13, <3>1 DEF Passed
      <4>2. \A u \in Threads : i \in thread'[u].got <=> i \in thread[u].got
        BY <1>4, <1>5, <3>1
      <4>3. seen'[i] = seen[i]
        BY <1>3, <1>4, <3>1 DEF SsfTyped
      <4> QED
        BY <2>3, <4>1, <4>2, <4>3 DEF Recorded
    <3>2. CASE i = j /\ ~Held(j)
      <4>1. seen[i] # None => seen[i] \in Nat /\ seen[i] <= now
        BY <1>8, <3>2 DEF Held, SsfTyped, Dates
      <4>2. ~Passed(i)
        <5> SUFFICES ASSUME Passed(i) PROVE FALSE
          OBVIOUS
        <5>1. seen[i] # None /\ event[i].born + Window <= seen[i]
          BY <2>3 DEF Recorded
        <5>2. event[i].born \in Nat
          BY DEF SsfTyped
        <5> QED
          BY <1>8, <2>3, <4>1, <5>1, <5>2, Constants
      <4>3. handed[i] = 0 /\ \A u \in Threads : i \notin thread[u].got
        BY <4>2 DEF Passed, SsfTyped
      <4>4. seen'[i] = now + Window
        BY <1>4, <3>2 DEF SsfTyped
      <4>5. event[i].born <= now /\ event[i].born \in Nat
        BY <1>3, <3>2 DEF Rotated, SsfTyped
      <4>6. \A u \in Threads : i \in thread'[u].got => u = t
        BY <1>5, <4>3
      <4> QED
        BY <1>8, <4>3, <4>4, <4>5, <4>6, Constants
    <3> QED
      BY <3>1, <3>2
  <2> QED
    BY <1>6, <2>1, <2>2, <2>3 DEF Recorded
<1>15. Accounted'
  <2>1. \A i : Answered(i) => Answered(i)'
    BY <1>6, <1>12 DEF Answered
  <2>2. Answered(j)'
    <3>1. CASE Held(j)
      BY <2>1, <3>1 DEF Held, Accounted
    <3>2. CASE ~Held(j)
      BY <1>4, <1>5, <3>2 DEF Answered, Passed
    <3> QED
      BY <3>1, <3>2
  <2>3. ASSUME NEW i \in Jtis, event[i].state = "gone" \/ i \in toAck \cup toRefuse \/ seen'[i] # None
        PROVE  Answered(i)'
    <3>1. CASE i = j
      BY <2>2, <3>1
    <3>2. CASE i # j
      <4>1. seen'[i] = seen[i]
        BY <1>4, <3>2 DEF SsfTyped
      <4> QED
        BY <2>1, <2>3, <4>1 DEF Accounted
    <3> QED
      BY <3>1, <3>2
  <2>4. ASSUME NEW u \in Threads, thread'[u].pc \in {"idle", "reply"}
        PROVE  thread'[u].got = {} /\ thread'[u].replayed = {} /\ thread'[u].refused = {}
    BY <1>4, <1>5, <2>4 DEF Accounted
  <2>5. ASSUME NEW u \in Threads, thread'[u].polled
        PROVE  /\ \A i \in thread'[u].replayed \cup thread'[u].refused : Answered(i)'
               /\ \A i \in 1..Len(thread'[u].todo) :
                    thread'[u].todo[i].ok
                    /\ thread'[u].todo[i].kid = event[thread'[u].todo[i].jti].key
    <3>1. CASE u = t
      <4>1. thread[t].polled
        BY <1>4, <1>5, <2>5, <3>1
      <4>2. \A i \in r.replayed \cup r.refused : Answered(i)'
        BY <1>4, <2>1, <2>2, <4>1 DEF Accounted
      <4>3. ASSUME NEW i \in 1..Len(r.todo)
            PROVE  r.todo[i].ok /\ r.todo[i].kid = event[r.todo[i].jti].key
        BY <1>7, <4>1, <4>3 DEF Accounted
      <4> QED
        BY <1>5, <3>1, <4>2, <4>3
    <3>2. CASE u # t
      BY <1>5, <2>1, <2>5, <3>2 DEF Accounted
    <3> QED
      BY <3>1, <3>2
  <2> QED
    BY <1>6, <2>3, <2>4, <2>5 DEF Accounted
<1> QED
  BY <1>9, <1>10, <1>11, <1>14, <1>15

LEMMA StoreFailures ==
  ASSUME Delivered, NEW t \in Threads, StoreFails(t)
  PROVE  Delivered'
<1> USE DEF Delivered
<1>1. /\ Unheard /\ thread[t].pc = "store" /\ thread[t].todo # <<>>
      /\ UNCHANGED <<keys, fetchedAt, countedAt, failed, holder, excused>>
      /\ thread' = [thread EXCEPT ![t] = Unjudged(t)]
  BY DEF StoreFails, At, Unheard, app, cache, Locked
<1> PICK r \in Doing : r = Unjudged(t)
  BY <1>1, Unjudging
<1>2. Kept(t, r) /\ r.pc \in {"idle", "judge"}
  BY <1>1, Stopping, Unjudging
<1>3. SsfTyped' /\ Rotated' /\ Recorded' /\ Accounted'
  <2>1. /\ keys' \in (SUBSET Keys) \cup {None} /\ fetchedAt' \in Nat /\ countedAt' \in Dates
        /\ failed' \in BOOLEAN
    BY <1>1 DEF SsfTyped
  <2> QED
    BY <1>1, <1>2, <2>1, KeyStep
<1>4. /\ now' = now /\ retired' = retired /\ since' = since /\ published' = published
      /\ thread' = [thread EXCEPT ![t] = r]
      /\ thread'[t] = r /\ \A u \in Threads : u # t => thread'[u] = thread[u]
  BY <1>1 DEF Unheard, transmitter, SsfTyped
<1>5. Locked' /\ Dated' /\ KeysAreCurrent'
  BY <1>1, <1>2, <1>4, Aside DEF cache, Unheard
<1> QED
  BY <1>3, <1>5
-----------------------------------------------------------------------------
(* A thread that begins anew, or gives up, has judged nothing, and what the *)
(* transmitter answered it is what that still offers.                       *)
LEMMA Started ==
  ASSUME SsfTyped, Recorded, Accounted, NEW t \in Threads, thread[t].pc \in {"idle", "reply"},
         NEW r \in Doing, thread' = [thread EXCEPT ![t] = r],
         r.got = {}, r.replayed = {}, r.refused = {},
         UNCHANGED <<now, seen, app, forgot>>,
         \A j \in Jtis :
           /\ event'[j].born = event[j].born /\ event'[j].key = event[j].key
           /\ event'[j].state = "unborn" <=> event[j].state = "unborn"
           /\ event'[j].state = "gone" => event[j].state = "gone" \/ j \in toAck \cup toRefuse,
         \A i \in 1..Len(r.todo) :
           /\ event[r.todo[i].jti].state # "unborn"
           /\ r.polled => r.todo[i].ok /\ r.todo[i].kid = event[r.todo[i].jti].key
  PROVE  Recorded' /\ Accounted'
<1>1. /\ thread'[t] = r /\ \A u \in Threads : u # t => thread'[u] = thread[u]
      /\ UNCHANGED <<now, seen, toAck, toRefuse, handed, excused, forgot>>
  BY DEF SsfTyped, app
<1>2. \A u \in Threads : thread'[u].got = thread[u].got
  BY <1>1 DEF Accounted
<1>3. \A j : (Passed(j)' <=> Passed(j)) /\ (Answered(j)' <=> Answered(j))
  BY <1>1, <1>2 DEF Passed, Answered
<1>4. ASSUME NEW u \in Threads, NEW i \in 1..Len(thread[u].todo)
      PROVE  thread[u].todo[i].jti \in Jtis
  <2> PICK s \in Seq(SetRecord) : s = thread[u].todo
    BY DEF SsfTyped, Doing
  <2>1. s[i] \in SetRecord
    BY <1>4, ElementOfSeq
  <2> QED
    BY <2>1 DEF SetRecord
<1>5. ASSUME NEW i \in 1..Len(r.todo)
      PROVE  r.todo[i].jti \in Jtis
  <2> PICK s \in Seq(SetRecord) : s = r.todo
    BY DEF Doing
  <2>1. s[i] \in SetRecord
    BY <1>5, ElementOfSeq
  <2> QED
    BY <2>1 DEF SetRecord
<1>6. Recorded'
  <2>1. ASSUME NEW u \in Threads, NEW i \in 1..Len(thread'[u].todo)
        PROVE  event'[thread'[u].todo[i].jti].state # "unborn"
    <3>1. CASE u = t
      BY <1>1, <1>5, <2>1, <3>1
    <3>2. CASE u # t
      BY <1>1, <1>4, <2>1, <3>2 DEF Recorded
    <3> QED
      BY <3>1, <3>2
  <2>2. \A j \in Jtis : event'[j].state = "unborn" => ~Answered(j)'
    BY <1>3 DEF Recorded
  <2>3. ASSUME NEW j \in Jtis, ~forgot, now < event[j].born + Window
        PROVE  /\ Passed(j)' => seen[j] # None /\ event[j].born + Window <= seen[j]
               /\ handed[j] <= 1
               /\ \A u \in Threads : j \in thread'[u].got =>
                    handed[j] = 0 /\ \A v \in Threads : j \in thread'[v].got => v = u
    BY <1>2, <1>3, <2>3 DEF Recorded
  <2> QED
    BY <1>1, <2>1, <2>2, <2>3 DEF Recorded
<1>7. Accounted'
  <2>1. \A j \in Jtis : event'[j].state = "gone" \/ j \in toAck \cup toRefuse \/ seen[j] # None =>
          Answered(j)'
    BY <1>3 DEF Accounted
  <2>2. \A u \in Threads : thread'[u].pc \in {"idle", "reply"} =>
          thread'[u].got = {} /\ thread'[u].replayed = {} /\ thread'[u].refused = {}
    BY <1>1 DEF Accounted
  <2>3. ASSUME NEW u \in Threads, thread'[u].polled
        PROVE  /\ \A j \in thread'[u].replayed \cup thread'[u].refused : Answered(j)'
               /\ \A i \in 1..Len(thread'[u].todo) :
                    thread'[u].todo[i].ok
                    /\ thread'[u].todo[i].kid = event'[thread'[u].todo[i].jti].key
    <3>1. CASE u = t
      BY <1>1, <1>5, <2>3, <3>1
    <3>2. CASE u # t
      BY <1>1, <1>3, <1>4, <2>3, <3>2 DEF Accounted
    <3> QED
      BY <3>1, <3>2
  <2> QED
    BY <1>1, <2>1, <2>2, <2>3 DEF Accounted
<1> QED
  BY <1>6, <1>7

(* What a request that arrives does: the transmitter drops what is answered *)
(* for and answers with genuine SETs of what it offers.                     *)
LEMMA Requesting ==
  ASSUME SsfTyped, Rotated, Recorded, Accounted, NEW t \in Threads, Request(t)
  PROVE  /\ event' \in [Jtis -> [state : {"unborn", "offered", "gone"}, key : Keys \cup {None},
                                  born : Nat]]
         /\ \A j \in Jtis :
              /\ event'[j].born = event[j].born /\ event'[j].key = event[j].key
              /\ event'[j].state = "unborn" <=> event[j].state = "unborn"
              /\ event'[j].state = "gone" => event[j].state = "gone" \/ j \in toAck \cup toRefuse
         /\ \E r \in Doing :
              /\ thread' = [thread EXCEPT ![t] = r] /\ r.pc = "reply"
              /\ r.got = {} /\ r.replayed = {} /\ r.refused = {}
              /\ \A i \in 1..Len(r.todo) :
                   /\ event[r.todo[i].jti].state # "unborn"
                   /\ r.todo[i].ok /\ r.todo[i].kid = event[r.todo[i].jti].key
<1> PICK done : done = toAck \cup toRefuse
  OBVIOUS
<1> PICK S \in SUBSET (Offered \ done) : \E s \in Orders(S) :
      thread' = [thread EXCEPT ![t] = [Resting EXCEPT !.pc = "reply", !.polled = TRUE,
                   !.began = now, !.todo = [i \in DOMAIN s |-> Genuine(s[i])]]]
  BY DEF Request
<1> PICK s \in Orders(S) :
      thread' = [thread EXCEPT ![t] = [Resting EXCEPT !.pc = "reply", !.polled = TRUE,
                   !.began = now, !.todo = [i \in DOMAIN s |-> Genuine(s[i])]]]
  OBVIOUS
<1>1. event' = [j \in Jtis |-> IF j \in done THEN [event[j] EXCEPT !.state = "gone"]
                                ELSE event[j]]
  BY DEF Request
<1>2. ASSUME NEW j \in Jtis
      PROVE  /\ event'[j] \in [state : {"unborn", "offered", "gone"}, key : Keys \cup {None},
                                born : Nat]
             /\ event'[j].born = event[j].born /\ event'[j].key = event[j].key
             /\ event'[j].state = "unborn" <=> event[j].state = "unborn"
             /\ event'[j].state = "gone" => event[j].state = "gone" \/ j \in done
  <2> PICK e \in [state : {"unborn", "offered", "gone"}, key : Keys \cup {None}, born : Nat] :
        e = event[j]
    BY DEF SsfTyped
  <2>1. CASE j \notin done
    BY <1>1, <2>1
  <2>2. CASE j \in done
    <3>1. e.state # "unborn"
      BY <2>2 DEF Recorded, Accounted
    <3> PICK g : g = [e EXCEPT !.state = "gone"]
      OBVIOUS
    <3>2. /\ g \in [state : {"unborn", "offered", "gone"}, key : Keys \cup {None}, born : Nat]
          /\ g.state = "gone" /\ g.key = e.key /\ g.born = e.born
      OBVIOUS
    <3>3. event'[j] = g
      BY <1>1, <2>2
    <3> QED
      BY <2>2, <3>1, <3>2, <3>3
  <2> QED
    BY <2>1, <2>2
<1>3. event' \in [Jtis -> [state : {"unborn", "offered", "gone"}, key : Keys \cup {None}, born : Nat]]
  BY <1>1, <1>2
<1> PICK n : n = Cardinality(S)
  OBVIOUS
<1>4. n \in Nat /\ s \in [1..n -> S] /\ S \subseteq Jtis
  BY FS_Subset, FS_CardinalityType, SsfAssumption DEF Orders, Offered
<1>5. \A j \in S : event[j].state = "offered" /\ Genuine(j) \in SetRecord
  BY DEF Offered, Genuine, SetRecord, Rotated
<1> PICK q : q = [i \in DOMAIN s |-> Genuine(s[i])]
  OBVIOUS
<1>6. q \in Seq(SetRecord) /\ Len(q) = n /\ \A i \in 1..n : q[i] = Genuine(s[i]) /\ s[i] \in S
  <2>1. DOMAIN s = 1..n /\ \A i \in 1..n : s[i] \in S
    BY <1>4
  <2>2. q \in [1..n -> SetRecord]
    BY <1>5, <2>1
  <2>3. q \in Seq(SetRecord) /\ Len(q) = n
    BY <1>4, <2>2, SeqDef, LenProperties
  <2> QED
    BY <2>1, <2>3
<1> PICK z \in Doing : z = Resting
  BY RestingFields
<1> PICK m \in Nat : m = now
  BY DEF SsfTyped
<1> PICK r : r = [z EXCEPT !.pc = "reply", !.polled = TRUE, !.began = m, !.todo = q]
  OBVIOUS
<1>7. /\ r \in Doing /\ r.pc = "reply" /\ r.todo = q /\ r.got = z.got
      /\ r.replayed = z.replayed /\ r.refused = z.refused
  BY <1>6 DEF Doing
<1>8. thread' = [thread EXCEPT ![t] = r]
  OBVIOUS
<1>9. r.got = {} /\ r.replayed = {} /\ r.refused = {}
  BY <1>7, RestingFields
<1>10. ASSUME NEW i \in 1..Len(r.todo)
       PROVE  /\ event[r.todo[i].jti].state # "unborn"
              /\ r.todo[i].ok /\ r.todo[i].kid = event[r.todo[i].jti].key
  BY <1>5, <1>6, <1>7, <1>10 DEF Genuine
<1> QED
  BY <1>2, <1>3, <1>7, <1>8, <1>9, <1>10

LEMMA Polls ==
  ASSUME Delivered, NEW t \in Threads, Poll(t)
  PROVE  Delivered'
<1> USE DEF Delivered
<1>1. /\ thread[t].pc \in {"idle", "reply"} /\ Request(t)
      /\ UNCHANGED <<now, transmitter, cache, seen, app, death>>
  BY DEF Poll, At
<1> PICK r \in Doing :
      /\ thread' = [thread EXCEPT ![t] = r] /\ r.pc = "reply"
      /\ r.got = {} /\ r.replayed = {} /\ r.refused = {}
      /\ \A i \in 1..Len(r.todo) :
           /\ event[r.todo[i].jti].state # "unborn"
           /\ r.todo[i].ok /\ r.todo[i].kid = event[r.todo[i].jti].key
  BY <1>1, Requesting
<1>2. \A j \in Jtis :
        /\ event'[j].born = event[j].born /\ event'[j].key = event[j].key
        /\ event'[j].state = "unborn" <=> event[j].state = "unborn"
        /\ event'[j].state = "gone" => event[j].state = "gone" \/ j \in toAck \cup toRefuse
  BY <1>1, Requesting
<1>3. SsfTyped'
  BY <1>1, Requesting DEF SsfTyped, transmitter, cache, app, death
<1>4. Rotated'
  BY <1>1, <1>2 DEF Rotated, transmitter
<1>5. Locked' /\ Dated' /\ KeysAreCurrent'
  BY <1>1, Aside
<1>6. Recorded' /\ Accounted'
  BY <1>1, <1>2, Started DEF death
<1> QED
  BY <1>3, <1>4, <1>5, <1>6

LEMMA PollFailures ==
  ASSUME Delivered, NEW t \in Threads, PollFails(t)
  PROVE  Delivered'
<1> USE DEF Delivered
<1>1. /\ thread[t].pc = "reply" /\ thread' = [thread EXCEPT ![t] = Resting]
      /\ UNCHANGED <<now, transmitter, event, cache, seen, app, death>>
  BY DEF PollFails, At
<1> PICK r \in Doing : r = Resting
  BY RestingFields
<1>2. r.pc = "idle" /\ r.got = {} /\ r.replayed = {} /\ r.refused = {} /\ 1..Len(r.todo) = {}
  BY RestingFields, EmptySeq
<1>3. SsfTyped' /\ Rotated'
  BY <1>1 DEF SsfTyped, Rotated, transmitter, cache, app, death
<1>4. Locked' /\ Dated' /\ KeysAreCurrent'
  BY <1>1, <1>2, Aside
<1>5. Recorded' /\ Accounted'
  BY <1>1, <1>2, Started DEF death
<1> QED
  BY <1>3, <1>4, <1>5

LEMMA BatchOfOne ==
  ASSUME NEW T, NEW x \in T
  PROVE  <<x>> \in Seq(T) /\ Len(<<x>>) = 1 /\ <<x>>[1] = x
OBVIOUS

LEMMA Pushing ==
  ASSUME SsfTyped, NEW t \in Threads, Push(t)
  PROVE  \E r \in Doing :
           /\ thread' = [thread EXCEPT ![t] = r] /\ r.pc = "judge" /\ ~r.polled
           /\ r.got = {} /\ r.replayed = {} /\ r.refused = {}
           /\ \A i \in 1..Len(r.todo) : event[r.todo[i].jti].state # "unborn"
<1> PICK f \in Forged :
      thread' = [thread EXCEPT ![t] = [Resting EXCEPT !.pc = "judge", !.todo = <<f>>]]
  BY DEF Push
<1>1. f \in SetRecord /\ event[f.jti].state = "offered"
  <2>1. f.jti \in Offered /\ f.kid \in published \cup {Bogus} /\ f.ok = FALSE
        /\ f = [jti |-> f.jti, kid |-> f.kid, ok |-> f.ok]
    BY DEF Forged
  <2>2. f.jti \in Jtis /\ event[f.jti].state = "offered"
    BY <2>1 DEF Offered
  <2>3. f.kid \in Keys \cup {Bogus}
    BY <2>1 DEF SsfTyped
  <2>4. [jti |-> f.jti, kid |-> f.kid, ok |-> f.ok] \in SetRecord
    BY <2>1, <2>2, <2>3 DEF SetRecord
  <2> QED
    BY <2>1, <2>2, <2>4
<1> PICK q \in Seq(SetRecord) : q = <<f>>
  BY <1>1, BatchOfOne
<1>2. Len(q) = 1 /\ q[1] = f
  BY <1>1, BatchOfOne
<1> PICK z \in Doing : z = Resting
  BY RestingFields
<1> PICK r : r = [z EXCEPT !.pc = "judge", !.todo = q]
  OBVIOUS
<1>3. /\ r \in Doing /\ r.pc = "judge" /\ r.todo = q /\ r.got = z.got
      /\ r.replayed = z.replayed /\ r.refused = z.refused /\ r.polled = z.polled
  BY DEF Doing
<1>4. r.got = {} /\ r.replayed = {} /\ r.refused = {} /\ ~r.polled
  BY <1>3, RestingFields
<1>5. thread' = [thread EXCEPT ![t] = r]
  OBVIOUS
<1>6. ASSUME NEW i \in 1..Len(r.todo)
      PROVE  event[r.todo[i].jti].state # "unborn"
  <2>1. i = 1
    BY <1>2, <1>3, <1>6
  <2> QED
    BY <1>1, <1>2, <1>3, <2>1
<1> QED
  BY <1>3, <1>4, <1>5, <1>6

LEMMA Pushes ==
  ASSUME Delivered, NEW t \in Threads, Push(t)
  PROVE  Delivered'
<1> USE DEF Delivered
<1>1. /\ thread[t].pc = "idle"
      /\ UNCHANGED <<now, transmitter, event, cache, seen, app, death>>
  BY DEF Push, At
<1> PICK r \in Doing :
      /\ thread' = [thread EXCEPT ![t] = r] /\ r.pc = "judge" /\ ~r.polled
      /\ r.got = {} /\ r.replayed = {} /\ r.refused = {}
      /\ \A i \in 1..Len(r.todo) : event[r.todo[i].jti].state # "unborn"
  BY Pushing
<1>2. SsfTyped' /\ Rotated'
  BY <1>1 DEF SsfTyped, Rotated, transmitter, cache, app, death
<1>3. Locked' /\ Dated' /\ KeysAreCurrent'
  BY <1>1, Aside
<1>4. Recorded' /\ Accounted'
  BY <1>1, Started DEF death
<1> QED
  BY <1>2, <1>3, <1>4

-----------------------------------------------------------------------------
(* The result reaches the application: what was on its way is handed over,  *)
(* and only what was judged by a poll is to be answered for.                *)
LEMMA Endings ==
  ASSUME Delivered, NEW t \in Threads, Finish(t)
  PROVE  Delivered'
<1> USE DEF Delivered
<1>1. /\ thread[t].pc \in {"reply", "judge"} /\ thread' = [thread EXCEPT ![t] = Resting]
      /\ handed' = [j \in Jtis |-> IF j \in thread[t].got THEN handed[j] + 1 ELSE handed[j]]
      /\ UNCHANGED <<now, transmitter, event, cache, seen, excused, death>>
  BY DEF Finish, Judging, At
<1>2. \/ toAck' = toAck /\ toRefuse' = toRefuse
      \/ /\ thread[t].polled
         /\ toAck' \subseteq toAck \cup thread[t].got \cup thread[t].replayed
         /\ toRefuse' \subseteq toRefuse \cup thread[t].refused
  BY DEF Finish
<1> PICK d \in Doing : d = thread[t]
  BY DEF SsfTyped
<1> PICK r \in Doing : r = Resting
  BY RestingFields
<1>3. /\ r.pc = "idle" /\ r.got = {} /\ r.replayed = {} /\ r.refused = {} /\ ~r.polled
      /\ 1..Len(r.todo) = {}
  BY RestingFields, EmptySeq
<1>4. /\ thread'[t] = r /\ \A u \in Threads : u # t => thread'[u] = thread[u]
      /\ UNCHANGED <<now, published, since, retired, event, seen, excused, forgot, crashes>>
  BY <1>1 DEF SsfTyped, transmitter, death
<1>5. \A j \in Jtis : handed[j] \in Nat /\ handed'[j] = IF j \in d.got THEN handed[j] + 1 ELSE handed[j]
  BY <1>1 DEF SsfTyped
<1>6. ASSUME NEW j \in Jtis
      PROVE  (Passed(j)' <=> Passed(j)) /\ (Answered(j)' <=> Answered(j))
  <2>1. handed'[j] > 0 <=> handed[j] > 0 \/ j \in d.got
    BY <1>5
  <2>2. Passed(j)' <=> Passed(j)
    BY <1>3, <1>4, <2>1 DEF Passed
  <2> QED
    BY <1>4, <2>2 DEF Answered
<1>7. SsfTyped'
  <2>1. handed' \in [Jtis -> Nat]
    BY <1>1, <1>5
  <2>2. d.got \subseteq Jtis /\ d.replayed \subseteq Jtis /\ d.refused \subseteq Jtis
    BY DEF Doing
  <2>3. {toAck', toRefuse'} \subseteq SUBSET Jtis
    BY <1>2, <2>2 DEF SsfTyped
  <2> QED
    BY <1>1, <1>4, <2>1, <2>3 DEF SsfTyped, cache
<1>8. Rotated'
  BY <1>4 DEF Rotated
<1>9. Locked' /\ Dated' /\ KeysAreCurrent'
  BY <1>1, <1>3, Aside
<1>10. Recorded'
  <2>1. \A u \in Threads : \A i \in 1..Len(thread'[u].todo) :
          event[thread'[u].todo[i].jti].state # "unborn"
    BY <1>3, <1>4 DEF Recorded
  <2>2. \A j \in Jtis : event[j].state = "unborn" => ~Answered(j)'
    BY <1>6 DEF Recorded
  <2>3. ASSUME NEW j \in Jtis, ~forgot, now < event[j].born + Window
        PROVE  /\ Passed(j)' => seen[j] # None /\ event[j].born + Window <= seen[j]
               /\ handed'[j] <= 1
               /\ \A u \in Threads : j \in thread'[u].got =>
                    handed'[j] = 0 /\ \A v \in Threads : j \in thread'[v].got => v = u
    <3>1. Passed(j)' => seen[j] # None /\ event[j].born + Window <= seen[j]
      BY <1>6, <2>3 DEF Recorded
    <3>2. handed[j] <= 1 /\ (j \in d.got => handed[j] = 0)
      BY <2>3 DEF Recorded
    <3>3. handed'[j] <= 1
      BY <1>5, <3>2
    <3>4. ASSUME NEW u \in Threads, j \in thread'[u].got
          PROVE  handed'[j] = 0 /\ \A v \in Threads : j \in thread'[v].got => v = u
      <4>1. u # t /\ j \in thread[u].got
        BY <1>3, <1>4, <3>4
      <4>2. handed[j] = 0 /\ \A v \in Threads : j \in thread[v].got => v = u
        BY <2>3, <4>1 DEF Recorded
      <4>3. j \notin d.got
        BY <4>1, <4>2
      <4> QED
        BY <1>3, <1>4, <1>5, <4>2, <4>3
    <3> QED
      BY <3>1, <3>3, <3>4
  <2> QED
    BY <1>4, <2>1, <2>2, <2>3 DEF Recorded
<1>11. Accounted'
  <2>1. ASSUME thread[t].polled, NEW j \in d.got \cup d.replayed \cup d.refused
        PROVE  Answered(j)
    BY <2>1 DEF Accounted, Answered, Passed
  <2>2. ASSUME NEW j \in Jtis, event[j].state = "gone" \/ j \in toAck' \cup toRefuse' \/ seen[j] # None
        PROVE  Answered(j)
    BY <1>2, <2>1, <2>2 DEF Accounted
  <2>3. \A u \in Threads : thread'[u].pc \in {"idle", "reply"} =>
          thread'[u].got = {} /\ thread'[u].replayed = {} /\ thread'[u].refused = {}
    BY <1>3, <1>4 DEF Accounted
  <2>4. ASSUME NEW u \in Threads, thread'[u].polled
        PROVE  /\ \A j \in thread'[u].replayed \cup thread'[u].refused : Answered(j)'
               /\ \A i \in 1..Len(thread'[u].todo) :
                    thread'[u].todo[i].ok
                    /\ thread'[u].todo[i].kid = event[thread'[u].todo[i].jti].key
    <3>1. u # t /\ thread'[u] = thread[u]
      BY <1>3, <1>4, <2>4
    <3>2. thread[u].replayed \cup thread[u].refused \subseteq Jtis
      BY DEF SsfTyped, Doing
    <3> QED
      BY <1>6, <2>4, <3>1, <3>2 DEF Accounted
  <2> QED
    BY <1>4, <1>6, <2>2, <2>3, <2>4 DEF Accounted
<1> QED
  BY <1>7, <1>8, <1>9, <1>10, <1>11

LEMMA Emissions ==
  ASSUME Delivered, NEW e \in Jtis, Emit(e)
  PROVE  Delivered'
<1> USE DEF Delivered
<1>1. event[e].state = "unborn" /\ UNCHANGED <<now, transmitter, cache, seen, thread, app, death>>
  BY DEF Emit
<1> PICK k \in published :
      event' = [event EXCEPT ![e] = [state |-> "offered", key |-> k, born |-> now]]
  BY DEF Emit
<1>2. k \in Keys /\ now \in Nat
  BY DEF SsfTyped
<1> PICK x \in [state : {"unborn", "offered", "gone"}, key : Keys \cup {None}, born : Nat] :
      x = [state |-> "offered", key |-> k, born |-> now]
  BY <1>2
<1>3. /\ event'[e] = x /\ x.state = "offered" /\ x.key = k /\ x.born = now
      /\ \A j \in Jtis : j # e => event'[j] = event[j]
  BY DEF SsfTyped
<1>4. /\ UNCHANGED <<now, published, since, retired, keys, fetchedAt, countedAt, failed, holder>>
      /\ UNCHANGED <<seen, thread, toAck, toRefuse, handed, excused, crashes, forgot>>
  BY <1>1 DEF transmitter, cache, app, death
<1>5. \A j : (Passed(j)' <=> Passed(j)) /\ (Answered(j)' <=> Answered(j))
  BY <1>4 DEF Passed, Answered
<1>6. ~Answered(e) /\ ~Passed(e)
  BY <1>1 DEF Recorded, Answered
<1>7. ASSUME NEW u \in Threads, NEW i \in 1..Len(thread[u].todo)
      PROVE  /\ thread[u].todo[i].jti \in Jtis /\ event[thread[u].todo[i].jti].state # "unborn"
             /\ event'[thread[u].todo[i].jti] = event[thread[u].todo[i].jti]
  <2> PICK s \in Seq(SetRecord) : s = thread[u].todo
    BY DEF SsfTyped, Doing
  <2>1. s[i] \in SetRecord
    BY <1>7, ElementOfSeq
  <2>2. event[s[i].jti].state # "unborn"
    BY <1>7 DEF Recorded
  <2> QED
    BY <1>1, <1>3, <2>1, <2>2 DEF SetRecord
<1>8. SsfTyped'
  <2>1. event' \in [Jtis -> [state : {"unborn", "offered", "gone"}, key : Keys \cup {None}, born : Nat]]
    BY <1>3 DEF SsfTyped
  <2> QED
    BY <1>4, <2>1 DEF SsfTyped
<1>9. Rotated'
  <2>1. ASSUME NEW j \in Jtis, event'[j].state # "unborn"
        PROVE  /\ event'[j].key \in Keys /\ event'[j].born <= now
               /\ event'[j].key \in published \/ retired[event'[j].key] # None
    BY <1>2, <1>3, <2>1 DEF Rotated
  <2> QED
    BY <1>4, <2>1 DEF Rotated
<1>10. Locked' /\ Dated' /\ KeysAreCurrent'
  BY <1>4 DEF Locked, Dated, KeysAreCurrent, At, Set
<1>11. Recorded'
  <2>1. ASSUME NEW j \in Jtis, ~forgot, now < event'[j].born + Window
        PROVE  /\ Passed(j) => seen[j] # None /\ event'[j].born + Window <= seen[j]
               /\ handed[j] <= 1
               /\ \A u \in Threads : j \in thread[u].got =>
                    handed[j] = 0 /\ \A v \in Threads : j \in thread[v].got => v = u
    <3>1. CASE j = e
      <4>1. handed[j] = 0 /\ \A u \in Threads : j \notin thread[u].got
        BY <1>6, <3>1 DEF Passed, SsfTyped
      <4> QED
        BY <1>6, <3>1, <4>1
    <3>2. CASE j # e
      BY <1>3, <2>1, <3>2 DEF Recorded
    <3> QED
      BY <3>1, <3>2
  <2>2. \A j \in Jtis : event'[j].state = "unborn" => ~Answered(j)
    BY <1>3 DEF Recorded
  <2>3. \A u \in Threads : \A i \in 1..Len(thread[u].todo) :
          event'[thread[u].todo[i].jti].state # "unborn"
    BY <1>7
  <2> QED
    BY <1>4, <1>5, <2>1, <2>2, <2>3 DEF Recorded
<1>12. Accounted'
  <2>1. \A j \in Jtis : event'[j].state = "gone" => event[j].state = "gone"
    BY <1>3
  <2>2. ASSUME NEW u \in Threads, thread[u].polled, NEW i \in 1..Len(thread[u].todo)
        PROVE  thread[u].todo[i].ok /\ thread[u].todo[i].kid = event'[thread[u].todo[i].jti].key
    BY <1>7, <2>2 DEF Accounted
  <2> QED
    BY <1>4, <1>5, <2>1, <2>2 DEF Accounted
<1> QED
  BY <1>8, <1>9, <1>10, <1>11, <1>12

LEMMA Rotations ==
  ASSUME Delivered, NEW k \in Keys, Rotate(k)
  PROVE  Delivered'
<1> USE DEF Delivered
<1>1. /\ k \notin published /\ retired[k] = None /\ published' = {k}
      /\ since' = [since EXCEPT ![k] = now]
      /\ retired' = [x \in Keys |-> IF x \in published THEN now ELSE retired[x]]
      /\ UNCHANGED <<now, event, cache, seen, thread, app, death>>
  BY DEF Rotate
<1>2. now \in Nat /\ now # None /\ since \in [Keys -> Nat] /\ fetchedAt \in Nat
      /\ \A x \in Keys : retired[x] = None \/ retired[x] \in Nat
  BY Constants DEF SsfTyped, Dates
<1>3. /\ UNCHANGED <<now, event, keys, fetchedAt, countedAt, failed, holder>>
      /\ UNCHANGED <<seen, thread, toAck, toRefuse, handed, excused, crashes, forgot>>
  BY <1>1 DEF cache, app, death
<1>4. /\ \A x \in Keys : retired'[x] = IF x \in published THEN now ELSE retired[x]
      /\ retired'[k] = None /\ since'[k] = now
      /\ \A x \in Keys : since'[x] = IF x = k THEN now ELSE since[x]
  BY <1>1, <1>2
<1>5. SsfTyped'
  <2>1. published' \in SUBSET Keys /\ since' \in [Keys -> Nat] /\ retired' \in [Keys -> Dates]
    BY <1>1, <1>2 DEF Dates
  <2> QED
    BY <1>3, <2>1 DEF SsfTyped
<1>6. Rotated'
  <2>1. ASSUME NEW x \in Keys
        PROVE  since'[x] <= now /\ (retired'[x] # None => retired'[x] <= now)
    BY <1>2, <1>4 DEF Rotated
  <2>2. ASSUME NEW j \in Jtis, event[j].state # "unborn"
        PROVE  /\ event[j].key \in Keys /\ event[j].born <= now
               /\ event[j].key \in {k} \/ retired'[event[j].key] # None
    BY <1>2, <1>4, <2>2 DEF Rotated
  <2> QED
    BY <1>1, <1>3, <1>4, <2>1, <2>2 DEF Rotated
<1>7. Locked'
  BY <1>3 DEF Locked, Set
<1>8. Dated'
  <2>1. ASSUME keys # None
        PROVE  /\ fetchedAt <= now
               /\ \A x \in keys : retired'[x] = None \/ fetchedAt <= retired'[x]
               /\ \A x \in {k} : x \in keys \/ fetchedAt <= since'[x]
    <3>1. fetchedAt <= now /\ keys \subseteq Keys
      BY <2>1 DEF Dated, SsfTyped
    <3> QED
      BY <1>4, <2>1, <3>1 DEF Dated
  <2> QED
    BY <1>1, <1>3, <2>1 DEF Dated
<1>9. KeysAreCurrent'
  <2>1. ASSUME NEW t \in Threads, thread[t].pc = "store", retired'[Set(t).kid] # None
        PROVE  \/ now < retired'[Set(t).kid] + TTL
               \/ now <= retired'[Set(t).kid] + MaxFlight
    <3>1. Set(t).kid \in Keys
      BY <2>1 DEF Locked
    <3>2. CASE Set(t).kid \in published
      BY <1>2, <1>4, <3>1, <3>2, Constants
    <3>3. CASE Set(t).kid \notin published
      BY <1>4, <2>1, <3>1, <3>3 DEF KeysAreCurrent, At
    <3> QED
      BY <3>2, <3>3
  <2> QED
    BY <1>3, <2>1 DEF KeysAreCurrent, At, Set
<1>10. Recorded' /\ Accounted'
  BY <1>3 DEF Recorded, Accounted, Answered, Passed
<1> QED
  BY <1>5, <1>6, <1>7, <1>8, <1>9, <1>10

-----------------------------------------------------------------------------
LEMMA KeySteps ==
  ASSUME Delivered, NEW t \in Threads, KeyForKid(t)
  PROVE  Delivered'
<1>1. Unheard /\ thread[t].todo # <<>> /\ holder = None
  BY DEF KeyForKid, Unheard
<1>2. ReadKeys(t) \/ FillLater(t) \/ BeginFill(t)
  BY DEF KeyForKid
<1> QED
  BY <1>1, <1>2, Readings, Postponings, Beginnings

(* What is on its way when the process dies is excused; what was recorded   *)
(* is in the store, or that is known to be forgotten.                       *)
LEMMA Crashes ==
  ASSUME Delivered, Crash
  PROVE  Delivered'
<1> USE DEF Delivered
<1>1. /\ UNCHANGED <<now, transmitter, event, handed>>
      /\ excused' = excused \cup UNION {thread[t].got : t \in Threads}
      /\ thread' = [t \in Threads |-> Resting]
      /\ keys' = None /\ fetchedAt' = 0 /\ countedAt' = None /\ failed' = FALSE /\ holder' = None
      /\ toAck' = {} /\ toRefuse' = {}
      /\ \/ UNCHANGED <<seen, forgot>>
         \/ seen' = [j \in Jtis |-> None] /\ forgot' = TRUE
  BY DEF Crash
<1> PICK r \in Doing : r = Resting
  BY RestingFields
<1>2. /\ r.pc = "idle" /\ r.got = {} /\ r.replayed = {} /\ r.refused = {} /\ ~r.polled
      /\ 1..Len(r.todo) = {}
  BY RestingFields, EmptySeq
<1>3. \A t \in Threads : thread'[t] = r
  BY <1>1
<1>4. UNCHANGED <<now, published, since, retired, event, handed>>
  BY <1>1 DEF transmitter
<1>5. ASSUME NEW j
      PROVE  (Passed(j)' => Passed(j)) /\ (Answered(j)' <=> Answered(j))
  <2>1. Passed(j)' <=> handed[j] > 0
    BY <1>2, <1>3, <1>4 DEF Passed
  <2>2. j \in excused' <=> j \in excused \/ \E t \in Threads : j \in thread[t].got
    BY <1>1
  <2> QED
    BY <2>1, <2>2 DEF Answered, Passed
<1>6. SsfTyped'
  <2>1. UNION {thread[t].got : t \in Threads} \subseteq Jtis
    BY DEF SsfTyped, Doing
  <2>2. {toAck', toRefuse', excused'} \subseteq SUBSET Jtis
    BY <1>1, <2>1 DEF SsfTyped
  <2>3. seen' \in [Jtis -> Dates] /\ forgot' \in BOOLEAN
    BY <1>1 DEF SsfTyped, Dates
  <2>4. thread' \in [Threads -> Doing]
    BY <1>1
  <2> QED
    BY <1>1, <1>4, <2>2, <2>3, <2>4 DEF SsfTyped, Dates
<1>7. Rotated' /\ Locked' /\ Dated' /\ KeysAreCurrent'
  BY <1>1, <1>2, <1>3, <1>4 DEF Rotated, Locked, Dated, KeysAreCurrent, At
<1>8. Recorded'
  <2>1. ASSUME NEW j \in Jtis, ~forgot', now < event[j].born + Window
        PROVE  /\ Passed(j)' => seen'[j] # None /\ event[j].born + Window <= seen'[j]
               /\ handed[j] <= 1
    <3>1. ~forgot /\ seen' = seen
      BY <1>1, <2>1
    <3> QED
      BY <1>5, <2>1, <3>1 DEF Recorded
  <2>2. \A j \in Jtis : event[j].state = "unborn" => ~Answered(j)'
    BY <1>5 DEF Recorded
  <2> QED
    BY <1>2, <1>3, <1>4, <2>1, <2>2 DEF Recorded
<1>9. Accounted'
  <2>1. \A j \in Jtis : seen'[j] # None => seen[j] # None
    BY <1>1
  <2>2. \A j \in Jtis : event[j].state = "gone" \/ seen'[j] # None => Answered(j)'
    BY <1>5, <2>1 DEF Accounted
  <2> QED
    BY <1>1, <1>2, <1>3, <1>4, <2>2 DEF Accounted
<1> QED
  BY <1>6, <1>7, <1>8, <1>9

(* Time passes while nobody is at the store and every fetch may take longer.*)
LEMMA Ticks ==
  ASSUME Delivered, Tick
  PROVE  Delivered'
<1> USE DEF Delivered
<1>1. /\ now' = now + 1 /\ \A t \in Threads : Waiting(t)
      /\ UNCHANGED <<published, since, retired, event, keys, fetchedAt, countedAt, failed, holder>>
      /\ UNCHANGED <<seen, thread, toAck, toRefuse, handed, excused, crashes, forgot>>
  BY DEF Tick, transmitter, cache, app, death
<1>2. now \in Nat /\ now' \in Nat
  BY <1>1 DEF SsfTyped
<1>3. SsfTyped'
  BY <1>1, <1>2 DEF SsfTyped
<1>4. Rotated'
  <2>1. ASSUME NEW n \in Nat, n <= now
        PROVE  n <= now'
    BY <1>1, <1>2, <2>1
  <2>2. ASSUME NEW k \in Keys
        PROVE  since[k] <= now' /\ (retired[k] # None => retired[k] <= now')
    BY <2>1 DEF Rotated, SsfTyped, Dates
  <2>3. \A j \in Jtis : event[j].state # "unborn" => event[j].born <= now'
    BY <2>1 DEF Rotated, SsfTyped
  <2> QED
    BY <1>1, <2>2, <2>3 DEF Rotated
<1>5. ASSUME NEW t \in Threads
      PROVE  /\ thread[t].pc # "store"
             /\ thread[t].pc \in {"fill", "refetch"} => now < thread[t].began + MaxFlight
  BY <1>1 DEF Waiting, OnTheWire, Judging, At
<1>6. Locked'
  <2>1. ASSUME NEW t \in Threads, thread[t].pc \in {"fill", "refetch"}
        PROVE  thread[t].began <= now' /\ now' <= thread[t].began + MaxFlight
    <3>1. thread[t].began \in Nat /\ MaxFlight \in Nat /\ thread[t].began <= now
      BY <2>1, Fetching, Constants
    <3> QED
      BY <1>1, <1>2, <1>5, <2>1, <3>1
  <2> QED
    BY <1>1, <1>5, <2>1 DEF Locked, Set
<1>7. Dated'
  <2>1. keys # None => fetchedAt <= now'
    BY <1>1, <1>2 DEF Dated, SsfTyped
  <2>2. countedAt # None => countedAt <= now'
    BY <1>1, <1>2 DEF Dated, SsfTyped, Dates
  <2> QED
    BY <1>1, <2>1, <2>2 DEF Dated
<1>8. KeysAreCurrent'
  BY <1>1, <1>5 DEF KeysAreCurrent, At
<1>9. Recorded'
  <2>1. ASSUME NEW j \in Jtis, now' < event[j].born + Window
        PROVE  now < event[j].born + Window
    <3>1. event[j].born \in Nat /\ Window \in Nat
      BY Constants DEF SsfTyped
    <3> QED
      BY <1>1, <1>2, <2>1, <3>1
  <2> QED
    BY <1>1, <2>1 DEF Recorded, Answered, Passed
<1>10. Accounted'
  BY <1>1 DEF Accounted, Answered, Passed
<1> QED
  BY <1>3, <1>4, <1>6, <1>7, <1>8, <1>9, <1>10

LEMMA Beginning ==
  ASSUME SsfInit
  PROVE  Delivered
<1> USE DEF SsfInit
<1> PICK r \in Doing : r = Resting
  BY RestingFields
<1>1. /\ r.pc = "idle" /\ r.got = {} /\ r.replayed = {} /\ r.refused = {} /\ ~r.polled
      /\ 1..Len(r.todo) = {}
  BY RestingFields, EmptySeq
<1>2. \A t \in Threads : thread[t] = r
  OBVIOUS
<1> PICK k \in Keys : published = {k}
  BY SsfAssumption
<1>3. SsfTyped
  <2>1. event \in [Jtis -> [state : {"unborn", "offered", "gone"}, key : Keys \cup {None}, born : Nat]]
    OBVIOUS
  <2>2. seen \in [Jtis -> Dates] /\ retired \in [Keys -> Dates] /\ since \in [Keys -> Nat]
        /\ countedAt \in Dates /\ handed \in [Jtis -> Nat]
    BY DEF Dates
  <2>3. thread \in [Threads -> Doing]
    OBVIOUS
  <2> QED
    BY <2>1, <2>2, <2>3 DEF SsfTyped
<1>4. Rotated
  BY DEF Rotated
<1>5. Locked /\ Dated /\ KeysAreCurrent
  BY <1>1, <1>2 DEF Locked, Dated, KeysAreCurrent, At
<1>6. \A j \in Jtis : event[j].state = "unborn" /\ ~Passed(j) /\ ~Answered(j) /\ handed[j] = 0
  BY <1>1, <1>2 DEF Passed, Answered
<1>7. Recorded /\ Accounted
  BY <1>1, <1>2, <1>6 DEF Recorded, Accounted
<1> QED
  BY <1>3, <1>4, <1>5, <1>7 DEF Delivered

(* Every step of the receiver, and of what is around it, keeps Delivered.   *)
THEOREM SsfInductive == SsfSpec => []Delivered
<1>1. SsfInit => Delivered
  BY Beginning
<1>2. Delivered /\ [SsfNext]_ssfVars => Delivered'
  <2> SUFFICES ASSUME Delivered, [SsfNext]_ssfVars
               PROVE  Delivered'
    OBVIOUS
  <2>1. ASSUME NEW t \in Threads,
               \/ Poll(t) \/ PollFails(t) \/ Push(t) \/ Finish(t)
               \/ KeyForKid(t) \/ FillLands(t) \/ FillFails(t)
               \/ RefetchLands(t) \/ RefetchFails(t) \/ CheckAndRecord(t) \/ StoreFails(t)
        PROVE  Delivered'
    BY <2>1, Polls, PollFailures, Pushes, Endings, KeySteps, Fillings, Failures, Refetchings,
       Recordings, StoreFailures
  <2>2. ASSUME NEW j \in Jtis, Emit(j)
        PROVE  Delivered'
    BY <2>2, Emissions
  <2>3. ASSUME NEW k \in Keys, Rotate(k)
        PROVE  Delivered'
    BY <2>3, Rotations
  <2>4. CASE UNCHANGED ssfVars
    BY <2>4 DEF ssfVars, Delivered, SsfTyped, Rotated, Locked, Dated, KeysAreCurrent, Recorded,
                Accounted, Answered, Passed, At, Set
  <2> QED
    BY <2>1, <2>2, <2>3, <2>4, Crashes, Ticks DEF SsfNext
<1> QED
  BY <1>1, <1>2, PTL DEF SsfSpec

(* KeysAreCurrent for every set of keys, threads and bounds.                *)
THEOREM OnlyCurrentKeys == SsfSpec => []KeysAreCurrent
<1>1. Delivered => KeysAreCurrent
  BY DEF Delivered
<1> QED
  BY <1>1, SsfInductive, PTL

(* EachEventOnce.                                                           *)
THEOREM GivenOnce == SsfSpec => []EachEventOnce
<1>1. Delivered => EachEventOnce
  BY DEF Delivered, Recorded, EachEventOnce
<1> QED
  BY <1>1, SsfInductive, PTL

(* NoEventIsLost.                                                           *)
THEOREM NoneIsLost == SsfSpec => []NoEventIsLost
<1>1. Delivered => NoEventIsLost
  BY DEF Delivered, Accounted, Answered, Passed, NoEventIsLost
<1> QED
  BY <1>1, SsfInductive, PTL
================================================================================
