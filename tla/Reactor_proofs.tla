---------------------------- MODULE Reactor_proofs ----------------------------
(***************************************************************************)
(* Proofs about Reactor: an event is handed over when it first arrives     *)
(* fresh, and a second time only two whole windows later; what is          *)
(* published and what becomes of the event is what its handlers said.      *)
(* Whatever the broker delivers, whatever the windows, the clock's grain   *)
(* and the number of events.                                               *)
(***************************************************************************)
EXTENDS Reactor, SequenceTheorems, TLAPS

(* The clock's reading in seconds is a natural number ...                   *)
LEMMA SecondsIsNat == ASSUME NEW t \in Nat PROVE Seconds(t) \in Nat
  BY ReactorAssumption DEF Seconds

(* ... that does not decrease.                                              *)
LEMMA SecondsGrow == ASSUME NEW t \in Nat PROVE Seconds(t + 1) >= Seconds(t)
  BY ReactorAssumption DEF Seconds

(* Whoever was handled less than two windows ago is still remembered. The   *)
(* nonce set may hold more: an entry is dropped only by a later claim.      *)
Remembered ==
  /\ clock \in Nat
  /\ handled \in [Nonces -> Nat \cup {None}]
  /\ at \in {"setup", "idle", "handling", "answered", "stopped"}
  /\ \A n \in Nonces :
       at # "stopped" /\ handled[n] # None /\ Seconds(clock) < handled[n] + Lives
         => [nonce |-> n, until |-> handled[n] + Lives] \in seen

LEMMA InitRemembered == Init => Remembered
  BY ReactorAssumption DEF Init, Remembered

(* A claim forgets no entry that is still good.                             *)
LEMMA ClaimKeeps ==
  ASSUME Remembered, NEW n \in Nonces, Claim(n), NEW k \in Nonces,
         handled[k] # None, Seconds(clock) < handled[k] + Lives
  PROVE  [nonce |-> k, until |-> handled[k] + Lives] \in seen'
<1>1. [nonce |-> k, until |-> handled[k] + Lives] \in seen
  BY DEF Remembered, Claim, Arrives
<1>2. [nonce |-> k, until |-> handled[k] + Lives] \in Unexpired
  BY <1>1 DEF Unexpired
<1> QED BY <1>2 DEF Claim

(* An event that is accepted was not handled within the last two windows.   *)
LEMMA AcceptedAnew ==
  ASSUME Remembered, NEW n \in Nonces, Accept(n), handled[n] # None
  PROVE  Seconds(clock) >= handled[n] + Lives
<1>1. Seconds(clock) \in Nat /\ handled[n] \in Nat /\ Lives \in Nat
  BY SecondsIsNat, ReactorAssumption DEF Remembered, Lives
<1>2. SUFFICES ASSUME Seconds(clock) < handled[n] + Lives PROVE FALSE
  BY <1>1
<1>3. [nonce |-> n, until |-> handled[n] + Lives] \in Unexpired
  BY <1>2 DEF Remembered, Accept, Claim, Arrives, Unexpired
<1> QED BY <1>3 DEF Accept, Known

LEMMA NextRemembered == Remembered /\ [Next]_vars => Remembered'
<1> SUFFICES ASSUME Remembered, [Next]_vars PROVE Remembered'
  OBVIOUS
<1> USE DEF Remembered
<1>1. ASSUME NEW name \in Names, On(name) PROVE Remembered'
  BY <1>1 DEF On, serverVars, history, Seconds
<1>2. CASE SetFallback
  BY <1>2 DEF SetFallback, serverVars, history, Seconds
<1>3. CASE Serve
  BY <1>3 DEF Serve, history, Seconds
<1>4. ASSUME NEW n \in Nonces, NEW t \in Templates[n], Dispatch(n, t) PROVE Remembered'
  BY <1>4 DEF Dispatch, history, Seconds
<1>5. ASSUME NEW n \in Nonces, NEW wire \in Wire, Refused(n, wire) PROVE Remembered'
  BY <1>5 DEF Refused, vars, serverVars, history, Seconds
<1>6. ASSUME NEW n \in Nonces, Dropped(n) PROVE Remembered'
  BY <1>6, ClaimKeeps DEF Dropped, serverVars, Seconds
<1>7. ASSUME NEW n \in Nonces, Accept(n) PROVE Remembered'
  <2>1. clock' = clock /\ Seconds(clock') = Seconds(clock) /\ Seconds(clock) \in Nat
    BY <1>7, SecondsIsNat DEF Accept
  <2>2. at' = "handling"
    BY <1>7 DEF Accept
  <2>3. handled' = [handled EXCEPT ![n] = Seconds(clock)]
    BY <1>7 DEF Accept
  <2>4. [nonce |-> n, until |-> Seconds(clock) + Lives] \in seen'
    BY <1>7 DEF Accept, Claim
  <2>5. ASSUME NEW k \in Nonces, handled'[k] # None, Seconds(clock') < handled'[k] + Lives'
        PROVE  [nonce |-> k, until |-> handled'[k] + Lives'] \in seen'
    <3>1. CASE k = n
      BY <3>1, <2>3, <2>4 DEF Lives
    <3>2. CASE k # n
      BY <3>2, <2>1, <2>3, <2>5, <1>7, ClaimKeeps DEF Lives, Accept
    <3> QED BY <3>1, <3>2
  <2> QED BY <2>1, <2>2, <2>3, <2>5
<1>8. ASSUME NEW n \in Nonces, TakeReply(n) PROVE Remembered'
  BY <1>8 DEF TakeReply, history, Seconds
<1>9. ASSUME NEW n \in Nonces, TimeOut(n) PROVE Remembered'
  BY <1>9 DEF TimeOut, history, Seconds
<1>10. ASSUME NEW answer \in Answers, Answer(answer) PROVE Remembered'
  BY <1>10 DEF Answer, Seconds
<1>11. CASE Abstain \/ Abandon \/ Publish
  BY <1>11 DEF Abstain, Abandon, Publish, Release, history, Seconds
<1>12. CASE Stop
  BY <1>12 DEF Stop, history, Seconds
<1>13. CASE Tick
  <2>1. Seconds(clock) \in Nat /\ Seconds(clock') \in Nat /\ Seconds(clock') >= Seconds(clock)
    BY <1>13, SecondsIsNat, SecondsGrow DEF Tick
  <2>2. clock' \in Nat /\ at' = at /\ handled' = handled /\ seen' = seen
    BY <1>13 DEF Tick, history
  <2>3. Lives \in Nat /\ Lives' = Lives
    BY ReactorAssumption DEF Lives
  <2> QED BY <2>1, <2>2, <2>3
<1>14. CASE UNCHANGED vars
  BY <1>14 DEF vars, serverVars, history, Seconds
<1> QED
  BY <1>1, <1>2, <1>3, <1>4, <1>5, <1>6, <1>7, <1>8, <1>9, <1>10, <1>11, <1>12, <1>13, <1>14
     DEF Next

(* The inductive invariant holds in every reachable state.                  *)
THEOREM AlwaysRemembered == Spec => []Remembered
  BY InitRemembered, NextRemembered, PTL DEF Spec

(* A step that hands an event over again does so two windows later.         *)
LEMMA StepOutwaits ==
  ASSUME Remembered, [Next]_vars, NEW n \in Nonces, handled[n] # None, handled'[n] # handled[n]
  PROVE  handled'[n] - handled[n] >= 2 * Skew
<1>1. \E k \in Nonces : Accept(k)
  BY DEF Next, On, SetFallback, Serve, Dispatch, Refused, Dropped, Answer, Abstain, Abandon,
         Publish, Release, Stop, TakeReply, TimeOut, Tick, vars, history
<1>2. PICK k \in Nonces : Accept(k)
  BY <1>1
<1>3. k = n /\ handled'[n] = Seconds(clock)
  BY <1>2 DEF Accept, Remembered
<1>4. Seconds(clock) >= handled[n] + Lives
  BY <1>2, <1>3, AcceptedAnew
<1>5. Seconds(clock) \in Nat /\ handled[n] \in Nat /\ Skew \in Nat
  BY SecondsIsNat, ReactorAssumption DEF Remembered
<1> QED BY <1>3, <1>4, <1>5 DEF Lives

(* A replayed event reaches a handler again only when two whole freshness   *)
(* windows have passed since it last did.                                   *)
THEOREM Outwaited == Spec => ReplaysAreOutwaited
<1>1. Remembered /\ [Next]_vars =>
        [\A n \in Nonces : handled[n] # None /\ handled'[n] # handled[n]
                             => handled'[n] - handled[n] >= 2 * Skew]_vars
  BY StepOutwaits
<1> QED BY <1>1, AlwaysRemembered, PTL DEF Spec, ReplaysAreOutwaited

-----------------------------------------------------------------------------
(* What the variables hold, and the nonces remembered are of messages that  *)
(* have arrived.                                                            *)
Sent == [event : STRING, ours : BOOLEAN, issued : Int, timeout : Nat, sent : Nat]

Reply == [answer : Answers, took : Int]

Hold == [nonce : Nonces \cup {None}, received : Nat, answer : Answers \cup {None}]

Typed ==
  /\ clock \in 0..MaxTime
  /\ at \in {"setup", "idle", "handling", "answered", "stopped"}
  /\ bindings \in Seq(Registry) /\ IsInjective(bindings)
  /\ fallback \in BOOLEAN
  /\ seen \subseteq [nonce : Nonces, until : 0..(MaxTime + Lives)]
  /\ held \in Hold
  /\ policy \in {"fail_open", "fail_closed"}
  /\ dispatched \in [Nonces -> Sent \cup {None}]
  /\ replies \in [Nonces -> Reply \cup {None}]
  /\ outcome \in [Nonces -> {"none", "waiting", "allowed", "denied", "step-up"}]
  /\ presented \subseteq Nonces
  /\ said \in [Nonces -> SUBSET Answers]

Claimed == \A e \in seen : e.nonce \in presented

(* The event in the handler's hands was dispatched, and its answer is one a *)
(* handler gave of it.                                                      *)
InHand ==
  /\ at \in {"handling", "answered"} <=> held.nonce # None
  /\ at = "answered" <=> held.answer # None
  /\ held.nonce # None => dispatched[held.nonce] # None /\ held.received <= clock
  /\ at = "answered" => held.answer \in said[held.nonce]

(* Nothing is dispatched before the registration, whose policy is that of   *)
(* the events bound, and nothing is bound after it.                         *)
Registered ==
  IF at = "setup" THEN \A n \in Nonces : dispatched[n] = None /\ outcome[n] = "none"
  ELSE policy = DefaultFailurePolicy(bindings)

Answered(n) ==
  /\ dispatched[n] = None => replies[n] = None
  /\ replies[n] # None =>
       /\ replies[n].answer \in said[n]
       /\ replies[n].answer.kind = "mutate" => replies[n].answer.patch # "none"
       /\ dispatched[n].timeout > 0 => replies[n].took < dispatched[n].timeout + Second
  /\ outcome[n] \in {"allowed", "step-up"}
       /\ dispatched[n].event \in ToSet(bindings) \ OpenByDefault
       => \E answer \in said[n] : answer.kind \in {"allow", "mutate"}
  /\ outcome[n] = "denied" =>
       policy = "fail_closed" \/ \E answer \in said[n] : answer.kind = "deny"

IInv == Typed /\ Claimed /\ InHand /\ Registered /\ \A n \in Nonces : Answered(n)

LEMMA Constants ==
  /\ Second \in Nat \ {0} /\ Skew \in Nat \ {0} /\ MaxTime \in Nat /\ Lives \in Nat
  /\ Answers \subseteq Decision /\ None \notin Nat /\ None \notin Nonces /\ None \notin Answers
BY ReactorAssumption DEF Lives

(* The clock's seconds do not run ahead of its ticks ...                    *)
LEMMA SecondsBounded == ASSUME NEW t \in 0..MaxTime PROVE Seconds(t) \in 0..MaxTime
  BY ReactorAssumption DEF Seconds

(* ... and whole seconds mistake a delay by less than one.                  *)
LEMMA SecondsMeasure ==
  ASSUME NEW t \in Nat, NEW u \in Nat
  PROVE  t - u < (Seconds(t) - Seconds(u)) * Second + Second
<1>1. Second \in Nat \ {0}
  BY Constants
<1>2. PICK s : s = t \div Second
  OBVIOUS
<1>3. PICK r : r = u \div Second
  OBVIOUS
<1>4. s \in Nat /\ r \in Nat
  BY <1>1, <1>2, <1>3
<1>5. t < s * Second + Second
  BY <1>1, <1>2
<1>6. r * Second <= u
  BY <1>1, <1>3
<1>7. (s - r) * Second = s * Second - r * Second
  BY <1>1, <1>4
<1>8. s * Second \in Int /\ r * Second \in Int /\ (s - r) * Second \in Int
  BY <1>1, <1>4
<1>9. t - u < (s - r) * Second + Second
  BY <1>1, <1>5, <1>6, <1>7, <1>8
<1> QED
  BY <1>2, <1>3, <1>9 DEF Seconds

(* A new name makes the table one longer, and no name is in it twice.       *)
LEMMA BoundOnce ==
  ASSUME NEW b \in Seq(Registry), IsInjective(b), NEW name \in Registry, name \notin ToSet(b)
  PROVE  Append(b, name) \in Seq(Registry) /\ IsInjective(Append(b, name))
<1>1. /\ Append(b, name) \in Seq(Registry)
      /\ Len(Append(b, name)) = Len(b) + 1
      /\ \A i \in 1..Len(b) : Append(b, name)[i] = b[i]
      /\ Append(b, name)[Len(b) + 1] = name
  BY AppendProperties
<1>2. Len(b) \in Nat /\ DOMAIN b = 1..Len(b)
  BY LenProperties
<1>3. DOMAIN Append(b, name) = 1..(Len(b) + 1)
  BY <1>1, LenProperties
<1>4. \A i \in 1..Len(b) : b[i] # name
  BY <1>2 DEF ToSet
<1>5. ASSUME NEW i \in 1..(Len(b) + 1), NEW j \in 1..(Len(b) + 1),
             Append(b, name)[i] = Append(b, name)[j]
      PROVE  i = j
  <2>1. CASE i \in 1..Len(b) /\ j \in 1..Len(b)
    BY <1>1, <1>2, <1>5, <2>1 DEF IsInjective
  <2>2. CASE i = Len(b) + 1 /\ j = Len(b) + 1
    BY <2>2
  <2>3. CASE i = Len(b) + 1 /\ j \in 1..Len(b)
    BY <1>1, <1>4, <1>5, <2>3
  <2>4. CASE i \in 1..Len(b) /\ j = Len(b) + 1
    BY <1>1, <1>4, <1>5, <2>4
  <2> QED
    BY <1>2, <2>1, <2>2, <2>3, <2>4
<1> QED
  BY <1>1, <1>3, <1>5 DEF IsInjective

(* The server's verdict is a handler's answer, or the policy's.             *)
LEMMA Resolved ==
  ASSUME policy \in {"fail_open", "fail_closed"}, NEW event, NEW answer \in Decision
  PROVE  /\ Resolve(event, answer) \in {"allowed", "denied", "step-up"}
         /\ Resolve(event, answer) \in {"allowed", "step-up"}
              => policy = "fail_open" \/ answer.kind \in {"allow", "mutate"}
         /\ Resolve(event, answer) = "denied" => policy = "fail_closed" \/ answer.kind = "deny"
<1>1. answer.kind \in {"allow", "deny", "mutate"}
  BY DEF Decision
<1>2. CASE Refuses(event, answer)
  BY <1>2 DEF Resolve, ByPolicy
<1>3. CASE ~ Refuses(event, answer)
  BY <1>1, <1>3 DEF Resolve
<1> QED
  BY <1>2, <1>3

LEMMA InitIInv == Init => IInv
<1> SUFFICES ASSUME Init PROVE IInv
  OBVIOUS
<1>1. held = [nonce |-> None, received |-> 0, answer |-> None] /\ held \in Hold
  BY DEF Init, Nothing, Hold
<1>2. bindings \in Seq(Registry) /\ IsInjective(bindings)
  <2>1. bindings = <<>> /\ DOMAIN bindings = {} /\ bindings \in Seq(Registry)
    BY EmptySeq, LenProperties DEF Init
  <2> QED
    BY <2>1 DEF IsInjective
<1>3. 0 \in 0..MaxTime
  BY Constants
<1>4. Typed
  BY <1>1, <1>2, <1>3 DEF Init, Typed
<1>5. Claimed /\ InHand /\ Registered /\ \A n \in Nonces : Answered(n)
  BY <1>1, Constants DEF Init, Claimed, InHand, Registered, Answered
<1> QED
  BY <1>4, <1>5 DEF IInv

-----------------------------------------------------------------------------
(* What a step leaves alone stays true.                                     *)
LEMMA AnsweredStays ==
  ASSUME NEW n \in Nonces, Answered(n),
         UNCHANGED <<bindings, policy, dispatched, replies, outcome, said>>
  PROVE  Answered(n)'
BY DEF Answered

LEMMA InHandStays ==
  ASSUME IInv, clock' \in Nat, clock' >= clock, UNCHANGED <<at, held, dispatched, said>>
  PROVE  InHand'
<1>1. clock \in Nat /\ held.received \in Nat
  BY Constants DEF IInv, Typed, Hold
<1> QED
  BY <1>1 DEF IInv, InHand

LEMMA RegisteredStays ==
  ASSUME Registered, UNCHANGED <<bindings, policy, dispatched, outcome>>, at = "setup" <=> at' = "setup"
  PROVE  Registered'
BY DEF Registered, DefaultFailurePolicy, ToSet

LEMMA OnPreserves ==
  ASSUME IInv, NEW name \in Names, On(name)
  PROVE  IInv'
<1>1. /\ at = "setup" /\ UNCHANGED <<clock, at, fallback, seen, held, policy, dispatched>>
      /\ UNCHANGED <<replies, outcome, presented, said>>
      /\ \/ bindings' = bindings
         \/ /\ name \in Registry /\ name \notin ToSet(bindings)
            /\ bindings' = Append(bindings, name)
  BY DEF On, serverVars, history
<1>2. bindings' \in Seq(Registry) /\ IsInjective(bindings')
  BY <1>1, BoundOnce DEF IInv, Typed
<1>3. Typed' /\ Claimed'
  BY <1>1, <1>2 DEF IInv, Typed, Claimed, Lives
<1>4. InHand' /\ Registered'
  BY <1>1 DEF IInv, InHand, Registered
<1>5. \A n \in Nonces : Answered(n)'
  BY <1>1 DEF IInv, Registered, Answered
<1> QED
  BY <1>3, <1>4, <1>5 DEF IInv

LEMMA ServePreserves ==
  ASSUME IInv, Serve
  PROVE  IInv'
<1>1. /\ at = "setup" /\ at' = "idle" /\ policy' = DefaultFailurePolicy(bindings)
      /\ UNCHANGED <<clock, bindings, fallback, seen, held, dispatched, replies, outcome>>
      /\ UNCHANGED <<presented, said>>
  BY DEF Serve, history
<1>2. Typed' /\ Claimed'
  BY <1>1 DEF IInv, Typed, Claimed, Lives, DefaultFailurePolicy
<1>3. InHand'
  BY <1>1 DEF IInv, InHand
<1>4. Registered'
  BY <1>1 DEF Registered, DefaultFailurePolicy, ToSet
<1>5. \A n \in Nonces : Answered(n)'
  BY <1>1 DEF IInv, Registered, Answered
<1> QED
  BY <1>2, <1>3, <1>4, <1>5 DEF IInv

(* An event that is dispatched had no reply and no outcome.                 *)
LEMMA DispatchPreserves ==
  ASSUME IInv, NEW n \in Nonces, NEW t \in Templates[n], Dispatch(n, t)
  PROVE  IInv'
<1>1. /\ at # "setup" /\ dispatched[n] = None
      /\ UNCHANGED <<clock, at, bindings, fallback, seen, held, policy, replies>>
      /\ UNCHANGED <<presented, said>>
      /\ outcome' = [outcome EXCEPT ![n] = "waiting"]
  BY DEF Dispatch, history
<1>2. PICK m : m = [event |-> t.event, ours |-> t.ours, issued |-> Seconds(clock) + t.ahead,
                    timeout |-> t.timeout, sent |-> clock]
  OBVIOUS
<1>3. dispatched' = [dispatched EXCEPT ![n] = m]
  BY <1>2 DEF Dispatch
<1>4. m \in Sent
  <2>1. t \in Template
    BY ReactorAssumption
  <2>2. Seconds(clock) \in Int /\ clock \in Nat
    BY SecondsBounded, Constants DEF IInv, Typed
  <2> QED
    BY <1>2, <2>1, <2>2 DEF Template, Sent
<1>5. Typed' /\ Claimed'
  BY <1>1, <1>3, <1>4 DEF IInv, Typed, Claimed, Lives
<1>6. \A k \in Nonces \ {n} : dispatched'[k] = dispatched[k] /\ outcome'[k] = outcome[k]
  BY <1>1, <1>3 DEF IInv, Typed
<1>7. InHand'
  <2>1. held.nonce # None => held.nonce \in Nonces \ {n}
    BY <1>1 DEF IInv, Typed, InHand, Hold
  <2> QED
    BY <1>1, <1>6, <2>1 DEF IInv, InHand
<1>8. Registered'
  BY <1>1 DEF IInv, Registered, DefaultFailurePolicy, ToSet
<1>9. Answered(n)'
  <2>1. outcome'[n] = "waiting" /\ replies'[n] = None
    BY <1>1 DEF IInv, Typed, Answered
  <2> QED
    BY <2>1 DEF Answered
<1>10. ASSUME NEW k \in Nonces \ {n} PROVE Answered(k)'
  BY <1>1, <1>6 DEF IInv, Answered
<1> QED
  BY <1>5, <1>7, <1>8, <1>9, <1>10 DEF IInv

(* A claim forgets the expired, and remembers a message that has arrived.   *)
LEMMA ClaimTyped ==
  ASSUME IInv, NEW n \in Nonces, Claim(n)
  PROVE  /\ seen' \subseteq [nonce : Nonces, until : 0..(MaxTime + Lives)]
         /\ presented' \subseteq Nonces
         /\ Claimed'
<1>1. Unexpired \subseteq seen
  BY DEF Unexpired
<1>2. /\ presented' = presented \cup {n}
      /\ seen' \subseteq Unexpired \cup {[nonce |-> n, until |-> Seconds(clock) + Lives]}
  BY DEF Claim
<1>3. Seconds(clock) + Lives \in 0..(MaxTime + Lives)
  BY SecondsBounded, Constants DEF IInv, Typed
<1> QED
  BY <1>1, <1>2, <1>3 DEF IInv, Typed, Claimed

LEMMA DroppedPreserves ==
  ASSUME IInv, NEW n \in Nonces, Dropped(n)
  PROVE  IInv'
<1>1. /\ UNCHANGED <<clock, at, bindings, fallback, held, policy, dispatched, replies>>
      /\ UNCHANGED <<outcome, said>>
  BY DEF Dropped, serverVars
<1>2. Typed' /\ Claimed'
  BY <1>1, ClaimTyped DEF Dropped, IInv, Typed, Lives
<1>3. InHand' /\ Registered' /\ \A k \in Nonces : Answered(k)'
  <2>1. clock' \in Nat /\ clock' >= clock
    BY <1>1, Constants DEF IInv, Typed
  <2> QED
    BY <1>1, <2>1, InHandStays, RegisteredStays, AnsweredStays DEF IInv
<1> QED
  BY <1>2, <1>3 DEF IInv

LEMMA AcceptPreserves ==
  ASSUME IInv, NEW n \in Nonces, Accept(n)
  PROVE  IInv'
<1>1. /\ UNCHANGED <<clock, bindings, fallback, policy, dispatched, replies, outcome, said>>
      /\ held' = [nonce |-> n, received |-> clock, answer |-> None]
      /\ at = "idle" /\ at' = "handling" /\ dispatched[n] # None
  BY DEF Accept, Claim, Arrives, serverVars
<1>2. clock \in Nat
  BY Constants DEF IInv, Typed
<1>3. held' \in Hold /\ held'.nonce = n /\ held'.received = clock /\ held'.answer = None
  BY <1>1, <1>2 DEF Hold
<1>4. Typed' /\ Claimed'
  BY <1>1, <1>3, ClaimTyped DEF Accept, IInv, Typed, Lives
<1>5. InHand'
  BY <1>1, <1>2, <1>3, Constants DEF IInv, InHand
<1>6. Registered' /\ \A k \in Nonces : Answered(k)'
  BY <1>1, RegisteredStays, AnsweredStays DEF IInv
<1> QED
  BY <1>4, <1>5, <1>6 DEF IInv

LEMMA AnswerPreserves ==
  ASSUME IInv, NEW answer \in Answers, Answer(answer)
  PROVE  IInv'
<1>1. /\ at = "handling" /\ at' = "answered"
      /\ UNCHANGED <<clock, bindings, fallback, seen, policy, dispatched, replies, outcome>>
      /\ presented' = presented
      /\ said' = [said EXCEPT ![held.nonce] = @ \cup {answer}]
  BY DEF Answer, serverVars
<1>2. PICK h : h = [held EXCEPT !.answer = answer]
  OBVIOUS
<1>3. /\ h \in Hold /\ held' = h /\ h.answer = answer
      /\ h.nonce = held.nonce /\ h.received = held.received
  BY <1>2 DEF Answer, IInv, Typed, Hold
<1>4. held.nonce \in Nonces /\ held.nonce # None
  BY <1>1 DEF IInv, Typed, InHand, Hold
<1>5. /\ said' \in [Nonces -> SUBSET Answers] /\ answer \in said'[held.nonce]
      /\ \A k \in Nonces : said[k] \subseteq said'[k]
  BY <1>1, <1>4 DEF IInv, Typed
<1>6. Typed' /\ Claimed'
  BY <1>1, <1>3, <1>5 DEF IInv, Typed, Claimed, Lives
<1>7. InHand'
  BY <1>1, <1>3, <1>4, <1>5, Constants DEF IInv, InHand
<1>8. Registered'
  BY <1>1, RegisteredStays DEF IInv
<1>9. ASSUME NEW k \in Nonces PROVE Answered(k)'
  BY <1>1, <1>5 DEF IInv, Answered
<1> QED
  BY <1>6, <1>7, <1>8, <1>9 DEF IInv

(* The runtime lets go of an event, whether it has published or not.        *)
LEMMA ReleaseFrees ==
  ASSUME IInv, at \in {"handling", "answered"}, Release, replies' \in [Nonces -> Reply \cup {None}]
  PROVE  Typed' /\ Claimed' /\ InHand' /\ Registered'
<1>1. /\ at' = "idle" /\ held' = [nonce |-> None, received |-> 0, answer |-> None]
      /\ UNCHANGED <<clock, bindings, fallback, seen, policy, dispatched, outcome>>
      /\ UNCHANGED <<presented, said>>
  BY DEF Release, Nothing, history
<1>2. held' \in Hold /\ held'.nonce = None /\ held'.answer = None
  BY <1>1 DEF Hold
<1>3. Typed' /\ Claimed'
  BY <1>1, <1>2 DEF IInv, Typed, Claimed, Lives
<1>4. InHand' /\ Registered'
  BY <1>1, <1>2, RegisteredStays DEF IInv, InHand
<1> QED
  BY <1>3, <1>4

LEMMA SilentPreserves ==
  ASSUME IInv, Abstain \/ Abandon
  PROVE  IInv'
<1>1. at \in {"handling", "answered"} /\ Release /\ replies' = replies
  BY DEF Abstain, Abandon
<1>2. Typed' /\ Claimed' /\ InHand' /\ Registered'
  BY <1>1, ReleaseFrees DEF IInv, Typed
<1>3. \A k \in Nonces : Answered(k)'
  BY <1>1, AnsweredStays DEF Release, history, IInv
<1> QED
  BY <1>2, <1>3 DEF IInv

(* The reply is what the handler said, and the window is read in whole      *)
(* seconds, so the reply is late by less than one.                          *)
LEMMA PublishPreserves ==
  ASSUME IInv, Publish
  PROVE  IInv'
<1>1. PICK n \in Nonces : n = held.nonce
  BY DEF Publish, IInv, Typed, InHand, Hold
<1>2. /\ at = "answered" /\ ~ Late /\ Buildable /\ Release
      /\ UNCHANGED <<bindings, policy, dispatched, outcome, said>>
  BY DEF Publish, Release, history
<1>3. PICK r : r = [answer |-> held.answer, took |-> clock - held.received]
  OBVIOUS
<1>4. replies' = [replies EXCEPT ![n] = r]
  BY <1>1, <1>3 DEF Publish
<1>5. /\ n \in Nonces /\ dispatched[n] # None /\ dispatched[n] \in Sent
      /\ held.answer \in Answers /\ held.answer \in said[n]
      /\ held.received \in Nat /\ clock \in Nat
  BY <1>1, <1>2, Constants DEF IInv, Typed, InHand, Hold
<1>6. r \in Reply /\ r.answer = held.answer /\ r.took = clock - held.received
  BY <1>3, <1>5 DEF Reply
<1>7. replies' \in [Nonces -> Reply \cup {None}] /\ replies'[n] = r
      /\ \A k \in Nonces \ {n} : replies'[k] = replies[k]
  BY <1>4, <1>5, <1>6 DEF IInv, Typed
<1>8. Typed' /\ Claimed' /\ InHand' /\ Registered'
  BY <1>2, <1>7, ReleaseFrees
<1>9. r.answer.kind = "mutate" => r.answer.patch # "none"
  BY <1>2, <1>6 DEF Buildable
<1>10. ASSUME dispatched[n].timeout > 0
      PROVE  r.took < dispatched[n].timeout + Second
  <2>1. PICK timeout \in Nat : timeout = dispatched[n].timeout
    BY <1>5 DEF Sent
  <2>2. PICK window : window = (Seconds(clock) - Seconds(held.received)) * Second
    OBVIOUS
  <2>3. window \in Int /\ Second \in Nat
    <3>1. Seconds(clock) \in Int /\ Seconds(held.received) \in Int /\ Second \in Int
      BY <1>5, SecondsIsNat, Constants
    <3> QED
      BY <2>2, <3>1, Constants
  <2>4. ~ (window > timeout)
    BY <1>1, <1>2, <1>10, <2>1, <2>2 DEF Late
  <2>5. clock - held.received < window + Second
    BY <1>5, <2>2, SecondsMeasure
  <2>6. clock - held.received < timeout + Second
    BY <1>5, <2>3, <2>4, <2>5
  <2> QED
    BY <1>6, <2>1, <2>6
<1>11. Answered(n)'
  BY <1>2, <1>5, <1>6, <1>7, <1>9, <1>10 DEF IInv, Answered
<1>12. ASSUME NEW k \in Nonces \ {n} PROVE Answered(k)'
  BY <1>2, <1>7 DEF IInv, Answered
<1> QED
  BY <1>8, <1>11, <1>12 DEF IInv

LEMMA StopPreserves ==
  ASSUME IInv, Stop
  PROVE  IInv'
<1>1. /\ at = "idle" /\ at' = "stopped" /\ seen' = {}
      /\ UNCHANGED <<clock, bindings, fallback, held, policy, dispatched, replies, outcome>>
      /\ UNCHANGED <<presented, said>>
  BY DEF Stop, serverVars, history
<1>2. Typed' /\ Claimed'
  BY <1>1 DEF IInv, Typed, Claimed
<1>3. InHand' /\ Registered' /\ \A k \in Nonces : Answered(k)'
  BY <1>1, RegisteredStays, AnsweredStays DEF IInv, InHand
<1> QED
  BY <1>2, <1>3 DEF IInv

(* Only the outcome of one event changes, and it had been dispatched.       *)
LEMMA OutcomeMoves ==
  ASSUME IInv, NEW n \in Nonces, outcome[n] = "waiting",
         NEW v \in {"allowed", "denied", "step-up"},
         outcome' = [outcome EXCEPT ![n] = v],
         v \in {"allowed", "step-up"} =>
           policy = "fail_open" \/ \E answer \in said[n] : answer.kind \in {"allow", "mutate"},
         v = "denied" => policy = "fail_closed" \/ \E answer \in said[n] : answer.kind = "deny",
         UNCHANGED <<clock, at, bindings, fallback, seen, held, policy, dispatched, replies>>,
         UNCHANGED <<presented, said>>
  PROVE  IInv'
<1>1. outcome'[n] = v /\ \A k \in Nonces \ {n} : outcome'[k] = outcome[k]
  BY DEF IInv, Typed
<1>2. Typed' /\ Claimed'
  BY DEF IInv, Typed, Claimed, Lives
<1>3. InHand'
  BY DEF IInv, InHand
<1>4. policy = DefaultFailurePolicy(bindings) /\ Registered'
  BY DEF IInv, Registered, DefaultFailurePolicy, ToSet
<1>5. policy = "fail_open" => ToSet(bindings) \subseteq OpenByDefault
  BY <1>4 DEF DefaultFailurePolicy
<1>6. Answered(n)'
  BY <1>1, <1>5 DEF IInv, Answered, ToSet
<1>7. ASSUME NEW k \in Nonces \ {n} PROVE Answered(k)'
  BY <1>1 DEF IInv, Answered, ToSet
<1> QED
  BY <1>2, <1>3, <1>4, <1>6, <1>7 DEF IInv

LEMMA TakeReplyPreserves ==
  ASSUME IInv, NEW n \in Nonces, TakeReply(n)
  PROVE  IInv'
<1>1. /\ outcome[n] = "waiting" /\ replies[n] # None
      /\ UNCHANGED <<clock, at, bindings, fallback, seen, held, policy, dispatched, replies>>
      /\ UNCHANGED <<presented, said>>
      /\ outcome' = [outcome EXCEPT ![n] = Resolve(dispatched[n].event, replies[n].answer)]
  BY DEF TakeReply, history
<1>2. PICK answer : answer = replies[n].answer
  OBVIOUS
<1>3. PICK event : event = dispatched[n].event
  OBVIOUS
<1>4. answer \in said[n] /\ answer \in Decision
  BY <1>1, <1>2, Constants DEF IInv, Typed, Answered
<1>5. PICK v : v = Resolve(event, answer)
  OBVIOUS
<1>6. /\ v \in {"allowed", "denied", "step-up"}
      /\ v \in {"allowed", "step-up"} =>
           policy = "fail_open" \/ answer.kind \in {"allow", "mutate"}
      /\ v = "denied" => policy = "fail_closed" \/ answer.kind = "deny"
  BY <1>4, <1>5, Resolved DEF IInv, Typed
<1>7. outcome' = [outcome EXCEPT ![n] = v]
  BY <1>1, <1>2, <1>3, <1>5
<1> QED
  BY <1>1, <1>4, <1>6, <1>7, OutcomeMoves

LEMMA TimeOutPreserves ==
  ASSUME IInv, NEW n \in Nonces, TimeOut(n)
  PROVE  IInv'
<1>1. /\ outcome[n] = "waiting"
      /\ UNCHANGED <<clock, at, bindings, fallback, seen, held, policy, dispatched, replies>>
      /\ UNCHANGED <<presented, said>>
      /\ outcome' = [outcome EXCEPT ![n] = ByPolicy]
  BY DEF TimeOut, history
<1>2. PICK v : v = ByPolicy
  OBVIOUS
<1>3. /\ v \in {"allowed", "denied", "step-up"}
      /\ v \in {"allowed", "step-up"} => policy = "fail_open"
      /\ v = "denied" => policy = "fail_closed"
  BY <1>2 DEF ByPolicy, IInv, Typed
<1> QED
  BY <1>1, <1>2, <1>3, OutcomeMoves

LEMMA StepIInv == IInv /\ [Next]_vars => IInv'
<1> SUFFICES ASSUME IInv, [Next]_vars PROVE IInv'
  OBVIOUS
<1>1. ASSUME UNCHANGED <<bindings, seen, held, policy, dispatched, replies, outcome>>,
             UNCHANGED <<at, presented, said>>, fallback' \in BOOLEAN,
             clock' \in 0..MaxTime, clock' >= clock
      PROVE  IInv'
  <2>1. Typed' /\ Claimed'
    BY <1>1 DEF IInv, Typed, Claimed, Lives
  <2>2. clock' \in Nat
    BY <1>1, Constants
  <2>3. InHand' /\ Registered' /\ \A k \in Nonces : Answered(k)'
    BY <1>1, <2>2, InHandStays, RegisteredStays, AnsweredStays DEF IInv
  <2> QED
    BY <2>1, <2>3 DEF IInv
<1>2. clock \in 0..MaxTime /\ clock \in Nat /\ clock >= clock /\ fallback \in BOOLEAN
  BY Constants DEF IInv, Typed
<1>3. CASE SetFallback
  BY <1>1, <1>2, <1>3 DEF SetFallback, serverVars, history
<1>4. CASE Tick
  <2>1. clock < MaxTime /\ clock' = clock + 1
    BY <1>4 DEF Tick
  <2>2. clock' \in 0..MaxTime /\ clock' >= clock
    BY <1>2, <2>1, Constants
  <2> QED
    BY <1>1, <1>2, <1>4, <2>2 DEF Tick, serverVars, history
<1>5. ASSUME NEW n \in Nonces, NEW wire \in Wire, Refused(n, wire) PROVE IInv'
  BY <1>1, <1>2, <1>5 DEF Refused, vars, serverVars, history
<1>6. CASE UNCHANGED vars
  BY <1>1, <1>2, <1>6 DEF vars, serverVars, history
<1> QED
  BY <1>3, <1>4, <1>5, <1>6, OnPreserves, ServePreserves, DispatchPreserves, DroppedPreserves,
     AcceptPreserves, AnswerPreserves, SilentPreserves, PublishPreserves, StopPreserves,
     TakeReplyPreserves, TimeOutPreserves
     DEF Next

(* The inductive invariant of the whole loop.                               *)
THEOREM Inductive == Spec => []IInv
BY InitIInv, StepIInv, PTL DEF Spec

(* End to end: an event that was bound and is closed by default passes only *)
(* when a handler let it pass, what is denied a handler or a closed         *)
(* registration denied, and what is published a handler said, in its time.  *)
THEOREM HandlersDecide == Spec => []OutcomeIsTheHandlers
<1>1. IInv => OutcomeIsTheHandlers
  <2> SUFFICES ASSUME IInv PROVE OutcomeIsTheHandlers
    OBVIOUS
  <2>1. TypeOK
    <3>1. at \in {"handling", "answered"} <=> held.nonce \in Nonces
      BY Constants DEF IInv, Typed, InHand, Hold
    <3>2. at = "answered" <=> held.answer \in Answers
      BY Constants DEF IInv, Typed, InHand, Hold
    <3>3. \A n \in Nonces : replies[n] = None \/ replies[n].answer \in said[n]
      BY DEF IInv, Answered
    <3> QED
      BY <3>1, <3>2, <3>3 DEF IInv, Typed, TypeOK
  <2>2. RepliesAreAnswers
    BY DEF IInv, Answered, RepliesAreAnswers
  <2> QED
    BY <2>1, <2>2 DEF IInv, Answered, OutcomeIsTheHandlers
<1> QED
  BY <1>1, Inductive, PTL

(* A genuine event is handed to the handler when it first arrives fresh: no *)
(* copy of it that was refused before has spent its nonce.                  *)
THEOREM FirstIsServed == Spec => FirstArrivalIsServed
<1>1. ASSUME IInv, [Next]_vars, NEW n \in Nonces, n \in presented' \ presented,
             Addressed(dispatched[n])
      PROVE  held'.nonce = n
  <2>1. PICK k \in Nonces : Dropped(k) \/ Accept(k)
    BY <1>1 DEF Next, On, SetFallback, Serve, Dispatch, Refused, Answer, Abstain, Abandon,
         Publish, Release, Stop, TakeReply, TimeOut, Tick, vars, history
  <2>2. k = n
    BY <1>1, <2>1 DEF Dropped, Accept, Claim
  <2>3. ~ Known(n)
    BY <1>1 DEF IInv, Claimed, Known, Unexpired
  <2>4. Accept(n)
    BY <1>1, <2>1, <2>2, <2>3 DEF Dropped
  <2> QED
    BY <2>4 DEF Accept
<1>2. IInv /\ [Next]_vars =>
        [\A n \in Nonces :
           n \in presented' \ presented /\ Addressed(dispatched[n]) => held'.nonce = n]_vars
  BY <1>1
<1> QED
  BY <1>2, Inductive, PTL DEF Spec, FirstArrivalIsServed
=============================================================================
