------------------------------- MODULE Reactor -------------------------------
(***************************************************************************)
(* The reactor runtime (src/src/reactor.c): the table of handlers, the     *)
(* verification of each event with its memory of nonces, and the one reply *)
(* it may publish; and around it the server that dispatches events and     *)
(* waits for replies, and the broker, which delivers a message as often as *)
(* it likes, as late as it likes, in any order and not always whole.       *)
(*                                                                         *)
(* A message stands for its nonce, which is unique, as is the correlation  *)
(* id it carries. The runtime is one thread. Time is in ticks, Second of   *)
(* them to a second: the runtime reads whole seconds, the server waits     *)
(* for milliseconds. Allocations succeed.                                  *)
(***************************************************************************)
EXTENDS Integers, Sequences, SequencesExt

CONSTANTS
  Second,     \* ticks to a second
  Skew,       \* REACTOR_FRESHNESS_SKEW_SECS
  Names,      \* the names handlers are bound for
  Nonces,     \* the server's dispatches
  Templates,  \* what each dispatch may be: [event, ours, ahead, timeout]
  Answers,    \* what a handler may answer: [kind, patch, mfa]
  MaxTime,    \* bound on the clock
  None

(* The registry: the events that may be mutated, and those whose failure    *)
(* policy is open by default; every other one is closed.                    *)
Registry ==
  {"token.pre_issue", "login.post_auth", "user.pre_create", "user.pre_update", "grant.pre_assign"}
Mutable == {"token.pre_issue", "user.pre_create", "user.pre_update"}
OpenByDefault == {"token.pre_issue"}

(* An answer: its kind, whose keys its patch has ("none", "admitted" by the *)
(* event's allow-list, "foreign") and require_mfa. An event: its name,      *)
(* whether it names this reactor's tenant, how far the server's clock is    *)
(* ahead, and timeout_ms, in ticks.                                         *)
Decision == [kind : {"allow", "deny", "mutate"}, patch : {"none", "admitted", "foreign"},
             mfa : BOOLEAN]

Template == [event : STRING, ours : BOOLEAN, ahead : Int, timeout : Nat]

ASSUME ReactorAssumption ==
  /\ {Second, Skew} \subseteq Nat \ {0}
  /\ MaxTime \in Nat
  /\ Answers \subseteq Decision
  /\ Templates \in [Nonces -> SUBSET Template]
  /\ None \notin Nat /\ None \notin Nonces /\ None \notin Answers

VARIABLES
  clock,
  at,          \* where axiam_reactor_serve() is
  bindings,    \* the router's table: the names bound, in order
  fallback,    \* whether a fallback handler is set
  seen,        \* the nonce set: [nonce, until]
  held,        \* the event in the handler's hands
  policy,      \* the registration's failure_policy
  dispatched,  \* what the server has dispatched: [event, ours, issued, timeout, sent]
  replies,     \* the latest reply published for each
  outcome,     \* what the server makes of each
  presented,   \* history: those of which a signed and fresh copy has arrived
  handled,     \* history: when the event was last handed to a handler
  said         \* history: what handlers answered

serverVars == <<policy, dispatched, replies, outcome>>
history == <<presented, handled, said>>
vars == <<clock, at, bindings, fallback, seen, held, serverVars, history>>

Seconds(t) == t \div Second

Nothing == [nonce |-> None, received |-> 0, answer |-> None]

Init ==
  /\ clock = 0
  /\ at = "setup"
  /\ bindings = <<>>
  /\ fallback = FALSE
  /\ seen = {}
  /\ held = Nothing
  /\ policy = "fail_closed"
  /\ dispatched = [n \in Nonces |-> None]
  /\ replies = [n \in Nonces |-> None]
  /\ outcome = [n \in Nonces |-> "none"]
  /\ presented = {}
  /\ handled = [n \in Nonces |-> None]
  /\ said = [n \in Nonces |-> {}]

-----------------------------------------------------------------------------
(* Binding: a name outside the registry and a second binding are refused.   *)

On(name) ==
  /\ at = "setup"
  /\ bindings' = IF name \in Registry /\ name \notin ToSet(bindings)
                 THEN Append(bindings, name) ELSE bindings
  /\ UNCHANGED <<clock, at, fallback, seen, held, serverVars, history>>

SetFallback ==
  /\ at = "setup"
  /\ fallback' = TRUE
  /\ UNCHANGED <<clock, at, bindings, seen, held, serverVars, history>>

(* Mutant: the first event decides. *)
DefaultFailurePolicyFirst(events) ==
  IF events # <<>> /\ Head(events) \in OpenByDefault THEN "fail_open" ELSE "fail_closed"

(* The strictest of the events' defaults, closed when there is none.        *)
DefaultFailurePolicy(events) ==
  IF events # <<>> /\ ToSet(events) \subseteq OpenByDefault THEN "fail_open" ELSE "fail_closed"

(* The application registers the events it has bound, and serves.           *)
Serve ==
  /\ at = "setup"
  /\ policy' = DefaultFailurePolicy(bindings)
  /\ at' = "idle"
  /\ UNCHANGED <<clock, bindings, fallback, seen, held, dispatched, replies, outcome, history>>

-----------------------------------------------------------------------------
(* The server dispatches an event, signs it and begins to wait.             *)
Dispatch(n, t) ==
  /\ at # "setup"
  /\ dispatched[n] = None
  /\ dispatched' = [dispatched EXCEPT ![n] =
       [event |-> t.event, ours |-> t.ours, issued |-> Seconds(clock) + t.ahead,
        timeout |-> t.timeout, sent |-> clock]]
  /\ outcome' = [outcome EXCEPT ![n] = "waiting"]
  /\ UNCHANGED <<clock, at, bindings, fallback, seen, held, policy, replies, history>>

(* What became of a message on its way.                                     *)
Wire == {"intact", "old version", "incomplete", "altered"}

Fresh(m) == (Seconds(clock) - m.issued) \in (-Skew)..Skew

Arrives(n) == at = "idle" /\ dispatched[n] # None

(* Mutant: the nonce is claimed before the signature is looked at. *)
RefusedButClaimed(n, wire) ==
  /\ Arrives(n)
  /\ wire # "intact" \/ ~ Fresh(dispatched[n])
  /\ seen' = seen \cup {[nonce |-> n, until |-> Seconds(clock) + 2 * Skew]}
  /\ UNCHANGED <<clock, at, bindings, fallback, held, serverVars, history>>

(* The version, the fields, the signature, the freshness in both            *)
(* directions: no refusal for these is remembered, and nothing is sent.     *)
Refused(n, wire) ==
  /\ Arrives(n)
  /\ wire # "intact" \/ ~ Fresh(dispatched[n])
  /\ UNCHANGED vars

(* Mutant: an entry lives for one window. *)
LivesForOneWindow == Skew

Lives == 2 * Skew

Unexpired == {e \in seen : e.until > Seconds(clock)}

Known(n) == \E e \in Unexpired : e.nonce = n

(* nonce_claim(): expired entries are dropped by every claim, and by        *)
(* nothing else.                                                            *)
Claim(n) ==
  /\ Arrives(n)
  /\ Fresh(dispatched[n])
  /\ seen' = IF Known(n) THEN Unexpired
             ELSE Unexpired \cup {[nonce |-> n, until |-> Seconds(clock) + Lives]}
  /\ presented' = presented \cup {n}

Addressed(m) == m.ours /\ m.event \in Registry

Dropped(n) ==
  /\ Claim(n)
  /\ Known(n) \/ ~ Addressed(dispatched[n])
  /\ UNCHANGED <<clock, at, bindings, fallback, held, serverVars, handled, said>>

Accept(n) ==
  /\ Claim(n)
  /\ ~ Known(n)
  /\ Addressed(dispatched[n])
  /\ held' = [nonce |-> n, received |-> clock, answer |-> None]
  /\ handled' = [handled EXCEPT ![n] = Seconds(clock)]
  /\ at' = "handling"
  /\ UNCHANGED <<clock, bindings, fallback, serverVars, said>>

-----------------------------------------------------------------------------
(* router_dispatch(): the handler bound for the event, or the fallback, or  *)
(* an abstention. A handler may abstain too.                                *)
Routed == dispatched[held.nonce].event \in ToSet(bindings) \/ fallback

Answer(answer) ==
  /\ at = "handling"
  /\ Routed
  /\ held' = [held EXCEPT !.answer = answer]
  /\ said' = [said EXCEPT ![held.nonce] = @ \cup {answer}]
  /\ at' = "answered"
  /\ UNCHANGED <<clock, bindings, fallback, seen, serverVars, presented, handled>>

Release ==
  /\ at' = "idle"
  /\ held' = Nothing
  /\ UNCHANGED <<clock, bindings, fallback, seen, policy, dispatched, outcome, history>>

Abstain ==
  /\ at = "handling"
  /\ Release
  /\ UNCHANGED replies

(* The window is measured from the delivery, in whole seconds; without a    *)
(* timeout there is none.                                                   *)
Late ==
  LET timeout == dispatched[held.nonce].timeout
  IN  timeout > 0 /\ (Seconds(clock) - Seconds(held.received)) * Second > timeout

(* axiam_reactor_build_reply() refuses a step-up on any other event and a   *)
(* mutation of nothing.                                                     *)
Buildable ==
  /\ held.answer.mfa => dispatched[held.nonce].event = "login.post_auth"
  /\ held.answer.kind = "mutate" => held.answer.patch # "none"

Abandon ==
  /\ at = "answered"
  /\ Late \/ ~ Buildable
  /\ Release
  /\ UNCHANGED replies

(* The reply is the answer as it is: no patch is filtered.                  *)
Publish ==
  /\ at = "answered"
  /\ ~ Late
  /\ Buildable
  /\ replies' = [replies EXCEPT ![held.nonce] =
       [answer |-> held.answer, took |-> clock - held.received]]
  /\ Release

(* next_delivery() reports that there is nothing more.                      *)
Stop ==
  /\ at = "idle"
  /\ at' = "stopped"
  /\ seen' = {}
  /\ UNCHANGED <<clock, bindings, fallback, held, serverVars, history>>

-----------------------------------------------------------------------------
(* The server reads one reply inside its window; a reply that breaks a rule *)
(* is worth no more than none.                                              *)
Refuses(event, answer) ==
  \/ answer.mfa /\ event # "login.post_auth"
  \/ answer.kind = "mutate" /\ (event \notin Mutable \/ answer.patch # "admitted")
  \/ answer.kind = "allow" /\ answer.patch # "none"

ByPolicy == IF policy = "fail_open" THEN "allowed" ELSE "denied"

Resolve(event, answer) ==
  IF Refuses(event, answer) THEN ByPolicy
  ELSE IF answer.kind = "deny" THEN "denied"
  ELSE IF answer.mfa THEN "step-up"
  ELSE "allowed"

Elapsed(n) == clock - dispatched[n].sent

TakeReply(n) ==
  /\ outcome[n] = "waiting"
  /\ replies[n] # None
  /\ Elapsed(n) <= dispatched[n].timeout
  /\ outcome' = [outcome EXCEPT ![n] = Resolve(dispatched[n].event, replies[n].answer)]
  /\ UNCHANGED <<clock, at, bindings, fallback, seen, held, policy, dispatched, replies, history>>

TimeOut(n) ==
  /\ outcome[n] = "waiting"
  /\ Elapsed(n) > dispatched[n].timeout
  /\ outcome' = [outcome EXCEPT ![n] = ByPolicy]
  /\ UNCHANGED <<clock, at, bindings, fallback, seen, held, policy, dispatched, replies, history>>

Tick ==
  /\ at # "setup"
  /\ clock < MaxTime
  /\ clock' = clock + 1
  /\ UNCHANGED <<at, bindings, fallback, seen, held, serverVars, history>>

Next ==
  \/ \E name \in Names : On(name)
  \/ SetFallback \/ Serve
  \/ \E n \in Nonces :
       \/ \E t \in Templates[n] : Dispatch(n, t)
       \/ \E wire \in Wire : Refused(n, wire)
       \/ Dropped(n) \/ Accept(n) \/ TakeReply(n) \/ TimeOut(n)
  \/ \E answer \in Answers : Answer(answer)
  \/ Abstain \/ Abandon \/ Publish \/ Stop \/ Tick

Spec == Init /\ [][Next]_vars

-----------------------------------------------------------------------------
TypeOK ==
  /\ clock \in 0..MaxTime
  /\ at \in {"setup", "idle", "handling", "answered", "stopped"}
  /\ bindings \in Seq(Registry) /\ IsInjective(bindings)
  /\ fallback \in BOOLEAN
  /\ seen \subseteq [nonce : Nonces, until : 0..(MaxTime + Lives)]
  /\ at \in {"handling", "answered"} <=> held.nonce \in Nonces
  /\ at = "answered" <=> held.answer \in Answers
  /\ policy \in {"fail_open", "fail_closed"}
  /\ \A n \in Nonces :
       /\ outcome[n] \in {"none", "waiting", "allowed", "denied", "step-up"}
       /\ said[n] \subseteq Answers
       /\ replies[n] = None \/ replies[n].answer \in said[n]

(* Section 22.3: a nonce is refused while its message could still pass as   *)
(* fresh. As far as it holds: an event that is handed to a handler a second *)
(* time is handed over two whole windows after the first. (It is not handed *)
(* over later than that, and one dated a whole window ahead is fresh still  *)
(* in that very second: twice is the most.)                                 *)
ReplaysAreOutwaited ==
  [][\A n \in Nonces :
       handled[n] # None /\ handled'[n] # handled[n] => handled'[n] - handled[n] >= 2 * Skew]_vars

(* A genuine event is handed to the handler when it first arrives fresh,    *)
(* whatever arrived under its nonce before: a copy that is damaged, altered *)
(* or too early spends nothing.                                             *)
FirstArrivalIsServed ==
  [][\A n \in Nonces :
       n \in presented' \ presented /\ Addressed(dispatched[n]) => held'.nonce = n]_vars

(* What is published is what a handler answered of that very event, no      *)
(* patch corrected, left out or invented; it leaves less than a second      *)
(* after the window has closed; and it is never a mutation of nothing.      *)
RepliesAreAnswers ==
  \A n \in Nonces :
    replies[n] # None =>
      /\ replies[n].answer \in said[n]
      /\ replies[n].answer.kind = "mutate" => replies[n].answer.patch # "none"
      /\ dispatched[n].timeout > 0 => replies[n].took < dispatched[n].timeout + Second

(* End to end: an event that was bound and is closed by default passes only *)
(* if a handler let it pass, and what is denied was denied by a handler or  *)
(* by a closed registration; so neither the runtime nor the table decides,  *)
(* and nothing is published that no handler said.                           *)
OutcomeIsTheHandlers ==
  /\ TypeOK
  /\ RepliesAreAnswers
  /\ \A n \in Nonces :
       /\ outcome[n] \in {"allowed", "step-up"}
            /\ dispatched[n].event \in ToSet(bindings) \ OpenByDefault
            => \E answer \in said[n] : answer.kind \in {"allow", "mutate"}
       /\ outcome[n] = "denied" =>
            policy = "fail_closed" \/ \E answer \in said[n] : answer.kind = "deny"
=============================================================================
