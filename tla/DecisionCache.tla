---------------------------- MODULE DecisionCache ----------------------------
(***************************************************************************)
(* What the client-side decision memo promises (CONTRACT.md section 17): a *)
(* check may be answered from memory with what the server told this client *)
(* about that very question, stored less than the TTL ago, and forgetting  *)
(* is always allowed.                                                      *)
(*                                                                         *)
(* There is no list, no lock and no capacity here: DecisionMemo.tla, which *)
(* has all three, is shown to implement this.                              *)
(***************************************************************************)
EXTENDS Naturals

CONSTANTS Callers, Keys, Bodies, None

VARIABLES
  ttl,       \* how long a decision may be served; 0: never
  clock,     \* time
  cache,     \* for each key what is remembered, or None
  question,  \* the key each caller is asking the server about, or None
  told,      \* what the server has answered it, or None
  reply      \* what each caller's latest check asked and was answered, or None

vars == <<ttl, clock, cache, question, told, reply>>

(* A decision is "allowed" exactly when the body says so. *)
Allows(body) == body = "allow"

Init ==
  /\ ttl \in Nat
  /\ clock = 0
  /\ cache = [k \in Keys |-> None]
  /\ question = [c \in Callers |-> None]
  /\ told = [c \in Callers |-> None]
  /\ reply = [c \in Callers |-> None]

(* What of the cache may be left after a step that forgets. *)
Forgets(old, new) == \A k \in Keys : new[k] \in {old[k], None}

Serve(c, k) ==
  /\ question[c] = None
  /\ cache[k] # None
  /\ clock - cache[k].at < ttl
  /\ reply' = [reply EXCEPT ![c] = [key |-> k, allowed |-> cache[k].allowed]]
  /\ UNCHANGED <<ttl, clock, cache, question, told>>

Ask(c, k) ==
  /\ question[c] = None
  /\ question' = [question EXCEPT ![c] = k]
  /\ reply' = [reply EXCEPT ![c] = None]
  /\ Forgets(cache, cache')
  /\ UNCHANGED <<ttl, clock, told>>

Tell(c, body) ==
  /\ question[c] # None
  /\ told[c] = None
  /\ told' = [told EXCEPT ![c] = body]
  /\ UNCHANGED <<ttl, clock, cache, question, reply>>

(* The caller is answered; the decision is remembered, or is not. *)
Conclude(c) ==
  /\ told[c] # None
  /\ reply' = [reply EXCEPT ![c] = [key |-> question[c], allowed |-> Allows(told[c])]]
  /\ question' = [question EXCEPT ![c] = None]
  /\ told' = [told EXCEPT ![c] = None]
  /\ \/ Forgets(cache, cache')
     \/ /\ ttl > 0
        /\ \E at \in 0..clock :
             Forgets([cache EXCEPT ![question[c]] =
                        [allowed |-> Allows(told[c]), at |-> at]], cache')
  /\ UNCHANGED <<ttl, clock>>

GiveUp(c) ==
  /\ question[c] # None
  /\ told[c] = None
  /\ question' = [question EXCEPT ![c] = None]
  /\ UNCHANGED <<ttl, clock, cache, told, reply>>

Forget ==
  /\ Forgets(cache, cache')
  /\ UNCHANGED <<ttl, clock, question, told, reply>>

Tick ==
  /\ clock' = clock + 1
  /\ UNCHANGED <<ttl, cache, question, told, reply>>

Next ==
  \/ \E c \in Callers, k \in Keys : Serve(c, k) \/ Ask(c, k)
  \/ \E c \in Callers, body \in Bodies : Tell(c, body)
  \/ \E c \in Callers : Conclude(c) \/ GiveUp(c)
  \/ Forget
  \/ Tick

Spec == Init /\ [][Next]_vars
==============================================================================
