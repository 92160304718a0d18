------------------------------- MODULE MCCaches -------------------------------
(* The caches of answers that threads share. A behaviour is either about    *)
(* the decision memo, with two threads, three questions and room for two    *)
(* entries: an insertion that evicts, two insertions that race, for one key *)
(* or for two; or about one of the two discovery documents and, for the     *)
(* OIDC one, the code flow that reads it: two threads, two requests, two    *)
(* documents, a lifetime of two ticks and fetches of one at most.           *)
EXTENDS DecisionMemo, CodeFlow

CONSTANTS t1, t2, k1, k2, k3
ThreadsMC == {t1, t2}
KeysMC == {k1, k2, k3}
BodiesMC == {"allow", "deny", "garbled"}
RequestedMC == {-1, 0, 1, 2, 9}
Symmetric == Permutations(ThreadsMC) \cup Permutations(KeysMC)

VARIABLE about   \* which of the two this behaviour is about

(* The memo is on or off in a behaviour about it; the other kind keeps off. *)
CachesInit ==
  /\ Init
  /\ CodeInit
  /\ \/ about = "memo" /\ which = "oidc"
     \/ about = "documents" /\ ttl = 0

CachesNext ==
  \/ about = "memo" /\ Next /\ UNCHANGED <<about, codeVars>>
  \/ about = "documents" /\ CodeNext /\ UNCHANGED <<about, vars>>

CachesSpec == CachesInit /\ [][CachesNext]_<<about, vars, codeVars>>
===============================================================================
