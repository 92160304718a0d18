------------------------- MODULE MCLocalVerification -------------------------
(***************************************************************************)
(* Two threads; two signing keys, one of which may replace the other; one  *)
(* session; tokens that differ in the one thing each is there to test.     *)
(* Seconds are scaled: a key set lives for two ticks, as do the re-fetch   *)
(* window and the polling interval; a request takes one at most.           *)
(***************************************************************************)
EXTENDS LocalVerification, TLC

CONSTANTS t1, t2, k1, k2, s1, Other

TwoThreads == {t1, t2}
KeysMC == {k1, k2}
SessionsMC == {s1}

Plain == [alg |-> TRUE, kid |-> k1, by |-> k1, nbf |-> 0, exp |-> 1, ours |-> TRUE,
          cnf |-> "none", sid |-> s1, strict |-> TRUE, cert |-> FALSE]

IdToken == [Plain EXCEPT !.strict = FALSE, !.ours = FALSE, !.sid = None]

TokensMC ==
  { [IdToken EXCEPT !.alg = FALSE],
    [IdToken EXCEPT !.kid = k2, !.by = k2],
    [Plain EXCEPT !.kid = None, !.sid = None],
    [Plain EXCEPT !.cnf = "both", !.cert = TRUE, !.sid = None],
    [Plain EXCEPT !.cnf = "cert", !.cert = TRUE, !.nbf = 2, !.exp = MaxTime] }

Symmetric == Permutations(TwoThreads)

(* Bound: the feed is turned on only while no key is retired or sought in   *)
(* vain, and no session is revoked before; each half is explored in full.   *)
OneAtATime ==
  /\ on => retired = [k \in Keys |-> None] /\ forcedAt = None
  /\ ~ on => revokedAt = [s \in Sessions |-> None]

ASSUME FlightFitsPoll == MaxFlight < Poll
=============================================================================
