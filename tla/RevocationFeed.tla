--------------------------- MODULE RevocationFeed ---------------------------
(***************************************************************************)
(* The optional poller of the session-revocation feed                      *)
(* (src/src/revocation.c, CONTRACT.md section 10.4). A verification that   *)
(* finds the interval elapsed since the last ATTEMPT fetches the document  *)
(* itself; every other one is judged by the set at hand. An unusable       *)
(* answer leaves the set as it was.                                        *)
(*                                                                         *)
(* revocation_mtx covers the test-and-mark of the attempt, the adoption of *)
(* a document and the search, never the request.                           *)
(***************************************************************************)
EXTENDS Naturals

CONSTANTS
  Threads,
  Sessions,
  Poll,       \* revocation_poll_secs, at least AXIAM_REVOCATION_MIN_POLL_SECS
  MaxFlight,
  MaxTime,
  Failing,    \* whether a poll may fail
  None

VARIABLES
  now,
  revokedAt,    \* when the server revoked a session, or None
  on,           \* revocation_on
  listed,       \* revocation_entries; None: never successfully fetched
  lastAttempt,  \* revocation_last_attempt; None: never
  ask           \* what each thread's question about a session is doing

feedVars == <<revokedAt, on, listed, lastAttempt, ask>>

(* A question. doc: the document its own poll was answered with; since:     *)
(* when that request left; owed (history): the session had been revoked.    *)
Quiet == [at |-> "idle", sid |-> None, doc |-> {}, since |-> 0, owed |-> FALSE]

TypeOK ==
  /\ now \in 0..MaxTime
  /\ revokedAt \in [Sessions -> (0..MaxTime) \cup {None}]
  /\ on \in BOOLEAN
  /\ listed \in (SUBSET Sessions) \cup {None}
  /\ lastAttempt \in (0..MaxTime) \cup {None}
  /\ ask \in [Threads -> [at : {"idle", "wire", "answer", "judge"},
                          sid : Sessions \cup {None}, doc : SUBSET Sessions,
                          since : 0..MaxTime, owed : BOOLEAN]]

Init ==
  /\ revokedAt = [s \in Sessions |-> None]
  /\ on = FALSE
  /\ listed = None
  /\ lastAttempt = None
  /\ ask = [t \in Threads |-> Quiet]

Revoked == {s \in Sessions : revokedAt[s] # None}

At(t, where) == ask[t].at = where

-----------------------------------------------------------------------------
(* axiam_client_enable_revocation_feed(); the interval asked for is clamped *)
(* up to the floor, so it is the constant Poll here.                        *)
Enable ==
  /\ ~ on
  /\ on' = TRUE
  /\ UNCHANGED <<revokedAt, listed, lastAttempt, ask>>

Due == lastAttempt # None => now - lastAttempt >= Poll

(* With the feed off nothing is fetched and nothing is refused. *)
Skip(t) ==
  /\ At(t, "idle")
  /\ ~ on
  /\ UNCHANGED feedVars

AskKnown(t, sid) ==
  /\ At(t, "idle")
  /\ on
  /\ ~ Due
  /\ ask' = [ask EXCEPT ![t] = [Quiet EXCEPT !.at = "judge", !.sid = sid]]
  /\ UNCHANGED <<revokedAt, on, listed, lastAttempt>>

(* The attempt is marked before it is made, so the others do not make it.   *)
AskPolling(t, sid) ==
  /\ At(t, "idle")
  /\ on
  /\ Due
  /\ lastAttempt' = now
  /\ ask' = [ask EXCEPT ![t] = [Quiet EXCEPT !.at = "wire", !.sid = sid, !.since = now,
                                               !.owed = sid \in Revoked]]
  /\ UNCHANGED <<revokedAt, on, listed>>

Answered(t) ==
  /\ At(t, "wire")
  /\ ask' = [ask EXCEPT ![t].at = "answer", ![t].doc = Revoked]
  /\ UNCHANGED <<revokedAt, on, listed, lastAttempt>>

(* Mutant: a document is adopted only where there is none. *)
LandOnce(t) ==
  /\ At(t, "answer")
  /\ listed' = IF listed = None THEN ask[t].doc ELSE listed
  /\ ask' = [ask EXCEPT ![t].at = "judge", ![t].doc = {}, ![t].since = 0]
  /\ UNCHANGED <<revokedAt, on, lastAttempt>>

(* parse_feed() adopts the whole document. *)
Land(t) ==
  /\ At(t, "answer")
  /\ listed' = ask[t].doc
  /\ ask' = [ask EXCEPT ![t].at = "judge", ![t].doc = {}, ![t].since = 0]
  /\ UNCHANGED <<revokedAt, on, lastAttempt>>

(* Mutant: an unusable document is an empty one. *)
PollFailsEmpty(t) ==
  /\ At(t, "wire") \/ At(t, "answer")
  /\ listed' = {}
  /\ ask' = [ask EXCEPT ![t].at = "judge", ![t].doc = {}, ![t].since = 0,
                        ![t].owed = FALSE]
  /\ Failing
  /\ UNCHANGED <<revokedAt, on, lastAttempt>>

(* No answer, an error status, an alg that is not SHA-256, more entries     *)
(* than the cap, a body that does not parse: the set stays.                 *)
PollFails(t) ==
  /\ At(t, "wire") \/ At(t, "answer")
  /\ ask' = [ask EXCEPT ![t].at = "judge", ![t].doc = {}, ![t].since = 0,
                        ![t].owed = FALSE]
  /\ Failing
  /\ UNCHANGED <<revokedAt, on, listed, lastAttempt>>

Known(sid) == listed # None /\ sid \in listed

(* The question is answered from the set at hand. *)
Judge(t) ==
  /\ At(t, "judge")
  /\ ask' = [ask EXCEPT ![t] = Quiet]
  /\ UNCHANGED <<revokedAt, on, listed, lastAttempt>>

(* The server revokes a session; the feed names it for the rest of the run. *)
Revoke(s) ==
  /\ revokedAt[s] = None
  /\ revokedAt' = [revokedAt EXCEPT ![s] = now]
  /\ UNCHANGED <<on, listed, lastAttempt, ask>>

Polling(t) == Answered(t) \/ Land(t) \/ PollFails(t)

MayWait ==
  \A t \in Threads :
    \/ At(t, "idle")
    \/ (At(t, "wire") \/ At(t, "answer")) /\ now - ask[t].since < MaxFlight

-----------------------------------------------------------------------------
(* A session once known to be revoked stays known: a failed poll, or an     *)
(* answer of several, never takes one back ("a blip must not un-revoke a    *)
(* session the guard already knows about", internal.h).                     *)
KnownRevocationsStand ==
  [][listed # None => listed' # None /\ listed \subseteq listed']_<<now, feedVars>>

(* A question that fetched the document itself is answered by it: whatever  *)
(* had been revoked when its request left is refused.                       *)
OwnPollIsHonoured ==
  \A t \in Threads : At(t, "judge") /\ ask[t].owed => Known(ask[t].sid)
=============================================================================
