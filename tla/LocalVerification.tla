-------------------------- MODULE LocalVerification --------------------------
(***************************************************************************)
(* Offline verification of a token (verify_core() and check_claims() in    *)
(* src/src/jwks.c): the algorithm, the key, the signature, the claims and, *)
(* last, the revocation feed. It composes KeyCache and RevocationFeed: a   *)
(* verification is a search in the one, then a question to the other, and  *)
(* both may go to the network.                                             *)
(*                                                                         *)
(* A token is a record. alg: the header's algorithm is EdDSA; kid: the key *)
(* it names, or None; by: the key that really signed it; nbf, exp: its     *)
(* life; ours: tenant, issuer and audience are the configured ones; cnf:   *)
(* its confirmation ("none", "cert", "both", "other"); sid: its session,   *)
(* or None. With it goes how it is presented: strict, under the guards'    *)
(* policy and not by its signature alone (an ID token); cert: with the     *)
(* certificate it is bound to.                                             *)
(***************************************************************************)
EXTENDS KeyCache

CONSTANTS
  Sessions, Poll, Failing,  \* see RevocationFeed
  Tokens,
  Skew,      \* AXIAM_JWT_CLOCK_SKEW_SECS
  MaxCalls   \* bound on the verifications

ASSUME VerificationAssumption ==
  /\ {Poll, MaxCalls} \subseteq Nat \ {0}
  /\ Skew \in Nat
  /\ Failing \in BOOLEAN
  /\ None \notin Sessions \cup Tokens
  /\ \A document \in SUBSET Sessions : document # None

ASSUME TokenAssumption ==
  \A tok \in Tokens :
    /\ tok.kid \in Keys \cup {None}
    /\ tok.sid \in Sessions \cup {None}
    /\ {tok.nbf, tok.exp} \subseteq Nat
    /\ {tok.alg, tok.strict} \subseteq BOOLEAN

VARIABLES revokedAt, on, listed, lastAttempt, ask,
  call,   \* each thread's verification
  calls   \* how many have begun

Feed == INSTANCE RevocationFeed

feedVars == <<revokedAt, on, listed, lastAttempt, ask>>

vars == <<now, keyVars, feedVars, call, calls>>

NoCall == [at |-> "idle", tok |-> None]

Refused == [at |-> "done", tok |-> None]

TypeOK ==
  /\ KeyTypeOK
  /\ Feed!TypeOK
  /\ call \in [Threads -> [at : {"idle", "keys", "feed", "done"},
                           tok : Tokens \cup {None}]]
  /\ calls \in 0..MaxCalls

Init ==
  /\ now = 0
  /\ KeyInit
  /\ Feed!Init
  /\ call = [t \in Threads |-> NoCall]
  /\ calls = 0

Doing(t, where) == call[t].at = where

Goes(t, where) == call' = [call EXCEPT ![t].at = where]

Concludes(t, ok) ==
  call' = [call EXCEPT ![t] = IF ok THEN [@ EXCEPT !.at = "done"] ELSE Refused]

-----------------------------------------------------------------------------
(* The lifetime, with the clock skew allowed on both sides. *)
InLifetime(tok) == now <= tok.exp + Skew /\ tok.nbf <= now + Skew

(* Mutant: of two constraints the one that can be checked is enough. *)
ConfirmationEither(tok) == tok.cnf = "none" \/ (tok.cnf \in {"cert", "both"} /\ tok.cert)

(* check_cnf_binding(): a token that names a constraint is accepted only on *)
(* evidence for all of it, and only a certificate can be evidence here.     *)
ConfirmationHolds(tok) == tok.cnf = "none" \/ (tok.cnf = "cert" /\ tok.cert)

ClaimsHold(tok) == InLifetime(tok) /\ tok.ours /\ ConfirmationHolds(tok)

(* The header decides first: another algorithm never reaches the keys. *)
Verify(t, tok) ==
  /\ Doing(t, "idle")
  /\ calls < MaxCalls
  /\ calls' = calls + 1
  /\ \/ /\ ~ tok.alg
        /\ call' = [call EXCEPT ![t] = Refused]
        /\ UNCHANGED keyVars
     \/ /\ tok.alg
        /\ SeekCached(t, tok.kid) \/ SeekFetch(t, tok.kid)
        /\ call' = [call EXCEPT ![t] = [at |-> "keys", tok |-> tok]]
  /\ UNCHANGED <<now, feedVars>>

FetchKeys(t) ==
  /\ Doing(t, "keys")
  /\ Fetching(t)
  /\ UNCHANGED <<now, feedVars, call, calls>>

(* No key could be established: unknown_kid. *)
KeyUnknown(t) ==
  /\ Doing(t, "keys")
  /\ Miss(t) \/ FetchFails(t)
  /\ Concludes(t, FALSE)
  /\ UNCHANGED <<now, feedVars, calls>>

(* With a key: the signature, then under the strict policy the claims, then *)
(* for a token with a session the feed.                                     *)
KeyFound(t) ==
  /\ Doing(t, "keys")
  /\ \E k \in Keys :
       /\ Hit(t, k)
       /\ LET tok == call[t].tok
              holds == k = tok.by /\ (tok.strict => ClaimsHold(tok))
          IN \/ holds /\ tok.strict /\ tok.sid # None /\ Goes(t, "feed")
             \/ ~ (holds /\ tok.strict /\ tok.sid # None) /\ Concludes(t, holds)
  /\ UNCHANGED <<now, feedVars, calls>>

AskFeed(t) ==
  /\ Doing(t, "feed")
  /\ \/ Feed!Skip(t) /\ Concludes(t, TRUE)
     \/ /\ Feed!AskKnown(t, call[t].tok.sid) \/ Feed!AskPolling(t, call[t].tok.sid)
        /\ UNCHANGED call
  /\ UNCHANGED <<now, keyVars, calls>>

PollFeed(t) ==
  /\ Doing(t, "feed")
  /\ Feed!Polling(t)
  /\ UNCHANGED <<now, keyVars, call, calls>>

CheckRevocation(t) ==
  /\ Doing(t, "feed")
  /\ Feed!Judge(t)
  /\ Concludes(t, ~ Feed!Known(ask[t].sid))
  /\ UNCHANGED <<now, keyVars, calls>>

Return(t) ==
  /\ Doing(t, "done")
  /\ call' = [call EXCEPT ![t] = NoCall]
  /\ UNCHANGED <<now, keyVars, feedVars, calls>>

Enable == Feed!Enable /\ UNCHANGED <<now, keyVars, call, calls>>

Server ==
  \/ Rotate /\ UNCHANGED <<now, feedVars, call, calls>>
  \/ \E s \in Sessions : Feed!Revoke(s) /\ UNCHANGED <<now, keyVars, call, calls>>

Tick ==
  /\ now < MaxTime
  /\ KeyMayWait
  /\ Feed!MayWait
  /\ \A t \in Threads :
       Doing(t, "idle") \/ ~ At(t, "idle") \/ ~ Feed!At(t, "idle")
  /\ now' = now + 1
  /\ UNCHANGED <<keyVars, feedVars, call, calls>>

Next ==
  \/ \E t \in Threads :
       \/ \E tok \in Tokens : Verify(t, tok)
       \/ FetchKeys(t) \/ KeyUnknown(t) \/ KeyFound(t)
       \/ AskFeed(t) \/ PollFeed(t) \/ CheckRevocation(t)
       \/ Return(t)
  \/ Enable
  \/ Server
  \/ Tick

Spec == Init /\ [][Next]_vars

-----------------------------------------------------------------------------
(* What an accepted token is: signed by a key the server published until    *)
(* lately. Under the strict policy it is also ours, confirmed, and alive    *)
(* but for the skew and the time the feed took, which is spent after the    *)
(* lifetime was checked.                                                    *)
FeedTime(tok) == IF tok.strict THEN MaxFlight ELSE 0

LatelyPublished(k, slack) ==
  retired[k] # None => now - retired[k] <= TTL - 1 + MaxFlight + slack

AcceptedIsGenuine ==
  \A t \in Threads :
    Doing(t, "done") /\ call[t] # Refused =>
      LET tok == call[t].tok IN
        /\ tok.alg /\ tok.by \in Keys
        /\ LatelyPublished(tok.by, FeedTime(tok))
        /\ tok.strict =>
             /\ tok.ours
             /\ now <= tok.exp + Skew + FeedTime(tok)
             /\ tok.nbf <= now + Skew
             /\ tok.cnf = "none" \/ (tok.cnf = "cert" /\ tok.cert)

(* The two components' own properties (KeyCache, RevocationFeed). *)
RevocationsStand == Feed!KnownRevocationsStand

PollIsHonoured == TypeOK /\ Feed!OwnPollIsHonoured
=============================================================================
