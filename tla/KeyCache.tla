------------------------------ MODULE KeyCache ------------------------------
(***************************************************************************)
(* The cache of the server's signing keys that local verification reads    *)
(* (src/src/jwks.c): one JWKS document, used for TTL seconds, fetched      *)
(* again on demand when a token names a key it does not hold, but at most  *)
(* once per Cooldown however many such tokens arrive.                      *)
(*                                                                         *)
(* jwks_mtx covers the reads and writes of the cache and is NOT held while *)
(* a document is on the wire, so fetches of several threads overlap and    *)
(* may land in another order than they were answered in.                   *)
(*                                                                         *)
(* Time is in whole seconds. It passes while a thread waits for the        *)
(* network (MaxFlight at most: the transport's timeout) and not between    *)
(* two adjacent statements of a thread that does not.                      *)
(***************************************************************************)
EXTENDS Naturals, FiniteSets

CONSTANTS
  Threads,
  Keys,       \* the kids the server may publish; the usable ones (parse_jwks)
  TTL,        \* AXIAM_JWKS_CACHE_TTL_SECS
  Cooldown,   \* AXIAM_OIDC_JWKS_REFETCH_COOLDOWN_S
  MaxFlight,  \* the longest a request may take
  MaxTime,    \* bound on the clock
  None

ASSUME KeyCacheAssumption ==
  /\ {TTL, Cooldown} \subseteq Nat \ {0}
  /\ {MaxFlight, MaxTime} \subseteq Nat
  /\ None \notin Keys \cup Nat
  /\ \A document \in SUBSET Keys : document # None

VARIABLES
  now,
  published,      \* the server's signing keys
  retired,        \* when the server stopped publishing a key, or None
  jwks,           \* the cached keys, or None while jwks_valid is 0
  fetchedAt,      \* jwks_fetched_at
  cooldownUntil,  \* jwks_refetch_cooldown_until
  seek,           \* what each thread is doing to find a key
  forcedAt        \* history: when the latest forced fetch began, or None

keyVars == <<published, retired, jwks, fetchedAt, cooldownUntil, seek, forcedAt>>

(* A thread's search. at: "wire" while its request travels, "answer" once   *)
(* the server has answered, "look" when it may look the key up; forced: its *)
(* one re-fetch is spent; doc: the document; since: when the request left.  *)
Resting == [at |-> "idle", kid |-> None, forced |-> FALSE, doc |-> {}, since |-> 0]

KeyTypeOK ==
  /\ now \in 0..MaxTime
  /\ published \subseteq Keys
  /\ retired \in [Keys -> (0..MaxTime) \cup {None}]
  /\ jwks \in (SUBSET Keys) \cup {None}
  /\ fetchedAt \in 0..MaxTime
  /\ cooldownUntil \in 0..(MaxTime + Cooldown)
  /\ seek \in [Threads -> [at : {"idle", "wire", "answer", "look"}, kid : Keys \cup {None},
                           forced : BOOLEAN, doc : SUBSET Keys, since : 0..MaxTime]]
  /\ forcedAt \in (0..MaxTime) \cup {None}

KeyInit ==
  /\ published \in (SUBSET Keys) \ {{}}
  /\ retired = [k \in Keys |-> None]
  /\ jwks = None
  /\ fetchedAt = 0
  /\ cooldownUntil = 0
  /\ seek = [t \in Threads |-> Resting]
  /\ forcedAt = None

-----------------------------------------------------------------------------
(* What find_key() may return for a kid: the key of that name; without a    *)
(* kid, the only key there is.                                              *)
Candidates(kid) ==
  IF jwks = None THEN {}
  ELSE IF kid # None THEN jwks \cap {kid}
  ELSE IF Cardinality(jwks) = 1 THEN jwks ELSE {}

Fresh == jwks # None /\ now - fetchedAt < TTL

At(t, where) == seek[t].at = where

(* ensure_jwks(c, 0): a fresh document is used, any other is replaced. *)
SeekCached(t, kid) ==
  /\ At(t, "idle")
  /\ Fresh
  /\ seek' = [seek EXCEPT ![t] = [Resting EXCEPT !.at = "look", !.kid = kid]]
  /\ UNCHANGED <<published, retired, jwks, fetchedAt, cooldownUntil, forcedAt>>

SeekFetch(t, kid) ==
  /\ At(t, "idle")
  /\ ~ Fresh
  /\ seek' = [seek EXCEPT ![t] = [Resting EXCEPT !.at = "wire", !.kid = kid, !.since = now]]
  /\ UNCHANGED <<published, retired, jwks, fetchedAt, cooldownUntil, forcedAt>>

(* The server answers with what it publishes at that moment. *)
Answered(t) ==
  /\ At(t, "wire")
  /\ seek' = [seek EXCEPT ![t].at = "answer", ![t].doc = published]
  /\ UNCHANGED <<published, retired, jwks, fetchedAt, cooldownUntil, forcedAt>>

(* parse_jwks(): the document replaces the cache, whatever it held, and is  *)
(* dated by its arrival.                                                    *)
Land(t) ==
  /\ At(t, "answer")
  /\ jwks' = seek[t].doc
  /\ fetchedAt' = now
  /\ seek' = [seek EXCEPT ![t].at = "look", ![t].doc = {}, ![t].since = 0]
  /\ UNCHANGED <<published, retired, cooldownUntil, forcedAt>>

(* Mutant: the attempt, and not the document, dates the cache. *)
FetchFailsButDates(t) ==
  /\ At(t, "wire") \/ At(t, "answer")
  /\ seek' = [seek EXCEPT ![t] = Resting]
  /\ fetchedAt' = now
  /\ UNCHANGED <<published, retired, jwks, cooldownUntil, forcedAt>>

(* No answer, an error status, or a body that is no key set: the cache      *)
(* stays and the search fails, also when a cached key would have done.      *)
FetchFails(t) ==
  /\ At(t, "wire") \/ At(t, "answer")
  /\ seek' = [seek EXCEPT ![t] = Resting]
  /\ UNCHANGED <<published, retired, jwks, fetchedAt, cooldownUntil, forcedAt>>

Hit(t, k) ==
  /\ At(t, "look")
  /\ k \in Candidates(seek[t].kid)
  /\ seek' = [seek EXCEPT ![t] = Resting]
  /\ UNCHANGED <<published, retired, jwks, fetchedAt, cooldownUntil, forcedAt>>

(* The key is not there and the re-fetch is spent, or the window is open.   *)
Miss(t) ==
  /\ At(t, "look")
  /\ Candidates(seek[t].kid) = {}
  /\ seek[t].forced \/ now < cooldownUntil
  /\ seek' = [seek EXCEPT ![t] = Resting]
  /\ UNCHANGED <<published, retired, jwks, fetchedAt, cooldownUntil, forcedAt>>

(* Mutant: the window is tested and not opened. *)
RefetchUnmarked(t) ==
  /\ At(t, "look")
  /\ Candidates(seek[t].kid) = {}
  /\ ~ seek[t].forced
  /\ now >= cooldownUntil
  /\ seek' = [seek EXCEPT ![t].at = "wire", ![t].since = now, ![t].forced = TRUE]
  /\ forcedAt' = now
  /\ UNCHANGED <<published, retired, jwks, fetchedAt, cooldownUntil>>

(* The one re-fetch: the window is tested and opened under one lock. *)
Refetch(t) ==
  /\ At(t, "look")
  /\ Candidates(seek[t].kid) = {}
  /\ ~ seek[t].forced
  /\ now >= cooldownUntil
  /\ cooldownUntil' = now + Cooldown
  /\ seek' = [seek EXCEPT ![t].at = "wire", ![t].since = now, ![t].forced = TRUE]
  /\ forcedAt' = now
  /\ UNCHANGED <<published, retired, jwks, fetchedAt>>

(* The server rotates: a new key appears, an old one goes for good. *)
Publish(k) ==
  /\ k \notin published
  /\ retired[k] = None
  /\ published' = published \cup {k}
  /\ UNCHANGED <<retired, jwks, fetchedAt, cooldownUntil, seek, forcedAt>>

Retire(k) ==
  /\ k \in published
  /\ published' = published \ {k}
  /\ retired' = [retired EXCEPT ![k] = now]
  /\ UNCHANGED <<jwks, fetchedAt, cooldownUntil, seek, forcedAt>>

(* The steps that do not end the search. *)
Fetching(t) == Answered(t) \/ Land(t) \/ Refetch(t)

Rotate == \E k \in Keys : Publish(k) \/ Retire(k)

(* A second passes: nobody is computing and no request outlives its timeout. *)
KeyMayWait ==
  \A t \in Threads :
    \/ At(t, "idle")
    \/ (At(t, "wire") \/ At(t, "answer")) /\ now - seek[t].since < MaxFlight

-----------------------------------------------------------------------------
(* However many tokens name unknown keys, forced fetches begin at least     *)
(* Cooldown apart (lookup_key(): one per window).                           *)
BeginsForced(t) == seek'[t].forced /\ ~ seek[t].forced

ForcedFetchesAreRationed ==
  [][\A t \in Threads :
       BeginsForced(t) /\ forcedAt # None => now - forcedAt >= Cooldown]_<<now, keyVars>>
=============================================================================
