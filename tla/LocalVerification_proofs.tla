----------------------- MODULE LocalVerification_proofs -----------------------
(***************************************************************************)
(* Offline verification for any number of threads, keys, sessions and      *)
(* tokens and any lifetimes and bounds: the key cache and its rationed     *)
(* re-fetch, what an accepted token is, and, where a request lasts less    *)
(* than a polling interval, the revocations that stand.                    *)
(***************************************************************************)
EXTENDS LocalVerification, Integers, TLAPS

(* Of the key cache. *)

(* A key published has not been retired. *)
PublishedAreCurrent == \A k \in published : retired[k] = None

(* A document served at an instant or later: of its keys none was retired  *)
(* before.                                                                 *)
ServedAt(document, instant) ==
  \A k \in document : retired[k] # None => retired[k] >= instant

(* What is cached was served a request before it landed at the earliest. *)
CacheIsRecent ==
  /\ fetchedAt <= now
  /\ jwks # None => \A k \in jwks : retired[k] # None => retired[k] + MaxFlight >= fetchedAt

(* A request of the key cache ends within its time, with a document served *)
(* since it left; a thread about to look has a fresh cache to look into.   *)
SearchesAreRecent ==
  \A t \in Threads :
    /\ At(t, "wire") \/ At(t, "answer") =>
         seek[t].since <= now /\ now <= seek[t].since + MaxFlight
    /\ At(t, "answer") => ServedAt(seek[t].doc, seek[t].since)
    /\ At(t, "look") => jwks # None /\ now - fetchedAt < TTL

(* The window that a forced fetch opens. *)
WindowIsOpened == forcedAt # None => cooldownUntil = forcedAt + Cooldown

KeysSound ==
  /\ KeyTypeOK
  /\ PublishedAreCurrent
  /\ CacheIsRecent
  /\ SearchesAreRecent
  /\ WindowIsOpened

(* Of the verifications. *)

Asking(t) == Feed!At(t, "wire") \/ Feed!At(t, "answer")

(* Each thread is in one place at a time, and its poll ends in time. *)
InOnePlace(t) ==
  /\ Doing(t, "keys") <=> ~ At(t, "idle")
  /\ ~ Feed!At(t, "idle") => Doing(t, "feed")
  /\ Asking(t) => ask[t].since <= now /\ now <= ask[t].since + MaxFlight

(* The instant as of which a token in hand has been judged: now, unless the *)
(* feed has been asked about it meanwhile.                                 *)
JudgedAt(t) ==
  IF Feed!At(t, "idle") THEN now
  ELSE IF Asking(t) THEN ask[t].since
  ELSE now - MaxFlight

(* A token that has passed: judged at an instant, perhaps some time ago. *)
Passed(tok, instant) ==
  /\ tok.alg /\ tok.by \in Keys
  /\ retired[tok.by] # None => instant - retired[tok.by] <= TTL - 1 + MaxFlight
  /\ tok.strict =>
       /\ tok.ours
       /\ instant <= tok.exp + Skew
       /\ tok.nbf <= now + Skew
       /\ tok.cnf = "none" \/ (tok.cnf = "cert" /\ tok.cert)

CallIsGenuine(t) ==
  /\ Doing(t, "keys") => call[t].tok \in Tokens /\ call[t].tok.alg
  /\ Doing(t, "feed") =>
       call[t].tok \in Tokens /\ call[t].tok.strict /\ Passed(call[t].tok, JudgedAt(t))
  /\ Doing(t, "done") /\ call[t].tok # None =>
       /\ call[t].tok \in Tokens
       /\ Passed(call[t].tok, now - FeedTime(call[t].tok))

IInv ==
  /\ TypeOK
  /\ KeysSound
  /\ \A t \in Threads : InOnePlace(t) /\ CallIsGenuine(t)

(* Of the feed, where a request lasts less than a polling interval. *)

(* One poll at a time: the latest attempt. *)
OnePolls ==
  \A t \in Threads : Asking(t) =>
    /\ lastAttempt = ask[t].since
    /\ \A u \in Threads : Asking(u) => u = t

(* What is listed has been revoked, and a document that is about to be     *)
(* adopted lists it too.                                                   *)
ListsGrow ==
  /\ listed # None => listed \subseteq Feed!Revoked
  /\ \A t \in Threads : Feed!At(t, "answer") =>
       /\ ask[t].doc \subseteq Feed!Revoked
       /\ listed # None => listed \subseteq ask[t].doc

(* A session revoked when a poll left is in the document it brings and in  *)
(* the list it leaves.                                                     *)
PollsAreHonoured ==
  \A t \in Threads : ask[t].owed =>
    /\ Asking(t) => ask[t].sid \in Feed!Revoked
    /\ Feed!At(t, "answer") => ask[t].sid \in ask[t].doc
    /\ Feed!At(t, "judge") => Feed!Known(ask[t].sid)

FeedSound ==
  /\ OnePolls
  /\ ListsGrow
  /\ PollsAreHonoured

-------------------------------------------------------------------------------
(* The key cache. *)

Search == [at : {"idle", "wire", "answer", "look"}, kid : Keys \cup {None},
           forced : BOOLEAN, doc : SUBSET Keys, since : 0..MaxTime]

(* The constants are numbers, and nobody is a number or a document. *)
LEMMA Bounds ==
  /\ TTL \in Nat \ {0} /\ Cooldown \in Nat \ {0}
  /\ MaxFlight \in Nat /\ MaxTime \in Nat /\ Skew \in Nat /\ Poll \in Nat \ {0}
  /\ None \notin Keys /\ None \notin Nat /\ None \notin SUBSET Keys
  /\ None \notin Sessions /\ None \notin Tokens /\ None \notin SUBSET Sessions
BY KeyCacheAssumption, VerificationAssumption

(* Nothing is cached, asked or retired at first. *)
LEMMA InitKeys == now = 0 /\ KeyInit => KeysSound
<1> SUFFICES ASSUME now = 0, KeyInit PROVE KeysSound
  OBVIOUS
<1>1. KeyTypeOK
  BY Bounds DEF KeyInit, KeyTypeOK, Resting
<1>2. PublishedAreCurrent /\ CacheIsRecent /\ WindowIsOpened
  BY Bounds DEF KeyInit, PublishedAreCurrent, CacheIsRecent, WindowIsOpened
<1>3. SearchesAreRecent
  BY DEF KeyInit, SearchesAreRecent, Resting, At
<1> QED
  BY <1>1, <1>2, <1>3 DEF KeysSound

(* What a search is typed as. *)
LEMMA SearchTyped ==
  ASSUME KeysSound, NEW t \in Threads
  PROVE  /\ seek[t] \in Search
         /\ seek[t].since \in Nat /\ seek[t].doc \subseteq Keys
         /\ now \in Nat /\ fetchedAt \in Nat
BY Bounds DEF KeysSound, KeyTypeOK, Search

(* A search moves on; the server's keys and the cache are what they were.  *)
LEMMA SearchMoves ==
  ASSUME KeysSound, NEW t \in Threads, NEW r \in Search,
         seek' \in [Threads -> Search],
         seek'[t] = r, \A u \in Threads \ {t} : seek'[u] = seek[u],
         UNCHANGED <<now, published, retired, jwks, fetchedAt>>,
         r.at \in {"wire", "answer"} => r.since <= now /\ now <= r.since + MaxFlight,
         r.at = "answer" => ServedAt(r.doc, r.since),
         r.at = "look" => jwks # None /\ now - fetchedAt < TTL,
         cooldownUntil' \in 0..(MaxTime + Cooldown),
         forcedAt' \in (0..MaxTime) \cup {None},
         WindowIsOpened'
  PROVE  KeysSound'
<1>1. KeyTypeOK'
  BY DEF KeysSound, KeyTypeOK, Search
<1>2. PublishedAreCurrent' /\ CacheIsRecent'
  BY DEF KeysSound, PublishedAreCurrent, CacheIsRecent
<1>3. ASSUME NEW u \in Threads
      PROVE  /\ At(u, "wire")' \/ At(u, "answer")' =>
                  seek'[u].since <= now' /\ now' <= seek'[u].since + MaxFlight
             /\ At(u, "answer")' => ServedAt(seek[u].doc, seek[u].since)'
             /\ At(u, "look")' => jwks' # None /\ now' - fetchedAt' < TTL
  <2>1. CASE u = t
    BY <2>1 DEF At, ServedAt
  <2>2. CASE u # t
    BY <2>2 DEF At, ServedAt, KeysSound, SearchesAreRecent
  <2> QED
    BY <2>1, <2>2
<1> QED
  BY <1>1, <1>2, <1>3 DEF KeysSound, SearchesAreRecent

(* A search comes to its end. *)
LEMMA SearchEnds ==
  ASSUME KeysSound, NEW t \in Threads, seek' = [seek EXCEPT ![t] = Resting],
         UNCHANGED <<now, published, retired, jwks, fetchedAt, cooldownUntil, forcedAt>>
  PROVE  KeysSound'
<1>1. Resting \in Search /\ Resting.at = "idle"
  BY Bounds DEF Resting, Search
<1>2. /\ seek' \in [Threads -> Search] /\ seek'[t] = Resting
      /\ \A u \in Threads \ {t} : seek'[u] = seek[u]
  BY <1>1 DEF KeysSound, KeyTypeOK, Search
<1>3. WindowIsOpened'
  BY DEF KeysSound, WindowIsOpened
<1>4. cooldownUntil' \in 0..(MaxTime + Cooldown) /\ forcedAt' \in (0..MaxTime) \cup {None}
  BY DEF KeysSound, KeyTypeOK
<1> QED
  BY <1>1, <1>2, <1>3, <1>4, SearchMoves

(* A search begins: in a fresh cache, or by a request that leaves now. *)
LEMMA SeekPreserves ==
  ASSUME KeysSound, now' = now, NEW t \in Threads, NEW kid \in Keys \cup {None},
         SeekCached(t, kid) \/ SeekFetch(t, kid)
  PROVE  /\ KeysSound'
         /\ retired' = retired
         /\ ~ At(t, "idle")' /\ ~ seek'[t].forced
         /\ \A u \in Threads \ {t} : seek'[u] = seek[u]
<1>1. PICK r \in Search :
        /\ seek' = [seek EXCEPT ![t] = r] /\ ~ r.forced
        /\ \/ r.at = "look" /\ Fresh
           \/ r.at = "wire" /\ r.since = now
  <2>1. CASE SeekCached(t, kid)
    <3>1. PICK r : r = [Resting EXCEPT !.at = "look", !.kid = kid]
      OBVIOUS
    <3>2. r = [at |-> "look", kid |-> kid, forced |-> FALSE, doc |-> {}, since |-> 0]
      BY <3>1 DEF Resting
    <3>3. {} \in SUBSET Keys /\ 0 \in 0..MaxTime
      BY Bounds
    <3>4. r \in Search /\ r.at = "look" /\ ~ r.forced
      BY <3>2, <3>3 DEF Search
    <3> QED
      BY <2>1, <3>1, <3>4 DEF SeekCached
  <2>2. CASE SeekFetch(t, kid)
    <3>1. now \in 0..MaxTime
      BY DEF KeysSound, KeyTypeOK
    <3>2. PICK r : r = [Resting EXCEPT !.at = "wire", !.kid = kid, !.since = now]
      OBVIOUS
    <3>3. r \in Search /\ r.at = "wire" /\ r.since = now /\ ~ r.forced
      BY <3>1, <3>2, Bounds DEF Resting, Search
    <3> QED
      BY <2>2, <3>2, <3>3 DEF SeekFetch
  <2> QED
    BY <2>1, <2>2
<1>2. UNCHANGED <<published, retired, jwks, fetchedAt, cooldownUntil, forcedAt>>
  BY DEF SeekCached, SeekFetch
<1>3. /\ seek' \in [Threads -> Search] /\ seek'[t] = r
      /\ \A u \in Threads \ {t} : seek'[u] = seek[u]
  BY <1>1 DEF KeysSound, KeyTypeOK, Search
<1>4. /\ r.at \in {"wire", "answer"} => r.since <= now /\ now <= r.since + MaxFlight
      /\ r.at = "answer" => ServedAt(r.doc, r.since)
      /\ r.at = "look" => jwks # None /\ now - fetchedAt < TTL
  BY <1>1, SearchTyped, Bounds DEF Fresh
<1>5. WindowIsOpened'
  BY <1>2 DEF KeysSound, WindowIsOpened
<1>6. cooldownUntil' \in 0..(MaxTime + Cooldown) /\ forcedAt' \in (0..MaxTime) \cup {None}
  BY <1>2 DEF KeysSound, KeyTypeOK
<1>7. KeysSound'
  BY <1>1, <1>2, <1>3, <1>4, <1>5, <1>6, SearchMoves
<1> QED
  BY <1>1, <1>2, <1>3, <1>7 DEF At

(* The document is what the server publishes, none of it retired. *)
LEMMA AnsweredPreserves ==
  ASSUME KeysSound, now' = now, NEW t \in Threads, Answered(t)
  PROVE  KeysSound'
<1>1. PICK r : r = [seek[t] EXCEPT !.at = "answer", !.doc = published]
  OBVIOUS
<1>2. /\ r \in Search /\ r.at = "answer" /\ r.doc = published /\ r.since = seek[t].since
      /\ At(t, "wire")
  BY <1>1 DEF Answered, KeysSound, KeyTypeOK, Search
<1>3. /\ seek' \in [Threads -> Search] /\ seek'[t] = r
      /\ \A u \in Threads \ {t} : seek'[u] = seek[u]
  BY <1>1, <1>2 DEF Answered, KeysSound, KeyTypeOK, Search
<1>4. UNCHANGED <<published, retired, jwks, fetchedAt, cooldownUntil, forcedAt>>
  BY DEF Answered
<1>5. r.since <= now /\ now <= r.since + MaxFlight /\ ServedAt(r.doc, r.since)
  BY <1>2, Bounds DEF KeysSound, SearchesAreRecent, PublishedAreCurrent, ServedAt
<1>6. WindowIsOpened'
  BY <1>4 DEF KeysSound, WindowIsOpened
<1>7. cooldownUntil' \in 0..(MaxTime + Cooldown) /\ forcedAt' \in (0..MaxTime) \cup {None}
  BY <1>4 DEF KeysSound, KeyTypeOK
<1> QED
  BY <1>2, <1>3, <1>4, <1>5, <1>6, <1>7, SearchMoves

(* The window that was tested is opened under the same lock. *)
LEMMA RefetchPreserves ==
  ASSUME KeysSound, now' = now, NEW t \in Threads, Refetch(t)
  PROVE  KeysSound'
<1>1. PICK r : r = [seek[t] EXCEPT !.at = "wire", !.since = now, !.forced = TRUE]
  OBVIOUS
<1>2. r \in Search /\ r.at = "wire" /\ r.since = now
  BY <1>1 DEF KeysSound, KeyTypeOK, Search
<1>3. /\ seek' \in [Threads -> Search] /\ seek'[t] = r
      /\ \A u \in Threads \ {t} : seek'[u] = seek[u]
  BY <1>1, <1>2 DEF Refetch, KeysSound, KeyTypeOK, Search
<1>4. /\ UNCHANGED <<published, retired, jwks, fetchedAt>>
      /\ cooldownUntil' = now + Cooldown /\ forcedAt' = now
  BY DEF Refetch
<1>5. /\ WindowIsOpened'
      /\ cooldownUntil' \in 0..(MaxTime + Cooldown) /\ forcedAt' \in (0..MaxTime) \cup {None}
  BY <1>4, Bounds DEF WindowIsOpened, KeysSound, KeyTypeOK
<1>6. r.since <= now /\ now <= r.since + MaxFlight
  BY <1>2, SearchTyped, Bounds
<1> QED
  BY <1>2, <1>3, <1>4, <1>5, <1>6, SearchMoves

(* The document lands: whatever others have in hand, the cache is fresh. *)
LEMMA LandPreserves ==
  ASSUME KeysSound, now' = now, NEW t \in Threads, Land(t)
  PROVE  KeysSound'
<1>1. PICK r : r = [seek[t] EXCEPT !.at = "look", !.doc = {}, !.since = 0]
  OBVIOUS
<1>2. r \in Search /\ r.at = "look"
  <2>1. seek[t] \in Search /\ 0 \in 0..MaxTime /\ {} \in SUBSET Keys
    BY SearchTyped, Bounds
  <2> QED
    BY <1>1, <2>1 DEF Search
<1>3. /\ seek' \in [Threads -> Search] /\ seek'[t] = r
      /\ \A u \in Threads \ {t} : seek'[u] = seek[u]
  BY <1>1, <1>2 DEF Land, KeysSound, KeyTypeOK, Search
<1>4. /\ UNCHANGED <<published, retired, cooldownUntil, forcedAt>>
      /\ jwks' = seek[t].doc /\ fetchedAt' = now /\ At(t, "answer")
  BY DEF Land
<1>5. /\ seek[t].doc \in SUBSET Keys /\ jwks' # None
      /\ seek[t].since \in Nat /\ now \in 0..MaxTime /\ now \in Nat
  BY <1>4, SearchTyped, Bounds DEF KeysSound, KeyTypeOK
<1>6. KeyTypeOK'
  BY <1>3, <1>4, <1>5 DEF KeysSound, KeyTypeOK, Search
<1>7. PublishedAreCurrent' /\ WindowIsOpened'
  BY <1>4 DEF KeysSound, PublishedAreCurrent, WindowIsOpened
<1>8. CacheIsRecent'
  <2>1. ASSUME NEW k \in seek[t].doc, retired[k] # None
        PROVE  retired[k] + MaxFlight >= now
    <3>1. retired[k] \in Nat /\ retired[k] >= seek[t].since /\ now <= seek[t].since + MaxFlight
      BY <1>4, <1>5, <2>1, Bounds
         DEF KeysSound, KeyTypeOK, SearchesAreRecent, ServedAt
    <3> QED
      BY <1>5, <3>1, Bounds
  <2> QED
    BY <1>4, <1>5, <2>1 DEF CacheIsRecent
<1>9. SearchesAreRecent'
  <2> SUFFICES ASSUME NEW u \in Threads
               PROVE  /\ At(u, "wire")' \/ At(u, "answer")' =>
                           seek'[u].since <= now' /\ now' <= seek'[u].since + MaxFlight
                      /\ At(u, "answer")' => ServedAt(seek[u].doc, seek[u].since)'
                      /\ At(u, "look")' => jwks' # None /\ now' - fetchedAt' < TTL
    BY DEF SearchesAreRecent
  <2>1. jwks' # None /\ now' - fetchedAt' < TTL
    BY <1>4, <1>5, Bounds
  <2>2. CASE u = t
    BY <1>2, <1>3, <2>1, <2>2 DEF At
  <2>3. CASE u # t
    BY <1>3, <1>4, <2>1, <2>3 DEF At, ServedAt, KeysSound, SearchesAreRecent
  <2> QED
    BY <2>2, <2>3
<1> QED
  BY <1>6, <1>7, <1>8, <1>9 DEF KeysSound

(* A key retired now was published until now. *)
LEMMA RotatePreserves ==
  ASSUME KeysSound, now' = now, Rotate
  PROVE  KeysSound'
<1>1. PICK k \in Keys : Publish(k) \/ Retire(k)
  BY DEF Rotate
<1>2. UNCHANGED <<jwks, fetchedAt, cooldownUntil, seek, forcedAt>>
  BY <1>1 DEF Publish, Retire
<1>3. /\ retired \in [Keys -> (0..MaxTime) \cup {None}]
      /\ retired' \in [Keys -> (0..MaxTime) \cup {None}]
      /\ \A j \in Keys : retired'[j] = retired[j] \/ (j = k /\ retired'[j] = now)
      /\ now \in Nat
  BY <1>1, Bounds DEF Publish, Retire, KeysSound, KeyTypeOK
<1>4. KeyTypeOK'
  BY <1>1, <1>2, <1>3 DEF KeysSound, KeyTypeOK, Publish, Retire
<1>5. PublishedAreCurrent' /\ WindowIsOpened'
  BY <1>1, <1>2, <1>3 DEF KeysSound, PublishedAreCurrent, WindowIsOpened, Publish, Retire,
                          KeyTypeOK
<1>6. CacheIsRecent'
  <2>1. jwks # None => jwks \subseteq Keys
    BY DEF KeysSound, KeyTypeOK
  <2> QED
    BY <1>2, <1>3, <2>1, Bounds DEF KeysSound, KeyTypeOK, CacheIsRecent
<1>7. SearchesAreRecent'
  <2> SUFFICES ASSUME NEW u \in Threads
               PROVE  /\ At(u, "wire")' \/ At(u, "answer")' =>
                           seek'[u].since <= now' /\ now' <= seek'[u].since + MaxFlight
                      /\ At(u, "answer")' => ServedAt(seek[u].doc, seek[u].since)'
                      /\ At(u, "look")' => jwks' # None /\ now' - fetchedAt' < TTL
    BY DEF SearchesAreRecent
  <2>1. At(u, "answer") => ServedAt(seek[u].doc, seek[u].since) /\ seek[u].since <= now
    BY DEF KeysSound, SearchesAreRecent
  <2>2. seek[u].doc \subseteq Keys /\ seek[u].since \in Nat
    BY SearchTyped
  <2>3. At(u, "answer")' => ServedAt(seek[u].doc, seek[u].since)'
    BY <1>2, <1>3, <2>1, <2>2 DEF ServedAt, At
  <2> QED
    BY <1>2, <2>3 DEF KeysSound, SearchesAreRecent, At
<1> QED
  BY <1>4, <1>5, <1>6, <1>7 DEF KeysSound

(* Time passes only while a request is out that may still be answered. *)
LEMMA KeysTick ==
  ASSUME KeysSound, now < MaxTime, now' = now + 1, KeyMayWait, UNCHANGED keyVars
  PROVE  KeysSound'
<1>1. UNCHANGED <<published, retired, jwks, fetchedAt, cooldownUntil, seek, forcedAt>>
  BY DEF keyVars
<1>2. KeyTypeOK' /\ now \in Nat
  BY <1>1, Bounds DEF KeysSound, KeyTypeOK
<1>3. PublishedAreCurrent' /\ WindowIsOpened'
  BY <1>1 DEF KeysSound, PublishedAreCurrent, WindowIsOpened
<1>4. CacheIsRecent'
  BY <1>1, <1>2 DEF KeysSound, KeyTypeOK, CacheIsRecent
<1>5. ASSUME NEW u \in Threads
      PROVE  /\ At(u, "wire")' \/ At(u, "answer")' =>
                  seek'[u].since <= now' /\ now' <= seek'[u].since + MaxFlight
             /\ At(u, "answer")' => ServedAt(seek[u].doc, seek[u].since)'
             /\ At(u, "look")' => jwks' # None /\ now' - fetchedAt' < TTL
  <2>1. seek[u].since \in Nat
    BY SearchTyped
  <2>2. \/ At(u, "idle")
        \/ (At(u, "wire") \/ At(u, "answer")) /\ now - seek[u].since < MaxFlight
    BY DEF KeyMayWait
  <2> QED
    BY <1>1, <1>2, <2>1, <2>2, Bounds DEF KeysSound, SearchesAreRecent, ServedAt, At
<1> QED
  BY <1>2, <1>3, <1>4, <1>5 DEF KeysSound, SearchesAreRecent

(* Steps of others leave the key cache sound. *)
LEMMA KeysStay ==
  ASSUME KeysSound, UNCHANGED <<now, keyVars>>
  PROVE  KeysSound'
BY DEF keyVars, KeysSound, KeyTypeOK, PublishedAreCurrent, CacheIsRecent, SearchesAreRecent,
       WindowIsOpened, ServedAt, At

-------------------------------------------------------------------------------
(* The feed: what its steps do to a question. *)

Question == [at : {"idle", "wire", "answer", "judge"}, sid : Sessions \cup {None},
             doc : SUBSET Sessions, since : 0..MaxTime, owed : BOOLEAN]

(* What a question is typed as. *)
LEMMA QuestionTyped ==
  ASSUME TypeOK, NEW t \in Threads
  PROVE  ask[t] \in Question /\ ask[t].since \in Nat /\ now \in Nat
BY Bounds DEF TypeOK, KeyTypeOK, Feed!TypeOK, Question

(* One question moves on. *)
QuestionMoves(t, q) ==
  /\ q \in Question
  /\ ask' = [ask EXCEPT ![t] = q]
  /\ ask' \in [Threads -> Question]
  /\ ask'[t] = q
  /\ \A u \in Threads \ {t} : ask'[u] = ask[u]

(* A question that is replaced by a typed one stays typed. *)
LEMMA MovedIsTyped ==
  ASSUME TypeOK, NEW t \in Threads, NEW q \in Question, ask' = [ask EXCEPT ![t] = q]
  PROVE  QuestionMoves(t, q)
BY DEF TypeOK, Feed!TypeOK, Question, QuestionMoves

(* An attempt is not due: the set at hand is asked. *)
LEMMA AskKnownStep ==
  ASSUME TypeOK, NEW t \in Threads, NEW sid \in Sessions \cup {None},
         Feed!AskKnown(t, sid)
  PROVE  /\ UNCHANGED <<revokedAt, on, listed, lastAttempt>>
         /\ Feed!At(t, "idle")
         /\ \E q \in Question : q.at = "judge" /\ ~ q.owed /\ QuestionMoves(t, q)
<1>1. PICK q : q = [at |-> "judge", sid |-> sid, doc |-> {}, since |-> 0, owed |-> FALSE]
  OBVIOUS
<1>2. {} \in SUBSET Sessions /\ 0 \in 0..MaxTime
  BY Bounds
<1>3. q \in Question /\ q.at = "judge" /\ ~ q.owed
  BY <1>1, <1>2 DEF Question
<1>4. ask' = [ask EXCEPT ![t] = q]
  <2>1. PICK r : r = [Feed!Quiet EXCEPT !.at = "judge", !.sid = sid]
    OBVIOUS
  <2>2. r = [at |-> "judge", sid |-> sid, doc |-> {}, since |-> 0, owed |-> FALSE]
    BY <2>1 DEF Feed!Quiet
  <2> QED
    BY <1>1, <2>1, <2>2 DEF Feed!AskKnown
<1> QED
  BY <1>3, <1>4, MovedIsTyped DEF Feed!AskKnown

(* An attempt is due, and marked: the request leaves now. *)
LEMMA AskPollingStep ==
  ASSUME TypeOK, NEW t \in Threads, NEW sid \in Sessions \cup {None},
         Feed!AskPolling(t, sid)
  PROVE  /\ UNCHANGED <<revokedAt, on, listed>>
         /\ lastAttempt' = now
         /\ Feed!At(t, "idle") /\ Feed!Due
         /\ \E q \in Question :
              /\ q.at = "wire" /\ q.since = now
              /\ q.owed => q.sid \in Feed!Revoked
              /\ QuestionMoves(t, q)
<1>1. PICK owed \in BOOLEAN : owed = (sid \in Feed!Revoked)
  <2>1. (sid \in Feed!Revoked) \in BOOLEAN
    OBVIOUS
  <2> QED
    BY <2>1, Zenon
<1>2. PICK q : q = [at |-> "wire", sid |-> sid, doc |-> {}, since |-> now, owed |-> owed]
  OBVIOUS
<1>3. {} \in SUBSET Sessions /\ now \in 0..MaxTime
  BY DEF TypeOK, KeyTypeOK
<1>4. q \in Question /\ q.at = "wire" /\ q.since = now /\ (q.owed => q.sid \in Feed!Revoked)
  BY <1>1, <1>2, <1>3 DEF Question
<1>5. ask' = [ask EXCEPT ![t] = q]
  <2>1. PICK r : r = [Feed!Quiet EXCEPT !.at = "wire", !.sid = sid, !.since = now,
                                        !.owed = sid \in Feed!Revoked]
    OBVIOUS
  <2>2. r = [at |-> "wire", sid |-> sid, doc |-> {}, since |-> now,
             owed |-> sid \in Feed!Revoked]
    BY <2>1 DEF Feed!Quiet
  <2> QED
    BY <1>1, <1>2, <2>1, <2>2 DEF Feed!AskPolling
<1> QED
  BY <1>4, <1>5, MovedIsTyped DEF Feed!AskPolling

(* The answer is what the server has revoked by then. *)
LEMMA AnsweredStep ==
  ASSUME TypeOK, NEW t \in Threads, Feed!Answered(t)
  PROVE  /\ UNCHANGED <<revokedAt, on, listed, lastAttempt>>
         /\ Feed!At(t, "wire")
         /\ \E q \in Question :
              /\ q.at = "answer" /\ q.doc = Feed!Revoked
              /\ q.sid = ask[t].sid /\ q.since = ask[t].since /\ q.owed = ask[t].owed
              /\ QuestionMoves(t, q)
<1>1. PICK q : q = [ask[t] EXCEPT !.at = "answer", !.doc = Feed!Revoked]
  OBVIOUS
<1>2. Feed!Revoked \in SUBSET Sessions
  BY DEF Feed!Revoked
<1>3. /\ q \in Question
      /\ q.at = "answer" /\ q.doc = Feed!Revoked
      /\ q.sid = ask[t].sid /\ q.since = ask[t].since /\ q.owed = ask[t].owed
  BY <1>1, <1>2, QuestionTyped DEF Question
<1>4. ask' = [ask EXCEPT ![t] = q]
  BY <1>1 DEF Feed!Answered, TypeOK, Feed!TypeOK
<1> QED
  BY <1>3, <1>4, MovedIsTyped DEF Feed!Answered

(* The answer becomes the set; the question goes to it. *)
LEMMA LandStep ==
  ASSUME TypeOK, NEW t \in Threads, Feed!Land(t)
  PROVE  /\ UNCHANGED <<revokedAt, on, lastAttempt>>
         /\ Feed!At(t, "answer")
         /\ listed' = ask[t].doc
         /\ \E q \in Question :
              /\ q.at = "judge" /\ q.sid = ask[t].sid /\ q.owed = ask[t].owed
              /\ QuestionMoves(t, q)
<1>1. PICK q : q = [ask[t] EXCEPT !.at = "judge", !.doc = {}, !.since = 0]
  OBVIOUS
<1>2. {} \in SUBSET Sessions /\ 0 \in 0..MaxTime
  BY Bounds
<1>3. q \in Question /\ q.at = "judge" /\ q.sid = ask[t].sid /\ q.owed = ask[t].owed
  BY <1>1, <1>2, QuestionTyped DEF Question
<1>4. ask' = [ask EXCEPT ![t] = q]
  BY <1>1 DEF Feed!Land, TypeOK, Feed!TypeOK
<1> QED
  BY <1>3, <1>4, MovedIsTyped DEF Feed!Land

(* The poll failed; the question goes to the set as it was. *)
LEMMA PollFailsStep ==
  ASSUME TypeOK, NEW t \in Threads, Feed!PollFails(t)
  PROVE  /\ UNCHANGED <<revokedAt, on, listed, lastAttempt>>
         /\ Asking(t)
         /\ \E q \in Question : q.at = "judge" /\ ~ q.owed /\ QuestionMoves(t, q)
<1>1. PICK q : q = [ask[t] EXCEPT !.at = "judge", !.doc = {}, !.since = 0, !.owed = FALSE]
  OBVIOUS
<1>2. {} \in SUBSET Sessions /\ 0 \in 0..MaxTime
  BY Bounds
<1>3. q \in Question /\ q.at = "judge" /\ ~ q.owed
  BY <1>1, <1>2, QuestionTyped DEF Question
<1>4. ask' = [ask EXCEPT ![t] = q]
  BY <1>1 DEF Feed!PollFails, TypeOK, Feed!TypeOK
<1> QED
  BY <1>3, <1>4, MovedIsTyped DEF Feed!PollFails, Asking

(* The question is answered and leaves nothing behind. *)
LEMMA JudgeStep ==
  ASSUME TypeOK, NEW t \in Threads, Feed!Judge(t)
  PROVE  /\ UNCHANGED <<revokedAt, on, listed, lastAttempt>>
         /\ Feed!At(t, "judge")
         /\ \E q \in Question : q.at = "idle" /\ ~ q.owed /\ QuestionMoves(t, q)
<1>1. PICK q : q = [at |-> "idle", sid |-> None, doc |-> {}, since |-> 0, owed |-> FALSE]
  OBVIOUS
<1>2. {} \in SUBSET Sessions /\ 0 \in 0..MaxTime
  BY Bounds
<1>3. q \in Question /\ q.at = "idle" /\ ~ q.owed
  BY <1>1, <1>2 DEF Question
<1>4. ask' = [ask EXCEPT ![t] = q]
  BY <1>1 DEF Feed!Judge, Feed!Quiet
<1> QED
  BY <1>3, <1>4, MovedIsTyped DEF Feed!Judge

-------------------------------------------------------------------------------
(* The verifications. *)

Verification == [at : {"idle", "keys", "feed", "done"}, tok : Tokens \cup {None}]

(* Nobody verifies at first. *)
LEMMA InitIsSound == Init => IInv
<1> SUFFICES ASSUME Init PROVE IInv
  OBVIOUS
<1>1. KeysSound
  BY InitKeys DEF Init
<1>2. Feed!TypeOK
  <2>1. {} \in SUBSET Sessions /\ 0 \in 0..MaxTime /\ now \in 0..MaxTime
    BY Bounds DEF Init
  <2>2. Feed!Quiet \in Question
    BY <2>1 DEF Feed!Quiet, Question
  <2>3. ask \in [Threads -> Question]
    BY <2>2 DEF Init, Feed!Init
  <2> QED
    BY <2>1, <2>3 DEF Init, Feed!Init, Feed!TypeOK, Question
<1>3. call \in [Threads -> Verification] /\ calls \in 0..MaxCalls
  BY VerificationAssumption DEF Init, Verification, NoCall
<1>4. TypeOK
  BY <1>1, <1>2, <1>3 DEF TypeOK, KeysSound, Verification
<1>5. ASSUME NEW t \in Threads PROVE InOnePlace(t) /\ CallIsGenuine(t)
  <2>1. seek[t].at = "idle" /\ ask[t].at = "idle" /\ call[t].at = "idle"
    BY DEF Init, KeyInit, Resting, Feed!Init, Feed!Quiet, NoCall
  <2> QED
    BY <2>1 DEF InOnePlace, CallIsGenuine, Doing, At, Feed!At, Asking
<1> QED
  BY <1>1, <1>4, <1>5 DEF IInv

(* A thread that does nothing, while nobody retires a key, stays sound. *)
LEMMA OthersStay ==
  ASSUME IInv, NEW u \in Threads, call'[u] = call[u], ask'[u] = ask[u], seek'[u] = seek[u],
         UNCHANGED <<now, retired>>
  PROVE  InOnePlace(u)' /\ CallIsGenuine(u)'
<1>1. InOnePlace(u) /\ CallIsGenuine(u)
  BY DEF IInv
<1>2. InOnePlace(u)'
  BY <1>1 DEF InOnePlace, Doing, At, Feed!At, Asking
<1>3. JudgedAt(u)' = JudgedAt(u)
  BY DEF JudgedAt, Feed!At, Asking
<1>4. CallIsGenuine(u)'
  BY <1>1, <1>3 DEF CallIsGenuine, Doing, Passed, FeedTime
<1> QED
  BY <1>2, <1>4

(* A step of one thread: what it owes for the invariant. *)
LEMMA OneThreadMoves ==
  ASSUME IInv, NEW t \in Threads, UNCHANGED <<now, retired>>,
         KeysSound', Feed!TypeOK', call' \in [Threads -> Verification],
         calls' \in 0..MaxCalls,
         \A u \in Threads \ {t} :
           call'[u] = call[u] /\ ask'[u] = ask[u] /\ seek'[u] = seek[u],
         InOnePlace(t)', CallIsGenuine(t)'
  PROVE  IInv'
<1>1. TypeOK'
  BY DEF TypeOK, KeysSound, Verification
<1>2. ASSUME NEW u \in Threads PROVE InOnePlace(u)' /\ CallIsGenuine(u)'
  BY OthersStay
<1> QED
  BY <1>1, <1>2 DEF IInv

(* The types that a step leaves alone. *)
LEMMA FeedStays ==
  ASSUME IInv, UNCHANGED <<now, feedVars>>
  PROVE  Feed!TypeOK'
BY DEF IInv, TypeOK, Feed!TypeOK, feedVars

(* What a verification is typed as, and the clock and the retirements. *)
LEMMA CallTyped ==
  ASSUME IInv
  PROVE  /\ call \in [Threads -> Verification] /\ calls \in 0..MaxCalls
         /\ \A t \in Threads : call[t] \in Verification /\ call[t].tok \in Tokens \cup {None}
         /\ now \in Nat
         /\ retired \in [Keys -> (0..MaxTime) \cup {None}]
         /\ \A k \in Keys : retired[k] # None => retired[k] \in Nat
BY Bounds DEF IInv, TypeOK, KeyTypeOK, Verification

(* A token judged as of an instant may be said to be judged as of an        *)
(* earlier one.                                                            *)
LEMMA PassedEarlier ==
  ASSUME IInv, NEW tok \in Tokens, NEW instant \in Int, NEW earlier \in Int,
         Passed(tok, instant), earlier <= instant
  PROVE  Passed(tok, earlier)
<1>1. tok.by \in Keys
  BY DEF Passed
<1>2. retired[tok.by] # None => retired[tok.by] \in Nat
  BY <1>1, CallTyped
<1>3. tok.exp \in Nat
  BY TokenAssumption
<1> QED
  BY <1>2, <1>3, Bounds DEF Passed

(* A verification begins, or is refused by its algorithm. *)
LEMMA VerifyPreserves ==
  ASSUME IInv, NEW t \in Threads, NEW tok \in Tokens, Verify(t, tok)
  PROVE  IInv'
<1>1. /\ Doing(t, "idle") /\ calls' = calls + 1 /\ calls < MaxCalls
      /\ UNCHANGED <<now, feedVars>>
  BY DEF Verify
<1>2. calls' \in 0..MaxCalls
  BY <1>1, CallTyped, VerificationAssumption
<1>3. At(t, "idle") /\ Feed!At(t, "idle")
  BY <1>1 DEF IInv, InOnePlace, Doing
<1>4. ask' = ask /\ Feed!TypeOK'
  BY <1>1, FeedStays DEF feedVars
<1>5. CASE ~ tok.alg /\ call' = [call EXCEPT ![t] = Refused] /\ UNCHANGED keyVars
  <2>1. KeysSound' /\ seek' = seek /\ retired' = retired
    BY <1>1, <1>5, KeysStay DEF IInv, keyVars
  <2>2. Refused \in Verification /\ Refused.at = "done" /\ Refused.tok = None
    BY DEF Refused, Verification
  <2>3. /\ call' \in [Threads -> Verification] /\ call'[t] = Refused
        /\ \A u \in Threads \ {t} : call'[u] = call[u]
    BY <1>5, <2>2, CallTyped
  <2>4. InOnePlace(t)' /\ CallIsGenuine(t)'
    BY <1>3, <1>4, <2>1, <2>2, <2>3 DEF InOnePlace, CallIsGenuine, Doing, At, Feed!At, Asking
  <2> QED
    BY <1>1, <1>2, <1>4, <2>1, <2>3, <2>4, OneThreadMoves
<1>6. CASE /\ tok.alg
           /\ SeekCached(t, tok.kid) \/ SeekFetch(t, tok.kid)
           /\ call' = [call EXCEPT ![t] = [at |-> "keys", tok |-> tok]]
  <2>1. PICK kid \in Keys \cup {None} : kid = tok.kid
    BY TokenAssumption
  <2>2. SeekCached(t, kid) \/ SeekFetch(t, kid)
    BY <1>6, <2>1
  <2>3. /\ KeysSound'
        /\ retired' = retired
        /\ ~ At(t, "idle")'
        /\ \A u \in Threads \ {t} : seek'[u] = seek[u]
    BY <1>1, <2>2, SeekPreserves DEF IInv
  <2>4. PICK v \in Verification : v = [at |-> "keys", tok |-> tok]
    BY DEF Verification
  <2>5. /\ call' \in [Threads -> Verification] /\ call'[t] = v
        /\ \A u \in Threads \ {t} : call'[u] = call[u]
    BY <1>6, <2>4, CallTyped
  <2>6. InOnePlace(t)' /\ CallIsGenuine(t)'
    BY <1>3, <1>4, <1>6, <2>3, <2>4, <2>5
       DEF InOnePlace, CallIsGenuine, Doing, Feed!At, Asking
  <2> QED
    BY <1>1, <1>2, <1>4, <2>3, <2>5, <2>6, OneThreadMoves
<1> QED
  BY <1>5, <1>6 DEF Verify

(* A search that goes on concerns the keys alone. *)
LEMMA FetchKeysPreserves ==
  ASSUME IInv, NEW t \in Threads, FetchKeys(t)
  PROVE  IInv'
<1>1. Doing(t, "keys") /\ Fetching(t) /\ UNCHANGED <<now, feedVars, call, calls>>
  BY DEF FetchKeys
<1>2. KeysSound'
  BY <1>1, AnsweredPreserves, LandPreserves, RefetchPreserves DEF Fetching, IInv
<1>3. /\ retired' = retired
      /\ ~ At(t, "idle")'
      /\ \A u \in Threads \ {t} : seek'[u] = seek[u]
  BY <1>1 DEF Fetching, Answered, Land, Refetch, At, IInv, KeysSound, KeyTypeOK
<1>4. ask' = ask /\ Feed!TypeOK'
  BY <1>1, FeedStays DEF feedVars
<1>5. Feed!At(t, "idle")
  BY <1>1 DEF IInv, InOnePlace, Doing
<1>6. InOnePlace(t)' /\ CallIsGenuine(t)'
  BY <1>1, <1>3, <1>4, <1>5 DEF IInv, InOnePlace, CallIsGenuine, Doing, Feed!At, Asking
<1> QED
  BY <1>1, <1>2, <1>3, <1>4, <1>6, CallTyped, OneThreadMoves

(* A thread that leaves the keys with a verdict. *)
LEMMA KeyUnknownPreserves ==
  ASSUME IInv, NEW t \in Threads, KeyUnknown(t)
  PROVE  IInv'
<1>1. /\ Doing(t, "keys") /\ UNCHANGED <<now, feedVars, calls>>
      /\ call' = [call EXCEPT ![t] = Refused]
      /\ seek' = [seek EXCEPT ![t] = Resting]
      /\ UNCHANGED <<published, retired, jwks, fetchedAt, cooldownUntil, forcedAt>>
  BY DEF KeyUnknown, Concludes, Miss, FetchFails
<1>2. KeysSound'
  BY <1>1, SearchEnds DEF IInv
<1>3. At(t, "idle")' /\ \A u \in Threads \ {t} : seek'[u] = seek[u]
  BY <1>1 DEF At, Resting, IInv, KeysSound, KeyTypeOK
<1>4. Refused \in Verification /\ Refused.at = "done" /\ Refused.tok = None
  BY DEF Refused, Verification
<1>5. /\ call' \in [Threads -> Verification] /\ call'[t] = Refused
      /\ \A u \in Threads \ {t} : call'[u] = call[u]
  BY <1>1, <1>4, CallTyped
<1>6. ask' = ask /\ Feed!TypeOK'
  BY <1>1, FeedStays DEF feedVars
<1>7. Feed!At(t, "idle")
  BY <1>1 DEF IInv, InOnePlace, Doing
<1>8. InOnePlace(t)' /\ CallIsGenuine(t)'
  BY <1>3, <1>4, <1>5, <1>6, <1>7 DEF InOnePlace, CallIsGenuine, Doing, Feed!At, Asking
<1> QED
  BY <1>1, <1>2, <1>3, <1>5, <1>6, <1>8, CallTyped, OneThreadMoves

(* A key found in a fresh cache was published until lately: the token it   *)
(* verifies passes as of now.                                              *)
LEMMA FoundPasses ==
  ASSUME IInv, NEW t \in Threads, NEW k \in Keys, Hit(t, k), Doing(t, "keys"),
         NEW tok, tok = call[t].tok, k = tok.by, tok.strict => ClaimsHold(tok)
  PROVE  tok \in Tokens /\ Passed(tok, now)
<1>1. tok \in Tokens /\ tok.alg
  BY DEF IInv, CallIsGenuine
<1>2. /\ jwks # None /\ now - fetchedAt < TTL
      /\ k \in jwks
  BY DEF Hit, Candidates, IInv, KeysSound, SearchesAreRecent
<1>3. retired[k] # None => retired[k] \in Nat /\ retired[k] + MaxFlight >= fetchedAt
  BY <1>2, CallTyped DEF IInv, KeysSound, CacheIsRecent
<1>4. now \in Nat /\ fetchedAt \in Nat
  BY SearchTyped DEF IInv
<1>5. retired[k] # None => now - retired[k] <= TTL - 1 + MaxFlight
  BY <1>2, <1>3, <1>4, Bounds
<1> QED
  BY <1>1, <1>5 DEF Passed, ClaimsHold, InLifetime, ConfirmationHolds

(* The signature and the claims are judged as of now; the feed is next, or *)
(* nothing is.                                                             *)
LEMMA KeyFoundPreserves ==
  ASSUME IInv, NEW t \in Threads, KeyFound(t)
  PROVE  IInv'
<1>1. PICK k \in Keys, tok \in {call[t].tok} :
        /\ Hit(t, k)
        /\ tok = call[t].tok
        /\ \/ /\ k = tok.by /\ (tok.strict => ClaimsHold(tok))
              /\ tok.strict /\ Goes(t, "feed")
           \/ /\ k = tok.by /\ (tok.strict => ClaimsHold(tok))
              /\ Concludes(t, TRUE)
           \/ Concludes(t, FALSE)
  <2>1. PICK k \in Keys :
          /\ Hit(t, k)
          /\ LET tok == call[t].tok
                 holds == k = tok.by /\ (tok.strict => ClaimsHold(tok))
             IN \/ holds /\ tok.strict /\ tok.sid # None /\ Goes(t, "feed")
                \/ ~ (holds /\ tok.strict /\ tok.sid # None) /\ Concludes(t, holds)
    BY DEF KeyFound
  <2>2. CASE k = call[t].tok.by /\ (call[t].tok.strict => ClaimsHold(call[t].tok))
    BY <2>1, <2>2 DEF Concludes
  <2>3. CASE ~ (k = call[t].tok.by /\ (call[t].tok.strict => ClaimsHold(call[t].tok)))
    BY <2>1, <2>3 DEF Concludes
  <2> QED
    BY <2>2, <2>3
<1>2. Doing(t, "keys") /\ UNCHANGED <<now, feedVars, calls>>
  BY DEF KeyFound
<1>3. /\ seek' = [seek EXCEPT ![t] = Resting]
      /\ UNCHANGED <<published, retired, jwks, fetchedAt, cooldownUntil, forcedAt>>
  BY <1>1 DEF Hit
<1>4. KeysSound'
  BY <1>2, <1>3, SearchEnds DEF IInv
<1>5. At(t, "idle")' /\ \A u \in Threads \ {t} : seek'[u] = seek[u]
  BY <1>3 DEF At, Resting, IInv, KeysSound, KeyTypeOK
<1>6. ask' = ask /\ Feed!TypeOK' /\ Feed!At(t, "idle")
  BY <1>2, FeedStays DEF feedVars, IInv, InOnePlace, Doing
<1>7. PICK v \in Verification :
        /\ call' = [call EXCEPT ![t] = v]
        /\ \/ v.at = "feed" /\ v.tok = tok /\ tok.strict
           \/ v.at = "done" /\ v.tok = tok
           \/ v.at = "done" /\ v.tok = None
        /\ v.tok = None \/ (k = tok.by /\ (tok.strict => ClaimsHold(tok)))
  <2>1. CASE k = tok.by /\ (tok.strict => ClaimsHold(tok)) /\ tok.strict /\ Goes(t, "feed")
    <3>1. PICK v : v = [call[t] EXCEPT !.at = "feed"]
      OBVIOUS
    <3>2. v \in Verification /\ v.at = "feed" /\ v.tok = tok
      BY <1>1, <3>1, CallTyped DEF Verification
    <3> QED
      BY <2>1, <3>1, <3>2, CallTyped DEF Goes, Verification
  <2>2. CASE k = tok.by /\ (tok.strict => ClaimsHold(tok)) /\ Concludes(t, TRUE)
    <3>1. PICK v : v = [call[t] EXCEPT !.at = "done"]
      OBVIOUS
    <3>2. v \in Verification /\ v.at = "done" /\ v.tok = tok
      BY <1>1, <3>1, CallTyped DEF Verification
    <3> QED
      BY <2>2, <3>1, <3>2, CallTyped DEF Concludes, Verification
  <2>3. CASE Concludes(t, FALSE)
    <3>1. call' = [call EXCEPT ![t] = Refused]
      BY <2>3 DEF Concludes
    <3>2. Refused \in Verification /\ Refused.at = "done" /\ Refused.tok = None
      BY DEF Refused, Verification
    <3> QED
      BY <3>1, <3>2
  <2> QED
    BY <1>1, <2>1, <2>2, <2>3
<1>8. /\ call' \in [Threads -> Verification] /\ call'[t] = v
      /\ \A u \in Threads \ {t} : call'[u] = call[u]
  BY <1>7, CallTyped
<1>9. InOnePlace(t)'
  BY <1>5, <1>6, <1>7, <1>8 DEF InOnePlace, Doing, Feed!At, Asking
<1>10. v.tok # None => v.tok = tok /\ tok \in Tokens /\ Passed(tok, now)
  BY <1>1, <1>2, <1>7, FoundPasses
<1>11. v.tok # None => Passed(tok, now) /\ Passed(tok, now - FeedTime(tok))
  <2>1. FeedTime(tok) \in Nat
    BY Bounds DEF FeedTime
  <2>2. now \in Int /\ now - FeedTime(tok) \in Int /\ now - FeedTime(tok) <= now
    BY <2>1, CallTyped
  <2> QED
    BY <1>10, <2>2, PassedEarlier
<1>12. CallIsGenuine(t)'
  <2>1. JudgedAt(t)' = now
    BY <1>2, <1>6 DEF JudgedAt, Feed!At
  <2>2. now' = now /\ retired' = retired
    BY <1>2, <1>3
  <2>3. None \notin Tokens /\ v.at # "keys"
    BY <1>7, Bounds
  <2>4. CASE v.tok = None
    <3>1. tok # None
      BY <1>1, <1>2, <2>3 DEF IInv, CallIsGenuine
    <3>2. v.at = "done"
      BY <1>7, <2>4, <3>1
    <3> QED
      BY <1>8, <2>4, <3>2 DEF CallIsGenuine, Doing
  <2>5. CASE v.tok # None
    BY <1>7, <1>8, <1>10, <1>11, <2>1, <2>2, <2>3, <2>5
       DEF CallIsGenuine, Doing, Passed, FeedTime
  <2> QED
    BY <2>4, <2>5
<1> QED
  BY <1>2, <1>3, <1>4, <1>5, <1>6, <1>8, <1>9, <1>12, CallTyped, OneThreadMoves

(* A step of the feed leaves the keys alone. *)
LEMMA KeysRest ==
  ASSUME IInv, UNCHANGED <<now, keyVars>>
  PROVE  KeysSound' /\ seek' = seek /\ retired' = retired
BY KeysStay DEF IInv, keyVars

(* The feed stays typed when one question moves. *)
LEMMA FeedMovedIsTyped ==
  ASSUME TypeOK, NEW t \in Threads, NEW q \in Question, QuestionMoves(t, q),
         UNCHANGED <<now, revokedAt, on>>,
         listed' \in (SUBSET Sessions) \cup {None},
         lastAttempt' \in (0..MaxTime) \cup {None}
  PROVE  Feed!TypeOK'
BY DEF TypeOK, Feed!TypeOK, QuestionMoves, Question

(* A question that stays open. *)
LEMMA QuestionGoesOn ==
  ASSUME IInv, NEW t \in Threads, NEW q \in Question, QuestionMoves(t, q), Doing(t, "feed"),
         UNCHANGED <<now, keyVars, call, calls>>, Feed!TypeOK',
         q.at # "idle",
         q.at \in {"wire", "answer"} =>
           /\ q.since <= now /\ now <= q.since + MaxFlight
           /\ Passed(call[t].tok, q.since),
         q.at = "judge" => Passed(call[t].tok, now - MaxFlight)
  PROVE  IInv'
<1>1. KeysSound' /\ seek' = seek /\ retired' = retired /\ now' = now /\ call' = call
  BY KeysRest
<1>2. ask'[t] = q /\ \A u \in Threads \ {t} : ask'[u] = ask[u]
  BY DEF QuestionMoves
<1>3. InOnePlace(t)'
  BY <1>1, <1>2 DEF IInv, InOnePlace, Doing, At, Feed!At, Asking
<1>4. q.at \in {"wire", "answer", "judge"}
  BY DEF Question
<1>5. CallIsGenuine(t)'
  <2>1. call[t].tok \in Tokens /\ call[t].tok.strict
    BY DEF IInv, CallIsGenuine
  <2>2. Passed(call[t].tok, JudgedAt(t)')
    BY <1>1, <1>2, <1>4 DEF JudgedAt, Feed!At, Asking
  <2> QED
    BY <1>1, <2>1, <2>2 DEF CallIsGenuine, Doing, Passed
<1>6. call' \in [Threads -> Verification] /\ calls' \in 0..MaxCalls
  BY CallTyped
<1> QED
  BY <1>1, <1>2, <1>3, <1>5, <1>6, OneThreadMoves

(* A question that is answered. *)
LEMMA QuestionEnds ==
  ASSUME IInv, NEW t \in Threads, Doing(t, "feed"),
         UNCHANGED <<now, keyVars, calls>>, Feed!TypeOK',
         ask'[t].at = "idle", \A u \in Threads \ {t} : ask'[u] = ask[u],
         NEW ok \in BOOLEAN, Concludes(t, ok),
         ok => Passed(call[t].tok, now - FeedTime(call[t].tok))
  PROVE  IInv'
<1>1. KeysSound' /\ seek' = seek /\ retired' = retired /\ now' = now
  BY KeysRest
<1>2. call[t] \in Verification /\ call[t].tok \in Tokens /\ None \notin Tokens
  BY CallTyped, Bounds DEF IInv, CallIsGenuine
<1>3. PICK v \in Verification :
        /\ call' = [call EXCEPT ![t] = v]
        /\ v.at = "done"
        /\ (ok /\ v.tok = call[t].tok) \/ v.tok = None
  <2>1. CASE ok
    <3>1. PICK v : v = [call[t] EXCEPT !.at = "done"]
      OBVIOUS
    <3>2. v \in Verification /\ v.at = "done" /\ v.tok = call[t].tok
      BY <1>2, <3>1 DEF Verification
    <3>3. call' = [call EXCEPT ![t] = v]
      BY <2>1, <3>1 DEF Concludes
    <3> QED
      BY <2>1, <3>2, <3>3
  <2>2. CASE ~ ok
    <3>1. call' = [call EXCEPT ![t] = Refused]
      BY <2>2 DEF Concludes
    <3>2. Refused \in Verification /\ Refused.at = "done" /\ Refused.tok = None
      BY DEF Refused, Verification
    <3> QED
      BY <3>1, <3>2
  <2> QED
    BY <2>1, <2>2
<1>4. /\ call' \in [Threads -> Verification] /\ call'[t] = v
      /\ \A u \in Threads \ {t} : call'[u] = call[u]
  BY <1>3, CallTyped
<1>5. InOnePlace(t)'
  BY <1>1, <1>3, <1>4 DEF IInv, InOnePlace, Doing, At, Feed!At, Asking
<1>6. CallIsGenuine(t)'
  BY <1>1, <1>2, <1>3, <1>4 DEF CallIsGenuine, Doing, Passed, FeedTime
<1>7. calls' \in 0..MaxCalls
  BY CallTyped
<1> QED
  BY <1>1, <1>4, <1>5, <1>6, <1>7, OneThreadMoves

(* A token whose lifetime has been checked is looked for in the feed. *)
LEMMA AskFeedPreserves ==
  ASSUME IInv, NEW t \in Threads, AskFeed(t)
  PROVE  IInv'
<1>1. Doing(t, "feed") /\ UNCHANGED <<now, keyVars, calls>> /\ TypeOK
  BY DEF AskFeed, IInv
<1>2. PICK tok \in Tokens : tok = call[t].tok
  BY <1>1 DEF IInv, CallIsGenuine
<1>3. tok.strict /\ Passed(tok, JudgedAt(t))
  BY <1>1, <1>2 DEF IInv, CallIsGenuine
<1>4. now \in Int /\ now - MaxFlight \in Int /\ now - MaxFlight <= now
  BY CallTyped, Bounds
<1>5. Feed!At(t, "idle") => Passed(tok, now) /\ Passed(tok, now - MaxFlight)
  <2>1. Feed!At(t, "idle") => Passed(tok, now)
    BY <1>3 DEF JudgedAt
  <2> QED
    BY <1>4, <2>1, PassedEarlier
<1>6. PICK sid \in Sessions \cup {None} : sid = tok.sid
  BY TokenAssumption
<1>7. listed \in (SUBSET Sessions) \cup {None} /\ lastAttempt \in (0..MaxTime) \cup {None}
      /\ now \in 0..MaxTime
  BY <1>1 DEF TypeOK, Feed!TypeOK
<1>8. CASE Feed!Skip(t) /\ Concludes(t, TRUE)
  <2>1. Feed!At(t, "idle") /\ UNCHANGED feedVars
    BY <1>8 DEF Feed!Skip, Feed!feedVars, feedVars
  <2>2. Feed!TypeOK' /\ ask' = ask
    BY <1>1, <2>1, FeedStays DEF feedVars
  <2>3. ask'[t].at = "idle"
    BY <2>1, <2>2 DEF Feed!At
  <2>4. Passed(call[t].tok, now - FeedTime(call[t].tok))
    BY <1>2, <1>3, <1>5, <2>1 DEF FeedTime
  <2> QED
    BY <1>1, <1>8, <2>2, <2>3, <2>4, QuestionEnds
<1>9. CASE Feed!AskKnown(t, sid) /\ UNCHANGED call
  <2>1. /\ UNCHANGED <<revokedAt, on, listed, lastAttempt>>
        /\ Feed!At(t, "idle")
        /\ \E q \in Question : q.at = "judge" /\ ~ q.owed /\ QuestionMoves(t, q)
    BY <1>1, <1>9, AskKnownStep
  <2>2. PICK q \in Question : q.at = "judge" /\ QuestionMoves(t, q)
    BY <2>1
  <2>3. Feed!TypeOK'
    BY <1>1, <1>7, <2>1, <2>2, FeedMovedIsTyped
  <2> QED
    BY <1>1, <1>2, <1>5, <1>9, <2>1, <2>2, <2>3, QuestionGoesOn
<1>10. CASE Feed!AskPolling(t, sid) /\ UNCHANGED call
  <2>1. /\ UNCHANGED <<revokedAt, on, listed>>
        /\ lastAttempt' = now
        /\ Feed!At(t, "idle")
        /\ \E q \in Question : q.at = "wire" /\ q.since = now /\ QuestionMoves(t, q)
    BY <1>1, <1>10, AskPollingStep
  <2>2. PICK q \in Question : q.at = "wire" /\ q.since = now /\ QuestionMoves(t, q)
    BY <2>1
  <2>3. Feed!TypeOK'
    BY <1>1, <1>7, <2>1, <2>2, FeedMovedIsTyped
  <2>4. q.since <= now /\ now <= q.since + MaxFlight
    BY <1>4, <2>2, Bounds
  <2> QED
    BY <1>1, <1>2, <1>5, <1>10, <2>1, <2>2, <2>3, <2>4, QuestionGoesOn
<1> QED
  BY <1>2, <1>6, <1>8, <1>9, <1>10 DEF AskFeed

(* A poll takes MaxFlight at most, whatever becomes of it. *)
LEMMA PollFeedPreserves ==
  ASSUME IInv, NEW t \in Threads, PollFeed(t)
  PROVE  IInv'
<1>1. /\ Doing(t, "feed") /\ UNCHANGED <<now, keyVars, call, calls>> /\ TypeOK
      /\ Feed!Answered(t) \/ Feed!Land(t) \/ Feed!PollFails(t)
  BY DEF PollFeed, Feed!Polling, IInv
<1>2. PICK tok \in Tokens : tok = call[t].tok
  BY <1>1 DEF IInv, CallIsGenuine
<1>3. Passed(tok, JudgedAt(t))
  BY <1>1, <1>2 DEF IInv, CallIsGenuine
<1>4. /\ listed \in (SUBSET Sessions) \cup {None} /\ lastAttempt \in (0..MaxTime) \cup {None}
      /\ ask[t].doc \in SUBSET Sessions /\ ask[t].since \in Nat /\ now \in Nat
  BY <1>1, QuestionTyped DEF TypeOK, Feed!TypeOK, Question
<1>5. Asking(t) =>
        /\ ask[t].since <= now /\ now <= ask[t].since + MaxFlight
        /\ Passed(tok, ask[t].since)
  BY <1>3 DEF IInv, InOnePlace, JudgedAt, Asking, Feed!At
<1>6. Asking(t) => Passed(tok, now - MaxFlight)
  <2>1. Asking(t) => now - MaxFlight <= ask[t].since
    BY <1>4, <1>5, Bounds
  <2>2. now - MaxFlight \in Int /\ ask[t].since \in Int
    BY <1>4, Bounds
  <2> QED
    BY <1>5, <2>1, <2>2, PassedEarlier
<1>7. CASE Feed!Answered(t)
  <2>1. /\ UNCHANGED <<revokedAt, on, listed, lastAttempt>>
        /\ Feed!At(t, "wire")
        /\ \E q \in Question :
             q.at = "answer" /\ q.since = ask[t].since /\ QuestionMoves(t, q)
    BY <1>1, <1>7, AnsweredStep
  <2>2. PICK q \in Question :
          q.at = "answer" /\ q.since = ask[t].since /\ QuestionMoves(t, q)
    BY <2>1
  <2>3. Feed!TypeOK'
    BY <1>1, <1>4, <2>1, <2>2, FeedMovedIsTyped
  <2>4. Asking(t)
    BY <2>1 DEF Asking
  <2> QED
    BY <1>1, <1>2, <1>5, <2>2, <2>3, <2>4, QuestionGoesOn
<1>8. CASE Feed!Land(t) \/ Feed!PollFails(t)
  <2>1. /\ UNCHANGED <<revokedAt, on, lastAttempt>>
        /\ listed' = ask[t].doc \/ listed' = listed
        /\ Asking(t)
        /\ \E q \in Question : q.at = "judge" /\ QuestionMoves(t, q)
    BY <1>1, <1>8, LandStep, PollFailsStep DEF Asking
  <2>2. PICK q \in Question : q.at = "judge" /\ QuestionMoves(t, q)
    BY <2>1
  <2>3. Feed!TypeOK'
    BY <1>1, <1>4, <2>1, <2>2, FeedMovedIsTyped
  <2> QED
    BY <1>1, <1>2, <1>6, <2>1, <2>2, <2>3, QuestionGoesOn
<1> QED
  BY <1>1, <1>7, <1>8

(* The verdict is about the token as judged a request ago at the earliest. *)
LEMMA CheckRevocationPreserves ==
  ASSUME IInv, NEW t \in Threads, CheckRevocation(t)
  PROVE  IInv'
<1>1. /\ Doing(t, "feed") /\ UNCHANGED <<now, keyVars, calls>> /\ TypeOK
      /\ Feed!Judge(t)
      /\ Concludes(t, ~ Feed!Known(ask[t].sid))
  BY DEF CheckRevocation, IInv
<1>2. PICK ok \in BOOLEAN : ok = ~ Feed!Known(ask[t].sid)
  <2>1. (~ Feed!Known(ask[t].sid)) \in BOOLEAN
    OBVIOUS
  <2> QED
    BY <2>1, Zenon
<1>3. /\ UNCHANGED <<revokedAt, on, listed, lastAttempt>>
      /\ Feed!At(t, "judge")
      /\ \E q \in Question : q.at = "idle" /\ QuestionMoves(t, q)
  BY <1>1, JudgeStep
<1>4. PICK q \in Question : q.at = "idle" /\ QuestionMoves(t, q)
  BY <1>3
<1>5. listed \in (SUBSET Sessions) \cup {None} /\ lastAttempt \in (0..MaxTime) \cup {None}
  BY <1>1 DEF TypeOK, Feed!TypeOK
<1>6. Feed!TypeOK'
  BY <1>1, <1>3, <1>4, <1>5, FeedMovedIsTyped
<1>7. ask'[t].at = "idle" /\ \A u \in Threads \ {t} : ask'[u] = ask[u]
  BY <1>4 DEF QuestionMoves
<1>8. Passed(call[t].tok, now - FeedTime(call[t].tok))
  BY <1>1, <1>3 DEF IInv, CallIsGenuine, JudgedAt, Asking, Feed!At, FeedTime
<1>9. Concludes(t, ok)
  BY <1>1, <1>2
<1> QED
  BY <1>1, <1>6, <1>7, <1>8, <1>9, QuestionEnds

(* A verdict is handed over. *)
LEMMA ReturnPreserves ==
  ASSUME IInv, NEW t \in Threads, Return(t)
  PROVE  IInv'
<1>1. Doing(t, "done") /\ call' = [call EXCEPT ![t] = NoCall] /\ UNCHANGED calls
  BY DEF Return
<1>2. UNCHANGED <<now, keyVars>> /\ UNCHANGED <<now, feedVars>>
  BY DEF Return
<1>3. KeysSound' /\ seek' = seek /\ retired' = retired
  BY <1>2, KeysRest
<1>4. Feed!TypeOK' /\ ask' = ask
  BY <1>2, FeedStays DEF feedVars
<1>5. NoCall \in Verification /\ NoCall.at = "idle"
  BY DEF NoCall, Verification
<1>6. /\ call' \in [Threads -> Verification] /\ call'[t] = NoCall
      /\ \A u \in Threads \ {t} : call'[u] = call[u]
  BY <1>1, <1>5, CallTyped
<1>7. At(t, "idle") /\ Feed!At(t, "idle")
  BY <1>1 DEF IInv, InOnePlace, Doing
<1>8. InOnePlace(t)' /\ CallIsGenuine(t)'
  BY <1>3, <1>4, <1>5, <1>6, <1>7 DEF InOnePlace, CallIsGenuine, Doing, At, Feed!At, Asking
<1> QED
  BY <1>1, <1>2, <1>3, <1>4, <1>6, <1>8, CallTyped, OneThreadMoves

(* A step that leaves every thread, every key and the clock where they are. *)
LEMMA ThreadsStay ==
  ASSUME IInv, UNCHANGED <<now, retired, call, calls, ask, seek>>, KeysSound', Feed!TypeOK'
  PROVE  IInv'
<1>1. TypeOK'
  BY DEF IInv, TypeOK, KeysSound
<1>2. ASSUME NEW u \in Threads PROVE InOnePlace(u)' /\ CallIsGenuine(u)'
  BY OthersStay
<1> QED
  BY <1>1, <1>2 DEF IInv

(* Turning the feed on asks nothing. *)
LEMMA EnablePreserves == IInv /\ Enable => IInv'
<1> SUFFICES ASSUME IInv, Enable PROVE IInv'
  OBVIOUS
<1>1. UNCHANGED <<now, keyVars>> /\ UNCHANGED <<call, calls, ask>>
  BY DEF Enable, Feed!Enable
<1>2. Feed!TypeOK'
  BY DEF Enable, Feed!Enable, IInv, TypeOK, Feed!TypeOK
<1> QED
  BY <1>1, <1>2, KeysRest, ThreadsStay

(* A revocation concerns the server alone, so far. *)
LEMMA RevokePreserves ==
  ASSUME IInv, NEW s \in Sessions, Feed!Revoke(s), UNCHANGED <<now, keyVars, call, calls>>
  PROVE  IInv'
<1>1. UNCHANGED <<now, keyVars>> /\ UNCHANGED <<call, calls, ask>>
  BY DEF Feed!Revoke
<1>2. Feed!TypeOK'
  BY DEF Feed!Revoke, IInv, TypeOK, Feed!TypeOK
<1> QED
  BY <1>1, <1>2, KeysRest, ThreadsStay

(* A key retired now had not been when a token in hand was judged. *)
LEMMA RetiredLater ==
  ASSUME IInv, Rotate, UNCHANGED <<now, feedVars, call, calls>>
  PROVE  IInv'
<1>1. KeysSound'
  BY RotatePreserves DEF IInv
<1>2. Feed!TypeOK'
  BY FeedStays
<1>3. TypeOK'
  BY <1>1, <1>2 DEF IInv, TypeOK, KeysSound
<1>4. PICK k \in Keys : Publish(k) \/ Retire(k)
  BY DEF Rotate
<1>5. seek' = seek /\ ask' = ask /\ call' = call /\ now' = now
  BY <1>4 DEF Publish, Retire, feedVars
<1>6. \A j \in Keys : retired'[j] = retired[j] \/ retired'[j] = now
  BY <1>4, CallTyped DEF Publish, Retire
<1>7. ASSUME NEW tok \in Tokens, NEW instant \in Int, Passed(tok, instant), instant <= now
      PROVE  Passed(tok, instant)'
  <2>1. tok.by \in Keys
    BY <1>7 DEF Passed
  <2>2. retired'[tok.by] = retired[tok.by] \/ retired'[tok.by] = now
    BY <1>6, <2>1
  <2>3. instant - now <= TTL - 1 + MaxFlight
    BY <1>7, CallTyped, Bounds
  <2> QED
    BY <1>5, <1>7, <2>2, <2>3 DEF Passed
<1>8. ASSUME NEW u \in Threads PROVE InOnePlace(u)' /\ CallIsGenuine(u)'
  <2>1. InOnePlace(u) /\ CallIsGenuine(u)
    BY DEF IInv
  <2>2. InOnePlace(u)'
    BY <1>5, <2>1 DEF InOnePlace, Doing, At, Feed!At, Asking
  <2>3. PICK instant : instant = JudgedAt(u)
    OBVIOUS
  <2>4. instant \in Int /\ instant <= now
    <3>1. now \in Nat /\ ask[u].since \in Nat
      BY CallTyped, QuestionTyped DEF IInv
    <3>2. Asking(u) => ask[u].since <= now
      BY <2>1 DEF InOnePlace
    <3> QED
      BY <2>3, <3>1, <3>2, Bounds DEF JudgedAt
  <2>5. JudgedAt(u)' = instant
    BY <1>5, <2>3 DEF JudgedAt, Feed!At, Asking
  <2>6. ASSUME Doing(u, "feed")
        PROVE  call[u].tok \in Tokens /\ call[u].tok.strict /\ Passed(call[u].tok, instant)'
    <3>1. PICK tok \in Tokens : tok = call[u].tok
      BY <2>1, <2>6 DEF CallIsGenuine
    <3> QED
      BY <1>7, <2>1, <2>3, <2>4, <2>6, <3>1 DEF CallIsGenuine
  <2>7. ASSUME Doing(u, "done"), call[u].tok # None
        PROVE  /\ call[u].tok \in Tokens
               /\ Passed(call[u].tok, now - FeedTime(call[u].tok))'
    <3>1. PICK tok \in Tokens : tok = call[u].tok
      BY <2>1, <2>7 DEF CallIsGenuine
    <3>2. PICK instants : instants = now - FeedTime(tok)
      OBVIOUS
    <3>3. instants \in Int /\ instants <= now
      BY <3>2, CallTyped, Bounds DEF FeedTime
    <3>4. Passed(tok, instants)
      BY <2>1, <2>7, <3>1, <3>2 DEF CallIsGenuine
    <3>5. Passed(tok, instants)'
      BY <1>7, <3>3, <3>4
    <3> QED
      BY <1>5, <3>1, <3>2, <3>5 DEF Passed, FeedTime
  <2>8. CallIsGenuine(u)'
    BY <1>5, <2>1, <2>5, <2>6, <2>7 DEF CallIsGenuine, Doing, Passed, FeedTime
  <2> QED
    BY <2>2, <2>8
<1> QED
  BY <1>1, <1>3, <1>8 DEF IInv

(* Time passes only for a thread that is out, and none is out with a        *)
(* verdict.                                                                *)
LEMMA TickPreserves == IInv /\ Tick => IInv'
<1> SUFFICES ASSUME IInv, Tick PROVE IInv'
  OBVIOUS
<1>1. /\ now < MaxTime /\ now' = now + 1 /\ KeyMayWait /\ Feed!MayWait
      /\ UNCHANGED <<keyVars, feedVars, call, calls>>
      /\ \A t \in Threads : Doing(t, "idle") \/ ~ At(t, "idle") \/ ~ Feed!At(t, "idle")
  BY DEF Tick
<1>2. KeysSound'
  BY <1>1, KeysTick DEF IInv
<1>3. seek' = seek /\ ask' = ask /\ call' = call /\ calls' = calls /\ retired' = retired
  BY <1>1 DEF keyVars, feedVars
<1>4. now \in Nat /\ now' \in Nat
  BY <1>1, CallTyped
<1>5. Feed!TypeOK'
  BY <1>1, <1>2 DEF feedVars, IInv, TypeOK, Feed!TypeOK, KeysSound, KeyTypeOK
<1>6. TypeOK'
  BY <1>2, <1>3, <1>5 DEF IInv, TypeOK, KeysSound
<1>7. ASSUME NEW u \in Threads PROVE InOnePlace(u)' /\ CallIsGenuine(u)'
  <2>1. InOnePlace(u) /\ CallIsGenuine(u)
    BY DEF IInv
  <2>2. \/ Feed!At(u, "idle")
        \/ Asking(u) /\ ~ Feed!At(u, "idle") /\ now - ask[u].since < MaxFlight
    BY <1>1 DEF Feed!MayWait, Feed!At, Asking
  <2>3. ask[u].since \in Nat
    BY QuestionTyped DEF IInv
  <2>4. Asking(u) => now' <= ask[u].since + MaxFlight /\ ask[u].since <= now'
    <3>1. Asking(u) => now - ask[u].since < MaxFlight /\ ask[u].since <= now
      BY <2>1, <2>2 DEF Asking, Feed!At, InOnePlace
    <3> QED
      BY <1>1, <1>4, <2>3, <3>1, Bounds
  <2>5. InOnePlace(u)'
    BY <1>3, <2>1, <2>4 DEF InOnePlace, Doing, At, Feed!At, Asking
  <2>6. ~ Doing(u, "done")
    BY <1>1, <2>1 DEF InOnePlace, Doing
  <2>7. ASSUME Doing(u, "feed")
        PROVE  /\ call[u].tok \in Tokens /\ call[u].tok.strict
               /\ Passed(call[u].tok, JudgedAt(u))'
    <3>1. Asking(u) /\ ~ Feed!At(u, "idle")
      BY <1>1, <2>1, <2>2, <2>7 DEF InOnePlace, Doing
    <3>2. JudgedAt(u) = ask[u].since /\ JudgedAt(u)' = ask[u].since
      BY <1>3, <3>1 DEF JudgedAt, Feed!At, Asking
    <3>3. PICK tok \in Tokens : tok = call[u].tok
      BY <2>1, <2>7 DEF CallIsGenuine
    <3>4. tok.strict /\ Passed(tok, ask[u].since)
      BY <2>1, <2>7, <3>2, <3>3 DEF CallIsGenuine
    <3>5. tok.nbf <= now + Skew => tok.nbf <= now' + Skew
      BY <1>1, <1>4, TokenAssumption, Bounds
    <3> QED
      BY <1>3, <3>2, <3>3, <3>4, <3>5 DEF Passed
  <2>8. CallIsGenuine(u)'
    BY <1>3, <2>1, <2>6, <2>7 DEF CallIsGenuine, Doing
  <2> QED
    BY <2>5, <2>8
<1> QED
  BY <1>2, <1>6, <1>7 DEF IInv

(* Every step keeps the invariant. *)
LEMMA NextPreserves == IInv /\ [Next]_vars => IInv'
<1> SUFFICES ASSUME IInv, [Next]_vars PROVE IInv'
  OBVIOUS
<1>1. ASSUME NEW t \in Threads, NEW tok \in Tokens, Verify(t, tok) PROVE IInv'
  BY <1>1, VerifyPreserves
<1>2. ASSUME NEW t \in Threads, FetchKeys(t) \/ KeyUnknown(t) \/ KeyFound(t) PROVE IInv'
  BY <1>2, FetchKeysPreserves, KeyUnknownPreserves, KeyFoundPreserves
<1>3. ASSUME NEW t \in Threads, AskFeed(t) \/ PollFeed(t) \/ CheckRevocation(t) PROVE IInv'
  BY <1>3, AskFeedPreserves, PollFeedPreserves, CheckRevocationPreserves
<1>4. ASSUME NEW t \in Threads, Return(t) PROVE IInv'
  BY <1>4, ReturnPreserves
<1>5. CASE Enable
  BY <1>5, EnablePreserves
<1>6. CASE Server
  BY <1>6, RetiredLater, RevokePreserves DEF Server
<1>7. CASE Tick
  BY <1>7, TickPreserves
<1>8. CASE UNCHANGED vars
  <2>1. UNCHANGED <<now, keyVars>> /\ UNCHANGED <<now, feedVars>> /\ UNCHANGED <<call, calls>>
    BY <1>8 DEF vars
  <2>2. ask' = ask
    BY <2>1 DEF feedVars
  <2> QED
    BY <2>1, <2>2, KeysRest, FeedStays, ThreadsStay
<1> QED
  BY <1>1, <1>2, <1>3, <1>4, <1>5, <1>6, <1>7, <1>8 DEF Next

(* The invariant: the cache is no older than a request, searches and polls *)
(* end in time, and a token in hand was judged as recently as its place    *)
(* says.                                                                   *)
THEOREM Inductive == Spec => []IInv
BY InitIsSound, NextPreserves, PTL DEF Spec

(* The invariant holds what is said of an accepted token. *)
LEMMA GenuineInside == IInv => AcceptedIsGenuine
<1> SUFFICES ASSUME IInv, NEW t \in Threads, Doing(t, "done"), call[t] # Refused
             PROVE  LET tok == call[t].tok IN
                      /\ tok.alg /\ tok.by \in Keys
                      /\ LatelyPublished(tok.by, FeedTime(tok))
                      /\ tok.strict =>
                           /\ tok.ours
                           /\ now <= tok.exp + Skew + FeedTime(tok)
                           /\ tok.nbf <= now + Skew
                           /\ tok.cnf = "none" \/ (tok.cnf = "cert" /\ tok.cert)
  BY DEF AcceptedIsGenuine
<1>1. call[t].tok # None
  BY CallTyped DEF Doing, Verification, Refused
<1>2. PICK tok \in Tokens : tok = call[t].tok
  BY <1>1 DEF IInv, CallIsGenuine
<1>3. Passed(tok, now - FeedTime(tok))
  BY <1>1, <1>2 DEF IInv, CallIsGenuine
<1>4. FeedTime(tok) \in Nat /\ now \in Nat /\ tok.exp \in Nat
  BY CallTyped, Bounds, TokenAssumption DEF FeedTime
<1>5. tok.by \in Keys /\ (retired[tok.by] # None => retired[tok.by] \in Nat)
  BY <1>3, CallTyped DEF Passed
<1>6. LatelyPublished(tok.by, FeedTime(tok))
  BY <1>3, <1>4, <1>5, Bounds DEF LatelyPublished, Passed
<1>7. tok.strict => now <= tok.exp + Skew + FeedTime(tok)
  BY <1>3, <1>4, Bounds DEF Passed
<1> QED
  BY <1>2, <1>3, <1>6, <1>7 DEF Passed

(* Whatever the threads, the rotations and the order answers land in: a    *)
(* token that was accepted is signed by a key the server published until   *)
(* lately and, under the strict policy, is ours, confirmed and alive but   *)
(* for the skew and the time the feed took (verify_core(), check_claims()).*)
THEOREM Genuine == Spec => []AcceptedIsGenuine
BY Inductive, GenuineInside, PTL

(* A forced fetch is begun by the re-fetch of lookup_key() alone. *)
LEMMA OnlyRefetchForces ==
  ASSUME IInv, Next, NEW t \in Threads, BeginsForced(t)
  PROVE  Refetch(t)
<1>1. seek \in [Threads -> Search] /\ seek'[t] # seek[t]
  BY DEF IInv, KeysSound, KeyTypeOK, Search, BeginsForced
<1>2. ASSUME NEW u \in Threads, NEW tok \in Tokens, Verify(u, tok) PROVE FALSE
  <2>1. now' = now /\ seek' # seek
    BY <1>1, <1>2 DEF Verify
  <2>2. PICK kid \in Keys \cup {None} : kid = tok.kid
    BY TokenAssumption
  <2>3. SeekCached(u, kid) \/ SeekFetch(u, kid)
    BY <1>2, <2>1, <2>2 DEF Verify, keyVars
  <2>4. ~ seek'[u].forced /\ \A w \in Threads \ {u} : seek'[w] = seek[w]
    BY <2>1, <2>3, SeekPreserves DEF IInv
  <2> QED
    BY <1>1, <2>4 DEF BeginsForced
<1>3. ASSUME NEW u \in Threads, FetchKeys(u) PROVE Refetch(t)
  <2>1. CASE Answered(u)
    <3>1. seek[u] \in Search
      BY <1>1
    <3>2. u = t
      BY <1>1, <2>1 DEF Answered
    <3>3. PICK r : r = [seek[u] EXCEPT !.at = "answer", !.doc = published]
      OBVIOUS
    <3>4. r.forced = seek[u].forced
      BY <3>1, <3>3 DEF Search
    <3>5. seek'[u] = r
      BY <1>1, <2>1, <3>3 DEF Answered
    <3> QED
      BY <3>2, <3>4, <3>5 DEF BeginsForced
  <2>2. CASE Land(u)
    <3>1. seek[u] \in Search
      BY <1>1
    <3>2. u = t
      BY <1>1, <2>2 DEF Land
    <3>3. PICK r : r = [seek[u] EXCEPT !.at = "look", !.doc = {}, !.since = 0]
      OBVIOUS
    <3>4. r.forced = seek[u].forced
      BY <3>1, <3>3 DEF Search
    <3>5. seek'[u] = r
      BY <1>1, <2>2, <3>3 DEF Land
    <3> QED
      BY <3>2, <3>4, <3>5 DEF BeginsForced
  <2>3. CASE Refetch(u)
    BY <1>1, <2>3 DEF Refetch
  <2> QED
    BY <1>3, <2>1, <2>2, <2>3 DEF FetchKeys, Fetching
<1>4. ASSUME NEW u \in Threads, KeyUnknown(u) \/ KeyFound(u) PROVE FALSE
  <2>1. seek' = [seek EXCEPT ![u] = Resting]
    BY <1>4 DEF KeyUnknown, KeyFound, Miss, FetchFails, Hit
  <2>2. ~ Resting.forced
    BY DEF Resting
  <2> QED
    BY <1>1, <2>1, <2>2 DEF BeginsForced
<1>5. ASSUME seek' = seek PROVE FALSE
  BY <1>1, <1>5
<1>6. ASSUME NEW u \in Threads,
             AskFeed(u) \/ PollFeed(u) \/ CheckRevocation(u) \/ Return(u)
      PROVE  FALSE
  BY <1>5, <1>6 DEF AskFeed, PollFeed, CheckRevocation, Return, keyVars
<1>7. CASE Enable \/ Server \/ Tick
  BY <1>5, <1>7 DEF Enable, Server, Tick, Rotate, Publish, Retire, keyVars
<1> QED
  BY <1>2, <1>3, <1>4, <1>6, <1>7 DEF Next

(* However many tokens name unknown keys, in however many threads: forced  *)
(* fetches begin at least Cooldown apart (lookup_key()).                   *)
THEOREM Rationed == Spec => ForcedFetchesAreRationed
<1>1. ASSUME IInv, [Next]_vars
      PROVE  [\A t \in Threads : BeginsForced(t) /\ forcedAt # None =>
                                   now - forcedAt >= Cooldown]_<<now, keyVars>>
  <2>1. CASE UNCHANGED vars
    BY <2>1 DEF vars
  <2>2. CASE Next
    <3> SUFFICES ASSUME NEW t \in Threads, BeginsForced(t), forcedAt # None
                 PROVE  now - forcedAt >= Cooldown
      OBVIOUS
    <3>1. now >= cooldownUntil
      BY <1>1, <2>2, OnlyRefetchForces DEF Refetch
    <3>2. cooldownUntil = forcedAt + Cooldown /\ forcedAt \in Nat /\ now \in Nat
      BY <1>1, Bounds DEF IInv, KeysSound, KeyTypeOK, WindowIsOpened
    <3> QED
      BY <3>1, <3>2, Bounds
  <2> QED
    BY <1>1, <2>1, <2>2
<1> QED
  BY <1>1, Inductive, PTL DEF Spec, ForcedFetchesAreRationed

-------------------------------------------------------------------------------
(* The feed, where a request lasts less than a polling interval: then one   *)
(* poll is over before the next may leave.                                 *)

(* Nothing is asked or listed at first. *)
LEMMA FeedSoundFirst == Init => FeedSound
<1> SUFFICES ASSUME Init PROVE FeedSound
  OBVIOUS
<1>1. \A t \in Threads : ask[t].at = "idle" /\ ~ ask[t].owed
  BY DEF Init, Feed!Init, Feed!Quiet
<1> QED
  BY <1>1 DEF Init, Feed!Init, FeedSound, OnePolls, ListsGrow, PollsAreHonoured, Asking,
              Feed!At

(* Steps of others leave the feed sound. *)
LEMMA FeedSoundStays == FeedSound /\ UNCHANGED feedVars => FeedSound'
BY DEF feedVars, FeedSound, OnePolls, ListsGrow, PollsAreHonoured, Asking, Feed!At,
       Feed!Revoked, Feed!Known

(* A question moves on that is not on the network afterwards. *)
LEMMA FeedSoundAsIs ==
  ASSUME FeedSound, NEW t \in Threads, NEW q \in Question, QuestionMoves(t, q),
         UNCHANGED <<revokedAt, listed, lastAttempt>>,
         q.at \in {"idle", "judge"}, ~ q.owed
  PROVE  FeedSound'
<1>1. ask'[t] = q /\ \A u \in Threads \ {t} : ask'[u] = ask[u]
  BY DEF QuestionMoves
<1>2. ~ Asking(t)' /\ ~ Feed!At(t, "answer")' /\ ~ ask'[t].owed
  BY <1>1 DEF Asking, Feed!At
<1>3. \A u \in Threads \ {t} :
        /\ Asking(u)' = Asking(u)
        /\ \A w \in {"answer", "judge"} : Feed!At(u, w)' = Feed!At(u, w)
  BY <1>1 DEF Asking, Feed!At
<1>4. Feed!Revoked' = Feed!Revoked
  BY DEF Feed!Revoked
<1>5. OnePolls'
  BY <1>1, <1>2, <1>3 DEF FeedSound, OnePolls
<1>6. ListsGrow'
  BY <1>1, <1>2, <1>3, <1>4 DEF FeedSound, ListsGrow
<1>7. PollsAreHonoured'
  BY <1>1, <1>2, <1>3, <1>4 DEF FeedSound, PollsAreHonoured, Feed!Known
<1> QED
  BY <1>5, <1>6, <1>7 DEF FeedSound

(* A poll leaves: every other one is over. *)
LEMMA FeedSoundPoll ==
  ASSUME MaxFlight < Poll, IInv, FeedSound, now' = now,
         NEW t \in Threads, NEW sid \in Sessions \cup {None}, Feed!AskPolling(t, sid)
  PROVE  FeedSound'
<1>1. /\ UNCHANGED <<revokedAt, on, listed>> /\ lastAttempt' = now
      /\ Feed!At(t, "idle") /\ Feed!Due
      /\ \E q \in Question : /\ q.at = "wire" /\ q.since = now
                             /\ q.owed => q.sid \in Feed!Revoked
                             /\ QuestionMoves(t, q)
  BY AskPollingStep DEF IInv
<1>2. PICK q \in Question : /\ q.at = "wire" /\ q.since = now
                            /\ q.owed => q.sid \in Feed!Revoked
                            /\ QuestionMoves(t, q)
  BY <1>1
<1>3. ask'[t] = q /\ \A u \in Threads \ {t} : ask'[u] = ask[u]
  BY <1>2 DEF QuestionMoves
<1>4. \A u \in Threads : ~ Asking(u)
  <2> SUFFICES ASSUME NEW u \in Threads, Asking(u) PROVE FALSE
    OBVIOUS
  <2>1. ask[u].since \in Nat /\ now \in Nat
    BY QuestionTyped DEF IInv
  <2>2. lastAttempt = ask[u].since /\ now <= ask[u].since + MaxFlight
    BY DEF FeedSound, OnePolls, IInv, InOnePlace
  <2>3. lastAttempt # None
    BY <2>1, <2>2, Bounds
  <2> QED
    BY <1>1, <2>1, <2>2, <2>3, Bounds DEF Feed!Due
<1>5. \A u \in Threads \ {t} :
        /\ ~ Asking(u)' /\ ~ Feed!At(u, "answer")'
        /\ Feed!At(u, "judge")' = Feed!At(u, "judge")
  BY <1>3, <1>4 DEF Asking, Feed!At
<1>6. Feed!Revoked' = Feed!Revoked /\ ~ Feed!At(t, "answer")' /\ ~ Feed!At(t, "judge")'
  BY <1>1, <1>2, <1>3 DEF Feed!Revoked, Feed!At
<1>7. OnePolls'
  BY <1>1, <1>2, <1>3, <1>5 DEF OnePolls
<1>8. ListsGrow'
  BY <1>1, <1>5, <1>6 DEF FeedSound, ListsGrow
<1>9. PollsAreHonoured'
  BY <1>1, <1>2, <1>3, <1>5, <1>6 DEF FeedSound, PollsAreHonoured, Feed!Known
<1> QED
  BY <1>7, <1>8, <1>9 DEF FeedSound

(* The server answers with every session revoked so far. *)
LEMMA FeedSoundAnswered ==
  ASSUME IInv, FeedSound, NEW t \in Threads, Feed!Answered(t)
  PROVE  FeedSound'
<1>1. /\ UNCHANGED <<revokedAt, on, listed, lastAttempt>> /\ Feed!At(t, "wire")
      /\ \E q \in Question :
           /\ q.at = "answer" /\ q.doc = Feed!Revoked
           /\ q.sid = ask[t].sid /\ q.since = ask[t].since /\ q.owed = ask[t].owed
           /\ QuestionMoves(t, q)
  BY AnsweredStep DEF IInv
<1>2. PICK q \in Question :
           /\ q.at = "answer" /\ q.doc = Feed!Revoked
           /\ q.sid = ask[t].sid /\ q.since = ask[t].since /\ q.owed = ask[t].owed
           /\ QuestionMoves(t, q)
  BY <1>1
<1>3. ask'[t] = q /\ \A u \in Threads \ {t} : ask'[u] = ask[u]
  BY <1>2 DEF QuestionMoves
<1>4. Asking(t) /\ Feed!Revoked' = Feed!Revoked
  BY <1>1 DEF Asking, Feed!Revoked
<1>5. \A u \in Threads \ {t} :
        /\ Asking(u)' = Asking(u)
        /\ \A w \in {"answer", "judge"} : Feed!At(u, w)' = Feed!At(u, w)
  BY <1>3 DEF Asking, Feed!At
<1>6. OnePolls'
  BY <1>1, <1>2, <1>3, <1>4, <1>5 DEF FeedSound, OnePolls
<1>7. ListsGrow'
  BY <1>1, <1>2, <1>3, <1>4, <1>5 DEF FeedSound, ListsGrow
<1>8. ~ Feed!At(t, "judge")'
  BY <1>2, <1>3 DEF Feed!At
<1>9. PollsAreHonoured'
  <2> SUFFICES ASSUME NEW u \in Threads, ask'[u].owed
               PROVE  /\ Asking(u)' => ask'[u].sid \in Feed!Revoked'
                      /\ Feed!At(u, "answer")' => ask'[u].sid \in ask'[u].doc
                      /\ Feed!At(u, "judge")' => Feed!Known(ask[u].sid)'
    BY DEF PollsAreHonoured
  <2>1. CASE u = t
    BY <1>2, <1>3, <1>4, <1>8, <2>1 DEF FeedSound, PollsAreHonoured
  <2>2. CASE u # t
    BY <1>1, <1>3, <1>4, <1>5, <2>2 DEF FeedSound, PollsAreHonoured, Feed!Known
  <2> QED
    BY <2>1, <2>2
<1> QED
  BY <1>6, <1>7, <1>9 DEF FeedSound

(* The document replaces the list: it lists at least as much. *)
LEMMA FeedSoundLands ==
  ASSUME IInv, FeedSound, NEW t \in Threads, Feed!Land(t)
  PROVE  FeedSound'
<1>1. /\ UNCHANGED <<revokedAt, on, lastAttempt>> /\ Feed!At(t, "answer")
      /\ listed' = ask[t].doc
      /\ \E q \in Question : /\ q.at = "judge" /\ q.sid = ask[t].sid /\ q.owed = ask[t].owed
                             /\ QuestionMoves(t, q)
  BY LandStep DEF IInv
<1>2. PICK q \in Question : /\ q.at = "judge" /\ q.sid = ask[t].sid /\ q.owed = ask[t].owed
                            /\ QuestionMoves(t, q)
  BY <1>1
<1>3. ask'[t] = q /\ \A u \in Threads \ {t} : ask'[u] = ask[u]
  BY <1>2 DEF QuestionMoves
<1>4. Asking(t) /\ \A u \in Threads : Asking(u) => u = t
  BY <1>1 DEF Asking, FeedSound, OnePolls
<1>5. \A u \in Threads :
        /\ ~ Asking(u)' /\ ~ Feed!At(u, "answer")'
        /\ u # t => Feed!At(u, "judge")' = Feed!At(u, "judge")
  BY <1>2, <1>3, <1>4 DEF Asking, Feed!At
<1>6. Feed!Revoked' = Feed!Revoked /\ listed' # None
  BY <1>1, QuestionTyped, Bounds DEF IInv, Question, Feed!Revoked
<1>7. ask[t].doc \subseteq Feed!Revoked /\ (listed # None => listed \subseteq ask[t].doc)
  BY <1>1 DEF FeedSound, ListsGrow
<1>8. OnePolls' /\ ListsGrow'
  BY <1>1, <1>5, <1>6, <1>7 DEF OnePolls, ListsGrow
<1>9. PollsAreHonoured'
  <2> SUFFICES ASSUME NEW u \in Threads, ask'[u].owed, Feed!At(u, "judge")'
               PROVE  Feed!Known(ask[u].sid)'
    BY <1>5 DEF PollsAreHonoured
  <2>1. CASE u = t
    BY <1>1, <1>2, <1>3, <1>6, <2>1 DEF FeedSound, PollsAreHonoured, Feed!Known
  <2>2. CASE u # t
    <3>1. Feed!Known(ask[u].sid) /\ ask'[u] = ask[u]
      BY <1>3, <1>5, <2>2 DEF FeedSound, PollsAreHonoured
    <3> QED
      BY <1>1, <1>6, <1>7, <3>1 DEF Feed!Known
  <2> QED
    BY <2>1, <2>2
<1> QED
  BY <1>8, <1>9 DEF FeedSound

(* One more session is revoked: what was listed still is. *)
LEMMA FeedSoundRevokes ==
  ASSUME IInv, FeedSound, NEW s \in Sessions, Feed!Revoke(s)
  PROVE  FeedSound'
<1>1. UNCHANGED <<on, listed, lastAttempt, ask>>
  BY DEF Feed!Revoke
<1>2. Feed!Revoked \subseteq Feed!Revoked'
  <2>1. /\ revokedAt \in [Sessions -> (0..MaxTime) \cup {None}] /\ now # None
        /\ revokedAt' = [revokedAt EXCEPT ![s] = now]
    BY Bounds DEF Feed!Revoke, IInv, TypeOK, Feed!TypeOK
  <2> QED
    BY <2>1 DEF Feed!Revoked
<1> QED
  BY <1>1, <1>2 DEF FeedSound, OnePolls, ListsGrow, PollsAreHonoured, Asking, Feed!At,
                    Feed!Known

(* Every step keeps the feed sound. *)
LEMMA FeedSoundStep ==
  ASSUME MaxFlight < Poll, IInv, FeedSound, [Next]_vars
  PROVE  FeedSound'
<1>1. TypeOK
  BY DEF IInv
<1>2. ASSUME NEW t \in Threads, AskFeed(t) PROVE FeedSound'
  <2>1. now' = now /\ Doing(t, "feed")
    BY <1>2 DEF AskFeed
  <2>2. PICK sid \in Sessions \cup {None} : sid = call[t].tok.sid
    BY <2>1, TokenAssumption DEF IInv, CallIsGenuine
  <2>3. CASE Feed!Skip(t)
    BY <2>3, FeedSoundStays DEF Feed!Skip, Feed!feedVars, feedVars
  <2>4. CASE Feed!AskKnown(t, sid)
    BY <1>1, <2>4, AskKnownStep, FeedSoundAsIs
  <2>5. CASE Feed!AskPolling(t, sid)
    BY <2>1, <2>5, FeedSoundPoll
  <2> QED
    BY <1>2, <2>2, <2>3, <2>4, <2>5 DEF AskFeed
<1>3. ASSUME NEW t \in Threads, PollFeed(t) PROVE FeedSound'
  <2>1. CASE Feed!PollFails(t)
    BY <1>1, <2>1, PollFailsStep, FeedSoundAsIs
  <2> QED
    BY <1>3, <2>1, FeedSoundAnswered, FeedSoundLands DEF PollFeed, Feed!Polling
<1>4. ASSUME NEW t \in Threads, CheckRevocation(t) PROVE FeedSound'
  BY <1>1, <1>4, JudgeStep, FeedSoundAsIs DEF CheckRevocation
<1>5. CASE Enable
  BY <1>5 DEF Enable, Feed!Enable, FeedSound, OnePolls, ListsGrow, PollsAreHonoured, Asking,
              Feed!At, Feed!Revoked, Feed!Known
<1>6. ASSUME NEW s \in Sessions, Feed!Revoke(s) PROVE FeedSound'
  BY <1>6, FeedSoundRevokes
<1>7. CASE UNCHANGED feedVars
  BY <1>7, FeedSoundStays
<1>8. ASSUME NEW t \in Threads,
             \/ \E tok \in Tokens : Verify(t, tok)
             \/ FetchKeys(t) \/ KeyUnknown(t) \/ KeyFound(t) \/ Return(t)
      PROVE  UNCHANGED feedVars
  BY <1>8 DEF Verify, FetchKeys, KeyUnknown, KeyFound, Return
<1> QED
  BY <1>2, <1>3, <1>4, <1>5, <1>6, <1>7, <1>8 DEF Next, Server, Tick, vars

(* A question that fetched the document itself is answered by it, whatever *)
(* other polls, failures and revocations there are, and every variable is  *)
(* of its type: where a request lasts less than a polling interval         *)
(* (revocation_refresh() marks the attempt before it is made).             *)
THEOREM Honoured == MaxFlight < Poll => (Spec => []PollIsHonoured)
<1> SUFFICES ASSUME MaxFlight < Poll PROVE Spec => []PollIsHonoured
  OBVIOUS
<1>1. IInv /\ FeedSound /\ [Next]_vars => FeedSound'
  BY FeedSoundStep
<1>2. IInv /\ FeedSound => PollIsHonoured
  BY DEF IInv, FeedSound, PollsAreHonoured, PollIsHonoured, Feed!OwnPollIsHonoured
<1> QED
  BY Inductive, FeedSoundFirst, <1>1, <1>2, PTL DEF Spec

(* A session once known to be revoked stays known: no failed poll and no    *)
(* answer of several takes one back (parse_feed()), where a request lasts   *)
(* less than a polling interval.                                           *)
THEOREM StaysRevoked == MaxFlight < Poll => (Spec => RevocationsStand)
<1> SUFFICES ASSUME MaxFlight < Poll PROVE Spec => RevocationsStand
  OBVIOUS
<1>1. IInv /\ FeedSound /\ [Next]_vars => FeedSound'
  BY FeedSoundStep
<1>2. ASSUME IInv, FeedSound, [Next]_vars
      PROVE  [listed # None => listed' # None /\ listed \subseteq listed']_<<now, Feed!feedVars>>
  <2>1. CASE listed' = listed
    BY <2>1
  <2>2. ASSUME NEW t \in Threads, Feed!Land(t)
        PROVE  listed # None => listed' # None /\ listed \subseteq listed'
    <3>1. Feed!At(t, "answer") /\ listed' = ask[t].doc
      BY <2>2 DEF Feed!Land
    <3>2. ask[t].doc # None
      BY <1>2, QuestionTyped, Bounds DEF IInv, Question
    <3> QED
      BY <1>2, <3>1, <3>2 DEF FeedSound, ListsGrow
  <2>3. listed' = listed \/ \E t \in Threads : Feed!Land(t)
    <3>1. ASSUME NEW t \in Threads, AskFeed(t) \/ CheckRevocation(t) PROVE listed' = listed
      BY <3>1 DEF AskFeed, CheckRevocation, Feed!Skip, Feed!AskKnown, Feed!AskPolling,
                  Feed!Judge, Feed!feedVars
    <3>2. ASSUME NEW t \in Threads, PollFeed(t) PROVE listed' = listed \/ Feed!Land(t)
      BY <3>2 DEF PollFeed, Feed!Polling, Feed!Answered, Feed!PollFails
    <3>3. ASSUME NEW t \in Threads,
                 \/ \E tok \in Tokens : Verify(t, tok)
                 \/ FetchKeys(t) \/ KeyUnknown(t) \/ KeyFound(t) \/ Return(t)
          PROVE  listed' = listed
      BY <3>3 DEF Verify, FetchKeys, KeyUnknown, KeyFound, Return, feedVars
    <3>4. CASE Enable \/ Server \/ Tick \/ UNCHANGED vars
      BY <3>4 DEF Enable, Server, Tick, vars, feedVars, Feed!Enable, Feed!Revoke
    <3> QED
      BY <1>2, <3>1, <3>2, <3>3, <3>4 DEF Next
  <2> QED
    BY <2>1, <2>2, <2>3
<1> QED
  BY Inductive, FeedSoundFirst, <1>1, <1>2, PTL
     DEF Spec, RevocationsStand, Feed!KnownRevocationsStand
===============================================================================
