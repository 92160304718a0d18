------------------------------ MODULE CodeFlow -------------------------------
(***************************************************************************)
(* Discovery and the authorization code flow: axiam_oidc_discover(),       *)
(* axiam_oidc_begin() and axiam_oidc_exchange() (src/src/oidc.c), the      *)
(* judgement of the token set they end in (src/src/oidc_validate.c), and   *)
(* axiam_uma_discover() (src/src/uma.c).                                   *)
(*                                                                         *)
(* Each of the two documents has a cache.  The OIDC one is filled with its *)
(* lock held across the fetch; the UMA one is not.  They share nothing: a  *)
(* behaviour is about one of them.  The retries of a fetch *)
(* are part of its transit (CallBudget), and the signature of an ID token  *)
(* is judged with the key cache (LocalVerification): here every token is   *)
(* one the organization's keys have signed, though perhaps for another     *)
(* issuer, client or request.                                              *)
(***************************************************************************)
EXTENDS Integers, Sequences

CONSTANTS
  Callers,        \* threads
  Requests,       \* authorization requests, named by their state and nonce
  NoOne,          \* nobody
  DiscoveryTtl,   \* the configured oidc_discovery_ttl_s
  TtlFloor,       \* AXIAM_OIDC_DISCOVERY_TTL_FLOOR_S
  UmaTtl,         \* AXIAM_UMA_CONFIG_TTL_SECONDS
  TokenLife,      \* how long the server makes an ID token last
  Skew,           \* the tolerated clock skew
  MaxTransit,     \* bound on the time a fetch takes
  MaxDocuments,   \* bound on the documents published
  MaxNow          \* bound on the clock

ASSUME CodeFlowAssumption ==
  /\ {TtlFloor, UmaTtl, MaxDocuments} \subseteq Nat \ {0}
  /\ {TokenLife, Skew, MaxTransit, MaxNow} \subseteq Nat
  /\ DiscoveryTtl \in Int
  /\ NoOne \notin Callers

VARIABLES
  which,      \* the document this is about: "oidc" or "uma"
  time,        \* the time
  document,   \* at the server: the number of the documents it serves
  retired,    \* history: when a document ceased to be served
  cached,     \* oidc_config or uma_config: a document and when it landed
  mutex,      \* who holds oidc_config_mtx
  call,       \* what each thread is doing
  begun,      \* the requests axiam_oidc_begin() has drawn
  newest      \* history: the newest OIDC document an answer has used

codeVars == <<which, time, document, retired, cached, mutex, call, begun, newest>>

Nothing == [number |-> 0, at |-> 0]
NoToken == [issuer |-> "none", party |-> "none", nonce |-> "none", aud |-> <<>>,
            azp |-> "none", minted |-> 0]
Resting == [step |-> "idle", goal |-> "none", request |-> "none", number |-> 0, since |-> 0,
            seen |-> 0, token |-> NoToken]

-----------------------------------------------------------------------------
(* The judgement of an ID token: rules 3 to 6, in check_id_claims().        *)
(* The signature was verified before, on the network's time.                *)

(* Mutant: a token for several audiences need not say whose it is. *)
AudienceOkAny(aud, azp) == \E i \in DOMAIN aud : aud[i] = "this"

AudienceOk(aud, azp) ==
  /\ \E i \in DOMAIN aud : aud[i] = "this"
  /\ Len(aud) > 1 => azp = "this"

(* exp and iat, with the skew. *)
Live(t) == time <= t.minted + TokenLife + Skew /\ t.minted <= time + Skew

(* Mutant: the nonce is compared with nothing. *)
CheckIdClaimsWithoutNonce(t, expected) ==
  /\ t.issuer = "this"
  /\ AudienceOk(t.aud, t.azp)
  /\ Live(t)

CheckIdClaims(t, expected) ==
  /\ t.issuer = "this"
  /\ AudienceOk(t.aud, t.azp)
  /\ Live(t)
  /\ t.nonce = expected

(* What the organization's servers mint: for this client and request, or    *)
(* for another issuer, client or request; perhaps with a further audience,  *)
(* and then azp names the party. A single audience needs no azp.            *)
OtherParty(p) == IF p = "this" THEN "other" ELSE "this"

MintedFor(issuer, party, nonce) ==
  {[issuer |-> issuer, party |-> party, nonce |-> nonce, aud |-> a[1], azp |-> a[2],
    minted |-> time] :
     a \in {<<<<party>>, "none">>, <<<<OtherParty(party), party>>, party>>}}

Genuine(request) ==
  MintedFor("this", "this", request) \cup MintedFor("other", "this", request)
  \cup MintedFor("this", "other", request)
  \cup UNION {MintedFor("this", "this", r) : r \in Requests}

-----------------------------------------------------------------------------
CodeInit ==
  /\ which \in {"oidc", "uma"}
  /\ time = 0
  /\ document = 1
  /\ retired = [d \in 1..MaxDocuments |-> 0]
  /\ cached = Nothing
  /\ mutex = NoOne
  /\ call = [c \in Callers |-> Resting]
  /\ begun = {}
  /\ newest = 0

(* One step of a call, which leaves it as record says. *)
Move(c, record) == call' = [call EXCEPT ![c] = record]
At(c, step) == call[c].step = step

(* The three ways into discovery: before axiam_oidc_begin(), inside         *)
(* axiam_oidc_exchange() with the parameters of a request that was begun,   *)
(* and inside a UMA operation.                                              *)
Discover(c) ==
  /\ At(c, "idle")
  /\ \E goal \in {"begin", "exchange", "uma"}, r \in Requests :
       /\ goal = "uma" <=> which = "uma"
       /\ goal = "begin" => r \notin begun
       /\ goal = "exchange" => r \in begun
       /\ goal = "uma" => r = CHOOSE q \in Requests : TRUE
       /\ Move(c, [call[c] EXCEPT !.step = "asking", !.goal = goal, !.request = r,
                                  !.seen = newest])
  /\ UNCHANGED <<which, time, document, retired, cached, mutex, begun, newest>>

(* oidc_discovery_ttl: a shorter one is raised to the floor. *)
Ttl ==
  IF which = "uma" THEN UmaTtl
  ELSE IF DiscoveryTtl < TtlFloor THEN TtlFloor ELSE DiscoveryTtl

DocumentFresh == cached.number # 0 /\ time - cached.at < Ttl

(* A copy of a document is the call's own from here on. *)
Handed(c, number) ==
  /\ Move(c, [call[c] EXCEPT !.step = "ready", !.number = number, !.since = time])
  /\ newest' = IF which = "oidc" /\ number > newest THEN number ELSE newest

(* Mutant: the lock is held around the read of the cache only. *)
MayLookUnlocked(c) == TRUE

(* A call that wants the OIDC document waits for whoever fetches it. *)
MayLook(c) == which = "oidc" => mutex = NoOne

LookUp(c) ==
  /\ At(c, "asking")
  /\ MayLook(c)
  /\ DocumentFresh
  /\ Handed(c, cached.number)
  /\ UNCHANGED <<which, time, document, retired, cached, mutex, begun>>

Fetch(c) ==
  /\ At(c, "asking")
  /\ MayLook(c)
  /\ ~ DocumentFresh
  /\ Move(c, [call[c] EXCEPT !.step = "fetching", !.since = time])
  /\ mutex' = IF which = "oidc" THEN c ELSE mutex
  /\ UNCHANGED <<which, time, document, retired, cached, begun, newest>>

Unlocked(c) == IF mutex = c THEN NoOne ELSE mutex

(* The server answers a fetch with what it serves then. *)
Serve(c) ==
  /\ At(c, "fetching")
  /\ Move(c, [call[c] EXCEPT !.step = "landing", !.number = document])
  /\ UNCHANGED <<which, time, document, retired, cached, mutex, begun, newest>>

(* The answer is parsed, stored and dated as it lands. *)
Land(c) ==
  /\ At(c, "landing")
  /\ cached' = [number |-> call[c].number, at |-> time]
  /\ mutex' = Unlocked(c)
  /\ Handed(c, call[c].number)
  /\ UNCHANGED <<which, time, document, retired, begun>>

(* No answer, or not a document: the cache is left alone, the call fails,   *)
(* and whoever waits for the lock makes a fetch of its own.                 *)
FetchFails(c) ==
  /\ call[c].step \in {"fetching", "landing"}
  /\ mutex' = Unlocked(c)
  /\ Move(c, Resting)
  /\ UNCHANGED <<which, time, document, retired, cached, begun, newest>>

(* axiam_oidc_begin: a new state, nonce and verifier, and no network.       *)
Begin(c) ==
  /\ At(c, "ready") /\ call[c].goal = "begin"
  /\ begun' = begun \cup {call[c].request}
  /\ Move(c, Resting)
  /\ UNCHANGED <<which, time, document, retired, cached, mutex, newest>>

(* The caller has the UMA document. *)
UseUma(c) ==
  /\ At(c, "ready") /\ call[c].goal = "uma"
  /\ Move(c, Resting)
  /\ UNCHANGED <<which, time, document, retired, cached, mutex, begun, newest>>

(* axiam_oidc_exchange sends the code once.  The answer is a token set with *)
(* an ID token; or one without, which is handed over as it is, or no token  *)
(* set at all, and the call is over (oidc_parse_token_set).                 *)
(* The application may have matched the callback with the parameters of     *)
(* another request, and a provider need not check the verifier.             *)
Exchanged(c) ==
  /\ At(c, "ready") /\ call[c].goal = "exchange"
  /\ \/ \E t \in Genuine(call[c].request) : 
          Move(c, [Resting EXCEPT !.step = "verifying", !.request = call[c].request,
                                  !.token = t])
     \/ Move(c, Resting)
  /\ UNCHANGED <<which, time, document, retired, cached, mutex, begun, newest>>

(* validate_id_token: the claims are judged when the keys are there.  All   *)
(* the tokens of the answer go with an ID token that is refused.            *)
Accept(c) ==
  /\ At(c, "verifying")
  /\ CheckIdClaims(call[c].token, call[c].request)
  /\ Move(c, [call[c] EXCEPT !.step = "accepted", !.since = time])
  /\ UNCHANGED <<which, time, document, retired, cached, mutex, begun, newest>>

Refuse(c) ==
  /\ At(c, "verifying")
  /\ ~ CheckIdClaims(call[c].token, call[c].request)
  /\ Move(c, Resting)
  /\ UNCHANGED <<which, time, document, retired, cached, mutex, begun, newest>>

(* The caller goes on. *)
Taken(c) ==
  /\ At(c, "accepted")
  /\ Move(c, Resting)
  /\ UNCHANGED <<which, time, document, retired, cached, mutex, begun, newest>>

(* The server publishes new documents. *)
Republish ==
  /\ document < MaxDocuments
  /\ document' = document + 1
  /\ retired' = [retired EXCEPT ![document] = time]
  /\ UNCHANGED <<which, time, cached, mutex, call, begun, newest>>

(* Time passes; a fetch ends, one way or the other, within its transit.     *)
Pass ==
  /\ time < MaxNow
  /\ \A c \in Callers :
       call[c].step \in {"fetching", "landing"} => time - call[c].since < MaxTransit
  /\ time' = time + 1
  /\ UNCHANGED <<which, document, retired, cached, mutex, call, begun, newest>>

CodeNext ==
  \/ \E c \in Callers :
       \/ Discover(c) \/ LookUp(c) \/ Fetch(c) \/ Serve(c) \/ Land(c) \/ FetchFails(c)
       \/ Begin(c) \/ UseUma(c) \/ Exchanged(c) \/ Accept(c) \/ Refuse(c) \/ Taken(c)
  \/ Republish \/ Pass

CodeSpec == CodeInit /\ [][CodeNext]_codeVars

-----------------------------------------------------------------------------
(* What a call is handed was the server's not longer ago than the lifetime  *)
(* of the cache and one transit; and a call that begins after another was   *)
(* handed the OIDC document never gets an older one, however the fetches of *)
(* a burst of callers land and fail.  (For the UMA document only the first  *)
(* holds: two of its fetches may land in the opposite order.)               *)
DocumentsAreCurrent ==
  \A c \in Callers :
    At(c, "ready") =>
      /\ \/ call[c].number = document
         \/ call[c].since - retired[call[c].number] < Ttl + MaxTransit
      /\ which = "oidc" => call[c].number >= call[c].seen

(* The claims a code exchange hands over were minted by this issuer, for    *)
(* this client and for the very request whose parameters were given, and    *)
(* the token was alive when they were handed over, however long its         *)
(* signature took to verify; whatever other token signed with the same keys *)
(* the answer carries.                                                      *)
AcceptedIsThisRequests ==
  \A c \in Callers :
    At(c, "accepted") =>
      /\ call[c].token.issuer = "this"
      /\ call[c].token.party = "this"
      /\ call[c].token.nonce = call[c].request
      /\ call[c].since - call[c].token.minted <= TokenLife + Skew
=============================================================================
