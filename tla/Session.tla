-------------------------------- MODULE Session --------------------------------
(***************************************************************************)
(* The credential of one axiam_client_t and everything that follows it:    *)
(* the cookie jar, the device token, the resolved ids, the acting-tenant   *)
(* gate, the acting tenant and the decision memo, as src/client.c keeps    *)
(* them and as its callers in webauthn.c, oidc.c and account.c use them.   *)
(*                                                                         *)
(* Each critical section of state_mtx, refresh_mtx and the memo's mutex is *)
(* one action, and so is each wire call: the transport holds its handle's  *)
(* mutex from the reading of the jar to the storing of the answer's        *)
(* cookies.  What a call read under one lock it may use long after.        *)
(* SingleFlight.tla has the refresh guard, and DecisionMemo.tla the memo,  *)
(* in full; here the guard is a flag and a result, and the memo a map.     *)
(*                                                                         *)
(* A principal stands for its cookies, its ids and its home tenant.        *)
(***************************************************************************)
EXTENDS Naturals

CONSTANTS Threads,     \* the application threads that share the client
          Principals,  \* who can sign in with a cookie session
          Gadget,      \* the principal of the client certificate
          Tenants,     \* the acting tenants
          Reach,       \* whom the server says may act on what: {} unless it
                       \* is an organization-level principal
          Configured,  \* stands for the ids the configuration names
          None,        \* a null pointer
          MaxCalls     \* bound: calls made on the client, by all threads

ASSUME GadgetAssumption == Gadget \notin Principals
ASSUME NoneAssumption == None \notin Principals \cup {Gadget} \cup Tenants
ASSUME ConfiguredAssumption == Configured \notin Principals \cup {Gadget, None}
ASSUME ReachAssumption == Reach \in [Principals -> SUBSET Tenants]
ASSUME MaxCallsAssumption == MaxCalls \in Nat

VARIABLES
  jar,            \* whose session cookies the transport holds
  authenticated,  \* authenticated
  device,         \* device_access_token
  deviceSession,  \* device_session
  resolved,       \* whose ids a refresh names: resolved_tenant_id and
                  \* resolved_org_id, or else those of the configuration
  home,           \* principal_tenant_id: whose
  gate,           \* whose organization_level and reachable_tenant_ids the
                  \* gate holds; None: principal_gate_known is 0
  acting,         \* acting_tenant
  memo,           \* per acting tenant in the key, the decision held, or None
  inFlight,       \* refresh_in_flight
  result,         \* refresh_result
  pc,             \* where each thread is
  op,             \* what each thread has read or been answered
  got,            \* the kind each thread's latest call returned
  calls           \* how many calls were made (see MaxCalls)

credential == <<jar, authenticated, device, deviceSession>>
scope == <<resolved, home, gate, acting>>
refresh == <<inFlight, result>>
vars == <<credential, scope, memo, refresh, pc, op, got, calls>>

NoMemo == [k \in Tenants \cup {None} |-> None]
Fresh == [as |-> None,      \* whom the server's answer signed in
          user |-> FALSE,   \* whether it carried a user object
          ids |-> FALSE,    \* whether its access cookie names the ids
          key |-> None,     \* the acting tenant in the memo key, or to be set
          header |-> None,  \* the acting tenant on the wire
          bearer |-> None,  \* the device token on the wire
          decision |-> None,   \* the 2xx answer of a check
          outcome |-> "ok",    \* the kind a refresh ended with
          checking |-> FALSE,  \* the refresh is a check's
          refreshed |-> FALSE, \* the check has had its refresh
          alone |-> TRUE]      \* history: no identity change overlapped it

Init ==
  /\ jar = None
  /\ authenticated = FALSE
  /\ device = None
  /\ deviceSession = FALSE
  /\ resolved \in {None, Configured}   \* the configuration may name them
  /\ home = None
  /\ gate = None
  /\ acting \in Tenants \cup {None}   \* and may set it
  /\ memo = NoMemo
  /\ inFlight = FALSE
  /\ result = "ok"
  /\ pc = [t \in Threads |-> "idle"]
  /\ op = [t \in Threads |-> Fresh]
  /\ got = [t \in Threads |-> "none"]
  /\ calls = 0

-------------------------------------------------------------------------------

Goto(t, label) == pc' = [pc EXCEPT ![t] = label]
At(t, label) == pc[t] = label

Return(t, kind) ==
  /\ Goto(t, "idle")
  /\ got' = [got EXCEPT ![t] = kind]
  /\ op' = [op EXCEPT ![t] = Fresh]

Step(t, from, to) == At(t, from) /\ Goto(t, to) /\ UNCHANGED <<got, calls>>

(* The calls that change who the client is, or for whom it acts. *)
ChangingIdentity ==
  {t \in Threads : pc[t] \in {"login", "loginWire", "scope", "adopt", "resolve",
     "gate", "deviceWire", "deviceAdopt", "deviceClear", "logout", "logoutWire",
     "logoutMark", "logoutReset", "setActing"}}

Enter(t) ==
  /\ At(t, "idle")
  /\ calls < MaxCalls
  /\ calls' = calls + 1

EnterChange(t, label) ==
  /\ Enter(t)
  /\ Goto(t, label)
  /\ op' = [u \in Threads |-> IF u = t THEN [Fresh EXCEPT !.alone = ChangingIdentity = {}]
                              ELSE [op[u] EXCEPT !.alone = FALSE]]
  /\ got' = [got EXCEPT ![t] = "none"]

(* build_headers(): a device token rides as a bearer, and the jar is       *)
(* withheld from that request.                                             *)
ReadBearer(t) == op' = [op EXCEPT ![t].bearer = device]

(* Who the server takes a request for. *)
Sender(t) == IF op[t].bearer # None THEN op[t].bearer ELSE jar

(* axiam_curl_transport(): the answer's cookies go to the jar; when it was *)
(* withheld, the saved ones are put back over them.                        *)
Stored(t, cookies) ==
  IF op[t].bearer # None /\ jar # None THEN jar ELSE cookies

-------------------------------------------------------------------------------
(* Signing in: axiam_login, axiam_verify_mfa, axiam_login_opaque, the MFA  *)
(* and WebAuthn setup completions (user object, through                    *)
(* parse_login_like()), and the WebAuthn and SSO ceremonies (no user       *)
(* object, through axiam_client_adopt_session()).                          *)

(* The memo is cleared on the caller's intent, before the wire. *)
Login(t) ==
  /\ EnterChange(t, "login")
  /\ memo' = NoMemo
  /\ UNCHANGED <<credential, scope, refresh>>

LoginBuild(t) ==
  /\ Step(t, "login", "loginWire")
  /\ ReadBearer(t)
  /\ UNCHANGED <<credential, scope, memo, refresh>>

(* The server signs p in, with an access cookie whose claims name p's ids, *)
(* or not.  A caller that asks for no result is not told of the user       *)
(* object, and its home tenant is not recorded.                            *)
LoginAnswered(t, p, user, ids) ==
  /\ \E next \in IF user THEN {"scope", "adopt"} ELSE {"adopt"} :
       Step(t, "loginWire", next)
  /\ jar' = Stored(t, p)
  /\ op' = [op EXCEPT ![t].as = p, ![t].user = user, ![t].ids = ids]
  /\ UNCHANGED <<authenticated, device, deviceSession, scope, memo, refresh>>

(* A ceremony's 200 whose body is unusable: the session is not adopted,    *)
(* but the transport has stored its cookies.                               *)
LoginMalformed(t, p) ==
  /\ At(t, "loginWire")
  /\ jar' = Stored(t, p)
  /\ Return(t, "network")
  /\ UNCHANGED <<authenticated, device, deviceSession, scope, memo, refresh, calls>>

(* It answers 202, it refuses, or it is not reached. *)
LoginRefused(t) ==
  /\ At(t, "loginWire")
  /\ \E kind \in {"ok", "auth", "authz", "network"} : Return(t, kind)
  /\ UNCHANGED <<credential, scope, memo, refresh, calls>>

(* read_principal_scope(): only from a user object. *)
RecordHome(t) ==
  /\ Step(t, "scope", "adopt")
  /\ home' = op[t].as
  /\ UNCHANGED <<credential, resolved, gate, acting, memo, refresh, op>>

(* Mutant: the flag that goes with the device token is forgotten. *)
AdoptKeepsFlag(t) ==
  /\ Step(t, "adopt", "resolve")
  /\ authenticated' = TRUE
  /\ device' = None
  /\ UNCHANGED <<jar, deviceSession, scope, memo, refresh, op>>

(* A cookie session replaces any device credential. *)
Adopt(t) ==
  /\ Step(t, "adopt", "resolve")
  /\ authenticated' = TRUE
  /\ device' = None
  /\ deviceSession' = FALSE
  /\ UNCHANGED <<jar, scope, memo, refresh, op>>

(* resolve_ids_from_login(): from the access-token cookie of the answer;   *)
(* what it does not name stays as it was.                                  *)
Resolve(t) ==
  /\ Step(t, "resolve", "gate")
  /\ resolved' = IF op[t].ids THEN op[t].as ELSE resolved
  /\ UNCHANGED <<credential, home, gate, acting, memo, refresh, op>>

(* Mutant: an answer without a user object leaves the gate as it was. *)
UpdateGateIfTold(t) ==
  /\ At(t, "gate")
  /\ gate' = IF op[t].user THEN op[t].as ELSE gate
  /\ Return(t, "ok")
  /\ UNCHANGED <<credential, resolved, home, acting, memo, refresh, calls>>

(* update_principal_gate(): reset, then set from a user object if any. *)
UpdateGate(t) ==
  /\ At(t, "gate")
  /\ gate' = IF op[t].user THEN op[t].as ELSE None
  /\ Return(t, "ok")
  /\ UNCHANGED <<credential, resolved, home, acting, memo, refresh, calls>>

-------------------------------------------------------------------------------
(* axiam_authenticate_device(): no cookie and no bearer on the request.    *)

Device(t) ==
  /\ EnterChange(t, "deviceWire")
  /\ UNCHANGED <<credential, scope, memo, refresh>>

DeviceAnswered(t) ==
  /\ Step(t, "deviceWire", "deviceAdopt")
  /\ op' = [op EXCEPT ![t].as = Gadget]
  /\ UNCHANGED <<credential, scope, memo, refresh>>

(* A refused or malformed device login changes nothing, nor does a 2xx     *)
(* other than 200, which returns well.                                     *)
DeviceRefused(t) ==
  /\ At(t, "deviceWire")
  /\ \E kind \in {"ok", "auth", "authz", "network"} : Return(t, kind)
  /\ UNCHANGED <<credential, scope, memo, refresh, calls>>

DeviceAdopt(t) ==
  /\ Step(t, "deviceAdopt", "deviceClear")
  /\ device' = Gadget
  /\ deviceSession' = TRUE
  /\ authenticated' = TRUE
  /\ UNCHANGED <<jar, scope, memo, refresh, op>>

(* Mutant: the memo is not cleared. *)
DeviceKeepsMemo(t) ==
  /\ Step(t, "deviceClear", "gate")
  /\ UNCHANGED <<credential, scope, memo, refresh, op>>

(* The memo is cleared after the adoption; the gate goes to unknown. *)
DeviceClear(t) ==
  /\ Step(t, "deviceClear", "gate")
  /\ memo' = NoMemo
  /\ UNCHANGED <<credential, scope, refresh, op>>

-------------------------------------------------------------------------------
(* axiam_logout() *)

Logout(t) ==
  /\ EnterChange(t, "logout")
  /\ memo' = NoMemo
  /\ UNCHANGED <<credential, scope, refresh>>

LogoutBuild(t) ==
  /\ Step(t, "logout", "logoutWire")
  /\ ReadBearer(t)
  /\ UNCHANGED <<credential, scope, memo, refresh>>

(* 2xx: the server clears the cookies. *)
LogoutAnswered(t) ==
  /\ Step(t, "logoutWire", "logoutMark")
  /\ jar' = Stored(t, None)
  /\ UNCHANGED <<authenticated, device, deviceSession, scope, memo, refresh, op>>

LogoutRefused(t) ==
  /\ At(t, "logoutWire")
  /\ \E kind \in {"auth", "authz", "network"} : Return(t, kind)
  /\ UNCHANGED <<credential, scope, memo, refresh, calls>>

LogoutMark(t) ==
  /\ Step(t, "logoutMark", "logoutReset")
  /\ authenticated' = FALSE
  /\ UNCHANGED <<jar, device, deviceSession, scope, memo, refresh, op>>

(* reset_acting_tenant_and_gate() *)
LogoutReset(t) ==
  /\ At(t, "logoutReset")
  /\ acting' = None
  /\ gate' = None
  /\ Return(t, "ok")
  /\ UNCHANGED <<credential, resolved, home, memo, refresh, calls>>

-------------------------------------------------------------------------------
(* The acting tenant *)

(* Reach[p] is empty when p is not an organization-level principal. *)
Admits(who, tenant) == who # None => tenant \in Reach[who]

(* axiam_client_set_acting_tenant() reads the gate under the lock ... *)
SetActing(t, tenant) ==
  /\ Admits(gate, tenant)
  /\ Enter(t)
  /\ Goto(t, "setActing")
  /\ op' = [u \in Threads |-> IF u = t THEN [Fresh EXCEPT !.key = tenant]
                              ELSE [op[u] EXCEPT !.alone = FALSE]]
  /\ got' = [got EXCEPT ![t] = "none"]
  /\ UNCHANGED <<credential, scope, memo, refresh>>

SetActingRefused(t, tenant) ==
  /\ ~Admits(gate, tenant)
  /\ Enter(t)
  /\ Return(t, "authz")
  /\ UNCHANGED <<credential, scope, memo, refresh>>

(* ... and writes under it once more. *)
SetActingWrite(t) ==
  /\ At(t, "setActing")
  /\ acting' = op[t].key
  /\ Return(t, "ok")
  /\ UNCHANGED <<credential, resolved, home, gate, memo, refresh, calls>>

ClearActing(t) ==
  /\ Enter(t)
  /\ acting' = None
  /\ op' = [u \in Threads |-> [op[u] EXCEPT !.alone = FALSE]]
  /\ UNCHANGED <<credential, resolved, home, gate, memo, refresh, pc, got>>

-------------------------------------------------------------------------------
(* Refreshing: single_flight_refresh() and perform_refresh() *)

(* axiam_refresh() *)
Refresh(t) ==
  /\ Enter(t)
  /\ Goto(t, "refresh")
  /\ op' = [op EXCEPT ![t] = Fresh]
  /\ got' = [got EXCEPT ![t] = "none"]
  /\ UNCHANGED <<credential, scope, memo, refresh>>

RefreshLead(t) ==
  /\ Step(t, "refresh", "refreshBuild")
  /\ ~inFlight
  /\ inFlight' = TRUE
  /\ UNCHANGED <<credential, scope, memo, result, op>>

RefreshFollow(t) ==
  /\ Step(t, "refresh", "refreshWait")
  /\ inFlight
  /\ UNCHANGED <<credential, scope, memo, refresh, op>>

(* No ids to build the body from -- the client was built with slugs and no *)
(* sign-in has named any: nothing is sent.                                 *)
RefreshUnbuilt(t) ==
  /\ Step(t, "refreshBuild", "refreshPublish")
  /\ resolved = None
  /\ op' = [op EXCEPT ![t].outcome = "auth"]
  /\ UNCHANGED <<credential, scope, memo, refresh>>

RefreshBuild(t) ==
  /\ Step(t, "refreshBuild", "refreshWire")
  /\ resolved # None
  /\ ReadBearer(t)
  /\ UNCHANGED <<credential, scope, memo, refresh>>

(* 2xx: the principal's cookies are rotated.  Or no answer comes. *)
RefreshAnswered(t, kind) ==
  /\ Step(t, "refreshWire", "refreshPublish")
  /\ kind = "ok" => Sender(t) # None
  /\ op' = [op EXCEPT ![t].outcome = kind]
  /\ UNCHANGED <<credential, scope, memo, refresh>>

(* Any other status, a 5xx as much as a 401, ends the session. *)
RefreshRefused(t, kind) ==
  /\ Step(t, "refreshWire", "refreshMark")
  /\ op' = [op EXCEPT ![t].outcome = kind]
  /\ UNCHANGED <<credential, scope, memo, refresh>>

RefreshMark(t) ==
  /\ Step(t, "refreshMark", "refreshPublish")
  /\ authenticated' = FALSE
  /\ UNCHANGED <<jar, device, deviceSession, scope, memo, refresh, op>>

RefreshPublish(t) ==
  /\ Step(t, "refreshPublish", "refreshClear")
  /\ inFlight' = FALSE
  /\ result' = op[t].outcome
  /\ UNCHANGED <<credential, scope, memo, op>>

(* A check goes back for its one more attempt when the refresh was well. *)
Resume(t, kind) ==
  IF op[t].checking /\ kind = "ok"
    THEN /\ Goto(t, "build")
         /\ op' = [op EXCEPT ![t].refreshed = TRUE, ![t].outcome = "ok"]
         /\ UNCHANGED got
    ELSE Return(t, kind)

RefreshClear(t) ==
  /\ At(t, "refreshClear")
  /\ memo' = NoMemo
  /\ Resume(t, op[t].outcome)
  /\ UNCHANGED <<credential, scope, refresh, calls>>

RefreshFollowed(t) ==
  /\ At(t, "refreshWait")
  /\ ~inFlight
  /\ Resume(t, result)
  /\ UNCHANGED <<credential, scope, memo, refresh, calls>>

-------------------------------------------------------------------------------
(* axiam_check_access() and authz_post(), asking one question *)

(* The key is built from the acting tenant as it is now. *)
Check(t) ==
  /\ Enter(t)
  /\ Goto(t, "lookup")
  /\ op' = [op EXCEPT ![t] = [Fresh EXCEPT !.key = acting,
                                           !.alone = ChangingIdentity = {}]]
  /\ got' = [got EXCEPT ![t] = "none"]
  /\ UNCHANGED <<credential, scope, memo, refresh>>

Lookup(t) ==
  /\ At(t, "lookup")
  /\ IF memo[op[t].key] # None
       THEN Return(t, "ok")
       ELSE Goto(t, "build") /\ UNCHANGED <<op, got>>
  /\ UNCHANGED <<credential, scope, memo, refresh, calls>>

(* build_headers(), of each attempt: the acting tenant is read again ... *)
BuildActing(t) ==
  /\ Step(t, "build", "bearer")
  /\ op' = [op EXCEPT ![t].header = acting]
  /\ UNCHANGED <<credential, scope, memo, refresh>>

(* ... and then the device token. *)
BuildBearer(t) ==
  /\ Step(t, "bearer", "wire")
  /\ ReadBearer(t)
  /\ UNCHANGED <<credential, scope, memo, refresh>>

(* 2xx: the decision is about whoever sent the request and for the tenant  *)
(* its header named.                                                       *)
Decided(t) ==
  /\ Step(t, "wire", "put")
  /\ Sender(t) # None
  /\ op' = [op EXCEPT ![t].decision = [by |-> Sender(t), for |-> op[t].header]]
  /\ UNCHANGED <<credential, scope, memo, refresh>>

Unauthorized(t) ==
  /\ Step(t, "wire", "judge")
  /\ UNCHANGED <<credential, scope, memo, refresh, op>>

(* Any other failure, the retries of section 16 included. *)
CheckFailed(t) ==
  /\ At(t, "wire")
  /\ \E kind \in {"authz", "network"} : Return(t, kind)
  /\ UNCHANGED <<credential, scope, memo, refresh, calls>>

Refreshable(t) == authenticated /\ ~deviceSession /\ ~op[t].refreshed

(* A 401 is refreshed once, for a cookie session. *)
JudgeRefresh(t) ==
  /\ Step(t, "judge", "refresh")
  /\ Refreshable(t)
  /\ op' = [op EXCEPT ![t].checking = TRUE]
  /\ UNCHANGED <<credential, scope, memo, refresh>>

JudgeFail(t) ==
  /\ At(t, "judge")
  /\ ~Refreshable(t)
  /\ Return(t, "auth")
  /\ UNCHANGED <<credential, scope, memo, refresh, calls>>

(* axiam_memo_put() *)
Put(t) ==
  /\ At(t, "put")
  /\ memo' = [memo EXCEPT ![op[t].key] =
                [by |-> op[t].decision.by, for |-> op[t].decision.for,
                 alone |-> op[t].alone]]
  /\ Return(t, "ok")
  /\ UNCHANGED <<credential, scope, refresh, calls>>

(* An entry outlives its TTL, or is evicted. *)
Forget(k) ==
  /\ memo[k] # None
  /\ memo' = [memo EXCEPT ![k] = None]
  /\ UNCHANGED <<credential, scope, refresh, pc, op, got, calls>>

-------------------------------------------------------------------------------

Start(t) ==
  \/ Login(t) \/ Device(t) \/ Logout(t) \/ Refresh(t) \/ Check(t) \/ ClearActing(t)
  \/ \E tenant \in Tenants : SetActing(t, tenant) \/ SetActingRefused(t, tenant)

SignIn(t) ==
  \/ LoginBuild(t)
  \/ \E p \in Principals, user, ids \in BOOLEAN : LoginAnswered(t, p, user, ids)
  \/ \E p \in Principals : LoginMalformed(t, p)
  \/ LoginRefused(t)
  \/ RecordHome(t) \/ Adopt(t) \/ Resolve(t) \/ UpdateGate(t)
  \/ DeviceAnswered(t) \/ DeviceRefused(t) \/ DeviceAdopt(t) \/ DeviceClear(t)

SignOut(t) ==
  LogoutBuild(t) \/ LogoutAnswered(t) \/ LogoutRefused(t) \/ LogoutMark(t) \/ LogoutReset(t)

Refreshing(t) ==
  \/ RefreshLead(t) \/ RefreshFollow(t) \/ RefreshUnbuilt(t) \/ RefreshBuild(t)
  \/ \E kind \in {"ok", "network"} : RefreshAnswered(t, kind)
  \/ \E kind \in {"auth", "authz", "network"} : RefreshRefused(t, kind)
  \/ RefreshMark(t) \/ RefreshPublish(t) \/ RefreshClear(t) \/ RefreshFollowed(t)

Checking(t) ==
  \/ Lookup(t) \/ BuildActing(t) \/ BuildBearer(t) \/ Decided(t) \/ Unauthorized(t)
  \/ CheckFailed(t) \/ JudgeRefresh(t) \/ JudgeFail(t) \/ Put(t)

(* What a thread inside a call does next. *)
Advance(t) == SignIn(t) \/ SignOut(t) \/ SetActingWrite(t) \/ Refreshing(t) \/ Checking(t)

(* The calls of the bound are made and have returned. *)
Quiesced ==
  /\ calls = MaxCalls
  /\ \A t \in Threads : At(t, "idle")
  /\ UNCHANGED vars

Next ==
  \/ \E t \in Threads : Start(t) \/ Advance(t)
  \/ \E k \in Tenants \cup {None} : Forget(k)
  \/ Quiesced

Spec == Init /\ [][Next]_vars

-------------------------------------------------------------------------------
(* Properties *)

Who == Principals \cup {Gadget}
Kinds == {"ok", "auth", "authz", "network"}
Acting == Tenants \cup {None}
Decisions == [by : Who, for : Acting]
Entries == [by : Who, for : Acting, alone : BOOLEAN]
Points ==
  {"idle", "login", "loginWire", "scope", "adopt", "resolve", "gate",
   "deviceWire", "deviceAdopt", "deviceClear",
   "logout", "logoutWire", "logoutMark", "logoutReset", "setActing",
   "refresh", "refreshWait", "refreshBuild", "refreshWire", "refreshMark",
   "refreshPublish", "refreshClear",
   "lookup", "build", "bearer", "wire", "judge", "put"}
Ops == [as : Who \cup {None}, user : BOOLEAN, ids : BOOLEAN, key : Acting, header : Acting,
        bearer : {Gadget, None}, decision : Decisions \cup {None}, outcome : Kinds,
        checking : BOOLEAN, refreshed : BOOLEAN, alone : BOOLEAN]

TypeOK ==
  /\ jar \in Principals \cup {None}
  /\ authenticated \in BOOLEAN
  /\ device \in {Gadget, None}
  /\ deviceSession \in BOOLEAN
  /\ resolved \in Principals \cup {Configured, None}
  /\ home \in Principals \cup {None}
  /\ gate \in Principals \cup {None}
  /\ acting \in Acting
  /\ memo \in [Acting -> Entries \cup {None}]
  /\ inFlight \in BOOLEAN
  /\ result \in Kinds
  /\ pc \in [Threads -> Points]
  /\ op \in [Threads -> Ops]
  /\ got \in [Threads -> Kinds \cup {"none"}]
  /\ calls \in 0..MaxCalls

(* The principal the client's requests are taken for. *)
Effective == IF device # None THEN device ELSE jar

(* The flag that keeps a 401 from refreshing a device credential is set    *)
(* exactly while there is one, whatever logins, device logins and          *)
(* completions interleave.                                                 *)
DeviceFlagMatches == deviceSession <=> device # None

(* Rules 3 and 9 of section 17, as far as they hold: a decision whose      *)
(* check overlapped no change of identity is the current principal's own,  *)
(* and is kept under the tenant it was asked for.                          *)
UncontendedDecisionsAreRight ==
  ChangingIdentity = {} =>
    \A k \in DOMAIN memo :
      memo[k] # None /\ memo[k].alone => memo[k].by = Effective /\ memo[k].for = k

(* A sign-in that overlapped no other change of identity leaves the client *)
(* its own: the gate is that principal's or unknown, never the previous    *)
(* one's; a refresh names its ids, if the answer's access cookie named     *)
(* them; its kind of credential is the only one held; and the cookies are  *)
(* the ones it was answered with, unless a device token rode on its        *)
(* request: then the transport has put the previous session's cookies back *)
(* over them (SignedInSessionIsUsed).                                      *)
UncontendedSignInIsWhole ==
  [][\A t \in Threads :
       pc[t] = "gate" /\ pc'[t] = "idle" /\ op[t].alone =>
         /\ gate' \in {op[t].as, None}
         /\ op[t].as \in Principals =>
              /\ device' = None
              /\ op[t].bearer = None => jar' = op[t].as
              /\ op[t].ids => resolved' = op[t].as
         /\ op[t].as = Gadget => device' = Gadget]_vars

(* What CONTRACT.md says of a call that establishes a session while a      *)
(* device token is held: "that session is used from then on" -- whatever   *)
(* rode on its request, the client's next requests are the principal's.    *)
SignedInSessionIsUsed ==
  [][\A t \in Threads :
       pc[t] = "gate" /\ pc'[t] = "idle" /\ op[t].alone => Effective' = op[t].as]_vars

===============================================================================
