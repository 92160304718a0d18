----------------------------- MODULE CallBudget -----------------------------
(***************************************************************************)
(* How often one call of the SDK may reach the server: the retry loops of  *)
(* client.c, management.c, oidc.c, registration.c and ssf.c (retry.c holds *)
(* their common policy), the refresh a check may be granted in between,    *)
(* and the connection pool of the built-in transport (transport_curl.c),   *)
(* out of which libcurl re-sends a request on its own. An application may  *)
(* set a transport of its own in its place.                                *)
(*                                                                         *)
(* Calls are made one after another: the built-in transport serialises     *)
(* them with its mutex, and no loop here reads what another call writes    *)
(* but `authenticated`, which may change at any moment (OthersSignInOrOut). *)
(***************************************************************************)
EXTENDS Integers

CONSTANTS
  MaxAttempts,   \* AXIAM_RETRY_MAX_ATTEMPTS
  BaseDelay,     \* AXIAM_RETRY_BASE_DELAY_MS
  DelayCap,      \* AXIAM_RETRY_MAX_DELAY_MS
  FloorCap,      \* the clamp of a Retry-After: an hour
  MaxHint,       \* bound on the Retry-After the server may name
  RetryEnabled,  \* axiam_client_config_set_retry_enabled
  Device,        \* a device session: it has no refresh token
  Operations     \* the operations called, a subset of Op

ASSUME BudgetAssumption ==
  /\ {MaxAttempts, BaseDelay, DelayCap} \subseteq Nat \ {0}
  /\ {FloorCap, MaxHint} \subseteq Nat
  /\ {RetryEnabled, Device} \subseteq BOOLEAN

(* "check": axiam_check_access and axiam_batch_check (authz_post); "read"   *)
(* and "write": a management GET, and any other method; "login": the        *)
(* one-shot ceremonies; "introspect": the retried OIDC POST; "grant": the   *)
(* other token-endpoint requests; "registration": axiam_registration_read;  *)
(* "poll": axiam_ssf_poll.                                                  *)
Op == {"check", "read", "write", "login", "introspect", "grant", "registration", "poll"}

ASSUME OperationsAssumption == Operations \subseteq Op

(* Operations that change the server's state and must not reach it twice.   *)
Mutations == {"write", "login", "grant"}

Retried(op) == op \notin Mutations /\ RetryEnabled

Budget(op) == IF Retried(op) THEN MaxAttempts ELSE 1

NeedsSession(op) == op \in {"read", "write"}

(* Mutant: writes travel over the pool as well. *)
PooledAlways(op) == TRUE

(* Whether the request may travel over a pooled connection: every other     *)
(* one is sent with FRESH_CONNECT and FORBID_REUSE. A check and a GET are   *)
(* pooled whatever the switch says, axiam_ssf_poll never is.                *)
Pooled(op) == op \in {"check", "read", "registration"} \/ (op = "introspect" /\ Retried(op))

Answers == {"ok", "unauthorized", "busy", "refused", "lost"}

VARIABLES
  bundled,        \* whether the transport is the built-in one
  authenticated,  \* client->authenticated
  pool,           \* whether libcurl keeps a connection it may reuse
  call,           \* the call under way
  landed,         \* history: how often the server has received its request
  renewed,        \* history: how often it has received its refresh
  sends,          \* history: how often the transport was called for its request
  result          \* of the latest call that has returned

vars == <<bundled, authenticated, pool, call, landed, renewed, sends, result>>

-----------------------------------------------------------------------------
(* axiam_retry_backoff_ms, axiam_retry_after_ms and axiam_retry_delay_ms.   *)
Smaller(a, b) == IF a < b THEN a ELSE b
Larger(a, b) == IF a < b THEN b ELSE a

Doubled[n \in Nat] ==
  IF n <= 1 THEN BaseDelay
  ELSE IF Doubled[n - 1] < DelayCap THEN 2 * Doubled[n - 1] ELSE Doubled[n - 1]

(* Full jitter: any wait up to the backoff, which the cap cuts.             *)
Jittered(attempt) == {delay \in 0..DelayCap : delay <= Doubled[attempt]}

NoHint == -1

(* What reaches the loop of a Retry-After: the built-in transport keeps two *)
(* response headers, X-CSRF-Token and Set-Cookie. Another may keep all.     *)
HandedOn(hint) == IF bundled THEN NoHint ELSE hint

RetryAfter(hint) == IF hint # NoHint THEN Smaller(hint, FloorCap) ELSE NoHint

(* Mutant: the Retry-After is a ceiling. *)
DelaysCapped(attempt, hint) ==
  {IF RetryAfter(hint) = NoHint THEN jittered ELSE Smaller(RetryAfter(hint), jittered)
     : jittered \in Jittered(attempt)}

Delays(attempt, hint) == {Larger(RetryAfter(hint), jittered) : jittered \in Jittered(attempt)}

ShouldRetry(answer) == answer \in {"lost", "busy"}

-----------------------------------------------------------------------------
(* at: "idle", "send" before the transport is called, "answered" after,     *)
(* "refresh" while the check waits for the session to be refreshed.         *)
(* attempt: its number in the events; last: the number the loop stops at;   *)
(* hint, slept: the Retry-After the server sent with its latest answer, and *)
(* the wait after it.                                                       *)
Idle == [op |-> "none", at |-> "idle", attempt |-> 0, last |-> 0, refreshed |-> FALSE,
         answer |-> "none", hint |-> NoHint, slept |-> 0]

Call == [op : Op \cup {"none"}, at : {"idle", "send", "answered", "refresh"},
         attempt : 0..(MaxAttempts + 1), last : 0..(MaxAttempts + 1), refreshed : BOOLEAN,
         answer : Answers \cup {"none"}, hint : NoHint..MaxHint,
         slept : 0..Larger(DelayCap, FloorCap)]

TypeOK ==
  /\ bundled \in BOOLEAN
  /\ authenticated \in BOOLEAN
  /\ pool \in BOOLEAN
  /\ call \in Call
  /\ landed \in 0..(2 * (MaxAttempts + 1))
  /\ renewed \in 0..1
  /\ sends \in 0..(MaxAttempts + 1)
  /\ result \in Answers \cup {"none", "no session", "not refreshed"}

Init ==
  /\ bundled \in BOOLEAN
  /\ authenticated \in BOOLEAN
  /\ pool = FALSE
  /\ call = Idle
  /\ landed = 0
  /\ renewed = 0
  /\ sends = 0
  /\ result = "none"

(* An operation begins. A management call without a session is refused      *)
(* before anything is sent.                                                 *)
Begin(op) ==
  /\ call.at = "idle"
  /\ NeedsSession(op) => authenticated
  /\ call' = [Idle EXCEPT !.op = op, !.at = "send", !.attempt = 1, !.last = Budget(op)]
  /\ landed' = 0
  /\ renewed' = 0
  /\ sends' = 0
  /\ UNCHANGED <<bundled, authenticated, pool, result>>

NoSession(op) ==
  /\ call.at = "idle"
  /\ NeedsSession(op)
  /\ ~ authenticated
  /\ result' = "no session"
  /\ UNCHANGED <<bundled, authenticated, pool, call, landed, renewed, sends>>

-----------------------------------------------------------------------------
(* One call of the transport, up to the answer it returns. On a reused      *)
(* connection the server may read the request and drop the connection       *)
(* before a byte of the reply: libcurl then sends it again on a new one.    *)
(* The request may get lost on the way, or its answer on the way back. A    *)
(* transport in its place may keep connections as well; transport.h forbids *)
(* it, too, to send a write twice.                                          *)
Reusing(op) == pool /\ Pooled(op)

Deliveries(op) == IF Reusing(op) THEN {0, 1, 2} ELSE {0, 1}

Hints(answer) == IF answer = "busy" THEN NoHint..MaxHint ELSE {NoHint}

(* Whether libcurl keeps a connection for the next request.                 *)
Keeps(op, answer) ==
  IF ~ Pooled(op) THEN {pool} ELSE IF answer = "lost" THEN {FALSE} ELSE BOOLEAN

Transport ==
  /\ call.at = "send"
  /\ \E copies \in Deliveries(call.op), answer \in Answers :
       /\ copies = 0 => answer = "lost"
       /\ \E hint \in Hints(answer) :
            call' = [call EXCEPT !.at = "answered", !.answer = answer, !.hint = hint, !.slept = 0]
       /\ pool' \in Keeps(call.op, answer)
       /\ landed' = landed + copies
  /\ sends' = sends + 1
  /\ UNCHANGED <<bundled, authenticated, renewed, result>>

(* Mutant: one attempt too many. *)
ExhaustedLate == call.attempt > call.last \/ ~ ShouldRetry(call.answer)

(* The loop waits and tries again.                                          *)
Exhausted == call.attempt = call.last \/ ~ ShouldRetry(call.answer)

Retry ==
  /\ call.at = "answered"
  /\ ~ Exhausted
  /\ \E delay \in Delays(call.attempt, HandedOn(call.hint)) :
       call' = [call EXCEPT !.at = "send", !.attempt = @ + 1, !.slept = delay]
  /\ UNCHANGED <<bundled, authenticated, pool, landed, renewed, sends, result>>

(* A 401 to a check: one refresh, when there is a session that has one.     *)
MayRefresh ==
  /\ call.op = "check"
  /\ call.answer = "unauthorized"
  /\ ~ call.refreshed
  /\ authenticated
  /\ ~ Device

EnterRefresh ==
  /\ call.at = "answered"
  /\ MayRefresh
  /\ call' = [call EXCEPT !.at = "refresh", !.refreshed = TRUE]
  /\ UNCHANGED <<bundled, authenticated, pool, landed, renewed, sends, result>>

(* The refresh succeeds, and the check is sent once more under the next     *)
(* number; or it fails, and the check with it. Its request is a write of    *)
(* its own, sent over a connection of its own, unless another thread's      *)
(* refresh serves this one (SingleFlight).                                  *)
Refreshed ==
  /\ call.at = "refresh"
  /\ renewed' \in {renewed, renewed + 1}
  /\ call' = [call EXCEPT !.at = "send", !.attempt = @ + 1, !.last = call.attempt + 1,
                          !.answer = "none", !.hint = NoHint, !.slept = 0]
  /\ UNCHANGED <<bundled, authenticated, pool, landed, sends, result>>

RefreshFailed ==
  /\ call.at = "refresh"
  /\ renewed' \in {renewed, renewed + 1}
  /\ authenticated' \in {authenticated, FALSE}
  /\ result' = "not refreshed"
  /\ call' = Idle
  /\ UNCHANGED <<bundled, pool, landed, sends>>

(* The call returns what its latest answer was.                             *)
Return ==
  /\ call.at = "answered"
  /\ Exhausted
  /\ ~ MayRefresh
  /\ result' = call.answer
  /\ call' = Idle
  /\ UNCHANGED <<bundled, authenticated, pool, landed, renewed, sends>>

OthersSignInOrOut ==
  /\ authenticated' = ~ authenticated
  /\ UNCHANGED <<bundled, pool, call, landed, renewed, sends, result>>

Next ==
  \/ Transport \/ Retry \/ EnterRefresh \/ Refreshed \/ RefreshFailed \/ Return
  \/ OthersSignInOrOut
  \/ \E op \in Operations : Begin(op) \/ NoSession(op)

Spec == Init /\ [][Next]_vars

-----------------------------------------------------------------------------
(* A request that changes the server's state reaches it once at most: no    *)
(* loop repeats it and it never travels on a connection libcurl could       *)
(* re-send it over; nor is the refresh inside a check ever sent twice.      *)
WritesLandOnce ==
  /\ call.op \in Mutations => landed <= 1
  /\ renewed <= 1

(* One call reaches the transport as often as its events count, its budget  *)
(* at most, and once more after a refresh: the refresh gives nothing of the *)
(* budget back.                                                             *)
AttemptsAreBounded ==
  /\ call.at = "answered" => call.attempt = sends
  /\ call.at # "idle" => sends <= Budget(call.op) + (IF call.refreshed THEN 1 ELSE 0)

(* A Retry-After that reaches the loop is a floor and never a ceiling: no   *)
(* retry leaves sooner than it says (an hour being the most it is granted), *)
(* and no wait is longer than that or the backoff's cap, whichever is       *)
(* longer. It reaches the loop through a transport the application has set. *)
(* The built-in one drops the header, so with it the server's request is    *)
(* not known of and a wait is the backoff's alone, the cap at most.         *)
WaitsAreAsTold ==
  /\ call.at = "send" => call.slept >= Smaller(HandedOn(call.hint), FloorCap)
  /\ call.slept <= Larger(DelayCap, Smaller(HandedOn(call.hint), FloorCap))

=============================================================================
