# A verification of axiam-c-sdk

TLA+ models of the AXIAM client library for C, checked with TLC on small
instances and, where it pays, proved with TLAPS for every instance. The library
is a body of C with one opaque client object, a handful of mutexes, a pluggable
transport and several protocols that are lost or won in the order of two steps:
a refresh that must happen once, a cache that must forget in time, a poll that
must stop, a message that must not be handled twice. Those are what is modelled.

Paths below are relative to the repository. The library itself is in `src/`
(its sources) and `include/axiam/` (its headers); `CONTRACT.md` is the contract
all AXIAM SDKs share, and its sections are what most comments in the C code cite.

## 1. Inventory

| Component | Source | State it keeps | Operations | Correct when |
|---|---|---|---|---|
| Client: session, credentials, decisions | `src/client.c` | cookies (in the transport), `authenticated`, device token and flag, resolved ids, home tenant, acting-tenant gate, acting tenant, memo | login, device login, logout, set/clear acting tenant, refresh, check, batch check, close, free | credentials, gate and memo all belong to one principal; a decision is the current principal's |
| Session refresh guard | `src/client.c:441-519` | `refresh_in_flight`, `refresh_result`, `refresh_count` | lead, follow, publish | one refresh in the air, every caller answered by a flight of its own time |
| OAuth2 refresh registry | `src/oidc_refresh.c` | list of reference-counted flights, one condition variable | lead, join, publish, release | one redemption per token, no use after free, nobody stranded |
| Decision memo | `src/memo.c` | list of decisions with their age | get, put, clear, evict | serves only what the server said, under the TTL, in bounded memory |
| Transport | `src/transport_curl.c` | libcurl handle, cookie jar, saved cookies | one request | one request is one delivery where it matters; nobody's cookies are lost |
| Retry schedule | `src/retry.c` and its callers | attempt number | decide, wait | budgets and `Retry-After` are kept; a write is never repeated |
| Local verification | `src/jwks.c` | cached key set, its date, re-fetch window | verify a token | accepted means signed by a live key, in time, ours, confirmed |
| Revocation feed | `src/revocation.c` | the last good set, the last attempt | enable, poll, judge | a revoked session is refused within a poll interval |
| Device grant, CIBA | `src/oidc_device.c`, `src/oidc_ciba.c` | deadline, interval, pending wait | authorize, poll, wait | stops at its deadline, respects pace, tells the truth |
| Reactor | `src/reactor.c` | binding table, nonce set | bind, serve, verify, reply | handles an event once, replies with the handler's answer or not at all |
| OIDC discovery, code flow, SSO, federation | `src/oidc.c` | discovery document and its date, under a lock held across the fetch | discover, begin, exchange, complete | documents are current and never go back; an answer is this request's |
| Token validation | `src/oidc_validate.c` | none | validate | what is accepted was minted by this issuer, for this client and request, and is alive |
| Shared signals receiver | `src/ssf.c` | key cache, fetch limit, replay store; what to acknowledge is the application's | poll, verify a pushed SET | no event is acknowledged unseen or handed over twice; no removed key verifies |
| UMA, dynamic registration, webhooks, MCP | `src/uma.c`, `src/registration.c`, `src/webhook.c`, `src/mcp.c` | UMA's discovery cache | one exchange each | nothing redeemed twice; documents current |
| WebAuthn, account, OPAQUE, native sign-in | `src/webauthn.c`, `src/account.c`, `src/opaque.c`, `src/oidc_native.c` | none of their own | ceremonies that end in a session | the session is whole or absent |
| Management surface | `src/management.c`, `src/management_helpers.c`, `src/management_ops.c`, `src/management_models.c` | none; documents are the caller's between a read and a write | 202 operations over 166 types, 26 list walks, conversions of a reading to a replacement | an edit changes what it names; nothing unknown is sent; a walk is complete |
| Management manifests | `src/management_manifest.c` | none; a plan between its reads and its writes | plan, apply | an apply ends in what is stated, can be run again, loses no binding and no secret |
| Guard, telemetry, configuration, errors, utilities | the rest of `src/` | hooks, configuration | pure | mappings as documented |

How they interact. Every operation builds its headers from the client's state
under `state_mtx`, calls the transport **without** a lock, and takes the lock
again to write what it learnt: so each is three or more critical sections with
the network between them, and two threads interleave there. The refresh guard,
the refresh registry, the memo, the key cache and the feed each have a mutex of
their own. A 401 to a check enters the refresh guard and sends the check again;
every change of identity clears the memo; verification consults the key cache
and then, on the request path, the feed. There are no background threads: timers
are a comparison made by the next caller. The built-in transport serialises
requests with its own mutex, but the transport is the caller's to replace, and
overlapping requests are what a replaced one gives.

What is hard: callbacks and condition variables (spurious wakeups, a recycled
flight); answers that arrive after the state they were asked under has gone;
cookies swapped in and out around a request; the age of a cache measured on one
side of a lock and used on the other; second-granular clocks against
millisecond windows; lost answers to requests that cannot be repeated; servers
that answer slowly, busily or not at all; documents that others edit between a
read and a write; a long run of writes that stops half-way. `PROJECT.json` lists each as a hazard
at the line where it bites, with the properties that watch it.

## 2. Modules

| Module | Models | In one sentence |
|---|---|---|
| `SingleFlight` | `single_flight_refresh()`, `perform_refresh()` | the guard with its condition variable, spurious wakeups included |
| `CoalescedCall` | (abstract) | callers with one key share one flight and its outcome |
| `OidcRefresh` | `axiam_oidc_refresh()` | the registry on a heap whose addresses are recycled; implements `CoalescedCall` |
| `DecisionCache` | (abstract) | a cache that may forget at any time and never invents |
| `DecisionMemo` | `src/memo.c`, `axiam_check_access()` around it | the linked list; implements `DecisionCache` |
| `Session` | the identity of the client | every critical section of login, device login, logout, acting tenant, refresh and check, composed with the jar and the memo |
| `KeyCache`, `RevocationFeed` | `src/jwks.c`, `src/revocation.c` | the two caches of verification, with the server that rotates and revokes |
| `LocalVerification` | `verify_core()` and what it calls | composes the two: `EXTENDS KeyCache`, `INSTANCE RevocationFeed` |
| `CallBudget` | every retry loop, the 401 path, libcurl's connection reuse | one call from its first attempt to its return, and what the server received of it |
| `GrantPolling` | `axiam_device_login()`, `axiam_ciba_await()` | both loops, the retries inside each poll, and the server's grant |
| `Reactor` | `src/reactor.c` | the table, the nonce set and the reply, between broker and server |
| `CodeFlow` | `src/oidc.c`, `src/oidc_validate.c`, discovery in `src/uma.c` | the two discovery caches and the code flow up to a judged token set |
| `SsfReceiver` | `src/ssf.c` | polls and pushed SETs of several threads, between a transmitter and an application |
| `ManagedTenant` | (the server, from what the SDK relies on) | what each management write makes of a tenant |
| `Manifest` | `src/management_manifest.c` | plan and apply, request by request, over a `ManagedTenant` others write to |
| `Listings` | (lists, as both of these make them) | the wanted members of a list, and a set written out in an order |
| `MemberClasses` | `src/management_models.c` | the classes of members: what a parser makes of each wire value, a builder of each struct value |
| `ManagementModels` | `src/management_models.c` | the 166 types by the class of each member, and what is checked of each |
| `ManagementSurface` | `src/management_ops.c` | the 202 operations: method, template, body, answer, local refusals |
| `EditTasks` | `src/management_ops.c` | for each operation with a body and each member of it, what the two tables say of an edit |
| `ManagementEdit` | `src/management_ops.c`, `src/management_helpers.c` | several editors who read, convert, change and send one document |
| `PageWalk` | `list_all` loops, paging in `src/management.c` | a list read page by page while rows come and go |

`*_proofs` modules extend the module they are named for; `CachesAndGrants_proofs`
is about `DecisionMemo`, `CodeFlow` and `GrantPolling`, `Delivery_proofs` about
`CallBudget` and `SsfReceiver`, `Management_proofs` about `PageWalk`, `Manifest` and
`ManagementEdit`. `MC*` modules give the constants of the runs; `MCCaches`,
`MCGrants`, `MCDelivery` and `MCManagement` hold two machines each, of which a
behaviour is about one. Definitions called mutants are faulty variants of the
definition that follows them; each breaks one property, which shows that the
property can fail.

The steps of a model are the code's critical sections. A thread's `pc` (or `at`)
says between which two it is; what it holds in C locals is in `op`, `call`,
`ask`, `local`. A network request is at least two steps: the server acts, then
the answer is used. Payloads are reduced to what the code tells apart: a session
is the principal it belongs to, a token is a record of the facts the checks ask
for, a decision is whom it is about and what it says, an answer is its class.
Variables marked *history* record what happened so that properties can refer to
it; no guard reads them, bounds excepted.

### SingleFlight
`idle -> leading -> landed -> idle` for the leader: take the flag (500-501),
perform (441-476), publish, broadcast (505-510), and then clear the memo.
`idle -> asleep -> woken -> idle` for a follower; `woken` means that it must win
the mutex back, and it sleeps again if it finds a flight in the air.
`SpuriousWakeup` may wake anyone. `refresh_result` is one variable, so a follower
that is slow to wake may be handed a later flight's outcome: the property says
at or after the one it joined, which is what the code guarantees.

### OidcRefresh and CoalescedCall
A flight is a heap node with a key, a `done` bit, an outcome and a reference
count; `Freed` makes its address available to the next `Lead`. The node is
unlinked when it is published, so a late caller with the same token begins
another flight. Refinement: `slot` is the serial number of the linked node of a
token, `seat` the serial number of the node a thread points to. The refinement
is what excludes joining a flight through a recycled address.

### DecisionMemo and DecisionCache
`Stamp` reads the clock before the mutex and `Link` takes it, as in
`axiam_memo_put()`; `Evict` removes from the tail. A body that is not a decision
reads as the zeroed result and is kept as a deny, as in the code. The abstract
cache is a function from keys to answers with a date, which anything may drop.

### Session
`jar` is whose cookies the transport holds, `device` whose certificate-bound
token, `Effective` who the server takes the client for. `Stored` is the
transport's handling of a request that withholds the jar
(`src/transport_curl.c:117-170`, 215-244): the
saved cookies are put back *after* the answer's own were stored. A sign-in
clears the memo, goes to the wire, has its cookies stored, replaces the device
credential, takes the ids from the answer and writes the gate, each in a step of
its own; a device login clears the memo last. `alone` marks a call that overlapped no other
change of identity: the ghost that lets a property say what the code does promise
where it promises nothing about races. `UncontendedSignInIsWhole` is what such a
sign-in is sure to leave behind; the one thing it is not sure of, its cookies when
a device token rode on its request, is `SignedInSessionIsUsed` (section 5).
`resolved` is whose ids a refresh names: those of the latest sign-in whose access
cookie named them (`resolve_ids_from_login()` leaves the others where they are), or
else the configuration's (`Configured`), which a client built with slugs does not
have; only then is a refresh not sent. The retries inside a check are
`CallBudget`'s; here they are one failure. Assumed: a sign-in's answer carries
session cookies; an access cookie that names one of the two ids names the other; the
`csrf_token` is not modelled; a 2xx to a refresh implies that somebody's session was
presented.

### KeyCache, RevocationFeed, LocalVerification
Keys are published and retired by the server at any time; a fetch takes up to
`MaxFlight`, and two may land in the order opposite to their answers. A forced
fetch (an unknown `kid`) first takes the re-fetch window. The feed marks its
attempt before it sends it, so others are judged by the set at hand while it is
in the air; a failed poll keeps the set. A token is the record of what
`check_claims()` and `check_cnf_binding()` ask; verification with the lenient
policy stops after the signature, as the code does.

### CallBudget
An operation belongs to one of eight classes, which differ in budget, in whether
the session is needed, in whether it may be repeated, and in whether it is sent
over a pooled connection. `Transport` chooses how many copies of the request the
server received (two only over a reused connection, which is libcurl's own
re-send), what it answered and the `Retry-After` that came with it. A client has
the built-in transport or one its application has set (`bundled`). The built-in one
keeps two headers of an answer and `Retry-After` is not one of them, so that no hint
reaches the loop (`HandedOn`; section 5). Of another one nothing is assumed but what
`include/axiam/transport.h:47-51` asks: it may keep connections, and sends no write
twice.

### GrantPolling
Time is in ticks, two to a second, because the code compares whole seconds with
waits that do not end on one. A request reaches the server, which answers
according to the grant, or something on the way answers in its place; an
approved grant is redeemed by the request even when the answer is lost. The
`Retry-After` of an answer is what the transport hands on of it: over the built-in
one always none.

### Reactor
One thread serves; the broker may deliver any dispatched message at any time, as
often as it likes, whole or damaged. A claim drops expired nonces and adds its
own, valid for twice the freshness window. The server resolves each event by the
first reply it reads in its window, or by the registration's `failure_policy`,
which is taken from `axiam_reactor_default_failure_policy()` over the bound
events. An event's `ahead` is how far the server's clock is in front.

### CodeFlow
A behaviour is about one of two documents, which share no state: the OIDC one,
whose lock is held across the fetch (`Fetch` to `Land`), or the UMA one, fetched
without a lock. The server numbers its documents and `retired` remembers when one
ceased to be served, which is what the age of a copy is measured against.
`Exchanged` sends a code with the parameters of a request that was begun; the
answer may carry any token the organization's keys have signed, so the one that
was asked for, or one of another issuer, client or request. `party` is whom a
token was minted for; the code sees only `aud` and `azp`. The judgement is a step
of its own, after whatever time the keys took.

### SsfReceiver
A thread takes the SETs of a reply one at a time through key lookup, signature
and replay store; `keys_mtx` is held while a document is fetched, so the others
wait there. The application acknowledges on a later poll what it was given and
what was refused, and the transmitter offers an event until then or until its
retention ends. A SET that is not the transmitter's may carry any `kid`. The
process may crash, with a store that survives or one that does not. Time passes
only while every thread waits, so that a step without the network takes none.
`failed` is history: whether the fetch that `last_counted_fetch` dates came to
nothing. `Excusable` needs it, for the code refuses what a failed fetch would have
let pass (section 5): a genuine SET may be refused only when its key is too new for
the latest fetch, is retired by now, or was missing from a cache whose refetch had
failed. A fill and the refetch after it are two flights, and both leave the cache
with the date at which the lock was had, as `now` in `key_for_kid()` does.

### ManagedTenant and Manifest
A manifest is a sequence of entities, bindings and network items whose members
are stated or not; a plan is read request by request, so that others write
between two reads and between read and write; an apply performs the plan's
actions in five phases. Each request succeeds, fails, or takes effect and loses
its answer. A rebind is three requests (unassign, assign, and the restore when
the assignment fails). A failed apply is run again over what it left. The work of
an apply is written down with its plan (`job.work`), in the order of its phases.
A tenant is `WellFormed`: ids are given once and below the next, the holder and the
role of a binding exist, versions of segments and profiles are numbers. A plan's
lists are made by `Listings`, which says by sets and positions what the code's loops
and its stable sorts come to, and by folds.

### MemberClasses, ManagementModels, ManagementSurface, EditTasks, ManagementEdit
The generated code treats two members of one class alike: the class of a member
(a required enum, an optional number, a tagged union, a nullable string) says
what its parser makes of each wire value and what its builder writes of each
struct value. `MemberClasses` is those classes, `ManagementModels` the table of
types, `ManagementSurface` the table of operations, both by row; `map` names the
rows' lines. `ManagementEdit` is the machine: read, convert (`to_input`), change,
send, with a version condition or without, beside other editors. What it edits is a
`task`: the classes of a member in the body and in the reading, how the body relates
to the document, the condition, the refusals. The machine knows of the tables only
that tasks are `IsTask`; `EditTasks` reads the tasks off them, with `RECURSIVE`
operators, and TLC evaluates `IsTask` over every leaf of every operation that has a
body. The run takes the machine through each of them that stands for a class.

### PageWalk
The walk, with a page size the server may cap, and rows added or removed meanwhile.
Each page is asked for with the search of the first; the next offset is the
requested size on.

## 3. Runs

Nine runs pass and three exhibit a disagreement (section 5). The nine run to
completion with two workers.

| Run | Instance | What it shows |
|---|---|---|
| `MCSingleFlight` | 3 threads x 2 calls, 3 kinds of outcome | one flight at a time; nobody asleep without a leader; followers are answered by a flight that landed during their own call; every caller returns |
| `MCGrants` | refreshes: 3 threads, 2 tokens, 2 addresses, 1 call each; polling: lifetime 6, interval 1, hints to 2, 3 attempts | counts equal holders, no freed node is reached, none is leaked, followers keep their token across recycled addresses; refines `CoalescedCall`, so no token is redeemed twice at once; every caller returns. Nothing is sent after the deadline; polls are spaced; nothing is sent once decided, and the outcome is the server's; every call returns |
| `MCCaches` | memo: 2 threads, 3 keys, cap 2, TTL to 2, time to 3; documents: 2 threads, 2 requests, 2 documents, lifetime 2, time to 3 | the memo is bounded with one entry per key and refines `DecisionCache`; a discovery document is current and the OIDC one never goes back; accepted claims are this request's |
| `MCSession` | 2 threads, 4 calls, 2 principals, a device, a tenant, ids configured or not | the device flag is the token's; uncontended decisions and sign-ins are right |
| `MCSignInAfterDevice` | the same | (a disagreement) a sign-in made with a device token attached succeeds, and the session before it is used |
| `MCLocalVerification` | 2 threads, 2 keys, 1 session, 5 kinds of token, 3 calls, time to 3 | accepted is genuine, with a key that is recent; forced fetches are rationed; polls are honoured; revocations stand |
| `MCDelivery` | calls: all classes, 3 attempts, delays 1, 2, 3, clamp 4, hints to 5; events: 2 threads, 2 events, 2 keys, a bogus kid, window, retention and lifetime 3, interval and flight 1, 1 crash, time to 3 | writes land once; attempts bounded; over either kind of transport a wait is as long as the loop was told; no event is lost or handed over twice; no removed key verifies |
| `MCReactor` | 2 events, 3 names, 5 answers, 4 ticks of half a second, window 1 s | replays outwaited; damaged copies spend nothing; outcomes are a handler's or the policy's |
| `MCManifest` | 4 manifests, 3 tenants, 3 applies, 2 faults, 1 write of another | what is applied is what is stated, planned again it is nothing to do; no conflict of an apply's own making; bindings are only moved; secrets are reported; silence changes nothing |
| `MCManifestText` | the same, with a stated resource description | (a disagreement) the plan after an apply is an update, for ever |
| `MCManagement` | edits: every operation with a body, a leaf of each class, 2 editors, 3 versions, 2 event types; walks: 3 rows, 3 limits, 2 offsets, a cap of 2 | nothing unknown is sent; edits keep the rest; a walk is complete |
| `MCSsfOutage` | 1 thread, 1 event, 2 keys, lifetime 4, interval 2, flight 1 | (a disagreement) after a fetch that failed, a genuine SET gets a verdict |

Why the bounds are enough. Three threads are a leader, a follower and a
newcomer, and two calls each let a follower meet a later flight; two addresses
are fewer than flights, so one is recycled while another lives. Three keys over
a cap of two evict, and time 3 against a TTL of 2 has an entry younger than, at
and past its TTL. Two documents and two callers are a fetch that is overtaken;
time 3 is the lifetime of a document and one transit, and outlives a token with
its skew. In `MCSession` two threads overlap any two of the operations at
every step, and four calls in all allow a sign-in, a change and a check after it;
threads are symmetric, and states that differ only in what nothing reads, the home
tenant and the kind a call returned, are one (`ReadLater`). In `MCLocalVerification` time 3 exceeds
TTL, cooldown and poll (2 each), the skew is 1 and a request lasts at most 1; the
named assumption `FlightFitsPoll` says that a request lasts less than a poll
interval, which is the application's to configure: an interval is never less than
15 seconds (`include/axiam/revocation.h:51`) and the total timeout of a request is
whatever `axiam_client_config_set_timeout_ms()` was given; the constraint
`OneAtATime` keeps the server from moving keys and sessions in the same run of
events, which do not interact. The delays of `MCDelivery` are the code's divided by
a common factor, with a hint above the clamp; its keys live longer than a flight
and an interval together, so that a refetch can fail over a cache that has not
expired and be allowed again before it has; its constraint `FewAtOnce` keeps to two
threads at one event, with a crash, or one thread at two: a race needs one event, a
batch that fails in its middle two. In `MCGrants` three threads are two leaders and a
follower, and six intervals outlast every combination of one slow_down, one hint and one round of retries. In
`MCReactor` four ticks reach two whole windows after an event's arrival, which is
where replay memory ends; the second event is a plain one (`PlainSecond`), there
to share the thread and the nonce set. The manifests of `MCManifest` have one
entity for each path of the code: nested resources whose keys sort the wrong way
round, a binding to move and one to move with a scope, two segments and a profile
under a raised cap, a cycle and a doubled binding to refuse; three applies are a
failed one, its repetition and the one after; two faults break an assignment and
the restore that follows it. In `MCManagement` a stale edit needs two editors, and
three rows give walks of several full pages, one of them cut by the cap.

Deadlock is checked where somebody can always act. It is not checked in the runs
whose clocks, calls, versions or consumer end.

Fairness. `SingleFlight` and `OidcRefresh` assume that each thread that can move
does (`WF` of `Advance(t)`, one thread's own steps): pthreads schedule every
runnable thread, and a request returns. The second half is an assumption about the
configuration: the built-in transport sets a total timeout only when one was
asked for (`src/transport_curl.c:134`), libcurl's own default has none, and then a
server that accepts a connection and falls silent holds the leader of a flight,
and every follower, for as long as it likes.
Nothing is assumed of spurious wakeups or of new callers. `GrantPolling` assumes
`WF` of the loop's own steps and nothing of the user or the server.

## 4. Theorems

TLAPS proves, for any threads, principals, tenants, keys, events, budgets, windows
and lifetimes that satisfy the modules' named assumptions (finite or not, unless
said):

| Module | Theorem | Property |
|---|---|---|
| `SingleFlight_proofs` | `TypeCorrect`, `Exclusive`, `NobodyIsForgotten`, `OutcomeIsFresh`, `FollowersReturnSettled` | `TypeOK`, `AtMostOneFlight`, `SleepersAreAwaited`, `NeverAnEarlierOutcome`, `FollowerReturnsSettled` |
| `OidcRefresh_proofs` | `HeapSound`, `FlightsAreLed`, `Refinement` | `HeapIsSound`, `EveryFlightIsLed`, `CoalescesCalls` |
| `Session_proofs` | `TypeCorrect`, `UncontendedRight`, `FlagMatches`, `SignInIsWhole` | `TypeOK`, `UncontendedDecisionsAreRight`, `DeviceFlagMatches`, `UncontendedSignInIsWhole` |
| `CachesAndGrants_proofs` | `MemoBounded`, `MemoRefines` | `BoundedAndUnique`, `MemoIsACache` |
| | `DocumentsCurrent`, `ExchangeAcceptsItsOwn` | `DocumentsAreCurrent`, `AcceptedIsThisRequests` |
| | `InTime`, `Spaced`, `Truthful` | `NothingAfterDeadline`, `PollsAreSpaced`, `OutcomeIsTrue` |
| `LocalVerification_proofs` | `Genuine`, `Rationed` | `AcceptedIsGenuine`, `ForcedFetchesAreRationed` |
| | `Honoured`, `StaysRevoked` (if `MaxFlight < Poll`) | `PollIsHonoured`, `RevocationsStand` |
| `Delivery_proofs` | `LandOnce`, `Bounded` | `WritesLandOnce`, `AttemptsAreBounded` |
| | `Patience` | `WaitsAreAsTold` |
| | `OnlyCurrentKeys`, `GivenOnce`, `NoneIsLost` | `KeysAreCurrent`, `EachEventOnce`, `NoEventIsLost` |
| `Reactor_proofs` | `Outwaited`, `HandlersDecide`, `FirstIsServed` | `ReplaysAreOutwaited`, `OutcomeIsTheHandlers`, `FirstArrivalIsServed` |
| `Management_proofs` | `WalkComplete` | `WalkIsComplete` |
| | `BindingsMoved`, `SecretsKept`, `SilenceKept` | `BindingsAreOnlyMoved`, `SecretsAreReported`, `SilenceChangesNothing` |
| | `NothingUnknown`, `EditsKept` | `NothingUnknownIsSent`, `EditsKeepTheRest` |

So every safety property of the passing runs is proved, but for three of `Manifest` that are
false for some values of its constants (below), and both refinements are. Each module
first proves its inductive invariant (`Inductive`, `MemoInductive`, `CodeInductive`,
`PollingInductive`, `SsfInductive`, `AlwaysRemembered`, `WalkInductive`,
`ManifestInductive`, `EditInductive`), which TLC had checked on the module's run, and
reads the properties off it.

* **SingleFlight.** `AtMostOneFlight` is not inductive: a thread could be
  airborne with the flag down. The invariant adds that the flag has an owner, that a
  sleeper joined a flight that is counted, and that `refresh_result` is the
  latest outcome; then a follower that returns reads an outcome at or after its
  own flight's.
* **OidcRefresh.** That no freed node is reached says nothing of why. The invariant
  adds that the registry links exactly the nodes that are not done, one at most for
  a token (`RegistryIsSound`), that each of them has one leader still to land it
  (`EveryFlightIsLed`), that an idle thread holds nothing, and that what a node says
  is what the history says of the one flight now at its address (`LogIsTrue`,
  `SerialsAreDistinct`). A count that is the number of holders then bars an address
  in use from being handed out again. The refinement maps each step
  to one of `CoalescedCall` or to a stutter: the spurious and the wasted wakeups,
  and a follower that sleeps again, are the stutters.
* **Session.** The memo is right because of what the calls in progress hold. The
  invariant says of each thread what it has loaded by its program counter, that a
  sign-in in progress has been noticed by every check that began before it
  (`Undisturbed`), that a completed change of identity left no entry of another
  (`ClearedHoldsNone`), and that entries made alone are right. For a sign-in
  (`SignInIsWhole`) the invariant says, step by step, that what it has written so far is
  what the client holds, as long as nobody else is changing the identity; of the cookies
  it says so only of a sign-in that carried no device token.
* **DecisionMemo.** That the list holds a key once and is bounded is inductive with
  what each thread keeps between its steps (`CallsKeepTheirPlace`): a question while
  it is out, a body until it is read, a stamp no later than now. `MemoRefines` maps
  the list to the function from keys to dated answers it stands for (`BarOfList`):
  linking replaces one key's answer, and an eviction, a clear or a purge of the old
  is the abstract cache's right to forget.
* **CodeFlow.** A copy was served at most a transit before its date, and what a call
  was handed at most a transit and a lifetime before it was handed (`CacheIsRecent`,
  `HandedIsRecent`). Of the OIDC document only the holder of the lock fetches, so
  that what lands is never older than what anyone was handed (`OneFetches`). A token
  under judgement names the party it was minted for, and an accepted one is this
  party's, this issuer's and this request's (`TokensAreMinted`).
* **LocalVerification.** The key cache is no older than a request before its date,
  and a thread that looks has a fresh one to look into (`KeysSound`); a token in hand
  was judged as recently as its place says (`JudgedAt`), which bounds how stale
  `AcceptedIsGenuine` may be. The two theorems on the feed assume that a request
  lasts less than a polling interval: `revocation_refresh()` marks the attempt before
  it is made, so two polls that overlap can land in either order, and only their
  spacing orders them.
* **CallBudget.** What the server received is bounded by what the transport was
  asked, which is counted by the attempt number, whose last value a refresh may
  raise only once: `Counted`, `Capped`, `Single`, `RenewedOnce`. `Patience` is about
  the hint that reaches the loop, over any transport, which no step changes: a floor,
  cut at an hour, and a ceiling no lower than the backoff's cap. Over the built-in one
  there is no hint, and the ceiling is what it says.
  A delay is any value up to the doubled base, cut by the cap (`Jittered`); the proof
  uses the cap and nothing of what `Doubled`, a recursive function, computes.
* **SsfReceiver.** The three properties need one another. A refusal is excused only
  if the cached keys are as old as they say (`Dated`), which needs that one thread
  at a time fetches, while it holds the lock, and never longer than a flight
  (`Locked`), and that a retired key was retired before its successor came
  (`Rotated`). An event has passed when it is handed over or on its way; then it is
  on the store until its window ends, in one place (`Recorded`); and what the
  transmitter dropped, what the application will answer for and what the store holds
  has passed or is excused (`Accounted`). That a poll runs beside the one that
  accepted an event is why the last says "or is on its way".
* **GrantPolling.** The deadline is a grant's life away at most, the interval is the
  first one and an increment for every `slow_down` (`IntervalGrows`), and a settled
  matter is not asked about again (`MatterIsSettled`). Time is counted in parts of a
  second and compared in whole ones, so the lemmas on `Seconds` carry the argument.
* **Reactor.** Whoever was handled less than two windows ago is in the nonce set
  (`Remembered`): a claim drops only what has expired, and an entry expires two
  windows after it was made. An accepted event has no such entry. The clock may tick
  any number of times in a second. `HandlersDecide` follows an event through the
  hands it is in (`InHand`), the replies on the wire and the registration
  (`Registered`) to its resolution.

* **PageWalk.** Every page is asked with the search and the size of the first, so that
  what is collected has the term (`SameQuestion`, `TermIsKept`). As long as nothing was
  removed, each row that was due when the walk began and stands below the offset it has
  reached has been collected (`NothingIsSkipped`): a row added in front of the offset
  pushes others on, which are seen twice and never missed. If nothing was added either,
  what was collected is the first listing cut at that offset (`CutInOrder`), and a walk
  that ended has gone past the last row (`ReadToTheEnd`).
* **Manifest.** A plan is what was read some requests ago, so the invariant says which
  part of it cannot have gone stale: an id that was found by kind and name still has
  that kind and that name, or is gone, for ids are given once (`Knows`); a segment or a
  profile that was read is the one that stands or its version has passed. Of the
  bindings that stood when the apply began, and that nobody else has touched, each
  stands, is on the move between the two requests of its rebind, or is reported. The
  lists of a plan are dealt with first: what each of them can hold (`AllRead`,
  `BindingsAreKnown`), and that its work names its due actions. `SilenceKept` then compares
  a written object member by member with what stood before the write.
* **ManagementEdit.** The lemmas on classes come first, without a state: what a reading
  says survives being parsed, built, parsed as the body and built again, but for a word
  newer than the SDK, which becomes `_UNKNOWN` or a bare tag (`ValuesAreCarried`); and a
  body says something unknown only if what is held is unknown (`BodiesSay`). The
  invariant says that what an editor has not named is what the version it has seen says
  (`OfThisVersion`), *if that version still stands*, and that a body which can be
  conditional holds that version; an accepted edit makes the version a later one, of which
  nobody has read anything. `EditsKept` follows for whoever sends while its version
  stands or is conditional on it.

What the management proofs say of lists is proved by induction over them, from the
library's theorem that the naturals are well-founded (`LeastNatural`, `UpTo`,
`Recursion`): the set of positions at which a claim fails would have a least
element. That takes no operator as a parameter; `Listings` and the folds are what
it is applied to.

Assumptions on constants are named and state what the code or a C compiler gives:
bounds are natural numbers, windows and intervals positive, a null pointer is no
address and no key, `None` is no member of the sets it is joined with, a set of
threads is finite where references are counted (`ThreadsAssumption`) and a set of
events where replies are lists of them (`SsfAssumption`), the transmitter publishes
a key, `Window >= Retention` because `axiam_ssf_receiver_new()` refuses less, a
token's dates are numbers (`TokenAssumption`); the marks of a text are texts
(`TextsAssumption`), manifests are made of what a manifest is made of and tenants are
well-formed (`ManifestAssumption`), a server's page holds a row at least
(`WalkAssumption`). `TasksAssumption` is a fact of the generated tables: an operation that
writes a word out of a vocabulary checks it, a replacement has of each member the
class of the reading or its optional form, a sparse update can leave its members out.
The two updates of the settings and `network_replace_profile` have readings that share no
member with them (`OtherShape`), and their bodies are composed like a creation's.
TLC evaluates the assumptions in the runs, this one for every leaf of every
operation (`EveryLeafIsATask`).

Only model-checked:

* `EveryCallerReturns` (twice) and `EveryCallReturns`: liveness under fairness, with
  `ENABLED`, is beyond the provers used.
* `Converges`, `AppliedIsStated` and `ConflictsAreNotItsOwn` of `Manifest`. They are
  not true of every manifest: two entities of one kind with one name, a key that is used
  for two kinds, more than `ScanLimit` rows of a kind, a timeout clamped by the cap that
  the same apply raises, a stated resource description (section 5) each break one of
  them. A theorem would need hypotheses on manifests and tenants that nothing in the code
  checks, so they stay statements about the run's manifests.
* That the tables give the tasks they should: `EditTasks` and the tables reach
  `RECURSIVE` operators, which no module with a theorem may; the proofs rest on
  `TasksAssumption`, the run evaluates it.

`NeverAnEarlierOutcome` and `EveryFlightIsLed`, which no run lists, are proved as
`OutcomeIsFresh` and `FlightsAreLed`.

## 5. Disagreements between the code and what is written of it

Exhibited by a run:

* **A resource's description never converges** (`MCManifestText`): a manifest that
  states one is applied, and planned again as an update for ever
  (`src/management_manifest.c:443`; `CONTRACT.md` section 27.6, rule 6).

* **A sign-in while a device token is held uses the session before it**
  (`MCSignInAfterDevice`): alice signs in, the client signs in as the device, and bob
  signs in, with the device token on his request. The transport cleared the jar for
  that request and then puts alice's cookies back over bob's
  (`src/transport_curl.c:231`, 240); the device token is dropped, and from then on the
  requests carry alice's cookies while the gate and the ids are bob's.
  `CONTRACT.md:932` says that a call which establishes a session drops the device
  credential "and that session is used from then on".

* **A failed fetch is a verdict** (`MCSsfOutage`): the keys are cached and not
  expired, a SET with a key they lack makes the receiver fetch again, and the fetch
  fails. That SET gets no verdict, as promised; but for
  `AXIAM_SSF_JWKS_REFETCH_INTERVAL_S` from then on the next ones are refused
  `invalid_key` (`src/ssf.c:346-352`, 511), listed as refused by a poll, and dropped
  by the transmitter. `include/axiam/ssf.h:204` says that such a SET "gets the same
  AXIAM_ERR_NETWORK", `CONTRACT.md:13357` that it gets "no verdict - and poll leaves
  it unjudged". `NoEventIsLost` counts these events among its exceptions (`failed` in
  `Excusable`); while the keys of the run's instance lived no longer than a flight
  and an interval the case could not arise, and the attempt to prove the property
  for every lifetime is what showed it.

Confirmed with TLC while modelling, or by reading; no run is kept for them.

Session, credentials and verification:

* A check in flight across a login puts the previous principal's decision into the
  memo the login has cleared (`src/client.c:1760`; `src/memo.c:200`).
* Everyone but the poller of the revocation feed is judged by the old set while a
  poll is in the air (`src/revocation.c:178` against line 16).
* The built-in transport keeps `X-CSRF-Token` and `Set-Cookie` of an answer and drops
  `Retry-After` (`src/transport_curl.c:59-66`), so over it a retry may leave sooner than
  the server asked (`src/retry.c:44`; `CONTRACT.md:3737`). `WaitsAreAsTold` therefore
  speaks of the hint that reaches the loop.
* A 2xx whose body is not a decision is memoized as a deny (`src/client.c:1760`
  against 1724).
* Logout leaves the device token attached (`src/client.c:1298` against
  `CONTRACT.md:932`).
* A follower may be given a later flight's outcome than the one it joined
  (`src/client.c:487` against `CONTRACT.md:1315`).
* The memo's list may be out of age order, as stamps precede the mutex
  (`src/memo.c:180` against 184); the wrong one of two near-equal entries goes.
* The acting tenant is read once for the memo key and again for the header
  (`src/client.c:1730` against `README.md:1560`).
* A ceremony that fails after its cookies were stored leaves the client signed in
  as the new principal (`src/webauthn.c:433` against 459).
* The acting tenant survives a login as another principal (`src/client.c:823`
  against 753), and `adopt_session` keeps the previous home tenant
  (`src/client.c:845` against `src/internal.h:255`).
* A gate's refusal is an `AUTHZ` error (`src/client.c:1369`), not the one
  `include/axiam/client.h:73` names.
* Any refusal of a refresh, a 503 too, clears `authenticated`
  (`src/client.c:466-470`), so the next 401 is not refreshed.
* The feed is polled on the request path, its last good set never ages, and
  `ETag`, `Cache-Control` and `Retry-After` are not used (`src/revocation.c:173-200`
  against `CONTRACT.md:1771-1776`).
* A check may be sent four times: two 503, a 401, a refresh and once more
  (`CONTRACT.md` section 16.1 caps at three); `AttemptsAreBounded` says exactly
  this.
* The device loop computes its deadline after the codes were displayed and the
  discovery fetched (`src/oidc_device.c:298` against
  `include/axiam/oidc.h:1130`), so it may poll past `expires_in`;
  `NothingAfterDeadline` therefore compares with the loop's own deadline, and for
  CIBA with the response's.
* The device loop polls on after an unusable 2xx or a 4xx without a code
  (`src/oidc_device.c:342`); the CIBA loop does not wait out the `Retry-After` of
  a `rate_limit_exceeded` (`CONTRACT.md` section 33.7 rule 5), and a `slow_down`
  with status 429 raises its interval.
* An event dated a whole freshness window ahead is still fresh in the very
  second its nonce is forgotten (`src/reactor.c:590` is inclusive, 452 drops at
  equality), so it can be handled twice, two windows apart; `CONTRACT.md:6363`
  asks for no repeat inside the window. `ReplaysAreOutwaited` is what holds.
* The lateness check reads whole seconds, so a reply may leave up to a second
  after the server ceased to wait (`src/reactor.c:755`).
* Without randomness the reactor's reply is built with an empty nonce and
  published, where `src/reactor.c:684` says that it is unbuildable. (Read, not
  modelled.)
* A handler can spell `allow` with a patch by setting the fields; it is sent as
  it is, although `include/axiam/reactor.h:160` says there is no way to spell it.

Closing:

* A comment of `axiam_client_close()` says that a call that slipped past its check
  must fail on the flag (`src/client.c:152-153`); `src/client.c:338`, 385 and 1446,
  `src/oidc.c:442` and `src/uma.c:166` call the transport without asking again, and
  `axiam_ssf_verify_set()` (`src/ssf.c:615`) does not ask at all.
* What lands after a close stays: a device login's token, which `free()` then does
  not free, the CSRF token, a key set. `uma_config` is dropped only by `free()`.
* The device token is read for the result after `state_mtx` was released
  (`src/client.c:1559`).

OIDC and UMA:

* The UMA token endpoint gets a second `tenant_id` when it has one
  (`src/uma.c:795`); `src/oidc.c` replaces it.
* The UMA document is fetched without the lock (`src/uma.c:264`), so that an older
  one may be stored over a newer one; its age is still bounded
  (`DocumentsAreCurrent`).
* `axiam_oidc_exchange()` calls the comparison of the nonce mandatory and accepts an
  answer that has no ID token (`src/oidc_validate.c:449`).
* A discovery that fails makes each waiting caller fetch in turn, where
  `src/oidc.c:698` promises one wire call for a burst.

Shared signals:

* A poll's premise that a replayed event was accepted on an earlier poll may be a
  poll that is still running; an event recorded in a store that outlives a crash,
  and not yet returned, comes back as replayed and is acknowledged.
* At the exact floor (window equal to retention) a copy in flight when the
  retention runs out may be handed over twice.
* A genuine SET signed with a key newer than a fetch of the last minute is refused
  as `invalid_key`, a verdict. `jwks_uri` is kept for ever once resolved.

Manifests:

* Keys are looked up whatever their kind (`find_key`, `resolved_id_for_key`);
  resources are matched by name over the whole tenant and a parent is never
  reconciled; two entities of one kind with one name are not refused; one page of
  200 rows is read of each kind.
* A profile whose stated timeout was clamped by the old cap is planned unchanged,
  though the same apply raises the cap: the next plan is an update.
* A binding's failure reports `remaining` as 0; a restore's own error is dropped;
  an unassignment whose answer is lost is reported as not done (`src/management_manifest.c:1220`),
  though it may be. After a rebind whose assignment and restore both fail, the next
  plan creates the binding without its `tenant_scope`, which widens it.
* A 2xx to a creation that cannot be decoded loses its one-time secret.

Management surface:

* A NULL body, or one that cannot be built, is sent as no body; a raw JSON member
  that does not parse is left out.
* An absent required enum is read as the first constant, not as unknown
  (`CONTRACT.md` section 27.11, rule 1). A provider newer than the SDK is sent back
  as its tag alone; a member newer than the SDK is lost on a replacement.
* Replacements without a version (SAML, directory, e-mail, WebAuthn, settings) lose
  a concurrent edit: `EditsKeepTheRest` is about those that can be conditional.
* A walk can miss rows when others are deleted, or when more is asked for than the
  server puts in a page (the next offset is the requested size on), and can show a
  row twice; a 2xx without a list is an empty page, and ends it; a walk whose
  session changes between two pages mixes two tenants.

## 6. Not modelled

* Cryptography, TLS, JSON text, base64, HMAC canonical bytes: reduced to what they
  decide. Failed allocations are modelled where the code changes course on them
  (`OidcRefresh`, `DecisionMemo`), not elsewhere.
* `axiam_client_close()` and `free()` with calls in flight: `free()` beside a call
  is forbidden by the header, and what `close()` leaves behind is listed above; a
  model of it would be one of C memory.
* Single requests that change no state of the SDK: the UMA ticket grant and the
  Protection API, PAR, native SSO, token exchange, logout URLs, introspection and
  revocation beyond their retries, registration beyond its retried read, account
  self service and the WebAuthn and OPAQUE exchanges before their sign-in.
* Pure functions: the guard's statuses, webhook signatures, MCP challenges, claim
  extraction, telemetry, configuration, errors and formatting.
* Of the shared signals receiver: a closed client, the token provider, refused
  configurations; the checks made before any key are one outcome. Of discovery: a
  clock that is set back, and the endpoint aliases. Of manifests: the refusal to
  replace a profile whose reading holds a word that neither the manifest states nor
  the SDK knows. Of the surface: `settings_set_org`, `settings_set_effective`,
  `network_replace_profile` and the CA's mTLS anchor have no reading of the same shape,
  so that their bodies are composed, and what an application carries over from another
  shape by hand is not followed; the widths of numbers; paths and their escaping.
* Examples, tests, the generator and vendored libraries.

## 7. Plan

Built, in this order because the client's identity is what everything else rests
on: the refresh guard and its registry, the memo and its abstraction, the session
that composes them, local verification, the budget of a call, the polling grants,
the reactor; then manifests over a tenant, the management models, operations, edits
and walks, the shared signals receiver, and the code flow with discovery.

Proved, in the same order; the management modules came last and needed the most: the
lists of a plan had to be written so that they can be reasoned about, and the machine
of an edit apart from the tables it runs over.

Left open: conditions on a manifest and a tenant under which an apply converges, as
hypotheses of a theorem and as advice to who writes manifests; a model of `close()` beside
calls in flight, which is one of C memory; the steps of UMA's ticket grant and of the
ceremonies before their sign-in. A run is kept for each question; a new property
takes the place of a less telling one.

## 8. Running it

    tlc -workers 2 -config MCSession.cfg MCSession
    tlc -workers 2 -config MCSignInAfterDevice.cfg MCSession
    tlc -workers 2 -config MCManifestText.cfg MCManifest
    tlc -workers 2 -config MCSsfOutage.cfg MCSsfOutage
    tlapm --stretch 1.3 Session_proofs.tla
