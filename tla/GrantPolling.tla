---------------------------- MODULE GrantPolling ----------------------------
(***************************************************************************)
(* The two polling loops of the SDK: axiam_device_login()                  *)
(* (src/src/oidc_device.c) and axiam_ciba_await() (src/src/oidc_ciba.c).   *)
(* Each waits, polls the token endpoint, reads the answer and goes round   *)
(* again until the user has decided or the grant's deadline is too close;  *)
(* each poll is itself a bounded retry loop with waits of its own.         *)
(*                                                                         *)
(* Time is in ticks, Second of them to a second: the loops compute with    *)
(* the whole seconds of time(2) and sleep for milliseconds.                *)
(***************************************************************************)
EXTENDS Integers

CONSTANTS
  Second,      \* ticks to a second
  Interval,    \* the authorization response's interval, in seconds
  Increment,   \* what a slow_down adds: AXIAM_*_SLOW_DOWN_INCREMENT_S
  ExpiresIn,   \* its expires_in, in seconds
  Budget,      \* attempts of one poll: AXIAM_RETRY_MAX_ATTEMPTS, or 1
  MaxBackoff,  \* bound on a backoff, in ticks
  MaxHint,     \* bound on a Retry-After, in seconds
  MaxFlight,   \* bound on the time a request takes, in ticks
  MaxPause     \* bound on the time between the response and the loop, in ticks

ASSUME PollingAssumption ==
  /\ {Second, Interval, Increment, ExpiresIn, Budget} \subseteq Nat \ {0}
  /\ {MaxBackoff, MaxHint, MaxFlight, MaxPause} \subseteq Nat

VARIABLES
  flow,      \* "device" or "ciba"
  clock,     \* the time, in ticks
  at,        \* where the loop is
  interval,  \* the loop's interval, in seconds
  wait,      \* its next wait, in ticks
  deadline,  \* in seconds
  attempt,   \* of the poll under way
  answer,    \* the latest answer: its status, OAuth code and Retry-After
  outcome,   \* what the call returns
  grant,     \* at the server: what became of the grant
  expiry,    \* history: when the response's expires_in is up, in ticks
  answered,  \* history: when the latest answer arrived
  slowed,    \* history: the slow_down answers received
  decided    \* history: whether an answer has settled the matter

pollingVars == <<flow, clock, at, interval, wait, deadline, attempt, answer, outcome, grant,
          expiry, answered, slowed, decided>>

loopVars == <<flow, interval, wait, deadline, outcome, expiry, slowed>>

NoHint == -1

(* An answer to a poll. Code "" stands for no OAuth error; a 2xx is either  *)
(* tokens or a body or an id_token that the client refuses. The hint is the *)
(* Retry-After the transport hands on (the built-in one hands on none).     *)
Replied(status, code, hint) == [status |-> status, code |-> code, hint |-> hint]

Lost == Replied("none", "", NoHint)
Denied == Replied("4xx", "access_denied", NoHint)
Spent == Replied("4xx", "invalid_grant", NoHint)
Granted == Replied("2xx", "tokens", NoHint)

Pending == {Replied("4xx", "authorization_pending", NoHint), Replied("4xx", "slow_down", NoHint)}

(* What the server or a machine before it may say without having looked at  *)
(* the grant.                                                               *)
Hints == NoHint..MaxHint

Elsewhere ==
  {Lost, Replied("4xx", "", NoHint)}
  \cup [status : {"408", "429", "5xx"}, code : {""}, hint : Hints]
  \cup [status : {"429"}, code : {"rate_limit_exceeded", "slow_down"}, hint : Hints]

Redeemed == {Granted, Replied("2xx", "unusable", NoHint), Lost}

Replies(g) ==
  CASE g = "pending"  -> Pending
    [] g = "approved" -> Redeemed
    [] g = "denied"   -> {Denied}
    [] g = "redeemed" -> {Spent}

AllAnswers == Elsewhere \cup Redeemed \cup Pending \cup {Denied, Spent}

Endings == {"none", "tokens", "unusable", "refused", "expired_token", "access_denied",
            "invalid_grant"}

MaxClock == MaxPause + (ExpiresIn + 1) * Second + MaxFlight

PollingTypeOK ==
  /\ flow \in {"device", "ciba"}
  /\ clock \in 0..MaxClock
  /\ at \in {"started", "loop", "send", "answered", "done"}
  /\ interval \in Interval..(Interval + slowed * Increment)
  /\ wait \in 1..((MaxHint + ExpiresIn + Increment + Interval) * Second)
  /\ deadline \in ExpiresIn..(MaxClock + ExpiresIn)
  /\ attempt \in 0..Budget
  /\ answer \in AllAnswers
  /\ outcome \in Endings
  /\ grant \in {"pending", "approved", "denied", "redeemed"}
  /\ expiry \in Nat
  /\ answered \in 0..MaxClock
  /\ slowed \in Nat
  /\ decided \in BOOLEAN

-----------------------------------------------------------------------------
(* time(2) at a tick, and a wait rounded up to whole seconds.               *)
Seconds(t) == t \div Second
(* Mutant: a part of a second does not count. *)
RoundedDown(w) == w \div Second

RoundedUp(w) == (w + Second - 1) \div Second

(* Whether the request at the end of a wait would not fall before the       *)
(* deadline.                                                                *)
Overruns(w) == Seconds(clock) + RoundedUp(w) >= deadline

Larger(a, b) == IF a < b THEN b ELSE a

(* The authorization response arrives at some instant of a second. The CIBA *)
(* deadline is set by it (received_at).                                     *)
PollingInit ==
  /\ flow \in {"device", "ciba"}
  /\ clock \in 0..(Second - 1)
  /\ at = "started"
  /\ interval = Interval
  /\ wait = Interval * Second
  /\ deadline = ExpiresIn
  /\ attempt = 0
  /\ answer = Lost
  /\ outcome = "none"
  /\ grant = "pending"
  /\ expiry = clock + ExpiresIn * Second
  /\ answered = clock
  /\ slowed = 0
  /\ decided = FALSE

(* The codes are displayed and the discovery document fetched, or the       *)
(* caller turns to axiam_ciba_await(); the device loop sets its deadline    *)
(* only then.                                                               *)
Enter ==
  /\ at = "started"
  /\ \E pause \in 0..MaxPause : clock' = clock + pause
  /\ deadline' = IF flow = "device" THEN Seconds(clock') + ExpiresIn ELSE deadline
  /\ answered' = clock'
  /\ at' = "loop"
  /\ UNCHANGED <<flow, interval, wait, attempt, answer, outcome, grant, expiry, slowed, decided>>

(* The user decides, at the server.                                         *)
Decide ==
  /\ grant = "pending"
  /\ grant' \in {"approved", "denied"}
  /\ UNCHANGED <<clock, at, attempt, answer, answered, decided, loopVars>>

(* The top of the loop: give up, or wait and poll.                          *)
Expire ==
  /\ at = "loop"
  /\ Overruns(wait)
  /\ outcome' = "expired_token"
  /\ at' = "done"
  /\ UNCHANGED <<flow, clock, interval, wait, deadline, attempt, answer, grant, expiry,
                 answered, slowed, decided>>

Poll ==
  /\ at = "loop"
  /\ ~ Overruns(wait)
  /\ clock' = clock + wait
  /\ wait' = interval * Second
  /\ attempt' = 1
  /\ at' = "send"
  /\ UNCHANGED <<flow, interval, deadline, answer, outcome, grant, expiry, answered, slowed,
                 decided>>

(* One request. It may reach the server, which redeems an approved grant    *)
(* whether or not its answer arrives; or something else answers for it.     *)
Decisive(a) ==
  IF flow = "device" THEN a \in {Granted, Denied, Spent}
  ELSE a.status = "2xx" \/ (a.status = "4xx" /\ a \notin Pending)

Settle(a) ==
  /\ answer' = a
  /\ decided' = (decided \/ Decisive(a))
  /\ slowed' = IF a.code = "slow_down" /\ (flow = "ciba" \/ a.status = "4xx")
               THEN slowed + 1 ELSE slowed

Request ==
  /\ at = "send"
  /\ \/ \E a \in Replies(grant) :
          /\ Settle(a)
          /\ grant' = IF grant = "approved" THEN "redeemed" ELSE grant
     \/ \E a \in Elsewhere :
          /\ Settle(a)
          /\ UNCHANGED grant
  /\ \E flight \in 0..MaxFlight :
       /\ clock' = clock + flight
       /\ answered' = clock'
  /\ at' = "answered"
  /\ UNCHANGED <<flow, interval, wait, deadline, attempt, outcome, expiry>>

(* The retry inside a poll. The device poll leaves every 429 to its loop;   *)
(* the CIBA poll leaves it every answer below 500 that names an OAuth code. *)
Transient ==
  \/ answer.status \in {"none", "408", "5xx"}
  \/ answer.status = "429" /\ flow = "ciba" /\ answer.code = ""

Backoffs == {Larger(answer.hint * Second, backoff) : backoff \in 0..MaxBackoff}

RetryInside ==
  /\ at = "answered"
  /\ Transient
  /\ attempt < Budget
  /\ \E delay \in Backoffs :
       /\ ~ Overruns(delay)
       /\ clock' = clock + delay
  /\ attempt' = attempt + 1
  /\ at' = "send"
  /\ UNCHANGED <<answer, grant, answered, decided, loopVars>>

(* The poll is over: its budget is spent, the answer is not worth a retry,  *)
(* or the retry would overrun the deadline. The loop reads the answer.      *)
PollOver ==
  /\ at = "answered"
  /\ \/ ~ Transient
     \/ attempt = Budget
     \/ \E delay \in Backoffs : Overruns(delay)

SlowDown == answer.code = "slow_down" /\ (flow = "device" => answer.status # "429")

(* Mutant: both loops go round on what names no code. *)
AnotherWhateverFails ==
  \/ answer.code \in {"authorization_pending", "", "unusable"}
  \/ answer.status = "429"

(* Not the end: the device loop goes round on a 429 and on any failure that *)
(* names no OAuth code, the CIBA loop on a transient one.                   *)
Another ==
  \/ answer.code = "authorization_pending"
  \/ flow = "device" /\ (answer.status = "429" \/ answer.code \in {"", "unusable"})
  \/ flow = "ciba" /\ (Transient \/ answer.code = "rate_limit_exceeded")

(* Mutant: a 429 waits for its Retry-After alone. *)
NextWaitHint ==
  IF flow = "device" /\ answer.status = "429" THEN Larger(0, answer.hint * Second)
  ELSE interval * Second

(* Mutant: the interval starts over. *)
NextWaitFirst == Interval * Second

NextWait ==
  IF flow = "device" /\ answer.status = "429"
  THEN Larger(interval * Second, answer.hint * Second)
  ELSE interval * Second

Again ==
  /\ PollOver
  /\ Another
  /\ wait' = NextWait
  /\ at' = "loop"
  /\ UNCHANGED <<flow, clock, interval, deadline, attempt, answer, outcome, grant, expiry,
                 answered, slowed, decided>>

Raise ==
  /\ PollOver
  /\ SlowDown
  /\ interval' = interval + Increment
  /\ wait' = interval' * Second
  /\ at' = "loop"
  /\ UNCHANGED <<flow, clock, deadline, attempt, answer, outcome, grant, expiry, answered,
                 slowed, decided>>

(* Tokens, or the answer with its own code.                                 *)
Verdict == IF answer.code = "" THEN "refused" ELSE answer.code

Finish ==
  /\ PollOver
  /\ ~ Another
  /\ ~ SlowDown
  /\ outcome' = Verdict
  /\ at' = "done"
  /\ UNCHANGED <<flow, clock, interval, wait, deadline, attempt, answer, grant, expiry,
                 answered, slowed, decided>>

Step == Enter \/ Expire \/ Poll \/ Request \/ RetryInside \/ Again \/ Raise \/ Finish

PollingNext == Step \/ Decide

(* One thread runs the loop: its waits end, and so does every request, at   *)
(* the transport's timeout at the latest. Nothing makes the user decide.    *)
PollingSpec == PollingInit /\ [][PollingNext]_pollingVars /\ WF_pollingVars(Step)

-----------------------------------------------------------------------------
(* No request leaves at or after the deadline, the retries inside a poll    *)
(* included, although the check reads whole seconds and the wait does not   *)
(* end on one; and for axiam_ciba_await() the deadline is never later than  *)
(* the response's expires_in allows.                                        *)
NothingAfterDeadline ==
  at = "send" => /\ clock < deadline * Second
                 /\ flow = "ciba" => clock < expiry

(* A poll leaves an interval after the latest answer at the earliest, and   *)
(* the interval has grown with every slow_down and never shrunk since; a    *)
(* Retry-After that the transport has handed on is served in full by the    *)
(* retry inside a poll and, after a 429, by the device loop.                *)
PollsAreSpaced ==
  at = "send" =>
    /\ attempt = 1 => clock >= answered + (Interval + slowed * Increment) * Second
    /\ (attempt > 1 \/ (flow = "device" /\ answer.status = "429"))
         => clock >= answered + answer.hint * Second

(* The outcome is what became of the grant: tokens and the two refusals are *)
(* the server's own; invalid_grant means an earlier answer was lost or was  *)
(* unusable, for nobody else redeems this grant; the local expired_token is *)
(* raised only when no answer has settled the matter; and nothing is sent   *)
(* once one has: tokens, a refusal with a code of its own, and for the CIBA *)
(* loop also any other 4xx and a 2xx that it cannot use. (The device loop   *)
(* goes on after those two.)                                                *)
OutcomeIsTrue ==
  /\ PollingTypeOK
  /\ at = "send" => ~ decided
  /\ outcome \in {"tokens", "unusable", "invalid_grant"} => grant = "redeemed"
  /\ outcome = "access_denied" => grant = "denied"
  /\ outcome = "invalid_grant" => answer = Spent
  /\ outcome = "expired_token" => ~ decided

(* Every call that has entered its loop returns: the deadline ends it,      *)
(* whatever the server answers and however fast.                            *)
EveryCallReturns == at = "loop" ~> at = "done"
=============================================================================
