------------------------------ MODULE SsfReceiver ------------------------------
(***************************************************************************)
(* The receiver of security events (src/src/ssf.c, CONTRACT 32.7 and 34.2):*)
(* a stream is polled, every SET of a reply is verified with a key of the  *)
(* transmitter's JWKS and recorded against replay, and the application     *)
(* acknowledges on its next poll what it was given.                        *)
(*                                                                         *)
(* The threads share one receiver: its key cache, under keys_mtx, which is *)
(* held while a document is fetched, and its replay store, whose check and *)
(* record are one step.  A thread polls, or verifies a SET that is not the *)
(* transmitter's.  Replies and documents may be late or lost, keys are     *)
(* rotated, and the process may crash, with or without its replay store.   *)
(*                                                                         *)
(* Time passes while threads wait for the network, and not between two     *)
(* statements of one that does not.  The token of a poll and the waits     *)
(* between its attempts are those of every call (CallBudget).              *)
(***************************************************************************)
EXTENDS Naturals, Sequences, FiniteSets

CONSTANTS
  Threads,
  Jtis,        \* the events
  Keys,        \* the kids the transmitter signs with
  Bogus,       \* a kid it never uses
  None,
  Window,      \* the replay window
  Retention,   \* how long the transmitter offers an event
  TTL,         \* AXIAM_SSF_JWKS_CACHE_TTL_S
  Interval,    \* AXIAM_SSF_JWKS_REFETCH_INTERVAL_S
  MaxFlight,   \* the longest a poll's request, or a fetch of the keys, may take
  MaxTime,     \* bound on the clock
  MaxCrashes   \* bound on the crashes

(* A window below the retention is refused by axiam_ssf_receiver_new(). *)
ASSUME SsfAssumption ==
  /\ {Retention, TTL, Interval, MaxFlight} \subseteq Nat \ {0}
  /\ {MaxTime, MaxCrashes} \subseteq Nat
  /\ Window \in Nat /\ Window >= Retention
  /\ Keys # {} /\ IsFiniteSet(Jtis)
  /\ None \notin Keys \cup Nat \cup Threads /\ Bogus \notin Keys \cup {None}

VARIABLES
  now,
  published, since, retired,   \* the keys, and when each came and went
  event,       \* the transmitter's events
  keys,        \* the cached keys, None while keys_loaded is 0
  fetchedAt,   \* keys_fetched_at
  countedAt,   \* last_counted_fetch
  failed,      \* history: whether the counted fetch failed
  holder,      \* the thread that holds keys_mtx
  seen,        \* when the store forgets a jti, or None
  thread,      \* what each thread does
  toAck, toRefuse,  \* what the application sends with its next poll
  handed,      \* history: how often the application was given an event
  excused,     \* history: events lost to a crash, or refused for the want of a key
  crashes,
  forgot       \* whether a crash took the store

transmitter == <<published, since, retired>>
cache == <<keys, fetchedAt, countedAt, failed, holder>>
app == <<toAck, toRefuse, handed, excused>>
death == <<crashes, forgot>>
ssfVars == <<now, published, since, retired, event, keys, fetchedAt, countedAt, failed,
             holder, seen, thread, toAck, toRefuse, handed, excused, crashes, forgot>>

Offered == {j \in Jtis : event[j].state = "offered" /\ now < event[j].born + Retention}

(* A SET as it arrives: the event it names, the kid of its header, and      *)
(* whether the steps that need no key and no store find it in order.        *)
Genuine(j) == [jti |-> j, kid |-> event[j].key, ok |-> TRUE]
Forged == [jti : Offered, kid : published \cup {Bogus}, ok : {FALSE}]

Resting == [pc |-> "idle", todo |-> <<>>, got |-> {}, replayed |-> {}, refused |-> {},
            polled |-> FALSE, began |-> 0]

SsfInit ==
  /\ now = 0
  /\ published = {CHOOSE k \in Keys : TRUE}
  /\ since = [k \in Keys |-> 0] /\ retired = [k \in Keys |-> None]
  /\ event = [j \in Jtis |-> [state |-> "unborn", key |-> None, born |-> 0]]
  /\ keys = None /\ fetchedAt = 0 /\ countedAt = None /\ failed = FALSE /\ holder = None
  /\ seen = [j \in Jtis |-> None]
  /\ thread = [t \in Threads |-> Resting]
  /\ toAck = {} /\ toRefuse = {}
  /\ handed = [j \in Jtis |-> 0] /\ excused = {}
  /\ crashes = 0 /\ forgot = FALSE

-----------------------------------------------------------------------------
(* The transmitter. *)

Emit(j) ==
  /\ event[j].state = "unborn"
  /\ \E k \in published : event' = [event EXCEPT ![j] =
                                       [state |-> "offered", key |-> k, born |-> now]]
  /\ UNCHANGED <<now, transmitter, cache, seen, thread, app, death>>

(* A key is published before it signs; the one it replaces goes at once.   *)
Rotate(k) ==
  /\ k \notin published /\ retired[k] = None
  /\ published' = {k}
  /\ since' = [since EXCEPT ![k] = now]
  /\ retired' = [x \in Keys |-> IF x \in published THEN now ELSE retired[x]]
  /\ UNCHANGED <<now, event, cache, seen, thread, app, death>>

-----------------------------------------------------------------------------
(* poll. *)

At(t, pc) == thread[t].pc = pc

Orders(S) == {s \in [1..Cardinality(S) -> S] : \A i, k \in DOMAIN s : s[i] = s[k] => i = k}

(* A request that arrives: the transmitter drops what the application       *)
(* acknowledges or refuses, and answers with some of what it still offers,  *)
(* in the order of its map.                                                 *)
Request(t) ==
  LET done == toAck \cup toRefuse
  IN /\ event' = [j \in Jtis |-> IF j \in done THEN [event[j] EXCEPT !.state = "gone"]
                                 ELSE event[j]]
     /\ \E S \in SUBSET (Offered \ done) : \E s \in Orders(S) :
          thread' = [thread EXCEPT ![t] = [Resting EXCEPT !.pc = "reply", !.polled = TRUE,
                       !.began = now, !.todo = [i \in DOMAIN s |-> Genuine(s[i])]]]

(* The first request, or one sent again because its reply was lost or a     *)
(* 5xx. One that never arrives changes nothing.                             *)
Poll(t) ==
  /\ At(t, "idle") \/ At(t, "reply")
  /\ Request(t)
  /\ UNCHANGED <<now, transmitter, cache, seen, app, death>>

(* No reply, and the attempts are spent (CallBudget counts them). *)
PollFails(t) ==
  /\ At(t, "reply")
  /\ thread' = [thread EXCEPT ![t] = Resting]
  /\ UNCHANGED <<now, transmitter, event, cache, seen, app, death>>

(* verify_set, with no poll around it, of a SET the transmitter did not     *)
(* make. What it accepts would be handed over like a batch of one.          *)
Push(t) ==
  /\ At(t, "idle")
  /\ \E s \in Forged :
       thread' = [thread EXCEPT ![t] = [Resting EXCEPT !.pc = "judge", !.todo = <<s>>]]
  /\ UNCHANGED <<now, transmitter, event, cache, seen, app, death>>

-----------------------------------------------------------------------------
(* collect: the verdicts. *)

Set(t) == Head(thread[t].todo)
Rest(t) == [thread[t] EXCEPT !.pc = "judge", !.todo = Tail(@), !.began = 0]

Asking(t, what) == [thread[t] EXCEPT !.pc = what, !.began = now]
Verified(t) == [thread[t] EXCEPT !.pc = "store", !.began = 0]
Accepted(t) == [Rest(t) EXCEPT !.got = @ \cup {Set(t).jti}]
Replayed(t) == [Rest(t) EXCEPT !.replayed = @ \cup {Set(t).jti}]
Refused(t) == [Rest(t) EXCEPT !.refused = @ \cup {Set(t).jti}]

(* A failure that is no verdict: with nothing judged yet it is raised, else *)
(* the batch ends there with what was judged.                               *)
(* Mutant: it is always raised.                                             *)
RaisedAlways(t) == Resting
Unjudged(t) ==
  IF thread[t].got \cup thread[t].replayed \cup thread[t].refused = {} THEN Resting
  ELSE [Rest(t) EXCEPT !.todo = <<>>]

(* The result reaches the application, which acts on the events at once and *)
(* keeps what to acknowledge, replayed ones too (P2), and what to refuse.   *)
(* What the transmitter no longer offers needs neither.                     *)
Gone == {j \in Jtis : event[j].state = "gone"}
Judging(t) == At(t, "reply") \/ At(t, "judge")

Finish(t) ==
  /\ Judging(t) /\ thread[t].todo = <<>>
  /\ LET r == thread[t]
     IN /\ handed' = [j \in Jtis |-> IF j \in r.got THEN handed[j] + 1 ELSE handed[j]]
        /\ IF ~r.polled THEN UNCHANGED <<toAck, toRefuse>>
           ELSE /\ toAck' = (toAck \cup r.got \cup r.replayed) \ Gone
                /\ toRefuse' = (toRefuse \cup r.refused) \ Gone
  /\ thread' = [thread EXCEPT ![t] = Resting]
  /\ UNCHANGED <<now, transmitter, event, cache, seen, excused, death>>

-----------------------------------------------------------------------------
(* Steps 1 to 8: the key, and what is verified with it.                     *)

(* fetch_limited(): a counted fetch ran less than Interval ago.             *)
Limited(at) == countedAt # None /\ at < countedAt + Interval

Stale == keys = None \/ now >= fetchedAt + TTL

(* A genuine SET is only ever refused when its key is too new to have been  *)
(* seen by the latest fetch, or has been retired; or when the cached keys,  *)
(* not expired, do not have it and the fetch that would have got it failed: *)
(* until Interval has passed a miss is a miss.                              *)
New(k) == now < since[k] + Interval \/ now <= since[k] + MaxFlight
Excusable(k) == New(k) \/ retired[k] # None \/ failed

Refuse(t) ==
  /\ thread' = [thread EXCEPT ![t] = Refused(t)]
  /\ excused' = excused \cup (IF Set(t).ok /\ Excusable(Set(t).kid) THEN {Set(t).jti} ELSE {})

(* With the cache as it now is: the key is there and verifies the SET, or   *)
(* does not; it is missing and the refetch is not allowed, or is. What is   *)
(* fetched is dated by the moment the lock was had, a refetch as well.      *)
Look(t, held, at) ==
  \/ /\ Set(t).kid \in held /\ Set(t).ok
     /\ thread' = [thread EXCEPT ![t] = Verified(t)]
     /\ holder' = None
     /\ UNCHANGED <<countedAt, failed, excused>>
  \/ /\ Set(t).kid \in held => ~Set(t).ok
     /\ Set(t).kid \in held \/ Limited(at)
     /\ Refuse(t)
     /\ holder' = None
     /\ UNCHANGED <<countedAt, failed>>
  \/ /\ Set(t).kid \notin held /\ ~Limited(at)
     /\ countedAt' = at /\ failed' = FALSE
     /\ thread' = [thread EXCEPT ![t] = Asking(t, "refetch")]
     /\ holder' = t
     /\ UNCHANGED excused

(* key_for_kid() has the lock: the cache is read, or filled first, or       *)
(* cannot be filled yet.                                                    *)
(* Mutant: a cache that cannot be refreshed is read all the same.           *)
ReadKeysStale(t) ==
  /\ keys # None /\ (Stale => Limited(now))
  /\ Look(t, keys, now)
  /\ UNCHANGED <<keys, fetchedAt>>
ReadKeys(t) ==
  /\ ~Stale
  /\ Look(t, keys, now)
  /\ UNCHANGED <<keys, fetchedAt>>

FillLater(t) ==
  /\ Stale /\ Limited(now)
  /\ thread' = [thread EXCEPT ![t] = Unjudged(t)]
  /\ UNCHANGED <<cache, excused>>

BeginFill(t) ==
  /\ Stale /\ ~Limited(now)
  /\ thread' = [thread EXCEPT ![t] = Asking(t, "fill")]
  /\ holder' = t
  /\ UNCHANGED <<keys, fetchedAt, countedAt, failed, excused>>

KeyForKid(t) ==
  /\ Judging(t) /\ thread[t].todo # <<>>
  /\ holder = None
  /\ ReadKeys(t) \/ FillLater(t) \/ BeginFill(t)
  /\ UNCHANGED <<now, transmitter, event, seen, toAck, toRefuse, handed, death>>

(* The JWKS as it was published at some moment since it was asked for.      *)
Documents(t) ==
  {published} \cup {{k} : k \in {x \in Keys : retired[x] # None /\ thread[t].began <= retired[x]}}

(* The document replaces the cache. *)
FillLands(t) ==
  /\ At(t, "fill")
  /\ \E doc \in Documents(t) : keys' = doc /\ Look(t, doc, thread[t].began)
  /\ fetchedAt' = thread[t].began
  /\ UNCHANGED <<now, transmitter, event, seen, toAck, toRefuse, handed, death>>

FillFails(t) ==
  /\ At(t, "fill")
  /\ countedAt' = thread[t].began /\ failed' = TRUE
  /\ thread' = [thread EXCEPT ![t] = Unjudged(t)]
  /\ holder' = None
  /\ UNCHANGED <<now, transmitter, event, keys, fetchedAt, seen, app, death>>

(* After the refetch a miss is a miss.                                      *)
RefetchLands(t) ==
  /\ At(t, "refetch")
  /\ keys' \in Documents(t)
  /\ fetchedAt' = countedAt
  /\ holder' = None
  /\ IF Set(t).kid \in keys' /\ Set(t).ok
     THEN /\ thread' = [thread EXCEPT ![t] = Verified(t)]
          /\ UNCHANGED excused
     ELSE Refuse(t)
  /\ UNCHANGED <<now, transmitter, event, countedAt, failed, seen, toAck, toRefuse, handed, death>>

RefetchFails(t) ==
  /\ At(t, "refetch")
  /\ failed' = TRUE
  /\ thread' = [thread EXCEPT ![t] = Unjudged(t)]
  /\ holder' = None
  /\ UNCHANGED <<now, transmitter, event, keys, fetchedAt, countedAt, seen, app, death>>

-----------------------------------------------------------------------------
(* Step 9: the replay store, asked last.                                    *)

Held(j) == seen[j] # None /\ now < seen[j]

(* Mutant: the record is left to a later step, which a crash or another     *)
(* thread may come before.                                                  *)
CheckOnly(t) ==
  /\ At(t, "store")
  /\ thread' = [thread EXCEPT ![t] = IF Held(Set(t).jti) THEN Replayed(t) ELSE Accepted(t)]
  /\ UNCHANGED <<now, transmitter, event, cache, seen, app, death>>
CheckAndRecord(t) ==
  /\ At(t, "store")
  /\ IF Held(Set(t).jti)
     THEN thread' = [thread EXCEPT ![t] = Replayed(t)] /\ UNCHANGED seen
     ELSE /\ thread' = [thread EXCEPT ![t] = Accepted(t)]
          /\ seen' = [seen EXCEPT ![Set(t).jti] = now + Window]
  /\ UNCHANGED <<now, transmitter, event, cache, app, death>>

(* The application's store cannot answer, or memory is short. *)
StoreFails(t) ==
  /\ At(t, "store")
  /\ thread' = [thread EXCEPT ![t] = Unjudged(t)]
  /\ UNCHANGED <<now, transmitter, event, cache, seen, app, death>>

-----------------------------------------------------------------------------
(* The process dies and starts again, with its store or, where that was in  *)
(* memory, without.                                                         *)
Crash ==
  /\ crashes < MaxCrashes
  /\ crashes' = crashes + 1
  /\ excused' = excused \cup UNION {thread[t].got : t \in Threads}
  /\ thread' = [t \in Threads |-> Resting]
  /\ keys' = None /\ fetchedAt' = 0 /\ countedAt' = None /\ failed' = FALSE
  /\ holder' = None
  /\ toAck' = {} /\ toRefuse' = {}
  /\ \/ UNCHANGED <<seen, forgot>>
     \/ seen' = [j \in Jtis |-> None] /\ forgot' = TRUE
  /\ UNCHANGED <<now, transmitter, event, handed>>

OnTheWire(t) == thread[t].pc \in {"reply", "fill", "refetch"}
Waiting(t) ==
  \/ At(t, "idle")
  \/ OnTheWire(t) /\ now < thread[t].began + MaxFlight
  \/ Judging(t) /\ thread[t].todo # <<>> /\ holder # None

Tick ==
  /\ now < MaxTime
  /\ \A t \in Threads : Waiting(t)
  /\ now' = now + 1
  /\ UNCHANGED <<transmitter, event, cache, seen, thread, app, death>>

SsfNext ==
  \/ \E t \in Threads :
       \/ Poll(t) \/ PollFails(t) \/ Push(t) \/ Finish(t)
       \/ KeyForKid(t) \/ FillLands(t) \/ FillFails(t)
       \/ RefetchLands(t) \/ RefetchFails(t) \/ CheckAndRecord(t) \/ StoreFails(t)
  \/ \E j \in Jtis : Emit(j)
  \/ \E k \in Keys : Rotate(k)
  \/ Crash
  \/ Tick

SsfSpec == SsfInit /\ [][SsfNext]_ssfVars

-----------------------------------------------------------------------------
(* What the receiver promises.                                              *)

(* An event the transmitter stops offering because this receiver answered   *)
(* for it, by an acknowledgement or a refusal, has been given to the        *)
(* application, or is on its way to it in a poll that overlaps, whatever    *)
(* forged copies came before it, whatever failed in the middle of its batch *)
(* and whatever reply was lost. The exceptions are an event a crash took    *)
(* between its record and its return, and one signed with a key that the    *)
(* latest allowed fetch had not seen, since it came later or had failed, or *)
(* that is retired by now.                                                  *)
NoEventIsLost ==
  \A j \in Jtis : event[j].state = "gone" =>
    handed[j] > 0 \/ j \in excused \/ \E t \in Threads : j \in thread[t].got

(* Whatever threads poll at once and whatever is offered again, no event is *)
(* given to the application twice within the window that began when it was  *)
(* signed, unless a crash took the memory of it.                            *)
EachEventOnce ==
  \A j \in Jtis :
    ~forgot /\ now < event[j].born + Window => handed[j] <= 1

(* A SET passes only with a key the transmitter published no longer than    *)
(* the cache lives, or the flight of a document, ago.                       *)
KeysAreCurrent ==
  \A t \in Threads : At(t, "store") /\ retired[Set(t).kid] # None =>
    now < retired[Set(t).kid] + TTL \/ now <= retired[Set(t).kid] + MaxFlight

(* What the header and the contract say and the code does not do: a genuine *)
(* SET that comes within Interval of a fetch that failed gets no verdict.   *)
(* With a cache that has not expired, a kid it lacks is refused.            *)
OutageIsNoVerdict ==
  [][\A t \in Threads :
       thread'[t].refused \subseteq thread[t].refused \/ ~Set(t).ok
       \/ ~failed \/ ~Limited(now)]_ssfVars
=============================================================================
