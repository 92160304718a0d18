----------------------------- MODULE DecisionMemo -----------------------------
(***************************************************************************)
(* The decision memo of src/memo.c and the part of axiam_check_access()    *)
(* (src/client.c) that reads it before the wire and writes it after.       *)
(*                                                                         *)
(* The memo is a linked list, oldest insertion first, under one mutex;     *)
(* each critical section is one action.  A key stands for the tuple the    *)
(* code joins into one string.  axiam_memo_put() stamps the new entry      *)
(* before it takes the mutex, so stamping and linking are two steps.       *)
(* Session.tla says who clears the memo, and when.                         *)
(***************************************************************************)
EXTENDS Integers, Sequences, SequencesExt

CONSTANTS Threads,    \* the application threads that share one client
          Keys,       \* the questions they ask
          Bodies,     \* what a 2xx answer can hold
          Requested,  \* decision TTLs a configuration can ask for, in ticks
          MaxTTL,     \* AXIAM_MEMO_MAX_TTL_MS, in ticks
          Cap,        \* AXIAM_MEMO_MAX_ENTRIES
          MaxTime,    \* bound: the last instant
          Null        \* no key, no body, no answer

ASSUME CapAssumption == Cap \in Nat \ {0}
ASSUME RequestedAssumption == Requested \subseteq Int /\ MaxTTL \in Nat \ {0}
ASSUME MaxTimeAssumption == MaxTime \in Nat
ASSUME NullAssumption ==
  /\ Null \notin Keys /\ Null \notin Bodies
  /\ Null \notin [allowed : BOOLEAN, at : Nat]

VARIABLES
  ttl,      \* ttl_ms, after clamping
  entries,  \* the list, head first
  now,      \* axiam_now_ms(): CLOCK_MONOTONIC
  pc,       \* where each thread is in axiam_check_access()
  key,      \* the key it built
  body,     \* the 2xx body the server sent it
  stamp,    \* the stored_at_ms of the entry it is about to link
  got       \* what its latest call asked, and out->allowed as it returned

vars == <<ttl, entries, now, pc, key, body, stamp, got>>

-------------------------------------------------------------------------------

(* axiam_memo_init(): zero or less disables, more than the ceiling clamps. *)
Effective(requested) ==
  IF requested <= 0 THEN 0 ELSE IF requested > MaxTTL THEN MaxTTL ELSE requested

Enabled == ttl > 0

Init ==
  /\ \E requested \in Requested : ttl = Effective(requested)
  /\ entries = <<>>
  /\ now = 0
  /\ pc = [t \in Threads |-> "idle"]
  /\ key = [t \in Threads |-> Null]
  /\ body = [t \in Threads |-> Null]
  /\ stamp = [t \in Threads |-> 0]
  /\ got = [t \in Threads |-> Null]

(* unlink_key(): the first entry of the key goes. *)
Without(k) == RemoveFirstMatch(entries, LAMBDA e : e.key = k)
EntriesOf(k) == {e \in ToSet(entries) : e.key = k}

(* Mutant: an entry exactly as old as the TTL is taken for fresh. *)
FreshInclusive(e) == now - e.at <= ttl

Fresh(e) == now - e.at < ttl

(* axiam_memo_get() finds a fresh entry: the call returns with it. *)
Hit(t, k) ==
  /\ pc[t] = "idle"
  /\ Enabled
  /\ \E e \in EntriesOf(k) :
       /\ Fresh(e)
       /\ got' = [got EXCEPT ![t] = [key |-> k, allowed |-> e.allowed]]
  /\ UNCHANGED <<ttl, entries, now, pc, key, body, stamp>>

(* It finds none, or one too old, which it unlinks: the server is asked.   *)
Miss(t, k) ==
  /\ pc[t] = "idle"
  /\ ~ (Enabled /\ \E e \in EntriesOf(k) : Fresh(e))
  /\ entries' = Without(k)
  /\ key' = [key EXCEPT ![t] = k]
  /\ got' = [got EXCEPT ![t] = Null]
  /\ pc' = [pc EXCEPT ![t] = "asked"]
  /\ UNCHANGED <<ttl, now, body, stamp>>

(* The server decides, 2xx. *)
Answer(t, b) ==
  /\ pc[t] = "asked"
  /\ body' = [body EXCEPT ![t] = b]
  /\ pc' = [pc EXCEPT ![t] = "answered"]
  /\ UNCHANGED <<ttl, entries, now, key, stamp, got>>

(* The check fails, retries exhausted: nothing is put. *)
Fail(t) ==
  /\ pc[t] = "asked"
  /\ key' = [key EXCEPT ![t] = Null]
  /\ pc' = [pc EXCEPT ![t] = "idle"]
  /\ UNCHANGED <<ttl, entries, now, body, stamp, got>>

(* parse_check_result(): out starts as a deny, and stays one when the body *)
(* cannot be parsed.                                                       *)
Reading(b) == b = "allow"

Return(t) ==
  /\ got' = [got EXCEPT ![t] = [key |-> key[t], allowed |-> Reading(body[t])]]
  /\ key' = [key EXCEPT ![t] = Null]
  /\ body' = [body EXCEPT ![t] = Null]
  /\ stamp' = [stamp EXCEPT ![t] = 0]
  /\ pc' = [pc EXCEPT ![t] = "idle"]

(* The memo is off, or its calloc fails: the decision is not kept. *)
Drop(t) ==
  /\ pc[t] = "answered"
  /\ Return(t)
  /\ UNCHANGED <<ttl, entries, now>>

(* axiam_memo_put(), before the mutex. *)
Stamp(t) ==
  /\ pc[t] = "answered"
  /\ Enabled
  /\ stamp' = [stamp EXCEPT ![t] = now]
  /\ pc' = [pc EXCEPT ![t] = "stamped"]
  /\ UNCHANGED <<ttl, entries, now, key, body, got>>

(* evict_oldest() while the list is too long. *)
Evict(list) == IF Len(list) > Cap THEN Tail(list) ELSE list

(* Mutant: the key's earlier entry stays in the list. *)
LinkTwice(t) ==
  /\ pc[t] = "stamped"
  /\ entries' = Evict(Append(entries,
       [key |-> key[t], allowed |-> Reading(body[t]), at |-> stamp[t]]))
  /\ Return(t)
  /\ UNCHANGED <<ttl, now>>

(* axiam_memo_put(), under it: replace the key's entry, at the tail, and   *)
(* evict from the head.                                                    *)
Link(t) ==
  /\ pc[t] = "stamped"
  /\ entries' = Evict(Append(Without(key[t]),
       [key |-> key[t], allowed |-> Reading(body[t]), at |-> stamp[t]]))
  /\ Return(t)
  /\ UNCHANGED <<ttl, now>>

(* axiam_memo_clear(), on behalf of a call that changes the credential. *)
Clear ==
  /\ entries' = <<>>
  /\ UNCHANGED <<ttl, now, pc, key, body, stamp, got>>

Tick ==
  /\ now < MaxTime
  /\ now' = now + 1
  /\ UNCHANGED <<ttl, entries, pc, key, body, stamp, got>>

Next ==
  \/ \E t \in Threads, k \in Keys : Hit(t, k) \/ Miss(t, k)
  \/ \E t \in Threads, b \in Bodies : Answer(t, b)
  \/ \E t \in Threads : Fail(t) \/ Drop(t) \/ Stamp(t) \/ Link(t)
  \/ Clear
  \/ Tick

Spec == Init /\ [][Next]_vars

-------------------------------------------------------------------------------
(* Properties *)

TypeOK ==
  /\ ttl \in 0..MaxTTL
  /\ entries \in Seq([key : Keys, allowed : BOOLEAN, at : Nat])
  /\ now \in 0..MaxTime
  /\ pc \in [Threads -> {"idle", "asked", "answered", "stamped"}]
  /\ key \in [Threads -> Keys \cup {Null}]
  /\ body \in [Threads -> Bodies \cup {Null}]
  /\ stamp \in [Threads -> 0..MaxTime]
  /\ got \in [Threads -> [key : Keys, allowed : BOOLEAN] \cup {Null}]

(* Rule 8: the memo never outgrows its cap, and however puts for one key   *)
(* race it holds a key once -- unlink_key() removes one entry, so a second *)
(* would be served after the first had been found too old.                 *)
BoundedAndUnique ==
  /\ TypeOK
  /\ Len(entries) <= Cap
  /\ \A i, j \in DOMAIN entries : entries[i].key = entries[j].key => i = j

-------------------------------------------------------------------------------
(* Refinement: the list is a cache that may forget. *)

CacheBar ==
  [k \in Keys |->
     IF EntriesOf(k) = {} THEN Null
     ELSE LET e == CHOOSE e \in EntriesOf(k) : TRUE
          IN  [allowed |-> e.allowed, at |-> e.at]]

Abstract ==
  INSTANCE DecisionCache WITH
    Callers <- Threads,
    None <- Null,
    clock <- now,
    cache <- CacheBar,
    question <- key,
    told <- body,
    reply <- got

(* Section 17 rules 3, 4, 5 and 6: a check answered from the memo gives    *)
(* what the server said of the same question, stored under the TTL ago;    *)
(* eviction, expiry, races between puts and clears only ever forget.       *)
MemoIsACache == Abstract!Spec
===============================================================================
