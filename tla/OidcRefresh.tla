------------------------------ MODULE OidcRefresh ------------------------------
(***************************************************************************)
(* axiam_oidc_refresh() of src/oidc_refresh.c: redeeming a rotating        *)
(* refresh token, with one wire call per token however many threads ask.   *)
(*                                                                         *)
(* Flights are heap nodes in a singly linked registry.  The leader and its *)
(* followers share a node through plain pointers and a reference count;    *)
(* whoever drops the last reference frees it, and calloc may hand the same *)
(* address out again.  oidc_refresh_mtx protects all of it and one         *)
(* condition variable serves every flight of the client.  Each critical    *)
(* section is one action.                                                  *)
(***************************************************************************)
EXTENDS Naturals, FiniteSets, Sequences, SequencesExt

CONSTANTS Threads,   \* the application threads that share one client
          Tokens,    \* refresh tokens; a flight's key is the token's digest
          Addresses, \* where calloc may place a node
          Null,      \* the null pointer
          Kinds,     \* what perform_oidc_refresh() can return
          MaxCalls   \* bound: how many refreshes one thread asks for

ASSUME ThreadsAssumption == IsFiniteSet(Threads)
ASSUME NullAssumption == Null \notin Addresses
ASSUME KindsAssumption == {"ok", "network"} \subseteq Kinds /\ "pending" \notin Kinds
ASSUME MaxCallsAssumption == MaxCalls \in Nat

VARIABLES
  flights,  \* oidc_refresh_flights: the nodes linked, head first
  heap,     \* struct axiam_oidc_flight at each address
  count,    \* oidc_refresh_count
  pc,       \* where each thread is in axiam_oidc_refresh()
  ptr,      \* each thread's f or flight
  token,    \* the token each thread was called with
  local,    \* the leader's own kind
  got,      \* the kind each thread's latest call returned, "none" before
  calls,    \* how many calls each thread has made (see MaxCalls)
  log,      \* history: per flight ever opened, its token and its outcome
  serial    \* history: the number in log of the flight at each address

history == <<log, serial>>
vars == <<flights, heap, count, pc, ptr, token, local, got, calls, log, serial>>

Freed == [live |-> FALSE, key |-> Null, done |-> FALSE, refs |-> 0, kind |-> "ok"]
Opened(k) == [live |-> TRUE, key |-> k, done |-> FALSE, refs |-> 1, kind |-> "ok"]

Init ==
  /\ flights = <<>>
  /\ heap = [a \in Addresses |-> Freed]
  /\ count = 0
  /\ pc = [t \in Threads |-> "idle"]
  /\ ptr = [t \in Threads |-> Null]
  /\ token = [t \in Threads |-> Null]
  /\ local = [t \in Threads |-> "ok"]
  /\ got = [t \in Threads |-> "none"]
  /\ calls = [t \in Threads |-> 0]
  /\ log = <<>>
  /\ serial = [a \in Addresses |-> 0]

-------------------------------------------------------------------------------

(* The registry search: the nodes linked under the token's digest. *)
Linked(k) == {a \in ToSet(flights) : heap[a].key = k}

Call(t, k) ==
  /\ pc[t] = "idle"
  /\ calls[t] < MaxCalls
  /\ calls' = [calls EXCEPT ![t] = @ + 1]

(* Mutant: a follower takes no reference. *)
FollowUncounted(t, k) ==
  /\ Call(t, k)
  /\ \E a \in Linked(k) : ptr' = [ptr EXCEPT ![t] = a]
  /\ token' = [token EXCEPT ![t] = k]
  /\ got' = [got EXCEPT ![t] = "none"]
  /\ pc' = [pc EXCEPT ![t] = "asleep"]
  /\ UNCHANGED <<flights, heap, count, local, history>>

(* A follower: take a reference and wait. *)
Follow(t, k) ==
  /\ Call(t, k)
  /\ \E a \in Linked(k) :
       /\ heap' = [heap EXCEPT ![a].refs = @ + 1]
       /\ ptr' = [ptr EXCEPT ![t] = a]
  /\ token' = [token EXCEPT ![t] = k]
  /\ got' = [got EXCEPT ![t] = "none"]
  /\ pc' = [pc EXCEPT ![t] = "asleep"]
  /\ UNCHANGED <<flights, count, local, history>>

(* Mutant: the registry is not searched. *)
LeadUnchecked(t, k) ==
  /\ Call(t, k)
  /\ \E a \in Addresses :
       /\ ~heap[a].live
       /\ heap' = [heap EXCEPT ![a] = Opened(k)]
       /\ flights' = <<a>> \o flights
       /\ ptr' = [ptr EXCEPT ![t] = a]
       /\ serial' = [serial EXCEPT ![a] = Len(log) + 1]
  /\ token' = [token EXCEPT ![t] = k]
  /\ got' = [got EXCEPT ![t] = "none"]
  /\ pc' = [pc EXCEPT ![t] = "leading"]
  /\ log' = Append(log, [key |-> k, outcome |-> "pending"])
  /\ UNCHANGED <<count, local>>

(* A leader: calloc a node and link it at the head. *)
Lead(t, k) ==
  /\ Call(t, k)
  /\ Linked(k) = {}
  /\ \E a \in Addresses :
       /\ ~heap[a].live
       /\ heap' = [heap EXCEPT ![a] = Opened(k)]
       /\ flights' = <<a>> \o flights
       /\ ptr' = [ptr EXCEPT ![t] = a]
       /\ serial' = [serial EXCEPT ![a] = Len(log) + 1]
  /\ token' = [token EXCEPT ![t] = k]
  /\ got' = [got EXCEPT ![t] = "none"]
  /\ pc' = [pc EXCEPT ![t] = "leading"]
  /\ log' = Append(log, [key |-> k, outcome |-> "pending"])
  /\ UNCHANGED <<count, local>>

(* calloc fails: no flight is opened and the call is refused. *)
LeadOutOfMemory(t, k) ==
  /\ Call(t, k)
  /\ Linked(k) = {}
  /\ token' = [token EXCEPT ![t] = k]
  /\ got' = [got EXCEPT ![t] = "network"]
  /\ UNCHANGED <<flights, heap, count, pc, ptr, local, history>>

(* perform_oidc_refresh(): discovery, the grant, the token set's parse.    *)
Perform(t, kind) ==
  /\ pc[t] = "leading"
  /\ local' = [local EXCEPT ![t] = kind]
  /\ pc' = [pc EXCEPT ![t] = "landed"]
  /\ UNCHANGED <<flights, heap, count, ptr, token, got, calls, history>>

(* take_outcome(): what the caller is told -- a copy of a token set can    *)
(* fail for want of memory -- ...                                          *)
Outcomes(kind) == IF kind = "ok" THEN {"ok", "network"} ELSE {kind}

(* ... and the node once it has dropped its reference. *)
Release(node) == IF node.refs = 1 THEN Freed ELSE [node EXCEPT !.refs = @ - 1]

(* The thread is out of the call: its pointer is dead. *)
Depart(t, kind) ==
  /\ \E k \in Outcomes(kind) : got' = [got EXCEPT ![t] = k]
  /\ ptr' = [ptr EXCEPT ![t] = Null]
  /\ token' = [token EXCEPT ![t] = Null]

(* Mutant: pthread_cond_signal for pthread_cond_broadcast. *)
PublishSignals(t) ==
  /\ pc[t] = "landed"
  /\ flights' = RemoveFirst(flights, ptr[t])
  /\ heap' = [heap EXCEPT ![ptr[t]] =
                Release([@ EXCEPT !.done = TRUE, !.kind = local[t]])]
  /\ count' = count + 1
  /\ Depart(t, local[t])
  /\ local' = [local EXCEPT ![t] = "ok"]
  /\ IF \E u \in Threads : pc[u] = "asleep"
       THEN \E u \in Threads :
              /\ pc[u] = "asleep"
              /\ pc' = [pc EXCEPT ![t] = "idle", ![u] = "woken"]
       ELSE pc' = [pc EXCEPT ![t] = "idle"]
  /\ log' = [log EXCEPT ![serial[ptr[t]]].outcome = local[t]]
  /\ UNCHANGED <<calls, serial>>

(* The leader, in one critical section: unlink, publish, wake every        *)
(* waiter of every flight, take its own outcome and drop its reference.    *)
Publish(t) ==
  /\ pc[t] = "landed"
  /\ flights' = RemoveFirst(flights, ptr[t])
  /\ heap' = [heap EXCEPT ![ptr[t]] =
                Release([@ EXCEPT !.done = TRUE, !.kind = local[t]])]
  /\ count' = count + 1
  /\ Depart(t, local[t])
  /\ local' = [local EXCEPT ![t] = "ok"]
  /\ pc' = [u \in Threads |-> IF u = t THEN "idle"
                              ELSE IF pc[u] = "asleep" THEN "woken" ELSE pc[u]]
  /\ log' = [log EXCEPT ![serial[ptr[t]]].outcome = local[t]]
  /\ UNCHANGED <<calls, serial>>

(* A woken follower whose own flight is not done waits once more: the      *)
(* broadcast was another flight's.                                         *)
WaitAgain(t) ==
  /\ pc[t] = "woken"
  /\ ~heap[ptr[t]].done
  /\ pc' = [pc EXCEPT ![t] = "asleep"]
  /\ UNCHANGED <<flights, heap, count, ptr, token, local, got, calls, history>>

(* Mutant: done is not read again after a wakeup. *)
TakeOutcomeUnchecked(t) ==
  /\ pc[t] = "woken"
  /\ heap' = [heap EXCEPT ![ptr[t]] = Release(@)]
  /\ Depart(t, heap[ptr[t]].kind)
  /\ pc' = [pc EXCEPT ![t] = "idle"]
  /\ UNCHANGED <<flights, count, local, calls, history>>

(* It is done: take its outcome, drop the reference. *)
TakeOutcome(t) ==
  /\ pc[t] = "woken"
  /\ heap[ptr[t]].done
  /\ heap' = [heap EXCEPT ![ptr[t]] = Release(@)]
  /\ Depart(t, heap[ptr[t]].kind)
  /\ pc' = [pc EXCEPT ![t] = "idle"]
  /\ UNCHANGED <<flights, count, local, calls, history>>

(* pthread_cond_wait returned although nobody signalled. *)
SpuriousWakeup(t) ==
  /\ pc[t] = "asleep"
  /\ pc' = [pc EXCEPT ![t] = "woken"]
  /\ UNCHANGED <<flights, heap, count, ptr, token, local, got, calls, history>>

(* Every thread has made its calls and returned from them. *)
Quiesced ==
  /\ \A t \in Threads : pc[t] = "idle" /\ calls[t] = MaxCalls
  /\ UNCHANGED vars

Advance(t) ==
  \/ \E kind \in Kinds : Perform(t, kind)
  \/ Publish(t)
  \/ WaitAgain(t)
  \/ TakeOutcome(t)

Next ==
  \/ \E t \in Threads, k \in Tokens : Follow(t, k) \/ Lead(t, k) \/ LeadOutOfMemory(t, k)
  \/ \E t \in Threads : Advance(t) \/ SpuriousWakeup(t)
  \/ Quiesced

Spec == Init /\ [][Next]_vars

(* As for SingleFlight: scheduled threads, wire calls that end. *)
FairSpec == Spec /\ \A t \in Threads : WF_vars(Advance(t))

-------------------------------------------------------------------------------
(* Properties *)

TypeOK ==
  /\ flights \in Seq(Addresses)
  /\ heap \in [Addresses -> [live : BOOLEAN, key : Tokens \cup {Null}, done : BOOLEAN,
                             refs : Nat, kind : Kinds]]
  /\ count \in Nat
  /\ pc \in [Threads -> {"idle", "leading", "landed", "asleep", "woken"}]
  /\ ptr \in [Threads -> Addresses \cup {Null}]
  /\ token \in [Threads -> Tokens \cup {Null}]
  /\ local \in [Threads -> Kinds]
  /\ got \in [Threads -> Kinds \cup {"none"}]
  /\ calls \in [Threads -> 0..MaxCalls]
  /\ log \in Seq([key : Tokens, outcome : Kinds \cup {"pending"}])
  /\ serial \in [Addresses -> Nat]

Holders(a) == {t \in Threads : ptr[t] = a}

(* A node's reference count is the number of threads inside the call that  *)
(* hold its address, and a node lives exactly as long as one does: no      *)
(* thread can reach a freed node, and no node is leaked.                   *)
ReferencesCountHolders ==
  \A a \in Addresses :
    /\ heap[a].refs = Cardinality(Holders(a))
    /\ heap[a].live <=> Holders(a) # {}

(* A follower can only be answered with the flight of the token it holds,  *)
(* whatever has happened to the addresses meanwhile.                       *)
FollowersKeepTheirToken ==
  \A t \in Threads : pc[t] # "idle" => heap[ptr[t]].key = token[t]

(* The heap under it all: nodes have their types, are counted by those who *)
(* hold them, and stay the flight of their holder's token however the      *)
(* allocator hands addresses out again.                                    *)
HeapIsSound == TypeOK /\ ReferencesCountHolders /\ FollowersKeepTheirToken

(* A finite burst drains: every thread that entered the call returns, with *)
(* one condition variable shared by every flight.                          *)
EveryCallerReturns ==
  \A t \in Threads : pc[t] # "idle" ~> pc[t] = "idle"

-------------------------------------------------------------------------------
(* Refinement: the registry, the heap and the condition variable implement *)
(* the coalesced call, a seat being the serial of the node pointed to.     *)

SlotBar ==
  [k \in Tokens |->
     IF Linked(k) = {} THEN 0 ELSE serial[CHOOSE a \in Linked(k) : TRUE]]

Abstract ==
  INSTANCE CoalescedCall WITH
    Callers <- Threads,
    Keys <- Tokens,
    slot <- SlotBar,
    outcome <- [i \in DOMAIN log |-> log[i].outcome],
    seat <- [t \in Threads |-> IF ptr[t] = Null THEN 0 ELSE serial[ptr[t]]]

(* Rules 1, 2 and 6 of section 9 for oidc_refresh: callers with one token  *)
(* share one flight and its outcome, newcomers after it start another.     *)
CoalescesCalls == Abstract!Spec
===============================================================================
