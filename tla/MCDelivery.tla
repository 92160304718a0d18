------------------------------ MODULE MCDelivery ------------------------------
(***************************************************************************)
(* What is sent may be lost or answered late, and is sent again. A         *)
(* behaviour is either about one call at a time, of every operation in     *)
(* turn, over the built-in transport or another; or about the events a     *)
(* receiver polls for.                                                     *)
(*                                                                         *)
(* Calls: delays are scaled, a base of one, a cap of three and a clamp of  *)
(* four units stand for 200 ms, 5 s and an hour; the server may ask for    *)
(* five, more than the clamp.                                              *)
(*                                                                         *)
(* Events: two polls, or a poll and a pushed SET, that overlap over one    *)
(* event, and a crash; and one poll at a time over two events, whose batch *)
(* can fail in its middle. The keys live longer than a document's flight   *)
(* and the interval after it, so that a refetch can fail over a cache that *)
(* is not expired, and be allowed again before it is.                      *)
(***************************************************************************)
EXTENDS CallBudget, SsfReceiver, TLC

Alike == Permutations(Threads) \cup Permutations(Jtis)

VARIABLE about   \* which of the two this behaviour is about

DeliveryInit ==
  /\ about \in {"calls", "events"}
  /\ Init
  /\ SsfInit
  /\ about = "events" => ~authenticated /\ bundled

DeliveryNext ==
  \/ about = "calls" /\ Next /\ UNCHANGED <<about, ssfVars>>
  \/ about = "events" /\ SsfNext /\ UNCHANGED <<about, vars>>

DeliverySpec == DeliveryInit /\ [][DeliveryNext]_<<about, vars, ssfVars>>

FewAtOnce ==
  \/ Cardinality({j \in Jtis : event[j].state # "unborn"}) < 2
  \/ Cardinality({t \in Threads : ~At(t, "idle")}) < 2 /\ crashes = 0
===============================================================================
