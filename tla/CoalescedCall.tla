---------------------------- MODULE CoalescedCall ----------------------------
(***************************************************************************)
(* What a single-flight guard promises (CONTRACT.md section 9): callers    *)
(* that ask for the same thing while a flight for it is in the air make no *)
(* call of their own and receive that flight's outcome, and a caller that  *)
(* arrives after it settled starts a fresh one.                            *)
(*                                                                         *)
(* There are no locks, no wakeups and no memory here: OidcRefresh.tla,     *)
(* which has all three, is shown to implement this.                        *)
(***************************************************************************)
EXTENDS Naturals, Sequences

CONSTANTS Callers, Keys, Kinds

VARIABLES
  slot,     \* for each key, the number of its flight in the air, or 0
  outcome,  \* for each flight so far, what it answered, or "pending"
  seat,     \* for each caller, the flight it leads or joined, or 0
  got       \* what each caller's latest call returned, or "none"

vars == <<slot, outcome, seat, got>>

Init ==
  /\ slot = [k \in Keys |-> 0]
  /\ outcome = <<>>
  /\ seat = [c \in Callers |-> 0]
  /\ got = [c \in Callers |-> "none"]

(* The first caller for k opens a flight. *)
Lead(c, k) ==
  /\ seat[c] = 0
  /\ slot[k] = 0
  /\ outcome' = Append(outcome, "pending")
  /\ slot' = [slot EXCEPT ![k] = Len(outcome) + 1]
  /\ seat' = [seat EXCEPT ![c] = Len(outcome) + 1]
  /\ got' = [got EXCEPT ![c] = "none"]

(* The others take a seat in it. *)
Join(c, k) ==
  /\ seat[c] = 0
  /\ slot[k] # 0
  /\ seat' = [seat EXCEPT ![c] = slot[k]]
  /\ got' = [got EXCEPT ![c] = "none"]
  /\ UNCHANGED <<slot, outcome>>

(* A caller with a seat in a settled flight leaves with what it answered.  *)
(* A copy of a token set can fail for want of memory, and that caller      *)
(* alone is then told so.                                                  *)
Answer(kind) == IF kind = "ok" THEN {"ok", "network"} ELSE {kind}

(* The leader settles its own flight, vacates the slot and leaves: one     *)
(* step, so that nobody sees the slot empty and the outcome missing.       *)
Settle(c, k, kind) ==
  /\ seat[c] # 0
  /\ slot[k] = seat[c]
  /\ outcome' = [outcome EXCEPT ![seat[c]] = kind]
  /\ slot' = [slot EXCEPT ![k] = 0]
  /\ seat' = [seat EXCEPT ![c] = 0]
  /\ \E a \in Answer(kind) : got' = [got EXCEPT ![c] = a]

Leave(c) ==
  /\ seat[c] # 0
  /\ outcome[seat[c]] # "pending"
  /\ seat' = [seat EXCEPT ![c] = 0]
  /\ \E a \in Answer(outcome[seat[c]]) : got' = [got EXCEPT ![c] = a]
  /\ UNCHANGED <<slot, outcome>>

(* A caller that cannot open a flight for want of memory is refused. *)
Refuse(c) ==
  /\ seat[c] = 0
  /\ got' = [got EXCEPT ![c] = "network"]
  /\ UNCHANGED <<slot, outcome, seat>>

Next ==
  \E c \in Callers :
    \/ \E k \in Keys : Lead(c, k) \/ Join(c, k)
    \/ \E k \in Keys, kind \in Kinds : Settle(c, k, kind)
    \/ Leave(c)
    \/ Refuse(c)

Spec == Init /\ [][Next]_vars
==============================================================================
