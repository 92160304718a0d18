------------------------------- MODULE MCGrants -------------------------------
(***************************************************************************)
(* The grants that take several steps. A behaviour is either about the     *)
(* refresh grant, which threads share, or about one of the two loops that  *)
(* poll for a grant; the machine it is not about stands still.             *)
(*                                                                         *)
(* Refreshes: three threads and two tokens: two flights in the air at      *)
(* once, one with a follower, or one flight whose follower is still        *)
(* leaving when the next one for the same token is opened, at a recycled   *)
(* address. A call leaves nothing behind in its thread, so three threads   *)
(* of one call stand for fewer threads of several.                         *)
(*                                                                         *)
(* Polling: both loops against every sequence of answers. A second is two  *)
(* ticks, so that waits end inside one; the interval and the increment     *)
(* stand for five seconds each, the lifetime for six intervals.            *)
(***************************************************************************)
EXTENDS OidcRefresh, GrantPolling

CONSTANTS t1, t2, t3, k1, k2, a1, a2
ThreadsMC == {t1, t2, t3}
TokensMC == {k1, k2}
AddressesMC == {a1, a2}

VARIABLE about   \* which of the two this behaviour is about

grantsVars == <<about, vars, pollingVars>>

GrantsInit ==
  /\ about \in {"refresh", "polling"}
  /\ Init
  /\ PollingInit
  /\ about = "refresh" => flow = "device" /\ clock = 0

AboutRefresh == about = "refresh" /\ UNCHANGED <<about, pollingVars>>
AboutPolling == about = "polling" /\ UNCHANGED <<about, vars>>

(* A polling call that has returned stays so.                               *)
Returned == at = "done" /\ UNCHANGED pollingVars

GrantsNext ==
  \/ AboutRefresh /\ Next
  \/ AboutPolling /\ (PollingNext \/ Returned)

GrantsSpec ==
  /\ GrantsInit /\ [][GrantsNext]_grantsVars
  /\ \A t \in Threads : WF_grantsVars(AboutRefresh /\ Advance(t))
  /\ WF_grantsVars(AboutPolling /\ Step)
===============================================================================
