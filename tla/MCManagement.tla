----------------------------- MODULE MCManagement -----------------------------
(* A behaviour is either about two editors of a document, or about a walk   *)
(* over a list. A stale edit needs two editors, a cut list of events one    *)
(* inside the new ceiling and one outside; three rows give walks of up to   *)
(* three full pages, and a cap of two cuts a page of three.                 *)
EXTENDS EditTasks, ManagementEdit, PageWalk

EditorsAreAlike == Permutations(Editors)

(* A behaviour is about one leaf of those that the code treats alike, but  *)
(* what a task is assumed to be, each of them is; and each body has one.   *)
ASSUME EveryLeafIsATask ==
  \A o \in WithBody :
    LET all == AllTasksOf(o)
    IN all # {} /\ \A t \in all : IsTask(t)

(* What the editors stand for while a walk goes on. *)
NoTask == [op |-> NoBody, leaf |-> <<"(none)">>, body |-> Text, way |-> "composed"]

VARIABLE about   \* which of the two this behaviour is about

ManagementInit ==
  \/ about = "edit" /\ EditInit /\ list = <<>> /\ walk = NoWalk
  \/ /\ about = "walk" /\ WalkInit
     /\ task = NoTask
     /\ doc = [value |-> Absent, rest |-> Original, version |-> 1,
               asked |-> Unasked, ceiling |-> {}]
     /\ editor = [e \in Editors |-> Resting]

ManagementNext ==
  \/ about = "edit" /\ EditNext /\ UNCHANGED <<about, list, walk>>
  \/ about = "walk" /\ WalkNext /\ UNCHANGED <<about, task, doc, editor>>

ManagementSpec == ManagementInit /\ [][ManagementNext]_<<about, task, doc, editor, list, walk>>
=============================================================================
