------------------------------- MODULE PageWalk -------------------------------
(***************************************************************************)
(* The list_all operations of src/src/management_ops.c: a list is read page*)
(* by page, each page one GET, until a page is empty, while other          *)
(* administrators add and remove rows.  The paging itself is               *)
(* src/src/management.c; the 26 loops differ only in the rows.             *)
(*                                                                         *)
(* The retries of one GET are those of every call (CallBudget).            *)
(***************************************************************************)
EXTENDS Listings, SequencesExt

CONSTANTS
  Rows,          \* what the server may list
  Matches,       \* the rows the caller's search term stands for
  Limits,        \* page sizes a caller asks for
  Offsets,       \* where a caller starts
  DefaultLimit,  \* AXIAM_MGMT_DEFAULT_LIMIT
  ServerCap      \* the largest page the server answers

ASSUME WalkAssumption ==
  /\ Matches \subseteq Rows
  /\ Limits \subseteq Int /\ Offsets \subseteq Int
  /\ ServerCap \in Nat /\ DefaultLimit \in 1..ServerCap

VARIABLES
  list,          \* the server's rows, in its order
  walk           \* the walk over them

walkVars == <<list, walk>>

NoTerm == "NULL"
Spaces == "  "
Term == "term"

-----------------------------------------------------------------------------
(* The pages.                                                              *)

(* axiam_mgmt_page_search: a term of spaces alone is no term. *)
PageSearch(term) == IF term = Spaces THEN NoTerm ELSE term

(* axiam_mgmt_page_query: the clamped offset and size go on the wire. *)
PageQuery(req) ==
  [offset |-> IF req.offset < 0 THEN 0 ELSE req.offset,
   limit |-> IF req.limit < 1 THEN DefaultLimit ELSE req.limit,
   search |-> PageSearch(req.search)]

(* axiam_mgmt_page_next: the same size and term, one requested size on.    *)
(* Mutant: the term is left behind.                                        *)
PageNextWithoutTerm(req) ==
  LET q == PageQuery(req)
  IN [offset |-> q.offset + q.limit, limit |-> q.limit, search |-> NoTerm]
PageNext(req) ==
  LET q == PageQuery(req)
  IN [offset |-> q.offset + q.limit, limit |-> q.limit, search |-> req.search]

(* The server filters, then cuts the page out. *)
Found(search) == Kept(list, IF search = NoTerm THEN Rows ELSE Matches)
ServerPage(q) ==
  LET found == Found(q.search)
      n == IF q.limit > ServerCap THEN ServerCap ELSE q.limit
      last == IF q.offset + n > Len(found) THEN Len(found) ELSE q.offset + n
  IN SubSeq(found, q.offset + 1, last)

-----------------------------------------------------------------------------
(* The walk.                                                               *)

NoRequest == [offset |-> 0, limit |-> DefaultLimit, search |-> NoTerm]
NoWalk == [pc |-> "off", request |-> NoRequest, req |-> NoRequest, items |-> <<>>,
           total |-> 0, start |-> <<>>, removed |-> FALSE, added |-> FALSE]

WalkInit ==
  /\ list \in {s \in UNION {[1..n -> Rows] : n \in 0..Cardinality(Rows)} : IsInjective(s)}
  /\ walk = NoWalk

(* list_all begins: nothing collected. "start" is the list as it stood.    *)
BeginWalk ==
  /\ walk.pc = "off"
  /\ \E o \in Offsets, l \in Limits, s \in {NoTerm, Spaces, Term} :
       LET r == [offset |-> o, limit |-> l, search |-> s]
       IN walk' = [NoWalk EXCEPT !.pc = "reading", !.request = r, !.req = r,
                     !.start = Found(PageSearch(s))]
  /\ UNCHANGED list

(* One page: a page with rows is added and the next one asked for, an      *)
(* empty one ends the walk, a failure drops everything collected.          *)
ReadPage ==
  /\ walk.pc = "reading"
  /\ LET q == PageQuery(walk.req)
         page == ServerPage(q)
         total == Len(Found(q.search))
     IN \/ /\ page # <<>>
           /\ walk' = [walk EXCEPT !.items = @ \o page, !.total = total,
                                   !.req = PageNext(walk.req)]
        \/ page = <<>> /\ walk' = [walk EXCEPT !.pc = "done", !.total = total]
        \/ walk' = [walk EXCEPT !.pc = "failed", !.items = <<>>]
  /\ UNCHANGED list

(* Other administrators. A new row may stand anywhere in the order.        *)
AddRow ==
  /\ walk.pc = "reading"
  /\ \E r \in Rows \ Range(list), i \in 1..Len(list) + 1 : list' = InsertAt(list, i, r)
  /\ walk' = [walk EXCEPT !.added = TRUE]

RemoveRow ==
  /\ walk.pc = "reading"
  /\ \E i \in 1..Len(list) : list' = RemoveAt(list, i)
  /\ walk' = [walk EXCEPT !.removed = TRUE]

WalkNext == BeginWalk \/ ReadPage \/ AddRow \/ RemoveRow

WalkSpec == WalkInit /\ [][WalkNext]_walkVars

-----------------------------------------------------------------------------
(* What a completed walk is. Whatever happened meanwhile, every row has    *)
(* the term. If nothing was removed, every row that stood at or after the  *)
(* first offset is there, unless more was asked for than the server puts   *)
(* in a page; a row may then be there twice. If nothing was added either,  *)
(* the walk is the list as it stood, in its order, and the total counts    *)
(* the rows that have the term.                                            *)
WalkIsComplete ==
  walk.pc = "done" =>
    LET q == PageQuery(walk.request)
        due == SubSeq(walk.start, q.offset + 1, Len(walk.start))
    IN /\ q.search = Term => Range(walk.items) \subseteq Matches
       /\ ~walk.removed /\ q.limit <= ServerCap => Range(due) \subseteq Range(walk.items)
       /\ ~walk.removed /\ ~walk.added /\ q.limit <= ServerCap =>
            walk.items = due /\ walk.total = Len(walk.start)
=============================================================================
