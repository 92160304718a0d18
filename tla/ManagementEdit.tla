---------------------------- MODULE ManagementEdit ----------------------------
(***************************************************************************)
(* Administrators who edit through the management surface: the operations  *)
(* of src/src/management_ops.c that carry a body, and the read-modify-write*)
(* conversions of src/src/management_helpers.c.                            *)
(*                                                                         *)
(* A behaviour is about one such operation and one member of its body, the *)
(* leaf, with the rest of the document beside it as one value.  Where the  *)
(* surface reads the document at the operation's own template, several     *)
(* editors read it, convert what they read, change something, and send it  *)
(* back, in any order, and the answers to them may be lost; other          *)
(* operations are composed from nothing.  A task says what a leaf is to its*)
(* operation; EditTasks reads the tasks of the surface off its tables.     *)
(*                                                                         *)
(* Session, path and transport are those of every call (CallBudget).       *)
(***************************************************************************)
EXTENDS MemberClasses, Naturals

CONSTANTS
  Tasks,        \* what may be edited
  Editors,      \* application threads or processes that edit
  Events,       \* event types a stream may carry
  MaxVersion    \* bound: the versions a document goes through

VARIABLES
  task,         \* the operation and the leaf this behaviour is about
  doc,          \* the document the server holds
  editor        \* what each editor holds

editVars == <<task, doc, editor>>

-----------------------------------------------------------------------------
(* The tasks.                                                              *)

(* The behaviours about a stream's events: the list the receiver asked for *)
(* under the ceiling the administrator allows.                             *)
AboutEvents(t) == t.op = "ssf_update_stream" /\ t.leaf[1] = "events_requested"

(* A body can say of a member whatever the reading says of it: the classes *)
(* are the same, but for what is required of the one and not of the other. *)
SaysAsMuch(read, body) ==
  /\ read.kind # "maybetrueflag"
  /\ \/ body.kind = read.kind
     \/ <<read.kind, body.kind>> \in {<<"number", "maybenumber">>, <<"real", "maybereal">>,
                                     <<"flag", "maybeflag">>, <<"enum", "maybeenum">>}
  /\ read.kind \in Closed => body.words = read.words
  /\ read.kind = "union" => body.arms = read.arms

(* What the tables of the surface say of every leaf: an operation that     *)
(* writes a word out of a vocabulary checks it, a replacement says as much *)
(* as the reading it is made from, and a sparse update can leave its       *)
(* member out.                                                             *)
IsTask(t) ==
  /\ IsClass(t.body) /\ IsClass(t.read)
  /\ t.way \in {"composed", "replacing", "sparse"}
  /\ {t.checked, t.required, t.knownOnly, t.oneOf} \subseteq BOOLEAN
  /\ t.body.kind \in Closed => t.checked
  /\ t.body.kind = "arm" => t.knownOnly
  /\ t.body.kind = "union" => t.knownOnly \/ t.leaf[1] = "provider"
  /\ t.way = "replacing" => SaysAsMuch(t.read, t.body)
  /\ t.way = "sparse" => t.body.kind \notin Required
  /\ AboutEvents(t) => t.way = "replacing" /\ t.read.kind \notin Required

ASSUME TasksAssumption == MaxVersion \in Nat \ {0} /\ \A t \in Tasks : IsTask(t)

-----------------------------------------------------------------------------
(* What the members hold. *)

Original == "as created"
Unasked == [stated |-> FALSE, events |-> {}]
Asked(S) == [stated |-> TRUE, events |-> S]

(* What a server may answer for a member: a required one always something. *)
Answers(c) ==
  Ordinary(c) \cup (IF c.kind \in Closed \cup {"union"} THEN {Newer} ELSE {})
              \cup (IF c.kind \in Required THEN {} ELSE {Absent})
              \cup (IF c.kind \in {"text", "json", "nullable"} THEN {Null} ELSE {})

(* What an application may put in a member of the struct. *)
Settable(c) ==
  Ordinary(c) \cup (IF c.kind \in Closed \cup {"arm"} THEN {Unknown} ELSE {})
              \cup (IF c.kind = "union" THEN {Newer} ELSE {})
              \cup (IF c.kind = "nullable" THEN {Null} ELSE {})
              \cup (IF c.kind \in Required THEN {} ELSE {Unset})

(* And what the struct of what was read may hold beside.                   *)
HeldValues(c) ==
  Settable(c) \cup {Unset} \cup (IF c.kind = "union" THEN {TagOnly} ELSE {})
              \cup (IF c.kind = "json" THEN {Null} ELSE {})

Resting == [pc |-> "idle", held |-> Unset, rest |-> Unset, seen |-> 0, expected |-> {},
            names |-> {}, asked |-> Unasked, ceiling |-> {}]

Lists == [stated : BOOLEAN, events : SUBSET Events]

(* What an editor of a task holds.                                         *)
Drafts(t) ==
  [pc : {"idle", "holding", "ready"}, held : HeldValues(t.body),
   rest : {Unset, Original} \cup Editors, seen : 0..MaxVersion, expected : SUBSET (1..MaxVersion),
   names : SUBSET {"value", "rest", "asked", "ceiling", "version"}, asked : Lists,
   ceiling : SUBSET Events]

EditTypeOK ==
  /\ task \in Tasks
  /\ doc \in [value : Answers(task.read) \cup HeldValues(task.body),
             rest : {Original} \cup Editors, version : 1..MaxVersion, asked : Lists,
             ceiling : SUBSET Events]
  /\ editor \in [Editors -> Drafts(task)]

EditInit ==
  /\ task \in Tasks
  /\ \/ doc \in [value : Answers(task.read), rest : {Original}, version : {1},
                 asked : {Unasked}, ceiling : IF AboutEvents(task) THEN {Events} ELSE {{}}]
     \/ /\ AboutEvents(task)
        /\ doc \in [value : {Absent}, rest : {Original}, version : {1},
                    asked : {Asked(S) : S \in SUBSET Events}, ceiling : {Events}]
  /\ editor = [e \in Editors |-> Resting]

-----------------------------------------------------------------------------
(* The conversions. *)

(* axiam_mgmt_*_to_input: the read struct is written out and read in as    *)
(* the body's type, so the members both have are carried.                  *)
ToInput(w) == Parse(task.body, Build(task.read, Parse(task.read, w)))

(* The version the read answered goes back as the body's condition: the    *)
(* conversions of a stream and of a target copy updated_at, and a network  *)
(* body has it among its members.                                          *)
(* Mutant: updated_at is not a member of the body, and is forgotten.       *)
ConditionIsForgotten == {}
Condition == IF task.condition # {} THEN {doc.version} ELSE {}

(* cut_to_ceiling: the list that was read, cut to the ceiling just named.  *)
(* Nothing left of it is a stated empty list.                              *)
(* Mutant: an empty cut is left out of the body.                           *)
CutIsLeftOut(asked, top) ==
  IF asked.events \cap top = {} THEN Unasked ELSE Asked(asked.events \cap top)
CutToCeiling(asked, top) == IF asked.stated THEN Asked(asked.events \cap top) ELSE asked

-----------------------------------------------------------------------------
(* The editors. *)

ReadDocument(e) ==
  /\ editor[e].pc = "idle"
  /\ task.way # "composed"
  /\ doc.version < MaxVersion
  /\ editor' = [editor EXCEPT ![e] =
       IF task.way = "replacing"
       THEN [Resting EXCEPT !.pc = "holding", !.held = ToInput(doc.value), !.rest = doc.rest,
                            !.seen = doc.version, !.expected = Condition,
                            !.asked = doc.asked, !.ceiling = doc.ceiling]
       ELSE [Resting EXCEPT !.pc = "holding", !.held = Zero(task.body), !.seen = doc.version]]
  /\ UNCHANGED <<task, doc>>

(* A body of an operation nothing is read for, or nothing of its shape.    *)
Compose(e) ==
  /\ editor[e].pc = "idle"
  /\ task.way = "composed"
  /\ doc.version < MaxVersion
  /\ \E v \in Settable(task.body), r \in {Unset, e} :
       editor' = [editor EXCEPT ![e] = [Resting EXCEPT !.pc = "ready", !.held = v, !.rest = r,
                                                       !.names = {"value", "rest"}]]
  /\ UNCHANGED <<task, doc>>

(* One change to what was read: the leaf, something else, or for a stream  *)
(* axiam_mgmt_ssf_stream_apply_changes with a new ceiling, a list of the   *)
(* caller's own, or both.                                                  *)
ChangeDocument(e) ==
  /\ editor[e].pc = "holding"
  /\ \/ \E v \in Settable(task.body) :
          editor' = [editor EXCEPT ![e] = [@ EXCEPT !.pc = "ready", !.held = v, !.names = {"value"}]]
     \/ editor' = [editor EXCEPT ![e] = [@ EXCEPT !.pc = "ready", !.rest = e, !.names = {"rest"}]]
     \/ /\ AboutEvents(task)
        /\ \E top \in SUBSET Events :
             editor' = [editor EXCEPT ![e] =
               [@ EXCEPT !.pc = "ready", !.ceiling = top, !.names = {"ceiling"},
                         !.asked = CutToCeiling(editor[e].asked, top)]]
     \/ /\ AboutEvents(task)
        /\ \E top \in SUBSET Events, list \in SUBSET Events :
             editor' = [editor EXCEPT ![e] =
               [@ EXCEPT !.pc = "ready", !.ceiling = top, !.asked = Asked(list),
                         !.names = {"ceiling", "asked"}]]
  /\ UNCHANGED <<task, doc>>

(* no_expected_updated_at: the caller gives the condition up. *)
GiveUpCondition(e) ==
  /\ editor[e].pc = "ready"
  /\ editor[e].expected # {}
  /\ "expected_updated_at" \in task.condition
  /\ editor' = [editor EXCEPT ![e] = [@ EXCEPT !.expected = {},
                                              !.names = editor[e].names \cup {"version"}]]
  /\ UNCHANGED <<task, doc>>

(* What is refused before anything is sent: a value the SDK has no word    *)
(* for, a required member that is missing, a union or a tagged name it     *)
(* cannot express, both or neither of two alternatives.                    *)
(* Mutant: the check of the types is not called.                           *)
RefusedUnchecked(e) ==
  LET h == editor[e].held
  IN \/ task.required /\ h = Unset
     \/ task.knownOnly /\ h \in {Unknown, TagOnly}
     \/ task.oneOf /\ (h = Unset) = (editor[e].rest = Unset)
Refused(e) ==
  LET h == editor[e].held
  IN \/ task.checked /\ h = Unknown
     \/ task.required /\ h = Unset
     \/ task.knownOnly /\ h \in {Unknown, Newer, TagOnly}
     \/ task.oneOf /\ (h = Unset) = (editor[e].rest = Unset)

Refuse(e) ==
  /\ editor[e].pc = "ready"
  /\ Refused(e)
  /\ editor' = [editor EXCEPT ![e] = Resting]
  /\ UNCHANGED <<task, doc>>

Sendable(e) == editor[e].pc = "ready" /\ ~Refused(e)
Body(e) == Build(task.body, editor[e].held)

(* The server's document once it has accepted the body: a sparse update    *)
(* keeps what the body leaves out, and a member the document always has    *)
(* gets the server's default.                                              *)
Stored(e) ==
  LET b == editor[e]
      default == CHOOSE v \in Ordinary(task.read) : TRUE
      left == IF task.way # "replacing" THEN doc.value
              ELSE IF task.read.kind \in Required THEN default ELSE Absent
  IN [value |-> IF Body(e) = Absent THEN left ELSE Body(e),
      rest |-> IF b.rest = Unset THEN doc.rest ELSE b.rest,
      version |-> doc.version + 1, asked |-> b.asked, ceiling |-> b.ceiling]

(* One request, never sent again (27.4 rule 8). The answer of an accepted  *)
(* one may be lost or unreadable, and the request may never arrive; told   *)
(* of a refusal, of a conflict or of nothing, the application starts over. *)
Send(e) ==
  /\ Sendable(e)
  /\ doc.version < MaxVersion
  /\ LET b == editor[e]
         known == Body(e) \notin {Blank, Misnamed, Newer}
         legal == b.asked.stated => b.asked.events \subseteq b.ceiling
         current == b.expected \subseteq {doc.version}
     IN \/ known /\ legal /\ current /\ doc' = Stored(e)
        \/ doc' = doc
  /\ editor' = [editor EXCEPT ![e] = Resting]
  /\ UNCHANGED task

EditNext ==
  \E e \in Editors : \/ ReadDocument(e) \/ Compose(e) \/ ChangeDocument(e)
                     \/ GiveUpCondition(e) \/ Refuse(e) \/ Send(e)

EditSpec == EditInit /\ [][EditNext]_editVars

-----------------------------------------------------------------------------
(* What an application may rely on.                                        *)

(* No request carries a word the SDK does not know, wherever in the body   *)
(* it would stand and however it got there: not the empty string of an     *)
(* _UNKNOWN constant, not a name under the wrong key, not a union of an    *)
(* arm it has no members for. The kind of a mail provider is an open       *)
(* string, and is sent as it is held.                                      *)
NothingUnknownIsSent ==
  \A e \in Editors : Sendable(e) =>
    /\ Body(e) \notin {Blank, Misnamed}
    /\ Body(e) \in {Newer, TagOnly} => task.leaf[1] = "provider"

(* Two values a reader of the document does not tell apart. *)
Norm(w) == IF w = Null \/ (task.body.kind = "sometexts" /\ w = Empty) THEN Absent ELSE w

(* An accepted edit changes what it names and nothing else, whatever other *)
(* editors did since it was read: an update that can be conditional on the *)
(* version it was built from is, unless the caller gave that up, a sparse  *)
(* one says only what was changed, and a replacement of the version that   *)
(* stands carries every member both types have. For a stream whose         *)
(* receiver asked for a list of events, a new ceiling never adds to it.    *)
(* The one member left out is the mail provider: a provider newer than the *)
(* SDK is read as its tag alone, and a replacement says no more than that. *)
EditsKeepTheRest ==
  [][\A e \in Editors :
       LET b == editor[e]
           accepted == doc'.version # doc.version /\ editor'[e] # b
           coarse == task.leaf[1] = "provider" /\ doc.value = Newer
           answerable == \/ task.way = "sparse"
                         \/ b.seen = doc.version
                         \/ task.condition # {} /\ "version" \notin b.names
       IN accepted /\ answerable /\ task.way # "composed" =>
            /\ "value" \notin b.names /\ ~coarse => Norm(doc'.value) = Norm(doc.value)
            /\ "rest" \notin b.names => doc'.rest = doc.rest
            /\ doc.asked.stated /\ "asked" \notin b.names =>
                 doc'.asked.stated /\ doc'.asked.events \subseteq doc.asked.events]_editVars
=============================================================================
