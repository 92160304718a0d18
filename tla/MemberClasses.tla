--------------------------- MODULE MemberClasses ---------------------------
(***************************************************************************)
(* What the C SDK makes of one member of a management type: what _parse of *)
(* src/src/management_models.c leaves in the struct for what stands on the *)
(* wire, and what _build writes of what the struct holds. The file treats  *)
(* two members of one class alike, so the class says what happens to any   *)
(* of them.                                                                *)
(*                                                                         *)
(* The wire and the struct are abstracted to what the classes tell apart. A*)
(* member's value is a string: one of the ordinary values of its class     *)
(* (Ordinary), or one of the marks below. Allocation failures are left out:*)
(* they end in a refusal or in a NULL member like any absent one.          *)
(***************************************************************************)
EXTENDS Sequences, Functions

-----------------------------------------------------------------------------
(* Marks on the wire. *)
Absent == "(absent)"
Null == "(null)"
Empty == "[]"
Newer == "(newer than this SDK)"
TagOnly == "(a newer tag and nothing else)"
Blank == ""
Misnamed == "(under another key)"

(* Marks in the struct: nothing was read or set, and a value the SDK has   *)
(* no constant for, or that no constant is.                                *)
Unset == "(unset)"
Unknown == "(unknown)"

(* What is no ordinary value of any class.                                 *)
Marks == {Absent, Null, Newer, TagOnly, Blank, Misnamed, Unset, Unknown}

-----------------------------------------------------------------------------
(* The kinds of classes: those whose name starts with maybe carry a has_   *)
(* flag, and those of Required are members of every document.              *)
Closed == {"enum", "maybeenum"}
Required == {"number", "real", "flag", "trueflag", "enum"}
MemberKinds ==
  Required \cup Closed
    \cup {"text", "secret", "json", "nullable", "maybenumber", "maybereal", "maybeflag",
          "maybetrueflag", "texts", "sometexts", "arm", "union"}

(* A class: an enum has its words, a union its arms and their members.     *)
IsClass(c) ==
  /\ c.kind \in MemberKinds
  /\ c.kind \in Closed => /\ c.words \in Seq(STRING) \ {<<>>}
                        /\ Range(c.words) \cap Marks = {}
  /\ c.kind = "union" => DOMAIN c.arms \subseteq STRING \ Marks

(* What a member of a class can say that this SDK knows. *)
Ordinary(c) ==
  CASE c.kind \in Closed -> Range(c.words)
    [] c.kind = "union" -> DOMAIN c.arms
    [] c.kind \in {"flag", "maybeflag", "trueflag", "maybetrueflag"} -> {"false", "true"}
    [] c.kind \in {"number", "maybenumber", "real", "maybereal"} -> {"0", "7"}
    [] c.kind \in {"texts", "sometexts"} -> {Empty, "a", "b"}
    [] OTHER -> {"a", "b"}

(* The value of a member nothing was read into: calloc's zero. *)
Zero(c) ==
  CASE c.kind = "enum" -> c.words[1]
    [] c.kind = "flag" -> "false"
    [] c.kind \in {"number", "real"} -> "0"
    [] OTHER -> Unset

(* axiam_mgmt_*_from_wire: a word of the vocabulary is its constant, and   *)
(* any other string the constant _UNKNOWN, never a known one.              *)
(* Mutant: an unrecognised word is left as the first constant.             *)
FromWireAsFirst(c, w) == IF w \in Range(c.words) THEN w ELSE c.words[1]
FromWire(c, w) == IF w \in Range(c.words) THEN w ELSE Unknown

(* axiam_mgmt_*_to_wire: the constant _UNKNOWN has no word. *)
ToWire(h) == IF h = Unknown THEN Blank ELSE h

(* axiam_mgmt_union_declared: the tag is kept as it came, and of the other *)
(* members those the spec declares for its arm, none for an arm the SDK    *)
(* does not know.                                                          *)
UnionDeclared(c, tag) == IF tag \in DOMAIN c.arms THEN tag ELSE TagOnly

(* What _parse leaves in the struct for a member seen on the wire as w.    *)
Parse(c, w) ==
  CASE c.kind \in Closed /\ w \notin {Absent, Null} -> FromWire(c, w)
    [] c.kind = "union" /\ w \notin {Absent, Null} -> UnionDeclared(c, w)
    [] c.kind = "json" /\ w # Absent -> w
    [] c.kind = "nullable" /\ w = Null -> Null
    [] c.kind \in {"trueflag", "maybetrueflag"} /\ w \notin {"false", "true"} -> "true"
    [] w \in Ordinary(c) -> w
    [] OTHER -> Zero(c)

(* What _build writes for a member the struct holds as h.                  *)
Stated(c, h) ==
  CASE c.kind \in Closed -> ToWire(h)
    [] c.kind = "arm" /\ h = Unknown -> Misnamed
    [] OTHER -> h
(* Mutant: every list is left out when it is empty.                        *)
BuildOmitsEmpty(c, h) == IF h \in {Unset, Empty} THEN Absent ELSE Stated(c, h)
Build(c, h) ==
  IF h = Unset \/ (c.kind = "sometexts" /\ h = Empty) THEN Absent ELSE Stated(c, h)
=============================================================================
