----------------------------- MODULE ManagedTenant -----------------------------
(***************************************************************************)
(* A tenant at the AXIAM server, as the management operations of the SDK    *)
(* find and leave it: what each write makes of it, and when the server      *)
(* refuses it. The server is not part of the repository: this is what       *)
(* management_manifest.c and the operations it calls rely on.               *)
(*                                                                         *)
(* Each write is the set of the tenants it may leave: empty when the        *)
(* server refuses it.                                                      *)
(***************************************************************************)
EXTENDS Integers, FiniteSets

CONSTANT Texts  \* names, and values of members

Nothing == "none"  \* a member held as none
NoId == 0          \* an absent reference

(* A stated member replaces the held one, a silent one leaves it.           *)
Unstated == "unstated"
Keep(stated, held) == IF stated = Unstated THEN held ELSE stated

Theirs == "theirs"  \* what another administrator writes

ASSUME TextsAssumption == {Nothing, Unstated, Theirs} \subseteq Texts

WithId(rows, id) == {r \in rows : r.id = id}

EntityKinds == {"resource", "permission", "role", "group", "account"}
Holders == {"group", "account"}  \* who may hold a role

OfKind(t, id, kinds) == {o \in WithId(t.objects, id) : o.kind \in kinds}

Pair(b) == <<b.subject, b.role>>

(* The rows of a tenant, and what the server keeps of them: an id is given  *)
(* out once, what is not a resource lies under nothing, and a role is held  *)
(* by a holder, once.                                                      *)
Objects == [id : Nat, kind : EntityKinds, name : Texts, description : Texts, metadata : Texts,
            global : BOOLEAN, parent : Nat]
Assignments == [subject : Nat, role : Nat, resource : Nat, inherit : BOOLEAN, scope : Texts]
SegmentRows == [id : Nat, name : Texts, vlan : Nat, rank : Texts, version : Nat]
ProfileRows == [segment : Nat, timeout : Nat, idle : Texts, version : Nat]

IsTenant(t) ==
  t \in [objects : SUBSET Objects, held : SUBSET Assignments, cap : [max : Nat, version : Nat],
         segments : SUBSET SegmentRows, profiles : SUBSET ProfileRows, next : Nat \ {NoId}]

SameName(o, p) == o.kind = p.kind /\ o.name = p.name /\ o.parent = p.parent

ObjectsAreKept(t) ==
  \A o \in t.objects :
    /\ o.id # NoId /\ o.id < t.next
    /\ o.kind # "resource" => o.parent = NoId
    /\ \A p \in t.objects : p.id = o.id \/ (SameName(o, p) /\ o.kind # "account") => p = o

AssignmentsAreKept(t) ==
  \A h \in t.held :
    /\ OfKind(t, h.subject, Holders) # {} /\ OfKind(t, h.role, {"role"}) # {}
    /\ \A g \in t.held : Pair(g) = Pair(h) => g = h

NetworkIsKept(t) ==
  /\ \A s \in t.segments :
       s.id # NoId /\ s.id < t.next /\ \A r \in t.segments : r.id = s.id \/ r.name = s.name => r = s
  /\ \A p, q \in t.profiles : p.segment = q.segment => p = q

WellFormed(t) == IsTenant(t) /\ ObjectsAreKept(t) /\ AssignmentsAreKept(t) /\ NetworkIsKept(t)

(* POST of a resource, permission, role, group or service account. A name   *)
(* is taken once, by resources once under a parent; by accounts as often as *)
(* anyone likes.                                                           *)
Create(t, o) ==
  LET taken == {x \in t.objects : SameName(x, o)}
      refused == (taken # {} /\ o.kind # "account")
                   \/ (o.parent # NoId /\ WithId(t.objects, o.parent) = {})
  IN  IF refused THEN {}
      ELSE {[t EXCEPT !.objects = @ \cup {[o EXCEPT !.id = t.next]}, !.next = @ + 1]}

(* PUT: the members the body carries, and no others.                        *)
Update(t, id, description, metadata) ==
  {[t EXCEPT !.objects = (@ \ {o}) \cup
      {[o EXCEPT !.description = Keep(description, @), !.metadata = Keep(metadata, @)]}]
     : o \in WithId(t.objects, id)}

(* A holder holds a role once, and a global one without a place to stop.    *)
Assign(t, b) ==
  LET refused == \/ \E h \in t.held : Pair(h) = Pair(b)
                 \/ OfKind(t, b.subject, Holders) = {}
                 \/ OfKind(t, b.role, {"role"}) = {}
                 \/ b.resource # NoId /\ OfKind(t, b.resource, {"resource"}) = {}
                 \/ ~ b.inherit /\ \E o \in WithId(t.objects, b.role) : o.global
  IN  IF refused THEN {} ELSE {[t EXCEPT !.held = @ \cup {b}]}

Unassign(t, pair, resource) ==
  {[t EXCEPT !.held = @ \ {b}] : b \in {h \in t.held : Pair(h) = pair /\ h.resource = resource}}

(* What a deletion takes with it.                                           *)
Delete(t, o) ==
  [t EXCEPT !.objects = @ \ {o},
            !.held = {h \in @ : o.id \notin {h.subject, h.role, h.resource}}]

(* The writes of the network namespace are conditional on the version read. *)
ReplacePolicy(t, max, version) ==
  IF t.cap.version = version THEN {[t EXCEPT !.cap = [max |-> max, version |-> version + 1]]} ELSE {}

CreateSegment(t, name, vlan, rank) ==
  IF \E s \in t.segments : s.name = name THEN {}
  ELSE {[t EXCEPT !.segments = @ \cup {[id |-> t.next, name |-> name, vlan |-> vlan,
                                        rank |-> Keep(rank, Nothing), version |-> 1]},
                  !.next = @ + 1]}

ReplaceSegment(t, id, version, vlan, rank) ==
  {[t EXCEPT !.segments = (@ \ {s}) \cup
      {[s EXCEPT !.vlan = vlan, !.rank = rank, !.version = @ + 1]}]
     : s \in {x \in WithId(t.segments, id) : x.version = version}}

(* A profile is written against a segment at its version, and under the cap.*)
Accepts(t, segment, segmentVersion, timeout) ==
  /\ \E s \in WithId(t.segments, segment) : s.version = segmentVersion
  /\ timeout <= t.cap.max

CreateProfile(t, segment, segmentVersion, timeout, idle) ==
  IF Accepts(t, segment, segmentVersion, timeout) /\ ~ \E p \in t.profiles : p.segment = segment
  THEN {[t EXCEPT !.profiles = @ \cup {[segment |-> segment, timeout |-> timeout,
                                        idle |-> Keep(idle, Nothing), version |-> 1]}]}
  ELSE {}

ReplaceProfile(t, segment, version, segmentVersion, timeout, idle) ==
  {[t EXCEPT !.profiles = (@ \ {p}) \cup
      {[p EXCEPT !.timeout = timeout, !.idle = idle, !.version = @ + 1]}]
     : p \in {x \in t.profiles : /\ x.segment = segment
                                 /\ x.version = version
                                 /\ Accepts(t, segment, segmentVersion, timeout)}}

(* A profile as it is read: its timeout clamped to the cap.                 *)
Effective(t) ==
  {[p EXCEPT !.timeout = IF @ < t.cap.max THEN @ ELSE t.cap.max] : p \in t.profiles}

=============================================================================
