------------------------------- MODULE Manifest -------------------------------
(***************************************************************************)
(* Manifests (management_manifest.c): the declarative layer over the       *)
(* management operations. axiam_mgmt_plan reads a tenant and says what it   *)
(* would take to bring it to a manifest; axiam_mgmt_apply plans afresh and  *)
(* carries the plan out, one request at a time, over a tenant that other    *)
(* administrators write meanwhile and with requests that fail or whose      *)
(* answers are lost. A failed apply is not rolled back: it is run again.    *)
(*                                                                         *)
(* A manifest states entities (resources, permissions, roles, groups and    *)
(* service accounts), the roles its groups and accounts hold, and the       *)
(* `network` namespace: a cap, segments and their reply profiles. Of the    *)
(* members of each the model keeps one or two that a manifest may state or  *)
(* leave unstated.                                                         *)
(***************************************************************************)
EXTENDS ManagedTenant, Listings, SequencesExt

CONSTANTS
  Manifests,     \* the manifests applied
  Tenants,       \* the states the tenant may be found in
  ScanLimit,     \* SCAN_LIMIT: how many objects of a kind a plan reads
  MaxRuns,       \* bound: how often a manifest is applied
  MaxFaults,     \* bound: requests that fail, or whose answer does
  MaxOthers      \* bound: writes of other administrators

(* axiam_mgmt_manifest_kind_t, in the order an apply runs them in.          *)
Kinds == <<"resource", "permission", "role", "group", "account">>

Rank(kind) == CHOOSE i \in DOMAIN Kinds : Kinds[i] = kind

Subjects == {"group", "account"}

NoKey == 0     \* an absent reference within a manifest
NoPolicy == 0  \* a manifest that states no cap

(* What a manifest is made of: axiam_mgmt_manifest_t and its parts.         *)
RoleSpecs == [role : Nat, resource : Nat, inherit : BOOLEAN]
Entities == [kind : EntityKinds, key : Nat, name : Texts, description : Texts, metadata : Texts,
             global : BOOLEAN, depends : Nat, roles : Seq(RoleSpecs)]
SegmentSpecs == [key : Nat, name : Texts, vlan : Nat, rank : Texts]
ProfileSpecs == [segment : Nat, timeout : Nat, idle : Texts]

ASSUME ManifestAssumption ==
  /\ ScanLimit \in Nat \ {0}
  /\ {MaxRuns, MaxFaults, MaxOthers} \subseteq Nat
  /\ \A t \in Tenants : WellFormed(t)
  /\ \A m \in Manifests :
       m \in [entities : Seq(Entities), policy : Nat, segments : Seq(SegmentSpecs), profiles : Seq(ProfileSpecs)]

VARIABLES
  tenant,     \* the tenant, at the server
  job,        \* the plan or apply under way
  report,     \* axiam_mgmt_apply_report_t of the latest apply
  heldBefore, \* history: bindings at its start nobody else has touched since
  calm,       \* history: the manifest last applied in full, unless there was a write since
  disturbed,  \* history: whether another administrator wrote during it
  faulted,    \* history: whether one of its requests failed for no reason of its own
  runs,       \* how many applies have begun
  faults,     \* how many requests have failed so
  others      \* how many writes others have made

vars == <<tenant, job, report, heldBefore, calm, disturbed, faulted, runs, faults, others>>

-----------------------------------------------------------------------------
(* find_key: the first entity with the key, whatever its kind.              *)
NoEntity == [key |-> NoKey]

Entity(m, key) ==
  LET at == {i \in DOMAIN m.entities : m.entities[i].key = key}
  IN  IF key = NoKey \/ at = {} THEN NoEntity ELSE m.entities[Min(at)]

(* The chain of depends_on above an entity.                                 *)
Ancestors(m, e) ==
  LET up[n \in 0..Len(m.entities)] ==
        IF n = 0 THEN e
        ELSE IF up[n - 1] = NoEntity THEN NoEntity
        ELSE Entity(m, up[n - 1].depends)
  IN  up

EntitiesAreValid(m) ==
  /\ \A i, j \in DOMAIN m.entities :
       i # j /\ m.entities[i].kind = m.entities[j].kind => m.entities[i].key # m.entities[j].key
  /\ \A i \in DOMAIN m.entities :
       /\ m.entities[i].depends # NoKey => Entity(m, m.entities[i].depends) # NoEntity
       /\ Ancestors(m, m.entities[i])[Len(m.entities)] = NoEntity

Declares(m, kind, key) == Entity(m, key) # NoEntity /\ Entity(m, key).kind = kind

BindingIsValid(m, b) ==
  /\ Declares(m, "role", b.role)
  /\ b.resource # NoKey => Declares(m, "resource", b.resource)
  /\ ~ b.inherit => b.resource # NoKey /\ ~ Entity(m, b.role).global

BindingsAreValid(m) ==
  \A i \in DOMAIN m.entities :
    LET roles == m.entities[i].roles IN
      m.entities[i].kind \in Subjects =>
        \A b \in DOMAIN roles :
          /\ BindingIsValid(m, roles[b])
          /\ \A c \in DOMAIN roles : b # c => roles[b].role # roles[c].role

NetworkIsValid(m) ==
  /\ \A i, j \in DOMAIN m.segments :
       i # j => m.segments[i].key # m.segments[j].key /\ m.segments[i].name # m.segments[j].name
  /\ \A i \in DOMAIN m.profiles :
       /\ \E j \in DOMAIN m.segments : m.segments[j].key = m.profiles[i].segment
       /\ \A j \in DOMAIN m.profiles : i # j => m.profiles[i].segment # m.profiles[j].segment

Valid(m) == EntitiesAreValid(m) /\ BindingsAreValid(m) /\ NetworkIsValid(m)

-----------------------------------------------------------------------------
(* How deep an entity lies below others of its own kind.                    *)
Depth(m, e) ==
  Cardinality({n \in 1..Len(m.entities) :
    \A k \in 1..n : Ancestors(m, e)[k] # NoEntity /\ Ancestors(m, e)[k].kind = e.kind})

(* Mutant: entities of one kind are ordered by key alone. *)
BeforeByKey(m, a, b) == Rank(a.kind) < Rank(b.kind) \/ (a.kind = b.kind /\ a.key < b.key)

(* The order of an apply: by kind, by depth, by key.                        *)
Before(m, a, b) ==
  \/ Rank(a.kind) < Rank(b.kind)
  \/ a.kind = b.kind /\ Depth(m, a) < Depth(m, b)
  \/ a.kind = b.kind /\ Depth(m, a) = Depth(m, b) /\ a.key < b.key

Ordered ==
  [m \in {x \in Manifests : Valid(x)} |->
     LET entities == Range(m.entities)
     IN  InOrder(entities, {p \in entities \X entities : Before(m, p[1], p[2])})]

Segments ==
  [m \in {x \in Manifests : Valid(x)} |->
     LET segments == Range(m.segments)
     IN  InOrder(segments, {p \in segments \X segments : p[1].key < p[2].key})]

(* The profile of each segment that has one, in the order of the segments.  *)
Profiles(m) ==
  LET stated == Kept(Segments[m], {s \in Range(m.segments) :
                                     \E i \in DOMAIN m.profiles : m.profiles[i].segment = s.key})
  IN  [i \in DOMAIN stated |->
        m.profiles[CHOOSE j \in DOMAIN m.profiles : m.profiles[j].segment = stated[i].key]]
-----------------------------------------------------------------------------
(* What a plan reads: of each kind the manifest mentions one page, the      *)
(* roles of the subjects that exist and state any, and of the network what  *)
(* the manifest states.                                                    *)
Page(t, kind) ==
  LET rows == {o \in t.objects : o.kind = kind}
      first == {o \in rows : Cardinality({x \in rows : x.id < o.id}) < ScanLimit}
  IN  IF kind = "resource" THEN {[o EXCEPT !.description = Nothing] : o \in first} ELSE first

(* A subject's roles as they are listed: the role by its name.              *)
RoleName(t, h) == (CHOOSE o \in WithId(t.objects, h.role) : TRUE).name

Row(t, h) == [role |-> RoleName(t, h), resource |-> h.resource, inherit |-> h.inherit, scope |-> h.scope]

HeldBy(t, id) == {Row(t, h) : h \in {x \in t.held : x.subject = id}}

Matching(seen, e) == {o \in seen[<<"kind", e.kind>>] : o.name = e.name}

(* existing_find, and existing_find_checked for an account.                 *)
Ambiguous(seen, m) ==
  \E i \in DOMAIN m.entities :
    m.entities[i].kind = "account" /\ Cardinality(Matching(seen, m.entities[i])) > 1

Differs(stated, held) == stated # Unstated /\ stated # held

(* Mutant: metadata is compared as the text it was written in. *)
DriftedAsText(e, o) == Differs(e.description, o.description) \/ (e.kind = "resource" /\ e.metadata # Unstated)

(* Only what the manifest states can have drifted.                          *)
Drifted(e, o) ==
  \/ Differs(e.description, o.description)
  \/ e.kind = "resource" /\ Differs(e.metadata, o.metadata)

Change(seen, e) ==
  LET rows == Matching(seen, e)
      found == CHOOSE o \in rows : \A x \in rows : o.id <= x.id
  IN  IF rows = {} THEN [entity |-> e, action |-> "create", id |-> NoId]
      ELSE [entity |-> e, action |-> IF Drifted(e, found) THEN "update" ELSE "unchanged", id |-> found.id]

Changes(seen, m) == LET ordered == Ordered[m] IN [i \in DOMAIN ordered |-> Change(seen, ordered[i])]

(* resolved_id_for_key: of the first change with the key, whatever its kind.*)
IdOf(changes, key) ==
  LET at == {i \in DOMAIN changes : changes[i].entity.key = key}
  IN  IF key = NoKey \/ at = {} THEN NoId ELSE changes[Min(at)].id

(* The subjects that state roles: the groups, then the accounts, each in    *)
(* the order of the manifest.                                              *)
Stating(m) ==
  LET of(kind) == Kept(m.entities, {e \in Range(m.entities) : e.kind = kind /\ e.roles # <<>>})
  IN  of("group") \o of("account")

KindReads(m) ==
  LET kinds == Kept(Kinds, {e.kind : e \in Range(m.entities)})
  IN  [i \in DOMAIN kinds |-> <<"kind", kinds[i]>>]

HeldReads(seen, m) ==
  LET existing == Kept(Stating(m), {e \in Range(m.entities) : IdOf(Changes(seen, m), e.key) # NoId})
  IN  [i \in DOMAIN existing |-> <<"held", existing[i].key>>]

NetworkReads(m) ==
  (IF m.policy = NoPolicy THEN <<>> ELSE <<<<"network", "policy">>>>)
    \o (IF m.segments = <<>> THEN <<>> ELSE <<<<"network", "segments">>>>)
    \o (IF m.profiles = <<>> THEN <<>> ELSE <<<<"network", "profiles">>>>)

(* The reads that follow those already made.                                *)
Unread(seen, m) ==
  LET left(reads) == Kept(reads, Range(reads) \ DOMAIN seen)
  IN  IF left(KindReads(m)) # <<>> THEN left(KindReads(m))
      ELSE left(HeldReads(seen, m)) \o left(NetworkReads(m))

Observed(t, seen, m, read) ==
  CASE read[1] = "kind" -> Page(t, read[2])
    [] read[1] = "held" -> HeldBy(t, IdOf(Changes(seen, m), read[2]))
    [] read = <<"network", "policy">> -> t.cap
    [] read = <<"network", "segments">> -> t.segments
    [] read = <<"network", "profiles">> -> Effective(t)

-----------------------------------------------------------------------------
(* The plan. A binding's key is its subject and its role, by name: where it *)
(* is held and how far down it reaches can have drifted.                    *)
NotHeld == [resource |-> NoId, inherit |-> TRUE, scope |-> Unstated]

Binding(seen, m, changes, subject, b) ==
  LET rows == IF IdOf(changes, subject.key) = NoId THEN {}
              ELSE {h \in seen[<<"held", subject.key>>] : h.role = Entity(m, b.role).name}
      held == CHOOSE h \in rows : TRUE
      resource == IdOf(changes, b.resource)
      matches == /\ (held.resource = NoId) = (b.resource = NoKey)
                 /\ held.resource = resource
                 /\ held.inherit = b.inherit
      planned(action, old) == [subject |-> subject, binding |-> b, action |-> action, old |-> old]
  IN  IF rows = {} THEN planned("create", NotHeld)
      ELSE IF matches THEN planned("unchanged", NotHeld)
      ELSE planned("update", [resource |-> held.resource, inherit |-> held.inherit, scope |-> held.scope])

Bindings(seen, m) ==
  LET changes == Changes(seen, m)
      of(e) == [i \in DOMAIN e.roles |-> Binding(seen, m, changes, e, e.roles[i])]
      stating == Stating(m)
  IN  FlattenSeq([i \in DOMAIN stating |-> of(stating[i])])

(* The network: every action keeps the read its request is built from.      *)
Unwritten == [id |-> NoId, version |-> 0]

(* `drifted` are the rows that differ from what the manifest states.        *)
Item(item, spec, rows, drifted) ==
  LET read == CHOOSE r \in rows : TRUE
  IN  [item |-> item, spec |-> spec, read |-> rows, written |-> Unwritten,
       action |-> IF rows = {} THEN "create" ELSE IF read \in drifted THEN "update" ELSE "unchanged"]

PolicyItem(seen, m) ==
  LET rows == {seen[<<"network", "policy">>]}
  IN  Item("policy", m.policy, rows, {r \in rows : r.max # m.policy})

SegmentItem(seen, s) ==
  LET rows == {r \in seen[<<"network", "segments">>] : r.name = s.name}
  IN  Item("segment", s, rows, {r \in rows : r.vlan # s.vlan \/ Differs(s.rank, r.rank)})

ProfileItem(seen, m, p) ==
  LET s == CHOOSE x \in Range(m.segments) : x.key = p.segment
      ids == {r.id : r \in {x \in seen[<<"network", "segments">>] : x.name = s.name}}
      rows == {r \in seen[<<"network", "profiles">>] : r.segment \in ids}
  IN  Item("profile", p, rows, {r \in rows : r.timeout # p.timeout \/ Differs(p.idle, r.idle)})

Network(seen, m) ==
  LET segments == Segments[m]
      profiles == Profiles(m)
  IN  (IF m.policy = NoPolicy THEN <<>> ELSE <<PolicyItem(seen, m)>>)
        \o [i \in DOMAIN segments |-> SegmentItem(seen, segments[i])]
        \o [i \in DOMAIN profiles |-> ProfileItem(seen, m, profiles[i])]
-----------------------------------------------------------------------------
(* A job is planning, applying, or between the halves of a rebind: about to *)
(* assign, or to restore what it has unassigned. `next` is the place in its *)
(* list of work, which is made with the plan.                               *)
Idle == [at |-> "idle", manifest |-> NoKey, seen |-> <<>>, changes |-> <<>>, bindings |-> <<>>,
         network |-> <<>>, work |-> <<>>, next |-> 0]

Unreported == [outcome |-> "none", failed |-> <<>>, restore |-> "none", secrets |-> {}]

Cleared == Unreported

(* The work of a plan, in the five phases of an apply. Each item names an   *)
(* action that is not "unchanged" by the list it is in and its place there. *)
Items(list, plan, places) ==
  LET due == Kept([i \in DOMAIN plan |-> i], {i \in places : plan[i].action # "unchanged"})
  IN  [n \in DOMAIN due |-> <<list, due[n]>>]

Work(changes, bindings, network) ==
  LET accounts == {i \in DOMAIN changes : changes[i].entity.kind = "account"}
      theirs == {i \in DOMAIN bindings : bindings[i].subject.kind = "account"}
  IN  Items("entity", changes, DOMAIN changes \ accounts)
        \o Items("binding", bindings, DOMAIN bindings \ theirs)
        \o Items("entity", changes, accounts)
        \o Items("binding", bindings, theirs)
        \o Items("network", network, DOMAIN network)

Current == job.work[job.next]

Doing(list) == job.at = "applying" /\ job.next <= Len(job.work) /\ Current[1] = list

(* What comes of a request: what the server makes of it, or a failure with  *)
(* or without effect: the server's, the network's on the way there or back, *)
(* or an answer that cannot be read.                                       *)
Outcomes(after) ==
  {[ok |-> TRUE, tenant |-> t, fault |-> 0] : t \in after}
    \cup (IF after = {} THEN {[ok |-> FALSE, tenant |-> tenant, fault |-> 0]} ELSE {})
    \cup (IF faults < MaxFaults
          THEN {[ok |-> FALSE, tenant |-> t, fault |-> 1] : t \in {tenant} \cup after} ELSE {})

Sent(x) ==
  /\ tenant' = x.tenant
  /\ calm' = {}
  /\ faults' = faults + x.fault
  /\ faulted' = (faulted \/ x.fault = 1)

(* The apply stops where it is; nothing is undone.                          *)
Stop(failed, restore) ==
  /\ job' = Idle
  /\ report' = [report EXCEPT !.outcome = "failed", !.failed = failed, !.restore = restore]

-----------------------------------------------------------------------------
Init ==
  /\ tenant \in Tenants
  /\ job = Idle
  /\ report = Unreported
  /\ heldBefore = {}
  /\ calm = {}
  /\ disturbed = FALSE
  /\ faulted = FALSE
  /\ runs = 0
  /\ faults = 0
  /\ others = 0

(* axiam_mgmt_apply, and axiam_mgmt_plan within it: what the manifest alone *)
(* shows to be wrong is refused before any request.                        *)
Begin(m) ==
  /\ job.at = "idle"
  /\ runs < MaxRuns
  /\ runs' = runs + 1
  /\ heldBefore' = tenant.held
  /\ disturbed' = FALSE
  /\ faulted' = FALSE
  /\ IF Valid(m)
     THEN /\ job' = [Idle EXCEPT !.at = "planning", !.manifest = m]
          /\ report' = Cleared
     ELSE /\ job' = Idle
          /\ report' = [Cleared EXCEPT !.outcome = "refused"]
  /\ UNCHANGED <<tenant, calm, faults, others>>

(* One GET of the plan; if it fails there is no plan.                       *)
Read ==
  /\ job.at = "planning"
  /\ LET m == job.manifest
         unread == Unread(job.seen, m)
         read == Head(unread)
     IN  /\ unread # <<>>
         /\ job' = [job EXCEPT !.seen = [r \in DOMAIN @ \cup {read} |->
                                          IF r = read THEN Observed(tenant, job.seen, m, read) ELSE job.seen[r]]]
  /\ UNCHANGED <<tenant, report, heldBefore, calm, disturbed, faulted, runs, faults, others>>

ReadFails ==
  /\ job.at = "planning"
  /\ Unread(job.seen, job.manifest) # <<>>
  /\ faults < MaxFaults
  /\ faults' = faults + 1
  /\ faulted' = TRUE
  /\ Stop(<<"read">>, "none")
  /\ UNCHANGED <<tenant, heldBefore, calm, disturbed, runs, others>>

(* The plan is made and the apply begins; two accounts of a stated name     *)
(* leave it without one.                                                   *)
Decide ==
  /\ job.at = "planning"
  /\ LET m == job.manifest
         seen == job.seen
         changes == Changes(seen, m)
         bindings == Bindings(seen, m)
         network == Network(seen, m)
     IN  /\ Unread(seen, m) = <<>>
         /\ IF Ambiguous(seen, m)
            THEN Stop(<<"ambiguous">>, "none")
            ELSE /\ job' = [job EXCEPT !.at = "applying", !.changes = changes, !.bindings = bindings,
                                       !.network = network, !.work = Work(changes, bindings, network),
                                       !.next = 1]
                 /\ UNCHANGED report
  /\ UNCHANGED <<tenant, heldBefore, calm, disturbed, faulted, runs, faults, others>>

-----------------------------------------------------------------------------
(* perform: an entity is created, under the id of its parent, or updated.   *)
Created(c) ==
  Create(tenant, [id |-> NoId, kind |-> c.entity.kind, name |-> c.entity.name,
                  description |-> IF c.entity.kind = "resource" THEN Nothing ELSE Keep(c.entity.description, Nothing),
                  metadata |-> Keep(c.entity.metadata, Nothing), global |-> c.entity.global,
                  parent |-> IF c.entity.kind = "resource" THEN IdOf(job.changes, c.entity.depends) ELSE NoId])

Updated(c) ==
  IF c.entity.kind = "resource" THEN Update(tenant, c.id, Unstated, c.entity.metadata)
  ELSE Update(tenant, c.id, c.entity.description, Unstated)

(* Mutant: the secrets are handed over when the apply is through. *)
SecretsWhenThrough(c) == IF job.next = Len(job.work) THEN {c.entity.key} ELSE {}

(* record_created_secret: at once, whatever fails later.                    *)
Secrets(c) == IF c.entity.kind = "account" /\ c.action = "create" THEN {c.entity.key} ELSE {}

PerformEntity ==
  /\ Doing("entity")
  /\ LET i == Current[2]
         c == job.changes[i]
     IN  \E x \in Outcomes(IF c.action = "create" THEN Created(c) ELSE Updated(c)) :
           /\ Sent(x)
           /\ IF x.ok
              THEN /\ job' = [job EXCEPT !.next = @ + 1,
                                         !.changes[i].id = IF c.action = "create" THEN tenant.next ELSE @]
                   /\ report' = [report EXCEPT !.secrets = @ \cup Secrets(c)]
              ELSE Stop(<<"entity", c.entity.key>>, "none")
  /\ UNCHANGED <<heldBefore, disturbed, runs, others>>

(* perform_binding: the ids of the subject, the role and the resource, from *)
(* the plan; an update first takes the old binding away.                   *)
PairOf(pb) == <<IdOf(job.changes, pb.subject.key), IdOf(job.changes, pb.binding.role)>>

Resolved(pb) ==
  NoId \notin Range(PairOf(pb)) /\ (pb.binding.resource # NoKey => IdOf(job.changes, pb.binding.resource) # NoId)

(* Mutant: a binding is assigned anew, for every tenant. *)
ScopeDropped(pb) == Unstated

(* tenant_scope, of which a manifest says nothing, is carried across.       *)
Scope(pb) == pb.old.scope

Wanted(pb) ==
  [subject |-> PairOf(pb)[1], role |-> PairOf(pb)[2], resource |-> IdOf(job.changes, pb.binding.resource),
   inherit |-> pb.binding.inherit, scope |-> Scope(pb)]

Previous(pb) ==
  [subject |-> PairOf(pb)[1], role |-> PairOf(pb)[2], resource |-> pb.old.resource,
   inherit |-> pb.old.inherit, scope |-> Scope(pb)]

UnassignOld ==
  /\ Doing("binding")
  /\ LET pb == job.bindings[Current[2]] IN
       /\ pb.action = "update"
       /\ \E x \in Outcomes(IF Resolved(pb) THEN Unassign(tenant, PairOf(pb), pb.old.resource) ELSE {}) :
            /\ Sent(x)
            /\ IF x.ok THEN job' = [job EXCEPT !.at = "rebinding"] /\ UNCHANGED report
               ELSE Stop(<<"binding", PairOf(pb)>>, "none")
  /\ UNCHANGED <<heldBefore, disturbed, runs, others>>

AssignNew ==
  /\ \/ job.at = "rebinding"
     \/ Doing("binding") /\ job.bindings[Current[2]].action = "create"
  /\ LET pb == job.bindings[Current[2]] IN
       \E x \in Outcomes(IF Resolved(pb) THEN Assign(tenant, Wanted(pb)) ELSE {}) :
         /\ Sent(x)
         /\ IF x.ok THEN job' = [job EXCEPT !.at = "applying", !.next = @ + 1] /\ UNCHANGED report
            ELSE IF job.at = "rebinding" THEN job' = [job EXCEPT !.at = "restoring"] /\ UNCHANGED report
            ELSE Stop(<<"binding", PairOf(pb)>>, "none")
  /\ UNCHANGED <<heldBefore, disturbed, runs, others>>

RestoreOld ==
  /\ job.at = "restoring"
  /\ LET pb == job.bindings[Current[2]] IN
       \E x \in Outcomes(Assign(tenant, Previous(pb))) :
         /\ Sent(x)
         /\ Stop(<<"binding", PairOf(pb)>>, IF x.ok THEN "succeeded" ELSE "failed")
  /\ UNCHANGED <<heldBefore, disturbed, runs, others>>
-----------------------------------------------------------------------------
(* perform_network. A replacement is a whole object: it is built from the   *)
(* read, of which it carries what the manifest leaves unstated, and is      *)
(* conditional on the version of the read.                                 *)
Old(n) == CHOOSE r \in n.read : TRUE

(* Mutant: an unstated member is left out, and so cleared. *)
CarriedNot(stated, n, member) == Keep(stated, Nothing)

Carried(stated, n, member) == Keep(stated, Old(n)[member])

(* Mutant: of a segment this apply has written, the version that was read. *)
SegmentOfRead(p) ==
  LET s == CHOOSE x \in Range(job.network) : x.item = "segment" /\ x.spec.key = p.spec.segment
  IN  IF s.read = {} THEN s.written ELSE [id |-> Old(s).id, version |-> Old(s).version]

(* The segment a profile is written against: as this apply wrote it, if it  *)
(* did, and as the plan read it otherwise.                                 *)
SegmentOf(p) ==
  LET s == CHOOSE x \in Range(job.network) : x.item = "segment" /\ x.spec.key = p.spec.segment
  IN  IF s.written # Unwritten THEN s.written
      ELSE IF s.read = {} THEN Unwritten ELSE [id |-> Old(s).id, version |-> Old(s).version]

Written(n) ==
  CASE n.item = "policy" -> ReplacePolicy(tenant, n.spec, Old(n).version)
    [] n.item = "segment" /\ n.action = "create" -> CreateSegment(tenant, n.spec.name, n.spec.vlan, n.spec.rank)
    [] n.item = "segment" /\ n.action = "update" ->
         ReplaceSegment(tenant, Old(n).id, Old(n).version, n.spec.vlan, Carried(n.spec.rank, n, "rank"))
    [] n.item = "profile" /\ n.action = "create" ->
         CreateProfile(tenant, SegmentOf(n).id, SegmentOf(n).version, n.spec.timeout, n.spec.idle)
    [] n.item = "profile" /\ n.action = "update" ->
         ReplaceProfile(tenant, SegmentOf(n).id, Old(n).version, SegmentOf(n).version, n.spec.timeout,
                        Carried(n.spec.idle, n, "idle"))

(* What the answer to a segment's write says of it.                         *)
Answered(n, t) ==
  IF n.item # "segment" THEN Unwritten
  ELSE LET s == CHOOSE x \in t.segments : x.name = n.spec.name IN [id |-> s.id, version |-> s.version]

PerformNetwork ==
  /\ Doing("network")
  /\ LET i == Current[2]
         n == job.network[i]
     IN  \E x \in Outcomes(Written(n)) :
           /\ Sent(x)
           /\ IF x.ok
              THEN /\ job' = [job EXCEPT !.next = @ + 1, !.network[i].written = Answered(n, x.tenant)]
                   /\ UNCHANGED report
              ELSE Stop(<<"network", n.item>>, "none")
  /\ UNCHANGED <<heldBefore, disturbed, runs, others>>

Finish ==
  /\ job.at = "applying"
  /\ job.next > Len(job.work)
  /\ job' = Idle
  /\ report' = [report EXCEPT !.outcome = "applied"]
  /\ calm' = IF disturbed THEN {} ELSE {job.manifest}
  /\ UNCHANGED <<tenant, heldBefore, disturbed, faulted, runs, faults, others>>

-----------------------------------------------------------------------------
(* One write of another administrator: a leaf is deleted, something is       *)
(* created under a name of the manifest, a role is taken away or given with *)
(* a scope of their own, a member a manifest may not state is set.          *)
Foreign ==
  {Delete(tenant, o) : o \in {x \in tenant.objects : ~ \E y \in tenant.objects : y.parent = x.id}}
    \cup (UNION {Create(tenant, [id |-> NoId, kind |-> e.kind, name |-> e.name, description |-> Theirs,
                                 metadata |-> Nothing, global |-> FALSE, parent |-> NoId])
                   : e \in UNION {Range(m.entities) : m \in Manifests}})
    \cup (UNION {Unassign(tenant, Pair(h), h.resource) : h \in tenant.held})
    \cup (UNION {Assign(tenant, [h EXCEPT !.scope = Theirs]) : h \in heldBefore})
    \cup (UNION {ReplaceSegment(tenant, s.id, s.version, s.vlan, Theirs) : s \in tenant.segments})

OthersWrite ==
  /\ others < MaxOthers
  /\ others' = others + 1
  /\ tenant' \in Foreign
  /\ heldBefore' =
       LET of(h, held) == {b \in held : Pair(b) = Pair(h)}
       IN  {h \in heldBefore : of(h, tenant.held) = of(h, tenant'.held)}
  /\ calm' = {}
  /\ disturbed' = TRUE
  /\ UNCHANGED <<job, report, faulted, runs, faults>>

Next ==
  \/ \E m \in Manifests : Begin(m)
  \/ Read \/ ReadFails \/ Decide
  \/ PerformEntity \/ UnassignOld \/ AssignNew \/ RestoreOld \/ PerformNetwork \/ Finish
  \/ OthersWrite

Spec == Init /\ [][Next]_vars

-----------------------------------------------------------------------------
TypeOK ==
  /\ job.at \in {"idle", "planning", "applying", "rebinding", "restoring"}
  /\ job.at \in {"applying", "rebinding", "restoring"} => job.next \in 1..(Len(job.work) + 1)
  /\ report.outcome \in {"none", "refused", "failed", "applied"}
  /\ report.outcome = "failed" <=> report.failed # <<>>
  /\ report.restore # "none" => report.failed # <<>> /\ report.failed[1] = "binding"

(* Applied and left alone, a manifest has nothing left to do: the plan that *)
(* follows is empty (CONTRACT.md 27.6, rule 6).                            *)
Converges == job.at = "applying" /\ job.manifest \in calm => job.work = <<>>

(* Whether the tenant has what an entity, a binding or the network states.  *)
(* A resource found under a name is taken wherever it lies, so one that     *)
(* others have made may lie elsewhere.                                     *)
Named(kind, name) == {o \in tenant.objects : o.kind = kind /\ o.name = name}

Names(m, key, id) ==
  IF key = NoKey THEN id = NoId
  ELSE \E o \in Named(Entity(m, key).kind, Entity(m, key).name) : o.id = id

HasEntity(m, e) ==
  \E o \in Named(e.kind, e.name) :
    /\ o.metadata = Keep(e.metadata, o.metadata)
    /\ e.kind # "resource" => o.description = Keep(e.description, o.description)
    /\ e.kind = "resource" => o.description = Theirs \/ Names(m, e.depends, o.parent)

HasBinding(m, e, b) ==
  \E h \in tenant.held :
    Names(m, e.key, h.subject) /\ Names(m, b.role, h.role) /\ Names(m, b.resource, h.resource) /\ h.inherit = b.inherit

HasNetwork(m) ==
  /\ m.policy # NoPolicy => tenant.cap.max = m.policy
  /\ \A s \in Range(m.segments) : \E r \in tenant.segments :
       /\ r.name = s.name /\ r.vlan = s.vlan /\ r.rank = Keep(s.rank, r.rank)
       /\ \A p \in Range(m.profiles) : p.segment = s.key =>
            \E q \in Effective(tenant) : q.segment = r.id /\ q.timeout = p.timeout /\ q.idle = Keep(p.idle, q.idle)

(* An apply that reports success leaves the tenant as the manifest states   *)
(* it: nested as it is nested, held where it is held, written as written.   *)
AppliedIsStated ==
  \A m \in calm :
    /\ \A e \in Range(m.entities) : HasEntity(m, e) /\ \A b \in Range(e.roles) : HasBinding(m, e, b)
    /\ HasNetwork(m)

(* A manifest that passes the checks made before any request is one that    *)
(* can be carried out, from whatever an earlier apply has left: with nobody *)
(* else writing and no request failing for reasons of its own, no step of   *)
(* an apply meets a conflict of the apply's own making. This is said of     *)
(* manifests like the run's, in which no two entities of a kind share a     *)
(* name, over tenants whose lists a scan reads to their end: the checks ask *)
(* for neither, and without them the second of two equal names, or a row    *)
(* beyond SCAN_LIMIT, is created again and refused.                         *)
ConflictsAreNotItsOwn ==
  report.outcome = "failed" /\ ~ disturbed /\ ~ faulted => report.failed = <<"ambiguous">>

(* An apply moves a binding and loses none: a subject that held a role      *)
(* before it holds the role after, for the tenants it held it for, unless   *)
(* the report names the rebind that failed; and a restore that is reported  *)
(* to have succeeded has put back the very binding.                         *)
BindingsAreOnlyMoved ==
  /\ TypeOK
  /\ \A h \in heldBefore :
       /\ \A b \in tenant.held : Pair(b) = Pair(h) => b.scope = h.scope
       /\ job.at = "idle" =>
            /\ (\E b \in tenant.held : Pair(b) = Pair(h)) \/ report.failed = <<"binding", Pair(h)>>
            /\ report.restore = "succeeded" /\ report.failed = <<"binding", Pair(h)>> => h \in tenant.held

(* The secret of every account that an apply was told it had created is in  *)
(* its report, however it ended.                                           *)
SecretsAreReported ==
  [][job'.at = "idle" => {c.entity.key : c \in {x \in Range(job.changes) :
        x.entity.kind = "account" /\ x.action = "create" /\ x.id # NoId}} \subseteq report'.secrets]_vars

(* Of what it finds, an apply changes only what the manifest states, and    *)
(* deletes nothing: the rest stands, what another administrator has written *)
(* between its read and its own write included.                            *)
SilenceChangesNothing ==
  [][UNCHANGED others =>
       /\ \A o \in tenant.objects : \E p \in tenant'.objects :
            /\ p.id = o.id
            /\ \/ p = o
               \/ \E e \in Range(job.manifest.entities) :
                    /\ e.kind = o.kind /\ e.name = o.name
                    /\ p = [o EXCEPT !.description = p.description, !.metadata = p.metadata]
                    /\ p.description \in {o.description, Keep(e.description, o.description)}
                    /\ p.metadata \in {o.metadata, Keep(e.metadata, o.metadata)}
       /\ \A s \in tenant.segments : \E r \in tenant'.segments :
            /\ r.id = s.id
            /\ \/ r = s
               \/ \E x \in Range(job.manifest.segments) : x.name = s.name /\ r.rank = Keep(x.rank, s.rank)
       /\ \A p \in tenant.profiles : \E q \in tenant'.profiles :
            /\ q.segment = p.segment
            /\ \/ q = p
               \/ \E x \in Range(job.manifest.profiles) : q.idle = Keep(x.idle, p.idle)]_vars

=============================================================================
