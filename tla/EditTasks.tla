------------------------------ MODULE EditTasks ------------------------------
(***************************************************************************)
(* What an administrator can edit through the management surface: for every*)
(* operation of src/src/management_ops.c that carries a body, and every    *)
(* member of that body, what the tables of the operations and of the types *)
(* say of it. ManagementEdit takes the steps.                              *)
(***************************************************************************)
EXTENDS ManagementSurface

-----------------------------------------------------------------------------
(* The server's side, from management-registry.json and openapi.json.      *)

(* The operations whose body replaces the document: what is left out is    *)
(* gone. Any other update is sparse.                                       *)
Replacing ==
  {"settings_set_org", "email_config_set_org", "webauthn_policy_set",
   "ca_certificates_set_mtls_trust_anchor", "directory_set", "saml_update_service_provider",
   "ssf_update_stream", "scim_targets_update", "network_replace_segment",
   "network_replace_profile", "network_replace_policy"}

(* The member that makes a body conditional on the version it was built    *)
(* from.                                                                   *)
Conditions == {"expected_updated_at", "version"}

(* Updates whose document is read in another shape, which carries nothing  *)
(* over: the settings and a segment's profile.                             *)
OtherShape == {"settings_set_org", "settings_set_effective", "network_replace_profile"}

(* The readings of the document an update writes. *)
ReadsOf(o) == {r \in DOMAIN Ops : /\ Ops[r].method = "GET"
                                  /\ Ops[r].template = Ops[o].template
                                  /\ Ops[r].result.kind = "one"}
Paired == {o \in DOMAIN Ops \ OtherShape : Ops[o].method \in {"PUT", "PATCH"} /\ ReadsOf(o) # {}}
ReadModel(o) == Ops[CHOOSE r \in ReadsOf(o) : TRUE].result.model

-----------------------------------------------------------------------------
(* The leaves worth a behaviour: every enum, union and tagged name, and of *)
(* the others one for each pair of classes, which the code treats alike.   *)

LeavesOf(o) ==
  LET own == {p \in Leaves(Ops[o].body) : p[1] \notin Conditions}
      both == own \cap Leaves(ReadModel(o))
  IN CASE o \notin Paired -> own
       [] o \in Replacing -> both
       [] OTHER -> {p \in both : Len(p) = 1}

(* A task: the operation and the leaf, its classes in the body and in the  *)
(* reading, what the body is to the document, the member it is conditional *)
(* by, and which of the operation's refusals concern the leaf.             *)
TaskOf(o, p) ==
  LET op == Ops[o]  paired == o \in Paired
  IN [op |-> o, leaf |-> p, body |-> ClassAt(op.body, p),
      read |-> ClassAt(IF paired THEN ReadModel(o) ELSE op.body, p),
      way |-> IF ~paired THEN "composed" ELSE IF o \in Replacing THEN "replacing" ELSE "sparse",
      condition |-> IF paired THEN DOMAIN Models[op.body] \cap Conditions ELSE {},
      checked |-> op.checked /\ ChecksAt(op.body, p),
      required |-> Len(p) = 1 /\ p[1] \in op.required,
      knownOnly |-> p[1] \in op.knownOnly,
      oneOf |-> p[1] \in op.oneOf]

Open == Closed \cup {"union", "arm"}
Alike(t) == <<t.read.kind, t.body.kind, t.required>>
AllTasksOf(o) == {TaskOf(o, p) : p \in LeavesOf(o)}
TasksOf(o) ==
  LET all == AllTasksOf(o)
      kinds == {Alike(t) : t \in all}
  IN {t \in all : t.body.kind \in Open} \cup {CHOOSE t \in all : Alike(t) = k : k \in kinds}

WithBody == {o \in DOMAIN Ops : Ops[o].body # NoBody}
SurfaceTasks == UNION {TasksOf(o) : o \in WithBody}
=============================================================================
