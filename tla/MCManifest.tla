------------------------------ MODULE MCManifest ------------------------------
(***************************************************************************)
(* Two manifests over three tenants. One nests a resource under another     *)
(* whose key sorts after its own, and binds a role to a group and to an     *)
(* account, at the nested resource and everywhere; the other states the     *)
(* network. The tenants: an empty one, one the first manifest has drifted   *)
(* from, and one with a network.                                           *)
(***************************************************************************)
EXTENDS Manifest

CONSTANT DescribesResources  \* whether a manifest states a resource's description

Entry(kind, key, name) ==
  [kind |-> kind, key |-> key, name |-> name, description |-> Unstated, metadata |-> Unstated,
   global |-> FALSE, depends |-> NoKey, roles |-> <<>>]

Holds(role, resource, inherit) == [role |-> role, resource |-> resource, inherit |-> inherit]

NoNetwork == [policy |-> NoPolicy, segments |-> <<>>, profiles |-> <<>>]
States(entities, network) ==
  [entities |-> entities, policy |-> network.policy, segments |-> network.segments, profiles |-> network.profiles]

Organisation ==
  States(<<[Entry("account", 6, "robot") EXCEPT !.roles = <<Holds(4, NoKey, TRUE)>>],
           [Entry("group", 5, "staff") EXCEPT !.roles = <<Holds(4, 1, FALSE)>>],
           [Entry("role", 4, "reader") EXCEPT !.description = "reads"],
           [Entry("resource", 1, "shelf") EXCEPT !.depends = 2, !.metadata = "tagged"],
           [Entry("resource", 2, "house") EXCEPT
              !.description = IF DescribesResources THEN "ours" ELSE Unstated]>>,
         NoNetwork)

Site ==
  States(<<>>, [policy |-> 2,
                segments |-> <<[key |-> 2, name |-> "guests", vlan |-> 20, rank |-> "first"],
                               [key |-> 1, name |-> "staff", vlan |-> 10, rank |-> Unstated]>>,
                profiles |-> <<[segment |-> 1, timeout |-> 2, idle |-> Unstated],
                               [segment |-> 2, timeout |-> 1, idle |-> "short"]>>])

(* Refused before any request: a cycle, and a role bound twice.             *)
Cyclic ==
  States(<<[Entry("resource", 1, "a") EXCEPT !.depends = 2],
           [Entry("resource", 2, "b") EXCEPT !.depends = 1]>>, NoNetwork)

Twice ==
  States(<<Entry("role", 1, "reader"),
           [Entry("group", 2, "staff") EXCEPT !.roles = <<Holds(1, NoKey, TRUE), Holds(1, NoKey, TRUE)>>]>>,
         NoNetwork)

ManifestsApplied == {Organisation, Site, Cyclic, Twice}

Object(id, kind, name) ==
  [id |-> id, kind |-> kind, name |-> name, description |-> Nothing, metadata |-> Nothing,
   global |-> FALSE, parent |-> NoId]

Bare == [objects |-> {}, held |-> {}, cap |-> [max |-> 1, version |-> 0], segments |-> {},
         profiles |-> {}, next |-> 1]

Drift ==
  [Bare EXCEPT
    !.objects = {Object(1, "role", "reader"), Object(2, "group", "staff"), Object(3, "account", "robot"),
                 Object(4, "resource", "house")},
    !.held = {[subject |-> 2, role |-> 1, resource |-> NoId, inherit |-> TRUE, scope |-> "north"],
              [subject |-> 3, role |-> 1, resource |-> 4, inherit |-> TRUE, scope |-> "south"]},
    !.next = 5]

Cabled ==
  [Bare EXCEPT
    !.segments = {[id |-> 1, name |-> "staff", vlan |-> 11, rank |-> "second", version |-> 3]},
    !.profiles = {[segment |-> 1, timeout |-> 1, idle |-> "long", version |-> 1]},
    !.next = 2]

(* Every name and value of them.                                            *)
Words ==
  {Nothing, Unstated, Theirs, "robot", "staff", "reader", "shelf", "house", "guests", "a", "b",
   "reads", "tagged", "ours", "first", "second", "short", "long", "north", "south"}

TenantsFound == {Bare, Drift, Cabled}
=============================================================================
