------------------------------ MODULE MCOrgSync ------------------------------
(***************************************************************************)
(* Two runs, each with one of four files: two that differ in the servers'  *)
(* key alone, one of an instance with LdapAuth that names no server and no *)
(* list, and one that is empty.                                            *)
(***************************************************************************)
EXTENDS OrgSync, TLC

CONSTANTS role, org, tag, member, local, partner, tlp, group, key1, key2

MCItem == {role, org, tag, member, local, partner, tlp, group}
MCKind ==
  [i \in {member, local} |-> "user"] @@ (role :> "role") @@ (org :> "org") @@ (tag :> "tag")
    @@ (partner :> "server") @@ (tlp :> "list") @@ (group :> "group")
MCNeeds ==
  (member :> {role, org}) @@ (partner :> {org, tag}) @@ (group :> {org})
    @@ [i \in MCItem |-> {}]

Common == MCItem \ {local}
MCFiles ==
  {[items |-> Common, key |-> k, disables |-> {"user", "list", "server"}] : k \in {key1, key2}}
    \union {[items |-> {local, org}, key |-> None, disables |-> {"list", "server"}],
            [items |-> {}, key |-> None, disables |-> {"user", "server"}]}

Symmetry == Permutations(Run) \union Permutations({key1, key2})
=============================================================================
