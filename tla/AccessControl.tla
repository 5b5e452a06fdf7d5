--------------------------- MODULE AccessControl ---------------------------
(***************************************************************************)
(* The access decision of the transport and CRUD gates (src/src/acl.rs).   *)
(* An ACL maps principals, groups and the wildcard to Allow or Deny; one   *)
(* capability is distinguished: "allow" is an Allow that grants it, "other"*)
(* one that does not.  Only operators, no state.                           *)
(***************************************************************************)
CONSTANTS
    Did,            \* principals
    Group           \* names of groups; "owners" is one of them

ASSUME OwnersAssumption == "owners" \in Group

Wildcard == "*"
Principal == Did \cup Group \cup {Wildcard}

(* An AclMap; "none" for a principal without an entry.                     *)
AclMap == [Principal -> {"allow", "other", "deny", "none"}]

EmptyAcl == [p \in Principal |-> "none"]    \* denies everyone

is_owner(owners, caller) == caller \in owners

(* check_full: an explicit deny of the caller or of everyone wins; then    *)
(* the caller's own entry, or the wildcard's for a caller that has none:   *)
(* an own entry may restrict below the wildcard; then groups, deny first.  *)
(* `members' gives the members a group resolves to.                        *)
check_full(acl, caller, members) ==
    /\ acl[caller] # "deny"
    /\ acl[Wildcard] # "deny"
    /\ \/ acl[caller] = "allow"
       \/ acl[caller] = "none" /\ acl[Wildcard] = "allow"
       \/ /\ \A g \in Group : acl[g] = "deny" => caller \notin members[g]
          /\ \E g \in Group : acl[g] = "allow" /\ caller \in members[g]

(* grant_owners_in_acl: every owner gets Allow ["*"], whatever the map     *)
(* said of it before.                                                      *)
grant_owners_in_acl(acl, owners) ==
    [p \in Principal |-> IF p \in owners THEN "allow" ELSE acl[p]]

=============================================================================
