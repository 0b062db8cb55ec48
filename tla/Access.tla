------------------------------- MODULE Access -------------------------------
(***************************************************************************)
(* Who may do what: the rules of policies/tax-stamps.policy.json, evaluated *)
(* by api/pbac.py, and the permissions the routes ask for (require_policy). *)
(* Every rule leaves tenant and clearance open ("*"), so an identity is the *)
(* set of its roles.                                                        *)
(***************************************************************************)
EXTENDS Naturals

Star == "*"
Rule(roles, resource, action, classes) ==
  [roles |-> roles, resource |-> resource, action |-> action, classes |-> classes]

Policies == {
  Rule({"excise-officer", "customs-officer"}, "assessment", "create", {"INTERNAL", "CONFIDENTIAL"}),
  Rule({"excise-approver"}, "assessment", "approve", {"INTERNAL", "CONFIDENTIAL"}),
  Rule({"excise-approver", "finance-officer"}, "payment", "create", {"FIDUCIARY_SEGREGATED", "CONFIDENTIAL"}),
  Rule({"finance-rail-callback"}, "payment", "settle", {"FIDUCIARY_SEGREGATED"}),
  Rule({"excise-officer"}, "batch", "issue", {"CONFIDENTIAL"}),
  Rule({"quality-inspector"}, "batch", "inspect", {"CONFIDENTIAL"}),
  Rule({"excise-officer", "excise-approver"}, "batch", "activate", {"CONFIDENTIAL"}),
  Rule({"excise-approver"}, "stamp", "void", {"CONFIDENTIAL"}),
  Rule({"excise-officer", "excise-approver", "quality-inspector", "finance-officer", "auditor"},
       Star, "read", {Star}),
  Rule({"auditor"}, "ops", "read", {Star})}

Roles == UNION {r.roles : r \in Policies}

Permission(resource, action, class) == [resource |-> resource, action |-> action, class |-> class]

\* The permission each route asks for.
Asked == [
  create_declaration |-> Permission("assessment", "create", "INTERNAL"),
  create_assessment |-> Permission("assessment", "create", "CONFIDENTIAL"),
  get_assessment |-> Permission("assessment", "read", "CONFIDENTIAL"),
  decide |-> Permission("assessment", "approve", "CONFIDENTIAL"),
  create_intent |-> Permission("payment", "create", "FIDUCIARY_SEGREGATED"),
  record_receipt |-> Permission("payment", "settle", "FIDUCIARY_SEGREGATED"),
  create_batch |-> Permission("batch", "issue", "CONFIDENTIAL"),
  issue_batch |-> Permission("batch", "issue", "CONFIDENTIAL"),
  finalize_batch |-> Permission("batch", "issue", "CONFIDENTIAL"),
  inspect_batch |-> Permission("batch", "inspect", "CONFIDENTIAL"),
  activate_batch |-> Permission("batch", "activate", "CONFIDENTIAL"),
  get_stamp |-> Permission("stamp", "read", "CONFIDENTIAL"),
  void_stamp |-> Permission("stamp", "void", "CONFIDENTIAL")]

Covers_AnyAction(rule, permission) ==
  rule.resource \in {Star, permission.resource} /\ (Star \in rule.classes \/ permission.class \in rule.classes)
Covers(rule, permission) ==
  /\ rule.resource \in {Star, permission.resource}
  /\ rule.action \in {Star, permission.action}
  /\ Star \in rule.classes \/ permission.class \in rule.classes

Matches(rule, roles, permission) ==
  (Star \in rule.roles \/ rule.roles \cap roles # {}) /\ Covers(rule, permission)

\* Deny by default.
Allow(roles, permission) == \E rule \in Policies : Matches(rule, roles, permission)

MayCall(roles) == {route \in DOMAIN Asked : Allow(roles, Asked[route])}

=============================================================================
