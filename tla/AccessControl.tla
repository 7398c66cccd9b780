---------------------------- MODULE AccessControl ----------------------------
(***************************************************************************)
(* Who may invoke which operation (app/rbac.py): roles, the permissions    *)
(* each carries, and the permission each route of the operations API       *)
(* requires.  The routes that register a source, check its policy and      *)
(* record a delete request require none, nor do scripts and workers.       *)
(***************************************************************************)
Permission == {"source_register", "policy_check", "crawl_job_create",
               "pattern_view_feature", "pattern_approve", "pattern_block",
               "delete_request", "delete_apply", "recheck", "audit_view",
               "snapshot_access"}

RolePermissions ==
  [admin |-> Permission,
   source_operator |-> {"source_register", "policy_check", "crawl_job_create",
                        "delete_request", "recheck"},
   license_reviewer |-> {"policy_check", "pattern_view_feature"},
   privacy_reviewer |-> {"pattern_view_feature", "delete_request", "delete_apply"},
   pattern_reviewer |-> {"pattern_view_feature", "pattern_approve", "pattern_block"},
   auditor |-> {"audit_view", "pattern_view_feature"}]

\* The tokens of the X-Upe-Roles header that name a role; others are ignored.
ParseRoles(tokens) == tokens \cap DOMAIN RolePermissions

HasPermission(roles, permission) ==
  \E role \in roles : permission \in RolePermissions[role]

\* What the dependencies of the operations routes require.
RequiredPermission ==
  [crawl |-> "crawl_job_create", approve |-> "pattern_approve",
   block |-> "pattern_block", apply_delete |-> "delete_apply",
   recheck_hold |-> "recheck", recheck_removed |-> "recheck"]

\* require: a request whose roles lack the permission is answered 403.
Require(tokens, op) ==
  op \in DOMAIN RequiredPermission
    => HasPermission(ParseRoles(tokens), RequiredPermission[op])

\* The operations of a deployment that somebody may invoke: headers is the
\* set of role headers its users send.
Permitted(headers, ops) ==
  {op \in ops : \E tokens \in headers : Require(tokens, op)}
==============================================================================
