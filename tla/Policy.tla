------------------------------- MODULE Policy -------------------------------
(***************************************************************************)
(* The permission policy of src/src/reconcile/auth/policy.py: what a       *)
(* membership of an organization entitles its user to.  Every service      *)
(* module asks this one.                                                   *)
(***************************************************************************)
EXTENDS Naturals

Roles == {"MEMBER", "AP_MANAGER", "ORG_ADMIN"}

MemberPermissions ==
    {"RUN_ANALYSIS", "VIEW_RUN_HISTORY", "VIEW_FINDING_WORKFLOW", "COMMENT_FINDING",
     "TRANSITION_ASSIGNED_FINDING"}
ApManagerPermissions ==
    MemberPermissions \cup
    {"UPDATE_RUN_METADATA", "ARCHIVE_RUN", "TRANSITION_ANY_FINDING", "MANAGE_FINDING",
     "VIEW_MANAGER_DASHBOARD", "VIEW_INVENTORY", "VIEW_INTELLIGENCE"}
OrgAdminPermissions ==
    ApManagerPermissions \cup
    {"VIEW_ORG_ADMIN", "MANAGE_ORG_SETTINGS", "MANAGE_ORG_MEMBERS",
     "MANAGE_ORG_INVITATIONS", "VIEW_ORG_AUDIT", "MANAGE_INVENTORY_MASTER",
     "POST_INVENTORY"}
Permission == OrgAdminPermissions

RolePermissions ==
    [role \in Roles |->
        CASE role = "MEMBER" -> MemberPermissions
          [] role = "AP_MANAGER" -> ApManagerPermissions
          [] role = "ORG_ADMIN" -> OrgAdminPermissions]

(* A row of organization_memberships; no row is status ABSENT.             *)
Membership == [status: {"ABSENT", "ACTIVE", "ARCHIVED"}, role: Roles, version: Nat]
NoMembership == [status |-> "ABSENT", role |-> "MEMBER", version |-> 0]
NewMembership(role) == [status |-> "ACTIVE", role |-> role, version |-> 1]

(* Principal.require, and the second look every service takes inside its   *)
(* own transaction: an ACTIVE membership whose role has the permission.    *)
Permits(row, permission) ==
    row.status = "ACTIVE" /\ permission \in RolePermissions[row.role]
=============================================================================
