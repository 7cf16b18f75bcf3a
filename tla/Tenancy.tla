------------------------------ MODULE Tenancy ------------------------------
(***************************************************************************)
(* The scope all tenant data is kept under, and the roles of a verified    *)
(* context (assurance/tenancy.py).  A scope has a tenant and a workspace;  *)
(* workspaces of two tenants may have one name.                            *)
(***************************************************************************)
CONSTANTS
  Tenants,
  Workspaces   \* names

Scopes == Tenants \X Workspaces

TenantRoles == {"tenant_admin", "assurance_reviewer", "developer", "viewer", "service"}

\* What require_role asks for before a case is created.
CaseWriters == {"tenant_admin", "assurance_reviewer", "developer"}
=============================================================================
