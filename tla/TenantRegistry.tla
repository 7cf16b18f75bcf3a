--------------------------- MODULE TenantRegistry ---------------------------
(***************************************************************************)
(* Tenants, workspaces and memberships (TenantRegistry), requests that are *)
(* authorized against them (assurance/tenant_authorization.py), and the    *)
(* cases they keep (TenantCaseStore, assurance/tenant_store.py).           *)
(*                                                                         *)
(* Each operation is one SQLite transaction.  A request holds the          *)
(* TenantContext it was given until it ends, and nothing it does looks at  *)
(* the registry again.  The callers are external: they administer the      *)
(* registry and send requests in any order.  What is refused, for its      *)
(* role, a missing parent row or a key that exists, changes nothing.       *)
(***************************************************************************)
EXTENDS Tenancy, Naturals, Sequences

CONSTANTS
  Subjects,
  Requests,   \* bound: requests in flight at once
  NoContext,  \* the request is not authorized, or over
  MaxCases    \* bound: rows of the case table

TenantContext == [scope : Scopes, subject : Subjects, role : TenantRoles]

ASSUME ContextAssumption == NoContext \notin TenantContext
ASSUME CaseAssumption == MaxCases \in Nat

VARIABLES
  tenants,      \* tenant |-> absent, active or suspended
  workspaces,   \* scope |-> absent, active or suspended
  memberships,  \* scope |-> subject |-> role, or absent
  context,      \* request |-> its TenantContext
  cases,        \* the case table: id |-> scope; ids are one sequence for all
  seen,         \* request |-> ids list and get have answered it with
  outlived      \* history: requests whose scope was suspended under them

registryVars == <<tenants, workspaces, memberships, context, cases, seen, outlived>>
registry == <<tenants, workspaces, memberships>>
inFlight == <<context, cases, seen, outlived>>

LifecycleStatus == {"active", "suspended"}

RegistryTypeOK ==
  /\ tenants \in [Tenants -> LifecycleStatus \union {"absent"}]
  /\ workspaces \in [Scopes -> LifecycleStatus \union {"absent"}]
  /\ memberships \in [Scopes -> [Subjects -> TenantRoles \union {"absent"}]]
  /\ context \in [Requests -> TenantContext \union {NoContext}]
  /\ cases \in Seq(Scopes)
  /\ seen \in [Requests -> SUBSET (1..Len(cases))]
  /\ outlived \in SUBSET Requests

RegistryInit ==
  /\ tenants = [t \in Tenants |-> "absent"]
  /\ workspaces = [s \in Scopes |-> "absent"]
  /\ memberships = [s \in Scopes |-> [u \in Subjects |-> "absent"]]
  /\ context = [r \in Requests |-> NoContext]
  /\ cases = <<>>
  /\ seen = [r \in Requests |-> {}]
  /\ outlived = {}

-----------------------------------------------------------------------------
(* Administration.                                                          *)

CreateTenant(t) ==
  /\ tenants[t] = "absent"
  /\ tenants' = [tenants EXCEPT ![t] = "active"]
  /\ UNCHANGED <<workspaces, memberships, inFlight>>

\* The foreign key asks for the tenant's row, whatever its status.
CreateWorkspace(s) ==
  /\ tenants[s[1]] # "absent" /\ workspaces[s] = "absent"
  /\ workspaces' = [workspaces EXCEPT ![s] = "active"]
  /\ UNCHANGED <<tenants, memberships, inFlight>>

\* A subject has one role in a scope, for good.
AddMembership(s, u, role) ==
  /\ workspaces[s] # "absent" /\ memberships[s][u] = "absent"
  /\ memberships' = [memberships EXCEPT ![s][u] = role]
  /\ UNCHANGED <<tenants, workspaces, inFlight>>

\* The requests that hold a context of one of these scopes.
HoldersIn(scopes) ==
  { r \in Requests : context[r] # NoContext /\ context[r].scope \in scopes }

SetTenantStatus(t, status) ==
  /\ tenants[t] # "absent"
  /\ tenants' = [tenants EXCEPT ![t] = status]
  /\ outlived' = IF status = "suspended"
                 THEN outlived \union HoldersIn({t} \X Workspaces) ELSE outlived
  /\ UNCHANGED <<workspaces, memberships, context, cases, seen>>

SetWorkspaceStatus(s, status) ==
  /\ workspaces[s] # "absent"
  /\ workspaces' = [workspaces EXCEPT ![s] = status]
  /\ outlived' = IF status = "suspended" THEN outlived \union HoldersIn({s}) ELSE outlived
  /\ UNCHANGED <<tenants, memberships, context, cases, seen>>

-----------------------------------------------------------------------------
(* Requests.                                                                *)

Active(s) == tenants[s[1]] = "active" /\ workspaces[s] = "active"

\* Mutant: the tenants table is not joined.
MutContextFor(u, s) ==
  IF memberships[s][u] # "absent" /\ workspaces[s] = "active"
  THEN [scope |-> s, subject |-> u, role |-> memberships[s][u]] ELSE NoContext

\* The membership, joined with an active tenant and an active workspace.
ContextFor(u, s) ==
  IF memberships[s][u] # "absent" /\ Active(s)
  THEN [scope |-> s, subject |-> u, role |-> memberships[s][u]] ELSE NoContext

\* The claims must name the membership's own role.
Authorize(r, u, s, role) ==
  LET membership == ContextFor(u, s)
  IN  /\ context[r] = NoContext
      /\ membership # NoContext /\ membership.role = role
      /\ context' = [context EXCEPT ![r] = membership]
      /\ UNCHANGED <<registry, cases, seen, outlived>>

EndRequest(r) ==
  /\ context[r] # NoContext
  /\ context' = [context EXCEPT ![r] = NoContext]
  /\ seen' = [seen EXCEPT ![r] = {}]
  /\ outlived' = outlived \ {r}
  /\ UNCHANGED <<registry, cases>>

CreateCase(r) ==
  /\ context[r] # NoContext /\ context[r].role \in CaseWriters
  /\ Len(cases) < MaxCases
  /\ cases' = Append(cases, context[r].scope)
  /\ UNCHANGED <<registry, context, seen, outlived>>

ListCases(r) ==
  /\ context[r] # NoContext
  /\ seen' = [seen EXCEPT ![r] =
                @ \union { i \in DOMAIN cases : cases[i] = context[r].scope }]
  /\ UNCHANGED <<registry, context, cases, outlived>>

\* Mutant: the query names the workspace and not the tenant.
MutGetCase(r, i) ==
  /\ context[r] # NoContext
  /\ i \in DOMAIN cases /\ cases[i][2] = context[r].scope[2]
  /\ seen' = [seen EXCEPT ![r] = @ \union {i}]
  /\ UNCHANGED <<registry, context, cases, outlived>>

\* Any id may be asked for: they are one sequence over all tenants.
GetCase(r, i) ==
  /\ context[r] # NoContext
  /\ i \in DOMAIN cases /\ cases[i] = context[r].scope
  /\ seen' = [seen EXCEPT ![r] = @ \union {i}]
  /\ UNCHANGED <<registry, context, cases, outlived>>

RegistryNext ==
  \/ \E t \in Tenants : CreateTenant(t)
  \/ \E s \in Scopes : CreateWorkspace(s)
  \/ \E s \in Scopes, u \in Subjects, role \in TenantRoles : AddMembership(s, u, role)
  \/ \E t \in Tenants, status \in LifecycleStatus : SetTenantStatus(t, status)
  \/ \E s \in Scopes, status \in LifecycleStatus : SetWorkspaceStatus(s, status)
  \/ \E r \in Requests :
       \/ \E s \in Scopes, u \in Subjects, role \in TenantRoles : Authorize(r, u, s, role)
       \/ EndRequest(r)
       \/ CreateCase(r)
       \/ ListCases(r)
       \/ \E i \in 1..MaxCases : GetCase(r, i)

RegistrySpec == RegistryInit /\ [][RegistryNext]_registryVars

-----------------------------------------------------------------------------
(* A suspension closes a scope to everyone who is not inside already: a     *)
(* context of a suspended tenant or workspace was given before, whichever   *)
(* of the two was suspended or set active again since.  It does not close   *)
(* it to those who are: nothing takes a context back.                       *)
SuspensionAdmitsNoOne ==
  \A r \in Requests :
    context[r] # NoContext /\ ~Active(context[r].scope) => r \in outlived

(* A request sees cases of its own scope only, by list or by id; and every  *)
(* case there is belongs to a scope in which somebody may write, however    *)
(* old the context was it was created with.                                 *)
CasesStayInScope ==
  /\ \A r \in Requests : \A i \in seen[r] :
       context[r] # NoContext /\ cases[i] = context[r].scope
  /\ \A i \in DOMAIN cases :
       \E u \in Subjects : memberships[cases[i]][u] \in CaseWriters
=============================================================================
