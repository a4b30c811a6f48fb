------------------------------- MODULE Requests -------------------------------
(***************************************************************************)
(* A request that writes: the guards in their order, the handler, and the  *)
(* row of the audit log AuditInterceptor writes from a snapshot before and *)
(* one after.                                                              *)
(*                                                                         *)
(* The entity a request is about has a version per commit.  The grants the *)
(* guards read may change between requests, which the inputs of a request  *)
(* stand for.                                                              *)
(***************************************************************************)
EXTENDS Integers

CONSTANTS
  Request,
  Tenant,
  MaxVersion   \* commits a behaviour may make

VARIABLES
  version,   \* of the entity, in each tenant's schema
  request,   \* where each request stands
  audit      \* rows of audit_logs

vars == <<version, request, audit>>

NoTenant == "no tenant"
NotRead == -1
Idle == [at |-> "idle"]

\* What the guards look at: whether the token is valid, the tenant it names and the one
\* of the header, the roles SUPERADMIN and ADMIN; whether the route needs no tenant, is
\* of a branch, asks for a permission; the row of user_branches, the permissions and
\* the plan found for the user.
Inputs == [token : BOOLEAN, tenant : Tenant \cup {NoTenant}, header : Tenant \cup {NoTenant},
           superadmin : BOOLEAN, admin : BOOLEAN,
           tenantless : BOOLEAN, branched : BOOLEAN, protected : BOOLEAN,
           linked : BOOLEAN, permitted : BOOLEAN, feature : BOOLEAN]

\* Only a SUPERADMIN whose token names no tenant may name one.
TenantOf(i) == IF i.tenant = NoTenant /\ i.superadmin THEN i.header ELSE i.tenant

JwtGuard(i) == i.token
TenantGuard(i) == TenantOf(i) # NoTenant \/ (i.superadmin /\ i.tenantless)
BranchGuard(i) == i.branched => i.admin \/ i.linked
RbacGuard(i) == i.protected => i.tenant # NoTenant /\ i.permitted
FeatureFlagGuard(i) == i.feature
Admitted(i) == JwtGuard(i) /\ TenantGuard(i) /\ BranchGuard(i) /\ RbacGuard(i) /\ FeatureFlagGuard(i)

\* The tenants a request that passes the guards may work for.  One without a tenant has
\* no schema to be audited in; one that is refused ends in the filter.
AdmittedTenants == {TenantOf(i) : i \in {j \in Inputs : Admitted(j)}} \ {NoTenant}

Running == [at : {"run", "done"}, tenant : Tenant,
            before : NotRead .. MaxVersion, own : NotRead .. MaxVersion]
Row == [tenant : Tenant, old : 0 .. MaxVersion, new : 0 .. MaxVersion, own : 0 .. MaxVersion]

TypeOK ==
  /\ version \in [Tenant -> 0 .. MaxVersion]
  /\ request \in [Request -> Running \cup {Idle}]
  /\ audit \subseteq Row

Init ==
  /\ version = [t \in Tenant |-> 0]
  /\ request = [q \in Request |-> Idle]
  /\ audit = {}

-----------------------------------------------------------------------------
Admit(q, t) ==
  /\ request[q] = Idle
  /\ request' = [request EXCEPT ![q] = [at |-> "run", tenant |-> t, before |-> NotRead, own |-> NotRead]]
  /\ UNCHANGED <<version, audit>>

\* fetchSnapshot, sent before the handler runs but not awaited: it may read what the
\* handler has committed.
ReadBefore(q) ==
  /\ request[q] # Idle
  /\ request[q].before = NotRead
  /\ request' = [request EXCEPT ![q].before = version[request[q].tenant]]
  /\ UNCHANGED <<version, audit>>

Handle(q) ==
  /\ request[q].at = "run"
  /\ LET t == request[q].tenant
     IN  /\ version[t] < MaxVersion
         /\ version' = [version EXCEPT ![t] = @ + 1]
         /\ request' = [request EXCEPT ![q].at = "done", ![q].own = version[t] + 1]
  /\ UNCHANGED audit

\* The handler throws: the filter answers, and nothing is audited.
HandlerThrows(q) ==
  /\ request[q].at = "run"
  /\ request' = [request EXCEPT ![q] = Idle]
  /\ UNCHANGED <<version, audit>>

\* Mutant of NewSnapshot: the second snapshot is the first one.
NewSnapshotBefore(r) == r.before

NewSnapshot(r) == version[r.tenant]

\* writeAudit, beside the response: waits for the first snapshot, takes the second.
WriteAudit(q) ==
  /\ request[q].at = "done" /\ request[q].before # NotRead
  /\ LET r == request[q]
     IN  audit' = audit \cup {[tenant |-> r.tenant, old |-> r.before, new |-> NewSnapshot(r), own |-> r.own]}
  /\ request' = [request EXCEPT ![q] = Idle]
  /\ UNCHANGED version

\* Its errors are swallowed.
AuditFails(q) ==
  /\ request[q].at = "done"
  /\ request' = [request EXCEPT ![q] = Idle]
  /\ UNCHANGED <<version, audit>>

Next ==
  \E q \in Request :
    \/ \E t \in AdmittedTenants : Admit(q, t)
    \/ ReadBefore(q) \/ Handle(q) \/ HandlerThrows(q) \/ WriteAudit(q) \/ AuditFails(q)

Spec == Init /\ [][Next]_vars

-----------------------------------------------------------------------------
\* A row of the audit log reaches the change it is about, although the snapshots are
\* taken outside the handler's transaction; what it shows as the value before may be
\* any, the handler's own included (AuditInterceptor.intercept).
AuditReachesTheChange == \A a \in audit : a.old <= a.new /\ a.own <= a.new
==============================================================================
