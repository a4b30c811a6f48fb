------------------------------ MODULE MCPlatform ------------------------------
(***************************************************************************)
(* Instances of the modules about what stands between a user and the       *)
(* handlers, for TLC: Access, Branches, SignIn, Requests, Idempotency and  *)
(* ResultCache.                                                            *)
(*                                                                         *)
(* They share no variable.  A behaviour runs one of them and leaves the    *)
(* others in their initial states, so that the state space is the sum of   *)
(* theirs.                                                                 *)
(***************************************************************************)
EXTENDS Access

CONSTANTS
  Reader, MaxRetries,
  Form, Payload, Request,
  Tenant, MaxVersion,
  Branch, Replacer,
  Tab, Page, Flow

ASSUME BoundsAssumption == MaxRetries \in Nat /\ MaxVersion \in Nat
\* A flow is not what the cookies hold when there is none.
ASSUME FlowAssumption == "none" \notin Flow

VARIABLES
  connected, entry, locked, reader, lapsed, announced,
  stored, request, runs, excused,
  version, audited, audit,
  branches, onboarded, userBranches, replacing,
  token, oidc, tab, session, used

C == INSTANCE ResultCache
I == INSTANCE Idempotency
Q == INSTANCE Requests WITH request <- audited
B == INSTANCE Branches
S == INSTANCE SignIn

VARIABLE focus   \* the component this behaviour runs

cacheVars == <<connected, entry, locked, reader, lapsed, announced>>
idempotencyVars == <<stored, request, runs, excused>>
requestVars == <<version, audited, audit>>
branchVars == <<branches, onboarded, userBranches, replacing>>
signInVars == <<token, oidc, tab, session, used>>

MCInit ==
  /\ Init /\ C!Init /\ I!Init /\ Q!Init /\ B!Init /\ S!Init
  /\ focus \in {"access", "cache", "idempotency", "requests", "branches", "signin"}

MCNext ==
  \/ focus = "access" /\ Next /\ UNCHANGED <<focus, cacheVars, idempotencyVars, requestVars, branchVars, signInVars>>
  \/ focus = "cache" /\ C!Next /\ UNCHANGED <<focus, vars, idempotencyVars, requestVars, branchVars, signInVars>>
  \/ focus = "idempotency" /\ I!Next /\ UNCHANGED <<focus, vars, cacheVars, requestVars, branchVars, signInVars>>
  \/ focus = "requests" /\ Q!Next /\ UNCHANGED <<focus, vars, cacheVars, idempotencyVars, branchVars, signInVars>>
  \/ focus = "branches" /\ B!Next /\ UNCHANGED <<focus, vars, cacheVars, idempotencyVars, requestVars, signInVars>>
  \/ focus = "signin" /\ S!Next /\ UNCHANGED <<focus, vars, cacheVars, idempotencyVars, requestVars, branchVars>>

allVars == <<focus, vars, cacheVars, idempotencyVars, requestVars, branchVars, signInVars>>

\* Nothing that is fair is enabled in an initial state, where the others stay.
MCSpec == MCInit /\ [][MCNext]_allVars /\ Fairness /\ C!Fairness

\* Every cache entry, request, link and cookie holds a value of its type.
TypesOK == TypeOK /\ C!TypeOK /\ I!TypeOK /\ Q!TypeOK /\ B!TypeOK /\ S!TypeOK

\* Two callers of @CacheResult compute at once only after a lock lapsed under its holder.
OneComputesUnlessLapsed == C!OneComputesUnlessLapsed

\* Every call of a method with @CacheResult is answered in the end.
CallsAnswered == C!CallsAnswered

\* An Idempotency-Key is handled twice only if its response was not there to be found
\* (IdempotencyInterceptor).
HandledTwiceOnlyIfExcused == I!HandledTwiceOnlyIfExcused

\* A row of the audit log reaches the change it is about (AuditInterceptor).
AuditReachesTheChange == Q!AuditReachesTheChange

\* A user is left without a branch on purpose only, never by half a replacement
\* (RolesRepository.replaceUserBranches).
LockedOutOnPurpose == B!LockedOutOnPurpose

\* Signing in takes a tab back to the page it left (middleware and callback).
ReturnsWhereItLeft == S!ReturnsWhereItLeft
===============================================================================
