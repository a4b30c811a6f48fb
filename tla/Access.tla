-------------------------------- MODULE Access --------------------------------
(***************************************************************************)
(* Roles, the users they are linked to, and the permissions RbacGuard      *)
(* caches for each user.                                                   *)
(*                                                                         *)
(* A request for the guard splits between the SELECT of the permissions    *)
(* and the store in the cache; a request that changes a role splits at     *)
(* each of its statements, none of which shares a transaction with the     *)
(* invalidation.  Names and descriptions of roles are left out, and the    *)
(* check of a role is made with the statement that follows it: nothing     *)
(* that comes between them could tell.                                     *)
(***************************************************************************)
EXTENDS Naturals

CONSTANTS
  User, Role, Permission,
  SystemRole,      \* roles with is_system
  AdminRequest,    \* concurrent requests that change roles and links
  GuardedRequest   \* concurrent requests that pass RbacGuard

VARIABLES
  roles,       \* roles: absent, active or soft-deleted
  grants,      \* role_permissions
  links,       \* user_roles
  cached,      \* the key rbac:<tenant>:<user> of each user
  changed,     \* users with a committed rbac.user-role.changed nobody received yet
  admin,       \* where each request that changes something stands
  guard,       \* where each fill of the cache stands
  missed       \* users whose entry an invalidation missed, because it was lost, never
               \* sent, or because the entry was stored after it (history)

vars == <<roles, grants, links, cached, changed, admin, guard, missed>>

-----------------------------------------------------------------------------
NoEntry == {"no entry"}
Idle == [op |-> "idle"]

\* The role_permissions a transaction's DELETE found, and those it will INSERT.
Replacement == [op : {"replace", "fill"}, role : Role, codes : SUBSET Permission, seen : SUBSET Permission]

AdminState ==
  {Idle} \cup Replacement
    \cup [op : {"created"}, role : Role, codes : SUBSET Permission]
    \cup [op : {"invalidate"}, role : Role]
    \cup [op : {"forget"}, users : SUBSET User]
    \cup [op : {"link"}, user : User, role : Role]
GuardState == {Idle} \cup [op : {"store"}, user : User, seen : SUBSET Permission]

\* The query of the guard does not ask whether a role is deleted.
PermissionsOf(u) == UNION {grants[r] : r \in {s \in Role : <<u, s>> \in links}}

\* The profile's does: what the pages offer a user.
RolesOf(u) == {r \in Role : <<u, r>> \in links /\ roles[r] # "deleted"}
ProfileOf(u) == UNION {grants[r] : r \in RolesOf(u)}

\* existsUserRole: the link to a deleted role counts.
Provisioned(u) == \E r \in Role : <<u, r>> \in links

Init ==
  /\ roles = [r \in Role |-> IF r \in SystemRole THEN "active" ELSE "absent"]
  /\ grants = [r \in Role |-> IF r \in SystemRole THEN Permission ELSE {}]
  /\ links = {}
  /\ cached = [u \in User |-> NoEntry]
  /\ changed = {}
  /\ admin = [a \in AdminRequest |-> Idle]
  /\ guard = [q \in GuardedRequest |-> Idle]
  /\ missed = {}

-----------------------------------------------------------------------------
(* Requests that change roles *)

\* create: the role is inserted by a statement of its own, without permissions.
CreateRole(a, r, codes) ==
  /\ admin[a] = Idle /\ roles[r] = "absent"
  /\ roles' = [roles EXCEPT ![r] = "active"]
  /\ admin' = [admin EXCEPT ![a] = [op |-> "created", role |-> r, codes |-> codes]]
  /\ UNCHANGED <<grants, links, cached, changed, guard, missed>>

\* The DELETE of replaceRolePermissions after create, whose cache nobody clears.
FillNewRole(a) ==
  /\ admin[a].op = "created"
  /\ admin' = [admin EXCEPT ![a] =
       [op |-> "fill", role |-> @.role, codes |-> @.codes, seen |-> grants[@.role]]]
  /\ UNCHANGED <<roles, grants, links, cached, changed, guard, missed>>

Editable(r) == roles[r] = "active" /\ r \notin SystemRole

\* updateRolePermissions, and update with permissionCodes, up to the DELETE.
UpdatePermissions(a, r, codes) ==
  /\ admin[a] = Idle /\ Editable(r)
  /\ admin' = [admin EXCEPT ![a] = [op |-> "replace", role |-> r, codes |-> codes, seen |-> grants[r]]]
  /\ UNCHANGED <<roles, grants, links, cached, changed, guard, missed>>

\* Mutant of Followed: the update is not followed by an invalidation.
FollowedByNothing(op, r) == Idle

Followed(op, r) == IF op = "replace" THEN [op |-> "invalidate", role |-> r] ELSE Idle

\* The INSERT and the commit.  A DELETE under way beside this one waited for it and
\* does not see the rows this one inserts: the two replacements add up.
CommitReplacement(a) ==
  /\ admin[a] \in Replacement
  /\ LET r == admin[a].role
         gone == admin[a].seen
     IN  /\ grants' = [grants EXCEPT ![r] = (@ \ gone) \cup admin[a].codes]
         /\ admin' = [b \in AdminRequest |->
              IF b = a THEN Followed(admin[a].op, r)
              ELSE IF admin[b] \in Replacement /\ admin[b].role = r THEN [admin[b] EXCEPT !.seen = @ \ gone]
              ELSE admin[b]]
         /\ missed' = IF admin[a].op = "fill" THEN missed \cup {u \in User : <<u, r>> \in links} ELSE missed
  /\ UNCHANGED <<roles, links, cached, changed, guard>>

\* softDelete: the links and the permissions stay.
DeleteRole(a, r) ==
  /\ admin[a] = Idle /\ Editable(r)
  /\ roles' = [roles EXCEPT ![r] = "deleted"]
  /\ admin' = [admin EXCEPT ![a] = [op |-> "invalidate", role |-> r]]
  /\ UNCHANGED <<grants, links, cached, changed, guard, missed>>

Forgetting(us) == IF us = {} THEN Idle ELSE [op |-> "forget", users |-> us]

\* invalidateRoleCache: the users are read, then their keys are deleted one by one.
FindUsers(a) ==
  /\ admin[a].op = "invalidate"
  /\ admin' = [admin EXCEPT ![a] = Forgetting({u \in User : <<u, admin[a].role>> \in links})]
  /\ UNCHANGED <<roles, grants, links, cached, changed, guard, missed>>

DropEntry(u) == cached' = [cached EXCEPT ![u] = NoEntry] /\ missed' = missed \ {u}

Forget(a) ==
  /\ admin[a].op = "forget"
  /\ \E u \in admin[a].users :
       DropEntry(u) /\ admin' = [admin EXCEPT ![a] = Forgetting(@.users \ {u})]
  /\ UNCHANGED <<roles, grants, links, changed, guard>>

-----------------------------------------------------------------------------
(* Requests that change links: one transaction with the event *)

UserRoleChanged(u) == changed' = changed \cup {u}

\* ON CONFLICT DO NOTHING; the foreign key does not mind a deleted role.
InsertLink(u, r) == roles[r] # "absent" /\ links' = links \cup {<<u, r>>}

AssignRole(u, r) ==
  /\ InsertLink(u, r)
  /\ UserRoleChanged(u)
  /\ UNCHANGED <<roles, grants, cached, admin, guard, missed>>

UnlinkRole(u, r) ==
  /\ links' = links \ {<<u, r>>}
  /\ UserRoleChanged(u)
  /\ UNCHANGED <<roles, grants, cached, admin, guard, missed>>

\* createUser up to its transaction: the user has an account and no role.
CheckUser(a, u, r) ==
  /\ admin[a] = Idle
  /\ ~Provisioned(u)
  /\ admin' = [admin EXCEPT ![a] = [op |-> "link", user |-> u, role |-> r]]
  /\ UNCHANGED <<roles, grants, links, cached, changed, guard, missed>>

\* The INSERT names no conflict: a link that is there by now, or a role that is not,
\* undoes the transaction.
Insertable(u, r) == <<u, r>> \notin links /\ roles[r] # "absent"

CreateUser(a) ==
  /\ admin[a].op = "link"
  /\ LET u == admin[a].user
         r == admin[a].role
     IN  IF Insertable(u, r) THEN links' = links \cup {<<u, r>>} /\ UserRoleChanged(u)
         ELSE UNCHANGED <<links, changed>>
  /\ admin' = [admin EXCEPT ![a] = Idle]
  /\ UNCHANGED <<roles, grants, cached, guard, missed>>

\* An error, or the process ends: what is not committed is undone, the keys that are
\* left are not deleted.
LeftToForget(a) ==
  {u \in User :
     \/ admin[a].op = "invalidate" /\ <<u, admin[a].role>> \in links
     \/ admin[a].op = "forget" /\ u \in admin[a].users}
Abandon(a) ==
  /\ admin[a] # Idle
  /\ missed' = missed \cup LeftToForget(a)
  /\ admin' = [admin EXCEPT ![a] = Idle]
  /\ UNCHANGED <<roles, grants, links, cached, changed, guard>>

-----------------------------------------------------------------------------
(* The listener and the guard *)

\* onUserRoleChanged; the outbox delivers again what it delivered, which is as if the
\* entry expired.
Deliver(u) ==
  /\ u \in changed
  /\ changed' = changed \ {u}
  /\ DropEntry(u)
  /\ UNCHANGED <<roles, grants, links, admin, guard>>

\* Listeners are not awaited: the process may end before the key is deleted.
LoseEvent(u) ==
  /\ u \in changed
  /\ changed' = changed \ {u}
  /\ missed' = missed \cup {u}
  /\ UNCHANGED <<roles, grants, links, cached, admin, guard>>

\* loadUserPermissions: no entry, so they are read ...
Load(q, u) ==
  /\ guard[q] = Idle /\ cached[u] = NoEntry
  /\ guard' = [guard EXCEPT ![q] = [op |-> "store", user |-> u, seen |-> PermissionsOf(u)]]
  /\ UNCHANGED <<roles, grants, links, cached, changed, admin, missed>>

\* ... and stored, whatever happened meanwhile.
Store(q) ==
  /\ guard[q].op = "store"
  /\ LET u == guard[q].user
     IN  /\ cached' = [cached EXCEPT ![u] = guard[q].seen]
         /\ missed' = IF guard[q].seen = PermissionsOf(u) THEN missed \ {u} ELSE missed \cup {u}
  /\ guard' = [guard EXCEPT ![q] = Idle]
  /\ UNCHANGED <<roles, grants, links, changed, admin>>

GiveUp(q) ==
  /\ guard[q].op = "store"
  /\ guard' = [guard EXCEPT ![q] = Idle]
  /\ UNCHANGED <<roles, grants, links, cached, changed, admin, missed>>

\* Mutant of HasTtl: the entry is stored without RBAC_CACHE_TTL_MS.
NoTtl(u) == FALSE

HasTtl(u) == cached[u] # NoEntry

Expire(u) ==
  /\ HasTtl(u)
  /\ DropEntry(u)
  /\ UNCHANGED <<roles, grants, links, changed, admin, guard>>

-----------------------------------------------------------------------------
RoleRequest(a) ==
  \/ \E r \in Role, codes \in SUBSET Permission : CreateRole(a, r, codes) \/ UpdatePermissions(a, r, codes)
  \/ \E r \in Role : DeleteRole(a, r)
  \/ FillNewRole(a) \/ CommitReplacement(a) \/ FindUsers(a) \/ Forget(a) \/ Abandon(a)

UserRequest ==
  \/ \E u \in User, r \in Role : AssignRole(u, r) \/ UnlinkRole(u, r)
  \/ \E a \in AdminRequest : CreateUser(a) \/ \E u \in User, r \in Role : CheckUser(a, u, r)

Next ==
  \/ \E a \in AdminRequest : RoleRequest(a)
  \/ UserRequest
  \/ \E u \in User : Deliver(u) \/ LoseEvent(u) \/ Expire(u)
  \/ \E q \in GuardedRequest : Store(q) \/ GiveUp(q) \/ \E u \in User : Load(q, u)

\* Entries expire and requests end; nothing is assumed of events and invalidations.
Fairness ==
  /\ \A u \in User : WF_vars(Expire(u))
  /\ \A q \in GuardedRequest : WF_vars(Store(q) \/ GiveUp(q))

Spec == Init /\ [][Next]_vars /\ Fairness

-----------------------------------------------------------------------------
TypeOK ==
  /\ roles \in [Role -> {"absent", "active", "deleted"}]
  /\ grants \in [Role -> SUBSET Permission]
  /\ links \subseteq User \X Role
  /\ cached \in [User -> (SUBSET Permission) \cup {NoEntry}]
  /\ changed \subseteq User
  /\ admin \in [AdminRequest -> AdminState]
  /\ guard \in [GuardedRequest -> GuardState]
  /\ missed \subseteq User

\* The guard refuses what the profile shows, or admits what was revoked, only while the
\* invalidation is under way, or if that was lost or overtaken by a fill (RolesService
\* invalidates after it commits, RbacGuard may store what it read before).
Revoked(u) == cached[u] # NoEntry /\ ~ (cached[u] \subseteq PermissionsOf(u))
Withheld(u) == cached[u] # NoEntry /\ ~ (ProfileOf(u) \subseteq cached[u])
GrantsAreFollowed ==
  \A u \in User : Revoked(u) \/ Withheld(u) =>
    u \in missed \cup changed \cup UNION {LeftToForget(a) : a \in AdminRequest}

\* Whatever was lost or overtaken, a permission that stays revoked is denied for good
\* in the end (RBAC_CACHE_TTL_MS).
RevocationTakesEffect ==
  \A u \in User, p \in Permission :
    <>[](p \notin PermissionsOf(u)) => <>[](p \notin cached[u])
===============================================================================
