---------------------------- MODULE PlatformProofs ----------------------------
(***************************************************************************)
(* Theorems about what stands between a user and the handlers, for any     *)
(* number of users, roles, requests, callers, tabs and forms.              *)
(*                                                                         *)
(* The components share no variable: each has an invariant of its own,     *)
(* which Init establishes and its steps preserve, and which the steps of   *)
(* the others do not touch.                                                *)
(***************************************************************************)
EXTENDS MCPlatform, FiniteSetTheorems, TLAPS

-----------------------------------------------------------------------------
(* Access: the cache of RbacGuard *)

\* Why the entry of a user may differ from the tables.
Left(u, a) ==
  \/ admin[a].op = "invalidate" /\ <<u, admin[a].role>> \in links
  \/ admin[a].op = "forget" /\ u \in admin[a].users
Excused(u) == u \in missed \/ u \in changed \/ \E a \in AdminRequest : Left(u, a)

\* Without such a reason the entry lies between what the profile shows and what the
\* tables grant.
FollowedFor(u) ==
  cached[u] # NoEntry /\ ~Excused(u) => cached[u] \subseteq PermissionsOf(u) /\ ProfileOf(u) \subseteq cached[u]

AccessInv == TypeOK /\ \A u \in User : FollowedFor(u)

LEMMA AccessInvImplies == AccessInv => GrantsAreFollowed
<1> SUFFICES ASSUME AccessInv, NEW u \in User, Revoked(u) \/ Withheld(u)
             PROVE  u \in missed \cup changed \cup UNION {LeftToForget(a) : a \in AdminRequest}
  BY DEF GrantsAreFollowed
<1>1. Excused(u)
  BY DEF AccessInv, FollowedFor, Revoked, Withheld
<1>2. \A a \in AdminRequest : Left(u, a) => u \in LeftToForget(a)
  BY DEF Left, LeftToForget
<1> QED
  BY <1>1, <1>2 DEF Excused

LEMMA AccessInit == Init => AccessInv
<1> SUFFICES ASSUME Init PROVE AccessInv
  OBVIOUS
<1>1. Idle \in AdminState /\ Idle \in GuardState
  BY DEF AdminState, GuardState
<1>2. TypeOK
  BY <1>1 DEF Init, TypeOK
<1>3. \A u \in User : cached[u] = NoEntry
  BY DEF Init
<1> QED
  BY <1>2, <1>3 DEF AccessInv, FollowedFor

\* What a user is granted depends on that user's links and on the grants of the roles
\* they name; what the profile shows, also on which of them are deleted.
LEMMA GrantsOfUser ==
  ASSUME NEW u \in User, \A r \in Role : <<u, r>> \in links' <=> <<u, r>> \in links,
         \A r \in Role : <<u, r>> \in links => grants'[r] = grants[r]
  PROVE  /\ PermissionsOf(u)' = PermissionsOf(u)
         /\ (\A r \in Role : roles'[r] # "deleted" => roles[r] # "deleted") => ProfileOf(u)' \subseteq ProfileOf(u)
<1>1. \A r \in Role : <<u, r>> \in links' => grants'[r] = grants[r]
  OBVIOUS
<1>2. PermissionsOf(u)' = PermissionsOf(u)
  BY <1>1 DEF PermissionsOf
<1>3. ASSUME \A r \in Role : roles'[r] # "deleted" => roles[r] # "deleted"
      PROVE  ProfileOf(u)' \subseteq ProfileOf(u)
  BY <1>1, <1>3 DEF ProfileOf, RolesOf
<1> QED
  BY <1>2, <1>3

\* A user whose entry and links a step leaves alone, as it does the grants of the roles
\* they name, and of whom it takes no excuse.
LEMMA UserKept ==
  ASSUME AccessInv, NEW u \in User, cached'[u] = cached[u], Excused(u) => Excused(u)',
         \A r \in Role : <<u, r>> \in links' <=> <<u, r>> \in links,
         \A r \in Role : <<u, r>> \in links => grants'[r] = grants[r],
         \A r \in Role : roles'[r] # "deleted" => roles[r] # "deleted"
  PROVE  FollowedFor(u)'
<1>1. PermissionsOf(u)' = PermissionsOf(u) /\ ProfileOf(u)' \subseteq ProfileOf(u)
  BY GrantsOfUser
<1> QED
  BY <1>1 DEF AccessInv, FollowedFor

\* What a request that changes something holds, by where it stands.
LEMMA AdminFields ==
  ASSUME TypeOK, NEW a \in AdminRequest
  PROVE  /\ admin[a] \in AdminState
         /\ admin[a].op \in {"replace", "fill"} <=> admin[a] \in Replacement
         /\ admin[a].op \in {"replace", "fill"} => admin[a].codes \subseteq Permission /\ admin[a].seen \subseteq Permission
         /\ admin[a].op \in {"replace", "fill", "created", "invalidate", "link"} => admin[a].role \in Role
         /\ admin[a].op = "created" => admin[a].codes \subseteq Permission
         /\ admin[a].op = "forget" => admin[a].users \subseteq User
         /\ admin[a].op = "link" => admin[a].user \in User
BY DEF TypeOK, AdminState, Replacement, Idle

\* What a request may turn into, as far as types go.
LEMMA AdminStates ==
  /\ Idle \in AdminState
  /\ \A r \in Role, codes \in SUBSET Permission, seen \in SUBSET Permission, op \in {"replace", "fill"} :
       /\ [op |-> "created", role |-> r, codes |-> codes] \in AdminState
       /\ [op |-> op, role |-> r, codes |-> codes, seen |-> seen] \in AdminState
  /\ \A r \in Role : [op |-> "invalidate", role |-> r] \in AdminState /\ \A u \in User : [op |-> "link", user |-> u, role |-> r] \in AdminState
  /\ \A us \in SUBSET User : Forgetting(us) \in AdminState
BY DEF AdminState, Replacement, Forgetting

\* Requests that change roles and have an effect on no excuse.
LEMMA RoleAsked ==
  ASSUME AccessInv, NEW a \in AdminRequest,
         \/ \E r \in Role, codes \in SUBSET Permission : CreateRole(a, r, codes) \/ UpdatePermissions(a, r, codes)
         \/ FillNewRole(a)
  PROVE  AccessInv'
<1>1. TypeOK'
  <2>1. CASE \E r \in Role, codes \in SUBSET Permission : CreateRole(a, r, codes)
    <3>1. PICK r \in Role, codes \in SUBSET Permission : CreateRole(a, r, codes)
      BY <2>1
    <3> QED
      BY <3>1, AdminStates DEF AccessInv, TypeOK, CreateRole
  <2>2. CASE \E r \in Role, codes \in SUBSET Permission : UpdatePermissions(a, r, codes)
    <3>1. PICK r \in Role, codes \in SUBSET Permission : UpdatePermissions(a, r, codes)
      BY <2>2
    <3> QED
      BY <3>1, AdminStates DEF AccessInv, TypeOK, UpdatePermissions
  <2>3. CASE FillNewRole(a)
    <3>1. admin[a].role \in Role /\ admin[a].codes \in SUBSET Permission /\ grants[admin[a].role] \in SUBSET Permission
      BY <2>3, AdminFields DEF FillNewRole, AccessInv, TypeOK
    <3> QED
      BY <2>3, <3>1, AdminStates DEF AccessInv, TypeOK, FillNewRole
  <2> QED
    BY <2>1, <2>2, <2>3
<1>2. \A b \in AdminRequest, u \in User : Left(u, b) => Left(u, b)'
  BY DEF CreateRole, UpdatePermissions, FillNewRole, Left, Idle, AccessInv, TypeOK
<1>3. /\ UNCHANGED <<grants, links, cached, changed, missed>>
      /\ \A s \in Role : roles'[s] # "deleted" => roles[s] # "deleted"
  BY DEF CreateRole, UpdatePermissions, FillNewRole, AccessInv, TypeOK
<1>4. ASSUME NEW u \in User PROVE FollowedFor(u)'
  BY <1>2, <1>3, UserKept DEF Excused
<1> QED
  BY <1>1, <1>4 DEF AccessInv


\* The INSERT of a replacement: the linked users are told of by the request that follows,
\* or were never told (fill).
LEMMA ReplacementCommits ==
  ASSUME AccessInv, NEW a \in AdminRequest, CommitReplacement(a)
  PROVE  AccessInv'
<1> DEFINE r == admin[a].role
           gone == admin[a].seen
           codes == admin[a].codes
<1>1. r \in Role /\ gone \subseteq Permission /\ codes \subseteq Permission /\ admin[a].op \in {"replace", "fill"}
  BY AdminFields DEF CommitReplacement, AccessInv
<1>2. /\ grants' = [grants EXCEPT ![r] = (@ \ gone) \cup codes]
      /\ admin' = [b \in AdminRequest |->
           IF b = a THEN Followed(admin[a].op, r)
           ELSE IF admin[b] \in Replacement /\ admin[b].role = r THEN [admin[b] EXCEPT !.seen = @ \ gone]
           ELSE admin[b]]
      /\ missed' = IF admin[a].op = "fill" THEN missed \cup {u \in User : <<u, r>> \in links} ELSE missed
      /\ UNCHANGED <<roles, links, cached, changed, guard>>
  BY DEF CommitReplacement
<1> HIDE DEF r, gone, codes
<1>3. TypeOK'
  <2>1. Followed(admin[a].op, r) \in AdminState
    BY <1>1, AdminStates DEF Followed
  <2>2. ASSUME NEW b \in AdminRequest, admin[b] \in Replacement
        PROVE  [admin[b] EXCEPT !.seen = @ \ gone] \in AdminState
    BY <2>2 DEF AdminState, Replacement
  <2>3. admin' \in [AdminRequest -> AdminState]
    BY <1>2, <2>1, <2>2 DEF AccessInv, TypeOK
  <2>4. grants' \in [Role -> SUBSET Permission] /\ missed' \subseteq User
    BY <1>1, <1>2 DEF AccessInv, TypeOK
  <2> QED
    BY <1>2, <2>3, <2>4 DEF AccessInv, TypeOK
<1>4. ASSUME NEW u \in User, Excused(u) PROVE Excused(u)'
  <2>1. ASSUME NEW b \in AdminRequest, Left(u, b) PROVE Left(u, b)'
    BY <1>1, <1>2, <2>1, AdminFields DEF Left, AccessInv
  <2>2. missed \subseteq missed' /\ changed' = changed
    BY <1>2
  <2> QED
    BY <1>4, <2>1, <2>2 DEF Excused
<1>5. ASSUME NEW u \in User PROVE FollowedFor(u)'
  <2>1. CASE <<u, r>> \in links
    <3>1. CASE admin[a].op = "fill"
      BY <1>2, <2>1, <3>1 DEF FollowedFor, Excused
    <3>2. CASE admin[a].op = "replace"
      <4>1. admin'[a] = [op |-> "invalidate", role |-> r] /\ links' = links
        BY <1>2, <3>2 DEF Followed
      <4> QED
        BY <2>1, <4>1 DEF FollowedFor, Excused, Left
    <3> QED
      BY <1>1, <3>1, <3>2
  <2>2. CASE <<u, r>> \notin links
    <3>1. \A s \in Role : <<u, s>> \in links => grants'[s] = grants[s]
      BY <1>2, <2>2 DEF AccessInv, TypeOK
    <3> QED
      BY <1>2, <1>4, <3>1, UserKept
  <2> QED
    BY <2>1, <2>2
<1> QED
  BY <1>3, <1>5 DEF AccessInv

\* Deleting a role asks for its users to be told, and the profile shows less only.
LEMMA RoleDeleted ==
  ASSUME AccessInv, NEW a \in AdminRequest, NEW r \in Role, DeleteRole(a, r)
  PROVE  AccessInv'
<1>1. TypeOK'
  BY AdminStates DEF AccessInv, TypeOK, DeleteRole
<1>2. ASSUME NEW b \in AdminRequest, NEW u \in User, Left(u, b) PROVE Left(u, b)'
  BY <1>2 DEF DeleteRole, Left, Idle, AccessInv, TypeOK
<1>3. /\ UNCHANGED <<grants, links, cached, changed, missed>>
      /\ \A s \in Role : roles'[s] # "deleted" => roles[s] # "deleted"
  BY DEF DeleteRole, AccessInv, TypeOK
<1>4. ASSUME NEW u \in User PROVE FollowedFor(u)'
  BY <1>2, <1>3, UserKept DEF Excused
<1> QED
  BY <1>1, <1>4 DEF AccessInv

\* Reading the users of a role hands each of them on to the deletion of the keys.
LEMMA UsersFound ==
  ASSUME AccessInv, NEW a \in AdminRequest, FindUsers(a)
  PROVE  AccessInv'
<1> DEFINE us == {u \in User : <<u, admin[a].role>> \in links}
<1>1. admin' = [admin EXCEPT ![a] = Forgetting(us)] /\ admin[a].op = "invalidate"
      /\ UNCHANGED <<roles, grants, links, cached, changed, guard, missed>>
  BY DEF FindUsers
<1>2. TypeOK'
  BY <1>1, AdminStates DEF AccessInv, TypeOK
<1>3. ASSUME NEW u \in User, NEW b \in AdminRequest, Left(u, b) PROVE Left(u, b)'
  <2>1. CASE b = a
    <3>1. u \in us
      BY <1>1, <1>3, <2>1 DEF Left
    <3>2. admin'[a] = [op |-> "forget", users |-> us]
      BY <1>1, <3>1 DEF Forgetting, AccessInv, TypeOK
    <3> QED
      BY <2>1, <3>1, <3>2 DEF Left
  <2>2. CASE b # a
    BY <1>1, <1>3, <2>2 DEF Left, AccessInv, TypeOK
  <2> QED
    BY <2>1, <2>2
<1>4. ASSUME NEW u \in User PROVE FollowedFor(u)'
  BY <1>1, <1>3, UserKept DEF Excused
<1> QED
  BY <1>2, <1>4 DEF AccessInv

\* An entry that is dropped needs no excuse; the others keep theirs.
LEMMA EntryDropped ==
  ASSUME AccessInv, NEW u \in User, DropEntry(u), UNCHANGED <<roles, grants, links>>,
         \A v \in User : v # u => (Excused(v) => Excused(v)')
  PROVE  /\ cached' \in [User -> (SUBSET Permission) \cup {NoEntry}] /\ missed' \subseteq User
         /\ \A v \in User : FollowedFor(v)'
<1>1. cached' = [cached EXCEPT ![u] = NoEntry]
  BY DEF DropEntry
<1>2. cached' \in [User -> (SUBSET Permission) \cup {NoEntry}] /\ missed' \subseteq User
  BY <1>1 DEF DropEntry, AccessInv, TypeOK
<1>3. ASSUME NEW v \in User PROVE FollowedFor(v)'
  <2>1. CASE v = u
    BY <1>1, <2>1 DEF FollowedFor, AccessInv, TypeOK
  <2>2. CASE v # u
    BY <1>1, <2>2, UserKept DEF AccessInv, TypeOK
  <2> QED
    BY <2>1, <2>2
<1> QED
  BY <1>2, <1>3

LEMMA KeyForgotten ==
  ASSUME AccessInv, NEW a \in AdminRequest, Forget(a)
  PROVE  AccessInv'
<1>1. PICK u \in admin[a].users : DropEntry(u) /\ admin' = [admin EXCEPT ![a] = Forgetting(@.users \ {u})]
  BY DEF Forget
<1>2. u \in User /\ admin[a].op = "forget" /\ admin[a].users \ {u} \subseteq User
  BY <1>1, AdminFields DEF Forget, AccessInv
<1>3. UNCHANGED <<roles, grants, links, changed, guard>>
  BY DEF Forget
<1>4. ASSUME NEW v \in User, v # u, NEW b \in AdminRequest, Left(v, b) PROVE Left(v, b)'
  <2>1. CASE b = a
    <3>1. v \in admin[a].users \ {u}
      BY <1>2, <1>4, <2>1 DEF Left
    <3>2. admin'[a] = [op |-> "forget", users |-> admin[a].users \ {u}]
      BY <1>1, <3>1 DEF Forgetting, AccessInv, TypeOK
    <3> QED
      BY <2>1, <3>1, <3>2 DEF Left
  <2>2. CASE b # a
    BY <1>1, <1>3, <1>4, <2>2 DEF Left, AccessInv, TypeOK
  <2> QED
    BY <2>1, <2>2
<1>5. ASSUME NEW v \in User, v # u, Excused(v) PROVE Excused(v)'
  BY <1>1, <1>3, <1>4, <1>5 DEF Excused, DropEntry
<1>6. TypeOK'
  BY <1>1, <1>2, <1>3, <1>5, EntryDropped, AdminStates DEF AccessInv, TypeOK
<1> QED
  BY <1>1, <1>2, <1>3, <1>5, <1>6, EntryDropped DEF AccessInv

\* An error or the end of the process: whoever was left to be told is missed.
LEMMA RequestAbandoned ==
  ASSUME AccessInv, NEW a \in AdminRequest, Abandon(a)
  PROVE  AccessInv'
<1>1. TypeOK'
  BY AdminStates DEF AccessInv, TypeOK, Abandon, LeftToForget
<1>2. ASSUME NEW u \in User, Excused(u) PROVE Excused(u)'
  <2>1. ASSUME NEW b \in AdminRequest, Left(u, b) PROVE b = a \/ Left(u, b)'
    BY <2>1 DEF Abandon, Left, AccessInv, TypeOK
  <2>2. Left(u, a) => u \in missed'
    BY DEF Abandon, Left, LeftToForget
  <2> QED
    BY <1>2, <2>1, <2>2 DEF Excused, Abandon
<1>3. ASSUME NEW u \in User PROVE FollowedFor(u)'
  BY <1>2, UserKept DEF Abandon
<1> QED
  BY <1>1, <1>3 DEF AccessInv

\* A link comes or goes with the event that tells of it.
LEMMA LinkChanges ==
  ASSUME AccessInv, NEW u \in User, changed' = changed \cup {u}, links' \subseteq User \X Role,
         UNCHANGED <<roles, grants, cached, guard, missed>>, admin' \in [AdminRequest -> AdminState],
         \A v \in User, r \in Role : v # u => (<<v, r>> \in links' <=> <<v, r>> \in links),
         \A v \in User, b \in AdminRequest : v # u /\ Left(v, b) => Left(v, b)'
  PROVE  AccessInv'
<1>1. TypeOK'
  BY DEF AccessInv, TypeOK
<1>2. ASSUME NEW v \in User PROVE FollowedFor(v)'
  <2>1. CASE v = u
    BY <2>1 DEF FollowedFor, Excused
  <2>2. CASE v # u
    <3>1. Excused(v) => Excused(v)'
      BY <2>2 DEF Excused
    <3> QED
      BY <2>2, <3>1, UserKept
  <2> QED
    BY <2>1, <2>2
<1> QED
  BY <1>1, <1>2 DEF AccessInv

LEMMA RoleAssigned ==
  ASSUME AccessInv, NEW u \in User, NEW r \in Role, AssignRole(u, r) \/ UnlinkRole(u, r)
  PROVE  AccessInv'
<1>1. links' \subseteq User \X Role /\ changed' = changed \cup {u} /\ UNCHANGED <<roles, grants, cached, admin, guard, missed>>
  BY DEF AssignRole, UnlinkRole, InsertLink, UserRoleChanged, AccessInv, TypeOK
<1>2. \A v \in User, s \in Role : v # u => (<<v, s>> \in links' <=> <<v, s>> \in links)
  BY DEF AssignRole, UnlinkRole, InsertLink
<1>3. \A v \in User, b \in AdminRequest : v # u /\ Left(v, b) => Left(v, b)'
  BY <1>1, <1>2, AdminFields DEF Left, AccessInv
<1> QED
  BY <1>1, <1>2, <1>3, LinkChanges DEF AccessInv, TypeOK

LEMMA UserCreated ==
  ASSUME AccessInv, NEW a \in AdminRequest, CreateUser(a)
  PROVE  AccessInv'
<1> DEFINE u == admin[a].user
           r == admin[a].role
<1>1. u \in User /\ r \in Role /\ admin[a].op = "link"
  BY AdminFields DEF CreateUser, AccessInv
<1>2. admin' = [admin EXCEPT ![a] = Idle] /\ UNCHANGED <<roles, grants, cached, guard, missed>>
  BY DEF CreateUser
<1>3. admin' \in [AdminRequest -> AdminState]
  BY <1>2, AdminStates DEF AccessInv, TypeOK
<1>4. CASE Insertable(u, r)
  <2>1. links' = links \cup {<<u, r>>} /\ changed' = changed \cup {u}
    BY <1>4 DEF CreateUser, UserRoleChanged
  <2>2. ASSUME NEW v \in User, NEW b \in AdminRequest, Left(v, b) PROVE Left(v, b)'
    BY <1>1, <1>2, <2>1, <2>2 DEF Left, AccessInv, TypeOK
  <2>3. links' \subseteq User \X Role
    BY <1>1, <2>1 DEF AccessInv, TypeOK
  <2>4. \A v \in User, s \in Role : v # u => (<<v, s>> \in links' <=> <<v, s>> \in links)
    BY <2>1
  <2> HIDE DEF u, r
  <2> QED
    BY <1>1, <1>2, <1>3, <2>1, <2>2, <2>3, <2>4, LinkChanges
<1>5. CASE ~Insertable(u, r)
  <2>1. UNCHANGED <<links, changed>>
    BY <1>5 DEF CreateUser
  <2>2. ASSUME NEW v \in User, NEW b \in AdminRequest, Left(v, b) PROVE Left(v, b)'
    BY <1>1, <1>2, <2>1, <2>2 DEF Left, AccessInv, TypeOK
  <2>3. ASSUME NEW v \in User PROVE FollowedFor(v)'
    BY <1>2, <2>1, <2>2, UserKept DEF Excused
  <2> QED
    BY <1>2, <1>3, <2>1, <2>3 DEF AccessInv, TypeOK
<1> QED
  BY <1>4, <1>5

LEMMA UserChecked ==
  ASSUME AccessInv, NEW a \in AdminRequest, NEW u \in User, NEW r \in Role, CheckUser(a, u, r)
  PROVE  AccessInv'
<1>1. TypeOK'
  BY AdminStates DEF AccessInv, TypeOK, CheckUser
<1>2. ASSUME NEW v \in User, NEW b \in AdminRequest, Left(v, b) PROVE Left(v, b)'
  BY <1>2 DEF CheckUser, Left, Idle, AccessInv, TypeOK
<1>3. ASSUME NEW v \in User PROVE FollowedFor(v)'
  BY <1>2, UserKept DEF Excused, CheckUser
<1> QED
  BY <1>1, <1>3 DEF AccessInv

\* The listener and the TTL drop an entry; an event that is lost leaves its user missed.
LEMMA EntryInvalidated ==
  ASSUME AccessInv, NEW u \in User, Deliver(u) \/ LoseEvent(u) \/ Expire(u)
  PROVE  AccessInv'
<1>1. changed' \subseteq changed /\ changed \ {u} \subseteq changed' /\ UNCHANGED <<roles, grants, links, admin, guard>>
  BY DEF Deliver, LoseEvent, Expire
<1>2. \A v \in User, b \in AdminRequest : Left(v, b) => Left(v, b)'
  BY <1>1 DEF Left
<1>3. CASE Deliver(u) \/ Expire(u)
  <2>1. DropEntry(u)
    BY <1>3 DEF Deliver, Expire
  <2>2. ASSUME NEW v \in User, v # u, Excused(v) PROVE Excused(v)'
    BY <1>1, <1>2, <2>1, <2>2 DEF Excused, DropEntry
  <2> QED
    BY <1>1, <2>1, <2>2, EntryDropped DEF AccessInv, TypeOK
<1>4. CASE LoseEvent(u)
  <2>1. ASSUME NEW v \in User, Excused(v) PROVE Excused(v)'
    BY <1>1, <1>2, <1>4, <2>1 DEF Excused, LoseEvent
  <2>2. ASSUME NEW v \in User PROVE FollowedFor(v)'
    BY <1>1, <1>4, <2>1, UserKept DEF LoseEvent
  <2> QED
    BY <1>1, <1>4, <2>2 DEF LoseEvent, AccessInv, TypeOK
<1> QED
  BY <1>3, <1>4

\* A fill that stores what the tables no longer grant leaves its user missed.
LEMMA GuardStep ==
  ASSUME AccessInv, NEW q \in GuardedRequest, Store(q) \/ GiveUp(q) \/ \E u \in User : Load(q, u)
  PROVE  AccessInv'
<1>1. UNCHANGED <<roles, grants, links, changed, admin>>
  BY DEF Store, GiveUp, Load
<1>2. Idle \in GuardState
  BY DEF GuardState
<1>3. \A v \in User : PermissionsOf(v) \subseteq Permission /\ ProfileOf(v) \subseteq PermissionsOf(v)
  BY DEF PermissionsOf, ProfileOf, RolesOf, AccessInv, TypeOK
<1>4. CASE Store(q)
  <2> DEFINE u == guard[q].user
             seen == guard[q].seen
  <2>1. u \in User /\ seen \subseteq Permission
    BY <1>4 DEF Store, AccessInv, TypeOK, GuardState, Idle
  <2>2. /\ cached' = [cached EXCEPT ![u] = seen]
        /\ missed' = IF seen = PermissionsOf(u) THEN missed \ {u} ELSE missed \cup {u}
        /\ guard' = [guard EXCEPT ![q] = Idle]
    BY <1>4 DEF Store
  <2> HIDE DEF u, seen
  <2>3. TypeOK'
    BY <1>1, <1>2, <2>1, <2>2 DEF AccessInv, TypeOK
  <2>4. ASSUME NEW v \in User PROVE FollowedFor(v)'
    <3>1. CASE v = u
      <4>1. PermissionsOf(v)' = PermissionsOf(v) /\ ProfileOf(v)' = ProfileOf(v)
        BY <1>1 DEF PermissionsOf, ProfileOf, RolesOf
      <4>2. cached'[v] = seen
        BY <2>1, <2>2, <3>1 DEF AccessInv, TypeOK
      <4>3. CASE seen = PermissionsOf(v)
        BY <1>3, <4>1, <4>2, <4>3 DEF FollowedFor
      <4>4. CASE seen # PermissionsOf(v)
        BY <2>2, <3>1, <4>4 DEF FollowedFor, Excused
      <4> QED
        BY <4>3, <4>4
    <3>2. CASE v # u
      <4>1. cached'[v] = cached[v] /\ (v \in missed => v \in missed')
        BY <2>2, <3>2 DEF AccessInv, TypeOK
      <4>2. Excused(v) => Excused(v)'
        BY <1>1, <4>1 DEF Excused, Left
      <4> QED
        BY <1>1, <4>1, <4>2, UserKept
    <3> QED
      BY <3>1, <3>2
  <2> QED
    BY <2>3, <2>4 DEF AccessInv
<1>5. CASE GiveUp(q) \/ \E u \in User : Load(q, u)
  <2>1. \A u \in User : [op |-> "store", user |-> u, seen |-> PermissionsOf(u)] \in GuardState
    BY <1>3 DEF GuardState
  <2>2. guard' \in [GuardedRequest -> GuardState] /\ UNCHANGED <<cached, missed>>
    BY <1>2, <1>5, <2>1 DEF GiveUp, Load, AccessInv, TypeOK
  <2>3. ASSUME NEW v \in User PROVE FollowedFor(v)'
    BY <1>1, <2>2, UserKept DEF Excused, Left
  <2> QED
    BY <1>1, <2>2, <2>3 DEF AccessInv, TypeOK
<1> QED
  BY <1>4, <1>5

LEMMA AccessStep ==
  ASSUME AccessInv, [Next]_vars
  PROVE  AccessInv'
<1>1. ASSUME NEW a \in AdminRequest, RoleRequest(a) PROVE AccessInv'
  <2>1. CASE \E r \in Role : DeleteRole(a, r)
    BY <2>1, RoleDeleted
  <2> QED
    BY <1>1, <2>1, RoleAsked, ReplacementCommits, UsersFound, KeyForgotten, RequestAbandoned DEF RoleRequest
<1>2. CASE UserRequest
  BY <1>2, RoleAssigned, UserCreated, UserChecked DEF UserRequest
<1>3. CASE UNCHANGED vars
  <2>1. UNCHANGED <<roles, grants, links, cached, changed, admin, guard, missed>>
    BY <1>3 DEF vars
  <2>2. ASSUME NEW v \in User PROVE FollowedFor(v)'
    BY <2>1, UserKept DEF Excused, Left
  <2> QED
    BY <2>1, <2>2 DEF AccessInv, TypeOK
<1> QED
  BY <1>1, <1>2, <1>3, EntryInvalidated, GuardStep DEF Next

-----------------------------------------------------------------------------
(* ResultCache: one caller computes under the lock *)

\* Of the callers under the lock, at most one has not lost it, and then it is there.
CacheInv ==
  /\ C!TypeOK
  /\ \A r, s \in C!Holders \ lapsed : r = s
  /\ C!Holders \ lapsed # {} => locked

\* Where a call may stand.
LEMMA ReaderStates ==
  /\ C!Idle \in C!ReaderState
  /\ \A p \in {"acquire", "recheck", "compute", "fallback", "release"} : [at |-> p] \in C!ReaderState
  /\ \A n \in 0 .. MaxRetries : [at |-> "wait", retry |-> n] \in C!ReaderState
  /\ \A p \in {"store", "return"}, x \in C!Result : [at |-> p, result |-> x] \in C!ReaderState
BY DEF C!ReaderState

LEMMA ReaderFields ==
  ASSUME C!TypeOK, NEW r \in Reader
  PROVE  /\ reader[r].at = "wait" => reader[r].retry \in 0 .. MaxRetries /\ reader[r] = [at |-> "wait", retry |-> reader[r].retry]
         /\ reader[r].at \in {"store", "return"} =>
              reader[r].result \in C!Result /\ reader[r] = [at |-> reader[r].at, result |-> reader[r].result]
         /\ reader[r].at = "idle" <=> reader[r] = C!Idle
BY DEF C!TypeOK, C!ReaderState, C!Idle

\* A call that goes on, and is under the lock afterwards only if it was before.
LEMMA CallGoes ==
  ASSUME CacheInv, NEW r \in Reader, NEW s \in C!ReaderState, C!Goto(r, s),
         s.at \in {"recheck", "compute", "store", "release"} => r \in C!Holders
  PROVE  reader' \in [Reader -> C!ReaderState] /\ C!Holders' \subseteq C!Holders
BY DEF CacheInv, C!TypeOK, C!Goto, C!Holders

\* Fewer callers under the lock, as many that lost it, and the lock as it was.
LEMMA FewerHolders ==
  ASSUME CacheInv, C!TypeOK', C!Holders' \ lapsed' \subseteq C!Holders \ lapsed, locked \in BOOLEAN, locked' = locked
  PROVE  CacheInv'
BY DEF CacheInv

LEMMA CacheInit == C!Init => CacheInv
<1> SUFFICES ASSUME C!Init PROVE CacheInv
  OBVIOUS
<1>1. C!TypeOK
  BY ReaderStates DEF C!Init, C!TypeOK
<1>2. C!Holders = {}
  BY DEF C!Init, C!Holders, C!Idle
<1> QED
  BY <1>1, <1>2 DEF CacheInv

\* The lock is taken only when it is free, and then nobody is under it who has not lost it.
LEMMA AcquireStep ==
  ASSUME CacheInv, NEW r \in Reader, C!Acquire(r)
  PROVE  CacheInv'
<1> USE DEF CacheInv
<1>1. CASE C!Free
  <2>1. /\ C!Goto(r, [at |-> "recheck"]) /\ locked' = TRUE /\ locked = FALSE
        /\ UNCHANGED <<connected, entry, lapsed, announced>>
    BY <1>1 DEF C!Acquire, C!Free, C!TypeOK
  <2>2. C!TypeOK'
    BY <2>1, ReaderStates DEF C!Goto, C!TypeOK
  <2>3. C!Holders' \ lapsed' \subseteq {r}
    BY <2>1 DEF C!Goto, C!TypeOK, C!Holders
  <2> QED
    BY <2>1, <2>2, <2>3
<1>2. CASE ~C!Free
  <2>1. C!Goto(r, [at |-> "wait", retry |-> 0]) /\ UNCHANGED <<connected, entry, locked, lapsed, announced>>
    BY <1>2 DEF C!Acquire
  <2>2. [at |-> "wait", retry |-> 0] \in C!ReaderState
    BY ReaderStates, BoundsAssumption
  <2>3. reader' \in [Reader -> C!ReaderState] /\ C!Holders' \subseteq C!Holders
    BY <2>1, <2>2, CallGoes
  <2> QED
    BY <2>1, <2>3, FewerHolders DEF C!TypeOK
<1> QED
  BY <1>1, <1>2

\* What a call does between the lock and its answer.
LEMMA OwnStep ==
  ASSUME CacheInv, NEW r \in Reader,
         C!Call(r) \/ C!Recheck(r) \/ C!Compute(r) \/ C!Store(r) \/ C!Fail(r) \/ C!Wait(r) \/ C!Fallback(r) \/ C!Return(r)
  PROVE  CacheInv'
<1> USE DEF CacheInv
<1>1. UNCHANGED <<connected, locked, lapsed, announced>>
  BY DEF C!Call, C!Recheck, C!Compute, C!Store, C!Fail, C!Wait, C!Fallback, C!Return
<1>2. entry' \in C!Result \cup {"none"}
  BY ReaderFields DEF C!Call, C!Recheck, C!Compute, C!Store, C!Fail, C!Wait, C!Fallback, C!Return, C!TypeOK
<1>3. \E s \in C!ReaderState :
        C!Goto(r, s) /\ (s.at \in {"recheck", "compute", "store", "release"} => r \in C!Holders)
  <2>1. CASE C!Call(r)
    <3>1. entry # "none" => entry \in C!Result
      BY DEF C!TypeOK
    <3> QED
      BY <2>1, <3>1, ReaderStates DEF C!Call
  <2>2. CASE C!Recheck(r) \/ C!Compute(r) \/ C!Store(r)
    <3>1. r \in C!Holders /\ "fresh" \in C!Result
      BY <2>2 DEF C!Recheck, C!Compute, C!Store, C!Holders, C!Result
    <3> QED
      BY <2>2, <3>1, ReaderStates DEF C!Recheck, C!Compute, C!Store
  <2>3. CASE C!Fail(r)
    BY <2>3, ReaderStates DEF C!Fail, C!Holders, C!Idle
  <2>4. CASE C!Wait(r)
    <3>1. entry # "none" => entry \in C!Result
      BY DEF C!TypeOK
    <3>2. reader[r] = [at |-> "wait", retry |-> reader[r].retry] /\ reader[r].retry \in 0 .. MaxRetries
      BY <2>4, ReaderFields DEF C!Wait
    <3>3. CASE entry # "none"
      BY <2>4, <3>1, <3>3, ReaderStates DEF C!Wait
    <3>4. CASE entry = "none" /\ reader[r].retry < MaxRetries
      <4> DEFINE s == [at |-> "wait", retry |-> reader[r].retry + 1]
      <4>1. s \in C!ReaderState /\ s.at = "wait"
        BY <3>2, <3>4, ReaderStates, BoundsAssumption
      <4>2. C!Goto(r, s)
        BY <2>4, <3>2, <3>4 DEF C!Wait
      <4> QED
        BY <4>1, <4>2
    <3>5. CASE entry = "none" /\ ~(reader[r].retry < MaxRetries)
      BY <2>4, <3>5, ReaderStates DEF C!Wait, C!AfterRetries
    <3> QED
      BY <3>3, <3>4, <3>5
  <2>5. CASE C!Fallback(r) \/ C!Return(r)
    BY <2>5, ReaderStates DEF C!Fallback, C!Return, C!Result, C!Idle
  <2> QED
    BY <2>1, <2>2, <2>3, <2>4, <2>5
<1>4. reader' \in [Reader -> C!ReaderState] /\ C!Holders' \subseteq C!Holders
  BY <1>3, CallGoes
<1> QED
  BY <1>1, <1>2, <1>4, FewerHolders DEF C!TypeOK

\* The lock that is released may be the next one's: then nobody under the lock has it.
LEMMA ReleaseStep ==
  ASSUME CacheInv, NEW r \in Reader, C!Release(r)
  PROVE  CacheInv'
<1> USE DEF CacheInv
<1>1. /\ r \in C!Holders /\ C!Goto(r, C!Idle) /\ locked' = FALSE
      /\ lapsed' = (IF r \in lapsed /\ locked THEN lapsed \cup C!Holders ELSE lapsed) \ {r}
      /\ UNCHANGED <<connected, entry, announced>>
  BY DEF C!Release, C!Holders
<1>2. C!Holders' = C!Holders \ {r}
  BY <1>1 DEF C!Goto, C!Holders, C!TypeOK, C!Idle
<1>3. C!Holders' \ lapsed' = {}
  BY <1>1, <1>2
<1>4. C!TypeOK'
  BY <1>1, ReaderStates DEF C!Goto, C!TypeOK, C!Holders
<1> QED
  BY <1>3, <1>4

LEMMA CrashStep ==
  ASSUME CacheInv, NEW r \in Reader, C!Crash(r)
  PROVE  CacheInv'
<1> USE DEF CacheInv
<1>1. C!Goto(r, C!Idle) /\ lapsed' = lapsed \ {r} /\ UNCHANGED <<connected, entry, locked, announced>>
  BY DEF C!Crash
<1>2. C!Holders' \subseteq C!Holders \ {r}
  BY <1>1 DEF C!Goto, C!Holders, C!TypeOK, C!Idle
<1>3. C!TypeOK'
  BY <1>1, ReaderStates DEF C!Goto, C!TypeOK
<1> QED
  BY <1>1, <1>2, <1>3, FewerHolders DEF C!TypeOK

\* Redis, the writers and the listener.
LEMMA SurroundingsStep ==
  ASSUME CacheInv,
         C!Connect \/ C!ExpireLock \/ C!ExpireEntry \/ C!Invalidate \/ \E payment \in BOOLEAN : C!Write(payment)
  PROVE  CacheInv'
<1> USE DEF CacheInv
<1>1. CASE C!Connect \/ C!ExpireEntry \/ C!Invalidate
  BY <1>1 DEF C!Connect, C!ExpireEntry, C!Invalidate, C!TypeOK, C!Holders
<1>2. CASE C!ExpireLock
  BY <1>2 DEF C!ExpireLock, C!TypeOK, C!Holders
<1>3. ASSUME NEW payment \in BOOLEAN, C!Write(payment)
      PROVE  CacheInv'
  <2>1. ASSUME NEW r \in Reader
        PROVE  reader'[r] \in C!ReaderState /\ reader'[r].at = reader[r].at
    <3>1. CASE reader[r].at \in {"store", "return"}
      <4>1. reader'[r] = [at |-> reader[r].at, result |-> "stale"]
        <5>1. reader'[r] = [reader[r] EXCEPT !.result = "stale"]
          BY <1>3, <3>1 DEF C!Write
        <5>2. reader[r] = [at |-> reader[r].at, result |-> reader[r].result]
          BY <3>1, ReaderFields
        <5> QED
          BY <5>1, <5>2
      <4> QED
        BY <3>1, <4>1, ReaderStates DEF C!Result
    <3>2. CASE reader[r].at \notin {"store", "return"}
      BY <1>3, <3>2 DEF C!Write, C!TypeOK
    <3> QED
      BY <3>1, <3>2
  <2>2. reader' \in [Reader -> C!ReaderState] /\ C!Holders' = C!Holders
    BY <1>3, <2>1 DEF C!Write, C!Holders
  <2> QED
    BY <1>3, <2>2 DEF C!Write, C!TypeOK, C!Result
<1> QED
  BY <1>1, <1>2, <1>3

LEMMA CacheStep ==
  ASSUME CacheInv, [C!Next]_cacheVars
  PROVE  CacheInv'
<1>1. CASE UNCHANGED cacheVars
  BY <1>1 DEF cacheVars, CacheInv, C!TypeOK, C!Holders
<1> QED
  BY <1>1, AcquireStep, OwnStep, ReleaseStep, CrashStep, SurroundingsStep DEF C!Next, C!Proceed

\* The module's Cardinality is the one of FiniteSets.
LEMMA SameCardinality == \A readers : C!Cardinality(readers) = Cardinality(readers)
BY DEF C!Cardinality, Cardinality

LEMMA CacheInvImplies == CacheInv => OneComputesUnlessLapsed
<1> SUFFICES ASSUME CacheInv PROVE Cardinality(C!Holders \ lapsed) <= 1
  BY SameCardinality DEF OneComputesUnlessLapsed, C!OneComputesUnlessLapsed
<1>1. CASE C!Holders \ lapsed = {}
  <2>1. Cardinality({}) = 0
    BY FS_EmptySet
  <2> QED
    BY <1>1, <2>1
<1>2. ASSUME NEW r \in C!Holders \ lapsed PROVE Cardinality(C!Holders \ lapsed) <= 1
  <2>1. C!Holders \ lapsed = {r}
    BY <1>2 DEF CacheInv
  <2> QED
    BY <2>1, FS_Singleton
<1> QED
  BY <1>1, <1>2

-----------------------------------------------------------------------------
(* Idempotency: a key is handled twice only with an excuse *)

\* A request that has looked its key up and stored nothing yet.
Working(q, f) == request[q].at \in {"handle", "store"} /\ request[q].form = f

\* Without an excuse one request at most is at work for a key, nothing is stored
\* meanwhile, and what was handled is stored or about to be.
KeyInv(f) ==
  /\ \A q, o \in Request : Working(q, f) /\ Working(o, f) => q = o
  /\ \A q \in Request : Working(q, f) => stored[f] = I!Nothing
  /\ \A q \in Request : request[q].at = "handle" /\ request[q].form = f => runs[f] = 0
  /\ runs[f] <= 1
  /\ runs[f] = 1 => stored[f] # I!Nothing \/ \E q \in Request : request[q].at = "store" /\ request[q].form = f

\* What is to be stored answers the payload it is stored with.
AnswersPayload == \A q \in Request : request[q].at = "store" => request[q].response = request[q].payload

IdempotencyInv == I!TypeOK /\ AnswersPayload /\ \A f \in Form : f \notin excused => KeyInv(f)

LEMMA IdempotencyInvImplies == IdempotencyInv => HandledTwiceOnlyIfExcused
BY DEF IdempotencyInv, KeyInv, HandledTwiceOnlyIfExcused, I!HandledTwiceOnlyIfExcused

LEMMA RequestStates ==
  ASSUME I!TypeOK, NEW q \in Request
  PROVE  /\ request[q].at \in {"idle", "lookup", "handle", "store", "respond"}
         /\ request[q].at # "idle" => request[q].form \in Form /\ request[q].payload \in Payload
         /\ request[q].at \in {"lookup", "handle"} =>
              request[q] = [at |-> request[q].at, form |-> request[q].form, payload |-> request[q].payload]
         /\ request[q].at \in {"store", "respond"} => request[q].response \in Payload \cup {"conflict"}
         /\ request[q].at = "idle" <=> request[q] = I!Idle
BY DEF I!TypeOK, I!RequestState, I!Idle

LEMMA RequestTypes ==
  /\ I!Idle \in I!RequestState
  /\ \A f \in Form, p \in Payload :
       /\ \A at \in {"lookup", "handle"} : [at |-> at, form |-> f, payload |-> p] \in I!RequestState
       /\ \A at \in {"store", "respond"}, x \in Payload \cup {"conflict"} :
            [at |-> at, form |-> f, payload |-> p, response |-> x] \in I!RequestState
BY DEF I!RequestState

LEMMA IdempotencyInit == I!Init => IdempotencyInv
<1> SUFFICES ASSUME I!Init PROVE IdempotencyInv
  OBVIOUS
<1>1. I!TypeOK
  BY RequestTypes DEF I!Init, I!TypeOK
<1>2. \A q \in Request, f \in Form : ~Working(q, f) /\ request[q].at # "handle"
  BY DEF I!Init, I!Idle, Working
<1>3. \A f \in Form : runs[f] = 0
  BY DEF I!Init
<1> QED
  BY <1>1, <1>2, <1>3 DEF IdempotencyInv, KeyInv, AnswersPayload, I!Init, I!Idle

\* A step that puts nobody to work, for whom no run and no response is touched, and that
\* takes nobody off who has handled.
LEMMA KeyKept ==
  ASSUME IdempotencyInv, NEW f \in Form, f \notin excused', excused \subseteq excused',
         stored'[f] = stored[f], runs'[f] = runs[f],
         \A q \in Request : \/ request'[q] = request[q]
                            \/ ~Working(q, f)' /\ ~(request[q].at = "store" /\ request[q].form = f)
  PROVE  KeyInv(f)'
<1>1. KeyInv(f)
  BY DEF IdempotencyInv
<1>2. \A q \in Request : Working(q, f)' => Working(q, f) /\ request'[q] = request[q]
  BY DEF Working
<1>3. \A q \in Request : request[q].at = "store" /\ request[q].form = f => request'[q] = request[q]
  OBVIOUS
<1> QED
  BY <1>1, <1>2, <1>3 DEF KeyInv, Working

\* Submissions, answers, hits, failures: nobody begins to handle.
LEMMA NobodyHandles ==
  ASSUME IdempotencyInv, NEW q \in Request,
         \/ \E f \in Form, p \in Payload : I!Submit(q, f, p)
         \/ I!Answer(q) \/ I!Found(q) \/ I!HandlerThrows(q) \/ I!NotStored(q)
  PROVE  IdempotencyInv'
<1> USE DEF IdempotencyInv
<1>1. UNCHANGED <<stored, runs>> /\ excused \subseteq excused'
  BY RequestStates DEF I!Submit, I!Answer, I!Found, I!HandlerThrows, I!NotStored
<1>2. \E x \in I!RequestState : request' = [request EXCEPT ![q] = x] /\ x.at \in {"idle", "lookup", "respond"}
  <2>1. CASE \E f \in Form, p \in Payload : I!Submit(q, f, p)
    BY <2>1, RequestTypes DEF I!Submit
  <2>2. CASE I!Answer(q) \/ I!HandlerThrows(q) \/ I!NotStored(q)
    BY <2>2, RequestTypes DEF I!Answer, I!HandlerThrows, I!NotStored, I!Idle
  <2>3. CASE I!Found(q)
    <3> DEFINE form == request[q].form
               x == IF stored[form].payload = request[q].payload THEN stored[form].response ELSE "conflict"
    <3>1. form \in Form /\ request[q].payload \in Payload /\ stored[form] # I!Nothing
      BY <2>3, RequestStates DEF I!Found
    <3>2. x \in Payload \cup {"conflict"}
      BY <3>1 DEF I!TypeOK, I!Stored
    <3>3. request' = [request EXCEPT ![q] = [at |-> "respond", form |-> form, payload |-> request[q].payload, response |-> x]]
      BY <2>3 DEF I!Found, I!Respond
    <3> HIDE DEF x
    <3> QED
      BY <3>1, <3>2, <3>3, RequestTypes
  <2> QED
    BY <2>1, <2>2, <2>3
<1>3. I!TypeOK'
  BY <1>1, <1>2, RequestStates DEF I!TypeOK, I!Submit, I!Answer, I!Found, I!HandlerThrows, I!NotStored
<1>4. ASSUME NEW f \in Form, f \notin excused' PROVE KeyInv(f)'
  <2>1. ~(request[q].at = "store" /\ request[q].form = f)
    BY <1>4 DEF I!Submit, I!Answer, I!Found, I!HandlerThrows, I!NotStored, I!Idle
  <2>2. ~Working(q, f)' /\ \A o \in Request : o # q => request'[o] = request[o]
    BY <1>2 DEF I!TypeOK, Working
  <2>3. stored'[f] = stored[f] /\ runs'[f] = runs[f]
    BY <1>1
  <2>4. ASSUME NEW o \in Request
        PROVE  \/ request'[o] = request[o]
               \/ ~Working(o, f)' /\ ~(request[o].at = "store" /\ request[o].form = f)
    <3>1. CASE o = q
      <4>1. ~Working(q, f)'
        BY <2>2
      <4> QED
        BY <3>1, <4>1, <2>1 DEF Working
    <3>2. CASE o # q
      BY <3>2, <2>2
    <3> QED
      BY <3>1, <3>2
  <2> QED
    BY <1>1, <1>4, <2>3, <2>4, KeyKept
<1>5. AnswersPayload'
  BY <1>2 DEF I!TypeOK, AnswersPayload
<1> QED
  BY <1>3, <1>4, <1>5

\* Who misses the key is at work alone, or the key is excused; and then nothing was handled.
LEMMA MissedStep ==
  ASSUME IdempotencyInv, NEW q \in Request, I!Missed(q)
  PROVE  IdempotencyInv'
<1> USE DEF IdempotencyInv
<1> DEFINE form == request[q].form
<1>1. /\ request[q].at = "lookup" /\ form \in Form /\ stored[form] = I!Nothing
      /\ request' = [request EXCEPT ![q] = [at |-> "handle", form |-> form, payload |-> request[q].payload]]
      /\ excused' = (IF I!Overlapping(q) # {} THEN excused \cup {form} ELSE excused)
      /\ UNCHANGED <<stored, runs>>
  <2>1. request[q] = [at |-> "lookup", form |-> form, payload |-> request[q].payload] /\ form \in Form
    BY RequestStates DEF I!Missed
  <2>2. request' = [request EXCEPT ![q] = [request[q] EXCEPT !.at = "handle"]]
    BY DEF I!Missed
  <2>3. [request[q] EXCEPT !.at = "handle"] = [at |-> "handle", form |-> form, payload |-> request[q].payload]
    BY <2>1
  <2> HIDE DEF form
  <2> QED
    BY <2>1, <2>2, <2>3 DEF I!Missed, form
<1>2. I!TypeOK'
  BY <1>1, RequestStates, RequestTypes DEF I!TypeOK
<1>3. ASSUME NEW f \in Form, f \notin excused' PROVE KeyInv(f)'
  <2>1. CASE f = form
    <3>1. \A o \in Request : o # q => ~Working(o, f)
      BY <1>1, <1>3, <2>1 DEF I!Overlapping, Working
    <3>2. ~Working(q, f) /\ KeyInv(f)
      BY <1>1, <1>3 DEF Working
    <3>3. runs[f] = 0
      BY <1>1, <2>1, <3>1, <3>2 DEF KeyInv, Working, I!TypeOK
    <3>4. \A o \in Request : Working(o, f)' => o = q
      BY <1>1, <3>1 DEF Working, I!TypeOK
    <3> QED
      BY <1>1, <2>1, <3>3, <3>4 DEF KeyInv, Working
  <2>2. CASE f # form
    <3>1. ~Working(q, f)' /\ \A o \in Request : o # q => request'[o] = request[o]
      BY <1>1, <2>2 DEF Working, I!TypeOK
    <3> QED
      BY <1>1, <1>3, <2>2, <3>1, KeyKept
  <2> QED
    BY <2>1, <2>2
<1>5. AnswersPayload'
  BY <1>1 DEF I!TypeOK, AnswersPayload
<1> QED
  BY <1>2, <1>3, <1>5

\* The one at work handles, once.
LEMMA HandleStep ==
  ASSUME IdempotencyInv, NEW q \in Request, I!Handle(q)
  PROVE  IdempotencyInv'
<1> USE DEF IdempotencyInv
<1> DEFINE form == request[q].form
           x == [at |-> "store", form |-> form, payload |-> request[q].payload, response |-> request[q].payload]
<1>1. /\ request[q].at = "handle" /\ form \in Form /\ request[q].payload \in Payload
      /\ request' = [request EXCEPT ![q] = x]
      /\ runs' = [runs EXCEPT ![form] = IF @ = 2 THEN 2 ELSE @ + 1]
      /\ UNCHANGED <<stored, excused>>
  BY RequestStates DEF I!Handle
<1>2. x \in I!RequestState
  BY <1>1, RequestTypes
<1>3. I!TypeOK'
  BY <1>1, <1>2 DEF I!TypeOK
<1>4. ASSUME NEW f \in Form, f \notin excused' PROVE KeyInv(f)'
  <2>1. KeyInv(f) /\ request'[q] = x /\ \A o \in Request : o # q => request'[o] = request[o]
    BY <1>1, <1>4 DEF I!TypeOK
  <2>2. CASE f = form
    <3>1. runs[f] = 0 /\ runs'[f] = 1 /\ Working(q, f) /\ \A o \in Request : Working(o, f) => o = q
      BY <1>1, <2>1, <2>2 DEF KeyInv, Working, I!TypeOK
    <3>2. \A o \in Request : Working(o, f)' => o = q
      BY <2>1, <3>1 DEF Working
    <3>3. request'[q].at = "store" /\ request'[q].form = f /\ stored'[f] = I!Nothing
      BY <1>1, <2>1, <2>2, <3>1 DEF KeyInv
    <3> QED
      BY <3>1, <3>2, <3>3 DEF KeyInv, Working
  <2>3. CASE f # form
    BY <1>1, <1>4, <2>1, <2>3, KeyKept DEF Working, I!TypeOK
  <2> QED
    BY <2>2, <2>3
<1>5. AnswersPayload'
  BY <1>1 DEF I!TypeOK, AnswersPayload
<1> QED
  BY <1>3, <1>4, <1>5

\* From the store on every submission of the key is a hit.
LEMMA StoreStep ==
  ASSUME IdempotencyInv, NEW q \in Request, I!Store(q)
  PROVE  IdempotencyInv'
<1> USE DEF IdempotencyInv
<1> DEFINE form == request[q].form
           x == [at |-> "respond", form |-> form, payload |-> request[q].payload, response |-> request[q].response]
<1>1. /\ request[q].at = "store" /\ form \in Form /\ request[q].payload \in Payload
      /\ request' = [request EXCEPT ![q] = x]
      /\ stored' = [stored EXCEPT ![form] = [payload |-> request[q].payload, response |-> request[q].response]]
      /\ UNCHANGED <<runs, excused>>
  BY RequestStates DEF I!Store, I!Respond, I!Kept
<1>2. request[q].response \in Payload
  BY <1>1 DEF AnswersPayload
<1>3. I!TypeOK'
  BY <1>1, <1>2, RequestTypes DEF I!TypeOK, I!Stored
<1>4. ASSUME NEW f \in Form, f \notin excused' PROVE KeyInv(f)'
  <2>1. KeyInv(f) /\ request'[q] = x /\ \A o \in Request : o # q => request'[o] = request[o]
    BY <1>1, <1>4 DEF I!TypeOK
  <2>2. CASE f = form
    <3>1. \A o \in Request : ~Working(o, f)'
      BY <1>1, <2>1, <2>2 DEF KeyInv, Working
    <3>2. stored'[f] # I!Nothing
      BY <1>1, <1>2, <2>2 DEF I!TypeOK, I!Nothing
    <3> QED
      BY <1>1, <2>1, <3>1, <3>2 DEF KeyInv, Working
  <2>3. CASE f # form
    BY <1>1, <1>4, <2>1, <2>3, KeyKept DEF Working, I!TypeOK
  <2> QED
    BY <2>2, <2>3
<1>5. AnswersPayload'
  BY <1>1 DEF I!TypeOK, AnswersPayload
<1> QED
  BY <1>3, <1>4, <1>5

LEMMA IdempotencyStep ==
  ASSUME IdempotencyInv, [I!Next]_idempotencyVars
  PROVE  IdempotencyInv'
<1>1. ASSUME NEW f \in Form, I!Expire(f) PROVE IdempotencyInv'
  <2>1. I!TypeOK'
    BY <1>1 DEF IdempotencyInv, I!TypeOK, I!Expire
  <2>2. ASSUME NEW g \in Form, g \notin excused' PROVE KeyInv(g)'
    BY <1>1, <2>2, KeyKept DEF I!Expire, IdempotencyInv, I!TypeOK
  <2>3. AnswersPayload'
    BY <1>1 DEF I!Expire, IdempotencyInv, AnswersPayload
  <2> QED
    BY <2>1, <2>2, <2>3 DEF IdempotencyInv
<1>2. CASE UNCHANGED idempotencyVars
  BY <1>2 DEF idempotencyVars, IdempotencyInv, I!TypeOK, AnswersPayload, KeyInv, Working
<1> QED
  BY <1>1, <1>2, NobodyHandles, MissedStep, HandleStep, StoreStep DEF I!Next

-----------------------------------------------------------------------------
(* Requests: the audit log reaches the change *)

\* What a request has read or committed is no later than the entity's version.
RequestInv ==
  /\ Q!TypeOK
  /\ AuditReachesTheChange
  /\ \A q \in Request : audited[q].at # "idle" =>
       /\ audited[q].before <= version[audited[q].tenant]
       /\ audited[q].own <= version[audited[q].tenant]
       /\ audited[q].at = "done" => audited[q].own \in 0 .. MaxVersion

LEMMA AuditedFields ==
  ASSUME Q!TypeOK, NEW q \in Request
  PROVE  /\ audited[q].at \in {"idle", "run", "done"}
         /\ audited[q].at = "idle" <=> audited[q] = Q!Idle
         /\ audited[q].at # "idle" =>
              /\ audited[q] \in Q!Running /\ audited[q].tenant \in Tenant
              /\ audited[q].before \in -1 .. MaxVersion /\ audited[q].own \in -1 .. MaxVersion
BY DEF Q!TypeOK, Q!Running, Q!Idle, Q!NotRead

LEMMA RequestInit == Q!Init => RequestInv
BY BoundsAssumption DEF Q!Init, RequestInv, Q!TypeOK, Q!Idle, AuditReachesTheChange, Q!AuditReachesTheChange

Done(r, n) == [r EXCEPT !.at = "done", !.own = n]

LEMMA DoneRecord ==
  \A a, t, b, c, n : Done([at |-> a, tenant |-> t, before |-> b, own |-> c], n)
                       = [at |-> "done", tenant |-> t, before |-> b, own |-> n]
<1> SUFFICES ASSUME NEW a, NEW t, NEW b, NEW c, NEW n,
                    NEW r, r = [at |-> a, tenant |-> t, before |-> b, own |-> c], NEW x, x = Done(r, n)
             PROVE  x = [at |-> "done", tenant |-> t, before |-> b, own |-> n]
  OBVIOUS
<1>1. x = [r EXCEPT !.at = "done", !.own = n]
  BY DEF Done
<1> QED
  BY <1>1, Zenon

LEMMA RequestStep ==
  ASSUME RequestInv, [Q!Next]_requestVars
  PROVE  RequestInv'
<1> USE DEF RequestInv, AuditReachesTheChange, Q!AuditReachesTheChange
<1>1. ASSUME NEW q \in Request, NEW t \in Q!AdmittedTenants, Q!Admit(q, t)
      PROVE  RequestInv'
  <2>1. t \in Tenant
    BY DEF Q!AdmittedTenants, Q!TenantOf, Q!Inputs
  <2> DEFINE x == [at |-> "run", tenant |-> t, before |-> -1, own |-> -1]
  <2>2. x \in Q!Running /\ -1 <= version[t]
    BY <2>1, BoundsAssumption DEF Q!Running, Q!NotRead, Q!TypeOK
  <2>3. audited' = [audited EXCEPT ![q] = x] /\ UNCHANGED <<version, audit>>
    BY <1>1 DEF Q!Admit, Q!NotRead
  <2> QED
    BY <2>1, <2>2, <2>3, BoundsAssumption DEF Q!TypeOK
<1>2. ASSUME NEW q \in Request, Q!ReadBefore(q)
      PROVE  RequestInv'
  <2> DEFINE v == version[audited[q].tenant]
  <2>1. audited[q] \in Q!Running /\ audited[q].tenant \in Tenant /\ v \in 0 .. MaxVersion
    BY <1>2, AuditedFields DEF Q!ReadBefore, Q!TypeOK
  <2>2. [audited[q] EXCEPT !.before = v] \in Q!Running
    BY <2>1, BoundsAssumption DEF Q!Running, Q!NotRead
  <2>3. audited' = [audited EXCEPT ![q] = [audited[q] EXCEPT !.before = v]] /\ UNCHANGED <<version, audit>>
    BY <1>2 DEF Q!ReadBefore
  <2> QED
    BY <2>1, <2>2, <2>3, BoundsAssumption DEF Q!TypeOK, Q!Running
<1>3. ASSUME NEW q \in Request, Q!Handle(q)
      PROVE  RequestInv'
  <2> DEFINE t == audited[q].tenant
             x == [audited[q] EXCEPT !.at = "done", !.own = version[t] + 1]
  <2>1. audited[q] \in Q!Running /\ t \in Tenant /\ version[t] \in 0 .. MaxVersion /\ version[t] < MaxVersion
    BY <1>3, AuditedFields DEF Q!Handle, Q!TypeOK
  <2>2. x \in Q!Running /\ x.tenant = t /\ x.before = audited[q].before /\ x.own = version[t] + 1 /\ x.own \in 0 .. MaxVersion
    <3>1. PICK a \in {"run", "done"}, b \in Q!NotRead .. MaxVersion, c \in Q!NotRead .. MaxVersion :
            audited[q] = [at |-> a, tenant |-> t, before |-> b, own |-> c]
      BY <2>1 DEF Q!Running
    <3>2. x = Done(audited[q], version[t] + 1)
      BY DEF Done
    <3> HIDE DEF x, t
    <3>3. x = [at |-> "done", tenant |-> t, before |-> b, own |-> version[t] + 1]
      BY <3>1, <3>2, DoneRecord
    <3>4. x.own = version[t] + 1 /\ x.before = audited[q].before
      BY <3>1, <3>3
    <3>5. version[t] + 1 \in 0 .. MaxVersion /\ version[t] + 1 \in Q!NotRead .. MaxVersion
      BY <2>1, BoundsAssumption DEF Q!NotRead
    <3> QED
      BY <2>1, <3>1, <3>3, <3>4, <3>5 DEF Q!Running
  <2>3. /\ audited' = [audited EXCEPT ![q] = x] /\ version' = [version EXCEPT ![t] = @ + 1]
        /\ UNCHANGED audit
    BY <1>3 DEF Q!Handle
  <2> HIDE DEF x, t
  <2>4. Q!TypeOK'
    BY <2>1, <2>2, <2>3, BoundsAssumption DEF Q!TypeOK
  <2>5. ASSUME NEW o \in Request, audited'[o].at # "idle"
        PROVE  /\ audited'[o].before <= version'[audited'[o].tenant]
               /\ audited'[o].own <= version'[audited'[o].tenant]
               /\ audited'[o].at = "done" => audited'[o].own \in 0 .. MaxVersion
    <3>1. \A s \in Tenant : version[s] \in 0 .. MaxVersion /\ version[s] <= version'[s]
      BY <2>1, <2>3, BoundsAssumption DEF Q!TypeOK
    <3>2. CASE o = q
      <4>1. audited'[o] = x /\ version'[t] = version[t] + 1
        BY <2>1, <2>3, <3>2 DEF Q!TypeOK
      <4>2. audited[q].before <= version[t] /\ audited[q].before \in -1 .. MaxVersion
        BY <1>3, AuditedFields DEF Q!Handle, t
      <4> QED
        BY <2>1, <2>2, <4>1, <4>2, BoundsAssumption
    <3>3. CASE o # q
      <4>1. audited'[o] = audited[o]
        BY <2>3, <3>3 DEF Q!TypeOK
      <4>2. audited[o].tenant \in Tenant /\ audited[o].before \in -1 .. MaxVersion /\ audited[o].own \in -1 .. MaxVersion
        BY <2>5, <4>1, AuditedFields
      <4>3. /\ audited[o].before <= version[audited[o].tenant]
            /\ audited[o].own <= version[audited[o].tenant]
            /\ audited[o].at = "done" => audited[o].own \in 0 .. MaxVersion
        BY <2>5, <4>1
      <4>4. version[audited[o].tenant] \in Int /\ version'[audited[o].tenant] \in Int
            /\ version[audited[o].tenant] <= version'[audited[o].tenant]
        BY <4>2, <3>1, <2>4 DEF Q!TypeOK
      <4> QED
        BY <4>1, <4>2, <4>3, <4>4
    <3> QED
      BY <3>2, <3>3
  <2> QED
    BY <2>3, <2>4, <2>5
<1>4. ASSUME NEW q \in Request, Q!HandlerThrows(q) \/ Q!AuditFails(q)
      PROVE  RequestInv'
  <2>1. audited' = [audited EXCEPT ![q] = Q!Idle] /\ UNCHANGED <<version, audit>>
    BY <1>4 DEF Q!HandlerThrows, Q!AuditFails
  <2> QED
    BY <2>1 DEF Q!TypeOK, Q!Idle
<1>5. ASSUME NEW q \in Request, Q!WriteAudit(q)
      PROVE  RequestInv'
  <2> DEFINE r == audited[q]
             row == [tenant |-> r.tenant, old |-> r.before, new |-> version[r.tenant], own |-> r.own]
  <2>1. r.at = "done" /\ r.before # -1 /\ r.tenant \in Tenant /\ version[r.tenant] \in 0 .. MaxVersion
        /\ r.before \in -1 .. MaxVersion
    BY <1>5, AuditedFields DEF Q!WriteAudit, Q!NotRead, Q!TypeOK
  <2>2. row \in Q!Row /\ row.old <= row.new /\ row.own <= row.new
    BY <2>1, BoundsAssumption DEF Q!Row
  <2>3. audited' = [audited EXCEPT ![q] = Q!Idle] /\ audit' = audit \cup {row} /\ UNCHANGED version
    BY <1>5 DEF Q!WriteAudit, Q!NewSnapshot
  <2> HIDE DEF r, row
  <2> QED
    BY <2>2, <2>3 DEF Q!TypeOK, Q!Idle
<1>6. CASE UNCHANGED requestVars
  BY <1>6 DEF requestVars, Q!TypeOK
<1> QED
  BY <1>1, <1>2, <1>3, <1>4, <1>5, <1>6 DEF Q!Next

-----------------------------------------------------------------------------
(* Branches: nobody is locked out by half a replacement *)

BranchInv == B!TypeOK

LEMMA BranchInit == B!Init => BranchInv
BY DEF B!Init, BranchInv, B!TypeOK, B!ReplacerState, B!Idle

\* Where a replacement may stand.
LEMMA ReplacerFields ==
  ASSUME BranchInv, NEW q \in Replacer, replacing[q] # B!Idle
  PROVE  /\ replacing[q] = [at |-> "insert", user |-> replacing[q].user, to |-> replacing[q].to, deleted |-> replacing[q].deleted]
         /\ replacing[q].user \in User /\ replacing[q].to \subseteq Branch /\ replacing[q].deleted \subseteq Branch
BY DEF BranchInv, B!TypeOK, B!ReplacerState

LEMMA AtInsert == \A q \in Replacer : replacing[q].at = "insert" => replacing[q] # B!Idle
BY DEF B!Idle

LEMMA BranchStep ==
  ASSUME BranchInv, [B!Next]_branchVars
  PROVE  BranchInv'
<1> USE DEF BranchInv
<1>1. ASSUME NEW b \in Branch, B!SoftDelete(b) \/ \E u \in User : B!Create(b, u) \/ B!AssignUser(u, b) \/ B!UnlinkUser(u, b)
      PROVE  BranchInv'
  BY <1>1 DEF B!SoftDelete, B!Create, B!OnboardBranch, B!AssignUser, B!UnlinkUser, B!TypeOK
<1>2. ASSUME NEW q \in Replacer, NEW u \in User, NEW bs \in SUBSET Branch, B!StartReplace(q, u, bs)
      PROVE  BranchInv'
  <2>1. [at |-> "insert", user |-> u, to |-> bs, deleted |-> B!BranchesOf(u)] \in B!ReplacerState
    BY DEF B!ReplacerState, B!BranchesOf
  <2> QED
    BY <1>2, <2>1 DEF B!StartReplace, B!AfterDelete, B!TypeOK
<1>3. ASSUME NEW q \in Replacer, B!CommitReplace(q)
      PROVE  BranchInv'
  <2>1. replacing[q].user \in User /\ replacing[q].to \subseteq Branch
    BY <1>3, AtInsert, ReplacerFields DEF B!CommitReplace
  <2>2. userBranches' \subseteq User \X Branch
    BY <1>3, <2>1 DEF B!CommitReplace, B!LinksTo, B!TypeOK
  <2>3. ASSUME NEW o \in Replacer PROVE replacing'[o] \in B!ReplacerState
    <3>1. CASE o = q \/ o \notin B!Waiters(q)
      BY <1>3, <3>1 DEF B!CommitReplace, B!TypeOK, B!ReplacerState
    <3>2. CASE o # q /\ o \in B!Waiters(q)
      <4>1. replacing'[o] = [replacing[o] EXCEPT !.deleted = @ \ replacing[q].deleted]
        BY <1>3, <3>2 DEF B!CommitReplace
      <4>2. /\ replacing[o] = [at |-> "insert", user |-> replacing[o].user, to |-> replacing[o].to, deleted |-> replacing[o].deleted]
            /\ replacing[o].user \in User /\ replacing[o].to \subseteq Branch /\ replacing[o].deleted \subseteq Branch
        BY <3>2, AtInsert, ReplacerFields DEF B!Waiters
      <4> DEFINE d == replacing[o].deleted \ replacing[q].deleted
      <4>3. replacing'[o] = [at |-> "insert", user |-> replacing[o].user, to |-> replacing[o].to, deleted |-> d]
        BY <4>1, <4>2
      <4>4. d \subseteq Branch
        BY <4>2
      <4> HIDE DEF d
      <4> QED
        BY <4>2, <4>3, <4>4 DEF B!ReplacerState
    <3> QED
      BY <3>1, <3>2
  <2> QED
    BY <1>3, <2>2, <2>3 DEF B!CommitReplace, B!TypeOK
<1>4. ASSUME NEW q \in Replacer, B!RollBackReplace(q)
      PROVE  BranchInv'
  BY <1>4 DEF B!RollBackReplace, B!TypeOK, B!ReplacerState
<1>5. CASE UNCHANGED branchVars
  BY <1>5 DEF branchVars, B!TypeOK
<1> QED
  BY <1>1, <1>2, <1>3, <1>4, <1>5 DEF B!Next

\* Whoever sees no branch any more lost a link or a branch, or was given none in use.
LEMMA LockedOutStep ==
  ASSUME BranchInv, [B!Next]_branchVars, NEW u \in User, B!ListByUser(u) # {}, B!ListByUser(u)' = {}
  PROVE  \/ \E b \in Branch : B!UnlinkUser(u, b) \/ B!SoftDelete(b)
         \/ \E q \in Replacer : /\ replacing[q] # B!Idle /\ replacing[q].user = u
                               /\ \A b \in replacing[q].to : branches[b] = "deleted"
<1>1. PICK c \in Branch : <<u, c>> \in userBranches /\ branches[c] # "deleted"
  BY DEF B!ListByUser, B!BranchesOf
<1>2. <<u, c>> \notin userBranches' \/ branches'[c] = "deleted"
  BY DEF B!ListByUser, B!BranchesOf
<1>3. ASSUME NEW b \in Branch, NEW v \in User, B!Create(b, v) \/ B!AssignUser(v, b) PROVE FALSE
  BY <1>1, <1>2, <1>3 DEF B!Create, B!OnboardBranch, B!AssignUser, BranchInv, B!TypeOK
<1>4. ASSUME NEW b \in Branch, NEW v \in User, B!UnlinkUser(v, b) PROVE v = u
  BY <1>1, <1>2, <1>4 DEF B!UnlinkUser
<1>5. ASSUME NEW q \in Replacer, B!CommitReplace(q)
      PROVE  /\ replacing[q] # B!Idle /\ replacing[q].user = u
             /\ \A b \in replacing[q].to : branches[b] = "deleted"
  <2>1. replacing[q] # B!Idle /\ replacing[q].to \subseteq Branch
    BY <1>5, AtInsert, ReplacerFields DEF B!CommitReplace
  <2>2. replacing[q].user = u
    BY <1>1, <1>2, <1>5 DEF B!CommitReplace, B!LinksTo
  <2>3. ASSUME NEW b \in replacing[q].to PROVE branches[b] = "deleted"
    <3>1. <<u, b>> \in userBranches' /\ branches' = branches
      BY <1>5, <2>2 DEF B!CommitReplace, B!LinksTo
    <3> QED
      BY <2>1, <3>1 DEF B!ListByUser, B!BranchesOf
  <2> QED
    BY <2>1, <2>2, <2>3
<1>6. ASSUME NEW q \in Replacer, B!RollBackReplace(q) \/ \E v \in User, bs \in SUBSET Branch : B!StartReplace(q, v, bs)
      PROVE  FALSE
  BY <1>1, <1>2, <1>6 DEF B!RollBackReplace, B!StartReplace, B!AfterDelete
<1>7. CASE UNCHANGED branchVars
  BY <1>1, <1>2, <1>7 DEF branchVars
<1> QED
  BY <1>3, <1>4, <1>5, <1>6, <1>7 DEF B!Next

-----------------------------------------------------------------------------
(* SignIn: a tab comes back to where it left *)

\* The flows of tabs were started, and what the cookies hold is of the tab whose flow
\* they name.
SignInInv ==
  /\ S!TypeOK
  /\ oidc # S!None => oidc.flow \in used
  /\ \A t \in Tab : tab[t].at \in {"authorize", "callback"} =>
       tab[t].flow \in used /\ (oidc.flow = tab[t].flow => oidc.page = tab[t].page)

LEMMA TabFields ==
  ASSUME S!TypeOK, NEW t \in Tab
  PROVE  /\ tab[t].at \in {"page", "leaving", "authorize", "callback", "elsewhere"}
         /\ tab[t].at \in {"page", "leaving"} => tab[t].page \in Page /\ tab[t] = [at |-> tab[t].at, page |-> tab[t].page]
         /\ tab[t].at \in {"authorize", "callback"} =>
              /\ tab[t].page \in Page /\ tab[t].flow \in Flow
              /\ tab[t] = [at |-> tab[t].at, page |-> tab[t].page, flow |-> tab[t].flow]
BY DEF S!TypeOK, S!TabState

LEMMA TabStates ==
  /\ [at |-> "elsewhere"] \in S!TabState
  /\ \A p \in Page : /\ \A at \in {"page", "leaving"} : [at |-> at, page |-> p] \in S!TabState
                     /\ \A at \in {"authorize", "callback"}, f \in Flow : [at |-> at, page |-> p, flow |-> f] \in S!TabState
BY DEF S!TabState

LEMMA SignInInit == S!Init => SignInInv
BY TabStates DEF S!Init, SignInInv, S!TypeOK

\* A tab that goes where no flow is pending, with the cookies as they were or cleared.
LEMMA NoFlow ==
  ASSUME SignInInv, NEW t \in Tab, NEW x \in S!TabState, x.at \notin {"authorize", "callback"},
         tab' = [tab EXCEPT ![t] = x], oidc' \in {oidc, S!None}, used' = used
  PROVE  /\ oidc' \in S!Cookies \cup {S!None} /\ tab' \in [Tab -> S!TabState]
         /\ oidc' # S!None => oidc'.flow \in used'
         /\ \A s \in Tab : tab'[s].at \in {"authorize", "callback"} =>
              tab'[s].flow \in used' /\ (oidc'.flow = tab'[s].flow => oidc'.page = tab'[s].page)
<1>1. \A s \in Tab : tab'[s].at \in {"authorize", "callback"} => tab'[s] = tab[s] /\ tab[s].flow \in Flow
  BY TabFields DEF SignInInv, S!TypeOK
<1>2. S!None.flow \notin Flow
  BY FlowAssumption DEF S!None
<1> QED
  BY <1>1, <1>2 DEF SignInInv, S!TypeOK

LEMMA SignInStep ==
  ASSUME SignInInv, [S!Next]_signInVars
  PROVE  SignInInv'
<1> USE DEF SignInInv
<1>1. ASSUME NEW t \in Tab, NEW p \in Page, S!Visit(t, p) PROVE SignInInv'
  BY <1>1, NoFlow, TabStates DEF S!Visit, S!Goto, S!Show, S!TypeOK
<1>2. ASSUME NEW t \in Tab, S!PassThrough(t) \/ S!Reauthenticate(t) PROVE SignInInv'
  <2>1. \E x \in S!TabState : x.at \in {"page", "leaving"} /\ tab' = [tab EXCEPT ![t] = x]
    <3>1. tab[t] = [at |-> tab[t].at, page |-> tab[t].page] /\ tab[t].page \in Page
      BY <1>2, TabFields DEF S!PassThrough, S!Reauthenticate
    <3>2. \A at : [tab[t] EXCEPT !.at = at] = [at |-> at, page |-> tab[t].page]
      BY <3>1
    <3> QED
      BY <1>2, <3>1, <3>2, TabStates DEF S!PassThrough, S!Reauthenticate, S!Goto
  <2> QED
    BY <1>2, <2>1, NoFlow DEF S!PassThrough, S!Reauthenticate, S!Show, S!TypeOK
<1>3. ASSUME NEW t \in Tab, NEW f \in Flow, S!StartFlow(t, f) PROVE SignInInv'
  <2> DEFINE p == tab[t].page
             x == [at |-> "authorize", page |-> p, flow |-> f]
  <2>1. p \in Page /\ tab' = [tab EXCEPT ![t] = x] /\ oidc' = [flow |-> f, page |-> p]
        /\ f \notin used /\ used' = used \cup {f} /\ UNCHANGED <<token, session>>
    BY <1>3, TabFields DEF S!StartFlow, S!Goto, S!FlowCookies
  <2>2. x \in S!TabState /\ oidc' \in S!Cookies
    BY <2>1, TabStates DEF S!Cookies
  <2>3. ASSUME NEW s \in Tab, tab'[s].at \in {"authorize", "callback"}
        PROVE  tab'[s].flow \in used' /\ (oidc'.flow = tab'[s].flow => oidc'.page = tab'[s].page)
    BY <2>1, <2>3 DEF S!TypeOK
  <2> QED
    BY <2>1, <2>2, <2>3 DEF S!TypeOK
<1>4. ASSUME NEW t \in Tab, S!Authorize(t) PROVE SignInInv'
  <2> DEFINE x == [at |-> "callback", page |-> tab[t].page, flow |-> tab[t].flow]
  <2>1. tab[t].at = "authorize" /\ tab[t] = [at |-> tab[t].at, page |-> tab[t].page, flow |-> tab[t].flow]
        /\ tab[t].page \in Page /\ tab[t].flow \in Flow
    BY <1>4, TabFields DEF S!Authorize
  <2>2. x \in S!TabState
    BY <2>1, TabStates
  <2>3. \A p, f : tab[t] = [at |-> tab[t].at, page |-> p, flow |-> f]
          => [tab[t] EXCEPT !.at = "callback"] = [at |-> "callback", page |-> p, flow |-> f]
    OBVIOUS
  <2>4. [tab[t] EXCEPT !.at = "callback"] = x
    BY <2>1, <2>3
  <2>5. tab' = [tab EXCEPT ![t] = x] /\ UNCHANGED <<token, oidc, session, used>>
    BY <1>4, <2>4 DEF S!Authorize, S!Goto
  <2> QED
    BY <2>1, <2>2, <2>5 DEF S!TypeOK
<1>5. ASSUME NEW t \in Tab, S!Exchange(t) PROVE SignInInv'
  <2>1. tab[t].flow \in Flow /\ oidc.flow = tab[t].flow
    BY <1>5, TabFields DEF S!Exchange, S!Saved
  <2>2. oidc.page \in Page
    BY <2>1, FlowAssumption DEF S!TypeOK, S!Cookies, S!None
  <2>3. [at |-> "page", page |-> oidc.page] \in S!TabState
    BY <2>2, TabStates
  <2> QED
    BY <1>5, <2>3, NoFlow DEF S!Exchange, S!Goto, S!TypeOK
<1>6. ASSUME NEW t \in Tab, S!Reject(t) PROVE SignInInv'
  BY <1>6, NoFlow, TabStates DEF S!Reject, S!Goto, S!TypeOK
<1>7. CASE S!ExpireCookies
  BY <1>7, FlowAssumption, TabFields DEF S!ExpireCookies, S!TypeOK, S!None
<1>8. CASE S!ExpireToken \/ \E t \in Tab : S!LoadUser(t) \/ S!Unauthorized(t)
  BY <1>8 DEF S!ExpireToken, S!LoadUser, S!Unauthorized, S!Show, S!TypeOK
<1>9. ASSUME NEW t \in Tab, S!Logout(t) PROVE SignInInv'
  BY <1>9, NoFlow, TabStates DEF S!Logout, S!Goto, S!Show, S!TypeOK
<1>10. CASE UNCHANGED signInVars
  BY <1>10 DEF signInVars, S!TypeOK
<1> QED
  BY <1>1, <1>2, <1>3, <1>4, <1>5, <1>6, <1>7, <1>8, <1>9, <1>10 DEF S!Next

\* The page in the cookies is that of the flow they name, and of the tab that comes back.
LEMMA ReturnStep ==
  ASSUME SignInInv, NEW t \in Tab, S!Exchange(t)
  PROVE  tab'[t].page = tab[t].page
BY DEF SignInInv, S!TypeOK, S!Exchange, S!Saved, S!Goto

-----------------------------------------------------------------------------
(* The components beside each other *)

LEMMA AccessInductive == MCSpec => []AccessInv
<1>1. MCInit => AccessInv
  BY AccessInit DEF MCInit
<1>2. AccessInv /\ [MCNext]_allVars => AccessInv'
  BY AccessStep DEF MCNext, allVars
<1> QED
  BY <1>1, <1>2, PTL DEF MCSpec

LEMMA CacheInductive == MCSpec => []CacheInv
<1>1. MCInit => CacheInv
  BY CacheInit DEF MCInit
<1>2. CacheInv /\ [MCNext]_allVars => CacheInv'
  BY CacheStep DEF MCNext, allVars
<1> QED
  BY <1>1, <1>2, PTL DEF MCSpec

LEMMA IdempotencyInductive == MCSpec => []IdempotencyInv
<1>1. MCInit => IdempotencyInv
  BY IdempotencyInit DEF MCInit
<1>2. IdempotencyInv /\ [MCNext]_allVars => IdempotencyInv'
  BY IdempotencyStep DEF MCNext, allVars
<1> QED
  BY <1>1, <1>2, PTL DEF MCSpec

LEMMA RequestsInductive == MCSpec => []RequestInv
<1>1. MCInit => RequestInv
  BY RequestInit DEF MCInit
<1>2. RequestInv /\ [MCNext]_allVars => RequestInv'
  BY RequestStep DEF MCNext, allVars
<1> QED
  BY <1>1, <1>2, PTL DEF MCSpec

LEMMA BranchesInductive == MCSpec => []BranchInv
<1>1. MCInit => BranchInv
  BY BranchInit DEF MCInit
<1>2. BranchInv /\ [MCNext]_allVars => BranchInv'
  BY BranchStep DEF MCNext, allVars
<1> QED
  BY <1>1, <1>2, PTL DEF MCSpec

LEMMA SignInInductive == MCSpec => []SignInInv
<1>1. MCInit => SignInInv
  BY SignInInit DEF MCInit
<1>2. SignInInv /\ [MCNext]_allVars => SignInInv'
  BY SignInStep DEF MCNext, allVars
<1> QED
  BY <1>1, <1>2, PTL DEF MCSpec

\* Whatever roles, grants and links are edited beside the guard that fills its cache,
\* what it lets a user do differs from the tables only for a user an edit has not yet
\* forgotten, has passed over, or was overtaken by (RbacGuard, RolesService).
THEOREM GrantsFollowed == MCSpec => []GrantsAreFollowed
BY AccessInductive, AccessInvImplies, PTL

\* Two callers compute the same result at once only after a lock lapsed under its holder
\* (the decorator CacheResult).
THEOREM OneComputes == MCSpec => []OneComputesUnlessLapsed
BY CacheInductive, CacheInvImplies, PTL

\* A form is handled twice only if the response of its key was not there to be found
\* (IdempotencyInterceptor).
THEOREM HandledOnce == MCSpec => []HandledTwiceOnlyIfExcused
BY IdempotencyInductive, IdempotencyInvImplies, PTL

\* A row of the audit log reaches the change it is about, whatever else is committed
\* between its snapshots (AuditInterceptor).
THEOREM AuditReaches == MCSpec => []AuditReachesTheChange
BY RequestsInductive, PTL DEF RequestInv

\* No replacement of a user's branches that fails, or is overtaken, leaves the user
\* without any (RolesRepository.replaceUserBranches).
THEOREM LockedOut == MCSpec => LockedOutOnPurpose
<1> DEFINE OnPurpose ==
      \A u \in User :
        B!ListByUser(u) # {} /\ B!ListByUser(u)' = {}
        => \/ \E b \in Branch : B!UnlinkUser(u, b) \/ B!SoftDelete(b)
           \/ \E q \in Replacer : /\ replacing[q] # B!Idle /\ replacing[q].user = u
                                 /\ \A b \in replacing[q].to : branches[b] = "deleted"
<1>1. BranchInv /\ [MCNext]_allVars => [OnPurpose]_branchVars
  BY LockedOutStep DEF MCNext, allVars
<1>2. LockedOutOnPurpose <=> [][OnPurpose]_branchVars
  BY PTL DEF LockedOutOnPurpose, B!LockedOutOnPurpose, B!vars, branchVars
<1> HIDE DEF OnPurpose
<1> QED
  BY <1>1, <1>2, BranchesInductive, PTL DEF MCSpec

\* A callback takes a tab back to the page it left, although all tabs write the same
\* cookies (middleware, GET of the callback).
THEOREM ReturnsToItsPage == MCSpec => ReturnsWhereItLeft
<1> DEFINE ToItsPage == \A t \in Tab : S!Exchange(t) => tab'[t].page = tab[t].page
<1>1. SignInInv => ToItsPage
  BY ReturnStep
<1>2. ReturnsWhereItLeft <=> [][ToItsPage]_signInVars
  BY PTL DEF ReturnsWhereItLeft, S!ReturnsWhereItLeft, S!vars, signInVars
<1> HIDE DEF ToItsPage
<1> QED
  BY <1>1, <1>2, SignInInductive, PTL DEF MCSpec

\* Every cache entry, request, link and cookie holds a value of its type.
THEOREM PlatformTypesOK == MCSpec => []TypesOK
<1>1. AccessInv /\ CacheInv /\ IdempotencyInv /\ RequestInv /\ BranchInv /\ SignInInv => TypesOK
  BY DEF AccessInv, CacheInv, IdempotencyInv, RequestInv, BranchInv, SignInInv, TypesOK
<1> QED
  BY <1>1, AccessInductive, CacheInductive, IdempotencyInductive, RequestsInductive,
     BranchesInductive, SignInInductive, PTL
=============================================================================
