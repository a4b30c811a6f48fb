--------------------------------- MODULE Users ---------------------------------
(***************************************************************************)
(* The page of a tenant's users: a table with the branches of each, which  *)
(* an administrator ticks one by one, and a form that adds a user.         *)
(*                                                                         *)
(* The API replaces all the branches of a user at once (Branches); the     *)
(* page computes them from the table it shows, which it fetches again once *)
(* a change succeeded.  A change of a user's role is left out: the page    *)
(* begins it with a DELETE without the Idempotency-Key that the API asks   *)
(* for, so that it never succeeds.  A page has one change under way.       *)
(***************************************************************************)
EXTENDS Branches   \* a Replacer is a page

CONSTANTS
  None,
  MaxChanges   \* bound: changes of a behaviour, wherever they are made

VARIABLES
  members,   \* users with a role
  table,     \* what each page shows
  load,      \* the fetch each page has under way, and what it has read so far
  change,    \* the change each page has under way
  late,      \* users whose branches changed since what a page shows was read (history)
  changes,   \* changes made so far
  wanted     \* how each branch of a user was last ticked, while nothing else counts (history)

pageVars == <<members, table, load, change, late, changes, wanted>>
usersVars == <<vars, pageVars>>

Page == Replacer
Tick == {"on", "off", "none"}
NoTick == [b \in Branch |-> "none"]

Table == [users : SUBSET User, of : [User -> SUBSET Branch]]
LoadState ==
  {None} \cup [at : {"users"}, users : SUBSET User]
    \cup [at : {"read"}, rows : Table, late : SUBSET User]
ChangeState ==
  [user : User, ticks : [Branch -> Tick], to : SUBSET Branch, adds : BOOLEAN,
   at : {"sent", "received", "committed"}, base : {"current", "late", "overlapped"}]

\* The branches were created, and their creator unlinked; every user has a role.
UsersInit ==
  /\ branches = [b \in Branch |-> "active"] /\ onboarded = Branch /\ userBranches = {}
  /\ replacing = [t \in Page |-> Idle]
  /\ members = User
  /\ table = [t \in Page |-> None] /\ load = [t \in Page |-> None] /\ change = [t \in Page |-> None]
  /\ late = [t \in Page |-> {}]
  /\ changes = 0
  /\ wanted = [u \in User |-> NoTick]

\* Counts towards the bound.
Counts == changes < MaxChanges /\ changes' = changes + 1

-----------------------------------------------------------------------------
(* The table *)

\* listTenantUsers, whenever the query is enabled or refetched.
ReadUsers(t) ==
  /\ load[t] = None
  /\ load' = [load EXCEPT ![t] = [at |-> "users", users |-> members]]
  /\ UNCHANGED <<vars, members, table, change, late, changes, wanted>>

\* listBranchesByUserIds: not the deleted ones.
BranchesShown(u) == {b \in BranchesOf(u) : branches[b] = "active"}

\* listUsers puts the two together.
ReadBranches(t) ==
  /\ load[t] # None /\ load[t].at = "users"
  /\ LET rows == [users |-> load[t].users,
                  of |-> [u \in User |-> IF u \in load[t].users THEN BranchesShown(u) ELSE {}]]
     IN  load' = [load EXCEPT ![t] = [at |-> "read", rows |-> rows, late |-> {}]]
  /\ UNCHANGED <<vars, members, table, change, late, changes, wanted>>

Show(t) ==
  /\ load[t] # None /\ load[t].at = "read"
  /\ table' = [table EXCEPT ![t] = load[t].rows]
  /\ late' = [late EXCEPT ![t] = load[t].late]
  /\ load' = [load EXCEPT ![t] = None]
  /\ UNCHANGED <<vars, members, change, changes, wanted>>

\* An error takes the place of the table until it is fetched again.
LoadFails(t) ==
  /\ load[t] # None
  /\ load' = [load EXCEPT ![t] = None] /\ table' = [table EXCEPT ![t] = None]
  /\ UNCHANGED <<vars, members, change, late, changes, wanted>>

-----------------------------------------------------------------------------
(* Changes *)

\* Mutant of Ticked: the branch that was ticked is sent alone.
TickedAlone(current, b) == {b}

\* All the branches of the user, with this one ticked or not.
Ticked(current, b) == IF b \in current THEN current \ {b} ELSE current \cup {b}

Send(t, u, ticks, to, adds, base) ==
  /\ change[t] = None /\ replacing[t] = Idle /\ Counts
  /\ change' = [change EXCEPT ![t] =
       [user |-> u, ticks |-> ticks, to |-> to, adds |-> adds, at |-> "sent", base |-> base]]
  /\ UNCHANGED <<vars, members, table, load, late, wanted>>

\* A box of the table: those of all users are disabled until the API has answered, and
\* no longer.
TickBox(t, u, b) ==
  /\ table[t] # None /\ u \in table[t].users
  /\ LET current == table[t].of[u]
     IN  Send(t, u, [NoTick EXCEPT ![b] = IF b \in current THEN "off" ELSE "on"], Ticked(current, b), FALSE,
              IF u \in late[t] THEN "late" ELSE "current")

\* The form: a user, a role and the first branches.
Add(t, u, bs) ==
  Send(t, u, [b \in Branch |-> IF bs = {} THEN "none" ELSE IF b \in bs THEN "on" ELSE "off"], bs, TRUE, "current")

\* The checks of updateUserBranches and of createUser: the user has a role, or none.
Refused(t) == (change[t].user \in members) = change[t].adds

Refuse(t) ==
  /\ change[t] # None /\ change[t].at = "sent" /\ Refused(t)
  /\ change' = [change EXCEPT ![t] = None]
  /\ UNCHANGED <<vars, members, table, load, late, changes, wanted>>

Receive(t) ==
  /\ change[t] # None /\ change[t].at = "sent" /\ ~Refused(t)
  /\ change[t].adds => change[t].to # {}
  /\ StartReplace(t, change[t].user, change[t].to)
  /\ change' = [change EXCEPT ![t].at = "received"]
  /\ UNCHANGED <<members, table, load, late, changes, wanted>>

\* createUser without branches leaves the links there are.
AddWithoutBranches(t) ==
  /\ change[t] # None /\ change[t].at = "sent" /\ ~Refused(t)
  /\ change[t].adds /\ change[t].to = {}
  /\ members' = members \cup {change[t].user}
  /\ change' = [change EXCEPT ![t].at = "committed"]
  /\ UNCHANGED <<vars, table, load, late, changes, wanted>>

\* The branches of a user changed: what the pages have read of them is late, and a
\* replacement under way overlapped with it.
LinksChanged(u, done) ==
  /\ late' = [t \in Page |-> late[t] \cup {u}]
  /\ load' = [t \in Page |->
       IF load[t] # None /\ load[t].at = "read" THEN [load[t] EXCEPT !.late = @ \cup {u}] ELSE load[t]]
  /\ change' = [t \in Page |->
       IF t = done THEN [change[t] EXCEPT !.at = "committed"]
       ELSE IF change[t] = None \/ change[t].user # u THEN change[t]
       ELSE IF change[t].at = "sent" THEN [change[t] EXCEPT !.base = "late"]
       ELSE IF change[t].at = "received" THEN [change[t] EXCEPT !.base = "overlapped"]
       ELSE change[t]]

Commit(t) ==
  /\ change[t] # None /\ change[t].at = "received"
  /\ CommitReplace(t)
  /\ LET c == change[t]
     IN  /\ members' = IF c.adds THEN members \cup {c.user} ELSE members
         /\ wanted' = [wanted EXCEPT ![c.user] =
              CASE c.base = "current" -> [b \in Branch |-> IF c.ticks[b] = "none" THEN @[b] ELSE c.ticks[b]]
                [] c.base = "late" -> c.ticks
                [] c.base = "overlapped" -> NoTick]
         /\ LinksChanged(c.user, t)
  /\ UNCHANGED <<table, changes>>

RollBack(t) ==
  /\ change[t] # None /\ change[t].at = "received"
  /\ RollBackReplace(t)
  /\ change' = [change EXCEPT ![t] = None]
  /\ UNCHANGED <<members, table, load, late, changes, wanted>>

\* onSuccess: the boxes are enabled, and a fetch under way is dropped for a new one.
Succeed(t) ==
  /\ change[t] # None /\ change[t].at = "committed"
  /\ change' = [change EXCEPT ![t] = None]
  /\ load' = [load EXCEPT ![t] = None]
  /\ UNCHANGED <<vars, members, table, late, changes, wanted>>

\* onError, of a call that did not arrive or whose answer was lost: nothing is fetched.
Fail(t) ==
  /\ change[t] # None /\ change[t].at # "received"
  /\ change' = [change EXCEPT ![t] = None]
  /\ UNCHANGED <<vars, members, table, load, late, changes, wanted>>

-----------------------------------------------------------------------------
(* The page of branches, and other clients *)

\* Its own sake: the link counts as it is from then on.
LinkElsewhere(u, b) ==
  /\ Counts
  /\ LinksChanged(u, None)
  /\ wanted' = [wanted EXCEPT ![u][b] = "none"]
  /\ UNCHANGED <<members, table>>

LinkUser(u, b) == AssignUser(u, b) /\ LinkElsewhere(u, b)
Unlink(u, b) == UnlinkUser(u, b) /\ LinkElsewhere(u, b)

DeleteBranch(b) ==
  /\ SoftDelete(b) /\ Counts
  /\ UNCHANGED <<members, table, load, change, late, wanted>>

\* The last role of a user is taken away; the branches stay.
LoseRole(u) ==
  /\ u \in members /\ members' = members \ {u} /\ Counts
  /\ UNCHANGED <<vars, table, load, change, late, wanted>>

UsersNext ==
  \/ \E t \in Page :
       \/ ReadUsers(t) \/ ReadBranches(t) \/ Show(t) \/ LoadFails(t)
       \/ \E u \in User : (\E b \in Branch : TickBox(t, u, b)) \/ \E bs \in SUBSET Branch : Add(t, u, bs)
       \/ Refuse(t) \/ Receive(t) \/ AddWithoutBranches(t) \/ Commit(t) \/ RollBack(t) \/ Succeed(t) \/ Fail(t)
  \/ \E u \in User, b \in Branch : LinkUser(u, b) \/ Unlink(u, b)
  \/ \E b \in Branch : DeleteBranch(b)
  \/ \E u \in User : LoseRole(u)

UsersSpec == UsersInit /\ [][UsersNext]_usersVars

-----------------------------------------------------------------------------
UsersTypeOK ==
  /\ TypeOK
  /\ members \subseteq User
  /\ table \in [Page -> Table \cup {None}] /\ load \in [Page -> LoadState] /\ change \in [Page -> ChangeState \cup {None}]
  /\ late \in [Page -> SUBSET User] /\ changes \in 0 .. MaxChanges
  /\ wanted \in [User -> [Branch -> Tick]]

\* A branch in use that was ticked or cleared, and confirmed, stays so until that link is changed
\* for its own sake, or a page that has not fetched the table since replaces them all, or
\* two replacements overlap (UsuariosView sends all the branches of the table it shows,
\* replaceUserBranches deletes those it finds).
TicksAreKept ==
  \A u \in User, b \in Branch :
    branches[b] = "active" /\ wanted[u][b] # "none" => (b \in BranchesOf(u) <=> wanted[u][b] = "on")
===============================================================================
