------------------------------- MODULE Branches -------------------------------
(***************************************************************************)
(* Branches, the data a new one starts with, the users linked to each, and *)
(* what BranchGuard lets through.  Names and addresses are left out.       *)
(***************************************************************************)
EXTENDS Naturals

CONSTANTS
  User, Branch,
  Replacer     \* concurrent requests that replace a user's branches

VARIABLES
  branches,    \* branches: absent, active or soft-deleted
  onboarded,   \* branches with settings, sequences, categories and collection rules
  userBranches,   \* user_branches
  replacing    \* where each replacement stands

vars == <<branches, onboarded, userBranches, replacing>>

Idle == [at |-> "idle"]
ReplacerState ==
  {Idle} \cup [at : {"insert"}, user : User, to : SUBSET Branch, deleted : SUBSET Branch]

BranchesOf(u) == {b \in Branch : <<u, b>> \in userBranches}

\* listByUser: what a user may switch to.  BranchGuard reads the links alone.
ListByUser(u) == {b \in BranchesOf(u) : branches[b] # "deleted"}

LinksTo(u, bs) == {<<u, b>> : b \in bs}

Init ==
  /\ branches = [b \in Branch |-> "absent"]
  /\ onboarded = {}
  /\ userBranches = {}
  /\ replacing = [q \in Replacer |-> Idle]

-----------------------------------------------------------------------------
(* BranchesService *)

\* onboardBranch: the creator is linked, the branch gets its settings, sequences,
\* categories and collection rules.
OnboardBranch(b, creator) ==
  /\ userBranches' = userBranches \cup {<<creator, b>>}
  /\ onboarded' = onboarded \cup {b}

\* create: the branch and its onboarding, in one transaction.
Create(b, creator) ==
  /\ branches[b] = "absent"
  /\ branches' = [branches EXCEPT ![b] = "active"]
  /\ OnboardBranch(b, creator)
  /\ UNCHANGED replacing

\* softDelete: the links stay.
SoftDelete(b) ==
  /\ branches[b] = "active"
  /\ branches' = [branches EXCEPT ![b] = "deleted"]
  /\ UNCHANGED <<onboarded, userBranches, replacing>>

\* assignUser: the foreign key does not mind a soft-deleted branch.
AssignUser(u, b) ==
  /\ branches[b] # "absent"
  /\ userBranches' = userBranches \cup {<<u, b>>}
  /\ UNCHANGED <<branches, onboarded, replacing>>

UnlinkUser(u, b) ==
  /\ userBranches' = userBranches \ {<<u, b>>}
  /\ UNCHANGED <<branches, onboarded, replacing>>

-----------------------------------------------------------------------------
(* replaceUserBranches, of updateUserBranches and createUser *)

\* Mutant of AfterDelete: the DELETE commits on its own.
AfterDeleteAtOnce(u) == userBranches \ LinksTo(u, Branch)

\* What others see of the links once the DELETE was executed.
AfterDelete(u) == userBranches

StartReplace(q, u, bs) ==
  /\ replacing[q] = Idle
  /\ replacing' = [replacing EXCEPT ![q] =
       [at |-> "insert", user |-> u, to |-> bs, deleted |-> BranchesOf(u)]]
  /\ userBranches' = AfterDelete(u)
  /\ UNCHANGED <<branches, onboarded>>

\* The replacements of the same user whose DELETE waited for this one.
Waiters(q) == {o \in Replacer \ {q} : replacing[o].at = "insert" /\ replacing[o].user = replacing[q].user}

\* The INSERT and the commit.  A link that appeared since the DELETE, or a branch that
\* does not exist, is an error.
Insertable(q) ==
  /\ \A b \in replacing[q].to : branches[b] # "absent"
  /\ replacing[q].to \cap (BranchesOf(replacing[q].user) \ replacing[q].deleted) = {}

CommitReplace(q) ==
  /\ replacing[q].at = "insert" /\ Insertable(q)
  /\ LET u == replacing[q].user
         gone == replacing[q].deleted
     IN  /\ userBranches' = (userBranches \ LinksTo(u, gone)) \cup LinksTo(u, replacing[q].to)
         /\ replacing' = [o \in Replacer |->
              IF o = q THEN Idle
              ELSE IF o \in Waiters(q) THEN [replacing[o] EXCEPT !.deleted = @ \ gone]
              ELSE replacing[o]]
  /\ UNCHANGED <<branches, onboarded>>

RollBackReplace(q) ==
  /\ replacing[q].at = "insert"
  /\ replacing' = [replacing EXCEPT ![q] = Idle]
  /\ UNCHANGED <<branches, onboarded, userBranches>>

Next ==
  \/ \E b \in Branch : SoftDelete(b) \/ \E u \in User : Create(b, u) \/ AssignUser(u, b) \/ UnlinkUser(u, b)
  \/ \E q \in Replacer :
       \/ \E u \in User, bs \in SUBSET Branch : StartReplace(q, u, bs)
       \/ CommitReplace(q) \/ RollBackReplace(q)

Spec == Init /\ [][Next]_vars

-----------------------------------------------------------------------------
TypeOK ==
  /\ branches \in [Branch -> {"absent", "active", "deleted"}]
  /\ onboarded \subseteq Branch
  /\ userBranches \subseteq User \X Branch
  /\ replacing \in [Replacer -> ReplacerState]

\* A user without the role ADMIN is left without a branch, and sent to the page for
\* those who have none, only by the removal of the last link, by a deletion, or by
\* a replacement that names no branch in use: never because a replacement failed
\* halfway (RolesRepository.replaceUserBranches deletes before it inserts).
LockedOutOnPurpose ==
  [][\A u \in User :
       ListByUser(u) # {} /\ ListByUser(u)' = {}
       => \/ \E b \in Branch : UnlinkUser(u, b) \/ SoftDelete(b)
          \/ \E q \in Replacer : /\ replacing[q] # Idle /\ replacing[q].user = u
                                /\ \A b \in replacing[q].to : branches[b] = "deleted"]_vars
===============================================================================
