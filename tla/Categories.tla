------------------------------ MODULE Categories ------------------------------
(***************************************************************************)
(* The categories of a branch, a forest by parent_id, and the walk to the  *)
(* root that update makes, one query per level, before it writes.  There   *)
(* is no transaction around them, and no foreign key on parent_id.  What    *)
(* the cleanup job purges stays deleted here: neither is found again.      *)
(***************************************************************************)
EXTENDS FiniteSets

CONSTANTS
  Category,
  Request,     \* requests create and update in flight
  None

VARIABLES
  state,       \* each category: "new", "live" or "deleted"
  parent,      \* parent_id
  editing,     \* each request in flight
  raced        \* an update was written that another one's write had overtaken (history)

vars == <<state, parent, editing, raced>>

Init ==
  /\ state = [c \in Category |-> "new"]
  /\ parent = [c \in Category |-> None]
  /\ editing = [r \in Request |-> None]
  /\ raced = FALSE

-----------------------------------------------------------------------------
\* findById
Live(c) == state[c] = "live"

End(r) == editing' = [editing EXCEPT ![r] = None]

Ask(r, kind, c, p) ==
  /\ editing[r] = None
  /\ editing' = [editing EXCEPT ![r] = [kind |-> kind, cat |-> c, parent |-> p, next |-> p, stale |-> FALSE]]
  /\ UNCHANGED <<state, parent, raced>>

AskCreate(r, c, p) == state[c] = "new" /\ Ask(r, "create", c, p)

\* update refuses a category that is its own parent; one that is moved to the top, by
\* parentId null, is not walked from.
AskUpdate(r, c, p) == Live(c) /\ p # c /\ Ask(r, "update", c, p)

\* Mutant of Above: the walk ends at the new parent.
AboveFirstOnly(q) == None

\* What the walk looks at after the category it has just read.
Above(q) == IF q.kind = "create" THEN None ELSE parent[q.next]

\* ensureParentExists and a turn of the loop of ensureNoHierarchyCycle.
Read(r) ==
  /\ editing[r] # None /\ editing[r].next # None
  /\ LET q == editing[r]
     IN  IF Live(q.next) /\ Above(q) # q.cat THEN editing' = [editing EXCEPT ![r].next = Above(q)] ELSE End(r)
  /\ UNCHANGED <<state, parent, raced>>

\* Every other update in flight has read, or may have, what is written now.
Overtaken(r) ==
  [s \in Request |->
     IF s = r THEN None ELSE IF editing[s] = None THEN None ELSE [editing[s] EXCEPT !.stale = TRUE]]

\* create and update of the repository; a category deleted meanwhile stays as it is.
Write(r) ==
  /\ editing[r] # None /\ editing[r].next = None
  /\ LET q == editing[r]
     IN  IF q.kind = "create" \/ Live(q.cat)
         THEN /\ state' = [state EXCEPT ![q.cat] = "live"]
              /\ parent' = [parent EXCEPT ![q.cat] = q.parent]
              /\ raced' = (raced \/ q.stale)
              /\ editing' = Overtaken(r)
         ELSE End(r) /\ UNCHANGED <<state, parent, raced>>

\* Its children keep it as their parent.
SoftDelete(c) ==
  /\ Live(c)
  /\ state' = [state EXCEPT ![c] = "deleted"]
  /\ UNCHANGED <<parent, editing, raced>>

-----------------------------------------------------------------------------
Next ==
  \/ \E r \in Request :
       \/ \E c \in Category, p \in Category \cup {None} : AskCreate(r, c, p) \/ AskUpdate(r, c, p)
       \/ Read(r) \/ Write(r)
  \/ \E c \in Category : SoftDelete(c)

Spec == Init /\ [][Next]_vars

-----------------------------------------------------------------------------
TypeOK ==
  /\ state \in [Category -> {"new", "live", "deleted"}]
  /\ parent \in [Category -> Category \cup {None}]
  /\ editing \in [Request ->
       [kind : {"create", "update"}, cat : Category, parent : Category \cup {None},
        next : Category \cup {None}, stale : BOOLEAN] \cup {None}]
  /\ raced \in BOOLEAN

\* The categories form no cycle, in which every later walk would turn for ever, as long as
\* no update was overtaken by another one's write between its walk and its own.
NoCycleUnlessRaced ==
  raced \/ \A S \in (SUBSET Category) \ {{}} : \E c \in S : parent[c] \notin S
===============================================================================
