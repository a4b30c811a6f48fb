----------------------------- MODULE BranchSwitch -----------------------------
(***************************************************************************)
(* The branch a user works in, in the browser: the tabs with their state   *)
(* and query cache, the branch_id cookie they share, and the X-Branch-Id   *)
(* header of the requests of ApiClient.                                    *)
(*                                                                         *)
(* A request is a query, filed under the branch that was active when it    *)
(* started, or a mutation, meant for it.  Some hooks pass that branch to   *)
(* ApiClient and some do not.  The list of branches holds them all, and    *)
(* the user is an ADMIN: BranchGuard refuses /branches/my of anybody else, *)
(* as ApiClient sends it without the header.                               *)
(***************************************************************************)
EXTENDS Naturals

CONSTANTS
  Tab, Branch,
  Call,          \* requests of a tab at a time
  Headquarters   \* the branch a tab takes that has none of its own

VARIABLES
  loaded,   \* the tabs that have the list of branches
  active,   \* activeBranchId of each tab
  cookie,   \* branch_id
  call,     \* the requests of each tab
  files,    \* results in each tab's cache: the branch one is filed under, the branch
            \* it is of, and whether the request named it
  moved     \* tabs under which another tab has moved the cookie (history)

vars == <<loaded, active, cookie, call, files, moved>>

NoBranch == "none"
Idle == [at |-> "idle"]
CallState ==
  {Idle} \cup [at : {"queued"}, kind : {"query", "mutation"}, branch : Branch, explicit : BOOLEAN]
    \cup [at : {"sent"}, kind : {"query", "mutation"}, branch : Branch, explicit : BOOLEAN, header : Branch]

Init ==
  /\ loaded = {} /\ cookie = NoBranch
  /\ active = [t \in Tab |-> NoBranch]
  /\ call = [t \in Tab |-> [c \in Call |-> Idle]]
  /\ files = [t \in Tab |-> {}]
  /\ moved = {}

-----------------------------------------------------------------------------
(* BranchProvider *)

\* A tab is opened or reloaded: its state comes from the cookie.
Open(t) ==
  /\ active' = [active EXCEPT ![t] = cookie]
  /\ loaded' = loaded \ {t}
  /\ call' = [call EXCEPT ![t] = [c \in Call |-> Idle]]
  /\ files' = [files EXCEPT ![t] = {}]
  /\ moved' = moved \ {t}
  /\ UNCHANGED cookie

LoadBranches(t) ==
  /\ t \notin loaded
  /\ loaded' = loaded \cup {t}
  /\ UNCHANGED <<active, cookie, call, files, moved>>

\* Mutant of Cancelled: the requests of the branch that was left go on.
CancelledNone(c, b) == FALSE

\* cancelQueries and removeQueries; mutations go on.
Cancelled(c, b) == c # Idle /\ c.kind = "query" /\ c.branch = b

\* switchBranch: what is filed under the branch that is left goes with it.
SwitchBranch(t, b) ==
  /\ t \in loaded /\ active[t] # b
  /\ call' = [call EXCEPT ![t] = [c \in Call |-> IF Cancelled(call[t][c], active[t]) THEN Idle ELSE call[t][c]]]
  /\ files' = [files EXCEPT ![t] = {f \in @ : f[1] # active[t]}]
  /\ cookie' = b
  /\ active' = [active EXCEPT ![t] = b]
  /\ moved' = (IF cookie = b THEN moved ELSE Tab) \ {t}
  /\ UNCHANGED loaded

\* The effect of the provider for a tab whose branch is not in the list.
TakeDefault(t) == active[t] = NoBranch /\ SwitchBranch(t, Headquarters)

\* The user picks one in the branch switcher.
Choose(t, b) == active[t] # NoBranch /\ SwitchBranch(t, b)

-----------------------------------------------------------------------------
(* ApiClient *)

\* A hook starts a request, enabled once there is an active branch.
Start(t, c, kind, explicit) ==
  /\ active[t] # NoBranch /\ call[t][c] = Idle
  /\ call' = [call EXCEPT ![t][c] =
       [at |-> "queued", kind |-> kind, branch |-> active[t], explicit |-> explicit]]
  /\ UNCHANGED <<loaded, active, cookie, files, moved>>

\* Mutant of HeaderOf: the cookie goes before the parameter.
HeaderOfCookie(r) == cookie

HeaderOf(r) == IF r.explicit THEN r.branch ELSE cookie

\* request, after it waited for throttleUntil.
Send(t, c) ==
  /\ call[t][c].at = "queued"
  /\ call' = [call EXCEPT ![t][c] =
       [at |-> "sent", kind |-> @.kind, branch |-> @.branch, explicit |-> @.explicit, header |-> HeaderOf(@)]]
  /\ UNCHANGED <<loaded, active, cookie, files, moved>>

Receive(t, c) ==
  /\ call[t][c].at = "sent"
  /\ LET r == call[t][c]
     IN  files' = IF r.kind = "query" THEN [files EXCEPT ![t] = @ \cup {<<r.branch, r.header, r.explicit>>}] ELSE files
  /\ call' = [call EXCEPT ![t][c] = Idle]
  /\ UNCHANGED <<loaded, active, cookie, moved>>

Fail(t, c) ==
  /\ call[t][c] # Idle
  /\ call' = [call EXCEPT ![t][c] = Idle]
  /\ UNCHANGED <<loaded, active, cookie, files, moved>>

Next ==
  \E t \in Tab :
    \/ Open(t) \/ LoadBranches(t) \/ TakeDefault(t) \/ \E b \in Branch : Choose(t, b)
    \/ \E c \in Call :
         \/ \E kind \in {"query", "mutation"}, explicit \in BOOLEAN : Start(t, c, kind, explicit)
         \/ Send(t, c) \/ Receive(t, c) \/ Fail(t, c)

Spec == Init /\ [][Next]_vars

-----------------------------------------------------------------------------
TypeOK ==
  /\ loaded \subseteq Tab /\ moved \subseteq Tab
  /\ active \in [Tab -> Branch \cup {NoBranch}] /\ cookie \in Branch \cup {NoBranch}
  /\ call \in [Tab -> [Call -> CallState]]
  /\ files \in [Tab -> SUBSET (Branch \X Branch \X BOOLEAN)]

\* A tab shows a result of another branch than it shows it under only if the user
\* switched in another tab after this one and the request did not name its branch
\* (ApiClient.request falls back to the cookie).
MisfiledOnlyAcrossTabs ==
  \A t \in Tab : \A f \in files[t] : f[1] # f[2] => ~f[3] /\ t \in moved
===============================================================================
