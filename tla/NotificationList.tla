--------------------------- MODULE NotificationList ---------------------------
(***************************************************************************)
(* The notifications of a user: the rows the API keeps, and the list under *)
(* the bell of one browser tab, which changes before the API has answered, *)
(* is rolled back when it refuses, and is fetched again.                   *)
(*                                                                         *)
(* The query library is external: cancelQueries drops the fetch under way, *)
(* and invalidateQueries begins one if the list is open.                   *)
(***************************************************************************)
CONSTANTS
  Notification,
  Change,       \* changes the user has under way at a time
  None

VARIABLES
  stored,    \* each notification: "none", "unread", "read" or "deleted"
  shown,     \* the list: "none", "unread" or "read"
  open,      \* the list is shown, and enabled
  stale,     \* it has been invalidated and not fetched since
  fetch,     \* None, or what the request has read so far
  change,    \* each change under way
  behind,    \* what is shown was fetched before a change that settled while the list was
             \* closed (history)
  deeds      \* what the user did, as the API confirmed: sets of <<notification, state>> (history)

vars == <<stored, shown, open, stale, fetch, change, behind, deeds>>

Asked == [at |-> "asked", late |-> FALSE]

Init ==
  /\ stored = [n \in Notification |-> "none"]
  /\ shown = [n \in Notification |-> "none"]
  /\ open = FALSE /\ stale = TRUE
  /\ fetch = None
  /\ change = [c \in Change |-> None]
  /\ behind = FALSE
  /\ deeds = {}

-----------------------------------------------------------------------------
(* NotificationsService *)

\* create, and the other tabs and devices of the user.
Arrive(n) ==
  /\ stored[n] = "none"
  /\ stored' = [stored EXCEPT ![n] = "unread"]
  /\ UNCHANGED <<shown, open, stale, fetch, change, behind, deeds>>

\* markAsRead, markAllAsRead and softDelete, on rows that are not deleted.
Stored(kind, n) ==
  [x \in Notification |->
     IF kind = "mark" /\ x = n /\ stored[x] = "unread" THEN "read"
     ELSE IF kind = "markAll" /\ stored[x] = "unread" THEN "read"
     ELSE IF kind = "delete" /\ x = n /\ stored[x] # "none" THEN "deleted"
     ELSE stored[x]]

ChangeElsewhere(kind, n) ==
  /\ stored' = Stored(kind, n)
  /\ UNCHANGED <<shown, open, stale, fetch, change, behind, deeds>>

-----------------------------------------------------------------------------
(* useNotifications *)

\* The bell; a list that is stale is fetched when it is enabled.
Toggle ==
  /\ open' = ~open
  /\ fetch' = IF ~open /\ stale /\ fetch = None THEN Asked ELSE fetch
  /\ UNCHANGED <<stored, shown, stale, change, behind, deeds>>

\* refetchInterval, or the list has grown older than its staleTime.
Poll ==
  /\ open /\ fetch = None
  /\ fetch' = Asked
  /\ UNCHANGED <<stored, shown, open, stale, change, behind, deeds>>

\* findForUser
Read ==
  /\ fetch # None /\ fetch.at = "asked"
  /\ fetch' = [at |-> "read", late |-> fetch.late, rows |-> [n \in Notification |-> IF stored[n] = "deleted" THEN "none" ELSE stored[n]]]
  /\ UNCHANGED <<stored, shown, open, stale, change, behind, deeds>>

Deliver ==
  /\ fetch # None /\ fetch.at = "read"
  /\ shown' = fetch.rows
  /\ fetch' = None /\ stale' = FALSE
  /\ behind' = fetch.late
  /\ UNCHANGED <<stored, open, change, deeds>>

FetchFails ==
  /\ fetch # None
  /\ fetch' = None
  /\ UNCHANGED <<stored, shown, open, stale, change, behind, deeds>>

\* onMutate: the list as the user expects it.
Expected(kind, n) ==
  [x \in Notification |->
     IF kind = "delete" /\ x = n THEN "none"
     ELSE IF (kind = "markAll" \/ (kind = "mark" /\ x = n)) /\ shown[x] = "unread" THEN "read"
     ELSE shown[x]]

\* The fetch under way is cancelled, by cancelQueries.
Mutate(c, kind, n) ==
  /\ open /\ change[c] = None /\ shown[n] # "none"
  /\ change' = [change EXCEPT ![c] = [kind |-> kind, on |-> n, previous |-> shown, at |-> "sent"]]
  /\ shown' = Expected(kind, n)
  /\ fetch' = None
  /\ UNCHANGED <<stored, open, stale, behind, deeds>>

Commit(c) ==
  /\ change[c] # None /\ change[c].at = "sent"
  /\ stored' = Stored(change[c].kind, change[c].on)
  /\ change' = [change EXCEPT ![c].at = "committed"]
  /\ UNCHANGED <<shown, open, stale, fetch, behind, deeds>>

\* Mutant of Refetch: the fetch under way is left to deliver.
RefetchUnlessUnderway == IF fetch # None THEN fetch ELSE IF open THEN Asked ELSE None

\* onSettled: a fetch under way is dropped for a new one, unless the list is closed.
Refetch == IF open THEN Asked ELSE IF fetch = None THEN None ELSE [fetch EXCEPT !.late = TRUE]

Settle(c) ==
  /\ change' = [change EXCEPT ![c] = None]
  /\ stale' = TRUE
  /\ fetch' = Refetch

Succeed(c) ==
  /\ change[c] # None /\ change[c].at = "committed"
  /\ deeds' = deeds \cup
       (IF change[c].kind = "markAll" THEN {}
        ELSE {<<change[c].on, IF change[c].kind = "delete" THEN "deleted" ELSE "read">>})
  /\ Settle(c)
  /\ UNCHANGED <<stored, shown, open, behind>>

\* onError: the answer is an error, or is lost; the list goes back to what it was.
Fail(c) ==
  /\ change[c] # None
  /\ shown' = change[c].previous
  /\ Settle(c)
  /\ UNCHANGED <<stored, open, behind, deeds>>

-----------------------------------------------------------------------------
Next ==
  \/ Toggle \/ Poll \/ Read \/ Deliver \/ FetchFails
  \/ \E n \in Notification :
       \/ Arrive(n)
       \/ \E kind \in {"mark", "markAll", "delete"} :
            ChangeElsewhere(kind, n) \/ \E c \in Change : Mutate(c, kind, n)
  \/ \E c \in Change : Commit(c) \/ Succeed(c) \/ Fail(c)

Spec == Init /\ [][Next]_vars

-----------------------------------------------------------------------------
TypeOK ==
  /\ stored \in [Notification -> {"none", "unread", "read", "deleted"}]
  /\ shown \in [Notification -> {"none", "unread", "read"}]
  /\ open \in BOOLEAN /\ stale \in BOOLEAN /\ behind \in BOOLEAN
  /\ deeds \subseteq Notification \X {"read", "deleted"}

\* Whatever was rolled back, fetched or changed at once, a list that is open and settled
\* shows what the user did and the API confirmed (onSettled fetches after every change, and
\* no fetch that began before one delivers after it), unless the list was closed meanwhile.
DeedsAreShown ==
  open /\ ~stale /\ ~behind /\ fetch = None /\ (\A c \in Change : change[c] = None) =>
    \A d \in deeds : shown[d[1]] # "unread" /\ (d[2] = "deleted" => shown[d[1]] = "none")
===============================================================================
