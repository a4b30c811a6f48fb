------------------------------ MODULE LockPeriods ------------------------------
(***************************************************************************)
(* The accounting periods a branch has closed, and what one browser tab    *)
(* shows of them: the page that closes periods, and the guard that greys   *)
(* the buttons of an entry or a transfer whose date lies in one.           *)
(*                                                                         *)
(* The page and the guard file their lists under one key of the query      *)
(* cache, in two shapes: the page the answer of the API, the guard the     *)
(* rows in it.  Each takes what it finds there for its own.  A removal     *)
(* from the page is refused, as it sends no Idempotency-Key.               *)
(***************************************************************************)
EXTENDS Naturals

CONSTANTS
  Period,
  Creator,   \* requests to close a period, under way at a time
  Day,       \* dates, as numbers of days
  Window,    \* the 30 days within which periods overlap
  None

VARIABLES
  periods,     \* each row, and the rows its check saw (history)
  creating,    \* each request to close a period
  view,        \* what the tab shows: "page", "guard", or "other", an error among these
  cache,       \* the list filed, the shape it has, and whether it began before a change (history)
  stale,       \* it is to be fetched when somebody shows it
  failed,      \* the last fetch failed
  fetch,       \* the fetch under way
  confirmed    \* live periods this tab created, as the API confirmed (history)

vars == <<periods, creating, view, cache, stale, failed, fetch, confirmed>>
tabVars == <<view, cache, stale, failed, fetch, confirmed>>

Idle == [at |-> "idle"]
Row == [until : Day, deleted : BOOLEAN, seen : SUBSET Period]
CreateState ==
  {Idle} \cup [at : {"checked"}, until : Day, page : BOOLEAN, seen : SUBSET Period] \cup [at : {"created"}, id : Period]
FetchState ==
  {None} \cup [at : {"asked"}, by : {"page", "guard"}]
    \cup [at : {"read"}, by : {"page", "guard"}, late : BOOLEAN, of : SUBSET Period]

Init ==
  /\ periods = [p \in Period |-> None]
  /\ creating = [c \in Creator |-> Idle]
  /\ view = "other" /\ cache = None /\ stale = TRUE /\ failed = FALSE
  /\ fetch = None
  /\ confirmed = {}

Live == {p \in Period : periods[p] # None /\ ~periods[p].deleted}

-----------------------------------------------------------------------------
(* LockPeriodsService *)

\* INVALID_PERIOD_OVERLAP
Overlaps(new, until) == new <= until /\ until - new < Window

\* create: the list is read and checked, and the row inserted without a transaction.  The
\* page has one request under way, and shows its form once it has a list.
Check(c, until, page) ==
  /\ creating[c] = Idle
  /\ page => /\ view = "page" /\ cache # None /\ ~failed
             /\ \A d \in Creator : creating[d].at # "created" /\ (creating[d] # Idle => ~creating[d].page)
  /\ \A p \in Live : ~Overlaps(until, periods[p].until)
  /\ creating' = [creating EXCEPT ![c] = [at |-> "checked", until |-> until, page |-> page, seen |-> Live]]
  /\ UNCHANGED <<periods, tabVars>>

\* What the API answers to other clients is nobody's concern here.
Insert(c, p) ==
  /\ creating[c].at = "checked" /\ periods[p] = None
  /\ periods' = [periods EXCEPT ![p] =
       [until |-> creating[c].until, deleted |-> FALSE, seen |-> creating[c].seen]]
  /\ creating' = [creating EXCEPT ![c] = IF @.page THEN [at |-> "created", id |-> p] ELSE Idle]
  /\ UNCHANGED tabVars

\* softDelete, by a client that sends the key; the history of the row ends with it.
Remove(p) ==
  /\ p \in Live
  /\ periods' = [periods EXCEPT ![p] = [until |-> @.until, deleted |-> TRUE, seen |-> {}]]
  /\ confirmed' = confirmed \ {p}
  /\ UNCHANGED <<creating, view, cache, stale, failed, fetch>>

-----------------------------------------------------------------------------
(* The list in the tab *)

Shape(v) == IF v = "page" THEN "answer" ELSE "rows"
Asked(v) == [at |-> "asked", by |-> v]

\* The fetch of the guard is given up with the guard, that of the page goes on.
Left == IF fetch # None /\ fetch.by = "guard" THEN None ELSE fetch

\* A guard that finds an answer where it expects rows throws while it is rendered,
\* unless the last fetch failed; an error takes the place of the entry or the transfer.
Breaks(v, c, f) == v = "guard" /\ c # None /\ c.shape = "answer" /\ ~f

Open(v) ==
  /\ v # view
  /\ view' = IF Breaks(v, cache, failed) THEN "other" ELSE v
  /\ fetch' = IF view' \in {"page", "guard"} /\ stale /\ Left = None THEN Asked(v) ELSE Left
  /\ failed' = (failed /\ fetch' = Left)
  /\ UNCHANGED <<periods, creating, cache, stale, confirmed>>

\* staleTime
Age ==
  /\ cache # None /\ ~stale
  /\ stale' = TRUE
  /\ UNCHANGED <<periods, creating, view, cache, failed, fetch, confirmed>>

\* list
Read ==
  /\ fetch # None /\ fetch.at = "asked"
  /\ fetch' = [at |-> "read", by |-> fetch.by, late |-> FALSE, of |-> Live]
  /\ UNCHANGED <<periods, creating, view, cache, stale, failed, confirmed>>

Deliver ==
  /\ fetch # None /\ fetch.at = "read"
  /\ cache' = [shape |-> Shape(fetch.by), of |-> fetch.of, late |-> fetch.late]
  /\ view' = IF Breaks(view, cache', FALSE) THEN "other" ELSE view
  /\ stale' = FALSE /\ failed' = FALSE /\ fetch' = None
  /\ UNCHANGED <<periods, creating, confirmed>>

FetchFails ==
  /\ fetch # None
  /\ fetch' = None /\ failed' = TRUE /\ stale' = TRUE
  /\ UNCHANGED <<periods, creating, view, cache, confirmed>>

\* onSuccess: a list that is shown is fetched again, whatever was under way.
Invalidated ==
  IF view \in {"page", "guard"} THEN Asked(view)
  ELSE IF fetch # None /\ fetch.at = "read" THEN [fetch EXCEPT !.late = TRUE]
  ELSE fetch

Succeed(c) ==
  /\ creating[c].at = "created"
  /\ creating' = [creating EXCEPT ![c] = Idle]
  /\ confirmed' = confirmed \cup ({creating[c].id} \cap Live)
  /\ fetch' = Invalidated
  /\ stale' = TRUE /\ failed' = (failed /\ view \notin {"page", "guard"})
  /\ UNCHANGED <<periods, view, cache>>

\* onError, of a request that was refused, crashed, or whose answer was lost: the list stays
\* as it is.
Fail(c) ==
  /\ creating[c] # Idle
  /\ creating' = [creating EXCEPT ![c] = Idle]
  /\ UNCHANGED <<periods, tabVars>>

Next ==
  \/ \E c \in Creator :
       \/ \E until \in Day, page \in BOOLEAN : Check(c, until, page)
       \/ Succeed(c) \/ Fail(c)
       \/ \E p \in Period : Insert(c, p)
  \/ \E p \in Period : Remove(p)
  \/ \E v \in {"page", "guard", "other"} : Open(v)
  \/ Age \/ Read \/ Deliver \/ FetchFails

Spec == Init /\ [][Next]_vars

-----------------------------------------------------------------------------
TypeOK ==
  /\ periods \in [Period -> Row \cup {None}]
  /\ creating \in [Creator -> CreateState]
  /\ view \in {"page", "guard", "other"}
  /\ cache \in [shape : {"answer", "rows"}, of : SUBSET Period, late : BOOLEAN] \cup {None}
  /\ stale \in BOOLEAN /\ failed \in BOOLEAN
  /\ fetch \in FetchState
  /\ confirmed \subseteq Period

\* The periods that the page lists; what the guard filed has no "data", and looks empty.
Listed == IF cache.shape = "answer" THEN cache.of ELSE {}

\* checkLockPeriod
Greyed(d) == \E p \in cache.of : d <= periods[p].until

\* A tab that has settled lists the periods it closed, and greys what they lock, whatever
\* changed, failed or was left meanwhile (onSuccess fetches again what is shown), unless
\* it shows the list in the other's shape, or a fetch went on without anybody showing it.
ClosedIsShown ==
  view \in {"page", "guard"} /\ cache # None /\ fetch = None /\ ~stale /\ ~cache.late /\ cache.shape = Shape(view) =>
    \A p \in confirmed :
      /\ view = "page" => p \in Listed
      /\ view = "guard" => \A d \in Day : d <= periods[p].until => Greyed(d)

\* No period was closed twice, or within the window of a later one, unless the check of one
\* did not see the other (create reads the list and inserts without a transaction): in
\* particular a request sent again after its answer was lost is refused.
OverlapsOnlyIfOvertaken ==
  \A p, q \in Live :
    p # q /\ Overlaps(periods[q].until, periods[p].until) => p \notin periods[q].seen
===============================================================================
