-------------------------------- MODULE Outbox --------------------------------
(***************************************************************************)
(* The rows of public.outbox_events and the workers that poll them, one in *)
(* each process.                                                           *)
(*                                                                         *)
(* A poll selects, locks and emits in one action: the rows are emitted in  *)
(* a loop without an await, and listeners are not awaited.  Marking them   *)
(* is a later statement of the same transaction, which may be rolled back  *)
(* instead.                                                                *)
(***************************************************************************)
EXTENDS Naturals, FiniteSets, FiniteSetsExt

CONSTANTS
  Event,           \* rows of outbox_events, numbered in the order of created_at
  Poller,          \* processes that run OutboxWorker
  BatchSize,       \* BATCH_SIZE
  MaxEmissions     \* emissions and rollbacks are counted up to here

ASSUME EventAssumption == Event \subseteq Nat /\ IsFiniteSet(Event)
ASSUME SizeAssumption == BatchSize \in Nat \ {0} /\ MaxEmissions \in Nat \ {0}

VARIABLES
  rows,        \* public.outbox_events
  batch,       \* rows each worker's open transaction has locked and emitted
  emitted,     \* how often each event was put on the event bus
  rolledBack   \* how often a transaction that emitted it was rolled back

vars == <<rows, batch, emitted, rolledBack>>

-----------------------------------------------------------------------------
RowState == {"absent", "pending", "processed", "purged"}

Init ==
  /\ rows = [e \in Event |-> "absent"]
  /\ batch = [p \in Poller |-> {}]
  /\ emitted = [e \in Event |-> 0]
  /\ rolledBack = [e \in Event |-> 0]

Capped(n) == IF n < MaxEmissions THEN n ELSE MaxEmissions
LockedRows == UNION {batch[p] : p \in Poller}

\* A transaction of the API commits an event.  created_at is when it began, so a
\* later commit may be of an earlier row.
Insert(e) ==
  /\ rows[e] = "absent"
  /\ rows' = [rows EXCEPT ![e] = "pending"]
  /\ UNCHANGED <<batch, emitted, rolledBack>>

\* Mutant of Oldest: ORDER BY created_at is forgotten.
OldestUnordered(S) == {es \in SUBSET S : Cardinality(es) = Min({BatchSize, Cardinality(S)})}

\* The batches ORDER BY created_at LIMIT BATCH_SIZE can give: one.
Oldest(S) == {{e \in S : Cardinality({f \in S : f < e}) < BatchSize}}

\* Mutant of Selectable: SKIP LOCKED and the row locks are forgotten.
SelectableUnlocked(e) == rows[e] = "pending"

Selectable(e) == rows[e] = "pending" /\ e \notin LockedRows

\* processBatch up to its UPDATE: select, lock, emit one after the other.
Poll(p) ==
  /\ batch[p] = {}
  /\ \E es \in Oldest({e \in Event : Selectable(e)}) :
       /\ es # {}
       /\ batch' = [batch EXCEPT ![p] = es]
       /\ emitted' = [e \in Event |-> IF e \in es THEN Capped(emitted[e] + 1) ELSE emitted[e]]
  /\ UNCHANGED <<rows, rolledBack>>

\* processed_at = NOW() and the commit.
MarkProcessed(p) ==
  /\ batch[p] # {}
  /\ rows' = [e \in Event |-> IF e \in batch[p] THEN "processed" ELSE rows[e]]
  /\ batch' = [batch EXCEPT ![p] = {}]
  /\ UNCHANGED <<emitted, rolledBack>>

\* The UPDATE is refused, or the process or its connection ends: the rows are
\* pending again although their events are out.
RollBack(p) ==
  /\ batch[p] # {}
  /\ rolledBack' = [e \in Event |-> IF e \in batch[p] THEN Capped(rolledBack[e] + 1) ELSE rolledBack[e]]
  /\ batch' = [batch EXCEPT ![p] = {}]
  /\ UNCHANGED <<rows, emitted>>

\* Mutant of Purgeable: cleanup looks at the age alone.
PurgeableByAge(e) == rows[e] \in {"pending", "processed"} /\ e \notin LockedRows

Purgeable(e) == rows[e] = "processed"

\* cleanup, once the row is seven days old.
Cleanup(e) ==
  /\ Purgeable(e)
  /\ rows' = [rows EXCEPT ![e] = "purged"]
  /\ UNCHANGED <<batch, emitted, rolledBack>>

-----------------------------------------------------------------------------
Next ==
  \/ \E e \in Event : Insert(e) \/ Cleanup(e)
  \/ \E p \in Poller : Poll(p) \/ MarkProcessed(p) \/ RollBack(p)

\* The loop of a worker polls again and again until its process is shut down, and
\* PostgreSQL ends every transaction one way or the other.
PollingLoop == \A p \in Poller : WF_vars(Poll(p)) /\ WF_vars(MarkProcessed(p) \/ RollBack(p))

Spec == Init /\ [][Next]_vars /\ PollingLoop

-----------------------------------------------------------------------------
TypeOK ==
  /\ rows \in [Event -> RowState]
  /\ batch \in [Poller -> SUBSET Event]
  /\ emitted \in [Event -> 0 .. MaxEmissions]
  /\ rolledBack \in [Event -> 0 .. MaxEmissions]

\* outbox_events forgets no event that a transaction committed before it was emitted
\* at least once (OutboxWorker: processed_at is set after the emission, and cleanup
\* deletes processed rows only).
Stage(e) ==
  IF rows[e] = "absent" THEN "absent"
  ELSE IF rows[e] = "purged" THEN "forgotten"
  ELSE IF emitted[e] > 0 THEN "delivered"
  ELSE "committed"
Contract == INSTANCE AtLeastOnce WITH stage <- [e \in Event |-> Stage(e)]
ImplementsAtLeastOnce == Contract!Spec

\* Two workers never emit one event beside each other: what is emitted again was rolled
\* back before (FOR UPDATE SKIP LOCKED).
EmittedAgainAfterRollBack ==
  \A e \in Event : emitted[e] < MaxEmissions => emitted[e] <= rolledBack[e] + 1

\* Even when every UPDATE is rolled back, the oldest rows get out: an event that fewer
\* than BATCH_SIZE older pending rows precede for good is emitted some time.
AtHead(e) ==
  rows[e] = "pending" /\ Cardinality({f \in Event : f < e /\ rows[f] = "pending"}) < BatchSize
HeadIsEmitted == \A e \in Event : []<>(AtHead(e) => emitted[e] > 0)
==============================================================================
