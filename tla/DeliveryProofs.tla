---------------------------- MODULE DeliveryProofs ----------------------------
(***************************************************************************)
(* Theorems about Outbox, for any number of events and workers and any     *)
(* batch size: it implements AtLeastOnce, and its workers do not emit      *)
(* beside each other; and about Jobs, for any number of entries and days.  *)
(*                                                                         *)
(* Neither promise of Outbox is inductive: both rest on what a worker's    *)
(* open transaction holds, which no other worker's does, and on how often  *)
(* such rows were emitted.                                                 *)
(***************************************************************************)
EXTENDS MCDelivery, TLAPS

Unlocked(e) == \A p \in Poller : e \notin batch[p]

\* A transaction holds pending rows that it has emitted, and holds them alone.
Owned == \A p \in Poller : \A e \in batch[p] : rows[e] = "pending" /\ emitted[e] > 0
Apart == \A p, q \in Poller : p # q => batch[p] \cap batch[q] = {}

\* How often a row was emitted, by what became of it.
Counted(e) ==
  /\ rows[e] = "absent" => emitted[e] = 0
  /\ rows[e] \in {"processed", "purged"} => emitted[e] > 0
  /\ emitted[e] < MaxEmissions => emitted[e] <= rolledBack[e] + 1
  /\ rows[e] = "pending" /\ Unlocked(e) /\ emitted[e] < MaxEmissions => emitted[e] <= rolledBack[e]

Inv == TypeOK /\ Owned /\ Apart /\ \A e \in Event : Counted(e)

-----------------------------------------------------------------------------
(* What the provers need to know of the operators *)

LEMMA CappedIsBounded ==
  ASSUME NEW n \in 0 .. MaxEmissions
  PROVE  /\ Capped(n + 1) \in 0 .. MaxEmissions
         /\ Capped(n + 1) > 0
         /\ Capped(n + 1) < MaxEmissions => Capped(n + 1) = n + 1
         /\ n < MaxEmissions => Capped(n + 1) = n + 1
         /\ n = MaxEmissions => Capped(n + 1) = MaxEmissions
BY SizeAssumption DEF Capped

LEMMA SelectableIsFree ==
  ASSUME NEW e \in Event, Selectable(e)
  PROVE  rows[e] = "pending" /\ Unlocked(e)
BY DEF Selectable, LockedRows, Unlocked

\* Whatever the order and the limit, a poll takes some of the rows that are free.
LEMMA PollTakesFreeRows ==
  ASSUME NEW es \in Oldest({e \in Event : Selectable(e)})
  PROVE  es \subseteq Event /\ \A e \in es : rows[e] = "pending" /\ Unlocked(e)
BY SelectableIsFree DEF Oldest

-----------------------------------------------------------------------------
LEMMA InitInv == Init => Inv
BY SizeAssumption DEF Init, Inv, TypeOK, RowState, Owned, Apart, Counted, Unlocked

\* The rows of one worker's transaction leave it: what the others hold is not touched.
LEMMA BatchEnds ==
  ASSUME Inv, NEW p \in Poller, batch' = [batch EXCEPT ![p] = {}]
  PROVE  /\ batch' \in [Poller -> SUBSET Event] /\ Apart'
         /\ \A q \in Poller : \A e \in batch'[q] : e \in batch[q] /\ e \notin batch[p]
         /\ \A e \in Event : Unlocked(e)' <=> e \in batch[p] \/ Unlocked(e)
<1>1. /\ batch' \in [Poller -> SUBSET Event] /\ Apart'
      /\ \A q \in Poller : \A e \in batch'[q] : e \in batch[q] /\ e \notin batch[p]
  BY DEF Inv, TypeOK, Apart
<1>2. ASSUME NEW e \in Event PROVE Unlocked(e)' <=> e \in batch[p] \/ Unlocked(e)
  BY DEF Inv, TypeOK, Apart, Unlocked
<1> QED
  BY <1>1, <1>2

LEMMA InsertInv ==
  ASSUME Inv, NEW e \in Event, Insert(e)
  PROVE  Inv'
<1>1. TypeOK' /\ Owned' /\ Apart'
  BY DEF Insert, Inv, TypeOK, RowState, Owned, Apart
<1>2. ASSUME NEW f \in Event PROVE Counted(f)'
  BY DEF Insert, Inv, TypeOK, Counted, Unlocked
<1> QED
  BY <1>1, <1>2 DEF Inv

LEMMA CleanupInv ==
  ASSUME Inv, NEW e \in Event, Cleanup(e)
  PROVE  Inv'
<1>1. TypeOK' /\ Owned' /\ Apart'
  BY DEF Cleanup, Purgeable, Inv, TypeOK, RowState, Owned, Apart
<1>2. ASSUME NEW f \in Event PROVE Counted(f)'
  BY DEF Cleanup, Purgeable, Inv, TypeOK, Counted, Unlocked
<1> QED
  BY <1>1, <1>2 DEF Inv

LEMMA PollInv ==
  ASSUME Inv, NEW p \in Poller, Poll(p)
  PROVE  Inv'
<1>1. PICK es \in Oldest({e \in Event : Selectable(e)}) :
        /\ es # {}
        /\ batch' = [batch EXCEPT ![p] = es]
        /\ emitted' = [e \in Event |-> IF e \in es THEN Capped(emitted[e] + 1) ELSE emitted[e]]
  BY DEF Poll
<1>2. es \subseteq Event /\ \A e \in es : rows[e] = "pending" /\ Unlocked(e)
  BY PollTakesFreeRows
<1>3. /\ rows' = rows /\ rolledBack' = rolledBack /\ batch[p] = {}
      /\ batch \in [Poller -> SUBSET Event]
      /\ emitted \in [Event -> 0 .. MaxEmissions] /\ rolledBack \in [Event -> 0 .. MaxEmissions]
  BY DEF Poll, Inv, TypeOK
<1>4. \A e \in Event : emitted'[e] \in 0 .. MaxEmissions /\ emitted'[e] >= emitted[e] /\ (e \in es => emitted'[e] > 0)
  <2> TAKE e \in Event
  <2>1. emitted[e] \in 0 .. MaxEmissions
    BY <1>3
  <2>2. e \in es => emitted'[e] = Capped(emitted[e] + 1)
    BY <1>1
  <2>3. e \notin es => emitted'[e] = emitted[e]
    BY <1>1
  <2> QED
    BY <2>1, <2>2, <2>3, CappedIsBounded, SizeAssumption
<1>5. TypeOK'
  <2>1. emitted' \in [Event -> 0 .. MaxEmissions]
    BY <1>1, <1>4
  <2> QED
    BY <1>1, <1>2, <1>3, <2>1 DEF Inv, TypeOK
<1>6. Owned'
  <2> SUFFICES ASSUME NEW q \in Poller, NEW e \in batch'[q]
               PROVE  rows[e] = "pending" /\ emitted'[e] > 0
    BY <1>3 DEF Owned
  <2>1. CASE q = p
    BY <2>1, <1>1, <1>2, <1>3, <1>4
  <2>2. CASE q # p
    <3>1. e \in batch[q] /\ e \in Event
      BY <2>2, <1>1, <1>3
    <3>2. emitted[e] > 0 /\ rows[e] = "pending"
      BY <3>1 DEF Inv, Owned
    <3>3. emitted[e] \in Nat /\ emitted'[e] \in Nat /\ emitted'[e] >= emitted[e]
      BY <3>1, <1>3, <1>4, SizeAssumption
    <3> QED
      BY <3>2, <3>3
  <2> QED
    BY <2>1, <2>2
<1>7. Apart'
  BY <1>1, <1>2, <1>3 DEF Inv, Apart, Unlocked
<1>8. ASSUME NEW e \in Event PROVE Counted(e)'
  <2>1. CASE e \in es
    <3>1. rows[e] = "pending" /\ Unlocked(e) /\ ~Unlocked(e)'
      BY <2>1, <1>1, <1>2, <1>3 DEF Unlocked
    <3>2. emitted[e] < MaxEmissions => emitted[e] <= rolledBack[e]
      BY <3>1 DEF Inv, Counted
    <3>3. emitted'[e] < MaxEmissions => emitted'[e] = emitted[e] + 1 /\ emitted[e] < MaxEmissions
      BY <2>1, <1>1, <1>3, CappedIsBounded, SizeAssumption
    <3> QED
      BY <3>1, <3>2, <3>3, <1>3, <1>4, SizeAssumption DEF Counted
  <2>2. CASE e \notin es
    <3>1. emitted'[e] = emitted[e] /\ (Unlocked(e)' => Unlocked(e))
      BY <2>2, <1>1, <1>3 DEF Unlocked
    <3> QED
      BY <3>1, <1>3 DEF Inv, Counted
  <2> QED
    BY <2>1, <2>2
<1> QED
  BY <1>5, <1>6, <1>7, <1>8 DEF Inv

LEMMA MarkProcessedInv ==
  ASSUME Inv, NEW p \in Poller, MarkProcessed(p)
  PROVE  Inv'
<1>1. /\ rows' = [e \in Event |-> IF e \in batch[p] THEN "processed" ELSE rows[e]]
      /\ batch' = [batch EXCEPT ![p] = {}]
      /\ emitted' = emitted /\ rolledBack' = rolledBack
  BY DEF MarkProcessed
<1>2. /\ batch' \in [Poller -> SUBSET Event] /\ Apart'
      /\ \A q \in Poller : \A e \in batch'[q] : e \in batch[q] /\ e \notin batch[p]
      /\ \A e \in Event : Unlocked(e)' <=> e \in batch[p] \/ Unlocked(e)
  BY <1>1, BatchEnds
<1>3. TypeOK'
  BY <1>1, <1>2 DEF Inv, TypeOK, RowState
<1>4. Owned'
  BY <1>1, <1>2 DEF Inv, TypeOK, Owned
<1>5. ASSUME NEW e \in Event PROVE Counted(e)'
  <2>1. e \in batch[p] => emitted[e] > 0
    BY DEF Inv, Owned
  <2>2. rows'[e] = "pending" => rows[e] = "pending" /\ e \notin batch[p]
    BY <1>1
  <2> QED
    BY <1>1, <1>2, <2>1, <2>2 DEF Inv, Counted
<1> QED
  BY <1>2, <1>3, <1>4, <1>5 DEF Inv

LEMMA RollBackInv ==
  ASSUME Inv, NEW p \in Poller, RollBack(p)
  PROVE  Inv'
<1>1. /\ rolledBack' = [e \in Event |-> IF e \in batch[p] THEN Capped(rolledBack[e] + 1) ELSE rolledBack[e]]
      /\ batch' = [batch EXCEPT ![p] = {}]
      /\ emitted' = emitted /\ rows' = rows
  BY DEF RollBack
<1>2. /\ batch' \in [Poller -> SUBSET Event] /\ Apart'
      /\ \A q \in Poller : \A e \in batch'[q] : e \in batch[q] /\ e \notin batch[p]
      /\ \A e \in Event : Unlocked(e)' <=> e \in batch[p] \/ Unlocked(e)
  BY <1>1, BatchEnds
<1>3. emitted \in [Event -> 0 .. MaxEmissions] /\ rolledBack \in [Event -> 0 .. MaxEmissions]
  BY DEF Inv, TypeOK
<1>4. \A e \in Event : rolledBack'[e] \in 0 .. MaxEmissions /\ rolledBack'[e] >= rolledBack[e]
  <2> TAKE e \in Event
  <2> QED
    BY <1>1, <1>3, CappedIsBounded, SizeAssumption
<1>5. TypeOK'
  <2>1. rolledBack' \in [Event -> 0 .. MaxEmissions]
    BY <1>1, <1>4
  <2> QED
    BY <1>1, <1>2, <2>1 DEF Inv, TypeOK
<1>6. Owned'
  BY <1>1, <1>2 DEF Inv, Owned
<1>7. ASSUME NEW e \in Event PROVE Counted(e)'
  <2>1. /\ emitted[e] \in 0 .. MaxEmissions /\ rolledBack[e] \in 0 .. MaxEmissions
        /\ rolledBack'[e] \in 0 .. MaxEmissions /\ rolledBack'[e] >= rolledBack[e]
    BY <1>3, <1>4
  <2>2. e \in batch[p] /\ emitted[e] < MaxEmissions => emitted[e] <= rolledBack'[e]
    <3>1. SUFFICES ASSUME e \in batch[p], emitted[e] < MaxEmissions
                   PROVE  emitted[e] <= rolledBack'[e]
      OBVIOUS
    <3>2. emitted[e] <= rolledBack[e] + 1
      BY <3>1 DEF Inv, Counted
    <3>3. rolledBack'[e] = Capped(rolledBack[e] + 1)
      BY <3>1, <1>1
    <3> QED
      BY <2>1, <3>1, <3>2, <3>3, CappedIsBounded, SizeAssumption
  <2> QED
    BY <1>1, <1>2, <2>1, <2>2, SizeAssumption DEF Inv, Counted
<1> QED
  BY <1>2, <1>5, <1>6, <1>7 DEF Inv

LEMMA NextInv == Inv /\ [Next]_vars => Inv'
<1> SUFFICES ASSUME Inv, [Next]_vars PROVE Inv'
  OBVIOUS
<1>1. ASSUME NEW e \in Event, Insert(e) \/ Cleanup(e) PROVE Inv'
  BY <1>1, InsertInv, CleanupInv
<1>2. ASSUME NEW p \in Poller, Poll(p) \/ MarkProcessed(p) \/ RollBack(p) PROVE Inv'
  BY <1>2, PollInv, MarkProcessedInv, RollBackInv
<1>3. CASE UNCHANGED vars
  BY <1>3 DEF vars, Inv, TypeOK, Owned, Apart, Counted, Unlocked
<1> QED
  BY <1>1, <1>2, <1>3 DEF Next

\* The inductive invariant: types, and what open transactions hold and have emitted.
THEOREM Inductive == Spec => []Inv
BY InitInv, NextInv, PTL DEF Spec

-----------------------------------------------------------------------------
\* Every row, batch and count holds a value of its type, whatever workers do and
\* whichever of their transactions are rolled back.
THEOREM OutboxTypeCorrect == Spec => []TypeOK
<1>1. Inv => TypeOK
  BY DEF Inv
<1> QED
  BY <1>1, Inductive, PTL

\* For any number of workers, what is emitted again was rolled back before: each row is
\* locked, emitted and marked by one transaction at a time (OutboxWorker.processBatch).
THEOREM EmissionsAreExcused == Spec => []EmittedAgainAfterRollBack
<1>1. Inv => EmittedAgainAfterRollBack
  BY DEF Inv, Counted, EmittedAgainAfterRollBack
<1> QED
  BY <1>1, Inductive, PTL

-----------------------------------------------------------------------------
(* The refinement of AtLeastOnce *)

Stages == [e \in Event |-> Stage(e)]

\* A step that leaves the stage of every event but one.
LEMMA StagesExcept ==
  ASSUME NEW e \in Event, NEW s, Stage(e)' = s, \A f \in Event \ {e} : Stage(f)' = Stage(f)
  PROVE  Stages' = [Stages EXCEPT ![e] = s]
BY DEF Stages

LEMMA InsertRefines ==
  ASSUME Inv, NEW e \in Event, Insert(e)
  PROVE  Contract!Commit(e)
<1>1. /\ rows \in [Event -> RowState] /\ emitted' = emitted
      /\ rows[e] = "absent" /\ rows' = [rows EXCEPT ![e] = "pending"] /\ emitted[e] = 0
  BY DEF Insert, Inv, TypeOK, Counted
<1>2. Stage(e) = "absent" /\ Stage(e)' = "committed" /\ \A f \in Event \ {e} : Stage(f)' = Stage(f)
  BY <1>1 DEF Stage
<1> QED
  BY <1>2, StagesExcept DEF Contract!Commit, Stages

LEMMA CleanupRefines ==
  ASSUME Inv, NEW e \in Event, Cleanup(e)
  PROVE  Contract!Forget(e)
<1>1. /\ rows \in [Event -> RowState] /\ emitted' = emitted
      /\ rows[e] = "processed" /\ rows' = [rows EXCEPT ![e] = "purged"] /\ emitted[e] > 0
  BY DEF Cleanup, Purgeable, Inv, TypeOK, Counted
<1>2. Stage(e) = "delivered" /\ Stage(e)' = "forgotten" /\ \A f \in Event \ {e} : Stage(f)' = Stage(f)
  BY <1>1 DEF Stage
<1> QED
  BY <1>2, StagesExcept DEF Contract!Forget, Stages

\* A poll delivers the rows it emits for the first time, if there are any.
LEMMA PollRefines ==
  ASSUME Inv, NEW p \in Poller, Poll(p)
  PROVE  Contract!Deliver \/ Stages' = Stages
<1>1. PICK es \in Oldest({e \in Event : Selectable(e)}) :
        emitted' = [e \in Event |-> IF e \in es THEN Capped(emitted[e] + 1) ELSE emitted[e]]
  BY DEF Poll
<1>2. rows' = rows /\ es \subseteq Event /\ \A e \in es : rows[e] = "pending"
  BY PollTakesFreeRows DEF Poll
<1> DEFINE new == {e \in es : emitted[e] = 0}
<1>3. ASSUME NEW e \in Event
      PROVE  /\ e \in new => Stage(e) = "committed" /\ Stage(e)' = "delivered"
             /\ e \notin new => Stage(e)' = Stage(e)
  <2>1. emitted[e] \in 0 .. MaxEmissions
    BY DEF Inv, TypeOK
  <2>2. e \in es => emitted'[e] > 0
    BY <1>1, <2>1, CappedIsBounded
  <2>3. e \notin es => emitted'[e] = emitted[e]
    BY <1>1
  <2> QED
    BY <1>2, <2>1, <2>2, <2>3, SizeAssumption DEF Stage
<1>4. CASE new = {}
  BY <1>3, <1>4 DEF Stages
<1>5. CASE new # {}
  <2>1. new \in SUBSET {e \in Event : Stages[e] = "committed"}
    BY <1>2, <1>3 DEF Stages
  <2>2. Stages' = [e \in Event |-> IF e \in new THEN "delivered" ELSE Stages[e]]
    BY <1>3 DEF Stages
  <2> QED
    BY <1>5, <2>1, <2>2 DEF Contract!Deliver, Stages
<1> QED
  BY <1>4, <1>5

\* Marking and rolling back tell nobody anything.
LEMMA EndsAreSilent ==
  ASSUME Inv, NEW p \in Poller, MarkProcessed(p) \/ RollBack(p)
  PROVE  Stages' = Stages
<1>1. ASSUME NEW e \in Event PROVE Stage(e)' = Stage(e)
  <2>1. CASE MarkProcessed(p)
    <3>1. rows'[e] = IF e \in batch[p] THEN "processed" ELSE rows[e]
      BY <2>1 DEF MarkProcessed
    <3>2. e \in batch[p] => rows[e] = "pending" /\ emitted[e] > 0
      BY DEF Inv, Owned
    <3>3. emitted' = emitted
      BY <2>1 DEF MarkProcessed
    <3> QED
      BY <3>1, <3>2, <3>3 DEF Stage
  <2>2. CASE RollBack(p)
    BY <2>2 DEF RollBack, Stage
  <2> QED
    BY <2>1, <2>2
<1> QED
  BY <1>1 DEF Stages

\* Every behaviour of any number of workers is one of AtLeastOnce: no event is forgotten
\* before it was emitted (processed_at is set after the emission, cleanup deletes
\* processed rows only).
THEOREM OutboxDeliversAtLeastOnce == Spec => ImplementsAtLeastOnce
<1>1. Init => Contract!Init
  BY DEF Init, Contract!Init, Stage
<1>2. Inv /\ [Next]_vars => [Contract!Next]_Stages
  <2> SUFFICES ASSUME Inv, [Next]_vars PROVE Contract!Next \/ Stages' = Stages
    OBVIOUS
  <2>1. ASSUME NEW e \in Event, Insert(e) \/ Cleanup(e) PROVE Contract!Next
    BY <2>1, InsertRefines, CleanupRefines DEF Contract!Next
  <2>2. ASSUME NEW p \in Poller, Poll(p) PROVE Contract!Next \/ Stages' = Stages
    BY <2>2, PollRefines DEF Contract!Next
  <2>3. ASSUME NEW p \in Poller, MarkProcessed(p) \/ RollBack(p) PROVE Stages' = Stages
    BY <2>3, EndsAreSilent
  <2>4. CASE UNCHANGED vars
    BY <2>4 DEF vars, Stages, Stage
  <2> QED
    BY <2>1, <2>2, <2>3, <2>4 DEF Next
<1> QED
  BY <1>1, <1>2, Inductive, PTL DEF Spec, ImplementsAtLeastOnce, Contract!Spec, Stages

-----------------------------------------------------------------------------
(* What the events cause: Jobs *)

\* A job that waits has an attempt left, and a handler was given one of the three.
JobsInv == J!TypeOK /\ ThankedOnceADay /\ \A j \in J!JobId : jobs[j].state = "waiting" => jobs[j].attempt < J!Attempts

\* The fields of what Redis holds under an id.
LEMMA JobFields ==
  ASSUME JobsInv, NEW j \in J!JobId
  PROVE  /\ jobs[j].state \in {"waiting", "active", "completed", "failed", "absent"}
         /\ jobs[j].state = "absent" <=> jobs[j] = J!NoJob
         /\ jobs[j].state # "absent" => jobs[j] \in J!Job /\ jobs[j].attempt \in 0 .. J!Attempts
         /\ jobs[j].state = "waiting" => jobs[j].attempt < J!Attempts
BY DEF JobsInv, J!TypeOK, J!Job, J!NoJob

\* What may be written under an id.
Storable(x) == x \in J!Job \cup {J!NoJob} /\ (x.state = "waiting" => x.attempt < J!Attempts)

LEMMA AddedKeepsJobs ==
  ASSUME JobsInv, NEW j \in J!JobId, NEW i \in J!JobId
  PROVE  J!Added(j) \in [J!JobId -> J!Job \cup {J!NoJob}] /\ Storable(J!Added(j)[i])
<1> DEFINE new == [state |-> "waiting", attempt |-> 0]
<1>1. Storable(new)
  BY DEF Storable, J!Job, J!Attempts
<1>2. Storable(jobs[i])
  BY DEF JobsInv, Storable, J!TypeOK
<1> QED
  BY <1>1, <1>2 DEF J!Added, JobsInv, J!TypeOK, Storable

LEMMA AfterFailureIsStorable ==
  ASSUME JobsInv, NEW j \in J!JobId, jobs[j].state # "absent"
  PROVE  Storable(J!AfterFailure(j))
<1>1. jobs[j] \in J!Job /\ jobs[j].attempt \in 0 .. J!Attempts
  BY JobFields
<1>2. J!AfterFailure(j).attempt = jobs[j].attempt
      /\ J!AfterFailure(j).state = (IF jobs[j].attempt < J!Attempts THEN "waiting" ELSE "failed")
      /\ J!AfterFailure(j) \in J!Job
  BY <1>1 DEF J!AfterFailure, J!Job
<1> QED
  BY <1>1, <1>2 DEF Storable

\* One entry of the queue written, nothing else: the jobs stay sound.
LEMMA StoreOne ==
  ASSUME JobsInv, NEW j \in J!JobId, NEW x, Storable(x), jobs' = [jobs EXCEPT ![j] = x]
  PROVE  /\ jobs' \in [J!JobId -> J!Job \cup {J!NoJob}]
         /\ \A i \in J!JobId : jobs'[i].state = "waiting" => jobs'[i].attempt < J!Attempts
BY DEF JobsInv, J!TypeOK, Storable

\* Whatever a handler of an attempt settles, current or late, the jobs stay sound.
LEMMA SettleKeepsJobs ==
  ASSUME JobsInv, NEW h \in handlers, NEW succeeded \in BOOLEAN, J!Settle(h, succeeded)
  PROVE  /\ jobs' \in [J!JobId -> J!Job \cup {J!NoJob}]
         /\ \A i \in J!JobId : jobs'[i].state = "waiting" => jobs'[i].attempt < J!Attempts
         /\ handlers' \subseteq J!Handler
<1>1. h.job \in J!JobId /\ handlers' \subseteq J!Handler
  BY DEF JobsInv, J!TypeOK, J!Handler, J!Settle
<1>2. CASE ~J!Current(h)
  BY <1>1, <1>2 DEF JobsInv, J!TypeOK, J!Settle
<1>3. CASE J!Current(h)
  <2>1. jobs[h.job] \in J!Job /\ jobs[h.job].state = "active"
    BY <1>1, <1>3, JobFields DEF J!Current
  <2>2. Storable([jobs[h.job] EXCEPT !.state = "completed"]) /\ Storable(J!AfterFailure(h.job))
    BY <1>1, <2>1, AfterFailureIsStorable DEF Storable, J!Job
  <2> QED
    BY <1>1, <1>3, <2>2, StoreOne DEF J!Settle
<1> QED
  BY <1>2, <1>3

LEMMA JobsInit == J!Init => JobsInv
BY JobsAssumption DEF J!Init, JobsInv, J!TypeOK, ThankedOnceADay, J!ThankedOnceADay, J!NoJob

\* Rows of collection_dispatches are written where there is none only.
LEMMA ThanksOnce ==
  ASSUME JobsInv, NEW h \in handlers, J!PaymentThanks(h)
  PROVE  dispatches' \in [Entry -> [1 .. LastDay -> Nat]] /\ ThankedOnceADay'
<1>1. h.job.entry \in Entry /\ day \in 1 .. LastDay
  BY DEF JobsInv, J!TypeOK, J!Handler, J!JobId
<1>2. dispatches \in [Entry -> [1 .. LastDay -> Nat]]
  BY DEF JobsInv, J!TypeOK
<1>3. CASE rule = "templated" /\ ~J!Conflicts(h.job.entry, day)
  <2>1. dispatches' = [dispatches EXCEPT ![h.job.entry][day] = @ + 1]
    BY <1>3 DEF J!PaymentThanks
  <2>2. dispatches[h.job.entry][day] \in Nat /\ ~(dispatches[h.job.entry][day] > 0)
    BY <1>1, <1>2, <1>3 DEF J!Conflicts
  <2> QED
    BY <1>1, <1>2, <2>1, <2>2 DEF JobsInv, ThankedOnceADay, J!ThankedOnceADay
<1>4. CASE ~(rule = "templated" /\ ~J!Conflicts(h.job.entry, day))
  BY <1>2, <1>4 DEF J!PaymentThanks, JobsInv, ThankedOnceADay, J!ThankedOnceADay
<1> QED
  BY <1>3, <1>4

LEMMA JobsStep ==
  ASSUME JobsInv, [J!Next]_jobVars
  PROVE  JobsInv'
<1> USE DEF JobsInv
<1>1. ASSUME NEW k \in J!Kinds, NEW n \in Entry, NEW schema \in BOOLEAN, J!Emit(k, n, schema)
      PROVE  JobsInv'
  <2>1. runs' \subseteq J!Run
    <3>1. PICK c \in 1 .. (IF k = "entry.overdue" THEN 1 ELSE Copies) :
            runs' = runs \cup {[listener |-> l, kind |-> k, entry |-> n, schema |-> schema, copy |-> c] : l \in J!Emitted(k)}
      BY <1>1 DEF J!Emit
    <3>2. c \in 1 .. Copies
      BY <3>1, JobsAssumption
    <3> QED
      BY <3>1, <3>2 DEF J!TypeOK, J!Run, J!Emitted
  <2> QED
    BY <1>1, <2>1 DEF J!Emit, J!TypeOK, ThankedOnceADay, J!ThankedOnceADay
<1>2. ASSUME NEW r \in runs, J!Listen(r)
      PROVE  JobsInv'
  <2>1. r \in J!Run /\ day \in 0 .. LastDay
    BY JobsAssumption DEF J!TypeOK
  <2>2. /\ J!NoticeJob(r, 0) \in J!JobId /\ J!NoticeJob(r, day) \in J!JobId
        /\ [queue |-> "payment-thanks", entry |-> r.entry, day |-> 0] \in J!JobId
    BY <2>1, JobsAssumption DEF J!NoticeJob, J!JobId, J!Run
  <2>3. jobs' = jobs \/ \E j \in J!JobId : jobs' = J!Added(j)
    BY <1>2, <2>2 DEF J!Listen, J!WriteAuditLog, J!OnEntryApproved, J!OnEntryRejected,
       J!OnEntryPendingApproval, J!OnEntryOverdue, J!OnPaymentCreated
  <2>4. /\ jobs' \in [J!JobId -> J!Job \cup {J!NoJob}]
        /\ \A i \in J!JobId : jobs'[i].state = "waiting" => jobs'[i].attempt < J!Attempts
    BY <2>3, AddedKeepsJobs DEF J!TypeOK, Storable
  <2> QED
    BY <1>2, <2>4 DEF J!Listen, J!EndRun, J!TypeOK, ThankedOnceADay, J!ThankedOnceADay
<1>3. ASSUME NEW r \in runs, J!LoseRun(r)
      PROVE  JobsInv'
  BY <1>3 DEF J!LoseRun, J!EndRun, J!TypeOK, ThankedOnceADay, J!ThankedOnceADay
<1>4. ASSUME NEW j \in J!JobId, J!StartAttempt(j)
      PROVE  JobsInv'
  <2>1. jobs[j] \in J!Job /\ jobs[j].attempt \in 0 .. J!Attempts /\ jobs[j].attempt < J!Attempts
    BY <1>4, JobFields DEF J!StartAttempt
  <2> DEFINE x == [state |-> "active", attempt |-> jobs[j].attempt + 1]
  <2>2. Storable(x) /\ [job |-> j, attempt |-> jobs[j].attempt + 1] \in J!Handler
    BY <2>1 DEF Storable, J!Job, J!Handler, J!Attempts
  <2>3. jobs' = [jobs EXCEPT ![j] = x]
    BY <1>4 DEF J!StartAttempt
  <2> HIDE DEF x
  <2> QED
    BY <1>4, <2>2, <2>3, StoreOne DEF J!StartAttempt, J!TypeOK, ThankedOnceADay, J!ThankedOnceADay
<1>5. ASSUME NEW j \in J!JobId, J!Evict(j)
      PROVE  JobsInv'
  <2>1. Storable(J!NoJob)
    BY DEF Storable, J!NoJob
  <2> QED
    BY <1>5, <2>1, StoreOne DEF J!Evict, J!TypeOK, ThankedOnceADay, J!ThankedOnceADay
<1>6. ASSUME NEW h \in handlers, J!TimeOut(h)
      PROVE  JobsInv'
  <2>1. h.job \in J!JobId /\ jobs[h.job].state = "active"
    BY <1>6 DEF J!TimeOut, J!Current, J!TypeOK, J!Handler
  <2>2. Storable(J!AfterFailure(h.job))
    BY <2>1, AfterFailureIsStorable
  <2> QED
    BY <1>6, <2>1, <2>2, StoreOne DEF J!TimeOut, J!TypeOK, ThankedOnceADay, J!ThankedOnceADay
<1>7. ASSUME NEW h \in handlers, J!PaymentThanks(h)
      PROVE  JobsInv'
  <2>1. J!Settle(h, rule # "bare") /\ (rule # "bare") \in BOOLEAN
    BY <1>7 DEF J!PaymentThanks
  <2> QED
    BY <1>7, <2>1, SettleKeepsJobs, ThanksOnce DEF J!PaymentThanks, J!TypeOK
<1>8. ASSUME NEW h \in handlers, J!HandlerFails(h)
      PROVE  JobsInv'
  BY <1>8, SettleKeepsJobs DEF J!HandlerFails, J!TypeOK, ThankedOnceADay, J!ThankedOnceADay
<1>9. ASSUME NEW h \in handlers, J!Notify(h)
      PROVE  JobsInv'
  <2>1. notices' \subseteq Entry \X (1 .. LastDay)
    BY <1>9 DEF J!Notify, J!Create, J!TypeOK, J!Handler, J!JobId
  <2> QED
    BY <1>9, <2>1, SettleKeepsJobs DEF J!Notify, J!TypeOK, ThankedOnceADay, J!ThankedOnceADay
<1>10. CASE J!Midnight
  BY <1>10, JobsAssumption DEF J!Midnight, J!TypeOK, ThankedOnceADay, J!ThankedOnceADay
<1>11. CASE UNCHANGED jobVars
  BY <1>11 DEF jobVars, J!TypeOK, ThankedOnceADay, J!ThankedOnceADay
<1> QED
  BY <1>1, <1>2, <1>3, <1>4, <1>5, <1>6, <1>7, <1>8, <1>9, <1>10, <1>11 DEF J!Next

-----------------------------------------------------------------------------
(* Outbox and Jobs beside each other *)

LEMMA JobsInductive == MCSpec => []JobsInv
<1>1. MCInit => JobsInv
  BY JobsInit DEF MCInit
<1>2. JobsInv /\ [MCNext]_allVars => JobsInv'
  BY JobsStep DEF MCNext, allVars
<1> QED
  BY <1>1, <1>2, PTL DEF MCSpec

\* An entry is thanked once a day: its row of collection_dispatches is written where none
\* is, however many attempts of the job are at work (payment-thanks.processor.ts).
THEOREM ThankedOnce == MCSpec => []ThankedOnceADay
BY JobsInductive, PTL DEF JobsInv

\* Every row of the outbox, job, handler and run of a listener holds a value of its type.
THEOREM DeliveryTypesOK == MCSpec => []TypesOK
<1>1. MCInit => Inv
  BY InitInv DEF MCInit
<1>2. Inv /\ [MCNext]_allVars => Inv'
  BY NextInv DEF MCNext, allVars, vars
<1>3. Inv /\ JobsInv => TypesOK
  BY DEF Inv, JobsInv, TypesOK
<1> QED
  BY <1>1, <1>2, <1>3, JobsInductive, PTL DEF MCSpec
===============================================================================
