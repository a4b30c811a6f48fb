----------------------------- MODULE Recurrences -----------------------------
(***************************************************************************)
(* The recurrence job: runs that lock the recurrences due today, make the  *)
(* next entry of each with its document number, and move it on.            *)
(*                                                                         *)
(* The queue does not stop a run that takes too long: the retry is another *)
(* run beside it.  Days are numbered, and a recurrence of one frequency is *)
(* due every day.  One branch; a series of numbers per type.               *)
(***************************************************************************)
EXTENDS Integers, Sequences, FiniteSetsExt

CONSTANTS
  Recurrence,
  Run,
  Limit,         \* recurrences a run takes
  MaxOccurrences,
  LastDay,
  None

VARIABLES
  today,
  recurrence,    \* each row of recurrences
  occurrences,   \* the entries of each: set of [on, made, deleted], made on day made
  lastSequence,  \* document_sequences
  jobRun,        \* the transaction of each run: the rows it has yet to do, those it has done
  displaced      \* days, of each recurrence, on which an entry was already there (history)

vars == <<today, recurrence, occurrences, lastSequence, jobRun, displaced>>

Type == {"PAYABLE", "RECEIVABLE"}
Days == 1 .. LastDay
Row == [type : Type, next : 1 .. LastDay + 1, count : Nat, active : BOOLEAN]

Init ==
  /\ today = 1
  /\ recurrence \in [Recurrence -> [type : Type, next : {1}, count : {0}, active : {TRUE}]]
  /\ occurrences = [r \in Recurrence |-> {}]
  /\ lastSequence = [t \in Type |-> 0]
  /\ jobRun = [j \in Run |-> None]
  /\ displaced = [r \in Recurrence |-> {}]

NextDay ==
  /\ today < LastDay
  /\ today' = today + 1
  /\ UNCHANGED <<recurrence, occurrences, lastSequence, jobRun, displaced>>

-----------------------------------------------------------------------------
Claimed == UNION {jobRun[j].rows : j \in {k \in Run : jobRun[k] # None}}

\* Mutant of Claimable: SELECT without FOR UPDATE SKIP LOCKED.
ClaimableLocked(r) ==
  recurrence[r].active /\ recurrence[r].next <= today /\ recurrence[r].count < MaxOccurrences

\* What the SELECT takes: due, active, not at its maximum, and locked by no other run.
Claimable(r) ==
  /\ recurrence[r].active /\ recurrence[r].next <= today
  /\ recurrence[r].count < MaxOccurrences
  /\ r \notin Claimed

\* The oldest first, as many as a run takes.
Start(j) ==
  /\ jobRun[j] = None
  /\ \E rows \in SUBSET {r \in Recurrence : Claimable(r)} :
       /\ rows # {}
       /\ Cardinality(rows) = Min({Limit, Cardinality({r \in Recurrence : Claimable(r)})})
       /\ \A r \in rows, s \in Recurrence \ rows : Claimable(s) => recurrence[r].next <= recurrence[s].next
       /\ jobRun' = [jobRun EXCEPT ![j] =
            [rows |-> rows, todo |-> rows, read |-> [r \in rows |-> recurrence[r].next], series |-> {}]]
  /\ UNCHANGED <<today, recurrence, occurrences, lastSequence, displaced>>

\* The row of document_sequences stays locked from its update to the end of the transaction.
LockedByOther(j, t) == \E k \in Run \ {j} : jobRun[k] # None /\ t \in jobRun[k].series

\* The series of the next row is taken, or waited for.
TakeNumber(j, r) ==
  /\ jobRun[j] # None /\ r \in jobRun[j].todo
  /\ \A s \in jobRun[j].todo : jobRun[j].read[r] <= jobRun[j].read[s]
  /\ ~LockedByOther(j, recurrence[r].type)
  /\ LET job == jobRun[j]
     IN  jobRun' = [jobRun EXCEPT ![j] = [job EXCEPT !.todo = @ \ {r}, !.series = @ \cup {recurrence[r].type}]]
  /\ UNCHANGED <<today, recurrence, occurrences, lastSequence, displaced>>

\* An entry of r on the day that is not deleted: the unique index, and DO NOTHING.
Taken(r, day) == \E o \in occurrences[r] : o.on = day /\ ~o.deleted

\* The update of a row that was done: one more is counted, whether or not it was made.
Moved(row, day) ==
  [row EXCEPT !.count = @ + 1, !.next = day + 1, !.active = @ /\ row.count + 1 < MaxOccurrences]

\* The transaction commits with all its rows.
Commit(j) ==
  /\ jobRun[j] # None /\ jobRun[j].todo = {}
  /\ LET rows == jobRun[j].rows
         day(r) == jobRun[j].read[r]
         of(t) == Cardinality({r \in rows : recurrence[r].type = t})
     IN  /\ occurrences' = [r \in Recurrence |->
              IF r \in rows /\ ~Taken(r, day(r))
              THEN occurrences[r] \cup {[on |-> day(r), made |-> day(r), deleted |-> FALSE]}
              ELSE occurrences[r]]
         /\ displaced' = [r \in Recurrence |->
              IF r \in rows /\ \E o \in occurrences[r] : o.on = day(r) /\ ~o.deleted /\ o.made # day(r)
              THEN displaced[r] \cup {day(r)} ELSE displaced[r]]
         /\ recurrence' = [r \in Recurrence |-> IF r \in rows THEN Moved(recurrence[r], day(r)) ELSE recurrence[r]]
         /\ lastSequence' = [t \in Type |-> lastSequence[t] + of(t)]
  /\ jobRun' = [jobRun EXCEPT ![j] = None]
  /\ UNCHANGED today

\* An error, a crash, or the deadlock of two runs that wait for each other's series.
RollBack(j) ==
  /\ jobRun[j] # None
  /\ jobRun' = [jobRun EXCEPT ![j] = None]
  /\ UNCHANGED <<today, recurrence, occurrences, lastSequence, displaced>>

-----------------------------------------------------------------------------
\* Users edit the due date of an entry of the recurrence, which the unique index may
\* refuse, or delete it.
EditDueDate(r, o, day) ==
  /\ o \in occurrences[r] /\ ~o.deleted /\ ~Taken(r, day)
  /\ occurrences' = [occurrences EXCEPT ![r] = (@ \ {o}) \cup {[o EXCEPT !.on = day]}]
  /\ UNCHANGED <<today, recurrence, lastSequence, jobRun, displaced>>

DeleteEntry(r, o) ==
  /\ o \in occurrences[r] /\ ~o.deleted
  /\ occurrences' = [occurrences EXCEPT ![r] = (@ \ {o}) \cup {[o EXCEPT !.deleted = TRUE]}]
  /\ UNCHANGED <<today, recurrence, lastSequence, jobRun, displaced>>

Next ==
  \/ NextDay
  \/ \E j \in Run : Start(j) \/ Commit(j) \/ RollBack(j) \/ \E r \in Recurrence : TakeNumber(j, r)
  \/ \E r \in Recurrence : \E o \in occurrences[r] : DeleteEntry(r, o) \/ \E day \in Days : EditDueDate(r, o, day)

Spec == Init /\ [][Next]_vars

-----------------------------------------------------------------------------
TypeOK ==
  /\ today \in Days
  /\ recurrence \in [Recurrence -> Row]
  /\ occurrences \in [Recurrence -> SUBSET [on : Days, made : Days, deleted : BOOLEAN]]
  /\ lastSequence \in [Type -> Nat]
  /\ \A j \in Run : jobRun[j] # None =>
       jobRun[j].todo \subseteq jobRun[j].rows /\ jobRun[j].series \subseteq Type
  /\ displaced \in [Recurrence -> SUBSET Days]

\* Each occurrence is made once and counted once, up to the maximum, however many runs
\* overlap, fail or are repeated; only an entry that a user moved to the day of a coming
\* one displaces that (FOR UPDATE SKIP LOCKED, and one transaction for entry and row).
EachOccurrenceOnce ==
  \A r \in Recurrence :
    /\ {o.made : o \in occurrences[r]} = (1 .. recurrence[r].count) \ displaced[r]
    /\ recurrence[r].next = recurrence[r].count + 1
    /\ recurrence[r].count <= MaxOccurrences
==============================================================================
