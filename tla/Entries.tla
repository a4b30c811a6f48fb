------------------------------- MODULE Entries -------------------------------
(***************************************************************************)
(* The financial entries of one branch of one tenant: the life of a        *)
(* payable or a receivable from its creation through approval, payments,   *)
(* refunds, the overdue job, cancellation, soft deletion and restoring.    *)
(*                                                                         *)
(* The database runs at READ COMMITTED.  A handler that does its work in   *)
(* one transaction under the lock of the entry's row is one action.  A     *)
(* handler that first reads without a lock and writes later is two or      *)
(* three actions, and whatever the other requests commit in between        *)
(* happens between them: req[w] is what the request remembers of its read. *)
(*                                                                         *)
(* The rows of the job financial.recurrence are left out: nothing in the   *)
(* repository inserts a recurrence for it to generate entries from.        *)
(***************************************************************************)
EXTENDS Money, Sequences, Functions

CONSTANTS
  Entry,            \* ids of the rows of financial_entries
  PaymentId,        \* ids of the rows of financial_entry_payments
  Worker,           \* HTTP requests and jobs in flight
  User,             \* authenticated users
  Series,           \* keys of document_sequences: branch, type and year
  Amount,           \* amounts, in cents, that creations and payments carry
  AmendedAmount,    \* amounts that PUT /entries/:id carries
  Date,             \* issue dates and the dates periods are locked until
  ApprovalFloor,    \* least min_amount of the active approval rules
  MaxInstallments,  \* most installments of one creation
  Operation,        \* the requests made of the system
  NoSeries, NoPayment

OperationKinds == {"CREATE", "UPDATE", "DELETE", "RESTORE", "CANCEL", "APPROVE",
                   "REJECT", "PAY", "REFUND", "OVERDUE", "LOCK"}

ASSUME AmountAssumption == Amount \subseteq Nat \ {0} /\ AmendedAmount \subseteq Nat
ASSUME DateAssumption == Date \subseteq Nat \ {0}
ASSUME BoundAssumption == ApprovalFloor \in Nat /\ MaxInstallments \in Nat \ {0}
ASSUME NullAssumption == NoSeries \notin Series /\ NoPayment \notin PaymentId
ASSUME OperationAssumption == Operation \subseteq OperationKinds

VARIABLES
  entries,    \* financial_entries
  payments,   \* financial_entry_payments
  expired,    \* payments whose refund deadline has passed
  sequences,  \* document_sequences.last_sequence
  approvals,  \* entry_approvals, per entry in the order of their insertion
  locks,      \* lock_periods.locked_until, deleted rows left out
  audit,      \* audit_logs
  outbox,     \* public.outbox_events
  req         \* what each request in flight has read and still has to do

vars == <<entries, payments, expired, sequences, approvals, locks, audit, outbox, req>>

-----------------------------------------------------------------------------
Status == {"DRAFT", "PENDING_APPROVAL", "PENDING", "PARTIAL", "OVERDUE", "PAID", "CANCELLED"}

\* "ABSENT" stands for a row not inserted yet; number 0 is a NULL document_number,
\* and a NULL paid_amount is read as 0 everywhere (COALESCE).
Row == [status  : Status \cup {"ABSENT"},
        amount  : Nat,
        paid    : Nat,
        series  : Series \cup {NoSeries},
        number  : Nat,
        issued  : Date \cup {0},
        late    : BOOLEAN,      \* due_date < CURRENT_DATE
        deleted : BOOLEAN]

NoRow == [status |-> "ABSENT", amount |-> 0, paid |-> 0, series |-> NoSeries,
          number |-> 0, issued |-> 0, late |-> FALSE, deleted |-> FALSE]

Payment == [id : PaymentId, entry : Entry, amount : Nat \ {0}]
Approval == [by : User, action : {"APPROVED", "REJECTED"}]
AuditRow == [entry : Entry, action : {"CREATE", "UPDATE", "DELETE", "RESTORE", "CANCEL"}, user : User]
Event == [name : {"entry.pending_approval", "entry.approved", "entry.rejected", "payment.created"},
          entry : Entry, payment : PaymentId \cup {NoPayment}]

\* A request that read entry "entry" (stage "checked"), or that has written it and
\* still has to commit its audit row (stage "written").
EntryRequest == [op : {"UPDATE", "DELETE", "RESTORE", "CANCEL", "APPROVE", "REJECT"},
                 entry : Entry, user : User, stage : {"checked", "written"}]
CreateRequest == [op : {"CREATE"}, user : User, issued : Date]
Idle == [op |-> "IDLE"]

Init ==
  /\ entries = [e \in Entry |-> NoRow]
  /\ payments = {}
  /\ expired = {}
  /\ sequences = [s \in Series |-> 0]
  /\ approvals = [e \in Entry |-> <<>>]
  /\ locks = {}
  /\ audit = {}
  /\ outbox = {}
  /\ req = [w \in Worker |-> Idle]

\* Mutant of Live: deleted_at IS NULL is forgotten.
LiveOrDeleted(e) == entries[e].status # "ABSENT"

\* What a SELECT ... WHERE deleted_at IS NULL finds, and what findDeletedById does.
Live(e) == entries[e].status # "ABSENT" /\ ~entries[e].deleted
Trashed(e) == entries[e].status # "ABSENT" /\ entries[e].deleted

\* checkLockPeriod: the latest locked_until covers the date.
Locked(d) == \E l \in locks : d <= l

PaymentsOf(e) == {p \in payments : p.entry = e}
PaidSum(e) == SumAmount(PaymentsOf(e))
PaymentIds == {p.id : p \in payments} \cup {o.payment : o \in outbox}

\* Mutant of EventOf: an event that no listener is registered for.
EventUnknown(n, e) == [name |-> "entry.updated", entry |-> e, payment |-> NoPayment]

EventOf(n, e) == [name |-> n, entry |-> e, payment |-> NoPayment]

Begin(w, r) == req[w] = Idle /\ r.op \in Operation /\ req' = [req EXCEPT ![w] = r]
Finish(w) == req' = [req EXCEPT ![w] = Idle]
Holds(w, op, stage) == req[w].op = op /\ req[w].stage = stage

-----------------------------------------------------------------------------
(* POST /entries: validateCreate and checkLockPeriod before the transaction,
   everything else inside it. *)
CreateCheck(w, u, d) ==
  /\ ~Locked(d)
  /\ Begin(w, [op |-> "CREATE", user |-> u, issued |-> d])
  /\ UNCHANGED <<entries, payments, expired, sequences, approvals, locks, audit, outbox>>

\* Mutant of NeedsApproval: a total that equals min_amount needs none.
NeedsApprovalAbove(total) == total > ApprovalFloor

\* checkApprovalRules: the total, not the installment, is compared with the rules.
NeedsApproval(total) == total >= ApprovalFloor

InitialStatus(submit, total) ==
  IF ~submit THEN "DRAFT" ELSE IF NeedsApproval(total) THEN "PENDING_APPROVAL" ELSE "PENDING"

\* Document numbering as a contract: who has which number.
Numbers == INSTANCE DocumentNumbers WITH
             MaxBatch <- MaxInstallments,
             last   <- sequences,
             series <- [e \in Entry |-> entries[e].series],
             number <- [e \in Entry |-> entries[e].number]

\* Mutant of CreatedRow: the installments of a batch share one number.
CreatedRowSameNumber(total, count, i, status, s, d) ==
  [NoRow EXCEPT !.status = status,
                !.amount = Installment(total, count, i),
                !.issued = d,
                !.series = IF status = "PENDING" THEN s ELSE NoSeries,
                !.number = IF status = "PENDING" THEN sequences[s] + count ELSE 0]

\* The i-th of count installments, numbered at once when no approval is needed.
CreatedRow(total, count, i, status, s, d) ==
  [NoRow EXCEPT !.status = status,
                !.amount = Installment(total, count, i),
                !.issued = d,
                !.series = IF status = "PENDING" THEN s ELSE NoSeries,
                !.number = IF status = "PENDING" THEN sequences[s] + i ELSE 0]

\* One transaction inserts all installments; place says which row is which.  Only
\* the first one is audited and announced.
CreateCommit(w, total, submit, count, place, s) ==
  LET status == InitialStatus(submit, total)
      first == CHOOSE e \in DOMAIN place : place[e] = 1
  IN  /\ req[w].op = "CREATE"
      /\ \A e \in DOMAIN place : entries[e].status = "ABSENT"
      /\ entries' = [e \in Entry |->
                       IF e \in DOMAIN place
                       THEN CreatedRow(total, count, place[e], status, s, req[w].issued)
                       ELSE entries[e]]
      /\ sequences' = IF status = "PENDING" THEN [sequences EXCEPT ![s] = @ + count] ELSE sequences
      /\ audit' = audit \cup {[entry |-> first, action |-> "CREATE", user |-> req[w].user]}
      /\ outbox' = IF status = "PENDING_APPROVAL"
                   THEN outbox \cup {EventOf("entry.pending_approval", first)} ELSE outbox
      /\ Finish(w)
      /\ UNCHANGED <<payments, expired, approvals, locks>>

\* place puts the new rows in the order of the installments.
Create(w) ==
  \E total \in Amount, submit \in BOOLEAN, count \in 1 .. MaxInstallments,
     S \in SUBSET Entry, s \in Series :
    \E place \in Bijection(S, 1 .. count) : CreateCommit(w, total, submit, count, place, s)

-----------------------------------------------------------------------------
(* PUT, DELETE, POST restore and POST cancel of an entry.  Each reads the row
   on a pooled connection, then runs a transaction whose only statement is the
   audit row: the UPDATE of the entry goes through the repository on another
   pooled connection, and is committed on its own. *)
Checkable(op, e) ==
  CASE op = "RESTORE" -> Trashed(e)
    [] op = "CANCEL"  -> Live(e) /\ entries[e].status \notin {"CANCELLED", "PAID", "PARTIAL"}
    [] OTHER          -> Live(e)

EditCheck(w, op, e, u) ==
  /\ Checkable(op, e)
  /\ ~Locked(entries[e].issued)
  /\ Begin(w, [op |-> op, entry |-> e, user |-> u, stage |-> "checked"])
  /\ UNCHANGED <<entries, payments, expired, sequences, approvals, locks, audit, outbox>>

\* The statement found its row: the row becomes r and the audit row is left to do.
Written(w, e, r) ==
  /\ entries' = [entries EXCEPT ![e] = r]
  /\ req' = [req EXCEPT ![w].stage = "written"]
  /\ UNCHANGED <<payments, expired, sequences, approvals, locks, audit, outbox>>

\* The row is gone (or back): no row is updated; findById then finds nothing and
\* the request fails, except for DELETE, which does not read the row again.
NotFound(w) ==
  /\ IF req[w].op = "DELETE" THEN req' = [req EXCEPT ![w].stage = "written"] ELSE Finish(w)
  /\ UNCHANGED <<entries, payments, expired, sequences, approvals, locks, audit, outbox>>

\* An amount and a due date, either of which may be left as it is.
UpdateWrite(w) ==
  LET e == req[w].entry
  IN  /\ Holds(w, "UPDATE", "checked")
      /\ \/ /\ Live(e)
            /\ \E amount \in AmendedAmount \cup {entries[e].amount}, late \in BOOLEAN :
                 Written(w, e, [entries[e] EXCEPT !.amount = amount, !.late = late])
         \/ ~Live(e) /\ NotFound(w)

SoftDeleteWrite(w) ==
  LET e == req[w].entry
  IN  /\ Holds(w, "DELETE", "checked")
      /\ \/ Live(e) /\ Written(w, e, [entries[e] EXCEPT !.deleted = TRUE])
         \/ ~Live(e) /\ NotFound(w)

\* restore reads the row again even when another restore was faster.
RestoreWrite(w) ==
  LET e == req[w].entry
  IN  /\ Holds(w, "RESTORE", "checked")
      /\ Written(w, e, [entries[e] EXCEPT !.deleted = FALSE])

\* WHERE names the id and deleted_at, never the status that was checked.
CancelWrite(w) ==
  LET e == req[w].entry
  IN  /\ Holds(w, "CANCEL", "checked")
      /\ \/ Live(e) /\ Written(w, e, [entries[e] EXCEPT !.status = "CANCELLED"])
         \/ ~Live(e) /\ NotFound(w)

\* The repository reads the row again (not for DELETE), then the transaction
\* inserts the audit row and commits.
AuditCommit(w) ==
  LET r == req[w]
  IN  /\ r.op \in {"UPDATE", "DELETE", "RESTORE", "CANCEL"} /\ r.stage = "written"
      /\ audit' = IF Live(r.entry) \/ r.op = "DELETE"
                  THEN audit \cup {[entry |-> r.entry, action |-> r.op, user |-> r.user]}
                  ELSE audit
      /\ Finish(w)
      /\ UNCHANGED <<entries, payments, expired, sequences, approvals, locks, outbox>>

-----------------------------------------------------------------------------
(* Approvals: the status is read without a lock, and checked again by the
   WHERE of the UPDATE; no row updated throws and rolls everything back. *)
\* Entries carry created_by = 'system', so comparing it with the approver
\* excludes nobody.
DecisionCheck(w, op, e, u) ==
  /\ Live(e)
  /\ entries[e].status = "PENDING_APPROVAL"
  /\ Begin(w, [op |-> op, entry |-> e, user |-> u, stage |-> "checked"])
  /\ UNCHANGED <<entries, payments, expired, sequences, approvals, locks, audit, outbox>>

\* Mutant of Awaiting: the UPDATE trusts the status read before.
AwaitingUnchecked(e) == Live(e)

\* WHERE id = ... AND status = 'PENDING_APPROVAL' AND deleted_at IS NULL.
Awaiting(e) == Live(e) /\ entries[e].status = "PENDING_APPROVAL"

ApproveCommit(w, s) ==
  LET e == req[w].entry
  IN  /\ Holds(w, "APPROVE", "checked")
      /\ Awaiting(e)
      /\ sequences' = [sequences EXCEPT ![s] = @ + 1]
      /\ entries' = [entries EXCEPT ![e].status = "PENDING", ![e].series = s,
                                    ![e].number = sequences[s] + 1]
      /\ approvals' = [approvals EXCEPT ![e] = Append(@, [by |-> req[w].user, action |-> "APPROVED"])]
      /\ outbox' = outbox \cup {EventOf("entry.approved", e)}
      /\ Finish(w)
      /\ UNCHANGED <<payments, expired, locks, audit>>

RejectCommit(w) ==
  LET e == req[w].entry
  IN  /\ Holds(w, "REJECT", "checked")
      /\ Awaiting(e)
      /\ entries' = [entries EXCEPT ![e].status = "CANCELLED"]
      /\ approvals' = [approvals EXCEPT ![e] = Append(@, [by |-> req[w].user, action |-> "REJECTED"])]
      /\ outbox' = outbox \cup {EventOf("entry.rejected", e)}
      /\ Finish(w)
      /\ UNCHANGED <<payments, expired, sequences, locks, audit>>

\* APPROVAL_ALREADY_PROCESSED: the transaction, its sequence number included, is
\* rolled back.
DecisionConflict(w) ==
  /\ Holds(w, "APPROVE", "checked") \/ Holds(w, "REJECT", "checked")
  /\ ~Awaiting(req[w].entry)
  /\ Finish(w)
  /\ UNCHANGED <<entries, payments, expired, sequences, approvals, locks, audit, outbox>>

-----------------------------------------------------------------------------
(* Payments: one transaction under the row lock (SELECT ... FOR UPDATE) of the
   entry; the sum is read by a later statement of the same transaction. *)
Payable == {"PENDING", "PARTIAL", "OVERDUE"}

\* Mutant of FitsBalance: the payment is compared with the amount of the entry.
FitsAmount(e, a) == a <= entries[e].amount

\* validatePaymentAmount: the payment does not exceed what is left to pay.
FitsBalance(e, a) == PaidSum(e) + a <= entries[e].amount

\* Mutant of Settled: paid_amount is left as it was.
SettledStatusOnly(e, S) ==
  [entries EXCEPT ![e].status = DetermineStatus(entries[e].amount, SumAmount(S))]

\* updateEntryPaidStatus: status and paid_amount recomputed from the payments S.
Settled(e, S) ==
  [entries EXCEPT ![e].status = DetermineStatus(entries[e].amount, SumAmount(S)),
                  ![e].paid = SumAmount(S)]

RegisterPayment(e, p, a) ==
  LET new == [id |-> p, entry |-> e, amount |-> a]
  IN  /\ "PAY" \in Operation
      /\ p \notin PaymentIds
      /\ Live(e)
      /\ entries[e].status \in Payable
      /\ FitsBalance(e, a)
      /\ payments' = payments \cup {new}
      /\ entries' = Settled(e, PaymentsOf(e) \cup {new})
      /\ outbox' = outbox \cup {[name |-> "payment.created", entry |-> e, payment |-> p]}
      /\ UNCHANGED <<expired, sequences, approvals, locks, audit, req>>

Refund(e, p) ==
  /\ "REFUND" \in Operation
  /\ Live(e)
  /\ entries[e].status \in {"PAID", "PARTIAL"}
  /\ p \in PaymentsOf(e)
  /\ p.id \notin expired
  /\ payments' = payments \ {p}
  /\ entries' = Settled(e, PaymentsOf(e) \ {p})
  /\ UNCHANGED <<expired, sequences, approvals, locks, audit, outbox, req>>

-----------------------------------------------------------------------------
\* Mutant of BecomesOverdue: every entry that still owes something is marked.
BecomesOverdueUnpaid(e) == Live(e) /\ entries[e].late /\ entries[e].status # "PAID"

(* The job financial.overdue is one UPDATE over all rows. *)
BecomesOverdue(e) == Live(e) /\ entries[e].late /\ entries[e].status \in {"PENDING", "PARTIAL"}

MarkOverdue ==
  /\ "OVERDUE" \in Operation
  /\ \E e \in Entry : BecomesOverdue(e)
  /\ entries' = [e \in Entry |->
                   IF BecomesOverdue(e) THEN [entries[e] EXCEPT !.status = "OVERDUE"] ELSE entries[e]]
  /\ UNCHANGED <<payments, expired, sequences, approvals, locks, audit, outbox, req>>

(* lock_periods: a new period may not end at or up to 30 days before an existing one. *)
ClosePeriod(d) ==
  /\ "LOCK" \in Operation
  /\ ~ \E l \in locks : d <= l /\ l - d < 30
  /\ locks' = locks \cup {d}
  /\ UNCHANGED <<entries, payments, expired, sequences, approvals, audit, outbox, req>>

ReopenPeriod(d) ==
  /\ "LOCK" \in Operation
  /\ d \in locks
  /\ locks' = locks \ {d}
  /\ UNCHANGED <<entries, payments, expired, sequences, approvals, audit, outbox, req>>

-----------------------------------------------------------------------------
(* The calendar: a due date passes, a refund deadline passes. *)
DueDatePasses(e) ==
  /\ "OVERDUE" \in Operation
  /\ entries[e].status # "ABSENT" /\ ~entries[e].late
  /\ entries' = [entries EXCEPT ![e].late = TRUE]
  /\ UNCHANGED <<payments, expired, sequences, approvals, locks, audit, outbox, req>>

RefundDeadlinePasses(p) ==
  /\ "REFUND" \in Operation
  /\ p \in payments /\ p.id \notin expired
  /\ expired' = expired \cup {p.id}
  /\ UNCHANGED <<entries, payments, sequences, approvals, locks, audit, outbox, req>>

\* The process stops, a connection is lost, the audit row cannot be inserted: what
\* the request committed stays, what it had left to do is never done.
Abandon(w) ==
  /\ req[w] # Idle
  /\ Finish(w)
  /\ UNCHANGED <<entries, payments, expired, sequences, approvals, locks, audit, outbox>>

-----------------------------------------------------------------------------
Request(w) ==
  \/ \E u \in User :
       \/ \E d \in Date : CreateCheck(w, u, d)
       \/ \E e \in Entry :
            \/ \E op \in {"UPDATE", "DELETE", "RESTORE", "CANCEL"} : EditCheck(w, op, e, u)
            \/ \E op \in {"APPROVE", "REJECT"} : DecisionCheck(w, op, e, u)
  \/ Create(w)
  \/ UpdateWrite(w) \/ SoftDeleteWrite(w) \/ RestoreWrite(w) \/ CancelWrite(w) \/ AuditCommit(w)
  \/ \E s \in Series : ApproveCommit(w, s)
  \/ RejectCommit(w) \/ DecisionConflict(w) \/ Abandon(w)

Next ==
  \/ \E w \in Worker : Request(w)
  \/ \E e \in Entry, p \in PaymentId, a \in Amount : RegisterPayment(e, p, a)
  \/ \E e \in Entry, p \in payments : Refund(e, p)
  \/ MarkOverdue
  \/ \E d \in Date : ClosePeriod(d) \/ ReopenPeriod(d)
  \/ \E e \in Entry : DueDatePasses(e)
  \/ \E p \in payments : RefundDeadlinePasses(p)

Spec == Init /\ [][Next]_vars

-----------------------------------------------------------------------------
(* Correctness. *)

\* Every column and every request in flight holds a value of its type.
TypeOK ==
  /\ entries \in [Entry -> Row]
  /\ payments \subseteq Payment
  /\ expired \subseteq PaymentId
  /\ sequences \in [Series -> Nat]
  /\ approvals \in [Entry -> Seq(Approval)]
  /\ locks \subseteq Date
  /\ audit \subseteq AuditRow
  /\ outbox \subseteq Event
  /\ req \in [Worker -> EntryRequest \cup CreateRequest \cup {Idle}]

\* The materialised column paid_amount is the sum of the payments of the entry,
\* whatever requests edit, cancel or delete the entry between two payments.
PaidAmountIsSum == \A e \in Entry : entries[e].paid = PaidSum(e)

\* While no request amends an amount, the payments of an entry never exceed it:
\* concurrent payments are serialised by the row lock, and no other handler
\* changes what is left to pay.
PaidWithinAmount == \A e \in Entry : PaidSum(e) <= entries[e].amount

\* While no request amends an amount, the status of an entry tells what was paid:
\* everything, a part, or nothing.  An overdue entry still owes something.
StatusTellsPaid ==
  \A e \in Entry :
    LET r == entries[e]
    IN  /\ r.status = "PAID" => PaidSum(e) = r.amount /\ r.amount > 0
        /\ r.status = "PARTIAL" => 0 < PaidSum(e) /\ PaidSum(e) < r.amount
        /\ r.status \in {"DRAFT", "PENDING_APPROVAL", "PENDING"} => PaidSum(e) = 0
        /\ r.status = "OVERDUE" /\ r.amount > 0 => PaidSum(e) < r.amount

\* Approval and numbering go together: an entry waiting for approval has no
\* document number, one that can be paid has one, an entry is decided at most
\* once however many approvers race, and a rejected entry stays cancelled
\* and unnumbered.
DecidedOnce ==
  \A e \in Entry :
    LET r == entries[e]
    IN  /\ r.status \in {"DRAFT", "PENDING_APPROVAL"} => r.number = 0 /\ approvals[e] = <<>>
        /\ r.status \in {"PENDING", "PARTIAL", "OVERDUE", "PAID"} => r.number > 0
        /\ Len(approvals[e]) <= 1
        /\ \A i \in DOMAIN approvals[e] :
             IF approvals[e][i].action = "APPROVED" THEN r.number > 0
             ELSE r.number = 0 /\ r.status = "CANCELLED"

\* Creation and approval implement the numbering contract: consecutive numbers,
\* each held by one entry, kept for ever, deletions and rollbacks included.
NumbersIssued == Numbers!Spec

\* In every series the numbers in use are 1 .. last_sequence, each on one entry:
\* batches of installments and approvals share the counter, and a conflicting
\* approval gives its number back.
SequentialNumbers == Numbers!Sequential

\* While no request amends an amount, an entry that can be paid and reaches the
\* approval floor was approved.
LargeEntriesApproved ==
  \A e \in Entry :
    entries[e].status \in Payable \cup {"PAID"} /\ entries[e].amount >= ApprovalFloor
      => \E i \in DOMAIN approvals[e] : approvals[e][i].action = "APPROVED"

\* Cancellation is final: no approval, payment, refund or job that was under way
\* brings a cancelled entry back.
CancelledIsFinal ==
  [][\A e \in Entry : entries[e].status = "CANCELLED" => entries'[e].status = "CANCELLED"]_vars

\* A deleted entry is frozen: requests that checked it before it was deleted
\* change neither the row nor its payments while it stays deleted.
DeletedIsFrozen ==
  [][\A e \in Entry : entries[e].deleted /\ entries'[e].deleted
       => /\ entries'[e] = [entries[e] EXCEPT !.late = entries'[e].late]
          /\ PaymentsOf(e)' = PaymentsOf(e)]_vars
==============================================================================
