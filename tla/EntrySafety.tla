----------------------------- MODULE EntrySafety -----------------------------
(***************************************************************************)
(* The safety theorems about entries, each by looking at the ways a step   *)
(* can change one row (EntriesProofs), and the theorem that Entries        *)
(* implements DocumentNumbers.                                             *)
(***************************************************************************)
EXTENDS EntriesProofs

\* The fields of a row after EXCEPT, for the provers.
LEMMA RowChange ==
  ASSUME Inv, NEW e \in Entry, RowStep(e)
  PROVE  /\ entries[e] \in Row
         /\ RowAmended(e) => /\ \E amount \in AmendedAmount \cup {entries[e].amount} : entries'[e].amount = amount
                             /\ \A f \in {"status", "paid", "series", "number", "issued", "deleted"} :
                                  entries'[e][f] = entries[e][f]
         /\ RowTrashed(e) \/ RowRestored(e) =>
              \A f \in {"status", "amount", "paid", "series", "number", "issued", "late"} :
                entries'[e][f] = entries[e][f]
         /\ RowLate(e) =>
              \A f \in {"status", "amount", "paid", "series", "number", "issued", "deleted"} :
                entries'[e][f] = entries[e][f]
         /\ RowCancelled(e) \/ RowRejected(e) \/ RowOverdue(e) =>
              \A f \in {"amount", "paid", "series", "number", "issued", "late", "deleted"} :
                entries'[e][f] = entries[e][f]
         /\ RowCancelled(e) \/ RowRejected(e) => entries'[e].status = "CANCELLED"
         /\ RowOverdue(e) => entries'[e].status = "OVERDUE"
         /\ RowApproved(e) => /\ entries'[e].status = "PENDING" /\ entries'[e].number > 0
                              /\ \A f \in {"amount", "paid", "issued", "late", "deleted"} :
                                   entries'[e][f] = entries[e][f]
         /\ RowPaid(e) \/ RowRefunded(e) =>
              /\ entries'[e].paid = SumAmount(PaymentsOf(e)')
              /\ entries'[e].status = DetermineStatus(entries[e].amount, SumAmount(PaymentsOf(e)'))
              /\ \A f \in {"amount", "series", "number", "issued", "late", "deleted"} :
                   entries'[e][f] = entries[e][f]
<1>1. entries[e] \in Row /\ entries \in [Entry -> Row] /\ sequences \in [Series -> Nat]
  BY DEF Inv, TypeOK
<1>2. RowAmended(e) => /\ \E amount \in AmendedAmount \cup {entries[e].amount} : entries'[e].amount = amount
                       /\ \A f \in {"status", "paid", "series", "number", "issued", "deleted"} :
                            entries'[e][f] = entries[e][f]
  BY <1>1 DEF RowAmended, Row
<1>3. RowTrashed(e) \/ RowRestored(e) =>
        \A f \in {"status", "amount", "paid", "series", "number", "issued", "late"} :
          entries'[e][f] = entries[e][f]
  BY <1>1 DEF RowTrashed, RowRestored, Row
<1>4. RowLate(e) =>
        \A f \in {"status", "amount", "paid", "series", "number", "issued", "deleted"} :
          entries'[e][f] = entries[e][f]
  BY <1>1 DEF RowLate, Row
<1>5. /\ RowCancelled(e) \/ RowRejected(e) \/ RowOverdue(e) =>
           \A f \in {"amount", "paid", "series", "number", "issued", "late", "deleted"} :
             entries'[e][f] = entries[e][f]
      /\ RowCancelled(e) \/ RowRejected(e) => entries'[e].status = "CANCELLED"
      /\ RowOverdue(e) => entries'[e].status = "OVERDUE"
  BY <1>1 DEF RowCancelled, RowRejected, RowOverdue, Row
<1>6. RowApproved(e) => /\ entries'[e].status = "PENDING" /\ entries'[e].number > 0
                        /\ \A f \in {"amount", "paid", "issued", "late", "deleted"} :
                             entries'[e][f] = entries[e][f]
  BY <1>1 DEF RowApproved, Row
<1>7. RowPaid(e) \/ RowRefunded(e) =>
        /\ entries'[e].paid = SumAmount(PaymentsOf(e)')
        /\ entries'[e].status = DetermineStatus(entries[e].amount, SumAmount(PaymentsOf(e)'))
        /\ \A f \in {"amount", "series", "number", "issued", "late", "deleted"} :
             entries'[e][f] = entries[e][f]
  <2>1. ASSUME NEW S
        PROVE  /\ Settled(e, S)[e].paid = SumAmount(S)
               /\ Settled(e, S)[e].status = DetermineStatus(entries[e].amount, SumAmount(S))
               /\ \A f \in {"amount", "series", "number", "issued", "late", "deleted"} :
                    Settled(e, S)[e][f] = entries[e][f]
    BY <1>1 DEF Settled, Row
  <2>2. RowPaid(e) \/ RowRefunded(e) => \E S : PaymentsOf(e)' = S /\ entries'[e] = Settled(e, S)[e]
    BY DEF RowPaid, RowRefunded
  <2> QED
    BY <2>1, <2>2
<1> QED
  BY <1>1, <1>2, <1>3, <1>4, <1>5, <1>6, <1>7

\* A new row: nothing was paid on it, and its number, when it has one, is positive.
LEMMA RowCreation ==
  ASSUME Inv, NEW e \in Entry, RowCreated(e)
  PROVE  /\ PaymentsOf(e) = {} /\ PaymentsOf(e)' = {}
         /\ entries'[e].status \in {"DRAFT", "PENDING_APPROVAL", "PENDING"}
         /\ entries'[e].paid = 0 /\ entries'[e].amount \in Nat /\ ~entries'[e].deleted
         /\ IF entries'[e].status = "PENDING"
            THEN entries'[e].number > 0 /\ entries'[e].amount < ApprovalFloor
            ELSE entries'[e].number = 0 /\ entries'[e].series = NoSeries
<1>1. PICK total \in Amount, submit \in BOOLEAN, count \in 1 .. MaxInstallments, s \in Series, d \in Date :
        \E i \in 1 .. count :
          entries'[e] = CreatedRow(total, count, i, InitialStatus(submit, total), s, d)
  BY DEF RowCreated
<1>2. PICK i \in 1 .. count :
        entries'[e] = CreatedRow(total, count, i, InitialStatus(submit, total), s, d)
  BY <1>1
<1>3. total \in Nat /\ count \in Nat /\ sequences[s] + i > 0 /\ ApprovalFloor \in Nat
  BY AmountAssumption, BoundAssumption DEF Inv, TypeOK
<1>4. Installment(total, count, i) \in Nat /\ Installment(total, count, i) <= total
  <2> DEFINE base == total \div count
  <2>1. base \in Nat /\ base * count <= total
    BY <1>3
  <2>2. base * (count - 1) <= total /\ base * (count - 1) \in Nat /\ base <= total
    BY <1>3, <2>1
  <2> QED
    BY <1>3, <2>1, <2>2 DEF Installment
<1>5. PaymentsOf(e) = {} /\ PaymentsOf(e)' = {}
  BY DEF RowCreated, SamePayments, Inv, PaymentsBelong, PaymentsOf
<1> QED
  BY <1>2, <1>3, <1>4, <1>5 DEF CreatedRow, NoRow, InitialStatus, NeedsApproval

-----------------------------------------------------------------------------
\* paid_amount is the sum of the payments after every step.
LEMMA PaidAmountStep ==
  ASSUME Inv, NEW e \in Entry, RowStep(e), entries[e].paid = PaidSum(e)
  PROVE  entries'[e].paid = PaidSum(e)'
<1>1. CASE RowPaid(e) \/ RowRefunded(e)
  BY <1>1, RowChange DEF PaidSum
<1>2. CASE RowCreated(e)
  BY <1>2, RowCreation, SumAmountType DEF PaidSum
<1>3. CASE ~(RowPaid(e) \/ RowRefunded(e) \/ RowCreated(e))
  <2>1. PaymentsOf(e)' = PaymentsOf(e)
    BY <1>3 DEF RowStep, RowKept, RowAmended, RowTrashed, RowRestored, RowCancelled, RowApproved,
       RowRejected, RowOverdue, RowLate, SamePayments
  <2>2. entries'[e].paid = entries[e].paid
    BY <1>3, RowChange DEF RowStep, RowKept
  <2> QED
    BY <2>1, <2>2 DEF PaidSum
<1> QED
  BY <1>1, <1>2, <1>3

\* The materialised paid_amount never departs from SUM(payments.amount), whatever
\* edits, cancellations, deletions and crashes come in between.
THEOREM PaidAmountCorrect == Spec => []PaidAmountIsSum
<1>1. Init => PaidAmountIsSum
  <2> SUFFICES ASSUME Init, NEW e \in Entry PROVE entries[e].paid = PaidSum(e)
    BY DEF PaidAmountIsSum
  <2>1. PaymentsOf(e) = {} /\ entries[e].paid = 0
    BY DEF Init, NoRow, PaymentsOf
  <2> QED
    BY <2>1, SumAmountType DEF PaidSum
<1>2. Inv /\ RequestsFindRows /\ PaidAmountIsSum /\ [Next]_vars => PaidAmountIsSum'
  BY NextSeenFromRow, PaidAmountStep DEF PaidAmountIsSum
<1> QED
  BY <1>1, <1>2, Invariant, PTL DEF Spec

-----------------------------------------------------------------------------
\* While no amount is amended, what is paid stays within the amount.
LEMMA PaidWithinStep ==
  ASSUME AmendedAmount = {}, Inv, NEW e \in Entry, RowStep(e), PaidSum(e) <= entries[e].amount
  PROVE  PaidSum(e)' <= entries'[e].amount
<1>1. CASE RowPaid(e)
  <2>1. PICK p \in Payment \ PaymentsOf(e) :
          FitsBalance(e, p.amount) /\ p.amount > 0 /\ PaymentsOf(e)' = PaymentsOf(e) \cup {p}
    BY <1>1 DEF RowPaid
  <2>2. PaidSum(e)' = PaidSum(e) + p.amount
    BY <2>1, PaidType, SumAmountAdd DEF PaidSum, Payment
  <2> QED
    BY <1>1, <2>1, <2>2, RowChange DEF FitsBalance
<1>2. CASE RowRefunded(e)
  <2>1. PICK p \in PaymentsOf(e) : PaymentsOf(e)' = PaymentsOf(e) \ {p}
    BY <1>2 DEF RowRefunded
  <2>2. PaidSum(e)' \in Nat /\ PaidSum(e) = PaidSum(e)' + p.amount /\ p.amount \in Nat
    BY <2>1, PaidType, SumAmountRemove DEF PaidSum
  <2>3. entries'[e].amount = entries[e].amount /\ entries[e].amount \in Nat
    BY <1>2, RowChange DEF Row
  <2> QED
    BY <2>2, <2>3
<1>3. CASE RowCreated(e)
  BY <1>3, RowCreation, SumAmountType DEF PaidSum
<1>4. CASE ~(RowPaid(e) \/ RowRefunded(e) \/ RowCreated(e))
  <2>1. PaymentsOf(e)' = PaymentsOf(e)
    BY <1>4 DEF RowStep, RowKept, RowAmended, RowTrashed, RowRestored, RowCancelled, RowApproved,
       RowRejected, RowOverdue, RowLate, SamePayments
  <2>2. entries'[e].amount = entries[e].amount
    BY <1>4, RowChange DEF RowStep, RowKept
  <2> QED
    BY <2>1, <2>2 DEF PaidSum
<1> QED
  BY <1>1, <1>2, <1>3, <1>4

\* No entry is overpaid, however many payments and refunds race, as long as
\* PUT /entries/:id amends no amount.
THEOREM NeverOverpaid ==
  ASSUME AmendedAmount = {}
  PROVE  Spec => []PaidWithinAmount
<1>1. Init => PaidWithinAmount
  <2> SUFFICES ASSUME Init, NEW e \in Entry PROVE PaidSum(e) <= entries[e].amount
    BY DEF PaidWithinAmount
  <2>1. PaymentsOf(e) = {} /\ entries[e].amount = 0
    BY DEF Init, NoRow, PaymentsOf
  <2> QED
    BY <2>1, SumAmountType DEF PaidSum
<1>2. Inv /\ RequestsFindRows /\ PaidWithinAmount /\ [Next]_vars => PaidWithinAmount'
  BY NextSeenFromRow, PaidWithinStep DEF PaidWithinAmount
<1> QED
  BY <1>1, <1>2, Invariant, PTL DEF Spec

-----------------------------------------------------------------------------
(* While no amount is amended, the status tells what was paid.                 *)
StatusOfPayments(e) ==
  LET r == entries[e]
  IN  /\ r.status = "PAID" => PaidSum(e) = r.amount /\ r.amount > 0
      /\ r.status = "PARTIAL" => 0 < PaidSum(e) /\ PaidSum(e) < r.amount
      /\ r.status \in {"DRAFT", "PENDING_APPROVAL", "PENDING"} => PaidSum(e) = 0
      /\ r.status = "OVERDUE" /\ r.amount > 0 => PaidSum(e) < r.amount

LEMMA StatusStep ==
  ASSUME AmendedAmount = {}, Inv, NEW e \in Entry, RowStep(e), StatusOfPayments(e)
  PROVE  StatusOfPayments(e)'
<1>1. entries[e] \in Row /\ entries[e].amount \in Nat /\ PaidSum(e) \in Nat
  BY RowChange, PaidType DEF Row
<1>2. CASE RowPaid(e)
  <2>1. PICK p \in Payment \ PaymentsOf(e) :
          FitsBalance(e, p.amount) /\ p.amount > 0 /\ PaymentsOf(e)' = PaymentsOf(e) \cup {p}
    BY <1>2 DEF RowPaid
  <2>2. PaidSum(e)' = PaidSum(e) + p.amount /\ p.amount \in Nat
    BY <2>1, PaidType, SumAmountAdd DEF PaidSum, Payment
  <2>3. /\ entries'[e].status = DetermineStatus(entries[e].amount, PaidSum(e)')
        /\ entries'[e].amount = entries[e].amount
    BY <1>2, RowChange DEF PaidSum
  <2> QED
    BY <1>1, <2>1, <2>2, <2>3 DEF FitsBalance, DetermineStatus, StatusOfPayments
<1>3. CASE RowRefunded(e)
  <2>1. PICK p \in PaymentsOf(e) : PaymentsOf(e)' = PaymentsOf(e) \ {p}
    BY <1>3 DEF RowRefunded
  <2>2. PaidSum(e)' \in Nat /\ PaidSum(e) = PaidSum(e)' + p.amount
    BY <2>1, PaidType, SumAmountRemove DEF PaidSum
  <2>3. p.amount \in Nat /\ p.amount > 0
    BY <2>1 DEF PaymentsOf, Inv, TypeOK, Payment
  <2>4. /\ entries'[e].status = DetermineStatus(entries[e].amount, PaidSum(e)')
        /\ entries'[e].amount = entries[e].amount
    BY <1>3, RowChange DEF PaidSum
  <2>5. PaidSum(e) <= entries[e].amount
    BY <1>1, <1>3 DEF RowRefunded, StatusOfPayments
  <2> QED
    BY <1>1, <2>2, <2>3, <2>4, <2>5 DEF DetermineStatus, StatusOfPayments
<1>4. CASE RowCreated(e)
  <2>1. PaidSum(e)' = 0
    BY <1>4, RowCreation, SumAmountType DEF PaidSum
  <2> QED
    BY <1>4, <2>1, RowCreation DEF StatusOfPayments
<1>5. CASE ~(RowPaid(e) \/ RowRefunded(e) \/ RowCreated(e))
  <2>1. PaidSum(e)' = PaidSum(e)
    BY <1>5 DEF PaidSum, RowStep, RowKept, RowAmended, RowTrashed, RowRestored, RowCancelled,
       RowApproved, RowRejected, RowOverdue, RowLate, SamePayments
  <2>2. entries'[e].amount = entries[e].amount
    BY <1>5, RowChange DEF RowStep, RowKept
  <2>3. \/ entries'[e].status = entries[e].status \/ entries'[e].status = "CANCELLED"
        \/ entries'[e].status = "PENDING" /\ entries[e].status = "PENDING_APPROVAL"
        \/ entries'[e].status = "OVERDUE" /\ entries[e].status \in {"PENDING", "PARTIAL"}
    BY <1>5, RowChange DEF RowStep, RowKept, RowApproved, Awaiting, RowOverdue, BecomesOverdue
  <2> QED
    BY <1>1, <2>1, <2>2, <2>3 DEF StatusOfPayments
<1> QED
  BY <1>2, <1>3, <1>4, <1>5

\* PAID means paid in full, PARTIAL in part, PENDING not at all, OVERDUE not in
\* full, as long as PUT /entries/:id amends no amount.
THEOREM StatusIsTrue ==
  ASSUME AmendedAmount = {}
  PROVE  Spec => []StatusTellsPaid
<1>1. Init => \A e \in Entry : StatusOfPayments(e)
  BY DEF Init, NoRow, StatusOfPayments
<1>2. Inv /\ RequestsFindRows /\ (\A e \in Entry : StatusOfPayments(e)) /\ [Next]_vars
        => (\A e \in Entry : StatusOfPayments(e))'
  BY NextSeenFromRow, StatusStep
<1>3. (\A e \in Entry : StatusOfPayments(e)) => StatusTellsPaid
  BY DEF StatusOfPayments, StatusTellsPaid
<1> QED
  BY <1>1, <1>2, <1>3, Invariant, PTL DEF Spec

-----------------------------------------------------------------------------
(* While no amount is amended, nothing large is payable without an approval.   *)
ApprovedWhenLarge(e) ==
  entries[e].status \in Payable \cup {"PAID"} /\ entries[e].amount >= ApprovalFloor
    => \E i \in DOMAIN approvals[e] : approvals[e][i].action = "APPROVED"

LEMMA ApprovalStep ==
  ASSUME AmendedAmount = {}, Inv, NEW e \in Entry, RowStep(e), ApprovedWhenLarge(e)
  PROVE  ApprovedWhenLarge(e)'
<1>1. CASE RowApproved(e)
  <2>1. PICK u \in User : approvals'[e] = Append(approvals[e], [by |-> u, action |-> "APPROVED"])
    BY <1>1 DEF RowApproved
  <2>2. approvals[e] \in Seq(Approval)
    BY DEF Inv, TypeOK
  <2>3. /\ Len(approvals[e]) + 1 \in DOMAIN approvals'[e]
        /\ approvals'[e][Len(approvals[e]) + 1].action = "APPROVED"
    BY <2>1, <2>2
  <2> QED
    BY <2>3 DEF ApprovedWhenLarge
<1>2. CASE RowCreated(e)
  <2>1. \/ entries'[e].status \in {"DRAFT", "PENDING_APPROVAL"}
        \/ entries'[e].amount \in Nat /\ entries'[e].amount < ApprovalFloor
    BY <1>2, RowCreation
  <2> QED
    BY <2>1, BoundAssumption DEF ApprovedWhenLarge, Payable
<1>3. CASE RowCancelled(e) \/ RowRejected(e)
  BY <1>3, RowChange DEF ApprovedWhenLarge, Payable
<1>4. CASE RowPaid(e) \/ RowRefunded(e) \/ RowOverdue(e)
  <2>1. entries[e].status \in Payable \cup {"PAID"} /\ approvals'[e] = approvals[e]
    BY <1>4 DEF RowPaid, RowRefunded, RowOverdue, BecomesOverdue, Payable, SameApprovals
  <2>2. entries'[e].amount = entries[e].amount
    BY <1>4, RowChange
  <2> QED
    BY <2>1, <2>2 DEF ApprovedWhenLarge
<1>5. CASE RowKept(e) \/ RowAmended(e) \/ RowTrashed(e) \/ RowRestored(e) \/ RowLate(e)
  <2>1. approvals'[e] = approvals[e]
    BY <1>5 DEF RowKept, RowAmended, RowTrashed, RowRestored, RowLate, SameApprovals
  <2>2. entries'[e].amount = entries[e].amount /\ entries'[e].status = entries[e].status
    BY <1>5, RowChange DEF RowKept
  <2> QED
    BY <2>1, <2>2 DEF ApprovedWhenLarge
<1> QED
  BY <1>1, <1>2, <1>3, <1>4, <1>5 DEF RowStep

\* An entry that reaches the approval floor is payable only after an approval, as
\* long as PUT /entries/:id amends no amount.
THEOREM LargeNeedApproval ==
  ASSUME AmendedAmount = {}
  PROVE  Spec => []LargeEntriesApproved
<1>1. Init => \A e \in Entry : ApprovedWhenLarge(e)
  BY DEF Init, NoRow, ApprovedWhenLarge, Payable
<1>2. Inv /\ RequestsFindRows /\ (\A e \in Entry : ApprovedWhenLarge(e)) /\ [Next]_vars
        => (\A e \in Entry : ApprovedWhenLarge(e))'
  BY NextSeenFromRow, ApprovalStep
<1>3. (\A e \in Entry : ApprovedWhenLarge(e)) => LargeEntriesApproved
  BY DEF ApprovedWhenLarge, LargeEntriesApproved
<1> QED
  BY <1>1, <1>2, <1>3, Invariant, PTL DEF Spec

-----------------------------------------------------------------------------
\* The step formulas of the action properties.
StaysCancelled == \A e \in Entry : entries[e].status = "CANCELLED" => entries'[e].status = "CANCELLED"

StaysFrozen ==
  \A e \in Entry : entries[e].deleted /\ entries'[e].deleted
    => /\ entries'[e] = [entries[e] EXCEPT !.late = entries'[e].late]
       /\ PaymentsOf(e)' = PaymentsOf(e)

\* Approval, payment, refund, the overdue job: none brings a cancelled entry back.
THEOREM CancellationIsFinal == Spec => CancelledIsFinal
<1>1. ASSUME Inv, NEW e \in Entry, RowStep(e), entries[e].status = "CANCELLED"
      PROVE  entries'[e].status = "CANCELLED"
  <2>1. ~RowCreated(e) /\ ~RowPaid(e) /\ ~RowRefunded(e) /\ ~RowOverdue(e) /\ ~RowApproved(e)
    BY <1>1 DEF RowCreated, RowPaid, RowRefunded, RowOverdue, RowApproved, Payable, BecomesOverdue,
       Awaiting
  <2> QED
    BY <1>1, <2>1, RowChange DEF RowStep, RowKept
<1>2. Inv /\ RequestsFindRows /\ [Next]_vars => [StaysCancelled]_vars
  BY <1>1, NextSeenFromRow DEF StaysCancelled
<1> QED
  BY <1>2, Invariant, PTL DEF Spec, CancelledIsFinal, StaysCancelled

\* What was checked before a deletion changes neither the row nor its payments
\* after it.
THEOREM DeletionFreezes == Spec => DeletedIsFrozen
<1>1. ASSUME Inv, NEW e \in Entry, RowStep(e), entries[e].deleted, entries'[e].deleted
      PROVE  /\ entries'[e] = [entries[e] EXCEPT !.late = entries'[e].late]
             /\ PaymentsOf(e)' = PaymentsOf(e)
  <2>1. ~Live(e)
    BY <1>1 DEF Live
  <2>2. /\ ~RowPaid(e) /\ ~RowRefunded(e) /\ ~RowOverdue(e) /\ ~RowApproved(e) /\ ~RowRejected(e)
        /\ ~RowAmended(e) /\ ~RowTrashed(e) /\ ~RowCancelled(e)
    BY <2>1 DEF RowPaid, RowRefunded, RowOverdue, RowApproved, RowRejected, RowAmended, RowTrashed,
       RowCancelled, BecomesOverdue, Awaiting
  <2>3. ~RowCreated(e)
    BY <1>1, RowCreation
  <2>4. entries[e] \in Row
    BY <1>1, RowChange
  <2>5. ~RowRestored(e)
    BY <1>1, <2>4 DEF RowRestored, Row
  <2>6. RowKept(e) \/ RowLate(e)
    BY <1>1, <2>2, <2>3, <2>5 DEF RowStep
  <2> QED
    BY <2>4, <2>6 DEF RowKept, RowLate, SamePayments, Row
<1>2. Inv /\ RequestsFindRows /\ [Next]_vars => [StaysFrozen]_vars
  BY <1>1, NextSeenFromRow DEF StaysFrozen
<1> QED
  BY <1>2, Invariant, PTL DEF Spec, DeletedIsFrozen, StaysFrozen

-----------------------------------------------------------------------------
(* Decisions and numbers: DecidedOnce is inductive once it also says that a    *)
(* row that does not exist has neither, and that no number means no series.    *)
Undecided(e) == entries[e].number = 0 /\ entries[e].series = NoSeries /\ approvals[e] = <<>>

NumberedByDecision(e) ==
  LET r == entries[e]
  IN  /\ r.status \in {"ABSENT", "DRAFT", "PENDING_APPROVAL"} => Undecided(e)
      /\ r.status \in {"PENDING", "PARTIAL", "OVERDUE", "PAID"} => r.number > 0
      /\ Len(approvals[e]) <= 1
      /\ \A i \in DOMAIN approvals[e] :
           IF approvals[e][i].action = "APPROVED" THEN r.number > 0
           ELSE r.number = 0 /\ r.status = "CANCELLED"

\* The first decision of an entry is its only one.
LEMMA FirstDecision ==
  ASSUME NEW u, NEW a
  PROVE  LET d == Append(<<>>, [by |-> u, action |-> a])
         IN  Len(d) = 1 /\ DOMAIN d = {1} /\ d[1].action = a
OBVIOUS

LEMMA DecisionStep ==
  ASSUME Inv, NEW e \in Entry, RowStep(e), NumberedByDecision(e)
  PROVE  NumberedByDecision(e)'
<1>1. entries[e] \in Row
  BY RowChange
<1>2. CASE RowApproved(e)
  <2>1. Undecided(e) /\ entries'[e].status = "PENDING" /\ entries'[e].number > 0
    BY <1>2, RowChange DEF RowApproved, Awaiting, NumberedByDecision
  <2>2. Len(approvals'[e]) = 1 /\ DOMAIN approvals'[e] = {1} /\ approvals'[e][1].action = "APPROVED"
    BY <1>2, <2>1, FirstDecision DEF RowApproved, Undecided
  <2> QED
    BY <2>1, <2>2 DEF NumberedByDecision, Undecided
<1>3. CASE RowRejected(e)
  <2>1. Undecided(e) /\ entries'[e].status = "CANCELLED" /\ entries'[e].number = 0
    BY <1>3, RowChange DEF RowRejected, Awaiting, NumberedByDecision, Undecided
  <2>2. Len(approvals'[e]) = 1 /\ DOMAIN approvals'[e] = {1} /\ approvals'[e][1].action = "REJECTED"
    BY <1>3, <2>1, FirstDecision DEF RowRejected, Undecided
  <2> QED
    BY <2>1, <2>2 DEF NumberedByDecision, Undecided
<1>4. CASE RowCreated(e)
  <2>1. Undecided(e) /\ approvals'[e] = <<>>
    BY <1>4 DEF RowCreated, SameApprovals, NumberedByDecision, Undecided
  <2> QED
    BY <1>4, <2>1, RowCreation DEF NumberedByDecision, Undecided
<1>5. CASE RowPaid(e) \/ RowRefunded(e) \/ RowOverdue(e)
  <2>1. /\ entries[e].status \in {"PENDING", "PARTIAL", "OVERDUE", "PAID"}
        /\ approvals'[e] = approvals[e]
    BY <1>5 DEF RowPaid, RowRefunded, RowOverdue, SameApprovals, Payable, BecomesOverdue
  <2>2. /\ entries'[e].number = entries[e].number
        /\ entries'[e].status \in {"PENDING", "PARTIAL", "OVERDUE", "PAID"}
    BY <1>5, RowChange, DetermineStatusType
  <2> QED
    BY <2>1, <2>2 DEF NumberedByDecision, Undecided
<1>6. CASE RowCancelled(e)
  <2>1. entries'[e].status = "CANCELLED" /\ entries'[e].number = entries[e].number /\ approvals'[e] = approvals[e]
    BY <1>6, RowChange DEF RowCancelled, SameApprovals
  <2> QED
    BY <2>1 DEF NumberedByDecision, Undecided
<1>7. CASE RowKept(e) \/ RowAmended(e) \/ RowTrashed(e) \/ RowRestored(e) \/ RowLate(e)
  <2>1. /\ entries'[e].status = entries[e].status /\ entries'[e].number = entries[e].number
        /\ entries'[e].series = entries[e].series
    BY <1>7, RowChange DEF RowKept
  <2>2. approvals'[e] = approvals[e]
    BY <1>7 DEF RowKept, RowAmended, RowTrashed, RowRestored, RowLate, SameApprovals
  <2> QED
    BY <2>1, <2>2 DEF NumberedByDecision, Undecided
<1> QED
  BY <1>2, <1>3, <1>4, <1>5, <1>6, <1>7 DEF RowStep

\* Requests, jobs and crashes included, NumberedByDecision holds of every entry.
THEOREM Decisions == Spec => [](\A e \in Entry : NumberedByDecision(e))
<1>1. Init => \A e \in Entry : NumberedByDecision(e)
  BY DEF Init, NoRow, NumberedByDecision, Undecided
<1>2. Inv /\ RequestsFindRows /\ (\A e \in Entry : NumberedByDecision(e)) /\ [Next]_vars
        => (\A e \in Entry : NumberedByDecision(e))'
  BY NextSeenFromRow, DecisionStep
<1> QED
  BY <1>1, <1>2, Invariant, PTL DEF Spec

\* However many approvers race, an entry is decided once; it has a document
\* number exactly when it needed no approval or got it.
THEOREM OneDecision == Spec => []DecidedOnce
<1>1. (\A e \in Entry : NumberedByDecision(e)) => DecidedOnce
  BY DEF NumberedByDecision, Undecided, DecidedOnce
<1> QED
  BY <1>1, Decisions, PTL

-----------------------------------------------------------------------------
(* Entries implements DocumentNumbers *)

(***************************************************************************)
(* Creations and approvals issue numbers, every other step leaves them     *)
(* alone.                                                                  *)
(***************************************************************************)
\* Steps that change neither a counter nor a number are stuttering steps of the contract.
KeepsNumbers ==
  /\ sequences' = sequences
  /\ \A e \in Entry : entries'[e].number = entries[e].number /\ entries'[e].series = entries[e].series

LEMMA StutteringStep ==
  ASSUME KeepsNumbers
  PROVE  UNCHANGED Numbers!vars
BY DEF KeepsNumbers, Numbers!vars

LEMMA WrittenKeepsNumbers ==
  ASSUME Inv, NEW w \in Worker, NEW f \in Entry, NEW r, Written(w, f, r),
         r.number = entries[f].number, r.series = entries[f].series
  PROVE  KeepsNumbers
BY DEF Written, Inv, TypeOK, KeepsNumbers

LEMMA EditKeepsNumbers ==
  ASSUME Inv, NEW w \in Worker,
         UpdateWrite(w) \/ SoftDeleteWrite(w) \/ RestoreWrite(w) \/ CancelWrite(w)
  PROVE  KeepsNumbers
<1> DEFINE f == req[w].entry
<1>1. f \in Entry /\ entries[f] \in Row
  BY RequestFields DEF UpdateWrite, SoftDeleteWrite, RestoreWrite, CancelWrite, Holds,
     Inv, TypeOK, EntryRequest
<1>2. CASE NotFound(w)
  BY <1>2 DEF NotFound, KeepsNumbers
<1>3. ASSUME NEW r, Written(w, f, r), r.number = entries[f].number, r.series = entries[f].series
      PROVE  KeepsNumbers
  BY <1>1, <1>3, WrittenKeepsNumbers
<1>4. ASSUME NEW amount, NEW late,
             Written(w, f, [entries[f] EXCEPT !.amount = amount, !.late = late])
      PROVE  KeepsNumbers
  <2> DEFINE r == [entries[f] EXCEPT !.amount = amount, !.late = late]
  <2>1. r.number = entries[f].number /\ r.series = entries[f].series
    BY <1>1 DEF Row
  <2>2. Written(w, f, r)
    BY <1>4
  <2> HIDE DEF r
  <2> QED
    BY <1>3, <2>1, <2>2
<1>5. ASSUME NEW b \in BOOLEAN, Written(w, f, [entries[f] EXCEPT !.deleted = b])
      PROVE  KeepsNumbers
  <2> DEFINE r == [entries[f] EXCEPT !.deleted = b]
  <2>1. r.number = entries[f].number /\ r.series = entries[f].series
    BY <1>1 DEF Row
  <2>2. Written(w, f, r)
    BY <1>5
  <2> HIDE DEF r
  <2> QED
    BY <1>3, <2>1, <2>2
<1>6. ASSUME Written(w, f, [entries[f] EXCEPT !.status = "CANCELLED"])
      PROVE  KeepsNumbers
  <2> DEFINE r == [entries[f] EXCEPT !.status = "CANCELLED"]
  <2>1. r.number = entries[f].number /\ r.series = entries[f].series
    BY <1>1 DEF Row
  <2>2. Written(w, f, r)
    BY <1>6
  <2> HIDE DEF r
  <2> QED
    BY <1>3, <2>1, <2>2
<1> QED
  BY <1>2, <1>4, <1>5, <1>6 DEF UpdateWrite, SoftDeleteWrite, RestoreWrite, CancelWrite

LEMMA PaymentKeepsNumbers ==
  ASSUME Inv, NEW f \in Entry,
         \/ \E p \in PaymentId, a \in Amount : RegisterPayment(f, p, a)
         \/ \E p \in payments : Refund(f, p)
  PROVE  KeepsNumbers
<1>1. sequences' = sequences /\ \E S : entries' = Settled(f, S)
  BY DEF RegisterPayment, Refund
<1>2. ASSUME NEW S, NEW e \in Entry
      PROVE  Settled(f, S)[e].number = entries[e].number /\ Settled(f, S)[e].series = entries[e].series
  BY DEF Settled, Inv, TypeOK, Row
<1> QED
  BY <1>1, <1>2 DEF KeepsNumbers

LEMMA SystemKeepsNumbers ==
  ASSUME Inv, MarkOverdue \/ \E f \in Entry : DueDatePasses(f)
  PROVE  KeepsNumbers
<1>1. CASE MarkOverdue
  BY <1>1 DEF MarkOverdue, Inv, TypeOK, Row, KeepsNumbers
<1>2. CASE \E f \in Entry : DueDatePasses(f)
  BY <1>2 DEF DueDatePasses, Inv, TypeOK, Row, KeepsNumbers
<1> QED
  BY <1>1, <1>2

LEMMA RejectKeepsNumbers ==
  ASSUME Inv, NEW w \in Worker, RejectCommit(w)
  PROVE  KeepsNumbers
BY DEF RejectCommit, Inv, TypeOK, Row, KeepsNumbers

-----------------------------------------------------------------------------
\* A batch numbered by a bijection is a batch the contract allows.
LEMMA SameBijections ==
  ASSUME NEW S, NEW T
  PROVE  Numbers!Bijection(S, T) = Bijection(S, T)
BY DEF Numbers!Bijection, Numbers!Injection, Numbers!Surjection, Numbers!IsInjective,
   Bijection, Injection, Surjection, IsInjective

LEMMA IssueIsNext ==
  ASSUME NEW s \in Series, NEW S \in SUBSET Entry, NEW count \in 1 .. MaxInstallments,
         NEW place \in Bijection(S, 1 .. count), Numbers!Issue(s, S, count, place)
  PROVE  Numbers!Next
<1>1. place \in Numbers!Bijection(S, 1 .. count)
  BY SameBijections
<1> QED
  BY <1>1 DEF Numbers!Next

\* An approval issues one number.
LEMMA ApproveIssues ==
  ASSUME Inv, \A e \in Entry : NumberedByDecision(e),
         NEW w \in Worker, NEW s \in Series, ApproveCommit(w, s)
  PROVE  Numbers!Next
<1>1. PICK f \in Entry : f = req[w].entry
  BY RequestFields DEF ApproveCommit, Holds, Inv, EntryRequest
<1> DEFINE place == [e \in {f} |-> 1]
<1>2. place \in Bijection({f}, 1 .. 1)
  <2>1. 1 .. 1 = {1}
    OBVIOUS
  <2>2. place \in [{f} -> {1}]
    OBVIOUS
  <2> QED
    BY <2>1, <2>2 DEF Bijection, Injection, Surjection, IsInjective
<1>3. entries[f].number = 0
  <2>1. entries[f].status = "PENDING_APPROVAL"
    BY <1>1 DEF ApproveCommit, Awaiting
  <2> QED
    BY <2>1 DEF NumberedByDecision, Undecided
<1>4. sequences' = [sequences EXCEPT ![s] = @ + 1]
  BY DEF ApproveCommit
<1>5. ASSUME NEW e \in Entry
      PROVE  /\ entries'[e].series = IF e = f THEN s ELSE entries[e].series
             /\ entries'[e].number = IF e = f THEN sequences[s] + 1 ELSE entries[e].number
  BY <1>1 DEF ApproveCommit, Inv, TypeOK, Row
<1>6. Numbers!Issue(s, {f}, 1, place)
  BY <1>2, <1>3, <1>4, <1>5, SameBijections DEF Numbers!Issue
<1>7. 1 \in 1 .. MaxInstallments /\ {f} \in SUBSET Entry
  BY BoundAssumption
<1> HIDE DEF place
<1> QED
  BY <1>2, <1>6, <1>7, IssueIsNext

\* The numbers of a new row.
LEMMA CreatedNumbers ==
  ASSUME NEW total, NEW count, NEW i, NEW status, NEW s, NEW d
  PROVE  LET r == CreatedRow(total, count, i, status, s, d)
         IN  /\ r.series = IF status = "PENDING" THEN s ELSE NoSeries
             /\ r.number = IF status = "PENDING" THEN sequences[s] + i ELSE 0
BY DEF CreatedRow, NoRow

\* A creation issues a number for every installment, or none at all.
LEMMA CreateIssues ==
  ASSUME Inv, \A e \in Entry : NumberedByDecision(e), NEW w \in Worker, Create(w)
  PROVE  Numbers!Next \/ KeepsNumbers
<1>1. PICK total \in Amount, submit \in BOOLEAN, count \in 1 .. MaxInstallments,
           S \in SUBSET Entry, s \in Series :
        \E place \in Bijection(S, 1 .. count) : CreateCommit(w, total, submit, count, place, s)
  BY DEF Create
<1>2. PICK place \in Bijection(S, 1 .. count) : CreateCommit(w, total, submit, count, place, s)
  BY <1>1
<1>3. place \in [S -> 1 .. count] /\ DOMAIN place = S /\ count \in Nat \ {0}
  BY BoundAssumption DEF Bijection, Injection
<1> DEFINE status == InitialStatus(submit, total)
<1>4. \A e \in S : entries[e].status = "ABSENT" /\ entries[e].number = 0 /\ entries[e].series = NoSeries
  BY <1>2, <1>3 DEF CreateCommit, NumberedByDecision, Undecided
<1>5. ASSUME NEW e \in Entry
      PROVE  entries'[e] = IF e \in S THEN CreatedRow(total, count, place[e], status, s, req[w].issued)
                           ELSE entries[e]
  BY <1>2, <1>3 DEF CreateCommit
<1>6. CASE status = "PENDING"
  <2>1. sequences' = [sequences EXCEPT ![s] = @ + count]
    BY <1>2, <1>6 DEF CreateCommit
  <2>2. ASSUME NEW e \in Entry
        PROVE  /\ entries'[e].series = IF e \in S THEN s ELSE entries[e].series
               /\ entries'[e].number = IF e \in S THEN sequences[s] + place[e] ELSE entries[e].number
    BY <1>5, <1>6, CreatedNumbers
  <2>3. Numbers!Issue(s, S, count, place)
    BY <1>4, <2>1, <2>2, SameBijections DEF Numbers!Issue
  <2> QED
    BY <1>3, <2>3, IssueIsNext
<1>7. CASE status # "PENDING"
  <2>1. sequences' = sequences
    BY <1>2, <1>7 DEF CreateCommit
  <2>2. ASSUME NEW e \in Entry
        PROVE  entries'[e].number = entries[e].number /\ entries'[e].series = entries[e].series
    BY <1>4, <1>5, <1>7, CreatedNumbers
  <2> QED
    BY <2>1, <2>2 DEF KeepsNumbers
<1> QED
  BY <1>6, <1>7

\* Every step issues numbers as the contract allows, or leaves them alone.
LEMMA NextRefines ==
  ASSUME Inv, \A e \in Entry : NumberedByDecision(e), [Next]_vars
  PROVE  [Numbers!Next]_(Numbers!vars)
<1>1. CASE KeepsNumbers
  BY <1>1, StutteringStep
<1>2. CASE UNCHANGED <<entries, sequences>>
  BY <1>1, <1>2 DEF KeepsNumbers
<1>3. ASSUME NEW w \in Worker, Request(w) PROVE Numbers!Next \/ KeepsNumbers
  BY <1>3, ApproveIssues, CreateIssues, EditKeepsNumbers, RejectKeepsNumbers
     DEF Request, CreateCheck, EditCheck, DecisionCheck, AuditCommit, DecisionConflict, Abandon,
         KeepsNumbers
<1>4. CASE Next
  BY <1>1, <1>2, <1>3, <1>4, PaymentKeepsNumbers, SystemKeepsNumbers
     DEF Next, ClosePeriod, ReopenPeriod, RefundDeadlinePasses
<1> QED
  BY <1>2, <1>4 DEF vars

\* Entries implements the numbering contract, for every number of entries,
\* series and installments and however requests race.
THEOREM EntriesImplementNumbers == Spec => NumbersIssued
<1>1. Init => Numbers!Init
  BY DEF Init, NoRow, Numbers!Init
<1>2. Inv /\ (\A e \in Entry : NumberedByDecision(e)) /\ [Next]_vars => [Numbers!Next]_(Numbers!vars)
  BY NextRefines
<1> QED
  BY <1>1, <1>2, Invariant, Decisions, PTL DEF Spec, Numbers!Spec, NumbersIssued

-----------------------------------------------------------------------------
Proven == INSTANCE DocumentNumbersProofs WITH
            MaxBatch <- MaxInstallments,
            last     <- sequences,
            series   <- [e \in Entry |-> entries[e].series],
            number   <- [e \in Entry |-> entries[e].number]

\* What the contract promises, the entries keep: every series is numbered
\* 1 .. last_sequence without a gap or a duplicate.
THEOREM EntriesNumberedInSequence == Spec => []SequentialNumbers
<1>1. Proven!Spec => []Proven!Sequential
  BY Proven!NumbersSequential
<1>2. Numbers!Spec => Proven!Spec
  <2>1. Numbers!Init => Proven!Init
    BY DEF Numbers!Init, Proven!Init
  <2>2. [Numbers!Next]_(Numbers!vars) => [Proven!Next]_(Proven!vars)
    <3>1. ASSUME NEW S, NEW T PROVE Numbers!Bijection(S, T) = Proven!Bijection(S, T)
      BY DEF Numbers!Bijection, Numbers!Injection, Numbers!Surjection, Numbers!IsInjective,
         Proven!Bijection, Proven!Injection, Proven!Surjection, Proven!IsInjective
    <3>2. ASSUME NEW s, NEW S, NEW count, NEW place, Numbers!Issue(s, S, count, place)
          PROVE  Proven!Issue(s, S, count, place)
      BY <3>1, <3>2 DEF Numbers!Issue, Proven!Issue
    <3>3. Numbers!Next => Proven!Next
      BY <3>1, <3>2 DEF Numbers!Next, Proven!Next
    <3> QED
      BY <3>3 DEF Numbers!vars, Proven!vars
  <2> QED
    BY <2>1, <2>2, PTL DEF Numbers!Spec, Proven!Spec
<1>3. Proven!Sequential <=> SequentialNumbers
  BY DEF Proven!Sequential, SequentialNumbers, Numbers!Sequential
<1>4. Spec => Numbers!Spec
  BY EntriesImplementNumbers DEF NumbersIssued
<1>5. []Proven!Sequential => []SequentialNumbers
  BY <1>3, PTL
<1> QED
  BY <1>1, <1>2, <1>4, <1>5, PTL
==============================================================================
