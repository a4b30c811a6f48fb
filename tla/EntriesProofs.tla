---------------------------- MODULE EntriesProofs ----------------------------
(***************************************************************************)
(* The inductive invariant of Entries, for every number of entries,        *)
(* payments, users and requests in flight, and what one step of the system *)
(* can do to one entry: Next seen from a row.                              *)
(***************************************************************************)
EXTENDS Entries, MoneyTheorems

\* What the rows and the requests are made of, as facts for the provers.
LEMMA RowFields ==
  ASSUME NEW r \in Row
  PROVE  /\ r.status \in Status \cup {"ABSENT"} /\ r.amount \in Nat /\ r.paid \in Nat
         /\ r.series \in Series \cup {NoSeries} /\ r.number \in Nat
         /\ r.issued \in Date \cup {0} /\ r.late \in BOOLEAN /\ r.deleted \in BOOLEAN
BY DEF Row

\* A request with the op of an edit or a decision is an EntryRequest.
LEMMA RequestFields ==
  ASSUME TypeOK, NEW w \in Worker
  PROVE  /\ req[w] # Idle /\ req[w].op # "CREATE" => req[w] \in EntryRequest
         /\ req[w].op = "CREATE" => req[w] \in CreateRequest
         /\ req[w].op \notin {"CREATE", "IDLE"} => req[w] \in EntryRequest
BY DEF TypeOK, EntryRequest, CreateRequest, Idle

\* Finishing a request leaves every request well typed.
LEMMA FinishType ==
  ASSUME TypeOK, NEW w \in Worker, Finish(w)
  PROVE  req' \in [Worker -> EntryRequest \cup CreateRequest \cup {Idle}]
BY DEF TypeOK, Finish

\* What DetermineStatus computes is a status.
LEMMA DetermineStatusType ==
  \A amount, paid : DetermineStatus(amount, paid) \in {"PAID", "PARTIAL", "PENDING"}
BY DEF DetermineStatus

\* The shares of an amount are amounts.
LEMMA InstallmentType ==
  ASSUME NEW total \in Nat, NEW count \in Nat, NEW i \in 1 .. count
  PROVE  Installment(total, count, i) \in Nat
<1> DEFINE base == total \div count
<1>1. base \in Nat /\ base * count <= total
  OBVIOUS
<1>2. base * (count - 1) <= total /\ base * (count - 1) \in Nat
  BY <1>1
<1> QED
  BY <1>1, <1>2 DEF Installment

-----------------------------------------------------------------------------
(* Type correctness.  paid_amount is a sum over payments, which is a number    *)
(* because finitely many payments exist; and payments belong to rows that      *)
(* exist, so a new row has none.                                               *)

PaymentsBelong == \A p \in payments : entries[p.entry].status # "ABSENT"

Inv == TypeOK /\ IsFiniteSet(payments) /\ PaymentsBelong

\* Sums over some of the payments are amounts.
LEMMA PaidType ==
  ASSUME Inv
  PROVE  /\ \A e : PaidSum(e) \in Nat
         /\ \A e, q : SumAmount(PaymentsOf(e) \ {q}) \in Nat
         /\ \A e : IsFiniteSet(PaymentsOf(e)) /\ (\A p \in PaymentsOf(e) : p.amount \in Nat)
<1>1. \A p \in payments : p.amount \in Nat
  BY DEF Inv, TypeOK, Payment
<1>2. ASSUME NEW S, S \subseteq payments PROVE SumAmount(S) \in Nat /\ IsFiniteSet(S)
  BY <1>1, <1>2, FS_Subset, SumAmountType DEF Inv
<1> QED
  BY <1>1, <1>2 DEF PaidSum, PaymentsOf

\* Settling an entry writes a well typed row, and only that row.
LEMMA SettledType ==
  ASSUME TypeOK, NEW e \in Entry, NEW S, SumAmount(S) \in Nat
  PROVE  /\ Settled(e, S) \in [Entry -> Row]
         /\ \A f \in Entry : f # e => Settled(e, S)[f] = entries[f]
         /\ Settled(e, S)[e].paid = SumAmount(S)
         /\ Settled(e, S)[e].amount = entries[e].amount
         /\ Settled(e, S)[e].status \in {"PAID", "PARTIAL", "PENDING"}
<1> DEFINE status == DetermineStatus(entries[e].amount, SumAmount(S))
           row == [entries[e] EXCEPT !.status = status, !.paid = SumAmount(S)]
<1>1. status \in {"PAID", "PARTIAL", "PENDING"}
  BY DetermineStatusType
<1>2. entries \in [Entry -> Row] /\ Settled(e, S) = [entries EXCEPT ![e] = row]
  BY DEF Settled, TypeOK
<1> HIDE DEF status
<1>3. row \in Row /\ row.paid = SumAmount(S) /\ row.amount = entries[e].amount /\ row.status = status
  BY <1>1, <1>2 DEF Row, Status
<1> QED
  BY <1>1, <1>2, <1>3

\* A row written by a creation is well typed.
LEMMA CreatedRowType ==
  ASSUME TypeOK, NEW total \in Nat, NEW count \in Nat, NEW i \in 1 .. count,
         NEW status \in Status, NEW s \in Series, NEW d \in Date
  PROVE  /\ CreatedRow(total, count, i, status, s, d) \in Row
         /\ CreatedRow(total, count, i, status, s, d).status = status
         /\ CreatedRow(total, count, i, status, s, d).paid = 0
<1>1. Installment(total, count, i) \in Nat
  BY InstallmentType
<1>2. sequences[s] + i \in Nat
  BY DEF TypeOK
<1> QED
  BY <1>1, <1>2 DEF CreatedRow, NoRow, Row

\* No row is ever removed, so payments keep belonging to one.
LEMMA RowsStay ==
  ASSUME Inv, payments' \subseteq payments,
         \A f \in Entry : entries'[f].status = "ABSENT" => entries[f].status = "ABSENT"
  PROVE  PaymentsBelong'
BY DEF Inv, TypeOK, PaymentsBelong, Payment

\* Edits, deletions, cancellations: one row is replaced by a row of an existing entry.
LEMMA WrittenInv ==
  ASSUME Inv, NEW w \in Worker, NEW e \in Entry, NEW r \in Row, r.status # "ABSENT",
         req[w] \in EntryRequest, Written(w, e, r)
  PROVE  Inv'
<1>1. entries' \in [Entry -> Row] /\ PaymentsBelong'
  BY DEF Written, Inv, TypeOK, PaymentsBelong, Payment
<1>2. req' \in [Worker -> EntryRequest \cup CreateRequest \cup {Idle}]
  BY DEF Written, Inv, TypeOK, EntryRequest
<1> QED
  BY <1>1, <1>2 DEF Written, Inv, TypeOK

\* A statement that finds no row changes the request only.
LEMMA NotFoundInv ==
  ASSUME Inv, NEW w \in Worker, req[w] \in EntryRequest, NotFound(w)
  PROVE  Inv'
<1>1. req' \in [Worker -> EntryRequest \cup CreateRequest \cup {Idle}]
  <2>1. CASE Finish(w)
    BY <2>1, FinishType DEF Inv
  <2>2. CASE req' = [req EXCEPT ![w].stage = "written"]
    BY <2>2 DEF Inv, TypeOK, EntryRequest
  <2> QED
    BY <2>1, <2>2 DEF NotFound
<1> QED
  BY <1>1 DEF NotFound, Inv, TypeOK, PaymentsBelong

\* The checks that open a request write nothing else.
LEMMA CheckInv ==
  ASSUME Inv, NEW w \in Worker, NEW u \in User,
         \/ \E d \in Date : CreateCheck(w, u, d)
         \/ \E e \in Entry, op \in {"UPDATE", "DELETE", "RESTORE", "CANCEL"} : EditCheck(w, op, e, u)
         \/ \E e \in Entry, op \in {"APPROVE", "REJECT"} : DecisionCheck(w, op, e, u)
  PROVE  Inv'
<1>1. /\ UNCHANGED <<entries, payments, expired, sequences, approvals, locks, audit, outbox>>
      /\ \E r \in EntryRequest \cup CreateRequest : Begin(w, r)
  BY DEF CreateCheck, EditCheck, DecisionCheck, EntryRequest, CreateRequest
<1>2. req' \in [Worker -> EntryRequest \cup CreateRequest \cup {Idle}]
  BY <1>1 DEF Begin, Inv, TypeOK
<1> QED
  BY <1>1, <1>2 DEF Inv, TypeOK, PaymentsBelong

\* A batch of installments: rows that did not exist, without payments.
LEMMA CreateInv ==
  ASSUME Inv, NEW w \in Worker, Create(w)
  PROVE  Inv'
<1>1. PICK total \in Amount, submit \in BOOLEAN, count \in 1 .. MaxInstallments,
           S \in SUBSET Entry, s \in Series :
        \E place \in Bijection(S, 1 .. count) : CreateCommit(w, total, submit, count, place, s)
  BY DEF Create
<1>2. PICK place \in Bijection(S, 1 .. count) : CreateCommit(w, total, submit, count, place, s)
  BY <1>1
<1>3. /\ place \in [S -> 1 .. count]
      /\ DOMAIN place = S
      /\ \E e \in S : place[e] = 1
  BY DEF Bijection, Injection, Surjection
<1> DEFINE status == InitialStatus(submit, total)
           first == CHOOSE e \in DOMAIN place : place[e] = 1
<1>4. /\ total \in Nat /\ count \in Nat /\ status \in Status /\ first \in Entry
      /\ req[w].op = "CREATE" /\ req[w].issued \in Date /\ req[w].user \in User
  BY <1>2, <1>3, AmountAssumption, BoundAssumption, RequestFields
     DEF InitialStatus, NeedsApproval, Status, CreateCommit, Inv, CreateRequest
<1>5. /\ \A e \in S : entries[e].status = "ABSENT"
      /\ entries' = [e \in Entry |-> IF e \in S
                        THEN CreatedRow(total, count, place[e], status, s, req[w].issued)
                        ELSE entries[e]]
      /\ sequences' \in [Series -> Nat]
      /\ audit' = audit \cup {[entry |-> first, action |-> "CREATE", user |-> req[w].user]}
      /\ outbox' \subseteq outbox \cup {EventOf("entry.pending_approval", first)}
      /\ Finish(w)
      /\ UNCHANGED <<payments, expired, approvals, locks>>
  BY <1>2, <1>3, <1>4 DEF CreateCommit, Inv, TypeOK
<1>6. entries' \in [Entry -> Row] /\ PaymentsBelong'
  <2>1. \A e \in S : /\ CreatedRow(total, count, place[e], status, s, req[w].issued) \in Row
                     /\ CreatedRow(total, count, place[e], status, s, req[w].issued).status = status
    BY <1>3, <1>4, CreatedRowType DEF Inv
  <2>2. status # "ABSENT"
    BY DEF InitialStatus, NeedsApproval
  <2> HIDE DEF status, first
  <2> QED
    BY <1>5, <2>1, <2>2 DEF Inv, TypeOK, PaymentsBelong, Payment
<1> HIDE DEF status, first
<1>7. audit' \subseteq AuditRow
  BY <1>4, <1>5 DEF Inv, TypeOK, AuditRow
<1>8. outbox' \subseteq Event
  BY <1>4, <1>5 DEF Inv, TypeOK, Event, EventOf
<1> QED
  BY <1>5, <1>6, <1>7, <1>8, FinishType DEF Inv, TypeOK

\* The edits.  A request is about an entry whose row exists or has been deleted
\* meanwhile; RESTORE alone writes it without looking, so its row must exist:
\* rows are never removed.
RequestsFindRows ==
  \A w \in Worker : req[w].op \notin {"CREATE", "IDLE"} => entries[req[w].entry].status # "ABSENT"

LEMMA EditInv ==
  ASSUME Inv, RequestsFindRows, NEW w \in Worker,
         UpdateWrite(w) \/ SoftDeleteWrite(w) \/ RestoreWrite(w) \/ CancelWrite(w)
  PROVE  Inv'
<1> DEFINE e == req[w].entry
<1>1. /\ req[w] \in EntryRequest /\ e \in Entry /\ entries[e] \in Row
      /\ entries[e].status # "ABSENT"
  BY RequestFields DEF UpdateWrite, SoftDeleteWrite, RestoreWrite, CancelWrite, Holds,
     Inv, TypeOK, EntryRequest, RequestsFindRows
<1> HIDE DEF e
<1>2. CASE NotFound(w)
  BY <1>1, <1>2, NotFoundInv
<1>3. ASSUME NEW r \in Row, r.status # "ABSENT", Written(w, e, r) PROVE Inv'
  BY <1>1, <1>3, WrittenInv
<1>4. CASE UpdateWrite(w)
  <2>1. ASSUME NEW amount \in AmendedAmount \cup {entries[e].amount}, NEW late \in BOOLEAN
        PROVE  LET r == [entries[e] EXCEPT !.amount = amount, !.late = late]
               IN  r \in Row /\ r.status # "ABSENT"
    BY <1>1, AmountAssumption DEF Row
  <2> QED
    BY <1>2, <1>3, <1>4, <2>1 DEF UpdateWrite, e
<1>5. CASE SoftDeleteWrite(w)
  <2>1. LET r == [entries[e] EXCEPT !.deleted = TRUE] IN r \in Row /\ r.status # "ABSENT"
    BY <1>1 DEF Row
  <2> QED
    BY <1>2, <1>3, <1>5, <2>1 DEF SoftDeleteWrite, e
<1>6. CASE RestoreWrite(w)
  <2>1. LET r == [entries[e] EXCEPT !.deleted = FALSE] IN r \in Row /\ r.status # "ABSENT"
    BY <1>1 DEF Row
  <2> QED
    BY <1>3, <1>6, <2>1 DEF RestoreWrite, e
<1>7. CASE CancelWrite(w)
  <2>1. LET r == [entries[e] EXCEPT !.status = "CANCELLED"] IN r \in Row /\ r.status # "ABSENT"
    BY <1>1 DEF Row, Status
  <2> QED
    BY <1>2, <1>3, <1>7, <2>1 DEF CancelWrite, e
<1> QED
  BY <1>4, <1>5, <1>6, <1>7

\* The audit row, a decision that lost its race, a request that stops.
LEMMA EndInv ==
  ASSUME Inv, NEW w \in Worker, AuditCommit(w) \/ DecisionConflict(w) \/ Abandon(w)
  PROVE  Inv'
<1>1. CASE AuditCommit(w)
  <2>1. req[w] \in EntryRequest
    BY <1>1, RequestFields DEF AuditCommit, Inv
  <2>2. audit' \subseteq AuditRow
    BY <1>1, <2>1 DEF AuditCommit, Inv, TypeOK, AuditRow, EntryRequest
  <2> QED
    BY <1>1, <2>2, FinishType DEF AuditCommit, Inv, TypeOK, PaymentsBelong
<1>2. CASE DecisionConflict(w) \/ Abandon(w)
  BY <1>2, FinishType DEF DecisionConflict, Abandon, Inv, TypeOK, PaymentsBelong
<1> QED
  BY <1>1, <1>2

\* Approval and rejection.
LEMMA DecisionInv ==
  ASSUME Inv, NEW w \in Worker, (\E s \in Series : ApproveCommit(w, s)) \/ RejectCommit(w)
  PROVE  Inv'
<1> DEFINE e == req[w].entry
<1>1. /\ req[w] \in EntryRequest /\ e \in Entry /\ req[w].user \in User
      /\ entries[e] \in Row /\ approvals[e] \in Seq(Approval)
  BY RequestFields DEF ApproveCommit, RejectCommit, Holds, Inv, TypeOK, EntryRequest
<1> HIDE DEF e
<1>2. ASSUME NEW a \in {"APPROVED", "REJECTED"}
      PROVE  Append(approvals[e], [by |-> req[w].user, action |-> a]) \in Seq(Approval)
  BY <1>1 DEF Approval
<1>3. CASE \E s \in Series : ApproveCommit(w, s)
  <2>1. PICK s \in Series : ApproveCommit(w, s)
    BY <1>3
  <2>9. sequences' = [sequences EXCEPT ![s] = @ + 1]
    BY <2>1 DEF ApproveCommit
  <2>2. sequences[s] + 1 \in Nat /\ sequences' \in [Series -> Nat]
    BY <2>9 DEF Inv, TypeOK
  <2> DEFINE r == [entries[e] EXCEPT !.status = "PENDING", !.series = s,
                                     !.number = sequences[s] + 1]
  <2>5. r \in Row /\ r.status # "ABSENT"
    BY <1>1, <2>2 DEF Row, Status
  <2>6. entries' = [entries EXCEPT ![e] = r]
    BY <1>1, <2>1 DEF ApproveCommit, e, Inv, TypeOK, Row
  <2>7. outbox' = outbox \cup {EventOf("entry.approved", e)} /\ UNCHANGED payments
    BY <2>1 DEF ApproveCommit, e
  <2> HIDE DEF r
  <2>8. entries' \in [Entry -> Row] /\ PaymentsBelong'
    BY <1>1, <2>5, <2>6, <2>7 DEF Inv, TypeOK, PaymentsBelong, Payment
  <2>3. approvals' \in [Entry -> Seq(Approval)]
    BY <1>1, <1>2, <2>1 DEF ApproveCommit, e, Inv, TypeOK
  <2>4. outbox' \subseteq Event
    BY <1>1, <2>7 DEF EventOf, Event, Inv, TypeOK
  <2> QED
    BY <2>1, <2>2, <2>3, <2>4, <2>8, FinishType DEF ApproveCommit, Inv, TypeOK
<1>4. CASE RejectCommit(w)
  <2>2. entries' \in [Entry -> Row] /\ PaymentsBelong'
    BY <1>1, <1>4 DEF RejectCommit, e, Inv, TypeOK, Row, Status, PaymentsBelong, Payment
  <2>3. approvals' \in [Entry -> Seq(Approval)]
    BY <1>1, <1>2, <1>4 DEF RejectCommit, e, Inv, TypeOK
  <2>4. outbox' \subseteq Event
    BY <1>1, <1>4 DEF RejectCommit, e, EventOf, Event, Inv, TypeOK
  <2> QED
    BY <1>4, <2>2, <2>3, <2>4, FinishType DEF RejectCommit, Inv, TypeOK
<1> QED
  BY <1>3, <1>4

\* Payments and refunds: what is paid is recomputed from the payments.
LEMMA PaymentInv ==
  ASSUME Inv, NEW e \in Entry,
         \/ \E p \in PaymentId, a \in Amount : RegisterPayment(e, p, a)
         \/ \E p \in payments : Refund(e, p)
  PROVE  Inv'
<1>1. ASSUME NEW p \in PaymentId, NEW a \in Amount, RegisterPayment(e, p, a) PROVE Inv'
  <2> DEFINE new == [id |-> p, entry |-> e, amount |-> a]
  <2>1. new \in Payment /\ new.amount \in Nat /\ new \notin PaymentsOf(e) /\ new.entry = e
    BY <1>1, AmountAssumption DEF Payment, RegisterPayment, PaymentIds, PaymentsOf
  <2>2. /\ payments' = payments \cup {new}
        /\ entries' = Settled(e, PaymentsOf(e) \cup {new})
        /\ outbox' = outbox \cup {[name |-> "payment.created", entry |-> e, payment |-> p]}
        /\ UNCHANGED <<expired, sequences, approvals, locks, audit, req>>
    BY <1>1 DEF RegisterPayment
  <2> HIDE DEF new
  <2>3. SumAmount(PaymentsOf(e) \cup {new}) \in Nat
    BY <2>1, PaidType, SumAmountAdd DEF PaidSum
  <2>7. /\ entries' \in [Entry -> Row]
        /\ \A f \in Entry : f # e => entries'[f] = entries[f]
        /\ entries'[e].status # "ABSENT"
    BY <2>2, <2>3, SettledType DEF Inv
  <2>4. PaymentsBelong'
    BY <2>1, <2>2, <2>7 DEF Inv, TypeOK, PaymentsBelong, Payment
  <2>5. IsFiniteSet(payments') /\ payments' \subseteq Payment
    BY <2>1, <2>2, FS_AddElement DEF Inv, TypeOK
  <2>6. outbox' \subseteq Event
    BY <2>2 DEF Inv, TypeOK, Event
  <2> QED
    BY <2>2, <2>4, <2>5, <2>6, <2>7 DEF Inv, TypeOK
<1>2. ASSUME NEW p \in payments, Refund(e, p) PROVE Inv'
  <2>1. /\ payments' = payments \ {p}
        /\ entries' = Settled(e, PaymentsOf(e) \ {p})
        /\ UNCHANGED <<expired, sequences, approvals, locks, audit, outbox, req>>
    BY <1>2 DEF Refund
  <2>4. SumAmount(PaymentsOf(e) \ {p}) \in Nat
    BY PaidType
  <2>5. /\ entries' \in [Entry -> Row]
        /\ \A f \in Entry : f # e => entries'[f] = entries[f]
        /\ entries'[e].status # "ABSENT"
    BY <2>1, <2>4, SettledType DEF Inv
  <2>2. entries' \in [Entry -> Row] /\ PaymentsBelong'
    BY <2>1, <2>5, RowsStay
  <2>3. IsFiniteSet(payments') /\ payments' \subseteq Payment
    BY <2>1, FS_RemoveElement DEF Inv, TypeOK
  <2> QED
    BY <2>1, <2>2, <2>3 DEF Inv, TypeOK
<1> QED
  BY <1>1, <1>2

\* The job, the lock periods and the calendar.
LEMMA SystemInv ==
  ASSUME Inv,
         \/ MarkOverdue
         \/ \E d \in Date : ClosePeriod(d) \/ ReopenPeriod(d)
         \/ \E e \in Entry : DueDatePasses(e)
         \/ \E p \in payments : RefundDeadlinePasses(p)
  PROVE  Inv'
<1>1. CASE MarkOverdue
  <2>1. \A e \in Entry : /\ [entries[e] EXCEPT !.status = "OVERDUE"] \in Row
                        /\ [entries[e] EXCEPT !.status = "OVERDUE"].status = "OVERDUE"
    BY DEF Inv, TypeOK, Row, Status
  <2>2. entries' \in [Entry -> Row] /\ PaymentsBelong'
    BY <1>1, <2>1, RowsStay DEF MarkOverdue, Inv, TypeOK
  <2> QED
    BY <1>1, <2>2 DEF MarkOverdue, Inv, TypeOK
<1>2. CASE \E d \in Date : ClosePeriod(d) \/ ReopenPeriod(d)
  BY <1>2 DEF ClosePeriod, ReopenPeriod, Inv, TypeOK, PaymentsBelong
<1>3. CASE \E e \in Entry : DueDatePasses(e)
  <2>1. PICK e \in Entry : DueDatePasses(e)
    BY <1>3
  <2>2. /\ [entries[e] EXCEPT !.late = TRUE] \in Row
        /\ [entries[e] EXCEPT !.late = TRUE].status = entries[e].status
    BY DEF Inv, TypeOK, Row
  <2>3. entries' \in [Entry -> Row] /\ PaymentsBelong'
    BY <2>1, <2>2, RowsStay DEF DueDatePasses, Inv, TypeOK
  <2> QED
    BY <2>1, <2>3 DEF DueDatePasses, Inv, TypeOK
<1>4. CASE \E p \in payments : RefundDeadlinePasses(p)
  BY <1>4 DEF RefundDeadlinePasses, Inv, TypeOK, PaymentsBelong, Payment
<1> QED
  BY <1>1, <1>2, <1>3, <1>4

\* No step removes a row.
LEMMA RowsPersist ==
  ASSUME Inv, Next, NEW e \in Entry, entries[e].status # "ABSENT"
  PROVE  entries'[e].status # "ABSENT"
<1>1. entries[e] \in Row
  BY DEF Inv, TypeOK
<1>2. ASSUME NEW f \in Entry, NEW S, entries' = Settled(f, S)
      PROVE  entries'[e].status # "ABSENT"
  BY <1>1, <1>2, DetermineStatusType DEF Settled, Inv, TypeOK, Row
<1>3. ASSUME NEW f, NEW r, r.status # "ABSENT", entries' = [entries EXCEPT ![f] = r]
      PROVE  entries'[e].status # "ABSENT"
  BY <1>1, <1>3 DEF Inv, TypeOK
<1>4. ASSUME NEW w \in Worker, Request(w) PROVE entries'[e].status # "ABSENT"
  <2>1. CASE UNCHANGED entries
    BY <2>1
  <2>2. CASE Create(w)
    BY <2>2 DEF Create, CreateCommit, Inv, TypeOK
  <2>3. ASSUME NEW f, NEW r, r.status \in {entries[f].status, "CANCELLED"}, Written(w, f, r)
        PROVE  entries'[e].status # "ABSENT"
    BY <1>1, <2>3 DEF Written, Inv, TypeOK
  <2>4. CASE RestoreWrite(w)
    <3> DEFINE f == req[w].entry
               r == [entries[f] EXCEPT !.deleted = FALSE]
    <3>1. f \in Entry /\ entries[f] \in Row
      BY <2>4, RequestFields DEF RestoreWrite, Holds, Inv, TypeOK, EntryRequest
    <3>2. r.status = entries[f].status
      BY <3>1 DEF Row
    <3>3. Written(w, f, r)
      BY <2>4 DEF RestoreWrite
    <3> HIDE DEF f, r
    <3> QED
      BY <2>3, <3>2, <3>3
  <2>5. CASE UpdateWrite(w)
    <3> DEFINE f == req[w].entry
    <3>1. f \in Entry /\ entries[f] \in Row
      BY <2>5, RequestFields DEF UpdateWrite, Holds, Inv, TypeOK, EntryRequest
    <3>2. ASSUME NEW amount, NEW late,
                 Written(w, f, [entries[f] EXCEPT !.amount = amount, !.late = late])
          PROVE  entries'[e].status # "ABSENT"
      <4> DEFINE r == [entries[f] EXCEPT !.amount = amount, !.late = late]
      <4>1. r.status = entries[f].status
        BY <3>1 DEF Row
      <4>2. Written(w, f, r)
        BY <3>2
      <4> HIDE DEF f, r
      <4> QED
        BY <2>3, <4>1, <4>2
    <3> QED
      BY <2>1, <2>5, <3>2 DEF UpdateWrite, NotFound
  <2>6. CASE SoftDeleteWrite(w)
    <3> DEFINE f == req[w].entry
    <3>1. f \in Entry /\ entries[f] \in Row
      BY <2>6, RequestFields DEF SoftDeleteWrite, Holds, Inv, TypeOK, EntryRequest
    <3> DEFINE r == [entries[f] EXCEPT !.deleted = TRUE]
    <3>2. r.status = entries[f].status
      BY <3>1 DEF Row
    <3>3. Written(w, f, r) \/ NotFound(w)
      BY <2>6 DEF SoftDeleteWrite
    <3> HIDE DEF f, r
    <3> QED
      BY <2>1, <2>3, <3>2, <3>3 DEF NotFound
  <2>7. CASE CancelWrite(w)
    <3> DEFINE f == req[w].entry
    <3>1. f \in Entry /\ entries[f] \in Row
      BY <2>7, RequestFields DEF CancelWrite, Holds, Inv, TypeOK, EntryRequest
    <3> DEFINE r == [entries[f] EXCEPT !.status = "CANCELLED"]
    <3>2. r.status = "CANCELLED"
      BY <3>1 DEF Row
    <3>3. Written(w, f, r) \/ NotFound(w)
      BY <2>7 DEF CancelWrite
    <3> HIDE DEF f, r
    <3> QED
      BY <2>1, <2>3, <3>2, <3>3 DEF NotFound
  <2>8. CASE \E s \in Series : ApproveCommit(w, s)
    BY <1>1, <2>8 DEF ApproveCommit, Inv, TypeOK, Row
  <2>9. CASE RejectCommit(w)
    BY <1>1, <2>9 DEF RejectCommit, Inv, TypeOK, Row
  <2> QED
    BY <1>4, <2>1, <2>2, <2>4, <2>5, <2>6, <2>7, <2>8, <2>9 DEF Request, CreateCheck, EditCheck,
       DecisionCheck, AuditCommit, DecisionConflict, Abandon
<1>5. CASE \/ MarkOverdue
           \/ \E d \in Date : ClosePeriod(d) \/ ReopenPeriod(d)
           \/ \E f \in Entry : DueDatePasses(f)
           \/ \E p \in payments : RefundDeadlinePasses(p)
  <2>1. CASE MarkOverdue
    BY <1>1, <2>1 DEF MarkOverdue, Row
  <2>2. CASE \E f \in Entry : DueDatePasses(f)
    BY <1>1, <2>2 DEF DueDatePasses, Inv, TypeOK, Row
  <2> QED
    BY <1>5, <2>1, <2>2 DEF ClosePeriod, ReopenPeriod, RefundDeadlinePasses
<1>6. CASE \/ \E f \in Entry, p \in PaymentId, a \in Amount : RegisterPayment(f, p, a)
           \/ \E f \in Entry, p \in payments : Refund(f, p)
  BY <1>2, <1>6 DEF RegisterPayment, Refund
<1> QED
  BY <1>4, <1>5, <1>6 DEF Next

\* Only requests that found a row are opened, so every request in flight has one.
LEMMA RequestsFindRowsStep ==
  ASSUME Inv, RequestsFindRows, Next
  PROVE  RequestsFindRows'
<1> SUFFICES ASSUME NEW v \in Worker, req'[v].op \notin {"CREATE", "IDLE"}
             PROVE  entries'[req'[v].entry].status # "ABSENT"
  BY DEF RequestsFindRows
<1>1. CASE req'[v] = req[v]
  <2>1. req[v] \in EntryRequest
    BY <1>1, RequestFields DEF Inv
  <2> QED
    BY <1>1, <2>1, RowsPersist DEF RequestsFindRows, EntryRequest
<1>2. CASE req'[v] # req[v]
  <2>1. PICK w \in Worker : Request(w)
    BY <1>2 DEF Next, RegisterPayment, Refund, MarkOverdue, ClosePeriod, ReopenPeriod,
       DueDatePasses, RefundDeadlinePasses
  <2>2. ASSUME NEW x, req' = [req EXCEPT ![w] = x] PROVE w = v /\ req'[v] = x
    BY <1>2, <2>2 DEF Inv, TypeOK
  <2>3. ASSUME Finish(w) PROVE FALSE
    BY <2>2, <2>3 DEF Finish, Idle
  <2>4. ASSUME req' = [req EXCEPT ![w].stage = "written"], req[w] \in EntryRequest
        PROVE  entries'[req'[v].entry].status # "ABSENT"
    <3>1. w = v /\ req'[v] = [req[v] EXCEPT !.stage = "written"]
      BY <2>2, <2>4
    <3>2. req'[v].entry = req[v].entry /\ req[v].entry \in Entry
      BY <2>4, <3>1 DEF EntryRequest
    <3> QED
      BY <2>4, <3>1, <3>2, RowsPersist DEF RequestsFindRows, EntryRequest
  <2>5. ASSUME UpdateWrite(w) \/ SoftDeleteWrite(w) \/ RestoreWrite(w) \/ CancelWrite(w)
        PROVE  req[w] \in EntryRequest
    BY <2>5, RequestFields DEF UpdateWrite, SoftDeleteWrite, RestoreWrite, CancelWrite, Holds, Inv
  <2>6. CASE UpdateWrite(w) \/ SoftDeleteWrite(w) \/ RestoreWrite(w) \/ CancelWrite(w)
    BY <2>3, <2>4, <2>5, <2>6 DEF UpdateWrite, SoftDeleteWrite, RestoreWrite, CancelWrite,
       Written, NotFound
  <2>7. ASSUME NEW u \in User, NEW d \in Date, CreateCheck(w, u, d) PROVE FALSE
    BY <2>2, <2>7 DEF CreateCheck, Begin
  <2>8. ASSUME NEW u \in User, NEW e \in Entry, NEW op, EditCheck(w, op, e, u) \/ DecisionCheck(w, op, e, u)
        PROVE  entries'[req'[v].entry].status # "ABSENT"
    <3>1. req'[v].entry = e
      BY <2>2, <2>8 DEF EditCheck, DecisionCheck, Begin
    <3>2. entries' = entries /\ entries[e].status # "ABSENT"
      BY <2>8 DEF EditCheck, DecisionCheck, Checkable, Live, Trashed
    <3> QED
      BY <3>1, <3>2
  <2>9. CASE Create(w)
    BY <2>3, <2>9 DEF Create, CreateCommit
  <2>10. CASE AuditCommit(w)
    BY <2>3, <2>10 DEF AuditCommit
  <2>11. CASE (\E s \in Series : ApproveCommit(w, s)) \/ RejectCommit(w) \/ DecisionConflict(w) \/ Abandon(w)
    BY <2>3, <2>11 DEF ApproveCommit, RejectCommit, DecisionConflict, Abandon
  <2> QED
    BY <2>1, <2>6, <2>7, <2>8, <2>9, <2>10, <2>11 DEF Request
<1> QED
  BY <1>1, <1>2

LEMMA InitInv ==
  ASSUME Init
  PROVE  Inv /\ RequestsFindRows
<1>1. TypeOK
  BY DEF Init, TypeOK, NoRow, Row, Idle
<1>2. IsFiniteSet(payments) /\ PaymentsBelong /\ RequestsFindRows
  BY FS_EmptySet DEF Init, PaymentsBelong, RequestsFindRows, Idle
<1> QED
  BY <1>1, <1>2 DEF Inv

LEMMA NextInv ==
  ASSUME Inv, RequestsFindRows, [Next]_vars
  PROVE  Inv' /\ RequestsFindRows'
<1>1. CASE UNCHANGED vars
  BY <1>1 DEF vars, Inv, TypeOK, PaymentsBelong, RequestsFindRows
<1>2. CASE Next
  <2>1. RequestsFindRows'
    BY <1>2, RequestsFindRowsStep
  <2>2. ASSUME NEW w \in Worker, Request(w) PROVE Inv'
    BY <2>2, CheckInv, CreateInv, EditInv, EndInv, DecisionInv DEF Request
  <2>3. Inv'
    BY <1>2, <2>2, PaymentInv, SystemInv DEF Next
  <2> QED
    BY <2>1, <2>3
<1> QED
  BY <1>1, <1>2

\* The invariant that every theorem below rests on.
THEOREM Invariant == Spec => [](Inv /\ RequestsFindRows)
BY InitInv, NextInv, PTL DEF Spec

\* Every column and every request in flight holds a value of its type, whatever
\* the requests, jobs and crashes do.
THEOREM TypeCorrect == Spec => []TypeOK
BY Invariant, PTL DEF Inv

-----------------------------------------------------------------------------
(* One step seen from one row *)

(***************************************************************************)
(* Whoever takes the step, the row, its payments and its approvals change  *)
(* in one of the ways below; each safety theorem looks at these only.      *)
(***************************************************************************)
SamePayments(e) == PaymentsOf(e)' = PaymentsOf(e)
SameApprovals(e) == approvals'[e] = approvals[e]

RowKept(e) == entries'[e] = entries[e] /\ SamePayments(e) /\ SameApprovals(e)

RowCreated(e) ==
  /\ entries[e].status = "ABSENT"
  /\ \E total \in Amount, submit \in BOOLEAN, count \in 1 .. MaxInstallments, s \in Series, d \in Date :
       \E i \in 1 .. count :
         entries'[e] = CreatedRow(total, count, i, InitialStatus(submit, total), s, d)
  /\ SamePayments(e) /\ SameApprovals(e)

RowAmended(e) ==
  /\ Live(e)
  /\ \E amount \in AmendedAmount \cup {entries[e].amount}, late \in BOOLEAN :
       entries'[e] = [entries[e] EXCEPT !.amount = amount, !.late = late]
  /\ SamePayments(e) /\ SameApprovals(e)

RowTrashed(e) ==
  Live(e) /\ entries'[e] = [entries[e] EXCEPT !.deleted = TRUE] /\ SamePayments(e) /\ SameApprovals(e)

RowRestored(e) ==
  /\ entries[e].status # "ABSENT"
  /\ entries'[e] = [entries[e] EXCEPT !.deleted = FALSE] /\ SamePayments(e) /\ SameApprovals(e)

RowCancelled(e) ==
  Live(e) /\ entries'[e] = [entries[e] EXCEPT !.status = "CANCELLED"] /\ SamePayments(e) /\ SameApprovals(e)

RowApproved(e) ==
  /\ Awaiting(e)
  /\ \E s \in Series : entries'[e] = [entries[e] EXCEPT !.status = "PENDING", !.series = s,
                                                       !.number = sequences[s] + 1]
  /\ \E u \in User : approvals'[e] = Append(approvals[e], [by |-> u, action |-> "APPROVED"])
  /\ SamePayments(e)

RowRejected(e) ==
  /\ Awaiting(e)
  /\ entries'[e] = [entries[e] EXCEPT !.status = "CANCELLED"]
  /\ \E u \in User : approvals'[e] = Append(approvals[e], [by |-> u, action |-> "REJECTED"])
  /\ SamePayments(e)

RowPaid(e) ==
  /\ Live(e) /\ entries[e].status \in Payable
  /\ \E p \in Payment \ PaymentsOf(e) :
       /\ FitsBalance(e, p.amount) /\ p.amount > 0 /\ p.entry = e
       /\ PaymentsOf(e)' = PaymentsOf(e) \cup {p}
       /\ entries'[e] = Settled(e, PaymentsOf(e) \cup {p})[e]
  /\ SameApprovals(e)

RowRefunded(e) ==
  /\ Live(e) /\ entries[e].status \in {"PAID", "PARTIAL"}
  /\ \E p \in PaymentsOf(e) :
       /\ PaymentsOf(e)' = PaymentsOf(e) \ {p}
       /\ entries'[e] = Settled(e, PaymentsOf(e) \ {p})[e]
  /\ SameApprovals(e)

RowOverdue(e) ==
  /\ BecomesOverdue(e)
  /\ entries'[e] = [entries[e] EXCEPT !.status = "OVERDUE"] /\ SamePayments(e) /\ SameApprovals(e)

RowLate(e) ==
  /\ entries[e].status # "ABSENT"
  /\ entries'[e] = [entries[e] EXCEPT !.late = TRUE] /\ SamePayments(e) /\ SameApprovals(e)

RowStep(e) ==
  \/ RowKept(e) \/ RowCreated(e) \/ RowAmended(e) \/ RowTrashed(e) \/ RowRestored(e)
  \/ RowCancelled(e) \/ RowApproved(e) \/ RowRejected(e) \/ RowPaid(e) \/ RowRefunded(e)
  \/ RowOverdue(e) \/ RowLate(e)

-----------------------------------------------------------------------------
\* A step that leaves entries, payments and approvals alone keeps every row.
LEMMA QuietStep ==
  ASSUME UNCHANGED <<entries, payments, approvals>>, NEW e \in Entry
  PROVE  RowStep(e)
BY DEF RowStep, RowKept, SamePayments, SameApprovals, PaymentsOf

\* Creation.
LEMMA CreateStep ==
  ASSUME Inv, NEW w \in Worker, Create(w), NEW e \in Entry
  PROVE  RowStep(e)
<1>1. PICK total \in Amount, submit \in BOOLEAN, count \in 1 .. MaxInstallments,
           S \in SUBSET Entry, s \in Series :
        \E place \in Bijection(S, 1 .. count) : CreateCommit(w, total, submit, count, place, s)
  BY DEF Create
<1>2. PICK place \in Bijection(S, 1 .. count) : CreateCommit(w, total, submit, count, place, s)
  BY <1>1
<1>3. place \in [S -> 1 .. count] /\ DOMAIN place = S
  BY DEF Bijection, Injection
<1>4. req[w].issued \in Date
  BY <1>2, RequestFields DEF CreateCommit, Inv, CreateRequest
<1>5. SamePayments(e) /\ SameApprovals(e)
  BY <1>2 DEF CreateCommit, SamePayments, SameApprovals, PaymentsOf
<1>6. CASE e \in S
  <2>1. /\ entries[e].status = "ABSENT"
        /\ entries'[e] = CreatedRow(total, count, place[e], InitialStatus(submit, total), s, req[w].issued)
    BY <1>2, <1>3, <1>6 DEF CreateCommit
  <2> QED
    BY <1>3, <1>4, <1>5, <1>6, <2>1 DEF RowStep, RowCreated
<1>7. CASE e \notin S
  <2>1. entries'[e] = entries[e]
    BY <1>2, <1>3, <1>7 DEF CreateCommit
  <2> QED
    BY <1>5, <2>1 DEF RowStep, RowKept
<1> QED
  BY <1>6, <1>7

\* Edits, and the decisions on an entry that awaits approval, touch the row of
\* the request only.
LEMMA RequestStep ==
  ASSUME Inv, RequestsFindRows, NEW w \in Worker, NEW e \in Entry,
         \/ UpdateWrite(w) \/ SoftDeleteWrite(w) \/ RestoreWrite(w) \/ CancelWrite(w)
         \/ \E s \in Series : ApproveCommit(w, s)
         \/ RejectCommit(w)
  PROVE  RowStep(e)
<1> DEFINE f == req[w].entry
<1>1. /\ f \in Entry /\ req[w].user \in User /\ entries[f].status # "ABSENT"
      /\ entries \in [Entry -> Row] /\ approvals \in [Entry -> Seq(Approval)]
  <2>1. req[w].op \notin {"CREATE", "IDLE"}
    BY DEF UpdateWrite, SoftDeleteWrite, RestoreWrite, CancelWrite, ApproveCommit, RejectCommit, Holds
  <2>2. req[w] \in EntryRequest
    BY <2>1, RequestFields DEF Inv
  <2> QED
    BY <2>1, <2>2 DEF RequestsFindRows, EntryRequest, Inv, TypeOK
<1>2. ASSUME NEW r, Written(w, f, r)
      PROVE  /\ entries'[e] = IF e = f THEN r ELSE entries[e]
             /\ SamePayments(e) /\ SameApprovals(e)
  BY <1>1, <1>2 DEF Written, SamePayments, SameApprovals, PaymentsOf
<1>3. CASE NotFound(w)
  BY <1>3, QuietStep DEF NotFound
<1>4. CASE UpdateWrite(w)
  <2>1. CASE NotFound(w)
    BY <1>3, <2>1
  <2>2. CASE ~NotFound(w)
    <3>1. /\ Live(f)
          /\ \E amount \in AmendedAmount \cup {entries[f].amount}, late \in BOOLEAN :
               Written(w, f, [entries[f] EXCEPT !.amount = amount, !.late = late])
      BY <1>4, <2>2 DEF UpdateWrite
    <3>2. PICK amount \in AmendedAmount \cup {entries[f].amount}, late \in BOOLEAN :
               Written(w, f, [entries[f] EXCEPT !.amount = amount, !.late = late])
      BY <3>1
    <3> DEFINE r == [entries[f] EXCEPT !.amount = amount, !.late = late]
    <3>3. entries'[e] = (IF e = f THEN r ELSE entries[e]) /\ SamePayments(e) /\ SameApprovals(e)
      BY <1>2, <3>2
    <3> QED
      BY <3>1, <3>3 DEF RowStep, RowAmended, RowKept
  <2> QED
    BY <2>1, <2>2
<1>5. CASE SoftDeleteWrite(w)
  <2> DEFINE r == [entries[f] EXCEPT !.deleted = TRUE]
  <2>1. NotFound(w) \/ (Live(f) /\ Written(w, f, r))
    BY <1>5 DEF SoftDeleteWrite
  <2>2. CASE Live(f) /\ Written(w, f, r)
    <3>1. entries'[e] = (IF e = f THEN r ELSE entries[e]) /\ SamePayments(e) /\ SameApprovals(e)
      BY <1>2, <2>2
    <3> QED
      BY <2>2, <3>1 DEF RowStep, RowTrashed, RowKept
  <2> QED
    BY <1>3, <2>1, <2>2
<1>6. CASE RestoreWrite(w)
  <2> DEFINE r == [entries[f] EXCEPT !.deleted = FALSE]
  <2>1. Written(w, f, r)
    BY <1>6 DEF RestoreWrite
  <2>2. entries'[e] = (IF e = f THEN r ELSE entries[e]) /\ SamePayments(e) /\ SameApprovals(e)
    BY <1>2, <2>1
  <2> QED
    BY <1>1, <2>2 DEF RowStep, RowRestored, RowKept
<1>7. CASE CancelWrite(w)
  <2> DEFINE r == [entries[f] EXCEPT !.status = "CANCELLED"]
  <2>1. NotFound(w) \/ (Live(f) /\ Written(w, f, r))
    BY <1>7 DEF CancelWrite
  <2>2. CASE Live(f) /\ Written(w, f, r)
    <3>1. entries'[e] = (IF e = f THEN r ELSE entries[e]) /\ SamePayments(e) /\ SameApprovals(e)
      BY <1>2, <2>2
    <3> QED
      BY <2>2, <3>1 DEF RowStep, RowCancelled, RowKept
  <2> QED
    BY <1>3, <2>1, <2>2
<1>8. ASSUME NEW s \in Series, ApproveCommit(w, s) PROVE RowStep(e)
  <2> DEFINE r == [entries[f] EXCEPT !.status = "PENDING", !.series = s, !.number = sequences[s] + 1]
             a == Append(approvals[f], [by |-> req[w].user, action |-> "APPROVED"])
  <2>1. Awaiting(f) /\ entries' = [entries EXCEPT ![f] = r] /\ approvals' = [approvals EXCEPT ![f] = a]
    BY <1>1, <1>8 DEF ApproveCommit, Row
  <2>2. /\ entries'[e] = IF e = f THEN r ELSE entries[e]
        /\ approvals'[e] = IF e = f THEN a ELSE approvals[e]
        /\ SamePayments(e)
    BY <1>1, <1>8, <2>1 DEF ApproveCommit, SamePayments, PaymentsOf
  <2> QED
    BY <1>1, <2>1, <2>2 DEF RowStep, RowApproved, RowKept, SameApprovals
<1>9. CASE RejectCommit(w)
  <2> DEFINE r == [entries[f] EXCEPT !.status = "CANCELLED"]
             a == Append(approvals[f], [by |-> req[w].user, action |-> "REJECTED"])
  <2>1. Awaiting(f) /\ entries' = [entries EXCEPT ![f] = r] /\ approvals' = [approvals EXCEPT ![f] = a]
    BY <1>1, <1>9 DEF RejectCommit, Row
  <2>2. /\ entries'[e] = IF e = f THEN r ELSE entries[e]
        /\ approvals'[e] = IF e = f THEN a ELSE approvals[e]
        /\ SamePayments(e)
    BY <1>1, <1>9, <2>1 DEF RejectCommit, SamePayments, PaymentsOf
  <2> QED
    BY <1>1, <2>1, <2>2 DEF RowStep, RowRejected, RowKept, SameApprovals
<1> QED
  BY <1>4, <1>5, <1>6, <1>7, <1>8, <1>9

\* Payments, refunds.
LEMMA PaymentStep ==
  ASSUME Inv, NEW e \in Entry, NEW f \in Entry,
         \/ \E p \in PaymentId, a \in Amount : RegisterPayment(f, p, a)
         \/ \E p \in payments : Refund(f, p)
  PROVE  RowStep(e)
<1>1. ASSUME NEW p \in PaymentId, NEW a \in Amount, RegisterPayment(f, p, a) PROVE RowStep(e)
  <2> DEFINE new == [id |-> p, entry |-> f, amount |-> a]
  <2>1. new \in Payment /\ new.amount > 0 /\ new.entry = f /\ new \notin payments /\ new.amount = a
    BY <1>1, AmountAssumption DEF Payment, RegisterPayment, PaymentIds
  <2>2. /\ Live(f) /\ entries[f].status \in Payable /\ FitsBalance(f, a)
        /\ payments' = payments \cup {new}
        /\ entries' = Settled(f, PaymentsOf(f) \cup {new})
        /\ approvals' = approvals
    BY <1>1 DEF RegisterPayment
  <2> HIDE DEF new
  <2>3. CASE e = f
    <3>1. PaymentsOf(e)' = PaymentsOf(e) \cup {new} /\ new \notin PaymentsOf(e)
      BY <2>1, <2>2, <2>3 DEF PaymentsOf
    <3> QED
      BY <2>1, <2>2, <2>3, <3>1 DEF RowStep, RowPaid, SameApprovals
  <2>4. CASE e # f
    <3>1. PaymentsOf(e)' = PaymentsOf(e)
      BY <2>1, <2>2, <2>4 DEF PaymentsOf
    <3>2. entries'[e] = entries[e]
      BY <2>2, <2>4 DEF Settled, Inv, TypeOK
    <3> QED
      BY <2>2, <3>1, <3>2 DEF RowStep, RowKept, SamePayments, SameApprovals
  <2> QED
    BY <2>3, <2>4
<1>2. ASSUME NEW p \in payments, Refund(f, p) PROVE RowStep(e)
  <2>2. /\ Live(f) /\ entries[f].status \in {"PAID", "PARTIAL"} /\ p \in PaymentsOf(f)
        /\ payments' = payments \ {p}
        /\ entries' = Settled(f, PaymentsOf(f) \ {p})
        /\ approvals' = approvals
    BY <1>2 DEF Refund
  <2>3. CASE e = f
    <3>1. PaymentsOf(e)' = PaymentsOf(e) \ {p}
      BY <2>2, <2>3 DEF PaymentsOf
    <3> QED
      BY <2>2, <2>3, <3>1 DEF RowStep, RowRefunded, SameApprovals
  <2>4. CASE e # f
    <3>1. PaymentsOf(e)' = PaymentsOf(e)
      BY <2>2, <2>4 DEF PaymentsOf
    <3>2. entries'[e] = entries[e]
      BY <2>2, <2>4 DEF Settled, Inv, TypeOK
    <3> QED
      BY <2>2, <3>1, <3>2 DEF RowStep, RowKept, SamePayments, SameApprovals
  <2> QED
    BY <2>3, <2>4
<1> QED
  BY <1>1, <1>2

\* The overdue job and the calendar.
LEMMA SystemStep ==
  ASSUME Inv, NEW e \in Entry, MarkOverdue \/ \E f \in Entry : DueDatePasses(f)
  PROVE  RowStep(e)
<1>1. SamePayments(e) /\ SameApprovals(e)
  BY DEF MarkOverdue, DueDatePasses, SamePayments, SameApprovals, PaymentsOf
<1>2. CASE MarkOverdue
  <2>1. entries'[e] = IF BecomesOverdue(e) THEN [entries[e] EXCEPT !.status = "OVERDUE"] ELSE entries[e]
    BY <1>2 DEF MarkOverdue
  <2> QED
    BY <1>1, <2>1 DEF RowStep, RowKept, RowOverdue
<1>3. ASSUME NEW f \in Entry, DueDatePasses(f) PROVE RowStep(e)
  <2>1. /\ entries[f].status # "ABSENT"
        /\ entries'[e] = IF e = f THEN [entries[e] EXCEPT !.late = TRUE] ELSE entries[e]
    BY <1>3 DEF DueDatePasses, Inv, TypeOK
  <2> QED
    BY <1>1, <2>1 DEF RowStep, RowKept, RowLate
<1> QED
  BY <1>2, <1>3

\* Next, seen from one entry.
THEOREM NextSeenFromRow ==
  ASSUME Inv, RequestsFindRows, [Next]_vars, NEW e \in Entry
  PROVE  RowStep(e)
<1>1. CASE UNCHANGED vars
  BY <1>1, QuietStep DEF vars
<1>2. ASSUME NEW w \in Worker, Request(w) PROVE RowStep(e)
  <2>1. CASE UNCHANGED <<entries, payments, approvals>>
    BY <2>1, QuietStep
  <2> QED
    BY <1>2, <2>1, CreateStep, RequestStep DEF Request, CreateCheck, EditCheck, DecisionCheck,
       AuditCommit, DecisionConflict, Abandon
<1>3. CASE Next
  <2>1. CASE UNCHANGED <<entries, payments, approvals>>
    BY <2>1, QuietStep
  <2> QED
    BY <1>2, <1>3, <2>1, PaymentStep, SystemStep DEF Next, ClosePeriod, ReopenPeriod, RefundDeadlinePasses
<1> QED
  BY <1>1, <1>3
==============================================================================
