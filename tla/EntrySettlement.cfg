SPECIFICATION Spec
CONSTANTS
  Entry = {e1, e2}
  PaymentId = {p1, p2, p3}
  Worker = {w1, w2}
  User = {u1}
  Series = {s1}
  Amount = {1, 3}
  AmendedAmount = {}
  Date = {1}
  ApprovalFloor = 3
  MaxInstallments = 2
  Operation = {"CREATE", "CANCEL", "APPROVE", "PAY", "REFUND", "OVERDUE"}
  NoSeries = NoSeries
  NoPayment = NoPayment
SYMMETRY Symmetry
INVARIANTS PaidWithinAmount StatusTellsPaid LargeEntriesApproved
