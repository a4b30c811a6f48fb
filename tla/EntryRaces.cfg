SPECIFICATION Spec
CONSTANTS
  Entry = {e1}
  PaymentId = {p1, p2}
  Worker = {w1, w2}
  User = {u1}
  Series = {s1}
  Amount = {1, 2}
  AmendedAmount = {0, 1}
  Date = {1}
  ApprovalFloor = 2
  MaxInstallments = 1
  Operation = {"CREATE", "UPDATE", "DELETE", "RESTORE", "CANCEL", "APPROVE", "REJECT", "PAY", "REFUND", "OVERDUE", "LOCK"}
  NoSeries = NoSeries
  NoPayment = NoPayment
SYMMETRY Symmetry
INVARIANTS TypeOK PaidAmountIsSum DecidedOnce
PROPERTIES CancelledIsFinal DeletedIsFrozen
