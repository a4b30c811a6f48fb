SPECIFICATION Spec
CONSTANTS
  Entry = {e1}
  PaymentId = {p1}
  Worker = {w1, w2}
  User = {u1}
  Series = {s1}
  Amount = {1, 2}
  AmendedAmount = {}
  Date = {1}
  ApprovalFloor = 3
  MaxInstallments = 1
  Operation = {"CREATE", "PAY", "CANCEL"}
  NoSeries = NoSeries
  NoPayment = NoPayment
INVARIANTS CancelledIsUnpaid
