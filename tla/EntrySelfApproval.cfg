SPECIFICATION Spec
CONSTANTS
  Entry = {e1}
  PaymentId = {p1}
  Worker = {w1}
  User = {u1}
  Series = {s1}
  Amount = {1, 2}
  AmendedAmount = {}
  Date = {1}
  ApprovalFloor = 2
  MaxInstallments = 1
  Operation = {"CREATE", "APPROVE"}
  NoSeries = NoSeries
  NoPayment = NoPayment
INVARIANTS NoSelfApproval
