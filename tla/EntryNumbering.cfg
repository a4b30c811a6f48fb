SPECIFICATION Spec
CONSTANTS
  Entry = {e1, e2, e3}
  PaymentId = {p1}
  Worker = {w1, w2}
  User = {u1}
  Series = {s1, s2}
  Amount = {1, 2}
  AmendedAmount = {}
  Date = {1}
  ApprovalFloor = 2
  MaxInstallments = 2
  Operation = {"CREATE", "APPROVE", "REJECT"}
  NoSeries = NoSeries
  NoPayment = NoPayment
SYMMETRY Symmetry
INVARIANTS SequentialNumbers
PROPERTIES NumbersIssued
