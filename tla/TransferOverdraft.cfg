SPECIFICATION Spec
CHECK_DEADLOCK FALSE
CONSTANTS
  Account = {a1, a2}
  TransferId = {t1, t2}
  Worker = {w1, w2}
  Amount = {1, 2}
  InitialBalance = {2}
  MaxAmount = 2
  MaxInitial = 2
  MaxSettled = 0
PROPERTIES NoOverdraft
