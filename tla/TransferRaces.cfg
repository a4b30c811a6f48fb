SPECIFICATION FairSpec
CHECK_DEADLOCK FALSE
CONSTANTS
  Account = {a1, a2}
  TransferId = {t1, t2}
  Worker = {w1, w2}
  Amount = {1, 2}
  InitialBalance = {0, 1}
  MaxAmount = 2
  MaxInitial = 1
  MaxSettled = 1
INVARIANTS TypeOK ExposureBounded
PROPERTIES OnlyStaleOverdraws DeletedSendNothing TransfersEnd
