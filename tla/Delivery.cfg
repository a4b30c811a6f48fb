SPECIFICATION MCSpec
CONSTANTS
  Event = {1, 2, 3}
  Poller = {p1, p2}
  BatchSize = 2
  MaxEmissions = 3
  Entry = {e1}
  Copies = 2
  LastDay = 2
INVARIANTS TypesOK EmittedAgainAfterRollBack ThankedOnceADay
PROPERTIES ImplementsAtLeastOnce HeadIsEmitted JobsSettle
CHECK_DEADLOCK FALSE
