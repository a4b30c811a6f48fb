SPECIFICATION MCSpec
CONSTANTS
  None = None
  Tenant = {t1}
  Name = {n1, n2}
  Program = {q1, q2}
  Guarded = {g1}
  MaxStarts = 2
  Tab = {q1, q2}
  UserBranch = {b1, b2}
  Call = {k1}
  Headquarters = b1
  Entry = {e1}
  Branch = {n1, n2}
  Boleto = {n1, n2}
  Request = {q1, q2}
  MaxAttempts = 2
  Payment = {p1}
  Batch = {n1, n2}
  Matcher = {q1, q2}
  File = {c1, c2, c3}
  Size = {1, 2}
  Quota = 3
  Deleter = {q1, q2}
  Category = {c1, c2, c3}
  Recurrence = {c1, c2, c3}
  Run = {q1, q2}
  Claim = 2
  MaxOccurrences = 2
  LastDay = 2
  Notification = {p1}
  Change = {q1, q2}
  ReportedEntry = {e1}
  ReportedPayment = {n1, n2}
  Account = {q1, q2}
  Price = {2}
  Amount = {1}
  Initial = 1
  Day = {1, 2}
  First = 2
  Last = 2
  AgeLimits = {0}
  FailingCall = {k1, k2}
  Query = {k1}
  RateLimit = 1
  Minute = 2
  MaxTime = 3
  Member = {e1}
  MaxChanges = 2
  Window = 2
SYMMETRY Interchangeable
INVARIANTS TypesOK TenantsStaySound ClientStaysSound RowTellsTheGateway MatchAnnouncedOnce ChargedForWhatIsAttached NoCycleUnlessRaced EachOccurrenceOnce DeedsAreShown ReportsAgree
CHECK_DEADLOCK FALSE
