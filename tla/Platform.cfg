SPECIFICATION MCSpec
CONSTANTS
  User = {u1}
  Role = {r1, r2}
  Permission = {p1}
  SystemRole = {r2}
  AdminRequest = {a1, a2}
  GuardedRequest = {q1}
  Reader = {d1, d2, d3}
  MaxRetries = 1
  Form = {f1}
  Payload = {y1, y2}
  Request = {q1, q2}
  Tenant = {t1}
  MaxVersion = 3
  Branch = {b1, b2}
  Replacer = {q1, q2}
  Tab = {w1, w2}
  Page = {g1, g2}
  Flow = {o1, o2, o3}
INVARIANTS TypesOK GrantsAreFollowed OneComputesUnlessLapsed HandledTwiceOnlyIfExcused AuditReachesTheChange
PROPERTIES RevocationTakesEffect CallsAnswered LockedOutOnPurpose ReturnsWhereItLeft
CHECK_DEADLOCK FALSE
