SPECIFICATION Spec
CONSTANTS
  Entry = {e1}
  Copies = 1
  LastDay = 1
PROPERTIES ApprovalsAnnounced
CHECK_DEADLOCK FALSE
