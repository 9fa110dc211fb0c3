SPECIFICATION Spec
CONSTANTS
  Accounts = {"a1"}
  NoAccount = "nobody"
  Requests = {"r1"}
  Admins = {"d1"}
  Threshold = 2
  ModelLimit = 2
INVARIANT RemovedStaysRemoved
CHECK_DEADLOCK FALSE
