SPECIFICATION FairSpec
CONSTANTS
  a1 = a1  a2 = a2  q1 = q1  q2 = q2
  Requests = {q1}
  Accounts = {a1}
  Limit = 1
  MaxAttempts = 2
  MaxCancels = 1
  Leaving = {q1}
  Guarded = {}
  Faulty = {q1}
  OddJson = FALSE
  NoAccount = NoAccount
CHECK_DEADLOCK FALSE
INVARIANT DeliveredIsBilled
