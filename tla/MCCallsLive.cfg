SPECIFICATION FairSpec
CONSTANTS
  a1 = a1  a2 = a2  q1 = q1  q2 = q2
  Requests = {q1, q2}
  Accounts = {a1}
  Limit = 1
  MaxAttempts = 1
  MaxCancels = 1
  Leaving = {q1}
  Guarded = {q1}
  Faulty = {q1, q2}
  OddJson = TRUE
  NoAccount = NoAccount
CHECK_DEADLOCK FALSE
PROPERTY EveryCallEnds
