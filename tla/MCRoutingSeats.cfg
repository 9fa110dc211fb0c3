SPECIFICATION Spec
CONSTANTS
  a1 = a1  a2 = a2  q1 = q1  q2 = q2  q3 = q3  c1 = c1
  Accounts = {a1, a2}
  Requests = {q1, q2, q3}
  Conversations = {}
  Limit = 1
  LeaseLife = 3
  MaxSilence = 2
  MaxFailures = 1
  Continued = {}
  LegacyAccounts = {NoAccount}
  NoAccount = NoAccount
  NoToken = NoToken
SYMMETRY Symmetry
INVARIANT CapacityRespected
INVARIANT SeatKept
