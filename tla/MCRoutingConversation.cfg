SPECIFICATION Spec
CONSTANTS
  a1 = a1  a2 = a2  q1 = q1  q2 = q2  q3 = q3  c1 = c1
  Accounts = {a1, a2}
  Requests = {q1, q2, q3}
  Conversations = {c1}
  Limit = 2
  LeaseLife = 1
  MaxSilence = 0
  MaxFailures = 0
  Continued = {}
  LegacyAccounts = {NoAccount}
  NoAccount = NoAccount
  NoToken = NoToken
INVARIANT ConversationStays
