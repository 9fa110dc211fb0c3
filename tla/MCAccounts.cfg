SPECIFICATION AllSpec
\* Two requests of a conversation, one of which the client continues, with a
\* legacy hint.
CONSTANTS
  Accounts = {"a1", "a2"}
  Requests = {"r1", "r2"}
  Conversations = {"c1"}
  Limit = 2
  LeaseLife = 2
  MaxSilence = 1
  MaxFailures = 0
  Continued = {"r1"}
  LegacyAccounts = {"nobody", "a2"}
  NoAccount = "nobody"
  NoToken = "none"
  Nobody = Nobody
INVARIANTS HistoryAtHand LoginsAreWhole
PROPERTIES HealthEarned UpstreamsAreReached RoutesAreEarned QuotasAreTrue
\* Every part is bounded, and comes to rest.
CHECK_DEADLOCK FALSE
