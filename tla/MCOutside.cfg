SPECIFICATION AllSpec
\* A user's key and an administrator's, two handlers at a time: both with two
\* secrets ("keys"), or one that is rotated twice ("onekey").
CONSTANTS
  Keys = {"k1", "k2"}
  Owners = {"u1"}
  Nobody = "nobody"
  MaxSecrets = 3
  MaxOps = 2
  NoProvider = NoProvider
INVARIANTS KeysAreTrue AdminsAreChecked FilesComeBack AnswersArrive HistoriesPair ToolsComeBack
PROPERTIES PortalRewardsOnce FilesAreKept ListsAgree SessionsFollow
\* Every part is bounded, and comes to rest.
CHECK_DEADLOCK FALSE
