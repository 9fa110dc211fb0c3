SPECIFICATION AllFairSpec
CONSTANTS
  Cards = {"c1"}
  Expiries = {1}
  Never = 100
  Users = {"u1", "u2", "u3"}
  Nets = {"w1"}
  Limit = 1
  NetLimit = 2
  DayLength = 2
  Messages <- ThreeMessages
  Skew = 1
  MaxTime = 8
  MaxCalls = 2
  MaxTries = 2
INVARIANT CreditsAreTrue
PROPERTIES OffStaysOff EveryHoldEnds SeatGivenBack
\* Every part is bounded, and comes to rest.
CHECK_DEADLOCK FALSE
