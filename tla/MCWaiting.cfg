SPECIFICATION AllFairSpec
CONSTANTS
  Ops = {"o1", "o2", "o3"}
  Stop = "stop"
  Engines = {"sqlite", "mysql"}
  Nobody = Nobody
INVARIANT CallsAreTrue
PROPERTIES NothingStays WaitersAnswered VideosBilled
\* Every part is bounded, and comes to rest.
CHECK_DEADLOCK FALSE
