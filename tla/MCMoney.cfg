SPECIFICATION AllSpec
CONSTANTS
  Models = {"m1", "m2"}
  Names <- TwoNames
  Catalog <- OnePrice
  MaxRate = 1
  MaxFactor = 2
  Budget = 3
  Buyers = {"r1"}
  Admins = {"d1", "d2"}
INVARIANT PricesHold
PROPERTY PaidAndRecorded
\* Every part is bounded, and comes to rest.
CHECK_DEADLOCK FALSE
