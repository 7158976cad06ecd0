SPECIFICATION FairSpec
CONSTANTS
  Pollers = {p1, p2}
  LevelShiftPolls = 2
  CalmPolls = 2
  MinOpen = 2
  MaxOpen = 4
  Lag = 1
INVARIANTS HoldServed
PROPERTIES KeepsTrustGate Recovers
