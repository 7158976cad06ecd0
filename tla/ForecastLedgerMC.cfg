SPECIFICATION Spec
CONSTANTS
  Pollers = {p1, p2}
  Step = 3
  Tol = 1
  Steps = 2
  HistorySteps = 3
  MaxPending = 3
  PollTime = 1
  MaxTime = 8
  MaxArrivals = 4
INVARIANTS ScoredOnce NothingSpent OnePerInstant
