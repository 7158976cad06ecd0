\* Time and versions are bounded.
CHECK_DEADLOCK FALSE
SPECIFICATION TrackerSpec
CONSTANTS
  s1 = s1  s2 = s2  r1 = r1  r2 = r2
  Series = {s1, s2}
  Requests = {r1, r2}
  Window = 1
  Horizon = 2
  MaxSeries = 1
  MaxPending = 2
  MaxTime = 4
  MaxVersion = 2
SYMMETRY Symmetry
INVARIANTS OwnForecasts CountedOnce
