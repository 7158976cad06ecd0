SPECIFICATION Spec
CONSTANTS
  Pollers = {p1, p2}
  MaxDemand = 1
  MaxForecast = 2
  Mode = "max"
  Factor = 1
  CacheSeconds = 2
  MaxAge = 1
  Lag = 1
  PollTime = 2
INVARIANTS CoversDemand SurgeBound
PROPERTIES StaleNeverDamps CatchesUp
