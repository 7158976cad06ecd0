SPECIFICATION FairSpec
CONSTANTS
  Callers = {c1, c2, c3}
  Failures = 2
  OpenSeconds = 5
  CallTimeout = 2
  MaxLag = 1
INVARIANTS ProbeAlone ProbeInFlight
PROPERTIES ProbeDecides Recovers HalfOpenEnds
