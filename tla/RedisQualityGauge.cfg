SPECIFICATION Spec
CONSTANTS
  a = a
  b = b
  r1 = r1
  r2 = r2
  v1 = v1
  v2 = v2
  Pods = {a, b}
  Requests = {r1, r2}
  PodOf <- TwoPods
  Scraped = {a}
  Versions = {v1, v2}
  None = None
  Steps = 1
  WindowSteps = 2
  RollingWindow = 1
  MaxTime = 2
INVARIANT GaugesFollow
