SPECIFICATION ScalerSpec
CONSTANTS
  a = a  b = b  p = p  s1 = s1  s2 = s2
  Keys = {a, b}
  Calls = {p, s1, s2}
  Streams = {s1, s2}
  KeyOf <- KeyOfCalls
  Workers = 2
  MaxStreams = 1
  MaxChanges = 0
PROPERTY BreakerKept
