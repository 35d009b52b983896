CONSTANTS
  Streams = {s1, s2}
  Paths = {p1, p2}
  CWnds = {2}
  Mode = "auto"
  Frames = 1
  FirstCWnd = 2
  MaxReplacements = 1
  BusyStreams = {b1, b2, b3}
  BusyPaths = {q1}
  BusyCWnds = {2, 3}
SPECIFICATION BothSpec
INVARIANT InFlightExact
PROPERTY UpdateReturns
CHECK_DEADLOCK FALSE
