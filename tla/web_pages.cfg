CONSTANTS
  Dirs = {d1, d2}
  Names = {n1, n2}
  Root = d1
  None = None
  Alert = Alert
  MaxFetch = 2
  MaxOps = 1
  Sockets = {s1, s2, s3}
  TestSockets = {s1, s2, s3}
  Jobs = {t1, t2}
  Hashes = {t1, t2}
  MaxAdds = 2
  Addresses = {a1, a2}
  Slots = {r1, r2}
SPECIFICATION WebSpec
INVARIANTS ListBelongsToPath OneSocket DeleteAllMeansAll KeptIsKept PendingIsAsked
PROPERTY WaitingEnds
CHECK_DEADLOCK FALSE
