CONSTANTS
  ReorderCap = 2
  SeqMod = 64
  MaxSeq = 3
  Controls <- Fins
  Ids = {1}
  Local = {}
  Arteries = {a1, a2}
  Sent <- TwoChunks
  Copies <- OpenTwice
  DialsMayFail = FALSE
SPECIFICATION RelaySpec
INVARIANT OneConnection
CHECK_DEADLOCK FALSE
