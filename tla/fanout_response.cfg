CONSTANTS
  ReorderCap = 4
  SeqMod = 64
  MaxSeq = 2
  Controls <- Fins
  Arteries = {a1, a2}
  Senders = {"combiner"}
  MayFail = {}
  MaxReconnects = 0
SPECIFICATION FanoutSpec
INVARIANT NoChunkRefused
CHECK_DEADLOCK FALSE
