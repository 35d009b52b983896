CONSTANTS
  ReorderCap = 5
  SeqMod = 64
  MaxSeq = 3
  Controls <- Fins
  Arteries = {a1, a2, a3}
  Senders = {"client", "combiner"}
  MayFail = {a2}
  MaxReconnects = 1
SPECIFICATION FairFanoutSpec
INVARIANTS CleanEnd ReadInOrder
 
CHECK_DEADLOCK FALSE
