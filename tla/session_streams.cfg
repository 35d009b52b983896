CONSTANTS
  ReorderCap = 2
  SeqMod = 64
  MaxSeq = 2
  Controls = {}
  Ids = {1, 2}
  Local = {2}
  Arteries = {a1, a2}
  Sent <- TwoStreams
  Copies <- OpenTwice
SPECIFICATION FairSpec
INVARIANT OpenIffInTable
PROPERTIES SendsOnOpenChannels StreamsArePipes CloseReturns
CHECK_DEADLOCK FALSE
