CONSTANTS
  ReorderCap = 2
  SeqMod = 64
  MaxSeq = 3
  Controls <- Fins
  Ids = {1}
  Local = {}
  Arteries = {a1, a2}
  Sent <- Exchange
  Copies <- OpenTwice
  DialsMayFail = TRUE
  Request = 2
  Response = 2
  Opens = {o1, o2}
SPECIFICATION BothSpec
INVARIANTS StreamHasHandler RequestIntact RestOfAnswer
PROPERTIES StopEndsHandlers EverythingEnds
CHECK_DEADLOCK FALSE
