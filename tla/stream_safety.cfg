CONSTANTS
  ReorderCap = 1
  SeqMod = 64
  MaxSeq = 6
  Few = 3
  Controls <- AllControls
  Copies = 2
  Closes = TRUE
SPECIFICATION MCSpec
INVARIANTS TypeOK NextSeqAccounts NothingStranded
PROPERTIES SendsOnOpenChannel RefinesPipe SizedDeliversAll
CHECK_DEADLOCK FALSE
