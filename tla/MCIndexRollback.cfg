SPECIFICATION IxSpec
CONSTANTS
  IxParent <- MCIxParent
  IxSpends = {"a"}
  IxGenesis = "g"
  IxIncrement = 2
  IxBatch = 2
  IxMaxMoves = 4
  IxMaxStarts = 3
INVARIANTS RollbackSucceeds
CHECK_DEADLOCK FALSE
