CONSTANTS
  Names = {a}
  MaxBackups = 1
  MaxByHand = 0
SPECIFICATION BackupsSpec
INVARIANT UpIsMarked
CHECK_DEADLOCK FALSE
