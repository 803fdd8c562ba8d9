SPECIFICATION Spec
CONSTANTS
  LongBits = 18
  WordBits = 12
  Top = "Outer"
  Capacity = 24
  SeenBits = 2
  MaxRequired = 4
  MaxPieces = 3
  Schema <- Types
  Pieces <- SomePieces
  Messages <- OwnMessages
INVARIANTS AcceptedAreWhole CopyIsEqual CutIsNoticed
CHECK_DEADLOCK FALSE
