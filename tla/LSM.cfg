CONSTANTS
  Key = {1, 2, 3}
  NumLevels = 4
  MaxMemCompactLevel = 2
  Settings <- MCSettings
SPECIFICATION Spec
INVARIANTS
  ReadsFindNewest
  OlderIsDeeper
  SizesAreOfRanges
PROPERTIES
  Settles
