CONSTANTS
  Key = {1, 2, 3}
  NumLevels = 4
  MaxMemCompactLevel = 2
  Settings <- SplitSettings
SPECIFICATION Spec
INVARIANT LaterLevelsAreIrrelevant
