SPECIFICATION Spec
CONSTANTS
  Nil = Nil
  HeadNode = HeadNode
  Error = Error
  MaxHeight = 2
  ArenaBlockSize = 32
  Alignment = 4
  MaxSequenceNumber = 8
  BlockSize = 14
  RestartInterval = 2
  FilterBaseLg = 4
  Radix = 4
  Key <- Keys
  SeekKeys <- Asked
  Layouts <- SomeLayouts
INVARIANTS PointReadsFindNewest ScansReportDamage
PROPERTIES ImplementsCursor
