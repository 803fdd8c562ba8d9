CONSTANTS
  Writer = {t1, t2}
  Key = {1, 2}
  WriteBufferSize = 0
  GroupLimit = 2
  CompactTrigger = 1
  StopTrigger = 2
  Budgets <- MCBudgets
SPECIFICATION FairSpec
CHECK_DEADLOCK FALSE
INVARIANTS
  AckedAreRecoverable
  ReadsSeeStore
  FilesInUseExist
  NumbersNameOneWrite
  SeenIsRecoverable
PROPERTIES
  WritesReturn
  MemtableIsFlushed
