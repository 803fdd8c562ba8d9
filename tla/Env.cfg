CONSTANTS
  p1 = p1
  p2 = p2
  x = x
  y = y
  a = a
  b = b
  c = c
  a2 = a2
  Process = {p1, p2}
  DB = {a, a2, b, c}
  ProcessOf <- Processes
  DirOf <- Dirs
  Nobody = Nobody
SPECIFICATION Spec
INVARIANTS
  OpenOnce
PROPERTY WorkIsRun
