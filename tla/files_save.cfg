CONSTANTS
  Dirs = {d1, d2}
  Root = d1
  Texts = {n1, n2}
  Others = {n3}
  None = None
SPECIFICATION Spec
INVARIANT SavesTheOpenFile
CHECK_DEADLOCK FALSE
