CONSTANTS
  Thread = {t1, t2, t3}
  NULL = NULL
  Main = Main
  MaxPid = 3
  MaxLen = 6
SPECIFICATION Spec
CHECK_DEADLOCK FALSE
INVARIANTS PidsUnique RotationComplete
 
