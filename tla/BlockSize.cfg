SPECIFICATION Spec
CONSTANTS
  Threads = {t1, t2}
  N = 2
  First = 2
  MaxSize = 3
  Page = 2
INVARIANT SizeNeverExceeds
CHECK_DEADLOCK FALSE
