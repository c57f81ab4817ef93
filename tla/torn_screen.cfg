SPECIFICATION ScreenSpec
CONSTANTS
  t1 = t1
  t2 = t2
  daemon = daemon
  Threads = {t1, t2}
  Pids = {daemon}
  ProcessOf <- MCProcessOf
  Readers = {r1}
  Contents = {v1, v2}
  Inodes = {i1, i2, i3, i4, i5}
  PIECES = 2
  MaxCalls = 2
  None = None
SYMMETRY MCSymmetry
INVARIANTS NeverTorn
CHECK_DEADLOCK FALSE
