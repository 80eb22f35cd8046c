SPECIFICATION Spec
CONSTANTS
  Worker = {w1, w2}
  Key = {k1}
  Token = {t1, t2, t3}
  None = None
  Timeout = 2
  TTL = 4
  MaxSkew = 1
  MaxNow = 9
SYMMETRY Symmetry
INVARIANTS TypeOK MutualExclusion HolderOwnsRow LeaseInv
PROPERTY ImplementsMutex
CHECK_DEADLOCK FALSE
