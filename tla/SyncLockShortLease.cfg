SPECIFICATION Spec
CONSTANTS
  Worker = {w1, w2}
  Key = {k1}
  Token = {t1, t2, t3}
  None = None
  Timeout = 4
  TTL = 1
  MaxSkew = 1
  MaxNow = 7
SYMMETRY Symmetry
PROPERTY FencedStep
CHECK_DEADLOCK FALSE
