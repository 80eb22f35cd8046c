SPECIFICATION FairSpec
CONSTANTS
  Worker = {w1}
  Deal = {d1}
  LineItem = {l1}
  Token = {t1, t2}
  None = None
  Stages = {"create"}
  Faults = {"crash"}
  MaxEdits = 1
  MaxReceives = 5
PROPERTY RedriveSucceeds
CHECK_DEADLOCK FALSE
