SPECIFICATION FairSpec
CONSTANTS
  Worker = {w1, w2}
  Deal = {d1}
  LineItem = {l1}
  Token = {t1, t2, t3}
  None = None
  Stages = {"create", "update", "off"}
  Faults = {"crash", "raise", "release", "reply", "search", "limited", "reject", "orphan", "duplicate"}
  MaxEdits = 2
  MaxReceives = 2
INVARIANTS TypeOK SingleWriter EditsAccounted
PROPERTIES ImplementsRegister EventuallyAccounted MessagesSettle
CHECK_DEADLOCK FALSE
