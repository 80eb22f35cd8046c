SPECIFICATION Spec
CONSTANTS
  Ops = {"customer"}
  MaxFaults = 3
  None = None
INVARIANT TransientPropagates
