SPECIFICATION FairSpec
CONSTANTS
  Body <- MCBody
  Junk = Junk
  Invalid = Invalid
  Config <- MCConfig
  Chunk = 2
  MaxPosts = 2
  MaxReceives = 2
  MaxFaults = 1
INVARIANTS TypeOK AnsweredMeansQueued RefusedMeansUntouched NothingVanishes RoutesAgree
PROPERTY Arrives
CHECK_DEADLOCK FALSE
