SPECIFICATION FairSpec
CONSTANTS
  Ops = {"upsert", "venue", "lines", "customer", "subsidiaries", "mapping", "contact"}
  MaxFaults = 8
  None = None
INVARIANTS TypeOK AckMeansDone RetriesExhausted
PROPERTY RetryConverges
