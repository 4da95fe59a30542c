\* Two units, the first of which the endpoint never takes; repeated runs.
SPECIFICATION FairSpec
CONSTANTS
  NumUnits = 2
  Hashes = {h1, h2}
  NoHash = NoHash
  Limits = {0}
  DryRuns = {FALSE}
  MaxUnits = 3
  Concurrency = 2
  MaxAttempts = 2
  Priced = TRUE
  Budget = 2
  Estimate = 1
  Costs = {1}
  MaxCost = 1
  Oversized = {1}
  Unloadable = {}
  Interrupts = {"cancel", "crash", "drift", "db"}
  MaxInterrupts = 2
PROPERTIES
  CancelledRunEnds
  RunEnds
  EveryUnitSettles
