\* Cancellation is the only interruption.
SPECIFICATION Spec
CONSTANTS
  NumUnits = 2
  Hashes = {h1}
  NoHash = NoHash
  Limits = {0}
  DryRuns = {FALSE}
  MaxUnits = 3
  Concurrency = 2
  MaxAttempts = 2
  Priced = TRUE
  Budget = 2
  Estimate = 1
  Costs = {1}
  MaxCost = 1
  Oversized = {}
  Unloadable = {}
  Interrupts = {"cancel"}
  MaxInterrupts = 1
INVARIANT
  ErrorIsRecorded
