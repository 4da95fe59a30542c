\* No interruption at all; the database rejects the records of one unit.
SPECIFICATION Spec
CONSTANTS
  NumUnits = 2
  Hashes = {h1}
  NoHash = NoHash
  Limits = {0}
  DryRuns = {FALSE}
  MaxUnits = 3
  Concurrency = 2
  MaxAttempts = 2
  Priced = TRUE
  Budget = 2
  Estimate = 1
  Costs = {1}
  MaxCost = 1
  Oversized = {}
  Unloadable = {1}
  Interrupts = {}
  MaxInterrupts = 0
INVARIANT
  UnitFailureStaysInUnit
