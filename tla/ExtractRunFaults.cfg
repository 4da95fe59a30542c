\* Three units, two workers, every kind of interruption.
SPECIFICATION Spec
CONSTANTS
  NumUnits = 3
  Hashes = {h1, h2}
  NoHash = NoHash
  Limits = {0, 1}
  DryRuns = {TRUE, FALSE}
  MaxUnits = 3
  Concurrency = 2
  MaxAttempts = 2
  Priced = TRUE
  Budget = 1
  Estimate = 1
  Costs = {1}
  MaxCost = 1
  Oversized = {}
  Unloadable = {1}
  Interrupts = {"cancel", "crash", "drift", "db"}
  MaxInterrupts = 2
SYMMETRY HashSymmetry
INVARIANTS
  TypeOK
  DoneIsExtracted
  InFlightIsPending
  SendsNeverBlock
  SpendBound
  CleanRunAccountsForAll
PROPERTIES
  CancelJudgesNothing
  ImplementsUnitLedger
  RunWindsDown
