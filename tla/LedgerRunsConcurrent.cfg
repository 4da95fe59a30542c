\* Two runs, two units with keys of their own, at most two ingests.
SPECIFICATION Spec
CONSTANTS
  NumUnits = 2
  Keys = {1, 2}
  KeyOf <- OwnKeys
  Versions = {v1, v2}
  Runs = {r1, r2}
  Concurrency = 2
  NoHash = NoHash
  MaxDrifts = 2
SYMMETRY Symmetry
INVARIANTS
  TypeOK
  DoneIsExtracted
PROPERTIES
  SettledUnitRests
