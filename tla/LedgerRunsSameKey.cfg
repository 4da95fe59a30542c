\* One run after another, no ingest; two documents whose titles make one slug.
SPECIFICATION Spec
CONSTANTS
  NumUnits = 2
  Keys = {1}
  KeyOf <- OneKey
  Versions = {v1}
  Runs = {r1}
  Concurrency = 1
  NoHash = NoHash
  MaxDrifts = 0
PROPERTIES
  SettledUnitRests
