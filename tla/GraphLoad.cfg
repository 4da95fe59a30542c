CONSTANTS
  None = ""
  Slugs = {"a", "b", "c", "d", "v", "w", "x"}
  NameKinds = {"variant", "alias", "translation", "other"}
  OtherKind = "other"
  Contradictory = {"contested", "abandoned_version"}
  Runs = {p, q}
  Units <- MCUnits
  Replies <- MCReplies
  Unstorable <- MCUnstorable
  Scheme <- MCScheme
  RelTypes = {"father_of"}
SPECIFICATION Spec
SYMMETRY Symmetry
INVARIANTS
  TypeOK
  IntegrityChecksPass
  CitedAsDemanded
  KeptIsLoadable
  RegisteredIsContested
  TraditionsStaySeparable
PROPERTIES
  ReloadChangesNothing
  ImplementsKnowledgeGraph
