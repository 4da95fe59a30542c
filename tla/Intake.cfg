\* One run after another, at most two revisions of one page and one of another.
SPECIFICATION Spec
CONSTANTS
  None = ""
  Reference = "wiki"
  Configured <- MCConfigured
  Policy <- Both
  MaxCandidates = 2
  MaxUnitChars = 2
  TierMax = 0
  ScoredChars = 1
  TitleWords <- MCTitleWords
  Slug <- MCSlug
  UrlKeys = {"url"}
  Types = {"father_of"}
  Aliases <- MCAliases
  Confidences = {"established", "derived_probable", "contested", "abandoned_version"}
  Slugs = {"c", "d", "v", "w"}
  NameKinds = {"variant", "alias", "translation", "other"}
  OtherKind = "other"
  Contradictory = {"contested", "abandoned_version"}
  Scheme <- MCScheme
  Documents <- MCDocuments
  Registries <- MCRegistries
  Texts <- MCTexts
  Unstorable <- MCUnstorable
  MaxAttempts = 2
  MaxRuns = 2
  Units <- UnitsEver
  Replies <- RepliesEver
INVARIANTS
  TypeOK
  OneUnitPerPage
  OffersAreBest
  CitesWithinTier
  InvalidLocatorsAreOffered
  UnmatchedFilesNothing
  EveryRecordHasReply
  SiblingsSurvive
PROPERTIES
  SkippedIsUnchanged
