SPECIFICATION Spec
CONSTANTS
  Urls <- MCUrls
  Corpora <- MCCorpora
  BatchSize = 2
INVARIANTS
  DocumentsAreWhole
  SkippedAreTold
  FileIsWhole
PROPERTIES
  QuietAfterAbort
  BuildEnds
CHECK_DEADLOCK FALSE
