SPECIFICATION FairSpec
CONSTANTS
  Dialects <- TwoDialects
  Texts <- FiveTexts
  Files <- OneFile
  FileTexts <- TwoTexts
  Empty = "empty"
  Ends <- Meaning
  Programs = {"files", "session"}
  MaxDocuments = 2
  MaxDepth = 2
  MaxInner = 1
  MaxContexts = 3
  None = None
CHECK_DEADLOCK FALSE
INVARIANT AnswersMatch
INVARIANT ScanStartsClean
PROPERTY CallsEnd
