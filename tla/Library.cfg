SPECIFICATION LibrarySpec
CONSTANTS
  Char <- Chars
  RootOf <- TwoRoots
  Key <- ManyKeys
  Source <- Texts
  MaxKeys = 4
  Null = Null
  Letter = {"a", "b"}
  Word <- Words
  Value = {"x"}
  Offset <- Places
  Sizes = {0, 2}
  FirstSize = 1
  Nul = Nul
  Junk = Junk
  Missing = Missing
  Nothing = Nothing
  MaxSize = 4
  MaxLength = 3
  Alpha <- Letters
  Digit <- Digits
  Parts <- Proper
  Wild <- AnyText
  Reference <- References
  Start <- Roots4
  Segments <- Relative
  MaxText = 6
  Absent = Absent
  End = End
  Pointer = {1, 2, 3}
  Bytes = {1, 2}
  NoPointer = 0
  BlockSize = 2
  MaxTraces = 5
  Heap = {1, 2, 3, 4, 5, 6, 7, 8, 9, 10, 11, 12, 13, 14, 15, 16, 17, 18, 19, 20, 21, 22, 23, 24}
  NoBlock = 0
  Dialects <- SomeDialects
  Symbols <- GrammarSymbols
  Refused = {"nothing"}
  FirstKnown <- FromTheStart
  LaterKnown <- FromLanguages
  MaxErrors = 2
  MaxTold = 1
INVARIANTS ClosedMatchesLongest HoldsWhatWasPut SplitsInParts NothingIsLost TablesAreWhole ReportsWhatIsLive
PROPERTIES ReleasedOnce ResolvesAsRFC JoinsPaths
