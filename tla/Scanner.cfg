SPECIFICATION FairSpec
CONSTANTS
  Texts <- AllTexts
  Dialects = {"tags", "plain"}
  InlineTags <- InlineTagsOfTT3
  OutlineTags <- OutlineTagsOfTT3
  Operators <- SomeOperators
  Spaces = {" ", "LF", "CR"}
  Digits = {"0", "1", "8"}
  Octals = {"0", "1"}
  Letters = {"a", "e", "i", "n", "q", "Q"}
  LF = "LF"
  CR = "CR"
  Dot = "."
  Exponent = "e"
  Underscore = "_"
  Hyphen = "-"
  Backslash = "BS"
  NewlineEscape = "n"
  MaxDigits = 2
INVARIANTS SourceCovered TagsFound StringsAsWritten
PROPERTY ScanEnds
