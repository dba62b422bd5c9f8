SPECIFICATION URISpec
CONSTANTS
  Alpha <- Letters
  Digit <- Digits
  Parts <- Proper
  Wild <- AnyText
  Reference <- References
  Start <- Roots4
  Segments <- Relative
  MaxText = 6
  Absent = Absent
  End = End
INVARIANTS PathFits
