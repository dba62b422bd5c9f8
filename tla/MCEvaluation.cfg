SPECIFICATION Spec
CONSTANTS
  MaxHashes = 7
  MaxCalls = 5
  MaxErrors = 2
  Null = Null
  Block = Block
INVARIANTS ScopeMatchesCalls JumpsAreLive FreedExactlyOnce
CHECK_DEADLOCK FALSE
