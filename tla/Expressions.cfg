CONSTANTS
  IntBits = 7
  Programs <- MCPrograms
  Names <- MCNames
SPECIFICATION Spec
INVARIANT NoEmbrace
PROPERTY StatementMeans
CHECK_DEADLOCK FALSE
