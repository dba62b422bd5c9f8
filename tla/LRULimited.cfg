SPECIFICATION Spec
CONSTANTS
  Key = {a, b, c, d}
  Value = {v1, v2, v3, v4}
  Size = 3
  MaxSlots = 4
  Null = Null
  Missing = Missing
INVARIANTS ListIsRecency
PROPERTY ImplementsAbstractLRU
SYMMETRY Symmetry
CHECK_DEADLOCK FALSE
