SPECIFICATION Spec
CONSTANTS
  k1 = k1
  k2 = k2
  k3 = k3
  Table = {t, u}
  Key = {k1, k2, k3}
  Value = {v, w}
  HashOf <- Distinct
  Primes = {2, 3}
  Density = 0
  MaxSize = 4
  Null = Null
  Missing = Missing
INVARIANT ColumnsSound
PROPERTY ImplementsAbstractHash
SYMMETRY Symmetry
CHECK_DEADLOCK FALSE
