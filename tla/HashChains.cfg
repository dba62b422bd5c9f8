SPECIFICATION FairSpec
CONSTANTS
  k1 = k1
  k2 = k2
  k3 = k3
  Table = {t, u, x}
  Key = {k1}
  Value = {v, w}
  HashOf <- Single
  Primes = {1, 2}
  Density = 1
  MaxSize = 2
  Null = Null
  Missing = Missing
PROPERTIES NearestWins FetchEnds
CHECK_DEADLOCK FALSE
