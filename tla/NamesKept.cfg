SPECIFICATION NamesSpec
CONSTANTS
  Keys = {"a", "b", "1"}
  Column <- SharedColumn
  IndexOf <- Numbers
  Hashes = {1, 2, 3, 4, 5}
  Tables = {1, 2}
  Lists = {1}
  NoHash = 0
  MaxStores = 2
  MaxPath = 2
PROPERTIES OthersStay
CHECK_DEADLOCK FALSE
