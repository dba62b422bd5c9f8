SPECIFICATION ProgramsSpec
CONSTANTS
  StatusSize = 256
  MaxTests = 4
  NoPlan = NoPlan
  LF = "LF"
  CR = "CR"
  Blank = "SP"
  Start = "start"
  Stop = "stop"
  Test = "test"
  Expect = "expect"
  Error = "error"
  Digit = "9"
  Bad = "bad"
  Deadly = "dead"
  Hush = "hush"
  Message <- TheMessage
  Languages = {"tt3", "json"}
  Undefined = Undefined
  Commands = {"expr", "exprs", "data", "text", "test", "file", "help", "quit"}
  Scripts <- Files
  Sessions <- AllSessions
  TestModule = {TRUE, FALSE}
  Keys = {"a", "b", "1"}
  Column <- OwnColumns
  IndexOf <- Numbers
  Hashes = {1, 2, 3, 4, 5, 6}
  Tables = {1, 2}
  Lists = {1}
  NoHash = 0
  MaxStores = 2
  MaxPath = 3
  Templates <- CallTemplates
  NoScope = NoScope
  Objects = {1, 2}
  ElementNames <- Elements
  Symbols <- FirstElements
  Views = {"block", "minus"}
  TextViews <- NewViews
  TypeNames = {"Type1"}
  PerlTypes <- ScalarAndHash
  PerlContexts = {1}
  NoContext = NoContext
  NoView = NoView
  TypesReserved = 2
  TypesSize = 5
  ViewSize = 2
  Width = 32
  PointerSize = 2
  MaxUsers = 3
INVARIANTS TestsAsWritten ResultTells PromptIsClean ReadsBack CallsMean ViewsInPlace ValuesHaveTypes
PROPERTIES FailedStoresNothing
CHECK_DEADLOCK FALSE
