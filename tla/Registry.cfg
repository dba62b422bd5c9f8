SPECIFICATION SomeSpec
CONSTANTS
  factory = factory
  language = language
  element = element
  hemp = hemp
  json = json
  test = test
  set = set
  plus = plus
  Hemp = {g, h}
  Thing <- Things
  Meta = factory
  Binds <- ModuleBinds
  Makes <- ConstructorMakes
  Own <- Builtin
  Wild <- Wildcards
  Autoload <- Loading
  Library <- Libraries
  Column <- Apart
  Buffer = {b1, b2}
  Keeps = {FALSE}
  Core = Core
  Null = Null
INVARIANT CodeLoaded
PROPERTIES OpenedOnce CallsEnd
CHECK_DEADLOCK FALSE
