CONSTANTS
  MaxId = 4
  MaxFile = 2
  Found <- NothingFound
SPECIFICATION Spec
PROPERTIES ForkKeepsPath
CHECK_DEADLOCK FALSE
