\* A body on the line of its closing keyword.
CONSTANTS
  Openers = {"if"}
  Words = {"value"}
  MaxWords = 2
  MaxBlocks = 2
  Layout = "free"
SPECIFICATION Spec
CHECK_DEADLOCK FALSE
INVARIANTS
  WordsStayHome
