\* The documented layout of blocks: functions, loops, branches and handlers, with
\* jumps.  Lines of three characters.  One to three documented statements, and any
\* five tokens of one topic.
CONSTANTS
  Openers = {"fun", "while", "if", "try"}
  Words = {"value", "signature", "break", "return"}
  MaxWords = 2
  MaxBlocks = 4
  Layout = "documented"
  Characters = {"0", "1", "7", "b", "x", "T", "_", "-", ".", "quote", "true", "int",
                ">", "=", "f", " ", "#", "{", "}"}
  MaxLength = 3
  MaxInt = 15
  MaxLong = 31
  Programs <- TokenPrograms
SPECIFICATION LexingSpec
CHECK_DEADLOCK FALSE
INVARIANTS
  WordsStayHome
  BehaviourDefined
  JumpsHaveATarget
  BlocksAsWritten
  LongestMatchWins
  NumbersAsWritten
  GrammarAccepted
  CallsAsWritten
  LinesRunAsAnalyzed
