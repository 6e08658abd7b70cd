\* A function, a loop and a try or an if, in any nesting.
CONSTANTS
  Programs <- PlainAndUnlined
  Shapes <- MixedShapes
  MaxJumps = 2
  MaxCalls = 2
  MaxTurns = 2
SPECIFICATION FairSpec
CHECK_DEADLOCK FALSE
INVARIANTS
  ReportedMeansUncaught
PROPERTIES
  JumpsLand
  Terminates
