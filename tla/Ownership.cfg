\* A program that calls functions: two frames, temporaries and copies.  A
\* loop of three turns.  Two paths, files of one character, two File values, one stream.
\* A module of two variables and three computed values alive at a time.
CONSTANTS
  Names = {x, e}
  ErrorNames = {e}
  FunctionNames = {e}
  ResultNames = {x}
  Cells = {c1, c2, c3}
  Literals = {}
  Empty = Empty
  Nil = Nil
  MaxDepth = 2
  MaxStack = 2
  LoopVariable = "i"
  OtherVariables = {"n"}
  MaxTurns = 3
  MaxAssigned = 1
  FileNames = {"a", "b"}
  Modes <- ModesTried
  Files = {1, 2}
  Inodes = {"i1", "i2"}
  Slots = {1}
  MaxLength = 1
  ModuleNames = {"p", "q"}
  Computed = {1, 2, 3}
SPECIFICATION PartsSpec
SYMMETRY Symmetry
CHECK_DEADLOCK FALSE
INVARIANTS
  OwnershipInv
  OperandsLive
  LastValueLive
  NothingLeaks
  LoopReadsLiveValues
  EndIsSeen
  ModuleKeepsItsValues
PROPERTY
  CharCountIsHarmless
