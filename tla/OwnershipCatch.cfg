\* A line may leave the error variable of a try as its result.
CONSTANTS
  Names = {x, e}
  ErrorNames = {e}
  FunctionNames = {}
  ResultNames = {x, e}
  Cells = {c1, c2, c3, c4}
  Literals = {}
  Empty = Empty
  Nil = Nil
  MaxDepth = 1
  MaxStack = 3
SPECIFICATION Spec
SYMMETRY Symmetry
CHECK_DEADLOCK FALSE
INVARIANTS
  LastValueLive
