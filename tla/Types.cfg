\* Straight programs, programs with every construct, and programs with calls of
\* native functions.  Two chains of blocks outside of any other, two deep.
CONSTANTS
  Names = {x, y}
  Unnamed = Unnamed
  MaxStack = 3
  Imprecise <- Rounding
  Programs <- SmallPrograms
  ScopeVars = {"v", "w"}
  MaxDepth = 2
  MaxChains = 2
SPECIFICATION TypesSpec
SYMMETRY Symmetry
CHECK_DEADLOCK FALSE
INVARIANTS
  
  OuterUsesAreBound
PROPERTY
  FailuresNeedDisagreement
