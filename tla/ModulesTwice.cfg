\* Two files under one name.
CONSTANTS
  Names = {"x"}
  Paths = {"A", "B"}
  Programs <- SmallPrograms
  MaxLoads = 3
SPECIFICATION Spec
CHECK_DEADLOCK FALSE
INVARIANT
  LoadedOnce
