\* Programs that concatenate lists of computed elements.
CONSTANTS
  Scalars = {x}
  Lists = {l, m}
  Structs = {s, t}
  Cells = {c1, c2, c3, c4}
  Tables = {t1}
  Literals = {lit}
  Empty = Empty
  Nil = Nil
  Freed = Freed
  MaxStack = 2
  MaxItems = 2
  Sharing = {"concatenate"}
SPECIFICATION Spec
SYMMETRY Symmetry
CHECK_DEADLOCK FALSE
INVARIANTS
  NothingDangles
