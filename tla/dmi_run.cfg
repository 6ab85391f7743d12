CONSTANTS
  Calls = {c1, c2, c3}
  Tables <- MCTables
  Width = 2
  None = None
SPECIFICATION Spec
INVARIANTS TypeOK OneStickPerDevice KnownIsOwn SizesExact
SYMMETRY Symmetry
CHECK_DEADLOCK FALSE
