CONSTANTS
  Calls = {c1, c2}
  Tables <- MCTables
  Width = 2
  None = None
SPECIFICATION Spec
INVARIANTS EmptySlotHasNoSize
CHECK_DEADLOCK FALSE
