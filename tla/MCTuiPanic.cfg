SPECIFICATION Spec
CONSTANTS
  Name <- Names
  Slots <- TwoSlots
  Setups <- Lists1
  None = None
INVARIANTS
  NeverPanics
CHECK_DEADLOCK FALSE
