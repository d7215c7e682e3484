SPECIFICATION FairSpec
CONSTANTS
  Name <- Names
  Slots <- TwoSlots
  Setups <- AllSetups
  None = None
INVARIANTS
  TypingGoesToTheField
PROPERTIES
  FormReleased
CHECK_DEADLOCK FALSE
