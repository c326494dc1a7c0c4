SPECIFICATION InteractionsSpec
CONSTANTS
  Content <- Contents
  MaxRaise = 2
  MaxCrash = 1
  MaxKill = 1
PROPERTIES RetriedWasBlocked
CHECK_DEADLOCK FALSE
