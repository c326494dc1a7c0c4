SPECIFICATION InteractionsSpec
CONSTANTS
  Content <- Contents
  MaxRaise = 3
  MaxCrash = 2
  MaxKill = 1
INVARIANTS ApprovalsAreExact EveryRequestAnswerable
CHECK_DEADLOCK FALSE
