SPECIFICATION EdgeFairSpec
CONSTANTS
  MaxTurn = 3
  MaxSession = 3
  MaxStop = 1
  MaxConfigure = 1
  MaxCompact = 1
  MaxReset = 1
  MaxExit = 1
  MaxCodexTurn = 2
  MaxRuntime = 2
  MaxInterrupt = 1
  MaxCompaction = 1
  MaxClear = 1
  MaxChange = 1
  MaxChildExit = 1
  Sched = {1, 2}
  Due <- TwoDue
  Horizon = 2
  Midnight = 3
  MaxDown = 2
  MaxJump = 1
  MaxThrow = 1
INVARIANTS EngineIsAlone ServedByItsEngine ServedByItsClient SentExactlyOnce
PROPERTIES ResetChildIsAlone DueIsSettled
CHECK_DEADLOCK FALSE
