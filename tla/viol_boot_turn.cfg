SPECIFICATION EdgeSpec
CONSTANTS
  MaxTurn = 1
  MaxSession = 3
  MaxStop = 0
  MaxConfigure = 0
  MaxCompact = 0
  MaxReset = 0
  MaxAttach = 0
  MaxExit = 0
  MaxCodexTurn = 1
  MaxRuntime = 2
  MaxInterrupt = 0
  MaxCompaction = 0
  MaxClear = 0
  MaxChildExit = 0
  Sched = {1, 2}
  Due <- TwoDue
  Horizon = 2
  Midnight = 3
  MaxDown = 1
  MaxJump = 0
  MaxThrow = 0
INVARIANT BootSparesLiveTurns
CHECK_DEADLOCK FALSE
