SPECIFICATION Spec
CONSTANTS
  a = a  i = i  j = j
  Append <- OneAppend
  Interrupt <- OneInterrupt
  Run <- Runs
  NoRun = 0
  MaxClicks = 2
  MaxFaults = 1
  FixRounds = 1
  Recoveries = 1
  Misses = 1
  Passes = 1
  Resumer <- Resumers
  Nobody = 0
INVARIANT AcceptedWasRead
CHECK_DEADLOCK FALSE
