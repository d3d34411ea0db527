SPECIFICATION Spec
CONSTANTS
  t1 = t1  t2 = t2  r1 = r1  r2 = r2
  Task <- OneTask
  Repo <- OneRepo
  RepoOf <- JustR1
  MaxConcurrent = 1
  MaxPerRepo = 0
  MaxGen = 3
  MaxCommands = 3
  MaxBounces = 0
PROPERTY CancelIsTerminal
CHECK_DEADLOCK FALSE
