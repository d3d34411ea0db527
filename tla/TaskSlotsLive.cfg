SPECIFICATION FairSpec
CONSTANTS
  t1 = t1  t2 = t2  r1 = r1  r2 = r2
  Task <- TwoTasks
  Repo <- TwoRepos
  RepoOf <- OwnRepos
  MaxConcurrent = 1
  MaxPerRepo = 0
  MaxGen = 2
  MaxCommands = 1
  MaxBounces = 1
PROPERTIES ServedInTurn QueuedStarts AutoResumeDelivered
CHECK_DEADLOCK FALSE
