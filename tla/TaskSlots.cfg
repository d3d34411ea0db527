SPECIFICATION Spec
CONSTANTS
  t1 = t1  t2 = t2  r1 = r1  r2 = r2
  Task <- TwoTasks
  Repo <- OneRepo
  RepoOf <- SameRepo
  MaxConcurrent = 2
  MaxPerRepo = 1
  MaxGen = 3
  MaxCommands = 2
  MaxBounces = 1
SYMMETRY Anyone
INVARIANTS TypeOK SlotHasOwner QueuedIsOwned AdmissionWithinCaps NoLostWakeup CoworkExclusive ResumingHasRun
PROPERTIES DrainAdmitsNothing ReleasedByOwnerOrState
CHECK_DEADLOCK FALSE
