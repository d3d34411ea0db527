SPECIFICATION FairSpec
CONSTANTS
  c1 = c1  c2 = c2  o1 = o1  t1 = t1  t2 = t2  t3 = t3
  Client <- Callers
  Old <- Older
  Token <- Tickets
  Nobody = Nobody
  MaxBusy = 1
  Direct <- Server
  MaxForeign = 1
INVARIANTS RowHasLease NeverReaped HeadStays
PROPERTIES QueueIsFair QueueDrains
CHECK_DEADLOCK FALSE
