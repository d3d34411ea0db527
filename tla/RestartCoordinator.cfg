SPECIFICATION FairSpec
CONSTANTS
  MaxBuild = 3
  MaxRequesters = 3
  MaxHealth = 2
INVARIANTS
  TypeOK
  OwedBuildHeld
  NoOrphanedRow
  OneClaim
PROPERTIES
  RecoveryNeverRetried
  ImplementsPromise
  AcceptedBuildLands
CHECK_DEADLOCK TRUE
