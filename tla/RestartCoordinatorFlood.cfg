SPECIFICATION Spec
CONSTANTS
  MaxBuild = 1
  MaxRequesters = 2
  MaxHealth = 2
INVARIANT
  OwedBuildHeld
