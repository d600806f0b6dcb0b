CONSTANTS
  A = A
  B = B
  C = C
  Plugins <- MCPlugins
  LowerStem <- MCLowerStem
  FullName <- MCFullName
  GameStates <- SortGames

SPECIFICATION Spec

\* Sort returns (or throws); the last state of a call is final.
CHECK_DEADLOCK FALSE

INVARIANTS
  TypeOK
  FailsOnlyOnHardCycle
  LoadOrderIsUnique
  ConsistentLoadOrderKept
  GlobalPriorityInherited
