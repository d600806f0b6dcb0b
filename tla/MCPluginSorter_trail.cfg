CONSTANTS
  A = A
  B = B
  C = C
  D = D
  Plugins <- MCPlugins
  LowerStem <- MCLowerStem
  FullName <- MCFullName
  GameStates <- TrailGames

SPECIFICATION Spec

\* Sort returns (or throws); the last state of a call is final.
CHECK_DEADLOCK FALSE

INVARIANT
  BackCycleIsACycle
