CONSTANTS
  A = A
  B = B
  C = C
  Plugins <- MCPlugins
  LowerStem <- MCLowerStem
  FullName <- MCFullName
  GameStates <- MixedPriorityGames


SPECIFICATION Spec

\* Sort returns; the last state of a call is final.
CHECK_DEADLOCK FALSE

INVARIANTS
  LocalPriorityInherited
