CONSTANTS
  n1 = n1
  n2 = n2
  r1 = r1
  c1 = c1
  c2 = c2
  t1 = t1
  v1 = v1
  v2 = v2
  Names = {n1, n2}
  RegexNames = {r1}
  Conds = {c1, c2}
  Tags = {t1}
  Views = {v1, v2}
  Holds <- MCHolds
  Matches <- MCMatches
  Files <- MCFiles
  AddInputs <- MCAddInputs
  MaxCalls = 4

SPECIFICATION Spec

\* The list may receive no further call; MaxCalls bounds how many it gets.
CHECK_DEADLOCK FALSE

INVARIANTS
  LoadFailureLeavesEmpty
