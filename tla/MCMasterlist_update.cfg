CONSTANTS
  c0 = c0
  c1 = c1
  c2 = c2
  c3 = c3
  x0 = x0
  Commits <- MCCommits
  Parent <- MCParent
  Parses <- MCParses
  InitialTip = c2
  MaxPushes = 2
  MaxUpdates = 3
  NoCommit = NoCommit
  Attached = Attached
  Edited = Edited
  Partial = Partial

SPECIFICATION Spec

\* Update and the remote stop after their bounds; the client may stop calling.
CHECK_DEADLOCK FALSE

INVARIANTS
  TypeOK
  RollbackToNewestParsable
  ReportsDescribeLoadedMasterlist

PROPERTIES
  UpdateImplementsAtomicLoad
