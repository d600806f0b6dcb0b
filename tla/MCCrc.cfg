CONSTANTS
  Width = 8
  RefPoly = 224
  BufferSize = 2
  Files <- MCFiles

SPECIFICATION Spec

\* GetCrc32 returns or throws; its last state is final.
CHECK_DEADLOCK FALSE

INVARIANTS
  TypeOK
  GetCrc32Correct

PROPERTIES
  GetCrc32Terminates
