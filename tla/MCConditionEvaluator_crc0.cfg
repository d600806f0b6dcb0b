CONSTANTS
  p1 = p1
  p2 = p2
  t1 = t1
  LOOT = LOOT
  Names <- MCNames
  PluginNames <- MCPluginNames
  Loot <- LOOT
  DataFolders <- MCDataFolders
  Conds <- MCZeroConds
  Metadata <- MCMetadata

SPECIFICATION Spec

INVARIANT
  EvaluateMatchesSemantics
