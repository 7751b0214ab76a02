SPECIFICATION Spec
CONSTANTS
  Hierarchies <- MCHierarchies
  Paths <- MCPaths
  Root = "/"
  Colons <- MCColons
  MountTables <- MCWholeTables
  FileCounts <- MCFileCounts
  Absent <- MCAbsent
  IgnoreRootCgroups = TRUE
  MaxLife = 3
INVARIANT PathsComplete
