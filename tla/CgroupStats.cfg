SPECIFICATION StatsSpec
CONSTANTS
  Hierarchies <- MCHierarchies
  Paths <- MCPaths
  Root = "/"
  Colons = {}
  MountTables <- MCMountTables
  FileCounts <- MCFileCounts
  Absent <- MCAbsent
  IgnoreRootCgroups = FALSE
  MaxLife = 3
  Devices = {d1, d2}
  Kernels <- MCKernels
  Tuned <- MCTuned
  MaxIO = 2
  MaxLimit = 1
SYMMETRY DeviceSymmetry
INVARIANTS
  CommonMetadata
  SnapshotPaths
  DisturbedAlone
  TotalsAgree
  BytesAreOfCountedIOs
  LimitsAreReal
