CONSTANTS
  Ptrs <- MCPtrs
  Infos = {i1, i2}
  None = None
  Hash <- MCHash
  InitSize = 2
  MaxSize = 4
SYMMETRY InfoSymmetry
SPECIFICATION Spec
INVARIANTS TypeOK PathsOK CountExact GrowsOnlyWhenFull CopyOK
PROPERTIES GrowthKeepsRecords GrowthTracks ImplementsLedger
