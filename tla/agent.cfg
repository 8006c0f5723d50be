SPECIFICATION FairSpec
CONSTANTS
  None = None
  Files <- MCFiles
  Kernels <- MCKernels
  Candidates <- MCCandidates
  MaxPackets = 2
  MaxFaults = 2
  MaxCrashes = 1
INVARIANTS TypeOK RunsOnlyAcceptable TracerHandlesLive TextfileWhole
  CreatedWithinAccounted
PROPERTIES ComesUp EventuallyPublished
