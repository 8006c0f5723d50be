SPECIFICATION Spec
CONSTANTS
  Packets <- MCPackets
  Cuts <- MCCuts
  MAX_EXT_HDR = 2
  MaxChain = 3
INVARIANTS TypeOK ParsesStructure OctetsOfSegments AccountedIsIp DropTupleAgrees
