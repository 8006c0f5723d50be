SPECIFICATION FairSpec
CONSTANTS
  MsgHdr = 20
  RecLen <- MCRecLen
  MAX_UDP = 1200
  Interval = 2
  SeqMod = 16
  TimeMod = 4
  Bursts = {0, 18}
  MaxRecords = 36
  MaxFails = 1
  MaxSteps = 1
  MaxRestarts = 1
  MaxInFlight = 1
INVARIANTS TypeOK SequenceCountsRecords DatagramsFit ErrorsAccounted TemplatesRecent
PROPERTY CollectorLearns
