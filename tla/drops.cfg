SPECIFICATION FairSpec
CONSTANTS
  k1 = k1
  k2 = k2
  c1 = c1
  c2 = c2
  s1 = s1
  s2 = s2
  None = None
  Keys = {k1, k2}
  CPUs = {c1, c2}
  Slots = {s1, s2}
  Sizes <- MCSizes
  TcpFlags = {}
  Reserve = 0
  MaxParsed = 3
  MaxClock = 0
  Devices = {1}
  IfindexOf <- MCIfindexOf
  NameOf <- MCNameOf
  Setups <- MCSetups
  MaxMarks = 2
  MaxDrainFails = 1
  MaxSendFails = 1
INVARIANTS TypeOK DropsNotInvented DrainedIsExported FailuresReported
PROPERTY MapDrained
