SPECIFICATION TrafficSpec
CONSTANTS
  k1 = k1
  k2 = k2
  c1 = c1
  c2 = c2
  s1 = s1
  s2 = s2
  s3 = s3
  fin = fin
  ack = ack
  None = None
  Keys = {k1}
  CPUs = {c1, c2}
  Slots = {s1, s2, s3}
  Sizes <- MCOneSize
  TcpFlags = {}
  Reserve = 0
  MaxParsed = 3
  MaxClock = 0
INVARIANT ExactAccounting
CHECK_DEADLOCK FALSE
