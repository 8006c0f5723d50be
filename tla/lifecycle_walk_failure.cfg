SPECIFICATION Spec
CONSTANTS
  k1 = k1
  k2 = k2
  c1 = c1
  c2 = c2
  s1 = s1
  s2 = s2
  s3 = s3
  None = None
  Keys = {k1, k2}
  CPUs = {c1}
  Slots = {s1, s2}
  Sizes <- MCOneSize
  TcpFlags = {}
  Reserve = 0
  MaxParsed = 3
  MaxClock = 2
  ProtoOf <- MCProtoOf
  Removable <- MCInterfaces
  IfindexOf <- MCIfindexOf
  Timeouts <- MCShortTimeouts
  MaxWalkFails = 1
INVARIANT NoDoubleCount

