---------------------------- MODULE MCLifecycle ----------------------------
(* Instances of Lifecycle for TLC: k1 is a TCP flow, k2 a UDP flow, on two   *)
(* interfaces.                                                               *)
EXTENDS Lifecycle, TLC

CONSTANTS k1, k2, c1, c2, s1, s2, s3

\* An ordinary packet and a super-packet of two segments; octets count in
\* units of the small packet.
MCSizes == {[f \in Fields |-> 1], [f \in Fields |-> 2]}
MCOneSize == {[f \in Fields |-> 1]}
MCProtoOf == [k \in Keys |-> IF k = k1 THEN 6 ELSE 17]
MCIfindexOf == [k \in Keys |-> IF k = k1 THEN 1 ELSE 2]

\* CPUs and slots are interchangeable.
Symmetric == Permutations(CPUs) \cup Permutations(Slots)

MCInterfaces == {1, 2}
MCUdpInterface == {2}

\* TCP flows outlive the run, UDP flows do not.
MCTimeouts == [tcp |-> MaxClock, udp |-> 0, icmp |-> 0, general |-> MaxClock]
\* Both kinds of flow may expire.
MCShortTimeouts == [tcp |-> 1, udp |-> 0, icmp |-> 0, general |-> 1]
=============================================================================
