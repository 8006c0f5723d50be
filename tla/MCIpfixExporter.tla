-------------------------- MODULE MCIpfixExporter --------------------------
(* Instances of IpfixExporter for TLC, with the record and datagram sizes of *)
(* the source: 17 IPv4 or 12 IPv6 records fill a datagram.                   *)
EXTENDS IpfixExporter

MCRecLen == [v4 |-> 67, v6 |-> 91]
=============================================================================
