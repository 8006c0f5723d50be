---------------------------- MODULE MCDropTracer ----------------------------
(* Two drop records of one device, with a reason the table knows and one it    *)
(* does not.                                                                  *)
EXTENDS DropTracer

CONSTANTS k1, k2, c1, c2, s1, s2

MCSizes == {OnePacket}
MCIfindexOf == [k \in Keys |-> 1]
MCNameOf == [k \in Keys |-> IF k = k1 THEN {"INHDR", "TTL"} ELSE {"OTHERHOST"}]
Setup(ipfix, syslog, metrics_, btf) ==
    [ipfix |-> ipfix, syslog |-> syslog, metrics |-> metrics_, btf |-> btf]
MCSetups == {Setup(TRUE, "remote", TRUE, FALSE), Setup(FALSE, "local", FALSE, TRUE)}
=============================================================================
