------------------------------ MODULE MCAgent ------------------------------
(* Configuration files around a few that are accepted, kernels with and       *)
(* without BTF, collectors with two addresses.                                *)
EXTENDS Agent

File(state, sections) == [state |-> state, sections |-> sections]

MainSection(timeout, interval, drops, textfile_) ==
    [Empty("main") EXCEPT !.timeout = timeout, !.interval = interval, !.track_drops = drops,
                          !.textfile = textfile_]
IpfixSection(enabled, host, port) ==
    [Empty("ipfix") EXCEPT !.enabled = enabled, !.host = host, !.port = port]
SyslogSection(enabled, host, wire) ==
    [Empty("syslog") EXCEPT !.enabled = enabled, !.host = host, !.wire = wire]

\* The textfile and the interval come from different sections.
Mains == <<MainSection(60, Absent, "off", TRUE), MainSection(Absent, 0, "on", FALSE)>>
Ipfixs == {IpfixSection(e, h, p) : e \in {"on", "other"}, h \in BOOLEAN, p \in {Absent, 65536}}
NotAlone == {IpfixSection("on", FALSE, Absent), IpfixSection("on", TRUE, 65536)}
Syslogs == {SyslogSection("on", TRUE, w) : w \in {"other", "absent"}}

\* Numbers that are missing, no number, too large or 0; exporters on, off and with
\* a value that is neither, with and without a collector; sections twice, with the
\* invalid option first, where INI may overwrite it, or last.
Sections ==
    {<<MainSection(t, Absent, d, FALSE)>> : t \in {Invalid, 86400, 86401}, d \in {"on", "off"}}
    \cup {Mains \o <<IpfixSection("on", TRUE, Absent), SyslogSection("on", TRUE, "other")>>}
    \cup {<<IpfixSection("on", TRUE, Absent), y>> : y \in Syslogs}
    \cup {<<i, Empty("syslog")>> : i \in Ipfixs}
    \cup {<<i, j>> : i \in NotAlone, j \in Ipfixs}
    \cup {<<j, i>> : i \in NotAlone, j \in Ipfixs}
    \cup {<<MainSection(Invalid, Absent, "off", FALSE), MainSection(t, 20, "off", TRUE)>> : t \in {Absent, 60}}
    \cup {<<MainSection(60, Absent, "off", TRUE), MainSection(Invalid, Absent, "off", FALSE)>>}

MCFiles == {File("ok", s) : s \in Sections} \cup {File(st, <<>>) : st \in {"missing", "unreadable", "garbled"}}
MCKernels == [uci : BOOLEAN, btf : BOOLEAN] \ {[uci |-> FALSE, btf |-> FALSE]}
MCCandidates == SeqOf({"unusable", "usable"}, 2)
=============================================================================
