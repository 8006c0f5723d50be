------------------------------- MODULE Config -------------------------------
(***************************************************************************)
(* The two configuration backends: config_uci.cpp (OpenWrt) reads every     *)
(* section of the UCI package into one Config and goes on after an error,   *)
(* config_mini.cpp (plain Linux) takes the options of three INI sections in *)
(* order, each merged from all sections of its name, and throws at the first *)
(* invalid one.  main() refuses to start when either reports an error.      *)
(*                                                                          *)
(* An option is absent or has a value that is not empty; a number may be    *)
(* invalid text.  The four timeouts are one option here, so are the port    *)
(* and the observation domain of IPFIX, the protocol and the format of      *)
(* syslog, and host names and addresses of any content.                     *)
(***************************************************************************)
EXTENDS Integers, Sequences, SequencesExt, FiniteSetsExt

Absent == -1      \* a number that is not in the file
Invalid == -2     \* text that is not a number

\* A section of the file: a number is in it, or not, or is no number; "other" is
\* any other text; the options that are none of its type are absent.
Number == Nat \cup {Absent, Invalid}
Flag == {"absent", "on", "off", "other"}
Wire == {"absent", "known", "other"}   \* known: protocol udp, format json or logfmt
Section ==
    {s \in [type : {"main", "ipfix", "syslog", "other"},
            timeout : Number, max_flows : Number, interval : Number, track_drops : Flag,
            textfile : BOOLEAN, enabled : Flag, host : BOOLEAN, port : Number,
            wire : Wire] :
       /\ s.type # "main" => {s.timeout, s.max_flows, s.interval} = {Absent}
       /\ s.type \notin {"ipfix", "syslog"} => s.port = Absent}

\* It is there, or not, cannot be read, or cannot be parsed.
FileStates == {"ok", "missing", "unreadable", "garbled"}

Defaults ==
    [timeout |-> 300, interval |-> 20, max_flows |-> 0, track_drops |-> FALSE, textfile |-> FALSE,
     ipfix  |-> [enabled |-> FALSE, host |-> FALSE, port |-> 4739],
     syslog |-> [enabled |-> FALSE, host |-> FALSE, port |-> 514,
                 wire |-> "known"]]

InRange(v, hi) == v # Invalid /\ v <= hi

\* Missing -> default; present but invalid or out of range -> an error.
parse_uint(v, def, hi) ==
    [val |-> IF v # Absent /\ InRange(v, hi) THEN v ELSE def,
     ok  |-> v = Absent \/ InRange(v, hi)]

bool_option(v, fallback) == IF v = "on" THEN TRUE ELSE IF v = "off" THEN FALSE ELSE fallback

text_option(v, def) == IF v = "absent" THEN def ELSE v

\* Mutant: a number that parses clears the error of one that did not.
LastResult(err, rs) == ~rs[Len(rs)].ok

\* The numbers of a section are parsed one after the other; an error stays.
AnyError(err, rs) == err \/ \E i \in DOMAIN rs : ~rs[i].ok

----------------------------------------------------------------------------
(* config_uci.cpp *)

MainNumbers(s) ==
    <<parse_uint(s.timeout, 300, 86400), parse_uint(s.max_flows, 0, 1073741824),
      parse_uint(s.interval, 20, 86400)>>

\* A number that failed to parse leaves what an earlier section of the type has
\* set, except the timeouts.
main_section(cfg, s) ==
    LET n == MainNumbers(s) IN
    [cfg EXCEPT !.timeout = n[1].val,
                !.max_flows = IF n[2].ok THEN n[2].val ELSE @,
                !.interval = IF n[3].ok THEN n[3].val ELSE @,
                !.track_drops = bool_option(s.track_drops, FALSE),
                !.textfile = @ \/ s.textfile]

IpfixPort(s) == parse_uint(s.port, 4739, 65535)

ipfix_section(cfg, s) ==
    [cfg EXCEPT !.ipfix = [enabled |-> bool_option(s.enabled, FALSE),
                           host    |-> s.host,
                           port    |-> IF IpfixPort(s).ok THEN IpfixPort(s).val ELSE @.port]]

SyslogPort(s) == parse_uint(s.port, 514, 65535)

syslog_section(cfg, s) ==
    [cfg EXCEPT !.syslog = [enabled  |-> bool_option(s.enabled, FALSE),
                            host     |-> s.host,
                            port     |-> IF SyslogPort(s).ok THEN SyslogPort(s).val ELSE @.port,
                            wire     |-> text_option(s.wire, "known")]]

\* Sections of type obserwrt, exporter_ipfix and exporter_syslog; others are skipped.
fill_section(acc, s) ==
    CASE s.type = "main" ->
           [cfg |-> main_section(acc.cfg, s), err |-> AnyError(acc.err, MainNumbers(s))]
      [] s.type = "ipfix" ->
           [cfg |-> ipfix_section(acc.cfg, s), err |-> AnyError(acc.err, <<IpfixPort(s)>>)]
      [] s.type = "syslog" ->
           [cfg |-> syslog_section(acc.cfg, s), err |-> AnyError(acc.err, <<SyslogPort(s)>>)]
      [] OTHER -> acc

NoHost(cfg) == cfg.ipfix.enabled /\ ~cfg.ipfix.host

\* uci_err_label: every failure of uci_load but a missing file is fatal.
fatal(state) == state \notin {"ok", "missing"}

\* A missing file means defaults; one that cannot be read or parsed is an error.
uci_load_config(f) ==
    LET r == FoldLeft(fill_section, [cfg |-> Defaults, err |-> FALSE], f.sections) IN
    IF f.state # "ok" THEN [cfg |-> Defaults, err |-> fatal(f.state)]
    ELSE [r EXCEPT !.err = @ \/ NoHost(r.cfg)]

----------------------------------------------------------------------------
(* config_mini.cpp *)

Empty(type) ==
    [type |-> type, timeout |-> Absent, max_flows |-> Absent, interval |-> Absent,
     track_drops |-> "absent", textfile |-> FALSE, enabled |-> "absent", host |-> FALSE,
     port |-> Absent, wire |-> "absent"]

\* IniFile::decode opens a section of the same name again and overwrites a field
\* that is given again: the last value of an option is the one that is read.
LastGiven(f, type, opt) ==
    LET none == Empty(type)[opt]
        given == {i \in DOMAIN f.sections : f.sections[i].type = type /\ f.sections[i][opt] # none}
    IN IF given = {} THEN none ELSE f.sections[Max(given)][opt]

SectionOf(f, type) == [opt \in DOMAIN Empty(type) |-> LastGiven(f, type, opt)]

mini_config(s, i, y) ==
    LET n == MainNumbers(s) IN
    [timeout |-> n[1].val, max_flows |-> n[2].val, interval |-> n[3].val,
     track_drops |-> bool_option(s.track_drops, FALSE), textfile |-> s.textfile,
     ipfix  |-> [enabled |-> bool_option(i.enabled, FALSE), host |-> i.host,
                 port |-> IpfixPort(i).val],
     syslog |-> [enabled |-> bool_option(y.enabled, FALSE), host |-> y.host,
                 port |-> SyslogPort(y).val, wire |-> text_option(y.wire, "known")]]

\* Every option in turn; the first invalid one throws, and so does an enabled
\* IPFIX exporter without a collector at the end.
mini_parse(f) ==
    LET s == SectionOf(f, "main")
        i == SectionOf(f, "ipfix")
        y == SectionOf(f, "syslog")
        cfg == mini_config(s, i, y)
    IN IF \/ AnyError(AnyError(FALSE, MainNumbers(s)), <<IpfixPort(i), SyslogPort(y)>>)
          \/ NoHost(cfg)
       THEN [cfg |-> Defaults, err |-> TRUE]
       ELSE [cfg |-> cfg, err |-> FALSE]

\* A missing or unreadable file means defaults.
mini_load_config(f) ==
    IF f.state \in {"missing", "unreadable"} THEN [cfg |-> Defaults, err |-> FALSE]
    ELSE IF f.state = "garbled" THEN [cfg |-> Defaults, err |-> TRUE]
    ELSE mini_parse(f)

----------------------------------------------------------------------------
(* What the backends promise *)

\* The numbers a file may hold, and their limits.
Limits == [timeout |-> 86400, max_flows |-> 1073741824, interval |-> 86400, port |-> 65535]

Ipfixes(f) == {i \in DOMAIN f.sections : f.sections[i].type = "ipfix"}

\* A later section of the name gives the option again.
GivenAgain(f, i, opt) ==
    \E j \in DOMAIN f.sections :
      i < j /\ f.sections[j].type = f.sections[i].type /\ f.sections[j][opt] # Absent

\* In UCI every section counts by itself: every number in it is one, and in range,
\* and if the last exporter_ipfix enables IPFIX it has a collector.
AcceptableUci(f) ==
    /\ \A i \in DOMAIN f.sections, opt \in DOMAIN Limits :
         f.sections[i][opt] # Invalid /\ f.sections[i][opt] <= Limits[opt]
    /\ \A i \in Ipfixes(f) :
         (f.sections[i].enabled = "on" /\ ~f.sections[i].host) => \E j \in Ipfixes(f) : i < j

\* In INI the value given last counts, in whichever section of the name it is: only
\* a number that is given again may be invalid, and if the last value of enabled
\* enables IPFIX some [ipfix] section has a collector.
AcceptableIni(f) ==
    /\ \A i \in DOMAIN f.sections, opt \in DOMAIN Limits :
         \/ GivenAgain(f, i, opt)
         \/ f.sections[i][opt] # Invalid /\ f.sections[i][opt] <= Limits[opt]
    /\ \A i \in Ipfixes(f) :
         f.sections[i].enabled = "on" =>
           \/ \E j \in Ipfixes(f) : i < j /\ f.sections[j].enabled # "absent"
           \/ \E j \in Ipfixes(f) : f.sections[j].host

Acceptable(f, uci) ==
    f.state = "ok" /\ IF uci THEN AcceptableUci(f) ELSE AcceptableIni(f)
=============================================================================
