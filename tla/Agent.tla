------------------------------- MODULE Agent -------------------------------
(***************************************************************************)
(* The process of main.cpp: what it sets up in which order and which of it  *)
(* may fail (configuration, exporters, BPF objects, netlink, timers), the   *)
(* part of the event loop that publishes the kernel's counters through      *)
(* Bpf::bpf_stats and Metrics::write, crashes, and restarts by the service  *)
(* manager.  Link events are in Reconcile, the flow part of a pass in       *)
(* Lifecycle, the drop part in DropTracer.                                  *)
(***************************************************************************)
EXTENDS Config, FiniteSets, FiniteSetsExt

CONSTANTS
    Files,         \* configuration files
    Kernels,       \* [uci, btf]: OpenWrt or plain Linux, with vmlinux BTF or without
    Candidates,    \* what getaddrinfo may return: sequences of how each address fares
    None,          \* nothing there
    MaxPackets,    \* bound: IP packets since the agent was started
    MaxFaults,     \* bound: calls that fail for no lasting reason
    MaxCrashes     \* bound: crashes

ASSUME AgentAssumption ==
    /\ Files \subseteq [state : FileStates, sections : Seq(Section)]
    /\ Kernels \subseteq [uci : BOOLEAN, btf : BOOLEAN]
    /\ {MaxPackets, MaxFaults, MaxCrashes} \subseteq Nat

VARIABLES
    kernel,    \* the system the agent runs on
    file,      \* its configuration file
    pc,        \* the next step of main(), or of the event loop
    cfg,       \* the configuration in force
    exporters, \* exporters that are up
    handles,   \* of the Bpf object: those of the TC object and of the tracer
    drops_active,
    tc,        \* obserwrt_stats: flows_created, parsed
    seen,      \* IP packets between STAT_PARSED and the end of the classifier, on any CPU
    stat,      \* stat[] of a pass
    metrics,   \* what the Metrics object holds
    tmp,       \* the temporary file: what is written of which rendering, or None
    textfile,  \* the Prometheus textfile, or None
    faults,    \* bound: failures so far
    crashes    \* bound: crashes so far

system == <<kernel, file>>
startup == <<cfg, exporters, handles, drops_active>>
classifier == <<tc, seen>>
publishing == <<stat, metrics, tmp, textfile>>
bounds == <<faults, crashes>>
vars == <<system, pc, startup, classifier, publishing, bounds>>

\* The two slots that are related, in the order of the enum bpf_stats goes by;
\* packets and bytes come before them, the drop tracer's two after them.
Slots == <<"flows_created", "parsed">>
NoCounts == [s \in {"flows_created", "parsed"} |-> 0]

TcHandles == {"obj", "flows", "stats", "devstats"}
TracerHandles == {"drops_obj", "attached", "drops", "prog_drop", "drop_link"}

\* A process that is not running: its maps and handles are gone, files stay.
Down ==
    /\ pc' = "exit"
    /\ cfg' = Defaults /\ exporters' = {} /\ handles' = {} /\ drops_active' = FALSE
    /\ tc' = NoCounts /\ seen' = 0
    /\ stat' = NoCounts /\ metrics' = NoCounts

Init ==
    /\ kernel \in Kernels /\ file \in Files
    /\ pc = "exit"
    /\ cfg = Defaults /\ exporters = {} /\ handles = {} /\ drops_active = FALSE
    /\ tc = NoCounts /\ seen = 0
    /\ stat = NoCounts /\ metrics = NoCounts
    /\ tmp = None /\ textfile = None
    /\ faults = 0 /\ crashes = 0

\* A call fails although nothing is wrong for good.
Fault == faults < MaxFaults /\ faults' = faults + 1

----------------------------------------------------------------------------
(* main(), up to the event loop *)

\* procd or systemd starts the agent (again).
Respawn ==
    /\ pc = "exit"
    /\ pc' = "config"
    /\ UNCHANGED <<system, startup, classifier, publishing, bounds>>

load_config(f) == IF kernel.uci THEN uci_load_config(f) ELSE mini_load_config(f)

LoadConfig ==
    LET r == load_config(file) IN
    /\ pc = "config"
    /\ ~r.err
    /\ cfg' = r.cfg
    /\ pc' = "syslog"
    /\ UNCHANGED <<system, exporters, handles, drops_active, classifier, publishing, bounds>>

\* "config load failed": fatal.
ConfigFails ==
    /\ pc = "config"
    /\ load_config(file).err
    /\ Down
    /\ UNCHANGED <<system, tmp, textfile, bounds>>

\* UdpClient::connect: the first address that gives a socket, bound to the
\* source address if one is configured.
Connects(addrs) == \E i \in DOMAIN addrs : addrs[i] = "usable"

\* SyslogExporter::init: local syslog(3) always works; what fails is only
\* logged, and the exporter stays off.
SyslogUp(addrs) ==
    /\ cfg.syslog.enabled
    /\ cfg.syslog.wire = "known"
    /\ cfg.syslog.host => Connects(addrs)

InitSyslog ==
    /\ pc = "syslog"
    /\ \E addrs \in Candidates :
         exporters' = exporters \cup IF SyslogUp(addrs) THEN {"syslog"} ELSE {}
    /\ pc' = "ipfix"
    /\ UNCHANGED <<system, cfg, handles, drops_active, classifier, publishing, bounds>>

\* The IPFIX socket must come up when the exporter is enabled.
ConnectIpfix ==
    /\ pc = "ipfix"
    /\ cfg.ipfix.enabled => \E addrs \in Candidates : Connects(addrs)
    /\ exporters' = exporters \cup IF cfg.ipfix.enabled THEN {"ipfix"} ELSE {}
    /\ pc' = "bpf"
    /\ UNCHANGED <<system, cfg, handles, drops_active, classifier, publishing, bounds>>

IpfixFails ==
    /\ pc = "ipfix" /\ cfg.ipfix.enabled
    /\ \E addrs \in Candidates : ~Connects(addrs)
    /\ Fault
    /\ Down
    /\ UNCHANGED <<system, tmp, textfile, crashes>>

\* Bpf::open_load: every map and program is found, sized and loaded.
OpenLoad ==
    /\ pc = "bpf"
    /\ handles' = TcHandles
    /\ pc' = "tracer"
    /\ UNCHANGED <<system, cfg, exporters, drops_active, classifier, publishing, bounds>>

\* Mutant: the map pointers into the closed object are kept.
CloseObjectOnly(hs) == hs \ {"drops_obj", "drop_link"}

close_drops(hs) == hs \ TracerHandles

\* What load_drops may hold when it gets as far as a step and the step fails;
\* "find" has looked up all four and misses at least one, stats if no other.
Held(step) ==
    LET found == {"attached", "drops", "prog_drop"} IN
    CASE step = "open" -> {{}}
      [] step = "find" -> {{"drops_obj"} \cup h : h \in SUBSET found}
      [] step \in {"reuse", "load", "attach"} -> {{"drops_obj"} \cup found}

\* Bpf::load_drops: without vmlinux BTF the object does not load.
LoadDrops ==
    /\ pc = "tracer" /\ cfg.track_drops /\ kernel.btf
    /\ handles' = handles \cup TracerHandles
    /\ drops_active' = TRUE
    /\ pc' = "netlink"
    /\ UNCHANGED <<system, cfg, exporters, classifier, publishing, bounds>>

NoTracer ==
    /\ pc = "tracer" /\ ~cfg.track_drops
    /\ pc' = "netlink"
    /\ UNCHANGED <<system, startup, classifier, publishing, bounds>>

\* Mutant: a tracer that does not load is fatal.
TracerFatal ==
    /\ pc = "tracer" /\ cfg.track_drops
    /\ IF kernel.btf THEN Fault ELSE UNCHANGED faults
    /\ Down
    /\ UNCHANGED <<system, tmp, textfile, crashes>>

\* A tracer that fails at any step is closed again, which costs only a warning.
TracerFails ==
    /\ pc = "tracer" /\ cfg.track_drops
    /\ \E step \in {"open", "find", "reuse", "load", "attach"} :
         /\ step = "attach" => kernel.btf
         /\ IF step = "load" /\ ~kernel.btf THEN UNCHANGED faults ELSE Fault
         /\ \E held \in Held(step) : handles' = close_drops(handles \cup held)
    /\ drops_active' = FALSE
    /\ pc' = "netlink"
    /\ UNCHANGED <<system, cfg, exporters, classifier, publishing, crashes>>

\* Reconcile::open, the startup dump, epoll and the two timers.
OpenNetlink ==
    /\ pc = "netlink"
    /\ pc' = "open"
    /\ UNCHANGED <<system, startup, classifier, publishing, bounds>>

\* open_load, Reconcile::open, the dump or a timer fails: fatal.
StartFails ==
    /\ pc \in {"bpf", "netlink"}
    /\ Fault
    /\ Down
    /\ UNCHANGED <<system, tmp, textfile, crashes>>

----------------------------------------------------------------------------
(* The classifier's counters *)

Attached == pc \in {"wait", "stats1", "stats2", "set", "open", "write", "rename"}

\* It is IP: STAT_PARSED before the flow is looked up.
ParsePacket ==
    /\ Attached /\ tc["parsed"] < MaxPackets
    /\ tc' = [tc EXCEPT !["parsed"] = @ + 1]
    /\ seen' = seen + 1
    /\ UNCHANGED <<system, pc, startup, publishing, bounds>>

\* Its flow is new, or not.
CreateFlow ==
    /\ seen > 0
    /\ tc' = [tc EXCEPT !["flows_created"] = @ + 1]
    /\ seen' = seen - 1
    /\ UNCHANGED <<system, pc, startup, publishing, bounds>>

PacketDone ==
    /\ seen > 0
    /\ seen' = seen - 1
    /\ UNCHANGED <<system, pc, startup, tc, publishing, bounds>>

----------------------------------------------------------------------------
(* The lifecycle timer: bpf_stats, then the metrics *)

LifeTimer ==
    /\ pc = "wait"
    /\ pc' = "stats1"
    /\ UNCHANGED <<system, startup, classifier, publishing, bounds>>

\* Mutant: the slots are read in the order of the published counters.
AsPublished(i) == <<"parsed", "flows_created">>[i]

SlotAt(i) == Slots[i]

\* One system call a slot; a failed lookup leaves 0.
ReadStat(i) ==
    /\ pc = <<"stats1", "stats2">>[i]
    /\ pc' = <<"stats2", "set">>[i]
    /\ \/ stat' = [stat EXCEPT ![SlotAt(i)] = tc[SlotAt(i)]] /\ UNCHANGED faults
       \/ stat' = [stat EXCEPT ![SlotAt(i)] = 0] /\ Fault
    /\ UNCHANGED <<system, startup, classifier, metrics, tmp, textfile, crashes>>

\* Mutant: the increase since the last pass.
Increase == [s \in DOMAIN stat |-> stat[s] - metrics[s]]

set_bpf == IF cfg.textfile THEN stat ELSE metrics

\* The end of the pass; stat[] is local to it.
SetMetrics ==
    /\ pc = "set"
    /\ metrics' = set_bpf
    /\ stat' = NoCounts
    /\ pc' = "wait"
    /\ UNCHANGED <<system, startup, classifier, tmp, textfile, bounds>>

----------------------------------------------------------------------------
(* The metrics timer: Metrics::write *)

\* Mutant: an interval of 0 disarms the timer.
IntervalAsConfigured == cfg.interval

metric_s == IF cfg.interval > 0 THEN cfg.interval ELSE 20

MeterTimer ==
    /\ pc = "wait"
    /\ metric_s > 0
    /\ pc' = "open"
    /\ UNCHANGED <<system, startup, classifier, publishing, bounds>>

\* The rendering goes to a truncated temporary file.
OpenTmp ==
    /\ pc = "open"
    /\ IF cfg.textfile
       THEN tmp' = [of |-> metrics, whole |-> FALSE] /\ pc' = "write"
       ELSE UNCHANGED tmp /\ pc' = "wait"
    /\ UNCHANGED <<system, startup, classifier, stat, metrics, textfile, bounds>>

\* The file cannot be opened: nothing is written this time.
OpenTmpFails ==
    /\ pc = "open" /\ cfg.textfile
    /\ Fault
    /\ pc' = "wait"
    /\ UNCHANGED <<system, startup, classifier, publishing, crashes>>

\* The loop of writes, which may take several.
WriteTmp ==
    /\ pc = "write"
    /\ tmp' = [tmp EXCEPT !.whole = TRUE]
    /\ pc' = "rename"
    /\ UNCHANGED <<system, startup, classifier, stat, metrics, textfile, bounds>>

\* Mutant: the file is renamed although a write has failed.
WriteFailsSilently ==
    /\ pc = "write"
    /\ Fault
    /\ pc' = "rename"
    /\ UNCHANGED <<system, startup, classifier, publishing, crashes>>

\* A write fails: the temporary file is removed.
WriteFails ==
    /\ pc = "write"
    /\ Fault
    /\ tmp' = None
    /\ pc' = "wait"
    /\ UNCHANGED <<system, startup, classifier, stat, metrics, textfile, crashes>>

RenameTmp ==
    /\ pc = "rename"
    /\ \/ textfile' = tmp /\ UNCHANGED faults
       \/ Fault /\ UNCHANGED textfile
    /\ tmp' = None
    /\ pc' = "wait"
    /\ UNCHANGED <<system, startup, classifier, stat, metrics, crashes>>

\* The process dies anywhere, with a temporary file half written.
Crash ==
    /\ pc # "exit"
    /\ crashes < MaxCrashes
    /\ crashes' = crashes + 1
    /\ Down
    /\ UNCHANGED <<system, tmp, textfile, faults>>

----------------------------------------------------------------------------

StartStep ==
    \/ Respawn
    \/ LoadConfig
    \/ InitSyslog
    \/ ConnectIpfix
    \/ OpenLoad
    \/ LoadDrops
    \/ NoTracer
    \/ TracerFails
    \/ OpenNetlink
StartFailure == ConfigFails \/ IpfixFails \/ StartFails
Life == LifeTimer \/ (\E i \in DOMAIN Slots : ReadStat(i)) \/ SetMetrics
Meter == MeterTimer \/ OpenTmp \/ OpenTmpFails \/ WriteTmp \/ WriteFails \/ RenameTmp
Classify == CreateFlow \/ PacketDone

Next == StartStep \/ StartFailure \/ Life \/ Meter \/ ParsePacket \/ Classify \/ Crash
Spec == Init /\ [][Next]_vars

\* The service manager restarts the agent and main() goes on; the event loop
\* serves both timers (an epoll set is served in turn); a classifier run ends.
FairSpec ==
    Spec /\ WF_vars(StartStep) /\ SF_vars(Life) /\ SF_vars(Meter) /\ WF_vars(Classify)

----------------------------------------------------------------------------
(* Properties *)

Running == Attached
Numeric == [DOMAIN NoCounts -> Nat]

\* Every variable has its type.
TypeOK ==
    /\ pc \in {"exit", "config", "syslog", "ipfix", "bpf", "tracer", "netlink"} \/ Attached
    /\ exporters \subseteq {"ipfix", "syslog"}
    /\ handles \subseteq TcHandles \cup TracerHandles
    /\ drops_active \in BOOLEAN
    /\ seen \in Nat
    /\ {tc, stat, metrics} \subseteq Numeric
    /\ \A f \in {tmp, textfile} \ {None} : f \in [of : Numeric, whole : BOOLEAN]

\* "a broken config doesn't silently start the daemon with defaults"
\* (config_uci.cpp:131-132), "present but invalid -> throw (fatal config error)"
\* (config_mini.cpp:53-54): the agent gets past load_config only with a file
\* that is acceptable, however many sections of a type it has.  On OpenWrt an
\* invalid option anywhere in it is fatal; on plain Linux one that is given again
\* later in the file does not count, since the INI parser overwrites it.  Both
\* take a missing file for defaults, and plain Linux one that cannot be read too.
RunsOnlyAcceptable ==
    pc \notin {"exit", "config"} =>
      \/ Acceptable(file, kernel.uci)
      \/ file.state = "missing"
      \/ file.state = "unreadable" /\ ~kernel.uci

\* Bpf::attach tests attached_ to decide whether to mark a device for the tracer
\* (bpf.cpp:244): once load() is through, the tracer's handles are there exactly
\* when it is active, and never point into an object that was closed again
\* (bpf.cpp:188-200).
TracerHandlesLive ==
    pc # "tracer" =>
      (handles \cap TracerHandles) = (IF drops_active THEN TracerHandles ELSE {})

\* "costs the tracer and never flow collection" (bpf.cpp:72-74): with an
\* acceptable configuration the agent comes up and stays up, whether or not the
\* kernel can load the tracer it asks for.
ComesUp == Acceptable(file, kernel.uci) => <>[]Running

\* "The file is rewritten atomically (temp + rename)" (metrics.hpp:5-6): a scrape
\* never finds part of a rendering, after failed writes and crashes included.
TextfileWhole == textfile # None => textfile.whole

\* "flows_created counts new flow inserts", "parsed counts the subset of packets
\* that entered flow accounting" (obserwrt-bpf.h:22-25): the counters are read one
\* by one while packets arrive, yet no published set has more flows created than
\* packets accounted, unless the lookup of the latter failed, which publishes 0
\* (bpf.cpp:513-517).
CreatedWithinAccounted ==
    (textfile # None /\ textfile.of["parsed"] # 0)
      => textfile.of["flows_created"] <= textfile.of["parsed"]

\* Once traffic stops, the textfile of an agent that has one shows the kernel's
\* counters, whatever interval is configured (main.cpp:254) and after failed
\* lookups, writes and renames.
EventuallyPublished ==
    (Acceptable(file, kernel.uci) /\ load_config(file).cfg.textfile)
      => <>[](textfile # None /\ textfile.of = tc)
=============================================================================
