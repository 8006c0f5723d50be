---------------------------- MODULE DropTracer ----------------------------
(***************************************************************************)
(* Drops from the kernel to the exporters: the tracer obserwrt_kfree_skb    *)
(* (bpf/obserwrt-drops.c) fills the LRU map obserwrt_drops on any CPU, and  *)
(* every lifecycle pass drains it with lookup-and-delete batches            *)
(* (Bpf::take_drops) and hands each record to the exporters (main.cpp).     *)
(*                                                                          *)
(* The tracer updates its map the way the classifier updates the flow map,  *)
(* so the map is that of FlowMap with drop keys for flow keys: stats.parsed *)
(* counts the drops that were parsed, and stats.flows_created (which the    *)
(* tracer does not keep) the inserts.                                       *)
(***************************************************************************)
EXTENDS FlowMap, Integers

CONSTANTS
    Devices,        \* ifindexes
    IfindexOf,      \* device of each drop key
    NameOf,         \* name of each key's drop reason in kernel BTF
    Setups,         \* configurations: exporters, metrics, whether BTF has the names
    MaxMarks,       \* bound: devices attached or detached
    MaxDrainFails,  \* bound: drains that BPF_MAP_LOOKUP_AND_DELETE_BATCH ends with an error
    MaxSendFails    \* bound: datagrams the sockets refuse

ASSUME DropTracerAssumption ==
    /\ IfindexOf \in [Keys -> Devices]
    /\ [f \in Fields |-> 1] \in Sizes
    /\ Setups \subseteq [ipfix : BOOLEAN, syslog : {"off", "local", "remote"},
                         metrics : BOOLEAN, btf : BOOLEAN]
    /\ {MaxMarks, MaxDrainFails, MaxSendFails} \subseteq Nat

VARIABLES
    setup,      \* the configuration of this run
    marked,     \* obserwrt_attached
    dropStats,  \* STAT_DROPS and STAT_DROPS_UNPARSED
    pass,       \* "idle", "drain", "export" or "report": the drop part of a pass
    left,       \* keys whose bucket the drain has not reached
    batch,      \* packets the running batch has removed from the map
    rows,       \* drop_keys/drop_vals: packets of each record handed over
    failures,   \* failed sends of each exporter's socket since they were taken
    errors,     \* total_errors_ of the metrics
    taken,      \* history: packets handed over by the drains, per key
    spoilt,     \* history: packets removed by a batch that then failed
    given,      \* history: packets in drop records, per exporter and key
    sendFails,  \* history: datagrams refused
    marks,      \* bound: attaches and detaches so far
    drainFails  \* bound: failed drains so far

tracerVars == <<setup, marked, dropStats, marks>>
passVars == <<pass, left, batch, rows, taken, spoilt, drainFails>>
exportVars == <<failures, errors, given, sendFails>>
vars == <<kernelVars, tracerVars, passVars, exportVars>>

Exporters == {"ipfix", "syslog"}
NoPackets == [k \in Keys |-> 0]
OnePacket == [f \in Fields |-> 1]

Init ==
    /\ KernelInit
    /\ setup \in Setups
    /\ marked = {}
    /\ dropStats = [drops |-> 0, unparsed |-> 0]
    /\ pass = "idle"
    /\ left = {}
    /\ batch = NoPackets /\ rows = NoPackets /\ taken = NoPackets /\ spoilt = NoPackets
    /\ failures = [e \in Exporters |-> 0]
    /\ errors = 0
    /\ given = [e \in Exporters |-> NoPackets]
    /\ sendFails = 0 /\ marks = 0 /\ drainFails = 0

----------------------------------------------------------------------------
(* The kernel: obserwrt_kfree_skb *)

\* Bpf::attach marks a device, Bpf::detach removes the mark; the records of a
\* detached device stay in the map for the next drain.
MarkDevice(i) ==
    /\ marks < MaxMarks
    /\ marks' = marks + 1
    /\ marked' = IF i \in marked THEN marked \ {i} ELSE marked \cup {i}
    /\ UNCHANGED <<kernelVars, setup, dropStats, passVars, exportVars>>

\* A drop on an observed device whose headers parse: counted, then looked up.
Kfree(c, k) ==
    /\ IfindexOf[k] \in marked
    /\ dropStats.drops < MaxParsed
    /\ Observe(c, k, OnePacket, {})
    /\ dropStats' = [dropStats EXCEPT !.drops = @ + 1]
    /\ UNCHANGED <<setup, marked, marks, passVars, exportVars>>

\* One that is not IPv4 or IPv6, or has no network header.
KfreeUnparsed(i) ==
    /\ i \in marked
    /\ dropStats.drops < MaxParsed
    /\ dropStats' = [drops |-> dropStats.drops + 1, unparsed |-> dropStats.unparsed + 1]
    /\ UNCHANGED <<kernelVars, setup, marked, marks, passVars, exportVars>>

\* The rest of a tracer run: the adds through the pointer, or the insert.
TracerStep ==
    /\ \E c \in CPUs : ClassifierStep(c)
    /\ UNCHANGED <<tracerVars, passVars, exportVars>>

----------------------------------------------------------------------------
(* Bpf::take_drops: the draining walk *)

\* Mutant: only the records of devices that are still observed.
ObservedBuckets == {k \in Keys : IfindexOf[k] \in marked}

\* The walk starts at the first bucket and covers the whole map.
AllBuckets == Keys

StartDrain ==
    /\ pass = "idle"
    /\ pass' = "drain"
    /\ left' = AllBuckets
    /\ rows' = NoPackets
    /\ UNCHANGED <<kernelVars, tracerVars, batch, taken, spoilt, drainFails, exportVars>>

\* Mutant: the walk looks up without deleting.
KeepEntry(k) == UNCHANGED <<flows, retired>>

DeleteEntry(k) == Unlink({k})

\* The batch reaches the bucket of k: the entry is copied and deleted under the
\* bucket's lock.  A CPU that holds its pointer goes on adding to it.
TakeBucket(k) ==
    /\ pass = "drain" /\ k \in left
    /\ left' = left \ {k}
    /\ batch' = [batch EXCEPT ![k] = InMap(k, "packets")]
    /\ DeleteEntry(k)
    /\ UNCHANGED <<values, cpu, clock, stats, owed, tracerVars, pass, rows, taken, spoilt,
                   drainFails, exportVars>>

Plus(a, b) == [k \in Keys |-> a[k] + b[k]]

\* The batch is handed over; past the last bucket (ENOENT) the walk is done.  A
\* bucket that does not fit the buffer (ENOSPC) is asked for again with a larger
\* one, and nothing was removed.
BatchEnd ==
    /\ pass = "drain"
    /\ left = {} \/ batch # NoPackets
    /\ rows' = Plus(rows, batch)
    /\ taken' = Plus(taken, batch)
    /\ batch' = NoPackets
    /\ pass' = IF left = {} THEN "export" ELSE pass
    /\ UNCHANGED <<kernelVars, tracerVars, left, spoilt, drainFails, exportVars>>

\* Mutant: a failed drain exports nothing.
RowsDiscarded == NoPackets

RowsKept == rows

\* The system call fails: what it had removed is not handed over, but the
\* batches before it are in the vectors.
BatchFail ==
    /\ pass = "drain"
    /\ drainFails < MaxDrainFails
    /\ drainFails' = drainFails + 1
    /\ spoilt' = Plus(spoilt, batch)
    /\ batch' = NoPackets
    /\ left' = {}
    /\ rows' = RowsKept
    /\ pass' = "export"
    /\ UNCHANGED <<kernelVars, tracerVars, taken, exportVars>>

----------------------------------------------------------------------------
(* The drop records: DropReasons, the exporters, the metrics *)

\* What status_for_name looks for in a reason's name, in the order of its tests,
\* with the forwardingStatus; a name is the set of the parts it has.
StatusTable ==
    <<[parts |-> {"NETFILTER", "TC_", "XDP"}, status |-> 130],
      [parts |-> {"RPFILTER"}, status |-> 140],
      [parts |-> {"NOROUTE"}, status |-> 131],
      [parts |-> {"CSUM"}, status |-> 134],
      [parts |-> {"PKT_TOO_BIG"}, status |-> 133],
      [parts |-> {"PKT_TOO_SMALL"}, status |-> 135],
      [parts |-> {"INHDR", "HDR_TRUNC", "BAD_EXTHDR", "INVALID_PROTO"}, status |-> 136],
      [parts |-> {"TTL", "HOP_LIMIT"}, status |-> 137],
      [parts |-> {"NEIGH_"}, status |-> 132],
      [parts |-> {"QDISC", "CPU_BACKLOG", "FULL_RING", "QUEUE_PURGE"}, status |-> 139],
      [parts |-> {"DEV_"}, status |-> 142]>>
DROP_UNKNOWN == 128

status_for_name(n) ==
    LET hits == {i \in DOMAIN StatusTable : StatusTable[i].parts \cap n # {}} IN
    IF hits = {} THEN DROP_UNKNOWN
    ELSE StatusTable[CHOOSE i \in hits : \A j \in hits : i <= j].status

\* DropReasons::lookup: without BTF names the status is unknown, yet a drop.
Lookup(k) == IF setup.btf THEN status_for_name(NameOf[k]) ELSE DROP_UNKNOWN

NoDelta == -1

\* make_record, and the fallback of the IPFIX encoder: a drop record comes
\* without a delta and carries its value.
RecordPackets(delta, packets) == IF delta # NoDelta THEN delta ELSE packets

\* What a collector counts as drops: records with a status of 128 or more.
Dropped(status, packets) == IF status >= 128 THEN packets ELSE 0

Active(e) == IF e = "ipfix" THEN setup.ipfix ELSE setup.syslog # "off"

\* Sends of an exporter that the socket refuses, of at most n.
Refused(e, n) ==
    \E m \in 0..n :
      /\ sendFails + m <= MaxSendFails
      /\ failures' = [failures EXCEPT ![e] = @ + m]
      /\ sendFails' = sendFails + m

\* metrics.observe, then the exporters: ipfix.emit only buffers the record,
\* syslog.emit calls syslog(3) or sends a datagram.
ExportRecord(k) ==
    /\ pass = "export" /\ rows[k] > 0
    /\ rows' = [rows EXCEPT ![k] = 0]
    /\ given' = [e \in Exporters |->
                   IF Active(e)
                   THEN [given[e] EXCEPT ![k] = @ + Dropped(Lookup(k), RecordPackets(NoDelta, rows[k]))]
                   ELSE given[e]]
    /\ Refused("syslog", IF setup.syslog = "remote" THEN 1 ELSE 0)
    /\ UNCHANGED <<kernelVars, tracerVars, pass, left, batch, taken, spoilt, drainFails, errors>>

\* ipfix.flush sends templates and records, in several datagrams.
Flush ==
    /\ pass = "export" /\ rows = NoPackets
    /\ pass' = "report"
    /\ Refused("ipfix", IF setup.ipfix THEN MaxSendFails ELSE 0)
    /\ UNCHANGED <<kernelVars, tracerVars, left, batch, rows, taken, spoilt, drainFails,
                   errors, given>>

\* Mutant: only the failures of the IPFIX socket are reported.
TakenIpfixOnly == failures["ipfix"]

TakenFailures == failures["ipfix"] + failures["syslog"]

\* take_failures of both exporters, which resets them, into record_errors.
Report ==
    /\ pass = "report"
    /\ pass' = "idle"
    /\ errors' = errors + IF setup.metrics THEN TakenFailures ELSE 0
    /\ failures' = [e \in Exporters |-> 0]
    /\ UNCHANGED <<kernelVars, tracerVars, left, batch, rows, taken, spoilt, drainFails,
                   given, sendFails>>

----------------------------------------------------------------------------

Pass ==
    \/ StartDrain
    \/ \E k \in Keys : TakeBucket(k)
    \/ BatchEnd
    \/ BatchFail
    \/ \E k \in Keys : ExportRecord(k)
    \/ Flush
    \/ Report

Next ==
    \/ \E i \in Devices : MarkDevice(i) \/ KfreeUnparsed(i)
    \/ \E c \in CPUs, k \in Keys : Kfree(c, k)
    \/ TracerStep
    \/ Pass

Spec == Init /\ [][Next]_vars

\* The lifecycle timer fires for ever, and a tracer run that started ends.
FairSpec == Spec /\ WF_vars(Pass) /\ WF_vars(TracerStep)

----------------------------------------------------------------------------
(* Properties *)

\* Every variable has its type, the tracer's map included.
TypeOK ==
    /\ KernelTypeOK
    /\ setup \in Setups
    /\ marked \subseteq Devices
    /\ dropStats \in [drops : Nat, unparsed : Nat]
    /\ pass \in {"idle", "drain", "export", "report"}
    /\ left \subseteq Keys
    /\ {batch, rows, taken, spoilt} \subseteq [Keys -> Nat]
    /\ failures \in [Exporters -> Nat]
    /\ errors \in Nat
    /\ given \in [Exporters -> [Keys -> Nat]]

\* "Drop records: drained per pass, so each covers the drops since the previous
\* one (no delta tracking)" (main.cpp:332-333): what the drains handed over, what
\* failing ones removed and what is still in the map never exceed the drops the
\* tracer counted and parsed (obserwrt-drops.c:148, 156), although a drain deletes
\* entries under CPUs that still add to them.
DropsNotInvented ==
    SumFunction([k \in Keys |-> taken[k] + spoilt[k] + batch[k] + InMap(k, "packets")])
      <= dropStats.drops - dropStats.unparsed

\* "A drain that fails partway has already removed what it returned from the
\* kernel map: export it regardless" (main.cpp:333-335): between passes every
\* packet handed over by a drain was given to every active exporter, in a record
\* the collector recognises as a drop (docs/design.md §7.1), also when the kernel's
\* reason names are not known and after failed drains.
DrainedIsExported ==
    pass = "idle" =>
      \A e \in Exporters, k \in Keys : Active(e) => given[e][k] = taken[k]

\* "Fold transport send failures (counted in the exporters' owned sockets) into
\* obserwrt_export_errors_total" (main.cpp:360-361): a refused datagram of either
\* exporter is reported or about to be, once.
FailuresReported ==
    setup.metrics => errors + failures["ipfix"] + failures["syslog"] = sendFails

\* A recorded drop is not left behind: once the drops stop, the map is drained
\* to the last record, after drains that failed and for devices detached since.
MapDrained == <>[](\A k \in Keys : ~Linked(k))
=============================================================================
