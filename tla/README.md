# Formal models of obserwrt

obserwrt is a flow exporter for OpenWrt: TC eBPF classifiers account every
packet in an LRU hash map in the kernel, and a single-threaded agent attaches
the classifiers to devices, reads the map every five seconds, exports what
changed as IPFIX and syslog, and writes metrics. This directory holds TLA+
models of its core, the TLC configurations that check them, and TLAPS proofs.

Paths below are relative to the repository.

## 1. Inventory

| part | sources | state it keeps | operations |
|---|---|---|---|
| TC classifier | `bpf/obserwrt-bpf.c`, `.h`, `obserwrt-flow.h` | `obserwrt_flows` (LRU hash), `obserwrt_devstats`, `obserwrt_stats` | parse a packet, look the flow up, add to it or insert it |
| drop tracer | `bpf/obserwrt-drops.c`, `src/drop_reasons.cpp` | `obserwrt_drops`, `obserwrt_attached` | count a dropped packet by flow and reason; drained per pass |
| BPF control plane | `src/bpf.cpp` | `atts_` (two links per device), map handles | attach, detach, purge, batch walk, erase, read statistics |
| lifecycle | `src/lifecycle.cpp` | `last_`: counters at the previous pass, per flow | one pass: walk, delta, export, expire, prune |
| reconciliation | `src/reconcile.cpp`, `on_link` in `src/main.cpp` | netlink socket, `name_by_index` | startup dump, event dispatch, resync after an overrun |
| IPFIX exporter | `src/exporter_ipfix.cpp` | `seq_`, template timer, two record buffers | emit, flush (templates, chunking), failure count |
| syslog exporter | `src/exporter_syslog.cpp` | socket | one datagram per record |
| UDP client | `src/udp_client.cpp` | socket, `failures_` | connect, send, take_failures |
| metrics | `src/metrics.cpp`, `src/prometheus.cpp` | counters and gauges | setters, write a temporary file and rename it |
| configuration | `src/config_uci.cpp`, `src/config_mini.cpp`, `src/cli.cpp` | none after startup | parse |
| event loop | `src/main.cpp` | epoll set, two timers | netlink, lifecycle and metrics events, one at a time |

**How they interact.** The classifier runs on every CPU at any moment, also
while the agent reads the map: the flow map is shared memory without locks
except for the bucket locks of the batch operations. Everything in the agent is
one thread: an epoll event runs to its end before the next. The kernel talks to
the agent through one netlink socket with a bounded buffer, which carries both
notifications and dump replies. The lifecycle pass calls the exporters
synchronously; they send UDP datagrams and count failures, which the pass moves
to the metrics.

**What is hard.** Classifier runs of two CPUs on the same flow; reuse of a map
element under a CPU that still holds a pointer to it; a map walk that is no
snapshot; a flow that is evicted and created again between two passes; devices
that change while events about them are queued; lost notifications; an attach
that fails halfway; a crash; datagrams lost on the way; 32-bit counters and a
wall clock that is stepped. `PROJECT.json` lists each at its line under
`hazards`, with the properties that would notice it going wrong.

**What makes each part correct.**

- *Classifier:* every counted packet is in exactly one entry, an entry's
  counters never go back, nothing is invented.
- *Lifecycle:* the deltas of a flow add up to what was counted: never more,
  in the end not less; idle flows and only idle flows expire; the tracker does
  not leak.
- *Reconciliation:* the wanted devices, and only those, carry both hooks; what a
  detached device left is removed; names and marks agree with the links.
- *IPFIX:* sequence numbers count records, datagrams fit, the collector gets
  its templates, failures are accounted once.
- *Parser:* the key, the octets and the VLAN follow from the packet's structure,
  and no read leaves the part that was checked.
- *Drop tracer:* a drained drop reaches every exporter, once, as a drop.
- *Process:* it runs only with an acceptable configuration, comes up with one,
  and publishes a metrics file that is whole, consistent and up to date.

## 2. Modules

| module | models | composed of |
|---|---|---|
| `Parser` | `observe()` up to `STAT_PARSED`, `drop_parse()` | |
| `FlowMap` | `observe()` from `STAT_PARSED` on, and the LRU map | |
| `Lifecycle` | batch walk, `Lifecycle::run`, purge | extends `FlowMap`, implements `Accounting` |
| `Accounting` | what flow accounting promises a collector (abstract) | |
| `DropTracer` | `obserwrt_kfree_skb`, `take_drops`, the drop part of a pass, failure accounting of both exporters | extends `FlowMap` |
| `Reconcile` | netlink socket, dumps, `on_link`, attach and detach | |
| `IpfixExporter` | exporter, UDP socket, lossy network, collector | |
| `Config` | the two configuration backends, as operators | |
| `Agent` | `main()`: start, counters and textfile, crash and respawn | extends `Config` |
| `FlowMapProofs`, `LifecycleProofs`, `DropTracerProofs`, `ReconcileProofs`, `IpfixExporterProofs`, `ParserProofs`, `AgentProofs` | theorems | extend the module they are about; `LifecycleProofs` and `DropTracerProofs` also `FlowMapProofs` |
| `ProofFacts` | lemmas about remainders, least elements and finite sums | |
| `MC*` | instances for TLC | extend the module they instantiate |

### Parser

A packet is a structure: framing with tags, an IP header, extension headers, a
transport header, GSO segments, padding, and the length of its linear part
(`cap`). The parser sees offsets only: `HeaderAt`, `VersionAt` and `L4At` return
noise at an offset where no header starts, so a wrong offset shows. The parts of
`observe()` are the actions (`LinkLayer`, `Ipv4`, `Ipv6`, the four ends of a round
of the extension-header walk, `Transport`, `Account`); `pkt_class`, `outer_vlan`,
`ext_next` and `drop_parse` are operators. The properties compare what is
accounted with definitions over the structure (`Accountable`, `Walked`,
`OutermostVid`) that do no offset arithmetic. `Accountable` has three parts:
`ProperIp`, IP that is not malformed, behind framing the program supports; and
the two kinds of proper packets that the code returns early all the same,
`EndsInNoNext` and those without `HeadersLinear` (section 4 says what the
sources say of them). `Skb` and `WellFormed` say what a packet is: header sizes
that an octet of Hdr Ext Len can express, extension headers in IPv6 only and
leading to a protocol that is none, and several segments only of whole datagrams,
of any transport. The octets of SCTP and tunnelled super-packets are not part of
`OctetsOfSegments`: the code re-adds their IP headers only, and the sources speak
of TCP and UDP. Addresses and port values are left
out: they are read at fixed offsets of a header once that is found.

### FlowMap

A map entry is a *slot*: a preallocated element, linked under a key (`flows`).
`count`, `last_seen` and `tcp_flags` belong to the slot, not to the key, because
a CPU adds through a pointer and nothing stops the kernel from unlinking the
slot meanwhile. Each CPU is a small program counter: `Observe` (count as parsed,
look up), then on a hit `AddPackets`, `AddBytes`, `StoreFlags`, `StoreSeen`, and
on a miss `Insert`, which replaces an entry that another CPU inserted since
(`BPF_ANY`), or `InsertFail`. The load and the store of `tcp_flags |= tcpf` are
separate. `Shrink` is the LRU list giving up an entry when no free element is
left (external, kernel); `Reserve` allows for elements that sit in other CPUs'
free lists. `Parser` models what comes before; here a key, a size (GSO
segments and octets) and flags are chosen. `retired` and `owed` are history.

### Lifecycle

`StartPass` samples `now`; the walk visits the keys in any order (`WalkMiss`,
`CopyPackets`, `CopyRest`); the bucket lock keeps an entry linked while it is
copied, but its counters move between the two copy steps. `WalkFail` is an error
of `BPF_MAP_LOOKUP_BATCH`: the loop runs over what was read, because
`BpfFlowMap::reset` ignores the result. `Expire` and `Refresh` are the two
branches of the loop body, whole: delta, tracker, callback, deletion. `EndPass`
prunes the tracker. `Purge` is `purge_ifindex` after a detach; it runs between
passes (one thread) and no classifier of the device runs any more (the hooks are
gone). One key is one bucket. `exported` is history: the sum of deltas handed to
the exporters. Counters are unbounded naturals: 64-bit wrap is out of reach of a
device's lifetime, and the `int64_t` casts of `lifecycle.cpp:65` are exact below
2^63.

`Accounting` has one counted and one exported total per key and field: the first
grows, a report moves the second towards the first. `AccountingRefined` maps
`counted` to what is in the map plus what left it, and says that every step of
the detailed system is a step of one key's totals or a stutter: eviction,
replacement, a purge, expiry and a pruned tracker must all be invisible.

### DropTracer

The tracer uses its map as the classifier does, so `FlowMap`'s slots and CPU
steps are reused with drop keys. `MarkDevice` is the attached mark, `Kfree` and
`KfreeUnparsed` a drop on a marked device. A drain is `StartDrain`, `TakeBucket`
(copy and delete under the bucket lock), `BatchEnd` (hand over) or `BatchFail`:
what the failing call had removed is gone (`spoilt`), earlier batches are still
exported. `ExportRecord` is the loop of `main.cpp:343`: reason to
forwardingStatus (`status_for_name`, in the order of its tests), the record
without a delta, and both exporters: IPFIX buffers, syslog sends at once. `Flush`
sends what IPFIX buffered, `Report` takes the failures of both sockets.

### Config and Agent

A file is a sequence of sections of options, an option absent, invalid, out of
range or a value. `uci_load_config` reads every section of a type in turn and
keeps going after an error. `mini_load_config` reads what the vendored INI parser
made of the file: sections of one name are merged, and of an option given
several times the last value is kept (`LastGiven`, `vendor/inifile/inifile.hpp`
at 443, 661 and 714). `Acceptable` is the reference. In UCI every section counts by
itself: every number in it is valid, and if the last `exporter_ipfix` enables IPFIX
it has a collector. In INI the value given last counts: an invalid number is
acceptable exactly if a later section of the name gives that option again. The
protocol and the format of syslog are one option (`wire`) that decides whether
the exporter comes up. `Agent` takes the steps of `main()` in order, each of
which may fail, fatally (`ConfigFails`, `IpfixFails`, `StartFails`) or not
(`InitSyslog`, `TracerFails` with whatever handles were found by then). In the
loop, `ReadStat` reads one counter per system call while packets go on
(`ParsePacket`, `CreateFlow`, `PacketDone`), and `OpenTmp`, `WriteTmp`, `RenameTmp`
and their failures are `Metrics::write`. Only `flows_created` and `parsed` are
modelled of the counters: the two that one packet increments and that are
related. `Down` is the end of the process; files stay. Link events are in
`Reconcile`, the rest of a pass in `Lifecycle` and `DropTracer`.

### Reconcile

`dev` is the kernel's truth; `queue` the socket, with `QueueCap` messages. A
notification that finds it full raises `overrun` (ENOBUFS, reported once) and
puts the socket in the congested state, in which the kernel drops silently until
the queue was empty. A dump lists each device as it is at that moment, in any
order, and waits for room. `on_link` is `OnLink` (the decision) followed by the
calls it makes as separate steps (`AttachIn`, `AttachEg`, `DetachLinks`,
`DetachCleanup`), because devices and traffic go on in between. `StartupOverrun`
exits the agent, `LoopOverrun` starts a resync, `ResyncOverrun` ends it with its
result ignored. While an older dump is still being answered the kernel refuses the
new one, but its refusal is lost: the socket is congested when an overrun is
reported (`OverrunAlwaysQueued`). The agent then takes the end of the older dump
for its own. A message is one datagram, and framing (`eth`) is left out. `flowDevs` and `statDevs` are the
devices with entries in the flow and device-counter maps. `Crash` and `Respawn`
clear everything the process owns. History: `lost` (this run of the agent lost
a notification or was refused a hook) and `leftover` (counts a failed call left).

### IpfixExporter

A pass (`StartPass`) samples the export time and emits `n4` and `n6` records
(calls of `emit`, between which nothing else touches the exporter);
`FlushTemplates`, `FlushChunk` per datagram, `FlushSetDone` and `Account` are the
rest of the pass. `SendTaken` and `SendFails` are the outcomes of `sendto`; a
taken datagram may be lost. The network is a set, so order is arbitrary, and a
template datagram may be delivered twice. Time is the wall clock modulo
`TimeMod`, one unit per lifecycle period, stepped by `StepClock`. A record is
its place in the stream; field encoding and timestamps are left out.

## 3. Runs

| run | instance | result |
|---|---|---|
| `flowmap_create_race` | 1 key, 2 CPUs, 3 slots | `ExactAccounting` violated |
| `flowmap_flags_race` | the same, with two flag bits | `FlagsUnion` violated |
| `lifecycle` | 2 keys (TCP, UDP), 2 CPUs, 2 slots, 3 packets, GSO sizes 1 and 2, clock to 2 | `TypeOK`, `IInv`, `NoDoubleCount`, `NoOvercount`, `ExportsGrow`, `CountersMonotone`, `ExpiredWasIdle`, `AccountingRefined` hold |
| `lifecycle_live` | 2 keys, 1 CPU, 2 packets, 1 failing walk, fairness | `Delivered`, `IdleFlowExpires`, `TrackerForgets` hold |
| `lifecycle_walk_failure` | 1 CPU, 1 failing walk | `NoDoubleCount` violated |
| `reconcile` | 1 device, 3 names (2 match), queue of 2, 5 changes, 1 crash, failing calls, fairness | `TypeOK`, `NoForeignHook`, `NoOrphans`, `BooksAgree`, `Converges` hold |
| `reconcile_overrun` | 1 device, queue of 2, 4 changes, fairness | `StaleAttachmentDropped` violated |
| `ipfix` | bursts of 0 or 18 records, 36 in all, real sizes, 1 failure, 1 clock step, 1 restart, fairness | `TypeOK`, `SequenceCountsRecords`, `DatagramsFit`, `ErrorsAccounted`, `TemplatesRecent`, `CollectorLearns` hold |
| `parser` | some 390 thousand states over every framing and datagram of `MCParser`, `MAX_EXT_HDR = 2`, chains of up to 3 | `TypeOK`, `ParsesStructure`, `OctetsOfSegments`, `AccountedIsIp`, `DropTupleAgrees` hold |
| `parser_padding` | the same packets | `OctetsAreL3` violated |
| `drops` | 2 keys, 2 CPUs, 2 slots, 1 device, 3 drops, 2 marks, 1 failed drain, 1 refused send, fairness | `TypeOK`, `DropsNotInvented`, `DrainedIsExported`, `FailuresReported`, `MapDrained` hold |
| `agent` | both backends, files with repeated sections, with and without BTF, 2 packets, 2 faults, 1 crash, fairness | `TypeOK`, `RunsOnlyAcceptable`, `TracerHandlesLive`, `TextfileWhole`, `CreatedWithinAccounted`, `ComesUp`, `EventuallyPublished` hold |

Every property has a mutant, an operator next to the definition it replaces
(marked "Mutant" in the modules), with which TLC finds it violated. Run one with
`tlc -config lifecycle.cfg MCLifecycle`.

**Why the bounds suffice.** *lifecycle:* two keys on two slots make a
slot change hands under a CPU, eviction happens when both are linked, and two
CPUs make every race of two runs; a third packet makes a flow come back after
it was evicted or purged. The `lifecycle` run uses symmetry over the CPUs and
over the slots, which nothing but their identity tells apart, and checks no
liveness with it. Clock values 0 to 2 separate "before now", "at now" and
"after now". *reconcile:* all state is kept per ifindex, and events of other
devices only add queue positions, so one device with long histories (down,
delete, recreate, up, rename) reaches more than two devices with short ones; a
queue of two is full both of notifications and of dump replies. *ipfix:* 18
records are one more than an IPv4 datagram holds (17) and two IPv6 datagrams
(12 and 6); `SeqMod = 16` makes the sequence wrap inside a pass, and a clock of
four periods with an interval of two wraps every four passes. *parser:* a limit of
two with chains of three makes the walk run out in front of an extension header
of every kind; the linear part ends one octet before, at and after every header
edge; every framing meets plain datagrams and every datagram meets three
framings, because the two are parsed independently. Octets are naturals: at most
65535 segments of a few hundred octets of headers stay below 2^32. *drops:* as for
the flow map, with a failing drain before or after a good one, and a device that
is detached while its records are in the map. *agent:* two packets let a counter
read late exceed one read early; two faults and a crash reach every failed call
followed by another, in the same run of the process or the next.

**Deadlock** is checked in `lifecycle*`, `ipfix`, `parser`, `drops` and `agent`. The kernel alone stops when
its packet budget is used up, and the reconciler waits when nothing changes any
more, so the two `flowmap_*` runs and `reconcile*` switch the check off.

**Fairness.** `Lifecycle`: weak fairness of the agent's pass (its timer is in
the epoll loop and no handler blocks), of a classifier run once it started (eBPF
programs terminate), and of time. Walk failures are bounded in number: if every
walk failed no pass would see the map. `Reconcile`: weak fairness of the agent
(the socket is in the epoll loop; the receive loop of a dump spins until it
ends), of the kernel's dump replies, and of the respawn (`procd_set_param respawn
3600 5 5`, which gives up after five quick failures: more than the model's
crashes; systemd's unit restarts the agent as well). `IpfixExporter`: weak
fairness of the pass and of time, and strong fairness of a template datagram
being accepted by the network and received: the network does not lose all of
them. `DropTracer`: weak fairness of the pass and of a tracer run that started.
`Agent`: weak fairness of the start (the same respawn; failures are bounded in
number) and of a classifier run, and strong fairness of both timers: the loop is
shared, so serving one disables the other for a while, and an epoll set is served
in turn.

## 4. What the violations show

- `flowmap_create_race`: two CPUs see the first packets of a flow at the same
  time. Both miss, both insert with `BPF_ANY`; the second replaces the first and
  its count leaves the map. README.md:23 promises "exact accounting".
- `flowmap_flags_race`: `tcp_flags |= tcpf` loses a flag between two CPUs; the
  comment beside it says "union of observed flags".
- `lifecycle_walk_failure`: the result of a failed batch walk is ignored, the
  tracker forgets flows the walk did not reach, and the next pass exports their
  whole counters again; docs/design.md:283-284 says the collector is not
  double-counted.
- `reconcile_overrun`: after an overrun that swallowed a DELLINK the resync never
  mentions the device, so its attachment, name and counters stay for ever (its
  flows leave by their idle timeout); main.cpp:297-299 and docs/design.md:238 say
  otherwise.
- `parser_padding`: `skb->len` of a short Ethernet frame includes the padding up to
  the minimum frame size, and so do the flow's octets. obserwrt-bpf.c:21-23 and
  docs/design.md:275-276 say "IP header + payload, as IPFIX octetDeltaCount".
  `OctetsOfSegments` is about packets without padding; the drop tracer's octets do
  not include it.

One further disagreement is stated in `ParsesStructure` instead of being refuted
by a run of its own. obserwrt-bpf.h:24-25 says that the accounted packets are "all
IP, incl. non-first fragments and non-TCP/UDP/ICMP protocols, but excluding ARP /
non-IP / malformed", and docs/design.md:487-489 says "all IP". Two kinds of packets
that are IP and not malformed are not accounted: IPv6 packets that end in "no next
header" (obserwrt-bpf.c:325-326), and packets with a header, or the part of the
transport header that is read, outside the linear part of the skb, for which the
code pulls no data. The property says that these two are all: every other proper
packet is accounted, and nothing else is.

Smaller things met while modelling, which the properties allow for and no run
refutes: the counters of a textfile are read one after the other, so
accounted packets may exceed the packets seen; a counter whose lookup fails is
published as 0; the plain-Linux backend takes a file it cannot open for a missing
one, and starts with an invalid option that a later section of the name gives again
(`[main] tcp_timeout=abc`, then `[main] tcp_timeout=60`), where UCI refuses both; a
batch that fails in a drain has already removed records nobody gets.

## 5. Proofs

Every safety property that a passing run checks, invariants and action
properties alike, is also a theorem, for every value of the constants: any number
of keys, CPUs, slots, devices, packets, sections, records, failures and crashes
(the bounds of the runs are arbitrary naturals here).

| module | theorem | says | from |
|---|---|---|---|
| `FlowMapProofs` | `KernelTypeCorrect` | `KernelSpec => []KernelTypeOK` | one lemma per classifier step |
| | `CountersOnlyGrow` | `KernelSpec => CountersMonotone` | the types; an insert takes a free slot, so it never rewrites a linked one |
| | `NeverOvercounts` | `KernelSpec => []NoOvercount` | what is linked, retired and about to be added never exceeds `parsed`, as a sum over keys and CPUs |
| `LifecycleProofs` | `TypeCorrect` | `Spec => []TypeOK` | the kernel's lemmas, one per agent step |
| | `DeltasNeverNegative` | `Spec => ExportsGrow` | `Delta` is a natural number |
| | `DeltaInvariant` | no walk failures: `Spec => []IInv` | see below |
| | `NeverDoubleCounts` | no walk failures: `Spec => []NoDoubleCount` | `DeltaInvariant` |
| | `NoFalseExpiry` | `Spec => ExpiredWasIdle` | `passNow <= clock` during a pass, and the saturating age |
| | `ImplementsFlowMap` | `Spec => KernelSpec` | beside the kernel's steps, the agent only deletes from the map |
| | `PassesNeverOvercount`, `PassesKeepCounters` | `Spec => []NoOvercount`, `Spec => CountersMonotone` | `ImplementsFlowMap` and the two theorems about `KernelSpec` |
| | `ImplementsAccounting` | no walk failures: `Spec => AccountingRefined` | `DeltaInvariant`: each step moves the totals of one key, or none |
| `DropTracerProofs` | `TypeCorrect`, `NeverInventsDrops`, `DrainedAlwaysExported`, `FailuresAlwaysReported` | the four invariants of the run | the kernel's lemmas and the tracer's `IInv` |
| `ReconcileProofs` | `TypeCorrect`, `NeverForeignHook`, `NeverOrphans`, `BooksAlwaysAgree` | the four invariants | `IInv`, per device |
| | `OverrunAlwaysQueued` | a pending overrun means a congested socket with messages queued | the socket's steps |
| `IpfixExporterProofs` | `TypeCorrect`, `SequenceAlwaysCounts`, `DatagramsAlwaysFit`, `ErrorsAlwaysAccounted`, `TemplatesAlwaysRecent` | the five invariants | `IInv`, remainders |
| `ParserProofs` | `TypeCorrect`, `AlwaysParsesStructure`, `SegmentsAlwaysCounted`, `AccountedAlwaysIp`, `DropTupleAlwaysAgrees` | the five invariants | `IInv`: what `observe()` knows at each of its parts |
| `AgentProofs` | `TypeCorrect`, `AlwaysAcceptable`, `HandlesAlwaysLive`, `TextfileAlwaysWhole`, `CreatedAlwaysAccounted` | the five invariants | `IInv`; for the configuration, induction over the sections |

**Lifecycle.** `NoDoubleCount` (exported <= counted) is not inductive: a pass
adds a delta computed from two readings, and the entry may have been replaced
since either. `IInv` adds what the code relies on. `DeltaDiscipline` says, per
key and field: what was exported is covered by entries that have left the map, or
the entry is still the one last read, with at least the remembered counts
(`Settled`); the same holds in advance for what each copied value will add; and a
key that is not tracked, or that the walk did not find, owes nothing, so a full
count or a pruned tracker entry is safe. `PassShape` ties the walk, the cursor
and the sets of a pass together. The kernel's part is reduced to one fact
(`EntryStep`): a step either leaves the entry in place with counters that grew,
or moves all it had to `retired`. `WalkFail` is the only step that breaks the
invariant, and the assumption `MaxWalkFails = 0` is used for nothing else;
`lifecycle_walk_failure` shows that it is needed. The refinement needs no more
than this invariant: `EntryStep` makes a kernel step a step of the abstract
`counted`, and `DeltaDiscipline` makes a report stay below it.

**Flow map and drop tracer.** `NoOvercount` compares a sum over all keys with one
counter. The inductive form counts the packets that a CPU has yet to add as well;
each step changes the sum in at most two places (`SumUpdate`). The tracer adds
that what a drain removed left the map (`RemovedWasCounted`), that counted drops
are parsed or not, and that what was handed over is with every active exporter or
still in the vectors (`GivenOrHeld`).

**Reconciliation.** The properties speak of a device `on_link` is not working on;
the invariant says how far it may be with the one it is working on: which links
are held at each stage (`LinksFit`), whose counts may remain (`CountsFit`), and
that name and mark are right except during a detach (`BooksFit`). Nothing is
needed of the queue but that it holds messages: the argument does not depend on
which notifications were lost.

**IPFIX.** `TemplatesRecent` is about a clock that wraps: `Elapsed(e)` relates
the wall clock, the stored time and the time since templates were last sent
through the number `e` of periods between them, which is at most the interval
plus one late period; the interval must be shorter than the clock's cycle.

**Parser.** `IInv` says for each part of `observe()` what its locals mean: at the
i-th round of the walk the offset is the start of the i-th header, the protocol
is the one that leads to it, no header behind is a later fragment and none led to
protocol 0 (which `ext_next` reports as a fault); behind the walk they are those
of header `Walked(p) + 1`. The lemmas show that headers start at increasing
offsets, so what is read at such an offset is that header (`HeaderFound`), that a
Hdr Ext Len decodes to the header's size (`SizeDecoded`), and that each early
return is only taken by a packet that is not `Accountable`.

**Agent.** A flow is created only by a packet already counted as parsed
(`tc.flows_created + seen <= tc.parsed`), so reading `flows_created` first keeps
every published pair consistent (`StatFits`), and a temporary file is whole when
it is renamed (`TmpFits`). `AlwaysAcceptable` shows that the fold of
`uci_load_config` over the sections ends without an error only if every section
is valid, for any number of sections, and that the merged sections of
`mini_load_config` are valid only if the last value of every option is; the other
ways to go on are a missing file and, with the INI backend, one that cannot be
opened.

**Induction.** TLAPS cannot instantiate the library's induction rules. Where data
has no bound (sums over keys and CPUs, the fold over configuration sections, the
offsets of a chain) the proofs take a least counterexample instead, from the
library's well-foundedness of the naturals and of the subsets of a finite set
(`LeastNatural`, `SmallestFailure` in `ProofFacts`). A sum is the cardinality of
the set of units under its graph (`SumIsUnits`), which makes it additive. The
inductive invariants were model-checked on the instances of the runs first; only
the lifecycle's is among the properties of a run.

**Assumptions on the constants**, all evaluated by TLC on the instances:
`ConstantsAssumption` (sizes are positive, `None` is no key and no slot) and
`FinitenessAssumption` (keys and CPUs are finitely many: a key is a struct of
fixed size); `LifecycleAssumption` (protocol numbers and timeouts are naturals);
`DropTracerAssumption` (a drop counts one packet, every key has a device);
`ReconcileAssumption` (the wanted names are names, the queue has room for a message); `IpfixAssumption`
(a record fits into a datagram; the template interval is shorter than the clock's
cycle); `ParserAssumption` (packets are `Skb` and `WellFormed`, see above);
`AgentAssumption` (a file is a sequence of sections).

**Model-checked only.** The liveness properties `Delivered`, `IdleFlowExpires`,
`TrackerForgets`, `Converges`, `CollectorLearns`, `MapDrained`, `ComesUp` and
`EventuallyPublished` (TLAPS 1.4.5 has no reasoning about fairness and ENABLED),
and the five violations, each of which is a behaviour TLC shows.

## 6. Not modelled

- Addresses, ports and other values the parser copies from a header it found.
- Totals of packets and bytes in the device and agent counters; the devices'
  class counters beyond "has entries" (`Reconcile`), the capacity of their map
  and the warning about it.
- Field encoding, timestamps and the wall-clock anchor of IPFIX records; the text
  of syslog messages and of the Prometheus file: formatting of values that no
  property tells apart.
- The command line and the log levels, logging and small helpers: no state.
- What is inside libbpf and libuci; a call of theirs fails or succeeds.
- Vendored code (`vendor/`, except how its INI parser merges sections), tests,
  packaging (except the respawn).

Hazards without a property are listed in `PROJECT.json` with the reason: the
packets that arrive between the walk and the deletion of an expired flow (the
code accepts their loss), an attach that fails once and is not retried, `atts_`
that never shrinks, and a full device-counter map.

## 7. Plan

Done: all models; every safety property of every passing run proved; that
`Lifecycle` implements `Accounting` when no walk fails.

Next: for the violations, theorems that say under which restriction the refuted
statement does hold, as `NeverDoubleCounts` does for walk failures
(`ExactAccounting` with one CPU, `StaleAttachmentDropped` without overruns), so
that a reader knows that the race shown is the only cause; a run of its own for the
proper packets that are not accounted (section 4); the safety halves of
the liveness properties (what stays reachable from every state); and a further
model, several devices on a device-counter map of limited capacity.
