------------------------------ MODULE FlowMap ------------------------------
(***************************************************************************)
(* The in-kernel half of obserwrt: the TC classifier `observe()` of        *)
(* bpf/obserwrt-bpf.c, run by several CPUs at once, accounting packets in  *)
(* the LRU hash map `obserwrt_flows`.                                      *)
(*                                                                         *)
(* A map entry is a preallocated element (a "slot").  A CPU that found an  *)
(* entry keeps a pointer to its slot while it adds to the counters, and    *)
(* nothing stops the kernel from unlinking that slot and linking it again  *)
(* under another key in the meantime.  Each access to shared memory that   *)
(* another actor can separate from the next one is a step of its own.      *)
(***************************************************************************)
EXTENDS Naturals, FiniteSets, Functions

CONSTANTS
    Keys,       \* flow keys (interface, direction, family, protocol, addresses, ports)
    CPUs,       \* CPUs that may run the classifier
    Slots,      \* preallocated elements of the LRU map (max_entries)
    None,       \* "no slot": the key has no entry
    Sizes,      \* what a packet adds: [Fields -> positive], gso_segs and L3 octets
    TcpFlags,   \* TCP flag bits told apart
    Reserve,    \* free elements other CPUs' local free lists may hold back
    MaxParsed,  \* bound: packets ever accounted
    MaxClock    \* bound: value of the monotonic clock

Fields == {"packets", "bytes"}

ASSUME ConstantsAssumption ==
    /\ None \notin Slots \cup Keys
    /\ Sizes \subseteq [Fields -> Nat \ {0}]
    /\ Reserve \in Nat
    /\ MaxParsed \in Nat
    /\ MaxClock \in Nat

\* Keys are structs of fixed size; the kernel numbers its CPUs.
ASSUME FinitenessAssumption == IsFiniteSet(Keys) /\ IsFiniteSet(CPUs)

VARIABLES
    flows,      \* the hash table: the slot linked under each key, or None
    count,      \* packets and bytes of each slot's flow_val
    last_seen,  \* last_seen of each slot's flow_val
    tcp_flags,  \* tcp_flags of each slot's flow_val
    cpu,        \* the classifier run in progress on each CPU
    clock,      \* bpf_ktime_get_ns() / CLOCK_MONOTONIC
    stats,      \* STAT_PARSED and STAT_FLOWS_CREATED
    retired,    \* history: counts that left the map with an entry of the key
    owed        \* history: flags of the packets counted in each slot

values == <<count, last_seen, tcp_flags>>
kernelVars == <<flows, values, cpu, clock, stats, retired, owed>>

Zero == [f \in Fields |-> 0]

\* What a classifier run carries from one step to the next: the key it parsed,
\* the slot its lookup returned, what it adds, the flags byte it will store
\* and the time it read.
CpuState ==
    [pc : {"idle", "add_packets", "add_bytes", "store_flags", "store_seen", "create"},
     key : Keys \cup {None}, slot : Slots \cup {None}, size : Sizes \cup {Zero},
     tcpf : SUBSET TcpFlags, now : Nat]

\* A run that is over keeps nothing.
IdleCpu == [pc |-> "idle", key |-> None, slot |-> None, size |-> Zero, tcpf |-> {}, now |-> 0]

Linked(k) == flows[k] # None

Free == Slots \ {flows[k] : k \in Keys}

\* Counts of key k that are in the map now, and counts it ever had in it.
InMap(k, f) == IF Linked(k) THEN count[flows[k]][f] ELSE 0
Credited(k, f) == retired[k][f] + InMap(k, f)

\* The entries of ks leave the table; their slots go back to the free list.
Unlink(ks) ==
    /\ flows' = [k \in Keys |-> IF k \in ks THEN None ELSE flows[k]]
    /\ retired' = [k \in Keys |-> [f \in Fields |->
                     IF k \in ks THEN Credited(k, f) ELSE retired[k][f]]]

KernelInit ==
    /\ flows = [k \in Keys |-> None]
    /\ count = [s \in Slots |-> Zero]
    /\ last_seen = [s \in Slots |-> 0]
    /\ tcp_flags = [s \in Slots |-> {}]
    /\ cpu = [c \in CPUs |-> IdleCpu]
    /\ clock = 0
    /\ stats = [parsed |-> 0, flows_created |-> 0]
    /\ retired = [k \in Keys |-> Zero]
    /\ owed = [s \in Slots |-> {}]

----------------------------------------------------------------------------
(* One packet, from STAT_PARSED to the end of observe() *)

\* Mutant: STAT_PARSED counts a GSO super-packet once.
ParsedPerSkb(sz) == stats.parsed + 1

ParsedAfter(sz) == stats.parsed + sz["packets"]

\* Mutant: the pointer is not tested.
LookupUntested(k) == "add_packets"

\* The branch on the lookup's result.
AfterLookup(k) == IF Linked(k) THEN "add_packets" ELSE "create"

\* A parsed packet of flow k: STAT_PARSED, then the lookup.  A hit returns a
\* pointer; a miss reads the clock for the value it is about to insert.
Observe(c, k, sz, fl) ==
    /\ cpu[c].pc = "idle"
    /\ stats.parsed + sz["packets"] <= MaxParsed
    /\ stats' = [stats EXCEPT !.parsed = ParsedAfter(sz)]
    /\ cpu' = [cpu EXCEPT ![c] =
                 [pc   |-> AfterLookup(k),
                  key  |-> k,
                  slot |-> flows[k],
                  size |-> sz,
                  tcpf |-> fl,
                  now  |-> IF Linked(k) THEN 0 ELSE clock]]
    /\ UNCHANGED <<flows, values, clock, retired, owed>>

\* Mutant: a plain store in place of __sync_fetch_and_add.
StoreCount(c, f) ==
    count' = [count EXCEPT ![cpu[c].slot][f] = cpu[c].size[f]]

\* The atomic add through the pointer, whatever the slot holds by now.
AddCount(c, f) ==
    count' = [count EXCEPT ![cpu[c].slot][f] = @ + cpu[c].size[f]]

AddPackets(c) ==
    /\ cpu[c].pc = "add_packets"
    /\ AddCount(c, "packets")
    /\ owed' = [owed EXCEPT ![cpu[c].slot] = @ \cup cpu[c].tcpf]
    /\ cpu' = [cpu EXCEPT ![c].pc = "add_bytes"]
    /\ UNCHANGED <<flows, last_seen, tcp_flags, clock, stats, retired>>

\* Adds the octets, and reads tcp_flags for the non-atomic |= that follows.
AddBytes(c) ==
    /\ cpu[c].pc = "add_bytes"
    /\ AddCount(c, "bytes")
    /\ cpu' = [cpu EXCEPT ![c].pc = "store_flags",
                          ![c].tcpf = @ \cup tcp_flags[cpu[c].slot]]
    /\ UNCHANGED <<flows, last_seen, tcp_flags, clock, stats, retired, owed>>

\* Writes the union back, and reads the clock for last_seen.
StoreFlags(c) ==
    /\ cpu[c].pc = "store_flags"
    /\ tcp_flags' = [tcp_flags EXCEPT ![cpu[c].slot] = cpu[c].tcpf]
    /\ cpu' = [cpu EXCEPT ![c].pc = "store_seen", ![c].now = clock]
    /\ UNCHANGED <<flows, count, last_seen, clock, stats, retired, owed>>

StoreSeen(c) ==
    /\ cpu[c].pc = "store_seen"
    /\ last_seen' = [last_seen EXCEPT ![cpu[c].slot] = cpu[c].now]
    /\ cpu' = [cpu EXCEPT ![c] = IdleCpu]
    /\ UNCHANGED <<flows, count, tcp_flags, clock, stats, retired, owed>>

\* bpf_map_update_elem on a full map: the LRU list gives up some entry.
Shrink(c, k) ==
    /\ cpu[c].pc = "create"
    /\ Linked(k)
    /\ Cardinality(Free) <= Reserve
    /\ Unlink({k})
    /\ UNCHANGED <<values, cpu, clock, stats, owed>>

\* BPF_ANY: the new element replaces an entry another CPU inserted since the
\* lookup; the replaced element leaves the table with what it had counted.
Insert(c, s) ==
    LET k == cpu[c].key IN
    /\ cpu[c].pc = "create"
    /\ s \in Free
    /\ flows' = [flows EXCEPT ![k] = s]
    /\ retired' = [retired EXCEPT ![k] = [f \in Fields |-> Credited(k, f)]]
    /\ count' = [count EXCEPT ![s] = cpu[c].size]
    /\ last_seen' = [last_seen EXCEPT ![s] = cpu[c].now]
    /\ tcp_flags' = [tcp_flags EXCEPT ![s] = cpu[c].tcpf]
    /\ owed' = [owed EXCEPT ![s] = cpu[c].tcpf]
    /\ stats' = [stats EXCEPT !.flows_created = @ + 1]
    /\ cpu' = [cpu EXCEPT ![c] = IdleCpu]
    /\ UNCHANGED clock

\* The update fails (no element could be reclaimed): the packet is not counted.
InsertFail(c) ==
    /\ cpu[c].pc = "create"
    /\ Cardinality(Free) <= Reserve
    /\ cpu' = [cpu EXCEPT ![c] = IdleCpu]
    /\ UNCHANGED <<flows, values, clock, stats, retired, owed>>

Tick ==
    /\ clock < MaxClock
    /\ clock' = clock + 1
    /\ UNCHANGED <<flows, values, cpu, stats, retired, owed>>

ClassifierStep(c) ==
    \/ AddPackets(c)
    \/ AddBytes(c)
    \/ StoreFlags(c)
    \/ StoreSeen(c)
    \/ \E k \in Keys : Shrink(c, k)
    \/ \E s \in Slots : Insert(c, s)
    \/ InsertFail(c)

KernelStep ==
    \/ \E c \in CPUs, k \in Keys, sz \in Sizes, fl \in SUBSET TcpFlags : Observe(c, k, sz, fl)
    \/ \E c \in CPUs : ClassifierStep(c)
    \/ Tick

\* bpf_map_delete_elem from user space, at any moment: one key on expiry, those of
\* a device on a purge.
DeleteElems(ks) ==
    /\ Unlink(ks)
    /\ UNCHANGED <<values, cpu, clock, stats, owed>>

KernelNext == KernelStep \/ \E ks \in SUBSET Keys : DeleteElems(ks)
KernelSpec == KernelInit /\ [][KernelNext]_kernelVars

\* Traffic alone: the agent has not deleted anything yet.
TrafficSpec == KernelInit /\ [][KernelStep]_kernelVars

----------------------------------------------------------------------------
(* Properties *)

\* Every variable has its type, and no slot is linked under two keys: the
\* table of obserwrt-bpf.c:61-66 maps each key to an element of its own.
KernelTypeOK ==
    /\ flows \in [Keys -> Slots \cup {None}]
    /\ \A j, k \in Keys : Linked(j) /\ flows[j] = flows[k] => j = k
    /\ count \in [Slots -> [Fields -> Nat]]
    /\ last_seen \in [Slots -> Nat]
    /\ tcp_flags \in [Slots -> SUBSET TcpFlags]
    /\ cpu \in [CPUs -> CpuState]
    /\ \A c \in CPUs : cpu[c].pc \notin {"idle", "create"} => cpu[c].slot \in Slots
    /\ \A c \in CPUs : cpu[c].pc # "idle" => cpu[c].key \in Keys /\ cpu[c].size \in Sizes
    /\ clock \in Nat
    /\ stats \in [parsed : Nat, flows_created : Nat]
    /\ retired \in [Keys -> [Fields -> Nat]]
    /\ owed \in [Slots -> SUBSET TcpFlags]

AllIdle == \A c \in CPUs : cpu[c].pc = "idle"

\* The map never holds, and never held, more packets than the classifier
\* reports as parsed (STAT_PARSED, obserwrt-bpf.c:362): a slot that is reused
\* under a CPU still adding to it moves packets between flows but invents none.
NoOvercount ==
    SumFunction([k \in Keys |-> Credited(k, "packets")]) <= stats.parsed

\* While an entry stays in its slot its counters only grow, so the agent may
\* take a counter below the last one it read as a sign of a new entry
\* (obserwrt-bpf.c:393-394, relied on by lifecycle.cpp:65-70).
CountersMonotone ==
    [][\A k \in Keys, f \in Fields :
         Linked(k) /\ flows'[k] = flows[k] => count'[flows[k]][f] >= count[flows[k]][f]]_kernelVars

\* "In-kernel, exact accounting" (README.md:23): in a map large enough never
\* to evict, once no classifier run is in progress every parsed packet is in
\* some entry.
ExactAccounting ==
    AllIdle => SumFunction([k \in Keys |-> InMap(k, "packets")]) = stats.parsed

\* "union of observed flags" (obserwrt-bpf.c:395): once no classifier run is
\* in progress an entry shows every flag of the packets it counted.
FlagsUnion ==
    AllIdle => \A k \in Keys : Linked(k) => owed[flows[k]] \subseteq tcp_flags[flows[k]]
=============================================================================
