--------------------------- MODULE FlowMapProofs ---------------------------
(* Theorems about the kernel half, for every number of CPUs, flows and slots. *)
EXTENDS FlowMap, ProofFacts

\* What an entry ever counted is a natural number.
LEMMA CreditedType ==
    ASSUME KernelTypeOK, NEW k \in Keys, NEW f \in Fields
    PROVE  /\ InMap(k, f) \in Nat
           /\ Credited(k, f) \in Nat
BY DEF KernelTypeOK, Credited, InMap, Linked

\* Taking entries out of the table keeps the table's shape.
LEMMA UnlinkType ==
    ASSUME KernelTypeOK, NEW ks, Unlink(ks)
    PROVE  /\ flows' \in [Keys -> Slots \cup {None}]
           /\ \A j, k \in Keys : flows'[j] # None /\ flows'[j] = flows'[k] => j = k
           /\ retired' \in [Keys -> [Fields -> Nat]]
<1>1. \A k \in Keys, f \in Fields : Credited(k, f) \in Nat
  BY CreditedType
<1>2. flows' \in [Keys -> Slots \cup {None}]
  BY DEF KernelTypeOK, Unlink
<1>3. \A j, k \in Keys : flows'[j] # None /\ flows'[j] = flows'[k] => j = k
  BY DEF KernelTypeOK, Unlink, Linked
<1>4. retired' \in [Keys -> [Fields -> Nat]]
  BY <1>1 DEF KernelTypeOK, Unlink
<1>5. QED
  BY <1>2, <1>3, <1>4

\* A deletion by the agent or by the LRU list, and nothing else, keeps the type.
LEMMA UnlinkKeepsType ==
    ASSUME KernelTypeOK, NEW ks, Unlink(ks), UNCHANGED <<values, cpu, clock, stats, owed>>
    PROVE  KernelTypeOK'
BY UnlinkType DEF KernelTypeOK, values, Linked

\* The classifier's steps keep the type.
LEMMA ObserveType ==
    ASSUME KernelTypeOK, NEW c \in CPUs, NEW k \in Keys, NEW sz \in Sizes,
           NEW fl \in SUBSET TcpFlags, Observe(c, k, sz, fl)
    PROVE  KernelTypeOK'
<1> DEFINE st == [pc   |-> IF Linked(k) THEN "add_packets" ELSE "create",
                  key  |-> k,
                  slot |-> flows[k],
                  size |-> sz,
                  tcpf |-> fl,
                  now  |-> IF Linked(k) THEN 0 ELSE clock]
<1>1. /\ st \in CpuState
      /\ st.pc \notin {"idle", "create"} => st.slot \in Slots
      /\ st.key \in Keys /\ st.size \in Sizes
  BY DEF KernelTypeOK, CpuState, Linked
<1>2. cpu' = [cpu EXCEPT ![c] = st]
  BY DEF Observe, AfterLookup
<1>3. stats' \in [parsed : Nat, flows_created : Nat]
  <2>1. sz["packets"] \in Nat
    BY ConstantsAssumption DEF Fields
  <2>2. QED
    BY <2>1 DEF Observe, AfterLookup, ParsedAfter, KernelTypeOK
<1>4. /\ cpu' \in [CPUs -> CpuState]
      /\ \A d \in CPUs : cpu'[d].pc \notin {"idle", "create"} => cpu'[d].slot \in Slots
      /\ \A d \in CPUs : cpu'[d].pc # "idle" => cpu'[d].key \in Keys /\ cpu'[d].size \in Sizes
  <2> HIDE DEF st
  <2> QED
    BY <1>1, <1>2 DEF KernelTypeOK
<1>5. QED
  BY <1>3, <1>4 DEF Observe, AfterLookup, KernelTypeOK, values, Linked

LEMMA AddCountType ==
    ASSUME KernelTypeOK, NEW c \in CPUs, cpu[c].pc \notin {"idle", "create"},
           NEW f \in Fields, AddCount(c, f)
    PROVE  count' \in [Slots -> [Fields -> Nat]]
<1>1. cpu[c].slot \in Slots /\ cpu[c].size[f] \in Nat
  BY ConstantsAssumption DEF KernelTypeOK, CpuState
<1>2. QED
  BY <1>1 DEF KernelTypeOK, AddCount

\* A CPU in the middle of a run stays well formed when only its pc, its flags
\* and its time change.
LEMMA CpuAdvanceType ==
    ASSUME KernelTypeOK, NEW c \in CPUs, cpu[c].pc \notin {"idle", "create"},
           NEW p \in {"add_bytes", "store_flags", "store_seen"},
           NEW STATE fl, fl \in SUBSET TcpFlags, NEW STATE t, t \in Nat,
           cpu' = [cpu EXCEPT ![c] = [cpu[c] EXCEPT !.pc = p, !.tcpf = fl, !.now = t]]
    PROVE  /\ cpu' \in [CPUs -> CpuState]
           /\ \A d \in CPUs : cpu'[d].pc \notin {"idle", "create"} => cpu'[d].slot \in Slots
           /\ \A d \in CPUs : cpu'[d].pc # "idle" => cpu'[d].key \in Keys /\ cpu'[d].size \in Sizes
<1> DEFINE st == [cpu[c] EXCEPT !.pc = p, !.tcpf = fl, !.now = t]
<1>1. cpu[c] \in CpuState /\ cpu[c].slot \in Slots /\ cpu[c].key \in Keys /\ cpu[c].size \in Sizes
  BY DEF KernelTypeOK
<1>2. st \in CpuState /\ st.slot \in Slots /\ st.key \in Keys /\ st.size \in Sizes
  BY <1>1 DEF CpuState
<1>3. cpu' = [cpu EXCEPT ![c] = st]
  OBVIOUS
<1> HIDE DEF st
<1>4. QED
  BY <1>2, <1>3 DEF KernelTypeOK

LEMMA CpuIdleType ==
    ASSUME KernelTypeOK, NEW c \in CPUs, cpu' = [cpu EXCEPT ![c] = IdleCpu]
    PROVE  /\ cpu' \in [CPUs -> CpuState]
           /\ \A d \in CPUs : cpu'[d].pc \notin {"idle", "create"} => cpu'[d].slot \in Slots
           /\ \A d \in CPUs : cpu'[d].pc # "idle" => cpu'[d].key \in Keys /\ cpu'[d].size \in Sizes
BY DEF KernelTypeOK, CpuState, IdleCpu

LEMMA ClassifierStepType ==
    ASSUME KernelTypeOK, NEW c \in CPUs, ClassifierStep(c)
    PROVE  KernelTypeOK'
<1>0. cpu[c] \in CpuState
  BY DEF KernelTypeOK
<1>1. CASE AddPackets(c)
  <2>1. count' \in [Slots -> [Fields -> Nat]]
    BY <1>1, AddCountType DEF AddPackets, Fields
  <2>2. cpu' = [cpu EXCEPT ![c] = [cpu[c] EXCEPT !.pc = "add_bytes", !.tcpf = cpu[c].tcpf,
                                                 !.now = cpu[c].now]]
    BY <1>1, <1>0 DEF AddPackets, CpuState, KernelTypeOK
  <2>3. cpu[c].tcpf \in SUBSET TcpFlags /\ cpu[c].now \in Nat
    BY <1>0 DEF CpuState
  <2>4. cpu[c].pc \notin {"idle", "create"}
    BY <1>1 DEF AddPackets
  <2>5. owed' \in [Slots -> SUBSET TcpFlags]
    BY <1>1, <2>3, <2>4 DEF AddPackets, KernelTypeOK
  <2>6. /\ cpu' \in [CPUs -> CpuState]
        /\ \A d \in CPUs : cpu'[d].pc \notin {"idle", "create"} => cpu'[d].slot \in Slots
        /\ \A d \in CPUs : cpu'[d].pc # "idle" => cpu'[d].key \in Keys /\ cpu'[d].size \in Sizes
    BY <2>2, <2>3, <2>4, CpuAdvanceType
  <2>7. QED
    BY <1>1, <2>1, <2>5, <2>6 DEF AddPackets, KernelTypeOK, Linked
<1>2. CASE AddBytes(c)
  <2> DEFINE fl == cpu[c].tcpf \cup tcp_flags[cpu[c].slot]
  <2>1. count' \in [Slots -> [Fields -> Nat]]
    BY <1>2, AddCountType DEF AddBytes, Fields
  <2>2. cpu' = [cpu EXCEPT ![c] = [cpu[c] EXCEPT !.pc = "store_flags", !.tcpf = fl,
                                                 !.now = cpu[c].now]]
    BY <1>2, <1>0 DEF AddBytes, CpuState, KernelTypeOK
  <2>3. cpu[c].pc \notin {"idle", "create"}
    BY <1>2 DEF AddBytes
  <2>4. fl \in SUBSET TcpFlags /\ cpu[c].now \in Nat
    BY <1>0, <2>3 DEF CpuState, KernelTypeOK
  <2>5. /\ cpu' \in [CPUs -> CpuState]
        /\ \A d \in CPUs : cpu'[d].pc \notin {"idle", "create"} => cpu'[d].slot \in Slots
        /\ \A d \in CPUs : cpu'[d].pc # "idle" => cpu'[d].key \in Keys /\ cpu'[d].size \in Sizes
    <3> HIDE DEF fl
    <3> QED BY <2>2, <2>3, <2>4, CpuAdvanceType
  <2>6. QED
    BY <1>2, <2>1, <2>5 DEF AddBytes, KernelTypeOK, Linked
<1>3. CASE StoreFlags(c)
  <2>1. cpu' = [cpu EXCEPT ![c] = [cpu[c] EXCEPT !.pc = "store_seen", !.tcpf = cpu[c].tcpf,
                                                 !.now = clock]]
    BY <1>3, <1>0 DEF StoreFlags, CpuState, KernelTypeOK
  <2>2. cpu[c].pc \notin {"idle", "create"}
    BY <1>3 DEF StoreFlags
  <2>3. cpu[c].tcpf \in SUBSET TcpFlags /\ clock \in Nat
    BY <1>0 DEF CpuState, KernelTypeOK
  <2>4. tcp_flags' \in [Slots -> SUBSET TcpFlags]
    BY <1>3, <2>2, <2>3 DEF StoreFlags, KernelTypeOK
  <2>5. /\ cpu' \in [CPUs -> CpuState]
        /\ \A d \in CPUs : cpu'[d].pc \notin {"idle", "create"} => cpu'[d].slot \in Slots
        /\ \A d \in CPUs : cpu'[d].pc # "idle" => cpu'[d].key \in Keys /\ cpu'[d].size \in Sizes
    BY <2>1, <2>2, <2>3, CpuAdvanceType
  <2>6. QED
    BY <1>3, <2>4, <2>5 DEF StoreFlags, KernelTypeOK, Linked
<1>4. CASE StoreSeen(c)
  <2>1. last_seen' \in [Slots -> Nat]
    BY <1>4, <1>0 DEF StoreSeen, KernelTypeOK, CpuState
  <2>2. /\ cpu' \in [CPUs -> CpuState]
        /\ \A d \in CPUs : cpu'[d].pc \notin {"idle", "create"} => cpu'[d].slot \in Slots
        /\ \A d \in CPUs : cpu'[d].pc # "idle" => cpu'[d].key \in Keys /\ cpu'[d].size \in Sizes
    BY <1>4, CpuIdleType DEF StoreSeen
  <2>3. QED
    BY <1>4, <2>1, <2>2 DEF StoreSeen, KernelTypeOK, Linked
<1>5. ASSUME NEW k \in Keys, Shrink(c, k)
      PROVE  KernelTypeOK'
  BY <1>5, UnlinkKeepsType DEF Shrink
<1>6. ASSUME NEW s \in Slots, Insert(c, s)
      PROVE  KernelTypeOK'
  <2> DEFINE k == cpu[c].key
  <2>1. k \in Keys /\ cpu[c].size \in Sizes
    BY <1>6 DEF KernelTypeOK, Insert
  <2>2. cpu[c].size \in [Fields -> Nat]
    BY <2>1, ConstantsAssumption
  <2>3. \A j \in Keys : flows[j] # s
    BY <1>6 DEF Insert, Free
  <2>4. /\ flows' \in [Keys -> Slots \cup {None}]
        /\ \A i, j \in Keys : flows'[i] # None /\ flows'[i] = flows'[j] => i = j
    BY <1>6, <2>1, <2>3 DEF Insert, KernelTypeOK, Linked
  <2>5. retired' \in [Keys -> [Fields -> Nat]]
    <3>1. [f \in Fields |-> Credited(k, f)] \in [Fields -> Nat]
      BY <2>1, CreditedType
    <3>2. QED
      BY <1>6, <2>1, <3>1 DEF Insert, KernelTypeOK
  <2>6. /\ count' \in [Slots -> [Fields -> Nat]]
        /\ last_seen' \in [Slots -> Nat]
        /\ tcp_flags' \in [Slots -> SUBSET TcpFlags]
        /\ owed' \in [Slots -> SUBSET TcpFlags]
    <3>1. /\ count' = [count EXCEPT ![s] = cpu[c].size]
          /\ last_seen' = [last_seen EXCEPT ![s] = cpu[c].now]
          /\ tcp_flags' = [tcp_flags EXCEPT ![s] = cpu[c].tcpf]
          /\ owed' = [owed EXCEPT ![s] = cpu[c].tcpf]
      BY <1>6 DEF Insert
    <3>2. cpu[c].now \in Nat /\ cpu[c].tcpf \in SUBSET TcpFlags
      BY DEF KernelTypeOK, CpuState
    <3>3. QED
      BY <2>2, <3>1, <3>2 DEF KernelTypeOK
  <2>7. stats' \in [parsed : Nat, flows_created : Nat]
    <3>1. stats' = [stats EXCEPT !.flows_created = @ + 1]
      BY <1>6 DEF Insert
    <3>2. stats \in [parsed : Nat, flows_created : Nat]
      BY DEF KernelTypeOK
    <3>3. QED
      BY <3>1, <3>2
  <2>8. /\ cpu' \in [CPUs -> CpuState]
        /\ \A d \in CPUs : cpu'[d].pc \notin {"idle", "create"} => cpu'[d].slot \in Slots
        /\ \A d \in CPUs : cpu'[d].pc # "idle" => cpu'[d].key \in Keys /\ cpu'[d].size \in Sizes
    BY <1>6, CpuIdleType DEF Insert
  <2>9. clock' \in Nat
    BY <1>6 DEF Insert, KernelTypeOK
  <2>10. QED
    BY <2>4, <2>5, <2>6, <2>7, <2>8, <2>9 DEF KernelTypeOK, Linked
<1>7. CASE InsertFail(c)
  BY <1>7, CpuIdleType DEF InsertFail, KernelTypeOK, values, Linked
<1>8. QED
  BY <1>1, <1>2, <1>3, <1>4, <1>5, <1>6, <1>7 DEF ClassifierStep

\* Every kernel step keeps the type, whoever else runs beside it.
LEMMA KernelStepType ==
    ASSUME KernelTypeOK, KernelStep
    PROVE  KernelTypeOK'
<1>1. CASE Tick
  BY <1>1 DEF Tick, KernelTypeOK, values, Linked
<1>2. QED
  BY <1>1, ObserveType, ClassifierStepType DEF KernelStep

LEMMA KernelInitType == KernelInit => KernelTypeOK
BY ConstantsAssumption DEF KernelInit, KernelTypeOK, CpuState, IdleCpu, Zero, Fields, Linked

\* KernelTypeOK holds in every behaviour of the classifiers of obserwrt-bpf.c
\* with deletions by the agent at any moment.
THEOREM KernelTypeCorrect == KernelSpec => []KernelTypeOK
<1>1. KernelTypeOK /\ [KernelNext]_kernelVars => KernelTypeOK'
  <2>1. ASSUME KernelTypeOK, KernelStep PROVE KernelTypeOK'
    BY <2>1, KernelStepType
  <2>2. ASSUME KernelTypeOK, NEW ks \in SUBSET Keys, DeleteElems(ks) PROVE KernelTypeOK'
    BY <2>2, UnlinkKeepsType DEF DeleteElems
  <2>3. ASSUME KernelTypeOK, UNCHANGED kernelVars PROVE KernelTypeOK'
    BY <2>3 DEF kernelVars, values, KernelTypeOK, Linked
  <2>4. QED
    BY <2>1, <2>2, <2>3 DEF KernelNext
<1>2. QED
  BY <1>1, KernelInitType, PTL DEF KernelSpec

\* What CountersMonotone says of one step.
CountsGrow ==
    \A k \in Keys, f \in Fields :
      Linked(k) /\ flows'[k] = flows[k] => count'[flows[k]][f] >= count[flows[k]][f]

\* No kernel step takes counts out of an entry that stays linked: an add only
\* adds, and an insert writes to a slot that was linked under no key.
LEMMA KernelStepCounts ==
    ASSUME KernelTypeOK, KernelStep
    PROVE  CountsGrow
<1>1. ASSUME count' = count PROVE CountsGrow
  <2>1. \A k \in Keys, f \in Fields : Linked(k) => count[flows[k]][f] \in Nat
    BY DEF KernelTypeOK, Linked
  <2>2. QED
    BY <1>1, <2>1 DEF CountsGrow
<1>2. ASSUME NEW c \in CPUs, NEW g \in Fields, AddCount(c, g),
             cpu[c].pc \notin {"idle", "create"}
      PROVE  CountsGrow
  <2>1. cpu[c].slot \in Slots /\ cpu[c].size[g] \in Nat
    BY <1>2, ConstantsAssumption DEF KernelTypeOK, CpuState
  <2>2. ASSUME NEW s \in Slots, NEW f \in Fields
        PROVE  count'[s][f] >= count[s][f]
    BY <1>2, <2>1 DEF AddCount, KernelTypeOK
  <2>3. QED
    BY <2>2 DEF CountsGrow, Linked, KernelTypeOK
<1>3. ASSUME NEW c \in CPUs, NEW s \in Slots, Insert(c, s)
      PROVE  CountsGrow
  <2>1. \A k \in Keys : Linked(k) => flows[k] # s /\ flows[k] \in Slots
    BY <1>3 DEF Insert, Free, Linked, KernelTypeOK
  <2>2. \A r \in Slots : r # s => count'[r] = count[r]
    BY <1>3 DEF Insert, KernelTypeOK
  <2>3. QED
    BY <2>1, <2>2 DEF CountsGrow, KernelTypeOK
<1>4. ASSUME NEW c \in CPUs, ClassifierStep(c) PROVE CountsGrow
  <2>1. CASE AddPackets(c) BY <2>1, <1>2 DEF AddPackets, Fields
  <2>2. CASE AddBytes(c) BY <2>2, <1>2 DEF AddBytes, Fields
  <2>3. CASE StoreFlags(c) BY <2>3, <1>1 DEF StoreFlags
  <2>4. CASE StoreSeen(c) BY <2>4, <1>1 DEF StoreSeen
  <2>5. CASE \E k \in Keys : Shrink(c, k) BY <2>5, <1>1 DEF Shrink, values
  <2>6. CASE \E s \in Slots : Insert(c, s) BY <2>6, <1>3
  <2>7. CASE InsertFail(c) BY <2>7, <1>1 DEF InsertFail, values
  <2>8. QED
    BY <1>4, <2>1, <2>2, <2>3, <2>4, <2>5, <2>6, <2>7 DEF ClassifierStep
<1>5. CASE Tick BY <1>5, <1>1 DEF Tick, values
<1>6. ASSUME NEW c \in CPUs, NEW k \in Keys, NEW sz \in Sizes, NEW fl \in SUBSET TcpFlags,
             Observe(c, k, sz, fl)
      PROVE  CountsGrow
  BY <1>6, <1>1 DEF Observe, AfterLookup, values
<1>7. QED
  BY <1>4, <1>5, <1>6 DEF KernelStep

\* The counters of a linked entry never go backwards (obserwrt-bpf.c:393-394):
\* the basis of the agent's reading of a smaller counter as a new entry.
THEOREM CountersOnlyGrow == KernelSpec => CountersMonotone
<1>1. KernelTypeOK /\ [KernelNext]_kernelVars => [CountsGrow]_kernelVars
  <2>1. ASSUME KernelTypeOK, NEW ks \in SUBSET Keys, DeleteElems(ks) PROVE CountsGrow
    <3>1. count' = count
      BY <2>1 DEF DeleteElems, values
    <3>2. QED
      BY <2>1, <3>1 DEF CountsGrow, KernelTypeOK, Linked
  <2>2. QED
    BY <2>1, KernelStepCounts DEF KernelNext
<1>2. QED
  BY <1>1, KernelTypeCorrect, PTL DEF KernelSpec, CountersMonotone, CountsGrow

----------------------------------------------------------------------------
(* What a step does to the counts of each key *)

\* Every count stays where it was, in the map or retired.
SameCredits == \A j \in Keys, f \in Fields : Credited(j, f)' = Credited(j, f)

LEMMA UnlinkCredits ==
    ASSUME KernelTypeOK, NEW ks, Unlink(ks), count' = count
    PROVE  SameCredits
<1> SUFFICES ASSUME NEW j \in Keys, NEW f \in Fields
             PROVE  Credited(j, f)' = Credited(j, f)
  BY DEF SameCredits
<1>1. Credited(j, f) \in Nat /\ retired[j][f] \in Nat
  BY CreditedType DEF KernelTypeOK
<1>2. CASE j \in ks
  <2>1. flows'[j] = None /\ retired'[j][f] = Credited(j, f)
    BY <1>2 DEF Unlink
  <2>2. InMap(j, f)' = 0
    BY <2>1 DEF InMap, Linked
  <2>3. QED
    BY <1>1, <2>1, <2>2 DEF Credited
<1>3. CASE j \notin ks
  BY <1>3 DEF Unlink, Credited, InMap, Linked
<1>4. QED
  BY <1>2, <1>3

LEMMA SameTable ==
    ASSUME UNCHANGED <<flows, count, retired>>
    PROVE  SameCredits
BY DEF SameCredits, Credited, InMap, Linked

\* An add through a pointer: the key that the slot is linked under by now gains
\* the amount, and no other does.
LEMMA AddCredits ==
    ASSUME KernelTypeOK, NEW c \in CPUs, NEW g \in Fields, AddCount(c, g),
           cpu[c].pc \notin {"idle", "create"}, UNCHANGED <<flows, retired>>,
           NEW j \in Keys, NEW f \in Fields
    PROVE  Credited(j, f)' = Credited(j, f) +
             (IF flows[j] = cpu[c].slot /\ f = g THEN cpu[c].size[g] ELSE 0)
<1>1. cpu[c].slot \in Slots /\ cpu[c].size[g] \in Nat /\ None \notin Slots
  BY ConstantsAssumption DEF KernelTypeOK, CpuState
<1>2. retired[j][f] \in Nat /\ InMap(j, f) \in Nat /\ retired'[j][f] = retired[j][f]
  BY CreditedType DEF KernelTypeOK
<1>3. InMap(j, f)' = InMap(j, f) + (IF flows[j] = cpu[c].slot /\ f = g THEN cpu[c].size[g] ELSE 0)
  <2>1. CASE flows[j] = cpu[c].slot /\ f = g
    <3>1. count'[flows[j]][f] = count[flows[j]][f] + cpu[c].size[g]
      BY <1>1, <2>1 DEF AddCount, KernelTypeOK
    <3>2. QED
      BY <1>1, <2>1, <3>1 DEF InMap, Linked
  <2>2. CASE ~(flows[j] = cpu[c].slot /\ f = g)
    <3>1. Linked(j) => flows[j] \in Slots /\ count'[flows[j]][f] = count[flows[j]][f]
      BY <1>1, <2>2 DEF AddCount, KernelTypeOK, Linked
    <3>2. InMap(j, f)' = InMap(j, f)
      BY <3>1 DEF InMap, Linked
    <3>3. QED
      BY <1>2, <2>2, <3>2
  <2>3. QED
    BY <2>1, <2>2
<1>4. QED
  BY <1>1, <1>2, <1>3 DEF Credited

\* An insert gives its key what the packet adds, whatever entry it replaces.
LEMMA InsertCredits ==
    ASSUME KernelTypeOK, NEW c \in CPUs, NEW s \in Slots, Insert(c, s),
           NEW j \in Keys, NEW f \in Fields
    PROVE  Credited(j, f)' = Credited(j, f) +
             (IF j = cpu[c].key THEN cpu[c].size[f] ELSE 0)
<1>1. cpu[c].key \in Keys /\ cpu[c].size[f] \in Nat /\ None \notin Slots
  BY ConstantsAssumption DEF KernelTypeOK, CpuState, Insert
<1>2. Credited(j, f) \in Nat /\ retired[j][f] \in Nat
  BY CreditedType DEF KernelTypeOK
<1>3. /\ flows' = [flows EXCEPT ![cpu[c].key] = s]
      /\ retired' = [retired EXCEPT ![cpu[c].key] = [g \in Fields |-> Credited(cpu[c].key, g)]]
      /\ count' = [count EXCEPT ![s] = cpu[c].size]
  BY DEF Insert
<1>4. CASE j = cpu[c].key
  <2>1. retired'[j][f] = Credited(j, f) /\ flows'[j] = s /\ count'[s][f] = cpu[c].size[f]
    BY <1>1, <1>3, <1>4 DEF KernelTypeOK
  <2>2. QED
    BY <1>1, <1>2, <1>4, <2>1 DEF Credited, InMap, Linked
<1>5. CASE j # cpu[c].key
  <2>1. retired'[j] = retired[j] /\ flows'[j] = flows[j]
    BY <1>1, <1>3, <1>5 DEF KernelTypeOK
  <2>2. Linked(j) => flows[j] \in Slots /\ flows[j] # s
    BY DEF Insert, Free, Linked, KernelTypeOK
  <2>3. Linked(j) => count'[flows[j]] = count[flows[j]]
    BY <1>3, <2>2 DEF KernelTypeOK
  <2>4. Credited(j, f)' = Credited(j, f)
    BY <2>1, <2>3 DEF Credited, InMap, Linked
  <2>5. QED
    BY <1>2, <1>5, <2>4
<1>6. QED
  BY <1>4, <1>5

\* At most one key gains.
OneGains(k) ==
    /\ \A f \in Fields : Credited(k, f)' >= Credited(k, f)
    /\ \A j \in Keys \ {k}, f \in Fields : Credited(j, f)' = Credited(j, f)

LEMMA KernelStepCredits ==
    ASSUME KernelTypeOK, KernelStep
    PROVE  SameCredits \/ \E k \in Keys : OneGains(k)
<1>0. \A j \in Keys, f \in Fields : Credited(j, f) \in Nat
  BY CreditedType
<1>1. ASSUME NEW c \in CPUs, NEW g \in Fields, AddCount(c, g),
             cpu[c].pc \notin {"idle", "create"}, UNCHANGED <<flows, retired>>
      PROVE  SameCredits \/ \E k \in Keys : OneGains(k)
  <2>1. cpu[c].slot \in Slots /\ cpu[c].size[g] \in Nat /\ None \notin Slots
    BY <1>1, ConstantsAssumption DEF KernelTypeOK, CpuState
  <2>2. CASE \E k \in Keys : flows[k] = cpu[c].slot
    <3>1. PICK k \in Keys : flows[k] = cpu[c].slot
      BY <2>2
    <3>2. \A j \in Keys \ {k} : flows[j] # cpu[c].slot
      BY <2>1, <3>1 DEF KernelTypeOK, Linked
    <3>3. \A j \in Keys \ {k}, f \in Fields : Credited(j, f)' = Credited(j, f)
      BY <1>0, <1>1, <3>2, AddCredits
    <3>4. \A f \in Fields : Credited(k, f)' >= Credited(k, f)
      BY <1>0, <1>1, <2>1, AddCredits
    <3>5. QED
      BY <3>3, <3>4 DEF OneGains
  <2>3. CASE ~\E k \in Keys : flows[k] = cpu[c].slot
    <3>1. \A j \in Keys, f \in Fields : Credited(j, f)' = Credited(j, f)
      BY <1>0, <1>1, <2>3, AddCredits
    <3>2. QED
      BY <3>1 DEF SameCredits
  <2>4. QED
    BY <2>2, <2>3
<1>2. ASSUME NEW c \in CPUs, NEW s \in Slots, Insert(c, s)
      PROVE  \E k \in Keys : OneGains(k)
  <2>1. cpu[c].key \in Keys /\ \A f \in Fields : cpu[c].size[f] \in Nat
    BY <1>2, ConstantsAssumption DEF KernelTypeOK, Insert
  <2>2. PICK k \in Keys : k = cpu[c].key
    BY <2>1
  <2>3. \A f \in Fields : Credited(k, f)' >= Credited(k, f)
    BY <1>0, <1>2, <2>1, <2>2, InsertCredits
  <2>4. \A j \in Keys \ {k}, f \in Fields : Credited(j, f)' = Credited(j, f)
    BY <1>0, <1>2, <2>2, InsertCredits
  <2>5. QED
    BY <2>3, <2>4 DEF OneGains
<1>3. ASSUME NEW c \in CPUs, ClassifierStep(c)
      PROVE  SameCredits \/ \E k \in Keys : OneGains(k)
  <2>1. CASE AddPackets(c) BY <2>1, <1>1 DEF AddPackets, Fields
  <2>2. CASE AddBytes(c) BY <2>2, <1>1 DEF AddBytes, Fields
  <2>3. CASE StoreFlags(c) BY <2>3, SameTable DEF StoreFlags
  <2>4. CASE StoreSeen(c) BY <2>4, SameTable DEF StoreSeen
  <2>5. CASE \E k \in Keys : Shrink(c, k) BY <2>5, UnlinkCredits DEF Shrink, values
  <2>6. CASE \E s \in Slots : Insert(c, s) BY <2>6, <1>2
  <2>7. CASE InsertFail(c) BY <2>7, SameTable DEF InsertFail, values
  <2>8. QED
    BY <1>3, <2>1, <2>2, <2>3, <2>4, <2>5, <2>6, <2>7 DEF ClassifierStep
<1>4. CASE Tick BY <1>4, SameTable DEF Tick, values
<1>5. ASSUME NEW c \in CPUs, NEW k \in Keys, NEW sz \in Sizes, NEW fl \in SUBSET TcpFlags,
             Observe(c, k, sz, fl)
      PROVE  SameCredits
  BY <1>5, SameTable DEF Observe, values
<1>6. QED
  BY <1>3, <1>4, <1>5 DEF KernelStep

----------------------------------------------------------------------------
(* No packet is counted twice *)

\* What a classifier run has reported as parsed and not added to a slot yet.
InHand(c) ==
    IF cpu[c].pc \in {"add_packets", "create"} THEN cpu[c].size["packets"] ELSE 0

CountedPackets == SumFunction([k \in Keys |-> Credited(k, "packets")])
PacketsInHand == SumFunction([c \in CPUs |-> InHand(c)])

\* Packets counted under some key, and packets on their way, were all parsed.
PacketsBounded == CountedPackets + PacketsInHand <= stats.parsed

LEMMA InHandType ==
    ASSUME KernelTypeOK, NEW c \in CPUs
    PROVE  InHand(c) \in Nat
<1>1. cpu[c].pc # "idle" => cpu[c].size["packets"] \in Nat
  BY ConstantsAssumption DEF KernelTypeOK, Fields
<1>2. QED
  BY <1>1 DEF InHand

LEMMA PacketTotals ==
    ASSUME KernelTypeOK
    PROVE  /\ CountedPackets = SumFunctionOnSet([k \in Keys |-> Credited(k, "packets")], Keys)
           /\ PacketsInHand = SumFunctionOnSet([c \in CPUs |-> InHand(c)], CPUs)
           /\ CountedPackets \in Nat /\ PacketsInHand \in Nat /\ stats.parsed \in Nat
<1>1. \A k \in Keys : Credited(k, "packets") \in Nat
  BY CreditedType DEF Fields
<1>2. \A c \in CPUs : InHand(c) \in Nat
  BY InHandType
<1> DEFINE counts == [k \in Keys |-> Credited(k, "packets")]
           hands == [c \in CPUs |-> InHand(c)]
<1>3. /\ DOMAIN counts = Keys /\ DOMAIN hands = CPUs
      /\ \A k \in Keys : counts[k] \in Nat
      /\ \A c \in CPUs : hands[c] \in Nat
  BY <1>1, <1>2
<1>4. CountedPackets = SumFunctionOnSet(counts, Keys) /\ PacketsInHand = SumFunctionOnSet(hands, CPUs)
  BY <1>3 DEF CountedPackets, PacketsInHand, SumFunction
<1>5. stats.parsed \in Nat
  BY DEF KernelTypeOK
<1> HIDE DEF counts, hands
<1>6. SumFunctionOnSet(counts, Keys) \in Nat /\ SumFunctionOnSet(hands, CPUs) \in Nat
  BY <1>3, FinitenessAssumption, SumType
<1>7. QED
  BY <1>4, <1>5, <1>6 DEF counts, hands

LEMMA SameCreditsCounted ==
    ASSUME SameCredits
    PROVE  CountedPackets' = CountedPackets
<1>1. [k \in Keys |-> Credited(k, "packets")]' = [k \in Keys |-> Credited(k, "packets")]
  BY DEF SameCredits, Fields
<1>2. QED
  BY <1>1 DEF CountedPackets

\* One key gains n packets.
LEMMA GainCounted ==
    ASSUME KernelTypeOK, NEW n \in Nat, NEW k \in Keys,
           Credited(k, "packets")' = Credited(k, "packets") + n,
           \A j \in Keys \ {k} : Credited(j, "packets")' = Credited(j, "packets")
    PROVE  CountedPackets' = CountedPackets + n
<1> DEFINE old == [j \in Keys |-> Credited(j, "packets")]
           new == [j \in Keys |-> Credited(j, "packets")']
<1>1. \A j \in Keys : Credited(j, "packets") \in Nat
  BY CreditedType DEF Fields
<1>2. /\ \A j \in Keys : old[j] \in Nat
      /\ new[k] \in Nat /\ new[k] = old[k] + n
      /\ \A j \in Keys \ {k} : new[j] = old[j]
  BY <1>1
<1>3. CountedPackets = SumFunctionOnSet(old, Keys) /\ CountedPackets' = SumFunctionOnSet(new, Keys)
  BY DEF CountedPackets, SumFunction
<1> HIDE DEF old, new
<1>4. /\ SumFunctionOnSet(old, Keys) \in Nat /\ SumFunctionOnSet(new, Keys) \in Nat
      /\ SumFunctionOnSet(new, Keys) + old[k] = SumFunctionOnSet(old, Keys) + new[k]
  BY <1>2, FinitenessAssumption, SumUpdate
<1>5. QED
  BY <1>2, <1>3, <1>4

\* A step of one CPU moves the packets of that CPU alone.
LEMMA HandMoves ==
    ASSUME KernelTypeOK, NEW c \in CPUs, NEW n \in Nat, InHand(c)' = n,
           \A d \in CPUs \ {c} : cpu'[d] = cpu[d]
    PROVE  /\ PacketsInHand \in Nat /\ PacketsInHand' \in Nat /\ InHand(c) \in Nat
           /\ PacketsInHand' + InHand(c) = PacketsInHand + n
<1> DEFINE old == [d \in CPUs |-> InHand(d)]
           new == [d \in CPUs |-> InHand(d)']
<1>1. \A d \in CPUs : InHand(d) \in Nat
  BY InHandType
<1>2. /\ \A d \in CPUs : old[d] \in Nat
      /\ old[c] = InHand(c) /\ new[c] = n
      /\ \A d \in CPUs \ {c} : new[d] = old[d]
  BY <1>1 DEF InHand
<1>3. PacketsInHand = SumFunctionOnSet(old, CPUs) /\ PacketsInHand' = SumFunctionOnSet(new, CPUs)
  BY DEF PacketsInHand, SumFunction
<1> HIDE DEF old, new
<1>4. /\ SumFunctionOnSet(old, CPUs) \in Nat /\ SumFunctionOnSet(new, CPUs) \in Nat
      /\ SumFunctionOnSet(new, CPUs) + old[c] = SumFunctionOnSet(old, CPUs) + new[c]
  BY <1>2, FinitenessAssumption, SumUpdate
<1>5. QED
  BY <1>1, <1>2, <1>3, <1>4

LEMMA SameHands ==
    ASSUME cpu' = cpu
    PROVE  PacketsInHand' = PacketsInHand
<1>1. [c \in CPUs |-> InHand(c)]' = [c \in CPUs |-> InHand(c)]
  BY DEF InHand
<1>2. QED
  BY <1>1 DEF PacketsInHand

LEMMA ObserveBounded ==
    ASSUME KernelTypeOK, PacketsBounded, NEW c \in CPUs, NEW k \in Keys, NEW sz \in Sizes,
           NEW fl \in SUBSET TcpFlags, Observe(c, k, sz, fl)
    PROVE  PacketsBounded'
<1>1. sz["packets"] \in Nat
  BY ConstantsAssumption DEF Fields
<1>2. stats'.parsed = stats.parsed + sz["packets"]
  BY DEF Observe, ParsedAfter, KernelTypeOK
<1>3. CountedPackets' = CountedPackets
  BY SameTable, SameCreditsCounted DEF Observe, values
<1>4. InHand(c) = 0 /\ InHand(c)' = sz["packets"] /\ \A d \in CPUs \ {c} : cpu'[d] = cpu[d]
  BY DEF Observe, AfterLookup, InHand, KernelTypeOK
<1>5. PacketsInHand' = PacketsInHand + sz["packets"]
  BY <1>1, <1>4, HandMoves
<1>6. QED
  BY <1>1, <1>2, <1>3, <1>5, PacketTotals DEF PacketsBounded

\* A run that adds its packets no longer has them in hand: a slot that is linked
\* gains them for its key, one that is not loses them.
LEMMA AddPacketsBounded ==
    ASSUME KernelTypeOK, PacketsBounded, NEW c \in CPUs, AddPackets(c)
    PROVE  PacketsBounded'
<1>1. PICK n \in Nat : n = cpu[c].size["packets"]
  BY ConstantsAssumption DEF KernelTypeOK, AddPackets, Fields
<1>2. cpu[c].slot \in Slots /\ None \notin Slots
  BY ConstantsAssumption DEF KernelTypeOK, AddPackets
<1>3. InHand(c) = n /\ InHand(c)' = 0 /\ \A d \in CPUs \ {c} : cpu'[d] = cpu[d]
  BY <1>1 DEF AddPackets, InHand, KernelTypeOK
<1>4. PacketsInHand' + n = PacketsInHand /\ PacketsInHand' \in Nat
  BY <1>3, HandMoves
<1>5. \A j \in Keys : Credited(j, "packets") \in Nat
  BY CreditedType DEF Fields
<1>6. \A j \in Keys : Credited(j, "packets")' =
        Credited(j, "packets") + (IF flows[j] = cpu[c].slot THEN n ELSE 0)
  BY <1>1, AddCredits DEF AddPackets, Fields
<1>7. CountedPackets' \in {CountedPackets, CountedPackets + n}
  <2>1. CASE \E k \in Keys : flows[k] = cpu[c].slot
    <3>1. PICK k \in Keys : flows[k] = cpu[c].slot
      BY <2>1
    <3>2. \A j \in Keys \ {k} : flows[j] # cpu[c].slot
      BY <1>2, <3>1 DEF KernelTypeOK, Linked
    <3>3. \A j \in Keys \ {k} : Credited(j, "packets")' = Credited(j, "packets")
      BY <1>5, <1>6, <3>2
    <3>4. Credited(k, "packets")' = Credited(k, "packets") + n
      BY <1>6, <3>1
    <3>5. QED
      BY <3>3, <3>4, GainCounted
  <2>2. CASE ~\E k \in Keys : flows[k] = cpu[c].slot
    <3>1. \A j \in Keys : Credited(j, "packets")' = Credited(j, "packets")
      BY <1>5, <1>6, <2>2
    <3>2. QED
      BY <3>1 DEF CountedPackets
  <2>3. QED
    BY <2>1, <2>2
<1>8. stats' = stats
  BY DEF AddPackets
<1>9. QED
  BY <1>4, <1>7, <1>8, PacketTotals DEF PacketsBounded

LEMMA InsertBounded ==
    ASSUME KernelTypeOK, PacketsBounded, NEW c \in CPUs, NEW s \in Slots, Insert(c, s)
    PROVE  PacketsBounded'
<1>1. PICK n \in Nat : n = cpu[c].size["packets"]
  BY ConstantsAssumption DEF KernelTypeOK, Insert, Fields
<1>2. PICK k \in Keys : k = cpu[c].key
  BY DEF KernelTypeOK, Insert
<1>3. InHand(c) = n /\ InHand(c)' = 0 /\ \A d \in CPUs \ {c} : cpu'[d] = cpu[d]
  BY <1>1 DEF Insert, InHand, KernelTypeOK, IdleCpu
<1>4. PacketsInHand' + n = PacketsInHand /\ PacketsInHand' \in Nat
  BY <1>3, HandMoves
<1>5. \A j \in Keys : Credited(j, "packets") \in Nat
  BY CreditedType DEF Fields
<1>6. /\ Credited(k, "packets")' = Credited(k, "packets") + n
      /\ \A j \in Keys \ {k} : Credited(j, "packets")' = Credited(j, "packets")
  BY <1>1, <1>2, <1>5, InsertCredits DEF Fields
<1>7. CountedPackets' = CountedPackets + n
  BY <1>6, GainCounted
<1>8. stats'.parsed = stats.parsed
  BY DEF Insert, KernelTypeOK
<1>9. QED
  BY <1>4, <1>7, <1>8, PacketTotals DEF PacketsBounded

\* A step of a run that has nothing in hand, before and after, or that gives up.
LEMMA EmptyHandBounded ==
    ASSUME KernelTypeOK, PacketsBounded, NEW c \in CPUs, InHand(c)' = 0,
           \A d \in CPUs \ {c} : cpu'[d] = cpu[d],
           CountedPackets' = CountedPackets, stats' = stats
    PROVE  PacketsBounded'
<1>1. PacketsInHand' + InHand(c) = PacketsInHand /\ PacketsInHand' \in Nat /\ InHand(c) \in Nat
  BY HandMoves
<1>2. QED
  BY <1>1, PacketTotals DEF PacketsBounded

LEMMA ClassifierBounded ==
    ASSUME KernelTypeOK, PacketsBounded, NEW c \in CPUs, ClassifierStep(c)
    PROVE  PacketsBounded'
<1>1. CASE AddPackets(c)
  BY <1>1, AddPacketsBounded
<1>2. CASE AddBytes(c)
  <2>1. InHand(c)' = 0 /\ (\A d \in CPUs \ {c} : cpu'[d] = cpu[d]) /\ stats' = stats
    BY <1>2 DEF AddBytes, InHand, KernelTypeOK
  <2>2. \A j \in Keys : Credited(j, "packets") \in Nat
    BY CreditedType DEF Fields
  <2>3. \A j \in Keys : Credited(j, "packets")' = Credited(j, "packets")
    BY <1>2, <2>2, AddCredits DEF AddBytes, Fields
  <2>4. CountedPackets' = CountedPackets
    BY <2>3 DEF CountedPackets
  <2>5. QED
    BY <2>1, <2>4, EmptyHandBounded
<1>3. CASE StoreFlags(c)
  <2>1. InHand(c)' = 0 /\ (\A d \in CPUs \ {c} : cpu'[d] = cpu[d]) /\ stats' = stats
    BY <1>3 DEF StoreFlags, InHand, KernelTypeOK
  <2>2. QED
    BY <1>3, <2>1, SameTable, SameCreditsCounted, EmptyHandBounded DEF StoreFlags
<1>4. CASE StoreSeen(c)
  <2>1. InHand(c)' = 0 /\ (\A d \in CPUs \ {c} : cpu'[d] = cpu[d]) /\ stats' = stats
    BY <1>4 DEF StoreSeen, InHand, KernelTypeOK, IdleCpu
  <2>2. QED
    BY <1>4, <2>1, SameTable, SameCreditsCounted, EmptyHandBounded DEF StoreSeen
<1>5. ASSUME NEW k \in Keys, Shrink(c, k) PROVE PacketsBounded'
  BY <1>5, UnlinkCredits, SameCreditsCounted, SameHands DEF Shrink, values, PacketsBounded
<1>6. ASSUME NEW s \in Slots, Insert(c, s) PROVE PacketsBounded'
  BY <1>6, InsertBounded
<1>7. CASE InsertFail(c)
  <2>1. InHand(c)' = 0 /\ (\A d \in CPUs \ {c} : cpu'[d] = cpu[d]) /\ stats' = stats
    BY <1>7 DEF InsertFail, InHand, KernelTypeOK, IdleCpu
  <2>2. QED
    BY <1>7, <2>1, SameTable, SameCreditsCounted, EmptyHandBounded DEF InsertFail, values
<1>8. QED
  BY <1>1, <1>2, <1>3, <1>4, <1>5, <1>6, <1>7 DEF ClassifierStep

\* A deletion by the agent retires counts and touches no run.
LEMMA DeleteBounded ==
    ASSUME KernelTypeOK, PacketsBounded, NEW ks, Unlink(ks), UNCHANGED <<count, cpu, stats>>
    PROVE  PacketsBounded'
BY UnlinkCredits, SameCreditsCounted, SameHands DEF PacketsBounded

LEMMA QuietBounded ==
    ASSUME PacketsBounded, UNCHANGED <<flows, count, retired, cpu, stats>>
    PROVE  PacketsBounded'
BY SameTable, SameCreditsCounted, SameHands DEF PacketsBounded

LEMMA InitBounded ==
    ASSUME KernelInit
    PROVE  PacketsBounded
<1>1. \A k \in Keys : [j \in Keys |-> Credited(j, "packets")][k] = 0
  BY DEF KernelInit, Credited, InMap, Linked, Zero, Fields
<1>2. \A c \in CPUs : [d \in CPUs |-> InHand(d)][c] = 0
  BY DEF KernelInit, InHand, IdleCpu
<1>3. CountedPackets = 0 /\ PacketsInHand = 0
  <2>1. KernelTypeOK
    BY KernelInitType
  <2>2. QED
    BY <1>1, <1>2, <2>1, PacketTotals, SumZero, FinitenessAssumption
<1>4. QED
  BY <1>3 DEF KernelInit, PacketsBounded

\* No interleaving of CPUs, LRU eviction, replacement and deletion by the agent
\* makes the map hold more packets than STAT_PARSED reports (obserwrt-bpf.c:362,
\* 393): a run adds what it holds to at most one key, and a slot reused under it
\* moves packets between flows but invents none.
THEOREM NeverOvercounts == KernelSpec => []NoOvercount
<1>1. KernelInit => KernelTypeOK /\ PacketsBounded
  BY KernelInitType, InitBounded
<1>2. KernelTypeOK /\ PacketsBounded /\ [KernelNext]_kernelVars => PacketsBounded'
  <2> SUFFICES ASSUME KernelTypeOK, PacketsBounded, [KernelNext]_kernelVars
               PROVE  PacketsBounded'
    OBVIOUS
  <2>1. CASE KernelStep
    <3>1. CASE Tick
      BY <3>1, QuietBounded DEF Tick, values
    <3>2. QED
      BY <2>1, <3>1, ObserveBounded, ClassifierBounded DEF KernelStep
  <2>2. ASSUME NEW ks \in SUBSET Keys, DeleteElems(ks) PROVE PacketsBounded'
    BY <2>2, DeleteBounded DEF DeleteElems, values
  <2>3. CASE UNCHANGED kernelVars
    BY <2>3, QuietBounded DEF kernelVars, values
  <2>4. QED
    BY <2>1, <2>2, <2>3 DEF KernelNext
<1>3. KernelTypeOK /\ PacketsBounded => NoOvercount
  BY PacketTotals DEF PacketsBounded, NoOvercount, CountedPackets
<1>4. QED
  BY <1>1, <1>2, <1>3, KernelTypeCorrect, PTL DEF KernelSpec
=============================================================================
