-------------------------- MODULE DropTracerProofs --------------------------
(* The drops a collector is told of are those the tracer counted, for every   *)
(* number of CPUs, drop records and slots, and any number of passes, failed   *)
(* drains and refused datagrams.                                              *)
EXTENDS DropTracer, FlowMapProofs

----------------------------------------------------------------------------
(* The inductive invariant *)

\* The running batch holds nothing between drains, nor of a bucket that the
\* drain has not reached (bpf.cpp:416-470).
BatchFits ==
    /\ pass # "drain" => batch = NoPackets
    /\ \A k \in left : batch[k] = 0

\* What a drain removed left the map with an entry of its key.
RemovedWasCounted ==
    \A k \in Keys : taken[k] + spoilt[k] + batch[k] <= retired[k]["packets"]

\* The tracer's two counters add up.
ParsedOrNot == stats.parsed + dropStats.unparsed = dropStats.drops

\* Packets handed over are with every active exporter, or in the vectors.
GivenOrHeld ==
    \A e \in Exporters, k \in Keys : Active(e) => given[e][k] + rows[k] = taken[k]

IInv ==
    /\ TypeOK /\ sendFails \in Nat
    /\ PacketsBounded
    /\ BatchFits
    /\ RemovedWasCounted
    /\ ParsedOrNot
    /\ GivenOrHeld
    /\ pass \in {"idle", "report"} => rows = NoPackets
    /\ FailuresReported

----------------------------------------------------------------------------
(* Types *)

LEMMA Types ==
    ASSUME TypeOK
    PROVE  /\ batch \in [Keys -> Nat] /\ rows \in [Keys -> Nat]
           /\ taken \in [Keys -> Nat] /\ spoilt \in [Keys -> Nat]
           /\ failures \in [Exporters -> Nat] /\ errors \in Nat
           /\ failures["ipfix"] \in Nat /\ failures["syslog"] \in Nat
           /\ given \in [Exporters -> [Keys -> Nat]]
           /\ dropStats \in [drops : Nat, unparsed : Nat]
           /\ dropStats.drops \in Nat /\ dropStats.unparsed \in Nat
           /\ KernelTypeOK
BY DEF TypeOK, Exporters

LEMMA Constants ==
    /\ OnePacket \in Sizes /\ OnePacket["packets"] = 1
    /\ {MaxMarks, MaxDrainFails, MaxSendFails} \subseteq Nat
    /\ NoPackets \in [Keys -> Nat]
BY DropTracerAssumption DEF OnePacket, NoPackets, Fields

LEMMA PlusType ==
    ASSUME NEW a \in [Keys -> Nat], NEW b \in [Keys -> Nat]
    PROVE  Plus(a, b) \in [Keys -> Nat] /\ \A k \in Keys : Plus(a, b)[k] = a[k] + b[k]
BY DEF Plus

LEMMA PacketsType ==
    ASSUME KernelTypeOK, NEW k \in Keys
    PROVE  InMap(k, "packets") \in Nat /\ retired[k]["packets"] \in Nat
BY CreditedType DEF Fields, KernelTypeOK

\* The type of the tracer's map, alone.
LEMMA KernelSame ==
    ASSUME KernelTypeOK, UNCHANGED kernelVars
    PROVE  KernelTypeOK'
BY DEF kernelVars, values, KernelTypeOK, Linked

LEMMA BoundedSame ==
    ASSUME PacketsBounded, UNCHANGED kernelVars
    PROVE  PacketsBounded'
BY QuietBounded DEF kernelVars, values

----------------------------------------------------------------------------
(* Every status is that of a drop *)

\* Whatever the reason is called, and without names too, a collector takes the
\* record for a drop (drop_reason.cpp:18-76).
LEMMA StatusIsDrop ==
    ASSUME NEW n
    PROVE  status_for_name(n) \in Nat /\ status_for_name(n) >= 128
<1> DEFINE hits == {i \in DOMAIN StatusTable : StatusTable[i].parts \cap n # {}}
<1>1. CASE hits = {}
  BY <1>1 DEF status_for_name, DROP_UNKNOWN
<1>2. CASE hits # {}
  <2>1. DOMAIN StatusTable = 1..11
    BY DEF StatusTable
  <2>2. \A i \in 1..11 : StatusTable[i].status \in Nat /\ StatusTable[i].status >= 128
    BY DEF StatusTable
  <2>3. hits \in SUBSET Nat
    BY <2>1
  <2>4. \E i \in hits : \A j \in hits : i <= j
    <3> HIDE DEF hits
    <3> QED
      BY <1>2, <2>3, LeastNatural
  <2>5. (CHOOSE i \in hits : \A j \in hits : i <= j) \in hits
    BY <2>4
  <2>6. (CHOOSE i \in hits : \A j \in hits : i <= j) \in 1..11
    BY <2>1, <2>5
  <2>7. status_for_name(n) = StatusTable[CHOOSE i \in hits : \A j \in hits : i <= j].status
    BY <1>2 DEF status_for_name
  <2>8. QED
    BY <2>2, <2>6, <2>7
<1>3. QED
  BY <1>1, <1>2

LEMMA RecordIsDrop ==
    ASSUME NEW k, NEW n \in Nat
    PROVE  Dropped(Lookup(k), RecordPackets(NoDelta, n)) = n
<1>1. Lookup(k) \in Nat /\ Lookup(k) >= 128
  BY StatusIsDrop DEF Lookup, DROP_UNKNOWN
<1>2. QED
  BY <1>1 DEF Dropped, RecordPackets

----------------------------------------------------------------------------
(* Steps *)

LEMMA InitInv ==
    ASSUME Init
    PROVE  IInv
<1>1. KernelTypeOK /\ PacketsBounded
  BY KernelInitType, InitBounded DEF Init
<1>2. TypeOK /\ sendFails \in Nat
  BY <1>1, Constants DEF Init, TypeOK
<1>3. \A k \in Keys : retired[k]["packets"] = 0
  BY DEF Init, KernelInit, Zero, Fields
<1>4. BatchFits /\ RemovedWasCounted
  BY <1>3 DEF Init, BatchFits, RemovedWasCounted, NoPackets
<1>5. ParsedOrNot
  BY DEF Init, KernelInit, ParsedOrNot
<1>6. GivenOrHeld /\ FailuresReported /\ rows = NoPackets
  BY DEF Init, GivenOrHeld, FailuresReported, NoPackets, Exporters
<1>7. QED
  BY <1>1, <1>2, <1>4, <1>5, <1>6 DEF IInv

\* The tracer on its CPUs: entries retire counts, and the pass stands still.
LEMMA KernelSide ==
    ASSUME IInv, KernelTypeOK', PacketsBounded', ParsedOrNot', UNCHANGED <<passVars, exportVars, setup>>,
           marked' \subseteq Devices, dropStats' \in [drops : Nat, unparsed : Nat],
           \A k \in Keys : retired'[k]["packets"] >= retired[k]["packets"]
    PROVE  IInv'
<1>1. TypeOK' /\ sendFails' \in Nat
  BY DEF IInv, TypeOK, passVars, exportVars
<1>2. BatchFits' /\ GivenOrHeld' /\ FailuresReported'
      /\ (pass \in {"idle", "report"} => rows = NoPackets)'
  BY DEF IInv, BatchFits, GivenOrHeld, FailuresReported, Active, passVars, exportVars
<1>3. RemovedWasCounted'
  <2> SUFFICES ASSUME NEW k \in Keys
               PROVE  taken[k] + spoilt[k] + batch[k] <= retired'[k]["packets"]
    BY DEF RemovedWasCounted, passVars
  <2>1. taken[k] \in Nat /\ spoilt[k] \in Nat /\ batch[k] \in Nat
    BY Types DEF IInv
  <2>2. retired[k]["packets"] \in Nat /\ retired'[k]["packets"] \in Nat
    BY DEF IInv, TypeOK, KernelTypeOK, Fields
  <2>3. QED
    BY <2>1, <2>2 DEF IInv, RemovedWasCounted
<1>4. QED
  BY <1>1, <1>2, <1>3 DEF IInv

LEMMA KfreeInv ==
    ASSUME IInv, NEW c \in CPUs, NEW k \in Keys, Kfree(c, k)
    PROVE  IInv'
<1>1. Observe(c, k, OnePacket, {}) /\ OnePacket \in Sizes /\ {} \in SUBSET TcpFlags
  BY Constants DEF Kfree
<1>2. KernelTypeOK' /\ PacketsBounded'
  BY <1>1, ObserveType, ObserveBounded DEF IInv, TypeOK
<1>3. retired' = retired /\ stats'.parsed = stats.parsed + 1
  BY <1>1, Constants DEF Observe, ParsedAfter, IInv, TypeOK, KernelTypeOK
<1>4. /\ dropStats' = [dropStats EXCEPT !.drops = @ + 1]
      /\ UNCHANGED <<setup, marked, marks, passVars, exportVars>>
  BY DEF Kfree
<1>5. /\ dropStats'.drops = dropStats.drops + 1 /\ dropStats'.unparsed = dropStats.unparsed
      /\ dropStats' \in [drops : Nat, unparsed : Nat]
      /\ dropStats.drops \in Nat /\ dropStats.unparsed \in Nat /\ stats.parsed \in Nat
  <2>1. dropStats \in [drops : Nat, unparsed : Nat] /\ KernelTypeOK
    BY Types DEF IInv
  <2>2. stats.parsed \in Nat
    BY <2>1 DEF KernelTypeOK
  <2>3. QED
    BY <1>4, <2>1, <2>2
<1>6. ParsedOrNot'
  BY <1>3, <1>5 DEF IInv, ParsedOrNot
<1>7. \A j \in Keys : retired'[j]["packets"] >= retired[j]["packets"]
  BY <1>3, PacketsType, Types DEF IInv
<1>8. QED
  BY <1>2, <1>4, <1>5, <1>6, <1>7, KernelSide DEF IInv, TypeOK

\* Nothing of the map moves.
LEMMA MarkInv ==
    ASSUME IInv, NEW i \in Devices, MarkDevice(i) \/ KfreeUnparsed(i)
    PROVE  IInv'
<1>1. UNCHANGED <<kernelVars, setup, passVars, exportVars>>
  BY DEF MarkDevice, KfreeUnparsed
<1>2. marked' \subseteq Devices
  BY DEF MarkDevice, KfreeUnparsed, IInv, TypeOK
<1>3. KernelTypeOK' /\ PacketsBounded' /\ retired' = retired /\ stats' = stats
  BY <1>1, KernelSame, BoundedSame DEF IInv, TypeOK, kernelVars
<1>4. dropStats' \in [drops : Nat, unparsed : Nat] /\ ParsedOrNot'
  <2>1. dropStats.drops \in Nat /\ dropStats.unparsed \in Nat /\ stats.parsed \in Nat
        /\ dropStats \in [drops : Nat, unparsed : Nat]
    BY Types DEF IInv, KernelTypeOK
  <2>2. CASE MarkDevice(i)
    BY <1>3, <2>1, <2>2 DEF MarkDevice, IInv, ParsedOrNot
  <2>3. CASE KfreeUnparsed(i)
    <3>1. dropStats' = [drops |-> dropStats.drops + 1, unparsed |-> dropStats.unparsed + 1]
      BY <2>3 DEF KfreeUnparsed
    <3>2. QED
      BY <1>3, <2>1, <3>1 DEF IInv, ParsedOrNot
  <2>4. QED
    BY <2>2, <2>3
<1>5. \A j \in Keys : retired'[j]["packets"] >= retired[j]["packets"]
  BY <1>3, PacketsType, Types DEF IInv
<1>6. QED
  BY <1>1, <1>2, <1>3, <1>4, <1>5, KernelSide

\* A step of a run never takes back what was retired.
LEMMA ClassifierRetires ==
    ASSUME KernelTypeOK, NEW c \in CPUs, ClassifierStep(c), NEW k \in Keys
    PROVE  retired'[k]["packets"] >= retired[k]["packets"] /\ stats'.parsed = stats.parsed
<1>1. /\ retired[k]["packets"] \in Nat
      /\ \A j \in Keys : Credited(j, "packets") \in Nat /\ InMap(j, "packets") \in Nat
                         /\ retired[j]["packets"] \in Nat
  BY CreditedType DEF KernelTypeOK, Fields
<1>2. ASSUME retired' = retired, stats' = stats
      PROVE  retired'[k]["packets"] >= retired[k]["packets"] /\ stats'.parsed = stats.parsed
  BY <1>1, <1>2
<1>3. ASSUME NEW j \in Keys, Shrink(c, j)
      PROVE  retired'[k]["packets"] >= retired[k]["packets"] /\ stats'.parsed = stats.parsed
  BY <1>1, <1>3 DEF Shrink, Unlink, Credited, Fields
<1>4. ASSUME NEW s \in Slots, Insert(c, s)
      PROVE  retired'[k]["packets"] >= retired[k]["packets"] /\ stats'.parsed = stats.parsed
  <2>1. cpu[c].key \in Keys
    BY <1>4 DEF KernelTypeOK, Insert
  <2>2. retired' = [retired EXCEPT ![cpu[c].key] = [f \in Fields |-> Credited(cpu[c].key, f)]]
    BY <1>4 DEF Insert
  <2>3. stats'.parsed = stats.parsed
    BY <1>4 DEF Insert, KernelTypeOK
  <2>4. CASE k = cpu[c].key
    <3>1. retired'[k]["packets"] = retired[k]["packets"] + InMap(k, "packets")
      BY <2>1, <2>2, <2>4 DEF Credited, Fields, KernelTypeOK
    <3>2. QED
      BY <1>1, <2>3, <3>1
  <2>5. CASE k # cpu[c].key
    BY <1>1, <2>2, <2>3, <2>5 DEF KernelTypeOK
  <2>6. QED
    BY <2>4, <2>5
<1>5. QED
  BY <1>2, <1>3, <1>4 DEF ClassifierStep, AddPackets, AddBytes, StoreFlags, StoreSeen, InsertFail

LEMMA TracerStepInv ==
    ASSUME IInv, TracerStep
    PROVE  IInv'
<1>1. PICK c \in CPUs : ClassifierStep(c)
  BY DEF TracerStep
<1>2. KernelTypeOK' /\ PacketsBounded'
  BY <1>1, ClassifierStepType, ClassifierBounded DEF IInv, TypeOK
<1>3. UNCHANGED <<tracerVars, passVars, exportVars>>
  BY DEF TracerStep
<1>4. \A k \in Keys : retired'[k]["packets"] >= retired[k]["packets"]
  BY <1>1, ClassifierRetires DEF IInv, TypeOK
<1>5. ParsedOrNot'
  <2>1. stats'.parsed = stats.parsed
    BY <1>1, Zenon DEF ClassifierStep, AddPackets, AddBytes, StoreFlags, StoreSeen, InsertFail,
       Shrink, Insert, IInv, TypeOK, KernelTypeOK
  <2>2. QED
    BY <1>3, <2>1 DEF IInv, ParsedOrNot, tracerVars
<1>6. QED
  BY <1>2, <1>3, <1>4, <1>5, KernelSide DEF IInv, TypeOK, tracerVars

\* Steps of the pass that leave the map alone.
LEMMA PassSide ==
    ASSUME IInv, UNCHANGED <<kernelVars, tracerVars>>
    PROVE  /\ KernelTypeOK' /\ PacketsBounded' /\ ParsedOrNot'
           /\ setup' \in Setups /\ marked' \subseteq Devices
           /\ dropStats' \in [drops : Nat, unparsed : Nat]
           /\ retired' = retired
           /\ \A e \in Exporters : Active(e)' = Active(e)
<1>1. KernelTypeOK' /\ PacketsBounded'
  BY KernelSame, BoundedSame DEF IInv, TypeOK
<1>2. QED
  BY <1>1 DEF IInv, TypeOK, ParsedOrNot, Active, tracerVars, kernelVars

LEMMA StartDrainInv ==
    ASSUME IInv, StartDrain
    PROVE  IInv'
<1>1. /\ pass = "idle" /\ pass' = "drain" /\ left' = Keys /\ rows' = NoPackets
      /\ UNCHANGED <<kernelVars, tracerVars, batch, taken, spoilt, drainFails, exportVars>>
  BY DEF StartDrain, AllBuckets
<1>2. rows = NoPackets /\ batch = NoPackets
  BY <1>1 DEF IInv, BatchFits
<1>3. TypeOK' /\ sendFails' \in Nat
  BY <1>1, <1>2, PassSide, Types, Constants DEF IInv, TypeOK, exportVars
<1>4. BatchFits' /\ RemovedWasCounted'
  BY <1>1, <1>2, PassSide DEF IInv, BatchFits, RemovedWasCounted, NoPackets
<1>5. GivenOrHeld' /\ FailuresReported'
  BY <1>1, <1>2 DEF IInv, GivenOrHeld, FailuresReported, Active, exportVars, tracerVars
<1>6. QED
  BY <1>1, <1>3, <1>4, <1>5, PassSide DEF IInv

\* The entry's packets move from the map to the batch, and are retired.
LEMMA TakeBucketInv ==
    ASSUME IInv, NEW k \in Keys, TakeBucket(k)
    PROVE  IInv'
<1>1. /\ pass = "drain" /\ k \in left /\ left' = left \ {k} /\ Unlink({k})
      /\ batch' = [batch EXCEPT ![k] = InMap(k, "packets")]
      /\ UNCHANGED <<values, cpu, clock, stats, owed, tracerVars, pass, rows, taken, spoilt,
                     drainFails, exportVars>>
  BY DEF TakeBucket, DeleteEntry
<1>2. KernelTypeOK /\ batch \in [Keys -> Nat] /\ batch[k] = 0
  BY <1>1, Types DEF IInv, BatchFits
<1>3. KernelTypeOK' /\ PacketsBounded'
  BY <1>1, <1>2, UnlinkKeepsType, DeleteBounded DEF IInv, values
<1>4. batch' \in [Keys -> Nat]
  BY <1>1, <1>2, PacketsType
<1>5. TypeOK' /\ sendFails' \in Nat
  BY <1>1, <1>3, <1>4, Types DEF IInv, TypeOK, tracerVars, exportVars
<1>6. BatchFits'
  BY <1>1, <1>2 DEF IInv, BatchFits
<1>7. RemovedWasCounted'
  <2> SUFFICES ASSUME NEW j \in Keys
               PROVE  taken[j] + spoilt[j] + batch'[j] <= retired'[j]["packets"]
    BY <1>1 DEF RemovedWasCounted
  <2>1. /\ taken[j] \in Nat /\ spoilt[j] \in Nat /\ batch[j] \in Nat
        /\ InMap(j, "packets") \in Nat /\ retired[j]["packets"] \in Nat
        /\ taken[j] + spoilt[j] + batch[j] <= retired[j]["packets"]
    BY <1>2, Types, PacketsType DEF IInv, RemovedWasCounted
  <2>2. CASE j = k
    <3>1. /\ batch'[j] = InMap(j, "packets")
          /\ retired'[j]["packets"] = retired[j]["packets"] + InMap(j, "packets")
      BY <1>1, <1>2, <2>2 DEF Unlink, Credited, Fields
    <3>2. QED
      BY <1>2, <2>1, <2>2, <3>1
  <2>3. CASE j # k
    <3>1. batch'[j] = batch[j] /\ retired'[j]["packets"] = retired[j]["packets"]
      BY <1>1, <1>2, <2>3 DEF Unlink, Fields
    <3>2. QED
      BY <2>1, <3>1
  <2>4. QED
    BY <2>2, <2>3
<1>8. ParsedOrNot' /\ GivenOrHeld' /\ FailuresReported'
      /\ (pass \in {"idle", "report"} => rows = NoPackets)'
  BY <1>1 DEF IInv, ParsedOrNot, GivenOrHeld, FailuresReported, Active, exportVars, tracerVars
<1>9. QED
  BY <1>3, <1>5, <1>6, <1>7, <1>8 DEF IInv

LEMMA BatchEndInv ==
    ASSUME IInv, BatchEnd
    PROVE  IInv'
<1>1. /\ pass = "drain" /\ rows' = Plus(rows, batch) /\ taken' = Plus(taken, batch)
      /\ batch' = NoPackets /\ pass' = (IF left = {} THEN "export" ELSE pass)
      /\ UNCHANGED <<kernelVars, tracerVars, left, spoilt, drainFails, exportVars>>
  BY DEF BatchEnd
<1>2. /\ batch \in [Keys -> Nat] /\ rows \in [Keys -> Nat]
      /\ taken \in [Keys -> Nat] /\ spoilt \in [Keys -> Nat]
  BY Types DEF IInv
<1>3. /\ rows' \in [Keys -> Nat] /\ taken' \in [Keys -> Nat]
      /\ \A k \in Keys : /\ rows'[k] = rows[k] + batch[k]
                         /\ taken'[k] = taken[k] + batch[k]
                         /\ batch'[k] = 0
  BY <1>1, <1>2, PlusType DEF NoPackets
<1>4. TypeOK' /\ sendFails' \in Nat
  BY <1>1, <1>2, <1>3, PassSide, Types, Constants DEF IInv, TypeOK, exportVars
<1>5. BatchFits'
  <2>1. left \subseteq Keys
    BY DEF IInv, TypeOK
  <2>2. QED
    BY <1>1, <1>3, <2>1 DEF BatchFits
<1>6. RemovedWasCounted'
  <2> SUFFICES ASSUME NEW k \in Keys
               PROVE  taken'[k] + spoilt[k] + batch'[k] <= retired[k]["packets"]
    BY <1>1, PassSide DEF RemovedWasCounted
  <2>1. /\ taken[k] \in Nat /\ spoilt[k] \in Nat /\ batch[k] \in Nat
        /\ taken[k] + spoilt[k] + batch[k] <= retired[k]["packets"]
    BY <1>2 DEF IInv, RemovedWasCounted
  <2>2. taken'[k] + spoilt[k] + batch'[k] = taken[k] + spoilt[k] + batch[k]
    BY <1>3, <2>1
  <2>3. QED
    BY <2>1, <2>2
<1>7. GivenOrHeld'
  <2> SUFFICES ASSUME NEW e \in Exporters, NEW k \in Keys, Active(e)
               PROVE  given[e][k] + rows'[k] = taken'[k]
    BY <1>1, PassSide DEF GivenOrHeld, exportVars
  <2>1. given[e][k] + rows[k] = taken[k]
    BY DEF IInv, GivenOrHeld
  <2>2. given[e][k] \in Nat /\ rows[k] \in Nat /\ batch[k] \in Nat
    BY <1>2, Types DEF IInv
  <2>3. QED
    BY <1>3, <2>1, <2>2
<1>8. FailuresReported'
  BY <1>1 DEF IInv, FailuresReported, exportVars, tracerVars
<1>9. QED
  BY <1>1, <1>4, <1>5, <1>6, <1>7, <1>8, PassSide DEF IInv

LEMMA BatchFailInv ==
    ASSUME IInv, BatchFail
    PROVE  IInv'
<1>1. /\ pass = "drain" /\ pass' = "export" /\ left' = {} /\ rows' = rows
      /\ spoilt' = Plus(spoilt, batch) /\ batch' = NoPackets
      /\ UNCHANGED <<kernelVars, tracerVars, taken, exportVars>>
  BY DEF BatchFail, RowsKept
<1>2. /\ batch \in [Keys -> Nat] /\ taken \in [Keys -> Nat] /\ spoilt \in [Keys -> Nat]
  BY Types DEF IInv
<1>3. /\ spoilt' \in [Keys -> Nat]
      /\ \A k \in Keys : spoilt'[k] = spoilt[k] + batch[k] /\ batch'[k] = 0
  BY <1>1, <1>2, PlusType DEF NoPackets
<1>4. TypeOK' /\ sendFails' \in Nat
  BY <1>1, <1>2, <1>3, PassSide, Types, Constants DEF IInv, TypeOK, exportVars
<1>5. BatchFits'
  BY <1>1 DEF BatchFits
<1>6. RemovedWasCounted'
  <2> SUFFICES ASSUME NEW k \in Keys
               PROVE  taken[k] + spoilt'[k] + batch'[k] <= retired[k]["packets"]
    BY <1>1, PassSide DEF RemovedWasCounted
  <2>1. /\ taken[k] \in Nat /\ spoilt[k] \in Nat /\ batch[k] \in Nat
        /\ taken[k] + spoilt[k] + batch[k] <= retired[k]["packets"]
    BY <1>2 DEF IInv, RemovedWasCounted
  <2>2. taken[k] + spoilt'[k] + batch'[k] = taken[k] + spoilt[k] + batch[k]
    BY <1>3, <2>1
  <2>3. QED
    BY <2>1, <2>2
<1>7. GivenOrHeld' /\ FailuresReported'
  BY <1>1, PassSide DEF IInv, GivenOrHeld, FailuresReported, exportVars, tracerVars
<1>8. QED
  BY <1>1, <1>4, <1>5, <1>6, <1>7, PassSide DEF IInv

\* A refused datagram is in the failures of its socket.
LEMMA RefusedCounts ==
    ASSUME IInv, NEW e \in Exporters, NEW n \in Nat, Refused(e, n), UNCHANGED <<setup, errors>>
    PROVE  failures' \in [Exporters -> Nat] /\ sendFails' \in Nat /\ FailuresReported'
<1>1. PICK m \in 0..n : failures' = [failures EXCEPT ![e] = @ + m] /\ sendFails' = sendFails + m
  BY DEF Refused
<1>2. /\ failures \in [Exporters -> Nat] /\ failures["ipfix"] \in Nat /\ failures["syslog"] \in Nat
      /\ errors \in Nat /\ sendFails \in Nat /\ m \in Nat
  BY <1>1, Types DEF IInv
<1>3. failures' \in [Exporters -> Nat] /\ sendFails' \in Nat
  BY <1>1, <1>2
<1>4. failures'["ipfix"] + failures'["syslog"] = failures["ipfix"] + failures["syslog"] + m
  <2>1. CASE e = "ipfix"
    BY <1>1, <1>2, <2>1 DEF Exporters
  <2>2. CASE e = "syslog"
    BY <1>1, <1>2, <2>2 DEF Exporters
  <2>3. QED
    BY <2>1, <2>2 DEF Exporters
<1>5. failures'["ipfix"] \in Nat /\ failures'["syslog"] \in Nat
  BY <1>3 DEF Exporters
<1>6. FailuresReported'
  <2>1. setup.metrics => errors + failures["ipfix"] + failures["syslog"] = sendFails
    BY DEF IInv, FailuresReported
  <2>2. setup.metrics => errors + failures'["ipfix"] + failures'["syslog"] = sendFails + m
    BY <1>2, <1>4, <1>5, <2>1
  <2>3. QED
    BY <1>1, <2>2 DEF FailuresReported
<1>7. QED
  BY <1>3, <1>6

LEMMA ExportRecordInv ==
    ASSUME IInv, NEW k \in Keys, ExportRecord(k)
    PROVE  IInv'
<1>1. /\ pass = "export" /\ rows' = [rows EXCEPT ![k] = 0]
      /\ given' = [e \in Exporters |->
                     IF Active(e)
                     THEN [given[e] EXCEPT ![k] = @ + Dropped(Lookup(k), RecordPackets(NoDelta, rows[k]))]
                     ELSE given[e]]
      /\ Refused("syslog", IF setup.syslog = "remote" THEN 1 ELSE 0)
      /\ UNCHANGED <<kernelVars, tracerVars, pass, left, batch, taken, spoilt, drainFails, errors>>
  BY DEF ExportRecord
<1>2. rows \in [Keys -> Nat] /\ given \in [Exporters -> [Keys -> Nat]] /\ rows[k] \in Nat
  BY Types DEF IInv
<1>3. given' = [e \in Exporters |->
                  IF Active(e) THEN [given[e] EXCEPT ![k] = @ + rows[k]] ELSE given[e]]
  BY <1>1, <1>2, RecordIsDrop
<1>4. given' \in [Exporters -> [Keys -> Nat]] /\ rows' \in [Keys -> Nat]
  BY <1>1, <1>2, <1>3
<1>5. failures' \in [Exporters -> Nat] /\ sendFails' \in Nat /\ FailuresReported'
  <2>1. "syslog" \in Exporters /\ (IF setup.syslog = "remote" THEN 1 ELSE 0) \in Nat
    BY DEF Exporters
  <2>2. QED
    BY <1>1, <2>1, RefusedCounts DEF tracerVars
<1>6. TypeOK'
  BY <1>1, <1>4, <1>5, PassSide, Types DEF IInv, TypeOK
<1>7. BatchFits' /\ RemovedWasCounted'
  BY <1>1, PassSide DEF IInv, BatchFits, RemovedWasCounted
<1>8. GivenOrHeld'
  <2> SUFFICES ASSUME NEW e \in Exporters, NEW j \in Keys, Active(e)
               PROVE  given'[e][j] + rows'[j] = taken[j]
    BY <1>1, PassSide DEF GivenOrHeld
  <2>1. given[e][j] + rows[j] = taken[j] /\ given[e][j] \in Nat /\ rows[j] \in Nat
    BY <1>2 DEF IInv, GivenOrHeld
  <2>2. given'[e] = [given[e] EXCEPT ![k] = @ + rows[k]]
    BY <1>3
  <2>3. CASE j = k
    BY <1>1, <1>2, <2>1, <2>2, <2>3
  <2>4. CASE j # k
    BY <1>1, <1>2, <2>1, <2>2, <2>4
  <2>5. QED
    BY <2>3, <2>4
<1>9. QED
  BY <1>1, <1>5, <1>6, <1>7, <1>8, PassSide DEF IInv

LEMMA FlushInv ==
    ASSUME IInv, Flush
    PROVE  IInv'
<1>1. /\ pass = "export" /\ rows = NoPackets /\ pass' = "report"
      /\ Refused("ipfix", IF setup.ipfix THEN MaxSendFails ELSE 0)
      /\ UNCHANGED <<kernelVars, tracerVars, left, batch, rows, taken, spoilt, drainFails,
                     errors, given>>
  BY DEF Flush
<1>2. failures' \in [Exporters -> Nat] /\ sendFails' \in Nat /\ FailuresReported'
  <2>1. "ipfix" \in Exporters /\ (IF setup.ipfix THEN MaxSendFails ELSE 0) \in Nat
    BY Constants DEF Exporters
  <2>2. QED
    BY <1>1, <2>1, RefusedCounts DEF tracerVars
<1>3. TypeOK'
  BY <1>1, <1>2, PassSide, Types DEF IInv, TypeOK
<1>4. BatchFits' /\ RemovedWasCounted' /\ GivenOrHeld'
  BY <1>1, PassSide DEF IInv, BatchFits, RemovedWasCounted, GivenOrHeld
<1>5. QED
  BY <1>1, <1>2, <1>3, <1>4, PassSide DEF IInv

LEMMA ReportInv ==
    ASSUME IInv, Report
    PROVE  IInv'
<1>1. /\ pass = "report" /\ pass' = "idle"
      /\ errors' = errors + (IF setup.metrics THEN failures["ipfix"] + failures["syslog"] ELSE 0)
      /\ failures' = [e \in Exporters |-> 0]
      /\ UNCHANGED <<kernelVars, tracerVars, left, batch, rows, taken, spoilt, drainFails,
                     given, sendFails>>
  BY DEF Report, TakenFailures
<1>2. errors \in Nat /\ failures["ipfix"] \in Nat /\ failures["syslog"] \in Nat
  BY Types DEF IInv
<1>3. /\ errors' \in Nat /\ failures' \in [Exporters -> Nat]
      /\ failures'["ipfix"] = 0 /\ failures'["syslog"] = 0
  BY <1>1, <1>2 DEF Exporters
<1>4. TypeOK' /\ sendFails' \in Nat
  BY <1>1, <1>3, PassSide, Types DEF IInv, TypeOK
<1>5. FailuresReported'
  <2>1. setup' = setup /\ sendFails' = sendFails
    BY <1>1 DEF tracerVars
  <2>2. setup.metrics => errors + failures["ipfix"] + failures["syslog"] = sendFails
    BY DEF IInv, FailuresReported
  <2>3. setup.metrics => errors' + failures'["ipfix"] + failures'["syslog"] = sendFails
    BY <1>1, <1>2, <1>3, <2>2
  <2>4. QED
    BY <2>1, <2>3 DEF FailuresReported
<1>6. BatchFits' /\ RemovedWasCounted' /\ GivenOrHeld'
  BY <1>1, PassSide DEF IInv, BatchFits, RemovedWasCounted, GivenOrHeld
<1>7. rows' = NoPackets
  BY <1>1 DEF IInv
<1>8. QED
  BY <1>4, <1>5, <1>6, <1>7, PassSide, <1>1 DEF IInv

LEMMA StepInv ==
    ASSUME IInv, [Next]_vars
    PROVE  IInv'
<1>1. CASE UNCHANGED vars
  <2>1. UNCHANGED <<kernelVars, tracerVars, passVars, exportVars>>
    BY <1>1 DEF vars
  <2>2. TypeOK' /\ sendFails' \in Nat
    BY <2>1, PassSide, Types DEF IInv, TypeOK, passVars, exportVars
  <2>3. BatchFits' /\ RemovedWasCounted' /\ GivenOrHeld' /\ FailuresReported'
        /\ (pass \in {"idle", "report"} => rows = NoPackets)'
    BY <2>1, PassSide
    DEF IInv, BatchFits, RemovedWasCounted, GivenOrHeld, FailuresReported, passVars, exportVars,
        tracerVars
  <2>4. QED
    BY <2>1, <2>2, <2>3, PassSide DEF IInv
<1>2. CASE Pass
  BY <1>2, StartDrainInv, TakeBucketInv, BatchEndInv, BatchFailInv, ExportRecordInv, FlushInv,
     ReportInv
  DEF Pass
<1>3. QED
  BY <1>1, <1>2, KfreeInv, MarkInv, TracerStepInv DEF Next

----------------------------------------------------------------------------
(* Theorems *)

\* Every variable of the drop path keeps its type.
THEOREM TypeCorrect == Spec => []TypeOK
<1>1. Init => IInv
  BY InitInv
<1>2. IInv /\ [Next]_vars => IInv'
  BY StepInv
<1>3. IInv => TypeOK
  BY DEF IInv
<1>4. QED
  BY <1>1, <1>2, <1>3, PTL DEF Spec

LEMMA RemovedWithinParsed ==
    ASSUME IInv
    PROVE  DropsNotInvented
<1> DEFINE removed == [k \in Keys |-> taken[k] + spoilt[k] + batch[k] + InMap(k, "packets")]
           counts == [k \in Keys |-> Credited(k, "packets")]
<1>1. ASSUME NEW k \in Keys
      PROVE  removed[k] \in Nat /\ counts[k] \in Nat /\ removed[k] <= counts[k]
  <2>1. /\ taken[k] \in Nat /\ spoilt[k] \in Nat /\ batch[k] \in Nat
        /\ InMap(k, "packets") \in Nat /\ retired[k]["packets"] \in Nat
    BY Types, PacketsType DEF IInv
  <2>2. taken[k] + spoilt[k] + batch[k] <= retired[k]["packets"]
    BY DEF IInv, RemovedWasCounted
  <2>3. QED
    BY <2>1, <2>2 DEF Credited
<1>2. DOMAIN removed = Keys
  OBVIOUS
<1>3. CountedPackets = SumFunctionOnSet(counts, Keys)
  BY PacketTotals, Types DEF IInv
<1> HIDE DEF removed, counts
<1>4. SumFunctionOnSet(removed, Keys) <= SumFunctionOnSet(counts, Keys)
  BY <1>1, SumMonotone, FinitenessAssumption
<1>5. SumFunctionOnSet(removed, Keys) \in Nat
  BY <1>1, SumType, FinitenessAssumption
<1>6. CountedPackets <= stats.parsed /\ CountedPackets \in Nat /\ stats.parsed \in Nat
  BY PacketTotals, Types DEF IInv, PacketsBounded
<1>7. stats.parsed = dropStats.drops - dropStats.unparsed
  BY <1>6, Types DEF IInv, ParsedOrNot
<1>8. SumFunctionOnSet(removed, Keys) <= dropStats.drops - dropStats.unparsed
  BY <1>3, <1>4, <1>5, <1>6, <1>7
<1>9. SumFunction(removed) = SumFunctionOnSet(removed, Keys)
  BY <1>2 DEF SumFunction
<1>10. QED
  BY <1>8, <1>9 DEF DropsNotInvented, removed

\* Drains, failed drains and the map together never hold more packets than the
\* tracer counted and parsed (obserwrt-drops.c:148-156), although a drain deletes
\* entries under CPUs that still add to them.
THEOREM NeverInventsDrops == Spec => []DropsNotInvented
<1>1. Init => IInv
  BY InitInv
<1>2. IInv /\ [Next]_vars => IInv'
  BY StepInv
<1>3. IInv => DropsNotInvented
  BY RemovedWithinParsed
<1>4. QED
  BY <1>1, <1>2, <1>3, PTL DEF Spec

\* Between passes every active exporter was given exactly what the drains handed
\* over, in records that count as drops (main.cpp:332-355), failed drains and
\* unknown reasons included.
THEOREM DrainedAlwaysExported == Spec => []DrainedIsExported
<1>1. Init => IInv
  BY InitInv
<1>2. IInv /\ [Next]_vars => IInv'
  BY StepInv
<1>3. IInv => DrainedIsExported
  <2> SUFFICES ASSUME IInv, pass = "idle", NEW e \in Exporters, NEW k \in Keys, Active(e)
               PROVE  given[e][k] = taken[k]
    BY DEF DrainedIsExported
  <2>1. given[e][k] + rows[k] = taken[k] /\ rows[k] = 0 /\ given[e][k] \in Nat
    BY Types DEF IInv, GivenOrHeld, NoPackets
  <2>2. QED
    BY <2>1
<1>4. QED
  BY <1>1, <1>2, <1>3, PTL DEF Spec

\* A refused datagram of either exporter is in the error metric or in the counter
\* of its socket, once (main.cpp:360-363).
THEOREM FailuresAlwaysReported == Spec => []FailuresReported
<1>1. Init => IInv
  BY InitInv
<1>2. IInv /\ [Next]_vars => IInv'
  BY StepInv
<1>3. IInv => FailuresReported
  BY DEF IInv
<1>4. QED
  BY <1>1, <1>2, <1>3, PTL DEF Spec
=============================================================================
