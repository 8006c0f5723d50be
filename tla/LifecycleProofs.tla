-------------------------- MODULE LifecycleProofs --------------------------
(* Type correctness of the pass, and the absence of double counting, for      *)
(* every map size, number of CPUs, set of flows and timeouts.                 *)
EXTENDS Lifecycle, FlowMapProofs

----------------------------------------------------------------------------
(* Types *)

LEMMA DeltaType ==
    ASSUME TypeOK, NEW k \in Keys, NEW f \in Fields
    PROVE  /\ Previous(k, f) \in Nat
           /\ Delta(k, f) \in Nat
           /\ snap[k].count[f] \in Nat
<1>1. snap[k].count[f] \in Nat /\ last[k].count[f] \in Nat
  BY DEF TypeOK, Value
<1>2. Previous(k, f) \in Nat
  BY <1>1 DEF Previous
<1>3. QED
  BY <1>1, <1>2 DEF Delta

LEMMA NoValueType == NoValue \in Value
BY DEF NoValue, Value, Zero

LEMMA InitType == Init => TypeOK
BY KernelInitType, NoValueType DEF Init, TypeOK, Zero

LEMMA ExporterType ==
    ASSUME TypeOK, NEW k \in Keys, Exporter(k)
    PROVE  exported' \in [Keys -> [Fields -> Nat]]
<1>1. [f \in Fields |-> exported[k][f] + Delta(k, f)] \in [Fields -> Nat]
  BY DeltaType DEF TypeOK
<1>2. QED
  BY <1>1 DEF Exporter, TypeOK

LEMMA TakeType ==
    ASSUME TypeOK, NEW k \in Keys, Take(k)
    PROVE  pending' \subseteq Keys /\ seen' \subseteq Keys /\ snap' \in [Keys -> Value]
BY NoValueType DEF TypeOK, Take

LEMMA ExpireType ==
    ASSUME TypeOK, NEW k \in Keys, Expire(k)
    PROVE  TypeOK'
<1>1. KernelTypeOK'
  BY UnlinkKeepsType DEF Expire, TypeOK
<1>2. exported' \in [Keys -> [Fields -> Nat]]
  BY ExporterType DEF Expire
<1>3. pending' \subseteq Keys /\ seen' \subseteq Keys /\ snap' \in [Keys -> Value]
  BY TakeType DEF Expire
<1>4. tracked' \subseteq Keys /\ last' \in [Keys -> Value]
  BY NoValueType DEF Expire, TypeOK
<1>5. UNCHANGED <<pc, passNow, unvisited, copying, walkFails>>
  BY DEF Expire
<1>6. QED
  BY <1>1, <1>2, <1>3, <1>4, <1>5 DEF TypeOK

\* Steps of the agent that leave the kernel alone leave its type alone.
LEMMA KernelUnchanged ==
    ASSUME KernelTypeOK, UNCHANGED kernelVars
    PROVE  KernelTypeOK'
BY DEF kernelVars, values, KernelTypeOK, Linked

LEMMA RefreshType ==
    ASSUME TypeOK, NEW k \in Keys, Refresh(k)
    PROVE  TypeOK'
<1>1. KernelTypeOK'
  BY KernelUnchanged DEF Refresh, TypeOK
<1>2. exported' \in [Keys -> [Fields -> Nat]]
  BY ExporterType DEF Refresh, TypeOK
<1>3. pending' \subseteq Keys /\ seen' \subseteq Keys /\ snap' \in [Keys -> Value]
  BY TakeType DEF Refresh
<1>4. tracked' \subseteq Keys /\ last' \in [Keys -> Value]
  BY DEF Refresh, TypeOK
<1>5. UNCHANGED <<pc, passNow, unvisited, copying, walkFails>>
  BY DEF Refresh
<1>6. QED
  BY <1>1, <1>2, <1>3, <1>4, <1>5 DEF TypeOK

LEMMA CopyType ==
    ASSUME TypeOK, NEW k \in Keys, CopyPackets(k) \/ CopyRest(k)
    PROVE  snap' \in [Keys -> Value]
<1>0. snap[k] \in Value /\ snap[k].count \in [Fields -> Nat]
  BY DEF TypeOK, Value
<1>1. CASE CopyPackets(k)
  <2>1. InMap(k, "packets") \in Nat
    BY CreditedType DEF TypeOK, Fields
  <2>2. [snap[k] EXCEPT !.count = [snap[k].count EXCEPT !["packets"] = InMap(k, "packets")]] \in Value
    BY <1>0, <2>1 DEF Value
  <2>3. snap' = [snap EXCEPT ![k] =
          [snap[k] EXCEPT !.count = [snap[k].count EXCEPT !["packets"] = InMap(k, "packets")]]]
    BY <1>1 DEF CopyPackets
  <2>4. QED
    BY <2>2, <2>3 DEF TypeOK
<1>2. CASE CopyRest(k)
  <2>1. InMap(k, "bytes") \in Nat /\ last_seen[flows[k]] \in Nat
    BY <1>2, CreditedType DEF TypeOK, KernelTypeOK, CopyRest, Linked, Fields
  <2> DEFINE v == [snap[k] EXCEPT !.count = [snap[k].count EXCEPT !["bytes"] = InMap(k, "bytes")],
                                  !.last_seen = last_seen[flows[k]]]
  <2>2. v \in Value
    BY <1>0, <2>1 DEF Value
  <2>3. snap' = [snap EXCEPT ![k] = v]
    BY <1>0, <1>2 DEF CopyRest, TypeOK, Value
  <2> HIDE DEF v
  <2>4. QED
    BY <2>2, <2>3 DEF TypeOK
<1>3. QED
  BY <1>1, <1>2

\* Every step of the agent and of the kernel beside it keeps the types.
LEMMA StepType ==
    ASSUME TypeOK, [Next]_vars
    PROVE  TypeOK'
<1>1. CASE Kernel
  BY <1>1, KernelStepType DEF Kernel, daemonVars, passVars, TypeOK
<1>2. CASE StartPass
  BY <1>2, KernelUnchanged DEF StartPass, TypeOK, KernelTypeOK
<1>3. ASSUME NEW k \in Keys, WalkMiss(k) PROVE TypeOK'
  BY <1>3, KernelUnchanged DEF WalkMiss, TypeOK
<1>4. ASSUME NEW k \in Keys, CopyPackets(k) PROVE TypeOK'
  BY <1>4, KernelUnchanged, CopyType DEF CopyPackets, TypeOK
<1>5. ASSUME NEW k \in Keys, CopyRest(k) PROVE TypeOK'
  BY <1>5, KernelUnchanged, CopyType DEF CopyRest, TypeOK
<1>6. CASE WalkDone
  BY <1>6, KernelUnchanged DEF WalkDone, TypeOK
<1>7. CASE WalkFail
  BY <1>7, KernelUnchanged DEF WalkFail, TypeOK
<1>8. CASE EndPass
  BY <1>8, KernelUnchanged, NoValueType DEF EndPass, Prune, TypeOK
<1>9. ASSUME NEW i \in Removable, Purge(i) PROVE TypeOK'
  BY <1>9, UnlinkKeepsType DEF Purge, daemonVars, passVars, TypeOK
<1>10. CASE UNCHANGED vars
  BY <1>10, KernelUnchanged DEF vars, daemonVars, passVars, TypeOK
<1>11. QED
  BY <1>1, <1>2, <1>3, <1>4, <1>5, <1>6, <1>7, <1>8, <1>9, <1>10, ExpireType, RefreshType
  DEF Next, Daemon

\* The types of Lifecycle hold in every behaviour, failed walks included.
THEOREM TypeCorrect == Spec => []TypeOK
<1>1. TypeOK /\ [Next]_vars => TypeOK'
  BY StepType
<1>2. QED
  BY <1>1, InitType, PTL DEF Spec

\* What ExportsGrow says of one step.
ExportsGrowStep == \A k \in Keys, f \in Fields : exported'[k][f] >= exported[k][f]

\* No record handed to an exporter carries a negative delta (lifecycle.cpp:65-70),
\* failed walks included.
THEOREM DeltasNeverNegative == Spec => ExportsGrow
<1>1. ASSUME TypeOK, exported' = exported PROVE ExportsGrowStep
  BY <1>1 DEF ExportsGrowStep, TypeOK
<1>2. ASSUME TypeOK, NEW k \in Keys, Exporter(k) PROVE ExportsGrowStep
  <2>1. \A f \in Fields : Delta(k, f) \in Nat /\ exported[k][f] \in Nat
    BY <1>2, DeltaType DEF TypeOK
  <2>2. QED
    BY <1>2, <2>1 DEF Exporter, ExportsGrowStep, TypeOK
<1>3. ASSUME TypeOK, NEW k \in Keys, Expire(k) \/ Refresh(k) PROVE ExportsGrowStep
  BY <1>1, <1>2, <1>3 DEF Expire, Refresh
<1>4. ASSUME TypeOK, Next PROVE ExportsGrowStep
  <2>1. CASE Kernel BY <1>1, <1>4, <2>1 DEF Kernel, daemonVars
  <2>2. CASE Daemon
    BY <1>1, <1>3, <1>4, <2>2
    DEF Daemon, StartPass, WalkMiss, CopyPackets, CopyRest, WalkDone, WalkFail, EndPass
  <2>3. CASE \E i \in Removable : Purge(i) BY <1>1, <1>4, <2>3 DEF Purge, daemonVars
  <2>4. QED
    BY <1>4, <2>1, <2>2, <2>3 DEF Next
<1>5. TypeOK /\ [Next]_vars => [ExportsGrowStep]_vars
  BY <1>4
<1>6. QED
  BY <1>5, TypeCorrect, PTL DEF Spec, ExportsGrow, ExportsGrowStep

----------------------------------------------------------------------------
(* No double counting *)

\* Everything a step can do to the entry of k: the entry stays and only gains,
\* or what it had counted is retired with it.
EntryStep(k, f) ==
    \/ /\ flows'[k] = flows[k]
       /\ retired'[k][f] = retired[k][f]
       /\ Linked(k) => InMap(k, f)' >= InMap(k, f)
    \/ retired'[k][f] = Credited(k, f)

LEMMA UnlinkEffect ==
    ASSUME KernelTypeOK, NEW ks, Unlink(ks), count' = count, NEW k \in Keys, NEW f \in Fields
    PROVE  EntryStep(k, f)
<1>1. InMap(k, f) \in Nat
  BY CreditedType
<1>2. CASE k \in ks
  BY <1>2 DEF Unlink, EntryStep
<1>3. CASE k \notin ks
  BY <1>1, <1>3 DEF Unlink, EntryStep, KernelTypeOK, InMap, Linked
<1>4. QED
  BY <1>2, <1>3

LEMMA KernelEffect ==
    ASSUME KernelTypeOK, KernelStep, NEW k \in Keys, NEW f \in Fields
    PROVE  EntryStep(k, f)
<1>1. ASSUME flows' = flows, retired' = retired PROVE EntryStep(k, f)
  BY <1>1, KernelStepCounts DEF CountsGrow, EntryStep, InMap, Linked
<1>2. ASSUME NEW c \in CPUs, NEW s \in Slots, Insert(c, s) PROVE EntryStep(k, f)
  <2>1. cpu[c].key \in Keys
    BY <1>2 DEF KernelTypeOK, Insert
  <2>2. CASE k = cpu[c].key
    BY <1>2, <2>1, <2>2 DEF Insert, EntryStep, KernelTypeOK
  <2>3. CASE k # cpu[c].key
    <3>1. flows'[k] = flows[k] /\ retired'[k] = retired[k]
      BY <1>2, <2>3 DEF Insert, KernelTypeOK
    <3>2. QED
      BY <3>1, KernelStepCounts DEF CountsGrow, EntryStep, InMap, Linked
  <2>4. QED
    BY <2>2, <2>3
<1>3. ASSUME NEW c \in CPUs, ClassifierStep(c) PROVE EntryStep(k, f)
  <2>1. CASE AddPackets(c) BY <2>1, <1>1 DEF AddPackets
  <2>2. CASE AddBytes(c) BY <2>2, <1>1 DEF AddBytes
  <2>3. CASE StoreFlags(c) BY <2>3, <1>1 DEF StoreFlags
  <2>4. CASE StoreSeen(c) BY <2>4, <1>1 DEF StoreSeen
  <2>5. CASE \E j \in Keys : Shrink(c, j) BY <2>5, UnlinkEffect DEF Shrink, values
  <2>6. CASE \E s \in Slots : Insert(c, s) BY <2>6, <1>2
  <2>7. CASE InsertFail(c) BY <2>7, <1>1 DEF InsertFail
  <2>8. QED
    BY <1>3, <2>1, <2>2, <2>3, <2>4, <2>5, <2>6, <2>7 DEF ClassifierStep
<1>4. CASE Tick BY <1>4, <1>1 DEF Tick
<1>5. CASE \E c \in CPUs, j \in Keys, sz \in Sizes, fl \in SUBSET TcpFlags : Observe(c, j, sz, fl)
  BY <1>5, <1>1 DEF Observe, AfterLookup
<1>6. QED
  BY <1>3, <1>4, <1>5 DEF KernelStep

\* Settled survives whatever happens to the entry.
LEMMA SettledStable ==
    ASSUME KernelTypeOK, KernelTypeOK', NEW k \in Keys, NEW f \in Fields, EntryStep(k, f),
           NEW STATE out, out \in Nat, NEW STATE read, read \in Nat, Settled(k, f, out, read)
    PROVE  \/ out <= retired'[k][f]
           \/ /\ flows'[k] # None
              /\ read <= InMap(k, f)'
              /\ out <= retired'[k][f] + read
<1>1. /\ retired[k][f] \in Nat /\ retired'[k][f] \in Nat
      /\ InMap(k, f) \in Nat
  BY CreditedType DEF KernelTypeOK
<1>2. InMap(k, f)' \in Nat
  BY DEF KernelTypeOK, InMap, Linked
<1>3. CASE retired'[k][f] = Credited(k, f)
  BY <1>1, <1>3 DEF Settled, Credited
<1>4. CASE flows'[k] = flows[k] /\ retired'[k][f] = retired[k][f]
           /\ (Linked(k) => InMap(k, f)' >= InMap(k, f))
  BY <1>1, <1>2, <1>4 DEF Settled, Linked
<1>5. QED
  BY <1>3, <1>4 DEF EntryStep

\* Retired counts never shrink.
LEMMA RetiredGrows ==
    ASSUME KernelTypeOK, NEW k \in Keys, NEW f \in Fields, EntryStep(k, f)
    PROVE  retired'[k][f] >= retired[k][f]
BY CreditedType DEF KernelTypeOK, EntryStep, Credited

LEMMA InitInv == Init => IInv
<1> SUFFICES ASSUME Init PROVE IInv
  OBVIOUS
<1>1. TypeOK
  BY InitType
<1>2. PassShape
  BY DEF Init, PassShape
<1>3. \A k \in Keys, f \in Fields : exported[k][f] = 0 /\ retired[k][f] = 0
  BY DEF Init, KernelInit, Zero
<1>4. DeltaDiscipline
  BY <1>3, ConstantsAssumption DEF Init, DeltaDiscipline, Settled
<1>5. QED
  BY <1>1, <1>2, <1>4 DEF IInv

\* Steps of the kernel, and purges, beside an agent that does nothing.
LEMMA EnvironmentStep ==
    ASSUME IInv, TypeOK', UNCHANGED daemonVars, BucketLocked,
           \A k \in Keys, f \in Fields : EntryStep(k, f)
    PROVE  IInv'
<1>1. /\ pc' = pc /\ unvisited' = unvisited /\ copying' = copying /\ snap' = snap
      /\ pending' = pending /\ seen' = seen /\ tracked' = tracked /\ last' = last
      /\ exported' = exported
  BY DEF daemonVars, passVars
<1>2. PassShape'
  BY <1>1 DEF IInv, PassShape, BucketLocked, Linked
<1>3. ASSUME NEW k \in Keys, NEW f \in Fields
      PROVE  /\ Settled(k, f, exported[k][f], Previous(k, f))'
             /\ (k \in pending \/ (k = copying /\ f = "packets")) =>
                  Settled(k, f, exported[k][f] + Delta(k, f), snap[k].count[f])'
             /\ k \notin tracked \/ Missed(k) => exported[k][f] <= retired'[k][f]
  <2>1. /\ exported[k][f] \in Nat /\ retired[k][f] \in Nat /\ retired'[k][f] \in Nat
        /\ Previous(k, f) \in Nat /\ Delta(k, f) \in Nat /\ snap[k].count[f] \in Nat
    BY DeltaType DEF IInv, TypeOK, KernelTypeOK
  <2>2. Previous(k, f)' = Previous(k, f) /\ Delta(k, f)' = Delta(k, f)
    BY <1>1 DEF Previous, Delta
  <2>3. Settled(k, f, exported[k][f], Previous(k, f))'
    <3>1. Settled(k, f, exported[k][f], Previous(k, f)) /\ EntryStep(k, f)
      BY DEF IInv, DeltaDiscipline
    <3>2. QED
      BY <1>1, <2>1, <2>2, <3>1, SettledStable DEF IInv, TypeOK, Settled, Linked
  <2>4. ASSUME k \in pending \/ (k = copying /\ f = "packets")
        PROVE  Settled(k, f, exported[k][f] + Delta(k, f), snap[k].count[f])'
    <3>1. Settled(k, f, exported[k][f] + Delta(k, f), snap[k].count[f]) /\ EntryStep(k, f)
      BY <2>4 DEF IInv, DeltaDiscipline
    <3>2. exported[k][f] + Delta(k, f) \in Nat
      BY <2>1
    <3>3. QED
      BY <1>1, <2>1, <2>2, <3>1, <3>2, SettledStable DEF IInv, TypeOK, Settled, Linked
  <2>5. ASSUME k \notin tracked \/ Missed(k)
        PROVE  exported[k][f] <= retired'[k][f]
    <3>1. exported[k][f] <= retired[k][f]
      BY <2>5 DEF IInv, DeltaDiscipline
    <3>2. retired'[k][f] >= retired[k][f]
      BY RetiredGrows DEF IInv, TypeOK
    <3>3. QED
      BY <2>1, <3>1, <3>2
  <2>6. QED
    BY <2>3, <2>4, <2>5
<1>4. DeltaDiscipline'
  BY <1>1, <1>3 DEF DeltaDiscipline, Missed
<1>5. QED
  BY <1>2, <1>4 DEF IInv

\* A step of the walk or of the timer: the tracker and the exports stay, and
\* the claims about copied and missed flows are shown flow by flow.
LEMMA WalkStep ==
    ASSUME IInv, TypeOK', PassShape', UNCHANGED <<kernelVars, tracked, last, exported>>,
           \A k \in Keys, f \in Fields :
             /\ (k \in pending' \/ (k = copying' /\ f = "packets")) =>
                  Settled(k, f, exported[k][f] + Delta(k, f), snap[k].count[f])'
             /\ Missed(k)' => exported[k][f] <= retired[k][f]
    PROVE  IInv'
<1>1. retired' = retired
  BY DEF kernelVars
<1>2. ASSUME NEW k \in Keys, NEW f \in Fields
      PROVE  /\ Settled(k, f, exported[k][f], Previous(k, f))'
             /\ (k \notin tracked \/ Missed(k))' => exported'[k][f] <= retired'[k][f]
  <2>1. Previous(k, f)' = Previous(k, f)
    BY DEF Previous
  <2>2. Settled(k, f, exported[k][f], Previous(k, f))'
    <3>1. Settled(k, f, exported[k][f], Previous(k, f))
      BY DEF IInv, DeltaDiscipline
    <3>2. QED
      BY <2>1, <3>1 DEF Settled, kernelVars, values, Linked, InMap
  <2>3. k \notin tracked => exported[k][f] <= retired[k][f]
    BY DEF IInv, DeltaDiscipline
  <2>4. QED
    BY <1>1, <2>2, <2>3
<1>3. DeltaDiscipline'
  BY <1>2 DEF DeltaDiscipline
<1>4. QED
  BY <1>3 DEF IInv

\* What a copied value will add is settled as long as nothing about it changes.
LEMMA CopiedKept ==
    ASSUME IInv, UNCHANGED <<kernelVars, tracked, last, exported>>,
           NEW k \in Keys, NEW f \in Fields, snap'[k].count[f] = snap[k].count[f],
           k \in pending \/ (k = copying /\ f = "packets")
    PROVE  Settled(k, f, exported[k][f] + Delta(k, f), snap[k].count[f])'
<1>1. Delta(k, f)' = Delta(k, f)
  BY DEF Delta, Previous
<1>2. Settled(k, f, exported[k][f] + Delta(k, f), snap[k].count[f])
  BY DEF IInv, DeltaDiscipline
<1>3. QED
  BY <1>1, <1>2 DEF Settled, kernelVars, values, Linked, InMap

\* A counter read from the live entry is settled at once: the delta it gives
\* is covered by the entry itself.
LEMMA CopiedNow ==
    ASSUME IInv, UNCHANGED <<kernelVars, tracked, last, exported>>,
           NEW k \in Keys, NEW f \in Fields, Linked(k), snap'[k].count[f] = InMap(k, f)
    PROVE  Settled(k, f, exported[k][f] + Delta(k, f), snap[k].count[f])'
<1> DEFINE v == InMap(k, f)
           p == Previous(k, f)
           e == exported[k][f]
           r == retired[k][f]
<1>1. v \in Nat /\ p \in Nat /\ e \in Nat /\ r \in Nat
  BY CreditedType, DeltaType DEF IInv, TypeOK, KernelTypeOK
<1>2. Delta(k, f)' = IF v >= p THEN v - p ELSE v
  BY DEF Delta, Previous
<1>3. e <= r \/ (p <= v /\ e <= r + p)
  BY DEF IInv, DeltaDiscipline, Settled
<1>4. e + (IF v >= p THEN v - p ELSE v) <= r + v
  BY <1>1, <1>3
<1>5. Linked(k)' /\ InMap(k, f)' = v /\ retired'[k][f] = r /\ exported'[k][f] = e
  BY DEF kernelVars, values, Linked, InMap
<1>6. QED
  BY <1>1, <1>2, <1>4, <1>5 DEF Settled

LEMMA StartPassInv ==
    ASSUME IInv, TypeOK', StartPass
    PROVE  IInv'
<1>1. pending = {} /\ seen = {} /\ copying = None /\ None \notin Keys
  BY ConstantsAssumption DEF IInv, PassShape, StartPass
<1>2. PassShape'
  BY <1>1 DEF StartPass, PassShape
<1>3. QED
  BY <1>1, <1>2, WalkStep DEF StartPass, Missed

LEMMA WalkMissInv ==
    ASSUME IInv, TypeOK', NEW k \in Keys, WalkMiss(k)
    PROVE  IInv'
<1>1. PassShape'
  BY DEF IInv, PassShape, WalkMiss
<1>2. ASSUME NEW j \in Keys, NEW f \in Fields, j \in pending' \/ (j = copying' /\ f = "packets")
      PROVE  Settled(j, f, exported[j][f] + Delta(j, f), snap[j].count[f])'
  BY <1>2, CopiedKept DEF WalkMiss
<1>3. ASSUME NEW j \in Keys, NEW f \in Fields, Missed(j)'
      PROVE  exported[j][f] <= retired[j][f]
  <2>1. CASE j = k
    BY <2>1 DEF IInv, DeltaDiscipline, Settled, WalkMiss
  <2>2. CASE j # k
    BY <1>3, <2>2 DEF IInv, DeltaDiscipline, Missed, WalkMiss
  <2>3. QED
    BY <2>1, <2>2
<1>4. QED
  BY <1>1, <1>2, <1>3, WalkStep DEF WalkMiss

LEMMA CopyPacketsInv ==
    ASSUME IInv, TypeOK', NEW k \in Keys, CopyPackets(k)
    PROVE  IInv'
<1>1. PassShape'
  BY DEF IInv, PassShape, CopyPackets, kernelVars, Linked
<1>2. ASSUME NEW j \in Keys, NEW f \in Fields, j \in pending' \/ (j = copying' /\ f = "packets")
      PROVE  Settled(j, f, exported[j][f] + Delta(j, f), snap[j].count[f])'
  <2>1. CASE j = k
    <3>1. f = "packets"
      BY <1>2, <2>1 DEF IInv, PassShape, CopyPackets
    <3>2. snap'[k].count[f] = InMap(k, f)
      BY <3>1 DEF IInv, TypeOK, Value, CopyPackets
    <3>3. QED
      BY <2>1, <3>2, CopiedNow DEF CopyPackets
  <2>2. CASE j # k
    BY <1>2, <2>2, CopiedKept DEF CopyPackets, IInv, TypeOK
  <2>3. QED
    BY <2>1, <2>2
<1>3. ASSUME NEW j \in Keys, NEW f \in Fields, Missed(j)'
      PROVE  exported[j][f] <= retired[j][f]
  BY <1>3, ConstantsAssumption DEF IInv, DeltaDiscipline, Missed, CopyPackets
<1>4. QED
  BY <1>1, <1>2, <1>3, WalkStep DEF CopyPackets

LEMMA CopyRestInv ==
    ASSUME IInv, TypeOK', NEW k \in Keys, CopyRest(k)
    PROVE  IInv'
<1>0. k \notin unvisited /\ None \notin Keys
  BY ConstantsAssumption DEF IInv, PassShape, CopyRest
<1>1. PassShape'
  BY <1>0 DEF IInv, PassShape, CopyRest, TypeOK
<1>2. ASSUME NEW j \in Keys, NEW f \in Fields, j \in pending' \/ (j = copying' /\ f = "packets")
      PROVE  Settled(j, f, exported[j][f] + Delta(j, f), snap[j].count[f])'
  <2>0. j \in pending'
    BY <1>0, <1>2 DEF CopyRest
  <2>1. CASE j = k /\ f = "packets"
    <3>1. snap'[k].count[f] = snap[k].count[f]
      BY <2>1 DEF IInv, TypeOK, Value, CopyRest
    <3>2. QED
      BY <2>1, <3>1, CopiedKept DEF CopyRest
  <2>2. CASE j = k /\ f = "bytes"
    <3>1. snap'[k].count[f] = InMap(k, f)
      BY <2>2 DEF IInv, TypeOK, Value, CopyRest
    <3>2. QED
      BY <2>2, <3>1, CopiedNow DEF CopyRest
  <2>3. CASE j # k
    BY <2>0, <2>3, CopiedKept DEF CopyRest, IInv, TypeOK
  <2>4. QED
    BY <2>1, <2>2, <2>3 DEF Fields
<1>3. ASSUME NEW j \in Keys, NEW f \in Fields, Missed(j)'
      PROVE  exported[j][f] <= retired[j][f]
  BY <1>3 DEF IInv, DeltaDiscipline, Missed, CopyRest
<1>4. QED
  BY <1>1, <1>2, <1>3, WalkStep DEF CopyRest

LEMMA WalkDoneInv ==
    ASSUME IInv, TypeOK', WalkDone
    PROVE  IInv'
<1>1. PassShape'
  BY DEF IInv, PassShape, WalkDone
<1>2. ASSUME NEW j \in Keys, NEW f \in Fields, j \in pending' \/ (j = copying' /\ f = "packets")
      PROVE  Settled(j, f, exported[j][f] + Delta(j, f), snap[j].count[f])'
  BY <1>2, CopiedKept DEF WalkDone
<1>3. ASSUME NEW j \in Keys, NEW f \in Fields, Missed(j)'
      PROVE  exported[j][f] <= retired[j][f]
  BY <1>3 DEF IInv, DeltaDiscipline, Missed, WalkDone
<1>4. QED
  BY <1>1, <1>2, <1>3, WalkStep DEF WalkDone

\* The loop's cursor leaves the shape of the pass intact.
LEMMA TakeShape ==
    ASSUME IInv, NEW k \in Keys, Take(k), pc' = pc, unvisited' = unvisited, copying' = copying
    PROVE  PassShape'
BY ConstantsAssumption DEF IInv, PassShape, Take, Linked

\* The loop takes k and no other flow.
LEMMA TakeOther ==
    ASSUME IInv, NEW k \in Keys, Take(k), pc' = pc, unvisited' = unvisited, copying' = copying,
           NEW j \in Keys, j # k
    PROVE  /\ j \in pending' <=> j \in pending
           /\ snap'[j] = snap[j]
           /\ Missed(j)' = Missed(j)
BY DEF IInv, TypeOK, Take, Missed

\* A flow already taken is not missed, and nothing of it is pending.
LEMMA TakeThis ==
    ASSUME IInv, NEW k \in Keys, Take(k), pc' = pc, unvisited' = unvisited, copying' = copying
    PROVE  k \notin pending' /\ k # copying' /\ ~Missed(k)'
BY ConstantsAssumption DEF IInv, PassShape, Take, Missed

LEMMA ExpireInv ==
    ASSUME IInv, TypeOK', NEW k \in Keys, Expire(k)
    PROVE  IInv'
<1>0. Take(k) /\ pc' = pc /\ unvisited' = unvisited /\ copying' = copying
  BY DEF Expire
<1>1. PassShape'
  BY <1>0, TakeShape
<1>2. ASSUME NEW f \in Fields
      PROVE  exported'[k][f] <= retired'[k][f]
  <2>1. Settled(k, f, exported[k][f] + Delta(k, f), snap[k].count[f])
    BY <1>0 DEF IInv, DeltaDiscipline, Take
  <2>2. exported'[k][f] = exported[k][f] + Delta(k, f)
    BY DEF Expire, Exporter, IInv, TypeOK
  <2>3. retired'[k][f] = retired[k][f] + InMap(k, f)
    BY DEF Expire, Unlink, Credited
  <2>4. /\ retired[k][f] \in Nat /\ InMap(k, f) \in Nat /\ exported[k][f] \in Nat
        /\ Delta(k, f) \in Nat /\ snap[k].count[f] \in Nat
    BY CreditedType, DeltaType DEF IInv, TypeOK, KernelTypeOK
  <2>5. QED
    BY <2>1, <2>2, <2>3, <2>4 DEF Settled
<1>3. ASSUME NEW j \in Keys, j # k, NEW f \in Fields
      PROVE  /\ exported'[j] = exported[j] /\ retired'[j][f] = retired[j][f]
             /\ Linked(j)' = Linked(j) /\ InMap(j, f)' = InMap(j, f)
             /\ Previous(j, f)' = Previous(j, f) /\ Delta(j, f)' = Delta(j, f)
             /\ (j \in tracked') = (j \in tracked)
  <2>1. snap'[j] = snap[j]
    BY <1>0, <1>3, TakeOther
  <2>2. flows'[j] = flows[j] /\ retired'[j][f] = retired[j][f] /\ count' = count
    BY <1>3 DEF Expire, Unlink, values
  <2>3. exported'[j] = exported[j] /\ last'[j] = last[j] /\ (j \in tracked') = (j \in tracked)
    BY <1>3 DEF Expire, Exporter, IInv, TypeOK
  <2>4. QED
    BY <2>1, <2>2, <2>3 DEF Linked, InMap, Previous, Delta
<1>4. ASSUME NEW j \in Keys, NEW f \in Fields
      PROVE  /\ Settled(j, f, exported[j][f], Previous(j, f))'
             /\ (j \in pending' \/ (j = copying' /\ f = "packets")) =>
                   Settled(j, f, exported[j][f] + Delta(j, f), snap[j].count[f])'
             /\ (j \notin tracked \/ Missed(j))' => exported'[j][f] <= retired'[j][f]
  <2>1. CASE j = k
    BY <1>0, <1>2, <2>1, TakeThis DEF Settled
  <2>2. CASE j # k
    <3>1. /\ Settled(j, f, exported[j][f], Previous(j, f))
          /\ (j \in pending \/ (j = copying /\ f = "packets")) =>
               Settled(j, f, exported[j][f] + Delta(j, f), snap[j].count[f])
          /\ j \notin tracked \/ Missed(j) => exported[j][f] <= retired[j][f]
      BY DEF IInv, DeltaDiscipline
    <3>2. /\ j \in pending' <=> j \in pending
          /\ snap'[j] = snap[j]
          /\ Missed(j)' = Missed(j)
      BY <1>0, <2>2, TakeOther
    <3>3. QED
      BY <1>0, <1>3, <2>2, <3>1, <3>2 DEF Settled
  <2>3. QED
    BY <2>1, <2>2
<1>5. QED
  BY <1>1, <1>4 DEF IInv, DeltaDiscipline

\* A flow that did not change has a zero delta: not exporting it is exact.
LEMMA UnchangedDelta ==
    ASSUME TypeOK, NEW k \in Keys, NEW f \in Fields, ~Changed(k)
    PROVE  Delta(k, f) = 0
<1>1. Previous(k, f) = snap[k].count[f]
  BY DEF Changed, Previous
<1>2. QED
  BY <1>1, DeltaType DEF Delta

LEMMA RefreshInv ==
    ASSUME IInv, TypeOK', NEW k \in Keys, Refresh(k)
    PROVE  IInv'
<1>0. /\ Take(k) /\ pc' = pc /\ unvisited' = unvisited /\ copying' = copying
      /\ UNCHANGED kernelVars
  BY DEF Refresh
<1>1. PassShape'
  BY <1>0, TakeShape
<1>2. \A j \in Keys, f \in Fields :
        /\ retired'[j][f] = retired[j][f]
        /\ Linked(j)' = Linked(j) /\ InMap(j, f)' = InMap(j, f)
  BY <1>0 DEF kernelVars, values, Linked, InMap
<1>3. ASSUME NEW f \in Fields
      PROVE  /\ exported'[k][f] = exported[k][f] + Delta(k, f)
             /\ Previous(k, f)' = snap[k].count[f]
             /\ k \in tracked'
  <2>1. exported'[k][f] = exported[k][f] + Delta(k, f)
    <3>1. exported[k][f] \in Nat
      BY DEF IInv, TypeOK
    <3>2. CASE Changed(k)
      BY <3>2 DEF Refresh, Exporter, IInv, TypeOK
    <3>3. CASE ~Changed(k)
      BY <3>1, <3>3, UnchangedDelta DEF Refresh, IInv
    <3>4. QED
      BY <3>2, <3>3
  <2>2. Previous(k, f)' = snap[k].count[f] /\ k \in tracked'
    BY DEF Refresh, Previous, IInv, TypeOK
  <2>3. QED
    BY <2>1, <2>2
<1>4. ASSUME NEW j \in Keys, j # k, NEW f \in Fields
      PROVE  /\ exported'[j] = exported[j]
             /\ Previous(j, f)' = Previous(j, f) /\ Delta(j, f)' = Delta(j, f)
             /\ (j \in tracked') = (j \in tracked)
  <2>1. snap'[j] = snap[j]
    BY <1>0, <1>4, TakeOther
  <2>2. exported'[j] = exported[j] /\ last'[j] = last[j] /\ (j \in tracked') = (j \in tracked)
    BY <1>4 DEF Refresh, Exporter, IInv, TypeOK
  <2>3. QED
    BY <2>1, <2>2 DEF Previous, Delta
<1>5. ASSUME NEW j \in Keys, NEW f \in Fields
      PROVE  /\ Settled(j, f, exported[j][f], Previous(j, f))'
             /\ (j \in pending' \/ (j = copying' /\ f = "packets")) =>
                   Settled(j, f, exported[j][f] + Delta(j, f), snap[j].count[f])'
             /\ (j \notin tracked \/ Missed(j))' => exported'[j][f] <= retired'[j][f]
  <2>1. CASE j = k
    <3>1. Settled(k, f, exported[k][f] + Delta(k, f), snap[k].count[f])
      BY <1>0 DEF IInv, DeltaDiscipline, Take
    <3>2. Settled(k, f, exported[k][f], Previous(k, f))'
      BY <1>2, <1>3, <3>1 DEF Settled
    <3>3. QED
      BY <1>0, <1>3, <2>1, <3>2, TakeThis
  <2>2. CASE j # k
    <3>1. /\ Settled(j, f, exported[j][f], Previous(j, f))
          /\ (j \in pending \/ (j = copying /\ f = "packets")) =>
               Settled(j, f, exported[j][f] + Delta(j, f), snap[j].count[f])
          /\ j \notin tracked \/ Missed(j) => exported[j][f] <= retired[j][f]
      BY DEF IInv, DeltaDiscipline
    <3>2. /\ j \in pending' <=> j \in pending
          /\ snap'[j] = snap[j]
          /\ Missed(j)' = Missed(j)
      BY <1>0, <2>2, TakeOther
    <3>3. QED
      BY <1>0, <1>2, <1>4, <2>2, <3>1, <3>2 DEF Settled
  <2>3. QED
    BY <2>1, <2>2
<1>6. QED
  BY <1>1, <1>5 DEF IInv, DeltaDiscipline

\* Pruning forgets only flows that owe nothing.
LEMMA EndPassInv ==
    ASSUME IInv, TypeOK', EndPass
    PROVE  IInv'
<1>1. PassShape'
  BY DEF IInv, PassShape, EndPass
<1>2. retired' = retired /\ exported' = exported /\ pending' = {} /\ copying' = None /\ None \notin Keys
  BY ConstantsAssumption DEF EndPass, kernelVars, IInv, PassShape
<1>3. ASSUME NEW k \in Keys, NEW f \in Fields
      PROVE  /\ Settled(k, f, exported[k][f], Previous(k, f))'
             /\ k \notin tracked' => exported[k][f] <= retired[k][f]
  <2>1. k \notin seen => exported[k][f] <= retired[k][f]
    BY <1>2 DEF IInv, PassShape, DeltaDiscipline, Missed, EndPass
  <2>2. k \notin tracked => exported[k][f] <= retired[k][f]
    BY DEF IInv, DeltaDiscipline
  <2>3. k \notin tracked' => exported[k][f] <= retired[k][f]
    BY <2>1, <2>2 DEF EndPass, Prune
  <2>4. CASE k \in tracked'
    <3>1. Previous(k, f)' = Previous(k, f)
      BY <2>4 DEF Previous, EndPass, Prune
    <3>2. Settled(k, f, exported[k][f], Previous(k, f))
      BY DEF IInv, DeltaDiscipline
    <3>3. QED
      BY <2>4, <3>1, <3>2 DEF Settled, EndPass, kernelVars, values, Linked, InMap
  <2>5. CASE k \notin tracked'
    BY <1>2, <2>3, <2>5 DEF Settled
  <2>6. QED
    BY <2>4, <2>5
<1>4. DeltaDiscipline'
  BY <1>2, <1>3 DEF DeltaDiscipline, Missed, EndPass
<1>5. QED
  BY <1>1, <1>4 DEF IInv

\* Without walk failures every step keeps the inductive invariant.
LEMMA StepInv ==
    ASSUME MaxWalkFails = 0, IInv, [Next]_vars
    PROVE  IInv'
<1>0. TypeOK'
  BY StepType DEF IInv
<1>1. CASE Kernel
  <2>1. \A k \in Keys, f \in Fields : EntryStep(k, f)
    BY <1>1, KernelEffect DEF Kernel, IInv, TypeOK
  <2>2. QED
    BY <1>0, <1>1, <2>1, EnvironmentStep DEF Kernel
<1>2. CASE Daemon
  <2>1. ~WalkFail
    BY DEF WalkFail, IInv, TypeOK
  <2>2. QED
    BY <1>0, <1>2, <2>1, StartPassInv, WalkMissInv, CopyPacketsInv, CopyRestInv, WalkDoneInv,
       ExpireInv, RefreshInv, EndPassInv
    DEF Daemon
<1>3. ASSUME NEW i \in Removable, Purge(i) PROVE IInv'
  <2>1. \A k \in Keys, f \in Fields : EntryStep(k, f)
    BY <1>3, UnlinkEffect DEF Purge, IInv, TypeOK, values
  <2>2. BucketLocked
    BY <1>3 DEF Purge, IInv, PassShape, BucketLocked
  <2>3. QED
    BY <1>0, <1>3, <2>1, <2>2, EnvironmentStep DEF Purge
<1>4. CASE UNCHANGED vars
  <2>1. \A k \in Keys, f \in Fields : EntryStep(k, f)
    BY <1>4, CreditedType DEF vars, kernelVars, values, EntryStep, InMap, Linked, IInv, TypeOK
  <2>2. QED
    BY <1>0, <1>4, <2>1, EnvironmentStep DEF vars, kernelVars, BucketLocked
<1>5. QED
  BY <1>1, <1>2, <1>3, <1>4 DEF Next

\* The inductive invariant of the pass holds whenever walks do not fail
\* (lifecycle.cpp:39-106 over bpf.cpp:379-414).
THEOREM DeltaInvariant ==
    ASSUME MaxWalkFails = 0
    PROVE  Spec => []IInv
<1>1. IInv /\ [Next]_vars => IInv'
  BY StepInv
<1>2. QED
  BY <1>1, InitInv, PTL DEF Spec

\* "the collector is not double-counted" (docs/design.md:283-284), for every map
\* size, every number of CPUs and every interleaving of traffic, eviction,
\* purge and expiry with the pass, provided batch walks do not fail.
THEOREM NeverDoubleCounts ==
    ASSUME MaxWalkFails = 0
    PROVE  Spec => []NoDoubleCount
<1>1. IInv => NoDoubleCount
  <2> SUFFICES ASSUME IInv, NEW k \in Keys, NEW f \in Fields
               PROVE  exported[k][f] <= Credited(k, f)
    BY DEF NoDoubleCount
  <2>1. /\ exported[k][f] \in Nat /\ retired[k][f] \in Nat /\ InMap(k, f) \in Nat
        /\ Previous(k, f) \in Nat
    BY CreditedType, DeltaType DEF IInv, TypeOK, KernelTypeOK
  <2>2. Settled(k, f, exported[k][f], Previous(k, f))
    BY DEF IInv, DeltaDiscipline
  <2>3. QED
    BY <2>1, <2>2 DEF Settled, Credited
<1>2. QED
  BY <1>1, DeltaInvariant, PTL

----------------------------------------------------------------------------
(* The accounting a collector relies on *)

\* The kernel and a purge report nothing; the walk and the timer do nothing that
\* a collector could see.
LEMMA QuietRefines ==
    ASSUME exported' = exported, SameCredits
    PROVE  UNCHANGED Acc!vars
BY DEF Acc!vars, SameCredits

LEMMA CountRefines ==
    ASSUME exported' = exported, NEW k \in Keys, OneGains(k)
    PROVE  Acc!Next
<1>1. Acc!Count(k)
  BY DEF Acc!Count, Acc!Others, OneGains
<1>2. QED
  BY <1>1 DEF Acc!Next

\* The loop reports for the flow it takes: no count moves, and what was reported
\* stays within what was counted.
LEMMA ReportRefines ==
    ASSUME IInv, NoDoubleCount', NEW k \in Keys, Exporter(k), SameCredits
    PROVE  Acc!Next
<1>1. \A j \in Keys \ {k} : exported'[j] = exported[j]
  BY DEF Exporter, IInv, TypeOK
<1>2. ASSUME NEW f \in Fields
      PROVE  exported'[k][f] \in exported[k][f] .. Credited(k, f)
  <2>1. exported[k][f] \in Nat /\ Delta(k, f) \in Nat /\ Credited(k, f) \in Nat
    BY DeltaType, CreditedType DEF IInv, TypeOK
  <2>2. exported'[k][f] = exported[k][f] + Delta(k, f)
    BY DEF Exporter, IInv, TypeOK
  <2>3. exported'[k][f] <= Credited(k, f)
    BY DEF NoDoubleCount, SameCredits
  <2>4. QED
    BY <2>1, <2>2, <2>3
<1>3. Acc!Report(k)
  BY <1>1, <1>2 DEF Acc!Report, Acc!Others, SameCredits
<1>4. QED
  BY <1>3 DEF Acc!Next

LEMMA KernelVarsSame ==
    ASSUME UNCHANGED kernelVars
    PROVE  SameCredits
BY SameTable DEF kernelVars, values

LEMMA StepRefines ==
    ASSUME IInv, NoDoubleCount', [Next]_vars
    PROVE  [Acc!Next]_(Acc!vars)
<1>1. CASE Kernel
  <2>1. exported' = exported
    BY <1>1 DEF Kernel, daemonVars
  <2>2. SameCredits \/ \E k \in Keys : OneGains(k)
    BY <1>1, KernelStepCredits DEF Kernel, IInv, TypeOK
  <2>3. QED
    BY <2>1, <2>2, QuietRefines, CountRefines
<1>2. ASSUME NEW k \in Keys, Expire(k) PROVE Acc!Next
  <2>1. SameCredits
    BY <1>2, UnlinkCredits DEF Expire, values, IInv, TypeOK
  <2>2. QED
    BY <1>2, <2>1, ReportRefines DEF Expire
<1>3. ASSUME NEW k \in Keys, Refresh(k) PROVE Acc!Next \/ UNCHANGED Acc!vars
  <2>1. SameCredits /\ (Exporter(k) \/ exported' = exported)
    BY <1>3, KernelVarsSame DEF Refresh
  <2>2. QED
    BY <2>1, ReportRefines, QuietRefines
<1>4. ASSUME UNCHANGED <<kernelVars, exported>> PROVE UNCHANGED Acc!vars
  BY <1>4, KernelVarsSame, QuietRefines
<1>5. CASE Daemon
  <2>1. \/ UNCHANGED <<kernelVars, exported>>
        \/ \E k \in Keys : Expire(k) \/ Refresh(k)
    BY <1>5, Zenon
    DEF Daemon, StartPass, WalkMiss, CopyPackets, CopyRest, WalkDone, WalkFail, EndPass
  <2>2. QED
    BY <1>2, <1>3, <1>4, <2>1
<1>6. ASSUME NEW i \in Removable, Purge(i) PROVE UNCHANGED Acc!vars
  <2>1. exported' = exported
    BY <1>6 DEF Purge, daemonVars
  <2>2. SameCredits
    BY <1>6, UnlinkCredits DEF Purge, values, IInv, TypeOK
  <2>3. QED
    BY <2>1, <2>2, QuietRefines
<1>7. CASE UNCHANGED vars
  BY <1>4, <1>7 DEF vars, daemonVars
<1>8. QED
  BY <1>1, <1>5, <1>6, <1>7 DEF Next

LEMMA InitRefines ==
    ASSUME Init
    PROVE  Acc!Init
BY DEF Init, KernelInit, Acc!Init, Credited, InMap, Linked, Zero

\* The kernel's counters and the deltas of Lifecycle::run implement Accounting
\* (lifecycle.cpp:39-106 over obserwrt-bpf.c:362-407): every step of CPUs, LRU
\* list, walk, loop and purge counts for one flow, reports for one flow, or
\* changes nothing a collector sees, provided batch walks do not fail.
THEOREM ImplementsAccounting ==
    ASSUME MaxWalkFails = 0
    PROVE  Spec => AccountingRefined
<1>1. Init => Acc!Init
  BY InitRefines
<1>2. IInv /\ NoDoubleCount' /\ [Next]_vars => [Acc!Next]_(Acc!vars)
  BY StepRefines
<1>3. QED
  BY <1>1, <1>2, DeltaInvariant, NeverDoubleCounts, PTL DEF Spec, AccountingRefined, Acc!Spec

----------------------------------------------------------------------------
(* No false expiry *)

\* What ExpiredWasIdle says of one step.
ExpiredWasIdleStep ==
    \A k \in Keys : Expire(k) => clock > snap[k].last_seen + proto_timeout(ProtoOf[k])

\* The time a pass works with was sampled before: it is never ahead.
SampledBefore == passNow <= clock

LEMMA KernelClock ==
    ASSUME KernelTypeOK, KernelStep
    PROVE  clock' >= clock
<1>1. ASSUME NEW c \in CPUs, ClassifierStep(c) PROVE clock' = clock
  BY <1>1, Zenon
  DEF ClassifierStep, AddPackets, AddBytes, StoreFlags, StoreSeen, Shrink, Insert, InsertFail
<1>2. ASSUME NEW c \in CPUs, NEW k \in Keys, NEW sz \in Sizes, NEW fl \in SUBSET TcpFlags,
             Observe(c, k, sz, fl)
      PROVE  clock' = clock
  BY <1>2 DEF Observe, AfterLookup
<1>3. KernelStep => clock' = clock \/ Tick
  BY <1>1, <1>2 DEF KernelStep
<1>4. QED
  BY <1>3 DEF Tick, KernelTypeOK

\* An expired flow was idle for its whole timeout (lifecycle.cpp:57, 82), in
\* every behaviour, failed walks included.
THEOREM NoFalseExpiry == Spec => ExpiredWasIdle
<1>1. Init => SampledBefore
  BY DEF Init, KernelInit, SampledBefore
<1>2. TypeOK /\ SampledBefore /\ [Next]_vars => SampledBefore'
  <2> SUFFICES ASSUME TypeOK, SampledBefore, [Next]_vars PROVE SampledBefore'
    OBVIOUS
  <2>0. passNow \in Nat /\ clock \in Nat
    BY DEF TypeOK, KernelTypeOK
  <2>1. CASE Kernel
    <3>1. clock' >= clock /\ passNow' = passNow
      BY <2>1, KernelClock DEF Kernel, TypeOK, daemonVars, passVars
    <3>2. clock' \in Nat
      BY <2>1, KernelStepType DEF Kernel, TypeOK, KernelTypeOK
    <3>3. QED
      BY <2>0, <3>1, <3>2 DEF SampledBefore
  <2>2. CASE Daemon
    <3>1. CASE StartPass BY <2>0, <3>1 DEF StartPass, kernelVars, SampledBefore
    <3>2. CASE EndPass BY <2>0, <3>2 DEF EndPass, kernelVars, SampledBefore
    <3>3. CASE passNow' = passNow /\ clock' = clock BY <3>3 DEF SampledBefore
    <3>4. StartPass \/ EndPass \/ (passNow' = passNow /\ clock' = clock)
      BY <2>2, Zenon
      DEF Daemon, WalkMiss, CopyPackets, CopyRest, WalkDone, WalkFail, Expire, Refresh, kernelVars
    <3>5. QED
      BY <3>1, <3>2, <3>3, <3>4
  <2>3. CASE \E i \in Removable : Purge(i)
    BY <2>0, <2>3 DEF Purge, daemonVars, passVars, SampledBefore
  <2>4. CASE UNCHANGED vars
    BY <2>4 DEF vars, kernelVars, daemonVars, passVars, SampledBefore
  <2>5. QED
    BY <2>1, <2>2, <2>3, <2>4 DEF Next
<1>3. TypeOK /\ SampledBefore => ExpiredWasIdleStep
  <2> SUFFICES ASSUME TypeOK, SampledBefore, NEW k \in Keys, Expire(k)
               PROVE  clock > snap[k].last_seen + proto_timeout(ProtoOf[k])
    BY DEF ExpiredWasIdleStep
  <2>1. passNow \in Nat /\ clock \in Nat /\ snap[k].last_seen \in Nat
    BY DEF TypeOK, KernelTypeOK, Value
  <2>2. proto_timeout(ProtoOf[k]) \in Nat
    BY LifecycleAssumption DEF proto_timeout
  <2>3. Age(k) > proto_timeout(ProtoOf[k])
    BY DEF Expire, Expired
  <2>4. QED
    BY <2>1, <2>2, <2>3 DEF Age, SampledBefore
<1>4. QED
  BY <1>1, <1>2, <1>3, TypeCorrect, PTL DEF Spec, ExpiredWasIdle, ExpiredWasIdleStep
----------------------------------------------------------------------------
(* The kernel beside the agent *)

\* What the agent does to the map are deletions (Bpf::erase of an expired flow,
\* purge_ifindex): every step beside the kernel's own is one of them, or leaves the
\* map alone. So whatever holds of the map under deletions at any moment holds of
\* it beside the passes of Lifecycle::run, failed walks included.
THEOREM ImplementsFlowMap == Spec => KernelSpec
<1>1. [Next]_vars => [KernelNext]_kernelVars
  <2> SUFFICES ASSUME [Next]_vars PROVE [KernelNext]_kernelVars
    OBVIOUS
  <2>1. CASE Kernel
    BY <2>1 DEF Kernel, KernelNext
  <2>2. ASSUME NEW k \in Keys, Expire(k) PROVE KernelNext
    <3>1. DeleteElems({k})
      BY <2>2 DEF Expire, DeleteElems
    <3>2. QED
      BY <3>1 DEF KernelNext
  <2>3. ASSUME NEW i \in Removable, Purge(i) PROVE KernelNext
    <3>1. PICK victims \in SUBSET KeysOn(i) : Unlink(victims)
      BY <2>3 DEF Purge
    <3>2. victims \in SUBSET Keys
      BY <3>1 DEF KeysOn
    <3>3. QED
      BY <2>3, <3>1, <3>2 DEF Purge, DeleteElems, KernelNext
  <2>4. CASE StartPass \/ WalkDone \/ WalkFail \/ EndPass
    BY <2>4 DEF StartPass, WalkDone, WalkFail, EndPass
  <2>5. ASSUME NEW k \in Keys, WalkMiss(k) \/ CopyPackets(k) \/ CopyRest(k) \/ Refresh(k)
        PROVE  UNCHANGED kernelVars
    BY <2>5 DEF WalkMiss, CopyPackets, CopyRest, Refresh
  <2>6. CASE UNCHANGED vars
    BY <2>6 DEF vars
  <2>7. QED
    BY <2>1, <2>2, <2>3, <2>4, <2>5, <2>6 DEF Next, Daemon
<1>2. Init => KernelInit
  BY DEF Init
<1>3. QED
  BY <1>1, <1>2, PTL DEF Spec, KernelSpec

\* The packets in the map never exceed the packets classified (NoOvercount,
\* obserwrt-bpf.c:361-413) beside passes that copy, expire and purge.
COROLLARY PassesNeverOvercount == Spec => []NoOvercount
BY ImplementsFlowMap, NeverOvercounts, PTL

\* The counters of an entry only grow (CountersMonotone, obserwrt-bpf.c:393-394)
\* beside passes that copy, expire and purge: what lifecycle.cpp:65 relies on.
COROLLARY PassesKeepCounters == Spec => CountersMonotone
BY ImplementsFlowMap, CountersOnlyGrow, PTL
=============================================================================
