----------------------------- MODULE Lifecycle -----------------------------
(***************************************************************************)
(* The agent's lifecycle pass (Lifecycle::run over BpfFlowMap) beside the  *)
(* kernel of FlowMap: every LIFECYCLE_S seconds it copies the flow map     *)
(* with a batch walk, then takes the copied entries one by one, exports    *)
(* what each gained since the pass before, and deletes the idle ones.      *)
(* Traffic and eviction go on during the whole pass.                       *)
(***************************************************************************)
EXTENDS FlowMap, Integers

CONSTANTS
    ProtoOf,        \* IP protocol number of each key
    IfindexOf,      \* interface of each key
    Removable,      \* interfaces whose detach purges their flows
    Timeouts,       \* [tcp, udp, icmp, general], in clock ticks
    MaxWalkFails    \* bound: walks that BPF_MAP_LOOKUP_BATCH ends with an error

ASSUME LifecycleAssumption ==
    /\ ProtoOf \in [Keys -> Nat]
    /\ Timeouts \in [tcp : Nat, udp : Nat, icmp : Nat, general : Nat]
    /\ MaxWalkFails \in Nat

VARIABLES
    pc,         \* "idle", "walk" (batch_walk in progress) or "scan" (run's loop)
    passNow,    \* `now`, sampled before the walk
    unvisited,  \* keys whose bucket the walk has not reached
    copying,    \* key whose bucket is being copied, or None
    snap,       \* keys_/values_ of BpfFlowMap: counters and last_seen per key
    pending,    \* snapshot entries the loop has not taken
    seen,       \* keys the loop has taken in this pass
    tracked,    \* keys in last_
    last,       \* last_: counters and last_seen at the previous pass
    exported,   \* history: what the exporter callback was given, per key
    walkFails   \* bound: walks that failed so far

passVars == <<pc, passNow, unvisited, copying, snap, pending, seen>>
daemonVars == <<passVars, tracked, last, exported, walkFails>>
vars == <<kernelVars, daemonVars>>

\* What the agent copies and remembers of a flow_val.
NoValue == [count |-> Zero, last_seen |-> 0]
Value == [count : [Fields -> Nat], last_seen : Nat]

Init ==
    /\ KernelInit
    /\ pc = "idle"
    /\ passNow = 0
    /\ unvisited = {}
    /\ copying = None
    /\ snap = [k \in Keys |-> NoValue]
    /\ pending = {}
    /\ seen = {}
    /\ tracked = {}
    /\ last = [k \in Keys |-> NoValue]
    /\ exported = [k \in Keys |-> Zero]
    /\ walkFails = 0

----------------------------------------------------------------------------
(* The kernel beside the agent *)

\* The walk copies a bucket under the bucket's lock: an entry is neither
\* unlinked nor replaced while it is being copied, but its counters move.
BucketLocked == copying # None => flows'[copying] = flows[copying]

Kernel ==
    /\ KernelStep
    /\ BucketLocked
    /\ UNCHANGED daemonVars

----------------------------------------------------------------------------
(* BpfFlowMap::reset: the batch walk *)

\* The lifecycle timer fires: `now` first, then the walk.
StartPass ==
    /\ pc = "idle"
    /\ pc' = "walk"
    /\ passNow' = clock
    /\ unvisited' = Keys
    /\ UNCHANGED <<kernelVars, copying, snap, pending, seen, tracked, last, exported, walkFails>>

\* The walk reaches the bucket of k and finds nothing there.
WalkMiss(k) ==
    /\ pc = "walk" /\ copying = None
    /\ k \in unvisited
    /\ ~Linked(k)
    /\ unvisited' = unvisited \ {k}
    /\ UNCHANGED <<kernelVars, pc, passNow, copying, snap, pending, seen, tracked, last, exported, walkFails>>

\* ... or it copies the entry, front to back: packets is read before the rest.
CopyPackets(k) ==
    /\ pc = "walk" /\ copying = None
    /\ k \in unvisited
    /\ Linked(k)
    /\ copying' = k
    /\ snap' = [snap EXCEPT ![k].count["packets"] = InMap(k, "packets")]
    /\ unvisited' = unvisited \ {k}
    /\ UNCHANGED <<kernelVars, pc, passNow, pending, seen, tracked, last, exported, walkFails>>

CopyRest(k) ==
    /\ pc = "walk" /\ copying = k
    /\ Linked(k)
    /\ snap' = [snap EXCEPT ![k].count["bytes"] = InMap(k, "bytes"),
                            ![k].last_seen = last_seen[flows[k]]]
    /\ pending' = pending \cup {k}
    /\ copying' = None
    /\ UNCHANGED <<kernelVars, pc, passNow, unvisited, seen, tracked, last, exported, walkFails>>

WalkDone ==
    /\ pc = "walk" /\ copying = None
    /\ unvisited = {}
    /\ pc' = "scan"
    /\ UNCHANGED <<kernelVars, passNow, unvisited, copying, snap, pending, seen,
                   tracked, last, exported, walkFails>>

\* The walk stops on a map error; reset() ignores the result, and the loop
\* runs over what was read so far.
WalkFail ==
    /\ walkFails < MaxWalkFails
    /\ walkFails' = walkFails + 1
    /\ pc = "walk" /\ copying = None
    /\ unvisited # {}
    /\ unvisited' = {}
    /\ pc' = "scan"
    /\ UNCHANGED <<kernelVars, passNow, copying, snap, pending, seen, tracked, last, exported>>

----------------------------------------------------------------------------
(* Lifecycle::run *)

proto_timeout(proto) ==
    CASE proto = 6          -> Timeouts.tcp
      [] proto = 17         -> Timeouts.udp
      [] proto \in {1, 58}  -> Timeouts.icmp
      [] OTHER              -> Timeouts.general

\* Mutant: the unsigned subtraction, wrapping when a packet arrived after `now`.
AgeWrapped(k) == (passNow + 1000 - snap[k].last_seen) % 1000

\* `now` was sampled before the walk, so last_seen may exceed it: saturate.
Age(k) == IF passNow >= snap[k].last_seen THEN passNow - snap[k].last_seen ELSE 0

\* Mutant: one timeout for every protocol.
ExpiredByTcpTimeout(k) == Age(k) > Timeouts.tcp

Expired(k) == Age(k) > proto_timeout(ProtoOf[k])

Previous(k, f) == IF k \in tracked THEN last[k].count[f] ELSE 0

\* Mutant: the counters since the entry was created, not since the last pass.
CumulativeDelta(k, f) == snap[k].count[f]

\* Mutant: no new-entry case, so the difference goes below zero.
SignedDelta(k, f) == snap[k].count[f] - Previous(k, f)

\* A counter below the one read last belongs to a new entry of the same key.
Delta(k, f) ==
    IF snap[k].count[f] >= Previous(k, f)
    THEN snap[k].count[f] - Previous(k, f)
    ELSE snap[k].count[f]

\* Mutant: only last_seen decides whether a flow is exported again.
ChangedBySeen(k) == k \notin tracked \/ snap[k].last_seen # last[k].last_seen

Changed(k) ==
    \/ k \notin tracked
    \/ snap[k].last_seen # last[k].last_seen
    \/ \E f \in Fields : snap[k].count[f] # last[k].count[f]

Exporter(k) ==
    exported' = [exported EXCEPT ![k] = [f \in Fields |-> exported[k][f] + Delta(k, f)]]

\* The loop's cursor moves past k; its snapshot entry is not read again.
Take(k) ==
    /\ pc = "scan"
    /\ k \in pending
    /\ pending' = pending \ {k}
    /\ seen' = seen \cup {k}
    /\ snap' = [snap EXCEPT ![k] = NoValue]

\* An idle flow: exported as expired, forgotten, and deleted from the map,
\* whatever the map holds under the key by now.
Expire(k) ==
    /\ Take(k)
    /\ Expired(k)
    /\ Exporter(k)
    /\ tracked' = tracked \ {k}
    /\ last' = [last EXCEPT ![k] = NoValue]
    /\ Unlink({k})
    /\ UNCHANGED <<values, cpu, clock, stats, owed, pc, passNow, unvisited, copying, walkFails>>

\* An active flow: remembered, and exported if it changed.
Refresh(k) ==
    /\ Take(k)
    /\ ~Expired(k)
    /\ IF Changed(k) THEN Exporter(k) ELSE UNCHANGED exported
    /\ tracked' = tracked \cup {k}
    /\ last' = [last EXCEPT ![k] = snap[k]]
    /\ UNCHANGED <<kernelVars, pc, passNow, unvisited, copying, walkFails>>

\* Mutant: last_ is not pruned.
KeepAll == UNCHANGED <<tracked, last>>

\* last_ keeps only what this pass has seen.
Prune ==
    /\ tracked' = tracked \cap seen
    /\ last' = [k \in Keys |-> IF k \in seen THEN last[k] ELSE NoValue]

EndPass ==
    /\ pc = "scan"
    /\ pending = {}
    /\ Prune
    /\ pc' = "idle"
    /\ passNow' = 0
    /\ seen' = {}
    /\ UNCHANGED <<kernelVars, unvisited, copying, snap, pending, exported, walkFails>>

KeysOn(i) == {k \in Keys : IfindexOf[k] = i}

\* Bpf::purge_ifindex, between passes (one event loop), after the device's
\* hooks were destroyed: no classifier run on the device is in progress.
\* A failed walk finds only some of them.
Purge(i) ==
    /\ pc = "idle"
    /\ \A c \in CPUs : cpu[c].key \notin KeysOn(i)
    /\ \E victims \in SUBSET KeysOn(i) :
         /\ MaxWalkFails = 0 => victims = KeysOn(i)
         /\ \E k \in victims : Linked(k)
         /\ Unlink(victims)
    /\ UNCHANGED <<values, cpu, clock, stats, owed, daemonVars>>

----------------------------------------------------------------------------

Daemon ==
    \/ StartPass
    \/ \E k \in Keys : WalkMiss(k) \/ CopyPackets(k) \/ CopyRest(k)
    \/ WalkDone
    \/ WalkFail
    \/ \E k \in Keys : Expire(k) \/ Refresh(k)
    \/ EndPass

Next ==
    \/ Kernel
    \/ Daemon
    \/ \E i \in Removable : Purge(i)

Spec == Init /\ [][Next]_vars

\* The agent's event loop runs whenever its timer is due, a started classifier
\* run ends, and time passes.
Classify == \E c \in CPUs : ClassifierStep(c) /\ BucketLocked /\ UNCHANGED daemonVars
TimePasses == Tick /\ UNCHANGED daemonVars
Fairness == WF_vars(Daemon) /\ WF_vars(Classify) /\ WF_vars(TimePasses)
FairSpec == Spec /\ Fairness

----------------------------------------------------------------------------
(* Properties *)

\* Every variable has its type, the kernel's table included
\* (lifecycle.hpp:58-97, BpfFlowMap).
TypeOK ==
    /\ KernelTypeOK
    /\ pc \in {"idle", "walk", "scan"}
    /\ passNow \in Nat
    /\ unvisited \subseteq Keys
    /\ copying \in Keys \cup {None}
    /\ snap \in [Keys -> Value]
    /\ pending \subseteq Keys
    /\ seen \subseteq Keys
    /\ tracked \subseteq Keys
    /\ last \in [Keys -> Value]
    /\ exported \in [Keys -> [Fields -> Nat]]
    /\ walkFails \in Nat

\* "the collector is not double-counted" (docs/design.md:283-284): for every
\* flow key the deltas handed to the exporters never add up to more than what
\* the kernel counted under that key, over all its incarnations.
NoDoubleCount ==
    \A k \in Keys, f \in Fields : exported[k][f] <= Credited(k, f)

\* The counters the kernel keeps and the deltas of Lifecycle::run implement the
\* accounting a collector relies on (docs/design.md:279-284): every step of CPUs,
\* map, walk, loop and purge adds to one flow's count, reports part of one flow's
\* count that was not reported yet, or is invisible to the collector.
Acc == INSTANCE Accounting WITH
         counted <- [k \in Keys |-> [f \in Fields |-> Credited(k, f)]]
AccountingRefined == Acc!Spec

\* The deltas are cast to uint64_t and added up by the collector
\* (lifecycle.cpp:65-70, 80): none is ever negative, although a purged or evicted
\* flow may come back with smaller counters than the agent remembers.
ExportsGrow ==
    [][\A k \in Keys, f \in Fields : exported'[k][f] >= exported[k][f]]_vars

\* A flow is expired only after its idle timeout has really passed since the
\* last packet the agent knows of (lifecycle.cpp:57, 82), even when that packet
\* arrived after the pass sampled `now`.
ExpiredWasIdle ==
    [][\A k \in Keys :
         Expire(k) => clock > snap[k].last_seen + proto_timeout(ProtoOf[k])]_vars

\* Flows that are neither purged nor expired within the run.
Lasting == {k \in Keys : IfindexOf[k] \notin Removable /\ proto_timeout(ProtoOf[k]) >= MaxClock}

\* "the sum of deltas over a flow's lifetime equals its total"
\* (docs/design.md:282-283), the half that NoDoubleCount leaves: once traffic stops,
\* everything the kernel counted for a flow that stays in the map is exported,
\* however the reads of a pass fell between the separate updates of packets,
\* bytes and last_seen, and after walks that failed.
Delivered ==
    <>[](\A k \in Lasting, f \in Fields : exported[k][f] >= Credited(k, f))

IdleTooLong(k) == Linked(k) /\ clock > last_seen[flows[k]] + proto_timeout(ProtoOf[k])

\* "Flows idle longer than their per-protocol timeout are ... deleted"
\* (docs/design.md:292): an idle flow leaves the map unless it gets traffic.
IdleFlowExpires == \A k \in Keys : IdleTooLong(k) ~> ~IdleTooLong(k)

\* last_ does not leak (lifecycle.cpp:96-103): a flow that left the map behind
\* the agent's back is forgotten, unless it comes back first.
TrackerForgets ==
    \A k \in Keys : (k \in tracked /\ ~Linked(k)) ~> (k \notin tracked \/ Linked(k))

----------------------------------------------------------------------------
(* The inductive invariant behind NoDoubleCount *)

\* Everything exported for k was counted by entries that have left the map, or
\* the current entry still is the one last read, with at least those counts.
Settled(k, f, out, read) ==
    \/ out <= retired[k][f]
    \/ /\ Linked(k)
       /\ read <= InMap(k, f)
       /\ out <= retired[k][f] + read

\* The walk, the cursor and the three sets of a pass fit together.
PassShape ==
    /\ pc = "idle" => pending = {} /\ seen = {}
    /\ pc # "walk" => unvisited = {} /\ copying = None
    /\ pc = "walk" => seen = {}
    /\ pending \cap (unvisited \cup seen) = {}
    /\ copying \notin pending \cup unvisited
    /\ copying # None => Linked(copying)

\* Nothing of k is on its way to `last` in this pass: the walk found no entry.
Missed(k) ==
    /\ pc # "idle"
    /\ k \notin unvisited \cup pending \cup seen \cup {copying}

\* The delta discipline of Lifecycle::run (lifecycle.cpp:60-103): what was
\* exported is covered by retired entries and the tracked reading; so is what a
\* copied value will add; and a tracked flow the walk missed owes nothing, so
\* forgetting it is safe.
DeltaDiscipline ==
    \A k \in Keys, f \in Fields :
      /\ Settled(k, f, exported[k][f], Previous(k, f))
      /\ (k \in pending \/ (k = copying /\ f = "packets")) =>
            Settled(k, f, exported[k][f] + Delta(k, f), snap[k].count[f])
      /\ k \notin tracked \/ Missed(k) => exported[k][f] <= retired[k][f]

\* The strengthening of NoDoubleCount that every step of lifecycle.cpp:39-106
\* preserves.
IInv == TypeOK /\ PassShape /\ DeltaDiscipline
=============================================================================
