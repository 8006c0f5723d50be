---------------------------- MODULE AgentProofs ----------------------------
(* The process never publishes part of a rendering or counters that contradict *)
(* each other, never keeps a handle into the closed tracer object, and never    *)
(* runs with a configuration that is not acceptable as a whole.                 *)
EXTENDS Agent, ProofFacts

Rendering == [of : Numeric, whole : BOOLEAN]

\* What a set of counters that is published promises.
Fits(counts) == counts["parsed"] # 0 => counts["flows_created"] <= counts["parsed"]

Before == {"exit", "config", "syslog", "ipfix", "bpf"}

\* The handles of the Bpf object: none before open_load, only those of the TC
\* object until load_drops is through.
HandlesFit ==
    /\ TracerHandlesLive
    /\ pc \in Before => handles = {} /\ drops_active = FALSE
    /\ pc = "tracer" => handles = TcHandles /\ drops_active = FALSE

\* The temporary file: there while it is written, whole when it is renamed.
TmpFits ==
    /\ pc \in {"write", "rename"} => tmp \in Rendering /\ Fits(tmp.of)
    /\ pc = "rename" => tmp.whole
    /\ tmp # None => Fits(tmp.of)

\* Between the two lookups stat[] holds flows created by then, each of a packet
\* that the second lookup will count.
StatFits ==
    /\ pc \notin {"stats2", "set"} => stat = NoCounts
    /\ pc = "stats2" => stat["parsed"] = 0 /\ stat["flows_created"] <= tc["parsed"]
    /\ pc = "set" => Fits(stat)

CountsFit ==
    /\ tc["flows_created"] + seen <= tc["parsed"]
    /\ StatFits
    /\ Fits(metrics)
    /\ TmpFits
    /\ TextfileWhole
    /\ CreatedWithinAccounted

IInv == TypeOK /\ HandlesFit /\ CountsFit

----------------------------------------------------------------------------

LEMMA Slot1 == SlotAt(1) = "flows_created" /\ SlotAt(2) = "parsed" /\ DOMAIN Slots = {1, 2}
BY DEF SlotAt, Slots

LEMMA NoCountsType ==
    /\ NoCounts \in Numeric
    /\ NoCounts["parsed"] = 0 /\ NoCounts["flows_created"] = 0
    /\ Numeric = [{"flows_created", "parsed"} -> Nat]
BY DEF NoCounts, Numeric

LEMMA InitIInv ==
    ASSUME Init
    PROVE  IInv
<1>1. TypeOK
  BY NoCountsType DEF Init, TypeOK, Attached
<1>2. HandlesFit
  BY DEF Init, HandlesFit, TracerHandlesLive, Before
<1>3. tc["flows_created"] + seen <= tc["parsed"] /\ StatFits /\ Fits(metrics)
  BY NoCountsType DEF Init, StatFits, Fits
<1>4. TmpFits /\ TextfileWhole /\ CreatedWithinAccounted
  BY DEF Init, TmpFits, TextfileWhole, CreatedWithinAccounted
<1>5. QED
  BY <1>1, <1>2, <1>3, <1>4 DEF IInv, CountsFit

\* A process that goes down leaves nothing but its files.
LEMMA DownKeepsIInv ==
    ASSUME IInv, Down, UNCHANGED <<tmp, textfile>>
    PROVE  IInv'
<1>1. TypeOK'
  BY NoCountsType DEF Down, IInv, TypeOK, Attached
<1>2. HandlesFit'
  BY DEF Down, HandlesFit, TracerHandlesLive, Before
<1>3. tc'["flows_created"] + seen' <= tc'["parsed"] /\ StatFits' /\ Fits(metrics')
  BY NoCountsType DEF Down, StatFits, Fits
<1>4. TmpFits'
  BY DEF Down, IInv, CountsFit, TmpFits, Fits
<1>5. TextfileWhole' /\ CreatedWithinAccounted'
  BY DEF IInv, CountsFit, TextfileWhole, CreatedWithinAccounted
<1>6. QED
  BY <1>1, <1>2, <1>3, <1>4, <1>5 DEF IInv, CountsFit, Fits

\* The steps of main() leave the counters and the files alone.
LEMMA StartKeepsCounts ==
    ASSUME IInv, UNCHANGED <<classifier, publishing>>,
           pc \notin {"stats1", "stats2", "set", "write", "rename"},
           pc' \notin {"stats1", "stats2", "set", "write", "rename"}
    PROVE  CountsFit'
BY DEF IInv, CountsFit, StatFits, TmpFits, Fits, TextfileWhole, CreatedWithinAccounted,
       classifier, publishing

\* The steps of the event loop leave the handles alone.
LEMMA LoopKeepsHandles ==
    ASSUME IInv, UNCHANGED startup, pc \notin Before \cup {"tracer"} \/ pc' = pc,
           pc' \notin Before \cup {"tracer"} \/ pc' = pc
    PROVE  HandlesFit'
BY DEF IInv, HandlesFit, TracerHandlesLive, startup

\* Everything but pc and the bounds stays.
LEMMA WaitKeepsIInv ==
    ASSUME IInv, UNCHANGED <<startup, classifier, publishing>>,
           \/ pc \in {"exit", "config", "syslog", "ipfix"} /\ pc' \in Before
           \/ /\ pc \in {"netlink", "wait", "open"}
              /\ pc' \in {"wait", "open", "stats1"}
    PROVE  IInv'
<1>1. TypeOK'
  BY DEF IInv, TypeOK, Attached, startup, classifier, publishing, Before
<1>2. HandlesFit'
  BY DEF IInv, HandlesFit, TracerHandlesLive, startup, Before
<1>3. CountsFit'
  BY DEF IInv, CountsFit, StatFits, TmpFits, Fits, TextfileWhole, CreatedWithinAccounted,
         classifier, publishing, Before
<1>4. QED
  BY <1>1, <1>2, <1>3 DEF IInv

LEMMA StartStepKeepsIInv ==
    ASSUME IInv, StartStep
    PROVE  IInv'
<1>1. CASE Respawn
  BY <1>1, WaitKeepsIInv DEF Respawn, Before
<1>2. CASE LoadConfig \/ InitSyslog \/ ConnectIpfix
  <2>1. TypeOK'
    BY <1>2 DEF IInv, TypeOK, Attached, LoadConfig, InitSyslog, ConnectIpfix, classifier, publishing
  <2>2. HandlesFit'
    BY <1>2 DEF IInv, HandlesFit, TracerHandlesLive, LoadConfig, InitSyslog, ConnectIpfix, Before
  <2>3. CountsFit'
    BY <1>2, StartKeepsCounts DEF LoadConfig, InitSyslog, ConnectIpfix
  <2>4. QED
    BY <2>1, <2>2, <2>3 DEF IInv
<1>3. CASE OpenLoad
  <2>1. TypeOK'
    BY <1>3 DEF IInv, TypeOK, Attached, OpenLoad, classifier, publishing
  <2>2. HandlesFit'
    BY <1>3 DEF IInv, HandlesFit, TracerHandlesLive, OpenLoad, Before
  <2>3. CountsFit'
    BY <1>3, StartKeepsCounts DEF OpenLoad
  <2>4. QED
    BY <2>1, <2>2, <2>3 DEF IInv
<1>4. CASE LoadDrops \/ NoTracer \/ TracerFails
  <2>1. pc = "tracer" /\ pc' = "netlink" /\ UNCHANGED <<exporters, classifier, publishing>>
    BY <1>4 DEF LoadDrops, NoTracer, TracerFails, startup
  <2>2. handles = TcHandles /\ drops_active = FALSE /\ TcHandles \cap TracerHandles = {}
    BY <2>1 DEF IInv, HandlesFit, TcHandles, TracerHandles
  <2>3. \/ handles' = TcHandles \cup TracerHandles /\ drops_active' = TRUE
        \/ /\ handles' \subseteq TcHandles \cup TracerHandles
           /\ handles' \cap TracerHandles = {}
           /\ drops_active' = FALSE
    <3>1. CASE LoadDrops
      BY <3>1, <2>2 DEF LoadDrops
    <3>2. CASE NoTracer
      BY <3>2, <2>2 DEF NoTracer, startup
    <3>3. CASE TracerFails
      <4>1. PICK step \in {"open", "find", "reuse", "load", "attach"} :
              \E held \in Held(step) : handles' = close_drops(handles \cup held)
        BY <3>3 DEF TracerFails
      <4>2. PICK held \in Held(step) : handles' = (handles \cup held) \ TracerHandles
        BY <4>1 DEF close_drops
      <4>3. held \subseteq TracerHandles
        BY <4>1, <4>2 DEF Held, TracerHandles
      <4>4. drops_active' = FALSE
        BY <3>3 DEF TracerFails
      <4>5. QED
        BY <2>2, <4>2, <4>3, <4>4
    <3>4. QED
      BY <1>4, <3>1, <3>2, <3>3
  <2>4. TypeOK'
    BY <2>1, <2>3 DEF IInv, TypeOK, Attached, classifier, publishing
  <2>5. HandlesFit'
    BY <2>1, <2>2, <2>3 DEF HandlesFit, TracerHandlesLive, Before
  <2>6. CountsFit'
    BY <2>1, StartKeepsCounts
  <2>7. QED
    BY <2>4, <2>5, <2>6 DEF IInv
<1>5. CASE OpenNetlink
  BY <1>5, WaitKeepsIInv DEF OpenNetlink
<1>6. QED
  BY <1>1, <1>2, <1>3, <1>4, <1>5 DEF StartStep

LEMMA ClassifierKeepsIInv ==
    ASSUME IInv, ParsePacket \/ Classify
    PROVE  IInv'
<1>1. /\ tc \in [{"flows_created", "parsed"} -> Nat] /\ seen \in Nat
      /\ tc' \in [{"flows_created", "parsed"} -> Nat] /\ seen' \in Nat
      /\ tc'["flows_created"] + seen' <= tc'["parsed"]
      /\ tc["parsed"] <= tc'["parsed"]
  <2>1. tc \in [{"flows_created", "parsed"} -> Nat] /\ seen \in Nat
    BY NoCountsType DEF IInv, TypeOK
  <2>2. tc["flows_created"] + seen <= tc["parsed"]
    BY DEF IInv, CountsFit
  <2>3. QED
    BY <2>1, <2>2 DEF ParsePacket, Classify, CreateFlow, PacketDone
<1>2. UNCHANGED <<pc, startup, publishing>>
  BY DEF ParsePacket, Classify, CreateFlow, PacketDone
<1>3. TypeOK'
  BY <1>1, <1>2, NoCountsType DEF IInv, TypeOK, Attached, startup, publishing
<1>4. HandlesFit'
  BY <1>2, LoopKeepsHandles
<1>5. StatFits'
  <2>1. stat \in [{"flows_created", "parsed"} -> Nat]
    BY NoCountsType DEF IInv, TypeOK
  <2>2. QED
    BY <1>1, <1>2, <2>1 DEF IInv, CountsFit, StatFits, Fits, publishing
<1>6. Fits(metrics') /\ TmpFits' /\ TextfileWhole' /\ CreatedWithinAccounted'
  BY <1>2 DEF IInv, CountsFit, TmpFits, Fits, TextfileWhole, CreatedWithinAccounted, publishing
<1>7. QED
  BY <1>1, <1>3, <1>4, <1>5, <1>6 DEF IInv, CountsFit, Fits

LEMMA LifeKeepsIInv ==
    ASSUME IInv, Life
    PROVE  IInv'
<1>1. CASE LifeTimer
  BY <1>1, WaitKeepsIInv DEF LifeTimer
<1>2. CASE \E i \in DOMAIN Slots : ReadStat(i)
  <2>1. UNCHANGED <<startup, classifier, metrics, tmp, textfile>>
    BY <1>2 DEF ReadStat
  <2>2. /\ tc \in [{"flows_created", "parsed"} -> Nat] /\ seen \in Nat
        /\ stat \in [{"flows_created", "parsed"} -> Nat]
        /\ tc["flows_created"] + seen <= tc["parsed"]
    BY NoCountsType DEF IInv, TypeOK, CountsFit
  <2>3. \/ /\ pc = "stats1" /\ pc' = "stats2"
           /\ \/ stat' = [stat EXCEPT !["flows_created"] = tc["flows_created"]]
              \/ stat' = [stat EXCEPT !["flows_created"] = 0]
        \/ /\ pc = "stats2" /\ pc' = "set"
           /\ \/ stat' = [stat EXCEPT !["parsed"] = tc["parsed"]]
              \/ stat' = [stat EXCEPT !["parsed"] = 0]
    <3>1. PICK i \in {1, 2} : ReadStat(i)
      BY <1>2, Slot1
    <3>2. CASE i = 1
      BY <3>1, <3>2, Slot1 DEF ReadStat
    <3>3. CASE i = 2
      BY <3>1, <3>3, Slot1 DEF ReadStat
    <3>4. QED
      BY <3>2, <3>3
  <2>4. stat' \in [{"flows_created", "parsed"} -> Nat]
    BY <2>2, <2>3
  <2>5. StatFits'
    <3>1. CASE pc = "stats1"
      <4>1. stat["parsed"] = 0
        BY <3>1, NoCountsType DEF IInv, CountsFit, StatFits
      <4>2. QED
        BY <2>1, <2>2, <2>3, <3>1, <4>1 DEF StatFits, classifier
    <3>2. CASE pc = "stats2"
      <4>1. stat["flows_created"] <= tc["parsed"]
        BY <3>2 DEF IInv, CountsFit, StatFits
      <4>2. QED
        BY <2>1, <2>2, <2>3, <3>2, <4>1 DEF StatFits, Fits, classifier
    <3>3. QED
      BY <2>3, <3>1, <3>2
  <2>6. TypeOK'
    BY <2>1, <2>3, <2>4, NoCountsType DEF IInv, TypeOK, Attached, startup, classifier
  <2>7. HandlesFit'
    BY <2>1, <2>3, LoopKeepsHandles DEF Before
  <2>8. /\ tc'["flows_created"] + seen' <= tc'["parsed"]
        /\ Fits(metrics') /\ TmpFits' /\ TextfileWhole' /\ CreatedWithinAccounted'
    BY <2>1, <2>3 DEF IInv, CountsFit, TmpFits, Fits, TextfileWhole, CreatedWithinAccounted,
                     classifier
  <2>9. QED
    BY <2>5, <2>6, <2>7, <2>8 DEF IInv, CountsFit, Fits
<1>3. CASE SetMetrics
  <2>1. UNCHANGED <<startup, classifier, tmp, textfile>> /\ pc = "set" /\ pc' = "wait"
    BY <1>3 DEF SetMetrics
  <2>2. stat' = NoCounts /\ metrics' \in {stat, metrics}
    BY <1>3 DEF SetMetrics, set_bpf
  <2>3. TypeOK'
    BY <2>1, <2>2, NoCountsType DEF IInv, TypeOK, Attached, startup, classifier
  <2>4. HandlesFit'
    BY <2>1, LoopKeepsHandles DEF Before
  <2>5. StatFits' /\ Fits(metrics')
    <3>1. Fits(stat) /\ Fits(metrics)
      BY <2>1 DEF IInv, CountsFit, StatFits
    <3>2. QED
      BY <2>1, <2>2, <3>1 DEF StatFits
  <2>6. /\ tc'["flows_created"] + seen' <= tc'["parsed"]
        /\ TmpFits' /\ TextfileWhole' /\ CreatedWithinAccounted'
    BY <2>1 DEF IInv, CountsFit, TmpFits, Fits, TextfileWhole, CreatedWithinAccounted, classifier
  <2>7. QED
    BY <2>3, <2>4, <2>5, <2>6 DEF IInv, CountsFit, Fits
<1>4. QED
  BY <1>1, <1>2, <1>3 DEF Life

LEMMA MeterKeepsIInv ==
    ASSUME IInv, Meter
    PROVE  IInv'
<1>1. CASE MeterTimer \/ OpenTmpFails
  BY <1>1, WaitKeepsIInv DEF MeterTimer, OpenTmpFails
<1>2. CASE OpenTmp \/ WriteTmp \/ WriteFails \/ RenameTmp
  <2>1. /\ UNCHANGED <<startup, classifier, stat, metrics>>
        /\ pc \in {"open", "write", "rename"} /\ pc' \in {"wait", "write", "rename"}
    BY <1>2 DEF OpenTmp, WriteTmp, WriteFails, RenameTmp
  <2>2. HandlesFit'
    BY <2>1, LoopKeepsHandles DEF Before
  <2>3. tc'["flows_created"] + seen' <= tc'["parsed"] /\ StatFits' /\ Fits(metrics')
    BY <2>1 DEF IInv, CountsFit, StatFits, Fits, classifier
  <2>4. metrics \in Numeric /\ Fits(metrics)
    BY DEF IInv, CountsFit, TypeOK
  <2>5. /\ tmp' \in Rendering \cup {None}
        /\ textfile' \in Rendering \cup {None}
        /\ TmpFits' /\ TextfileWhole' /\ CreatedWithinAccounted'
    <3>1. /\ tmp \in Rendering \cup {None} /\ textfile \in Rendering \cup {None}
          /\ TmpFits /\ TextfileWhole /\ CreatedWithinAccounted
      BY DEF IInv, TypeOK, CountsFit, Rendering
    <3>2. CASE OpenTmp
      <4>1. CASE pc' = "write"
        <5>1. tmp' = [of |-> metrics, whole |-> FALSE]
          BY <3>2, <4>1 DEF OpenTmp
        <5>2. tmp' \in Rendering /\ Fits(tmp'.of)
          BY <2>4, <5>1 DEF Rendering
        <5>3. UNCHANGED textfile
          BY <3>2 DEF OpenTmp
        <5>4. QED
          BY <3>1, <4>1, <5>2, <5>3 DEF TmpFits, Fits, TextfileWhole, CreatedWithinAccounted
      <4>2. CASE pc' # "write"
        <5>1. pc' = "wait" /\ UNCHANGED <<tmp, textfile>>
          BY <3>2, <4>2 DEF OpenTmp
        <5>2. QED
          BY <3>1, <5>1 DEF TmpFits, Fits, TextfileWhole, CreatedWithinAccounted
      <4>3. QED
        BY <4>1, <4>2
    <3>3. CASE WriteTmp
      <4>1. tmp \in Rendering /\ Fits(tmp.of)
        BY <3>1, <3>3 DEF WriteTmp, TmpFits
      <4>2. tmp' \in Rendering /\ tmp'.of = tmp.of /\ tmp'.whole = TRUE
        BY <3>3, <4>1 DEF WriteTmp, Rendering
      <4>3. pc' = "rename" /\ UNCHANGED textfile
        BY <3>3 DEF WriteTmp
      <4>4. QED
        BY <3>1, <4>1, <4>2, <4>3 DEF TmpFits, Fits, TextfileWhole, CreatedWithinAccounted
    <3>4. CASE WriteFails
      BY <3>1, <3>4 DEF WriteFails, TmpFits, Fits, TextfileWhole, CreatedWithinAccounted
    <3>5. CASE RenameTmp
      <4>1. tmp \in Rendering /\ Fits(tmp.of) /\ tmp.whole
        BY <3>1, <3>5 DEF RenameTmp, TmpFits
      <4>2. pc' = "wait" /\ tmp' = None /\ textfile' \in {tmp, textfile}
        BY <3>5 DEF RenameTmp
      <4>3. TmpFits'
        BY <4>2 DEF TmpFits
      <4>4. textfile' \in Rendering \cup {None}
        BY <3>1, <4>1, <4>2
      <4>5. TextfileWhole' /\ CreatedWithinAccounted'
        BY <3>1, <4>1, <4>2 DEF Fits, TextfileWhole, CreatedWithinAccounted
      <4>6. QED
        BY <4>2, <4>3, <4>4, <4>5
    <3>6. QED
      BY <1>2, <3>2, <3>3, <3>4, <3>5
  <2>6. TypeOK'
    BY <2>1, <2>5 DEF IInv, TypeOK, Attached, startup, classifier, Rendering
  <2>7. QED
    BY <2>2, <2>3, <2>5, <2>6 DEF IInv, CountsFit, Fits
<1>3. QED
  BY <1>1, <1>2 DEF Meter

LEMMA NextKeepsIInv ==
    ASSUME IInv, [Next]_vars
    PROVE  IInv'
<1>1. CASE StartStep
  BY <1>1, StartStepKeepsIInv
<1>2. CASE StartFailure \/ Crash
  BY <1>2, DownKeepsIInv DEF StartFailure, ConfigFails, IpfixFails, StartFails, Crash
<1>3. CASE Life
  BY <1>3, LifeKeepsIInv
<1>4. CASE Meter
  BY <1>4, MeterKeepsIInv
<1>5. CASE ParsePacket \/ Classify
  BY <1>5, ClassifierKeepsIInv
<1>6. CASE UNCHANGED vars
  BY <1>6 DEF vars, startup, classifier, publishing, IInv, TypeOK, Attached, HandlesFit,
              TracerHandlesLive, CountsFit, StatFits, TmpFits, Fits, TextfileWhole,
              CreatedWithinAccounted
<1>7. QED
  BY <1>1, <1>2, <1>3, <1>4, <1>5, <1>6 DEF Next

----------------------------------------------------------------------------
(* What config_uci.cpp makes of a file.  FoldLeft is a recursion over the sets *)
(* of indexes; on the first k of them it has read the first k sections.        *)

Start == [cfg |-> Defaults, err |-> FALSE]

FillRecursion(g, secs, n) ==
    g = [s \in SUBSET (1..n) |->
           IF s = {} THEN Start ELSE fill_section(g[s \ {Max(s)}], secs[Max(s)])]

LEMMA FillDefinition ==
    ASSUME NEW secs, NEW n, DOMAIN secs = 1..n
    PROVE  FoldLeft(fill_section, Start, secs) = (CHOOSE g : FillRecursion(g, secs, n))[1..n]
BY DEF FoldLeft, MapThenFoldSet, FillRecursion

LEMMA MaxOfRange ==
    ASSUME NEW n \in Nat, NEW s \in SUBSET (1..n + 1), n + 1 \in s
    PROVE  Max(s) = n + 1
<1>1. \A y \in s : n + 1 >= y
  OBVIOUS
<1>2. \A x \in s : (\A y \in s : x >= y) => x = n + 1
  OBVIOUS
<1>3. QED
  BY <1>1, <1>2 DEF Max

LEMMA MaxBelow ==
    ASSUME NEW n \in Nat, NEW s \in SUBSET (1..n + 1), n + 1 \notin s
    PROVE  s \in SUBSET (1..n)
<1>1. \A x \in 1..n + 1 : x # n + 1 => x \in 1..n
  OBVIOUS
<1>2. QED
  BY <1>1

\* A solution for n sections extends to n + 1.
LEMMA FillExtends ==
    ASSUME NEW secs, NEW n \in Nat, NEW g, FillRecursion(g, secs, n)
    PROVE  \E h : FillRecursion(h, secs, n + 1)
<1> DEFINE h == [s \in SUBSET (1..n + 1) |->
                   IF n + 1 \in s THEN fill_section(g[s \ {n + 1}], secs[n + 1]) ELSE g[s]]
<1>1. ASSUME NEW s \in SUBSET (1..n + 1)
      PROVE  h[s] = IF s = {} THEN Start ELSE fill_section(h[s \ {Max(s)}], secs[Max(s)])
  <2>1. CASE n + 1 \in s
    <3>1. Max(s) = n + 1
      BY <2>1, MaxOfRange
    <3>2. h[s \ {n + 1}] = g[s \ {n + 1}]
      OBVIOUS
    <3>3. h[s] = fill_section(g[s \ {n + 1}], secs[n + 1])
      BY <2>1
    <3>4. QED
      BY <2>1, <3>1, <3>2, <3>3
  <2>2. CASE n + 1 \notin s
    <3>1. s \in SUBSET (1..n)
      BY <2>2, MaxBelow
    <3>2. h[s] = g[s] /\ h[s \ {Max(s)}] = g[s \ {Max(s)}]
      BY <2>2
    <3>3. g[s] = IF s = {} THEN Start ELSE fill_section(g[s \ {Max(s)}], secs[Max(s)])
      BY <3>1 DEF FillRecursion
    <3>4. QED
      BY <3>2, <3>3
  <2>3. QED
    BY <2>1, <2>2
<1>2. h = [s \in SUBSET (1..n + 1) |->
             IF s = {} THEN Start ELSE fill_section(h[s \ {Max(s)}], secs[Max(s)])]
  BY <1>1
<1>3. FillRecursion(h, secs, n + 1)
  BY <1>2 DEF FillRecursion
<1>4. QED
  BY <1>3

LEMMA FillSolved ==
    ASSUME NEW secs, NEW n \in Nat
    PROVE  \E g : FillRecursion(g, secs, n)
<1> DEFINE F == {k \in Nat : ~\E g : FillRecursion(g, secs, k)}
<1>1. ASSUME F # {} PROVE FALSE
  <2>1. PICK k \in F : \A j \in F : k <= j
    <3>1. F \in SUBSET Nat
      OBVIOUS
    <3> HIDE DEF F
    <3>2. QED
      BY <1>1, <3>1, LeastNatural
  <2>2. CASE k = 0
    <3> DEFINE g == [s \in SUBSET (1..0) |-> Start]
    <3>1. 1..0 = {}
      OBVIOUS
    <3>2. g = [s \in SUBSET (1..0) |->
                 IF s = {} THEN Start ELSE fill_section(g[s \ {Max(s)}], secs[Max(s)])]
      BY <3>1
    <3>3. FillRecursion(g, secs, 0)
      BY <3>2 DEF FillRecursion
    <3>4. QED
      BY <2>1, <2>2, <3>3
  <2>3. CASE k # 0
    <3>1. k - 1 \in Nat /\ k - 1 \notin F /\ (k - 1) + 1 = k
      BY <2>1, <2>3
    <3>2. PICK g : FillRecursion(g, secs, k - 1)
      BY <3>1
    <3>3. \E h : FillRecursion(h, secs, (k - 1) + 1)
      BY <3>1, <3>2, FillExtends
    <3>4. QED
      BY <2>1, <3>1, <3>3
  <2>4. QED
    BY <2>2, <2>3
<1>2. QED
  BY <1>1

Ipfixs == [enabled : BOOLEAN, host : BOOLEAN, port : Nat]
Syslogs == [enabled : BOOLEAN, host : BOOLEAN, port : Nat, wire : Wire]
Configs ==
    [timeout : Nat, interval : Nat, max_flows : Nat, track_drops : BOOLEAN, textfile : BOOLEAN,
     ipfix  : Ipfixs, syslog : Syslogs]

Results == [cfg : Configs, err : BOOLEAN]

LEMMA StartType == Start \in Results /\ Start.err = FALSE
<1>1. Defaults.ipfix \in Ipfixs
  BY DEF Defaults, Ipfixs
<1>2. Defaults.syslog \in Syslogs
  BY DEF Defaults, Syslogs, Wire
<1>3. Defaults \in Configs
  BY <1>1, <1>2 DEF Defaults, Configs
<1>4. QED
  BY <1>3 DEF Start, Results

LEMMA ParseUint ==
    ASSUME NEW v \in Number, NEW def \in Nat, NEW hi \in Nat
    PROVE  /\ parse_uint(v, def, hi).val \in Nat
           /\ parse_uint(v, def, hi).ok \in BOOLEAN
           /\ parse_uint(v, def, hi).ok => v # Invalid /\ v <= hi
<1>1. parse_uint(v, def, hi).val = IF v # Absent /\ InRange(v, hi) THEN v ELSE def
  BY DEF parse_uint
<1>2. parse_uint(v, def, hi).ok = (v = Absent \/ InRange(v, hi))
  BY DEF parse_uint
<1>3. v = Absent => v # Invalid /\ v <= hi
  BY DEF Absent, Invalid
<1>4. v # Absent /\ InRange(v, hi) => v \in Nat
  BY DEF Number, InRange
<1>5. InRange(v, hi) => v # Invalid /\ v <= hi
  BY DEF InRange
<1>6. QED
  BY <1>1, <1>2, <1>3, <1>4, <1>5, Zenon

LEMMA BoolOption ==
    ASSUME NEW v
    PROVE  bool_option(v, FALSE) \in BOOLEAN /\ bool_option("on", FALSE) = TRUE
BY DEF bool_option

LEMMA TextOption ==
    ASSUME NEW v \in Wire
    PROVE  text_option(v, "known") \in Wire
BY DEF text_option, Wire

LEMMA SectionType ==
    ASSUME NEW s \in Section
    PROVE  /\ s.timeout \in Number /\ s.max_flows \in Number /\ s.interval \in Number
           /\ s.port \in Number
           /\ s.textfile \in BOOLEAN /\ s.host \in BOOLEAN
           /\ s.wire \in Wire
           /\ s.type # "main" => s.timeout = Absent /\ s.max_flows = Absent /\ s.interval = Absent
           /\ s.type # "ipfix" /\ s.type # "syslog" => s.port = Absent
<1>1. /\ s.timeout \in Number /\ s.max_flows \in Number /\ s.interval \in Number
      /\ s.port \in Number /\ s.textfile \in BOOLEAN /\ s.host \in BOOLEAN
  BY DEF Section
<1>2. s.wire \in Wire
  BY DEF Section
<1>3. s.type # "main" => {s.timeout, s.max_flows, s.interval} = {Absent}
  BY DEF Section
<1>4. s.type \notin {"ipfix", "syslog"} => s.port = Absent
  BY DEF Section
<1>5. QED
  BY <1>1, <1>2, <1>3, <1>4

\* A section whose numbers are numbers, and in range.
InOrder(s) == \A opt \in DOMAIN Limits : s[opt] # Invalid /\ s[opt] <= Limits[opt]

LEMMA NumbersInOrder ==
    ASSUME NEW s,
           s.timeout # Invalid /\ s.timeout <= 86400,
           s.max_flows # Invalid /\ s.max_flows <= 1073741824,
           s.interval # Invalid /\ s.interval <= 86400,
           s.port # Invalid /\ s.port <= 65535
    PROVE  InOrder(s)
BY DEF InOrder, Limits

LEMMA AbsentInOrder ==
    Absent # Invalid /\ Absent <= 86400 /\ Absent <= 1073741824 /\ Absent <= 65535
BY DEF Absent, Invalid

\* An enabled IPFIX exporter without a collector.
Nowhere(s) == s.type = "ipfix" /\ s.enabled = "on" /\ ~s.host

LEMMA MainSection ==
    ASSUME NEW c \in Configs, NEW s \in Section
    PROVE  main_section(c, s) \in Configs /\ main_section(c, s).ipfix = c.ipfix
<1> DEFINE n1 == parse_uint(s.timeout, 300, 86400)
           n2 == parse_uint(s.max_flows, 0, 1073741824)
           n3 == parse_uint(s.interval, 20, 86400)
           t == n1.val
           m == IF n2.ok THEN n2.val ELSE c.max_flows
           i == IF n3.ok THEN n3.val ELSE c.interval
           d == bool_option(s.track_drops, FALSE)
           x == c.textfile \/ s.textfile
<1>1. main_section(c, s) = [c EXCEPT !.timeout = t, !.max_flows = m, !.interval = i,
                                     !.track_drops = d, !.textfile = x]
  BY DEF main_section, MainNumbers
<1>2. n1.val \in Nat /\ n2.val \in Nat /\ n3.val \in Nat
  BY SectionType, ParseUint
<1>3. t \in Nat /\ m \in Nat /\ i \in Nat /\ d \in BOOLEAN /\ x \in BOOLEAN
  <2> HIDE DEF n1, n2, n3
  <2> QED
    BY <1>2, BoolOption DEF Configs
<1> HIDE DEF t, m, i, d, x
<1>4. QED
  BY <1>1, <1>3 DEF Configs

LEMMA IpfixSection ==
    ASSUME NEW c \in Configs, NEW s \in Section
    PROVE  /\ ipfix_section(c, s) \in Configs
           /\ ipfix_section(c, s).ipfix.enabled = bool_option(s.enabled, FALSE)
           /\ ipfix_section(c, s).ipfix.host = s.host
<1> DEFINE e == bool_option(s.enabled, FALSE)
           p == IF IpfixPort(s).ok THEN IpfixPort(s).val ELSE c.ipfix.port
           x == [enabled |-> e, host |-> s.host, port |-> p]
<1>1. ipfix_section(c, s) = [c EXCEPT !.ipfix = x]
  BY DEF ipfix_section
<1>2. c.ipfix.port \in Nat /\ IpfixPort(s).val \in Nat /\ e \in BOOLEAN /\ s.host \in BOOLEAN
  <2>1. c.ipfix.port \in Nat
    BY DEF Configs, Ipfixs
  <2>2. IpfixPort(s).val \in Nat
    BY SectionType, ParseUint DEF IpfixPort
  <2>3. QED
    BY <2>1, <2>2, SectionType, BoolOption
<1>3. x \in Ipfixs /\ x.enabled = e /\ x.host = s.host
  <2> HIDE DEF e
  <2> QED
    BY <1>2 DEF Ipfixs
<1> HIDE DEF x
<1>4. QED
  BY <1>1, <1>3 DEF Configs

LEMMA SyslogSection ==
    ASSUME NEW c \in Configs, NEW s \in Section
    PROVE  syslog_section(c, s) \in Configs /\ syslog_section(c, s).ipfix = c.ipfix
<1> DEFINE e == bool_option(s.enabled, FALSE)
           p == IF SyslogPort(s).ok THEN SyslogPort(s).val ELSE c.syslog.port
           t == text_option(s.wire, "known")
           x == [enabled |-> e, host |-> s.host, port |-> p, wire |-> t]
<1>1. syslog_section(c, s) = [c EXCEPT !.syslog = x]
  BY DEF syslog_section
<1>2. /\ c.syslog.port \in Nat /\ SyslogPort(s).val \in Nat
      /\ e \in BOOLEAN /\ s.host \in BOOLEAN /\ t \in Wire
  <2>1. c.syslog.port \in Nat
    BY DEF Configs, Syslogs
  <2>2. SyslogPort(s).val \in Nat
    BY SectionType, ParseUint DEF SyslogPort
  <2>3. QED
    BY <2>1, <2>2, SectionType, BoolOption, TextOption
<1>3. x \in Syslogs
  <2> HIDE DEF e, t
  <2> QED
    BY <1>2 DEF Syslogs
<1> HIDE DEF x
<1>4. QED
  BY <1>1, <1>3 DEF Configs

\* What one section does to the configuration read so far.
Filled(acc, s) ==
    LET r == fill_section(acc, s) IN
    /\ r \in Results
    /\ ~r.err => ~acc.err /\ InOrder(s)
    /\ s.type # "ipfix" => r.cfg.ipfix = acc.cfg.ipfix
    /\ Nowhere(s) => NoHost(r.cfg)

LEMMA MainInOrder ==
    ASSUME NEW s \in Section, s.type = "main",
           parse_uint(s.timeout, 300, 86400).ok,
           parse_uint(s.max_flows, 0, 1073741824).ok,
           parse_uint(s.interval, 20, 86400).ok
    PROVE  InOrder(s)
<1>1. s.timeout \in Number /\ s.max_flows \in Number /\ s.interval \in Number /\ s.port = Absent
  BY SectionType
<1>2. s.timeout # Invalid /\ s.timeout <= 86400
  BY <1>1, ParseUint
<1>3. s.max_flows # Invalid /\ s.max_flows <= 1073741824
  BY <1>1, ParseUint
<1>4. s.interval # Invalid /\ s.interval <= 86400
  BY <1>1, ParseUint
<1>5. s.port # Invalid /\ s.port <= 65535
  BY <1>1, AbsentInOrder
<1>6. QED
  BY <1>2, <1>3, <1>4, <1>5, NumbersInOrder

LEMMA PortInOrder ==
    ASSUME NEW s \in Section,
           \/ s.type = "ipfix" /\ IpfixPort(s).ok
           \/ s.type = "syslog" /\ SyslogPort(s).ok
    PROVE  InOrder(s)
<1>1. /\ s.timeout = Absent /\ s.max_flows = Absent /\ s.interval = Absent
      /\ s.port \in Number
  BY SectionType
<1>2. s.port # Invalid /\ s.port <= 65535
  <2>1. CASE IpfixPort(s).ok
    BY <1>1, <2>1, ParseUint DEF IpfixPort
  <2>2. CASE SyslogPort(s).ok
    BY <1>1, <2>2, ParseUint DEF SyslogPort
  <2>3. QED
    BY <2>1, <2>2
<1>3. QED
  BY <1>1, <1>2, AbsentInOrder, NumbersInOrder

LEMMA FillMain ==
    ASSUME NEW acc \in Results, NEW s \in Section, s.type = "main"
    PROVE  Filled(acc, s)
<1> DEFINE n1 == parse_uint(s.timeout, 300, 86400)
           n2 == parse_uint(s.max_flows, 0, 1073741824)
           n3 == parse_uint(s.interval, 20, 86400)
<1>1. fill_section(acc, s) =
        [cfg |-> main_section(acc.cfg, s), err |-> AnyError(acc.err, <<n1, n2, n3>>)]
  BY DEF fill_section, MainNumbers
<1>2. /\ n1.ok \in BOOLEAN /\ n2.ok \in BOOLEAN /\ n3.ok \in BOOLEAN
      /\ n1.ok /\ n2.ok /\ n3.ok => InOrder(s)
  <2>1. n1.ok \in BOOLEAN /\ n2.ok \in BOOLEAN /\ n3.ok \in BOOLEAN
    BY SectionType, ParseUint
  <2>2. QED
    BY <2>1, MainInOrder
<1>3. acc.cfg \in Configs /\ acc.err \in BOOLEAN
  BY DEF Results
<1>4. /\ main_section(acc.cfg, s) \in Configs
      /\ main_section(acc.cfg, s).ipfix = acc.cfg.ipfix
  BY <1>3, MainSection
<1> HIDE DEF n1, n2, n3
<1>5. /\ AnyError(acc.err, <<n1, n2, n3>>) \in BOOLEAN
      /\ ~AnyError(acc.err, <<n1, n2, n3>>) => ~acc.err /\ n1.ok /\ n2.ok /\ n3.ok
  BY <1>3 DEF AnyError
<1>6. QED
  BY <1>1, <1>2, <1>4, <1>5 DEF Filled, Nowhere, Results

LEMMA FillIpfix ==
    ASSUME NEW acc \in Results, NEW s \in Section, s.type = "ipfix"
    PROVE  Filled(acc, s)
<1> DEFINE p == IpfixPort(s)
           c == ipfix_section(acc.cfg, s)
<1>1. fill_section(acc, s) = [cfg |-> c, err |-> AnyError(acc.err, <<p>>)]
  BY DEF fill_section
<1>2. p.ok \in BOOLEAN /\ (p.ok => InOrder(s))
  BY SectionType, ParseUint, PortInOrder DEF IpfixPort
<1>3. acc.cfg \in Configs /\ acc.err \in BOOLEAN
  BY DEF Results
<1>4. /\ c \in Configs
      /\ c.ipfix.enabled = bool_option(s.enabled, FALSE)
      /\ c.ipfix.host = s.host
  BY <1>3, IpfixSection
<1> HIDE DEF p, c
<1>5. /\ AnyError(acc.err, <<p>>) \in BOOLEAN
      /\ ~AnyError(acc.err, <<p>>) => ~acc.err /\ p.ok
  BY <1>3 DEF AnyError
<1>6. Nowhere(s) => NoHost(c)
  BY <1>4, BoolOption DEF Nowhere, NoHost
<1>7. QED
  BY <1>1, <1>2, <1>4, <1>5, <1>6 DEF Filled, Results

LEMMA FillSyslog ==
    ASSUME NEW acc \in Results, NEW s \in Section, s.type = "syslog"
    PROVE  Filled(acc, s)
<1> DEFINE p == SyslogPort(s)
           c == syslog_section(acc.cfg, s)
<1>1. fill_section(acc, s) = [cfg |-> c, err |-> AnyError(acc.err, <<p>>)]
  BY DEF fill_section
<1>2. p.ok \in BOOLEAN /\ (p.ok => InOrder(s))
  BY SectionType, ParseUint, PortInOrder DEF SyslogPort
<1>3. acc.cfg \in Configs /\ acc.err \in BOOLEAN
  BY DEF Results
<1>4. c \in Configs /\ c.ipfix = acc.cfg.ipfix
  BY <1>3, SyslogSection
<1> HIDE DEF p, c
<1>5. /\ AnyError(acc.err, <<p>>) \in BOOLEAN
      /\ ~AnyError(acc.err, <<p>>) => ~acc.err /\ p.ok
  BY <1>3 DEF AnyError
<1>6. QED
  BY <1>1, <1>2, <1>4, <1>5 DEF Filled, Nowhere, Results

LEMMA OtherInOrder ==
    ASSUME NEW s \in Section, s.type \notin {"main", "ipfix", "syslog"}
    PROVE  InOrder(s)
<1>1. /\ s.timeout = Absent /\ s.max_flows = Absent /\ s.interval = Absent
      /\ s.port = Absent
  BY SectionType
<1>2. QED
  BY <1>1, AbsentInOrder, NumbersInOrder

LEMMA FillSection ==
    ASSUME NEW acc \in Results, NEW s \in Section
    PROVE  Filled(acc, s)
<1>1. CASE s.type \notin {"main", "ipfix", "syslog"}
  <2>1. fill_section(acc, s) = acc
    BY <1>1 DEF fill_section
  <2>2. QED
    BY <1>1, <2>1, OtherInOrder DEF Filled, Nowhere
<1>2. QED
  BY <1>1, FillMain, FillIpfix, FillSyslog

\* The first k sections are read: no error means that their numbers are in order,
\* and an IPFIX exporter without a collector, if it is the last one, shows.
Prefix(r, secs, k) ==
    /\ r \in Results
    /\ ~r.err => \A i \in 1..k : InOrder(secs[i])
    /\ \A i \in 1..k :
         Nowhere(secs[i]) /\ (\A j \in 1..k : i < j => secs[j].type # "ipfix") => NoHost(r.cfg)

LEMMA PrefixStep ==
    ASSUME NEW secs \in Seq(Section), NEW k \in Nat, k + 1 \in 1..Len(secs),
           NEW acc, Prefix(acc, secs, k)
    PROVE  Prefix(fill_section(acc, secs[k + 1]), secs, k + 1)
<1> DEFINE s == secs[k + 1]
           r == fill_section(acc, s)
<1>1. acc \in Results /\ s \in Section
  BY DEF Prefix
<1>2. Filled(acc, s)
  BY <1>1, FillSection
<1>3. r \in Results /\ (~r.err => ~acc.err /\ InOrder(s))
      /\ (s.type # "ipfix" => r.cfg.ipfix = acc.cfg.ipfix) /\ (Nowhere(s) => NoHost(r.cfg))
  BY <1>2 DEF Filled
<1> HIDE DEF r
<1>4. ~r.err => \A i \in 1..k + 1 : InOrder(secs[i])
  BY <1>3 DEF Prefix
<1>5. ASSUME NEW i \in 1..k + 1, Nowhere(secs[i]),
             \A j \in 1..k + 1 : i < j => secs[j].type # "ipfix"
      PROVE  NoHost(r.cfg)
  <2>1. CASE i = k + 1
    BY <1>3, <1>5, <2>1
  <2>2. CASE i # k + 1
    <3>1. i \in 1..k /\ s.type # "ipfix"
      BY <1>5, <2>2
    <3>2. NoHost(acc.cfg)
      <4>1. \A j \in 1..k : i < j => secs[j].type # "ipfix"
        BY <1>5
      <4>2. QED
        BY <1>5, <3>1, <4>1 DEF Prefix
    <3>3. QED
      BY <1>3, <3>1, <3>2 DEF NoHost
  <2>3. QED
    BY <2>1, <2>2
<1>6. QED
  BY <1>3, <1>4, <1>5 DEF Prefix, r

LEMMA FillPrefix ==
    ASSUME NEW secs \in Seq(Section), NEW g, FillRecursion(g, secs, Len(secs))
    PROVE  \A k \in 0..Len(secs) : Prefix(g[1..k], secs, k)
<1> DEFINE F == {k \in 0..Len(secs) : ~Prefix(g[1..k], secs, k)}
<1>1. ASSUME F # {} PROVE FALSE
  <2>1. PICK k \in F : \A j \in F : k <= j
    <3>1. F \in SUBSET Nat
      OBVIOUS
    <3> HIDE DEF F
    <3>2. QED
      BY <1>1, <3>1, LeastNatural
  <2>2. CASE k = 0
    <3>1. 1..0 = {} /\ {} \in SUBSET (1..Len(secs))
      OBVIOUS
    <3>2. g[1..0] = Start
      BY <3>1 DEF FillRecursion
    <3>3. Prefix(Start, secs, 0)
      BY <3>1, StartType DEF Prefix
    <3>4. QED
      BY <2>1, <2>2, <3>2, <3>3
  <2>3. CASE k # 0
    <3>1. k - 1 \in 0..Len(secs) /\ k - 1 \notin F /\ (k - 1) + 1 = k /\ k \in 1..Len(secs)
      BY <2>1, <2>3
    <3>2. PICK m \in Nat : m = k - 1
      BY <3>1
    <3>3. Prefix(g[1..m], secs, m)
      BY <3>1, <3>2
    <3>4. g[1..k] = fill_section(g[1..m], secs[k])
      <4>1. k = m + 1 /\ k \in Nat
        BY <3>1, <3>2
      <4>2. 1..k \in SUBSET (1..Len(secs)) /\ k \in 1..k /\ (1..k) \ {k} = 1..m
        BY <3>1, <4>1
      <4>3. Max(1..k) = k
        BY <4>1, <4>2, MaxOfRange
      <4>4. QED
        BY <4>2, <4>3 DEF FillRecursion
    <3>5. Prefix(fill_section(g[1..m], secs[m + 1]), secs, m + 1)
      BY <3>1, <3>2, <3>3, PrefixStep
    <3>6. QED
      BY <2>1, <3>1, <3>2, <3>4, <3>5
  <2>4. QED
    BY <2>2, <2>3
<1>2. QED
  BY <1>1

LEMMA UciFill ==
    ASSUME NEW secs \in Seq(Section)
    PROVE  Prefix(FoldLeft(fill_section, Start, secs), secs, Len(secs))
<1> DEFINE g == CHOOSE h : FillRecursion(h, secs, Len(secs))
<1>1. FillRecursion(g, secs, Len(secs))
  BY FillSolved
<1> HIDE DEF g
<1>2. Prefix(g[1..Len(secs)], secs, Len(secs))
  BY <1>1, FillPrefix
<1>3. FoldLeft(fill_section, Start, secs) = g[1..Len(secs)]
  BY FillDefinition DEF g
<1>4. QED
  BY <1>2, <1>3

\* What config_uci.cpp accepts.
LEMMA UciAccepts ==
    ASSUME NEW f, f.sections \in Seq(Section), f.state \in FileStates, ~uci_load_config(f).err
    PROVE  Acceptable(f, TRUE) \/ f.state = "missing"
<1> DEFINE r == FoldLeft(fill_section, Start, f.sections)
           n == Len(f.sections)
<1>1. CASE f.state # "ok"
  BY <1>1 DEF uci_load_config, fatal
<1>2. CASE f.state = "ok"
  <2>1. Prefix(r, f.sections, n) /\ DOMAIN f.sections = 1..n
    BY UciFill
  <2>2. uci_load_config(f) = [r EXCEPT !.err = @ \/ NoHost(r.cfg)]
    BY <1>2 DEF uci_load_config, Start
  <2> HIDE DEF r
  <2>3. ~r.err /\ ~NoHost(r.cfg)
    BY <2>1, <2>2 DEF Prefix, Results
  <2>4. \A i \in DOMAIN f.sections : InOrder(f.sections[i])
    BY <2>1, <2>3 DEF Prefix
  <2>5. ASSUME NEW i \in Ipfixes(f), f.sections[i].enabled = "on", ~f.sections[i].host
        PROVE  \E j \in Ipfixes(f) : i < j
    <3>1. i \in 1..n /\ Nowhere(f.sections[i])
      BY <2>1, <2>5 DEF Ipfixes, Nowhere
    <3>2. \E j \in 1..n : i < j /\ f.sections[j].type = "ipfix"
      BY <2>1, <2>3, <3>1 DEF Prefix
    <3>3. QED
      BY <2>1, <3>2 DEF Ipfixes
  <2>6. QED
    BY <1>2, <2>4, <2>5 DEF Acceptable, AcceptableUci, InOrder
<1>3. QED
  BY <1>1, <1>2

----------------------------------------------------------------------------
(* What config_mini.cpp makes of a file *)

\* The sections that give an option.
Giving(f, type, opt, none) ==
    {i \in 1..Len(f.sections) : f.sections[i].type = type /\ f.sections[i][opt] # none}

\* The value that is read of it is that of the last of them.
LEMMA LastGivenIs ==
    ASSUME NEW f, f.sections \in Seq(Section), NEW type, NEW opt,
           NEW none, none = Empty(type)[opt]
    PROVE  \/ Giving(f, type, opt, none) = {} /\ LastGiven(f, type, opt) = none
           \/ \E m \in Giving(f, type, opt, none) :
                /\ LastGiven(f, type, opt) = f.sections[m][opt]
                /\ \A i \in Giving(f, type, opt, none) : i <= m
<1> DEFINE G == Giving(f, type, opt, none)
<1>1. DOMAIN f.sections = 1..Len(f.sections) /\ Len(f.sections) \in Nat
  OBVIOUS
<1>2. LastGiven(f, type, opt) = IF G = {} THEN none ELSE f.sections[Max(G)][opt]
  BY <1>1 DEF LastGiven, Giving
<1>3. G \in SUBSET (1..Len(f.sections))
  BY DEF Giving
<1> HIDE DEF G
<1>4. G # {} => Max(G) \in G /\ \A i \in G : i <= Max(G)
  BY <1>1, <1>3, MaxProperty
<1>5. \/ G = {} /\ LastGiven(f, type, opt) = none
      \/ \E m \in G : LastGiven(f, type, opt) = f.sections[m][opt] /\ \A i \in G : i <= m
  BY <1>2, <1>4
<1>6. QED
  BY <1>5 DEF G

\* It is none, or the value of some section.
LEMMA LastGivenFrom ==
    ASSUME NEW f, f.sections \in Seq(Section), NEW type, NEW opt,
           NEW none, none = Empty(type)[opt]
    PROVE  \/ LastGiven(f, type, opt) = none
           \/ \E i \in 1..Len(f.sections) :
                f.sections[i].type = type /\ LastGiven(f, type, opt) = f.sections[i][opt]
<1>1. \A j \in Giving(f, type, opt, none) : j \in 1..Len(f.sections) /\ f.sections[j].type = type
  BY DEF Giving
<1>2. QED
  BY <1>1, LastGivenIs

\* What a section gives is read, unless a later one gives the option again.
LEMMA LastGivenOver ==
    ASSUME NEW f, f.sections \in Seq(Section), NEW opt,
           NEW k \in 1..Len(f.sections),
           NEW type, type = f.sections[k].type,
           NEW none, none = Empty(type)[opt]
    PROVE  \/ f.sections[k][opt] = none
           \/ LastGiven(f, type, opt) = f.sections[k][opt]
           \/ \E j \in 1..Len(f.sections) :
                k < j /\ f.sections[j].type = type /\ f.sections[j][opt] # none
<1>1. CASE f.sections[k][opt] # none
  <2>1. \A j \in Giving(f, type, opt, none) :
          /\ j \in 1..Len(f.sections) /\ f.sections[j].type = type
          /\ f.sections[j][opt] # none
    BY DEF Giving
  <2>2. k \in Giving(f, type, opt, none)
    BY <1>1 DEF Giving
  <2>3. PICK m \in Giving(f, type, opt, none) :
          LastGiven(f, type, opt) = f.sections[m][opt] /\ k <= m
    BY <2>2, LastGivenIs
  <2>4. m \in Nat /\ k \in Nat
    BY <2>1
  <2>5. m = k \/ k < m
    BY <2>3, <2>4
  <2>6. QED
    BY <2>1, <2>3, <2>5
<1>2. QED
  BY <1>1

\* A section as config_mini.cpp reads it, option by option.
LEMMA MergedOptions ==
    ASSUME NEW f, NEW type
    PROVE  /\ \A opt \in {"timeout", "max_flows", "interval", "port", "enabled", "host"} :
                SectionOf(f, type)[opt] = LastGiven(f, type, opt)
           /\ \A opt \in DOMAIN Limits : Empty(type)[opt] = Absent
           /\ Empty(type)["enabled"] = "absent" /\ Empty(type)["host"] = FALSE
<1>1. {"timeout", "max_flows", "interval", "port", "enabled", "host"} \subseteq DOMAIN Empty(type)
  BY DEF Empty
<1>2. \A opt \in {"timeout", "max_flows", "interval", "port", "enabled", "host"} :
        SectionOf(f, type)[opt] = LastGiven(f, type, opt)
  BY <1>1 DEF SectionOf
<1>3. QED
  BY <1>2 DEF Empty, Limits

LEMMA MergedNumber ==
    ASSUME NEW f, f.sections \in Seq(Section), NEW type, NEW opt \in DOMAIN Limits
    PROVE  LastGiven(f, type, opt) \in Number
<1>1. \A i \in 1..Len(f.sections) : f.sections[i][opt] \in Number
  <2>1. \A i \in 1..Len(f.sections) : f.sections[i] \in Section
    OBVIOUS
  <2>2. QED
    BY <2>1, SectionType DEF Limits
<1>2. Absent \in Number
  BY DEF Number
<1>3. Empty(type)[opt] = Absent
  BY MergedOptions
<1>4. \/ LastGiven(f, type, opt) = Absent
      \/ \E i \in 1..Len(f.sections) : LastGiven(f, type, opt) = f.sections[i][opt]
  BY <1>3, LastGivenFrom
<1>5. QED
  BY <1>1, <1>2, <1>4

\* If what is read of a number is in order, so is every place it is given at,
\* except those that a later section overwrites.
LEMMA NumberAt ==
    ASSUME NEW f, f.sections \in Seq(Section), NEW k \in 1..Len(f.sections),
           NEW opt \in DOMAIN Limits,
           LET v == LastGiven(f, f.sections[k].type, opt) IN v # Invalid /\ v <= Limits[opt]
    PROVE  \/ GivenAgain(f, k, opt)
           \/ f.sections[k][opt] # Invalid /\ f.sections[k][opt] <= Limits[opt]
<1>1. \/ f.sections[k][opt] = Absent
      \/ LastGiven(f, f.sections[k].type, opt) = f.sections[k][opt]
      \/ \E j \in 1..Len(f.sections) :
           k < j /\ f.sections[j].type = f.sections[k].type /\ f.sections[j][opt] # Absent
  <2>1. Empty(f.sections[k].type)[opt] = Absent
    BY MergedOptions
  <2>2. QED
    BY <2>1, LastGivenOver
<1>2. Absent # Invalid /\ Absent <= Limits[opt]
  BY DEF Absent, Invalid, Limits
<1>3. DOMAIN f.sections = 1..Len(f.sections)
  OBVIOUS
<1>4. QED
  BY <1>1, <1>2, <1>3 DEF GivenAgain

\* What config_mini.cpp accepts.
LEMMA MiniAccepts ==
    ASSUME NEW f, f.sections \in Seq(Section), f.state \in FileStates, ~mini_load_config(f).err
    PROVE  Acceptable(f, FALSE) \/ f.state \in {"missing", "unreadable"}
<1>1. CASE f.state # "ok"
  BY <1>1 DEF mini_load_config, FileStates
<1>2. CASE f.state = "ok"
  <2> DEFINE s == SectionOf(f, "main")
             i == SectionOf(f, "ipfix")
             y == SectionOf(f, "syslog")
             n1 == parse_uint(s.timeout, 300, 86400)
             n2 == parse_uint(s.max_flows, 0, 1073741824)
             n3 == parse_uint(s.interval, 20, 86400)
  <2>1. ~mini_parse(f).err
    BY <1>2 DEF mini_load_config
  <2>2. bool_option(i.enabled, FALSE) = TRUE => i.host
    <3>1. ~NoHost(mini_config(s, i, y))
      BY <2>1 DEF mini_parse
    <3> HIDE DEF s, i, y
    <3>2. /\ mini_config(s, i, y).ipfix.enabled = bool_option(i.enabled, FALSE)
          /\ mini_config(s, i, y).ipfix.host = i.host
      BY DEF mini_config
    <3>3. QED
      BY <3>1, <3>2 DEF NoHost
  <2>3. ~AnyError(AnyError(FALSE, <<n1, n2, n3>>), <<IpfixPort(i), SyslogPort(y)>>)
    <3>1. ~AnyError(AnyError(FALSE, MainNumbers(s)), <<IpfixPort(i), SyslogPort(y)>>)
      BY <2>1 DEF mini_parse
    <3> HIDE DEF s, i, y
    <3>2. MainNumbers(s) = <<n1, n2, n3>>
      BY DEF MainNumbers
    <3> HIDE DEF n1, n2, n3
    <3>3. QED
      BY <3>1, <3>2
  <2>4. n1.ok /\ n2.ok /\ n3.ok /\ IpfixPort(i).ok /\ SyslogPort(y).ok
    <3> HIDE DEF n1, n2, n3, i, y
    <3> QED
      BY <2>3 DEF AnyError
  <2>5. /\ s.timeout = LastGiven(f, "main", "timeout")
        /\ s.max_flows = LastGiven(f, "main", "max_flows")
        /\ s.interval = LastGiven(f, "main", "interval")
        /\ i.port = LastGiven(f, "ipfix", "port") /\ y.port = LastGiven(f, "syslog", "port")
        /\ i.enabled = LastGiven(f, "ipfix", "enabled") /\ i.host = LastGiven(f, "ipfix", "host")
    BY MergedOptions
  <2>6. /\ s.timeout \in Number /\ s.max_flows \in Number /\ s.interval \in Number
        /\ i.port \in Number /\ y.port \in Number
    BY <2>5, MergedNumber DEF Limits
  <2> HIDE DEF s, i, y
  <2>7. /\ s.timeout # Invalid /\ s.timeout <= Limits.timeout
        /\ s.max_flows # Invalid /\ s.max_flows <= Limits.max_flows
        /\ s.interval # Invalid /\ s.interval <= Limits.interval
        /\ i.port # Invalid /\ i.port <= Limits.port
        /\ y.port # Invalid /\ y.port <= Limits.port
    <3>1. n1.ok /\ n2.ok /\ n3.ok
      BY <2>4
    <3>2. s.timeout # Invalid /\ s.timeout <= 86400
      BY <2>6, <3>1, ParseUint
    <3>3. s.max_flows # Invalid /\ s.max_flows <= 1073741824
      BY <2>6, <3>1, ParseUint
    <3>4. s.interval # Invalid /\ s.interval <= 86400
      BY <2>6, <3>1, ParseUint
    <3>5. i.port # Invalid /\ i.port <= 65535
      BY <2>4, <2>6, ParseUint DEF IpfixPort
    <3>6. y.port # Invalid /\ y.port <= 65535
      BY <2>4, <2>6, ParseUint DEF SyslogPort
    <3>7. QED
      BY <3>2, <3>3, <3>4, <3>5, <3>6 DEF Limits
  <2>8. DOMAIN f.sections = 1..Len(f.sections)
    OBVIOUS
  <2>9. ASSUME NEW k \in 1..Len(f.sections), NEW opt \in DOMAIN Limits
        PROVE  \/ GivenAgain(f, k, opt)
               \/ f.sections[k][opt] # Invalid /\ f.sections[k][opt] <= Limits[opt]
    <3>1. f.sections[k] \in Section
      OBVIOUS
    <3>2. opt \in {"timeout", "max_flows", "interval", "port"}
      BY DEF Limits
    <3>3. CASE f.sections[k][opt] = Absent
      BY <3>3 DEF Absent, Invalid, Limits
    <3>4. CASE f.sections[k].type = "main" /\ opt # "port"
      BY <2>5, <2>7, <3>2, <3>4, NumberAt
    <3>5. CASE f.sections[k].type \in {"ipfix", "syslog"} /\ opt = "port"
      BY <2>5, <2>7, <3>5, NumberAt
    <3>6. QED
      BY <3>1, <3>2, <3>3, <3>4, <3>5, SectionType
  <2>10. ASSUME NEW k \in Ipfixes(f), f.sections[k].enabled = "on"
        PROVE  \/ \E j \in Ipfixes(f) : k < j /\ f.sections[j].enabled # "absent"
               \/ \E j \in Ipfixes(f) : f.sections[j].host
    <3>1. k \in 1..Len(f.sections) /\ f.sections[k].type = "ipfix"
      BY DEF Ipfixes
    <3>2. \/ i.enabled = "on"
          \/ \E j \in 1..Len(f.sections) :
               k < j /\ f.sections[j].type = "ipfix" /\ f.sections[j].enabled # "absent"
      <4>1. Empty(f.sections[k].type)["enabled"] = "absent"
        BY MergedOptions
      <4>2. \/ f.sections[k]["enabled"] = "absent"
            \/ LastGiven(f, f.sections[k].type, "enabled") = f.sections[k]["enabled"]
            \/ \E j \in 1..Len(f.sections) :
                 k < j /\ f.sections[j].type = f.sections[k].type /\ f.sections[j]["enabled"] # "absent"
        BY <3>1, <4>1, LastGivenOver
      <4>3. QED
        BY <2>5, <2>10, <3>1, <4>2
    <3>3. CASE i.enabled = "on"
      <4>1. i.host
        <5>1. bool_option(i.enabled, FALSE) = TRUE
          BY <3>3, BoolOption
        <5>2. QED
          BY <2>2, <5>1, Zenon
      <4>2. \E j \in 1..Len(f.sections) : f.sections[j].type = "ipfix" /\ i.host = f.sections[j].host
        <5>1. Empty("ipfix")["host"] = FALSE
          BY MergedOptions
        <5>2. \/ LastGiven(f, "ipfix", "host") = FALSE
              \/ \E j \in 1..Len(f.sections) :
                   /\ f.sections[j].type = "ipfix"
                   /\ LastGiven(f, "ipfix", "host") = f.sections[j]["host"]
          BY <5>1, LastGivenFrom
        <5>3. QED
          BY <2>5, <4>1, <5>2
      <4>3. QED
        BY <2>8, <4>1, <4>2 DEF Ipfixes
    <3>4. QED
      BY <2>8, <3>2, <3>3 DEF Ipfixes
  <2>11. QED
    BY <1>2, <2>8, <2>9, <2>10 DEF Acceptable, AcceptableIni
<1>3. QED
  BY <1>1, <1>2

----------------------------------------------------------------------------

\* load_config either way, and the file stays what it was.
FileFits ==
    /\ kernel \in Kernels /\ file \in Files
    /\ RunsOnlyAcceptable

LEMMA InitFileFits ==
    ASSUME Init
    PROVE  FileFits
BY DEF Init, FileFits, RunsOnlyAcceptable

LEMMA NextKeepsFileFits ==
    ASSUME FileFits, [Next]_vars
    PROVE  FileFits'
<1>1. UNCHANGED <<kernel, file>>
  BY DEF Next, StartStep, StartFailure, Life, Meter, Classify, Respawn, LoadConfig, ConfigFails,
         InitSyslog, ConnectIpfix, IpfixFails, OpenLoad, LoadDrops, NoTracer, TracerFails,
         OpenNetlink, StartFails, ParsePacket, CreateFlow, PacketDone, LifeTimer, ReadStat,
         SetMetrics, MeterTimer, OpenTmp, OpenTmpFails, WriteTmp, WriteFails, RenameTmp, Crash,
         vars, system
<1>2. CASE LoadConfig
  <2>1. ~load_config(file).err
    BY <1>2 DEF LoadConfig
  <2>2. file.sections \in Seq(Section) /\ file.state \in FileStates
    BY AgentAssumption DEF FileFits
  <2>3. CASE kernel.uci
    <3>1. ~uci_load_config(file).err
      BY <2>1, <2>3 DEF load_config
    <3>2. Acceptable(file, TRUE) \/ file.state = "missing"
      BY <2>2, <3>1, UciAccepts
    <3>3. QED
      BY <1>1, <2>3, <3>2 DEF FileFits, RunsOnlyAcceptable, Acceptable
  <2>4. CASE ~kernel.uci
    <3>1. ~mini_load_config(file).err
      BY <2>1, <2>4 DEF load_config
    <3>2. Acceptable(file, FALSE) \/ file.state \in {"missing", "unreadable"}
      BY <2>2, <3>1, MiniAccepts
    <3>3. QED
      BY <1>1, <2>4, <3>2 DEF FileFits, RunsOnlyAcceptable, Acceptable
  <2>5. QED
    BY <2>3, <2>4
<1>3. CASE ~LoadConfig
  <2>1. pc' \in {"exit", "config"} \/ pc \notin {"exit", "config"}
    <3>1. CASE StartStep \/ StartFailure \/ Crash
      BY <1>3, <3>1 DEF StartStep, StartFailure, Respawn, ConfigFails, InitSyslog, ConnectIpfix,
           IpfixFails, OpenLoad, LoadDrops, NoTracer, TracerFails, OpenNetlink, StartFails, Crash,
           Down
    <3>2. CASE LifeTimer \/ SetMetrics \/ Meter
      BY <3>2 DEF Meter, LifeTimer, SetMetrics, MeterTimer, OpenTmp, OpenTmpFails, WriteTmp,
           WriteFails, RenameTmp
    <3>3. CASE \E i \in DOMAIN Slots : ReadStat(i)
      <4>1. PICK i \in {1, 2} : pc = <<"stats1", "stats2">>[i]
        BY <3>3, Slot1 DEF ReadStat
      <4>2. pc \in {"stats1", "stats2"}
        BY <4>1
      <4>3. QED
        BY <4>2
    <3>4. CASE ParsePacket \/ Classify \/ UNCHANGED vars
      BY <3>4 DEF ParsePacket, Classify, CreateFlow, PacketDone, vars
    <3>5. QED
      BY <3>1, <3>2, <3>3, <3>4 DEF Next, Life
  <2>2. QED
    BY <1>1, <2>1 DEF FileFits, RunsOnlyAcceptable
<1>4. QED
  BY <1>2, <1>3

----------------------------------------------------------------------------

LEMMA Invariance == Spec => []IInv
BY InitIInv, NextKeepsIInv, PTL DEF Spec

\* Every variable of the process keeps its type.
THEOREM TypeCorrect == Spec => []TypeOK
<1>1. IInv => TypeOK
  BY DEF IInv
<1>2. QED
  BY <1>1, Invariance, PTL

\* Whatever the file holds, however many sections of a type it has: on OpenWrt
\* main() gets past load_config only if every section of it is valid, or if it is
\* missing; on plain Linux only if the last value of every option is valid, or if
\* it is missing or cannot be read (config_uci.cpp:131-132, config_mini.cpp:53-54).
THEOREM AlwaysAcceptable == Spec => []RunsOnlyAcceptable
<1>1. FileFits => RunsOnlyAcceptable
  BY DEF FileFits
<1>2. QED
  BY <1>1, InitFileFits, NextKeepsFileFits, PTL DEF Spec

\* Wherever load_drops fails, close_drops leaves no handle of the tracer, and an
\* active tracer has all of its handles.
THEOREM HandlesAlwaysLive == Spec => []TracerHandlesLive
<1>1. IInv => TracerHandlesLive
  BY DEF IInv, HandlesFit
<1>2. QED
  BY <1>1, Invariance, PTL

\* After any failures of Metrics::write and any crashes, the textfile is whole.
THEOREM TextfileAlwaysWhole == Spec => []TextfileWhole
<1>1. IInv => TextfileWhole
  BY DEF IInv, CountsFit
<1>2. QED
  BY <1>1, Invariance, PTL

\* However many packets arrive between the lookups of bpf_stats, no textfile has
\* more flows created than packets accounted.
THEOREM CreatedAlwaysAccounted == Spec => []CreatedWithinAccounted
<1>1. IInv => CreatedWithinAccounted
  BY DEF IInv, CountsFit
<1>2. QED
  BY <1>1, Invariance, PTL
=============================================================================
