-------------------------- MODULE ReconcileProofs --------------------------
(* What the reconciler keeps in step, for every set of devices and names, any *)
(* queue size and any number of changes, failing calls and crashes.           *)
EXTENDS Reconcile, SequenceTheorems, TLAPS

----------------------------------------------------------------------------
(* The inductive invariant *)

Messages ==
    [type : {"link"}, ifindex : Devices, present : BOOLEAN, up : BOOLEAN, ifname : Names]
    \cup {Done}

Tasks ==
    {NoTask}
    \cup [op : {"attach_in", "attach_eg"}, i : Devices, name : Names]
    \cup [op : {"detach", "purge"}, i : Devices]

\* How far on_link is with a device.
Stage(j) == IF Working(j) THEN task.op ELSE "none"

\* The links held at each stage of an attach or a detach (bpf.cpp:203-310).
LinksFit(j) ==
    /\ Stage(j) = "none" => atts[j] \in {{}, Hooks}
    /\ Stage(j) \in {"attach_in", "purge"} => atts[j] = {}
    /\ Stage(j) = "attach_eg" => atts[j] = {"in"}
    /\ Stage(j) = "detach" => atts[j] = Hooks

\* Counts of a device that is not attached are those of an attach or a detach
\* in progress, or were left by a failed call; an attach that has no hook yet
\* is not in progress in this sense.
CountsFit(j) ==
    j \in flowDevs \cup statDevs =>
      Attached(j) \/ Stage(j) \in {"attach_eg", "detach", "purge"} \/ j \in leftover

\* Name and mark, except while a detach is taking them away.
BooksFit(j) ==
    Stage(j) \in {"none", "attach_in", "attach_eg"} =>
      /\ j \in marked => Attached(j)
      /\ Attached(j) <=> names[j] # None

DeviceInv(j) == hooks[j] \subseteq atts[j] /\ LinksFit(j) /\ CountsFit(j) /\ BooksFit(j)

\* The types TypeOK leaves open.
Shape ==
    /\ queue \in Seq(Messages)
    /\ task \in Tasks

IInv == TypeOK /\ Shape /\ \A j \in Devices : DeviceInv(j)

----------------------------------------------------------------------------
(* The socket *)

LEMMA QueueAppend ==
    ASSUME Shape, TypeOK, Len(queue) < QueueCap, NEW m \in Messages
    PROVE  Append(queue, m) \in Seq(Messages) /\ Len(Append(queue, m)) <= QueueCap
<1>1. Len(Append(queue, m)) = Len(queue) + 1 /\ Append(queue, m) \in Seq(Messages)
  BY AppendProperties DEF Shape
<1>2. Len(queue) \in Nat
  BY LenProperties DEF Shape
<1>3. QED
  BY <1>1, <1>2, ReconcileAssumption

LEMMA QueueTail ==
    ASSUME Shape, TypeOK, queue # <<>>
    PROVE  /\ Head(queue) \in Messages
           /\ Tail(queue) \in Seq(Messages)
           /\ Len(Tail(queue)) <= QueueCap
<1>1. /\ Head(queue) \in Messages
      /\ Tail(queue) \in Seq(Messages)
      /\ Len(Tail(queue)) = Len(queue) - 1
  BY HeadTailProperties DEF Shape
<1>2. Len(queue) \in Nat /\ Len(queue) <= QueueCap
  BY LenProperties DEF Shape, TypeOK
<1>3. QED
  BY <1>1, <1>2, ReconcileAssumption

LEMMA LinkEventType ==
    ASSUME NEW i \in Devices, NEW d \in Present, NEW present \in BOOLEAN
    PROVE  LinkEvent(i, d, present) \in Messages
BY DEF LinkEvent, Messages, Present

LEMMA NotifyType ==
    ASSUME Shape, TypeOK, NEW m \in Messages, Notify(m)
    PROVE  /\ queue' \in Seq(Messages) /\ Len(queue') <= QueueCap
           /\ overrun' \in BOOLEAN /\ congested' \in BOOLEAN /\ lost' \in BOOLEAN
<1>1. CASE ~congested /\ Len(queue) < QueueCap
  BY <1>1, QueueAppend DEF Notify, TypeOK
<1>2. CASE ~(~congested /\ Len(queue) < QueueCap)
  <2>1. queue' = queue /\ congested' = TRUE /\ lost' = TRUE /\ overrun' = (overrun \/ ~congested)
    BY <1>2 DEF Notify
  <2>2. QED
    BY <2>1 DEF TypeOK, Shape
<1>3. QED
  BY <1>1, <1>2

----------------------------------------------------------------------------
(* Steps that touch neither a link nor what is kept beside it *)

\* Everything DeviceInv speaks of.
deviceVars == <<hooks, flowDevs, statDevs, task, atts, marked, names, leftover>>

LEMMA DeviceKept ==
    ASSUME UNCHANGED deviceVars, \A j \in Devices : DeviceInv(j)
    PROVE  \A j \in Devices : DeviceInv(j)'
BY DEF deviceVars, DeviceInv, LinksFit, CountsFit, BooksFit, Stage, Working, Attached

LEMMA QuietStep ==
    ASSUME IInv, UNCHANGED deviceVars, 
           dev' \in [Devices -> Present \cup {Absent}],
           queue' \in Seq(Messages), Len(queue') <= QueueCap,
           overrun' \in BOOLEAN, congested' \in BOOLEAN, lost' \in BOOLEAN,
           dumping' \in (SUBSET Devices) \cup {None},
           pc' \in {"start", "dump", "loop", "resync", "exit"}
    PROVE  IInv'
<1>1. \A j \in Devices : DeviceInv(j)'
  BY DeviceKept DEF IInv
<1>2. TypeOK' /\ Shape'
  BY DEF IInv, TypeOK, Shape, deviceVars
<1>3. QED
  BY <1>1, <1>2 DEF IInv

LEMMA ChangeType ==
    ASSUME IInv, NEW i \in Devices, NEW d \in Present, NEW present \in BOOLEAN,
           Change(i, d, present)
    PROVE  /\ dev' \in [Devices -> Present \cup {Absent}]
           /\ queue' \in Seq(Messages) /\ Len(queue') <= QueueCap
           /\ overrun' \in BOOLEAN /\ congested' \in BOOLEAN /\ lost' \in BOOLEAN
<1>1. dev' \in [Devices -> Present \cup {Absent}]
  BY DEF Change, IInv, TypeOK
<1>2. CASE Listening
  <2>1. Notify(LinkEvent(i, d, present))
    BY <1>2 DEF Change
  <2>2. QED
    BY <1>1, <2>1, NotifyType, LinkEventType DEF IInv
<1>3. CASE ~Listening
  BY <1>1, <1>3 DEF Change, IInv, TypeOK, Shape
<1>4. QED
  BY <1>2, <1>3

LEMMA NewLinkInv ==
    ASSUME IInv, NEW i \in Devices, NewLink(i)
    PROVE  IInv'
<1>1. PICK d \in Present : Change(i, d, TRUE)
  BY DEF NewLink
<1>2. UNCHANGED <<deviceVars, dumping, pc>>
  BY <1>1 DEF Change, NewLink, deviceVars
<1>3. QED
  BY <1>1, <1>2, ChangeType, QuietStep DEF IInv, TypeOK

\* The hooks of a device that goes away go with it; the handles stay.
LEMMA DelLinkInv ==
    ASSUME IInv, NEW i \in Devices, DelLink(i)
    PROVE  IInv'
<1>1. dev[i] \in Present
  BY DEF DelLink, IInv, TypeOK, Absent
<1>2. /\ dev' \in [Devices -> Present \cup {Absent}]
      /\ queue' \in Seq(Messages) /\ Len(queue') <= QueueCap
      /\ overrun' \in BOOLEAN /\ congested' \in BOOLEAN /\ lost' \in BOOLEAN
  BY <1>1, ChangeType DEF DelLink
<1>3. /\ UNCHANGED <<flowDevs, statDevs, task, atts, marked, names, leftover, dumping, pc>>
      /\ hooks' = [hooks EXCEPT ![i] = {}]
  BY DEF DelLink, Change
<1>4. \A j \in Devices : DeviceInv(j)'
  BY <1>3 DEF IInv, TypeOK, DeviceInv, LinksFit, CountsFit, BooksFit, Stage, Working, Attached
<1>5. TypeOK' /\ Shape'
  BY <1>2, <1>3 DEF IInv, TypeOK, Shape
<1>6. QED
  BY <1>4, <1>5 DEF IInv

\* A packet can only be counted through a hook, and a hook has a handle.
LEMMA TrafficInv ==
    ASSUME IInv, NEW i \in Devices, Traffic(i)
    PROVE  IInv'
<1>1. /\ flowDevs' = flowDevs \cup {i} /\ statDevs' = statDevs \cup {i}
      /\ UNCHANGED <<dev, hooks, socket, agent>>
  BY DEF Traffic
<1>2. Attached(i) \/ Stage(i) \in {"attach_eg", "detach"}
  <2>1. atts[i] # {}
    BY DEF Traffic, IInv, DeviceInv
  <2>2. Stage(i) \in {"none", "attach_in", "attach_eg", "detach", "purge"}
    BY DEF IInv, Shape, Tasks, Stage, NoTask, Working
  <2>3. QED
    BY <2>1, <2>2 DEF IInv, DeviceInv, LinksFit, Attached
<1>3. \A j \in Devices : DeviceInv(j)'
  BY <1>1, <1>2
  DEF IInv, DeviceInv, LinksFit, CountsFit, BooksFit, Stage, Working, Attached, agent
<1>4. TypeOK' /\ Shape'
  BY <1>1 DEF IInv, TypeOK, Shape, socket, agent
<1>5. QED
  BY <1>3, <1>4 DEF IInv

LEMMA DumpLinkInv ==
    ASSUME IInv, NEW i \in Devices, DumpLink(i)
    PROVE  IInv'
<1>1. queue' \in Seq(Messages) /\ Len(queue') <= QueueCap
  <2>1. CASE dev[i].present
    <3>1. dev[i] \in Present
      BY <2>1 DEF IInv, TypeOK, Absent
    <3>2. LinkEvent(i, dev[i], TRUE) \in Messages
      BY <3>1, LinkEventType
    <3>3. QED
      BY <2>1, <3>2, QueueAppend DEF DumpLink, IInv
  <2>2. CASE ~dev[i].present
    BY <2>2 DEF DumpLink, IInv, TypeOK, Shape
  <2>3. QED
    BY <2>1, <2>2
<1>2. dumping' \in (SUBSET Devices) \cup {None}
  BY DEF DumpLink, IInv, TypeOK
<1>3. UNCHANGED <<deviceVars, dev, overrun, congested, lost, pc>>
  BY DEF DumpLink, kernelDevs, agent, deviceVars
<1>4. QED
  BY <1>1, <1>2, <1>3, QuietStep DEF IInv, TypeOK

LEMMA DumpEndInv ==
    ASSUME IInv, DumpEnd
    PROVE  IInv'
<1>1. queue' \in Seq(Messages) /\ Len(queue') <= QueueCap
  BY QueueAppend DEF DumpEnd, IInv, Messages
<1>2. UNCHANGED <<deviceVars, dev, overrun, congested, lost, pc>> /\ dumping' = None
  BY DEF DumpEnd, kernelDevs, agent, deviceVars
<1>3. QED
  BY <1>1, <1>2, QuietStep DEF IInv, TypeOK

----------------------------------------------------------------------------
(* on_link and the calls it makes *)

LEMMA StageValues ==
    ASSUME IInv, NEW j \in Devices
    PROVE  Stage(j) \in {"none", "attach_in", "attach_eg", "detach", "purge"}
BY DEF IInv, Shape, Tasks, Stage, NoTask, Working

\* What each stage of a task makes of the links, the counts and the books of
\* its device.
LEMMA TaskFacts ==
    ASSUME IInv, NEW i \in Devices, task # NoTask, task.i = i
    PROVE  /\ hooks[i] \subseteq atts[i]
           /\ task.op \in {"attach_in", "purge"} => atts[i] = {}
           /\ task.op = "attach_eg" => atts[i] = {"in"}
           /\ task.op = "detach" => atts[i] = Hooks
           /\ task.op = "attach_in" => (i \in flowDevs \cup statDevs => i \in leftover)
           /\ task.op \in {"attach_in", "attach_eg"} => i \notin marked /\ names[i] = None
<1>1. Stage(i) = task.op /\ DeviceInv(i)
  BY DEF Stage, Working, IInv
<1>2. QED
  BY <1>1 DEF DeviceInv, LinksFit, CountsFit, BooksFit, Attached, Hooks

\* A step of a task leaves the other devices alone.
LEMMA OthersKept ==
    ASSUME IInv, NEW i \in Devices, NEW j \in Devices, j # i,
           task # NoTask, task.i = i, task' = NoTask \/ task'.i = i,
           hooks'[j] = hooks[j], atts'[j] = atts[j], names'[j] = names[j],
           j \in flowDevs' <=> j \in flowDevs, j \in statDevs' <=> j \in statDevs,
           j \in marked' <=> j \in marked, j \in leftover' <=> j \in leftover
    PROVE  DeviceInv(j)'
<1>1. Stage(j) = "none" /\ Stage(j)' = "none" /\ DeviceInv(j)
  BY DEF Stage, Working, IInv
<1>2. QED
  BY <1>1 DEF DeviceInv, LinksFit, CountsFit, BooksFit, Attached

LEMMA AttachInInv ==
    ASSUME IInv, NEW i \in Devices, AttachIn(i)
    PROVE  IInv'
<1>1. task # NoTask /\ task.i = i /\ task \in [op : {"attach_in"}, i : {i}, name : Names]
  BY DEF AttachIn, IInv, Shape, Tasks, NoTask
<1>2. /\ statDevs' = statDevs \ {i}
      /\ UNCHANGED <<dev, flowDevs, socket, pc, marked, names, leftover>>
  BY DEF AttachIn
<1>3. CASE Hook(i, "in") /\ task' = [task EXCEPT !.op = "attach_eg"] /\ UNCHANGED lost
  <2>1. task' \in Tasks /\ task' # NoTask /\ task'.i = i /\ task'.op = "attach_eg"
    BY <1>1, <1>3 DEF Tasks, NoTask
  <2>2. /\ hooks' = [hooks EXCEPT ![i] = @ \cup {"in"}]
        /\ atts' = [atts EXCEPT ![i] = @ \cup {"in"}]
    BY <1>3 DEF Hook
  <2>3. DeviceInv(i)'
    <3>1. atts'[i] = {"in"} /\ hooks'[i] \subseteq {"in"} /\ Stage(i)' = "attach_eg"
      BY <1>1, <2>1, <2>2, TaskFacts DEF IInv, TypeOK, Stage, Working, AttachIn
    <3>2. i \notin marked' /\ names'[i] = None
      BY <1>1, <1>2, TaskFacts DEF AttachIn
    <3>3. QED
      BY <3>1, <3>2 DEF DeviceInv, LinksFit, CountsFit, BooksFit, Attached, Hooks
  <2>4. \A j \in Devices : j # i => DeviceInv(j)'
    BY <1>1, <1>2, <2>1, <2>2, OthersKept DEF IInv, TypeOK
  <2>5. TypeOK'
    <3>1. \A j \in Devices : atts'[j] \notin {{}, Hooks} => task'.op = "attach_eg" /\ task'.i = j
      BY <1>1, <2>1, <2>2 DEF IInv, TypeOK, AttachIn
    <3>2. hooks' \in [Devices -> SUBSET Hooks] /\ atts' \in [Devices -> SUBSET Hooks]
      BY <2>2 DEF IInv, TypeOK, Hooks
    <3>3. QED
      BY <1>2, <1>3, <3>1, <3>2 DEF IInv, TypeOK, socket
  <2>6. QED
    BY <1>2, <2>1, <2>3, <2>4, <2>5 DEF IInv, Shape, socket
<1>4. CASE task' = NoTask /\ lost' = (lost \/ dev[i].present) /\ UNCHANGED <<hooks, atts>>
  <2>1. DeviceInv(i)'
    <3>1. atts'[i] = {} /\ hooks'[i] \subseteq {} /\ Stage(i)' = "none"
      BY <1>1, <1>4, TaskFacts DEF Stage, Working, AttachIn
    <3>2. i \notin marked' /\ names'[i] = None /\ (i \in flowDevs' => i \in leftover')
      BY <1>1, <1>2, TaskFacts DEF AttachIn
    <3>3. QED
      BY <1>2, <3>1, <3>2 DEF DeviceInv, LinksFit, CountsFit, BooksFit, Attached, Hooks
  <2>2. \A j \in Devices : j # i => DeviceInv(j)'
    BY <1>1, <1>2, <1>4, OthersKept
  <2>3. TypeOK' /\ Shape'
    <3>1. \A j \in Devices : atts'[j] \in {{}, Hooks}
      BY <1>4 DEF IInv, TypeOK, AttachIn
    <3>2. lost' \in BOOLEAN
      BY <1>4 DEF IInv, TypeOK
    <3>3. QED
      BY <1>2, <1>4, <3>1, <3>2 DEF IInv, TypeOK, Shape, Tasks, socket
  <2>4. QED
    BY <2>1, <2>2, <2>3 DEF IInv
<1>5. QED
  BY <1>3, <1>4 DEF AttachIn

LEMMA AttachEgInv ==
    ASSUME IInv, NEW i \in Devices, AttachEg(i)
    PROVE  IInv'
<1>1. task # NoTask /\ task.i = i /\ task.name \in Names
  BY DEF AttachEg, IInv, Shape, Tasks, NoTask
<1>2. task' = NoTask /\ UNCHANGED <<dev, flowDevs, statDevs, socket, pc>>
  BY DEF AttachEg
<1>3. CASE /\ Hook(i, "eg") /\ Mark(i)
           /\ names' = [names EXCEPT ![i] = task.name]
           /\ UNCHANGED <<leftover, lost>>
  <2>1. /\ hooks' = [hooks EXCEPT ![i] = @ \cup {"eg"}]
        /\ atts' = [atts EXCEPT ![i] = @ \cup {"eg"}]
        /\ marked' \subseteq marked \cup {i} /\ marked \subseteq marked'
    BY <1>3 DEF Hook, Mark
  <2>2. DeviceInv(i)'
    <3>1. atts'[i] = Hooks /\ hooks'[i] \subseteq Hooks /\ Stage(i)' = "none"
      BY <1>1, <1>2, <2>1, TaskFacts DEF IInv, TypeOK, Stage, Working, AttachEg, Hooks
    <3>2. names'[i] # None
      BY <1>1, <1>3, ReconcileAssumption DEF IInv, TypeOK
    <3>3. QED
      BY <3>1, <3>2 DEF DeviceInv, LinksFit, CountsFit, BooksFit, Attached
  <2>3. \A j \in Devices : j # i => DeviceInv(j)'
    BY <1>1, <1>2, <1>3, <2>1, OthersKept DEF IInv, TypeOK
  <2>4. TypeOK' /\ Shape'
    <3>1. \A j \in Devices : atts'[j] \in {{}, Hooks}
      BY <1>1, <2>1, TaskFacts DEF IInv, TypeOK, AttachEg, Hooks
    <3>2. hooks' \in [Devices -> SUBSET Hooks] /\ atts' \in [Devices -> SUBSET Hooks]
      BY <2>1 DEF IInv, TypeOK, Hooks
    <3>3. names' \in [Devices -> Names \cup {None}] /\ marked' \subseteq Devices
      BY <1>1, <1>3, <2>1 DEF IInv, TypeOK
    <3>4. QED
      BY <1>2, <1>3, <3>1, <3>2, <3>3 DEF IInv, TypeOK, Shape, Tasks, socket
  <2>5. QED
    BY <2>2, <2>3, <2>4 DEF IInv
<1>4. CASE /\ UndoIngress(i)
           /\ leftover' = leftover \cup {i}
           /\ lost' = (lost \/ dev[i].present)
           /\ UNCHANGED <<marked, names>>
  <2>1. /\ hooks' = [hooks EXCEPT ![i] = @ \ {"in"}]
        /\ atts' = [atts EXCEPT ![i] = {}]
    BY <1>4 DEF UndoIngress
  <2>2. DeviceInv(i)'
    <3>1. atts'[i] = {} /\ hooks'[i] = {} /\ Stage(i)' = "none"
      BY <1>1, <1>2, <2>1, TaskFacts DEF IInv, TypeOK, Stage, Working, AttachEg
    <3>2. i \notin marked' /\ names'[i] = None
      BY <1>1, <1>4, TaskFacts DEF AttachEg
    <3>3. QED
      BY <1>4, <3>1, <3>2 DEF DeviceInv, LinksFit, CountsFit, BooksFit, Attached, Hooks
  <2>3. \A j \in Devices : j # i => DeviceInv(j)'
    BY <1>1, <1>2, <1>4, <2>1, OthersKept DEF IInv, TypeOK
  <2>4. TypeOK' /\ Shape'
    <3>1. \A j \in Devices : atts'[j] \in {{}, Hooks}
      BY <1>1, <2>1 DEF IInv, TypeOK
    <3>2. hooks' \in [Devices -> SUBSET Hooks] /\ atts' \in [Devices -> SUBSET Hooks]
      BY <2>1 DEF IInv, TypeOK, Hooks
    <3>3. lost' \in BOOLEAN /\ leftover' \subseteq Devices
      BY <1>4 DEF IInv, TypeOK
    <3>4. QED
      BY <1>2, <1>4, <3>1, <3>2, <3>3 DEF IInv, TypeOK, Shape, Tasks, socket
  <2>5. QED
    BY <2>2, <2>3, <2>4 DEF IInv
<1>5. QED
  BY <1>3, <1>4 DEF AttachEg

LEMMA DetachLinksInv ==
    ASSUME IInv, NEW i \in Devices, DetachLinks(i)
    PROVE  IInv'
<1>1. task # NoTask /\ task.i = i /\ task \in [op : {"detach"}, i : {i}]
  BY DEF DetachLinks, IInv, Shape, Tasks, NoTask
<1>2. /\ UNCHANGED <<dev, flowDevs, statDevs, socket, pc, marked, names, leftover, lost>>
      /\ hooks' = [hooks EXCEPT ![i] = {}] /\ atts' = [atts EXCEPT ![i] = {}]
  BY DEF DetachLinks, DestroyLinks
<1>3. task' \in Tasks /\ task' # NoTask /\ task'.i = i /\ task'.op = "purge"
  BY <1>1 DEF DetachLinks, Tasks, NoTask
<1>4. DeviceInv(i)'
  <2>1. atts'[i] = {} /\ hooks'[i] = {} /\ Stage(i)' = "purge"
    BY <1>1, <1>2, <1>3 DEF IInv, TypeOK, Stage, Working
  <2>2. QED
    BY <2>1 DEF DeviceInv, LinksFit, CountsFit, BooksFit, Attached, Hooks
<1>5. \A j \in Devices : j # i => DeviceInv(j)'
  BY <1>1, <1>2, <1>3, OthersKept DEF IInv, TypeOK
<1>6. TypeOK' /\ Shape'
  <2>1. \A j \in Devices : atts'[j] \in {{}, Hooks}
    BY <1>1, <1>2 DEF IInv, TypeOK
  <2>2. hooks' \in [Devices -> SUBSET Hooks] /\ atts' \in [Devices -> SUBSET Hooks]
    BY <1>2 DEF IInv, TypeOK
  <2>3. QED
    BY <1>2, <1>3, <2>1, <2>2 DEF IInv, TypeOK, Shape, socket
<1>7. QED
  BY <1>4, <1>5, <1>6 DEF IInv

\* The end of a detach, with a purge that found all flows or with one that
\* failed and says so in leftover.
LEMMA DetachEnd ==
    ASSUME IInv, NEW i \in Devices, task.op = "purge", task.i = i, task' = NoTask,
           statDevs' = statDevs \ {i}, marked' = marked \ {i},
           names' = [names EXCEPT ![i] = None],
           \/ flowDevs' = flowDevs \ {i} /\ leftover' = leftover \ {i}
           \/ flowDevs' = flowDevs /\ leftover' = leftover \cup {i},
           UNCHANGED <<dev, hooks, socket, pc, atts, lost>>
    PROVE  IInv'
<1>1. task # NoTask
  BY DEF NoTask
<1>2. DeviceInv(i)'
  <2>1. atts'[i] = {} /\ hooks'[i] = {} /\ Stage(i)' = "none"
    BY <1>1, TaskFacts DEF Stage, Working
  <2>2. i \notin marked' /\ names'[i] = None
    BY DEF IInv, TypeOK
  <2>3. i \in flowDevs' \cup statDevs' => i \in leftover'
    OBVIOUS
  <2>4. QED
    BY <2>1, <2>2, <2>3 DEF DeviceInv, LinksFit, CountsFit, BooksFit, Attached, Hooks
<1>3. \A j \in Devices : j # i => DeviceInv(j)'
  BY <1>1, OthersKept DEF IInv, TypeOK
<1>4. TypeOK' /\ Shape'
  <2>1. \A j \in Devices : atts'[j] \in {{}, Hooks}
    BY DEF IInv, TypeOK
  <2>2. names' \in [Devices -> Names \cup {None}]
    BY DEF IInv, TypeOK
  <2>3. QED
    BY <2>1, <2>2 DEF IInv, TypeOK, Shape, Tasks, socket
<1>5. QED
  BY <1>2, <1>3, <1>4 DEF IInv

\* on_link decides: the task it starts fits the links of the device.
LEMMA ReceiveLinkInv ==
    ASSUME IInv, ReceiveLink
    PROVE  IInv'
<1>1. /\ Head(queue) \in Messages
      /\ queue' \in Seq(Messages) /\ Len(queue') <= QueueCap
  BY QueueTail DEF ReceiveLink, Receive, IInv
<1>0. PICK ev \in Messages : ev = Head(queue)
  BY <1>1
<1> DEFINE i == ev.ifindex
<1>2. i \in Devices /\ ev.ifname \in Names
  BY <1>0 DEF ReceiveLink, Messages, Done
<1>3. /\ task = NoTask /\ OnLink(ev)
      /\ congested' \in BOOLEAN
      /\ UNCHANGED <<kernelDevs, pc, atts, marked, leftover, lost, overrun, dumping>>
  BY <1>0 DEF ReceiveLink, Receive, IInv, TypeOK
<1> DEFINE wanted == Wanted(ev.present, ev.up, ev.ifname)
<1>4. names' = IF Attached(i) /\ wanted THEN [names EXCEPT ![i] = ev.ifname] ELSE names
  BY <1>3 DEF OnLink
<1>5. task' = IF Attached(i) /\ ~wanted THEN [op |-> "detach", i |-> i]
              ELSE IF ~Attached(i) /\ wanted
              THEN [op |-> "attach_in", i |-> i, name |-> ev.ifname]
              ELSE NoTask
  BY <1>3 DEF OnLink
<1> HIDE DEF wanted
<1>6. \A j \in Devices : Stage(j) = "none" /\ DeviceInv(j)
  BY <1>3 DEF Stage, Working, IInv
<1>7. task' \in Tasks
  BY <1>2, <1>5 DEF Tasks
<1>8. names' \in [Devices -> Names \cup {None}]
  BY <1>2, <1>4 DEF IInv, TypeOK
<1>9. \A j \in Devices : j # i => DeviceInv(j)'
  <2> SUFFICES ASSUME NEW j \in Devices, j # i PROVE DeviceInv(j)'
    OBVIOUS
  <2>1. Stage(j)' = "none"
    BY <1>5 DEF Stage, Working, NoTask
  <2>2. names'[j] = names[j]
    BY <1>4 DEF IInv, TypeOK
  <2>3. QED
    BY <1>3, <1>6, <2>1, <2>2
    DEF DeviceInv, LinksFit, CountsFit, BooksFit, Attached, kernelDevs
<1>10. DeviceInv(i)'
  <2>0. UNCHANGED <<hooks, flowDevs, statDevs, atts, marked, leftover>>
    BY <1>3 DEF kernelDevs
  <2>1. CASE Attached(i) /\ ~wanted
    <3>1. Stage(i)' = "detach"
      BY <1>5, <2>1 DEF Stage, Working, NoTask
    <3>2. QED
      BY <1>2, <1>6, <2>0, <2>1, <3>1 DEF DeviceInv, LinksFit, CountsFit, BooksFit, Attached
  <2>2. CASE ~Attached(i) /\ wanted
    <3>1. Stage(i)' = "attach_in" /\ names' = names
      BY <1>4, <1>5, <2>2 DEF Stage, Working, NoTask
    <3>2. QED
      BY <1>2, <1>6, <2>0, <2>2, <3>1 DEF DeviceInv, LinksFit, CountsFit, BooksFit, Attached
  <2>3. CASE Attached(i) /\ wanted
    <3>1. Stage(i)' = "none" /\ names'[i] = ev.ifname
      BY <1>2, <1>4, <1>5, <2>3 DEF Stage, Working, IInv, TypeOK
    <3>2. QED
      BY <1>2, <1>6, <2>0, <2>3, <3>1, ReconcileAssumption
      DEF DeviceInv, LinksFit, CountsFit, BooksFit, Attached
  <2>4. CASE ~Attached(i) /\ ~wanted
    <3>1. Stage(i)' = "none" /\ names' = names
      BY <1>4, <1>5, <2>4 DEF Stage, Working
    <3>2. QED
      BY <1>2, <1>6, <2>0, <2>4, <3>1 DEF DeviceInv, LinksFit, CountsFit, BooksFit, Attached
  <2>5. QED
    BY <2>1, <2>2, <2>3, <2>4
<1>11. TypeOK'
  <2>1. \A j \in Devices : atts[j] \in {{}, Hooks}
    BY <1>6 DEF DeviceInv, LinksFit
  <2>2. QED
    BY <1>1, <1>3, <1>8, <2>1 DEF IInv, TypeOK, kernelDevs
<1>12. QED
  BY <1>1, <1>7, <1>9, <1>10, <1>11 DEF IInv, Shape

----------------------------------------------------------------------------
(* The rest of the receive loops, and the process *)

LEMMA ReceiveDoneInv ==
    ASSUME IInv, ReceiveDone
    PROVE  IInv'
<1>1. queue' \in Seq(Messages) /\ Len(queue') <= QueueCap
  BY QueueTail DEF ReceiveDone, Receive, IInv
<1>2. /\ UNCHANGED <<deviceVars, dev, overrun, dumping, lost>>
      /\ pc' = "loop" /\ congested' \in BOOLEAN
  BY DEF ReceiveDone, Receive, kernelDevs, deviceVars, IInv, TypeOK
<1>3. QED
  BY <1>1, <1>2, QuietStep DEF IInv, TypeOK

LEMMA OverrunInv ==
    ASSUME IInv, StartupOverrun \/ ResyncOverrun
    PROVE  IInv'
<1>1. /\ UNCHANGED <<deviceVars, dev, queue, dumping, lost>>
      /\ pc' \in {"exit", "loop"} /\ overrun' = FALSE /\ congested' \in BOOLEAN
  BY DEF StartupOverrun, ResyncOverrun, ReceiveError, kernelDevs, deviceVars, IInv, TypeOK
<1>2. QED
  BY <1>1, QuietStep DEF IInv, TypeOK, Shape

LEMMA LoopOverrunInv ==
    ASSUME IInv, LoopOverrun
    PROVE  IInv'
<1>1. UNCHANGED <<deviceVars, dev, queue, lost>> /\ pc' = "resync" /\ overrun' = FALSE
  BY DEF LoopOverrun, kernelDevs, deviceVars
<1>2. congested' \in BOOLEAN /\ dumping' \in (SUBSET Devices) \cup {None}
  BY DEF LoopOverrun, IInv, TypeOK
<1>3. QED
  BY <1>1, <1>2, QuietStep DEF IInv, TypeOK, Shape

LEMMA StartDumpInv ==
    ASSUME IInv, StartDump
    PROVE  IInv'
<1>1. UNCHANGED <<deviceVars, dev, queue, overrun, congested, lost>>
  BY DEF StartDump, kernelDevs, deviceVars
<1>2. dumping' \in SUBSET Devices /\ pc' = "dump"
  BY DEF StartDump
<1>3. QED
  BY <1>1, <1>2, QuietStep DEF IInv, TypeOK, Shape

\* A process that holds nothing.
LEMMA InitInv == Init => IInv
<1> SUFFICES ASSUME Init PROVE IInv
  OBVIOUS
<1>1. \A j \in Devices : DeviceInv(j)
  BY DEF Init, DeviceInv, LinksFit, CountsFit, BooksFit, Stage, Working, Attached, Hooks
<1>2. queue \in Seq(Messages) /\ Len(queue) <= QueueCap
  BY ReconcileAssumption DEF Init
<1>3. TypeOK /\ Shape
  BY <1>2 DEF Init, TypeOK, Shape, Tasks
<1>4. QED
  BY <1>1, <1>3 DEF IInv

LEMMA ResetInv ==
    ASSUME IInv, Reset, pc' \in {"start", "exit"}
    PROVE  IInv'
<1>1. \A j \in Devices : DeviceInv(j)'
  BY DEF Reset, DeviceInv, LinksFit, CountsFit, BooksFit, Stage, Working, Attached, Hooks
<1>2. queue' \in Seq(Messages) /\ Len(queue') <= QueueCap
  BY ReconcileAssumption DEF Reset
<1>3. TypeOK' /\ Shape'
  BY <1>2 DEF Reset, IInv, TypeOK, Shape, Tasks
<1>4. QED
  BY <1>1, <1>3 DEF IInv

\* Every step of the kernel, the agent and the service manager.
LEMMA StepInv ==
    ASSUME IInv, [Next]_vars
    PROVE  IInv'
<1>1. ASSUME NEW i \in Devices, NewLink(i) \/ DelLink(i) \/ Traffic(i) PROVE IInv'
  BY <1>1, NewLinkInv, DelLinkInv, TrafficInv
<1>2. CASE KernelReply
  BY <1>2, DumpLinkInv, DumpEndInv DEF KernelReply
<1>3. CASE OnLinkStep
  <2>1. ASSUME NEW i \in Devices, DetachCleanup(i) \/ DetachPurgeFails(i) PROVE IInv'
    BY <2>1, DetachEnd DEF DetachCleanup, DetachPurgeFails, Cleanup
  <2>2. QED
    BY <1>3, <2>1, AttachInInv, AttachEgInv, DetachLinksInv DEF OnLinkStep
<1>4. CASE Respawn
  BY <1>4, ResetInv DEF Respawn
<1>5. CASE Crash
  BY <1>5, ResetInv DEF Crash
<1>6. CASE UNCHANGED vars
  <2>1. UNCHANGED <<deviceVars, dev, queue, overrun, congested, dumping, pc, lost>>
    BY <1>6 DEF vars, kernelDevs, socket, agent, deviceVars
  <2>2. QED
    BY <2>1, QuietStep DEF IInv, TypeOK, Shape
<1>7. QED
  BY <1>1, <1>2, <1>3, <1>4, <1>5, <1>6, StartDumpInv, ReceiveLinkInv, ReceiveDoneInv,
     OverrunInv, LoopOverrunInv
  DEF Next, Agent

LEMMA Invariance == Spec => []IInv
<1>1. IInv /\ [Next]_vars => IInv'
  BY StepInv
<1>2. QED
  BY <1>1, InitInv, PTL DEF Spec

----------------------------------------------------------------------------
(* Theorems *)

\* The types of the reconciler hold for any sequence of link changes, overruns,
\* failing calls and crashes; in particular the socket queue stays within its
\* buffer and a device has one link of the two only in the middle of an attach.
THEOREM TypeCorrect == Spec => []TypeOK
<1>1. IInv => TypeOK
  BY DEF IInv
<1>2. QED
  BY <1>1, Invariance, PTL

\* No hook runs without a handle in atts_ (bpf.cpp:203-310), however link events,
\* failing attach calls and disappearing devices interleave.
THEOREM NeverForeignHook == Spec => []NoForeignHook
<1>1. IInv => NoForeignHook
  BY DEF IInv, DeviceInv, NoForeignHook
<1>2. QED
  BY <1>1, Invariance, PTL

\* Flows and counters are left only for attached devices, for one on_link is at
\* work on, or where a failed call left them (main.cpp:203-234).
THEOREM NeverOrphans == Spec => []NoOrphans
<1>1. IInv => NoOrphans
  <2> SUFFICES ASSUME IInv, NEW i \in Devices, i \in flowDevs \cup statDevs
               PROVE  Attached(i) \/ Working(i) \/ i \in leftover
    BY DEF NoOrphans
  <2>1. CountsFit(i)
    BY DEF IInv, DeviceInv
  <2>2. QED
    BY <2>1 DEF CountsFit, Stage
<1>2. QED
  BY <1>1, Invariance, PTL

\* Names, marks and links of a device agree whenever on_link is not at work on
\* it (main.cpp:203-234, bpf.cpp:241-250, 303-305).
THEOREM BooksAlwaysAgree == Spec => []BooksAgree
<1>1. IInv => BooksAgree
  BY DEF IInv, DeviceInv, BooksFit, Stage, BooksAgree
<1>2. QED
  BY <1>1, Invariance, PTL

\* An overrun is pending only on a congested socket with messages queued, since a
\* read reports it before any message: whatever the kernel sends in answer to the
\* request of the resync, before more is read, is dropped (main.cpp:286-310).
OverrunFits == overrun => congested /\ queue # <<>>

LEMMA SocketKept ==
    ASSUME OverrunFits, UNCHANGED <<queue, overrun, congested>>
    PROVE  OverrunFits'
BY DEF OverrunFits

LEMMA NotifyFits ==
    ASSUME IInv, OverrunFits, NEW m, Notify(m)
    PROVE  OverrunFits'
<1>1. CASE ~congested /\ Len(queue) < QueueCap
  BY <1>1 DEF Notify, OverrunFits
<1>2. CASE congested
  BY <1>2 DEF Notify, OverrunFits
<1>3. CASE ~congested /\ ~(Len(queue) < QueueCap)
  <2>1. queue # <<>>
    BY <1>3, ReconcileAssumption
  <2>2. QED
    BY <1>3, <2>1 DEF Notify, OverrunFits
<1>4. QED
  BY <1>1, <1>2, <1>3

LEMMA StepOverrun ==
    ASSUME IInv, OverrunFits, [Next]_vars
    PROVE  OverrunFits'
<1>1. ASSUME NEW i \in Devices, NewLink(i) \/ DelLink(i) PROVE OverrunFits'
  <2>1. \/ \E m : Notify(m)
        \/ UNCHANGED <<queue, overrun, congested>>
    BY <1>1 DEF NewLink, DelLink, Change
  <2>2. QED
    BY <2>1, NotifyFits, SocketKept
<1>2. ASSUME NEW i \in Devices, Traffic(i) PROVE OverrunFits'
  BY <1>2, SocketKept DEF Traffic, socket
<1>3. CASE KernelReply
  <2>1. ASSUME NEW m PROVE Append(queue, m) # <<>>
    <3>1. queue \in Seq(Messages \cup {m}) /\ m \in Messages \cup {m}
      BY DEF IInv, Shape
    <3>2. QED
      BY <3>1, AppendProperties
  <2>2. \/ queue' = queue
        \/ \E m : queue' = Append(queue, m)
    BY <1>3 DEF KernelReply, DumpEnd, DumpLink
  <2>3. UNCHANGED <<overrun, congested>>
    BY <1>3 DEF KernelReply, DumpEnd, DumpLink
  <2>4. QED
    BY <2>1, <2>2, <2>3 DEF OverrunFits
<1>4. CASE StartDump \/ OnLinkStep
  BY <1>4, SocketKept DEF StartDump, OnLinkStep, AttachIn, AttachEg, DetachLinks, DetachCleanup,
     DetachPurgeFails, socket
<1>5. CASE ReceiveLink \/ ReceiveDone
  BY <1>5 DEF ReceiveLink, ReceiveDone, Receive, OverrunFits
<1>6. CASE StartupOverrun \/ LoopOverrun \/ ResyncOverrun
  BY <1>6 DEF StartupOverrun, LoopOverrun, ResyncOverrun, ReceiveError, OverrunFits
<1>7. CASE Respawn \/ Crash
  BY <1>7 DEF Respawn, Crash, Reset, OverrunFits
<1>8. CASE UNCHANGED vars
  BY <1>8, SocketKept DEF vars, socket
<1>9. QED
  BY <1>1, <1>2, <1>3, <1>4, <1>5, <1>6, <1>7, <1>8 DEF Next, Agent

\* A resync is only ever requested with messages still queued on a congested
\* socket, so no refusal of the request reaches the agent (main.cpp:286-310).
THEOREM OverrunAlwaysQueued == Spec => []OverrunFits
<1>1. Init => OverrunFits
  BY DEF Init, OverrunFits
<1>2. IInv /\ OverrunFits /\ [Next]_vars => OverrunFits'
  BY StepOverrun
<1>3. QED
  BY <1>1, <1>2, Invariance, PTL DEF Spec
=============================================================================
