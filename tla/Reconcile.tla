----------------------------- MODULE Reconcile -----------------------------
(***************************************************************************)
(* Keeping the TC hooks on the devices the configuration asks for: link    *)
(* events from rtnetlink, the startup dump and the resync after a receive  *)
(* overrun (reconcile.cpp), on_link of main.cpp, and Bpf::attach, detach   *)
(* and purge_ifindex (bpf.cpp).                                            *)
(*                                                                         *)
(* The kernel's devices change while notifications wait in the socket      *)
(* queue, while a dump is being answered, and between the two hooks of an  *)
(* attach.  One event is one message; a dump answers link by link.         *)
(***************************************************************************)
EXTENDS Naturals, Sequences, FiniteSets

CONSTANTS
    Devices,       \* ifindexes
    Names,         \* device names
    Matching,      \* names that match the configured device patterns
    None,          \* no name, no dump in progress
    QueueCap,      \* messages the socket's receive buffer holds
    CallsMayFail,  \* whether attach_tcx on a present device, the mark and the purge may fail
    MaxChanges,    \* bound: changes of the kernel's devices
    MaxCrashes     \* bound: crashes of the agent

ASSUME ReconcileAssumption ==
    /\ Matching \subseteq Names
    /\ None \notin Names
    /\ QueueCap \in Nat \ {0}
    /\ CallsMayFail \in BOOLEAN
    /\ MaxChanges \in Nat
    /\ MaxCrashes \in Nat

VARIABLES
    dev,        \* the kernel's devices: present, up, name
    hooks,      \* hooks live on each device
    flowDevs,   \* devices with entries in obserwrt_flows
    statDevs,   \* devices with entries in obserwrt_devstats
    queue,      \* messages waiting on the netlink socket
    overrun,    \* pending ENOBUFS of the socket
    congested,  \* the socket drops every notification until its queue is empty
    dumping,    \* devices a dump still has to list, or None
    pc,         \* "start", "dump", "loop", "resync" or "exit"
    task,       \* the part of on_link still to run, or NoTask
    atts,       \* atts_: the links the agent holds per device
    marked,     \* obserwrt_attached: devices the drop tracer observes
    names,      \* name_by_index
    leftover,   \* history: devices left with counts by a failed attach or purge
    lost,       \* history: this run of the agent missed a message or an attach
    changes,    \* bound: changes so far
    crashes     \* bound: crashes so far

kernelDevs == <<dev, hooks, flowDevs, statDevs>>
socket == <<queue, overrun, congested, dumping>>
agent == <<pc, task, atts, marked, names, leftover, lost>>
vars == <<kernelDevs, socket, agent, changes, crashes>>

Hooks == {"in", "eg"}
Absent == [present |-> FALSE, up |-> FALSE, name |-> None]
Present == [present : {TRUE}, up : BOOLEAN, name : Names]
NoTask == [op |-> "none"]

\* LinkEvent, as parse_link reads it from RTM_NEWLINK and RTM_DELLINK.
LinkEvent(i, d, present) == [type |-> "link", ifindex |-> i, present |-> present,
                             up |-> d.up, ifname |-> d.name]
Done == [type |-> "done"]

Init ==
    /\ dev \in [Devices -> Present \cup {Absent}]
    /\ hooks = [i \in Devices |-> {}]
    /\ flowDevs = {} /\ statDevs = {}
    /\ queue = <<>> /\ overrun = FALSE /\ congested = FALSE /\ dumping = None
    /\ pc = "start" /\ task = NoTask
    /\ atts = [i \in Devices |-> {}]
    /\ marked = {}
    /\ names = [i \in Devices |-> None]
    /\ leftover = {}
    /\ lost = FALSE
    /\ changes = 0 /\ crashes = 0

----------------------------------------------------------------------------
(* The kernel: devices, traffic, notifications, dumps *)

\* A multicast notification.  A full queue drops it and reports ENOBUFS once;
\* from then on notifications are dropped silently until the queue was empty.
Notify(msg) ==
    IF ~congested /\ Len(queue) < QueueCap
    THEN queue' = Append(queue, msg) /\ UNCHANGED <<overrun, congested, lost>>
    ELSE /\ overrun' = (overrun \/ ~congested)
         /\ congested' = TRUE
         /\ lost' = TRUE
         /\ UNCHANGED queue

\* The agent is bound to the group from Reconcile::open on.
Listening == pc # "exit"

Change(i, d, present) ==
    /\ changes < MaxChanges
    /\ changes' = changes + 1
    /\ dev' = [dev EXCEPT ![i] = IF present THEN d ELSE Absent]
    /\ IF Listening THEN Notify(LinkEvent(i, d, present))
                    ELSE UNCHANGED <<queue, overrun, congested, lost>>
    /\ UNCHANGED <<dumping, pc, task, atts, marked, names, leftover, crashes, flowDevs, statDevs>>

\* A device appears (down), is set up or down, or is renamed.
NewLink(i) ==
    /\ \E d \in Present :
         /\ d # dev[i]
         /\ dev[i].present => d.up = dev[i].up \/ d.name = dev[i].name
         /\ ~dev[i].present => ~d.up
         /\ Change(i, d, TRUE)
    /\ UNCHANGED hooks

\* A device goes away; its hooks go with it.  It was set down before.
DelLink(i) ==
    /\ dev[i].present /\ ~dev[i].up
    /\ Change(i, dev[i], FALSE)
    /\ hooks' = [hooks EXCEPT ![i] = {}]

\* A packet passes a live hook and is accounted.
Traffic(i) ==
    /\ dev[i].present /\ dev[i].up /\ hooks[i] # {}
    /\ flowDevs' = flowDevs \cup {i}
    /\ statDevs' = statDevs \cup {i}
    /\ UNCHANGED <<dev, hooks, socket, agent, changes, crashes>>

\* The dump lists the next device that exists at this moment, or ends.  A
\* dump waits for room; it is never dropped.
DumpLink(i) ==
    /\ dumping # None /\ i \in dumping
    /\ Len(queue) < QueueCap
    /\ queue' = IF dev[i].present THEN Append(queue, LinkEvent(i, dev[i], TRUE)) ELSE queue
    /\ dumping' = dumping \ {i}
    /\ UNCHANGED <<kernelDevs, overrun, congested, agent, changes, crashes>>

DumpEnd ==
    /\ dumping = {}
    /\ Len(queue) < QueueCap
    /\ queue' = Append(queue, Done)
    /\ dumping' = None
    /\ UNCHANGED <<kernelDevs, overrun, congested, agent, changes, crashes>>

----------------------------------------------------------------------------
(* on_link, Bpf::attach and Bpf::detach *)

Attached(i) == atts[i] = Hooks
Wanted(present, up, ifname) == present /\ up /\ ifname \in Matching

\* Mutant: a rename of an attached device is not recorded.
OnLinkNoRename(ev) ==
    LET i == ev.ifindex
        wanted == Wanted(ev.present, ev.up, ev.ifname)
    IN
    /\ names' = names
    /\ task' = IF Attached(i) /\ ~wanted THEN [op |-> "detach", i |-> i]
               ELSE IF ~Attached(i) /\ wanted
               THEN [op |-> "attach_in", i |-> i, name |-> ev.ifname]
               ELSE NoTask

\* The decision of on_link; the bpf calls it makes follow as a task.
OnLink(ev) ==
    LET i == ev.ifindex
        wanted == Wanted(ev.present, ev.up, ev.ifname)
    IN
    /\ names' = IF Attached(i) /\ wanted THEN [names EXCEPT ![i] = ev.ifname] ELSE names
    /\ task' = IF Attached(i) /\ ~wanted THEN [op |-> "detach", i |-> i]
               ELSE IF ~Attached(i) /\ wanted
               THEN [op |-> "attach_in", i |-> i, name |-> ev.ifname]
               ELSE NoTask

\* bpf_program__attach_tcx: fails on a device that is gone.
Hook(i, h) ==
    /\ dev[i].present
    /\ hooks' = [hooks EXCEPT ![i] = @ \cup {h}]
    /\ atts' = [atts EXCEPT ![i] = @ \cup {h}]
HookFails(i) == CallsMayFail \/ ~dev[i].present

\* Stale counters of a reused ifindex go first, then the ingress hook.
AttachIn(i) ==
    /\ task.op = "attach_in" /\ task.i = i
    /\ statDevs' = statDevs \ {i}
    /\ \/ /\ Hook(i, "in")
          /\ task' = [task EXCEPT !.op = "attach_eg"]
          /\ UNCHANGED lost
       \/ /\ HookFails(i)
          /\ task' = NoTask
          /\ lost' = (lost \/ dev[i].present)
          /\ UNCHANGED <<hooks, atts>>
    /\ UNCHANGED <<dev, flowDevs, socket, pc, marked, names, leftover, changes, crashes>>

\* Mutant: a failed egress hook leaves the ingress link behind.
KeepIngress(i) == UNCHANGED <<hooks, atts>>

\* bpf_link__destroy of the ingress link.
UndoIngress(i) ==
    /\ hooks' = [hooks EXCEPT ![i] = @ \ {"in"}]
    /\ atts' = [atts EXCEPT ![i] = {}]

\* The drop tracer's mark; a full map refuses it, which is only logged.
Mark(i) ==
    \/ marked' = marked \cup {i}
    \/ CallsMayFail /\ marked' = marked

\* The egress hook; then the device is marked for the drop tracer and named.
\* If it fails the ingress hook is destroyed again.
AttachEg(i) ==
    /\ task.op = "attach_eg" /\ task.i = i
    /\ task' = NoTask
    /\ \/ /\ Hook(i, "eg")
          /\ Mark(i)
          /\ names' = [names EXCEPT ![i] = task.name]
          /\ UNCHANGED <<leftover, lost>>
       \/ /\ HookFails(i)
          /\ UndoIngress(i)
          /\ leftover' = leftover \cup {i}
          /\ lost' = (lost \/ dev[i].present)
          /\ UNCHANGED <<marked, names>>
    /\ UNCHANGED <<dev, flowDevs, statDevs, socket, pc, changes, crashes>>

\* Mutant: the handles are dropped and the links live on.
ForgetLinks(i) ==
    /\ hooks' = hooks
    /\ atts' = [atts EXCEPT ![i] = {}]

DestroyLinks(i) ==
    /\ hooks' = [hooks EXCEPT ![i] = {}]
    /\ atts' = [atts EXCEPT ![i] = {}]

\* Both links are destroyed: no classifier runs on the device afterwards.
DetachLinks(i) ==
    /\ task.op = "detach" /\ task.i = i
    /\ DestroyLinks(i)
    /\ task' = [task EXCEPT !.op = "purge"]
    /\ UNCHANGED <<dev, flowDevs, statDevs, socket, pc, marked, names, leftover, lost, changes, crashes>>

\* Mutant: detach without purge_ifindex.
NoPurge(i) ==
    /\ statDevs' = statDevs \ {i}
    /\ marked' = marked \ {i}
    /\ flowDevs' = flowDevs

\* Mutant: the drop tracer's mark outlives the attachment.
KeepMark(i) ==
    /\ statDevs' = statDevs \ {i}
    /\ marked' = marked
    /\ flowDevs' = flowDevs \ {i}

\* drop_dev_counters, the drop tracer's mark, purge_ifindex.
Cleanup(i) ==
    /\ statDevs' = statDevs \ {i}
    /\ marked' = marked \ {i}
    /\ flowDevs' = flowDevs \ {i}

DetachCleanup(i) ==
    /\ task.op = "purge" /\ task.i = i
    /\ Cleanup(i)
    /\ names' = [names EXCEPT ![i] = None]
    /\ leftover' = leftover \ {i}
    /\ task' = NoTask
    /\ UNCHANGED <<dev, hooks, socket, pc, atts, lost, changes, crashes>>

\* The walk of purge_ifindex fails before it has found all flows of the device.
DetachPurgeFails(i) ==
    /\ task.op = "purge" /\ task.i = i
    /\ CallsMayFail
    /\ statDevs' = statDevs \ {i}
    /\ marked' = marked \ {i}
    /\ names' = [names EXCEPT ![i] = None]
    /\ leftover' = leftover \cup {i}
    /\ task' = NoTask
    /\ UNCHANGED <<dev, hooks, flowDevs, socket, pc, atts, lost, changes, crashes>>

----------------------------------------------------------------------------
(* The receive loops *)

\* A read of the head of the queue; emptying it ends the congestion.
Receive ==
    /\ queue # <<>> /\ ~overrun
    /\ queue' = Tail(queue)
    /\ congested' = (congested /\ Len(queue) > 1)
    /\ UNCHANGED <<overrun, dumping>>

\* A read that reports the overrun instead.
ReceiveError ==
    /\ overrun
    /\ overrun' = FALSE
    /\ congested' = (congested /\ queue # <<>>)
    /\ UNCHANGED <<queue, dumping>>

\* Reconcile::dump sends its request (main.cpp at startup).
StartDump ==
    /\ pc = "start"
    /\ pc' = "dump"
    /\ dumping' = Devices
    /\ UNCHANGED <<kernelDevs, queue, overrun, congested, task, atts, marked, names, leftover,
                   lost, changes, crashes>>

\* The receive loop of a dump hands over every link message until DONE; the main
\* loop (dispatch) skips the one that a dump given up earlier left behind.
ReceiveLink ==
    /\ task = NoTask /\ pc \in {"dump", "loop", "resync"}
    /\ Receive
    /\ Head(queue).type = "link"
    /\ OnLink(Head(queue))
    /\ UNCHANGED <<kernelDevs, pc, atts, marked, leftover, lost, changes, crashes>>

ReceiveDone ==
    /\ task = NoTask /\ pc \in {"dump", "loop", "resync"}
    /\ Receive
    /\ Head(queue).type = "done"
    /\ pc' = "loop"
    /\ UNCHANGED <<kernelDevs, task, atts, marked, names, leftover, lost, changes, crashes>>

\* A failed startup dump is fatal.
StartupOverrun ==
    /\ task = NoTask /\ pc = "dump"
    /\ ReceiveError
    /\ pc' = "exit"
    /\ UNCHANGED <<kernelDevs, task, atts, marked, names, leftover, lost, changes, crashes>>

\* The main loop resyncs from a fresh dump.  While the kernel still answers an
\* old one it refuses the request; as messages are queued the socket is still
\* congested, and the refusal is dropped like any other message.
LoopOverrun ==
    /\ task = NoTask /\ pc = "loop"
    /\ overrun
    /\ overrun' = FALSE
    /\ congested' = (congested /\ queue # <<>>)
    /\ dumping' = IF dumping = None THEN Devices ELSE dumping
    /\ pc' = "resync"
    /\ UNCHANGED <<kernelDevs, queue, task, atts, marked, names, leftover, lost, changes, crashes>>

\* A second overrun ends the resync; its result is ignored.
ResyncOverrun ==
    /\ task = NoTask /\ pc = "resync"
    /\ ReceiveError
    /\ pc' = "loop"
    /\ UNCHANGED <<kernelDevs, task, atts, marked, names, leftover, lost, changes, crashes>>

\* The process dies: its links, maps and socket go with it.
Reset ==
    /\ hooks' = [i \in Devices |-> {}]
    /\ flowDevs' = {} /\ statDevs' = {}
    /\ queue' = <<>> /\ overrun' = FALSE /\ congested' = FALSE /\ dumping' = None
    /\ task' = NoTask
    /\ atts' = [i \in Devices |-> {}]
    /\ marked' = {}
    /\ names' = [i \in Devices |-> None]
    /\ leftover' = {}
    /\ lost' = FALSE
    /\ UNCHANGED dev

Crash ==
    /\ pc # "exit"
    /\ crashes < MaxCrashes
    /\ crashes' = crashes + 1
    /\ Reset
    /\ pc' = "exit"
    /\ UNCHANGED changes

\* procd or systemd starts it again.
Respawn ==
    /\ pc = "exit"
    /\ Reset
    /\ pc' = "start"
    /\ UNCHANGED <<changes, crashes>>

----------------------------------------------------------------------------

KernelReply == DumpEnd \/ \E i \in Devices : DumpLink(i)

OnLinkStep ==
    \E i \in Devices :
      \/ AttachIn(i)
      \/ AttachEg(i)
      \/ DetachLinks(i)
      \/ DetachCleanup(i)
      \/ DetachPurgeFails(i)

Agent ==
    \/ StartDump
    \/ ReceiveLink
    \/ ReceiveDone
    \/ StartupOverrun
    \/ LoopOverrun
    \/ ResyncOverrun
    \/ OnLinkStep
    \/ Respawn

Next ==
    \/ \E i \in Devices : NewLink(i) \/ DelLink(i) \/ Traffic(i)
    \/ KernelReply
    \/ Agent
    \/ Crash

Spec == Init /\ [][Next]_vars

\* The agent's loop runs whenever its socket is readable, the kernel answers a
\* dump, and the service manager respawns the agent.
FairSpec == Spec /\ WF_vars(Agent) /\ WF_vars(KernelReply)

----------------------------------------------------------------------------
(* Properties *)

\* Every variable has its type, and outside an attach or a detach the agent
\* holds both links of a device or none (Links of bpf.hpp).
TypeOK ==
    /\ dev \in [Devices -> Present \cup {Absent}]
    /\ hooks \in [Devices -> SUBSET Hooks]
    /\ flowDevs \subseteq Devices /\ statDevs \subseteq Devices
    /\ Len(queue) <= QueueCap
    /\ overrun \in BOOLEAN /\ congested \in BOOLEAN
    /\ dumping \in (SUBSET Devices) \cup {None}
    /\ pc \in {"start", "dump", "loop", "resync", "exit"}
    /\ atts \in [Devices -> SUBSET Hooks]
    /\ \A i \in Devices : atts[i] \notin {{}, Hooks} => task.op = "attach_eg" /\ task.i = i
    /\ marked \subseteq Devices
    /\ names \in [Devices -> Names \cup {None}]
    /\ leftover \subseteq Devices
    /\ lost \in BOOLEAN

Working(i) == task # NoTask /\ task.i = i

\* The agent never runs a hook it has no handle for: a device it believes
\* detached does not keep counting ("never keep a stale attachment active",
\* docs/design.md:238).
NoForeignHook == \A i \in Devices : hooks[i] \subseteq atts[i]

\* Flows and class counters are only left for attached devices: detach happens
\* before the purge, so no late packet brings them back (main.cpp:211-213).
\* The exceptions: what the ingress hook counted before the egress hook failed
\* (bpf.cpp:232-238), and what a failed purge walk did not find (bpf.cpp:481-483).
NoOrphans ==
    \A i \in Devices :
      i \in flowDevs \cup statDevs => Attached(i) \/ Working(i) \/ i \in leftover

\* Whenever on_link is not at work on a device, it is named exactly while it is
\* attached, and the drop tracer observes no device that collects no flows
\* (main.cpp:203-234, bpf.cpp:241-250, 303-305).
BooksAgree ==
    \A i \in Devices : ~Working(i) =>
      /\ i \in marked => Attached(i)
      /\ Attached(i) <=> names[i] # None

InSync(i) ==
    /\ Attached(i) <=> Wanted(dev[i].present, dev[i].up, dev[i].name)
    /\ Attached(i) => hooks[i] = Hooks /\ names[i] = dev[i].name

\* Once devices stop changing, exactly the wanted ones carry both hooks, under
\* their current names (main.cpp:197-202), unless this run of the agent lost a
\* notification or was refused a hook.  A respawned agent starts afresh.
Converges == <>[]~lost => <>[](\A i \in Devices : InSync(i))

\* "a missed down/up/rename leaves TC + names stale, so resync from a fresh
\* dump" (main.cpp:297-299); "never keep a stale attachment active"
\* (docs/design.md:238): an attachment to a device that is gone is dropped.
StaleAttachmentDropped ==
    \A i \in Devices :
      (Attached(i) /\ ~dev[i].present) ~> (~Attached(i) \/ dev[i].present)
=============================================================================
