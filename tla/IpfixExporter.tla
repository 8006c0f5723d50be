--------------------------- MODULE IpfixExporter ---------------------------
(***************************************************************************)
(* The IPFIX exporter (exporter_ipfix.cpp) over its UDP socket             *)
(* (udp_client.cpp), as the lifecycle pass of main.cpp drives it: records  *)
(* are buffered per address family, templates are retransmitted on a       *)
(* wall-clock interval, and each buffer is cut into datagrams that carry   *)
(* the sequence number of their first record.                              *)
(*                                                                         *)
(* sendto may fail, the network loses, reorders and duplicates datagrams,  *)
(* the collector may restart without its templates, and the wall clock may *)
(* be stepped.  The 32-bit counters wrap.                                  *)
(***************************************************************************)
EXTENDS Naturals, FiniteSets, FiniteSetsExt

Families == {"v4", "v6"}

CONSTANTS
    MsgHdr,       \* MSG_HDR + SET_HDR
    RecLen,       \* octets of a record, per family
    MAX_UDP,      \* largest datagram
    Interval,     \* TEMPLATE_INTERVAL_S, in passes
    SeqMod,       \* 2^32 for seq_
    TimeMod,      \* 2^32 for export_time_s
    Bursts,       \* records of one family that a pass may emit
    MaxRecords,   \* bound: records ever emitted
    MaxFails,     \* bound: failed sends
    MaxSteps,     \* bound: steps of the wall clock
    MaxRestarts,  \* bound: restarts of the collector
    MaxInFlight   \* bound: datagrams under way

ASSUME IpfixAssumption ==
    /\ MsgHdr \in Nat /\ MAX_UDP \in Nat
    /\ RecLen \in [Families -> Nat \ {0}]
    /\ \A f \in Families : MsgHdr + RecLen[f] <= MAX_UDP
    /\ Interval \in Nat \ {0}
    /\ SeqMod \in Nat \ {0}
    /\ TimeMod \in Nat /\ TimeMod > Interval
    /\ Bursts \subseteq Nat
    /\ {MaxRecords, MaxFails, MaxSteps, MaxRestarts, MaxInFlight} \subseteq Nat

VARIABLES
    pc,            \* "boot", "idle", "templates", "v4", "v6" or "account"
    seq,           \* seq_
    last_template, \* last_template_sent_s_
    pending,       \* records left in pending4_ and pending6_
    now_s,         \* export time of the pass in progress
    failures,      \* failures_ of UdpClient
    total_errors,  \* total_errors_ of Metrics
    wall,          \* time(nullptr)
    due,           \* the lifecycle timer has expired
    net,           \* datagrams under way
    known,         \* the collector knows the templates
    emitted,       \* history: records ever emitted
    sinceAttempt,  \* history: time since templates were last handed to the socket,
                   \* counted up to one past Interval
    fails,         \* history: failed sends
    steps,         \* history: steps of the wall clock
    restarts       \* bound: restarts of the collector so far

exporter == <<pc, seq, last_template, pending, now_s, failures, total_errors>>
clockVars == <<wall, due, sinceAttempt, steps>>
vars == <<exporter, clockVars, net, known, emitted, fails, restarts>>

\* Records handed to the socket so far.
Sent == emitted - pending["v4"] - pending["v6"]

Datagram == [set : Families \cup {"templates"}, seq : 0..SeqMod - 1, n : Nat, first : Nat]

Init ==
    /\ pc = "boot"
    /\ seq = 0
    /\ wall \in 0..TimeMod - 1
    /\ last_template = wall      \* set_epoch
    /\ now_s = wall
    /\ pending = [f \in Families |-> 0]
    /\ failures = 0 /\ total_errors = 0
    /\ due = FALSE
    /\ net = {}
    /\ known = FALSE
    /\ emitted = 0 /\ sinceAttempt = 0 /\ fails = 0 /\ steps = 0 /\ restarts = 0

----------------------------------------------------------------------------
(* The socket and the network *)

\* IpfixExporter::send, UdpClient::send: sendto takes the datagram (and the
\* network may lose it), or fails and is counted.
SendTaken(d) ==
    /\ net' \in {net} \cup (IF Cardinality(net) < MaxInFlight THEN {net \cup {d}} ELSE {})
    /\ UNCHANGED <<failures, fails>>

SendFails ==
    /\ fails < MaxFails
    /\ fails' = fails + 1
    /\ failures' = failures + 1
    /\ UNCHANGED net

Send(d) == SendTaken(d) \/ SendFails

\* The collector gets a datagram, of which the network may keep a copy.
ReceiveTemplates(d) ==
    /\ d \in net /\ d.set = "templates"
    /\ known' = TRUE
    /\ net' \in {net, net \ {d}}
    /\ UNCHANGED <<exporter, clockVars, emitted, fails, restarts>>

ReceiveData(d) ==
    /\ d \in net /\ d.set \in Families
    /\ net' = net \ {d}
    /\ UNCHANGED <<exporter, clockVars, known, emitted, fails, restarts>>

CollectorRestart ==
    /\ restarts < MaxRestarts
    /\ restarts' = restarts + 1
    /\ known' = FALSE
    /\ UNCHANGED <<exporter, clockVars, net, emitted, fails>>

----------------------------------------------------------------------------
(* Time *)

\* One lifecycle period passes.  The agent is at most one period late.
Tick ==
    /\ ~due /\ pc # "boot"
    /\ due' = TRUE
    /\ wall' = (wall + 1) % TimeMod
    /\ sinceAttempt' = IF sinceAttempt > Interval THEN sinceAttempt ELSE sinceAttempt + 1
    /\ UNCHANGED <<exporter, steps, net, known, emitted, fails, restarts>>

\* NTP or an operator sets the wall clock.
StepClock ==
    /\ steps < MaxSteps
    /\ steps' = steps + 1
    /\ wall' \in (0..TimeMod - 1) \ {wall}
    /\ UNCHANGED <<exporter, due, sinceAttempt, net, known, emitted, fails, restarts>>

----------------------------------------------------------------------------
(* The exporter *)

\* send_templates: the timer restarts whether or not the send succeeded.
SendTemplates(time) ==
    /\ Send([set |-> "templates", seq |-> seq, n |-> 0, first |-> Sent])
    /\ last_template' = time
    /\ sinceAttempt' = 0

Boot ==
    /\ pc = "boot"
    /\ SendTemplates(now_s)
    /\ pc' = "idle"
    /\ UNCHANGED <<seq, pending, now_s, total_errors, wall, due, steps, known, emitted, restarts>>

\* The lifecycle timer: the export time is sampled, and the pass calls emit()
\* for n4 IPv4 and n6 IPv6 records.
StartPass(n4, n6) ==
    /\ pc = "idle" /\ due
    /\ emitted + n4 + n6 <= MaxRecords
    /\ due' = FALSE
    /\ now_s' = wall
    /\ pending' = [v4 |-> n4, v6 |-> n6]
    /\ emitted' = emitted + n4 + n6
    /\ pc' = "templates"
    /\ UNCHANGED <<seq, last_template, failures, total_errors, wall, sinceAttempt, steps, net,
                   known, fails, restarts>>

\* Mutant: strictly more than the interval.
DueLate == (now_s + TimeMod - last_template) % TimeMod > Interval

\* Mutant: a signed comparison.
DueSigned == now_s >= last_template + Interval

\* The unsigned 32-bit subtraction of flush().
TemplatesDue == (now_s + TimeMod - last_template) % TimeMod >= Interval

FlushTemplates ==
    /\ pc = "templates"
    /\ IF TemplatesDue
       THEN SendTemplates(now_s)
       ELSE UNCHANGED <<last_template, sinceAttempt, net, failures, fails>>
    /\ pc' = "v4"
    /\ UNCHANGED <<seq, pending, now_s, total_errors, wall, due, steps, known, emitted, restarts>>

\* Mutant: the chunk is closed one record too late.
ChunkOver(f, n) ==
    Min({c \in 1..n : c = n \/ MsgHdr + c * RecLen[f] > MAX_UDP})

\* flush_set: records of the next datagram.  The loop closes a non-empty chunk
\* when one more record would exceed MAX_UDP.
Chunk(f, n) ==
    Min({c \in 1..n : c = n \/ MsgHdr + (c + 1) * RecLen[f] > MAX_UDP})

\* Mutant: the sequence number counts datagrams, as in NetFlow v9.
SeqPerDatagram(c) == (seq + 1) % SeqMod

\* Mutant: no wrap at 32 bits.
SeqUnbounded(c) == seq + c

\* seq_ counts data records, and is advanced after a failed send too.
SeqAfter(c) == (seq + c) % SeqMod

FlushChunk(f) ==
    LET c == Chunk(f, pending[f]) IN
    /\ pc = f /\ pending[f] > 0
    /\ Send([set |-> f, seq |-> seq, n |-> c, first |-> Sent])
    /\ seq' = SeqAfter(c)
    /\ pending' = [pending EXCEPT ![f] = @ - c]
    /\ UNCHANGED <<pc, last_template, now_s, total_errors, clockVars, known, emitted, restarts>>

FlushSetDone(f) ==
    /\ pc = f /\ pending[f] = 0
    /\ pc' = IF f = "v4" THEN "v6" ELSE "account"
    /\ UNCHANGED <<seq, last_template, pending, now_s, failures, total_errors, clockVars, net,
                   known, emitted, fails, restarts>>

\* Mutant: take_failures does not reset the counter.
FailuresKept == failures

FailuresTaken == 0

\* record_errors(take_failures()): failed sends go to the error metric.
Account ==
    /\ pc = "account"
    /\ total_errors' = total_errors + failures
    /\ failures' = FailuresTaken
    /\ pc' = "idle"
    /\ UNCHANGED <<seq, last_template, pending, now_s, clockVars, net, known, emitted, fails,
                   restarts>>

----------------------------------------------------------------------------

Exporter ==
    \/ Boot
    \/ \E n4, n6 \in Bursts : StartPass(n4, n6)
    \/ FlushTemplates
    \/ \E f \in Families : FlushChunk(f) \/ FlushSetDone(f)
    \/ Account

Network == \E d \in net : ReceiveTemplates(d) \/ ReceiveData(d)

Next ==
    \/ Exporter
    \/ Network
    \/ CollectorRestart
    \/ Tick
    \/ StepClock

Spec == Init /\ [][Next]_vars

\* The agent's event loop runs, time passes, and the network does not lose
\* every template datagram.
TemplatesArrive ==
    /\ FlushTemplates
    /\ \E d \in net' \ net : d.set = "templates"
TemplatesReceived == \E d \in net : ReceiveTemplates(d)
Fairness ==
    /\ WF_vars(Exporter)
    /\ WF_vars(Tick)
    /\ WF_vars(Network)
    /\ SF_vars(TemplatesArrive)
    /\ SF_vars(TemplatesReceived)
FairSpec == Spec /\ Fairness

----------------------------------------------------------------------------
(* Properties *)

\* Every variable has its type; the 32-bit fields stay within 32 bits.
TypeOK ==
    /\ pc \in {"boot", "idle", "templates", "v4", "v6", "account"}
    /\ seq \in 0..SeqMod - 1
    /\ {last_template, now_s, wall} \subseteq 0..TimeMod - 1
    /\ pending \in [Families -> Nat]
    /\ {failures, total_errors, emitted, sinceAttempt, fails, steps, restarts} \subseteq Nat
    /\ due \in BOOLEAN /\ known \in BOOLEAN
    /\ net \subseteq Datagram

\* "sequence numbers" (docs/design.md:375) are those of RFC 7011: a datagram
\* carries, modulo 2^32, the number of data records before it in the stream,
\* failed sends included, so that the collector sees every loss as a gap
\* (exporter_ipfix.cpp:229-236).
SequenceCountsRecords ==
    /\ seq = Sent % SeqMod
    /\ \A d \in net : d.seq = d.first % SeqMod

\* "datagram sizing below MAX_UDP" (docs/design.md:377): however many records a
\* pass buffered, no datagram exceeds MAX_UDP and none is empty
\* (exporter_ipfix.cpp:243-256).
DatagramsFit ==
    \A d \in net : d.set \in Families =>
      d.n > 0 /\ MsgHdr + d.n * RecLen[d.set] <= MAX_UDP

\* Every failed send is in obserwrt_export_errors_total or about to be folded
\* into it, exactly once (main.cpp:360-363, udp_client.hpp:48-53).
ErrorsAccounted == failures + total_errors = fails

\* While the wall clock is not stepped, no record leaves later than Interval
\* periods after templates were last sent, the one period the pass itself may
\* take included (exporter_ipfix.cpp:311-312).
TemplatesRecent ==
    steps = 0 /\ (\E f \in Families : pc = f /\ pending[f] > 0) => sinceAttempt <= Interval

\* "periodic template retransmission" (docs/design.md:376): a collector that
\* lost its templates, or never got them, learns them again, after failed
\* sends, clock steps and a wrap of the 32-bit clock.
CollectorLearns == ~known ~> known
=============================================================================
