------------------------ MODULE IpfixExporterProofs ------------------------
(* The exporter's stream, for every record and datagram size, burst, template *)
(* interval and width of the counters, and any number of failed sends, clock  *)
(* steps and restarts of the collector.                                       *)
EXTENDS IpfixExporter, ProofFacts

----------------------------------------------------------------------------
(* The inductive invariant *)

\* The buffers are empty outside a flush, and the families are flushed in turn
\* (exporter_ipfix.cpp:243-320).
Buffers ==
    /\ pc \notin {"templates", "v4", "v6"} => pending["v4"] = 0
    /\ pc \notin {"templates", "v4", "v6"} => pending["v6"] = 0
    /\ pc = "v6" => pending["v4"] = 0
    /\ pending["v4"] + pending["v6"] <= emitted

\* The lifecycle timer has expired since the last pass started.
Late == IF due THEN 1 ELSE 0

\* e periods have passed since the time that templates were last sent at: each
\* pass starts at most one period late, so a pass that does not send them finds
\* at most Interval - 1 periods gone.
Elapsed(e) ==
    /\ wall = (last_template + e) % TimeMod
    /\ sinceAttempt <= e
    /\ pc = "boot" => e = 0 /\ ~due /\ now_s = wall
    /\ pc \notin {"boot", "templates"} => e <= Interval - 1 + Late
    /\ pc = "templates" => /\ Late <= e /\ e <= Interval + Late
                           /\ now_s = (last_template + (e - Late)) % TimeMod

TemplateClock == steps = 0 => \E e \in 0..(Interval + 1) : Elapsed(e)

IInv ==
    /\ TypeOK
    /\ Buffers
    /\ SequenceCountsRecords
    /\ DatagramsFit
    /\ ErrorsAccounted
    /\ TemplateClock

----------------------------------------------------------------------------
(* What TypeOK says of each variable *)

LEMMA Types ==
    ASSUME TypeOK
    PROVE  /\ last_template \in 0..TimeMod - 1 /\ now_s \in 0..TimeMod - 1
           /\ wall \in 0..TimeMod - 1
           /\ failures \in Nat /\ total_errors \in Nat /\ emitted \in Nat
           /\ sinceAttempt \in Nat /\ fails \in Nat /\ steps \in Nat /\ restarts \in Nat
           /\ seq \in 0..SeqMod - 1 /\ pending \in [Families -> Nat]
           /\ pending["v4"] \in Nat /\ pending["v6"] \in Nat
           /\ due \in BOOLEAN /\ known \in BOOLEAN /\ net \subseteq Datagram
           /\ pc \in {"boot", "idle", "templates", "v4", "v6", "account"}
BY DEF TypeOK, Families

LEMMA SentType ==
    ASSUME IInv
    PROVE  Sent \in Nat
BY Types DEF IInv, Buffers, Sent

LEMMA Constants ==
    /\ SeqMod \in Nat \ {0} /\ TimeMod \in Nat \ {0} /\ TimeMod > Interval
    /\ Interval \in Nat \ {0} /\ MsgHdr \in Nat /\ MAX_UDP \in Nat
    /\ Bursts \subseteq Nat
    /\ \A f \in Families : RecLen[f] \in Nat \ {0} /\ MsgHdr + RecLen[f] <= MAX_UDP
<1>1. SeqMod \in Nat \ {0} /\ TimeMod \in Nat \ {0} /\ TimeMod > Interval
  BY IpfixAssumption
<1>2. Interval \in Nat \ {0} /\ MsgHdr \in Nat /\ MAX_UDP \in Nat /\ Bursts \subseteq Nat
  BY IpfixAssumption
<1>3. \A f \in Families : RecLen[f] \in Nat \ {0} /\ MsgHdr + RecLen[f] <= MAX_UDP
  BY IpfixAssumption
<1>4. QED
  BY <1>1, <1>2, <1>3

LEMMA ClockConstants ==
    /\ TimeMod \in Nat /\ TimeMod # 0 /\ Interval \in Nat /\ Interval >= 1 /\ Interval < TimeMod
    /\ TimeMod \in Nat \ {0}
BY Constants

----------------------------------------------------------------------------
(* Datagrams *)

\* flush_set never cuts an empty datagram, nor one above MAX_UDP.
LEMMA ChunkFits ==
    ASSUME NEW f \in Families, NEW n \in Nat, n > 0
    PROVE  /\ Chunk(f, n) \in 1..n
           /\ MsgHdr + Chunk(f, n) * RecLen[f] <= MAX_UDP
<1> DEFINE Ends == {c \in 1..n : c = n \/ MsgHdr + (c + 1) * RecLen[f] > MAX_UDP}
<1>1. n \in Ends /\ Ends \in SUBSET Nat
  OBVIOUS
<1>2. Ends # {}
  BY <1>1
<1>3. Min(Ends) \in Ends /\ \A y \in Ends : Min(Ends) <= y
  <2> HIDE DEF Ends
  <2> QED
    BY <1>1, <1>2, MinProperty
<1>4. PICK c \in 1..n : c = Chunk(f, n) /\ \A y \in Ends : c <= y
  BY <1>3 DEF Chunk
<1>5. RecLen[f] \in Nat \ {0} /\ MsgHdr + RecLen[f] <= MAX_UDP /\ MsgHdr \in Nat /\ MAX_UDP \in Nat
  BY Constants
<1>6. CASE c = 1
  BY <1>4, <1>5, <1>6
<1>7. CASE c > 1
  <2>1. c - 1 \in 1..n /\ c - 1 < c /\ (c - 1) + 1 = c
    BY <1>7
  <2>2. c - 1 \notin Ends
    BY <1>4, <2>1
  <2>3. ~(MsgHdr + ((c - 1) + 1) * RecLen[f] > MAX_UDP)
    BY <2>1, <2>2
  <2>4. c * RecLen[f] \in Nat
    BY <1>5
  <2>5. MsgHdr + c * RecLen[f] <= MAX_UDP
    BY <1>5, <2>1, <2>3, <2>4
  <2>6. QED
    BY <1>4, <2>5
<1>8. QED
  BY <1>6, <1>7

\* What the stream's invariants say of one datagram.
Sound(d) ==
    /\ d \in Datagram
    /\ d.seq = d.first % SeqMod
    /\ d.set \in Families => d.n > 0 /\ MsgHdr + d.n * RecLen[d.set] <= MAX_UDP

LEMMA NetSound ==
    ASSUME IInv
    PROVE  \A d \in net : Sound(d)
BY DEF IInv, TypeOK, SequenceCountsRecords, DatagramsFit, Sound

LEMMA SoundNet ==
    ASSUME \A d \in net' : Sound(d)
    PROVE  /\ net' \subseteq Datagram
           /\ \A d \in net' : d.seq = d.first % SeqMod
           /\ DatagramsFit'
BY DEF Sound, DatagramsFit

LEMMA TemplatesSound ==
    ASSUME IInv
    PROVE  Sound([set |-> "templates", seq |-> seq, n |-> 0, first |-> Sent])
<1>1. Sent \in Nat /\ seq \in 0..SeqMod - 1 /\ seq = Sent % SeqMod
  BY SentType, Types DEF IInv, SequenceCountsRecords
<1>2. "templates" \notin Families
  BY DEF Families
<1>3. QED
  BY <1>1, <1>2 DEF Sound, Datagram

LEMMA ChunkSound ==
    ASSUME IInv, NEW f \in Families, pending[f] > 0
    PROVE  Sound([set |-> f, seq |-> seq, n |-> Chunk(f, pending[f]), first |-> Sent])
<1>1. Sent \in Nat /\ seq \in 0..SeqMod - 1 /\ seq = Sent % SeqMod
  BY SentType, Types DEF IInv, SequenceCountsRecords
<1>2. pending[f] \in Nat
  BY Types DEF IInv
<1> DEFINE c == Chunk(f, pending[f])
<1>3. c \in 1..pending[f] /\ MsgHdr + c * RecLen[f] <= MAX_UDP
  BY <1>2, ChunkFits
<1>4. c \in Nat /\ c > 0
  BY <1>2, <1>3
<1> HIDE DEF c
<1>5. Sound([set |-> f, seq |-> seq, n |-> c, first |-> Sent])
  BY <1>1, <1>3, <1>4 DEF Sound, Datagram
<1>6. QED
  BY <1>5 DEF c

\* A send, taken or failed, leaves sound datagrams under way and its failure in
\* the counter of the socket.
LEMMA SendEffect ==
    ASSUME IInv, NEW d, Sound(d), Send(d)
    PROVE  /\ \A e \in net' : Sound(e)
           /\ failures' \in Nat /\ fails' \in Nat
           /\ failures' + total_errors = fails'
<1>1. failures \in Nat /\ fails \in Nat /\ total_errors \in Nat /\ failures + total_errors = fails
  BY Types DEF IInv, ErrorsAccounted
<1>2. CASE SendTaken(d)
  <2>1. net' \subseteq net \cup {d} /\ failures' = failures /\ fails' = fails
    BY <1>2 DEF SendTaken
  <2>2. QED
    BY <1>1, <2>1, NetSound
<1>3. CASE SendFails
  <2>1. net' = net /\ failures' = failures + 1 /\ fails' = fails + 1
    BY <1>3 DEF SendFails
  <2>2. QED
    BY <1>1, <2>1, NetSound
<1>4. QED
  BY <1>2, <1>3 DEF Send

----------------------------------------------------------------------------
(* The stream: one lemma per action *)

Stream == TypeOK /\ Buffers /\ SequenceCountsRecords /\ DatagramsFit /\ ErrorsAccounted

LEMMA BootStream ==
    ASSUME IInv, Boot
    PROVE  Stream'
<1> DEFINE d == [set |-> "templates", seq |-> seq, n |-> 0, first |-> Sent]
<1>1. Send(d) /\ Sound(d)
  BY TemplatesSound DEF Boot, SendTemplates
<1>2. /\ \A e \in net' : Sound(e)
      /\ failures' \in Nat /\ fails' \in Nat /\ failures' + total_errors = fails'
  <2> HIDE DEF d
  <2> QED
    BY <1>1, SendEffect
<1>3. last_template' = now_s /\ sinceAttempt' = 0 /\ pc = "boot" /\ pc' = "idle"
      /\ UNCHANGED <<seq, pending, now_s, total_errors, wall, due, steps, known, emitted, restarts>>
  BY DEF Boot, SendTemplates
<1>4. TypeOK'
  BY <1>2, <1>3, SoundNet, Types DEF IInv, TypeOK
<1>5. Buffers'
  BY <1>3 DEF IInv, Buffers
<1>6. SequenceCountsRecords' /\ DatagramsFit' /\ ErrorsAccounted'
  BY <1>2, <1>3, SoundNet DEF IInv, SequenceCountsRecords, ErrorsAccounted, Sent
<1>7. QED
  BY <1>4, <1>5, <1>6 DEF Stream

LEMMA StartPassStream ==
    ASSUME IInv, NEW n4 \in Bursts, NEW n6 \in Bursts, StartPass(n4, n6)
    PROVE  Stream'
<1>1. /\ n4 \in Nat /\ n6 \in Nat /\ pc = "idle"
      /\ pending["v4"] = 0 /\ pending["v6"] = 0 /\ emitted \in Nat
  BY Constants, Types DEF IInv, Buffers, StartPass
<1>2. /\ pending' = [v4 |-> n4, v6 |-> n6] /\ emitted' = emitted + n4 + n6
      /\ pc' = "templates" /\ now_s' = wall /\ due' = FALSE
      /\ UNCHANGED <<seq, last_template, failures, total_errors, wall, sinceAttempt, steps, net,
                     known, fails, restarts>>
  BY DEF StartPass
<1>3. pending' \in [Families -> Nat] /\ pending'["v4"] = n4 /\ pending'["v6"] = n6
  BY <1>1, <1>2 DEF Families
<1>4. emitted' \in Nat
  BY <1>1, <1>2
<1>5. TypeOK'
  BY <1>2, <1>3, <1>4, Types DEF IInv, TypeOK
<1>6. Buffers'
  BY <1>1, <1>2, <1>3 DEF Buffers
<1>7. Sent' = Sent
  BY <1>1, <1>2, <1>3 DEF Sent
<1>8. SequenceCountsRecords' /\ DatagramsFit' /\ ErrorsAccounted'
  BY <1>2, <1>7 DEF IInv, SequenceCountsRecords, DatagramsFit, ErrorsAccounted
<1>9. QED
  BY <1>5, <1>6, <1>8 DEF Stream

LEMMA FlushTemplatesStream ==
    ASSUME IInv, FlushTemplates
    PROVE  Stream'
<1>1. /\ pc = "templates" /\ pc' = "v4"
      /\ UNCHANGED <<seq, pending, now_s, total_errors, wall, due, steps, known, emitted, restarts>>
  BY DEF FlushTemplates
<1>2. /\ \A e \in net' : Sound(e)
      /\ failures' \in Nat /\ fails' \in Nat /\ failures' + total_errors = fails'
      /\ last_template' \in 0..TimeMod - 1 /\ sinceAttempt' \in Nat
  <2>1. CASE TemplatesDue
    <3> DEFINE d == [set |-> "templates", seq |-> seq, n |-> 0, first |-> Sent]
    <3>1. Send(d) /\ Sound(d) /\ last_template' = now_s /\ sinceAttempt' = 0
      BY <2>1, TemplatesSound DEF FlushTemplates, SendTemplates
    <3> HIDE DEF d
    <3>2. QED
      BY <3>1, SendEffect, Types DEF IInv
  <2>2. CASE ~TemplatesDue
    BY <2>2, NetSound, Types DEF FlushTemplates, IInv, ErrorsAccounted
  <2>3. QED
    BY <2>1, <2>2
<1>3. TypeOK'
  BY <1>1, <1>2, SoundNet, Types DEF IInv, TypeOK
<1>4. Buffers'
  BY <1>1 DEF IInv, Buffers
<1>5. SequenceCountsRecords' /\ DatagramsFit' /\ ErrorsAccounted'
  BY <1>1, <1>2, SoundNet DEF IInv, SequenceCountsRecords, ErrorsAccounted, Sent
<1>6. QED
  BY <1>3, <1>4, <1>5 DEF Stream

LEMMA FlushChunkStream ==
    ASSUME IInv, NEW f \in Families, FlushChunk(f)
    PROVE  Stream'
<1>1. PICK c : c = Chunk(f, pending[f])
  OBVIOUS
<1>2. /\ pc = f /\ pending[f] > 0
      /\ Send([set |-> f, seq |-> seq, n |-> c, first |-> Sent])
      /\ seq' = (seq + c) % SeqMod
      /\ pending' = [pending EXCEPT ![f] = @ - c]
      /\ UNCHANGED <<pc, last_template, now_s, total_errors, clockVars, known, emitted, restarts>>
  BY <1>1 DEF FlushChunk, SeqAfter
<1>3. pending \in [Families -> Nat] /\ pending[f] \in Nat
  BY Types DEF IInv
<1>4. c \in Nat /\ c <= pending[f]
  BY <1>1, <1>2, <1>3, ChunkFits
<1>5. pending'[f] = pending[f] - c /\ \A g \in Families : g # f => pending'[g] = pending[g]
  BY <1>2, <1>3
<1>6. pending' \in [Families -> Nat]
  BY <1>2, <1>3, <1>4
<1>7. /\ \A e \in net' : Sound(e)
      /\ failures' \in Nat /\ fails' \in Nat /\ failures' + total_errors = fails'
  BY <1>1, <1>2, ChunkSound, SendEffect
<1>8. seq \in Nat /\ seq' \in 0..SeqMod - 1
  <2>1. seq \in Nat /\ seq + c \in Nat
    BY <1>4, Types, Constants DEF IInv
  <2>2. QED
    BY <1>2, <2>1, ModType, Constants
<1>9. TypeOK'
  BY <1>2, <1>6, <1>7, <1>8, SoundNet, Types DEF IInv, TypeOK, clockVars
<1>10. /\ pending'["v4"] + pending'["v6"] = pending["v4"] + pending["v6"] - c
       /\ pending'["v4"] <= pending["v4"] /\ pending'["v6"] <= pending["v6"]
       /\ pending'["v4"] \in Nat /\ pending'["v6"] \in Nat
       /\ pending["v4"] \in Nat /\ pending["v6"] \in Nat
  <2>1. CASE f = "v4"
    BY <2>1, <1>3, <1>4, <1>5 DEF Families
  <2>2. CASE f = "v6"
    BY <2>2, <1>3, <1>4, <1>5 DEF Families
  <2>3. QED
    BY <2>1, <2>2 DEF Families
<1>11. Buffers'
  <2>1. pc \in {"v4", "v6"} /\ pc' = pc /\ emitted' = emitted /\ emitted \in Nat
    BY <1>2, Types DEF Families, IInv
  <2>2. pending["v4"] + pending["v6"] <= emitted /\ (pc = "v6" => pending["v4"] = 0)
    BY DEF IInv, Buffers
  <2>3. QED
    BY <1>4, <1>10, <2>1, <2>2 DEF Buffers
<1>12. Sent' = Sent + c
  <2>1. emitted' = emitted /\ emitted \in Nat
    BY <1>2, Types DEF IInv
  <2>2. QED
    BY <1>4, <1>10, <2>1 DEF Sent
<1>13. seq' = Sent' % SeqMod
  <2>1. seq = Sent % SeqMod /\ Sent \in Nat
    BY SentType DEF IInv, SequenceCountsRecords
  <2>2. ((Sent % SeqMod) + c) % SeqMod = (Sent + c) % SeqMod
    BY <1>4, <2>1, ModAdd, Constants
  <2>3. QED
    BY <1>2, <1>12, <2>1, <2>2
<1>14. SequenceCountsRecords' /\ DatagramsFit'
  BY <1>7, <1>13, SoundNet DEF SequenceCountsRecords
<1>15. ErrorsAccounted'
  BY <1>2, <1>7 DEF ErrorsAccounted
<1>16. QED
  BY <1>9, <1>11, <1>14, <1>15 DEF Stream

LEMMA FlushSetDoneStream ==
    ASSUME IInv, NEW f \in Families, FlushSetDone(f)
    PROVE  Stream'
<1>1. /\ f \in {"v4", "v6"} /\ pc = f /\ pending[f] = 0
      /\ pc' = IF f = "v4" THEN "v6" ELSE "account"
      /\ UNCHANGED <<seq, last_template, pending, now_s, failures, total_errors, clockVars, net,
                     known, emitted, fails, restarts>>
  BY DEF FlushSetDone, Families
<1>2. TypeOK'
  BY <1>1, Types DEF IInv, TypeOK, clockVars
<1>3. Buffers'
  BY <1>1 DEF IInv, Buffers
<1>4. SequenceCountsRecords' /\ DatagramsFit' /\ ErrorsAccounted'
  BY <1>1 DEF IInv, SequenceCountsRecords, DatagramsFit, ErrorsAccounted, Sent
<1>5. QED
  BY <1>2, <1>3, <1>4 DEF Stream

LEMMA AccountStream ==
    ASSUME IInv, Account
    PROVE  Stream'
<1>1. /\ pc = "account" /\ pc' = "idle"
      /\ total_errors' = total_errors + failures /\ failures' = 0
      /\ UNCHANGED <<seq, last_template, pending, now_s, clockVars, net, known, emitted, fails,
                     restarts>>
  BY DEF Account, FailuresTaken
<1>2. failures \in Nat /\ total_errors \in Nat /\ failures + total_errors = fails
  BY Types DEF IInv, ErrorsAccounted
<1>3. total_errors' \in Nat /\ failures' + total_errors' = fails'
  BY <1>1, <1>2
<1>4. TypeOK'
  BY <1>1, <1>3, Types DEF IInv, TypeOK, clockVars
<1>5. Buffers'
  BY <1>1 DEF IInv, Buffers
<1>6. SequenceCountsRecords' /\ DatagramsFit' /\ ErrorsAccounted'
  BY <1>1, <1>3 DEF IInv, SequenceCountsRecords, DatagramsFit, ErrorsAccounted, Sent
<1>7. QED
  BY <1>4, <1>5, <1>6 DEF Stream

\* The network, the collector and the clocks touch neither the buffers nor the
\* counters.
LEMMA OutsideStream ==
    ASSUME IInv, UNCHANGED <<exporter, emitted, fails>>, net' \subseteq net,
           wall' \in 0..TimeMod - 1, sinceAttempt' \in Nat, steps' \in Nat, restarts' \in Nat,
           due' \in BOOLEAN, known' \in BOOLEAN
    PROVE  Stream'
<1>1. TypeOK'
  BY Types DEF IInv, TypeOK, exporter
<1>2. Buffers'
  BY DEF IInv, Buffers, exporter
<1>3. SequenceCountsRecords' /\ DatagramsFit' /\ ErrorsAccounted'
  BY DEF IInv, SequenceCountsRecords, DatagramsFit, ErrorsAccounted, Sent, exporter
<1>4. QED
  BY <1>1, <1>2, <1>3 DEF Stream

LEMMA TickTypes ==
    ASSUME IInv, Tick
    PROVE  wall' \in 0..TimeMod - 1 /\ sinceAttempt' \in Nat
<1>1. wall + 1 \in Nat
  BY Types, Constants DEF IInv
<1>2. (wall + 1) % TimeMod \in 0..TimeMod - 1
  BY <1>1, ModType, Constants
<1>3. sinceAttempt' \in Nat
  BY Types DEF Tick, IInv
<1>4. QED
  BY <1>2, <1>3 DEF Tick

LEMMA StreamStep ==
    ASSUME IInv, [Next]_vars
    PROVE  Stream'
<1>1. ASSUME NEW d \in net, ReceiveTemplates(d) \/ ReceiveData(d) PROVE Stream'
  <2>1. net' \subseteq net /\ known' \in BOOLEAN
        /\ UNCHANGED <<exporter, clockVars, emitted, fails, restarts>>
    BY <1>1, Types DEF ReceiveTemplates, ReceiveData, IInv
  <2>2. /\ wall' \in 0..TimeMod - 1 /\ sinceAttempt' \in Nat /\ steps' \in Nat
        /\ restarts' \in Nat /\ due' \in BOOLEAN
    BY <2>1, Types DEF IInv, clockVars
  <2>3. QED
    BY <2>1, <2>2, OutsideStream
<1>2. CASE CollectorRestart
  <2>1. /\ net' \subseteq net /\ known' \in BOOLEAN
        /\ UNCHANGED <<exporter, clockVars, emitted, fails>>
    BY <1>2 DEF CollectorRestart
  <2>2. /\ wall' \in 0..TimeMod - 1 /\ sinceAttempt' \in Nat /\ steps' \in Nat
        /\ restarts' \in Nat /\ due' \in BOOLEAN
    BY <1>2, Types DEF IInv, clockVars, CollectorRestart
  <2>3. QED
    BY <2>1, <2>2, OutsideStream
<1>3. CASE Tick
  BY <1>3, OutsideStream, TickTypes, Types DEF Tick, IInv
<1>4. CASE StepClock
  BY <1>4, OutsideStream, Types DEF StepClock, IInv
<1>5. CASE UNCHANGED vars
  BY <1>5, OutsideStream, Types DEF vars, IInv, clockVars
<1>6. CASE Exporter
  BY <1>6, BootStream, StartPassStream, FlushTemplatesStream, FlushChunkStream,
     FlushSetDoneStream, AccountStream DEF Exporter
<1>7. QED
  BY <1>1, <1>2, <1>3, <1>4, <1>5, <1>6 DEF Next, Network

----------------------------------------------------------------------------
(* The template clock: one lemma per action *)

LEMMA BootClock ==
    ASSUME IInv, Boot
    PROVE  TemplateClock'
<1> SUFFICES ASSUME steps' = 0
             PROVE  \E e \in 0..(Interval + 1) : Elapsed(e)'
  BY DEF TemplateClock
<1>1. /\ pc = "boot" /\ pc' = "idle" /\ last_template' = now_s /\ sinceAttempt' = 0
      /\ UNCHANGED <<now_s, wall, due, steps>>
  BY DEF Boot, SendTemplates
<1>2. now_s = wall /\ ~due
  BY <1>1 DEF IInv, TemplateClock, Elapsed
<1>3. wall \in 0..TimeMod - 1 /\ (wall + 0) % TimeMod = wall
  BY Types, ModSmall, ClockConstants DEF IInv
<1>4. Elapsed(0)'
  BY <1>1, <1>2, <1>3, ClockConstants DEF Elapsed, Late
<1>5. 0 \in 0..(Interval + 1)
  BY ClockConstants
<1>6. QED
  BY <1>4, <1>5

LEMMA StartPassClock ==
    ASSUME IInv, NEW n4, NEW n6, StartPass(n4, n6)
    PROVE  TemplateClock'
<1> SUFFICES ASSUME steps' = 0
             PROVE  \E e \in 0..(Interval + 1) : Elapsed(e)'
  BY DEF TemplateClock
<1>1. /\ pc = "idle" /\ pc' = "templates" /\ due /\ due' = FALSE /\ now_s' = wall
      /\ UNCHANGED <<last_template, sinceAttempt, wall, steps>>
  BY DEF StartPass
<1>2. PICK e \in 0..(Interval + 1) : Elapsed(e)
  BY <1>1 DEF IInv, TemplateClock
<1>3. e <= Interval /\ e - 0 = e /\ 0 <= e
  BY <1>1, <1>2, ClockConstants DEF Elapsed, Late
<1>4. Elapsed(e)'
  BY <1>1, <1>2, <1>3, ClockConstants DEF Elapsed, Late
<1>5. QED
  BY <1>2, <1>4

\* Templates that are not due were sent less than Interval periods before the
\* pass started.
LEMMA FlushTemplatesClock ==
    ASSUME IInv, FlushTemplates
    PROVE  TemplateClock'
<1> SUFFICES ASSUME steps' = 0
             PROVE  \E e \in 0..(Interval + 1) : Elapsed(e)'
  BY DEF TemplateClock
<1>1. pc = "templates" /\ pc' = "v4" /\ UNCHANGED <<now_s, wall, due, steps>>
  BY DEF FlushTemplates
<1>2. PICK e \in 0..(Interval + 1) : Elapsed(e)
  BY <1>1 DEF IInv, TemplateClock
<1>3. PICK l \in {0, 1} : l = Late /\ l = Late'
  BY <1>1 DEF Late
<1>4. /\ wall = (last_template + e) % TimeMod /\ sinceAttempt <= e
      /\ l <= e /\ e <= Interval + l
      /\ now_s = (last_template + (e - l)) % TimeMod
  BY <1>1, <1>2, <1>3 DEF Elapsed
<1>5. e \in Nat /\ l \in Nat /\ l <= 1
  BY <1>2, <1>3, ClockConstants
<1>6. e - l \in 0..TimeMod - 1
  BY <1>5, <1>4, ClockConstants
<1>7. PICK k \in 0..TimeMod - 1 : k = e - l
  BY <1>6
<1>8. last_template \in 0..TimeMod - 1 /\ now_s \in 0..TimeMod - 1 /\ sinceAttempt \in Nat
  BY Types DEF IInv
<1>9. (now_s + TimeMod - last_template) % TimeMod = k
  BY <1>4, <1>7, <1>8, ModSub, ClockConstants
<1>10. CASE TemplatesDue
  <2>1. last_template' = now_s /\ sinceAttempt' = 0
    BY <1>10 DEF FlushTemplates, SendTemplates
  <2>2. wall = (now_s + l) % TimeMod
    <3>1. last_template + k \in Nat /\ last_template + k + l = last_template + e
      BY <1>5, <1>7, <1>8, ClockConstants
    <3>2. (((last_template + k) % TimeMod) + l) % TimeMod = (last_template + k + l) % TimeMod
      BY <1>3, <3>1, ModAdd, ClockConstants
    <3>3. QED
      BY <1>4, <1>7, <3>1, <3>2
  <2>3. l \in 0..(Interval + 1) /\ l <= Interval - 1 + l /\ 0 <= l
    BY <1>5, ClockConstants
  <2>4. Elapsed(l)'
    BY <1>1, <1>3, <2>1, <2>2, <2>3 DEF Elapsed
  <2>5. QED
    BY <2>3, <2>4
<1>11. CASE ~TemplatesDue
  <2>1. last_template' = last_template /\ sinceAttempt' = sinceAttempt
    BY <1>11 DEF FlushTemplates
  <2>2. k < Interval
    BY <1>7, <1>9, <1>11, ClockConstants DEF TemplatesDue
  <2>3. e <= Interval - 1 + l
    BY <1>5, <1>7, <2>2, ClockConstants
  <2>4. Elapsed(e)'
    BY <1>1, <1>3, <1>4, <2>1, <2>3 DEF Elapsed
  <2>5. QED
    BY <1>2, <2>4
<1>12. QED
  BY <1>10, <1>11

LEMMA TickClock ==
    ASSUME IInv, Tick
    PROVE  TemplateClock'
<1> SUFFICES ASSUME steps' = 0
             PROVE  \E e \in 0..(Interval + 1) : Elapsed(e)'
  BY DEF TemplateClock
<1>1. /\ pc # "boot" /\ ~due /\ due' = TRUE /\ wall' = (wall + 1) % TimeMod
      /\ sinceAttempt' = IF sinceAttempt > Interval THEN sinceAttempt ELSE sinceAttempt + 1
      /\ UNCHANGED <<pc, last_template, now_s, steps>>
  BY DEF Tick, exporter
<1>2. PICK e \in 0..(Interval + 1) : Elapsed(e)
  BY <1>1 DEF IInv, TemplateClock
<1>3. /\ wall = (last_template + e) % TimeMod /\ sinceAttempt <= e /\ e <= Interval
      /\ pc \notin {"boot", "templates"} => e <= Interval - 1
      /\ pc = "templates" => now_s = (last_template + e) % TimeMod
  BY <1>1, <1>2, ClockConstants DEF Elapsed, Late
<1>4. last_template \in Nat /\ sinceAttempt \in Nat /\ e \in Nat
  BY <1>2, Types, ClockConstants DEF IInv
<1>5. wall' = (last_template + (e + 1)) % TimeMod
  <2>0. last_template + e \in Nat
    BY <1>4
  <2>1. (((last_template + e) % TimeMod) + 1) % TimeMod = (last_template + e + 1) % TimeMod
    BY <2>0, ModAdd, ClockConstants
  <2>2. last_template + e + 1 = last_template + (e + 1)
    BY <1>4
  <2>3. QED
    BY <1>1, <1>3, <2>1, <2>2
<1>6. e + 1 \in 0..(Interval + 1) /\ sinceAttempt' <= e + 1 /\ (e + 1) - 1 = e /\ 1 <= e + 1
  BY <1>1, <1>3, <1>4, ClockConstants
<1>7. /\ pc \notin {"boot", "templates"} => e + 1 <= Interval - 1 + 1
      /\ e + 1 <= Interval + 1
  BY <1>3, <1>4, ClockConstants
<1>8. Late' = 1
  BY <1>1 DEF Late
<1>9. Elapsed(e + 1)'
  BY <1>1, <1>3, <1>5, <1>6, <1>7, <1>8 DEF Elapsed
<1>10. QED
  BY <1>6, <1>9

\* The other steps leave the clock alone, or step it.
LEMMA OtherClock ==
    ASSUME IInv, pc # "boot", pc' # "boot", pc' # "templates" \/ pc' = pc,
           pc # "templates" \/ pc' = pc,
           UNCHANGED <<wall, due, sinceAttempt, steps, last_template, now_s>>
    PROVE  TemplateClock'
BY DEF IInv, TemplateClock, Elapsed, Late

LEMMA SameClock ==
    ASSUME IInv, UNCHANGED <<exporter, clockVars>>
    PROVE  TemplateClock'
BY DEF IInv, TemplateClock, Elapsed, Late, exporter, clockVars

LEMMA ClockStep ==
    ASSUME IInv, [Next]_vars
    PROVE  TemplateClock'
<1>1. CASE Boot
  BY <1>1, BootClock
<1>2. ASSUME NEW n4 \in Bursts, NEW n6 \in Bursts, StartPass(n4, n6) PROVE TemplateClock'
  BY <1>2, StartPassClock
<1>3. CASE FlushTemplates
  BY <1>3, FlushTemplatesClock
<1>4. ASSUME NEW f \in Families, FlushChunk(f) PROVE TemplateClock'
  <2>1. pc = f /\ UNCHANGED <<pc, last_template, now_s, clockVars>>
    BY <1>4 DEF FlushChunk
  <2>2. QED
    BY <2>1, OtherClock DEF clockVars, Families
<1>5. ASSUME NEW f \in Families, FlushSetDone(f) PROVE TemplateClock'
  <2>1. /\ pc = f /\ pc' = IF f = "v4" THEN "v6" ELSE "account"
        /\ UNCHANGED <<last_template, now_s, clockVars>>
    BY <1>5 DEF FlushSetDone
  <2>2. QED
    BY <2>1, OtherClock DEF clockVars, Families
<1>6. CASE Account
  BY <1>6, OtherClock DEF Account, clockVars
<1>7. CASE Network
  BY <1>7, SameClock DEF Network, ReceiveTemplates, ReceiveData
<1>8. CASE CollectorRestart
  BY <1>8, SameClock DEF CollectorRestart
<1>9. CASE Tick
  BY <1>9, TickClock
<1>10. CASE StepClock
  <2>1. steps \in Nat /\ steps' = steps + 1
    BY <1>10, Types DEF StepClock, IInv
  <2>2. steps' # 0
    BY <2>1
  <2>3. QED
    BY <2>2 DEF TemplateClock
<1>11. CASE UNCHANGED vars
  BY <1>11, SameClock DEF vars
<1>12. QED
  BY <1>1, <1>2, <1>3, <1>4, <1>5, <1>6, <1>7, <1>8, <1>9, <1>10, <1>11 DEF Next, Exporter

----------------------------------------------------------------------------
(* Theorems *)

LEMMA InitInv ==
    ASSUME Init
    PROVE  IInv
<1>1. pending["v4"] = 0 /\ pending["v6"] = 0 /\ emitted = 0 /\ pending \in [Families -> Nat]
  BY DEF Init, Families
<1>2. TypeOK
  <2>1. 0 \in 0..SeqMod - 1
    BY Constants
  <2>2. /\ seq = 0 /\ wall \in 0..TimeMod - 1 /\ last_template = wall /\ now_s = wall
        /\ failures = 0 /\ total_errors = 0 /\ emitted = 0 /\ sinceAttempt = 0 /\ fails = 0
        /\ steps = 0 /\ restarts = 0 /\ due = FALSE /\ known = FALSE /\ net = {} /\ pc = "boot"
    BY DEF Init
  <2>3. {failures, total_errors, emitted, sinceAttempt, fails, steps, restarts} \subseteq Nat
    BY <2>2
  <2>4. QED
    BY <1>1, <2>1, <2>2, <2>3 DEF TypeOK
<1>3. Buffers
  BY <1>1 DEF Buffers
<1>4. SequenceCountsRecords
  <2>1. Sent = 0
    BY <1>1 DEF Sent
  <2>2. 0 % SeqMod = 0
    BY ModSmall, Constants
  <2>3. QED
    BY <2>1, <2>2 DEF Init, SequenceCountsRecords
<1>5. DatagramsFit /\ ErrorsAccounted
  BY DEF Init, DatagramsFit, ErrorsAccounted
<1>6. TemplateClock
  <2>1. wall \in 0..TimeMod - 1 /\ (wall + 0) % TimeMod = wall
    BY ModSmall, Constants DEF Init
  <2>2. Elapsed(0) /\ 0 \in 0..(Interval + 1)
    BY <2>1, Constants DEF Init, Elapsed, Late
  <2>3. QED
    BY <2>2 DEF TemplateClock
<1>7. QED
  BY <1>2, <1>3, <1>4, <1>5, <1>6 DEF IInv

LEMMA StepInv ==
    ASSUME IInv, [Next]_vars
    PROVE  IInv'
BY StreamStep, ClockStep DEF IInv, Stream

\* Records leave while the clock is within the interval: the pass found at most
\* Interval - 1 periods gone, and one more may pass before it is done.
LEMMA ClockRecent ==
    ASSUME IInv
    PROVE  TemplatesRecent
<1> SUFFICES ASSUME steps = 0, NEW f \in Families, pc = f
             PROVE  sinceAttempt <= Interval
  BY DEF TemplatesRecent
<1>1. PICK e \in 0..(Interval + 1) : Elapsed(e)
  BY DEF IInv, TemplateClock
<1>2. pc \notin {"boot", "templates"}
  BY DEF Families
<1>3. sinceAttempt <= e /\ e <= Interval - 1 + Late /\ Late \in {0, 1}
  BY <1>1, <1>2 DEF Elapsed, Late
<1>4. sinceAttempt \in Nat
  BY Types DEF IInv
<1>5. QED
  BY <1>1, <1>3, <1>4, Constants

\* Every variable of the exporter keeps its type, and the fields of a datagram
\* stay within their width.
THEOREM TypeCorrect == Spec => []TypeOK
<1>1. Init => IInv
  BY InitInv
<1>2. IInv /\ [Next]_vars => IInv'
  BY StepInv
<1>3. IInv => TypeOK
  BY DEF IInv
<1>4. QED
  BY <1>1, <1>2, <1>3, PTL DEF Spec

\* The sequence number of every datagram is the number of data records before
\* it, modulo the width of seq_, whatever sends failed (exporter_ipfix.cpp:229-236).
THEOREM SequenceAlwaysCounts == Spec => []SequenceCountsRecords
<1>1. Init => IInv
  BY InitInv
<1>2. IInv /\ [Next]_vars => IInv'
  BY StepInv
<1>3. IInv => SequenceCountsRecords
  BY DEF IInv
<1>4. QED
  BY <1>1, <1>2, <1>3, PTL DEF Spec

\* No datagram of records is empty or above MAX_UDP, for every record size that
\* fits one (exporter_ipfix.cpp:243-256).
THEOREM DatagramsAlwaysFit == Spec => []DatagramsFit
<1>1. Init => IInv
  BY InitInv
<1>2. IInv /\ [Next]_vars => IInv'
  BY StepInv
<1>3. IInv => DatagramsFit
  BY DEF IInv
<1>4. QED
  BY <1>1, <1>2, <1>3, PTL DEF Spec

\* A failed send is counted once, in the socket's counter or in the error
\* metric (main.cpp:360-363).
THEOREM ErrorsAlwaysAccounted == Spec => []ErrorsAccounted
<1>1. Init => IInv
  BY InitInv
<1>2. IInv /\ [Next]_vars => IInv'
  BY StepInv
<1>3. IInv => ErrorsAccounted
  BY DEF IInv
<1>4. QED
  BY <1>1, <1>2, <1>3, PTL DEF Spec

\* While the wall clock is not stepped, no record leaves later than the template
\* interval after the templates, across every wrap of the 32-bit clock
\* (exporter_ipfix.cpp:311-312).
THEOREM TemplatesAlwaysRecent == Spec => []TemplatesRecent
<1>1. Init => IInv
  BY InitInv
<1>2. IInv /\ [Next]_vars => IInv'
  BY StepInv
<1>3. IInv => TemplatesRecent
  BY ClockRecent
<1>4. QED
  BY <1>1, <1>2, <1>3, PTL DEF Spec
=============================================================================
