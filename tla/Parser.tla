------------------------------- MODULE Parser -------------------------------
(***************************************************************************)
(* The header parser of observe() (bpf/obserwrt-bpf.c), which classifies a  *)
(* packet, finds its IP header behind the link layer, walks at most         *)
(* MAX_EXT_HDR IPv6 extension headers, reads the transport header and       *)
(* computes what a (GSO) packet adds to its flow; and the simpler parser    *)
(* drop_parse() of the drop tracer (bpf/obserwrt-drops.c) over the same     *)
(* packet.                                                                  *)
(*                                                                          *)
(* A packet is a structure: tags, an IP header, extension headers with      *)
(* their sizes, a transport header.  The parser sees only offsets into it:  *)
(* what it reads at an offset where no header starts is not a header, and   *)
(* it may not read past the linear part of the packet.                      *)
(***************************************************************************)
EXTENDS Naturals, Sequences, FiniteSets, FiniteSetsExt

CONSTANTS
    Packets,      \* the packets that may arrive
    Cuts(_),      \* where the linear part of such a packet may end
    MAX_EXT_HDR   \* extension headers the walk takes at most

VARIABLES
    pkt,      \* the packet being parsed
    pc,       \* the part of observe() to run next
    class,    \* pkt_class() of the packet
    st,       \* the locals of observe(): ip, family, proto, l4, have_l4, iter,
              \* what was read of the transport header, and l4hdr
    out       \* what observe() accounts

vars == <<pkt, pc, class, st, out>>

----------------------------------------------------------------------------
(* What is on the wire *)

TCP == 6
UDP == 17
ICMPs == {1, 58}
FragmentHdr == 44
AH == 51
NoNextHdr == 59
OptionHdrs == {0, 43, 60}   \* Hop-by-Hop, Routing, Destination Options

L2Len(p) == IF p.eth THEN 14 + 4 * Len(p.tags) ELSE 0
IpLen(p) == IF p.ver = 4 THEN p.ihl ELSE 40

\* Offset of the i-th extension header; the transport header follows the last.
\* p.sizes[i] is the size of the extension headers before the i-th.
Start(p, i) == L2Len(p) + IpLen(p) + p.sizes[i]
L4Start(p) == Start(p, Len(p.chain) + 1)

\* The protocol number that leads to the i-th header.
ProtoOfHeader(p, i) == IF i <= Len(p.chain) THEN p.chain[i].type ELSE p.l4.proto

\* A fragment that does not start the datagram: what follows is no header.
NonFirst(h) == h.type = FragmentHdr /\ h.frag_off # 0
LaterFragment(p) ==
    \/ p.ver = 4 /\ p.frag_off # 0
    \/ \E i \in DOMAIN p.chain : NonFirst(p.chain[i])

Segments(p) == Max({p.gso_segs, 1})
HeaderLen(p) == L4Start(p) - L2Len(p) + p.l4.size
SkbLen(p) == L2Len(p) + HeaderLen(p) + p.payload + p.pad

\* Hdr Ext Len as the sender encodes it: 8-octet units beyond the first, for
\* the Authentication Header 4-octet units minus 2.
HdrExtLen(h) == IF h.type = AH THEN (h.size \div 4) - 2 ELSE (h.size \div 8) - 1

\* What is read at an offset: the header that starts there, or noise.
Noise == [nh |-> 255, len |-> 0, frag_off |-> 0]
HeaderAt(p, off) ==
    LET at == {i \in DOMAIN p.chain : Start(p, i) = off} IN
    IF at = {} THEN Noise
    ELSE LET i == CHOOSE j \in at : TRUE IN
         [nh |-> ProtoOfHeader(p, i + 1), len |-> HdrExtLen(p.chain[i]),
          frag_off |-> p.chain[i].frag_off]
VersionAt(p, off) == IF off = L2Len(p) THEN p.ver ELSE 15
L4At(p, off) ==
    IF off = L4Start(p) /\ ~LaterFragment(p) THEN p.l4 ELSE [proto |-> 255, size |-> 0]

\* The n-th EtherType of an Ethernet frame, at 12, 16, 20, ...
EtherType(p, n) == IF n <= Len(p.tags) THEN p.tags[n] ELSE p.etype

OuterTags == {"8021Q", "8021AD", "9100"}
InnerTags == {"8021Q", "8021AD"}

ExtHdr ==
    [type : OptionHdrs \cup {AH, FragmentHdr}, size : Nat, frag_off : Nat]

\* Sizes are what Hdr Ext Len, an octet, can say; only fragments have an offset.
Encodable(h) ==
    /\ h.type \in OptionHdrs => \E n \in 0..255 : h.size = 8 * (n + 1)
    /\ h.type = AH => \E n \in 0..255 : h.size = 4 * (n + 2)
    /\ h.type = FragmentHdr => h.size = 8
    /\ h.type # FragmentHdr => h.frag_off = 0

Skb ==
    [eth : BOOLEAN, tags : Seq(OuterTags), etype : {"IP", "IPV6", "ARP", "other"},
     vlan_present : BOOLEAN, ver : Nat, ihl : Nat, frag_off : Nat, chain : Seq(ExtHdr),
     sizes : Seq(Nat), l4 : [proto : Nat, size : Nat], gso_segs : Nat, pad : Nat, payload : Nat,
     cap : Nat]

\* Only IPv6 has extension headers, what they lead to is none; the network stack
\* makes one packet of several segments from whole datagrams only.
WellFormed(p) ==
    /\ \A i \in DOMAIN p.chain : Encodable(p.chain[i])
    /\ Len(p.sizes) = Len(p.chain) + 1 /\ p.sizes[1] = 0
    /\ \A i \in DOMAIN p.chain : p.sizes[i + 1] = p.sizes[i] + p.chain[i].size
    /\ p.ver # 6 => p.chain = <<>>
    /\ p.ver = 6 => p.l4.proto \notin OptionHdrs \cup {AH, FragmentHdr}
    /\ p.gso_segs > 1 => ~LaterFragment(p)

ASSUME ParserAssumption ==
    /\ MAX_EXT_HDR \in Nat
    /\ Packets \subseteq Skb
    /\ \A p \in Packets : WellFormed(p) /\ Cuts(p) \subseteq Nat

----------------------------------------------------------------------------
(* pkt_class, outer_vlan, ext_next *)

TagsSkipped(p) ==
    IF EtherType(p, 1) \notin OuterTags THEN 0
    ELSE IF EtherType(p, 2) \notin InnerTags THEN 1 ELSE 2

ByEtherType(et) ==
    CASE et = "IP" -> "ipv4" [] et = "IPV6" -> "ipv6" [] et = "ARP" -> "arp" [] OTHER -> "other"

ByVersion(ver) == CASE ver = 4 -> "ipv4" [] ver = 6 -> "ipv6" [] OTHER -> "other"

\* Mutant: the class looks behind one tag only.
pkt_class_one_tag(p) ==
    IF ~p.eth THEN (IF p.cap < 1 THEN "other" ELSE ByVersion(p.ver))
    ELSE LET n == Min({TagsSkipped(p), 1}) IN
         IF p.cap < 14 + 4 * n THEN "other" ELSE ByEtherType(EtherType(p, n + 1))

pkt_class(p) ==
    IF ~p.eth THEN (IF p.cap < 1 THEN "other" ELSE ByVersion(p.ver))
    ELSE LET n == TagsSkipped(p) IN
         IF p.cap < 14 + 4 * n THEN "other" ELSE ByEtherType(EtherType(p, n + 1))

\* The i-th tag from the outside carries VLAN id i; an offloaded tag is the
\* outermost.
VidInPacket(p) == IF p.vlan_present THEN 2 ELSE 1

outer_vlan(p) ==
    IF p.vlan_present THEN 1
    ELSE IF p.cap < 18 \/ EtherType(p, 1) \notin OuterTags THEN 0
    ELSE VidInPacket(p)

\* Mutant: the end of the header is not checked.
ext_next_unchecked(p, off, ah) ==
    LET h == HeaderAt(p, off)
        next == off + IF ah THEN 4 * (h.len + 2) ELSE 8 * (h.len + 1)
    IN IF off + 8 > p.cap THEN [nh |-> 0, l4 |-> off] ELSE [nh |-> h.nh, l4 |-> next]

\* The next header and the offset behind this one; nh = 0 reports a fault.
ext_next(p, off, ah) ==
    LET h == HeaderAt(p, off)
        next == off + IF ah THEN 4 * (h.len + 2) ELSE 8 * (h.len + 1)
    IN IF off + 8 > p.cap \/ next > p.cap THEN [nh |-> 0, l4 |-> off] ELSE [nh |-> h.nh, l4 |-> next]

----------------------------------------------------------------------------
(* observe(), up to the accounting *)

Locals == [ip |-> 0, family |-> 0, proto |-> 0, l4 |-> 0, have_l4 |-> FALSE, iter |-> 0,
           read |-> "none", l4hdr |-> 0]
Ignored == [accounted |-> FALSE]

\* Between packets observe() keeps nothing.
Idle == pc = "idle" /\ pkt = <<>> /\ class = "other" /\ st = Locals /\ out = Ignored

\* A packet reaches the hook: its class is counted first.
Arrive ==
    /\ pc = "idle"
    /\ \E p \in Packets : \E c \in Cuts(p) : pkt' = [p EXCEPT !.cap = c]
    /\ class' = pkt_class(pkt')
    /\ pc' = "l2"
    /\ UNCHANGED <<st, out>>

\* TC_ACT_OK without accounting, or on to the next part.
Ignore == pc' = "done" /\ UNCHANGED <<pkt, class, st, out>>
Go(part, s) == pc' = part /\ st' = s /\ UNCHANGED <<pkt, class, out>>

\* The link layer: EtherType behind up to two tags.
LinkLayer ==
    LET n == TagsSkipped(pkt)
        known == pkt.cap >= 14 + 4 * n /\ EtherType(pkt, n + 1) \in {"IP", "IPV6"}
    IN
    /\ pc = "l2"
    /\ IF pkt.cap < 2 \/ (pkt.eth /\ ~known)
       THEN Ignore
       ELSE Go("l3", [st EXCEPT !.ip = IF pkt.eth THEN 14 + 4 * n ELSE 0])

Readable(n) == st.ip + n <= pkt.cap

\* IPv4: the header length is checked, later fragments have no L4.
Ipv4 ==
    /\ pc = "l3"
    /\ Readable(2) /\ VersionAt(pkt, st.ip) = 4
    /\ IF ~Readable(20) \/ pkt.ihl < 20 \/ ~Readable(pkt.ihl)
       THEN Ignore
       ELSE Go("l4", [st EXCEPT !.family = 4, !.proto = pkt.l4.proto, !.l4 = st.ip + pkt.ihl,
                                !.have_l4 = (pkt.frag_off = 0)])

Ipv6 ==
    /\ pc = "l3"
    /\ Readable(2) /\ VersionAt(pkt, st.ip) = 6
    /\ IF ~Readable(40)
       THEN Ignore
       ELSE Go("ext", [st EXCEPT !.family = 6, !.proto = ProtoOfHeader(pkt, 1), !.l4 = st.ip + 40,
                                 !.have_l4 = TRUE])

NoVersion ==
    /\ pc = "l3"
    /\ Readable(2) => VersionAt(pkt, st.ip) \notin {4, 6}
    /\ Ignore

Walking == pc = "ext" /\ st.iter < MAX_EXT_HDR

\* The walk goes on: an option header or AH.
WalkOption ==
    LET next == ext_next(pkt, st.l4, st.proto = AH) IN
    /\ Walking
    /\ st.proto \in OptionHdrs \cup {AH}
    /\ IF next.nh = 0
       THEN Ignore
       ELSE Go("ext", [st EXCEPT !.proto = next.nh, !.l4 = next.l4, !.iter = @ + 1])

\* ... or a fragment header; behind that of a later fragment there is no L4.
WalkFragment ==
    LET h == HeaderAt(pkt, st.l4)
        behind == [st EXCEPT !.proto = h.nh, !.l4 = @ + 8]
    IN
    /\ Walking
    /\ st.proto = FragmentHdr
    /\ IF st.l4 + 8 > pkt.cap THEN Ignore
       ELSE IF h.frag_off # 0 THEN Go("l4", [behind EXCEPT !.have_l4 = FALSE])
       ELSE Go("ext", [behind EXCEPT !.iter = @ + 1])

\* ... or "no next header", which is not accounted.
WalkNoNext == Walking /\ st.proto = NoNextHdr /\ Ignore

\* Mutant: a walk that ran out of iterations is given up.
WalkEndStrict ==
    /\ pc = "ext"
    /\ IF st.iter = MAX_EXT_HDR THEN Ignore
       ELSE st.proto \notin OptionHdrs \cup {AH, FragmentHdr, NoNextHdr} /\ Go("l4", st)

\* The walk ends at a transport protocol, or at its limit wherever it is.
WalkEnd ==
    /\ pc = "ext"
    /\ st.iter = MAX_EXT_HDR \/ st.proto \notin OptionHdrs \cup {AH, FragmentHdr, NoNextHdr}
    /\ Go("l4", st)

\* Bytes of the transport header that are read.
L4Read(pr) == CASE pr = TCP -> 14 [] pr = UDP -> 4 [] pr \in ICMPs -> 2 [] OTHER -> 0

\* Ports or type and code: read, left at zero, or read from what is no header.
ReadL4(pr, h) ==
    IF pr \notin {TCP, UDP} \cup ICMPs THEN "none"
    ELSE IF h.proto # pr THEN "noise"
    ELSE IF pr \in ICMPs THEN "icmp" ELSE "ports"

\* Mutant: TCP options are left out of the per-segment header.
L4HdrNoOptions(pr, h) == CASE pr = TCP -> 20 [] pr = UDP -> 8 [] OTHER -> 0

\* The header bytes a GSO segment repeats: the TCP data offset, or UDP's 8.
L4Hdr(pr, h) == CASE pr = TCP -> h.size [] pr = UDP -> 8 [] OTHER -> 0

Transport ==
    LET h == L4At(pkt, st.l4) IN
    /\ pc = "l4"
    /\ IF ~st.have_l4 THEN Go("account", st)
       ELSE IF st.l4 + L4Read(st.proto) > pkt.cap THEN Ignore
       ELSE Go("account", [st EXCEPT !.read = ReadL4(st.proto, h), !.l4hdr = L4Hdr(st.proto, h)])

\* L3 octets of the packet, with the headers of every further segment.
Octets(segs) == SkbLen(pkt) - st.ip + (segs - 1) * ((st.l4 - st.ip) + st.l4hdr)

\* What is added to the flow, and the VLAN a new flow gets.
Account ==
    /\ pc = "account"
    /\ out' = [accounted |-> TRUE, family |-> st.family, proto |-> st.proto, read |-> st.read,
               octets |-> Octets(Segments(pkt)),
               vlan_id |-> IF pkt.eth THEN outer_vlan(pkt) ELSE 0]
    /\ pc' = "done"
    /\ UNCHANGED <<pkt, class, st>>

Return ==
    /\ pc = "done"
    /\ pc' = "idle" /\ pkt' = <<>> /\ class' = "other" /\ st' = Locals /\ out' = Ignored

----------------------------------------------------------------------------
(* drop_parse() *)

\* skb->protocol, as the kernel sets it before the network layer.
SkbProtocol(p) ==
    IF p.eth THEN p.etype ELSE CASE p.ver = 4 -> "IP" [] p.ver = 6 -> "IPV6" [] OTHER -> "other"

\* Mutant: ports are read from every fragment.
DropReadsAny(p, pr) == pr \in {TCP, UDP} \cup ICMPs

DropReadsL4(p, pr) == pr \in {TCP, UDP} \cup ICMPs /\ (p.ver = 4 => p.frag_off = 0)

\* The headers are read from kernel memory, which does not end with the packet.
drop_parse(p) ==
    LET et == SkbProtocol(p)
        known == \/ et = "IP" /\ p.ver = 4 /\ p.ihl >= 20
                 \/ et = "IPV6" /\ p.ver = 6
        pr == ProtoOfHeader(p, 1)
        l3len == SkbLen(p) - p.pad - L2Len(p)
    IN IF ~known THEN Ignored
       ELSE [accounted |-> TRUE, family |-> p.ver, proto |-> pr, octets |-> l3len,
             read |-> IF DropReadsL4(p, pr) THEN ReadL4(pr, L4At(p, Start(p, 1))) ELSE "none"]

----------------------------------------------------------------------------

Observe ==
    \/ LinkLayer
    \/ Ipv4
    \/ Ipv6
    \/ NoVersion
    \/ WalkOption
    \/ WalkFragment
    \/ WalkNoNext
    \/ WalkEnd
    \/ Transport
    \/ Account
    \/ Return

Init == Idle
Next == Arrive \/ Observe
Spec == Init /\ [][Next]_vars

----------------------------------------------------------------------------
(* Properties *)

\* The parser never looks outside the part of the packet it has checked, and
\* the walk never takes more than MAX_EXT_HDR headers (obserwrt-bpf.c:307).
TypeOK ==
    /\ pc \in {"idle", "l2", "l3", "ext", "l4", "account", "done"}
    /\ class \in {"ipv4", "ipv6", "arp", "other"}
    /\ st.family \in {0, 4, 6}
    /\ st.iter \in 0..MAX_EXT_HDR
    /\ pc \in {"ext", "l4", "account"} => st.ip < st.l4 /\ st.l4 <= pkt.cap

\* Headers the walk should take: up to the limit, or a later fragment.
Walked(p) ==
    Min({MAX_EXT_HDR, Len(p.chain)} \cup {i \in DOMAIN p.chain : NonFirst(p.chain[i])})

\* It ends at a fragment that does not start the datagram.
Later(p) ==
    IF p.ver = 4 THEN p.frag_off # 0 ELSE Walked(p) > 0 /\ NonFirst(p.chain[Walked(p)])

ProtoBehind(p) == ProtoOfHeader(p, Walked(p) + 1)

\* An EtherType of IP behind at most two tags (obserwrt-bpf.c:16-18).
Framed(p) ==
    p.eth => /\ p.etype \in {"IP", "IPV6"}
             /\ Len(p.tags) <= 2
             /\ Len(p.tags) = 2 => p.tags[2] # "9100"

\* IP, and not malformed: the header length is possible, and Hop-by-Hop Options,
\* which may only come first, follow no other option header or AH.
ProperIp(p) ==
    /\ Framed(p)
    /\ p.ver \in {4, 6}
    /\ p.ver = 4 => p.ihl >= 20
    /\ p.ver = 6 =>
         \A i \in 1..Walked(p) : ProtoOfHeader(p, i + 1) = 0 => p.chain[i].type = FragmentHdr

\* Proper packets that are not accounted all the same: those that end in "no next
\* header" within the limit of the walk (obserwrt-bpf.c:325-326) ...
EndsInNoNext(p) ==
    p.ver = 6 /\ ProtoBehind(p) = NoNextHdr /\ ~Later(p) /\ Walked(p) # MAX_EXT_HDR

\* ... and those with a header, up to what is read of the transport header, past
\* the linear part of the skb (obserwrt-bpf.c:237-357).
HeadersLinear(p) ==
    p.cap >= Start(p, Walked(p) + 1) + IF Later(p) THEN 0 ELSE L4Read(ProtoBehind(p))

Accountable(p) == ProperIp(p) /\ ~EndsInNoNext(p) /\ HeadersLinear(p)

\* What its flow key is.
KeyOf(p) ==
    LET n == IF p.ver = 4 THEN 0 ELSE Walked(p) IN
    [family |-> p.ver,
     proto  |-> ProtoOfHeader(p, n + 1),
     read   |-> IF LaterFragment(p) \/ n < Len(p.chain) THEN "none" ELSE ReadL4(p.l4.proto, p.l4)]

\* The outermost tag, offloaded or not, carries VLAN id 1.
OutermostVid(p) == IF p.eth /\ (p.vlan_present \/ p.tags # <<>>) THEN 1 ELSE 0

\* What enters flow accounting, "all IP, incl. non-first fragments and
\* non-TCP/UDP/ICMP protocols, but excluding ARP / non-IP / malformed"
\* (obserwrt-bpf.h:24-25), is less than that: all proper IP but what ends in no next
\* header or has a header past the linear part.  Exactly these packets are
\* accounted, under the key their structure gives, also when they have more
\* extension headers than the walk takes (obserwrt-bpf.c:307) or are cut anywhere;
\* and the VLAN is the "outer 802.1Q/ad VID" (obserwrt-flow.h:56).
ParsesStructure ==
    pc = "done" =>
      /\ out.accounted <=> Accountable(pkt)
      /\ out.accounted =>
           /\ [family |-> out.family, proto |-> out.proto, read |-> out.read] = KeyOf(pkt)
           /\ out.vlan_id = OutermostVid(pkt)

\* "L3 octets (IP header + payload, as IPFIX octetDeltaCount)" (obserwrt-bpf.c:22):
\* a packet that stands for one adds its IP header and payload.  The code does not
\* keep this for a padded Ethernet frame.
OctetsAreL3 ==
    pc = "done" /\ out.accounted /\ Segments(pkt) = 1 =>
      out.octets = HeaderLen(pkt) + pkt.payload

\* The headers of a segment are known: the walk took all extension headers, and
\* behind them is TCP, or UDP that carries no tunnel.
HeadersKnown(p) ==
    /\ Len(p.chain) <= MAX_EXT_HDR
    /\ p.l4.proto = TCP \/ (p.l4.proto = UDP /\ p.l4.size = 8)

\* "L3 octets (IP header + payload, as IPFIX octetDeltaCount), with the L3/L4
\* headers re-added for every segment beyond the first" (obserwrt-bpf.c:22-23), "the
\* per-segment L3(+ext)/TCP/UDP headers" (design.md:277): without padding, the
\* octets of a packet are those of the segments it stands for on the wire.
OctetsOfSegments ==
    pc = "done" /\ out.accounted /\ pkt.pad = 0 /\ (Segments(pkt) = 1 \/ HeadersKnown(pkt)) =>
      out.octets = Segments(pkt) * HeaderLen(pkt) + pkt.payload

\* The class is found by a second parser that shares nothing with the first
\* (obserwrt-bpf.c:81-83): what is accounted as a flow is never counted as ARP
\* or other.
AccountedIsIp == out.accounted => class \in {"ipv4", "ipv6"}

\* "the flow tuple of a dropped packet" (obserwrt-flow.h:85-86): a packet
\* without extension headers that both parsers take gets the same tuple in the
\* drop map and in the flow map, and the same octets but for Ethernet padding.
DropTupleAgrees ==
    LET drop == drop_parse(pkt) IN
    pc = "done" /\ out.accounted /\ pkt.chain = <<>> /\ drop.accounted =>
        /\ drop.family = out.family /\ drop.proto = out.proto /\ drop.read = out.read
        /\ Segments(pkt) = 1 => out.octets = drop.octets + pkt.pad
=============================================================================
