------------------------------ MODULE MCParser ------------------------------
(* Packets for Parser: every framing around two plain datagrams, and a few    *)
(* framings around every datagram, each cut short around every header.        *)
EXTENDS Parser, SequencesExt

CONSTANT MaxChain  \* extension headers of a packet

Ext(type, size, frag_off) == [type |-> type, size |-> size, frag_off |-> frag_off]
ExtHeaders == {Ext(0, 8, 0), Ext(60, 16, 0), Ext(51, 24, 0), Ext(44, 8, 0), Ext(44, 8, 1)}
Chains == SeqOf(ExtHeaders, MaxChain)

L4s == {[proto |-> 6, size |-> 24], [proto |-> 17, size |-> 8], [proto |-> 58, size |-> 8],
        [proto |-> 59, size |-> 0], [proto |-> 89, size |-> 24],
        [proto |-> 132, size |-> 12],  \* SCTP
        [proto |-> 17, size |-> 58]}   \* UDP that carries a tunnel, with the headers in it

Raw == [eth |-> FALSE, tags |-> <<>>, etype |-> "other", vlan_present |-> FALSE]
Eth(tags, etype, offl) == [eth |-> TRUE, tags |-> tags, etype |-> etype, vlan_present |-> offl]

\* A datagram: version, IPv4 header length and fragment offset, extension
\* headers, transport header.
Datagram(ver, ihl, frag_off, chain, h) ==
    [ver |-> ver, ihl |-> ihl, frag_off |-> frag_off, chain |-> chain, l4 |-> h]

Ipv4s == {Datagram(4, ihl, off, <<>>, h) : ihl \in {16, 20, 24}, off \in {0, 1}, h \in L4s}
Ipv6s == {Datagram(6, 0, 0, c, h) : c \in Chains, h \in L4s}
Plain == {Datagram(4, 20, 0, <<>>, [proto |-> 17, size |-> 8]),
          Datagram(6, 0, 0, <<>>, [proto |-> 6, size |-> 24]),
          Datagram(5, 20, 0, <<>>, [proto |-> 17, size |-> 8])}

Sizes(chain) ==
    [i \in 1..(Len(chain) + 1) |->
       SumFunctionOnSet([j \in DOMAIN chain |-> chain[j].size], 1..(i - 1))]

\* Padding only behind short Ethernet frames, segments only of whole datagrams,
\* ten octets of payload a segment.
Packet(f, d, segs, pad) ==
    [eth |-> f.eth, tags |-> f.tags, etype |-> f.etype, vlan_present |-> f.vlan_present,
     ver |-> d.ver, ihl |-> d.ihl, frag_off |-> d.frag_off, chain |-> d.chain, sizes |-> Sizes(d.chain), l4 |-> d.l4,
     gso_segs |-> segs, pad |-> pad, payload |-> 10 * Max({segs, 1}), cap |-> 0]
Whole(d) == d.frag_off = 0 /\ \A i \in DOMAIN d.chain : d.chain[i].frag_off = 0
Sized(f, d) ==
    {Packet(f, d, 1, 0)}
    \cup (IF Whole(d) /\ d.l4.proto # NoNextHdr /\ d.ver \in {4, 6}
          THEN {Packet(f, d, 0, 0), Packet(f, d, 3, 0)} ELSE {})
    \cup (IF f.eth THEN {Packet(f, d, 1, 6)} ELSE {})

\* The linear part ends anywhere around a header, or holds the whole packet.
Edges(p) ==
    {1, 14, L2Len(p), L2Len(p) + 20, L4Start(p), L4Start(p) + L4Read(p.l4.proto)}
    \cup {Start(p, i) : i \in DOMAIN p.chain}
MCCuts(p) ==
    LET whole == SkbLen(p) IN
    {whole} \cup
    IF p.gso_segs = 1 /\ p.pad = 0
    THEN {c \in UNION {{e - 1, e, e + 1} : e \in Edges(p) \ {0}} : c <= whole} ELSE {}

TagLists == SeqOf({"8021Q", "8021AD", "9100"}, 2) \cup {<<"8021AD", "8021Q", "8021Q">>}
Framings == {Raw} \cup {Eth(t, e, o) : t \in TagLists, e \in {"IP", "IPV6", "ARP", "other"}, o \in BOOLEAN}
FewFramings == {Raw, Eth(<<"8021Q">>, "IPV6", TRUE), Eth(<<>>, "IP", FALSE)}

MCPackets ==
    UNION {Sized(f, d) : f \in Framings, d \in Plain}
    \cup UNION {Sized(f, d) : f \in FewFramings, d \in Ipv4s \cup Ipv6s}
=============================================================================
