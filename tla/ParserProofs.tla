---------------------------- MODULE ParserProofs ----------------------------
(* observe() takes exactly the packets it promises to, under the key that their *)
(* structure gives, for any packets, however many tags and extension headers    *)
(* they have and wherever the linear part ends, and any MAX_EXT_HDR.            *)
EXTENDS Parser, ProofFacts

ExtTypes == OptionHdrs \cup {AH, FragmentHdr}

----------------------------------------------------------------------------
(* The structure of a packet *)

LEMMA SkbType ==
    ASSUME NEW p \in Skb
    PROVE  /\ p.eth \in BOOLEAN /\ p.vlan_present \in BOOLEAN
           /\ p.tags \in Seq(OuterTags) /\ p.etype \in {"IP", "IPV6", "ARP", "other"}
           /\ p.ver \in Nat /\ p.ihl \in Nat /\ p.frag_off \in Nat
           /\ p.chain \in Seq(ExtHdr) /\ p.sizes \in Seq(Nat)
           /\ p.l4 \in [proto : Nat, size : Nat] /\ p.l4.proto \in Nat /\ p.l4.size \in Nat
           /\ p.gso_segs \in Nat /\ p.pad \in Nat /\ p.payload \in Nat /\ p.cap \in Nat
BY DEF Skb

LEMMA ChainType ==
    ASSUME NEW p \in Skb
    PROVE  /\ Len(p.chain) \in Nat /\ DOMAIN p.chain = 1..Len(p.chain)
           /\ \A i \in 1..Len(p.chain) :
                /\ p.chain[i].type \in ExtTypes
                /\ p.chain[i].size \in Nat /\ p.chain[i].frag_off \in Nat
<1>1. p.chain \in Seq(ExtHdr)
  BY SkbType
<1>2. \A i \in 1..Len(p.chain) : p.chain[i] \in ExtHdr
  BY <1>1
<1>3. QED
  BY <1>1, <1>2 DEF ExtHdr, ExtTypes

LEMMA LengthsType ==
    ASSUME NEW p \in Skb
    PROVE  /\ Len(p.tags) \in Nat
           /\ L2Len(p) \in Nat /\ IpLen(p) \in Nat
           /\ p.eth => L2Len(p) = 14 + 4 * Len(p.tags)
           /\ ~p.eth => L2Len(p) = 0
           /\ p.ver = 4 => IpLen(p) = p.ihl
           /\ p.ver # 4 => IpLen(p) = 40
BY SkbType DEF L2Len, IpLen

LEMMA EncodedSize ==
    ASSUME NEW h \in ExtHdr, Encodable(h)
    PROVE  h.size >= 8
<1>1. h.type \in OptionHdrs \/ h.type = AH \/ h.type = FragmentHdr
  BY DEF ExtHdr
<1>2. QED
  BY <1>1 DEF Encodable

LEMMA SeqElement ==
    ASSUME NEW S, NEW s \in Seq(S), NEW j \in 1..Len(s)
    PROVE  s[j] \in S
OBVIOUS

\* A header is behind the one before it, at least 8 octets.
LEMMA StartStep ==
    ASSUME NEW p \in Skb, WellFormed(p), NEW i \in 1..Len(p.chain)
    PROVE  /\ Start(p, i) \in Nat /\ Start(p, i + 1) \in Nat
           /\ p.chain[i].size >= 8
           /\ Start(p, i + 1) = Start(p, i) + p.chain[i].size
<1>1. p.sizes \in Seq(Nat) /\ Len(p.sizes) = Len(p.chain) + 1 /\ Len(p.chain) \in Nat
  BY SkbType, ChainType DEF WellFormed
<1>2. p.sizes[i] \in Nat /\ p.sizes[i + 1] \in Nat
  <2>1. i \in 1..Len(p.sizes) /\ i + 1 \in 1..Len(p.sizes)
    BY <1>1
  <2>2. QED
    BY <1>1, <2>1, SeqElement
<1>3. p.sizes[i + 1] = p.sizes[i] + p.chain[i].size /\ Encodable(p.chain[i])
  BY ChainType DEF WellFormed
<1>4. p.chain[i] \in ExtHdr
  BY SkbType
<1>5. p.chain[i].size >= 8
  BY <1>3, <1>4, EncodedSize
<1>6. L2Len(p) \in Nat /\ IpLen(p) \in Nat /\ p.chain[i].size \in Nat
  BY LengthsType, ChainType
<1> DEFINE a == L2Len(p) + IpLen(p)
           b == p.sizes[i]
           c == p.sizes[i + 1]
           d == p.chain[i].size
<1>7. Start(p, i) = a + b /\ Start(p, i + 1) = a + c
  BY DEF Start
<1>8. a \in Nat /\ b \in Nat /\ c \in Nat /\ d \in Nat /\ d >= 8 /\ c = b + d
  BY <1>2, <1>3, <1>5, <1>6
<1>9. QED
  <2> HIDE DEF a, b, c, d
  <2>1. Start(p, i) \in Nat /\ Start(p, i + 1) \in Nat /\ Start(p, i + 1) = Start(p, i) + d
    BY <1>7, <1>8
  <2>2. QED
    BY <1>5, <2>1 DEF d

LEMMA StartType ==
    ASSUME NEW p \in Skb, WellFormed(p), NEW i \in 1..Len(p.chain) + 1
    PROVE  Start(p, i) \in Nat /\ Start(p, 1) = L2Len(p) + IpLen(p)
<1>1. p.sizes \in Seq(Nat) /\ Len(p.sizes) = Len(p.chain) + 1 /\ Len(p.chain) \in Nat
  BY SkbType, ChainType DEF WellFormed
<1>2. p.sizes[i] \in Nat /\ p.sizes[1] = 0
  <2>1. i \in 1..Len(p.sizes)
    BY <1>1
  <2>2. p.sizes[1] = 0
    BY DEF WellFormed
  <2>3. QED
    BY <1>1, <2>1, <2>2, SeqElement
<1>3. QED
  BY <1>2, LengthsType DEF Start

LEMMA StartGrows ==
    ASSUME NEW p \in Skb, WellFormed(p), NEW i \in 1..Len(p.chain) + 1
    PROVE  \A j \in 1..Len(p.chain) + 1 : i < j => Start(p, i) + 8 <= Start(p, j)
<1> DEFINE F == {j \in 1..Len(p.chain) + 1 : i < j /\ ~(Start(p, i) + 8 <= Start(p, j))}
<1>0. Len(p.chain) \in Nat
  BY ChainType
<1>1. ASSUME F # {} PROVE FALSE
  <2>1. PICK j \in F : \A k \in F : j <= k
    <3>1. F \in SUBSET Nat
      BY <1>0
    <3> HIDE DEF F
    <3>2. QED
      BY <1>1, <3>1, LeastNatural
  <2>2. PICK m \in 1..Len(p.chain) : j = m + 1 /\ i <= m
    BY <1>0, <2>1
  <2>3. Start(p, j) = Start(p, m) + p.chain[m].size /\ p.chain[m].size >= 8
        /\ p.chain[m].size \in Nat /\ Start(p, m) \in Nat
    BY <2>2, StartStep, ChainType
  <2>4. CASE i = m
    BY <2>1, <2>3, <2>4
  <2>5. CASE i # m
    <3>1. m \notin F /\ i < m /\ m \in 1..Len(p.chain) + 1
      BY <1>0, <2>1, <2>2, <2>5
    <3>2. Start(p, i) + 8 <= Start(p, m)
      BY <3>1
    <3>3. Start(p, i) \in Nat
      BY StartType
    <3>4. QED
      BY <2>1, <2>3, <3>2, <3>3
  <2>6. QED
    BY <2>4, <2>5
<1>2. QED
  BY <1>1

\* At the offset where a header starts, that header is read.
LEMMA HeaderFound ==
    ASSUME NEW p \in Skb, WellFormed(p), NEW i \in 1..Len(p.chain)
    PROVE  HeaderAt(p, Start(p, i)) =
             [nh |-> ProtoOfHeader(p, i + 1), len |-> HdrExtLen(p.chain[i]),
              frag_off |-> p.chain[i].frag_off]
<1> DEFINE at == {j \in DOMAIN p.chain : Start(p, j) = Start(p, i)}
<1>1. ASSUME NEW j \in at PROVE j = i
  <2>1. j \in 1..Len(p.chain) /\ Start(p, j) = Start(p, i) /\ Len(p.chain) \in Nat
    BY ChainType
  <2>2. j \in 1..Len(p.chain) + 1 /\ i \in 1..Len(p.chain) + 1
    BY <2>1
  <2>3. Start(p, i) \in Nat
    BY <2>2, StartType
  <2>4. (i < j => Start(p, i) + 8 <= Start(p, j)) /\ (j < i => Start(p, j) + 8 <= Start(p, i))
    BY <2>2, StartGrows
  <2>5. QED
    BY <2>1, <2>3, <2>4
<1>2. i \in at
  BY ChainType
<1>3. (CHOOSE j \in at : TRUE) = i
  <2> HIDE DEF at
  <2> QED
    BY <1>1, <1>2
<1>4. QED
  BY <1>2, <1>3 DEF HeaderAt

\* Hdr Ext Len decoded is the size of the header.
LEMMA SizeDecoded ==
    ASSUME NEW h \in ExtHdr, Encodable(h), h.type \in OptionHdrs \cup {AH}
    PROVE  h.size = IF h.type = AH THEN 4 * (HdrExtLen(h) + 2) ELSE 8 * (HdrExtLen(h) + 1)
<1>1. CASE h.type = AH
  <2>1. PICK n \in 0..255 : h.size = 4 * (n + 2)
    BY <1>1 DEF Encodable
  <2>2. h.size \div 4 = n + 2
    BY <2>1
  <2>3. QED
    BY <1>1, <2>1, <2>2 DEF HdrExtLen
<1>2. CASE h.type # AH
  <2>1. PICK n \in 0..255 : h.size = 8 * (n + 1)
    BY <1>2 DEF Encodable
  <2>2. h.size \div 8 = n + 1
    BY <2>1
  <2>3. QED
    BY <1>2, <2>1, <2>2 DEF HdrExtLen
<1>3. QED
  BY <1>1, <1>2

LEMMA ProtoType ==
    ASSUME NEW p \in Skb, NEW i \in 1..Len(p.chain) + 1
    PROVE  /\ ProtoOfHeader(p, i) \in Nat
           /\ i <= Len(p.chain) => /\ ProtoOfHeader(p, i) = p.chain[i].type
                                  /\ ProtoOfHeader(p, i) \in ExtTypes
           /\ i = Len(p.chain) + 1 => ProtoOfHeader(p, i) = p.l4.proto
<1>1. Len(p.chain) \in Nat /\ p.l4.proto \in Nat
  BY SkbType, ChainType
<1>2. CASE i <= Len(p.chain)
  <2>1. ProtoOfHeader(p, i) = p.chain[i].type /\ p.chain[i].type \in ExtTypes
    BY <1>1, <1>2, ChainType DEF ProtoOfHeader
  <2>2. QED
    BY <1>1, <1>2, <2>1 DEF ExtTypes, OptionHdrs, AH, FragmentHdr
<1>3. CASE i = Len(p.chain) + 1
  BY <1>1, <1>3 DEF ProtoOfHeader
<1>4. QED
  BY <1>1, <1>2, <1>3

\* ext_next() at a header moves to the next one, or reports that the linear part
\* of the packet ends before it.
LEMMA ExtNext ==
    ASSUME NEW p \in Skb, WellFormed(p), NEW i \in 1..Len(p.chain),
           p.chain[i].type \in OptionHdrs \cup {AH}
    PROVE  ext_next(p, Start(p, i), p.chain[i].type = AH) =
             IF Start(p, i + 1) > p.cap THEN [nh |-> 0, l4 |-> Start(p, i)]
             ELSE [nh |-> ProtoOfHeader(p, i + 1), l4 |-> Start(p, i + 1)]
<1> DEFINE h == HeaderAt(p, Start(p, i))
<1>1. h.nh = ProtoOfHeader(p, i + 1) /\ h.len = HdrExtLen(p.chain[i])
  BY HeaderFound
<1>2. p.chain[i] \in ExtHdr /\ Encodable(p.chain[i])
  BY SkbType, ChainType DEF WellFormed
<1>3. p.chain[i].size = IF p.chain[i].type = AH THEN 4 * (h.len + 2) ELSE 8 * (h.len + 1)
  BY <1>1, <1>2, SizeDecoded
<1>4. /\ Start(p, i) \in Nat /\ p.chain[i].size >= 8 /\ p.chain[i].size \in Nat /\ p.cap \in Nat
      /\ Start(p, i + 1) = Start(p, i) + p.chain[i].size
  BY StartStep, ChainType, SkbType
<1> HIDE DEF h
<1>5. ext_next(p, Start(p, i), p.chain[i].type = AH) =
        IF Start(p, i) + 8 > p.cap \/ Start(p, i) + p.chain[i].size > p.cap
        THEN [nh |-> 0, l4 |-> Start(p, i)]
        ELSE [nh |-> h.nh, l4 |-> Start(p, i) + p.chain[i].size]
  BY <1>3 DEF ext_next, h
<1>6. QED
  BY <1>1, <1>4, <1>5

----------------------------------------------------------------------------
(* Where the walk ends *)

\* No header before the n-th extension header ends the walk.
WalkedIs(p, n) ==
    /\ n \in Nat /\ n <= MAX_EXT_HDR /\ n <= Len(p.chain)
    /\ \A i \in 1..Len(p.chain) : NonFirst(p.chain[i]) => n <= i
    /\ n = MAX_EXT_HDR \/ n = Len(p.chain) \/ (n > 0 /\ NonFirst(p.chain[n]))

LEMMA WalkedFits ==
    ASSUME NEW p \in Skb
    PROVE  WalkedIs(p, Walked(p))
<1> DEFINE S == {MAX_EXT_HDR, Len(p.chain)} \cup {i \in DOMAIN p.chain : NonFirst(p.chain[i])}
<1>1. Len(p.chain) \in Nat /\ DOMAIN p.chain = 1..Len(p.chain) /\ MAX_EXT_HDR \in Nat
  BY ChainType, ParserAssumption
<1>2. S \in SUBSET Nat /\ S # {}
  BY <1>1
<1>3. Min(S) \in S /\ \A y \in S : Min(S) <= y
  <2> HIDE DEF S
  <2> QED
    BY <1>2, MinProperty
<1>4. Walked(p) = Min(S)
  BY DEF Walked
<1>5. QED
  BY <1>1, <1>3, <1>4 DEF WalkedIs

\* The walk's end is the only such place.
LEMMA WalkedUnique ==
    ASSUME NEW p \in Skb, NEW n, WalkedIs(p, n)
    PROVE  Walked(p) = n
<1>1. WalkedIs(p, Walked(p)) /\ Len(p.chain) \in Nat /\ MAX_EXT_HDR \in Nat
  BY WalkedFits, ChainType, ParserAssumption
<1> DEFINE m == Walked(p)
<1> HIDE DEF m
<1>2. WalkedIs(p, m)
  BY <1>1 DEF m
<1>3. m <= n
  BY <1>1, <1>2 DEF WalkedIs
<1>4. n <= m
  BY <1>1, <1>2 DEF WalkedIs
<1>5. QED
  BY <1>2, <1>3, <1>4 DEF m, WalkedIs

----------------------------------------------------------------------------
(* What makes a packet accountable, part by part *)

\* No header that the walk leaves behind leads to what ext_next() takes for a fault.
NoZero(p, n) == \A i \in 1..n : ProtoOfHeader(p, i + 1) = 0 => p.chain[i].type = FragmentHdr

Headed(p) ==
    /\ p.ver \in {4, 6}
    /\ p.ver = 4 => p.ihl >= 20
    /\ p.ver = 6 => /\ NoZero(p, Walked(p))
                    /\ ProtoBehind(p) = NoNextHdr => Later(p) \/ Walked(p) = MAX_EXT_HDR

LEMMA Version4 ==
    ASSUME NEW p \in Skb, WellFormed(p), p.ver # 6
    PROVE  /\ Len(p.chain) = 0 /\ Walked(p) = 0
           /\ ProtoOfHeader(p, Walked(p) + 1) = p.l4.proto
           /\ p.ver = 4 => (LaterFragment(p) <=> p.frag_off # 0)
<1>1. p.chain = <<>> /\ Len(p.chain) = 0 /\ DOMAIN p.chain = {}
  BY DEF WellFormed
<1>2. WalkedIs(p, Walked(p))
  BY WalkedFits
<1>3. Walked(p) = 0
  BY <1>1, <1>2 DEF WalkedIs
<1>4. ProtoOfHeader(p, 1) = p.l4.proto
  BY <1>1 DEF ProtoOfHeader
<1>5. LaterFragment(p) <=> (p.ver = 4 /\ p.frag_off # 0)
  BY <1>1 DEF LaterFragment
<1>6. QED
  BY <1>1, <1>3, <1>4, <1>5

LEMMA AccountableIs ==
    ASSUME NEW p \in Skb, WellFormed(p)
    PROVE  Accountable(p) <=>
             /\ Framed(p)
             /\ Headed(p)
             /\ p.cap >= Start(p, Walked(p) + 1) + (IF Later(p) THEN 0 ELSE L4Read(ProtoBehind(p)))
<1>1. CASE p.ver = 4
  BY <1>1, Version4 DEF Accountable, ProperIp, EndsInNoNext, HeadersLinear, Headed
<1>2. CASE p.ver = 6
  BY <1>2 DEF Accountable, ProperIp, EndsInNoNext, HeadersLinear, Headed, NoZero
<1>3. CASE p.ver \notin {4, 6}
  BY <1>3 DEF Accountable, ProperIp, Headed
<1>4. QED
  BY <1>1, <1>2, <1>3

\* Behind the tags that observe() and pkt_class() skip is the EtherType of IP
\* exactly in the frames that are promised to be accounted.
LEMMA TagsFit ==
    ASSUME NEW p \in Skb
    PROVE  LET n == TagsSkipped(p) IN
           /\ n \in 0..2
           /\ EtherType(p, n + 1) \in {"IP", "IPV6"} <=>
                /\ p.etype \in {"IP", "IPV6"}
                /\ Len(p.tags) <= 2
                /\ Len(p.tags) = 2 => p.tags[2] # "9100"
           /\ EtherType(p, n + 1) \in {"IP", "IPV6"} => n = Len(p.tags)
<1>1. p.tags \in Seq(OuterTags) /\ Len(p.tags) \in Nat /\ p.etype \in {"IP", "IPV6", "ARP", "other"}
  BY SkbType
<1>2. \A i \in 1..Len(p.tags) : p.tags[i] \in {"8021Q", "8021AD", "9100"}
  BY <1>1 DEF OuterTags
<1>3. CASE Len(p.tags) = 0
  BY <1>1, <1>3 DEF TagsSkipped, EtherType, OuterTags, InnerTags
<1>4. CASE Len(p.tags) = 1
  BY <1>1, <1>2, <1>4 DEF TagsSkipped, EtherType, OuterTags, InnerTags
<1>5. CASE Len(p.tags) = 2
  BY <1>1, <1>2, <1>5 DEF TagsSkipped, EtherType, OuterTags, InnerTags
<1>6. CASE Len(p.tags) > 2
  BY <1>1, <1>2, <1>6 DEF TagsSkipped, EtherType, OuterTags, InnerTags
<1>7. Len(p.tags) = 0 \/ Len(p.tags) = 1 \/ Len(p.tags) = 2 \/ Len(p.tags) > 2
  <2> DEFINE n == Len(p.tags)
  <2>1. n \in Nat
    BY <1>1
  <2> HIDE DEF n
  <2>2. n = 0 \/ n = 1 \/ n = 2 \/ n > 2
    BY <2>1
  <2>3. QED
    BY <2>2 DEF n
<1>8. QED
  BY <1>3, <1>4, <1>5, <1>6, <1>7

\* An accountable packet is long enough for what the link layer looks at.
LEMMA AccountableLength ==
    ASSUME NEW p \in Skb, WellFormed(p), Accountable(p)
    PROVE  p.cap >= L2Len(p) + 20 /\ p.cap \in Nat /\ L2Len(p) \in Nat
<1>1. Headed(p) /\ p.cap >= Start(p, Walked(p) + 1) + (IF Later(p) THEN 0 ELSE L4Read(ProtoBehind(p)))
  BY AccountableIs
<1>2. WalkedIs(p, Walked(p)) /\ Len(p.chain) \in Nat
  BY WalkedFits, ChainType
<1> DEFINE n == Walked(p) + 1
<1>3. n \in 1..Len(p.chain) + 1 /\ 1 \in 1..Len(p.chain) + 1
  BY <1>2 DEF WalkedIs
<1> HIDE DEF n
<1>4. Start(p, n) \in Nat /\ Start(p, 1) \in Nat /\ Start(p, 1) = L2Len(p) + IpLen(p)
  BY <1>3, StartType
<1>5. Start(p, n) >= Start(p, 1)
  BY <1>2, <1>3, <1>4, StartGrows
<1>6. L2Len(p) \in Nat /\ IpLen(p) \in Nat /\ IpLen(p) >= 20 /\ p.cap \in Nat
  BY <1>1, LengthsType, SkbType DEF Headed
<1>7. L4Read(ProtoBehind(p)) \in Nat
  BY DEF L4Read, TCP, UDP, ICMPs
<1>8. p.cap >= Start(p, n)
  BY <1>1, <1>4, <1>6, <1>7 DEF n
<1>9. QED
  BY <1>4, <1>5, <1>6, <1>8

\* The class counter agrees: an accountable packet is IP.
LEMMA AccountableClass ==
    ASSUME NEW p \in Skb, WellFormed(p), Accountable(p)
    PROVE  pkt_class(p) \in {"ipv4", "ipv6"}
<1>1. p.cap >= L2Len(p) + 20 /\ p.cap \in Nat /\ L2Len(p) \in Nat /\ Framed(p) /\ p.ver \in {4, 6}
  BY AccountableLength, AccountableIs DEF Headed
<1>2. CASE p.eth
  <2>1. TagsSkipped(p) = Len(p.tags) /\ EtherType(p, TagsSkipped(p) + 1) \in {"IP", "IPV6"}
    BY <1>1, <1>2, TagsFit DEF Framed
  <2>2. L2Len(p) = 14 + 4 * Len(p.tags) /\ Len(p.tags) \in Nat
    BY <1>2, LengthsType
  <2>3. ~(p.cap < 14 + 4 * TagsSkipped(p))
    BY <1>1, <2>1, <2>2
  <2>4. pkt_class(p) = ByEtherType(EtherType(p, TagsSkipped(p) + 1))
    BY <1>2, <2>3 DEF pkt_class
  <2>5. QED
    BY <2>1, <2>4 DEF ByEtherType
<1>3. CASE ~p.eth
  <2>1. ~(p.cap < 1)
    BY <1>1
  <2>2. pkt_class(p) = ByVersion(p.ver)
    BY <1>3, <2>1 DEF pkt_class
  <2>3. QED
    BY <1>1, <2>2 DEF ByVersion
<1>4. QED
  BY <1>2, <1>3

\* ... and its VLAN is that of the outermost tag.
LEMMA AccountableVlan ==
    ASSUME NEW p \in Skb, WellFormed(p), Accountable(p)
    PROVE  (IF p.eth THEN outer_vlan(p) ELSE 0) = OutermostVid(p)
<1>1. p.cap >= L2Len(p) + 20 /\ p.cap \in Nat
  BY AccountableLength
<1>2. p.tags \in Seq(OuterTags) /\ Len(p.tags) \in Nat /\ p.etype \in {"IP", "IPV6", "ARP", "other"}
  BY SkbType
<1>3. CASE p.eth /\ Len(p.tags) > 0
  <2>1. EtherType(p, 1) \in OuterTags
    BY <1>2, <1>3 DEF EtherType
  <2>2. L2Len(p) = 14 + 4 * Len(p.tags)
    BY <1>3, LengthsType
  <2>3. ~(p.cap < 18) /\ p.tags # <<>>
    BY <1>1, <1>2, <1>3, <2>2
  <2>4. QED
    BY <1>3, <2>1, <2>3 DEF outer_vlan, VidInPacket, OutermostVid
<1>4. CASE p.eth /\ Len(p.tags) = 0
  <2>1. EtherType(p, 1) \notin OuterTags /\ p.tags = <<>>
    BY <1>2, <1>4 DEF EtherType, OuterTags
  <2>2. QED
    BY <1>4, <2>1 DEF outer_vlan, VidInPacket, OutermostVid
<1>5. CASE ~p.eth
  BY <1>5 DEF OutermostVid
<1>6. QED
  BY <1>2, <1>3, <1>4, <1>5

----------------------------------------------------------------------------
(* What observe() knows of the packet at each of its parts *)

LocalsType ==
    [ip : Nat, family : {0, 4, 6}, proto : Nat, l4 : Nat, have_l4 : BOOLEAN,
     iter : 0..MAX_EXT_HDR, read : {"none", "noise", "icmp", "ports"}, l4hdr : Nat]

AtNetwork(p, s) == Framed(p) /\ s.ip = L2Len(p) /\ s.iter = 0 /\ s.read = "none" /\ s.l4hdr = 0

AtExtension(p, s) ==
    /\ Framed(p) /\ p.ver = 6
    /\ s.ip = L2Len(p) /\ s.family = 6 /\ s.have_l4 /\ s.read = "none" /\ s.l4hdr = 0
    /\ s.iter <= Len(p.chain)
    /\ s.proto = ProtoOfHeader(p, s.iter + 1)
    /\ s.l4 = Start(p, s.iter + 1) /\ s.l4 <= p.cap
    /\ \A i \in 1..s.iter : ~NonFirst(p.chain[i])
    /\ NoZero(p, s.iter)

AtTransport(p, s) ==
    /\ Framed(p) /\ Headed(p)
    /\ s.ip = L2Len(p) /\ s.family = p.ver
    /\ s.proto = ProtoBehind(p)
    /\ s.l4 = Start(p, Walked(p) + 1) /\ s.l4 <= p.cap
    /\ s.have_l4 <=> ~Later(p)

AtAccount(p, s) ==
    /\ AtTransport(p, s)
    /\ Later(p) => s.read = "none" /\ s.l4hdr = 0
    /\ ~Later(p) => /\ s.l4 + L4Read(s.proto) <= p.cap
                    /\ s.read = ReadL4(s.proto, L4At(p, s.l4))
                    /\ s.l4hdr = L4Hdr(s.proto, L4At(p, s.l4))

LEMMA LocalsFit ==
    ASSUME NEW s \in LocalsType
    PROVE  /\ s.ip \in Nat /\ s.family \in {0, 4, 6} /\ s.proto \in Nat /\ s.l4 \in Nat
           /\ s.have_l4 \in BOOLEAN /\ s.iter \in 0..MAX_EXT_HDR /\ s.l4hdr \in Nat
           /\ s.read \in {"none", "noise", "icmp", "ports"}
BY DEF LocalsType

LEMMA LinkStep ==
    ASSUME NEW p \in Skb, WellFormed(p)
    PROVE  LET n == TagsSkipped(p)
               known == p.cap >= 14 + 4 * n /\ EtherType(p, n + 1) \in {"IP", "IPV6"}
           IN IF p.cap < 2 \/ (p.eth /\ ~known)
              THEN ~Accountable(p)
              ELSE Framed(p) /\ (IF p.eth THEN 14 + 4 * n ELSE 0) = L2Len(p)
<1> DEFINE n == TagsSkipped(p)
           ip == EtherType(p, n + 1) \in {"IP", "IPV6"}
<1>1. Accountable(p) => p.cap >= L2Len(p) + 20 /\ Framed(p)
  BY AccountableLength, AccountableIs
<1>2. p.cap \in Nat /\ L2Len(p) \in Nat /\ Len(p.tags) \in Nat
  BY SkbType, LengthsType
<1>3. p.eth => (ip <=> Framed(p)) /\ (ip => n = Len(p.tags)) /\ L2Len(p) = 14 + 4 * Len(p.tags)
  BY TagsFit, LengthsType DEF Framed
<1>4. ~p.eth => Framed(p) /\ L2Len(p) = 0
  BY LengthsType DEF Framed
<1> SUFFICES IF p.cap < 2 \/ (p.eth /\ ~(p.cap >= 14 + 4 * n /\ ip))
             THEN ~Accountable(p)
             ELSE Framed(p) /\ (IF p.eth THEN 14 + 4 * n ELSE 0) = L2Len(p)
  OBVIOUS
<1> HIDE DEF n, ip
<1>5. CASE p.eth
  BY <1>1, <1>2, <1>3, <1>5
<1>6. CASE ~p.eth
  BY <1>1, <1>2, <1>4, <1>6
<1>7. QED
  BY <1>5, <1>6

LEMMA VersionRead ==
    ASSUME NEW p
    PROVE  VersionAt(p, L2Len(p)) = p.ver
BY DEF VersionAt

EnterIpv4(p, s) ==
    [s EXCEPT !.family = 4, !.proto = p.l4.proto, !.l4 = s.ip + p.ihl, !.have_l4 = (p.frag_off = 0)]

LEMMA Ipv4Step ==
    ASSUME NEW p \in Skb, WellFormed(p), NEW s \in LocalsType, AtNetwork(p, s), p.ver = 4,
           NEW t, t = EnterIpv4(p, s)
    PROVE  IF s.ip + 20 > p.cap \/ p.ihl < 20 \/ s.ip + p.ihl > p.cap
           THEN ~Accountable(p)
           ELSE t \in LocalsType /\ AtTransport(p, t) /\ t.read = "none" /\ t.l4hdr = 0
<1>1. /\ s.ip = L2Len(p) /\ L2Len(p) \in Nat /\ p.ihl \in Nat /\ p.cap \in Nat
      /\ IpLen(p) = p.ihl /\ Len(p.chain) = 0 /\ Walked(p) = 0 /\ p.l4.proto \in Nat
      /\ ProtoBehind(p) = p.l4.proto
  BY SkbType, LengthsType, Version4 DEF AtNetwork, ProtoBehind
<1>2. Start(p, 1) = L2Len(p) + p.ihl
  BY <1>1, StartType
<1>3. Accountable(p) => p.ihl >= 20 /\ p.cap >= L2Len(p) + p.ihl
  <2>1. L4Read(ProtoBehind(p)) \in Nat
    BY DEF L4Read, TCP, UDP, ICMPs
  <2>2. Accountable(p) => /\ Headed(p)
                          /\ p.cap >= Start(p, 1) + (IF Later(p) THEN 0 ELSE L4Read(ProtoBehind(p)))
    BY <1>1, AccountableIs
  <2>3. QED
    BY <1>1, <1>2, <2>1, <2>2 DEF Headed
<1>4. /\ t \in LocalsType
      /\ t.ip = s.ip /\ t.family = 4 /\ t.proto = p.l4.proto /\ t.l4 = s.ip + p.ihl
      /\ t.have_l4 = (p.frag_off = 0) /\ t.read = s.read /\ t.l4hdr = s.l4hdr
  <2> DEFINE l == s.ip + p.ihl
             b == p.frag_off = 0
  <2>1. l \in Nat /\ b \in BOOLEAN
    BY <1>1
  <2>2. t = [s EXCEPT !.family = 4, !.proto = p.l4.proto, !.l4 = l, !.have_l4 = b]
    BY DEF EnterIpv4
  <2> HIDE DEF l, b
  <2>3. t = [ip |-> s.ip, family |-> 4, proto |-> p.l4.proto, l4 |-> l, have_l4 |-> b,
             iter |-> s.iter, read |-> s.read, l4hdr |-> s.l4hdr]
    BY <2>2 DEF LocalsType
  <2>4. t \in LocalsType
    BY <1>1, <2>1, <2>3, LocalsFit DEF LocalsType
  <2>5. QED
    BY <2>3, <2>4 DEF l, b
<1>5. Framed(p) /\ t.read = "none" /\ t.l4hdr = 0
  BY <1>4 DEF AtNetwork
<1>6. ASSUME p.ihl >= 20, s.ip + p.ihl <= p.cap PROVE AtTransport(p, t)
  <2>1. Headed(p)
    BY <1>6 DEF Headed
  <2>2. t.have_l4 <=> ~Later(p)
    BY <1>4 DEF Later
  <2>3. t.l4 = Start(p, Walked(p) + 1) /\ t.l4 <= p.cap
    BY <1>1, <1>2, <1>4, <1>6
  <2>4. QED
    BY <1>1, <1>4, <1>5, <2>1, <2>2, <2>3 DEF AtTransport
<1>7. QED
  BY <1>1, <1>3, <1>4, <1>5, <1>6

LEMMA Ipv6Step ==
    ASSUME NEW p \in Skb, WellFormed(p), NEW s \in LocalsType, AtNetwork(p, s), p.ver = 6,
           NEW t, t = [s EXCEPT !.family = 6, !.proto = ProtoOfHeader(p, 1), !.l4 = s.ip + 40,
                                !.have_l4 = TRUE]
    PROVE  IF s.ip + 40 > p.cap THEN ~Accountable(p)
           ELSE t \in LocalsType /\ AtExtension(p, t)
<1>1. /\ s.ip = L2Len(p) /\ L2Len(p) \in Nat /\ p.cap \in Nat /\ IpLen(p) = 40
      /\ Len(p.chain) \in Nat
  BY SkbType, LengthsType, ChainType DEF AtNetwork
<1>2. Start(p, 1) = L2Len(p) + 40 /\ ProtoOfHeader(p, 1) \in Nat
  BY <1>1, StartType, ProtoType
<1>3. Accountable(p) => p.cap >= L2Len(p) + 40
  <2>1. L4Read(ProtoBehind(p)) \in Nat
    BY DEF L4Read, TCP, UDP, ICMPs
  <2> DEFINE n == Walked(p) + 1
  <2>2. n \in 1..Len(p.chain) + 1 /\ 1 \in 1..Len(p.chain) + 1
    BY <1>1, WalkedFits DEF WalkedIs
  <2>3. Start(p, n) \in Nat /\ Start(p, 1) \in Nat /\ Start(p, n) >= Start(p, 1)
    <3> HIDE DEF n
    <3>1. Start(p, n) \in Nat /\ Start(p, 1) \in Nat
      BY <2>2, StartType
    <3>2. 1 < n => Start(p, 1) + 8 <= Start(p, n)
      BY <2>2, StartGrows
    <3>3. QED
      BY <1>1, <2>2, <3>1, <3>2
  <2>4. Accountable(p) => p.cap >= Start(p, Walked(p) + 1) + (IF Later(p) THEN 0 ELSE L4Read(ProtoBehind(p)))
    BY AccountableIs
  <2>5. QED
    BY <1>1, <1>2, <2>1, <2>3, <2>4
<1>4. s.ip + 40 \in Nat
  BY <1>1
<1>5. /\ t \in LocalsType
      /\ t.ip = s.ip /\ t.family = 6 /\ t.proto = ProtoOfHeader(p, 1) /\ t.l4 = s.ip + 40
      /\ t.have_l4 = TRUE /\ t.read = s.read /\ t.l4hdr = s.l4hdr /\ t.iter = s.iter
  <2> DEFINE l == s.ip + 40
             pr == ProtoOfHeader(p, 1)
  <2>1. l \in Nat /\ pr \in Nat
    BY <1>2, <1>4
  <2>2. t = [s EXCEPT !.family = 6, !.proto = pr, !.l4 = l, !.have_l4 = TRUE]
    OBVIOUS
  <2> HIDE DEF l, pr
  <2>3. t = [ip |-> s.ip, family |-> 6, proto |-> pr, l4 |-> l, have_l4 |-> TRUE,
             iter |-> s.iter, read |-> s.read, l4hdr |-> s.l4hdr]
    BY <2>2 DEF LocalsType
  <2>4. t \in LocalsType
    BY <2>1, <2>3, LocalsFit DEF LocalsType
  <2>5. QED
    BY <2>3, <2>4 DEF l, pr
<1>6. t.iter = 0 /\ NoZero(p, 0)
  BY <1>5 DEF AtNetwork, NoZero
<1>7. ASSUME s.ip + 40 <= p.cap PROVE AtExtension(p, t)
  BY <1>1, <1>2, <1>5, <1>6, <1>7 DEF AtExtension, AtNetwork
<1>8. QED
  BY <1>1, <1>3, <1>5, <1>7

----------------------------------------------------------------------------
(* The walk over the extension headers *)

\* Headers that are no later fragment, within the limit, do not end the walk.
LEMMA WalkGoesOn ==
    ASSUME NEW p \in Skb, NEW n \in Nat, n <= MAX_EXT_HDR, n <= Len(p.chain),
           \A j \in 1..n - 1 : ~NonFirst(p.chain[j])
    PROVE  n <= Walked(p)
<1> DEFINE m == Walked(p)
<1>1. WalkedIs(p, m) /\ Len(p.chain) \in Nat /\ MAX_EXT_HDR \in Nat
  BY WalkedFits, ChainType, ParserAssumption
<1> HIDE DEF m
<1>2. n <= m
  BY <1>1 DEF WalkedIs
<1>3. QED
  BY <1>2 DEF m

\* What the walk leaves behind of an accountable packet.
LEMMA AccountableWalk ==
    ASSUME NEW p \in Skb, WellFormed(p), p.ver = 6, Accountable(p), NEW i \in 1..Walked(p)
    PROVE  /\ Start(p, i + 1) <= p.cap
           /\ ProtoOfHeader(p, i + 1) = 0 => p.chain[i].type = FragmentHdr
<1> DEFINE m == Walked(p)
<1>1. WalkedIs(p, m) /\ Len(p.chain) \in Nat /\ p.cap \in Nat
  BY WalkedFits, ChainType, SkbType
<1>2. Headed(p) /\ p.cap >= Start(p, m + 1) + (IF Later(p) THEN 0 ELSE L4Read(ProtoBehind(p)))
  BY AccountableIs
<1>3. NoZero(p, m)
  BY <1>2 DEF Headed
<1> HIDE DEF m
<1>4. i \in 1..m /\ i + 1 \in 1..Len(p.chain) + 1 /\ m + 1 \in 1..Len(p.chain) + 1 /\ i + 1 <= m + 1
  BY <1>1 DEF WalkedIs, m
<1>5. Start(p, i + 1) \in Nat /\ Start(p, m + 1) \in Nat /\ Start(p, i + 1) <= Start(p, m + 1)
  BY <1>4, StartType, StartGrows
<1>6. L4Read(ProtoBehind(p)) \in Nat
  BY DEF L4Read, TCP, UDP, ICMPs
<1>7. QED
  BY <1>1, <1>2, <1>3, <1>4, <1>5, <1>6 DEF NoZero

\* While the protocol is that of an extension header, such a header is there.
LEMMA HeaderReached ==
    ASSUME NEW p \in Skb, WellFormed(p), NEW s \in LocalsType, AtExtension(p, s),
           s.iter < MAX_EXT_HDR, s.proto \in ExtTypes
    PROVE  /\ s.iter + 1 \in 1..Len(p.chain) /\ s.iter + 1 \in 1..Walked(p)
           /\ p.chain[s.iter + 1].type = s.proto
           /\ s.l4 = Start(p, s.iter + 1)
<1> DEFINE i == s.iter + 1
<1>1. /\ s.iter \in Nat /\ MAX_EXT_HDR \in Nat /\ Len(p.chain) \in Nat
      /\ s.iter <= Len(p.chain) /\ s.proto = ProtoOfHeader(p, i) /\ s.l4 = Start(p, i)
      /\ \A j \in 1..s.iter : ~NonFirst(p.chain[j])
  BY LocalsFit, ChainType, ParserAssumption DEF AtExtension
<1>2. i \in 1..Len(p.chain) + 1
  BY <1>1
<1>3. i # Len(p.chain) + 1
  <2>1. p.l4.proto \notin ExtTypes
    BY DEF WellFormed, AtExtension, ExtTypes
  <2>2. QED
    BY <1>1, <1>2, <2>1, ProtoType
<1>4. i \in 1..Len(p.chain) /\ i \in Nat /\ i <= MAX_EXT_HDR /\ i - 1 = s.iter
  BY <1>1, <1>2, <1>3
<1> HIDE DEF i
<1>5. p.chain[i].type = s.proto
  BY <1>1, <1>2, <1>4, ProtoType
<1>6. i <= Walked(p)
  BY <1>1, <1>4, WalkGoesOn
<1>7. Walked(p) \in Nat
  BY WalkedFits DEF WalkedIs
<1>8. i \in 1..Walked(p)
  BY <1>1, <1>4, <1>6, <1>7
<1>9. QED
  BY <1>1, <1>4, <1>5, <1>8 DEF i

\* Past a header that does not end the walk.
LEMMA Advanced ==
    ASSUME NEW p \in Skb, WellFormed(p), NEW s \in LocalsType, AtExtension(p, s),
           NEW i, i = s.iter + 1, i \in 1..Len(p.chain), ~NonFirst(p.chain[i]),
           Start(p, i + 1) <= p.cap,
           ProtoOfHeader(p, i + 1) = 0 => p.chain[i].type = FragmentHdr
    PROVE  /\ i <= Len(p.chain)
           /\ \A j \in 1..i : ~NonFirst(p.chain[j])
           /\ NoZero(p, i)
<1>1. s.iter \in Nat /\ Len(p.chain) \in Nat
  BY LocalsFit, ChainType, ParserAssumption
<1>2. \A j \in 1..i : j \in 1..s.iter \/ j = i
  BY <1>1
<1>3. \A j \in 1..i : ~NonFirst(p.chain[j])
  BY <1>2 DEF AtExtension
<1>4. NoZero(p, i)
  BY <1>2 DEF AtExtension, NoZero
<1>5. QED
  BY <1>1, <1>3, <1>4

Moved(s, pr, l, i) == [s EXCEPT !.proto = pr, !.l4 = l, !.iter = i]

MovedTo(t, s, pr, l, i) ==
    /\ t \in LocalsType
    /\ t.ip = s.ip /\ t.family = s.family /\ t.have_l4 = s.have_l4
    /\ t.read = s.read /\ t.l4hdr = s.l4hdr
    /\ t.proto = pr /\ t.l4 = l /\ t.iter = i

LEMMA MovedFits ==
    ASSUME NEW s \in LocalsType, NEW pr \in Nat, NEW l \in Nat, NEW i \in 0..MAX_EXT_HDR
    PROVE  MovedTo(Moved(s, pr, l, i), s, pr, l, i)
<1> DEFINE t == Moved(s, pr, l, i)
<1>1. t = [s EXCEPT !.proto = pr, !.l4 = l, !.iter = i]
  BY DEF Moved
<1> HIDE DEF t
<1>2. t = [ip |-> s.ip, family |-> s.family, proto |-> pr, l4 |-> l,
           have_l4 |-> s.have_l4, iter |-> i, read |-> s.read, l4hdr |-> s.l4hdr]
  BY <1>1 DEF LocalsType
<1>3. t \in LocalsType
  BY <1>2, LocalsFit DEF LocalsType
<1>4. QED
  BY <1>2, <1>3 DEF t, MovedTo

LEMMA OptionStep ==
    ASSUME NEW p \in Skb, WellFormed(p), NEW s \in LocalsType, AtExtension(p, s),
           s.iter < MAX_EXT_HDR, s.proto \in OptionHdrs \cup {AH},
           NEW next, next = ext_next(p, s.l4, s.proto = AH)
    PROVE  IF next.nh = 0 THEN ~Accountable(p)
           ELSE /\ Moved(s, next.nh, next.l4, s.iter + 1) \in LocalsType
                /\ AtExtension(p, Moved(s, next.nh, next.l4, s.iter + 1))
<1> DEFINE i == s.iter + 1
           t == Moved(s, next.nh, next.l4, i)
<1>1. /\ i \in 1..Len(p.chain) /\ i \in 1..Walked(p)
      /\ p.chain[i].type = s.proto /\ s.l4 = Start(p, i)
  BY HeaderReached DEF ExtTypes
<1>2. p.ver = 6
  BY DEF AtExtension
<1>3. Accountable(p) => /\ Start(p, i + 1) <= p.cap
                        /\ ProtoOfHeader(p, i + 1) = 0 => p.chain[i].type = FragmentHdr
  BY <1>1, <1>2, AccountableWalk
<1>4. s.proto # FragmentHdr /\ ~NonFirst(p.chain[i])
  BY <1>1 DEF OptionHdrs, AH, FragmentHdr, NonFirst
<1>5. Start(p, i + 1) \in Nat /\ p.cap \in Nat
  BY <1>1, StartStep, SkbType
<1>6. next = IF Start(p, i + 1) > p.cap THEN [nh |-> 0, l4 |-> Start(p, i)]
             ELSE [nh |-> ProtoOfHeader(p, i + 1), l4 |-> Start(p, i + 1)]
  BY <1>1, ExtNext
<1>7. ASSUME next.nh = 0 PROVE ~Accountable(p)
  <2> HIDE DEF i
  <2>1. CASE Start(p, i + 1) > p.cap
    BY <1>3, <1>5, <2>1
  <2>2. CASE ~(Start(p, i + 1) > p.cap)
    BY <1>1, <1>3, <1>4, <1>6, <1>7, <2>2
  <2>3. QED
    BY <2>1, <2>2
<1>8. ASSUME next.nh # 0 PROVE t \in LocalsType /\ AtExtension(p, t)
  <2>1. i \in 0..MAX_EXT_HDR
    BY LocalsFit, ParserAssumption
  <2>3. i = s.iter + 1
    OBVIOUS
  <2> HIDE DEF i
  <2>4. Start(p, i + 1) <= p.cap /\ next.nh = ProtoOfHeader(p, i + 1) /\ next.l4 = Start(p, i + 1)
    BY <1>5, <1>6, <1>8
  <2>5. ProtoOfHeader(p, i + 1) \in Nat
    <3>1. i + 1 \in 1..Len(p.chain) + 1
      BY <1>1, ChainType
    <3>2. QED
      BY <3>1, ProtoType
  <2>6. t = Moved(s, ProtoOfHeader(p, i + 1), Start(p, i + 1), i)
    BY <2>4
  <2> HIDE DEF t
  <2>7. MovedTo(t, s, ProtoOfHeader(p, i + 1), Start(p, i + 1), i)
    BY <1>5, <2>1, <2>5, <2>6, MovedFits
  <2>8. i <= Len(p.chain) /\ NoZero(p, i) /\ \A j \in 1..i : ~NonFirst(p.chain[j])
    BY <1>1, <1>4, <1>8, <2>3, <2>4, Advanced
  <2>9. t \in LocalsType /\ AtExtension(p, t)
    BY <2>4, <2>7, <2>8 DEF AtExtension, MovedTo
  <2>10. QED
    BY <2>9 DEF t, i
<1>9. QED
  BY <1>7, <1>8

Ended(s, pr, l) == [s EXCEPT !.proto = pr, !.l4 = l, !.have_l4 = FALSE]

EndedAt(t, s, pr, l) ==
    /\ t \in LocalsType
    /\ t.ip = s.ip /\ t.family = s.family /\ t.have_l4 = FALSE
    /\ t.read = s.read /\ t.l4hdr = s.l4hdr
    /\ t.proto = pr /\ t.l4 = l /\ t.iter = s.iter

LEMMA EndedFits ==
    ASSUME NEW s \in LocalsType, NEW pr \in Nat, NEW l \in Nat
    PROVE  EndedAt(Ended(s, pr, l), s, pr, l)
<1> DEFINE t == Ended(s, pr, l)
<1>1. t = [s EXCEPT !.proto = pr, !.l4 = l, !.have_l4 = FALSE]
  BY DEF Ended
<1> HIDE DEF t
<1>2. t = [ip |-> s.ip, family |-> s.family, proto |-> pr, l4 |-> l,
           have_l4 |-> FALSE, iter |-> s.iter, read |-> s.read, l4hdr |-> s.l4hdr]
  BY <1>1 DEF LocalsType
<1>3. t \in LocalsType
  BY <1>2, LocalsFit DEF LocalsType
<1>4. QED
  BY <1>2, <1>3 DEF t, EndedAt

LEMMA FragmentStep ==
    ASSUME NEW p \in Skb, WellFormed(p), NEW s \in LocalsType, AtExtension(p, s),
           s.iter < MAX_EXT_HDR, s.proto = FragmentHdr,
           NEW h, h = HeaderAt(p, s.l4)
    PROVE  IF s.l4 + 8 > p.cap THEN ~Accountable(p)
           ELSE IF h.frag_off # 0
           THEN /\ Ended(s, h.nh, s.l4 + 8) \in LocalsType
                /\ AtTransport(p, Ended(s, h.nh, s.l4 + 8))
                /\ Ended(s, h.nh, s.l4 + 8).read = "none" /\ Ended(s, h.nh, s.l4 + 8).l4hdr = 0
           ELSE /\ Moved(s, h.nh, s.l4 + 8, s.iter + 1) \in LocalsType
                /\ AtExtension(p, Moved(s, h.nh, s.l4 + 8, s.iter + 1))
<1> DEFINE i == s.iter + 1
<1>1. /\ i \in 1..Len(p.chain) /\ i \in 1..Walked(p)
      /\ p.chain[i].type = FragmentHdr /\ s.l4 = Start(p, i)
  BY HeaderReached DEF ExtTypes
<1>2. p.ver = 6
  BY DEF AtExtension
<1>3. Accountable(p) => Start(p, i + 1) <= p.cap
  BY <1>1, <1>2, AccountableWalk
<1>4. Start(p, i + 1) = s.l4 + 8 /\ Start(p, i + 1) \in Nat /\ p.cap \in Nat
  <2>1. p.chain[i].size = 8
    BY <1>1, ChainType DEF WellFormed, Encodable
  <2>2. QED
    BY <1>1, <2>1, StartStep, SkbType
<1>5. h.nh = ProtoOfHeader(p, i + 1) /\ h.frag_off = p.chain[i].frag_off
  BY <1>1, HeaderFound
<1>6. ProtoOfHeader(p, i + 1) \in Nat /\ i + 1 \in 1..Len(p.chain) + 1
  <2>1. i + 1 \in 1..Len(p.chain) + 1
    BY <1>1, ChainType
  <2>2. QED
    BY <2>1, ProtoType
<1>7. i \in 0..MAX_EXT_HDR /\ i = s.iter + 1
  BY LocalsFit, ParserAssumption
<1> HIDE DEF i
<1>8. ASSUME s.l4 + 8 > p.cap PROVE ~Accountable(p)
  BY <1>3, <1>4, <1>8
<1>9. ASSUME ~(s.l4 + 8 > p.cap), h.frag_off = 0
      PROVE  /\ Moved(s, h.nh, s.l4 + 8, s.iter + 1) \in LocalsType
             /\ AtExtension(p, Moved(s, h.nh, s.l4 + 8, s.iter + 1))
  <2> DEFINE t == Moved(s, h.nh, s.l4 + 8, i)
  <2>1. t = Moved(s, ProtoOfHeader(p, i + 1), Start(p, i + 1), i)
    BY <1>4, <1>5
  <2> HIDE DEF t
  <2>2. MovedTo(t, s, ProtoOfHeader(p, i + 1), Start(p, i + 1), i)
    BY <1>4, <1>6, <1>7, <2>1, MovedFits
  <2>3. ~NonFirst(p.chain[i]) /\ Start(p, i + 1) <= p.cap
    BY <1>4, <1>5, <1>9 DEF NonFirst
  <2>4. i <= Len(p.chain) /\ NoZero(p, i) /\ \A j \in 1..i : ~NonFirst(p.chain[j])
    BY <1>1, <1>7, <2>3, Advanced
  <2>5. t \in LocalsType /\ AtExtension(p, t)
    BY <2>2, <2>3, <2>4 DEF AtExtension, MovedTo
  <2>6. QED
    BY <1>7, <2>5 DEF t
<1>10. ASSUME ~(s.l4 + 8 > p.cap), h.frag_off # 0
       PROVE  /\ Ended(s, h.nh, s.l4 + 8) \in LocalsType
              /\ AtTransport(p, Ended(s, h.nh, s.l4 + 8))
              /\ Ended(s, h.nh, s.l4 + 8).read = "none" /\ Ended(s, h.nh, s.l4 + 8).l4hdr = 0
  <2> DEFINE t == Ended(s, h.nh, s.l4 + 8)
  <2>1. t = Ended(s, ProtoOfHeader(p, i + 1), Start(p, i + 1))
    BY <1>4, <1>5
  <2> HIDE DEF t
  <2>2. EndedAt(t, s, ProtoOfHeader(p, i + 1), Start(p, i + 1))
    BY <1>4, <1>6, <2>1, EndedFits
  <2>3. NonFirst(p.chain[i])
    BY <1>1, <1>5, <1>10 DEF NonFirst
  <2>4. Walked(p) = i /\ i > 0
    <3>1. WalkedIs(p, Walked(p)) /\ Len(p.chain) \in Nat
      BY WalkedFits, ChainType
    <3>2. Walked(p) <= i /\ Walked(p) \in Nat
      BY <1>1, <2>3, <3>1 DEF WalkedIs
    <3>3. QED
      BY <1>1, <3>2
  <2>5. Later(p)
    BY <1>2, <2>3, <2>4 DEF Later
  <2>6. NoZero(p, i)
    <3>1. \A j \in 1..i : j \in 1..s.iter \/ j = i
      BY <1>7, LocalsFit, ParserAssumption
    <3>2. QED
      BY <1>1, <3>1 DEF AtExtension, NoZero
  <2>7. Headed(p)
    BY <1>2, <2>4, <2>5, <2>6 DEF Headed
  <2>8. ProtoBehind(p) = ProtoOfHeader(p, i + 1)
    BY <2>4 DEF ProtoBehind
  <2>9. Start(p, i + 1) <= p.cap
    BY <1>4, <1>10
  <2>10. t.family = p.ver /\ t.ip = L2Len(p) /\ Framed(p) /\ t.read = "none" /\ t.l4hdr = 0
    BY <2>2 DEF EndedAt, AtExtension
  <2>11. t \in LocalsType /\ AtTransport(p, t)
    BY <2>2, <2>4, <2>5, <2>7, <2>8, <2>9, <2>10 DEF AtTransport, EndedAt
  <2>12. QED
    BY <2>10, <2>11 DEF t
<1>11. QED
  BY <1>8, <1>9, <1>10

\* Where the walk stops without a later fragment, it stops where it should.
LEMMA StopsWhereWalked ==
    ASSUME NEW p \in Skb, WellFormed(p), NEW s \in LocalsType, AtExtension(p, s),
           s.iter = MAX_EXT_HDR \/ s.proto \notin ExtTypes
    PROVE  Walked(p) = s.iter /\ ~Later(p)
<1>1. /\ s.iter \in Nat /\ MAX_EXT_HDR \in Nat /\ s.iter <= MAX_EXT_HDR /\ Len(p.chain) \in Nat
      /\ s.iter <= Len(p.chain) /\ s.proto = ProtoOfHeader(p, s.iter + 1)
      /\ \A j \in 1..s.iter : ~NonFirst(p.chain[j])
  BY LocalsFit, ChainType, ParserAssumption DEF AtExtension
<1>2. s.iter = MAX_EXT_HDR \/ s.iter = Len(p.chain)
  <2>1. ASSUME s.iter # Len(p.chain) PROVE s.proto \in ExtTypes
    <3>1. s.iter + 1 \in 1..Len(p.chain) + 1 /\ s.iter + 1 <= Len(p.chain)
      BY <1>1, <2>1
    <3>2. QED
      BY <1>1, <3>1, ProtoType
  <2>2. QED
    BY <2>1
<1>3. WalkedIs(p, s.iter)
  BY <1>1, <1>2 DEF WalkedIs
<1>4. Walked(p) = s.iter
  BY <1>3, WalkedUnique
<1>5. ~Later(p)
  <2>1. p.ver = 6
    BY DEF AtExtension
  <2>2. Walked(p) > 0 => Walked(p) \in 1..s.iter
    BY <1>1, <1>4
  <2>3. QED
    BY <1>1, <2>1, <2>2 DEF Later
<1>6. QED
  BY <1>4, <1>5

LEMMA EndStep ==
    ASSUME NEW p \in Skb, WellFormed(p), NEW s \in LocalsType, AtExtension(p, s),
           s.iter = MAX_EXT_HDR \/ s.proto \notin ExtTypes \cup {NoNextHdr}
    PROVE  AtTransport(p, s)
<1>1. Walked(p) = s.iter /\ ~Later(p)
  BY StopsWhereWalked
<1>2. ProtoBehind(p) = s.proto /\ p.ver = 6
  BY <1>1 DEF ProtoBehind, AtExtension
<1>3. NoZero(p, Walked(p))
  BY <1>1 DEF AtExtension
<1>4. Headed(p)
  BY <1>1, <1>2, <1>3 DEF Headed
<1>5. QED
  BY <1>1, <1>2, <1>4 DEF AtTransport, AtExtension

LEMMA NoNextStep ==
    ASSUME NEW p \in Skb, WellFormed(p), NEW s \in LocalsType, AtExtension(p, s),
           s.iter < MAX_EXT_HDR, s.proto = NoNextHdr
    PROVE  ~Accountable(p)
<1>1. s.proto \notin ExtTypes
  BY DEF ExtTypes, NoNextHdr, OptionHdrs, AH, FragmentHdr
<1>2. Walked(p) = s.iter /\ ~Later(p)
  BY <1>1, StopsWhereWalked
<1>3. ProtoBehind(p) = NoNextHdr /\ p.ver = 6 /\ Walked(p) # MAX_EXT_HDR
  BY <1>2, LocalsFit, ParserAssumption DEF ProtoBehind, AtExtension
<1>4. ~Headed(p)
  BY <1>2, <1>3 DEF Headed
<1>5. QED
  BY <1>4, AccountableIs

----------------------------------------------------------------------------
(* The transport header and the accounting *)

ReadInto(s, r, k) == [s EXCEPT !.read = r, !.l4hdr = k]

ReadTo(t, s, r, k) ==
    /\ t \in LocalsType
    /\ t.ip = s.ip /\ t.family = s.family /\ t.have_l4 = s.have_l4
    /\ t.proto = s.proto /\ t.l4 = s.l4 /\ t.iter = s.iter
    /\ t.read = r /\ t.l4hdr = k

LEMMA ReadFits ==
    ASSUME NEW s \in LocalsType, NEW r \in {"none", "noise", "icmp", "ports"}, NEW k \in Nat
    PROVE  ReadTo(ReadInto(s, r, k), s, r, k)
<1> DEFINE t == ReadInto(s, r, k)
<1>1. t = [s EXCEPT !.read = r, !.l4hdr = k]
  BY DEF ReadInto
<1> HIDE DEF t
<1>2. t = [ip |-> s.ip, family |-> s.family, proto |-> s.proto, l4 |-> s.l4,
           have_l4 |-> s.have_l4, iter |-> s.iter, read |-> r, l4hdr |-> k]
  BY <1>1 DEF LocalsType
<1>3. t \in LocalsType
  BY <1>2, LocalsFit DEF LocalsType
<1>4. QED
  BY <1>2, <1>3 DEF t, ReadTo

LEMMA TransportStep ==
    ASSUME NEW p \in Skb, WellFormed(p), NEW s \in LocalsType, AtTransport(p, s),
           s.read = "none", s.l4hdr = 0, NEW r, r = ReadL4(s.proto, L4At(p, s.l4)),
           NEW k, k = L4Hdr(s.proto, L4At(p, s.l4))
    PROVE  IF ~s.have_l4 THEN AtAccount(p, s)
           ELSE IF s.l4 + L4Read(s.proto) > p.cap THEN ~Accountable(p)
           ELSE ReadInto(s, r, k) \in LocalsType /\ AtAccount(p, ReadInto(s, r, k))
<1>1. s.l4 \in Nat /\ p.cap \in Nat /\ L4Read(s.proto) \in Nat
  BY LocalsFit, SkbType DEF L4Read
<1>2. ASSUME ~s.have_l4 PROVE AtAccount(p, s)
  BY <1>2 DEF AtAccount, AtTransport
<1>3. ASSUME s.have_l4, s.l4 + L4Read(s.proto) > p.cap PROVE ~Accountable(p)
  <2>1. ~Later(p) /\ s.proto = ProtoBehind(p) /\ s.l4 = Start(p, Walked(p) + 1)
    BY <1>3 DEF AtTransport
  <2>2. Accountable(p) => p.cap >= s.l4 + L4Read(s.proto)
    BY <2>1, AccountableIs
  <2>3. QED
    BY <1>1, <1>3, <2>2
<1>4. ASSUME s.have_l4, ~(s.l4 + L4Read(s.proto) > p.cap)
      PROVE  ReadInto(s, r, k) \in LocalsType /\ AtAccount(p, ReadInto(s, r, k))
  <2> DEFINE t == ReadInto(s, r, k)
  <2>1. r \in {"none", "noise", "icmp", "ports"}
    BY DEF ReadL4
  <2>2. k \in Nat
    <3>1. L4At(p, s.l4).size \in Nat
      <4>1. CASE L4At(p, s.l4) = p.l4
        BY <4>1, SkbType
      <4>2. CASE L4At(p, s.l4) = [proto |-> 255, size |-> 0]
        BY <4>2
      <4>3. QED
        BY <4>1, <4>2 DEF L4At
    <3>2. QED
      BY <3>1 DEF L4Hdr
  <2>3. ReadTo(t, s, r, k)
    BY <2>1, <2>2, ReadFits
  <2> HIDE DEF t
  <2>4. AtTransport(p, t)
    BY <2>3 DEF ReadTo, AtTransport
  <2>5. ~Later(p)
    BY <1>4 DEF AtTransport
  <2>6. s.l4 + L4Read(s.proto) <= p.cap
    BY <1>1, <1>4
  <2>7. t \in LocalsType /\ AtAccount(p, t)
    BY <2>3, <2>4, <2>5, <2>6 DEF ReadTo, AtAccount
  <2>8. QED
    BY <2>7 DEF t
<1>5. QED
  BY <1>2, <1>3, <1>4

LEMMA SegmentsFit ==
    ASSUME NEW p \in Skb
    PROVE  Segments(p) \in Nat /\ (Segments(p) = 1 \/ (Segments(p) = p.gso_segs /\ p.gso_segs > 1))
<1> DEFINE S == {p.gso_segs, 1}
<1>1. p.gso_segs \in Nat
  BY SkbType
<1>2. \E x \in S : \A y \in S : x >= y
  BY <1>1
<1>3. Max(S) \in S /\ \A y \in S : Max(S) >= y
  <2> HIDE DEF S
  <2> QED
    BY <1>2 DEF Max
<1>4. QED
  BY <1>1, <1>3 DEF Segments

\* A later fragment that the walk does not meet is behind its limit.
LEMMA LaterFits ==
    ASSUME NEW p \in Skb, WellFormed(p), p.ver \in {4, 6}, Walked(p) = Len(p.chain)
    PROVE  LaterFragment(p) <=> Later(p)
<1>1. CASE p.ver = 4
  BY <1>1, Version4 DEF Later
<1>2. CASE p.ver = 6
  <2> DEFINE n == Len(p.chain)
  <2>1. WalkedIs(p, n) /\ n \in Nat /\ DOMAIN p.chain = 1..n
    BY WalkedFits, ChainType
  <2> HIDE DEF n
  <2>2. (\E i \in 1..n : NonFirst(p.chain[i])) <=> (n > 0 /\ NonFirst(p.chain[n]))
    BY <2>1 DEF WalkedIs, n
  <2>3. QED
    BY <1>2, <2>1, <2>2 DEF LaterFragment, Later, n
<1>3. QED
  BY <1>1, <1>2

\* A later fragment is one wherever the walk met it.
LEMMA LaterIsFragment ==
    ASSUME NEW p \in Skb, WellFormed(p), Later(p), p.ver \in {4, 6}
    PROVE  LaterFragment(p)
<1>1. CASE p.ver = 4
  BY <1>1, Version4 DEF Later
<1>2. CASE p.ver = 6
  <2>1. WalkedIs(p, Walked(p)) /\ Len(p.chain) \in Nat /\ DOMAIN p.chain = 1..Len(p.chain)
    BY WalkedFits, ChainType
  <2>2. Walked(p) \in 1..Len(p.chain) /\ NonFirst(p.chain[Walked(p)])
    BY <1>2, <2>1 DEF Later, WalkedIs
  <2>3. QED
    BY <2>1, <2>2 DEF LaterFragment
<1>3. QED
  BY <1>1, <1>2

\* What is read of the transport header is what the key of the packet says.
LEMMA AccountKey ==
    ASSUME NEW p \in Skb, WellFormed(p), NEW s \in LocalsType, AtAccount(p, s)
    PROVE  /\ Accountable(p)
           /\ [family |-> s.family, proto |-> s.proto, read |-> s.read] = KeyOf(p)
<1> DEFINE n == Walked(p)
<1>1. /\ Framed(p) /\ Headed(p) /\ s.family = p.ver /\ s.proto = ProtoOfHeader(p, n + 1)
      /\ s.proto = ProtoBehind(p) /\ s.l4 = Start(p, n + 1) /\ s.l4 <= p.cap /\ p.ver \in {4, 6}
  BY DEF AtAccount, AtTransport, ProtoBehind, Headed
<1>2. s.l4 \in Nat /\ p.cap \in Nat /\ L4Read(s.proto) \in Nat
  BY LocalsFit, SkbType DEF L4Read
<1>3. p.cap >= s.l4 + (IF Later(p) THEN 0 ELSE L4Read(s.proto))
  BY <1>1, <1>2 DEF AtAccount
<1>4. Accountable(p)
  BY <1>1, <1>3, AccountableIs
<1>5. WalkedIs(p, n) /\ Len(p.chain) \in Nat
  BY WalkedFits, ChainType
<1>6. n \in Nat /\ n <= Len(p.chain) /\ n + 1 \in 1..Len(p.chain) + 1
  BY <1>5 DEF WalkedIs
<1> HIDE DEF n
<1>7. s.read = IF LaterFragment(p) \/ n < Len(p.chain) THEN "none" ELSE ReadL4(p.l4.proto, p.l4)
  <2>1. CASE Later(p)
    BY <1>1, <2>1, LaterIsFragment DEF AtAccount
  <2>2. CASE ~Later(p) /\ n < Len(p.chain)
    <3>1. s.proto \in ExtTypes
      BY <1>1, <1>5, <1>6, <2>2, ProtoType
    <3>2. s.proto \notin {TCP, UDP} \cup ICMPs
      BY <3>1 DEF ExtTypes, OptionHdrs, AH, FragmentHdr, TCP, UDP, ICMPs
    <3>3. QED
      BY <2>2, <3>2 DEF AtAccount, ReadL4
  <2>3. CASE ~Later(p) /\ n = Len(p.chain)
    <3>1. ~LaterFragment(p)
      BY <1>1, <2>3, LaterFits DEF n
    <3>2. s.proto = p.l4.proto /\ L4At(p, s.l4) = p.l4
      BY <1>1, <1>6, <2>3, <3>1, ProtoType DEF L4At, L4Start
    <3>3. ~(n < Len(p.chain))
      BY <1>5, <2>3
    <3>4. QED
      BY <2>3, <3>1, <3>2, <3>3 DEF AtAccount
  <2>4. QED
    BY <1>5, <1>6, <2>1, <2>2, <2>3
<1>8. (IF p.ver = 4 THEN 0 ELSE Walked(p)) = n
  BY Version4 DEF n
<1>9. QED
  BY <1>1, <1>4, <1>7, <1>8 DEF KeyOf

OctetsOf(p, s) == SkbLen(p) - s.ip + (Segments(p) - 1) * ((s.l4 - s.ip) + s.l4hdr)

\* The octets of a super-packet are those of its segments.
LEMMA AccountOctets ==
    ASSUME NEW p \in Skb, WellFormed(p), NEW s \in LocalsType, AtAccount(p, s),
           Segments(p) = 1 \/ HeadersKnown(p)
    PROVE  OctetsOf(p, s) = Segments(p) * HeaderLen(p) + p.payload + p.pad
<1> DEFINE n == Walked(p)
           H == HeaderLen(p)
           S == Segments(p)
<1>1. /\ s.ip = L2Len(p) /\ s.proto = ProtoOfHeader(p, n + 1) /\ s.l4 = Start(p, n + 1)
      /\ p.ver \in {4, 6}
  BY DEF AtAccount, AtTransport, ProtoBehind, Headed
<1>2. WalkedIs(p, n) /\ Len(p.chain) \in Nat /\ MAX_EXT_HDR \in Nat
  BY WalkedFits, ChainType, ParserAssumption
<1>3. /\ L2Len(p) \in Nat /\ p.payload \in Nat /\ p.pad \in Nat /\ p.l4.size \in Nat
      /\ s.l4 \in Nat /\ s.l4hdr \in Nat
  BY LengthsType, SkbType, LocalsFit
<1>4. L4Start(p) \in Nat
  <2>1. Len(p.chain) + 1 \in 1..Len(p.chain) + 1
    BY <1>2
  <2>2. QED
    BY <2>1, StartType DEF L4Start
<1>5. H = L4Start(p) - L2Len(p) + p.l4.size /\ H \in Int
  BY <1>3, <1>4 DEF HeaderLen
<1>6. SkbLen(p) = L2Len(p) + H + p.payload + p.pad
  BY DEF SkbLen
<1>7. S \in Nat /\ (S = 1 \/ (S = p.gso_segs /\ p.gso_segs > 1))
  BY SegmentsFit
<1> HIDE DEF H, S, n
<1>8. CASE S = 1
  BY <1>1, <1>3, <1>5, <1>6, <1>8 DEF OctetsOf, H, S
<1>9. CASE S = p.gso_segs /\ p.gso_segs > 1
  <2>1. /\ p.l4.proto \in {TCP, UDP} /\ ~LaterFragment(p) /\ (p.l4.proto = UDP => p.l4.size = 8)
        /\ Len(p.chain) <= MAX_EXT_HDR
    BY <1>9 DEF WellFormed, HeadersKnown, S, TCP, UDP
  <2>2. ~Later(p)
    BY <1>1, <2>1, LaterIsFragment
  <2>3. n = Len(p.chain)
    <3>1. \A i \in 1..Len(p.chain) : ~NonFirst(p.chain[i])
      BY <2>1, ChainType DEF LaterFragment
    <3>2. QED
      BY <1>2, <2>1, <3>1 DEF WalkedIs
  <2>4. s.l4 = L4Start(p) /\ s.proto = p.l4.proto
    <3>1. n + 1 \in 1..Len(p.chain) + 1
      BY <1>2, <2>3
    <3>2. QED
      BY <1>1, <2>3, <3>1, ProtoType DEF L4Start
  <2>5. s.l4hdr = L4Hdr(p.l4.proto, p.l4)
    BY <2>1, <2>2, <2>4 DEF AtAccount, L4At
  <2>6. s.l4hdr = p.l4.size
    BY <2>1, <2>5 DEF L4Hdr, TCP, UDP
  <2>7. (s.l4 - s.ip) + s.l4hdr = H
    BY <1>1, <1>3, <1>4, <1>5, <2>4, <2>6
  <2>8. OctetsOf(p, s) = H + p.payload + p.pad + (S - 1) * H
    <3>1. SkbLen(p) - s.ip = H + p.payload + p.pad
      BY <1>1, <1>3, <1>5, <1>6
    <3>2. OctetsOf(p, s) = SkbLen(p) - s.ip + (S - 1) * ((s.l4 - s.ip) + s.l4hdr)
      BY DEF OctetsOf, S
    <3>3. QED
      BY <2>7, <3>1, <3>2
  <2>9. (S - 1) * H + H = S * H /\ S * H \in Int /\ (S - 1) * H \in Int
    BY <1>5, <1>7
  <2>10. QED
    BY <1>3, <1>5, <2>8, <2>9 DEF H, S
<1>10. QED
  BY <1>7, <1>8, <1>9

----------------------------------------------------------------------------
(* The inductive invariant *)

Result(p, o) ==
    \/ o = Ignored /\ ~Accountable(p)
    \/ /\ o.accounted = TRUE /\ Accountable(p)
       /\ [family |-> o.family, proto |-> o.proto, read |-> o.read] = KeyOf(p)
       /\ o.vlan_id = OutermostVid(p)
       /\ (Segments(p) = 1 \/ HeadersKnown(p)) =>
            o.octets = Segments(p) * HeaderLen(p) + p.payload + p.pad

\* Between its parts observe() knows of the packet what its structure says.
IInv ==
    /\ pc \in {"idle", "l2", "l3", "ext", "l4", "account", "done"}
    /\ st \in LocalsType
    /\ pc = "idle" => class = "other"
    /\ pc \in {"idle", "l2"} => st = Locals
    /\ pc # "idle" => pkt \in Skb /\ WellFormed(pkt) /\ class = pkt_class(pkt)
    /\ pc # "done" => out = Ignored
    /\ pc = "l3" => AtNetwork(pkt, st)
    /\ pc = "ext" => AtExtension(pkt, st)
    /\ pc = "l4" => AtTransport(pkt, st) /\ st.read = "none" /\ st.l4hdr = 0
    /\ pc = "account" => AtAccount(pkt, st)
    /\ pc = "done" => Result(pkt, out)

LEMMA LocalsStart == Locals \in LocalsType
  BY ParserAssumption DEF Locals, LocalsType

LEMMA InitFits == Init => IInv
  BY LocalsStart DEF Init, Idle, IInv

\* Where the linear part ends says nothing about what is on the wire.
LEMMA CutFits ==
    ASSUME NEW p \in Skb, WellFormed(p), NEW c \in Nat, NEW q, q = [p EXCEPT !.cap = c]
    PROVE  q \in Skb /\ WellFormed(q)
<1>1. q \in Skb
  BY DEF Skb
<1>2. /\ q.chain = p.chain /\ q.sizes = p.sizes /\ q.ver = p.ver /\ q.l4 = p.l4
      /\ q.gso_segs = p.gso_segs /\ q.frag_off = p.frag_off
  BY DEF Skb
<1>3. LaterFragment(q) <=> LaterFragment(p)
  BY <1>2 DEF LaterFragment
<1>4. QED
  BY <1>1, <1>2, <1>3 DEF WellFormed

LEMMA ArriveFits == IInv /\ Arrive => IInv'
<1> SUFFICES ASSUME IInv, Arrive PROVE IInv'
  OBVIOUS
<1>1. PICK p \in Packets : \E c \in Cuts(p) : pkt' = [p EXCEPT !.cap = c]
  BY DEF Arrive
<1>2. PICK c \in Cuts(p) : pkt' = [p EXCEPT !.cap = c]
  BY <1>1
<1>3. p \in Skb /\ WellFormed(p) /\ c \in Nat
  BY ParserAssumption
<1>4. pkt' \in Skb /\ WellFormed(pkt')
  BY <1>2, <1>3, CutFits
<1>5. /\ pc = "idle" /\ pc' = "l2" /\ class' = pkt_class(pkt') /\ st' = st /\ out' = out
  BY DEF Arrive
<1>6. QED
  BY <1>4, <1>5 DEF IInv

\* A packet that is given up was not accountable.
LEMMA IgnoreFits ==
    ASSUME IInv, pc # "idle", pc # "done", Ignore, ~Accountable(pkt)
    PROVE  IInv'
<1>1. /\ pc' = "done" /\ pkt' = pkt /\ class' = class /\ st' = st /\ out' = out
      /\ out = Ignored /\ pkt \in Skb /\ WellFormed(pkt) /\ class = pkt_class(pkt)
      /\ st \in LocalsType
  BY DEF IInv, Ignore
<1>2. Result(pkt', out')
  BY <1>1 DEF Result
<1>3. QED
  BY <1>1, <1>2 DEF IInv

\* What every part that goes on leaves alone.
LEMMA GoFits ==
    ASSUME IInv, pc # "idle", pc # "done", NEW part, NEW s, Go(part, s), s \in LocalsType,
           \/ part = "l3" /\ AtNetwork(pkt, s)
           \/ part = "ext" /\ AtExtension(pkt, s)
           \/ part = "l4" /\ AtTransport(pkt, s) /\ s.read = "none" /\ s.l4hdr = 0
           \/ part = "account" /\ AtAccount(pkt, s)
    PROVE  IInv'
<1>1. /\ pc' = part /\ pkt' = pkt /\ class' = class /\ st' = s /\ out' = out
      /\ out = Ignored /\ pkt \in Skb /\ WellFormed(pkt) /\ class = pkt_class(pkt)
  BY DEF IInv, Go
<1>2. CASE part = "l3" /\ AtNetwork(pkt, s)
  BY <1>1, <1>2 DEF IInv
<1>3. CASE part = "ext" /\ AtExtension(pkt, s)
  BY <1>1, <1>3 DEF IInv
<1>4. CASE part = "l4" /\ AtTransport(pkt, s) /\ s.read = "none" /\ s.l4hdr = 0
  BY <1>1, <1>4 DEF IInv
<1>5. CASE part = "account" /\ AtAccount(pkt, s)
  BY <1>1, <1>5 DEF IInv
<1>6. QED
  BY <1>2, <1>3, <1>4, <1>5

LEMMA LinkLayerFits == IInv /\ LinkLayer => IInv'
<1> SUFFICES ASSUME IInv, LinkLayer PROVE IInv'
  OBVIOUS
<1> DEFINE n == TagsSkipped(pkt)
           known == pkt.cap >= 14 + 4 * n /\ EtherType(pkt, n + 1) \in {"IP", "IPV6"}
           ip == IF pkt.eth THEN 14 + 4 * n ELSE 0
           s == [st EXCEPT !.ip = ip]
<1>1. pc = "l2" /\ st = Locals /\ pkt \in Skb /\ WellFormed(pkt)
  BY DEF IInv, LinkLayer
<1>2. IF pkt.cap < 2 \/ (pkt.eth /\ ~known) THEN ~Accountable(pkt) ELSE Framed(pkt) /\ ip = L2Len(pkt)
  BY <1>1, LinkStep
<1>3. IF pkt.cap < 2 \/ (pkt.eth /\ ~known) THEN Ignore ELSE Go("l3", s)
  BY DEF LinkLayer
<1> HIDE DEF known, ip
<1>4. CASE pkt.cap < 2 \/ (pkt.eth /\ ~known)
  BY <1>1, <1>2, <1>3, <1>4, IgnoreFits
<1>5. CASE ~(pkt.cap < 2 \/ (pkt.eth /\ ~known))
  <2>1. Framed(pkt) /\ ip = L2Len(pkt) /\ ip \in Nat /\ Go("l3", s)
    BY <1>1, <1>2, <1>3, <1>5, LengthsType
  <2>2. s = [Locals EXCEPT !.ip = ip]
    BY <1>1
  <2> HIDE DEF s
  <2>3. s = [ip |-> ip, family |-> 0, proto |-> 0, l4 |-> 0, have_l4 |-> FALSE, iter |-> 0,
             read |-> "none", l4hdr |-> 0]
    BY <2>2 DEF Locals
  <2>4. s \in LocalsType
    BY <2>1, <2>3, ParserAssumption DEF LocalsType
  <2>5. AtNetwork(pkt, s)
    BY <2>1, <2>3 DEF AtNetwork
  <2>6. QED
    BY <1>1, <2>1, <2>4, <2>5, GoFits
<1>6. QED
  BY <1>4, <1>5

LEMMA Ipv4Fits == IInv /\ Ipv4 => IInv'
<1> SUFFICES ASSUME IInv, Ipv4 PROVE IInv'
  OBVIOUS
<1> DEFINE s == EnterIpv4(pkt, st)
           bad == st.ip + 20 > pkt.cap \/ pkt.ihl < 20 \/ st.ip + pkt.ihl > pkt.cap
<1>1. pc = "l3" /\ st \in LocalsType /\ AtNetwork(pkt, st) /\ pkt \in Skb /\ WellFormed(pkt)
  BY DEF IInv, Ipv4
<1>2. pkt.ver = 4
  BY <1>1, VersionRead DEF Ipv4, AtNetwork
<1>3. IF bad THEN ~Accountable(pkt)
      ELSE s \in LocalsType /\ AtTransport(pkt, s) /\ s.read = "none" /\ s.l4hdr = 0
  BY <1>1, <1>2, Ipv4Step
<1>4. IF bad THEN Ignore ELSE Go("l4", s)
  <2>1. st.ip \in Nat /\ pkt.cap \in Nat /\ pkt.ihl \in Nat
    BY <1>1, LocalsFit, SkbType
  <2>2. (~Readable(20) \/ pkt.ihl < 20 \/ ~Readable(pkt.ihl)) <=> bad
    BY <2>1 DEF Readable
  <2> HIDE DEF bad
  <2>3. QED
    BY <2>2 DEF Ipv4, EnterIpv4
<1> HIDE DEF bad, s
<1>5. CASE bad
  BY <1>1, <1>3, <1>4, <1>5, IgnoreFits
<1>6. CASE ~bad
  BY <1>1, <1>3, <1>4, <1>6, GoFits
<1>7. QED
  BY <1>5, <1>6

LEMMA Ipv6Fits == IInv /\ Ipv6 => IInv'
<1> SUFFICES ASSUME IInv, Ipv6 PROVE IInv'
  OBVIOUS
<1> DEFINE s == [st EXCEPT !.family = 6, !.proto = ProtoOfHeader(pkt, 1), !.l4 = st.ip + 40,
                           !.have_l4 = TRUE]
<1>1. pc = "l3" /\ st \in LocalsType /\ AtNetwork(pkt, st) /\ pkt \in Skb /\ WellFormed(pkt)
  BY DEF IInv, Ipv6
<1>2. pkt.ver = 6
  BY <1>1, VersionRead DEF Ipv6, AtNetwork
<1>3. IF st.ip + 40 > pkt.cap THEN ~Accountable(pkt) ELSE s \in LocalsType /\ AtExtension(pkt, s)
  BY <1>1, <1>2, Ipv6Step
<1>4. IF st.ip + 40 > pkt.cap THEN Ignore ELSE Go("ext", s)
  <2>1. st.ip \in Nat /\ pkt.cap \in Nat
    BY <1>1, LocalsFit, SkbType
  <2>2. ~Readable(40) <=> st.ip + 40 > pkt.cap
    BY <2>1 DEF Readable
  <2>3. QED
    BY <2>2 DEF Ipv6
<1> HIDE DEF s
<1>5. CASE st.ip + 40 > pkt.cap
  BY <1>1, <1>3, <1>4, <1>5, IgnoreFits
<1>6. CASE ~(st.ip + 40 > pkt.cap)
  BY <1>1, <1>3, <1>4, <1>6, GoFits
<1>7. QED
  BY <1>5, <1>6

LEMMA NoVersionFits == IInv /\ NoVersion => IInv'
<1> SUFFICES ASSUME IInv, NoVersion PROVE IInv'
  OBVIOUS
<1>1. pc = "l3" /\ st \in LocalsType /\ AtNetwork(pkt, st) /\ pkt \in Skb /\ WellFormed(pkt) /\ Ignore
  BY DEF IInv, NoVersion
<1>2. st.ip = L2Len(pkt)
  BY <1>1 DEF AtNetwork
<1>3. Accountable(pkt) => Readable(2) /\ pkt.ver \in {4, 6}
  <2>1. Accountable(pkt) => pkt.cap >= L2Len(pkt) + 20 /\ pkt.cap \in Nat /\ L2Len(pkt) \in Nat
    BY <1>1, AccountableLength
  <2>2. Accountable(pkt) => pkt.ver \in {4, 6}
    BY <1>1, AccountableIs DEF Headed
  <2>3. QED
    BY <1>2, <2>1, <2>2 DEF Readable
<1>4. ~Accountable(pkt)
  BY <1>2, <1>3, VersionRead DEF NoVersion
<1>5. QED
  BY <1>1, <1>4, IgnoreFits

LEMMA WalkOptionFits == IInv /\ WalkOption => IInv'
<1> SUFFICES ASSUME IInv, WalkOption PROVE IInv'
  OBVIOUS
<1> DEFINE next == ext_next(pkt, st.l4, st.proto = AH)
           s == Moved(st, next.nh, next.l4, st.iter + 1)
<1>1. /\ pc = "ext" /\ st \in LocalsType /\ AtExtension(pkt, st) /\ pkt \in Skb /\ WellFormed(pkt)
      /\ st.iter < MAX_EXT_HDR /\ st.proto \in OptionHdrs \cup {AH}
  BY DEF IInv, WalkOption, Walking
<1>2. IF next.nh = 0 THEN ~Accountable(pkt) ELSE s \in LocalsType /\ AtExtension(pkt, s)
  BY <1>1, OptionStep
<1>3. IF next.nh = 0 THEN Ignore ELSE Go("ext", s)
  BY DEF WalkOption, Moved
<1> HIDE DEF next, s
<1>4. CASE next.nh = 0
  BY <1>1, <1>2, <1>3, <1>4, IgnoreFits
<1>5. CASE next.nh # 0
  BY <1>1, <1>2, <1>3, <1>5, GoFits
<1>6. QED
  BY <1>4, <1>5

LEMMA WalkFragmentFits == IInv /\ WalkFragment => IInv'
<1> SUFFICES ASSUME IInv, WalkFragment PROVE IInv'
  OBVIOUS
<1> DEFINE h == HeaderAt(pkt, st.l4)
           last == Ended(st, h.nh, st.l4 + 8)
           on == Moved(st, h.nh, st.l4 + 8, st.iter + 1)
<1>1. /\ pc = "ext" /\ st \in LocalsType /\ AtExtension(pkt, st) /\ pkt \in Skb /\ WellFormed(pkt)
      /\ st.iter < MAX_EXT_HDR /\ st.proto = FragmentHdr
  BY DEF IInv, WalkFragment, Walking
<1>2. IF st.l4 + 8 > pkt.cap THEN ~Accountable(pkt)
      ELSE IF h.frag_off # 0
      THEN last \in LocalsType /\ AtTransport(pkt, last) /\ last.read = "none" /\ last.l4hdr = 0
      ELSE on \in LocalsType /\ AtExtension(pkt, on)
  BY <1>1, FragmentStep
<1>3. IF st.l4 + 8 > pkt.cap THEN Ignore
      ELSE IF h.frag_off # 0 THEN Go("l4", last) ELSE Go("ext", on)
  <2> DEFINE behind == [st EXCEPT !.proto = h.nh, !.l4 = st.l4 + 8]
  <2>1. IF st.l4 + 8 > pkt.cap THEN Ignore
        ELSE IF h.frag_off # 0 THEN Go("l4", [behind EXCEPT !.have_l4 = FALSE])
        ELSE Go("ext", [behind EXCEPT !.iter = behind.iter + 1])
    BY DEF WalkFragment
  <2>2. [behind EXCEPT !.have_l4 = FALSE] = last
    BY <1>1 DEF Ended, LocalsType
  <2>3. behind.iter = st.iter
    BY <1>1 DEF LocalsType
  <2>4. [behind EXCEPT !.iter = behind.iter + 1] = on
    BY <1>1, <2>3 DEF Moved, LocalsType
  <2> HIDE DEF behind, last, on
  <2>5. QED
    BY <2>1, <2>2, <2>4
<1> HIDE DEF h, last, on
<1>4. CASE st.l4 + 8 > pkt.cap
  BY <1>1, <1>2, <1>3, <1>4, IgnoreFits
<1>5. CASE ~(st.l4 + 8 > pkt.cap) /\ h.frag_off # 0
  BY <1>1, <1>2, <1>3, <1>5, GoFits
<1>6. CASE ~(st.l4 + 8 > pkt.cap) /\ h.frag_off = 0
  BY <1>1, <1>2, <1>3, <1>6, GoFits
<1>7. QED
  BY <1>4, <1>5, <1>6

LEMMA WalkNoNextFits == IInv /\ WalkNoNext => IInv'
<1> SUFFICES ASSUME IInv, WalkNoNext PROVE IInv'
  OBVIOUS
<1>1. /\ pc = "ext" /\ st \in LocalsType /\ AtExtension(pkt, st) /\ pkt \in Skb /\ WellFormed(pkt)
      /\ st.iter < MAX_EXT_HDR /\ st.proto = NoNextHdr /\ Ignore
  BY DEF IInv, WalkNoNext, Walking
<1>2. ~Accountable(pkt)
  BY <1>1, NoNextStep
<1>3. QED
  BY <1>1, <1>2, IgnoreFits

LEMMA WalkEndFits == IInv /\ WalkEnd => IInv'
<1> SUFFICES ASSUME IInv, WalkEnd PROVE IInv'
  OBVIOUS
<1>1. /\ pc = "ext" /\ st \in LocalsType /\ AtExtension(pkt, st) /\ pkt \in Skb /\ WellFormed(pkt)
      /\ st.iter = MAX_EXT_HDR \/ st.proto \notin ExtTypes \cup {NoNextHdr}
      /\ Go("l4", st)
  BY DEF IInv, WalkEnd, ExtTypes
<1>2. AtTransport(pkt, st) /\ st.read = "none" /\ st.l4hdr = 0
  BY <1>1, EndStep DEF AtExtension
<1>3. QED
  BY <1>1, <1>2, GoFits

LEMMA TransportFits == IInv /\ Transport => IInv'
<1> SUFFICES ASSUME IInv, Transport PROVE IInv'
  OBVIOUS
<1> DEFINE h == L4At(pkt, st.l4)
           s == ReadInto(st, ReadL4(st.proto, h), L4Hdr(st.proto, h))
<1>1. /\ pc = "l4" /\ st \in LocalsType /\ AtTransport(pkt, st) /\ pkt \in Skb /\ WellFormed(pkt)
      /\ st.read = "none" /\ st.l4hdr = 0
  BY DEF IInv, Transport
<1>2. IF ~st.have_l4 THEN AtAccount(pkt, st)
      ELSE IF st.l4 + L4Read(st.proto) > pkt.cap THEN ~Accountable(pkt)
      ELSE s \in LocalsType /\ AtAccount(pkt, s)
  BY <1>1, TransportStep
<1>3. IF ~st.have_l4 THEN Go("account", st)
      ELSE IF st.l4 + L4Read(st.proto) > pkt.cap THEN Ignore
      ELSE Go("account", s)
  BY DEF Transport, ReadInto
<1> HIDE DEF h, s
<1>4. CASE ~st.have_l4
  BY <1>1, <1>2, <1>3, <1>4, GoFits
<1>5. CASE st.have_l4 /\ st.l4 + L4Read(st.proto) > pkt.cap
  BY <1>1, <1>2, <1>3, <1>5, IgnoreFits
<1>6. CASE st.have_l4 /\ ~(st.l4 + L4Read(st.proto) > pkt.cap)
  BY <1>1, <1>2, <1>3, <1>6, GoFits
<1>7. QED
  BY <1>4, <1>5, <1>6

LEMMA AccountFits == IInv /\ Account => IInv'
<1> SUFFICES ASSUME IInv, Account PROVE IInv'
  OBVIOUS
<1>1. /\ pc = "account" /\ st \in LocalsType /\ AtAccount(pkt, st) /\ pkt \in Skb /\ WellFormed(pkt)
      /\ class = pkt_class(pkt)
  BY DEF IInv, Account
<1>2. /\ pc' = "done" /\ pkt' = pkt /\ class' = class /\ st' = st
      /\ out' = [accounted |-> TRUE, family |-> st.family, proto |-> st.proto, read |-> st.read,
                 octets |-> OctetsOf(pkt, st),
                 vlan_id |-> IF pkt.eth THEN outer_vlan(pkt) ELSE 0]
  BY DEF Account, Octets, OctetsOf
<1>3. Accountable(pkt) /\ [family |-> st.family, proto |-> st.proto, read |-> st.read] = KeyOf(pkt)
  BY <1>1, AccountKey
<1>4. (IF pkt.eth THEN outer_vlan(pkt) ELSE 0) = OutermostVid(pkt)
  BY <1>1, <1>3, AccountableVlan
<1>5. (Segments(pkt) = 1 \/ HeadersKnown(pkt)) =>
        OctetsOf(pkt, st) = Segments(pkt) * HeaderLen(pkt) + pkt.payload + pkt.pad
  BY <1>1, AccountOctets
<1>6. /\ out'.accounted = TRUE /\ out'.family = st.family /\ out'.proto = st.proto
      /\ out'.read = st.read /\ out'.octets = OctetsOf(pkt, st) /\ out'.vlan_id = OutermostVid(pkt)
  BY <1>2, <1>4
<1>7. Result(pkt', out')
  BY <1>2, <1>3, <1>5, <1>6 DEF Result
<1>8. QED
  BY <1>1, <1>2, <1>7 DEF IInv

LEMMA ReturnFits == IInv /\ Return => IInv'
  BY LocalsStart DEF IInv, Return

LEMMA StepFits == IInv /\ [Next]_vars => IInv'
<1> SUFFICES ASSUME IInv, [Next]_vars PROVE IInv'
  OBVIOUS
<1>1. CASE UNCHANGED vars
  BY <1>1 DEF vars, IInv
<1>2. CASE Arrive
  BY <1>2, ArriveFits
<1>3. CASE Observe
  BY <1>3, LinkLayerFits, Ipv4Fits, Ipv6Fits, NoVersionFits, WalkOptionFits, WalkFragmentFits,
     WalkNoNextFits, WalkEndFits, TransportFits, AccountFits, ReturnFits DEF Observe
<1>4. QED
  BY <1>1, <1>2, <1>3 DEF Next

LEMMA Invariance == Spec => []IInv
  BY InitFits, StepFits, PTL DEF Spec

----------------------------------------------------------------------------
(* The theorems *)

LEMMA ClassType ==
    ASSUME NEW p
    PROVE  pkt_class(p) \in {"ipv4", "ipv6", "arp", "other"}
<1>1. \A e : ByEtherType(e) \in {"ipv4", "ipv6", "arp", "other"}
  BY DEF ByEtherType
<1>2. \A v : ByVersion(v) \in {"ipv4", "ipv6", "arp", "other"}
  BY DEF ByVersion
<1>3. QED
  BY <1>1, <1>2 DEF pkt_class

\* Behind the IP header is what follows it.
LEMMA BehindIp ==
    ASSUME NEW p \in Skb, WellFormed(p), NEW n \in 1..Len(p.chain) + 1, p.ver = 6 \/ IpLen(p) > 0
    PROVE  L2Len(p) < Start(p, n)
<1>1. L2Len(p) \in Nat /\ IpLen(p) \in Nat /\ IpLen(p) > 0 /\ Len(p.chain) \in Nat
  BY LengthsType, ChainType
<1>2. 1 \in 1..Len(p.chain) + 1
  BY <1>1
<1>3. Start(p, 1) = L2Len(p) + IpLen(p) /\ Start(p, 1) \in Nat /\ Start(p, n) \in Nat
  BY <1>2, StartType
<1>4. Start(p, 1) <= Start(p, n)
  BY <1>1, <1>2, <1>3, StartGrows
<1>5. QED
  BY <1>1, <1>3, <1>4

LEMMA InvTypes == IInv => TypeOK
<1> SUFFICES ASSUME IInv PROVE TypeOK
  OBVIOUS
<1>1. class \in {"ipv4", "ipv6", "arp", "other"}
  BY ClassType DEF IInv
<1>2. st \in LocalsType
  BY DEF IInv
<1>3. ASSUME pc = "ext" PROVE st.ip < st.l4 /\ st.l4 <= pkt.cap
  <2>1. pkt \in Skb /\ WellFormed(pkt) /\ AtExtension(pkt, st)
    BY <1>3 DEF IInv
  <2>2. st.iter + 1 \in 1..Len(pkt.chain) + 1
    BY <1>2, <2>1, LocalsFit, ChainType, ParserAssumption DEF AtExtension
  <2>3. L2Len(pkt) < Start(pkt, st.iter + 1)
    BY <2>1, <2>2, BehindIp DEF AtExtension
  <2>4. QED
    BY <2>1, <2>3 DEF AtExtension
<1>4. ASSUME pc \in {"l4", "account"} PROVE st.ip < st.l4 /\ st.l4 <= pkt.cap
  <2>1. pkt \in Skb /\ WellFormed(pkt) /\ AtTransport(pkt, st)
    BY <1>4 DEF IInv, AtAccount
  <2>2. Walked(pkt) + 1 \in 1..Len(pkt.chain) + 1
    BY <2>1, WalkedFits, ChainType DEF WalkedIs
  <2>3. pkt.ver = 6 \/ IpLen(pkt) > 0
    BY <2>1, LengthsType, SkbType DEF AtTransport, Headed
  <2>4. L2Len(pkt) < Start(pkt, Walked(pkt) + 1)
    BY <2>1, <2>2, <2>3, BehindIp
  <2>5. QED
    BY <2>1, <2>4 DEF AtTransport
<1>5. pc \in {"idle", "l2", "l3", "ext", "l4", "account", "done"}
  BY DEF IInv
<1>6. QED
  BY <1>1, <1>2, <1>3, <1>4, <1>5, LocalsFit DEF TypeOK

\* The offsets observe() computes stay inside the linear part of every packet,
\* and the walk within its limit (obserwrt-bpf.c:307).
THEOREM TypeCorrect == Spec => []TypeOK
  BY Invariance, InvTypes, PTL

LEMMA InvParses == IInv => ParsesStructure
<1> SUFFICES ASSUME IInv, pc = "done" PROVE ParsesStructure
  BY DEF ParsesStructure
<1>1. CASE out = Ignored /\ ~Accountable(pkt)
  BY <1>1 DEF Ignored, ParsesStructure
<1>2. CASE out.accounted = TRUE /\ Accountable(pkt)
  BY <1>2 DEF IInv, Result, ParsesStructure, Ignored
<1>3. QED
  BY <1>1, <1>2 DEF IInv, Result

\* Whatever packets arrive and wherever their linear part ends, exactly the
\* proper IP packets are accounted that do not end in no next header and whose
\* headers are in it, under the key and the VLAN that their structure gives
\* (obserwrt-bpf.c:237-357).
THEOREM AlwaysParsesStructure == Spec => []ParsesStructure
  BY Invariance, InvParses, PTL

LEMMA InvOctets == IInv => OctetsOfSegments
<1> SUFFICES ASSUME IInv, pc = "done", out.accounted, pkt.pad = 0,
                    Segments(pkt) = 1 \/ HeadersKnown(pkt)
             PROVE  out.octets = Segments(pkt) * HeaderLen(pkt) + pkt.payload
  BY DEF OctetsOfSegments
<1>1. /\ pkt \in Skb /\ WellFormed(pkt)
      /\ out.octets = Segments(pkt) * HeaderLen(pkt) + pkt.payload + pkt.pad
  BY DEF IInv, Result, Ignored
<1>2. HeaderLen(pkt) \in Int
  <2>1. Len(pkt.chain) \in Nat /\ Len(pkt.chain) + 1 \in 1..Len(pkt.chain) + 1
    BY <1>1, ChainType
  <2>2. L4Start(pkt) \in Nat /\ L2Len(pkt) \in Nat /\ pkt.l4.size \in Nat
    BY <1>1, <2>1, StartType, LengthsType, SkbType DEF L4Start
  <2>3. QED
    BY <2>2 DEF HeaderLen
<1>3. Segments(pkt) \in Nat /\ pkt.payload \in Nat
  BY <1>1, SegmentsFit, SkbType
<1>4. Segments(pkt) * HeaderLen(pkt) \in Int
  BY <1>2, <1>3
<1>5. QED
  BY <1>1, <1>3, <1>4

\* The octets of a packet without padding are the IP headers and payload of the
\* segments it stands for, whatever their number and the size of their TCP or
\* plain UDP headers (obserwrt-bpf.c:21-23).
THEOREM SegmentsAlwaysCounted == Spec => []OctetsOfSegments
  BY Invariance, InvOctets, PTL

LEMMA InvClass == IInv => AccountedIsIp
<1> SUFFICES ASSUME IInv, out.accounted PROVE class \in {"ipv4", "ipv6"}
  BY DEF AccountedIsIp
<1>1. pc = "done" /\ out # Ignored
  BY DEF IInv, Ignored
<1>2. pkt \in Skb /\ WellFormed(pkt) /\ class = pkt_class(pkt) /\ Accountable(pkt)
  BY <1>1 DEF IInv, Result
<1>3. QED
  BY <1>2, AccountableClass

\* The two parsers of obserwrt-bpf.c never disagree on what is IP: no flow comes
\* from a packet that was counted as ARP or other.
THEOREM AccountedAlwaysIp == Spec => []AccountedIsIp
  BY Invariance, InvClass, PTL

LEMMA InvDrops == IInv => DropTupleAgrees
<1> SUFFICES ASSUME IInv, pc = "done", out.accounted, pkt.chain = <<>>, drop_parse(pkt).accounted
             PROVE  LET drop == drop_parse(pkt) IN
                    /\ drop.family = out.family /\ drop.proto = out.proto /\ drop.read = out.read
                    /\ Segments(pkt) = 1 => out.octets = drop.octets + pkt.pad
  BY DEF DropTupleAgrees
<1> DEFINE pr == ProtoOfHeader(pkt, 1)
           r == IF DropReadsL4(pkt, pr) THEN ReadL4(pr, L4At(pkt, Start(pkt, 1))) ELSE "none"
           l3len == SkbLen(pkt) - pkt.pad - L2Len(pkt)
<1>1. drop_parse(pkt) = [accounted |-> TRUE, family |-> pkt.ver, proto |-> pr, octets |-> l3len, read |-> r]
  BY DEF drop_parse, Ignored
<1>2. /\ pkt \in Skb /\ WellFormed(pkt) /\ Accountable(pkt) /\ Len(pkt.chain) = 0
      /\ [family |-> out.family, proto |-> out.proto, read |-> out.read] = KeyOf(pkt)
      /\ (Segments(pkt) = 1 \/ HeadersKnown(pkt)) =>
            out.octets = Segments(pkt) * HeaderLen(pkt) + pkt.payload + pkt.pad
  BY DEF IInv, Result, Ignored
<1>3. Walked(pkt) = 0 /\ MAX_EXT_HDR \in Nat
  BY <1>2, WalkedFits, ParserAssumption DEF WalkedIs
<1>4. pr = pkt.l4.proto /\ Start(pkt, 1) = L4Start(pkt)
  BY <1>2 DEF ProtoOfHeader, L4Start
<1>5. LaterFragment(pkt) <=> (pkt.ver = 4 /\ pkt.frag_off # 0)
  BY DEF LaterFragment
<1>6. KeyOf(pkt) = [family |-> pkt.ver, proto |-> pr,
                    read |-> IF LaterFragment(pkt) THEN "none" ELSE ReadL4(pkt.l4.proto, pkt.l4)]
  BY <1>2, <1>3 DEF KeyOf
<1>7. out.family = pkt.ver /\ out.proto = pr
      /\ out.read = IF LaterFragment(pkt) THEN "none" ELSE ReadL4(pkt.l4.proto, pkt.l4)
  BY <1>2, <1>6
<1>8. r = out.read
  <2>1. CASE LaterFragment(pkt)
    BY <1>5, <1>7, <2>1 DEF DropReadsL4
  <2>2. CASE ~LaterFragment(pkt)
    <3>1. L4At(pkt, Start(pkt, 1)) = pkt.l4
      BY <1>4, <2>2 DEF L4At
    <3>2. QED
      BY <1>4, <1>5, <1>7, <2>2, <3>1 DEF DropReadsL4, ReadL4
  <2>3. QED
    BY <2>1, <2>2
<1>9. Segments(pkt) = 1 => out.octets = l3len + pkt.pad
  <2>1. Segments(pkt) = 1 =>
          out.octets = Segments(pkt) * HeaderLen(pkt) + pkt.payload + pkt.pad
    BY <1>2
  <2>2. L4Start(pkt) \in Nat /\ L2Len(pkt) \in Nat /\ pkt.payload \in Nat /\ pkt.pad \in Nat
        /\ pkt.l4.size \in Nat
    BY <1>2, <1>4, StartType, LengthsType, SkbType
  <2>3. HeaderLen(pkt) \in Int
    BY <2>2 DEF HeaderLen
  <2>4. QED
    BY <2>1, <2>2, <2>3 DEF SkbLen
<1>10. QED
  BY <1>1, <1>7, <1>8, <1>9

\* A dropped packet without extension headers gets, from drop_parse(), the tuple
\* and the octets its flow has (obserwrt-flow.h:85-86).
THEOREM DropTupleAlwaysAgrees == Spec => []DropTupleAgrees
  BY Invariance, InvDrops, PTL
=============================================================================
