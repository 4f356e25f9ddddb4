----------------------------- MODULE Dissectors -----------------------------
(***************************************************************************)
(* The nine dissectors of open-sniffer as pure operators on packets: which *)
(* packets each one accepts (`handles'), the packet each one hands to the  *)
(* next layer (`decapsulate') and how many bytes each one shows (`dump').  *)
(*                                                                         *)
(* A packet is a window on the bytes of a captured frame.  The window is   *)
(* what memcpy copied; a byte that the code reads past the end of the copy *)
(* is whatever the allocator left there, the packet's `slack'.             *)
(***************************************************************************)
EXTENDS Integers, Sequences

CONSTANTS
  Frames,              \* the frames the network may deliver
  FrameLen,            \* [Frames -> Nat], their length on the wire
  Wire(_, _),          \* Wire(f, i): byte i of frame f
  HttpAccepts(_, _, _),\* HttpAccepts(f, o, n): http_parser_execute leaves
                       \* http_errno = HPE_OK on bytes o .. o+n-1 of f
  PACKET_SIZE,         \* main.c: the length of a capture buffer
  SIZE_MOD,            \* size_t arithmetic is modulo SIZE_MOD
  Slack,               \* bytes malloc may leave behind the end of a copy
  Addr,                \* addresses of heap blocks
  NULL

Byte   == {n \in Nat : n < 256}
Uint16 == {n \in Nat : n < 65536}

ASSUME FrameAssumption == FrameLen \in [Frames -> Nat]
ASSUME SizeAssumption  == PACKET_SIZE \in Nat /\ SIZE_MOD \in Nat /\ SIZE_MOD > PACKET_SIZE
ASSUME WireAssumption  == \A f \in Frames : \A i \in 0..(PACKET_SIZE - 1) : Wire(f, i) \in Byte
ASSUME SlackAssumption == Slack \subseteq Byte /\ 0 \in Slack
ASSUME NullAssumption  == NULL \notin Addr

-----------------------------------------------------------------------------
\* Packets and sessions (osi.h).

\* A session keeps the identifier and the ports as they lie in memory,
\* without conversion to host order.
Session == [at : Addr, id : [1..4 -> Byte], src_port : [1..2 -> Byte], dest_port : [1..2 -> Byte]]

\* `self' is the block of the packet_t (NULL for the caller's, which lives on
\* the C stack), `data' the block of its copy; frame and off say which bytes
\* the copy holds.
Packet == [self : Addr \cup {NULL}, data : Addr, size : 0..PACKET_SIZE, protocol : Uint16,
           session : Session \cup {NULL}, frame : Frames, off : 0..PACKET_SIZE, slack : Byte]

\* What the kernel stores of frame f in a buffer of PACKET_SIZE bytes.
Captured(f) == IF FrameLen[f] < PACKET_SIZE THEN FrameLen[f] ELSE PACKET_SIZE

\* Byte i of a packet's data, and the big-endian 16-bit field at i.
At(p, i)    == IF i < p.size THEN Wire(p.frame, p.off + i) ELSE p.slack
Net16(p, i) == 256 * At(p, i) + At(p, i + 1)

\* size_t subtraction.
SizeSub(a, b) == IF b <= a THEN a - b ELSE a - b + SIZE_MOD

-----------------------------------------------------------------------------
\* Sizes of the header structures.  sizeof(struct iphdr*) and its kin, which
\* the IP, TCP and DHCP dissectors compare with, is the size of a pointer.
ETHER_HEADER == 14
ETHER_ARP    == 28
UDPHDR       == 8
ICMPHDR      == 8
POINTER      == 8
DNSHDR       == 12
DNS_QUERY    == 4
DNS_RECORD   == 10

ETHERTYPE_IP  == 2048
ETHERTYPE_ARP == 2054
IPPROTO_ICMP  == 1
IPPROTO_TCP   == 6
IPPROTO_UDP   == 17

-----------------------------------------------------------------------------
\* Ethernet, layer 1.  The type of an accepted frame is at least 0x0200: it
\* is never the number of an IP protocol.
ether_type(p) == Net16(p, 12)

\* Mutant: the frame type has no lower bound.
EthernetAnyLowType(p) ==
  /\ p.size >= ETHER_HEADER
  /\ ether_type(p) <= 36864

ethernet_dissector_handles(p) ==
  /\ p.size >= ETHER_HEADER
  /\ ether_type(p) >= 512
  /\ ether_type(p) <= 36864

\* IP, layer 2.
ip_hdr_size(p) == 4 * (At(p, 0) % 16)
ip_version(p)  == At(p, 0) \div 16

\* Mutant: the packet may be shorter than its header says.
IpTrustsHeaderLength(p) ==
  /\ p.size >= POINTER
  /\ p.protocol = ETHERTYPE_IP
  /\ ip_version(p) \in {4, 6}

ip_dissector_handles(p) ==
  /\ p.size >= POINTER
  /\ p.protocol = ETHERTYPE_IP
  /\ p.size >= ip_hdr_size(p)
  /\ ip_version(p) \in {4, 6}

\* ARP, layer 2.
arp_dissector_handles(p) ==
  /\ p.protocol = ETHERTYPE_ARP
  /\ p.size >= ETHER_ARP

\* Mutant: the protocol hint is ignored.
UdpIgnoresProtocol(p) == p.size >= UDPHDR

\* UDP, layer 3.
udp_dissector_handles(p) ==
  /\ p.protocol = IPPROTO_UDP
  /\ p.size >= UDPHDR

\* TCP, layer 3.  The segment must hold at least one byte after the header.
tcp_hdr_size(p) == 4 * (At(p, 12) \div 16)

tcp_dissector_handles(p) ==
  /\ p.size >= POINTER
  /\ p.protocol = IPPROTO_TCP
  /\ p.size > tcp_hdr_size(p)

\* ICMP, layer 3.
icmp_dissector_handles(p) ==
  /\ p.protocol = IPPROTO_ICMP
  /\ p.size >= ICMPHDR

\* The types that the dump of ICMP has a name for.  The search for the name
\* counts the bytes of the table, not its entries.
icmp_types == {0, 3, 4, 5, 8} \cup 11..18

icmp_type_overruns(p) == At(p, 0) \notin icmp_types

\* DHCP, layer 7: neither the protocol nor the session is looked at.
dhcp_dissector_handles(p) ==
  /\ p.size >= POINTER
  /\ At(p, 0) \in {1, 2}
  /\ At(p, 1) <= 20

\* DNS, layer 7.  Byte 2 ends with the response flag, byte 3 holds the
\* unused bit and the response code.
dns_qr(p)     == At(p, 2) \div 128
dns_unused(p) == (At(p, 3) \div 64) % 2
dns_rcode(p)  == At(p, 3) % 16

get_minimum_packet_size(p) ==
  DNSHDR + Net16(p, 4) * DNS_QUERY + dns_qr(p) * Net16(p, 6) * DNS_RECORD

\* Mutant: a packet without a session is looked at too.
DnsWithoutSession(p) ==
  /\ p.size >= DNSHDR
  /\ dns_unused(p) = 0
  /\ dns_rcode(p) <= 5
  /\ Net16(p, 4) <= 5
  /\ Net16(p, 6) <= 10
  /\ p.size >= get_minimum_packet_size(p)

dns_dissector_handles(p) ==
  /\ p.size >= DNSHDR
  /\ p.session # NULL
  /\ dns_unused(p) = 0
  /\ dns_rcode(p) <= 5
  /\ Net16(p, 4) <= 5
  /\ Net16(p, 6) <= 10
  /\ p.size >= get_minimum_packet_size(p)

\* HTTP, layer 7.  http_parser_execute returns at once, without an error, on
\* an empty payload.
http_dissector_handles(p) ==
  /\ p.protocol = 0
  /\ p.session # NULL
  /\ p.size = 0 \/ HttpAccepts(p.frame, p.off, p.size)

-----------------------------------------------------------------------------
\* The table of operations of each dissector (osi_dissector_t).
Dissector == {"Ethernet", "IP", "arp", "udp", "DHCP", "dns", "icmp", "tcp", "http"}

Layer(d) == CASE d = "Ethernet"                -> 1
              [] d \in {"IP", "arp"}           -> 2
              [] d \in {"udp", "icmp", "tcp"}  -> 3
              [] d \in {"DHCP", "dns", "http"} -> 7

handles(d, p) == CASE d = "Ethernet" -> ethernet_dissector_handles(p)
                   [] d = "IP"       -> ip_dissector_handles(p)
                   [] d = "arp"      -> arp_dissector_handles(p)
                   [] d = "udp"      -> udp_dissector_handles(p)
                   [] d = "DHCP"     -> dhcp_dissector_handles(p)
                   [] d = "dns"      -> dns_dissector_handles(p)
                   [] d = "icmp"     -> icmp_dissector_handles(p)
                   [] d = "tcp"      -> tcp_dissector_handles(p)
                   [] d = "http"     -> http_dissector_handles(p)

\* The dissectors that hand a packet to the next layer; the decapsulate
\* function of the layer-7 ones returns NULL.
Decapsulating == {"Ethernet", "IP", "arp", "udp", "icmp", "tcp"}

\* The ones that also attach a session to it.
WithSession == {"udp", "tcp"}

\* Bytes a decapsulate function skips.
header_size(d, p) == CASE d = "Ethernet" -> ETHER_HEADER
                       [] d = "IP"       -> ip_hdr_size(p)
                       [] d = "arp"      -> ETHER_ARP
                       [] d = "udp"      -> UDPHDR
                       [] d = "icmp"     -> ICMPHDR
                       [] d = "tcp"      -> tcp_hdr_size(p)

\* The hint about the protocol of what remains.
get_hint(d, p) == CASE d = "Ethernet" -> ether_type(p)
                    [] d = "IP"       -> At(p, 9)
                    [] OTHER          -> 0

\* osi_create_session as the UDP and TCP dissectors call it: UDP gives every
\* session the identifier 0, TCP the sequence number of the segment.
osi_create_session(d, p, at) ==
  [at        |-> at,
   id        |-> IF d = "tcp" THEN [k \in 1..4 |-> At(p, 3 + k)] ELSE [k \in 1..4 |-> 0],
   src_port  |-> [k \in 1..2 |-> At(p, k - 1)],
   dest_port |-> [k \in 1..2 |-> At(p, k + 1)]]

\* The packet a decapsulate function builds in the blocks self, data and, if
\* it attaches a session, at; s is the leftover behind its copy.
decapsulate(d, p, self, data, at, s) ==
  [self     |-> self,
   data     |-> data,
   size     |-> SizeSub(p.size, header_size(d, p)),
   protocol |-> get_hint(d, p),
   session  |-> IF d \in WithSession THEN osi_create_session(d, p, at) ELSE NULL,
   frame    |-> p.frame,
   off      |-> p.off + header_size(d, p),
   slack    |-> s]

\* How far into the packet the fixed part of a dump function reads.  In a DNS
\* message without error code the type (in a response, type and class) is read
\* behind the names, wherever these end: with no question, behind the header.
\* With questions this is only what is read before them; see DnsNames.
dump_extent(d, p) ==
  CASE d = "Ethernet" -> 12   \* the two hardware addresses
    [] d = "IP"       -> 20   \* up to the destination address
    [] d = "arp"      -> 24   \* up to the target hardware address
    [] d = "udp"      -> 4    \* the two ports
    [] d = "icmp"     -> 4    \* type, code, checksum
    [] d = "tcp"      -> 14   \* up to the flags
    [] d = "DHCP"     -> 34   \* up to the client hardware address
    [] d = "dns"      -> IF dns_rcode(p) # 0 \/ Net16(p, 4) # 0 THEN DNSHDR
                         ELSE DNSHDR + 2 + 2 * dns_qr(p)
    [] d = "http"     -> 0    \* exactly the payload
=============================================================================
