------------------------------ MODULE MCFrames ------------------------------
(***************************************************************************)
(* The frames of the model-checking instances: for each frame its length   *)
(* and its nonzero bytes, at the offsets where they lie on the wire.       *)
(***************************************************************************)
EXTENDS Integers, Sequences, TLC

Nothing == [i \in {} |-> 0]

Bytes(o, s) == [i \in o..(o + Len(s) - 1) |-> s[i - o + 1]]

Ethernet(type)   == Bytes(12, <<type \div 256, type % 256>>)
Ip(vhl, proto)   == Ethernet(2048) @@ Bytes(14, <<vhl>>) @@ Bytes(23, <<proto>>)
Ports(o)         == Bytes(o, <<4, 210, 0, 53>>)
Tcp(o, doff)     == Ports(o) @@ Bytes(o + 7, <<9>>) @@ Bytes(o + 12, <<16 * doff>>)
Dns(o, id, b2, b3, q, a) == Bytes(o, id \o <<b2, b3, 0, q, 0, a>>)

UdpFrame(n, payload) == [len |-> 42 + n, bytes |-> Ip(69, 17) @@ Ports(34) @@ payload]
TcpFrame(doff, n)    == [len |-> 34 + 4 * doff + n, bytes |-> Ip(69, 6) @@ Tcp(34, doff)]

Catalogue ==
  [ runt      |-> [len |-> 10,   bytes |-> Nothing],
    \* An 802.3 length field that is also the number of UDP, resp. above the range.
    length17  |-> [len |-> 60,   bytes |-> Ethernet(17) @@ Ports(14)],
    qinq      |-> [len |-> 60,   bytes |-> Ethernet(37120)],
    vlan      |-> [len |-> 60,   bytes |-> Ethernet(33024)],
    arp       |-> [len |-> 42,   bytes |-> Ethernet(2054)],
    arpPadded |-> [len |-> 60,   bytes |-> Ethernet(2054)],
    arpShort  |-> [len |-> 41,   bytes |-> Ethernet(2054)],
    arpCut    |-> [len |-> 30,   bytes |-> Ethernet(2054)],
    icmp      |-> [len |-> 46,   bytes |-> Ip(69, 1)],
    \* An echo request whose data starts like a DHCP message.
    icmpOneOne|-> [len |-> 52,   bytes |-> Ip(69, 1) @@ Bytes(42, <<1, 1>>)],
    \* A router advertisement.
    icmpOther |-> [len |-> 50,   bytes |-> Ip(69, 1) @@ Bytes(34, <<9>>)],
    icmpShort |-> [len |-> 41,   bytes |-> Ip(69, 1)],
    udpEmpty  |-> UdpFrame(0, Nothing),
    udpShort  |-> [len |-> 41,   bytes |-> Ip(69, 17)],
    dnsQuery  |-> UdpFrame(29, Dns(42, <<171, 205>>, 1, 0, 1, 0)),
    dnsReply  |-> UdpFrame(45, Dns(42, <<171, 205>>, 129, 128, 1, 1)),
    dnsError  |-> UdpFrame(29, Dns(42, <<171, 205>>, 129, 131, 1, 0)),
    dnsTiny   |-> UdpFrame(12, Dns(42, <<171, 205>>, 1, 0, 1, 0)),
    \* A query without a question, and nothing behind its header.
    dnsNone   |-> UdpFrame(12, Dns(42, <<171, 205>>, 1, 0, 0, 0)),
    \* A query whose identifier reads as a DHCP operation and hardware type.
    dnsId0105 |-> UdpFrame(29, Dns(42, <<1, 5>>, 1, 0, 1, 0)),
    dhcp      |-> UdpFrame(240, Bytes(42, <<1, 1, 6>>)),
    dhcpShort |-> UdpFrame(9, Bytes(42, <<2, 20>>)),
    tcpAck    |-> TcpFrame(5, 0),
    tcpHttp   |-> TcpFrame(5, 16),
    tcpOptions|-> TcpFrame(8, 16),
    tcpOther  |-> TcpFrame(5, 4),
    tcpShort  |-> [len |-> 44,   bytes |-> Ip(69, 6) @@ Ports(34)],
    big       |-> TcpFrame(5, 1446),
    ipOptions |-> [len |-> 50,   bytes |-> Ip(70, 17) @@ Ports(38)],
    ipCut     |-> [len |-> 30,   bytes |-> Ip(69, 17)],
    ipTiny    |-> [len |-> 23,   bytes |-> Ethernet(2048) @@ Bytes(14, <<64>>)],
    ipVersion |-> [len |-> 60,   bytes |-> Ip(85, 17) @@ Ports(34)],
    ipv6      |-> [len |-> 60,   bytes |-> Ethernet(34525) @@ Bytes(14, <<96>>)],
    ipv6as4   |-> [len |-> 60,   bytes |-> Ip(101, 17) @@ Ports(34)] ]

AllFrames == DOMAIN Catalogue

MCFrameLen == [f \in AllFrames |-> Catalogue[f].len]

MCWire(f, i) == IF i \in DOMAIN Catalogue[f].bytes THEN Catalogue[f].bytes[i] ELSE 0

\* The payloads of tcpHttp, tcpOptions and big are HTTP messages.
MCHttpAccepts(f, o, n) == \/ f \in {"tcpHttp", "big"} /\ o = 54
                          \/ f = "tcpOptions" /\ o = 66

\* Leftovers that make a short IP packet pass for UDP or TCP, and a short TCP
\* header give a data offset of 0, 1 or 2 words.
MCSlack == {0, 6, 17, 32}
=============================================================================
