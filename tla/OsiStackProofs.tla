--------------------------- MODULE OsiStackProofs ---------------------------
(***************************************************************************)
(* Proofs about the OSI stack, for any set of frames, any contents of the  *)
(* frames, any heap and any order of registration.                         *)
(***************************************************************************)
EXTENDS OsiStack, TLAPS, SequenceTheorems

-----------------------------------------------------------------------------
\* Facts about the dissectors.

\* What is captured of a frame fits the buffer.
LEMMA CapturedType == \A f \in Frames : Captured(f) \in 0..PACKET_SIZE
  BY FrameAssumption, SizeAssumption DEF Captured

\* Every byte read from a packet that is a suffix of its frame is a byte,
\* also the ones read behind its end.
LEMMA AtType ==
  ASSUME NEW p \in Packet, SuffixOf(p, p.frame), NEW i \in Nat
  PROVE  At(p, i) \in Byte
<1>1. p.frame \in Frames /\ p.off \in Nat /\ p.size \in Nat /\ p.slack \in Byte
  BY SizeAssumption DEF Packet
<1>2. CASE i < p.size
  <2>1. p.off + i \in 0..(PACKET_SIZE - 1)
    BY <1>1, <1>2, CapturedType, SizeAssumption DEF SuffixOf
  <2> QED BY <1>1, <1>2, <2>1, WireAssumption DEF At
<1>3. CASE ~(i < p.size)
  BY <1>1, <1>3 DEF At
<1> QED BY <1>2, <1>3

\* The header a dissector skips fits the packet it accepted, so that the
\* subtraction of sizes does not wrap.
LEMMA HeaderFits ==
  ASSUME NEW p \in Packet, SuffixOf(p, p.frame), NEW d \in Decapsulating, handles(d, p)
  PROVE  header_size(d, p) \in 0..p.size
<1>1. p.size \in Nat
  BY SizeAssumption DEF Packet
<1>2. At(p, 0) \in Nat /\ At(p, 12) \in Nat
  BY AtType DEF Byte
<1>3. ip_hdr_size(p) \in Nat /\ tcp_hdr_size(p) \in Nat
  BY <1>2 DEF ip_hdr_size, tcp_hdr_size
<1>4. CASE d = "Ethernet"
  BY <1>1, <1>4 DEF handles, header_size, ethernet_dissector_handles, ETHER_HEADER
<1>5. CASE d = "IP"
  BY <1>1, <1>3, <1>5 DEF handles, header_size, ip_dissector_handles
<1>6. CASE d = "arp"
  BY <1>1, <1>6 DEF handles, header_size, arp_dissector_handles, ETHER_ARP
<1>7. CASE d = "udp"
  BY <1>1, <1>7 DEF handles, header_size, udp_dissector_handles, UDPHDR
<1>8. CASE d = "icmp"
  BY <1>1, <1>8 DEF handles, header_size, icmp_dissector_handles, ICMPHDR
<1>9. CASE d = "tcp"
  BY <1>1, <1>3, <1>9 DEF handles, header_size, tcp_dissector_handles
<1> QED BY <1>4, <1>5, <1>6, <1>7, <1>8, <1>9 DEF Decapsulating

\* The protocol hint of a decapsulated packet: at least 512 below Ethernet, a
\* byte below IP, 0 elsewhere.
LEMMA HintRange ==
  ASSUME NEW p \in Packet, SuffixOf(p, p.frame), NEW d \in Decapsulating, handles(d, p)
  PROVE  /\ get_hint(d, p) \in Uint16
         /\ d = "Ethernet" => get_hint(d, p) >= 512
         /\ d \notin {"Ethernet", "IP"} => get_hint(d, p) = 0
<1>1. At(p, 9) \in Byte /\ At(p, 12) \in Byte /\ At(p, 13) \in Byte
  BY AtType DEF Byte
<1>2. CASE d = "Ethernet"
  BY <1>1, <1>2 DEF get_hint, handles, ethernet_dissector_handles, ether_type, Net16, Byte, Uint16
<1>3. CASE d = "IP"
  BY <1>1, <1>3 DEF get_hint, Byte, Uint16
<1>4. CASE d \notin {"Ethernet", "IP"}
  BY <1>4 DEF get_hint, Uint16
<1> QED BY <1>2, <1>3, <1>4

\* The session attached to a packet.
LEMMA SessionType ==
  ASSUME NEW p \in Packet, SuffixOf(p, p.frame), NEW d, NEW at \in Addr
  PROVE  osi_create_session(d, p, at) \in Session
<1> DEFINE Id    == IF d = "tcp" THEN [k \in 1..4 |-> At(p, 3 + k)] ELSE [k \in 1..4 |-> 0]
           Src   == [k \in 1..2 |-> At(p, k - 1)]
           Dest  == [k \in 1..2 |-> At(p, k + 1)]
<1>1. \A i \in Nat : At(p, i) \in Byte
  BY AtType
<1>2. Id \in [1..4 -> Byte]
  <2>1. \A k \in 1..4 : At(p, 3 + k) \in Byte
    BY <1>1
  <2> QED BY <2>1 DEF Byte
<1>3. Src \in [1..2 -> Byte]
  <2>1. \A k \in 1..2 : k - 1 \in Nat
    OBVIOUS
  <2> QED BY <1>1, <2>1
<1>4. Dest \in [1..2 -> Byte]
  BY <1>1
<1> QED BY <1>2, <1>3, <1>4 DEF osi_create_session, Session

\* What a decapsulate function builds: a packet that is a suffix of the same
\* frame, right behind the header skipped.
LEMMA DecapsulateType ==
  ASSUME NEW p \in Packet, SuffixOf(p, p.frame), NEW d \in Decapsulating, handles(d, p),
         NEW self \in Addr, NEW data \in Addr, NEW at \in Addr \cup {NULL},
         d \in WithSession => at \in Addr, NEW s \in Byte
  PROVE  /\ decapsulate(d, p, self, data, at, s) \in Packet
         /\ SuffixOf(decapsulate(d, p, self, data, at, s), p.frame)
<1> DEFINE q == decapsulate(d, p, self, data, at, s)
           h == header_size(d, p)
<1>1. /\ p.frame \in Frames /\ p.off \in 0..PACKET_SIZE /\ p.size \in 0..PACKET_SIZE
      /\ PACKET_SIZE \in Nat /\ p.off + p.size = Captured(p.frame)
  BY SizeAssumption DEF Packet, SuffixOf
<1>2. h \in 0..p.size
  BY HeaderFits
<1>3. SizeSub(p.size, h) = p.size - h
  BY <1>1, <1>2 DEF SizeSub
<1>4. /\ SizeSub(p.size, h) \in 0..PACKET_SIZE /\ p.off + h \in 0..PACKET_SIZE
      /\ (p.off + h) + SizeSub(p.size, h) = Captured(p.frame)
  BY <1>1, <1>2, <1>3, CapturedType
<1>5. get_hint(d, p) \in Uint16
  BY HintRange
<1>6. (IF d \in WithSession THEN osi_create_session(d, p, at) ELSE NULL) \in Session \cup {NULL}
  BY SessionType
<1>7. q \in Packet
  BY <1>1, <1>4, <1>5, <1>6 DEF decapsulate, Packet
<1>8. SuffixOf(q, p.frame)
  BY <1>4 DEF decapsulate, SuffixOf
<1> QED BY <1>7, <1>8

\* malloc returns a block that is not in use.
LEMMA MallocFresh ==
  ASSUME NEW used, NEW a \in Malloc(used)
  PROVE  a \in Addr /\ a \notin used
<1>1. Addr \ used # {}
  BY DEF Malloc
<1>2. \E b \in Addr : b \notin used
  BY <1>1
<1> QED BY <1>1, <1>2 DEF Malloc

LEMMA LeftoverType == ASSUME NEW n, NEW s \in Leftover(n) PROVE s \in Byte
  BY SlackAssumption DEF Leftover, Byte
-----------------------------------------------------------------------------
\* The inductive invariant.

\* The recursion has packets exactly while there is a walk, or a packet
\* waiting for one.
WalkShape == /\ walk = "idle" => Len(stack) <= 1
             /\ walk # "idle" => stack # <<>>

TypeInv == OsiTypeOK /\ WalkShape /\ PayloadIsSuffix

\* While a packet is offered to a layer it is the last of the recursion.
LEMMA TopType ==
  ASSUME TypeInv, walk # "idle"
  PROVE  /\ Len(stack) \in Nat /\ Len(stack) >= 1 /\ Len(stack) \in DOMAIN stack
         /\ Top \in Packet /\ SuffixOf(Top, Top.frame) /\ Top.frame = stack[1].frame
  BY DEF TypeInv, WalkShape, OsiTypeOK, PayloadIsSuffix, Top, SuffixOf

\* What a decapsulate function appends to the recursion.
Appended(d, self, data, at, s) ==
  /\ Layer(d) = layer /\ handles(d, Top)
  /\ self \notin live /\ data \notin live \cup {self}
  /\ d \in WithSession => at \in Addr \ (live \cup {self, data})
  /\ stack' = Append(stack, decapsulate(d, Top, self, data, at, s))
  /\ live' = live \cup Blocks(decapsulate(d, Top, self, data, at, s))
  /\ decapsulate(d, Top, self, data, at, s) \in Packet
  /\ SuffixOf(decapsulate(d, Top, self, data, at, s), Top.frame)

LEMMA DecapsulateStep ==
  ASSUME TypeInv, walk = "down", NEW i \in DOMAIN dissectors, osi_find_dissector_by_packet(i),
         dissectors[i] \in Decapsulating, Decapsulate(dissectors[i])
  PROVE  \E self \in Addr, data \in Addr, at \in Addr \cup {NULL}, s \in Byte :
           Appended(dissectors[i], self, data, at, s)
<1> DEFINE d == dissectors[i]
<1>1. PICK self \in Malloc(live) : \E data \in Malloc(live \cup {self}) :
        \E at \in (IF d \in WithSession THEN Malloc(live \cup {self, data}) ELSE {NULL}) :
        \E s \in Leftover(SizeSub(Top.size, header_size(d, Top))) :
          /\ stack' = Append(stack, decapsulate(d, Top, self, data, at, s))
          /\ live' = live \cup Blocks(decapsulate(d, Top, self, data, at, s))
  BY DEF Decapsulate
<1>2. PICK data \in Malloc(live \cup {self}) :
        \E at \in (IF d \in WithSession THEN Malloc(live \cup {self, data}) ELSE {NULL}) :
        \E s \in Leftover(SizeSub(Top.size, header_size(d, Top))) :
          /\ stack' = Append(stack, decapsulate(d, Top, self, data, at, s))
          /\ live' = live \cup Blocks(decapsulate(d, Top, self, data, at, s))
  BY <1>1
<1>3. PICK at \in (IF d \in WithSession THEN Malloc(live \cup {self, data}) ELSE {NULL}) :
      \E s \in Leftover(SizeSub(Top.size, header_size(d, Top))) :
         /\ stack' = Append(stack, decapsulate(d, Top, self, data, at, s))
         /\ live' = live \cup Blocks(decapsulate(d, Top, self, data, at, s))
  BY <1>2
<1>4. PICK s \in Leftover(SizeSub(Top.size, header_size(d, Top))) :
         /\ stack' = Append(stack, decapsulate(d, Top, self, data, at, s))
         /\ live' = live \cup Blocks(decapsulate(d, Top, self, data, at, s))
  BY <1>3
<1>5. s \in Byte
  BY LeftoverType
<1>6. self \in Addr /\ self \notin live
  BY MallocFresh
<1>7. data \in Addr /\ data \notin live \cup {self}
  BY MallocFresh
<1>8. at \in Addr \cup {NULL} /\ (d \in WithSession => at \in Addr \ (live \cup {self, data}))
  BY MallocFresh
<1>9. Layer(d) = layer /\ handles(d, Top)
  BY DEF osi_find_dissector_by_packet, find_dissector_by_packet
<1>10. Top \in Packet /\ SuffixOf(Top, Top.frame)
  BY TopType
<1>11. /\ decapsulate(d, Top, self, data, at, s) \in Packet
       /\ SuffixOf(decapsulate(d, Top, self, data, at, s), Top.frame)
  BY <1>5, <1>6, <1>7, <1>8, <1>9, <1>10, DecapsulateType
<1> QED BY <1>4, <1>5, <1>6, <1>7, <1>8, <1>9, <1>11 DEF Appended

\* The two steps that append a packet.
LEMMA ShowAndDecapsulateStep ==
  ASSUME TypeInv, ShowAndDecapsulate
  PROVE  \E d \in Decapsulating, self \in Addr, data \in Addr, at \in Addr \cup {NULL}, s \in Byte :
           Appended(d, self, data, at, s) /\ out' = Append(out, [by |-> d, packet |-> Top])
<1>1. PICK i \in DOMAIN dissectors :
         /\ osi_find_dissector_by_packet(i)
         /\ dissectors[i] \in Decapsulating
         /\ Decapsulate(dissectors[i])
         /\ out' = Append(out, [by |-> dissectors[i], packet |-> Top])
  BY DEF ShowAndDecapsulate
<1>2. walk = "down"
  BY DEF ShowAndDecapsulate
<1> QED BY <1>1, <1>2, DecapsulateStep

LEMMA TypeOverrunStep ==
  ASSUME TypeInv, TypeOverrun
  PROVE  \E d \in Decapsulating, self \in Addr, data \in Addr, at \in Addr \cup {NULL}, s \in Byte :
           Appended(d, self, data, at, s) /\ out' = out
<1>1. PICK i \in DOMAIN dissectors :
         /\ osi_find_dissector_by_packet(i)
         /\ dissectors[i] = "icmp"
         /\ Decapsulate(dissectors[i])
  BY DEF TypeOverrun
<1>2. walk = "down" /\ out' = out /\ "icmp" \in Decapsulating
  BY DEF TypeOverrun, Decapsulating
<1> QED BY <1>1, <1>2, DecapsulateStep

\* Every step of the stack keeps the types, the shape of the recursion and
\* the extent of its packets.
LEMMA TypeInvInit == OsiInit => TypeInv
  BY DEF OsiInit, TypeInv, OsiTypeOK, WalkShape, PayloadIsSuffix

LEMMA TypeInvStep == TypeInv /\ [OsiNext]_osiVars => TypeInv'
<1> SUFFICES ASSUME TypeInv, [OsiNext]_osiVars PROVE TypeInv'
  OBVIOUS
<1> USE DEF TypeInv, OsiTypeOK, WalkShape, PayloadIsSuffix
<1>1. ASSUME NEW d \in Available, osi_register_dissector(d) PROVE TypeInv'
  BY <1>1, AvailableAssumption DEF osi_register_dissector
<1>2. CASE osi_stack_clear
  BY <1>2 DEF osi_stack_clear
<1>3. CASE CallocBuffer
  BY <1>3, MallocFresh DEF CallocBuffer
<1>4. ASSUME NEW f \in Frames, BuildPacket(f) PROVE TypeInv'
  <2> DEFINE p == [self |-> NULL, data |-> buffer, size |-> Captured(f), protocol |-> 0,
                   session |-> NULL, frame |-> f, off |-> 0, slack |-> 0]
  <2>1. p \in Packet
    BY <1>4, CapturedType, SizeAssumption DEF BuildPacket, Packet, Byte, Uint16
  <2>2. SuffixOf(p, f)
    BY CapturedType DEF SuffixOf
  <2>3. stack' = <<p>> /\ walk' = "idle" /\ UNCHANGED <<dissectors, walk, layer, live, buffer, out>>
    BY <1>4 DEF BuildPacket
  <2>4. stack' \in Seq(Packet) /\ Len(stack') = 1 /\ \A i \in DOMAIN stack' : i = 1 /\ stack'[i] = p
    BY <2>1, <2>3
  <2>5. \A i \in DOMAIN stack' : SuffixOf(stack'[i], stack'[1].frame)
    BY <2>2, <2>3
  <2> QED BY <2>3, <2>4, <2>5
<1>5. CASE FreeBuffer
  BY <1>5 DEF FreeBuffer
<1>6. CASE DumpPacket
  BY <1>6 DEF DumpPacket
<1>7. CASE NotHandled
  BY <1>7 DEF NotHandled, GoOnWithSamePacket
<1>8. CASE ShowOnly
  <2>1. PICK i \in DOMAIN dissectors : out' = Append(out, [by |-> dissectors[i], packet |-> Top])
    BY <1>8 DEF ShowOnly
  <2>2. /\ Top \in Packet /\ SuffixOf(Top, stack[1].frame)
        /\ UNCHANGED <<dissectors, stack, live, buffer>> /\ stack # <<>>
        /\ walk' \in {"down", "up"} /\ walk # "idle" /\ layer' \in 1..8
    BY <1>8, TopType DEF ShowOnly, GoOnWithSamePacket
  <2>3. out' \in Seq(Entry)
    <3>1. [by |-> dissectors[i], packet |-> Top] \in Entry
      BY <2>2 DEF Entry
    <3> QED BY <2>1, <3>1
  <2>4. \A k \in DOMAIN out' : SuffixOf(out'[k].packet, stack'[1].frame)
    BY <2>1, <2>2
  <2> QED BY <2>2, <2>3, <2>4
<1>9. CASE ShowAndDecapsulate
  <2>1. PICK d \in Decapsulating, p \in Packet :
           /\ stack' = Append(stack, p) /\ live' = live \cup Blocks(p)
           /\ SuffixOf(p, Top.frame)
           /\ out' = Append(out, [by |-> d, packet |-> Top])
           /\ Blocks(p) \subseteq Addr
    <3>1. PICK d \in Decapsulating, self \in Addr, data \in Addr, at \in Addr \cup {NULL}, s \in Byte :
           Appended(d, self, data, at, s) /\ out' = Append(out, [by |-> d, packet |-> Top])
      BY <1>9, ShowAndDecapsulateStep
    <3>2. Blocks(decapsulate(d, Top, self, data, at, s)) \subseteq Addr
      BY <3>1 DEF Appended, Blocks, decapsulate, osi_create_session
    <3> QED BY <3>1, <3>2 DEF Appended
  <2>2. /\ Top \in Packet /\ SuffixOf(Top, stack[1].frame) /\ Top.frame = stack[1].frame
        /\ UNCHANGED <<dissectors, walk, buffer>> /\ stack # <<>> /\ walk = "down"
        /\ layer' \in 1..8
    BY <1>9, TopType DEF ShowAndDecapsulate
  <2>3. out' \in Seq(Entry) /\ stack' \in Seq(Packet) /\ live' \subseteq Addr
    <3>1. [by |-> d, packet |-> Top] \in Entry
      BY <2>2 DEF Decapsulating, Dissector, Entry
    <3> QED BY <2>1, <2>2, <3>1
  <2>4. stack'[1] = stack[1] /\ stack' # <<>>
    BY <2>1, <2>2, TopType
  <2>5. \A k \in DOMAIN out' : SuffixOf(out'[k].packet, stack'[1].frame)
    BY <2>1, <2>2, <2>4
  <2>6. \A k \in DOMAIN stack' : SuffixOf(stack'[k], stack'[1].frame)
    BY <2>1, <2>2, <2>4
  <2> QED BY <2>2, <2>3, <2>4, <2>5, <2>6
<1>10. CASE OutOfMemory
  BY <1>10 DEF OutOfMemory
<1>11. CASE BottomOut
  BY <1>11 DEF BottomOut
<1>12. CASE osi_destroy_packet
  <2>1. Len(stack) \in Nat /\ Len(stack) > 1 /\ walk = "up"
    BY <1>12 DEF osi_destroy_packet
  <2>2. /\ stack' = SubSeq(stack, 1, Len(stack) - 1) /\ live' \subseteq live
        /\ UNCHANGED <<dissectors, walk, layer, buffer, out>>
    BY <1>12 DEF osi_destroy_packet
  <2>3. /\ stack' \in Seq(Packet) /\ Len(stack') = Len(stack) - 1
        /\ \A i \in 1..(Len(stack) - 1) : stack'[i] = stack[i]
    BY <2>1, <2>2
  <2>4. stack' # <<>> /\ stack'[1] = stack[1]
    BY <2>1, <2>3
  <2>5. ASSUME NEW i \in DOMAIN stack' PROVE SuffixOf(stack'[i], stack'[1].frame)
    <3>1. i \in 1..(Len(stack) - 1) /\ i \in DOMAIN stack
      BY <2>1, <2>3
    <3>2. SuffixOf(stack[i], stack[1].frame)
      BY <3>1
    <3> QED BY <2>3, <2>4, <3>1, <3>2
  <2> QED BY <2>1, <2>2, <2>3, <2>4, <2>5
<1>13. CASE PacketFooter
  <2>1. Len(stack) = 1 /\ walk' = "idle" /\ layer' = 1
    BY <1>13 DEF PacketFooter
  <2>2. dissectors' = dissectors /\ stack' = stack /\ live' = live /\ buffer' = buffer /\ out' = out
    BY <1>13 DEF PacketFooter
  <2>3. OsiTypeOK'
    BY <2>1, <2>2
  <2>4. WalkShape'
    <3>1. Len(stack') = Len(stack)
      BY <2>2
    <3>2. Len(stack') <= 1 /\ walk' = "idle"
      BY <2>1, <3>1
    <3> QED BY <3>2
  <2>5. PayloadIsSuffix'
    BY <2>1, <2>2
  <2> QED BY <2>3, <2>4, <2>5
<1>14. CASE UNCHANGED osiVars
  BY <1>14 DEF osiVars
<1>15. CASE TypeOverrun
  <2>1. PICK p \in Packet : /\ stack' = Append(stack, p) /\ live' = live \cup Blocks(p)
                            /\ SuffixOf(p, Top.frame) /\ Blocks(p) \subseteq Addr
    <3>1. PICK d \in Decapsulating, self \in Addr, data \in Addr, at \in Addr \cup {NULL}, s \in Byte :
           Appended(d, self, data, at, s)
      BY <1>15, TypeOverrunStep
    <3>2. Blocks(decapsulate(d, Top, self, data, at, s)) \subseteq Addr
      BY <3>1 DEF Appended, Blocks, decapsulate, osi_create_session
    <3> QED BY <3>1, <3>2 DEF Appended
  <2>2. /\ Top.frame = stack[1].frame /\ stack # <<>> /\ walk # "idle" /\ walk' = "crashed"
        /\ UNCHANGED <<dissectors, layer, buffer, out>>
    BY <1>15, TopType DEF TypeOverrun
  <2>3. stack' \in Seq(Packet) /\ live' \subseteq Addr
    BY <2>1
  <2>4. stack'[1] = stack[1] /\ stack' # <<>>
    BY <2>1, <2>2, TopType
  <2>5. \A k \in DOMAIN stack' : SuffixOf(stack'[k], stack'[1].frame)
    BY <2>1, <2>2, <2>4
  <2> QED BY <2>2, <2>3, <2>4, <2>5
<1> QED
  BY <1>1, <1>2, <1>3, <1>4, <1>5, <1>6, <1>7, <1>8, <1>9, <1>10, <1>11, <1>12, <1>13, <1>14, <1>15
  DEF OsiNext, WalkStep

\* The state of the stack has its types, and no size computed on the way down
\* wraps around, whatever the frames hold.
THEOREM OsiTypeCorrect == OsiSpec => []OsiTypeOK
<1>1. TypeInv => OsiTypeOK
  BY DEF TypeInv
<1> QED BY <1>1, TypeInvInit, TypeInvStep, PTL DEF OsiSpec

THEOREM OsiPayloadIsSuffix == OsiSpec => []PayloadIsSuffix
<1>1. TypeInv => PayloadIsSuffix
  BY DEF TypeInv
<1> QED BY <1>1, TypeInvInit, TypeInvStep, PTL DEF OsiSpec

-----------------------------------------------------------------------------
\* What a step of the walk leaves alone, and where it can lead: the caller's
\* packet stays where it is until the walk is over.
LEMMA WalkStepFacts ==
  ASSUME TypeInv, TypeInv', WalkStep
  PROVE  /\ UNCHANGED <<dissectors, buffer>>
         /\ walk' \in {"idle", "down", "up", "crashed"}
         /\ stack # <<>> /\ stack' # <<>> /\ stack'[1] = stack[1]
<1>1. UNCHANGED <<dissectors, buffer>>
  BY DEF WalkStep, NotHandled, ShowOnly, ShowAndDecapsulate, OutOfMemory, TypeOverrun, BottomOut, osi_destroy_packet, PacketFooter
<1>2. walk' \in {"idle", "down", "up", "crashed"} /\ walk \in {"down", "up"}
  BY DEF WalkStep, NotHandled, ShowOnly, GoOnWithSamePacket, ShowAndDecapsulate, OutOfMemory, TypeOverrun, BottomOut,
         osi_destroy_packet, PacketFooter
<1>3. stack \in Seq(Packet) /\ Len(stack) \in Nat /\ Len(stack) >= 1
  BY <1>2, TopType DEF TypeInv, OsiTypeOK
<1>4. CASE NotHandled \/ ShowOnly \/ OutOfMemory \/ BottomOut \/ PacketFooter
  <2>1. stack' = stack
    BY <1>4 DEF NotHandled, ShowOnly, OutOfMemory, BottomOut, PacketFooter
  <2> QED BY <1>1, <1>2, <1>3, <2>1
<1>5. CASE ShowAndDecapsulate \/ TypeOverrun
  <2>1. PICK d \in Decapsulating, self \in Addr, data \in Addr, at \in Addr \cup {NULL}, s \in Byte :
          Appended(d, self, data, at, s)
    BY <1>5, ShowAndDecapsulateStep, TypeOverrunStep
  <2> DEFINE q == decapsulate(d, Top, self, data, at, s)
  <2>3. q \in Packet /\ stack' = Append(stack, q)
    BY <2>1 DEF Appended
  <2> HIDE DEF q
  <2>2. stack' # <<>> /\ stack'[1] = stack[1]
    BY <1>3, <2>3
  <2> QED BY <1>1, <1>2, <1>3, <2>2
<1>6. CASE osi_destroy_packet
  <2> DEFINE n == Len(stack) - 1
  <2>1. n \in 1..Len(stack) /\ stack' = SubSeq(stack, 1, n)
    BY <1>3, <1>6 DEF osi_destroy_packet
  <2> HIDE DEF n
  <2>2. Len(stack') = n /\ stack'[1] = stack[1]
    BY <1>3, <2>1, SubSeqProperties
  <2>3. stack' # <<>>
    BY <2>1, <2>2
  <2> QED BY <1>1, <1>2, <1>3, <2>2, <2>3
<1> QED BY <1>4, <1>5, <1>6 DEF WalkStep

-----------------------------------------------------------------------------
\* The heap.

\* The blocks of a packet built: fresh ones, all different.
LEMMA NewBlocks ==
  ASSUME TypeInv, ShowAndDecapsulate \/ TypeOverrun
  PROVE  \E p \in Packet :
           /\ stack' = Append(stack, p) /\ live' = live \cup Blocks(p)
           /\ Blocks(p) \subseteq Addr \ live
           /\ p.self # p.data
           /\ p.session # NULL => p.session.at \notin {p.self, p.data}
           /\ UNCHANGED buffer
<1>1. PICK d \in Decapsulating, self \in Addr, data \in Addr, at \in Addr \cup {NULL}, s \in Byte :
           Appended(d, self, data, at, s)
  BY ShowAndDecapsulateStep, TypeOverrunStep
<1> DEFINE p == decapsulate(d, Top, self, data, at, s)
<1>2. p.self = self /\ p.data = data
  BY DEF decapsulate
<1>3. p.session # NULL => d \in WithSession /\ p.session.at = at
  BY DEF decapsulate, osi_create_session
<1>4. Blocks(p) \subseteq Addr \ live
  BY <1>1, <1>2, <1>3 DEF Appended, Blocks
<1>5. UNCHANGED buffer
  BY DEF ShowAndDecapsulate, TypeOverrun
<1>6. self # data /\ (d \in WithSession => at \notin {self, data})
  BY <1>1 DEF Appended
<1>7. p \in Packet /\ stack' = Append(stack, p) /\ live' = live \cup Blocks(p)
  BY <1>1 DEF Appended
<1> QED BY <1>2, <1>3, <1>4, <1>5, <1>6, <1>7

LEMMA HeapExactInit == OsiInit => HeapExact
  BY NullAssumption DEF OsiInit, HeapExact, Built

LEMMA HeapExactStep == TypeInv /\ HeapExact /\ [OsiNext]_osiVars => HeapExact'
<1> SUFFICES ASSUME TypeInv, HeapExact, [OsiNext]_osiVars PROVE HeapExact'
  OBVIOUS
<1>1. ASSUME UNCHANGED <<stack, live, buffer>> PROVE HeapExact'
  BY <1>1 DEF HeapExact, Built
<1>2. CASE CallocBuffer
  <2>1. PICK a \in Addr : buffer' = a /\ live' = live \cup {a} /\ stack' = stack
    BY <1>2, MallocFresh DEF CallocBuffer
  <2>2. stack = <<>> /\ live = {}
    <3>1. stack = <<>> /\ buffer = NULL
      BY <1>2 DEF CallocBuffer, HeapExact
    <3>2. Built = {}
      BY <3>1 DEF Built
    <3> QED BY <3>1, <3>2, NullAssumption DEF HeapExact
  <2>3. Len(stack') = 0 /\ live' = {buffer'} /\ buffer' # NULL
    BY <2>1, <2>2, NullAssumption
  <2> QED BY <2>1, <2>2, <2>3 DEF HeapExact, Built
<1>3. ASSUME NEW f \in Frames, BuildPacket(f) PROVE HeapExact'
  <2>1. stack = <<>> /\ buffer # NULL /\ live' = live /\ buffer' = buffer
    BY <1>3 DEF BuildPacket
  <2>2. live = {buffer}
    <3>1. Built = {} /\ buffer \in Addr
      BY <2>1 DEF Built, TypeInv, OsiTypeOK
    <3> QED BY <3>1 DEF HeapExact
  <2>3. Len(stack') = 1 /\ stack'[1].data = buffer
    BY <1>3 DEF BuildPacket
  <2> QED BY <2>1, <2>2, <2>3 DEF HeapExact, Built
<1>4. CASE FreeBuffer
  <2>1. Len(stack) = 1
    <3>1. stack \in Seq(Packet) /\ Len(stack) <= 1 /\ stack # <<>>
      BY <1>4 DEF FreeBuffer, TypeInv, WalkShape, OsiTypeOK
    <3>2. Len(stack) \in Nat /\ Len(stack) # 0
      BY <3>1
    <3>3. Len(stack) <= 1
      BY <3>1
    <3> DEFINE n == Len(stack)
    <3>4. n \in Nat /\ n # 0 /\ n <= 1
      BY <3>2, <3>3
    <3> HIDE DEF n
    <3>5. n = 1
      BY <3>4
    <3> QED BY <3>5 DEF n
  <2>2. live = {buffer}
    <3>1. Built = {} /\ buffer \in Addr
      BY <2>1, <1>4 DEF Built, TypeInv, OsiTypeOK, FreeBuffer, HeapExact
    <3> QED BY <3>1 DEF HeapExact
  <2>3. Len(stack') = 0 /\ stack' = <<>> /\ live' = {} /\ buffer' = NULL
    BY <1>4, <2>2 DEF FreeBuffer
  <2>4. Built' = {}
    BY <2>3 DEF Built
  <2> QED BY <2>3, <2>4, NullAssumption DEF HeapExact
<1>5. CASE ShowAndDecapsulate \/ TypeOverrun
  <2>1. PICK p \in Packet :
           /\ stack' = Append(stack, p) /\ live' = live \cup Blocks(p)
           /\ Blocks(p) \subseteq Addr \ live
           /\ p.self # p.data
           /\ p.session # NULL => p.session.at \notin {p.self, p.data}
           /\ buffer' = buffer
    BY <1>5, NewBlocks
  <2> DEFINE n == Len(stack)
  <2>2. n \in Nat /\ n >= 1 /\ stack \in Seq(Packet) /\ stack # <<>>
    BY <1>5, TopType DEF ShowAndDecapsulate, TypeOverrun, TypeInv, OsiTypeOK, WalkShape
  <2>3. /\ Len(stack') = n + 1 /\ stack'[n + 1] = p
        /\ \A i \in 1..n : stack'[i] = stack[i]
    BY <2>1, <2>2
  <2>4. Built = 2..n /\ Built' = 2..(n + 1) /\ Built' = Built \cup {n + 1} /\ n + 1 \notin Built
    BY <2>2, <2>3 DEF Built
  <2>5. buffer \in live /\ \A i \in Built : Blocks(stack[i]) \subseteq live
    <3>1. buffer \in Addr
      BY <2>2 DEF HeapExact, TypeInv, OsiTypeOK
    <3> QED BY <3>1 DEF HeapExact
  <2>6. \A i \in Built : stack'[i] = stack[i]
    BY <2>3, <2>4
  <2>7. \A a : (\E i \in Built' : a \in Blocks(stack'[i]))
                 <=> (\E i \in Built : a \in Blocks(stack[i])) \/ a \in Blocks(p)
    BY <2>3, <2>4, <2>6
  <2>8. live' = {a \in Addr : a = buffer' \/ \E i \in Built' : a \in Blocks(stack'[i])}
    BY <2>1, <2>7 DEF HeapExact
  <2>9. Blocks(p) \subseteq Addr /\ buffer \notin Blocks(p)
    BY <2>1, <2>5, NullAssumption
  <2>10. \A i \in Built' : /\ Blocks(stack'[i]) \subseteq Addr /\ buffer' \notin Blocks(stack'[i])
                           /\ stack'[i].self # stack'[i].data
                           /\ stack'[i].session # NULL => stack'[i].session.at \notin {stack'[i].self, stack'[i].data}
    BY <2>1, <2>3, <2>4, <2>6, <2>9 DEF HeapExact
  <2>11. \A i, j \in Built' : i # j => Blocks(stack'[i]) \cap Blocks(stack'[j]) = {}
    <3>1. \A i \in Built : Blocks(stack[i]) \cap Blocks(p) = {}
      BY <2>1, <2>5
    <3>2. \A i, j \in Built : i # j => Blocks(stack[i]) \cap Blocks(stack[j]) = {}
      BY DEF HeapExact
    <3> QED BY <3>1, <3>2, <2>3, <2>4, <2>6
  <2>12. stack' # <<>> => stack'[1].data = buffer' /\ buffer' # NULL
    BY <2>1, <2>2, <2>3 DEF HeapExact
  <2> QED BY <2>8, <2>10, <2>11, <2>12 DEF HeapExact
<1>6. CASE osi_destroy_packet
  <2> DEFINE n == Len(stack)
  <2>1. n \in Nat /\ n > 1 /\ stack \in Seq(Packet) /\ Top = stack[n]
    BY <1>6 DEF osi_destroy_packet, TypeInv, OsiTypeOK, Top
  <2>2. /\ Len(stack') = n - 1 /\ \A i \in 1..(n - 1) : stack'[i] = stack[i]
        /\ live' = live \ Blocks(stack[n]) /\ buffer' = buffer
    BY <1>6, <2>1 DEF osi_destroy_packet
  <2>3. Built = 2..n /\ Built' = 2..(n - 1) /\ Built = Built' \cup {n} /\ n \notin Built'
    BY <2>1, <2>2 DEF Built
  <2>4. \A i \in Built' : stack'[i] = stack[i]
    BY <2>2, <2>3
  <2>5. \A i \in Built' : Blocks(stack[i]) \cap Blocks(stack[n]) = {}
    BY <2>3 DEF HeapExact
  <2>6. \A a : (\E i \in Built : a \in Blocks(stack[i]))
                 <=> (\E i \in Built' : a \in Blocks(stack'[i])) \/ a \in Blocks(stack[n])
    BY <2>3, <2>4
  <2>7. buffer \notin Blocks(stack[n])
    BY <2>3 DEF HeapExact
  <2>8. \A i \in Built' : Blocks(stack'[i]) \cap Blocks(stack[n]) = {}
    BY <2>4, <2>5
  <2>9. live' = {a \in Addr : a = buffer' \/ \E i \in Built' : a \in Blocks(stack'[i])}
    <3>1. \A a \in live : a \in Addr /\ (a = buffer \/ \E i \in Built : a \in Blocks(stack[i]))
      BY DEF HeapExact
    <3>2. \A a \in Addr : a = buffer \/ (\E i \in Built' : a \in Blocks(stack'[i])) => a \in live
      BY <2>6 DEF HeapExact
    <3>3. \A a \in Addr : a = buffer \/ (\E i \in Built' : a \in Blocks(stack'[i])) => a \notin Blocks(stack[n])
      BY <2>7, <2>8
    <3>4. \A a \in live' : a \in Addr /\ (a = buffer \/ \E i \in Built' : a \in Blocks(stack'[i]))
      BY <3>1, <2>2, <2>6
    <3> QED BY <2>2, <3>2, <3>3, <3>4
  <2>10. \A i \in Built' : /\ Blocks(stack'[i]) \subseteq Addr /\ buffer' \notin Blocks(stack'[i])
                           /\ stack'[i].self # stack'[i].data
                           /\ stack'[i].session # NULL => stack'[i].session.at \notin {stack'[i].self, stack'[i].data}
    BY <2>2, <2>3, <2>4 DEF HeapExact
  <2>11. \A i, j \in Built' : i # j => Blocks(stack'[i]) \cap Blocks(stack'[j]) = {}
    BY <2>3, <2>4 DEF HeapExact
  <2>12. stack'[1] = stack[1] /\ stack # <<>>
    BY <2>1, <2>2
  <2>13. stack'[1].data = buffer' /\ buffer' # NULL
    BY <2>2, <2>12 DEF HeapExact
  <2> QED BY <2>9, <2>10, <2>11, <2>13 DEF HeapExact
<1>7. ASSUME NEW d \in Available, osi_register_dissector(d) PROVE HeapExact'
  BY <1>1, <1>7 DEF osi_register_dissector
<1>8. CASE \/ osi_stack_clear \/ DumpPacket \/ NotHandled \/ ShowOnly
           \/ OutOfMemory \/ BottomOut \/ PacketFooter
  BY <1>1, <1>8 DEF osi_stack_clear, DumpPacket, NotHandled, ShowOnly, OutOfMemory, BottomOut, PacketFooter
<1>9. CASE UNCHANGED osiVars
  BY <1>1, <1>9 DEF osiVars
<1> QED
  BY <1>2, <1>3, <1>4, <1>5, <1>6, <1>7, <1>8, <1>9 DEF OsiNext, WalkStep

\* The heap holds exactly what the recursion and the reader still own: no
\* block is leaked, freed twice or freed while in use.
THEOREM OsiHeapExact == OsiSpec => []HeapExact
  BY TypeInvInit, TypeInvStep, HeapExactInit, HeapExactStep, PTL DEF OsiSpec

-----------------------------------------------------------------------------
\* What is on the screen.

\* Packet q is what the dissector of header e made of the packet it showed.
Linked(e, q) == /\ e.by \in Decapsulating
                /\ q.protocol = get_hint(e.by, e.packet)
                /\ q.off = e.packet.off + header_size(e.by, e.packet)
                /\ q.session # NULL => e.by \in WithSession

\* The headers shown form a chain down the layers, each accepted by the
\* dissector that showed it; while the walk goes down, the packet offered to
\* the next layer is the last one's payload.
Chain ==
  /\ \A i \in DOMAIN out : handles(out[i].by, out[i].packet) /\ SuffixOf(out[i].packet, out[i].packet.frame)
  /\ \A i \in DOMAIN out : i # 1 => /\ Layer(out[i - 1].by) < Layer(out[i].by)
                                    /\ Linked(out[i - 1], out[i].packet)
  /\ out # <<>> => Layer(out[1].by) = 1 /\ out[1].packet.off = 0
  /\ stack # <<>> => stack[1].off = 0
  /\ walk = "down" /\ out = <<>> => layer = 1 /\ Len(stack) = 1
  /\ walk = "down" /\ out # <<>> =>
       /\ layer > Layer(out[Len(out)].by)
       /\ layer <= 7 => Linked(out[Len(out)], Top)

\* The layer of a dissector, and which ones build packets.
LEMMA LayerFacts ==
  ASSUME NEW d \in Dissector
  PROVE  /\ Layer(d) \in 1..7
         /\ d \in Decapsulating <=> Layer(d) # 7
         /\ Layer(d) = 1 => d = "Ethernet"
         /\ Layer(d) = 2 => d \in {"IP", "arp"}
         /\ Layer(d) = 3 => d \in {"tcp", "udp", "icmp"}
  BY DEF Dissector, Layer, Decapsulating

LEMMA ChainInit == OsiInit => Chain
  BY DEF OsiInit, Chain

\* Adding to the screen the header that dissector d shows of the packet
\* offered to it keeps the chain.
LEMMA ShowKeepsChain ==
  ASSUME TypeInv, Chain, walk = "down", NEW d \in Dissector, Layer(d) = layer, handles(d, Top),
         out' = Append(out, [by |-> d, packet |-> Top])
  PROVE  /\ \A i \in DOMAIN out' : handles(out'[i].by, out'[i].packet) /\ SuffixOf(out'[i].packet, out'[i].packet.frame)
         /\ \A i \in DOMAIN out' : i # 1 => /\ Layer(out'[i - 1].by) < Layer(out'[i].by)
                                            /\ Linked(out'[i - 1], out'[i].packet)
         /\ Layer(out'[1].by) = 1 /\ out'[1].packet.off = 0
         /\ out' # <<>> /\ out'[Len(out')] = [by |-> d, packet |-> Top]
<1> DEFINE e == [by |-> d, packet |-> Top]
           n == Len(out)
<1>1. out \in Seq(Entry) /\ n \in Nat
  BY DEF TypeInv, OsiTypeOK
<1>2. Top \in Packet /\ SuffixOf(Top, Top.frame)
  BY TopType
<1>3. /\ Len(out') = n + 1 /\ out'[n + 1] = e /\ out' # <<>>
      /\ \A i \in 1..n : out'[i] = out[i]
  BY <1>1
<1>4. e.by = d /\ e.packet = Top
  OBVIOUS
<1>5. layer <= 7
  <2>1. Layer(d) \in 1..7
    BY LayerFacts
  <2> QED BY <2>1
<1>6. CASE out = <<>>
  <2>1. n = 0 /\ layer = 1 /\ Len(stack) = 1 /\ Top = stack[1] /\ stack[1].off = 0
    <3>1. n = 0 /\ layer = 1 /\ Len(stack) = 1
      BY <1>6 DEF Chain
    <3>2. Top = stack[1]
      BY <3>1 DEF Top
    <3>3. stack # <<>>
      BY DEF TypeInv, WalkShape
    <3> QED BY <3>1, <3>2, <3>3 DEF Chain
  <2> QED BY <1>2, <1>3, <1>4, <2>1
<1>7. CASE out # <<>>
  <2>1. n \in 1..n /\ 1 \in 1..n
    BY <1>1, <1>7
  <2>2. layer > Layer(out[n].by) /\ Linked(out[n], Top)
    BY <1>5, <1>7 DEF Chain
  <2>3. \A i \in 1..n : handles(out[i].by, out[i].packet) /\ SuffixOf(out[i].packet, out[i].packet.frame)
    BY <1>1 DEF Chain
  <2>4. \A i \in DOMAIN out' : handles(out'[i].by, out'[i].packet) /\ SuffixOf(out'[i].packet, out'[i].packet.frame)
    BY <1>1, <1>2, <1>3, <1>4, <2>3
  <2>5. Layer(out'[1].by) = 1 /\ out'[1].packet.off = 0
    BY <1>3, <1>7, <2>1 DEF Chain
  <2>6. ASSUME NEW i \in DOMAIN out', i # 1
        PROVE  Layer(out'[i - 1].by) < Layer(out'[i].by) /\ Linked(out'[i - 1], out'[i].packet)
    <3>1. i \in 1..(n + 1) /\ i - 1 \in 1..n
      BY <1>1, <1>3, <2>6
    <3>2. CASE i = n + 1
      BY <1>3, <1>4, <2>1, <2>2, <3>1, <3>2, <1>1
    <3>3. CASE i \in 1..n
      <4>1. i \in DOMAIN out
        BY <1>1, <3>3
      <4>2. Layer(out[i - 1].by) < Layer(out[i].by) /\ Linked(out[i - 1], out[i].packet)
        BY <2>6, <4>1 DEF Chain
      <4> QED BY <1>3, <3>1, <3>3, <4>2
    <3> QED BY <1>1, <3>1, <3>2, <3>3
  <2> QED BY <1>3, <2>4, <2>5, <2>6
<1> QED BY <1>6, <1>7

LEMMA ChainStep == TypeInv /\ Chain /\ [OsiNext]_osiVars => Chain'
<1> SUFFICES ASSUME TypeInv, Chain, [OsiNext]_osiVars PROVE Chain'
  OBVIOUS
<1>1. ASSUME UNCHANGED <<stack, out>>, walk' # "down" PROVE Chain'
  BY <1>1 DEF Chain
<1>2. ASSUME UNCHANGED <<stack, out, walk, layer>> PROVE Chain'
  BY <1>2 DEF Chain, Top
<1>3. ASSUME NEW d \in Available, osi_register_dissector(d) PROVE Chain'
  BY <1>2, <1>3 DEF osi_register_dissector
<1>4. CASE osi_stack_clear \/ CallocBuffer
  BY <1>2, <1>4 DEF osi_stack_clear, CallocBuffer
<1>5. ASSUME NEW f \in Frames, BuildPacket(f) PROVE Chain'
  <2>1. stack'[1].off = 0 /\ out' = out /\ walk' = "idle"
    BY <1>5 DEF BuildPacket
  <2> QED BY <2>1 DEF Chain
<1>6. CASE FreeBuffer
  <2>1. stack' = <<>> /\ out' = out /\ walk' = "idle"
    BY <1>6 DEF FreeBuffer
  <2> QED BY <2>1 DEF Chain
<1>7. CASE DumpPacket
  <2>1. walk = "idle" /\ stack # <<>> /\ stack' = stack /\ out' = <<>> /\ layer' = 1
    BY <1>7 DEF DumpPacket
  <2>2. Len(stack) = 1
    <3> DEFINE n == Len(stack)
    <3>1. n \in Nat /\ n # 0 /\ n <= 1
      BY <2>1 DEF TypeInv, OsiTypeOK, WalkShape
    <3> HIDE DEF n
    <3>2. n = 1
      BY <3>1
    <3> QED BY <3>2 DEF n
  <2>3. DOMAIN out' = {} /\ Len(stack') = 1
    BY <2>1, <2>2
  <2> QED BY <2>1, <2>3 DEF Chain
<1>8. CASE NotHandled
  <2>1. UNCHANGED <<stack, out>> /\ walk = "down" /\ layer \in 1..8
    BY <1>8 DEF NotHandled, TypeInv, OsiTypeOK
  <2>2. CASE layer = 1
    BY <1>1, <1>8, <2>1, <2>2 DEF NotHandled, GoOnWithSamePacket
  <2>3. CASE layer # 1
    <3>1. walk' = "down" /\ layer' = layer + 1 /\ layer <= 7
      BY <1>8, <2>1, <2>3 DEF NotHandled, GoOnWithSamePacket
    <3>2. out # <<>> /\ out \in Seq(Entry)
      BY <2>1, <2>3 DEF Chain, TypeInv, OsiTypeOK
    <3>3. Layer(out[Len(out)].by) \in Nat
      <4>1. Len(out) \in DOMAIN out
        BY <3>2
      <4>2. out[Len(out)] \in Entry
        BY <3>2, <4>1
      <4>3. out[Len(out)].by \in Dissector
        BY <4>2 DEF Entry
      <4>4. Layer(out[Len(out)].by) \in 1..7
        BY <4>3, LayerFacts
      <4> QED BY <4>4
    <3>4. layer > Layer(out[Len(out)].by) /\ Linked(out[Len(out)], Top)
      BY <2>1, <3>1, <3>2 DEF Chain
    <3>5. layer' > Layer(out[Len(out)].by)
      BY <2>1, <3>1, <3>3, <3>4
    <3>6. Top' = Top
      BY <2>1 DEF Top
    <3> QED BY <2>1, <3>1, <3>2, <3>4, <3>5, <3>6 DEF Chain
  <2> QED BY <2>2, <2>3
<1>9. CASE ShowOnly
  <2>1. PICK i \in DOMAIN dissectors :
           /\ Layer(dissectors[i]) = layer /\ handles(dissectors[i], Top)
           /\ dissectors[i] \notin Decapsulating
           /\ out' = Append(out, [by |-> dissectors[i], packet |-> Top])
    BY <1>9 DEF ShowOnly, osi_find_dissector_by_packet, find_dissector_by_packet
  <2> DEFINE d == dissectors[i]
  <2>2. d \in Dissector /\ walk = "down" /\ UNCHANGED stack
    BY <1>9 DEF ShowOnly, TypeInv, OsiTypeOK
  <2>3. layer = 7
    BY <2>1, <2>2, LayerFacts
  <2>4. walk' = "down" /\ layer' = 8
    BY <1>9, <2>2, <2>3 DEF ShowOnly, GoOnWithSamePacket
  <2>5. stack # <<>> /\ stack[1].off = 0
    BY <2>2 DEF TypeInv, WalkShape, Chain
  <2>6. /\ out' # <<>>
        /\ layer' > Layer(out'[Len(out')].by)
        /\ ~(layer' <= 7)
    <3>1. out' # <<>> /\ out'[Len(out')] = [by |-> d, packet |-> Top]
      BY <2>1, <2>2, ShowKeepsChain
    <3>2. Layer(out'[Len(out')].by) = 7
      BY <2>1, <2>3, <3>1
    <3> QED BY <2>4, <3>1, <3>2
  <2>7. /\ \A k \in DOMAIN out' : handles(out'[k].by, out'[k].packet) /\ SuffixOf(out'[k].packet, out'[k].packet.frame)
        /\ \A k \in DOMAIN out' : k # 1 => /\ Layer(out'[k - 1].by) < Layer(out'[k].by)
                                            /\ Linked(out'[k - 1], out'[k].packet)
        /\ Layer(out'[1].by) = 1 /\ out'[1].packet.off = 0
    BY <2>1, <2>2, ShowKeepsChain
  <2> QED BY <2>2, <2>5, <2>6, <2>7 DEF Chain
<1>10. CASE ShowAndDecapsulate
  <2>1. PICK d \in Decapsulating, self \in Addr, data \in Addr, at \in Addr \cup {NULL}, s \in Byte :
           Appended(d, self, data, at, s) /\ out' = Append(out, [by |-> d, packet |-> Top])
    BY <1>10, ShowAndDecapsulateStep
  <2> DEFINE q == decapsulate(d, Top, self, data, at, s)
             e == [by |-> d, packet |-> Top]
  <2>2. d \in Dissector /\ walk = "down" /\ walk' = "down" /\ layer' = layer + 1 /\ layer \in 1..8
    BY <1>10 DEF ShowAndDecapsulate, Decapsulating, Dissector, TypeInv, OsiTypeOK
  <2>3. /\ \A k \in DOMAIN out' : handles(out'[k].by, out'[k].packet) /\ SuffixOf(out'[k].packet, out'[k].packet.frame)
        /\ \A k \in DOMAIN out' : k # 1 => /\ Layer(out'[k - 1].by) < Layer(out'[k].by)
                                            /\ Linked(out'[k - 1], out'[k].packet)
        /\ Layer(out'[1].by) = 1 /\ out'[1].packet.off = 0
        /\ out' # <<>> /\ out'[Len(out')] = e
    BY <2>1, <2>2, ShowKeepsChain DEF Appended
  <2>4. stack \in Seq(Packet) /\ stack # <<>> /\ stack[1].off = 0
    BY <2>2 DEF TypeInv, OsiTypeOK, WalkShape, Chain
  <2>5. stack'[1] = stack[1] /\ Top' = q
    BY <2>1, <2>4, TopType, <2>2 DEF Top, Appended
  <2>6. Linked(e, q)
    BY DEF Linked, decapsulate
  <2>7. layer' > Layer(out'[Len(out')].by)
    <3>1. Layer(out'[Len(out')].by) = layer
      BY <2>1, <2>3 DEF Appended
    <3> QED BY <2>2, <3>1
  <2> QED BY <2>2, <2>3, <2>4, <2>5, <2>6, <2>7 DEF Chain
<1>11. CASE OutOfMemory \/ BottomOut
  BY <1>1, <1>11 DEF OutOfMemory, BottomOut
<1>12. CASE PacketFooter
  BY <1>1, <1>12 DEF PacketFooter
<1>13. CASE osi_destroy_packet
  <2>1. stack' = SubSeq(stack, 1, Len(stack) - 1) /\ Len(stack) > 1 /\ stack \in Seq(Packet)
    BY <1>13 DEF osi_destroy_packet, TypeInv, OsiTypeOK
  <2>2. stack'[1] = stack[1] /\ stack # <<>>
    BY <2>1
  <2>3. out' = out /\ walk' = "up"
    BY <1>13 DEF osi_destroy_packet
  <2> QED BY <2>2, <2>3 DEF Chain
<1>14. CASE UNCHANGED osiVars
  BY <1>2, <1>14 DEF osiVars
<1>15. CASE TypeOverrun
  <2>1. stack'[1] = stack[1] /\ stack # <<>>
    <3>1. PICK p : stack' = Append(stack, p)
      BY <1>15, TypeOverrunStep DEF Appended
    <3> QED BY <1>15, <3>1, TopType DEF TypeOverrun, TypeInv, OsiTypeOK
  <2>2. out' = out /\ walk' = "crashed"
    BY <1>15 DEF TypeOverrun
  <2> QED BY <2>1, <2>2 DEF Chain
<1> QED
  BY <1>3, <1>4, <1>5, <1>6, <1>7, <1>8, <1>9, <1>10, <1>11, <1>12, <1>13, <1>14, <1>15 DEF OsiNext, WalkStep

-----------------------------------------------------------------------------
\* What the chain of headers implies.

LEMMA ChainInvariant == OsiSpec => [](TypeInv /\ Chain)
  BY TypeInvInit, TypeInvStep, ChainInit, ChainStep, PTL DEF OsiSpec

LEMMA EntryType ==
  ASSUME TypeInv, Chain, NEW i \in DOMAIN out
  PROVE  /\ i \in Nat /\ out[i].by \in Dissector /\ out[i].packet \in Packet
         /\ SuffixOf(out[i].packet, out[i].packet.frame)
         /\ handles(out[i].by, out[i].packet)
         /\ i # 1 => i - 1 \in DOMAIN out
<1>1. out \in Seq(Entry)
  BY DEF TypeInv, OsiTypeOK
<1>2. out[i] \in Entry
  BY <1>1
<1>3. i \in 1..Len(out) /\ Len(out) \in Nat
  BY <1>1
<1> QED BY <1>2, <1>3 DEF Chain, Entry

\* The headers are shown from layer 1 up, each from what the one before it
\* left.
THEOREM OsiLayersAscend == OsiSpec => []LayersAscend
<1>1. TypeInv /\ Chain => LayersAscend
  <2> SUFFICES ASSUME TypeInv, Chain, NEW i \in DOMAIN out
               PROVE  IF i = 1 THEN Layer(out[i].by) = 1 /\ out[i].packet.off = 0
                      ELSE /\ Layer(out[i - 1].by) < Layer(out[i].by)
                           /\ out[i].packet.off = out[i - 1].packet.off + header_size(out[i - 1].by, out[i - 1].packet)
    BY DEF LayersAscend
  <2> QED BY DEF Chain, Linked
<1> QED BY <1>1, ChainInvariant, PTL

\* A transport header is only shown below an IP header that announces it: the
\* types of the accepted Ethernet frames and the numbers of the transport
\* protocols have no value in common.
THEOREM OsiTransportOverIP == OsiSpec => []TransportOverIP
<1>1. TypeInv /\ Chain => TransportOverIP
  <2> SUFFICES ASSUME TypeInv, Chain, NEW i \in DOMAIN out, Layer(out[i].by) = 3
               PROVE  /\ i > 1 /\ out[i - 1].by = "IP"
                      /\ At(out[i - 1].packet, 9) = ProtocolNumber(out[i].by)
    BY DEF TransportOverIP
  <2> DEFINE e == out[i]
             f == out[i - 1]
  <2>1. e.by \in {"tcp", "udp", "icmp"}
    BY EntryType, LayerFacts
  <2>2. e.packet.protocol = ProtocolNumber(e.by) /\ ProtocolNumber(e.by) \in {1, 6, 17}
    BY <2>1, EntryType DEF handles, tcp_dissector_handles, udp_dissector_handles, icmp_dissector_handles,
       ProtocolNumber, IPPROTO_TCP, IPPROTO_UDP, IPPROTO_ICMP
  <2>3. i # 1 /\ i \in 1..Len(out)
    <3>1. i # 1
      BY DEF Chain
    <3> QED BY <3>1 DEF TypeInv, OsiTypeOK
  <2>4. i - 1 \in DOMAIN out
    BY <2>3, EntryType
  <2>5. Layer(f.by) < 3 /\ Linked(f, e.packet)
    BY <2>3 DEF Chain
  <2>6. /\ f.by \in Dissector /\ f.packet \in Packet /\ handles(f.by, f.packet)
        /\ SuffixOf(f.packet, f.packet.frame)
    BY <2>4, EntryType
  <2>7. f.by \in {"Ethernet", "IP", "arp"}
    <3>1. Layer(f.by) \in {1, 2}
      BY <2>5, <2>6, LayerFacts
    <3> QED BY <2>6, <3>1, LayerFacts
  <2>8. get_hint(f.by, f.packet) = e.packet.protocol /\ f.by \in Decapsulating
    BY <2>5 DEF Linked
  <2>9. f.by = "IP"
    BY <2>2, <2>6, <2>7, <2>8, HintRange
  <2>10. At(f.packet, 9) = ProtocolNumber(e.by)
    BY <2>2, <2>8, <2>9 DEF get_hint
  <2> QED BY <2>3, <2>9, <2>10
<1> QED BY <1>1, ChainInvariant, PTL

\* DNS and HTTP are only shown below UDP or TCP.
THEOREM OsiApplicationOverTransport == OsiSpec => []ApplicationOverTransport
<1>1. TypeInv /\ Chain => ApplicationOverTransport
  <2> SUFFICES ASSUME TypeInv, Chain, NEW i \in DOMAIN out, out[i].by \in {"dns", "http"}
               PROVE  i > 1 /\ out[i - 1].by \in {"udp", "tcp"}
    BY DEF ApplicationOverTransport
  <2>1. out[i].packet.session # NULL
    BY EntryType DEF handles, dns_dissector_handles, http_dissector_handles
  <2>2. Layer(out[i].by) = 7
    BY DEF Layer
  <2>3. i # 1 /\ i \in Nat /\ i \in 1..Len(out)
    <3>1. i # 1
      BY <2>2 DEF Chain
    <3> QED BY <3>1, EntryType DEF TypeInv, OsiTypeOK
  <2>4. Linked(out[i - 1], out[i].packet)
    BY <2>3 DEF Chain
  <2> QED BY <2>1, <2>3, <2>4 DEF Linked, WithSession
<1> QED BY <1>1, ChainInvariant, PTL

-----------------------------------------------------------------------------
\* No header is passed over.

\* In the course of a walk: a packet that was shown was shown by the first
\* dissector that accepts it; the one that was not is the last built, and no
\* dissector of the layers behind the walk accepts it.
FirstShows == \A i \in DOMAIN stack, k \in DOMAIN dissectors :
                Offered(i, k) /\ i <= Len(out) => ShownBefore(i, k)

LaterOnly == \A i \in DOMAIN stack, k \in DOMAIN dissectors :
               Offered(i, k) /\ i > Len(out) => walk = "down" /\ Layer(dissectors[k]) >= layer

Choosing ==
  walk \in {"down", "up"} =>
    /\ FirstShows /\ LaterOnly
    /\ walk = "down" => \/ Len(stack) = Len(out) + 1
                        \/ Len(stack) = Len(out) /\ layer = 8

\* Showing the packet that is offered, by the first dissector that accepts it.
LEMMA ShowsFirst ==
  ASSUME TypeInv, Chain, Choosing, walk = "down", layer <= 7, NEW n \in DOMAIN dissectors,
         osi_find_dissector_by_packet(n), out' = Append(out, [by |-> dissectors[n], packet |-> Top]),
         dissectors' = dissectors,
         NEW i \in DOMAIN stack, NEW k \in DOMAIN dissectors, i <= Len(out) + 1,
         stack'[i] = stack[i], Offered(i, k)'
  PROVE  ShownBefore(i, k)'
<1> DEFINE e == [by |-> dissectors[n], packet |-> Top]
           m == Len(out)
<1>1. /\ out \in Seq(Entry) /\ m \in Nat /\ stack \in Seq(Packet) /\ dissectors \in Seq(Dissector)
      /\ layer \in 1..8 /\ i \in Nat /\ i >= 1 /\ k \in Nat /\ n \in Nat
  BY DEF TypeInv, OsiTypeOK
<1>2. Top \in Packet
  BY TopType
<1>3. /\ DOMAIN out' = 1..(m + 1) /\ out'[m + 1] = e /\ \A j \in 1..m : out'[j] = out[j]
  BY <1>1, <1>2
<1>4. Len(stack) = m + 1
  BY DEF Choosing
<1>5. Offered(i, k)
  <2>1. i # 1 => i - 1 \in 1..m
    BY <1>1
  <2>2. i # 1 => out'[i - 1] = out[i - 1]
    BY <1>3, <2>1
  <2> QED BY <2>2 DEF Offered
<1>6. CASE i <= m
  <2>1. ShownBefore(i, k)
    BY <1>5, <1>6 DEF Choosing, FirstShows
  <2>2. i \in 1..m
    BY <1>1, <1>6
  <2> QED BY <1>1, <1>3, <2>1, <2>2 DEF ShownBefore
<1>7. CASE ~(i <= m)
  <2>1. i = m + 1
    BY <1>1, <1>7
  <2>2. stack[i] = Top
    BY <1>4, <2>1 DEF Top
  <2>3. Layer(dissectors[k]) >= layer
    BY <1>1, <1>5, <1>7 DEF Choosing, LaterOnly
  <2>4. Layer(dissectors[n]) = layer /\ \A j \in 1..(n - 1) : ~(Layer(dissectors[j]) = layer /\ handles(dissectors[j], Top))
    BY DEF osi_find_dissector_by_packet, find_dissector_by_packet
  <2>5. handles(dissectors[k], Top)
    BY <1>5, <2>2 DEF Offered
  <2>6. Layer(dissectors[k]) \in Nat
    <3>1. dissectors[k] \in Dissector
      BY <1>1
    <3> QED BY <3>1, LayerFacts
  <2>7. Layer(dissectors[n]) < Layer(dissectors[k]) \/ (Layer(dissectors[n]) = Layer(dissectors[k]) /\ n <= k)
    <3>1. CASE Layer(dissectors[k]) = layer
      <4>1. k \notin 1..(n - 1)
        BY <2>4, <2>5, <3>1
      <4>2. k >= 1
        BY <1>1
      <4> QED BY <1>1, <2>4, <3>1, <4>1, <4>2
    <3> QED BY <1>1, <2>3, <2>4, <2>6, <3>1
  <2>8. out'[i].by = dissectors[n] /\ out'[i].packet = Top /\ i \in DOMAIN out'
    BY <1>1, <1>3, <2>1
  <2> QED BY <2>2, <2>7, <2>8 DEF ShownBefore
<1> QED BY <1>6, <1>7

LEMMA ChoosingInit == OsiInit => Choosing
  BY DEF OsiInit, Choosing

LEMMA ChoosingStep == ASSUME TypeInv, Chain, Choosing, [OsiNext]_osiVars PROVE Choosing'
<1>1. /\ out \in Seq(Entry) /\ stack \in Seq(Packet) /\ dissectors \in Seq(Dissector)
      /\ layer \in 1..8 /\ Len(out) \in Nat /\ Len(stack) \in Nat
  BY DEF TypeInv, OsiTypeOK
<1>2. \A k \in DOMAIN dissectors : Layer(dissectors[k]) \in 1..7
  <2>1. \A k \in DOMAIN dissectors : dissectors[k] \in Dissector
    BY <1>1
  <2> QED BY <2>1, LayerFacts
<1>3. CASE UNCHANGED osiVars
  BY <1>3 DEF osiVars, Choosing, FirstShows, LaterOnly, Offered, ShownBefore
<1>4. CASE \/ \E d \in Available : osi_register_dissector(d)
           \/ osi_stack_clear \/ CallocBuffer \/ FreeBuffer
           \/ \E f \in Frames : BuildPacket(f)
           \/ OutOfMemory \/ TypeOverrun \/ PacketFooter
  <2>1. walk' \in {"idle", "crashed"}
    BY <1>4 DEF osi_register_dissector, osi_stack_clear, CallocBuffer, FreeBuffer, BuildPacket,
       OutOfMemory, TypeOverrun, PacketFooter
  <2> QED BY <2>1 DEF Choosing
<1>5. CASE DumpPacket
  <2>1. /\ walk' = "down" /\ layer' = 1 /\ out' = <<>> /\ stack' = stack /\ dissectors' = dissectors
        /\ stack # <<>> /\ Len(stack) <= 1
    BY <1>5 DEF DumpPacket, TypeInv, WalkShape
  <2>2. Len(stack) = 1 /\ Len(out') = 0
    <3>1. Len(stack) # 0
      BY ONLY <1>1, <2>1, EmptySeq
    <3>2. Len(out') = 0
      BY ONLY <2>1
    <3>3. \A n \in Nat : n # 0 /\ n <= 1 => n = 1
      OBVIOUS
    <3>4. Len(stack) = 1
      BY ONLY <1>1, <2>1, <3>1, <3>3, Zenon
    <3> QED BY ONLY <3>2, <3>4
  <2>3. \A k \in DOMAIN dissectors : Layer(dissectors[k]) >= 1
    BY <1>2
  <2>4. LaterOnly'
    BY <2>1, <2>3 DEF LaterOnly
  <2>5. FirstShows'
    BY <1>1, <2>1, <2>2 DEF FirstShows
  <2> QED BY <2>1, <2>2, <2>4, <2>5 DEF Choosing
<1>6. CASE NotHandled
  <2>1. /\ walk = "down" /\ layer <= 7 /\ UNCHANGED <<dissectors, stack, out>>
        /\ \A k \in DOMAIN dissectors : ~(Layer(dissectors[k]) = layer /\ handles(dissectors[k], Top))
    BY <1>6 DEF NotHandled, find_dissector_by_packet
  <2>2. Len(stack) = Len(out) + 1
    BY <2>1 DEF Choosing
  <2>3. FirstShows'
    BY <2>1 DEF Choosing, FirstShows, Offered, ShownBefore
  <2>4. ASSUME NEW i \in DOMAIN stack, NEW k \in DOMAIN dissectors, Offered(i, k), i > Len(out)
        PROVE  Layer(dissectors[k]) > layer /\ stack[i] = Top
    <3>1. i = Len(stack)
      BY <1>1, <2>2, <2>4
    <3>2. Layer(dissectors[k]) >= layer
      BY <2>1, <2>4 DEF Choosing, LaterOnly
    <3>3. handles(dissectors[k], Top)
      BY <2>4, <3>1 DEF Offered, Top
    <3>4. Layer(dissectors[k]) # layer
      BY <2>1, <3>3
    <3> QED BY <1>1, <1>2, <3>1, <3>2, <3>4 DEF Top
  <2>5. CASE layer = 1
    <3>1. walk' = "up" /\ out = <<>> /\ Len(stack) = 1
      <4>1. walk' = "up"
        BY <1>6, <2>5 DEF NotHandled, GoOnWithSamePacket
      <4>2. out = <<>>
        <5> SUFFICES ASSUME out # <<>> PROVE FALSE
          OBVIOUS
        <5>1. Len(out) \in DOMAIN out /\ layer > Layer(out[Len(out)].by)
          BY <1>1, <2>1 DEF Chain
        <5>2. Layer(out[Len(out)].by) \in 1..7
          BY <5>1, EntryType, LayerFacts
        <5> QED BY <2>5, <5>1, <5>2
      <4> QED BY <2>2, <4>1, <4>2
    <3>2. \A i \in DOMAIN stack, k \in DOMAIN dissectors : ~Offered(i, k)
      <4> SUFFICES ASSUME NEW i \in DOMAIN stack, NEW k \in DOMAIN dissectors, Offered(i, k) PROVE FALSE
        OBVIOUS
      <4>1. i = 1 /\ i > Len(out)
        BY <1>1, <3>1
      <4>2. Layer(dissectors[k]) = 1
        BY <4>1 DEF Offered
      <4> QED BY <2>4, <2>5, <4>1, <4>2
    <3>3. LaterOnly'
      BY <2>1, <3>2 DEF LaterOnly, Offered
    <3> QED BY <2>3, <3>1, <3>3 DEF Choosing
  <2>6. CASE layer # 1
    <3>1. walk' = "down" /\ layer' = layer + 1
      BY <1>6, <2>1, <2>6 DEF NotHandled, GoOnWithSamePacket
    <3>2. \A i \in DOMAIN stack, k \in DOMAIN dissectors :
            Offered(i, k) /\ i > Len(out) => Layer(dissectors[k]) >= layer + 1
      BY <1>1, <1>2, <2>4
    <3>3. LaterOnly'
      BY <2>1, <3>1, <3>2 DEF LaterOnly, Offered
    <3> QED BY <2>1, <2>2, <2>3, <3>1, <3>3 DEF Choosing
  <2> QED BY <2>5, <2>6
<1>7. CASE ShowOnly
  <2>1. PICK n \in DOMAIN dissectors :
          /\ osi_find_dissector_by_packet(n)
          /\ dissectors[n] \notin Decapsulating
          /\ out' = Append(out, [by |-> dissectors[n], packet |-> Top])
    BY <1>7 DEF ShowOnly
  <2>2. walk = "down" /\ layer <= 7 /\ UNCHANGED <<dissectors, stack>>
    BY <1>7 DEF ShowOnly
  <2>3. layer = 7
    <3>1. Layer(dissectors[n]) = layer /\ dissectors[n] \in Dissector
      BY <1>1, <2>1 DEF osi_find_dissector_by_packet, find_dissector_by_packet
    <3> QED BY <2>1, <3>1, LayerFacts
  <2>4. walk' = "down" /\ layer' = 8
    BY <1>7, <2>2, <2>3 DEF ShowOnly, GoOnWithSamePacket
  <2>5. Len(stack) = Len(out) + 1
    BY <2>2 DEF Choosing
  <2>6. Len(out') = Len(out) + 1
    <3>1. Top \in Packet
      BY <2>2, TopType
    <3> QED BY <1>1, <2>1, <3>1
  <2>7. FirstShows'
    <3> SUFFICES ASSUME NEW i \in DOMAIN stack', NEW k \in DOMAIN dissectors', Offered(i, k)'
                 PROVE  ShownBefore(i, k)'
      BY DEF FirstShows
    <3>1. i \in DOMAIN stack /\ k \in DOMAIN dissectors /\ i <= Len(out) + 1 /\ stack'[i] = stack[i]
      BY <1>1, <2>2, <2>5
    <3> QED BY <2>1, <2>2, <3>1, ShowsFirst
  <2>8. LaterOnly'
    <3>1. \A i \in DOMAIN stack' : ~(i > Len(out'))
      BY <1>1, <2>2, <2>5, <2>6
    <3> QED BY <3>1 DEF LaterOnly
  <2> QED BY <2>2, <2>4, <2>5, <2>6, <2>7, <2>8 DEF Choosing
<1>8. CASE ShowAndDecapsulate
  <2>1. PICK n \in DOMAIN dissectors :
          /\ osi_find_dissector_by_packet(n)
          /\ dissectors[n] \in Decapsulating
          /\ Decapsulate(dissectors[n])
          /\ out' = Append(out, [by |-> dissectors[n], packet |-> Top])
    BY <1>8 DEF ShowAndDecapsulate
  <2>2. walk = "down" /\ walk' = "down" /\ layer <= 7 /\ layer' = layer + 1 /\ dissectors' = dissectors
    BY <1>8 DEF ShowAndDecapsulate
  <2>3. PICK q \in Packet : stack' = Append(stack, q)
    <3>1. PICK self \in Addr, data \in Addr, at \in Addr \cup {NULL}, s \in Byte :
            Appended(dissectors[n], self, data, at, s)
      BY <2>1, <2>2, DecapsulateStep
    <3> QED BY <3>1 DEF Appended
  <2>4. Len(stack) = Len(out) + 1
    BY <2>2 DEF Choosing
  <2>5. Layer(dissectors[n]) = layer /\ Top \in Packet
    BY <2>1, <2>2, TopType DEF osi_find_dissector_by_packet, find_dissector_by_packet
  <2>6. Len(out') = Len(out) + 1 /\ out'[Len(out) + 1].by = dissectors[n]
    BY <1>1, <2>1, <2>5
  <2>7. /\ Len(stack') = Len(stack) + 1 /\ DOMAIN stack' = 1..(Len(stack) + 1)
        /\ \A i \in DOMAIN stack : stack'[i] = stack[i]
    BY <1>1, <2>3
  <2>8. FirstShows'
    <3> SUFFICES ASSUME NEW i \in DOMAIN stack', NEW k \in DOMAIN dissectors', Offered(i, k)', i <= Len(out')
                 PROVE  ShownBefore(i, k)'
      BY DEF FirstShows
    <3>1. i \in DOMAIN stack /\ k \in DOMAIN dissectors /\ i <= Len(out) + 1 /\ stack'[i] = stack[i]
      BY <1>1, <2>2, <2>4, <2>6, <2>7
    <3> QED BY <2>1, <2>2, <3>1, ShowsFirst
  <2>9. LaterOnly'
    <3> SUFFICES ASSUME NEW i \in DOMAIN stack', NEW k \in DOMAIN dissectors', Offered(i, k)', i > Len(out')
                 PROVE  walk' = "down" /\ Layer(dissectors'[k]) >= layer'
      BY DEF LaterOnly
    <3>1. i = Len(out) + 2 /\ i # 1 /\ i - 1 = Len(out) + 1
      BY <1>1, <2>4, <2>6, <2>7
    <3>2. Layer(dissectors[k]) > Layer(dissectors[n])
      BY <2>2, <2>6, <3>1 DEF Offered
    <3>3. Layer(dissectors[k]) \in 1..7
      BY <1>2, <2>2
    <3> QED BY <1>1, <2>2, <2>5, <3>2, <3>3
  <2> QED BY <1>1, <2>2, <2>4, <2>6, <2>7, <2>8, <2>9 DEF Choosing
<1>9. CASE BottomOut
  <2>1. walk = "down" /\ layer > 7 /\ walk' = "up" /\ UNCHANGED <<dissectors, stack, out>>
    BY <1>9 DEF BottomOut
  <2>2. \A i \in DOMAIN stack, k \in DOMAIN dissectors : ~(Offered(i, k) /\ i > Len(out))
    <3>1. \A k \in DOMAIN dissectors : ~(Layer(dissectors[k]) >= layer)
      BY <1>1, <1>2, <2>1
    <3> QED BY <2>1, <3>1 DEF Choosing, LaterOnly
  <2>3. LaterOnly' /\ FirstShows'
    BY <2>1, <2>2 DEF Choosing, LaterOnly, FirstShows, Offered, ShownBefore
  <2> QED BY <2>1, <2>3 DEF Choosing
<1>10. CASE osi_destroy_packet
  <2>1. /\ walk = "up" /\ walk' = "up" /\ UNCHANGED <<dissectors, layer, out>>
        /\ Len(stack) > 1 /\ stack' = SubSeq(stack, 1, Len(stack) - 1)
    BY <1>10 DEF osi_destroy_packet
  <2>2. \A i \in DOMAIN stack' : i \in DOMAIN stack /\ stack'[i] = stack[i]
    BY <1>1, <2>1
  <2>3. LaterOnly' /\ FirstShows'
    BY <2>1, <2>2 DEF Choosing, LaterOnly, FirstShows, Offered, ShownBefore
  <2> QED BY <2>1, <2>3 DEF Choosing
<1> QED BY <1>3, <1>4, <1>5, <1>6, <1>7, <1>8, <1>9, <1>10 DEF OsiNext, WalkStep

\* Whatever is registered in whatever order, no packet of a walk is passed over
\* by a dissector that accepts it, however many layers lie between it and the
\* one that built the packet; and of those that accept it the first shows it.
THEOREM OsiNoneIsPassedOver == OsiSpec => []NoneIsPassedOver
<1>1. TypeInv /\ Choosing => NoneIsPassedOver
  <2> SUFFICES ASSUME TypeInv, Choosing, walk = "up", NEW i \in DOMAIN stack, NEW k \in DOMAIN dissectors, Offered(i, k)
               PROVE  ShownBefore(i, k)
    BY DEF NoneIsPassedOver
  <2>1. i \in Nat /\ Len(out) \in Nat
    BY DEF TypeInv, OsiTypeOK
  <2>2. ~(i > Len(out))
    BY DEF Choosing, LaterOnly
  <2> QED BY <2>1, <2>2 DEF Choosing, FirstShows
<1>2. TypeInv /\ Chain /\ Choosing /\ [OsiNext]_osiVars => Choosing'
  BY ChoosingStep
<1> QED BY <1>1, <1>2, ChoosingInit, ChainInvariant, PTL DEF OsiSpec

-----------------------------------------------------------------------------
\* The steps that are left of a walk: down the layers that remain, each of
\* which may add a packet to destroy on the way up, and to the footer.
WalkLeft == CASE walk = "down" -> 2 * (9 - layer) + Len(stack) + 1
              [] walk = "up"   -> Len(stack)
              [] OTHER         -> 0

\* The recursion is no deeper than the layer it has reached.
Depth == /\ walk = "down" => Len(stack) <= layer
         /\ walk = "up"   => Len(stack) <= 8

LEMMA AppendedLonger ==
  ASSUME NEW d, NEW self, NEW data, NEW at, NEW s, Appended(d, self, data, at, s), stack \in Seq(Packet)
  PROVE  Len(stack') = Len(stack) + 1
<1> DEFINE q == decapsulate(d, Top, self, data, at, s)
<1>1. q \in Packet /\ stack' = Append(stack, q)
  BY DEF Appended
<1> HIDE DEF q
<1> QED BY <1>1

LEMMA WalkStepCloser ==
  ASSUME TypeInv, WalkStep, Depth
  PROVE  WalkLeft' < WalkLeft /\ Depth'
<1>1. layer \in 1..8 /\ stack \in Seq(Packet) /\ Len(stack) \in Nat
  BY DEF TypeInv, OsiTypeOK
<1>2. CASE NotHandled \/ ShowOnly
  <2>1. walk = "down" /\ layer <= 7 /\ GoOnWithSamePacket /\ stack' = stack
    BY <1>2 DEF NotHandled, ShowOnly
  <2>2. CASE layer = 1
    BY <1>1, <2>1, <2>2 DEF GoOnWithSamePacket, WalkLeft, Depth
  <2>3. CASE layer # 1
    BY <1>1, <2>1, <2>3 DEF GoOnWithSamePacket, WalkLeft, Depth
  <2> QED BY <2>2, <2>3
<1>3. CASE ShowAndDecapsulate
  <2>1. walk = "down" /\ walk' = "down" /\ layer' = layer + 1
    BY <1>3 DEF ShowAndDecapsulate
  <2>2. Len(stack') = Len(stack) + 1
    BY <1>1, <1>3, ShowAndDecapsulateStep, AppendedLonger
  <2> QED BY <1>1, <2>1, <2>2 DEF WalkLeft, Depth
<1>4. CASE OutOfMemory \/ TypeOverrun
  <2>1. walk = "down" /\ walk' = "crashed"
    BY <1>4 DEF OutOfMemory, TypeOverrun
  <2> QED BY <1>1, <2>1 DEF WalkLeft, Depth
<1>5. CASE BottomOut
  BY <1>1, <1>5 DEF BottomOut, WalkLeft, Depth
<1>6. CASE osi_destroy_packet
  <2>1. walk = "up" /\ walk' = "up" /\ Len(stack) > 1 /\ stack' = SubSeq(stack, 1, Len(stack) - 1)
    BY <1>6 DEF osi_destroy_packet
  <2>2. Len(stack') = Len(stack) - 1
    BY <1>1, <2>1
  <2> QED BY <1>1, <2>1, <2>2 DEF WalkLeft, Depth
<1>7. CASE PacketFooter
  BY <1>1, <1>7 DEF PacketFooter, WalkLeft, Depth
<1> QED BY <1>2, <1>3, <1>4, <1>5, <1>6, <1>7 DEF WalkStep

\* Outside of a walk nothing brings the stack deeper.
LEMMA DepthStep == ASSUME TypeInv, Depth, [OsiNext]_osiVars PROVE Depth'
<1>1. CASE UNCHANGED osiVars
  BY <1>1 DEF osiVars, Depth
<1>2. CASE DumpPacket
  <2>1. walk' = "down" /\ layer' = 1 /\ stack' = stack /\ Len(stack) <= 1
    BY <1>2 DEF DumpPacket, TypeInv, WalkShape
  <2> QED BY <2>1 DEF Depth
<1>3. CASE \/ \E d \in Available : osi_register_dissector(d)
           \/ osi_stack_clear \/ CallocBuffer \/ FreeBuffer
           \/ \E f \in Frames : BuildPacket(f)
  <2>1. walk' = "idle"
    BY <1>3 DEF osi_register_dissector, osi_stack_clear, CallocBuffer, FreeBuffer, BuildPacket
  <2> QED BY <2>1 DEF Depth
<1> QED BY <1>1, <1>2, <1>3, WalkStepCloser DEF OsiNext

LEMMA WalkLeftBound == ASSUME OsiTypeOK, Depth PROVE WalkLeft \in 0..18
<1>1. Len(stack) \in Nat /\ layer \in 1..8
  BY DEF OsiTypeOK
<1> DEFINE n == Len(stack)
<1>2. n \in Nat
  BY <1>1
<1>3. (walk = "down" => n <= layer) /\ (walk = "up" => n <= 8)
  BY DEF Depth
<1>4. WalkLeft = CASE walk = "down" -> 2 * (9 - layer) + n + 1 [] walk = "up" -> n [] OTHER -> 0
  BY DEF WalkLeft
<1> HIDE DEF n
<1>5. CASE walk = "down"
  <2>1. WalkLeft = 2 * (9 - layer) + n + 1
    BY <1>4, <1>5
  <2> QED BY <1>1, <1>2, <1>3, <1>5, <2>1
<1>6. CASE walk = "up"
  <2>1. WalkLeft = n
    BY <1>4, <1>6
  <2> QED BY <1>2, <1>3, <1>6, <2>1
<1>7. CASE walk \notin {"down", "up"}
  <2>1. WalkLeft = 0
    BY <1>4, <1>7
  <2> QED BY <2>1
<1> QED BY <1>5, <1>6, <1>7

LEMMA DepthInvariant == OsiSpec => [](TypeInv /\ Depth)
<1>1. OsiInit => Depth
  BY DEF OsiInit, Depth
<1>2. TypeInv /\ Depth /\ [OsiNext]_osiVars => Depth'
  BY DepthStep
<1> QED BY <1>1, <1>2, TypeInvInit, TypeInvStep, PTL DEF OsiSpec

\* Every step of a walk brings its end closer, whatever the frame holds and
\* whatever is registered: osi_dump_packet returns, or the program has died,
\* after eighteen steps at most, and each packet built on the way down is
\* destroyed on the way up.
THEOREM OsiWalkAdvances ==
  OsiSpec => [](WalkLeft \in 0..18) /\ [][(walk \in {"down", "up"}) => WalkStep /\ WalkLeft' < WalkLeft]_osiVars
<1>1. TypeInv /\ Depth => WalkLeft \in 0..18
  BY WalkLeftBound DEF TypeInv
<1>2. TypeInv /\ Depth /\ [OsiNext]_osiVars => [(walk \in {"down", "up"}) => WalkStep /\ WalkLeft' < WalkLeft]_osiVars
  <2> SUFFICES ASSUME TypeInv, Depth, OsiNext, walk \in {"down", "up"} PROVE WalkStep /\ WalkLeft' < WalkLeft
    OBVIOUS
  <2>1. WalkStep
    BY DEF OsiNext, osi_register_dissector, osi_stack_clear, CallocBuffer, BuildPacket, FreeBuffer, DumpPacket
  <2> QED BY <2>1, WalkStepCloser
<1> QED BY <1>1, <1>2, DepthInvariant, PTL DEF OsiSpec
=============================================================================
