------------------------------ MODULE OsiStack ------------------------------
(***************************************************************************)
(* The OSI stack (osi.c) and the capture buffer of its caller, the read    *)
(* function of the synchronous reader (sync_reader.c).                     *)
(*                                                                         *)
(* osi_dump_packet descends the seven layers: at each one it looks for the *)
(* first registered dissector that accepts the packet, lets it build the   *)
(* packet of the next layer and show its header, and goes on with what it  *)
(* built; on the way back every packet built is destroyed.  The C stack of *)
(* the recursion is the sequence `stack', whose first element is the       *)
(* caller's packet.  The steps are the ones between which the heap, the    *)
(* recursion or the output change.                                         *)
(***************************************************************************)
EXTENDS Dissectors

CONSTANTS
  Available,      \* dissectors that a program may register
  MaxRegistered   \* bound on the length of the dissector list

ASSUME AvailableAssumption == Available \subseteq Dissector /\ MaxRegistered \in Nat

VARIABLES
  dissectors,  \* the list of registered dissectors, in order
  walk,        \* "idle", "down" or "up" in the recursion, "crashed"
  layer,       \* the layer being looked at
  stack,       \* packets of the recursion, the caller's first
  live,        \* heap blocks allocated and not freed
  buffer,      \* the reader's capture buffer, NULL when there is none
  out          \* headers shown since the last packet banner, in order

osiVars == <<dissectors, walk, layer, stack, live, buffer, out>>

-----------------------------------------------------------------------------
\* The heap.  Malloc(used) holds the block malloc returns, and is empty when
\* there is none left.
Malloc(used) == IF Addr \ used = {} THEN {} ELSE {CHOOSE a \in Addr : a \notin used}

\* The only control decisions that read behind a copy look at byte 9 of an IP
\* header and at byte 12 of a TCP header.
Leftover(size) == IF size < 13 THEN Slack ELSE {0}

\* The heap blocks of a packet built by a decapsulate function.
Blocks(p) == {p.self, p.data} \cup IF p.session = NULL THEN {} ELSE {p.session.at}

Top == stack[Len(stack)]

\* find_dissector_by_packet at the current layer, and the first match.
find_dissector_by_packet(i) ==
  /\ Layer(dissectors[i]) = layer
  /\ handles(dissectors[i], Top)

osi_find_dissector_by_packet(i) ==
  /\ find_dissector_by_packet(i)
  /\ \A j \in 1..(i - 1) : ~ find_dissector_by_packet(j)

-----------------------------------------------------------------------------
OsiInit ==
  /\ dissectors = <<>>
  /\ walk = "idle"
  /\ layer = 1
  /\ stack = <<>>
  /\ live = {}
  /\ buffer = NULL
  /\ out = <<>>

\* osi_register_dissector.
osi_register_dissector(d) ==
  /\ walk = "idle"
  /\ dissectors' = Append(dissectors, d)
  /\ UNCHANGED <<walk, layer, stack, live, buffer, out>>

\* osi_stack_new and osi_stack_clear leave an empty list.
osi_stack_clear ==
  /\ walk = "idle"
  /\ dissectors' = <<>>
  /\ UNCHANGED <<walk, layer, stack, live, buffer, out>>

\* sync_reader_read allocates the capture buffer ...
CallocBuffer ==
  /\ walk = "idle" /\ buffer = NULL
  /\ \E a \in Malloc(live) : buffer' = a /\ live' = live \cup {a}
  /\ UNCHANGED <<dissectors, walk, layer, stack, out>>

\* ... receives frame f, of which the kernel keeps what fits, and builds the
\* packet around it, with neither protocol nor session ...
BuildPacket(f) ==
  /\ walk = "idle" /\ buffer # NULL /\ stack = <<>>
  /\ stack' = << [self |-> NULL, data |-> buffer, size |-> Captured(f), protocol |-> 0,
                  session |-> NULL, frame |-> f, off |-> 0, slack |-> 0] >>
  /\ UNCHANGED <<dissectors, walk, layer, live, buffer, out>>

\* Mutant: the buffer is forgotten, not freed.
FreeBufferForgets ==
  /\ walk = "idle" /\ stack # <<>>
  /\ buffer' = NULL
  /\ stack' = <<>>
  /\ UNCHANGED <<dissectors, walk, layer, live, out>>

\* ... and frees the buffer once the packet has been handed out.
FreeBuffer ==
  /\ walk = "idle" /\ stack # <<>>
  /\ live' = live \ {buffer}
  /\ buffer' = NULL
  /\ stack' = <<>>
  /\ UNCHANGED <<dissectors, walk, layer, out>>

\* osi_dump_packet: the banner, then layer 1.
DumpPacket ==
  /\ walk = "idle" /\ stack # <<>>
  /\ walk' = "down"
  /\ layer' = 1
  /\ out' = <<>>
  /\ UNCHANGED <<dissectors, stack, live, buffer>>

\* Mutant: the walk ends at the first layer that builds no packet.
GoOnNowhere == walk' = "up" /\ layer' = layer

\* Where the walk goes when no packet was built at the current layer: down
\* with the same packet, except that osi_dump_packet stops at layer 1.
GoOnWithSamePacket ==
  IF layer = 1 THEN walk' = "up" /\ layer' = layer
               ELSE walk' = walk /\ layer' = layer + 1

\* Mutant: the recursion stops one layer too late.
NotHandledPastTheLast ==
  /\ walk = "down"
  /\ \A i \in DOMAIN dissectors : ~ find_dissector_by_packet(i)
  /\ GoOnWithSamePacket
  /\ UNCHANGED <<dissectors, stack, live, buffer, out>>

\* No dissector of the layer accepts the packet.
NotHandled ==
  /\ walk = "down" /\ layer <= 7
  /\ \A i \in DOMAIN dissectors : ~ find_dissector_by_packet(i)
  /\ GoOnWithSamePacket
  /\ UNCHANGED <<dissectors, stack, live, buffer, out>>

\* Mutant: the layer is not incremented.
ShowOnlyStays ==
  /\ walk = "down" /\ layer <= 7
  /\ \E i \in DOMAIN dissectors :
       /\ osi_find_dissector_by_packet(i)
       /\ dissectors[i] \notin Decapsulating
       /\ out' = Append(out, [by |-> dissectors[i], packet |-> Top])
  /\ UNCHANGED <<dissectors, walk, layer, stack, live, buffer>>

\* The dissector found shows its header; its decapsulate returned NULL.
ShowOnly ==
  /\ walk = "down" /\ layer <= 7
  /\ \E i \in DOMAIN dissectors :
       /\ osi_find_dissector_by_packet(i)
       /\ dissectors[i] \notin Decapsulating
       /\ out' = Append(out, [by |-> dissectors[i], packet |-> Top])
  /\ GoOnWithSamePacket
  /\ UNCHANGED <<dissectors, stack, live, buffer>>

\* The decapsulate function of dissector d builds the packet of the next layer.
Decapsulate(d) ==
  \E self \in Malloc(live) : \E data \in Malloc(live \cup {self}) :
  \E at \in (IF d \in WithSession THEN Malloc(live \cup {self, data}) ELSE {NULL}) :
  \E s \in Leftover(SizeSub(Top.size, header_size(d, Top))) :
    LET p == decapsulate(d, Top, self, data, at, s) IN
    /\ stack' = Append(stack, p)
    /\ live' = live \cup Blocks(p)

\* The dissector found builds the next packet, then shows its header.
ShowAndDecapsulate ==
  /\ walk = "down" /\ layer <= 7
  /\ \E i \in DOMAIN dissectors :
       /\ osi_find_dissector_by_packet(i)
       /\ dissectors[i] \in Decapsulating
       /\ Decapsulate(dissectors[i])
       /\ out' = Append(out, [by |-> dissectors[i], packet |-> Top])
  /\ layer' = layer + 1
  /\ UNCHANGED <<dissectors, walk, buffer>>

\* malloc fails in a decapsulate function, which writes through the pointer
\* it got without looking at it: the program dies before showing anything.
OutOfMemory ==
  /\ walk = "down" /\ layer <= 7
  /\ \E i \in DOMAIN dissectors :
       osi_find_dissector_by_packet(i) /\ dissectors[i] \in Decapsulating
  /\ walk' = "crashed"
  /\ UNCHANGED <<dissectors, layer, stack, live, buffer, out>>

\* The dump of ICMP does not know the type and looks for it in the memory
\* behind its table: the program may die of what it finds there.  Otherwise
\* the header is shown, with whatever name (ShowAndDecapsulate).
TypeOverrun ==
  /\ walk = "down" /\ layer <= 7
  /\ icmp_type_overruns(Top)
  /\ \E i \in DOMAIN dissectors :
       /\ osi_find_dissector_by_packet(i)
       /\ dissectors[i] = "icmp"
       /\ Decapsulate(dissectors[i])
  /\ walk' = "crashed"
  /\ UNCHANGED <<dissectors, layer, buffer, out>>

\* osi_dump_packet_recursive below the last layer.
BottomOut ==
  /\ walk = "down" /\ layer > 7
  /\ walk' = "up"
  /\ UNCHANGED <<dissectors, layer, stack, live, buffer, out>>

\* Mutant: the session is not freed.
DestroyKeepsSession ==
  /\ walk = "up" /\ Len(stack) > 1
  /\ live' = live \ {Top.self, Top.data}
  /\ stack' = SubSeq(stack, 1, Len(stack) - 1)
  /\ UNCHANGED <<dissectors, walk, layer, buffer, out>>

\* osi_destroy_packet on the packet this level of the recursion built.
osi_destroy_packet ==
  /\ walk = "up" /\ Len(stack) > 1
  /\ live' = live \ Blocks(Top)
  /\ stack' = SubSeq(stack, 1, Len(stack) - 1)
  /\ UNCHANGED <<dissectors, walk, layer, buffer, out>>

\* The end of osi_dump_packet.
PacketFooter ==
  /\ walk = "up" /\ Len(stack) = 1
  /\ walk' = "idle"
  /\ layer' = 1
  /\ UNCHANGED <<dissectors, stack, live, buffer, out>>

\* The steps of one call of osi_dump_packet after its banner.
WalkStep ==
  \/ NotHandled
  \/ ShowOnly
  \/ ShowAndDecapsulate
  \/ OutOfMemory
  \/ TypeOverrun
  \/ BottomOut
  \/ osi_destroy_packet
  \/ PacketFooter

OsiNext ==
  \/ \E d \in Available : Len(dissectors) < MaxRegistered /\ osi_register_dissector(d)
  \/ osi_stack_clear
  \/ CallocBuffer
  \/ \E f \in Frames : BuildPacket(f)
  \/ FreeBuffer
  \/ DumpPacket
  \/ WalkStep

OsiSpec == OsiInit /\ [][OsiNext]_osiVars

-----------------------------------------------------------------------------
\* An element of `out': a dissector and the packet whose header it showed.
Entry == [by : Dissector, packet : Packet]

\* Type correctness of the stack and of its caller's state.
OsiTypeOK ==
  /\ dissectors \in Seq(Dissector)
  /\ walk \in {"idle", "down", "up", "crashed"}
  /\ layer \in 1..8
  /\ stack \in Seq(Packet)
  /\ live \subseteq Addr
  /\ buffer \in Addr \cup {NULL}
  /\ out \in Seq(Entry)

\* Packet p is the end of what was captured of frame f.
SuffixOf(p, f) == p.frame = f /\ p.off + p.size = Captured(f)

\* Every packet of the recursion, and every packet a header was shown from,
\* is a suffix of the captured bytes: no size computed by a decapsulate
\* function (packet->size - header) ever wraps around or loses a byte.
PayloadIsSuffix ==
  /\ \A i \in DOMAIN stack : SuffixOf(stack[i], stack[1].frame)
  /\ walk # "idle" => \A i \in DOMAIN out : SuffixOf(out[i].packet, stack[1].frame)

\* The blocks of the packets built on the way down.
Built == 2..Len(stack)

\* The heap holds the capture buffer and the blocks of the packets of the
\* recursion, each owned by one packet: osi_destroy_packet frees every block
\* that a decapsulate function allocated, none twice, and none that a packet
\* still in use owns.
HeapExact ==
  /\ live = {a \in Addr : a = buffer \/ \E i \in Built : a \in Blocks(stack[i])}
  /\ \A i \in Built : /\ Blocks(stack[i]) \subseteq Addr /\ buffer \notin Blocks(stack[i])
                      /\ stack[i].self # stack[i].data
                      /\ stack[i].session # NULL => stack[i].session.at \notin {stack[i].self, stack[i].data}
  /\ \A i, j \in Built : i # j => Blocks(stack[i]) \cap Blocks(stack[j]) = {}
  /\ stack # <<>> => stack[1].data = buffer /\ buffer # NULL

\* The number of the IP protocol a layer-3 dissector is for.
ProtocolNumber(d) == CASE d = "tcp" -> IPPROTO_TCP [] d = "udp" -> IPPROTO_UDP [] d = "icmp" -> IPPROTO_ICMP

\* A TCP, UDP or ICMP header is only shown right below an IP header whose
\* protocol field says so.  A packet that no layer-2 dissector accepts keeps
\* the Ethernet type as its protocol hint while it is offered to layer 3.
TransportOverIP ==
  \A i \in DOMAIN out : Layer(out[i].by) = 3 =>
    /\ i > 1 /\ out[i - 1].by = "IP"
    /\ At(out[i - 1].packet, 9) = ProtocolNumber(out[i].by)

\* DNS and HTTP headers are only shown right below a UDP or TCP header.
ApplicationOverTransport ==
  \A i \in DOMAIN out : out[i].by \in {"dns", "http"} => i > 1 /\ out[i - 1].by \in {"udp", "tcp"}

\* The headers are shown from the lowest layer up, one per layer at most,
\* starting with layer 1, and each from the payload of the one above it on
\* the screen.
LayersAscend ==
  \A i \in DOMAIN out :
    IF i = 1 THEN Layer(out[i].by) = 1 /\ out[i].packet.off = 0
    ELSE /\ Layer(out[i - 1].by) < Layer(out[i].by)
         /\ out[i].packet.off = out[i - 1].packet.off + header_size(out[i - 1].by, out[i - 1].packet)

\* What a dump shows was captured (ip.c: "Verifying the correctness of the
\* packet.").
AllShowCaptured == \A i \in DOMAIN out : dump_extent(out[i].by, out[i].packet) <= out[i].packet.size

\* Every registered dissector that can handle the packet of its layer is
\* shown by the time the footer is printed (osi.h on osi_dump_packet).
EveryHandlerShown ==
  walk = "up" => \A i \in DOMAIN out : \A k \in DOMAIN dissectors :
    (Layer(dissectors[k]) = Layer(out[i].by) /\ handles(dissectors[k], out[i].packet))
      => \E j \in DOMAIN out : out[j].by = dissectors[k]

\* Packet i of the recursion is offered to dissector k if it gets to its
\* layer: the caller's to layer 1, one that was built to every layer behind
\* the one it was built at.
Offered(i, k) ==
  /\ handles(dissectors[k], stack[i])
  /\ IF i = 1 THEN Layer(dissectors[k]) = 1 ELSE Layer(dissectors[k]) > Layer(out[i - 1].by)

\* Packet i was shown, by a dissector that comes before k: on a lower layer,
\* or on the same one and registered no later.
ShownBefore(i, k) ==
  /\ i \in DOMAIN out /\ out[i].packet = stack[i]
  /\ \E j \in DOMAIN dissectors :
       /\ out[i].by = dissectors[j]
       /\ \/ Layer(dissectors[j]) < Layer(dissectors[k])
          \/ Layer(dissectors[j]) = Layer(dissectors[k]) /\ j <= k

\* No header is passed over: a packet of the recursion that some registered
\* dissector accepts, however many layers without a dissector lie between, is
\* shown, and by the first of those that accept it.
NoneIsPassedOver ==
  walk = "up" => \A i \in DOMAIN stack, k \in DOMAIN dissectors : Offered(i, k) => ShownBefore(i, k)
=============================================================================
