----------------------------- MODULE UsageProofs -----------------------------
(***************************************************************************)
(* The program uses the synchronous reader the way SyncReader lets it be   *)
(* used: every step of main maps to a step of the reader or leaves it as   *)
(* it is.                                                                  *)
(***************************************************************************)
EXTENDS SnifferProofs

-----------------------------------------------------------------------------
\* The stack that the reader hands its packets to is the stack of the program:
\* the dissectors and the steps of the one are those of the other.
LEMMA SameHandles == \A d, p : Reader!handles(d, p) = handles(d, p)
  BY DEF Reader!handles, handles, Reader!At, At, Reader!Net16, Net16, Reader!POINTER, POINTER,
     Reader!ethernet_dissector_handles, ethernet_dissector_handles, Reader!ETHER_HEADER, ETHER_HEADER,
     Reader!ether_type, ether_type, Reader!ip_dissector_handles, ip_dissector_handles,
     Reader!ETHERTYPE_IP, ETHERTYPE_IP, Reader!ip_hdr_size, ip_hdr_size, Reader!ip_version, ip_version,
     Reader!arp_dissector_handles, arp_dissector_handles, Reader!ETHERTYPE_ARP, ETHERTYPE_ARP, Reader!ETHER_ARP, ETHER_ARP,
     Reader!udp_dissector_handles, udp_dissector_handles, Reader!IPPROTO_UDP, IPPROTO_UDP, Reader!UDPHDR, UDPHDR,
     Reader!tcp_dissector_handles, tcp_dissector_handles, Reader!IPPROTO_TCP, IPPROTO_TCP, Reader!tcp_hdr_size, tcp_hdr_size,
     Reader!icmp_dissector_handles, icmp_dissector_handles, Reader!IPPROTO_ICMP, IPPROTO_ICMP, Reader!ICMPHDR, ICMPHDR,
     Reader!dhcp_dissector_handles, dhcp_dissector_handles, Reader!dns_dissector_handles, dns_dissector_handles,
     Reader!DNSHDR, DNSHDR, Reader!dns_unused, dns_unused, Reader!dns_rcode, dns_rcode, Reader!dns_qr, dns_qr,
     Reader!get_minimum_packet_size, get_minimum_packet_size, Reader!DNS_QUERY, DNS_QUERY, Reader!DNS_RECORD, DNS_RECORD,
     Reader!http_dissector_handles, http_dissector_handles

LEMMA SameFind ==
  \A i : /\ Reader!find_dissector_by_packet(i) = find_dissector_by_packet(i)
         /\ Reader!osi_find_dissector_by_packet(i) = osi_find_dissector_by_packet(i)
<1>1. \A i : Reader!find_dissector_by_packet(i) = find_dissector_by_packet(i)
  BY SameHandles DEF Reader!find_dissector_by_packet, find_dissector_by_packet, Reader!Layer, Layer, Reader!Top, Top
<1> QED BY <1>1 DEF Reader!osi_find_dissector_by_packet, osi_find_dissector_by_packet

LEMMA SameDecapsulate == \A d : Reader!Decapsulate(d) = Decapsulate(d)
  BY DEF Reader!Decapsulate, Decapsulate, Reader!Malloc, Malloc, Reader!Leftover, Leftover, Reader!Top, Top,
     Reader!WithSession, WithSession, Reader!SizeSub, SizeSub, Reader!Blocks, Blocks,
     Reader!header_size, header_size, Reader!decapsulate, decapsulate, Reader!get_hint, get_hint,
     Reader!osi_create_session, osi_create_session, Reader!At, At, Reader!Net16, Net16, Reader!ether_type, ether_type,
     Reader!ETHER_HEADER, ETHER_HEADER, Reader!ip_hdr_size, ip_hdr_size, Reader!ETHER_ARP, ETHER_ARP,
     Reader!UDPHDR, UDPHDR, Reader!ICMPHDR, ICMPHDR, Reader!tcp_hdr_size, tcp_hdr_size

LEMMA SameWalkStep == WalkStep => Reader!WalkStep
<1>1. NotHandled => Reader!NotHandled
  BY SameFind DEF Reader!NotHandled, NotHandled, Reader!GoOnWithSamePacket, GoOnWithSamePacket
<1>2. ShowOnly => Reader!ShowOnly
  BY SameFind DEF Reader!ShowOnly, ShowOnly, Reader!GoOnWithSamePacket, GoOnWithSamePacket,
                  Reader!Decapsulating, Decapsulating, Reader!Top, Top
<1>3. ShowAndDecapsulate => Reader!ShowAndDecapsulate
  BY SameFind, SameDecapsulate DEF Reader!ShowAndDecapsulate, ShowAndDecapsulate, Reader!Decapsulating, Decapsulating,
                                   Reader!Top, Top
<1>4. OutOfMemory => Reader!OutOfMemory
  BY SameFind DEF Reader!OutOfMemory, OutOfMemory, Reader!Decapsulating, Decapsulating
<1>5. TypeOverrun => Reader!TypeOverrun
  BY SameFind, SameDecapsulate DEF Reader!TypeOverrun, TypeOverrun, Reader!icmp_type_overruns, icmp_type_overruns,
                                   Reader!icmp_types, icmp_types, Reader!At, At, Reader!Top, Top
<1>6. BottomOut => Reader!BottomOut
  BY DEF Reader!BottomOut, BottomOut
<1>7. osi_destroy_packet => Reader!osi_destroy_packet
  BY DEF Reader!osi_destroy_packet, osi_destroy_packet, Reader!Blocks, Blocks, Reader!Top, Top
<1>8. PacketFooter => Reader!PacketFooter
  BY DEF Reader!PacketFooter, PacketFooter
<1> QED BY <1>1, <1>2, <1>3, <1>4, <1>5, <1>6, <1>7, <1>8 DEF Reader!WalkStep, WalkStep
LEMMA SameHeapSteps ==
  /\ CallocBuffer => Reader!CallocBuffer
  /\ FreeBuffer => Reader!FreeBuffer
  /\ DumpPacket => Reader!DumpPacket
  /\ osi_stack_clear => Reader!osi_stack_clear
  /\ \A d : osi_register_dissector(d) => Reader!osi_register_dissector(d)
  /\ \A f \in Frames : BuildPacket(f) => Reader!BuildPacket(f)
<1>1. CallocBuffer => Reader!CallocBuffer
  BY DEF CallocBuffer, Reader!CallocBuffer, Malloc, Reader!Malloc
<1>2. FreeBuffer => Reader!FreeBuffer
  BY DEF FreeBuffer, Reader!FreeBuffer
<1>3. DumpPacket => Reader!DumpPacket
  BY DEF DumpPacket, Reader!DumpPacket
<1>4. osi_stack_clear => Reader!osi_stack_clear
  BY DEF osi_stack_clear, Reader!osi_stack_clear
<1>5. \A d : osi_register_dissector(d) => Reader!osi_register_dissector(d)
  BY DEF osi_register_dissector, Reader!osi_register_dissector
<1>6. \A f \in Frames : BuildPacket(f) => Reader!BuildPacket(f)
  BY DEF BuildPacket, Reader!BuildPacket, Captured, Reader!Captured
<1> QED BY <1>1, <1>2, <1>3, <1>4, <1>5, <1>6

-----------------------------------------------------------------------------
\* Where the program is in a read, for each place of main, before and after a
\* step.
Given(p) == << [to |-> on_new_packet, packet |-> p] >>

LEMMA NoRead ==
  ASSUME pc \notin {"enter", "recv", "notify", "dump"}, status = "running" \/ pc # "alloc"
  PROVE  readerReading = "no" /\ readerTodo = todo /\ readerSeen = <<>>
  BY DEF readerReading, readerTodo, readerSeen

LEMMA NoReadNext ==
  ASSUME pc' \notin {"enter", "recv", "notify", "dump"}, status' = "running" \/ pc' # "alloc"
  PROVE  readerReading' = "no" /\ readerTodo' = todo' /\ readerSeen' = <<>>
  BY DEF readerReading, readerTodo, readerSeen

LEMMA Receiving ==
  ASSUME pc \in {"enter", "recv"}
  PROVE  /\ readerReading = (IF status = "running" THEN "receive" ELSE "exited")
         /\ readerTodo = todo /\ readerSeen = <<>>
  BY DEF readerReading, readerTodo, readerSeen

LEMMA ReceivingNext ==
  ASSUME pc' \in {"enter", "recv"}
  PROVE  /\ readerReading' = (IF status' = "running" THEN "receive" ELSE "exited")
         /\ readerTodo' = todo' /\ readerSeen' = <<>>
  BY DEF readerReading, readerTodo, readerSeen

LEMMA Notifying ==
  ASSUME pc = "notify"
  PROVE  /\ readerReading = "notify" /\ readerTodo = todo
         /\ readerSeen = (IF todo = <<>> THEN Given(stack[1]) ELSE <<>>)
  BY DEF readerReading, readerTodo, readerSeen, Given

LEMMA NotifyingNext ==
  ASSUME pc' = "notify"
  PROVE  /\ readerReading' = "notify" /\ readerTodo' = todo'
         /\ readerSeen' = (IF todo' = <<>> THEN Given(stack'[1]) ELSE <<>>)
  BY DEF readerReading, readerTodo, readerSeen, Given

LEMMA Showing ==
  ASSUME pc = "dump"
  PROVE  /\ readerReading = (IF status = "running" THEN "callback" ELSE "exited")
         /\ readerTodo = Tail(todo) /\ readerSeen = Given(stack[1])
  BY DEF readerReading, readerTodo, readerSeen, Given

LEMMA ShowingNext ==
  ASSUME pc' = "dump"
  PROVE  /\ readerReading' = (IF status' = "running" THEN "callback" ELSE "exited")
         /\ readerTodo' = Tail(todo') /\ readerSeen' = Given(stack'[1])
  BY DEF readerReading, readerTodo, readerSeen, Given

ReadTuple == <<readerReading, readerTodo, readerSeen>>

\* A step that the reader does not see.
LEMMA Stutter ==
  ASSUME UNCHANGED <<osiVars, callbacks>>, UNCHANGED ReadTuple
  PROVE  UNCHANGED Reader!readerVars
  BY DEF osiVars, ReadTuple, Reader!readerVars, Reader!osiVars, Reader!listVars, Reader!readVars

\* A step between two reads in which only the dissectors change.
LEMMA StackChanges ==
  ASSUME Reader!osi_stack_clear \/ \E d \in Available : Len(dissectors) < MaxRegistered /\ Reader!osi_register_dissector(d),
         readerReading = "no", UNCHANGED ReadTuple, UNCHANGED callbacks
  PROVE  Reader!ReaderNext
<1>1. Reader!Between
  BY DEF Reader!Between, Reader!readVars, ReadTuple
<1>2. UNCHANGED Reader!listVars
  BY DEF Reader!listVars
<1> QED BY <1>1, <1>2 DEF Reader!ChangeStack, Reader!ReaderNext

-----------------------------------------------------------------------------
LEMMA UsageInit == Init => Reader!ReaderInit
<1> SUFFICES ASSUME Init PROVE Reader!ReaderInit
  OBVIOUS
<1>1. Reader!OsiInit
  BY DEF Init, OsiInit, Reader!OsiInit
<1>2. readerReading = "no" /\ readerTodo = <<>> /\ readerSeen = <<>>
  BY NoRead DEF Init
<1> QED BY <1>1, <1>2 DEF Init, Reader!ReaderInit

\* One step of the walk, in the callback.
LEMMA UsageInCallback ==
  ASSUME TypeInv, TypeInv', MainInv, MainInv', InCallback
  PROVE  Reader!ReaderNext
<1>1. /\ pc = "dump" /\ status = "running" /\ WalkStep
      /\ pc' = (IF walk' = "idle" THEN "notify" ELSE "dump")
      /\ todo' = (IF walk' = "idle" THEN Tail(todo) ELSE todo)
      /\ status' = (IF walk' = "crashed" THEN "crashed" ELSE "running")
      /\ callbacks' = callbacks
  BY DEF InCallback, Running
<1>2. walk' \in {"idle", "down", "up", "crashed"} /\ stack'[1] = stack[1]
  BY <1>1, WalkStepFacts
<1>3. Tail(todo) = <<>>
  <2>1. todo = <<on_new_packet>>
    BY <1>1 DEF MainInv, Handing
  <2>2. Tail(<<on_new_packet>>) = <<>>
    OBVIOUS
  <2> QED BY <2>1, <2>2
<1>4. readerReading = "callback" /\ readerTodo = Tail(todo) /\ readerSeen = Given(stack[1])
  BY <1>1, Showing
<1>5. readerTodo' = readerTodo /\ readerSeen' = readerSeen
  <2>1. CASE walk' = "idle"
    <3>1. pc' = "notify" /\ todo' = <<>>
      BY <1>1, <1>3, <2>1
    <3> QED BY <1>2, <1>3, <1>4, <3>1, NotifyingNext
  <2>2. CASE walk' # "idle"
    <3>1. pc' = "dump" /\ todo' = todo
      BY <1>1, <2>2
    <3> QED BY <1>2, <1>4, <3>1, ShowingNext
  <2> QED BY <2>1, <2>2
<1>6. /\ walk' = "idle" => readerReading' = "notify"
      /\ walk' = "crashed" => readerReading' = "exited"
      /\ walk' \in {"down", "up"} => readerReading' = "callback"
  BY <1>1, NotifyingNext, ShowingNext
<1>7. readerReading' = CASE walk' = "idle" -> "notify" [] walk' = "crashed" -> "exited" [] OTHER -> "callback"
  BY <1>2, <1>6
<1>8. Reader!CallbackStep
  BY <1>1, <1>4, <1>5, <1>7, SameWalkStep DEF Reader!CallbackStep, Reader!listVars
<1> QED BY <1>8 DEF Reader!DeliverStep, Reader!ReaderNext

LEMMA UsageStep ==
  ASSUME TypeInv, TypeInv', MainInv, MainInv', [Next]_vars
  PROVE  Reader!ReaderNext \/ UNCHANGED Reader!readerVars
<1>1. CASE \/ InstallHandler \/ make_raw_socket \/ BeginLoop \/ xclose
  <2>1. /\ UNCHANGED <<osiVars, callbacks>> /\ todo' = todo
        /\ pc \in {"start", "socket", "begin", "close"} /\ pc' \in {"new", "socket", "reader", "test", "close"}
    BY <1>1 DEF InstallHandler, make_raw_socket, BeginLoop, xclose, Running
  <2>2. UNCHANGED ReadTuple
    BY <2>1, NoRead, NoReadNext DEF ReadTuple
  <2> QED BY <2>1, <2>2, Stutter
<1>2. CASE LoopTest
  <2>1. /\ UNCHANGED <<osiVars, callbacks>> /\ todo' = todo /\ status' = "running"
        /\ pc = "test" /\ pc' \in {"alloc", "clear"}
    BY <1>2 DEF LoopTest, Running
  <2>2. UNCHANGED ReadTuple
    BY <2>1, NoRead, NoReadNext DEF ReadTuple
  <2> QED BY <2>1, <2>2, Stutter
<1>3. CASE EnterRecv
  <2>1. /\ UNCHANGED <<osiVars, callbacks>> /\ todo' = todo /\ status' = status
        /\ pc = "enter" /\ pc' = "recv"
    BY <1>3 DEF EnterRecv, Running
  <2>2. UNCHANGED ReadTuple
    BY <2>1, Receiving, ReceivingNext DEF ReadTuple
  <2> QED BY <2>1, <2>2, Stutter
<1>4. CASE NewStack \/ ClearStack
  <2>1. /\ osi_stack_clear /\ callbacks' = callbacks /\ todo' = todo
        /\ pc \in {"new", "clear"} /\ pc' \in {"load", "unhook"}
    BY <1>4 DEF NewStack, ClearStack, Running
  <2>2. readerReading = "no" /\ UNCHANGED ReadTuple
    BY <2>1, NoRead, NoReadNext DEF ReadTuple
  <2> QED BY <2>1, <2>2, SameHeapSteps, StackChanges
<1>5. CASE LoadDissector
  <2>1. /\ pc = "load" /\ pc' \in {"load", "socket"} /\ callbacks' = callbacks /\ todo' = todo
        /\ osi_register_dissector(LoadOrder[Len(dissectors) + 1])
    BY <1>5 DEF LoadDissector, Running
  <2>2. LoadOrder[Len(dissectors) + 1] \in Available /\ Len(dissectors) < MaxRegistered
    <3>1. Len(dissectors) < 9
      BY <2>1 DEF MainInv, Progress
    <3>2. Len(dissectors) \in Nat
      BY DEF TypeInv, OsiTypeOK
    <3>3. Len(dissectors) + 1 \in 1..9
      BY <3>1, <3>2
    <3> QED BY <3>1, <3>2, <3>3, LoadOrderFacts, LoadAssumption, AvailableAssumption
  <2>3. readerReading = "no" /\ UNCHANGED ReadTuple
    BY <2>1, NoRead, NoReadNext DEF ReadTuple
  <2> QED BY <2>1, <2>2, <2>3, SameHeapSteps, StackChanges
<1>6. CASE CreateReader
  <2>1. /\ UNCHANGED osiVars /\ todo' = todo /\ callbacks' = <<on_new_packet>> /\ pc = "reader" /\ pc' = "begin"
    BY <1>6 DEF CreateReader, Running
  <2>2. callbacks = <<>>
    BY <2>1 DEF MainInv, Progress, Loading
  <2>3. readerReading = "no" /\ UNCHANGED ReadTuple
    BY <2>1, NoRead, NoReadNext DEF ReadTuple
  <2>4. callbacks' = Append(callbacks, on_new_packet) /\ Len(callbacks) < 1
    BY <2>1, <2>2
  <2>5. Reader!sync_reader_add_packet_callback(on_new_packet)
    BY <2>1, <2>3, <2>4 DEF Reader!sync_reader_add_packet_callback, Reader!Between, Reader!readVars, ReadTuple,
                            osiVars, Reader!osiVars
  <2> QED BY <2>4, <2>5 DEF Reader!ChangeLists, Reader!ReaderNext
<1>7. CASE RemoveCallback
  <2>1. /\ UNCHANGED osiVars /\ todo' = todo /\ pc = "unhook" /\ pc' = "close"
        /\ \E i \in DOMAIN callbacks :
             /\ callbacks[i] = on_new_packet
             /\ \A j \in 1..(i - 1) : callbacks[j] # on_new_packet
             /\ callbacks' = SubSeq(callbacks, 1, i - 1) \o SubSeq(callbacks, i + 1, Len(callbacks))
    BY <1>7 DEF RemoveCallback, Running
  <2>2. readerReading = "no" /\ UNCHANGED ReadTuple
    BY <2>1, NoRead, NoReadNext DEF ReadTuple
  <2>3. Reader!sync_reader_remove_packet_callback(on_new_packet)
    BY <2>1, <2>2 DEF Reader!sync_reader_remove_packet_callback, Reader!IsRemoved, Reader!Between, Reader!readVars,
                      ReadTuple, osiVars, Reader!osiVars
  <2> QED BY <2>3 DEF Reader!ChangeLists, Reader!ReaderNext
<1>8. CASE AllocBuffer
  <2>1. /\ pc = "alloc" /\ status = "running" /\ callbacks' = callbacks /\ todo' = todo
        /\ \/ CallocBuffer /\ pc' = "enter" /\ status' = status
           \/ status' = "failed" /\ UNCHANGED osiVars /\ pc' = pc
    BY <1>8 DEF AllocBuffer, Running
  <2>2. readerReading = "no" /\ readerTodo = todo /\ readerSeen = <<>>
    BY <2>1, NoRead
  <2>3. CASE CallocBuffer /\ pc' = "enter" /\ status' = status
    <3>1. readerReading' = "receive" /\ readerTodo' = todo' /\ readerSeen' = <<>>
      BY <2>1, <2>3, ReceivingNext
    <3> QED BY <2>1, <2>2, <2>3, <3>1, SameHeapSteps DEF Reader!BeginRead, Reader!listVars, Reader!ReaderNext
  <2>4. CASE status' = "failed" /\ UNCHANGED osiVars /\ pc' = pc
    <3>1. readerReading' = "exited" /\ readerTodo' = todo' /\ readerSeen' = <<>>
      BY <2>1, <2>4 DEF readerReading, readerTodo, readerSeen
    <3> QED BY <2>1, <2>2, <2>4, <3>1 DEF Reader!ReadFails, Reader!listVars, Reader!ReaderNext, osiVars, Reader!osiVars
  <2> QED BY <2>1, <2>3, <2>4
<1>9. CASE RecvFails \/ Sigint
  <2>1. /\ UNCHANGED <<osiVars, callbacks>> /\ todo' = todo /\ pc' = pc /\ status = "running"
        /\ status' # "running" => pc \in {"start", "recv"}
    BY <1>9 DEF RecvFails, Sigint, Running
  <2>2. CASE pc = "recv" /\ status' # "running"
    <3>1. readerReading = "receive" /\ readerReading' = "exited" /\ readerTodo' = readerTodo /\ readerSeen' = readerSeen
      BY <2>1, <2>2, Receiving, ReceivingNext
    <3> QED BY <2>1, <3>1 DEF Reader!ReadFails, Reader!listVars, Reader!ReaderNext, osiVars, Reader!osiVars
  <2>3. CASE ~(pc = "recv" /\ status' # "running")
    <3>1. status' = status \/ pc = "start"
      BY <2>1, <2>3
    <3>2. stack' = stack
      BY <2>1 DEF osiVars
    <3>3. UNCHANGED ReadTuple
      BY <2>1, <3>1, <3>2 DEF ReadTuple, readerReading, readerTodo, readerSeen
    <3> QED BY <2>1, <3>3, Stutter
  <2> QED BY <2>2, <2>3
<1>10. CASE ReceiveStep
  <2>1. PICK f \in Frames : Receive(f)
    BY <1>10 DEF ReceiveStep
  <2>2. /\ pc = "recv" /\ status = "running" /\ BuildPacket(f) /\ todo' = callbacks /\ pc' = "notify"
        /\ status' = status /\ callbacks' = callbacks
    BY <2>1 DEF Receive, Running
  <2>3. callbacks # <<>>
    BY <2>2 DEF MainInv, Progress, Loading
  <2>4. readerReading = "receive" /\ readerSeen = <<>>
    BY <2>2, Receiving
  <2>5. readerReading' = "notify" /\ readerTodo' = callbacks /\ readerSeen' = <<>>
    BY <2>2, <2>3, NotifyingNext
  <2>6. Reader!ReceivePacket(f)
    BY <2>2, <2>4, <2>5, SameHeapSteps DEF Reader!ReceivePacket, Reader!listVars
  <2> QED BY <2>6 DEF Reader!ReaderNext
<1>11. CASE NotifyNext
  <2>1. /\ pc = "notify" /\ status = "running" /\ todo # <<>> /\ DumpPacket /\ pc' = "dump"
        /\ status' = status /\ callbacks' = callbacks /\ todo' = todo
    BY <1>11 DEF NotifyNext, Running
  <2>2. todo = <<on_new_packet>>
    BY <2>1 DEF MainInv, Handing
  <2>3. readerReading = "notify" /\ readerTodo = todo /\ readerSeen = <<>>
    BY <2>1, Notifying
  <2>4. stack' = stack
    BY <2>1 DEF DumpPacket
  <2>5. readerReading' = "callback" /\ readerTodo' = Tail(todo) /\ readerSeen' = Given(stack[1])
    BY <2>1, <2>4, ShowingNext
  <2>6. Head(readerTodo) = on_new_packet
    BY <2>2, <2>3
  <2>7. Given(stack[1]) = Append(readerSeen, [to |-> Head(readerTodo), packet |-> stack[1]])
    BY <2>3, <2>6 DEF Given
  <2>8. Reader!Notified
    BY <2>1, <2>3, <2>5, <2>7 DEF Reader!Notified, Reader!listVars
  <2>9. Reader!NotifyDisplay
    BY <2>1, <2>5, <2>6, <2>8, SameHeapSteps DEF Reader!NotifyDisplay
  <2> QED BY <2>9 DEF Reader!DeliverStep, Reader!ReaderNext
<1>12. CASE InCallback
  BY <1>12, UsageInCallback
<1>13. CASE EndRead
  <2>1. /\ pc = "notify" /\ todo = <<>> /\ FreeBuffer /\ pc' = "test" /\ callbacks' = callbacks /\ todo' = todo
    BY <1>13 DEF EndRead, Running
  <2>2. readerReading = "notify" /\ readerTodo = <<>>
    BY <2>1, Notifying
  <2>3. readerReading' = "no" /\ readerTodo' = <<>> /\ readerSeen' = <<>>
    BY <2>1, NoReadNext
  <2>4. Reader!EndRead
    BY <2>1, <2>2, <2>3, SameHeapSteps DEF Reader!EndRead, Reader!listVars
  <2> QED BY <2>4 DEF Reader!DeliverStep, Reader!ReaderNext
<1>14. CASE Terminated \/ UNCHANGED vars
  <2>1. UNCHANGED <<osiVars, callbacks>> /\ UNCHANGED <<pc, status, todo, stack>>
    BY <1>14 DEF Terminated, vars, mainVars, osiVars
  <2>2. UNCHANGED ReadTuple
    BY <2>1 DEF ReadTuple, readerReading, readerTodo, readerSeen
  <2> QED BY <2>1, <2>2, Stutter
<1> QED
  BY <1>1, <1>2, <1>3, <1>4, <1>5, <1>6, <1>7, <1>8, <1>9, <1>10, <1>11, <1>12, <1>13, <1>14 DEF Next, MainStep

\* main is a program that SyncReader allows: it registers its callback between
\* two reads, and a read is left half-way by the end of the process only.
THEOREM SnifferUsesReader == Spec => UsesReader
<1>1. TypeInv /\ MainInv /\ TypeInv' /\ MainInv' /\ [Next]_vars => [Reader!ReaderNext]_Reader!readerVars
  BY UsageStep
<1> QED BY <1>1, UsageInit, MainInvariant, PTL DEF Spec, UsesReader, Reader!ReaderSpec
=============================================================================
