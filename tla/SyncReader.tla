----------------------------- MODULE SyncReader -----------------------------
(***************************************************************************)
(* The synchronous reader (sync_reader.c) over the OSI stack, for a        *)
(* program that registers any callbacks and interceptors and reads packet  *)
(* after packet.  A callback gets the reader and the packet as const: it   *)
(* looks at the packet, and a displaying one calls osi_dump_packet on it.  *)
(* Interceptors are registered and never called.                           *)
(***************************************************************************)
EXTENDS OsiStack

CONSTANTS
  Callbacks,     \* callbacks a program may register
  Displaying,    \* the ones that call osi_dump_packet
  MaxCallbacks,  \* bound on the length of the list of callbacks
  Interceptors,  \* interceptors a program may register
  MaxInterceptors\* bound on the length of their list

ASSUME ReaderAssumption ==
  Displaying \subseteq Callbacks /\ MaxCallbacks \in Nat /\ MaxInterceptors \in Nat

VARIABLES
  callback_list, interceptor_list,
  reading,  \* "no", "receive", "notify", "callback", or "exited" with the program
  todo,     \* callbacks still to be notified
  seen      \* the callbacks notified of this packet, with what they were given

listVars   == <<callback_list, interceptor_list>>
readVars   == <<reading, todo, seen>>
readerVars == <<osiVars, listVars, readVars>>

-----------------------------------------------------------------------------
\* sync_reader_create.
ReaderInit ==
  /\ OsiInit
  /\ callback_list = <<>> /\ interceptor_list = <<>>
  /\ reading = "no" /\ todo = <<>> /\ seen = <<>>

\* Between two reads the program fills and empties the lists.
Between == reading = "no" /\ UNCHANGED readVars

\* list_remove_node on the first node that pointer_comparator accepts; if there
\* is none it is called with NULL all the same, which the list library is taken
\* to ignore.
IsRemoved(list, x, rest) ==
  \/ /\ \A i \in DOMAIN list : list[i] # x
     /\ rest = list
  \/ \E i \in DOMAIN list :
       /\ list[i] = x
       /\ \A j \in 1..(i - 1) : list[j] # x
       /\ rest = SubSeq(list, 1, i - 1) \o SubSeq(list, i + 1, Len(list))

sync_reader_add_packet_callback(c) ==
  /\ Between
  /\ callback_list' = Append(callback_list, c)
  /\ UNCHANGED <<osiVars, interceptor_list>>

\* Mutant: the node is emptied and stays in the list.
EmptyNode(c) ==
  /\ Between
  /\ \E i \in DOMAIN callback_list : /\ callback_list[i] = c
                                    /\ callback_list' = [callback_list EXCEPT ![i] = NULL]
  /\ UNCHANGED <<osiVars, interceptor_list>>

sync_reader_remove_packet_callback(c) ==
  /\ Between
  /\ IsRemoved(callback_list, c, callback_list')
  /\ UNCHANGED <<osiVars, interceptor_list>>

sync_reader_add_packet_interceptor(c) ==
  /\ Between
  /\ interceptor_list' = Append(interceptor_list, c)
  /\ UNCHANGED <<osiVars, callback_list>>

sync_reader_remove_packet_interceptor(c) ==
  /\ Between
  /\ IsRemoved(interceptor_list, c, interceptor_list')
  /\ UNCHANGED <<osiVars, callback_list>>

\* The program changes its OSI stack between two reads.
ChangeStack ==
  /\ Between
  /\ \/ \E d \in Available : Len(dissectors) < MaxRegistered /\ osi_register_dissector(d)
     \/ osi_stack_clear
  /\ UNCHANGED listVars

-----------------------------------------------------------------------------
\* sync_reader_read: calloc, and recvfrom waits.
BeginRead ==
  /\ reading = "no"
  /\ CallocBuffer
  /\ reading' = "receive"
  /\ UNCHANGED <<listVars, todo, seen>>

\* recvfrom fails, be it for want of a buffer: xrecvfrom ends the program.
ReadFails ==
  /\ reading \in {"no", "receive"}
  /\ reading' = "exited"
  /\ UNCHANGED <<osiVars, listVars, todo, seen>>

\* A frame arrives; notify_packet starts with the first callback.
ReceivePacket(f) ==
  /\ reading = "receive"
  /\ BuildPacket(f)
  /\ todo' = callback_list
  /\ reading' = "notify"
  /\ UNCHANGED <<listVars, seen>>

\* notify_iterator calls the next callback.
Notified ==
  /\ reading = "notify" /\ todo # <<>>
  /\ todo' = Tail(todo)
  /\ seen' = Append(seen, [to |-> Head(todo), packet |-> stack[1]])
  /\ UNCHANGED listVars

\* Mutant: the iteration does not go on to the next callback.
NotifyAgain ==
  /\ reading = "notify" /\ todo # <<>>
  /\ Head(todo) \notin Displaying
  /\ seen' = Append(seen, [to |-> Head(todo), packet |-> stack[1]])
  /\ UNCHANGED <<osiVars, listVars, reading, todo>>

\* A callback that only looks at the packet ...
NotifyListener ==
  /\ Notified
  /\ Head(todo) \notin Displaying
  /\ UNCHANGED <<osiVars, reading>>

\* ... and one that displays it.
NotifyDisplay ==
  /\ Notified
  /\ Head(todo) \in Displaying
  /\ DumpPacket
  /\ reading' = "callback"

CallbackStep ==
  /\ reading = "callback"
  /\ WalkStep
  /\ reading' = CASE walk' = "idle"    -> "notify"
                  [] walk' = "crashed" -> "exited"
                  [] OTHER             -> "callback"
  /\ UNCHANGED <<listVars, todo, seen>>

\* Mutant: the buffer is freed while a callback is left.
EndReadEarly ==
  /\ reading = "notify" /\ Len(todo) <= 1
  /\ FreeBuffer
  /\ reading' = "no" /\ seen' = <<>> /\ todo' = <<>>
  /\ UNCHANGED listVars

\* Mutant: the iteration starts again.
EndReadRestarts ==
  /\ reading = "notify" /\ todo = <<>>
  /\ todo' = callback_list /\ seen' = <<>>
  /\ UNCHANGED <<osiVars, listVars, reading>>

\* The end of the iteration, and free.
EndRead ==
  /\ reading = "notify" /\ todo = <<>>
  /\ FreeBuffer
  /\ reading' = "no" /\ seen' = <<>>
  /\ UNCHANGED <<listVars, todo>>

-----------------------------------------------------------------------------
ChangeLists ==
  \/ \E c \in Callbacks : \/ Len(callback_list) < MaxCallbacks /\ sync_reader_add_packet_callback(c)
                          \/ sync_reader_remove_packet_callback(c)
  \/ \E c \in Interceptors : \/ Len(interceptor_list) < MaxInterceptors /\ sync_reader_add_packet_interceptor(c)
                             \/ sync_reader_remove_packet_interceptor(c)

\* What the reader does by itself once it has a packet.
DeliverStep == NotifyListener \/ NotifyDisplay \/ CallbackStep \/ EndRead

ReaderNext ==
  \/ ChangeLists
  \/ ChangeStack
  \/ BeginRead
  \/ ReadFails
  \/ \E f \in Frames : ReceivePacket(f)
  \/ DeliverStep

ReaderSpec == ReaderInit /\ [][ReaderNext]_readerVars

\* The reader runs on the program's only thread: a packet received is handled.
ReaderFairSpec == ReaderSpec /\ WF_readerVars(DeliverStep)

-----------------------------------------------------------------------------
\* Type correctness of the reader's state.
ReaderTypeOK ==
  /\ callback_list \in Seq(Callbacks) /\ interceptor_list \in Seq(Interceptors)
  /\ reading \in {"no", "receive", "notify", "callback", "exited"}
  /\ todo \in Seq(Callbacks)
  /\ seen \in Seq([to : Callbacks, packet : Packet])

\* Every callback registered when a packet arrives is notified of it once, in
\* the order of registration and with the same packet: whatever the callbacks
\* before did, it is the one received and its bytes are still in the buffer.
DeliveredAlike ==
  reading \in {"notify", "callback"} =>
    /\ [i \in DOMAIN seen |-> seen[i].to] \o todo = callback_list
    /\ \A i \in DOMAIN seen : seen[i].packet = stack[1]
    /\ stack[1].data \in live /\ stack[1].size = Captured(stack[1].frame)

\* A read that returns has notified every callback.
NoneIsSkipped ==
  [][reading = "notify" /\ reading' = "no" => [i \in DOMAIN seen |-> seen[i].to] = callback_list]_readerVars

\* A read keeps nothing of what it and its callbacks allocated.
ReadLeavesNothing == reading = "no" => live = {} /\ stack = <<>> /\ walk = "idle"

\* A packet received is delivered to the end: the read returns unless the
\* program dies.
ReadReturns == (reading \in {"notify", "callback"}) ~> (reading \in {"no", "exited"})
=============================================================================
