------------------------------- MODULE Sniffer -------------------------------
(***************************************************************************)
(* The whole program: main.c drives the synchronous reader (sync_reader.c) *)
(* over a raw socket (io.c) and hands every packet to the OSI stack        *)
(* (OsiStack), while SIGINT may arrive between any two of its steps.       *)
(***************************************************************************)
EXTENDS OsiStack

CONSTANTS MaxSigint   \* bound on the number of SIGINTs

ASSUME SigintAssumption == MaxSigint \in Nat
ASSUME LoadAssumption   == Available = Dissector /\ MaxRegistered >= 9

VARIABLES
  pc,         \* where main is
  status,     \* "running", or how the process ended
  started,    \* the flag that the signal handler clears
  fd,         \* the raw socket: "none", "open" or "closed"
  callbacks,  \* the reader's list of packet callbacks
  todo,       \* callbacks still to be notified of the current packet
  sigs,       \* number of SIGINTs delivered
  late        \* number of packets received after the flag was cleared

mainVars == <<pc, status, started, fd, callbacks, todo, sigs, late>>
vars     == <<osiVars, mainVars>>

on_new_packet == "on_new_packet"

\* The order in which main registers the dissectors.
LoadOrder == <<"Ethernet", "IP", "arp", "udp", "DHCP", "dns", "icmp", "tcp", "http">>

Running(at) == status = "running" /\ pc = at

-----------------------------------------------------------------------------
Init ==
  /\ OsiInit
  /\ pc = "start" /\ status = "running"
  /\ started = FALSE
  /\ fd = "none"
  /\ callbacks = <<>> /\ todo = <<>>
  /\ sigs = 0 /\ late = 0

\* sigaction: until then SIGINT has its default effect.
InstallHandler ==
  /\ Running("start")
  /\ pc' = "new"
  /\ UNCHANGED <<osiVars, status, started, fd, callbacks, todo, sigs, late>>

NewStack ==
  /\ Running("new")
  /\ osi_stack_clear
  /\ pc' = "load"
  /\ UNCHANGED <<status, started, fd, callbacks, todo, sigs, late>>

\* Mutant: the last dissector is not registered.
LoadAllButOne ==
  /\ Running("load")
  /\ osi_register_dissector(LoadOrder[Len(dissectors) + 1])
  /\ pc' = IF Len(dissectors) + 2 = Len(LoadOrder) THEN "socket" ELSE "load"
  /\ UNCHANGED <<status, started, fd, callbacks, todo, sigs, late>>

LoadDissector ==
  /\ Running("load")
  /\ osi_register_dissector(LoadOrder[Len(dissectors) + 1])
  /\ pc' = IF Len(dissectors) + 1 = Len(LoadOrder) THEN "socket" ELSE "load"
  /\ UNCHANGED <<status, started, fd, callbacks, todo, sigs, late>>

\* make_raw_socket, which ends the program when it has no socket.
make_raw_socket ==
  /\ Running("socket")
  /\ \/ fd' = "open" /\ pc' = "reader" /\ UNCHANGED status
     \/ status' = "failed" /\ UNCHANGED <<fd, pc>>
  /\ UNCHANGED <<osiVars, started, callbacks, todo, sigs, late>>

\* Mutant: the callback is registered twice.
CreateReaderTwice ==
  /\ Running("reader")
  /\ callbacks' = <<on_new_packet, on_new_packet>>
  /\ pc' = "begin"
  /\ UNCHANGED <<osiVars, status, started, fd, todo, sigs, late>>

\* sync_reader_create, then sync_reader_add_packet_callback.
CreateReader ==
  /\ Running("reader")
  /\ callbacks' = <<on_new_packet>>
  /\ pc' = "begin"
  /\ UNCHANGED <<osiVars, status, started, fd, todo, sigs, late>>

\* The loop of main: its initialisation and its test.
BeginLoop ==
  /\ Running("begin")
  /\ started' = TRUE
  /\ pc' = "test"
  /\ UNCHANGED <<osiVars, status, fd, callbacks, todo, sigs, late>>

\* Mutant: the loop does not look at the flag.
LoopForever ==
  /\ Running("test")
  /\ pc' = "alloc"
  /\ UNCHANGED <<osiVars, status, started, fd, callbacks, todo, sigs, late>>

LoopTest ==
  /\ Running("test")
  /\ pc' = IF started THEN "alloc" ELSE "clear"
  /\ UNCHANGED <<osiVars, status, started, fd, callbacks, todo, sigs, late>>

\* sync_reader_read: calloc.  Without memory recvfrom gets a null pointer and
\* fails with EFAULT.
AllocBuffer ==
  /\ Running("alloc")
  /\ \/ CallocBuffer /\ pc' = "enter" /\ UNCHANGED status
     \/ status' = "failed" /\ UNCHANGED <<osiVars, pc>>
  /\ UNCHANGED <<started, fd, callbacks, todo, sigs, late>>

\* Mutant: the flag is set at every iteration.
EnterRecvRearms ==
  /\ Running("enter")
  /\ started' = TRUE
  /\ pc' = "recv"
  /\ UNCHANGED <<osiVars, status, fd, callbacks, todo, sigs, late>>

\* The program enters recvfrom and blocks there.
EnterRecv ==
  /\ Running("enter")
  /\ pc' = "recv"
  /\ UNCHANGED <<osiVars, status, started, fd, callbacks, todo, sigs, late>>

\* A frame arrives.
Receive(f) ==
  /\ Running("recv")
  /\ BuildPacket(f)
  /\ todo' = callbacks
  /\ late' = IF started THEN late ELSE late + 1
  /\ pc' = "notify"
  /\ UNCHANGED <<status, started, fd, callbacks, sigs>>

\* recvfrom fails (the interface went down, say): xrecvfrom ends the program.
RecvFails ==
  /\ Running("recv")
  /\ status' = "failed"
  /\ UNCHANGED <<osiVars, pc, started, fd, callbacks, todo, sigs, late>>

\* notify_packet: call the next callback, osi_dump_packet through
\* on_new_packet, or leave the iteration.
NotifyNext ==
  /\ Running("notify") /\ todo # <<>>
  /\ DumpPacket
  /\ pc' = "dump"
  /\ UNCHANGED <<status, started, fd, callbacks, todo, sigs, late>>

\* Mutant: the iteration does not go on to the next callback.
CallbackRepeats ==
  /\ Running("dump")
  /\ WalkStep
  /\ pc'     = IF walk' = "idle" THEN "notify" ELSE "dump"
  /\ status' = IF walk' = "crashed" THEN "crashed" ELSE "running"
  /\ UNCHANGED <<started, fd, callbacks, todo, sigs, late>>

InCallback ==
  /\ Running("dump")
  /\ WalkStep
  /\ pc'     = IF walk' = "idle" THEN "notify" ELSE "dump"
  /\ todo'   = IF walk' = "idle" THEN Tail(todo) ELSE todo
  /\ status' = IF walk' = "crashed" THEN "crashed" ELSE "running"
  /\ UNCHANGED <<started, fd, callbacks, sigs, late>>

\* The end of sync_reader_read: free(buffer).
EndRead ==
  /\ Running("notify") /\ todo = <<>>
  /\ FreeBuffer
  /\ pc' = "test"
  /\ UNCHANGED <<status, started, fd, callbacks, todo, sigs, late>>

\* The end of main.
ClearStack ==
  /\ Running("clear")
  /\ osi_stack_clear
  /\ pc' = "unhook"
  /\ UNCHANGED <<status, started, fd, callbacks, todo, sigs, late>>

\* Mutant: the node is emptied and stays in the list.
EmptyCallback ==
  /\ Running("unhook")
  /\ callbacks' = [callbacks EXCEPT ![1] = NULL]
  /\ pc' = "close"
  /\ UNCHANGED <<osiVars, status, started, fd, todo, sigs, late>>

\* sync_reader_remove_packet_callback removes the first node that holds it.
RemoveCallback ==
  /\ Running("unhook")
  /\ \E i \in DOMAIN callbacks :
       /\ callbacks[i] = on_new_packet
       /\ \A j \in 1..(i - 1) : callbacks[j] # on_new_packet
       /\ callbacks' = SubSeq(callbacks, 1, i - 1) \o SubSeq(callbacks, i + 1, Len(callbacks))
  /\ pc' = "close"
  /\ UNCHANGED <<osiVars, status, started, fd, todo, sigs, late>>

xclose ==
  /\ Running("close")
  /\ \/ fd' = "closed" /\ status' = "ok"
     \/ status' = "failed" /\ UNCHANGED fd
  /\ UNCHANGED <<osiVars, pc, started, callbacks, todo, sigs, late>>

-----------------------------------------------------------------------------
\* Mutant: an interrupted read leaves the loop without freeing the buffer.
SigintSkipsFree ==
  /\ status = "running" /\ sigs < MaxSigint
  /\ sigs' = sigs + 1
  /\ \/ pc = "start" /\ status' = "killed" /\ UNCHANGED <<started, pc>>
     \/ pc \notin {"start", "recv"} /\ started' = FALSE /\ UNCHANGED <<status, pc>>
     \/ pc = "recv" /\ started' = FALSE /\ pc' = "clear" /\ UNCHANGED status
  /\ UNCHANGED <<osiVars, fd, callbacks, todo, late>>

\* SIGINT before sigaction kills the process; later the handler clears the
\* flag; and if the program was blocked in recvfrom, that call returns EINTR
\* (the handler was installed without SA_RESTART) and xrecvfrom ends it.
Sigint ==
  /\ status = "running" /\ sigs < MaxSigint
  /\ sigs' = sigs + 1
  /\ \/ pc = "start" /\ status' = "killed" /\ UNCHANGED started
     \/ pc \notin {"start", "recv"} /\ started' = FALSE /\ UNCHANGED status
     \/ pc = "recv" /\ started' = FALSE /\ status' = "eintr"
  /\ UNCHANGED <<osiVars, pc, fd, callbacks, todo, late>>

Terminated == status # "running" /\ UNCHANGED vars

\* The steps main takes by itself; receiving depends on the network.
MainStep ==
  \/ InstallHandler \/ NewStack \/ LoadDissector \/ make_raw_socket
  \/ CreateReader \/ BeginLoop \/ LoopTest \/ AllocBuffer
  \/ EnterRecv \/ NotifyNext \/ InCallback \/ EndRead
  \/ ClearStack \/ RemoveCallback \/ xclose

ReceiveStep == \E f \in Frames : Receive(f)

Next == MainStep \/ ReceiveStep \/ RecvFails \/ Sigint \/ Terminated

Spec == Init /\ [][Next]_vars

\* The scheduler keeps running the process, and frames keep arriving.
FairSpec == Spec /\ WF_vars(MainStep) /\ WF_vars(ReceiveStep)

-----------------------------------------------------------------------------
\* Type correctness of main's state.
TypeOK ==
  /\ pc \in {"start", "new", "load", "socket", "reader", "begin", "test", "alloc", "enter",
             "recv", "notify", "dump", "clear", "unhook", "close"}
  /\ status \in {"running", "ok", "failed", "killed", "crashed", "eintr"}
  /\ started \in BOOLEAN
  /\ fd \in {"none", "open", "closed"}
  /\ callbacks \in Seq({on_new_packet}) /\ todo \in Seq({on_new_packet})
  /\ sigs \in 0..MaxSigint
  /\ late \in Nat

\* main is in its reading loop.
InLoop == pc \in {"test", "alloc", "enter", "recv", "notify", "dump"}

Released == dissectors = <<>> /\ callbacks = <<>> /\ fd = "closed" /\ live = {}

\* A normal end of the program releases everything main and the reader
\* acquired: the dissector and callback lists, the socket and the heap.
CleanExit == status = "ok" => Released

\* A packet is dissected with the complete stack, on an open socket, for a
\* callback that is still to be completed.
WalkIsEquipped == walk # "idle" => dissectors = LoadOrder /\ fd = "open" /\ todo = <<on_new_packet>>

\* Once the flag is cleared in the loop at most one more packet is received:
\* the one waited for when the signal came just before recvfrom blocked.
AtMostOneLatePacket == late <= 1

\* The flag, once cleared in the loop, stays cleared.
StopIsFinal == [][InLoop /\ ~started => ~started']_vars

\* As long as frames arrive, a SIGINT that comes while main is in its loop
\* ends the program.
InterruptEndsLoop == (InLoop /\ ~started) ~> (status # "running")

\* Any SIGINT ends the program (main.c: "Intercepting a SIGINT.").
InterruptEndsProgram == (sigs > 0) ~> (status # "running")

\* A program ended by SIGINT has released its resources (main.c: "Clearing
\* allocated resources.").
InterruptReleases == status \in {"ok", "eintr"} => Released

\* A captured TCP segment whose header is complete is shown as such (README:
\* "display every packets captured on the network interface in the form of a
\* graphically stacked representations of each OSI layers").
SegmentsAreShown ==
  walk = "up" => \A i \in 2..Len(stack) :
    LET p == stack[i] IN
    (out[i - 1].by = "IP" /\ p.protocol = IPPROTO_TCP /\ p.size >= 20 /\ tcp_hdr_size(p) \in 20..p.size)
      => \E j \in DOMAIN out : out[j].by = "tcp"

\* A received packet is displayed to the end unless the program dies.
EveryPacketIsFinished == (status = "running" /\ pc = "notify" /\ todo # <<>>)
                           ~> (status # "running" \/ (pc = "notify" /\ todo = <<>>))

-----------------------------------------------------------------------------
\* main as a program that uses the synchronous reader: where it is in a read,
\* and what its only callback has been given.
readerReading == CASE pc \in {"enter", "recv"} -> (IF status = "running" THEN "receive" ELSE "exited")
                   [] pc = "alloc"             -> (IF status = "running" THEN "no" ELSE "exited")
                   [] pc = "notify"            -> "notify"
                   [] pc = "dump"              -> (IF status = "running" THEN "callback" ELSE "exited")
                   [] OTHER                    -> "no"

readerTodo == IF pc = "dump" THEN Tail(todo) ELSE todo

readerSeen == IF pc = "dump" \/ (pc = "notify" /\ todo = <<>>)
                THEN << [to |-> on_new_packet, packet |-> stack[1]] >> ELSE <<>>

Reader == INSTANCE SyncReader WITH
  Callbacks <- {on_new_packet}, Displaying <- {on_new_packet}, MaxCallbacks <- 1,
  Interceptors <- {}, MaxInterceptors <- 0,
  callback_list <- callbacks, interceptor_list <- <<>>,
  reading <- readerReading, todo <- readerTodo, seen <- readerSeen

\* The program uses the reader as SyncReader lets it be used: it registers
\* its callback between reads, and a read is never left half-way but by the
\* end of the process.
UsesReader == Reader!ReaderSpec

-----------------------------------------------------------------------------
\* The refinement of PacketDisplay.
displayMode == CASE status # "running"                 -> "stopped"
                 [] Running("notify") /\ todo # <<>>   -> "captured"
                 [] Running("dump")                    -> "displaying"
                 [] Running("notify") /\ todo = <<>>   -> "displayed"
                 [] OTHER                              -> "waiting"

displayFrame == IF displayMode \in {"captured", "displaying", "displayed"} THEN stack[1].frame ELSE NULL

displayShown == IF displayMode \in {"displaying", "displayed"}
                  THEN [i \in DOMAIN out |-> Layer(out[i].by)] ELSE <<>>

Display == INSTANCE PacketDisplay WITH mode <- displayMode, frame <- displayFrame, shown <- displayShown

\* The program displays the packets as PacketDisplay promises.
ImplementsDisplay == Display!Spec
=============================================================================
