---------------------------- MODULE SnifferProofs ----------------------------
(***************************************************************************)
(* Proofs about the whole program: it uses the OSI stack as OsiStack says  *)
(* a program may, so that what is proved of the stack holds of it, and it  *)
(* ends, stops and displays packets as intended.                           *)
(***************************************************************************)
EXTENDS Sniffer, OsiStackProofs

\* Where main is, and what it has acquired by then.
Loading  == {"start", "new", "load", "socket"}
Reading  == {"enter", "recv"}
Handling == {"notify", "dump"}
Ending   == {"unhook", "close"}

Progress ==
  /\ pc \in {"start", "new"} => dissectors = <<>>
  /\ pc = "load" => Len(dissectors) < 9 /\ \A i \in 1..Len(dissectors) : dissectors[i] = LoadOrder[i]
  /\ pc \notin {"start", "new", "load"} \cup Ending => dissectors = LoadOrder
  /\ pc \in Ending => dissectors = <<>>
  /\ pc \in Loading => fd = "none"
  /\ pc \notin Loading /\ status # "ok" => fd = "open"
  /\ pc \in Loading \cup {"reader", "close"} => callbacks = <<>>
  /\ pc \notin Loading \cup {"reader", "close"} => callbacks = <<on_new_packet>>
  /\ status = "ok" => pc = "close" /\ fd = "closed"

\* The capture buffer and the packet exist exactly while main handles them,
\* and the stack is walked only from its callback.
Handing ==
  /\ pc # "dump" => walk = "idle"
  /\ pc = "dump" => todo = <<on_new_packet>> /\ (status = "running" => walk \in {"down", "up"})
  /\ pc = "notify" => todo \in {<<>>, <<on_new_packet>>}
  /\ pc \in Reading => stack = <<>>
  /\ pc \in Handling => stack # <<>>
  /\ pc \notin Reading \cup Handling => stack = <<>> /\ buffer = NULL

\* A packet is late only if the flag was cleared between its test and the
\* return of recvfrom, and then the next test ends the loop.
Lateness ==
  /\ late \in {0, 1}
  /\ late = 1 => ~started /\ pc \in {"notify", "dump", "test", "clear", "unhook", "close"}

LEMMA LoadOrderFacts ==
  /\ LoadOrder \in Seq(Dissector) /\ Len(LoadOrder) = 9
  /\ \A i \in 1..9 : LoadOrder[i] \in Dissector
  BY DEF LoadOrder, Dissector

-----------------------------------------------------------------------------
\* The program uses the stack as OsiStack lets it be used.
LEMMA InitIsOsiInit == Init => OsiInit
  BY DEF Init

LEMMA NextIsOsiNext == OsiTypeOK /\ Progress /\ [Next]_vars => [OsiNext]_osiVars
<1> SUFFICES ASSUME OsiTypeOK, Progress, [Next]_vars PROVE [OsiNext]_osiVars
  OBVIOUS
<1>1. CASE \/ InstallHandler \/ make_raw_socket \/ CreateReader \/ BeginLoop \/ LoopTest
           \/ EnterRecv \/ RemoveCallback \/ xclose \/ RecvFails \/ Sigint
  BY <1>1 DEF InstallHandler, make_raw_socket, CreateReader, BeginLoop, LoopTest, EnterRecv,
              RemoveCallback, xclose, RecvFails, Sigint
<1>2. CASE NewStack \/ ClearStack
  BY <1>2 DEF NewStack, ClearStack, OsiNext
<1>3. CASE LoadDissector
  <2>1. Len(dissectors) < 9
    BY <1>3 DEF LoadDissector, Running, Progress
  <2>2. osi_register_dissector(LoadOrder[Len(dissectors) + 1])
    BY <1>3 DEF LoadDissector
  <2>3. LoadOrder[Len(dissectors) + 1] \in Available /\ Len(dissectors) < MaxRegistered
    <3>1. Len(dissectors) + 1 \in 1..9
      BY <2>1 DEF OsiTypeOK
    <3> QED BY <2>1, <3>1, LoadOrderFacts, LoadAssumption, AvailableAssumption DEF OsiTypeOK
  <2> QED BY <2>2, <2>3 DEF OsiNext
<1>4. CASE AllocBuffer
  BY <1>4 DEF AllocBuffer, OsiNext
<1>5. CASE ReceiveStep
  BY <1>5 DEF ReceiveStep, Receive, OsiNext
<1>6. CASE NotifyNext \/ InCallback \/ EndRead
  BY <1>6 DEF NotifyNext, InCallback, EndRead, OsiNext
<1>7. CASE Terminated \/ UNCHANGED vars
  BY <1>7 DEF Terminated, vars
<1> QED BY <1>1, <1>2, <1>3, <1>4, <1>5, <1>6, <1>7 DEF Next, MainStep

-----------------------------------------------------------------------------
\* The inductive invariant of main.
MainInv == TypeOK /\ Progress /\ Handing /\ Lateness

LEMMA MainInvInit == Init => MainInv
<1> SUFFICES ASSUME Init PROVE MainInv
  OBVIOUS
<1>1. TypeOK
  <2>1. <<>> \in Seq({on_new_packet})
    OBVIOUS
  <2>2. 0 \in 0..MaxSigint
    BY SigintAssumption
  <2>3. /\ pc = "start" /\ status = "running" /\ started = FALSE /\ fd = "none"
        /\ callbacks = <<>> /\ todo = <<>> /\ sigs = 0 /\ late = 0
    BY DEF Init
  <2> QED BY <2>1, <2>2, <2>3 DEF TypeOK
<1>2. Progress
  BY DEF Init, OsiInit, Progress, Loading, Ending
<1>3. Handing
  BY DEF Init, OsiInit, Handing, Reading, Handling
<1>4. Lateness
  BY DEF Init, Lateness
<1> QED BY <1>1, <1>2, <1>3, <1>4 DEF MainInv

LEMMA MainInvStep == TypeInv /\ TypeInv' /\ MainInv /\ [Next]_vars => MainInv'
<1> SUFFICES ASSUME TypeInv, TypeInv', MainInv, [Next]_vars PROVE MainInv'
  OBVIOUS
<1> USE DEF MainInv, TypeOK, Progress, Handing, Lateness, Loading, Reading, Handling, Ending
<1>1. CASE InstallHandler
  BY <1>1 DEF InstallHandler, Running, osiVars
<1>2. CASE NewStack
  BY <1>2 DEF NewStack, Running, osi_stack_clear
<1>3. CASE LoadDissector
  <2> DEFINE n == Len(dissectors)
  <2>1. /\ pc = "load" /\ status = "running" /\ dissectors' = Append(dissectors, LoadOrder[n + 1])
        /\ pc' = (IF n + 1 = Len(LoadOrder) THEN "socket" ELSE "load")
        /\ UNCHANGED <<walk, layer, stack, live, buffer, out>>
        /\ UNCHANGED <<status, started, fd, callbacks, todo, sigs, late>>
    BY <1>3 DEF LoadDissector, Running, osi_register_dissector
  <2>2. dissectors \in Seq(Dissector) /\ n \in Nat /\ n < 9
    BY <2>1 DEF TypeInv, OsiTypeOK
  <2>3. Len(dissectors') = n + 1 /\ \A i \in 1..(n + 1) : dissectors'[i] = LoadOrder[i]
    BY <2>1, <2>2
  <2>4. CASE n + 1 = 9
    <3>1. dissectors' = LoadOrder
      <4>1. dissectors' \in Seq(Dissector)
        BY DEF TypeInv, OsiTypeOK
      <4>2. Len(dissectors') = 9 /\ \A i \in 1..Len(dissectors') : dissectors'[i] = LoadOrder[i]
        BY <2>3, <2>4
      <4> QED BY <4>1, <4>2, LoadOrderFacts, SeqEqual
    <3>2. pc' = "socket"
      BY <2>1, <2>4, LoadOrderFacts
    <3> QED BY <2>1, <3>1, <3>2
  <2>5. CASE n + 1 # 9
    <3>1. pc' = "load" /\ n + 1 < 9
      BY <2>1, <2>2, <2>5, LoadOrderFacts
    <3> QED BY <2>1, <2>3, <3>1
  <2> QED BY <2>4, <2>5
<1>4. CASE make_raw_socket
  BY <1>4 DEF make_raw_socket, Running, osiVars
<1>5. CASE CreateReader
  BY <1>5 DEF CreateReader, Running, osiVars
<1>6. CASE BeginLoop
  BY <1>6 DEF BeginLoop, Running, osiVars
<1>7. CASE LoopTest
  BY <1>7 DEF LoopTest, Running, osiVars
<1>8. CASE AllocBuffer
  BY <1>8 DEF AllocBuffer, Running, CallocBuffer, osiVars
<1>9. CASE EnterRecv
  BY <1>9 DEF EnterRecv, Running, osiVars
<1>10. CASE ReceiveStep
  BY <1>10 DEF ReceiveStep, Receive, Running, BuildPacket
<1>11. CASE RecvFails
  BY <1>11 DEF RecvFails, Running, osiVars
<1>12. CASE NotifyNext
  BY <1>12 DEF NotifyNext, Running, DumpPacket
<1>13. CASE InCallback
  <2>1. /\ pc = "dump" /\ status = "running" /\ WalkStep
        /\ pc' = (IF walk' = "idle" THEN "notify" ELSE "dump")
        /\ todo' = (IF walk' = "idle" THEN Tail(todo) ELSE todo)
        /\ status' = (IF walk' = "crashed" THEN "crashed" ELSE "running")
        /\ UNCHANGED <<started, fd, callbacks, sigs, late>>
    BY <1>13 DEF InCallback, Running
  <2>2. UNCHANGED <<dissectors, buffer>> /\ stack' # <<>> /\ walk' \in {"idle", "down", "up", "crashed"}
    BY <2>1, WalkStepFacts
  <2>3. todo = <<on_new_packet>> /\ Tail(todo) = <<>>
    <3>1. todo = <<on_new_packet>>
      BY <2>1
    <3> HIDE DEF MainInv, TypeOK, Progress, Handing, Lateness
    <3>2. Tail(<<on_new_packet>>) = <<>>
      OBVIOUS
    <3> QED BY <3>1, <3>2
  <2>4. TypeOK'
    BY <2>1, <2>3
  <2>5. Progress'
    BY <2>1, <2>2
  <2>6. Handing'
    BY <2>1, <2>2, <2>3
  <2>7. Lateness'
    BY <2>1
  <2> QED BY <2>4, <2>5, <2>6, <2>7
<1>14. CASE EndRead
  BY <1>14 DEF EndRead, Running, FreeBuffer
<1>15. CASE ClearStack
  BY <1>15 DEF ClearStack, Running, osi_stack_clear
<1>16. CASE RemoveCallback
  BY <1>16 DEF RemoveCallback, Running, osiVars
<1>17. CASE xclose
  BY <1>17 DEF xclose, Running, osiVars
<1>18. CASE Sigint
  <2>1. /\ status = "running" /\ sigs' = sigs + 1 /\ sigs < MaxSigint
        /\ UNCHANGED <<osiVars, pc, fd, callbacks, todo, late>>
        /\ started' \in {started, FALSE} /\ status' \in {"running", "killed", "eintr"}
        /\ status' # "running" => pc \in {"start", "recv"}
    BY <1>18 DEF Sigint
  <2>2. dissectors' = dissectors /\ stack' = stack /\ buffer' = buffer /\ walk' = walk
    BY <2>1 DEF osiVars
  <2>3. sigs' \in 0..MaxSigint
    BY <2>1, SigintAssumption
  <2>4. TypeOK'
    BY <2>1, <2>3
  <2>5. Progress'
    BY <2>1, <2>2
  <2>6. Handing'
    BY <2>1, <2>2
  <2>7. Lateness'
    <3>1. late' = late /\ pc' = pc
      BY <2>1
    <3>2. late = 1 => started' = FALSE
      BY <2>1
    <3> QED BY <3>1, <3>2
  <2> QED BY <2>4, <2>5, <2>6, <2>7
<1>19. CASE Terminated \/ UNCHANGED vars
  BY <1>19 DEF Terminated, vars, osiVars, mainVars
<1> QED
  BY <1>1, <1>2, <1>3, <1>4, <1>5, <1>6, <1>7, <1>8, <1>9, <1>10, <1>11, <1>12, <1>13, <1>14,
     <1>15, <1>16, <1>17, <1>18, <1>19 DEF Next, MainStep

-----------------------------------------------------------------------------
LEMMA MainInvariant == Spec => [](TypeInv /\ MainInv)
<1>1. Init => TypeInv /\ MainInv
  BY InitIsOsiInit, TypeInvInit, MainInvInit
<1>2. TypeInv /\ MainInv /\ [Next]_vars => TypeInv' /\ MainInv'
  <2> SUFFICES ASSUME TypeInv, MainInv, [Next]_vars PROVE TypeInv' /\ MainInv'
    OBVIOUS
  <2>1. TypeInv'
    BY NextIsOsiNext, TypeInvStep DEF TypeInv, MainInv
  <2> QED BY <2>1, MainInvStep
<1> QED BY <1>1, <1>2, PTL DEF Spec

\* The program only uses the stack and the capture buffer the way OsiStack
\* describes: every behaviour of the program is one of OsiStack, so the
\* theorems of OsiStackProofs are about the program.
THEOREM SnifferUsesStack == Spec => OsiSpec
<1>1. TypeInv /\ MainInv /\ [Next]_vars => [OsiNext]_osiVars
  BY NextIsOsiNext DEF TypeInv, MainInv
<1> QED BY <1>1, InitIsOsiInit, MainInvariant, PTL DEF Spec, OsiSpec

\* Main's variables keep their types.
THEOREM SnifferTypeCorrect == Spec => []TypeOK
<1>1. MainInv => TypeOK
  BY DEF MainInv
<1> QED BY <1>1, MainInvariant, PTL

\* The heap of the whole program: no leak, no double free, no use of a freed
\* packet, whatever frames arrive and whenever signals do.
THEOREM SnifferHeapExact == Spec => []HeapExact
  BY SnifferUsesStack, OsiHeapExact, PTL

\* The program shows transport headers below the IP header that announces
\* them.
THEOREM SnifferTransportOverIP == Spec => []TransportOverIP
  BY SnifferUsesStack, OsiTransportOverIP, PTL

\* A normal end has released the lists, the socket and the heap.
THEOREM SnifferCleanExit == Spec => []CleanExit
<1>1. TypeInv /\ MainInv /\ HeapExact => CleanExit
  <2> SUFFICES ASSUME TypeInv, MainInv, HeapExact, status = "ok" PROVE Released
    BY DEF CleanExit
  <2>1. pc = "close" /\ fd = "closed"
    BY DEF MainInv, Progress
  <2>2. dissectors = <<>> /\ callbacks = <<>>
    BY <2>1 DEF MainInv, Progress, Ending, Loading
  <2>3. stack = <<>> /\ buffer = NULL
    BY <2>1 DEF MainInv, Handing, Reading, Handling
  <2>4. live = {}
    <3>1. 2..Len(stack) = {}
      BY <2>3
    <3> QED BY <2>3, <3>1, NullAssumption DEF HeapExact, Built
  <2> QED BY <2>1, <2>2, <2>4 DEF Released
<1> QED BY <1>1, MainInvariant, SnifferHeapExact, PTL

\* Every packet is dissected with the complete stack on an open socket.
THEOREM SnifferWalkIsEquipped == Spec => []WalkIsEquipped
<1>1. MainInv => WalkIsEquipped
  <2> SUFFICES ASSUME MainInv, walk # "idle"
               PROVE  dissectors = LoadOrder /\ fd = "open" /\ todo = <<on_new_packet>>
    BY DEF WalkIsEquipped
  <2>1. pc = "dump" /\ todo = <<on_new_packet>>
    BY DEF MainInv, Handing
  <2> QED BY <2>1 DEF MainInv, Progress, Loading, Ending
<1> QED BY <1>1, MainInvariant, PTL

\* At most one packet is received after the flag is cleared.
THEOREM SnifferAtMostOneLatePacket == Spec => []AtMostOneLatePacket
<1>1. MainInv => AtMostOneLatePacket
  BY DEF MainInv, Lateness, AtMostOneLatePacket
<1> QED BY <1>1, MainInvariant, PTL

\* Nothing sets the flag again once it was cleared in the loop.
THEOREM SnifferStopIsFinal == Spec => StopIsFinal
<1>1. [Next]_vars => [InLoop /\ ~started => ~started']_vars
  <2> SUFFICES ASSUME Next, InLoop, ~started PROVE ~started'
    OBVIOUS
  <2>1. pc # "begin"
    BY DEF InLoop
  <2>2. ~BeginLoop
    BY <2>1 DEF BeginLoop, Running
  <2>3. CASE MainStep
    BY <2>2, <2>3 DEF MainStep, InstallHandler, NewStack, LoadDissector, make_raw_socket, CreateReader,
                      LoopTest, AllocBuffer, EnterRecv, NotifyNext, InCallback, EndRead, ClearStack,
                      RemoveCallback, xclose
  <2>4. CASE ReceiveStep \/ RecvFails \/ Sigint
    BY <2>4 DEF ReceiveStep, Receive, RecvFails, Sigint
  <2>5. CASE Terminated
    BY <2>5 DEF Terminated, vars, mainVars
  <2> QED BY <2>3, <2>4, <2>5 DEF Next
<1> QED BY <1>1, PTL DEF Spec, StopIsFinal

-----------------------------------------------------------------------------
\* The steps to the end of the program once the flag is cleared: at the most
\* one more packet is waited for, shown on a walk of the stack and freed, and
\* then the end of main is reached.
ExitLeft == CASE status # "running"              -> 0
              [] Running("close")                -> 1
              [] Running("unhook")               -> 2
              [] Running("clear")                -> 3
              [] Running("test")                 -> 4
              [] Running("notify") /\ todo = <<>> -> 5
              [] Running("dump")                 -> 5 + WalkLeft
              [] Running("notify") /\ todo # <<>> -> 24
              [] Running("recv")                 -> 25
              [] Running("enter")                -> 26
              [] OTHER                           -> 27

\* SIGINT was noted, and main is in its loop or behind it.
Stopping == ~started /\ (InLoop \/ pc \in {"clear", "unhook", "close"})

\* What is left of a walk of the stack is bounded.
Few == WalkLeft \in 0..18

LEMMA ExitLeftBound == ASSUME Few PROVE ExitLeft \in 0..27
  BY DEF Few, ExitLeft, Running

\* The steps of main: each is closer to the end.
LEMMA MainStepCloser ==
  ASSUME TypeInv, Depth, MainInv, Few, Few', Stopping, MainStep \/ ReceiveStep \/ RecvFails
  PROVE  Stopping' /\ ExitLeft' < ExitLeft
<1>1. pc \notin {"start", "new", "load", "socket", "reader", "begin"} /\ ~started
  BY DEF Stopping, InLoop
<1>2. CASE LoopTest
  <2>1. Running("test") /\ pc' = "clear" /\ status' = status /\ ~started'
    BY <1>1, <1>2 DEF LoopTest
  <2> QED BY <2>1 DEF Running, Stopping, InLoop, ExitLeft
<1>3. CASE AllocBuffer
  <2>1. Running("alloc") /\ started' = started
        /\ ((pc' = "enter" /\ status' = status) \/ (status' = "failed" /\ pc' = pc))
    BY <1>3 DEF AllocBuffer
  <2> QED BY <1>1, <2>1 DEF Running, Stopping, InLoop, ExitLeft
<1>4. CASE EnterRecv
  <2>1. Running("enter") /\ started' = started /\ pc' = "recv" /\ status' = status
    BY <1>4 DEF EnterRecv
  <2> QED BY <1>1, <2>1 DEF Running, Stopping, InLoop, ExitLeft
<1>5. CASE ReceiveStep
  <2>1. Running("recv") /\ started' = started /\ pc' = "notify" /\ status' = status
    BY <1>5 DEF ReceiveStep, Receive
  <2> QED BY <1>1, <2>1 DEF Running, Stopping, InLoop, ExitLeft
<1>6. CASE RecvFails
  <2>1. Running("recv") /\ started' = started /\ pc' = pc /\ status' = "failed"
    BY <1>6 DEF RecvFails
  <2> QED BY <1>1, <2>1 DEF Running, Stopping, InLoop, ExitLeft
<1>7. CASE NotifyNext
  <2>1. Running("notify") /\ todo # <<>> /\ started' = started /\ pc' = "dump" /\ status' = status
    BY <1>7 DEF NotifyNext
  <2>2. ExitLeft = 24
    BY <2>1 DEF ExitLeft, Running
  <2>3. ExitLeft' = 5 + WalkLeft'
    BY <2>1 DEF ExitLeft, Running
  <2>4. ExitLeft' < ExitLeft
    <3> DEFINE w == WalkLeft'
    <3>1. w \in 0..18
      BY DEF Few
    <3>2. ExitLeft' = 5 + w
      BY <2>3
    <3> HIDE DEF w
    <3> QED BY <2>2, <3>1, <3>2
  <2> QED BY <1>1, <2>1, <2>4 DEF Stopping, InLoop
<1>8. CASE InCallback
  <2>1. /\ Running("dump") /\ WalkStep /\ started' = started /\ todo = <<on_new_packet>>
        /\ pc'     = (IF walk' = "idle" THEN "notify" ELSE "dump")
        /\ todo'   = (IF walk' = "idle" THEN Tail(todo) ELSE todo)
        /\ status' = (IF walk' = "crashed" THEN "crashed" ELSE "running")
    BY <1>8 DEF InCallback, MainInv, Handing, Running
  <2>2. WalkLeft' < WalkLeft
    BY <2>1, WalkStepCloser
  <2>3. Tail(<<on_new_packet>>) = <<>>
    OBVIOUS
  <2>4. ExitLeft = 5 + WalkLeft
    BY <2>1 DEF ExitLeft, Running
  <2>5. CASE walk' = "idle"
    <3>1. pc' = "notify" /\ todo' = <<>> /\ status' = "running"
      BY <2>1, <2>3, <2>5
    <3>2. ExitLeft' = 5
      BY <3>1 DEF ExitLeft, Running
    <3>3. ExitLeft' < ExitLeft
      BY <2>2, <2>4, <3>2 DEF Few
    <3> QED BY <1>1, <2>1, <3>1, <3>3 DEF Stopping, InLoop
  <2>6. CASE walk' # "idle"
    <3>1. pc' = "dump"
      BY <2>1, <2>6
    <3>2. ExitLeft' = 0 \/ ExitLeft' = 5 + WalkLeft'
      BY <2>1, <3>1 DEF ExitLeft, Running
    <3>3. ExitLeft' < ExitLeft
      BY <2>2, <2>4, <3>2 DEF Few
    <3> QED BY <1>1, <2>1, <3>1, <3>3 DEF Stopping, InLoop
  <2> QED BY <2>5, <2>6
<1>9. CASE EndRead
  <2>1. Running("notify") /\ todo = <<>> /\ started' = started /\ pc' = "test" /\ status' = status
    BY <1>9 DEF EndRead
  <2> QED BY <1>1, <2>1 DEF Running, Stopping, InLoop, ExitLeft
<1>10. CASE ClearStack \/ RemoveCallback
  <2>1. /\ started' = started /\ status' = status
        /\ (Running("clear") /\ pc' = "unhook") \/ (Running("unhook") /\ pc' = "close")
    BY <1>10 DEF ClearStack, RemoveCallback
  <2> QED BY <1>1, <2>1 DEF Running, Stopping, InLoop, ExitLeft
<1>11. CASE xclose
  <2>1. Running("close") /\ started' = started /\ pc' = pc /\ status' \in {"ok", "failed"}
    BY <1>11 DEF xclose
  <2> QED BY <1>1, <2>1 DEF Running, Stopping, InLoop, ExitLeft
<1>12. ~(InstallHandler \/ NewStack \/ LoadDissector \/ make_raw_socket \/ CreateReader \/ BeginLoop)
  BY <1>1 DEF InstallHandler, NewStack, LoadDissector, make_raw_socket, CreateReader, BeginLoop, Running
<1> QED
  BY <1>2, <1>3, <1>4, <1>5, <1>6, <1>7, <1>8, <1>9, <1>10, <1>11, <1>12 DEF MainStep

\* One more SIGINT does not put off the end.
LEMMA SigintNoLater ==
  ASSUME Few, Stopping, Sigint PROVE Stopping' /\ (ExitLeft' < ExitLeft \/ ExitLeft' = ExitLeft)
<1>1. /\ pc' = pc /\ todo' = todo /\ UNCHANGED osiVars /\ started' = FALSE /\ status = "running"
      /\ status' = "running" \/ (status' = "eintr" /\ pc = "recv")
  BY DEF Sigint, Stopping, InLoop
<1>2. WalkLeft' = WalkLeft
  BY <1>1 DEF WalkLeft, osiVars
<1>3. Stopping'
  BY <1>1 DEF Stopping, InLoop
<1>4. CASE status' = "running"
  BY <1>1, <1>2, <1>3, <1>4 DEF ExitLeft, Running
<1>5. CASE status' = "eintr" /\ pc = "recv"
  <2>1. ExitLeft = 25 /\ ExitLeft' = 0
    BY <1>1, <1>5 DEF ExitLeft, Running
  <2> QED BY <1>3, <2>1
<1> QED BY <1>1, <1>4, <1>5

\* Once SIGINT is noted the program is no more than 27 of its own steps from
\* its end, whatever arrives and however often it is interrupted again: every
\* step brings the end closer, and another SIGINT does not put it off.
THEOREM SnifferStopsSoon ==
  Spec => /\ [](ExitLeft \in 0..27)
          /\ [][Stopping => Stopping' /\ (ExitLeft' < ExitLeft \/ (Sigint /\ ExitLeft' = ExitLeft))]_vars
<1>1. Few => ExitLeft \in 0..27
  BY ExitLeftBound
<1>2. TypeInv /\ Depth /\ MainInv /\ Few /\ Few' /\ [Next]_vars
        => [Stopping => Stopping' /\ (ExitLeft' < ExitLeft \/ (Sigint /\ ExitLeft' = ExitLeft))]_vars
  <2> SUFFICES ASSUME TypeInv, Depth, MainInv, Few, Few', Next, Stopping, ~UNCHANGED vars
               PROVE  Stopping' /\ (ExitLeft' < ExitLeft \/ (Sigint /\ ExitLeft' = ExitLeft))
    OBVIOUS
  <2>1. ~Terminated
    BY DEF Terminated
  <2> QED BY <2>1, MainStepCloser, SigintNoLater DEF Next
<1>3. Spec => []Few
  BY SnifferUsesStack, OsiWalkAdvances, PTL DEF Few
<1> QED BY <1>1, <1>2, <1>3, MainInvariant, SnifferUsesStack, DepthInvariant, PTL DEF Spec
=============================================================================
