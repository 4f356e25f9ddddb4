---------------------------- MODULE DisplayProofs ----------------------------
(***************************************************************************)
(* The program implements PacketDisplay: every step of main maps to a step *)
(* of the display or leaves it as it is.                                   *)
(***************************************************************************)
EXTENDS SnifferProofs

DisplayInv == TypeInv /\ MainInv /\ LayersAscend

LEMMA DisplayInvariant == Spec => []DisplayInv
  BY MainInvariant, SnifferUsesStack, OsiLayersAscend, PTL DEF DisplayInv

\* What the display shows for each place where main can be, before and after
\* a step.
LEMMA Waiting ==
  ASSUME status = "running", pc \notin {"notify", "dump"}
  PROVE  displayMode = "waiting" /\ displayFrame = NULL /\ displayShown = <<>>
<1>1. displayMode = "waiting"
  BY DEF displayMode, Running
<1>2. displayFrame = NULL
  BY <1>1 DEF displayFrame
<1>3. displayShown = <<>>
  BY <1>1 DEF displayShown
<1> QED BY <1>1, <1>2, <1>3

LEMMA WaitingNext ==
  ASSUME status' = "running", pc' \notin {"notify", "dump"}
  PROVE  displayMode' = "waiting" /\ displayFrame' = NULL /\ displayShown' = <<>>
<1>1. displayMode' = "waiting"
  BY DEF displayMode, Running
<1>2. displayFrame' = NULL
  BY <1>1 DEF displayFrame
<1>3. displayShown' = <<>>
  BY <1>1 DEF displayShown
<1> QED BY <1>1, <1>2, <1>3

LEMMA CapturedFrame ==
  ASSUME status = "running", pc = "notify", todo # <<>>
  PROVE  displayMode = "captured" /\ displayFrame = stack[1].frame /\ displayShown = <<>>
<1>1. displayMode = "captured"
  BY DEF displayMode, Running
<1>2. displayFrame = stack[1].frame
  BY <1>1 DEF displayFrame
<1>3. displayShown = <<>>
  BY <1>1 DEF displayShown
<1> QED BY <1>1, <1>2, <1>3

LEMMA CapturedFrameNext ==
  ASSUME status' = "running", pc' = "notify", todo' # <<>>
  PROVE  displayMode' = "captured" /\ displayFrame' = stack'[1].frame /\ displayShown' = <<>>
<1>1. displayMode' = "captured"
  BY DEF displayMode, Running
<1>2. displayFrame' = stack'[1].frame
  BY <1>1 DEF displayFrame
<1>3. displayShown' = <<>>
  BY <1>1 DEF displayShown
<1> QED BY <1>1, <1>2, <1>3

LEMMA Displaying ==
  ASSUME status = "running", pc = "dump"
  PROVE  displayMode = "displaying" /\ displayFrame = stack[1].frame /\ displayShown = [i \in DOMAIN out |-> Layer(out[i].by)]
<1>1. displayMode = "displaying"
  BY DEF displayMode, Running
<1>2. displayFrame = stack[1].frame
  BY <1>1 DEF displayFrame
<1>3. displayShown = [i \in DOMAIN out |-> Layer(out[i].by)]
  BY <1>1 DEF displayShown
<1> QED BY <1>1, <1>2, <1>3

LEMMA DisplayingNext ==
  ASSUME status' = "running", pc' = "dump"
  PROVE  displayMode' = "displaying" /\ displayFrame' = stack'[1].frame /\ displayShown' = [i \in DOMAIN out' |-> Layer(out'[i].by)]
<1>1. displayMode' = "displaying"
  BY DEF displayMode, Running
<1>2. displayFrame' = stack'[1].frame
  BY <1>1 DEF displayFrame
<1>3. displayShown' = [i \in DOMAIN out' |-> Layer(out'[i].by)]
  BY <1>1 DEF displayShown
<1> QED BY <1>1, <1>2, <1>3

LEMMA Displayed ==
  ASSUME status = "running", pc = "notify", todo = <<>>
  PROVE  displayMode = "displayed" /\ displayFrame = stack[1].frame /\ displayShown = [i \in DOMAIN out |-> Layer(out[i].by)]
<1>1. displayMode = "displayed"
  BY DEF displayMode, Running
<1>2. displayFrame = stack[1].frame
  BY <1>1 DEF displayFrame
<1>3. displayShown = [i \in DOMAIN out |-> Layer(out[i].by)]
  BY <1>1 DEF displayShown
<1> QED BY <1>1, <1>2, <1>3

LEMMA DisplayedNext ==
  ASSUME status' = "running", pc' = "notify", todo' = <<>>
  PROVE  displayMode' = "displayed" /\ displayFrame' = stack'[1].frame /\ displayShown' = [i \in DOMAIN out' |-> Layer(out'[i].by)]
<1>1. displayMode' = "displayed"
  BY DEF displayMode, Running
<1>2. displayFrame' = stack'[1].frame
  BY <1>1 DEF displayFrame
<1>3. displayShown' = [i \in DOMAIN out' |-> Layer(out'[i].by)]
  BY <1>1 DEF displayShown
<1> QED BY <1>1, <1>2, <1>3

LEMMA Stopped ==
  ASSUME status # "running"
  PROVE  displayMode = "stopped" /\ displayFrame = NULL /\ displayShown = <<>>
<1>1. displayMode = "stopped"
  BY DEF displayMode, Running
<1>2. displayFrame = NULL
  BY <1>1 DEF displayFrame
<1>3. displayShown = <<>>
  BY <1>1 DEF displayShown
<1> QED BY <1>1, <1>2, <1>3

LEMMA StoppedNext ==
  ASSUME status' # "running"
  PROVE  displayMode' = "stopped" /\ displayFrame' = NULL /\ displayShown' = <<>>
<1>1. displayMode' = "stopped"
  BY DEF displayMode, Running
<1>2. displayFrame' = NULL
  BY <1>1 DEF displayFrame
<1>3. displayShown' = <<>>
  BY <1>1 DEF displayShown
<1> QED BY <1>1, <1>2, <1>3

LEMMA DisplayInit == Init => Display!Init
<1> SUFFICES ASSUME Init PROVE Display!Init
  OBVIOUS
<1>1. status = "running" /\ pc \notin {"notify", "dump"}
  BY DEF Init
<1> QED BY <1>1, Waiting DEF Display!Init

LEMMA SeqOfFunction ==
  ASSUME NEW S, NEW n \in Nat, NEW f \in [1..n -> S]
  PROVE  f \in Seq(S) /\ Len(f) = n
  OBVIOUS

\* A header shown by the stack is a header shown on the display.
LEMMA ShowStep ==
  ASSUME DisplayInv, DisplayInv', pc = "dump", pc' = "dump", status = "running", status' = "running",
         stack'[1] = stack[1],
         NEW d \in Dissector, out' = Append(out, [by |-> d, packet |-> Top])
  PROVE  Display!Next
<1> DEFINE n == Len(out)
           e == [by |-> d, packet |-> Top]
           shown == [i \in DOMAIN out |-> Layer(out[i].by)]
<1>1. out \in Seq(Entry) /\ out' \in Seq(Entry) /\ n \in Nat /\ DOMAIN out = 1..n
  BY DEF DisplayInv, TypeInv, OsiTypeOK
<1>2. DOMAIN out' = 1..(n + 1) /\ out'[n + 1] = e /\ \A i \in 1..n : out'[i] = out[i]
  BY <1>1
<1>3. Layer(d) \in 1..7
  BY LayerFacts
<1>4. /\ shown \in Seq(1..7) /\ Len(shown) = n
      /\ \A i \in 1..n : shown[i] = Layer(out[i].by) /\ shown[i] \in 1..7
  <2>1. \A i \in 1..n : out[i].by \in Dissector
    <3>1. \A i \in 1..n : out[i] \in Entry
      BY <1>1
    <3>2. \A x \in Entry : x.by \in Dissector
      BY DEF Entry
    <3> QED BY <3>1, <3>2
  <2>2. \A i \in 1..n : Layer(out[i].by) \in 1..7
    BY <2>1, LayerFacts
  <2>3. shown = [i \in 1..n |-> Layer(out[i].by)]
    BY <1>1
  <2>4. \A i \in 1..n : shown[i] = Layer(out[i].by)
    BY <2>3
  <2> HIDE DEF shown
  <2>5. shown \in Seq(1..7) /\ Len(shown) = n
    <3>1. shown \in [1..n -> 1..7]
      BY <2>2, <2>3
    <3> QED BY <1>1, <3>1, SeqOfFunction
  <2> QED BY <2>2, <2>4, <2>5
<1>5. [i \in DOMAIN out' |-> Layer(out'[i].by)] = Append(shown, Layer(d))
  <2> DEFINE t == [i \in DOMAIN out' |-> Layer(out'[i].by)]
  <2>1. \A i \in 1..(n + 1) : Layer(out'[i].by) = IF i <= n THEN shown[i] ELSE Layer(d)
    BY <1>1, <1>2, <1>4
  <2>2. \A i \in 1..(n + 1) : Layer(out'[i].by) \in 1..7
    BY <1>1, <1>3, <1>4, <2>1
  <2>3. t \in [1..(n + 1) -> 1..7] /\ \A i \in 1..(n + 1) : t[i] = Layer(out'[i].by)
    BY <1>2, <2>2
  <2> HIDE DEF t, shown
  <2>4. t \in Seq(1..7) /\ Len(t) = n + 1
    BY <1>1, <2>3, SeqOfFunction
  <2>5. /\ Append(shown, Layer(d)) \in Seq(1..7) /\ Len(Append(shown, Layer(d))) = n + 1
        /\ \A i \in 1..n : Append(shown, Layer(d))[i] = shown[i]
        /\ Append(shown, Layer(d))[n + 1] = Layer(d)
    BY <1>3, <1>4, AppendProperties
  <2>6. \A i \in 1..Len(t) : t[i] = Append(shown, Layer(d))[i]
    BY <1>1, <2>1, <2>3, <2>4, <2>5
  <2>7. t = Append(shown, Layer(d))
    BY <2>4, <2>5, <2>6, SeqEqual
  <2> QED BY <2>7 DEF t
<1>6. IF shown = <<>> THEN Layer(d) = 1 ELSE Layer(d) > shown[Len(shown)]
  <2>1. IF n + 1 = 1 THEN Layer(d) = 1 ELSE Layer(out'[n].by) < Layer(d)
    <3>1. n + 1 \in DOMAIN out' /\ (n + 1) - 1 = n /\ out'[n + 1].by = d
      BY <1>1, <1>2
    <3>2. LayersAscend'
      BY DEF DisplayInv
    <3>3. IF n + 1 = 1 THEN Layer(out'[n + 1].by) = 1 ELSE Layer(out'[(n + 1) - 1].by) < Layer(out'[n + 1].by)
      BY <3>1, <3>2 DEF LayersAscend
    <3> QED BY <3>1, <3>3
  <2> HIDE DEF shown
  <2>2. CASE n = 0
    BY <1>4, <2>1, <2>2
  <2>3. CASE n # 0
    <3>1. n \in 1..n /\ n + 1 # 1
      BY <1>1, <2>3
    <3>2. shown # <<>> /\ shown[n] = Layer(out'[n].by) /\ shown[n] \in 1..7
      BY <1>1, <1>2, <1>4, <3>1
    <3>3. Layer(out'[n].by) < Layer(d)
      BY <2>1, <3>1
    <3> QED BY <1>3, <1>4, <3>2, <3>3
  <2> QED BY <2>2, <2>3
<1>7. displayMode = "displaying" /\ displayFrame = stack[1].frame /\ displayShown = shown
  BY Displaying
<1>8. displayMode' = "displaying" /\ displayFrame' = stack[1].frame /\ displayShown' = Append(shown, Layer(d))
  BY <1>5, DisplayingNext
<1> HIDE DEF shown
<1>9. Display!Show(Layer(d))
  BY <1>6, <1>7, <1>8 DEF Display!Show
<1> QED BY <1>3, <1>9 DEF Display!Next

-----------------------------------------------------------------------------
DisplayTuple == <<displayMode, displayFrame, displayShown>>

\* One step of the walk, in the callback.
LEMMA CallbackStep ==
  ASSUME DisplayInv, DisplayInv', InCallback
  PROVE  Display!Next \/ UNCHANGED DisplayTuple
<1>1. /\ pc = "dump" /\ status = "running" /\ WalkStep
      /\ pc' = (IF walk' = "idle" THEN "notify" ELSE "dump")
      /\ todo' = (IF walk' = "idle" THEN Tail(todo) ELSE todo)
      /\ status' = (IF walk' = "crashed" THEN "crashed" ELSE "running")
  BY DEF InCallback, Running
<1>2. /\ walk \in {"down", "up"} /\ todo = <<on_new_packet>>
      /\ stack \in Seq(Packet) /\ Len(stack) \in Nat /\ Len(stack) >= 1
  BY <1>1, TopType DEF DisplayInv, MainInv, Handing, TypeInv, OsiTypeOK
<1>3. displayMode = "displaying" /\ displayFrame = stack[1].frame
      /\ displayShown = [i \in DOMAIN out |-> Layer(out[i].by)]
  BY <1>1, Displaying
<1>4. CASE NotHandled \/ BottomOut \/ osi_destroy_packet
  <2>1. out' = out /\ walk' \in {"down", "up"}
    BY <1>2, <1>4 DEF NotHandled, GoOnWithSamePacket, BottomOut, osi_destroy_packet
  <2>2. stack'[1] = stack[1]
    BY <1>2, <1>4 DEF NotHandled, BottomOut, osi_destroy_packet
  <2>3. pc' = "dump" /\ status' = "running"
    BY <1>1, <2>1
  <2>4. displayMode' = "displaying" /\ displayFrame' = stack[1].frame
        /\ displayShown' = [i \in DOMAIN out |-> Layer(out[i].by)]
    BY <2>1, <2>2, <2>3, DisplayingNext
  <2> QED BY <1>3, <2>4 DEF DisplayTuple
<1>5. CASE ShowOnly
  <2>1. PICK i \in DOMAIN dissectors : out' = Append(out, [by |-> dissectors[i], packet |-> Top])
    BY <1>5 DEF ShowOnly
  <2>2. dissectors[i] \in Dissector
    BY <2>1 DEF DisplayInv, TypeInv, OsiTypeOK
  <2>3. stack' = stack /\ walk' \in {"down", "up"}
    BY <1>2, <1>5 DEF ShowOnly, GoOnWithSamePacket
  <2>4. pc' = "dump" /\ status' = "running"
    BY <1>1, <2>3
  <2> QED BY <1>1, <2>1, <2>2, <2>3, <2>4, ShowStep
<1>6. CASE ShowAndDecapsulate
  <2>1. PICK i \in DOMAIN dissectors :
          out' = Append(out, [by |-> dissectors[i], packet |-> Top])
    BY <1>6 DEF ShowAndDecapsulate
  <2>2. dissectors[i] \in Dissector
    BY <2>1 DEF DisplayInv, TypeInv, OsiTypeOK
  <2>3. walk' = walk
    BY <1>6 DEF ShowAndDecapsulate
  <2>4. \E q : stack' = Append(stack, q)
    <3>1. PICK d \in Decapsulating, self \in Addr, data \in Addr, at \in Addr \cup {NULL}, s \in Byte :
             Appended(d, self, data, at, s)
      BY <1>6, ShowAndDecapsulateStep DEF DisplayInv
    <3> QED BY <3>1 DEF Appended
  <2>5. stack'[1] = stack[1]
    BY <1>2, <2>4
  <2>6. pc' = "dump" /\ status' = "running"
    BY <1>1, <1>2, <2>3
  <2> QED BY <1>1, <2>1, <2>2, <2>5, <2>6, ShowStep
<1>7. CASE OutOfMemory \/ TypeOverrun
  <2>1. status' # "running"
    BY <1>1, <1>7 DEF OutOfMemory, TypeOverrun
  <2>2. Display!Stop
    BY <2>1, StoppedNext DEF Display!Stop
  <2> QED BY <2>2 DEF Display!Next
<1>8. CASE PacketFooter
  <2>1. walk' = "idle" /\ stack' = stack /\ out' = out
    BY <1>8 DEF PacketFooter
  <2>2. pc' = "notify" /\ status' = "running" /\ todo' = Tail(todo)
    BY <1>1, <2>1
  <2>3. todo' = <<>>
    <3>1. Tail(<<on_new_packet>>) = <<>>
      OBVIOUS
    <3> QED BY <1>2, <2>2, <3>1
  <2>4. displayMode' = "displayed" /\ displayFrame' = stack[1].frame
        /\ displayShown' = [i \in DOMAIN out |-> Layer(out[i].by)]
    BY <2>1, <2>2, <2>3, DisplayedNext
  <2>5. Display!End
    BY <1>3, <2>4 DEF Display!End
  <2> QED BY <2>5 DEF Display!Next
<1> QED BY <1>1, <1>4, <1>5, <1>6, <1>7, <1>8 DEF WalkStep

LEMMA DisplayStep ==
  DisplayInv /\ DisplayInv' /\ [Next]_vars => Display!Next \/ UNCHANGED DisplayTuple
<1> SUFFICES ASSUME DisplayInv, DisplayInv', [Next]_vars
             PROVE  Display!Next \/ UNCHANGED DisplayTuple
  OBVIOUS
<1>1. CASE \/ InstallHandler \/ NewStack \/ LoadDissector \/ make_raw_socket \/ CreateReader
           \/ BeginLoop \/ LoopTest \/ AllocBuffer \/ EnterRecv \/ ClearStack \/ RemoveCallback \/ xclose
           \/ RecvFails
  <2>1. /\ status = "running" /\ pc \notin {"notify", "dump"}
        /\ status' # "running" \/ (status' = "running" /\ pc' \notin {"notify", "dump"})
    BY <1>1 DEF InstallHandler, NewStack, LoadDissector, make_raw_socket, CreateReader, BeginLoop, LoopTest,
                AllocBuffer, EnterRecv, ClearStack, RemoveCallback, xclose, RecvFails, Running
  <2>2. CASE status' # "running"
    <3>1. Display!Stop
      BY <2>2, StoppedNext DEF Display!Stop
    <3> QED BY <3>1 DEF Display!Next
  <2>3. CASE status' = "running" /\ pc' \notin {"notify", "dump"}
    BY <2>1, <2>3, Waiting, WaitingNext DEF DisplayTuple
  <2> QED BY <2>1, <2>2, <2>3
<1>2. CASE ReceiveStep
  <2>1. PICK f \in Frames : Receive(f)
    BY <1>2 DEF ReceiveStep
  <2>2. status = "running" /\ status' = "running" /\ pc = "recv" /\ pc' = "notify" /\ todo' = callbacks
    BY <2>1 DEF Receive, Running
  <2>3. callbacks = <<on_new_packet>>
    BY <2>2 DEF DisplayInv, MainInv, Progress, Loading
  <2>4. stack'[1].frame = f
    BY <2>1 DEF Receive, BuildPacket
  <2>5. displayMode = "waiting" /\ displayFrame = NULL /\ displayShown = <<>>
    BY <2>2, Waiting
  <2>6. displayMode' = "captured" /\ displayFrame' = f /\ displayShown' = <<>>
    BY <2>2, <2>3, <2>4, CapturedFrameNext
  <2>7. Display!Capture(f)
    BY <2>5, <2>6 DEF Display!Capture
  <2> QED BY <2>7 DEF Display!Next
<1>3. CASE NotifyNext
  <2>1. /\ status = "running" /\ status' = "running" /\ pc = "notify" /\ pc' = "dump" /\ todo # <<>>
        /\ stack' = stack /\ out' = <<>>
    BY <1>3 DEF NotifyNext, Running, DumpPacket
  <2>2. displayMode = "captured" /\ displayFrame = stack[1].frame /\ displayShown = <<>>
    BY <2>1, CapturedFrame
  <2>3. displayMode' = "displaying" /\ displayFrame' = stack[1].frame /\ displayShown' = <<>>
    <3>1. [i \in DOMAIN <<>> |-> Layer(out'[i].by)] = <<>>
      OBVIOUS
    <3> QED BY <2>1, <3>1, DisplayingNext
  <2>4. Display!Begin
    BY <2>2, <2>3 DEF Display!Begin
  <2> QED BY <2>4 DEF Display!Next
<1>4. CASE InCallback
  BY <1>4, CallbackStep
<1>5. CASE EndRead
  <2>1. status = "running" /\ status' = "running" /\ pc = "notify" /\ pc' = "test" /\ todo = <<>>
    BY <1>5 DEF EndRead, Running
  <2>2. displayMode = "displayed"
    BY <2>1, Displayed
  <2>3. displayMode' = "waiting" /\ displayFrame' = NULL /\ displayShown' = <<>>
    BY <2>1, WaitingNext
  <2>4. Display!Discard
    BY <2>2, <2>3 DEF Display!Discard
  <2> QED BY <2>4 DEF Display!Next
<1>6. CASE Sigint
  <2>1. CASE status' # "running"
    <3>1. Display!Stop
      BY <2>1, StoppedNext DEF Display!Stop
    <3> QED BY <3>1 DEF Display!Next
  <2>2. CASE status' = "running"
    <3>1. status' = status /\ pc' = pc /\ todo' = todo /\ stack' = stack /\ out' = out
      BY <1>6, <2>2 DEF Sigint, osiVars
    <3>2. displayMode' = displayMode
      BY <3>1 DEF displayMode, Running
    <3> QED BY <3>1, <3>2 DEF displayFrame, displayShown, DisplayTuple
  <2> QED BY <2>1, <2>2
<1>7. CASE Terminated \/ UNCHANGED vars
  <2>1. status' = status /\ pc' = pc /\ todo' = todo /\ stack' = stack /\ out' = out
    BY <1>7 DEF Terminated, vars, osiVars, mainVars
  <2>2. displayMode' = displayMode
    BY <2>1 DEF displayMode, Running
  <2> QED BY <2>1, <2>2 DEF displayFrame, displayShown, DisplayTuple
<1> QED BY <1>1, <1>2, <1>3, <1>4, <1>5, <1>6, <1>7 DEF Next, MainStep

\* Every frame that is taken is displayed once, from the lowest layer up,
\* before the next one is taken, until the program stops.
THEOREM SnifferImplementsDisplay == Spec => ImplementsDisplay
<1>1. DisplayInv /\ DisplayInv' /\ [Next]_vars => [Display!Next]_(Display!displayVars)
  BY DisplayStep DEF DisplayTuple, Display!displayVars
<1> QED BY <1>1, DisplayInit, DisplayInvariant, PTL DEF Spec, ImplementsDisplay, Display!Spec
=============================================================================
