---------------------------- MODULE ReaderProofs ----------------------------
(***************************************************************************)
(* Proofs about the synchronous reader, for any callbacks and interceptors *)
(* in any number and order: it uses the OSI stack as OsiStack says, hands  *)
(* every packet to every callback, and keeps nothing.                      *)
(***************************************************************************)
EXTENDS SyncReader, OsiStackProofs

\* Whom the notified callbacks are.
Notifieds(s) == [i \in DOMAIN s |-> s[i].to]

\* What the reader and the stack hold at each place of a read: the packet and
\* its buffer exist exactly while callbacks are notified, and the stack is
\* walked only in a callback.
ReadShape ==
  /\ reading \in {"no", "receive", "notify"} => walk = "idle"
  /\ reading = "callback" => walk \in {"down", "up"}
  /\ reading \in {"no", "receive"} => stack = <<>> /\ seen = <<>>
  /\ reading = "no" => buffer = NULL
  /\ reading \in {"notify", "callback"} => stack # <<>> /\ \A i \in DOMAIN seen : seen[i].packet = stack[1]

\* The callbacks notified and the ones still to be notified are the list.
Delivering == reading \in {"notify", "callback"} => Notifieds(seen) \o todo = callback_list

ReaderInv == ReaderTypeOK /\ ReadShape /\ Delivering

-----------------------------------------------------------------------------
\* Facts about the lists.

\* Removing a node leaves a list of the same type.
LEMMA RemovedType ==
  ASSUME NEW S, NEW list \in Seq(S), NEW x, NEW rest, IsRemoved(list, x, rest)
  PROVE  rest \in Seq(S)
<1>1. CASE rest = list
  BY <1>1
<1>2. CASE rest # list
  <2>1. PICK i \in DOMAIN list : rest = SubSeq(list, 1, i - 1) \o SubSeq(list, i + 1, Len(list))
    BY <1>2 DEF IsRemoved
  <2>2. i \in 1..Len(list) /\ Len(list) \in Nat
    OBVIOUS
  <2>3. SubSeq(list, 1, i - 1) \in Seq(S) /\ SubSeq(list, i + 1, Len(list)) \in Seq(S)
    BY <2>2
  <2> QED BY <2>1, <2>3, ConcatProperties
<1> QED BY <1>1, <1>2

\* A function on 1..n is a sequence of length n.
LEMMA FunctionIsSeq ==
  ASSUME NEW S, NEW n \in Nat, NEW f \in [1..n -> S]
  PROVE  f \in Seq(S) /\ Len(f) = n
  OBVIOUS

\* The elements of a concatenation.
LEMMA ConcatElements ==
  ASSUME NEW S, NEW a \in Seq(S), NEW b \in Seq(S), NEW k \in Nat, NEW l \in Nat, Len(a) = k, Len(b) = l
  PROVE  /\ a \o b \in Seq(S) /\ Len(a \o b) = k + l
         /\ \A i \in 1..k : (a \o b)[i] = a[i]
         /\ \A i \in 1..l : (a \o b)[k + i] = b[i]
<1>1. a \o b \in Seq(S) /\ Len(a \o b) = k + l
      /\ \A i \in 1..(k + l) : (a \o b)[i] = IF i <= k THEN a[i] ELSE b[i - k]
  BY ConcatProperties
<1>2. ASSUME NEW i \in 1..k PROVE (a \o b)[i] = a[i]
  <2>1. i \in 1..(k + l) /\ i <= k
    OBVIOUS
  <2> QED BY <1>1, <2>1
<1>3. ASSUME NEW i \in 1..l PROVE (a \o b)[k + i] = b[i]
  <2>1. k + i \in 1..(k + l) /\ ~(k + i <= k) /\ (k + i) - k = i
    OBVIOUS
  <2>2. (a \o b)[k + i] = b[(k + i) - k]
    BY <1>1, <2>1
  <2> QED BY <2>1, <2>2
<1> QED BY <1>1, <1>2, <1>3

\* The callbacks notified are a list of callbacks.
LEMMA NotifiedsType ==
  ASSUME NEW S, NEW R, \A r \in R : r.to \in S, NEW s \in Seq(R)
  PROVE  Notifieds(s) \in Seq(S) /\ Len(Notifieds(s)) = Len(s) /\ \A i \in 1..Len(s) : Notifieds(s)[i] = s[i].to
<1> DEFINE n == Len(s)
<1>1. n \in Nat /\ DOMAIN s = 1..n /\ \A i \in 1..n : s[i] \in R
  OBVIOUS
<1> HIDE DEF n
<1>2. \A i \in 1..n : s[i].to \in S
  BY <1>1
<1>3. Notifieds(s) \in [1..n -> S] /\ \A i \in 1..n : Notifieds(s)[i] = s[i].to
  BY <1>1, <1>2 DEF Notifieds
<1> QED BY <1>1, <1>3, FunctionIsSeq DEF n

\* Notifying the next callback moves it from one list to the other.
LEMMA HandedOver ==
  ASSUME NEW S, NEW R, \A r \in R : r.to \in S, NEW s \in Seq(R), NEW t \in Seq(S), t # <<>>,
         NEW e \in R, e.to = Head(t)
  PROVE  /\ Append(s, e) \in Seq(R)
         /\ Tail(t) \in Seq(S)
         /\ Notifieds(Append(s, e)) \o Tail(t) = Notifieds(s) \o t
<1> DEFINE n == Len(s)
           m == Len(t)
           s2 == Append(s, e)
           left == Notifieds(s2) \o Tail(t)
           right == Notifieds(s) \o t
<1>1. n \in Nat /\ m \in Nat /\ m >= 1 /\ m - 1 \in Nat /\ n + 1 \in Nat
  OBVIOUS
<1>2. Head(t) = t[1] /\ Head(t) \in S /\ Tail(t) \in Seq(S) /\ Len(Tail(t)) = m - 1
      /\ \A i \in 1..(m - 1) : Tail(t)[i] = t[i + 1]
  BY HeadTailProperties
<1>3. e.to = t[1]
  BY <1>2
<1>4. /\ s2 \in Seq(R) /\ Len(s2) = n + 1
      /\ s2[n + 1] = e /\ \A i \in 1..n : s2[i] = s[i]
  BY <1>1, <1>3, AppendProperties
<1> HIDE DEF s2
<1>5. Notifieds(s) \in Seq(S) /\ Len(Notifieds(s)) = n /\ \A i \in 1..n : Notifieds(s)[i] = s[i].to
  BY NotifiedsType
<1>6. Notifieds(s2) \in Seq(S) /\ Len(Notifieds(s2)) = n + 1 /\ \A i \in 1..(n + 1) : Notifieds(s2)[i] = s2[i].to
  BY <1>4, NotifiedsType
<1>7. Len(t) = m
  OBVIOUS
<1> HIDE DEF n, m
<1>8. /\ left \in Seq(S) /\ Len(left) = (n + 1) + (m - 1)
      /\ \A i \in 1..(n + 1) : left[i] = Notifieds(s2)[i]
      /\ \A i \in 1..(m - 1) : left[(n + 1) + i] = Tail(t)[i]
  BY <1>1, <1>2, <1>6, ConcatElements
<1>9. /\ right \in Seq(S) /\ Len(right) = n + m
      /\ \A i \in 1..n : right[i] = Notifieds(s)[i]
      /\ \A i \in 1..m : right[n + i] = t[i]
  BY <1>1, <1>5, <1>7, ConcatElements
<1> HIDE DEF left, right
<1>10. ASSUME NEW i \in 1..(n + m) PROVE left[i] = right[i]
  <2>1. CASE i \in 1..n
    <3>1. i \in 1..(n + 1)
      BY <1>1, <2>1
    <3>2. left[i] = s2[i].to /\ s2[i] = s[i] /\ right[i] = s[i].to
      BY <1>4, <1>5, <1>6, <1>8, <1>9, <2>1, <3>1
    <3> QED BY <3>2
  <2>2. CASE i = n + 1
    <3>1. n + 1 \in 1..(n + 1) /\ 1 \in 1..m
      BY <1>1
    <3>2. left[n + 1] = s2[n + 1].to /\ right[n + 1] = t[1]
      BY <1>6, <1>8, <1>9, <3>1
    <3> QED BY <1>3, <1>4, <2>2, <3>2
  <2>3. CASE i \notin 1..(n + 1)
    <3> DEFINE j == i - (n + 1)
    <3>1. j \in 1..(m - 1) /\ j + 1 \in 1..m /\ i = (n + 1) + j /\ i = n + (j + 1)
      BY <1>1, <2>3
    <3> HIDE DEF j
    <3>2. left[(n + 1) + j] = Tail(t)[j] /\ Tail(t)[j] = t[j + 1] /\ right[n + (j + 1)] = t[j + 1]
      BY <1>2, <1>8, <1>9, <3>1
    <3> QED BY <3>1, <3>2
  <2>4. i \in 1..n \/ i = n + 1 \/ i \notin 1..(n + 1)
    BY <1>1
  <2> QED BY <2>1, <2>2, <2>3, <2>4
<1>11. Len(left) = Len(right) /\ Len(left) = n + m
  BY <1>1, <1>8, <1>9
<1>12. left = right
  BY <1>8, <1>9, <1>10, <1>11, SeqEqual
<1> QED BY <1>2, <1>4, <1>12 DEF left, right, s2
-----------------------------------------------------------------------------
\* The reader uses the stack as OsiStack lets it be used.
LEMMA ReaderInitIsOsiInit == ReaderInit => OsiInit
  BY DEF ReaderInit

LEMMA ReaderNextIsOsiNext == [ReaderNext]_readerVars => [OsiNext]_osiVars
<1> SUFFICES ASSUME [ReaderNext]_readerVars PROVE [OsiNext]_osiVars
  OBVIOUS
<1>1. CASE ChangeLists
  BY <1>1 DEF ChangeLists, sync_reader_add_packet_callback, sync_reader_remove_packet_callback,
              sync_reader_add_packet_interceptor, sync_reader_remove_packet_interceptor
<1>2. CASE ChangeStack
  BY <1>2 DEF ChangeStack, OsiNext
<1>3. CASE BeginRead \/ ReadFails
  BY <1>3 DEF BeginRead, ReadFails, OsiNext
<1>4. CASE \E f \in Frames : ReceivePacket(f)
  BY <1>4 DEF ReceivePacket, OsiNext
<1>5. CASE DeliverStep
  BY <1>5 DEF DeliverStep, NotifyListener, NotifyDisplay, CallbackStep, EndRead, OsiNext
<1>6. CASE UNCHANGED readerVars
  BY <1>6 DEF readerVars
<1> QED BY <1>1, <1>2, <1>3, <1>4, <1>5, <1>6 DEF ReaderNext

\* Every behaviour of the reader is one of OsiStack, so the theorems of
\* OsiStackProofs are about any program that reads packets with it.
THEOREM ReaderUsesStack == ReaderSpec => OsiSpec
  BY ReaderInitIsOsiInit, ReaderNextIsOsiNext, PTL DEF ReaderSpec, OsiSpec

-----------------------------------------------------------------------------
\* The inductive invariant of the reader.
Delivery == [to : Callbacks, packet : Packet]

LEMMA DeliveryFacts ==
  /\ \A r \in Delivery : r.to \in Callbacks
  /\ \A c \in Callbacks, q \in Packet : [to |-> c, packet |-> q] \in Delivery
                                    /\ [to |-> c, packet |-> q].to = c /\ [to |-> c, packet |-> q].packet = q
  BY DEF Delivery

\* The types of what a step may change.
LEMMA ReaderTypes ==
  ReaderTypeOK <=> /\ callback_list \in Seq(Callbacks)
                   /\ interceptor_list \in Seq(Interceptors)
                   /\ reading \in {"no", "receive", "notify", "callback", "exited"}
                   /\ todo \in Seq(Callbacks)
                   /\ seen \in Seq(Delivery)
  BY DEF ReaderTypeOK, Delivery

LEMMA ReaderInvInit == ReaderInit => ReaderInv
<1> SUFFICES ASSUME ReaderInit PROVE ReaderInv
  OBVIOUS
<1>1. ReaderTypeOK
  BY DEF ReaderInit, ReaderTypeOK
<1>2. ReadShape
  BY DEF ReaderInit, OsiInit, ReadShape
<1>3. Delivering
  BY DEF ReaderInit, Delivering
<1> QED BY <1>1, <1>2, <1>3 DEF ReaderInv

\* A step between two reads that changes the lists or the stack only.
LEMMA BetweenStep ==
  ASSUME ReaderInv, Between, callback_list' \in Seq(Callbacks), interceptor_list' \in Seq(Interceptors),
         UNCHANGED <<walk, stack, buffer>>
  PROVE  ReaderInv'
<1>1. reading = "no" /\ reading' = reading /\ todo' = todo /\ seen' = seen
  BY DEF Between, readVars
<1>2. ReaderTypeOK'
  BY <1>1 DEF ReaderInv, ReaderTypeOK
<1>3. ReadShape'
  BY <1>1 DEF ReaderInv, ReadShape
<1>4. Delivering'
  BY <1>1 DEF Delivering
<1> QED BY <1>2, <1>3, <1>4 DEF ReaderInv

\* The next callback is notified.
LEMMA NotifiedStep ==
  ASSUME TypeInv, ReaderInv, Notified
  PROVE  /\ todo' \in Seq(Callbacks) /\ seen' \in Seq(Delivery)
         /\ \A i \in DOMAIN seen' : seen'[i].packet = stack[1]
         /\ Notifieds(seen') \o todo' = callback_list'
         /\ callback_list' = callback_list /\ interceptor_list' = interceptor_list
<1> DEFINE e == [to |-> Head(todo), packet |-> stack[1]]
<1>1. /\ reading = "notify" /\ todo # <<>> /\ todo' = Tail(todo) /\ seen' = Append(seen, e)
      /\ callback_list' = callback_list /\ interceptor_list' = interceptor_list
  BY DEF Notified, listVars
<1>2. todo \in Seq(Callbacks) /\ seen \in Seq(Delivery)
  BY ReaderTypes DEF ReaderInv
<1>3. stack # <<>> /\ \A i \in DOMAIN seen : seen[i].packet = stack[1]
  BY <1>1 DEF ReaderInv, ReadShape
<1>4. stack[1] \in Packet
  <2>1. stack \in Seq(Packet)
    BY DEF TypeInv, OsiTypeOK
  <2> QED BY <1>3, <2>1
<1>5. Head(todo) \in Callbacks
  BY <1>1, <1>2, HeadTailProperties
<1>6. e \in Delivery /\ e.to = Head(todo) /\ e.packet = stack[1]
  BY <1>4, <1>5, DeliveryFacts
<1> HIDE DEF e
<1>7. Append(seen, e) \in Seq(Delivery) /\ Tail(todo) \in Seq(Callbacks)
      /\ Notifieds(Append(seen, e)) \o Tail(todo) = Notifieds(seen) \o todo
  <2>1. Append(seen, e) \in Seq(Delivery)
    BY <1>2, <1>6, AppendProperties
  <2>2. Tail(todo) \in Seq(Callbacks)
    BY <1>1, <1>2, HeadTailProperties
  <2>3. todo # <<>> /\ e \in Delivery /\ e.to = Head(todo) /\ todo \in Seq(Callbacks) /\ seen \in Seq(Delivery)
    BY <1>1, <1>2, <1>6
  <2>4. \A r \in Delivery : r.to \in Callbacks
    BY DeliveryFacts
  <2>5. Notifieds(Append(seen, e)) \o Tail(todo) = Notifieds(seen) \o todo
    BY ONLY <2>3, <2>4, HandedOver, SMT
  <2> QED BY <2>1, <2>2, <2>5
<1>8. \A i \in DOMAIN seen' : seen'[i].packet = stack[1]
  <2> DEFINE n == Len(seen)
  <2>1. n \in Nat /\ DOMAIN seen = 1..n
    BY <1>2
  <2>2. DOMAIN seen' = 1..(n + 1) /\ seen'[n + 1] = e /\ \A i \in 1..n : seen'[i] = seen[i]
    BY <1>1, <1>2, <1>6, <1>7, AppendProperties
  <2> HIDE DEF n
  <2> QED BY <1>3, <1>6, <2>1, <2>2
<1>9. Notifieds(seen) \o todo = callback_list
  BY <1>1 DEF ReaderInv, Delivering
<1> QED BY <1>1, <1>7, <1>8, <1>9

LEMMA ReaderInvStep == TypeInv /\ TypeInv' /\ ReaderInv /\ [ReaderNext]_readerVars => ReaderInv'
<1> SUFFICES ASSUME TypeInv, TypeInv', ReaderInv, [ReaderNext]_readerVars PROVE ReaderInv'
  OBVIOUS
<1>0. /\ callback_list \in Seq(Callbacks) /\ interceptor_list \in Seq(Interceptors)
      /\ todo \in Seq(Callbacks) /\ seen \in Seq(Delivery)
  BY ReaderTypes DEF ReaderInv
<1>1. ASSUME NEW c \in Callbacks, sync_reader_add_packet_callback(c) PROVE ReaderInv'
  <2>1. callback_list' \in Seq(Callbacks)
    BY <1>0, <1>1, AppendProperties DEF sync_reader_add_packet_callback
  <2> QED BY <1>0, <1>1, <2>1, BetweenStep DEF sync_reader_add_packet_callback, osiVars
<1>2. ASSUME NEW c \in Callbacks, sync_reader_remove_packet_callback(c) PROVE ReaderInv'
  <2>1. callback_list' \in Seq(Callbacks)
    BY <1>0, <1>2, RemovedType DEF sync_reader_remove_packet_callback
  <2> QED BY <1>0, <1>2, <2>1, BetweenStep DEF sync_reader_remove_packet_callback, osiVars
<1>3. ASSUME NEW c \in Interceptors, sync_reader_add_packet_interceptor(c) PROVE ReaderInv'
  <2>1. interceptor_list' \in Seq(Interceptors)
    BY <1>0, <1>3, AppendProperties DEF sync_reader_add_packet_interceptor
  <2> QED BY <1>0, <1>3, <2>1, BetweenStep DEF sync_reader_add_packet_interceptor, osiVars
<1>4. ASSUME NEW c \in Interceptors, sync_reader_remove_packet_interceptor(c) PROVE ReaderInv'
  <2>1. interceptor_list' \in Seq(Interceptors)
    BY <1>0, <1>4, RemovedType DEF sync_reader_remove_packet_interceptor
  <2> QED BY <1>0, <1>4, <2>1, BetweenStep DEF sync_reader_remove_packet_interceptor, osiVars
<1>5. CASE ChangeStack
  <2>1. UNCHANGED <<walk, stack, buffer>>
    BY <1>5 DEF ChangeStack, osi_register_dissector, osi_stack_clear
  <2>2. Between /\ callback_list' = callback_list /\ interceptor_list' = interceptor_list
    BY <1>5 DEF ChangeStack, listVars
  <2> QED BY <1>0, <2>1, <2>2, BetweenStep
<1>6. CASE BeginRead
  <2>1. /\ reading = "no" /\ reading' = "receive" /\ UNCHANGED <<walk, stack>>
        /\ callback_list' = callback_list /\ interceptor_list' = interceptor_list /\ todo' = todo /\ seen' = seen
    BY <1>6 DEF BeginRead, CallocBuffer, listVars
  <2>2. ReaderTypeOK'
    BY <2>1 DEF ReaderInv, ReaderTypeOK
  <2>3. ReadShape' /\ Delivering'
    BY <2>1 DEF ReaderInv, ReadShape, Delivering
  <2> QED BY <2>2, <2>3 DEF ReaderInv
<1>7. CASE ReadFails
  <2>1. /\ reading' = "exited"
        /\ callback_list' = callback_list /\ interceptor_list' = interceptor_list /\ todo' = todo /\ seen' = seen
    BY <1>7 DEF ReadFails, listVars
  <2>2. ReaderTypeOK'
    BY <2>1 DEF ReaderInv, ReaderTypeOK
  <2>3. ReadShape' /\ Delivering'
    BY <2>1 DEF ReadShape, Delivering
  <2> QED BY <2>2, <2>3 DEF ReaderInv
<1>8. ASSUME NEW f \in Frames, ReceivePacket(f) PROVE ReaderInv'
  <2>1. /\ reading = "receive" /\ reading' = "notify" /\ walk = "idle" /\ walk' = walk /\ stack' # <<>>
        /\ callback_list' = callback_list /\ interceptor_list' = interceptor_list
        /\ todo' = callback_list /\ seen' = seen
    BY <1>8 DEF ReceivePacket, BuildPacket, listVars
  <2>2. seen = <<>>
    BY <2>1 DEF ReaderInv, ReadShape
  <2>3. ReaderTypeOK'
    BY <1>0, <2>1 DEF ReaderInv, ReaderTypeOK
  <2>4. ReadShape'
    BY <2>1, <2>2 DEF ReadShape
  <2>5. Delivering'
    <3>1. Notifieds(<<>>) = <<>>
      BY DEF Notifieds
    <3>2. <<>> \o callback_list = callback_list
      BY <1>0, ConcatEmptySeq
    <3> QED BY <2>1, <2>2, <3>1, <3>2 DEF Delivering
  <2> QED BY <2>3, <2>4, <2>5 DEF ReaderInv
<1>9. CASE NotifyListener
  <2>1. Notified /\ reading' = reading /\ reading = "notify" /\ UNCHANGED <<walk, stack, buffer>>
    BY <1>9 DEF NotifyListener, Notified, osiVars
  <2>2. ReaderTypeOK'
    <3>1. /\ callback_list' \in Seq(Callbacks) /\ interceptor_list' \in Seq(Interceptors)
          /\ todo' \in Seq(Callbacks) /\ seen' \in Seq(Delivery)
      BY <1>0, <2>1, NotifiedStep
    <3> QED BY <2>1, <3>1 DEF ReaderTypeOK, Delivery
  <2>3. ReadShape'
    BY <2>1, NotifiedStep DEF ReaderInv, ReadShape
  <2>4. Delivering'
    BY <2>1, NotifiedStep DEF Delivering
  <2> QED BY <2>2, <2>3, <2>4 DEF ReaderInv
<1>10. CASE NotifyDisplay
  <2>1. Notified /\ reading' = "callback" /\ reading = "notify" /\ walk' = "down" /\ UNCHANGED <<stack, buffer>>
    BY <1>10 DEF NotifyDisplay, Notified, DumpPacket
  <2>2. ReaderTypeOK'
    <3>1. /\ callback_list' \in Seq(Callbacks) /\ interceptor_list' \in Seq(Interceptors)
          /\ todo' \in Seq(Callbacks) /\ seen' \in Seq(Delivery)
      BY <1>0, <2>1, NotifiedStep
    <3> QED BY <2>1, <3>1 DEF ReaderTypeOK, Delivery
  <2>3. ReadShape'
    BY <2>1, NotifiedStep DEF ReaderInv, ReadShape
  <2>4. Delivering'
    BY <2>1, NotifiedStep DEF Delivering
  <2> QED BY <2>2, <2>3, <2>4 DEF ReaderInv
<1>11. CASE CallbackStep
  <2>1. /\ reading = "callback" /\ WalkStep
        /\ reading' = (CASE walk' = "idle" -> "notify" [] walk' = "crashed" -> "exited" [] OTHER -> "callback")
        /\ callback_list' = callback_list /\ interceptor_list' = interceptor_list /\ todo' = todo /\ seen' = seen
    BY <1>11 DEF CallbackStep, listVars
  <2>2. walk' \in {"idle", "down", "up", "crashed"} /\ stack' # <<>> /\ stack'[1] = stack[1]
    BY <2>1, WalkStepFacts
  <2>3. /\ walk' = "idle" => reading' = "notify"
        /\ walk' = "crashed" => reading' = "exited"
        /\ walk' \in {"down", "up"} => reading' = "callback"
    BY <2>1
  <2>4. ReaderTypeOK'
    BY <2>1, <2>2, <2>3 DEF ReaderInv, ReaderTypeOK
  <2>5. ReadShape'
    BY <2>1, <2>2, <2>3 DEF ReaderInv, ReadShape
  <2>6. Delivering'
    BY <2>1 DEF ReaderInv, Delivering
  <2> QED BY <2>4, <2>5, <2>6 DEF ReaderInv
<1>12. CASE EndRead
  <2>1. /\ reading = "notify" /\ reading' = "no" /\ walk' = "idle" /\ stack' = <<>> /\ buffer' = NULL
        /\ callback_list' = callback_list /\ interceptor_list' = interceptor_list /\ todo' = todo /\ seen' = <<>>
    BY <1>12 DEF EndRead, FreeBuffer, listVars
  <2>2. ReaderTypeOK'
    BY <2>1 DEF ReaderInv, ReaderTypeOK
  <2>3. ReadShape' /\ Delivering'
    BY <2>1 DEF ReadShape, Delivering
  <2> QED BY <2>2, <2>3 DEF ReaderInv
<1>13. CASE UNCHANGED readerVars
  BY <1>13 DEF readerVars, osiVars, listVars, readVars, ReaderInv, ReaderTypeOK, ReadShape, Delivering
<1> QED
  BY <1>1, <1>2, <1>3, <1>4, <1>5, <1>6, <1>7, <1>8, <1>9, <1>10, <1>11, <1>12, <1>13
  DEF ReaderNext, ChangeLists, DeliverStep

LEMMA ReaderInvariant == ReaderSpec => [](TypeInv /\ ReaderInv)
<1>1. ReaderInit => TypeInv /\ ReaderInv
  BY ReaderInitIsOsiInit, TypeInvInit, ReaderInvInit
<1>2. TypeInv /\ ReaderInv /\ [ReaderNext]_readerVars => TypeInv' /\ ReaderInv'
  BY ReaderNextIsOsiNext, TypeInvStep, ReaderInvStep
<1> QED BY <1>1, <1>2, PTL DEF ReaderSpec

-----------------------------------------------------------------------------
\* The reader's lists and what it knows of a read keep their types.
THEOREM ReaderTypeCorrect == ReaderSpec => []ReaderTypeOK
<1>1. ReaderInv => ReaderTypeOK
  BY DEF ReaderInv
<1> QED BY <1>1, ReaderInvariant, PTL

\* The heap of any program that reads packets with the reader.
THEOREM ReaderHeapExact == ReaderSpec => []HeapExact
  BY ReaderUsesStack, OsiHeapExact, PTL

\* Every callback is notified of a packet once, in order, and given the packet
\* received, whose bytes are still there, whatever other callbacks did.
THEOREM ReaderDeliversAlike == ReaderSpec => []DeliveredAlike
<1>1. TypeInv /\ ReaderInv /\ HeapExact /\ Chain => DeliveredAlike
  <2> SUFFICES ASSUME TypeInv, ReaderInv, HeapExact, Chain, reading \in {"notify", "callback"}
               PROVE  /\ [i \in DOMAIN seen |-> seen[i].to] \o todo = callback_list
                      /\ \A i \in DOMAIN seen : seen[i].packet = stack[1]
                      /\ stack[1].data \in live /\ stack[1].size = Captured(stack[1].frame)
    BY DEF DeliveredAlike
  <2>1. [i \in DOMAIN seen |-> seen[i].to] \o todo = callback_list
    BY DEF ReaderInv, Delivering, Notifieds
  <2>2. stack # <<>> /\ \A i \in DOMAIN seen : seen[i].packet = stack[1]
    BY DEF ReaderInv, ReadShape
  <2>3. stack[1].data \in live
    <3>1. stack[1].data = buffer /\ buffer \in Addr
      BY <2>2 DEF HeapExact, TypeInv, OsiTypeOK
    <3> QED BY <3>1 DEF HeapExact
  <2>4. stack[1].size = Captured(stack[1].frame)
    <3>1. 1 \in DOMAIN stack /\ stack[1] \in Packet
      BY <2>2 DEF TypeInv, OsiTypeOK
    <3>2. stack[1].off = 0 /\ stack[1].off + stack[1].size = Captured(stack[1].frame)
      BY <2>2, <3>1 DEF Chain, TypeInv, PayloadIsSuffix, SuffixOf
    <3>3. stack[1].size \in Int
      BY <3>1 DEF Packet
    <3> QED BY <3>2, <3>3
  <2> QED BY <2>1, <2>2, <2>3, <2>4
<1> QED BY <1>1, ReaderInvariant, ReaderHeapExact, ReaderUsesStack, ChainInvariant, PTL

\* Between two reads nothing is allocated.
THEOREM ReaderLeavesNothing == ReaderSpec => []ReadLeavesNothing
<1>1. ReaderInv /\ HeapExact => ReadLeavesNothing
  <2> SUFFICES ASSUME ReaderInv, HeapExact, reading = "no" PROVE live = {} /\ stack = <<>> /\ walk = "idle"
    BY DEF ReadLeavesNothing
  <2>1. stack = <<>> /\ walk = "idle" /\ buffer = NULL
    BY DEF ReaderInv, ReadShape
  <2>2. 2..Len(stack) = {}
    BY <2>1
  <2> QED BY <2>1, <2>2, NullAssumption DEF HeapExact, Built
<1> QED BY <1>1, ReaderInvariant, ReaderHeapExact, PTL

\* A read returns only after every callback was notified.
THEOREM ReaderSkipsNone == ReaderSpec => NoneIsSkipped
<1>1. ReaderInv /\ [ReaderNext]_readerVars
        => [reading = "notify" /\ reading' = "no" => [i \in DOMAIN seen |-> seen[i].to] = callback_list]_readerVars
  <2> SUFFICES ASSUME ReaderInv, ReaderNext, reading = "notify", reading' = "no"
               PROVE  [i \in DOMAIN seen |-> seen[i].to] = callback_list
    OBVIOUS
  <2>1. EndRead
    BY DEF ReaderNext, ChangeLists, sync_reader_add_packet_callback, sync_reader_remove_packet_callback,
           sync_reader_add_packet_interceptor, sync_reader_remove_packet_interceptor, Between, ChangeStack,
           BeginRead, ReadFails, ReceivePacket, DeliverStep, NotifyListener, NotifyDisplay, CallbackStep
  <2>2. todo = <<>>
    BY <2>1 DEF EndRead
  <2>3. Notifieds(seen) \o <<>> = callback_list
    BY <2>2 DEF ReaderInv, Delivering
  <2>4. Notifieds(seen) \in Seq(Callbacks)
    BY ReaderTypes, DeliveryFacts, NotifiedsType DEF ReaderInv
  <2>5. Notifieds(seen) \o <<>> = Notifieds(seen)
    BY <2>4, ConcatEmptySeq
  <2> QED BY <2>3, <2>5 DEF Notifieds
<1> QED BY <1>1, ReaderInvariant, PTL DEF ReaderSpec, NoneIsSkipped

-----------------------------------------------------------------------------
\* The steps that are left until a read returns: a walk and two steps more for
\* every callback that is still to be notified.
DeliveryLeft == CASE reading = "notify"   -> 20 * Len(todo) + 1
                  [] reading = "callback" -> 20 * Len(todo) + 1 + WalkLeft
                  [] OTHER                -> 0

LEMMA DeliverCloser ==
  ASSUME ReaderInv, TypeInv, Depth, WalkLeft \in 0..18, WalkLeft' \in 0..18, DeliverStep
  PROVE  DeliveryLeft' < DeliveryLeft
<1>1. todo \in Seq(Callbacks) /\ Len(todo) \in Nat
  BY DEF ReaderInv, ReaderTypeOK
<1> DEFINE n == Len(todo)
           w == WalkLeft
           v == WalkLeft'
<1>2. n \in Nat /\ w \in 0..18 /\ v \in 0..18
  BY <1>1
<1>3. CASE NotifyListener \/ NotifyDisplay
  <2>1. reading = "notify" /\ todo # <<>> /\ todo' = Tail(todo) /\ reading' \in {"notify", "callback"}
    BY <1>3 DEF NotifyListener, NotifyDisplay, Notified
  <2>2. Len(todo') = n - 1 /\ n >= 1
    BY <1>1, <2>1
  <2>3. DeliveryLeft = 20 * n + 1
        /\ (DeliveryLeft' = 20 * (n - 1) + 1 \/ DeliveryLeft' = 20 * (n - 1) + 1 + v)
    BY <2>1, <2>2 DEF DeliveryLeft
  <2> HIDE DEF n, w, v
  <2> QED BY <1>2, <2>2, <2>3
<1>4. CASE CallbackStep
  <2>1. reading = "callback" /\ WalkStep /\ todo' = todo /\ reading' \in {"notify", "callback", "exited"}
    BY <1>4 DEF CallbackStep
  <2>2. v < w
    BY <2>1, WalkStepCloser
  <2>3. DeliveryLeft = 20 * n + 1 + w
        /\ (DeliveryLeft' = 20 * n + 1 \/ DeliveryLeft' = 20 * n + 1 + v \/ DeliveryLeft' = 0)
    BY <2>1 DEF DeliveryLeft
  <2> HIDE DEF n, w, v
  <2> QED BY <1>2, <2>2, <2>3
<1>5. CASE EndRead
  <2>1. reading = "notify" /\ reading' = "no"
    BY <1>5 DEF EndRead
  <2>2. DeliveryLeft = 20 * n + 1 /\ DeliveryLeft' = 0
    BY <2>1 DEF DeliveryLeft
  <2> HIDE DEF n
  <2> QED BY <1>2, <2>2
<1> QED BY <1>3, <1>4, <1>5 DEF DeliverStep

LEMMA DeliveryLeftIsNumber == ASSUME ReaderInv, WalkLeft \in 0..18 PROVE DeliveryLeft \in Nat
<1>1. Len(todo) \in Nat
  BY DEF ReaderInv, ReaderTypeOK
<1> QED BY <1>1 DEF DeliveryLeft

\* Once a packet is received nothing but its delivery happens, and every step
\* of it brings the return of the read closer, whatever the packet holds and
\* whichever callbacks are registered.
THEOREM ReaderAdvances ==
  ReaderSpec => /\ [](DeliveryLeft \in Nat)
                /\ [][(reading \in {"notify", "callback"}) => DeliverStep /\ DeliveryLeft' < DeliveryLeft]_readerVars
<1> DEFINE Few == WalkLeft \in 0..18
<1>1. ReaderInv /\ Few => DeliveryLeft \in Nat
  BY DeliveryLeftIsNumber
<1>2. ReaderInv /\ TypeInv /\ Depth /\ Few /\ Few' /\ [ReaderNext]_readerVars
        => [(reading \in {"notify", "callback"}) => DeliverStep /\ DeliveryLeft' < DeliveryLeft]_readerVars
  <2> SUFFICES ASSUME ReaderInv, TypeInv, Depth, Few, Few', ReaderNext, reading \in {"notify", "callback"}
               PROVE  DeliverStep /\ DeliveryLeft' < DeliveryLeft
    OBVIOUS
  <2>1. DeliverStep
    BY DEF ReaderNext, ChangeLists, sync_reader_add_packet_callback, sync_reader_remove_packet_callback,
           sync_reader_add_packet_interceptor, sync_reader_remove_packet_interceptor, Between, ChangeStack,
           BeginRead, ReadFails, ReceivePacket
  <2> QED BY <2>1, DeliverCloser
<1> HIDE DEF Few
<1>3. ReaderSpec => []Few
  BY ReaderUsesStack, OsiWalkAdvances, PTL DEF Few
<1> QED BY <1>1, <1>2, <1>3, ReaderInvariant, ReaderUsesStack, DepthInvariant, PTL DEF ReaderSpec
=============================================================================
