--------------------------- MODULE DnsNamesProofs ---------------------------
(***************************************************************************)
(* Proofs about the DNS walk, for every message, every size of the name    *)
(* buffer and whatever lies behind the message in memory.                  *)
(* The second half compares dn_expand with DnsNamesReference, and the last *)
(* part bounds the steps of the dump.                                      *)
(***************************************************************************)
EXTENDS DnsNamesReference, SequenceTheorems, FiniteSetTheorems, WellFoundedInduction, TLAPS

\* The names that the walk over the questions expands start inside the
\* message, and there is one more question or answer to show.
Walking ==
  /\ pc = "question" => data <= End
  /\ pc \in {"queryName", "queryBack"} => data < End /\ asked < msg.questions
  /\ pc \in {"aliasName", "aliasBack"} => answered < msg.answers

\* Until the first pointer of a name the position is at or behind its start;
\* from then on len says where the name ended, inside the message.
Expanding ==
  /\ InName /\ len = -1 => p >= data
  /\ pc \in {"queryName", "queryBack", "aliasName"} /\ len # -1
       => len >= 1 /\ (data < End => data + len <= End)

DnsInv == TypeOK /\ Walking /\ Expanding /\ NameStaysInside

LEMMA EndType == ASSUME TypeOK PROVE End \in Nat /\ msg.text \in Seq(Octet)
                                     /\ msg.questions \in Nat /\ msg.answers \in Nat
<1>1. msg \in Message
  BY MessageAssumption DEF TypeOK
<1>2. msg.text \in Seq(Octet) /\ msg.questions \in 0..5 /\ msg.answers \in 0..10
  BY <1>1 DEF Message
<1> QED BY <1>2 DEF End

LEMMA ByteType ==
  ASSUME TypeOK, NEW k \in Nat, NEW b \in Byte(k)
  PROVE  b \in Nat /\ b < 256
<1>1. CASE k < End
  <2>1. b = msg.text[k + 1] /\ k + 1 \in 1..Len(msg.text)
    BY <1>1, EndType DEF Byte, End
  <2> QED BY <2>1, EndType DEF Octet
<1>2. CASE ~(k < End)
  BY <1>2, OverAssumption DEF Byte, Octet
<1> QED BY <1>1, <1>2

LEMMA DnsInvInit == Init => DnsInv
<1> SUFFICES ASSUME Init PROVE DnsInv
  OBVIOUS
<1>1. msg \in Messages /\ msg.questions \in Nat /\ msg.answers \in Nat /\ End \in Nat
  BY MessageAssumption DEF Init, Message, End
<1>2. TypeOK
  BY <1>1 DEF Init, TypeOK
<1>3. Walking
  BY <1>1 DEF Init, Walking
<1>4. Expanding /\ NameStaysInside
  BY DEF Init, Expanding, NameStaysInside, InName
<1> QED BY <1>2, <1>3, <1>4 DEF DnsInv

LEMMA DnsInvStep == DnsInv /\ [Next]_vars => DnsInv'
<1> SUFFICES ASSUME DnsInv, [Next]_vars PROVE DnsInv'
  OBVIOUS
<1>1. /\ msg \in Messages /\ End \in Nat /\ msg.text \in Seq(Octet)
      /\ msg.questions \in Nat /\ msg.answers \in Nat
      /\ data \in Nat /\ asked \in 0..msg.questions /\ answered \in 0..msg.answers
      /\ p \in Nat /\ dest \in Seq(Octet) /\ len \in Nat \cup {-1} /\ iter \in 0..(End + 1)
  BY EndType DEF DnsInv, TypeOK
<1>2. Len(dest) \in Nat /\ NameSpace \in Nat /\ NameSpace > 0
  BY <1>1, SpaceAssumption
<1> USE DEF DnsInv
<1>3. CASE GiveUp
  BY <1>1, <1>3 DEF GiveUp, Fail, InName, Back, TypeOK, Walking, Expanding, NameStaysInside, walkVars, End
<1>4. CASE Jump
  <2>1. PICK b \in Byte(p) :
          /\ b >= 64
          /\ \/ p + 1 = End /\ Fail
             \/ /\ p + 1 # End
                /\ \E c \in Byte(p + 1) :
                     LET j == 256 * (b % 64) + c IN
                     \/ j >= End /\ Fail
                     \/ /\ j < End
                        /\ p' = j
                        /\ len' = IF len < 0 THEN p + 2 - data ELSE len
                        /\ iter' = iter + 2
                        /\ UNCHANGED <<pc, dest>>
    BY <1>4 DEF Jump
  <2>2. InName /\ iter < End /\ UNCHANGED <<msg, data, asked, answered>>
    BY <1>4 DEF Jump, Iterating, walkVars
  <2>3. CASE Fail
    BY <1>1, <2>2, <2>3 DEF Fail, InName, Back, TypeOK, Walking, Expanding, NameStaysInside, End
  <2>4. CASE ~Fail
    <3>1. PICK c \in Byte(p + 1) :
            /\ 256 * (b % 64) + c < End
            /\ p' = 256 * (b % 64) + c
            /\ len' = IF len < 0 THEN p + 2 - data ELSE len
            /\ iter' = iter + 2
            /\ UNCHANGED <<pc, dest>>
      BY <2>1, <2>4
    <3>2. p + 1 # End
      BY <2>1, <2>4
    <3>3. b \in Nat /\ c \in Nat
      BY <1>1, ByteType
    <3>4. p' \in Nat /\ p' < End
      BY <3>1, <3>3
    <3>5. TypeOK'
      BY <1>1, <2>2, <3>1, <3>4 DEF InName, TypeOK, Expanding, End
    <3>6. Walking' /\ NameStaysInside'
      BY <1>1, <2>2, <3>1, <3>4 DEF InName, Walking, NameStaysInside, End
    <3>7. Expanding'
      BY <1>1, <2>2, <3>1, <3>2, <3>4 DEF InName, Walking, Expanding, NameStaysInside, End
    <3> QED BY <3>5, <3>6, <3>7
  <2> QED BY <2>3, <2>4
<1>5. CASE Label
  <2> DEFINE dotted == IF dest = <<>> THEN dest ELSE Append(dest, DOT)
  <2>1. PICK b \in Byte(p) :
          /\ b \in 1..63
          /\ \/ (b >= End - (p + 1) \/ b >= NameSpace - Len(dotted)) /\ Fail
             \/ /\ b < End - (p + 1) /\ b < NameSpace - Len(dotted)
                /\ dest' = dotted \o SubSeq(msg.text, p + 2, p + 1 + b)
                /\ p' = p + 1 + b
                /\ iter' = iter + 2
                /\ UNCHANGED <<pc, len>>
    BY <1>5 DEF Label
  <2>2. InName /\ iter < End /\ UNCHANGED <<msg, data, asked, answered>>
    BY <1>5 DEF Label, Iterating, walkVars
  <2>3. CASE Fail
    BY <1>1, <2>2, <2>3 DEF Fail, InName, Back, TypeOK, Walking, Expanding, NameStaysInside, End
  <2>4. CASE ~Fail
    <3>1. /\ b < End - (p + 1) /\ b < NameSpace - Len(dotted)
          /\ dest' = dotted \o SubSeq(msg.text, p + 2, p + 1 + b)
          /\ p' = p + 1 + b
          /\ iter' = iter + 2
          /\ UNCHANGED <<pc, len>>
      BY <2>1, <2>4
    <3>2. dotted \in Seq(Octet) /\ Len(dotted) \in Nat
      BY <1>1 DEF DOT, Octet
    <3>3. SubSeq(msg.text, p + 2, p + 1 + b) \in Seq(Octet) /\ Len(SubSeq(msg.text, p + 2, p + 1 + b)) = b
      <4> DEFINE t == msg.text
      <4>1. t \in Seq(Octet) /\ p + 2 \in 1..Len(t) /\ p + 1 + b \in 1..Len(t) /\ p \in Nat /\ b \in Nat
        BY <1>1, <2>1, <3>1 DEF End
      <4> HIDE DEF t
      <4>2. \A i \in (p + 2)..(p + 1 + b) : t[i] \in Octet
        BY <4>1
      <4>3. p + 2 \in Int /\ p + 1 + b \in Int /\ p + 2 <= p + 1 + b /\ (p + 1 + b) - (p + 2) + 1 = b
        BY <2>1, <4>1
      <4>4. SubSeq(t, p + 2, p + 1 + b) \in Seq(Octet) /\ Len(SubSeq(t, p + 2, p + 1 + b)) = b
        BY <4>2, <4>3, SubSeqProperties
      <4> QED BY <4>4 DEF t
    <3>4. dest' \in Seq(Octet) /\ Len(dest') = Len(dotted) + b
      <4> DEFINE label == SubSeq(msg.text, p + 2, p + 1 + b)
      <4>1. label \in Seq(Octet) /\ Len(label) = b
        BY <3>3
      <4>2. dest' = dotted \o label
        BY <3>1
      <4>3. dotted \in Seq(Octet)
        BY <3>2
      <4> HIDE DEF dotted, label
      <4>4. dotted \o label \in Seq(Octet)
        BY <4>1, <4>3, ConcatProperties
      <4>5. Len(dotted \o label) = Len(dotted) + Len(label)
        BY ONLY <4>1, <4>3, ConcatProperties, Zenon
      <4>6. dest' \in Seq(Octet)
        BY <4>2, <4>4
      <4>7. Len(dest') = Len(dotted) + b
        BY ONLY <4>1, <4>2, <4>5, Zenon
      <4> QED BY <4>6, <4>7
    <3>5. p' \in Nat /\ p' < End /\ p' >= p /\ Len(dest') < NameSpace
      <4>1. p' \in Nat /\ p' < End /\ p' >= p
        <5> HIDE DEF dotted
        <5> QED BY <1>1, <2>1, <3>1
      <4>2. Len(dest') < NameSpace
        <5> DEFINE m == Len(dotted)
        <5>1. m \in Nat /\ b < NameSpace - m /\ Len(dest') = m + b
          BY <3>1, <3>2, <3>4
        <5> HIDE DEF m
        <5> QED BY <1>2, <2>1, <5>1
      <4> QED BY <4>1, <4>2
    <3>6. TypeOK'
      <4>1. iter' \in 0..(End + 1)
        BY <1>1, <2>2, <3>1
      <4>2. dest' \in Seq(Octet) /\ p' \in Nat /\ len' \in Nat \cup {-1} /\ pc' = pc
        BY <1>1, <3>1, <3>4, <3>5
      <4>3. End' = End /\ msg' = msg /\ data' = data /\ asked' = asked /\ answered' = answered
        BY <2>2 DEF End
      <4> QED BY <4>1, <4>2, <4>3 DEF TypeOK
    <3>7. Walking' /\ NameStaysInside'
      BY <1>1, <2>2, <3>1, <3>5 DEF InName, Walking, NameStaysInside, End
    <3>8. Expanding'
      BY <1>1, <2>2, <3>1, <3>5 DEF InName, Expanding, End
    <3> QED BY <3>6, <3>7, <3>8
  <2> QED BY <2>3, <2>4
<1>6. CASE Finish
  BY <1>1, <1>6 DEF Finish, Iterating, InName, Back, TypeOK, Walking, Expanding, NameStaysInside, walkVars, End
<1>7. CASE Question
  BY <1>1, <1>2, <1>7 DEF Question, Call, Back, InName, TypeOK, Walking, Expanding, NameStaysInside, walkVars, End
<1>8. CASE QuestionsDone
  BY <1>1, <1>8 DEF QuestionsDone, InName, TypeOK, Walking, Expanding, NameStaysInside, walkVars, nameVars, End
<1>9. CASE QuestionShown
  BY <1>1, <1>9 DEF QuestionShown, InName, TypeOK, Walking, Expanding, NameStaysInside, nameVars, End
<1>10. CASE Type
  BY <1>1, <1>10 DEF Type, InName, TypeOK, Walking, Expanding, NameStaysInside, nameVars, End
<1>11. CASE Answer
  <2>1. PICK n \in strlen(data) : \E type \in NS_GET16(data + n) :
          LET rdata == data + n + 10 IN
          \/ /\ type \in {ns_t_a, ns_t_aaaa}
             /\ data' = rdata + (IF type = ns_t_a THEN 4 ELSE 16)
             /\ answered' = answered + 1
             /\ UNCHANGED <<pc, nameVars>>
          \/ /\ type \in {ns_t_ns, ns_t_cname}
             /\ data' = rdata
             /\ Call("aliasName", rdata)
             /\ UNCHANGED answered
          \/ /\ type \notin {ns_t_a, ns_t_aaaa, ns_t_ns, ns_t_cname}
             /\ data' = rdata
             /\ pc' = "done"
             /\ UNCHANGED <<answered, nameVars>>
    BY <1>11 DEF Answer
  <2>2. pc = "answer" /\ answered < msg.answers /\ data < End /\ UNCHANGED <<msg, asked>>
    BY <1>11 DEF Answer
  <2>3. n \in Nat
    BY <2>1 DEF strlen
  <2> DEFINE r == data + n + 10
  <2>4. r \in Nat
    BY <1>1, <2>3
  <2> HIDE DEF r
  <2>5. \/ /\ data' \in {r + 4, r + 16} /\ answered' = answered + 1
           /\ UNCHANGED <<pc, nameVars>>
        \/ /\ data' = r /\ Call("aliasName", r)
           /\ UNCHANGED answered
        \/ /\ data' = r /\ pc' = "done"
           /\ UNCHANGED <<answered, nameVars>>
    BY <2>1 DEF r
  <2>6. CASE data' \in {r + 4, r + 16} /\ answered' = answered + 1 /\ UNCHANGED <<pc, nameVars>>
    BY <1>1, <2>2, <2>4, <2>6 DEF InName, TypeOK, Walking, Expanding, NameStaysInside, nameVars, End
  <2>7. CASE data' = r /\ Call("aliasName", r) /\ UNCHANGED answered
    BY <1>1, <1>2, <2>2, <2>4, <2>7 DEF Call, Back, InName, TypeOK, Walking, Expanding, NameStaysInside, End
  <2>8. CASE data' = r /\ pc' = "done" /\ UNCHANGED <<answered, nameVars>>
    BY <1>1, <2>2, <2>4, <2>8 DEF InName, TypeOK, Walking, Expanding, NameStaysInside, nameVars, End
  <2> QED BY <2>5, <2>6, <2>7, <2>8
<1>12. CASE AnswersDone
  BY <1>1, <1>12 DEF AnswersDone, InName, TypeOK, Walking, Expanding, NameStaysInside, walkVars, nameVars, End
<1>13. CASE AliasShown
  BY <1>1, <1>13 DEF AliasShown, InName, TypeOK, Walking, Expanding, NameStaysInside, nameVars, End
<1>14. CASE Done \/ UNCHANGED vars
  BY <1>1, <1>14 DEF Done, InName, TypeOK, Walking, Expanding, NameStaysInside, vars, walkVars, nameVars, End
<1> QED
  BY <1>3, <1>4, <1>5, <1>6, <1>7, <1>8, <1>9, <1>10, <1>11, <1>12, <1>13, <1>14 DEF Next, Step

\* Type correctness, with the bound on the number of iterations.
THEOREM DnsTypeCorrect == Spec => []TypeOK
<1>1. DnsInv => TypeOK
  BY DEF DnsInv
<1> QED BY <1>1, DnsInvInit, DnsInvStep, PTL DEF Spec

\* The loop of dn_expand keeps what its comment says for every name that
\* starts inside the message.
THEOREM DnsNameStaysInside == Spec => []NameStaysInside
<1>1. DnsInv => NameStaysInside
  BY DEF DnsInv
<1> QED BY <1>1, DnsInvInit, DnsInvStep, PTL DEF Spec

\* Where the size of a name ends once a pointer has fixed it or the name has
\* ended; a name that starts behind the end is at its first byte until then.
Limit == IF data < End THEN End ELSE data + 2

SizeFixed ==
  /\ (InName \/ pc \in {"queryBack", "aliasBack"}) /\ len # -1 => data + len <= Limit
  /\ InName /\ data >= End /\ len = -1 => p = data

LEMMA SizeFixedInit == Init => SizeFixed
  BY DEF Init, SizeFixed, InName

LEMMA SizeFixedStep == ASSUME DnsInv, SizeFixed, [Next]_vars PROVE SizeFixed'
<1>1. /\ End \in Nat /\ data \in Nat /\ p \in Nat /\ len \in Nat \cup {-1} /\ Limit \in Nat
      /\ InName /\ data < End => p < End
  BY EndType DEF DnsInv, TypeOK, NameStaysInside, Limit
<1>2. ASSUME Fail PROVE pc' \in {"queryBack", "aliasBack"} /\ len' = -1
  BY <1>2 DEF Fail, Back
<1>3. CASE GiveUp
  BY <1>2, <1>3 DEF GiveUp, SizeFixed, InName
<1>4. CASE Jump
  <2>1. InName /\ UNCHANGED <<msg, data>>
    BY <1>4 DEF Jump, Iterating, walkVars
  <2>2. CASE Fail
    BY <1>2, <2>2 DEF SizeFixed, InName
  <2>3. CASE ~Fail
    <3>1. p + 1 # End /\ len' = IF len < 0 THEN p + 2 - data ELSE len
      BY <1>4, <2>3 DEF Jump
    <3>2. data + len' <= Limit
      BY <1>1, <2>1, <3>1 DEF SizeFixed, Limit
    <3>3. len' # -1
      BY <1>1, <2>1, <3>1 DEF SizeFixed, DnsInv, Expanding
    <3> QED BY <2>1, <3>2, <3>3 DEF SizeFixed, Limit, End
  <2> QED BY <2>2, <2>3
<1>5. CASE Label
  <2>1. InName /\ UNCHANGED <<msg, data>>
    BY <1>5 DEF Label, Iterating, walkVars
  <2>2. CASE Fail
    BY <1>2, <2>2 DEF SizeFixed, InName
  <2>3. CASE ~Fail
    <3>1. PICK b \in 1..63 : b < End - (p + 1) /\ UNCHANGED <<pc, len>>
      BY <1>5, <2>3 DEF Label
    <3>2. ~(data >= End /\ len = -1)
      BY <1>1, <2>1, <3>1 DEF SizeFixed
    <3> QED BY <2>1, <3>1, <3>2 DEF SizeFixed, Limit, End, InName
  <2> QED BY <2>2, <2>3
<1>6. CASE Finish
  <2>1. /\ InName /\ UNCHANGED <<msg, data>> /\ pc' \in {"queryBack", "aliasBack"}
        /\ len' = IF len < 0 THEN p + 1 - data ELSE len
    BY <1>6 DEF Finish, Iterating, walkVars, Back
  <2>2. data + len' <= Limit
    BY <1>1, <2>1 DEF SizeFixed, Limit
  <2> QED BY <2>1, <2>2 DEF SizeFixed, Limit, End, InName
<1>7. CASE Question
  BY <1>7 DEF Question, Call, Back, SizeFixed, InName, walkVars
<1>8. CASE Answer
  <2>1. /\ pc = "answer"
        /\ \/ pc' \in {"answer", "done"}
           \/ \E r \in Nat : data' = r /\ Call("aliasName", r)
    <3>1. PICK n \in strlen(data) : \E type \in NS_GET16(data + n) :
            LET rdata == data + n + 10 IN
            \/ UNCHANGED <<pc, nameVars>>
            \/ data' = rdata /\ Call("aliasName", rdata)
            \/ pc' = "done"
      BY <1>8 DEF Answer
    <3>2. n \in Nat
      BY <1>1, <3>1 DEF strlen
    <3>3. data + n + 10 \in Nat
      BY <1>1, <3>2
    <3>4. pc = "answer"
      BY <1>8 DEF Answer
    <3> QED BY <3>1, <3>3, <3>4
  <2>2. CASE pc' \in {"answer", "done"}
    BY <2>2 DEF SizeFixed, InName
  <2>3. CASE \E r \in Nat : data' = r /\ Call("aliasName", r)
    BY <2>3 DEF Call, Back, SizeFixed, InName
  <2> QED BY <2>1, <2>2, <2>3
<1>9. CASE QuestionsDone \/ QuestionShown \/ Type \/ AnswersDone \/ AliasShown
  <2>1. pc' \in {"question", "type", "answer", "done"}
    BY <1>9 DEF QuestionsDone, QuestionShown, Type, AnswersDone, AliasShown
  <2> QED BY <2>1 DEF SizeFixed, InName
<1>10. CASE Done \/ UNCHANGED vars
  BY <1>10 DEF Done, SizeFixed, Limit, End, InName, vars, walkVars, nameVars
<1> QED
  BY <1>3, <1>4, <1>5, <1>6, <1>7, <1>8, <1>9, <1>10 DEF Next, Step

\* The size of a name ends inside the message, or at most two bytes behind its
\* start when that is behind the end.
THEOREM DnsSizeIsBounded == Spec => []SizeIsBounded
<1>1. SizeFixed => SizeIsBounded
  BY DEF SizeFixed, SizeIsBounded, Limit
<1>2. DnsInv /\ SizeFixed /\ [Next]_vars => SizeFixed'
  BY SizeFixedStep
<1> QED BY <1>1, <1>2, DnsInvInit, DnsInvStep, SizeFixedInit, PTL DEF Spec

\* A question that is shown moves the walk on inside the message.
THEOREM DnsQuestionsAdvance == Spec => QuestionsAdvance
<1>1. DnsInv /\ [Next]_vars => [asked' # asked => data' > data /\ data' <= End]_vars
  <2> SUFFICES ASSUME DnsInv, Next, asked' # asked PROVE data' > data /\ data' <= End
    BY DEF vars, walkVars
  <2>1. QuestionShown
    BY DEF Next, Step, Done, GiveUp, Jump, Label, Finish, Question, QuestionsDone, Type, Answer, AnswersDone,
           AliasShown, vars, walkVars
  <2>2. pc = "queryBack" /\ len # -1 /\ data' = data + len
    BY <2>1 DEF QuestionShown
  <2>3. data < End /\ len >= 1 /\ data + len <= End /\ data \in Nat /\ len \in Nat
    BY <2>2 DEF DnsInv, TypeOK, Walking, Expanding
  <2> QED BY <2>2, <2>3
<1> QED BY <1>1, DnsInvInit, DnsInvStep, PTL DEF Spec, QuestionsAdvance

-----------------------------------------------------------------------------
\* A set of numbers that is not empty has a least one: of its members up to
\* any of them, which are finitely many.
LEMMA LeastNumber == ASSUME NEW T \in SUBSET Nat, T # {} PROVE \E x \in T : \A y \in T : x <= y
<1>1. PICK n \in T : TRUE
  OBVIOUS
<1> DEFINE Below(x) == {y \in T : y <= x}
           F == {Below(x) : x \in Below(n)}
<1>2. F \subseteq FiniteSubsetsOf(Nat)
  <2>1. ASSUME NEW x \in Below(n) PROVE IsFiniteSet(Below(x))
    <3>1. n \in Nat /\ x \in Nat /\ x <= n
      OBVIOUS
    <3>2. Below(x) \in SUBSET (0..n)
      <4>1. \A y \in Below(x) : y \in 0..n
        BY <3>1
      <4> QED BY <4>1
    <3>3. IsFiniteSet(0..n)
      BY <3>1, FS_Interval
    <3> HIDE DEF Below
    <3> QED BY <3>2, <3>3, FS_Subset
  <2> QED BY <2>1 DEF FiniteSubsetsOf
<1>3. F # {}
  <2>1. n \in Below(n)
    OBVIOUS
  <2> QED BY <2>1
<1> HIDE DEF F
<1>4. IsWellFoundedOn(StrictSubsetOrdering(Nat), FiniteSubsetsOf(Nat))
  BY FS_StrictSubsetOrderingWellFounded
<1>5. PICK S \in F : \A R \in F : ~(<<R, S>> \in StrictSubsetOrdering(Nat))
  BY <1>2, <1>3, <1>4, WFMin
<1>6. PICK x \in Below(n) : S = Below(x)
  BY DEF F
<1>7. ASSUME NEW y \in T, ~(x <= y) PROVE FALSE
  <2>1. y \in Below(n) /\ Below(y) \in F
    BY <1>7 DEF F
  <2>2. Below(y) \subseteq S /\ Below(y) # S
    <3>1. x \in Nat /\ y \in Nat /\ y < x /\ x \in T /\ x \notin Below(y) /\ x \in Below(x)
      BY <1>6, <1>7
    <3>2. \A z \in T : z <= y => z <= x
      BY <3>1
    <3> QED BY <1>6, <3>1, <3>2
  <2>3. <<Below(y), S>> \in StrictSubsetOrdering(Nat)
    BY <1>2, <2>1, <2>2 DEF StrictSubsetOrdering, FiniteSubsetsOf
  <2> QED BY <1>5, <2>1, <2>3
<1> QED BY <1>6, <1>7

-----------------------------------------------------------------------------
\* The reference: its recursion over the parts of a name is defined, and each
\* part is what the recursion makes of the one before.
Part == [at : Nat, name : Seq(Octet)]

FirstPart(k) == [at |-> k, name |-> <<>>]

Following(text, k, n, v) == v = [i \in 0..n |-> IF i = 0 THEN FirstPart(k) ELSE Behind(text, v[i - 1])]

LEMMA FollowingExists == ASSUME NEW text, NEW k, NEW n \in Nat PROVE \E v : Following(text, k, n, v)
<1> SUFFICES ASSUME ~\E v : Following(text, k, n, v) PROVE FALSE
  OBVIOUS
<1> DEFINE T == {m \in Nat : ~\E v : Following(text, k, m, v)}
<1>1. T \in SUBSET Nat /\ n \in T
  OBVIOUS
<1>2. PICK m \in T : \A j \in T : m <= j
  BY <1>1, LeastNumber
<1>3. m \in Nat /\ ~\E v : Following(text, k, m, v)
  BY <1>2
<1>4. CASE m = 0
  <2> DEFINE v == [i \in 0..0 |-> FirstPart(k)]
  <2>1. v = [i \in 0..0 |-> IF i = 0 THEN FirstPart(k) ELSE Behind(text, v[i - 1])]
    OBVIOUS
  <2>2. Following(text, k, m, v)
    BY <1>4, <2>1 DEF Following
  <2> QED BY <1>3, <2>2
<1>5. CASE m # 0
  <2>1. m - 1 \in Nat /\ m - 1 \notin T
    BY <1>2, <1>3, <1>5
  <2>2. PICK w : Following(text, k, m - 1, w)
    BY <2>1
  <2> DEFINE v == [i \in 0..m |-> IF i = m THEN Behind(text, w[m - 1]) ELSE w[i]]
  <2>3. ASSUME NEW i \in 0..m PROVE v[i] = IF i = 0 THEN FirstPart(k) ELSE Behind(text, v[i - 1])
    <3>1. CASE i = m
      BY <1>3, <1>5, <3>1
    <3>2. CASE i # m
      <4>1. i \in 0..(m - 1) /\ w[i] = IF i = 0 THEN FirstPart(k) ELSE Behind(text, w[i - 1])
        BY <1>3, <2>2, <3>2 DEF Following
      <4>2. i # 0 => i - 1 \in 0..m /\ i - 1 # m
        BY <1>3, <4>1
      <4> QED BY <3>2, <4>1, <4>2
    <3> QED BY <3>1, <3>2
  <2>4. v = [i \in 0..m |-> v[i]]
    OBVIOUS
  <2> HIDE DEF v
  <2>5. Following(text, k, m, v)
    BY <2>3, <2>4 DEF Following
  <2> QED BY <1>3, <2>5
<1> QED BY <1>4, <1>5

LEMMA PartsAre ==
  ASSUME NEW text \in Seq(Octet), NEW k
  PROVE  /\ Parts(text, k)[0] = FirstPart(k)
         /\ \A i \in 1..Len(text) : Parts(text, k)[i] = Behind(text, Parts(text, k)[i - 1])
<1> DEFINE t == Parts(text, k)
<1>1. t = CHOOSE v : v = [i \in 0..Len(text) |-> IF i = 0 THEN FirstPart(k) ELSE Behind(text, v[i - 1])]
  BY DEF Parts, FirstPart
<1> HIDE DEF t
<1>2. t = CHOOSE v : Following(text, k, Len(text), v)
  BY <1>1 DEF Following
<1>3. Len(text) \in Nat
  OBVIOUS
<1>4. \E v : Following(text, k, Len(text), v)
  BY <1>3, FollowingExists
<1>5. Following(text, k, Len(text), t)
  BY <1>2, <1>4
<1>6. t = [i \in 0..Len(text) |-> IF i = 0 THEN FirstPart(k) ELSE Behind(text, t[i - 1])]
  BY <1>5 DEF Following
<1>7. t[0] = FirstPart(k) /\ \A i \in 1..Len(text) : t[i] = Behind(text, t[i - 1])
  BY <1>3, <1>6
<1> QED BY <1>7 DEF t

-----------------------------------------------------------------------------
\* One part.
LEMMA TextByte ==
  ASSUME NEW text \in Seq(Octet), NEW k \in Nat, k < Len(text)
  PROVE  text[k + 1] \in Nat /\ text[k + 1] < 256
<1>1. k + 1 \in 1..Len(text)
  OBVIOUS
<1>2. text[k + 1] \in Octet
  BY <1>1
<1> QED BY <1>2 DEF Octet

\* The bytes of the three kinds of parts.
LEMMA BytesOf ==
  ASSUME NEW text, NEW k
  PROVE  /\ IsEnd(text, k) => Bytes(text, k) = {k}
         /\ ~IsEnd(text, k) /\ IsPointer(text, k) => Bytes(text, k) = {k, k + 1}
         /\ ~IsEnd(text, k) /\ ~IsPointer(text, k) => Bytes(text, k) = k..(k + text[k + 1])
<1>1. IsEnd(text, k) => ~IsPointer(text, k)
  BY DEF IsEnd, IsPointer
<1>2. IsEnd(text, k) => Bytes(text, k) = {k}
  BY <1>1 DEF Bytes
<1>3. ~IsEnd(text, k) /\ IsPointer(text, k) => Bytes(text, k) = {k, k + 1}
  BY DEF Bytes
<1>4. ~IsEnd(text, k) /\ ~IsPointer(text, k) => Bytes(text, k) = k..(k + text[k + 1])
  BY DEF Bytes
<1> QED BY <1>2, <1>3, <1>4

LEMMA InsideOf ==
  ASSUME NEW text \in Seq(Octet), NEW k \in Nat
  PROVE  /\ Inside(text, k) => k < Len(text) /\ k \in Bytes(text, k)
         /\ k < Len(text) /\ IsEnd(text, k) => Inside(text, k)
         /\ k < Len(text) /\ ~IsEnd(text, k) /\ IsPointer(text, k) => (Inside(text, k) <=> k + 1 < Len(text))
         /\ k < Len(text) /\ ~IsEnd(text, k) /\ ~IsPointer(text, k) =>
              (Inside(text, k) <=> k + text[k + 1] < Len(text))
         /\ Inside(text, k) /\ ~IsEnd(text, k) => k + 1 \in Bytes(text, k) /\ k + 1 < Len(text)
<1>1. Len(text) \in Nat
  OBVIOUS
<1>2. CASE ~(k < Len(text))
  BY <1>2 DEF Inside
<1>3. CASE k < Len(text)
  <2>1. text[k + 1] \in Nat
    BY <1>3, TextByte
  <2>2. CASE IsEnd(text, k)
    BY <1>1, <1>3, <2>2, BytesOf DEF Inside
  <2>3. CASE ~IsEnd(text, k) /\ IsPointer(text, k)
    BY <1>1, <1>3, <2>3, BytesOf DEF Inside
  <2>4. CASE ~IsEnd(text, k) /\ ~IsPointer(text, k)
    <3> DEFINE b == text[k + 1]
    <3>1. b \in Nat /\ b > 0 /\ Bytes(text, k) = k..(k + b)
      BY <2>1, <2>4, BytesOf DEF IsEnd
    <3>2. Inside(text, k) <=> k + b < Len(text)
      <4> HIDE DEF b
      <4>1. k + b \in k..(k + b)
        BY <3>1
      <4>2. (\A i \in k..(k + b) : i < Len(text)) <=> k + b < Len(text)
        BY <1>1, <3>1, <4>1
      <4> QED BY <1>3, <3>1, <4>2 DEF Inside
    <3>3. k \in k..(k + b) /\ k + 1 \in k..(k + b)
      <4> HIDE DEF b
      <4> QED BY <3>1
    <3> HIDE DEF b
    <3>4. k + b < Len(text) => k + 1 < Len(text)
      BY <1>1, <3>1
    <3> QED BY <1>3, <2>4, <3>1, <3>2, <3>3, <3>4 DEF b
  <2> QED BY <2>2, <2>3, <2>4
<1> QED BY <1>2, <1>3

\* The name that the reference makes of a name so far and a label of size b.
UpToDot(name) == IF name = <<>> THEN <<>> ELSE Append(name, DOT)

LabelTo(text, k, b, name) == UpToDot(name) \o SubSeq(text, k + 2, k + 1 + b)

LEMMA LabelAdded ==
  ASSUME NEW text \in Seq(Octet), NEW k \in Nat, NEW b \in Nat, b > 0, k + b < Len(text), NEW name \in Seq(Octet)
  PROVE  /\ LabelTo(text, k, b, name) \in Seq(Octet)
         /\ Len(LabelTo(text, k, b, name)) = Len(UpToDot(name)) + b
         /\ Len(LabelTo(text, k, b, name)) >= Len(name)
<1> DEFINE label == SubSeq(text, k + 2, k + 1 + b)
           dotted == UpToDot(name)
<1>1. dotted \in Seq(Octet) /\ Len(dotted) \in Nat /\ Len(dotted) >= Len(name)
  <2>1. DOT \in Octet
    BY DEF DOT, Octet
  <2>2. CASE name = <<>>
    BY <2>2 DEF UpToDot
  <2>3. CASE name # <<>>
    <3>1. dotted = Append(name, DOT)
      BY <2>3 DEF UpToDot
    <3>2. Append(name, DOT) \in Seq(Octet) /\ Len(Append(name, DOT)) = Len(name) + 1
      BY <2>1, AppendProperties
    <3> HIDE DEF dotted
    <3> QED BY <3>1, <3>2
  <2> QED BY <2>2, <2>3
<1>2. label \in Seq(Octet) /\ Len(label) = b
  <2>1. \A i \in (k + 2)..(k + 1 + b) : text[i] \in Octet
    OBVIOUS
  <2>2. k + 2 \in Int /\ k + 1 + b \in Int /\ k + 2 <= k + 1 + b /\ (k + 1 + b) - (k + 2) + 1 = b
    OBVIOUS
  <2> QED BY <2>1, <2>2, SubSeqProperties
<1> HIDE DEF label, dotted
<1>3. dotted \o label \in Seq(Octet)
  BY <1>1, <1>2, ConcatProperties
<1>4. Len(dotted \o label) = Len(dotted) + Len(label)
  BY ONLY <1>1, <1>2, ConcatProperties, Zenon
<1>5. Len(dotted \o label) = Len(dotted) + b
  BY ONLY <1>2, <1>4, Zenon
<1>6. Len(dotted \o label) >= Len(name)
  <2> DEFINE m == Len(dotted)
             n == Len(name)
             l == Len(dotted \o label)
  <2>1. m \in Nat /\ n \in Nat /\ m >= n /\ l = m + b
    BY <1>1, <1>5
  <2> HIDE DEF m, n, l
  <2>2. l >= n
    BY <2>1
  <2> QED BY <2>2 DEF l, n
<1>7. dotted \o label \in Seq(Octet) /\ Len(dotted \o label) = Len(dotted) + b /\ Len(dotted \o label) >= Len(name)
  BY <1>3, <1>5, <1>6
<1>8. LabelTo(text, k, b, name) = dotted \o label
  BY DEF LabelTo, dotted, label
<1> QED BY ONLY <1>7, <1>8, Zenon DEF dotted

\* What follows a part.
LEMMA BehindIs ==
  ASSUME NEW text, NEW r
  PROVE  /\ ~Inside(text, r.at) \/ IsEnd(text, r.at) => Behind(text, r) = r
         /\ Inside(text, r.at) /\ ~IsEnd(text, r.at) /\ IsPointer(text, r.at) =>
              Behind(text, r) = [at |-> 256 * (text[r.at + 1] % 64) + text[r.at + 2], name |-> r.name]
         /\ Inside(text, r.at) /\ ~IsEnd(text, r.at) /\ ~IsPointer(text, r.at) =>
              Behind(text, r) = [at |-> r.at + 1 + text[r.at + 1], name |-> LabelTo(text, r.at, text[r.at + 1], r.name)]
<1>1. ~Inside(text, r.at) \/ IsEnd(text, r.at) => Behind(text, r) = r
  BY DEF Behind
<1>2. Inside(text, r.at) /\ ~IsEnd(text, r.at) /\ IsPointer(text, r.at) =>
        Behind(text, r) = [at |-> 256 * (text[r.at + 1] % 64) + text[r.at + 2], name |-> r.name]
  BY DEF Behind
<1>3. Inside(text, r.at) /\ ~IsEnd(text, r.at) /\ ~IsPointer(text, r.at) =>
        Behind(text, r) = [at |-> r.at + 1 + text[r.at + 1], name |-> LabelTo(text, r.at, text[r.at + 1], r.name)]
  BY DEF Behind, UpToDot, LabelTo
<1> QED BY <1>1, <1>2, <1>3

LEMMA BehindPart ==
  ASSUME NEW text \in Seq(Octet), NEW r \in Part
  PROVE  Behind(text, r) \in Part /\ Len(Behind(text, r).name) >= Len(r.name)
<1>1. r.at \in Nat /\ r.name \in Seq(Octet) /\ Len(r.name) \in Nat
  BY DEF Part
<1>2. CASE ~Inside(text, r.at) \/ IsEnd(text, r.at)
  <2>1. Behind(text, r) = r
    BY <1>2, BehindIs
  <2> QED BY <1>1, <2>1
<1>3. CASE Inside(text, r.at) /\ ~IsEnd(text, r.at)
  <2>1. r.at < Len(text) /\ r.at + 1 < Len(text) /\ (r.at + 1) + 1 = r.at + 2 /\ r.at + 1 \in Nat
    BY <1>1, <1>3, InsideOf
  <2>2. text[r.at + 1] \in Nat /\ text[r.at + 1] < 256 /\ text[r.at + 2] \in Nat
    <3>1. text[r.at + 1] \in Nat /\ text[r.at + 1] < 256
      BY <1>1, <2>1, TextByte
    <3>2. text[(r.at + 1) + 1] \in Nat
      BY <2>1, TextByte
    <3> QED BY <2>1, <3>1, <3>2
  <2>3. CASE IsPointer(text, r.at)
    <3> DEFINE a == 256 * (text[r.at + 1] % 64) + text[r.at + 2]
    <3>1. a \in Nat
      BY <2>2
    <3>2. Behind(text, r) = [at |-> a, name |-> r.name]
      BY <1>3, <2>3, BehindIs
    <3> HIDE DEF a
    <3> QED BY <1>1, <3>1, <3>2 DEF Part
  <2>4. CASE ~IsPointer(text, r.at)
    <3> DEFINE b == text[r.at + 1]
               d == LabelTo(text, r.at, b, r.name)
    <3>1. b \in Nat /\ b > 0 /\ r.at + b < Len(text)
      BY <1>1, <1>3, <2>1, <2>2, <2>4, InsideOf DEF IsEnd
    <3>2. d \in Seq(Octet) /\ Len(d) >= Len(r.name)
      <4> HIDE DEF b
      <4> QED BY <1>1, <3>1, LabelAdded
    <3>3. Behind(text, r) = [at |-> r.at + 1 + b, name |-> d]
      BY <1>3, <2>4, BehindIs
    <3>4. r.at + 1 + b \in Nat
      BY <1>1, <3>1
    <3> HIDE DEF b, d
    <3> QED BY <3>2, <3>3, <3>4 DEF Part
  <2> QED BY <2>3, <2>4
<1> QED BY <1>2, <1>3

\* The parts of a name.
LEMMA PartsType ==
  ASSUME NEW text \in Seq(Octet), NEW k \in Nat, NEW i \in 0..Len(text)
  PROVE  Parts(text, k)[i] \in Part
<1> DEFINE t == Parts(text, k)
<1> SUFFICES ASSUME t[i] \notin Part PROVE FALSE
  OBVIOUS
<1>1. /\ t[0] = FirstPart(k)
      /\ \A j \in 1..Len(text) : t[j] = Behind(text, t[j - 1])
  BY PartsAre
<1> HIDE DEF t
<1> DEFINE T == {j \in 0..Len(text) : t[j] \notin Part}
<1>2. Len(text) \in Nat /\ T \in SUBSET Nat /\ i \in T
  OBVIOUS
<1>3. PICK j \in T : \A m \in T : j <= m
  BY <1>2, LeastNumber
<1>4. j \in 0..Len(text) /\ t[j] \notin Part
  BY <1>3
<1>5. <<>> \in Seq(Octet)
  OBVIOUS
<1>6. j # 0
  <2>1. FirstPart(k) \in Part
    BY <1>5 DEF FirstPart, Part
  <2> QED BY <1>1, <1>4, <2>1
<1>7. j - 1 \in 0..Len(text) /\ j - 1 \notin T /\ j \in 1..Len(text)
  BY <1>2, <1>3, <1>4, <1>6
<1>8. t[j - 1] \in Part
  BY <1>7
<1> QED BY <1>1, <1>4, <1>7, <1>8, BehindPart

\* A name that has ended, or has left the message, goes on nowhere.
LEMMA PartsStay ==
  ASSUME NEW text \in Seq(Octet), NEW k \in Nat, NEW i \in 0..Len(text),
         ~Inside(text, Parts(text, k)[i].at) \/ IsEnd(text, Parts(text, k)[i].at),
         NEW j \in i..Len(text)
  PROVE  Parts(text, k)[j] = Parts(text, k)[i]
<1> DEFINE t == Parts(text, k)
<1> SUFFICES ASSUME t[j] # t[i] PROVE FALSE
  OBVIOUS
<1>1. /\ \A m \in 1..Len(text) : t[m] = Behind(text, t[m - 1])
      /\ ~Inside(text, t[i].at) \/ IsEnd(text, t[i].at)
  BY PartsAre
<1> HIDE DEF t
<1> DEFINE T == {m \in i..Len(text) : t[m] # t[i]}
<1>2. Len(text) \in Nat /\ T \in SUBSET Nat /\ j \in T
  OBVIOUS
<1>3. PICK m \in T : \A n \in T : m <= n
  BY <1>2, LeastNumber
<1>4. m \in i..Len(text) /\ t[m] # t[i] /\ m # i
  BY <1>3
<1>5. m - 1 \in i..Len(text) /\ m - 1 \notin T /\ m \in 1..Len(text)
  BY <1>2, <1>3, <1>4
<1>6. t[m - 1] = t[i] /\ t[m] = Behind(text, t[m - 1])
  BY <1>1, <1>5
<1>7. Behind(text, t[i]) = t[i]
  BY <1>1, BehindIs
<1> QED BY <1>4, <1>6, <1>7

\* Names only grow.
LEMMA NamesGrow ==
  ASSUME NEW text \in Seq(Octet), NEW k \in Nat, NEW i \in 0..Len(text), NEW j \in i..Len(text)
  PROVE  Len(Parts(text, k)[j].name) >= Len(Parts(text, k)[i].name)
<1> DEFINE t == Parts(text, k)
           L(m) == Len(t[m].name)
<1> SUFFICES ASSUME ~(L(j) >= L(i)) PROVE FALSE
  OBVIOUS
<1>1. \A m \in 1..Len(text) : t[m] = Behind(text, t[m - 1])
  BY PartsAre
<1>2. \A m \in 0..Len(text) : t[m] \in Part
  BY PartsType
<1> HIDE DEF t
<1>3. \A m \in 0..Len(text) : L(m) \in Nat
  BY <1>2 DEF Part
<1> DEFINE T == {m \in i..Len(text) : ~(L(m) >= L(i))}
<1>4. Len(text) \in Nat /\ T \in SUBSET Nat /\ j \in T
  OBVIOUS
<1>5. PICK m \in T : \A n \in T : m <= n
  BY <1>4, LeastNumber
<1>6. m \in i..Len(text) /\ ~(L(m) >= L(i))
  BY <1>5
<1>7. m # i
  BY <1>3, <1>6
<1>8. m - 1 \in i..Len(text) /\ m - 1 \notin T /\ m \in 1..Len(text) /\ m - 1 \in 0..Len(text) /\ m \in 0..Len(text)
  BY <1>4, <1>5, <1>6, <1>7
<1>9. L(m - 1) >= L(i)
  BY <1>8
<1>10. L(m) >= L(m - 1)
  <2>1. t[m] = Behind(text, t[m - 1]) /\ t[m - 1] \in Part
    BY <1>1, <1>2, <1>8
  <2> QED BY <2>1, BehindPart
<1>11. L(m) \in Nat /\ L(m - 1) \in Nat /\ L(i) \in Nat
  BY <1>3, <1>8
<1> HIDE DEF L
<1> QED BY <1>6, <1>9, <1>10, <1>11

-----------------------------------------------------------------------------
\* The progress of dn_expand along the parts of the name at k: it has passed
\* the first i of them and is at position q, with name d and size l so far, and
\* has counted n.
PartAt(text, k, i) == Parts(text, k)[i].at
NameTo(text, k, i) == Parts(text, k)[i].name

Passed(text, k, i) == \A j \in 0..(i - 1) : Inside(text, PartAt(text, k, j)) /\ ~IsEnd(text, PartAt(text, k, j))

Labels(text, k, i) == \A j \in 0..(i - 1) : text[PartAt(text, k, j) + 1] \in 1..63

\* The size is known from the first pointer on.
Sized(text, k, i, l) ==
  \/ l = -1 /\ Labels(text, k, i) /\ PartAt(text, k, i) >= k
  \/ \E m \in 0..(i - 1) : /\ IsPointer(text, PartAt(text, k, m)) /\ Labels(text, k, m)
                           /\ PartAt(text, k, m) >= k /\ l = PartAt(text, k, m) + 2 - k

\* Every part has two bytes at least; so the counter is small, unless a byte is
\* used twice.
Used(text, k, i) == {x \in 0..(Len(text) - 1) : \E j \in 0..(i - 1) : x \in Bytes(text, PartAt(text, k, j))}

Counts(text, k, i, n) ==
  UsesBytesOnce(text, k) => \E U \in SUBSET Used(text, k, i) : IsFiniteSet(U) /\ Cardinality(U) = n

UpTo(text, k, i, q, d, l, n) ==
  /\ i \in 0..Len(text) /\ n = 2 * i
  /\ PartAt(text, k, i) = q /\ NameTo(text, k, i) = d
  /\ Passed(text, k, i) /\ Sized(text, k, i, l) /\ Counts(text, k, i, n)

LEMMA UpToStart ==
  ASSUME NEW text \in Seq(Octet), NEW k \in Nat PROVE UpTo(text, k, 0, k, <<>>, -1, 0)
<1>1. PartAt(text, k, 0) = k /\ NameTo(text, k, 0) = <<>>
  <2>1. Parts(text, k)[0] = FirstPart(k)
    BY PartsAre
  <2> QED BY <2>1 DEF PartAt, NameTo, FirstPart
<1>2. Passed(text, k, 0) /\ Sized(text, k, 0, -1)
  BY <1>1 DEF Passed, Sized, Labels
<1>3. Counts(text, k, 0, 0)
  BY FS_EmptySet DEF Counts
<1> QED BY <1>1, <1>2, <1>3 DEF UpTo

LEMMA UpToTypes ==
  ASSUME NEW text \in Seq(Octet), NEW k \in Nat, NEW i, NEW q, NEW d, NEW l, NEW n, UpTo(text, k, i, q, d, l, n)
  PROVE  /\ i \in Nat /\ i <= Len(text) /\ n \in Nat /\ q \in Nat /\ d \in Seq(Octet) /\ Len(text) \in Nat
         /\ Parts(text, k)[i].at = q /\ Parts(text, k)[i].name = d
         /\ \A j \in 0..Len(text) : PartAt(text, k, j) \in Nat
<1>1. i \in 0..Len(text) /\ n = 2 * i /\ Parts(text, k)[i].at = q /\ Parts(text, k)[i].name = d
  BY DEF UpTo, PartAt, NameTo
<1>2. Parts(text, k)[i] \in Part
  BY <1>1, PartsType
<1>3. \A j \in 0..Len(text) : PartAt(text, k, j) \in Nat
  BY PartsType DEF PartAt, Part
<1> QED BY <1>1, <1>2, <1>3 DEF Part

\* A part that is passed has two bytes that no other part has.
LEMMA CountsOn ==
  ASSUME NEW text \in Seq(Octet), NEW k \in Nat, NEW i \in 0..(Len(text) - 1), NEW n \in Nat,
         Passed(text, k, i), Counts(text, k, i, n),
         Inside(text, PartAt(text, k, i)), ~IsEnd(text, PartAt(text, k, i))
  PROVE  Counts(text, k, i + 1, n + 2)
<1> SUFFICES ASSUME UsesBytesOnce(text, k)
             PROVE  \E U \in SUBSET Used(text, k, i + 1) : IsFiniteSet(U) /\ Cardinality(U) = n + 2
  BY DEF Counts
<1> DEFINE q == PartAt(text, k, i)
<1>1. PICK U \in SUBSET Used(text, k, i) : IsFiniteSet(U) /\ Cardinality(U) = n
  BY DEF Counts
<1>2. Len(text) \in Nat /\ i \in Nat /\ i \in 0..Len(text)
  OBVIOUS
<1>3. q \in Nat
  BY <1>2, PartsType DEF PartAt, Part
<1>4. q \in Bytes(text, q) /\ q + 1 \in Bytes(text, q) /\ q + 1 < Len(text)
  BY <1>3, InsideOf
<1>5. ASSUME NEW x \in Used(text, k, i) PROVE x \notin Bytes(text, q)
  <2>1. PICK j \in 0..(i - 1) : x \in Bytes(text, PartAt(text, k, j))
    BY DEF Used
  <2>2. j \in 0..Len(text) /\ j < i /\ ~IsEnd(text, PartAt(text, k, j))
    BY <1>2, <2>1 DEF Passed
  <2>3. Bytes(text, PartAt(text, k, j)) \cap Bytes(text, PartAt(text, k, i)) = {}
    BY <1>2, <2>2 DEF UsesBytesOnce, PartAt
  <2> QED BY <2>1, <2>3
<1>6. q \notin U /\ q + 1 \notin U
  BY <1>1, <1>4, <1>5
<1> DEFINE V == U \cup {q}
           W == V \cup {q + 1}
<1>7. IsFiniteSet(V) /\ Cardinality(V) = n + 1
  BY <1>1, <1>6, FS_AddElement
<1>8. q + 1 \notin V
  BY <1>3, <1>6
<1>9. IsFiniteSet(W) /\ Cardinality(W) = n + 2
  <2> HIDE DEF V
  <2>1. IsFiniteSet(W) /\ Cardinality(W) = Cardinality(V) + 1
    BY <1>7, <1>8, FS_AddElement
  <2> QED BY <1>7, <2>1
<1>10. W \in SUBSET Used(text, k, i + 1)
  <2>1. q \in 0..(Len(text) - 1) /\ q + 1 \in 0..(Len(text) - 1) /\ i \in 0..((i + 1) - 1)
    BY <1>2, <1>3, <1>4
  <2>2. q \in Used(text, k, i + 1) /\ q + 1 \in Used(text, k, i + 1)
    BY <1>4, <2>1 DEF Used
  <2>3. \A j \in 0..(i - 1) : j \in 0..((i + 1) - 1)
    BY <1>2
  <2>4. Used(text, k, i) \subseteq Used(text, k, i + 1)
    BY <2>3 DEF Used
  <2> QED BY <1>1, <2>2, <2>4
<1> HIDE DEF W
<1> QED BY <1>9, <1>10

LEMMA Kinds ==
  /\ \A b \in 1..63 : b \in Nat /\ b # 0 /\ ~(b >= 64)
  /\ 0 \notin 1..63
  /\ \A b \in Nat : b >= 64 => b \notin 1..63 /\ b # 0
  OBVIOUS

\* A part that is passed: what is known of the next one.
LEMMA PassPart ==
  ASSUME NEW text \in Seq(Octet), NEW k \in Nat, NEW i, NEW q, NEW d, NEW l, NEW n, UpTo(text, k, i, q, d, l, n),
         n < Len(text), Inside(text, q), ~IsEnd(text, q)
  PROVE  /\ i + 1 \in 0..Len(text) /\ n + 2 = 2 * (i + 1)
         /\ Parts(text, k)[i + 1] = Behind(text, Parts(text, k)[i])
         /\ Passed(text, k, i + 1) /\ Counts(text, k, i + 1, n + 2)
<1>1. /\ i \in Nat /\ i <= Len(text) /\ n \in Nat /\ n = 2 * i /\ Len(text) \in Nat
      /\ PartAt(text, k, i) = q /\ Passed(text, k, i) /\ Counts(text, k, i, n)
  BY UpToTypes DEF UpTo
<1>2. i < Len(text)
  BY <1>1
<1>3. i + 1 \in 0..Len(text) /\ i + 1 \in 1..Len(text) /\ (i + 1) - 1 = i /\ n + 2 = 2 * (i + 1) /\ i \in 0..(Len(text) - 1)
  BY <1>1, <1>2
<1>4. Parts(text, k)[i + 1] = Behind(text, Parts(text, k)[i])
  <2>1. \A j \in 1..Len(text) : Parts(text, k)[j] = Behind(text, Parts(text, k)[j - 1])
    BY PartsAre
  <2>2. Parts(text, k)[i + 1] = Behind(text, Parts(text, k)[(i + 1) - 1])
    BY <1>3, <2>1
  <2> QED BY <1>3, <2>2
<1>5. Passed(text, k, i + 1)
  <2> SUFFICES ASSUME NEW j \in 0..((i + 1) - 1)
               PROVE  Inside(text, PartAt(text, k, j)) /\ ~IsEnd(text, PartAt(text, k, j))
    BY DEF Passed
  <2>1. j = i \/ j \in 0..(i - 1)
    BY <1>1
  <2> QED BY <1>1, <2>1 DEF Passed
<1>6. Counts(text, k, i + 1, n + 2)
  BY <1>1, <1>3, CountsOn
<1> QED BY <1>3, <1>4, <1>5, <1>6

LEMMA UpToPointer ==
  ASSUME NEW text \in Seq(Octet), NEW k \in Nat, NEW i, NEW q, NEW d, NEW l, NEW n, UpTo(text, k, i, q, d, l, n),
         l = -1 \/ l \in Nat, n < Len(text), q + 1 < Len(text), IsPointer(text, q)
  PROVE  UpTo(text, k, i + 1, 256 * (text[q + 1] % 64) + text[q + 2], d, IF l < 0 THEN q + 2 - k ELSE l, n + 2)
<1>1. /\ i \in Nat /\ q \in Nat /\ Len(text) \in Nat /\ i <= Len(text) /\ n \in Nat
      /\ Parts(text, k)[i].at = q /\ Parts(text, k)[i].name = d /\ PartAt(text, k, i) = q
  BY UpToTypes DEF PartAt
<1>2. Inside(text, q) /\ ~IsEnd(text, q)
  <2>1. q < Len(text) /\ ~IsEnd(text, q)
    BY <1>1 DEF IsEnd, IsPointer
  <2> QED BY <1>1, <2>1, InsideOf
<1>3. /\ i + 1 \in 0..Len(text) /\ n + 2 = 2 * (i + 1)
      /\ Parts(text, k)[i + 1] = Behind(text, Parts(text, k)[i])
      /\ Passed(text, k, i + 1) /\ Counts(text, k, i + 1, n + 2)
  BY <1>2, PassPart
<1> DEFINE j == 256 * (text[q + 1] % 64) + text[q + 2]
<1>4. Parts(text, k)[i + 1] = [at |-> j, name |-> d]
  BY <1>1, <1>2, <1>3, BehindIs
<1> HIDE DEF j
<1>5. PartAt(text, k, i + 1) = j /\ NameTo(text, k, i + 1) = d
  BY <1>4 DEF PartAt, NameTo
<1>6. Sized(text, k, i + 1, IF l < 0 THEN q + 2 - k ELSE l)
  <2>1. Sized(text, k, i, l)
    BY DEF UpTo
  <2>2. CASE l = -1 /\ Labels(text, k, i) /\ PartAt(text, k, i) >= k
    <3>1. i \in 0..((i + 1) - 1) /\ l < 0 /\ q >= k
      BY <1>1, <2>2
    <3> QED BY <1>1, <2>2, <3>1 DEF Sized
  <2>3. ASSUME NEW m \in 0..(i - 1), IsPointer(text, PartAt(text, k, m)), Labels(text, k, m),
               PartAt(text, k, m) >= k, l = PartAt(text, k, m) + 2 - k
        PROVE  Sized(text, k, i + 1, IF l < 0 THEN q + 2 - k ELSE l)
    <3>1. m \in 0..((i + 1) - 1) /\ m \in 0..Len(text)
      BY <1>1
    <3>2. PartAt(text, k, m) \in Nat
      BY <3>1, UpToTypes
    <3>3. ~(l < 0)
      BY <2>3, <3>2
    <3> QED BY <2>3, <3>1, <3>3 DEF Sized
  <2> QED BY <2>1, <2>2, <2>3 DEF Sized
<1>7. UpTo(text, k, i + 1, j, d, IF l < 0 THEN q + 2 - k ELSE l, n + 2)
  BY <1>3, <1>5, <1>6 DEF UpTo
<1> QED BY <1>7 DEF j

LEMMA UpToLabel ==
  ASSUME NEW text \in Seq(Octet), NEW k \in Nat, NEW i, NEW q, NEW d, NEW l, NEW n, UpTo(text, k, i, q, d, l, n),
         n < Len(text), q < Len(text), text[q + 1] \in 1..63, q + text[q + 1] < Len(text)
  PROVE  UpTo(text, k, i + 1, q + 1 + text[q + 1], LabelTo(text, q, text[q + 1], d), l, n + 2)
<1>1. /\ i \in Nat /\ q \in Nat /\ Len(text) \in Nat /\ i <= Len(text) /\ n \in Nat
      /\ Parts(text, k)[i].at = q /\ Parts(text, k)[i].name = d /\ PartAt(text, k, i) = q
  BY UpToTypes DEF PartAt
<1>2. Inside(text, q) /\ ~IsEnd(text, q) /\ ~IsPointer(text, q)
  <2>1. ~IsEnd(text, q) /\ ~IsPointer(text, q)
    BY Kinds DEF IsEnd, IsPointer
  <2> QED BY <1>1, <2>1, InsideOf
<1>3. /\ i + 1 \in 0..Len(text) /\ n + 2 = 2 * (i + 1)
      /\ Parts(text, k)[i + 1] = Behind(text, Parts(text, k)[i])
      /\ Passed(text, k, i + 1) /\ Counts(text, k, i + 1, n + 2)
  BY <1>2, PassPart
<1> DEFINE j == q + 1 + text[q + 1]
           e == LabelTo(text, q, text[q + 1], d)
<1>4. Parts(text, k)[i + 1] = [at |-> j, name |-> e]
  BY <1>1, <1>2, <1>3, BehindIs
<1>5. j \in Nat /\ j > q
  <2> DEFINE b == text[q + 1]
  <2>1. b \in Nat
    BY Kinds
  <2> HIDE DEF b
  <2>2. q + 1 + b \in Nat /\ q + 1 + b > q
    BY <1>1, <2>1
  <2> QED BY <2>2 DEF b
<1> HIDE DEF j, e
<1>6. PartAt(text, k, i + 1) = j /\ NameTo(text, k, i + 1) = e
  BY <1>4 DEF PartAt, NameTo
<1>7. Sized(text, k, i + 1, l)
  <2>1. Sized(text, k, i, l)
    BY DEF UpTo
  <2>2. CASE l = -1 /\ Labels(text, k, i) /\ PartAt(text, k, i) >= k
    <3>1. \A m \in 0..((i + 1) - 1) : m = i \/ m \in 0..(i - 1)
      BY <1>1
    <3>2. Labels(text, k, i + 1)
      BY <1>1, <2>2, <3>1 DEF Labels
    <3>3. PartAt(text, k, i + 1) >= k
      BY <1>1, <1>5, <1>6, <2>2
    <3> QED BY <2>2, <3>2, <3>3 DEF Sized
  <2>3. ASSUME NEW m \in 0..(i - 1), IsPointer(text, PartAt(text, k, m)), Labels(text, k, m),
               PartAt(text, k, m) >= k, l = PartAt(text, k, m) + 2 - k
        PROVE  Sized(text, k, i + 1, l)
    <3>1. m \in 0..((i + 1) - 1)
      BY <1>1
    <3> QED BY <2>3, <3>1 DEF Sized
  <2> QED BY <2>1, <2>2, <2>3 DEF Sized
<1>8. UpTo(text, k, i + 1, j, e, l, n + 2)
  BY <1>3, <1>6, <1>7 DEF UpTo
<1> QED BY <1>8 DEF j, e

\* At the end of a name: it is one, and its size is known.
LEMMA SizeIs ==
  ASSUME NEW text \in Seq(Octet), NEW k \in Nat, NEW m \in 0..Len(text), Labels(text, k, m),
         text[PartAt(text, k, m) + 1] \notin 1..63
  PROVE  RefSize(text, k) = PartAt(text, k, m) - k + (IF IsEnd(text, PartAt(text, k, m)) THEN 1 ELSE 2)
<1> DEFINE Last(i) == /\ text[Parts(text, k)[i].at + 1] \notin 1..63
                      /\ \A j \in 0..(i - 1) : text[Parts(text, k)[j].at + 1] \in 1..63
           last == CHOOSE i \in 0..Len(text) : Last(i)
<1>1. Last(m)
  BY DEF Labels, PartAt
<1>2. ASSUME NEW i \in 0..Len(text), Last(i) PROVE i = m
  <2>1. ~(i < m) /\ ~(m < i)
    <3>1. i < m => i \in 0..(m - 1)
      OBVIOUS
    <3>2. m < i => m \in 0..(i - 1)
      OBVIOUS
    <3> QED BY <1>1, <1>2, <3>1, <3>2
  <2> QED BY <2>1
<1>3. RefSize(text, k) = Parts(text, k)[last].at - k + (IF IsEnd(text, Parts(text, k)[last].at) THEN 1 ELSE 2)
  BY DEF RefSize
<1> HIDE DEF Last
<1>4. last \in 0..Len(text) /\ Last(last)
  BY <1>1
<1>5. last = m
  BY <1>2, <1>4
<1> QED BY <1>3, <1>5 DEF PartAt

LEMMA UpToEnd ==
  ASSUME NEW text \in Seq(Octet), NEW k \in Nat, NEW i, NEW q, NEW d, NEW l, NEW n, UpTo(text, k, i, q, d, l, n),
         q < Len(text), IsEnd(text, q)
  PROVE  /\ IsName(text, k) /\ d = RefName(text, k)
         /\ RefSize(text, k) = IF l < 0 THEN q + 1 - k ELSE l
<1>1. /\ i \in 0..Len(text) /\ q \in Nat /\ Len(text) \in Nat
      /\ Parts(text, k)[i].at = q /\ Parts(text, k)[i].name = d /\ PartAt(text, k, i) = q
      /\ Passed(text, k, i) /\ Sized(text, k, i, l)
  BY UpToTypes DEF PartAt, UpTo
<1>2. Inside(text, q)
  BY <1>1, InsideOf
<1>3. \A j \in i..Len(text) : Parts(text, k)[j] = Parts(text, k)[i]
  BY <1>1, PartsStay
<1>4. Len(text) \in i..Len(text)
  BY <1>1
<1>5. IsName(text, k) /\ d = RefName(text, k)
  <2>1. ASSUME NEW j \in 0..Len(text) PROVE Inside(text, Parts(text, k)[j].at)
    <3>1. CASE j \in 0..(i - 1)
      BY <1>1, <3>1 DEF Passed, PartAt
    <3>2. CASE j \in i..Len(text)
      BY <1>1, <1>2, <1>3, <3>2
    <3> QED BY <1>1, <3>1, <3>2
  <2>2. IsEnd(text, Parts(text, k)[Len(text)].at) /\ d = Parts(text, k)[Len(text)].name
    BY <1>1, <1>3, <1>4
  <2> QED BY <2>1, <2>2 DEF IsName, RefName
<1>6. CASE l = -1 /\ Labels(text, k, i) /\ PartAt(text, k, i) >= k
  <2>1. text[PartAt(text, k, i) + 1] \notin 1..63
    BY <1>1, Kinds DEF IsEnd
  <2>2. RefSize(text, k) = q - k + 1
    BY <1>1, <1>6, <2>1, SizeIs
  <2>3. q - k + 1 = q + 1 - k
    BY <1>1
  <2> QED BY <1>5, <1>6, <2>2, <2>3
<1>7. ASSUME NEW m \in 0..(i - 1), IsPointer(text, PartAt(text, k, m)), Labels(text, k, m),
             PartAt(text, k, m) >= k, l = PartAt(text, k, m) + 2 - k
      PROVE  RefSize(text, k) = IF l < 0 THEN q + 1 - k ELSE l
  <2>1. m \in 0..Len(text) /\ PartAt(text, k, m) \in Nat
    BY <1>1, UpToTypes
  <2>2. text[PartAt(text, k, m) + 1] \notin 1..63 /\ ~IsEnd(text, PartAt(text, k, m))
    <3>1. PartAt(text, k, m) < Len(text)
      BY <1>1, <2>1, InsideOf DEF Passed
    <3>2. text[PartAt(text, k, m) + 1] \in Nat
      BY <2>1, <3>1, TextByte
    <3> QED BY <1>7, <3>2, Kinds DEF IsPointer, IsEnd
  <2>3. RefSize(text, k) = PartAt(text, k, m) - k + 2
    BY <1>7, <2>1, <2>2, SizeIs
  <2> DEFINE a == PartAt(text, k, m)
  <2> HIDE DEF a
  <2>4. a \in Nat /\ a >= k /\ l = a + 2 - k /\ RefSize(text, k) = a - k + 2
    BY <1>7, <2>1, <2>3 DEF a
  <2> QED BY <2>4
<1> QED BY <1>1, <1>5, <1>6, <1>7 DEF Sized

-----------------------------------------------------------------------------
\* Why dn_expand gives up.
Refused(text, k, space) == ~(IsName(text, k) /\ UsesBytesOnce(text, k) /\ Len(RefName(text, k)) < space)

LEMMA RefusedOutside ==
  ASSUME NEW text, NEW k, NEW i, NEW q, NEW d, NEW l, NEW n, NEW space, UpTo(text, k, i, q, d, l, n), ~Inside(text, q)
  PROVE  Refused(text, k, space)
  BY DEF UpTo, Refused, IsName, PartAt

LEMMA RefusedLong ==
  ASSUME NEW text \in Seq(Octet), NEW k \in Nat, NEW i, NEW q, NEW d, NEW l, NEW n, UpTo(text, k, i, q, d, l, n),
         NEW space \in Nat, Len(d) >= space
  PROVE  Refused(text, k, space)
<1>1. i \in 0..Len(text) /\ Parts(text, k)[i].name = d /\ d \in Seq(Octet) /\ Len(text) \in i..Len(text)
  BY UpToTypes
<1>2. Len(RefName(text, k)) >= Len(d)
  <2>1. Len(Parts(text, k)[Len(text)].name) >= Len(Parts(text, k)[i].name)
    BY <1>1, NamesGrow
  <2> QED BY <1>1, <2>1 DEF RefName
<1>3. Len(d) \in Nat /\ Len(RefName(text, k)) \in Nat
  <2>1. Parts(text, k)[Len(text)] \in Part
    BY PartsType
  <2>2. RefName(text, k) \in Seq(Octet)
    BY <2>1 DEF Part, RefName
  <2> QED BY <1>1, <2>2
<1> DEFINE r == Len(RefName(text, k))
           e == Len(d)
<1> HIDE DEF r, e
<1>4. r \in Nat /\ e \in Nat /\ r >= e /\ e >= space
  BY <1>2, <1>3 DEF r, e
<1>5. ~(r < space)
  BY <1>4
<1> QED BY <1>5 DEF r, Refused

LEMMA RefusedLoop ==
  ASSUME NEW text \in Seq(Octet), NEW k \in Nat, NEW i, NEW q, NEW d, NEW l, NEW n, NEW space,
         UpTo(text, k, i, q, d, l, n), n >= Len(text)
  PROVE  Refused(text, k, space)
<1> SUFFICES ASSUME IsName(text, k), UsesBytesOnce(text, k) PROVE FALSE
  BY DEF Refused
<1>1. /\ i \in 0..Len(text) /\ i \in Nat /\ n \in Nat /\ q \in Nat /\ Len(text) \in Nat
      /\ Parts(text, k)[i].at = q /\ PartAt(text, k, i) = q /\ Passed(text, k, i)
  BY UpToTypes DEF PartAt, UpTo
<1>2. PICK U \in SUBSET Used(text, k, i) : IsFiniteSet(U) /\ Cardinality(U) = n
  BY DEF UpTo, Counts
<1>3. Inside(text, q)
  BY <1>1 DEF IsName
<1>4. q < Len(text) /\ q \in Bytes(text, q) /\ q \in 0..(Len(text) - 1)
  <2>1. q < Len(text) /\ q \in Bytes(text, q)
    BY <1>1, <1>3, InsideOf
  <2> QED BY <1>1, <2>1
<1>5. q \notin Used(text, k, i)
  <2> SUFFICES ASSUME NEW j \in 0..(i - 1), q \in Bytes(text, PartAt(text, k, j)) PROVE FALSE
    BY DEF Used
  <2>1. j \in 0..Len(text) /\ j < i /\ ~IsEnd(text, PartAt(text, k, j))
    BY <1>1 DEF Passed
  <2>2. Bytes(text, PartAt(text, k, j)) \cap Bytes(text, PartAt(text, k, i)) = {}
    BY <1>1, <2>1 DEF UsesBytesOnce, PartAt
  <2> QED BY <1>1, <1>4, <2>2
<1> DEFINE V == U \cup {q}
<1>6. IsFiniteSet(V) /\ Cardinality(V) = n + 1
  <2>1. q \notin U
    BY <1>2, <1>5
  <2> QED BY <1>2, <2>1, FS_AddElement
<1>7. V \in SUBSET (0..(Len(text) - 1))
  BY <1>2, <1>4 DEF Used
<1> HIDE DEF V
<1>8. IsFiniteSet(0..(Len(text) - 1)) /\ Cardinality(0..(Len(text) - 1)) = Len(text)
  <2>1. 0 \in Int /\ Len(text) - 1 \in Int /\ ~(0 > Len(text) - 1) /\ (Len(text) - 1) - 0 + 1 = Len(text)
    BY <1>1, <1>4
  <2> DEFINE e == Len(text) - 1
  <2> HIDE DEF e
  <2>2. IsFiniteSet(0..e) /\ Cardinality(0..e) = IF 0 > e THEN 0 ELSE e - 0 + 1
    BY <2>1, FS_Interval DEF e
  <2> QED BY <2>1, <2>2 DEF e
<1>9. Cardinality(V) <= Len(text)
  BY <1>7, <1>8, FS_Subset
<1> QED BY <1>1, <1>6, <1>9

-----------------------------------------------------------------------------
\* The invariant: dn_expand is on its way through the parts of the name, and
\* what it returns is right.
Expanded(text, k, space, d, l) ==
  /\ l # -1 => IsName(text, k) /\ Len(RefName(text, k)) < space /\ d = RefName(text, k) /\ l = RefSize(text, k)
  /\ l = -1 => Refused(text, k, space)

OnTheWay == InName /\ data < End => \E i : UpTo(msg.text, data, i, p, dest, len, iter)

ReturnsRight == pc \in {"queryBack", "aliasBack"} /\ data < End => Expanded(msg.text, data, NameSpace, dest, len)

NameInv == OnTheWay /\ ReturnsRight

LEMMA ReturnsRightExpands == ReturnsRight => ExpandsCorrectly
  BY DEF ReturnsRight, ExpandsCorrectly, Expanded, Refused

\* Where no name is being expanded there is nothing to show.
LEMMA Elsewhere ==
  ASSUME pc \in {"question", "type", "answer", "done"} \/ ~(data < End) PROVE NameInv
  BY DEF NameInv, OnTheWay, ReturnsRight, InName

LEMMA InExpansion ==
  ASSUME DnsInv, NameInv, InName, data < End
  PROVE  /\ msg.text \in Seq(Octet) /\ data \in Nat /\ Len(msg.text) \in Nat /\ End = Len(msg.text)
         /\ p \in Nat /\ p < Len(msg.text) /\ Len(dest) < NameSpace /\ iter \in Nat /\ (len = -1 \/ len \in Nat)
         /\ Byte(p) = {msg.text[p + 1]}
         /\ p + 1 < End => Byte(p + 1) = {msg.text[p + 2]}
         /\ msg.text[p + 1] \in Nat
         /\ \E i : UpTo(msg.text, data, i, p, dest, len, iter)
<1>1. /\ msg.text \in Seq(Octet) /\ data \in Nat /\ End \in Nat /\ End = Len(msg.text)
      /\ p \in Nat /\ p < End /\ Len(dest) < NameSpace /\ iter \in 0..(End + 1) /\ (len = -1 \/ len \in Nat)
  BY EndType DEF DnsInv, TypeOK, NameStaysInside, End
<1>2. Byte(p) = {msg.text[p + 1]} /\ (p + 1 < End => Byte(p + 1) = {msg.text[p + 2]})
  <2>1. (p + 1) + 1 = p + 2
    BY <1>1
  <2> QED BY <1>1, <2>1 DEF Byte
<1>3. msg.text[p + 1] \in Nat
  BY <1>1, TextByte
<1>4. \E i : UpTo(msg.text, data, i, p, dest, len, iter)
  BY DEF NameInv, OnTheWay
<1> QED BY <1>1, <1>2, <1>3, <1>4

LEMMA FailRight ==
  ASSUME InName, Fail, UNCHANGED <<msg, data>>, Refused(msg.text, data, NameSpace) PROVE NameInv'
<1>1. len' = -1 /\ dest' = dest /\ pc' \in {"queryBack", "aliasBack"} /\ msg' = msg /\ data' = data
  BY DEF Fail, Back
<1>2. ~InName'
  BY <1>1 DEF InName
<1>3. Expanded(msg'.text, data', NameSpace, dest', len')
  BY <1>1 DEF Expanded
<1> QED BY <1>2, <1>3 DEF NameInv, OnTheWay, ReturnsRight

LEMMA OnRight ==
  ASSUME InName, pc' = pc, UNCHANGED <<msg, data>>, NEW i, NEW q, NEW d, NEW l, NEW n, UpTo(msg.text, data, i, q, d, l, n),
         p' = q, dest' = d, len' = l, iter' = n
  PROVE  NameInv'
<1>1. \E j : UpTo(msg'.text, data', j, p', dest', len', iter')
  OBVIOUS
<1>2. pc' \notin {"queryBack", "aliasBack"}
  BY DEF InName
<1> QED BY <1>1, <1>2 DEF NameInv, OnTheWay, ReturnsRight

LEMMA StartRight ==
  ASSUME msg.text \in Seq(Octet), msg' = msg, data' \in Nat, NEW name \in {"queryName", "aliasName"}, Call(name, data')
  PROVE  NameInv'
<1>1. CASE data' = End
  <2>1. ~(data' < End')
    BY <1>1 DEF End
  <2> QED BY <2>1 DEF NameInv, OnTheWay, ReturnsRight
<1>2. CASE data' # End
  <2>1. p' = data' /\ dest' = <<>> /\ len' = -1 /\ iter' = 0 /\ pc' \notin {"queryBack", "aliasBack"}
    BY <1>2 DEF Call
  <2> DEFINE k == data'
  <2>2. k \in Nat
    OBVIOUS
  <2> HIDE DEF k
  <2>3. UpTo(msg.text, k, 0, k, <<>>, -1, 0)
    BY <2>2, UpToStart
  <2>4. \E j : UpTo(msg'.text, data', j, p', dest', len', iter')
    BY <2>1, <2>3 DEF k
  <2> QED BY <2>1, <2>4 DEF NameInv, OnTheWay, ReturnsRight
<1> QED BY <1>1, <1>2

LEMMA GiveUpRight == ASSUME DnsInv, NameInv, GiveUp, data < End PROVE NameInv'
<1>1. InName /\ ~(iter < End) /\ Fail /\ UNCHANGED <<msg, data>>
  BY DEF GiveUp, Iterating, walkVars
<1>2. /\ msg.text \in Seq(Octet) /\ data \in Nat /\ iter >= Len(msg.text)
      /\ \E i : UpTo(msg.text, data, i, p, dest, len, iter)
  BY <1>1, InExpansion
<1>3. Refused(msg.text, data, NameSpace)
  BY <1>2, RefusedLoop
<1> QED BY <1>1, <1>3, FailRight

LEMMA JumpRight == ASSUME DnsInv, NameInv, Jump, data < End PROVE NameInv'
<1>1. InName /\ iter < End /\ UNCHANGED <<msg, data>>
  BY DEF Jump, Iterating, walkVars
<1> DEFINE text == msg.text
           j == 256 * (text[p + 1] % 64) + text[p + 2]
           l == IF len < 0 THEN p + 2 - data ELSE len
<1>2. /\ text \in Seq(Octet) /\ data \in Nat /\ Len(text) \in Nat /\ End = Len(text)
      /\ p \in Nat /\ p < Len(text) /\ iter \in Nat /\ (len = -1 \/ len \in Nat)
      /\ Byte(p) = {text[p + 1]} /\ (p + 1 < End => Byte(p + 1) = {text[p + 2]}) /\ text[p + 1] \in Nat
  BY <1>1, InExpansion
<1>3. PICK i : UpTo(text, data, i, p, dest, len, iter)
  BY <1>1, InExpansion
<1>4. IsPointer(text, p)
  <2>1. \E b \in Byte(p) : b >= 64
    BY DEF Jump
  <2> QED BY <1>2, <2>1 DEF IsPointer
<1>5. CASE p + 1 = End
  <2>1. Fail
    BY <1>5 DEF Jump
  <2>2. ~Inside(text, p)
    <3>1. ~IsEnd(text, p)
      BY <1>2, <1>4 DEF IsPointer, IsEnd
    <3> QED BY <1>2, <1>4, <1>5, <3>1, InsideOf
  <2>3. Refused(text, data, NameSpace)
    BY <1>3, <2>2, RefusedOutside
  <2> QED BY <1>1, <2>1, <2>3, FailRight
<1>6. CASE p + 1 # End
  <2>1. p + 1 < Len(text) /\ p + 1 < End
    BY <1>2, <1>6
  <2>2. \/ j >= End /\ Fail
        \/ j < End /\ p' = j /\ len' = l /\ iter' = iter + 2 /\ UNCHANGED <<pc, dest>>
    BY <1>2, <1>6, <2>1 DEF Jump
  <2>3. UpTo(text, data, i + 1, j, dest, l, iter + 2)
    BY <1>1, <1>2, <1>3, <1>4, <2>1, UpToPointer
  <2>4. CASE j >= End /\ Fail
    <3>1. ~Inside(text, j)
      <4>1. j \in Nat
        BY <2>3, <1>2, UpToTypes
      <4> HIDE DEF j
      <4>2. ~(j < Len(text))
        BY <1>2, <2>4, <4>1
      <4> QED BY <4>2 DEF Inside
    <3>2. Refused(text, data, NameSpace)
      BY <2>3, <3>1, RefusedOutside
    <3> QED BY <1>1, <2>4, <3>2, FailRight
  <2>5. CASE j < End /\ p' = j /\ len' = l /\ iter' = iter + 2 /\ UNCHANGED <<pc, dest>>
    <3> HIDE DEF j, l
    <3> QED BY <1>1, <2>3, <2>5, OnRight
  <2> QED BY <2>2, <2>4, <2>5
<1> QED BY <1>5, <1>6

LEMMA LabelRight == ASSUME DnsInv, NameInv, Label, data < End PROVE NameInv'
<1>1. InName /\ iter < End /\ UNCHANGED <<msg, data>>
  BY DEF Label, Iterating, walkVars
<1> DEFINE text == msg.text
           b == text[p + 1]
           d == LabelTo(text, p, b, dest)
<1>2. /\ text \in Seq(Octet) /\ data \in Nat /\ Len(text) \in Nat /\ End = Len(text)
      /\ p \in Nat /\ p < Len(text) /\ iter \in Nat /\ Byte(p) = {b}
  BY <1>1, InExpansion
<1>3. PICK i : UpTo(text, data, i, p, dest, len, iter)
  BY <1>1, InExpansion
<1>4. /\ b \in 1..63
      /\ \/ (b >= End - (p + 1) \/ b >= NameSpace - Len(UpToDot(dest))) /\ Fail
         \/ /\ b < End - (p + 1) /\ b < NameSpace - Len(UpToDot(dest))
            /\ dest' = d /\ p' = p + 1 + b /\ iter' = iter + 2
            /\ UNCHANGED <<pc, len>>
  <2>1. \E c \in Byte(p) :
          /\ c \in 1..63
          /\ \/ (c >= End - (p + 1) \/ c >= NameSpace - Len(UpToDot(dest))) /\ Fail
             \/ /\ c < End - (p + 1) /\ c < NameSpace - Len(UpToDot(dest))
                /\ dest' = LabelTo(text, p, c, dest) /\ p' = p + 1 + c /\ iter' = iter + 2
                /\ UNCHANGED <<pc, len>>
    BY DEF Label, UpToDot, LabelTo
  <2> QED BY <1>2, <2>1
<1>5. ~IsEnd(text, p) /\ ~IsPointer(text, p) /\ b \in Nat /\ b > 0
  <2>1. b \in Nat /\ b # 0 /\ ~(b >= 64)
    BY <1>4, Kinds
  <2>2. b > 0
    <3> HIDE DEF b
    <3> QED BY <2>1
  <2> QED BY <2>1, <2>2 DEF IsEnd, IsPointer
<1>6. dest \in Seq(Octet)
  BY DEF DnsInv, TypeOK
<1>7. Len(UpToDot(dest)) \in Nat
  BY <1>6 DEF UpToDot, DOT, Octet
<1>8. p + b < Len(text) => UpTo(text, data, i + 1, p + 1 + b, d, len, iter + 2)
  BY <1>1, <1>2, <1>3, <1>4, UpToLabel
<1>9. CASE (b >= End - (p + 1) \/ b >= NameSpace - Len(UpToDot(dest))) /\ Fail
  <2>1. CASE ~(p + b < Len(text))
    <3>1. ~Inside(text, p)
      BY <1>2, <1>5, <2>1, InsideOf
    <3>2. Refused(text, data, NameSpace)
      BY <1>3, <3>1, RefusedOutside
    <3> QED BY <1>1, <1>9, <3>2, FailRight
  <2>2. CASE p + b < Len(text) /\ b >= End - (p + 1)
    <3>1. ~Inside(text, p + 1 + b)
      <4> HIDE DEF b
      <4>1. ~(p + 1 + b < Len(text))
        BY <1>2, <1>5, <2>2
      <4> QED BY <4>1 DEF Inside
    <3>2. Refused(text, data, NameSpace)
      BY <1>8, <2>2, <3>1, RefusedOutside
    <3> QED BY <1>1, <1>9, <3>2, FailRight
  <2>3. CASE p + b < Len(text) /\ b >= NameSpace - Len(UpToDot(dest))
    <3>1. Len(d) = Len(UpToDot(dest)) + b
      BY <1>2, <1>5, <1>6, <2>3, LabelAdded
    <3>2. Len(d) >= NameSpace
      <4> DEFINE m == Len(UpToDot(dest))
                 e == Len(d)
      <4>1. m \in Nat /\ b \in Nat /\ NameSpace \in Nat /\ b >= NameSpace - m /\ e = m + b
        BY <1>5, <1>7, <2>3, <3>1, SpaceAssumption
      <4> HIDE DEF m, e, b
      <4>2. e >= NameSpace
        BY <4>1
      <4> QED BY <4>2 DEF e
    <3>3. Refused(text, data, NameSpace)
      <4>1. NameSpace \in Nat
        BY SpaceAssumption
      <4> QED BY <1>2, <1>8, <2>3, <3>2, <4>1, RefusedLong
    <3> QED BY <1>1, <1>9, <3>3, FailRight
  <2> QED BY <1>9, <2>1, <2>2, <2>3
<1>10. CASE /\ b < End - (p + 1) /\ b < NameSpace - Len(UpToDot(dest))
            /\ dest' = d /\ p' = p + 1 + b /\ iter' = iter + 2
            /\ UNCHANGED <<pc, len>>
  <2>1. p + b < Len(text)
    <3> HIDE DEF b
    <3> QED BY <1>2, <1>5, <1>10
  <2>2. UpTo(text, data, i + 1, p + 1 + b, d, len, iter + 2)
    BY <1>8, <2>1
  <2> DEFINE q == p + 1 + b
  <2>3. p' = q /\ UpTo(text, data, i + 1, q, d, len, iter + 2)
    BY <1>10, <2>2
  <2> HIDE DEF q, d, b
  <2>4. dest' = d /\ len' = len /\ iter' = iter + 2 /\ pc' = pc
    BY <1>10
  <2> QED BY <1>1, <2>3, <2>4, OnRight
<1> QED BY <1>4, <1>9, <1>10

LEMMA FinishRight == ASSUME DnsInv, NameInv, Finish, data < End PROVE NameInv'
<1>1. InName /\ UNCHANGED <<msg, data>> /\ dest' = dest /\ pc' = Back(pc)
      /\ len' = IF len < 0 THEN p + 1 - data ELSE len
  BY DEF Finish, Iterating, walkVars
<1> DEFINE text == msg.text
<1>2. /\ text \in Seq(Octet) /\ data \in Nat /\ p \in Nat /\ p < Len(text) /\ Len(dest) < NameSpace
      /\ (len = -1 \/ len \in Nat) /\ Byte(p) = {text[p + 1]}
  BY <1>1, InExpansion
<1>3. PICK i : UpTo(text, data, i, p, dest, len, iter)
  BY <1>1, InExpansion
<1>4. IsEnd(text, p)
  BY <1>2 DEF Finish, IsEnd
<1>5. /\ IsName(text, data) /\ dest = RefName(text, data)
      /\ RefSize(text, data) = IF len < 0 THEN p + 1 - data ELSE len
  BY <1>2, <1>3, <1>4, UpToEnd
<1>6. len' # -1
  <2>1. len = -1 => p >= data
    BY <1>1 DEF DnsInv, Expanding
  <2> QED BY <1>1, <1>2, <2>1
<1>7. Expanded(text, data, NameSpace, dest, len')
  BY <1>1, <1>2, <1>5, <1>6 DEF Expanded
<1>8. Expanded(msg.text, data, NameSpace, dest, len)'
  <2> DEFINE l == len'
  <2>1. Expanded(text, data, NameSpace, dest, l)
    BY <1>7
  <2>2. msg'.text = text /\ data' = data /\ dest' = dest
    BY <1>1
  <2> HIDE DEF l
  <2>3. Expanded(msg'.text, data', NameSpace, dest', l)
    BY <2>1, <2>2
  <2> QED BY <2>3 DEF l
<1>9. ~InName'
  BY <1>1 DEF InName, Back
<1> QED BY <1>8, <1>9 DEF NameInv, OnTheWay, ReturnsRight

LEMMA AnswerRight == ASSUME DnsInv, NameInv, Answer PROVE NameInv'
<1>1. pc = "answer" /\ msg' = msg /\ data \in Nat /\ msg.text \in Seq(Octet)
  BY EndType DEF Answer, DnsInv, TypeOK
<1>2. PICK n \in strlen(data) : \E type \in NS_GET16(data + n) :
        LET rdata == data + n + 10 IN
        \/ /\ type \in {ns_t_a, ns_t_aaaa}
           /\ data' = rdata + (IF type = ns_t_a THEN 4 ELSE 16)
           /\ answered' = answered + 1
           /\ UNCHANGED <<pc, nameVars>>
        \/ /\ type \in {ns_t_ns, ns_t_cname}
           /\ data' = rdata
           /\ Call("aliasName", rdata)
           /\ UNCHANGED answered
        \/ /\ type \notin {ns_t_a, ns_t_aaaa, ns_t_ns, ns_t_cname}
           /\ data' = rdata
           /\ pc' = "done"
           /\ UNCHANGED <<answered, nameVars>>
  BY DEF Answer
<1> DEFINE r == data + n + 10
<1>3. r \in Nat
  BY <1>1 DEF strlen
<1> HIDE DEF r
<1>4. pc' = pc \/ pc' = "done" \/ (data' = r /\ Call("aliasName", r))
  BY <1>2 DEF r
<1>5. CASE pc' \in {"answer", "done"}
  BY <1>5, Elsewhere DEF NameInv, OnTheWay, ReturnsRight, InName
<1>6. CASE data' = r /\ Call("aliasName", r)
  BY <1>1, <1>3, <1>6, StartRight
<1> QED BY <1>1, <1>4, <1>5, <1>6

LEMMA NameStep == ASSUME DnsInv, NameInv, [Next]_vars PROVE NameInv'
<1>1. CASE pc' \in {"question", "type", "answer", "done"}
  BY <1>1 DEF NameInv, OnTheWay, ReturnsRight, InName
<1>2. CASE ~(data < End) /\ msg' = msg /\ data' = data
  BY <1>2 DEF NameInv, OnTheWay, ReturnsRight, End
<1>3. CASE GiveUp \/ Jump \/ Label \/ Finish
  <2>1. msg' = msg /\ data' = data
    BY <1>3 DEF GiveUp, Jump, Label, Finish, walkVars
  <2> QED BY <1>2, <1>3, <2>1, GiveUpRight, JumpRight, LabelRight, FinishRight
<1>4. CASE Question
  <2>1. msg' = msg /\ data' = data /\ Call("queryName", data) /\ data \in Nat /\ msg.text \in Seq(Octet)
    BY <1>4, EndType DEF Question, walkVars, DnsInv, TypeOK
  <2> QED BY <2>1, StartRight
<1>5. CASE Answer
  BY <1>5, AnswerRight
<1>6. CASE QuestionsDone \/ QuestionShown \/ Type \/ AnswersDone \/ AliasShown \/ Done
  BY <1>1, <1>6 DEF QuestionsDone, QuestionShown, Type, AnswersDone, AliasShown, Done, vars
<1>7. CASE UNCHANGED vars
  <2>1. UNCHANGED msg /\ UNCHANGED pc /\ UNCHANGED data /\ UNCHANGED p /\ UNCHANGED dest /\ UNCHANGED len /\ UNCHANGED iter
    BY <1>7 DEF vars, walkVars, nameVars
  <2>2. OnTheWay => OnTheWay'
    BY <2>1 DEF OnTheWay, InName, End
  <2>3. ReturnsRight => ReturnsRight'
    BY <2>1 DEF ReturnsRight, End, Expanded, Refused, IsName, UsesBytesOnce, RefName
  <2> QED BY <2>2, <2>3 DEF NameInv
<1> QED BY <1>3, <1>4, <1>5, <1>6, <1>7 DEF Next, Step

LEMMA NameInit == ASSUME Init PROVE NameInv
  BY Elsewhere DEF Init

\* What dn_expand returns is the name at its start and the bytes it takes
\* there, for every message and every buffer; and it returns every name that is
\* inside the message, fits in the buffer and uses no byte of the message
\* twice: the counter that stands for loop detection refuses none of these.
THEOREM DnsExpandsCorrectly == Spec => []ExpandsCorrectly
<1>1. NameInv => ExpandsCorrectly
  BY ReturnsRightExpands DEF NameInv
<1>2. Init => DnsInv /\ NameInv
  BY DnsInvInit, NameInit
<1>3. DnsInv /\ NameInv /\ [Next]_vars => (DnsInv /\ NameInv)'
  BY DnsInvStep, NameStep
<1> QED BY <1>1, <1>2, <1>3, PTL DEF Spec

-----------------------------------------------------------------------------
\* How far a place of the walk is from the next question or answer, and what
\* is left to show.  A name takes one step for every iteration, and at most
\* one for every byte of the message.
Rank == CASE pc = "done"                         -> 0
          [] pc \in {"queryBack", "aliasBack"}   -> 1
          [] pc \in {"queryName", "aliasName"}   -> 2 + (End + 1 - iter)
          [] pc = "answer"                       -> End + 4
          [] pc = "type"                         -> End + 5
          [] pc = "question"                     -> End + 6

ToShow == (msg.questions - asked) + (msg.answers - answered)

\* An upper bound on the steps that are left.
StepsLeft == (End + 6) * ToShow + Rank

\* A step shows one more question or answer, or is closer to showing it.
Closer == /\ msg' = msg
          /\ \/ ToShow' = ToShow - 1 /\ pc # "done"
             \/ ToShow' = ToShow /\ Rank' < Rank

\* The numbers that count the steps are numbers, and only the end has none.
RankOK == /\ End \in Nat /\ ToShow \in Nat /\ Rank \in 0..(End + 6)
          /\ pc # "done" => Rank >= 1

LEMMA RankType == ASSUME TypeOK PROVE RankOK
<1>1. End \in Nat /\ msg.questions \in Nat /\ msg.answers \in Nat
  BY EndType
<1>2. asked \in 0..msg.questions /\ answered \in 0..msg.answers /\ iter \in 0..(End + 1)
      /\ pc \in {"question", "queryName", "queryBack", "type", "answer", "aliasName", "aliasBack", "done"}
  BY DEF TypeOK
<1>3. ToShow \in Nat
  BY <1>1, <1>2 DEF ToShow
<1> DEFINE e == End
<1>4. e \in Nat /\ iter \in 0..(e + 1)
  BY <1>1, <1>2
<1>5. Rank = CASE pc = "done"                         -> 0
               [] pc \in {"queryBack", "aliasBack"}   -> 1
               [] pc \in {"queryName", "aliasName"}   -> 2 + (e + 1 - iter)
               [] pc = "answer"                       -> e + 4
               [] pc = "type"                         -> e + 5
               [] pc = "question"                     -> e + 6
  BY DEF Rank
<1> HIDE DEF e
<1>6. Rank \in 0..(e + 6) /\ (pc # "done" => Rank >= 1)
  BY <1>2, <1>4, <1>5
<1> QED BY <1>1, <1>3, <1>6 DEF e, RankOK

LEMMA Product ==
  ASSUME NEW k \in Nat, NEW n \in Nat, NEW m \in Nat, NEW r \in Nat, NEW s \in Nat,
         \/ m = n - 1 /\ s <= k /\ r >= 1
         \/ m = n /\ s < r
  PROVE  k * m + s < k * n + r
<1>1. CASE m = n /\ s < r
  BY <1>1
<1>2. CASE m = n - 1 /\ s <= k /\ r >= 1
  <2>1. k * m = k * n - k
    BY <1>2
  <2>2. k * n \in Nat /\ k * m \in Nat
    OBVIOUS
  <2> QED BY <1>2, <2>1, <2>2
<1> QED BY <1>1, <1>2

LEMMA StepsAreNumbers == ASSUME RankOK PROVE StepsLeft \in Nat
<1>1. End \in Nat /\ ToShow \in Nat /\ Rank \in Nat
  BY DEF RankOK
<1> DEFINE k == End + 6
<1>2. k \in Nat
  BY <1>1
<1>3. StepsLeft = k * ToShow + Rank
  BY DEF StepsLeft
<1> HIDE DEF k
<1> QED BY <1>1, <1>2, <1>3

LEMMA CloserIsLess == ASSUME RankOK, RankOK', Closer PROVE StepsLeft' < StepsLeft
<1> DEFINE k == End + 6
           n == ToShow
           m == ToShow'
           r == Rank
           s == Rank'
<1>1. k \in Nat /\ n \in Nat /\ r \in Nat /\ (pc # "done" => r >= 1)
  BY DEF RankOK
<1>2. End' = End
  BY DEF Closer, End
<1>3. m \in Nat /\ s \in 0..(End' + 6)
  BY DEF RankOK
<1>4. s \in Nat /\ s <= k
  BY <1>1, <1>2, <1>3
<1>5. StepsLeft = k * n + r /\ StepsLeft' = k * m + s
  BY <1>2 DEF StepsLeft
<1>6. \/ m = n - 1 /\ pc # "done"
      \/ m = n /\ s < r
  BY DEF Closer
<1> HIDE DEF k, n, m, r, s
<1> QED BY <1>1, <1>3, <1>4, <1>5, <1>6, Product

-----------------------------------------------------------------------------
\* dn_expand counts every label and every pointer it goes on from.
LEMMA NameCloser == ASSUME DnsInv, GiveUp \/ Jump \/ Label \/ Finish PROVE Closer
<1>1. End \in Nat /\ iter \in 0..(End + 1) /\ pc \in {"queryName", "aliasName"} /\ UNCHANGED <<msg, walkVars>>
  BY EndType DEF GiveUp, Jump, Label, Finish, Iterating, InName, DnsInv, TypeOK
<1>2. ToShow' = ToShow /\ End' = End
  BY <1>1 DEF ToShow, End, walkVars
<1>3. Rank = 2 + (End + 1 - iter)
  BY <1>1 DEF Rank
<1>4. CASE pc' \in {"queryBack", "aliasBack"}
  <2>1. Rank' = 1
    BY <1>4 DEF Rank
  <2> QED BY <1>1, <1>2, <1>3, <2>1 DEF Closer
<1>5. CASE pc' = pc /\ iter' = iter + 2
  <2>1. Rank' = 2 + (End + 1 - iter')
    BY <1>1, <1>2, <1>5 DEF Rank
  <2> QED BY <1>1, <1>2, <1>3, <1>5, <2>1 DEF Closer
<1>6. Fail => pc' \in {"queryBack", "aliasBack"}
  BY DEF Fail, Back
<1>7. GiveUp \/ Finish => pc' \in {"queryBack", "aliasBack"}
  BY <1>6 DEF GiveUp, Finish, Back
<1>8. Jump => Fail \/ (pc' = pc /\ iter' = iter + 2)
  BY DEF Jump
<1>9. Label => Fail \/ (pc' = pc /\ iter' = iter + 2)
  BY DEF Label
<1> QED BY <1>4, <1>5, <1>6, <1>7, <1>8, <1>9

\* A name to expand starts with no iteration, and an empty rest is no name.
LEMMA CallRank ==
  ASSUME DnsInv, NEW name \in {"queryName", "aliasName"}, NEW src, Call(name, src), msg' = msg
  PROVE  Rank' \in 0..(End + 3)
<1>1. End \in Nat /\ End' = End
  BY EndType DEF DnsInv, End
<1>2. iter' = 0 /\ pc' \in {"queryName", "aliasName", "queryBack", "aliasBack"}
  BY DEF Call, Back
<1>3. CASE pc' \in {"queryBack", "aliasBack"}
  <2>1. Rank' = 1
    BY <1>3 DEF Rank
  <2> QED BY <1>1, <2>1
<1>4. CASE pc' \in {"queryName", "aliasName"}
  <2>1. Rank' = 2 + (End + 1 - 0)
    BY <1>1, <1>2, <1>4 DEF Rank
  <2> QED BY <1>1, <2>1
<1> QED BY <1>2, <1>3, <1>4

LEMMA WalkCloser ==
  ASSUME DnsInv, Question \/ QuestionsDone \/ QuestionShown \/ Type \/ Answer \/ AnswersDone \/ AliasShown
  PROVE  Closer
<1>1. /\ End \in Nat /\ msg.questions \in Nat /\ msg.answers \in Nat
      /\ asked \in Nat /\ answered \in Nat
  BY EndType DEF DnsInv, TypeOK
<1>2. msg' = msg /\ End' = End
  BY DEF Question, QuestionsDone, QuestionShown, Type, Answer, AnswersDone, AliasShown, End
<1>3. CASE Question
  <2>1. pc = "question" /\ Call("queryName", data) /\ UNCHANGED walkVars
    BY <1>3 DEF Question
  <2>2. Rank = End + 6 /\ Rank' \in 0..(End + 3)
    BY <1>2, <2>1, CallRank DEF Rank
  <2>3. ToShow' = ToShow
    BY <1>2, <2>1 DEF ToShow, walkVars
  <2> QED BY <1>1, <1>2, <2>2, <2>3 DEF Closer
<1>4. CASE QuestionsDone
  <2>1. pc = "question" /\ pc' = "type" /\ UNCHANGED walkVars
    BY <1>4 DEF QuestionsDone
  <2>2. Rank = End + 6 /\ Rank' = End + 5
    BY <1>2, <2>1 DEF Rank
  <2>3. ToShow' = ToShow
    BY <1>2, <2>1 DEF ToShow, walkVars
  <2> QED BY <1>1, <1>2, <2>2, <2>3 DEF Closer
<1>5. CASE QuestionShown
  <2>1. /\ pc = "queryBack" /\ answered' = answered
        /\ \/ pc' = "done" /\ asked' = asked
           \/ asked' = asked + 1
    BY <1>5 DEF QuestionShown
  <2>2. CASE pc' = "done" /\ asked' = asked
    <3>1. Rank = 1 /\ Rank' = 0 /\ ToShow' = ToShow
      BY <1>2, <2>1, <2>2 DEF Rank, ToShow
    <3> QED BY <1>2, <3>1 DEF Closer
  <2>3. CASE asked' = asked + 1
    <3>1. ToShow' = ToShow - 1
      BY <1>1, <1>2, <2>1, <2>3 DEF ToShow
    <3> QED BY <1>2, <2>1, <3>1 DEF Closer
  <2> QED BY <2>1, <2>2, <2>3
<1>6. CASE Type
  <2>1. pc = "type" /\ pc' \in {"answer", "done"} /\ UNCHANGED <<asked, answered>>
    BY <1>6 DEF Type
  <2>2. Rank = End + 5 /\ (Rank' = End + 4 \/ Rank' = 0)
    BY <1>2, <2>1 DEF Rank
  <2>3. ToShow' = ToShow
    BY <1>2, <2>1 DEF ToShow
  <2> QED BY <1>1, <1>2, <2>2, <2>3 DEF Closer
<1>7. CASE Answer
  <2>1. PICK n \in strlen(data) : \E type \in NS_GET16(data + n) :
       LET rdata == data + n + 10 IN
       \/ /\ type \in {ns_t_a, ns_t_aaaa}
          /\ data' = rdata + (IF type = ns_t_a THEN 4 ELSE 16)
          /\ answered' = answered + 1
          /\ UNCHANGED <<pc, nameVars>>
       \/ /\ type \in {ns_t_ns, ns_t_cname}
          /\ data' = rdata
          /\ Call("aliasName", rdata)
          /\ UNCHANGED answered
       \/ /\ type \notin {ns_t_a, ns_t_aaaa, ns_t_ns, ns_t_cname}
          /\ data' = rdata
          /\ pc' = "done"
          /\ UNCHANGED <<answered, nameVars>>
    BY <1>7 DEF Answer
  <2>2. \/ answered' = answered + 1
        \/ Call("aliasName", data + n + 10) /\ answered' = answered
        \/ pc' = "done" /\ answered' = answered
    BY <2>1
  <2>3. pc = "answer" /\ asked' = asked
    BY <1>7 DEF Answer
  <2>4. Rank = End + 4
    BY <2>3 DEF Rank
  <2>5. CASE answered' = answered + 1
    <3>1. ToShow' = ToShow - 1
      BY <1>1, <1>2, <2>3, <2>5 DEF ToShow
    <3> QED BY <1>2, <2>3, <3>1 DEF Closer
  <2>6. CASE answered' = answered /\ (pc' = "done" \/ Call("aliasName", data + n + 10))
    <3>1. pc' = "done" => Rank' = 0
      BY DEF Rank
    <3>2. Rank' \in 0..(End + 3)
      BY <1>1, <1>2, <2>6, <3>1, CallRank
    <3>3. ToShow' = ToShow
      BY <1>2, <2>3, <2>6 DEF ToShow
    <3> QED BY <1>1, <1>2, <2>4, <3>2, <3>3 DEF Closer
  <2> QED BY <2>2, <2>5, <2>6
<1>8. CASE AnswersDone
  <2>1. pc = "answer" /\ pc' = "done" /\ UNCHANGED walkVars
    BY <1>8 DEF AnswersDone
  <2>2. Rank = End + 4 /\ Rank' = 0
    BY <1>2, <2>1 DEF Rank
  <2>3. ToShow' = ToShow
    BY <1>2, <2>1 DEF ToShow, walkVars
  <2> QED BY <1>1, <1>2, <2>2, <2>3 DEF Closer
<1>9. CASE AliasShown
  <2>1. pc = "aliasBack" /\ answered' = answered + 1 /\ asked' = asked
    BY <1>9 DEF AliasShown
  <2>2. ToShow' = ToShow - 1
    BY <1>1, <1>2, <2>1 DEF ToShow
  <2> QED BY <1>2, <2>1, <2>2 DEF Closer
<1> QED BY <1>3, <1>4, <1>5, <1>6, <1>7, <1>8, <1>9

\* Every step of the dump brings its end closer, for every message and
\* whatever lies behind it: no more steps are left than the length of the
\* message and six, for every question and answer and once more.
THEOREM DnsAdvances ==
  Spec => /\ [](StepsLeft \in Nat)
          /\ [][Step /\ StepsLeft' < StepsLeft]_vars
<1>1. DnsInv => RankOK
  BY RankType DEF DnsInv
<1>2. RankOK => StepsLeft \in Nat
  BY StepsAreNumbers
<1>3. DnsInv /\ RankOK /\ RankOK' /\ [Next]_vars => [Step /\ StepsLeft' < StepsLeft]_vars
  <2> SUFFICES ASSUME DnsInv, RankOK, RankOK', Next PROVE [Step /\ StepsLeft' < StepsLeft]_vars
    OBVIOUS
  <2>1. CASE Step
    <3>1. Closer
      BY <2>1, NameCloser, WalkCloser DEF Step
    <3> QED BY <2>1, <3>1, CloserIsLess
  <2>2. CASE Done
    BY <2>2 DEF Done
  <2> QED BY <2>1, <2>2 DEF Next
<1> QED BY <1>1, <1>2, <1>3, DnsInvInit, DnsInvStep, PTL DEF Spec
=============================================================================
