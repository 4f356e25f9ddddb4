------------------------------ MODULE DnsNames ------------------------------
(***************************************************************************)
(* How the DNS dissector shows a message without error code (dns.c): the   *)
(* walk over questions and answers, and dn_expand, which decompresses one  *)
(* name.  One behaviour is one call of the dump of a query or response.    *)
(*                                                                         *)
(* Pointers are offsets from the first byte behind the DNS header, which   *)
(* is the base of compressed names for this code.                          *)
(***************************************************************************)
EXTENDS Integers, Sequences

CONSTANTS
  Messages,   \* the messages that dns_dissector_handles lets through
  NameSpace,  \* dend - dest at the start of dn_expand (254 in the program)
  Over,       \* bytes that may lie behind a message in memory
  MaxSkip     \* bound on how far strlen runs behind a message

Octet == {n \in Nat : n < 256}

\* text: the bytes behind the header; the other fields are header fields.
Message == [text : Seq(Octet), qr : BOOLEAN, questions : 0..5, answers : 0..10]

ASSUME MessageAssumption ==
  \A m \in Messages : /\ m \in Message
                      /\ Len(m.text) >= 4 * m.questions + (IF m.qr THEN 10 * m.answers ELSE 0)
ASSUME SpaceAssumption == NameSpace \in Nat \ {0} /\ MaxSkip \in Nat
ASSUME OverAssumption  == Over \subseteq Octet /\ Over # {}

VARIABLES
  msg,      \* the message
  pc,       \* where the walk is: see TypeOK
  data,     \* the walk's position; in dn_expand, the start of the name
  asked,    \* questions shown
  answered, \* answers shown
  p,        \* dn_expand's position
  dest,     \* the name written so far
  len,      \* -1, or the bytes the name occupies at data; the result of dn_expand
  iter      \* dn_expand's iteration counter

walkVars == <<data, asked, answered>>
nameVars == <<p, dest, len, iter>>
vars     == <<msg, pc, walkVars, nameVars>>

End == Len(msg.text)

\* The byte at an offset, and the big-endian 16-bit values there.
Byte(k)     == IF k < End THEN {msg.text[k + 1]} ELSE Over
NS_GET16(k) == {256 * hi + lo : hi \in Byte(k), lo \in Byte(k + 1)}

strlen(k) == {n \in 0..(End - k + MaxSkip) : /\ \A i \in 0..(n - 1) : Byte(k + i) # {0}
                                             /\ 0 \in Byte(k + n)}

DOT == 46

ns_t_a     == 1
ns_t_ns    == 2
ns_t_cname == 5
ns_t_aaaa  == 28

-----------------------------------------------------------------------------
Init ==
  /\ msg \in Messages
  /\ pc = "question"
  /\ data = 0 /\ asked = 0 /\ answered = 0
  /\ p = 0 /\ dest = <<>> /\ len = -1 /\ iter = 0

-----------------------------------------------------------------------------
\* dn_expand, called for the name at src by the walk over the questions or
\* by _cname_rr.
InName     == pc \in {"queryName", "aliasName"}
Back(name) == IF name = "queryName" THEN "queryBack" ELSE "aliasBack"

Call(name, src) ==
  /\ p' = src /\ dest' = <<>> /\ len' = -1 /\ iter' = 0
  /\ pc' = IF src = End THEN Back(name) ELSE name

Fail ==
  /\ pc' = Back(pc) /\ len' = -1
  /\ UNCHANGED <<p, dest, iter>>

\* Mutants: loops are not detected; long names are taken for loops.
IteratingForever == InName
IteratingTooFew  == InName /\ iter + 2 < End

Iterating == InName /\ iter < End

\* The iteration counter stands for loop detection.
GiveUp ==
  /\ InName /\ ~Iterating
  /\ Fail
  /\ UNCHANGED <<msg, walkVars>>

\* Mutant: a pointer does not count as an iteration.
JumpNotCounted ==
  /\ Iterating
  /\ \E b \in Byte(p) :
       /\ b >= 64
       /\ \/ p + 1 = End /\ Fail
          \/ /\ p + 1 # End
             /\ \E c \in Byte(p + 1) :
                  LET j == 256 * (b % 64) + c IN
                  \/ j >= End /\ Fail
                  \/ /\ j < End
                     /\ p' = j
                     /\ len' = IF len < 0 THEN p + 2 - data ELSE len
                     /\ UNCHANGED <<pc, dest, iter>>
  /\ UNCHANGED <<msg, walkVars>>

Jump ==
  /\ Iterating
  /\ \E b \in Byte(p) :
       /\ b >= 64
       /\ \/ p + 1 = End /\ Fail
          \/ /\ p + 1 # End
             /\ \E c \in Byte(p + 1) :
                  LET j == 256 * (b % 64) + c IN
                  \/ j >= End /\ Fail
                  \/ /\ j < End
                     /\ p' = j
                     /\ len' = IF len < 0 THEN p + 2 - data ELSE len
                     /\ iter' = iter + 2
                     /\ UNCHANGED <<pc, dest>>
  /\ UNCHANGED <<msg, walkVars>>

\* Mutant: a label may reach the end of the message.
LabelToTheEnd ==
  /\ Iterating
  /\ \E b \in Byte(p) :
       LET dotted == IF dest = <<>> THEN dest ELSE Append(dest, DOT) IN
       /\ b \in 1..63
       /\ \/ (b > End - (p + 1) \/ b >= NameSpace - Len(dotted)) /\ Fail
          \/ /\ b <= End - (p + 1) /\ b < NameSpace - Len(dotted)
             /\ dest' = dotted \o SubSeq(msg.text, p + 2, p + 1 + b)
             /\ p' = p + 1 + b
             /\ iter' = iter + 2
             /\ UNCHANGED <<pc, len>>
  /\ UNCHANGED <<msg, walkVars>>

\* Mutant: a label behind the end of the message is let through.
LabelUnsigned ==
  /\ Iterating
  /\ \E b \in Byte(p) :
       LET dotted == IF dest = <<>> THEN dest ELSE Append(dest, DOT)
           room   == End - (p + 1) IN
       /\ b \in 1..63
       /\ \/ (room \in 0..b \/ b >= NameSpace - Len(dotted)) /\ Fail
          \/ /\ room \notin 0..b /\ b < NameSpace - Len(dotted)
             /\ dest' = dotted \o [i \in 1..b |-> IF p + 1 + i <= End THEN msg.text[p + 1 + i] ELSE 0]
             /\ p' = p + 1 + b
             /\ iter' = iter + 2
             /\ UNCHANGED <<pc, len>>
  /\ UNCHANGED <<msg, walkVars>>

Label ==
  /\ Iterating
  /\ \E b \in Byte(p) :
       LET dotted == IF dest = <<>> THEN dest ELSE Append(dest, DOT) IN
       /\ b \in 1..63
       /\ \/ (b >= End - (p + 1) \/ b >= NameSpace - Len(dotted)) /\ Fail
          \/ /\ b < End - (p + 1) /\ b < NameSpace - Len(dotted)
             /\ dest' = dotted \o SubSeq(msg.text, p + 2, p + 1 + b)
             /\ p' = p + 1 + b
             /\ iter' = iter + 2
             /\ UNCHANGED <<pc, len>>
  /\ UNCHANGED <<msg, walkVars>>

\* Mutant: the size of a name is taken where it ends, pointers or not.
FinishAfterJump ==
  /\ Iterating
  /\ 0 \in Byte(p)
  /\ len' = p + 1 - data
  /\ pc' = Back(pc)
  /\ UNCHANGED <<msg, walkVars, p, dest, iter>>

Finish ==
  /\ Iterating
  /\ 0 \in Byte(p)
  /\ len' = IF len < 0 THEN p + 1 - data ELSE len
  /\ pc' = Back(pc)
  /\ UNCHANGED <<msg, walkVars, p, dest, iter>>

-----------------------------------------------------------------------------
\* The walk.  The loop over the questions skips their names only.
Question ==
  /\ pc = "question" /\ asked < msg.questions /\ data < End
  /\ Call("queryName", data)
  /\ UNCHANGED <<msg, walkVars>>

QuestionsDone ==
  /\ pc = "question" /\ ~(asked < msg.questions /\ data < End)
  /\ pc' = "type"
  /\ UNCHANGED <<msg, walkVars, nameVars>>

\* An invalid name ends the dump.
QuestionShown ==
  /\ pc = "queryBack"
  /\ IF len = -1 THEN pc' = "done" /\ UNCHANGED <<data, asked>>
                 ELSE pc' = "question" /\ data' = data + len /\ asked' = asked + 1
  /\ UNCHANGED <<msg, answered, nameVars>>

\* The type is shown; in a response the class is skipped too.
Type ==
  /\ pc = "type"
  /\ IF msg.qr THEN data' = data + 4 /\ pc' = "answer"
               ELSE data' = data + 2 /\ pc' = "done"
  /\ UNCHANGED <<msg, asked, answered, nameVars>>

\* One answer: its name is skipped by strlen, the fixed part is read, and
\* what follows depends on the type.
Answer ==
  /\ pc = "answer" /\ answered < msg.answers /\ data < End
  /\ \E n \in strlen(data) : \E type \in NS_GET16(data + n) :
       LET rdata == data + n + 10 IN
       \/ /\ type \in {ns_t_a, ns_t_aaaa}
          /\ data' = rdata + (IF type = ns_t_a THEN 4 ELSE 16)
          /\ answered' = answered + 1
          /\ UNCHANGED <<pc, nameVars>>
       \/ /\ type \in {ns_t_ns, ns_t_cname}
          /\ data' = rdata
          /\ Call("aliasName", rdata)
          /\ UNCHANGED answered
       \/ /\ type \notin {ns_t_a, ns_t_aaaa, ns_t_ns, ns_t_cname}
          /\ data' = rdata
          /\ pc' = "done"
          /\ UNCHANGED <<answered, nameVars>>
  /\ UNCHANGED <<msg, asked>>

AnswersDone ==
  /\ pc = "answer" /\ ~(answered < msg.answers /\ data < End)
  /\ pc' = "done"
  /\ UNCHANGED <<msg, walkVars, nameVars>>

\* _cname_rr: after an invalid name the position stays where it is.
AliasShown ==
  /\ pc = "aliasBack"
  /\ pc' = "answer"
  /\ data' = IF len = -1 THEN data ELSE data + len
  /\ answered' = answered + 1
  /\ UNCHANGED <<msg, asked, nameVars>>

Done == pc = "done" /\ UNCHANGED vars

Step ==
  \/ GiveUp \/ Jump \/ Label \/ Finish
  \/ Question \/ QuestionsDone \/ QuestionShown \/ Type
  \/ Answer \/ AnswersDone \/ AliasShown

Next == Step \/ Done

Spec     == Init /\ [][Next]_vars
FairSpec == Spec /\ WF_vars(Step)

-----------------------------------------------------------------------------
\* Type correctness.
TypeOK ==
  /\ msg \in Messages
  /\ pc \in {"question", "queryName", "queryBack", "type", "answer", "aliasName", "aliasBack", "done"}
  /\ data \in Nat /\ asked \in 0..msg.questions /\ answered \in 0..msg.answers
  /\ p \in Nat
  /\ dest \in Seq(Octet)
  /\ len \in Nat \cup {-1}
  /\ iter \in 0..(End + 1)

\* In the loop of dn_expand, for a name that starts inside the message: the
\* position is inside the message and the name leaves room for its end (dns.c
\* on the loop: "p<end, dest<dend").
NameStaysInside == InName /\ data < End => p < End /\ Len(dest) < NameSpace

\* The same for every name that is expanded.
EveryNameStaysInside == InName => p < End

\* The size of a name that was expanded, however it is compressed or cut off,
\* ends inside the message.  Behind the end, where _cname_rr starts at whatever
\* a cut off record leaves, a pointer or a root is the most that passes: the
\* comparison of a label with what is left of the message is a signed one.
SizeIsBounded ==
  pc \in {"queryBack", "aliasBack"} /\ len # -1 => data + len <= (IF data < End THEN End ELSE data + 2)

\* A question that is shown moves the walk on, and never past the end of the
\* message, however its name is compressed.
QuestionsAdvance == [][asked' # asked => data' > data /\ data' <= End]_vars

\* The walk ends whatever the message: a loop of compressed names is left.
DumpEnds == <>(pc = "done")
=============================================================================
