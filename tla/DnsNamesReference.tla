-------------------------- MODULE DnsNamesReference --------------------------
(***************************************************************************)
(* What dn_expand promises: a reference for compressed names, without a    *)
(* counter and without a buffer, and the property that compares dn_expand  *)
(* with it.                                                                *)
(*                                                                         *)
(* A name consists of parts: labels, pointers, and a zero byte, its end. A *)
(* part is identified by its position, the offset of its first byte.       *)
(***************************************************************************)
EXTENDS DnsNames

IsEnd(text, k)     == text[k + 1] = 0
IsPointer(text, k) == text[k + 1] >= 64

\* The bytes of a part; all of them belong to the message.
Bytes(text, k) == CASE IsEnd(text, k)     -> {k}
                    [] IsPointer(text, k) -> {k, k + 1}
                    [] OTHER              -> k..(k + text[k + 1])

Inside(text, k) == k < Len(text) /\ \A i \in Bytes(text, k) : i < Len(text)

\* The part that follows part r, and the labels up to there; the end of a name,
\* and what is not inside the message, are followed by nothing else.
Behind(text, r) ==
  LET k     == r.at
      label == SubSeq(text, k + 2, k + 1 + text[k + 1])
      upTo  == IF r.name = <<>> THEN <<>> ELSE Append(r.name, DOT)
  IN IF ~Inside(text, k) \/ IsEnd(text, k) THEN r
     ELSE IF IsPointer(text, k) THEN [at |-> 256 * (text[k + 1] % 64) + text[k + 2], name |-> r.name]
     ELSE [at |-> k + 1 + text[k + 1], name |-> upTo \o label]

\* The parts of the name at k.  One with more parts than bytes is endless.
Parts(text, k) ==
  LET part[i \in 0..Len(text)] == IF i = 0 THEN [at |-> k, name |-> <<>>] ELSE Behind(text, part[i - 1])
  IN part

IsName(text, k) ==
  LET part == Parts(text, k) IN
  /\ \A i \in 0..Len(text) : Inside(text, part[i].at)
  /\ IsEnd(text, part[Len(text)].at)

RefName(text, k) == Parts(text, k)[Len(text)].name

\* No byte belongs to two parts.
UsesBytesOnce(text, k) ==
  LET part == Parts(text, k) IN
  \A i, j \in 0..Len(text) : i < j /\ ~IsEnd(text, part[i].at) =>
    Bytes(text, part[i].at) \cap Bytes(text, part[j].at) = {}

\* The bytes that a name takes where it starts, to its end or its first pointer.
RefSize(text, k) ==
  LET part == Parts(text, k)
      last == CHOOSE i \in 0..Len(text) : /\ text[part[i].at + 1] \notin 1..63
                                          /\ \A j \in 0..(i - 1) : text[part[j].at + 1] \in 1..63
  IN part[last].at - k + (IF IsEnd(text, part[last].at) THEN 1 ELSE 2)

\* What dn_expand returns is the name that starts at data and the bytes it
\* takes there; and it returns every name that is inside the message, not too
\* long and uses no byte of the message twice.  (A name that does so without
\* being endless may be taken for a loop.)
ExpandsCorrectly ==
  pc \in {"queryBack", "aliasBack"} /\ data < End =>
    LET name == RefName(msg.text, data) IN
    /\ len # -1 => /\ IsName(msg.text, data) /\ Len(name) < NameSpace
                   /\ dest = name /\ len = RefSize(msg.text, data)
    /\ len = -1 => ~(IsName(msg.text, data) /\ UsesBytesOnce(msg.text, data) /\ Len(name) < NameSpace)

\* An answer whose name is valid is read behind that name (dns.c: "Skipping
\* the domain name."): the walk moves on by the name, the fixed part of the
\* record and, of an address, its 4 or 16 bytes.
NameIsSkipped ==
  [][pc = "answer" /\ data' # data /\ IsName(msg.text, data)
       => data' - data - RefSize(msg.text, data) \in {10, 14, 26}]_vars
=============================================================================
