----------------------------- MODULE MCDnsNames -----------------------------
(***************************************************************************)
(* The DNS walk on every short query over a small alphabet and on some     *)
(* responses.                                                              *)
(***************************************************************************)
EXTENDS DnsNamesReference

\* Label lengths or offsets, and the first byte of a compression pointer.
Alphabet == {0, 1, 2, 3, 192}

Texts(n) == [1..n -> Alphabet]

ShortQueries == [text : UNION {Texts(n) : n \in 4..6}, qr : {FALSE}, questions : {1}, answers : {0}]

TwoQuestions == [text : { <<1, 7, 0, 0, 1, 0, 1, 0>>, <<192, 2, 1, 7, 0, 0, 1, 0>>, <<1, 7, 0, 192, 0, 0, 1, 0>>,
                          <<0, 0, 1, 0, 1, 2, 7, 7>> },
                 qr : {FALSE}, questions : {2}, answers : {0}]

\* A root question and what follows it; a record of each type, with names
\* that are compressed, spelt out, invalid or cut off.
Root == <<0, 0, 1, 0, 1>>
Record(name, type, rdata) == name \o <<0, type, 0, 1, 0, 0, 0, 9, 0, Len(rdata)>> \o rdata

Replies ==
  { Root \o Record(<<192, 12>>, 1, <<9, 9, 9, 9>>),
    Root \o Record(<<192, 12>>, 28, [i \in 1..16 |-> i]),
    Root \o Record(<<192, 12>>, 5, <<1, 7, 192, 0>>),
    Root \o Record(<<192, 12>>, 2, <<192, 17>>),
    Root \o Record(<<192, 12>>, 5, <<>>),
    Root \o Record(<<192, 12>>, 16, <<1, 7>>),
    Root \o Record(<<1, 7, 0>>, 1, <<9, 9, 9, 9>>),
    Root \o Record(<<1, 7>>, 1, <<9, 9, 9, 9>>),
    Root \o SubSeq(Record(<<>>, 5, <<>>), 1, 9),
    [i \in 1..14 |-> 7] }

TwoReplies ==
  { Root \o Record(<<192, 12>>, 5, <<1, 7, 0>>) \o Record(<<192, 12>>, 1, <<9, 9, 9, 9>>),
    Root \o Record(<<192, 12>>, 2, <<3, 7>>) \o Record(<<192, 12>>, 2, <<0>>) }

Responses == [text : Replies, qr : {TRUE}, questions : {1}, answers : {1}]
               \cup [text : TwoReplies, qr : {TRUE}, questions : {1}, answers : {2}]

MCMessages == ShortQueries \cup TwoQuestions \cup Responses

=============================================================================
