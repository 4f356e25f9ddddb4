---------------------------- MODULE MCHttpParser ----------------------------
(***************************************************************************)
(* The HTTP parser on payloads that are written from descriptions of       *)
(* messages: the same description says what the callbacks must show.       *)
(***************************************************************************)
EXTENDS HttpParserReference, SequencesExt

\* A part of a payload, with the calls it is expected to lead to.
Plain(t)    == [text |-> t, calls |-> <<>>]
Shown(f, t) == [text |-> t, calls |-> <<[on |-> f, at |-> 0, length |-> Len(t)]>>]

a ++ b ==
  [text  |-> a.text \o b.text,
   calls |-> a.calls \o [i \in 1..Len(b.calls) |-> [b.calls[i] EXCEPT !.at = @ + Len(a.text)]]]

Join(parts) == FoldLeft(LAMBDA a, b : a ++ b, Plain(<<>>), parts)

EOL == <<CR, LF>>
Field(name, value) == Join(<<Shown("header_field", <<name>>), Plain(<<":", SP>>), Shown("header_value", value), Plain(EOL)>>)

V11 == <<"1", ".", "1">>
V10 == <<"1", ".", "0">>

-----------------------------------------------------------------------------
\* First lines.
Request(m, url, v) ==
  [request |-> TRUE, connect |-> m = "CONNECT", old |-> v # V11, bodiless |-> TRUE,
   line |-> Join(<<Plain(<<m, SP>>), Shown("url", url),
                   IF v = <<>> THEN Plain(EOL) ELSE Plain(<<SP, "HTTP/">> \o v \o EOL)>>)]

Response(v, status, reason, bodiless) ==
  [request |-> FALSE, connect |-> FALSE, old |-> v # V11, bodiless |-> bodiless,
   line |-> Join(<<Plain(<<"HTTP/">> \o v \o <<SP>> \o status \o <<SP>>),
                   IF reason = <<>> THEN Plain(EOL) ELSE Shown("status", reason) ++ Plain(EOL)>>)]

Starts ==
  { Request("GET", <<"/">>, V11), Request("HEAD", <<"*">>, V10),
    Request("POST", <<"x", ":", "/", "/", "x", "@", "x", "/", "x", "?", "?", "x", "#", "x">>, V11),
    Request("CONNECT", <<"x", ":", "8">>, V11), Request("PUT", <<"/", "x">>, <<>>),
    Response(V11, <<"2", "0", "0">>, <<"x", SP, "x">>, FALSE), Response(V10, <<"2", "0", "0">>, <<>>, FALSE),
    Response(V11, <<"2", "0", "4">>, <<"x">>, TRUE), Response(V11, <<"1", "0", "1">>, <<"x">>, TRUE) }

-----------------------------------------------------------------------------
\* How the message says what becomes of the connection.
Connections ==
  { [says |-> {}, lines |-> Plain(<<>>)],
    [says |-> {"close"}, lines |-> Field("connection", <<"close">>)],
    [says |-> {"keep-alive"}, lines |-> Field("proxy-connection", <<"keep-alive", SP>>)],
    [says |-> {"close"}, lines |-> Field("connection", <<"x", ",", SP, "close", SP, ",", "x">>)],
    [says |-> {"keep-alive", "upgrade"},
     lines |-> Field("upgrade", <<"x">>) ++ Field("connection", <<"keep-alive", ",", "upgrade">>)],
    [says |-> {}, lines |-> Field("connection", <<"close", "x">>)],
    [says |-> {}, lines |-> Field("x", <<"close">>)] }

\* How long the body is.
Chunk(size, params, t) == Join(<<Plain(size \o params \o EOL), Shown("body", t), Plain(EOL)>>)
Chunks == Join(<<Chunk(<<"2">>, <<>>, <<CR, LF>>), Chunk(<<"0", "1">>, <<";", "x">>, <<"x">>)>>)

Nothing == [length |-> "none", lines |-> Plain(<<>>), body |-> Plain(<<>>)]

Framings ==
  { Nothing,
    [length |-> "zero", lines |-> Field("content-length", <<"0">>), body |-> Plain(<<>>)],
    [length |-> "some", lines |-> Field("content-length", <<"3">>), body |-> Shown("body", <<"GET", SP, "/">>)],
    [length |-> "chunked",
     lines  |-> Field("content-length", <<"3">>) ++ Field("transfer-encoding", <<"chunked">>),
     body   |-> Join(<<Chunks, Plain(<<"0">> \o EOL), Field("x", <<"x">>), Plain(EOL)>>)] }

Framing(length) == CHOOSE f \in Framings : f.length = length


\* Headers that change nothing: folded, empty, folded behind an empty line.
Others ==
  { Plain(<<>>),
    Join(<<Shown("header_field", <<"x", "-", "x">>), Plain(<<":">>), Shown("header_value", <<"x">>), Plain(EOL),
           Shown("header_value", <<TAB, "x">>), Plain(EOL)>>),
    Join(<<Shown("header_field", <<"connection">>), Plain(<<":", TAB>> \o EOL), Shown("header_value", <<>>)>>),
    Join(<<Shown("header_field", <<"connection", "x">>), Plain(<<":", LF, SP>>), Shown("header_value", <<"close">>),
           Plain(<<LF>>)>>) }

-----------------------------------------------------------------------------
\* A message, another one behind it, and what is to be seen of both: the second
\* is the body of a response without a length, is left to another protocol
\* behind an upgrade, and an error behind a message that closes the connection.
Message(s, c, f, o) ==
  LET upgraded  == s.connect \/ "upgrade" \in c.says
      leaves    == s.connect \/ ("upgrade" \in c.says /\ f.length \in {"none", "zero"})
      untilEof  == ~s.request /\ ~s.bodiless /\ f.length = "none"
      kept      == IF s.old THEN "keep-alive" \in c.says ELSE "close" \notin c.says
      body      == IF s.connect THEN Plain(f.body.text) ELSE f.body
      message   == Join(<<s.line, c.lines, o, f.lines, Plain(EOL), body>>)
      second    == IF s.request THEN Request("GET", <<"/", "x">>, V11).line
                                ELSE Response(V11, <<"2", "0", "4">>, <<"x">>, TRUE).line
      closes    == ~leaves /\ ~upgraded /\ ~untilEof /\ ~kept
      behind    == IF upgraded \/ closes THEN Plain(second.text)
                   ELSE IF untilEof THEN Shown("body", second.text) ELSE second
  IN [seen |-> message ++ behind,
      last |-> IF closes THEN Len(message.text) ELSE Len(message.text) + Len(behind.text)]

NoOthers == Plain(<<>>)
Silence  == [says |-> {}, lines |-> Plain(<<>>)]

MessageTable ==
  {Message(s, c, f, NoOthers) : s \in Starts, c \in Connections, f \in Framings}
    \cup {Message(s, c, Nothing, o) : s \in {Request("GET", <<"/">>, V11)}, c \in Connections, o \in Others}

\* Each message as a whole, and some of them cut off anywhere.
Cut(text) == {SubSeq(text, 1, n) : n \in 0..Len(text)}
CutTable  == {Message(s, c, f, o) : s \in {Request("GET", <<"/">>, V11), Response(V11, <<"2", "0", "0">>, <<"x">>, FALSE)},
                                    c \in {Silence}, f \in Framings, o \in Others}

Messages == {m.seen.text : m \in MessageTable} \cup UNION {Cut(m.seen.text) : m \in CutTable}

\* Messages that break off into something else at any place.
Odd == {CR, LF, SP, TAB, "x", "0", "9", "@", ":", "/", "?", "#", "[", ",", ".", "%"}

Breaks ==
  { Message(Request("POST", <<"x", ":", "/", "/", "x", "@", "x", "/", "?", "x", "#", "x">>, V11), Silence,
            Framing("some"), NoOthers),
    Message(Request("GET", <<"/">>, V11), Silence, Framing("chunked"), NoOthers),
    Message(Request("CONNECT", <<"x">>, V11), Silence, Nothing, NoOthers),
    Message(Response(V11, <<"2", "0", "0">>, <<"x">>, FALSE), [says |-> {}, lines |-> Field("connection", <<"cl">>)],
            Framing("zero"), NoOthers),
    Message(Request("GET", <<"/">>, V11), [says |-> {}, lines |-> Field("connection", <<"x", ",">>)], Nothing, NoOthers),
    Message(Request("GET", <<"/">>, <<>>), [says |-> {}, lines |-> Field("upgrade", <<"x">>)], Nothing, NoOthers) }

Broken == UNION {{Append(t, s) : t \in Cut(m.seen.text), s \in Odd} : m \in Breaks}

\* Numbers that are too long.
Thousand == <<"1", "0", "0", "0">>
Overlong ==
  UNION {{Request("GET", <<"/">>, v \o <<".", "1">>).line.text, Request("GET", <<"/">>, <<"1", ".">> \o v).line.text,
          Response(v \o <<".", "1">>, <<"2">>, <<>>, FALSE).line.text,
          Response(<<"1", ".">> \o v, <<"2">>, <<>>, FALSE).line.text,
          Response(V11, <<SP>> \o v, <<>>, FALSE).line.text} : v \in {Thousand, Tail(Thousand)}}

-----------------------------------------------------------------------------
\* Payloads with the length of a body or of a chunk, which end there or in the
\* bytes that follow.
RECURSIVE Digits(_, _)
Digits(v, base) == IF v < base THEN <<HexDigits[v + 1]>>
                   ELSE Append(Digits(v \div base, base), HexDigits[(v % base) + 1])

Filled(n) == [i \in 1..n |-> "x"]

Values == 0..20 \cup 235..265 \cup 290..300
Rests  == {<<>>, Filled(22)}

Start == Request("POST", <<"/">>, V11).line.text

Lengths ==
  {Start \o <<"content-length", ":">> \o zeros \o Digits(v, 10) \o EOL \o EOL \o rest :
     v \in Values, zeros \in {<<>>, <<"0", "0">>}, rest \in Rests}
    \cup
  {Start \o <<"transfer-encoding", ":", "chunked">> \o EOL \o EOL \o Digits(v, 16) \o EOL \o rest :
     v \in {w \in Values : w % 16 # 12 /\ (w \div 16) % 16 # 12}, rest \in Rests}

\* Lengths that are written in parts, twice or not at all, with a body.
Length(t) == Start \o <<"content-length", ":">> \o t
OddLengths ==
  { Length(<<"1", SP, "2">> \o EOL \o EOL), Length(<<SP, "2">> \o EOL \o <<SP, "1">> \o EOL \o EOL),
    Length(EOL \o <<SP, "2", LF, LF>>), Length(<<"3", LF, "content-length", ":">> \o EOL \o EOL),
    Length(<<"3", LF, "content-length", ":", "2">> \o EOL \o EOL), Length(<<SP, "x">>), Length(<<"2", "x">>),
    Length(<<"1", LF, "content-length", "x", ":", "2">> \o EOL \o EOL),
    Start \o <<"transfer-encoding", ":", "chunked", LF, LF, "2", SP, LF, "3", "x">> \o EOL }

\* Headers whose names and values are short or long.
Sizes == {0, 1, 20, 22, 23, 24, 42, 44, 45, 60}
LongHeaders ==
  {Start \o Filled(i) \o <<":">> \o Filled(j) \o eol \o eol : i \in Sizes \ {0}, j \in Sizes, eol \in {EOL, <<LF>>}}
    \cup {Start \o <<"connection", ":">> \o Filled(j) \o eol : j \in Sizes, eol \in {EOL, <<LF>>, <<>>}}
    \cup {Start \o Filled(i) : i \in Sizes}

MCPayloads == LongHeaders \cup Messages \cup Broken \cup Overlong \cup Lengths \cup {t \o Filled(5) : t \in OddLengths}

-----------------------------------------------------------------------------
\* What is to be seen of the first n symbols.
CallsUpTo(calls_, n) ==
  LET begun == SelectSeq(calls_, LAMBDA c : c.at < n) IN
  [i \in 1..Len(begun) |-> [begun[i] EXCEPT !.length = IF begun[i].at + @ > n THEN n - begun[i].at ELSE @]]

\* The callbacks show the message that was written, as far as the packet has
\* it: its method line, headers and body and no byte else, in the same way for
\* each way to say how long the body is and what becomes of the connection; and
\* nothing but a message behind the last one is refused.
ShowsMessage ==
  pc = "done" => \A m \in MessageTable \cup CutTable : IsPrefix(data, m.seen.text) =>
    /\ calls = CallsUpTo(m.seen.calls, IF len < m.last THEN len ELSE m.last)
    /\ parser.http_errno = IF len > m.last THEN "CLOSED_CONNECTION" ELSE "OK"
=============================================================================
