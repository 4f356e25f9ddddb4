-------------------------- MODULE HttpParserProofs --------------------------
(***************************************************************************)
(* Theorems about HttpParser, for every payload, width of a length and     *)
(* limit of the header: types and the asserts of the code; what is handed  *)
(* to the callbacks are parts of the payload, in order; a header that is   *)
(* too long is refused; a body is as long as its header or the size of its *)
(* chunk says; and every step is closer to the end of the call.            *)
(***************************************************************************)
EXTENDS HttpParserReference, SequenceTheorems, FiniteSetTheorems, WellFoundedInduction, TLAPS

\* The types, by name.
Kind   == {"HTTP_BOTH", "HTTP_REQUEST", "HTTP_RESPONSE"}
State  == HeaderPartState \cup BodyState
Flags  == SUBSET Flag
Length == 0..ULLONG_MAX
Errno  == http_errno
Place  == {"next", "switch", "value", "done"}
Pos    == 0..len
Marks  == [Piece -> {NoMark} \cup Pos]
Call   == [on : Piece, at : Pos, length : Pos]

Parser ==
  [type : Kind, state : State, flags : Flags, header_state : HeaderState, nread : Nat, content_length : Length,
   http_major : Nat, http_minor : Nat, status_code : Nat, method : Method, upgrade : BOOLEAN, http_errno : Errno]

Types ==
  /\ data \in Seq(Symbol) /\ p \in Pos /\ pc \in Place /\ parser \in Parser
  /\ mark \in Marks /\ calls \in Seq(Call) /\ start \in Pos /\ h_state \in HeaderState

LEMMA TypesAreTypeOK == TypeOK <=> Types
  BY DEF TypeOK, Types, Kind, State, Flags, Length, Errno, Place, Pos, Marks, Call, Parser

LEMMA LenNat == ASSUME data \in Seq(Symbol) PROVE len \in Nat
  BY DEF len

LEMMA NoMarkIsNoPosition == NoMark \notin Pos
  BY DEF NoMark, Pos

-----------------------------------------------------------------------------
\* The parser outside of an error, by its state: in a chunk it knows that the
\* message is chunked and the size does not stand for "unknown"; the loops over
\* names and values have a case for its header state.
ChunkState == {"s_chunk_size_start", "s_chunk_size", "s_chunk_parameters", "s_chunk_size_almost_done",
               "s_chunk_data", "s_chunk_data_almost_done", "s_chunk_data_done"}

Control(q) ==
  /\ q \in Parser /\ q.http_errno = "OK"
  /\ q.state \in ChunkState => "F_CHUNKED" \in q.flags
  /\ q.state \in {"s_chunk_size", "s_chunk_parameters", "s_chunk_size_almost_done"} => q.content_length < ULLONG_MAX
  /\ q.state \in {"s_body_identity", "s_chunk_data"} => q.content_length \notin {0, ULLONG_MAX}
  /\ q.state = "s_chunk_data_almost_done" => q.content_length = 0
  /\ q.state = "s_header_field" => q.header_state \in {"h_general", "h_connection", "h_content_length",
                                                       "h_transfer_encoding", "h_upgrade"}
  /\ q.state = "s_header_value" => q.header_state \notin {"h_connection", "h_transfer_encoding"}

Special == ChunkState \cup {"s_body_identity", "s_header_field", "s_header_value"}

LEMMA PlainControl ==
  ASSUME NEW q \in Parser, q.http_errno = "OK", q.state \notin Special PROVE Control(q)
  BY DEF Control, Special, ChunkState

-----------------------------------------------------------------------------
\* The piece that may be open in a state.
PieceOf(s) ==
  CASE s \in UrlState -> "url"
    [] s = "s_res_status" -> "status"
    [] s = "s_header_field" -> "header_field"
    [] s = "s_header_value" -> "header_value"
    [] s \in {"s_body_identity", "s_body_identity_eof", "s_chunk_data", "s_chunk_data_almost_done"} -> "body"
    [] OTHER -> "none"

\* The states behind a name that wait for a value, and those behind a value.
Pending == {"s_header_value_discard_ws", "s_header_value_discard_ws_almost_done", "s_header_value_discard_lws",
            "s_header_value_start", "s_header_value"}
Ended   == {"s_header_almost_done", "s_header_value_lws"}

\* Where the last piece handed over ends, and what it was.
Ends   == IF calls = <<>> THEN 0 ELSE calls[Len(calls)].at + calls[Len(calls)].length
LastOn == IF calls = <<>> THEN "none" ELSE calls[Len(calls)].on

\* What is open and what was handed over in state s at position n.  A body that
\* is complete was handed over with the byte that is read again.
Shape(s, n) ==
  /\ \A f \in Piece : mark[f] # NoMark => f = PieceOf(s) /\ Ends <= mark[f] /\ mark[f] < n
  /\ Ends <= IF s = "s_message_done" THEN n + 1 ELSE n
  /\ s \in {"s_header_field", "s_header_value"} => mark[PieceOf(s)] # NoMark
  /\ s \in Pending => LastOn \in {"header_field", "header_value"}
  /\ s \in Ended => LastOn = "header_value"
  /\ LastOn = "header_field" => s \in Pending

\* State t may follow s when nothing is handed over and no piece begins.
Follows(s, t) ==
  /\ PieceOf(s) \in {PieceOf(t), "none"}
  /\ t \in {"s_header_field", "s_header_value"} => t = s
  /\ t \in Pending => s \in Pending \cup Ended
  /\ t \in Ended => s \in Ended
  /\ s \in Pending => t \in Pending

\* The inductive invariant.
Running ==
  /\ Control(parser) /\ Shape(parser.state, p)
  /\ parser.state = "s_chunk_size_start" => parser.nread = IF pc = "switch" THEN 1 ELSE 0
  /\ parser.state = "s_message_done" => pc = "switch"

InLoop == parser.state = "s_header_value" /\ start <= p /\ h_state \notin {"h_connection", "h_transfer_encoding"}

ParserInv ==
  /\ Types /\ CallsInOrder
  /\ pc # "done" => Running
  /\ pc = "switch" => p < len
  /\ pc = "value" => InLoop

-----------------------------------------------------------------------------
\* Handing over one more piece.
LEMMA AppendOrder ==
  ASSUME Types, CallsInOrder, data' = data, NEW c \in Call, calls' = Append(calls, c), c.at + c.length <= len,
         c.length = 0 => c.on = "header_value", Ends <= c.at,
         c.on = "header_value" => LastOn \in {"header_field", "header_value"},
         c.on # "header_value" => LastOn # "header_field"
  PROVE  calls' \in Seq(Call)' /\ CallsInOrder' /\ Ends' = c.at + c.length /\ LastOn' = c.on
<1> DEFINE n == Len(calls)
<1>1. calls \in Seq(Call) /\ n \in Nat /\ Pos' = Pos /\ len' = len
  BY DEF Types, Pos, len
<1>2. /\ Len(calls') = n + 1 /\ calls'[n + 1] = c /\ \A i \in 1..n : calls'[i] = calls[i]
      /\ calls' \in Seq(Call) /\ calls' # <<>>
  BY <1>1
<1>3. calls' \in Seq(Call)'
  BY <1>1, <1>2 DEF Call
<1>4. Ends' = c.at + c.length /\ LastOn' = c.on
  BY <1>2 DEF Ends, LastOn
<1>5. calls = <<>> <=> n = 0
  BY <1>1
<1>6. calls # <<>> => Ends = calls[n].at + calls[n].length /\ LastOn = calls[n].on
  BY DEF Ends, LastOn
<1>7. calls = <<>> => LastOn = "none"
  BY DEF LastOn
<1> HIDE DEF n
<1>8. CallsInOrder'
  <2>1. ASSUME NEW i \in 1..(n + 1)
        PROVE  /\ calls'[i].at + calls'[i].length <= len
               /\ calls'[i].length = 0 => calls'[i].on = "header_value"
               /\ i > 1 => calls'[i - 1].at + calls'[i - 1].length <= calls'[i].at
               /\ calls'[i].on = "header_value" => i > 1 /\ calls'[i - 1].on \in {"header_field", "header_value"}
               /\ calls'[i].on = "header_field" /\ i < n + 1 => calls'[i + 1].on = "header_value"
    <3>1. CASE i = n + 1
      <4>1. calls'[i] = c /\ (i > 1 => calls'[i - 1] = calls[n] /\ n # 0)
        BY <1>1, <1>2, <3>1
      <4>2. i > 1 => calls'[i - 1].at + calls'[i - 1].length <= calls'[i].at
        BY <1>5, <1>6, <4>1
      <4>3. calls'[i].on = "header_value" => i > 1 /\ calls'[i - 1].on \in {"header_field", "header_value"}
        <5>1. c.on = "header_value" => n # 0
          BY <1>5, <1>7
        <5>2. n # 0 => i > 1
          BY <1>1, <3>1
        <5>3. n # 0 => calls[n].on = LastOn
          BY <1>5, <1>6
        <5> QED BY <4>1, <5>1, <5>2, <5>3
      <4>4. ~(i < n + 1)
        BY <1>1, <3>1
      <4> QED BY <4>1, <4>2, <4>3, <4>4
    <3>2. CASE i # n + 1
      <4>1. i \in 1..n /\ calls'[i] = calls[i] /\ (i > 1 => i - 1 \in 1..n /\ calls'[i - 1] = calls[i - 1])
        BY <1>1, <1>2, <3>2
      <4>2. CASE i = n
        <5>1. calls'[i + 1] = c /\ n # 0
          BY <1>1, <1>2, <4>1, <4>2
        <5>2. calls'[i].on = "header_field" => c.on = "header_value"
          BY <1>5, <1>6, <4>1, <4>2, <5>1
        <5> QED BY <4>1, <5>1, <5>2 DEF CallsInOrder, n
      <4>3. CASE i # n
        <5>1. i < n /\ i + 1 \in 1..n /\ calls'[i + 1] = calls[i + 1]
          BY <1>1, <1>2, <4>1, <4>3
        <5> QED BY <4>1, <5>1 DEF CallsInOrder, n
      <4> QED BY <4>2, <4>3
    <3> QED BY <3>1, <3>2
  <2> QED BY <1>1, <1>2, <2>1 DEF CallsInOrder
<1> QED BY <1>3, <1>4, <1>8

LEMMA EndsNat == ASSUME Types PROVE Ends \in Nat
<1>1. CASE calls = <<>>
  BY <1>1 DEF Ends
<1>2. CASE calls # <<>>
  <2>1. calls[Len(calls)] \in Call
    BY <1>2 DEF Types
  <2>2. calls[Len(calls)].at \in Nat /\ calls[Len(calls)].length \in Nat
    BY <2>1 DEF Call, Pos
  <2> QED BY <1>2, <2>2 DEF Ends
<1> QED BY <1>1, <1>2

\* What Shape says, apart from the marks.
LEMMA ShapeFacts ==
  ASSUME NEW s, NEW n \in Nat, Shape(s, n)
  PROVE  /\ Ends <= IF s = "s_message_done" THEN n + 1 ELSE n
         /\ s \in {"s_header_field", "s_header_value"} => mark[PieceOf(s)] # NoMark
         /\ s \in Pending => LastOn \in {"header_field", "header_value"}
         /\ s \in Ended => LastOn = "header_value"
         /\ LastOn = "header_field" => s \in Pending
  BY DEF Shape

\* Nothing is handed over and no piece begins.
LEMMA SilentShape ==
  ASSUME Types, Shape(parser.state, p), Silent, Follows(parser.state, parser'.state), p' \in Nat, p' >= p,
         parser.state = "s_message_done" => p' >= p + 1
  PROVE  Shape(parser.state, p)'
<1> DEFINE s == parser.state
           t == parser'.state
<1>1. mark' = mark /\ calls' = calls /\ Ends' = Ends /\ LastOn' = LastOn
  BY DEF Silent, outVars, Ends, LastOn
<1>2. p \in Nat /\ len \in Nat
  BY LenNat DEF Types, Pos
<1>3. Ends \in Nat
  BY EndsNat
<1>4. \A f \in Piece : mark[f] # NoMark => mark[f] \in Nat
  BY DEF Types, Marks, Pos
<1>5. Follows(s, t) /\ Shape(s, p) /\ (s = "s_message_done" => p' >= p + 1)
  OBVIOUS
<1> HIDE DEF s, t
<1>6. "none" \notin Piece
  BY DEF Piece
<1>7. \A f \in Piece : mark[f] # NoMark => f = PieceOf(t) /\ Ends <= mark[f] /\ mark[f] < p'
  BY <1>2, <1>4, <1>5, <1>6 DEF Shape, Follows
<1>8. Ends <= IF t = "s_message_done" THEN p' + 1 ELSE p'
  <2>1. Ends <= IF s = "s_message_done" THEN p + 1 ELSE p
    BY <1>2, <1>5, ShapeFacts
  <2>2. Ends <= p'
    BY <1>2, <1>3, <1>5, <2>1
  <2>3. Ends <= p' + 1
    <3>1. \A i, j \in Nat : i <= j => i <= j + 1
      OBVIOUS
    <3> QED BY ONLY <1>3, <2>2, <3>1, p' \in Nat
  <2> QED BY <2>2, <2>3
<1>9. /\ t \in {"s_header_field", "s_header_value"} => mark[PieceOf(t)] # NoMark
      /\ t \in Pending => LastOn \in {"header_field", "header_value"}
      /\ t \in Ended => LastOn = "header_value"
      /\ LastOn = "header_field" => t \in Pending
  BY <1>5 DEF Shape, Follows
<1> QED BY <1>1, <1>7, <1>8, <1>9 DEF Shape, t

\* A piece begins, or goes on.
LEMMA MarkShape ==
  ASSUME Types, Shape(parser.state, p), NEW f \in Piece, MARK(f), p' \in Nat, p' > p,
         PieceOf(parser.state) \in {f, "none"}, PieceOf(parser'.state) = f,
         (parser.state \in Pending \cup Ended) <=> (parser'.state \in Pending), parser'.state \notin Ended,
         parser.state # "s_message_done"
  PROVE  mark' \in Marks /\ Shape(parser.state, p)'
<1> DEFINE s == parser.state
           t == parser'.state
<1>1. calls' = calls /\ Ends' = Ends /\ LastOn' = LastOn
  BY DEF MARK, Ends, LastOn
<1>2. p \in Nat /\ len \in Nat /\ p \in Pos
  BY LenNat DEF Types, Pos
<1>3. Ends \in Nat
  BY EndsNat
<1>4. mark \in Marks /\ \A g \in Piece : mark[g] # NoMark => mark[g] \in Nat
  BY DEF Types, Marks, Pos
<1>5. mark' \in Marks
  BY <1>2, <1>4 DEF MARK, Marks
<1>6. \A g \in Piece : mark'[g] = IF g = f /\ mark[g] = NoMark THEN p ELSE mark[g]
  BY <1>4 DEF MARK, Marks
<1>7. /\ Shape(s, p) /\ s # "s_message_done" /\ PieceOf(s) \in {f, "none"} /\ PieceOf(t) = f
      /\ (s \in Pending \cup Ended <=> t \in Pending)
      /\ t \notin Ended
  OBVIOUS
<1>8. "none" \notin Piece /\ p # NoMark
  BY <1>2 DEF Piece, NoMark
<1>9. t # "s_message_done"
  BY <1>7 DEF PieceOf, UrlState, Piece
<1> HIDE DEF s, t
<1>10. \A g \in Piece : mark'[g] # NoMark => g = PieceOf(t) /\ Ends <= mark'[g] /\ mark'[g] < p'
  BY <1>2, <1>3, <1>4, <1>6, <1>7, <1>8 DEF Shape
<1>11. Ends <= p'
  BY <1>2, <1>3, <1>7 DEF Shape
<1>12. mark'[PieceOf(t)] # NoMark
  BY <1>6, <1>7, <1>8
<1>13. /\ t \in Pending => LastOn \in {"header_field", "header_value"}
       /\ LastOn = "header_field" => t \in Pending
  BY <1>2, <1>7, ShapeFacts
<1> QED BY <1>1, <1>5, <1>7, <1>9, <1>10, <1>11, <1>12, <1>13 DEF Shape, t

\* The piece that is open is handed over, up to position q.
LEMMA CallbackOrder ==
  ASSUME Types, CallsInOrder, data' = data, Shape(parser.state, p), NEW f \in Piece, NEW q \in p..len,
         mark[f] # NoMark, Callback(f, q)
  PROVE  /\ calls' \in Seq(Call)' /\ mark' \in Marks /\ CallsInOrder'
         /\ \A g \in Piece : mark'[g] = NoMark
         /\ Ends' = q /\ LastOn' = f
<1> DEFINE c == [on |-> f, at |-> mark[f], length |-> q - mark[f]]
<1>1. calls' = Append(calls, c) /\ mark' = [mark EXCEPT ![f] = NoMark]
  BY DEF Callback
<1>2. len \in Nat /\ p \in Nat /\ q \in Nat /\ q <= len /\ p <= q
  BY LenNat DEF Types, Pos
<1>3. mark \in Marks /\ mark[f] \in Pos /\ mark[f] \in Nat
  BY DEF Types, Marks, Pos
<1>4. f = PieceOf(parser.state) /\ Ends <= mark[f] /\ mark[f] < p
  BY DEF Shape
<1>5. q - mark[f] \in Pos /\ mark[f] + (q - mark[f]) = q /\ q - mark[f] > 0
  BY <1>2, <1>3, <1>4 DEF Pos
<1>6. c \in Call /\ c.at = mark[f] /\ c.length > 0 /\ c.at + c.length = q /\ c.on = f
  BY <1>3, <1>5 DEF Call
<1>7. c.on = "header_value" => LastOn \in {"header_field", "header_value"}
  <2>1. f = "header_value" => parser.state = "s_header_value"
    BY <1>4 DEF PieceOf
  <2> QED BY <1>6, <2>1 DEF Shape, Pending
<1>8. c.on # "header_value" => LastOn # "header_field"
  <2>1. f # "header_value" => parser.state \notin Pending
    BY <1>4 DEF PieceOf, Pending, UrlState, Piece
  <2> QED BY <1>6, <2>1 DEF Shape
<1> HIDE DEF c
<1>9. calls' \in Seq(Call)' /\ CallsInOrder' /\ Ends' = c.at + c.length /\ LastOn' = c.on
  <2>1. c.at + c.length <= len /\ c.length # 0 /\ Ends <= c.at
    BY <1>2, <1>4, <1>6
  <2> QED BY <1>1, <1>6, <1>7, <1>8, <2>1, AppendOrder
<1>10. mark' \in Marks /\ \A g \in Piece : mark'[g] = NoMark
  BY <1>1, <1>3, <1>4 DEF Marks, Shape
<1> QED BY <1>6, <1>9, <1>10

\* CALLBACK_DATA behind a piece, in the state that ends it.
LEMMA CallbackShape ==
  ASSUME Types, CallsInOrder, data' = data, Shape(parser.state, p), NEW f \in Piece, PieceOf(parser.state) = f,
         NEW q \in p..len, Callback(f, q), p' \in Nat, p' >= q,
         parser'.state \notin {"s_header_field", "s_header_value"},
         f = "header_field" => parser'.state \in Pending,
         f = "header_value" => parser'.state \in Ended,
         f \notin {"header_field", "header_value"} => parser'.state \notin Pending \cup Ended
  PROVE  calls' \in Seq(Call)' /\ mark' \in Marks /\ CallsInOrder' /\ Shape(parser.state, p)'
<1> DEFINE s == parser.state
           t == parser'.state
<1>1. p \in Nat /\ q \in Nat /\ p <= q /\ len \in Nat
  BY LenNat DEF Types, Pos
<1>2. Pending \cap Ended = {}
  BY DEF Pending, Ended
<1>3. CASE mark[f] # NoMark
  <2>1. /\ calls' \in Seq(Call)' /\ mark' \in Marks /\ CallsInOrder'
        /\ \A g \in Piece : mark'[g] = NoMark
        /\ Ends' = q /\ LastOn' = f
    BY <1>3, CallbackOrder
  <2>2. Ends' <= IF t = "s_message_done" THEN p' + 1 ELSE p'
    <3>1. \A i, j \in Nat : i <= j => i <= j + 1
      OBVIOUS
    <3>2. q <= p' /\ q <= p' + 1
      BY ONLY <1>1, <3>1, p' \in Nat, p' >= q
    <3> QED BY <2>1, <3>2
  <2>3. /\ t \in Pending => LastOn' \in {"header_field", "header_value"}
        /\ t \in Ended => LastOn' = "header_value"
        /\ LastOn' = "header_field" => t \in Pending
    BY <1>2, <2>1
  <2> QED BY <2>1, <2>2, <2>3 DEF Shape
<1>4. CASE mark[f] = NoMark
  <2>1. Silent /\ calls' = calls /\ mark' = mark /\ Ends' = Ends /\ LastOn' = LastOn
    BY <1>4 DEF Callback, Silent, outVars, Ends, LastOn
  <2>2. s \notin {"s_header_field", "s_header_value"}
    BY <1>1, <1>4, ShapeFacts
  <2>3. f \notin {"header_field", "header_value"} /\ s \notin Pending \cup Ended /\ s # "s_message_done"
    BY <2>2 DEF PieceOf, Pending, Ended, UrlState, Piece
  <2>4. \A g \in Piece : mark'[g] = NoMark
    BY <1>4, <2>1 DEF Shape
  <2>5. Ends' <= IF t = "s_message_done" THEN p' + 1 ELSE p'
    <3>1. Ends \in Nat /\ Ends <= p
      BY <1>1, <2>3, EndsNat, ShapeFacts
    <3>2. \A i, j, k \in Nat : i <= j /\ j <= k => i <= k /\ i <= k + 1
      OBVIOUS
    <3>3. p <= p'
      BY <1>1
    <3>4. Ends <= p' /\ Ends <= p' + 1
      BY ONLY <1>1, <3>1, <3>2, <3>3, p' \in Nat
    <3> QED BY <2>1, <3>4
  <2>6. LastOn' # "header_field" /\ t \notin Pending \cup Ended
    BY <1>1, <2>1, <2>3, ShapeFacts
  <2>7. calls' \in Seq(Call)' /\ mark' \in Marks /\ CallsInOrder'
    BY <2>1 DEF Types, Call, Pos, len, CallsInOrder
  <2> QED BY <2>4, <2>5, <2>6, <2>7 DEF Shape
<1> QED BY <1>3, <1>4

-----------------------------------------------------------------------------
\* How a pass through the switch ends, one lemma for each way.
LEMMA SameData ==
  ASSUME data' = data PROVE len' = len /\ Pos' = Pos /\ Marks' = Marks /\ Call' = Call
  BY DEF len, Pos, Marks, Call

LEMMA SameCalls ==
  ASSUME Types, CallsInOrder, data' = data, Silent
  PROVE  mark' \in Marks' /\ calls' \in Seq(Call)' /\ CallsInOrder'
  BY SameData DEF Types, Silent, outVars, CallsInOrder

LEMMA SwitchFacts ==
  ASSUME ParserInv, pc = "switch"
  PROVE  /\ Types /\ CallsInOrder /\ Running /\ Control(parser) /\ Shape(parser.state, p)
         /\ p \in Nat /\ len \in Nat /\ p < len /\ p + 1 \in Pos /\ p + 1 \in Nat
         /\ parser \in Parser /\ parser.http_errno = "OK"
<1>1. Types /\ CallsInOrder /\ Running /\ Control(parser) /\ Shape(parser.state, p) /\ p < len
  BY DEF ParserInv, Running
<1>2. p \in Nat /\ len \in Nat
  BY <1>1, LenNat DEF Types, Pos
<1>3. p + 1 \in Pos /\ p + 1 \in Nat
  BY <1>1, <1>2 DEF Pos
<1> QED BY <1>1, <1>2, <1>3 DEF Control

\* An error, and the end of a message before an upgrade: the call returns.
LEMMA ErrorInv ==
  ASSUME ParserInv, NEW q \in Parser, NEW e \in Errno, Error(q, e) PROVE ParserInv'
<1>1. data' = data /\ UNCHANGED <<p, mark, calls, start, h_state>> /\ pc' = "done" /\ Types /\ CallsInOrder /\ Silent
  BY DEF Error, ParserInv, outVars, localVars, Silent
<1>2. parser' \in Parser
  BY DEF Error, Parser
<1>3. Types'
  BY <1>1, <1>2, SameData, SameCalls DEF Types, Place
<1> QED BY <1>1, <1>3, SameCalls DEF ParserInv

LEMMA ReturnInv ==
  ASSUME ParserInv, pc = "switch", NEW q \in Parser, Return(q), Silent PROVE ParserInv'
<1>1. data' = data /\ UNCHANGED <<start, h_state>> /\ pc' = "done" /\ Types /\ CallsInOrder /\ p' = p + 1 /\ parser' = q
  BY DEF Return, ParserInv, localVars
<1>2. Types'
  BY <1>1, SameData, SameCalls, SwitchFacts DEF Types, Place
<1> QED BY <1>1, <1>2, SameCalls DEF ParserInv

\* The next byte, once the output is known to fit.
LEMMA GoOnInv ==
  ASSUME ParserInv, data' = data, UNCHANGED localVars, pc' = "next", p' \in Pos,
         NEW q, parser' = q, Control(q), q.state # "s_message_done", q.state = "s_chunk_size_start" => q.nread = 0,
         mark' \in Marks, calls' \in Seq(Call)', CallsInOrder', Shape(parser.state, p)'
  PROVE  ParserInv'
<1>1. Types'
  BY SameData DEF ParserInv, Types, localVars, Place, Control
<1>2. Running'
  BY DEF Running, Control
<1> QED BY <1>1, <1>2 DEF ParserInv

\* break, without output, with a piece begun, and with a piece handed over.
LEMMA BreakSilent ==
  ASSUME ParserInv, pc = "switch", NEW q, Break(q), Silent, Control(q), Follows(parser.state, q.state),
         q.state # "s_message_done", q.state = "s_chunk_size_start" => q.nread = 0
  PROVE  ParserInv'
<1>1. data' = data /\ UNCHANGED localVars /\ pc' = "next" /\ p' = p + 1 /\ parser' = q
  BY DEF Break
<1>2. Types /\ Shape(parser.state, p) /\ p \in Nat /\ p + 1 \in Pos /\ p + 1 \in Nat /\ CallsInOrder
  BY SwitchFacts
<1>3. p' \in Nat /\ p' >= p /\ p' >= p + 1
  BY <1>1, <1>2
<1>4. Shape(parser.state, p)'
  BY <1>1, <1>2, <1>3, SilentShape
<1> QED BY <1>1, <1>2, <1>4, SameCalls, SameData, GoOnInv

LEMMA BreakMark ==
  ASSUME ParserInv, pc = "switch", NEW q, NEW f \in Piece, Break(q), MARK(f), Control(q),
         PieceOf(parser.state) \in {f, "none"}, PieceOf(q.state) = f,
         (parser.state \in Pending \cup Ended) <=> (q.state \in Pending), q.state \notin Ended,
         parser.state # "s_message_done", q.state # "s_message_done", q.state # "s_chunk_size_start"
  PROVE  ParserInv'
<1>1. data' = data /\ UNCHANGED localVars /\ pc' = "next" /\ p' = p + 1 /\ parser' = q
  BY DEF Break
<1>2. Types /\ Shape(parser.state, p) /\ p \in Nat /\ p + 1 \in Pos /\ p + 1 \in Nat /\ CallsInOrder
  BY SwitchFacts
<1>3. p' \in Nat /\ p' > p
  BY <1>1, <1>2
<1>4. mark' \in Marks /\ Shape(parser.state, p)'
  BY <1>1, <1>2, <1>3, MarkShape
<1>5. calls' \in Seq(Call)' /\ CallsInOrder'
  BY <1>1, <1>2, SameData DEF MARK, Types, CallsInOrder
<1> QED BY <1>1, <1>2, <1>4, <1>5, GoOnInv

LEMMA BreakCallback ==
  ASSUME ParserInv, pc = "switch", NEW q, NEW f \in Piece, Break(q), Callback(f, p), Control(q),
         PieceOf(parser.state) = f, f \notin {"header_field", "header_value"},
         q.state \notin {"s_header_field", "s_header_value"}, q.state \notin Pending \cup Ended,
         q.state # "s_message_done", q.state # "s_chunk_size_start"
  PROVE  ParserInv'
<1>1. data' = data /\ UNCHANGED localVars /\ pc' = "next" /\ p' = p + 1 /\ parser' = q
  BY DEF Break
<1>2. /\ Types /\ Shape(parser.state, p) /\ p \in Nat /\ p + 1 \in Pos /\ p + 1 \in Nat /\ CallsInOrder
      /\ len \in Nat /\ p < len
  BY SwitchFacts
<1>3. p' \in Nat /\ p' >= p /\ p \in p..len
  BY <1>1, <1>2
<1>4. calls' \in Seq(Call)' /\ mark' \in Marks /\ CallsInOrder' /\ Shape(parser.state, p)'
  BY <1>1, <1>2, <1>3, CallbackShape
<1> QED BY <1>1, <1>2, <1>4, GoOnInv

\* REEXECUTE: the same byte in another state.
LEMMA ReexecuteInv ==
  ASSUME ParserInv, p < len, NEW q, Reexecute(q), Control(q), q.state # "s_chunk_size_start",
         mark' \in Marks, calls' \in Seq(Call)', CallsInOrder', Shape(parser.state, p)'
  PROVE  ParserInv'
<1>1. data' = data /\ UNCHANGED <<p, start, h_state>> /\ pc' = "switch" /\ parser' = q
  BY DEF Reexecute, localVars
<1>2. Types'
  BY <1>1, SameData DEF ParserInv, Types, Place, Control
<1>3. Running' /\ p' < len'
  BY <1>1, SameData DEF Running
<1> QED BY <1>1, <1>2, <1>3 DEF ParserInv

LEMMA ReexecuteSilent ==
  ASSUME ParserInv, pc = "switch", NEW q, Reexecute(q), Silent, Control(q), Follows(parser.state, q.state),
         parser.state # "s_message_done", q.state # "s_chunk_size_start"
  PROVE  ParserInv'
<1>1. data' = data /\ p' = p /\ parser' = q
  BY DEF Reexecute
<1>2. Types /\ Shape(parser.state, p) /\ p \in Nat /\ p < len /\ CallsInOrder
  BY SwitchFacts
<1>3. p' \in Nat /\ p' >= p
  BY <1>1, <1>2
<1>4. Shape(parser.state, p)'
  BY <1>1, <1>2, <1>3, SilentShape
<1> QED BY <1>1, <1>2, <1>4, SameCalls, SameData, ReexecuteInv

-----------------------------------------------------------------------------
\* What the actions assign to the parser.
LEMMA ToFacts ==
  ASSUME parser \in Parser, NEW s \in State
  PROVE  /\ To(s) \in Parser /\ To(s).state = s /\ To(s).http_errno = parser.http_errno
         /\ To(s).flags = parser.flags /\ To(s).content_length = parser.content_length
         /\ To(s).header_state = parser.header_state /\ To(s).nread = parser.nread
  BY DEF Parser, To

LEMMA FreshFacts ==
  ASSUME parser \in Parser PROVE Fresh \in Parser /\ Fresh.http_errno = parser.http_errno /\ Fresh.state = parser.state
<1>1. ULLONG_MAX \in Length /\ {} \in Flags
  BY WidthAssumption DEF Length, Flags
<1> QED BY <1>1 DEF Parser, Fresh

LEMMA DigitValue ==
  ASSUME NEW c PROVE /\ IS_HEX(c) => unhex(c) \in 0..15
                     /\ IS_NUM(c) => IS_HEX(c)
<1>1. ASSUME IS_HEX(c) PROVE unhex(c) \in 0..15
  <2>1. PICK n \in 1..16 : HexDigits[n] = c
    BY <1>1 DEF IS_HEX
  <2>2. n - 1 \in 0..15 /\ HexDigits[(n - 1) + 1] = c
    BY <2>1
  <2> QED BY <2>2 DEF unhex
<1>2. ASSUME IS_NUM(c) PROVE IS_HEX(c)
  <2>1. \A n \in 1..10 : n \in 1..16
    OBVIOUS
  <2>2. \E n \in 1..10 : HexDigits[n] = c
    BY <1>2 DEF IS_NUM, Digit, HexDigits
  <2> QED BY <2>1, <2>2 DEF IS_HEX
<1> QED BY <1>1, <1>2

-----------------------------------------------------------------------------
\* The states without conditions: no piece is open, none is awaited.
Calm == {"s_dead", "s_start_req_or_res", "s_start_res", "s_res_first_http_major", "s_res_http_major",
         "s_res_first_http_minor", "s_res_http_minor", "s_res_first_status_code", "s_res_status_code",
         "s_res_status_start", "s_res_line_almost_done", "s_start_req", "s_req_method",
         "s_req_spaces_before_url", "s_req_http_start", "s_req_first_http_major", "s_req_http_major",
         "s_req_first_http_minor", "s_req_http_minor", "s_req_line_almost_done", "s_header_field_start",
         "s_headers_almost_done", "s_headers_done"}

LEMMA CalmFacts ==
  ASSUME NEW s \in Calm
  PROVE  /\ s \in State /\ s \notin Special /\ PieceOf(s) = "none" /\ s \notin Pending \cup Ended
         /\ s \notin {"s_header_field", "s_header_value", "s_message_done", "s_chunk_size_start"}
  BY DEF Calm, State, HeaderPartState, Special, ChunkState, PieceOf, UrlState, Pending, Ended

LEMMA CalmStep ==
  ASSUME ParserInv, pc = "switch", parser.state \in Calm,
         NEW q \in Parser, q.http_errno = "OK", q.state \in Calm, Silent, Break(q) \/ Reexecute(q)
  PROVE  ParserInv'
<1>1. Control(q)
  BY CalmFacts, PlainControl
<1>2. Follows(parser.state, q.state)
  BY CalmFacts DEF Follows
<1> QED BY <1>1, <1>2, CalmFacts, BreakSilent, ReexecuteSilent

LEMMA CalmTo ==
  ASSUME parser \in Parser, parser.http_errno = "OK", NEW s \in Calm
  PROVE  To(s) \in Parser /\ To(s).http_errno = "OK" /\ To(s).state = s
  BY CalmFacts, ToFacts

LEMMA DeadInv == ASSUME ParserInv, Dead PROVE ParserInv'
<1>1. pc = "switch" /\ parser.state = "s_dead" /\ parser.state \in Calm
  BY DEF Dead, At, Calm
<1>2. parser \in Parser /\ parser.http_errno = "OK"
  BY <1>1, SwitchFacts
<1>3. CASE Break(parser) /\ Silent
  BY <1>1, <1>2, <1>3, CalmStep
<1>4. CASE Error(parser, "CLOSED_CONNECTION")
  <2>1. "CLOSED_CONNECTION" \in Errno
    BY DEF Errno, http_errno
  <2> QED BY <1>2, <1>4, <2>1, ErrorInv
<1> QED BY <1>3, <1>4 DEF Dead

LEMMA StartInv == ASSUME ParserInv, StartReqOrRes \/ StartRes \/ StartReq PROVE ParserInv'
<1>1. pc = "switch" /\ parser.state \in Calm /\ parser \in Parser /\ parser.http_errno = "OK"
  BY SwitchFacts DEF StartReqOrRes, StartRes, StartReq, At, Calm
<1>2. Fresh \in Parser /\ Fresh.http_errno = "OK" /\ Fresh.state \in Calm
  BY <1>1, FreshFacts
<1>4. Calm \subseteq State
  BY CalmFacts
<1>5. /\ {"s_res_first_http_major", "s_req_method", "s_start_req"} \subseteq Calm
      /\ {"HTTP_REQUEST", "HTTP_RESPONSE"} \subseteq Kind /\ "HEAD" \in Method
  BY DEF Calm, Kind, Method
<1>6. CASE StartReqOrRes
  <2>1. Silent
    BY <1>6 DEF StartReqOrRes
  <2>2. CASE Break(parser)
    BY <1>1, <2>1, <2>2, CalmStep
  <2>3. CASE Break([Fresh EXCEPT !.type = "HTTP_RESPONSE", !.state = "s_res_first_http_major"])
    <3> DEFINE q == [Fresh EXCEPT !.type = "HTTP_RESPONSE", !.state = "s_res_first_http_major"]
    <3>1. q \in Parser /\ q.http_errno = "OK" /\ q.state \in Calm
      BY <1>2, <1>4, <1>5, <2>3 DEF Parser
    <3>2. Break(q) /\ Silent
      BY <2>3, <2>1
    <3> HIDE DEF q
    <3> QED BY <1>1, <3>1, <3>2, CalmStep
  <2>4. CASE ch = "HEAD" /\ Break([Fresh EXCEPT !.type = "HTTP_REQUEST", !.method = ch, !.state = "s_req_method"])
    <3> DEFINE q == [Fresh EXCEPT !.type = "HTTP_REQUEST", !.method = ch, !.state = "s_req_method"]
    <3>1. q \in Parser /\ q.http_errno = "OK" /\ q.state \in Calm
      BY <1>2, <1>4, <1>5, <2>4 DEF Parser
    <3>2. Break(q) /\ Silent
      BY <2>4, <2>1
    <3> HIDE DEF q
    <3> QED BY <1>1, <3>1, <3>2, CalmStep
  <2>5. CASE Reexecute([Fresh EXCEPT !.type = "HTTP_REQUEST", !.state = "s_start_req"])
    <3> DEFINE q == [Fresh EXCEPT !.type = "HTTP_REQUEST", !.state = "s_start_req"]
    <3>1. q \in Parser /\ q.http_errno = "OK" /\ q.state \in Calm
      BY <1>2, <1>4, <1>5, <2>5 DEF Parser
    <3>2. Reexecute(q) /\ Silent
      BY <2>5, <2>1
    <3> HIDE DEF q
    <3> QED BY <1>1, <3>1, <3>2, CalmStep
  <2> QED BY <1>6, <2>2, <2>3, <2>4, <2>5 DEF StartReqOrRes
<1>7. CASE StartRes
  <2>1. CASE Break(Fresh) /\ Silent
    BY <1>1, <1>2, <2>1, CalmStep
  <2>2. CASE Break([Fresh EXCEPT !.state = "s_res_first_http_major"]) /\ Silent
    <3> DEFINE q == [Fresh EXCEPT !.state = "s_res_first_http_major"]
    <3>1. q \in Parser /\ q.http_errno = "OK" /\ q.state \in Calm
      BY <1>2, <1>4, <1>5, <2>2 DEF Parser
    <3>2. Break(q) /\ Silent
      BY <2>2
    <3> HIDE DEF q
    <3> QED BY <1>1, <3>1, <3>2, CalmStep
  <2>3. CASE Error(Fresh, "INVALID_CONSTANT")
    <3>1. "INVALID_CONSTANT" \in Errno
      BY DEF Errno, http_errno
    <3> QED BY <1>2, <2>3, <3>1, ErrorInv
  <2> QED BY <1>7, <2>1, <2>2, <2>3 DEF StartRes
<1>8. CASE StartReq
  <2>1. CASE Break(parser) /\ Silent
    BY <1>1, <2>1, CalmStep
  <2>2. CASE ch \in Method /\ Break([Fresh EXCEPT !.method = ch, !.state = "s_req_method"]) /\ Silent
    <3> DEFINE q == [Fresh EXCEPT !.method = ch, !.state = "s_req_method"]
    <3>1. q \in Parser /\ q.http_errno = "OK" /\ q.state \in Calm
      BY <1>2, <1>4, <1>5, <2>2 DEF Parser
    <3>2. Break(q) /\ Silent
      BY <2>2
    <3> HIDE DEF q
    <3> QED BY <1>1, <3>1, <3>2, CalmStep
  <2>3. CASE Error(Fresh, "INVALID_METHOD")
    <3>1. "INVALID_METHOD" \in Errno
      BY DEF Errno, http_errno
    <3> QED BY <1>2, <2>3, <3>1, ErrorInv
  <2> QED BY <1>8, <2>1, <2>2, <2>3 DEF StartReq
<1> QED BY <1>6, <1>7, <1>8

\* The two ends of most cases: another calm state, or an error.
LEMMA CalmMove ==
  ASSUME ParserInv, pc = "switch", parser.state \in Calm, NEW s \in Calm, Silent, Break(To(s)) \/ Reexecute(To(s))
  PROVE  ParserInv'
<1> DEFINE q == To(s)
<1>1. q \in Parser /\ q.http_errno = "OK" /\ q.state \in Calm
  BY SwitchFacts, CalmTo
<1>2. Break(q) \/ Reexecute(q)
  OBVIOUS
<1> HIDE DEF q
<1> QED BY <1>1, <1>2, CalmStep

LEMMA CalmBreak ==
  ASSUME ParserInv, pc = "switch", parser.state \in Calm, Silent, Break(parser) PROVE ParserInv'
  BY SwitchFacts, CalmStep

Failures == Errno \ {"OK"}

LEMMA FailHere ==
  ASSUME ParserInv, pc = "switch", \E e \in Failures : Error(parser, e) PROVE ParserInv'
  BY SwitchFacts, ErrorInv DEF Failures

\* The errors of the start line.
LEMMA StartFailures ==
  {"INVALID_METHOD", "INVALID_VERSION", "INVALID_STATUS", "INVALID_CONSTANT", "LF_EXPECTED", "STRICT",
   "INVALID_URL"} \subseteq Failures
  BY DEF Failures, Errno, http_errno

LEMMA MoreDigitsInv ==
  ASSUME ParserInv, pc = "switch", parser.state \in Calm, IS_NUM(ch),
         NEW f \in {"http_major", "http_minor", "status_code"}, NEW e \in Errno, MoreDigits(f, e)
  PROVE  ParserInv'
<1> DEFINE n == 10 * parser[f] + unhex(ch)
           q == [parser EXCEPT ![f] = n]
<1>1. parser \in Parser /\ parser.http_errno = "OK"
  BY SwitchFacts
<1>2. n \in Nat
  <2>1. parser[f] \in Nat
    BY <1>1 DEF Parser
  <2>2. unhex(ch) \in 0..15
    BY DigitValue
  <2> QED BY <2>1, <2>2
<1>3. IF q[f] > 999 THEN Error(q, e) ELSE Break(q) /\ Silent
  BY DEF MoreDigits
<1> HIDE DEF n
<1>4. q \in Parser /\ q.http_errno = "OK" /\ q.state = parser.state
  BY <1>1, <1>2 DEF Parser
<1> HIDE DEF q
<1> QED BY <1>3, <1>4, ErrorInv, CalmStep

LEMMA VersionInv == ASSUME ParserInv, ReqMethod \/ FirstMajor \/ Major \/ FirstMinor \/ Minor PROVE ParserInv'
<1>1. pc = "switch" /\ parser.state \in Calm /\ parser \in Parser /\ parser.http_errno = "OK"
  BY SwitchFacts DEF ReqMethod, FirstMajor, Major, FirstMinor, Minor, At, AtOneOf, Calm
<1>2. CASE ReqMethod
  <2>1. CASE Break(To("s_req_spaces_before_url")) /\ Silent
    <3>1. "s_req_spaces_before_url" \in Calm
      BY DEF Calm
    <3> QED BY <1>1, <2>1, <3>1, CalmMove
  <2>2. CASE Error(parser, "INVALID_METHOD")
    BY <1>1, <2>2, FailHere, StartFailures
  <2> QED BY <1>2, <2>1, <2>2 DEF ReqMethod
<1>3. CASE FirstMajor
  <2>1. CASE Error(parser, "INVALID_VERSION")
    BY <1>1, <2>1, FailHere, StartFailures
  <2>2. ASSUME NEW s \in Calm, IS_NUM(ch), Break([parser EXCEPT !.http_major = unhex(ch), !.state = s]), Silent
        PROVE  ParserInv'
    <3> DEFINE q == [parser EXCEPT !.http_major = unhex(ch), !.state = s]
    <3>1. unhex(ch) \in Nat /\ s \in State
      BY <2>2, DigitValue, CalmFacts
    <3>2. q \in Parser /\ q.http_errno = "OK" /\ q.state \in Calm
      BY <1>1, <3>1 DEF Parser
    <3>3. Break(q) /\ Silent
      BY <2>2
    <3> HIDE DEF q
    <3> QED BY <1>1, <3>2, <3>3, CalmStep
  <2>3. "s_res_http_major" \in Calm /\ "s_req_http_major" \in Calm
    BY DEF Calm
  <2> QED BY <1>3, <2>1, <2>2, <2>3 DEF FirstMajor
<1>4. CASE Major
  <2>1. CASE Error(parser, "INVALID_VERSION")
    BY <1>1, <2>1, FailHere, StartFailures
  <2>2. CASE IS_NUM(ch) /\ MoreDigits("http_major", "INVALID_VERSION")
    BY <1>1, <2>2, MoreDigitsInv, StartFailures DEF Failures
  <2>3. CASE Break(To(IF parser.state = "s_res_http_major" THEN "s_res_first_http_minor" ELSE "s_req_first_http_minor")) /\ Silent
    <3>1. (IF parser.state = "s_res_http_major" THEN "s_res_first_http_minor" ELSE "s_req_first_http_minor") \in Calm
      BY DEF Calm
    <3> QED BY <1>1, <2>3, <3>1, CalmMove
  <2> QED BY <1>4, <2>1, <2>2, <2>3 DEF Major
<1>5. CASE FirstMinor
  <2>1. CASE Error(parser, "INVALID_VERSION")
    BY <1>1, <2>1, FailHere, StartFailures
  <2>2. ASSUME NEW s \in Calm, IS_NUM(ch), Break([parser EXCEPT !.http_minor = unhex(ch), !.state = s]), Silent
        PROVE  ParserInv'
    <3> DEFINE q == [parser EXCEPT !.http_minor = unhex(ch), !.state = s]
    <3>1. unhex(ch) \in Nat /\ s \in State
      BY <2>2, DigitValue, CalmFacts
    <3>2. q \in Parser /\ q.http_errno = "OK" /\ q.state \in Calm
      BY <1>1, <3>1 DEF Parser
    <3>3. Break(q) /\ Silent
      BY <2>2
    <3> HIDE DEF q
    <3> QED BY <1>1, <3>2, <3>3, CalmStep
  <2>3. "s_res_http_minor" \in Calm /\ "s_req_http_minor" \in Calm
    BY DEF Calm
  <2> QED BY <1>5, <2>1, <2>2, <2>3 DEF FirstMinor
<1>6. CASE Minor
  <2>1. CASE Error(parser, "INVALID_VERSION")
    BY <1>1, <2>1, FailHere, StartFailures
  <2>2. CASE IS_NUM(ch) /\ MoreDigits("http_minor", "INVALID_VERSION")
    BY <1>1, <2>2, MoreDigitsInv, StartFailures DEF Failures
  <2>3. CASE \E s \in {"s_res_first_status_code", "s_req_line_almost_done", "s_header_field_start"} : Break(To(s)) /\ Silent
    <3>1. {"s_res_first_status_code", "s_req_line_almost_done", "s_header_field_start"} \subseteq Calm
      BY DEF Calm
    <3> QED BY <1>1, <2>3, <3>1, CalmMove
  <2> QED BY <1>6, <2>1, <2>2, <2>3 DEF Minor
<1> QED BY <1>2, <1>3, <1>4, <1>5, <1>6

LEMMA StatusCodeInv ==
  ASSUME ParserInv, FirstStatusCode \/ StatusCode \/ ResLineAlmostDone \/ ReqHttpStart \/ ReqLineAlmostDone
  PROVE  ParserInv'
<1>1. pc = "switch" /\ parser.state \in Calm /\ parser \in Parser /\ parser.http_errno = "OK"
  BY SwitchFacts DEF FirstStatusCode, StatusCode, ResLineAlmostDone, ReqHttpStart, ReqLineAlmostDone, At, Calm
<1>2. CASE \E e \in Failures : Error(parser, e)
  BY <1>1, <1>2, FailHere
<1>3. CASE \E s \in Calm : Break(To(s)) /\ Silent
  BY <1>1, <1>3, CalmMove
<1>4. CASE Break(parser) /\ Silent
  BY <1>1, <1>4, CalmBreak
<1>5. CASE IS_NUM(ch) /\ MoreDigits("status_code", "INVALID_STATUS")
  BY <1>1, <1>5, MoreDigitsInv, StartFailures DEF Failures
<1>6. CASE IS_NUM(ch) /\ Break([parser EXCEPT !.status_code = unhex(ch), !.state = "s_res_status_code"]) /\ Silent
  <2> DEFINE q == [parser EXCEPT !.status_code = unhex(ch), !.state = "s_res_status_code"]
  <2>1. unhex(ch) \in Nat /\ "s_res_status_code" \in State /\ "s_res_status_code" \in Calm
    BY <1>6, DigitValue, CalmFacts DEF Calm
  <2>2. q \in Parser /\ q.http_errno = "OK" /\ q.state \in Calm
    BY <1>1, <2>1 DEF Parser
  <2>3. Break(q) /\ Silent
    BY <1>6
  <2> HIDE DEF q
  <2> QED BY <1>1, <2>2, <2>3, CalmStep
<1>7. {"s_res_status_start", "s_res_line_almost_done", "s_header_field_start", "s_req_first_http_major"} \subseteq Calm
  BY DEF Calm
<1>8. FirstStatusCode => ParserInv'
  BY <1>2, <1>4, <1>6, StartFailures DEF FirstStatusCode
<1>9. StatusCode => ParserInv'
  BY <1>2, <1>3, <1>5, <1>7, StartFailures DEF StatusCode
<1>10. ResLineAlmostDone \/ ReqHttpStart \/ ReqLineAlmostDone => ParserInv'
  BY <1>2, <1>3, <1>4, <1>7, StartFailures DEF ResLineAlmostDone, ReqHttpStart, ReqLineAlmostDone
<1> QED BY <1>8, <1>9, <1>10

-----------------------------------------------------------------------------
\* The states of a URL and of a reason phrase have a piece and no conditions.
Loose == UrlState \cup {"s_res_status"}

LEMMA LooseFacts ==
  ASSUME NEW s \in Loose
  PROVE  /\ s \in State /\ s \notin Special /\ s \notin Pending \cup Ended
         /\ PieceOf(s) = IF s = "s_res_status" THEN "status" ELSE "url"
         /\ s \notin {"s_header_field", "s_header_value", "s_message_done", "s_chunk_size_start"}
  BY DEF Loose, UrlState, State, HeaderPartState, Special, ChunkState, PieceOf, Pending, Ended

\* From one of them to another of the same piece.
LEMMA LooseMove ==
  ASSUME ParserInv, pc = "switch", parser.state \in Loose, NEW s \in Loose, PieceOf(s) = PieceOf(parser.state),
         Silent, Break(To(s))
  PROVE  ParserInv'
<1> DEFINE q == To(s)
<1>1. q \in Parser /\ q.http_errno = "OK" /\ q.state = s /\ parser \in Parser
  BY SwitchFacts, LooseFacts, ToFacts
<1>2. Control(q)
  BY <1>1, LooseFacts, PlainControl
<1>3. Follows(parser.state, q.state)
  BY <1>1, LooseFacts DEF Follows
<1>4. Break(q)
  OBVIOUS
<1> HIDE DEF q
<1> QED BY <1>1, <1>2, <1>3, <1>4, LooseFacts, BreakSilent

\* Into one of them.
LEMMA LooseMark ==
  ASSUME ParserInv, pc = "switch", parser.state \in Calm, NEW s \in Loose, MARK(PieceOf(s)), Break(To(s))
  PROVE  ParserInv'
<1> DEFINE q == To(s)
           f == PieceOf(s)
<1>1. q \in Parser /\ q.http_errno = "OK" /\ q.state = s /\ parser \in Parser
  BY SwitchFacts, LooseFacts, ToFacts
<1>2. Control(q)
  BY <1>1, LooseFacts, PlainControl
<1>3. f \in Piece /\ PieceOf(q.state) = f /\ MARK(f)
  BY <1>1, LooseFacts DEF Piece
<1>4. Break(q)
  OBVIOUS
<1>5. q.state \notin Pending \cup Ended /\ q.state # "s_message_done" /\ q.state # "s_chunk_size_start"
  BY <1>1, LooseFacts
<1>6. PieceOf(parser.state) = "none" /\ parser.state \notin Pending \cup Ended /\ parser.state # "s_message_done"
  BY CalmFacts
<1> HIDE DEF q, f
<1> QED BY <1>2, <1>3, <1>4, <1>5, <1>6, BreakMark

\* Out of one of them.
LEMMA LooseCallback ==
  ASSUME ParserInv, pc = "switch", parser.state \in Loose, NEW f, f = PieceOf(parser.state), Callback(f, p),
         NEW q \in Parser, q.http_errno = "OK", q.state \in Calm, Break(q)
  PROVE  ParserInv'
<1>1. f \in Piece /\ f \notin {"header_field", "header_value"}
  BY LooseFacts DEF Piece
<1>2. Control(q)
  BY CalmFacts, PlainControl
<1> QED BY <1>1, <1>2, CalmFacts, BreakCallback

LEMMA StatusInv == ASSUME ParserInv, StatusStart \/ Status PROVE ParserInv'
<1>1. /\ "s_res_status" \in Loose /\ PieceOf("s_res_status") = "status"
      /\ {"s_res_status_start", "s_res_line_almost_done", "s_header_field_start"} \subseteq Calm
  BY DEF Loose, Calm, PieceOf, UrlState
<1>2. CASE StatusStart
  <2>1. pc = "switch" /\ parser.state \in Calm
    BY <1>1, <1>2 DEF StatusStart, At
  <2>2. CASE \E s \in Calm : Break(To(s)) /\ Silent
    BY <2>1, <2>2, CalmMove
  <2>3. CASE Break(To("s_res_status")) /\ MARK("status")
    BY <1>1, <2>1, <2>3, LooseMark
  <2> QED BY <1>1, <1>2, <2>2, <2>3 DEF StatusStart
<1>3. CASE Status
  <2>1. pc = "switch" /\ parser.state = "s_res_status" /\ parser \in Parser /\ parser.http_errno = "OK"
    BY <1>3, SwitchFacts DEF Status, At
  <2>2. ASSUME NEW s \in Calm, Break(To(s)), Callback("status", p) PROVE ParserInv'
    <3>1. To(s) \in Parser /\ To(s).http_errno = "OK" /\ To(s).state \in Calm
      BY <2>1, CalmTo
    <3> QED BY <1>1, <2>1, <2>2, <3>1, LooseCallback
  <2>3. CASE Break(parser) /\ Silent
    <3>1. Control(parser) /\ Follows(parser.state, parser.state)
      BY <2>1, SwitchFacts DEF Follows
    <3> QED BY <2>1, <2>3, <3>1, BreakSilent
  <2> QED BY <1>1, <1>3, <2>2, <2>3 DEF Status
<1> QED BY <1>2, <1>3

LEMMA UrlInv == ASSUME ParserInv, ReqSpacesBeforeUrl \/ ReqUrlStart \/ ReqUrl PROVE ParserInv'
<1>1. \A t, c : parse_url_char(t, c) \in UrlState \cup {"s_dead"}
  BY DEF parse_url_char, UrlState
<1>2. /\ \A t \in UrlState : t \in Loose /\ PieceOf(t) = "url"
      /\ {"s_req_http_start", "s_req_line_almost_done", "s_header_field_start", "s_dead",
          "s_req_spaces_before_url"} \subseteq Calm
  <2>1. \A t \in UrlState : t \in Loose
    BY DEF Loose
  <2>2. ASSUME NEW t \in UrlState PROVE PieceOf(t) = "url"
    <3>1. t # "s_res_status"
      BY DEF UrlState
    <3> QED BY <2>1, <3>1, LooseFacts
  <2>3. {"s_req_http_start", "s_req_line_almost_done", "s_header_field_start", "s_dead",
         "s_req_spaces_before_url"} \subseteq Calm
    BY DEF Calm
  <2> QED BY <2>1, <2>2, <2>3
<1>3. ASSUME pc = "switch", Error(To("s_dead"), "INVALID_URL") PROVE ParserInv'
  <2>1. To("s_dead") \in Parser
    BY <1>2, <1>3, SwitchFacts, CalmTo
  <2> QED BY <1>3, <2>1, ErrorInv, StartFailures DEF Failures
<1>4. CASE ReqSpacesBeforeUrl
  <2>1. pc = "switch" /\ parser.state \in Calm
    BY <1>2, <1>4 DEF ReqSpacesBeforeUrl, At
  <2>2. CASE Break(parser) /\ Silent
    BY <2>1, <2>2, CalmBreak
  <2>3. ASSUME NEW t \in UrlState, Break(To(t)), MARK("url") PROVE ParserInv'
    BY <1>2, <2>1, <2>3, LooseMark
  <2> QED BY <1>1, <1>3, <1>4, <2>1, <2>2, <2>3 DEF ReqSpacesBeforeUrl
<1>5. ASSUME pc = "switch", parser.state \in UrlState, UrlChar(parser.state), Silent PROVE ParserInv'
  <2>1. CASE \E t \in UrlState : Break(To(t))
    BY <1>2, <1>5, <2>1, LooseMove
  <2> QED BY <1>1, <1>3, <1>5, <2>1 DEF UrlChar
<1>6. CASE ReqUrlStart
  <2>1. pc = "switch" /\ parser.state \in UrlState
    BY <1>6 DEF ReqUrlStart, AtOneOf, UrlState
  <2> QED BY <1>5, <1>6, <2>1 DEF ReqUrlStart
<1>7. CASE ReqUrl
  <2>1. pc = "switch" /\ parser.state \in UrlState /\ parser \in Parser /\ parser.http_errno = "OK"
    BY <1>7, SwitchFacts DEF ReqUrl, AtOneOf, UrlState
  <2>2. CASE Break(To("s_req_http_start")) /\ Callback("url", p)
    <3> DEFINE q == To("s_req_http_start")
    <3>1. q \in Parser /\ q.http_errno = "OK" /\ q.state \in Calm
      BY <1>2, <2>1, CalmTo
    <3>2. Break(q) /\ Callback("url", p)
      BY <2>2
    <3> HIDE DEF q
    <3> QED BY <1>2, <2>1, <3>1, <3>2, LooseCallback
  <2>3. ASSUME NEW s \in Calm, Break([parser EXCEPT !.http_major = 0, !.http_minor = 9, !.state = s]), Callback("url", p)
        PROVE  ParserInv'
    <3> DEFINE q == [parser EXCEPT !.http_major = 0, !.http_minor = 9, !.state = s]
    <3>1. s \in State
      BY CalmFacts
    <3>2. q \in Parser /\ q.http_errno = "OK" /\ q.state \in Calm
      BY <2>1, <3>1 DEF Parser
    <3>3. Break(q)
      BY <2>3
    <3> HIDE DEF q
    <3> QED BY <1>2, <2>1, <2>3, <3>2, <3>3, LooseCallback
  <2>4. CASE UrlChar(parser.state) /\ Silent
    BY <1>5, <2>1, <2>4
  <2> QED BY <1>2, <1>7, <2>2, <2>3, <2>4 DEF ReqUrl
<1> QED BY <1>4, <1>6, <1>7

\* All cases of the start line.
LEMMA StartLineInv == ASSUME ParserInv, StartLine PROVE ParserInv'
  BY DeadInv, StartInv, VersionInv, StatusCodeInv, StatusInv, UrlInv DEF StartLine

-----------------------------------------------------------------------------
\* Only the count, or nothing that Control is about, changes.
LEMMA SameControl ==
  ASSUME NEW r, Control(r), NEW q \in Parser, q.http_errno = "OK", q.state = r.state, q.flags = r.flags,
         q.content_length = r.content_length, q.header_state = r.header_state
  PROVE  Control(q)
  BY DEF Control

LEMMA CountedFacts ==
  ASSUME NEW q \in Parser, NEW n \in Nat
  PROVE  /\ Counted(q, n) \in Parser /\ Counted(q, n).http_errno = q.http_errno /\ Counted(q, n).state = q.state
         /\ Counted(q, n).flags = q.flags /\ Counted(q, n).content_length = q.content_length
         /\ Counted(q, n).header_state = q.header_state /\ Counted(q, n).nread = q.nread + n
<1>1. q.nread + n \in Nat
  BY DEF Parser
<1> QED BY <1>1 DEF Parser, Counted

LEMMA FollowsItself == ASSUME NEW s PROVE Follows(s, s)
  BY DEF Follows

\* The call returns, once the output is known to fit.
LEMMA DoneInv ==
  ASSUME ParserInv, data' = data, p' = p, UNCHANGED localVars, pc' = "done", parser' \in Parser,
         mark' \in Marks, calls' \in Seq(Call)', CallsInOrder'
  PROVE  ParserInv'
<1>1. Types'
  BY SameData DEF ParserInv, Types, localVars, Place
<1> QED BY <1>1 DEF ParserInv

LEMMA NextByteInv == ASSUME ParserInv, NextByte PROVE ParserInv'
<1> DEFINE q == IF PARSING_HEADER(parser.state) THEN Counted(parser, 1) ELSE parser
<1>1. pc = "next" /\ p < len
  BY DEF NextByte
<1>2. Types /\ CallsInOrder /\ Control(parser) /\ Shape(parser.state, p) /\ parser \in Parser /\ parser.http_errno = "OK"
      /\ parser.state # "s_message_done" /\ p \in Nat
  BY <1>1 DEF ParserInv, Running, Control, Types, Pos
<1>3. q \in Parser /\ q.http_errno = "OK" /\ q.state = parser.state /\ q.flags = parser.flags
      /\ q.content_length = parser.content_length /\ q.header_state = parser.header_state
  BY <1>2, CountedFacts
<1>4. q.state = "s_chunk_size_start" => q.nread = 1
  <2>1. ASSUME parser.state = "s_chunk_size_start" PROVE PARSING_HEADER(parser.state) /\ parser.nread = 0
    BY <1>1, <2>1 DEF ParserInv, Running, PARSING_HEADER, HeaderPartState
  <2> QED BY <1>2, <1>3, <2>1, CountedFacts
<1>5. (\E e \in Errno : Error(q, e)) \/ (Reexecute(q) /\ Silent)
  BY DEF NextByte, Errno, http_errno
<1> HIDE DEF q
<1>6. CASE \E e \in Errno : Error(q, e)
  BY <1>3, <1>6, ErrorInv
<1>7. CASE Reexecute(q) /\ Silent
  <2>1. data' = data /\ UNCHANGED <<p, start, h_state>> /\ pc' = "switch" /\ parser' = q
    BY <1>7 DEF Reexecute, localVars
  <2>2. Control(q)
    BY <1>2, <1>3, SameControl
  <2>3. Shape(parser.state, p)'
    BY <1>2, <1>3, <1>7, <2>1, FollowsItself, SilentShape
  <2>4. Types' /\ CallsInOrder'
    BY <1>2, <1>3, <1>7, <2>1, SameData, SameCalls DEF Types, Place
  <2>5. Running' /\ p' < len'
    BY <1>1, <1>4, <2>1, <2>2, <2>3, SameData DEF Running
  <2> QED BY <2>1, <2>4, <2>5 DEF ParserInv
<1> QED BY <1>5, <1>6, <1>7

LEMMA EndOfDataInv == ASSUME ParserInv, EndOfData PROVE ParserInv'
<1>1. pc = "next" /\ p = len /\ pc' = "done" /\ data' = data /\ p' = p /\ parser' = parser /\ UNCHANGED localVars
  BY DEF EndOfData
<1>2. Types /\ CallsInOrder /\ Shape(parser.state, p) /\ parser \in Parser /\ p \in Nat
  BY <1>1 DEF ParserInv, Running, Types, Pos
<1>3. CASE Silent
  BY <1>1, <1>2, <1>3, SameCalls, SameData, DoneInv
<1>4. ASSUME NEW f \in Piece, mark[f] # NoMark, Callback(f, p) PROVE ParserInv'
  <2>1. p \in p..len
    BY <1>1, <1>2
  <2>2. mark' \in Marks /\ calls' \in Seq(Call)' /\ CallsInOrder'
    BY <1>1, <1>2, <1>4, <2>1, CallbackOrder
  <2> QED BY <1>1, <1>2, <2>2, DoneInv
<1> QED BY <1>3, <1>4 DEF EndOfData

-----------------------------------------------------------------------------
\* The names of headers.
LEMMA PlainMove ==
  ASSUME ParserInv, pc = "switch", NEW q \in Parser, q.http_errno = "OK", q.state \notin Special,
         Follows(parser.state, q.state), q.state # "s_message_done", parser.state # "s_message_done",
         Silent, Break(q) \/ Reexecute(q)
  PROVE  ParserInv'
<1>1. Control(q)
  BY PlainControl
<1>2. q.state # "s_chunk_size_start"
  BY DEF Special, ChunkState
<1> QED BY <1>1, <1>2, BreakSilent, ReexecuteSilent

NamedHeader == {"h_general", "h_connection", "h_content_length", "h_transfer_encoding", "h_upgrade"}

LEMMA NameControl ==
  ASSUME NEW q \in Parser, q.http_errno = "OK", q.state = "s_header_field", q.header_state \in NamedHeader
  PROVE  Control(q)
  BY DEF Control, ChunkState, NamedHeader

LEMMA NamedFacts == NamedHeader \subseteq HeaderState /\ \A c : NameState(c) \in NamedHeader
<1>1. NamedHeader \subseteq HeaderState
  BY DEF NamedHeader, HeaderState
<1>2. \A c : NameState(c) \in NamedHeader
  BY DEF NameState, NamedHeader
<1> QED BY <1>1, <1>2

LEMMA NameStates ==
  /\ "s_header_field" \in State /\ "s_header_field" \notin Pending \cup Ended /\ PieceOf("s_header_field") = "header_field"
  /\ "s_header_value_discard_ws" \in State \cap Pending /\ "s_header_value_discard_ws" \notin Special
<1>1. "s_header_field" \in State /\ "s_header_value_discard_ws" \in State
  BY DEF State, HeaderPartState
<1>2. "s_header_field" \notin Pending \cup Ended /\ "s_header_value_discard_ws" \in Pending
  BY DEF Pending, Ended
<1>3. "s_header_value_discard_ws" \notin Special
  BY DEF Special, ChunkState
<1>4. PieceOf("s_header_field") = "header_field"
  BY DEF PieceOf, UrlState
<1> QED BY <1>1, <1>2, <1>3, <1>4

LEMMA HeaderFieldStartInv == ASSUME ParserInv, HeaderFieldStart PROVE ParserInv'
<1>1. pc = "switch" /\ parser.state = "s_header_field_start" /\ parser.state \in Calm /\ "s_headers_almost_done" \in Calm
  BY DEF HeaderFieldStart, At, Calm
<1>2. parser \in Parser /\ parser.http_errno = "OK"
  BY <1>1, SwitchFacts
<1>3. CASE (Break(To("s_headers_almost_done")) \/ Reexecute(To("s_headers_almost_done"))) /\ Silent
  BY <1>1, <1>3, CalmMove
<1>4. CASE Error(parser, "INVALID_HEADER_TOKEN")
  <2>1. "INVALID_HEADER_TOKEN" \in Errno
    BY DEF Errno, http_errno
  <2> QED BY <1>2, <1>4, <2>1, ErrorInv
<1>5. CASE Break([parser EXCEPT !.state = "s_header_field", !.header_state = NameState(ch)]) /\ MARK("header_field")
  <2> DEFINE h == NameState(ch)
             q == [parser EXCEPT !.state = "s_header_field", !.header_state = h]
  <2>1. h \in NamedHeader /\ h \in HeaderState
    BY NamedFacts
  <2>2. Break(q) /\ MARK("header_field")
    BY <1>5
  <2> HIDE DEF h
  <2>3. q \in Parser /\ q.http_errno = "OK" /\ q.state = "s_header_field" /\ q.header_state \in NamedHeader
    BY <1>2, <2>1, NameStates DEF Parser
  <2> HIDE DEF q
  <2>4. Control(q)
    BY <2>3, NameControl
  <2>5. "header_field" \in Piece
    BY DEF Piece
  <2> QED BY <1>1, <2>2, <2>3, <2>4, <2>5, CalmFacts, NameStates, BreakMark
<1> QED BY <1>3, <1>4, <1>5 DEF HeaderFieldStart

LEMMA HeaderFieldInv == ASSUME ParserInv, HeaderField PROVE ParserInv'
<1>1. pc = "switch" /\ parser.state = "s_header_field"
  BY DEF HeaderField, At
<1>2. /\ Types /\ CallsInOrder /\ Control(parser) /\ Shape(parser.state, p) /\ p \in Nat /\ len \in Nat /\ p < len
      /\ parser \in Parser /\ parser.http_errno = "OK"
  BY <1>1, SwitchFacts
<1>3. "HEADER_OVERFLOW" \in Errno /\ "INVALID_HEADER_TOKEN" \in Errno /\ "header_field" \in Piece
  BY DEF Errno, http_errno, Piece
<1>4. PICK n \in p..len :
        LET named == Counted([parser EXCEPT !.header_state = IF n = p THEN @ ELSE "h_general"], n - p) IN
        \/ Error(named, "HEADER_OVERFLOW") \/ Error(named, "INVALID_HEADER_TOKEN")
        \/ /\ n = len /\ parser' = named /\ p' = n /\ pc' = "next"
           /\ Silent /\ UNCHANGED <<data, localVars>>
        \/ /\ n < len /\ parser' = [named EXCEPT !.state = "s_header_value_discard_ws"] /\ p' = n + 1 /\ pc' = "next"
           /\ Callback("header_field", n) /\ UNCHANGED <<data, localVars>>
  BY DEF HeaderField
<1> DEFINE h     == IF n = p THEN parser.header_state ELSE "h_general"
           r     == [parser EXCEPT !.header_state = h]
           named == Counted(r, n - p)
<1>5. n \in Nat /\ n - p \in Nat /\ p <= n /\ n <= len
  BY <1>2
<1>6. h \in NamedHeader /\ h \in HeaderState
  <2>1. parser.header_state \in NamedHeader /\ "h_general" \in NamedHeader
    BY <1>1, <1>2 DEF Control, NamedHeader
  <2> QED BY <2>1, NamedFacts
<1>7. \/ Error(named, "HEADER_OVERFLOW") \/ Error(named, "INVALID_HEADER_TOKEN")
      \/ /\ n = len /\ parser' = named /\ p' = n /\ pc' = "next"
         /\ Silent /\ UNCHANGED <<data, localVars>>
      \/ /\ n < len /\ parser' = [named EXCEPT !.state = "s_header_value_discard_ws"] /\ p' = n + 1 /\ pc' = "next"
         /\ Callback("header_field", n) /\ UNCHANGED <<data, localVars>>
  BY <1>4
<1> HIDE DEF h
<1>8. r \in Parser /\ r.http_errno = "OK" /\ r.state = "s_header_field" /\ r.header_state \in NamedHeader
  BY <1>1, <1>2, <1>6 DEF Parser
<1> HIDE DEF r
<1>9. named \in Parser /\ named.http_errno = "OK" /\ named.state = "s_header_field" /\ named.header_state \in NamedHeader
  BY <1>5, <1>8, CountedFacts
<1> HIDE DEF named
<1>10. CASE Error(named, "HEADER_OVERFLOW") \/ Error(named, "INVALID_HEADER_TOKEN")
  BY <1>3, <1>9, <1>10, ErrorInv
<1>11. CASE /\ n = len /\ parser' = named /\ p' = n /\ pc' = "next"
            /\ Silent /\ UNCHANGED <<data, localVars>>
  <2>1. p' \in Nat /\ p' >= p /\ p' \in Pos
    BY <1>2, <1>5, <1>11 DEF Pos
  <2>2. Shape(parser.state, p)'
    BY <1>1, <1>2, <1>9, <1>11, <2>1, FollowsItself, SilentShape
  <2>3. Control(named)
    BY <1>9, NameControl
  <2> QED BY <1>2, <1>9, <1>11, <2>1, <2>2, <2>3, SameCalls, SameData, GoOnInv
<1>12. CASE /\ n < len /\ parser' = [named EXCEPT !.state = "s_header_value_discard_ws"] /\ p' = n + 1 /\ pc' = "next"
            /\ Callback("header_field", n) /\ UNCHANGED <<data, localVars>>
  <2> DEFINE q == [named EXCEPT !.state = "s_header_value_discard_ws"]
  <2>1. parser' = q
    BY <1>12
  <2>2. q \in Parser /\ q.http_errno = "OK" /\ q.state = "s_header_value_discard_ws"
    BY <1>9, NameStates DEF Parser
  <2> HIDE DEF q
  <2>3. p' \in Nat /\ p' >= n /\ p' \in Pos
    BY <1>2, <1>5, <1>12 DEF Pos
  <2>4. Control(q)
    BY <2>2, NameStates, PlainControl
  <2>5. calls' \in Seq(Call)' /\ mark' \in Marks /\ CallsInOrder' /\ Shape(parser.state, p)'
    BY <1>1, <1>2, <1>3, <1>12, <2>1, <2>2, <2>3, NameStates, CallbackShape
  <2> QED BY <1>12, <2>1, <2>2, <2>3, <2>4, <2>5, GoOnInv
<1> QED BY <1>7, <1>10, <1>11, <1>12

-----------------------------------------------------------------------------
\* The values of headers: the states around the loop.
ValueHeader == HeaderState \ {"h_connection", "h_transfer_encoding"}

LEMMA ValueControl ==
  ASSUME NEW q \in Parser, q.http_errno = "OK", q.state = "s_header_value", q.header_state \in ValueHeader
  PROVE  Control(q)
  BY DEF Control, ChunkState, ValueHeader

LEMMA ValueStates ==
  /\ "s_header_value" \in State \cap Pending /\ "s_header_value" \notin Ended /\ PieceOf("s_header_value") = "header_value"
  /\ "s_header_almost_done" \in State \cap Ended /\ "s_header_almost_done" \notin Special
  /\ "s_header_almost_done" \notin {"s_message_done", "s_header_field", "s_header_value", "s_chunk_size_start"}
<1>1. "s_header_value" \in State /\ "s_header_almost_done" \in State
  BY DEF State, HeaderPartState
<1>2. "s_header_value" \in Pending /\ "s_header_value" \notin Ended /\ "s_header_almost_done" \in Ended
  BY DEF Pending, Ended
<1>3. "s_header_almost_done" \notin Special
  BY DEF Special, ChunkState
<1>4. PieceOf("s_header_value") = "header_value"
  BY DEF PieceOf, UrlState
<1> QED BY <1>1, <1>2, <1>3, <1>4

\* Nothing is open while a value is awaited or behind it.
Around == {"s_header_value_discard_ws", "s_header_value_discard_ws_almost_done", "s_header_value_discard_lws",
           "s_header_value_start", "s_header_almost_done", "s_header_value_lws"}

LEMMA AroundFacts ==
  ASSUME NEW s \in Around
  PROVE  /\ s \in State /\ s \notin Special /\ s \in Pending \cup Ended /\ PieceOf(s) = "none"
         /\ s \notin {"s_header_field", "s_header_value", "s_message_done", "s_chunk_size_start"}
<1>1. s \in State
  BY DEF Around, State, HeaderPartState
<1>2. s \notin Special /\ s \notin {"s_header_field", "s_header_value", "s_message_done", "s_chunk_size_start"}
  BY DEF Around, Special, ChunkState
<1>3. s \in Pending \cup Ended
  BY DEF Around, Pending, Ended
<1>4. PieceOf(s) = "none"
  BY DEF Around, PieceOf, UrlState
<1> QED BY <1>1, <1>2, <1>3, <1>4

\* A value stays awaited, or is behind; a value that is behind may go on.
LEMMA AroundMove ==
  ASSUME ParserInv, pc = "switch", parser.state \in Around, NEW q \in Parser, q.http_errno = "OK",
         q.state \in Around, q.state \in Ended => parser.state \in Ended,
         parser.state \in Pending => q.state \in Pending,
         Silent, Break(q) \/ Reexecute(q)
  PROVE  ParserInv'
<1>1. Follows(parser.state, q.state)
  BY AroundFacts DEF Follows
<1> QED BY <1>1, AroundFacts, PlainMove

LEMMA AroundTo ==
  ASSUME ParserInv, pc = "switch", parser.state \in Around, NEW s \in Around, s \in Ended => parser.state \in Ended,
         parser.state \in Pending => s \in Pending, Silent, Break(To(s)) \/ Reexecute(To(s))
  PROVE  ParserInv'
<1> DEFINE q == To(s)
<1>1. q \in Parser /\ q.http_errno = "OK" /\ q.state = s
  BY SwitchFacts, AroundFacts, ToFacts
<1>2. Break(q) \/ Reexecute(q)
  OBVIOUS
<1> HIDE DEF q
<1> QED BY <1>1, <1>2, AroundMove

LEMMA OptionFacts ==
  ASSUME NEW c, NEW o \in ValueHeader PROVE Option(c, o) \in ValueHeader
<1>1. {"h_connection_keep_alive", "h_connection_close", "h_connection_upgrade",
       "h_matching_connection_close"} \subseteq ValueHeader
  BY DEF ValueHeader, HeaderState
<1> QED BY <1>1 DEF Option

LEMMA FlagFacts == \A h : FlagOf(h) \in Flags
<1>1. SUFFICES ASSUME NEW h PROVE FlagOf(h) \subseteq Flag
  BY DEF Flags
<1>2. {"F_CONNECTION_KEEP_ALIVE"} \subseteq Flag /\ {"F_CONNECTION_CLOSE"} \subseteq Flag
      /\ {"F_CONNECTION_UPGRADE"} \subseteq Flag /\ {"F_CHUNKED"} \subseteq Flag
  BY DEF Flag
<1> QED BY <1>2 DEF FlagOf

LEMMA ValueStartInv ==
  ASSUME ParserInv, pc = "switch", parser.state \in {"s_header_value_discard_ws", "s_header_value_start"}, ValueStart
  PROVE  ParserInv'
<1> DEFINE h == parser.header_state
           t == To("s_header_value")
<1>1. /\ parser.state \in Around /\ parser.state \in Pending
      /\ parser \in Parser /\ parser.http_errno = "OK" /\ h \in HeaderState
  BY SwitchFacts DEF Around, Pending, Parser
<1>2. t \in Parser /\ t.http_errno = "OK" /\ t.state = "s_header_value" /\ t.header_state = h
  BY <1>1, ToFacts, ValueStates
<1>3. "header_value" \in Piece
  BY DEF Piece
<1>4. ASSUME NEW q \in Parser, q.http_errno = "OK", q.state = "s_header_value", q.header_state \in ValueHeader,
             MARK("header_value"), Break(q)
      PROVE  ParserInv'
  BY <1>1, <1>3, <1>4, AroundFacts, ValueStates, ValueControl, BreakMark
<1>5. CASE Error(t, "INVALID_CONTENT_LENGTH")
  <2>1. "INVALID_CONTENT_LENGTH" \in Errno
    BY DEF Errno, http_errno
  <2> QED BY <1>2, <1>5, <2>1, ErrorInv
<1>6. {"h_general", "h_matching_connection_token", "h_transfer_encoding_chunked"} \subseteq ValueHeader
      /\ ValueHeader \subseteq HeaderState
  BY DEF ValueHeader, HeaderState
<1>7. ASSUME NEW g \in ValueHeader, MARK("header_value"), Break([t EXCEPT !.header_state = g]) PROVE ParserInv'
  <2> DEFINE q == [t EXCEPT !.header_state = g]
  <2>1. q \in Parser /\ q.http_errno = "OK" /\ q.state = "s_header_value" /\ q.header_state = g
    BY <1>2, <1>6 DEF Parser
  <2>2. Break(q)
    BY <1>7
  <2> HIDE DEF q
  <2> QED BY <1>4, <1>7, <2>1, <2>2
<1>8. ASSUME MARK("header_value"), Break([t EXCEPT !.flags = @ \cup {"F_UPGRADE"}, !.header_state = "h_general"])
      PROVE  ParserInv'
  <2> DEFINE g == t.flags \cup {"F_UPGRADE"}
             q == [t EXCEPT !.flags = g, !.header_state = "h_general"]
  <2>1. g \in Flags
    BY <1>2 DEF Parser, Flags, Flag
  <2>2. Break(q)
    BY <1>8
  <2> HIDE DEF g
  <2>3. q \in Parser /\ q.http_errno = "OK" /\ q.state = "s_header_value" /\ q.header_state = "h_general"
    BY <1>2, <1>6, <2>1 DEF Parser
  <2> HIDE DEF q
  <2> QED BY <1>4, <1>6, <1>8, <2>2, <2>3
<1>9. ASSUME h = "h_content_length", IS_NUM(ch), MARK("header_value"), Break([t EXCEPT !.content_length = unhex(ch)])
      PROVE  ParserInv'
  <2> DEFINE n == unhex(ch)
             q == [t EXCEPT !.content_length = n]
  <2>1. n \in Length
    BY <1>9, DigitValue, WidthAssumption DEF Length
  <2>2. Break(q)
    BY <1>9
  <2> HIDE DEF n
  <2>3. q \in Parser /\ q.http_errno = "OK" /\ q.state = "s_header_value" /\ q.header_state = "h_content_length"
    BY <1>2, <1>9, <2>1 DEF Parser
  <2> HIDE DEF q
  <2>4. "h_content_length" \in ValueHeader
    BY DEF ValueHeader, HeaderState
  <2> QED BY <1>4, <1>9, <2>2, <2>3, <2>4
<1>10. ASSUME h = "h_matching_connection_token_start", MARK("header_value"), Break(t) PROVE ParserInv'
  <2>1. "h_matching_connection_token_start" \in ValueHeader
    BY DEF ValueHeader, HeaderState
  <2> QED BY <1>2, <1>4, <1>10, <2>1
<1>11. \/ Error(t, "INVALID_CONTENT_LENGTH")
       \/ /\ MARK("header_value")
          /\ \/ Break([t EXCEPT !.flags = @ \cup {"F_UPGRADE"}, !.header_state = "h_general"])
             \/ Break([t EXCEPT !.header_state = IF ch = "chunked" THEN "h_transfer_encoding_chunked" ELSE "h_general"])
             \/ h = "h_content_length" /\ IS_NUM(ch) /\ Break([t EXCEPT !.content_length = unhex(ch)])
             \/ Break([t EXCEPT !.header_state = Option(ch, "h_matching_connection_token")])
             \/ h = "h_matching_connection_token_start" /\ Break(t)
             \/ Break([t EXCEPT !.header_state = "h_general"])
  BY DEF ValueStart
<1> HIDE DEF h, t
<1>12. /\ Option(ch, "h_matching_connection_token") \in ValueHeader
       /\ (IF ch = "chunked" THEN "h_transfer_encoding_chunked" ELSE "h_general") \in ValueHeader
       /\ "h_general" \in ValueHeader
  BY <1>6, OptionFacts
<1> QED BY <1>5, <1>7, <1>8, <1>9, <1>10, <1>11, <1>12

LEMMA DiscardInv ==
  ASSUME ParserInv,
         HeaderValueDiscardWs \/ HeaderValueDiscardWsAlmostDone \/ HeaderValueStart \/ HeaderAlmostDone \/ HeaderValueLws
  PROVE  ParserInv'
<1>1. pc = "switch" /\ parser.state \in Around
  BY DEF HeaderValueDiscardWs, HeaderValueDiscardWsAlmostDone, HeaderValueStart, HeaderAlmostDone, HeaderValueLws, At, Around
<1>2. parser \in Parser /\ parser.http_errno = "OK"
  BY <1>1, SwitchFacts
<1>3. CASE Error(parser, "STRICT")
  BY <1>1, <1>3, FailHere, StartFailures
<1>4. CASE HeaderValueDiscardWs
  <2>1. parser.state = "s_header_value_discard_ws" /\ parser.state \in Pending
    BY <1>4 DEF HeaderValueDiscardWs, At, Pending
  <2>2. CASE Break(parser) /\ Silent
    BY <1>1, <1>2, <2>2, AroundMove
  <2>3. CASE \E s \in {"s_header_value_discard_ws_almost_done", "s_header_value_discard_lws"} : Break(To(s)) /\ Silent
    <3>1. \A s \in {"s_header_value_discard_ws_almost_done", "s_header_value_discard_lws"} :
            s \in Around /\ s \in Pending /\ s \notin Ended
      BY DEF Around, Pending, Ended
    <3> QED BY <1>1, <2>3, <3>1, AroundTo
  <2>4. CASE ValueStart
    BY <1>1, <2>1, <2>4, ValueStartInv
  <2> QED BY <1>4, <2>2, <2>3, <2>4 DEF HeaderValueDiscardWs
<1>5. CASE HeaderValueDiscardWsAlmostDone
  <2>1. "s_header_value_discard_lws" \in Around /\ "s_header_value_discard_lws" \in Pending /\ "s_header_value_discard_lws" \notin Ended
    BY DEF Around, Pending, Ended
  <2>2. CASE Break(To("s_header_value_discard_lws")) /\ Silent
    BY <1>1, <2>1, <2>2, AroundTo
  <2> QED BY <1>3, <1>5, <2>2 DEF HeaderValueDiscardWsAlmostDone
<1>6. CASE HeaderValueStart
  BY <1>6, ValueStartInv DEF HeaderValueStart, At
<1>7. CASE HeaderAlmostDone
  <2>1. /\ parser.state \in Ended /\ parser.state \notin Pending
        /\ "s_header_value_lws" \in Around
    BY <1>7 DEF HeaderAlmostDone, At, Around, Pending, Ended
  <2>2. CASE Break(To("s_header_value_lws")) /\ Silent
    BY <1>1, <2>1, <2>2, AroundTo
  <2> QED BY <1>3, <1>7, <2>2 DEF HeaderAlmostDone
<1>8. CASE HeaderValueLws
  <2>1. /\ parser.state \in Ended /\ parser.state \notin Pending
        /\ "s_header_value_start" \in Around /\ "s_header_field_start" \in Calm /\ Silent
    BY <1>8 DEF HeaderValueLws, At, Around, Pending, Ended, Calm
  <2>2. CASE Reexecute(To("s_header_value_start"))
    BY <1>1, <2>1, <2>2, AroundTo
  <2>3. CASE Reexecute([parser EXCEPT !.flags = @ \cup FlagOf(parser.header_state), !.state = "s_header_field_start"])
    <3> DEFINE g == parser.flags \cup FlagOf(parser.header_state)
               q == [parser EXCEPT !.flags = g, !.state = "s_header_field_start"]
    <3>1. g \in Flags
      BY <1>2, FlagFacts DEF Parser, Flags
    <3>2. Reexecute(q)
      BY <2>3
    <3> HIDE DEF g
    <3>3. q \in Parser /\ q.http_errno = "OK" /\ q.state = "s_header_field_start"
      BY <1>2, <2>1, <3>1, CalmFacts DEF Parser
    <3> HIDE DEF q
    <3>4. Follows(parser.state, q.state)
      BY <1>1, <2>1, <3>3, CalmFacts, AroundFacts DEF Follows
    <3> QED BY <1>1, <2>1, <3>2, <3>3, <3>4, CalmFacts, AroundFacts, PlainMove
  <2> QED BY <1>8, <2>2, <2>3 DEF HeaderValueLws
<1> QED BY <1>4, <1>5, <1>6, <1>7, <1>8

\* The empty value is handed over where the next header starts.
LEMMA DiscardLwsInv == ASSUME ParserInv, HeaderValueDiscardLws PROVE ParserInv'
<1>1. pc = "switch" /\ parser.state = "s_header_value_discard_lws"
  BY DEF HeaderValueDiscardLws, At
<1>2. parser.state \in Around /\ parser.state \in Pending
  BY <1>1 DEF Around, Pending
<1>3. /\ Types /\ CallsInOrder /\ Shape(parser.state, p) /\ p \in Nat /\ len \in Nat /\ p < len
      /\ parser \in Parser /\ parser.http_errno = "OK"
  BY <1>1, SwitchFacts
<1>4. CASE Break(To("s_header_value_discard_ws")) /\ Silent
  <2>1. "s_header_value_discard_ws" \in Around /\ "s_header_value_discard_ws" \in Pending /\ "s_header_value_discard_ws" \notin Ended
    BY DEF Around, Pending, Ended
  <2> QED BY <1>1, <1>2, <1>4, <2>1, AroundTo
<1>5. CASE /\ Reexecute([parser EXCEPT !.flags = @ \cup FlagOf(parser.header_state), !.state = "s_header_field_start"])
           /\ calls' = Append(calls, [on |-> "header_value", at |-> p, length |-> 0])
           /\ UNCHANGED mark
  <2> DEFINE g == parser.flags \cup FlagOf(parser.header_state)
             q == [parser EXCEPT !.flags = g, !.state = "s_header_field_start"]
             c == [on |-> "header_value", at |-> p, length |-> 0]
  <2>1. g \in Flags /\ "s_header_field_start" \in Calm
    BY <1>3, FlagFacts DEF Parser, Flags, Calm
  <2>2. Reexecute(q) /\ calls' = Append(calls, c) /\ mark' = mark
    BY <1>5
  <2>3. c \in Call /\ c.at + c.length <= len /\ c.at + c.length = p /\ c.at = p /\ c.on = "header_value"
    <3>1. p \in Pos /\ 0 \in Pos /\ "header_value" \in Piece
      BY <1>3 DEF Pos, Piece
    <3> QED BY <1>3, <3>1 DEF Call
  <2> HIDE DEF g
  <2>4. q \in Parser /\ q.http_errno = "OK" /\ q.state = "s_header_field_start"
    BY <1>3, <2>1, CalmFacts DEF Parser
  <2> HIDE DEF q, c
  <2>5. data' = data /\ p' = p /\ parser' = q
    BY <2>2 DEF Reexecute
  <2>6. Ends <= p /\ LastOn \in {"header_field", "header_value"}
    BY <1>1, <1>2, <1>3, ShapeFacts
  <2>7. calls' \in Seq(Call)' /\ CallsInOrder' /\ Ends' = p /\ LastOn' = "header_value"
    BY <1>3, <2>2, <2>3, <2>5, <2>6, AppendOrder
  <2>8. mark' \in Marks /\ \A f \in Piece : mark'[f] = NoMark
    <3>1. "none" \notin Piece /\ PieceOf(parser.state) = "none"
      BY <1>2, AroundFacts DEF Piece
    <3> QED BY <1>3, <2>2, <3>1 DEF Shape, Types
  <2>9. Control(q)
    BY <2>1, <2>4, CalmFacts, PlainControl
  <2>10. Shape(parser.state, p)'
    <3>1. /\ parser'.state \notin {"s_header_field", "s_header_value", "s_message_done"}
          /\ parser'.state \notin Pending \cup Ended
      BY <2>1, <2>4, <2>5, CalmFacts
    <3>2. Ends' <= p'
      BY <1>3, <2>5, <2>7
    <3> QED BY <2>7, <2>8, <3>1, <3>2 DEF Shape
  <2> QED BY <1>3, <2>2, <2>4, <2>7, <2>8, <2>9, <2>10, ReexecuteInv
<1> QED BY <1>4, <1>5 DEF HeaderValueDiscardLws

-----------------------------------------------------------------------------
\* The loop over a value.
LEMMA ValueFacts ==
  ASSUME ParserInv, pc = "value"
  PROVE  /\ Types /\ CallsInOrder /\ Control(parser) /\ Shape(parser.state, p)
         /\ parser.state = "s_header_value" /\ parser \in Parser /\ parser.http_errno = "OK"
         /\ p \in Nat /\ len \in Nat /\ p <= len /\ p \in Pos /\ p - start \in Nat /\ start <= p
         /\ h_state \in ValueHeader /\ h_state \in HeaderState
<1>1. /\ Types /\ CallsInOrder /\ Running /\ InLoop
  BY DEF ParserInv
<1>2. p \in Nat /\ len \in Nat /\ p <= len /\ p \in Pos /\ start \in Nat
  BY <1>1, LenNat DEF Types, Pos
<1>3. p - start \in Nat
  BY <1>1, <1>2 DEF InLoop
<1> QED BY <1>1, <1>2, <1>3 DEF Running, InLoop, Types, ValueHeader, Control

\* The loop goes on.
LEMMA LoopInv ==
  ASSUME ParserInv, pc = "value", NEW q \in Parser, q.http_errno = "OK", q.state = "s_header_value",
         q.header_state = parser.header_state, parser' = q, p' \in p..len, h_state' \in ValueHeader,
         data' = data, pc' = pc, start' = start, Silent
  PROVE  ParserInv'
<1>1. /\ Types /\ CallsInOrder /\ Control(parser) /\ Shape(parser.state, p)
      /\ parser.state = "s_header_value" /\ p \in Nat /\ len \in Nat /\ start \in Nat /\ start <= p
  BY ValueFacts DEF Types, Pos
<1>2. p' \in Nat /\ p' >= p /\ p' \in Pos /\ start <= p'
  BY <1>1 DEF Pos
<1>3. q.header_state \in ValueHeader
  BY <1>1 DEF Control, Parser, ValueHeader
<1>4. Control(q)
  BY <1>3, ValueControl
<1>5. Shape(parser.state, p)'
  BY <1>1, <1>2, FollowsItself, SilentShape
<1>6. Types' /\ CallsInOrder'
  BY <1>1, <1>2, SameData, SameCalls DEF Types, ValueHeader
<1>7. Running' /\ InLoop'
  BY <1>2, <1>4, <1>5 DEF Running, InLoop, ValueHeader
<1> QED BY <1>6, <1>7 DEF ParserInv

LEMMA HeaderValueInv == ASSUME ParserInv, HeaderValue PROVE ParserInv'
<1>1. pc = "switch" /\ parser.state = "s_header_value"
  BY DEF HeaderValue, At
<1>2. start' = p /\ h_state' = parser.header_state /\ pc' = "value" /\ UNCHANGED <<data, p, parser>> /\ Silent
  BY DEF HeaderValue, Silent
<1>3. Types /\ CallsInOrder /\ Control(parser) /\ Shape(parser.state, p) /\ p \in Nat /\ parser \in Parser
  BY <1>1, SwitchFacts
<1>4. Shape(parser.state, p)'
  BY <1>2, <1>3, <1>1, FollowsItself, SilentShape
<1>5. Types' /\ CallsInOrder'
  BY <1>2, <1>3, SameData, SameCalls DEF Types, Place, Parser
<1>6. Running' /\ InLoop'
  BY <1>1, <1>2, <1>3, <1>4 DEF Running, InLoop, Control
<1> QED BY <1>2, <1>5, <1>6 DEF ParserInv

LEMMA LoopErrors == {"HEADER_OVERFLOW", "INVALID_CONTENT_LENGTH"} \subseteq Errno
  BY DEF Errno, http_errno

\* What LeaveValue counts.
LEMMA LeaveFacts ==
  ASSUME ParserInv, pc = "value", NEW s \in State
  PROVE  LET c == Counted([To(s) EXCEPT !.header_state = h_state], p - start) IN
         c \in Parser /\ c.http_errno = "OK" /\ c.state = s /\ c.header_state = h_state
<1> DEFINE q == [To(s) EXCEPT !.header_state = h_state]
<1>1. q \in Parser /\ q.http_errno = "OK" /\ q.state = s /\ q.header_state = h_state
  BY ValueFacts, ToFacts DEF Parser
<1>2. p - start \in Nat
  BY ValueFacts
<1> HIDE DEF q
<1>3. LET c == Counted(q, p - start) IN c \in Parser /\ c.http_errno = "OK" /\ c.state = s /\ c.header_state = h_state
  BY <1>1, <1>2, CountedFacts
<1> QED BY <1>3 DEF q

LEMMA ValueEndInv == ASSUME ParserInv, ValueEndOfData PROVE ParserInv'
<1> DEFINE c == Counted([parser EXCEPT !.header_state = h_state], p - start)
<1>1. pc = "value" /\ p = len /\ Silent /\ LeaveValue(parser, p)
  BY DEF ValueEndOfData, InValue
<1>2. /\ Types /\ CallsInOrder /\ Shape(parser.state, p) /\ parser.state = "s_header_value" /\ p \in Nat /\ p \in Pos
      /\ parser \in Parser /\ h_state \in ValueHeader
  BY <1>1, ValueFacts
<1>3. c \in Parser /\ c.http_errno = "OK" /\ c.state = "s_header_value" /\ c.header_state = h_state
  <2>1. To(parser.state) = parser
    BY <1>2 DEF To, Parser
  <2> QED BY <1>1, <1>2, <2>1, LeaveFacts, ValueStates
<1>4. \/ parser' = [c EXCEPT !.http_errno = "HEADER_OVERFLOW"] /\ pc' = "done" /\ UNCHANGED <<data, p, localVars>>
      \/ parser' = c /\ p' = p /\ pc' = "next" /\ UNCHANGED <<data, localVars>>
  BY <1>1 DEF LeaveValue
<1> HIDE DEF c
<1>5. CASE parser' = [c EXCEPT !.http_errno = "HEADER_OVERFLOW"] /\ pc' = "done" /\ UNCHANGED <<data, p, localVars>>
  <2>1. Error(c, "HEADER_OVERFLOW")
    BY <1>1, <1>5 DEF Error, Silent
  <2> QED BY <1>3, <2>1, LoopErrors, ErrorInv
<1>6. CASE parser' = c /\ p' = p /\ pc' = "next" /\ UNCHANGED <<data, localVars>>
  <2>1. Control(c)
    BY <1>2, <1>3, ValueControl
  <2>2. Shape(parser.state, p)'
    BY <1>1, <1>2, <1>3, <1>6, FollowsItself, SilentShape
  <2> QED BY <1>1, <1>2, <1>3, <1>6, <2>1, <2>2, SameCalls, SameData, GoOnInv
<1> QED BY <1>4, <1>5, <1>6

LEMMA ValueCRInv == ASSUME ParserInv, ValueCR PROVE ParserInv'
<1> DEFINE c == Counted([To("s_header_almost_done") EXCEPT !.header_state = h_state], p - start)
<1>1. pc = "value" /\ p < len /\ Callback("header_value", p) /\ LeaveValue(To("s_header_almost_done"), p + 1)
  BY DEF ValueCR, InValue
<1>2. /\ Types /\ CallsInOrder /\ Shape(parser.state, p) /\ parser.state = "s_header_value" /\ p \in Nat /\ len \in Nat
      /\ PieceOf(parser.state) = "header_value" /\ "header_value" \in Piece /\ p \in p..len /\ p + 1 \in Nat /\ p + 1 \in Pos
  BY <1>1, ValueFacts, ValueStates DEF Piece, Pos
<1>3. c \in Parser /\ c.http_errno = "OK" /\ c.state = "s_header_almost_done"
  BY <1>1, ValueStates, LeaveFacts
<1>4. \/ parser' = [c EXCEPT !.http_errno = "HEADER_OVERFLOW"] /\ pc' = "done" /\ UNCHANGED <<data, p, localVars>>
      \/ parser' = c /\ p' = p + 1 /\ pc' = "next" /\ UNCHANGED <<data, localVars>>
  BY <1>1 DEF LeaveValue
<1> HIDE DEF c
<1>5. CASE parser' = [c EXCEPT !.http_errno = "HEADER_OVERFLOW"] /\ pc' = "done" /\ UNCHANGED <<data, p, localVars>>
  <2>1. parser' \in Parser
    BY <1>3, <1>5, LoopErrors DEF Parser
  <2>2. mark["header_value"] # NoMark
    BY <1>2, ShapeFacts
  <2>3. mark' \in Marks /\ calls' \in Seq(Call)' /\ CallsInOrder'
    BY <1>1, <1>2, <1>5, <2>2, CallbackOrder
  <2> QED BY <1>5, <2>1, <2>3, DoneInv
<1>6. CASE parser' = c /\ p' = p + 1 /\ pc' = "next" /\ UNCHANGED <<data, localVars>>
  <2>1. Control(c)
    BY <1>3, ValueStates, PlainControl
  <2>2. p' \in Nat /\ p' >= p /\ p' \in Pos
    BY <1>2, <1>6
  <2>3. calls' \in Seq(Call)' /\ mark' \in Marks /\ CallsInOrder' /\ Shape(parser.state, p)'
    BY <1>1, <1>2, <1>3, <1>6, <2>2, ValueStates, CallbackShape
  <2> QED BY <1>3, <1>6, <2>1, <2>2, <2>3, ValueStates, GoOnInv
<1> QED BY <1>4, <1>5, <1>6

LEMMA ValueLFInv == ASSUME ParserInv, ValueLF PROVE ParserInv'
<1> DEFINE t == To("s_header_almost_done")
           q == Counted(t, p - start)
           r == [q EXCEPT !.header_state = h_state]
<1>1. pc = "value" /\ p < len
  BY DEF ValueLF, InValue
<1>2. /\ Types /\ CallsInOrder /\ Shape(parser.state, p) /\ parser.state = "s_header_value" /\ p \in Nat /\ len \in Nat
      /\ PieceOf(parser.state) = "header_value" /\ "header_value" \in Piece /\ p \in p..len
      /\ p - start \in Nat /\ h_state \in HeaderState /\ parser \in Parser /\ parser.http_errno = "OK"
  BY <1>1, ValueFacts, ValueStates DEF Piece
<1>3. t \in Parser /\ t.http_errno = "OK" /\ t.state = "s_header_almost_done"
  BY <1>2, ValueStates, ToFacts
<1>4. Error(q, "HEADER_OVERFLOW") \/ (Callback("header_value", p) /\ Reexecute(r))
  BY DEF ValueLF
<1> HIDE DEF t
<1>5. q \in Parser /\ q.http_errno = "OK" /\ q.state = "s_header_almost_done"
  BY <1>2, <1>3, CountedFacts
<1> HIDE DEF q
<1>6. r \in Parser /\ r.http_errno = "OK" /\ r.state = "s_header_almost_done"
  BY <1>2, <1>5 DEF Parser
<1> HIDE DEF r
<1>7. CASE Error(q, "HEADER_OVERFLOW")
  BY <1>5, <1>7, LoopErrors, ErrorInv
<1>8. CASE Callback("header_value", p) /\ Reexecute(r)
  <2>1. Control(r)
    BY <1>6, ValueStates, PlainControl
  <2>2. data' = data /\ p' = p /\ parser' = r
    BY <1>8 DEF Reexecute
  <2>3. p' \in Nat /\ p' >= p
    BY <1>2, <2>2
  <2>4. calls' \in Seq(Call)' /\ mark' \in Marks /\ CallsInOrder' /\ Shape(parser.state, p)'
    BY <1>2, <1>6, <1>8, <2>2, <2>3, ValueStates, CallbackShape
  <2> QED BY <1>1, <1>6, <1>8, <2>1, <2>4, ValueStates, ReexecuteInv
<1> QED BY <1>4, <1>7, <1>8

LEMMA Remainder == ASSUME NEW n \in Nat, NEW m \in Nat PROVE n % (m + 1) \in 0..m /\ (n <= m => n % (m + 1) = n)
<1>1. m + 1 \in Nat /\ m + 1 > 0
  OBVIOUS
<1> QED BY <1>1, SMTT(30)

LEMMA ShiftedFacts ==
  ASSUME parser \in Parser, NEW base \in {10, 16}, IS_HEX(ch) PROVE Shifted(base) \in Length
<1>1. parser.content_length \in Nat /\ unhex(ch) \in Nat /\ ULLONG_MAX \in Nat
  BY DigitValue, WidthAssumption DEF Parser, Length
<1>2. base * parser.content_length + unhex(ch) \in Nat
  <2>1. base = 10 \/ base = 16
    OBVIOUS
  <2> QED BY <1>1, <2>1
<1> QED BY <1>1, <1>2, Remainder DEF Shifted, Length

\* Skipping, reading a digit and reading an option.
LEMMA ValueLoopInv == ASSUME ParserInv, ValueSkipped \/ ValueDigit \/ ValueWord PROVE ParserInv'
<1>1. pc = "value" /\ p < len
  BY DEF ValueSkipped, ValueDigit, ValueWord, InValue
<1>2. /\ parser \in Parser /\ parser.http_errno = "OK" /\ parser.state = "s_header_value"
      /\ p \in Nat /\ len \in Nat /\ p + 1 \in p..len /\ h_state \in ValueHeader /\ h_state \in HeaderState
  BY <1>1, ValueFacts
<1>3. CASE ValueSkipped
  <2>1. p' \in p..len /\ UNCHANGED <<data, pc, parser, start, h_state>> /\ Silent
    BY <1>3 DEF ValueSkipped, localVars, Silent
  <2> QED BY <1>1, <1>2, <2>1, LoopInv
<1>4. CASE ValueDigit
  <2>1. CASE p' = p + 1 /\ UNCHANGED <<data, pc, parser, outVars, localVars>>
    <3>1. p' \in p..len /\ UNCHANGED <<data, pc, parser, start, h_state>> /\ Silent
      BY <1>2, <2>1 DEF localVars, Silent
    <3> QED BY <1>1, <1>2, <3>1, LoopInv
  <2>2. CASE Error([parser EXCEPT !.header_state = h_state], "INVALID_CONTENT_LENGTH")
    <3> DEFINE q == [parser EXCEPT !.header_state = h_state]
    <3>1. q \in Parser
      BY <1>2 DEF Parser
    <3>2. Error(q, "INVALID_CONTENT_LENGTH")
      BY <2>2
    <3> HIDE DEF q
    <3> QED BY <3>1, <3>2, LoopErrors, ErrorInv
  <2>3. CASE IS_NUM(ch) /\ parser' = [parser EXCEPT !.content_length = Shifted(10)] /\ p' = p + 1
             /\ UNCHANGED <<data, pc, outVars, localVars>>
    <3> DEFINE n == Shifted(10)
               q == [parser EXCEPT !.content_length = n]
    <3>1. n \in Length
      BY <1>2, <2>3, DigitValue, ShiftedFacts
    <3>2. p' \in p..len /\ UNCHANGED <<data, pc, start, h_state>> /\ Silent /\ parser' = q
      BY <1>2, <2>3 DEF localVars, Silent
    <3> HIDE DEF n
    <3>3. q \in Parser /\ q.http_errno = "OK" /\ q.state = "s_header_value" /\ q.header_state = parser.header_state
      BY <1>2, <3>1 DEF Parser
    <3> HIDE DEF q
    <3> QED BY <1>1, <1>2, <3>2, <3>3, LoopInv
  <2> QED BY <1>4, <2>1, <2>2, <2>3 DEF ValueDigit
<1>5. CASE ValueWord
  <2> DEFINE g == parser.flags \cup (IF ch = "," /\ h_state # "h_transfer_encoding_chunked" THEN FlagOf(h_state) ELSE {})
             q == [parser EXCEPT !.flags = g]
  <2>1. g \in Flags
    BY <1>2, FlagFacts DEF Parser, Flags
  <2>2. parser' = q /\ p' \in p..len /\ UNCHANGED <<data, pc, start>> /\ Silent
    BY <1>2, <1>5 DEF ValueWord, Silent
  <2> HIDE DEF g
  <2>3. q \in Parser /\ q.http_errno = "OK" /\ q.state = "s_header_value" /\ q.header_state = parser.header_state
    BY <1>2, <2>1 DEF Parser
  <2> HIDE DEF q
  <2>4. h_state' \in ValueHeader
    <3>1. {"h_general", "h_matching_connection_token", "h_matching_connection_token_start"} \subseteq ValueHeader
      BY DEF ValueHeader, HeaderState
    <3>2. PICK c, o : /\ o \in {"h_matching_connection_token", "h_general", h_state}
                      /\ h_state' \in {Option(c, o), "h_matching_connection_token", h_state, "h_general",
                                       "h_matching_connection_token_start"}
      <4>1. PICK c : c = LOWER(ch)
        OBVIOUS
      <4>2. PICK o : o = IF TOKEN(c) THEN "h_matching_connection_token"
                         ELSE IF c \in {SP, TAB} THEN h_state ELSE "h_general"
        OBVIOUS
      <4>3. h_state' \in {Option(c, o), "h_matching_connection_token", h_state, "h_general", "h_matching_connection_token_start"}
        BY <1>5, <4>1, <4>2 DEF ValueWord
      <4> QED BY <4>2, <4>3
    <3>3. o \in ValueHeader
      BY <1>2, <3>1, <3>2
    <3> QED BY <1>2, <3>1, <3>2, <3>3, OptionFacts
  <2> QED BY <1>1, <2>2, <2>3, <2>4, LoopInv
<1> QED BY <1>3, <1>4, <1>5

\* All cases of the headers.
LEMMA HeaderInv == ASSUME ParserInv, Header PROVE ParserInv'
  BY HeaderFieldStartInv, HeaderFieldInv, DiscardInv, DiscardLwsInv, HeaderValueInv, ValueEndInv, ValueCRInv, ValueLFInv,
     ValueLoopInv DEF Header

-----------------------------------------------------------------------------
\* The end of the headers.
Bodies == ChunkState \cup {"s_body_identity", "s_body_identity_eof", "s_message_done"}

LEMMA BodyFacts ==
  ASSUME NEW s \in Bodies
  PROVE  /\ s \in State /\ s \notin Pending \cup Ended /\ s \notin {"s_header_field", "s_header_value"}
         /\ PieceOf(s) = IF s \in {"s_body_identity", "s_body_identity_eof", "s_chunk_data", "s_chunk_data_almost_done"}
                         THEN "body" ELSE "none"
<1>1. s \in State
  BY DEF Bodies, ChunkState, State, HeaderPartState, BodyState
<1>2. s \notin Pending \cup Ended /\ s \notin {"s_header_field", "s_header_value"}
  BY DEF Bodies, ChunkState, Pending, Ended
<1>3. s \notin UrlState /\ s \notin {"s_res_status", "s_header_field", "s_header_value"}
  BY DEF Bodies, ChunkState, UrlState
<1> QED BY <1>1, <1>2, <1>3 DEF PieceOf

\* The states where no piece is open.
LEMMA Following ==
  ASSUME NEW s, NEW t, PieceOf(s) = "none", s \notin Pending \cup Ended, t \in Bodies \cup Calm
  PROVE  Follows(s, t)
<1>1. t \notin Pending \cup Ended /\ t \notin {"s_header_field", "s_header_value"}
  BY BodyFacts, CalmFacts
<1> QED BY <1>1 DEF Follows

LEMMA NewMessage == \A q : NEW_MESSAGE(q) \in Calm
  BY DEF NEW_MESSAGE, Calm

LEMMA HeadersAlmostDoneInv == ASSUME ParserInv, HeadersAlmostDone PROVE ParserInv'
<1>1. pc = "switch" /\ parser.state = "s_headers_almost_done" /\ parser.state \in Calm
  BY DEF HeadersAlmostDone, At, Calm
<1>2. parser \in Parser /\ parser.http_errno = "OK"
  BY <1>1, SwitchFacts
<1>3. CASE Error(parser, "STRICT")
  BY <1>1, <1>3, FailHere, StartFailures
<1>4. CASE Reexecute(To("s_message_done")) /\ Silent
  <2> DEFINE q == To("s_message_done")
  <2>1. "s_message_done" \in Bodies /\ "s_message_done" \notin Special
    BY DEF Bodies, Special, ChunkState
  <2>2. q \in Parser /\ q.http_errno = "OK" /\ q.state = "s_message_done"
    BY <1>2, <2>1, ToFacts, BodyFacts
  <2>3. Reexecute(q) /\ Silent
    BY <1>4
  <2> HIDE DEF q
  <2>4. Control(q) /\ Follows(parser.state, q.state)
    BY <1>1, <2>1, <2>2, CalmFacts, PlainControl, Following
  <2> QED BY <1>1, <2>2, <2>3, <2>4, ReexecuteSilent
<1>5. CASE /\ Reexecute([parser EXCEPT !.state   = "s_headers_done",
                                       !.upgrade = \/ {"F_UPGRADE", "F_CONNECTION_UPGRADE"} \subseteq parser.flags
                                                   \/ parser.method = "CONNECT"])
           /\ Silent
  <2> DEFINE b == {"F_UPGRADE", "F_CONNECTION_UPGRADE"} \subseteq parser.flags \/ parser.method = "CONNECT"
             q == [parser EXCEPT !.state = "s_headers_done", !.upgrade = b]
  <2>1. b \in BOOLEAN
    OBVIOUS
  <2>2. "s_headers_done" \in Calm /\ "s_headers_done" \in State
    BY CalmFacts DEF Calm
  <2>3. Reexecute(q) /\ Silent
    BY <1>5
  <2> HIDE DEF b
  <2>4. q \in Parser /\ q.http_errno = "OK" /\ q.state \in Calm
    BY <1>2, <2>1, <2>2 DEF Parser
  <2> HIDE DEF q
  <2> QED BY <1>1, <2>3, <2>4, CalmStep
<1> QED BY <1>3, <1>4, <1>5 DEF HeadersAlmostDone

LEMMA HeadersDoneInv == ASSUME ParserInv, HeadersDone PROVE ParserInv'
<1>1. pc = "switch" /\ parser.state = "s_headers_done" /\ parser.state \in Calm
  BY DEF HeadersDone, At, Calm
<1>2. parser \in Parser /\ parser.http_errno = "OK"
  BY <1>1, SwitchFacts
<1> DEFINE q == [parser EXCEPT !.nread = 0]
<1>3. \/ Error(parser, "STRICT")
      \/ Return([q EXCEPT !.state = NEW_MESSAGE(q)]) /\ Silent
      \/ \E s : /\ Break([q EXCEPT !.state = s]) /\ Silent
                /\ \/ s = "s_chunk_size_start" /\ "F_CHUNKED" \in q.flags
                   \/ s = "s_body_identity" /\ q.content_length \notin {0, ULLONG_MAX}
                   \/ s = "s_body_identity_eof"
                   \/ s = NEW_MESSAGE(q)
  BY DEF HeadersDone
<1>4. q \in Parser /\ q.http_errno = "OK" /\ q.nread = 0
  BY <1>2 DEF Parser
<1> HIDE DEF q
<1>5. CASE Error(parser, "STRICT")
  BY <1>1, <1>5, FailHere, StartFailures
<1>6. CASE Return([q EXCEPT !.state = NEW_MESSAGE(q)]) /\ Silent
  <2> DEFINE s == NEW_MESSAGE(q)
             r == [q EXCEPT !.state = s]
  <2>1. s \in State
    BY NewMessage, CalmFacts
  <2>2. Return(r) /\ Silent
    BY <1>6
  <2> HIDE DEF s
  <2>3. r \in Parser
    BY <1>4, <2>1 DEF Parser
  <2> HIDE DEF r
  <2> QED BY <1>1, <2>2, <2>3, ReturnInv
<1>7. ASSUME NEW s, Break([q EXCEPT !.state = s]), Silent,
             \/ s = "s_chunk_size_start" /\ "F_CHUNKED" \in q.flags
             \/ s = "s_body_identity" /\ q.content_length \notin {0, ULLONG_MAX}
             \/ s = "s_body_identity_eof"
             \/ s = NEW_MESSAGE(q)
      PROVE  ParserInv'
  <2> DEFINE r == [q EXCEPT !.state = s]
  <2>1. s \in Bodies \cup Calm
    BY <1>7, NewMessage DEF Bodies, ChunkState
  <2>2. s \in State
    BY <2>1, BodyFacts, CalmFacts
  <2>3. r \in Parser /\ r.http_errno = "OK" /\ r.state = s /\ r.nread = 0 /\ r.flags = q.flags
        /\ r.content_length = q.content_length
    BY <1>4, <2>2 DEF Parser
  <2>4. Break(r)
    BY <1>7
  <2> HIDE DEF r
  <2>5. s \in Calm => s \notin Special /\ s # "s_message_done"
    BY CalmFacts
  <2>6. s = "s_body_identity_eof" => s \notin Special /\ s # "s_message_done"
    BY DEF Special, ChunkState
  <2>7. Control(r)
    <3>1. CASE s = "s_chunk_size_start" /\ "F_CHUNKED" \in q.flags
      BY <2>3, <3>1 DEF Control
    <3>2. CASE s = "s_body_identity" /\ q.content_length \notin {0, ULLONG_MAX}
      BY <2>3, <3>2 DEF Control, ChunkState
    <3>3. CASE s = "s_body_identity_eof" \/ s \in Calm
      BY <2>3, <2>5, <2>6, <3>3, PlainControl
    <3> QED BY <1>7, <3>1, <3>2, <3>3, NewMessage
  <2>8. s # "s_message_done"
    BY <1>7, <2>5, NewMessage
  <2>9. Follows(parser.state, s)
    BY <1>1, <2>1, CalmFacts, Following
  <2> QED BY <1>1, <1>7, <2>3, <2>4, <2>7, <2>8, <2>9, BreakSilent
<1> QED BY <1>3, <1>5, <1>6, <1>7

LEMMA MessageDoneInv == ASSUME ParserInv, MessageDone PROVE ParserInv'
<1> DEFINE q == To(NEW_MESSAGE(parser))
<1>1. pc = "switch" /\ parser.state = "s_message_done" /\ Silent /\ (Return(q) \/ Break(q))
  BY DEF MessageDone, At
<1>2. parser.state \in Bodies
  BY <1>1 DEF Bodies
<1>3. q \in Parser /\ q.http_errno = "OK" /\ q.state \in Calm
  <2>1. NEW_MESSAGE(parser) \in Calm
    BY NewMessage
  <2> QED BY <1>1, <2>1, SwitchFacts, CalmTo
<1> HIDE DEF q
<1>4. Follows(parser.state, q.state)
  BY <1>1, <1>2, <1>3, BodyFacts, Following
<1>5. Control(q)
  BY <1>3, CalmFacts, PlainControl
<1> QED BY <1>1, <1>3, <1>4, <1>5, CalmFacts, ReturnInv, BreakSilent

-----------------------------------------------------------------------------
\* The body and the chunks.
LEMMA ToReadFacts ==
  ASSUME ParserInv, pc = "switch", parser.content_length # 0
  PROVE  /\ parser.content_length \in Length /\ parser.content_length \in Nat
         /\ ToRead \in Nat /\ ToRead > 0 /\ ToRead <= parser.content_length /\ ToRead <= len - p
         /\ parser.content_length - ToRead \in Length /\ parser.content_length - ToRead < parser.content_length
         /\ parser.content_length - ToRead # ULLONG_MAX
         /\ p + ToRead \in Nat /\ p + ToRead \in Pos /\ p + ToRead > p /\ p + ToRead <= len
         /\ p + ToRead - 1 \in Nat /\ p + ToRead - 1 \in Pos /\ p + ToRead - 1 < len
         /\ p + ToRead - 1 + 1 = p + ToRead
<1>1. parser.content_length \in Length /\ p \in Nat /\ len \in Nat /\ p < len
  BY SwitchFacts DEF Parser
<1>2. parser.content_length \in Nat /\ parser.content_length > 0 /\ parser.content_length <= ULLONG_MAX
      /\ ULLONG_MAX \in Nat
  BY <1>1, WidthAssumption DEF Length
<1>3. ToRead \in Nat /\ ToRead > 0 /\ ToRead <= parser.content_length /\ ToRead <= len - p
  BY <1>1, <1>2 DEF ToRead
<1> HIDE DEF ToRead
<1>4. p + ToRead \in Nat /\ p + ToRead > p /\ p + ToRead <= len /\ p + ToRead - 1 \in Nat
      /\ p + ToRead - 1 < len /\ p + ToRead - 1 + 1 = p + ToRead
  BY <1>1, <1>3
<1>5. parser.content_length - ToRead \in 0..ULLONG_MAX /\ parser.content_length - ToRead < parser.content_length
      /\ parser.content_length - ToRead # ULLONG_MAX
  BY <1>2, <1>3
<1> QED BY <1>1, <1>2, <1>3, <1>4, <1>5 DEF Pos, Length

LEMMA BodyIdentityInv == ASSUME ParserInv, BodyIdentity PROVE ParserInv'
<1> DEFINE n    == ToRead
           left == parser.content_length - n
           q    == [parser EXCEPT !.content_length = left]
           from == IF mark["body"] = NoMark THEN p ELSE mark["body"]
<1>1. /\ pc = "switch" /\ parser.state = "s_body_identity" /\ data' = data /\ UNCHANGED localVars
      /\ \/ /\ q.content_length = 0
            /\ calls' = Append(calls, [on |-> "body", at |-> from, length |-> p + n - from])
            /\ mark'  = [mark EXCEPT !["body"] = NoMark]
            /\ parser' = [q EXCEPT !.state = "s_message_done"] /\ p' = p + n - 1 /\ pc' = "switch"
         \/ /\ q.content_length # 0
            /\ MARK("body")
            /\ parser' = q /\ p' = p + n /\ pc' = "next"
  BY DEF BodyIdentity, At
<1>2. /\ Types /\ CallsInOrder /\ Control(parser) /\ Shape(parser.state, p) /\ p \in Nat /\ len \in Nat /\ p \in Pos
      /\ parser \in Parser /\ parser.http_errno = "OK"
  BY <1>1, SwitchFacts DEF Types
<1>3. /\ "s_body_identity" \in Bodies /\ "s_message_done" \in Bodies /\ "s_body_identity" \notin ChunkState
      /\ "s_message_done" \notin Special /\ "body" \in Piece
  BY DEF Bodies, ChunkState, Special, Piece
<1>4. /\ PieceOf("s_body_identity") = "body" /\ "s_body_identity" \notin Pending \cup Ended
      /\ "s_message_done" \in State /\ "s_message_done" \notin Pending \cup Ended
  BY <1>3, BodyFacts
<1>5. parser.content_length # 0
  BY <1>1, <1>2 DEF Control
<1>6. /\ left \in Length /\ n \in Nat /\ left # ULLONG_MAX
      /\ p + n \in Nat /\ p + n \in Pos /\ p + n > p /\ p + n <= len
      /\ p + n - 1 \in Nat /\ p + n - 1 \in Pos /\ p + n - 1 < len /\ p + n - 1 + 1 = p + n
  BY <1>1, <1>5, ToReadFacts
<1> HIDE DEF n, left
<1>7. q \in Parser /\ q.http_errno = "OK" /\ q.state = "s_body_identity" /\ q.content_length = left
  BY <1>1, <1>2, <1>6 DEF Parser
<1> HIDE DEF q
<1>8. CASE /\ q.content_length # 0
           /\ MARK("body")
           /\ parser' = q /\ p' = p + n /\ pc' = "next"
  <2>1. Control(q)
    BY <1>3, <1>6, <1>7, <1>8 DEF Control
  <2>2. p' \in Nat /\ p' > p /\ p' \in Pos
    BY <1>6, <1>8
  <2>3. mark' \in Marks /\ Shape(parser.state, p)'
    BY <1>1, <1>2, <1>3, <1>4, <1>7, <1>8, <2>2, MarkShape
  <2>4. calls' \in Seq(Call)' /\ CallsInOrder'
    BY <1>1, <1>2, <1>8, SameData DEF MARK, Types, CallsInOrder
  <2> QED BY <1>1, <1>7, <1>8, <2>1, <2>2, <2>3, <2>4, GoOnInv
<1>9. CASE /\ calls' = Append(calls, [on |-> "body", at |-> from, length |-> p + n - from])
           /\ mark'  = [mark EXCEPT !["body"] = NoMark]
           /\ parser' = [q EXCEPT !.state = "s_message_done"] /\ p' = p + n - 1 /\ pc' = "switch"
  <2> DEFINE c == [on |-> "body", at |-> from, length |-> p + n - from]
             r == [q EXCEPT !.state = "s_message_done"]
  <2>1. parser' = r /\ calls' = Append(calls, c)
    BY <1>9
  <2>2. r \in Parser /\ r.http_errno = "OK" /\ r.state = "s_message_done"
    BY <1>4, <1>7 DEF Parser
  <2> HIDE DEF r
  <2>3. Ends <= p /\ Ends \in Nat /\ LastOn # "header_field"
    BY <1>1, <1>2, <1>4, EndsNat, ShapeFacts
  <2>4. from \in Pos /\ from \in Nat /\ from <= p /\ Ends <= from
    <3>1. mark["body"] \in {NoMark} \cup Pos
      BY <1>2, <1>3 DEF Types, Marks
    <3>2. mark["body"] # NoMark => Ends <= mark["body"] /\ mark["body"] < p
      BY <1>2, <1>3 DEF Shape
    <3>3. mark["body"] # NoMark => mark["body"] \in Nat
      BY <3>1 DEF Pos
    <3> QED BY <1>2, <2>3, <3>1, <3>2, <3>3
  <2> HIDE DEF from
  <2>5. p + n - from \in Pos /\ p + n - from # 0 /\ from + (p + n - from) = p + n
    BY <1>2, <1>6, <2>4 DEF Pos
  <2>6. c \in Call /\ c.at = from /\ c.at + c.length = p + n /\ c.length # 0 /\ c.on = "body"
    BY <1>3, <2>4, <2>5 DEF Call
  <2> HIDE DEF c
  <2>7. calls' \in Seq(Call)' /\ CallsInOrder' /\ Ends' = p + n /\ LastOn' = "body"
    BY <1>1, <1>2, <1>6, <2>1, <2>3, <2>4, <2>6, AppendOrder
  <2>8. mark' \in Marks /\ \A f \in Piece : mark'[f] = NoMark
    <3>1. \A f \in Piece : mark[f] # NoMark => f = "body"
      BY <1>1, <1>2, <1>4 DEF Shape
    <3> QED BY <1>2, <1>9, <3>1 DEF Types, Marks
  <2>9. Shape(parser.state, p)'
    <3>1. Ends' <= p' + 1
      BY <1>6, <1>9, <2>7
    <3> QED BY <1>4, <2>1, <2>2, <2>7, <2>8, <3>1 DEF Shape
  <2>10. Types'
    BY <1>1, <1>2, <1>6, <1>9, <2>1, <2>2, <2>7, <2>8, SameData DEF Types, Place, localVars
  <2>11. Running'
    BY <1>3, <1>9, <2>1, <2>2, <2>9, PlainControl DEF Running
  <2>12. p' < len'
    BY <1>1, <1>6, <1>9, SameData
  <2> QED BY <1>9, <2>7, <2>10, <2>11, <2>12 DEF ParserInv
<1> QED BY <1>1, <1>8, <1>9

LEMMA BodyIdentityEofInv == ASSUME ParserInv, BodyIdentityEof PROVE ParserInv'
<1>1. pc = "switch" /\ parser.state = "s_body_identity_eof" /\ MARK("body") /\ p' = len /\ pc' = "next"
      /\ data' = data /\ parser' = parser /\ UNCHANGED localVars
  BY DEF BodyIdentityEof, At
<1>2. /\ Types /\ CallsInOrder /\ Control(parser) /\ Shape(parser.state, p) /\ p \in Nat /\ len \in Nat /\ p < len
  BY <1>1, SwitchFacts
<1>3. parser.state \in Bodies /\ "body" \in Piece
  BY <1>1 DEF Bodies, Piece
<1>4. p' \in Nat /\ p' > p /\ p' \in Pos
  BY <1>1, <1>2 DEF Pos
<1>5. mark' \in Marks /\ Shape(parser.state, p)'
  BY <1>1, <1>2, <1>3, <1>4, BodyFacts, MarkShape
<1>6. calls' \in Seq(Call)' /\ CallsInOrder'
  BY <1>1, <1>2, SameData DEF MARK, Types, CallsInOrder
<1> QED BY <1>1, <1>2, <1>4, <1>5, <1>6, GoOnInv

\* Chunks: the size is not known until it is read, and then not ULLONG_MAX.
LEMMA ChunkMove ==
  ASSUME ParserInv, pc = "switch", parser.state \in ChunkState \ {"s_chunk_data", "s_chunk_data_almost_done"},
         NEW q \in Parser, Control(q), q.state \in Bodies \cup Calm, q.state # "s_message_done",
         q.state = "s_chunk_size_start" => q.nread = 0, Silent, Break(q)
  PROVE  ParserInv'
<1>1. parser.state \in Bodies /\ PieceOf(parser.state) = "none" /\ parser.state \notin Pending \cup Ended
  <2>1. parser.state \in Bodies /\ parser.state \notin {"s_body_identity", "s_body_identity_eof"}
    BY DEF Bodies, ChunkState
  <2> QED BY <2>1, BodyFacts
<1>2. Follows(parser.state, q.state)
  BY <1>1, Following
<1> QED BY <1>2, BreakSilent

Sizes == {"s_chunk_size", "s_chunk_parameters", "s_chunk_size_almost_done"}

LEMMA SizeControl ==
  ASSUME NEW q \in Parser, q.http_errno = "OK", q.state \in Sizes, "F_CHUNKED" \in q.flags, q.content_length < ULLONG_MAX
  PROVE  Control(q)
  BY DEF Control, Sizes

LEMMA SizeStates == \A s \in Sizes : s \in State /\ s \in ChunkState /\ s \in Bodies
                      /\ s \notin {"s_message_done", "s_chunk_size_start", "s_chunk_data", "s_chunk_data_almost_done"}
<1>1. \A s \in Sizes : s \in ChunkState /\ s \in Bodies
                      /\ s \notin {"s_message_done", "s_chunk_size_start", "s_chunk_data", "s_chunk_data_almost_done"}
  BY DEF Sizes, ChunkState, Bodies
<1> QED BY <1>1, BodyFacts

LEMMA ChunkFailures == {"INVALID_CHUNK_SIZE", "INVALID_CONTENT_LENGTH", "STRICT"} \subseteq Failures
  BY DEF Failures, Errno, http_errno

\* The conservative test keeps a chunk's size below ULLONG_MAX.
LEMMA SizeFits ==
  ASSUME parser \in Parser, IS_HEX(ch), ~Overflows(16) PROVE Shifted(16) \in Length /\ Shifted(16) < ULLONG_MAX
<1> DEFINE m == ULLONG_MAX
           n == parser.content_length
           d == unhex(ch)
<1>1. m \in Nat /\ m >= 16 /\ n \in Nat /\ d \in 0..15
  BY DigitValue, WidthAssumption DEF Parser, Length
<1>2. ~((m - 16) \div 16 < n)
  BY DEF Overflows
<1> HIDE DEF m, n, d
<1>3. 16 * n <= m - 16
  <2>1. m - 16 \in Nat
    BY <1>1
  <2>2. \A k \in Nat : k \div 16 \in Nat /\ 16 * (k \div 16) <= k
    OBVIOUS
  <2>3. n <= (m - 16) \div 16
    BY <1>1, <1>2, <2>1, <2>2
  <2> QED BY <1>1, <2>1, <2>2, <2>3
<1>4. 16 * n + d \in Nat /\ 16 * n + d < m /\ 16 * n + d <= m
  BY <1>1, <1>3
<1>5. Shifted(16) = 16 * n + d
  <2>1. (16 * n + d) % (m + 1) = 16 * n + d
    BY <1>1, <1>4, Remainder
  <2> QED BY <2>1 DEF Shifted, m, n, d
<1>6. Shifted(16) \in 0..m /\ Shifted(16) < m
  BY <1>1, <1>4, <1>5
<1> QED BY <1>6 DEF Length, m

LEMMA ChunkSizeInv ==
  ASSUME ParserInv, ChunkSizeStart \/ ChunkSize \/ ChunkParameters PROVE ParserInv'
<1>1. pc = "switch" /\ parser.state \in {"s_chunk_size_start", "s_chunk_size", "s_chunk_parameters"}
  BY DEF ChunkSizeStart, ChunkSize, ChunkParameters, At
<1>2. parser.state \in ChunkState \ {"s_chunk_data", "s_chunk_data_almost_done"}
  BY <1>1 DEF ChunkState
<1>3. parser \in Parser /\ parser.http_errno = "OK" /\ "F_CHUNKED" \in parser.flags
  BY <1>1, <1>2, SwitchFacts DEF Control
<1>4. \A s \in {"s_chunk_size", "s_chunk_parameters", "s_chunk_size_almost_done"} : s \in Sizes
  BY DEF Sizes
<1>5. ASSUME NEW q \in Parser, q.http_errno = "OK", q.state \in Sizes, "F_CHUNKED" \in q.flags,
             q.content_length < ULLONG_MAX, Break(q), Silent
      PROVE  ParserInv'
  BY <1>1, <1>2, <1>5, SizeControl, SizeStates, ChunkMove
<1>6. CASE \E e \in Failures : Error(parser, e)
  BY <1>1, <1>6, FailHere
<1>7. parser.state # "s_chunk_size_start" => parser.content_length < ULLONG_MAX
  BY <1>1, SwitchFacts DEF Control
<1>8. ASSUME NEW s \in Sizes, Break(To(s)), Silent, parser.state # "s_chunk_size_start" PROVE ParserInv'
  <2> DEFINE q == To(s)
  <2>1. q \in Parser /\ q.http_errno = "OK" /\ q.state = s /\ "F_CHUNKED" \in q.flags /\ q.content_length < ULLONG_MAX
    BY <1>3, <1>7, <1>8, SizeStates, ToFacts
  <2>2. Break(q)
    BY <1>8
  <2> HIDE DEF q
  <2> QED BY <1>5, <1>8, <2>1, <2>2
<1>9. ASSUME NEW n \in Length, n < ULLONG_MAX, NEW s \in Sizes, Silent,
             Break([parser EXCEPT !.content_length = n, !.state = s])
      PROVE  ParserInv'
  <2> DEFINE q == [parser EXCEPT !.content_length = n, !.state = s]
  <2>1. q \in Parser /\ q.http_errno = "OK" /\ q.state = s /\ "F_CHUNKED" \in q.flags /\ q.content_length < ULLONG_MAX
    BY <1>3, <1>9, SizeStates DEF Parser
  <2>2. Break(q)
    BY <1>9
  <2> HIDE DEF q
  <2> QED BY <1>5, <1>9, <2>1, <2>2
<1>10. CASE ChunkSizeStart
  <2>1. CASE IS_HEX(ch) /\ Silent /\ Break([parser EXCEPT !.content_length = unhex(ch), !.state = "s_chunk_size"])
    <3>1. unhex(ch) \in Length /\ unhex(ch) < ULLONG_MAX
      BY <2>1, DigitValue, WidthAssumption DEF Length
    <3> QED BY <1>4, <1>9, <2>1, <3>1
  <2> QED BY <1>6, <1>10, <2>1, ChunkFailures DEF ChunkSizeStart
<1>11. CASE ChunkSize
  <2>1. parser.state = "s_chunk_size"
    BY <1>11 DEF ChunkSize, At
  <2>2. CASE IS_HEX(ch) /\ ~Overflows(16) /\ Break([parser EXCEPT !.content_length = Shifted(16)]) /\ Silent
    <3> DEFINE n == Shifted(16)
    <3>1. n \in Length /\ n < ULLONG_MAX
      BY <1>3, <2>2, SizeFits
    <3>2. Break([parser EXCEPT !.content_length = n]) /\ Silent
      BY <2>2
    <3> HIDE DEF n
    <3>3. [parser EXCEPT !.content_length = n, !.state = "s_chunk_size"] = [parser EXCEPT !.content_length = n]
      BY <1>3, <2>1 DEF Parser
    <3> QED BY <1>4, <1>9, <3>1, <3>2, <3>3
  <2>3. CASE \E s \in Sizes : Break(To(s)) /\ Silent
    BY <1>8, <2>1, <2>3
  <2> QED BY <1>4, <1>6, <1>11, <2>2, <2>3, ChunkFailures DEF ChunkSize
<1>12. CASE ChunkParameters
  <2>1. parser.state = "s_chunk_parameters" /\ Silent /\ (Break(To("s_chunk_size_almost_done")) \/ Break(parser))
    BY <1>12 DEF ChunkParameters, At
  <2>2. CASE Break(parser)
    BY <1>3, <1>4, <1>5, <1>7, <2>1, <2>2
  <2> QED BY <1>4, <1>8, <2>1, <2>2
<1> QED BY <1>10, <1>11, <1>12

LEMMA ChunkSizeAlmostDoneInv == ASSUME ParserInv, ChunkSizeAlmostDone PROVE ParserInv'
<1>1. pc = "switch" /\ parser.state = "s_chunk_size_almost_done"
  BY DEF ChunkSizeAlmostDone, At
<1>2. parser.state \in ChunkState \ {"s_chunk_data", "s_chunk_data_almost_done"}
  BY <1>1 DEF ChunkState
<1>3. parser \in Parser /\ parser.http_errno = "OK" /\ "F_CHUNKED" \in parser.flags /\ parser.content_length < ULLONG_MAX
  BY <1>1, <1>2, SwitchFacts DEF Control
<1> DEFINE q == [parser EXCEPT !.nread = 0]
<1>4. \/ Error(parser, "STRICT")
      \/ Break([q EXCEPT !.flags = @ \cup {"F_TRAILING"}, !.state = "s_header_field_start"]) /\ Silent
      \/ q.content_length # 0 /\ Break([q EXCEPT !.state = "s_chunk_data"]) /\ Silent
  BY DEF ChunkSizeAlmostDone
<1>5. q \in Parser /\ q.http_errno = "OK" /\ q.flags = parser.flags /\ q.content_length = parser.content_length
  BY <1>3 DEF Parser
<1> HIDE DEF q
<1>6. CASE Error(parser, "STRICT")
  BY <1>1, <1>6, FailHere, ChunkFailures
<1>7. CASE Break([q EXCEPT !.flags = @ \cup {"F_TRAILING"}, !.state = "s_header_field_start"]) /\ Silent
  <2> DEFINE g == q.flags \cup {"F_TRAILING"}
             r == [q EXCEPT !.flags = g, !.state = "s_header_field_start"]
  <2>1. g \in Flags /\ "s_header_field_start" \in Calm /\ "s_header_field_start" \in State
    BY <1>5, CalmFacts DEF Parser, Flags, Flag, Calm
  <2>2. Break(r)
    BY <1>7
  <2> HIDE DEF g
  <2>3. r \in Parser /\ r.http_errno = "OK" /\ r.state = "s_header_field_start"
    BY <1>5, <2>1 DEF Parser
  <2> HIDE DEF r
  <2>4. Control(r)
    BY <2>1, <2>3, CalmFacts, PlainControl
  <2> QED BY <1>1, <1>2, <1>7, <2>1, <2>2, <2>3, <2>4, ChunkMove
<1>8. CASE q.content_length # 0 /\ Break([q EXCEPT !.state = "s_chunk_data"]) /\ Silent
  <2> DEFINE r == [q EXCEPT !.state = "s_chunk_data"]
  <2>1. "s_chunk_data" \in Bodies /\ "s_chunk_data" \in State
    <3>1. "s_chunk_data" \in Bodies
      BY DEF Bodies, ChunkState
    <3> QED BY <3>1, BodyFacts
  <2>2. Break(r)
    BY <1>8
  <2>3. r \in Parser /\ r.http_errno = "OK" /\ r.state = "s_chunk_data" /\ "F_CHUNKED" \in r.flags
        /\ r.content_length = q.content_length
    BY <1>3, <1>5, <2>1 DEF Parser
  <2> HIDE DEF r
  <2>4. r.content_length \notin {0, ULLONG_MAX}
    <3>1. q.content_length \in Nat /\ ULLONG_MAX \in Nat
      BY <1>5, WidthAssumption DEF Parser, Length
    <3> QED BY <1>3, <1>5, <1>8, <2>3, <3>1
  <2>5. Control(r)
    BY <2>3, <2>4 DEF Control
  <2> QED BY <1>1, <1>2, <1>8, <2>1, <2>2, <2>3, <2>5, ChunkMove
<1> QED BY <1>4, <1>6, <1>7, <1>8

LEMMA ChunkDataInv == ASSUME ParserInv, ChunkData PROVE ParserInv'
<1> DEFINE n    == ToRead
           left == parser.content_length - n
           s    == IF parser.content_length = n THEN "s_chunk_data_almost_done" ELSE parser.state
           q    == [parser EXCEPT !.content_length = left, !.state = s]
<1>1. /\ pc = "switch" /\ parser.state = "s_chunk_data" /\ data' = data /\ UNCHANGED localVars
      /\ MARK("body") /\ parser' = q /\ p' = p + n /\ pc' = "next"
  BY DEF ChunkData, At
<1>2. /\ Types /\ CallsInOrder /\ Control(parser) /\ Shape(parser.state, p) /\ p \in Nat /\ len \in Nat
      /\ parser \in Parser /\ parser.http_errno = "OK"
  BY <1>1, SwitchFacts
<1>3. parser.state \in Bodies /\ "s_chunk_data_almost_done" \in Bodies /\ "body" \in Piece /\ parser.state \in ChunkState
  BY <1>1 DEF Bodies, ChunkState, Piece
<1>4. parser.content_length # 0 /\ "F_CHUNKED" \in parser.flags
  BY <1>1, <1>2, <1>3 DEF Control
<1>5. /\ left \in Length /\ n \in Nat /\ left # ULLONG_MAX /\ n <= parser.content_length /\ parser.content_length \in Nat
      /\ p + n \in Nat /\ p + n \in Pos /\ p + n > p
  BY <1>1, <1>4, ToReadFacts
<1>6. left = 0 <=> parser.content_length = n
  BY <1>5
<1> HIDE DEF n, left
<1>7. s \in {"s_chunk_data", "s_chunk_data_almost_done"} /\ s \in Bodies /\ s \in State /\ (s = "s_chunk_data_almost_done" <=> left = 0)
  BY <1>1, <1>3, <1>6, BodyFacts
<1> HIDE DEF s
<1>8. q \in Parser /\ q.http_errno = "OK" /\ q.state = s /\ q.content_length = left /\ q.flags = parser.flags
  BY <1>2, <1>5, <1>7 DEF Parser
<1> HIDE DEF q
<1>9. Control(q)
  BY <1>4, <1>5, <1>7, <1>8 DEF Control
<1>10. p' \in Nat /\ p' > p /\ p' \in Pos
  BY <1>1, <1>5
<1>11. mark' \in Marks /\ Shape(parser.state, p)'
  <2>1. /\ PieceOf(parser.state) = "body" /\ parser.state \notin Pending \cup Ended
        /\ PieceOf(s) = "body" /\ s \notin Pending \cup Ended
    BY <1>1, <1>3, <1>7, BodyFacts
  <2> QED BY <1>1, <1>2, <1>3, <1>8, <1>10, <2>1, MarkShape
<1>12. calls' \in Seq(Call)' /\ CallsInOrder'
  BY <1>1, <1>2, SameData DEF MARK, Types, CallsInOrder
<1> QED BY <1>1, <1>7, <1>8, <1>9, <1>10, <1>11, <1>12, GoOnInv

LEMMA ChunkEndInv == ASSUME ParserInv, ChunkDataAlmostDone \/ ChunkDataDone PROVE ParserInv'
<1>1. pc = "switch" /\ parser.state \in {"s_chunk_data_almost_done", "s_chunk_data_done"} /\ parser.state \in ChunkState
  BY DEF ChunkDataAlmostDone, ChunkDataDone, At, ChunkState
<1>2. parser \in Parser /\ parser.http_errno = "OK" /\ "F_CHUNKED" \in parser.flags
  BY <1>1, SwitchFacts DEF Control
<1>3. CASE Error(parser, "STRICT")
  BY <1>1, <1>3, FailHere, ChunkFailures
<1>4. {"s_chunk_data_done", "s_chunk_size_start"} \subseteq Bodies /\ "body" \in Piece
  BY DEF Bodies, ChunkState, Piece
<1>5. /\ PieceOf("s_chunk_data_done") = "none" /\ "s_chunk_data_done" \notin Pending \cup Ended
      /\ "s_chunk_data_done" \in State /\ "s_chunk_size_start" \in State
  BY <1>4, BodyFacts
<1>6. CASE ChunkDataAlmostDone
  <2>1. CASE Break(To("s_chunk_data_done")) /\ Callback("body", p)
    <3> DEFINE q == To("s_chunk_data_done")
    <3>1. q \in Parser /\ q.http_errno = "OK" /\ q.state = "s_chunk_data_done" /\ q.flags = parser.flags
      BY <1>2, <1>5, ToFacts
    <3>2. Break(q) /\ Callback("body", p)
      BY <2>1
    <3> HIDE DEF q
    <3>3. Control(q)
      BY <1>2, <3>1 DEF Control
    <3>4. PieceOf(parser.state) = "body"
      <4>1. parser.state = "s_chunk_data_almost_done" /\ parser.state \in Bodies
        BY <1>1, <1>6 DEF ChunkDataAlmostDone, At, Bodies
      <4> QED BY <4>1, BodyFacts
    <3> QED BY <1>1, <1>4, <1>5, <3>1, <3>2, <3>3, <3>4, BreakCallback
  <2> QED BY <1>3, <1>6, <2>1 DEF ChunkDataAlmostDone
<1>7. CASE ChunkDataDone
  <2>1. CASE Break([parser EXCEPT !.nread = 0, !.state = "s_chunk_size_start"]) /\ Silent
    <3> DEFINE q == [parser EXCEPT !.nread = 0, !.state = "s_chunk_size_start"]
    <3>1. q \in Parser /\ q.http_errno = "OK" /\ q.state = "s_chunk_size_start" /\ q.flags = parser.flags /\ q.nread = 0
      BY <1>2, <1>5 DEF Parser
    <3>2. Break(q) /\ Silent
      BY <2>1
    <3> HIDE DEF q
    <3>3. Control(q)
      BY <1>2, <3>1 DEF Control
    <3>4. parser.state \in ChunkState \ {"s_chunk_data", "s_chunk_data_almost_done"}
      BY <1>1, <1>7 DEF ChunkDataDone, At
    <3> QED BY <1>1, <1>4, <3>1, <3>2, <3>3, <3>4, ChunkMove
  <2> QED BY <1>3, <1>7, <2>1 DEF ChunkDataDone
<1> QED BY <1>6, <1>7

\* All cases of the body.
LEMMA BodyInv == ASSUME ParserInv, Body PROVE ParserInv'
  BY HeadersAlmostDoneInv, HeadersDoneInv, BodyIdentityInv, BodyIdentityEofInv, MessageDoneInv, ChunkSizeInv,
     ChunkSizeAlmostDoneInv, ChunkDataInv, ChunkEndInv DEF Body

-----------------------------------------------------------------------------
LEMMA InitInv == Init => ParserInv
<1> SUFFICES ASSUME Init PROVE ParserInv
  OBVIOUS
<1>1. data \in Seq(Symbol) /\ len \in Nat /\ p = 0 /\ p \in Nat
  BY PayloadAssumption, LenNat DEF Init
<1>2. parser \in Parser /\ parser.http_errno = "OK" /\ parser.state = "s_start_req_or_res" /\ parser.state \in Calm
  <2>1. /\ "HTTP_BOTH" \in Kind /\ "s_start_req_or_res" \in State /\ {} \in Flags /\ "h_general" \in HeaderState
        /\ 0 \in Length /\ "DELETE" \in Method /\ "OK" \in Errno
    <3>1. "s_start_req_or_res" \in State
      BY DEF State, HeaderPartState
    <3>2. 0 \in Length /\ {} \in Flags
      BY WidthAssumption DEF Length, Flags
    <3> QED BY <3>1, <3>2 DEF Kind, HeaderState, Method, Errno, http_errno
  <2> QED BY <2>1 DEF Init, NewParser, Parser, Calm
<1>3. calls = <<>> /\ mark = [f \in Piece |-> NoMark] /\ start = 0 /\ h_state = "h_general" /\ pc = "next"
  BY DEF Init
<1>4. Types
  <2>1. 0 \in Pos /\ "next" \in Place /\ "h_general" \in HeaderState /\ mark \in Marks /\ calls \in Seq(Call)
    BY <1>1, <1>3 DEF Pos, Place, HeaderState, Marks
  <2> QED BY <1>1, <1>2, <1>3, <2>1 DEF Types
<1>5. CallsInOrder
  BY <1>3 DEF CallsInOrder
<1>6. Shape(parser.state, p)
  <2>1. Ends = 0 /\ LastOn = "none"
    BY <1>3 DEF Ends, LastOn
  <2>2. \A f \in Piece : mark[f] = NoMark
    BY <1>3
  <2> QED BY <1>1, <1>2, <2>1, <2>2, CalmFacts DEF Shape
<1>7. Running
  BY <1>2, <1>6, CalmFacts, PlainControl DEF Running
<1> QED BY <1>3, <1>4, <1>5, <1>7 DEF ParserInv

LEMMA NextInv == ASSUME ParserInv, [Next]_vars PROVE ParserInv'
<1>1. CASE UNCHANGED vars
  <2>1. /\ data' = data /\ p' = p /\ pc' = pc /\ parser' = parser /\ mark' = mark /\ calls' = calls
        /\ start' = start /\ h_state' = h_state
    BY <1>1 DEF vars, outVars, localVars
  <2>2. Types' /\ CallsInOrder'
    BY <2>1, SameData DEF ParserInv, Types, CallsInOrder
  <2>3. Ends' = Ends /\ LastOn' = LastOn /\ len' = len
    BY <2>1 DEF Ends, LastOn, len
  <2>4. Shape(parser.state, p) => Shape(parser.state, p)'
    BY <2>1, <2>3 DEF Shape
  <2>5. Running => Running'
    BY <2>1, <2>4 DEF Running
  <2>6. InLoop => InLoop'
    BY <2>1 DEF InLoop
  <2> QED BY <2>1, <2>2, <2>3, <2>5, <2>6 DEF ParserInv
<1> QED BY <1>1, NextByteInv, EndOfDataInv, StartLineInv, HeaderInv, BodyInv DEF Next, Step, Done

LEMMA InvHolds == Spec => []ParserInv
  BY InitInv, NextInv, PTL DEF Spec

\* Every variable keeps its type, and the verdict is one of the errors listed:
\* http_parser_execute never finds itself in a state it has no case for.
THEOREM ParserTypeCorrect == Spec => []TypeOK
<1>1. ParserInv => TypeOK
  BY TypesAreTypeOK DEF ParserInv
<1> QED BY <1>1, InvHolds, PTL

\* The asserts of http_parser_execute hold for every payload.
THEOREM ParserAssertionsHold == Spec => []AssertionsHold
<1>1. ParserInv => AssertionsHold
  <2> SUFFICES ASSUME ParserInv PROVE AssertionsHold
    OBVIOUS
  <2>1. pc # "done" => Control(parser) /\ Shape(parser.state, p)
    BY DEF ParserInv, Running
  <2>2. pc = "switch" \/ pc = "next" => pc # "done"
    OBVIOUS
  <2>3. At("s_chunk_size_start") => parser.nread = 1
    BY DEF ParserInv, Running, At
  <2>4. AtOneOf({"s_chunk_size_start", "s_chunk_size", "s_chunk_parameters", "s_chunk_size_almost_done",
                 "s_chunk_data", "s_chunk_data_almost_done", "s_chunk_data_done"}) => "F_CHUNKED" \in parser.flags
    BY <2>1 DEF AtOneOf, Control, ChunkState
  <2>5. /\ AtOneOf({"s_body_identity", "s_chunk_data"}) => parser.content_length \notin {0, ULLONG_MAX}
        /\ At("s_chunk_data_almost_done") => parser.content_length = 0
        /\ At("s_header_field") => parser.header_state \in {"h_general", "h_connection", "h_content_length",
                                                            "h_transfer_encoding", "h_upgrade"}
        /\ pc # "done" => parser.http_errno = "OK"
    BY <2>1 DEF At, AtOneOf, Control
  <2>6. InValue => h_state \notin {"h_connection", "h_transfer_encoding"}
    BY DEF ParserInv, InLoop, InValue
  <2>7. pc = "next" => \A f, g \in Piece : mark[f] # NoMark /\ mark[g] # NoMark => f = g
    BY <2>1, <2>2 DEF Shape
  <2> QED BY <2>3, <2>4, <2>5, <2>6, <2>7 DEF AssertionsHold
<1> QED BY <1>1, InvHolds, PTL

\* What is handed to the callbacks are parts of the payload, in its order and
\* without overlap, with a value behind every name, for every payload.
THEOREM ParserCallsInOrder == Spec => []CallsInOrder
<1>1. ParserInv => CallsInOrder
  BY DEF ParserInv
<1> QED BY <1>1, InvHolds, PTL

-----------------------------------------------------------------------------
\* The limit of the header.  The states before the end of the first header.
FirstState == (HeaderPartState \ {"s_dead", "s_start_res"}) \ ChunkState

\* Those that may stand before the first line, behind a line end, and in or
\* behind an empty line.
NotBegun == {"s_start_req_or_res", "s_start_req"}
BehindLF == {"s_header_field_start", "s_header_value_lws", "s_header_value_discard_lws"}
AtEnd    == {"s_headers_almost_done", "s_headers_done"}

\* The lines before position n, as far as state s knows them.
Lines(s, n) ==
  /\ s \notin NotBegun => \E i \in 1..n : data[i] \notin {CR, LF}
  /\ s \in BehindLF => data[n] = LF
  /\ s \in AtEnd => data[n] = LF \/ (data[n] = CR /\ n > 1 /\ data[n - 1] = LF)

\* The first header has ended in time.
Within == \E n \in 1..len : HeaderEnds(n) /\ n <= HTTP_MAX_HEADER_SIZE

\* What is read belongs to the first header: every byte has been counted.
First ==
  /\ parser.state \in FirstState /\ "F_TRAILING" \notin parser.flags
  /\ pc = "next" => parser.nread >= p
  /\ pc = "switch" => parser.nread >= p + 1
  /\ pc = "value" => parser.nread >= start + 1
  /\ Lines(parser.state, p)

\* No byte is counted twice, but one at the end of the data.
Few ==
  /\ parser.nread <= HTTP_MAX_HEADER_SIZE
  /\ pc = "next" => parser.nread <= IF p < len THEN p ELSE p + 1
  /\ pc = "switch" => parser.nread <= p + 1
  /\ pc = "value" => parser.nread <= start + 1

LimitInv == HeaderLimit /\ (pc # "done" => Few /\ (Within \/ First))

LEMMA WithinStays == ASSUME data' = data, Within PROVE Within'
  BY DEF Within, HeaderEnds, len

LEMMA FirstKinds ==
  /\ NotBegun \cup BehindLF \cup AtEnd \cup {"s_header_field", "s_header_value"} \subseteq FirstState
  /\ FirstState \subseteq State /\ FirstState \subseteq HeaderPartState
  /\ \A s \in FirstState : s \notin Bodies /\ s # "s_message_done"
<1>1. NotBegun \cup BehindLF \cup AtEnd \cup {"s_header_field", "s_header_value"} \subseteq FirstState
  BY DEF NotBegun, BehindLF, AtEnd, FirstState, HeaderPartState, ChunkState
<1>2. FirstState \subseteq State /\ FirstState \subseteq HeaderPartState
  BY DEF FirstState, State
<1>3. \A s \in FirstState : s \notin {"s_body_identity", "s_body_identity_eof", "s_message_done"}
  BY DEF FirstState, HeaderPartState, UrlState
<1>4. \A s \in FirstState : s \notin ChunkState
  BY DEF FirstState
<1> QED BY <1>1, <1>2, <1>3, <1>4 DEF Bodies

\* Lines known at a position are known behind it.
LEMMA LinesGrow ==
  ASSUME NEW s, NEW t, NEW n \in Nat, NEW m \in Nat, n <= m, Lines(s, n), s \notin NotBegun, t \notin BehindLF \cup AtEnd
  PROVE  Lines(t, m)
<1>1. PICK i \in 1..n : data[i] \notin {CR, LF}
  BY DEF Lines
<1>2. i \in 1..m
  BY <1>1
<1> QED BY <1>1, <1>2 DEF Lines

-----------------------------------------------------------------------------
\* The call returns with an error that has nothing to do with the limit.
Fails == pc' = "done" /\ parser'.http_errno \notin {"OK", "HEADER_OVERFLOW"}

LEMMA FailsLimit == ASSUME Fails PROVE LimitInv'
  BY DEF Fails, LimitInv, HeaderLimit

LEMMA ErrorFails ==
  ASSUME NEW q \in Parser, NEW e \in Failures \ {"HEADER_OVERFLOW"}, Error(q, e) PROVE Fails
  BY DEF Error, Parser, Fails, Failures

\* The call returns since the count passes the limit.
LEMMA OverflowLimit ==
  ASSUME data' = data, data \in Seq(Symbol), pc' = "done", parser'.http_errno = "HEADER_OVERFLOW",
         NEW n \in Nat, n > HTTP_MAX_HEADER_SIZE, n <= len + 1
  PROVE  LimitInv'
<1>1. len' = len /\ len \in Nat
  BY LenNat DEF len
<1>2. len >= HTTP_MAX_HEADER_SIZE
  BY <1>1, HeaderAssumption
<1> QED BY <1>1, <1>2 DEF LimitInv, HeaderLimit

\* From state s over the byte c to state t, and from s to t at the same byte,
\* within a header.
Over(s, t, c) ==
  /\ t \in FirstState
  /\ t \notin NotBegun => s \notin NotBegun \/ c \notin {CR, LF}
  /\ t \in BehindLF => c = LF
  /\ t \in AtEnd => c = CR /\ s = "s_header_field_start"

Again(s, t) ==
  /\ t \in FirstState
  /\ t \notin NotBegun => s \notin NotBegun
  /\ t \in BehindLF => s \in BehindLF
  /\ t \in AtEnd => s \in BehindLF \cup AtEnd

\* The parser that goes on has counted as much, or starts to count again.
Keeps(q) ==
  /\ q.nread \in Nat /\ q.nread <= parser.nread
  /\ parser.state \in FirstState => q.nread = parser.nread /\ ("F_TRAILING" \in q.flags => "F_TRAILING" \in parser.flags)

Moves ==
  \E q : /\ Keeps(q)
         /\ \/ Break(q) /\ (parser.state \in FirstState => Over(parser.state, q.state, ch))
            \/ Reexecute(q) /\ (parser.state \in FirstState => Again(parser.state, q.state))

LEMMA SwitchLimit ==
  ASSUME ParserInv, LimitInv, pc = "switch"
  PROVE  /\ Few /\ (Within \/ First) /\ p \in Nat /\ len \in Nat /\ p < len /\ data \in Seq(Symbol)
         /\ parser.nread \in Nat /\ parser.nread <= p + 1 /\ parser.nread <= HTTP_MAX_HEADER_SIZE
         /\ First => parser.nread = p + 1
<1>1. Types /\ p \in Nat /\ len \in Nat /\ p < len /\ parser \in Parser
  BY SwitchFacts
<1>2. data \in Seq(Symbol) /\ parser.nread \in Nat
  BY <1>1 DEF Types, Parser
<1>3. Few /\ (Within \/ First)
  BY DEF LimitInv
<1> QED BY <1>1, <1>2, <1>3 DEF Few, First

LEMMA BreakLimit ==
  ASSUME ParserInv, LimitInv, pc = "switch", NEW q, Keeps(q), Break(q),
         parser.state \in FirstState => Over(parser.state, q.state, ch)
  PROVE  LimitInv'
<1>1. /\ Few /\ (Within \/ First) /\ p \in Nat /\ len \in Nat /\ p < len /\ data \in Seq(Symbol)
      /\ parser.nread \in Nat /\ parser.nread <= p + 1 /\ parser.nread <= HTTP_MAX_HEADER_SIZE
      /\ First => parser.nread = p + 1
  BY SwitchLimit
<1>2. data' = data /\ pc' = "next" /\ p' = p + 1 /\ parser' = q /\ len' = len
  BY DEF Break, len
<1>3. Few'
  <2>1. q.nread \in Nat /\ q.nread <= parser.nread
    BY DEF Keeps
  <2>2. q.nread <= p + 1 /\ q.nread <= HTTP_MAX_HEADER_SIZE
    BY <1>1, <2>1, HeaderAssumption
  <2>3. q.nread <= (p + 1) + 1
    BY <1>1, <2>1, <2>2
  <2> QED BY <1>2, <2>2, <2>3 DEF Few
<1>4. ASSUME First PROVE First'
  <2>1. /\ parser.state \in FirstState /\ "F_TRAILING" \notin parser.flags /\ Lines(parser.state, p)
    BY <1>4 DEF First
  <2>2. Over(parser.state, q.state, ch) /\ q.nread = parser.nread /\ "F_TRAILING" \notin q.flags
    BY <2>1 DEF Keeps
  <2>3. q.nread >= p + 1 /\ q.state \in FirstState
    BY <1>1, <1>4, <2>2 DEF Over
  <2>4. q.state \notin NotBegun => \E i \in 1..(p + 1) : data[i] \notin {CR, LF}
    <3>1. CASE parser.state \notin NotBegun
      <4>1. PICK i \in 1..p : data[i] \notin {CR, LF}
        BY <2>1, <3>1 DEF Lines
      <4>2. i \in 1..(p + 1)
        BY <1>1
      <4> QED BY <4>1, <4>2
    <3>2. CASE ch \notin {CR, LF}
      <4>1. p + 1 \in 1..(p + 1)
        BY <1>1
      <4> QED BY <3>2, <4>1 DEF ch
    <3> QED BY <2>2, <3>1, <3>2 DEF Over
  <2>5. q.state \in BehindLF => data[p + 1] = LF
    BY <2>2 DEF Over, ch
  <2>6. ASSUME q.state \in AtEnd PROVE data[p + 1] = CR /\ p + 1 > 1 /\ data[(p + 1) - 1] = LF
    <3>1. data[p + 1] = CR /\ parser.state = "s_header_field_start"
      BY <2>2, <2>6 DEF Over, ch
    <3>2. data[p] = LF /\ \E i \in 1..p : data[i] \notin {CR, LF}
      BY <2>1, <3>1 DEF Lines, BehindLF, NotBegun
    <3>3. p > 0 /\ (p + 1) - 1 = p
      BY <1>1, <3>2
    <3> QED BY <1>1, <3>1, <3>2, <3>3
  <2>7. Lines(q.state, p + 1)
    BY <2>4, <2>5, <2>6 DEF Lines
  <2>8. Lines(parser.state, p)'
    BY <1>2, <2>7 DEF Lines
  <2> QED BY <1>2, <2>2, <2>3, <2>8 DEF First
<1> QED BY <1>1, <1>2, <1>3, <1>4, WithinStays DEF LimitInv, HeaderLimit

LEMMA AgainLimit ==
  ASSUME ParserInv, LimitInv, pc = "switch", NEW q, Keeps(q), Reexecute(q),
         parser.state \in FirstState => Again(parser.state, q.state)
  PROVE  LimitInv'
<1>1. /\ Few /\ (Within \/ First) /\ p \in Nat /\ len \in Nat /\ p < len /\ data \in Seq(Symbol)
      /\ parser.nread \in Nat /\ parser.nread <= p + 1 /\ parser.nread <= HTTP_MAX_HEADER_SIZE
      /\ First => parser.nread = p + 1
  BY SwitchLimit
<1>2. data' = data /\ pc' = "switch" /\ p' = p /\ parser' = q /\ len' = len
  BY DEF Reexecute, len
<1>3. Few'
  <2>1. q.nread \in Nat /\ q.nread <= parser.nread
    BY DEF Keeps
  <2>2. q.nread <= p + 1 /\ q.nread <= HTTP_MAX_HEADER_SIZE
    BY <1>1, <2>1, HeaderAssumption
  <2> QED BY <1>2, <2>2 DEF Few
<1>4. ASSUME First PROVE First'
  <2>1. /\ parser.state \in FirstState /\ "F_TRAILING" \notin parser.flags /\ Lines(parser.state, p)
    BY <1>4 DEF First
  <2>2. Again(parser.state, q.state) /\ q.nread = parser.nread /\ "F_TRAILING" \notin q.flags
    BY <2>1 DEF Keeps
  <2>3. q.nread >= p + 1 /\ q.state \in FirstState
    BY <1>1, <1>4, <2>2 DEF Again
  <2>4. Lines(q.state, p)
    BY <2>1, <2>2 DEF Again, Lines
  <2>5. Lines(parser.state, p)'
    BY <1>2, <2>4 DEF Lines
  <2> QED BY <1>2, <2>2, <2>3, <2>5 DEF First
<1> QED BY <1>1, <1>2, <1>3, <1>4, WithinStays DEF LimitInv, HeaderLimit

LEMMA MovesLimit == ASSUME ParserInv, LimitInv, pc = "switch", Moves PROVE LimitInv'
  BY BreakLimit, AgainLimit DEF Moves

-----------------------------------------------------------------------------
\* The ways in which most cases move: to a state in the middle of the header,
\* behind a line end, and out of the states where nothing has begun.
Middle == FirstState \ (NotBegun \cup BehindLF \cup AtEnd)

\* What a case assigns to the parser, as far as the limit is concerned.
Alike(q, s) == q.nread = parser.nread /\ q.state = s /\ ("F_TRAILING" \in q.flags => "F_TRAILING" \in parser.flags)

LEMMA AlikeKeeps == ASSUME parser \in Parser, NEW q, NEW s, Alike(q, s) PROVE Keeps(q)
  BY DEF Alike, Keeps, Parser

LEMMA ToAlike == ASSUME parser \in Parser, NEW s PROVE Alike(To(s), s)
  BY DEF To, Alike, Parser

LEMMA Going ==
  ASSUME parser \in Parser, NEW q, NEW s, Alike(q, s),
         \/ Break(q) /\ (parser.state \in FirstState => Over(parser.state, s, ch))
         \/ Reexecute(q) /\ (parser.state \in FirstState => Again(parser.state, s))
  PROVE  Moves
  BY AlikeKeeps DEF Alike, Moves

LEMMA GoingTo ==
  ASSUME parser \in Parser, NEW s,
         \/ Break(To(s)) /\ (parser.state \in FirstState => Over(parser.state, s, ch))
         \/ Reexecute(To(s)) /\ (parser.state \in FirstState => Again(parser.state, s))
  PROVE  Moves
<1> DEFINE q == To(s)
<1>1. \/ Break(q) /\ (parser.state \in FirstState => Over(parser.state, s, ch))
      \/ Reexecute(q) /\ (parser.state \in FirstState => Again(parser.state, s))
  OBVIOUS
<1>2. Alike(q, s)
  BY ToAlike
<1> HIDE DEF q
<1> QED BY <1>1, <1>2, Going

LEMMA OverMiddle == ASSUME NEW s, s \notin NotBegun, NEW t \in Middle, NEW c PROVE Over(s, t, c) /\ Again(s, t)
  BY DEF Over, Again, Middle

LEMMA OverLF == ASSUME NEW s, s \notin NotBegun, NEW t \in BehindLF PROVE Over(s, t, LF)
<1>1. t \in FirstState /\ t \notin AtEnd
  BY FirstKinds DEF BehindLF, AtEnd
<1> QED BY <1>1 DEF Over

LEMMA OverSelf ==
  ASSUME NEW s \in FirstState, s \notin BehindLF \cup AtEnd, NEW c PROVE Over(s, s, c) /\ Again(s, s)
  BY DEF Over, Again

\* The states of the first line.
LEMMA LineStates ==
  /\ {"s_req_method", "s_req_spaces_before_url", "s_res_first_http_major", "s_res_http_major", "s_res_first_http_minor",
      "s_res_http_minor", "s_req_first_http_major", "s_req_http_major", "s_req_first_http_minor", "s_req_http_minor",
      "s_res_first_status_code", "s_res_status_code", "s_res_status_start", "s_res_status", "s_res_line_almost_done",
      "s_req_http_start", "s_req_line_almost_done"} \cup UrlState \subseteq Middle
  /\ {"s_header_field", "s_header_value_discard_ws", "s_header_value_discard_ws_almost_done",
      "s_header_value_start", "s_header_value", "s_header_almost_done"} \subseteq Middle
<1>1. UrlState \subseteq Middle
  BY DEF Middle, FirstState, HeaderPartState, UrlState, ChunkState, NotBegun, BehindLF, AtEnd
<1>2. {"s_req_method", "s_req_spaces_before_url", "s_res_first_http_major", "s_res_http_major", "s_res_first_http_minor",
       "s_res_http_minor", "s_req_first_http_major", "s_req_http_major", "s_req_first_http_minor", "s_req_http_minor",
       "s_res_first_status_code", "s_res_status_code", "s_res_status_start", "s_res_status", "s_res_line_almost_done",
       "s_req_http_start", "s_req_line_almost_done"} \subseteq Middle
  BY DEF Middle, FirstState, HeaderPartState, UrlState, ChunkState, NotBegun, BehindLF, AtEnd
<1>3. {"s_header_field", "s_header_value_discard_ws", "s_header_value_discard_ws_almost_done",
       "s_header_value_start", "s_header_value", "s_header_almost_done"} \subseteq Middle
  BY DEF Middle, FirstState, HeaderPartState, UrlState, ChunkState, NotBegun, BehindLF, AtEnd
<1> QED BY <1>1, <1>2, <1>3

LEMMA MiddleFacts == \A s \in Middle : s \in FirstState /\ s \notin NotBegun /\ s \notin BehindLF /\ s \notin AtEnd
  BY DEF Middle

LEMMA ToMiddle ==
  ASSUME parser \in Parser, parser.state \notin NotBegun, NEW s \in Middle, Break(To(s)) \/ Reexecute(To(s)) PROVE Moves
  BY OverMiddle, GoingTo

LEMMA ToBehindLF ==
  ASSUME parser \in Parser, parser.state \notin NotBegun, ch = LF, NEW s \in BehindLF, Break(To(s)) PROVE Moves
  BY OverLF, GoingTo

LEMMA StayHere ==
  ASSUME parser \in Parser, parser.state \notin BehindLF \cup AtEnd, Break(parser) PROVE Moves
<1>1. Alike(parser, parser.state)
  BY DEF Alike
<1> QED BY <1>1, OverSelf, Going

\* The errors of the start line and of the rest.
LEMMA OtherErrors ==
  /\ {"INVALID_METHOD", "INVALID_VERSION", "INVALID_STATUS", "INVALID_CONSTANT", "LF_EXPECTED", "STRICT",
      "INVALID_URL", "CLOSED_CONNECTION", "INVALID_HEADER_TOKEN", "INVALID_CONTENT_LENGTH",
      "INVALID_CHUNK_SIZE"} \subseteq Failures \ {"HEADER_OVERFLOW"}
  BY DEF Failures, Errno, http_errno

-----------------------------------------------------------------------------
\* The start line.
LEMMA InSwitch ==
  ASSUME ParserInv, pc = "switch" PROVE parser \in Parser /\ parser.state \in State
  BY SwitchFacts DEF Parser

\* No byte but a line end leads out of the states where nothing has begun.
LEMMA Solid ==
  /\ \A m \in Method : m \notin {CR, LF}
  /\ "HTTP/" \notin {CR, LF} /\ "HEAD" \notin {CR, LF} /\ SP \notin {CR, LF}
  BY DEF Method, CR, LF, SP

LEMMA StartsAnew ==
  ASSUME parser \in Parser, parser.state \in NotBegun \cup {"s_start_res"}, ch \notin {CR, LF},
         NEW s \in Middle, NEW q, q.nread = parser.nread, q.state = s, q.flags = {}, Break(q)
  PROVE  Moves
<1>1. Alike(q, s)
  BY DEF Alike
<1>2. Over(parser.state, s, ch)
  BY MiddleFacts DEF Over
<1> QED BY <1>1, <1>2, Going

LEMMA DeadMoves == ASSUME ParserInv, Dead PROVE Fails \/ Moves
<1>1. pc = "switch" /\ parser.state = "s_dead" /\ parser \in Parser
  BY InSwitch DEF Dead, At
<1>2. CASE Break(parser)
  <2>1. parser.state \notin BehindLF \cup AtEnd
    BY <1>1 DEF BehindLF, AtEnd
  <2> QED BY <1>1, <1>2, <2>1, StayHere
<1>3. CASE Error(parser, "CLOSED_CONNECTION")
  BY <1>1, <1>3, ErrorFails, OtherErrors
<1> QED BY <1>2, <1>3 DEF Dead

LEMMA StartMoves == ASSUME ParserInv, StartReqOrRes \/ StartRes \/ StartReq PROVE Fails \/ Moves
<1>1. pc = "switch" /\ parser.state \in NotBegun \cup {"s_start_res"} /\ parser \in Parser
  BY InSwitch DEF StartReqOrRes, StartRes, StartReq, At, NotBegun
<1>2. Fresh \in Parser /\ Fresh.state = parser.state /\ Fresh.nread = parser.nread /\ Fresh.flags = {}
  <2>1. Fresh.nread = parser.nread /\ Fresh.flags = {}
    BY <1>1 DEF Fresh, Parser
  <2> QED BY <1>1, <2>1, FreshFacts
<1>3. {"s_res_first_http_major", "s_req_method"} \subseteq Middle
  BY LineStates
<1>4. CASE Break(parser)
  <2>1. parser.state \notin BehindLF \cup AtEnd
    BY <1>1 DEF NotBegun, BehindLF, AtEnd
  <2> QED BY <1>1, <1>4, <2>1, StayHere
<1>5. CASE ch = "HTTP/" /\ Break([Fresh EXCEPT !.type = "HTTP_RESPONSE", !.state = "s_res_first_http_major"])
  <2> DEFINE q == [Fresh EXCEPT !.type = "HTTP_RESPONSE", !.state = "s_res_first_http_major"]
  <2>1. q.nread = parser.nread /\ q.state = "s_res_first_http_major" /\ q.flags = {}
    BY <1>2 DEF Parser
  <2>2. Break(q)
    BY <1>5
  <2> HIDE DEF q
  <2> QED BY <1>1, <1>3, <1>5, <2>1, <2>2, Solid, StartsAnew
<1>6. CASE ch = "HTTP/" /\ Break([Fresh EXCEPT !.state = "s_res_first_http_major"])
  <2> DEFINE q == [Fresh EXCEPT !.state = "s_res_first_http_major"]
  <2>1. q.nread = parser.nread /\ q.state = "s_res_first_http_major" /\ q.flags = {}
    BY <1>2 DEF Parser
  <2>2. Break(q)
    BY <1>6
  <2> HIDE DEF q
  <2> QED BY <1>1, <1>3, <1>6, <2>1, <2>2, Solid, StartsAnew
<1>7. CASE ch = "HEAD" /\ Break([Fresh EXCEPT !.type = "HTTP_REQUEST", !.method = ch, !.state = "s_req_method"])
  <2> DEFINE q == [Fresh EXCEPT !.type = "HTTP_REQUEST", !.method = ch, !.state = "s_req_method"]
  <2>1. q.nread = parser.nread /\ q.state = "s_req_method" /\ q.flags = {}
    BY <1>2 DEF Parser
  <2>2. Break(q)
    BY <1>7
  <2> HIDE DEF q
  <2> QED BY <1>1, <1>3, <1>7, <2>1, <2>2, Solid, StartsAnew
<1>8. CASE ch \in Method /\ Break([Fresh EXCEPT !.method = ch, !.state = "s_req_method"])
  <2> DEFINE q == [Fresh EXCEPT !.method = ch, !.state = "s_req_method"]
  <2>1. q.nread = parser.nread /\ q.state = "s_req_method" /\ q.flags = {}
    BY <1>2 DEF Parser
  <2>2. Break(q)
    BY <1>8
  <2> HIDE DEF q
  <2> QED BY <1>1, <1>3, <1>8, <2>1, <2>2, Solid, StartsAnew
<1>9. CASE ch \notin {CR, LF} /\ Reexecute([Fresh EXCEPT !.type = "HTTP_REQUEST", !.state = "s_start_req"])
  <2> DEFINE q == [Fresh EXCEPT !.type = "HTTP_REQUEST", !.state = "s_start_req"]
  <2>1. q.nread = parser.nread /\ q.state = "s_start_req" /\ q.flags = {}
    BY <1>2 DEF Parser
  <2>2. Reexecute(q)
    BY <1>9
  <2> HIDE DEF q
  <2>3. Alike(q, "s_start_req")
    BY <2>1 DEF Alike
  <2>4. Again(parser.state, "s_start_req")
    BY FirstKinds DEF Again, NotBegun, BehindLF, AtEnd
  <2> QED BY <1>1, <2>2, <2>3, <2>4, Going
<1>10. CASE parser.state = "s_start_res" /\ Break(Fresh)
  <2>1. parser.state \notin FirstState
    BY <1>10 DEF FirstState
  <2>2. Alike(Fresh, parser.state)
    BY <1>2 DEF Alike
  <2> QED BY <1>1, <1>10, <2>1, <2>2, Going
<1>11. CASE Error(Fresh, "INVALID_CONSTANT") \/ Error(Fresh, "INVALID_METHOD")
  BY <1>2, <1>11, ErrorFails, OtherErrors
<1>12. StartReqOrRes => Fails \/ Moves
  BY <1>4, <1>5, <1>7, <1>9 DEF StartReqOrRes
<1>13. StartRes => Fails \/ Moves
  BY <1>6, <1>10, <1>11 DEF StartRes, At
<1>14. StartReq => Fails \/ Moves
  BY <1>4, <1>8, <1>11 DEF StartReq
<1> QED BY <1>12, <1>13, <1>14

\* The states behind the first symbol, where a case leads to one of them or,
\* over a line end, to the first name.
InLine == Middle \cap (Calm \cup Loose)

LEMMA InLineFacts ==
  /\ {"s_req_method", "s_req_spaces_before_url", "s_res_first_http_major", "s_res_http_major", "s_res_first_http_minor",
      "s_res_http_minor", "s_req_first_http_major", "s_req_http_major", "s_req_first_http_minor", "s_req_http_minor",
      "s_res_first_status_code", "s_res_status_code", "s_res_status_start", "s_res_status", "s_res_line_almost_done",
      "s_req_http_start", "s_req_line_almost_done"} \cup UrlState \subseteq InLine
  /\ InLine \subseteq Middle
  /\ "s_header_field_start" \in BehindLF
  BY LineStates DEF InLine, Calm, Loose, BehindLF

LEMMA LineMoves ==
  ASSUME parser \in Parser, parser.state \in InLine, NEW q, q.nread = parser.nread, q.flags = parser.flags, Break(q),
         q.state \in InLine \/ (ch = LF /\ q.state = "s_header_field_start")
  PROVE  Moves
<1>1. parser.state \notin NotBegun
  BY MiddleFacts, InLineFacts
<1>2. Over(parser.state, q.state, ch)
  BY <1>1, InLineFacts, OverMiddle, OverLF
<1>3. Alike(q, q.state)
  BY DEF Alike
<1> QED BY <1>2, <1>3, Going

LEMMA LineTo ==
  ASSUME parser \in Parser, parser.state \in InLine, NEW s, Break(To(s)),
         s \in InLine \/ (ch = LF /\ s = "s_header_field_start")
  PROVE  Moves
<1> DEFINE q == To(s)
<1>1. q.nread = parser.nread /\ q.flags = parser.flags /\ q.state = s
  BY DEF To, Parser
<1>2. Break(q)
  OBVIOUS
<1> HIDE DEF q
<1> QED BY <1>1, <1>2, LineMoves

LEMMA MoreDigitsMoves ==
  ASSUME parser \in Parser, parser.state \in InLine, NEW f \in {"http_major", "http_minor", "status_code"},
         NEW e \in {"INVALID_VERSION", "INVALID_STATUS"}, IS_NUM(ch), MoreDigits(f, e)
  PROVE  Fails \/ Moves
<1> DEFINE n == 10 * parser[f] + unhex(ch)
           q == [parser EXCEPT ![f] = n]
<1>1. IF q[f] > 999 THEN Error(q, e) ELSE Break(q)
  BY DEF MoreDigits
<1>2. n \in Nat
  <2>1. parser[f] \in Nat
    BY DEF Parser
  <2>2. unhex(ch) \in 0..15
    BY DigitValue
  <2> QED BY <2>1, <2>2
<1> HIDE DEF n
<1>3. q \in Parser /\ q.nread = parser.nread /\ q.flags = parser.flags /\ q.state = parser.state
  BY <1>2 DEF Parser
<1> HIDE DEF q
<1>4. CASE Error(q, e)
  BY <1>3, <1>4, ErrorFails, OtherErrors
<1>5. CASE Break(q)
  BY <1>3, <1>5, LineMoves
<1> QED BY <1>1, <1>4, <1>5

LEMMA VersionMoves == ASSUME ParserInv, ReqMethod \/ FirstMajor \/ Major \/ FirstMinor \/ Minor PROVE Fails \/ Moves
<1>1. pc = "switch" /\ parser.state \in InLine /\ parser \in Parser
  BY InSwitch, InLineFacts DEF ReqMethod, FirstMajor, Major, FirstMinor, Minor, At, AtOneOf
<1>2. ASSUME \E e \in {"INVALID_METHOD", "INVALID_VERSION"} : Error(parser, e) PROVE Fails
  BY <1>1, <1>2, ErrorFails, OtherErrors
<1>3. CASE ReqMethod
  BY <1>1, <1>2, <1>3, InLineFacts, LineTo DEF ReqMethod
<1>4. CASE FirstMajor
  <2>1. ASSUME NEW s \in InLine, Break([parser EXCEPT !.http_major = unhex(ch), !.state = s]) PROVE Moves
    <3> DEFINE q == [parser EXCEPT !.http_major = unhex(ch), !.state = s]
    <3>1. q.nread = parser.nread /\ q.flags = parser.flags /\ q.state = s
      BY <1>1 DEF Parser
    <3>2. Break(q)
      BY <2>1
    <3> HIDE DEF q
    <3> QED BY <1>1, <3>1, <3>2, LineMoves
  <2> QED BY <1>2, <1>4, <2>1, InLineFacts DEF FirstMajor
<1>5. CASE Major
  <2>1. CASE Break(To(IF parser.state = "s_res_http_major" THEN "s_res_first_http_minor" ELSE "s_req_first_http_minor"))
    BY <1>1, <2>1, InLineFacts, LineTo
  <2>2. CASE IS_NUM(ch) /\ MoreDigits("http_major", "INVALID_VERSION")
    BY <1>1, <2>2, MoreDigitsMoves
  <2> QED BY <1>2, <1>5, <2>1, <2>2 DEF Major
<1>6. CASE FirstMinor
  <2>1. ASSUME NEW s \in InLine, Break([parser EXCEPT !.http_minor = unhex(ch), !.state = s]) PROVE Moves
    <3> DEFINE q == [parser EXCEPT !.http_minor = unhex(ch), !.state = s]
    <3>1. q.nread = parser.nread /\ q.flags = parser.flags /\ q.state = s
      BY <1>1 DEF Parser
    <3>2. Break(q)
      BY <2>1
    <3> HIDE DEF q
    <3> QED BY <1>1, <3>1, <3>2, LineMoves
  <2> QED BY <1>2, <1>6, <2>1, InLineFacts DEF FirstMinor
<1>7. CASE Minor
  <2>1. CASE IS_NUM(ch) /\ MoreDigits("http_minor", "INVALID_VERSION")
    BY <1>1, <2>1, MoreDigitsMoves
  <2>2. CASE Break(To("s_res_first_status_code")) \/ Break(To("s_req_line_almost_done"))
    BY <1>1, <2>2, InLineFacts, LineTo
  <2>3. CASE ch = LF /\ Break(To("s_header_field_start"))
    BY <1>1, <2>3, InLineFacts, LineTo
  <2>4. \/ IS_NUM(ch) /\ MoreDigits("http_minor", "INVALID_VERSION")
        \/ Break(To("s_res_first_status_code")) \/ Break(To("s_req_line_almost_done"))
        \/ (ch = LF /\ Break(To("s_header_field_start")))
        \/ Error(parser, "INVALID_VERSION")
    BY <1>7 DEF Minor
  <2> QED BY <1>2, <2>1, <2>2, <2>3, <2>4
<1> QED BY <1>3, <1>4, <1>5, <1>6, <1>7

LEMMA StatusCodeMoves ==
  ASSUME ParserInv, FirstStatusCode \/ StatusCode \/ ResLineAlmostDone \/ ReqHttpStart \/ ReqLineAlmostDone
  PROVE  Fails \/ Moves
<1>1. pc = "switch" /\ parser.state \in InLine /\ parser \in Parser
  BY InSwitch, InLineFacts DEF FirstStatusCode, StatusCode, ResLineAlmostDone, ReqHttpStart, ReqLineAlmostDone, At
<1>2. ASSUME \E e \in {"INVALID_STATUS", "INVALID_CONSTANT", "LF_EXPECTED", "STRICT"} : Error(parser, e) PROVE Fails
  BY <1>1, <1>2, ErrorFails, OtherErrors
<1>3. ASSUME \E s \in InLine : Break(To(s)) PROVE Moves
  BY <1>1, <1>3, LineTo
<1>4. ASSUME ch = LF, Break(To("s_header_field_start")) PROVE Moves
  BY <1>1, <1>4, LineTo
<1>5. ASSUME Break(parser) PROVE Moves
  BY <1>1, <1>5, LineMoves
<1>6. CASE FirstStatusCode
  <2>1. ASSUME Break([parser EXCEPT !.status_code = unhex(ch), !.state = "s_res_status_code"]) PROVE Moves
    <3> DEFINE q == [parser EXCEPT !.status_code = unhex(ch), !.state = "s_res_status_code"]
    <3>1. q.nread = parser.nread /\ q.flags = parser.flags /\ q.state = "s_res_status_code"
      BY <1>1 DEF Parser
    <3>2. Break(q)
      BY <2>1
    <3> HIDE DEF q
    <3> QED BY <1>1, <3>1, <3>2, InLineFacts, LineMoves
  <2> QED BY <1>2, <1>5, <1>6, <2>1 DEF FirstStatusCode
<1>7. CASE StatusCode
  <2>1. CASE IS_NUM(ch) /\ MoreDigits("status_code", "INVALID_STATUS")
    BY <1>1, <2>1, MoreDigitsMoves
  <2> QED BY <1>2, <1>3, <1>4, <1>7, <2>1, InLineFacts DEF StatusCode
<1>8. CASE ResLineAlmostDone \/ ReqHttpStart \/ ReqLineAlmostDone
  BY <1>2, <1>3, <1>4, <1>5, <1>8, InLineFacts DEF ResLineAlmostDone, ReqHttpStart, ReqLineAlmostDone
<1> QED BY <1>6, <1>7, <1>8

LEMMA StatusMoves == ASSUME ParserInv, StatusStart \/ Status PROVE Fails \/ Moves
<1>1. pc = "switch" /\ parser.state \in InLine /\ parser \in Parser
  BY InSwitch, InLineFacts DEF StatusStart, Status, At
<1>2. ASSUME \E s \in InLine : Break(To(s)) PROVE Moves
  BY <1>1, <1>2, LineTo
<1>3. ASSUME ch = LF, Break(To("s_header_field_start")) PROVE Moves
  BY <1>1, <1>3, LineTo
<1>4. ASSUME Break(parser) PROVE Moves
  BY <1>1, <1>4, LineMoves
<1> QED BY <1>2, <1>3, <1>4, InLineFacts DEF StatusStart, Status

LEMMA UrlMoves == ASSUME ParserInv, ReqSpacesBeforeUrl \/ ReqUrlStart \/ ReqUrl PROVE Fails \/ Moves
<1>1. pc = "switch" /\ parser.state \in InLine /\ parser \in Parser
  BY InSwitch, InLineFacts DEF ReqSpacesBeforeUrl, ReqUrlStart, ReqUrl, At, AtOneOf, UrlState
<1>2. \A t, c : parse_url_char(t, c) \in UrlState \cup {"s_dead"}
  BY DEF parse_url_char, UrlState
<1>3. ASSUME Error(To("s_dead"), "INVALID_URL") PROVE Fails
  <2>1. To("s_dead") \in Parser
    BY <1>1, CalmFacts, ToFacts DEF Calm
  <2> QED BY <1>3, <2>1, ErrorFails, OtherErrors
<1>4. ASSUME NEW t, t \in UrlState \cup {"s_dead"}, IF t = "s_dead" THEN Error(To(t), "INVALID_URL") ELSE Break(To(t))
      PROVE  Fails \/ Moves
  BY <1>1, <1>3, <1>4, InLineFacts, LineTo
<1>5. ASSUME UrlChar(parser.state) PROVE Fails \/ Moves
  BY <1>2, <1>4, <1>5 DEF UrlChar
<1>6. CASE ReqSpacesBeforeUrl
  <2>1. CASE Break(parser)
    BY <1>1, <2>1, LineMoves
  <2>2. ASSUME NEW s, LET t == parse_url_char(s, ch) IN IF t = "s_dead" THEN Error(To(t), "INVALID_URL") ELSE Break(To(t))
        PROVE  Fails \/ Moves
    BY <1>2, <1>4, <2>2
  <2> QED BY <1>6, <2>1, <2>2 DEF ReqSpacesBeforeUrl
<1>7. CASE ReqUrlStart
  BY <1>5, <1>7 DEF ReqUrlStart
<1>8. CASE ReqUrl
  <2>1. CASE Break(To("s_req_http_start"))
    BY <1>1, <2>1, InLineFacts, LineTo
  <2>2. ASSUME NEW s, s \in InLine \/ (ch = LF /\ s = "s_header_field_start"),
               Break([parser EXCEPT !.http_major = 0, !.http_minor = 9, !.state = s])
        PROVE  Moves
    <3> DEFINE q == [parser EXCEPT !.http_major = 0, !.http_minor = 9, !.state = s]
    <3>1. q.nread = parser.nread /\ q.flags = parser.flags /\ q.state = s
      BY <1>1 DEF Parser
    <3>2. Break(q)
      BY <2>2
    <3> HIDE DEF q
    <3> QED BY <1>1, <2>2, <3>1, <3>2, LineMoves
  <2>3. CASE /\ ch \in {CR, LF}
             /\ Break([parser EXCEPT !.http_major = 0, !.http_minor = 9,
                                     !.state = IF ch = CR THEN "s_req_line_almost_done" ELSE "s_header_field_start"])
    <3> DEFINE s == IF ch = CR THEN "s_req_line_almost_done" ELSE "s_header_field_start"
    <3>1. s \in InLine \/ (ch = LF /\ s = "s_header_field_start")
      BY <2>3, InLineFacts
    <3>2. Break([parser EXCEPT !.http_major = 0, !.http_minor = 9, !.state = s])
      BY <2>3
    <3> HIDE DEF s
    <3> QED BY <2>2, <3>1, <3>2
  <2> QED BY <1>5, <1>8, <2>1, <2>3 DEF ReqUrl
<1> QED BY <1>6, <1>7, <1>8

LEMMA StartLineMoves == ASSUME ParserInv, StartLine PROVE pc = "switch" /\ (Fails \/ Moves)
<1>1. pc = "switch"
  BY DEF StartLine, Dead, StartReqOrRes, StartRes, StartReq, ReqMethod, FirstMajor, Major, FirstMinor, Minor,
         FirstStatusCode, StatusCode, StatusStart, Status, ResLineAlmostDone, ReqSpacesBeforeUrl, ReqUrlStart, ReqUrl,
         ReqHttpStart, ReqLineAlmostDone, At, AtOneOf
<1> QED BY <1>1, DeadMoves, StartMoves, VersionMoves, StatusCodeMoves, StatusMoves, UrlMoves DEF StartLine

LEMMA StartLineLimit == ASSUME ParserInv, LimitInv, StartLine PROVE LimitInv'
  BY StartLineMoves, FailsLimit, MovesLimit

-----------------------------------------------------------------------------
\* The names and values of headers.
LEMMA TrailingFacts == /\ \A h : "F_TRAILING" \notin FlagOf(h)
                       /\ "F_TRAILING" # "F_UPGRADE"
<1>1. ASSUME NEW h PROVE "F_TRAILING" \notin FlagOf(h)
  BY DEF FlagOf
<1> QED BY <1>1

LEMMA HeaderMoves ==
  ASSUME ParserInv, HeaderFieldStart \/ HeaderValueDiscardWs \/ HeaderValueDiscardWsAlmostDone \/ HeaderValueDiscardLws
                      \/ HeaderValueStart \/ HeaderAlmostDone \/ HeaderValueLws
  PROVE  pc = "switch" /\ (Fails \/ Moves)
<1>1. pc = "switch" /\ parser \in Parser
  BY InSwitch DEF HeaderFieldStart, HeaderValueDiscardWs, HeaderValueDiscardWsAlmostDone, HeaderValueDiscardLws,
                  HeaderValueStart, HeaderAlmostDone, HeaderValueLws, At
<1>2. parser.state \notin NotBegun /\ parser.state \notin AtEnd
  BY DEF HeaderFieldStart, HeaderValueDiscardWs, HeaderValueDiscardWsAlmostDone, HeaderValueDiscardLws,
         HeaderValueStart, HeaderAlmostDone, HeaderValueLws, At, NotBegun, AtEnd
<1>3. ASSUME \E e \in {"STRICT", "INVALID_HEADER_TOKEN"} : Error(parser, e) PROVE Fails
  BY <1>1, <1>3, ErrorFails, OtherErrors
<1>4. ASSUME \E s \in Middle : Break(To(s)) \/ Reexecute(To(s)) PROVE Moves
  BY <1>1, <1>2, <1>4, ToMiddle
<1>5. ASSUME ch = LF, \E s \in BehindLF : Break(To(s)) PROVE Moves
  BY <1>1, <1>2, <1>5, ToBehindLF
<1>6. CASE HeaderFieldStart
  <2>1. parser.state = "s_header_field_start" /\ "s_headers_almost_done" \in AtEnd /\ "s_headers_almost_done" \in FirstState
        /\ "s_headers_almost_done" \notin BehindLF /\ parser.state \in BehindLF
    BY <1>6, FirstKinds DEF HeaderFieldStart, At, AtEnd, BehindLF
  <2>2. CASE ch = CR /\ Break(To("s_headers_almost_done"))
    <3>1. Over(parser.state, "s_headers_almost_done", ch)
      BY <1>2, <2>1, <2>2 DEF Over
    <3> QED BY <1>1, <2>2, <3>1, GoingTo
  <2>3. CASE Reexecute(To("s_headers_almost_done"))
    <3>1. Again(parser.state, "s_headers_almost_done")
      BY <1>2, <2>1 DEF Again
    <3> QED BY <1>1, <2>3, <3>1, GoingTo
  <2>4. CASE Break([parser EXCEPT !.state = "s_header_field", !.header_state = NameState(ch)])
    <3> DEFINE q == [parser EXCEPT !.state = "s_header_field", !.header_state = NameState(ch)]
    <3>1. Alike(q, "s_header_field")
      BY <1>1 DEF Alike, Parser
    <3>2. Break(q)
      BY <2>4
    <3> HIDE DEF q
    <3>3. Over(parser.state, "s_header_field", ch)
      BY <1>2, LineStates, OverMiddle
    <3> QED BY <1>1, <3>1, <3>2, <3>3, Going
  <2> QED BY <1>1, <1>3, <1>6, <2>2, <2>3, <2>4 DEF HeaderFieldStart
<1>7. ASSUME ValueStart PROVE Fails \/ Moves
  <2> DEFINE h == parser.header_state
             t == To("s_header_value")
  <2>1. t \in Parser
    BY <1>1, ToFacts, ValueStates
  <2>2. Alike(t, "s_header_value")
    BY <1>1, ToAlike
  <2>3. ASSUME NEW q, Alike(q, "s_header_value"), Break(q) PROVE Moves
    <3>1. Over(parser.state, "s_header_value", ch)
      BY <1>2, LineStates, OverMiddle
    <3> QED BY <1>1, <2>3, <3>1, Going
  <2>4. \/ Error(t, "INVALID_CONTENT_LENGTH")
        \/ Break([t EXCEPT !.flags = @ \cup {"F_UPGRADE"}, !.header_state = "h_general"])
        \/ \E g : Break([t EXCEPT !.header_state = g])
        \/ Break([t EXCEPT !.content_length = unhex(ch)])
        \/ Break(t)
    BY <1>7 DEF ValueStart
  <2> HIDE DEF t, h
  <2>5. CASE Error(t, "INVALID_CONTENT_LENGTH")
    BY <2>1, <2>5, ErrorFails, OtherErrors
  <2>6. CASE Break([t EXCEPT !.flags = @ \cup {"F_UPGRADE"}, !.header_state = "h_general"])
    <3> DEFINE q == [t EXCEPT !.flags = @ \cup {"F_UPGRADE"}, !.header_state = "h_general"]
    <3>1. Alike(q, "s_header_value")
      BY <2>1, <2>2 DEF Alike, Parser
    <3>2. Break(q)
      BY <2>6
    <3> HIDE DEF q
    <3> QED BY <2>3, <3>1, <3>2
  <2>7. ASSUME NEW g, Break([t EXCEPT !.header_state = g]) PROVE Moves
    <3> DEFINE q == [t EXCEPT !.header_state = g]
    <3>1. Alike(q, "s_header_value")
      BY <2>1, <2>2 DEF Alike, Parser
    <3>2. Break(q)
      BY <2>7
    <3> HIDE DEF q
    <3> QED BY <2>3, <3>1, <3>2
  <2>8. CASE Break([t EXCEPT !.content_length = unhex(ch)])
    <3> DEFINE q == [t EXCEPT !.content_length = unhex(ch)]
    <3>1. Alike(q, "s_header_value")
      BY <2>1, <2>2 DEF Alike, Parser
    <3>2. Break(q)
      BY <2>8
    <3> HIDE DEF q
    <3> QED BY <2>3, <3>1, <3>2
  <2> QED BY <2>2, <2>3, <2>4, <2>5, <2>6, <2>7, <2>8
<1>8. ASSUME parser.state \in BehindLF,
             Reexecute([parser EXCEPT !.flags = @ \cup FlagOf(parser.header_state), !.state = "s_header_field_start"])
      PROVE  Moves
  <2> DEFINE q == [parser EXCEPT !.flags = @ \cup FlagOf(parser.header_state), !.state = "s_header_field_start"]
  <2>1. Alike(q, "s_header_field_start")
    BY <1>1, TrailingFacts DEF Alike, Parser
  <2>2. Reexecute(q)
    BY <1>8
  <2> HIDE DEF q
  <2>3. Again(parser.state, "s_header_field_start")
    BY <1>2, <1>8, FirstKinds DEF Again, BehindLF, AtEnd
  <2> QED BY <1>1, <2>1, <2>2, <2>3, Going
<1>9. CASE HeaderValueDiscardWs \/ HeaderValueStart
  <2>1. ASSUME HeaderValueDiscardWs, Break(parser) PROVE Moves
    <3>1. parser.state \notin BehindLF \cup AtEnd
      BY <1>2, <2>1 DEF HeaderValueDiscardWs, At, BehindLF
    <3> QED BY <1>1, <2>1, <3>1, StayHere
  <2>2. "s_header_value_discard_lws" \in BehindLF
    BY DEF BehindLF
  <2> QED BY <1>4, <1>5, <1>7, <1>9, <2>1, <2>2, <1>1, LineStates DEF HeaderValueDiscardWs, HeaderValueStart
<1>10. CASE HeaderValueDiscardWsAlmostDone
  <2>1. "s_header_value_discard_lws" \in BehindLF
    BY DEF BehindLF
  <2> QED BY <1>1, <1>3, <1>5, <1>10, <2>1 DEF HeaderValueDiscardWsAlmostDone
<1>11. CASE HeaderAlmostDone
  <2>1. "s_header_value_lws" \in BehindLF
    BY DEF BehindLF
  <2> QED BY <1>1, <1>3, <1>5, <1>11, <2>1 DEF HeaderAlmostDone
<1>12. CASE HeaderValueDiscardLws \/ HeaderValueLws
  <2>1. parser.state \in BehindLF
    BY <1>12 DEF HeaderValueDiscardLws, HeaderValueLws, At, BehindLF
  <2> QED BY <1>1, <1>4, <1>8, <1>12, <2>1, LineStates DEF HeaderValueDiscardLws, HeaderValueLws
<1> QED BY <1>1, <1>6, <1>9, <1>10, <1>11, <1>12

-----------------------------------------------------------------------------
\* The head of the loop, which counts, and the end of the data.
LEMMA NextLimit ==
  ASSUME ParserInv, LimitInv, pc = "next"
  PROVE  /\ Few /\ (Within \/ First) /\ p \in Nat /\ len \in Nat /\ p <= len /\ data \in Seq(Symbol) /\ parser \in Parser
         /\ parser.nread \in Nat /\ parser.nread <= HTTP_MAX_HEADER_SIZE /\ parser.http_errno = "OK"
         /\ p < len => parser.nread <= p /\ (First => parser.nread = p)
<1>1. Types /\ Control(parser)
  BY DEF ParserInv, Running
<1>2. data \in Seq(Symbol) /\ p \in Nat /\ len \in Nat /\ p <= len /\ parser \in Parser /\ parser.http_errno = "OK"
  BY <1>1, LenNat DEF Types, Pos, Control
<1>3. parser.nread \in Nat
  BY <1>2 DEF Parser
<1>4. Few /\ (Within \/ First)
  BY DEF LimitInv
<1> QED BY <1>2, <1>3, <1>4 DEF Few, First

LEMMA NextByteLimit == ASSUME ParserInv, LimitInv, NextByte PROVE LimitInv'
<1> DEFINE q == IF PARSING_HEADER(parser.state) THEN Counted(parser, 1) ELSE parser
<1>1. pc = "next" /\ p < len
  BY DEF NextByte
<1>2. /\ Few /\ (Within \/ First) /\ p \in Nat /\ len \in Nat /\ data \in Seq(Symbol) /\ parser \in Parser
      /\ parser.nread \in Nat /\ parser.nread <= HTTP_MAX_HEADER_SIZE /\ parser.http_errno = "OK"
      /\ parser.nread <= p /\ (First => parser.nread = p)
  BY <1>1, NextLimit
<1>3. /\ q \in Parser /\ q.state = parser.state /\ q.flags = parser.flags
      /\ q.nread = IF PARSING_HEADER(parser.state) THEN parser.nread + 1 ELSE parser.nread
  BY <1>2, CountedFacts
<1>4. /\ \/ PARSING_HEADER(parser.state) /\ TooLong(q) /\ Error(q, "HEADER_OVERFLOW")
         \/ ~(PARSING_HEADER(parser.state) /\ TooLong(q)) /\ Reexecute(q)
  BY DEF NextByte
<1> HIDE DEF q
<1>5. q.nread \in Nat /\ q.nread <= p + 1 /\ (First => q.nread = p + 1)
  <2>1. First => PARSING_HEADER(parser.state)
    BY FirstKinds DEF First, PARSING_HEADER
  <2> QED BY <1>2, <1>3, <2>1
<1>6. CASE PARSING_HEADER(parser.state) /\ TooLong(q) /\ Error(q, "HEADER_OVERFLOW")
  <2>1. data' = data /\ pc' = "done" /\ parser'.http_errno = "HEADER_OVERFLOW"
    BY <1>3, <1>6 DEF Error, Parser
  <2>2. q.nread > HTTP_MAX_HEADER_SIZE /\ q.nread <= len + 1
    BY <1>1, <1>2, <1>5, <1>6 DEF TooLong
  <2> QED BY <1>2, <1>5, <2>1, <2>2, OverflowLimit
<1>7. CASE ~(PARSING_HEADER(parser.state) /\ TooLong(q)) /\ Reexecute(q)
  <2>1. data' = data /\ pc' = "switch" /\ p' = p /\ parser' = q
    BY <1>7 DEF Reexecute
  <2>2. q.nread <= HTTP_MAX_HEADER_SIZE
    <3>1. CASE PARSING_HEADER(parser.state)
      BY <1>5, <1>7, <3>1, HeaderAssumption DEF TooLong
    <3>2. CASE ~PARSING_HEADER(parser.state)
      BY <1>2, <1>3, <3>2
    <3> QED BY <3>1, <3>2
  <2>3. Few'
    BY <1>5, <2>1, <2>2 DEF Few
  <2>4. First => First'
    BY <1>2, <1>3, <1>5, <2>1 DEF First, Lines
  <2> QED BY <1>2, <2>1, <2>3, <2>4, WithinStays DEF LimitInv, HeaderLimit
<1> QED BY <1>4, <1>6, <1>7

\* A header that ends in time, or a payload that does.
LEMMA InTime ==
  ASSUME data' = data, Within \/ len <= HTTP_MAX_HEADER_SIZE, pc' = "done", parser'.http_errno = "OK" PROVE LimitInv'
<1>1. len' = len
  BY DEF len
<1>2. Within => (\E n \in 1..len : HeaderEnds(n) /\ n <= HTTP_MAX_HEADER_SIZE)'
  BY DEF Within, HeaderEnds, len
<1> QED BY <1>1, <1>2 DEF LimitInv, HeaderLimit

LEMMA EndOfDataLimit == ASSUME ParserInv, LimitInv, EndOfData PROVE LimitInv'
<1>1. pc = "next" /\ p = len /\ pc' = "done" /\ data' = data /\ parser' = parser
  BY DEF EndOfData
<1>2. /\ (Within \/ First) /\ len \in Nat /\ parser.nread \in Nat /\ parser.nread <= HTTP_MAX_HEADER_SIZE
      /\ parser.http_errno = "OK"
  BY <1>1, NextLimit
<1>3. First => len <= HTTP_MAX_HEADER_SIZE
  BY <1>1, <1>2, HeaderAssumption DEF First
<1> QED BY <1>1, <1>2, <1>3, InTime

-----------------------------------------------------------------------------
\* The loops, which count in bulk.
LEMMA HeaderFieldLimit == ASSUME ParserInv, LimitInv, HeaderField PROVE LimitInv'
<1>1. pc = "switch" /\ parser.state = "s_header_field" /\ parser \in Parser
  BY InSwitch DEF HeaderField, At
<1>2. /\ Few /\ (Within \/ First) /\ p \in Nat /\ len \in Nat /\ p < len /\ data \in Seq(Symbol)
      /\ parser.nread \in Nat /\ parser.nread <= p + 1 /\ (First => parser.nread = p + 1)
  BY <1>1, SwitchLimit
<1>3. PICK n \in p..len :
        LET named == Counted([parser EXCEPT !.header_state = IF n = p THEN @ ELSE "h_general"], n - p) IN
        \/ TooLong(named) /\ Error(named, "HEADER_OVERFLOW")
        \/ Error(named, "INVALID_HEADER_TOKEN")
        \/ /\ ~TooLong(named) /\ n = len
           /\ parser' = named /\ p' = n /\ pc' = "next" /\ data' = data
        \/ /\ ~TooLong(named) /\ n < len
           /\ parser' = [named EXCEPT !.state = "s_header_value_discard_ws"] /\ p' = n + 1 /\ pc' = "next" /\ data' = data
  BY DEF HeaderField
<1> DEFINE h     == IF n = p THEN parser.header_state ELSE "h_general"
           r     == [parser EXCEPT !.header_state = h]
           named == Counted(r, n - p)
<1>4. n \in Nat /\ n - p \in Nat /\ p <= n /\ n <= len
  BY <1>2
<1>5. \/ TooLong(named) /\ Error(named, "HEADER_OVERFLOW")
      \/ Error(named, "INVALID_HEADER_TOKEN")
      \/ /\ ~TooLong(named) /\ n = len
         /\ parser' = named /\ p' = n /\ pc' = "next" /\ data' = data
      \/ /\ ~TooLong(named) /\ n < len
         /\ parser' = [named EXCEPT !.state = "s_header_value_discard_ws"] /\ p' = n + 1 /\ pc' = "next" /\ data' = data
  BY <1>3
<1>6. r \in Parser /\ r.state = "s_header_field" /\ r.flags = parser.flags /\ r.nread = parser.nread
  <2>1. h \in HeaderState
    <3>1. parser.header_state \in HeaderState /\ "h_general" \in HeaderState
      BY <1>1 DEF Parser, HeaderState
    <3> QED BY <3>1
  <2> HIDE DEF h
  <2> QED BY <1>1, <2>1 DEF Parser
<1> HIDE DEF r
<1>7. named \in Parser /\ named.state = "s_header_field" /\ named.flags = parser.flags /\ named.nread = parser.nread + (n - p)
  BY <1>4, <1>6, CountedFacts
<1> HIDE DEF named
<1>8. named.nread \in Nat /\ named.nread <= n + 1 /\ (First => named.nread = n + 1)
  BY <1>2, <1>4, <1>7
<1>9. CASE Error(named, "INVALID_HEADER_TOKEN")
  BY <1>7, <1>9, ErrorFails, OtherErrors, FailsLimit
<1>10. CASE TooLong(named) /\ Error(named, "HEADER_OVERFLOW")
  <2>1. data' = data /\ pc' = "done" /\ parser'.http_errno = "HEADER_OVERFLOW"
    BY <1>7, <1>10 DEF Error, Parser
  <2>2. named.nread > HTTP_MAX_HEADER_SIZE /\ named.nread <= len + 1
    BY <1>2, <1>4, <1>8, <1>10 DEF TooLong
  <2> QED BY <1>2, <1>8, <2>1, <2>2, OverflowLimit
<1>11. ASSUME ~TooLong(named), data' = data, pc' = "next", p' \in {n, n + 1}, p' = n => n = len,
              NEW s \in Middle, parser'.state = s, parser'.nread = named.nread, parser'.flags = named.flags
       PROVE  LimitInv'
  <2>1. len' = len /\ p' \in Nat /\ p' >= p /\ named.nread <= HTTP_MAX_HEADER_SIZE
    BY <1>2, <1>4, <1>8, <1>11, HeaderAssumption DEF len, TooLong
  <2>2. Few'
    <3>1. CASE p' = n
      BY <1>4, <1>8, <1>11, <2>1, <3>1 DEF Few
    <3>2. CASE p' = n + 1
      <4>1. parser'.nread <= p' /\ parser'.nread <= p' + 1
        BY <1>4, <1>8, <1>11, <3>2
      <4> QED BY <1>11, <2>1, <4>1 DEF Few
    <3> QED BY <1>11, <3>1, <3>2
  <2>3. ASSUME First PROVE First'
    <3>1. Lines(parser.state, p) /\ parser.state \in FirstState /\ "F_TRAILING" \notin parser.flags
      BY <2>3 DEF First
    <3>2. parser.state \notin NotBegun
      BY <1>1 DEF NotBegun
    <3>3. Lines(s, p')
      BY <1>2, <2>1, <3>1, <3>2, MiddleFacts, LinesGrow
    <3>4. Lines(parser.state, p)'
      BY <1>11, <3>3 DEF Lines
    <3>5. parser'.nread >= p'
      BY <1>4, <1>8, <1>11, <2>3
    <3> QED BY <1>7, <1>11, <3>1, <3>4, <3>5, MiddleFacts DEF First
  <2> QED BY <1>2, <1>11, <2>2, <2>3, WithinStays DEF LimitInv, HeaderLimit
<1>12. CASE /\ ~TooLong(named) /\ n = len
            /\ parser' = named /\ p' = n /\ pc' = "next" /\ data' = data
  <2>1. "s_header_field" \in Middle
    BY LineStates
  <2> QED BY <1>7, <1>11, <1>12, <2>1
<1>13. CASE /\ ~TooLong(named) /\ n < len
            /\ parser' = [named EXCEPT !.state = "s_header_value_discard_ws"] /\ p' = n + 1 /\ pc' = "next" /\ data' = data
  <2>1. "s_header_value_discard_ws" \in Middle
    BY LineStates
  <2>2. parser'.state = "s_header_value_discard_ws" /\ parser'.nread = named.nread /\ parser'.flags = named.flags
    BY <1>7, <1>13 DEF Parser
  <2>3. p' # n
    BY <1>4, <1>13
  <2> QED BY <1>11, <1>13, <2>1, <2>2, <2>3
<1> QED BY <1>5, <1>9, <1>10, <1>12, <1>13

LEMMA HeaderValueLimit == ASSUME ParserInv, LimitInv, HeaderValue PROVE LimitInv'
<1>1. pc = "switch" /\ start' = p /\ pc' = "value" /\ UNCHANGED <<data, p, parser>>
  BY DEF HeaderValue, At
<1>2. /\ Few /\ (Within \/ First) /\ p \in Nat /\ parser.nread \in Nat /\ parser.nread <= p + 1
      /\ (First => parser.nread = p + 1)
  BY <1>1, SwitchLimit
<1>3. Few'
  BY <1>1, <1>2 DEF Few
<1>4. First => First'
  BY <1>1, <1>2 DEF First, Lines
<1> QED BY <1>1, <1>2, <1>3, <1>4, WithinStays DEF LimitInv, HeaderLimit

\* What has been counted when the loop over a value is left.
LEMMA ValueLimit ==
  ASSUME ParserInv, LimitInv, pc = "value"
  PROVE  /\ Few /\ (Within \/ First) /\ p \in Nat /\ len \in Nat /\ p <= len /\ data \in Seq(Symbol) /\ parser \in Parser
         /\ parser.nread \in Nat /\ start \in Nat /\ start <= p /\ p - start \in Nat
         /\ parser.nread + (p - start) <= p + 1 /\ (First => parser.nread + (p - start) = p + 1)
         /\ parser.state = "s_header_value"
<1>1. /\ Types /\ parser.state = "s_header_value" /\ parser \in Parser /\ p \in Nat /\ len \in Nat /\ p <= len
      /\ start <= p /\ p - start \in Nat
  BY ValueFacts
<1>2. data \in Seq(Symbol) /\ start \in Nat /\ parser.nread \in Nat
  BY <1>1 DEF Types, Pos, Parser
<1>3. Few /\ (Within \/ First)
  BY DEF LimitInv
<1>4. parser.nread <= start + 1 /\ (First => parser.nread = start + 1)
  BY <1>2, <1>3 DEF Few, First
<1> QED BY <1>1, <1>2, <1>3, <1>4

\* The loop over a value is left for state s at position n.
LEMMA LeaveLimit ==
  ASSUME ParserInv, LimitInv, pc = "value", data' = data, NEW s \in Middle,
         NEW c, c.state = s, c.flags = parser.flags, c.nread = parser.nread + (p - start), ~TooLong(c), parser' = c,
         \/ pc' = "next" /\ ((p' = p /\ p = len) \/ p' = p + 1)
         \/ pc' = "switch" /\ p' = p
  PROVE  LimitInv'
<1>1. /\ Few /\ (Within \/ First) /\ p \in Nat /\ len \in Nat /\ p <= len
      /\ c.nread <= p + 1 /\ (First => c.nread = p + 1) /\ c.nread \in Nat /\ parser.state = "s_header_value"
  BY ValueLimit
<1>2. len' = len /\ p' \in Nat /\ p' >= p /\ c.nread <= HTTP_MAX_HEADER_SIZE
  BY <1>1, HeaderAssumption DEF len, TooLong
<1>3. Few'
  <2>1. CASE pc' = "next" /\ p' = p /\ p = len
    BY <1>1, <1>2, <2>1 DEF Few
  <2>2. CASE pc' = "next" /\ p' = p + 1
    <3>1. c.nread <= p' /\ c.nread <= p' + 1
      BY <1>1, <2>2
    <3> QED BY <1>2, <2>2, <3>1 DEF Few
  <2>3. CASE pc' = "switch" /\ p' = p
    BY <1>1, <1>2, <2>3 DEF Few
  <2> QED BY <2>1, <2>2, <2>3
<1>4. ASSUME First PROVE First'
  <2>1. Lines(parser.state, p) /\ parser.state \in FirstState /\ "F_TRAILING" \notin parser.flags
    BY <1>4 DEF First
  <2>2. parser.state \notin NotBegun
    BY <1>1 DEF NotBegun
  <2>3. Lines(s, p')
    BY <1>1, <1>2, <2>1, <2>2, MiddleFacts, LinesGrow
  <2>4. Lines(parser.state, p)'
    BY <2>3 DEF Lines
  <2>5. (pc' = "next" => c.nread >= p') /\ (pc' = "switch" => c.nread >= p' + 1)
    BY <1>1, <1>4
  <2> QED BY <2>1, <2>4, <2>5, MiddleFacts DEF First
<1> QED BY <1>1, <1>3, <1>4, WithinStays DEF LimitInv, HeaderLimit

LEMMA LeaveCounts ==
  ASSUME parser \in Parser, NEW s \in State, h_state \in HeaderState, p - start \in Nat
  PROVE  LET c == Counted([To(s) EXCEPT !.header_state = h_state], p - start) IN
         /\ c.state = s /\ c.flags = parser.flags /\ c.nread = parser.nread + (p - start)
         /\ [c EXCEPT !.http_errno = "HEADER_OVERFLOW"].http_errno = "HEADER_OVERFLOW"
<1> DEFINE q == [To(s) EXCEPT !.header_state = h_state]
           c == Counted(q, p - start)
<1>1. q \in Parser /\ q.state = s /\ q.flags = parser.flags /\ q.nread = parser.nread
  BY ToFacts DEF Parser
<1> HIDE DEF q
<1>2. c \in Parser /\ c.state = s /\ c.flags = parser.flags /\ c.nread = parser.nread + (p - start)
  BY <1>1, CountedFacts
<1> HIDE DEF c
<1>3. [c EXCEPT !.http_errno = "HEADER_OVERFLOW"].http_errno = "HEADER_OVERFLOW"
  BY <1>2 DEF Parser
<1>4. /\ c.state = s /\ c.flags = parser.flags /\ c.nread = parser.nread + (p - start)
      /\ [c EXCEPT !.http_errno = "HEADER_OVERFLOW"].http_errno = "HEADER_OVERFLOW"
  BY <1>2, <1>3
<1> QED BY <1>4 DEF c, q

LEMMA ValueEndLimit == ASSUME ParserInv, LimitInv, ValueEndOfData \/ ValueCR PROVE LimitInv'
<1>1. pc = "value"
  BY DEF ValueEndOfData, ValueCR, InValue
<1>2. /\ p \in Nat /\ len \in Nat /\ data \in Seq(Symbol) /\ parser \in Parser /\ p - start \in Nat /\ p <= len
      /\ parser.nread + (p - start) \in Nat /\ parser.nread + (p - start) <= p + 1 /\ parser.state = "s_header_value"
  BY <1>1, ValueLimit
<1>3. {"s_header_value", "s_header_almost_done"} \subseteq Middle \cap State
  BY LineStates, MiddleFacts, FirstKinds
<1>4. h_state \in HeaderState
  BY <1>1, ValueFacts
<1>5. parser = To("s_header_value")
  BY <1>2 DEF To, Parser
<1>6. PICK s \in {"s_header_value", "s_header_almost_done"} :
        (LeaveValue(To(s), p) /\ p = len) \/ LeaveValue(To(s), p + 1)
  BY <1>5 DEF ValueEndOfData, ValueCR
<1> DEFINE c == Counted([To(s) EXCEPT !.header_state = h_state], p - start)
<1>7. /\ c.state = s /\ c.flags = parser.flags /\ c.nread = parser.nread + (p - start)
      /\ [c EXCEPT !.http_errno = "HEADER_OVERFLOW"].http_errno = "HEADER_OVERFLOW"
  BY <1>2, <1>3, <1>4, LeaveCounts
<1>8. \/ TooLong(c) /\ parser' = [c EXCEPT !.http_errno = "HEADER_OVERFLOW"] /\ pc' = "done" /\ data' = data
      \/ ~TooLong(c) /\ parser' = c /\ pc' = "next" /\ data' = data /\ ((p' = p /\ p = len) \/ p' = p + 1)
  BY <1>6 DEF LeaveValue
<1> HIDE DEF c
<1>9. CASE TooLong(c) /\ parser' = [c EXCEPT !.http_errno = "HEADER_OVERFLOW"] /\ pc' = "done" /\ data' = data
  <2>1. c.nread > HTTP_MAX_HEADER_SIZE /\ c.nread <= len + 1 /\ c.nread \in Nat
    BY <1>2, <1>7, <1>9 DEF TooLong
  <2> QED BY <1>2, <1>7, <1>9, <2>1, OverflowLimit
<1>10. CASE ~TooLong(c) /\ parser' = c /\ pc' = "next" /\ data' = data /\ ((p' = p /\ p = len) \/ p' = p + 1)
  BY <1>1, <1>3, <1>7, <1>10, LeaveLimit
<1> QED BY <1>8, <1>9, <1>10

LEMMA ValueLFLimit == ASSUME ParserInv, LimitInv, ValueLF PROVE LimitInv'
<1> DEFINE t == To("s_header_almost_done")
           q == Counted(t, p - start)
           r == [q EXCEPT !.header_state = h_state]
<1>1. pc = "value"
  BY DEF ValueLF, InValue
<1>2. /\ p \in Nat /\ len \in Nat /\ data \in Seq(Symbol) /\ parser \in Parser /\ p - start \in Nat /\ p <= len
      /\ parser.nread + (p - start) \in Nat /\ parser.nread + (p - start) <= p + 1
  BY <1>1, ValueLimit
<1>3. "s_header_almost_done" \in Middle /\ "s_header_almost_done" \in State
  BY LineStates, MiddleFacts, FirstKinds
<1>4. t \in Parser /\ t.state = "s_header_almost_done" /\ t.flags = parser.flags /\ t.nread = parser.nread
  BY <1>2, <1>3, ToFacts
<1>5. (TooLong(q) /\ Error(q, "HEADER_OVERFLOW")) \/ (~TooLong(q) /\ Reexecute(r))
  BY DEF ValueLF
<1> HIDE DEF t
<1>6. q \in Parser /\ q.state = "s_header_almost_done" /\ q.flags = parser.flags /\ q.nread = parser.nread + (p - start)
  <2>1. q.state = t.state /\ q.flags = t.flags /\ q.nread = t.nread + (p - start) /\ q \in Parser
    BY ONLY <1>2, <1>4, CountedFacts
  <2> HIDE DEF q
  <2> QED BY <1>4, <2>1
<1> HIDE DEF q
<1>7. r.state = "s_header_almost_done" /\ r.flags = parser.flags /\ r.nread = parser.nread + (p - start)
      /\ r.nread = q.nread
  BY <1>6 DEF Parser
<1> HIDE DEF r
<1>8. CASE TooLong(q) /\ Error(q, "HEADER_OVERFLOW")
  <2>1. data' = data /\ pc' = "done" /\ parser'.http_errno = "HEADER_OVERFLOW"
    BY <1>6, <1>8 DEF Error, Parser
  <2>2. q.nread > HTTP_MAX_HEADER_SIZE /\ q.nread <= len + 1 /\ q.nread \in Nat
    BY <1>2, <1>6, <1>8 DEF TooLong
  <2> QED BY <1>2, <2>1, <2>2, OverflowLimit
<1>9. CASE ~TooLong(q) /\ Reexecute(r)
  <2>1. data' = data /\ pc' = "switch" /\ p' = p /\ parser' = r /\ ~TooLong(r)
    BY <1>7, <1>9 DEF Reexecute, TooLong
  <2> QED BY <1>1, <1>3, <1>7, <2>1, LeaveLimit
<1> QED BY <1>5, <1>8, <1>9

LEMMA ValueLoopLimit == ASSUME ParserInv, LimitInv, ValueSkipped \/ ValueDigit \/ ValueWord PROVE LimitInv'
<1>1. pc = "value" /\ p < len
  BY DEF ValueSkipped, ValueDigit, ValueWord, InValue
<1>2. /\ Few /\ (Within \/ First) /\ p \in Nat /\ len \in Nat /\ parser \in Parser /\ parser.state = "s_header_value"
  BY <1>1, ValueLimit
<1>3. ASSUME data' = data, pc' = pc, start' = start, p' \in p..len, parser'.state = parser.state,
             parser'.nread = parser.nread, "F_TRAILING" \in parser'.flags => "F_TRAILING" \in parser.flags
      PROVE  LimitInv'
  <2>1. p' \in Nat /\ p' >= p
    BY <1>2, <1>3
  <2>2. Few'
    BY <1>1, <1>2, <1>3 DEF Few
  <2>3. ASSUME First PROVE First'
    <3>1. Lines(parser.state, p) /\ parser.state \notin NotBegun /\ parser.state \notin BehindLF \cup AtEnd
      BY <1>2, <2>3 DEF First, NotBegun, BehindLF, AtEnd
    <3>2. Lines(parser.state, p')
      BY <1>2, <2>1, <3>1, LinesGrow
    <3>3. Lines(parser.state, p)'
      BY <1>3, <3>2 DEF Lines
    <3> QED BY <1>1, <1>3, <2>3, <3>3 DEF First
  <2> QED BY <1>1, <1>2, <1>3, <2>2, <2>3, WithinStays DEF LimitInv, HeaderLimit
<1>4. CASE ValueSkipped
  BY <1>3, <1>4 DEF ValueSkipped, localVars
<1>5. p + 1 \in p..len
  BY <1>1, <1>2
<1>6. CASE ValueDigit
  <2>1. CASE p' = p + 1 /\ UNCHANGED <<data, pc, parser, outVars, localVars>>
    BY <1>3, <1>5, <2>1 DEF localVars
  <2>2. CASE Error([parser EXCEPT !.header_state = h_state], "INVALID_CONTENT_LENGTH")
    <3> DEFINE q == [parser EXCEPT !.header_state = h_state]
    <3>1. q \in Parser
      BY <1>1, <1>2, ValueFacts DEF Parser
    <3>2. Error(q, "INVALID_CONTENT_LENGTH")
      BY <2>2
    <3> HIDE DEF q
    <3> QED BY <3>1, <3>2, ErrorFails, OtherErrors, FailsLimit
  <2>3. CASE /\ parser' = [parser EXCEPT !.content_length = Shifted(10)] /\ p' = p + 1
             /\ UNCHANGED <<data, pc, outVars, localVars>>
    <3>1. parser'.state = parser.state /\ parser'.nread = parser.nread /\ parser'.flags = parser.flags
      BY <1>2, <2>3 DEF Parser
    <3> QED BY <1>3, <1>5, <2>3, <3>1 DEF localVars
  <2> QED BY <1>6, <2>1, <2>2, <2>3 DEF ValueDigit
<1>7. CASE ValueWord
  <2> DEFINE g == IF ch = "," /\ h_state # "h_transfer_encoding_chunked" THEN FlagOf(h_state) ELSE {}
  <2>1. parser' = [parser EXCEPT !.flags = @ \cup g] /\ p' = p + 1 /\ UNCHANGED <<data, pc, outVars, start>>
    BY <1>7 DEF ValueWord
  <2>2. "F_TRAILING" \notin g
    BY TrailingFacts
  <2> HIDE DEF g
  <2>3. parser'.state = parser.state /\ parser'.nread = parser.nread
        /\ ("F_TRAILING" \in parser'.flags => "F_TRAILING" \in parser.flags)
    BY <1>2, <2>1, <2>2 DEF Parser
  <2> QED BY <1>3, <1>5, <2>1, <2>3
<1> QED BY <1>4, <1>6, <1>7

LEMMA HeaderLimitKept == ASSUME ParserInv, LimitInv, Header PROVE LimitInv'
  BY HeaderMoves, FailsLimit, MovesLimit, HeaderFieldLimit, HeaderValueLimit, ValueEndLimit, ValueLFLimit, ValueLoopLimit
     DEF Header
-----------------------------------------------------------------------------
\* Behind the first header: what is counted only goes down, or in step with p.
LEMMA LaterLimit ==
  ASSUME ParserInv, LimitInv, pc = "switch", Within, data' = data, p' \in Nat,
         parser'.nread \in Nat, parser'.nread <= parser.nread,
         \/ pc' = "next" /\ p' > p
         \/ pc' = "switch" /\ p' >= p
         \/ pc' = "done" /\ parser'.http_errno = "OK"
  PROVE  LimitInv'
<1>1. /\ p \in Nat /\ len \in Nat /\ parser.nread \in Nat /\ parser.nread <= p + 1
      /\ parser.nread <= HTTP_MAX_HEADER_SIZE
  BY SwitchLimit
<1>2. parser'.nread <= p + 1 /\ parser'.nread <= HTTP_MAX_HEADER_SIZE
  BY <1>1, HeaderAssumption
<1>3. CASE pc' = "next" /\ p' > p
  <2>1. parser'.nread <= p' /\ parser'.nread <= p' + 1
    BY <1>1, <1>2, <1>3
  <2>2. Few'
    BY <1>2, <1>3, <2>1 DEF Few
  <2> QED BY <1>3, <2>2, WithinStays DEF LimitInv, HeaderLimit
<1>4. CASE pc' = "switch" /\ p' >= p
  <2>1. parser'.nread <= p' + 1
    BY <1>1, <1>2, <1>4
  <2>2. Few'
    BY <1>2, <1>4, <2>1 DEF Few
  <2> QED BY <1>4, <2>2, WithinStays DEF LimitInv, HeaderLimit
<1>5. CASE pc' = "done" /\ parser'.http_errno = "OK"
  BY <1>5, InTime
<1> QED BY <1>3, <1>4, <1>5

\* The three ways to go on, behind the first header.
LEMMA LaterWays ==
  ASSUME ParserInv, LimitInv, pc = "switch", Within, NEW q, q.nread \in Nat, q.nread <= parser.nread,
         Break(q) \/ Reexecute(q) \/ (Return(q) /\ q.http_errno = "OK")
  PROVE  LimitInv'
<1>1. p \in Nat /\ p + 1 \in Nat /\ p + 1 > p
  BY SwitchLimit
<1>2. data' = data /\ parser' = q
  BY DEF Break, Reexecute, Return
<1>3. \/ pc' = "next" /\ p' = p + 1
      \/ pc' = "switch" /\ p' = p
      \/ pc' = "done" /\ p' = p + 1 /\ q.http_errno = "OK"
  BY DEF Break, Reexecute, Return
<1> QED BY <1>1, <1>2, <1>3, LaterLimit

\* What a case that leaves the count alone assigns.
Same(q) == q.nread = parser.nread \/ q.nread = 0

LEMMA LaterSame ==
  ASSUME ParserInv, LimitInv, pc = "switch", Within, NEW q, Same(q), Break(q) \/ Reexecute(q)
  PROVE  LimitInv'
<1>1. parser.nread \in Nat
  BY SwitchLimit
<1>2. q.nread \in Nat /\ q.nread <= parser.nread
  BY <1>1 DEF Same
<1> QED BY <1>2, LaterWays

LEMMA LaterTo ==
  ASSUME ParserInv, LimitInv, pc = "switch", Within, NEW s, Break(To(s)) \/ Reexecute(To(s))
  PROVE  LimitInv'
<1> DEFINE q == To(s)
<1>1. parser \in Parser
  BY InSwitch
<1>2. Same(q)
  BY <1>1 DEF To, Same, Parser
<1>3. Break(q) \/ Reexecute(q)
  OBVIOUS
<1> HIDE DEF q
<1> QED BY <1>2, <1>3, LaterSame

LEMMA FailsBy ==
  ASSUME parser \in Parser, NEW e \in {"STRICT", "INVALID_CHUNK_SIZE", "INVALID_CONTENT_LENGTH"}, Error(parser, e)
  PROVE  Fails
<1>1. e \in Failures \ {"HEADER_OVERFLOW"}
  BY OtherErrors
<1> QED BY <1>1, ErrorFails

\* A state that is not one of the first header's tells that it has ended.
LEMMA Later ==
  ASSUME LimitInv, pc = "switch", parser.state \in Bodies \cup {"s_message_done"} \/ "F_TRAILING" \in parser.flags
  PROVE  Within
<1>1. Within \/ First
  BY DEF LimitInv
<1> QED BY <1>1, FirstKinds DEF First

-----------------------------------------------------------------------------
\* The end of the header.
LEMMA HeadersAlmostDoneLimit == ASSUME ParserInv, LimitInv, HeadersAlmostDone PROVE LimitInv'
<1>1. pc = "switch" /\ parser.state = "s_headers_almost_done" /\ parser \in Parser
  BY InSwitch DEF HeadersAlmostDone, At
<1>2. CASE Error(parser, "STRICT")
  BY <1>1, <1>2, FailsBy, FailsLimit
<1>3. CASE "F_TRAILING" \in parser.flags /\ Reexecute(To("s_message_done"))
  BY <1>1, <1>3, Later, LaterTo
<1>4. ASSUME NEW u, Reexecute([parser EXCEPT !.state = "s_headers_done", !.upgrade = u]) PROVE LimitInv'
  <2> DEFINE q == [parser EXCEPT !.state = "s_headers_done", !.upgrade = u]
  <2>1. Alike(q, "s_headers_done")
    BY <1>1 DEF Alike, Parser
  <2>2. Reexecute(q)
    BY <1>4
  <2> HIDE DEF q
  <2>3. "s_headers_done" \in FirstState /\ "s_headers_almost_done" \in AtEnd /\ "s_headers_almost_done" \notin NotBegun
        /\ "s_headers_done" \notin BehindLF
    BY FirstKinds DEF AtEnd, NotBegun, BehindLF
  <2>4. Again("s_headers_almost_done", "s_headers_done")
    BY <2>3 DEF Again
  <2> QED BY <1>1, <2>1, <2>2, <2>4, Going, MovesLimit
<1>5. \/ Error(parser, "STRICT")
      \/ "F_TRAILING" \in parser.flags /\ Reexecute(To("s_message_done"))
      \/ \E u : Reexecute([parser EXCEPT !.state = "s_headers_done", !.upgrade = u])
  BY DEF HeadersAlmostDone
<1> QED BY <1>2, <1>3, <1>4, <1>5

\* The line end that ends the header is within the limit.
LEMMA EndsInTime ==
  ASSUME ParserInv, LimitInv, pc = "switch", parser.state = "s_headers_done", ch = LF PROVE Within
<1>1. /\ Few /\ (Within \/ First) /\ p \in Nat /\ len \in Nat /\ p < len /\ parser.nread <= HTTP_MAX_HEADER_SIZE
      /\ (First => parser.nread = p + 1)
  BY SwitchLimit
<1>2. ASSUME First PROVE Within
  <2>1. Lines(parser.state, p) /\ parser.state \in AtEnd /\ parser.state \notin NotBegun
    BY <1>2 DEF First, AtEnd, NotBegun
  <2>2. PICK i \in 1..p : data[i] \notin {CR, LF}
    BY <2>1 DEF Lines
  <2>3. data[p] = LF \/ (data[p] = CR /\ p > 1 /\ data[p - 1] = LF)
    BY <2>1 DEF Lines
  <2>4. p + 1 \in 1..len /\ p + 1 <= HTTP_MAX_HEADER_SIZE /\ data[p + 1] = LF
    BY <1>1, <1>2 DEF ch
  <2>5. CASE data[p] = LF
    <3>1. p \in 1..((p + 1) - 1) /\ p = (p + 1) - 1 /\ i \in 1..p
      BY <1>1, <2>2
    <3>2. \E k \in 1..((p + 1) - 1) :
            /\ data[k] = LF /\ (k = (p + 1) - 1 \/ (k = (p + 1) - 2 /\ data[(p + 1) - 1] = CR))
            /\ \E j \in 1..k : data[j] \notin {CR, LF}
      BY <2>2, <2>5, <3>1
    <3> QED BY <2>4, <3>2 DEF Within, HeaderEnds
  <2>6. CASE data[p] = CR /\ p > 1 /\ data[p - 1] = LF
    <3>1. CR # LF
      BY DEF CR, LF
    <3>2. i # p /\ i # p - 1
      BY <2>2, <2>6
    <3>3. p - 1 \in 1..((p + 1) - 1) /\ p - 1 = (p + 1) - 2 /\ p = (p + 1) - 1 /\ i \in 1..(p - 1)
      BY <1>1, <2>2, <2>6, <3>2
    <3>4. \E k \in 1..((p + 1) - 1) :
            /\ data[k] = LF /\ (k = (p + 1) - 1 \/ (k = (p + 1) - 2 /\ data[(p + 1) - 1] = CR))
            /\ \E j \in 1..k : data[j] \notin {CR, LF}
      BY <2>2, <2>6, <3>3
    <3> QED BY <2>4, <3>4 DEF Within, HeaderEnds
  <2> QED BY <2>3, <2>5, <2>6
<1> QED BY <1>1, <1>2

LEMMA HeadersDoneLimit == ASSUME ParserInv, LimitInv, HeadersDone PROVE LimitInv'
<1>1. pc = "switch" /\ parser.state = "s_headers_done" /\ parser \in Parser /\ parser.http_errno = "OK"
  BY SwitchFacts DEF HeadersDone, At
<1>2. CASE Error(parser, "STRICT")
  BY <1>1, <1>2, FailsBy, FailsLimit
<1>3. ASSUME ch = LF, NEW s, LET q == [[parser EXCEPT !.nread = 0] EXCEPT !.state = s] IN Break(q) \/ Return(q)
      PROVE  LimitInv'
  <2> DEFINE q == [[parser EXCEPT !.nread = 0] EXCEPT !.state = s]
  <2>1. q.nread = 0 /\ q.http_errno = "OK"
    BY <1>1 DEF Parser
  <2>2. Break(q) \/ Return(q)
    BY <1>3
  <2> HIDE DEF q
  <2>3. parser.nread \in Nat
    BY <1>1 DEF Parser
  <2>4. q.nread \in Nat /\ q.nread <= parser.nread
    BY <2>1, <2>3
  <2> QED BY <1>1, <1>3, <2>1, <2>2, <2>4, EndsInTime, LaterWays
<1>4. \/ Error(parser, "STRICT")
      \/ ch = LF /\ \E s : LET q == [[parser EXCEPT !.nread = 0] EXCEPT !.state = s] IN Break(q) \/ Return(q)
  BY DEF HeadersDone
<1> QED BY <1>2, <1>3, <1>4

-----------------------------------------------------------------------------
\* The bodies.
LEMMA BodyStates ==
  /\ {"s_body_identity", "s_body_identity_eof"} \cup ChunkState \subseteq Bodies
  /\ {"s_chunk_size_start", "s_chunk_size", "s_chunk_parameters", "s_chunk_size_almost_done", "s_chunk_data",
      "s_chunk_data_almost_done", "s_chunk_data_done"} \subseteq Bodies
  BY DEF Bodies, ChunkState

LEMMA BodyLength ==
  ASSUME ParserInv, pc = "switch", parser.state \in {"s_body_identity", "s_chunk_data"} PROVE parser.content_length # 0
  BY SwitchFacts DEF Control

LEMMA BodyIdentityLimit == ASSUME ParserInv, LimitInv, BodyIdentity PROVE LimitInv'
<1>1. pc = "switch" /\ parser.state = "s_body_identity" /\ parser \in Parser /\ p \in Nat
  BY SwitchFacts DEF BodyIdentity, At
<1>2. parser.content_length # 0
  BY <1>1, BodyLength
<1>3. ToRead \in Nat /\ ToRead > 0 /\ p + ToRead \in Nat /\ p + ToRead > p /\ p + ToRead - 1 \in Nat
  BY <1>1, <1>2, ToReadFacts
<1>4. /\ data' = data /\ parser'.nread = parser.nread
      /\ \/ p' = p + ToRead - 1 /\ pc' = "switch"
         \/ p' = p + ToRead /\ pc' = "next"
  BY <1>1 DEF BodyIdentity, Parser
<1>5. p + ToRead - 1 >= p
  BY <1>1, <1>3
<1>6. parser.nread \in Nat /\ parser.nread <= parser.nread
  BY <1>1 DEF Parser
<1>7. Within
  BY <1>1, Later, BodyStates
<1> QED BY <1>1, <1>3, <1>4, <1>5, <1>6, <1>7, LaterLimit

LEMMA ChunkDataLimit == ASSUME ParserInv, LimitInv, ChunkData PROVE LimitInv'
<1>1. pc = "switch" /\ parser.state = "s_chunk_data" /\ parser \in Parser /\ p \in Nat
  BY SwitchFacts DEF ChunkData, At
<1>2. parser.content_length # 0
  BY <1>1, BodyLength
<1>3. p + ToRead \in Nat /\ p + ToRead > p
  BY <1>1, <1>2, ToReadFacts
<1>4. data' = data /\ parser'.nread = parser.nread /\ p' = p + ToRead /\ pc' = "next"
  BY <1>1 DEF ChunkData, Parser
<1>5. parser.nread \in Nat /\ parser.nread <= parser.nread
  BY <1>1 DEF Parser
<1>6. Within
  BY <1>1, Later, BodyStates
<1> QED BY <1>1, <1>3, <1>4, <1>5, <1>6, LaterLimit

LEMMA BodyIdentityEofLimit == ASSUME ParserInv, LimitInv, BodyIdentityEof PROVE LimitInv'
<1>1. pc = "switch" /\ parser.state = "s_body_identity_eof" /\ parser \in Parser /\ len \in Nat /\ p < len
  BY SwitchFacts DEF BodyIdentityEof, At
<1>2. data' = data /\ parser' = parser /\ p' = len /\ pc' = "next"
  BY DEF BodyIdentityEof
<1>3. parser.nread \in Nat /\ parser.nread <= parser.nread /\ len > p
  BY <1>1, SwitchLimit DEF Parser
<1>4. Within
  BY <1>1, Later, BodyStates
<1> QED BY <1>1, <1>2, <1>3, <1>4, LaterLimit

LEMMA MessageDoneLimit == ASSUME ParserInv, LimitInv, MessageDone PROVE LimitInv'
<1> DEFINE q == To(NEW_MESSAGE(parser))
<1>1. pc = "switch" /\ parser.state = "s_message_done" /\ parser \in Parser /\ parser.http_errno = "OK"
  BY SwitchFacts DEF MessageDone, At
<1>2. q.nread = parser.nread /\ q.http_errno = "OK"
  BY <1>1 DEF To, Parser
<1>3. Break(q) \/ Return(q)
  BY DEF MessageDone
<1> HIDE DEF q
<1>4. q.nread \in Nat /\ q.nread <= parser.nread
  BY <1>1, <1>2 DEF Parser
<1>5. Within
  BY <1>1, Later
<1> QED BY <1>1, <1>2, <1>3, <1>4, <1>5, LaterWays

LEMMA ChunkSizeLimit ==
  ASSUME ParserInv, LimitInv, ChunkSizeStart \/ ChunkSize \/ ChunkParameters PROVE LimitInv'
<1>1. pc = "switch" /\ parser.state \in Bodies /\ parser \in Parser
  BY InSwitch, BodyStates DEF ChunkSizeStart, ChunkSize, ChunkParameters, At
<1>2. Within
  BY <1>1, Later
<1>3. \/ \E e \in {"STRICT", "INVALID_CHUNK_SIZE", "INVALID_CONTENT_LENGTH"} : Error(parser, e)
      \/ \E s : Break(To(s))
      \/ Break(parser)
      \/ \E l, s : Break([parser EXCEPT !.content_length = l, !.state = s])
      \/ \E l : Break([parser EXCEPT !.content_length = l])
  BY DEF ChunkSizeStart, ChunkSize, ChunkParameters
<1>4. Same(parser)
  BY DEF Same
<1>5. ASSUME NEW l, NEW s, Break([parser EXCEPT !.content_length = l, !.state = s]) PROVE LimitInv'
  <2> DEFINE q == [parser EXCEPT !.content_length = l, !.state = s]
  <2>1. Same(q)
    BY <1>1 DEF Same, Parser
  <2>2. Break(q)
    BY <1>5
  <2> HIDE DEF q
  <2> QED BY <1>1, <1>2, <2>1, <2>2, LaterSame
<1>6. ASSUME NEW l, Break([parser EXCEPT !.content_length = l]) PROVE LimitInv'
  <2> DEFINE q == [parser EXCEPT !.content_length = l]
  <2>1. Same(q)
    BY <1>1 DEF Same, Parser
  <2>2. Break(q)
    BY <1>6
  <2> HIDE DEF q
  <2> QED BY <1>1, <1>2, <2>1, <2>2, LaterSame
<1>7. (\E e \in {"STRICT", "INVALID_CHUNK_SIZE", "INVALID_CONTENT_LENGTH"} : Error(parser, e)) => LimitInv'
  BY <1>1, FailsBy, FailsLimit
<1>8. (\E s : Break(To(s))) => LimitInv'
  BY <1>1, <1>2, LaterTo
<1>9. Break(parser) => LimitInv'
  BY <1>1, <1>2, <1>4, LaterSame
<1> QED BY <1>3, <1>5, <1>6, <1>7, <1>8, <1>9

LEMMA ChunkEndLimit ==
  ASSUME ParserInv, LimitInv, ChunkSizeAlmostDone \/ ChunkDataAlmostDone \/ ChunkDataDone PROVE LimitInv'
<1>1. pc = "switch" /\ parser.state \in Bodies /\ parser \in Parser
  BY InSwitch, BodyStates DEF ChunkSizeAlmostDone, ChunkDataAlmostDone, ChunkDataDone, At
<1>2. Within
  BY <1>1, Later
<1>3. \/ Error(parser, "STRICT")
      \/ \E s : Break(To(s))
      \/ \E s : Break([[parser EXCEPT !.nread = 0] EXCEPT !.state = s])
      \/ \E s : Break([parser EXCEPT !.nread = 0, !.state = s])
      \/ \E f, s : Break([[parser EXCEPT !.nread = 0] EXCEPT !.flags = f, !.state = s])
  <2>1. ChunkSizeAlmostDone =>
          \/ Error(parser, "STRICT")
          \/ \E s : Break([[parser EXCEPT !.nread = 0] EXCEPT !.state = s])
          \/ \E f, s : Break([[parser EXCEPT !.nread = 0] EXCEPT !.flags = f, !.state = s])
    <3> DEFINE q == [parser EXCEPT !.nread = 0]
    <3> SUFFICES ASSUME ChunkSizeAlmostDone
                 PROVE  \/ Error(parser, "STRICT")
                        \/ \E s : Break([q EXCEPT !.state = s])
                        \/ \E f, s : Break([q EXCEPT !.flags = f, !.state = s])
      OBVIOUS
    <3>1. \/ Error(parser, "STRICT")
          \/ Break([q EXCEPT !.flags = @ \cup {"F_TRAILING"}, !.state = "s_header_field_start"])
          \/ Break([q EXCEPT !.state = "s_chunk_data"])
      BY DEF ChunkSizeAlmostDone
    <3> HIDE DEF q
    <3> QED BY <3>1
  <2>2. ChunkDataAlmostDone => Error(parser, "STRICT") \/ Break(To("s_chunk_data_done"))
    BY DEF ChunkDataAlmostDone
  <2>3. ChunkDataDone => Error(parser, "STRICT") \/ Break([parser EXCEPT !.nread = 0, !.state = "s_chunk_size_start"])
    BY DEF ChunkDataDone
  <2> QED BY <2>1, <2>2, <2>3
<1>4. ASSUME NEW s, Break([[parser EXCEPT !.nread = 0] EXCEPT !.state = s]) PROVE LimitInv'
  <2> DEFINE q == [[parser EXCEPT !.nread = 0] EXCEPT !.state = s]
  <2>1. Same(q)
    BY <1>1 DEF Same, Parser
  <2>2. Break(q)
    BY <1>4
  <2> HIDE DEF q
  <2> QED BY <1>1, <1>2, <2>1, <2>2, LaterSame
<1>5. ASSUME NEW s, Break([parser EXCEPT !.nread = 0, !.state = s]) PROVE LimitInv'
  <2> DEFINE q == [parser EXCEPT !.nread = 0, !.state = s]
  <2>1. Same(q)
    BY <1>1 DEF Same, Parser
  <2>2. Break(q)
    BY <1>5
  <2> HIDE DEF q
  <2> QED BY <1>1, <1>2, <2>1, <2>2, LaterSame
<1>6. ASSUME NEW f, NEW s, Break([[parser EXCEPT !.nread = 0] EXCEPT !.flags = f, !.state = s]) PROVE LimitInv'
  <2> DEFINE q == [[parser EXCEPT !.nread = 0] EXCEPT !.flags = f, !.state = s]
  <2>1. Same(q)
    BY <1>1 DEF Same, Parser
  <2>2. Break(q)
    BY <1>6
  <2> HIDE DEF q
  <2> QED BY <1>1, <1>2, <2>1, <2>2, LaterSame
<1>7. Error(parser, "STRICT") => LimitInv'
  BY <1>1, FailsBy, FailsLimit
<1>8. (\E s : Break(To(s))) => LimitInv'
  BY <1>1, <1>2, LaterTo
<1> QED BY <1>3, <1>4, <1>5, <1>6, <1>7, <1>8

LEMMA BodyLimitKept == ASSUME ParserInv, LimitInv, Body PROVE LimitInv'
  BY HeadersAlmostDoneLimit, HeadersDoneLimit, BodyIdentityLimit, BodyIdentityEofLimit, MessageDoneLimit,
     ChunkSizeLimit, ChunkEndLimit, ChunkDataLimit DEF Body

-----------------------------------------------------------------------------
LEMMA InitLimit == ASSUME Init PROVE LimitInv
<1>1. /\ pc = "next" /\ p = 0 /\ parser.nread = 0 /\ parser.state = "s_start_req_or_res" /\ parser.flags = {}
      /\ data \in Payloads
  BY DEF Init, NewParser
<1>2. len \in Nat
  BY <1>1, PayloadAssumption DEF len
<1>3. Few
  BY <1>1, <1>2, HeaderAssumption DEF Few
<1>4. "s_start_req_or_res" \in FirstState /\ Lines("s_start_req_or_res", 0)
  BY FirstKinds DEF NotBegun, BehindLF, AtEnd, Lines
<1>5. First
  BY <1>1, <1>4 DEF First
<1> QED BY <1>1, <1>3, <1>5 DEF LimitInv, HeaderLimit

LEMMA StutterLimit == ASSUME LimitInv, UNCHANGED vars PROVE LimitInv'
<1>1. UNCHANGED data /\ UNCHANGED p /\ UNCHANGED pc /\ UNCHANGED parser /\ UNCHANGED start
  BY DEF vars, localVars
<1>2. HeaderLimit => HeaderLimit'
  BY <1>1 DEF HeaderLimit, HeaderEnds, len
<1>3. Within => Within'
  BY <1>1, WithinStays
<1>4. Few => Few'
  BY <1>1 DEF Few, len
<1>5. First => First'
  BY <1>1 DEF First, Lines
<1> QED BY <1>1, <1>2, <1>3, <1>4, <1>5 DEF LimitInv

LEMMA StepLimit == ASSUME ParserInv, LimitInv, [Next]_vars PROVE LimitInv'
<1>1. CASE UNCHANGED vars \/ Done
  BY <1>1, StutterLimit DEF Done
<1>2. CASE Step
  BY <1>2, NextByteLimit, EndOfDataLimit, StartLineLimit, HeaderLimitKept, BodyLimitKept DEF Step
<1> QED BY <1>1, <1>2 DEF Next

\* However its bytes are spread over names, values and lines, a header that
\* does not end within HTTP_MAX_HEADER_SIZE bytes is refused, for every payload
\* and every limit: the loops over names and values, which count in bulk when
\* they are left, lose no byte. And a payload below that size is never refused
\* for it: they count no byte twice, except at the end of the data.
THEOREM ParserHeaderLimit == Spec => []HeaderLimit
<1>1. LimitInv => HeaderLimit
  BY DEF LimitInv
<1> QED BY <1>1, InitLimit, StepLimit, InvHolds, PTL DEF Spec

\* A set of numbers that is not empty has a least one: of its members up to
\* any of them, which are finitely many.
LEMMA LeastNumber == ASSUME NEW T \in SUBSET Nat, T # {} PROVE \E x \in T : \A y \in T : x <= y
<1>1. PICK n \in T : TRUE
  OBVIOUS
<1> DEFINE Below(x) == {y \in T : y <= x}
           F == {Below(x) : x \in Below(n)}
<1>2. F \subseteq FiniteSubsetsOf(Nat)
  <2>1. ASSUME NEW x \in Below(n) PROVE IsFiniteSet(Below(x))
    <3>1. n \in Nat /\ x \in Nat /\ x <= n
      OBVIOUS
    <3>2. Below(x) \in SUBSET (0..n)
      <4>1. \A y \in Below(x) : y \in 0..n
        BY <3>1
      <4> QED BY <4>1
    <3>3. IsFiniteSet(0..n)
      BY <3>1, FS_Interval
    <3> HIDE DEF Below
    <3> QED BY <3>2, <3>3, FS_Subset
  <2> QED BY <2>1 DEF FiniteSubsetsOf
<1>3. F # {}
  <2>1. n \in Below(n)
    OBVIOUS
  <2> QED BY <2>1
<1> HIDE DEF F
<1>4. IsWellFoundedOn(StrictSubsetOrdering(Nat), FiniteSubsetsOf(Nat))
  BY FS_StrictSubsetOrderingWellFounded
<1>5. PICK S \in F : \A R \in F : ~(<<R, S>> \in StrictSubsetOrdering(Nat))
  BY <1>2, <1>3, <1>4, WFMin
<1>6. PICK x \in Below(n) : S = Below(x)
  BY DEF F
<1>7. ASSUME NEW y \in T, ~(x <= y) PROVE FALSE
  <2>1. y \in Below(n) /\ Below(y) \in F
    BY <1>7 DEF F
  <2>2. Below(y) \subseteq S /\ Below(y) # S
    <3>1. x \in Nat /\ y \in Nat /\ y < x /\ x \in T /\ x \notin Below(y) /\ x \in Below(x)
      BY <1>6, <1>7
    <3>2. \A z \in T : z <= y => z <= x
      BY <3>1
    <3> QED BY <1>6, <3>1, <3>2
  <2>3. <<Below(y), S>> \in StrictSubsetOrdering(Nat)
    BY <1>2, <2>1, <2>2 DEF StrictSubsetOrdering, FiniteSubsetsOf
  <2> QED BY <1>5, <2>1, <2>3
<1> QED BY <1>6, <1>7
-----------------------------------------------------------------------------
\* The numbers up to each place, by the recursion that defines them.
Numbers(text, base, k, e, v) ==
  v = [n \in k..e |-> IF n = k THEN 0
                      ELSE IF text[n] = SP THEN v[n - 1]
                      ELSE base * v[n - 1] + unhex(text[n])]

LEMMA NumbersUnique ==
  ASSUME NEW text, NEW base, NEW k \in Nat, NEW e \in Nat, NEW d \in Nat, NEW v, NEW w,
         Numbers(text, base, k, e, v), Numbers(text, base, k, d, w), NEW m \in k..e, m <= d
  PROVE  v[m] = w[m]
<1> SUFFICES ASSUME v[m] # w[m] PROVE FALSE
  OBVIOUS
<1> DEFINE T == {i \in k..e : i <= d /\ v[i] # w[i]}
<1>1. T \in SUBSET Nat /\ m \in T
  OBVIOUS
<1>2. PICK i \in T : \A j \in T : i <= j
  BY <1>1, LeastNumber
<1>3. i \in k..e /\ i \in k..d /\ v[i] # w[i]
  BY <1>2
<1>4. /\ v[i] = IF i = k THEN 0 ELSE IF text[i] = SP THEN v[i - 1] ELSE base * v[i - 1] + unhex(text[i])
      /\ w[i] = IF i = k THEN 0 ELSE IF text[i] = SP THEN w[i - 1] ELSE base * w[i - 1] + unhex(text[i])
  BY <1>3 DEF Numbers
<1>5. i # k
  BY <1>3, <1>4
<1>6. i - 1 \in k..e /\ i - 1 <= d /\ i - 1 \notin T
  BY <1>2, <1>3, <1>5
<1>7. v[i - 1] = w[i - 1]
  BY <1>6
<1> QED BY <1>3, <1>4, <1>7

LEMMA NumbersExist ==
  ASSUME NEW text, NEW base, NEW k \in Nat, NEW e \in Nat, k <= e PROVE \E v : Numbers(text, base, k, e, v)
<1> SUFFICES ASSUME ~\E v : Numbers(text, base, k, e, v) PROVE FALSE
  OBVIOUS
<1> DEFINE T == {m \in Nat : k <= m /\ ~\E v : Numbers(text, base, k, m, v)}
<1>1. T \in SUBSET Nat /\ e \in T
  OBVIOUS
<1>2. PICK m \in T : \A j \in T : m <= j
  BY <1>1, LeastNumber
<1>3. m \in Nat /\ k <= m /\ ~\E v : Numbers(text, base, k, m, v)
  BY <1>2
<1>4. CASE m = k
  <2> DEFINE v == [i \in k..k |-> 0]
  <2>1. v = [i \in k..k |-> IF i = k THEN 0 ELSE IF text[i] = SP THEN v[i - 1] ELSE base * v[i - 1] + unhex(text[i])]
    OBVIOUS
  <2>2. Numbers(text, base, k, m, v)
    BY <1>4, <2>1 DEF Numbers
  <2> QED BY <1>3, <2>2
<1>5. CASE m # k
  <2>1. m - 1 \in Nat /\ k <= m - 1 /\ m - 1 \notin T
    BY <1>2, <1>3, <1>5
  <2>2. PICK w : Numbers(text, base, k, m - 1, w)
    BY <2>1
  <2> DEFINE v == [i \in k..m |-> IF i = m THEN IF text[m] = SP THEN w[m - 1] ELSE base * w[m - 1] + unhex(text[m])
                                           ELSE w[i]]
  <2>3. ASSUME NEW i \in k..m
        PROVE  v[i] = IF i = k THEN 0 ELSE IF text[i] = SP THEN v[i - 1] ELSE base * v[i - 1] + unhex(text[i])
    <3>1. CASE i = m
      <4>1. i # k /\ i - 1 \in k..m /\ i - 1 # m
        BY <1>3, <1>5, <3>1
      <4> QED BY <3>1, <4>1
    <3>2. CASE i # m
      <4>1. i \in k..(m - 1)
        BY <1>3, <3>2
      <4>2. w[i] = IF i = k THEN 0 ELSE IF text[i] = SP THEN w[i - 1] ELSE base * w[i - 1] + unhex(text[i])
        BY <2>2, <4>1 DEF Numbers
      <4>3. i # k => i - 1 \in k..m /\ i - 1 # m
        BY <1>3, <4>1
      <4> QED BY <3>2, <4>1, <4>2, <4>3
    <3> QED BY <3>1, <3>2
  <2>4. v = [i \in k..m |-> v[i]]
    OBVIOUS
  <2> HIDE DEF v
  <2>5. Numbers(text, base, k, m, v)
    BY <2>3, <2>4 DEF Numbers
  <2> QED BY <1>3, <2>5
<1> QED BY <1>4, <1>5

LEMMA NumeralIs ==
  ASSUME NEW text, NEW base, NEW k \in Nat, NEW e \in Nat, k <= e
  PROVE  \E v : Numbers(text, base, k, e, v) /\ Numeral(text, base, k, e) = v[e]
<1> DEFINE v == CHOOSE w : w = [n \in k..e |-> IF n = k THEN 0
                                               ELSE IF text[n] = SP THEN w[n - 1]
                                               ELSE base * w[n - 1] + unhex(text[n])]
<1>1. Numeral(text, base, k, e) = v[e]
  BY DEF Numeral
<1>2. v = CHOOSE w : Numbers(text, base, k, e, w)
  BY DEF Numbers
<1> HIDE DEF v
<1>3. Numbers(text, base, k, e, v)
  BY <1>2, NumbersExist
<1> QED BY <1>1, <1>3

\* An empty numeral, and one more symbol.
LEMMA NumeralGrows ==
  ASSUME NEW text, NEW base, NEW k \in Nat, NEW e \in Nat, k <= e
  PROVE  /\ Numeral(text, base, k, k) = 0
         /\ Numeral(text, base, k, e + 1) = IF text[e + 1] = SP THEN Numeral(text, base, k, e)
                                            ELSE base * Numeral(text, base, k, e) + unhex(text[e + 1])
<1>1. PICK z : Numbers(text, base, k, k, z) /\ Numeral(text, base, k, k) = z[k]
  BY NumeralIs
<1>2. k \in k..k /\ z[k] = 0
  BY <1>1 DEF Numbers
<1>3. PICK v : Numbers(text, base, k, e, v) /\ Numeral(text, base, k, e) = v[e]
  BY NumeralIs
<1>4. e + 1 \in Nat /\ k <= e + 1
  OBVIOUS
<1>5. PICK w : Numbers(text, base, k, e + 1, w) /\ Numeral(text, base, k, e + 1) = w[e + 1]
  BY <1>4, NumeralIs
<1>6. e \in k..e /\ e <= e + 1
  OBVIOUS
<1>7. v[e] = w[e]
  BY <1>3, <1>4, <1>5, <1>6, NumbersUnique
<1>8. e + 1 \in k..(e + 1) /\ e + 1 # k /\ (e + 1) - 1 = e
  OBVIOUS
<1>9. w[e + 1] = IF text[e + 1] = SP THEN w[e] ELSE base * w[e] + unhex(text[e + 1])
  BY <1>5, <1>8 DEF Numbers
<1> QED BY <1>1, <1>2, <1>3, <1>5, <1>7, <1>9
-----------------------------------------------------------------------------
\* What is known of the lengths in a state.  A payload is text, the calls made
\* for it are shown, m are the marks, q is the parser, h its header state (in the
\* loop over a value, the local), n the position.
BeforeValue == {"s_header_value_discard_ws", "s_header_value_discard_ws_almost_done", "s_header_value_discard_lws"}

\* The length of the message so far.
Says(text, shown, l, i) == LastLength(text, shown, i, Len(shown)) /\ l = LengthShown(text, shown, i)
Known(text, shown, l) == l = ULLONG_MAX \/ \E i \in 1..Len(shown) : Says(text, shown, l, i)

KnownState == HeaderPartState \ ({"s_dead", "s_start_req_or_res", "s_start_res", "s_start_req"} \cup ChunkState)

KnowsLength(text, shown, q, h) ==
  /\ q.state \in KnownState /\ "F_TRAILING" \notin q.flags
  /\ ~(q.state = "s_header_value" /\ h = "h_content_length")
  => Known(text, shown, q.content_length)

\* What comes behind a chunked body is not the header of a message.
NotTrailing(q) == q.state = "s_headers_done" => "F_TRAILING" \notin q.flags

\* The name of a header is one symbol when the loop over it begins.
NameIsOne(text, m, q, n) ==
  q.state = "s_header_field" =>
    n = Len(text) \/ (n >= 1 /\ m["header_field"] = n - 1 /\ q.header_state = NameState(text[n]))

\* The header state tells whether the name was Content-Length; a value that
\* goes on in the next line starts with white space.
NameIsTold(text, shown, q, h, n, c) ==
  /\ q.state \in BeforeValue \cup {"s_header_value"} =>
       (LengthName(text, shown, Len(shown)) <=> h = "h_content_length")
  /\ q.state \in BeforeValue /\ h = "h_content_length" => OnlyWhite(text, shown, n)
  /\ q.state \in Ended \cup {"s_header_value_start"} /\ h = "h_content_length" =>
       LengthField(text, shown, Len(shown) - 1)
  /\ q.state = "s_header_value_start" =>
       c = "switch" /\ text[n + 1] \in {SP, TAB} /\ shown[Len(shown)].on = "header_value"

\* The digits of a Content-Length so far.
ReadsLength(text, shown, m, q, h, n) ==
  q.state = "s_header_value" /\ h = "h_content_length" =>
    LET v == m["header_value"] IN
    /\ v # NoMark /\ v < n /\ OnlyWhite(text, shown, v)
    /\ \A i \in (v + 1)..n : IS_NUM(text[i]) \/ text[i] = SP
    /\ q.content_length = Numeral(text, 10, v, n)

\* A body that has begun reaches to the end of the payload.
ReadsBody(text, shown, m, q, n, c) ==
  q.state = "s_body_identity" =>
    IF m["body"] = NoMark THEN \E i \in 1..Len(shown) : Says(text, shown, q.content_length, i)
    ELSE /\ n = Len(text) /\ c = "next"
         /\ \E i \in 1..Len(shown) : /\ LastLength(text, shown, i, Len(shown))
                                     /\ LengthShown(text, shown, i) \in Nat
                                     /\ LengthShown(text, shown, i) > Len(text) - m["body"]

\* The size of the chunk, through the line that it is read from and the chunk.
SizeRead(text, k, e, n, l) == SizeDigits(text, k, e) /\ e < n /\ ~IS_HEX(text[e + 1]) /\ l = Numeral(text, 16, k, e)

ReadsSize(text, q, n) ==
  /\ q.state = "s_chunk_size_start" => n >= 1 /\ text[n] = LF
  /\ q.state = "s_chunk_size" =>
       \E k \in 1..n : SizeDigits(text, k, n) /\ q.content_length = Numeral(text, 16, k, n)
  /\ q.state = "s_chunk_parameters" =>
       \E k, e \in 1..n : /\ SizeRead(text, k, e, n, q.content_length)
                          /\ \A i \in (e + 1)..n : text[i] # CR
  /\ q.state = "s_chunk_size_almost_done" =>
       \E k, e \in 1..n : /\ SizeRead(text, k, e, n, q.content_length)
                          /\ text[n] = CR /\ \A i \in (e + 1)..(n - 1) : text[i] # CR

ReadsChunk(text, m, q, n, c) ==
  /\ q.state = "s_chunk_data" =>
       IF m["body"] = NoMark
       THEN \E k, e \in 1..n : SizeLine(text, k, e, n) /\ q.content_length = Numeral(text, 16, k, e)
       ELSE /\ n = Len(text) /\ c = "next"
            /\ \E k, e \in 1..m["body"] : /\ SizeLine(text, k, e, m["body"])
                                          /\ Numeral(text, 16, k, e) \in Nat
                                          /\ Numeral(text, 16, k, e) > Len(text) - m["body"]
  /\ q.state = "s_chunk_data_almost_done" =>
       /\ m["body"] # NoMark
       /\ \E k, e \in 1..m["body"] : SizeLine(text, k, e, m["body"]) /\ Numeral(text, 16, k, e) = n - m["body"]

BodiesExact(text, shown) ==
  \A n \in 1..Len(shown) : shown[n].on = "body" => ChunkIsExact(text, shown[n]) \/ BodyIsExact(text, shown, n)

Reads(text, shown, m, q, h, n, c) ==
  /\ KnowsLength(text, shown, q, h) /\ NotTrailing(q) /\ NameIsOne(text, m, q, n) /\ NameIsTold(text, shown, q, h, n, c)
  /\ ReadsLength(text, shown, m, q, h, n) /\ ReadsBody(text, shown, m, q, n, c)
  /\ ReadsSize(text, q, n) /\ ReadsChunk(text, m, q, n, c)

Local == IF pc = "value" THEN h_state ELSE parser.header_state

\* The invariant of the lengths, inductive with ParserInv.
LengthInv ==
  /\ pc # "done" => Reads(data, calls, mark, parser, Local, p, pc) /\ BodiesExact(data, calls)
  /\ LengthIsExact
-----------------------------------------------------------------------------
\* One more call.
LEMMA OneMore ==
  ASSUME NEW S, NEW text, NEW cs \in Seq(S), NEW c, NEW ds, ds = Append(cs, c)
  PROVE  /\ Len(cs) \in Nat /\ Len(ds) = Len(cs) + 1 /\ ds[Len(cs) + 1] = c
         /\ \A i \in 1..Len(cs) : ds[i] = cs[i] /\ (LengthName(text, ds, i) <=> LengthName(text, cs, i))
         /\ \A i \in 1..(Len(cs) - 1) : /\ LengthField(text, ds, i) <=> LengthField(text, cs, i)
                                        /\ LengthShown(text, ds, i) = LengthShown(text, cs, i)
         /\ LengthField(text, ds, Len(cs)) <=>
              LengthName(text, ds, Len(cs)) /\ c.on = "header_value" /\ c.length > 0
<1>1. Len(cs) \in Nat /\ Len(ds) = Len(cs) + 1 /\ ds[Len(cs) + 1] = c /\ \A i \in 1..Len(cs) : ds[i] = cs[i]
  OBVIOUS
<1>2. \A i \in 1..Len(cs) : LengthName(text, ds, i) <=> LengthName(text, cs, i)
  BY <1>1 DEF LengthName
<1>3. ASSUME NEW i \in 1..(Len(cs) - 1)
      PROVE  /\ LengthField(text, ds, i) <=> LengthField(text, cs, i)
             /\ LengthShown(text, ds, i) = LengthShown(text, cs, i)
  <2>1. i \in 1..Len(cs) /\ i + 1 \in 1..Len(cs)
    BY <1>1
  <2>2. ds[i + 1] = cs[i + 1] /\ (LengthName(text, ds, i) <=> LengthName(text, cs, i))
    BY <1>1, <1>2, <2>1
  <2> QED BY <2>2 DEF LengthField, LengthShown
<1>4. LengthField(text, ds, Len(cs)) <=> LengthName(text, ds, Len(cs)) /\ c.on = "header_value" /\ c.length > 0
  BY <1>1 DEF LengthField
<1> QED BY <1>1, <1>2, <1>3, <1>4

\* It is not the value of a length: the last length is the same.
LEMMA LastStays ==
  ASSUME NEW S, NEW text, NEW cs \in Seq(S), NEW c, NEW ds, ds = Append(cs, c), ~LengthField(text, ds, Len(cs)),
         NEW i \in 1..Len(cs), LastLength(text, cs, i, Len(cs))
  PROVE  LastLength(text, ds, i, Len(ds)) /\ LengthShown(text, ds, i) = LengthShown(text, cs, i) /\ i \in 1..Len(ds)
<1>1. i \in 1..(Len(cs) - 1) /\ LengthField(text, cs, i) /\ \A j \in (i + 1)..(Len(cs) - 1) : ~LengthField(text, cs, j)
  BY DEF LastLength
<1>2. Len(cs) \in Nat /\ Len(ds) = Len(cs) + 1
  BY OneMore
<1>3. LengthField(text, ds, i) /\ LengthShown(text, ds, i) = LengthShown(text, cs, i)
  BY <1>1, OneMore
<1>4. ASSUME NEW j \in (i + 1)..(Len(ds) - 1) PROVE ~LengthField(text, ds, j)
  <2>1. CASE j = Len(cs)
    BY <2>1
  <2>2. CASE j # Len(cs)
    <3>1. j \in (i + 1)..(Len(cs) - 1) /\ j \in 1..(Len(cs) - 1)
      BY <1>1, <1>2, <2>2
    <3> QED BY <1>1, <3>1, OneMore
  <2> QED BY <2>1, <2>2
<1>5. i \in 1..(Len(ds) - 1) /\ i \in 1..Len(ds)
  BY <1>1, <1>2
<1> QED BY <1>3, <1>4, <1>5 DEF LastLength

\* It is the value of a length.
LEMMA LastIsNew ==
  ASSUME NEW S, NEW text, NEW cs \in Seq(S), NEW c, NEW ds, ds = Append(cs, c), cs # <<>>,
         LengthName(text, cs, Len(cs)), c.on = "header_value", c.length > 0
  PROVE  /\ LastLength(text, ds, Len(cs), Len(ds)) /\ Len(cs) \in 1..Len(ds)
         /\ LengthField(text, ds, Len(cs))
         /\ LengthShown(text, ds, Len(cs)) = Numeral(text, 10, c.at, c.at + c.length)
<1>1. Len(cs) \in Nat /\ Len(ds) = Len(cs) + 1 /\ ds[Len(cs) + 1] = c
  BY OneMore
<1>2. Len(cs) \in 1..Len(cs) /\ Len(cs) \in 1..(Len(ds) - 1) /\ Len(cs) \in 1..Len(ds)
  BY <1>1
<1>3. LengthField(text, ds, Len(cs))
  BY <1>2, OneMore
<1>4. \A j \in (Len(cs) + 1)..(Len(ds) - 1) : FALSE
  BY <1>1
<1>5. LastLength(text, ds, Len(cs), Len(ds))
  BY <1>2, <1>3, <1>4 DEF LastLength
<1> QED BY <1>1, <1>2, <1>3, <1>5 DEF LengthShown

LEMMA KnownStays ==
  ASSUME NEW S, NEW text, NEW cs \in Seq(S), NEW c, NEW ds, ds = Append(cs, c), ~LengthField(text, ds, Len(cs)),
         NEW l, Known(text, cs, l)
  PROVE  Known(text, ds, l)
<1>1. CASE l = ULLONG_MAX
  BY <1>1 DEF Known
<1>2. ASSUME NEW i \in 1..Len(cs), Says(text, cs, l, i) PROVE Known(text, ds, l)
  <2>1. LastLength(text, cs, i, Len(cs)) /\ l = LengthShown(text, cs, i)
    BY <1>2 DEF Says
  <2> HIDE <1>2
  <2>2. LastLength(text, ds, i, Len(ds)) /\ LengthShown(text, ds, i) = LengthShown(text, cs, i) /\ i \in 1..Len(ds)
    BY <2>1, LastStays
  <2> QED BY <2>1, <2>2 DEF Known, Says
<1> QED BY <1>1, <1>2 DEF Known

\* The bodies that were handed over before one more call are as they were.
LEMMA EarlierBodies ==
  ASSUME NEW S, NEW text, NEW cs \in Seq(S), NEW c, NEW ds, ds = Append(cs, c), BodiesExact(text, cs),
         NEW n \in 1..Len(ds), n # Len(ds), ds[n].on = "body"
  PROVE  ChunkIsExact(text, ds[n]) \/ BodyIsExact(text, ds, n)
<1>1. Len(cs) \in Nat /\ Len(ds) = Len(cs) + 1
  BY OneMore
<1>2. n \in 1..Len(cs)
  BY <1>1
<1>3. ds[n] = cs[n]
  BY <1>2, OneMore
<1>4. ChunkIsExact(text, cs[n]) \/ BodyIsExact(text, cs, n)
  BY <1>2, <1>3 DEF BodiesExact
<1>5. ASSUME NEW j \in 1..(Len(cs) - 1)
      PROVE  /\ LengthField(text, ds, j) <=> LengthField(text, cs, j)
             /\ LengthShown(text, ds, j) = LengthShown(text, cs, j)
  <2>1. ds = Append(cs, c) /\ cs \in Seq(S)
    OBVIOUS
  <2> QED BY ONLY <2>1, <1>5, OneMore
<1>6. ASSUME BodyIsExact(text, cs, n) PROVE BodyIsExact(text, ds, n)
  <2>1. PICK i \in 1..(n - 1) : LastLength(text, cs, i, n) /\ Fills(text, cs[n], LengthShown(text, cs, i))
    BY <1>6 DEF BodyIsExact
  <2>2. \A j \in 1..(n - 1) : j \in 1..(Len(cs) - 1)
    BY <1>1, <1>2
  <2>3. LengthField(text, ds, i) /\ LengthShown(text, ds, i) = LengthShown(text, cs, i)
    BY <1>5, <2>1, <2>2 DEF LastLength
  <2>4. \A j \in (i + 1)..(n - 1) : j \in 1..(n - 1)
    BY <2>1
  <2>5. \A j \in (i + 1)..(n - 1) : ~LengthField(text, ds, j)
    BY <1>5, <2>1, <2>2, <2>4 DEF LastLength
  <2>6. LastLength(text, ds, i, n)
    BY <2>1, <2>3, <2>5 DEF LastLength
  <2> QED BY <1>3, <2>1, <2>3, <2>6 DEF BodyIsExact
<1> QED BY <1>3, <1>4, <1>6

LEMMA BodiesStay ==
  ASSUME NEW S, NEW text, NEW cs \in Seq(S), NEW c, NEW ds, ds = Append(cs, c), BodiesExact(text, cs),
         c.on = "body" => ChunkIsExact(text, c) \/ BodyIsExact(text, ds, Len(ds))
  PROVE  BodiesExact(text, ds)
<1>1. Len(cs) \in Nat /\ Len(ds) = Len(cs) + 1 /\ ds[Len(ds)] = c
  BY OneMore
<1>2. ASSUME NEW n \in 1..Len(ds), ds[n].on = "body" PROVE ChunkIsExact(text, ds[n]) \/ BodyIsExact(text, ds, n)
  <2>1. CASE n = Len(ds)
    BY <1>1, <1>2, <2>1
  <2>2. CASE n # Len(ds)
    BY <1>2, <2>2, EarlierBodies
  <2> QED BY <2>1, <2>2
<1> QED BY <1>2 DEF BodiesExact

-----------------------------------------------------------------------------
\* The states with a condition on what was read.
Busy == {"s_header_field", "s_header_value", "s_header_value_start", "s_headers_done", "s_body_identity"}
          \cup BeforeValue \cup Ended \cup (ChunkState \ {"s_chunk_data_done"})

LEMMA QuietReads ==
  ASSUME NEW text, NEW shown, NEW m, NEW q, NEW h, NEW n, NEW c, q.state \notin Busy,
         q.state \in KnownState /\ "F_TRAILING" \notin q.flags => Known(text, shown, q.content_length)
  PROVE  Reads(text, shown, m, q, h, n, c)
<1>1. KnowsLength(text, shown, q, h)
  BY DEF KnowsLength
<1>4. NotTrailing(q)
  BY DEF Busy, NotTrailing
<1>2. NameIsOne(text, m, q, n) /\ NameIsTold(text, shown, q, h, n, c) /\ ReadsLength(text, shown, m, q, h, n)
  BY DEF Busy, NameIsOne, NameIsTold, ReadsLength
<1>3. ReadsBody(text, shown, m, q, n, c) /\ ReadsSize(text, q, n) /\ ReadsChunk(text, m, q, n, c)
  BY DEF Busy, ReadsBody, ReadsSize, ReadsChunk, ChunkState
<1> QED BY <1>1, <1>2, <1>3, <1>4 DEF Reads

\* The call goes on, without and with one more call; or it returns.
LEMMA RunsOn ==
  ASSUME LengthInv, pc # "done", data' = data, calls' = calls, parser'.http_errno = "OK",
         Reads(data, calls, mark', parser', Local', p', pc')
  PROVE  LengthInv'
<1>1. BodiesExact(data, calls)
  BY DEF LengthInv
<1>2. LengthIsExact'
  BY <1>1 DEF LengthIsExact, BodiesExact
<1> QED BY <1>1, <1>2 DEF LengthInv

LEMMA RunsOnWith ==
  ASSUME ParserInv, LengthInv, pc # "done", data' = data, NEW c, calls' = Append(calls, c), parser'.http_errno = "OK",
         c.on = "body" => ChunkIsExact(data, c) \/ BodyIsExact(data, calls', Len(calls')),
         Reads(data, calls', mark', parser', Local', p', pc')
  PROVE  LengthInv'
<1>1. BodiesExact(data, calls) /\ calls \in Seq(Call)
  BY DEF LengthInv, ParserInv, Types
<1>2. BodiesExact(data, calls')
  BY <1>1, BodiesStay
<1>3. LengthIsExact'
  BY <1>2 DEF LengthIsExact, BodiesExact
<1> QED BY <1>2, <1>3 DEF LengthInv

LEMMA ReturnsLength ==
  ASSUME LengthInv, pc # "done", data' = data, calls' = calls, pc' = "done",
         parser'.http_errno = "INVALID_CONTENT_LENGTH" =>
           p' < len /\ (SizeTooLarge(data, p') \/ LengthRefused(data, calls, p'))
  PROVE  LengthInv'
<1>1. BodiesExact(data, calls) /\ len' = len
  BY DEF LengthInv, len
<1>2. LengthIsExact'
  BY <1>1 DEF LengthIsExact, BodiesExact
<1> QED BY <1>2 DEF LengthInv
-----------------------------------------------------------------------------
\* A pass that reads nothing of a length: it keeps what is known of the length
\* or begins a message, and hands over at most one piece that is no value.
KeepsLength(q) ==
  q.state \in KnownState /\ "F_TRAILING" \notin q.flags =>
    \/ q.content_length = ULLONG_MAX
    \/ /\ parser.state \in KnownState \ {"s_header_value"} /\ "F_TRAILING" \notin parser.flags
       /\ q.content_length = parser.content_length

Plain(q) == q.http_errno = "OK" /\ q.state \notin Busy /\ KeepsLength(q)

Output == calls' = calls \/ \E c : calls' = Append(calls, c) /\ c.on \notin {"body", "header_value"}

GoesOn == Output /\ \E q : Plain(q) /\ (Break(q) \/ Reexecute(q))

\* A pass that ends the call, not for its length.
Leaves == data' = data /\ calls' = calls /\ pc' = "done" /\ parser'.http_errno # "INVALID_CONTENT_LENGTH"

LEMMA NoField ==
  ASSUME NEW S, NEW text, NEW cs \in Seq(S), NEW c, NEW ds, ds = Append(cs, c), c.on # "header_value"
  PROVE  ~LengthField(text, ds, Len(cs))
<1>1. ds[Len(cs) + 1] = c
  BY OneMore
<1> QED BY <1>1 DEF LengthField

LEMMA GoesOnLength == ASSUME ParserInv, LengthInv, pc = "switch", GoesOn PROVE LengthInv'
<1>1. PICK q : Plain(q) /\ (Break(q) \/ Reexecute(q))
  BY DEF GoesOn
<1>2. data' = data /\ parser' = q /\ parser'.http_errno = "OK"
  BY <1>1 DEF Break, Reexecute, Plain
<1>3. calls \in Seq(Call) /\ KnowsLength(data, calls, parser, Local)
  BY DEF ParserInv, Types, LengthInv, Reads
<1>4. ASSUME NEW cs, \A l : Known(data, calls, l) => Known(data, cs, l)
      PROVE  Reads(data, cs, mark', parser', Local', p', pc')
  <2>1. ASSUME parser'.state \in KnownState, "F_TRAILING" \notin parser'.flags
        PROVE  Known(data, calls, parser'.content_length)
    <3>1. CASE parser'.content_length = ULLONG_MAX
      BY <3>1 DEF Known
    <3>2. CASE /\ parser.state \in KnownState \ {"s_header_value"} /\ "F_TRAILING" \notin parser.flags
               /\ parser'.content_length = parser.content_length
      BY <1>3, <3>2 DEF KnowsLength
    <3> QED BY <1>1, <1>2, <2>1, <3>1, <3>2 DEF Plain, KeepsLength
  <2>2. parser'.state \notin Busy
    BY <1>1, <1>2 DEF Plain
  <2> QED BY <1>4, <2>1, <2>2, QuietReads
<1>5. CASE calls' = calls
  BY <1>2, <1>4, <1>5, RunsOn
<1>6. ASSUME NEW c, calls' = Append(calls, c), c.on \notin {"body", "header_value"} PROVE LengthInv'
  <2>1. ~LengthField(data, calls', Len(calls))
    BY <1>3, <1>6, NoField
  <2>2. \A l : Known(data, calls, l) => Known(data, calls', l)
    BY <1>3, <1>6, <2>1, KnownStays
  <2> QED BY <1>2, <1>4, <1>6, <2>2, RunsOnWith
<1> QED BY <1>5, <1>6 DEF GoesOn, Output

LEMMA LeavesLength == ASSUME ParserInv, LengthInv, pc # "done", Leaves PROVE LengthInv'
  BY ReturnsLength DEF Leaves

LEMMA ErrorLeaves ==
  ASSUME NEW q \in Parser, NEW e \in Errno \ {"INVALID_CONTENT_LENGTH"}, Error(q, e) PROVE Leaves
<1>1. parser'.http_errno = e
  BY DEF Error, Parser
<1> QED BY <1>1 DEF Error, Leaves, outVars

LEMMA Outputs ==
  /\ Silent => Output
  /\ \A f : MARK(f) => Output
  /\ \A f : f \notin {"body", "header_value"} /\ Callback(f, p) => Output
<1>1. Silent => Output
  BY DEF Silent, Output, outVars
<1>2. ASSUME NEW f, MARK(f) PROVE Output
  BY <1>2 DEF MARK, Output
<1>3. ASSUME NEW f, f \notin {"body", "header_value"}, Callback(f, p) PROVE Output
  <2>1. CASE mark[f] = NoMark
    BY <1>1, <1>3, <2>1 DEF Callback
  <2>2. CASE mark[f] # NoMark
    <3> DEFINE c == [on |-> f, at |-> mark[f], length |-> p - mark[f]]
    <3>1. calls' = Append(calls, c) /\ c.on = f
      BY <1>3, <2>2 DEF Callback
    <3> HIDE DEF c
    <3> QED BY <1>3, <3>1 DEF Output
  <2> QED BY <2>1, <2>2
<1> QED BY <1>1, <1>2, <1>3

-----------------------------------------------------------------------------
\* The start line.
Begins == {"s_dead", "s_start_req_or_res", "s_start_res", "s_start_req"}
Quiet  == (Calm \cup Loose) \ (Begins \cup {"s_headers_done"})

LEMMA QuietFacts ==
  /\ Quiet \subseteq KnownState \ {"s_header_value"}
  /\ \A s \in Quiet \cup Begins : s \notin Busy
  /\ \A s \in Begins : s \notin KnownState
  /\ InLine \subseteq Quiet /\ "s_header_field_start" \in Quiet
<1>1. UrlState \subseteq KnownState \ {"s_header_value"} /\ \A s \in UrlState : s \notin Busy
  BY DEF KnownState, HeaderPartState, UrlState, ChunkState, Busy, BeforeValue, Ended
<1>2. Quiet \subseteq KnownState \ {"s_header_value"}
  BY <1>1 DEF Quiet, Begins, Calm, Loose, KnownState, HeaderPartState, ChunkState
<1>3. \A s \in Quiet \cup Begins : s \notin Busy
  BY <1>1 DEF Quiet, Begins, Calm, Loose, Busy, BeforeValue, Ended, ChunkState
<1>4. InLine \subseteq Quiet /\ "s_header_field_start" \in Quiet
  BY MiddleFacts, FirstKinds DEF InLine, Quiet, Begins, AtEnd, Middle, FirstState, NotBegun, Calm, UrlState, Loose
<1> QED BY <1>2, <1>3, <1>4 DEF KnownState, Begins

LEMMA LineGoesOn ==
  ASSUME ParserInv, pc = "switch", parser.state \in Quiet, NEW q, q.http_errno = parser.http_errno, q.state \in Quiet,
         q.flags = parser.flags, q.content_length = parser.content_length, Break(q) \/ Reexecute(q), Output
  PROVE  GoesOn
<1>1. parser.http_errno = "OK"
  BY SwitchFacts
<1>2. Plain(q)
  BY <1>1, QuietFacts DEF Plain, KeepsLength
<1> QED BY <1>2 DEF GoesOn

LEMMA LineGoesTo ==
  ASSUME ParserInv, pc = "switch", parser.state \in Quiet, NEW s \in Quiet, Break(To(s)) \/ Reexecute(To(s)), Output
  PROVE  GoesOn
<1> DEFINE q == To(s)
<1>1. q.http_errno = parser.http_errno /\ q.flags = parser.flags /\ q.state = s /\ q.content_length = parser.content_length
  BY InSwitch DEF To, Parser
<1>2. Break(q) \/ Reexecute(q)
  OBVIOUS
<1> HIDE DEF q
<1> QED BY <1>1, <1>2, LineGoesOn

LEMMA FreshGoesOn ==
  ASSUME ParserInv, pc = "switch", NEW q, q.http_errno = "OK", q.state \in Quiet \cup Begins, q.content_length = ULLONG_MAX,
         Break(q) \/ Reexecute(q), Output
  PROVE  GoesOn
<1>1. Plain(q)
  BY QuietFacts DEF Plain, KeepsLength
<1> QED BY <1>1 DEF GoesOn

LEMMA IdleGoesOn ==
  ASSUME ParserInv, pc = "switch", parser.state \in Begins, Break(parser), Output PROVE GoesOn
<1>1. parser.http_errno = "OK"
  BY SwitchFacts
<1>2. Plain(parser)
  BY <1>1, QuietFacts DEF Plain, KeepsLength
<1> QED BY <1>2 DEF GoesOn

LEMMA MoreDigitsGoesOn ==
  ASSUME ParserInv, pc = "switch", parser.state \in Quiet, NEW f \in {"http_major", "http_minor", "status_code"},
         NEW e \in {"INVALID_VERSION", "INVALID_STATUS"}, IS_NUM(ch), MoreDigits(f, e)
  PROVE  Leaves \/ GoesOn
<1> DEFINE n == 10 * parser[f] + unhex(ch)
           q == [parser EXCEPT ![f] = n]
<1>0. parser \in Parser
  BY InSwitch
<1>1. Error(q, e) \/ (Break(q) /\ Silent)
  BY DEF MoreDigits
<1>2. n \in Nat
  <2>1. parser[f] \in Nat
    BY <1>0 DEF Parser
  <2>2. unhex(ch) \in 0..15
    BY DigitValue
  <2> QED BY <2>1, <2>2
<1> HIDE DEF n
<1>3. /\ q \in Parser /\ q.flags = parser.flags /\ q.state = parser.state /\ q.http_errno = parser.http_errno
      /\ q.content_length = parser.content_length
  BY <1>0, <1>2 DEF Parser
<1> HIDE DEF q
<1>4. CASE Error(q, e)
  BY <1>3, <1>4, ErrorLeaves, OtherErrors DEF Failures
<1>5. CASE Break(q) /\ Silent
  BY <1>3, <1>5, LineGoesOn, Outputs
<1> QED BY <1>1, <1>4, <1>5

\* The actions of the start line.
LEMMA StartGoesOn == ASSUME ParserInv, Dead \/ StartReqOrRes \/ StartRes \/ StartReq PROVE Leaves \/ GoesOn
<1>1. /\ pc = "switch" /\ parser.state \in {"s_dead", "s_start_req_or_res", "s_start_res", "s_start_req"}
      /\ parser \in Parser /\ parser.http_errno = "OK"
  BY SwitchFacts DEF Dead, StartReqOrRes, StartRes, StartReq, At
<1>2. Fresh \in Parser /\ Fresh.state = parser.state /\ Fresh.http_errno = "OK" /\ Fresh.content_length = ULLONG_MAX
  <2>1. Fresh.content_length = ULLONG_MAX
    BY <1>1 DEF Fresh, Parser
  <2> QED BY <1>1, <2>1, FreshFacts
<1>3. /\ {"s_start_req", "s_dead", "s_start_req_or_res", "s_start_res"} \subseteq Begins
      /\ {"s_res_first_http_major", "s_req_method"} \subseteq Quiet
  BY InLineFacts, QuietFacts DEF Begins
<1>4. CASE Break(parser) /\ Silent
  BY <1>1, <1>3, <1>4, IdleGoesOn, Outputs
<1>5. CASE Break([Fresh EXCEPT !.type = "HTTP_RESPONSE", !.state = "s_res_first_http_major"]) /\ Silent
  <2> DEFINE q == [Fresh EXCEPT !.type = "HTTP_RESPONSE", !.state = "s_res_first_http_major"]
  <2>1. q.http_errno = "OK" /\ q.state = "s_res_first_http_major" /\ q.content_length = ULLONG_MAX
    BY <1>2 DEF Parser
  <2>2. Break(q)
    BY <1>5
  <2> HIDE DEF q
  <2> QED BY <1>1, <1>3, <1>5, <2>1, <2>2, FreshGoesOn, Outputs
<1>6. CASE Break([Fresh EXCEPT !.state = "s_res_first_http_major"]) /\ Silent
  <2> DEFINE q == [Fresh EXCEPT !.state = "s_res_first_http_major"]
  <2>1. q.http_errno = "OK" /\ q.state = "s_res_first_http_major" /\ q.content_length = ULLONG_MAX
    BY <1>2 DEF Parser
  <2>2. Break(q)
    BY <1>6
  <2> HIDE DEF q
  <2> QED BY <1>1, <1>3, <1>6, <2>1, <2>2, FreshGoesOn, Outputs
<1>7. CASE Break([Fresh EXCEPT !.type = "HTTP_REQUEST", !.method = ch, !.state = "s_req_method"]) /\ Silent
  <2> DEFINE q == [Fresh EXCEPT !.type = "HTTP_REQUEST", !.method = ch, !.state = "s_req_method"]
  <2>1. q.http_errno = "OK" /\ q.state = "s_req_method" /\ q.content_length = ULLONG_MAX
    BY <1>2 DEF Parser
  <2>2. Break(q)
    BY <1>7
  <2> HIDE DEF q
  <2> QED BY <1>1, <1>3, <1>7, <2>1, <2>2, FreshGoesOn, Outputs
<1>8. CASE Break([Fresh EXCEPT !.method = ch, !.state = "s_req_method"]) /\ Silent
  <2> DEFINE q == [Fresh EXCEPT !.method = ch, !.state = "s_req_method"]
  <2>1. q.http_errno = "OK" /\ q.state = "s_req_method" /\ q.content_length = ULLONG_MAX
    BY <1>2 DEF Parser
  <2>2. Break(q)
    BY <1>8
  <2> HIDE DEF q
  <2> QED BY <1>1, <1>3, <1>8, <2>1, <2>2, FreshGoesOn, Outputs
<1>9. CASE Reexecute([Fresh EXCEPT !.type = "HTTP_REQUEST", !.state = "s_start_req"]) /\ Silent
  <2> DEFINE q == [Fresh EXCEPT !.type = "HTTP_REQUEST", !.state = "s_start_req"]
  <2>1. q.http_errno = "OK" /\ q.state = "s_start_req" /\ q.content_length = ULLONG_MAX
    BY <1>2 DEF Parser
  <2>2. Reexecute(q)
    BY <1>9
  <2> HIDE DEF q
  <2> QED BY <1>1, <1>3, <1>9, <2>1, <2>2, FreshGoesOn, Outputs
<1>10. CASE Break(Fresh) /\ Silent
  BY <1>1, <1>2, <1>3, <1>10, FreshGoesOn, Outputs
<1>11. CASE Error(Fresh, "INVALID_CONSTANT") \/ Error(Fresh, "INVALID_METHOD") \/ Error(parser, "CLOSED_CONNECTION")
  BY <1>1, <1>2, <1>11, ErrorLeaves, OtherErrors DEF Failures
<1>12. Dead => Leaves \/ GoesOn
  BY <1>4, <1>11 DEF Dead
<1>13. StartReqOrRes => Leaves \/ GoesOn
  BY <1>4, <1>5, <1>7, <1>9 DEF StartReqOrRes
<1>14. StartRes => Leaves \/ GoesOn
  BY <1>6, <1>10, <1>11 DEF StartRes
<1>15. StartReq => Leaves \/ GoesOn
  BY <1>4, <1>8, <1>11 DEF StartReq
<1> QED BY <1>12, <1>13, <1>14, <1>15

LEMMA LineErrors ==
  ASSUME ParserInv, pc = "switch",
         \E e \in {"INVALID_METHOD", "INVALID_VERSION", "INVALID_STATUS", "INVALID_CONSTANT", "LF_EXPECTED", "STRICT"} :
           Error(parser, e)
  PROVE  Leaves
  BY InSwitch, ErrorLeaves, OtherErrors DEF Failures

LEMMA VersionGoesOn ==
  ASSUME ParserInv, ReqMethod \/ FirstMajor \/ Major \/ FirstMinor \/ Minor PROVE Leaves \/ GoesOn
<1>1. pc = "switch" /\ parser.state \in Quiet /\ parser \in Parser
  BY InSwitch, InLineFacts, QuietFacts DEF ReqMethod, FirstMajor, Major, FirstMinor, Minor, At, AtOneOf
<1>0. \A s \in InLine \cup {"s_header_field_start"} : s \in Quiet
  BY QuietFacts
<1>2. ASSUME NEW e \in {"INVALID_METHOD", "INVALID_VERSION"}, Error(parser, e) PROVE Leaves
  BY <1>1, <1>2, LineErrors
<1>3. CASE ReqMethod
  BY <1>0, <1>1, <1>2, <1>3, InLineFacts, LineGoesTo, Outputs DEF ReqMethod
<1>4. CASE FirstMajor
  <2>1. ASSUME NEW s \in InLine, Break([parser EXCEPT !.http_major = unhex(ch), !.state = s]), Silent PROVE GoesOn
    <3> DEFINE q == [parser EXCEPT !.http_major = unhex(ch), !.state = s]
    <3>1. /\ q.http_errno = parser.http_errno /\ q.flags = parser.flags /\ q.state = s
          /\ q.content_length = parser.content_length
      BY <1>1 DEF Parser
    <3>2. Break(q)
      BY <2>1
    <3> HIDE DEF q
    <3> QED BY <1>0, <1>1, <2>1, <3>1, <3>2, LineGoesOn, Outputs
  <2> QED BY <1>2, <1>4, <2>1, InLineFacts DEF FirstMajor
<1>5. CASE Major
  <2>1. CASE Break(To(IF parser.state = "s_res_http_major" THEN "s_res_first_http_minor" ELSE "s_req_first_http_minor")) /\ Silent
    BY <1>0, <1>1, <2>1, InLineFacts, LineGoesTo, Outputs
  <2>2. CASE IS_NUM(ch) /\ MoreDigits("http_major", "INVALID_VERSION")
    BY <1>1, <2>2, MoreDigitsGoesOn
  <2> QED BY <1>2, <1>5, <2>1, <2>2 DEF Major
<1>6. CASE FirstMinor
  <2>1. ASSUME NEW s \in InLine, Break([parser EXCEPT !.http_minor = unhex(ch), !.state = s]), Silent PROVE GoesOn
    <3> DEFINE q == [parser EXCEPT !.http_minor = unhex(ch), !.state = s]
    <3>1. /\ q.http_errno = parser.http_errno /\ q.flags = parser.flags /\ q.state = s
          /\ q.content_length = parser.content_length
      BY <1>1 DEF Parser
    <3>2. Break(q)
      BY <2>1
    <3> HIDE DEF q
    <3> QED BY <1>0, <1>1, <2>1, <3>1, <3>2, LineGoesOn, Outputs
  <2> QED BY <1>2, <1>6, <2>1, InLineFacts DEF FirstMinor
<1>7. CASE Minor
  <2>1. CASE IS_NUM(ch) /\ MoreDigits("http_minor", "INVALID_VERSION")
    BY <1>1, <2>1, MoreDigitsGoesOn
  <2>2. ASSUME NEW s \in {"s_res_first_status_code", "s_req_line_almost_done", "s_header_field_start"}, Break(To(s)), Silent
        PROVE  GoesOn
    BY <1>0, <1>1, <2>2, InLineFacts, LineGoesTo, Outputs
  <2>3. \/ IS_NUM(ch) /\ MoreDigits("http_minor", "INVALID_VERSION")
        \/ Break(To("s_res_first_status_code")) /\ Silent
        \/ Break(To("s_req_line_almost_done")) /\ Silent
        \/ Break(To("s_header_field_start")) /\ Silent
        \/ Error(parser, "INVALID_VERSION")
    BY <1>7 DEF Minor
  <2> QED BY <1>2, <2>1, <2>2, <2>3
<1> QED BY <1>3, <1>4, <1>5, <1>6, <1>7

LEMMA StatusGoesOn ==
  ASSUME ParserInv, \/ FirstStatusCode \/ StatusCode \/ StatusStart \/ Status
                    \/ ResLineAlmostDone \/ ReqHttpStart \/ ReqLineAlmostDone
  PROVE  Leaves \/ GoesOn
<1>1. pc = "switch" /\ parser.state \in Quiet /\ parser \in Parser
  BY InSwitch, InLineFacts, QuietFacts
     DEF FirstStatusCode, StatusCode, StatusStart, Status, ResLineAlmostDone, ReqHttpStart, ReqLineAlmostDone, At
<1>0. \A s \in InLine \cup {"s_header_field_start"} : s \in Quiet
  BY QuietFacts
<1>2. ASSUME NEW e \in {"INVALID_STATUS", "INVALID_CONSTANT", "LF_EXPECTED", "STRICT"}, Error(parser, e) PROVE Leaves
  BY <1>1, <1>2, LineErrors
<1>3. ASSUME NEW s \in InLine \cup {"s_header_field_start"}, Break(To(s)), Output PROVE GoesOn
  BY <1>0, <1>1, <1>3, LineGoesTo
<1>4. ASSUME Break(parser), Output PROVE GoesOn
  BY <1>1, <1>4, LineGoesOn
<1>5. Silent \/ MARK("status") \/ Callback("status", p) => Output
  BY Outputs
<1>6. CASE FirstStatusCode
  <2>1. ASSUME Break([parser EXCEPT !.status_code = unhex(ch), !.state = "s_res_status_code"]), Silent PROVE GoesOn
    <3> DEFINE q == [parser EXCEPT !.status_code = unhex(ch), !.state = "s_res_status_code"]
    <3>1. /\ q.http_errno = parser.http_errno /\ q.flags = parser.flags /\ q.state = "s_res_status_code"
          /\ q.content_length = parser.content_length
      BY <1>1 DEF Parser
    <3>2. Break(q)
      BY <2>1
    <3> HIDE DEF q
    <3> QED BY <1>0, <1>1, <1>5, <2>1, <3>1, <3>2, InLineFacts, LineGoesOn
  <2> QED BY <1>2, <1>4, <1>5, <1>6, <2>1 DEF FirstStatusCode
<1>7. CASE StatusCode
  <2>1. CASE IS_NUM(ch) /\ MoreDigits("status_code", "INVALID_STATUS")
    BY <1>1, <2>1, MoreDigitsGoesOn
  <2> QED BY <1>2, <1>3, <1>5, <1>7, <2>1, InLineFacts DEF StatusCode
<1>8. CASE StatusStart \/ Status
  BY <1>3, <1>4, <1>5, <1>8, InLineFacts DEF StatusStart, Status
<1>9. CASE ResLineAlmostDone \/ ReqHttpStart \/ ReqLineAlmostDone
  BY <1>2, <1>3, <1>4, <1>5, <1>9, InLineFacts DEF ResLineAlmostDone, ReqHttpStart, ReqLineAlmostDone
<1> QED BY <1>6, <1>7, <1>8, <1>9

LEMMA UrlGoesOn == ASSUME ParserInv, ReqSpacesBeforeUrl \/ ReqUrlStart \/ ReqUrl PROVE Leaves \/ GoesOn
<1>1. pc = "switch" /\ parser.state \in Quiet /\ parser \in Parser
  BY InSwitch, InLineFacts, QuietFacts DEF ReqSpacesBeforeUrl, ReqUrlStart, ReqUrl, At, AtOneOf, UrlState
<1>0. \A s \in InLine \cup {"s_header_field_start"} : s \in Quiet
  BY QuietFacts
<1>2. \A t, c : parse_url_char(t, c) \in UrlState \cup {"s_dead"}
  BY DEF parse_url_char, UrlState
<1>3. ASSUME Error(To("s_dead"), "INVALID_URL") PROVE Leaves
  <2>1. To("s_dead") \in Parser
    BY <1>1, CalmFacts, ToFacts DEF Calm
  <2> QED BY <1>3, <2>1, ErrorLeaves, OtherErrors DEF Failures
<1>4. ASSUME NEW t, t \in UrlState \cup {"s_dead"}, Output,
             IF t = "s_dead" THEN Error(To(t), "INVALID_URL") ELSE Break(To(t))
      PROVE  Leaves \/ GoesOn
  BY <1>0, <1>1, <1>3, <1>4, InLineFacts, LineGoesTo
<1>5. Silent \/ MARK("url") \/ Callback("url", p) => Output
  BY Outputs
<1>6. ASSUME UrlChar(parser.state), Silent PROVE Leaves \/ GoesOn
  BY <1>2, <1>4, <1>5, <1>6 DEF UrlChar
<1>7. CASE ReqSpacesBeforeUrl
  <2>1. CASE Break(parser) /\ Silent
    BY <1>1, <1>5, <2>1, LineGoesOn
  <2>2. ASSUME NEW s, LET t == parse_url_char(s, ch) IN
                      IF t = "s_dead" THEN Error(To(t), "INVALID_URL") ELSE Break(To(t)) /\ MARK("url")
        PROVE  Leaves \/ GoesOn
    BY <1>2, <1>3, <1>4, <1>5, <2>2
  <2> QED BY <1>7, <2>1, <2>2 DEF ReqSpacesBeforeUrl
<1>8. CASE ReqUrlStart
  BY <1>6, <1>8 DEF ReqUrlStart
<1>9. CASE ReqUrl
  <2>1. CASE Break(To("s_req_http_start")) /\ Callback("url", p)
    BY <1>0, <1>1, <1>5, <2>1, InLineFacts, LineGoesTo
  <2>2. CASE /\ Break([parser EXCEPT !.http_major = 0, !.http_minor = 9,
                                     !.state = IF ch = CR THEN "s_req_line_almost_done" ELSE "s_header_field_start"])
             /\ Callback("url", p)
    <3> DEFINE s == IF ch = CR THEN "s_req_line_almost_done" ELSE "s_header_field_start"
               q == [parser EXCEPT !.http_major = 0, !.http_minor = 9, !.state = s]
    <3>1. s \in Quiet
      BY <1>0, InLineFacts
    <3>2. Break(q)
      BY <2>2
    <3> HIDE DEF s
    <3>3. /\ q.http_errno = parser.http_errno /\ q.flags = parser.flags /\ q.state = s
          /\ q.content_length = parser.content_length
      BY <1>1 DEF Parser
    <3> HIDE DEF q
    <3> QED BY <1>1, <1>5, <2>2, <3>1, <3>2, <3>3, LineGoesOn
  <2> QED BY <1>6, <1>9, <2>1, <2>2 DEF ReqUrl
<1> QED BY <1>7, <1>8, <1>9

LEMMA StartLineLength == ASSUME ParserInv, LengthInv, StartLine PROVE LengthInv'
<1>1. pc = "switch" /\ pc # "done"
  BY StartLineMoves
<1>2. Leaves \/ GoesOn
  BY StartGoesOn, VersionGoesOn, StatusGoesOn, UrlGoesOn DEF StartLine
<1> QED BY <1>1, <1>2, GoesOnLength, LeavesLength
-----------------------------------------------------------------------------
\* The states of a header, where no body is read.
InHeader == {"s_header_field", "s_header_value", "s_header_value_start"} \cup BeforeValue \cup Ended

LEMMA HeaderReads ==
  ASSUME NEW text, NEW shown, NEW m, NEW q, NEW h, NEW n, NEW c, q.state \in InHeader,
         KnowsLength(text, shown, q, h), NameIsOne(text, m, q, n), NameIsTold(text, shown, q, h, n, c),
         ReadsLength(text, shown, m, q, h, n)
  PROVE  Reads(text, shown, m, q, h, n, c)
<1>1. ReadsBody(text, shown, m, q, n, c) /\ ReadsSize(text, q, n) /\ ReadsChunk(text, m, q, n, c) /\ NotTrailing(q)
  BY DEF InHeader, BeforeValue, Ended, ReadsBody, ReadsSize, ReadsChunk, NotTrailing
<1> QED BY <1>1 DEF Reads

\* What is known at the switch and in the loop over a value.
LEMMA SwitchReads ==
  ASSUME ParserInv, LengthInv, pc = "switch"
  PROVE  /\ KnowsLength(data, calls, parser, parser.header_state)
         /\ NameIsOne(data, mark, parser, p) /\ NotTrailing(parser)
         /\ NameIsTold(data, calls, parser, parser.header_state, p, "switch")
         /\ ReadsLength(data, calls, mark, parser, parser.header_state, p)
         /\ ReadsBody(data, calls, mark, parser, p, "switch")
         /\ ReadsSize(data, parser, p) /\ ReadsChunk(data, mark, parser, p, "switch")
         /\ calls \in Seq(Call) /\ len = Len(data)
<1>1. Local = parser.header_state
  BY DEF Local
<1> QED BY <1>1 DEF LengthInv, Reads, ParserInv, Types, len

LEMMA LoopReads ==
  ASSUME ParserInv, LengthInv, pc = "value"
  PROVE  /\ h_state # "h_content_length" /\ "F_TRAILING" \notin parser.flags =>
              Known(data, calls, parser.content_length)
         /\ LengthName(data, calls, Len(calls)) <=> h_state = "h_content_length"
         /\ ReadsLength(data, calls, mark, parser, h_state, p)
         /\ calls \in Seq(Call) /\ len = Len(data) /\ calls # <<>>
<1>1. Reads(data, calls, mark, parser, h_state, p, pc)
  BY DEF LengthInv, Local
<1>2. parser.state = "s_header_value" /\ Shape(parser.state, p) /\ p \in Nat
  BY ValueFacts
<1>3. h_state # "h_content_length" /\ "F_TRAILING" \notin parser.flags => Known(data, calls, parser.content_length)
  BY <1>1, <1>2 DEF Reads, KnowsLength, KnownState, HeaderPartState, ChunkState
<1>4. LengthName(data, calls, Len(calls)) <=> h_state = "h_content_length"
  BY <1>1, <1>2 DEF Reads, NameIsTold
<1>5. calls # <<>>
  BY <1>2, ShapeFacts, ValueStates DEF LastOn
<1> QED BY <1>1, <1>3, <1>4, <1>5 DEF Reads, ParserInv, Types, len

\* No piece is open before a name or a value.
LEMMA NothingOpen ==
  ASSUME ParserInv, pc = "switch", PieceOf(parser.state) = "none", NEW f \in Piece
  PROVE  mark[f] = NoMark /\ (MARK(f) => mark'[f] = p)
<1>1. Shape(parser.state, p) /\ mark \in Marks
  BY SwitchFacts DEF Types
<1>2. f # "none"
  BY DEF Piece
<1>3. mark[f] = NoMark
  BY <1>1, <1>2 DEF Shape
<1> QED BY <1>1, <1>3 DEF MARK, Marks

\* A name begins.
LEMMA HeaderFieldStartLength == ASSUME ParserInv, LengthInv, HeaderFieldStart PROVE LengthInv'
<1>1. pc = "switch" /\ parser.state = "s_header_field_start" /\ pc # "done"
  BY DEF HeaderFieldStart, At
<1>2. parser \in Parser /\ parser.http_errno = "OK" /\ p \in Nat
  BY <1>1, SwitchFacts
<1>3. "s_header_field_start" \in Quiet /\ "s_headers_almost_done" \in Quiet
  BY QuietFacts DEF Quiet, Calm, Begins
<1>4. CASE (Break(To("s_headers_almost_done")) \/ Reexecute(To("s_headers_almost_done"))) /\ Silent
  BY <1>1, <1>3, <1>4, LineGoesTo, Outputs, GoesOnLength
<1>5. CASE Error(parser, "INVALID_HEADER_TOKEN")
  BY <1>1, <1>2, <1>5, ErrorLeaves, OtherErrors, LeavesLength DEF Failures
<1>6. CASE Break([parser EXCEPT !.state = "s_header_field", !.header_state = NameState(ch)]) /\ MARK("header_field")
  <2> DEFINE h == NameState(ch)
             q == [parser EXCEPT !.state = "s_header_field", !.header_state = h]
  <2>1. Break(q)
    BY <1>6
  <2>2. /\ q.http_errno = "OK" /\ q.state = "s_header_field" /\ q.header_state = h /\ q.flags = parser.flags
        /\ q.content_length = parser.content_length
    BY <1>2 DEF Parser
  <2>3. h = NameState(data[p + 1])
    BY DEF ch
  <2> HIDE DEF h, q
  <2>4. data' = data /\ calls' = calls /\ p' = p + 1 /\ pc' = "next" /\ parser' = q /\ Local' = h
    BY <1>6, <2>1, <2>2 DEF Break, MARK, Local
  <2>5. mark'["header_field"] = p
    BY <1>1, <1>6, CalmFacts, NothingOpen DEF Calm, Piece
  <2>6. KnowsLength(data, calls, q, h)
    BY <1>1, <1>3, <2>2, SwitchReads, QuietFacts DEF KnowsLength
  <2>7. NameIsOne(data, mark', q, p + 1)
    BY <1>2, <2>2, <2>3, <2>5 DEF NameIsOne
  <2>8. NameIsTold(data, calls, q, h, p + 1, "next") /\ ReadsLength(data, calls, mark', q, h, p + 1)
    BY <2>2 DEF NameIsTold, ReadsLength, BeforeValue, Ended
  <2>9. Reads(data, calls, mark', q, h, p + 1, "next")
    BY <2>2, <2>6, <2>7, <2>8, HeaderReads DEF InHeader
  <2> QED BY <1>1, <2>2, <2>4, <2>9, RunsOn
<1> QED BY <1>4, <1>5, <1>6 DEF HeaderFieldStart

LEMMA NamesTheLength == ASSUME NEW c PROVE NameState(c) = "h_content_length" <=> c = "content-length"
  BY DEF NameState

\* A name goes on and ends.
LEMMA HeaderFieldLength == ASSUME ParserInv, LengthInv, HeaderField PROVE LengthInv'
<1>1. pc = "switch" /\ parser.state = "s_header_field" /\ pc # "done"
  BY DEF HeaderField, At
<1>2. /\ Shape(parser.state, p) /\ p \in Nat /\ len \in Nat /\ p < len /\ parser \in Parser /\ parser.http_errno = "OK"
      /\ KnowsLength(data, calls, parser, parser.header_state) /\ NameIsOne(data, mark, parser, p)
      /\ calls \in Seq(Call) /\ len = Len(data)
  BY <1>1, SwitchFacts, SwitchReads
<1>4. PICK n \in p..len :
        LET named == Counted([parser EXCEPT !.header_state = IF n = p THEN @ ELSE "h_general"], n - p) IN
        \/ Error(named, "HEADER_OVERFLOW") \/ Error(named, "INVALID_HEADER_TOKEN")
        \/ /\ n = len /\ parser' = named /\ p' = n /\ pc' = "next"
           /\ Silent /\ UNCHANGED <<data, localVars>>
        \/ /\ n < len /\ parser' = [named EXCEPT !.state = "s_header_value_discard_ws"] /\ p' = n + 1 /\ pc' = "next"
           /\ Callback("header_field", n) /\ UNCHANGED <<data, localVars>>
  BY DEF HeaderField
<1> DEFINE h     == IF n = p THEN parser.header_state ELSE "h_general"
           r     == [parser EXCEPT !.header_state = h]
           named == Counted(r, n - p)
<1>5. n \in Nat /\ n - p \in Nat /\ p <= n /\ n <= len
  BY <1>2
<1>6. h \in HeaderState
  BY <1>2 DEF Parser, HeaderState
<1>7. \/ Error(named, "HEADER_OVERFLOW") \/ Error(named, "INVALID_HEADER_TOKEN")
      \/ /\ n = len /\ parser' = named /\ p' = n /\ pc' = "next"
         /\ Silent /\ UNCHANGED <<data, localVars>>
      \/ /\ n < len /\ parser' = [named EXCEPT !.state = "s_header_value_discard_ws"] /\ p' = n + 1 /\ pc' = "next"
         /\ Callback("header_field", n) /\ UNCHANGED <<data, localVars>>
  BY <1>4
<1>8. h = IF n = p THEN parser.header_state ELSE "h_general"
  OBVIOUS
<1> HIDE DEF h
<1>9. /\ named \in Parser /\ named.http_errno = "OK" /\ named.state = "s_header_field" /\ named.header_state = h
      /\ named.flags = parser.flags /\ named.content_length = parser.content_length
  <2>1. /\ r \in Parser /\ r.http_errno = "OK" /\ r.state = "s_header_field" /\ r.header_state = h
        /\ r.flags = parser.flags /\ r.content_length = parser.content_length
    BY <1>1, <1>2, <1>6 DEF Parser
  <2> HIDE DEF r
  <2> QED BY <1>5, <2>1 DEF Counted, Parser
<1> HIDE DEF named
<1>10. CASE Error(named, "HEADER_OVERFLOW") \/ Error(named, "INVALID_HEADER_TOKEN")
  <2>1. {"HEADER_OVERFLOW", "INVALID_HEADER_TOKEN"} \subseteq Errno \ {"INVALID_CONTENT_LENGTH"}
    BY DEF Errno, http_errno
  <2> QED BY <1>1, <1>9, <1>10, <2>1, ErrorLeaves, LeavesLength
<1>11. KnowsLength(data, calls, named, h)
  BY <1>1, <1>2, <1>9 DEF KnowsLength
<1>12. CASE /\ n = len /\ parser' = named /\ p' = n /\ pc' = "next"
            /\ Silent /\ UNCHANGED <<data, localVars>>
  <2>1. data' = data /\ calls' = calls /\ Local' = h
    BY <1>9, <1>12 DEF Silent, outVars, Local
  <2>2. NameIsOne(data, mark', named, n)
    BY <1>2, <1>12 DEF NameIsOne
  <2>3. NameIsTold(data, calls, named, h, n, "next") /\ ReadsLength(data, calls, mark', named, h, n)
    BY <1>9 DEF NameIsTold, ReadsLength, BeforeValue, Ended
  <2>4. Reads(data, calls, mark', named, h, n, "next")
    BY <1>9, <1>11, <2>2, <2>3, HeaderReads DEF InHeader
  <2> QED BY <1>1, <1>9, <1>12, <2>1, <2>4, RunsOn
<1>13. CASE /\ n < len /\ parser' = [named EXCEPT !.state = "s_header_value_discard_ws"] /\ p' = n + 1 /\ pc' = "next"
            /\ Callback("header_field", n) /\ UNCHANGED <<data, localVars>>
  <2> DEFINE q == [named EXCEPT !.state = "s_header_value_discard_ws"]
             v == mark["header_field"]
             c == [on |-> "header_field", at |-> v, length |-> n - v]
  <2>1. /\ q.http_errno = "OK" /\ q.state = "s_header_value_discard_ws" /\ q.header_state = h
        /\ q.flags = parser.flags /\ q.content_length = parser.content_length
    BY <1>9 DEF Parser
  <2>2. parser' = q /\ data' = data /\ Local' = h
    BY <1>13, <2>1 DEF Local
  <2> HIDE DEF q
  <2>3. v # NoMark /\ p >= 1 /\ v = p - 1 /\ parser.header_state = NameState(data[p])
    <3>1. v # NoMark
      BY <1>1, <1>2, ShapeFacts, NameStates
    <3> QED BY <1>1, <1>2, <3>1 DEF NameIsOne
  <2>4. calls' = Append(calls, c) /\ c.on = "header_field" /\ c.at = v /\ c.length = n - v
    BY <1>13, <2>3 DEF Callback
  <2> HIDE DEF v, c
  <2>5. Len(calls') = Len(calls) + 1 /\ Len(calls) \in Nat /\ calls'[Len(calls')] = c
    BY <1>2, <2>4, OneMore
  <2>6. LengthName(data, calls', Len(calls')) <=> h = "h_content_length"
    <3>1. LengthName(data, calls', Len(calls')) <=> c.length = 1 /\ data[c.at + 1] = "content-length"
      BY <2>4, <2>5 DEF LengthName
    <3>2. CASE n = p
      BY <1>2, <1>8, <2>3, <2>4, <3>1, <3>2, NamesTheLength
    <3>3. CASE n # p
      BY <1>2, <1>5, <1>8, <2>3, <2>4, <3>1, <3>3
    <3> QED BY <3>2, <3>3
  <2>7. h = "h_content_length" => OnlyWhite(data, calls', n + 1)
    <3> SUFFICES ASSUME h = "h_content_length" PROVE OnlyWhite(data, calls', n + 1)
      OBVIOUS
    <3>1. n = p
      BY <1>8
    <3>2. c.at + 2 <= n + 1 /\ \A i \in (c.at + 3)..(n + 1) : FALSE
      BY <1>2, <2>3, <2>4, <3>1
    <3> QED BY <2>5, <3>2 DEF OnlyWhite
  <2>8. NameIsTold(data, calls', q, h, n + 1, "next")
    BY <2>1, <2>6, <2>7 DEF NameIsTold, BeforeValue, Ended
  <2>9. KnowsLength(data, calls', q, h)
    <3>1. ~LengthField(data, calls', Len(calls))
      BY <1>2, <2>4, NoField
    <3>2. Known(data, calls, parser.content_length) => Known(data, calls', parser.content_length)
      BY <1>2, <2>4, <3>1, KnownStays
    <3>3. "s_header_field" \in KnownState
      BY DEF KnownState, HeaderPartState, ChunkState
    <3> QED BY <1>1, <1>2, <2>1, <3>2, <3>3 DEF KnowsLength
  <2>10. NameIsOne(data, mark', q, n + 1) /\ ReadsLength(data, calls', mark', q, h, n + 1)
    BY <2>1 DEF NameIsOne, ReadsLength
  <2>11. Reads(data, calls', mark', q, h, n + 1, "next")
    BY <2>1, <2>8, <2>9, <2>10, HeaderReads DEF InHeader, BeforeValue
  <2> QED BY <1>1, <1>13, <2>1, <2>2, <2>4, <2>11, RunsOnWith
<1> QED BY <1>7, <1>10, <1>12, <1>13
-----------------------------------------------------------------------------
\* Before a value.
LEMMA BeforeStates ==
  /\ BeforeValue \cup Ended \cup {"s_header_value_start"} \subseteq Around
  /\ BeforeValue \cup Ended \cup {"s_header_value_start", "s_header_field_start", "s_header_value"} \subseteq KnownState
  /\ BeforeValue \cap (Ended \cup {"s_header_value_start", "s_header_value", "s_header_field"}) = {}
  /\ Ended \cap {"s_header_value_start", "s_header_value", "s_header_field"} = {}
<1>1. BeforeValue \cup Ended \cup {"s_header_value_start"} \subseteq Around
  BY DEF BeforeValue, Ended, Around
<1>2. BeforeValue \cup Ended \cup {"s_header_value_start", "s_header_field_start", "s_header_value"} \subseteq KnownState
  BY DEF BeforeValue, Ended, KnownState, HeaderPartState, ChunkState
<1>3. /\ BeforeValue \cap (Ended \cup {"s_header_value_start", "s_header_value", "s_header_field"}) = {}
      /\ Ended \cap {"s_header_value_start", "s_header_value", "s_header_field"} = {}
  BY DEF BeforeValue, Ended
<1> QED BY <1>1, <1>2, <1>3

LEMMA OnlyWhiteGrows ==
  ASSUME NEW text, NEW shown, NEW n \in Nat, OnlyWhite(text, shown, n), text[n + 1] \in {SP, TAB, CR, LF},
         shown[Len(shown)].at \in Nat
  PROVE  OnlyWhite(text, shown, n + 1)
<1> DEFINE a == shown[Len(shown)].at
<1>1. a + 2 <= n /\ \A i \in (a + 3)..n : text[i] \in {SP, TAB, CR, LF}
  BY DEF OnlyWhite
<1>2. a + 2 <= n + 1 /\ \A i \in (a + 3)..(n + 1) : i = n + 1 \/ i \in (a + 3)..n
  BY <1>1
<1> QED BY <1>1, <1>2 DEF OnlyWhite

LEMMA LastIsAt == ASSUME ParserInv, calls # <<>> PROVE calls[Len(calls)].at \in Nat
<1>1. calls \in Seq(Call) /\ len \in Nat
  BY LenNat DEF ParserInv, Types
<1>2. calls[Len(calls)] \in Call
  BY <1>1
<1> QED BY <1>1, <1>2 DEF Call, Pos

\* White space before a value.
LEMMA StillBefore ==
  ASSUME ParserInv, LengthInv, pc = "switch", parser.state \in BeforeValue, NEW s \in BeforeValue,
         ch \in {SP, TAB, CR, LF}, Break(To(s)) \/ (s = parser.state /\ Break(parser)), Silent
  PROVE  LengthInv'
<1>1. /\ parser \in Parser /\ parser.http_errno = "OK" /\ p \in Nat /\ Shape(parser.state, p)
      /\ KnowsLength(data, calls, parser, parser.header_state)
      /\ NameIsTold(data, calls, parser, parser.header_state, p, "switch")
  BY SwitchFacts, SwitchReads
<1> DEFINE q == parser'
           h == parser.header_state
<1>2. /\ q.http_errno = "OK" /\ q.state = s /\ q.header_state = h /\ q.flags = parser.flags
      /\ q.content_length = parser.content_length
  <2>1. parser' = [parser EXCEPT !.state = s] \/ (s = parser.state /\ parser' = parser)
    BY DEF Break, To
  <2> QED BY <1>1, <2>1 DEF Parser
<1>3. data' = data /\ calls' = calls /\ p' = p + 1 /\ pc' = "next" /\ Local' = h
  BY <1>2 DEF Break, Silent, outVars, Local
<1> HIDE DEF q
<1>4. calls # <<>>
  BY <1>1, ShapeFacts DEF LastOn, BeforeValue, Pending
<1>5. /\ LengthName(data, calls, Len(calls)) <=> h = "h_content_length"
      /\ h = "h_content_length" => OnlyWhite(data, calls, p + 1)
  BY <1>1, <1>4, LastIsAt, OnlyWhiteGrows DEF NameIsTold, ch
<1>6. NameIsTold(data, calls, q, h, p + 1, "next") /\ NameIsOne(data, mark', q, p + 1) /\ ReadsLength(data, calls, mark', q, h, p + 1)
  BY <1>2, <1>5, BeforeStates DEF NameIsTold, NameIsOne, ReadsLength
<1>7. KnowsLength(data, calls, q, h)
  BY <1>1, <1>2, BeforeStates DEF KnowsLength
<1>8. Reads(data, calls, mark', q, h, p + 1, "next")
  BY <1>2, <1>6, <1>7, HeaderReads DEF InHeader
<1> QED BY <1>2, <1>3, <1>8, RunsOn DEF q

\* The header of the parser when a value begins.
LEMMA OptionIsNoLength == \A c : /\ Option(c, "h_matching_connection_token") # "h_content_length"
                                 /\ \A o : o # "h_content_length" => Option(c, o) # "h_content_length"
  BY DEF Option

\* A value begins.
LEMMA ValueBegins ==
  ASSUME ParserInv, LengthInv, pc = "switch", parser.state \in {"s_header_value_discard_ws", "s_header_value_start"},
         NEW q, q.http_errno = "OK", q.state = "s_header_value", Break(q), MARK("header_value"),
         "F_TRAILING" \in parser.flags => "F_TRAILING" \in q.flags,
         \/ parser.header_state # "h_content_length" /\ q.header_state # "h_content_length"
            /\ q.content_length = parser.content_length
         \/ /\ parser.header_state = "h_content_length" /\ q.header_state = "h_content_length"
            /\ IS_NUM(ch) /\ q.content_length = unhex(ch)
  PROVE  LengthInv'
<1> DEFINE h == q.header_state
<1>1. /\ parser \in Parser /\ p \in Nat /\ Shape(parser.state, p)
      /\ KnowsLength(data, calls, parser, parser.header_state)
      /\ NameIsTold(data, calls, parser, parser.header_state, p, "switch")
  BY SwitchFacts, SwitchReads
<1>2. data' = data /\ calls' = calls /\ p' = p + 1 /\ pc' = "next" /\ Local' = h /\ parser' = q
  BY DEF Break, MARK, Local
<1> HIDE DEF h
<1>3. mark'["header_value"] = p /\ p # NoMark
  <2>1. PieceOf(parser.state) = "none"
    BY AroundFacts DEF Around
  <2> QED BY <1>1, <2>1, NothingOpen DEF Piece, NoMark
<1>4. ~IS_NUM(SP) /\ ~IS_NUM(TAB)
  BY DEF IS_NUM, Digit, SP, TAB
<1>5. LengthName(data, calls, Len(calls)) <=> h = "h_content_length"
  <2>1. CASE parser.state = "s_header_value_discard_ws"
    BY <1>1, <2>1 DEF NameIsTold, BeforeValue, h
  <2>2. CASE parser.state = "s_header_value_start"
    BY <1>1, <1>4, <2>2 DEF NameIsTold, LengthName, ch, h
  <2> QED BY <2>1, <2>2
<1>6. NameIsTold(data, calls, q, h, p + 1, "next") /\ NameIsOne(data, mark', q, p + 1)
  BY <1>5, BeforeStates DEF NameIsTold, NameIsOne
<1>7. KnowsLength(data, calls, q, h)
  <2>1. h # "h_content_length" => Known(data, calls, q.content_length) \/ "F_TRAILING" \in q.flags
    BY <1>1, BeforeStates DEF KnowsLength, h, BeforeValue
  <2> QED BY <2>1 DEF KnowsLength
<1>8. ReadsLength(data, calls, mark', q, h, p + 1)
  <2>1. CASE h # "h_content_length"
    BY <2>1 DEF ReadsLength
  <2>2. CASE h = "h_content_length"
    <3>1. OnlyWhite(data, calls, p)
      BY <1>1, <1>4, <2>2 DEF NameIsTold, h, ch, BeforeValue
    <3>2. IS_NUM(data[p + 1]) /\ q.content_length = unhex(data[p + 1]) /\ data[p + 1] # SP
      BY <1>4, <2>2 DEF ch, h
    <3>3. Numeral(data, 10, p, p + 1) = q.content_length
      <4>1. Numeral(data, 10, p, p) = 0 /\ Numeral(data, 10, p, p + 1) = 10 * Numeral(data, 10, p, p) + unhex(data[p + 1])
        BY <1>1, <3>2, NumeralGrows
      <4>2. unhex(data[p + 1]) \in 0..15
        BY <3>2, DigitValue
      <4> QED BY <3>2, <4>1, <4>2
    <3>4. p < p + 1 /\ \A i \in (p + 1)..(p + 1) : i = p + 1
      BY <1>1
    <3> QED BY <1>3, <3>1, <3>2, <3>3, <3>4 DEF ReadsLength
  <2> QED BY <2>1, <2>2
<1>9. Reads(data, calls, mark', q, h, p + 1, "next")
  BY <1>6, <1>7, <1>8, HeaderReads DEF InHeader
<1> QED BY <1>2, <1>9, RunsOn

\* A value that is refused.
LEMMA ValueRefused ==
  ASSUME ParserInv, LengthInv, pc = "switch", parser.state \in {"s_header_value_discard_ws", "s_header_value_start"},
         parser.header_state = "h_content_length", ~IS_NUM(ch), NEW q, Error(q, "INVALID_CONTENT_LENGTH")
  PROVE  LengthInv'
<1>1. p \in Nat /\ p < len /\ Shape(parser.state, p) /\ NameIsTold(data, calls, parser, "h_content_length", p, "switch")
  BY SwitchFacts, SwitchReads
<1>2. calls # <<>>
  BY <1>1, ShapeFacts DEF LastOn, Pending
<1>3. LengthRefused(data, calls, p)
  <2>1. CASE parser.state = "s_header_value_discard_ws"
    <3>1. LengthName(data, calls, Len(calls)) /\ OnlyWhite(data, calls, p)
      BY <1>1, <2>1 DEF NameIsTold, BeforeValue
    <3>2. p \in 0..p /\ \A i \in (p + 1)..p : FALSE
      BY <1>1
    <3> QED BY <1>2, <3>1, <3>2 DEF LengthRefused, ch
  <2>2. CASE parser.state = "s_header_value_start"
    BY <1>1, <1>2, <2>2 DEF NameIsTold, LengthRefused
  <2> QED BY <2>1, <2>2
<1>4. data' = data /\ calls' = calls /\ pc' = "done" /\ p' = p
  BY DEF Error, outVars
<1> QED BY <1>1, <1>3, <1>4, ReturnsLength

LEMMA ValueStartLength ==
  ASSUME ParserInv, LengthInv, pc = "switch", parser.state \in {"s_header_value_discard_ws", "s_header_value_start"},
         ValueStart
  PROVE  LengthInv'
<1> DEFINE h == parser.header_state
           t == To("s_header_value")
<1>1. parser \in Parser /\ parser.http_errno = "OK" /\ h \in HeaderState
  BY SwitchFacts DEF Parser
<1>2. /\ t \in Parser /\ t.http_errno = "OK" /\ t.state = "s_header_value" /\ t.header_state = h
      /\ t.flags = parser.flags /\ t.content_length = parser.content_length
  BY <1>1, ToFacts, ValueStates
<1>3. ASSUME NEW g, h # "h_content_length", g # "h_content_length",
             MARK("header_value"), Break([t EXCEPT !.header_state = g])
      PROVE  LengthInv'
  <2> DEFINE q == [t EXCEPT !.header_state = g]
  <2>1. /\ q.http_errno = "OK" /\ q.state = "s_header_value" /\ q.header_state = g
        /\ q.flags = parser.flags /\ q.content_length = parser.content_length
    BY <1>2 DEF Parser
  <2>2. Break(q)
    BY <1>3
  <2> HIDE DEF q
  <2> QED BY <1>3, <2>1, <2>2, ValueBegins
<1>4. ASSUME h # "h_content_length",
             MARK("header_value"), Break([t EXCEPT !.flags = @ \cup {"F_UPGRADE"}, !.header_state = "h_general"])
      PROVE  LengthInv'
  <2> DEFINE q == [t EXCEPT !.flags = @ \cup {"F_UPGRADE"}, !.header_state = "h_general"]
  <2>1. /\ q.http_errno = "OK" /\ q.state = "s_header_value" /\ q.header_state = "h_general"
        /\ q.flags = parser.flags \cup {"F_UPGRADE"} /\ q.content_length = parser.content_length
    BY <1>2 DEF Parser
  <2>2. Break(q)
    BY <1>4
  <2> HIDE DEF q
  <2> QED BY <1>4, <2>1, <2>2, ValueBegins
<1>5. ASSUME h = "h_content_length", IS_NUM(ch), MARK("header_value"), Break([t EXCEPT !.content_length = unhex(ch)])
      PROVE  LengthInv'
  <2> DEFINE q == [t EXCEPT !.content_length = unhex(ch)]
  <2>1. /\ q.http_errno = "OK" /\ q.state = "s_header_value" /\ q.header_state = h
        /\ q.flags = parser.flags /\ q.content_length = unhex(ch)
    BY <1>2 DEF Parser
  <2>2. Break(q)
    BY <1>5
  <2> HIDE DEF q
  <2> QED BY <1>5, <2>1, <2>2, ValueBegins
<1>6. ASSUME h # "h_content_length", MARK("header_value"), Break(t) PROVE LengthInv'
  BY <1>2, <1>6, ValueBegins
<1>7. \/ h = "h_content_length" /\ ~IS_NUM(ch) /\ Error(t, "INVALID_CONTENT_LENGTH")
      \/ /\ MARK("header_value")
         /\ \/ h = "h_content_length" /\ IS_NUM(ch) /\ Break([t EXCEPT !.content_length = unhex(ch)])
            \/ /\ h # "h_content_length"
               /\ \/ Break([t EXCEPT !.flags = @ \cup {"F_UPGRADE"}, !.header_state = "h_general"])
                  \/ Break([t EXCEPT !.header_state = IF ch = "chunked" THEN "h_transfer_encoding_chunked" ELSE "h_general"])
                  \/ Break([t EXCEPT !.header_state = Option(ch, "h_matching_connection_token")])
                  \/ Break(t)
                  \/ Break([t EXCEPT !.header_state = "h_general"])
  BY DEF ValueStart
<1>8. ASSUME h = "h_content_length", ~IS_NUM(ch), Error(t, "INVALID_CONTENT_LENGTH") PROVE LengthInv'
  BY <1>8, ValueRefused
<1> HIDE DEF h, t
<1>9. /\ Option(ch, "h_matching_connection_token") # "h_content_length"
      /\ (IF ch = "chunked" THEN "h_transfer_encoding_chunked" ELSE "h_general") # "h_content_length"
      /\ "h_general" # "h_content_length"
  BY OptionIsNoLength
<1> QED BY <1>3, <1>4, <1>5, <1>6, <1>7, <1>8, <1>9

LEMMA DiscardLength ==
  ASSUME ParserInv, LengthInv, HeaderValueDiscardWs \/ HeaderValueDiscardWsAlmostDone \/ HeaderValueStart PROVE LengthInv'
<1>1. pc = "switch" /\ pc # "done" /\ parser \in Parser
  BY InSwitch DEF HeaderValueDiscardWs, HeaderValueDiscardWsAlmostDone, HeaderValueStart, At
<1>2. CASE HeaderValueDiscardWs
  <2>1. parser.state = "s_header_value_discard_ws" /\ parser.state \in BeforeValue
        /\ "s_header_value_discard_ws_almost_done" \in BeforeValue /\ "s_header_value_discard_lws" \in BeforeValue
    BY <1>2 DEF HeaderValueDiscardWs, At, BeforeValue
  <2> QED BY <1>1, <1>2, <2>1, StillBefore, ValueStartLength DEF HeaderValueDiscardWs
<1>3. CASE HeaderValueDiscardWsAlmostDone
  <2>1. parser.state \in BeforeValue /\ "s_header_value_discard_lws" \in BeforeValue
    BY <1>3 DEF HeaderValueDiscardWsAlmostDone, At, BeforeValue
  <2> QED BY <1>1, <1>3, <2>1, StillBefore, LineErrors, LeavesLength DEF HeaderValueDiscardWsAlmostDone
<1>4. CASE HeaderValueStart
  BY <1>1, <1>4, ValueStartLength DEF HeaderValueStart, At
<1> QED BY <1>2, <1>3, <1>4

\* The end of a header: nothing is known but the length.
LEMMA HeaderIsOver ==
  ASSUME ParserInv, pc = "switch", parser.state \in KnownState \ {"s_header_value"}, Output,
         Reexecute([parser EXCEPT !.flags = @ \cup FlagOf(parser.header_state), !.state = "s_header_field_start"])
  PROVE  GoesOn
<1> DEFINE q == [parser EXCEPT !.flags = @ \cup FlagOf(parser.header_state), !.state = "s_header_field_start"]
<1>1. /\ q.http_errno = "OK" /\ q.state = "s_header_field_start" /\ q.flags = parser.flags \cup FlagOf(parser.header_state)
      /\ q.content_length = parser.content_length
  BY SwitchFacts DEF Parser
<1>2. Reexecute(q)
  OBVIOUS
<1> HIDE DEF q
<1>3. Plain(q)
  BY <1>1, QuietFacts DEF Plain, KeepsLength
<1> QED BY <1>2, <1>3 DEF GoesOn

LEMMA DiscardLwsLength == ASSUME ParserInv, LengthInv, HeaderValueDiscardLws PROVE LengthInv'
<1>1. pc = "switch" /\ parser.state = "s_header_value_discard_lws" /\ parser.state \in BeforeValue
      /\ "s_header_value_discard_ws" \in BeforeValue
  BY DEF HeaderValueDiscardLws, At, BeforeValue
<1>2. CASE ch \in {SP, TAB} /\ Break(To("s_header_value_discard_ws")) /\ Silent
  BY <1>1, <1>2, StillBefore
<1>3. CASE /\ Reexecute([parser EXCEPT !.flags = @ \cup FlagOf(parser.header_state), !.state = "s_header_field_start"])
           /\ calls' = Append(calls, [on |-> "header_value", at |-> p, length |-> 0])
  <2> DEFINE q == [parser EXCEPT !.flags = @ \cup FlagOf(parser.header_state), !.state = "s_header_field_start"]
             c == [on |-> "header_value", at |-> p, length |-> 0]
  <2>1. /\ q.http_errno = "OK" /\ q.state = "s_header_field_start" /\ q.flags = parser.flags \cup FlagOf(parser.header_state)
        /\ q.content_length = parser.content_length
    BY <1>1, SwitchFacts DEF Parser
  <2>2. parser' = q /\ data' = data /\ calls' = Append(calls, c) /\ c.on = "header_value" /\ c.length = 0
    BY <1>3 DEF Reexecute
  <2> HIDE DEF q, c
  <2>3. calls \in Seq(Call) /\ KnowsLength(data, calls, parser, parser.header_state)
    BY <1>1, SwitchReads
  <2>4. ~LengthField(data, calls', Len(calls))
    <3>1. calls'[Len(calls) + 1] = c
      BY <2>2, <2>3, OneMore
    <3> QED BY <2>2, <3>1 DEF LengthField
  <2>5. parser.state \in KnownState \ {"s_header_value"}
    BY <1>1, BeforeStates
  <2>6. "F_TRAILING" \notin parser.flags => Known(data, calls', parser.content_length)
    BY <2>2, <2>3, <2>4, <2>5, KnownStays DEF KnowsLength
  <2>7. Reads(data, calls', mark', parser', Local', p', pc')
    BY <2>1, <2>2, <2>6, QuietFacts, QuietReads
  <2> QED BY <1>1, <2>1, <2>2, <2>7, RunsOnWith
<1> QED BY <1>2, <1>3 DEF HeaderValueDiscardLws
-----------------------------------------------------------------------------
\* One more digit of a length: it is refused within one digit of the largest
\* value and nowhere else.
LEMMA DecimalDigit == ASSUME NEW c, IS_NUM(c) PROVE unhex(c) \in 0..9
<1>1. unhex(c) \in 0..15 /\ HexDigits[unhex(c) + 1] = c
  <2>1. PICK n \in 1..10 : HexDigits[n] = c
    BY DEF IS_NUM, Digit, HexDigits
  <2>2. n - 1 \in 0..15 /\ HexDigits[(n - 1) + 1] = c
    BY <2>1
  <2> QED BY <2>2 DEF unhex
<1> DEFINE d == unhex(c)
<1> HIDE DEF d
<1>2. d \in 10..15 => HexDigits[d + 1] \in {"a", "b", "c", "d", "e", "f"}
  BY DEF HexDigits
<1>3. d \in 0..15 /\ d \notin 10..15
  BY <1>1, <1>2 DEF d, IS_NUM, Digit
<1>4. d \in 0..9
  BY <1>3
<1> QED BY <1>4 DEF d

LEMMA Quotient == ASSUME NEW k \in Nat, NEW base \in {10, 16} PROVE k \div base \in Nat /\ base * (k \div base) <= k
                                                                   /\ k < base * (k \div base) + base
<1>1. k \div 10 \in Nat /\ 10 * (k \div 10) <= k /\ k < 10 * (k \div 10) + 10
  OBVIOUS
<1>2. k \div 16 \in Nat /\ 16 * (k \div 16) <= k /\ k < 16 * (k \div 16) + 16
  OBVIOUS
<1> QED BY <1>1, <1>2

LEMMA OneMoreDigit ==
  ASSUME parser \in Parser, NEW base \in {10, 16}, IS_HEX(ch), base = 10 => IS_NUM(ch)
  PROVE  IF Overflows(base) THEN base * parser.content_length + unhex(ch) + base > ULLONG_MAX
                            ELSE Shifted(base) = base * parser.content_length + unhex(ch)
<1> DEFINE m == ULLONG_MAX
           n == parser.content_length
           d == unhex(ch)
           k == (m - base) \div base
<1>1. m \in Nat /\ m >= 16 /\ n \in Nat /\ d \in 0..(base - 1) /\ base \in Nat
  BY DigitValue, DecimalDigit, WidthAssumption DEF Parser, Length
<1>2. m - base \in Nat
  BY <1>1
<1>3. k \in Nat /\ base * k <= m - base /\ m - base < base * k + base
  BY <1>2, Quotient
<1>4. Overflows(base) <=> k < n
  BY DEF Overflows
<1>5. Shifted(base) = (base * n + d) % (m + 1)
  BY DEF Shifted
<1> HIDE DEF m, n, d, k
<1>6. base = 10 \/ base = 16
  OBVIOUS
<1>7. CASE k < n
  <2>1. base * n >= base * k + base
    BY <1>1, <1>3, <1>6, <1>7
  <2> QED BY <1>1, <1>3, <1>4, <1>6, <1>7, <2>1 DEF m, n, d
<1>8. CASE ~(k < n)
  <2>1. base * n <= base * k
    BY <1>1, <1>3, <1>6, <1>8
  <2>2. base * n + d \in Nat /\ base * n + d <= m
    BY <1>1, <1>3, <1>6, <2>1
  <2>3. (base * n + d) % (m + 1) = base * n + d
    BY <1>1, <2>2, Remainder
  <2> QED BY <1>4, <1>5, <1>8, <2>3 DEF m, n, d
<1> QED BY <1>7, <1>8

\* The digits of a Content-Length in the loop over the value.
LEMMA LengthDigits ==
  ASSUME ParserInv, LengthInv, pc = "value", p < len, h_state = "h_content_length"
  PROVE  \E v \in 0..(p - 1) :
           /\ mark["header_value"] = v /\ OnlyWhite(data, calls, v)
           /\ \A i \in (v + 1)..p : IS_NUM(data[i]) \/ data[i] = SP
           /\ parser.content_length = Numeral(data, 10, v, p)
           /\ Numeral(data, 10, v, p + 1) = IF ch = SP THEN parser.content_length
                                            ELSE 10 * parser.content_length + unhex(ch)
<1>1. ReadsLength(data, calls, mark, parser, h_state, p) /\ p \in Nat /\ parser.state = "s_header_value" /\ mark \in Marks
  BY LoopReads, ValueFacts DEF ParserInv, Types
<1> DEFINE v == mark["header_value"]
<1>2. /\ v # NoMark /\ v < p /\ OnlyWhite(data, calls, v)
      /\ \A i \in (v + 1)..p : IS_NUM(data[i]) \/ data[i] = SP
      /\ parser.content_length = Numeral(data, 10, v, p)
  BY <1>1 DEF ReadsLength
<1>3. v \in Nat
  BY <1>1, <1>2 DEF Marks, Piece, Pos
<1>4. v \in 0..(p - 1)
  BY <1>1, <1>2, <1>3
<1> HIDE DEF v
<1>5. Numeral(data, 10, v, p + 1) = IF ch = SP THEN parser.content_length
                                    ELSE 10 * parser.content_length + unhex(ch)
  <2>1. v <= p
    BY <1>1, <1>2, <1>3
  <2>2. Numeral(data, 10, v, p + 1) = IF data[p + 1] = SP THEN Numeral(data, 10, v, p)
                                      ELSE 10 * Numeral(data, 10, v, p) + unhex(data[p + 1])
    BY <1>1, <1>3, <2>1, NumeralGrows
  <2> QED BY <1>2, <2>2 DEF ch
<1>6. mark["header_value"] = v
  BY DEF v
<1> QED BY <1>2, <1>4, <1>5, <1>6

\* The loop goes on over a value.
LEMMA LoopGoesOn ==
  ASSUME ParserInv, LengthInv, pc = "value", NEW q, parser' = q, q.http_errno = "OK", q.state = "s_header_value",
         "F_TRAILING" \in parser.flags => "F_TRAILING" \in q.flags,
         h_state' = "h_content_length" <=> h_state = "h_content_length",
         h_state # "h_content_length" => q.content_length = parser.content_length,
         data' = data, pc' = pc, Silent, h_state' = "h_content_length" => ReadsLength(data, calls, mark, q, h_state', p')
  PROVE  LengthInv'
<1>1. calls' = calls /\ mark' = mark /\ Local' = h_state'
  BY DEF Silent, outVars, Local
<1>2. ReadsLength(data, calls, mark', q, h_state', p')
  BY <1>1 DEF ReadsLength
<1>3. KnowsLength(data, calls, q, h_state')
  BY LoopReads DEF KnowsLength
<1>4. NameIsTold(data, calls, q, h_state', p', pc') /\ NameIsOne(data, mark', q, p')
  BY LoopReads, BeforeStates DEF NameIsTold, NameIsOne
<1>5. Reads(data, calls, mark', q, h_state', p', pc')
  BY <1>2, <1>3, <1>4, HeaderReads DEF InHeader
<1> QED BY <1>1, <1>5, RunsOn

LEMMA HeaderValueLength == ASSUME ParserInv, LengthInv, HeaderValue PROVE LengthInv'
<1>1. /\ pc = "switch" /\ parser.state = "s_header_value" /\ pc' = "value" /\ data' = data /\ p' = p /\ parser' = parser
      /\ mark' = mark /\ calls' = calls /\ h_state' = parser.header_state
  BY DEF HeaderValue, At, outVars
<1>2. Local' = parser.header_state /\ parser.http_errno = "OK"
  BY <1>1, SwitchFacts DEF Local
<1>3. NameIsTold(data, calls, parser, parser.header_state, p, "value")
  BY <1>1, SwitchReads, BeforeStates DEF NameIsTold
<1>4. Reads(data, calls, mark, parser, parser.header_state, p, "value")
  BY <1>1, <1>3, SwitchReads, HeaderReads DEF InHeader
<1> QED BY <1>1, <1>2, <1>4, RunsOn

LEMMA LeaveKeeps ==
  ASSUME ParserInv, pc = "value", NEW s \in State
  PROVE  LET c == Counted([To(s) EXCEPT !.header_state = h_state], p - start) IN
         /\ c.http_errno = "OK" /\ c.state = s /\ c.header_state = h_state /\ c.flags = parser.flags
         /\ c.content_length = parser.content_length
         /\ [c EXCEPT !.http_errno = "HEADER_OVERFLOW"].http_errno = "HEADER_OVERFLOW"
<1> DEFINE q == [To(s) EXCEPT !.header_state = h_state]
           c == Counted(q, p - start)
<1>1. /\ q \in Parser /\ q.http_errno = "OK" /\ q.state = s /\ q.header_state = h_state /\ q.flags = parser.flags
      /\ q.content_length = parser.content_length
  BY ValueFacts, ToFacts DEF Parser
<1>2. p - start \in Nat
  BY ValueFacts
<1> HIDE DEF q
<1>3. /\ c \in Parser /\ c.http_errno = "OK" /\ c.state = s /\ c.header_state = h_state /\ c.flags = parser.flags
      /\ c.content_length = parser.content_length
  BY <1>1, <1>2 DEF Counted, Parser
<1> HIDE DEF c
<1>4. [c EXCEPT !.http_errno = "HEADER_OVERFLOW"].http_errno = "HEADER_OVERFLOW"
  BY <1>3 DEF Parser
<1> USE DEF c, q
<1> QED BY <1>3, <1>4

\* The data end in a value.
LEMMA ValueEndLength == ASSUME ParserInv, LengthInv, ValueEndOfData PROVE LengthInv'
<1> DEFINE c == Counted([parser EXCEPT !.header_state = h_state], p - start)
<1>1. pc = "value" /\ p = len /\ Silent /\ LeaveValue(parser, p) /\ pc # "done"
  BY DEF ValueEndOfData, InValue
<1>2. parser \in Parser /\ parser.state = "s_header_value" /\ parser.state \in State
  BY <1>1, ValueFacts, ValueStates
<1>3. /\ c.http_errno = "OK" /\ c.state = "s_header_value" /\ c.header_state = h_state /\ c.flags = parser.flags
      /\ c.content_length = parser.content_length
      /\ [c EXCEPT !.http_errno = "HEADER_OVERFLOW"].http_errno = "HEADER_OVERFLOW"
  <2>1. To(parser.state) = parser
    BY <1>2 DEF To, Parser
  <2> QED BY <1>1, <1>2, <2>1, LeaveKeeps
<1>4. \/ parser' = [c EXCEPT !.http_errno = "HEADER_OVERFLOW"] /\ pc' = "done" /\ UNCHANGED <<data, p, localVars>>
      \/ parser' = c /\ p' = p /\ pc' = "next" /\ UNCHANGED <<data, localVars>>
  BY <1>1 DEF LeaveValue
<1> HIDE DEF c
<1>5. CASE parser' = [c EXCEPT !.http_errno = "HEADER_OVERFLOW"] /\ pc' = "done" /\ UNCHANGED <<data, p, localVars>>
  <2>1. Leaves
    BY <1>1, <1>3, <1>5 DEF Leaves, Silent, outVars
  <2> QED BY <1>1, <2>1, LeavesLength
<1>6. CASE parser' = c /\ p' = p /\ pc' = "next" /\ UNCHANGED <<data, localVars>>
  <2>1. data' = data /\ calls' = calls /\ mark' = mark /\ Local' = h_state
    BY <1>1, <1>3, <1>6 DEF Silent, outVars, Local
  <2>2. KnowsLength(data, calls, c, h_state)
    BY <1>1, <1>3, LoopReads DEF KnowsLength
  <2>3. NameIsTold(data, calls, c, h_state, p, "next") /\ NameIsOne(data, mark, c, p)
    BY <1>1, <1>3, LoopReads, BeforeStates DEF NameIsTold, NameIsOne
  <2>4. ReadsLength(data, calls, mark, c, h_state, p)
    BY <1>1, <1>2, <1>3, LoopReads DEF ReadsLength
  <2>5. Reads(data, calls, mark, c, h_state, p, "next")
    BY <1>3, <2>2, <2>3, <2>4, HeaderReads DEF InHeader
  <2> QED BY <1>1, <1>3, <1>6, <2>1, <2>5, RunsOn
<1> QED BY <1>4, <1>5, <1>6

\* A value is handed over: if it is that of Content-Length, it is the length.
LEMMA ReturnsWith ==
  ASSUME ParserInv, LengthInv, pc # "done", data' = data, NEW c, calls' = Append(calls, c), c.on # "body",
         pc' = "done", parser'.http_errno # "INVALID_CONTENT_LENGTH"
  PROVE  LengthInv'
<1>1. BodiesExact(data, calls) /\ calls \in Seq(Call)
  BY DEF LengthInv, ParserInv, Types
<1>2. BodiesExact(data, calls')
  BY <1>1, BodiesStay
<1>3. LengthIsExact'
  BY <1>2 DEF LengthIsExact, BodiesExact
<1> QED BY <1>3 DEF LengthInv

LEMMA ValueShown ==
  ASSUME ParserInv, LengthInv, pc = "value", p < len, Callback("header_value", p), data' = data,
         \/ /\ pc' \in {"next", "switch"} /\ parser'.http_errno = "OK"
            /\ parser'.state = "s_header_almost_done" /\ parser'.header_state = h_state
            /\ parser'.flags = parser.flags /\ parser'.content_length = parser.content_length
         \/ pc' = "done" /\ parser'.http_errno = "HEADER_OVERFLOW"
  PROVE  LengthInv'
<1> DEFINE v == mark["header_value"]
           c == [on |-> "header_value", at |-> v, length |-> p - v]
<1>1. /\ Shape(parser.state, p) /\ parser.state = "s_header_value" /\ p \in Nat
      /\ LengthName(data, calls, Len(calls)) <=> h_state = "h_content_length"
      /\ calls \in Seq(Call) /\ calls # <<>> /\ mark \in Marks
  BY ValueFacts, LoopReads DEF Types
<1>2. v # NoMark /\ v < p /\ v \in Nat
  <2>1. v # NoMark /\ v < p
    BY <1>1, ShapeFacts, ValueStates DEF Shape, Piece
  <2> QED BY <1>1, <2>1 DEF Marks, Piece, Pos
<1>3. calls' = Append(calls, c) /\ c.on = "header_value" /\ c.at = v /\ c.length = p - v
  BY <1>2 DEF Callback
<1>4. p - v > 0 /\ v + (p - v) = p
  BY <1>1, <1>2
<1>9. v = mark["header_value"]
  OBVIOUS
<1> HIDE DEF v, c
<1>5. CASE pc' = "done" /\ parser'.http_errno = "HEADER_OVERFLOW"
  BY <1>3, <1>5, ReturnsWith
<1>6. CASE /\ pc' \in {"next", "switch"} /\ parser'.http_errno = "OK"
           /\ parser'.state = "s_header_almost_done" /\ parser'.header_state = h_state
           /\ parser'.flags = parser.flags /\ parser'.content_length = parser.content_length
  <2>1. Local' = h_state /\ "s_header_almost_done" \in Ended
    BY <1>6, ValueStates DEF Local
  <2>2. Len(calls') = Len(calls) + 1 /\ Len(calls) \in Nat
    BY <1>1, <1>3, OneMore
  <2>3. CASE h_state = "h_content_length"
    <3>1. /\ LastLength(data, calls', Len(calls), Len(calls')) /\ Len(calls) \in 1..Len(calls')
          /\ LengthField(data, calls', Len(calls))
          /\ LengthShown(data, calls', Len(calls)) = Numeral(data, 10, c.at, c.at + c.length)
      BY <1>1, <1>3, <1>4, <2>3, LastIsNew
    <3>2. parser.content_length = Numeral(data, 10, v, p)
      BY <1>1, <1>9, <2>3, LoopReads DEF ReadsLength
    <3>3. Known(data, calls', parser.content_length)
      BY <1>3, <1>4, <3>1, <3>2 DEF Known, Says
    <3>4. LengthField(data, calls', Len(calls') - 1)
      BY <2>2, <3>1
    <3>5. NameIsTold(data, calls', parser', h_state, p', pc')
      BY <1>6, <2>1, <3>4, BeforeStates DEF NameIsTold
    <3>6. KnowsLength(data, calls', parser', h_state) /\ NameIsOne(data, mark', parser', p')
          /\ ReadsLength(data, calls', mark', parser', h_state, p')
      BY <1>6, <3>3 DEF KnowsLength, NameIsOne, ReadsLength
    <3>7. Reads(data, calls', mark', parser', h_state, p', pc')
      BY <1>6, <2>1, <3>5, <3>6, HeaderReads DEF InHeader
    <3> QED BY <1>3, <1>6, <2>1, <3>7, RunsOnWith
  <2>4. CASE h_state # "h_content_length"
    <3>1. ~LengthField(data, calls', Len(calls))
      <4>1. Len(calls) \in 1..Len(calls)
        BY <1>1, <2>2
      <4>2. LengthName(data, calls', Len(calls)) <=> LengthName(data, calls, Len(calls))
        BY <1>1, <1>3, <4>1, OneMore
      <4> QED BY <1>1, <2>4, <4>2 DEF LengthField
    <3>2. "F_TRAILING" \notin parser.flags => Known(data, calls', parser.content_length)
      BY <1>1, <1>3, <2>4, <3>1, LoopReads, KnownStays
    <3>3. NameIsTold(data, calls', parser', h_state, p', pc')
      BY <1>6, <2>1, <2>4, BeforeStates DEF NameIsTold
    <3>4. KnowsLength(data, calls', parser', h_state) /\ NameIsOne(data, mark', parser', p')
          /\ ReadsLength(data, calls', mark', parser', h_state, p')
      BY <1>6, <3>2 DEF KnowsLength, NameIsOne, ReadsLength
    <3>5. Reads(data, calls', mark', parser', h_state, p', pc')
      BY <1>6, <2>1, <3>3, <3>4, HeaderReads DEF InHeader
    <3> QED BY <1>3, <1>6, <2>1, <3>5, RunsOnWith
  <2> QED BY <2>3, <2>4
<1> QED BY <1>5, <1>6

\* The line ends behind a value.
LEMMA ValueLineLength == ASSUME ParserInv, LengthInv, ValueCR \/ ValueLF PROVE LengthInv'
<1>1. pc = "value" /\ p < len /\ pc # "done"
  BY DEF ValueCR, ValueLF, InValue
<1>2. parser \in Parser /\ parser.http_errno = "OK" /\ p - start \in Nat /\ h_state \in HeaderState
      /\ "s_header_almost_done" \in State
  BY <1>1, ValueFacts, ValueStates
<1>3. CASE ValueCR
  <2> DEFINE c == Counted([To("s_header_almost_done") EXCEPT !.header_state = h_state], p - start)
  <2>1. /\ c.http_errno = "OK" /\ c.state = "s_header_almost_done" /\ c.header_state = h_state /\ c.flags = parser.flags
        /\ c.content_length = parser.content_length
        /\ [c EXCEPT !.http_errno = "HEADER_OVERFLOW"].http_errno = "HEADER_OVERFLOW"
    BY <1>1, <1>2, LeaveKeeps
  <2>2. /\ Callback("header_value", p)
        /\ \/ parser' = [c EXCEPT !.http_errno = "HEADER_OVERFLOW"] /\ pc' = "done" /\ data' = data
           \/ parser' = c /\ pc' = "next" /\ data' = data
    BY <1>3 DEF ValueCR, LeaveValue
  <2> HIDE DEF c
  <2> QED BY <1>1, <2>1, <2>2, ValueShown
<1>4. CASE ValueLF
  <2> DEFINE t == To("s_header_almost_done")
             q == Counted(t, p - start)
             r == [q EXCEPT !.header_state = h_state]
  <2>1. Error(q, "HEADER_OVERFLOW") \/ (Callback("header_value", p) /\ Reexecute(r))
    BY <1>4 DEF ValueLF
  <2>2. /\ t \in Parser /\ t.http_errno = "OK" /\ t.state = "s_header_almost_done" /\ t.flags = parser.flags
        /\ t.content_length = parser.content_length
    BY <1>2, ToFacts
  <2> HIDE DEF t
  <2>3. /\ q \in Parser /\ q.http_errno = "OK" /\ q.state = "s_header_almost_done" /\ q.flags = parser.flags
        /\ q.content_length = parser.content_length
    BY <1>2, <2>2 DEF Counted, Parser
  <2> HIDE DEF q
  <2>4. /\ r.http_errno = "OK" /\ r.state = "s_header_almost_done" /\ r.flags = parser.flags
        /\ r.content_length = parser.content_length /\ r.header_state = h_state
    BY <1>2, <2>3 DEF Parser
  <2> HIDE DEF r
  <2>5. CASE Error(q, "HEADER_OVERFLOW")
    BY <1>1, <2>3, <2>5, LoopErrors, ErrorLeaves, LeavesLength
  <2>6. CASE Callback("header_value", p) /\ Reexecute(r)
    <3>1. parser' = r /\ pc' = "switch" /\ data' = data
      BY <2>6 DEF Reexecute
    <3> QED BY <1>1, <2>4, <2>6, <3>1, ValueShown
  <2> QED BY <2>1, <2>5, <2>6
<1> QED BY <1>3, <1>4

\* Inside a value.
LEMMA ValueSkippedLength == ASSUME ParserInv, LengthInv, ValueSkipped PROVE LengthInv'
<1>1. pc = "value" /\ h_state = "h_general" /\ UNCHANGED <<data, pc, parser, h_state>> /\ Silent
  BY DEF ValueSkipped, InValue, Silent, localVars
<1>2. parser.http_errno = "OK" /\ parser.state = "s_header_value"
  BY <1>1, ValueFacts
<1> QED BY <1>1, <1>2, LoopGoesOn

LEMMA WordIsNoLength ==
  ASSUME ValueWord, h_state # "h_content_length" PROVE h_state' # "h_content_length"
<1>1. PICK c : c = LOWER(ch)
  OBVIOUS
<1>2. PICK o : o = IF TOKEN(c) THEN "h_matching_connection_token"
                   ELSE IF c \in {SP, TAB} THEN h_state ELSE "h_general"
  OBVIOUS
<1>3. h_state' \in {Option(c, o), "h_matching_connection_token", h_state, "h_general", "h_matching_connection_token_start"}
  BY <1>1, <1>2 DEF ValueWord
<1>4. Option(c, o) # "h_content_length"
  BY <1>2, OptionIsNoLength
<1> QED BY <1>3, <1>4

LEMMA ValueWordLength == ASSUME ParserInv, LengthInv, ValueWord PROVE LengthInv'
<1> DEFINE g == parser.flags \cup (IF ch = "," /\ h_state # "h_transfer_encoding_chunked" THEN FlagOf(h_state) ELSE {})
           q == [parser EXCEPT !.flags = g]
<1>1. pc = "value" /\ h_state # "h_content_length" /\ parser' = q /\ data' = data /\ pc' = pc /\ Silent
  BY DEF ValueWord, InValue, Silent
<1>2. "F_TRAILING" \in parser.flags => "F_TRAILING" \in g
  OBVIOUS
<1> HIDE DEF g
<1>3. q.http_errno = "OK" /\ q.state = "s_header_value" /\ q.flags = g /\ q.content_length = parser.content_length
  BY <1>1, ValueFacts DEF Parser
<1> HIDE DEF q
<1>4. h_state' # "h_content_length"
  BY <1>1, WordIsNoLength
<1> QED BY <1>1, <1>2, <1>3, <1>4, LoopGoesOn

LEMMA ValueDigitLength == ASSUME ParserInv, LengthInv, ValueDigit PROVE LengthInv'
<1>1. /\ pc = "value" /\ pc # "done" /\ p < len /\ h_state = "h_content_length" /\ parser \in Parser /\ p \in Nat
      /\ parser.http_errno = "OK" /\ parser.state = "s_header_value"
      /\ LengthName(data, calls, Len(calls)) /\ calls # <<>>
  BY ValueFacts, LoopReads DEF ValueDigit, InValue
<1>2. PICK v \in 0..(p - 1) :
        /\ mark["header_value"] = v /\ OnlyWhite(data, calls, v)
        /\ \A i \in (v + 1)..p : IS_NUM(data[i]) \/ data[i] = SP
        /\ parser.content_length = Numeral(data, 10, v, p)
        /\ Numeral(data, 10, v, p + 1) = IF ch = SP THEN parser.content_length
                                         ELSE 10 * parser.content_length + unhex(ch)
  BY <1>1, LengthDigits
<1>3. v \in Nat /\ v < p + 1 /\ v # NoMark /\ v \in 0..p
  BY <1>1 DEF NoMark
<1>4. ASSUME NEW q, q.state = "s_header_value", q.content_length = Numeral(data, 10, v, p + 1), IS_NUM(ch) \/ ch = SP
      PROVE  ReadsLength(data, calls, mark, q, "h_content_length", p + 1)
  <2>1. \A i \in (v + 1)..(p + 1) : i = p + 1 \/ i \in (v + 1)..p
    BY <1>1, <1>3
  <2>2. \A i \in (v + 1)..(p + 1) : IS_NUM(data[i]) \/ data[i] = SP
    BY <1>2, <1>4, <2>1 DEF ch
  <2> QED BY <1>2, <1>3, <1>4, <2>2 DEF ReadsLength
<1>5. ~IS_NUM(SP)
  BY DEF IS_NUM, Digit, SP
<1>6. CASE ch = SP /\ p' = p + 1 /\ UNCHANGED <<data, pc, parser, outVars, localVars>>
  <2>1. UNCHANGED <<data, pc, parser, h_state>> /\ Silent
    BY <1>6 DEF localVars, Silent
  <2>2. ReadsLength(data, calls, mark, parser, "h_content_length", p + 1)
    BY <1>1, <1>2, <1>4, <1>6
  <2> QED BY <1>1, <1>6, <2>1, <2>2, LoopGoesOn
<1>7. ASSUME LengthRefused(data, calls, p), Error([parser EXCEPT !.header_state = h_state], "INVALID_CONTENT_LENGTH")
      PROVE  LengthInv'
  <2>1. data' = data /\ calls' = calls /\ pc' = "done" /\ p' = p
    BY <1>7 DEF Error, outVars
  <2> QED BY <1>1, <1>7, <2>1, ReturnsLength
<1>8. ASSUME IS_NUM(ch) => Numeral(data, 10, v, p + 1) + 10 > ULLONG_MAX PROVE LengthRefused(data, calls, p)
  BY <1>1, <1>2, <1>3, <1>8 DEF LengthRefused, ch
<1>9. IS_NUM(ch) => IS_HEX(ch) /\ ch # SP
  BY <1>5, DigitValue
<1>10. CASE IS_NUM(ch) /\ Overflows(10) /\ Error([parser EXCEPT !.header_state = h_state], "INVALID_CONTENT_LENGTH")
  BY <1>1, <1>2, <1>7, <1>8, <1>9, <1>10, OneMoreDigit
<1>11. CASE /\ IS_NUM(ch) /\ ~Overflows(10)
            /\ parser' = [parser EXCEPT !.content_length = Shifted(10)] /\ p' = p + 1
            /\ UNCHANGED <<data, pc, outVars, localVars>>
  <2> DEFINE n == Shifted(10)
             q == [parser EXCEPT !.content_length = n]
  <2>1. n = 10 * parser.content_length + unhex(ch)
    BY <1>1, <1>9, <1>11, OneMoreDigit
  <2>2. UNCHANGED <<data, pc, h_state>> /\ Silent /\ parser' = q
    BY <1>11 DEF localVars, Silent
  <2> HIDE DEF n
  <2>3. /\ q.http_errno = "OK" /\ q.state = "s_header_value" /\ q.content_length = n /\ q.flags = parser.flags
    BY <1>1 DEF Parser
  <2> HIDE DEF q
  <2>4. ReadsLength(data, calls, mark, q, "h_content_length", p + 1)
    BY <1>2, <1>4, <1>9, <1>11, <2>1, <2>3
  <2> QED BY <1>1, <1>11, <2>2, <2>3, <2>4, LoopGoesOn
<1>12. CASE ~IS_NUM(ch) /\ Error([parser EXCEPT !.header_state = h_state], "INVALID_CONTENT_LENGTH")
  BY <1>7, <1>8, <1>12
<1> QED BY <1>6, <1>10, <1>11, <1>12 DEF ValueDigit

\* Behind a value.
LEMMA HeaderAlmostDoneLength == ASSUME ParserInv, LengthInv, HeaderAlmostDone PROVE LengthInv'
<1>1. pc = "switch" /\ pc # "done" /\ parser.state = "s_header_almost_done" /\ parser.state \in Ended
      /\ "s_header_value_lws" \in Ended /\ "s_header_value_lws" \in State
  BY DEF HeaderAlmostDone, At, Ended, State, HeaderPartState
<1>2. parser \in Parser /\ parser.http_errno = "OK"
  BY <1>1, SwitchFacts
<1>3. CASE Break(To("s_header_value_lws")) /\ Silent
  <2> DEFINE q == To("s_header_value_lws")
             h == parser.header_state
  <2>1. /\ q.http_errno = "OK" /\ q.state = "s_header_value_lws" /\ q.header_state = h /\ q.flags = parser.flags
        /\ q.content_length = parser.content_length
    BY <1>1, <1>2, ToFacts
  <2>2. data' = data /\ calls' = calls /\ mark' = mark /\ p' = p + 1 /\ pc' = "next" /\ parser' = q
    BY <1>3 DEF Break, Silent, outVars
  <2> HIDE DEF q, h
  <2>3. Local' = h
    BY <2>1, <2>2 DEF Local
  <2>4. NameIsTold(data, calls, q, h, p + 1, "next")
    BY <1>1, <2>1, SwitchReads, BeforeStates DEF NameIsTold, h
  <2>5. KnowsLength(data, calls, q, h) /\ NameIsOne(data, mark, q, p + 1) /\ ReadsLength(data, calls, mark, q, h, p + 1)
    BY <1>1, <2>1, SwitchReads, BeforeStates DEF KnowsLength, NameIsOne, ReadsLength
  <2>6. Reads(data, calls, mark, q, h, p + 1, "next")
    BY <1>1, <2>1, <2>4, <2>5, HeaderReads DEF InHeader
  <2> QED BY <1>1, <2>1, <2>2, <2>3, <2>6, RunsOn
<1>4. CASE Error(parser, "STRICT")
  BY <1>1, <1>4, LineErrors, LeavesLength
<1> QED BY <1>3, <1>4 DEF HeaderAlmostDone

LEMMA HeaderValueLwsLength == ASSUME ParserInv, LengthInv, HeaderValueLws PROVE LengthInv'
<1>1. pc = "switch" /\ pc # "done" /\ parser.state = "s_header_value_lws" /\ parser.state \in Ended
      /\ "s_header_value_start" \in State
  BY DEF HeaderValueLws, At, Ended, State, HeaderPartState
<1>2. parser \in Parser /\ parser.http_errno = "OK" /\ Shape(parser.state, p) /\ p \in Nat
  BY <1>1, SwitchFacts
<1>3. CASE ch \in {SP, TAB} /\ Reexecute(To("s_header_value_start")) /\ Silent
  <2> DEFINE q == To("s_header_value_start")
             h == parser.header_state
  <2>1. /\ q.http_errno = "OK" /\ q.state = "s_header_value_start" /\ q.header_state = h /\ q.flags = parser.flags
        /\ q.content_length = parser.content_length
    BY <1>1, <1>2, ToFacts
  <2>2. data' = data /\ calls' = calls /\ mark' = mark /\ p' = p /\ pc' = "switch" /\ parser' = q
    BY <1>3 DEF Reexecute, Silent, outVars
  <2> HIDE DEF q, h
  <2>3. Local' = h
    BY <2>1, <2>2 DEF Local
  <2>4. calls[Len(calls)].on = "header_value"
    BY <1>1, <1>2, ShapeFacts DEF LastOn
  <2>5. NameIsTold(data, calls, q, h, p, "switch")
    BY <1>1, <1>3, <2>1, <2>4, SwitchReads, BeforeStates DEF NameIsTold, h, ch
  <2>6. KnowsLength(data, calls, q, h) /\ NameIsOne(data, mark, q, p) /\ ReadsLength(data, calls, mark, q, h, p)
    BY <1>1, <2>1, SwitchReads, BeforeStates DEF KnowsLength, NameIsOne, ReadsLength
  <2>7. Reads(data, calls, mark, q, h, p, "switch")
    BY <2>1, <2>5, <2>6, HeaderReads DEF InHeader
  <2> QED BY <1>1, <2>1, <2>2, <2>3, <2>7, RunsOn
<1>4. CASE /\ Reexecute([parser EXCEPT !.flags = @ \cup FlagOf(parser.header_state), !.state = "s_header_field_start"])
           /\ Silent
  BY <1>1, <1>4, BeforeStates, Outputs, HeaderIsOver, GoesOnLength
<1> QED BY <1>3, <1>4 DEF HeaderValueLws

LEMMA HeaderLength == ASSUME ParserInv, LengthInv, Header PROVE LengthInv'
  BY HeaderFieldStartLength, HeaderFieldLength, DiscardLength, DiscardLwsLength, HeaderValueLength, ValueEndLength,
     ValueLineLength, ValueSkippedLength, ValueDigitLength, ValueWordLength, HeaderAlmostDoneLength, HeaderValueLwsLength
     DEF Header
-----------------------------------------------------------------------------
\* The end of the headers.
LEMMA HeadersAlmostDoneLength == ASSUME ParserInv, LengthInv, HeadersAlmostDone PROVE LengthInv'
<1>1. pc = "switch" /\ pc # "done" /\ parser.state = "s_headers_almost_done" /\ parser \in Parser
      /\ parser.state \in KnownState \ {"s_header_value"}
  BY InSwitch, QuietFacts DEF HeadersAlmostDone, At, Quiet, Calm, Begins
<1>2. CASE Error(parser, "STRICT")
  BY <1>1, <1>2, LineErrors, LeavesLength
<1>3. CASE Reexecute(To("s_message_done")) /\ Silent
  <2> DEFINE q == To("s_message_done")
  <2>1. q.http_errno = "OK" /\ q.state = "s_message_done"
    BY <1>1, SwitchFacts DEF To, Parser
  <2>2. Reexecute(q)
    BY <1>3
  <2> HIDE DEF q
  <2>3. "s_message_done" \notin Busy /\ "s_message_done" \notin KnownState
    BY DEF Busy, BeforeValue, Ended, ChunkState, KnownState, HeaderPartState, UrlState
  <2>4. Plain(q)
    BY <2>1, <2>3 DEF Plain, KeepsLength
  <2>5. GoesOn
    BY <1>3, <2>2, <2>4, Outputs DEF GoesOn
  <2> QED BY <1>1, <2>5, GoesOnLength
<1>4. ASSUME NEW u, Reexecute([parser EXCEPT !.state = "s_headers_done", !.upgrade = u]), Silent,
             "F_TRAILING" \notin parser.flags
      PROVE  LengthInv'
  <2> DEFINE q == [parser EXCEPT !.state = "s_headers_done", !.upgrade = u]
  <2>1. /\ q.http_errno = "OK" /\ q.state = "s_headers_done" /\ q.flags = parser.flags
        /\ q.content_length = parser.content_length
    BY <1>1, SwitchFacts DEF Parser
  <2>2. data' = data /\ calls' = calls /\ parser' = q
    BY <1>4 DEF Reexecute, Silent, outVars
  <2> HIDE DEF q
  <2>3. Known(data, calls, q.content_length)
    BY <1>1, <1>4, <2>1, SwitchReads DEF KnowsLength
  <2>4. KnowsLength(data, calls, q, Local') /\ NotTrailing(q)
    BY <1>4, <2>1, <2>3 DEF KnowsLength, NotTrailing
  <2>5. NameIsOne(data, mark', q, p') /\ NameIsTold(data, calls, q, Local', p', pc') /\ ReadsLength(data, calls, mark', q, Local', p')
    BY <2>1 DEF NameIsOne, NameIsTold, ReadsLength, BeforeValue, Ended
  <2>6. ReadsBody(data, calls, mark', q, p', pc') /\ ReadsSize(data, q, p') /\ ReadsChunk(data, mark', q, p', pc')
    BY <2>1 DEF ReadsBody, ReadsSize, ReadsChunk
  <2>7. Reads(data, calls, mark', q, Local', p', pc')
    BY <2>4, <2>5, <2>6 DEF Reads
  <2> QED BY <1>1, <2>1, <2>2, <2>7, RunsOn
<1> QED BY <1>2, <1>3, <1>4 DEF HeadersAlmostDone

\* The states of a body.
InBody == (ChunkState \ {"s_chunk_data_done"}) \cup {"s_body_identity"}

LEMMA BodyReads ==
  ASSUME NEW text, NEW shown, NEW m, NEW q, NEW h, NEW n, NEW c, q.state \in InBody,
         ReadsBody(text, shown, m, q, n, c), ReadsSize(text, q, n), ReadsChunk(text, m, q, n, c)
  PROVE  Reads(text, shown, m, q, h, n, c)
<1>1. KnowsLength(text, shown, q, h) /\ NotTrailing(q) /\ NameIsOne(text, m, q, n) /\ NameIsTold(text, shown, q, h, n, c)
      /\ ReadsLength(text, shown, m, q, h, n)
  <2>1. /\ q.state \notin KnownState
        /\ q.state \notin {"s_header_field", "s_header_value", "s_header_value_start", "s_headers_done"} \cup BeforeValue \cup Ended
    BY DEF InBody, ChunkState, KnownState, HeaderPartState, UrlState, BeforeValue, Ended
  <2> QED BY <2>1 DEF KnowsLength, NotTrailing, NameIsOne, NameIsTold, ReadsLength
<1> QED BY <1>1 DEF Reads

LEMMA QuietGoesOn ==
  ASSUME ParserInv, LengthInv, pc = "switch", NEW q, q.http_errno = "OK", q.state \notin Busy, q.state \notin KnownState,
         parser' = q, data' = data, calls' = calls
  PROVE  LengthInv'
<1>1. Reads(data, calls, mark', q, Local', p', pc')
  BY QuietReads
<1>2. pc # "done"
  OBVIOUS
<1> QED BY <1>1, <1>2, RunsOn

LEMMA NextMessage == \A q : NEW_MESSAGE(q) \in Begins /\ NEW_MESSAGE(q) \notin Busy /\ NEW_MESSAGE(q) \notin KnownState
<1>1. \A q : NEW_MESSAGE(q) \in Begins
  BY DEF NEW_MESSAGE, Begins
<1> QED BY <1>1, QuietFacts

LEMMA HeadersDoneLength == ASSUME ParserInv, LengthInv, HeadersDone PROVE LengthInv'
<1> DEFINE q == [parser EXCEPT !.nread = 0]
<1>1. pc = "switch" /\ pc # "done" /\ parser.state = "s_headers_done" /\ parser \in Parser /\ parser.http_errno = "OK"
      /\ p \in Nat /\ p < len
  BY SwitchFacts DEF HeadersDone, At
<1>2. q \in Parser /\ q.http_errno = "OK" /\ q.content_length = parser.content_length
  BY <1>1 DEF Parser
<1>3. \/ Error(parser, "STRICT")
      \/ Return([q EXCEPT !.state = NEW_MESSAGE(q)]) /\ Silent
      \/ /\ ch = LF /\ Silent
         /\ \E s : /\ Break([q EXCEPT !.state = s])
                   /\ s \in {"s_chunk_size_start", "s_body_identity_eof", NEW_MESSAGE(q)}
                        \/ (s = "s_body_identity" /\ q.content_length \notin {0, ULLONG_MAX})
  <2> DEFINE hasBody == "F_CHUNKED" \in q.flags \/ q.content_length \notin {0, ULLONG_MAX}
             body == CASE "F_CHUNKED" \in q.flags -> "s_chunk_size_start"
                       [] "F_CHUNKED" \notin q.flags /\ q.content_length \notin {0, ULLONG_MAX} -> "s_body_identity"
                       [] ~hasBody /\ q.content_length # 0 /\ http_message_needs_eof(q) -> "s_body_identity_eof"
                       [] OTHER -> NEW_MESSAGE(q)
  <2>1. \/ Error(parser, "STRICT")
        \/ Return([q EXCEPT !.state = NEW_MESSAGE(q)]) /\ Silent
        \/ ch = LF /\ Break([q EXCEPT !.state = body]) /\ Silent
    BY DEF HeadersDone
  <2> HIDE DEF q
  <2>2. body \in {"s_chunk_size_start", "s_body_identity_eof", NEW_MESSAGE(q)}
          \/ (body = "s_body_identity" /\ q.content_length \notin {0, ULLONG_MAX})
    BY DEF body
  <2> HIDE DEF body
  <2> QED BY <2>1, <2>2
<1> HIDE DEF q
<1>4. CASE Error(parser, "STRICT")
  BY <1>1, <1>4, LineErrors, LeavesLength
<1>5. CASE Return([q EXCEPT !.state = NEW_MESSAGE(q)]) /\ Silent
  <2>1. [q EXCEPT !.state = NEW_MESSAGE(q)].http_errno = "OK"
    BY <1>2 DEF Parser
  <2>2. Leaves
    BY <1>5, <2>1 DEF Leaves, Return, Silent, outVars
  <2> QED BY <1>1, <2>2, LeavesLength
<1>6. ASSUME NEW s, ch = LF, Silent, Break([q EXCEPT !.state = s]),
             s \in {"s_chunk_size_start", "s_body_identity_eof", NEW_MESSAGE(q)}
               \/ (s = "s_body_identity" /\ q.content_length \notin {0, ULLONG_MAX})
      PROVE  LengthInv'
  <2> DEFINE r == [q EXCEPT !.state = s]
  <2>1. r.http_errno = "OK" /\ r.state = s /\ r.content_length = parser.content_length
    BY <1>2 DEF Parser
  <2>2. parser' = r /\ data' = data /\ calls' = calls /\ mark' = mark /\ p' = p + 1 /\ pc' = "next"
    BY <1>6 DEF Break, Silent, outVars
  <2> HIDE DEF r
  <2>3. CASE s \in {"s_body_identity_eof", NEW_MESSAGE(q)}
    <3>1. "s_body_identity_eof" \notin Busy /\ "s_body_identity_eof" \notin KnownState
      BY DEF Busy, BeforeValue, Ended, ChunkState, KnownState, HeaderPartState, UrlState
    <3> QED BY <1>1, <2>1, <2>2, <2>3, <3>1, NextMessage, QuietGoesOn
  <2>4. CASE s = "s_chunk_size_start"
    <3>1. ReadsSize(data, r, p + 1)
      BY <1>1, <1>6, <2>1, <2>4 DEF ReadsSize, ch
    <3>2. ReadsBody(data, calls, mark, r, p + 1, "next") /\ ReadsChunk(data, mark, r, p + 1, "next")
      BY <2>1, <2>4 DEF ReadsBody, ReadsChunk
    <3>3. Reads(data, calls, mark, r, Local', p + 1, "next")
      BY <2>1, <2>4, <3>1, <3>2, BodyReads DEF InBody, ChunkState
    <3> QED BY <1>1, <2>1, <2>2, <3>3, RunsOn
  <2>5. CASE s = "s_body_identity" /\ q.content_length \notin {0, ULLONG_MAX}
    <3>1. \E i \in 1..Len(calls) : Says(data, calls, r.content_length, i)
      <4>1. "s_headers_done" \in KnownState
        BY DEF KnownState, HeaderPartState, ChunkState
      <4>2. Known(data, calls, parser.content_length)
        BY <1>1, <4>1, SwitchReads DEF KnowsLength, NotTrailing
      <4> QED BY <1>2, <2>1, <2>5, <4>2 DEF Known
    <3>2. mark["body"] = NoMark
      BY <1>1, CalmFacts, NothingOpen DEF Calm, Piece
    <3>3. ReadsBody(data, calls, mark, r, p + 1, "next")
      BY <3>1, <3>2 DEF ReadsBody
    <3>4. ReadsSize(data, r, p + 1) /\ ReadsChunk(data, mark, r, p + 1, "next")
      BY <2>1, <2>5 DEF ReadsSize, ReadsChunk
    <3>5. Reads(data, calls, mark, r, Local', p + 1, "next")
      BY <2>1, <2>5, <3>3, <3>4, BodyReads DEF InBody
    <3> QED BY <1>1, <2>1, <2>2, <3>5, RunsOn
  <2> QED BY <1>6, <2>3, <2>4, <2>5
<1> QED BY <1>3, <1>4, <1>5, <1>6

\* The rest of the packet is the body, and the end of a message.
LEMMA BodyEofLength == ASSUME ParserInv, LengthInv, BodyIdentityEof PROVE LengthInv'
<1>1. pc = "switch" /\ parser.state = "s_body_identity_eof" /\ data' = data /\ calls' = calls /\ parser' = parser
      /\ parser.http_errno = "OK"
  BY SwitchFacts DEF BodyIdentityEof, At, MARK
<1>2. "s_body_identity_eof" \notin Busy /\ "s_body_identity_eof" \notin KnownState
  BY DEF Busy, BeforeValue, Ended, ChunkState, KnownState, HeaderPartState, UrlState
<1> QED BY <1>1, <1>2, QuietGoesOn

LEMMA MessageDoneLength == ASSUME ParserInv, LengthInv, MessageDone PROVE LengthInv'
<1> DEFINE q == To(NEW_MESSAGE(parser))
<1>1. pc = "switch" /\ pc # "done" /\ parser \in Parser /\ parser.http_errno = "OK"
  BY SwitchFacts DEF MessageDone, At
<1>2. q.http_errno = "OK" /\ q.state = NEW_MESSAGE(parser)
  BY <1>1 DEF To, Parser
<1>3. (Return(q) \/ Break(q)) /\ Silent
  BY DEF MessageDone
<1> HIDE DEF q
<1>4. CASE Return(q)
  <2>1. Leaves
    BY <1>2, <1>3, <1>4 DEF Leaves, Return, Silent, outVars
  <2> QED BY <1>1, <2>1, LeavesLength
<1>5. CASE Break(q)
  <2>1. parser' = q /\ data' = data /\ calls' = calls
    BY <1>3, <1>5 DEF Break, Silent, outVars
  <2> QED BY <1>1, <1>2, <2>1, NextMessage, QuietGoesOn
<1> QED BY <1>3, <1>4, <1>5

\* A body with a length.
LEMMA MarkBody ==
  ASSUME ParserInv, pc = "switch", parser.state \in {"s_body_identity", "s_chunk_data"}, mark["body"] = NoMark, MARK("body")
  PROVE  mark'["body"] = p /\ p # NoMark /\ calls' = calls
<1>1. mark \in Marks /\ p \in Nat
  BY SwitchFacts DEF Types
<1> QED BY <1>1 DEF MARK, Marks, Piece, NoMark

LEMMA BodyIdentityLength == ASSUME ParserInv, LengthInv, BodyIdentity PROVE LengthInv'
<1> DEFINE n == ToRead
           l == parser.content_length
           q == [parser EXCEPT !.content_length = l - n]
<1>1. pc = "switch" /\ pc # "done" /\ parser.state = "s_body_identity"
  BY DEF BodyIdentity, At
<1>2. /\ parser \in Parser /\ parser.http_errno = "OK" /\ p \in Nat /\ len \in Nat /\ p < len /\ Control(parser)
      /\ ReadsBody(data, calls, mark, parser, p, "switch") /\ calls \in Seq(Call) /\ len = Len(data)
  BY <1>1, SwitchFacts, SwitchReads
<1>3. mark["body"] = NoMark /\ \E i \in 1..Len(calls) : Says(data, calls, l, i)
  BY <1>1, <1>2 DEF ReadsBody
<1>4. PICK i \in 1..Len(calls) : LastLength(data, calls, i, Len(calls)) /\ l = LengthShown(data, calls, i)
  BY <1>3 DEF Says
<1>5. /\ l \in Nat /\ n \in Nat /\ n <= l /\ n <= len - p /\ n = IF l < len - p THEN l ELSE len - p
  BY <1>1, <1>2, ToReadFacts DEF Control, ToRead
<1>6. \/ /\ q.content_length = 0
         /\ calls' = Append(calls, [on |-> "body", at |-> p, length |-> p + n - p])
         /\ parser' = [q EXCEPT !.state = "s_message_done"]
         /\ data' = data /\ pc' = "switch"
      \/ /\ q.content_length # 0 /\ MARK("body") /\ parser' = q /\ p' = p + n /\ pc' = "next" /\ data' = data
  BY <1>3 DEF BodyIdentity
<1> HIDE DEF l, n
<1>7. q.http_errno = "OK" /\ q.state = "s_body_identity" /\ q.content_length = l - n
  BY <1>1, <1>2 DEF Parser
<1>8. CASE /\ q.content_length = 0
           /\ calls' = Append(calls, [on |-> "body", at |-> p, length |-> p + n - p])
           /\ parser' = [q EXCEPT !.state = "s_message_done"]
           /\ data' = data /\ pc' = "switch"
  <2> DEFINE c == [on |-> "body", at |-> p, length |-> p + n - p]
  <2>1. c.on = "body" /\ c.at = p /\ c.length = p + n - p /\ calls' = Append(calls, c)
    BY <1>8
  <2> HIDE DEF c
  <2>2. p + n - p = n
    BY <1>2, <1>5
  <2>3. Fills(data, c, l)
    BY <1>2, <1>5, <2>1, <2>2 DEF Fills
  <2>4. Len(calls') = Len(calls) + 1 /\ Len(calls) \in Nat /\ calls'[Len(calls')] = c
    BY <1>2, <2>1, OneMore
  <2>5. ~LengthField(data, calls', Len(calls))
    BY <1>2, <2>1, NoField
  <2>6. LastLength(data, calls', i, Len(calls')) /\ LengthShown(data, calls', i) = l
    BY <1>2, <1>4, <2>1, <2>5, LastStays
  <2>7. BodyIsExact(data, calls', Len(calls'))
    BY <2>3, <2>4, <2>6 DEF BodyIsExact
  <2>8. parser'.http_errno = "OK" /\ parser'.state = "s_message_done"
    <3>1. q \in [DOMAIN q -> UNION {{q[f]} : f \in DOMAIN q}] /\ DOMAIN q = DOMAIN parser
      OBVIOUS
    <3> QED BY <1>2, <1>7, <1>8 DEF Parser
  <2>9. "s_message_done" \notin Busy /\ "s_message_done" \notin KnownState
    BY DEF Busy, BeforeValue, Ended, ChunkState, KnownState, HeaderPartState, UrlState
  <2>10. Reads(data, calls', mark', parser', Local', p', pc')
    BY <2>8, <2>9, QuietReads
  <2> QED BY <1>1, <1>8, <2>1, <2>7, <2>8, <2>10, RunsOnWith
<1>9. CASE /\ q.content_length # 0 /\ MARK("body") /\ parser' = q /\ p' = p + n /\ pc' = "next" /\ data' = data
  <2>1. l > len - p /\ p + n = len
    BY <1>2, <1>5, <1>7, <1>9
  <2>2. mark'["body"] = p /\ p # NoMark /\ calls' = calls
    BY <1>1, <1>3, <1>9, MarkBody
  <2> HIDE DEF q
  <2>3. ReadsBody(data, calls, mark', q, p + n, "next")
    BY <1>2, <1>4, <1>5, <2>1, <2>2 DEF ReadsBody
  <2>4. ReadsSize(data, q, p + n) /\ ReadsChunk(data, mark', q, p + n, "next")
    BY <1>7 DEF ReadsSize, ReadsChunk
  <2>5. Reads(data, calls, mark', q, Local', p + n, "next")
    BY <1>7, <2>3, <2>4, BodyReads DEF InBody
  <2> QED BY <1>1, <1>7, <1>9, <2>2, <2>5, RunsOn
<1> QED BY <1>6, <1>8, <1>9
-----------------------------------------------------------------------------
\* The size of a chunk.
InSize == {"s_chunk_size_start", "s_chunk_size", "s_chunk_parameters", "s_chunk_size_almost_done"}

LEMMA SizeGoesOn ==
  ASSUME ParserInv, LengthInv, pc = "switch", NEW q, q.http_errno = "OK", q.state \in InSize, Break(q), Silent,
         ReadsSize(data, q, p + 1)
  PROVE  LengthInv'
<1>1. parser' = q /\ data' = data /\ calls' = calls /\ mark' = mark /\ p' = p + 1 /\ pc' = "next" /\ pc # "done"
  BY DEF Break, Silent, outVars
<1>2. q.state \in InBody
  BY DEF InSize, InBody, ChunkState
<1>3. ReadsBody(data, calls, mark, q, p + 1, "next") /\ ReadsChunk(data, mark, q, p + 1, "next")
  BY DEF ReadsBody, ReadsChunk, InSize
<1>4. Reads(data, calls, mark, q, Local', p + 1, "next")
  BY <1>2, <1>3, BodyReads
<1> QED BY <1>1, <1>4, RunsOn

LEMMA SizeIsRead ==
  ASSUME NEW text, NEW q, NEW n, NEW k \in 1..n, NEW e \in 1..n, SizeRead(text, k, e, n, q.content_length),
         q.state = "s_chunk_size_almost_done", text[n] = CR, \A i \in (e + 1)..(n - 1) : text[i] # CR
  PROVE  ReadsSize(text, q, n)
  BY DEF ReadsSize

LEMMA SizeErrors ==
  ASSUME ParserInv, LengthInv, pc = "switch", Error(parser, "INVALID_CHUNK_SIZE") \/ Error(parser, "STRICT") PROVE LengthInv'
<1>1. Leaves
  BY InSwitch, ErrorLeaves, OtherErrors DEF Failures
<1> QED BY <1>1, LeavesLength

LEMMA HexIsNoEnd == ASSUME NEW c, IS_HEX(c) PROVE c \notin {SP, CR, LF, ";"}
<1>1. PICK n \in 1..16 : HexDigits[n] = c
  BY DEF IS_HEX
<1>2. n \in {1, 2, 3, 4, 5, 6, 7, 8, 9, 10, 11, 12, 13, 14, 15, 16}
  OBVIOUS
<1>3. HexDigits[n] \in {"0", "1", "2", "3", "4", "5", "6", "7", "8", "9", "a", "b", "c", "d", "e", "f"}
  BY <1>2 DEF HexDigits
<1> QED BY <1>1, <1>3 DEF SP, CR, LF

LEMMA ChunkSizeStartLength == ASSUME ParserInv, LengthInv, ChunkSizeStart PROVE LengthInv'
<1>1. pc = "switch" /\ parser.state = "s_chunk_size_start"
  BY DEF ChunkSizeStart, At
<1>2. parser \in Parser /\ parser.http_errno = "OK" /\ p \in Nat /\ ReadsSize(data, parser, p)
  BY <1>1, SwitchFacts, SwitchReads
<1>3. p >= 1 /\ data[p] = LF
  BY <1>1, <1>2 DEF ReadsSize
<1>4. CASE IS_HEX(ch) /\ Break([parser EXCEPT !.content_length = unhex(ch), !.state = "s_chunk_size"]) /\ Silent
  <2> DEFINE q == [parser EXCEPT !.content_length = unhex(ch), !.state = "s_chunk_size"]
  <2>1. q.http_errno = "OK" /\ q.state = "s_chunk_size" /\ q.content_length = unhex(ch) /\ Break(q)
    BY <1>2, <1>4 DEF Parser
  <2> HIDE DEF q
  <2>2. unhex(ch) \in 0..15 /\ ch # SP /\ ch = data[p + 1]
    BY <1>4, DigitValue, HexIsNoEnd DEF ch
  <2>3. p <= p /\ Numeral(data, 16, p, p) = 0
    BY <1>2, NumeralGrows
  <2>4. Numeral(data, 16, p, p + 1) = 16 * 0 + unhex(ch)
    BY <1>2, <2>2, <2>3, NumeralGrows
  <2>5. SizeDigits(data, p, p + 1)
    BY <1>2, <1>3, <1>4, <2>2 DEF SizeDigits
  <2>6. p \in 1..(p + 1) /\ q.content_length = Numeral(data, 16, p, p + 1)
    BY <1>2, <1>3, <2>1, <2>2, <2>4
  <2>7. ReadsSize(data, q, p + 1)
    BY <2>1, <2>5, <2>6 DEF ReadsSize
  <2> QED BY <1>1, <1>4, <2>1, <2>7, SizeGoesOn DEF InSize
<1>5. CASE Error(parser, "INVALID_CHUNK_SIZE")
  BY <1>1, <1>5, SizeErrors
<1> QED BY <1>4, <1>5 DEF ChunkSizeStart

LEMMA ChunkSizeLength == ASSUME ParserInv, LengthInv, ChunkSize PROVE LengthInv'
<1>1. pc = "switch" /\ pc # "done" /\ parser.state = "s_chunk_size"
  BY DEF ChunkSize, At
<1>2. parser \in Parser /\ parser.http_errno = "OK" /\ p \in Nat /\ p < len /\ ReadsSize(data, parser, p)
  BY <1>1, SwitchFacts, SwitchReads
<1>3. PICK k \in 1..p : SizeDigits(data, k, p) /\ parser.content_length = Numeral(data, 16, k, p)
  BY <1>1, <1>2 DEF ReadsSize
<1>4. k \in Nat /\ k <= p /\ k \in 1..(p + 1) /\ p \in 1..(p + 1) /\ p < p + 1 /\ ch = data[p + 1]
  BY <1>2 DEF ch
<1>5. ASSUME IS_HEX(ch)
      PROVE  /\ SizeDigits(data, k, p + 1)
             /\ Numeral(data, 16, k, p + 1) = 16 * parser.content_length + unhex(ch)
  <2>1. ch # SP
    BY <1>5, HexIsNoEnd
  <2>2. Numeral(data, 16, k, p + 1) = 16 * parser.content_length + unhex(ch)
    <3>1. Numeral(data, 16, k, p + 1) = IF data[p + 1] = SP THEN Numeral(data, 16, k, p)
                                        ELSE 16 * Numeral(data, 16, k, p) + unhex(data[p + 1])
      BY <1>2, <1>4, NumeralGrows
    <3> QED BY <1>3, <1>4, <2>1, <3>1
  <2>3. k < p + 1 /\ data[k] = LF /\ \A i \in (k + 1)..p : IS_HEX(data[i])
    BY <1>2, <1>3, <1>4 DEF SizeDigits
  <2>4. ASSUME NEW i \in (k + 1)..(p + 1) PROVE IS_HEX(data[i])
    <3>1. i = p + 1 \/ i \in (k + 1)..p
      BY <1>2, <1>4
    <3> QED BY <1>4, <1>5, <2>3, <3>1
  <2> QED BY <2>2, <2>3, <2>4 DEF SizeDigits
<1>6. ASSUME ~IS_HEX(ch)
      PROVE  SizeRead(data, k, p, p + 1, parser.content_length)
  BY <1>3, <1>4, <1>6 DEF SizeRead
<1>7. ASSUME NEW s \in {"s_chunk_size_almost_done", "s_chunk_parameters"}, Break(To(s)), Silent,
             ch \in {CR, ";", SP}, ch = CR <=> s = "s_chunk_size_almost_done"
      PROVE  LengthInv'
  <2> DEFINE q == To(s)
  <2>1. q.http_errno = "OK" /\ q.state = s /\ q.content_length = parser.content_length /\ Break(q)
    BY <1>2, <1>7 DEF To, Parser
  <2> HIDE DEF q
  <2>2. ~IS_HEX(ch)
    BY <1>7, HexIsNoEnd
  <2>3. SizeRead(data, k, p, p + 1, q.content_length)
    BY <1>6, <2>1, <2>2
  <2>4. CASE s = "s_chunk_parameters"
    <3>0. \A i \in (p + 1)..(p + 1) : i = p + 1
      BY <1>2
    <3>3. s # "s_chunk_size_almost_done"
      BY <2>4
    <3>4. ch # CR
      BY <1>7, <3>3
    <3>1. \A i \in (p + 1)..(p + 1) : data[i] # CR
      BY <1>4, <3>0, <3>4
    <3>2. ReadsSize(data, q, p + 1)
      BY <1>4, <2>1, <2>3, <2>4, <3>1 DEF ReadsSize
    <3> QED BY <1>1, <1>7, <2>1, <2>4, <3>2, SizeGoesOn DEF InSize
  <2>5. CASE s = "s_chunk_size_almost_done"
    <3>0. \A i \in (p + 1)..((p + 1) - 1) : FALSE
      BY <1>2
    <3>1. data[p + 1] = CR /\ \A i \in (p + 1)..((p + 1) - 1) : data[i] # CR
      BY <1>4, <1>7, <2>5, <3>0
    <3>2. ReadsSize(data, q, p + 1)
      BY <1>4, <2>1, <2>3, <2>5, <3>1 DEF ReadsSize
    <3> QED BY <1>1, <1>7, <2>1, <2>5, <3>2, SizeGoesOn DEF InSize
  <2> QED BY <1>7, <2>4, <2>5
<1>8. CASE IS_HEX(ch) /\ Overflows(16) /\ Error(parser, "INVALID_CONTENT_LENGTH")
  <2>1. 16 * parser.content_length + unhex(ch) + 16 > ULLONG_MAX
    BY <1>2, <1>8, OneMoreDigit
  <2>2. k \in 1..p /\ SizeDigits(data, k, p + 1) /\ Numeral(data, 16, k, p + 1) + 16 > ULLONG_MAX
    BY <1>5, <1>8, <2>1
  <2>3. SizeTooLarge(data, p)
    BY <2>2 DEF SizeTooLarge
  <2>4. p' = p /\ data' = data /\ calls' = calls /\ pc' = "done" /\ len = len
    BY <1>8 DEF Error, outVars
  <2> QED BY <1>1, <1>2, <2>3, <2>4, ReturnsLength
<1>9. CASE IS_HEX(ch) /\ ~Overflows(16) /\ Break([parser EXCEPT !.content_length = Shifted(16)]) /\ Silent
  <2> DEFINE q == [parser EXCEPT !.content_length = Shifted(16)]
  <2>1. q.http_errno = "OK" /\ q.state = "s_chunk_size" /\ q.content_length = Shifted(16) /\ Break(q)
    BY <1>1, <1>2, <1>9 DEF Parser
  <2> HIDE DEF q
  <2>2. Shifted(16) = 16 * parser.content_length + unhex(ch)
    BY <1>2, <1>9, OneMoreDigit
  <2>3. q.content_length = Numeral(data, 16, k, p + 1) /\ SizeDigits(data, k, p + 1)
    BY <1>5, <1>9, <2>1, <2>2
  <2>4. ReadsSize(data, q, p + 1)
    BY <1>4, <2>1, <2>3 DEF ReadsSize
  <2> QED BY <1>1, <1>9, <2>1, <2>4, SizeGoesOn DEF InSize
<1>10. CASE Error(parser, "INVALID_CHUNK_SIZE")
  BY <1>1, <1>10, SizeErrors
<1>11. \/ ch = CR /\ Break(To("s_chunk_size_almost_done")) /\ Silent
       \/ ch \in {";", SP} /\ Break(To("s_chunk_parameters")) /\ Silent
       \/ Error(parser, "INVALID_CHUNK_SIZE")
       \/ IS_HEX(ch) /\ Overflows(16) /\ Error(parser, "INVALID_CONTENT_LENGTH")
       \/ IS_HEX(ch) /\ ~Overflows(16) /\ Break([parser EXCEPT !.content_length = Shifted(16)]) /\ Silent
  BY DEF ChunkSize
<1>12. CASE ch = CR /\ Break(To("s_chunk_size_almost_done")) /\ Silent
  BY <1>7, <1>12
<1>13. CASE ch \in {";", SP} /\ Break(To("s_chunk_parameters")) /\ Silent
  <2>1. ch # CR
    BY <1>13 DEF SP, CR
  <2> QED BY <1>7, <1>13, <2>1
<1> QED BY <1>8, <1>9, <1>10, <1>11, <1>12, <1>13

LEMMA ChunkParametersLength == ASSUME ParserInv, LengthInv, ChunkParameters PROVE LengthInv'
<1>1. pc = "switch" /\ parser.state = "s_chunk_parameters"
  BY DEF ChunkParameters, At
<1>2. parser \in Parser /\ parser.http_errno = "OK" /\ p \in Nat /\ ReadsSize(data, parser, p) /\ ch = data[p + 1]
  BY <1>1, SwitchFacts, SwitchReads DEF ch
<1>3. PICK k \in 1..p, e \in 1..p : /\ SizeRead(data, k, e, p, parser.content_length)
                                    /\ \A i \in (e + 1)..p : data[i] # CR
  BY <1>1, <1>2 DEF ReadsSize
<1>4. SizeRead(data, k, e, p + 1, parser.content_length) /\ k \in 1..(p + 1) /\ e \in 1..(p + 1)
  BY <1>2, <1>3 DEF SizeRead
<1>5. CASE ch = CR
  <2> DEFINE q == To("s_chunk_size_almost_done")
  <2>1. q.http_errno = "OK" /\ q.state = "s_chunk_size_almost_done" /\ q.content_length = parser.content_length
    BY <1>2 DEF To, Parser
  <2>2. Break(q) /\ Silent
    BY <1>5 DEF ChunkParameters
  <2> HIDE DEF q
  <2>3. data[p + 1] = CR /\ \A i \in (e + 1)..((p + 1) - 1) : data[i] # CR
    BY <1>2, <1>3, <1>5
  <2>4. ReadsSize(data, q, p + 1)
    <3>1. SizeRead(data, k, e, p + 1, q.content_length)
      BY <1>4, <2>1
    <3> QED BY <1>4, <2>1, <2>3, <3>1, SizeIsRead
  <2> QED BY <1>1, <2>1, <2>2, <2>4, SizeGoesOn DEF InSize
<1>6. CASE ch # CR
  <2>1. \A i \in (e + 1)..(p + 1) : i = p + 1 \/ i \in (e + 1)..p
    BY <1>2
  <2>2. \A i \in (e + 1)..(p + 1) : data[i] # CR
    BY <1>2, <1>3, <1>6, <2>1
  <2>3. ReadsSize(data, parser, p + 1)
    BY <1>1, <1>4, <2>2 DEF ReadsSize
  <2>4. Break(parser) /\ Silent
    BY <1>6 DEF ChunkParameters
  <2> QED BY <1>1, <1>2, <2>3, <2>4, SizeGoesOn DEF InSize
<1> QED BY <1>5, <1>6

\* The line of the size ends.
LEMMA SizeLineEnds ==
  ASSUME NEW text, NEW k \in Nat, NEW e \in Nat, NEW n \in Nat, NEW l, SizeRead(text, k, e, n, l),
         text[n] = CR, \A i \in (e + 1)..(n - 1) : text[i] # CR, text[n + 1] = LF
  PROVE  SizeLine(text, k, e, n + 1) /\ l = Numeral(text, 16, k, e)
<1>1. SizeDigits(text, k, e) /\ e < n /\ ~IS_HEX(text[e + 1]) /\ l = Numeral(text, 16, k, e)
  BY DEF SizeRead
<1>2. (n + 1) - 2 = n - 1 /\ (n + 1) - 1 = n /\ e + 2 <= n + 1
  BY <1>1
<1> QED BY <1>1, <1>2 DEF SizeLine

LEMMA ChunkSizeAlmostDoneLength == ASSUME ParserInv, LengthInv, ChunkSizeAlmostDone PROVE LengthInv'
<1> DEFINE q == [parser EXCEPT !.nread = 0]
<1>1. pc = "switch" /\ pc # "done" /\ parser.state = "s_chunk_size_almost_done"
  BY DEF ChunkSizeAlmostDone, At
<1>2. parser \in Parser /\ parser.http_errno = "OK" /\ p \in Nat /\ ReadsSize(data, parser, p) /\ ch = data[p + 1]
  BY <1>1, SwitchFacts, SwitchReads DEF ch
<1>3. q \in Parser /\ q.http_errno = "OK" /\ q.content_length = parser.content_length /\ q.flags = parser.flags
  BY <1>2 DEF Parser
<1>4. \/ Error(parser, "STRICT")
      \/ Break([q EXCEPT !.flags = @ \cup {"F_TRAILING"}, !.state = "s_header_field_start"]) /\ Silent
      \/ ch = LF /\ Break([q EXCEPT !.state = "s_chunk_data"]) /\ Silent
  BY DEF ChunkSizeAlmostDone
<1> HIDE DEF q
<1>5. CASE Error(parser, "STRICT")
  BY <1>1, <1>5, SizeErrors
<1>6. CASE Break([q EXCEPT !.flags = @ \cup {"F_TRAILING"}, !.state = "s_header_field_start"]) /\ Silent
  <2> DEFINE r == [q EXCEPT !.flags = @ \cup {"F_TRAILING"}, !.state = "s_header_field_start"]
  <2>1. r.http_errno = "OK" /\ r.state = "s_header_field_start" /\ "F_TRAILING" \in r.flags
    BY <1>3 DEF Parser
  <2>2. Break(r)
    BY <1>6
  <2> HIDE DEF r
  <2>3. Plain(r)
    BY <2>1, QuietFacts DEF Plain, KeepsLength
  <2>4. GoesOn
    BY <1>6, <2>2, <2>3, Outputs DEF GoesOn
  <2> QED BY <1>1, <2>4, GoesOnLength
<1>7. CASE ch = LF /\ Break([q EXCEPT !.state = "s_chunk_data"]) /\ Silent
  <2> DEFINE r == [q EXCEPT !.state = "s_chunk_data"]
  <2>1. r.http_errno = "OK" /\ r.state = "s_chunk_data" /\ r.content_length = parser.content_length
    BY <1>3 DEF Parser
  <2>2. parser' = r /\ data' = data /\ calls' = calls /\ mark' = mark /\ p' = p + 1 /\ pc' = "next"
    BY <1>7 DEF Break, Silent, outVars
  <2> HIDE DEF r
  <2>3. PICK k \in 1..p, e \in 1..p : /\ SizeRead(data, k, e, p, parser.content_length)
                                      /\ data[p] = CR /\ \A i \in (e + 1)..(p - 1) : data[i] # CR
    BY <1>1, <1>2 DEF ReadsSize
  <2>4. k \in Nat /\ e \in Nat /\ k \in 1..(p + 1) /\ e \in 1..(p + 1) /\ data[p + 1] = LF
    BY <1>2, <1>7
  <2>5. SizeLine(data, k, e, p + 1) /\ r.content_length = Numeral(data, 16, k, e)
    BY <1>2, <2>1, <2>3, <2>4, SizeLineEnds
  <2>6. PieceOf(parser.state) = "none" /\ "body" \in Piece
    BY <1>1 DEF PieceOf, Piece, UrlState
  <2>7. mark["body"] = NoMark
    BY <1>1, <2>6, NothingOpen
  <2>8. ReadsChunk(data, mark, r, p + 1, "next")
    <3>1. \E i, j \in 1..(p + 1) : SizeLine(data, i, j, p + 1) /\ r.content_length = Numeral(data, 16, i, j)
      BY <2>4, <2>5
    <3> QED BY <2>1, <2>7, <3>1 DEF ReadsChunk
  <2>9. ReadsBody(data, calls, mark, r, p + 1, "next") /\ ReadsSize(data, r, p + 1)
    BY <2>1 DEF ReadsBody, ReadsSize
  <2>10. Reads(data, calls, mark, r, Local', p + 1, "next")
    BY <2>1, <2>8, <2>9, BodyReads DEF InBody, ChunkState
  <2> QED BY <1>1, <2>1, <2>2, <2>10, RunsOn
<1> QED BY <1>4, <1>5, <1>6, <1>7

\* The chunk.
LEMMA ChunkDataLength == ASSUME ParserInv, LengthInv, ChunkData PROVE LengthInv'
<1> DEFINE n == ToRead
           l == parser.content_length
           q == [parser EXCEPT !.content_length = @ - n,
                               !.state = IF parser.content_length = n THEN "s_chunk_data_almost_done" ELSE @]
<1>1. pc = "switch" /\ pc # "done" /\ parser.state = "s_chunk_data"
  BY DEF ChunkData, At
<1>2. /\ parser \in Parser /\ parser.http_errno = "OK" /\ p \in Nat /\ len \in Nat /\ p < len /\ Control(parser)
      /\ ReadsChunk(data, mark, parser, p, "switch") /\ len = Len(data)
  BY <1>1, SwitchFacts, SwitchReads
<1>3. mark["body"] = NoMark /\ \E i, j \in 1..p : SizeLine(data, i, j, p) /\ l = Numeral(data, 16, i, j)
  BY <1>1, <1>2 DEF ReadsChunk
<1>4. PICK k \in 1..p, e \in 1..p : SizeLine(data, k, e, p) /\ l = Numeral(data, 16, k, e)
  BY <1>3
<1>5. /\ l \in Nat /\ n \in Nat /\ n <= l /\ n <= len - p /\ n = IF l < len - p THEN l ELSE len - p
  BY <1>1, <1>2, ToReadFacts DEF Control, ToRead
<1>6. parser' = q /\ p' = p + n /\ MARK("body") /\ pc' = "next" /\ data' = data
  BY DEF ChunkData
<1> HIDE DEF n, l
<1>7. q.http_errno = "OK" /\ q.state = IF parser.content_length = n THEN "s_chunk_data_almost_done" ELSE "s_chunk_data"
  BY <1>1, <1>2 DEF Parser
<1> HIDE DEF q
<1>8. mark'["body"] = p /\ p # NoMark /\ calls' = calls
  BY <1>1, <1>3, <1>6, MarkBody
<1>9. ReadsChunk(data, mark', q, p + n, "next")
  <2>1. CASE l = n
    <3>1. q.state = "s_chunk_data_almost_done"
      BY <1>7, <2>1 DEF l
    <3>2. Numeral(data, 16, k, e) = (p + n) - p
      BY <1>2, <1>4, <1>5, <2>1
    <3>3. \E i, j \in 1..(mark'["body"]) : SizeLine(data, i, j, mark'["body"]) /\ Numeral(data, 16, i, j) = (p + n) - mark'["body"]
      BY <1>4, <1>8, <3>2
    <3> QED BY <1>8, <3>1, <3>3 DEF ReadsChunk
  <2>2. CASE l # n
    <3>1. q.state = "s_chunk_data"
      BY <1>7, <2>2 DEF l
    <3>2. l > len - p /\ p + n = len
      BY <1>2, <1>5, <2>2
    <3>3. \E i, j \in 1..(mark'["body"]) : /\ SizeLine(data, i, j, mark'["body"])
                                           /\ Numeral(data, 16, i, j) \in Nat
                                           /\ Numeral(data, 16, i, j) > Len(data) - mark'["body"]
      BY <1>2, <1>4, <1>5, <1>8, <3>2
    <3> QED BY <1>2, <1>8, <3>1, <3>2, <3>3 DEF ReadsChunk
  <2> QED BY <2>1, <2>2
<1>10. ReadsBody(data, calls, mark', q, p + n, "next") /\ ReadsSize(data, q, p + n)
  BY <1>7 DEF ReadsBody, ReadsSize
<1>11. Reads(data, calls, mark', q, Local', p + n, "next")
  BY <1>7, <1>9, <1>10, BodyReads DEF InBody, ChunkState
<1> QED BY <1>1, <1>6, <1>7, <1>8, <1>11, RunsOn

LEMMA ChunkDataAlmostDoneLength == ASSUME ParserInv, LengthInv, ChunkDataAlmostDone PROVE LengthInv'
<1> DEFINE v == mark["body"]
           c == [on |-> "body", at |-> v, length |-> p - v]
           q == To("s_chunk_data_done")
<1>1. pc = "switch" /\ pc # "done" /\ parser.state = "s_chunk_data_almost_done"
  BY DEF ChunkDataAlmostDone, At
<1>2. /\ parser \in Parser /\ parser.http_errno = "OK" /\ p \in Nat /\ len \in Nat /\ p < len /\ len = Len(data)
      /\ ReadsChunk(data, mark, parser, p, "switch") /\ mark \in Marks
  BY <1>1, SwitchFacts, SwitchReads DEF Types
<1>3. v # NoMark /\ \E i, j \in 1..v : SizeLine(data, i, j, v) /\ Numeral(data, 16, i, j) = p - v
  BY <1>1, <1>2 DEF ReadsChunk
<1>4. v \in Nat
  BY <1>2, <1>3 DEF Marks, Piece, Pos
<1>5. CASE Error(parser, "STRICT")
  BY <1>1, <1>5, SizeErrors
<1>6. CASE Break(q) /\ Callback("body", p)
  <2>1. calls' = Append(calls, c) /\ data' = data /\ parser' = q
    BY <1>3, <1>6 DEF Callback, Break
  <2>2. q.http_errno = "OK" /\ q.state = "s_chunk_data_done"
    BY <1>2 DEF To, Parser
  <2>3. c.at = v /\ c.length = p - v
    OBVIOUS
  <2> HIDE DEF c, q, v
  <2>4. p - v < Len(data) - v
    BY <1>2, <1>4
  <2>5. Fills(data, c, p - v)
    BY <2>3, <2>4 DEF Fills
  <2>6. ChunkIsExact(data, c)
    BY <1>3, <2>3, <2>5 DEF ChunkIsExact
  <2>7. "s_chunk_data_done" \notin Busy /\ "s_chunk_data_done" \notin KnownState
    BY DEF Busy, BeforeValue, Ended, ChunkState, KnownState, HeaderPartState, UrlState
  <2>8. Reads(data, calls', mark', q, Local', p', pc')
    BY <2>2, <2>7, QuietReads
  <2> QED BY <1>1, <2>1, <2>2, <2>6, <2>8, RunsOnWith
<1> QED BY <1>5, <1>6 DEF ChunkDataAlmostDone

LEMMA ChunkDataDoneLength == ASSUME ParserInv, LengthInv, ChunkDataDone PROVE LengthInv'
<1>1. pc = "switch"
  BY DEF ChunkDataDone, At
<1>2. parser \in Parser /\ parser.http_errno = "OK" /\ p \in Nat
  BY <1>1, SwitchFacts
<1>3. CASE Error(parser, "STRICT")
  BY <1>1, <1>3, SizeErrors
<1>4. CASE ch = LF /\ Break([parser EXCEPT !.nread = 0, !.state = "s_chunk_size_start"]) /\ Silent
  <2> DEFINE q == [parser EXCEPT !.nread = 0, !.state = "s_chunk_size_start"]
  <2>1. q.http_errno = "OK" /\ q.state = "s_chunk_size_start" /\ Break(q)
    BY <1>2, <1>4 DEF Parser
  <2> HIDE DEF q
  <2>2. ReadsSize(data, q, p + 1)
    BY <1>2, <1>4, <2>1 DEF ReadsSize, ch
  <2> QED BY <1>1, <1>4, <2>1, <2>2, SizeGoesOn DEF InSize
<1> QED BY <1>3, <1>4 DEF ChunkDataDone

LEMMA BodyLengthKept == ASSUME ParserInv, LengthInv, Body PROVE LengthInv'
  BY HeadersAlmostDoneLength, HeadersDoneLength, BodyIdentityLength, BodyEofLength, MessageDoneLength,
     ChunkSizeStartLength, ChunkSizeLength, ChunkParametersLength, ChunkSizeAlmostDoneLength,
     ChunkDataLength, ChunkDataAlmostDoneLength, ChunkDataDoneLength DEF Body

-----------------------------------------------------------------------------
\* From one byte to the next, and the end of the data.
LEMMA ReadsOn ==
  ASSUME NEW text, NEW shown, NEW m, NEW q, NEW r, NEW h, NEW n, n # Len(text), r.state = q.state, r.flags = q.flags,
         r.content_length = q.content_length, r.header_state = q.header_state, Reads(text, shown, m, q, h, n, "next")
  PROVE  Reads(text, shown, m, r, h, n, "switch")
<1>1. /\ KnowsLength(text, shown, q, h) /\ NotTrailing(q) /\ NameIsOne(text, m, q, n)
      /\ NameIsTold(text, shown, q, h, n, "next")
      /\ ReadsLength(text, shown, m, q, h, n) /\ ReadsBody(text, shown, m, q, n, "next")
      /\ ReadsSize(text, q, n) /\ ReadsChunk(text, m, q, n, "next")
  BY DEF Reads
<1>2. KnowsLength(text, shown, r, h) /\ NotTrailing(r) /\ NameIsOne(text, m, r, n)
  BY <1>1 DEF KnowsLength, NotTrailing, NameIsOne
<1>3. NameIsTold(text, shown, r, h, n, "switch")
  BY <1>1 DEF NameIsTold
<1>4. ReadsLength(text, shown, m, r, h, n)
  BY <1>1 DEF ReadsLength
<1>5. ReadsBody(text, shown, m, r, n, "switch")
  BY <1>1 DEF ReadsBody
<1>6. ReadsSize(text, r, n)
  BY <1>1 DEF ReadsSize
<1>7. ReadsChunk(text, m, r, n, "switch")
  BY <1>1 DEF ReadsChunk
<1> QED BY <1>2, <1>3, <1>4, <1>5, <1>6, <1>7 DEF Reads

LEMMA NextByteLength == ASSUME ParserInv, LengthInv, NextByte PROVE LengthInv'
<1> DEFINE q == IF PARSING_HEADER(parser.state) THEN Counted(parser, 1) ELSE parser
<1>1. pc = "next" /\ pc # "done" /\ p < len
  BY DEF NextByte
<1>2. parser \in Parser /\ parser.http_errno = "OK" /\ p \in Nat /\ len = Len(data)
  BY <1>1 DEF ParserInv, Running, Control, Types, Pos, len
<1>3. q \in Parser /\ q.http_errno = "OK" /\ q.state = parser.state /\ q.flags = parser.flags
      /\ q.content_length = parser.content_length /\ q.header_state = parser.header_state
  BY <1>2, CountedFacts
<1>4. Error(q, "HEADER_OVERFLOW") \/ (Reexecute(q) /\ Silent)
  BY DEF NextByte
<1> HIDE DEF q
<1>5. CASE Error(q, "HEADER_OVERFLOW")
  <2>1. "HEADER_OVERFLOW" \in Errno \ {"INVALID_CONTENT_LENGTH"}
    BY DEF Errno, http_errno
  <2> QED BY <1>1, <1>3, <1>5, <2>1, ErrorLeaves, LeavesLength
<1>6. CASE Reexecute(q) /\ Silent
  <2>1. data' = data /\ calls' = calls /\ mark' = mark /\ p' = p /\ pc' = "switch" /\ parser' = q
    BY <1>6 DEF Reexecute, Silent, outVars
  <2>2. Local' = q.header_state
    BY <2>1 DEF Local
  <2>3. Reads(data, calls, mark, parser, parser.header_state, p, "next")
    BY <1>1 DEF LengthInv, Local
  <2>4. p # Len(data)
    BY <1>1, <1>2
  <2>5. Reads(data, calls, mark, q, q.header_state, p, "switch")
    BY <1>3, <2>3, <2>4, ReadsOn
  <2> QED BY <1>1, <1>3, <2>1, <2>2, <2>5, RunsOn
<1> QED BY <1>4, <1>5, <1>6

\* The piece of a body that the packet ends in.
LEMMA LastBody ==
  ASSUME ParserInv, LengthInv, EndOfData, mark["body"] # NoMark, Callback("body", p) PROVE LengthInv'
<1> DEFINE v == mark["body"]
           c == [on |-> "body", at |-> v, length |-> p - v]
<1>1. pc = "next" /\ pc # "done" /\ p = len /\ pc' = "done" /\ data' = data /\ p' = p /\ parser' = parser
  BY DEF EndOfData
<1>2. /\ parser.http_errno = "OK" /\ p \in Nat /\ len = Len(data) /\ Shape(parser.state, p) /\ mark \in Marks
      /\ calls \in Seq(Call) /\ BodiesExact(data, calls)
      /\ ReadsBody(data, calls, mark, parser, p, "next") /\ ReadsChunk(data, mark, parser, p, "next")
  BY <1>1 DEF ParserInv, Running, Control, Types, Pos, len, LengthInv, Reads
<1>3. v \in Nat /\ PieceOf(parser.state) = "body"
  <2>1. "body" \in Piece
    BY DEF Piece
  <2> QED BY <1>2, <2>1 DEF Shape, Marks, Pos
<1>4. parser.state \in {"s_body_identity", "s_body_identity_eof", "s_chunk_data", "s_chunk_data_almost_done"}
  BY <1>3 DEF PieceOf
<1>5. calls' = Append(calls, c)
  BY DEF Callback
<1>6. c.on = "body" /\ c.at = v /\ c.length = p - v
  OBVIOUS
<1>7. v = mark["body"]
  OBVIOUS
<1> HIDE DEF c, v
<1>8. Len(calls') = Len(calls) + 1 /\ Len(calls) \in Nat /\ calls'[Len(calls')] = c
  BY <1>2, <1>5, OneMore
<1>9. CASE parser.state = "s_body_identity"
  <2>1. PICK i \in 1..Len(calls) : /\ LastLength(data, calls, i, Len(calls))
                                   /\ LengthShown(data, calls, i) \in Nat
                                   /\ LengthShown(data, calls, i) > Len(data) - v
    BY <1>2, <1>7, <1>9 DEF ReadsBody
  <2>2. Fills(data, c, LengthShown(data, calls, i))
    BY <1>1, <1>2, <1>3, <1>6, <2>1 DEF Fills
  <2>3. ~LengthField(data, calls', Len(calls))
    BY <1>2, <1>5, <1>6, NoField
  <2>4. LastLength(data, calls', i, Len(calls')) /\ LengthShown(data, calls', i) = LengthShown(data, calls, i)
    BY <1>2, <1>5, <2>1, <2>3, LastStays
  <2>5. BodyIsExact(data, calls', Len(calls'))
    BY <1>8, <2>2, <2>4 DEF BodyIsExact, LastLength
  <2>6. BodiesExact(data, calls')
    BY <1>2, <1>5, <2>5, BodiesStay
  <2> QED BY <1>1, <1>2, <2>6 DEF LengthInv, LengthIsExact, BodiesExact
<1>10. CASE parser.state \in {"s_chunk_data", "s_chunk_data_almost_done"}
  <2>1. ChunkIsExact(data, c)
    <3>1. CASE parser.state = "s_chunk_data"
      <4>1. PICK i \in 1..v, j \in 1..v : /\ SizeLine(data, i, j, v) /\ Numeral(data, 16, i, j) \in Nat
                                          /\ Numeral(data, 16, i, j) > Len(data) - v
        BY <1>2, <1>7, <3>1 DEF ReadsChunk
      <4>2. Fills(data, c, Numeral(data, 16, i, j))
        BY <1>1, <1>2, <1>3, <1>6, <4>1 DEF Fills
      <4> QED BY <1>6, <4>1, <4>2 DEF ChunkIsExact
    <3>2. CASE parser.state = "s_chunk_data_almost_done"
      <4>1. PICK i \in 1..v, j \in 1..v : SizeLine(data, i, j, v) /\ Numeral(data, 16, i, j) = p - v
        BY <1>2, <1>7, <3>2 DEF ReadsChunk
      <4>2. Fills(data, c, Numeral(data, 16, i, j))
        BY <1>1, <1>2, <1>3, <1>6, <4>1 DEF Fills
      <4> QED BY <1>6, <4>1, <4>2 DEF ChunkIsExact
    <3> QED BY <1>10, <3>1, <3>2
  <2>2. BodiesExact(data, calls')
    BY <1>2, <1>5, <2>1, BodiesStay
  <2> QED BY <1>1, <1>2, <2>2 DEF LengthInv, LengthIsExact, BodiesExact
<1>11. CASE parser.state = "s_body_identity_eof"
  <2>1. ASSUME NEW n \in 1..Len(calls'), calls'[n].on = "body"
        PROVE  \/ ChunkIsExact(data, calls'[n]) \/ BodyIsExact(data, calls', n)
               \/ calls'[n].at + calls'[n].length = len
    <3>1. CASE n = Len(calls')
      BY <1>1, <1>2, <1>3, <1>6, <1>8, <3>1
    <3>2. CASE n # Len(calls')
      BY <2>1, <3>2, EarlierBodies, <1>2, <1>5, <1>8
    <3> QED BY <3>1, <3>2
  <2>2. LengthIsExact'
    BY <1>1, <1>2, <1>11, <2>1 DEF LengthIsExact, len
  <2> QED BY <1>1, <2>2 DEF LengthInv
<1> QED BY <1>4, <1>9, <1>10, <1>11

LEMMA EndOfDataLength == ASSUME ParserInv, LengthInv, EndOfData PROVE LengthInv'
<1>1. pc = "next" /\ pc # "done" /\ pc' = "done" /\ data' = data /\ parser' = parser
  BY DEF EndOfData
<1>2. parser.http_errno = "OK"
  BY <1>1 DEF ParserInv, Running, Control
<1>3. CASE Silent
  <2>1. calls' = calls
    BY <1>3 DEF Silent, outVars
  <2> QED BY <1>1, <1>2, <2>1, ReturnsLength
<1>4. ASSUME NEW f \in Piece, mark[f] # NoMark, Callback(f, p) PROVE LengthInv'
  <2>1. CASE f = "body"
    BY <1>4, <2>1, LastBody
  <2>2. CASE f # "body"
    <3> DEFINE c == [on |-> f, at |-> mark[f], length |-> p - mark[f]]
    <3>1. calls' = Append(calls, c) /\ c.on = f
      BY <1>4 DEF Callback
    <3> HIDE DEF c
    <3> QED BY <1>1, <1>2, <2>2, <3>1, ReturnsWith
  <2> QED BY <2>1, <2>2
<1> QED BY <1>3, <1>4 DEF EndOfData

-----------------------------------------------------------------------------
LEMMA InitLength == ASSUME Init PROVE LengthInv
<1>1. /\ parser.state = "s_start_req_or_res" /\ parser.http_errno = "OK" /\ calls = <<>>
  BY DEF Init, NewParser
<1>2. "s_start_req_or_res" \notin Busy /\ "s_start_req_or_res" \notin KnownState
  BY QuietFacts DEF Begins
<1>3. Reads(data, calls, mark, parser, Local, p, pc)
  BY <1>1, <1>2, QuietReads
<1>4. \A n \in 1..Len(calls) : FALSE
  BY <1>1
<1> QED BY <1>1, <1>3, <1>4 DEF LengthInv, LengthIsExact, BodiesExact

LEMMA StutterLength == ASSUME LengthInv, UNCHANGED vars PROVE LengthInv'
<1>1. /\ UNCHANGED data /\ UNCHANGED p /\ UNCHANGED pc /\ UNCHANGED parser /\ UNCHANGED mark /\ UNCHANGED calls
      /\ UNCHANGED h_state
  BY DEF vars, outVars, localVars
<1>2. Local' = Local
  BY <1>1 DEF Local
<1>3. pc' # "done" => Reads(data', calls', mark', parser', Local', p', pc') /\ BodiesExact(data', calls')
  BY <1>1, <1>2 DEF LengthInv
<1>4. LengthIsExact'
  BY <1>1 DEF LengthInv, LengthIsExact, len
<1> QED BY <1>3, <1>4 DEF LengthInv

LEMMA StepLength == ASSUME ParserInv, LengthInv, [Next]_vars PROVE LengthInv'
<1>1. CASE UNCHANGED vars \/ Done
  BY <1>1, StutterLength DEF Done
<1>2. CASE Step
  BY <1>2, NextByteLength, EndOfDataLength, StartLineLength, HeaderLength, BodyLengthKept DEF Step
<1> QED BY <1>1, <1>2 DEF Next

\* Every body that is handed over has the length that its chunk's size or the
\* last Content-Length before it says, or reaches to the end of the packet; and
\* a length is refused only where it is within one digit of the largest value,
\* or no number: for every payload and every width of the lengths, none wraps
\* around, is taken from another message, or is read from half of a line.
THEOREM ParserLengthIsExact == Spec => []LengthIsExact
<1>1. LengthInv => LengthIsExact
  BY DEF LengthInv
<1> QED BY <1>1, InitLength, StepLength, InvHolds, PTL DEF Spec

-----------------------------------------------------------------------------
\* How far a step is from the next byte.  A pass through the switch that looks
\* at the byte again does so in a later state, and the loop over a value leads
\* back to the switch only at a line end.
Rank(c, s) ==
  CASE c = "done"  -> 0
    [] c = "value" -> 3
    [] c = "next"  -> 5
    [] OTHER -> CASE s \in {"s_header_value", "s_header_value_lws", "s_header_value_discard_lws"} -> 4
                  [] s = "s_header_field_start" -> 3
                  [] s \in {"s_headers_almost_done", "s_start_req_or_res", "s_body_identity"} -> 2
                  [] OTHER -> 1

\* An upper bound on the steps that are left.
StepsLeft == IF pc = "next" /\ p = len THEN 1 ELSE 5 * (len - p) + Rank(pc, parser.state)

\* A step goes on to a later byte, ends the call, looks at the same byte in a
\* later state, or finds the end of the data in the loop over a value.
Ahead ==
  /\ data' = data
  /\ \/ p' > p
     \/ p' = p /\ pc' = "done"
     \/ p' = p /\ p < len /\ pc' # "next" /\ Rank(pc', parser'.state) < Rank(pc, parser.state)
     \/ p' = p /\ p = len /\ pc = "value" /\ pc' = "next"

LEMMA RankFacts ==
  /\ \A c, s : Rank(c, s) \in 0..5
  /\ \A s : Rank("done", s) = 0 /\ Rank("value", s) = 3 /\ Rank("next", s) = 5
  /\ \A c, s : c # "done" => Rank(c, s) \in 1..5
  BY DEF Rank

LEMMA StepsAreNumbers == ASSUME ParserInv PROVE StepsLeft \in Nat
<1>1. p \in Nat /\ len \in Nat /\ p <= len
  BY LenNat DEF ParserInv, Types, Pos
<1>2. Rank(pc, parser.state) \in Nat
  BY RankFacts
<1> QED BY <1>1, <1>2 DEF StepsLeft

LEMMA LaterByte ==
  ASSUME NEW l \in Nat, NEW b \in Nat, NEW a \in Nat, b < a, a <= l, NEW n \in 0..5, NEW r \in 1..5
  PROVE  5 * (l - a) + n < 5 * (l - b) + r /\ 1 < 5 * (l - b) + r /\ b < l
  OBVIOUS

LEMMA AheadIsCloser == ASSUME ParserInv, ParserInv', pc # "done", Ahead PROVE StepsLeft' < StepsLeft
<1> DEFINE r == Rank(pc, parser.state)
           n == Rank(pc', parser'.state)
<1>1. p \in Nat /\ len \in Nat /\ p <= len
  BY LenNat DEF ParserInv, Types, Pos
<1>2. p' \in Nat /\ p' <= len /\ len' = len
  BY <1>1 DEF Ahead, ParserInv, Types, Pos, len
<1>3. r \in 1..5 /\ n \in 0..5
  BY RankFacts
<1>4. /\ StepsLeft = IF pc = "next" /\ p = len THEN 1 ELSE 5 * (len - p) + r
      /\ StepsLeft' = IF pc' = "next" /\ p' = len THEN 1 ELSE 5 * (len - p') + n
  BY <1>2 DEF StepsLeft
<1>5. pc' = "done" => n = 0
  BY RankFacts
<1>6. pc = "value" => r = 3
  BY RankFacts
<1>7. \/ p' > p
      \/ p' = p /\ pc' = "done"
      \/ p' = p /\ p < len /\ pc' # "next" /\ n < r
      \/ p' = p /\ p = len /\ pc = "value" /\ pc' = "next"
  BY DEF Ahead
<1> HIDE DEF r, n
<1>8. CASE p' > p
  <2>1. 5 * (len - p') + n < 5 * (len - p) + r /\ 1 < 5 * (len - p) + r /\ p < len
    BY <1>1, <1>2, <1>3, <1>8, LaterByte
  <2>2. p # len
    BY <1>1, <2>1
  <2>3. StepsLeft = 5 * (len - p) + r
    BY <1>4, <2>2
  <2>4. StepsLeft' = 1 \/ StepsLeft' = 5 * (len - p') + n
    BY <1>4
  <2> QED BY <2>1, <2>3, <2>4
<1>9. CASE p' = p /\ pc' = "done"
  BY <1>1, <1>3, <1>4, <1>5, <1>9
<1>10. CASE p' = p /\ p < len /\ pc' # "next" /\ n < r
  BY <1>1, <1>3, <1>4, <1>10
<1>11. CASE p' = p /\ p = len /\ pc = "value" /\ pc' = "next"
  BY <1>1, <1>3, <1>4, <1>6, <1>11
<1> QED BY <1>7, <1>8, <1>9, <1>10, <1>11

\* How a pass ends.
Passes == (\E q : Break(q)) \/ (\E q : Return(q)) \/ (\E q, e : Error(q, e))

LEMMA PassesAhead == ASSUME ParserInv, Passes PROVE Ahead
<1>1. p \in Nat
  BY LenNat DEF ParserInv, Types, Pos
<1>2. p + 1 > p
  BY <1>1
<1> QED BY <1>2 DEF Passes, Break, Return, Error, Ahead

LEMMA AgainAhead ==
  ASSUME NEW q, Reexecute(q), p < len, Rank("switch", q.state) < Rank(pc, parser.state) PROVE Ahead
  BY DEF Reexecute, Ahead

LEMMA AgainInSwitch ==
  ASSUME ParserInv, pc = "switch", NEW q, Reexecute(q), Rank("switch", q.state) < Rank("switch", parser.state) PROVE Ahead
  BY SwitchFacts, AgainAhead

-----------------------------------------------------------------------------
LEMMA StartLineAhead == ASSUME ParserInv, StartLine PROVE Ahead
<1>1. CASE StartReqOrRes
  <2>1. pc = "switch" /\ parser.state = "s_start_req_or_res" /\ parser \in Parser
    BY <1>1, InSwitch DEF StartReqOrRes, At
  <2>2. CASE Reexecute([Fresh EXCEPT !.type = "HTTP_REQUEST", !.state = "s_start_req"])
    <3> DEFINE q == [Fresh EXCEPT !.type = "HTTP_REQUEST", !.state = "s_start_req"]
    <3>1. q.state = "s_start_req"
      BY <2>1 DEF Fresh, Parser
    <3>2. Reexecute(q)
      BY <2>2
    <3> HIDE DEF q
    <3>3. Rank("switch", q.state) < Rank("switch", parser.state)
      BY <2>1, <3>1 DEF Rank
    <3> QED BY <2>1, <3>2, <3>3, AgainInSwitch
  <2>3. CASE \E q : Break(q)
    BY <2>3, PassesAhead DEF Passes
  <2> QED BY <1>1, <2>2, <2>3, Zenon DEF StartReqOrRes
<1>2. (\E f, e : MoreDigits(f, e)) \/ (\E s : UrlChar(s)) => Passes
  BY Zenon DEF MoreDigits, UrlChar, Passes
<1>3. Dead \/ StartRes \/ StartReq \/ ReqMethod \/ FirstMajor \/ FirstMinor \/ ResLineAlmostDone \/ ReqHttpStart
        \/ ReqLineAlmostDone \/ ReqSpacesBeforeUrl => Passes
  BY Zenon DEF Dead, StartRes, StartReq, ReqMethod, FirstMajor, FirstMinor, ResLineAlmostDone, ReqHttpStart,
               ReqLineAlmostDone, ReqSpacesBeforeUrl, Passes
<1>4. Major \/ Minor \/ FirstStatusCode \/ StatusCode \/ StatusStart \/ Status => Passes
  BY <1>2, Zenon DEF Major, Minor, FirstStatusCode, StatusCode, StatusStart, Status, Passes
<1>5. ReqUrlStart \/ ReqUrl => Passes
  BY <1>2, Zenon DEF ReqUrlStart, ReqUrl, Passes
<1> QED BY <1>1, <1>3, <1>4, <1>5, PassesAhead DEF StartLine

-----------------------------------------------------------------------------
\* The headers.
LEMMA ToAgain ==
  ASSUME ParserInv, pc = "switch", NEW s, Reexecute(To(s)), Rank("switch", s) < Rank("switch", parser.state) PROVE Ahead
<1> DEFINE q == To(s)
<1>1. q.state = s
  BY InSwitch DEF To, Parser
<1>2. Reexecute(q)
  OBVIOUS
<1> HIDE DEF q
<1> QED BY <1>1, <1>2, AgainInSwitch

\* The header is complete: the byte is looked at as the start of the next one.
LEMMA FieldAgain ==
  ASSUME ParserInv, pc = "switch", parser.state \in {"s_header_value_lws", "s_header_value_discard_lws"}, NEW f,
         Reexecute([parser EXCEPT !.flags = @ \cup f, !.state = "s_header_field_start"])
  PROVE  Ahead
<1> DEFINE q == [parser EXCEPT !.flags = @ \cup f, !.state = "s_header_field_start"]
<1>1. q.state = "s_header_field_start"
  BY InSwitch DEF Parser
<1>2. Reexecute(q)
  OBVIOUS
<1> HIDE DEF q
<1>3. Rank("switch", q.state) < Rank("switch", parser.state)
  BY <1>1 DEF Rank
<1> QED BY <1>2, <1>3, AgainInSwitch

LEMMA HeaderFieldAhead == ASSUME ParserInv, HeaderFieldStart \/ HeaderField PROVE Ahead
<1>1. pc = "switch" /\ p \in Nat /\ len \in Nat /\ p < len
  BY SwitchFacts DEF HeaderFieldStart, HeaderField, At
<1>2. CASE HeaderFieldStart
  <2>1. parser.state = "s_header_field_start"
    BY <1>2 DEF HeaderFieldStart, At
  <2>2. CASE Reexecute(To("s_headers_almost_done"))
    <3>1. Rank("switch", "s_headers_almost_done") < Rank("switch", parser.state)
      BY <2>1 DEF Rank
    <3> QED BY <1>1, <2>2, <3>1, ToAgain
  <2>3. Passes \/ Reexecute(To("s_headers_almost_done"))
    BY <1>2, Zenon DEF HeaderFieldStart, Passes
  <2> QED BY <2>2, <2>3, PassesAhead
<1>3. CASE HeaderField
  <2>1. PICK q \in p..len :
          LET named == Counted([parser EXCEPT !.header_state = IF q = p THEN @ ELSE "h_general"], q - p) IN
          \/ Error(named, "HEADER_OVERFLOW") \/ Error(named, "INVALID_HEADER_TOKEN")
          \/ q = len /\ p' = q /\ data' = data
          \/ p' = q + 1 /\ data' = data
    BY <1>3 DEF HeaderField
  <2>2. Passes \/ (data' = data /\ p' > p)
    BY <1>1, <2>1 DEF Passes
  <2> QED BY <2>2, PassesAhead DEF Ahead
<1> QED BY <1>2, <1>3

LEMMA DiscardAhead ==
  ASSUME ParserInv, \/ HeaderValueDiscardWs \/ HeaderValueDiscardWsAlmostDone \/ HeaderValueDiscardLws
                    \/ HeaderValueStart \/ HeaderAlmostDone \/ HeaderValueLws
  PROVE  Ahead
<1>1. CASE HeaderValueDiscardLws
  <2>1. pc = "switch" /\ parser.state = "s_header_value_discard_lws"
    BY <1>1 DEF HeaderValueDiscardLws, At
  <2>2. Passes \/ Reexecute([parser EXCEPT !.flags = @ \cup FlagOf(parser.header_state), !.state = "s_header_field_start"])
    BY <1>1, Zenon DEF HeaderValueDiscardLws, Passes
  <2> QED BY <2>1, <2>2, FieldAgain, PassesAhead
<1>2. CASE HeaderValueLws
  <2>1. pc = "switch" /\ parser.state = "s_header_value_lws"
    BY <1>2 DEF HeaderValueLws, At
  <2>2. CASE Reexecute(To("s_header_value_start"))
    <3>1. Rank("switch", "s_header_value_start") < Rank("switch", parser.state)
      BY <2>1 DEF Rank
    <3> QED BY <2>1, <2>2, <3>1, ToAgain
  <2>3. \/ Reexecute(To("s_header_value_start"))
        \/ Reexecute([parser EXCEPT !.flags = @ \cup FlagOf(parser.header_state), !.state = "s_header_field_start"])
    BY <1>2, Zenon DEF HeaderValueLws
  <2> QED BY <2>1, <2>2, <2>3, FieldAgain
<1>3. ValueStart => Passes
  BY Zenon DEF ValueStart, Passes
<1>4. HeaderValueDiscardWs \/ HeaderValueDiscardWsAlmostDone \/ HeaderValueStart \/ HeaderAlmostDone => Passes
  BY <1>3, Zenon DEF HeaderValueDiscardWs, HeaderValueDiscardWsAlmostDone, HeaderValueStart, HeaderAlmostDone, Passes
<1> QED BY <1>1, <1>2, <1>4, PassesAhead

\* The loop over a value is left at the end of the data or at a line end, and
\* goes on only to a later byte.
LEMMA LeftAhead ==
  ASSUME ParserInv, NEW q, NEW n, LeaveValue(q, n), n > p \/ (n = p /\ p = len /\ pc = "value") PROVE Ahead
<1> DEFINE c == Counted([q EXCEPT !.header_state = h_state], p - start)
<1>1. \/ pc' = "done" /\ p' = p /\ data' = data
      \/ p' = n /\ pc' = "next" /\ data' = data
  BY DEF LeaveValue
<1> QED BY <1>1 DEF Ahead

LEMMA ValueAhead ==
  ASSUME ParserInv, HeaderValue \/ ValueEndOfData \/ ValueCR \/ ValueLF \/ ValueSkipped \/ ValueDigit \/ ValueWord PROVE Ahead
<1>1. p \in Nat /\ len \in Nat /\ p + 1 > p
  BY LenNat DEF ParserInv, Types, Pos
<1>2. CASE HeaderValue
  <2>1. pc = "switch" /\ parser.state = "s_header_value" /\ pc' = "value" /\ p' = p /\ data' = data
    BY <1>2 DEF HeaderValue, At
  <2>2. p < len
    BY <2>1, SwitchFacts
  <2>3. Rank(pc', parser'.state) < Rank(pc, parser.state)
    BY <2>1 DEF Rank
  <2> QED BY <2>1, <2>2, <2>3 DEF Ahead
<1>3. CASE ValueEndOfData \/ ValueCR
  <2>1. \/ LeaveValue(parser, p) /\ p = len /\ pc = "value"
        \/ LeaveValue(To("s_header_almost_done"), p + 1)
    BY <1>3, Zenon DEF ValueEndOfData, ValueCR, InValue
  <2> QED BY <1>1, <2>1, LeftAhead
<1>4. CASE ValueLF
  <2> DEFINE q == Counted(To("s_header_almost_done"), p - start)
             r == [q EXCEPT !.header_state = h_state]
  <2>1. pc = "value" /\ p < len /\ (Error(q, "HEADER_OVERFLOW") \/ Reexecute(r))
    BY <1>4, Zenon DEF ValueLF, InValue
  <2>2. r.state = "s_header_almost_done"
    BY <2>1, ValueFacts DEF To, Counted, Parser
  <2> HIDE DEF q, r
  <2>3. CASE Error(q, "HEADER_OVERFLOW")
    BY <2>3, PassesAhead DEF Passes
  <2>4. CASE Reexecute(r)
    <3>1. Rank("switch", r.state) < Rank(pc, parser.state)
      BY <2>1, <2>2 DEF Rank
    <3> QED BY <2>1, <2>4, <3>1, AgainAhead
  <2> QED BY <2>1, <2>3, <2>4
<1>5. CASE ValueSkipped
  <2>1. /\ p < len /\ ch \notin {CR, LF} /\ data' = data
        /\ \E q \in p..len :
             LET limit == IF len - p < HTTP_MAX_HEADER_SIZE THEN len - p ELSE HTTP_MAX_HEADER_SIZE IN
             ((q < p + limit /\ data[q + 1] \in {CR, LF}) \/ q = len) /\ p' = q
    BY <1>5 DEF ValueSkipped
  <2>2. PICK q \in p..len : (data[q + 1] \in {CR, LF} \/ q = len) /\ p' = q
    BY <2>1
  <2>3. q # p
    BY <2>1, <2>2 DEF ch
  <2>4. p' > p
    BY <1>1, <2>2, <2>3
  <2> QED BY <2>1, <2>4 DEF Ahead
<1>6. CASE ValueDigit
  <2>1. Passes \/ (p' = p + 1 /\ data' = data)
    BY <1>6, Zenon DEF ValueDigit, Passes
  <2> QED BY <1>1, <2>1, PassesAhead DEF Ahead
<1>7. CASE ValueWord
  <2>1. p' = p + 1 /\ data' = data
    BY <1>7 DEF ValueWord
  <2> QED BY <1>1, <2>1 DEF Ahead
<1> QED BY <1>2, <1>3, <1>4, <1>5, <1>6, <1>7

LEMMA HeaderAhead == ASSUME ParserInv, Header PROVE Ahead
  BY HeaderFieldAhead, DiscardAhead, ValueAhead DEF Header

-----------------------------------------------------------------------------
\* The body.
LEMMA HeadersAlmostDoneAhead == ASSUME ParserInv, HeadersAlmostDone PROVE Ahead
<1>1. pc = "switch" /\ parser.state = "s_headers_almost_done" /\ parser \in Parser
  BY InSwitch DEF HeadersAlmostDone, At
<1> DEFINE u == {"F_UPGRADE", "F_CONNECTION_UPGRADE"} \subseteq parser.flags \/ parser.method = "CONNECT"
           q == [parser EXCEPT !.state = "s_headers_done", !.upgrade = u]
<1>2. \/ Passes \/ Reexecute(To("s_message_done")) \/ Reexecute(q)
  BY Zenon DEF HeadersAlmostDone, Passes
<1>3. q.state = "s_headers_done"
  BY <1>1 DEF Parser
<1> HIDE DEF q
<1>4. Rank("switch", "s_message_done") < Rank("switch", parser.state)
  BY <1>1 DEF Rank
<1>5. Rank("switch", q.state) < Rank("switch", parser.state)
  BY <1>1, <1>3 DEF Rank
<1> QED BY <1>1, <1>2, <1>4, <1>5, ToAgain, AgainInSwitch, PassesAhead

LEMMA BodyIdentityAhead == ASSUME ParserInv, BodyIdentity PROVE Ahead
<1>1. pc = "switch" /\ parser.state = "s_body_identity" /\ p \in Nat /\ len \in Nat /\ p < len /\ parser \in Parser
  BY SwitchFacts DEF BodyIdentity, At
<1>2. parser.content_length # 0
  BY <1>1, BodyLength
<1>3. ToRead \in Nat /\ ToRead > 0 /\ p + ToRead > p
  BY <1>1, <1>2, ToReadFacts
<1> DEFINE q == [parser EXCEPT !.content_length = @ - ToRead]
           r == [q EXCEPT !.state = "s_message_done"]
<1>4. /\ data' = data
      /\ \/ p' = p + ToRead - 1 /\ pc' = "switch" /\ parser' = r
         \/ p' = p + ToRead
  BY DEF BodyIdentity
<1>5. r.state = "s_message_done"
  BY <1>1 DEF Parser
<1> HIDE DEF r
<1>6. CASE p' = p + ToRead - 1 /\ pc' = "switch" /\ parser' = r
  <2>1. Rank(pc', parser'.state) < Rank(pc, parser.state)
    BY <1>1, <1>5, <1>6 DEF Rank
  <2>2. p' > p \/ p' = p
    BY <1>1, <1>3, <1>6
  <2> QED BY <1>1, <1>4, <1>6, <2>1, <2>2 DEF Ahead
<1> QED BY <1>3, <1>4, <1>6 DEF Ahead

LEMMA BodyAhead == ASSUME ParserInv, Body PROVE Ahead
<1>1. HeadersDone \/ MessageDone \/ ChunkSizeStart \/ ChunkSize => Passes
  BY Zenon DEF HeadersDone, MessageDone, ChunkSizeStart, ChunkSize, Passes
<1>2. ChunkParameters \/ ChunkSizeAlmostDone \/ ChunkDataAlmostDone \/ ChunkDataDone => Passes
  BY Zenon DEF ChunkParameters, ChunkSizeAlmostDone, ChunkDataAlmostDone, ChunkDataDone, Passes
<1>3. CASE BodyIdentityEof
  <2>1. p' = len /\ data' = data /\ p < len
    BY <1>3, SwitchFacts DEF BodyIdentityEof, At
  <2> QED BY <2>1 DEF Ahead
<1>4. CASE ChunkData
  <2>1. pc = "switch" /\ parser.state = "s_chunk_data" /\ p' = p + ToRead /\ data' = data
    BY <1>4 DEF ChunkData, At
  <2>2. p' > p
    BY <2>1, BodyLength, ToReadFacts
  <2> QED BY <2>1, <2>2 DEF Ahead
<1> QED BY <1>1, <1>2, <1>3, <1>4, PassesAhead, HeadersAlmostDoneAhead, BodyIdentityAhead DEF Body

-----------------------------------------------------------------------------
\* The head of the loop, and the end of the data.
LEMMA NextByteAhead == ASSUME ParserInv, NextByte PROVE Ahead
<1>1. pc = "next" /\ p < len /\ parser \in Parser
  BY DEF NextByte, ParserInv, Types
<1> DEFINE q == IF PARSING_HEADER(parser.state) THEN Counted(parser, 1) ELSE parser
<1>2. Error(q, "HEADER_OVERFLOW") \/ Reexecute(q)
  BY DEF NextByte
<1>3. q.state = parser.state
  BY <1>1, CountedFacts
<1> HIDE DEF q
<1>4. Rank("switch", q.state) < Rank(pc, parser.state)
  BY <1>1 DEF Rank
<1> QED BY <1>1, <1>2, <1>4, AgainAhead, PassesAhead DEF Passes

LEMMA StepAhead == ASSUME ParserInv, Step PROVE Ahead
<1>1. CASE EndOfData
  <2>1. pc' = "done" /\ p' = p /\ data' = data
    BY <1>1 DEF EndOfData
  <2> QED BY <2>1 DEF Ahead
<1> QED BY <1>1, NextByteAhead, StartLineAhead, HeaderAhead, BodyAhead DEF Step

LEMMA StepIsRunning == ASSUME ParserInv, Step PROVE pc # "done"
<1>1. NextByte \/ EndOfData => pc = "next"
  BY DEF NextByte, EndOfData
<1>2. StartLine => pc = "switch"
  BY DEF StartLine, At, AtOneOf, Dead, StartReqOrRes, StartRes, StartReq, ReqMethod, FirstMajor, Major, FirstMinor, Minor,
         FirstStatusCode, StatusCode, StatusStart, Status, ResLineAlmostDone, ReqSpacesBeforeUrl, ReqUrlStart, ReqUrl,
         ReqHttpStart, ReqLineAlmostDone
<1>3. Header => pc \in {"switch", "value"}
  BY DEF Header, At, AtOneOf, InValue, HeaderFieldStart, HeaderField, HeaderValueDiscardWs, HeaderValueDiscardWsAlmostDone,
         HeaderValueDiscardLws, HeaderValueStart, HeaderValue, ValueEndOfData, ValueCR, ValueLF, ValueSkipped, ValueDigit,
         ValueWord, HeaderAlmostDone, HeaderValueLws
<1>4. Body => pc = "switch"
  BY DEF Body, At, HeadersAlmostDone, HeadersDone, BodyIdentity, BodyIdentityEof, MessageDone, ChunkSizeStart, ChunkSize,
         ChunkParameters, ChunkSizeAlmostDone, ChunkData, ChunkDataAlmostDone, ChunkDataDone
<1> QED BY <1>1, <1>2, <1>3, <1>4 DEF Step

\* Every step of the parser brings its end closer, for every payload: it takes
\* at most five steps for each byte and five more, and no loop of the switch
\* comes back to a byte in the state it left it in.
THEOREM ParserAdvances == Spec => [](StepsLeft \in Nat) /\ [][Step /\ StepsLeft' < StepsLeft]_vars
<1>1. ParserInv => StepsLeft \in Nat
  BY StepsAreNumbers
<1>2. ASSUME ParserInv, ParserInv', [Next]_vars PROVE [Step /\ StepsLeft' < StepsLeft]_vars
  <2>1. CASE Step
    BY <1>2, <2>1, StepIsRunning, StepAhead, AheadIsCloser
  <2>2. CASE Done
    BY <2>2 DEF Done
  <2> QED BY <1>2, <2>1, <2>2 DEF Next
<1> QED BY <1>1, <1>2, InvHolds, PTL DEF Spec
=============================================================================
