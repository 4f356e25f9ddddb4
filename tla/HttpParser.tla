----------------------------- MODULE HttpParser -----------------------------
(***************************************************************************)
(* http_parser_execute as the HTTP dissector uses it: one call on the      *)
(* payload of one packet with a fresh parser of type HTTP_BOTH.  The       *)
(* callbacks of the dissector return 0 and leave the parser alone, so      *)
(* http_dissector_handles, which installs none, is the same run without    *)
(* `calls'; the verdict is http_errno.                                     *)
(*                                                                         *)
(* The payload is a sequence of symbols: the characters the parser tells   *)
(* apart, and the words it matches letter by letter (methods, names and    *)
(* values of headers), which are read in one step.  Letters stand for both *)
(* cases; those that start such a word only occur in words.                *)
(***************************************************************************)
EXTENDS HttpChars

CONSTANTS
  Payloads,              \* the payloads that are parsed
  ULLONG_MAX,            \* largest value of content_length
  HTTP_MAX_HEADER_SIZE   \* limit of nread

ASSUME PayloadAssumption == \A d \in Payloads : d \in Seq(Symbol)
ASSUME WidthAssumption   == ULLONG_MAX \in Nat /\ ULLONG_MAX >= 16
ASSUME HeaderAssumption  == HTTP_MAX_HEADER_SIZE \in Nat \ {0}

\* The pieces that are handed to callbacks, and the flags.
Piece == {"header_field", "header_value", "url", "body", "status"}
Flag  == {"F_CHUNKED", "F_CONNECTION_KEEP_ALIVE", "F_CONNECTION_CLOSE", "F_CONNECTION_UPGRADE",
          "F_TRAILING", "F_UPGRADE"}

\* The verdicts of a parser whose callbacks succeed.
http_errno == {"OK", "HEADER_OVERFLOW", "CLOSED_CONNECTION", "INVALID_VERSION", "INVALID_STATUS", "INVALID_METHOD",
               "INVALID_URL", "LF_EXPECTED", "INVALID_HEADER_TOKEN", "INVALID_CONTENT_LENGTH",
               "INVALID_CHUNK_SIZE", "INVALID_CONSTANT", "STRICT"}

NoMark == -1

VARIABLES
  data,    \* the payload
  p,       \* the position
  pc,      \* "next": at the head of the loop, "switch": at the switch, "value":
           \* in the loop over a header value, "done"
  parser,  \* the http_parser
  mark,    \* where the pieces that are being read started
  calls,   \* the callbacks made
  start,   \* locals of the loop over a header value
  h_state

localVars == <<start, h_state>>
outVars   == <<mark, calls>>
vars      == <<data, p, pc, parser, outVars, localVars>>

len == Len(data)
ch  == data[p + 1]

-----------------------------------------------------------------------------
\* The states, with the ones inside a literal left out.
HeaderPartState ==
  UrlState \cup
  {"s_dead", "s_start_req_or_res", "s_start_res", "s_res_first_http_major", "s_res_http_major",
   "s_res_first_http_minor", "s_res_http_minor", "s_res_first_status_code", "s_res_status_code",
   "s_res_status_start", "s_res_status", "s_res_line_almost_done", "s_start_req", "s_req_method",
   "s_req_spaces_before_url", "s_req_http_start", "s_req_first_http_major", "s_req_http_major",
   "s_req_first_http_minor", "s_req_http_minor", "s_req_line_almost_done", "s_header_field_start",
   "s_header_field", "s_header_value_discard_ws", "s_header_value_discard_ws_almost_done",
   "s_header_value_discard_lws", "s_header_value_start", "s_header_value", "s_header_value_lws",
   "s_header_almost_done", "s_chunk_size_start", "s_chunk_size", "s_chunk_parameters",
   "s_chunk_size_almost_done", "s_headers_almost_done", "s_headers_done"}

BodyState == {"s_chunk_data", "s_chunk_data_almost_done", "s_chunk_data_done", "s_body_identity",
              "s_body_identity_eof", "s_message_done"}

PARSING_HEADER(s) == s \in HeaderPartState

HeaderState == {"h_general", "h_connection", "h_content_length", "h_transfer_encoding", "h_upgrade",
                "h_matching_connection_token_start", "h_matching_connection_close",
                "h_matching_connection_token", "h_transfer_encoding_chunked",
                "h_connection_keep_alive", "h_connection_close", "h_connection_upgrade"}

-----------------------------------------------------------------------------
\* http_message_needs_eof and http_should_keep_alive.  F_SKIPBODY is never
\* set: the dissector has no on_headers_complete.
http_message_needs_eof(q) ==
  /\ q.type # "HTTP_REQUEST"
  /\ q.status_code \div 100 # 1 /\ q.status_code \notin {204, 304}
  /\ "F_CHUNKED" \notin q.flags /\ q.content_length = ULLONG_MAX

\* Mutant: HTTP/1.0 is taken for HTTP/1.1.
should_keep_alive_any_minor(q) ==
  /\ IF q.http_major > 0 THEN "F_CONNECTION_CLOSE" \notin q.flags ELSE "F_CONNECTION_KEEP_ALIVE" \in q.flags
  /\ ~http_message_needs_eof(q)

http_should_keep_alive(q) ==
  /\ IF q.http_major > 0 /\ q.http_minor > 0 THEN "F_CONNECTION_CLOSE" \notin q.flags
                                             ELSE "F_CONNECTION_KEEP_ALIVE" \in q.flags
  /\ ~http_message_needs_eof(q)

\* The state for the next message.
NEW_MESSAGE(q) == IF ~http_should_keep_alive(q) THEN "s_dead"
                  ELSE IF q.type = "HTTP_REQUEST" THEN "s_start_req" ELSE "s_start_res"

-----------------------------------------------------------------------------
\* http_parser_init and the start of http_parser_execute.
NewParser == [type |-> "HTTP_BOTH", state |-> "s_start_req_or_res", flags |-> {}, header_state |-> "h_general",
              nread |-> 0, content_length |-> 0, http_major |-> 0, http_minor |-> 0, status_code |-> 0,
              method |-> "DELETE", upgrade |-> FALSE, http_errno |-> "OK"]

Init ==
  /\ data \in Payloads
  /\ p = 0 /\ pc = "next"
  /\ parser = NewParser
  /\ mark = [f \in Piece |-> NoMark] /\ calls = <<>>
  /\ start = 0 /\ h_state = "h_general"

\* How a pass through the switch ends.
Break(q)     == parser' = q /\ p' = p + 1 /\ pc' = "next" /\ UNCHANGED <<data, localVars>>
Reexecute(q) == parser' = q /\ pc' = "switch" /\ UNCHANGED <<data, p, localVars>>
Return(q)    == parser' = q /\ p' = p + 1 /\ pc' = "done" /\ UNCHANGED <<data, localVars>>

\* An error ends the call: q is the parser then, and the marks are lost.
Error(q, e) == /\ parser' = [q EXCEPT !.http_errno = e] /\ pc' = "done"
               /\ UNCHANGED <<data, p, outVars, localVars>>

Silent == UNCHANGED outVars

MARK(f) == /\ mark' = IF mark[f] = NoMark THEN [mark EXCEPT ![f] = p] ELSE mark
           /\ UNCHANGED calls

\* Mutant: the mark of a piece that is handed over is not reset.
CallbackKeepsMark(f, q) ==
  IF mark[f] = NoMark THEN Silent
  ELSE calls' = Append(calls, [on |-> f, at |-> mark[f], length |-> q - mark[f]]) /\ UNCHANGED mark

\* CALLBACK_DATA: hand over a piece that ends before position q.
Callback(f, q) ==
  IF mark[f] = NoMark THEN Silent
  ELSE /\ calls' = Append(calls, [on |-> f, at |-> mark[f], length |-> q - mark[f]])
       /\ mark'  = [mark EXCEPT ![f] = NoMark]

\* The parser in state s.
To(s) == [parser EXCEPT !.state = s]

At(s) == pc = "switch" /\ parser.state = s
AtOneOf(S) == pc = "switch" /\ parser.state \in S

\* Mutant: a run of bytes that is read in a loop is counted as one.
CountedOnce(q, n) == [q EXCEPT !.nread = @ + (IF n > 0 THEN 1 ELSE 0)]

\* A byte of the header is counted.
Counted(q, n) == [q EXCEPT !.nread = @ + n]
TooLong(q)    == q.nread > HTTP_MAX_HEADER_SIZE

\* Mutant: the test has no margin for the digit that is added.
OverflowsLate(base) == ULLONG_MAX \div base < parser.content_length

\* The conservative test before a length takes one more digit.
Overflows(base) == (ULLONG_MAX - base) \div base < parser.content_length

\* The length with one more digit, with the width of uint64_t.
Shifted(base) == (base * parser.content_length + unhex(ch)) % (ULLONG_MAX + 1)

\* The head of the loop.
NextByte ==
  /\ pc = "next" /\ p < len
  /\ LET q == IF PARSING_HEADER(parser.state) THEN Counted(parser, 1) ELSE parser IN
     IF PARSING_HEADER(parser.state) /\ TooLong(q) THEN Error(q, "HEADER_OVERFLOW")
                                                   ELSE Reexecute(q) /\ Silent

\* The data are used up: what has been read of a piece is handed over.
EndOfData ==
  /\ pc = "next" /\ p = len
  /\ \/ \E f \in Piece : mark[f] # NoMark /\ Callback(f, p)
     \/ (\A f \in Piece : mark[f] = NoMark) /\ Silent
  /\ pc' = "done"
  /\ UNCHANGED <<data, p, parser, localVars>>

-----------------------------------------------------------------------------
\* The start line.
Dead ==
  /\ At("s_dead")
  /\ \/ ch \in {CR, LF} /\ Break(parser) /\ Silent
     \/ ch \notin {CR, LF} /\ Error(parser, "CLOSED_CONNECTION")

Fresh == [parser EXCEPT !.flags = {}, !.content_length = ULLONG_MAX]

StartReqOrRes ==
  /\ At("s_start_req_or_res")
  /\ \/ ch \in {CR, LF} /\ Break(parser)
     \/ ch = "HTTP/" /\ Break([Fresh EXCEPT !.type = "HTTP_RESPONSE", !.state = "s_res_first_http_major"])
     \/ ch = "HEAD"  /\ Break([Fresh EXCEPT !.type = "HTTP_REQUEST", !.method = ch, !.state = "s_req_method"])
     \/ /\ ch \notin {CR, LF, "HTTP/", "HEAD"}
        /\ Reexecute([Fresh EXCEPT !.type = "HTTP_REQUEST", !.state = "s_start_req"])
  /\ Silent

StartRes ==
  /\ At("s_start_res")
  /\ \/ ch \in {CR, LF} /\ Break(Fresh) /\ Silent
     \/ ch = "HTTP/" /\ Break([Fresh EXCEPT !.state = "s_res_first_http_major"]) /\ Silent
     \/ ch \notin {CR, LF, "HTTP/"} /\ Error(Fresh, "INVALID_CONSTANT")

StartReq ==
  /\ At("s_start_req")
  /\ \/ ch \in {CR, LF} /\ Break(parser) /\ Silent
     \/ ch \in Method /\ Break([Fresh EXCEPT !.method = ch, !.state = "s_req_method"]) /\ Silent
     \/ ch \notin {CR, LF} \cup Method /\ Error(Fresh, "INVALID_METHOD")

ReqMethod ==
  /\ At("s_req_method")
  /\ \/ ch = SP /\ Break(To("s_req_spaces_before_url")) /\ Silent
     \/ ch # SP /\ Error(parser, "INVALID_METHOD")

\* One more digit of a number that may have three.
MoreDigits(f, e) ==
  LET q == [parser EXCEPT ![f] = 10 * @ + unhex(ch)] IN
  IF q[f] > 999 THEN Error(q, e) ELSE Break(q) /\ Silent

FirstMajor ==
  /\ AtOneOf({"s_res_first_http_major", "s_req_first_http_major"})
  /\ LET res == parser.state = "s_res_first_http_major" IN
     \/ /\ IS_NUM(ch) /\ (res \/ ch # "0")
        /\ Break([parser EXCEPT !.http_major = unhex(ch),
                                !.state = IF res THEN "s_res_http_major" ELSE "s_req_http_major"])
        /\ Silent
     \/ ~(IS_NUM(ch) /\ (res \/ ch # "0")) /\ Error(parser, "INVALID_VERSION")

Major ==
  /\ AtOneOf({"s_res_http_major", "s_req_http_major"})
  /\ \/ /\ ch = "."
        /\ Break(To(IF parser.state = "s_res_http_major" THEN "s_res_first_http_minor" ELSE "s_req_first_http_minor"))
        /\ Silent
     \/ IS_NUM(ch) /\ MoreDigits("http_major", "INVALID_VERSION")
     \/ ch # "." /\ ~IS_NUM(ch) /\ Error(parser, "INVALID_VERSION")

FirstMinor ==
  /\ AtOneOf({"s_res_first_http_minor", "s_req_first_http_minor"})
  /\ \/ /\ IS_NUM(ch)
        /\ Break([parser EXCEPT !.http_minor = unhex(ch),
                                !.state = IF @ = "s_res_first_http_minor" THEN "s_res_http_minor" ELSE "s_req_http_minor"])
        /\ Silent
     \/ ~IS_NUM(ch) /\ Error(parser, "INVALID_VERSION")

\* The end of a response's version is a space, that of a request's a line end.
Minor ==
  /\ AtOneOf({"s_res_http_minor", "s_req_http_minor"})
  /\ LET next == IF parser.state = "s_res_http_minor" THEN [c \in {SP} |-> "s_res_first_status_code"]
                 ELSE [c \in {CR, LF} |-> IF c = CR THEN "s_req_line_almost_done" ELSE "s_header_field_start"]
     IN \/ ch \in DOMAIN next /\ Break(To(next[ch])) /\ Silent
        \/ IS_NUM(ch) /\ MoreDigits("http_minor", "INVALID_VERSION")
        \/ ch \notin DOMAIN next /\ ~IS_NUM(ch) /\ Error(parser, "INVALID_VERSION")

FirstStatusCode ==
  /\ At("s_res_first_status_code")
  /\ \/ IS_NUM(ch) /\ Break([parser EXCEPT !.status_code = unhex(ch), !.state = "s_res_status_code"]) /\ Silent
     \/ ch = SP /\ Break(parser) /\ Silent
     \/ ~IS_NUM(ch) /\ ch # SP /\ Error(parser, "INVALID_STATUS")

StatusCode ==
  /\ At("s_res_status_code")
  /\ \/ ch = SP /\ Break(To("s_res_status_start")) /\ Silent
     \/ ch = CR /\ Break(To("s_res_line_almost_done")) /\ Silent
     \/ ch = LF /\ Break(To("s_header_field_start")) /\ Silent
     \/ IS_NUM(ch) /\ MoreDigits("status_code", "INVALID_STATUS")
     \/ ch \notin {SP, CR, LF} /\ ~IS_NUM(ch) /\ Error(parser, "INVALID_STATUS")

StatusStart ==
  /\ At("s_res_status_start")
  /\ \/ ch = CR /\ Break(To("s_res_line_almost_done")) /\ Silent
     \/ ch = LF /\ Break(To("s_header_field_start")) /\ Silent
     \/ ch \notin {CR, LF} /\ Break(To("s_res_status")) /\ MARK("status")

Status ==
  /\ At("s_res_status")
  /\ \/ ch = CR /\ Break(To("s_res_line_almost_done")) /\ Callback("status", p)
     \/ ch = LF /\ Break(To("s_header_field_start")) /\ Callback("status", p)
     \/ ch \notin {CR, LF} /\ Break(parser) /\ Silent

\* STRICT_CHECK: the parser is built with HTTP_PARSER_STRICT.
ResLineAlmostDone ==
  /\ At("s_res_line_almost_done")
  /\ \/ ch = LF /\ Break(To("s_header_field_start")) /\ Silent
     \/ ch # LF /\ Error(parser, "STRICT")

\* A character of a URL that is read from state s.
UrlChar(s) ==
  LET t == parse_url_char(s, ch) IN
  IF t = "s_dead" THEN Error(To(t), "INVALID_URL") ELSE Break(To(t))

ReqSpacesBeforeUrl ==
  /\ At("s_req_spaces_before_url")
  /\ \/ ch = SP /\ Break(parser) /\ Silent
     \/ /\ ch # SP
        /\ LET t == parse_url_char(IF parser.method = "CONNECT" THEN "s_req_server_start" ELSE parser.state, ch) IN
           IF t = "s_dead" THEN Error(To(t), "INVALID_URL") ELSE Break(To(t)) /\ MARK("url")

\* The states where a URL may not end, and those where it may.
ReqUrlStart ==
  /\ AtOneOf({"s_req_schema", "s_req_schema_slash", "s_req_schema_slash_slash", "s_req_server_start"})
  /\ UrlChar(parser.state) /\ Silent

ReqUrl ==
  /\ AtOneOf({"s_req_server", "s_req_server_with_at", "s_req_path", "s_req_query_string_start",
              "s_req_query_string", "s_req_fragment_start", "s_req_fragment"})
  /\ \/ ch = SP /\ Break(To("s_req_http_start")) /\ Callback("url", p)
     \/ /\ ch \in {CR, LF}
        /\ Break([parser EXCEPT !.http_major = 0, !.http_minor = 9,
                                !.state = IF ch = CR THEN "s_req_line_almost_done" ELSE "s_header_field_start"])
        /\ Callback("url", p)
     \/ ch \notin {SP, CR, LF} /\ UrlChar(parser.state) /\ Silent

ReqHttpStart ==
  /\ At("s_req_http_start")
  /\ \/ ch = "HTTP/" /\ Break(To("s_req_first_http_major")) /\ Silent
     \/ ch = SP /\ Break(parser) /\ Silent
     \/ ch \notin {"HTTP/", SP} /\ Error(parser, "INVALID_CONSTANT")

ReqLineAlmostDone ==
  /\ At("s_req_line_almost_done")
  /\ \/ ch = LF /\ Break(To("s_header_field_start")) /\ Silent
     \/ ch # LF /\ Error(parser, "LF_EXPECTED")

-----------------------------------------------------------------------------
\* The names of headers.
NameState(c) == CASE c \in {"connection", "proxy-connection"} -> "h_connection"
                  [] c = "content-length"                     -> "h_content_length"
                  [] c = "transfer-encoding"                  -> "h_transfer_encoding"
                  [] c = "upgrade"                            -> "h_upgrade"
                  [] OTHER                                    -> "h_general"

\* Mutant: the line end is looked at again without a change of the state.
HeaderFieldStartStuck ==
  /\ At("s_header_field_start")
  /\ \/ ch = CR /\ Break(To("s_headers_almost_done")) /\ Silent
     \/ ch = LF /\ Reexecute(parser) /\ Silent
     \/ /\ TOKEN(ch)
        /\ Break([parser EXCEPT !.state = "s_header_field", !.header_state = NameState(ch)])
        /\ MARK("header_field")

HeaderFieldStart ==
  /\ At("s_header_field_start")
  /\ \/ ch = CR /\ Break(To("s_headers_almost_done")) /\ Silent
     \/ ch = LF /\ Reexecute(To("s_headers_almost_done")) /\ Silent
     \/ ch \notin {CR, LF} /\ ~TOKEN(ch) /\ Error(parser, "INVALID_HEADER_TOKEN")
     \/ /\ TOKEN(ch)
        /\ Break([parser EXCEPT !.state = "s_header_field", !.header_state = NameState(ch)])
        /\ MARK("header_field")

\* The rest of the name, up to q.  A name that goes on behind a known one is
\* another name.
HeaderField ==
  /\ At("s_header_field")
  /\ \E q \in p..len :
       LET named == Counted([parser EXCEPT !.header_state = IF q = p THEN @ ELSE "h_general"], q - p) IN
       /\ \A k \in p..(q - 1) : TOKEN(data[k + 1])
       /\ q < len => ~TOKEN(data[q + 1])
       /\ \/ TooLong(named) /\ Error(named, "HEADER_OVERFLOW")
          \/ /\ ~TooLong(named) /\ q = len
             /\ parser' = named /\ p' = q /\ pc' = "next"
             /\ Silent /\ UNCHANGED <<data, localVars>>
          \/ /\ ~TooLong(named) /\ q < len /\ data[q + 1] = ":"
             /\ parser' = [named EXCEPT !.state = "s_header_value_discard_ws"] /\ p' = q + 1 /\ pc' = "next"
             /\ Callback("header_field", q) /\ UNCHANGED <<data, localVars>>
          \/ ~TooLong(named) /\ q < len /\ data[q + 1] # ":" /\ Error(named, "INVALID_HEADER_TOKEN")

-----------------------------------------------------------------------------
\* The values of headers.
\* The state behind the word of a Connection option.
Option(c, other) == CASE c = "keep-alive" -> "h_connection_keep_alive"
                      [] c = "close"      -> "h_connection_close"
                      [] c = "upgrade"    -> "h_connection_upgrade"
                      [] c = "cl"         -> "h_matching_connection_close"
                      [] OTHER            -> other

\* The flag that a value leaves when it ends in state h.
FlagOf(h) == CASE h = "h_connection_keep_alive"     -> {"F_CONNECTION_KEEP_ALIVE"}
               [] h = "h_connection_close"          -> {"F_CONNECTION_CLOSE"}
               [] h = "h_connection_upgrade"        -> {"F_CONNECTION_UPGRADE"}
               [] h = "h_transfer_encoding_chunked" -> {"F_CHUNKED"}
               [] OTHER                             -> {}

\* The case s_header_value_start, which s_header_value_discard_ws falls into.
ValueStart ==
  LET h == parser.header_state
      q == To("s_header_value")
  IN IF h = "h_content_length" /\ ~IS_NUM(ch) THEN Error(q, "INVALID_CONTENT_LENGTH")
     ELSE /\ MARK("header_value")
          /\ Break(CASE h = "h_upgrade"           -> [q EXCEPT !.flags = @ \cup {"F_UPGRADE"}, !.header_state = "h_general"]
                     [] h = "h_transfer_encoding" -> [q EXCEPT !.header_state = IF ch = "chunked" THEN "h_transfer_encoding_chunked"
                                                                                                 ELSE "h_general"]
                     [] h = "h_content_length"    -> [q EXCEPT !.content_length = unhex(ch)]
                     [] h = "h_connection"        -> [q EXCEPT !.header_state = Option(ch, "h_matching_connection_token")]
                     [] h = "h_matching_connection_token_start" -> q
                     [] OTHER                     -> [q EXCEPT !.header_state = "h_general"])

HeaderValueDiscardWs ==
  /\ At("s_header_value_discard_ws")
  /\ \/ ch \in {SP, TAB} /\ Break(parser) /\ Silent
     \/ ch = CR /\ Break(To("s_header_value_discard_ws_almost_done")) /\ Silent
     \/ ch = LF /\ Break(To("s_header_value_discard_lws")) /\ Silent
     \/ ch \notin {SP, TAB, CR, LF} /\ ValueStart

HeaderValueStart == At("s_header_value_start") /\ ValueStart

\* The loop over the value, with its locals.
HeaderValue ==
  /\ At("s_header_value")
  /\ start' = p /\ h_state' = parser.header_state /\ pc' = "value"
  /\ UNCHANGED <<data, p, parser, outVars>>

InValue == pc = "value"

\* The counting behind the loop, for a parser q that goes on at position n.
LeaveValue(q, n) ==
  LET c == Counted([q EXCEPT !.header_state = h_state], p - start) IN
  IF TooLong(c) THEN /\ parser' = [c EXCEPT !.http_errno = "HEADER_OVERFLOW"] /\ pc' = "done"
                     /\ UNCHANGED <<data, p, localVars>>
  ELSE parser' = c /\ p' = n /\ pc' = "next" /\ UNCHANGED <<data, localVars>>

ValueEndOfData == InValue /\ p = len /\ LeaveValue(parser, p) /\ Silent

ValueCR ==
  /\ InValue /\ p < len /\ ch = CR
  /\ LeaveValue(To("s_header_almost_done"), p + 1)
  /\ Callback("header_value", p)

ValueLF ==
  /\ InValue /\ p < len /\ ch = LF
  /\ LET q == Counted(To("s_header_almost_done"), p - start) IN
     IF TooLong(q) THEN Error(q, "HEADER_OVERFLOW")
     ELSE /\ Callback("header_value", p)
          /\ Reexecute([q EXCEPT !.header_state = h_state])

\* A value that does not matter is skipped, to the next line end of the part
\* that memchr looks at or to the end of the data.
ValueSkipped ==
  /\ InValue /\ p < len /\ ch \notin {CR, LF} /\ h_state = "h_general"
  /\ \E q \in p..len :
       LET limit == IF len - p < HTTP_MAX_HEADER_SIZE THEN len - p ELSE HTTP_MAX_HEADER_SIZE IN
       /\ \/ q < p + limit /\ data[q + 1] \in {CR, LF}
          \/ q = len
       /\ \A k \in p..(q - 1) : k < p + limit => data[k + 1] \notin {CR, LF}
       /\ p' = q
  /\ UNCHANGED <<data, pc, parser, outVars, localVars>>

\* The decimal Content-Length.
ValueDigit ==
  /\ InValue /\ p < len /\ ch \notin {CR, LF} /\ h_state = "h_content_length"
  /\ LET q == [parser EXCEPT !.header_state = h_state] IN
        \/ ch = SP /\ p' = p + 1 /\ UNCHANGED <<data, pc, parser, outVars, localVars>>
        \/ ch # SP /\ ~IS_NUM(ch) /\ Error(q, "INVALID_CONTENT_LENGTH")
        \/ IS_NUM(ch) /\ Overflows(10) /\ Error(q, "INVALID_CONTENT_LENGTH")
        \/ /\ IS_NUM(ch) /\ ~Overflows(10)
           /\ parser' = [parser EXCEPT !.content_length = Shifted(10)] /\ p' = p + 1
           /\ UNCHANGED <<data, pc, outVars, localVars>>

\* The options of a Connection header and `chunked'.
ValueWord ==
  /\ InValue /\ p < len /\ ch \notin {CR, LF} /\ h_state \notin {"h_general", "h_content_length"}
  /\ LET c == LOWER(ch) IN
     h_state' = CASE h_state = "h_matching_connection_token_start" ->
                       Option(c, IF TOKEN(c) THEN "h_matching_connection_token"
                                 ELSE IF c \in {SP, TAB} THEN h_state ELSE "h_general")
                  [] h_state = "h_matching_connection_close" -> "h_matching_connection_token"
                  [] h_state = "h_transfer_encoding_chunked" -> IF ch = SP THEN h_state ELSE "h_general"
                  [] OTHER -> IF ch = "," THEN "h_matching_connection_token_start"
                              ELSE IF ch = SP THEN h_state ELSE "h_matching_connection_token"
  /\ parser' = [parser EXCEPT !.flags = @ \cup (IF ch = "," /\ h_state # "h_transfer_encoding_chunked"
                                                  THEN FlagOf(h_state) ELSE {})]
  /\ p' = p + 1
  /\ UNCHANGED <<data, pc, outVars, start>>

HeaderAlmostDone ==
  /\ At("s_header_almost_done")
  /\ \/ ch = LF /\ Break(To("s_header_value_lws")) /\ Silent
     \/ ch # LF /\ Error(parser, "STRICT")

\* White space at the start of the next line continues the value; otherwise
\* the header is complete.
HeaderValueLws ==
  /\ At("s_header_value_lws")
  /\ \/ ch \in {SP, TAB} /\ Reexecute(To("s_header_value_start"))
     \/ /\ ch \notin {SP, TAB}
        /\ Reexecute([parser EXCEPT !.flags = @ \cup FlagOf(parser.header_state), !.state = "s_header_field_start"])
  /\ Silent

HeaderValueDiscardWsAlmostDone ==
  /\ At("s_header_value_discard_ws_almost_done")
  /\ \/ ch = LF /\ Break(To("s_header_value_discard_lws")) /\ Silent
     \/ ch # LF /\ Error(parser, "STRICT")

\* The value may still follow on the next line, or is empty.
HeaderValueDiscardLws ==
  /\ At("s_header_value_discard_lws")
  /\ \/ ch \in {SP, TAB} /\ Break(To("s_header_value_discard_ws")) /\ Silent
     \/ /\ ch \notin {SP, TAB}
        /\ Reexecute([parser EXCEPT !.flags = @ \cup FlagOf(parser.header_state), !.state = "s_header_field_start"])
        /\ calls' = Append(calls, [on |-> "header_value", at |-> p, length |-> 0])
        /\ UNCHANGED mark

-----------------------------------------------------------------------------
\* The end of the headers, and how the body is read.
HeadersAlmostDone ==
  /\ At("s_headers_almost_done")
  /\ \/ ch # LF /\ Error(parser, "STRICT")
     \/ ch = LF /\ "F_TRAILING" \in parser.flags /\ Reexecute(To("s_message_done")) /\ Silent
     \/ /\ ch = LF /\ "F_TRAILING" \notin parser.flags
        /\ Reexecute([parser EXCEPT !.state   = "s_headers_done",
                                    !.upgrade = \/ {"F_UPGRADE", "F_CONNECTION_UPGRADE"} \subseteq parser.flags
                                                \/ parser.method = "CONNECT"])
        /\ Silent

HeadersDone ==
  /\ At("s_headers_done")
  /\ LET q       == [parser EXCEPT !.nread = 0]
         hasBody == "F_CHUNKED" \in q.flags \/ q.content_length \notin {0, ULLONG_MAX}
         leaves  == q.upgrade /\ (q.method = "CONNECT" \/ ~hasBody)
         body    == CASE "F_CHUNKED" \in q.flags -> "s_chunk_size_start"
                      [] "F_CHUNKED" \notin q.flags /\ q.content_length \notin {0, ULLONG_MAX} -> "s_body_identity"
                      [] ~hasBody /\ q.content_length # 0 /\ http_message_needs_eof(q) -> "s_body_identity_eof"
                      [] OTHER -> NEW_MESSAGE(q)
     IN \/ ch # LF /\ Error(parser, "STRICT")
        \/ ch = LF /\ leaves  /\ Return([q EXCEPT !.state = NEW_MESSAGE(q)]) /\ Silent
        \/ ch = LF /\ ~leaves /\ Break([q EXCEPT !.state = body]) /\ Silent

\* Mutant: a body is read to its length, even if the packet is shorter.
ToReadAll == parser.content_length

\* The part of the body, or of a chunk, that is in the data.
ToRead == IF parser.content_length < len - p THEN parser.content_length ELSE len - p

BodyIdentity ==
  /\ At("s_body_identity")
  /\ LET n    == ToRead
         q    == [parser EXCEPT !.content_length = @ - n]
         from == IF mark["body"] = NoMark THEN p ELSE mark["body"]
     IN \/ /\ q.content_length = 0
           /\ calls' = Append(calls, [on |-> "body", at |-> from, length |-> p + n - from])
           /\ mark'  = [mark EXCEPT !["body"] = NoMark]
           /\ parser' = [q EXCEPT !.state = "s_message_done"] /\ p' = p + n - 1 /\ pc' = "switch"
        \/ /\ q.content_length # 0
           /\ MARK("body")
           /\ parser' = q /\ p' = p + n /\ pc' = "next"
  /\ UNCHANGED <<data, localVars>>

BodyIdentityEof ==
  /\ At("s_body_identity_eof")
  /\ MARK("body")
  /\ p' = len /\ pc' = "next"
  /\ UNCHANGED <<data, parser, localVars>>

\* After an upgrade the rest belongs to another protocol.
MessageDone ==
  /\ At("s_message_done")
  /\ LET q == To(NEW_MESSAGE(parser)) IN IF parser.upgrade THEN Return(q) ELSE Break(q)
  /\ Silent

ChunkSizeStart ==
  /\ At("s_chunk_size_start")
  /\ \/ IS_HEX(ch) /\ Break([parser EXCEPT !.content_length = unhex(ch), !.state = "s_chunk_size"]) /\ Silent
     \/ ~IS_HEX(ch) /\ Error(parser, "INVALID_CHUNK_SIZE")

ChunkSize ==
  /\ At("s_chunk_size")
  /\ \/ ch = CR /\ Break(To("s_chunk_size_almost_done")) /\ Silent
     \/ ch \in {";", SP} /\ Break(To("s_chunk_parameters")) /\ Silent
     \/ ~IS_HEX(ch) /\ ch \notin {CR, ";", SP} /\ Error(parser, "INVALID_CHUNK_SIZE")
     \/ IS_HEX(ch) /\ Overflows(16) /\ Error(parser, "INVALID_CONTENT_LENGTH")
     \/ IS_HEX(ch) /\ ~Overflows(16) /\ Break([parser EXCEPT !.content_length = Shifted(16)]) /\ Silent

ChunkParameters ==
  /\ At("s_chunk_parameters")
  /\ IF ch = CR THEN Break(To("s_chunk_size_almost_done")) ELSE Break(parser)
  /\ Silent

\* Mutant: the last chunk is not told apart.
ChunkSizeAlmostDoneNoLast ==
  /\ At("s_chunk_size_almost_done")
  /\ \/ ch # LF /\ Error(parser, "STRICT")
     \/ ch = LF /\ Break([parser EXCEPT !.nread = 0, !.state = "s_chunk_data"]) /\ Silent

\* The last chunk has size 0; trailing headers follow it.
ChunkSizeAlmostDone ==
  /\ At("s_chunk_size_almost_done")
  /\ LET q == [parser EXCEPT !.nread = 0] IN
     \/ ch # LF /\ Error(parser, "STRICT")
     \/ /\ ch = LF /\ q.content_length = 0
        /\ Break([q EXCEPT !.flags = @ \cup {"F_TRAILING"}, !.state = "s_header_field_start"]) /\ Silent
     \/ ch = LF /\ q.content_length # 0 /\ Break([q EXCEPT !.state = "s_chunk_data"]) /\ Silent

ChunkData ==
  /\ At("s_chunk_data")
  /\ LET n == ToRead IN
     /\ parser' = [parser EXCEPT !.content_length = @ - n,
                                 !.state = IF parser.content_length = n THEN "s_chunk_data_almost_done" ELSE @]
     /\ p' = p + n
  /\ MARK("body")
  /\ pc' = "next"
  /\ UNCHANGED <<data, localVars>>

ChunkDataAlmostDone ==
  /\ At("s_chunk_data_almost_done")
  /\ \/ ch = CR /\ Break(To("s_chunk_data_done")) /\ Callback("body", p)
     \/ ch # CR /\ Error(parser, "STRICT")

ChunkDataDone ==
  /\ At("s_chunk_data_done")
  /\ \/ ch = LF /\ Break([parser EXCEPT !.nread = 0, !.state = "s_chunk_size_start"]) /\ Silent
     \/ ch # LF /\ Error(parser, "STRICT")

-----------------------------------------------------------------------------
Done == pc = "done" /\ UNCHANGED vars

StartLine ==
  \/ Dead \/ StartReqOrRes \/ StartRes \/ StartReq \/ ReqMethod
  \/ FirstMajor \/ Major \/ FirstMinor \/ Minor
  \/ FirstStatusCode \/ StatusCode \/ StatusStart \/ Status \/ ResLineAlmostDone
  \/ ReqSpacesBeforeUrl \/ ReqUrlStart \/ ReqUrl \/ ReqHttpStart \/ ReqLineAlmostDone

Header ==
  \/ HeaderFieldStart \/ HeaderField
  \/ HeaderValueDiscardWs \/ HeaderValueDiscardWsAlmostDone \/ HeaderValueDiscardLws
  \/ HeaderValueStart \/ HeaderValue \/ ValueEndOfData \/ ValueCR \/ ValueLF
  \/ ValueSkipped \/ ValueDigit \/ ValueWord
  \/ HeaderAlmostDone \/ HeaderValueLws

Body ==
  \/ HeadersAlmostDone \/ HeadersDone
  \/ BodyIdentity \/ BodyIdentityEof \/ MessageDone
  \/ ChunkSizeStart \/ ChunkSize \/ ChunkParameters \/ ChunkSizeAlmostDone
  \/ ChunkData \/ ChunkDataAlmostDone \/ ChunkDataDone

Step == NextByte \/ EndOfData \/ StartLine \/ Header \/ Body

Next == Step \/ Done

Spec     == Init /\ [][Next]_vars
FairSpec == Spec /\ WF_vars(Step)

-----------------------------------------------------------------------------
\* Every variable has its type; the verdict is never the parser's "encountered
\* unexpected internal state".
TypeOK ==
  /\ data \in Seq(Symbol) /\ p \in 0..len /\ pc \in {"next", "switch", "value", "done"}
  /\ parser \in [type : {"HTTP_BOTH", "HTTP_REQUEST", "HTTP_RESPONSE"},
                 state : HeaderPartState \cup BodyState, flags : SUBSET Flag, header_state : HeaderState,
                 nread : Nat, content_length : 0..ULLONG_MAX,
                 http_major : Nat, http_minor : Nat, status_code : Nat, method : Method,
                 upgrade : BOOLEAN, http_errno : http_errno]
  /\ mark \in [Piece -> {NoMark} \cup 0..len]
  /\ calls \in Seq([on : Piece, at : 0..len, length : 0..len])
  /\ start \in 0..len /\ h_state \in HeaderState

\* The asserts of http_parser_execute: a chunk's size is read with a fresh
\* count and only in a chunked message, a body is read with a length that is
\* known and not used up, the loops over names and values are entered with a
\* header state they have a case for, callbacks are made before any error, and
\* one piece at most is left open when the data end.
AssertionsHold ==
  /\ At("s_chunk_size_start") => parser.nread = 1
  /\ AtOneOf({"s_chunk_size_start", "s_chunk_size", "s_chunk_parameters", "s_chunk_size_almost_done",
              "s_chunk_data", "s_chunk_data_almost_done", "s_chunk_data_done"}) => "F_CHUNKED" \in parser.flags
  /\ AtOneOf({"s_body_identity", "s_chunk_data"}) => parser.content_length \notin {0, ULLONG_MAX}
  /\ At("s_chunk_data_almost_done") => parser.content_length = 0
  /\ At("s_header_field") => parser.header_state \in {"h_general", "h_connection", "h_content_length",
                                                      "h_transfer_encoding", "h_upgrade"}
  /\ InValue /\ p < len /\ ch \notin {CR, LF} => h_state \notin {"h_connection", "h_transfer_encoding"}
  /\ pc # "done" => parser.http_errno = "OK"
  /\ pc = "next" /\ p = len => \A f, g \in Piece : mark[f] # NoMark /\ mark[g] # NoMark => f = g

\* The pieces handed to the callbacks of the dissector are parts of the
\* payload, in its order and without overlap, whatever the payload is; and
\* since on_header_field prints "name: " and on_header_value the end of the
\* line, a name is followed by a value and a value stands behind a name.
CallsInOrder ==
  \A i \in 1..Len(calls) :
    /\ calls[i].at + calls[i].length <= len
    /\ calls[i].length = 0 => calls[i].on = "header_value"
    /\ i > 1 => calls[i - 1].at + calls[i - 1].length <= calls[i].at
    /\ calls[i].on = "header_value" => i > 1 /\ calls[i - 1].on \in {"header_field", "header_value"}
    /\ calls[i].on = "header_field" /\ i < Len(calls) => calls[i + 1].on = "header_value"

\* An empty line behind one that is not empty, the end of a header, ends with
\* symbol n.
HeaderEnds(n) ==
  /\ data[n] = LF
  /\ \E k \in 1..(n - 1) :
       /\ data[k] = LF /\ (k = n - 1 \/ (k = n - 2 /\ data[n - 1] = CR))
       /\ \E i \in 1..k : data[i] \notin {CR, LF}

\* A header that is longer than HTTP_MAX_HEADER_SIZE is refused, however its
\* bytes are spread over names, values and lines, though the loops over them
\* count in bulk; and a payload below that size is never refused for it.
HeaderLimit ==
  pc = "done" =>
    /\ parser.http_errno = "OK" =>
         len <= HTTP_MAX_HEADER_SIZE \/ \E n \in 1..len : HeaderEnds(n) /\ n <= HTTP_MAX_HEADER_SIZE
    /\ parser.http_errno = "HEADER_OVERFLOW" => len >= HTTP_MAX_HEADER_SIZE

\* http_parser_execute returns: the states that look at a byte again, and the
\* body that steps back by one, do not keep it busy.
ParserStops == <>(pc = "done")

=============================================================================
