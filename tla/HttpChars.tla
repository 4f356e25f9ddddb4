------------------------------ MODULE HttpChars ------------------------------
(***************************************************************************)
(* The characters that http-parser.c tells apart, their classes, and the   *)
(* step of the state machine for URLs, which http_parser_execute and       *)
(* http_parser_parse_url share.  Letters stand for both cases.             *)
(***************************************************************************)
EXTENDS Integers, Sequences

SP  == " "
TAB == "TAB"
CR  == "CR"
LF  == "LF"

Digit  == {"0", "1", "2", "3", "4", "5", "6", "7", "8", "9"}
Letter == {"a", "b", "d", "e", "f", "x"}

Method == {"DELETE", "GET", "HEAD", "POST", "PUT", "CONNECT", "OPTIONS", "TRACE", "COPY", "LOCK",
           "MKCOL", "MOVE", "PROPFIND", "PROPPATCH", "SEARCH", "UNLOCK", "REPORT", "MKACTIVITY",
           "CHECKOUT", "MERGE", "M-SEARCH", "NOTIFY", "SUBSCRIBE", "UNSUBSCRIBE", "PATCH", "PURGE",
           "MKCALENDAR"}

\* The words of headers; "cl" is one that starts like "close".
Word == {"connection", "proxy-connection", "content-length", "transfer-encoding", "upgrade",
         "keep-alive", "close", "chunked", "cl"}

Symbol == Digit \cup Letter \cup Method \cup Word
            \cup {"HTTP/", SP, TAB, CR, LF, ":", ",", ";", ".", "-", "/", "?", "#", "@", "[", "]", "*", "%"}

-----------------------------------------------------------------------------
\* Classes of characters, and the value of a digit.
IS_NUM(c)           == c \in Digit
IS_ALPHA(c)         == c \in Letter
IS_MARK(c)          == c \in {"-", ".", "*"}
IS_USERINFO_CHAR(c) == IS_ALPHA(c) \/ IS_NUM(c) \/ IS_MARK(c) \/ c \in {"%", ";", ":", ","}
IS_URL_CHAR(c)      == c \notin {SP, TAB, CR, LF, "#", "?"}
TOKEN(c)            == c \in Digit \cup Letter \cup Method \cup Word \cup {"-", ".", "*", "%", "#", "GRAVE"}

\* c | 0x20, which is meant for letters.
LOWER(c) == CASE c = TAB -> ")" [] c = "@" -> "GRAVE" [] OTHER -> c

HexDigits == <<"0", "1", "2", "3", "4", "5", "6", "7", "8", "9", "a", "b", "c", "d", "e", "f">>
IS_HEX(c) == \E n \in 1..16 : HexDigits[n] = c
unhex(c)  == CHOOSE n \in 0..15 : HexDigits[n + 1] = c

-----------------------------------------------------------------------------
\* The states inside a URL.
UrlState == {"s_req_schema", "s_req_schema_slash", "s_req_schema_slash_slash", "s_req_server_start",
             "s_req_server", "s_req_server_with_at", "s_req_path", "s_req_query_string_start",
             "s_req_query_string", "s_req_fragment_start", "s_req_fragment"}
InServer == {"s_req_server_start", "s_req_server", "s_req_server_with_at"}
InRest   == {"s_req_path", "s_req_query_string_start", "s_req_query_string", "s_req_fragment_start", "s_req_fragment"}

\* parse_url_char: the state after a character of a URL, "s_dead" if it is
\* not allowed there.
parse_url_char(s, c) ==
  IF c \in {SP, TAB, CR, LF} THEN "s_dead" ELSE
  CASE s = "s_req_spaces_before_url" /\ c \in {"/", "*"}                             -> "s_req_path"
    [] s \in {"s_req_spaces_before_url", "s_req_schema"} /\ IS_ALPHA(c)             -> "s_req_schema"
    [] s = "s_req_schema" /\ c = ":"                                                -> "s_req_schema_slash"
    [] s = "s_req_schema_slash" /\ c = "/"                                          -> "s_req_schema_slash_slash"
    [] s = "s_req_schema_slash_slash" /\ c = "/"                                    -> "s_req_server_start"
    [] s \in InServer /\ c = "/"                                                    -> "s_req_path"
    [] s \in InServer /\ (IS_USERINFO_CHAR(c) \/ c \in {"[", "]"})                  -> "s_req_server"
    [] s \in InServer \ {"s_req_server_with_at"} /\ c = "@"                         -> "s_req_server_with_at"
    [] s = "s_req_path" /\ IS_URL_CHAR(c)                                           -> s
    [] s \in InServer \cup {"s_req_path"} /\ c = "?"                                -> "s_req_query_string_start"
    [] s \in {"s_req_query_string_start", "s_req_query_string"} /\ c # "#"          -> "s_req_query_string"
    [] s = "s_req_fragment_start" /\ c # "#"                                        -> "s_req_fragment"
    [] s \in InRest \ {"s_req_fragment"} /\ c = "#"                                 -> "s_req_fragment_start"
    [] s = "s_req_fragment"                                                         -> s
    [] OTHER                                                                        -> "s_dead"
=============================================================================
