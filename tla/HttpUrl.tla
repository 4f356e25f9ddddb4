------------------------------- MODULE HttpUrl -------------------------------
(***************************************************************************)
(* http_parser_parse_url and http_parse_host: a client splits URLs, one    *)
(* call after the other, into the same struct http_parser_url.  It clears  *)
(* the struct once; a call only resets the port and the set of fields, so  *)
(* that the offsets and lengths of the call before are still there.        *)
(*                                                                         *)
(* Buffers are shorter than 65536 bytes, so the uint16_t offsets and       *)
(* lengths do not wrap.                                                    *)
(***************************************************************************)
EXTENDS HttpChars

CONSTANTS
  MaxCalls,  \* bound on the number of calls
  Urls,      \* the buffers of each call
  Behinds    \* what may follow a buffer in memory, up to a space

PORT_MAX == 65535

ASSUME CallsAssumption  == MaxCalls \in Nat
ASSUME UrlAssumption    == \A n \in 1..MaxCalls : \A b \in Urls[n] : b \in Seq(Symbol) /\ Len(b) <= PORT_MAX
ASSUME BehindAssumption == \A b \in Behinds : b \in Seq(Symbol)

UrlField == {"UF_SCHEMA", "UF_HOST", "UF_PORT", "UF_PATH", "UF_QUERY", "UF_FRAGMENT", "UF_USERINFO"}
UF_MAX   == "UF_MAX"

VARIABLES
  buf, behind, is_connect,   \* the arguments of the call, and the memory behind buf
  u,        \* the struct: field_set, port, and off and len of each field
  pc,       \* "idle" between two calls, "url" and "host" in the loops, "checks"
  s,        \* the state of the loop
  p,        \* its position
  old_uf,   \* the field that is being read
  found_at, \* whether the authority has an '@'
  stop,     \* buflen of http_parse_host
  result,   \* what the last call returned
  ncalls    \* number of calls

argVars   == <<buf, behind, is_connect>>
localVars == <<s, p, old_uf, found_at, stop>>
vars      == <<argVars, u, pc, localVars, result, ncalls>>

\* The byte at an offset.
Byte(k) == IF k < Len(buf) THEN buf[k + 1]
           ELSE IF k < Len(buf) + Len(behind) THEN behind[k - Len(buf) + 1] ELSE SP

-----------------------------------------------------------------------------
\* http_parse_host_char.
IS_HOST_CHAR(c) == IS_ALPHA(c) \/ IS_NUM(c) \/ c \in {".", "-"}

http_parse_host_char(t, c) ==
  CASE t \in {"s_http_userinfo", "s_http_userinfo_start"} /\ c = "@"               -> "s_http_host_start"
    [] t \in {"s_http_userinfo", "s_http_userinfo_start"} /\ IS_USERINFO_CHAR(c)   -> "s_http_userinfo"
    [] t = "s_http_host_start" /\ c = "["                                          -> "s_http_host_v6_start"
    [] t \in {"s_http_host_start", "s_http_host"} /\ IS_HOST_CHAR(c)               -> "s_http_host"
    [] t \in {"s_http_host", "s_http_host_v6_end"} /\ c = ":"                      -> "s_http_host_port_start"
    [] t = "s_http_host_v6" /\ c = "]"                                             -> "s_http_host_v6_end"
    [] t \in {"s_http_host_v6", "s_http_host_v6_start"} /\ (IS_HEX(c) \/ c \in {":", "."}) -> "s_http_host_v6"
    [] t \in {"s_http_host_port", "s_http_host_port_start"} /\ IS_NUM(c)           -> "s_http_host_port"
    [] OTHER                                                                       -> "s_http_host_dead"

HostState == {"s_http_userinfo_start", "s_http_userinfo", "s_http_host_start", "s_http_host_v6_start", "s_http_host",
              "s_http_host_v6", "s_http_host_v6_end", "s_http_host_port_start", "s_http_host_port"}

\* The states in which an authority may not end.
Unfinished == {"s_http_host_start", "s_http_host_v6_start", "s_http_host_v6", "s_http_host_port_start",
               "s_http_userinfo", "s_http_userinfo_start"}

\* Field f gets one more byte at the position, a first one if it is `new'.
Grown(v, f, new) ==
  IF new THEN [v EXCEPT !.off[f] = p, !.len[f] = 1, !.field_set = @ \cup {f}]
         ELSE [v EXCEPT !.len[f] = @ + 1]

-----------------------------------------------------------------------------
Init ==
  /\ buf = <<>> /\ behind = <<>> /\ is_connect = FALSE
  /\ u = [field_set |-> {}, port |-> 0, off |-> [f \in UrlField |-> 0], len |-> [f \in UrlField |-> 0]]
  /\ pc = "idle"
  /\ s = "s_dead" /\ p = 0 /\ old_uf = UF_MAX /\ found_at = FALSE /\ stop = 0
  /\ result = 0 /\ ncalls = 0

\* A call begins.
Call(b, m, connect) ==
  /\ pc = "idle" /\ ncalls < MaxCalls
  /\ buf' = b /\ behind' = m /\ is_connect' = connect
  /\ u' = [u EXCEPT !.port = 0, !.field_set = {}]
  /\ pc' = "url"
  /\ s' = IF connect THEN "s_req_server_start" ELSE "s_req_spaces_before_url"
  /\ p' = 0 /\ old_uf' = UF_MAX /\ found_at' = FALSE
  /\ ncalls' = ncalls + 1
  /\ UNCHANGED <<stop, result>>

\* A call ends.
Return(r) == pc' = "idle" /\ result' = r /\ UNCHANGED <<argVars, localVars, ncalls>>

Delimiter == {"s_req_schema_slash", "s_req_schema_slash_slash", "s_req_server_start",
              "s_req_query_string_start", "s_req_fragment_start"}

\* The field that a byte belongs to which leads to state t.
FieldOf(t) == CASE t = "s_req_schema" -> "UF_SCHEMA"
                [] t \in {"s_req_server", "s_req_server_with_at"} -> "UF_HOST"
                [] t = "s_req_path" -> "UF_PATH"
                [] t = "s_req_query_string" -> "UF_QUERY"
                [] t = "s_req_fragment" -> "UF_FRAGMENT"

next_s == parse_url_char(s, buf[p + 1])

BadChar ==
  /\ pc = "url" /\ p < Len(buf) /\ next_s = "s_dead"
  /\ Return(1)
  /\ UNCHANGED u

SkipDelimiter ==
  /\ pc = "url" /\ p < Len(buf) /\ next_s \in Delimiter
  /\ s' = next_s /\ p' = p + 1
  /\ UNCHANGED <<argVars, u, pc, old_uf, found_at, stop, result, ncalls>>

\* Mutant: only an '@' in the last place is remembered.
FieldCharForgetsAt ==
  /\ pc = "url" /\ p < Len(buf) /\ next_s \notin Delimiter \cup {"s_dead"}
  /\ LET uf == FieldOf(next_s) IN u' = Grown(u, uf, uf # old_uf) /\ old_uf' = uf
  /\ found_at' = (next_s = "s_req_server_with_at")
  /\ s' = next_s /\ p' = p + 1
  /\ UNCHANGED <<argVars, pc, stop, result, ncalls>>

FieldChar ==
  /\ pc = "url" /\ p < Len(buf) /\ next_s \notin Delimiter \cup {"s_dead"}
  /\ LET uf == FieldOf(next_s) IN u' = Grown(u, uf, uf # old_uf) /\ old_uf' = uf
  /\ found_at' = (found_at \/ next_s = "s_req_server_with_at")
  /\ s' = next_s /\ p' = p + 1
  /\ UNCHANGED <<argVars, pc, stop, result, ncalls>>

\* Mutant: the length of the host is not reset.
UrlEndKeepsLen ==
  /\ pc = "url" /\ p = Len(buf)
  /\ \/ /\ u.field_set \cap {"UF_SCHEMA", "UF_HOST"} = {}
        /\ pc' = "checks"
        /\ UNCHANGED <<s, p, stop>>
     \/ /\ u.field_set \cap {"UF_SCHEMA", "UF_HOST"} # {}
        /\ stop' = u.off["UF_HOST"] + u.len["UF_HOST"]
        /\ s' = IF found_at THEN "s_http_userinfo_start" ELSE "s_http_host_start"
        /\ p' = u.off["UF_HOST"]
        /\ pc' = "host"
  /\ UNCHANGED <<argVars, u, old_uf, found_at, result, ncalls>>

\* The authority, if there is one or should be one, is split further.
UrlEnd ==
  /\ pc = "url" /\ p = Len(buf)
  /\ \/ /\ u.field_set \cap {"UF_SCHEMA", "UF_HOST"} = {}
        /\ pc' = "checks"
        /\ UNCHANGED <<u, s, p, stop>>
     \/ /\ u.field_set \cap {"UF_SCHEMA", "UF_HOST"} # {}
        /\ stop' = u.off["UF_HOST"] + u.len["UF_HOST"]
        /\ u' = [u EXCEPT !.len["UF_HOST"] = 0]
        /\ s' = IF found_at THEN "s_http_userinfo_start" ELSE "s_http_host_start"
        /\ p' = u.off["UF_HOST"]
        /\ pc' = "host"
  /\ UNCHANGED <<argVars, old_uf, found_at, result, ncalls>>

new_s == http_parse_host_char(s, Byte(p))

BadHostChar ==
  /\ pc = "host" /\ p < stop /\ new_s = "s_http_host_dead"
  /\ Return(1)
  /\ UNCHANGED u

\* The host moves to where its name or its address starts; it is not entered
\* in the set of fields here.
HostChar ==
  /\ pc = "host" /\ p < stop /\ new_s # "s_http_host_dead"
  /\ u' = CASE new_s \in {"s_http_host", "s_http_host_v6"} ->
                 [u EXCEPT !.off["UF_HOST"] = IF new_s # s THEN p ELSE @, !.len["UF_HOST"] = @ + 1]
            [] new_s = "s_http_host_port" -> Grown(u, "UF_PORT", s # new_s)
            [] new_s = "s_http_userinfo"  -> Grown(u, "UF_USERINFO", s # new_s)
            [] OTHER -> u
  /\ s' = new_s /\ p' = p + 1
  /\ UNCHANGED <<argVars, pc, old_uf, found_at, stop, result, ncalls>>

HostEnd ==
  /\ pc = "host" /\ p = stop
  /\ \/ s \in Unfinished /\ Return(1)
     \/ s \notin Unfinished /\ pc' = "checks" /\ UNCHANGED <<argVars, localVars, result, ncalls>>
  /\ UNCHANGED u

\* The number that a sequence of digits says.
Number(digits) ==
  LET v[i \in 0..Len(digits)] == IF i = 0 THEN 0 ELSE 10 * v[i - 1] + unhex(digits[i])
  IN v[Len(digits)]

\* strtoul from offset k: all the digits there, those behind the field too.
\* Larger values than a port are not told apart.
strtoul(k) ==
  LET n == CHOOSE m \in 0..(Len(buf) + Len(behind)) :
             /\ ~IS_NUM(Byte(k + m)) /\ \A i \in 0..(m - 1) : IS_NUM(Byte(k + i))
      v == Number([i \in 1..n |-> Byte(k + i - 1)])
  IN IF v \in 0..PORT_MAX THEN v ELSE PORT_MAX + 1

\* Mutant: the port is not compared with its maximum.
ChecksAnyPort ==
  /\ pc = "checks"
  /\ LET v == IF "UF_PORT" \in u.field_set THEN strtoul(u.off["UF_PORT"]) ELSE 0
         refused == is_connect /\ u.field_set # {"UF_HOST", "UF_PORT"}
     IN \/ refused  /\ Return(1) /\ UNCHANGED u
        \/ ~refused /\ Return(0) /\ u' = [u EXCEPT !.port = v]

\* Mutant: the number is read without its first digit.
ChecksShortPort ==
  /\ pc = "checks"
  /\ LET v == IF "UF_PORT" \in u.field_set THEN strtoul(u.off["UF_PORT"] + 1) ELSE 0
         refused == (is_connect /\ u.field_set # {"UF_HOST", "UF_PORT"}) \/ v > PORT_MAX
     IN \/ refused  /\ Return(1) /\ UNCHANGED u
        \/ ~refused /\ Return(0) /\ u' = [u EXCEPT !.port = v]

\* CONNECT takes a host with a port only; a port has 16 bits.
Checks ==
  /\ pc = "checks"
  /\ LET v == IF "UF_PORT" \in u.field_set THEN strtoul(u.off["UF_PORT"]) ELSE 0
         refused == (is_connect /\ u.field_set # {"UF_HOST", "UF_PORT"}) \/ v > PORT_MAX
     IN \/ refused  /\ Return(1) /\ UNCHANGED u
        \/ ~refused /\ Return(0) /\ u' = [u EXCEPT !.port = v]

-----------------------------------------------------------------------------
Step == BadChar \/ SkipDelimiter \/ FieldChar \/ UrlEnd \/ BadHostChar \/ HostChar \/ HostEnd \/ Checks

AnyCall == \E b \in Urls[ncalls + 1], m \in Behinds, connect \in BOOLEAN : Call(b, m, connect)

Next == (ncalls < MaxCalls /\ AnyCall) \/ Step

Spec == Init /\ [][Next]_vars

-----------------------------------------------------------------------------
\* Type correctness: in particular, the port is a uint16_t.
UrlTypeOK ==
  /\ buf \in Seq(Symbol) /\ behind \in Seq(Symbol) /\ is_connect \in BOOLEAN
  /\ u \in [field_set : SUBSET UrlField, port : 0..PORT_MAX, off : [UrlField -> Nat], len : [UrlField -> Nat]]
  /\ pc \in {"idle", "url", "host", "checks"}
  /\ s \in UrlState \cup HostState \cup {"s_dead", "s_req_spaces_before_url"}
  /\ p \in Nat /\ old_uf \in UrlField \cup {UF_MAX} /\ found_at \in BOOLEAN /\ stop \in Nat
  /\ result \in {0, 1} /\ ncalls \in 0..MaxCalls

\* The fields of a URL that is accepted are parts of its buffer, and the parts
\* of its authority do not overlap: user, host and port are found by a second
\* walk that moves the start of the host and counts its length anew.  A URL
\* with a schema and no host is left out: its host is whatever the call before
\* left in the struct.
Before(f, g) == {f, g} \subseteq u.field_set => u.off[f] + u.len[f] < u.off[g]

HostIsParsed == "UF_SCHEMA" \in u.field_set => "UF_HOST" \in u.field_set

FieldsInside ==
  pc = "idle" /\ result = 0 /\ HostIsParsed =>
    /\ \A f \in u.field_set : u.len[f] > 0 /\ u.off[f] + u.len[f] <= Len(buf)
    /\ Before("UF_USERINFO", "UF_HOST") /\ Before("UF_HOST", "UF_PORT")
=============================================================================
