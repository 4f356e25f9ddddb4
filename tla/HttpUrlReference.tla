--------------------------- MODULE HttpUrlReference ---------------------------
(***************************************************************************)
(* What http_parser_parse_url promises: a reference that splits a URL at   *)
(* the first occurrences of its delimiters, without a state machine, and   *)
(* the two properties that compare the parser with it.                     *)
(***************************************************************************)
EXTENDS HttpUrl

\* The first place from k on, below the end e, where a symbol of S is.
First(b, S, k, e) == CHOOSE i \in k..e : /\ i = e \/ b[i + 1] \in S
                                         /\ \A j \in k..(i - 1) : b[j + 1] \notin S

Only(b, S, k, e) == \A i \in k..(e - 1) : b[i + 1] \in S

Span(k, e) == [off |-> k, len |-> e - k]

USERINFO_CHARS == {c \in Symbol : IS_USERINFO_CHAR(c)}
HOST_CHARS     == {c \in Symbol : IS_HOST_CHAR(c)}
ADDRESS_CHARS  == {c \in Symbol : IS_HEX(c) \/ c \in {":", "."}}

\* The parts of the authority between k and e: the user, if there is one, ends
\* at the first '@'; an address is in brackets; digits follow a colon.
RefAuthority(b, k, e) ==
  LET at      == First(b, {"@"}, k, e)
      host    == IF at = e THEN k ELSE at + 1
      address == host < e /\ b[host + 1] = "["
      from    == IF address THEN host + 1 ELSE host
      to      == First(b, IF address THEN {"]"} ELSE {":"}, from, e)
      colon   == IF address THEN to + 1 ELSE to
  IN [ok    |-> /\ at < e => Only(b, USERINFO_CHARS, k, at)
                /\ to > from /\ (address => to < e)
                /\ Only(b, IF address THEN ADDRESS_CHARS ELSE HOST_CHARS, from, to)
                /\ colon < e => b[colon + 1] = ":" /\ colon + 1 < e /\ Only(b, Digit, colon + 1, e),
      user  |-> Span(k, IF at = e THEN k ELSE at),
      host  |-> Span(from, to),
      port  |-> Span(IF colon < e THEN colon + 1 ELSE e, e)]

\* What follows the authority, from k on.
RefRest(b, k) ==
  LET path     == First(b, {"?", "#"}, k, Len(b))
      query    == IF path < Len(b) /\ b[path + 1] = "?" THEN path + 1 ELSE path
      hash     == First(b, {"#"}, query, Len(b))
      fragment == First(b, Symbol \ {"#"}, hash, Len(b))
  IN [ok       |-> Only(b, Symbol \ {SP, TAB, CR, LF}, k, Len(b)),
      path     |-> Span(k, path),
      query    |-> Span(query, hash),
      fragment |-> Span(fragment, Len(b))]

Spans(letters, authority, rest) ==
  [f \in UrlField |-> CASE f = "UF_SCHEMA"   -> Span(0, letters)
                        [] f = "UF_USERINFO" -> authority.user
                        [] f = "UF_HOST"     -> authority.host
                        [] f = "UF_PORT"     -> authority.port
                        [] f = "UF_PATH"     -> rest.path
                        [] f = "UF_QUERY"    -> rest.query
                        [] f = "UF_FRAGMENT" -> rest.fragment]

\* A URL is an authority with nothing but a host and a port (of CONNECT; a '?'
\* or '#' with nothing behind it goes unnoticed), a path, or a schema and an
\* authority; the empty URL has no fields.  Parts that are empty are not set.
RefUrl(b, connect) ==
  LET letters   == First(b, Symbol \ Letter, 0, Len(b))
      absolute  == /\ ~connect /\ letters > 0 /\ letters + 3 <= Len(b)
                   /\ b[letters + 1] = ":" /\ b[letters + 2] = "/" /\ b[letters + 3] = "/"
      relative  == ~connect /\ (Len(b) > 0 => b[1] \in {"/", "*"})
      from      == IF absolute THEN letters + 3 ELSE 0
      to        == IF relative THEN 0 ELSE First(b, {"/", "?"}, from, Len(b))
      authority == RefAuthority(b, from, to)
      rest      == RefRest(b, to)
      spans     == Spans(IF absolute THEN letters ELSE 0, authority, rest)
      set       == {f \in UrlField : spans[f].len > 0}
  IN [ok    |-> /\ (relative \/ authority.ok) /\ rest.ok /\ (connect \/ absolute \/ relative)
                /\ connect => set = {"UF_HOST", "UF_PORT"},
      spans |-> [f \in set |-> spans[f]]]

\* What strtoul makes of the port: it goes on to the first byte that is no
\* digit, which is behind the buffer for a port that ends it.
StrtoulPort(r) ==
  IF "UF_PORT" \notin DOMAIN r.spans THEN 0
  ELSE LET k    == r.spans["UF_PORT"].off
           e    == k + r.spans["UF_PORT"].len
           more == IF e = Len(buf) THEN First(behind, Symbol \ Digit, 0, Len(behind)) ELSE 0
       IN Number([i \in 1..(e - k + more) |-> Byte(k + i - 1)])

\* The number in the port.
RefPort(r) ==
  IF "UF_PORT" \notin DOMAIN r.spans THEN 0
  ELSE Number([i \in 1..r.spans["UF_PORT"].len |-> buf[r.spans["UF_PORT"].off + i]])

\* The port ends the buffer and a digit lies behind it.
PortRunsOn(r) ==
  /\ "UF_PORT" \in DOMAIN r.spans /\ r.spans["UF_PORT"].off + r.spans["UF_PORT"].len = Len(buf)
  /\ behind # <<>> /\ behind[1] \in Digit

\* A call accepts what the reference takes for a URL and finds its fields,
\* whatever the calls before left in the struct.  Left out is a URL with a
\* schema and without a host (see FieldsInside), except in the first call.  The
\* port is compared with its maximum as strtoul reads it.
FieldsAreExact ==
  pc = "idle" /\ ncalls > 0 /\ (ncalls = 1 \/ result = 1 \/ HostIsParsed) =>
    LET r == RefUrl(buf, is_connect) IN
    /\ result = 0 <=> r.ok /\ StrtoulPort(r) <= PORT_MAX
    /\ result = 0 => /\ u.field_set = DOMAIN r.spans
                     /\ \A f \in u.field_set : r.spans[f] = [off |-> u.off[f], len |-> u.len[f]]

\* The port of a URL that is accepted is the number in it (http-parser.h:
\* "Converted UF_PORT string").  This does not hold of a port that ends the
\* buffer when a digit lies behind it: strtoul, which is not told where the
\* buffer ends, takes that digit for a part of the port.
PortIsExact ==
  LET r == RefUrl(buf, is_connect) IN
  pc = "idle" /\ ncalls > 0 /\ result = 0 /\ HostIsParsed /\ ~PortRunsOn(r) => u.port = RefPort(r)
=============================================================================
