---------------------------- MODULE HttpUrlProofs ----------------------------
(***************************************************************************)
(* Theorems about HttpUrl: whatever a client hands to the URL parser, call *)
(* after call with the same struct, the fields of a URL that is accepted   *)
(* lie in its buffer.                                                      *)
(***************************************************************************)
EXTENDS HttpUrlReference, SequenceTheorems, FiniteSetTheorems, WellFoundedInduction, TLAPS

\* The types, without the sequences.
Struct == [field_set : SUBSET UrlField, port : 0..PORT_MAX, off : [UrlField -> Nat], len : [UrlField -> Nat]]

Place == {"idle", "url", "host", "checks"}

LoopState == UrlState \cup HostState \cup {"s_dead", "s_req_spaces_before_url"}

Types ==
  /\ buf \in Seq(Symbol) /\ behind \in Seq(Symbol) /\ is_connect \in BOOLEAN
  /\ u \in Struct /\ pc \in Place /\ s \in LoopState
  /\ p \in Nat /\ old_uf \in UrlField \cup {UF_MAX} /\ found_at \in BOOLEAN /\ stop \in Nat
  /\ result \in {0, 1} /\ ncalls \in 0..MaxCalls

LEMMA TypesAreUrlTypeOK == UrlTypeOK <=> Types
  BY DEF UrlTypeOK, Types, Struct, Place, LoopState

\* Assignments to the struct keep its type.
LEMMA GrownType ==
  ASSUME NEW v \in Struct, NEW f \in UrlField, NEW new \in BOOLEAN, p \in Nat
  PROVE  Grown(v, f, new) \in Struct
<1> DEFINE R(Ports) == [field_set : SUBSET UrlField, port : Ports, off : [UrlField -> Nat], len : [UrlField -> Nat]]
<1>1. ASSUME NEW Ports, v \in R(Ports) PROVE Grown(v, f, new) \in R(Ports)
  <2>1. v.off \in [UrlField -> Nat] /\ v.len \in [UrlField -> Nat]
    BY <1>1
  <2>2. [v.off EXCEPT ![f] = p] \in [UrlField -> Nat]
    BY <2>1
  <2>3. [v.len EXCEPT ![f] = 1] \in [UrlField -> Nat] /\ [v.len EXCEPT ![f] = @ + 1] \in [UrlField -> Nat]
    BY <2>1
  <2> QED BY <1>1, <2>2, <2>3 DEF Grown
<1> QED BY <1>1 DEF Struct

\* A byte that does not end the URL leads to a state of the URL, and unless it
\* is a delimiter it belongs to one of the fields that the first loop finds.
LEMMA UrlCharRange ==
  ASSUME NEW t, NEW c PROVE parse_url_char(t, c) \in UrlState \cup {"s_dead"}
  BY DEF parse_url_char, UrlState

FirstField == {"UF_SCHEMA", "UF_HOST", "UF_PATH", "UF_QUERY", "UF_FRAGMENT"}

LEMMA FieldOfRange ==
  ASSUME NEW t \in UrlState, t \notin Delimiter PROVE FieldOf(t) \in FirstField
  BY DEF FieldOf, UrlState, Delimiter, FirstField

LEMMA HostCharRange ==
  ASSUME NEW t, NEW c PROVE http_parse_host_char(t, c) \in HostState \cup {"s_http_host_dead"}
  BY DEF http_parse_host_char, HostState

LEMMA MaxPort == /\ PORT_MAX \in Nat /\ PORT_MAX + 1 \in 0..(PORT_MAX + 1)
                 /\ \A w \in 0..PORT_MAX : w \in 0..(PORT_MAX + 1)
<1>1. PORT_MAX \in Nat
  BY DEF PORT_MAX
<1> QED BY <1>1

LEMMA PortRange == ASSUME NEW k PROVE strtoul(k) \in 0..(PORT_MAX + 1)
<1> DEFINE n == CHOOSE m \in 0..(Len(buf) + Len(behind)) :
                 /\ ~IS_NUM(Byte(k + m)) /\ \A i \in 0..(m - 1) : IS_NUM(Byte(k + i))
           value == Number([i \in 1..n |-> Byte(k + i - 1)])
<1>1. strtoul(k) = IF value \in 0..PORT_MAX THEN value ELSE PORT_MAX + 1
  BY DEF strtoul
<1> HIDE DEF value
<1> QED BY <1>1, MaxPort, Zenon

-----------------------------------------------------------------------------
\* What an assignment to one field does to the others.
LEMMA GrownFacts ==
  ASSUME u \in Struct, p \in Nat, NEW f \in UrlField, NEW new \in BOOLEAN, u' = Grown(u, f, new)
  PROVE  /\ u'.field_set = IF new THEN u.field_set \cup {f} ELSE u.field_set
         /\ u'.off[f] = IF new THEN p ELSE u.off[f]
         /\ u'.len[f] = IF new THEN 1 ELSE u.len[f] + 1
         /\ \A g \in UrlField \ {f} : u'.off[g] = u.off[g] /\ u'.len[g] = u.len[g]
<1>1. u.off \in [UrlField -> Nat] /\ u.len \in [UrlField -> Nat]
  BY DEF Struct
<1>2. CASE new
  <2>1. u' = [u EXCEPT !.off[f] = p, !.len[f] = 1, !.field_set = @ \cup {f}]
    BY <1>2 DEF Grown
  <2>2. /\ u'.field_set = u.field_set \cup {f} /\ u'.off = [u.off EXCEPT ![f] = p]
        /\ u'.len = [u.len EXCEPT ![f] = 1]
    BY <2>1 DEF Struct
  <2> QED BY <1>1, <1>2, <2>2
<1>3. CASE ~new
  <2>1. u' = [u EXCEPT !.len[f] = @ + 1]
    BY <1>3 DEF Grown
  <2>2. u'.field_set = u.field_set /\ u'.off = u.off /\ u'.len = [u.len EXCEPT ![f] = u.len[f] + 1]
    BY <2>1 DEF Struct
  <2> QED BY <1>1, <1>3, <2>2
<1> QED BY <1>2, <1>3

\* The states from which http_parse_host_char reaches each state.
LEMMA HostSteps ==
  ASSUME NEW t, NEW c, NEW n, n = http_parse_host_char(t, c)
  PROVE  /\ n \in HostState \ {"s_http_userinfo_start"} \/ n = "s_http_host_dead"
         /\ n \in {"s_http_userinfo", "s_http_host_start"} => t \in {"s_http_userinfo_start", "s_http_userinfo"}
         /\ n = "s_http_host_v6_start" => t = "s_http_host_start"
         /\ n = "s_http_host" => t \in {"s_http_host_start", "s_http_host"}
         /\ n = "s_http_host_v6" => t \in {"s_http_host_v6_start", "s_http_host_v6"}
         /\ n = "s_http_host_v6_end" => t = "s_http_host_v6"
         /\ n = "s_http_host_port_start" => t \in {"s_http_host", "s_http_host_v6_end"}
         /\ n = "s_http_host_port" => t \in {"s_http_host_port_start", "s_http_host_port"}
  BY DEF http_parse_host_char, HostState

-----------------------------------------------------------------------------
\* The first loop: every field that was found ends before the position.
End(f) == u.off[f] + u.len[f]

Reading ==
  pc = "url" =>
    /\ p <= Len(buf)
    /\ u.field_set \subseteq FirstField
    /\ \A f \in u.field_set : u.len[f] > 0 /\ End(f) <= p

\* The second loop, over a host that the first one found: what it has split
\* off so far lies in order before the position, by the state it is in.
Splitting ==
  pc = "host" /\ HostIsParsed =>
    /\ "UF_HOST" \in u.field_set /\ p <= stop /\ stop <= Len(buf) /\ s \in HostState
    /\ \A f \in u.field_set \ {"UF_HOST"} : u.len[f] > 0 /\ End(f) <= Len(buf)
    /\ s \in {"s_http_userinfo_start", "s_http_userinfo", "s_http_host_start", "s_http_host_v6_start"} =>
         u.len["UF_HOST"] = 0
    /\ s \in {"s_http_host", "s_http_host_v6"} => u.len["UF_HOST"] > 0 /\ End("UF_HOST") <= p
    /\ s \in {"s_http_host_v6_end", "s_http_host_port_start", "s_http_host_port"} =>
         u.len["UF_HOST"] > 0 /\ End("UF_HOST") < p
    /\ "UF_USERINFO" \in u.field_set =>
         CASE s \in {"s_http_userinfo_start", "s_http_userinfo"}    -> End("UF_USERINFO") <= p
           [] s \in {"s_http_host_start", "s_http_host_v6_start"}   -> End("UF_USERINFO") < p
           [] OTHER                                                 -> End("UF_USERINFO") < u.off["UF_HOST"]
    /\ "UF_PORT" \in u.field_set =>
         s = "s_http_host_port" /\ End("UF_HOST") < u.off["UF_PORT"] /\ End("UF_PORT") <= p

Fit ==
  /\ \A f \in u.field_set : u.len[f] > 0 /\ End(f) <= Len(buf)
  /\ Before("UF_USERINFO", "UF_HOST") /\ Before("UF_HOST", "UF_PORT")

Accepted == (pc = "checks" \/ (pc = "idle" /\ result = 0)) /\ HostIsParsed => Fit

\* The inductive invariant.
UrlInv == Types /\ Reading /\ Splitting /\ Accepted

LEMMA InitInv == Init => UrlInv
<1> SUFFICES ASSUME Init PROVE UrlInv
  OBVIOUS
<1>1. [field_set |-> {}, port |-> 0, off |-> [f \in UrlField |-> 0], len |-> [f \in UrlField |-> 0]] \in Struct
  <2>1. 0 \in 0..PORT_MAX
    BY MaxPort
  <2>2. [f \in UrlField |-> 0] \in [UrlField -> Nat]
    OBVIOUS
  <2> QED BY <2>1, <2>2 DEF Struct
<1>2. Types
  <2>1. <<>> \in Seq(Symbol)
    OBVIOUS
  <2>2. 0 \in Nat /\ 0 \in {0, 1} /\ 0 \in 0..MaxCalls
    BY CallsAssumption
  <2>3. "s_dead" \in LoopState /\ "idle" \in Place /\ FALSE \in BOOLEAN
    BY DEF LoopState, Place
  <2> QED BY <1>1, <2>1, <2>2, <2>3 DEF Init, Types
<1>3. u.field_set = {}
  BY DEF Init
<1> QED BY <1>2, <1>3 DEF Init, UrlInv, Reading, Splitting, Accepted, Fit, Before

LEMMA CallInv ==
  ASSUME UrlInv, ncalls < MaxCalls, NEW b \in Urls[ncalls + 1], NEW m \in Behinds, NEW connect \in BOOLEAN,
         Call(b, m, connect)
  PROVE  UrlInv'
<1>1. ncalls \in 0..MaxCalls /\ ncalls + 1 \in 1..MaxCalls /\ ncalls + 1 \in 0..MaxCalls
  BY CallsAssumption DEF UrlInv, Types
<1>2. b \in Seq(Symbol) /\ m \in Seq(Symbol)
  BY <1>1, UrlAssumption, BehindAssumption
<1>3. u \in Struct /\ 0 \in 0..PORT_MAX
  BY MaxPort DEF UrlInv, Types
<1>4. u' \in Struct /\ u'.field_set = {}
  BY <1>3 DEF Call, Struct
<1>5. 0 \in Nat /\ 0 <= Len(b)
  BY <1>2
<1>6. s' \in LoopState /\ pc' \in Place
  BY DEF Call, LoopState, UrlState, Place
<1>7. UNCHANGED <<stop, result>>
  BY DEF Call
<1>8. Types'
  BY <1>1, <1>2, <1>4, <1>5, <1>6, <1>7 DEF Types, UrlInv, Call
<1>9. Reading' /\ Splitting' /\ Accepted'
  BY <1>4, <1>5 DEF Call, Reading, Splitting, Accepted
<1> QED BY <1>8, <1>9 DEF UrlInv

\* A call that refuses the URL promises nothing about the fields.
LEMMA RefuseInv ==
  ASSUME UrlInv, Return(1), UNCHANGED u PROVE UrlInv'
<1>1. Types'
  <2>1. pc' \in Place /\ result' \in {0, 1}
    BY DEF Return, Place
  <2> QED BY <2>1 DEF UrlInv, Types, Return, argVars, localVars
<1>2. Reading' /\ Splitting' /\ Accepted'
  BY DEF Return, Reading, Splitting, Accepted
<1> QED BY <1>1, <1>2 DEF UrlInv

LEMMA SkipDelimiterInv == ASSUME UrlInv, SkipDelimiter PROVE UrlInv'
<1>1. next_s \in LoopState
  BY DEF SkipDelimiter, Delimiter, LoopState, UrlState
<1>2. p \in Nat /\ Len(buf) \in Nat /\ p + 1 \in Nat
  BY DEF UrlInv, Types
<1>3. Types'
  BY <1>1, <1>2 DEF UrlInv, Types, SkipDelimiter, argVars
<1>4. Reading'
  <2>1. u \in Struct /\ u' = u /\ buf' = buf /\ p' = p + 1 /\ p < Len(buf)
    BY DEF UrlInv, Types, SkipDelimiter, argVars
  <2>2. \A f \in UrlField : u.off[f] \in Nat /\ u.len[f] \in Nat
    BY <2>1 DEF Struct
  <2>3. Reading /\ pc = "url" /\ FirstField \subseteq UrlField
    BY DEF UrlInv, SkipDelimiter, FirstField, UrlField
  <2> QED BY <1>2, <2>1, <2>2, <2>3 DEF Reading, End
<1>5. Splitting' /\ Accepted'
  BY DEF SkipDelimiter, Splitting, Accepted
<1> QED BY <1>3, <1>4, <1>5 DEF UrlInv

LEMMA FieldCharInv == ASSUME UrlInv, FieldChar PROVE UrlInv'
<1> DEFINE f == FieldOf(next_s)
           new == f # old_uf
<1>1. next_s \in UrlState /\ next_s \notin Delimiter
  BY UrlCharRange DEF FieldChar, next_s
<1>2. f \in FirstField /\ FirstField \subseteq UrlField /\ f \in UrlField
  BY <1>1, FieldOfRange DEF FirstField, UrlField
<1>3. p \in Nat /\ Len(buf) \in Nat /\ p + 1 \in Nat /\ p < Len(buf) /\ u \in Struct
  BY DEF UrlInv, Types, FieldChar
<1>4. u' = Grown(u, f, new) /\ old_uf' = f /\ buf' = buf /\ p' = p + 1 /\ pc = "url" /\ pc' = "url"
  BY DEF FieldChar, argVars
<1> HIDE DEF f
<1>5. u' \in Struct
  BY <1>2, <1>3, <1>4, GrownType
<1>6. Types'
  <2>1. found_at' \in BOOLEAN /\ s' \in LoopState
    BY <1>1 DEF FieldChar, LoopState
  <2> QED BY <1>2, <1>3, <1>4, <1>5, <2>1 DEF UrlInv, Types, FieldChar, argVars
<1>7. Reading'
  <2>1. /\ u'.field_set = IF new THEN u.field_set \cup {f} ELSE u.field_set
        /\ u'.off[f] = IF new THEN p ELSE u.off[f]
        /\ u'.len[f] = IF new THEN 1 ELSE u.len[f] + 1
        /\ \A g \in UrlField \ {f} : u'.off[g] = u.off[g] /\ u'.len[g] = u.len[g]
    BY <1>2, <1>3, <1>4, GrownFacts
  <2>2. \A g \in UrlField : u.off[g] \in Nat /\ u.len[g] \in Nat
    BY <1>3 DEF Struct
  <2>3. Reading
    BY DEF UrlInv
  <2>4. u'.field_set \subseteq FirstField
    BY <1>2, <1>4, <2>1, <2>3 DEF Reading
  <2>5. ASSUME NEW g \in u'.field_set PROVE u'.len[g] > 0 /\ u'.off[g] + u'.len[g] <= p + 1
    <3>1. CASE g = f
      BY <1>2, <1>3, <1>4, <2>1, <2>2, <2>3, <3>1 DEF Reading, End
    <3>2. CASE g # f
      BY <1>2, <1>3, <1>4, <2>1, <2>2, <2>3, <2>4, <3>2 DEF Reading, End
    <3> QED BY <3>1, <3>2
  <2> QED BY <1>3, <1>4, <2>4, <2>5 DEF Reading, End
<1>8. Splitting' /\ Accepted'
  BY <1>4 DEF Splitting, Accepted
<1> QED BY <1>6, <1>7, <1>8 DEF UrlInv

LEMMA UrlEndInv == ASSUME UrlInv, UrlEnd PROVE UrlInv'
<1>1. /\ p \in Nat /\ Len(buf) \in Nat /\ p = Len(buf) /\ pc = "url" /\ u \in Struct
      /\ UNCHANGED <<buf, behind, is_connect, old_uf, found_at, result, ncalls>>
  BY DEF UrlInv, Types, UrlEnd, argVars
<1>2. \A f \in UrlField : u.off[f] \in Nat /\ u.len[f] \in Nat
  BY <1>1 DEF Struct
<1>3. /\ u.field_set \subseteq FirstField /\ \A f \in u.field_set : u.len[f] > 0 /\ End(f) <= Len(buf)
      /\ u.field_set \subseteq UrlField
  BY <1>1 DEF UrlInv, Reading, FirstField, UrlField
<1>4. CASE u.field_set \cap {"UF_SCHEMA", "UF_HOST"} = {}
  <2>1. pc' = "checks" /\ UNCHANGED <<u, s, p, stop>>
    BY <1>4 DEF UrlEnd
  <2>2. Types'
    BY <1>1, <2>1 DEF UrlInv, Types, Place
  <2>3. Fit'
    BY <1>1, <1>3, <1>4, <2>1 DEF Fit, Before, FirstField, End
  <2> QED BY <2>1, <2>2, <2>3 DEF UrlInv, Reading, Splitting, Accepted
<1>5. CASE u.field_set \cap {"UF_SCHEMA", "UF_HOST"} # {}
  <2>1. /\ stop' = u.off["UF_HOST"] + u.len["UF_HOST"] /\ u' = [u EXCEPT !.len["UF_HOST"] = 0]
        /\ s' \in {"s_http_userinfo_start", "s_http_host_start"} /\ p' = u.off["UF_HOST"] /\ pc' = "host"
    BY <1>5 DEF UrlEnd
  <2>2. "UF_HOST" \in UrlField
    BY DEF UrlField
  <2>3. /\ u'.field_set = u.field_set /\ u'.off = u.off /\ u'.len = [u.len EXCEPT !["UF_HOST"] = 0]
        /\ u' \in Struct
    <3>1. u.len \in [UrlField -> Nat]
      BY <1>1 DEF Struct
    <3>2. [u.len EXCEPT !["UF_HOST"] = 0] \in [UrlField -> Nat]
      BY <3>1
    <3>3. u' = [u EXCEPT !.len = [u.len EXCEPT !["UF_HOST"] = 0]]
      BY <1>1, <2>1 DEF Struct
    <3> QED BY <1>1, <3>2, <3>3 DEF Struct
  <2>4. \A f \in UrlField : u'.off[f] = u.off[f] /\ u'.len[f] = IF f = "UF_HOST" THEN 0 ELSE u.len[f]
    <3>1. u.len \in [UrlField -> Nat]
      BY <1>1 DEF Struct
    <3> QED BY <2>3, <3>1
  <2>5. s' \in HostState /\ HostState \subseteq LoopState
    BY <2>1 DEF HostState, LoopState
  <2>6. stop' \in Nat /\ p' \in Nat
    BY <1>2, <2>1, <2>2
  <2>7. Types'
    BY <1>1, <2>1, <2>3, <2>5, <2>6 DEF UrlInv, Types, Place
  <2>8. Splitting'
    <3> SUFFICES ASSUME HostIsParsed' PROVE Splitting'
      BY DEF Splitting
    <3>1. "UF_HOST" \in u.field_set
      BY <1>5, <2>3 DEF HostIsParsed
    <3>2. p' <= stop' /\ stop' <= Len(buf')
      BY <1>1, <1>2, <1>3, <2>1, <2>2, <3>1 DEF End
    <3>3. \A f \in u'.field_set \ {"UF_HOST"} : u'.len[f] > 0 /\ u'.off[f] + u'.len[f] <= Len(buf')
      BY <1>1, <1>3, <2>3, <2>4 DEF End
    <3>4. u'.len["UF_HOST"] = 0
      BY <2>2, <2>4
    <3>5. "UF_USERINFO" \notin u'.field_set /\ "UF_PORT" \notin u'.field_set
      BY <1>3, <2>3 DEF FirstField
    <3> QED BY <2>1, <2>3, <2>5, <3>1, <3>2, <3>3, <3>4, <3>5 DEF Splitting, End
  <2> QED BY <2>1, <2>7, <2>8 DEF UrlInv, Reading, Accepted
<1> QED BY <1>4, <1>5

LEMMA HostEndInv == ASSUME UrlInv, HostEnd PROVE UrlInv'
<1>1. CASE s \in Unfinished /\ Return(1)
  BY <1>1, RefuseInv DEF HostEnd
<1>2. CASE s \notin Unfinished /\ pc' = "checks" /\ UNCHANGED <<argVars, localVars, result, ncalls>>
  <2>1. pc = "host" /\ p = stop /\ u' = u /\ pc' = "checks" /\ UNCHANGED <<argVars, localVars, result, ncalls>>
    BY <1>2 DEF HostEnd
  <2>2. Types'
    BY <2>1 DEF UrlInv, Types, Place, argVars, localVars
  <2>3. HostIsParsed => Fit
    <3> SUFFICES ASSUME HostIsParsed PROVE Fit
      OBVIOUS
    <3>1. u \in Struct /\ p \in Nat /\ Len(buf) \in Nat
      BY DEF UrlInv, Types
    <3>2. \A f \in UrlField : u.off[f] \in Nat /\ u.len[f] \in Nat
      BY <3>1 DEF Struct
    <3>3. Splitting
      BY DEF UrlInv
    <3>4. s \in {"s_http_host", "s_http_host_v6_end", "s_http_host_port"}
      BY <1>2, <2>1, <3>3 DEF Splitting, HostState, Unfinished
    <3>5. u.len["UF_HOST"] > 0 /\ End("UF_HOST") <= p /\ p <= Len(buf)
      <4>1. "UF_HOST" \in UrlField
        BY DEF UrlField
      <4> QED BY <2>1, <3>1, <3>2, <3>3, <3>4, <4>1 DEF Splitting, End
    <3>6. \A f \in u.field_set : u.len[f] > 0 /\ End(f) <= Len(buf)
      <4>1. "UF_HOST" \in UrlField
        BY DEF UrlField
      <4>2. End("UF_HOST") <= Len(buf)
        BY <3>1, <3>2, <3>5, <4>1 DEF End
      <4> QED BY <2>1, <3>3, <3>5, <4>2 DEF Splitting
    <3>7. Before("UF_USERINFO", "UF_HOST") /\ Before("UF_HOST", "UF_PORT")
      BY <2>1, <3>3, <3>4 DEF Splitting, Before, End
    <3> QED BY <3>6, <3>7 DEF Fit
  <2>4. Accepted'
    <3>1. Fit' = Fit /\ HostIsParsed' = HostIsParsed
      BY <2>1 DEF Fit, HostIsParsed, Before, End, argVars
    <3> QED BY <2>3, <3>1 DEF Accepted
  <2> QED BY <2>1, <2>2, <2>4 DEF UrlInv, Reading, Splitting
<1> QED BY <1>1, <1>2 DEF HostEnd

LEMMA ChecksInv == ASSUME UrlInv, Checks PROVE UrlInv'
<1> DEFINE v == IF "UF_PORT" \in u.field_set THEN strtoul(u.off["UF_PORT"]) ELSE 0
<1>1. CASE Return(1) /\ UNCHANGED u
  BY <1>1, RefuseInv
<1>2. CASE v <= PORT_MAX /\ Return(0) /\ u' = [u EXCEPT !.port = v]
  <2>1. v \in 0..PORT_MAX
    <3>1. v \in 0..(PORT_MAX + 1)
      BY PortRange, MaxPort
    <3> HIDE DEF v
    <3> QED BY <1>2, <3>1, MaxPort
  <2> HIDE DEF v
  <2>2. u \in Struct /\ pc = "checks"
    BY DEF UrlInv, Types, Checks
  <2>3. u' \in Struct /\ u'.field_set = u.field_set /\ u'.off = u.off /\ u'.len = u.len
    BY <1>2, <2>1, <2>2 DEF Struct
  <2>4. pc' = "idle" /\ result' = 0 /\ UNCHANGED <<argVars, localVars, ncalls>>
    BY <1>2 DEF Return
  <2>5. Types'
    BY <2>3, <2>4 DEF UrlInv, Types, Place, argVars, localVars
  <2>6. Fit' = Fit /\ HostIsParsed' = HostIsParsed
    BY <2>3, <2>4 DEF Fit, HostIsParsed, Before, End, argVars
  <2>7. Accepted'
    BY <2>2, <2>6 DEF UrlInv, Accepted
  <2> QED BY <2>4, <2>5, <2>7 DEF UrlInv, Reading, Splitting
<1> QED
  <2>1. v \in Int /\ PORT_MAX \in Nat
    BY PortRange, MaxPort
  <2>2. ~(v > PORT_MAX) => v <= PORT_MAX
    <3> HIDE DEF v
    <3> QED BY <2>1
  <2> QED BY <1>1, <1>2, <2>2 DEF Checks

\* What HostChar does to the struct, by the state it leads to.
LEMMA HostCharFacts ==
  ASSUME UrlInv, HostChar
  PROVE  /\ u' \in Struct
         /\ new_s \in {"s_http_host", "s_http_host_v6"} =>
              /\ u'.field_set = u.field_set
              /\ u'.off["UF_HOST"] = IF new_s # s THEN p ELSE u.off["UF_HOST"]
              /\ u'.len["UF_HOST"] = u.len["UF_HOST"] + 1
              /\ \A g \in UrlField \ {"UF_HOST"} : u'.off[g] = u.off[g] /\ u'.len[g] = u.len[g]
         /\ new_s = "s_http_host_port" => u' = Grown(u, "UF_PORT", s # new_s)
         /\ new_s = "s_http_userinfo" => u' = Grown(u, "UF_USERINFO", s # new_s)
         /\ new_s \notin {"s_http_host", "s_http_host_v6", "s_http_host_port", "s_http_userinfo"} => u' = u
<1>1. u \in Struct /\ p \in Nat /\ {"UF_HOST", "UF_PORT", "UF_USERINFO"} \subseteq UrlField
  BY DEF UrlInv, Types, UrlField
<1>2. u' = CASE new_s \in {"s_http_host", "s_http_host_v6"} ->
                  [u EXCEPT !.off["UF_HOST"] = IF new_s # s THEN p ELSE @, !.len["UF_HOST"] = @ + 1]
             [] new_s = "s_http_host_port" -> Grown(u, "UF_PORT", s # new_s)
             [] new_s = "s_http_userinfo"  -> Grown(u, "UF_USERINFO", s # new_s)
             [] OTHER -> u
  BY DEF HostChar
<1> HIDE DEF new_s
<1>3. CASE new_s \in {"s_http_host", "s_http_host_v6"}
  <2> DEFINE off == IF new_s # s THEN p ELSE u.off["UF_HOST"]
  <2>1. u.off \in [UrlField -> Nat] /\ u.len \in [UrlField -> Nat]
    BY <1>1 DEF Struct
  <2>2. u' = [u EXCEPT !.off = [u.off EXCEPT !["UF_HOST"] = off], !.len = [u.len EXCEPT !["UF_HOST"] = u.len["UF_HOST"] + 1]]
    BY <1>1, <1>2, <1>3 DEF Struct
  <2>3. off \in Nat /\ u.len["UF_HOST"] + 1 \in Nat
    BY <1>1, <2>1
  <2> HIDE DEF off
  <2>4. [u.off EXCEPT !["UF_HOST"] = off] \in [UrlField -> Nat] /\ [u.len EXCEPT !["UF_HOST"] = u.len["UF_HOST"] + 1] \in [UrlField -> Nat]
    BY <2>1, <2>3
  <2>5. /\ u' \in Struct /\ u'.field_set = u.field_set /\ u'.off = [u.off EXCEPT !["UF_HOST"] = off]
        /\ u'.len = [u.len EXCEPT !["UF_HOST"] = u.len["UF_HOST"] + 1]
    BY <1>1, <2>2, <2>4 DEF Struct
  <2>6. /\ u'.off["UF_HOST"] = off /\ u'.len["UF_HOST"] = u.len["UF_HOST"] + 1
        /\ \A g \in UrlField \ {"UF_HOST"} : u'.off[g] = u.off[g] /\ u'.len[g] = u.len[g]
    BY <1>1, <2>1, <2>5
  <2> QED BY <1>3, <2>5, <2>6 DEF off
<1>4. CASE new_s = "s_http_host_port"
  <2>1. u' = Grown(u, "UF_PORT", s # new_s)
    BY <1>4, <1>2
  <2> QED BY <1>1, <1>4, <2>1, GrownType
<1>5. CASE new_s = "s_http_userinfo"
  <2>1. u' = Grown(u, "UF_USERINFO", s # new_s)
    BY <1>2, <1>5
  <2> QED BY <1>1, <1>5, <2>1, GrownType
<1>6. CASE new_s \notin {"s_http_host", "s_http_host_v6", "s_http_host_port", "s_http_userinfo"}
  <2>1. u' = u
    BY <1>2, <1>6
  <2> QED BY <1>1, <1>6, <2>1
<1> QED BY <1>3, <1>4, <1>5, <1>6

LEMMA HostCharInv == ASSUME UrlInv, HostChar PROVE UrlInv'
<1>1. /\ pc = "host" /\ pc' = "host" /\ p < stop /\ s' = new_s /\ p' = p + 1
      /\ UNCHANGED <<buf, behind, is_connect, old_uf, found_at, stop, result, ncalls>>
  BY DEF HostChar, argVars
<1>2. new_s \in HostState \ {"s_http_userinfo_start"}
  BY HostSteps DEF HostChar, new_s
<1>3. Types'
  BY <1>1, <1>2, HostCharFacts DEF UrlInv, Types, LoopState
<1>4. Splitting'
  <2>1. /\ p \in Nat /\ stop \in Nat /\ Len(buf) \in Nat /\ u \in Struct /\ u' \in Struct
    BY HostCharFacts DEF UrlInv, Types
  <2>2. \A g \in UrlField : u.off[g] \in Nat /\ u.len[g] \in Nat /\ u'.off[g] \in Nat /\ u'.len[g] \in Nat
    BY <2>1 DEF Struct
  <2>3. {"UF_HOST", "UF_PORT", "UF_USERINFO"} \subseteq UrlField /\ u.field_set \subseteq UrlField
    BY <2>1 DEF UrlField, Struct
  <2> DEFINE t == new_s
  <2>4. /\ t \in {"s_http_userinfo", "s_http_host_start"} => s \in {"s_http_userinfo_start", "s_http_userinfo"}
        /\ t = "s_http_host_v6_start" => s = "s_http_host_start"
        /\ t = "s_http_host" => s \in {"s_http_host_start", "s_http_host"}
        /\ t = "s_http_host_v6" => s \in {"s_http_host_v6_start", "s_http_host_v6"}
        /\ t = "s_http_host_v6_end" => s = "s_http_host_v6"
        /\ t = "s_http_host_port_start" => s \in {"s_http_host", "s_http_host_v6_end"}
        /\ t = "s_http_host_port" => s \in {"s_http_host_port_start", "s_http_host_port"}
    BY HostSteps DEF new_s
  <2> HIDE DEF t
  <2> SUFFICES ASSUME HostIsParsed' PROVE Splitting'
    BY DEF Splitting
  <2>5. CASE t \in {"s_http_host", "s_http_host_v6"}
    <3>1. /\ u'.field_set = u.field_set
          /\ u'.off["UF_HOST"] = IF t # s THEN p ELSE u.off["UF_HOST"]
          /\ u'.len["UF_HOST"] = u.len["UF_HOST"] + 1
          /\ \A g \in UrlField \ {"UF_HOST"} : u'.off[g] = u.off[g] /\ u'.len[g] = u.len[g]
      BY <2>5, HostCharFacts DEF t
    <3>2. Splitting /\ HostIsParsed
      BY <3>1 DEF UrlInv, HostIsParsed
    <3>3. "UF_HOST" \in u'.field_set /\ p' <= stop' /\ stop' <= Len(buf') /\ s' = t /\ t \in HostState
      BY <1>1, <1>2, <2>1, <3>1, <3>2 DEF Splitting, t
    <3>4. u'.len["UF_HOST"] > 0 /\ u'.off["UF_HOST"] + u'.len["UF_HOST"] <= p + 1
      BY <1>1, <2>1, <2>2, <2>3, <2>4, <2>5, <3>1, <3>2 DEF Splitting, End
    <3>5. \A f \in u'.field_set \ {"UF_HOST"} : u'.len[f] > 0 /\ u'.off[f] + u'.len[f] <= Len(buf)
      BY <1>1, <2>1, <2>3, <3>1, <3>2 DEF Splitting, End
    <3>6. "UF_USERINFO" \in u'.field_set => u'.off["UF_USERINFO"] + u'.len["UF_USERINFO"] < u'.off["UF_HOST"]
      BY <1>1, <2>1, <2>2, <2>3, <2>4, <2>5, <3>1, <3>2 DEF Splitting, End
    <3>7. "UF_PORT" \notin u'.field_set
      BY <1>1, <2>4, <2>5, <3>1, <3>2 DEF Splitting
    <3> QED BY <1>1, <2>5, <3>3, <3>4, <3>5, <3>6, <3>7 DEF Splitting, End
  <2>6. CASE t = "s_http_host_port"
    <3>1. u' = Grown(u, "UF_PORT", s # t)
      BY <2>6, HostCharFacts DEF t
    <3>2. /\ u'.field_set = IF s # t THEN u.field_set \cup {"UF_PORT"} ELSE u.field_set
          /\ u'.off["UF_PORT"] = IF s # t THEN p ELSE u.off["UF_PORT"]
          /\ u'.len["UF_PORT"] = IF s # t THEN 1 ELSE u.len["UF_PORT"] + 1
          /\ \A g \in UrlField \ {"UF_PORT"} : u'.off[g] = u.off[g] /\ u'.len[g] = u.len[g]
      BY <2>1, <2>3, <3>1, GrownFacts
    <3>3. Splitting /\ HostIsParsed
      BY <3>2 DEF UrlInv, HostIsParsed
    <3>4. "UF_HOST" \in u'.field_set /\ p' <= stop' /\ stop' <= Len(buf') /\ s' = t /\ t \in HostState
      BY <1>1, <1>2, <2>1, <3>2, <3>3 DEF Splitting, t
    <3>5. u'.len["UF_HOST"] > 0 /\ u'.off["UF_HOST"] + u'.len["UF_HOST"] < p
      BY <1>1, <2>1, <2>2, <2>3, <2>4, <2>6, <3>2, <3>3 DEF Splitting, End
    <3>6. "UF_PORT" \in u'.field_set =>
            /\ u'.off["UF_HOST"] + u'.len["UF_HOST"] < u'.off["UF_PORT"]
            /\ u'.len["UF_PORT"] > 0 /\ u'.off["UF_PORT"] + u'.len["UF_PORT"] <= p + 1
      <4>1. CASE s # t
        <5>1. u'.off["UF_PORT"] = p /\ u'.len["UF_PORT"] = 1
          BY <3>2, <4>1
        <5> QED BY <2>1, <3>5, <5>1
      <4>2. CASE s = t
        <5>1. /\ u'.field_set = u.field_set /\ u'.off["UF_PORT"] = u.off["UF_PORT"]
              /\ u'.len["UF_PORT"] = u.len["UF_PORT"] + 1
              /\ u'.off["UF_HOST"] = u.off["UF_HOST"] /\ u'.len["UF_HOST"] = u.len["UF_HOST"]
          BY <2>3, <3>2, <4>2
        <5>2. "UF_PORT" \in u.field_set =>
                /\ u.off["UF_HOST"] + u.len["UF_HOST"] < u.off["UF_PORT"]
                /\ u.off["UF_PORT"] + u.len["UF_PORT"] <= p
          BY <1>1, <3>3 DEF Splitting, End
        <5> QED BY <2>1, <2>2, <2>3, <5>1, <5>2
      <4> QED BY <4>1, <4>2
    <3>7. ASSUME NEW f \in u'.field_set \ {"UF_HOST"} PROVE u'.len[f] > 0 /\ u'.off[f] + u'.len[f] <= Len(buf)
      <4>1. CASE f = "UF_PORT"
        BY <1>1, <2>1, <2>2, <2>3, <3>4, <3>6, <4>1
      <4>2. CASE f # "UF_PORT"
        BY <1>1, <2>3, <3>2, <3>3, <4>2 DEF Splitting, End
      <4> QED BY <4>1, <4>2
    <3>8. "UF_USERINFO" \in u'.field_set => u'.off["UF_USERINFO"] + u'.len["UF_USERINFO"] < u'.off["UF_HOST"]
      <4>1. s \in {"s_http_host_port_start", "s_http_host_port"}
        BY <2>4, <2>6
      <4>2. "UF_USERINFO" \in u.field_set => End("UF_USERINFO") < u.off["UF_HOST"]
        BY <1>1, <3>3, <4>1 DEF Splitting
      <4>3. "UF_USERINFO" \in u'.field_set => "UF_USERINFO" \in u.field_set
        BY <3>2
      <4> QED BY <2>3, <3>2, <4>2, <4>3 DEF End
    <3> QED BY <1>1, <2>1, <2>2, <2>3, <2>6, <3>4, <3>5, <3>6, <3>7, <3>8 DEF Splitting, End
  <2>7. CASE t = "s_http_userinfo"
    <3>1. u' = Grown(u, "UF_USERINFO", s # t)
      BY <2>7, HostCharFacts DEF t
    <3>2. /\ u'.field_set = IF s # t THEN u.field_set \cup {"UF_USERINFO"} ELSE u.field_set
          /\ u'.off["UF_USERINFO"] = IF s # t THEN p ELSE u.off["UF_USERINFO"]
          /\ u'.len["UF_USERINFO"] = IF s # t THEN 1 ELSE u.len["UF_USERINFO"] + 1
          /\ \A g \in UrlField \ {"UF_USERINFO"} : u'.off[g] = u.off[g] /\ u'.len[g] = u.len[g]
      BY <2>1, <2>3, <3>1, GrownFacts
    <3>3. Splitting /\ HostIsParsed
      BY <3>2 DEF UrlInv, HostIsParsed
    <3>4. "UF_HOST" \in u'.field_set /\ p' <= stop' /\ stop' <= Len(buf') /\ s' = t /\ t \in HostState
      BY <1>1, <1>2, <2>1, <3>2, <3>3 DEF Splitting, t
    <3>5. u'.len["UF_HOST"] = 0 /\ "UF_PORT" \notin u'.field_set
      BY <1>1, <2>1, <2>2, <2>3, <2>4, <2>7, <3>2, <3>3 DEF Splitting, End
    <3>6. "UF_USERINFO" \in u'.field_set =>
            u'.len["UF_USERINFO"] > 0 /\ u'.off["UF_USERINFO"] + u'.len["UF_USERINFO"] <= p + 1
      BY <1>1, <2>1, <2>2, <2>3, <2>4, <2>7, <3>2, <3>3 DEF Splitting, End
    <3>7. ASSUME NEW f \in u'.field_set \ {"UF_HOST"} PROVE u'.len[f] > 0 /\ u'.off[f] + u'.len[f] <= Len(buf)
      <4>1. CASE f = "UF_USERINFO"
        BY <1>1, <2>1, <2>2, <2>3, <3>4, <3>6, <4>1
      <4>2. CASE f # "UF_USERINFO"
        BY <1>1, <2>3, <3>2, <3>3, <4>2 DEF Splitting, End
      <4> QED BY <4>1, <4>2
    <3> QED BY <1>1, <2>1, <2>2, <2>3, <2>7, <3>4, <3>5, <3>6, <3>7 DEF Splitting, End
  <2>8. CASE t \notin {"s_http_host", "s_http_host_v6", "s_http_host_port", "s_http_userinfo"}
    <3>1. u' = u
      BY <2>8, HostCharFacts DEF t
    <3>2. Splitting /\ HostIsParsed
      BY <3>1 DEF UrlInv, HostIsParsed
    <3>3. t \in {"s_http_host_start", "s_http_host_v6_start", "s_http_host_v6_end", "s_http_host_port_start"}
      BY <1>2, <2>8 DEF t, HostState
    <3> QED BY <1>1, <1>2, <2>1, <2>2, <2>3, <2>4, <3>1, <3>2, <3>3 DEF Splitting, End, t
  <2> QED BY <2>5, <2>6, <2>7, <2>8
<1> QED BY <1>1, <1>3, <1>4 DEF UrlInv, Reading, Accepted

LEMMA NextInv == UrlInv /\ [Next]_vars => UrlInv'
<1> SUFFICES ASSUME UrlInv, [Next]_vars PROVE UrlInv'
  OBVIOUS
<1>1. CASE ncalls < MaxCalls /\ AnyCall
  BY <1>1, CallInv DEF AnyCall
<1>2. CASE BadChar \/ BadHostChar
  BY <1>2, RefuseInv DEF BadChar, BadHostChar
<1>3. CASE SkipDelimiter
  BY <1>3, SkipDelimiterInv
<1>4. CASE FieldChar
  BY <1>4, FieldCharInv
<1>5. CASE UrlEnd
  BY <1>5, UrlEndInv
<1>6. CASE HostChar
  BY <1>6, HostCharInv
<1>7. CASE HostEnd
  BY <1>7, HostEndInv
<1>8. CASE Checks
  BY <1>8, ChecksInv
<1>9. CASE UNCHANGED vars
  <2>1. UNCHANGED <<argVars, u, pc, localVars, result, ncalls>>
    BY <1>9 DEF vars
  <2> QED BY <2>1 DEF UrlInv, Types, Reading, Splitting, Accepted, Fit, HostIsParsed, Before, End, argVars, localVars
<1> QED BY <1>1, <1>2, <1>3, <1>4, <1>5, <1>6, <1>7, <1>8, <1>9 DEF Next, Step

LEMMA UrlInvariant == Spec => []UrlInv
  BY InitInv, NextInv, PTL DEF Spec

-----------------------------------------------------------------------------
\* A set of numbers that is not empty has a least one: of its members up to
\* any of them, which are finitely many.
LEMMA LeastNumber == ASSUME NEW T \in SUBSET Nat, T # {} PROVE \E x \in T : \A y \in T : x <= y
<1>1. PICK n \in T : TRUE
  OBVIOUS
<1> DEFINE Below(x) == {y \in T : y <= x}
           F == {Below(x) : x \in Below(n)}
<1>2. F \subseteq FiniteSubsetsOf(Nat)
  <2>1. ASSUME NEW x \in Below(n) PROVE IsFiniteSet(Below(x))
    <3>1. n \in Nat /\ x \in Nat /\ x <= n
      OBVIOUS
    <3>2. Below(x) \in SUBSET (0..n)
      <4>1. \A y \in Below(x) : y \in 0..n
        BY <3>1
      <4> QED BY <4>1
    <3>3. IsFiniteSet(0..n)
      BY <3>1, FS_Interval
    <3> HIDE DEF Below
    <3> QED BY <3>2, <3>3, FS_Subset
  <2> QED BY <2>1 DEF FiniteSubsetsOf
<1>3. F # {}
  <2>1. n \in Below(n)
    OBVIOUS
  <2> QED BY <2>1
<1> HIDE DEF F
<1>4. IsWellFoundedOn(StrictSubsetOrdering(Nat), FiniteSubsetsOf(Nat))
  BY FS_StrictSubsetOrderingWellFounded
<1>5. PICK S \in F : \A R \in F : ~(<<R, S>> \in StrictSubsetOrdering(Nat))
  BY <1>2, <1>3, <1>4, WFMin
<1>6. PICK x \in Below(n) : S = Below(x)
  BY DEF F
<1>7. ASSUME NEW y \in T, ~(x <= y) PROVE FALSE
  <2>1. y \in Below(n) /\ Below(y) \in F
    BY <1>7 DEF F
  <2>2. Below(y) \subseteq S /\ Below(y) # S
    <3>1. x \in Nat /\ y \in Nat /\ y < x /\ x \in T /\ x \notin Below(y) /\ x \in Below(x)
      BY <1>6, <1>7
    <3>2. \A z \in T : z <= y => z <= x
      BY <3>1
    <3> QED BY <1>6, <3>1, <3>2
  <2>3. <<Below(y), S>> \in StrictSubsetOrdering(Nat)
    BY <1>2, <2>1, <2>2 DEF StrictSubsetOrdering, FiniteSubsetsOf
  <2> QED BY <1>5, <2>1, <2>3
<1> QED BY <1>6, <1>7

\* The first place of a symbol: it exists, and there is only one.
IsFirst(b, S, k, e, i) == /\ i \in k..e /\ (i = e \/ b[i + 1] \in S)
                          /\ \A j \in k..(i - 1) : b[j + 1] \notin S

LEMMA FirstIs ==
  ASSUME NEW b, NEW S, NEW k \in Nat, NEW e \in Nat, NEW i, IsFirst(b, S, k, e, i)
  PROVE  First(b, S, k, e) = i
<1>1. \A j \in k..e : IsFirst(b, S, k, e, j) => j = i
  BY DEF IsFirst
<1>2. i \in k..e
  BY DEF IsFirst
<1>3. First(b, S, k, e) = CHOOSE j \in k..e : IsFirst(b, S, k, e, j)
  BY DEF First, IsFirst
<1> QED BY <1>1, <1>2, <1>3

LEMMA FirstExists ==
  ASSUME NEW b, NEW S, NEW k \in Nat, NEW e \in Nat, k <= e
  PROVE  First(b, S, k, e) \in Nat /\ IsFirst(b, S, k, e, First(b, S, k, e))
<1> DEFINE T == {i \in k..e : i = e \/ b[i + 1] \in S}
<1>1. T \in SUBSET Nat /\ e \in T
  OBVIOUS
<1>2. PICK i \in T : \A j \in T : i <= j
  BY <1>1, LeastNumber
<1>3. IsFirst(b, S, k, e, i)
  <2>1. i \in k..e /\ (i = e \/ b[i + 1] \in S)
    BY <1>2
  <2>2. ASSUME NEW j \in k..(i - 1), b[j + 1] \in S PROVE FALSE
    <3>1. j \in T /\ j < i /\ i \in Nat /\ j \in Nat
      BY <2>1, <2>2
    <3> QED BY <1>2, <3>1
  <2> QED BY <2>1, <2>2 DEF IsFirst
<1> QED BY <1>1, <1>3, FirstIs

-----------------------------------------------------------------------------
\* The classes of characters that the two loops tell apart.
AUTHORITY_CHARS == {c \in Symbol : IS_USERINFO_CHAR(c) \/ c \in {"@", "[", "]"}}
PATH_CHARS      == Symbol \ {SP, TAB, CR, LF}

LEMMA HexDigit == \A c \in Symbol : IS_HEX(c) => c \in Digit \cup Letter
<1> SUFFICES ASSUME NEW c \in Symbol, NEW n \in 1..16, HexDigits[n] = c PROVE c \in Digit \cup Letter
  BY DEF IS_HEX
<1>1. c # "c"
  BY DEF Symbol, Digit, Letter, Method, Word, SP, TAB, CR, LF
<1> QED BY <1>1 DEF HexDigits, Digit, Letter

LEMMA CharClasses ==
  /\ \A c \in USERINFO_CHARS : c # "@"
  /\ \A c \in HOST_CHARS : c \notin {"@", "[", "]", ":"}
  /\ \A c \in ADDRESS_CHARS : c \notin {"@", "[", "]"}
  /\ \A c \in Digit : c \notin {"@", "[", "]", ":"}
  /\ \A c \in AUTHORITY_CHARS : c \notin {"/", "?", "#"}
<1>1. \A c \in Digit \cup Letter : c \notin {"@", "[", "]", ":", "/", "?", "#"}
  BY DEF Digit, Letter
<1> QED BY <1>1, HexDigit DEF USERINFO_CHARS, HOST_CHARS, ADDRESS_CHARS, AUTHORITY_CHARS, IS_USERINFO_CHAR, IS_HOST_CHAR,
             IS_MARK, IS_ALPHA, IS_NUM

LEMMA ClassesOfAuthority ==
  /\ USERINFO_CHARS \subseteq AUTHORITY_CHARS /\ HOST_CHARS \subseteq AUTHORITY_CHARS
  /\ ADDRESS_CHARS \subseteq AUTHORITY_CHARS /\ Digit \subseteq AUTHORITY_CHARS
  /\ {"@", "[", "]", ":"} \subseteq AUTHORITY_CHARS
<1>1. {"@", "[", "]", ":", "."} \subseteq Symbol /\ Digit \subseteq Symbol
  BY DEF Symbol
<1> QED BY <1>1, HexDigit DEF USERINFO_CHARS, HOST_CHARS, ADDRESS_CHARS, AUTHORITY_CHARS, IS_USERINFO_CHAR, IS_HOST_CHAR,
             IS_MARK, IS_ALPHA, IS_NUM

\* The reference for an authority whose host, behind the user, begins at h and
\* is a name, or an address in brackets, that ends at `to'.
HostBegins(k, e, at) == IF at = e THEN k ELSE at + 1
HasAddress(b, h, e)  == h < e /\ b[h + 1] = "["

UserOk(b, k, e, at)  == at < e => Only(b, USERINFO_CHARS, k, at)
PortOk(b, c, e)      == c < e => b[c + 1] = ":" /\ c + 1 < e /\ Only(b, Digit, c + 1, e)
NameOk(b, h, to)     == to > h /\ Only(b, HOST_CHARS, h, to)
AddressOk(b, h, to, e) == to > h + 1 /\ to < e /\ Only(b, ADDRESS_CHARS, h + 1, to)

UserSpan(k, e, at)   == Span(k, IF at = e THEN k ELSE at)
PortSpan(c, e)       == Span(IF c < e THEN c + 1 ELSE e, e)

LEMMA NamedAuthority ==
  ASSUME NEW b, NEW k \in Nat, NEW e \in Nat, NEW at \in Nat, NEW h \in Nat, NEW to \in Nat,
         IsFirst(b, {"@"}, k, e, at), h = HostBegins(k, e, at), ~HasAddress(b, h, e), IsFirst(b, {":"}, h, e, to)
  PROVE  /\ RefAuthority(b, k, e).ok <=> UserOk(b, k, e, at) /\ NameOk(b, h, to) /\ PortOk(b, to, e)
         /\ RefAuthority(b, k, e).user = UserSpan(k, e, at)
         /\ RefAuthority(b, k, e).host = Span(h, to)
         /\ RefAuthority(b, k, e).port = PortSpan(to, e)
<1>1. First(b, {"@"}, k, e) = at /\ First(b, {":"}, h, e) = to
  BY FirstIs
<1> QED BY <1>1 DEF RefAuthority, HostBegins, HasAddress, UserOk, NameOk, PortOk, UserSpan, PortSpan

LEMMA NumberedAuthority ==
  ASSUME NEW b, NEW k \in Nat, NEW e \in Nat, NEW at \in Nat, NEW h \in Nat, NEW to \in Nat,
         IsFirst(b, {"@"}, k, e, at), h = HostBegins(k, e, at), HasAddress(b, h, e), IsFirst(b, {"]"}, h + 1, e, to)
  PROVE  /\ RefAuthority(b, k, e).ok <=> UserOk(b, k, e, at) /\ AddressOk(b, h, to, e) /\ PortOk(b, to + 1, e)
         /\ RefAuthority(b, k, e).user = UserSpan(k, e, at)
         /\ RefAuthority(b, k, e).host = Span(h + 1, to)
         /\ RefAuthority(b, k, e).port = PortSpan(to + 1, e)
<1>1. h + 1 \in Nat
  OBVIOUS
<1>2. First(b, {"@"}, k, e) = at /\ First(b, {"]"}, h + 1, e) = to
  BY <1>1, FirstIs
<1> QED BY <1>1, <1>2 DEF RefAuthority, HostBegins, HasAddress, UserOk, AddressOk, PortOk, UserSpan, PortSpan

\* An authority has characters of its own, and one '@' at most.
LEMMA AuthorityChars ==
  ASSUME NEW b \in Seq(Symbol), NEW k \in Nat, NEW e \in Nat, k <= e, e <= Len(b), RefAuthority(b, k, e).ok,
         NEW i \in k..(e - 1)
  PROVE  b[i + 1] \in AUTHORITY_CHARS /\ (b[i + 1] = "@" => i = First(b, {"@"}, k, e))
<1> DEFINE at == First(b, {"@"}, k, e)
           h == HostBegins(k, e, at)
<1>1. at \in Nat /\ IsFirst(b, {"@"}, k, e, at)
  BY FirstExists
<1> HIDE DEF at
<1>2. h \in Nat /\ at \in k..e /\ h \in k..e /\ (at < e => h = at + 1) /\ (at = e => h = k)
  <2>1. at \in k..e
    BY <1>1 DEF IsFirst
  <2> QED BY <2>1 DEF HostBegins
<1>3. at < e => b[at + 1] = "@"
  BY <1>1, <1>2 DEF IsFirst
<1>4. h = HostBegins(k, e, at)
  OBVIOUS
<1> HIDE DEF h
<1>5. CASE HasAddress(b, h, e)
  <2> DEFINE to == First(b, {"]"}, h + 1, e)
  <2>1. h + 1 \in Nat /\ h + 1 <= e /\ b[h + 1] = "["
    BY <1>2, <1>5 DEF HasAddress
  <2>2. to \in Nat /\ IsFirst(b, {"]"}, h + 1, e, to)
    BY <2>1, FirstExists
  <2> HIDE DEF to
  <2>3. UserOk(b, k, e, at) /\ AddressOk(b, h, to, e) /\ PortOk(b, to + 1, e)
    BY <1>1, <1>2, <1>5, <1>4, <2>2, NumberedAuthority
  <2>4. to \in (h + 1)..(e - 1) /\ b[to + 1] = "]"
    BY <1>2, <2>2, <2>3 DEF IsFirst, AddressOk
  <2>5. \/ at < e /\ (i \in k..(at - 1) \/ i = at)
        \/ i = h \/ i \in (h + 1)..(to - 1) \/ i = to
        \/ to + 1 < e /\ (i = to + 1 \/ i \in (to + 2)..(e - 1))
    BY <1>1, <1>2, <2>2, <2>4
  <2>6. /\ at < e => \A j \in k..(at - 1) : b[j + 1] \in USERINFO_CHARS
        /\ \A j \in (h + 1)..(to - 1) : b[j + 1] \in ADDRESS_CHARS
        /\ to + 1 < e => b[to + 2] = ":" /\ \A j \in (to + 2)..(e - 1) : b[j + 1] \in Digit
    BY <2>2, <2>3 DEF UserOk, AddressOk, PortOk, Only
  <2>7. \/ (at < e /\ i = at) \/ b[i + 1] \in USERINFO_CHARS \/ b[i + 1] \in ADDRESS_CHARS \/ b[i + 1] \in Digit
        \/ b[i + 1] \in {"[", "]", ":"}
    BY <2>1, <2>2, <2>4, <2>5, <2>6
  <2>8. b[i + 1] \in AUTHORITY_CHARS /\ (b[i + 1] = "@" => i = at)
    BY <1>3, <2>7, CharClasses, ClassesOfAuthority
  <2> QED BY <2>8 DEF at
<1>6. CASE ~HasAddress(b, h, e)
  <2> DEFINE to == First(b, {":"}, h, e)
  <2>1. to \in Nat /\ IsFirst(b, {":"}, h, e, to)
    BY <1>2, FirstExists
  <2> HIDE DEF to
  <2>2. UserOk(b, k, e, at) /\ NameOk(b, h, to) /\ PortOk(b, to, e)
    BY <1>1, <1>2, <1>6, <1>4, <2>1, NamedAuthority
  <2>3. to \in h..e
    BY <2>1 DEF IsFirst
  <2>4. \/ at < e /\ (i \in k..(at - 1) \/ i = at)
        \/ i \in h..(to - 1)
        \/ to < e /\ (i = to \/ i \in (to + 1)..(e - 1))
    BY <1>1, <1>2, <2>1, <2>3
  <2>5. /\ at < e => \A j \in k..(at - 1) : b[j + 1] \in USERINFO_CHARS
        /\ \A j \in h..(to - 1) : b[j + 1] \in HOST_CHARS
        /\ to < e => b[to + 1] = ":" /\ \A j \in (to + 1)..(e - 1) : b[j + 1] \in Digit
    BY <2>1, <2>2 DEF UserOk, NameOk, PortOk, Only
  <2>6. \/ (at < e /\ i = at) \/ b[i + 1] \in USERINFO_CHARS \/ b[i + 1] \in HOST_CHARS \/ b[i + 1] \in Digit
        \/ b[i + 1] = ":"
    BY <2>1, <2>3, <2>4, <2>5
  <2>7. b[i + 1] \in AUTHORITY_CHARS /\ (b[i + 1] = "@" => i = at)
    BY <1>3, <2>6, CharClasses, ClassesOfAuthority
  <2> QED BY <2>7 DEF at
<1> QED BY <1>5, <1>6

\* The empty authority has no host.
LEMMA EmptyAuthority ==
  ASSUME NEW b, NEW k \in Nat PROVE ~RefAuthority(b, k, k).ok
<1>1. IsFirst(b, {"@"}, k, k, k) /\ IsFirst(b, {":"}, k, k, k)
  BY DEF IsFirst
<1>2. k = HostBegins(k, k, k) /\ ~HasAddress(b, k, k) /\ ~NameOk(b, k, k)
  BY DEF HostBegins, HasAddress, NameOk
<1> QED BY <1>1, <1>2, NamedAuthority

-----------------------------------------------------------------------------
\* The reference, by the way a URL begins: with an authority at a, which ends
\* at k; with a path; or with neither.
Begins(b, connect, a) ==
  \/ connect /\ a = 0
  \/ /\ ~connect /\ a > 3 /\ a <= Len(b) /\ Only(b, Letter, 0, a - 3)
     /\ b[a - 2] = ":" /\ b[a - 1] = "/" /\ b[a] = "/"

SetOf(spans) == {f \in UrlField : spans[f].len > 0}

PortOnly(connect, set) == connect => set = {"UF_HOST", "UF_PORT"}

LEMMA LetterFacts == Letter \subseteq Symbol /\ \A c \in Letter : c \notin {":", "/", "*"}
  BY DEF Symbol, Letter

LEMMA RefWithAuthority ==
  ASSUME NEW b \in Seq(Symbol), NEW connect \in BOOLEAN, NEW a \in Nat, NEW k \in Nat, Begins(b, connect, a),
         IsFirst(b, {"/", "?"}, a, Len(b), k),
         NEW S, S = Spans(IF connect THEN 0 ELSE a - 3, RefAuthority(b, a, k), RefRest(b, k))
  PROVE  /\ RefUrl(b, connect).ok <=> /\ RefAuthority(b, a, k).ok /\ RefRest(b, k).ok
                                      /\ PortOnly(connect, SetOf(S))
         /\ RefUrl(b, connect).spans = [f \in SetOf(S) |-> S[f]]
<1> DEFINE letters  == First(b, Symbol \ Letter, 0, Len(b))
           absolute == /\ ~connect /\ letters > 0 /\ letters + 3 <= Len(b)
                       /\ b[letters + 1] = ":" /\ b[letters + 2] = "/" /\ b[letters + 3] = "/"
           relative == ~connect /\ (Len(b) > 0 => b[1] \in {"/", "*"})
           from     == IF absolute THEN letters + 3 ELSE 0
<1>1. Len(b) \in Nat
  OBVIOUS
<1>2. First(b, {"/", "?"}, a, Len(b)) = k
  BY <1>1, FirstIs
<1>3. ~connect => letters = a - 3
  <2> SUFFICES ASSUME ~connect PROVE letters = a - 3
    OBVIOUS
  <2>1. a > 3 /\ a <= Len(b) /\ Only(b, Letter, 0, a - 3) /\ b[a - 2] = ":" /\ a - 3 \in Nat
    BY DEF Begins
  <2>2. b[(a - 3) + 1] \in Symbol \ Letter
    <3>1. (a - 3) + 1 = a - 2 /\ a - 2 \in 1..Len(b)
      BY <1>1, <2>1
    <3>2. b[a - 2] \in Symbol
      BY <3>1
    <3> QED BY <2>1, <3>1, <3>2, LetterFacts
  <2>3. IsFirst(b, Symbol \ Letter, 0, Len(b), a - 3)
    BY <1>1, <2>1, <2>2 DEF IsFirst, Only
  <2> QED BY <1>1, <2>1, <2>3, FirstIs
<1>4. absolute <=> ~connect
  <2>1. CASE connect
    BY <2>1
  <2>2. CASE ~connect
    <3>1. a > 3 /\ a <= Len(b) /\ b[a - 2] = ":" /\ b[a - 1] = "/" /\ b[a] = "/"
      BY <2>2 DEF Begins
    <3>2. (a - 3) + 1 = a - 2 /\ (a - 3) + 2 = a - 1 /\ (a - 3) + 3 = a
      OBVIOUS
    <3> HIDE DEF letters
    <3> QED BY <1>1, <1>3, <2>2, <3>1, <3>2
  <2> QED BY <2>1, <2>2
<1>5. ~relative
  <2>1. CASE connect
    BY <2>1
  <2>2. CASE ~connect
    <3>1. a > 3 /\ a <= Len(b) /\ Only(b, Letter, 0, a - 3)
      BY <2>2 DEF Begins
    <3>2. b[0 + 1] \in Letter
      BY <3>1 DEF Only
    <3> QED BY <1>1, <3>1, <3>2, LetterFacts
  <2> QED BY <2>1, <2>2
<1>6. from = a
  <2> HIDE DEF absolute, letters
  <2>1. CASE connect
    BY <1>4, <2>1 DEF Begins
  <2>2. CASE ~connect
    BY <1>3, <1>4, <2>2
  <2> QED BY <2>1, <2>2
<1>7. (IF absolute THEN letters ELSE 0) = IF connect THEN 0 ELSE a - 3
  <2> HIDE DEF absolute, letters
  <2> QED BY <1>3, <1>4
<1> DEFINE to == IF relative THEN 0 ELSE First(b, {"/", "?"}, from, Len(b))
           spans == Spans(IF absolute THEN letters ELSE 0, RefAuthority(b, from, to), RefRest(b, to))
           set == SetOf(spans)
<1>8. /\ RefUrl(b, connect).ok <=> /\ (relative \/ RefAuthority(b, from, to).ok) /\ RefRest(b, to).ok
                                   /\ (connect \/ absolute \/ relative)
                                   /\ connect => set = {"UF_HOST", "UF_PORT"}
      /\ RefUrl(b, connect).spans = [f \in set |-> spans[f]]
  BY DEF RefUrl, SetOf
<1> HIDE DEF letters, absolute, relative, from
<1>9. to = k
  BY <1>2, <1>5, <1>6
<1> HIDE DEF to
<1>10. spans = S
  BY <1>6, <1>7, <1>9
<1> HIDE DEF spans
<1> QED BY <1>4, <1>5, <1>6, <1>8, <1>9, <1>10 DEF PortOnly

\* A relative URL, or an empty one.
LEMMA RefRelative ==
  ASSUME NEW b \in Seq(Symbol), Len(b) > 0 => b[1] \in {"/", "*"},
         NEW S, S = Spans(0, RefAuthority(b, 0, 0), RefRest(b, 0))
  PROVE  /\ RefUrl(b, FALSE).ok <=> RefRest(b, 0).ok
         /\ RefUrl(b, FALSE).spans = [f \in SetOf(S) |-> S[f]]
<1> DEFINE letters  == First(b, Symbol \ Letter, 0, Len(b))
           absolute == /\ letters > 0 /\ letters + 3 <= Len(b)
                       /\ b[letters + 1] = ":" /\ b[letters + 2] = "/" /\ b[letters + 3] = "/"
<1>1. Len(b) \in Nat /\ 0 \in Nat /\ 0 <= Len(b)
  OBVIOUS
<1>2. letters = 0
  <2>1. IsFirst(b, Symbol \ Letter, 0, Len(b), 0)
    <3>1. Len(b) > 0 => b[0 + 1] \in Symbol \ Letter
      <4> SUFFICES ASSUME Len(b) > 0 PROVE b[1] \in Symbol \ Letter
        OBVIOUS
      <4>1. b[1] \in Symbol
        BY <1>1
      <4> QED BY <4>1, LetterFacts
    <3> QED BY <1>1, <3>1 DEF IsFirst
  <2> QED BY <1>1, <2>1, FirstIs
<1>3. ~absolute
  <2> HIDE DEF letters
  <2> QED BY <1>2
<1> DEFINE from == IF absolute THEN letters + 3 ELSE 0
<1>4. from = 0 /\ (IF absolute THEN letters ELSE 0) = 0
  <2> HIDE DEF absolute
  <2> QED BY <1>3
<1> DEFINE spans == Spans(IF absolute THEN letters ELSE 0, RefAuthority(b, from, 0), RefRest(b, 0))
<1>5. /\ RefUrl(b, FALSE).ok <=> RefRest(b, 0).ok
      /\ RefUrl(b, FALSE).spans = [f \in SetOf(spans) |-> spans[f]]
  BY DEF RefUrl, SetOf
<1> HIDE DEF letters, absolute, from
<1>6. spans = S
  BY <1>4
<1> HIDE DEF spans
<1> QED BY <1>5, <1>6

\* A URL that begins with k letters which are no schema, or with something
\* else than a letter or a path.
LEMMA RefNeither ==
  ASSUME NEW b \in Seq(Symbol), NEW k \in Nat, k <= Len(b), 0 < Len(b), Only(b, Letter, 0, k),
         k < Len(b) => b[k + 1] \notin Letter, k = 0 => b[1] \notin {"/", "*"},
         ~(k > 0 /\ k + 3 <= Len(b) /\ b[k + 1] = ":" /\ b[k + 2] = "/" /\ b[k + 3] = "/")
  PROVE  ~RefUrl(b, FALSE).ok
<1>1. Len(b) \in Nat /\ 0 \in Nat
  OBVIOUS
<1>2. IsFirst(b, Symbol \ Letter, 0, Len(b), k)
  <2>1. k < Len(b) => b[k + 1] \in Symbol
    BY <1>1
  <2> QED BY <1>1, <2>1 DEF IsFirst, Only
<1>3. First(b, Symbol \ Letter, 0, Len(b)) = k
  BY <1>1, <1>2, FirstIs
<1>4. b[1] \notin {"/", "*"}
  <2>1. CASE k > 0
    <3>1. b[0 + 1] \in Letter
      BY <2>1 DEF Only
    <3> QED BY <3>1, LetterFacts
  <2> QED BY <2>1
<1> QED BY <1>1, <1>3, <1>4 DEF RefUrl

-----------------------------------------------------------------------------
\* The state machine of the first loop: what leads to each state, and which
\* characters end the URL.
LEMMA ServerSteps ==
  ASSUME NEW t \in InServer, NEW c \in Symbol, c \notin {SP, TAB, CR, LF}
  PROVE  /\ t = "s_req_server_with_at" /\ c = "@" => parse_url_char(t, c) = "s_dead"
         /\ c = "/" => parse_url_char(t, c) = "s_req_path"
         /\ c = "?" => parse_url_char(t, c) = "s_req_query_string_start"
         /\ c = "@" /\ t # "s_req_server_with_at" => parse_url_char(t, c) = "s_req_server_with_at"
         /\ c \in AUTHORITY_CHARS /\ c # "@" => parse_url_char(t, c) = "s_req_server"
         /\ c \notin AUTHORITY_CHARS \cup {"/", "?"} => parse_url_char(t, c) = "s_dead"
<1>1. c \in AUTHORITY_CHARS <=> (IS_USERINFO_CHAR(c) \/ c \in {"@", "[", "]"})
  BY DEF AUTHORITY_CHARS
<1>2. c \in {"/", "?", "@"} => ~IS_USERINFO_CHAR(c)
  BY DEF IS_USERINFO_CHAR, IS_ALPHA, IS_NUM, IS_MARK, Letter, Digit
<1> QED BY <1>1, <1>2 DEF parse_url_char, InServer, InRest

LEMMA RestSteps ==
  ASSUME NEW t \in InRest, NEW c, c \notin {SP, TAB, CR, LF}
  PROVE  /\ t = "s_req_path" /\ c \notin {"?", "#"} => parse_url_char(t, c) = "s_req_path"
         /\ t = "s_req_path" /\ c = "?" => parse_url_char(t, c) = "s_req_query_string_start"
         /\ t # "s_req_fragment" /\ c = "#" => parse_url_char(t, c) = "s_req_fragment_start"
         /\ t \in {"s_req_query_string_start", "s_req_query_string"} /\ c # "#" => parse_url_char(t, c) = "s_req_query_string"
         /\ t = "s_req_fragment_start" /\ c # "#" => parse_url_char(t, c) = "s_req_fragment"
         /\ t = "s_req_fragment" => parse_url_char(t, c) = "s_req_fragment"
  BY DEF parse_url_char, InServer, InRest, IS_URL_CHAR

Leads(t, c, n) ==
  /\ n = "s_req_schema" => t \in {"s_req_spaces_before_url", "s_req_schema"} /\ c \in Letter
  /\ n = "s_req_schema_slash" => t = "s_req_schema" /\ c = ":"
  /\ n = "s_req_schema_slash_slash" => t = "s_req_schema_slash" /\ c = "/"
  /\ n = "s_req_server_start" => t = "s_req_schema_slash_slash" /\ c = "/"
  /\ n = "s_req_server" => t \in InServer /\ c \in AUTHORITY_CHARS /\ c # "@"
  /\ n = "s_req_server_with_at" => t \in {"s_req_server_start", "s_req_server"} /\ c = "@"
  /\ n \in InRest => c \in PATH_CHARS /\ t \in InServer \cup InRest \cup {"s_req_spaces_before_url"}
  /\ n \in InRest /\ t = "s_req_spaces_before_url" => n = "s_req_path" /\ c \in {"/", "*"}
  /\ n \in InRest /\ t \in InServer => \/ n = "s_req_path" /\ c = "/"
                                       \/ n = "s_req_query_string_start" /\ c = "?"

LEMMA UrlSteps ==
  ASSUME NEW t \in UrlState \cup {"s_req_spaces_before_url"}, NEW c \in Symbol, NEW n, n = parse_url_char(t, c)
  PROVE  Leads(t, c, n)
<1>1. c \in {SP, TAB, CR, LF} => n = "s_dead"
  BY DEF parse_url_char
<1>2. CASE c \in {SP, TAB, CR, LF}
  BY <1>1, <1>2 DEF Leads, InRest
<1>3. CASE c \notin {SP, TAB, CR, LF}
  <2>1. CASE t = "s_req_spaces_before_url"
    BY <1>3, <2>1 DEF Leads, parse_url_char, InServer, InRest, PATH_CHARS, IS_ALPHA
  <2>2. CASE t = "s_req_schema"
    BY <1>3, <2>2 DEF Leads, parse_url_char, InServer, InRest, IS_ALPHA
  <2>3. CASE t \in {"s_req_schema_slash", "s_req_schema_slash_slash"}
    BY <1>3, <2>3 DEF Leads, parse_url_char, InServer, InRest
  <2>4. CASE t \in InServer
    BY <1>3, <2>4, ServerSteps DEF Leads, InServer, InRest, PATH_CHARS
  <2>5. CASE t \in InRest
    BY <1>3, <2>5, RestSteps DEF Leads, InServer, InRest, PATH_CHARS
  <2> QED BY <2>1, <2>2, <2>3, <2>4, <2>5 DEF UrlState, InServer, InRest
<1> QED BY <1>2, <1>3

LEMMA UrlDead ==
  ASSUME NEW t \in UrlState \cup {"s_req_spaces_before_url"}, NEW c \in Symbol, parse_url_char(t, c) = "s_dead"
  PROVE  /\ t = "s_req_spaces_before_url" => c \notin {"/", "*"} /\ c \notin Letter
         /\ t = "s_req_schema" => c # ":" /\ c \notin Letter
         /\ t \in {"s_req_schema_slash", "s_req_schema_slash_slash"} => c # "/"
         /\ t \in InServer => c \notin {"/", "?"} /\ (c \in AUTHORITY_CHARS => t = "s_req_server_with_at" /\ c = "@")
         /\ t \in InRest => c \notin PATH_CHARS
<1>1. CASE c \in {SP, TAB, CR, LF}
  <2>1. c \notin Letter \cup {":", "/", "*", "?"}
    BY <1>1 DEF Letter, SP, TAB, CR, LF
  <2>2. c \notin AUTHORITY_CHARS
    BY <1>1 DEF AUTHORITY_CHARS, IS_USERINFO_CHAR, IS_ALPHA, IS_NUM, IS_MARK, Letter, Digit, SP, TAB, CR, LF
  <2> QED BY <1>1, <2>1, <2>2 DEF PATH_CHARS
<1>2. CASE c \notin {SP, TAB, CR, LF}
  <2>1. CASE t = "s_req_spaces_before_url"
    BY <1>2, <2>1 DEF parse_url_char, InServer, InRest, IS_ALPHA
  <2>2. CASE t = "s_req_schema"
    BY <1>2, <2>2 DEF parse_url_char, InServer, InRest, IS_ALPHA
  <2>3. CASE t \in {"s_req_schema_slash", "s_req_schema_slash_slash"}
    BY <1>2, <2>3 DEF parse_url_char, InServer, InRest
  <2>4. CASE t \in InServer
    BY <1>2, <2>4, ServerSteps DEF InServer, InRest
  <2>5. CASE t \in InRest
    BY <1>2, <2>5, RestSteps DEF InServer, InRest
  <2> QED BY <2>1, <2>2, <2>3, <2>4, <2>5 DEF UrlState, InServer, InRest
<1> QED BY <1>1, <1>2

-----------------------------------------------------------------------------
\* What follows the authority, between k and e: x, q, y and z are the end of
\* the path, where the query begins, its end, and where the fragment begins.
QueryAt(b, x, e) == IF x < e /\ b[x + 1] = "?" THEN x + 1 ELSE x

Cuts(b, k, e, x, q, y, z) ==
  /\ Only(b, PATH_CHARS, k, e)
  /\ IsFirst(b, {"?", "#"}, k, e, x) /\ q = QueryAt(b, x, e)
  /\ IsFirst(b, {"#"}, q, e, y) /\ IsFirst(b, Symbol \ {"#"}, y, e, z)

LEMMA CutsOrder ==
  ASSUME NEW b, NEW k \in Nat, NEW e \in Nat, NEW x, NEW q, NEW y, NEW z, Cuts(b, k, e, x, q, y, z)
  PROVE  /\ x \in Nat /\ q \in Nat /\ y \in Nat /\ z \in Nat
         /\ k <= x /\ x <= q /\ q <= y /\ y <= z /\ z <= e /\ (q = x \/ q = x + 1)
<1>1. x \in k..e /\ q = QueryAt(b, x, e)
  BY DEF Cuts, IsFirst
<1>2. q \in Nat /\ x <= q /\ (q = x \/ q = x + 1)
  BY <1>1 DEF QueryAt
<1>3. y \in q..e
  BY DEF Cuts, IsFirst
<1>4. z \in y..e
  BY DEF Cuts, IsFirst
<1> QED BY <1>1, <1>2, <1>3, <1>4

LEMMA CutsBegin == ASSUME NEW b, NEW k \in Nat PROVE Cuts(b, k, k, k, k, k, k)
  BY DEF Cuts, IsFirst, Only, QueryAt

\* How the first occurrences move when the end does.
LEMMA OnlyStep ==
  ASSUME NEW b, NEW S, NEW k \in Nat, NEW e \in Nat, k <= e, Only(b, S, k, e), b[e + 1] \in S
  PROVE  Only(b, S, k, e + 1)
<1>1. \A i \in k..((e + 1) - 1) : i \in k..(e - 1) \/ i = e
  OBVIOUS
<1> QED BY <1>1 DEF Only

LEMMA FirstStep ==
  ASSUME NEW b, NEW S, NEW k \in Nat, NEW e \in Nat, NEW i, IsFirst(b, S, k, e, i)
  PROVE  /\ i < e => IsFirst(b, S, k, e + 1, i)
         /\ i = e /\ b[e + 1] \in S => IsFirst(b, S, k, e + 1, e)
         /\ i = e /\ b[e + 1] \notin S => IsFirst(b, S, k, e + 1, e + 1)
<1>1. i \in k..e /\ (i = e \/ b[i + 1] \in S) /\ \A j \in k..(i - 1) : b[j + 1] \notin S
  BY DEF IsFirst
<1>2. ASSUME i = e, b[e + 1] \notin S PROVE IsFirst(b, S, k, e + 1, e + 1)
  <2>1. \A j \in k..((e + 1) - 1) : j \in k..(e - 1) \/ j = e
    OBVIOUS
  <2>2. e + 1 \in k..(e + 1)
    BY <1>1
  <2> QED BY <1>1, <1>2, <2>1, <2>2 DEF IsFirst
<1> QED BY <1>1, <1>2 DEF IsFirst

LEMMA CutsStep ==
  ASSUME NEW b \in Seq(Symbol), NEW k \in Nat, NEW e \in Nat, k <= e, e < Len(b), b[e + 1] \in PATH_CHARS,
         NEW x, NEW q, NEW y, NEW z, Cuts(b, k, e, x, q, y, z)
  PROVE  /\ x = e /\ b[e + 1] \notin {"?", "#"} => Cuts(b, k, e + 1, e + 1, e + 1, e + 1, e + 1)
         /\ x = e /\ b[e + 1] = "?" => Cuts(b, k, e + 1, e, e + 1, e + 1, e + 1)
         /\ x = e /\ b[e + 1] = "#" => Cuts(b, k, e + 1, e, e, e, e + 1)
         /\ x < e /\ y = e /\ b[e + 1] = "#" => Cuts(b, k, e + 1, x, q, e, e + 1)
         /\ x < e /\ y = e /\ b[e + 1] # "#" => Cuts(b, k, e + 1, x, q, e + 1, e + 1)
         /\ y < e /\ z = e /\ b[e + 1] = "#" => Cuts(b, k, e + 1, x, q, y, e + 1)
         /\ y < e /\ z = e /\ b[e + 1] # "#" => Cuts(b, k, e + 1, x, q, y, e)
         /\ z < e => Cuts(b, k, e + 1, x, q, y, z)
<1>1. /\ x \in Nat /\ q \in Nat /\ y \in Nat /\ z \in Nat
      /\ k <= x /\ x <= q /\ q <= y /\ y <= z /\ z <= e /\ (q = x \/ q = x + 1)
  BY CutsOrder
<1>2. Only(b, PATH_CHARS, k, e + 1)
  BY OnlyStep DEF Cuts
<1>3. /\ IsFirst(b, {"?", "#"}, k, e, x) /\ q = QueryAt(b, x, e)
      /\ IsFirst(b, {"#"}, q, e, y) /\ IsFirst(b, Symbol \ {"#"}, y, e, z)
  BY DEF Cuts
<1>4. b[e + 1] \in Symbol
  BY DEF PATH_CHARS
<1>5. x < e => QueryAt(b, x, e + 1) = q
  BY <1>1, <1>3 DEF QueryAt
<1>6. ASSUME NEW S PROVE IsFirst(b, S, e + 1, e + 1, e + 1)
  BY DEF IsFirst
<1>7. b[e + 1] = "#" => IsFirst(b, Symbol \ {"#"}, e, e + 1, e + 1)
  BY DEF IsFirst
<1>8. b[e + 1] \in {"?", "#"} /\ x = e => IsFirst(b, {"?", "#"}, k, e + 1, e)
  BY <1>3, FirstStep
<1>9. CASE x = e
  <2>1. q = e /\ y = e /\ z = e
    BY <1>1, <1>3, <1>9 DEF QueryAt
  <2>2. CASE b[e + 1] \notin {"?", "#"}
    <3>1. IsFirst(b, {"?", "#"}, k, e + 1, e + 1)
      BY <1>3, <1>9, <2>2, FirstStep
    <3>2. QueryAt(b, e + 1, e + 1) = e + 1
      BY DEF QueryAt
    <3>3. Cuts(b, k, e + 1, e + 1, e + 1, e + 1, e + 1)
      BY <1>2, <1>6, <3>1, <3>2 DEF Cuts
    <3> QED BY <1>9, <2>1, <2>2, <3>3
  <2>3. CASE b[e + 1] = "?"
    <3>1. QueryAt(b, e, e + 1) = e + 1
      BY <2>3 DEF QueryAt
    <3>2. IsFirst(b, {"?", "#"}, k, e + 1, e)
      BY <1>8, <1>9, <2>3
    <3>3. Cuts(b, k, e + 1, e, e + 1, e + 1, e + 1)
      BY <1>2, <1>6, <3>1, <3>2 DEF Cuts
    <3> QED BY <1>9, <2>1, <2>3, <3>3
  <2>4. CASE b[e + 1] = "#"
    <3>1. QueryAt(b, e, e + 1) = e
      BY <2>4 DEF QueryAt
    <3>2. IsFirst(b, {"#"}, e, e + 1, e)
      BY <1>3, <2>1, <2>4, FirstStep
    <3>3. IsFirst(b, {"?", "#"}, k, e + 1, e) /\ IsFirst(b, Symbol \ {"#"}, e, e + 1, e + 1)
      BY <1>7, <1>8, <1>9, <2>4
    <3>4. Cuts(b, k, e + 1, e, e, e, e + 1)
      BY <1>2, <3>1, <3>2, <3>3 DEF Cuts
    <3> QED BY <1>9, <2>1, <2>4, <3>4
  <2> QED BY <1>9, <2>1, <2>2, <2>3, <2>4
<1>10. CASE x < e
  <2>1. IsFirst(b, {"?", "#"}, k, e + 1, x) /\ q = QueryAt(b, x, e + 1)
    BY <1>3, <1>5, <1>10, FirstStep
  <2>2. ASSUME y = e, b[e + 1] = "#" PROVE Cuts(b, k, e + 1, x, q, e, e + 1)
    <3>1. IsFirst(b, {"#"}, q, e + 1, e)
      BY <1>1, <1>3, <2>2, FirstStep
    <3> QED BY <1>2, <1>7, <2>1, <2>2, <3>1 DEF Cuts
  <2>3. ASSUME y = e, b[e + 1] # "#" PROVE Cuts(b, k, e + 1, x, q, e + 1, e + 1)
    <3>1. IsFirst(b, {"#"}, q, e + 1, e + 1)
      BY <1>1, <1>3, <2>3, FirstStep
    <3> QED BY <1>2, <1>6, <2>1, <2>3, <3>1 DEF Cuts
  <2>4. y < e => IsFirst(b, {"#"}, q, e + 1, y)
    BY <1>1, <1>3, FirstStep
  <2>5. z < e => IsFirst(b, Symbol \ {"#"}, y, e + 1, z)
    BY <1>1, <1>3, FirstStep
  <2>6. ASSUME y < e, z = e, b[e + 1] = "#" PROVE Cuts(b, k, e + 1, x, q, y, e + 1)
    <3>1. IsFirst(b, Symbol \ {"#"}, y, e + 1, e + 1)
      BY <1>1, <1>3, <2>6, FirstStep
    <3> QED BY <1>2, <2>1, <2>4, <2>6, <3>1 DEF Cuts
  <2>7. ASSUME y < e, z = e, b[e + 1] # "#" PROVE Cuts(b, k, e + 1, x, q, y, e)
    <3>1. IsFirst(b, Symbol \ {"#"}, y, e + 1, e)
      BY <1>1, <1>3, <1>4, <2>7, FirstStep
    <3> QED BY <1>2, <2>1, <2>4, <2>7, <3>1 DEF Cuts
  <2>8. ASSUME z < e PROVE Cuts(b, k, e + 1, x, q, y, z)
    <3>1. y < e
      BY <1>1, <2>8
    <3> QED BY <1>2, <2>1, <2>4, <2>5, <2>8, <3>1 DEF Cuts
  <2> QED BY <1>10, <2>2, <2>3, <2>6, <2>7, <2>8
<1> QED BY <1>1, <1>9, <1>10

\* The reference for what follows the authority.
LEMMA RestIs ==
  ASSUME NEW b \in Seq(Symbol), NEW k \in Nat, NEW x, NEW q, NEW y, NEW z, Cuts(b, k, Len(b), x, q, y, z)
  PROVE  /\ RefRest(b, k).ok
         /\ RefRest(b, k).path = Span(k, x) /\ RefRest(b, k).query = Span(q, y)
         /\ RefRest(b, k).fragment = Span(z, Len(b))
<1>1. Len(b) \in Nat
  OBVIOUS
<1>2. x \in Nat /\ q \in Nat /\ y \in Nat /\ z \in Nat
  BY <1>1, CutsOrder
<1>3. First(b, {"?", "#"}, k, Len(b)) = x /\ First(b, {"#"}, q, Len(b)) = y /\ First(b, Symbol \ {"#"}, y, Len(b)) = z
  BY <1>1, <1>2, FirstIs DEF Cuts
<1>4. q = QueryAt(b, x, Len(b)) /\ Only(b, PATH_CHARS, k, Len(b))
  BY DEF Cuts
<1> QED BY <1>3, <1>4 DEF RefRest, QueryAt, PATH_CHARS

-----------------------------------------------------------------------------
\* From where each state of what follows the authority is reached.
LEMMA RestFrom ==
  ASSUME NEW t \in InRest, NEW c, c \notin {SP, TAB, CR, LF}, NEW n, n = parse_url_char(t, c)
  PROVE  /\ n \in InRest
         /\ n = "s_req_path" => t = "s_req_path" /\ c \notin {"?", "#"}
         /\ n = "s_req_query_string_start" => t = "s_req_path" /\ c = "?"
         /\ n = "s_req_query_string" => t \in {"s_req_query_string_start", "s_req_query_string"} /\ c # "#"
         /\ n = "s_req_fragment_start" => t # "s_req_fragment" /\ c = "#"
         /\ n = "s_req_fragment" => t = "s_req_fragment" \/ (t = "s_req_fragment_start" /\ c # "#")
<1>1. CASE t = "s_req_path"
  BY <1>1, RestSteps DEF InRest
<1>2. CASE t \in {"s_req_query_string_start", "s_req_query_string"}
  BY <1>2, RestSteps DEF InRest
<1>3. CASE t = "s_req_fragment_start"
  BY <1>3, RestSteps DEF InRest
<1>4. CASE t = "s_req_fragment"
  BY <1>4, RestSteps DEF InRest
<1> QED BY <1>1, <1>2, <1>3, <1>4 DEF InRest

-----------------------------------------------------------------------------
\* What the struct v says of a field: that it lies between k and e, or that it
\* is unset if that is empty.
Holds(v, f, k, e) ==
  /\ k <= e
  /\ k < e => f \in v.field_set /\ v.off[f] = k /\ v.len[f] = e - k
  /\ k = e => f \notin v.field_set

\* From v to w, field f gets the byte at i.
Grew(v, w, f, new, i) ==
  /\ w.field_set = IF new THEN v.field_set \cup {f} ELSE v.field_set
  /\ w.off[f] = IF new THEN i ELSE v.off[f]
  /\ w.len[f] = IF new THEN 1 ELSE v.len[f] + 1
  /\ \A g \in UrlField \ {f} : w.off[g] = v.off[g] /\ w.len[g] = v.len[g]

LEMMA HoldsGrown ==
  ASSUME NEW v, NEW w, NEW f, NEW new \in BOOLEAN, NEW k \in Nat, NEW i \in Nat, Holds(v, f, k, i),
         Grew(v, w, f, new, i), new <=> f \notin v.field_set
  PROVE  Holds(w, f, k, i + 1)
<1>1. CASE new
  <2>1. k = i
    BY <1>1 DEF Holds
  <2> QED BY <1>1, <2>1 DEF Holds, Grew
<1>2. CASE ~new
  <2>1. k < i
    BY <1>2 DEF Holds
  <2>2. f \in w.field_set /\ w.off[f] = k /\ w.len[f] = (i - k) + 1
    BY <1>2, <2>1 DEF Holds, Grew
  <2> QED BY <2>1, <2>2 DEF Holds
<1> QED BY <1>1, <1>2

LEMMA HoldsKept ==
  ASSUME NEW v, NEW w, NEW f, NEW g \in UrlField, g # f, NEW new, NEW i, NEW k, NEW e, Holds(v, g, k, e),
         Grew(v, w, f, new, i)
  PROVE  Holds(w, g, k, e)
<1>1. (g \in w.field_set <=> g \in v.field_set) /\ w.off[g] = v.off[g] /\ w.len[g] = v.len[g]
  BY DEF Grew
<1> QED BY <1>1 DEF Holds

-----------------------------------------------------------------------------
\* The fields of what follows the authority, and the state that says which of
\* them is being read.
Parts(v, k, x, q, y, z, e) == Holds(v, "UF_PATH", k, x) /\ Holds(v, "UF_QUERY", q, y) /\ Holds(v, "UF_FRAGMENT", z, e)

RestIn(t, e, x, q, y, z) ==
  \/ t = "s_req_path" /\ x = e
  \/ t = "s_req_query_string_start" /\ x < e /\ q = e
  \/ t = "s_req_query_string" /\ q < e /\ y = e
  \/ t = "s_req_fragment_start" /\ y < e /\ z = e
  \/ t = "s_req_fragment" /\ z < e

RestAt(b, v, t, k, e) ==
  \E x, q, y, z : Cuts(b, k, e, x, q, y, z) /\ Parts(v, k, x, q, y, z, e) /\ RestIn(t, e, x, q, y, z)

LEMMA RestBegins ==
  ASSUME NEW b, NEW v, NEW k \in Nat, v.field_set \cap {"UF_PATH", "UF_QUERY", "UF_FRAGMENT"} = {}
  PROVE  RestAt(b, v, "s_req_path", k, k)
<1>1. Parts(v, k, k, k, k, k, k)
  BY DEF Parts, Holds
<1>2. RestIn("s_req_path", k, k, k, k, k)
  BY DEF RestIn
<1> QED BY <1>1, <1>2, CutsBegin DEF RestAt

\* A delimiter ends a field, and leaves the struct alone.
LEMMA RestDelimiter ==
  ASSUME NEW b \in Seq(Symbol), NEW v, NEW t \in InRest, NEW k \in Nat, NEW e \in Nat, k <= e, e < Len(b),
         b[e + 1] \in PATH_CHARS, RestAt(b, v, t, k, e),
         NEW n, n = parse_url_char(t, b[e + 1]), n \in {"s_req_query_string_start", "s_req_fragment_start"}
  PROVE  RestAt(b, v, n, k, e + 1)
<1> DEFINE c == b[e + 1]
<1>1. PICK x, q, y, z : Cuts(b, k, e, x, q, y, z) /\ Parts(v, k, x, q, y, z, e) /\ RestIn(t, e, x, q, y, z)
  BY DEF RestAt
<1>2. /\ x \in Nat /\ q \in Nat /\ y \in Nat /\ z \in Nat
      /\ k <= x /\ x <= q /\ q <= y /\ y <= z /\ z <= e /\ (q = x \/ q = x + 1)
  BY <1>1, CutsOrder
<1>3. c \notin {SP, TAB, CR, LF}
  BY DEF PATH_CHARS
<1>4. /\ n = "s_req_path" => t = "s_req_path" /\ c \notin {"?", "#"}
      /\ n = "s_req_query_string_start" => t = "s_req_path" /\ c = "?"
      /\ n = "s_req_query_string" => t \in {"s_req_query_string_start", "s_req_query_string"} /\ c # "#"
      /\ n = "s_req_fragment_start" => t # "s_req_fragment" /\ c = "#"
      /\ n = "s_req_fragment" => t = "s_req_fragment" \/ (t = "s_req_fragment_start" /\ c # "#")
  BY <1>3, RestFrom
<1>5. Holds(v, "UF_PATH", k, x) /\ Holds(v, "UF_QUERY", q, y) /\ Holds(v, "UF_FRAGMENT", z, e)
  BY <1>1 DEF Parts
<1>6. \A f, m, o : m \in Nat /\ o \in Nat /\ Holds(v, f, m, m) => Holds(v, f, o, o)
  BY DEF Holds
<1>7. x = e => q = e /\ y = e /\ z = e
  BY <1>1, <1>2 DEF Cuts, QueryAt
<1>8. CASE n = "s_req_query_string_start"
  <2>1. t = "s_req_path" /\ c = "?"
    BY <1>4, <1>8
  <2>2. x = e
    BY <1>1, <2>1 DEF RestIn
  <2>3. Cuts(b, k, e + 1, e, e + 1, e + 1, e + 1)
    BY <1>1, <2>1, <2>2, CutsStep
  <2>4. Parts(v, k, e, e + 1, e + 1, e + 1, e + 1)
    BY <1>2, <1>5, <1>6, <1>7, <2>2 DEF Parts, Holds
  <2>5. RestIn(n, e + 1, e, e + 1, e + 1, e + 1)
    BY <1>8 DEF RestIn
  <2> QED BY <2>3, <2>4, <2>5 DEF RestAt
<1>9. CASE n = "s_req_fragment_start"
  <2>1. t # "s_req_fragment" /\ c = "#"
    BY <1>4, <1>9
  <2>2. z = e
    BY <1>1, <1>2, <1>7, <2>1 DEF RestIn
  <2>3. Holds(v, "UF_FRAGMENT", e + 1, e + 1)
    BY <1>2, <1>5, <2>2 DEF Holds
  <2>4. CASE x = e
    <3>1. Cuts(b, k, e + 1, e, e, e, e + 1)
      BY <1>1, <2>1, <2>4, CutsStep
    <3>2. Parts(v, k, e, e, e, e + 1, e + 1)
      BY <1>5, <1>7, <2>3, <2>4 DEF Parts
    <3>3. RestIn(n, e + 1, e, e, e, e + 1)
      BY <1>9 DEF RestIn
    <3> QED BY <3>1, <3>2, <3>3 DEF RestAt
  <2>5. CASE x < e /\ y = e
    <3>1. Cuts(b, k, e + 1, x, q, e, e + 1)
      BY <1>1, <2>1, <2>5, CutsStep
    <3>2. Parts(v, k, x, q, e, e + 1, e + 1)
      BY <1>5, <2>3, <2>5 DEF Parts
    <3>3. RestIn(n, e + 1, x, q, e, e + 1)
      BY <1>9 DEF RestIn
    <3> QED BY <3>1, <3>2, <3>3 DEF RestAt
  <2>6. CASE y < e
    <3>1. Cuts(b, k, e + 1, x, q, y, e + 1)
      BY <1>1, <2>1, <2>2, <2>6, CutsStep
    <3>2. Parts(v, k, x, q, y, e + 1, e + 1)
      BY <1>5, <2>3 DEF Parts
    <3>3. RestIn(n, e + 1, x, q, y, e + 1)
      BY <1>2, <1>9, <2>6 DEF RestIn
    <3> QED BY <3>1, <3>2, <3>3 DEF RestAt
  <2> QED BY <1>2, <2>4, <2>5, <2>6
<1> QED BY <1>8, <1>9

\* Any other byte belongs to a field, which begins there if it was not set.
LEMMA RestField ==
  ASSUME NEW b \in Seq(Symbol), NEW v, NEW t \in InRest, NEW k \in Nat, NEW e \in Nat, k <= e, e < Len(b),
         b[e + 1] \in PATH_CHARS, RestAt(b, v, t, k, e),
         NEW n, n = parse_url_char(t, b[e + 1]), n \in {"s_req_path", "s_req_query_string", "s_req_fragment"},
         NEW w, NEW new \in BOOLEAN, Grew(v, w, FieldOf(n), new, e), new <=> FieldOf(n) \notin v.field_set
  PROVE  RestAt(b, w, n, k, e + 1)
<1> DEFINE c == b[e + 1]
<1>1. PICK x, q, y, z : Cuts(b, k, e, x, q, y, z) /\ Parts(v, k, x, q, y, z, e) /\ RestIn(t, e, x, q, y, z)
  BY DEF RestAt
<1>2. /\ x \in Nat /\ q \in Nat /\ y \in Nat /\ z \in Nat
      /\ k <= x /\ x <= q /\ q <= y /\ y <= z /\ z <= e /\ (q = x \/ q = x + 1)
  BY <1>1, CutsOrder
<1>3. c \notin {SP, TAB, CR, LF}
  BY DEF PATH_CHARS
<1>4. /\ n = "s_req_path" => t = "s_req_path" /\ c \notin {"?", "#"}
      /\ n = "s_req_query_string_start" => t = "s_req_path" /\ c = "?"
      /\ n = "s_req_query_string" => t \in {"s_req_query_string_start", "s_req_query_string"} /\ c # "#"
      /\ n = "s_req_fragment_start" => t # "s_req_fragment" /\ c = "#"
      /\ n = "s_req_fragment" => t = "s_req_fragment" \/ (t = "s_req_fragment_start" /\ c # "#")
  BY <1>3, RestFrom
<1>5. Holds(v, "UF_PATH", k, x) /\ Holds(v, "UF_QUERY", q, y) /\ Holds(v, "UF_FRAGMENT", z, e)
  BY <1>1 DEF Parts
<1>6. x = e => q = e /\ y = e /\ z = e
  BY <1>1, <1>2 DEF Cuts, QueryAt
<1>7. \A f : Holds(w, f, e, e) => Holds(w, f, e + 1, e + 1)
  BY DEF Holds
<1>8. \A f, m, o : f \in {"UF_PATH", "UF_QUERY", "UF_FRAGMENT"} /\ f # FieldOf(n) /\ Holds(v, f, m, o) => Holds(w, f, m, o)
  <2>1. {"UF_PATH", "UF_QUERY", "UF_FRAGMENT"} \subseteq UrlField
    BY DEF UrlField
  <2> QED BY <2>1, HoldsKept
<1>9. CASE n = "s_req_path"
  <2>1. t = "s_req_path" /\ c \notin {"?", "#"}
    BY <1>4, <1>9
  <2>2. x = e /\ FieldOf(n) = "UF_PATH"
    BY <1>1, <1>9, <2>1 DEF RestIn, FieldOf
  <2>3. Cuts(b, k, e + 1, e + 1, e + 1, e + 1, e + 1)
    BY <1>1, <2>1, <2>2, CutsStep
  <2>4. Holds(w, "UF_PATH", k, e + 1)
    BY <1>5, <2>2, HoldsGrown
  <2>5. Holds(w, "UF_QUERY", e + 1, e + 1) /\ Holds(w, "UF_FRAGMENT", e + 1, e + 1)
    BY <1>5, <1>6, <1>7, <1>8, <2>2
  <2>6. Parts(w, k, e + 1, e + 1, e + 1, e + 1, e + 1) /\ RestIn(n, e + 1, e + 1, e + 1, e + 1, e + 1)
    BY <1>9, <2>4, <2>5 DEF Parts, RestIn
  <2> QED BY <2>3, <2>6 DEF RestAt
<1>10. CASE n = "s_req_query_string"
  <2>1. t \in {"s_req_query_string_start", "s_req_query_string"} /\ c # "#"
    BY <1>4, <1>10
  <2>2. x < e /\ y = e /\ z = e /\ FieldOf(n) = "UF_QUERY"
    BY <1>1, <1>2, <1>10, <2>1 DEF RestIn, FieldOf
  <2>3. Cuts(b, k, e + 1, x, q, e + 1, e + 1)
    BY <1>1, <2>1, <2>2, CutsStep
  <2>4. Holds(w, "UF_QUERY", q, e + 1)
    BY <1>2, <1>5, <2>2, HoldsGrown
  <2>5. Holds(w, "UF_PATH", k, x) /\ Holds(w, "UF_FRAGMENT", e + 1, e + 1)
    BY <1>5, <1>7, <1>8, <2>2
  <2>6. Parts(w, k, x, q, e + 1, e + 1, e + 1) /\ RestIn(n, e + 1, x, q, e + 1, e + 1)
    BY <1>2, <1>10, <2>4, <2>5 DEF Parts, RestIn
  <2> QED BY <2>3, <2>6 DEF RestAt
<1>11. CASE n = "s_req_fragment"
  <2>1. t = "s_req_fragment" \/ (t = "s_req_fragment_start" /\ c # "#")
    BY <1>4, <1>11
  <2>2. y < e /\ FieldOf(n) = "UF_FRAGMENT"
    BY <1>1, <1>2, <1>11, <2>1 DEF RestIn, FieldOf
  <2>3. Cuts(b, k, e + 1, x, q, y, z)
    <3>1. z = e => c # "#"
      BY <1>1, <2>1 DEF RestIn
    <3>2. CASE z = e
      BY <1>1, <2>2, <3>1, <3>2, CutsStep
    <3>3. CASE z < e
      BY <1>1, <2>2, <3>3, CutsStep
    <3> QED BY <1>2, <3>2, <3>3
  <2>4. Holds(w, "UF_FRAGMENT", z, e + 1)
    BY <1>2, <1>5, <2>2, HoldsGrown
  <2>5. Holds(w, "UF_PATH", k, x) /\ Holds(w, "UF_QUERY", q, y)
    BY <1>5, <1>8, <2>2
  <2>6. Parts(w, k, x, q, y, z, e + 1) /\ RestIn(n, e + 1, x, q, y, z)
    BY <1>2, <1>11, <2>4, <2>5 DEF Parts, RestIn
  <2> QED BY <2>3, <2>6 DEF RestAt
<1> QED BY <1>9, <1>10, <1>11

\* A field that was not being read is not set yet.
LEMMA RestNew ==
  ASSUME NEW b \in Seq(Symbol), NEW v, NEW t \in InRest, NEW k \in Nat, NEW e \in Nat, k <= e, e < Len(b),
         b[e + 1] \in PATH_CHARS, RestAt(b, v, t, k, e),
         NEW n, n = parse_url_char(t, b[e + 1]), n \in {"s_req_path", "s_req_query_string", "s_req_fragment"}, n # t
  PROVE  FieldOf(n) \notin v.field_set
<1> DEFINE c == b[e + 1]
<1>1. PICK x, q, y, z : Cuts(b, k, e, x, q, y, z) /\ Parts(v, k, x, q, y, z, e) /\ RestIn(t, e, x, q, y, z)
  BY DEF RestAt
<1>2. /\ x \in Nat /\ q \in Nat /\ y \in Nat /\ z \in Nat
      /\ k <= x /\ x <= q /\ q <= y /\ y <= z /\ z <= e /\ (q = x \/ q = x + 1)
  BY <1>1, CutsOrder
<1>3. c \notin {SP, TAB, CR, LF}
  BY DEF PATH_CHARS
<1>4. \/ n = "s_req_query_string" /\ t = "s_req_query_string_start"
      \/ n = "s_req_fragment" /\ t = "s_req_fragment_start"
  BY <1>3, RestSteps DEF InRest
<1>5. CASE n = "s_req_query_string" /\ t = "s_req_query_string_start"
  BY <1>1, <1>2, <1>5 DEF RestIn, Parts, Holds, FieldOf
<1>6. CASE n = "s_req_fragment" /\ t = "s_req_fragment_start"
  BY <1>1, <1>2, <1>6 DEF RestIn, Parts, Holds, FieldOf
<1> QED BY <1>4, <1>5, <1>6

-----------------------------------------------------------------------------
\* The first loop before position i, by its state t.  What has been read is a
\* schema, an authority that begins at a, or an authority that ends at k and
\* something that follows it.
SchemaHeld(connect, v, a) == IF connect THEN "UF_SCHEMA" \notin v.field_set ELSE Holds(v, "UF_SCHEMA", 0, a - 3)

SchemaRead(b, connect, v, at, k) ==
  /\ ~connect /\ ~at /\ k \in Nat /\ k > 0 /\ v.field_set = {"UF_SCHEMA"} /\ Holds(v, "UF_SCHEMA", 0, k)
  /\ Only(b, Letter, 0, k)

HasAt(b, k, e) == \E i \in k..(e - 1) : b[i + 1] = "@"

AuthorityRead(b, connect, v, at, a, e) ==
  /\ a \in Nat /\ a <= e /\ Begins(b, connect, a) /\ SchemaHeld(connect, v, a) /\ Holds(v, "UF_HOST", a, e)
  /\ Only(b, AUTHORITY_CHARS, a, e)
  /\ at <=> HasAt(b, a, e)

AuthorityEnds(b, connect, v, at, k) ==
  \/ ~connect /\ k = 0 /\ v.field_set \cap {"UF_SCHEMA", "UF_HOST"} = {} /\ ~at /\ b[1] \in {"/", "*"}
  \/ (\E a : AuthorityRead(b, connect, v, at, a, k)) /\ b[k + 1] \in {"/", "?"}

Phase(b, connect, v, t, at, i) ==
  \/ t = "s_req_spaces_before_url" /\ ~connect /\ i = 0 /\ v.field_set = {} /\ ~at
  \/ t = "s_req_schema" /\ SchemaRead(b, connect, v, at, i)
  \/ t = "s_req_schema_slash" /\ SchemaRead(b, connect, v, at, i - 1) /\ b[i] = ":"
  \/ t = "s_req_schema_slash_slash" /\ SchemaRead(b, connect, v, at, i - 2) /\ b[i - 1] = ":" /\ b[i] = "/"
  \/ t = "s_req_server_start" /\ AuthorityRead(b, connect, v, at, i, i) /\ v.field_set \subseteq {"UF_SCHEMA"}
  \/ /\ t \in {"s_req_server", "s_req_server_with_at"} /\ v.field_set \subseteq {"UF_SCHEMA", "UF_HOST"}
     /\ \E a : a < i /\ AuthorityRead(b, connect, v, at, a, i)
     /\ t = "s_req_server_with_at" => b[i] = "@"
  \/ /\ t \in InRest
     /\ \E k \in Nat : k < i /\ AuthorityEnds(b, connect, v, at, k) /\ RestAt(b, v, t, k, i)

\* The authority goes on.
LEMMA AuthorityGrows ==
  ASSUME NEW b \in Seq(Symbol), NEW connect \in BOOLEAN, NEW v, NEW at \in BOOLEAN, NEW a, NEW e \in Nat, e < Len(b),
         AuthorityRead(b, connect, v, at, a, e), b[e + 1] \in AUTHORITY_CHARS,
         NEW w, NEW new \in BOOLEAN, Grew(v, w, "UF_HOST", new, e), new <=> "UF_HOST" \notin v.field_set
  PROVE  AuthorityRead(b, connect, w, at \/ b[e + 1] = "@", a, e + 1)
<1>1. /\ a \in Nat /\ a <= e /\ Begins(b, connect, a) /\ SchemaHeld(connect, v, a) /\ Holds(v, "UF_HOST", a, e)
      /\ Only(b, AUTHORITY_CHARS, a, e) /\ (at <=> HasAt(b, a, e))
  BY DEF AuthorityRead
<1>2. Only(b, AUTHORITY_CHARS, a, e + 1)
  BY <1>1, OnlyStep
<1>3. Holds(w, "UF_HOST", a, e + 1)
  BY <1>1, HoldsGrown
<1>4. SchemaHeld(connect, w, a)
  <2>1. "UF_SCHEMA" \in UrlField
    BY DEF UrlField
  <2>2. CASE connect
    BY <1>1, <2>1, <2>2 DEF SchemaHeld, Grew
  <2>3. CASE ~connect
    BY <1>1, <2>1, <2>3, HoldsKept DEF SchemaHeld
  <2> QED BY <2>2, <2>3
<1>5. (at \/ b[e + 1] = "@") <=> HasAt(b, a, e + 1)
  <2>1. \A i : i \in a..((e + 1) - 1) <=> i \in a..(e - 1) \/ i = e
    BY <1>1
  <2> QED BY <1>1, <2>1 DEF HasAt
<1>6. e + 1 \in Nat /\ a <= e + 1
  BY <1>1
<1> QED BY <1>1, <1>2, <1>3, <1>4, <1>5, <1>6 DEF AuthorityRead

\* In the states of the authority one is read.
LEMMA InAuthority ==
  ASSUME NEW b, NEW connect, NEW v, NEW t \in InServer, NEW at, NEW i \in Nat, Phase(b, connect, v, t, at, i)
  PROVE  /\ v.field_set \subseteq {"UF_SCHEMA", "UF_HOST"}
         /\ \E a : AuthorityRead(b, connect, v, at, a, i)
         /\ t = "s_req_server_start" => "UF_HOST" \notin v.field_set
         /\ t # "s_req_server_start" => "UF_HOST" \in v.field_set
         /\ t = "s_req_server_with_at" => i > 0 /\ b[i] = "@"
<1>1. t \notin InRest
  BY DEF InServer, InRest
<1>2. CASE t = "s_req_server_start"
  BY <1>1, <1>2 DEF Phase
<1>3. CASE t \in {"s_req_server", "s_req_server_with_at"}
  <2>1. PICK a : a < i /\ AuthorityRead(b, connect, v, at, a, i)
    BY <1>1, <1>3 DEF Phase
  <2>2. a \in Nat /\ "UF_HOST" \in v.field_set
    BY <2>1 DEF AuthorityRead, Holds
  <2> QED BY <1>1, <1>3, <2>1, <2>2 DEF Phase
<1> QED BY <1>2, <1>3 DEF InServer

\* A step of the first loop that leads to state n.
UrlStep(b, connect, v, t, at, i, n) ==
  /\ b \in Seq(Symbol) /\ connect \in BOOLEAN /\ t \in UrlState \cup {"s_req_spaces_before_url"} /\ at \in BOOLEAN
  /\ i \in Nat /\ i < Len(b) /\ Phase(b, connect, v, t, at, i) /\ n = parse_url_char(t, b[i + 1])

\* What follows the authority has begun at k, or begins there as a path would.
PathFrom(b, connect, v, t, at, i, n) ==
  \E k \in Nat, r \in InRest :
    /\ k <= i /\ AuthorityEnds(b, connect, v, at, k) /\ RestAt(b, v, r, k, i)
    /\ n = parse_url_char(r, b[i + 1])
    /\ r = t \/ (r = "s_req_path" /\ (n \notin Delimiter => FieldOf(n) \notin v.field_set))

LEMMA InPath ==
  ASSUME NEW b, NEW connect, NEW v, NEW t, NEW at, NEW i, NEW n, UrlStep(b, connect, v, t, at, i, n), n \in InRest
  PROVE  b[i + 1] \in PATH_CHARS /\ PathFrom(b, connect, v, t, at, i, n)
<1> DEFINE c == b[i + 1]
<1>1. /\ b \in Seq(Symbol) /\ connect \in BOOLEAN /\ t \in UrlState \cup {"s_req_spaces_before_url"} /\ at \in BOOLEAN
      /\ i \in Nat /\ i < Len(b) /\ Phase(b, connect, v, t, at, i) /\ n = parse_url_char(t, c) /\ c \in Symbol
  BY DEF UrlStep
<1>2. /\ c \in PATH_CHARS /\ t \in InServer \cup InRest \cup {"s_req_spaces_before_url"}
      /\ t = "s_req_spaces_before_url" => n = "s_req_path" /\ c \in {"/", "*"}
      /\ t \in InServer => \/ n = "s_req_path" /\ c = "/"
                           \/ n = "s_req_query_string_start" /\ c = "?"
  <2>1. Leads(t, c, n)
    BY <1>1, UrlSteps
  <2> QED BY <2>1 DEF Leads
<1>3. c \notin {SP, TAB, CR, LF} /\ "s_req_path" \in InRest
  BY <1>2 DEF PATH_CHARS, InRest
<1>4. FieldOf(n) \in {"UF_PATH"} \/ n # "s_req_path"
  BY DEF FieldOf
<1>5. CASE t \in InRest
  <2>1. t \notin InServer /\ t \notin {"s_req_spaces_before_url", "s_req_schema", "s_req_schema_slash", "s_req_schema_slash_slash"}
    BY <1>5 DEF InRest, InServer
  <2>2. PICK k \in Nat : k < i /\ AuthorityEnds(b, connect, v, at, k) /\ RestAt(b, v, t, k, i)
    BY <1>1, <2>1 DEF Phase, InServer
  <2> QED BY <1>1, <1>2, <1>5, <2>2 DEF PathFrom
<1>6. CASE t \in InServer
  <2>1. /\ v.field_set \subseteq {"UF_SCHEMA", "UF_HOST"} /\ \E a : AuthorityRead(b, connect, v, at, a, i)
        /\ c \in {"/", "?"}
    BY <1>1, <1>2, <1>6, InAuthority
  <2>2. AuthorityEnds(b, connect, v, at, i) /\ RestAt(b, v, "s_req_path", i, i)
    BY <1>1, <2>1, RestBegins DEF AuthorityEnds
  <2>3. n = parse_url_char("s_req_path", c)
    BY <1>1, <1>2, <1>3, <1>6, RestSteps
  <2>4. n \notin Delimiter => FieldOf(n) \notin v.field_set
    <3>1. CASE n = "s_req_path"
      BY <1>4, <2>1, <3>1
    <3>2. CASE n = "s_req_query_string_start"
      BY <3>2 DEF Delimiter
    <3> QED BY <1>2, <1>6, <3>1, <3>2
  <2> QED BY <1>1, <1>2, <1>3, <2>2, <2>3, <2>4 DEF PathFrom
<1>7. CASE t = "s_req_spaces_before_url"
  <2>1. ~connect /\ i = 0 /\ v.field_set = {} /\ ~at
    BY <1>1, <1>7 DEF Phase, InRest
  <2>2. AuthorityEnds(b, connect, v, at, 0) /\ RestAt(b, v, "s_req_path", 0, 0)
    BY <1>1, <1>2, <1>7, <2>1, RestBegins DEF AuthorityEnds
  <2>3. n = parse_url_char("s_req_path", c)
    BY <1>1, <1>2, <1>3, <1>7, RestSteps
  <2> QED BY <1>1, <1>2, <1>3, <2>1, <2>2, <2>3 DEF PathFrom
<1> QED BY <1>2, <1>5, <1>6, <1>7

-----------------------------------------------------------------------------
\* A delimiter, and a byte of a field, lead from phase to phase.
LEMMA PhaseDelimiter ==
  ASSUME NEW b, NEW connect, NEW v, NEW t, NEW at, NEW i, NEW n, UrlStep(b, connect, v, t, at, i, n), n \in Delimiter
  PROVE  Phase(b, connect, v, n, at, i + 1)
<1> DEFINE c == b[i + 1]
<1>1. /\ b \in Seq(Symbol) /\ connect \in BOOLEAN /\ t \in UrlState \cup {"s_req_spaces_before_url"} /\ at \in BOOLEAN
      /\ i \in Nat /\ i + 1 \in Nat /\ i < Len(b) /\ Phase(b, connect, v, t, at, i)
      /\ n = parse_url_char(t, c) /\ c \in Symbol
  BY DEF UrlStep
<1>2. /\ n = "s_req_schema_slash" => t = "s_req_schema" /\ c = ":"
      /\ n = "s_req_schema_slash_slash" => t = "s_req_schema_slash" /\ c = "/"
      /\ n = "s_req_server_start" => t = "s_req_schema_slash_slash" /\ c = "/"
  <2>1. Leads(t, c, n)
    BY <1>1, UrlSteps
  <2> QED BY <2>1 DEF Leads
<1>3. CASE n = "s_req_schema_slash"
  <2>1. SchemaRead(b, connect, v, at, i) /\ c = ":" /\ (i + 1) - 1 = i
    BY <1>1, <1>2, <1>3 DEF Phase, InRest
  <2> QED BY <1>1, <1>3, <2>1 DEF Phase
<1>4. CASE n = "s_req_schema_slash_slash"
  <2>1. SchemaRead(b, connect, v, at, i - 1) /\ b[i] = ":" /\ c = "/" /\ (i + 1) - 2 = i - 1 /\ (i + 1) - 1 = i
    BY <1>1, <1>2, <1>4 DEF Phase, InRest
  <2> QED BY <1>1, <1>4, <2>1 DEF Phase
<1>5. CASE n = "s_req_server_start"
  <2>1. SchemaRead(b, connect, v, at, i - 2) /\ b[i - 1] = ":" /\ b[i] = "/" /\ c = "/"
    BY <1>1, <1>2, <1>5 DEF Phase, InRest
  <2>2. (i + 1) - 3 = i - 2 /\ (i + 1) - 2 = i - 1 /\ (i + 1) - 1 = i
    BY <1>1
  <2>3. Begins(b, connect, i + 1) /\ SchemaHeld(connect, v, i + 1)
    BY <1>1, <2>1, <2>2 DEF Begins, SchemaHeld, SchemaRead
  <2>4. v.field_set = {"UF_SCHEMA"} /\ ~at
    BY <2>1 DEF SchemaRead
  <2>5. Holds(v, "UF_HOST", i + 1, i + 1) /\ Only(b, AUTHORITY_CHARS, i + 1, i + 1) /\ ~HasAt(b, i + 1, i + 1)
    BY <1>1, <2>4 DEF Holds, Only, HasAt
  <2>6. AuthorityRead(b, connect, v, at, i + 1, i + 1)
    BY <1>1, <2>3, <2>4, <2>5 DEF AuthorityRead
  <2> QED BY <1>1, <1>5, <2>4, <2>6 DEF Phase
<1>6. CASE n \in {"s_req_query_string_start", "s_req_fragment_start"}
  <2>1. n \in InRest
    BY <1>6 DEF InRest
  <2>2. c \in PATH_CHARS /\ PathFrom(b, connect, v, t, at, i, n)
    BY <2>1, InPath
  <2>3. PICK k \in Nat, r \in InRest : /\ k <= i /\ AuthorityEnds(b, connect, v, at, k) /\ RestAt(b, v, r, k, i)
                                       /\ n = parse_url_char(r, c)
    BY <2>2 DEF PathFrom
  <2>4. RestAt(b, v, n, k, i + 1)
    BY <1>1, <1>6, <2>2, <2>3, RestDelimiter
  <2>5. k < i + 1
    BY <1>1, <2>3
  <2> QED BY <1>1, <2>1, <2>3, <2>4, <2>5 DEF Phase
<1> QED BY <1>3, <1>4, <1>5, <1>6 DEF Delimiter

\* What follows the authority leaves it alone.
LEMMA AuthorityKept ==
  ASSUME NEW b, NEW connect \in BOOLEAN, NEW v, NEW at, NEW k, AuthorityEnds(b, connect, v, at, k),
         NEW w, NEW f \in {"UF_PATH", "UF_QUERY", "UF_FRAGMENT"}, NEW new, NEW i, Grew(v, w, f, new, i)
  PROVE  AuthorityEnds(b, connect, w, at, k)
<1>1. f \notin {"UF_SCHEMA", "UF_HOST"} /\ {"UF_SCHEMA", "UF_HOST"} \subseteq UrlField
  BY DEF UrlField
<1>2. \A g \in {"UF_SCHEMA", "UF_HOST"} : g \in w.field_set <=> g \in v.field_set
  BY <1>1 DEF Grew
<1>3. \A g \in {"UF_SCHEMA", "UF_HOST"} : \A m, e : Holds(v, g, m, e) => Holds(w, g, m, e)
  BY <1>1, HoldsKept
<1>4. \A a : SchemaHeld(connect, v, a) => SchemaHeld(connect, w, a)
  BY <1>2, <1>3 DEF SchemaHeld
<1>5. \A a : AuthorityRead(b, connect, v, at, a, k) => AuthorityRead(b, connect, w, at, a, k)
  BY <1>3, <1>4 DEF AuthorityRead
<1> QED BY <1>2, <1>5 DEF AuthorityEnds

\* The field that is being read, by the state.
OldField(v, t, uf) ==
  /\ uf \in v.field_set \cup {UF_MAX}
  /\ t \in UrlState \ Delimiter => uf = FieldOf(t)

LEMMA PhaseField ==
  ASSUME NEW b, NEW connect, NEW v, NEW t, NEW at, NEW i, NEW n, UrlStep(b, connect, v, t, at, i, n), NEW uf, OldField(v, t, uf),
         n \notin Delimiter \cup {"s_dead"},
         NEW w, Grew(v, w, FieldOf(n), FieldOf(n) # uf, i)
  PROVE  Phase(b, connect, w, n, at \/ n = "s_req_server_with_at", i + 1) /\ OldField(w, n, FieldOf(n))
<1> DEFINE c == b[i + 1]
           new == FieldOf(n) # uf
<1>1. /\ b \in Seq(Symbol) /\ connect \in BOOLEAN /\ t \in UrlState \cup {"s_req_spaces_before_url"} /\ at \in BOOLEAN
      /\ i \in Nat /\ i + 1 \in Nat /\ i < Len(b) /\ Phase(b, connect, v, t, at, i)
      /\ n = parse_url_char(t, c) /\ c \in Symbol /\ n \in UrlState \ Delimiter
  BY UrlCharRange DEF UrlStep
<1>2. FieldOf(n) \in FirstField /\ FieldOf(n) # UF_MAX
  BY <1>1, FieldOfRange DEF FirstField, UF_MAX
<1>3. /\ n = "s_req_schema" => t \in {"s_req_spaces_before_url", "s_req_schema"} /\ c \in Letter
      /\ n = "s_req_server" => t \in InServer /\ c \in AUTHORITY_CHARS /\ c # "@"
      /\ n = "s_req_server_with_at" => t \in {"s_req_server_start", "s_req_server"} /\ c = "@"
  <2>1. Leads(t, c, n)
    BY <1>1, UrlSteps
  <2> QED BY <2>1 DEF Leads
<1>4. ASSUME FieldOf(n) \in v.field_set => t \in UrlState \ Delimiter /\ FieldOf(t) = FieldOf(n)
      PROVE  new <=> FieldOf(n) \notin v.field_set
  BY <1>2, <1>4 DEF OldField
<1>5. FieldOf(n) \in w.field_set
  <2>1. CASE new
    BY <2>1 DEF Grew
  <2>2. CASE ~new
    BY <1>2, <2>2 DEF Grew, OldField
  <2> QED BY <2>1, <2>2
<1>6. OldField(w, n, FieldOf(n))
  BY <1>5 DEF OldField
<1>7. CASE n = "s_req_schema"
  <2>1. FieldOf(n) = "UF_SCHEMA" /\ n # "s_req_server_with_at"
    BY <1>7 DEF FieldOf
  <2>2. /\ ~connect /\ ~at /\ Holds(v, "UF_SCHEMA", 0, i) /\ Only(b, Letter, 0, i) /\ v.field_set \subseteq {"UF_SCHEMA"}
        /\ "UF_SCHEMA" \in v.field_set => t = "s_req_schema"
    <3>1. CASE t = "s_req_schema"
      <4>1. SchemaRead(b, connect, v, at, i)
        BY <1>1, <3>1 DEF Phase, InRest
      <4> QED BY <3>1, <4>1 DEF SchemaRead
    <3>2. CASE t = "s_req_spaces_before_url"
      <4>1. ~connect /\ i = 0 /\ v.field_set = {} /\ ~at
        BY <1>1, <3>2 DEF Phase, InRest
      <4> QED BY <4>1 DEF Holds, Only
    <3> QED BY <1>3, <1>7, <3>1, <3>2
  <2>3. new <=> "UF_SCHEMA" \notin v.field_set
    <3>1. FieldOf("s_req_schema") = "UF_SCHEMA" /\ "s_req_schema" \in UrlState \ Delimiter
      BY <1>1, <1>7, <2>1
    <3> QED BY <1>4, <2>1, <2>2, <3>1
  <2>4. Holds(w, "UF_SCHEMA", 0, i + 1)
    BY <1>1, <2>1, <2>2, <2>3, HoldsGrown
  <2>5. Only(b, Letter, 0, i + 1)
    BY <1>1, <1>3, <1>7, <2>2, OnlyStep
  <2>6. w.field_set = {"UF_SCHEMA"}
    BY <1>5, <2>1, <2>2 DEF Grew
  <2>7. SchemaRead(b, connect, w, at, i + 1)
    BY <1>1, <2>2, <2>4, <2>5, <2>6 DEF SchemaRead
  <2>8. (at \/ n = "s_req_server_with_at") = at
    BY <1>1, <2>1
  <2>9. Phase(b, connect, w, n, at, i + 1)
    BY <1>1, <1>7, <2>7 DEF Phase
  <2> QED BY <1>6, <2>8, <2>9
<1>8. CASE n \in {"s_req_server", "s_req_server_with_at"}
  <2>1. FieldOf(n) = "UF_HOST" /\ t \in InServer /\ c \in AUTHORITY_CHARS
    BY <1>3, <1>8, ClassesOfAuthority DEF FieldOf, InServer
  <2>2. /\ v.field_set \subseteq {"UF_SCHEMA", "UF_HOST"} /\ \E a : AuthorityRead(b, connect, v, at, a, i)
        /\ t = "s_req_server_start" => "UF_HOST" \notin v.field_set
    BY <1>1, <2>1, InAuthority
  <2>3. PICK a : AuthorityRead(b, connect, v, at, a, i)
    BY <2>2
  <2>4. new <=> "UF_HOST" \notin v.field_set
    <3>1. t # "s_req_server_start" => FieldOf(t) = "UF_HOST" /\ t \in UrlState \ Delimiter
      BY <2>1 DEF FieldOf, InServer, UrlState, Delimiter
    <3> QED BY <1>4, <2>1, <2>2, <3>1
  <2>5. AuthorityRead(b, connect, w, at \/ c = "@", a, i + 1)
    BY <1>1, <2>1, <2>3, <2>4, AuthorityGrows
  <2>6. (at \/ c = "@") = (at \/ n = "s_req_server_with_at")
    BY <1>3, <1>8
  <2>7. w.field_set \subseteq {"UF_SCHEMA", "UF_HOST"}
    BY <2>1, <2>2 DEF Grew
  <2>8. a < i + 1
    BY <1>1, <2>3 DEF AuthorityRead
  <2>9. n = "s_req_server_with_at" => b[i + 1] = "@"
    BY <1>3
  <2>10. AuthorityRead(b, connect, w, at \/ n = "s_req_server_with_at", a, i + 1)
    BY <2>5, <2>6
  <2> QED BY <1>1, <1>6, <1>8, <2>7, <2>8, <2>9, <2>10 DEF Phase
<1>9. CASE n \in {"s_req_path", "s_req_query_string", "s_req_fragment"}
  <2>1. n \in InRest /\ FieldOf(n) \in {"UF_PATH", "UF_QUERY", "UF_FRAGMENT"} /\ n # "s_req_server_with_at"
    BY <1>9 DEF InRest, FieldOf
  <2>2. c \in PATH_CHARS /\ PathFrom(b, connect, v, t, at, i, n)
    BY <2>1, InPath
  <2>3. PICK k \in Nat, r \in InRest : /\ k <= i /\ AuthorityEnds(b, connect, v, at, k) /\ RestAt(b, v, r, k, i)
                                       /\ n = parse_url_char(r, c)
                                       /\ r = t \/ (r = "s_req_path" /\ (n \notin Delimiter => FieldOf(n) \notin v.field_set))
    BY <2>2 DEF PathFrom
  <2>4. new <=> FieldOf(n) \notin v.field_set
    <3>1. CASE r = t /\ n = t
      BY <1>1, <1>4, <3>1
    <3>2. CASE r = t /\ n # t
      <4>1. FieldOf(n) \notin v.field_set
        BY <1>1, <1>9, <2>2, <2>3, <3>2, RestNew
      <4> QED BY <1>4, <4>1
    <3>3. CASE FieldOf(n) \notin v.field_set
      BY <1>4, <3>3
    <3> QED BY <1>1, <2>3, <3>1, <3>2, <3>3
  <2>5. RestAt(b, w, n, k, i + 1)
    BY <1>1, <1>9, <2>2, <2>3, <2>4, RestField
  <2>6. AuthorityEnds(b, connect, w, at, k)
    BY <1>1, <2>1, <2>3, AuthorityKept
  <2>7. k < i + 1 /\ (at \/ n = "s_req_server_with_at") = at
    BY <1>1, <2>1, <2>3
  <2>8. Phase(b, connect, w, n, at, i + 1)
    BY <1>1, <2>1, <2>3, <2>5, <2>6, <2>7 DEF Phase
  <2> QED BY <1>6, <2>7, <2>8
<1> QED BY <1>1, <1>7, <1>8, <1>9 DEF UrlState, Delimiter

-----------------------------------------------------------------------------
\* The reference for what the first loop has read.
LEMMA NoPath ==
  ASSUME NEW b, NEW k \in Nat, NEW i \in Nat, k <= i, i < Len(b), b[i + 1] \notin PATH_CHARS, Len(b) \in Nat
  PROVE  ~RefRest(b, k).ok
<1>1. i \in k..(Len(b) - 1)
  OBVIOUS
<1>2. RefRest(b, k).ok <=> Only(b, PATH_CHARS, k, Len(b))
  BY DEF RefRest, PATH_CHARS
<1> QED BY <1>1, <1>2 DEF Only

\* The authority ends at the first '/' or '?'.
LEMMA AuthorityFirst ==
  ASSUME NEW b, Len(b) \in Nat, NEW connect, NEW v, NEW at, NEW a, NEW e \in Nat, AuthorityRead(b, connect, v, at, a, e),
         e <= Len(b), e < Len(b) => b[e + 1] \in {"/", "?"}
  PROVE  IsFirst(b, {"/", "?"}, a, Len(b), e)
<1>1. a \in Nat /\ a <= e /\ Only(b, AUTHORITY_CHARS, a, e)
  BY DEF AuthorityRead
<1>2. e \in a..Len(b)
  BY <1>1
<1>3. \A j \in a..(e - 1) : b[j + 1] \notin {"/", "?"}
  BY <1>1, CharClasses DEF Only
<1> QED BY <1>2, <1>3 DEF IsFirst

RefRefuses(b, connect) == ~RefUrl(b, connect).ok

\* If the authority or the rest is refused, so is the URL.
LEMMA RefusedParts ==
  ASSUME NEW b \in Seq(Symbol), NEW connect \in BOOLEAN, NEW a \in Nat, NEW k \in Nat, Begins(b, connect, a),
         IsFirst(b, {"/", "?"}, a, Len(b), k), ~RefAuthority(b, a, k).ok \/ ~RefRest(b, k).ok
  PROVE  RefRefuses(b, connect)
<1> DEFINE S == Spans(IF connect THEN 0 ELSE a - 3, RefAuthority(b, a, k), RefRest(b, k))
<1>1. RefUrl(b, connect).ok <=> RefAuthority(b, a, k).ok /\ RefRest(b, k).ok /\ PortOnly(connect, SetOf(S))
  BY RefWithAuthority
<1> QED BY <1>1 DEF RefRefuses

\* A URL that begins with letters, or with neither letters nor a path.
NoSchema(b, k) ==
  /\ k \in Nat /\ k <= Len(b) /\ 0 < Len(b) /\ Only(b, Letter, 0, k)
  /\ k < Len(b) => b[k + 1] \notin Letter
  /\ k = 0 => b[1] \notin {"/", "*"}
  /\ k = 0 \/ k + 3 > Len(b) \/ b[k + 1] # ":" \/ b[k + 2] # "/" \/ b[k + 3] # "/"

LEMMA RefusedSchema == ASSUME NEW b \in Seq(Symbol), NEW k, NoSchema(b, k) PROVE RefRefuses(b, FALSE)
<1> USE DEF NoSchema
<1>1. ~(k > 0 /\ k + 3 <= Len(b) /\ b[k + 1] = ":" /\ b[k + 2] = "/" /\ b[k + 3] = "/")
  <2>1. Len(b) \in Nat
    OBVIOUS
  <2> QED BY <2>1
<1> QED BY <1>1, RefNeither DEF RefRefuses

\* In an authority, the byte at i is refused.
LEMMA RefusedAuthority ==
  ASSUME NEW b \in Seq(Symbol), NEW connect \in BOOLEAN, NEW v, NEW at, NEW a, NEW i \in Nat, i < Len(b),
         AuthorityRead(b, connect, v, at, a, i), b[i + 1] \notin {"/", "?"},
         b[i + 1] \notin AUTHORITY_CHARS \/ (a < i /\ b[i] = "@" /\ b[i + 1] = "@")
  PROVE  RefRefuses(b, connect)
<1>1. /\ a \in Nat /\ a <= i /\ Begins(b, connect, a) /\ Only(b, AUTHORITY_CHARS, a, i) /\ Len(b) \in Nat
  BY DEF AuthorityRead
<1> DEFINE k == First(b, {"/", "?"}, a, Len(b))
<1>2. k \in Nat /\ IsFirst(b, {"/", "?"}, a, Len(b), k)
  BY <1>1, FirstExists
<1> HIDE DEF k
<1>3. k \in a..Len(b) /\ (k = Len(b) \/ b[k + 1] \in {"/", "?"})
  BY <1>2 DEF IsFirst
<1>4. i < k
  <2> SUFFICES ASSUME k <= i PROVE FALSE
    BY <1>2
  <2>1. k < Len(b) /\ b[k + 1] \in {"/", "?"} /\ k # i
    BY <1>1, <1>2, <1>3
  <2>2. k \in a..(i - 1)
    BY <1>1, <1>2, <1>3, <2>1
  <2> QED BY <1>1, <2>1, <2>2, CharClasses DEF Only
<1>5. ~RefAuthority(b, a, k).ok
  <2> SUFFICES ASSUME RefAuthority(b, a, k).ok PROVE FALSE
    OBVIOUS
  <2>1. a <= k /\ k <= Len(b) /\ i \in a..(k - 1)
    BY <1>1, <1>2, <1>3, <1>4
  <2>2. b[i + 1] \in AUTHORITY_CHARS /\ (b[i + 1] = "@" => i = First(b, {"@"}, a, k))
    BY <1>1, <1>2, <2>1, AuthorityChars
  <2>3. a < i /\ b[i] = "@" /\ b[i + 1] = "@"
    BY <2>2
  <2>4. i - 1 \in a..(k - 1) /\ (i - 1) + 1 = i
    BY <1>1, <1>2, <2>1, <2>3
  <2>5. b[(i - 1) + 1] = "@" => i - 1 = First(b, {"@"}, a, k)
    BY <1>1, <1>2, <2>1, <2>4, AuthorityChars
  <2> QED BY <2>2, <2>3, <2>4, <2>5
<1> QED BY <1>1, <1>2, <1>5, RefusedParts

LEMMA RefusedUrl ==
  ASSUME NEW b, NEW connect, NEW v, NEW t, NEW at, NEW i, UrlStep(b, connect, v, t, at, i, "s_dead")
  PROVE  RefRefuses(b, connect)
<1> DEFINE c == b[i + 1]
<1>1. /\ b \in Seq(Symbol) /\ connect \in BOOLEAN /\ t \in UrlState \cup {"s_req_spaces_before_url"} /\ at \in BOOLEAN
      /\ i \in Nat /\ i < Len(b) /\ Phase(b, connect, v, t, at, i) /\ parse_url_char(t, c) = "s_dead" /\ c \in Symbol
      /\ Len(b) \in Nat /\ 0 < Len(b)
  BY DEF UrlStep
<1>2. /\ t = "s_req_spaces_before_url" => c \notin {"/", "*"} /\ c \notin Letter
      /\ t = "s_req_schema" => c # ":" /\ c \notin Letter
      /\ t \in {"s_req_schema_slash", "s_req_schema_slash_slash"} => c # "/"
      /\ t \in InServer => c \notin {"/", "?"} /\ (c \in AUTHORITY_CHARS => t = "s_req_server_with_at" /\ c = "@")
      /\ t \in InRest => c \notin PATH_CHARS
  BY <1>1, UrlDead
<1>3. CASE t = "s_req_spaces_before_url"
  <2>1. ~connect /\ i = 0
    BY <1>1, <1>3 DEF Phase, InRest
  <2>2. Only(b, Letter, 0, 0)
    BY DEF Only
  <2>3. RefRefuses(b, FALSE)
    <3>1. NoSchema(b, 0)
      BY <1>1, <1>2, <1>3, <2>1, <2>2 DEF NoSchema
    <3> QED BY <1>1, <3>1, RefusedSchema
  <2> QED BY <1>1, <2>1, <2>3
<1>4. CASE t = "s_req_schema"
  <2>1. SchemaRead(b, connect, v, at, i)
    BY <1>1, <1>4 DEF Phase, InRest
  <2>2. ~connect /\ i > 0 /\ Only(b, Letter, 0, i)
    BY <2>1 DEF SchemaRead
  <2>3. RefRefuses(b, FALSE)
    <3>1. NoSchema(b, i)
      BY <1>1, <1>2, <1>4, <2>2 DEF NoSchema
    <3> QED BY <1>1, <3>1, RefusedSchema
  <2> QED BY <1>1, <2>2, <2>3
<1>5. CASE t = "s_req_schema_slash"
  <2>1. SchemaRead(b, connect, v, at, i - 1) /\ b[i] = ":"
    BY <1>1, <1>5 DEF Phase, InRest
  <2>2. ~connect /\ i - 1 > 0 /\ Only(b, Letter, 0, i - 1) /\ i - 1 \in Nat /\ (i - 1) + 1 = i /\ (i - 1) + 2 = i + 1
    BY <1>1, <2>1 DEF SchemaRead
  <2>3. b[(i - 1) + 1] \notin Letter /\ b[(i - 1) + 2] # "/"
    BY <1>2, <1>5, <2>1, <2>2, LetterFacts
  <2>4. RefRefuses(b, FALSE)
    <3>1. NoSchema(b, i - 1)
      BY <1>1, <2>2, <2>3 DEF NoSchema
    <3> QED BY <1>1, <3>1, RefusedSchema
  <2> QED BY <1>1, <2>2, <2>4
<1>6. CASE t = "s_req_schema_slash_slash"
  <2>1. SchemaRead(b, connect, v, at, i - 2) /\ b[i - 1] = ":"
    BY <1>1, <1>6 DEF Phase, InRest
  <2>2. /\ ~connect /\ i - 2 > 0 /\ Only(b, Letter, 0, i - 2) /\ i - 2 \in Nat
        /\ (i - 2) + 1 = i - 1 /\ (i - 2) + 3 = i + 1
    BY <1>1, <2>1 DEF SchemaRead
  <2>3. b[(i - 2) + 1] \notin Letter /\ b[(i - 2) + 3] # "/"
    BY <1>2, <1>6, <2>1, <2>2, LetterFacts
  <2>4. RefRefuses(b, FALSE)
    <3>1. NoSchema(b, i - 2)
      BY <1>1, <2>2, <2>3 DEF NoSchema
    <3> QED BY <1>1, <3>1, RefusedSchema
  <2> QED BY <1>1, <2>2, <2>4
<1>7. CASE t \in InServer
  <2>1. /\ \E a : AuthorityRead(b, connect, v, at, a, i)
        /\ t = "s_req_server_with_at" => "UF_HOST" \in v.field_set /\ b[i] = "@"
    BY <1>1, <1>7, InAuthority
  <2>2. PICK a : AuthorityRead(b, connect, v, at, a, i)
    BY <2>1
  <2>3. "UF_HOST" \in v.field_set => a < i
    BY <1>1, <2>2 DEF AuthorityRead, Holds
  <2> QED BY <1>1, <1>2, <1>7, <2>1, <2>2, <2>3, RefusedAuthority
<1>8. CASE t \in InRest
  <2>1. t \notin InServer /\ t \notin {"s_req_spaces_before_url", "s_req_schema", "s_req_schema_slash", "s_req_schema_slash_slash"}
    BY <1>8 DEF InRest, InServer
  <2>2. PICK k \in Nat : k < i /\ AuthorityEnds(b, connect, v, at, k)
    BY <1>1, <2>1 DEF Phase, InServer
  <2>3. ~RefRest(b, k).ok
    BY <1>1, <1>2, <1>8, <2>2, NoPath
  <2>4. CASE ~connect /\ k = 0 /\ b[1] \in {"/", "*"}
    <3> DEFINE S == Spans(0, RefAuthority(b, 0, 0), RefRest(b, 0))
    <3>1. RefUrl(b, FALSE).ok <=> RefRest(b, 0).ok
      BY <1>1, <2>4, RefRelative
    <3> QED BY <1>1, <2>3, <2>4, <3>1 DEF RefRefuses
  <2>5. CASE (\E a : AuthorityRead(b, connect, v, at, a, k)) /\ b[k + 1] \in {"/", "?"}
    <3>1. PICK a : AuthorityRead(b, connect, v, at, a, k)
      BY <2>5
    <3>2. a \in Nat /\ Begins(b, connect, a)
      BY <3>1 DEF AuthorityRead
    <3>3. IsFirst(b, {"/", "?"}, a, Len(b), k)
      BY <1>1, <2>2, <2>5, <3>1, AuthorityFirst
    <3> QED BY <1>1, <2>3, <3>2, <3>3, RefusedParts
  <2> QED BY <2>2, <2>4, <2>5 DEF AuthorityEnds
<1> QED BY <1>1, <1>3, <1>4, <1>5, <1>6, <1>7, <1>8 DEF UrlState, InServer, InRest

-----------------------------------------------------------------------------
\* A struct agrees with the reference: it has its fields, at their places.
Agrees(b, connect, v) ==
  LET r == RefUrl(b, connect) IN
  /\ v.field_set = DOMAIN r.spans
  /\ \A f \in v.field_set : r.spans[f] = [off |-> v.off[f], len |-> v.len[f]]

HoldsSpan(v, f, span) == \E k \in Nat, e \in Nat : span = Span(k, e) /\ Holds(v, f, k, e)

LEMMA SpansAgree ==
  ASSUME NEW v, NEW S, v.field_set \subseteq UrlField, \A f \in UrlField : HoldsSpan(v, f, S[f])
  PROVE  SetOf(S) = v.field_set /\ \A f \in v.field_set : S[f] = [off |-> v.off[f], len |-> v.len[f]]
<1>1. ASSUME NEW f \in UrlField
      PROVE  (S[f].len > 0 <=> f \in v.field_set) /\ (f \in v.field_set => S[f] = [off |-> v.off[f], len |-> v.len[f]])
  <2>1. PICK k \in Nat, e \in Nat : S[f] = Span(k, e) /\ Holds(v, f, k, e)
    BY DEF HoldsSpan
  <2>2. S[f] = [off |-> k, len |-> e - k] /\ S[f].len = e - k
    BY <2>1 DEF Span
  <2>3. CASE k < e
    <3>1. f \in v.field_set /\ v.off[f] = k /\ v.len[f] = e - k
      BY <2>1, <2>3 DEF Holds
    <3> QED BY <2>2, <2>3, <3>1
  <2>4. CASE k = e
    <3>1. f \notin v.field_set
      BY <2>1, <2>4 DEF Holds
    <3> QED BY <2>2, <2>4, <3>1
  <2> QED BY <2>1, <2>3, <2>4 DEF Holds
<1> QED BY <1>1 DEF SetOf

RestHeld(b, v, k) == \E x, q, y, z : Cuts(b, k, Len(b), x, q, y, z) /\ Parts(v, k, x, q, y, z, Len(b))

LEMMA RestSpans ==
  ASSUME NEW b \in Seq(Symbol), NEW v, NEW k \in Nat, RestHeld(b, v, k)
  PROVE  /\ RefRest(b, k).ok
         /\ HoldsSpan(v, "UF_PATH", RefRest(b, k).path) /\ HoldsSpan(v, "UF_QUERY", RefRest(b, k).query)
         /\ HoldsSpan(v, "UF_FRAGMENT", RefRest(b, k).fragment)
<1>1. PICK x, q, y, z : Cuts(b, k, Len(b), x, q, y, z) /\ Parts(v, k, x, q, y, z, Len(b))
  BY DEF RestHeld
<1>2. x \in Nat /\ q \in Nat /\ y \in Nat /\ z \in Nat /\ Len(b) \in Nat
  <2>1. Len(b) \in Nat
    OBVIOUS
  <2> QED BY <1>1, <2>1, CutsOrder
<1>3. /\ RefRest(b, k).ok
      /\ RefRest(b, k).path = Span(k, x) /\ RefRest(b, k).query = Span(q, y)
      /\ RefRest(b, k).fragment = Span(z, Len(b))
  BY <1>1, RestIs
<1> QED BY <1>1, <1>2, <1>3 DEF HoldsSpan, Parts

\* The first loop has read a URL without a schema and without an authority.
LEMMA RelativeDone ==
  ASSUME NEW b \in Seq(Symbol), Len(b) > 0 => b[1] \in {"/", "*"}, NEW v, RestHeld(b, v, 0),
         v.field_set \subseteq FirstField \ {"UF_SCHEMA", "UF_HOST"}
  PROVE  ~RefRefuses(b, FALSE) /\ Agrees(b, FALSE, v)
<1> DEFINE S == Spans(0, RefAuthority(b, 0, 0), RefRest(b, 0))
<1>1. RefUrl(b, FALSE).ok <=> RefRest(b, 0).ok
  BY RefRelative
<1>2. RefUrl(b, FALSE).spans = [f \in SetOf(S) |-> S[f]]
  BY RefRelative
<1>3. /\ RefRest(b, 0).ok
      /\ HoldsSpan(v, "UF_PATH", RefRest(b, 0).path) /\ HoldsSpan(v, "UF_QUERY", RefRest(b, 0).query)
      /\ HoldsSpan(v, "UF_FRAGMENT", RefRest(b, 0).fragment)
  BY RestSpans
<1>4. /\ RefAuthority(b, 0, 0).user = Span(0, 0) /\ RefAuthority(b, 0, 0).host = Span(0, 0)
      /\ RefAuthority(b, 0, 0).port = Span(0, 0)
  <2>1. IsFirst(b, {"@"}, 0, 0, 0) /\ IsFirst(b, {":"}, 0, 0, 0)
    BY DEF IsFirst
  <2>2. 0 = HostBegins(0, 0, 0) /\ ~HasAddress(b, 0, 0) /\ UserSpan(0, 0, 0) = Span(0, 0) /\ PortSpan(0, 0) = Span(0, 0)
    BY DEF HostBegins, HasAddress, UserSpan, PortSpan
  <2>3. /\ RefAuthority(b, 0, 0).user = UserSpan(0, 0, 0) /\ RefAuthority(b, 0, 0).host = Span(0, 0)
        /\ RefAuthority(b, 0, 0).port = PortSpan(0, 0)
    <3>1. 0 \in Nat /\ 0 = HostBegins(0, 0, 0) /\ ~HasAddress(b, 0, 0)
      BY <2>2
    <3> QED BY ONLY <2>1, <3>1, NamedAuthority
  <2> QED BY <2>2, <2>3
<1>5. \A f \in UrlField \ v.field_set : HoldsSpan(v, f, Span(0, 0))
  BY DEF HoldsSpan, Holds
<1>6. /\ S["UF_PATH"] = RefRest(b, 0).path /\ S["UF_QUERY"] = RefRest(b, 0).query /\ S["UF_FRAGMENT"] = RefRest(b, 0).fragment
      /\ \A f \in {"UF_SCHEMA", "UF_HOST", "UF_USERINFO", "UF_PORT"} : S[f] = Span(0, 0)
  BY <1>4 DEF Spans, UrlField
<1>7. {"UF_SCHEMA", "UF_HOST", "UF_USERINFO", "UF_PORT"} \subseteq UrlField \ v.field_set
  BY DEF UrlField, FirstField
<1> HIDE DEF S
<1>8. \A f \in UrlField : HoldsSpan(v, f, S[f])
  <2>1. \A f \in UrlField : f \in {"UF_PATH", "UF_QUERY", "UF_FRAGMENT"} \cup {"UF_SCHEMA", "UF_HOST", "UF_USERINFO", "UF_PORT"}
    BY DEF UrlField
  <2> QED BY <1>3, <1>5, <1>6, <1>7, <2>1
<1>9. v.field_set \subseteq UrlField
  BY DEF FirstField, UrlField
<1>10. SetOf(S) = v.field_set /\ \A f \in v.field_set : S[f] = [off |-> v.off[f], len |-> v.len[f]]
  BY ONLY <1>8, <1>9, SpansAgree
<1> QED BY <1>1, <1>2, <1>3, <1>10 DEF RefRefuses, Agrees

-----------------------------------------------------------------------------
\* Around the authority, which lies between a and e, everything is read.
Outer(b, connect, v, a, e) ==
  /\ a \in Nat /\ e \in Nat /\ a < e /\ e <= Len(b) /\ Begins(b, connect, a) /\ SchemaHeld(connect, v, a)
  /\ "UF_HOST" \in v.field_set /\ IsFirst(b, {"/", "?"}, a, Len(b), e) /\ Only(b, AUTHORITY_CHARS, a, e)
  /\ RestHeld(b, v, e)

UrlDone(b, connect, v, at) ==
  /\ v.field_set \cap {"UF_SCHEMA", "UF_HOST"} = {} =>
       IF connect THEN RefRefuses(b, connect) ELSE ~RefRefuses(b, connect) /\ Agrees(b, connect, v)
  /\ "UF_SCHEMA" \in v.field_set /\ "UF_HOST" \notin v.field_set => RefRefuses(b, connect) /\ ~at
  /\ "UF_HOST" \in v.field_set =>
       \E a, e : Outer(b, connect, v, a, e) /\ Holds(v, "UF_HOST", a, e) /\ (at <=> HasAt(b, a, e))

\* The first loop has read an authority, perhaps an empty one.
LEMMA AuthorityDone ==
  ASSUME NEW b \in Seq(Symbol), NEW connect \in BOOLEAN, NEW v, NEW at \in BOOLEAN, NEW a, NEW e \in Nat, e <= Len(b),
         e < Len(b) => b[e + 1] \in {"/", "?"}, AuthorityRead(b, connect, v, at, a, e), RestHeld(b, v, e)
  PROVE  UrlDone(b, connect, v, at)
<1>1. /\ a \in Nat /\ a <= e /\ Begins(b, connect, a) /\ SchemaHeld(connect, v, a) /\ Holds(v, "UF_HOST", a, e)
      /\ Only(b, AUTHORITY_CHARS, a, e) /\ (at <=> HasAt(b, a, e)) /\ Len(b) \in Nat
  BY DEF AuthorityRead
<1>2. IsFirst(b, {"/", "?"}, a, Len(b), e)
  BY <1>1, AuthorityFirst
<1>3. CASE a < e
  <2>1. "UF_HOST" \in v.field_set
    BY <1>1, <1>3 DEF Holds
  <2>2. Outer(b, connect, v, a, e)
    BY <1>1, <1>2, <1>3, <2>1 DEF Outer
  <2> QED BY <1>1, <2>1, <2>2 DEF UrlDone
<1>4. CASE a = e
  <2>1. ~RefAuthority(b, a, e).ok
    BY <1>1, <1>4, EmptyAuthority
  <2>2. RefRefuses(b, connect)
    BY <1>1, <1>2, <2>1, RefusedParts
  <2>3. "UF_HOST" \notin v.field_set /\ ~at
    BY <1>1, <1>4 DEF Holds, HasAt
  <2>4. ~connect => "UF_SCHEMA" \in v.field_set
    BY <1>1 DEF Begins, SchemaHeld, Holds
  <2> QED BY <2>2, <2>3, <2>4 DEF UrlDone
<1> QED BY <1>1, <1>3, <1>4

\* The first loop has read letters, and no authority.
LEMMA SchemaDone ==
  ASSUME NEW b \in Seq(Symbol), NEW connect \in BOOLEAN, NEW v, NEW at, NEW k, SchemaRead(b, connect, v, at, k), NoSchema(b, k)
  PROVE  UrlDone(b, connect, v, at)
<1>1. RefRefuses(b, FALSE)
  BY RefusedSchema
<1>2. ~connect /\ ~at /\ v.field_set = {"UF_SCHEMA"}
  BY DEF SchemaRead
<1>3. connect = FALSE
  BY <1>2
<1> QED BY <1>1, <1>2, <1>3 DEF UrlDone

LEMMA PhaseDone ==
  ASSUME NEW b \in Seq(Symbol), NEW connect \in BOOLEAN, NEW v, v.field_set \subseteq FirstField,
         NEW t \in UrlState \cup {"s_req_spaces_before_url"}, NEW at \in BOOLEAN, Phase(b, connect, v, t, at, Len(b))
  PROVE  UrlDone(b, connect, v, at)
<1> DEFINE n == Len(b)
<1>1. n \in Nat
  OBVIOUS
<1>2. v.field_set \cap {"UF_PATH", "UF_QUERY", "UF_FRAGMENT"} = {} => RestHeld(b, v, n)
  <2> SUFFICES ASSUME v.field_set \cap {"UF_PATH", "UF_QUERY", "UF_FRAGMENT"} = {} PROVE RestHeld(b, v, n)
    OBVIOUS
  <2>1. Cuts(b, n, n, n, n, n, n)
    BY <1>1, CutsBegin
  <2>2. Parts(v, n, n, n, n, n, n)
    BY <1>1 DEF Parts, Holds
  <2> QED BY <2>1, <2>2 DEF RestHeld
<1>3. CASE t = "s_req_spaces_before_url"
  <2>1. ~connect /\ n = 0 /\ v.field_set = {}
    BY <1>3 DEF Phase, InRest
  <2>2. RestHeld(b, v, 0) /\ v.field_set \subseteq FirstField \ {"UF_SCHEMA", "UF_HOST"} /\ ~(Len(b) > 0)
    BY <1>2, <2>1
  <2>3. ~RefRefuses(b, FALSE) /\ Agrees(b, FALSE, v)
    BY <2>2, RelativeDone
  <2>4. connect = FALSE
    BY <2>1
  <2> QED BY <2>1, <2>3, <2>4 DEF UrlDone
<1>4. CASE t = "s_req_schema"
  <2>1. SchemaRead(b, connect, v, at, n)
    BY <1>4 DEF Phase, InRest
  <2>2. NoSchema(b, n)
    BY <1>1, <2>1 DEF SchemaRead, NoSchema
  <2> QED BY <2>1, <2>2, SchemaDone
<1>5. CASE t = "s_req_schema_slash"
  <2>1. SchemaRead(b, connect, v, at, n - 1) /\ b[n] = ":"
    BY <1>5 DEF Phase, InRest
  <2>2. (n - 1) + 1 = n /\ b[(n - 1) + 1] \notin Letter
    BY <1>1, <2>1, LetterFacts
  <2>3. NoSchema(b, n - 1)
    BY <1>1, <2>1, <2>2 DEF SchemaRead, NoSchema
  <2> QED BY <2>1, <2>3, SchemaDone
<1>6. CASE t = "s_req_schema_slash_slash"
  <2>1. SchemaRead(b, connect, v, at, n - 2) /\ b[n - 1] = ":"
    BY <1>6 DEF Phase, InRest
  <2>2. (n - 2) + 1 = n - 1 /\ b[(n - 2) + 1] \notin Letter
    BY <1>1, <2>1, LetterFacts
  <2>3. NoSchema(b, n - 2)
    BY <1>1, <2>1, <2>2 DEF SchemaRead, NoSchema
  <2> QED BY <2>1, <2>3, SchemaDone
<1>7. CASE t \in InServer
  <2>1. v.field_set \subseteq {"UF_SCHEMA", "UF_HOST"} /\ \E a : AuthorityRead(b, connect, v, at, a, n)
    BY <1>1, <1>7, InAuthority
  <2>2. RestHeld(b, v, n)
    BY <1>2, <2>1
  <2> QED BY <1>1, <2>1, <2>2, AuthorityDone
<1>8. CASE t \in InRest
  <2>1. t \notin InServer /\ t \notin {"s_req_spaces_before_url", "s_req_schema", "s_req_schema_slash", "s_req_schema_slash_slash"}
    BY <1>8 DEF InRest, InServer
  <2>2. PICK k \in Nat : k < n /\ AuthorityEnds(b, connect, v, at, k) /\ RestAt(b, v, t, k, n)
    BY <2>1 DEF Phase, InServer
  <2>3. RestHeld(b, v, k)
    BY <2>2 DEF RestAt, RestHeld
  <2>4. CASE ~connect /\ k = 0 /\ v.field_set \cap {"UF_SCHEMA", "UF_HOST"} = {} /\ b[1] \in {"/", "*"}
    <3>1. ~RefRefuses(b, FALSE) /\ Agrees(b, FALSE, v)
      BY <2>3, <2>4, RelativeDone
    <3>2. connect = FALSE
      BY <2>4
    <3> QED BY <2>4, <3>1, <3>2 DEF UrlDone
  <2>5. CASE (\E a : AuthorityRead(b, connect, v, at, a, k)) /\ b[k + 1] \in {"/", "?"}
    BY <1>1, <2>2, <2>3, <2>5, AuthorityDone
  <2> QED BY <2>2, <2>4, <2>5 DEF AuthorityEnds
<1> QED BY <1>3, <1>4, <1>5, <1>6, <1>7, <1>8 DEF UrlState, InServer, InRest

-----------------------------------------------------------------------------
\* The state machine of the second loop.
HostLeads(t, c, n) ==
  /\ n = "s_http_userinfo"        => t \in {"s_http_userinfo_start", "s_http_userinfo"} /\ c \in USERINFO_CHARS
  /\ n = "s_http_host_start"      => t \in {"s_http_userinfo_start", "s_http_userinfo"} /\ c = "@"
  /\ n = "s_http_host_v6_start"   => t = "s_http_host_start" /\ c = "["
  /\ n = "s_http_host"            => t \in {"s_http_host_start", "s_http_host"} /\ c \in HOST_CHARS
  /\ n = "s_http_host_v6"         => t \in {"s_http_host_v6_start", "s_http_host_v6"} /\ c \in ADDRESS_CHARS
  /\ n = "s_http_host_v6_end"     => t = "s_http_host_v6" /\ c = "]"
  /\ n = "s_http_host_port_start" => t \in {"s_http_host", "s_http_host_v6_end"} /\ c = ":"
  /\ n = "s_http_host_port"       => t \in {"s_http_host_port_start", "s_http_host_port"} /\ c \in Digit
  /\ n # "s_http_userinfo_start"
  /\ n \in HostState \cup {"s_http_host_dead"}

LEMMA HostCharLeads ==
  ASSUME NEW t, NEW c \in Symbol, NEW n, n = http_parse_host_char(t, c) PROVE HostLeads(t, c, n)
<1>1. /\ c \in USERINFO_CHARS <=> IS_USERINFO_CHAR(c)
      /\ c \in HOST_CHARS <=> IS_HOST_CHAR(c)
      /\ c \in ADDRESS_CHARS <=> (IS_HEX(c) \/ c \in {":", "."})
      /\ c \in Digit <=> IS_NUM(c)
  BY DEF USERINFO_CHARS, HOST_CHARS, ADDRESS_CHARS, IS_NUM
<1> QED BY <1>1 DEF http_parse_host_char, HostLeads, HostState

HostStops(t, c) ==
  /\ t \in {"s_http_userinfo_start", "s_http_userinfo"} => c # "@" /\ c \notin USERINFO_CHARS
  /\ t = "s_http_host_start"    => c # "[" /\ c \notin HOST_CHARS
  /\ t = "s_http_host_v6_start" => c \notin ADDRESS_CHARS
  /\ t = "s_http_host"          => c # ":" /\ c \notin HOST_CHARS
  /\ t = "s_http_host_v6"       => c # "]" /\ c \notin ADDRESS_CHARS
  /\ t = "s_http_host_v6_end"   => c # ":"
  /\ t \in {"s_http_host_port_start", "s_http_host_port"} => c \notin Digit

LEMMA HostCharStops ==
  ASSUME NEW t, NEW c \in Symbol, http_parse_host_char(t, c) = "s_http_host_dead" PROVE HostStops(t, c)
<1>1. /\ c \in USERINFO_CHARS <=> IS_USERINFO_CHAR(c)
      /\ c \in HOST_CHARS <=> IS_HOST_CHAR(c)
      /\ c \in ADDRESS_CHARS <=> (IS_HEX(c) \/ c \in {":", "."})
      /\ c \in Digit <=> IS_NUM(c)
  BY DEF USERINFO_CHARS, HOST_CHARS, ADDRESS_CHARS, IS_NUM
<1> QED BY <1>1 DEF http_parse_host_char, HostStops

-----------------------------------------------------------------------------
\* The second loop before position i, by its state t, in an authority that
\* begins at a.  Its user, if it has one, ends before h; its host is a name, or
\* an address in brackets, and ends before c.
UserAt(b, v, at, a, h) ==
  /\ h \in Nat
  /\ \/ ~at /\ h = a /\ "UF_USERINFO" \notin v.field_set
     \/ at /\ a < h /\ b[h] = "@" /\ Only(b, USERINFO_CHARS, a, h - 1) /\ Holds(v, "UF_USERINFO", a, h - 1)

NamedAt(b, v, h, c) ==
  /\ h < c /\ b[h + 1] # "[" /\ Only(b, HOST_CHARS, h, c) /\ v.off["UF_HOST"] = h /\ v.len["UF_HOST"] = c - h

OpenedAt(b, v, h, c) ==
  /\ h + 1 < c /\ b[h + 1] = "[" /\ Only(b, ADDRESS_CHARS, h + 1, c)
  /\ v.off["UF_HOST"] = h + 1 /\ v.len["UF_HOST"] = c - (h + 1)

NumberedAt(b, v, h, c) == OpenedAt(b, v, h, c - 1) /\ b[c] = "]"

NameOrNumberAt(b, v, h, c) == NamedAt(b, v, h, c) \/ NumberedAt(b, v, h, c)

PortAt(b, v, c, i) == b[c + 1] = ":" /\ c + 1 < i /\ Only(b, Digit, c + 1, i) /\ Holds(v, "UF_PORT", c + 1, i)

HostAt(b, v, t, h, i) ==
  \/ t = "s_http_host_start" /\ i = h /\ v.len["UF_HOST"] = 0
  \/ t = "s_http_host_v6_start" /\ i = h + 1 /\ b[h + 1] = "[" /\ v.len["UF_HOST"] = 0
  \/ t = "s_http_host" /\ NamedAt(b, v, h, i)
  \/ t = "s_http_host_v6" /\ OpenedAt(b, v, h, i)
  \/ t = "s_http_host_v6_end" /\ NumberedAt(b, v, h, i)
  \/ t = "s_http_host_port_start" /\ NameOrNumberAt(b, v, h, i - 1) /\ b[i] = ":"
  \/ t = "s_http_host_port" /\ \E c \in Nat : NameOrNumberAt(b, v, h, c) /\ PortAt(b, v, c, i)

UserPhase(b, v, t, at, a, i) ==
  /\ at /\ v.len["UF_HOST"] = 0
  /\ \/ t = "s_http_userinfo_start" /\ i = a /\ "UF_USERINFO" \notin v.field_set
     \/ t = "s_http_userinfo" /\ a < i /\ Only(b, USERINFO_CHARS, a, i) /\ Holds(v, "UF_USERINFO", a, i)

HostPhase(b, v, t, at, a, i) ==
  /\ t # "s_http_host_port" => "UF_PORT" \notin v.field_set
  /\ \/ UserPhase(b, v, t, at, a, i)
     \/ \E h : UserAt(b, v, at, a, h) /\ HostAt(b, v, t, h, i)

\* The struct after a step that leads to state n.
HostGrew(v, w, t, n, i) ==
  /\ n = "s_http_userinfo"  => Grew(v, w, "UF_USERINFO", n # t, i)
  /\ n = "s_http_host_port" => Grew(v, w, "UF_PORT", n # t, i)
  /\ n \in {"s_http_host", "s_http_host_v6"} =>
       /\ w.field_set = v.field_set
       /\ w.off["UF_HOST"] = IF n # t THEN i ELSE v.off["UF_HOST"]
       /\ w.len["UF_HOST"] = v.len["UF_HOST"] + 1
       /\ \A g \in UrlField \ {"UF_HOST"} : w.off[g] = v.off[g] /\ w.len[g] = v.len[g]
  /\ n \notin {"s_http_userinfo", "s_http_host_port", "s_http_host", "s_http_host_v6"} => w = v

\* The fields that a step leaves alone.
LEMMA HostKept ==
  ASSUME NEW v, NEW w, NEW t, NEW n, NEW i, HostGrew(v, w, t, n, i),
         NEW g \in UrlField, NEW k, NEW e, Holds(v, g, k, e),
         g = "UF_USERINFO" => n # "s_http_userinfo",
         g = "UF_PORT" => n # "s_http_host_port",
         g # "UF_HOST"
  PROVE  Holds(w, g, k, e)
<1>1. (g \in w.field_set <=> g \in v.field_set) /\ w.off[g] = v.off[g] /\ w.len[g] = v.len[g]
  <2>1. CASE n \in {"s_http_userinfo", "s_http_host_port"}
    BY <2>1 DEF HostGrew, Grew
  <2>2. CASE n \in {"s_http_host", "s_http_host_v6"}
    BY <2>2 DEF HostGrew
  <2>3. CASE n \notin {"s_http_userinfo", "s_http_host_port", "s_http_host", "s_http_host_v6"}
    BY <2>3 DEF HostGrew
  <2> QED BY <2>1, <2>2, <2>3
<1> QED BY <1>1 DEF Holds

LEMMA UserKept ==
  ASSUME NEW b, NEW v, NEW w, NEW t, NEW n, NEW i, HostGrew(v, w, t, n, i), n # "s_http_userinfo",
         NEW at, NEW a, NEW h, UserAt(b, v, at, a, h)
  PROVE  UserAt(b, w, at, a, h)
<1>1. "UF_USERINFO" \in UrlField
  BY DEF UrlField
<1>2. ASSUME NEW k, NEW e, Holds(v, "UF_USERINFO", k, e) PROVE Holds(w, "UF_USERINFO", k, e)
  BY <1>1, <1>2, HostKept
<1>3. "UF_USERINFO" \notin v.field_set => "UF_USERINFO" \notin w.field_set
  <2> SUFFICES ASSUME "UF_USERINFO" \notin v.field_set PROVE "UF_USERINFO" \notin w.field_set
    OBVIOUS
  <2>1. Holds(v, "UF_USERINFO", 0, 0)
    BY DEF Holds
  <2>2. Holds(w, "UF_USERINFO", 0, 0)
    BY <1>2, <2>1
  <2> QED BY <2>2 DEF Holds
<1> QED BY <1>2, <1>3 DEF UserAt

LEMMA NoPortKept ==
  ASSUME NEW v, NEW w, NEW t, NEW n, NEW i, HostGrew(v, w, t, n, i), n # "s_http_host_port", "UF_PORT" \notin v.field_set
  PROVE  "UF_PORT" \notin w.field_set
<1>1. "UF_PORT" \in UrlField /\ Holds(v, "UF_PORT", 0, 0)
  BY DEF UrlField, Holds
<1>2. Holds(w, "UF_PORT", 0, 0)
  BY <1>1, HostKept
<1> QED BY <1>2 DEF Holds

-----------------------------------------------------------------------------
\* A step of the second loop that leads to state n.
HostStep(b, v, t, at, a, i, n) ==
  /\ b \in Seq(Symbol) /\ a \in Nat /\ i \in Nat /\ i < Len(b) /\ a <= i
  /\ HostPhase(b, v, t, at, a, i) /\ n = http_parse_host_char(t, b[i + 1])

\* In the states behind the user, it is read.
LEMMA BehindUser ==
  ASSUME NEW b, NEW v, NEW t, NEW at, NEW a, NEW i, HostPhase(b, v, t, at, a, i),
         t \notin {"s_http_userinfo_start", "s_http_userinfo"}
  PROVE  \E h : UserAt(b, v, at, a, h) /\ HostAt(b, v, t, h, i)
  BY DEF HostPhase, UserPhase

LEMMA InUser ==
  ASSUME NEW b, NEW v, NEW t, NEW at, NEW a, NEW i, HostPhase(b, v, t, at, a, i),
         t \in {"s_http_userinfo_start", "s_http_userinfo"}
  PROVE  UserPhase(b, v, t, at, a, i)
  BY DEF HostPhase, HostAt

LEMMA UserSteps ==
  ASSUME NEW b, NEW v, NEW t, NEW at, NEW a, NEW i, NEW n, HostStep(b, v, t, at, a, i, n),
         n \in {"s_http_userinfo", "s_http_host_start"}, NEW w, HostGrew(v, w, t, n, i)
  PROVE  HostPhase(b, w, n, at, a, i + 1)
<1> DEFINE c == b[i + 1]
<1>1. /\ b \in Seq(Symbol) /\ a \in Nat /\ i \in Nat /\ i < Len(b) /\ a <= i /\ i + 1 \in Nat
      /\ HostPhase(b, v, t, at, a, i) /\ n = http_parse_host_char(t, c) /\ c \in Symbol
  BY DEF HostStep
<1>2. HostLeads(t, c, n)
  BY <1>1, HostCharLeads
<1>3. t \in {"s_http_userinfo_start", "s_http_userinfo"}
  BY <1>2 DEF HostLeads
<1>4. UserPhase(b, v, t, at, a, i) /\ "UF_PORT" \notin v.field_set
  BY <1>1, <1>3, InUser DEF HostPhase
<1>5. /\ at /\ v.len["UF_HOST"] = 0 /\ Only(b, USERINFO_CHARS, a, i) /\ Holds(v, "UF_USERINFO", a, i)
      /\ t = "s_http_userinfo" <=> "UF_USERINFO" \in v.field_set
  <2>1. CASE t = "s_http_userinfo_start"
    BY <1>1, <1>4, <2>1 DEF UserPhase, Only, Holds
  <2>2. CASE t = "s_http_userinfo"
    BY <1>1, <1>4, <2>2 DEF UserPhase, Holds
  <2> QED BY <1>3, <2>1, <2>2
<1>6. CASE n = "s_http_userinfo"
  <2>1. Grew(v, w, "UF_USERINFO", n # t, i) /\ c \in USERINFO_CHARS
    BY <1>2, <1>6 DEF HostGrew, HostLeads
  <2>2. (n # t) \in BOOLEAN /\ ((n # t) <=> "UF_USERINFO" \notin v.field_set)
    BY <1>5, <1>6
  <2>3. Holds(w, "UF_USERINFO", a, i + 1)
    <3> DEFINE new == n # t
    <3>1. new \in BOOLEAN /\ (new <=> "UF_USERINFO" \notin v.field_set) /\ Grew(v, w, "UF_USERINFO", new, i)
      BY <2>1, <2>2
    <3> HIDE DEF new
    <3> QED BY <1>1, <1>5, <3>1, HoldsGrown
  <2>4. Only(b, USERINFO_CHARS, a, i + 1)
    BY <1>1, <1>5, <2>1, OnlyStep
  <2>5. w.len["UF_HOST"] = 0 /\ "UF_PORT" \notin w.field_set
    BY <1>4, <1>5, <2>1 DEF Grew, UrlField
  <2>6. a < i + 1
    BY <1>1
  <2> QED BY <1>5, <1>6, <2>3, <2>4, <2>5, <2>6 DEF HostPhase, UserPhase
<1>7. CASE n = "s_http_host_start"
  <2>1. w = v /\ c = "@"
    BY <1>2, <1>7 DEF HostGrew, HostLeads
  <2>2. i + 1 \in Nat /\ a < i + 1 /\ (i + 1) - 1 = i
    BY <1>1
  <2>3. UserAt(b, v, at, a, i + 1)
    BY <1>5, <2>1, <2>2 DEF UserAt
  <2>4. HostAt(b, v, n, i + 1, i + 1)
    BY <1>5, <1>7 DEF HostAt
  <2> QED BY <1>4, <1>7, <2>1, <2>3, <2>4 DEF HostPhase
<1> QED BY <1>6, <1>7

LEMMA HostAtSteps ==
  ASSUME NEW b, NEW v, NEW t, NEW at, NEW a, NEW i, NEW n, HostStep(b, v, t, at, a, i, n),
         n \notin {"s_http_userinfo", "s_http_host_start", "s_http_host_dead"}, NEW w, HostGrew(v, w, t, n, i)
  PROVE  HostPhase(b, w, n, at, a, i + 1)
<1> DEFINE c == b[i + 1]
<1>1. /\ b \in Seq(Symbol) /\ a \in Nat /\ i \in Nat /\ i < Len(b) /\ a <= i /\ i + 1 \in Nat
      /\ HostPhase(b, v, t, at, a, i) /\ n = http_parse_host_char(t, c) /\ c \in Symbol
  BY DEF HostStep
<1>2. HostLeads(t, c, n)
  BY <1>1, HostCharLeads
<1>3. t \notin {"s_http_userinfo_start", "s_http_userinfo"} /\ n \in HostState
  BY <1>2 DEF HostLeads, HostState
<1>4. PICK h : UserAt(b, v, at, a, h) /\ HostAt(b, v, t, h, i)
  BY <1>1, <1>3, BehindUser
<1>5. h \in Nat /\ UserAt(b, w, at, a, h)
  BY <1>4, UserKept DEF UserAt
<1>6. n # "s_http_host_port" => "UF_PORT" \notin w.field_set
  <2> SUFFICES ASSUME n # "s_http_host_port" PROVE "UF_PORT" \notin w.field_set
    OBVIOUS
  <2>1. t # "s_http_host_port"
    BY <1>2, <1>3 DEF HostLeads, HostState
  <2>2. "UF_PORT" \notin v.field_set
    BY <1>1, <2>1 DEF HostPhase
  <2> QED BY <2>2, NoPortKept
<1>7. HostAt(b, w, n, h, i + 1)
  <2>1. CASE n = "s_http_host_v6_start"
    <3>1. w = v /\ t = "s_http_host_start" /\ c = "["
      BY <1>2, <2>1 DEF HostGrew, HostLeads
    <3> QED BY <1>4, <2>1, <3>1 DEF HostAt
  <2>2. CASE n = "s_http_host"
    <3>1. /\ w.off["UF_HOST"] = IF n # t THEN i ELSE v.off["UF_HOST"]
          /\ w.len["UF_HOST"] = v.len["UF_HOST"] + 1
          /\ t \in {"s_http_host_start", "s_http_host"} /\ c \in HOST_CHARS
      BY <1>2, <2>2 DEF HostGrew, HostLeads
    <3>2. CASE t = "s_http_host_start"
      <4>1. i = h /\ v.len["UF_HOST"] = 0
        BY <1>4, <3>2 DEF HostAt
      <4>2. Only(b, HOST_CHARS, h, h)
        BY <1>5 DEF Only
      <4>3. Only(b, HOST_CHARS, h, h + 1)
        BY <1>5, <3>1, <4>1, <4>2, OnlyStep
      <4>4. NamedAt(b, w, h, i + 1)
        BY <1>5, <2>2, <3>1, <3>2, <4>1, <4>3, CharClasses DEF NamedAt
      <4> QED BY <2>2, <4>4 DEF HostAt
    <3>3. CASE t = "s_http_host"
      <4>1. NamedAt(b, v, h, i)
        BY <1>4, <3>3 DEF HostAt
      <4>2. Only(b, HOST_CHARS, h, i + 1)
        BY <1>1, <1>5, <3>1, <4>1, OnlyStep DEF NamedAt
      <4>3. NamedAt(b, w, h, i + 1)
        BY <1>1, <1>5, <2>2, <3>1, <3>3, <4>1, <4>2 DEF NamedAt
      <4> QED BY <2>2, <4>3 DEF HostAt
    <3> QED BY <3>1, <3>2, <3>3
  <2>3. CASE n = "s_http_host_v6"
    <3>1. /\ w.off["UF_HOST"] = IF n # t THEN i ELSE v.off["UF_HOST"]
          /\ w.len["UF_HOST"] = v.len["UF_HOST"] + 1
          /\ t \in {"s_http_host_v6_start", "s_http_host_v6"} /\ c \in ADDRESS_CHARS
      BY <1>2, <2>3 DEF HostGrew, HostLeads
    <3>2. CASE t = "s_http_host_v6_start"
      <4>1. i = h + 1 /\ b[h + 1] = "[" /\ v.len["UF_HOST"] = 0
        BY <1>4, <3>2 DEF HostAt
      <4>2. Only(b, ADDRESS_CHARS, h + 1, h + 1) /\ h + 1 \in Nat
        BY <1>5 DEF Only
      <4>3. Only(b, ADDRESS_CHARS, h + 1, i + 1)
        BY <1>1, <3>1, <4>1, <4>2, OnlyStep
      <4>4. OpenedAt(b, w, h, i + 1)
        BY <1>5, <2>3, <3>1, <3>2, <4>1, <4>3 DEF OpenedAt
      <4> QED BY <2>3, <4>4 DEF HostAt
    <3>3. CASE t = "s_http_host_v6"
      <4>1. OpenedAt(b, v, h, i) /\ h + 1 \in Nat
        BY <1>4, <1>5, <3>3 DEF HostAt
      <4>2. Only(b, ADDRESS_CHARS, h + 1, i + 1)
        BY <1>1, <3>1, <4>1, OnlyStep DEF OpenedAt
      <4>3. OpenedAt(b, w, h, i + 1)
        BY <1>1, <1>5, <2>3, <3>1, <3>3, <4>1, <4>2 DEF OpenedAt
      <4> QED BY <2>3, <4>3 DEF HostAt
    <3> QED BY <3>1, <3>2, <3>3
  <2>4. CASE n = "s_http_host_v6_end"
    <3>1. w = v /\ t = "s_http_host_v6" /\ c = "]"
      BY <1>2, <2>4 DEF HostGrew, HostLeads
    <3>2. OpenedAt(b, v, h, i) /\ (i + 1) - 1 = i
      BY <1>1, <1>4, <3>1 DEF HostAt
    <3> QED BY <2>4, <3>1, <3>2 DEF HostAt, NumberedAt
  <2>5. CASE n = "s_http_host_port_start"
    <3>1. w = v /\ t \in {"s_http_host", "s_http_host_v6_end"} /\ c = ":"
      BY <1>2, <2>5 DEF HostGrew, HostLeads
    <3>2. NameOrNumberAt(b, v, h, i) /\ (i + 1) - 1 = i
      BY <1>1, <1>4, <3>1 DEF HostAt, NameOrNumberAt
    <3> QED BY <2>5, <3>1, <3>2 DEF HostAt
  <2>6. CASE n = "s_http_host_port"
    <3>1. /\ Grew(v, w, "UF_PORT", n # t, i) /\ t \in {"s_http_host_port_start", "s_http_host_port"} /\ c \in Digit
          /\ (n # t) \in BOOLEAN
      BY <1>2, <2>6 DEF HostGrew, HostLeads
    <3>2. \A m : NameOrNumberAt(b, v, h, m) => NameOrNumberAt(b, w, h, m)
      BY <3>1 DEF NameOrNumberAt, NamedAt, NumberedAt, OpenedAt, Grew, UrlField
    <3>3. CASE t = "s_http_host_port_start"
      <4>1. NameOrNumberAt(b, v, h, i - 1) /\ b[i] = ":" /\ "UF_PORT" \notin v.field_set
        BY <1>1, <1>4, <3>3 DEF HostAt, HostPhase
      <4>2. i - 1 \in Nat /\ (i - 1) + 1 = i
        BY <1>1, <1>5, <4>1 DEF NameOrNumberAt, NamedAt, NumberedAt, OpenedAt
      <4>3. Only(b, Digit, i, i) /\ Holds(v, "UF_PORT", i, i)
        BY <1>1, <4>1 DEF Only, Holds
      <4>4. Only(b, Digit, i, i + 1)
        BY <1>1, <3>1, <4>3, OnlyStep
      <4>5. Holds(w, "UF_PORT", i, i + 1)
        <5> DEFINE new == n # t
        <5>1. new \in BOOLEAN /\ (new <=> "UF_PORT" \notin v.field_set) /\ Grew(v, w, "UF_PORT", new, i)
          BY <2>6, <3>1, <3>3, <4>1
        <5> HIDE DEF new
        <5> QED BY <1>1, <4>3, <5>1, HoldsGrown
      <4>6. PortAt(b, w, i - 1, i + 1)
        BY <1>1, <4>1, <4>2, <4>4, <4>5 DEF PortAt
      <4> QED BY <2>6, <3>2, <4>1, <4>2, <4>6 DEF HostAt
    <3>4. CASE t = "s_http_host_port"
      <4>1. PICK m \in Nat : NameOrNumberAt(b, v, h, m) /\ PortAt(b, v, m, i)
        BY <1>4, <3>4 DEF HostAt
      <4>2. /\ b[m + 1] = ":" /\ m + 1 < i /\ Only(b, Digit, m + 1, i) /\ Holds(v, "UF_PORT", m + 1, i) /\ m + 1 \in Nat
            /\ "UF_PORT" \in v.field_set
        BY <1>1, <4>1 DEF PortAt, Holds
      <4>3. Only(b, Digit, m + 1, i + 1)
        BY <1>1, <3>1, <4>2, OnlyStep
      <4>4. Holds(w, "UF_PORT", m + 1, i + 1)
        <5> DEFINE new == n # t
        <5>1. new \in BOOLEAN /\ (new <=> "UF_PORT" \notin v.field_set) /\ Grew(v, w, "UF_PORT", new, i)
          BY <2>6, <3>1, <3>4, <4>2
        <5> HIDE DEF new
        <5> QED BY <1>1, <4>2, <5>1, HoldsGrown
      <4>5. PortAt(b, w, m, i + 1)
        BY <1>1, <4>2, <4>3, <4>4 DEF PortAt
      <4> QED BY <2>6, <3>2, <4>1, <4>5 DEF HostAt
    <3> QED BY <3>1, <3>3, <3>4
  <2> QED BY <1>2, <1>3, <2>1, <2>2, <2>3, <2>4, <2>5, <2>6 DEF HostState, HostLeads
<1> QED BY <1>5, <1>6, <1>7 DEF HostPhase

-----------------------------------------------------------------------------
\* The reference for an authority, by what the second loop has read of it.
LEMMA RefusedUser ==
  ASSUME NEW b, NEW a \in Nat, NEW e \in Nat, NEW x, IsFirst(b, {"@"}, a, e, x), ~UserOk(b, a, e, x)
  PROVE  ~RefAuthority(b, a, e).ok
<1>1. First(b, {"@"}, a, e) = x
  BY FirstIs
<1>2. RefAuthority(b, a, e).ok => UserOk(b, a, e, x)
  BY <1>1 DEF RefAuthority, UserOk
<1> QED BY <1>2

\* A user that ends with a byte which is neither of a user nor an '@'.
LEMMA UserRefused ==
  ASSUME NEW b, NEW a \in Nat, NEW e \in Nat, NEW i \in Nat, a <= i, i < e, HasAt(b, a, e),
         Only(b, USERINFO_CHARS, a, i), b[i + 1] # "@", b[i + 1] \notin USERINFO_CHARS
  PROVE  ~RefAuthority(b, a, e).ok
<1> DEFINE x == First(b, {"@"}, a, e)
<1>1. x \in Nat /\ IsFirst(b, {"@"}, a, e, x)
  BY FirstExists
<1> HIDE DEF x
<1>2. x \in a..e /\ (x = e \/ b[x + 1] = "@") /\ \A j \in a..(x - 1) : b[j + 1] # "@"
  BY <1>1 DEF IsFirst
<1>3. x < e
  <2> SUFFICES ASSUME x = e PROVE FALSE
    BY <1>1, <1>2
  <2> QED BY <1>2 DEF HasAt
<1>4. i < x
  <2> SUFFICES ASSUME x <= i PROVE FALSE
    BY <1>1
  <2>1. x # i /\ b[x + 1] = "@"
    BY <1>2, <1>3
  <2>2. x \in a..(i - 1)
    BY <1>1, <1>2, <2>1
  <2> QED BY <2>1, <2>2, CharClasses DEF Only
<1>5. i \in a..(x - 1)
  BY <1>1, <1>4
<1>6. ~UserOk(b, a, e, x)
  BY <1>3, <1>5 DEF UserOk, Only
<1> QED BY <1>1, <1>6, RefusedUser

\* The user is found where the reference finds it.
UserFound(b, v, a, e, h, x) ==
  /\ x \in Nat /\ IsFirst(b, {"@"}, a, e, x) /\ h = HostBegins(a, e, x) /\ UserOk(b, a, e, x)
  /\ HoldsSpan(v, "UF_USERINFO", UserSpan(a, e, x))

LEMMA UserIs ==
  ASSUME NEW b, NEW v, NEW at, NEW a \in Nat, NEW e \in Nat, NEW h, UserAt(b, v, at, a, h), h <= e, a <= e,
         at <=> HasAt(b, a, e)
  PROVE  \E x : UserFound(b, v, a, e, h, x)
<1>1. h \in Nat
  BY DEF UserAt
<1>2. CASE ~at
  <2>1. h = a /\ "UF_USERINFO" \notin v.field_set
    BY <1>2 DEF UserAt
  <2>2. IsFirst(b, {"@"}, a, e, e)
    BY <1>2 DEF IsFirst, HasAt
  <2>3. h = HostBegins(a, e, e) /\ UserOk(b, a, e, e) /\ UserSpan(a, e, e) = Span(a, a)
    BY <2>1 DEF HostBegins, UserOk, UserSpan
  <2>4. HoldsSpan(v, "UF_USERINFO", Span(a, a))
    BY <2>1 DEF HoldsSpan, Holds
  <2>5. UserFound(b, v, a, e, h, e)
    BY <2>2, <2>3, <2>4 DEF UserFound
  <2> QED BY <2>5
<1>3. CASE at
  <2>1. a < h /\ b[h] = "@" /\ Only(b, USERINFO_CHARS, a, h - 1) /\ Holds(v, "UF_USERINFO", a, h - 1)
    BY <1>3 DEF UserAt
  <2>2. h - 1 \in Nat /\ (h - 1) + 1 = h /\ h - 1 < e /\ h - 1 # e /\ h - 1 \in a..e
    BY <1>1, <2>1
  <2>3. IsFirst(b, {"@"}, a, e, h - 1)
    BY <2>1, <2>2, CharClasses DEF IsFirst, Only
  <2>4. HostBegins(a, e, h - 1) = h /\ UserOk(b, a, e, h - 1) /\ UserSpan(a, e, h - 1) = Span(a, h - 1)
    BY <2>1, <2>2 DEF HostBegins, UserOk, UserSpan
  <2>5. HoldsSpan(v, "UF_USERINFO", Span(a, h - 1))
    BY <2>1, <2>2 DEF HoldsSpan
  <2>6. UserFound(b, v, a, e, h, h - 1)
    BY <2>2, <2>3, <2>4, <2>5 DEF UserFound
  <2> QED BY <2>6
<1> QED BY <1>2, <1>3

\* A name that ends at i, but neither at a colon behind it nor with the
\* authority.
LEMMA NameRefused ==
  ASSUME NEW b, NEW v, NEW a \in Nat, NEW e \in Nat, NEW h \in Nat, NEW x, UserFound(b, v, a, e, h, x),
         ~HasAddress(b, h, e), NEW i \in Nat, h <= i, i <= e, Only(b, HOST_CHARS, h, i),
         i < e => b[i + 1] \notin HOST_CHARS,
         i = e \/ b[i + 1] = ":" => i = h
  PROVE  ~RefAuthority(b, a, e).ok
<1> DEFINE to == First(b, {":"}, h, e)
<1>1. to \in Nat /\ IsFirst(b, {":"}, h, e, to)
  BY FirstExists
<1> HIDE DEF to
<1>2. to \in h..e /\ (to = e \/ b[to + 1] = ":")
  BY <1>1 DEF IsFirst
<1>3. x \in Nat /\ IsFirst(b, {"@"}, a, e, x) /\ h = HostBegins(a, e, x)
  BY DEF UserFound
<1>4. RefAuthority(b, a, e).ok => NameOk(b, h, to)
  BY <1>1, <1>3, NamedAuthority
<1>5. ~(to < i)
  <2> SUFFICES ASSUME to < i PROVE FALSE
    OBVIOUS
  <2>1. to \in h..(i - 1) /\ b[to + 1] = ":"
    BY <1>1, <1>2
  <2> QED BY <2>1, CharClasses DEF Only
<1>6. CASE to = i
  <2>1. i = h
    BY <1>2, <1>6
  <2> QED BY <1>1, <1>4, <1>6, <2>1 DEF NameOk
<1>7. CASE i < to
  <2>1. i \in h..(to - 1) /\ b[i + 1] \notin HOST_CHARS
    BY <1>1, <1>2, <1>7
  <2> QED BY <1>4, <2>1 DEF NameOk, Only
<1> QED BY <1>1, <1>5, <1>6, <1>7

\* An address that ends at i, but not at a bracket behind it.
LEMMA AddressRefused ==
  ASSUME NEW b, NEW v, NEW a \in Nat, NEW e \in Nat, NEW h \in Nat, NEW x, UserFound(b, v, a, e, h, x),
         HasAddress(b, h, e), NEW i \in Nat, h + 1 <= i, i <= e, Only(b, ADDRESS_CHARS, h + 1, i),
         i < e => b[i + 1] \notin ADDRESS_CHARS,
         i < e /\ b[i + 1] = "]" => i = h + 1
  PROVE  ~RefAuthority(b, a, e).ok
<1> DEFINE to == First(b, {"]"}, h + 1, e)
<1>1. to \in Nat /\ IsFirst(b, {"]"}, h + 1, e, to) /\ h + 1 \in Nat
  <2>1. h + 1 \in Nat /\ h + 1 <= e
    OBVIOUS
  <2> QED BY <2>1, FirstExists
<1> HIDE DEF to
<1>2. to \in (h + 1)..e /\ (to = e \/ b[to + 1] = "]")
  BY <1>1 DEF IsFirst
<1>3. x \in Nat /\ IsFirst(b, {"@"}, a, e, x) /\ h = HostBegins(a, e, x)
  BY DEF UserFound
<1>4. RefAuthority(b, a, e).ok => AddressOk(b, h, to, e)
  BY <1>1, <1>3, NumberedAuthority
<1>5. ~(to < i)
  <2> SUFFICES ASSUME to < i PROVE FALSE
    OBVIOUS
  <2>1. to \in (h + 1)..(i - 1) /\ b[to + 1] = "]"
    BY <1>1, <1>2
  <2> QED BY <2>1, CharClasses DEF Only
<1>6. CASE to = i
  <2>1. i = e \/ i = h + 1
    BY <1>2, <1>6
  <2> QED BY <1>1, <1>4, <1>6, <2>1 DEF AddressOk
<1>7. CASE i < to
  <2>1. i \in (h + 1)..(to - 1) /\ b[i + 1] \notin ADDRESS_CHARS
    BY <1>1, <1>2, <1>7
  <2> QED BY <1>4, <2>1 DEF AddressOk, Only
<1> QED BY <1>1, <1>5, <1>6, <1>7

\* A host that ends at c: the authority is one if a port follows, or nothing.
HostCloses(b, v, h, c, e) == (NamedAt(b, v, h, c) /\ (c < e => b[c + 1] = ":")) \/ NumberedAt(b, v, h, c)

HostFound(b, v, a, e, c, x) ==
  /\ RefAuthority(b, a, e).ok <=> PortOk(b, c, e)
  /\ RefAuthority(b, a, e).user = UserSpan(a, e, x)
  /\ HoldsSpan(v, "UF_HOST", RefAuthority(b, a, e).host)
  /\ RefAuthority(b, a, e).port = PortSpan(c, e)

LEMMA HostIs ==
  ASSUME NEW b, NEW v, NEW a \in Nat, NEW e \in Nat, NEW h \in Nat, NEW x, UserFound(b, v, a, e, h, x),
         NEW c \in Nat, c <= e, "UF_HOST" \in v.field_set,
         HostCloses(b, v, h, c, e)
  PROVE  HostFound(b, v, a, e, c, x)
<1>1. x \in Nat /\ IsFirst(b, {"@"}, a, e, x) /\ h = HostBegins(a, e, x) /\ UserOk(b, a, e, x)
  BY DEF UserFound
<1>2. CASE NamedAt(b, v, h, c) /\ (c < e => b[c + 1] = ":")
  <2>1. /\ h < c /\ b[h + 1] # "[" /\ Only(b, HOST_CHARS, h, c) /\ v.off["UF_HOST"] = h /\ v.len["UF_HOST"] = c - h
        /\ c < e => b[c + 1] = ":"
    BY <1>2 DEF NamedAt
  <2>2. IsFirst(b, {":"}, h, e, c)
    <3>1. c \in h..e /\ (c = e \/ b[c + 1] \in {":"})
      BY <2>1
    <3> QED BY <2>1, <3>1, CharClasses DEF IsFirst, Only
  <2>3. ~HasAddress(b, h, e) /\ NameOk(b, h, c)
    BY <2>1 DEF HasAddress, NameOk
  <2>4. /\ RefAuthority(b, a, e).ok <=> UserOk(b, a, e, x) /\ NameOk(b, h, c) /\ PortOk(b, c, e)
        /\ RefAuthority(b, a, e).user = UserSpan(a, e, x)
        /\ RefAuthority(b, a, e).host = Span(h, c)
        /\ RefAuthority(b, a, e).port = PortSpan(c, e)
    BY <1>1, <2>2, <2>3, NamedAuthority
  <2>5. HoldsSpan(v, "UF_HOST", Span(h, c))
    BY <2>1 DEF HoldsSpan, Holds
  <2> QED BY <1>1, <2>3, <2>4, <2>5 DEF HostFound
<1>3. CASE NumberedAt(b, v, h, c)
  <2>1. /\ h + 1 < c - 1 /\ b[h + 1] = "[" /\ Only(b, ADDRESS_CHARS, h + 1, c - 1) /\ b[c] = "]"
        /\ v.off["UF_HOST"] = h + 1 /\ v.len["UF_HOST"] = (c - 1) - (h + 1)
    BY <1>3 DEF NumberedAt, OpenedAt
  <2>2. c - 1 \in Nat /\ (c - 1) + 1 = c /\ h + 1 \in Nat /\ c - 1 < e /\ c - 1 \in (h + 1)..e /\ h < e
    BY <2>1
  <2>3. IsFirst(b, {"]"}, h + 1, e, c - 1)
    BY <2>1, <2>2, CharClasses DEF IsFirst, Only
  <2>4. HasAddress(b, h, e) /\ AddressOk(b, h, c - 1, e)
    BY <2>1, <2>2 DEF HasAddress, AddressOk
  <2> DEFINE to == c - 1
  <2>5. to \in Nat /\ IsFirst(b, {"]"}, h + 1, e, to) /\ AddressOk(b, h, to, e) /\ to + 1 = c
    BY <2>2, <2>3, <2>4
  <2>6. HoldsSpan(v, "UF_HOST", Span(h + 1, to))
    BY <2>1, <2>2 DEF HoldsSpan, Holds
  <2> HIDE DEF to
  <2>7. /\ RefAuthority(b, a, e).ok <=> UserOk(b, a, e, x) /\ AddressOk(b, h, to, e) /\ PortOk(b, to + 1, e)
        /\ RefAuthority(b, a, e).user = UserSpan(a, e, x)
        /\ RefAuthority(b, a, e).host = Span(h + 1, to)
        /\ RefAuthority(b, a, e).port = PortSpan(to + 1, e)
    BY <1>1, <2>4, <2>5, NumberedAuthority
  <2> QED BY <1>1, <2>5, <2>6, <2>7 DEF HostFound
<1> QED BY <1>2, <1>3 DEF HostCloses

-----------------------------------------------------------------------------
\* The second loop ends, with a byte that it refuses or with the authority in a
\* state that may not be the last: the reference refuses the authority too.
EndsBadly(b, t, e, i) == (i < e => HostStops(t, b[i + 1])) /\ (i = e => t \in Unfinished)

LEMMA HostRefused ==
  ASSUME NEW b, NEW v, NEW t \in HostState, NEW at, NEW a \in Nat, NEW e \in Nat, NEW i \in Nat,
         a < e, a <= i, i <= e, HostPhase(b, v, t, at, a, i), at <=> HasAt(b, a, e), "UF_HOST" \in v.field_set,
         EndsBadly(b, t, e, i)
  PROVE  ~RefAuthority(b, a, e).ok
<1>1. CASE t \in {"s_http_userinfo_start", "s_http_userinfo"}
  <2>1. UserPhase(b, v, t, at, a, i)
    BY <1>1, InUser
  <2>2. HasAt(b, a, e)
    BY <2>1 DEF UserPhase
  <2>3. Only(b, USERINFO_CHARS, a, i)
    BY <2>1 DEF UserPhase, Only
  <2>4. i < e
    <3> SUFFICES ASSUME i = e PROVE FALSE
      OBVIOUS
    <3>1. \A j \in a..(e - 1) : b[j + 1] # "@"
      BY <2>3, CharClasses DEF Only
    <3> QED BY <2>2, <3>1 DEF HasAt
  <2>5. b[i + 1] # "@" /\ b[i + 1] \notin USERINFO_CHARS
    BY <1>1, <2>4 DEF EndsBadly, HostStops
  <2> QED BY <2>2, <2>3, <2>4, <2>5, UserRefused
<1>2. CASE t \notin {"s_http_userinfo_start", "s_http_userinfo"}
  <2>1. PICK h : UserAt(b, v, at, a, h) /\ HostAt(b, v, t, h, i)
    BY <1>2, BehindUser
  <2>2. h \in Nat
    BY <2>1 DEF UserAt
  <2>3. h <= i
    BY <2>1, <2>2 DEF HostAt, NamedAt, OpenedAt, NumberedAt, NameOrNumberAt, PortAt
  <2>4. PICK x : UserFound(b, v, a, e, h, x)
    <3>1. h <= e /\ a <= e
      BY <2>2, <2>3
    <3> QED BY <2>1, <3>1, UserIs
  <2>5. ASSUME NEW c \in Nat, c < e, NamedAt(b, v, h, c) => b[c + 1] = ":", NameOrNumberAt(b, v, h, c), ~PortOk(b, c, e)
        PROVE  ~RefAuthority(b, a, e).ok
    <3>1. HostCloses(b, v, h, c, e)
      BY <2>5 DEF NameOrNumberAt, HostCloses
    <3>2. HostFound(b, v, a, e, c, x)
      BY <2>2, <2>4, <2>5, <3>1, HostIs
    <3> QED BY <2>5, <3>2 DEF HostFound
  <2>6. CASE t = "s_http_host_start"
    <3>1. i = h
      BY <2>1, <2>6 DEF HostAt
    <3>2. ~HasAddress(b, h, e) /\ (i < e => b[i + 1] \notin HOST_CHARS)
      BY <2>6, <3>1 DEF HasAddress, EndsBadly, HostStops
    <3>3. Only(b, HOST_CHARS, h, i)
      BY <3>1 DEF Only
    <3> QED BY <2>2, <2>3, <2>4, <3>1, <3>2, <3>3, NameRefused
  <2>7. CASE t = "s_http_host_v6_start"
    <3>1. i = h + 1 /\ b[h + 1] = "["
      BY <2>1, <2>7 DEF HostAt
    <3>2. HasAddress(b, h, e) /\ (i < e => b[i + 1] \notin ADDRESS_CHARS) /\ h + 1 <= i
      BY <2>2, <2>7, <3>1 DEF HasAddress, EndsBadly, HostStops
    <3>3. Only(b, ADDRESS_CHARS, h + 1, i)
      BY <3>1 DEF Only
    <3> QED BY <2>2, <2>4, <3>1, <3>2, <3>3, AddressRefused
  <2>8. CASE t = "s_http_host"
    <3>1. NamedAt(b, v, h, i) /\ i < e
      BY <2>1, <2>8 DEF HostAt, EndsBadly, Unfinished
    <3>2. /\ ~HasAddress(b, h, e) /\ Only(b, HOST_CHARS, h, i) /\ b[i + 1] \notin HOST_CHARS /\ b[i + 1] # ":"
      BY <2>8, <3>1 DEF HasAddress, NamedAt, EndsBadly, HostStops
    <3> QED BY <2>2, <2>3, <2>4, <3>1, <3>2, NameRefused
  <2>9. CASE t = "s_http_host_v6"
    <3>1. h + 1 < i /\ b[h + 1] = "[" /\ Only(b, ADDRESS_CHARS, h + 1, i)
      BY <2>1, <2>9 DEF HostAt, OpenedAt
    <3>2. /\ HasAddress(b, h, e) /\ h + 1 <= i
          /\ i < e => b[i + 1] \notin ADDRESS_CHARS /\ b[i + 1] # "]"
      BY <2>2, <2>9, <3>1 DEF HasAddress, EndsBadly, HostStops
    <3> QED BY <2>2, <2>4, <3>1, <3>2, AddressRefused
  <2>10. CASE t = "s_http_host_v6_end"
    <3>1. NumberedAt(b, v, h, i) /\ i < e
      BY <2>1, <2>10 DEF HostAt, EndsBadly, Unfinished
    <3>2. ~PortOk(b, i, e) /\ NameOrNumberAt(b, v, h, i)
      BY <2>10, <3>1 DEF PortOk, NameOrNumberAt, EndsBadly, HostStops
    <3>3. HostCloses(b, v, h, i, e)
      BY <3>1 DEF HostCloses
    <3>4. HostFound(b, v, a, e, i, x)
      BY <2>2, <2>4, <3>1, <3>3, HostIs
    <3> QED BY <3>2, <3>4 DEF HostFound
  <2>11. CASE t = "s_http_host_port_start"
    <3>1. NameOrNumberAt(b, v, h, i - 1) /\ b[i] = ":" /\ (i < e => b[i + 1] \notin Digit)
      BY <2>1, <2>11 DEF HostAt, EndsBadly, HostStops
    <3>2. i - 1 \in Nat /\ i - 1 < e /\ (i - 1) + 1 = i
      BY <2>2, <3>1 DEF NameOrNumberAt, NamedAt, NumberedAt, OpenedAt
    <3> DEFINE c == i - 1
    <3>3. c \in Nat /\ c < e /\ c + 1 = i /\ NameOrNumberAt(b, v, h, c) /\ b[c + 1] = ":"
      BY <3>1, <3>2
    <3> HIDE DEF c
    <3>4. ~PortOk(b, c, e)
      <4> SUFFICES ASSUME i < e PROVE ~Only(b, Digit, i, e)
        BY <3>3 DEF PortOk
      <4>1. i \in i..(e - 1)
        OBVIOUS
      <4> QED BY <3>1, <4>1 DEF Only
    <3> QED BY <2>5, <3>3, <3>4
  <2>12. CASE t = "s_http_host_port"
    <3>1. PICK c \in Nat : NameOrNumberAt(b, v, h, c) /\ PortAt(b, v, c, i)
      BY <2>1, <2>12 DEF HostAt
    <3>2. b[c + 1] = ":" /\ c + 1 < i /\ i < e /\ b[i + 1] \notin Digit
      BY <2>12, <3>1 DEF PortAt, EndsBadly, HostStops, Unfinished
    <3>3. i \in (c + 1)..(e - 1) /\ c < e
      BY <3>2
    <3>4. ~PortOk(b, c, e)
      BY <3>2, <3>3 DEF PortOk, Only
    <3> QED BY <2>5, <3>1, <3>2, <3>3, <3>4
  <2> QED BY <1>2, <2>6, <2>7, <2>8, <2>9, <2>10, <2>11, <2>12 DEF HostState
<1> QED BY <1>1, <1>2

\* The second loop ends well: the reference takes the authority, and finds its
\* user, host and port where the loop has found them.
AuthorityHeld(b, v, a, e) ==
  /\ RefAuthority(b, a, e).ok
  /\ HoldsSpan(v, "UF_USERINFO", RefAuthority(b, a, e).user)
  /\ HoldsSpan(v, "UF_HOST", RefAuthority(b, a, e).host)
  /\ HoldsSpan(v, "UF_PORT", RefAuthority(b, a, e).port)

DigitsTo(b, v, e) == "UF_PORT" \in v.field_set => \E k \in Nat : Holds(v, "UF_PORT", k, e) /\ Only(b, Digit, k, e)

LEMMA HostDone ==
  ASSUME NEW b, NEW v, NEW t \in HostState \ Unfinished, NEW at, NEW a \in Nat, NEW e \in Nat,
         a <= e, HostPhase(b, v, t, at, a, e), at <=> HasAt(b, a, e), "UF_HOST" \in v.field_set
  PROVE  AuthorityHeld(b, v, a, e) /\ DigitsTo(b, v, e)
<1>1. t \in {"s_http_host", "s_http_host_v6_end", "s_http_host_port"}
  BY DEF HostState, Unfinished
<1>2. PICK h : UserAt(b, v, at, a, h) /\ HostAt(b, v, t, h, e)
  BY <1>1, BehindUser
<1>3. h \in Nat
  BY <1>2 DEF UserAt
<1>4. h <= e
  BY <1>1, <1>2, <1>3 DEF HostAt, NamedAt, OpenedAt, NumberedAt, NameOrNumberAt, PortAt
<1>5. PICK x : UserFound(b, v, a, e, h, x)
  BY <1>2, <1>4, UserIs
<1>6. HoldsSpan(v, "UF_USERINFO", UserSpan(a, e, x))
  BY <1>5 DEF UserFound
<1>7. CASE t \in {"s_http_host", "s_http_host_v6_end"}
  <2>1. HostCloses(b, v, h, e, e)
    BY <1>2, <1>7 DEF HostAt, HostCloses
  <2>2. "UF_PORT" \notin v.field_set
    BY <1>7 DEF HostPhase
  <2>3. HostFound(b, v, a, e, e, x)
    BY <1>3, <1>5, <2>1, HostIs
  <2>4. PortOk(b, e, e) /\ PortSpan(e, e) = Span(e, e)
    BY DEF PortOk, PortSpan
  <2>5. HoldsSpan(v, "UF_PORT", Span(e, e))
    BY <2>2 DEF HoldsSpan, Holds
  <2> QED BY <1>6, <2>2, <2>3, <2>4, <2>5 DEF HostFound, AuthorityHeld, DigitsTo
<1>8. CASE t = "s_http_host_port"
  <2>1. PICK c \in Nat : NameOrNumberAt(b, v, h, c) /\ PortAt(b, v, c, e)
    BY <1>2, <1>8 DEF HostAt
  <2>2. b[c + 1] = ":" /\ c + 1 < e /\ c < e /\ c + 1 \in Nat /\ Only(b, Digit, c + 1, e) /\ Holds(v, "UF_PORT", c + 1, e)
    BY <2>1 DEF PortAt
  <2>3. HostCloses(b, v, h, c, e)
    BY <2>1, <2>2 DEF NameOrNumberAt, HostCloses
  <2>4. HostFound(b, v, a, e, c, x)
    BY <1>3, <1>5, <2>2, <2>3, HostIs
  <2>5. PortOk(b, c, e) /\ PortSpan(c, e) = Span(c + 1, e)
    BY <2>2 DEF PortOk, PortSpan
  <2>6. HoldsSpan(v, "UF_PORT", Span(c + 1, e))
    BY <2>2 DEF HoldsSpan
  <2> QED BY <1>6, <2>2, <2>4, <2>5, <2>6 DEF HostFound, AuthorityHeld, DigitsTo
<1> QED BY <1>1, <1>7, <1>8

-----------------------------------------------------------------------------
\* What the reference says of a URL when both loops are done.
LEMMA OuterRefused ==
  ASSUME NEW b \in Seq(Symbol), NEW connect \in BOOLEAN, NEW v, NEW a, NEW e, Outer(b, connect, v, a, e),
         ~RefAuthority(b, a, e).ok
  PROVE  RefRefuses(b, connect)
<1>1. a \in Nat /\ e \in Nat /\ Begins(b, connect, a) /\ IsFirst(b, {"/", "?"}, a, Len(b), e)
  BY DEF Outer
<1> QED BY <1>1, RefusedParts

\* The port ends where the digits end, or the buffer.
PortEnds(b, v) ==
  "UF_PORT" \in v.field_set =>
    \E k \in Nat, e \in Nat : /\ Holds(v, "UF_PORT", k, e) /\ e <= Len(b) /\ Only(b, Digit, k, e)
                              /\ e < Len(b) => b[e + 1] \notin Digit

Verdict(b, connect, v) ==
  /\ ~RefRefuses(b, connect) <=> PortOnly(connect, v.field_set)
  /\ ~RefRefuses(b, connect) => Agrees(b, connect, v) /\ PortEnds(b, v)

LEMMA RelativeVerdict ==
  ASSUME NEW b, NEW connect \in BOOLEAN, NEW v, NEW at, UrlDone(b, connect, v, at),
         v.field_set \subseteq FirstField, v.field_set \cap {"UF_SCHEMA", "UF_HOST"} = {}
  PROVE  Verdict(b, connect, v)
<1>1. "UF_PORT" \notin v.field_set /\ "UF_HOST" \notin v.field_set
  BY DEF FirstField
<1>2. IF connect THEN RefRefuses(b, connect) ELSE ~RefRefuses(b, connect) /\ Agrees(b, connect, v)
  BY DEF UrlDone
<1>3. PortOnly(connect, v.field_set) <=> ~connect
  BY <1>1 DEF PortOnly
<1> QED BY <1>1, <1>2, <1>3 DEF Verdict, PortEnds

LEMMA AuthorityVerdict ==
  ASSUME NEW b \in Seq(Symbol), NEW connect \in BOOLEAN, NEW v, NEW a, NEW e, Outer(b, connect, v, a, e),
         AuthorityHeld(b, v, a, e), DigitsTo(b, v, e), v.field_set \subseteq UrlField
  PROVE  Verdict(b, connect, v)
<1> DEFINE letters == IF connect THEN 0 ELSE a - 3
           S == Spans(letters, RefAuthority(b, a, e), RefRest(b, e))
<1>1. /\ a \in Nat /\ e \in Nat /\ Begins(b, connect, a) /\ IsFirst(b, {"/", "?"}, a, Len(b), e) /\ e <= Len(b)
      /\ SchemaHeld(connect, v, a) /\ RestHeld(b, v, e) /\ Len(b) \in Nat
  BY DEF Outer
<1>2. /\ RefUrl(b, connect).ok <=> RefAuthority(b, a, e).ok /\ RefRest(b, e).ok /\ PortOnly(connect, SetOf(S))
      /\ RefUrl(b, connect).spans = [f \in SetOf(S) |-> S[f]]
  BY <1>1, RefWithAuthority
<1>3. HoldsSpan(v, "UF_SCHEMA", Span(0, letters))
  <2>1. CASE connect
    BY <1>1, <2>1 DEF SchemaHeld, HoldsSpan, Holds
  <2>2. CASE ~connect
    <3>1. letters \in Nat /\ Holds(v, "UF_SCHEMA", 0, letters)
      BY <1>1, <2>2 DEF SchemaHeld, Begins
    <3> QED BY <3>1 DEF HoldsSpan
  <2> QED BY <2>1, <2>2
<1>4. /\ RefRest(b, e).ok
      /\ HoldsSpan(v, "UF_PATH", RefRest(b, e).path) /\ HoldsSpan(v, "UF_QUERY", RefRest(b, e).query)
      /\ HoldsSpan(v, "UF_FRAGMENT", RefRest(b, e).fragment)
  BY <1>1, RestSpans
<1> HIDE DEF letters
<1>5. /\ S["UF_SCHEMA"] = Span(0, letters)
      /\ S["UF_USERINFO"] = RefAuthority(b, a, e).user /\ S["UF_HOST"] = RefAuthority(b, a, e).host
      /\ S["UF_PORT"] = RefAuthority(b, a, e).port
      /\ S["UF_PATH"] = RefRest(b, e).path /\ S["UF_QUERY"] = RefRest(b, e).query
      /\ S["UF_FRAGMENT"] = RefRest(b, e).fragment
  BY DEF Spans, UrlField
<1> HIDE DEF S
<1>6. \A f \in UrlField : HoldsSpan(v, f, S[f])
  BY <1>3, <1>4, <1>5 DEF UrlField, AuthorityHeld
<1>7. SetOf(S) = v.field_set /\ \A f \in v.field_set : S[f] = [off |-> v.off[f], len |-> v.len[f]]
  BY ONLY <1>6, SpansAgree, v.field_set \subseteq UrlField
<1>8. ~RefRefuses(b, connect) <=> PortOnly(connect, v.field_set)
  BY <1>2, <1>4, <1>7 DEF RefRefuses, AuthorityHeld
<1>9. Agrees(b, connect, v)
  BY <1>2, <1>7 DEF Agrees
<1>10. PortEnds(b, v)
  <2> SUFFICES ASSUME "UF_PORT" \in v.field_set
               PROVE  \E k \in Nat, z \in Nat : /\ Holds(v, "UF_PORT", k, z) /\ z <= Len(b) /\ Only(b, Digit, k, z)
                                                /\ z < Len(b) => b[z + 1] \notin Digit
    BY DEF PortEnds
  <2>1. PICK k \in Nat : Holds(v, "UF_PORT", k, e) /\ Only(b, Digit, k, e)
    BY DEF DigitsTo
  <2>2. e < Len(b) => b[e + 1] \in {"/", "?"}
    BY <1>1 DEF IsFirst
  <2>3. \A c \in {"/", "?"} : c \notin Digit
    BY DEF Digit
  <2> QED BY <1>1, <2>1, <2>2, <2>3
<1> QED BY <1>8, <1>9, <1>10 DEF Verdict

\* What is read around the authority stays there while the second loop runs.
LEMMA OuterKept ==
  ASSUME NEW b, NEW connect, NEW v, NEW w, NEW a, NEW e, Outer(b, connect, v, a, e), "UF_HOST" \in w.field_set,
         \A f \in {"UF_SCHEMA", "UF_PATH", "UF_QUERY", "UF_FRAGMENT"} : \A k, z : Holds(v, f, k, z) => Holds(w, f, k, z)
  PROVE  Outer(b, connect, w, a, e)
<1>1. SchemaHeld(connect, w, a)
  <2>1. "UF_SCHEMA" \notin v.field_set => "UF_SCHEMA" \notin w.field_set
    <3> SUFFICES ASSUME "UF_SCHEMA" \notin v.field_set PROVE "UF_SCHEMA" \notin w.field_set
      OBVIOUS
    <3>1. Holds(v, "UF_SCHEMA", 0, 0)
      BY DEF Holds
    <3>2. Holds(w, "UF_SCHEMA", 0, 0)
      BY <3>1
    <3> QED BY <3>2 DEF Holds
  <2>2. SchemaHeld(connect, v, a)
    BY DEF Outer
  <2> QED BY <2>1, <2>2 DEF SchemaHeld
<1>2. RestHeld(b, w, e)
  <2>1. PICK x, q, y, z : Cuts(b, e, Len(b), x, q, y, z) /\ Parts(v, e, x, q, y, z, Len(b))
    BY DEF Outer, RestHeld
  <2>2. Parts(w, e, x, q, y, z, Len(b))
    BY <2>1 DEF Parts
  <2> QED BY <2>1, <2>2 DEF RestHeld
<1> QED BY <1>1, <1>2 DEF Outer

-----------------------------------------------------------------------------
\* A sequence of digits says a natural number.
LEMMA UnhexDigit == \A c \in Digit : unhex(c) \in 0..15
<1>1. \A c \in Digit : \E n \in 0..15 : HexDigits[n + 1] = c
  <2>1. /\ HexDigits[0 + 1] = "0" /\ HexDigits[1 + 1] = "1" /\ HexDigits[2 + 1] = "2" /\ HexDigits[3 + 1] = "3"
        /\ HexDigits[4 + 1] = "4" /\ HexDigits[5 + 1] = "5" /\ HexDigits[6 + 1] = "6" /\ HexDigits[7 + 1] = "7"
        /\ HexDigits[8 + 1] = "8" /\ HexDigits[9 + 1] = "9"
    BY DEF HexDigits
  <2>2. {0, 1, 2, 3, 4, 5, 6, 7, 8, 9} \subseteq 0..15
    OBVIOUS
  <2> QED BY <2>1, <2>2 DEF Digit
<1> QED BY <1>1 DEF unhex

\* The values of the first n digits at most, by the recursion that defines them.
Values(d, n, v) == v = [i \in 0..n |-> IF i = 0 THEN 0 ELSE 10 * v[i - 1] + unhex(d[i])]

LEMMA ValuesNat ==
  ASSUME NEW d, NEW n \in Nat, \A i \in 1..n : d[i] \in Digit, NEW v, Values(d, n, v), NEW m \in 0..n
  PROVE  v[m] \in Nat
<1> SUFFICES ASSUME v[m] \notin Nat PROVE FALSE
  OBVIOUS
<1> DEFINE T == {i \in 0..n : v[i] \notin Nat}
<1>1. T \in SUBSET Nat /\ m \in T
  OBVIOUS
<1>2. PICK i \in T : \A j \in T : i <= j
  BY <1>1, LeastNumber
<1>3. i \in 0..n /\ v[i] \notin Nat /\ v[i] = IF i = 0 THEN 0 ELSE 10 * v[i - 1] + unhex(d[i])
  BY <1>2 DEF Values
<1>4. i # 0
  BY <1>3
<1>5. i - 1 \in 0..n /\ i - 1 \notin T /\ i \in 1..n
  BY <1>2, <1>3, <1>4
<1>6. v[i - 1] \in Nat /\ unhex(d[i]) \in Nat
  BY <1>5, UnhexDigit
<1> QED BY <1>3, <1>4, <1>6

LEMMA ValuesExist == ASSUME NEW d, NEW n \in Nat PROVE \E v : Values(d, n, v)
<1> SUFFICES ASSUME ~\E v : Values(d, n, v) PROVE FALSE
  OBVIOUS
<1> DEFINE T == {m \in Nat : ~\E v : Values(d, m, v)}
<1>1. T \in SUBSET Nat /\ n \in T
  OBVIOUS
<1>2. PICK m \in T : \A j \in T : m <= j
  BY <1>1, LeastNumber
<1>3. m \in Nat /\ ~\E v : Values(d, m, v)
  BY <1>2
<1>4. CASE m = 0
  <2> DEFINE v == [i \in 0..0 |-> 0]
  <2>1. v = [i \in 0..0 |-> IF i = 0 THEN 0 ELSE 10 * v[i - 1] + unhex(d[i])]
    OBVIOUS
  <2>2. Values(d, m, v)
    BY <1>4, <2>1 DEF Values
  <2> QED BY <1>3, <2>2
<1>5. CASE m # 0
  <2>1. m - 1 \in Nat /\ m - 1 \notin T
    BY <1>2, <1>3, <1>5
  <2>2. PICK w : Values(d, m - 1, w)
    BY <2>1
  <2> DEFINE v == [i \in 0..m |-> IF i = m THEN 10 * w[m - 1] + unhex(d[m]) ELSE w[i]]
  <2>3. ASSUME NEW i \in 0..m PROVE v[i] = IF i = 0 THEN 0 ELSE 10 * v[i - 1] + unhex(d[i])
    <3>1. CASE i = m
      BY <1>3, <1>5, <3>1
    <3>2. CASE i # m
      <4>1. i \in 0..(m - 1) /\ w[i] = IF i = 0 THEN 0 ELSE 10 * w[i - 1] + unhex(d[i])
        BY <1>3, <2>2, <3>2 DEF Values
      <4>2. i # 0 => i - 1 \in 0..m /\ i - 1 # m
        BY <1>3, <4>1
      <4> QED BY <3>2, <4>1, <4>2
    <3> QED BY <3>1, <3>2
  <2>4. v = [i \in 0..m |-> v[i]]
    OBVIOUS
  <2> HIDE DEF v
  <2>5. Values(d, m, v)
    BY <2>3, <2>4 DEF Values
  <2> QED BY <1>3, <2>5
<1> QED BY <1>4, <1>5

LEMMA NumberNat == ASSUME NEW n \in Nat, NEW d, d = [i \in 1..n |-> d[i]], \A i \in 1..n : d[i] \in Digit PROVE Number(d) \in Nat
<1> DEFINE v == CHOOSE w : w = [i \in 0..Len(d) |-> IF i = 0 THEN 0 ELSE 10 * w[i - 1] + unhex(d[i])]
<1>1. Len(d) = n
  OBVIOUS
<1>2. Number(d) = v[Len(d)]
  BY DEF Number
<1>3. v = CHOOSE w : Values(d, Len(d), w)
  BY DEF Values
<1> HIDE DEF v
<1>4. \E w : Values(d, n, w)
  BY ValuesExist
<1>5. Values(d, n, v)
  BY <1>1, <1>3, <1>4
<1>6. n \in 0..n
  OBVIOUS
<1>7. v[n] \in Nat
  BY <1>5, <1>6, ValuesNat
<1> QED BY <1>1, <1>2, <1>7

-----------------------------------------------------------------------------
\* The port, by the buffer and what follows it in memory.
ByteOf(b, m, k) == IF k < Len(b) THEN b[k + 1] ELSE IF k < Len(b) + Len(m) THEN m[k - Len(b) + 1] ELSE SP

DigitsOf(b, m, k, n) == [i \in 1..n |-> ByteOf(b, m, k + i - 1)]

More(b, m, e) == IF e = Len(b) THEN First(m, Symbol \ Digit, 0, Len(m)) ELSE 0

PortOf(b, m, spans) ==
  IF "UF_PORT" \notin DOMAIN spans THEN 0
  ELSE LET k == spans["UF_PORT"].off
           e == k + spans["UF_PORT"].len
       IN Number(DigitsOf(b, m, k, e - k + More(b, m, e)))

DigitsEnd(b, m, k, n) == /\ ByteOf(b, m, k + n) \notin Digit
                         /\ \A i \in 0..(n - 1) : ByteOf(b, m, k + i) \in Digit

LEMMA OneEnd ==
  ASSUME NEW b, NEW m, NEW k, NEW n \in Nat, NEW o \in Nat, DigitsEnd(b, m, k, n), DigitsEnd(b, m, k, o)
  PROVE  n = o
<1>1. CASE n < o
  <2>1. n \in 0..(o - 1)
    BY <1>1
  <2> QED BY <2>1 DEF DigitsEnd
<1>2. CASE o < n
  <2>1. o \in 0..(n - 1)
    BY <1>2
  <2> QED BY <2>1 DEF DigitsEnd
<1> QED BY <1>1, <1>2

\* strtoul reads the digits of the port, and those behind it if it ends with
\* the buffer.
LEMMA PortDigits ==
  ASSUME NEW b \in Seq(Symbol), NEW m \in Seq(Symbol), NEW k \in Nat, NEW e \in Nat, k <= e, e <= Len(b),
         Only(b, Digit, k, e), e < Len(b) => b[e + 1] \notin Digit
  PROVE  /\ (e - k) + More(b, m, e) \in 0..(Len(b) + Len(m))
         /\ DigitsEnd(b, m, k, (e - k) + More(b, m, e))
<1> DEFINE x == More(b, m, e)
           n == (e - k) + x
<1>1. Len(b) \in Nat /\ Len(m) \in Nat
  OBVIOUS
<1>2. SP \notin Digit
  BY DEF SP, Digit
<1>3. CASE e < Len(b)
  <2>1. x = 0 /\ n = e - k
    BY <1>1, <1>3 DEF More
  <2>2. ByteOf(b, m, k + n) \notin Digit
    BY <1>1, <1>3, <2>1 DEF ByteOf
  <2>3. ASSUME NEW i \in 0..(n - 1) PROVE ByteOf(b, m, k + i) \in Digit
    <3>1. k + i \in k..(e - 1) /\ k + i < Len(b)
      BY <1>1, <1>3, <2>1
    <3>2. b[(k + i) + 1] \in Digit
      BY <3>1 DEF Only
    <3> QED BY <3>1, <3>2 DEF ByteOf
  <2> QED BY <1>1, <2>1, <2>2, <2>3 DEF DigitsEnd
<1>4. CASE e = Len(b)
  <2>1. x = First(m, Symbol \ Digit, 0, Len(m))
    BY <1>4 DEF More
  <2>2. x \in Nat /\ IsFirst(m, Symbol \ Digit, 0, Len(m), x)
    BY <1>1, <2>1, FirstExists
  <2> HIDE DEF x
  <2>3. x \in 0..Len(m) /\ (x = Len(m) \/ m[x + 1] \notin Digit) /\ \A j \in 0..(x - 1) : m[j + 1] \notin Symbol \ Digit
    BY <2>2 DEF IsFirst
  <2>4. n \in 0..(Len(b) + Len(m)) /\ k + n = Len(b) + x
    BY <1>1, <1>4, <2>2, <2>3
  <2>5. ByteOf(b, m, k + n) \notin Digit
    <3>1. CASE x = Len(m)
      <4>1. ~(k + n < Len(b)) /\ ~(k + n < Len(b) + Len(m))
        BY <1>1, <2>4, <3>1
      <4> QED BY <1>2, <4>1 DEF ByteOf
    <3>2. CASE x # Len(m)
      <4>1. ~(k + n < Len(b)) /\ k + n < Len(b) + Len(m) /\ k + n - Len(b) + 1 = x + 1
        BY <1>1, <2>2, <2>3, <2>4, <3>2
      <4> QED BY <2>3, <3>2, <4>1 DEF ByteOf
    <3> QED BY <3>1, <3>2
  <2>6. ASSUME NEW i \in 0..(n - 1) PROVE ByteOf(b, m, k + i) \in Digit
    <3>1. CASE k + i < Len(b)
      <4>1. k + i \in k..(e - 1)
        BY <1>1, <1>4, <3>1
      <4>2. b[(k + i) + 1] \in Digit
        BY <4>1 DEF Only
      <4> QED BY <3>1, <4>2 DEF ByteOf
    <3>2. CASE ~(k + i < Len(b))
      <4> DEFINE j == k + i - Len(b)
      <4>1. j \in 0..(x - 1) /\ j + 1 \in 1..Len(m) /\ k + i < Len(b) + Len(m)
        BY <1>1, <2>2, <2>3, <2>4, <3>2
      <4>2. m[j + 1] \in Symbol /\ m[j + 1] \notin Symbol \ Digit
        BY <2>3, <4>1
      <4> QED BY <3>2, <4>1, <4>2 DEF ByteOf
    <3> QED BY <3>1, <3>2
  <2> QED BY <2>4, <2>5, <2>6 DEF DigitsEnd, x
<1> QED BY <1>1, <1>3, <1>4

LEMMA DigitsNat ==
  ASSUME NEW b, NEW m, NEW k \in Nat, NEW n \in Nat, DigitsEnd(b, m, k, n) PROVE Number(DigitsOf(b, m, k, n)) \in Nat
<1> DEFINE d == DigitsOf(b, m, k, n)
<1>1. d = [i \in 1..n |-> d[i]]
  BY DEF DigitsOf
<1>2. ASSUME NEW i \in 1..n PROVE d[i] \in Digit
  <2>1. i - 1 \in 0..(n - 1) /\ k + (i - 1) = k + i - 1
    OBVIOUS
  <2>2. ByteOf(b, m, k + (i - 1)) \in Digit
    BY <2>1 DEF DigitsEnd
  <2>3. d[i] = ByteOf(b, m, k + i - 1)
    BY DEF DigitsOf
  <2> QED BY <2>1, <2>2, <2>3
<1> HIDE DEF d
<1>3. Number(d) \in Nat
  BY <1>1, <1>2, NumberNat
<1> QED BY <1>3 DEF d

\* What a struct that agrees with the reference says of the port.
PortValue(v, number) == IF "UF_PORT" \in v.field_set THEN number ELSE 0

LEMMA StrtoulIs ==
  ASSUME buf \in Seq(Symbol), behind \in Seq(Symbol), NEW k \in Nat, NEW n \in 0..(Len(buf) + Len(behind)),
         DigitsEnd(buf, behind, k, n), NEW N, N = Number(DigitsOf(buf, behind, k, n))
  PROVE  strtoul(k) = IF N \in 0..PORT_MAX THEN N ELSE PORT_MAX + 1
<1>1. /\ \A i : Byte(i) = ByteOf(buf, behind, i)
      /\ \A c : IS_NUM(c) <=> c \in Digit
  BY DEF Byte, ByteOf, IS_NUM
<1> DEFINE o == CHOOSE m \in 0..(Len(buf) + Len(behind)) :
                  /\ ~IS_NUM(Byte(k + m)) /\ \A i \in 0..(m - 1) : IS_NUM(Byte(k + i))
           w == Number([i \in 1..o |-> Byte(k + i - 1)])
<1>2. strtoul(k) = IF w \in 0..PORT_MAX THEN w ELSE PORT_MAX + 1
  BY DEF strtoul
<1>3. o = CHOOSE m \in 0..(Len(buf) + Len(behind)) : DigitsEnd(buf, behind, k, m)
  BY <1>1 DEF DigitsEnd
<1> HIDE DEF o
<1>4. o = n
  <2>1. \A m \in 0..(Len(buf) + Len(behind)) : DigitsEnd(buf, behind, k, m) => m = n
    <3>1. n \in Nat /\ \A m \in 0..(Len(buf) + Len(behind)) : m \in Nat
      OBVIOUS
    <3> QED BY <3>1, OneEnd
  <2> QED BY <1>3, <2>1
<1>5. w = N
  BY <1>1, <1>4 DEF DigitsOf
<1> HIDE DEF w
<1> QED BY <1>2, <1>5

LEMMA PortIs ==
  ASSUME buf \in Seq(Symbol), behind \in Seq(Symbol), u \in Struct, NEW connect, Agrees(buf, connect, u), PortEnds(buf, u),
         NEW N, N = PortOf(buf, behind, RefUrl(buf, connect).spans)
  PROVE  /\ N \in Nat
         /\ PortValue(u, strtoul(u.off["UF_PORT"])) = IF N \in 0..PORT_MAX THEN N ELSE PORT_MAX + 1
<1> DEFINE spans == RefUrl(buf, connect).spans
<1>1. /\ u.field_set = DOMAIN spans
      /\ \A f \in u.field_set : spans[f] = [off |-> u.off[f], len |-> u.len[f]]
  BY DEF Agrees
<1> HIDE DEF spans
<1>2. CASE "UF_PORT" \notin u.field_set
  <2>1. N = 0
    BY <1>1, <1>2 DEF PortOf, spans
  <2> QED BY <1>2, <2>1, MaxPort DEF PortValue
<1>3. CASE "UF_PORT" \in u.field_set
  <2>1. PICK k \in Nat, e \in Nat : /\ Holds(u, "UF_PORT", k, e) /\ e <= Len(buf) /\ Only(buf, Digit, k, e)
                                    /\ e < Len(buf) => buf[e + 1] \notin Digit
    BY <1>3 DEF PortEnds
  <2>2. k <= e /\ u.off["UF_PORT"] = k /\ u.len["UF_PORT"] = e - k
    BY <1>3, <2>1 DEF Holds
  <2>3. spans["UF_PORT"].off = k /\ k + spans["UF_PORT"].len = e
    <3>1. spans["UF_PORT"] = [off |-> k, len |-> e - k]
      BY <1>1, <1>3, <2>2
    <3> QED BY <3>1
  <2> DEFINE n == (e - k) + More(buf, behind, e)
  <2>4. n \in 0..(Len(buf) + Len(behind)) /\ DigitsEnd(buf, behind, k, n)
    BY <2>1, <2>2, PortDigits
  <2>5. N = Number(DigitsOf(buf, behind, k, n))
    BY <1>1, <1>3, <2>3 DEF PortOf, spans
  <2> HIDE DEF n
  <2>6. n \in Nat
    BY <2>4
  <2>7. N \in Nat
    BY <2>4, <2>5, <2>6, DigitsNat
  <2>8. strtoul(k) = IF N \in 0..PORT_MAX THEN N ELSE PORT_MAX + 1
    BY <2>4, <2>5, StrtoulIs
  <2> QED BY <1>3, <2>2, <2>7, <2>8 DEF PortValue
<1> QED BY <1>2, <1>3

-----------------------------------------------------------------------------
\* The inductive invariant: in each loop, what has been read so far is what the
\* reference will find; behind them, the reference takes the URL unless it is
\* one of CONNECT with other fields than a host and a port.
UrlLoop ==
  pc = "url" => /\ s \in UrlState \cup {"s_req_spaces_before_url"}
                /\ Phase(buf, is_connect, u, s, found_at, p) /\ OldField(u, s, old_uf)

HostLoop ==
  pc = "host" =>
    /\ "UF_HOST" \notin u.field_set => /\ RefRefuses(buf, is_connect) /\ "UF_SCHEMA" \in u.field_set
                                       /\ ncalls = 1 => p = stop /\ s = "s_http_host_start"
    /\ "UF_HOST" \in u.field_set =>
         \E a : /\ Outer(buf, is_connect, u, a, stop) /\ a <= p /\ p <= stop
                /\ (found_at <=> HasAt(buf, a, stop)) /\ HostPhase(buf, u, s, found_at, a, p)

AtChecks ==
  pc = "checks" => IF HostIsParsed THEN Verdict(buf, is_connect, u) ELSE RefRefuses(buf, is_connect) /\ ncalls # 1

\* What the first call finds in the struct.
NothingLeft ==
  /\ ncalls = 0 => pc = "idle"
  /\ ncalls = 0 \/ (ncalls = 1 /\ pc = "url" /\ "UF_HOST" \notin u.field_set) =>
       u.off["UF_HOST"] = 0 /\ u.len["UF_HOST"] = 0

ThePort(b, m, connect) == PortOf(b, m, RefUrl(b, connect).spans)

Exact(b, m, connect, v, r) ==
  /\ r = 0 <=> ~RefRefuses(b, connect) /\ ThePort(b, m, connect) <= PORT_MAX
  /\ r = 0 => Agrees(b, connect, v) /\ v.port = ThePort(b, m, connect)

AtIdle ==
  pc = "idle" /\ ncalls > 0 /\ (ncalls = 1 \/ result = 1 \/ HostIsParsed) => Exact(buf, behind, is_connect, u, result)

ExactInv == UrlLoop /\ HostLoop /\ AtChecks /\ NothingLeft /\ AtIdle

LEMMA InitExact == Init => ExactInv
<1> SUFFICES ASSUME Init PROVE ExactInv
  OBVIOUS
<1>1. u.off["UF_HOST"] = 0 /\ u.len["UF_HOST"] = 0
  BY DEF Init, UrlField
<1> QED BY <1>1 DEF Init, ExactInv, UrlLoop, HostLoop, AtChecks, NothingLeft, AtIdle

LEMMA CallExact ==
  ASSUME UrlInv, ExactInv, NEW b \in Seq(Symbol), NEW m, NEW connect \in BOOLEAN, Call(b, m, connect)
  PROVE  ExactInv'
<1>1. u \in Struct /\ ncalls \in Nat
  BY CallsAssumption DEF UrlInv, Types
<1>2. /\ buf' = b /\ is_connect' = connect /\ pc' = "url" /\ p' = 0 /\ old_uf' = UF_MAX /\ found_at' = FALSE
      /\ s' = (IF connect THEN "s_req_server_start" ELSE "s_req_spaces_before_url") /\ ncalls' = ncalls + 1
      /\ u' = [u EXCEPT !.port = 0, !.field_set = {}]
  BY DEF Call
<1>3. u'.field_set = {} /\ u'.off = u.off /\ u'.len = u.len
  BY <1>1, <1>2 DEF Struct
<1>4. s' \in UrlState \cup {"s_req_spaces_before_url"} /\ OldField(u', s', UF_MAX)
  BY <1>2, <1>3 DEF UrlState, OldField, Delimiter
<1>5. Phase(b, connect, u', s', FALSE, 0)
  <2>1. CASE connect
    <3>1. AuthorityRead(b, connect, u', FALSE, 0, 0)
      BY <1>3, <2>1 DEF AuthorityRead, Begins, SchemaHeld, Holds, Only, HasAt
    <3> QED BY <1>2, <1>3, <2>1, <3>1 DEF Phase
  <2>2. CASE ~connect
    BY <1>2, <1>3, <2>2 DEF Phase
  <2> QED BY <2>1, <2>2
<1>6. UrlLoop'
  BY <1>2, <1>4, <1>5 DEF UrlLoop
<1>7. HostLoop' /\ AtChecks' /\ AtIdle'
  BY <1>2 DEF HostLoop, AtChecks, AtIdle
<1>8. NothingLeft'
  BY <1>1, <1>2, <1>3 DEF ExactInv, NothingLeft
<1> QED BY <1>6, <1>7, <1>8 DEF ExactInv

\* A call refuses what the reference refuses.
LEMMA RefuseExact ==
  ASSUME UrlInv, ExactInv, pc # "idle", Return(1), UNCHANGED u, RefRefuses(buf, is_connect) PROVE ExactInv'
<1>1. /\ pc' = "idle" /\ result' = 1 /\ buf' = buf /\ behind' = behind /\ is_connect' = is_connect /\ ncalls' = ncalls
      /\ u' = u
  BY DEF Return, argVars
<1>2. UrlLoop' /\ HostLoop' /\ AtChecks'
  BY <1>1 DEF UrlLoop, HostLoop, AtChecks
<1>3. NothingLeft'
  BY <1>1 DEF ExactInv, NothingLeft
<1>4. AtIdle'
  BY <1>1 DEF AtIdle, Exact
<1> QED BY <1>2, <1>3, <1>4 DEF ExactInv

LEMMA StepOfUrl ==
  ASSUME UrlInv, ExactInv, pc = "url", p < Len(buf) PROVE UrlStep(buf, is_connect, u, s, found_at, p, next_s)
<1>1. /\ buf \in Seq(Symbol) /\ is_connect \in BOOLEAN /\ found_at \in BOOLEAN /\ p \in Nat
  BY DEF UrlInv, Types
<1>2. s \in UrlState \cup {"s_req_spaces_before_url"} /\ Phase(buf, is_connect, u, s, found_at, p)
  BY DEF ExactInv, UrlLoop
<1> QED BY <1>1, <1>2 DEF UrlStep, next_s

LEMMA BadCharExact == ASSUME UrlInv, ExactInv, BadChar PROVE ExactInv'
<1>1. pc = "url" /\ p < Len(buf) /\ next_s = "s_dead" /\ Return(1) /\ UNCHANGED u
  BY DEF BadChar
<1>2. UrlStep(buf, is_connect, u, s, found_at, p, "s_dead")
  BY <1>1, StepOfUrl
<1>3. RefRefuses(buf, is_connect)
  BY <1>2, RefusedUrl
<1> QED BY <1>1, <1>3, RefuseExact

LEMMA SkipDelimiterExact == ASSUME UrlInv, ExactInv, SkipDelimiter PROVE ExactInv'
<1> DEFINE n == next_s
<1>1. pc = "url" /\ p < Len(buf) /\ n \in Delimiter /\ s' = n /\ p' = p + 1
  BY DEF SkipDelimiter
<1>2. UNCHANGED <<buf, behind, is_connect, u, pc, old_uf, found_at, stop, result, ncalls>>
  BY DEF SkipDelimiter, argVars
<1>3. UrlStep(buf, is_connect, u, s, found_at, p, n)
  BY <1>1, StepOfUrl
<1> HIDE DEF n
<1>4. Phase(buf, is_connect, u, n, found_at, p + 1)
  BY <1>1, <1>3, PhaseDelimiter
<1>5. OldField(u, n, old_uf)
  BY <1>1 DEF ExactInv, UrlLoop, OldField
<1>6. n \in UrlState
  BY <1>1 DEF Delimiter, UrlState
<1>7. UrlLoop'
  BY <1>1, <1>2, <1>4, <1>5, <1>6 DEF UrlLoop
<1>8. HostLoop' /\ AtChecks' /\ AtIdle'
  BY <1>1, <1>2 DEF HostLoop, AtChecks, AtIdle
<1>9. NothingLeft'
  BY <1>1, <1>2 DEF ExactInv, NothingLeft
<1> QED BY <1>7, <1>8, <1>9 DEF ExactInv

LEMMA FieldCharExact == ASSUME UrlInv, ExactInv, FieldChar PROVE ExactInv'
<1> DEFINE n == next_s
           f == FieldOf(n)
           new == f # old_uf
<1>1. /\ pc = "url" /\ p < Len(buf) /\ n \notin Delimiter \cup {"s_dead"} /\ s' = n /\ p' = p + 1
      /\ u' = Grown(u, f, new) /\ old_uf' = f /\ found_at' = (found_at \/ n = "s_req_server_with_at")
  BY DEF FieldChar
<1>2. UNCHANGED <<buf, behind, is_connect, pc, stop, result, ncalls>>
  BY DEF FieldChar, argVars
<1>3. UrlStep(buf, is_connect, u, s, found_at, p, n)
  BY <1>1, StepOfUrl
<1>4. n \in UrlState /\ n \notin Delimiter
  BY <1>1, UrlCharRange DEF next_s
<1>5. u \in Struct /\ p \in Nat
  BY DEF UrlInv, Types
<1>6. f \in FirstField /\ f \in UrlField
  BY <1>4, FieldOfRange DEF FirstField, UrlField
<1>7. OldField(u, s, old_uf)
  BY <1>1 DEF ExactInv, UrlLoop
<1> HIDE DEF n
<1>8. Grew(u, u', f, new, p)
  <2> HIDE DEF f, new
  <2>1. new \in BOOLEAN
    BY DEF new
  <2>2. /\ u'.field_set = IF new THEN u.field_set \cup {f} ELSE u.field_set
        /\ u'.off[f] = IF new THEN p ELSE u.off[f]
        /\ u'.len[f] = IF new THEN 1 ELSE u.len[f] + 1
        /\ \A g \in UrlField \ {f} : u'.off[g] = u.off[g] /\ u'.len[g] = u.len[g]
    BY <1>1, <1>5, <1>6, <2>1, GrownFacts
  <2> QED BY <2>2 DEF Grew
<1>9. Phase(buf, is_connect, u', n, found_at \/ n = "s_req_server_with_at", p + 1) /\ OldField(u', n, f)
  <2> DEFINE w == u'
  <2>1. Grew(u, w, FieldOf(n), FieldOf(n) # old_uf, p)
    BY <1>8
  <2> HIDE DEF w
  <2>2. /\ Phase(buf, is_connect, w, n, found_at \/ n = "s_req_server_with_at", p + 1)
        /\ OldField(w, n, FieldOf(n))
    BY <1>1, <1>3, <1>7, <2>1, PhaseField
  <2> QED BY <2>2 DEF w
<1>10. UrlLoop'
  BY <1>1, <1>2, <1>4, <1>9 DEF UrlLoop
<1>11. HostLoop' /\ AtChecks' /\ AtIdle'
  BY <1>1, <1>2 DEF HostLoop, AtChecks, AtIdle
<1>12. NothingLeft'
  <2> SUFFICES ASSUME "UF_HOST" \notin u'.field_set
               PROVE  "UF_HOST" \notin u.field_set /\ u'.off["UF_HOST"] = u.off["UF_HOST"] /\ u'.len["UF_HOST"] = u.len["UF_HOST"]
    BY <1>1, <1>2 DEF ExactInv, NothingLeft
  <2>1. f # "UF_HOST"
    BY <1>6, <1>9 DEF OldField, FirstField, UF_MAX
  <2> QED BY <1>8, <2>1 DEF Grew, UrlField
<1> QED BY <1>10, <1>11, <1>12 DEF ExactInv

LEMMA UrlEndExact == ASSUME UrlInv, ExactInv, UrlEnd PROVE ExactInv'
<1>1. /\ p = Len(buf) /\ pc = "url" /\ buf \in Seq(Symbol) /\ is_connect \in BOOLEAN /\ found_at \in BOOLEAN /\ u \in Struct
      /\ Len(buf) \in Nat /\ UNCHANGED <<buf, behind, is_connect, old_uf, found_at, result, ncalls>>
  BY DEF UrlInv, Types, UrlEnd, argVars
<1>2. u.field_set \subseteq FirstField
  BY <1>1 DEF UrlInv, Reading
<1>3. UrlDone(buf, is_connect, u, found_at)
  <2>1. s \in UrlState \cup {"s_req_spaces_before_url"} /\ Phase(buf, is_connect, u, s, found_at, Len(buf))
    BY <1>1 DEF ExactInv, UrlLoop
  <2> QED BY <1>1, <1>2, <2>1, PhaseDone
<1>4. CASE u.field_set \cap {"UF_SCHEMA", "UF_HOST"} = {}
  <2>1. pc' = "checks" /\ UNCHANGED <<u, s, p, stop>>
    BY <1>4 DEF UrlEnd
  <2>2. Verdict(buf, is_connect, u)
    BY <1>1, <1>2, <1>3, <1>4, RelativeVerdict
  <2>3. HostIsParsed'
    BY <1>4, <2>1 DEF HostIsParsed
  <2>4. AtChecks'
    BY <1>1, <2>1, <2>2, <2>3 DEF AtChecks
  <2>5. UrlLoop' /\ HostLoop' /\ AtIdle'
    BY <2>1 DEF UrlLoop, HostLoop, AtIdle
  <2>6. NothingLeft'
    BY <1>1, <2>1 DEF ExactInv, NothingLeft
  <2> QED BY <2>4, <2>5, <2>6 DEF ExactInv
<1>5. CASE u.field_set \cap {"UF_SCHEMA", "UF_HOST"} # {}
  <2>1. /\ stop' = u.off["UF_HOST"] + u.len["UF_HOST"] /\ u' = [u EXCEPT !.len["UF_HOST"] = 0]
        /\ s' = (IF found_at THEN "s_http_userinfo_start" ELSE "s_http_host_start")
        /\ p' = u.off["UF_HOST"] /\ pc' = "host"
    BY <1>5 DEF UrlEnd
  <2>2. /\ u'.field_set = u.field_set /\ u'.off = u.off
        /\ \A f \in UrlField : u'.len[f] = IF f = "UF_HOST" THEN 0 ELSE u.len[f]
    <3>1. u.len \in [UrlField -> Nat] /\ "UF_HOST" \in UrlField
      BY <1>1 DEF Struct, UrlField
    <3>2. u'.field_set = u.field_set /\ u'.off = u.off /\ u'.len = [u.len EXCEPT !["UF_HOST"] = 0]
      BY <1>1, <2>1 DEF Struct
    <3> QED BY <3>1, <3>2
  <2>3. UrlLoop' /\ AtChecks' /\ AtIdle'
    BY <2>1 DEF UrlLoop, AtChecks, AtIdle
  <2>4. NothingLeft'
    BY <1>1, <2>1 DEF ExactInv, NothingLeft
  <2>5. HostLoop'
    <3>1. CASE "UF_HOST" \notin u.field_set
      <4>1. "UF_SCHEMA" \in u.field_set /\ RefRefuses(buf, is_connect) /\ ~found_at
        BY <1>3, <1>5, <3>1 DEF UrlDone
      <4>2. ncalls = 1 => p' = stop' /\ s' = "s_http_host_start"
        <5> SUFFICES ASSUME ncalls = 1 PROVE p' = stop' /\ s' = "s_http_host_start"
          OBVIOUS
        <5>1. u.off["UF_HOST"] = 0 /\ u.len["UF_HOST"] = 0
          BY <1>1, <3>1 DEF ExactInv, NothingLeft
        <5> QED BY <2>1, <4>1, <5>1
      <4> QED BY <1>1, <2>1, <2>2, <3>1, <4>1, <4>2 DEF HostLoop
    <3>2. CASE "UF_HOST" \in u.field_set
      <4>1. PICK a, e : Outer(buf, is_connect, u, a, e) /\ Holds(u, "UF_HOST", a, e) /\ (found_at <=> HasAt(buf, a, e))
        BY <1>3, <3>2 DEF UrlDone
      <4>2. a \in Nat /\ e \in Nat /\ a < e
        BY <4>1 DEF Outer
      <4>3. p' = a /\ stop' = e
        BY <2>1, <4>1, <4>2 DEF Holds
      <4> DEFINE w == u'
      <4>4. Outer(buf, is_connect, w, a, e)
        <5>1. ASSUME NEW f \in {"UF_SCHEMA", "UF_PATH", "UF_QUERY", "UF_FRAGMENT"}, NEW k, NEW z, Holds(u, f, k, z)
              PROVE  Holds(w, f, k, z)
          <6>1. f \in UrlField /\ f # "UF_HOST"
            BY DEF UrlField
          <6> QED BY <2>2, <5>1, <6>1 DEF Holds
        <5>2. "UF_HOST" \in w.field_set
          BY <2>2, <3>2
        <5> HIDE DEF w
        <5> QED BY <4>1, <5>1, <5>2, OuterKept
      <4>5. w.len["UF_HOST"] = 0 /\ "UF_PORT" \notin w.field_set /\ "UF_USERINFO" \notin w.field_set
        BY <1>2, <2>2 DEF FirstField, UrlField
      <4>6. HostPhase(buf, w, s', found_at, a, a)
        <5>1. CASE found_at
          BY <2>1, <4>5, <5>1 DEF HostPhase, UserPhase
        <5>2. CASE ~found_at
          <6>1. UserAt(buf, w, found_at, a, a) /\ HostAt(buf, w, s', a, a)
            BY <2>1, <4>2, <4>5, <5>2 DEF UserAt, HostAt
          <6> QED BY <4>5, <6>1 DEF HostPhase
        <5> QED BY <5>1, <5>2
      <4> QED BY <1>1, <2>2, <3>2, <4>1, <4>2, <4>3, <4>4, <4>6 DEF HostLoop
    <3> QED BY <3>1, <3>2
  <2> QED BY <2>3, <2>4, <2>5 DEF ExactInv
<1> QED BY <1>4, <1>5

\* The second loop over an authority that the first one found.
Within(a) ==
  /\ buf \in Seq(Symbol) /\ is_connect \in BOOLEAN /\ found_at \in BOOLEAN /\ s \in HostState
  /\ a \in Nat /\ stop \in Nat /\ p \in Nat /\ a < stop /\ a <= p /\ p <= stop /\ stop <= Len(buf)
  /\ "UF_HOST" \in u.field_set /\ u.field_set \subseteq UrlField
  /\ Outer(buf, is_connect, u, a, stop) /\ (found_at <=> HasAt(buf, a, stop)) /\ HostPhase(buf, u, s, found_at, a, p)

LEMMA HostWithin == ASSUME UrlInv, ExactInv, pc = "host", "UF_HOST" \in u.field_set PROVE \E a : Within(a)
<1>1. PICK a : /\ Outer(buf, is_connect, u, a, stop) /\ a <= p /\ p <= stop
               /\ (found_at <=> HasAt(buf, a, stop)) /\ HostPhase(buf, u, s, found_at, a, p)
  BY DEF ExactInv, HostLoop
<1>2. /\ buf \in Seq(Symbol) /\ is_connect \in BOOLEAN /\ found_at \in BOOLEAN /\ p \in Nat /\ stop \in Nat
      /\ u.field_set \subseteq UrlField
  BY DEF UrlInv, Types, Struct
<1>3. s \in HostState
  BY DEF UrlInv, Splitting, HostIsParsed
<1>4. a \in Nat /\ a < stop /\ stop <= Len(buf)
  BY <1>1 DEF Outer
<1> QED BY <1>1, <1>2, <1>3, <1>4 DEF Within

\* Where the loop ends badly, the reference refuses the URL.
LEMMA WithinRefused ==
  ASSUME NEW a, Within(a), EndsBadly(buf, s, stop, p) PROVE RefRefuses(buf, is_connect)
<1>1. /\ buf \in Seq(Symbol) /\ is_connect \in BOOLEAN /\ s \in HostState
      /\ a \in Nat /\ stop \in Nat /\ p \in Nat /\ a < stop /\ a <= p /\ p <= stop /\ "UF_HOST" \in u.field_set
      /\ Outer(buf, is_connect, u, a, stop) /\ (found_at <=> HasAt(buf, a, stop)) /\ HostPhase(buf, u, s, found_at, a, p)
  BY DEF Within
<1>2. ~RefAuthority(buf, a, stop).ok
  BY <1>1, HostRefused
<1> QED BY <1>1, <1>2, OuterRefused

LEMMA BadHostCharExact == ASSUME UrlInv, ExactInv, BadHostChar PROVE ExactInv'
<1>1. pc = "host" /\ p < stop /\ new_s = "s_http_host_dead" /\ Return(1) /\ UNCHANGED u
  BY DEF BadHostChar
<1>2. RefRefuses(buf, is_connect)
  <2>1. CASE "UF_HOST" \notin u.field_set
    BY <1>1, <2>1 DEF ExactInv, HostLoop
  <2>2. CASE "UF_HOST" \in u.field_set
    <3>1. PICK a : Within(a)
      BY <1>1, <2>2, HostWithin
    <3>2. buf[p + 1] \in Symbol /\ Byte(p) = buf[p + 1]
      BY <1>1, <3>1 DEF Within, Byte
    <3>3. HostStops(s, buf[p + 1])
      BY <1>1, <3>2, HostCharStops DEF new_s
    <3>4. EndsBadly(buf, s, stop, p)
      BY <1>1, <3>1, <3>3 DEF EndsBadly, Within
    <3> QED BY <3>1, <3>4, WithinRefused
  <2> QED BY <2>1, <2>2
<1> QED BY <1>1, <1>2, RefuseExact

LEMMA HostCharGrew == ASSUME UrlInv, HostChar PROVE HostGrew(u, u', s, new_s, p)
<1> DEFINE n == new_s
           w == u'
<1>1. u \in Struct /\ p \in Nat /\ {"UF_PORT", "UF_USERINFO"} \subseteq UrlField
  BY DEF UrlInv, Types, UrlField
<1>2. /\ n \in {"s_http_host", "s_http_host_v6"} =>
              /\ w.field_set = u.field_set
              /\ w.off["UF_HOST"] = IF n # s THEN p ELSE u.off["UF_HOST"]
              /\ w.len["UF_HOST"] = u.len["UF_HOST"] + 1
              /\ \A g \in UrlField \ {"UF_HOST"} : w.off[g] = u.off[g] /\ w.len[g] = u.len[g]
      /\ n = "s_http_host_port" => w = Grown(u, "UF_PORT", s # n)
      /\ n = "s_http_userinfo" => w = Grown(u, "UF_USERINFO", s # n)
      /\ n \notin {"s_http_host", "s_http_host_v6", "s_http_host_port", "s_http_userinfo"} => w = u
  BY HostCharFacts
<1>3. ASSUME NEW f \in {"UF_PORT", "UF_USERINFO"}, w = Grown(u, f, s # n) PROVE Grew(u, w, f, n # s, p)
  <2> DEFINE new == s # n
  <2>1. new \in BOOLEAN /\ f \in UrlField /\ u' = Grown(u, f, new) /\ (n # s) = new
    BY <1>1, <1>3
  <2> HIDE DEF new, n
  <2>2. /\ u'.field_set = IF new THEN u.field_set \cup {f} ELSE u.field_set
        /\ u'.off[f] = IF new THEN p ELSE u.off[f]
        /\ u'.len[f] = IF new THEN 1 ELSE u.len[f] + 1
        /\ \A g \in UrlField \ {f} : u'.off[g] = u.off[g] /\ u'.len[g] = u.len[g]
    BY <1>1, <2>1, GrownFacts
  <2>3. Grew(u, w, f, new, p)
    BY <2>2 DEF Grew
  <2> QED BY <2>1, <2>3
<1> HIDE DEF n, w
<1>4. HostGrew(u, w, s, n, p)
  BY <1>2, <1>3 DEF HostGrew
<1> QED BY <1>4 DEF n, w

LEMMA HostCharExact == ASSUME UrlInv, ExactInv, HostChar PROVE ExactInv'
<1> DEFINE n == new_s
           w == u'
<1>1. pc = "host" /\ p < stop /\ n # "s_http_host_dead" /\ s' = n /\ p' = p + 1
  BY DEF HostChar
<1>2. UNCHANGED <<buf, behind, is_connect, pc, old_uf, found_at, stop, result, ncalls>>
  BY DEF HostChar, argVars
<1>3. HostGrew(u, w, s, n, p)
  BY HostCharGrew
<1>4. \A f \in {"UF_HOST", "UF_SCHEMA"} : f \in w.field_set <=> f \in u.field_set
  BY <1>3 DEF HostGrew, Grew
<1>5. UrlLoop' /\ AtChecks' /\ AtIdle'
  BY <1>1, <1>2 DEF UrlLoop, AtChecks, AtIdle
<1>6. NothingLeft'
  BY <1>1, <1>2 DEF ExactInv, NothingLeft
<1>7. HostLoop'
  <2>1. CASE "UF_HOST" \notin u.field_set
    <3>1. RefRefuses(buf, is_connect) /\ "UF_SCHEMA" \in u.field_set /\ (ncalls = 1 => p = stop)
      BY <1>1, <2>1 DEF ExactInv, HostLoop
    <3>2. p \in Nat /\ ncalls # 1
      BY <1>1, <3>1 DEF UrlInv, Types
    <3> QED BY <1>2, <1>4, <2>1, <3>1, <3>2 DEF HostLoop
  <2>2. CASE "UF_HOST" \in u.field_set
    <3>1. PICK a : Within(a)
      BY <1>1, <2>2, HostWithin
    <3>2. /\ buf \in Seq(Symbol) /\ a \in Nat /\ p \in Nat /\ stop \in Nat /\ a <= p /\ p < Len(buf) /\ stop <= Len(buf)
          /\ Outer(buf, is_connect, u, a, stop) /\ (found_at <=> HasAt(buf, a, stop)) /\ HostPhase(buf, u, s, found_at, a, p)
      BY <1>1, <3>1 DEF Within
    <3>3. n = http_parse_host_char(s, buf[p + 1])
      BY <3>2 DEF new_s, Byte
    <3> HIDE DEF n, w
    <3>4. HostStep(buf, u, s, found_at, a, p, n)
      BY <3>2, <3>3 DEF HostStep
    <3>5. HostPhase(buf, w, n, found_at, a, p + 1)
      <4>1. CASE n \in {"s_http_userinfo", "s_http_host_start"}
        BY <1>3, <3>4, <4>1, UserSteps
      <4>2. CASE n \notin {"s_http_userinfo", "s_http_host_start"}
        <5>1. n \notin {"s_http_userinfo", "s_http_host_start", "s_http_host_dead"}
          BY <1>1, <4>2
        <5> QED BY <1>3, <3>4, <5>1, HostAtSteps
      <4> QED BY <4>1, <4>2
    <3>6. Outer(buf, is_connect, w, a, stop)
      <4>1. ASSUME NEW f \in {"UF_SCHEMA", "UF_PATH", "UF_QUERY", "UF_FRAGMENT"}, NEW k, NEW z, Holds(u, f, k, z)
            PROVE  Holds(w, f, k, z)
        <5>1. f \in UrlField /\ f \notin {"UF_HOST", "UF_USERINFO", "UF_PORT"}
          BY DEF UrlField
        <5> QED BY <1>3, <4>1, <5>1, HostKept
      <4>2. "UF_HOST" \in w.field_set
        BY <1>4, <2>2
      <4> QED BY <3>2, <4>1, <4>2, OuterKept
    <3>7. a <= p + 1 /\ p + 1 <= stop
      BY <1>1, <3>2
    <3> QED BY <1>1, <1>2, <1>4, <2>2, <3>2, <3>5, <3>6, <3>7 DEF HostLoop, w
  <2> QED BY <2>1, <2>2
<1> QED BY <1>5, <1>6, <1>7 DEF ExactInv

LEMMA HostEndExact == ASSUME UrlInv, ExactInv, HostEnd PROVE ExactInv'
<1>1. pc = "host" /\ p = stop /\ u' = u
  BY DEF HostEnd
<1>2. CASE s \in Unfinished /\ Return(1)
  <2>1. RefRefuses(buf, is_connect)
    <3>1. CASE "UF_HOST" \notin u.field_set
      BY <1>1, <3>1 DEF ExactInv, HostLoop
    <3>2. CASE "UF_HOST" \in u.field_set
      <4>1. PICK a : Within(a)
        BY <1>1, <3>2, HostWithin
      <4>2. EndsBadly(buf, s, stop, p)
        BY <1>1, <1>2, <4>1 DEF EndsBadly, Within
      <4> QED BY <4>1, <4>2, WithinRefused
    <3> QED BY <3>1, <3>2
  <2> QED BY <1>1, <1>2, <2>1, RefuseExact
<1>3. CASE s \notin Unfinished /\ pc' = "checks" /\ UNCHANGED <<argVars, localVars, result, ncalls>>
  <2>1. pc' = "checks" /\ UNCHANGED <<buf, behind, is_connect, ncalls>>
    BY <1>3 DEF argVars
  <2>2. UrlLoop' /\ HostLoop' /\ AtIdle'
    BY <2>1 DEF UrlLoop, HostLoop, AtIdle
  <2>3. NothingLeft'
    BY <1>1, <2>1 DEF ExactInv, NothingLeft
  <2>4. AtChecks'
    <3>1. CASE "UF_HOST" \notin u.field_set
      <4>1. /\ RefRefuses(buf, is_connect) /\ "UF_SCHEMA" \in u.field_set /\ (ncalls = 1 => s = "s_http_host_start")
        BY <1>1, <3>1 DEF ExactInv, HostLoop
      <4>2. ncalls # 1
        BY <1>3, <4>1 DEF Unfinished
      <4>3. ~HostIsParsed'
        BY <1>1, <3>1, <4>1 DEF HostIsParsed
      <4> QED BY <2>1, <4>1, <4>2, <4>3 DEF AtChecks
    <3>2. CASE "UF_HOST" \in u.field_set
      <4>1. PICK a : Within(a)
        BY <1>1, <3>2, HostWithin
      <4>2. /\ buf \in Seq(Symbol) /\ is_connect \in BOOLEAN /\ s \in HostState \ Unfinished /\ a \in Nat /\ stop \in Nat /\ a <= stop
            /\ u.field_set \subseteq UrlField /\ Outer(buf, is_connect, u, a, stop)
            /\ (found_at <=> HasAt(buf, a, stop)) /\ HostPhase(buf, u, s, found_at, a, stop)
        BY <1>1, <1>3, <4>1 DEF Within
      <4>3. AuthorityHeld(buf, u, a, stop) /\ DigitsTo(buf, u, stop)
        BY <3>2, <4>2, HostDone
      <4>4. Verdict(buf, is_connect, u)
        BY <4>2, <4>3, AuthorityVerdict
      <4>5. HostIsParsed'
        BY <1>1, <3>2 DEF HostIsParsed
      <4> QED BY <1>1, <2>1, <4>4, <4>5 DEF AtChecks
    <3> QED BY <3>1, <3>2
  <2> QED BY <2>2, <2>3, <2>4 DEF ExactInv
<1> QED BY <1>2, <1>3 DEF HostEnd

LEMMA ChecksExact == ASSUME UrlInv, ExactInv, Checks PROVE ExactInv'
<1> DEFINE v == PortValue(u, strtoul(u.off["UF_PORT"]))
           w == u'
           N == ThePort(buf, behind, is_connect)
<1>1. /\ pc = "checks" /\ buf \in Seq(Symbol) /\ behind \in Seq(Symbol) /\ is_connect \in BOOLEAN /\ u \in Struct
  BY DEF Checks, UrlInv, Types
<1>2. \/ (~PortOnly(is_connect, u.field_set) \/ v > PORT_MAX) /\ Return(1) /\ UNCHANGED u
      \/ PortOnly(is_connect, u.field_set) /\ ~(v > PORT_MAX) /\ Return(0) /\ u' = [u EXCEPT !.port = v]
  BY DEF Checks, PortValue, PortOnly
<1> HIDE DEF v
<1>3. CASE RefRefuses(buf, is_connect) /\ Return(1) /\ UNCHANGED u
  BY <1>1, <1>3, RefuseExact
<1>4. /\ pc' = "idle" /\ result' \in {0, 1} /\ UNCHANGED <<buf, behind, is_connect, ncalls>>
  BY <1>2 DEF Return, argVars
<1>5. /\ w.field_set = u.field_set /\ w.off = u.off /\ w.len = u.len
      /\ result' = 0 => w.port = v
  BY <1>1, <1>2 DEF Return, Struct
<1>6. UrlLoop' /\ HostLoop' /\ AtChecks'
  BY <1>4 DEF UrlLoop, HostLoop, AtChecks
<1>7. NothingLeft'
  BY <1>1, <1>4, <1>5 DEF ExactInv, NothingLeft
<1>8. AtIdle'
  <2>1. CASE HostIsParsed
    <3>1. Verdict(buf, is_connect, u)
      BY <1>1, <2>1 DEF ExactInv, AtChecks
    <3>2. CASE RefRefuses(buf, is_connect)
      <4>1. Return(1) /\ UNCHANGED u
        BY <1>2, <3>1, <3>2 DEF Verdict
      <4>2. ExactInv'
        BY <1>3, <3>2, <4>1
      <4> QED BY <4>2 DEF ExactInv
    <3>3. CASE ~RefRefuses(buf, is_connect)
      <4>1. PortOnly(is_connect, u.field_set) /\ Agrees(buf, is_connect, u) /\ PortEnds(buf, u)
        BY <3>1, <3>3 DEF Verdict
      <4>2. N \in Nat /\ v = IF N \in 0..PORT_MAX THEN N ELSE PORT_MAX + 1
        <5>1. N = PortOf(buf, behind, RefUrl(buf, is_connect).spans)
          BY DEF ThePort
        <5> HIDE DEF N
        <5> QED BY <1>1, <4>1, <5>1, PortIs DEF v
      <4> HIDE DEF N, w
      <4>3. (v > PORT_MAX <=> ~(N <= PORT_MAX)) /\ (N <= PORT_MAX => v = N)
        <5>1. PORT_MAX \in Nat
          BY MaxPort
        <5>2. CASE N <= PORT_MAX
          <6>1. N \in 0..PORT_MAX
            BY <4>2, <5>1, <5>2
          <6>2. v = N
            BY <4>2, <6>1
          <6> QED BY <4>2, <5>1, <5>2, <6>2
        <5>3. CASE ~(N <= PORT_MAX)
          <6>1. N \notin 0..PORT_MAX
            BY <4>2, <5>1, <5>3
          <6>2. v = PORT_MAX + 1
            BY <4>2, <6>1
          <6> QED BY <5>1, <5>3, <6>2
        <5> QED BY <5>2, <5>3
      <4>4. result' = 0 <=> N <= PORT_MAX
        BY <1>2, <4>1, <4>3 DEF Return
      <4>5. N <= PORT_MAX => v = N
        BY <4>3
      <4>6. Agrees(buf, is_connect, w)
        BY <1>5, <4>1 DEF Agrees
      <4>7. Exact(buf, behind, is_connect, w, result')
        BY <1>5, <3>3, <4>4, <4>5, <4>6 DEF Exact, N
      <4> QED BY <1>4, <4>7 DEF AtIdle, w
    <3> QED BY <3>2, <3>3
  <2>2. CASE ~HostIsParsed
    <3>1. RefRefuses(buf, is_connect) /\ ncalls # 1
      BY <1>1, <2>2 DEF ExactInv, AtChecks
    <3>2. CASE result' = 1
      <4>1. Exact(buf, behind, is_connect, w, 1)
        BY <3>1 DEF Exact
      <4> QED BY <1>4, <3>2, <4>1 DEF AtIdle
    <3>3. CASE result' # 1
      <4>1. ~HostIsParsed'
        BY <1>5, <2>2 DEF HostIsParsed
      <4> QED BY <1>4, <3>1, <3>3, <4>1 DEF AtIdle
    <3> QED BY <3>2, <3>3
  <2> QED BY <2>1, <2>2
<1> QED BY <1>6, <1>7, <1>8 DEF ExactInv

LEMMA NextExact == UrlInv /\ ExactInv /\ [Next]_vars => ExactInv'
<1> SUFFICES ASSUME UrlInv, ExactInv, [Next]_vars PROVE ExactInv'
  OBVIOUS
<1>1. CASE ncalls < MaxCalls /\ AnyCall
  <2>1. PICK b \in Urls[ncalls + 1], m \in Behinds, connect \in BOOLEAN : Call(b, m, connect)
    BY <1>1 DEF AnyCall
  <2>2. ncalls + 1 \in 1..MaxCalls
    BY <1>1, CallsAssumption DEF UrlInv, Types
  <2>3. b \in Seq(Symbol)
    BY <2>2, UrlAssumption
  <2> QED BY <2>1, <2>3, CallExact
<1>2. CASE BadChar
  BY <1>2, BadCharExact
<1>3. CASE SkipDelimiter
  BY <1>3, SkipDelimiterExact
<1>4. CASE FieldChar
  BY <1>4, FieldCharExact
<1>5. CASE UrlEnd
  BY <1>5, UrlEndExact
<1>6. CASE BadHostChar
  BY <1>6, BadHostCharExact
<1>7. CASE HostChar
  BY <1>7, HostCharExact
<1>8. CASE HostEnd
  BY <1>8, HostEndExact
<1>9. CASE Checks
  BY <1>9, ChecksExact
<1>10. CASE UNCHANGED vars
  <2>1. UNCHANGED <<buf, behind, is_connect, u, pc, s, p, old_uf, found_at, stop, result, ncalls>>
    BY <1>10 DEF vars, argVars, localVars
  <2> QED BY <2>1 DEF ExactInv, UrlLoop, HostLoop, AtChecks, NothingLeft, AtIdle, HostIsParsed
<1> QED BY <1>1, <1>2, <1>3, <1>4, <1>5, <1>6, <1>7, <1>8, <1>9, <1>10 DEF Next, Step

LEMMA ExactInvariant == Spec => []ExactInv
<1>1. Init => ExactInv
  BY InitExact
<1>2. UrlInv /\ ExactInv /\ [Next]_vars => ExactInv'
  BY NextExact
<1> QED BY <1>1, <1>2, UrlInvariant, PTL DEF Spec

LEMMA StrtoulPortIs == \A r : StrtoulPort(r) = PortOf(buf, behind, r.spans)
  BY DEF StrtoulPort, PortOf, DigitsOf, More, Byte, ByteOf

-----------------------------------------------------------------------------
\* The struct and the locals of both loops keep their types, for any buffers
\* and any number of calls: the port that is stored fits its 16 bits.
THEOREM UrlTypeCorrect == Spec => []UrlTypeOK
<1>1. UrlInv => UrlTypeOK
  BY TypesAreUrlTypeOK DEF UrlInv
<1> QED BY <1>1, UrlInvariant, PTL

\* The fields of a URL that is accepted are not empty and lie in the buffer;
\* user, host and port come in this order and do not overlap.
THEOREM UrlFieldsInside == Spec => []FieldsInside
<1>1. UrlInv => FieldsInside
  BY DEF UrlInv, Accepted, Fit, FieldsInside, End
<1> QED BY <1>1, UrlInvariant, PTL

\* Call after call, whatever the calls before left in the struct, the parser
\* accepts what the reference takes for a URL, and finds its fields: the two
\* loops split every buffer at the first occurrences of its delimiters.
THEOREM UrlFieldsExact == Spec => []FieldsAreExact
<1>1. ExactInv => FieldsAreExact
  <2> SUFFICES ASSUME ExactInv, pc = "idle", ncalls > 0, ncalls = 1 \/ result = 1 \/ HostIsParsed
               PROVE  /\ result = 0 <=> /\ RefUrl(buf, is_connect).ok
                                        /\ StrtoulPort(RefUrl(buf, is_connect)) <= PORT_MAX
                      /\ result = 0 => /\ u.field_set = DOMAIN RefUrl(buf, is_connect).spans
                                       /\ \A f \in u.field_set : RefUrl(buf, is_connect).spans[f] = [off |-> u.off[f], len |-> u.len[f]]
    BY DEF FieldsAreExact
  <2>1. Exact(buf, behind, is_connect, u, result)
    BY DEF ExactInv, AtIdle
  <2>2. StrtoulPort(RefUrl(buf, is_connect)) = ThePort(buf, behind, is_connect)
    BY StrtoulPortIs DEF ThePort
  <2> QED BY <2>1, <2>2 DEF Exact, RefRefuses, Agrees
<1> QED BY <1>1, ExactInvariant, PTL

\* A port inside the buffer that no digit follows is read as it is.
Alone(b, m, k, n) == /\ k + n <= Len(b)
                     /\ k + n = Len(b) => m = <<>> \/ m[1] \notin Digit

Part(b, k, n) == [i \in 1..n |-> b[k + i]]

LEMMA PortAlone ==
  ASSUME NEW b \in Seq(Symbol), NEW m \in Seq(Symbol), NEW k \in Nat, NEW n \in Nat, Alone(b, m, k, n)
  PROVE  DigitsOf(b, m, k, n + More(b, m, k + n)) = Part(b, k, n)
<1> USE DEF Alone
<1>1. Len(b) \in Nat /\ Len(m) \in Nat
  OBVIOUS
<1>2. More(b, m, k + n) = 0
  <2>1. CASE k + n = Len(b)
    <3>1. Len(m) = 0 \/ m[1] \in Symbol \ Digit
      <4>1. CASE m = <<>>
        BY <4>1
      <4>2. CASE m # <<>>
        <5>1. Len(m) # 0
          BY ONLY <4>2, m \in Seq(Symbol), EmptySeq
        <5>2. 1 \in 1..Len(m)
          BY <1>1, <5>1
        <5>3. m[1] \in Symbol
          BY <5>2
        <5> QED BY <2>1, <4>2, <5>3
      <4> QED BY <4>1, <4>2
    <3>2. IsFirst(m, Symbol \ Digit, 0, Len(m), 0)
      <4>1. 0 \in 0..Len(m) /\ 0 + 1 = 1 /\ 0..(0 - 1) = {}
        BY <1>1
      <4> QED BY <3>1, <4>1 DEF IsFirst
    <3>3. First(m, Symbol \ Digit, 0, Len(m)) = 0
      BY <1>1, <3>2, FirstIs
    <3> QED BY <2>1, <3>3 DEF More
  <2>2. CASE k + n # Len(b)
    BY <2>2 DEF More
  <2> QED BY <2>1, <2>2
<1>3. ASSUME NEW i \in 1..n PROVE ByteOf(b, m, k + i - 1) = b[k + i]
  <2>1. k + i - 1 < Len(b) /\ (k + i - 1) + 1 = k + i
    BY <1>1
  <2> QED BY <2>1 DEF ByteOf
<1>4. n + More(b, m, k + n) = n
  BY <1>2
<1> QED BY <1>3, <1>4 DEF DigitsOf, Part

\* The port of a URL that is accepted is the number in it, unless digits that
\* are not part of the URL follow it in memory.
THEOREM UrlPortExact == Spec => []PortIsExact
<1>1. UrlInv /\ ExactInv => PortIsExact
  <2> DEFINE r == RefUrl(buf, is_connect)
  <2> SUFFICES ASSUME UrlInv, ExactInv, pc = "idle", ncalls > 0, result = 0, HostIsParsed, ~PortRunsOn(r)
               PROVE  u.port = RefPort(r)
    BY DEF PortIsExact
  <2>1. Exact(buf, behind, is_connect, u, result)
    BY DEF ExactInv, AtIdle
  <2>2. u.port = PortOf(buf, behind, r.spans) /\ Agrees(buf, is_connect, u)
    BY <2>1 DEF Exact, ThePort
  <2>3. Fit /\ buf \in Seq(Symbol) /\ behind \in Seq(Symbol) /\ u \in Struct
    BY DEF UrlInv, Accepted, Types
  <2>4. CASE "UF_PORT" \notin DOMAIN r.spans
    BY <2>2, <2>4 DEF PortOf, RefPort
  <2>5. CASE "UF_PORT" \in DOMAIN r.spans
    <3> DEFINE k == r.spans["UF_PORT"].off
               n == r.spans["UF_PORT"].len
    <3>1. "UF_PORT" \in u.field_set /\ r.spans["UF_PORT"] = [off |-> u.off["UF_PORT"], len |-> u.len["UF_PORT"]]
      BY <2>2, <2>5 DEF Agrees
    <3>2. k = u.off["UF_PORT"] /\ n = u.len["UF_PORT"]
      BY <3>1
    <3>3. u.off["UF_PORT"] \in Nat /\ u.len["UF_PORT"] \in Nat
      BY <2>3 DEF Struct, UrlField
    <3>4. u.off["UF_PORT"] + u.len["UF_PORT"] <= Len(buf)
      BY <2>3, <3>1 DEF Fit, End
    <3>5. Alone(buf, behind, k, n)
      BY <2>5, <3>2, <3>4 DEF PortRunsOn, Alone
    <3>6. PortOf(buf, behind, r.spans) = Number(DigitsOf(buf, behind, k, (k + n) - k + More(buf, behind, k + n)))
      BY <2>5 DEF PortOf
    <3>7. RefPort(r) = Number(Part(buf, k, n))
      BY <2>5 DEF RefPort, Part
    <3>8. k \in Nat /\ n \in Nat /\ k + n <= Len(buf)
      BY <3>2, <3>3, <3>4
    <3> HIDE DEF k, n, r
    <3>9. (k + n) - k = n
      BY <3>8
    <3>10. DigitsOf(buf, behind, k, n + More(buf, behind, k + n)) = Part(buf, k, n)
      BY ONLY <2>3, <3>5, <3>8, PortAlone
    <3>11. PortOf(buf, behind, r.spans) = RefPort(r)
      BY ONLY <3>6, <3>7, <3>9, <3>10
    <3> QED BY <2>2, <3>11
  <2> QED BY <2>4, <2>5
<1> QED BY <1>1, ExactInvariant, UrlInvariant, PTL
=============================================================================
