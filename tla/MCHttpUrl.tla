----------------------------- MODULE MCHttpUrl -----------------------------
(***************************************************************************)
(* The URL parser on every short URL and on combinations of parts.         *)
(***************************************************************************)
EXTENDS HttpUrlReference

Strings(S, n) == UNION {[1..k -> S] : k \in 0..n}

\* A first call that leaves a host at the start of the struct, or further on.
FirstUrls == {<<"x", ":", "8">>, <<"x", ":", "/", "/", "x", "8">>, <<"/">>}

Schema == <<"x", ":", "/", "/">>

Authorities ==
  {user \o host \o port : user \in {<<>>, <<"@">>, <<"x", ":", "8", "@">>, <<"x", "@", "x", "@">>},
                          host \in {<<"x", ".", "8", "-">>, <<"[", ":", ":", "a", "]">>, <<"[", "x", "]">>, <<>>},
                          port \in {<<>>, <<":">>, <<":", "0", "8", "0">>, <<":", "6", "5", "5", "3", "5">>,
                                    <<":", "6", "5", "5", "3", "6">>, <<":", "8", "x">>}}

Rests == {path \o query \o fragment : path \in {<<>>, <<"/">>, <<"/", "x", "@", ":", "[">>},
                                      query \in {<<>>, <<"?">>, <<"?", "?", "/">>},
                                      fragment \in {<<>>, <<"#">>, <<"#", "#", "x", "?", "#">>, <<"x", SP>>}}

LastUrls ==
  Strings({"x", "8", ":", "/", "@", "?", "#", "[", "]"}, 3)
    \cup {Schema \o t : t \in Strings({"x", "8", ":", "@", "/", "?", "[", "]"}, 3)}
    \cup Authorities \cup {Schema \o a : a \in Authorities}
    \cup Rests \cup {Schema \o <<"x">> \o r : r \in Rests}
    \cup {<<"x", ":", "/">> \o r : r \in Rests} \cup {<<"x", ":", "8">> \o r : r \in Rests}

MCUrls == <<FirstUrls, LastUrls>>
MCBehinds == {<<>>, <<"8", "0">>, <<"x", "8">>}

=============================================================================
