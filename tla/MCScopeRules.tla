----------------------------- MODULE MCScopeRules -----------------------------
(***************************************************************************)
(* ScopeRules with five segments and three hosts: targets that are accepted *)
(* in several spellings and that are refused, and references that differ   *)
(* from a plain URL of the target in much of what the rules tell apart.    *)
(***************************************************************************)
EXTENDS ScopeRules

MCSegments == {"", "app", "application", "42", "{id}"}
MCStartsWith == {<<s, s>> : s \in MCSegments} \union {<<"application", "app">>}
                \union {<<s, "">> : s \in MCSegments}
NoPrefix == <<>>
MCHosts == {"target", "cdn", "loopback"}
MCPaths == {<<>>, <<"">>, <<"app", "42">>, <<"application", "">>}

Plain ==
    [form |-> "absolute", scheme |-> "https", caps |-> "none", user |-> FALSE,
     host |-> "target", port |-> 0, path |-> <<"app">>, query |-> "none",
     space |-> FALSE, frag |-> FALSE]

\* One thing wrong with a URL.
Faulty(u) ==
    {[u EXCEPT !.user = TRUE], [u EXCEPT !.scheme = "ftp"], [u EXCEPT !.port = 99999],
     [u EXCEPT !.host = NoHost], [u EXCEPT !.host = "loopback"]}

MCTargets ==
    {[Plain EXCEPT !.scheme = s, !.caps = c, !.port = 443, !.path = p] :
        s \in WebSchemes, c \in {"none", "host"}, p \in {<<>>, <<"app">>}}
    \union Faulty(Plain)

MCReferences ==
    {[Plain EXCEPT !.scheme = s, !.caps = c, !.port = p, !.path = q, !.query = "some",
                   !.space = w, !.frag = f] :
        s \in WebSchemes, c \in {"none", "scheme", "host"}, p \in {0, 80, 443, 8080},
        q \in MCPaths, w \in BOOLEAN, f \in BOOLEAN}
    \union {[Plain EXCEPT !.path = q, !.frag = f] : q \in MCPaths, f \in BOOLEAN}
    \union {[Plain EXCEPT !.path = q, !.space = TRUE, !.frag = f] :
        q \in MCPaths \ {<<>>}, f \in BOOLEAN}
    \union Faulty(Plain)
    \union {[Plain EXCEPT !.host = "cdn"], [Plain EXCEPT !.host = Unbalanced]}
    \union {[NoUrl EXCEPT !.form = s, !.path = q, !.query = y, !.frag = f] :
        s \in {"path", "other"}, q \in MCPaths \ {<<>>}, y \in {"none", "some"}, f \in BOOLEAN}
MCAssets == {Plain, [Plain EXCEPT !.scheme = "http", !.caps = "host", !.port = 80]}
=============================================================================
