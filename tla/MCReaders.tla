----------------------------- MODULE MCReaders -----------------------------
(***************************************************************************)
(* Readers with rows that vary in the fields that the wrapper of their     *)
(* tool looks at, and documents in which every kind of entry stands before *)
(* and after every other.                                                  *)
(***************************************************************************)
EXTENDS Readers

\* The forms of a URL and of a content type, as ToolOutput describes them.
NoStatus == -1
UrlForms == {"none", "blank", "page", "script", "split"}
TypeForms == {"none", "html", "javascript", "number"}

Empty == [form |-> "object", url |-> "none", method |-> "GET", status |-> NoStatus,
          type |-> "none", names |-> <<>>]
NotObjects == {[Empty EXCEPT !.form = f] : f \in {"blank", "garbage", "scalar"}}
Statuses == {NoStatus, 99, 100, 599, 600}
Lists == {<<"a">>, <<"b">>, <<"b", "a">>, <<"a", "number">>, <<"blank">>}

MCRowsOf == [t \in {"httpx", "katana", "ffuf", "arjun", "gau"} |->
    CASE t = "httpx" ->
            NotObjects \union {[Empty EXCEPT !.url = u, !.names = n] : u \in {"none", "page"}, n \in Lists}
            \union {[Empty EXCEPT !.url = u, !.status = s] : u \in {"blank", "page", "split"}, s \in Statuses}
      [] t = "katana" ->
            NotObjects \union {[Empty EXCEPT !.url = u, !.type = y] : u \in UrlForms, y \in TypeForms}
            \union {[Empty EXCEPT !.url = "page", !.method = m, !.status = s] :
                        m \in {"GET", "POST", "TRACE"}, s \in Statuses}
      [] t = "ffuf" ->
            {[Empty EXCEPT !.form = "scalar"]} \union
            {[Empty EXCEPT !.url = u, !.status = s] : u \in UrlForms, s \in Statuses}
      [] t = "arjun" ->
            {[Empty EXCEPT !.form = "scalar"]} \union {[Empty EXCEPT !.names = n] : n \in Lists}
      [] t = "gau" ->
            {[Empty EXCEPT !.form = "blank"]} \union
            {[Empty EXCEPT !.form = "garbage", !.url = u] : u \in {"page", "split"}}]

\* Documents of up to two paths; parameters by value, by reference, twice, in two
\* places, in a cookie, and with names that are blank or no strings.
Node(r, n, i) == [ref |-> r, name |-> n, in |-> i]
ParamLists ==
    {<<>>, <<Node("none", "id", "path"), Node("direct", "id", "path"), Node("none", "id", "query")>>,
     <<Node("chain", "q", "query"), Node("dangling", "q", "query"), Node("none", "q", "cookie"),
       Node("none", "number", "query"), Node("direct", "q", "header")>>,
     <<Node("none", "blank", "query")>>}
Bodies == {<<>>, <<"id", "number", "q", "id">>}
Op(k, p, b) == [key |-> k, params |-> p, body |-> b]
Ops == {Op(k, p, b) : k \in {"get", "post"}, p \in ParamLists, b \in Bodies}
Others == {Op(k, <<>>, <<>>) : k \in {"trace", "summary", "number"}}
Item(p, es) == [path |-> p, entries |-> es]
Entries == {<<a, b>> : a \in Ops \union Others, b \in Ops \union Others} \union {<<>>}
Second == {<<>>, <<Item("users", <<Op("get", <<>>, <<>>)>>)>>,
           <<Item("number", <<Op("get", <<>>, <<>>)>>)>>,
           <<Item("blank", <<Op("get", <<>>, <<>>)>>)>>}
Servers == {<<>>, <<"absolute">>, <<"relative">>, <<"number", "absolute", "relative">>}

Distinct(es) == \A i, k \in DOMAIN es : es[i].key = es[k].key => i = k
Doc(k, s, p) == [kind |-> k, servers |-> s, paths |-> p]
MCDocs ==
    {Doc("openapi3", s, <<Item("pets", es)>> \o more) :
        s \in Servers, es \in {e \in Entries : Distinct(e)}, more \in Second}
    \union {Doc("swagger2", s, <<Item("pets", <<a>>)>>) : s \in {<<>>, <<"absolute">>}, a \in Ops}
    \union {Doc(k, <<>>, <<>>) : k \in {"openapi3", "postman", "unknown"}}

=============================================================================
