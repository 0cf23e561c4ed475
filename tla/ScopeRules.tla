------------------------------ MODULE ScopeRules ------------------------------
(***************************************************************************)
(* The rules of reconnaissance/scope.py, and what becomes of a reference   *)
(* that a tool or a page reports: it is resolved, filtered, recorded and   *)
(* handed on as a seed, each route of pipeline.py in its own spelling.     *)
(*                                                                         *)
(* A URL is a record of what the rules tell apart.  `caps' says where it   *)
(* has capital letters; `space' that white space follows its path or query *)
(* (before the fragment, if it has one); `form' whether a reference is an  *)
(* absolute URL, an absolute path or neither.  A path is the sequence of   *)
(* the segments after its slashes: "" is <<>> and "/" is <<Empty>>.        *)
(***************************************************************************)
EXTENDS Integers, Sequences, FiniteSets

CONSTANTS
    Segments,        \* path segments
    VariableSegs,    \* those that are digits, a UUID or hexadecimal
    StartsWith,      \* pairs <<s, p>> of segments: the string s starts with p
    Empty,           \* the empty segment
    IdMark,          \* "{id}"
    Hosts, InternalHosts,
    AllowInternal, ScopeHost,  \* options; NoHost when --scope-host is not given
    PathPrefix,      \* scope.path_prefix as a path; <<>> when there is none
    Targets,         \* URLs the operator may give
    References,      \* what tools and pages may report
    Assets           \* URLs of scripts in which references are found

NoHost == "nohost"
Unbalanced == "["    \* a host with half a bracket: urlsplit raises ValueError
WebSchemes == {"http", "https"}
Ports == {0, 80, 443, 8080, 99999}  \* 0 is none; 99999 is out of range

Url == [form : {"absolute", "path", "other"}, scheme : WebSchemes \union {"ftp"},
        caps : {"none", "scheme", "host"}, user : BOOLEAN,
        host : Hosts \union {NoHost, Unbalanced}, port : Ports,
        path : Seq(Segments), query : {"none", "some", "extended"},
        space : BOOLEAN, frag : BOOLEAN]

ASSUME ScopeAssumption ==
    /\ NoHost \notin Hosts /\ Unbalanced \notin Hosts
    /\ {Empty, IdMark} \subseteq Segments
    /\ VariableSegs \subseteq Segments \ {Empty, IdMark}
    /\ InternalHosts \subseteq Hosts
    /\ ScopeHost \in Hosts \union {NoHost} /\ AllowInternal \in BOOLEAN
    /\ PathPrefix \in Seq(Segments) /\ \A U \in {Targets, References, Assets} : U \subseteq Url
    /\ \A s \in Segments : <<s, s>> \in StartsWith
    /\ \A u \in Targets \union References \union Assets :
          u.space => u.path # <<>> \/ u.query # "none"

VARIABLES
    step,        \* where the reference stands
    base,        \* config.base_url
    targetHost,  \* scope.target_host
    route,       \* the stage that met the reference
    found,       \* the reference as found
    url,         \* its current spelling
    row          \* what _record_endpoint derived from it: key, pattern, in_scope

vars == <<step, base, targetHost, route, found, url, row>>

-----------------------------------------------------------------------------
(* Normal form and pattern. *)

DefaultPort == [s \in WebSchemes |-> IF s = "http" THEN 80 ELSE 443]
Default(u) == u.scheme \in WebSchemes /\ u.port = DefaultPort[u.scheme]

\* Where normalize_url raises: in urlsplit, or InvalidUrlError for the port.
Splits(u) == u.host # Unbalanced
PortReads(u) == u.port <= 65535

\* A slip: the port is compared with the defaults of all schemes.
NormalFormOnePort(u) ==
    [u EXCEPT !.caps = "none", !.user = FALSE,
              !.port = IF u.port \in {80, 443} THEN 0 ELSE u.port,
              !.path = IF u.path = <<>> THEN <<Empty>> ELSE u.path,
              !.space = u.space /\ u.frag, !.frag = FALSE]
\* Space at the end is stripped before the fragment is dropped, so what stood
\* before the fragment stays.
NormalForm(u) ==
    [u EXCEPT !.caps = "none", !.user = FALSE, !.port = IF Default(u) THEN 0 ELSE u.port,
              !.path = IF u.path = <<>> THEN <<Empty>> ELSE u.path,
              !.space = u.space /\ u.frag, !.frag = FALSE]

SpaceInPath(u) == u.space /\ u.query = "none"

PathPattern(u) ==
    [segments |-> IF u.path = <<>> THEN <<Empty>>
                  ELSE [i \in DOMAIN u.path |->
                          IF u.path[i] \in VariableSegs /\ ~(SpaceInPath(u) /\ i = Len(u.path))
                          THEN IdMark ELSE u.path[i]],
     space |-> SpaceInPath(u)]

-----------------------------------------------------------------------------
(* Verdicts. *)

\* _hostname: no userinfo, http or https, and a host.
HasHostname(u) == ~u.user /\ u.scheme \in WebSchemes /\ u.host # NoHost

\* str.startswith over whole paths.
UnderPrefix(path) ==
    LET n == Len(PathPrefix) IN
    n > 0 => /\ Len(path) >= n
             /\ \A i \in 1 .. n - 1 : path[i] = PathPrefix[i]
             /\ <<path[n], PathPrefix[n]>> \in StartsWith

\* is_in_scope(u, active=True) is True; _hostname and allows_active fold case.
InScope(u) ==
    /\ Splits(u) /\ HasHostname(u) /\ PortReads(u)
    /\ u.host = targetHost /\ UnderPrefix(NormalForm(u).path)

\* validate_target accepts u.
ValidTarget(u) ==
    /\ Splits(u) /\ HasHostname(u) /\ PortReads(u)
    /\ u.host \in InternalHosts => AllowInternal

-----------------------------------------------------------------------------
(* References against a page. *)

\* absolutize follows "http://", "https://" (in lower case) and "/".
Followed(ref) ==
    \/ ref.form = "path"
    \/ ref.form = "absolute" /\ ref.scheme \in WebSchemes /\ ref.caps # "scheme"

Against(page, ref) ==
    IF ref.form # "path" THEN ref
    ELSE [ref EXCEPT !.form = "absolute", !.scheme = page.scheme, !.caps = page.caps,
                     !.user = page.user, !.host = page.host, !.port = page.port]

\* The segments up to the last one that is not empty.
WithoutSlashes(path) ==
    SubSeq(path, 1, Cardinality({i \in DOMAIN path : \E j \in i .. Len(path) : path[j] # Empty}))

\* normalize_url(base_url.rstrip("/") + ref): behind a query, the path only
\* makes the query longer.
Below(page, ref) ==
    NormalForm(IF page.query # "none" THEN [page EXCEPT !.query = "extended"]
               ELSE [page EXCEPT !.path = WithoutSlashes(page.path) \o ref.path,
                                 !.query = ref.query])

-----------------------------------------------------------------------------
Routes == {"references", "reported", "archived", "spec", "well_known"}
NoRow == [key |-> {}, pattern |-> {}, inScope |-> FALSE]
NoUrl == [form |-> "other", scheme |-> "http", caps |-> "none", user |-> FALSE,
          host |-> NoHost, port |-> 0, path |-> <<>>, query |-> "none",
          space |-> FALSE, frag |-> FALSE]

Init ==
    /\ step = "start"
    /\ base = NoUrl /\ targetHost = NoHost
    /\ route = "none" /\ found = NoUrl /\ url = NoUrl /\ row = NoRow

\* validate_target and the scope that main and _run_job derive from it.
Validate(u) ==
    /\ step = "start"
    /\ ValidTarget(u)
    /\ base' = NormalForm(u)
    /\ targetHost' = IF ScopeHost = NoHost THEN u.host ELSE ScopeHost
    /\ step' = "scanning"
    /\ UNCHANGED <<route, found, url, row>>

\* A stage meets a reference on a page of the target.
Find(ref, r) ==
    /\ step = "scanning"
    /\ r = "well_known" => ref.form = "path"
    /\ r \in {"reported", "archived", "spec"} => ref.form = "absolute"
    /\ route' = r /\ found' = ref /\ url' = ref
    /\ step' = "found"
    /\ UNCHANGED <<base, targetHost, row>>

\* References in JavaScript are resolved against the asset, paths in robots.txt
\* are put below the base URL, the other routes have absolute URLs.
Resolve ==
    /\ step = "found"
    /\ Splits(url)
    /\ \/ /\ route = "references"
          /\ \E page \in {a \in Assets : InScope(a)} :
                IF Followed(url) /\ PortReads(Against(page, url))
                THEN url' = NormalForm(Against(page, url)) /\ step' = "resolved"
                ELSE url' = url /\ step' = "dropped"
       \/ route = "well_known" /\ url' = Below(base, url) /\ step' = "resolved"
       \/ route \in {"reported", "archived", "spec"} /\ url' = url /\ step' = "resolved"
    /\ UNCHANGED <<base, targetHost, route, found, row>>

\* The ValueError of urlsplit ends the scan.
Abort ==
    /\ step = "found"
    /\ ~Splits(url)
    /\ step' = "aborted"
    /\ UNCHANGED <<base, targetHost, route, found, url, row>>

\* A slip: the filter looks at the normal form.
FilterNormalForm ==
    /\ step = "resolved"
    /\ step' = IF PortReads(url) /\ InScope(NormalForm(url)) THEN "admitted" ELSE "dropped"
    /\ UNCHANGED <<base, targetHost, route, found, url, row>>

Filter ==
    /\ step = "resolved"
    /\ step' = IF InScope(url) THEN "admitted" ELSE "dropped"
    /\ UNCHANGED <<base, targetHost, route, found, url, row>>

\* _record_endpoint of u: the row is looked up and kept under u as it is spelt;
\* its pattern and its verdict are those of the normal form.
RowOf(u) ==
    [key |-> u, pattern |-> PathPattern(NormalForm(u)), inScope |-> InScope(NormalForm(u))]

\* A slip: an archived URL is recorded as it was found.
RecordRowAsFound ==
    /\ step = "admitted"
    /\ row' = IF route = "well_known" THEN NoRow ELSE RowOf(url)
    /\ step' = "recorded"
    /\ UNCHANGED <<base, targetHost, route, found, url>>

\* Archived URLs are recorded in normal form, the others as they are; the paths
\* of robots.txt are seeds without a row.
RecordRow ==
    /\ step = "admitted"
    /\ row' = IF route = "well_known" THEN NoRow
              ELSE RowOf(IF route = "archived" THEN NormalForm(url) ELSE url)
    /\ step' = "recorded"
    /\ UNCHANGED <<base, targetHost, route, found, url>>

\* What the stage returns: the normal form of what tools reported, references
\* and robots.txt paths as they were resolved, the URLs of a spec as they are.
Seed ==
    /\ step = "recorded"
    /\ url' = IF route \in {"reported", "archived"} THEN NormalForm(url) ELSE url
    /\ step' = "seed"
    /\ UNCHANGED <<base, targetHost, route, found, row>>

\* _stage_parameters records a seed again, in normal form, for what arjun found.
ParametersRow(seed) == RowOf(NormalForm(seed))

\* The next reference.
NextReference ==
    /\ step \in {"seed", "dropped"}
    /\ step' = "scanning"
    /\ route' = "none" /\ found' = NoUrl /\ url' = NoUrl /\ row' = NoRow
    /\ UNCHANGED <<base, targetHost>>

Next ==
    \/ \E u \in Targets : Validate(u)
    \/ \E ref \in References, r \in Routes : Find(ref, r)
    \/ Resolve \/ Abort \/ Filter \/ RecordRow \/ Seed \/ NextReference

Spec == Init /\ [][Next]_vars

-----------------------------------------------------------------------------
\* What passed the filter in one spelling is in scope in every spelling that is
\* derived from it: as the row's normal form, which decides whether the endpoint
\* may be replayed, and as the seed that the next tool is given.
VerdictSurvives ==
    /\ step # "start" /\ ScopeHost = NoHost /\ PathPrefix = <<>> => InScope(base)
    /\ step \in {"recorded", "seed"} /\ route # "well_known" => row.inScope
    /\ step = "seed" => InScope(url)

\* Two URLs are one request if they agree in scheme, host, effective port, path
\* ("" being "/") and query.
EffectivePort(u) == IF u.port = 0 /\ u.scheme \in WebSchemes THEN DefaultPort[u.scheme] ELSE u.port
SameRequest(u, v) ==
    /\ u.scheme = v.scheme /\ u.host = v.host /\ u.query = v.query
    /\ EffectivePort(u) = EffectivePort(v)
    /\ u.path = v.path \/ {u.path, v.path} = {<<>>, <<Empty>>}

\* The other ways to spell a URL, and its neighbours.
Spelling(u, s, c, p, q, f) ==
    [u EXCEPT !.scheme = s, !.caps = c, !.port = p, !.path = q, !.frag = f]
Respelled(u) ==
    {Spelling(u, s, c, p, q, f) :
        s \in WebSchemes, c \in {"none", "scheme", "host"}, p \in Ports \ {99999},
        q \in {u.path, <<>>, <<Empty>>}, f \in BOOLEAN}

\* The normal form is the key of replays and seeds: all the spellings of one
\* request share it, and no two requests do.
KeyIsRequest ==
    step = "admitted" /\ ~url.space =>
        \A v \in Respelled(url) : (NormalForm(v) = NormalForm(url)) <=> SameRequest(v, url)

\* The ledger counts a seed under the very pattern of its row, and what arjun finds
\* for the seed goes to a row in scope, of that pattern and of the same request.
\* For references in scripts and archived URLs it is the row itself.  A URL that a
\* tool or a spec spelt otherwise than in normal form has a row of its own by then,
\* so that its parameters are kept with a second row of the request.
ParametersStayWithRequest ==
    step = "seed" /\ route # "well_known" /\ ~found.space =>
        LET asked == ParametersRow(url) IN
        /\ PathPattern(url) = row.pattern /\ asked.pattern = row.pattern /\ asked.inScope
        /\ SameRequest(asked.key, row.key)
        /\ route \in {"references", "archived"} => asked.key = row.key
==============================================================================
