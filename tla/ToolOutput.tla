----------------------------- MODULE ToolOutput -----------------------------
(***************************************************************************)
(* What the wrappers of httpx, katana, ffuf, arjun and gau make of a       *)
(* tool's answer, row by row: a line of JSON for httpx and katana, an      *)
(* entry of one JSON document for ffuf and arjun, a line of text for gau.  *)
(* The program that writes the rows is not ours, so any row may come; a    *)
(* field of a row is abstracted to what a wrapper can tell of it.          *)
(***************************************************************************)
EXTENDS Integers, SequencesExt

CONSTANTS
    RowsOf,   \* for each tool the rows that it may write
    MaxRows   \* bound: the rows of one answer

Tools == DOMAIN RowsOf

\* form: a blank line, something else than JSON, JSON that is no object, an object.
\* url: absent, empty or no string; white space; a page; a script (its path ends in
\* .js); one that urlsplit refuses.  type: absent, a page's or a script's, or no string ("number").
\* names: of technologies or of parameters.
NoStatus == -1
HttpMethods == {"GET", "HEAD", "OPTIONS", "POST", "PUT", "DELETE", "PATCH"}

VARIABLES
    at,       \* where the wrapper stands
    tool,
    read,     \* the rows that it has read
    outcome   \* what it will return

vars == <<at, tool, read, outcome>>

Nothing == [endpoints |-> <<>>, scripts |-> <<>>, names |-> <<>>, missing |-> FALSE]

-----------------------------------------------------------------------------
Init == at = "called" /\ tool \in Tools /\ read = <<>> /\ outcome = Nothing

\* Nothing to probe or to crawl: the tool is not run.
NoTargets ==
    /\ at = "called" /\ tool \in {"httpx", "katana"}
    /\ at' = "returned"
    /\ UNCHANGED <<tool, read, outcome>>

\* The binary is missing, or it failed or timed out, which looks like no answer.
RunFails ==
    /\ at = "called"
    /\ \E missing \in BOOLEAN : outcome' = [Nothing EXCEPT !.missing = missing]
    /\ at' = "returned"
    /\ UNCHANGED <<tool, read>>

Run ==
    /\ at = "called"
    /\ at' = "reading"
    /\ UNCHANGED <<tool, read, outcome>>

\* The rows are through, or the one document of ffuf or arjun does not parse.
Return ==
    /\ at = "reading"
    /\ at' = "returned"
    /\ UNCHANGED <<tool, read, outcome>>

\* A slip: the range is not checked.
StatusUnchecked(row) == row.status
StatusOf(row) == IF row.status \in 100 .. 599 THEN row.status ELSE NoStatus
MethodOf(row) == IF tool = "katana" /\ row.method \in HttpMethods THEN row.method ELSE "GET"

EndpointOf(row) ==
    [url |-> row.url, method |-> MethodOf(row), status |-> StatusOf(row),
     type |-> IF row.type = "number" THEN "none" ELSE row.type]

\* DiscoveredEndpoint refuses a blank URL, and a status out of range.
Refused(row) ==
    \/ row.url = "blank"
    \/ StatusOf(row) # NoStatus /\ StatusOf(row) \notin 100 .. 599

\* The names that are strings, each once, in the order in which they come.
AddName(known, n) == IF n = "number" \/ n \in ToSet(known) THEN known ELSE Append(known, n)
WithNames(seen, names) == FoldLeft(AddName, seen, names)

Reading(row) ==
    /\ at = "reading" /\ Len(read) < MaxRows
    /\ read' = Append(read, row)
    /\ UNCHANGED tool

Skip == UNCHANGED <<at, outcome>>
Keep(new) == outcome' = new /\ UNCHANGED at
\* An exception leaves the wrapper, and what was read goes with it.
Raises == at' = "raised" /\ outcome' = Nothing

Addressed(row) == row.form = "object" /\ row.url # "none"
Added(row) == [outcome EXCEPT !.endpoints = Append(@, EndpointOf(row))]

\* A row that the wrapper leaves out, refuses, or takes; a blank name is refused
\* by Technology.  A slip: only rows that carry a status are endpoints.
ReadHttpxProbedOnly(row) ==
    /\ tool = "httpx" /\ Reading(row)
    /\ IF Addressed(row) /\ StatusOf(row) # NoStatus /\ ~Refused(row) THEN Keep(Added(row)) ELSE Skip
ReadHttpx(row) ==
    /\ tool = "httpx" /\ Reading(row)
    /\ \/ ~Addressed(row) /\ Skip
       \/ Addressed(row) /\ (Refused(row) \/ "blank" \in ToSet(row.names)) /\ Raises
       \/ /\ Addressed(row) /\ ~Refused(row) /\ "blank" \notin ToSet(row.names)
          /\ Keep([Added(row) EXCEPT !.names = WithNames(@, row.names)])

\* The path is looked at first, then the content type, which need not be a string.
ReadKatana(row) ==
    /\ tool = "katana" /\ Reading(row)
    /\ LET breaks == row.url = "split" \/ (row.url # "script" /\ row.type = "number")
           script == row.url = "script" \/ row.type = "javascript"
       IN  \/ ~Addressed(row) /\ Skip
           \/ Addressed(row) /\ (Refused(row) \/ breaks) /\ Raises
           \/ /\ Addressed(row) /\ ~Refused(row) /\ ~breaks
              /\ Keep([Added(row) EXCEPT !.scripts = IF script THEN Append(@, row.url) ELSE @])

ReadFfuf(row) ==
    /\ tool = "ffuf" /\ Reading(row)
    /\ \/ ~Addressed(row) /\ Skip
       \/ Addressed(row) /\ Refused(row) /\ Raises
       \/ Addressed(row) /\ ~Refused(row) /\ Keep(Added(row))

\* DiscoveredParam refuses a blank name.
ReadArjun(row) ==
    /\ tool = "arjun" /\ Reading(row)
    /\ \/ row.form # "object" /\ Skip
       \/ row.form = "object" /\ "blank" \in ToSet(row.names) /\ Raises
       \/ /\ row.form = "object" /\ "blank" \notin ToSet(row.names)
          /\ Keep([outcome EXCEPT !.names = WithNames(@, row.names)])

\* Every line that is not blank is a URL.
ReadGau(row) ==
    /\ tool = "gau" /\ Reading(row)
    /\ IF row.form = "blank" THEN Skip ELSE Keep(Added(row))

Next ==
    \/ NoTargets \/ RunFails \/ Run \/ Return
    \/ \E row \in RowsOf[tool] :
          ReadHttpx(row) \/ ReadKatana(row) \/ ReadFfuf(row) \/ ReadArjun(row) \/ ReadGau(row)

Spec == Init /\ [][Next]_vars

-----------------------------------------------------------------------------
Usable(row) ==
    IF tool = "gau" THEN row.form # "blank"
    ELSE row.form = "object" /\ (row.url # "none" \/ tool = "arjun")

\* The rows that are usable, and the place that a member of s takes among its elders.
UsableRows == {i \in DOMAIN read : Usable(read[i])}
Place(s, i) == Cardinality({k \in s : k <= i})

EndpointsKept ==
    /\ Len(outcome.endpoints) = Cardinality(UsableRows)
    /\ \A i \in UsableRows : outcome.endpoints[Place(UsableRows, i)].url = read[i].url

Script(e) == e.url = "script" \/ e.type = "javascript"
ScriptsKept ==
    LET crawled == {i \in DOMAIN outcome.endpoints : Script(outcome.endpoints[i])}
    IN  /\ Len(outcome.scripts) = Cardinality(crawled)
        /\ \A i \in crawled : outcome.scripts[Place(crawled, i)] = outcome.endpoints[i].url

\* Where a name is mentioned: a row, and a place in it.
Mentions(n) ==
    UNION {{<<i, p>> : p \in {p \in DOMAIN read[i].names : read[i].names[p] = n}} : i \in UsableRows}
Earlier(m, l) == m[1] < l[1] \/ (m[1] = l[1] /\ m[2] < l[2])

NamesKept ==
    /\ ToSet(outcome.names) = (UNION {ToSet(read[i].names) : i \in UsableRows}) \ {"number"}
    /\ \A i, k \in DOMAIN outcome.names : i < k =>
          \E m \in Mentions(outcome.names[i]) : \A l \in Mentions(outcome.names[k]) : Earlier(m, l)

\* A row that says nothing usable takes nothing from the rows around it: whatever
\* they are, the outcome has an endpoint for each usable row, in their order, the
\* crawler's scripts are exactly those of its endpoints that are scripts, and the
\* technologies or parameters are listed once, in the order in which they were
\* first seen in any row, with none forgotten.
EveryUsableRow ==
    at \in {"reading", "returned"} =>
        /\ tool # "arjun" => EndpointsKept
        /\ tool = "katana" => ScriptsKept
        /\ tool \in {"httpx", "arjun"} => NamesKept

\* What ends a scan is known: a URL or a name of white space, and for the crawler
\* a URL that cannot be split or a content type that is no string.  No status, and
\* no other field that is missing or of another type, does.
RaisedByItsRow ==
    at = "raised" =>
        LET row == Last(read) IN
        /\ row.form = "object"
        /\ \/ row.url = "blank" \/ "blank" \in ToSet(row.names)
           \/ tool = "katana" /\ (row.url = "split" \/ row.type = "number")
==============================================================================
