------------------------------ MODULE ScanStore ------------------------------
(***************************************************************************)
(* The inventory of one scan: ScanStore of reconnaissance/adapters/store.py*)
(* and the use the pipeline makes of it.  Every operation opens its own    *)
(* connection and commits or rolls back as a whole, and one thread writes, *)
(* so an operation is one step; what is hard is that the same endpoint is  *)
(* reported again and again, by tools that each know some of its columns.  *)
(*                                                                         *)
(* An endpoint row has many columns that are filled by COALESCE; three     *)
(* stand for them: the status, the length, and the signature that is       *)
(* derived from both.  A default of '{}' on insertion is Unknown here.     *)
(***************************************************************************)
EXTENDS Integers, Sequences, FiniteSets, SequencesExt

CONSTANTS
    Keys,      \* (method, url) pairs
    Sources,   \* the tools that report them
    Statuses, Lengths,
    Params,    \* (name, location) pairs
    Digests,   \* fingerprints of secrets
    Unknown,   \* a NULL
    MaxReports, MaxErrors  \* bounds: reports of endpoints, rows of the error log

ASSUME StoreAssumption ==
    /\ Unknown \notin Statuses \union Lengths
    /\ Unknown \notin Statuses \X (Lengths \union {Unknown})
    /\ MaxReports \in Nat /\ MaxErrors \in Nat

VARIABLES
    scan,        \* the scan row: absent, open or finished
    endpoints,   \* the endpoint table, a row's id is its place
    parameters,  \* the parameter table
    errors,      \* how many rows the error log has
    count,       \* ctx.endpoint_count of the pipeline that writes
    reported     \* history: the reports, in order

vars == <<scan, endpoints, parameters, errors, count, reported>>

-----------------------------------------------------------------------------
Columns == {"status", "length", "sig"}

\* What one tool says of an endpoint.
Reports == [key : Keys, source : Sources, status : Statuses \union {Unknown},
            length : Lengths \union {Unknown}]

\* ResponseSignature.of, computed only for a response that has a status.
Signature(r) == IF r.status = Unknown THEN Unknown ELSE <<r.status, r.length>>

\* The columns of a report, and COALESCE(new, old) of each.
Facts(r) == [status |-> r.status, length |-> r.length, sig |-> Signature(r)]
Coalesce(new, old) == IF new = Unknown THEN old ELSE new

\* Slips in the UPDATE: the columns are overwritten, or a known one is kept.
FillOverwriting(old, new) == new
FillKeepingFirst(old, new) ==
    [new EXCEPT !["status"] = Coalesce(old["status"], @), !["length"] = Coalesce(@, old["length"]),
                !["sig"] = Coalesce(@, old["sig"])]
Fill(old, new) == [c \in Columns |-> Coalesce(new[c], old[c])]

NewRow(r) == [key |-> r.key, sources |-> <<r.source>>, facts |-> Facts(r), secrets |-> <<>>]
Merged(row, r) ==
    [row EXCEPT !.sources = IF Contains(@, r.source) THEN @ ELSE Append(@, r.source),
                !.facts = Fill(@, Facts(r))]

\* The ids of the rows that the SELECT by scan, method and url finds; a slip
\* would be to look for the source as well.
ExistingOfSource(r) ==
    {i \in DOMAIN endpoints : endpoints[i].key = r.key /\ Contains(endpoints[i].sources, r.source)}
Existing(r) == {i \in DOMAIN endpoints : endpoints[i].key = r.key}

Init ==
    /\ scan = "absent"
    /\ endpoints = <<>>
    /\ parameters = {}
    /\ errors = 0
    /\ count = 0
    /\ reported = <<>>

-----------------------------------------------------------------------------
CreateScan ==
    /\ scan = "absent"
    /\ scan' = "open"
    /\ UNCHANGED <<endpoints, parameters, errors, count, reported>>

Report(r) == Len(reported) < MaxReports /\ reported' = Append(reported, r)

\* add_endpoint, is_new = TRUE: the pipeline counts the row, the agent layer,
\* which writes after finish_scan, does not.
InsertEndpoint(r) ==
    /\ scan # "absent"
    /\ Existing(r) = {}
    /\ Report(r)
    /\ endpoints' = Append(endpoints, NewRow(r))
    /\ count' = IF scan = "finished" THEN count ELSE count + 1
    /\ UNCHANGED <<scan, parameters, errors>>

\* add_endpoint, is_new = FALSE.
MergeEndpoint(r) ==
    /\ scan # "absent"
    /\ Report(r)
    /\ \E i \in Existing(r) : endpoints' = [endpoints EXCEPT ![i] = Merged(@, r)]
    /\ UNCHANGED <<scan, parameters, errors, count>>

\* INSERT OR IGNORE: the first report of a parameter of an endpoint stays.
ParametersOf(i) == {p \in parameters : p.endpoint = i}
AddParameter(i, p, s) ==
    /\ i \in DOMAIN endpoints
    /\ \A q \in ParametersOf(i) : q.param # p
    /\ parameters' = parameters \union {[endpoint |-> i, param |-> p, source |-> s]}
    /\ UNCHANGED <<scan, endpoints, errors, count, reported>>

\* add_secret, unless the endpoint has one with the digest already.
AddSecret(i, d) ==
    /\ i \in DOMAIN endpoints
    /\ ~Contains(endpoints[i].secrets, d)
    /\ endpoints' = [endpoints EXCEPT ![i].secrets = Append(@, d)]
    /\ UNCHANGED <<scan, parameters, errors, count, reported>>

LogError ==
    /\ scan # "absent" /\ errors < MaxErrors
    /\ errors' = errors + 1
    /\ UNCHANGED <<scan, endpoints, parameters, count, reported>>

\* finish_scan; the agent layer may add endpoints after it.
FinishScan ==
    /\ scan = "open"
    /\ scan' = "finished"
    /\ UNCHANGED <<endpoints, parameters, errors, count, reported>>

Next ==
    \/ CreateScan \/ LogError \/ FinishScan
    \/ \E r \in Reports : InsertEndpoint(r) \/ MergeEndpoint(r)
    \/ \E i \in DOMAIN endpoints :
          \/ \E p \in Params, s \in Sources : AddParameter(i, p, s)
          \/ \E d \in Digests : AddSecret(i, d)

Spec == Init /\ [][Next]_vars

-----------------------------------------------------------------------------
\* One row for each endpoint, however many tools report it, one parameter row
\* for each name and location of an endpoint and one secret for each digest;
\* while the pipeline runs, the counter of its max_endpoints budget is the number
\* of rows.
NothingTwice ==
    /\ \A i, j \in DOMAIN endpoints : endpoints[i].key = endpoints[j].key => i = j
    /\ \A p, q \in parameters : p.endpoint = q.endpoint /\ p.param = q.param => p = q
    /\ \A i \in DOMAIN endpoints :
          IsInjective(endpoints[i].sources) /\ IsInjective(endpoints[i].secrets)
    /\ scan # "finished" => count = Len(endpoints)

\* The reports of an endpoint that knew a column.
Knowing(reports, key, column) ==
    {n \in DOMAIN reports : reports[n].key = key /\ Facts(reports[n])[column] # Unknown}

\* A row has every source of its endpoint, and of each column the value of the
\* last report that knew it.
Tells(row, reports) ==
    /\ ToSet(row.sources) = {r.source : r \in {q \in ToSet(reports) : q.key = row.key}}
    /\ \A c \in Columns : LET known == Knowing(reports, row.key, c) IN
          \/ known = {} /\ row.facts[c] = Unknown
          \/ \E n \in known : /\ \A m \in known : m <= n
                             /\ row.facts[c] = Facts(reports[n])[c]

\* Every endpoint that was reported has a row, and a row tells all that was
\* reported of its endpoint.
RowsTellAll ==
    /\ \A r \in ToSet(reported) : \E i \in DOMAIN endpoints : endpoints[i].key = r.key
    /\ \A i \in DOMAIN endpoints : Tells(endpoints[i], reported)

\* The signature of a row is that of the response its status is from, although
\* the columns are filled one by one from several reports.
Signed(facts) ==
    IF facts["status"] = Unknown THEN facts["sig"] = Unknown
    ELSE facts["sig"] # Unknown /\ facts["sig"][1] = facts["status"]
SignatureOfStatus == \A i \in DOMAIN endpoints : Signed(endpoints[i].facts)
=============================================================================
