----------------------------- MODULE SpecReader -----------------------------
(***************************************************************************)
(* How one specification document of a target becomes rows: walk_spec of   *)
(* apispec.py reads its paths operation by operation, and then             *)
(* _stage_api_specs records what is in scope.                              *)
(*                                                                         *)
(* A document comes from the target, and may hold anything where a string  *)
(* or an object is due ("number" below).  Servers are absolute or relative *)
(* references; all absolute ones are taken to be in scope.                 *)
(***************************************************************************)
EXTENDS Integers, SequencesExt

CONSTANT Docs   \* the documents that the target may serve

VARIABLES
    at,          \* where the reader, or the stage, stands
    doc,
    item, entry, \* the path item and the entry of it that is read next
    endpoints,   \* what walk_spec has expanded
    operations,  \* operation_count
    recorded,    \* the operations recorded by the stage, with their parameters
    surface      \* the operations that api_surfaces promises

vars == <<at, doc, item, entry, endpoints, operations, recorded, surface>>

-----------------------------------------------------------------------------
\* The entries of a path item that are operations, and those with a verb to record.
OperationKeys == {"get", "put", "post", "delete", "patch", "options", "head", "trace"}
Recordable == OperationKeys \ {"trace"}

\* The base URLs: what is a string of `servers`, or the schemes of Swagger 2.
BaseUrls(d) == SelectSeq(d.servers, LAMBDA s : s # "number")
Base(d) == IF BaseUrls(d) = <<>> THEN "none" ELSE Head(BaseUrls(d))

\* A reference is followed once: one to a reference, or to nothing, has no name.
Named(node) == node.ref \in {"none", "direct"} /\ node.name # "number"
Located(node) == node.in \in {"query", "path", "header", "body"}

\* A slip: parameters are told apart by name alone.
AddParamByName(params, p) == IF p.name \in {q.name : q \in ToSet(params)} THEN params ELSE Append(params, p)
\* One for each name and location.
AddParam(params, p) == IF p \in ToSet(params) THEN params ELSE Append(params, p)

\* What an operation declares: its parameters, then the properties of its request body.
Declared(op) ==
    op.params \o [i \in DOMAIN op.body |-> [ref |-> "none", name |-> op.body[i], in |-> "body"]]

AddNode(params, node) ==
    IF Named(node) /\ Located(node) THEN AddParam(params, [name |-> node.name, in |-> node.in])
    ELSE params

\* One parameter of each name and location, in the order of their first mention.
ParamsOf(op) == FoldLeft(AddNode, <<>>, Declared(op))

Init ==
    /\ at = "reading" /\ doc \in Docs /\ item = 1 /\ entry = 1
    /\ endpoints = <<>> /\ operations = 0 /\ recorded = {} /\ surface = 0

\* Not a document that is walked: no such format, or a Postman collection.
Unrecognised ==
    /\ at = "reading" /\ doc.kind \notin {"openapi3", "swagger2"}
    /\ at' = "ended"
    /\ UNCHANGED <<doc, item, entry, endpoints, operations, recorded, surface>>

Walking ==
    /\ at = "reading" /\ doc.kind \in {"openapi3", "swagger2"}
    /\ item <= Len(doc.paths)
    /\ UNCHANGED <<doc, surface>>

\* The item is through, or it is no object under a string.
NextItem ==
    /\ Walking
    /\ doc.paths[item].path = "number" \/ entry > Len(doc.paths[item].entries)
    /\ item' = item + 1 /\ entry' = 1
    /\ UNCHANGED <<at, endpoints, operations, recorded>>

Entry == doc.paths[item].entries[entry]
AtEntry ==
    /\ Walking
    /\ doc.paths[item].path # "number" /\ entry <= Len(doc.paths[item].entries)
    /\ entry' = entry + 1 /\ UNCHANGED item

\* summary, parameters and the like, or an operation that is no object; TRACE is counted, though there is no such verb.
SkipEntry ==
    /\ AtEntry
    /\ Entry.key \notin Recordable \union {"number"}
    /\ operations' = IF Entry.key \in OperationKeys THEN operations + 1 ELSE operations
    /\ UNCHANGED <<at, endpoints, recorded>>

Expanded ==
    [base |-> Base(doc), path |-> doc.paths[item].path, method |-> Entry.key,
     params |-> ParamsOf(Entry)]

\* A key that is no string has no lower(); a blank name is refused by DiscoveredParam,
\* and a blank URL, of a blank path under no server, by DiscoveredEndpoint.
Breaks ==
    \/ Entry.key = "number"
    \/ \E p \in ToSet(ParamsOf(Entry)) : p.name = "blank"
    \/ Base(doc) = "none" /\ doc.paths[item].path = "blank"

ReadOperation ==
    /\ AtEntry /\ Entry.key \in Recordable /\ ~Breaks
    /\ endpoints' = Append(endpoints, Expanded) /\ operations' = operations + 1
    /\ UNCHANGED <<at, recorded>>

ReadRaises ==
    /\ AtEntry /\ Entry.key \in Recordable \union {"number"} /\ Breaks
    /\ at' = "raised"
    /\ UNCHANGED <<endpoints, operations, recorded>>

\* walk_spec returns; a document without endpoints is no API surface.
Walked ==
    /\ at = "reading" /\ doc.kind \in {"openapi3", "swagger2"} /\ item > Len(doc.paths)
    /\ at' = IF endpoints = <<>> THEN "ended" ELSE "recording"
    /\ surface' = Len(endpoints)
    /\ item' = 1
    /\ UNCHANGED <<doc, entry, endpoints, operations, recorded>>

\* The stage records the next endpoint, if its URL has a host that is in scope.
\* A slip: operations that the operator has not opted in to are left out.
RecordSafe ==
    /\ at = "recording" /\ item <= Len(endpoints)
    /\ recorded' = IF endpoints[item].base = "absolute" /\ endpoints[item].method = "get"
                   THEN recorded \union {endpoints[item]} ELSE recorded
    /\ item' = item + 1
    /\ UNCHANGED <<at, doc, entry, endpoints, operations, surface>>
Record ==
    /\ at = "recording" /\ item <= Len(endpoints)
    /\ recorded' = IF endpoints[item].base = "absolute" THEN recorded \union {endpoints[item]} ELSE recorded
    /\ item' = item + 1
    /\ UNCHANGED <<at, doc, entry, endpoints, operations, surface>>

Recorded ==
    /\ at = "recording" /\ item > Len(endpoints)
    /\ at' = "ended"
    /\ UNCHANGED <<doc, item, entry, endpoints, operations, recorded, surface>>

Next ==
    \/ Unrecognised \/ NextItem \/ SkipEntry \/ ReadOperation \/ ReadRaises \/ Walked
    \/ Record \/ Recorded

Spec == Init /\ [][Next]_vars

-----------------------------------------------------------------------------
\* All operations of a document, wherever they stand in it.
Operations(keys) ==
    UNION {{<<i, k>> : k \in {k \in DOMAIN doc.paths[i].entries : doc.paths[i].entries[k].key \in keys}} :
               i \in {i \in DOMAIN doc.paths : doc.paths[i].path # "number"}}

\* A document in the middle of which the reader fails leaves no rows and no promise
\* of rows: the walk is over before the stage records anything.  When the stage
\* has ended, each operation of the document has been counted, each with a verb to
\* record has become one endpoint under its own verb, and those under an absolute
\* server are all recorded, the state-changing ones too.  Under any other server
\* the surface promises operations of which none is recorded.
OperationsRecorded ==
    /\ at \in {"reading", "raised"} => recorded = {} /\ surface = 0
    /\ at = "ended" /\ doc.kind \in {"openapi3", "swagger2"} =>
        LET ops == Operations(Recordable)
        IN  /\ operations = Cardinality(Operations(OperationKeys))
            /\ surface = Cardinality(ops)
            /\ {<<e.path, e.method>> : e \in recorded} =
               IF Base(doc) = "absolute"
               THEN {<<doc.paths[o[1]].path, doc.paths[o[1]].entries[o[2]].key>> : o \in ops}
               ELSE {}

\* An operation keeps every parameter that it declares, one of each name and
\* location, though not more of one name in one location, and gets no other.
OwnParams ==
    at = "recording" =>
        \A o \in Operations(Recordable) :
            LET op == doc.paths[o[1]].entries[o[2]]
                own == {n \in ToSet(op.params) : Named(n) /\ Located(n)}
            IN  \E e \in ToSet(endpoints) :
                /\ e.path = doc.paths[o[1]].path /\ e.method = op.key
                /\ IsInjective(e.params)
                /\ ToSet(e.params) =
                      {[name |-> n.name, in |-> n.in] : n \in own} \union
                      {[name |-> b, in |-> "body"] : b \in ToSet(op.body) \ {"number"}}
=============================================================================
