------------------------------- MODULE Readers -------------------------------
(***************************************************************************)
(* A scan reads one thing at a time that it did not write: the answer of a *)
(* tool (ToolOutput) or a specification document (SpecReader).  Each       *)
(* behaviour is the reading of one of them; the other stands still.        *)
(***************************************************************************)
EXTENDS Integers, Sequences

CONSTANTS
    RowsOf,   \* for each tool the rows that it may write
    MaxRows,  \* bound: the rows of one answer
    Docs      \* the documents that the target may serve

IsSequence(s) == s \in Seq({s[i] : i \in DOMAIN s})

ASSUME ReadersAssumption ==
    /\ DOMAIN RowsOf = {"httpx", "katana", "ffuf", "arjun", "gau"} /\ MaxRows \in Nat
    /\ \A t \in DOMAIN RowsOf : \A r \in RowsOf[t] : IsSequence(r.names)
    /\ \A d \in Docs :
          /\ IsSequence(d.paths)
          /\ \A i \in DOMAIN d.paths :
                /\ IsSequence(d.paths[i].entries)
                /\ \A k \in DOMAIN d.paths[i].entries :
                      LET op == d.paths[i].entries[k] IN IsSequence(op.params) /\ IsSequence(op.body)

VARIABLES at, tool, read, outcome
Output == INSTANCE ToolOutput
rowVars == <<at, tool, read, outcome>>

VARIABLES place, doc, item, entry, endpoints, operations, recorded, surface
Document == INSTANCE SpecReader WITH at <- place
docVars == <<place, doc, item, entry, endpoints, operations, recorded, surface>>

-----------------------------------------------------------------------------
NoAnswer == at = "returned" /\ tool = "gau" /\ read = <<>> /\ outcome = Output!Nothing
NoDocument ==
    /\ place = "ended" /\ doc = [kind |-> "unknown", servers |-> <<>>, paths |-> <<>>]
    /\ item = 1 /\ entry = 1
    /\ endpoints = <<>> /\ operations = 0 /\ recorded = {} /\ surface = 0

ReadersInit == (Output!Init /\ NoDocument) \/ (NoAnswer /\ Document!Init)
ReadersNext == (Output!Next /\ UNCHANGED docVars) \/ (Document!Next /\ UNCHANGED rowVars)
ReadersSpec == ReadersInit /\ [][ReadersNext]_<<rowVars, docVars>>

-----------------------------------------------------------------------------
(* The properties of the two, stated there. *)

\* A row that says nothing usable takes nothing from the rows around it.
EveryUsableRow == Output!EveryUsableRow

\* What ends a scan is known, and no field that is missing or of another type does.
RaisedByItsRow == Output!RaisedByItsRow

\* Each operation of a document is counted, expanded and, under an absolute
\* server, recorded; a document that the reader fails on leaves no rows.
OperationsRecorded == Document!OperationsRecorded

\* An operation keeps every parameter that it declares, and gets no other.
OwnParams == Document!OwnParams
=============================================================================
