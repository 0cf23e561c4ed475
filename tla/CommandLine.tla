----------------------------- MODULE CommandLine -----------------------------
(***************************************************************************)
(* main of reconnaissance/__main__.py, run again and again for one target: *)
(* the database and the report file stay, the process and the two proxies  *)
(* (the scan's, and the agent layer's own) are new each time.  run_scan    *)
(* and enrich are here what they send, what they store and how they end.   *)
(***************************************************************************)
EXTENDS Integers

CONSTANTS
    MaxRequests,  \* --max-requests
    Agent,        \* --agent
    Reasons,      \* TerminationReason
    MaxRuns, MaxRows  \* bounds: runs of the program, endpoints of a scan

ASSUME CommandLineAssumption ==
    /\ {MaxRequests, MaxRuns, MaxRows} \subseteq Nat /\ Agent \in BOOLEAN
    /\ {"converged", "budget_exhausted", "killswitch"} = Reasons

VARIABLES
    at,      \* where main stands
    exit,    \* how the last process ended
    run,     \* which run this is; also the id of its scan
    scan,    \* the scan rows: absent, open, or the reason they were finished with
    rows,    \* the number of endpoint rows of each scan
    sent,    \* the requests that the run's two proxies have counted
    result,  \* the ScanResult of the run
    report,  \* the report file: the scan it is about, its count, its warning
    warned   \* the run printed the warning

vars == <<at, exit, run, scan, rows, sent, result, report, warned>>

-----------------------------------------------------------------------------
RunIds == 1 .. MaxRuns
NoResult == [endpoints |-> 0, reason |-> "none"]
NoReport == [scan |-> 0, endpoints |-> 0, partial |-> FALSE]

Init ==
    /\ at = "exited" /\ exit = "none" /\ run = 0
    /\ scan = [r \in RunIds |-> "absent"] /\ rows = [r \in RunIds |-> 0]
    /\ sent = [scan |-> 0, layer |-> 0]
    /\ result = NoResult /\ report = NoReport /\ warned = FALSE

\* The program is started (again).
Start ==
    /\ at = "exited" /\ run < MaxRuns
    /\ at' = "started" /\ exit' = "none" /\ run' = run + 1
    /\ sent' = [scan |-> 0, layer |-> 0]
    /\ result' = NoResult /\ warned' = FALSE
    /\ UNCHANGED <<scan, rows, report>>

Goto(from, to) == at = from /\ at' = to
Exits(code) ==
    /\ at' = "exited" /\ exit' = code
    /\ UNCHANGED <<run, scan, rows, sent, result, report, warned>>

\* validate_target refuses the URL, or Scope an empty host.
Refuse == at = "started" /\ (Exits("2") \/ Exits("traceback"))

OpenScan ==
    /\ Goto("started", "scanning")
    /\ scan' = [scan EXCEPT ![run] = "open"]
    /\ UNCHANGED <<exit, run, rows, sent, result, report, warned>>

\* A proxy counts a request, which may bring a new endpoint.
Request(who) ==
    /\ sent[who] < MaxRequests
    /\ sent' = [sent EXCEPT ![who] = @ + 1]
    /\ rows' \in {rows, [rows EXCEPT ![run] = IF @ < MaxRows THEN @ + 1 ELSE @]}
    /\ UNCHANGED <<at, exit, run, scan, result, report, warned>>

ScanRequest == at = "scanning" /\ Request("scan")

\* main catches a RuntimeError of run_scan, and nothing else.
ScanRaises == at = "scanning" /\ (Exits("1") \/ Exits("traceback"))

FinishScan ==
    /\ Goto("scanning", "scanned")
    /\ \E reason \in Reasons :
          /\ reason = "killswitch" => sent.scan >= MaxRequests
          /\ scan' = [scan EXCEPT ![run] = reason]
          /\ result' = [endpoints |-> rows[run], reason |-> reason]
    /\ UNCHANGED <<exit, run, rows, sent, report, warned>>

StartLayer ==
    /\ Agent /\ Goto("scanned", "enriching")
    /\ UNCHANGED <<exit, run, scan, rows, sent, result, report, warned>>

LayerRequest == at = "enriching" /\ Request("layer")

\* An error of the SDK, the store or the proxy: _run_agent catches ImportError only.
LayerRaises == at = "enriching" /\ Exits("traceback")

\* The layer is through, was not asked for, or its SDK is not installed.
LayerDone ==
    /\ Goto("enriching", "reporting") \/ Goto("scanned", "reporting")
    /\ UNCHANGED <<exit, run, scan, rows, sent, result, report, warned>>

Partial(reason) == reason \in {"budget_exhausted", "killswitch"}

\* Slips: the report is built from the result; a reason is missing from the set.
WriteReportOfResult ==
    /\ Goto("reporting", "printing")
    /\ report' = [scan |-> run, endpoints |-> result.endpoints, partial |-> Partial(result.reason)]
    /\ UNCHANGED <<exit, run, scan, rows, sent, result, warned>>
WriteReportKillswitchOnly ==
    /\ Goto("reporting", "printing")
    /\ report' = [scan |-> run, endpoints |-> rows[run], partial |-> scan[run] = "killswitch"]
    /\ UNCHANGED <<exit, run, scan, rows, sent, result, warned>>

\* build_report reads the scan again from the store; the file is overwritten.
WriteReport ==
    /\ Goto("reporting", "printing")
    /\ report' = [scan |-> run, endpoints |-> rows[run], partial |-> Partial(scan[run])]
    /\ UNCHANGED <<exit, run, scan, rows, sent, result, warned>>

PrintSummary ==
    /\ Goto("printing", "exited")
    /\ exit' = "0"
    /\ warned' = Partial(result.reason)
    /\ UNCHANGED <<run, scan, rows, sent, result, report>>

\* The process is killed, or raises where nothing is caught (a file cannot be written).
Die == at # "exited" /\ Exits("killed")

Next ==
    \/ Start \/ Refuse \/ OpenScan \/ ScanRequest \/ ScanRaises \/ FinishScan
    \/ StartLayer \/ LayerRequest \/ LayerRaises \/ LayerDone \/ WriteReport \/ PrintSummary \/ Die

Spec == Init /\ [][Next]_vars

-----------------------------------------------------------------------------
\* The exit code 0 is kept for a run whose report file is that of its own scan,
\* with every endpoint stored for it, by the agent layer too, although earlier
\* runs of the target wrote to the same database and the same file.
ZeroMeansReported ==
    exit = "0" => /\ scan[run] \in Reasons
                  /\ report.scan = run /\ report.endpoints = rows[run]

\* A truncated scan is nowhere shown as a complete one: not by the report file,
\* whichever run wrote it, and not by the messages of a run that exits with 0.
PartialSaid ==
    /\ report.scan # 0 => (report.partial <=> scan[report.scan] # "converged")
    /\ exit = "0" => (warned <=> report.partial)
==============================================================================
