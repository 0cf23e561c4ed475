-------------------------- MODULE CommandLineProofs --------------------------
(***************************************************************************)
(* The command line for every number of runs and every limit.              *)
(*                                                                         *)
(* Both properties relate a run to files that outlive it, so the invariant *)
(* says what each stage knows of the scan row (Progress), that no run has  *)
(* touched a later one's row (LaterRunsAbsent), and that the report file,  *)
(* whoever wrote it, is about a finished scan (Reported).                  *)
(***************************************************************************)
EXTENDS CommandLine, TLAPS

CommandLineTypes ==
    /\ at \in {"exited", "started", "scanning", "scanned", "enriching", "reporting", "printing"}
    /\ run \in 0 .. MaxRuns
    /\ at # "exited" => run # 0 /\ exit = "none"
    /\ scan \in [RunIds -> Reasons \union {"absent", "open"}]

Progress ==
    /\ at = "started" => scan[run] = "absent"
    /\ at = "scanning" => scan[run] = "open"
    /\ at \in {"scanned", "enriching", "reporting", "printing"} =>
          scan[run] \in Reasons /\ result.reason = scan[run]
    /\ at = "printing" => report.scan = run /\ report.endpoints = rows[run]

LaterRunsAbsent == \A r \in RunIds : r > run => scan[r] = "absent"

Reported ==
    report.scan # 0 => /\ report.scan \in RunIds /\ scan[report.scan] \in Reasons
                       /\ report.partial <=> scan[report.scan] # "converged"

Exited0 ==
    exit = "0" => /\ run # 0 /\ scan[run] \in Reasons
                  /\ report.scan = run /\ report.endpoints = rows[run]
                  /\ warned <=> report.partial

CommandLineInv == CommandLineTypes /\ Progress /\ LaterRunsAbsent /\ Reported /\ Exited0

-----------------------------------------------------------------------------
\* The warning is due for every reason but one.
LEMMA PartialReasons ==
    ASSUME NEW reason \in Reasons
    PROVE  Partial(reason) <=> reason # "converged"
BY CommandLineAssumption DEF Partial

LEMMA InitCommandLineInv == Init => CommandLineInv
BY CommandLineAssumption DEF Init, CommandLineInv, CommandLineTypes, Progress, LaterRunsAbsent,
   Reported, Exited0, NoReport, RunIds

\* The process ends in another way than by printing its summary.
LEMMA ExitsStep ==
    ASSUME CommandLineInv, NEW code, code # "0", Exits(code)
    PROVE  CommandLineInv'
BY DEF Exits, CommandLineInv, CommandLineTypes, Progress, LaterRunsAbsent, Reported, Exited0

LEMMA StartStep ==
    ASSUME CommandLineInv, Start
    PROVE  CommandLineInv'
<1>1. run + 1 \in RunIds /\ run' = run + 1 /\ run' # 0 /\ run \in Nat
      BY CommandLineAssumption DEF Start, CommandLineInv, CommandLineTypes, RunIds
<1>2. UNCHANGED <<scan, rows, report>> /\ at' = "started" /\ exit' = "none" BY DEF Start
<1>3. CommandLineTypes' BY <1>1, <1>2 DEF CommandLineInv, CommandLineTypes, RunIds
<1>4. Progress' BY <1>1, <1>2 DEF CommandLineInv, LaterRunsAbsent, Progress
<1>5. LaterRunsAbsent' BY <1>1, <1>2 DEF CommandLineInv, LaterRunsAbsent, RunIds
<1>6. Reported' /\ Exited0' BY <1>2 DEF CommandLineInv, Reported, Exited0
<1> QED BY <1>3, <1>4, <1>5, <1>6 DEF CommandLineInv

\* The row of the run is written: no report is about it yet.
LEMMA RowStep ==
    ASSUME CommandLineInv, OpenScan \/ FinishScan
    PROVE  CommandLineInv'
<1>1. at \in {"started", "scanning"} /\ run \in RunIds /\ scan[run] \in {"absent", "open"}
      BY DEF OpenScan, FinishScan, Goto, CommandLineInv, CommandLineTypes, Progress, RunIds
<1>2. UNCHANGED <<exit, run, rows, report>> BY DEF OpenScan, FinishScan
<1>3. PICK to \in Reasons \union {"open"} : scan' = [scan EXCEPT ![run] = to]
      BY DEF OpenScan, FinishScan
<1>4. \A r \in RunIds : scan'[r] = IF r = run THEN to ELSE scan[r]
      BY <1>3 DEF CommandLineInv, CommandLineTypes
<1>5. CommandLineTypes'
      BY <1>1, <1>2, <1>3 DEF CommandLineInv, CommandLineTypes, OpenScan, FinishScan, Goto
<1>6. Progress'
  <2>1. CASE OpenScan
    <3>1. at' = "scanning" /\ scan' = [scan EXCEPT ![run] = "open"]
          BY <2>1 DEF OpenScan, Goto
    <3>2. scan'[run'] = "open" BY <1>1, <1>2, <3>1 DEF CommandLineInv, CommandLineTypes
    <3> QED BY <3>1, <3>2 DEF Progress
  <2>2. CASE FinishScan
    <3>1. PICK reason \in Reasons : /\ scan' = [scan EXCEPT ![run] = reason]
                                    /\ result' = [endpoints |-> rows[run], reason |-> reason]
          BY <2>2 DEF FinishScan
    <3>2. at' = "scanned" BY <2>2 DEF FinishScan, Goto
    <3>3. scan'[run'] = reason BY <1>1, <1>2, <3>1 DEF CommandLineInv, CommandLineTypes
    <3>4. result'.reason = reason BY <3>1
    <3> QED BY <3>1, <3>2, <3>3, <3>4 DEF Progress
  <2> QED BY <2>1, <2>2
<1>7. LaterRunsAbsent'
      BY <1>1, <1>2, <1>4 DEF CommandLineInv, LaterRunsAbsent, RunIds
<1>8. Reported'
  <2>1. "absent" \notin Reasons /\ "open" \notin Reasons BY CommandLineAssumption
  <2>2. report.scan # 0 => report.scan # run BY <1>1, <2>1 DEF CommandLineInv, Reported
  <2> QED BY <1>2, <1>4, <2>2 DEF CommandLineInv, Reported
<1>9. Exited0' BY <1>1, <1>2 DEF CommandLineInv, CommandLineTypes, Exited0
<1> QED BY <1>5, <1>6, <1>7, <1>8, <1>9 DEF CommandLineInv

\* A request may add a row while no report of the run is final.
LEMMA RequestStep ==
    ASSUME CommandLineInv, ScanRequest \/ LayerRequest
    PROVE  CommandLineInv'
<1>1. at \in {"scanning", "enriching"} /\ UNCHANGED <<at, exit, run, scan, result, report, warned>>
      BY DEF ScanRequest, LayerRequest, Request
<1> QED
  BY <1>1 DEF CommandLineInv, CommandLineTypes, Progress, LaterRunsAbsent, Reported, Exited0

\* Steps from one stage to the next that write nothing.
LEMMA LayerStep ==
    ASSUME CommandLineInv, StartLayer \/ LayerDone
    PROVE  CommandLineInv'
<1>1. /\ at \in {"scanned", "enriching"} /\ at' \in {"enriching", "reporting"}
      /\ UNCHANGED <<exit, run, scan, rows, result, report, warned>>
      BY DEF StartLayer, LayerDone, Goto
<1> QED
  BY <1>1 DEF CommandLineInv, CommandLineTypes, Progress, LaterRunsAbsent, Reported, Exited0

LEMMA WriteReportStep ==
    ASSUME CommandLineInv, WriteReport
    PROVE  CommandLineInv'
<1>1. /\ at = "reporting" /\ at' = "printing"
      /\ report' = [scan |-> run, endpoints |-> rows[run], partial |-> Partial(scan[run])]
      /\ UNCHANGED <<exit, run, scan, rows, sent, result, warned>>
      BY DEF WriteReport, Goto
<1>2. run \in RunIds /\ exit = "none" /\ scan[run] \in Reasons
      BY <1>1 DEF CommandLineInv, CommandLineTypes, Progress, RunIds
<1>3. /\ report'.scan = run /\ report'.endpoints = rows[run]
      /\ report'.partial <=> scan[run] # "converged"
      BY <1>1, <1>2, PartialReasons
<1> QED
  BY <1>1, <1>2, <1>3 DEF CommandLineInv, CommandLineTypes, Progress, LaterRunsAbsent, Reported,
     Exited0

\* The summary warns for the reason of the result, the report for that of the row.
LEMMA PrintSummaryStep ==
    ASSUME CommandLineInv, PrintSummary
    PROVE  CommandLineInv'
<1>1. /\ at = "printing" /\ at' = "exited" /\ warned' = Partial(result.reason)
      /\ UNCHANGED <<run, scan, rows, sent, result, report>>
      BY DEF PrintSummary, Goto
<1>2. /\ run # 0 /\ scan[run] \in Reasons /\ result.reason = scan[run]
      /\ report.scan = run /\ report.endpoints = rows[run]
      BY <1>1 DEF CommandLineInv, CommandLineTypes, Progress
<1>3. warned' <=> report.partial
      BY <1>1, <1>2, PartialReasons DEF CommandLineInv, Reported
<1> QED
  BY <1>1, <1>2, <1>3 DEF CommandLineInv, CommandLineTypes, Progress, LaterRunsAbsent, Reported,
     Exited0

\* Every step of the program keeps the invariant.
LEMMA NextCommandLineInv == CommandLineInv /\ [Next]_vars => CommandLineInv'
<1> SUFFICES ASSUME CommandLineInv, [Next]_vars PROVE CommandLineInv' OBVIOUS
<1>1. CASE UNCHANGED vars
  BY <1>1 DEF vars, CommandLineInv, CommandLineTypes, Progress, LaterRunsAbsent, Reported, Exited0
<1>2. CASE Refuse \/ ScanRaises \/ LayerRaises \/ Die
  <2>1. PICK code \in {"1", "2", "traceback", "killed"} : Exits(code)
        BY <1>2 DEF Refuse, ScanRaises, LayerRaises, Die
  <2> QED BY <2>1, ExitsStep
<1>3. CASE Start BY <1>3, StartStep
<1>4. CASE OpenScan \/ FinishScan BY <1>4, RowStep
<1>5. CASE ScanRequest \/ LayerRequest BY <1>5, RequestStep
<1>6. CASE StartLayer \/ LayerDone BY <1>6, LayerStep
<1>7. CASE WriteReport BY <1>7, WriteReportStep
<1>8. CASE PrintSummary BY <1>8, PrintSummaryStep
<1> QED BY <1>1, <1>2, <1>3, <1>4, <1>5, <1>6, <1>7, <1>8 DEF Next

-----------------------------------------------------------------------------
\* The inductive invariant holds over any number of runs of main.
THEOREM CommandLineInvariant == Spec => []CommandLineInv
BY InitCommandLineInv, NextCommandLineInv, PTL DEF Spec

\* An exit code of 0 means the report file is that of this run (main).
THEOREM ZeroMeansItsReport == Spec => []ZeroMeansReported
<1>1. CommandLineInv => ZeroMeansReported BY DEF CommandLineInv, Exited0, ZeroMeansReported
<1> QED BY <1>1, CommandLineInvariant, PTL

\* A truncated scan is shown as one, by every report and every warning (build_report, main).
THEOREM TruncationIsSaid == Spec => []PartialSaid
<1>1. CommandLineInv => PartialSaid BY DEF CommandLineInv, Reported, Exited0, PartialSaid
<1> QED BY <1>1, CommandLineInvariant, PTL
==============================================================================
