------------------------------ MODULE WebJobs ------------------------------
(***************************************************************************)
(* The local web UI of reconnaissance/web.py: jobs posted by browsers, one *)
(* daemon thread per job, a lock that lets one scan run at a time, and GET *)
(* handlers that read a job's fields while its thread writes them.         *)
(*                                                                         *)
(* run_scan and the agent layer are one step each (ScanPipeline is their   *)
(* detail); an exception of theirs either is of a class that _run_job      *)
(* catches or is not (subprocess.TimeoutExpired of a compose command,      *)
(* sqlite3.Error, OverflowError, the SDK's own errors).                    *)
(***************************************************************************)
EXTENDS Integers, Sequences, FiniteSets

CONSTANTS
    Jobs,      \* job ids
    Viewers,   \* browsers' GET requests
    Agents,    \* the jobs that were posted with the agent option
    Escapes    \* whether exceptions outside the caught classes happen

NoJob == "nobody"

ASSUME JobsAssumption ==
    IsFiniteSet(Jobs) /\ NoJob \notin Jobs /\ Agents \subseteq Jobs /\ Escapes \in BOOLEAN

VARIABLES
    phase,       \* where the thread of each job stands
    set,         \* the fields of the job that have been assigned
    status,      \* job.status
    runLock,     \* the job that holds _STATE.run_lock, if any
    containers,  \* the tool containers are up
    scanRow,     \* the scan row of the job's database
    page,        \* what each viewer's request has come to
    viewing      \* the job it is about, if any

jobVars == <<phase, set, status, runLock, containers, scanRow>>
vars == <<jobVars, page, viewing>>

-----------------------------------------------------------------------------
Phases == {"none", "posted", "validated", "scanning", "scanned", "enriching", "reporting",
           "publishing", "failing", "ended", "died"}

\* The order of the assignments that end _run_job; a slip would be to set the
\* status first.
PublishStatusFirst == <<"status", "scan_id", "db_path", "report_path", "detail">>
PublishOrder == <<"scan_id", "db_path", "report_path", "status", "detail">>
FailOrder == <<"status", "detail">>

\* Between acquiring run_lock and releasing it.
InLock == {"scanning", "scanned", "enriching"}

Init ==
    /\ phase = [j \in Jobs |-> "none"]
    /\ set = [j \in Jobs |-> {}]
    /\ status = [j \in Jobs |-> "running"]
    /\ runLock = NoJob
    /\ containers = FALSE
    /\ scanRow = [j \in Jobs |-> "absent"]
    /\ page = [v \in Viewers |-> "idle"]
    /\ viewing = [v \in Viewers |-> NoJob]

Enter(j, from, to) == phase[j] = from /\ phase' = [phase EXCEPT ![j] = to]
Release(j) == runLock' = IF runLock = j THEN NoJob ELSE runLock

-----------------------------------------------------------------------------
(* The thread of a job. *)

\* do_POST registers the job and starts its thread.
Post(j) ==
    /\ Enter(j, "none", "posted")
    /\ UNCHANGED <<set, status, runLock, containers, scanRow, page, viewing>>

\* validate_target and the configuration.
Validate(j) ==
    /\ Enter(j, "posted", "validated")
    /\ UNCHANGED <<set, status, runLock, containers, scanRow, page, viewing>>

\* A slip: the scan is started without the lock.
StartScanUnlocked(j) ==
    /\ Enter(j, "validated", "scanning")
    /\ containers' = TRUE
    /\ scanRow' = [scanRow EXCEPT ![j] = "open"]
    /\ UNCHANGED <<set, status, runLock, page, viewing>>

\* The lock is taken and run_scan opens its row and the containers.
StartScan(j) ==
    /\ runLock = NoJob
    /\ Enter(j, "validated", "scanning")
    /\ runLock' = j
    /\ containers' = TRUE
    /\ scanRow' = [scanRow EXCEPT ![j] = "open"]
    /\ UNCHANGED <<set, status, page, viewing>>

\* A slip: the job shows its inventory as soon as the scan has returned.
FinishScanPublishing(j) ==
    /\ Enter(j, "scanning", "scanned")
    /\ containers' = FALSE
    /\ scanRow' = [scanRow EXCEPT ![j] = "finished"]
    /\ set' = [set EXCEPT ![j] = {"scan_id", "db_path"}]
    /\ UNCHANGED <<status, runLock, page, viewing>>

\* The containers are taken down and the row is finished.
FinishScan(j) ==
    /\ Enter(j, "scanning", "scanned")
    /\ containers' = FALSE
    /\ scanRow' = [scanRow EXCEPT ![j] = "finished"]
    /\ UNCHANGED <<set, status, runLock, page, viewing>>

\* The agent layer writes into the same inventory, still under the lock.
StartAgent(j) ==
    /\ j \in Agents
    /\ Enter(j, "scanned", "enriching")
    /\ UNCHANGED <<set, status, runLock, containers, scanRow, page, viewing>>

\* The agent layer ends, by itself or with an exception that _enrich swallows;
\* without the agent option the lock is given back at once.
LeaveLock(j) ==
    /\ IF j \in Agents THEN Enter(j, "enriching", "reporting") ELSE Enter(j, "scanned", "reporting")
    /\ Release(j)
    /\ UNCHANGED <<set, status, containers, scanRow, page, viewing>>

\* _write_reports has written both files.
WriteReports(j) ==
    /\ Enter(j, "reporting", "publishing")
    /\ UNCHANGED <<set, status, runLock, containers, scanRow, page, viewing>>

\* One assignment of a target list; threads may be switched in between.
Assign(j, order, outcome, here) ==
    /\ phase[j] = here
    /\ LET field == order[Cardinality(set[j]) + 1] IN
        /\ set' = [set EXCEPT ![j] = @ \union {field}]
        /\ status' = IF field = "status" THEN [status EXCEPT ![j] = outcome] ELSE status
    /\ phase' = IF Cardinality(set[j]) + 1 = Len(order) THEN [phase EXCEPT ![j] = "ended"] ELSE phase
    /\ UNCHANGED <<runLock, containers, scanRow, page, viewing>>

Publish(j) == Assign(j, PublishOrder, "done", "publishing")

ReportError(j) == Assign(j, FailOrder, "error", "failing")

\* A slip: a job that failed is put back to be tried again.
RaiseRetrying(j) ==
    /\ phase[j] \in {"posted", "scanning", "enriching", "reporting"}
    /\ phase' = [phase EXCEPT ![j] = IF @ = "scanning" THEN "posted" ELSE "failing"]
    /\ Release(j)
    /\ containers' \in IF phase[j] = "scanning" THEN BOOLEAN ELSE {containers}
    /\ UNCHANGED <<set, status, scanRow, page, viewing>>

\* An exception of a caught class outside the agent layer, or of any other class
\* wherever the thread stands: the `with` gives the lock back, and if a scan was
\* running its ExitStack takes the containers down or fails to.
Raise(j) ==
    /\ phase[j] \in {"posted", "scanning", "enriching", "reporting"}
    /\ \/ phase[j] # "enriching" /\ phase' = [phase EXCEPT ![j] = "failing"]
       \/ phase[j] # "posted" /\ Escapes /\ phase' = [phase EXCEPT ![j] = "died"]
    /\ Release(j)
    /\ containers' \in IF phase[j] = "scanning" THEN BOOLEAN ELSE {containers}
    /\ UNCHANGED <<set, status, scanRow, page, viewing>>

-----------------------------------------------------------------------------
(* A GET handler: /jobs/<id> reads the status, then the fields; /report/<id>  *)
(* reads the fields only.  Both then render the inventory.                    *)

Known(j) == phase[j] # "none"

OpenJobPage(v, j) ==
    /\ page[v] = "idle" /\ Known(j)
    /\ viewing' = [viewing EXCEPT ![v] = j]
    /\ page' = [page EXCEPT ![v] = CASE status[j] = "running" -> "refresh"
                                     [] status[j] = "error" -> "failed"
                                     [] status[j] = "done" -> "status_done"]
    /\ UNCHANGED jobVars

OpenReport(v, j) ==
    /\ page[v] = "idle" /\ Known(j)
    /\ viewing' = [viewing EXCEPT ![v] = j]
    /\ page' = [page EXCEPT ![v] = IF {"scan_id", "db_path"} \subseteq set[j]
                                   THEN "report" ELSE "no_report"]
    /\ UNCHANGED jobVars

ReadResults(v) ==
    /\ page[v] = "status_done"
    /\ page' = [page EXCEPT ![v] = IF {"scan_id", "db_path"} \subseteq set[viewing[v]]
                                   THEN "report" ELSE "no_results"]
    /\ UNCHANGED <<jobVars, viewing>>

ClosePage(v) ==
    /\ page[v] \notin {"idle", "status_done"}
    /\ page' = [page EXCEPT ![v] = "idle"]
    /\ viewing' = [viewing EXCEPT ![v] = NoJob]
    /\ UNCHANGED jobVars

-----------------------------------------------------------------------------
JobThread(j) ==
    \/ Validate(j) \/ StartScan(j) \/ FinishScan(j) \/ StartAgent(j)
    \/ LeaveLock(j) \/ WriteReports(j) \/ Publish(j) \/ ReportError(j)

Next ==
    \/ \E j \in Jobs : Post(j) \/ JobThread(j) \/ Raise(j)
    \/ \E v \in Viewers :
          \/ \E j \in Jobs : OpenJobPage(v, j) \/ OpenReport(v, j)
          \/ ReadResults(v) \/ ClosePage(v)

Spec == Init /\ [][Next]_vars

\* A started thread runs; a scan ends, by its budgets and timeouts.
FairSpec == Spec /\ \A j \in Jobs : WF_vars(JobThread(j))

-----------------------------------------------------------------------------
TypeOK ==
    /\ phase \in [Jobs -> Phases]
    /\ set \in [Jobs -> SUBSET {"scan_id", "db_path", "report_path", "status", "detail"}]
    /\ containers \in BOOLEAN
    /\ status \in [Jobs -> {"running", "done", "error"}]
    /\ runLock \in Jobs \union {NoJob}
    /\ scanRow \in [Jobs -> {"absent", "open", "finished"}]
    /\ page \in [Viewers -> {"idle", "refresh", "failed", "status_done", "report",
                              "no_report", "no_results"}]
    /\ viewing \in [Viewers -> Jobs \union {NoJob}]

\* One scan runs at a time, agent layer included, and the containers are there
\* for the scan that runs: no other job's teardown takes them away under it.
OneScanAtATime ==
    \A j \in Jobs :
        /\ phase[j] \in InLock => \A k \in Jobs \ {j} : phase[k] \notin InLock
        /\ phase[j] = "scanning" => containers

\* A report is rendered only from an inventory that no one writes any more: its
\* scan is finished and its agent layer has ended.
ServedReportsFinal ==
    \A v \in Viewers :
        page[v] = "report" => /\ scanRow[viewing[v]] = "finished"
                              /\ phase[viewing[v]] \in {"publishing", "ended"}

\* A viewer who is told that a job is done finds its results.
DoneHasResults == \A v \in Viewers : page[v] # "no_results"

\* The threads implement JobQueue: what the readers of _STATE can tell of the jobs
\* changes as it promises, through every exception and every order of threads.
JobState(j) ==
    CASE phase[j] = "none" -> "unknown"
      [] phase[j] \in {"posted", "validated"} -> "waiting"
      [] phase[j] \in InLock -> "working"
      [] phase[j] = "died" -> "lost"
      [] phase[j] = "failing" /\ status[j] = "running" -> "failing"
      [] phase[j] \in {"reporting", "publishing", "ended"} /\ status[j] = "running" -> "worked"
      [] OTHER -> status[j]
Queue == INSTANCE JobQueue WITH state <- [j \in Jobs |-> JobState(j)]
QueueSpec == Queue!Spec

\* Whatever other jobs raise, a posted job's thread comes to its end.
QueueMoves == \A j \in Jobs : (phase[j] = "posted") ~> (phase[j] \in {"ended", "died"})

\* The page of a running job "refreshes automatically" until the job is done or
\* has failed: a posted job does not stay running for ever.
StatusSettles == \A j \in Jobs : (phase[j] = "posted") ~> (status[j] # "running")
=============================================================================
