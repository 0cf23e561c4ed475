----------------------------- MODULE ServedScans -----------------------------
(***************************************************************************)
(* The web UI's jobs and scans started from the command line, on one       *)
(* machine with one set of containers.  A job's run_scan, two steps of     *)
(* WebJobs, is here what it does to the environment: compose up, tool      *)
(* commands, compose down.  A scan from the command line does the same in  *)
(* a process of its own, where no run_lock holds it back.                  *)
(***************************************************************************)
EXTENDS WebJobs

CONSTANTS CliScans, Tools, FileTools, MaxCalls

ASSUME ServedAssumption ==
    /\ CliScans \intersect Jobs = {} /\ {"server", "none"} \intersect (Jobs \union CliScans) = {}
    /\ "none" \notin Tools /\ FileTools \subseteq Tools /\ MaxCalls \in Nat

VARIABLES active, running, orphans, place, call, calls, temp, trouble

Scans == Jobs \union CliScans
ProcessOf == [s \in Scans |-> IF s \in Jobs THEN "server" ELSE s]

Env == INSTANCE ToolEnvironment

environment == <<active, running, orphans, place, call, calls, temp, trouble>>
servedVars == <<vars, environment>>

-----------------------------------------------------------------------------
ServedInit == Init /\ Env!Init

Entered(s) == Env!NoDocker(s) \/ Env!ComposeUp(s) \/ Env!ComposeUpFails(s)
Left(s) == Env!ComposeDown(s) \/ Env!ComposeDownFails(s)

\* The steps of a job around its scan.
JobGoesOn(j) ==
    /\ Validate(j) \/ StartAgent(j) \/ LeaveLock(j) \/ WriteReports(j) \/ Publish(j) \/ ReportError(j)
    /\ UNCHANGED environment

JobPostedOrRaises(j) ==
    /\ Post(j) \/ (phase[j] # "scanning" /\ Raise(j))
    /\ UNCHANGED environment

JobEnters(j) == StartScan(j) /\ Entered(j)

\* run_scan returns: the stages are through, and the containers were left.
JobLeaves(j) ==
    /\ FinishScan(j)
    /\ Left(j) /\ place'[j] = "left"

\* A slip: an exception passes by the ExitStack.
JobRaisesPast(j) ==
    /\ phase[j] = "scanning" /\ Raise(j)
    /\ Env!Idle(j) /\ place' = [place EXCEPT ![j] = "broken"]
    /\ active' = [active EXCEPT !["server"] = "none"]
    /\ UNCHANGED <<containers, running, orphans, call, calls, temp, trouble>>

\* An exception: what was entered is left.  A timeout of `compose down' takes the
\* place of the exception, and _run_job does not catch it.
JobRaises(j) ==
    /\ phase[j] = "scanning" /\ Raise(j)
    /\ IF place[j] = "in"
       THEN Left(j) /\ containers' = FALSE /\ (place'[j] = "broken" => phase'[j] = "died")
       ELSE UNCHANGED <<containers, environment>>

JobWorks(j) == Env!Working(j) /\ UNCHANGED vars

\* A scan of the command line: each ends with its process.
CliRuns(c) == (Entered(c) \/ Env!Working(c) \/ Left(c)) /\ UNCHANGED vars

Orphaned == Env!OrphanEnds /\ UNCHANGED vars

ServedNext ==
    \/ \E j \in Jobs : JobPostedOrRaises(j) \/ JobGoesOn(j) \/ JobEnters(j) \/ JobWorks(j)
                      \/ JobLeaves(j) \/ JobRaises(j)
    \/ \E c \in CliScans : CliRuns(c)
    \/ Orphaned

\* A thread goes on, compose commands end, and a tool command's timeout comes;
\* that a command ends by itself is not assumed, nor that a scan calls a tool.
Timeout(s) == Env!TimesOut(s) /\ UNCHANGED vars
ServedSpec ==
    /\ ServedInit /\ [][ServedNext]_servedVars
    /\ \A j \in Jobs :
          /\ WF_servedVars(JobGoesOn(j))
          /\ WF_servedVars(JobEnters(j))
          /\ WF_servedVars(JobLeaves(j) \/ JobRaises(j))
          /\ WF_servedVars(Timeout(j))

-----------------------------------------------------------------------------
\* "Recon tools run only inside Docker -- there is no host-binary mode": although
\* run_command runs a tool on the host whenever _ACTIVE is None, and every scan
\* that ends sets it to None, no scan's command ever finds it so.  Nor do its
\* containers go while it uses them, whatever the other jobs of its process do;
\* only a scan of another process, which the lock does not hold back, takes them.
Undisturbed(s) == \A other \in Scans : ProcessOf[other] # ProcessOf[s] => place[other] = "before"
ToolsInContainers ==
    \A s \in Scans :
        /\ call[s].at # "host"
        /\ place[s] = "in" /\ Undisturbed(s) => running = Tools

\* Containers, and commands left behind in them by a timeout, outlive their scan
\* only after a compose command failed, and only until the next one that tears
\* the stack down.  The temporary files of ffuf and arjun go with their call.
LeftoversExplained ==
    /\ ~trouble => /\ running # {} => \E s \in Scans : place[s] = "in"
                   /\ \A o \in orphans : place[o[1]] = "in"
    /\ \A s \in temp : ~Env!Idle(s)
=============================================================================
