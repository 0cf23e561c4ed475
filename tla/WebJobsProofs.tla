---------------------------- MODULE WebJobsProofs ----------------------------
(***************************************************************************)
(* The safety of the job runner, for any number of jobs and viewers.       *)
(* OneScanAtATime and the two properties of the pages are not inductive:   *)
(* the first needs that the lock belongs to exactly the job whose thread   *)
(* is inside it, the others need how far each thread has come with the     *)
(* assignments that end it, and what a page in the making has read.        *)
(***************************************************************************)
EXTENDS ServedScans, FiniteSetTheorems, TLAPS

\* The lock belongs to the job inside it, whose containers are up while it scans.
LockHeld ==
    \A j \in Jobs :
        /\ phase[j] \in InLock <=> runLock = j
        /\ phase[j] = "scanning" => containers

\* The first n assignments of an order have been made; status is its at-th.
Written(order, n) == {order[k] : k \in 1 .. n}
Progress(j, order, at, outcome, n) ==
    /\ set[j] = Written(order, n)
    /\ status[j] = IF n >= at THEN outcome ELSE "running"

\* How far each job has come with its assignments.
Assigning == {"publishing", "failing", "ended"}
Progressed ==
    \A j \in Jobs :
        /\ phase[j] \notin Assigning => Progress(j, FailOrder, 1, "error", 0)
        /\ phase[j] = "publishing" => \E n \in 0 .. 4 : Progress(j, PublishOrder, 4, "done", n)
        /\ phase[j] = "failing" => \E n \in 0 .. 1 : Progress(j, FailOrder, 1, "error", n)
        /\ phase[j] = "ended" => \/ Progress(j, PublishOrder, 4, "done", 5)
                                 \/ Progress(j, FailOrder, 1, "error", 2)

\* A job that publishes, or has published, has finished its scan.
Results == {"scan_id", "db_path"}
ScanFinished ==
    \A j \in Jobs :
        (\/ phase[j] \in {"scanned", "enriching", "reporting", "publishing"}
         \/ phase[j] = "ended" /\ Results \subseteq set[j])
        => scanRow[j] = "finished"

\* What a page says is still so.
PagesTrue ==
    \A v \in Viewers :
        /\ page[v] \in {"status_done", "report"} => viewing[v] \in Jobs
        /\ page[v] = "status_done" => status[viewing[v]] = "done"
        /\ page[v] = "report" => Results \subseteq set[viewing[v]]
        /\ page[v] # "no_results"

JobsInv == TypeOK /\ LockHeld /\ Progressed /\ ScanFinished /\ PagesTrue
-----------------------------------------------------------------------------
(* Assignments. *)

\* One more assignment.
LEMMA WriteOne ==
    ASSUME NEW order, NEW n \in Nat,
           IsFiniteSet(Written(order, n)), Cardinality(Written(order, n)) = n,
           order[n + 1] \notin Written(order, n)
    PROVE  /\ Written(order, n + 1) = Written(order, n) \cup {order[n + 1]}
           /\ IsFiniteSet(Written(order, n + 1))
           /\ Cardinality(Written(order, n + 1)) = n + 1
<1>1. Written(order, n + 1) = Written(order, n) \cup {order[n + 1]}
  BY DEF Written
<1> QED
  BY <1>1, FS_AddElement

\* No assignment yet.
LEMMA WriteNone ==
    ASSUME NEW order
    PROVE  /\ Written(order, 0) = {}
           /\ IsFiniteSet(Written(order, 0))
           /\ Cardinality(Written(order, 0)) = 0
<1>1. Written(order, 0) = {}
  BY DEF Written
<1> QED
  BY <1>1, FS_EmptySet

\* After n assignments of the order, n fields are set.
LEMMA PublishCounts ==
    ASSUME NEW n \in 0 .. 4
    PROVE  /\ Cardinality(Written(PublishOrder, n)) = n
           /\ Written(PublishOrder, n + 1) = Written(PublishOrder, n) \cup {PublishOrder[n + 1]}
<1> DEFINE Good(k) == /\ IsFiniteSet(Written(PublishOrder, k))
                      /\ Cardinality(Written(PublishOrder, k)) = k
           Next1(k) == Written(PublishOrder, k + 1) = Written(PublishOrder, k) \cup {PublishOrder[k + 1]}
<1>0. Good(0)
  BY WriteNone
<1>1. Good(1) /\ Next1(0)
  <2>1. PublishOrder[0 + 1] \notin Written(PublishOrder, 0)
    BY WriteNone
  <2> QED
    BY <1>0, <2>1, WriteOne
<1>2. Good(2) /\ Next1(1)
  <2>1. PublishOrder[1 + 1] \notin Written(PublishOrder, 1)
    BY DEF Written, PublishOrder
  <2> QED
    BY <1>1, <2>1, WriteOne
<1>3. Good(3) /\ Next1(2)
  <2>1. PublishOrder[2 + 1] \notin Written(PublishOrder, 2)
    BY DEF Written, PublishOrder
  <2> QED
    BY <1>2, <2>1, WriteOne
<1>4. Good(4) /\ Next1(3)
  <2>1. PublishOrder[3 + 1] \notin Written(PublishOrder, 3)
    BY DEF Written, PublishOrder
  <2> QED
    BY <1>3, <2>1, WriteOne
<1>5. Good(5) /\ Next1(4)
  <2>1. PublishOrder[4 + 1] \notin Written(PublishOrder, 4)
    BY DEF Written, PublishOrder
  <2> QED
    BY <1>4, <2>1, WriteOne
<1>6. n \in {0, 1, 2, 3, 4}
  OBVIOUS
<1> HIDE DEF Good, Next1
<1>7. Good(n) /\ Next1(n)
  BY <1>0, <1>1, <1>2, <1>3, <1>4, <1>5, <1>6
<1> QED
  BY <1>7 DEF Good, Next1

\* The same of the two assignments that report an error.
LEMMA FailCounts ==
    ASSUME NEW n \in 0 .. 1
    PROVE  /\ Cardinality(Written(FailOrder, n)) = n
           /\ Written(FailOrder, n + 1) = Written(FailOrder, n) \cup {FailOrder[n + 1]}
<1>1. /\ IsFiniteSet(Written(FailOrder, 1)) /\ Cardinality(Written(FailOrder, 1)) = 1
      /\ Written(FailOrder, 0 + 1) = Written(FailOrder, 0) \cup {FailOrder[0 + 1]}
  <2>1. FailOrder[0 + 1] \notin Written(FailOrder, 0)
    BY WriteNone
  <2> QED
    BY <2>1, WriteNone, WriteOne
<1>2. Written(FailOrder, 1 + 1) = Written(FailOrder, 1) \cup {FailOrder[1 + 1]}
  <2>1. FailOrder[1 + 1] \notin Written(FailOrder, 1)
    BY DEF Written, FailOrder
  <2> QED
    BY <1>1, <2>1, WriteOne
<1>3. n = 0 \/ n = 1
  OBVIOUS
<1> QED
  BY <1>1, <1>2, <1>3, WriteNone

\* Publishing moves a job on by one assignment, the fourth of which is the status.
LEMMA PublishMoves ==
    ASSUME TypeOK, NEW j \in Jobs, NEW n \in 0 .. 4,
           Progress(j, PublishOrder, 4, "done", n), Publish(j)
    PROVE  /\ Progress(j, PublishOrder, 4, "done", n + 1)'
           /\ phase' = IF n = 4 THEN [phase EXCEPT ![j] = "ended"] ELSE phase
           /\ \A k \in Jobs \ {j} : set'[k] = set[k] /\ status'[k] = status[k]
<1> DEFINE field == PublishOrder[n + 1]
<1>1. Cardinality(set[j]) = n
  BY PublishCounts DEF Progress
<1>2. /\ set' = [set EXCEPT ![j] = @ \cup {field}]
      /\ status' = IF field = "status" THEN [status EXCEPT ![j] = "done"] ELSE status
      /\ phase' = IF n + 1 = Len(PublishOrder) THEN [phase EXCEPT ![j] = "ended"] ELSE phase
  BY <1>1 DEF Publish, Assign
<1>3. set'[j] = Written(PublishOrder, n + 1)
  <2>1. j \in DOMAIN set
    BY DEF TypeOK
  <2> QED
    BY <1>2, <2>1, PublishCounts DEF Progress
<1>4. status'[j] = IF n + 1 >= 4 THEN "done" ELSE "running"
  <2>1. field = "status" <=> n = 3
    BY DEF PublishOrder
  <2>2. j \in DOMAIN status
    BY DEF TypeOK
  <2>3. n \in {0, 1, 2, 3, 4}
    OBVIOUS
  <2> HIDE DEF field
  <2> QED
    BY <1>2, <2>1, <2>2, <2>3 DEF Progress
<1>5. Len(PublishOrder) = 5
  BY DEF PublishOrder
<1> QED
  BY <1>2, <1>3, <1>4, <1>5 DEF Progress, Written, PublishOrder, TypeOK

\* Reporting an error moves a job on by one assignment, the first being the status.
LEMMA FailMoves ==
    ASSUME TypeOK, NEW j \in Jobs, NEW n \in 0 .. 1,
           Progress(j, FailOrder, 1, "error", n), ReportError(j)
    PROVE  /\ Progress(j, FailOrder, 1, "error", n + 1)'
           /\ phase' = IF n = 1 THEN [phase EXCEPT ![j] = "ended"] ELSE phase
           /\ \A k \in Jobs \ {j} : set'[k] = set[k] /\ status'[k] = status[k]
<1> DEFINE field == FailOrder[n + 1]
<1>1. Cardinality(set[j]) = n
  BY FailCounts DEF Progress
<1>2. /\ set' = [set EXCEPT ![j] = @ \cup {field}]
      /\ status' = IF field = "status" THEN [status EXCEPT ![j] = "error"] ELSE status
      /\ phase' = IF n + 1 = Len(FailOrder) THEN [phase EXCEPT ![j] = "ended"] ELSE phase
  BY <1>1 DEF ReportError, Assign
<1>3. set'[j] = Written(FailOrder, n + 1)
  <2>1. j \in DOMAIN set
    BY DEF TypeOK
  <2> QED
    BY <1>2, <2>1, FailCounts DEF Progress
<1>4. status'[j] = IF n + 1 >= 1 THEN "error" ELSE "running"
  <2>1. field = "status" <=> n = 0
    BY DEF FailOrder
  <2>2. j \in DOMAIN status
    BY DEF TypeOK
  <2> HIDE DEF field
  <2> QED
    BY <1>2, <2>1, <2>2 DEF Progress
<1>5. Len(FailOrder) = 2
  BY DEF FailOrder
<1> QED
  BY <1>2, <1>3, <1>4, <1>5 DEF Progress, Written, FailOrder, TypeOK
-----------------------------------------------------------------------------
(* What each kind of step does. *)

\* The thread of j goes on to another place, with no assignment of its fields.
Works(j) ==
    \/ Post(j) \/ Validate(j) \/ StartScan(j) \/ FinishScan(j) \/ StartAgent(j)
    \/ LeaveLock(j) \/ WriteReports(j) \/ Raise(j)
Views(v) ==
    \/ \E j \in Jobs : OpenJobPage(v, j) \/ OpenReport(v, j)
    \/ ReadResults(v) \/ ClosePage(v)

LEMMA Kinds ==
    ASSUME [Next]_vars
    PROVE  \/ \E j \in Jobs : Works(j) \/ Publish(j) \/ ReportError(j)
           \/ \E v \in Viewers : Views(v)
           \/ UNCHANGED vars
BY DEF Next, JobThread, Works, Views

\* A thread at work moves between places where its fields are as they were made,
\* or on to the first assignment.
LEMMA WorksMoves ==
    ASSUME TypeOK, NEW j \in Jobs, Works(j)
    PROVE  /\ phase[j] \notin Assigning
           /\ \E to \in Phases \ {"ended"} : phase' = [phase EXCEPT ![j] = to]
           /\ UNCHANGED <<set, status, page, viewing>>
<1>1. CASE Raise(j)
  BY <1>1 DEF Raise, TypeOK, Phases, Assigning
<1>2. CASE ~Raise(j)
  BY <1>2 DEF Works, Post, Validate, StartScan, FinishScan, StartAgent, LeaveLock, WriteReports,
              Enter, TypeOK, Phases, Assigning
<1> QED
  BY <1>1, <1>2

\* A thread that assigns stays where it is, or ends.
LEMMA AssignsMoves ==
    ASSUME TypeOK, Progressed, NEW j \in Jobs, Publish(j) \/ ReportError(j)
    PROVE  /\ phase[j] \in {"publishing", "failing"}
           /\ phase' \in {phase, [phase EXCEPT ![j] = "ended"]}
           /\ set[j] \subseteq set'[j]
           /\ status[j] = "done" => status'[j] = "done"
           /\ phase[j] = "failing" => ~(Results \subseteq set'[j])
           /\ \A k \in Jobs \ {j} : set'[k] = set[k] /\ status'[k] = status[k]
           /\ UNCHANGED <<runLock, containers, scanRow, page, viewing>>
<1>1. CASE Publish(j)
  <2>1. phase[j] = "publishing" /\ UNCHANGED <<runLock, containers, scanRow, page, viewing>>
    BY <1>1 DEF Publish, Assign
  <2>2. PICK n \in 0 .. 4 : Progress(j, PublishOrder, 4, "done", n)
    BY <2>1 DEF Progressed
  <2>3. /\ Progress(j, PublishOrder, 4, "done", n + 1)'
        /\ phase' = IF n = 4 THEN [phase EXCEPT ![j] = "ended"] ELSE phase
        /\ \A k \in Jobs \ {j} : set'[k] = set[k] /\ status'[k] = status[k]
    BY <1>1, <2>2, PublishMoves
  <2>4. set[j] \subseteq set'[j]
    BY <2>2, <2>3, PublishCounts DEF Progress, Written, PublishOrder
  <2>5. status[j] = "done" => status'[j] = "done"
    BY <2>2, <2>3 DEF Progress, Written, PublishOrder
  <2> QED
    BY <2>1, <2>3, <2>4, <2>5
<1>2. CASE ReportError(j)
  <2>1. phase[j] = "failing" /\ UNCHANGED <<runLock, containers, scanRow, page, viewing>>
    BY <1>2 DEF ReportError, Assign
  <2>2. PICK n \in 0 .. 1 : Progress(j, FailOrder, 1, "error", n)
    BY <2>1 DEF Progressed
  <2>3. /\ Progress(j, FailOrder, 1, "error", n + 1)'
        /\ phase' = IF n = 1 THEN [phase EXCEPT ![j] = "ended"] ELSE phase
        /\ \A k \in Jobs \ {j} : set'[k] = set[k] /\ status'[k] = status[k]
    BY <1>2, <2>2, FailMoves
  <2>4. /\ set[j] = Written(FailOrder, n) /\ set'[j] = Written(FailOrder, n + 1)
        /\ status[j] # "done"
    BY <2>2, <2>3 DEF Progress, Written, FailOrder
  <2>5. "scan_id" \notin set'[j] /\ set[j] \subseteq set'[j]
    BY <2>4 DEF Written, FailOrder
  <2> QED
    BY <2>1, <2>3, <2>4, <2>5 DEF Results
<1> QED
  BY <1>1, <1>2
-----------------------------------------------------------------------------
(* The invariant, one conjunct at a time. *)

LEMMA JobsInit == Init => JobsInv
<1> SUFFICES ASSUME Init PROVE JobsInv
  OBVIOUS
<1>1. TypeOK
  BY DEF Init, TypeOK, Phases
<1>2. LockHeld
  BY JobsAssumption DEF Init, LockHeld, InLock, JobsAssumption
<1>3. Progressed
  BY WriteNone DEF Init, Progressed, Progress, Assigning
<1>4. ScanFinished /\ PagesTrue
  BY DEF Init, ScanFinished, PagesTrue
<1> QED
  BY <1>1, <1>2, <1>3, <1>4 DEF JobsInv

\* No step takes the lock from a job inside it, or the containers from a scan.
LEMMA LockStep ==
    ASSUME JobsInv, [Next]_vars
    PROVE  LockHeld'
<1> USE DEF JobsInv
<1>1. ASSUME NEW j \in Jobs, Works(j) PROVE LockHeld'
  <2>1. CASE Post(j) \/ Validate(j) \/ StartAgent(j) \/ WriteReports(j)
    BY <2>1 DEF Post, Validate, StartAgent, WriteReports, Enter, LockHeld, InLock, TypeOK
  <2>2. CASE StartScan(j)
    BY <2>2, JobsAssumption DEF StartScan, Enter, LockHeld, InLock, TypeOK, JobsAssumption
  <2>3. CASE FinishScan(j)
    BY <2>3 DEF FinishScan, Enter, LockHeld, InLock, TypeOK
  <2>4. CASE LeaveLock(j)
    BY <2>4, JobsAssumption DEF LeaveLock, Enter, Release, LockHeld, InLock, TypeOK, JobsAssumption
  <2>5. CASE Raise(j)
    BY <2>5, JobsAssumption DEF Raise, Release, LockHeld, InLock, TypeOK, JobsAssumption
  <2> QED
    BY <1>1, <2>1, <2>2, <2>3, <2>4, <2>5 DEF Works
<1>2. ASSUME NEW j \in Jobs, Publish(j) \/ ReportError(j) PROVE LockHeld'
  BY <1>2, AssignsMoves DEF LockHeld, InLock, TypeOK
<1>3. ASSUME NEW v \in Viewers, Views(v) PROVE LockHeld'
  BY <1>3 DEF Views, OpenJobPage, OpenReport, ReadResults, ClosePage, jobVars, LockHeld
<1>4. CASE UNCHANGED vars
  BY <1>4 DEF vars, jobVars, LockHeld
<1> QED
  BY <1>1, <1>2, <1>3, <1>4, Kinds

\* Fields are assigned in order, and only after the scan.
LEMMA ProgressStep ==
    ASSUME JobsInv, [Next]_vars
    PROVE  Progressed'
<1> USE DEF JobsInv
<1>1. ASSUME NEW j \in Jobs, Works(j) PROVE Progressed'
  <2>1. PICK to \in Phases \ {"ended"} : phase' = [phase EXCEPT ![j] = to]
    BY <1>1, WorksMoves
  <2>2. /\ phase[j] \notin Assigning /\ set' = set /\ status' = status
        /\ phase'[j] # "ended"
    BY <1>1, <2>1, WorksMoves DEF TypeOK
  <2>3. \A k \in Jobs \ {j} : phase'[k] = phase[k]
    BY <2>1 DEF TypeOK
  <2>4. set[j] = {} /\ status[j] = "running"
    BY <2>2, WriteNone DEF Progressed, Progress
  <2>5. Progress(j, FailOrder, 1, "error", 0)' /\ Progress(j, PublishOrder, 4, "done", 0)'
    BY <2>2, <2>4, WriteNone DEF Progress, Written, FailOrder, PublishOrder
  <2> QED
    BY <2>2, <2>3, <2>5 DEF Progressed, Progress, Written, FailOrder, PublishOrder
<1>2. ASSUME NEW j \in Jobs, Publish(j) PROVE Progressed'
  <2>1. phase[j] = "publishing"
    BY <1>2 DEF Publish, Assign
  <2>2. PICK n \in 0 .. 4 : Progress(j, PublishOrder, 4, "done", n)
    BY <2>1 DEF Progressed
  <2>3. /\ Progress(j, PublishOrder, 4, "done", n + 1)'
        /\ phase' = IF n = 4 THEN [phase EXCEPT ![j] = "ended"] ELSE phase
        /\ \A k \in Jobs \ {j} : set'[k] = set[k] /\ status'[k] = status[k]
    BY <1>2, <2>2, PublishMoves
  <2>4. \A k \in Jobs \ {j} : phase'[k] = phase[k]
    BY <2>3 DEF TypeOK
  <2>5. (n = 4 /\ phase'[j] = "ended") \/ (n + 1 \in 0 .. 4 /\ phase'[j] = "publishing")
    BY <2>1, <2>3 DEF TypeOK
  <2> QED
    BY <2>3, <2>4, <2>5 DEF Progressed, Progress, Written, FailOrder, PublishOrder, Assigning
<1>3. ASSUME NEW j \in Jobs, ReportError(j) PROVE Progressed'
  <2>1. phase[j] = "failing"
    BY <1>3 DEF ReportError, Assign
  <2>2. PICK n \in 0 .. 1 : Progress(j, FailOrder, 1, "error", n)
    BY <2>1 DEF Progressed
  <2>3. /\ Progress(j, FailOrder, 1, "error", n + 1)'
        /\ phase' = IF n = 1 THEN [phase EXCEPT ![j] = "ended"] ELSE phase
        /\ \A k \in Jobs \ {j} : set'[k] = set[k] /\ status'[k] = status[k]
    BY <1>3, <2>2, FailMoves
  <2>4. \A k \in Jobs \ {j} : phase'[k] = phase[k]
    BY <2>3 DEF TypeOK
  <2>5. (n = 1 /\ phase'[j] = "ended") \/ (n + 1 \in 0 .. 1 /\ phase'[j] = "failing")
    BY <2>1, <2>3 DEF TypeOK
  <2> QED
    BY <2>3, <2>4, <2>5 DEF Progressed, Progress, Written, FailOrder, PublishOrder, Assigning
<1>4. ASSUME NEW v \in Viewers, Views(v) PROVE Progressed'
  BY <1>4 DEF Views, OpenJobPage, OpenReport, ReadResults, ClosePage, jobVars, Progressed,
              Progress, Written, FailOrder, PublishOrder
<1>5. CASE UNCHANGED vars
  BY <1>5 DEF vars, jobVars, Progressed, Progress, Written, FailOrder, PublishOrder
<1> QED
  BY <1>1, <1>2, <1>3, <1>4, <1>5, Kinds

\* What is assigned are fields, and what a status says is one of the three.
LEMMA TypeStep ==
    ASSUME JobsInv, [Next]_vars
    PROVE  TypeOK'
<1> USE DEF JobsInv
<1>1. ASSUME NEW j \in Jobs, Works(j) PROVE TypeOK'
  <2>1. phase' \in [Jobs -> Phases] /\ UNCHANGED <<set, status, page, viewing>>
    BY <1>1, WorksMoves DEF TypeOK
  <2>2. runLock' \in Jobs \union {NoJob} /\ containers' \in BOOLEAN
    BY <1>1 DEF Works, Post, Validate, StartScan, FinishScan, StartAgent, LeaveLock, WriteReports,
                Raise, Release, TypeOK
  <2>3. scanRow' \in [Jobs -> {"absent", "open", "finished"}]
    BY <1>1 DEF Works, Post, Validate, StartScan, FinishScan, StartAgent, LeaveLock, WriteReports,
                Raise, TypeOK
  <2> QED
    BY <2>1, <2>2, <2>3 DEF TypeOK
<1>2. ASSUME NEW j \in Jobs, Publish(j) \/ ReportError(j) PROVE TypeOK'
  <2>1. phase' \in [Jobs -> Phases] /\ UNCHANGED <<runLock, containers, scanRow, page, viewing>>
    BY <1>2, AssignsMoves DEF TypeOK, Phases
  <2>2. \E field \in {"scan_id", "db_path", "report_path", "status", "detail"},
           outcome \in {"done", "error"} :
            /\ set' = [set EXCEPT ![j] = @ \union {field}]
            /\ status' \in {status, [status EXCEPT ![j] = outcome]}
    <3>1. CASE Publish(j)
      <4>1. PICK n \in 0 .. 4 : Progress(j, PublishOrder, 4, "done", n)
        BY <3>1 DEF Progressed, Publish, Assign
      <4>2. PublishOrder[n + 1] \in {"scan_id", "db_path", "report_path", "status", "detail"}
        BY DEF PublishOrder
      <4>3. Cardinality(set[j]) = n
        BY <4>1, PublishCounts DEF Progress
      <4> QED
        BY <3>1, <4>2, <4>3 DEF Publish, Assign
    <3>2. CASE ReportError(j)
      <4>1. PICK n \in 0 .. 1 : Progress(j, FailOrder, 1, "error", n)
        BY <3>2 DEF Progressed, ReportError, Assign
      <4>2. FailOrder[n + 1] \in {"scan_id", "db_path", "report_path", "status", "detail"}
        BY DEF FailOrder
      <4>3. Cardinality(set[j]) = n
        BY <4>1, FailCounts DEF Progress
      <4> QED
        BY <3>2, <4>2, <4>3 DEF ReportError, Assign
    <3> QED
      BY <1>2, <3>1, <3>2
  <2> QED
    BY <2>1, <2>2 DEF TypeOK
<1>3. ASSUME NEW v \in Viewers, Views(v) PROVE TypeOK'
  <2>1. UNCHANGED jobVars
    BY <1>3 DEF Views, OpenJobPage, OpenReport, ReadResults, ClosePage
  <2>2. viewing' \in [Viewers -> Jobs \union {NoJob}]
    BY <1>3 DEF Views, OpenJobPage, OpenReport, ReadResults, ClosePage, TypeOK
  <2>3. page' \in [Viewers -> {"idle", "refresh", "failed", "status_done", "report",
                               "no_report", "no_results"}]
    <3>1. ASSUME NEW j \in Jobs, OpenJobPage(v, j)
          PROVE  page' \in [Viewers -> {"idle", "refresh", "failed", "status_done", "report",
                                        "no_report", "no_results"}]
      <4>1. status[j] \in {"running", "done", "error"}
        BY DEF TypeOK
      <4> QED
        BY <3>1, <4>1 DEF OpenJobPage, TypeOK
    <3>2. ASSUME NEW j \in Jobs, OpenReport(v, j)
          PROVE  page' \in [Viewers -> {"idle", "refresh", "failed", "status_done", "report",
                                        "no_report", "no_results"}]
      BY <3>2 DEF OpenReport, TypeOK
    <3>3. CASE ReadResults(v) \/ ClosePage(v)
      BY <3>3 DEF ReadResults, ClosePage, TypeOK
    <3> QED
      BY <1>3, <3>1, <3>2, <3>3 DEF Views
  <2> QED
    BY <2>1, <2>2, <2>3 DEF TypeOK, jobVars
<1>4. CASE UNCHANGED vars
  BY <1>4 DEF vars, jobVars, TypeOK
<1> QED
  BY <1>1, <1>2, <1>3, <1>4, Kinds

\* A scan that is finished stays so, and only those come to publish.
LEMMA FinishedStep ==
    ASSUME JobsInv, [Next]_vars
    PROVE  ScanFinished'
<1> USE DEF JobsInv
<1>1. ASSUME NEW j \in Jobs, Works(j) PROVE ScanFinished'
  <2>1. set' = set /\ \A k \in Jobs \ {j} : phase'[k] = phase[k]
    BY <1>1, WorksMoves DEF TypeOK
  <2>2. phase'[j] # "ended"
    BY <1>1, WorksMoves DEF TypeOK
  <2>3. \A k \in Jobs \ {j} : scanRow'[k] = scanRow[k]
    <3>1. scanRow' = scanRow \/ \E row \in {"open", "finished"} : scanRow' = [scanRow EXCEPT ![j] = row]
      BY <1>1 DEF Works, Post, Validate, StartScan, FinishScan, StartAgent, LeaveLock,
                  WriteReports, Raise
    <3> QED
      BY <3>1 DEF TypeOK
  <2>4. phase'[j] \in {"scanned", "enriching", "reporting", "publishing"}
            => scanRow'[j] = "finished"
    <3>1. CASE Post(j) \/ Validate(j) \/ StartScan(j)
      BY <3>1 DEF Post, Validate, StartScan, Enter, TypeOK
    <3>2. CASE FinishScan(j)
      BY <3>2 DEF FinishScan, Enter, TypeOK
    <3>3. CASE StartAgent(j) \/ LeaveLock(j) \/ WriteReports(j)
      BY <3>3 DEF StartAgent, LeaveLock, WriteReports, Enter, ScanFinished, TypeOK
    <3>4. CASE Raise(j)
      BY <3>4 DEF Raise, TypeOK
    <3> QED
      BY <1>1, <3>1, <3>2, <3>3, <3>4 DEF Works
  <2> QED
    BY <2>1, <2>2, <2>3, <2>4 DEF ScanFinished
<1>2. ASSUME NEW j \in Jobs, Publish(j) \/ ReportError(j) PROVE ScanFinished'
  BY <1>2, AssignsMoves DEF ScanFinished, TypeOK
<1>3. ASSUME NEW v \in Viewers, Views(v) PROVE ScanFinished'
  BY <1>3 DEF Views, OpenJobPage, OpenReport, ReadResults, ClosePage, jobVars, ScanFinished
<1>4. CASE UNCHANGED vars
  BY <1>4 DEF vars, jobVars, ScanFinished
<1> QED
  BY <1>1, <1>2, <1>3, <1>4, Kinds

\* A status that says done comes after the results.
LEMMA DoneMeansResults ==
    ASSUME Progressed, TypeOK, NEW j \in Jobs, status[j] = "done"
    PROVE  Results \subseteq set[j]
<1>1. PICK n \in 4 .. 5 : Progress(j, PublishOrder, 4, "done", n)
  BY DEF Progressed, Progress, Assigning
<1> QED
  BY <1>1 DEF Progress, Written, PublishOrder, Results

\* A page that has read a status or the fields can rely on them.
LEMMA PagesStep ==
    ASSUME JobsInv, [Next]_vars
    PROVE  PagesTrue'
<1> USE DEF JobsInv
<1>1. ASSUME NEW j \in Jobs, Works(j) PROVE PagesTrue'
  BY <1>1, WorksMoves DEF PagesTrue
<1>2. ASSUME NEW j \in Jobs, Publish(j) \/ ReportError(j) PROVE PagesTrue'
  <2>1. \A k \in Jobs : set[k] \subseteq set'[k] /\ (status[k] = "done" => status'[k] = "done")
    BY <1>2, AssignsMoves
  <2>2. UNCHANGED <<page, viewing>>
    BY <1>2, AssignsMoves
  <2> QED
    BY <2>1, <2>2 DEF PagesTrue
<1>3. ASSUME NEW v \in Viewers, Views(v) PROVE PagesTrue'
  <2>1. UNCHANGED jobVars
    BY <1>3 DEF Views, OpenJobPage, OpenReport, ReadResults, ClosePage
  <2>2. \A w \in Viewers \ {v} : page'[w] = page[w] /\ viewing'[w] = viewing[w]
    BY <1>3 DEF Views, OpenJobPage, OpenReport, ReadResults, ClosePage, TypeOK
  <2>3. /\ page'[v] \in {"status_done", "report"} => viewing'[v] \in Jobs
        /\ page'[v] = "status_done" => status[viewing'[v]] = "done"
        /\ page'[v] = "report" => Results \subseteq set[viewing'[v]]
        /\ page'[v] # "no_results"
    <3>1. ASSUME NEW j \in Jobs, OpenJobPage(v, j)
          PROVE  /\ viewing'[v] = j /\ page'[v] \in {"refresh", "failed", "status_done"}
                 /\ page'[v] = "status_done" => status[j] = "done"
      <4>1. status[j] \in {"running", "done", "error"}
        BY DEF TypeOK
      <4> QED
        BY <3>1, <4>1 DEF OpenJobPage, TypeOK
    <3>2. ASSUME NEW j \in Jobs, OpenReport(v, j)
          PROVE  /\ viewing'[v] = j /\ page'[v] \in {"report", "no_report"}
                 /\ page'[v] = "report" => Results \subseteq set[j]
      BY <3>2 DEF OpenReport, TypeOK, Results
    <3>3. ASSUME ReadResults(v)
          PROVE  page'[v] = "report" /\ viewing'[v] = viewing[v] /\ viewing[v] \in Jobs
                    /\ Results \subseteq set[viewing[v]]
      <4>1. page[v] = "status_done" /\ viewing[v] \in Jobs /\ status[viewing[v]] = "done"
        BY <3>3 DEF ReadResults, PagesTrue
      <4>2. Results \subseteq set[viewing[v]]
        BY <4>1, DoneMeansResults
      <4> QED
        BY <3>3, <4>1, <4>2 DEF ReadResults, TypeOK, Results
    <3>4. ASSUME ClosePage(v) PROVE page'[v] = "idle"
      BY <3>4 DEF ClosePage, TypeOK
    <3> QED
      BY <1>3, <3>1, <3>2, <3>3, <3>4 DEF Views
  <2> QED
    BY <2>1, <2>2, <2>3 DEF PagesTrue, jobVars
<1>4. CASE UNCHANGED vars
  BY <1>4 DEF vars, jobVars, PagesTrue
<1> QED
  BY <1>1, <1>2, <1>3, <1>4, Kinds
-----------------------------------------------------------------------------
(* The threads implement JobQueue. *)

\* Only a job in the lock is shown as being worked on.
LEMMA WorkingInLock ==
    ASSUME NEW j \in Jobs, JobState(j) = "working", status[j] # "working"
    PROVE  phase[j] \in InLock
BY DEF JobState, InLock

\* A step that changes what can be told of j alone.
LEMMA QueueStep ==
    ASSUME NEW j \in Jobs, \A k \in Jobs \ {j} : JobState(k)' = JobState(k)
    PROVE  [k \in Jobs |-> JobState(k)]' = [[k \in Jobs |-> JobState(k)] EXCEPT ![j] = JobState(j)']
OBVIOUS

\* Other jobs' steps do not change what can be told of a job.
LEMMA OthersKeep ==
    ASSUME JobsInv, NEW j \in Jobs, Works(j) \/ Publish(j) \/ ReportError(j),
           NEW k \in Jobs \ {j}
    PROVE  JobState(k)' = JobState(k)
<1>1. phase'[k] = phase[k] /\ status'[k] = status[k]
  BY WorksMoves, AssignsMoves DEF JobsInv, TypeOK
<1> QED
  BY <1>1 DEF JobState

\* Every step of a thread is a step of the queue, or changes nothing there.
LEMMA ThreadSteps ==
    ASSUME JobsInv, NEW j \in Jobs, Works(j) \/ Publish(j) \/ ReportError(j)
    PROVE  \/ Queue!Submit(j) \/ Queue!Work(j) \/ Queue!EndWork(j) \/ Queue!Complete(j)
           \/ Queue!Fail(j) \/ Queue!Settle(j) \/ Queue!Lose(j)
           \/ UNCHANGED [k \in Jobs |-> JobState(k)]
<1> USE DEF JobsInv
<1> DEFINE bar == [k \in Jobs |-> JobState(k)]
           new == JobState(j)'
<1>1. bar' = [bar EXCEPT ![j] = new] /\ bar[j] = JobState(j)
  BY OthersKeep, QueueStep
<1>2. new = JobState(j) => bar' = bar
  BY <1>1
<1>3. phase[j] \notin Assigning => status[j] = "running"
  BY WriteNone DEF Progressed, Progress
<1>4. CASE Works(j)
  <2>1. status' = status /\ phase[j] \notin Assigning
    BY <1>4, WorksMoves
  <2>2. CASE Post(j)
    <3>1. JobState(j) = "unknown" /\ new = "waiting"
      BY <2>2 DEF Post, Enter, JobState, InLock, TypeOK
    <3> HIDE DEF new
    <3> QED
      BY <1>1, <3>1 DEF Queue!Submit, Queue!Become
  <2>3. CASE Validate(j) \/ StartAgent(j) \/ FinishScan(j) \/ WriteReports(j)
    <3>1. new = JobState(j)
      BY <2>1, <2>3, <1>3 DEF Validate, StartAgent, FinishScan, WriteReports, Enter, JobState,
                              InLock, TypeOK
    <3> QED
      BY <3>1, <1>2
  <2>4. CASE StartScan(j)
    <3>1. JobState(j) = "waiting" /\ new = "working"
      BY <2>4 DEF StartScan, Enter, JobState, InLock, TypeOK
    <3>2. \A k \in Jobs : phase[k] \notin InLock
      BY <2>4, JobsAssumption DEF StartScan, LockHeld, JobsAssumption
    <3>3. \A k \in Jobs : bar[k] # "working"
      <4> SUFFICES ASSUME NEW k \in Jobs PROVE JobState(k) # "working"
        OBVIOUS
      <4>1. status[k] # "working"
        BY DEF TypeOK
      <4> QED
        BY <3>2, <4>1, WorkingInLock
    <3> HIDE DEF new
    <3> QED
      BY <1>1, <3>1, <3>3 DEF Queue!Work, Queue!Become
  <2>5. CASE LeaveLock(j)
    <3>1. JobState(j) = "working" /\ new = "worked"
      BY <1>3, <2>1, <2>5 DEF LeaveLock, Enter, JobState, InLock, Assigning, TypeOK
    <3> HIDE DEF new
    <3> QED
      BY <1>1, <3>1 DEF Queue!EndWork, Queue!Become
  <2>6. CASE Raise(j)
    <3>1. JobState(j) \in {"waiting", "working", "worked"}
      BY <1>3, <2>6 DEF Raise, JobState, InLock, Assigning
    <3>2. CASE phase' = [phase EXCEPT ![j] = "failing"]
      <4>1. new = "failing"
        BY <1>3, <2>1, <3>2 DEF JobState, InLock, TypeOK
      <4> HIDE DEF new
      <4> QED
        BY <1>1, <3>1, <4>1 DEF Queue!Fail, Queue!Become
    <3>3. CASE phase[j] # "posted" /\ phase' = [phase EXCEPT ![j] = "died"]
      <4>1. new = "lost"
        BY <3>3 DEF JobState, InLock, TypeOK
      <4>2. JobState(j) \in {"working", "worked"}
        BY <1>3, <2>6, <3>3 DEF Raise, JobState, InLock, Assigning
      <4> HIDE DEF new
      <4> QED
        BY <1>1, <4>1, <4>2 DEF Queue!Lose, Queue!Become
    <3> QED
      BY <2>6, <3>2, <3>3 DEF Raise
  <2> QED
    BY <1>4, <2>2, <2>3, <2>4, <2>5, <2>6 DEF Works
<1>5. CASE Publish(j)
  <2>1. phase[j] = "publishing"
    BY <1>5 DEF Publish, Assign
  <2>2. PICK n \in 0 .. 4 : Progress(j, PublishOrder, 4, "done", n)
    BY <2>1 DEF Progressed
  <2>3. /\ phase'[j] \in {"publishing", "ended"}
        /\ status[j] = IF n >= 4 THEN "done" ELSE "running"
        /\ status'[j] = IF n + 1 >= 4 THEN "done" ELSE "running"
    BY <1>5, <2>1, <2>2, PublishMoves DEF Progress, TypeOK
  <2>4. CASE n = 3
    <3>1. JobState(j) = "worked" /\ new = "done"
      BY <2>1, <2>3, <2>4 DEF JobState, InLock
    <3> HIDE DEF new
    <3> QED
      BY <1>1, <3>1 DEF Queue!Complete, Queue!Become
  <2>5. CASE n # 3
    <3>1. new = JobState(j)
      BY <2>1, <2>3, <2>5 DEF JobState, InLock
    <3> QED
      BY <3>1, <1>2
  <2> QED
    BY <2>4, <2>5
<1>6. CASE ReportError(j)
  <2>1. phase[j] = "failing"
    BY <1>6 DEF ReportError, Assign
  <2>2. PICK n \in 0 .. 1 : Progress(j, FailOrder, 1, "error", n)
    BY <2>1 DEF Progressed
  <2>3. /\ phase'[j] \in {"failing", "ended"}
        /\ status[j] = IF n >= 1 THEN "error" ELSE "running"
        /\ status'[j] = "error"
    BY <1>6, <2>1, <2>2, FailMoves DEF Progress, TypeOK
  <2>4. new = "error"
    BY <2>3 DEF JobState, InLock
  <2>5. JobState(j) \in {"failing", "error"}
    BY <2>1, <2>3 DEF JobState, InLock
  <2> HIDE DEF new
  <2> QED
    BY <1>1, <1>2, <2>4, <2>5 DEF Queue!Settle, Queue!Become
<1> QED
  BY <1>4, <1>5, <1>6
-----------------------------------------------------------------------------
\* The invariant of the job runner.
THEOREM JobsInvariant == Spec => []JobsInv
<1>1. JobsInv /\ [Next]_vars => JobsInv'
  BY TypeStep, LockStep, ProgressStep, FinishedStep, PagesStep DEF JobsInv
<1> QED
  BY JobsInit, <1>1, PTL DEF Spec

\* Every field has its type, for any number of jobs and viewers.
THEOREM JobTypes == Spec => []TypeOK
BY JobsInvariant, PTL DEF JobsInv

\* Whatever jobs are posted and however they end, one scan runs at a time and
\* its containers stay up under it.
THEOREM ScansExclusive == Spec => []OneScanAtATime
<1>1. JobsInv => OneScanAtATime
  BY DEF JobsInv, LockHeld, OneScanAtATime
<1> QED
  BY <1>1, JobsInvariant, PTL

\* A report that is served is that of a finished scan and a finished agent layer.
THEOREM ReportsFinal == Spec => []ServedReportsFinal
<1>1. JobsInv => ServedReportsFinal
  <2> SUFFICES ASSUME JobsInv, NEW v \in Viewers, page[v] = "report"
               PROVE  /\ scanRow[viewing[v]] = "finished"
                      /\ phase[viewing[v]] \in {"publishing", "ended"}
    BY DEF ServedReportsFinal
  <2> DEFINE j == viewing[v]
  <2>1. j \in Jobs /\ Results \subseteq set[j]
    BY DEF JobsInv, PagesTrue
  <2> HIDE DEF j
  <2>2. phase[j] \in {"publishing", "ended"}
    <3>1. phase[j] \in Assigning
      BY <2>1, WriteNone DEF JobsInv, Progressed, Progress, Results
    <3>2. phase[j] # "failing"
      BY <2>1 DEF JobsInv, Progressed, Progress, Results, Written, FailOrder
    <3> QED
      BY <3>1, <3>2 DEF Assigning
  <2>3. scanRow[j] = "finished"
    BY <2>1, <2>2 DEF JobsInv, ScanFinished
  <2> QED
    BY <2>2, <2>3 DEF j
<1> QED
  BY <1>1, JobsInvariant, PTL

\* A job that is shown as done is shown with its results.
THEOREM DoneShowsResults == Spec => []DoneHasResults
<1>1. JobsInv => DoneHasResults
  BY DEF JobsInv, PagesTrue, DoneHasResults
<1> QED
  BY <1>1, JobsInvariant, PTL

\* Whatever jobs are posted, raise and end, and in whatever order, each is worked
\* on at most once, alone, and settled at most once.
THEOREM QueueImplemented == Spec => QueueSpec
<1>1. Init => Queue!Init
  BY DEF Init, JobState, InLock, Queue!Init
<1>2. JobsInv /\ [Next]_vars => [Queue!Next]_[j \in Jobs |-> JobState(j)]
  <2> SUFFICES ASSUME JobsInv, [Next]_vars
               PROVE  Queue!Next \/ UNCHANGED [j \in Jobs |-> JobState(j)]
    OBVIOUS
  <2>1. ASSUME NEW j \in Jobs, Works(j) \/ Publish(j) \/ ReportError(j)
        PROVE  Queue!Next \/ UNCHANGED [k \in Jobs |-> JobState(k)]
    BY <2>1, ThreadSteps DEF Queue!Next
  <2>2. ASSUME UNCHANGED jobVars PROVE UNCHANGED [j \in Jobs |-> JobState(j)]
    BY <2>2 DEF jobVars, JobState
  <2>3. ASSUME NEW v \in Viewers, Views(v) PROVE UNCHANGED jobVars
    BY <2>3 DEF Views, OpenJobPage, OpenReport, ReadResults, ClosePage
  <2>4. UNCHANGED vars => UNCHANGED jobVars
    BY DEF vars, jobVars
  <2> QED
    BY <2>1, <2>2, <2>3, <2>4, Kinds
<1> QED
  BY <1>1, <1>2, JobsInvariant, PTL DEF Spec, QueueSpec, Queue!Spec

-----------------------------------------------------------------------------
(* The jobs' scans and those of the command line in one set of containers. *)

EnvTypes ==
    /\ active \in [Env!Processes -> Scans \union {"none"}]
    /\ place \in [Scans -> {"before", "in", "left", "broken"}]
    /\ call \in [Scans -> {Env!NoCall} \union
                          [tool : Tools, at : {"container", "gone"}]]
    /\ running \subseteq Tools
    /\ orphans \subseteq Scans \X Tools
    /\ temp \subseteq Scans
    /\ trouble \in BOOLEAN

\* A command is waited for only by a scan inside the environment; that scan is
\* the one its process has bound; and a job's scan is there only while the job's
\* thread scans, which is what ties the containers to the lock.
Bound ==
    /\ \A s \in Scans : ~Env!Idle(s) => place[s] = "in"
    /\ \A s \in Scans : place[s] = "in" => active[ProcessOf[s]] = s
    /\ \A j \in Jobs : place[j] = "in" => phase[j] = "scanning"

EnvInv == EnvTypes /\ Bound /\ ToolsInContainers /\ LeftoversExplained

\* Jobs share a process, and no other two scans do.
LEMMA SameProcess ==
    ASSUME NEW s \in Scans, NEW t \in Scans
    PROVE  /\ ProcessOf[s] \in Env!Processes /\ s # "none"
           /\ ProcessOf[s] = ProcessOf[t] => s = t \/ (s \in Jobs /\ t \in Jobs)
BY ServedAssumption DEF Scans, ProcessOf, Env!Processes

\* Entering: the containers are up and the scan is bound, or it is broken off and
\* what may have changed is known to have failed.
LEMMA EnteredFacts ==
    ASSUME EnvTypes, NEW s \in Scans, Entered(s)
    PROVE  /\ place[s] = "before" /\ UNCHANGED <<orphans, call, temp>>
           /\ \/ /\ place' = [place EXCEPT ![s] = "in"] /\ running' = Tools
                 /\ active' = [active EXCEPT ![ProcessOf[s]] = s] /\ trouble' = trouble
              \/ /\ place' = [place EXCEPT ![s] = "broken"] /\ active' = active
                 /\ running \subseteq running' /\ running' \subseteq Tools
                 /\ (running' = running /\ trouble' = trouble) \/ trouble' = TRUE
BY DEF EnvTypes, Entered, Env!NoDocker, Env!ComposeUp, Env!ComposeUpFails, Env!Move, Env!Bind,
   Env!commands

\* Leaving: nothing is bound, and what is not known to be gone is in trouble.
LEMMA LeftFacts ==
    ASSUME EnvTypes, NEW s \in Scans, Left(s)
    PROVE  /\ place[s] = "in" /\ Env!Idle(s) /\ UNCHANGED temp
           /\ \E to \in {"left", "broken"} : place' = [place EXCEPT ![s] = to]
           /\ active' = [active EXCEPT ![ProcessOf[s]] = "none"]
           /\ running' \subseteq running /\ orphans' \subseteq orphans
           /\ (running' = {} /\ orphans' = {} /\ trouble' = FALSE) \/ trouble' = TRUE
           /\ call' \in [Scans -> {Env!NoCall} \union [tool : Tools, at : {"container", "gone"}]]
           /\ \A x \in Scans : call'[x] = Env!NoCall <=> call[x] = Env!NoCall
<1>1. PICK kept \in SUBSET running : Env!Remove(kept) /\ ((kept = {} /\ trouble' = FALSE) \/ trouble' = TRUE)
      BY DEF Left, Env!ComposeDown, Env!ComposeDownFails
<1>2. /\ running' \subseteq running /\ orphans' \subseteq orphans
      /\ (running' = {} /\ orphans' = {} /\ trouble' = FALSE) \/ trouble' = TRUE
      BY <1>1 DEF Env!Remove
<1>3. \A x \in Scans : \/ call'[x] = call[x]
                       \/ call[x].at = "container" /\ call'[x] = [call[x] EXCEPT !.at = "gone"]
      BY <1>1 DEF Env!Remove
<1>4. call' = [x \in Scans |-> call'[x]] BY <1>1 DEF Env!Remove
<1>5. ASSUME NEW x \in Scans
      PROVE  /\ call'[x] \in {Env!NoCall} \union [tool : Tools, at : {"container", "gone"}]
             /\ call'[x] = Env!NoCall <=> call[x] = Env!NoCall
  <2>1. call[x] \in {Env!NoCall} \union [tool : Tools, at : {"container", "gone"}] BY DEF EnvTypes
  <2>2. CASE call'[x] = call[x] BY <2>1, <2>2
  <2>3. CASE call[x].at = "container" /\ call'[x] = [call[x] EXCEPT !.at = "gone"]
    <3>1. call[x] \in [tool : Tools, at : {"container", "gone"}] BY <2>1, <2>3 DEF Env!NoCall
    <3>2. call'[x] \in [tool : Tools, at : {"container", "gone"}] /\ call'[x].at = "gone"
          BY <2>3, <3>1
    <3>3. call'[x] # Env!NoCall /\ call[x] # Env!NoCall BY <2>3, <3>2 DEF Env!NoCall
    <3> QED BY <3>2, <3>3
  <2> QED BY <1>3, <2>2, <2>3
<1>6. call' \in [Scans -> {Env!NoCall} \union [tool : Tools, at : {"container", "gone"}]]
      BY <1>4, <1>5
<1>7. /\ place[s] = "in" /\ Env!Idle(s) /\ UNCHANGED temp
      /\ active' = [active EXCEPT ![ProcessOf[s]] = "none"]
  BY DEF Left, Env!ComposeDown, Env!ComposeDownFails, Env!Move, Env!Bind, Env!Forget, Env!NoScan
<1>8. \E to \in {"left", "broken"} : place' = [place EXCEPT ![s] = to]
  BY DEF Left, Env!ComposeDown, Env!ComposeDownFails, Env!Move
<1> QED
  BY <1>2, <1>5, <1>6, <1>7, <1>8

\* A tool command starts, in a container if that is there, or its wait is over.
LEMMA WorkingFacts ==
    ASSUME EnvTypes, Bound, NEW s \in Scans, Env!Working(s)
    PROVE  /\ place[s] = "in" /\ UNCHANGED <<active, running, place, trouble>>
           /\ \/ /\ Env!Idle(s) /\ orphans' = orphans /\ temp' \subseteq temp \union {s}
                 /\ \E t \in Tools, at \in {"container", "gone"} :
                       call' = [call EXCEPT ![s] = [tool |-> t, at |-> at]]
              \/ /\ ~Env!Idle(s) /\ call' = [call EXCEPT ![s] = Env!NoCall] /\ temp' = temp \ {s}
                 /\ orphans' \subseteq orphans \union {<<s, call[s].tool>>}
                 /\ call[s].tool \in Tools
<1>1. CASE \E t \in Tools : Env!RunCommand(s, t)
  <2>1. PICK t \in Tools : Env!RunCommand(s, t) BY <1>1
  <2>2. /\ place[s] = "in" /\ Env!Idle(s)
        /\ call' = [call EXCEPT ![s] = [tool |-> t, at |-> Env!Route(s, t)]]
        /\ temp' \subseteq temp \union {s} /\ UNCHANGED <<active, running, orphans, place, trouble>>
        BY <2>1 DEF Env!RunCommand
  <2>3. active[ProcessOf[s]] # "none" BY <2>2, SameProcess DEF Bound
  <2>4. Env!Route(s, t) \in {"container", "gone"} BY <2>3 DEF Env!Route, Env!NoScan
  <2> QED BY <2>2, <2>4
<1>2. CASE Env!Answers(s) \/ Env!Fails(s) \/ Env!TimesOut(s)
  <2>1. /\ ~Env!Idle(s) /\ call' = [call EXCEPT ![s] = Env!NoCall] /\ temp' = temp \ {s}
        /\ UNCHANGED <<active, running, place, trouble>>
        /\ orphans' \subseteq orphans \union {<<s, call[s].tool>>}
        BY <1>2 DEF Env!Answers, Env!Fails, Env!TimesOut, Env!Return
  <2>2. place[s] = "in" BY <2>1 DEF Bound
  <2>3. call[s].tool \in Tools BY <2>1 DEF EnvTypes, Env!Idle
  <2> QED BY <2>1, <2>2, <2>3
<1> QED BY <1>1, <1>2 DEF Env!Working

\* What is known of a scan's command.
CallRange == {Env!NoCall} \union [tool : Tools, at : {"container", "gone"}]

\* A command never goes to the host.
LEMMA NeverOnHost ==
    ASSUME NEW c \in CallRange
    PROVE  c.at # "host"
BY DEF CallRange, Env!NoCall

\* A scan enters while no scan of its process is inside.
LEMMA EntersKeep ==
    ASSUME EnvInv, NEW s \in Scans, Entered(s),
           \A t \in Scans : ProcessOf[t] = ProcessOf[s] => place[t] # "in",
           \A j \in Jobs : place'[j] = "in" => phase'[j] = "scanning"
    PROVE  EnvInv'
<1> USE DEF EnvInv
<1>1. /\ place[s] = "before" /\ UNCHANGED <<orphans, call, temp>>
      /\ \/ /\ place' = [place EXCEPT ![s] = "in"] /\ running' = Tools
            /\ active' = [active EXCEPT ![ProcessOf[s]] = s] /\ trouble' = trouble
         \/ /\ place' = [place EXCEPT ![s] = "broken"] /\ active' = active
            /\ running \subseteq running' /\ running' \subseteq Tools
            /\ (running' = running /\ trouble' = trouble) \/ trouble' = TRUE
  BY EnteredFacts
<1>2. EnvTypes'
  <2>1. active' \in [Env!Processes -> Scans \union {"none"}]
    <3>1. ProcessOf[s] \in Env!Processes BY SameProcess
    <3> QED BY <1>1, <3>1 DEF EnvTypes
  <2>2. place' \in [Scans -> {"before", "in", "left", "broken"}] BY <1>1 DEF EnvTypes
  <2>3. running' \subseteq Tools /\ trouble' \in BOOLEAN BY <1>1 DEF EnvTypes
  <2> QED BY <1>1, <2>1, <2>2, <2>3 DEF EnvTypes
<1>3. \A t \in Scans : t # s => place'[t] = place[t] BY <1>1 DEF EnvTypes
<1>4. place'[s] \in {"in", "broken"} BY <1>1 DEF EnvTypes
<1>5. Bound'
  <2>1. ASSUME NEW t \in Scans, ~Env!Idle(t)' PROVE place'[t] = "in"
    <3>1. ~Env!Idle(t) BY <1>1, <2>1 DEF Env!Idle
    <3>2. place[t] = "in" BY <3>1 DEF Bound
    <3> QED BY <3>2, <1>1, <1>3
  <2>2. ASSUME NEW t \in Scans, place'[t] = "in" PROVE active'[ProcessOf[t]] = t
    <3>1. ProcessOf[t] \in Env!Processes /\ ProcessOf[s] \in Env!Processes BY SameProcess
    <3>2. CASE t = s BY <1>1, <2>2, <3>1, <3>2 DEF EnvTypes
    <3>3. CASE t # s
      <4>1. place[t] = "in" BY <1>3, <2>2, <3>3
      <4>2. active[ProcessOf[t]] = t /\ ProcessOf[t] # ProcessOf[s] BY <4>1 DEF Bound
      <4> QED BY <1>1, <3>1, <4>2 DEF EnvTypes
    <3> QED BY <3>2, <3>3
  <2> QED BY <2>1, <2>2 DEF Bound
<1>6. ToolsInContainers'
  <2>1. ASSUME NEW t \in Scans PROVE call'[t].at # "host" BY <1>1 DEF ToolsInContainers
  <2>2. ASSUME NEW t \in Scans, place'[t] = "in", Undisturbed(t)' PROVE running' = Tools
    <3>1. CASE t = s BY <1>1, <2>2, <3>1 DEF EnvTypes
    <3>2. CASE t # s
      <4>1. place[t] = "in" BY <1>3, <2>2, <3>2
      <4>2. ProcessOf[t] # ProcessOf[s] BY <4>1
      <4>3. place'[s] = "before" BY <2>2, <4>2 DEF Undisturbed
      <4> QED BY <4>3, <1>4
    <3> QED BY <3>1, <3>2
  <2> QED BY <2>1, <2>2 DEF ToolsInContainers
<1>7. LeftoversExplained'
  <2>1. \A t \in temp' : ~Env!Idle(t)' BY <1>1 DEF LeftoversExplained, Env!Idle
  <2>2. ASSUME ~trouble', running' # {} PROVE \E t \in Scans : place'[t] = "in"
    <3>1. CASE place' = [place EXCEPT ![s] = "in"] BY <3>1 DEF EnvTypes
    <3>2. CASE running' = running /\ trouble' = trouble
      <4>1. PICK t \in Scans : place[t] = "in" BY <2>2, <3>2 DEF LeftoversExplained
      <4> QED BY <4>1, <1>1, <1>3
    <3> QED BY <1>1, <2>2, <3>1, <3>2
  <2>3. ASSUME ~trouble', NEW o \in orphans' PROVE place'[o[1]] = "in"
    <3>1. ~trouble BY <1>1, <2>3 DEF EnvTypes
    <3>2. o \in orphans /\ place[o[1]] = "in" BY <1>1, <2>3, <3>1 DEF LeftoversExplained
    <3>3. o[1] \in Scans BY <3>2 DEF EnvTypes
    <3> QED BY <3>2, <3>3, <1>1, <1>3
  <2> QED BY <2>1, <2>2, <2>3 DEF LeftoversExplained
<1> QED BY <1>2, <1>5, <1>6, <1>7

\* A scan leaves, whatever of its teardown fails.
LEMMA LeavesKeep ==
    ASSUME EnvInv, NEW s \in Scans, Left(s),
           \A j \in Jobs : place'[j] = "in" => phase'[j] = "scanning"
    PROVE  EnvInv'
<1> USE DEF EnvInv
<1>1. /\ place[s] = "in" /\ Env!Idle(s) /\ UNCHANGED temp
      /\ \E to \in {"left", "broken"} : place' = [place EXCEPT ![s] = to]
      /\ active' = [active EXCEPT ![ProcessOf[s]] = "none"]
      /\ running' \subseteq running /\ orphans' \subseteq orphans
      /\ (running' = {} /\ orphans' = {} /\ trouble' = FALSE) \/ trouble' = TRUE
      /\ call' \in [Scans -> CallRange]
      /\ \A x \in Scans : call'[x] = Env!NoCall <=> call[x] = Env!NoCall
  BY LeftFacts DEF CallRange
<1>2. EnvTypes' BY <1>1, SameProcess DEF EnvTypes, CallRange
<1>3. \A t \in Scans : t # s => place'[t] = place[t] BY <1>1 DEF EnvTypes
<1>4. place'[s] \in {"left", "broken"} BY <1>1 DEF EnvTypes
<1>5. Bound'
  <2>1. ASSUME NEW t \in Scans, ~Env!Idle(t)' PROVE place'[t] = "in"
    <3>1. ~Env!Idle(t) BY <1>1, <2>1 DEF Env!Idle
    <3>2. place[t] = "in" /\ t # s BY <3>1, <1>1 DEF Bound
    <3> QED BY <3>2, <1>3
  <2>2. ASSUME NEW t \in Scans, place'[t] = "in" PROVE active'[ProcessOf[t]] = t
    <3>1. ProcessOf[t] \in Env!Processes /\ ProcessOf[s] \in Env!Processes BY SameProcess
    <3>2. t # s BY <1>4, <2>2
    <3>3. active[ProcessOf[t]] = t /\ active[ProcessOf[s]] = s BY <1>1, <1>3, <2>2, <3>2 DEF Bound
    <3> QED BY <1>1, <3>1, <3>2, <3>3 DEF EnvTypes
  <2> QED BY <2>1, <2>2 DEF Bound
<1>6. ToolsInContainers'
  <2>1. ASSUME NEW t \in Scans PROVE call'[t].at # "host" BY <1>1, NeverOnHost
  <2>2. ASSUME NEW t \in Scans, place'[t] = "in", Undisturbed(t)' PROVE FALSE
    <3>1. t # s /\ place[t] = "in" BY <1>3, <1>4, <2>2
    <3>2. ProcessOf[t] # ProcessOf[s] BY <1>1, <3>1 DEF Bound
    <3>3. place'[s] = "before" BY <2>2, <3>2 DEF Undisturbed
    <3> QED BY <3>3, <1>4
  <2> QED BY <2>1, <2>2 DEF ToolsInContainers
<1>7. LeftoversExplained'
  <2>1. \A t \in temp' : ~Env!Idle(t)' BY <1>1 DEF LeftoversExplained, Env!Idle, EnvTypes
  <2>2. ~trouble' => running' = {} /\ orphans' = {} BY <1>1
  <2> QED BY <2>1, <2>2 DEF LeftoversExplained
<1> QED BY <1>2, <1>5, <1>6, <1>7

\* A scan's tool commands start and end.
LEMMA WorksKeep ==
    ASSUME EnvInv, NEW s \in Scans, Env!Working(s), UNCHANGED phase
    PROVE  EnvInv'
<1> USE DEF EnvInv
<1>1. /\ place[s] = "in" /\ UNCHANGED <<active, running, place, trouble>>
      /\ \/ /\ Env!Idle(s) /\ orphans' = orphans /\ temp' \subseteq temp \union {s}
            /\ \E t \in Tools, at \in {"container", "gone"} :
                  call' = [call EXCEPT ![s] = [tool |-> t, at |-> at]]
         \/ /\ ~Env!Idle(s) /\ call' = [call EXCEPT ![s] = Env!NoCall] /\ temp' = temp \ {s}
            /\ orphans' \subseteq orphans \union {<<s, call[s].tool>>}
            /\ call[s].tool \in Tools
  BY WorkingFacts
<1>2. call' \in [Scans -> CallRange] /\ \A x \in Scans : x # s => call'[x] = call[x]
  <2>1. CASE \E t \in Tools, at \in {"container", "gone"} :
                call' = [call EXCEPT ![s] = [tool |-> t, at |-> at]]
    BY <2>1 DEF EnvTypes, CallRange
  <2>2. CASE call' = [call EXCEPT ![s] = Env!NoCall] BY <2>2 DEF EnvTypes, CallRange
  <2> QED BY <1>1, <2>1, <2>2
<1>3. EnvTypes' BY <1>1, <1>2 DEF EnvTypes, CallRange
<1>4. Bound'
  <2>1. ASSUME NEW t \in Scans, ~Env!Idle(t)' PROVE place'[t] = "in"
    <3>1. CASE t = s BY <1>1, <3>1
    <3>2. CASE t # s BY <1>1, <1>2, <2>1, <3>2 DEF Bound, Env!Idle
    <3> QED BY <3>1, <3>2
  <2>2. \A t \in Scans : place'[t] = "in" => active'[ProcessOf[t]] = t BY <1>1 DEF Bound
  <2>3. \A j \in Jobs : place'[j] = "in" => phase'[j] = "scanning" BY <1>1 DEF Bound
  <2> QED BY <2>1, <2>2, <2>3 DEF Bound
<1>5. ToolsInContainers'
  <2>1. \A t \in Scans : call'[t].at # "host" BY <1>2, NeverOnHost
  <2>2. \A t \in Scans : place'[t] = "in" /\ Undisturbed(t)' => running' = Tools
    BY <1>1 DEF ToolsInContainers, Undisturbed
  <2> QED BY <2>1, <2>2 DEF ToolsInContainers
<1>6. LeftoversExplained'
  <2>1. ~trouble' => /\ running' # {} => \E t \in Scans : place'[t] = "in"
                     /\ \A o \in orphans' : place'[o[1]] = "in"
    BY <1>1 DEF LeftoversExplained
  <2>2. ASSUME NEW t \in temp' PROVE ~Env!Idle(t)'
    <3>1. t \in Scans BY <1>3 DEF EnvTypes
    <3>2. CASE t # s
      <4>1. t \in temp BY <1>1, <3>2
      <4> QED BY <4>1, <3>1, <3>2, <1>2 DEF LeftoversExplained, Env!Idle
    <3>3. CASE t = s
      <4>1. s \notin temp \ {s} BY DEF EnvTypes
      <4>2. PICK u \in Tools, at \in {"container", "gone"} :
               call' = [call EXCEPT ![s] = [tool |-> u, at |-> at]] BY <1>1, <3>3, <4>1
      <4>3. call'[s] = [tool |-> u, at |-> at] BY <4>2 DEF EnvTypes
      <4>4. call'[s].at # "nowhere" BY <4>3
      <4> QED BY <3>3, <4>4 DEF Env!Idle, Env!NoCall
    <3> QED BY <3>2, <3>3
  <2> QED BY <2>1, <2>2 DEF LeftoversExplained
<1> QED BY <1>3, <1>4, <1>5, <1>6

\* An orphaned command ends, or nothing of the environment changes.
LEMMA RestKeeps ==
    ASSUME EnvInv, \A j \in Jobs : phase[j] = "scanning" => phase'[j] = "scanning" \/ place[j] # "in",
           \/ UNCHANGED environment
           \/ Env!OrphanEnds
    PROVE  EnvInv'
<1>1. UNCHANGED <<active, running, place, call, temp, trouble>> /\ orphans' \subseteq orphans
  BY DEF environment, Env!OrphanEnds, Env!commands
<1>2. EnvTypes' /\ Bound' BY <1>1, ServedAssumption DEF EnvInv, EnvTypes, Bound, Env!Idle, Scans
<1>3. ToolsInContainers' BY <1>1 DEF EnvInv, ToolsInContainers, Undisturbed
<1>4. LeftoversExplained' BY <1>1 DEF EnvInv, LeftoversExplained, Env!Idle
<1> QED BY <1>2, <1>3, <1>4 DEF EnvInv

-----------------------------------------------------------------------------
LEMMA EnvStarts == ServedInit => EnvInv
<1> SUFFICES ASSUME ServedInit PROVE EnvInv
    OBVIOUS
<1>1. /\ active = [p \in Env!Processes |-> "none"] /\ running = {} /\ orphans = {}
      /\ place = [s \in Scans |-> "before"] /\ call = [s \in Scans |-> Env!NoCall]
      /\ temp = {} /\ trouble = FALSE
  BY DEF ServedInit, Env!Init, Env!NoScan
<1>2. EnvTypes BY <1>1 DEF EnvTypes
<1>3. Bound BY <1>1 DEF Bound, Env!Idle, Scans
<1>4. ToolsInContainers BY <1>1 DEF ToolsInContainers, Env!NoCall
<1>5. LeftoversExplained BY <1>1 DEF LeftoversExplained
<1> QED BY <1>2, <1>3, <1>4, <1>5 DEF EnvInv

\* What the steps of a job do to its phase, and to no other's.
LEMMA PhaseOnly ==
    ASSUME TypeOK, NEW j \in Jobs, Post(j) \/ JobThread(j) \/ Raise(j)
    PROVE  /\ \A k \in Jobs : k # j => phase'[k] = phase[k]
           /\ StartScan(j) => phase'[j] = "scanning" /\ runLock = NoJob
BY DEF TypeOK, Post, JobThread, Raise, Validate, StartScan, FinishScan, StartAgent, LeaveLock,
   WriteReports, Publish, ReportError, Assign, Enter

\* Every step of the served system, under the lock.
LEMMA ServedKeeps ==
    ASSUME EnvInv, JobsInv, [ServedNext]_servedVars
    PROVE  EnvInv'
<1> USE DEF JobsInv
<1>1. ASSUME NEW j \in Jobs, JobPostedOrRaises(j) \/ JobGoesOn(j) PROVE EnvInv'
  <2>1. UNCHANGED environment /\ phase[j] # "scanning"
    BY <1>1 DEF JobPostedOrRaises, JobGoesOn, Post, Validate, StartAgent, LeaveLock, WriteReports,
       Publish, ReportError, Assign, Enter
  <2>2. \A k \in Jobs : k # j => phase'[k] = phase[k]
    BY <1>1, PhaseOnly DEF JobPostedOrRaises, JobGoesOn, JobThread
  <2> QED BY <2>1, <2>2, RestKeeps
<1>2. ASSUME NEW j \in Jobs, JobEnters(j) PROVE EnvInv'
  <2>1. StartScan(j) /\ Entered(j) /\ j \in Scans BY <1>2 DEF JobEnters, Scans
  <2>2. /\ \A k \in Jobs : k # j => phase'[k] = phase[k]
        /\ phase'[j] = "scanning" /\ runLock = NoJob
    BY <2>1, PhaseOnly DEF JobThread
  <2>3. \A k \in Jobs : phase[k] # "scanning" BY <2>2, JobsAssumption DEF LockHeld, InLock
  <2>4. \A t \in Scans : ProcessOf[t] = ProcessOf[j] => place[t] # "in"
    <3>1. place[j] = "before" BY <2>1, EnteredFacts DEF EnvInv
    <3>2. ASSUME NEW t \in Scans, ProcessOf[t] = ProcessOf[j] PROVE place[t] # "in"
      <4>1. t \in Jobs BY <2>1, <3>2, SameProcess
      <4> QED BY <4>1, <2>3 DEF EnvInv, Bound
    <3> QED BY <3>2
  <2>5. \A k \in Jobs : place'[k] = "in" => phase'[k] = "scanning"
    <3>1. place' = [place EXCEPT ![j] = "in"] \/ place' = [place EXCEPT ![j] = "broken"]
      BY <2>1, EnteredFacts DEF EnvInv
    <3>2. \A k \in Jobs : k # j => place'[k] = place[k] BY <3>1 DEF EnvInv, EnvTypes, Scans
    <3> QED BY <2>2, <3>2 DEF EnvInv, Bound
  <2> QED BY <2>1, <2>4, <2>5, EntersKeep
<1>3. ASSUME NEW s \in Scans, Left(s), \A k \in Jobs : k # s => phase'[k] = phase[k] PROVE EnvInv'
  <2>1. \E to \in {"left", "broken"} : place' = [place EXCEPT ![s] = to]
    BY <1>3, LeftFacts DEF EnvInv
  <2>2. /\ place'[s] # "in"
        /\ \A k \in Jobs : k # s => place'[k] = place[k]
    BY <2>1 DEF EnvInv, EnvTypes, Scans
  <2>3. \A k \in Jobs : place'[k] = "in" => phase'[k] = "scanning"
    BY <1>3, <2>2 DEF EnvInv, Bound
  <2> QED BY <1>3, <2>3, LeavesKeep
<1>4. ASSUME NEW j \in Jobs, JobWorks(j) PROVE EnvInv'
  BY <1>4, WorksKeep DEF JobWorks, Scans, vars, jobVars
<1>5. ASSUME NEW j \in Jobs, JobLeaves(j) PROVE EnvInv'
  <2>1. j \in Scans /\ Left(j) BY <1>5 DEF JobLeaves, Scans
  <2>2. \A k \in Jobs : k # j => phase'[k] = phase[k]
    BY <1>5, PhaseOnly DEF JobLeaves, JobThread
  <2> QED BY <2>1, <2>2, <1>3
<1>6. ASSUME NEW j \in Jobs, JobRaises(j) PROVE EnvInv'
  <2>1. \A k \in Jobs : k # j => phase'[k] = phase[k] BY <1>6, PhaseOnly DEF JobRaises
  <2>2. CASE place[j] = "in" BY <1>3, <1>6, <2>1, <2>2 DEF JobRaises, Scans
  <2>3. CASE place[j] # "in" BY <1>6, <2>1, <2>3, RestKeeps DEF JobRaises
  <2> QED BY <2>2, <2>3
<1>7. ASSUME NEW c \in CliScans, CliRuns(c) PROVE EnvInv'
  <2>1. c \in Scans /\ c \notin Jobs /\ UNCHANGED phase
    BY <1>7, ServedAssumption DEF CliRuns, Scans, vars, jobVars
  <2>2. CASE Entered(c)
    <3>1. /\ place[c] = "before"
          /\ place' = [place EXCEPT ![c] = "in"] \/ place' = [place EXCEPT ![c] = "broken"]
      BY <2>1, <2>2, EnteredFacts DEF EnvInv
    <3>2. \A t \in Scans : ProcessOf[t] = ProcessOf[c] => place[t] # "in"
      BY <2>1, <3>1, SameProcess
    <3>3. \A k \in Jobs : place'[k] = place[k] BY <2>1, <3>1 DEF EnvInv, EnvTypes, Scans
    <3>4. \A k \in Jobs : place'[k] = "in" => phase'[k] = "scanning"
      BY <2>1, <3>3 DEF EnvInv, Bound
    <3> QED BY <2>1, <2>2, <3>2, <3>4, EntersKeep
  <2>3. CASE Env!Working(c) BY <2>1, <2>3, WorksKeep
  <2>4. CASE Left(c) BY <2>1, <2>4, <1>3
  <2> QED BY <1>7, <2>2, <2>3, <2>4 DEF CliRuns
<1>8. ASSUME Orphaned PROVE EnvInv'
  BY <1>8, RestKeeps DEF Orphaned, vars, jobVars
<1>9. ASSUME UNCHANGED servedVars PROVE EnvInv'
  BY <1>9, RestKeeps DEF servedVars, vars, jobVars
<1> QED BY <1>1, <1>2, <1>4, <1>5, <1>6, <1>7, <1>8, <1>9 DEF ServedNext

\* A step of the served system is one of its jobs', or none of theirs.
LEMMA ServedStep ==
    ASSUME [ServedNext]_servedVars
    PROVE  [Next]_vars
<1>1. ASSUME NEW j \in Jobs,
             \/ JobPostedOrRaises(j) \/ JobGoesOn(j) \/ JobEnters(j)
             \/ JobLeaves(j) \/ JobRaises(j)
      PROVE  Next
  BY <1>1 DEF JobPostedOrRaises, JobGoesOn, JobEnters, JobLeaves, JobRaises, Next, JobThread
<1>2. ASSUME \/ \E j \in Jobs : JobWorks(j)
             \/ \E c \in CliScans : CliRuns(c)
             \/ Orphaned \/ UNCHANGED servedVars
      PROVE  UNCHANGED vars
  BY <1>2 DEF JobWorks, CliRuns, Orphaned, servedVars
<1> QED BY <1>1, <1>2 DEF ServedNext

\* The jobs of the served system, with the containers of every scan, are those of
\* WebJobs: one step of run_scan there stands for the tool commands here.
THEOREM ServedIsWebJobs == ServedSpec => Spec
<1>1. ServedInit => Init BY DEF ServedInit
<1>2. [ServedNext]_servedVars => [Next]_vars BY ServedStep
<1> QED BY <1>1, <1>2, PTL DEF ServedSpec, Spec

\* The scans' places, calls and containers, in every reachable state.
THEOREM EnvInvariant == ServedSpec => []EnvInv
<1>1. ServedSpec => []JobsInv BY ServedIsWebJobs, JobsInvariant, PTL
<1>2. ServedInit => EnvInv BY EnvStarts
<1>3. EnvInv /\ JobsInv /\ [ServedNext]_servedVars => EnvInv' BY ServedKeeps
<1> QED BY <1>1, <1>2, <1>3, PTL DEF ServedSpec

\* No tool command runs on the host, and a job's containers stay while it uses
\* them, for any number of jobs, of scans of the command line and of tools.
THEOREM CommandsInContainers == ServedSpec => []ToolsInContainers
<1>1. EnvInv => ToolsInContainers BY DEF EnvInv
<1> QED BY <1>1, EnvInvariant, PTL

\* What outlives its scan is put down to a compose command that failed.
THEOREM LeftoversAccounted == ServedSpec => []LeftoversExplained
<1>1. EnvInv => LeftoversExplained BY DEF EnvInv
<1> QED BY <1>1, EnvInvariant, PTL

\* The scans of the command line, which take no lock, disturb neither what the
\* readers of the jobs can tell of them nor the order in which the jobs scan.
THEOREM ServedQueue == ServedSpec => QueueSpec /\ []OneScanAtATime
BY ServedIsWebJobs, QueueImplemented, ScansExclusive, PTL
=============================================================================
