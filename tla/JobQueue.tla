------------------------------ MODULE JobQueue ------------------------------
(***************************************************************************)
(* What the web UI promises for the jobs posted to it, with nothing about  *)
(* locks, threads or the fields of a job: each is worked on at most once,  *)
(* alone, and settled at most once; it is done only after it was worked    *)
(* on.  A job can also be lost: its thread is gone and nobody settles it.  *)
(***************************************************************************)

CONSTANT Jobs

VARIABLE state

States == {"unknown", "waiting", "working", "worked", "done", "failing", "error", "lost"}

Init == state = [j \in Jobs |-> "unknown"]

Become(j, from, to) == state[j] \in from /\ state' = [state EXCEPT ![j] = to]

Submit(j) == Become(j, {"unknown"}, "waiting")

Work(j) ==
    /\ \A k \in Jobs : state[k] # "working"
    /\ Become(j, {"waiting"}, "working")

EndWork(j) == Become(j, {"working"}, "worked")

Complete(j) == Become(j, {"worked"}, "done")

Fail(j) == Become(j, {"waiting", "working", "worked"}, "failing")

Settle(j) == Become(j, {"failing"}, "error")

Lose(j) == Become(j, {"working", "worked"}, "lost")

Next ==
    \E j \in Jobs :
        \/ Submit(j) \/ Work(j) \/ EndWork(j) \/ Complete(j)
        \/ Fail(j) \/ Settle(j) \/ Lose(j)

Spec == Init /\ [][Next]_state
=============================================================================
