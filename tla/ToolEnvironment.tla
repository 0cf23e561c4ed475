--------------------------- MODULE ToolEnvironment ---------------------------
(***************************************************************************)
(* reconnaissance/adapters/execution.py: the containers that the scans of  *)
(* one machine share, the environment that a process has bound, and the    *)
(* tool commands that run_command routes into the containers.              *)
(*                                                                         *)
(* A compose command is one step of the process that waits for it; a tool  *)
(* command is a step that starts it and one that ends the wait.  The       *)
(* wrappers of ffuf and arjun create a temporary file before the call,     *)
(* read it after an answer and remove it in a `finally'.                   *)
(***************************************************************************)
EXTENDS Integers, FiniteSets

CONSTANTS
    Scans,       \* scans, of any process
    ProcessOf,   \* the process that runs a scan
    Tools,       \* tools; each has a container of its own
    FileTools,   \* those whose answer is a file: ffuf and arjun
    MaxCalls     \* bound: the tool calls of a scan

NoScan == "none"
NoCall == [tool |-> "none", at |-> "nowhere"]
Processes == {ProcessOf[s] : s \in Scans}

VARIABLES
    active,   \* _ACTIVE of each process
    running,  \* the tools whose container is up
    orphans,  \* commands whose caller gave up: they go on in their container
    place,    \* where a scan stands: before, in, left, or broken (by an exception)
    call,     \* the command that a scan waits for, and where it went
    calls,    \* how many it has made
    temp,     \* the scans with a temporary file on the host
    trouble   \* history: a compose command failed, and none has torn the stack down since

-----------------------------------------------------------------------------
Init ==
    /\ active = [p \in Processes |-> NoScan]
    /\ running = {} /\ orphans = {}
    /\ place = [s \in Scans |-> "before"]
    /\ call = [s \in Scans |-> NoCall]
    /\ calls = [s \in Scans |-> 0]
    /\ temp = {}
    /\ trouble = FALSE

Move(s, from, to) == place[s] = from /\ place' = [place EXCEPT ![s] = to]
Bind(s, e) == active' = [active EXCEPT ![ProcessOf[s]] = e]
Idle(s) == call[s] = NoCall
commands == <<call, calls, temp>>

\* available() is False: no docker, or no answer from its daemon.
NoDocker(s) ==
    /\ Move(s, "before", "broken")
    /\ UNCHANGED <<active, running, orphans, commands, trouble>>

\* `compose up' starts what is not running yet.
ComposeUp(s) ==
    /\ Move(s, "before", "in")
    /\ running' = Tools
    /\ Bind(s, s)
    /\ UNCHANGED <<orphans, commands, trouble>>

\* It fails or times out, with any of the containers up; nothing is bound, and
\* as __enter__ raises, no __exit__ will follow.
ComposeUpFails(s) ==
    /\ Move(s, "before", "broken")
    /\ \E started \in SUBSET Tools : running' = running \union started
    /\ trouble' = TRUE
    /\ UNCHANGED <<active, orphans, commands>>

\* The containers outside `kept' are gone, and with them what runs in them.
Remove(kept) ==
    /\ running' = kept
    /\ orphans' = {o \in orphans : o[2] \in kept}
    /\ call' = [x \in Scans |-> IF call[x].at = "container" /\ call[x].tool \notin kept
                                THEN [call[x] EXCEPT !.at = "gone"] ELSE call[x]]

\* A scan that has left makes no more calls.
Forget(s) == calls' = [calls EXCEPT ![s] = 0] /\ UNCHANGED temp

ComposeDown(s) ==
    /\ Idle(s) /\ Move(s, "in", "left")
    /\ Bind(s, NoScan)
    /\ Remove({})
    /\ trouble' = FALSE
    /\ Forget(s)

\* `compose down' exits with an error, which is not looked at, or times out,
\* which raises.
ComposeDownFails(s) ==
    /\ Idle(s)
    /\ \E to \in {"left", "broken"} : Move(s, "in", to)
    /\ Bind(s, NoScan)
    /\ \E kept \in SUBSET running : Remove(kept)
    /\ trouble' = TRUE
    /\ Forget(s)

-----------------------------------------------------------------------------
(* run_command, and the wrapper around it. *)

\* Where a command goes: with no environment bound, onto the host; else to
\* `docker exec', which fails if the container is not there.
Route(s, t) ==
    IF active[ProcessOf[s]] = NoScan THEN "host"
    ELSE IF t \in running THEN "container" ELSE "gone"

RunCommand(s, t) ==
    /\ place[s] = "in" /\ Idle(s) /\ calls[s] < MaxCalls
    /\ call' = [call EXCEPT ![s] = [tool |-> t, at |-> Route(s, t)]]
    /\ calls' = [calls EXCEPT ![s] = @ + 1]
    /\ temp' = IF t \in FileTools THEN temp \union {s} ELSE temp
    /\ UNCHANGED <<active, running, orphans, place, trouble>>

\* The wait is over: the wrapper removes its file.
Return(s) ==
    /\ ~Idle(s)
    /\ call' = [call EXCEPT ![s] = NoCall]
    /\ temp' = temp \ {s}
    /\ UNCHANGED <<active, running, place, calls, trouble>>

\* Exit code zero; what the tool found is no concern of this module.
Answers(s) ==
    /\ call[s].at \in {"container", "host"}
    /\ Return(s)
    /\ UNCHANGED orphans

\* Any other exit code, no such executable, or output that cannot be decoded.
Fails(s) ==
    /\ Return(s)
    /\ UNCHANGED orphans

\* A slip: arjun is given no timeout.
TimesOutUnlessFile(s) ==
    /\ call[s].tool \notin FileTools
    /\ Return(s)
    /\ orphans' = IF call[s].at = "container" THEN orphans \union {<<s, call[s].tool>>} ELSE orphans

\* The timeout kills the docker client; the command in the container goes on.
TimesOut(s) ==
    /\ Return(s)
    /\ orphans' = IF call[s].at = "container" THEN orphans \union {<<s, call[s].tool>>} ELSE orphans

OrphanEnds ==
    /\ \E o \in orphans : orphans' = orphans \ {o}
    /\ UNCHANGED <<active, running, place, commands, trouble>>

Working(s) == (\E t \in Tools : RunCommand(s, t)) \/ Answers(s) \/ Fails(s) \/ TimesOut(s)
=============================================================================
