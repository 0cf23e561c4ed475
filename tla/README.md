# A verification project for `reconnaissance`

`reconnaissance` (`src/reconnaissance`) maps the HTTP surface of one authorized web
application. It runs five third-party tools in containers, feeds what they find back into
them until nothing new appears or a budget ends the scan, and keeps an inventory in SQLite.
Whatever the tools send goes through a forward proxy that enforces the scope, a rate, a
kill-switch and a concurrency limit. A small web UI queues scans, and an optional layer lets
a language model read JavaScript.

This directory holds TLA+ models of these parts, TLC runs that check them on small
instances, and TLAPS proofs for every value of the constants. It covers what the unit tests
under `src/tests` hardly reach: threads that share counters, a kill-switch that trips while
a stage is waiting, exceptions in the middle of a scan, the order in which tools report, and
the convergence loop over all the answers that a site could give.

Contents: [inventory](#inventory) · [modules](#modules) · [runs](#runs) ·
[disagreements](#where-code-and-text-disagree) · [fairness](#fairness) ·
[proofs](#proofs) · [not modelled](#not-modelled) · [plan](#plan)

## Inventory

| part | state it keeps | operations | what makes it correct |
|---|---|---|---|
| `RateLimiter` (`adapters/egress.py`) | tokens, time stamp, a lock | `try_acquire` | bursts in any window are bounded; a patient caller is granted |
| `ProxyPolicy`, `EgressProxy` (`adapters/egress.py`) | request count, semaphore, a thread per connection | `check`, `method_allowed`, `slot`, the `do_*` handlers, `start`, `stop` | the kill-switch bounds what leaves; no slot leaks; only traffic in policy; nobody waits for a slot for ever |
| pipeline (`pipeline.py`) | the scan context: ledger, seeds, baseline, replay targets, counters | `run_scan` and its stages | the loop ends; stop reasons are accounted for; what is reported is used in scope only; replays go out once; the proxy is closed on every way out |
| tool environment (`adapters/execution.py`) | process-wide `_ACTIVE`, the compose stack, commands still running in it | enter, exit, `run_command` | no tool runs on the host; containers stay up under the scan that uses them; what is left behind has a cause |
| store (`adapters/store.py`) | four tables | `create_scan`, `add_endpoint`, `add_parameter`, `add_secret`, `log_error`, `finish_scan` | no duplicates; a row tells all that was reported of it |
| web UI (`web.py`) | job table, `run_lock` | POST a job, the job's thread, job and report pages | one scan at a time; the queue moves; only final inventories are shown |
| agent layer (`agent.py`, `adapters/llm.py`) | the conversation, a call counter, a proxy of its own | `enrich`, `drive`, two tools | legal conversation, bounded cost, never off target, no proxy left behind |
| scope rules (`scope.py`, `models.py`) | none | `normalize_url`, `path_pattern`, `is_in_scope`, `absolutize` | verdicts and keys agree between spellings of one URL |
| tool adapters (`adapters/tools`) | none | build argv, parse output row by row | one bad row takes nothing from the others; what ends a scan is known |
| spec reader (`adapters/tools/apispec.py`) and its stage | none | classify, walk, record | each operation is counted, expanded and recorded, with its own parameters |
| source-map reader (`adapters/tools/sourcemap.py`) | none | unpack sources | |
| command line (`__main__.py`), report (`report.py`) | a database and a report file that outlive the process | `main`, `build_report` | exit code 0 means that this scan was reported; a truncated scan is shown as one |

How they interact. A job thread of the web UI takes `run_lock` and calls `run_scan`, which
enters the tool environment and the proxy through one `ExitStack`. A stage blocks while its
tool runs. During that time the tool's connections are served by the proxy's handler threads
under the policy that the pipeline created and whose `request_count` it reads between passes.
Stages write to the store through `_record_endpoint`. After the scan the agent layer may write
to the same inventory, behind a second proxy. GET handlers of the web UI read a job's fields
while its thread is assigning them.

What is hard about it: the policy is shared by all handler threads and is checked long before
the connection is dialled; slots are taken without a timeout; the kill-switch and the clock
move while a stage waits; any stage may raise; leaving the containers may itself raise; the
ledger's verdicts depend on the iteration order of a set; the replay iterates over a
dictionary to which its own bookkeeping writes. `PROJECT.json` lists these hazards line by
line, each with the properties that would catch it going wrong.

## Modules

Each slip that the code could plausibly have is kept beside the definition that it would
spoil (its comment says "a slip"). These operators are not part of any specification; they
serve to show that the property in question would notice.

**`RateLimiter`** is the token bucket. One call is one step, because the code reads the clock
inside its lock. Time is counted in ticks and the bucket in units, so that every rational rate
is exact. `grants` is a history variable.

**`AdmissionGate`** is the abstract promise of the proxy: connections are opened only against
admissions, admissions stop at `MaxRequests`, and at most `MaxConcurrency` are open.

**`EgressProxy`** instantiates `RateLimiter` and adds the policy and the handler threads.
`pc[c]` is where the thread of connection `c` stands:

| `pc` | in the code |
|---|---|
| `none`, `reading`, `closed` | before accept; between requests; after the connection ended |
| `method`, `body` | `_forward_simple` after `check`, before the slot |
| `waiting` | blocked in `slot()` |
| `connecting`, `relaying`, `stalled` | inside `with slot()`: dialling, copying, blocked in `sendall` to a client that does not read |

`Admit`, `Refuse` and `RefuseByRate` are the outcomes of `check`; each is one step, as the code
holds the policy's lock throughout. The scope check in front of the lock reads only immutable
data. `GateSpec` states that this module implements `AdmissionGate` under the mapping
`admitted <- count, active <- Holders`, and `LimiterSpec` that it implements `RateLimiter`.

**`ScanPipeline`** is `run_scan`. A stage is one step, taken when its tool has ended; `Traffic`
(the proxy counting and refusing the tools' requests) and `ClockTick` interleave with it, and
`Raise` may replace it (also at the start and the end, outside any stage). A URL is an atom
with a normal form, a path pattern and a scope verdict. A tool's answer is any small set of
endpoints. `Frontier` is the set comprehension with the ledger's side effect: `Admissible` is
what some iteration order could yield. `Unwind` may leave the containers up and go on to finish
the scan, because `__exit__` does not look at the exit code of `compose down`. The history
variables `sent`, `refused`, `strayed` and `handed` (the patterns of the URLs given to the
crawler, whether or not its call succeeds) record what the properties ask about and guard nothing, with one exception: `sent` is
also the position of the replay's loop.

**`ScanLifecycle`** is what a scan promises to those who read its database and to the owner of
the target: one row, opened once and finished at most once; an inventory that only grows, and
only until then; replays only by leave, only of what the inventory holds, one for each operation.
`LifecycleSpec` states that `ScanPipeline` implements it, with `row <- scanRow`,
`inventory <- rows`, `replayed <- sent`.

**`WebJobs`** is the job runner: a thread per job with `run_lock`, exceptions of caught classes
(`failing`) and of the others (`died`), the final assignments one by one, and viewers that read
between them. `run_scan` is the pair `StartScan`, `FinishScan` here.

**`JobQueue`** is the promise of the web UI without locks, threads or fields: a job is worked on
at most once, alone, and settled at most once, or lost. `QueueSpec` states that `WebJobs`
implements it; `JobState` maps a thread's phase and its job's status to the state of the job.

**`ToolEnvironment`** is `adapters/execution.py`: `available`, the compose commands with the ways
in which they fail, the environment that a process has bound, the routing of a command to the
containers or the host, and what a timeout leaves behind (the docker client is killed, the command
in the container goes on). It has no `Next` of its own. **`ServedScans`** composes it with
`WebJobs`: where that has `StartScan` and `FinishScan`, a job here enters the environment, makes
tool calls and leaves it, and an exception on the way leaves it too. Scans from the command line
do the same in processes of their own, which no `run_lock` holds back.

**`ScanStore`** holds the tables of one scan and the history of reports. `status`, `length` and
`sig` stand for the columns that are filled by `COALESCE`; `sig` is the one computed from two
others.

**`ScopeRules`** has the rules of `scope.py` as operators on URL records (`NormalForm`,
`PathPattern`, `InScope`, `ValidTarget`, `Against`, `Below`), and as a state machine the way of a
reference through the pipeline: found, resolved, filtered, recorded, handed on. The routes differ
in which spelling they use where, and that is what its properties are about.

**`ToolOutput`** reads an answer of each of the five tools row by row. A row is abstracted to what
a wrapper can tell of it: whether it is JSON, whether its URL is missing, blank, a script or
one that `urlsplit` refuses, the status, the type of the content type, the names. **`SpecReader`**
is `walk_spec` for OpenAPI 3 and Swagger 2 documents, one entry of a path item per step, and the
stage that records what it expanded. **`Readers`** puts the two side by side, so that one run
checks both: a behaviour is the reading of either one answer or one document.

**`CommandLine`** is `main`, run again and again on one database and one report file. The scan and
the agent layer are what they send, what they store and how they end; `build_report` is the second
reading of the store that it is.

**`AgentLoop`** is `enrich` with `drive`. A reply of the model is any batch of calls together
with any stop reason.

## Runs

All passing runs are exhaustive. Deadlock is checked for the limiter only. The other systems may
stop: scans and layers end, connections close, jobs end, reports and answers run out.

| run | instance | distinct states | shows |
|---|---|---|---|
| `limiter` | bucket of 6 units, token of 4, refill 3 per tick, 10 ticks | 3 thousand | `WindowBound`, `PatientCallerGranted` |
| `egress` | 3 connections, 2 slots, 3 requests, 2 tokens of burst, 2 more in the one tick | 110 thousand | `SlotsAccounted`, `DialsPaidFor`, `OnlyPolicyTraffic`, `WaitersServed`, refinement of the gate and of the limiter |
| `pipeline` | 8 URLs, 5 patterns, base page and `robots.txt` out of scope, 3 passes, 2 requests, cap 2, answers of at most 2 endpoints | 1.9 million | `TypeOK`, `FrontierAdmitted`, `StopReasonAccounted`, `ReplayedOnce`, `ReplayOnlyReplays`, `ProxyAroundTools`, `OnlyBaseStrays`, `Terminates`, refinement of `ScanLifecycle` |
| `web` | 3 jobs, one with the agent, one viewer | 139 thousand | `OneScanAtATime`, `ServedReportsFinal`, `DoneHasResults`, refinement of `JobQueue` |
| `environment` | 2 jobs, one with the agent, a scan from the command line, 2 tools, 1 call each | 140 thousand | `ToolsInContainers`, `LeftoversExplained`, `QueueMoves` |
| `store` | 2 endpoints, 2 sources, 3 reports | 416 thousand | `NothingTwice`, `RowsTellAll`, `SignatureOfStatus` |
| `scope` | 13 targets, 429 references, 5 segments, 3 hosts | 31 thousand | `VerdictSurvives`, `KeyIsRequest`, `ParametersStayWithRequest` |
| `readers` | answers of at most 3 rows from 100 kinds of rows, 3700 documents | 122 thousand | `EveryUsableRow`, `RaisedByItsRow`, `OperationsRecorded`, `OwnParams` |
| `agent` | 3 arguments (in scope, out of it, malformed), 3 calls, batches of at most 2 | 9 thousand | `ConversationLegal`, `CostBounded`, `NeverOffTarget`, `EndsWithoutProxy` |
| `command_line` | 3 runs with the agent layer, 2 requests for each proxy, 3 rows a scan | 333 thousand | `ZeroMeansReported`, `PartialSaid` |
| `truncation`, `stuck_job` | the instance of `pipeline`; two jobs | until refuted | the disagreements below |

Why the bounds are enough to be interesting. In `limiter` a token is not a multiple of a tick's
refill, so fractions occur, and ten ticks see the bucket emptied and refilled several times. In
`egress` there are more connections than slots and than tokens, and as many as units of the
kill-switch; a kept-alive connection sends several requests, so refusals of all three kinds are
reached. In `pipeline` a site is scanned from its root under a path prefix, so that the base page
and `robots.txt` lie out of scope; one page has two spellings, a third with userinfo that is out of
scope too, and a state-changing operation; one pattern has two pages; the passes can run out, the kill-switch trips in the middle of a pass, and the endpoint budget is below
the number of endpoints. In `web` two jobs wait while a third holds the lock. In `environment` one job can wait for, fail before and
follow another, while a scan of another process comes up and goes down around both; a tool of each
kind (answer on standard output, answer in a file) is called, and one call of a scan is enough for
a command to be orphaned and met by the next scan. In `store` three reports allow a column to be
filled, left and filled again. In `scope` the references differ from a URL of the target in
several respects at a time (scheme, capitals, port, path, white space, fragment), and each fault
that the rules look for occurs by itself. In `readers` a bad row stands before, between and after
good ones. In `agent` a cap of three with batches of two is always reached inside a batch. In
`command_line` a first run leaves a report behind that a second and a third can fail to replace.
The names of these bounds are the constants `MaxClock`, `MaxFound`, `MaxReports`, `MaxErrors`,
`MaxBatch`, `MaxCalls` of the environment, `MaxRuns` and `MaxRows`; the other limits
(`MaxRequests`, `MaxPasses`, `PerPatternCap`, `MaxCalls` of the agent, ...) are parameters of the
program itself. The store run uses symmetry over endpoints, tools and statuses; none of its
properties is temporal.

Properties worth reading first:

- `DialsPaidFor`: dials made, plus handlers on their way to one, never exceed the units taken
  from the kill-switch. `check` is under a lock, but the dial that it pays for happens much
  later, after a method check, a body and a wait for a slot.
- `WaitersServed`: provided exchanges are finite, a handler that waits for a slot gets it. The
  premise is real: `sendall` to a client that stopped reading has no timeout, so a client that
  never reads again keeps its slot. Without the idle timeout of the tunnel, or the connect
  timeout that stays on a cleartext socket, the property fails.
- `StopReasonAccounted`: a scan reported as converged has handed a URL of every pattern that
  its ledger admitted to the crawler. It relates the count taken before a pass, the ledger's
  verdicts in the pass, and what earlier passes handed over. It does not say that the crawler got
  an answer: a failed or refused call converges just as well, which `truncation` shows.
- `OnlyBaseStrays`: under a path prefix the scan's own base page and well-known documents may lie
  out of scope. They are used and recorded unchecked; nothing that the target, an archive or a
  specification reports is.
- `ProxyAroundTools`: the proxy, and with real tools the containers, are up whenever a stage may
  wait for a tool, and the proxy is closed before the scan is finished and on every other way out.
  It does not say that the containers are down by then: see `LeftoversExplained`.
- `ReplayOnlyReplays`: the destructive stage iterates over a dictionary while `_record_endpoint`
  writes to it. It is safe only because the key that is written is always already there.
- `ToolsInContainers`: `run_command` runs a tool on the host whenever no environment is bound,
  every scan that ends unbinds it for the whole process, and yet no scan's command finds it so;
  `run_lock` is what makes it true. The property also says how far this goes: the containers are
  the machine's, and a scan of another process takes them down under a job.
- `LeftoversExplained`: containers, and commands that a timeout left running inside them, outlive
  their scan only if a compose command failed, and only until the next one that succeeds.
- `VerdictSurvives`: the filter looks at one spelling of a URL, the row's verdict is computed from
  a second and the next tool is given a third; they agree.

## Where code and text disagree

Two runs each check one property, taken from a text of the repository, that TLC refutes.

| run | text | what the code does |
|---|---|---|
| `truncation` | `TerminationReason`: "surfaced so a truncated scan is not mistaken for a complete one" | a kill-switch that trips in the middle of a pass starves the tools, nothing new is found, and the scan is *converged* |
| `stuck_job` | `_enrich`: "a failure here must not fail the scan"; status is `running \| done \| error` | exceptions outside the listed classes end the thread and leave the job running |

Others were met while modelling. They are in the models, which behave as the code does, but have
no run of their own: each is visible at one line, and the last column says how to see it in a model.

| where | text | what the code does | to see it |
|---|---|---|---|
| `adapters/egress.py:65` | `try_acquire`: "return False if the bucket is empty" | below one request per second the capacity is below one token, and every call is refused for ever | theorem `SlowRateGrantsNothing` |
| `pipeline.py:320` | `log_error`: "so partial coverage is auditable" | only a missing binary is logged, and inside the containers not even that | `ToolEnded` and `Ends` of `ScanPipeline` |
| `pipeline.py:347` | `--path-prefix`: "Restrict active scanning to this path prefix." | targets that the pipeline derives from the base URL (its soft-404 path at line 346, the well-known documents) are not checked | `strayed = {}` fails in `pipeline`; `OnlyBaseStrays` says that it goes no further |
| `scope.py:136` | `is_in_scope`: "Non-raising variant" | the `ValueError` of half a bracketed host ends the scan | `Abort` of `ScopeRules` |
| `adapters/execution.py:29` | `__enter__`: "starts every tool service and binds itself as the active environment" | the services are the machine's: a second process takes the containers of the first down | `ToolsInContainers` without `Undisturbed` |
| `adapters/execution.py:149` | `DockerToolEnvironment`: "on exit it unbinds and tears the stack down" | the exit code of `compose down` is not looked at | `LeftoversExplained` without `trouble` |
| `adapters/tools/arjun.py:73` | `find_params`: "On a missing binary or non-zero exit, the params tuple is empty" | it is always empty: the file that is read is on the host, the tool wrote in its container, and no volume joins the two (`ffuf.py` likewise) | `temp` of `ToolEnvironment` is on the host, and no action copies a result into it |
| `agent.py:168` | `--max-requests`: "Global request kill-switch."; `enrich`: "the same policy as the pipeline" | the layer's policy counts anew and has a rate of its own, so a run may send twice as many | `sent.scan + sent.layer <= MaxRequests` in `CommandLine` |
| `__main__.py:110` | `--agent`: "Enable the optional JS-semantics agent layer" | an error of the layer other than `ImportError` ends the run before its finished scan is reported | `scan[run] \in Reasons => report.scan = run` at `exited` in `CommandLine` |
| `adapters/tools/httpx.py:105` | `parse_probe`: "a single malformed line does not abort the whole parse" | a row of white space or a refused URL raises, and the rows before it are lost with it | `Raises` of `ToolOutput` |
| `adapters/tools/apispec.py:181` | `api_surfaces` counts what was found | under a relative server none is recorded, though the surface counts them | `OperationsRecorded`, its last case |
| `adapters/tools/apispec.py:195` | OpenAPI: parameters of a path item apply to its operations | they are dropped | `Declared` of `SpecReader` |

Smaller things met on the way: `--headless` never reaches katana (`pipeline.py:415` passes
`False`); archived URLs are not re-verified by httpx, as the README says, but only seed the
crawl; `allows_passive` lowers the case of the host and not of the configured sources;
`normalize_url` is not idempotent for white space before a fragment; over TLS the proxy counts
tunnels, not requests (`pipeline.py:123`); `_real_http_get` lets exceptions of `http.client`
escape (`pipeline.py:84`); the printed counts precede the agent layer; a merge does not refresh
the classification of an endpoint; references in a specification are followed once, and cookie
parameters dropped; rows are kept under the URL as it was reported (`store.py:148`) and parameters
under its normal form (`pipeline.py:501`), so a URL that a tool or a specification spelled
otherwise has its parameters with a second row; `str.splitlines` splits JSON lines at U+0085.

## Fairness

- `EgressProxy`: a runnable handler is scheduled; a dial ends, because `create_connection` has a
  timeout; a silent relay is cut off (`select` with a timeout in the tunnel, the socket's timeout
  otherwise). These timeouts bound silence and not a relay that goes on moving data: that such
  a relay ends too is the premise of finite exchanges, not a guarantee of the code. Nothing is
  assumed of clients, of the accept loop or of the clock. Weak fairness of taking a slot is
  enough although others may take it first: each of them has paid a unit of the kill-switch, so a
  waiter is overtaken finitely often.
- `ScanPipeline`: one thread whose tools all have a timeout. Weak fairness of the disjunction of
  its steps is all; `Raise`, `Traffic` and `ClockTick` may never happen.
- `WebJobs`: weak fairness of each job's thread. `run_scan` ends by its own timeouts, which is
  what `Terminates` shows of the pipeline.
- `ServedSpec`: a job's thread takes its next step, compose commands end (they have a timeout), and
  the timeout of a tool command comes. That a command ends by itself is not assumed; `QueueMoves`
  holds all the same, and fails for a tool without a timeout.
- `AgentLoop`: the model answers or its call raises.

## Proofs

The theorems stand in eight modules: `RateLimiterProofs`, `EgressProxyProofs`,
`ScanPipelineProofs`, `WebJobsProofs` (the job runner and, on top of it, the tool environment),
`ScanStoreProofs`, `AgentLoopProofs`, `InputProofs` (the readers and the scope rules) and
`CommandLineProofs`. They rest on the assumptions that the modules name:

- positive rates, at least one slot and one pass, a finite site and finitely many operations that
  its specifications and tools may report, finitely many connections and jobs;
- a target host that is not the empty string; arguments in scope are not malformed; the three
  reasons to stop; a normal form that does not leave the scope (`ScanPipeline` takes it as a
  parameter; of the real rules `ScopeOfNormalForm` proves it);
- a NULL of the store is no status, length or signature;
- no job is called `NoJob`, no scan `server` or `none`, and no job is a scan of the command line;
- an empty segment and `{id}` are path segments, and neither is variable; targets, references and
  assets are URLs, in which white space follows a path or a query, if any; the names of a row, and a document's paths, entries, parameters and body
  properties, are sequences. Nothing is assumed of what they say.

*The limiter.* `WindowBound` is not inductive, since it says nothing of the tokens left. Its
strengthening `TokensAccounted` keeps an account: the grants since any past grant, plus the
tokens still in the bucket, are covered by a full bucket and the refill up to the latest call.
A grant moves one token from one side of the account to the other, and a refill adds no more to
the bucket than to the bound. `WindowBound` for a window that ends in the newest grant then
follows from the account, and for any other window from the step before. `PatientCaller` has the
premise `Capacity >= Token`. `SlowRateGrantsNothing` proves the other side: below it, the limiter
never grants at all.

*The proxy.* Its invariant is `TypeOK`, `SlotsAccounted`, `DialsPaidFor` and `PolicyAhead`, which
says that a handler past `check` works for a host in scope, and past the method check on a method
that is allowed. `OnlyPolicyTraffic` speaks of handlers with a slot only and is not inductive
without it. The two counting invariants rest on the lemma `Move` (a handler that goes from one
place to another leaves the one count and joins the other), and the lemma `Kinds` sorts the
actions into a few kinds by what they do to the counts, so that each kind is treated once.
`ProxyImplementsGate` maps every step to an admission, a dial, a hang-up or a stutter;
`ProxyUsesLimiter` maps it to a step of the limiter, and `AdmissionsRateBounded` takes the
limiter's theorem over to the proxy's threads through that refinement.

*The pipeline.* What a stage may rely on is what the stages before it left behind, so the
invariant `IInv` ties the stage to the row, the environment, the stop reason and the loop's
locals. Two of its parts carry the argument. `TargetsInv`: the replay's dictionary has one
target for each operation, in scope and state-changing. From it follow `ReplayedOnce`, and that
recording an answer of the replay finds its row and its key in place (`RecordFacts`, last
clause), which is `ReplayOnlyReplays`. `CrawlInv` follows the admitted patterns through a pass:
before a crawl a URL of each was handed to the crawler or is a seed; at the verdict there is a set
of old patterns, as many as the count taken before the pass, all handed over, and the rest have
seeds. At the verdict an equal count means, for finite sets, that there is nothing but old ones
(`ConvergedStep`), so no admitted pattern was passed over, whatever the iteration order of the set
(`ReasonIsAccounted`). `OnlyBaseEscapes` needs no premise on where the scope lies: rows and targets
are tied to the scope and the URLs made from the base URL (`SeedsInv`). `ProxyIsClosed` follows from
what the `ExitStack` holds at each stage (`EnvInv`), for every outcome of `compose down`.
`LifecycleImplemented` maps each step to
opening, finding, replaying, finishing or a stutter.

`ScanNearsItsEnd` is the part of `Terminates` that needs no fairness. The measure is lexicographic:
the stages and passes that are left, which every step of the thread lowers, a raised error too; and
in the destructive stage, where the scan stays while it replays, the targets not yet sent. That a
replay lowers these is `ReplayFindsNothing` once more: its own answers add no target. Requests that
the proxy counts, and the clock, leave both alone, so they cannot put the end off.

*The job runner.* Its invariant `JobsInv` is `TypeOK` and four parts. `LockHeld`: the lock belongs
to exactly the job whose thread is inside it; `OneScanAtATime` alone is not inductive, since it
allows a thread inside a lock that looks free. `Progressed`: how many of the
assignments that end `_run_job` have been made, and in which order; the two counting lemmas
`PublishCounts` and `FailCounts` say that n assignments leave n fields set, which is how the model
finds the next one. `ScanFinished`: a job that publishes or has published finished its scan.
`PagesTrue`: what a viewer has read is still so, since a field is never taken back and a status
never changes once it says done. `ReportsFinal` and `DoneShowsResults` follow for any number of
jobs and viewers, whatever exceptions escape.

`QueueImplemented` maps every step of a thread to a step of `JobQueue`; that nobody else is
working when a job begins is `LockHeld` once more.

*The tool environment.* `ServedIsWebJobs` shows that the served system, with the scans of the
command line that no lock holds back, still takes no step of a job that `WebJobs` does not take; so
all that is proved of `WebJobs` holds of it, and `JobsInv` is at hand for `EnvInv`. That no command
goes to the host rests on `Bound`: a scan whose command is waited for is inside, and the scan that
is inside is the one its process has bound. `_ACTIVE` is one variable for all jobs of a process, and
what keeps a second job from binding it, or from setting it to None, is `LockHeld`: a job enters
only while nobody holds the lock, and then no job's scan is inside (`ServedKeeps`, step `JobEnters`).
The lemmas `EnteredFacts`, `LeftFacts` and `WorkingFacts` say what entering, leaving and a tool
command do to everything else, and `EntersKeep`, `LeavesKeep` and `WorksKeep` that the invariant
survives them, whoever the scan belongs to.

*The store.* `RowsTellAll` compares a row with the reports so far. In the invariant every row
tells, column by column, what its own reports say (`Tells`); that a merge keeps this is a lemma about
`COALESCE` (`FillFacts`): a column that is known stays, one that is NULL takes the report's value.
No report is without a row, and no row without a report, so `NothingTwice` follows from the keys.

*The readers.* `RaisesExplained` holds for any rows in any number: a wrapper raises in the step that
reads the row to blame, and reads nothing afterwards. `DocumentsRecorded` counts. The invariant
`DocInv` says that the endpoints enumerate the operations before the next entry (`Expand`), one
of each, and that what is recorded is the first of them; `BeforeNextItem` and `BeforeNextEntry` say
how "before" grows, which is where a wrong index or an entry read twice would show.

`RowsAreKept` and `ParamsAreOwn` say what a fold computes of a whole sequence: the names of a row,
and the declarations of an operation. The induction principles of the library take an operator as a
parameter, which the provers cannot instantiate, but induction over a *set* of numbers needs none:
`Least` (of every set of numbers that is not empty there is a least member) follows from the
well-foundedness of the order, and `Induction` from it. With these `NamesFold` and `ParamsFold`
unfold `FoldLeft`, which the community module defines by choosing a function on sets of indices:
such a function exists for every length, and its values on the prefixes of the sequence are a chain
in which each step takes one more element. What holds of the first k elements (`Taken`: the new
names follow the old ones, each once, in the order of their first mention; `Gathered`: one parameter
for each name and location) is then carried along the chain.

`RowsInvariant` ties what the wrapper has gathered to the rows it has read, whole: `PlaceMore` says
that a row that is usable comes after those that were (so each endpoint and each script keeps its
place), and `NamesMore` that the names of a further row neither displace nor repeat an older one.
A name is *earlier* when some mention of it comes before every mention of the other, in row and
position. The one row to break off at leaves nothing behind (`RowEffect` has the other case).

*The scope rules.* `NormalTwice` (a normal form is its own, unless white space stood before a
fragment) and `ScopeOfNormalForm` (what is in scope stays so) carry the rest. The invariant keeps
which routes have put their reference into normal form already and of which spelling the row was
made. `ParametersStay` follows by `RowsOfASeed`: whichever of its two spellings a URL's row and seed
have, the row that is made for its parameters has the pattern and the request of both. `VerdictsAgree`
follows for all routes. `KeysAreRequests` is about one URL:
the ports of two spellings have one normal form exactly if they are effectively one (`PortsAgree`),
and the records agree if their fields do.

*The agent layer.* `ConversationLegal` says nothing of the answers that are still being gathered.
`Gathering` does: while a reply's calls run, the answers so far and the calls left are together
that reply's ids, in order, so that what `drive` hands to the next turn answers exactly the message
before it; and a cap that cuts the reply off ends the conversation too. `CostBounded` needs `Paid`:
every reply but the last, which has a call left to run, has been paid for by a call.
`ConversationNearsItsEnd` counts the steps that are left, which a call lowers by the cap, and a reply
by having a call to run (`Gathering`); and it shows the proxy down at every way to end.

*The command line.* Its properties relate a run to files that outlive it. `CommandLineInv` says
what each stage knows of the scan row, that no run has touched a later one's row, and that the
report file, whichever run wrote it, is about a finished scan. The two sets of reasons agree by
`PartialReasons`.

Type invariants are proved and not run for the limiter, the proxy and the job runner, where other
properties of the run would fail with them.

Only model-checked:

- all liveness (`WaitersServed`, `Terminates`, `QueueMoves`, `EndsWithoutProxy`), which is out of
  the prover's reach, as it rests on fairness and so on `ENABLED`. Of `Terminates` and
  `EndsWithoutProxy` the theorems above prove all but this: that the thread, while it has not
  ended, is able to take a step and does.

Every invariant and every action property that a passing run checks is proved.

## Not modelled

- The HTML of reports and pages, escaping, tables of headers, certificates and technologies: layout.
- Option parsing, form parsing, the home page's list, logging, the container images.
- The command lines of the tools. How they end and what is read of their answers is modelled.
- The source-map reader and the regular expressions for paths and secrets: text in, a set of
  findings out, with no state; their results are inside the choice of what a crawl finds.
- Rounding of floats in the limiter; bytes and headers that the proxy relays; characters of a URL
  below the level of its segments, such as escapes and international host names.
- The effects of a stage that raises half-way: its rows are a subset of those of the whole stage.
- More than one scan in one database, but for the rows that `CommandLine` counts.

## Plan

Done: the limiter, the proxy, the pipeline, the store, the web UI, the tool environment, the
agent layer, the scope rules, the readers and the command line, each with a run; four
refinements; proofs of all safety properties.

1. `ScanPipeline` over the URLs of `ScopeRules`, in place of its parameters `NormOf`, `PatternOf`
   and `InScopeUrls`, on an instance small enough for TLC.
2. The agent layer composed with `EgressProxy`, in place of the set of fetched arguments.
