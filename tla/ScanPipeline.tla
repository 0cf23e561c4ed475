---------------------------- MODULE ScanPipeline ----------------------------
(***************************************************************************)
(* One scan: run_scan and the stages of reconnaissance/pipeline.py.        *)
(*                                                                         *)
(* The pipeline is one thread.  What runs beside it is the traffic of the  *)
(* tools it has started: the egress proxy counts their requests and, at    *)
(* the kill-switch, refuses them, while a stage waits for its tool.  A     *)
(* stage is one step, taken when its tool has answered; Traffic and        *)
(* ClockTick interleave with it.                                           *)
(*                                                                         *)
(* A URL is an atom with a normal form, a path pattern and a place in or   *)
(* out of scope; an endpoint is a method and a URL as the tool spelled it. *)
(* What a tool answers is any small set of endpoints: the soft-404 filter, *)
(* which drops some of them, and the scan of JavaScript bodies, which adds *)
(* some, are inside that choice.                                           *)
(***************************************************************************)
EXTENDS Integers, FiniteSets, FiniteSetsExt

CONSTANTS
    Urls, NormOf, PatternOf, InScopeUrls, DynamicUrls,
    BaseUrl, WellKnownUrls,
    Reports,          \* <<method, url>> pairs a tool may report
    SendDestructive, Wordlist, RealTools,
    MaxEndpoints, MaxRequests, MaxSeconds, MaxPasses, PerPatternCap,  \* Budget
    MaxFound          \* bound: the endpoints one tool call reports

SafeMethods == {"GET", "HEAD", "OPTIONS"}
Patterns == {PatternOf[u] : u \in Urls}
Endpoints == {<<"GET", u>> : u \in Urls} \union Reports

ASSUME PipelineAssumption ==
    /\ IsFiniteSet(Urls) /\ IsFiniteSet(Reports)
    /\ BaseUrl \in Urls /\ WellKnownUrls \subseteq Urls
    /\ InScopeUrls \subseteq Urls /\ DynamicUrls \subseteq Urls
    /\ NormOf \in [Urls -> Urls]
    /\ \A u \in InScopeUrls : NormOf[u] \in InScopeUrls
    /\ {SendDestructive, Wordlist, RealTools} \subseteq BOOLEAN
    /\ {MaxEndpoints, MaxRequests, MaxSeconds, MaxFound} \subseteq Nat
    /\ {MaxPasses, PerPatternCap} \subseteq Nat \ {0}

VARIABLES
    stage,      \* where the scan stands
    env,        \* what is up for the scan: its containers, its proxy
    scanRow,    \* the scan row: absent, open, or the reason it was finished with
    rows,       \* the endpoint rows of the scan
    targets,    \* ctx.destructive_targets: one endpoint per (method, normal URL)
    ledger,     \* _PatternLedger._counts
    passIndex, seeds, discovered, before, reason,  \* locals of _run_stages
    count,      \* policy.request_count
    elapsed,    \* clock() - ctx.start_time
    gaps,       \* the stages in the error log
    sent,       \* history: endpoints replayed by the destructive stage
    refused,    \* history: the kill-switch refused a request of a tool
    strayed,    \* history: URLs out of scope handed to a tool
    handed      \* history: the patterns of the URLs handed to the crawler

locals == <<passIndex, seeds, discovered, before, reason>>
store == <<scanRow, rows, gaps>>
proxy == <<count, refused>>
history == <<sent, strayed, handed>>
vars == <<stage, env, store, targets, ledger, locals, proxy, elapsed, history>>

-----------------------------------------------------------------------------
\* The stages that wait for a tool or for the target.
ToolStages == {"baseline", "probe_base", "well_known", "historical", "api_specs",
               "crawl", "bruteforce", "parameters", "probe", "destructive"}
Stages == ToolStages \union {"create", "containers", "proxy", "pass", "frontier",
                             "verdict", "unwind", "finish", "done", "raised"}

Norms(E) == {NormOf[e[2]] : e \in E}
Gets(U) == {<<"GET", u>> : u \in U}

\* What is left of the endpoints a tool reports; a slip would be to trust it.
ScopedNothing(E) == E
Scoped(E) == {e \in E : e[2] \in InScopeUrls}
Answers(E) == {A \in SUBSET E : Cardinality(A) <= MaxFound}
PatternCount == Cardinality({p \in Patterns : ledger[p] > 0})

\* The key of destructive_targets; a slip would be to key by the URL as found.
RawKey(e) == e
TargetKey(e) == <<e[1], NormOf[e[2]]>>

\* _record_endpoint of every endpoint of E: a row each unless it exists, and the
\* first of the state-changing ones with a key becomes the target of that key.
Record(E) ==
    LET unsafe == {e \in Scoped(E) : e[1] \notin SafeMethods}
        keys == {TargetKey(e) : e \in unsafe} \ {TargetKey(e) : e \in targets}
    IN  /\ rows' = rows \union E
        /\ \E first \in [keys -> unsafe] :
              /\ \A k \in keys : TargetKey(first[k]) = k
              /\ targets' = targets \union {first[k] : k \in keys}

\* URLs handed to a tool.
HandOver(U) == strayed' = strayed \union (U \ InScopeUrls)

\* How a tool call ends: with an answer, with a non-zero exit or a timeout (an
\* empty answer), or with the binary missing (logged, and the stage returns).
\* Inside the containers a missing binary is a non-zero exit of docker.
Ends == {"ok", "failed"} \union (IF RealTools THEN {} ELSE {"missing"})

\* A stage whose tool ended so.
ToolEnded(s, end) == gaps' = IF end = "missing" THEN gaps \union {s} ELSE gaps

KillswitchTripped == count >= MaxRequests
BudgetExhausted == Cardinality(rows) >= MaxEndpoints \/ elapsed >= MaxSeconds

-----------------------------------------------------------------------------
Init ==
    /\ stage = "create"
    /\ env = {}
    /\ scanRow = "absent" /\ rows = {} /\ gaps = {}
    /\ targets = {}
    /\ ledger = [p \in Patterns |-> 0]
    /\ passIndex = 0 /\ seeds = {} /\ discovered = {} /\ before = 0 /\ reason = "none"
    /\ count = 0 /\ refused = FALSE
    /\ elapsed = 0
    /\ sent = {} /\ strayed = {} /\ handed = {}

-----------------------------------------------------------------------------
(* run_scan: the row, then the containers, then the proxy. *)

CreateScan ==
    /\ stage = "create"
    /\ scanRow' = "open"
    /\ stage' = IF RealTools THEN "containers" ELSE "proxy"
    /\ UNCHANGED <<env, rows, gaps, targets, ledger, locals, proxy, elapsed, history>>

\* DockerToolEnvironment is entered.
EnterContainers ==
    /\ stage = "containers"
    /\ env' = env \union {"containers"}
    /\ stage' = "proxy"
    /\ UNCHANGED <<store, targets, ledger, locals, proxy, elapsed, history>>

\* No Docker, or `compose up` fails: __enter__ raises, so __exit__ never runs
\* and the containers that did come up stay.
ContainersFail ==
    /\ stage = "containers"
    /\ env' \in {env, env \union {"containers"}}
    /\ stage' = "raised"
    /\ UNCHANGED <<store, targets, ledger, locals, proxy, elapsed, history>>

StartProxy ==
    /\ stage = "proxy"
    /\ env' = env \union {"proxy"}
    /\ stage' = "baseline"
    /\ UNCHANGED <<store, targets, ledger, locals, proxy, elapsed, history>>

-----------------------------------------------------------------------------
(* _run_stages, up to the loop. *)

\* _establish_soft_404_baseline probes a path beside the base URL.
Baseline ==
    /\ stage = "baseline"
    /\ HandOver({BaseUrl})
    /\ stage' = "probe_base"
    /\ UNCHANGED <<env, store, targets, ledger, locals, proxy, elapsed, sent, handed>>

\* The base URL is recorded as the seed, whatever the probe says.
ProbeBase ==
    /\ stage = "probe_base"
    /\ \E end \in (IF BaseUrl \in InScopeUrls THEN Ends ELSE {"ok"}) : ToolEnded("probe", end)
    /\ Record({<<"GET", BaseUrl>>})
    /\ seeds' = {BaseUrl}
    /\ stage' = "well_known"
    /\ UNCHANGED <<env, scanRow, ledger, passIndex, discovered, before, reason, proxy,
                   elapsed, sent, strayed, handed>>

\* robots.txt and sitemap.xml: recorded when they answer, and the paths in them
\* that are in scope become seeds.
WellKnown ==
    /\ stage = "well_known"
    /\ HandOver(WellKnownUrls)
    /\ \E answered \in SUBSET WellKnownUrls :
        /\ Record(Gets(answered))
        /\ \E A \in Answers(Gets(InScopeUrls)) :
              /\ answered = {} => A = {}
              /\ seeds' = seeds \union Norms(A)
    /\ stage' = "historical"
    /\ UNCHANGED <<env, scanRow, gaps, ledger, passIndex, discovered, before, reason, proxy,
                   elapsed, sent, handed>>

\* gau: every archived URL in scope is recorded in its normal form.
Historical ==
    /\ stage = "historical"
    /\ \E end \in Ends, A \in Answers(Gets(Urls)) :
        /\ end # "ok" => A = {}
        /\ ToolEnded("historical", end)
        /\ Record(Gets(Norms(Scoped(A))))
        /\ seeds' = seeds \union Norms(Scoped(A))
    /\ stage' = "api_specs"
    /\ UNCHANGED <<env, scanRow, ledger, passIndex, discovered, before, reason, proxy,
                   elapsed, sent, strayed, handed>>

\* Spec documents: the operations in scope are recorded, their URLs, as the
\* document spells them, become seeds.
ApiSpecs ==
    /\ stage = "api_specs"
    /\ HandOver(WellKnownUrls)
    /\ \E A \in Answers(Reports) :
        /\ Record(Scoped(A))
        /\ seeds' = seeds \union {e[2] : e \in Scoped(A)}
    /\ stage' = "pass"
    /\ UNCHANGED <<env, scanRow, gaps, ledger, passIndex, discovered, before, reason, proxy,
                   elapsed, sent, handed>>

-----------------------------------------------------------------------------
(* The convergence loop. *)

\* The loop is over: the destructive stage if the user opted in, else the end.
LeaveLoop(why) ==
    /\ reason' = why
    /\ stage' = IF SendDestructive THEN "destructive" ELSE "unwind"

\* A slip: no way out of the last pass.
StopLoopEarlyOnly ==
    /\ stage = "pass"
    /\ passIndex < MaxPasses /\ KillswitchTripped /\ LeaveLoop("killswitch")
    /\ UNCHANGED <<env, store, targets, ledger, passIndex, seeds, discovered, before, proxy,
                   elapsed, history>>

\* The passes have run out, or a limit is found reached before a pass.
StopLoop ==
    /\ stage = "pass"
    /\ \/ passIndex = MaxPasses /\ LeaveLoop("budget_exhausted")
       \/ passIndex < MaxPasses /\ KillswitchTripped /\ LeaveLoop("killswitch")
       \/ /\ passIndex < MaxPasses /\ ~KillswitchTripped /\ BudgetExhausted
          /\ LeaveLoop("budget_exhausted")
    /\ UNCHANGED <<env, store, targets, ledger, passIndex, seeds, discovered, before, proxy,
                   elapsed, history>>

StartPass ==
    /\ stage = "pass"
    /\ passIndex < MaxPasses /\ ~KillswitchTripped /\ ~BudgetExhausted
    /\ before' = PatternCount
    /\ discovered' = {}
    /\ stage' = "crawl"
    /\ UNCHANGED <<env, store, targets, ledger, passIndex, seeds, reason, proxy, elapsed, history>>

\* katana over the seeds, and the JavaScript it found.
Crawl ==
    /\ stage = "crawl"
    /\ HandOver(seeds)
    /\ handed' = handed \union {PatternOf[u] : u \in seeds}
    /\ \E end \in Ends, A \in Answers(Reports) :
        /\ end # "ok" => A = {}
        /\ ToolEnded("crawl", end)
        /\ Record(Scoped(A))
        /\ discovered' = discovered \union Norms(Scoped(A))
    /\ stage' = IF passIndex = 0 /\ Wordlist THEN "bruteforce" ELSE "parameters"
    /\ UNCHANGED <<env, scanRow, ledger, passIndex, seeds, before, reason, proxy, elapsed, sent>>

\* ffuf, on the first pass, below the base URL.
Bruteforce ==
    /\ stage = "bruteforce"
    /\ HandOver({BaseUrl})
    /\ \E end \in Ends, A \in Answers(Gets(Urls)) :
        /\ end # "ok" => A = {}
        /\ ToolEnded("bruteforce", end)
        /\ Record(Scoped(A))
        /\ discovered' = discovered \union Norms(Scoped(A))
    /\ stage' = "parameters"
    /\ UNCHANGED <<env, scanRow, ledger, passIndex, seeds, before, reason, proxy, elapsed, sent, handed>>

\* arjun over the dynamic seeds; a missing binary ends the stage at the first.
Parameters ==
    /\ stage = "parameters"
    /\ LET dynamic == seeds \intersect DynamicUrls IN
        \E end \in (IF dynamic = {} THEN {"ok"} ELSE Ends) :
            /\ ToolEnded("parameters", end)
            /\ IF end = "missing"
               THEN UNCHANGED <<rows, targets>>
               ELSE Record(Gets({NormOf[u] : u \in dynamic}))
    /\ stage' = "frontier"
    /\ UNCHANGED <<env, scanRow, ledger, locals, proxy, elapsed, sent, strayed, handed>>

\* What the ledger admits of the discovered URLs: of each pattern as many as its
\* cap leaves, in the order in which the set happens to be iterated.
OfPattern(U, p) == {u \in U : PatternOf[u] = p}

\* The places left in a pattern; a slip would be to compare with > for >=.
RoomOneMore(p) == PerPatternCap + 1 - ledger[p]
Room(p) == PerPatternCap - ledger[p]

Admissible(U) ==
    {N \in SUBSET U : \A p \in Patterns :
        Cardinality(OfPattern(N, p)) = Min({Room(p), Cardinality(OfPattern(U, p))})}

\* A slip: the pattern count to compare with is taken after the pass.
FrontierResettingBefore ==
    /\ stage = "frontier"
    /\ \E N \in Admissible(discovered \intersect InScopeUrls) :
        /\ seeds' = N
        /\ ledger' = [p \in Patterns |-> ledger[p] + Cardinality(OfPattern(N, p))]
    /\ before' = Cardinality({p \in Patterns : ledger'[p] > 0})
    /\ stage' = "probe"
    /\ UNCHANGED <<env, store, targets, passIndex, discovered, reason, proxy, elapsed, history>>

Frontier ==
    /\ stage = "frontier"
    /\ \E N \in Admissible(discovered \intersect InScopeUrls) :
        /\ seeds' = N
        /\ ledger' = [p \in Patterns |-> ledger[p] + Cardinality(OfPattern(N, p))]
    /\ stage' = "probe"
    /\ UNCHANGED <<env, store, targets, passIndex, discovered, before, reason, proxy, elapsed, history>>

\* httpx over the new frontier.
Probe ==
    /\ stage = "probe"
    /\ HandOver(seeds \intersect InScopeUrls)
    /\ \E end \in (IF seeds = {} THEN {"ok"} ELSE Ends), A \in SUBSET Gets(seeds) :
        /\ end # "ok" => A = {}
        /\ ToolEnded("probe", end)
        /\ Record(A)
    /\ stage' = "verdict"
    /\ UNCHANGED <<env, scanRow, ledger, locals, proxy, elapsed, sent, handed>>

Converged ==
    /\ stage = "verdict"
    /\ PatternCount = before \/ seeds = {}
    /\ LeaveLoop("converged")
    /\ UNCHANGED <<env, store, targets, ledger, passIndex, seeds, discovered, before, proxy,
                   elapsed, history>>

NextPass ==
    /\ stage = "verdict"
    /\ PatternCount # before /\ seeds # {}
    /\ passIndex' = passIndex + 1
    /\ stage' = "pass"
    /\ UNCHANGED <<env, store, targets, ledger, seeds, discovered, before, reason, proxy,
                   elapsed, history>>

-----------------------------------------------------------------------------
(* _stage_destructive: each target once, the kill-switch read before each. *)

Unsent == targets \ sent

\* A slip: the answer is stored under the URL's normal form.
ReplayStoringNormalForm ==
    /\ stage = "destructive"
    /\ ~KillswitchTripped
    /\ \E e \in Unsent :
        /\ sent' = sent \union {e}
        /\ count' \in {count, count + 1}
        /\ Record({<<e[1], NormOf[e[2]]>>}) \/ UNCHANGED <<rows, targets>>
    /\ UNCHANGED <<stage, env, scanRow, gaps, ledger, locals, refused, elapsed, strayed, handed>>

\* The request is one more unit of the kill-switch, unless the proxy refuses it
\* for its rate; an answer is stored as the endpoint's status.
Replay ==
    /\ stage = "destructive"
    /\ ~KillswitchTripped
    /\ \E e \in Unsent :
        /\ sent' = sent \union {e}
        /\ count' \in {count, count + 1}
        /\ Record({e}) \/ UNCHANGED <<rows, targets>>
    /\ UNCHANGED <<stage, env, scanRow, gaps, ledger, locals, refused, elapsed, strayed, handed>>

ReplayEnds ==
    /\ stage = "destructive"
    /\ KillswitchTripped \/ Unsent = {}
    /\ stage' = "unwind"
    /\ UNCHANGED <<env, store, targets, ledger, locals, proxy, elapsed, history>>

-----------------------------------------------------------------------------
(* The way out. *)

\* A slip: the row of a scan that fails is deleted, without its endpoints.
RaiseDeletingRow ==
    /\ stage \in ToolStages \union {"create", "proxy", "finish"}
    /\ scanRow' = "absent"
    /\ reason' = "none"
    /\ stage' = IF stage \in {"create", "finish"} THEN "raised" ELSE "unwind"
    /\ UNCHANGED <<env, rows, gaps, targets, ledger, passIndex, seeds, discovered, before, proxy,
                   elapsed, history>>

\* Any stage may raise (a store error, a value a model class refuses), and so
\* may the calls around them: a rate the limiter refuses, a port that cannot be
\* bound, an inventory that cannot be read back.
Raise ==
    /\ stage \in ToolStages \union {"create", "proxy", "finish"}
    /\ reason' = "none"
    /\ stage' = IF stage \in {"create", "finish"} THEN "raised" ELSE "unwind"
    /\ UNCHANGED <<env, store, targets, ledger, passIndex, seeds, discovered, before, proxy,
                   elapsed, history>>

\* A slip: the proxy is entered outside the ExitStack.
UnwindContainersOnly ==
    /\ stage = "unwind"
    /\ env' \in {env, env \ {"containers"}}
    /\ stage' = IF reason = "none" THEN "raised" ELSE "finish"
    /\ UNCHANGED <<store, targets, ledger, locals, proxy, elapsed, history>>

\* The ExitStack closes the proxy, then `compose down' takes the containers down or
\* fails to: its exit code is not looked at, and the scan goes on as it would.
Unwind ==
    /\ stage = "unwind"
    /\ env' \in {{}, env \ {"proxy"}}
    /\ stage' = IF reason = "none" THEN "raised" ELSE "finish"
    /\ UNCHANGED <<store, targets, ledger, locals, proxy, elapsed, history>>

\* `compose down` times out: the exception leaves run_scan without finish_scan.
UnwindFails ==
    /\ stage = "unwind"
    /\ "containers" \in env
    /\ env' = {"containers"}
    /\ stage' = "raised"
    /\ UNCHANGED <<store, targets, ledger, locals, proxy, elapsed, history>>

FinishScan ==
    /\ stage = "finish"
    /\ scanRow' = reason
    /\ stage' = "done"
    /\ UNCHANGED <<env, rows, gaps, targets, ledger, locals, proxy, elapsed, history>>

-----------------------------------------------------------------------------
(* Beside the pipeline, while a stage waits. *)

\* The proxy admits a request of a tool, or refuses it at the kill-switch.
Traffic ==
    /\ stage \in ToolStages
    /\ \/ count < MaxRequests /\ count' = count + 1 /\ UNCHANGED refused
       \/ KillswitchTripped /\ ~refused /\ refused' = TRUE /\ UNCHANGED count
    /\ UNCHANGED <<stage, env, store, targets, ledger, locals, elapsed, history>>

ClockTick ==
    /\ stage \in ToolStages
    /\ elapsed < MaxSeconds
    /\ elapsed' = elapsed + 1
    /\ UNCHANGED <<stage, env, store, targets, ledger, locals, proxy, history>>

-----------------------------------------------------------------------------
Pipeline ==
    \/ CreateScan \/ EnterContainers \/ ContainersFail \/ StartProxy
    \/ Baseline \/ ProbeBase \/ WellKnown \/ Historical \/ ApiSpecs
    \/ StopLoop \/ StartPass \/ Crawl \/ Bruteforce \/ Parameters
    \/ Frontier \/ Probe \/ Converged \/ NextPass
    \/ Replay \/ ReplayEnds
    \/ Unwind \/ UnwindFails \/ FinishScan

Next == Pipeline \/ Raise \/ Traffic \/ ClockTick

Spec == Init /\ [][Next]_vars

\* Every tool call ends, with an answer or by its timeout, so the pipeline's
\* thread goes on.  Nothing is assumed of traffic or exceptions.
FairSpec == Spec /\ WF_vars(Pipeline)

-----------------------------------------------------------------------------
Reasons == {"converged", "budget_exhausted", "killswitch"}

TypeOK ==
    /\ stage \in Stages
    /\ env \subseteq {"containers", "proxy"}
    /\ scanRow \in {"absent", "open"} \union Reasons
    /\ rows \subseteq Endpoints /\ targets \subseteq rows
    /\ ledger \in [Patterns -> 0 .. PerPatternCap]
    /\ passIndex \in 0 .. MaxPasses
    /\ seeds \subseteq Urls /\ discovered \subseteq Urls
    /\ reason \in {"none"} \union Reasons
    /\ count \in 0 .. MaxRequests

\* However many URLs of a pattern the site shows, and in whatever order, a pass
\* never goes on to more of them than the pattern's visits so far, and these
\* stay within the cap; nothing of the frontier is out of scope.
FrontierAdmitted ==
    stage \in {"probe", "verdict", "pass"} /\ discovered # {} =>
        /\ seeds \subseteq InScopeUrls
        /\ \A p \in Patterns :
              /\ Cardinality(OfPattern(seeds, p)) <= ledger[p]
              /\ ledger[p] <= PerPatternCap

\* The reason a scan is given is accounted for.  A scan that is called converged
\* has handed a URL of every pattern its ledger ever admitted to the crawler: no
\* pattern found on the way was passed over.  Whether the crawler reached it is
\* not said: its call may have failed, or its requests have been refused, which
\* TruncationSurfaced is about.  The other two are given only at their limits.
StopReasonAccounted ==
    /\ reason = "converged" => \A p \in Patterns : ledger[p] > 0 => p \in handed
    /\ reason = "killswitch" => count >= MaxRequests
    /\ reason = "budget_exhausted" =>
          passIndex >= MaxPasses \/ Cardinality(rows) >= MaxEndpoints \/ elapsed >= MaxSeconds

\* A state-changing request goes out only in a scan that opted in, only to a URL
\* in scope, and once for all the spellings of that URL the tools reported.
ReplayedOnce ==
    \A e, f \in sent :
        /\ SendDestructive /\ e[2] \in InScopeUrls /\ e[1] \notin SafeMethods
        /\ e[1] = f[1] /\ NormOf[e[2]] = NormOf[f[2]] => e = f

\* Storing the answers of the replay adds no row and no target: the loop over
\* destructive_targets.values() calls _record_endpoint, which writes to that
\* very dictionary, and would raise if the call ever inserted a key.
ReplayOnlyReplays == [][stage = "destructive" => rows' = rows /\ targets' = targets]_vars

\* The scan implements ScanLifecycle: in every interleaving of stages, traffic and
\* exceptions, its row, its inventory and its replays are as promised there.
OperationOf(e) == <<e[1], NormOf[e[2]]>>
Lifecycle == INSTANCE ScanLifecycle WITH
    row <- scanRow, inventory <- rows, replayed <- sent,
    Replayable <- {e \in Endpoints : e[2] \in InScopeUrls /\ e[1] \notin SafeMethods},
    KeyOf <- OperationOf, Leave <- SendDestructive
LifecycleSpec == Lifecycle!Spec

\* While a stage may wait for a tool, the proxy and the containers are up; and the
\* proxy is closed before a scan is finished in the store, as on every other way
\* out, though `compose down' fail or time out.  The containers may outlive the
\* scan, a finished one too (LeftoversExplained of ServedScans).
ProxyAroundTools ==
    /\ stage \in ToolStages => "proxy" \in env /\ (RealTools => "containers" \in env)
    /\ stage \in {"finish", "done", "raised"} => "proxy" \notin env

\* What the target or an archive reports is given to a tool, and kept, only if it
\* is in scope.  The URLs that the pipeline derives from the base URL itself are
\* not checked: they are used and recorded wherever --path-prefix or --scope-host
\* put the scope.
FromBase == {BaseUrl, NormOf[BaseUrl]} \union WellKnownUrls
OnlyBaseStrays ==
    /\ strayed \subseteq FromBase
    /\ \A e \in rows : e[2] \in InScopeUrls \union FromBase

\* The convergence loop terminates, and with it the scan.
Terminates == <>(stage \in {"done", "raised"})

\* TerminationReason: "surfaced so a truncated scan is not mistaken for a
\* complete one".  A scan whose tools were refused is not reported converged.
TruncationSurfaced == refused => scanRow # "converged"
=============================================================================
