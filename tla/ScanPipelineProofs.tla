------------------------- MODULE ScanPipelineProofs -------------------------
(***************************************************************************)
(* The invariants of ScanPipeline for every site, policy and budget, and   *)
(* the proof that it implements ScanLifecycle.                             *)
(*                                                                         *)
(* None of the properties is inductive as it stands.  What a stage may     *)
(* rely on is what the stages before it have left behind, so IInv ties the *)
(* stage to the row, the environment, the reason and the loop's locals.    *)
(* Two parts carry the argument: TargetsInv, one target for each           *)
(* operation, which makes the replay send each once and find nothing new;  *)
(* and CrawlInv, which follows the admitted patterns through a pass: a URL *)
(* of each was handed to the crawler, or is among the seeds for it.        *)
(***************************************************************************)
EXTENDS ScanPipeline, FiniteSetTheorems, TLAPS

\* The stages before the loop, in a pass, and after the loop.
Early == {"create", "containers", "proxy", "baseline", "probe_base", "well_known",
          "historical", "api_specs"}
InPass == {"crawl", "bruteforce", "parameters", "frontier", "probe", "verdict"}
Late == {"destructive", "unwind", "finish", "done", "raised"}

\* The patterns that the ledger has admitted, and those of a set of URLs.
Admitted == {p \in Patterns : ledger[p] > 0}
PatternsOf(U) == {PatternOf[u] : u \in U}

\* One target for each operation, in scope and state-changing; only they are sent.
TargetsInv ==
    /\ \A e \in targets : e[2] \in InScopeUrls /\ e[1] \notin SafeMethods
    /\ \A e, f \in targets : TargetKey(e) = TargetKey(f) => e = f
SentInv ==
    /\ sent \subseteq targets
    /\ sent # {} \/ stage = "destructive" => SendDestructive
    /\ sent # {} => stage \in Late

\* The scan row follows the stage; only a finished scan has a reason in it.
RowInv ==
    /\ stage = "create" <=> (scanRow = "absent" /\ stage # "raised")
    /\ stage = "raised" => scanRow \in {"absent", "open"}
    /\ stage \notin {"create", "raised", "done"} => scanRow = "open"
    /\ stage = "done" => scanRow \in Reasons

\* What the ExitStack holds: the proxy from StartProxy to the way out, and the
\* containers around it.
EnvInv ==
    /\ stage \in {"create", "containers", "proxy", "finish", "done", "raised"} =>
         "proxy" \notin env
    /\ stage \in ToolStages \union {"pass", "frontier", "verdict"} => "proxy" \in env
    /\ stage \in ToolStages \union {"proxy", "pass", "frontier", "verdict"} =>
         (RealTools => "containers" \in env)
    /\ stage = "containers" => RealTools

\* The reason is chosen when the loop ends, and is accounted for.
ReasonInv ==
    /\ reason # "none" => stage \in Late
    /\ stage = "finish" => reason # "none"
    /\ StopReasonAccounted

\* Endpoints in scope, or made from the base URL.
FromScopeOrBase(E) == \A e \in E : e[2] \in InScopeUrls \union FromBase

\* Only the base URL and the well-known documents are used without a scope check.
SeedsInv ==
    /\ seeds \subseteq InScopeUrls \union {BaseUrl}
    /\ strayed \subseteq FromBase /\ FromScopeOrBase(rows)

\* The loop's locals.
LoopInv ==
    /\ stage \in Early => discovered = {} /\ Admitted = {}
    /\ stage \in InPass => passIndex < MaxPasses
    /\ before \in Nat /\ elapsed \in Nat

\* A URL of each admitted pattern was handed to the crawler or is a seed; at the
\* verdict, those of the patterns of before this pass were handed over, and the
\* patterns admitted since have a seed.
CrawlInv ==
    /\ stage \in {"crawl", "bruteforce", "parameters", "frontier"} => before = PatternCount
    /\ stage \in {"pass", "crawl"} => Admitted \subseteq handed \union PatternsOf(seeds)
    /\ stage \in {"bruteforce", "parameters", "frontier"} => Admitted \subseteq handed
    /\ stage \in {"probe", "verdict"} =>
         \E old \in SUBSET Admitted :
            /\ Cardinality(old) = before
            /\ old \subseteq handed
            /\ Admitted \ old \subseteq PatternsOf(seeds)

\* The inductive invariant.
IInv ==
    /\ TypeOK /\ TargetsInv /\ SentInv /\ RowInv /\ EnvInv /\ ReasonInv
    /\ SeedsInv /\ LoopInv /\ CrawlInv /\ FrontierAdmitted

-----------------------------------------------------------------------------
(* Lemmas about the operators. *)

\* The smaller of two numbers is one of them and exceeds neither.
LEMMA MinOfTwo ==
    ASSUME NEW a \in Int, NEW b \in Int
    PROVE  Min({a, b}) \in {a, b} /\ Min({a, b}) <= a /\ Min({a, b}) <= b
<1> DEFINE P(x) == x \in {a, b} /\ \A y \in {a, b} : x =< y
<1>1. P(a) \/ P(b) OBVIOUS
<1>2. \E x : P(x) BY <1>1
<1> HIDE DEF P
<1>3. P(CHOOSE x : P(x)) BY <1>2
<1>4. Min({a, b}) = CHOOSE x : P(x) BY DEF Min, P
<1> QED BY <1>3, <1>4 DEF P

\* A finite site has finitely many path patterns.
LEMMA PatternsFinite == IsFiniteSet(Patterns)
<1> DEFINE f == [u \in Urls |-> PatternOf[u]]
<1>1. f \in Surjection(Urls, Patterns) BY DEF Surjection, Patterns
<1> QED BY <1>1, FS_Surjection, PipelineAssumption

\* What _record_endpoint does to the rows and targets.
LEMMA RecordFacts ==
    ASSUME NEW E \in SUBSET Endpoints, Record(E), TypeOK, TargetsInv
    PROVE  /\ rows' = rows \union E
           /\ rows' \subseteq Endpoints /\ targets' \subseteq rows'
           /\ targets \subseteq targets'
           /\ \A e \in targets' : e[2] \in InScopeUrls /\ e[1] \notin SafeMethods
           /\ \A e, f \in targets' : TargetKey(e) = TargetKey(f) => e = f
           /\ E \subseteq targets => targets' = targets /\ rows' = rows
<1> DEFINE unsafe == {e \in Scoped(E) : e[1] \notin SafeMethods}
           keys == {TargetKey(e) : e \in unsafe} \ {TargetKey(e) : e \in targets}
<1>1. PICK first \in [keys -> unsafe] :
          /\ \A k \in keys : TargetKey(first[k]) = k
          /\ targets' = targets \union {first[k] : k \in keys}
      BY DEF Record
<1>2. rows' = rows \union E BY DEF Record
<1>3. unsafe \subseteq E /\ \A e \in unsafe : e[2] \in InScopeUrls /\ e[1] \notin SafeMethods
      BY DEF Scoped
<1>4. \A k \in keys : first[k] \in unsafe BY <1>1
<1>5. \A k \in keys, e \in targets : TargetKey(e) # k OBVIOUS
<1> HIDE DEF unsafe, keys
<1>6. \A e \in targets' : e[2] \in InScopeUrls /\ e[1] \notin SafeMethods
      BY <1>1, <1>3, <1>4 DEF TargetsInv
<1>7. \A e, f \in targets' : TargetKey(e) = TargetKey(f) => e = f
      BY <1>1, <1>5 DEF TargetsInv
<1>8. ASSUME E \subseteq targets PROVE keys = {}
      BY <1>8, <1>3 DEF keys
<1> QED BY <1>1, <1>2, <1>3, <1>4, <1>6, <1>7, <1>8 DEF TypeOK

\* The pattern count that _run_stages compares is a number.
LEMMA PatternCountNat == TypeOK => PatternCount \in Nat /\ IsFiniteSet(Admitted)
<1>1. Admitted \subseteq Patterns BY DEF Admitted
<1>2. IsFiniteSet(Admitted) BY <1>1, PatternsFinite, FS_Subset
<1> QED BY <1>2, FS_CardinalityType DEF PatternCount, Admitted

\* The limits of Budget are natural numbers.
LEMMA Limits == MaxRequests \in Nat /\ MaxSeconds \in Nat /\ MaxEndpoints \in Nat
                /\ MaxPasses \in Nat /\ PerPatternCap \in Nat
BY PipelineAssumption

\* What a step that leaves the ledger, the seeds and the patterns handed over alone keeps.
LEMMA CrawlKept ==
    ASSUME CrawlInv, UNCHANGED <<stage, ledger, seeds, before, handed>>
    PROVE  CrawlInv'
<1>1. Admitted' = Admitted /\ PatternCount' = PatternCount /\ PatternsOf(seeds)' = PatternsOf(seeds)
      BY DEF Admitted, PatternCount, PatternsOf
<1> QED BY <1>1 DEF CrawlInv

\* The steps that record nothing, outside the frontier.
LEMMA QuietSteps ==
    ASSUME IInv,
           \/ CreateScan \/ EnterContainers \/ ContainersFail \/ StartProxy \/ Baseline
           \/ StopLoop \/ StartPass \/ NextPass \/ ReplayEnds \/ Unwind \/ UnwindFails
           \/ FinishScan \/ Raise \/ Traffic \/ ClockTick
    PROVE  IInv'
<1> USE PipelineAssumption, PatternCountNat DEF IInv, TypeOK, TargetsInv, SentInv, RowInv,
        EnvInv, ReasonInv, StopReasonAccounted, SeedsInv, LoopInv, CrawlInv, FrontierAdmitted,
        Stages, ToolStages, Early, InPass, Late, Reasons, Admitted, PatternsOf, locals, store,
        proxy, history, KillswitchTripped, BudgetExhausted, OfPattern, HandOver, LeaveLoop, Unsent
<1>1. CASE CreateScan BY <1>1 DEF CreateScan
<1>2. CASE EnterContainers BY <1>2 DEF EnterContainers
<1>3. CASE ContainersFail BY <1>3 DEF ContainersFail
<1>4. CASE StartProxy BY <1>4 DEF StartProxy
<1>5. CASE Baseline BY <1>5 DEF Baseline, FromBase
<1>6. CASE StopLoop BY <1>6 DEF StopLoop
<1>7. CASE StartPass
  <2> USE <1>7 DEF StartPass
  <2>1. PatternCount' = PatternCount BY DEF PatternCount
  <2>2. before' \in Nat BY PatternCountNat
  <2> QED BY <2>1, <2>2
<1>8. CASE NextPass BY <1>8 DEF NextPass
<1>9. CASE ReplayEnds BY <1>9 DEF ReplayEnds
<1>10. CASE Unwind BY <1>10 DEF Unwind
<1>11. CASE UnwindFails BY <1>11 DEF UnwindFails
<1>12. CASE FinishScan BY <1>12 DEF FinishScan
<1>13. CASE Raise BY <1>13 DEF Raise
<1>14. CASE Traffic
  <2> USE <1>14 DEF Traffic
  <2>0. count \in Nat /\ count <= MaxRequests BY Limits
  <2>a. count' \in 0 .. MaxRequests BY <2>0, Limits
  <2>1. TypeOK' BY <2>a
  <2>2. ReasonInv' OBVIOUS
  <2>3. CrawlInv' BY CrawlKept
  <2>4. LoopInv' OBVIOUS
  <2>5. TargetsInv' OBVIOUS
  <2>6. FrontierAdmitted' OBVIOUS
  <2>7. SentInv' /\ RowInv' /\ EnvInv' /\ SeedsInv' OBVIOUS
  <2> QED BY <2>1, <2>2, <2>3, <2>4, <2>5, <2>6, <2>7
<1>15. CASE ClockTick
  <2> USE <1>15 DEF ClockTick
  <2>1. TypeOK' OBVIOUS
  <2>2. ReasonInv' BY Limits
  <2>3. CrawlInv' BY CrawlKept
  <2>4. LoopInv' OBVIOUS
  <2>5. TargetsInv' OBVIOUS
  <2>6. FrontierAdmitted' OBVIOUS
  <2>7. SentInv' /\ RowInv' /\ EnvInv' /\ SeedsInv' OBVIOUS
  <2> QED BY <2>1, <2>2, <2>3, <2>4, <2>5, <2>6, <2>7
<1> QED
  BY <1>1, <1>2, <1>3, <1>4, <1>5, <1>6, <1>7, <1>8, <1>9, <1>10, <1>11, <1>12, <1>13, <1>14,
     <1>15

\* What every step that records endpoints keeps, whatever else it does.
LEMMA Recorded ==
    ASSUME IInv, NEW E \in SUBSET Endpoints, Record(E)
    PROVE  /\ rows' \subseteq Endpoints /\ targets' \subseteq rows'
           /\ targets \subseteq targets' /\ TargetsInv'
           /\ E \subseteq targets => targets' = targets /\ rows' = rows
           /\ FromScopeOrBase(E) => FromScopeOrBase(rows')
<1>1. rows' = rows \union E BY RecordFacts DEF IInv
<1>2. FromScopeOrBase(rows) BY DEF IInv, SeedsInv
<1>3. FromScopeOrBase(E) => FromScopeOrBase(rows') BY <1>1, <1>2 DEF FromScopeOrBase
<1> QED BY <1>3, RecordFacts DEF IInv, TargetsInv, TargetKey

\* An endpoint that passed the scope check may be recorded.
LEMMA ScopedIsKnown ==
    /\ \A E : FromScopeOrBase(Scoped(E))
    /\ \A U \in SUBSET (InScopeUrls \union FromBase) : FromScopeOrBase(Gets(U))
BY DEF FromScopeOrBase, Scoped, Gets

\* What the scope check leaves of a tool's answer is in scope, in normal form too.
LEMMA Reported ==
    ASSUME NEW E \in SUBSET Endpoints
    PROVE  Scoped(E) \subseteq E /\ Norms(Scoped(E)) \subseteq InScopeUrls
BY PipelineAssumption DEF Scoped, Norms

\* A GET of any URL is an endpoint.
LEMMA GetsAreEndpoints == \A U \in SUBSET Urls : Gets(U) \in SUBSET Endpoints
BY DEF Gets, Endpoints

\* The steps that record endpoints: the tools' stages and the replay.
LEMMA RecordingSteps ==
    ASSUME IInv,
           \/ ProbeBase \/ WellKnown \/ Historical \/ ApiSpecs
           \/ Crawl \/ Bruteforce \/ Parameters \/ Probe \/ Replay
    PROVE  IInv'
<1> USE PipelineAssumption, Limits DEF IInv, TypeOK, SentInv, RowInv, EnvInv, ReasonInv,
        StopReasonAccounted, SeedsInv, LoopInv, CrawlInv, FrontierAdmitted, Stages, ToolStages,
        Early, InPass, Late, Reasons, Admitted, PatternsOf, locals, store, proxy, history,
        KillswitchTripped, OfPattern, HandOver, Unsent, ToolEnded, Answers, FromBase
<1>1. CASE ProbeBase
  <2>1. {<<"GET", BaseUrl>>} \in SUBSET Endpoints BY DEF Endpoints
  <2>2. Record({<<"GET", BaseUrl>>}) BY <1>1 DEF ProbeBase
  <2>3. FromScopeOrBase({<<"GET", BaseUrl>>}) BY DEF FromScopeOrBase
  <2> QED BY <1>1, <2>1, <2>2, <2>3, Recorded DEF ProbeBase
<1>2. CASE WellKnown
  <2>1. PICK answered \in SUBSET WellKnownUrls :
          /\ Record(Gets(answered))
          /\ \E A \in Answers(Gets(InScopeUrls)) : seeds' = seeds \union Norms(A)
        BY <1>2 DEF WellKnown
  <2>2. Gets(answered) \in SUBSET Endpoints BY GetsAreEndpoints
  <2>3. seeds' \subseteq InScopeUrls \union {BaseUrl} BY <2>1 DEF Gets, Norms
  <2>4. FromScopeOrBase(Gets(answered)) BY ScopedIsKnown
  <2> QED BY <1>2, <2>1, <2>2, <2>3, <2>4, Recorded DEF WellKnown
<1>3. CASE Historical
  <2>1. PICK A \in Answers(Gets(Urls)) :
          /\ Record(Gets(Norms(Scoped(A))))
          /\ seeds' = seeds \union Norms(Scoped(A))
        BY <1>3 DEF Historical
  <2>2. A \in SUBSET Endpoints BY GetsAreEndpoints
  <2>3. Norms(Scoped(A)) \subseteq InScopeUrls BY <2>2, Reported
  <2>4. Gets(Norms(Scoped(A))) \in SUBSET Endpoints BY <2>3, GetsAreEndpoints
  <2>5. FromScopeOrBase(Gets(Norms(Scoped(A)))) BY <2>3, ScopedIsKnown
  <2> QED BY <1>3, <2>1, <2>3, <2>4, <2>5, Recorded DEF Historical
<1>4. CASE ApiSpecs
  <2>1. PICK A \in Answers(Reports) :
          /\ Record(Scoped(A))
          /\ seeds' = seeds \union {e[2] : e \in Scoped(A)}
        BY <1>4 DEF ApiSpecs
  <2>2. A \in SUBSET Endpoints BY DEF Endpoints
  <2>3. Scoped(A) \in SUBSET Endpoints BY <2>2, Reported
  <2>4. {e[2] : e \in Scoped(A)} \subseteq InScopeUrls BY DEF Scoped
  <2>5. FromScopeOrBase(Scoped(A)) BY ScopedIsKnown
  <2> QED BY <1>4, <2>1, <2>3, <2>4, <2>5, Recorded DEF ApiSpecs
<1>5. CASE Crawl
  <2>1. PICK A \in Answers(Reports) :
          /\ Record(Scoped(A))
          /\ discovered' = discovered \union Norms(Scoped(A))
        BY <1>5 DEF Crawl
  <2>2. A \in SUBSET Endpoints BY DEF Endpoints
  <2>3. Scoped(A) \in SUBSET Endpoints /\ Norms(Scoped(A)) \subseteq InScopeUrls
        BY <2>2, Reported
  <2>z. PatternCount' = PatternCount BY <1>5, <2>1, <2>3 DEF Crawl, PatternCount
  <2>a. TypeOK' BY <1>5, <2>1, <2>3, Recorded DEF Crawl
  <2>b. SentInv' /\ RowInv' /\ EnvInv' BY <1>5, <2>1, <2>3, Recorded DEF Crawl
  <2>c. ReasonInv' BY <1>5, <2>1, <2>3 DEF Crawl
  <2>d. SeedsInv' BY <1>5, <2>1, <2>3, Recorded, ScopedIsKnown DEF Crawl
  <2>e. LoopInv' BY <1>5, <2>1, <2>3 DEF Crawl
  <2>f. CrawlInv' BY <1>5, <2>1, <2>3, <2>z DEF Crawl
  <2>g. FrontierAdmitted' BY <1>5, <2>1, <2>3 DEF Crawl
  <2>h. TargetsInv' BY <1>5, <2>1, <2>3, Recorded DEF Crawl, TargetsInv
  <2> QED BY <2>a, <2>b, <2>c, <2>d, <2>e, <2>f, <2>g, <2>h
<1>6. CASE Bruteforce
  <2>1. PICK A \in Answers(Gets(Urls)) :
          /\ Record(Scoped(A))
          /\ discovered' = discovered \union Norms(Scoped(A))
        BY <1>6 DEF Bruteforce
  <2>2. A \in SUBSET Endpoints BY GetsAreEndpoints
  <2>3. Scoped(A) \in SUBSET Endpoints /\ Norms(Scoped(A)) \subseteq InScopeUrls
        BY <2>2, Reported
  <2>z. PatternCount' = PatternCount BY <1>6, <2>1, <2>3 DEF Bruteforce, PatternCount
  <2>a. TypeOK' BY <1>6, <2>1, <2>3, Recorded DEF Bruteforce
  <2>b. SentInv' /\ RowInv' /\ EnvInv' BY <1>6, <2>1, <2>3, Recorded DEF Bruteforce
  <2>c. ReasonInv' BY <1>6, <2>1, <2>3 DEF Bruteforce
  <2>d. SeedsInv' BY <1>6, <2>1, <2>3, Recorded, ScopedIsKnown DEF Bruteforce
  <2>e. LoopInv' BY <1>6, <2>1, <2>3 DEF Bruteforce
  <2>f. CrawlInv' BY <1>6, <2>1, <2>3, <2>z DEF Bruteforce
  <2>g. FrontierAdmitted' BY <1>6, <2>1, <2>3 DEF Bruteforce
  <2>h. TargetsInv' BY <1>6, <2>1, <2>3, Recorded DEF Bruteforce, TargetsInv
  <2> QED BY <2>a, <2>b, <2>c, <2>d, <2>e, <2>f, <2>g, <2>h
<1>7. CASE Parameters
  <2> DEFINE asked == {NormOf[u] : u \in seeds \intersect DynamicUrls}
  <2>1. Gets(asked) \in SUBSET Endpoints BY GetsAreEndpoints
  <2>2. UNCHANGED <<rows, targets>> \/ Record(Gets(asked)) BY <1>7 DEF Parameters
  <2>6. FromScopeOrBase(Gets(asked)) BY ScopedIsKnown
  <2> HIDE DEF asked
  <2>3. rows' \subseteq Endpoints /\ targets' \subseteq rows'
        /\ targets \subseteq targets' /\ TargetsInv' /\ FromScopeOrBase(rows')
    BY <2>1, <2>2, <2>6, Recorded DEF TargetsInv, TargetKey
  <2>4. PatternCount' = PatternCount BY <1>7 DEF Parameters, PatternCount
  <2>5. stage = "parameters" /\ stage' = "frontier"
        /\ UNCHANGED <<env, scanRow, ledger, locals, proxy, elapsed, sent, strayed, handed>>
    BY <1>7 DEF Parameters
  <2> QED BY <2>3, <2>4, <2>5
<1>8. CASE Probe
  <2>1. PICK A \in SUBSET Gets(seeds) : Record(A) BY <1>8 DEF Probe
  <2>2. A \in SUBSET Endpoints BY GetsAreEndpoints
  <2>3. FromScopeOrBase(A) BY <2>1 DEF FromScopeOrBase, Gets
  <2> QED BY <1>8, <2>1, <2>2, <2>3, Recorded DEF Probe
<1>9. CASE Replay
  <2>1. PICK e \in targets \ sent :
          /\ sent' = sent \union {e} /\ count' \in {count, count + 1}
          /\ Record({e}) \/ UNCHANGED <<rows, targets>>
        BY <1>9 DEF Replay
  <2>2. {e} \in SUBSET Endpoints OBVIOUS
  <2>3. rows' = rows /\ targets' = targets BY <2>1, <2>2, Recorded
  <2>4. count' \in 0 .. MaxRequests BY <1>9, <2>1 DEF Replay
  <2> QED BY <1>9, <2>1, <2>3, <2>4 DEF Replay, TargetsInv
<1> QED BY <1>1, <1>2, <1>3, <1>4, <1>5, <1>6, <1>7, <1>8, <1>9

\* The loop stops at a fixed point, or with nothing left to crawl: either way a URL
\* of each admitted pattern has been handed to the crawler.
LEMMA ConvergedStep ==
    ASSUME IInv, Converged
    PROVE  IInv'
<1> USE DEF IInv, Converged, LeaveLoop, locals, store, proxy, history
<1>1. PICK old \in SUBSET Admitted :
        /\ Cardinality(old) = before
        /\ old \subseteq handed
        /\ Admitted \ old \subseteq PatternsOf(seeds)
    BY DEF CrawlInv
<1>2. IsFiniteSet(Admitted) /\ PatternCount = Cardinality(Admitted)
    BY PatternCountNat DEF PatternCount, Admitted
<1>3. Admitted \subseteq handed
  <2>1. CASE seeds = {} BY <1>1, <2>1 DEF PatternsOf
  <2>2. CASE PatternCount = before
    <3>1. Cardinality(old) = Cardinality(Admitted) BY <1>1, <1>2, <2>2
    <3>2. old = Admitted BY <1>1, <1>2, <3>1, FS_Subset
    <3> QED BY <1>1, <3>2
  <2> QED BY <2>1, <2>2
<1>4. StopReasonAccounted' BY <1>3 DEF StopReasonAccounted, Admitted
<1> QED
  BY <1>4 DEF TypeOK, TargetsInv, TargetKey, SentInv, RowInv, EnvInv, ReasonInv, SeedsInv, LoopInv,
     CrawlInv, FrontierAdmitted, Stages, ToolStages, Early, InPass, Late, Reasons, Admitted

\* The URLs of one pattern can be counted; a positive count has a witness.
LEMMA OfPatternFinite ==
    ASSUME NEW U \in SUBSET Urls, NEW p
    PROVE  /\ IsFiniteSet(OfPattern(U, p)) /\ Cardinality(OfPattern(U, p)) \in Nat
           /\ Cardinality(OfPattern(U, p)) > 0 => \E u \in U : PatternOf[u] = p
<1>1. OfPattern(U, p) \subseteq Urls BY DEF OfPattern
<1>2. IsFiniteSet(OfPattern(U, p)) BY <1>1, FS_Subset, PipelineAssumption
<1>3. Cardinality(OfPattern(U, p)) > 0 => OfPattern(U, p) # {} BY <1>2, FS_EmptySet
<1> QED BY <1>2, <1>3, FS_CardinalityType DEF OfPattern

\* The frontier keeps each pattern within its cap, and what the ledger admits anew
\* is of a pattern of the new seeds.
LEMMA FrontierStep ==
    ASSUME IInv, Frontier
    PROVE  IInv'
<1> USE DEF IInv
<1> DEFINE U == discovered \intersect InScopeUrls
           new(p) == Cardinality(OfPattern(seeds', p))
<1>1. /\ stage = "frontier" /\ stage' = "probe"
      /\ UNCHANGED <<env, store, targets, passIndex, discovered, before, reason, proxy, elapsed, history>>
      /\ seeds' \in Admissible(U)
      /\ ledger' = [p \in Patterns |-> ledger[p] + new(p)]
    BY DEF Frontier
<1>2. U \subseteq Urls /\ seeds' \subseteq U BY <1>1, PipelineAssumption DEF Admissible
<1>3. ASSUME NEW p \in Patterns
      PROVE  new(p) \in Nat /\ new(p) <= PerPatternCap - ledger[p]
  <2>1. new(p) \in Nat /\ Cardinality(OfPattern(U, p)) \in Nat BY <1>2, OfPatternFinite
  <2>2. ledger[p] \in 0 .. PerPatternCap /\ PerPatternCap \in Nat BY Limits DEF TypeOK
  <2>3. Room(p) \in Int BY <2>2 DEF Room
  <2>4. new(p) = Min({Room(p), Cardinality(OfPattern(U, p))}) BY <1>1 DEF Admissible
  <2>5. new(p) <= Room(p) BY <2>1, <2>3, <2>4, MinOfTwo
  <2> QED BY <2>1, <2>5 DEF Room
<1>4. ASSUME NEW p \in Patterns
      PROVE  /\ ledger'[p] = ledger[p] + new(p)
             /\ ledger'[p] \in 0 .. PerPatternCap
             /\ new(p) <= ledger'[p]
  <2>1. ledger[p] \in 0 .. PerPatternCap /\ PerPatternCap \in Nat BY Limits DEF TypeOK
  <2>2. ledger'[p] = ledger[p] + new(p) BY <1>1
  <2> HIDE DEF new
  <2> QED BY <1>3, <2>1, <2>2
<1>5. TypeOK'
  <2>1. ledger' \in [Patterns -> 0 .. PerPatternCap] BY <1>1, <1>4
  <2> HIDE DEF new, U
  <2> QED BY <1>1, <1>2, <2>1 DEF TypeOK, Stages, ToolStages, Reasons, store, proxy, history
<1>6. FrontierAdmitted' BY <1>1, <1>2, <1>4 DEF FrontierAdmitted
<1>7. SeedsInv' BY <1>1, <1>2 DEF SeedsInv, store, history
<1>8. CrawlInv'
  <2>1. Admitted \subseteq Admitted'
    <3>1. SUFFICES ASSUME NEW p \in Patterns, ledger[p] > 0 PROVE ledger'[p] > 0
          BY DEF Admitted
    <3>2. ledger[p] \in Nat /\ new(p) \in Nat /\ ledger'[p] = ledger[p] + new(p)
          BY <1>3, <1>4 DEF TypeOK
    <3> HIDE DEF new
    <3> QED BY <3>1, <3>2
  <2>2. Admitted' \ Admitted \subseteq PatternsOf(seeds)'
    <3>1. SUFFICES ASSUME NEW p \in Patterns, ledger'[p] > 0, ~(ledger[p] > 0)
                   PROVE  \E u \in seeds' : PatternOf[u] = p
          BY DEF Admitted, PatternsOf
    <3>2. ledger[p] \in Nat /\ new(p) \in Nat /\ ledger'[p] = ledger[p] + new(p)
          BY <1>3, <1>4 DEF TypeOK
    <3> HIDE DEF new
    <3>3. new(p) > 0 BY <3>1, <3>2
    <3> USE DEF new
    <3> QED BY <1>2, <3>3, OfPatternFinite
  <2>3. Admitted \subseteq handed /\ Cardinality(Admitted) = before
    BY <1>1 DEF CrawlInv, PatternCount, Admitted
  <2> QED BY <1>1, <2>1, <2>2, <2>3 DEF CrawlInv, history
<1>9. SentInv' /\ RowInv' /\ EnvInv' /\ LoopInv' /\ TargetsInv'
  BY <1>1 DEF SentInv, RowInv, EnvInv, LoopInv, TargetsInv, TargetKey, Late, Early, InPass,
              store, history
<1>10. ReasonInv'
  BY <1>1 DEF ReasonInv, StopReasonAccounted, Late, store, proxy, history
<1> QED BY <1>5, <1>6, <1>7, <1>8, <1>9, <1>10

\* A scan starts within the invariant.
LEMMA InitIInv == Init => IInv
<1> SUFFICES ASSUME Init PROVE IInv OBVIOUS
<1> USE PipelineAssumption, Limits DEF Init
<1>1. TypeOK BY DEF TypeOK, Stages, Reasons
<1>2. Admitted = {} BY DEF Admitted
<1> QED
  BY <1>1, <1>2 DEF IInv, TargetsInv, SentInv, RowInv, EnvInv, ReasonInv, StopReasonAccounted,
     SeedsInv, LoopInv, CrawlInv, FrontierAdmitted, FromScopeOrBase, ToolStages, Late, InPass

\* Every step, of the pipeline or beside it, keeps the invariant.
LEMMA NextIInv == IInv /\ [Next]_vars => IInv'
<1> SUFFICES ASSUME IInv, [Next]_vars PROVE IInv' OBVIOUS
<1>1. CASE UNCHANGED vars
  <2>1. PatternCount' = PatternCount /\ Admitted' = Admitted
        BY <1>1 DEF vars, PatternCount, Admitted
  <2>2. CrawlInv' BY <1>1, CrawlKept DEF vars, locals, history, IInv
  <2> QED
    BY <1>1, <2>1, <2>2 DEF vars, locals, store, proxy, history, IInv, TypeOK, TargetsInv,
       TargetKey, SentInv, RowInv, EnvInv, ReasonInv, StopReasonAccounted, SeedsInv, LoopInv,
       FrontierAdmitted
<1> QED
  BY <1>1, QuietSteps, RecordingSteps, ConvergedStep, FrontierStep DEF Next, Pipeline

\* The inductive invariant holds of every scan.
THEOREM PipelineInvariant == Spec => []IInv
BY InitIInv, NextIInv, PTL DEF Spec

-----------------------------------------------------------------------------
(* What the runs check, for every site, budget and policy. *)

\* The inventory, the ledger, the pass count and the request count of a scan stay
\* within their kinds and limits.
THEOREM PipelineTypes == Spec => []TypeOK
<1>1. IInv => TypeOK BY DEF IInv
<1> QED BY <1>1, PipelineInvariant, PTL

\* A frontier never holds more URLs of a pattern than its visits, nor the visits
\* more than the cap, nor the frontier a URL out of scope (_run_discovery_pass).
THEOREM FrontierWithinCaps == Spec => []FrontierAdmitted
<1>1. IInv => FrontierAdmitted BY DEF IInv
<1> QED BY <1>1, PipelineInvariant, PTL

\* The reason a scan ends with is accounted for: converged means that a URL of every
\* admitted pattern was handed to the crawler, whose call may have failed or been
\* refused (_run_stages, _run_discovery_pass); the others that a limit was met.
THEOREM ReasonIsAccounted == Spec => []StopReasonAccounted
<1>1. IInv => StopReasonAccounted BY DEF IInv, ReasonInv
<1> QED BY <1>1, PipelineInvariant, PTL

\* State-changing requests need the opt-in, stay in scope, and go out once for
\* all spellings of an operation (_stage_destructive).
THEOREM ReplayAtMostOnce == Spec => []ReplayedOnce
<1>1. IInv => ReplayedOnce
      BY DEF IInv, SentInv, TargetsInv, TargetKey, ReplayedOnce
<1> QED BY <1>1, PipelineInvariant, PTL

\* A stage that waits for a tool has the proxy up and, with real tools, the
\* containers; and whatever raises, wherever, the proxy is closed before the scan
\* is finished or its exception leaves run_scan.  Nothing is said of the containers
\* by then, for `compose down' may have failed unnoticed (__exit__).
THEOREM ProxyIsClosed == Spec => []ProxyAroundTools
<1>1. IInv => ProxyAroundTools BY DEF IInv, EnvInv, ProxyAroundTools
<1> QED BY <1>1, PipelineInvariant, PTL

\* Wherever the scope lies, what is reported is used and kept only in scope, and
\* only the URLs made from the base URL escape the check (_run_discovery_pass).
THEOREM OnlyBaseEscapes == Spec => []OnlyBaseStrays
<1>1. IInv => OnlyBaseStrays BY DEF IInv, SeedsInv, OnlyBaseStrays, FromScopeOrBase
<1> QED BY <1>1, PipelineInvariant, PTL

\* In the destructive stage nothing is inserted in destructive_targets, over
\* which its loop runs, and no row is added.
LEMMA ReplayFindsNothing ==
    ASSUME IInv, [Next]_vars, stage = "destructive"
    PROVE  rows' = rows /\ targets' = targets
<1>1. CASE Replay
  <2>1. PICK e \in targets : Record({e}) \/ UNCHANGED <<rows, targets>>
        BY <1>1 DEF Replay, Unsent
  <2>2. {e} \in SUBSET Endpoints BY DEF IInv, TypeOK
  <2> QED BY <2>1, <2>2, Recorded
<1>2. CASE ~Replay
  <2>1. CASE UNCHANGED vars BY <2>1 DEF vars, store
  <2> QED
    BY <1>2, <2>1 DEF Next, Pipeline, CreateScan, EnterContainers, ContainersFail, StartProxy,
       Baseline, ProbeBase, WellKnown, Historical, ApiSpecs, StopLoop, StartPass, Crawl,
       Bruteforce, Parameters, Frontier, Probe, Converged, NextPass, ReplayEnds, Unwind,
       UnwindFails, FinishScan, Raise, Traffic, ClockTick, store
<1> QED BY <1>1, <1>2

\* The replay's loop never inserts in the dictionary it runs over (_stage_destructive).
THEOREM ReplayKeepsTargets == Spec => ReplayOnlyReplays
<1>1. IInv /\ [Next]_vars => [stage = "destructive" => rows' = rows /\ targets' = targets]_vars
      BY ReplayFindsNothing
<1> QED BY <1>1, PipelineInvariant, PTL DEF Spec, ReplayOnlyReplays

-----------------------------------------------------------------------------
(* The refinement. *)

\* A scan that has not begun is one whose row is not opened.
LEMMA LifecycleInit == Init => Lifecycle!Init
BY DEF Init, Lifecycle!Init

\* Every step opens, finds, replays, finishes, or shows nothing.
LEMMA LifecycleStep == IInv /\ [Next]_vars => [Lifecycle!Next]_(Lifecycle!lifecycleVars)
<1> SUFFICES ASSUME IInv, [Next]_vars
             PROVE  Lifecycle!Next \/ UNCHANGED <<scanRow, rows, sent>>
    BY DEF Lifecycle!lifecycleVars
<1> USE DEF IInv
<1>1. CASE CreateScan
  <2>1. Lifecycle!Open BY <1>1 DEF CreateScan, Lifecycle!Open, RowInv, history
  <2> QED BY <2>1 DEF Lifecycle!Next
<1>2. CASE FinishScan
  <2>1. reason \in Reasons BY <1>2 DEF FinishScan, TypeOK, ReasonInv
  <2>2. Lifecycle!Finish(reason)
        BY <1>2 DEF FinishScan, Lifecycle!Finish, RowInv, history
  <2> QED BY <2>1, <2>2 DEF Lifecycle!Next
<1>3. CASE Replay
  <2>1. PICK e \in targets \ sent :
          /\ sent' = sent \union {e}
          /\ Record({e}) \/ UNCHANGED <<rows, targets>>
        BY <1>3 DEF Replay, Unsent
  <2>2. e \in rows /\ rows \subseteq Endpoints BY DEF TypeOK
  <2>3. rows' = rows BY <2>1, <2>2, Recorded
  <2>4. scanRow = "open" /\ scanRow' = scanRow /\ SendDestructive
        BY <1>3 DEF Replay, RowInv, SentInv
  <2>5. \A f \in sent : OperationOf(f) # OperationOf(e)
        BY <2>1 DEF SentInv, TargetsInv, TargetKey, OperationOf
  <2>6. e[2] \in InScopeUrls /\ e[1] \notin SafeMethods BY DEF TargetsInv
  <2>7. Lifecycle!Replay(e)
        BY <2>1, <2>2, <2>3, <2>4, <2>5, <2>6 DEF Lifecycle!Replay
  <2> QED BY <2>2, <2>7 DEF Lifecycle!Next
<1>4. ASSUME NEW E \in SUBSET Endpoints, Record(E), scanRow = "open", UNCHANGED <<scanRow, sent>>
      PROVE  Lifecycle!Next
  <2>1. rows \subseteq rows' /\ rows' \subseteq Endpoints BY <1>4, RecordFacts
  <2>2. Lifecycle!Find BY <1>4, <2>1 DEF Lifecycle!Find
  <2> QED BY <2>2 DEF Lifecycle!Next
<1>5. CASE ProbeBase
  <2>1. {<<"GET", BaseUrl>>} \in SUBSET Endpoints BY PipelineAssumption DEF Endpoints
  <2> QED BY <1>5, <2>1, <1>4 DEF ProbeBase, RowInv
<1>6. CASE WellKnown
  <2>1. PICK answered \in SUBSET WellKnownUrls : Record(Gets(answered)) BY <1>6 DEF WellKnown
  <2>2. Gets(answered) \in SUBSET Endpoints BY GetsAreEndpoints, PipelineAssumption
  <2> QED BY <1>6, <2>1, <2>2, <1>4 DEF WellKnown, RowInv
<1>7. CASE Historical
  <2>1. PICK A \in Answers(Gets(Urls)) : Record(Gets(Norms(Scoped(A)))) BY <1>7 DEF Historical
  <2>2. A \in SUBSET Endpoints BY GetsAreEndpoints DEF Answers
  <2>3. Norms(Scoped(A)) \subseteq Urls BY <2>2, Reported, PipelineAssumption
  <2>4. Gets(Norms(Scoped(A))) \in SUBSET Endpoints BY <2>3, GetsAreEndpoints
  <2> QED BY <1>7, <2>1, <2>4, <1>4 DEF Historical, RowInv
<1>8. CASE ApiSpecs
  <2>1. PICK A \in Answers(Reports) : Record(Scoped(A)) BY <1>8 DEF ApiSpecs
  <2>2. Scoped(A) \in SUBSET Endpoints BY Reported DEF Answers, Endpoints
  <2> QED BY <1>8, <2>1, <2>2, <1>4 DEF ApiSpecs, RowInv
<1>9. CASE Crawl
  <2>1. PICK A \in Answers(Reports) : Record(Scoped(A)) BY <1>9 DEF Crawl
  <2>2. Scoped(A) \in SUBSET Endpoints BY Reported DEF Answers, Endpoints
  <2> QED BY <1>9, <2>1, <2>2, <1>4 DEF Crawl, RowInv
<1>10. CASE Bruteforce
  <2>1. PICK A \in Answers(Gets(Urls)) : Record(Scoped(A)) BY <1>10 DEF Bruteforce
  <2>2. A \in SUBSET Endpoints BY GetsAreEndpoints DEF Answers
  <2>3. Scoped(A) \in SUBSET Endpoints BY <2>2, Reported
  <2> QED BY <1>10, <2>1, <2>3, <1>4 DEF Bruteforce, RowInv
<1>11. CASE Parameters
  <2> DEFINE asked == {NormOf[u] : u \in seeds \intersect DynamicUrls}
  <2>1. asked \subseteq Urls BY PipelineAssumption DEF TypeOK
  <2>2. Gets(asked) \in SUBSET Endpoints BY <2>1, GetsAreEndpoints
  <2>3. UNCHANGED rows \/ Record(Gets(asked)) BY <1>11 DEF Parameters
  <2>4. scanRow = "open" /\ UNCHANGED <<scanRow, sent>> BY <1>11 DEF Parameters, RowInv
  <2> HIDE DEF asked
  <2> QED BY <2>2, <2>3, <2>4, <1>4
<1>12. CASE Probe
  <2>1. PICK A \in SUBSET Gets(seeds) : Record(A) BY <1>12 DEF Probe
  <2>2. A \in SUBSET Endpoints BY GetsAreEndpoints DEF TypeOK
  <2> QED BY <1>12, <2>1, <2>2, <1>4 DEF Probe, RowInv
<1>13. CASE UNCHANGED vars BY <1>13 DEF vars, store, history
<1> QED
  BY <1>1, <1>2, <1>3, <1>5, <1>6, <1>7, <1>8, <1>9, <1>10, <1>11, <1>12, <1>13
  DEF Next, Pipeline, EnterContainers, ContainersFail, StartProxy, Baseline, StopLoop, StartPass,
      Frontier, Converged, NextPass, ReplayEnds, Unwind, UnwindFails, Raise, Traffic, ClockTick,
      store, history

\* Every scan, on whatever site and however it ends, is a behaviour of
\* ScanLifecycle: the stages, passes and faults show nothing to its readers.
THEOREM LifecycleImplemented == Spec => LifecycleSpec
BY LifecycleInit, LifecycleStep, PipelineInvariant, PTL DEF Spec, LifecycleSpec, Lifecycle!Spec

-----------------------------------------------------------------------------
(* What Terminates rests on *)

\* How many steps are left at most: of the stages before the loop, of a pass, and
\* of what follows the loop.
Opening == [create |-> 13, containers |-> 12, proxy |-> 11, baseline |-> 10,
            probe_base |-> 9, well_known |-> 8, historical |-> 7, api_specs |-> 6]
InTurn == [pass |-> 7, crawl |-> 6, bruteforce |-> 5, parameters |-> 4, frontier |-> 3,
           probe |-> 2, verdict |-> 1]
Closing == [destructive |-> 4, unwind |-> 3, finish |-> 2, done |-> 0, raised |-> 0]
StepsLeft ==
    IF stage \in DOMAIN Opening THEN 7 * MaxPasses + Opening[stage]
    ELSE IF stage \in DOMAIN InTurn THEN 7 * (MaxPasses - passIndex) + InTurn[stage] - 2
    ELSE Closing[stage]

\* The scan has fewer stages before it or, in the destructive stage, fewer
\* targets to replay.
Nears ==
    \/ StepsLeft' < StepsLeft
    \/ StepsLeft' = StepsLeft /\ Cardinality(Unsent') < Cardinality(Unsent)
\* A step of the scan's thread nears the end, a fault included; what the proxy
\* counts and what the clock does cannot put the end off.
Shrinks ==
    /\ Pipeline \/ Raise => Nears
    /\ Traffic \/ ClockTick => UNCHANGED <<StepsLeft, Unsent>>
\* What is left is a number, and the targets are finitely many.
Measured == StepsLeft \in 0 .. 7 * MaxPasses + 13 /\ IsFiniteSet(Unsent)

\* In every state that the invariant allows, what is left can be measured.
LEMMA Measure == IInv => Measured
<1> SUFFICES ASSUME IInv PROVE Measured OBVIOUS
<1>1. IsFiniteSet(Unsent)
  <2>1. IsFiniteSet({<<"GET", u>> : u \in Urls})
    <3> DEFINE f == [u \in Urls |-> <<"GET", u>>]
    <3>1. f \in Surjection(Urls, {<<"GET", u>> : u \in Urls}) BY DEF Surjection
    <3> QED BY <3>1, FS_Surjection, PipelineAssumption
  <2>2. IsFiniteSet(Endpoints) BY <2>1, PipelineAssumption, FS_Union DEF Endpoints
  <2>3. Unsent \subseteq Endpoints BY DEF IInv, TypeOK, Unsent
  <2> QED BY <2>2, <2>3, FS_Subset
<1>2. StepsLeft \in 0 .. 7 * MaxPasses + 13
  <2>1. /\ MaxPasses \in Nat /\ passIndex \in 0 .. MaxPasses
        /\ stage \in InPass => passIndex < MaxPasses
    BY Limits DEF IInv, TypeOK, LoopInv
  <2>2. stage \in Stages BY DEF IInv, TypeOK
  <2>3. CASE stage \in DOMAIN Opening BY <2>1, <2>3 DEF StepsLeft, Opening
  <2>4. CASE stage \in DOMAIN InTurn BY <2>1, <2>4 DEF StepsLeft, Opening, InTurn, InPass
  <2>5. CASE stage \notin DOMAIN Opening /\ stage \notin DOMAIN InTurn
    BY <2>1, <2>2, <2>5 DEF StepsLeft, Opening, InTurn, Closing, Stages, ToolStages
  <2> QED BY <2>3, <2>4, <2>5
<1> QED BY <1>1, <1>2 DEF Measured

\* Every step of the thread shortens what is left (run_scan): the passes by
\* their index, the stages by their order, the replay by its targets, to which
\* the replay's own answers add none.
LEMMA EveryStepNears ==
    ASSUME IInv, Pipeline \/ Raise
    PROVE  Nears
<1>1. /\ MaxPasses \in Nat /\ passIndex \in 0 .. MaxPasses
      /\ stage \in InPass => passIndex < MaxPasses
  BY Limits DEF IInv, TypeOK, LoopInv
<1>2. CASE Replay
  <2>1. PICK e \in Unsent : sent' = sent \union {e} BY <1>2 DEF Replay
  <2>2. targets' = targets /\ stage' = stage /\ passIndex' = passIndex
    <3>1. Next /\ stage = "destructive" BY <1>2 DEF Next, Pipeline, Replay
    <3> QED BY <1>2, <3>1, ReplayFindsNothing DEF Replay, locals
  <2>3. Unsent' = Unsent \ {e} BY <2>1, <2>2 DEF Unsent
  <2>4. IsFiniteSet(Unsent) BY Measure DEF Measured
  <2>5. Cardinality(Unsent') < Cardinality(Unsent)
    <3>1. Cardinality(Unsent) \in Nat /\ Cardinality(Unsent \ {e}) = Cardinality(Unsent) - 1
      BY <2>4, FS_RemoveElement, FS_CardinalityType
    <3> QED BY <2>3, <3>1
  <2>6. StepsLeft' = StepsLeft BY <2>2 DEF StepsLeft
  <2> QED BY <2>5, <2>6 DEF Nears
<1>3. CASE CreateScan \/ EnterContainers \/ ContainersFail \/ StartProxy \/ Baseline
           \/ ProbeBase \/ WellKnown \/ Historical \/ ApiSpecs
  <2>1. \/ stage = "create" /\ stage' \in {"containers", "proxy"}
        \/ stage = "containers" /\ stage' \in {"proxy", "raised"}
        \/ stage = "proxy" /\ stage' = "baseline"
        \/ stage = "baseline" /\ stage' = "probe_base"
        \/ stage = "probe_base" /\ stage' = "well_known"
        \/ stage = "well_known" /\ stage' = "historical"
        \/ stage = "historical" /\ stage' = "api_specs"
        \/ stage = "api_specs" /\ stage' = "pass" /\ passIndex' = passIndex
    BY <1>3 DEF CreateScan, EnterContainers, ContainersFail, StartProxy, Baseline, ProbeBase,
       WellKnown, Historical, ApiSpecs
  <2>2. StepsLeft' < StepsLeft BY <1>1, <2>1 DEF StepsLeft, Opening, InTurn, Closing
  <2> QED BY <2>2 DEF Nears
<1>4. CASE StopLoop \/ StartPass \/ Crawl \/ Bruteforce \/ Parameters \/ Frontier \/ Probe
           \/ Converged \/ NextPass
  <2>1. \/ /\ passIndex' = passIndex
           /\ \/ stage = "pass" /\ stage' \in {"destructive", "unwind"}
              \/ stage = "pass" /\ stage' = "crawl"
              \/ stage = "crawl" /\ stage' \in {"bruteforce", "parameters"}
              \/ stage = "bruteforce" /\ stage' = "parameters"
              \/ stage = "parameters" /\ stage' = "frontier"
              \/ stage = "frontier" /\ stage' = "probe"
              \/ stage = "probe" /\ stage' = "verdict"
              \/ stage = "verdict" /\ stage' \in {"destructive", "unwind"}
        \/ stage = "verdict" /\ stage' = "pass" /\ passIndex' = passIndex + 1
    BY <1>4 DEF StopLoop, LeaveLoop, StartPass, Crawl, Bruteforce, Parameters, Frontier, Probe,
       Converged, NextPass, locals
  <2>2. StepsLeft' < StepsLeft BY <1>1, <2>1 DEF StepsLeft, Opening, InTurn, Closing, InPass
  <2> QED BY <2>2 DEF Nears
<1>5. CASE ReplayEnds \/ Unwind \/ UnwindFails \/ FinishScan
  <2>1. \/ stage = "destructive" /\ stage' = "unwind"
        \/ stage = "unwind" /\ stage' \in {"raised", "finish"}
        \/ stage = "finish" /\ stage' = "done"
    BY <1>5 DEF ReplayEnds, Unwind, UnwindFails, FinishScan
  <2>2. StepsLeft' < StepsLeft BY <2>1 DEF StepsLeft, Opening, InTurn, Closing
  <2> QED BY <2>2 DEF Nears
<1>6. CASE Raise
  <2>1. /\ stage \in ToolStages \union {"create", "proxy", "finish"}
        /\ stage' = IF stage \in {"create", "finish"} THEN "raised" ELSE "unwind"
    BY <1>6 DEF Raise
  <2>2. StepsLeft' = IF stage \in {"create", "finish"} THEN 0 ELSE 3
    BY <2>1 DEF StepsLeft, Opening, InTurn, Closing
  <2>3. StepsLeft > IF stage \in {"create", "finish"} THEN 0 ELSE 3
    BY <1>1, <2>1 DEF StepsLeft, Opening, InTurn, Closing, InPass, ToolStages
  <2> QED BY <1>1, <2>2, <2>3 DEF Nears
<1> QED BY <1>2, <1>3, <1>4, <1>5, <1>6 DEF Pipeline

\* A scan takes at most 7 * MaxPasses + 13 steps and one for every target that it
\* replays, whatever the site answers and whichever stages raise: the loop is
\* bounded by its passes and no stage is entered twice in one (run_scan).
\* Terminates rests on this and on the fairness of the one thread.
THEOREM ScanNearsItsEnd == Spec => []Measured /\ [][Shrinks]_vars
<1>1. IInv /\ [Next]_vars => [Shrinks]_vars
  <2> SUFFICES ASSUME IInv, [Next]_vars PROVE [Shrinks]_vars OBVIOUS
  <2>1. Pipeline \/ Raise => Nears BY EveryStepNears
  <2>2. Traffic \/ ClockTick => UNCHANGED <<StepsLeft, Unsent>>
    BY DEF Traffic, ClockTick, StepsLeft, Unsent, locals, store, history
  <2> QED BY <2>1, <2>2 DEF Shrinks
<1> QED BY <1>1, Measure, PipelineInvariant, PTL DEF Spec
=============================================================================
