------------------------------ MODULE EngineRun ------------------------------
(***************************************************************************)
(* One engine run after another over a fixed corpus: `Engine::run_files`,  *)
(* `check_files`, `check_file_in`, `finish_parsed`, `reduce` and the       *)
(* per-thread `Worker` of crates/lanekeep-engine/src/lib.rs.               *)
(*                                                                         *)
(* The pool threads take files off one atomic cursor.  A thread keeps a    *)
(* lazily built sandbox and a sticky component failure from file to file;  *)
(* all threads share the run clock, the analysis budget and the type       *)
(* provider's sticky error.  When every thread is done, one thread folds   *)
(* the outcomes in file order, saves the cache, and runs the reduce phase. *)
(*                                                                         *)
(* What a rule computes is abstracted to whether its handler fails on the  *)
(* file; what an entry holds, to whether every answer it was computed from *)
(* came from a live provider.                                              *)
(***************************************************************************)
EXTENDS Integers, Sequences

CONSTANTS
    N,          \* the files handed to the run are 1..N, in discovery order
    M,          \* the store may hold entries for 1..M; N+1..M are not in the run
    Workers,    \* the pool's threads
    Profiles,   \* what checking one file can involve
    Modes,      \* how a run is started: coverage, caching, reduce phase
    MinWork,    \* handler calls a run makes at least before its clock can expire
    Breakable   \* may what the run uses break: provider, sandbox, store, a rule's time?

StepKinds == {"module", "module_fail", "query", "component", "component_fail"}

\* `kind` says where check_file_in returns: at a gate or an unreadable file
\* ("skip"), at the content gates ("empty"), or after the handlers ("parse").
ProfileType == [kind : {"skip", "empty", "parse"}, steps : Seq(StepKinds)]

ModeType == [coverage : {"Whole", "Partial"},
             caching  : BOOLEAN,
             reduce   : {"none", "ok", "fail"}]

ASSUME SizesAssumption == N \in Nat \ {0} /\ M \in Nat /\ N <= M
ASSUME WorkersAssumption == Workers # {}
ASSUME ProfilesAssumption == Profiles \subseteq ProfileType
ASSUME ModesAssumption == Modes \subseteq ModeType
ASSUME WorkAssumption == MinWork \in Nat /\ Breakable \in BOOLEAN

Files  == 1..N
Stored == 1..M

-----------------------------------------------------------------------------
(* RunError, reduced to what tells two of them apart: a failing rule is    *)
(* named with the file it failed on.                                       *)

ErrorKinds == {"none", "Rule", "Reduce", "RunTimeout", "AnalysisTimeout",
               "Provider", "Worker"}
Error   == [kind : ErrorKinds, file : 0..N]
NoError == [kind |-> "none", file |-> 0]
RunWide(k)  == [kind |-> k, file |-> 0]
RuleFails(f) == [kind |-> "Rule", file |-> f]

\* An entry is "good" when each provider answer behind it was a real one.
EntryState == {"none", "good", "degraded"}

\* Result<FileOutcome, RunError>, or nothing yet.
ResultType == [state : {"pending", "ok", "err"}, entry : EntryState, error : Error]
Pending == [state |-> "pending", entry |-> "none", error |-> NoError]
Okay(e) == [state |-> "ok", entry |-> e, error |-> NoError]
Erred(e) == [state |-> "err", entry |-> "none", error |-> e]

VARIABLES
    profile,    \* the corpus: what each file involves
    disk,       \* the store on disk: the entry held for each file
    phase,      \* where run_files stands
    mode,       \* how this run was started
    cache,      \* the store as loaded at the start of the run
    cursor,     \* the next index fetch_add hands out
    pc, at, step,   \* per thread: control, file, handler calls made for it
    quality,    \* per thread: were the provider's answers for this file real?
    sandbox,    \* per thread: NoError until a build failed, then its sticky error
    poisoned,   \* per thread: the sticky component failure
    expired,    \* RunClock::is_expired
    overrun,    \* AnalysisBudget::overrun answers Some
    provider,   \* TypeProvider::failure
    spent,      \* handler calls this run has made, counted up to MinWork
    result,     \* per file: the Result<FileOutcome, RunError> a thread pushed
    outcome,    \* what run_files returns
    faulted,    \* history: something outside the corpus and the rules failed
    landed      \* history: no save of this run was lost

threadVars == <<cursor, pc, at, step, quality, sandbox, poisoned>>
faultVars  == <<expired, overrun, provider, faulted>>
vars == <<profile, disk, phase, mode, cache, cursor, pc, at, step, quality,
          sandbox, poisoned, expired, overrun, provider, spent, result,
          outcome, faulted, landed>>

NoEntries == [f \in Stored |-> "none"]

TypeOK ==
    /\ profile \in [Files -> ProfileType]
    /\ disk \in [Stored -> EntryState]
    /\ phase \in {"idle", "checking", "reducing", "ended"}
    /\ mode \in ModeType
    /\ cache \in [Stored -> EntryState]
    /\ cursor \in Nat \ {0}
    /\ pc \in [Workers -> {"take", "begin", "run", "finish", "done"}]
    /\ at \in [Workers -> 0..N]
    /\ step \in [Workers -> Nat]
    /\ quality \in [Workers -> {"good", "degraded"}]
    /\ sandbox \in [Workers -> Error]
    /\ poisoned \in [Workers -> Error]
    /\ expired \in BOOLEAN
    /\ overrun \in BOOLEAN
    /\ provider \in Error
    /\ spent \in Nat
    /\ result \in [Files -> ResultType]
    /\ outcome \in Error
    /\ faulted \in BOOLEAN
    /\ landed \in BOOLEAN

Init ==
    /\ profile \in [Files -> Profiles]
    /\ disk \in {NoEntries, [f \in Stored |-> IF f \in Files THEN "none" ELSE "good"]}
    /\ phase = "idle"
    /\ mode \in Modes
    /\ cache = NoEntries
    /\ cursor = 1
    /\ pc = [w \in Workers |-> "done"]
    /\ at = [w \in Workers |-> 0]
    /\ step = [w \in Workers |-> 0]
    /\ quality = [w \in Workers |-> "good"]
    /\ sandbox = [w \in Workers |-> NoError]
    /\ poisoned = [w \in Workers |-> NoError]
    /\ expired = FALSE
    /\ overrun = FALSE
    /\ provider = NoError
    /\ spent = 0
    /\ result = [f \in Files |-> Pending]
    /\ outcome = NoError
    /\ faulted = FALSE
    /\ landed = TRUE

-----------------------------------------------------------------------------
(* run_files: the clock is started, the store is loaded once, and every    *)
(* thread begins with a Worker of its own.                                 *)

Start ==
    /\ phase \in {"idle", "ended"}
    /\ mode' \in Modes
    /\ cache' = IF mode'.caching THEN disk ELSE NoEntries
    /\ phase' = "checking"
    /\ cursor' = 1
    /\ pc' = [w \in Workers |-> "take"]
    /\ at' = [w \in Workers |-> 0]
    /\ step' = [w \in Workers |-> 0]
    /\ quality' = [w \in Workers |-> "good"]
    /\ sandbox' = [w \in Workers |-> NoError]
    /\ poisoned' = [w \in Workers |-> NoError]
    /\ expired' = FALSE
    /\ overrun' = FALSE
    /\ provider' = NoError
    /\ spent' = 0
    /\ result' = [f \in Files |-> Pending]
    /\ outcome' = NoError
    /\ faulted' = FALSE
    /\ landed' = TRUE
    /\ UNCHANGED <<profile, disk>>

-----------------------------------------------------------------------------
(* A thread's loop in check_files.                                         *)

\* Mutant: the index is read but not advanced in the same step.
MutAdvanced == IF \E w \in Workers : at[w] = cursor THEN cursor + 1 ELSE cursor

Advanced == cursor + 1

\* Mutant: one past the end.
MutMore == cursor \in 1..N + 1

\* files.get(index) answers Some.
More == cursor \in Files

\* cursor.fetch_add(1): take the next index, or leave the loop past the end.
Take(w) ==
    /\ pc[w] = "take"
    /\ cursor' = Advanced
    /\ \/ /\ More
          /\ at' = [at EXCEPT ![w] = cursor]
          /\ step' = [step EXCEPT ![w] = 0]
          /\ quality' = [quality EXCEPT ![w] = "good"]
          /\ pc' = [pc EXCEPT ![w] = "begin"]
       \/ /\ ~More
          /\ pc' = [pc EXCEPT ![w] = "done"]
          /\ UNCHANGED <<at, step, quality>>
    /\ UNCHANGED <<profile, disk, phase, mode, cache, sandbox, poisoned, expired,
                   overrun, provider, spent, result, outcome, faulted, landed>>

\* Mutant: a failed file is tried again by the thread that failed it.
MutPush(w, e) ==
    /\ result' = [result EXCEPT ![at[w]] = Erred(e)]
    /\ pc' = [pc EXCEPT ![w] = "begin"]

\* check_file returns Err: pushed as it is, without asking provider_failure.
Push(w, e) ==
    /\ result' = [result EXCEPT ![at[w]] = Erred(e)]
    /\ pc' = [pc EXCEPT ![w] = "take"]

\* A file whose entry was loaded and validates is a hit, and keeps its entry.
Hit(f) == profile[f].kind # "skip" /\ cache[f] # "none"

\* check_file_in up to the handlers: the clock, the analysis budget, the path
\* gates and the read, the cache, the content gates.
Begin(w) ==
    /\ pc[w] = "begin"
    /\ \/ expired /\ Push(w, RunWide("RunTimeout"))
       \/ ~expired /\ overrun /\ Push(w, RunWide("AnalysisTimeout"))
       \/ /\ ~expired /\ ~overrun
          /\ pc' = [pc EXCEPT ![w] =
                      IF profile[at[w]].kind = "parse" /\ ~Hit(at[w])
                      THEN "run" ELSE "finish"]
          /\ UNCHANGED result
    /\ UNCHANGED <<profile, disk, phase, mode, cache, cursor, at, step, quality,
                   sandbox, poisoned, expired, overrun, provider, spent,
                   outcome, faulted, landed>>

Steps(w) == profile[at[w]].steps
NextStep(w) == Steps(w)[step[w] + 1]

\* The thread is about to make the next handler call of its file.
Calling(w, kinds) ==
    /\ pc[w] = "run" /\ step[w] < Len(Steps(w))
    /\ NextStep(w) \in kinds

\* One more handler call, counted against MinWork.
Work(w) ==
    /\ step' = [step EXCEPT ![w] = @ + 1]
    /\ spent' = IF spent < MinWork THEN spent + 1 ELSE spent

\* Worker::sandbox: the build fails, of its own accord or because the clock ran
\* out under it, and the failure is kept; or an earlier failure is answered.
SandboxFails(w) ==
    /\ Calling(w, {"module", "module_fail", "query"})
    /\ \E e \in {sandbox[w], RunWide("RunTimeout"), RunWide("Worker")} :
         /\ sandbox[w] # NoError => e = sandbox[w]
         /\ sandbox[w] = NoError => /\ e = RunWide("RunTimeout") => expired
                                    /\ e = RunWide("Worker") => Breakable
         /\ e # NoError
         /\ sandbox' = [sandbox EXCEPT ![w] = e]
         /\ Push(w, e)
    /\ Work(w)
    /\ faulted' = TRUE
    /\ UNCHANGED <<profile, disk, phase, mode, cache, cursor, at, quality,
                   poisoned, expired, overrun, provider, outcome, landed>>

\* The interrupt handler finds the clock expired inside a handler.  For a
\* component, poison_on keeps the error.
Interrupted(w) ==
    /\ Calling(w, StepKinds)
    /\ expired
    /\ \/ /\ Calling(w, {"module", "module_fail", "query"})
          /\ sandbox[w] = NoError
          /\ UNCHANGED poisoned
       \/ /\ Calling(w, {"component", "component_fail"})
          /\ poisoned[w] = NoError
          /\ poisoned' = [poisoned EXCEPT ![w] = RunWide("RunTimeout")]
    /\ Push(w, RunWide("RunTimeout"))
    /\ Work(w)
    /\ UNCHANGED <<profile, disk, phase, mode, cache, cursor, at, quality,
                   sandbox, expired, overrun, provider, outcome, faulted, landed>>

\* A handler that would not fail by itself does: it throws over an "I don't know",
\* or the machine was too slow for its own limit.  The failure is pushed as the
\* rule's, whatever the provider has on record.
GivesWay(w) ==
    /\ Breakable
    /\ \/ /\ Calling(w, {"module", "query"})
          /\ sandbox[w] = NoError
          /\ UNCHANGED poisoned
       \/ /\ Calling(w, {"component"})
          /\ poisoned[w] = NoError
          /\ poisoned' = [poisoned EXCEPT ![w] = RuleFails(at[w])]
    /\ provider' \in IF provider = NoError /\ NextStep(w) = "query"
                     THEN {NoError, RunWide("Provider"), RunWide("AnalysisTimeout")}
                     ELSE {provider}
    /\ Push(w, RuleFails(at[w]))
    /\ Work(w)
    /\ faulted' = TRUE
    /\ UNCHANGED <<profile, disk, phase, mode, cache, cursor, at, quality,
                   sandbox, expired, overrun, outcome, landed>>

\* run_rule, run_obligation and run_flow_rule: a handler runs to its end in the
\* sandbox, or throws.
ModuleStep(w) ==
    /\ Calling(w, {"module", "module_fail"})
    /\ sandbox[w] = NoError
    /\ \/ NextStep(w) = "module_fail" /\ Push(w, RuleFails(at[w]))
       \/ NextStep(w) = "module" /\ UNCHANGED <<result, pc>>
    /\ Work(w)
    /\ UNCHANGED <<profile, disk, phase, mode, cache, cursor, at, quality,
                   sandbox, poisoned, expired, overrun, provider, outcome, faulted, landed>>

\* A handler that asks the type provider.  A failing request records itself
\* before it returns; from then on every answer is "I don't know".  An answered
\* one may still use up the analysis budget.
QueryStep(w) ==
    /\ Calling(w, {"query"})
    /\ sandbox[w] = NoError
    /\ \/ /\ provider = NoError
          /\ overrun' \in {overrun, overrun \/ Breakable}
          /\ faulted' = (faulted \/ overrun')
          /\ UNCHANGED <<provider, quality>>
       \/ /\ provider # NoError \/ Breakable
          /\ provider' \in IF provider # NoError THEN {provider}
                           ELSE {RunWide("Provider"), RunWide("AnalysisTimeout")}
          /\ quality' = [quality EXCEPT ![w] = "degraded"]
          /\ faulted' = TRUE
          /\ UNCHANGED overrun
    /\ Work(w)
    /\ UNCHANGED <<profile, disk, phase, mode, cache, cursor, pc, at, sandbox,
                   poisoned, expired, result, outcome, landed>>

\* run_component_rule behind poison_on: a poisoned thread answers its first
\* component failure for every later component call, whatever the file.
ComponentStep(w) ==
    /\ Calling(w, {"component", "component_fail"})
    /\ \/ /\ poisoned[w] # NoError
          /\ Push(w, poisoned[w])
          /\ UNCHANGED poisoned
       \/ /\ poisoned[w] = NoError /\ NextStep(w) = "component_fail"
          /\ poisoned' = [poisoned EXCEPT ![w] = RuleFails(at[w])]
          /\ Push(w, RuleFails(at[w]))
       \/ /\ poisoned[w] = NoError /\ NextStep(w) = "component"
          /\ UNCHANGED <<poisoned, result, pc>>
    /\ Work(w)
    /\ UNCHANGED <<profile, disk, phase, mode, cache, cursor, at, quality,
                   sandbox, expired, overrun, provider, outcome, faulted, landed>>

\* finish_parsed is past the last handler.
Handled(w) ==
    /\ pc[w] = "run" /\ step[w] = Len(Steps(w))
    /\ pc' = [pc EXCEPT ![w] = "finish"]
    /\ UNCHANGED <<profile, disk, phase, mode, cache, cursor, at, step, quality,
                   sandbox, poisoned, expired, overrun, provider, spent, result,
                   outcome, faulted, landed>>

\* The entry the file's outcome carries: a hit's own, an empty one behind the
\* content gates, a new one after the handlers; none when skipped or uncached.
EntryOf(w) ==
    IF ~mode.caching \/ profile[at[w]].kind = "skip" THEN "none"
    ELSE IF Hit(at[w]) THEN cache[at[w]]
    ELSE quality[w]

\* Mutant: asked before the handlers instead of after them.
MutProviderFailure(w) == IF step[w] = 0 THEN provider ELSE NoError

\* provider_failure: the sticky error, whichever thread's query hit it.
ProviderFailure(w) == provider

\* check_files asks provider_failure once more and discards the outcome on it.
Finish(w) ==
    /\ pc[w] = "finish"
    /\ \/ ProviderFailure(w) # NoError /\ Push(w, ProviderFailure(w))
       \/ /\ ProviderFailure(w) = NoError
          /\ result' = [result EXCEPT ![at[w]] = Okay(EntryOf(w))]
          /\ pc' = [pc EXCEPT ![w] = "take"]
    /\ UNCHANGED <<profile, disk, phase, mode, cache, cursor, at, step, quality,
                   sandbox, poisoned, expired, overrun, provider, spent,
                   outcome, faulted, landed>>

\* The run clock reaches its budget.
Expire ==
    /\ phase \in {"checking", "reducing"}
    /\ ~expired /\ spent >= MinWork
    /\ expired' = TRUE
    /\ faulted' = TRUE
    /\ UNCHANGED <<profile, disk, phase, mode, cache, cursor, pc, at, step,
                   quality, sandbox, poisoned, overrun, provider, spent, result,
                   outcome, landed>>

-----------------------------------------------------------------------------
(* run_files after the threads: fold, save, return the failure or reduce.  *)

Failed == {f \in Files : result[f].state = "err"}

\* Store::save: only the fresh entries after a whole run without a failure;
\* otherwise the loaded store with the fresh entries laid over it.
Fresh == [f \in Stored |-> IF f \in Files THEN result[f].entry ELSE "none"]
Merged == [f \in Stored |-> IF Fresh[f] # "none" THEN Fresh[f] ELSE cache[f]]

\* Mutants: every run prunes; a cancelled run saves nothing.
MutSavedPrune == IF mode.caching THEN Fresh ELSE disk
MutSavedLate  == IF ~mode.caching \/ Failed # {} THEN disk
                 ELSE IF mode.coverage = "Whole" THEN Fresh ELSE Merged

Saved == IF ~mode.caching THEN disk
         ELSE IF mode.coverage = "Whole" /\ Failed = {} THEN Fresh
         ELSE Merged

\* Mutant: failure = Some(error), the last one wins.
MutReported(f) == \A g \in Failed : g <= f

\* failure.get_or_insert: the first by file order.
Reported(f) == \A g \in Failed : f <= g

\* Store::save answers nothing: a write or rename that fails leaves the old store.
Fold ==
    /\ phase = "checking"
    /\ \A w \in Workers : pc[w] = "done"
    /\ \/ disk' = Saved /\ UNCHANGED landed
       \/ mode.caching /\ Breakable /\ landed' = FALSE /\ UNCHANGED disk
    /\ \/ /\ Failed = {}
          /\ phase' = "reducing"
          /\ UNCHANGED outcome
       \/ \E f \in Failed :
            /\ Reported(f)
            /\ outcome' = result[f].error
            /\ phase' = "ended"
    /\ UNCHANGED <<profile, mode, cache, threadVars, faultVars, spent, result>>

\* reduce: skipped, run to its end, failing, or interrupted by the clock.
Reduce ==
    /\ phase = "reducing"
    /\ phase' = "ended"
    /\ \/ mode.reduce = "fail" /\ outcome' = RunWide("Reduce")
       \/ mode.reduce # "none" /\ expired /\ outcome' = RunWide("RunTimeout")
       \/ mode.reduce # "fail" /\ UNCHANGED outcome
    /\ UNCHANGED <<profile, disk, mode, cache, threadVars, faultVars, spent, result,
                   landed>>

-----------------------------------------------------------------------------
Thread(w) ==
    \/ Take(w) \/ Begin(w) \/ SandboxFails(w) \/ Interrupted(w) \/ GivesWay(w)
    \/ ModuleStep(w) \/ QueryStep(w) \/ ComponentStep(w) \/ Handled(w) \/ Finish(w)

Next ==
    \/ Start
    \/ \E w \in Workers : Thread(w)
    \/ Expire
    \/ Fold
    \/ Reduce

Spec == Init /\ [][Next]_vars

\* A thread that can move does, the folding thread too, and a failed run is
\* tried again.  The clock is under no obligation to expire.
Fairness ==
    /\ \A w \in Workers : WF_vars(Thread(w))
    /\ WF_vars(Fold)
    /\ WF_vars(Reduce)
    /\ WF_vars(Start)

FairSpec == Spec /\ Fairness

-----------------------------------------------------------------------------
(* What a run looks like from outside: RunPromise's state, read off this one. *)

FailKinds == {"module_fail", "component_fail"}

FailingSteps(f) == \E i \in 1..Len(profile[f].steps) : profile[f].steps[i] \in FailKinds

corpusSeen ==
    [f \in Files |-> IF profile[f].kind = "skip" THEN "skipped"
                     ELSE IF profile[f].kind = "parse" /\ FailingSteps(f) THEN "failing"
                     ELSE "clean"]

statusSeen ==
    CASE phase = "idle" -> "idle" [] phase = "checking" -> "running"
      [] phase = "reducing" -> "committed" [] phase = "ended" -> "ended"

Promise == INSTANCE RunPromise WITH
    corpus <- corpusSeen, store <- disk, status <- statusSeen,
    coverage <- mode.coverage, caching <- mode.caching, calm <- ~faulted, landed <- landed,
    failed <- (outcome # NoError), blamed <- outcome.file

-----------------------------------------------------------------------------
(* Properties                                                              *)

\* Checking this file fails, whichever thread does it.
Fails(f) ==
    /\ profile[f].kind = "parse"
    /\ ~Hit(f)
    /\ FailingSteps(f)

\* The failure a run reports is that of the first file, in file order, that fails
\* by itself, whatever the schedule and whichever thread a failing component
\* poisoned on the way; and a run over files of which one fails never succeeds.
\* (check_files' index sort and run_files' get_or_insert; Worker::poison_on.)  It is
\* what the comments there say; Engine::run's doc says otherwise: EngineRunOrder.
FirstFailureReported ==
    phase = "ended" /\ ~faulted /\ outcome.kind # "Reduce" =>
        IF outcome = NoError
        THEN \A f \in Files : ~Fails(f)
        ELSE /\ outcome.kind = "Rule"
             /\ Fails(outcome.file)
             /\ \A g \in Files : g < outcome.file => ~Fails(g)

\* No entry computed from an answer of a broken provider reaches the store, on
\* whatever thread and however late the break was seen (provider_failure's
\* comment: "committing it would put a degraded answer behind a valid cache key").
NoDegradedEntry == \A f \in Stored : disk[f] # "degraded"

\* The threads, the cursor, the sticky failures and the store loaded up front
\* amount to the atomic run of RunPromise: the files that completed are committed
\* even when the run is cancelled, a cancelled or partial run removes nothing (the
\* comment on the save in run_files), only a whole run that completed every file
\* prunes, no entry is degraded, a failure names a file only when that file did not
\* complete, an undisturbed one the first that fails by itself, and only a lost save
\* loses them.
KeepsPromise == Promise!PromiseSpec

\* The cursor hands every file to exactly one thread, and a fold sees them all.
EveryFileOnce ==
    /\ \A v, w \in Workers :
         v # w /\ {pc[v], pc[w]} \subseteq {"begin", "run", "finish"} => at[v] # at[w]
    /\ phase \in {"reducing", "ended"} =>
         \A f \in Files : result[f].state # "pending"

\* A run that was started ends: no thread waits on another (rayon::broadcast
\* returns when every thread has left the loop).
RunEnds == phase = "checking" ~> phase = "ended"

\* A corpus whose rules do not fail is eventually checked by trying again, even
\* when every single run is cancelled by its clock, because each leaves the
\* entries of the files it completed (the comment on the save in run_files:
\* otherwise it "dies identically on every retry, with no way to make progress").
\* It is asked where nothing is Breakable: no work is kept by saves that are lost.
RetriesSucceed ==
    (\A f \in Files : ~FailingSteps(f)) => <>(phase = "ended" /\ outcome = NoError)

-----------------------------------------------------------------------------
(* The inductive invariant behind FirstFailureReported, NoDegradedEntry and  *)
(* EveryFileOnce.                                                            *)

Active(w) == pc[w] \in {"begin", "run", "finish"}

\* A thread holds a file the cursor has passed, which has no result yet, and no
\* two threads hold the same one; files past the cursor have none either.
InvHeld ==
    /\ \A w \in Workers :
        /\ at[w] < cursor
        /\ Active(w) => /\ at[w] \in Files
                        /\ result[at[w]].state = "pending"
                        /\ \A v \in Workers : v # w /\ Active(v) => at[v] # at[w]
    /\ phase = "checking" =>
         \A f \in Files : cursor <= f => result[f].state = "pending"

\* Every file the cursor has passed has a result or a thread working on it.
InvPassed ==
    /\ phase = "checking" =>
         /\ \A f \in Files : f < cursor => \/ result[f].state # "pending"
                                           \/ \E w \in Workers : Active(w) /\ at[w] = f
         /\ \A w \in Workers : pc[w] = "done" => cursor > N
    /\ phase # "checking" => \A w \in Workers : pc[w] = "done"
    /\ phase \in {"reducing", "ended"} => \A f \in Files : result[f].state # "pending"
    /\ phase = "reducing" => outcome = NoError /\ \A f \in Files : result[f].state = "ok"
    /\ phase = "checking" => outcome = NoError

\* A thread in the handlers has passed no failing call, so a file that completes
\* does not fail by itself.
InvHandlers ==
    /\ \A w \in Workers :
         /\ pc[w] = "run" => /\ profile[at[w]].kind = "parse" /\ ~Hit(at[w])
                             /\ step[w] <= Len(profile[at[w]].steps)
                             /\ \A i \in 1..step[w] : profile[at[w]].steps[i] \notin FailKinds
         /\ pc[w] = "begin" => step[w] = 0
         /\ pc[w] = "finish" => ~Fails(at[w])
    /\ \A f \in Files : result[f].state = "ok" => ~Fails(f)

\* Without an outside fault, an error stems from a file that fails by itself and
\* comes no later than the file it is reported for.
InvBlame ==
    ~faulted =>
        /\ ~expired /\ ~overrun /\ provider = NoError
        /\ \A w \in Workers :
             /\ sandbox[w] = NoError
             /\ poisoned[w] # NoError => /\ poisoned[w].kind = "Rule"
                                         /\ poisoned[w].file \in Files
                                         /\ poisoned[w].file <= at[w]
                                         /\ Fails(poisoned[w].file)
        /\ \A f \in Files :
             result[f].state = "err" => /\ result[f].error.kind = "Rule"
                                        /\ result[f].error.file \in Files
                                        /\ result[f].error.file <= f
                                        /\ Fails(result[f].error.file)

\* A degraded answer is never ahead of the provider's record of the failure.
InvQuality ==
    /\ \A w \in Workers : quality[w] = "degraded" => provider # NoError
    /\ \A f \in Files : result[f].entry # "degraded"
    /\ \A f \in Stored : cache[f] # "degraded" /\ disk[f] # "degraded"

\* The store a run loaded is the store on disk until it folds, and a result holds
\* an entry just when its file was looked at and completed by a caching run.
InvStored ==
    /\ phase = "checking" => cache = IF mode.caching THEN disk ELSE NoEntries
    /\ \A f \in Files :
         result[f].entry = IF /\ result[f].state = "ok"
                              /\ mode.caching
                              /\ profile[f].kind # "skip"
                           THEN "good" ELSE "none"

\* An error names no file, or one whose own check ended in an error.
Honest(e) == e.file # 0 => e.file \in Files /\ result[e.file].state = "err"

InvErrors ==
    /\ provider.file = 0
    /\ \A w \in Workers : sandbox[w].file = 0 /\ Honest(poisoned[w])
    /\ \A f \in Files : result[f].state = "err" =>
         result[f].error # NoError /\ Honest(result[f].error)

IndInv ==
    /\ TypeOK
    /\ InvHeld
    /\ InvPassed
    /\ InvHandlers
    /\ InvBlame
    /\ InvQuality
    /\ InvStored
    /\ InvErrors
    /\ FirstFailureReported
=============================================================================
