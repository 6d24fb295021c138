# A TLA+ verification of lanekeep

lanekeep checks a code base against rules that are themselves programs (TypeScript
modules in a sandbox, or WebAssembly components).  The project here models the parts
whose correctness depends on order, sharing, failure and stale state, model-checks them
with TLC on small instances, and proves the central invariants with TLAPS for every value
of the constants.  Paths are relative to `src/crates/` unless they start elsewhere.

## 1. Inventory

| Component | State | Operations | Talks to | Hard behaviour | What makes it correct |
|---|---|---|---|---|---|
| **Engine run** `lanekeep-engine/src/lib.rs` | per run: clock, loaded store, cursor, results; per thread: sandbox, sticky build failure, sticky component failure | `prepare`, `run`, `run_over`, `check_files`, `check_file`, `reduce` | cache, tracked reads, provider, both rule engines | threads race for files; failures are sticky per thread and per provider; the clock can expire anywhere; failed runs are repeated | one failure, the first by file order; no degraded answer committed; completed work kept; only clean whole runs prune; repeated runs make progress |
| **Result cache** `lanekeep-cache` | `.lanekeep/cache`: key to entry | `Store::load`, `get`, `insert`, `save`, `validate`, `RunKey::for_file` and `for_dated_file` | engine, `lanekeep_core::files` | several processes, crashes between write and rename, edits and midnight during a run | a served answer is the cold answer; an entry pins all it depended on |
| **Tracked reads** `lanekeep-core/src/files.rs`, `tracked.rs` | two memos per file checked | `read`, `exists`, `hash_of`, `list`, `dependencies` | rules (both engines), provider, cache | a file rewritten between two reads; absence and refusals as dependencies | one answer per question and file; every answer recorded |
| **tsc provider** `lanekeep-types/src/tsc` | child process, session mutex, id counter, sticky failure, budget | `spawn`, `begin_run`, the questions, `failure`, `needs_rebuild` | engine threads, `driver.mjs`, session | hung, dying, chattering driver; late answers; queued threads | answers reach their question; a failure is on record first and ends with its run |
| **Session provider** `lanekeep-cli/src/session.rs` | held provider and its `types` block | `for_request` | server, provider | configuration changes, a child killed by the previous run | the right provider, alive |
| **Budgets** `lanekeep-core/src/limits.rs` | deadlines, trip reason, accumulated analysis time | `arm`, `pause`, `should_interrupt`, `take_trip`, `charge` | sandbox, components, provider | zero as a sentinel, saturation, pauses | a limit is never switched off by arithmetic; the right limit is blamed |
| **Check command, --fix** `lanekeep-cli/src/main.rs`, `lanekeep-core/src/fix.rs` | files on disk, first outcome | `check`, `apply_fixes`, `fix_and_recheck`, `fix::apply` | engine | text changed since it was checked; a write that fails; overlapping ranges | fixes never corrupt; what is reported describes what is on disk |
| **Watch** `lanekeep-cli/src/watch.rs` | allowlist, pending events | `is_interesting`, `watch_with` | check command | events during a check; a failed check replacing the allowlist | a change that matters leads to another check |
| **Server** `lanekeep-server` | open documents, session | LSP and MCP handlers | engine, session | notifications, requests and cancellation in order | diagnostics describe the current text |
| **Suppressions** `lanekeep-core/src/suppression.rs` and the engine | directives, usage | `parse`, `covers`, `unused_violations` | cache, reduce | usage over hits and the cross-file phase | used directives are never called unused |
| **Baseline** `lanekeep-core/src/baseline.rs` | counts per rule, file and line text | `record`, `apply` | check command | equal violations, narrowed runs | nothing new hidden, nothing seen called stale |
| **Discovery, gates, changed** `lanekeep-core/src` | none | `walk`, `admits_path`, `admits_content` | engine | none: sequential selection | selection is what the configuration says |
| **Wasm runtime** `lanekeep-wasm` | store, instances, ticker | `for_rules`, `rule`, calls | engine | epoch ticker, memory ceiling, traps | limits always take effect |
| **JS sandbox, loader** `lanekeep-js` | QuickJS runtime, module map | load, call handlers | engine | interrupt handler | as above |
| **Analyses** `lanekeep-lang*` | none | control flow, taint, obligations | engine | loops, exceptions, early exits | agree with a path-based definition |
| **Built-in types, tsconfig, resolve** `lanekeep-types` | parsed declarations | `resolve`, `load` | engine | cycles of `extends`, symlinks | resolution order |
| Configuration, languages, queries, nodes, reporting, rules, test kit, generators, launcher, npm packages | | | | | not modelled: parsing, tables, formatting, data, wrappers |

## 2. Modules

| Module | Models | Composes |
|---|---|---|
| `EngineRun` | runs over a fixed corpus, thread by thread | abstracts the provider to its sticky error and the cache to whether an entry is held and good |
| `RunPromise` | the atomic run that `EngineRun` implements | |
| `EngineRunOrder` | `EngineRun` with a record of which failure was produced first | extends `EngineRun` |
| `EngineRunProofs` | theorems about `EngineRun`, the refinement among them | |
| `ResultCache` | processes, edits, midnight, crashes over one store | composes the lookup and save of the engine, the cache crate and the tracked reads |
| `ResultCacheProofs` | theorems about it | |
| `TypeSidecar` | threads, one sidecar, its stderr, runs of a session | composes provider, driver and session |
| `WatchLoop` | edits, debounced bursts, the loop and the check it repeats | the check abstracted to what it reads, records and writes |
| `SessionProofs` | theorems about both, the two parts that live on between runs | extends `WatchLoop` and `TypeSidecar` (hence `ProviderSpec`, `ProviderInit`, ... there) |
| `CheckCommand`, `CheckCommandProofs` | one `check` from selection to report, with edits in between | the engine run, `FixApply` and `Baseline`, each as what its own module shows it to compute |
| `FixApply`, `FixApplyProofs` | `fix::apply` over one text | |
| `Baseline`, `BaselineProofs` | counting and the walk over violations | |
| `RuleCall`, `RuleCallProofs` | one worker's component calls under its clocks and its ceiling | `Budget`, `MemoryCeiling`, the instances of `WasmRuntime` and `classify` |
| `Suppressions`, `SuppressionsProofs` | directives over cold, warm, narrowed and failing runs | the engine's per-file phase, fold and reduce, and the cache entry as far as it carries directives |
| `MC...` | small instances; `MCFixAndBaseline` holds one of `FixApply` and one of `Baseline`, of which a behaviour moves either and leaves the other as it began | |

### EngineRun

One behaviour is any number of runs, each started in any of `Modes` (`run` or `run_over`,
caching or not, the reduce phase skipped, working or failing).  A run is `Start` (the clock
is started, `Store::load`), then every thread's loop in `check_files`, then `Fold` (the
ordered fold, the save, the first failure) and `Reduce`.

| Variable | Code |
|---|---|
| `cursor` | the `AtomicUsize` of `check_files` |
| `pc`, `at`, `step` | where a thread stands in `check_file_in` and which handler call of `dispatch` and `dispatch_flow` is next |
| `sandbox`, `poisoned` | `Worker::failed`, `Worker::poisoned` |
| `expired`, `overrun`, `provider` | `RunClock::is_expired`, `AnalysisBudget::overrun`, `TypeProvider::failure` |
| `cache`, `disk`, `result` | the loaded store, `.lanekeep/cache`, the `Result<FileOutcome, RunError>` pushed per file |
| `quality`, `faulted`, `spent`, `landed` | history: were the answers behind this file real, did anything outside the rules fail, how much work this run did, was its save kept |

The content of files and entries is left to `ResultCache`; here the corpus is fixed and each
file has a `profile`: which return of `check_file_in` it takes and what its handler calls do.

Two things that happen in silence are steps here.  `GivesWay`: a handler that does not fail by
itself throws over an "I don't know", or the machine was too slow for its own limit; its
failure is pushed as the rule's, as `check_files` asks `provider_failure` only about a file
that was completed.  And `Store::save` may fail without saying so, in `Fold`: then the store on
disk is the one the run found, never half of the new one.

`RunPromise` says what the caller of `Engine::run` may rely on, with no thread in it: a run is
begun, may be disturbed from outside, commits what it completed in one step, concludes.  Its
`After` is the whole of what a run may do to the store, and a lost save does nothing to it.
`KeepsPromise` maps `EngineRun` onto it (`corpusSeen` is what a profile amounts to,
`statusSeen` the phase); cursor, threads, sticky failures and the loaded store have no image,
and their steps are stutters.

### ResultCache

A rule is any deterministic program: the constant operator `Ask(file, content, trace)` gives
the next question after the answers so far.  A result is its trace; two results are equal
when their traces are, so "what a cold run would report" can be stated without saying what
rules compute.  Between any two steps of a process, files can be edited, midnight can pass,
and other processes can run, save or die.  `Validate` re-reads the recorded dependencies one
at a time and in any order, as the file system may change between two of them.  `Refused` is
a path that resolves out of the root through a link (a lexical escape is refused without
being recorded, whatever the file system holds, and so is left out).  Every property of
served results speaks of runs during which nothing changed (`quiet`): a run that overlaps an
edit may report a mixture and nothing in the code promises otherwise, but what it *saves*
must still be honest (`HonestStore` has no such proviso).

### TypeSidecar

A request is `Ask`, `Send` (mutex, budget, id), the write, then `ReceiveLine`, `Disconnected`
or `Timeout`, and on failure `Join` where the child is gone and `Remember`, in that order and
with the mutex released before the join, as in `request_reporting`.  The write is a step of its
own, made under the mutex and without a deadline: `WriteFits` for a question, which is shorter
than an empty pipe; `TakesPrograms` for `begin_run`'s listing of a whole project, which ends
only when the driver has read enough of it; `BrokenPipe` when there is no reader left.  `Join`
is `join_stderr`: whoever finds the handle waits until the drain thread has read to the end
(`StderrEnds`), everybody else passes.  The driver answers in order, refuses, prints
unasked lines, hangs, stops reading or dies.  `Request` is a session's `for_request_with`; it and
`begin_run`'s resets are one step, because the session serialises them.  A stray line left
unread at the end of one run makes the first request of the next run fail; `NoCarryOver`
therefore speaks of faults since the run began *or a line nobody has read yet*.

### WatchLoop

`tree` holds a version per path, `seen` the version the current or last check read, and the
two are what the loop is about: a path is stale when they differ.  Version 0 is a file that is
not there, which can be read as well, and an edit may be a deletion.  An edit puts an event in
`pending`; `Deliver` is the debouncer sending a burst; `WatcherError` may swallow events and
sends an error, which is the empty burst.  `Wake` and `Ignore` are one iteration of
`watch_with`; the check begins with `forget_dependencies`, reads selected and consulted files
one at a time, and ends in `Finish` (which records what it consulted, as `record_dependencies`
does) or `Fail`.  The line between the two is that call and not success: `baseline::apply` and
the report come after it, `--watch --baseline` is allowed, and a check that fails there has
recorded.  `Consult` puts a path on record also where there was no file, as tracked reads do;
`Probe` is a file that the `tsc` provider looked for and did not find, which is no row of its
listing and on no record.  Either may have written the cache, whose events join the others.  A
path is the sequence of its names, so that the filter is the code's own: anchored events are
compared by equality, unanchored ones by their tail.  `--watch` and `--fix` exclude each
other, so the check writes nothing but `.lanekeep/`.

### CheckCommand, FixApply, Baseline

`CheckCommand` follows `check`: `Read` files one at a time, `FirstRunEnds`, the fix loop
(`Pass`, or `Rewrite` and then `Write`, as the read and the write of `apply_fixes` are two
accesses), `RecheckEnds`, `Filter`.  Somebody may edit or delete any file between any two of
these; a file that is gone when the engine comes to it contributes nothing (`Content`).  Rules
are three words of data: a per-file rule with a safe fix and with a suggestion, a cross-file
rule, and the hygiene report.  What the recheck forgets is there because the code prepares its
engine afresh.  Out of the model: the exit code, formats, the allowlist (`WatchLoop`), and
that a written file may be torn by a crash.  No two fixes of the data overlap and none is
declined, so that `FixesWhatItSays` leans on `FixApply` for what becomes of those.

`FixApply` takes candidates in the order of the sort and compares each with the last chosen
one, then writes last first; `declined` is the fixes the boundary guard refuses.  The counts
of `FixOutcome` are not in it: `applied` counts the fixes chosen, the declined ones among them
(`fix.rs:116`), where its documentation says how many were applied (`fix.rs:72`).  Offsets
count bytes, and a byte knows whether it continues a character; a replacement is a `String`
and so never starts inside one (`ReplacementsAreStrings`).  The reference `AppliedAtOnce`
compares with has no order of writing in it: every byte of the result is a piece with a place,
each byte of the original that no range covers and each byte of a replacement, and a text
`Spells` the pieces when each stands behind all that have an earlier place.  `Baseline` counts
into `remaining` with `u32::saturating_add` (`CountMax`), walks the violations in order, and
calls stale what is left and in scope.  Its `BaselineSpec`, `BaselineInit`, ... carry the
module's name because one run checks it beside `FixApply`.

### RuleCall

A call is up to three entries into the guest (`NextStage`: instantiate, configure, check), each
armed by `Arm` and settled by `Settle`; between them the guest runs while `Tick` passes time,
pauses its clock for a provider's question (`Pause`, `Resume`, inside one another), grows its
memory, returns, reports an error or traps.  `Poll` is the epoch callback.  Durations, the
clock and the sums are `u64`s of `MaxNanos`; `deadline` is zero when disarmed, as in the code.

| Variable | Code |
|---|---|
| `deadline`, `tripped`, `paused` | `Budget::invocation_deadline_nanos`, `Budget::tripped`, the `Paused` guards alive |
| `total`, `breached` | `MemoryCeiling` |
| `mem`, `lost` | what each instance holds, and what failed instantiations left in the store |
| `built`, `configured` | `WasmRuntime::instances`, `WasmRuntime::configured` |
| `granted`, `used`, `cause` | history: this entry's budget, the time its own code took, what stopped it |

`used` counts only the guest's own time, which no variable of the code does; `OwnTimeOnly`
relates it to the deadline, which is arithmetic on the run's clock.

### Suppressions

`Directives`, `Findings` and `Facts` say what the bytes of a file amount to, and `Reported`
what a reduce phase makes of a run's facts; the module is about what the engine does with
these.  A run begins (`Begin`), checks its files in any order (`Check`, a hit or an
evaluation, or `RuleFails`), folds and saves (`Fold`), reduces and judges (`Reduce`).  A file
that vanished, or whose bytes no rule's content gates admit, comes to `Nothing`: no directive
of it is parsed.  What a file evaluates to is taken to depend on its own bytes and the day;
that an entry is turned down when anything else it read has changed is `ResultCache`'s
subject.  The properties are stated over `read`, the bytes the run met, and never
mention a cache, an index or a mark.

## 3. Runs

| Run | Instance | Shows |
|---|---|---|
| `EngineRunSafety` | 2 threads (symmetric), 3 files, 1 deleted file's entry, four profiles, whole and partial runs and an uncached one whose reduce phase fails, faults, handlers giving way and lost saves anywhere; 2.4 million states | four invariants and `KeepsPromise`, the refinement |
| `EngineRunLive` | 2 threads, 3 files of two handler calls, clock may expire after 3 calls | `RunEnds`, `RetriesSucceed` |
| `EngineRunOrder` | 2 threads, files that fail, no fault from outside | violates `FirstProduced`: see Findings |
| `ResultCacheCheck` | 2 processes (symmetric), 1 file, a path that may be absent, a directory that may be refused, 1 edit, 1 midnight, crashes anywhere, starting from any of the seeded trees | `HonestStore`, `ServedIsCold`, `WarmRunHits` with processes interleaved |
| `TypeSidecarCheck` | 2 threads, 2 questions each and run, 3 runs, 2 stray lines | the protocol's five invariants, `QuestionsEnd`; 0.7 million states |
| `WatchLoopCheck` | 4 paths (a source, a root file, its namesake under `node_modules`, the cache), all absent at first, 2 edits, 1 watcher error; 1 million states | `FreshOrComing`, `AllowlistVouched`, `QuietInstall`, `Settles` |
| `WatchLoopBuild` | a selected file under `src/build/`, 1 edit | violates `SelectedFresh`: see Findings |
| `FixAndBaseline` | up to 3 fixes of every range of a 4-byte text with a two-byte character; 3 keys, up to 4 violations, 2 entries, counts saturating at 2 | the choice, the offsets, and that writing one at a time is writing all at once; that the walk is a multiset difference, in order and in scope |
| `CheckCommandCheck` | 2 files, 9 trees, every command line, 3 baselines, 1 edit or deletion | what is reported, fixed, called stale and recorded agrees with the tree |
| `CheckCommandNarrowed` | the same trees, one command line, no edit | violates `NarrowedSkipsCrossFile`: see Findings |
| `RuleCallCheck` | 2 rules in 2 instances, budgets of 0, 2 and more than the clock can hold, 2 run limits, a ceiling of 2, pauses two deep, a clock followed for 5 and counting to 9 | `OwnTimeOnly`, `BlameIsTrue`, `CeilingHolds` |
| `SuppressionsCheck` | 2 files with 3 contents each (next-line, whole-file and expiring directives, one of them in a file no gate admits), a per-file and a cross-file rule, whole and narrowed runs, 1 midnight, any edits | `SilencedExactly`, `UnusedIsFree`, `DebtIsFound` |

The type invariants of the other modules are conjuncts of the inductive invariants that
`FixApplyProofs`, `BaselineProofs`, `CheckCommandProofs`, `RuleCallProofs` and
`SuppressionsProofs` establish, and take no run of their own.

Why the bounds are enough to be interesting.  Two threads and three files are the least in
which a thread poisoned on one file takes a later one while another thread fails in between.
`Alike` makes the threads of `EngineRunSafety` interchangeable: no definition and no property
names one, and the run checks no liveness.  In `ResultCacheCheck` there is one file, so that
pruning never meets an entry of another: that a run which fails or is partial prunes nothing
is checked in `EngineRunSafety`, and for `WarmRunHits` itself only proved (`SavedIsReused`).
`MCAsk` makes one read twice, branches on what it saw, lists a directory, and reads the date
on one branch only; with one edit a path changes between any two reads of either process.
Three runs of a session let a fault of the first reach the second and be found gone in the
third.  Two edits and one error let a burst be lost and another be in flight while a check
reads, and the namesake under `node_modules` is consulted by one check and not by the next.
Three fixes are the least in which the last chosen one is not the one that overlaps; four
violations of one key exceed a count of two on both sides.  One edit can fall between any two
accesses of the command, which reads a file at most three times.  In `RuleCallCheck` a budget
of 20 saturates a clock that counts to 9, one of 0 at time 0 is the deadline that must not be
zero, and two pauses deep is where an inner one must restore nothing.  Two files are the least
in which a cross-file rule reports into a file that was a hit because of a fact of one that
was not.

Deadlock is checked where the system does not stop (`EngineRun`, `ResultCache`, `TypeSidecar`,
`RuleCall`, `Suppressions`); a finished `fix::apply`, baseline or command stops, and a watch
loop nobody edits for waits.

## 4. Fairness

`EngineRun` and `TypeSidecar` give weak fairness to every thread and to the folding thread:
threads of a pool are scheduled, and handlers are bounded by the clock (an endless handler is
`Interrupted`).  Nothing obliges the clock to expire, the provider to break, or the driver to
answer, or to read.  `TypeSidecar` counts `Timeout` among a thread's steps: `recv_timeout`
returns. `WriteFits` is one too, as a question is less than a pipe holds and the pipe is empty
when it is written; `StderrEnds` is the kernel's, which closes a dead child's pipes.  That
much assumes that the child is the driver itself, with no process of its own holding stderr: a
`types.command` that wraps the driver and is killed alone may leave one, and the join then
waits for it.  `TakesPrograms` has no fairness, because nothing in the code has: with a driver
that hangs before it has read a listing longer than the pipe, `begin_run` waits for ever with
the mutex held, and no limit ends it.  `QuestionsEnd` therefore speaks of the questions of a
running check, not of `programs`.  (The comment above `read_lines`, `tsc/mod.rs:1000-1005`,
says a hung sidecar is killable rather than waited for; that is so of reads.)

In
`RetriesSucceed` a failed run is started again, and a run's clock expires no sooner than
after `MinWork` handler calls, faults of sandbox and provider being left out
(`Breakable = FALSE`), so that nothing gives way and saves land: a store that can never be
written keeps no progress.  With two threads at two calls a file, three calls are the least that
complete a file in every run; with two the property fails, as it must: two threads may each
spend one call and die, for ever.  A budget that cannot pay for one file never makes progress.
`RetriesSucceed` is about corpora whose rules do not fail; `RunEnds`, in the same run, also
about those whose do.

`WatchLoop` gives weak fairness to the debouncer (its own thread and timer), to receiving (the
loop's only act while it waits) and to the check's steps (bounded by the run clock).  Edits
and errors are under no obligation, and are finite by their bounds: `Settles` says what
happens when they have stopped.

## 5. Proofs

Every safety property of a passing run is a theorem, for every value of the constants the
modules' assumptions allow, and TLAPS checks them.  All are invariants of `Spec` but
`InstallIsQuiet`, an action property, and `PromiseKept`, a refinement.

**EngineRunProofs** proves `TypeCorrect`, `EachFileOnce`, `NoDegraded` and `FirstFailure`
from `IndInv`.  `FirstFailureReported` is not inductive: it needs `InvHeld` and `InvPassed`
(the files the cursor has passed are exactly those with a result or one thread working on
them), `InvHandlers` (a file that completes does not fail by itself), and `InvBlame` (without
an outside fault every error, also a poisoned thread's, stems from a file that fails by
itself and comes no later than the one it is reported for).  `NoDegradedEntry` needs
`InvQuality`: a degraded answer is never ahead of the provider's record of the failure.

`PromiseKept` is the refinement: each step of `EngineRun` is one of `RunPromise` or a stutter.
It needs two more parts of `IndInv`.  `InvStored`: while files are checked the loaded store is
the store on disk, so that merging into the loaded one is merging into the real one, and a
result holds an entry just when its file was looked at and completed.  `InvErrors`: an error
names no file, or one whose own check ended in an error.  `FirstFailureReported` then gives the
file that `Commit` may blame in a run that nothing disturbed.

**ResultCacheProofs** proves `TypeCorrect`, `Honesty` and `WarmIsCold` from its `IndInv`:
`InvSound` (every entry, loaded, fresh or on disk, is honest), `EvalIsRun` (the evaluation so
far is the rule's, all it was told is in the memo, one answer per question) and
`QuietIsCurrent` (while nothing changes, what was read is what is there).  The heart of
`WarmIsCold` is that an honest entry whose dependencies all re-read the same has the trace
the rule would produce now.

`SavedIsReused` is the converse: what a completed run saved *is* served.  It needs a second
invariant, `WarmInv`.  While a file counts as warm the store on disk holds an entry that serves
it, and every process under way has that very store loaded and has seen nothing change
(`InvWarm`); its search starts from the first candidate, with nothing left over from the file
or the run before (`StartsClean`); what it evaluates itself serves as well (`FreshServes`, by
determinism and `QuietIsCurrent`); and until it hits, the entry being validated serves or one
still to be tried does (`HitToCome`), so the search for a warm file cannot run out.

**SessionProofs** is about the watch loop and the type provider.  Of `WatchLoop` it proves
`TypeCorrect`, `AllowlistIsVouched`, `InstallIsQuiet` and `NoWakeMissed`.  The last is
inductive as `Awaited`: while a check runs *every* stale path is still announced, as nothing
is received; once the loop waits, only those its filter lets through, because an `Ignore` may
drop the rest.  It says nothing of two kinds of path under an ignored directory that no check
has on record, selected files and what only `tsc` missed.  It assumes `QuietRoot`, no ignored
name above the root, because the code falls back to judging absolute components.

Of `TypeSidecar` it proves `ProviderTypes`, `AnswersAreOwn`, `ProtocolInStep`,
`FailureIsKept`, `NothingCarriesOver` and `ProviderIsRight`, for any number of threads,
questions, runs and stray lines.  `InvHolder`: the mutex is held by the one thread that writes
or has written, and between runs nobody is under way. `InvOutstanding`: at most one request is
out, unanswered or with its answer unread; it is the holder's and the last one numbered, and
every other line on the way answers nothing.  That is why comparing the echoed id is enough
(`InvAnswers`), and it holds because every path that leaves a request open stops the child
before the mutex is free.  `InvFaults`: an error is on its way to the record or there, and
until something goes wrong the record, the child and the lines are clean.

**FixApplyProofs** proves `TypeCorrect`, `Disjoint`, `OffsetsStayValid`, `SkipsForCause` and
`AppliesAtOnce` for every text and any fixes.  Disjointness from the last chosen one spreads
to all since, in the order of the sort, an unclaimed candidate starts at or after the last
one's end (`UnclaimedStartsAfter`), and so after everybody's; the offsets follow because the
text below the fix being written is still the original.  `AppliesAtOnce` needs `WInv`: the
half-written text spells the original under the fixes written so far (`Laid`), and has its
character boundaries where the original has, as far as the others reach (`Bounded`).  `Laying`
is its step: before the new fix all is original and no piece of a later fix lies there, so the
pieces behind it keep their order and all move by the same distance; `BoundariesKept` says
that a fix of whole characters changes no boundary up to its start, for which the replacement
must be a string.

**BaselineProofs** proves `TypeCorrect`, `LaterCopies`, `StaleIsNotNew`, `Exactness`,
`StaleIsSurplus` and `AdoptionIsClean`.  The last three rest on `Counted`: while counts are taken
in, each is the sum of what was met so far, cut off at the width (and cutting off step by step
is cutting off once, `PlusLeast`); during the walk, what is hidden and what is left make up
what is accepted.  Sums are cardinalities of sets of positions, which the library of finite
sets can reason about, and not recursive.

**CheckCommandProofs** proves `FixesAreExact`, for any tree, command line, edits and failures:
its invariant says, phase by phase, which untouched files are as they were, which are fixed,
and that the outcome the fixes come from was found in the text they are written to.
On it rests a second invariant, `RInv`: the outcome is what a run found in the texts it read,
and those are what is on disk of every file nobody else touched, because a fix that was
written is followed by a run from nothing and a command that wrote none has nothing to catch
up with.  From it follow `ReportIsLeft`, `StaleIsTrue` (a narrowed run calls no entry stale
whose rule or file it left out; one entry per key is assumed, `OneEntryPerKey`) and
`BaselineIsLeft`.

**RuleCallProofs** proves `TypeCorrect`, `OwnTime`, `Blame` and `Ceilinged`, for any budgets, any
guest and any depth of pauses, assuming only that a run is over before its clock wraps
(`HorizonAssumption`).  The invariant says where the budget is: `Kept` relates the remainder
(ahead of the clock, or in the outermost guard) to what was granted and used, to within the
one nanosecond that keeps a deadline off zero; `InvPaused` that only the outermost guard
holds a remainder; `InvCause` that the trip record and the breach agree with what stopped the
entry and are gone before the next.  `Ceilinged` follows from `InvMemory`: what was granted is
what the instances hold together with what failed ones left behind, so admitting against the
total bounds the sum.  The bytes held are a set, one element per byte and instance, and
`BytesChange` says what changing one instance does to its size.

**SuppressionsProofs** proves `SilencedAsCalled`, `Free` and `Debt`, for any files, directives,
rules, gates and reduce phase.  `IndInv` says that every entry is what its key's bytes and day
evaluate to (`Honest`), so a file's result is a function of what was read whether it was a
hit or not (`InvResults`), and so is all the fold gathers (`InvFolded`).  `Free` then needs
that the directive marked for a violation is not among the removed: the first that covers it,
which exists because the numbers of the covering ones have a least (`WFMin`).

Model-checked only: the liveness properties `RunEnds`, `RetriesSucceed`, `QuestionsEnd` and
`Settles`, which rest on fairness and so on `ENABLED`, out of the prover's reach; and the three
violations under Findings.

## 6. Findings

`SelectedFresh`.  `is_interesting` drops every event below a directory called `build`, `dist`
or `target`, also for a file that discovery selects there: it is checked on the first
iteration and never again for its own sake.  Its comment names that as the failure to avoid.

`FirstProduced`.  The doc comment of `Engine::run` says that a failing run returns the first error
any worker produced and that which one surfaces is arbitrary.  `check_files` sorts by file, as
the comments there say, so it is the first by file order, which `FirstFailureReported` checks
and proves: without a fault from outside it is the same on every schedule.

`NarrowedSkipsCrossFile`.  The documentation says that narrowed selections skip cross-file
rules.  With `--fix`, once something was fixed, the recheck runs the whole corpus with every
rule, and its outcome is what is reported.

The same line of code has a second symptom, which no run states: the recheck's engine is not
asked to report unused suppressions (`Reporting`), so `--fix --report-unused-suppressions`
shows them only while there is nothing to fix.

Met while modelling, and stated by no run:

- A handler that throws over an "I don't know" fails its file as `RunError::Rule`, and the fold
  may report that in place of the provider's failure (`GivesWay`).
- A `node_modules` file that only `tsc` looked for wakes nothing when it appears: the listing has
  rows for files, not for absences (`Probe`), and the filter drops what is not on record.
- The architecture document says that a failed iteration clears the watcher's allowlist
  (`docs/architecture.md:1533`); one that fails in the baseline or the report has just written it.
- `FixOutcome::applied` counts declined fixes, and `begin_run`'s write has no deadline (both above).

Not counted as a finding: a file whose bytes every rule's content gates turn away has its
directives never parsed (`Nothing`), so one that is expired, malformed or unused there is not
reported until some rule admits the file.

## 7. Not modelled, and the plan

Not modelled for good: parsing (configuration, directives, queries, grammars), formatting,
generated tables, rule code, the launcher.  The run key's inputs are constant during a
behaviour of `ResultCache`; a change of configuration is another store in all but name.

`RuleCall` leaves out the epoch ticker (an overrun is noticed at the next poll, whenever that
is), the linking of host functions and the loading of components.  `Suppressions` leaves out
how a directive is parsed, malformed ones and the policy on reasons and expiries: they add
reports of their own and silence nothing.  The tree's C sources are generated parsers and a
vendored scanner; the program's own logic is in Rust, and that is what the modules map.

Left uncovered: which of two failures of one sidecar run is kept; a source
file torn by a crash in `fs::write`, which the code has no recovery for; deletions below a
root whose own path has an ignored name, which the assumption `QuietRoot` excludes; and the end of
`begin_run` when the driver does not read.

Plan, in order:

1. The server: documents, publishing, the session's requests.
2. The loader; the sandboxes' host calls; the ticker.
3. Pure algorithms as functions: control flow, taint, obligations, `tsconfig` inheritance,
   module resolution, discovery and gates, configuration layering; several to a run, as they
   share no state.
4. Proofs: with every new module its invariants; what the properties of liveness need short of
   fairness, as that a run's remaining work never grows and only failures end it early.
