----------------------------- MODULE ResultCache -----------------------------
(***************************************************************************)
(* The result cache: what crates/lanekeep-engine/src/lib.rs (`check_file_in`, *)
(* `cache_hit`, `finish_parsed`, the save in `run_files`) does with        *)
(* crates/lanekeep-cache (keys, `validate`, `Store`) and the tracked reads *)
(* of crates/lanekeep-core/src/files.rs, while files are edited, midnight  *)
(* passes, processes run side by side and die.                             *)
(*                                                                         *)
(* A rule is any deterministic program: what it asks next depends on the   *)
(* file, its content and the answers so far, and what it reports on those  *)
(* alone.  A result is therefore represented by its trace, the sequence of *)
(* questions and answers; two results are equal when their traces are.     *)
(***************************************************************************)
EXTENDS Integers, Sequences

CONSTANTS
    Procs,          \* processes sharing one project
    Files,          \* the paths that are checked
    Paths,          \* every path a rule may ask about
    Contents,       \* file contents (their hashes)
    Listings,       \* directory contents (their hashes)
    Expiring,       \* contents in which "expires:" occurs
    Ask(_, _, _),   \* Ask(file, content, trace): the next question, or Done
    Values,         \* what each path can be: a set of contents, listings or
    Absent, Refused,    \* these, a path that does not exist or leaves the root
    Seeds,          \* the file systems the project may start with
    MaxDay, MaxEdits    \* bounds of the environment

Done == [op |-> "done", path |-> "-"]
Today == [op |-> "today", path |-> "-"]
Questions == [op : {"read", "list"}, path : Paths]

NoDate == -1

\* ReadOutcome, and the answer to a rule that asks for the date.
Outcome(k, v) == [kind |-> k, val |-> v, day |-> NoDate]
DayIs(d) == [kind |-> "Day", val |-> "-", day |-> d]

ASSUME BoundsAssumption == MaxDay \in Nat /\ MaxEdits \in Nat
ASSUME FilesAssumption == Files \subseteq Paths /\ Expiring \subseteq Contents
ASSUME SeedsAssumption ==
    /\ Seeds \subseteq [Paths -> Contents \cup Listings \cup {Absent, Refused}]
    /\ Values \in [Paths -> SUBSET (Contents \cup Listings \cup {Absent, Refused})]

VARIABLES
    fs,         \* the file system: a content, a listing, Absent or Refused
    day,        \* the date
    edits,      \* edits so far
    disk,       \* .lanekeep/cache
    pc,         \* per process: where it stands with the current file or save
    cache,      \* per process: the store as loaded when its run began
    today,      \* per process: Engine::today
    coverage,   \* per process: Whole or Partial
    todo,       \* per process: files not yet checked
    file, content,  \* per process: the file being checked, and the bytes read
    trying, pend,   \* per process: the entry being validated, reads left to check
    tried,      \* per process: candidate keys already turned down
    memo,       \* per process: FileAccess::seen and FileAccess::listed
    trace,      \* per process: what the rule asked and was told
    fresh,      \* per process: the entries this run produced
    failed,     \* per process: did a file fail?
    served,     \* per process: what the run reported for each file
    quiet,      \* history, per process: nothing changed since the run began
    warm        \* history: files whose entry was saved since the last change

run == <<cache, today, coverage>>
check == <<file, content, trying, pend, tried, memo, trace>>
world == <<fs, day, edits>>
vars == <<fs, day, edits, disk, pc, cache, today, coverage, todo, file,
          content, trying, pend, tried, memo, trace, fresh, failed, served,
          quiet, warm>>

-----------------------------------------------------------------------------
(* The file system, as FileAccess::load and list_directory see it.          *)

Now(q) ==
    LET v == fs[q.path] IN
    IF v = Refused THEN Outcome("Refused", "-")
    ELSE IF q.op = "read"
         THEN IF v \in Contents THEN Outcome("Found", v) ELSE Outcome("Absent", "-")
         ELSE IF v \in Listings THEN Outcome("Listed", v) ELSE Outcome("Unlisted", "-")

\* TrackedRead: which map a read came from is told by its outcome alone.
Tracked(q, a) == [path |-> q.path, outcome |-> a]

\* lanekeep_cache::current and current_listing, chosen by the recorded outcome.
Recheck(read) ==
    Now([op |-> IF read.outcome.kind \in {"Listed", "Unlisted"} THEN "list" ELSE "read",
         path |-> read.path])

\* RunKey::for_file and for_dated_file.
Plain(f, c)    == [path |-> f, content |-> c, date |-> NoDate]
Dated(f, c, d) == [path |-> f, content |-> c, date |-> d]

\* Mutant: an entry saved under the plain key is never looked for.
MutCandidates(p) == <<Dated(file[p], content[p], today[p])>>

\* Candidates in the order cache_hit tries them, as the ones still untried.
Candidates(p) ==
    IF content[p] \in Expiring
    THEN <<Dated(file[p], content[p], today[p])>>
    ELSE <<Dated(file[p], content[p], today[p]), Plain(file[p], content[p])>>

-----------------------------------------------------------------------------
NoFile == "-"
NoEntry == [key |-> Plain(NoFile, NoFile), deps |-> {}, trace |-> <<>>]

Init ==
    /\ fs \in Seeds
    /\ day = 0 /\ edits = 0
    /\ disk = {}
    /\ pc = [p \in Procs |-> "idle"]
    /\ cache = [p \in Procs |-> {}]
    /\ today = [p \in Procs |-> 0]
    /\ coverage = [p \in Procs |-> "Whole"]
    /\ todo = [p \in Procs |-> {}]
    /\ file = [p \in Procs |-> NoFile]
    /\ content = [p \in Procs |-> NoFile]
    /\ trying = [p \in Procs |-> NoEntry]
    /\ pend = [p \in Procs |-> {}]
    /\ tried = [p \in Procs |-> 0]
    /\ memo = [p \in Procs |-> {}]
    /\ trace = [p \in Procs |-> <<>>]
    /\ fresh = [p \in Procs |-> {}]
    /\ failed = [p \in Procs |-> FALSE]
    /\ served = [p \in Procs |-> {}]
    /\ quiet = [p \in Procs |-> FALSE]
    /\ warm = {}

-----------------------------------------------------------------------------
(* The environment.                                                        *)

\* An editor, a checkout or another tool changes one path.
Edit(path, v) ==
    /\ edits < MaxEdits
    /\ fs[path] # v
    /\ fs' = [fs EXCEPT ![path] = v]
    /\ edits' = edits + 1
    /\ quiet' = [p \in Procs |-> FALSE]
    /\ warm' = {}
    /\ UNCHANGED <<day, disk, pc, run, todo, check, fresh, failed, served>>

Midnight ==
    /\ day < MaxDay
    /\ day' = day + 1
    /\ warm' = {}
    /\ UNCHANGED <<fs, edits, disk, pc, run, todo, check, fresh, failed, served, quiet>>

-----------------------------------------------------------------------------
(* A run.                                                                  *)

\* Engine::prepare takes the date, run_files loads the store.  A whole run
\* walks the files there are; a partial one is handed some of them.
BeginRun(p) ==
    LET there == {f \in Files : fs[f] \in Contents} IN
    /\ pc[p] = "idle"
    /\ \/ coverage' = [coverage EXCEPT ![p] = "Whole"] /\ todo' = [todo EXCEPT ![p] = there]
       \/ /\ coverage' = [coverage EXCEPT ![p] = "Partial"]
          /\ \E some \in SUBSET there \ {{}} : todo' = [todo EXCEPT ![p] = some]
    /\ cache' = [cache EXCEPT ![p] = disk]
    /\ today' = [today EXCEPT ![p] = day]
    /\ quiet' = [quiet EXCEPT ![p] = TRUE]
    /\ pc' = [pc EXCEPT ![p] = "next"]
    /\ UNCHANGED <<world, disk, check, fresh, failed, served, warm>>

\* check_file_in reads the file's bytes, once; an unreadable file is skipped.
ReadFile(p, f) ==
    /\ pc[p] = "next" /\ f \in todo[p]
    /\ todo' = [todo EXCEPT ![p] = @ \ {f}]
    /\ \/ /\ fs[f] \in Contents
          /\ file' = [file EXCEPT ![p] = f]
          /\ content' = [content EXCEPT ![p] = fs[f]]
          /\ pc' = [pc EXCEPT ![p] = "lookup"]
       \/ fs[f] \notin Contents /\ UNCHANGED <<file, content, pc>>
    /\ UNCHANGED <<world, disk, run, trying, pend, tried, memo, trace, fresh,
                   failed, served, quiet, warm>>

\* cache_hit: take up the entry under the next candidate key, or give up.
Lookup(p) ==
    /\ pc[p] = "lookup"
    /\ \/ /\ tried[p] = Len(Candidates(p))
          /\ pc' = [pc EXCEPT ![p] = "eval"]
          /\ UNCHANGED <<trying, pend, tried>>
       \/ /\ tried[p] < Len(Candidates(p))
          /\ tried' = [tried EXCEPT ![p] = @ + 1]
          /\ LET found == {e \in cache[p] : e.key = Candidates(p)[tried[p] + 1]} IN
             \/ found = {} /\ UNCHANGED <<pc, trying, pend>>
             \/ \E e \in found : /\ trying' = [trying EXCEPT ![p] = e]
                                 /\ pend' = [pend EXCEPT ![p] = e.deps]
                                 /\ pc' = [pc EXCEPT ![p] = "validate"]
    /\ UNCHANGED <<world, disk, run, todo, file, content, memo, trace, fresh,
                   failed, served, quiet, warm>>

\* Store::insert replaces what is held under the key.
Insert(store, e) == {o \in store : o.key # e.key} \cup {e}

\* The file's FileAccess, answers and candidate entry are dropped with it.
Leave(p) ==
    /\ file' = [file EXCEPT ![p] = NoFile]
    /\ content' = [content EXCEPT ![p] = NoFile]
    /\ trying' = [trying EXCEPT ![p] = NoEntry]
    /\ pend' = [pend EXCEPT ![p] = {}]
    /\ tried' = [tried EXCEPT ![p] = 0]
    /\ memo' = [memo EXCEPT ![p] = {}]
    /\ trace' = [trace EXCEPT ![p] = <<>>]

\* The file's outcome: what is reported for it, and its entry.
Conclude(p, e) ==
    /\ fresh' = [fresh EXCEPT ![p] = Insert(@, e)]
    /\ served' = [served EXCEPT ![p] = @ \cup {e}]
    /\ pc' = [pc EXCEPT ![p] = "next"]
    /\ Leave(p)

\* The process ends, however its run went.
Exit(p) ==
    /\ pc' = [pc EXCEPT ![p] = "idle"]
    /\ cache' = [cache EXCEPT ![p] = {}]
    /\ today' = [today EXCEPT ![p] = 0]
    /\ coverage' = [coverage EXCEPT ![p] = "Whole"]
    /\ todo' = [todo EXCEPT ![p] = {}]
    /\ fresh' = [fresh EXCEPT ![p] = {}]
    /\ failed' = [failed EXCEPT ![p] = FALSE]
    /\ served' = [served EXCEPT ![p] = {}]
    /\ quiet' = [quiet EXCEPT ![p] = FALSE]
    /\ Leave(p)

\* validate: one recorded read after another is done again; the first that
\* comes out differently turns the entry down.
Validate(p) ==
    /\ pc[p] = "validate"
    /\ \/ /\ pend[p] = {}
          /\ Conclude(p, trying[p])
       \/ \E r \in pend[p] :
            /\ Recheck(r) = r.outcome
            /\ pend' = [pend EXCEPT ![p] = @ \ {r}]
            /\ UNCHANGED <<pc, file, content, trying, tried, memo, trace, fresh, served>>
       \/ \E r \in pend[p] :
            /\ Recheck(r) # r.outcome
            /\ pc' = [pc EXCEPT ![p] = "lookup"]
            /\ trying' = [trying EXCEPT ![p] = NoEntry]
            /\ pend' = [pend EXCEPT ![p] = {}]
            /\ UNCHANGED <<file, content, tried, memo, trace, fresh, served>>
    /\ UNCHANGED <<world, disk, run, todo, failed, quiet, warm>>

Question(p) == Ask(file[p], content[p], trace[p])
Step(q, a) == [op |-> q.op, path |-> q.path, ans |-> a]

\* The rule reads today's date.
AskToday(p) ==
    /\ pc[p] = "eval" /\ Question(p) = Today
    /\ trace' = [trace EXCEPT ![p] = Append(@, Step(Today, DayIs(today[p])))]
    /\ UNCHANGED <<world, disk, pc, run, todo, file, content, trying, pend, tried,
                   memo, fresh, failed, served, quiet, warm>>

\* What the memo holds for a question: FileAccess answers a path once per file.
Remembered(p, q) == {m \in memo[p] : m.op = q.op /\ m.path = q.path}

\* The rule reads or lists a path: FileAccess::resolve and FileAccess::list.
AskPath(p) ==
    LET q == Question(p) IN
    /\ pc[p] = "eval" /\ q \in Questions
    /\ \E a \in IF Remembered(p, q) = {} THEN {Now(q)}
                ELSE {m.ans : m \in Remembered(p, q)} :
         /\ memo' = [memo EXCEPT ![p] =
                       {m \in @ : m.op # q.op \/ m.path # q.path} \cup {Step(q, a)}]
         /\ trace' = [trace EXCEPT ![p] = Append(@, Step(q, a))]
    /\ UNCHANGED <<world, disk, pc, run, todo, file, content, trying, pend, tried,
                   fresh, failed, served, quiet, warm>>

\* A rule throws or a limit is breached: the file has no outcome, the run fails.
RuleFails(p) ==
    /\ pc[p] = "eval"
    /\ failed' = [failed EXCEPT ![p] = TRUE]
    /\ pc' = [pc EXCEPT ![p] = "next"]
    /\ Leave(p)
    /\ UNCHANGED <<world, disk, run, todo, fresh, served, quiet, warm>>

\* Mutant: a path that was not there is no dependency.
MutDependencies(p) ==
    {Tracked(m, m.ans) : m \in {k \in memo[p] : k.ans.kind \in {"Found", "Listed"}}}

\* FileAccess::dependencies.
Dependencies(p) == {Tracked(m, m.ans) : m \in memo[p]}

\* date_dependent: the content names an expiry, or the date was read.
DateDependent(p) ==
    \/ content[p] \in Expiring
    \/ \E i \in 1..Len(trace[p]) : trace[p][i].op = "today"

\* Mutant: only an expiry in the content counts, not a date that was read.
MutKeyFor(p) == IF content[p] \in Expiring THEN Dated(file[p], content[p], today[p])
                ELSE Plain(file[p], content[p])

KeyFor(p) == IF DateDependent(p) THEN Dated(file[p], content[p], today[p])
             ELSE Plain(file[p], content[p])

\* finish_parsed: the entry and its key.
FinishFile(p) ==
    /\ pc[p] = "eval" /\ Question(p) = Done
    /\ Conclude(p, [key |-> KeyFor(p), deps |-> Dependencies(p), trace |-> trace[p]])
    /\ UNCHANGED <<world, disk, run, todo, failed, quiet, warm>>

\* Mutant: entries are added without replacing the ones under the same key.
MutOverlay(store, over) == store \cup over

Overlay(store, over) ==
    {o \in store : \A e \in over : e.key # o.key} \cup over

\* A whole run that did not fail saves what it produced; any other lays it over
\* the store it loaded.
SavedStore(p) ==
    IF coverage[p] = "Whole" /\ ~failed[p] THEN fresh[p]
    ELSE Overlay(cache[p], fresh[p])

\* Store::save writes a file of its own; whatever goes wrong is not reported.
WriteStore(p) ==
    /\ pc[p] = "next" /\ todo[p] = {}
    /\ pc' = [pc EXCEPT ![p] = "rename"]
    /\ UNCHANGED <<world, disk, run, todo, check, fresh, failed, served, quiet, warm>>

SaveFails(p) ==
    /\ pc[p] = "rename" \/ (pc[p] = "next" /\ todo[p] = {})
    /\ Exit(p)
    /\ UNCHANGED <<world, disk, warm>>

\* The rename replaces the store in one step, whoever saved it last.
Rename(p) ==
    LET kept == {e.key.path : e \in fresh[p]} IN
    /\ pc[p] = "rename"
    /\ disk' = SavedStore(p)
    /\ Exit(p)
    /\ warm' = IF \E q \in Procs \ {p} : pc[q] # "idle" THEN {}
               ELSE IF ~quiet[p] \/ today[p] # day THEN warm
               ELSE IF coverage[p] = "Whole" /\ ~failed[p] THEN kept
               ELSE warm \cup kept
    /\ UNCHANGED world

\* The process dies; nothing but a temporary file is left of its run.
Crash(p) ==
    /\ pc[p] # "idle"
    /\ Exit(p)
    /\ UNCHANGED <<world, disk, warm>>

-----------------------------------------------------------------------------
Process(p) ==
    \/ BeginRun(p) \/ (\E f \in Files : ReadFile(p, f)) \/ Lookup(p) \/ Validate(p)
    \/ AskToday(p) \/ AskPath(p) \/ RuleFails(p) \/ FinishFile(p)
    \/ WriteStore(p) \/ SaveFails(p) \/ Rename(p) \/ Crash(p)

Next ==
    \/ \E path \in Paths : \E v \in Values[path] : Edit(path, v)
    \/ Midnight
    \/ \E p \in Procs : Process(p)

Spec == Init /\ [][Next]_vars

-----------------------------------------------------------------------------
(* Properties                                                              *)

Answers == {"Found", "Absent", "Refused", "Listed", "Unlisted", "Day"}

\* The trace is the rule's run on the file: every question is the one the rule
\* asks after the answers before it, and after the last it is done.
IsRunOf(t, f, c) ==
    /\ \A i \in 1..Len(t) :
         Ask(f, c, SubSeq(t, 1, i - 1)) = [op |-> t[i].op, path |-> t[i].path]
    /\ Ask(f, c, t) = Done

AsksToday(t) == \E i \in 1..Len(t) : t[i].op = "today"

AnswerType == [kind : Answers, val : Contents \cup Listings \cup {"-"}, day : Int]
StepType   == [op : {"read", "list", "today"}, path : Paths \cup {"-"}, ans : AnswerType]
EntryType  == [key : [path : Files \cup {NoFile}, content : Contents \cup {NoFile}, date : Int],
               deps : SUBSET [path : Paths \cup {"-"}, outcome : AnswerType],
               trace : Seq(StepType)]

\* One entry per key, as a map has.
OnePerKey(store) == \A e, o \in store : e.key = o.key => e = o

TypeOK ==
    /\ fs \in [Paths -> Contents \cup Listings \cup {Absent, Refused}]
    /\ day \in Nat
    /\ edits \in Nat
    /\ disk \in SUBSET EntryType /\ OnePerKey(disk)
    /\ pc \in [Procs -> {"idle", "next", "lookup", "validate", "eval", "rename"}]
    /\ cache \in [Procs -> SUBSET EntryType] /\ \A p \in Procs : OnePerKey(cache[p])
    /\ today \in [Procs -> Nat]
    /\ coverage \in [Procs -> {"Whole", "Partial"}]
    /\ todo \in [Procs -> SUBSET Files]
    /\ file \in [Procs -> Files \cup {NoFile}]
    /\ content \in [Procs -> Contents \cup {NoFile}]
    /\ trying \in [Procs -> EntryType]
    /\ pend \in [Procs -> SUBSET [path : Paths \cup {"-"}, outcome : AnswerType]]
    /\ tried \in [Procs -> Nat]
    /\ memo \in [Procs -> SUBSET StepType]
    /\ trace \in [Procs -> Seq(StepType)]
    /\ fresh \in [Procs -> SUBSET EntryType] /\ \A p \in Procs : OnePerKey(fresh[p])
    /\ failed \in [Procs -> BOOLEAN]
    /\ served \in [Procs -> SUBSET EntryType]
    /\ quiet \in [Procs -> BOOLEAN]
    /\ warm \subseteq Files \cup {NoFile}

\* An entry holds a complete run of the rule on the content its key names, and
\* pins everything that run depended on: each answer from the file system is a
\* recorded read, and the date is in the key whenever it mattered.
Honest(e) ==
    /\ IsRunOf(e.trace, e.key.path, e.key.content)
    /\ \A i \in 1..Len(e.trace) :
         IF e.trace[i].op = "today" THEN e.trace[i].ans = DayIs(e.key.date)
         ELSE Tracked(e.trace[i], e.trace[i].ans) \in e.deps
    /\ e.key.content \in Expiring \/ AsksToday(e.trace) => e.key.date # NoDate

\* Every entry on disk is honest, after any edits, midnights, crashes and saves of
\* concurrent processes (finish_parsed's key choice, FileAccess's memo,
\* Store::save).
HonestStore == \A e \in disk : Honest(e)

\* What a run without a cache reports for the file in the present state.
Cold(p, e) ==
    /\ e.key.content = fs[e.key.path]
    /\ IsRunOf(e.trace, e.key.path, e.key.content)
    /\ \A i \in 1..Len(e.trace) :
         e.trace[i].ans = IF e.trace[i].op = "today" THEN DayIs(today[p])
                          ELSE Now([op |-> e.trace[i].op, path |-> e.trace[i].path])
    /\ e.key.content \in Expiring => e.key.date = today[p]

\* A run during which nothing changed reports for every file exactly what it
\* would report without a cache, whatever was edited, interrupted or saved before
\* it (cache_hit and validate; architecture 8.2).
ServedIsCold == \A p \in Procs : quiet[p] => \A e \in served[p] : Cold(p, e)

\* After a run that completed and saved, a file is not evaluated again until
\* something changes, whatever partial, failed or crashed runs come in between
\* (the save in run_files).  A save made beside another run vouches for nothing:
\* that run may yet overwrite it with the store it loaded.
WarmRunHits == \A p \in Procs : pc[p] = "eval" => file[p] \notin warm

-----------------------------------------------------------------------------
(* The inductive invariant behind HonestStore and ServedIsCold.             *)

\* What each question can be answered with.
KindsOf(op) == CASE op = "read"  -> {"Found", "Absent", "Refused"}
                 [] op = "list"  -> {"Listed", "Unlisted", "Refused"}
                 [] op = "today" -> {"Day"}

Agrees(t) == \A i \in 1..Len(t) : t[i].ans.kind \in KindsOf(t[i].op)

Sound(e) == Honest(e) /\ Agrees(e.trace)

\* Wherever an entry is held, it is sound.
InvSound ==
    /\ \A e \in disk : Sound(e)
    /\ \A p \in Procs : \A e \in cache[p] \cup fresh[p] : Sound(e)

\* The entry being validated is sound, and held under a key this file may use.
TryingIsSound(p) ==
    pc[p] = "validate" =>
        /\ Sound(trying[p])
        /\ \E i \in 1..Len(Candidates(p)) : trying[p].key = Candidates(p)[i]

\* The evaluation so far is the rule's, and everything it was told by the file
\* system is in the memo, which holds one answer for each question.
EvalIsRun(p) ==
    /\ pc[p] # "eval" => trace[p] = <<>> /\ memo[p] = {}
    /\ pc[p] = "eval" =>
        /\ \A i \in 1..Len(trace[p]) :
             /\ Ask(file[p], content[p], SubSeq(trace[p], 1, i - 1))
                  = [op |-> trace[p][i].op, path |-> trace[p][i].path]
             /\ trace[p][i].ans.kind \in KindsOf(trace[p][i].op)
             /\ IF trace[p][i].op = "today" THEN trace[p][i].ans = DayIs(today[p])
                ELSE trace[p][i] \in memo[p]
        /\ \A m, n \in memo[p] : m.op = n.op /\ m.path = n.path => m = n
        /\ \A m \in memo[p] : m.op # "today" /\ m.ans.kind \in KindsOf(m.op)

\* While nothing changes, what has been read is what is there.
QuietIsCurrent(p) ==
    /\ pc[p] = "idle" => served[p] = {}
    /\ quiet[p] =>
        /\ pc[p] \in {"lookup", "validate", "eval"} => content[p] = fs[file[p]]
        /\ pc[p] = "validate" =>
             \A r \in trying[p].deps \ pend[p] : Recheck(r) = r.outcome
        /\ pc[p] = "eval" =>
             \A m \in memo[p] : m.ans = Now([op |-> m.op, path |-> m.path])
        /\ \A e \in served[p] : Cold(p, e)

IndInv ==
    /\ TypeOK
    /\ InvSound
    /\ \A p \in Procs : TryingIsSound(p) /\ EvalIsRun(p) /\ QuietIsCurrent(p)

-----------------------------------------------------------------------------
(* And the one behind WarmRunHits.                                          *)

\* A lookup of the file on that day would be answered by the entry.
Serves(e, f, d) ==
    /\ e.key.path = f /\ e.key.content = fs[f]
    /\ e.key.date = d \/ (e.key.date = NoDate /\ fs[f] \notin Expiring)
    /\ \A r \in e.deps : Recheck(r) = r.outcome

\* The store on disk answers for every warm file, and it is the one every run has
\* loaded since.
InvWarm ==
    /\ \A f \in warm : \E e \in disk : Serves(e, f, day)
    /\ warm # {} =>
         \A p \in Procs : pc[p] # "idle" => quiet[p] /\ today[p] = day /\ cache[p] = disk

\* Nothing is left over from the last file, and nothing from the last run.
StartsClean(p) ==
    /\ pc[p] \in {"idle", "next", "rename"} => tried[p] = 0
    /\ pc[p] = "idle" => fresh[p] = {}
    /\ pc[p] = "validate" => pend[p] \subseteq trying[p].deps

\* While nothing changes, what a run produced answers for its file.
FreshServes(p) == quiet[p] => \A e \in fresh[p] : Serves(e, e.key.path, today[p])

\* The entry that answers for a warm file is being validated or still to be tried.
HitToCome(p) ==
    /\ pc[p] = "eval" => file[p] \notin warm
    /\ pc[p] \in {"lookup", "validate"} /\ file[p] \in warm =>
         \/ pc[p] = "validate" /\ Serves(trying[p], file[p], today[p])
         \/ \E e \in cache[p] : \E i \in tried[p] + 1..Len(Candidates(p)) :
              e.key = Candidates(p)[i] /\ Serves(e, file[p], today[p])

WarmInv ==
    /\ InvWarm
    /\ \A p \in Procs : StartsClean(p) /\ FreshServes(p) /\ HitToCome(p)
=============================================================================
