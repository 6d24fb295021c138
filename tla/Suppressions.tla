---------------------------- MODULE Suppressions ----------------------------
(***************************************************************************)
(* Which directive silences what, and which silence nothing, over cold,    *)
(* warm and narrowed runs: crates/lanekeep-core/src/suppression.rs, and    *)
(* apply_directives, run_files and unused_violations of                    *)
(* crates/lanekeep-engine/src/lib.rs.                                      *)
(*                                                                         *)
(* A file's directives are applied when the file is checked; a cache hit   *)
(* brings back what was left and which directives fired.  What a cross-file *)
(* rule reports comes last, into files that may have been hits.  Keys are  *)
(* what a file's bytes are and, under an expiry, the day; what else an entry *)
(* depends on is ResultCache's subject.                                    *)
(***************************************************************************)
EXTENDS Integers, Sequences, FiniteSets

CONSTANTS
    Files,
    Contents,       \* what the bytes of a file can be
    Absent,         \* in place of contents: there is no such file
    CanHold,        \* file -> what it may come to hold, Absent included
    Rules,
    CrossRules,     \* the rules that have a reduce phase
    Directives,     \* contents -> the directives in it, in the order of their lines
    Findings,       \* contents -> what the per-file phase reports, [rule, line]
    Facts,          \* contents -> the facts collected from it
    Admitted(_),    \* whether some rule's content gates admit these contents
    Reported(_),    \* facts of a run, [file, fact] -> what reduce reports
    Failed,         \* in place of an outcome: a rule failed on the file
    Never,          \* in place of a day: the directive does not expire
    MaxDay          \* bound: how many midnights are followed

Suppression == [scope : {"next-line", "file"}, line : Nat, rules : SUBSET Rules,
                expires : Int \cup {Never}]

ASSUME ContentsAssumption ==
    /\ CanHold \in [Files -> SUBSET (Contents \cup {Absent})] /\ Absent \notin Contents
    /\ MaxDay \in Nat /\ Never \notin Int
    /\ \A c \in Contents : Directives[c] \in Seq(Suppression)
\* A rule reports under its own id, at some file; only a rule with a reduce phase
\* is asked for a cross-file report.
ASSUME ReduceAssumption ==
    \A some \in SUBSET [file : Files, fact : UNION {Facts[c] : c \in Contents}] :
        \A x \in Reported(some) : x.rule \in CrossRules

VARIABLES
    world,      \* what each file holds
    today,
    store,      \* the cache on disk: key -> entry
    pc,         \* "idle", "checking", "reducing", or "done" with a report
    given,      \* the files of the run
    narrowed,   \* Engine::reducing, negated: --staged, --since or --file
    reporting,  \* unused_severity is enabled
    runDay,     \* Engine::today
    cache,      \* Store::load
    results,    \* file -> its FileOutcome, or Failed
    read,       \* history: file -> the contents it was checked with
    directives, \* file -> FileDirectives
    violations, \* what the run reports, [file, rule, line]
    facts,      \* [file, fact]
    unused      \* directives called unused, [file, index]

runVars == <<given, narrowed, reporting, runDay>>
resultVars == <<results, read>>
foldVars == <<directives, violations, facts, unused>>
vars == <<world, today, store, cache, pc, runVars, resultVars, foldVars>>

Held == Contents \cup {Absent}
Empty == [k \in {} |-> Absent]

Init ==
    /\ world \in [Files -> Held]
    /\ \A f \in Files : world[f] \in CanHold[f]
    /\ today = 0 /\ store = Empty /\ pc = "idle"
    /\ given = {} /\ narrowed = FALSE /\ reporting = FALSE /\ runDay = 0 /\ cache = Empty
    /\ results = Empty /\ read = Empty
    /\ directives = Empty /\ violations = {} /\ facts = {} /\ unused = {}

-----------------------------------------------------------------------------
(* Directives.                                                             *)

Covers(d, x) == x.rule \in d.rules /\ (d.scope = "file" \/ x.line = d.line + 1)

\* Suppressions::covering: the first directive that covers it, if one does.
Covering(ds, x) ==
    {i \in DOMAIN ds : Covers(ds[i], x) /\ \A j \in 1..(i - 1) : ~Covers(ds[j], x)}

At(f, x) == [file |-> f, rule |-> x.rule, line |-> x.line]

\* directive_violations: what a directive's own expiry has to say.
Expired(ds, day) ==
    {[rule |-> "lanekeep/suppression", line |-> ds[i].line] :
        i \in {j \in DOMAIN ds : ds[j].expires # Never /\ ds[j].expires < day}}

\* apply_directives, over everything the rules reported.
Applied(c, day) ==
    [violations |-> {x \in Findings[c] : Covering(Directives[c], x) = {}}
                        \cup Expired(Directives[c], day),
     facts |-> Facts[c],
     suppressions |-> Directives[c],
     used |-> UNION {Covering(Directives[c], x) : x \in Findings[c]}]

\* FileOutcome::empty_entry and skipped: no rule ran and no directive was parsed.
Nothing == [violations |-> {}, facts |-> {}, suppressions |-> <<>>, used |-> {}]

Outcome(c, day) == IF Admitted(c) THEN Applied(c, day) ELSE Nothing

-----------------------------------------------------------------------------
(* The cache.                                                              *)

HasExpiry(c) == \E i \in DOMAIN Directives[c] : Directives[c][i].expires # Never

KeyFor(f, c, day) ==
    [file |-> f, contents |-> c, day |-> IF HasExpiry(c) THEN day ELSE Never]

\* Mutant: an entry does not remember the directives.
MutCached(entry) == [entry EXCEPT !.suppressions = <<>>]

\* FileOutcome::cached.
Cached(entry) == entry

Overlay(old, new) ==
    [k \in DOMAIN old \cup DOMAIN new |-> IF k \in DOMAIN new THEN new[k] ELSE old[k]]

-----------------------------------------------------------------------------
(* A run.                                                                  *)

\* What a run gathers, gone with it.
Cleared ==
    /\ results' = Empty /\ read' = Empty
    /\ directives' = Empty /\ violations' = {} /\ facts' = {} /\ unused' = {}

Edit ==
    /\ \E f \in Files : \E c \in CanHold[f] :
         world' = [world EXCEPT ![f] = c]
    /\ UNCHANGED <<today, store, cache, pc, runVars, resultVars, foldVars>>

Midnight ==
    /\ today < MaxDay
    /\ today' = today + 1
    /\ UNCHANGED <<world, store, cache, pc, runVars, resultVars, foldVars>>

\* A whole run over what discovery finds, or one over a selection of it, which
\* skips the reduce phase.
Begin ==
    /\ pc \in {"idle", "done"}
    /\ LET present == {f \in Files : world[f] # Absent} IN
         \E some \in BOOLEAN, wanted \in SUBSET present :
           /\ narrowed' = some
           /\ given' = IF some THEN wanted ELSE present
    /\ reporting' \in BOOLEAN
    /\ runDay' = today
    /\ cache' = store
    /\ pc' = "checking"
    /\ Cleared
    /\ UNCHANGED <<world, today, store>>

Done(f, outcome) ==
    /\ results' = Overlay(results, [g \in {f} |-> outcome])
    /\ read' = Overlay(read, [g \in {f} |-> world[f]])
    /\ UNCHANGED <<world, today, store, cache, pc, runVars, foldVars>>

Waiting(f) == pc = "checking" /\ f \in given \ DOMAIN results

\* check_file_in: a file that vanished, a hit, or a fresh evaluation.
Check(f) ==
    /\ Waiting(f)
    /\ LET key == KeyFor(f, world[f], runDay) IN
         \/ world[f] = Absent /\ Done(f, Nothing)
         \/ world[f] # Absent /\ key \in DOMAIN cache /\ Done(f, Cached(cache[key]))
         \/ /\ world[f] # Absent /\ key \notin DOMAIN cache
            /\ Done(f, Outcome(world[f], runDay))

RuleFails(f) == Waiting(f) /\ world[f] # Absent /\ Done(f, Failed)

\* What the run hands to Store::save: an entry of each file it got through, under
\* the key it was found or is kept under.
Completed == {f \in DOMAIN results : results[f] # Failed /\ read[f] # Absent}
Fresh == LET keys == {KeyFor(f, read[f], runDay) : f \in Completed}
         IN [k \in keys |-> results[k.file]]

AnyFailed == \E f \in DOMAIN results : results[f] = Failed

\* The fold of run_files: gather and save, then fail if a file did.
Fold ==
    /\ pc = "checking" /\ DOMAIN results = given
    /\ store' = IF narrowed \/ AnyFailed THEN Overlay(cache, Fresh) ELSE Fresh
    /\ cache' = Empty
    /\ IF AnyFailed
       THEN pc' = "idle" /\ Cleared
       ELSE /\ pc' = "reducing"
            /\ violations' = UNION {{At(f, x) : x \in results[f].violations} : f \in given}
            /\ facts' = UNION {{[file |-> f, fact |-> a] : a \in results[f].facts} : f \in given}
            /\ directives' =
                 [f \in {g \in given : results[g].suppressions # <<>>} |->
                    [suppressions |-> results[f].suppressions, used |-> results[f].used]]
            /\ UNCHANGED <<resultVars, unused>>
    /\ UNCHANGED <<world, today, runVars>>

\* covering_elsewhere: the directives of the file it is reported at.
Elsewhere(x) ==
    IF x.file \in DOMAIN directives THEN Covering(directives[x.file].suppressions, x) ELSE {}

\* Mutant: what a cross-file rule reports marks nothing.
MutMarked(f, reduced) == directives[f].used

Marked(f, reduced) ==
    directives[f].used \cup UNION {Elsewhere(x) : x \in {y \in reduced : y.file = f}}

\* Mutant: no directive that names a cross-file rule is ever judged.
MutUnjudged == CrossRules

Unjudged == IF narrowed THEN CrossRules ELSE {}

\* reduce, the marks it leaves, and unused_report; any reduce may fail the run.
Reduce ==
    /\ pc = "reducing"
    /\ LET reduced == IF narrowed THEN {} ELSE Reported(facts) IN
         \/ /\ violations' = violations \cup {x \in reduced : Elsewhere(x) = {}}
            /\ directives' =
                 [f \in DOMAIN directives |-> [directives[f] EXCEPT !.used = Marked(f, reduced)]]
            /\ unused' =
                 UNION {{[file |-> f, index |-> i] :
                           i \in {j \in DOMAIN directives[f].suppressions :
                                    /\ reporting
                                    /\ j \notin Marked(f, reduced)
                                    /\ directives[f].suppressions[j].rules \cap Unjudged = {}}} :
                        f \in DOMAIN directives}
            /\ pc' = "done"
            /\ UNCHANGED <<resultVars, facts>>
         \/ /\ ~narrowed /\ CrossRules # {}
            /\ pc' = "idle" /\ Cleared
    /\ UNCHANGED <<world, today, store, cache, runVars>>

Next ==
    \/ Edit \/ Midnight \/ Begin \/ Fold \/ Reduce
    \/ \E f \in Files : Check(f) \/ RuleFails(f)

Spec == Init /\ [][Next]_vars

-----------------------------------------------------------------------------
(* What the contents call for, with no cache, index or order in sight.      *)

Parsed(corpus) == {f \in DOMAIN corpus : corpus[f] # Absent /\ Admitted(corpus[f])}

FactsIn(corpus) ==
    UNION {{[file |-> f, fact |-> a] : a \in Facts[corpus[f]]} : f \in Parsed(corpus)}

InFile(corpus) == UNION {{At(f, x) : x \in Findings[corpus[f]]} : f \in Parsed(corpus)}
Across(corpus) == Reported(FactsIn(corpus))

Overdue(corpus, day) ==
    UNION {{At(f, x) : x \in Expired(Directives[corpus[f]], day)} : f \in Parsed(corpus)}

\* Some directive covers x, of those in the file it is at, but for the removed.
Silenced(corpus, x, removed) ==
    /\ x.file \in Parsed(corpus)
    /\ \E i \in DOMAIN Directives[corpus[x.file]] :
         /\ [file |-> x.file, index |-> i] \notin removed
         /\ Covers(Directives[corpus[x.file]][i], x)

Left(corpus, found, removed) == {x \in found : ~Silenced(corpus, x, removed)}

\* Whatever the rest of the tree holds, where the run did not look at it.
Corpora ==
    IF narrowed
    THEN {c \in [Files -> Held] : \A f \in DOMAIN read : c[f] = read[f]}
    ELSE {read}

-----------------------------------------------------------------------------
(* Properties                                                              *)

\* A run that ends reports what its rules found in what it read and no directive
\* covers, and the directives that had expired, whether a file was evaluated or
\* came from the cache, and also where a cross-file rule reports into a file that
\* was a hit (apply_directives, covering_elsewhere, FileOutcome::cached).
SilencedExactly ==
    pc = "done" =>
        violations =
            Left(read, InFile(read) \cup IF narrowed THEN {} ELSE Across(read), {})
            \cup Overdue(read, runDay)

\* All the directives a run calls unused can be deleted at once and no violation
\* comes up, in a whole run over the same files, whatever the files a narrowed run
\* left out hold (unused_report and its remediation, "remove it: whatever it was
\* accepting is no longer reported").
UnusedIsFree ==
    pc = "done" =>
        \A c \in Corpora :
            LET found == InFile(c) \cup Across(c)
            IN Left(c, found, unused) = Left(c, found, {})

\* A whole run that was asked to report them finds every directive that covers
\* nothing any rule reported, however many files were hits and whatever an earlier
\* run had used the directive for (docs/architecture.md:960).
DebtIsFound ==
    pc = "done" /\ reporting /\ ~narrowed =>
        \A f \in Parsed(read) : \A i \in DOMAIN Directives[read[f]] :
            \/ [file |-> f, index |-> i] \in unused
            \/ \E x \in InFile(read) \cup Across(read) :
                 x.file = f /\ Covers(Directives[read[f]][i], x)
-----------------------------------------------------------------------------
(* The inductive invariant behind them.                                     *)

TypeOK ==
    /\ world \in [Files -> Held]
    /\ pc \in {"idle", "checking", "reducing", "done"}
    /\ given \subseteq Files
    /\ narrowed \in BOOLEAN /\ reporting \in BOOLEAN
    /\ read \in [DOMAIN read -> Held] /\ DOMAIN read = DOMAIN results
    /\ DOMAIN results \subseteq given

\* An entry is what evaluating its contents on its day gives.
Honest(entries) == \A k \in DOMAIN entries : entries[k] = Outcome(k.contents, k.day)

Expected(c) == IF c = Absent THEN Nothing ELSE Outcome(c, runDay)

InvResults ==
    pc = "checking" =>
        \A f \in DOMAIN results : results[f] \in {Failed, Expected(read[f])}

\* After the fold, everything is a function of what was read.
InvFolded ==
    pc = "reducing" =>
        /\ violations = UNION {{At(f, x) : x \in Expected(read[f]).violations} :
                                 f \in DOMAIN read}
        /\ facts = UNION {{[file |-> f, fact |-> a] : a \in Expected(read[f]).facts} :
                            f \in DOMAIN read}
        /\ directives = [f \in {g \in DOMAIN read : Expected(read[g]).suppressions # <<>>} |->
                           [suppressions |-> Expected(read[f]).suppressions,
                            used |-> Expected(read[f]).used]]

IndInv ==
    /\ TypeOK
    /\ Honest(store) /\ Honest(cache)
    /\ InvResults
    /\ InvFolded
    /\ SilencedExactly
    /\ UnusedIsFree
    /\ DebtIsFound
=============================================================================
