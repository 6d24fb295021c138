---------------------------- MODULE CheckCommand ----------------------------
(***************************************************************************)
(* `lanekeep check` from its selection of files to its report: main.rs     *)
(* (`check`, `run_selected`, `fix_and_recheck`, `apply_fixes`) and the     *)
(* baseline filter it ends with, while somebody may edit the tree between  *)
(* any two of its accesses to it.                                          *)
(*                                                                         *)
(* A file's text is a sequence of lines, a line one of a few words that    *)
(* stand for what rules make of it:                                        *)
(*   "bad"     the rule `style` reports it, with a safe fix to "good"      *)
(*   "ugly"    `style` reports it, with a suggestion                       *)
(*   "export"  the cross-file rule `exports` reports it where no file of   *)
(*             the run has an "import"                                     *)
(*   "idle"    a directive that suppresses nothing                         *)
(* The run of the engine is module EngineRun's, the application of fixes   *)
(* within one text FixApply's, the counting of a baseline Baseline's; here *)
(* each is what those modules show it to compute.                          *)
(***************************************************************************)
EXTENDS Naturals, FiniteSets

CONSTANTS
  Files,     \* the project's files, numbered in the order of their paths
  Lines,     \* the lines a text is made of
  Originals, \* what the tree may hold when the command starts
  Texts,     \* what somebody's edit may leave in a file
  Baselines, \* the baselines a run may be compared against
  Options,   \* the command lines
  MaxEdits   \* bound: how many edits somebody makes while it runs

IsText(t) == DOMAIN t = 1 .. Cardinality(DOMAIN t) /\ t \in [DOMAIN t -> Lines]

\* A tree maps the files that are there to their texts.
IsTree(t) == DOMAIN t \subseteq Files /\ \A f \in DOMAIN t : IsText(t[f])

Rules == {"style", "exports", "lanekeep/suppression"}

Violation == [rule : Rules, file : Files, at : Nat, fix : {"safe", "suggestion", "none"}]

Entry == [rule : Rules, file : Files, line : Lines, count : Nat]

\* clap refuses `--write-baseline` with a selection.
OptionType ==
  { o \in [narrowed : BOOLEAN, picked : SUBSET Files, fix : BOOLEAN, unused : BOOLEAN,
           baseline : {"off", "compare", "write"}] :
      o.narrowed => o.baseline # "write" }

ASSUME FilesAreNumbered == Files \subseteq Nat /\ IsFiniteSet(Files)
ASSUME LinesAreLines == {"bad", "good", ""} \subseteq Lines
ASSUME OriginalsAreTrees == \A t \in Originals : IsTree(t)
ASSUME TextsAreTexts == \A t \in Texts : IsText(t)
ASSUME BaselinesAreEntries == Baselines \subseteq SUBSET Entry
\* Baseline's subject is how duplicate entries, of a baseline edited by hand, sum up.
ASSUME OneEntryPerKey ==
  \A entries \in Baselines : \A d, e \in entries :
    d.rule = e.rule /\ d.file = e.file /\ d.line = e.line => d = e
ASSUME OptionsAreOptions == Options \subseteq OptionType
ASSUME MaxEditsIsNat == MaxEdits \in Nat

VARIABLES
  disk,     \* the tree
  original, \* the tree when the command started
  edited,   \* the files somebody edited since
  edits,    \* how many times
  opts,     \* the command line
  pc,       \* "check", "fix", "write", "recheck", "baseline", "done" or "failed"
  corpus,   \* the files the current run, or else the last, was given
  seen,     \* what that run has read
  outcome,  \* the violations the last finished run found
  toFix,    \* the files `apply_fixes` has still to visit
  draft,    \* the text about to be written
  written,  \* the files it rewrote
  accepted, \* the baseline's entries
  reported, \* the violations reported
  stale     \* the entries called stale

vars == <<disk, original, edited, edits, opts, pc, corpus, seen, outcome, toFix, draft,
          written, accepted, reported, stale>>

TypeOK ==
  /\ IsTree(disk) /\ IsTree(original)
  /\ edited \subseteq Files
  /\ edits \in 0 .. MaxEdits
  /\ opts \in OptionType
  /\ pc \in {"check", "fix", "write", "recheck", "baseline", "done", "failed"}
  /\ corpus \subseteq Files
  /\ IsTree(seen) /\ DOMAIN seen \subseteq corpus
  /\ outcome \subseteq Violation
  /\ toFix \subseteq Files /\ written \subseteq Files
  /\ IsText(draft)
  /\ accepted \subseteq Entry /\ stale \subseteq Entry
  /\ reported \subseteq outcome

-----------------------------------------------------------------------------
(***************************************************************************)
(* What a run finds in the texts it read.                                  *)
(***************************************************************************)

Places(texts) == UNION { {f} \X DOMAIN texts[f] : f \in DOMAIN texts }

LineAt(texts, p) == texts[p[1]][p[2]]

Report(rule, p, fix) == [rule |-> rule, file |-> p[1], at |-> p[2], fix |-> fix]

Imported(texts) == \E p \in Places(texts) : LineAt(texts, p) = "import"

With(texts, line) == { p \in Places(texts) : LineAt(texts, p) = line }

Violations(texts, reduce, unused) ==
  { Report("style", p, "safe") : p \in With(texts, "bad") }
    \cup { Report("style", p, "suggestion") : p \in With(texts, "ugly") }
    \cup { Report("exports", p, "none") :
             p \in { q \in With(texts, "export") : reduce /\ ~Imported(texts) } }
    \cup { Report("lanekeep/suppression", p, "none") :
             p \in { q \in With(texts, "idle") : unused } }

\* Rules that need every file of the project.
CrossFile == {"exports"}

(***************************************************************************)
(* Somebody.                                                               *)
(***************************************************************************)

Edit(f) ==
  /\ pc \notin {"done", "failed"} /\ edits < MaxEdits
  /\ \/ \E text \in Texts :
          disk' = [g \in DOMAIN disk \cup {f} |-> IF g = f THEN text ELSE disk[g]]
     \/ f \in DOMAIN disk /\ disk' = [g \in DOMAIN disk \ {f} |-> disk[g]]
  /\ edits' = edits + 1
  /\ edited' = edited \cup {f}
  /\ UNCHANGED <<original, opts, pc, corpus, seen, outcome, toFix, draft, written,
                 accepted, reported, stale>>

(***************************************************************************)
(* The two runs of the engine.                                             *)
(***************************************************************************)

Running == pc \in {"check", "recheck"}

\* A narrowed selection is intersected with discovery; the recheck takes everything.
Given == IF opts.narrowed THEN opts.picked \cap DOMAIN disk ELSE DOMAIN disk

\* The recheck's engine is prepared afresh, with no phase left out and no report asked.
Reducing == pc = "recheck" \/ ~opts.narrowed
Reporting == pc = "check" /\ opts.unused

\* A file that vanished before it is read is skipped: it adds no more than an empty one.
Content(f) == IF f \in DOMAIN disk THEN disk[f] ELSE << >>

Read(f) ==
  /\ Running /\ f \in corpus \ DOMAIN seen
  /\ seen' = [g \in DOMAIN seen \cup {f} |-> IF g = f THEN Content(f) ELSE seen[g]]
  /\ UNCHANGED <<disk, original, edited, edits, opts, pc, corpus, outcome, toFix, draft,
                 written, accepted, reported, stale>>

\* A rule throws, a limit is breached; or, at the start, the selection names a file
\* discovery does not take.
RunFails ==
  /\ Running
  /\ pc' = "failed"
  /\ UNCHANGED <<disk, original, edited, edits, opts, corpus, seen, outcome, toFix, draft,
                 written, accepted, reported, stale>>

Found == Violations(seen, Reducing, Reporting)

Fixable(found) == { v.file : v \in { w \in found : w.fix # "none" } }

FirstRunEnds ==
  /\ pc = "check" /\ DOMAIN seen = corpus
  /\ outcome' = Found
  /\ \/ opts.fix /\ pc' = "fix" /\ toFix' = Fixable(Found)
     \/ ~opts.fix /\ pc' = "baseline" /\ toFix' = {}
  /\ UNCHANGED <<disk, original, edited, edits, opts, corpus, seen, draft, written,
                 accepted, reported, stale>>

RecheckEnds ==
  /\ pc = "recheck" /\ DOMAIN seen = corpus
  /\ outcome' = Found
  /\ pc' = "baseline"
  /\ UNCHANGED <<disk, original, edited, edits, opts, corpus, seen, toFix, draft, written,
                 accepted, reported, stale>>

(***************************************************************************)
(* `apply_fixes`: file by file, the text is read again, rewritten at the   *)
(* offsets the run reported, and written back.                             *)
(***************************************************************************)

Visiting(f) == f \in toFix /\ \A g \in toFix : f <= g

Safe(f) == { v.at : v \in { w \in outcome : w.file = f /\ w.fix = "safe" } }

Fixed(text, at) ==
  [i \in DOMAIN text |-> IF i \in at THEN "good" ELSE text[i]]

\* The first vanished file ends the loop.
MutLeftOut(f) == {}

\* What is still to be visited where f is left out.
LeftOut(f) == toFix \ {f}

\* Vanished, or no safe fix fits: it is not rewritten.
Pass(f) ==
  /\ pc = "fix" /\ Visiting(f)
  /\ f \in DOMAIN disk => Safe(f) \cap DOMAIN disk[f] = {}
  /\ toFix' = LeftOut(f)
  /\ UNCHANGED <<disk, original, edited, edits, opts, pc, corpus, seen, outcome, draft,
                 written, accepted, reported, stale>>

Rewrite(f) ==
  /\ pc = "fix" /\ Visiting(f)
  /\ f \in DOMAIN disk /\ Safe(f) \cap DOMAIN disk[f] # {}
  /\ draft' = Fixed(disk[f], Safe(f))
  /\ pc' = "write"
  /\ UNCHANGED <<disk, original, edited, edits, opts, corpus, seen, outcome, toFix, written,
                 accepted, reported, stale>>

Write(f) ==
  /\ pc = "write" /\ Visiting(f)
  /\ disk' = [g \in DOMAIN disk \cup {f} |-> IF g = f THEN draft ELSE disk[g]]
  /\ written' = written \cup {f}
  /\ toFix' = toFix \ {f}
  /\ draft' = << >>
  /\ pc' = "fix"
  /\ UNCHANGED <<original, edited, edits, opts, corpus, seen, outcome, accepted, reported,
                 stale>>

WriteFails ==
  /\ pc = "write"
  /\ pc' = "failed"
  /\ UNCHANGED <<disk, original, edited, edits, opts, corpus, seen, outcome, toFix, draft,
                 written, accepted, reported, stale>>

\* Reporting the first run whatever was written.
MutRechecks == FALSE

Rechecks == written # {}

FixEnds ==
  /\ pc = "fix" /\ toFix = {}
  /\ \/ /\ Rechecks
        /\ pc' = "recheck"
        /\ corpus' = DOMAIN disk
        /\ seen' = << >>
     \/ /\ ~Rechecks
        /\ pc' = "baseline"
        /\ UNCHANGED <<corpus, seen>>
  /\ UNCHANGED <<disk, original, edited, edits, opts, outcome, toFix, draft, written,
                 accepted, reported, stale>>

(***************************************************************************)
(* The baseline.  Its keys hold the reported line as it reads now; a line  *)
(* that is no longer there reads as empty.  Each file is read once, and    *)
(* violations of different files share no key, so reading them at one      *)
(* moment is no restriction.                                               *)
(***************************************************************************)

Line(v) ==
  IF v.file \in DOMAIN disk /\ v.at \in DOMAIN disk[v.file] THEN disk[v.file][v.at] ELSE ""

KeyOf(v) == <<v.rule, v.file, Line(v)>>

EntryKey(e) == <<e.rule, e.file, e.line>>

Times(found, key) == Cardinality({ v \in found : KeyOf(v) = key })

\* A baseline as a count for every key.
Accepts(entries, key) ==
  LET of == { e \in entries : EntryKey(e) = key }
  IN IF of = {} THEN 0 ELSE (CHOOSE e \in of : TRUE).count

Baselineable(v) == v.rule # "lanekeep/suppression"

\* One entry per key, once.
MutRecorded ==
  { [rule |-> v.rule, file |-> v.file, line |-> Line(v), count |-> 1] :
      v \in { w \in outcome : Baselineable(w) } }

Recorded ==
  { [rule |-> v.rule, file |-> v.file, line |-> Line(v), count |-> Times(outcome, KeyOf(v))] :
      v \in { w \in outcome : Baselineable(w) } }

Hides(entries, v) ==
  /\ Baselineable(v)
  /\ Cardinality({ w \in outcome : KeyOf(w) = KeyOf(v) /\ w.at < v.at })
       < Accepts(entries, KeyOf(v))

\* The rules a narrowed run skipped are forgotten.
MutInScope(e) == opts.narrowed => e.file \in opts.picked

\* `Scope`, made from the selection before anything ran.
InScope(e) == opts.narrowed => e.file \in opts.picked /\ e.rule \notin CrossFile

Unmatched(entries) ==
  { [e EXCEPT !.count = @ - Times(outcome, EntryKey(e))] :
      e \in { d \in entries :
                /\ Baselineable(d)
                /\ d.count > Times(outcome, EntryKey(d))
                /\ InScope(d) } }

Filter ==
  /\ pc = "baseline"
  /\ \/ opts.baseline = "off" /\ reported' = outcome /\ UNCHANGED <<accepted, stale>>
     \/ /\ opts.baseline = "compare"
        /\ reported' = { v \in outcome : ~Hides(accepted, v) }
        /\ stale' = Unmatched(accepted)
        /\ UNCHANGED accepted
     \/ /\ opts.baseline = "write"
        /\ accepted' = Recorded
        /\ reported' = { v \in outcome : ~Hides(Recorded, v) }
        /\ UNCHANGED stale
  /\ pc' = "done"
  /\ UNCHANGED <<disk, original, edited, edits, opts, corpus, seen, outcome, toFix, draft,
                 written>>

\* The baseline cannot be read, or cannot be written.
BaselineFails ==
  /\ pc = "baseline" /\ opts.baseline # "off"
  /\ pc' = "failed"
  /\ UNCHANGED <<disk, original, edited, edits, opts, corpus, seen, outcome, toFix, draft,
                 written, accepted, reported, stale>>

-----------------------------------------------------------------------------
Init ==
  /\ disk \in Originals
  /\ original = disk
  /\ edited = {}
  /\ edits = 0
  /\ opts \in Options
  /\ pc = "check"
  /\ corpus = Given
  /\ seen = << >>
  /\ outcome = {}
  /\ toFix = {}
  /\ draft = << >>
  /\ written = {}
  /\ accepted \in IF opts.baseline = "compare" THEN Baselines ELSE {{}}
  /\ reported = {}
  /\ stale = {}

Next ==
  \/ \E f \in Files : Edit(f) \/ Read(f) \/ Pass(f) \/ Rewrite(f) \/ Write(f)
  \/ FirstRunEnds \/ RecheckEnds \/ RunFails
  \/ FixEnds \/ WriteFails
  \/ Filter \/ BaselineFails

Spec == Init /\ [][Next]_vars

-----------------------------------------------------------------------------
(***************************************************************************)
(* Properties.                                                             *)
(***************************************************************************)

\* What a run over the whole tree, as it is now, would find.
Left == Violations(disk, TRUE, FALSE)

Of(found, rule, f) == { v \in found : v.rule = rule /\ v.file = f }

\* What is reported describes what is left, not what was found before the fixes were
\* written: in every file the command looked at and nobody else touched, exactly the
\* violations that are on disk; and of a cross-file rule too, if it ran over everything
\* (main.rs `fix_and_recheck`, "would list things that are no longer there").
ReportsWhatIsLeft ==
  pc = "done" =>
    /\ \A f \in corpus \ edited : Of(outcome, "style", f) = Of(Left, "style", f)
    /\ edited = {} /\ ~opts.narrowed =>
         \A f \in Files : Of(outcome, "exports", f) = Of(Left, "exports", f)

\* `--fix` changes matched ranges of files it reported on, all of them and nothing else.
\* At every moment, also after a failure half-way, a file nobody else touched is either
\* as it was or wholly fixed; it can only be fixed if the selection named it; and a
\* command that gets to its end has fixed every file it was given, even when others
\* vanished under it (main.rs `apply_fixes`).
FixesWhatItSays ==
  \A f \in DOMAIN original \ edited :
    LET bad == { i \in DOMAIN original[f] : original[f][i] = "bad" }
        inRun == opts.fix /\ (opts.narrowed => f \in opts.picked)
    IN /\ f \in DOMAIN disk
       /\ \/ disk[f] = original[f]
          \/ inRun /\ disk[f] = Fixed(original[f], bad)
       /\ inRun /\ pc = "done" => disk[f] = Fixed(original[f], bad)

\* An entry called stale is one whose violations are really gone, however the run was
\* narrowed and whatever it fixed: the tree has that many fewer than the entry accepts
\* (main.rs `baseline_skipped_rules`, and the scope built in `check`).
StaleIsReal ==
  pc = "done" =>
    \A e \in stale :
      \/ e.file \in edited
      \/ e.rule \in CrossFile /\ edited # {}
      \/ e.count = Accepts(accepted, EntryKey(e)) - Times(Left, EntryKey(e))

\* Adopting a baseline, with or without `--fix`, silences the next run: every violation
\* left on disk is recorded, as often as it occurs (main.rs `check`, "After `--fix`, so a
\* baseline records and compares what is actually left").
BaselineIsWhatIsLeft ==
  pc = "done" /\ opts.baseline = "write" /\ edited = {} =>
    \A v \in Left : Accepts(accepted, KeyOf(v)) = Times(Left, KeyOf(v))

\* What the documentation says of narrowed selections: they skip cross-file rules.
NarrowedSkipsCrossFile ==
  pc = "done" /\ opts.narrowed => \A v \in reported : v.rule \notin CrossFile
=============================================================================
