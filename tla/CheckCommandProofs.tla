------------------------- MODULE CheckCommandProofs -------------------------
(***************************************************************************)
(* What `--fix` leaves on disk, for any tree, any rules' reports and any   *)
(* edits made while the command runs.                                      *)
(***************************************************************************)
EXTENDS CheckCommand, TLAPS

Bad(f) == { i \in DOMAIN original[f] : original[f][i] = "bad" }

\* The files nobody but the command touched.
Calm == DOMAIN original \ edited

Named(f) == opts.narrowed => f \in opts.picked

\* Each of them is as it was, or as its fixes leave it.
OnDisk ==
  /\ \A f \in DOMAIN original : f \in Files /\ original[f] \in [DOMAIN original[f] -> Lines]
  /\ \A f \in Calm :
       /\ f \in DOMAIN disk
       /\ disk[f] = IF f \in written THEN Fixed(original[f], Bad(f)) ELSE original[f]
  /\ \A f \in written : opts.fix /\ Named(f)

\* What the first run read, until its fixes are written.
FirstRun ==
  /\ pc = "check" => written = {}
  /\ pc \in {"check", "fix", "write"} =>
       /\ corpus = { f \in DOMAIN original : Named(f) }
       /\ DOMAIN seen \subseteq corpus
       /\ \A f \in DOMAIN seen \ edited : seen[f] = original[f]

\* While fixes are written, what is not yet visited, rewritten or without a fix is none.
Fixing ==
  pc \in {"fix", "write"} =>
    /\ opts.fix /\ DOMAIN seen = corpus
    /\ outcome = Violations(seen, ~opts.narrowed, opts.unused)
    /\ toFix \subseteq Fixable(outcome) /\ toFix \cap written = {}
    /\ \A f \in Fixable(outcome) \cap Calm : f \in toFix \cup written \/ Bad(f) = {}

Drafted ==
  pc = "write" =>
    \A f \in Calm : Visiting(f) => draft = Fixed(original[f], Bad(f))

\* And afterwards every file the run was given is fixed.
AllFixed ==
  pc \in {"recheck", "baseline", "done"} /\ opts.fix =>
    \A f \in Calm : Named(f) => f \in written \/ Bad(f) = {}

IInv == OnDisk /\ FirstRun /\ Fixing /\ Drafted /\ AllFixed

-----------------------------------------------------------------------------
\* The safe fixes of a file nobody touched are its bad lines, and a file without any
\* fix has no bad line.
LEMMA SafeIsBad ==
  ASSUME IInv, NEW f \in Calm, f \in DOMAIN seen,
         outcome = Violations(seen, ~opts.narrowed, opts.unused),
         seen[f] = original[f]
  PROVE  /\ Safe(f) = Bad(f)
         /\ f \notin Fixable(outcome) => Bad(f) = {}
<1>1. ASSUME NEW i \in Bad(f)
      PROVE  /\ Report("style", <<f, i>>, "safe") \in outcome
             /\ i \in Safe(f)
  <2>1. <<f, i>> \in Places(seen)
    BY <1>1 DEF Places, Bad
  <2>2. LineAt(seen, <<f, i>>) = "bad"
    BY <1>1 DEF LineAt, Bad
  <2>3. Report("style", <<f, i>>, "safe") \in outcome
    BY <2>1, <2>2 DEF Violations, With
  <2>4. i \in Safe(f)
    <3>1. /\ Report("style", <<f, i>>, "safe").file = f
          /\ Report("style", <<f, i>>, "safe").at = i
          /\ Report("style", <<f, i>>, "safe").fix = "safe"
      BY DEF Report
    <3> QED  BY <2>3, <3>1 DEF Safe
  <2> QED  BY <2>3, <2>4
<1>2. ASSUME NEW i \in Safe(f)
      PROVE  i \in Bad(f)
  <2>1. PICK v \in outcome : v.file = f /\ v.fix = "safe" /\ v.at = i
    BY <1>2 DEF Safe
  <2>2. PICK p \in With(seen, "bad") : v = Report("style", p, "safe")
    BY <2>1 DEF Violations, Report
  <2>3. p[1] = f /\ p[2] = i /\ p \in Places(seen) /\ LineAt(seen, p) = "bad"
    BY <2>1, <2>2 DEF Report, With
  <2>4. i \in DOMAIN seen[f] /\ seen[f][i] = "bad"
    BY <2>3 DEF Places, LineAt
  <2> QED  BY <2>4 DEF Bad
<1>3. ASSUME f \notin Fixable(outcome), NEW i \in Bad(f)
      PROVE  FALSE
  <2>1. /\ Report("style", <<f, i>>, "safe").file = f
        /\ Report("style", <<f, i>>, "safe").fix = "safe"
    BY DEF Report
  <2> QED  BY <1>1, <1>3, <2>1 DEF Fixable
<1> QED  BY <1>1, <1>2, <1>3

\* Only files that were read have violations.
LEMMA FixableWereRead ==
  ASSUME NEW reduce, NEW unused
  PROVE  Fixable(Violations(seen, reduce, unused)) \subseteq DOMAIN seen
<1> SUFFICES ASSUME NEW v \in Violations(seen, reduce, unused)
             PROVE  v.file \in DOMAIN seen
  BY DEF Fixable
<1>1. PICK p \in Places(seen), rule \in Rules, fix \in {"safe", "suggestion", "none"} :
        v = Report(rule, p, fix)
  BY DEF Violations, With, Rules
<1>2. p[1] \in DOMAIN seen
  BY DEF Places
<1> QED  BY <1>1, <1>2 DEF Report

\* At most one file is visited at a time.
LEMMA OneVisited ==
  ASSUME NEW f, NEW g, Visiting(f), Visiting(g), f \in Files, g \in Files
  PROVE  f = g
<1>1. f <= g /\ g <= f
  BY DEF Visiting
<1>2. f \in Nat /\ g \in Nat
  BY FilesAreNumbered
<1> QED  BY <1>1, <1>2

\* Nothing to fix leaves a text as it is.
LEMMA FixedNothing ==
  ASSUME IInv, NEW f \in DOMAIN original, Bad(f) = {}
  PROVE  Fixed(original[f], Bad(f)) = original[f]
BY DEF IInv, OnDisk, Fixed

LEMMA InitIInv == Init => IInv
<1> SUFFICES ASSUME Init PROVE IInv
  OBVIOUS
<1>1. IsTree(original) /\ disk = original
  BY OriginalsAreTrees DEF Init
<1>2. OnDisk
  BY <1>1 DEF Init, OnDisk, IsTree, IsText, Calm
<1>3. corpus = { f \in DOMAIN original : Named(f) }
  BY <1>1 DEF Init, Given, Named
<1>4. DOMAIN seen = {}
  BY DEF Init
<1>5. FirstRun
  BY <1>3, <1>4 DEF Init, FirstRun
<1> QED  BY <1>2, <1>5 DEF Init, IInv, Fixing, Drafted, AllFixed

LEMMA EditStep ==
  ASSUME IInv, NEW f \in Files, Edit(f)
  PROVE  IInv'
<1>1. /\ edited' = edited \cup {f}
      /\ UNCHANGED <<original, opts, pc, corpus, seen, outcome, toFix, draft, written>>
      /\ \A g \in DOMAIN disk \ {f} : g \in DOMAIN disk' /\ disk'[g] = disk[g]
  BY DEF Edit
<1>2. Calm' = Calm \ {f}
  BY <1>1 DEF Calm
<1>3. \A g : Bad(g)' = Bad(g) /\ (Named(g)' <=> Named(g)) /\ (Visiting(g)' <=> Visiting(g))
  BY <1>1 DEF Bad, Named, Visiting
<1>4. OnDisk'
  BY <1>1, <1>2, <1>3 DEF IInv, OnDisk, Fixed
<1>5. FirstRun'
  BY <1>1, <1>3 DEF IInv, FirstRun
<1>6. Fixing' /\ Drafted' /\ AllFixed'
  <2>1. Fixing'
    BY <1>1, <1>2, <1>3 DEF IInv, Fixing, Fixable, Violations, With, Places, LineAt,
                            Imported
  <2>2. Drafted'
    BY <1>1, <1>2, <1>3 DEF IInv, Drafted, Fixed
  <2>3. AllFixed'
    BY <1>1, <1>2, <1>3 DEF IInv, AllFixed
  <2> QED  BY <2>1, <2>2, <2>3
<1> QED  BY <1>4, <1>5, <1>6 DEF IInv

LEMMA FirstRunEndsStep ==
  ASSUME IInv, FirstRunEnds
  PROVE  IInv'
<1>1. /\ pc = "check" /\ DOMAIN seen = corpus /\ outcome' = Found
      /\ UNCHANGED <<disk, original, edited, opts, corpus, seen, draft, written>>
      /\ \/ opts.fix /\ pc' = "fix" /\ toFix' = Fixable(Found)
         \/ ~opts.fix /\ pc' = "baseline" /\ toFix' = {}
  BY DEF FirstRunEnds
<1>2. Calm' = Calm /\ \A g : Bad(g)' = Bad(g) /\ (Named(g)' <=> Named(g))
  BY <1>1 DEF Calm, Bad, Named
<1>3. Found = Violations(seen, ~opts.narrowed, opts.unused)
  <2>1. (Reducing <=> ~opts.narrowed) /\ (Reporting <=> opts.unused)
    BY <1>1 DEF Reducing, Reporting
  <2> QED  BY <2>1 DEF Found, Violations
<1>4. outcome' = Violations(seen, ~opts.narrowed, opts.unused)'
  <2>1. Violations(seen, ~opts.narrowed, opts.unused)'
          = Violations(seen, ~opts.narrowed, opts.unused)
    BY <1>1 DEF Violations, With, Places, LineAt, Imported, Report
  <2> QED  BY <1>1, <1>3, <2>1
<1>5. OnDisk' /\ FirstRun' /\ Drafted' /\ AllFixed'
  BY <1>1, <1>2 DEF IInv, OnDisk, FirstRun, Drafted, AllFixed, Fixed
<1>6. Fixing'
  BY <1>1, <1>2, <1>4 DEF IInv, FirstRun, Fixing, Fixable
<1> QED  BY <1>5, <1>6 DEF IInv

LEMMA PassStep ==
  ASSUME IInv, NEW f \in Files, Pass(f)
  PROVE  IInv'
<1>1. /\ pc = "fix" /\ f \in toFix /\ toFix' = toFix \ {f}
      /\ f \in DOMAIN disk => Safe(f) \cap DOMAIN disk[f] = {}
      /\ UNCHANGED <<disk, original, edited, opts, pc, corpus, seen, outcome, draft,
                     written>>
  BY DEF Pass, Visiting, LeftOut
<1>2. Calm' = Calm /\ \A g : Bad(g)' = Bad(g) /\ (Named(g)' <=> Named(g))
  BY <1>1 DEF Calm, Bad, Named
<1>3. f \in Calm => Bad(f) = {}
  <2> SUFFICES ASSUME f \in Calm PROVE Bad(f) = {}
    OBVIOUS
  <2>1. /\ f \in DOMAIN disk /\ disk[f] = original[f]
        /\ f \in DOMAIN seen /\ seen[f] = original[f]
        /\ outcome = Violations(seen, ~opts.narrowed, opts.unused)
    BY <1>1, FixableWereRead DEF IInv, OnDisk, FirstRun, Fixing, Calm
  <2>2. Safe(f) = Bad(f)
    BY <2>1, SafeIsBad
  <2> QED  BY <1>1, <2>1, <2>2 DEF Bad
<1>4. OnDisk' /\ FirstRun' /\ Drafted' /\ AllFixed'
  BY <1>1, <1>2 DEF IInv, OnDisk, FirstRun, Drafted, AllFixed, Fixed
<1>5. Fixing'
  <2>1. Violations(seen, ~opts.narrowed, opts.unused)'
          = Violations(seen, ~opts.narrowed, opts.unused)
    BY <1>1 DEF Violations, With, Places, LineAt, Imported, Report
  <2> QED  BY <1>1, <1>2, <1>3, <2>1 DEF IInv, Fixing, Fixable
<1> QED  BY <1>4, <1>5 DEF IInv

LEMMA RewriteStep ==
  ASSUME IInv, NEW f \in Files, Rewrite(f)
  PROVE  IInv'
<1>1. /\ pc = "fix" /\ f \in toFix /\ pc' = "write" /\ draft' = Fixed(disk[f], Safe(f))
      /\ UNCHANGED <<disk, original, edited, opts, corpus, seen, outcome, toFix, written>>
  BY DEF Rewrite, Visiting
<1>2. /\ Calm' = Calm
      /\ \A g : Bad(g)' = Bad(g) /\ (Named(g)' <=> Named(g)) /\ (Visiting(g)' <=> Visiting(g))
  BY <1>1 DEF Calm, Bad, Named, Visiting
<1>3. f \in Calm => draft' = Fixed(original[f], Bad(f))
  <2> SUFFICES ASSUME f \in Calm PROVE draft' = Fixed(original[f], Bad(f))
    OBVIOUS
  <2>1. /\ f \in DOMAIN disk /\ disk[f] = original[f]
        /\ f \in DOMAIN seen /\ seen[f] = original[f]
        /\ outcome = Violations(seen, ~opts.narrowed, opts.unused)
    BY <1>1, FixableWereRead DEF IInv, OnDisk, FirstRun, Fixing, Calm
  <2> QED  BY <1>1, <2>1, SafeIsBad
<1>4. OnDisk' /\ FirstRun' /\ AllFixed'
  BY <1>1, <1>2 DEF IInv, OnDisk, FirstRun, AllFixed, Fixed
<1>5. Fixing'
  <2>1. Violations(seen, ~opts.narrowed, opts.unused)'
          = Violations(seen, ~opts.narrowed, opts.unused)
    BY <1>1 DEF Violations, With, Places, LineAt, Imported, Report
  <2> QED  BY <1>1, <1>2, <2>1 DEF IInv, Fixing, Fixable
<1>6. Drafted'
  <2> SUFFICES ASSUME NEW g \in Calm, Visiting(g)
               PROVE  draft' = Fixed(original[g], Bad(g))
    BY <1>1, <1>2 DEF Drafted, Fixed
  <2>1. g = f
    <3>1. g \in Files
      BY DEF IInv, OnDisk, Calm
    <3> QED  BY <3>1, OneVisited DEF Rewrite
  <2> QED  BY <1>3, <2>1
<1> QED  BY <1>4, <1>5, <1>6 DEF IInv

LEMMA WriteStep ==
  ASSUME IInv, NEW f \in Files, Write(f)
  PROVE  IInv'
<1>1. /\ pc = "write" /\ Visiting(f) /\ f \in toFix /\ pc' = "fix"
      /\ written' = written \cup {f} /\ toFix' = toFix \ {f}
      /\ UNCHANGED <<original, edited, opts, corpus, seen, outcome>>
      /\ f \in DOMAIN disk' /\ disk'[f] = draft
      /\ \A g \in DOMAIN disk \ {f} : g \in DOMAIN disk' /\ disk'[g] = disk[g]
  BY DEF Write, Visiting
<1>2. Calm' = Calm /\ \A g : Bad(g)' = Bad(g) /\ (Named(g)' <=> Named(g))
  BY <1>1 DEF Calm, Bad, Named
<1>3. opts.fix /\ Named(f)
  BY <1>1, FixableWereRead DEF IInv, Fixing, FirstRun
<1>4. f \in Calm => draft = Fixed(original[f], Bad(f))
  BY <1>1 DEF IInv, Drafted
<1>5. OnDisk'
  <2>1. ASSUME NEW g \in Calm
        PROVE  /\ g \in DOMAIN disk'
               /\ disk'[g] = IF g \in written' THEN Fixed(original[g], Bad(g))
                             ELSE original[g]
    <3>1. CASE g = f
      BY <1>1, <1>4, <3>1
    <3>2. CASE g # f
      BY <1>1, <3>2 DEF IInv, OnDisk
    <3> QED  BY <3>1, <3>2
  <2>2. \A g \in written' : opts.fix /\ Named(g)
    BY <1>1, <1>3 DEF IInv, OnDisk
  <2> QED  BY <1>1, <1>2, <2>1, <2>2 DEF IInv, OnDisk, Fixed
<1>6. FirstRun' /\ Drafted' /\ AllFixed'
  BY <1>1, <1>2 DEF IInv, FirstRun, Drafted, AllFixed
<1>7. Fixing'
  <2>1. Violations(seen, ~opts.narrowed, opts.unused)'
          = Violations(seen, ~opts.narrowed, opts.unused)
    BY <1>1 DEF Violations, With, Places, LineAt, Imported, Report
  <2> QED  BY <1>1, <1>2, <2>1 DEF IInv, Fixing, Fixable
<1> QED  BY <1>5, <1>6, <1>7 DEF IInv

LEMMA FixEndsStep ==
  ASSUME IInv, FixEnds
  PROVE  IInv'
<1>1. /\ pc = "fix" /\ toFix = {} /\ pc' \in {"recheck", "baseline"}
      /\ UNCHANGED <<disk, original, edited, opts, outcome, toFix, draft, written>>
  BY DEF FixEnds
<1>2. Calm' = Calm /\ \A g : Bad(g)' = Bad(g) /\ (Named(g)' <=> Named(g))
  BY <1>1 DEF Calm, Bad, Named
<1>3. ASSUME NEW f \in Calm, Named(f)
      PROVE  f \in written \/ Bad(f) = {}
  <2>1. /\ f \in DOMAIN seen /\ seen[f] = original[f]
        /\ outcome = Violations(seen, ~opts.narrowed, opts.unused)
    BY <1>1, <1>3 DEF IInv, FirstRun, Fixing, Calm
  <2>2. CASE f \in Fixable(outcome)
    BY <1>1, <2>2 DEF IInv, Fixing
  <2>3. CASE f \notin Fixable(outcome)
    BY <2>1, <2>3, SafeIsBad
  <2> QED  BY <2>2, <2>3
<1>4. OnDisk' /\ FirstRun' /\ Fixing' /\ Drafted'
  BY <1>1, <1>2 DEF IInv, OnDisk, FirstRun, Fixing, Drafted, Fixed
<1>5. AllFixed'
  BY <1>1, <1>2, <1>3 DEF AllFixed
<1> QED  BY <1>4, <1>5 DEF IInv

LEMMA Inductive == Spec => []IInv
<1>1. IInv /\ [Next]_vars => IInv'
  <2> SUFFICES ASSUME IInv, [Next]_vars PROVE IInv'
    OBVIOUS
  <2> USE DEF IInv, OnDisk, FirstRun, Fixing, Drafted, AllFixed, Calm, Bad, Named, Fixed
  <2>1. ASSUME NEW f \in Files, Read(f) PROVE IInv'
    <3>1. /\ pc \in {"check", "recheck"} /\ f \in corpus
          /\ DOMAIN seen' = DOMAIN seen \cup {f} /\ seen'[f] = Content(f)
          /\ \A g \in DOMAIN seen : seen'[g] = seen[g]
          /\ UNCHANGED <<disk, original, edited, opts, pc, corpus, outcome, toFix, written>>
      BY <2>1 DEF Read, Running
    <3>2. pc = "check" /\ f \notin edited => seen'[f] = original[f]
      BY <3>1 DEF Content
    <3> QED  BY <3>1, <3>2 DEF Visiting
  <2>2. CASE RunFails
    BY <2>2 DEF RunFails, Running
  <2>3. CASE RecheckEnds
    BY <2>3 DEF RecheckEnds
  <2>4. CASE WriteFails
    BY <2>4 DEF WriteFails
  <2>5. CASE Filter
    BY <2>5 DEF Filter
  <2>6. CASE BaselineFails
    BY <2>6 DEF BaselineFails
  <2>7. CASE UNCHANGED vars
    BY <2>7 DEF vars, Visiting, Fixable, Violations, With, Places, LineAt, Imported, Report
  <2> QED  BY <2>1, <2>2, <2>3, <2>4, <2>5, <2>6, <2>7, EditStep, FirstRunEndsStep,
              PassStep, RewriteStep, WriteStep, FixEndsStep DEF Next
<1> QED  BY InitIInv, <1>1, PTL DEF Spec

\* Whatever the tree, the selection and the edits made meanwhile: a file nobody else
\* touched is at every moment untouched or wholly fixed, is fixed only if the selection
\* named it, and is fixed when the command ends.
THEOREM FixesAreExact == Spec => []FixesWhatItSays
<1>1. IInv => FixesWhatItSays
  <2> SUFFICES ASSUME IInv, NEW f \in Calm
               PROVE  /\ f \in DOMAIN disk
                      /\ \/ disk[f] = original[f]
                         \/ opts.fix /\ Named(f) /\ disk[f] = Fixed(original[f], Bad(f))
                      /\ opts.fix /\ Named(f) /\ pc = "done" =>
                           disk[f] = Fixed(original[f], Bad(f))
    BY DEF FixesWhatItSays, Calm, Named, Bad
  <2>1. CASE f \in written
    BY <2>1 DEF IInv, OnDisk
  <2>2. CASE f \notin written
    <3>1. f \in DOMAIN disk /\ disk[f] = original[f]
      BY <2>2 DEF IInv, OnDisk
    <3>2. opts.fix /\ Named(f) /\ pc = "done" => Bad(f) = {}
      BY <2>2 DEF IInv, AllFixed
    <3>3. Bad(f) = {} => Fixed(original[f], Bad(f)) = original[f]
      BY FixedNothing DEF Calm
    <3> QED  BY <3>1, <3>2, <3>3
  <2> QED  BY <2>1, <2>2
<1> QED  BY <1>1, Inductive, PTL

-----------------------------------------------------------------------------
(***************************************************************************)
(* What is reported.                                                       *)
(***************************************************************************)

\* Nothing appears in the tree but by an edit.
Known == DOMAIN disk \ edited \subseteq DOMAIN original

\* While a run reads, and once the command has finished its runs, what was read of the
\* files nobody else touched is what is there, and all of them were given.
SeenIsThere ==
  pc \in {"check", "recheck", "baseline", "done"} =>
    /\ DOMAIN seen \subseteq corpus
    /\ corpus \ edited \subseteq DOMAIN disk
    /\ \A f \in DOMAIN disk \ edited : Named(f) => f \in corpus
    /\ \A f \in DOMAIN seen \ edited : seen[f] = disk[f]

\* The outcome is what a whole run, unless narrowed, found in what was read.
FoundInSeen ==
  /\ DOMAIN seen = corpus
  /\ \E reduce, unused \in BOOLEAN :
       /\ outcome = Violations(seen, reduce, unused)
       /\ opts.narrowed \/ reduce

OutcomeIsSeen == pc \in {"baseline", "done"} => FoundInSeen

\* The baseline is the one given until the last step, which calls stale what of it is
\* unmatched or else records what was found.
BaselineKept ==
  /\ opts \in Options
  /\ opts.baseline = "compare" => accepted \in Baselines
  /\ \/ stale = {}
     \/ pc = "done" /\ opts.baseline = "compare" /\ stale = Unmatched(accepted)
  /\ pc = "done" /\ opts.baseline = "write" => accepted = Recorded

RInv == Known /\ SeenIsThere /\ OutcomeIsSeen /\ BaselineKept

LEMMA OptionsTyped ==
  ASSUME NEW o \in Options
  PROVE  o.narrowed \in BOOLEAN /\ o.unused \in BOOLEAN
BY OptionsAreOptions DEF OptionType

\* Where neither the texts read nor the outcome change, what was found stays found.
LEMMA SameFound ==
  ASSUME FoundInSeen, UNCHANGED <<opts, corpus, seen, outcome>>
  PROVE  FoundInSeen'
<1>1. \A reduce, unused : Violations(seen, reduce, unused)' = Violations(seen, reduce, unused)
  BY DEF Violations, With, Places, LineAt, Imported, Report
<1> QED  BY <1>1 DEF FoundInSeen

LEMMA InitRInv == Init => RInv
<1> SUFFICES ASSUME Init PROVE RInv
  OBVIOUS
<1>1. disk = original /\ DOMAIN seen = {} /\ pc = "check" /\ edited = {} /\ stale = {}
  BY DEF Init
<1>2. corpus = { f \in DOMAIN disk : Named(f) }
  BY DEF Init, Given, Named
<1>3. Known /\ SeenIsThere /\ OutcomeIsSeen
  BY <1>1, <1>2 DEF Known, SeenIsThere, OutcomeIsSeen
<1>4. BaselineKept
  BY <1>1 DEF Init, BaselineKept
<1> QED  BY <1>3, <1>4 DEF RInv

LEMMA RInvEdit ==
  ASSUME RInv, NEW f \in Files, Edit(f)
  PROVE  RInv'
<1>1. /\ edited' = edited \cup {f}
      /\ UNCHANGED <<original, opts, pc, corpus, seen, outcome, stale, accepted>>
      /\ pc # "done"
      /\ \A g : g # f => (g \in DOMAIN disk' <=> g \in DOMAIN disk)
      /\ \A g \in DOMAIN disk \ {f} : disk'[g] = disk[g]
  BY DEF Edit
<1>2. Known' /\ SeenIsThere'
  BY <1>1 DEF RInv, Known, SeenIsThere, Named
<1>3. OutcomeIsSeen'
  BY <1>1, SameFound DEF RInv, OutcomeIsSeen
<1>4. BaselineKept'
  BY <1>1 DEF RInv, BaselineKept
<1> QED  BY <1>2, <1>3, <1>4 DEF RInv

LEMMA RInvRead ==
  ASSUME RInv, NEW f \in Files, Read(f)
  PROVE  RInv'
<1>1. /\ pc \in {"check", "recheck"} /\ f \in corpus \ DOMAIN seen
      /\ DOMAIN seen' = DOMAIN seen \cup {f} /\ seen'[f] = Content(f)
      /\ \A g \in DOMAIN seen : seen'[g] = seen[g]
      /\ UNCHANGED <<disk, original, edited, opts, pc, corpus, outcome, stale, accepted>>
  BY DEF Read, Running
<1>a. f \notin edited => seen'[f] = disk[f]
  BY <1>1 DEF RInv, SeenIsThere, Content
<1>2. Known' /\ SeenIsThere'
  BY <1>1, <1>a DEF RInv, Known, SeenIsThere, Named
<1>3. OutcomeIsSeen'
  BY <1>1 DEF OutcomeIsSeen
<1>4. BaselineKept'
  BY <1>1 DEF RInv, BaselineKept
<1> QED  BY <1>2, <1>3, <1>4 DEF RInv

LEMMA RInvRunEnds ==
  ASSUME IInv, RInv, FirstRunEnds \/ RecheckEnds
  PROVE  RInv'
<1>1. /\ pc \in {"check", "recheck"} /\ DOMAIN seen = corpus /\ outcome' = Found
      /\ pc' \in {"fix", "baseline"}
      /\ UNCHANGED <<disk, original, edited, opts, corpus, seen, stale, accepted>>
  BY DEF FirstRunEnds, RecheckEnds
<1>2. Known' /\ SeenIsThere'
  BY <1>1 DEF RInv, Known, SeenIsThere, Named
<1>3. FoundInSeen'
  <2> DEFINE u == Reporting
  <2>1. Reducing \in BOOLEAN /\ u \in BOOLEAN
    BY DEF Reducing, Reporting
  <2>2. opts.narrowed \/ Reducing
    BY DEF Reducing
  <2>3. \A reduce, unused : Violations(seen, reduce, unused)' = Violations(seen, reduce, unused)
    BY <1>1 DEF Violations, With, Places, LineAt, Imported, Report
  <2>4. outcome' = Violations(seen, Reducing, u)
    BY <1>1 DEF Found
  <2> QED  BY <1>1, <2>1, <2>2, <2>3, <2>4 DEF FoundInSeen
<1>4. BaselineKept'
  BY <1>1 DEF RInv, BaselineKept
<1> QED  BY <1>2, <1>3, <1>4 DEF RInv, OutcomeIsSeen

LEMMA RInvWrite ==
  ASSUME IInv, RInv, NEW f \in Files, Write(f)
  PROVE  RInv'
<1>1. /\ pc = "write" /\ pc' = "fix" /\ f \in toFix /\ DOMAIN disk' = DOMAIN disk \cup {f}
      /\ UNCHANGED <<original, edited, opts, corpus, seen, outcome, stale, accepted>>
  BY DEF Write, Visiting
<1>2. f \in DOMAIN original
  BY <1>1, FixableWereRead DEF IInv, Fixing, FirstRun
<1> QED  BY <1>1, <1>2 DEF RInv, Known, SeenIsThere, OutcomeIsSeen, BaselineKept

LEMMA RInvFixEnds ==
  ASSUME IInv, RInv, FixEnds
  PROVE  RInv'
<1>1. /\ pc = "fix"
      /\ UNCHANGED <<disk, original, edited, opts, outcome, stale, accepted>>
  BY DEF FixEnds
<1>2. Known' /\ BaselineKept'
  BY <1>1 DEF FixEnds, RInv, Known, BaselineKept
<1>3. CASE pc' = "recheck" /\ corpus' = DOMAIN disk /\ seen' = << >>
  BY <1>1, <1>2, <1>3 DEF RInv, SeenIsThere, OutcomeIsSeen
<1>4. CASE pc' = "baseline" /\ written = {} /\ UNCHANGED <<corpus, seen>>
  <2>1. /\ DOMAIN seen = corpus /\ corpus = { f \in DOMAIN original : Named(f) }
        /\ \A f \in DOMAIN seen \ edited : seen[f] = original[f]
        /\ outcome = Violations(seen, ~opts.narrowed, opts.unused)
        /\ \A f \in Calm : f \in DOMAIN disk /\ disk[f] = original[f]
    BY <1>1, <1>4 DEF IInv, FirstRun, Fixing, OnDisk
  <2>2. SeenIsThere'
    BY <1>1, <1>4, <2>1 DEF RInv, Known, SeenIsThere, Named, Calm
  <2>3. opts.narrowed \in BOOLEAN /\ opts.unused \in BOOLEAN
    BY OptionsTyped DEF RInv, BaselineKept
  <2>4. FoundInSeen
    BY <2>1, <2>3 DEF FoundInSeen
  <2>5. OutcomeIsSeen'
    BY <1>1, <1>4, <2>4, SameFound DEF OutcomeIsSeen
  <2> QED  BY <1>2, <2>2, <2>5 DEF RInv
<1> QED  BY <1>3, <1>4 DEF FixEnds, Rechecks

LEMMA RInvFilter ==
  ASSUME RInv, Filter
  PROVE  RInv'
<1>1. /\ pc = "baseline" /\ pc' = "done"
      /\ UNCHANGED <<disk, original, edited, opts, corpus, seen, outcome>>
  BY DEF Filter
<1>2. Known' /\ SeenIsThere'
  BY <1>1 DEF RInv, Known, SeenIsThere, Named
<1>3. OutcomeIsSeen'
  BY <1>1, SameFound DEF RInv, OutcomeIsSeen
<1>4. (\A entries : Unmatched(entries)' = Unmatched(entries)) /\ Recorded' = Recorded
  BY <1>1 DEF Unmatched, Recorded, Times, KeyOf, Line, InScope, Baselineable
<1>5. BaselineKept'
  BY <1>1, <1>4 DEF Filter, RInv, BaselineKept
<1> QED  BY <1>2, <1>3, <1>5 DEF RInv

\* It holds in every state the command reaches.
LEMMA RInductive == Spec => []RInv
<1>1. IInv /\ RInv /\ [Next]_vars => RInv'
  <2> SUFFICES ASSUME IInv, RInv, [Next]_vars PROVE RInv'
    OBVIOUS
  <2>1. ASSUME NEW f \in Files, Pass(f) \/ Rewrite(f) PROVE RInv'
    BY <2>1 DEF Pass, Rewrite, RInv, Known, SeenIsThere, OutcomeIsSeen, BaselineKept
  <2>2. CASE RunFails \/ WriteFails \/ BaselineFails
    BY <2>2 DEF RunFails, WriteFails, BaselineFails, Running,
                RInv, Known, SeenIsThere, OutcomeIsSeen, BaselineKept
  <2>3. CASE UNCHANGED vars
    <3>1. /\ UNCHANGED <<disk, original, edited, opts, pc, corpus, seen, outcome, stale,
                         accepted>>
          /\ Recorded' = Recorded /\ Unmatched(accepted)' = Unmatched(accepted)
      BY <2>3 DEF vars, Unmatched, Recorded, Times, KeyOf, Line, InScope, Baselineable
    <3>2. OutcomeIsSeen'
      BY <3>1, SameFound DEF RInv, OutcomeIsSeen
    <3> QED  BY <3>1, <3>2 DEF RInv, Known, SeenIsThere, BaselineKept, Named
  <2> QED  BY <2>1, <2>2, <2>3, RInvEdit, RInvRead, RInvRunEnds, RInvWrite, RInvFixEnds,
              RInvFilter DEF Next
<1> QED  BY InitRInv, Inductive, <1>1, PTL DEF Spec

-----------------------------------------------------------------------------
\* The violations of a single file's rules in a file are its bad and its ugly lines.
LEMMA StyleOf ==
  ASSUME NEW texts, NEW reduce, NEW unused, NEW f, NEW v
  PROVE  v \in Of(Violations(texts, reduce, unused), "style", f) <=>
           /\ f \in DOMAIN texts
           /\ \E i \in DOMAIN texts[f] :
                \/ texts[f][i] = "bad" /\ v = Report("style", <<f, i>>, "safe")
                \/ texts[f][i] = "ugly" /\ v = Report("style", <<f, i>>, "suggestion")
<1>1. ASSUME v \in Of(Violations(texts, reduce, unused), "style", f)
      PROVE  /\ f \in DOMAIN texts
             /\ \E i \in DOMAIN texts[f] :
                  \/ texts[f][i] = "bad" /\ v = Report("style", <<f, i>>, "safe")
                  \/ texts[f][i] = "ugly" /\ v = Report("style", <<f, i>>, "suggestion")
  <2>1. PICK p \in Places(texts) :
          \/ LineAt(texts, p) = "bad" /\ v = Report("style", p, "safe")
          \/ LineAt(texts, p) = "ugly" /\ v = Report("style", p, "suggestion")
    BY <1>1 DEF Of, Violations, With, Report
  <2>2. PICK g \in DOMAIN texts : \E i \in DOMAIN texts[g] : p = <<g, i>>
    BY <2>1 DEF Places
  <2>3. g = f
    BY <1>1, <2>1, <2>2 DEF Of, Report
  <2>4. PICK i \in DOMAIN texts[f] : p = <<f, i>>
    BY <2>2, <2>3
  <2> QED  BY <2>1, <2>3, <2>4 DEF LineAt
<1>2. ASSUME f \in DOMAIN texts, NEW i \in DOMAIN texts[f],
             \/ texts[f][i] = "bad" /\ v = Report("style", <<f, i>>, "safe")
             \/ texts[f][i] = "ugly" /\ v = Report("style", <<f, i>>, "suggestion")
      PROVE  v \in Of(Violations(texts, reduce, unused), "style", f)
  <2>1. <<f, i>> \in Places(texts) /\ LineAt(texts, <<f, i>>) = texts[f][i]
    BY <1>2 DEF Places, LineAt
  <2>2. v \in Violations(texts, reduce, unused)
    BY <1>2, <2>1 DEF Violations, With
  <2> QED  BY <1>2, <2>2 DEF Of, Report
<1> QED  BY <1>1, <1>2

\* Those of the cross-file rule are its exports, if nothing the run read imports.
LEMMA ExportsOf ==
  ASSUME NEW texts, NEW reduce, NEW unused, NEW f, NEW v
  PROVE  v \in Of(Violations(texts, reduce, unused), "exports", f) <=>
           /\ reduce /\ ~Imported(texts)
           /\ f \in DOMAIN texts
           /\ \E i \in DOMAIN texts[f] :
                texts[f][i] = "export" /\ v = Report("exports", <<f, i>>, "none")
<1>1. ASSUME v \in Of(Violations(texts, reduce, unused), "exports", f)
      PROVE  /\ reduce /\ ~Imported(texts)
             /\ f \in DOMAIN texts
             /\ \E i \in DOMAIN texts[f] :
                  texts[f][i] = "export" /\ v = Report("exports", <<f, i>>, "none")
  <2>1. PICK p \in Places(texts) :
          /\ LineAt(texts, p) = "export" /\ v = Report("exports", p, "none")
          /\ reduce /\ ~Imported(texts)
    BY <1>1 DEF Of, Violations, With, Report
  <2>2. PICK g \in DOMAIN texts : \E i \in DOMAIN texts[g] : p = <<g, i>>
    BY <2>1 DEF Places
  <2>3. g = f
    BY <1>1, <2>1, <2>2 DEF Of, Report
  <2>4. PICK i \in DOMAIN texts[f] : p = <<f, i>>
    BY <2>2, <2>3
  <2> QED  BY <2>1, <2>3, <2>4 DEF LineAt
<1>2. ASSUME reduce, ~Imported(texts), f \in DOMAIN texts, NEW i \in DOMAIN texts[f],
             texts[f][i] = "export", v = Report("exports", <<f, i>>, "none")
      PROVE  v \in Of(Violations(texts, reduce, unused), "exports", f)
  <2>1. <<f, i>> \in Places(texts) /\ LineAt(texts, <<f, i>>) = texts[f][i]
    BY <1>2 DEF Places, LineAt
  <2>2. v \in Violations(texts, reduce, unused)
    BY <1>2, <2>1 DEF Violations, With
  <2> QED  BY <1>2, <2>2 DEF Of, Report
<1> QED  BY <1>1, <1>2

\* Every violation is of a rule that ran, in a file that was read.
LEMMA RulesFound ==
  ASSUME NEW texts, NEW reduce, NEW unused, NEW v \in Violations(texts, reduce, unused)
  PROVE  /\ v.rule \in {"style", "exports"} \/ (unused /\ v.rule = "lanekeep/suppression")
         /\ v.file \in DOMAIN texts
<1>1. PICK p \in Places(texts) :
        \/ v = Report("style", p, "safe") \/ v = Report("style", p, "suggestion")
        \/ v = Report("exports", p, "none")
        \/ unused /\ v = Report("lanekeep/suppression", p, "none")
  BY DEF Violations, With
<1>2. p[1] \in DOMAIN texts
  BY DEF Places
<1> QED  BY <1>1, <1>2 DEF Report

\* In a file nobody else touched, the outcome holds what is on disk.
LEMMA StyleIsLeft ==
  ASSUME RInv, pc = "done", NEW f, f \notin edited, Named(f) \/ f \in corpus
  PROVE  Of(outcome, "style", f) = Of(Left, "style", f)
<1>1. PICK reduce \in BOOLEAN, unused \in BOOLEAN : outcome = Violations(seen, reduce, unused)
  BY DEF RInv, OutcomeIsSeen, FoundInSeen
<1>2. /\ f \in DOMAIN seen <=> f \in DOMAIN disk
      /\ f \in DOMAIN seen => seen[f] = disk[f]
  BY DEF RInv, SeenIsThere, OutcomeIsSeen, FoundInSeen
<1>3. PICK all \in BOOLEAN, hygiene \in BOOLEAN : Left = Violations(disk, all, hygiene)
  BY DEF Left
<1>4. \A v : v \in Of(outcome, "style", f) <=> v \in Of(Left, "style", f)
  <2> TAKE v
  <2>1. v \in Of(Violations(seen, reduce, unused), "style", f) <=>
           /\ f \in DOMAIN seen
           /\ \E i \in DOMAIN seen[f] :
                \/ seen[f][i] = "bad" /\ v = Report("style", <<f, i>>, "safe")
                \/ seen[f][i] = "ugly" /\ v = Report("style", <<f, i>>, "suggestion")
    BY StyleOf, Z3
  <2>2. v \in Of(Violations(disk, all, hygiene), "style", f) <=>
           /\ f \in DOMAIN disk
           /\ \E i \in DOMAIN disk[f] :
                \/ disk[f][i] = "bad" /\ v = Report("style", <<f, i>>, "safe")
                \/ disk[f][i] = "ugly" /\ v = Report("style", <<f, i>>, "suggestion")
    BY StyleOf, Z3
  <2> QED  BY <1>1, <1>2, <1>3, <2>1, <2>2
<1> QED  BY <1>4 DEF Of

\* And where nobody touched anything, of the cross-file rule too.
LEMMA ExportsAreLeft ==
  ASSUME RInv, pc = "done", edited = {}, ~opts.narrowed, NEW f
  PROVE  Of(outcome, "exports", f) = Of(Left, "exports", f)
<1>1. PICK reduce \in BOOLEAN, unused \in BOOLEAN :
        outcome = Violations(seen, reduce, unused) /\ reduce
  BY DEF RInv, OutcomeIsSeen, FoundInSeen
<1>2. \A g : /\ g \in DOMAIN seen <=> g \in DOMAIN disk
             /\ g \in DOMAIN seen => seen[g] = disk[g]
  BY DEF RInv, SeenIsThere, OutcomeIsSeen, FoundInSeen, Named
<1>3. Imported(seen) <=> Imported(disk)
  <2>1. \A p : p \in Places(seen) <=> p \in Places(disk)
    BY <1>2 DEF Places
  <2>2. \A p \in Places(seen) : LineAt(seen, p) = LineAt(disk, p)
    BY <1>2 DEF Places, LineAt
  <2> QED  BY <2>1, <2>2 DEF Imported
<1>4. PICK all \in BOOLEAN, hygiene \in BOOLEAN :
        Left = Violations(disk, all, hygiene) /\ all
  BY DEF Left
<1>5. \A v : v \in Of(outcome, "exports", f) <=> v \in Of(Left, "exports", f)
  <2> TAKE v
  <2>1. v \in Of(Violations(seen, reduce, unused), "exports", f) <=>
           /\ reduce /\ ~Imported(seen)
           /\ f \in DOMAIN seen
           /\ \E i \in DOMAIN seen[f] :
                seen[f][i] = "export" /\ v = Report("exports", <<f, i>>, "none")
    BY ExportsOf, Z3
  <2>2. v \in Of(Violations(disk, all, hygiene), "exports", f) <=>
           /\ all /\ ~Imported(disk)
           /\ f \in DOMAIN disk
           /\ \E i \in DOMAIN disk[f] :
                disk[f][i] = "export" /\ v = Report("exports", <<f, i>>, "none")
    BY ExportsOf, Z3
  <2> QED  BY <1>1, <1>2, <1>3, <1>4, <2>1, <2>2
<1> QED  BY <1>5 DEF Of

\* What the command reports is what is left on disk, of every file it looked at that
\* nobody else touched, and of a cross-file rule that ran over everything.
THEOREM ReportIsLeft == Spec => []ReportsWhatIsLeft
<1>1. RInv => ReportsWhatIsLeft
  <2> SUFFICES ASSUME RInv, pc = "done" PROVE ReportsWhatIsLeft
    BY DEF ReportsWhatIsLeft
  <2>1. ASSUME NEW f \in corpus \ edited
        PROVE  Of(outcome, "style", f) = Of(Left, "style", f)
    BY <2>1, StyleIsLeft
  <2> QED  BY <2>1, ExportsAreLeft DEF ReportsWhatIsLeft
<1> QED  BY <1>1, RInductive, PTL

\* For a key of a file whose rule ran over what is on disk, the two counts agree.
LEMMA TimesAgree ==
  ASSUME NEW key, NEW rule, NEW f, key[1] = rule, key[2] = f,
         Of(outcome, rule, f) = Of(Left, rule, f)
  PROVE  Times(outcome, key) = Times(Left, key)
<1>1. \A v : KeyOf(v) = key => v.rule = rule /\ v.file = f
  BY DEF KeyOf
<1>2. { v \in outcome : KeyOf(v) = key } = { v \in Left : KeyOf(v) = key }
  BY <1>1 DEF Of
<1> QED  BY <1>2 DEF Times

\* A baseline without duplicate entries accepts of each key what its entry says.
LEMMA AcceptsItsCount ==
  ASSUME NEW entries, NEW d \in entries,
         \A e \in entries : EntryKey(e) = EntryKey(d) => e.count = d.count
  PROVE  Accepts(entries, EntryKey(d)) = d.count
<1> DEFINE of == { e \in entries : EntryKey(e) = EntryKey(d) }
<1>1. d \in of
  OBVIOUS
<1>2. (CHOOSE e \in of : TRUE) \in of
  BY <1>1
<1>3. (CHOOSE e \in of : TRUE).count = d.count
  BY <1>2
<1> QED  BY <1>1, <1>3 DEF Accepts

\* An entry called stale accepts more than is left on disk, and says by how many: its
\* file was in the run, its rule ran, and both saw what is there.
THEOREM StaleIsTrue == Spec => []StaleIsReal
<1>1. RInv => StaleIsReal
  <2> SUFFICES ASSUME RInv, pc = "done", NEW e \in stale,
                      e.file \notin edited, e.rule \in CrossFile => edited = {}
               PROVE  e.count = Accepts(accepted, EntryKey(e)) - Times(Left, EntryKey(e))
    BY DEF StaleIsReal
  <2>1. stale = Unmatched(accepted) /\ accepted \in Baselines
    BY DEF RInv, BaselineKept
  <2>2. PICK d \in accepted :
          /\ Baselineable(d) /\ InScope(d)
          /\ e = [d EXCEPT !.count = @ - Times(outcome, EntryKey(d))]
    BY <2>1 DEF Unmatched
  <2>3. d \in Entry
    BY <2>1, BaselinesAreEntries
  <2>4. /\ e.rule = d.rule /\ e.file = d.file /\ EntryKey(e) = EntryKey(d)
        /\ e.count = d.count - Times(outcome, EntryKey(d))
    BY <2>2, <2>3 DEF Entry, EntryKey
  <2>5. Accepts(accepted, EntryKey(d)) = d.count
    <3>1. \A c \in accepted : EntryKey(c) = EntryKey(d) => c = d
      BY <2>1, OneEntryPerKey DEF EntryKey
    <3> QED  BY <3>1, AcceptsItsCount
  <2>6. d.rule \in {"style", "exports"}
    BY <2>2, <2>3 DEF Baselineable, Entry, Rules
  <2>7. Of(outcome, d.rule, d.file) = Of(Left, d.rule, d.file)
    <3>1. CASE d.rule = "style"
      <4>1. Named(d.file)
        BY <2>2 DEF InScope, Named
      <4> QED  BY <2>4, <3>1, <4>1, StyleIsLeft
    <3>2. CASE d.rule = "exports"
      <4>1. edited = {} /\ ~opts.narrowed
        BY <2>2, <2>4, <3>2 DEF InScope, CrossFile
      <4> QED  BY <3>2, <4>1, ExportsAreLeft
    <3> QED  BY <2>6, <3>1, <3>2
  <2>8. Times(outcome, EntryKey(d)) = Times(Left, EntryKey(d))
    <3>1. EntryKey(d)[1] = d.rule /\ EntryKey(d)[2] = d.file
      BY DEF EntryKey
    <3> QED  BY <2>7, <3>1, TimesAgree
  <2> QED  BY <2>4, <2>5, <2>8
<1> QED  BY <1>1, RInductive, PTL

\* A baseline written at the end, after any fixes, records every violation left on disk
\* as often as it occurs there.
THEOREM BaselineIsLeft == Spec => []BaselineIsWhatIsLeft
<1>1. RInv => BaselineIsWhatIsLeft
  <2> SUFFICES ASSUME RInv, pc = "done", opts.baseline = "write", edited = {},
                      NEW v \in Left
               PROVE  Accepts(accepted, KeyOf(v)) = Times(Left, KeyOf(v))
    BY DEF BaselineIsWhatIsLeft
  <2>1. accepted = Recorded /\ ~opts.narrowed
    BY OptionsAreOptions DEF RInv, BaselineKept, OptionType
  <2>2. v.rule \in {"style", "exports"}
    BY RulesFound DEF Left
  <2>3. Of(outcome, v.rule, v.file) = Of(Left, v.rule, v.file)
    BY <2>1, <2>2, StyleIsLeft, ExportsAreLeft DEF Named
  <2>4. v \in outcome /\ Baselineable(v)
    BY <2>2, <2>3 DEF Of, Baselineable
  <2> DEFINE d == [rule |-> v.rule, file |-> v.file, line |-> Line(v),
                   count |-> Times(outcome, KeyOf(v))]
  <2>5. d \in accepted
    BY <2>1, <2>4 DEF Recorded
  <2>6. EntryKey(d) = KeyOf(v) /\ d.count = Times(outcome, KeyOf(v))
    BY DEF EntryKey, KeyOf
  <2>7. ASSUME NEW e \in accepted
        PROVE  e.count = Times(outcome, EntryKey(e))
    <3>1. PICK w \in outcome :
            e = [rule |-> w.rule, file |-> w.file, line |-> Line(w),
                 count |-> Times(outcome, KeyOf(w))]
      BY <2>1 DEF Recorded
    <3>2. EntryKey(e) = KeyOf(w) /\ e.count = Times(outcome, KeyOf(w))
      BY <3>1 DEF EntryKey, KeyOf
    <3> QED  BY <3>2
  <2>8. Accepts(accepted, EntryKey(d)) = d.count
    <3> HIDE DEF d
    <3>1. \A e \in accepted : EntryKey(e) = EntryKey(d) => e.count = d.count
      BY <2>6, <2>7
    <3> QED  BY <2>5, <3>1, AcceptsItsCount
  <2>9. Times(outcome, KeyOf(v)) = Times(Left, KeyOf(v))
    <3>1. KeyOf(v)[1] = v.rule /\ KeyOf(v)[2] = v.file
      BY DEF KeyOf
    <3> QED  BY <2>3, <3>1, TimesAgree
  <2> HIDE DEF d
  <2> QED  BY <2>6, <2>8, <2>9
<1> QED  BY <1>1, RInductive, PTL
=============================================================================
