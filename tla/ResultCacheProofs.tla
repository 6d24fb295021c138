-------------------------- MODULE ResultCacheProofs --------------------------
(* Proofs about ResultCache: the store is honest, and a run during which    *)
(* nothing changes reports what a cold run would, for every set of files,   *)
(* every rule and any number of processes, edits and days.                  *)
EXTENDS ResultCache, TLAPS

-----------------------------------------------------------------------------
(* Facts about the data.                                                    *)

LEMMA OutcomeFacts ==
    ASSUME NEW k \in Answers, NEW v \in Contents \cup Listings \cup {"-"}
    PROVE  Outcome(k, v) \in AnswerType /\ Outcome(k, v).kind = k
BY DEF Outcome, AnswerType, NoDate

LEMMA DayFacts ==
    ASSUME NEW d \in Nat
    PROVE  DayIs(d) \in AnswerType /\ DayIs(d).kind = "Day" /\ DayIs(d).day = d
BY DEF DayIs, AnswerType, Answers

LEMMA QuestionFacts ==
    /\ \A q \in Questions : q.op \in {"read", "list"} /\ q.path \in Paths
    /\ \A q \in Questions : q = [op |-> q.op, path |-> q.path]
    /\ Today.op = "today" /\ Today.path = "-"
    /\ Today \notin Questions /\ Done \notin Questions /\ Done # Today
BY DEF Questions, Today, Done

LEMMA StepFacts ==
    ASSUME NEW q \in Questions \cup {Today}, NEW a \in AnswerType
    PROVE  /\ Step(q, a) \in StepType
           /\ Step(q, a).op = q.op /\ Step(q, a).path = q.path /\ Step(q, a).ans = a
BY QuestionFacts DEF Step, StepType

\* Looking at a path gives one of the answers its question can have.
LEMMA NowFacts ==
    ASSUME NEW op \in {"read", "list"}, NEW path \in Paths
    PROVE  /\ Now([op |-> op, path |-> path]) \in AnswerType
           /\ Now([op |-> op, path |-> path]).kind \in KindsOf(op)
<1>1. {"Found", "Absent", "Refused", "Listed", "Unlisted", "Day"} = Answers
    BY DEF Answers
<1>2. CASE op = "read"
    BY <1>1, <1>2, OutcomeFacts DEF Now, KindsOf
<1>3. CASE op = "list"
    BY <1>1, <1>3, OutcomeFacts DEF Now, KindsOf
<1> QED
    BY <1>2, <1>3

\* A read that validates is a read that would be answered the same way again,
\* although only its outcome tells which question it was.
LEMMA RecheckFacts ==
    ASSUME NEW op \in {"read", "list"}, NEW path,
           NEW a \in AnswerType, a.kind \in KindsOf(op),
           Recheck([path |-> path, outcome |-> a]) = a
    PROVE  Now([op |-> op, path |-> path]) = a
<1>1. Answers = {"Found", "Absent", "Refused", "Listed", "Unlisted", "Day"}
    BY DEF Answers
<1>2. CASE a.kind \in {"Listed", "Unlisted"}
    BY <1>2 DEF Recheck, KindsOf
<1>3. CASE a.kind \in {"Found", "Absent"}
    BY <1>3 DEF Recheck, KindsOf
<1>4. CASE a.kind = "Refused"
    <2>1. Now([op |-> "read", path |-> path]) = a
        BY <1>4 DEF Recheck
    <2>2. fs[path] = Refused
        BY <2>1, <1>4, <1>1, OutcomeFacts DEF Now, Outcome
    <2> QED
        BY <2>1, <2>2 DEF Now
<1> QED
    BY <1>2, <1>3, <1>4 DEF KindsOf

\* Adding a question and its answer leaves the earlier ones where they were.
LEMMA AppendFacts ==
    ASSUME NEW t \in Seq(StepType), NEW s \in StepType
    PROVE  /\ Append(t, s) \in Seq(StepType)
           /\ Len(Append(t, s)) = Len(t) + 1
           /\ Append(t, s)[Len(t) + 1] = s
           /\ \A i \in 1..Len(t) : Append(t, s)[i] = t[i]
           /\ \A i \in 1..Len(t) + 1 :
                SubSeq(Append(t, s), 1, i - 1) = SubSeq(t, 1, i - 1)
           /\ SubSeq(t, 1, Len(t)) = t
           /\ Len(t) \in Nat
<1>1. /\ Append(t, s) \in Seq(StepType) /\ Len(Append(t, s)) = Len(t) + 1
      /\ Append(t, s)[Len(t) + 1] = s /\ Len(t) \in Nat
      /\ \A i \in 1..Len(t) : Append(t, s)[i] = t[i]
    OBVIOUS
<1>2. SubSeq(t, 1, Len(t)) = t
    OBVIOUS
<1>3. ASSUME NEW i \in 1..Len(t) + 1
      PROVE  SubSeq(Append(t, s), 1, i - 1) = SubSeq(t, 1, i - 1)
    BY <1>1
<1> QED
    BY <1>1, <1>2, <1>3

LEMMA EntryFacts ==
    /\ NoEntry \in EntryType /\ <<>> \in Seq(StepType)
    /\ \A e \in EntryType : e.deps \in SUBSET [path : Paths \cup {"-"}, outcome : AnswerType]
    /\ \A e \in EntryType : e.trace \in Seq(StepType)
    /\ \A e \in EntryType : e.key.path \in Files \cup {NoFile}
    /\ \A s \in StepType : s.ans \in AnswerType /\ s.path \in Paths \cup {"-"}
    /\ \A s \in StepType : s.op \in {"read", "list", "today"}
BY DEF NoEntry, EntryType, Plain, NoDate, StepType

\* The entry FinishFile makes.
NewEntry(p) == [key |-> KeyFor(p), deps |-> Dependencies(p), trace |-> trace[p]]

LEMMA NewEntryType ==
    ASSUME TypeOK, NEW p \in Procs
    PROVE  NewEntry(p) \in EntryType
<1>1. Dependencies(p) \in SUBSET [path : Paths \cup {"-"}, outcome : AnswerType]
    <2>1. memo[p] \subseteq StepType
        BY DEF TypeOK
    <2> QED
        BY <2>1, EntryFacts DEF Dependencies, Tracked
<1>2. KeyFor(p) \in [path : Files \cup {NoFile}, content : Contents \cup {NoFile}, date : Int]
    BY DEF KeyFor, Dated, Plain, NoDate, TypeOK
<1>3. trace[p] \in Seq(StepType)
    BY DEF TypeOK
<1> QED
    BY <1>1, <1>2, <1>3 DEF NewEntry, EntryType

\* Whatever is laid over a map is a map again.
LEMMA MapFacts ==
    ASSUME NEW store \in SUBSET EntryType, OnePerKey(store)
    PROVE  /\ \A e \in EntryType : /\ Insert(store, e) \in SUBSET EntryType
                                   /\ OnePerKey(Insert(store, e))
           /\ \A over \in SUBSET EntryType : OnePerKey(over) =>
                /\ Overlay(store, over) \in SUBSET EntryType
                /\ OnePerKey(Overlay(store, over))
BY DEF Insert, Overlay, OnePerKey

LEMMA SavedFacts ==
    ASSUME TypeOK, NEW p \in Procs
    PROVE  SavedStore(p) \in SUBSET EntryType /\ OnePerKey(SavedStore(p))
BY MapFacts DEF TypeOK, SavedStore

-----------------------------------------------------------------------------
(* Type correctness.                                                        *)

LEMMA TypeInit == Init => TypeOK
BY EntryFacts, BoundsAssumption, SeedsAssumption DEF Init, TypeOK, OnePerKey

LEMMA TypeStep == TypeOK /\ [Next]_vars => TypeOK'
<1> SUFFICES ASSUME TypeOK, [Next]_vars PROVE TypeOK'
    OBVIOUS
<1> USE EntryFacts
<1>1. ASSUME NEW path \in Paths, NEW v \in Values[path], Edit(path, v) PROVE TypeOK'
    <2>1. v \in Contents \cup Listings \cup {Absent, Refused}
        BY SeedsAssumption
    <2>2. fs' \in [Paths -> Contents \cup Listings \cup {Absent, Refused}]
        BY <1>1, <2>1 DEF Edit, TypeOK
    <2> QED
        BY <1>1, <2>2 DEF Edit, run, check, TypeOK, OnePerKey
<1>2. CASE Midnight
    BY <1>2 DEF Midnight, run, check, TypeOK, OnePerKey
<1>3. ASSUME NEW p \in Procs, BeginRun(p) PROVE TypeOK'
    <2>1. cache' \in [Procs -> SUBSET EntryType] /\ \A r \in Procs : OnePerKey(cache'[r])
        BY <1>3 DEF BeginRun, TypeOK
    <2>2. today' \in [Procs -> Nat] /\ coverage' \in [Procs -> {"Whole", "Partial"}]
        BY <1>3 DEF BeginRun, TypeOK
    <2>3. todo' \in [Procs -> SUBSET Files]
        <3>1. PICK some \in SUBSET Files : todo' = [todo EXCEPT ![p] = some]
            BY <1>3, Zenon DEF BeginRun
        <3> QED
            BY <3>1 DEF TypeOK
    <2>4. /\ pc' \in [Procs -> {"idle", "next", "lookup", "validate", "eval", "rename"}]
          /\ quiet' \in [Procs -> BOOLEAN]
        BY <1>3 DEF BeginRun, TypeOK
    <2> QED
        BY <1>3, <2>1, <2>2, <2>3, <2>4 DEF BeginRun, world, check, TypeOK
<1>4. ASSUME NEW p \in Procs, NEW f \in Files, ReadFile(p, f) PROVE TypeOK'
    <2>1. todo' \in [Procs -> SUBSET Files]
        BY <1>4 DEF ReadFile, TypeOK
    <2>2. /\ file' \in [Procs -> Files \cup {NoFile}]
          /\ content' \in [Procs -> Contents \cup {NoFile}]
          /\ pc' \in [Procs -> {"idle", "next", "lookup", "validate", "eval", "rename"}]
        <3>1. CASE UNCHANGED <<file, content, pc>>
            BY <3>1 DEF TypeOK
        <3>2. CASE /\ fs[f] \in Contents
                   /\ file' = [file EXCEPT ![p] = f]
                   /\ content' = [content EXCEPT ![p] = fs[f]]
                   /\ pc' = [pc EXCEPT ![p] = "lookup"]
            BY <3>2 DEF TypeOK
        <3> QED
            BY <1>4, <3>1, <3>2 DEF ReadFile
    <2> QED
        BY <1>4, <2>1, <2>2 DEF ReadFile, world, run, TypeOK
<1>5. ASSUME NEW p \in Procs, Lookup(p) PROVE TypeOK'
    <2>1. CASE /\ pc' = [pc EXCEPT ![p] = "eval"]
               /\ UNCHANGED <<trying, pend, tried>>
        BY <1>5, <2>1 DEF Lookup, world, run, TypeOK
    <2>2. CASE /\ tried' = [tried EXCEPT ![p] = @ + 1]
               /\ UNCHANGED <<pc, trying, pend>>
        BY <1>5, <2>2 DEF Lookup, world, run, TypeOK
    <2>3. ASSUME NEW e \in cache[p],
                 tried' = [tried EXCEPT ![p] = @ + 1],
                 trying' = [trying EXCEPT ![p] = e],
                 pend' = [pend EXCEPT ![p] = e.deps],
                 pc' = [pc EXCEPT ![p] = "validate"]
          PROVE  TypeOK'
        <3>1. e \in EntryType /\ e.deps \in SUBSET [path : Paths \cup {"-"}, outcome : AnswerType]
            BY DEF TypeOK
        <3> QED
            BY <1>5, <2>3, <3>1 DEF Lookup, world, run, TypeOK
    <2> QED
        BY <1>5, <2>1, <2>2, <2>3 DEF Lookup
<1>6. ASSUME NEW p \in Procs, Validate(p) PROVE TypeOK'
    <2>1. CASE pend[p] = {} /\ Conclude(p, trying[p])
        <3>1. /\ fresh' \in [Procs -> SUBSET EntryType]
              /\ \A r \in Procs : OnePerKey(fresh'[r])
            BY <2>1, MapFacts DEF Conclude, TypeOK
        <3>2. served' \in [Procs -> SUBSET EntryType]
            BY <2>1 DEF Conclude, TypeOK
        <3> QED
            BY <1>6, <2>1, <3>1, <3>2 DEF Validate, Conclude, Leave, world, run, TypeOK
    <2>2. ASSUME NEW r \in pend[p], pend' = [pend EXCEPT ![p] = @ \ {r}],
                 UNCHANGED <<pc, file, content, trying, tried, memo, trace, fresh, served>>
          PROVE  TypeOK'
        BY <1>6, <2>2 DEF Validate, world, run, TypeOK
    <2>3. CASE /\ pc' = [pc EXCEPT ![p] = "lookup"]
               /\ trying' = [trying EXCEPT ![p] = NoEntry]
               /\ pend' = [pend EXCEPT ![p] = {}]
               /\ UNCHANGED <<file, content, tried, memo, trace, fresh, served>>
        BY <1>6, <2>3 DEF Validate, world, run, TypeOK
    <2> QED
        BY <1>6, <2>1, <2>2, <2>3 DEF Validate
<1>7. ASSUME NEW p \in Procs, AskToday(p) PROVE TypeOK'
    <2>1. Step(Today, DayIs(today[p])) \in StepType
        BY StepFacts, DayFacts DEF TypeOK
    <2>2. trace' \in [Procs -> Seq(StepType)]
        BY <1>7, <2>1 DEF AskToday, TypeOK
    <2> QED
        BY <1>7, <2>2 DEF AskToday, world, run, TypeOK
<1>8. ASSUME NEW p \in Procs, AskPath(p) PROVE TypeOK'
    <2> DEFINE q == Question(p)
    <2>1. PICK a \in IF Remembered(p, q) = {} THEN {Now(q)}
                     ELSE {m.ans : m \in Remembered(p, q)} :
             /\ memo' = [memo EXCEPT ![p] =
                           {m \in @ : m.op # q.op \/ m.path # q.path} \cup {Step(q, a)}]
             /\ trace' = [trace EXCEPT ![p] = Append(@, Step(q, a))]
        BY <1>8 DEF AskPath
    <2>2. q \in Questions
        BY <1>8 DEF AskPath
    <2>3. a \in AnswerType
        BY <2>1, <2>2, NowFacts, QuestionFacts DEF Remembered, TypeOK
    <2>4. Step(q, a) \in StepType
        BY <2>2, <2>3, StepFacts
    <2> HIDE DEF q
    <2>5. memo' \in [Procs -> SUBSET StepType]
        BY <2>1, <2>4 DEF TypeOK
    <2>6. trace' \in [Procs -> Seq(StepType)]
        BY <2>1, <2>4 DEF TypeOK
    <2> QED
        BY <1>8, <2>5, <2>6 DEF AskPath, world, run, TypeOK
<1>9. ASSUME NEW p \in Procs, RuleFails(p) PROVE TypeOK'
    BY <1>9 DEF RuleFails, Leave, world, run, TypeOK, OnePerKey
<1>10. ASSUME NEW p \in Procs, FinishFile(p) PROVE TypeOK'
    BY <1>10, NewEntryType, MapFacts DEF FinishFile, NewEntry, Conclude, Leave, world, run, TypeOK
<1>11. ASSUME NEW p \in Procs, WriteStore(p) PROVE TypeOK'
    BY <1>11 DEF WriteStore, world, run, check, TypeOK, OnePerKey
<1>12. ASSUME NEW p \in Procs, SaveFails(p) PROVE TypeOK'
    BY <1>12 DEF SaveFails, Exit, Leave, world, TypeOK, OnePerKey
<1>13. ASSUME NEW p \in Procs, Rename(p) PROVE TypeOK'
    <2>1. warm' \subseteq Files \cup {NoFile}
        <3>1. {e.key.path : e \in fresh[p]} \subseteq Files \cup {NoFile}
            BY DEF TypeOK
        <3> QED
            BY <1>13, <3>1 DEF Rename, TypeOK
    <2>2. disk' \in SUBSET EntryType /\ OnePerKey(disk')
        BY <1>13, SavedFacts DEF Rename
    <2> QED
        BY <1>13, <2>1, <2>2 DEF Rename, Exit, Leave, world, TypeOK, OnePerKey
<1>14. ASSUME NEW p \in Procs, Crash(p) PROVE TypeOK'
    BY <1>14 DEF Crash, Exit, Leave, world, TypeOK, OnePerKey
<1>15. CASE UNCHANGED vars
    BY <1>15 DEF vars, TypeOK, OnePerKey
<1> QED
    BY <1>1, <1>2, <1>3, <1>4, <1>5, <1>6, <1>7, <1>8, <1>9, <1>10, <1>11, <1>12,
       <1>13, <1>14, <1>15 DEF Next, Process

-----------------------------------------------------------------------------
(* One process leaves the others alone.                                     *)

Own(r) == <<pc[r], cache[r], today[r], file[r], content[r], trying[r], pend[r],
            tried[r], memo[r], trace[r], fresh[r], served[r], quiet[r]>>

LEMMA Frame ==
    ASSUME TypeOK, NEW p \in Procs, Process(p), NEW r \in Procs, r # p
    PROVE  Own(r)' = Own(r) /\ fs' = fs
<1>1. CASE BeginRun(p)
    BY <1>1 DEF BeginRun, Own, world, check, TypeOK
<1>2. ASSUME NEW f \in Files, ReadFile(p, f) PROVE Own(r)' = Own(r) /\ fs' = fs
    BY <1>2 DEF ReadFile, Own, world, run, TypeOK
<1>3. CASE Lookup(p)
    BY <1>3 DEF Lookup, Own, world, run, TypeOK
<1>4. CASE Validate(p)
    BY <1>4 DEF Validate, Conclude, Leave, Own, world, run, TypeOK
<1>5. CASE AskToday(p)
    BY <1>5 DEF AskToday, Own, world, run, TypeOK
<1>6. CASE AskPath(p)
    BY <1>6 DEF AskPath, Own, world, run, TypeOK
<1>7. CASE RuleFails(p)
    BY <1>7 DEF RuleFails, Leave, Own, world, run, TypeOK
<1>8. CASE FinishFile(p)
    BY <1>8 DEF FinishFile, Conclude, Leave, Own, world, run, TypeOK
<1>9. CASE WriteStore(p)
    BY <1>9 DEF WriteStore, Own, world, run, check, TypeOK
<1>10. CASE SaveFails(p)
    BY <1>10 DEF SaveFails, Exit, Leave, Own, world, TypeOK
<1>11. CASE Rename(p)
    BY <1>11 DEF Rename, Exit, Leave, Own, world, TypeOK
<1>12. CASE Crash(p)
    BY <1>12 DEF Crash, Exit, Leave, Own, world, TypeOK
<1> QED
    BY <1>1, <1>2, <1>3, <1>4, <1>5, <1>6, <1>7, <1>8, <1>9, <1>10, <1>11, <1>12
    DEF Process

LEMMA ColdStays ==
    ASSUME NEW p \in Procs, fs' = fs, today'[p] = today[p]
    PROVE  \A e \in EntryType : Cold(p, e) => Cold(p, e)'
BY DEF Cold, Now

\* A process that does not move keeps its invariants.
LEMMA StaysFacts ==
    ASSUME NEW r \in Procs, TypeOK, Own(r)' = Own(r), fs' = fs,
           TryingIsSound(r), EvalIsRun(r), QuietIsCurrent(r)
    PROVE  TryingIsSound(r)' /\ EvalIsRun(r)' /\ QuietIsCurrent(r)'
<1>1. TryingIsSound(r)'
    BY DEF TryingIsSound, Own, Candidates
<1>2. EvalIsRun(r)'
    BY DEF EvalIsRun, Own
<1>3. QuietIsCurrent(r)'
    <2>1. \A e \in served[r] : Cold(r, e) => Cold(r, e)'
        BY ColdStays DEF Own, TypeOK
    <2> QED
        BY <2>1 DEF QuietIsCurrent, Own, Recheck, Now
<1> QED
    BY <1>1, <1>2, <1>3

-----------------------------------------------------------------------------
(* The entry a finished evaluation makes, and the one a lookup serves.       *)

LEMMA NewEntrySound ==
    ASSUME TypeOK, NEW p \in Procs, EvalIsRun(p), pc[p] = "eval", Question(p) = Done
    PROVE  Sound(NewEntry(p))
<1> DEFINE e == NewEntry(p)
<1>1. /\ e.key = KeyFor(p) /\ e.deps = Dependencies(p) /\ e.trace = trace[p]
      /\ e.key.path = file[p] /\ e.key.content = content[p]
    BY DEF NewEntry, KeyFor, Dated, Plain
<1>2. /\ today[p] \in Nat /\ trace[p] \in Seq(StepType)
    BY DEF TypeOK
<1>3. content[p] \in Expiring \/ AsksToday(trace[p]) =>
        e.key.date = today[p] /\ e.key.date # NoDate
    BY <1>1, <1>2 DEF AsksToday, KeyFor, DateDependent, Dated, NoDate
<1>4. IsRunOf(e.trace, e.key.path, e.key.content)
    BY <1>1 DEF EvalIsRun, IsRunOf, Question
<1>5. ASSUME NEW i \in 1..Len(e.trace)
      PROVE  IF e.trace[i].op = "today" THEN e.trace[i].ans = DayIs(e.key.date)
             ELSE Tracked(e.trace[i], e.trace[i].ans) \in e.deps
    <2>1. CASE e.trace[i].op = "today"
        BY <1>1, <1>3, <1>5, <2>1 DEF EvalIsRun, AsksToday
    <2>2. CASE e.trace[i].op # "today"
        <3>1. trace[p][i] \in memo[p]
            BY <1>1, <1>5, <2>2 DEF EvalIsRun
        <3> QED
            BY <1>1, <2>2, <3>1 DEF Dependencies
    <2> QED
        BY <2>1, <2>2
<1>6. Agrees(e.trace)
    BY <1>1 DEF EvalIsRun, Agrees
<1> QED
    BY <1>1, <1>3, <1>4, <1>5, <1>6 DEF Sound, Honest

\* An entry whose reads all came out as recorded is what a cold run would report.
LEMMA HitIsCold ==
    ASSUME TypeOK, NEW p \in Procs, TryingIsSound(p), QuietIsCurrent(p), quiet[p],
           pc[p] = "validate", pend[p] = {}
    PROVE  Cold(p, trying[p])
<1> DEFINE e == trying[p]
<1>1. /\ e \in EntryType /\ today[p] \in Nat /\ Sound(e)
    BY DEF TypeOK, TryingIsSound
<1>2. /\ e.key.path = file[p] /\ e.key.content = content[p]
      /\ e.key.date \in {today[p], NoDate}
      /\ e.key.date = NoDate => content[p] \notin Expiring
    <2>1. PICK i \in 1..Len(Candidates(p)) : e.key = Candidates(p)[i]
        BY DEF TryingIsSound
    <2>2. e.key = Dated(file[p], content[p], today[p])
            \/ (e.key = Plain(file[p], content[p]) /\ content[p] \notin Expiring)
        BY <2>1 DEF Candidates
    <2> QED
        BY <2>2, <1>1 DEF Dated, Plain, NoDate
<1>3. e.key.content = fs[e.key.path]
    BY <1>2 DEF QuietIsCurrent
<1>4. \A r \in e.deps : Recheck(r) = r.outcome
    BY DEF QuietIsCurrent
<1> HIDE DEF e
<1>5. AsksToday(e.trace) => e.key.date = today[p]
    BY <1>1, <1>2 DEF Sound, Honest
<1>6. ASSUME NEW i \in 1..Len(e.trace)
      PROVE  e.trace[i].ans = IF e.trace[i].op = "today" THEN DayIs(today[p])
                              ELSE Now([op |-> e.trace[i].op, path |-> e.trace[i].path])
    <2>1. /\ e.trace \in Seq(StepType) /\ e.trace[i] \in StepType
          /\ e.trace[i].op \in {"read", "list", "today"} /\ e.trace[i].ans \in AnswerType
        BY <1>1, <1>6, EntryFacts
    <2>2. CASE e.trace[i].op = "today"
        BY <1>1, <1>5, <1>6, <2>2 DEF Sound, Honest, AsksToday
    <2>3. CASE e.trace[i].op # "today"
        <3>1. Tracked(e.trace[i], e.trace[i].ans) \in e.deps
            BY <1>1, <1>6, <2>3 DEF Sound, Honest
        <3>2. Recheck([path |-> e.trace[i].path, outcome |-> e.trace[i].ans]) = e.trace[i].ans
            BY <1>4, <3>1 DEF Tracked
        <3>3. e.trace[i].ans.kind \in KindsOf(e.trace[i].op)
            BY <1>1, <1>6 DEF Sound, Agrees
        <3> QED
            BY <2>1, <2>3, <3>2, <3>3, RecheckFacts
    <2> QED
        BY <2>2, <2>3
<1>7. IsRunOf(e.trace, e.key.path, e.key.content)
    BY <1>1 DEF Sound, Honest
<1>8. e.key.content \in Expiring => e.key.date = today[p]
    BY <1>2
<1>9. Cold(p, e)
    BY <1>3, <1>6, <1>7, <1>8 DEF Cold
<1> QED
    BY <1>9 DEF e

\* So is the entry of an evaluation during which nothing changed.
LEMMA NewEntryCold ==
    ASSUME TypeOK, NEW p \in Procs, EvalIsRun(p), QuietIsCurrent(p), quiet[p],
           pc[p] = "eval", Question(p) = Done
    PROVE  Cold(p, NewEntry(p))
<1> DEFINE e == NewEntry(p)
<1>1. /\ e.trace = trace[p] /\ e.key.path = file[p] /\ e.key.content = content[p]
      /\ content[p] \in Expiring => e.key.date = today[p]
    BY DEF NewEntry, KeyFor, DateDependent, Dated, Plain
<1>2. content[p] = fs[file[p]]
    BY DEF QuietIsCurrent
<1>3. IsRunOf(e.trace, e.key.path, e.key.content)
    BY <1>1 DEF EvalIsRun, IsRunOf, Question
<1>4. ASSUME NEW i \in 1..Len(trace[p])
      PROVE  trace[p][i].ans = IF trace[p][i].op = "today" THEN DayIs(today[p])
                               ELSE Now([op |-> trace[p][i].op, path |-> trace[p][i].path])
    BY <1>4 DEF EvalIsRun, QuietIsCurrent
<1> QED
    BY <1>1, <1>2, <1>3, <1>4 DEF Cold

-----------------------------------------------------------------------------
(* Sound entries stay sound, on disk and in every process.                   *)

LEMMA SoundStep ==
    ASSUME TypeOK, InvSound, \A p \in Procs : TryingIsSound(p) /\ EvalIsRun(p), [Next]_vars
    PROVE  InvSound'
<1>1. ASSUME UNCHANGED <<disk, cache, fresh>> PROVE InvSound'
    BY <1>1 DEF InvSound
<1>2. ASSUME NEW p \in Procs, NEW e \in EntryType, Conclude(p, e), Sound(e),
             UNCHANGED <<disk, cache>>
      PROVE  InvSound'
    <2>1. \A r \in Procs : fresh'[r] \subseteq fresh[r] \cup {e}
        BY <1>2 DEF Conclude, Insert, TypeOK
    <2> QED
        BY <1>2, <2>1 DEF InvSound
<1>3. ASSUME NEW p \in Procs, Exit(p), \A e \in disk' : Sound(e) PROVE InvSound'
    <2>1. \A r \in Procs : cache'[r] \subseteq cache[r] /\ fresh'[r] \subseteq fresh[r]
        BY <1>3 DEF Exit, TypeOK
    <2> QED
        BY <1>3, <2>1 DEF InvSound
<1>4. ASSUME NEW p \in Procs, BeginRun(p) PROVE InvSound'
    <2>1. \A r \in Procs : cache'[r] \subseteq cache[r] \cup disk
        BY <1>4 DEF BeginRun, TypeOK
    <2> QED
        BY <1>4, <2>1 DEF BeginRun, InvSound
<1>5. ASSUME NEW p \in Procs, Validate(p) PROVE InvSound'
    <2>1. CASE pend[p] = {} /\ Conclude(p, trying[p])
        <3>1. trying[p] \in EntryType /\ Sound(trying[p])
            BY <1>5 DEF Validate, TryingIsSound, TypeOK
        <3> QED
            BY <1>2, <1>5, <2>1, <3>1 DEF Validate, run
    <2>2. CASE UNCHANGED fresh
        BY <1>1, <1>5, <2>2 DEF Validate, run
    <2> QED
        BY <1>5, <2>1, <2>2 DEF Validate
<1>6. ASSUME NEW p \in Procs, FinishFile(p) PROVE InvSound'
    <2>1. NewEntry(p) \in EntryType /\ Sound(NewEntry(p))
        BY <1>6, NewEntryType, NewEntrySound DEF FinishFile
    <2> QED
        BY <1>2, <1>6, <2>1 DEF FinishFile, NewEntry, run
<1>7. ASSUME NEW p \in Procs, Rename(p) PROVE InvSound'
    <2>1. SavedStore(p) \subseteq cache[p] \cup fresh[p]
        BY DEF SavedStore, Overlay
    <2> QED
        BY <1>3, <1>7, <2>1 DEF Rename, InvSound
<1>8. ASSUME NEW p \in Procs, SaveFails(p) \/ Crash(p) PROVE InvSound'
    BY <1>3, <1>8 DEF SaveFails, Crash, InvSound
<1>9. ASSUME NEW p \in Procs,
             \/ \E f \in Files : ReadFile(p, f)
             \/ Lookup(p) \/ AskToday(p) \/ AskPath(p) \/ RuleFails(p) \/ WriteStore(p)
      PROVE  UNCHANGED <<disk, cache, fresh>>
    BY <1>9 DEF ReadFile, Lookup, AskToday, AskPath, RuleFails, WriteStore, run
<1>10. CASE Midnight \/ (\E path \in Paths : \E v \in Values[path] : Edit(path, v))
            \/ UNCHANGED vars
    BY <1>1, <1>10 DEF Midnight, Edit, run, vars
<1> QED
    BY <1>1, <1>4, <1>5, <1>6, <1>7, <1>8, <1>9, <1>10 DEF Next, Process

-----------------------------------------------------------------------------
(* A process that moves keeps its own invariants.                            *)

Mine(p) == TryingIsSound(p) /\ EvalIsRun(p) /\ QuietIsCurrent(p)

\* A process between files holds nothing of the last one.
LEMMA BetweenFiles ==
    ASSUME TypeOK, NEW p \in Procs, pc'[p] \in {"idle", "next", "rename"},
           trace'[p] = <<>>, memo'[p] = {}, pc'[p] = "idle" => served'[p] = {},
           quiet'[p] => \A e \in served'[p] : Cold(p, e)'
    PROVE  Mine(p)'
BY DEF Mine, TryingIsSound, EvalIsRun, QuietIsCurrent

LEMMA ExitKeeps ==
    ASSUME TypeOK, NEW p \in Procs, Exit(p)
    PROVE  Mine(p)'
<1>1. /\ pc'[p] = "idle" /\ trace'[p] = <<>> /\ memo'[p] = {} /\ served'[p] = {}
    BY DEF Exit, Leave, TypeOK
<1> QED
    BY <1>1, BetweenFiles

LEMMA ConcludeKeeps ==
    ASSUME TypeOK, NEW p \in Procs, NEW e \in EntryType, Conclude(p, e), QuietIsCurrent(p),
           quiet[p] => Cold(p, e), UNCHANGED <<fs, today, quiet>>
    PROVE  Mine(p)'
<1>1. /\ pc'[p] = "next" /\ trace'[p] = <<>> /\ memo'[p] = {}
      /\ served'[p] = served[p] \cup {e}
    BY DEF Conclude, Leave, TypeOK
<1>2. quiet'[p] => \A d \in served'[p] : Cold(p, d)
    BY <1>1 DEF QuietIsCurrent
<1>3. served'[p] \subseteq EntryType
    BY <1>1 DEF TypeOK
<1>4. quiet'[p] => \A d \in served'[p] : Cold(p, d)'
    BY <1>2, <1>3, ColdStays
<1> QED
    BY <1>1, <1>4, BetweenFiles

LEMMA BeginKeeps ==
    ASSUME TypeOK, NEW p \in Procs, BeginRun(p), Mine(p)
    PROVE  Mine(p)'
<1>1. /\ pc'[p] = "next" /\ trace'[p] = <<>> /\ memo'[p] = {} /\ served'[p] = {}
    BY DEF BeginRun, check, Mine, EvalIsRun, QuietIsCurrent, TypeOK
<1> QED
    BY <1>1, BetweenFiles

LEMMA ReadKeeps ==
    ASSUME TypeOK, NEW p \in Procs, NEW f \in Files, ReadFile(p, f), Mine(p)
    PROVE  Mine(p)'
<1>1. /\ trace'[p] = <<>> /\ memo'[p] = {}
      /\ UNCHANGED <<fs, today, served, quiet>>
    BY DEF ReadFile, world, run, Mine, EvalIsRun, TypeOK
<1>2. \A e \in served[p] : Cold(p, e) => Cold(p, e)'
    BY <1>1, ColdStays DEF TypeOK
<1>3. CASE fs[f] \in Contents
    <2>1. pc'[p] = "lookup" /\ file'[p] = f /\ content'[p] = fs[f]
        BY <1>3 DEF ReadFile, TypeOK
    <2> QED
        BY <1>1, <1>2, <2>1 DEF Mine, TryingIsSound, EvalIsRun, QuietIsCurrent
<1>4. CASE fs[f] \notin Contents
    <2>1. pc'[p] = "next"
        BY <1>4 DEF ReadFile, TypeOK
    <2> QED
        BY <1>1, <1>2, <2>1, BetweenFiles DEF Mine, QuietIsCurrent
<1> QED
    BY <1>3, <1>4

LEMMA LookupKeeps ==
    ASSUME TypeOK, InvSound, NEW p \in Procs, Lookup(p), Mine(p)
    PROVE  Mine(p)'
<1>1. /\ UNCHANGED <<fs, today, file, content, memo, trace, served, quiet>>
      /\ trace[p] = <<>> /\ memo[p] = {} /\ pc[p] = "lookup"
    BY DEF Lookup, world, run, Mine, EvalIsRun
<1>2. \A e \in served[p] : Cold(p, e) => Cold(p, e)'
    BY <1>1, ColdStays DEF TypeOK
<1>3. CASE pc'[p] = "eval"
    BY <1>1, <1>2, <1>3 DEF Mine, TryingIsSound, EvalIsRun, QuietIsCurrent
<1>4. CASE pc'[p] = "lookup"
    BY <1>1, <1>2, <1>4 DEF Mine, TryingIsSound, EvalIsRun, QuietIsCurrent
<1>5. ASSUME NEW e \in cache[p], e.key = Candidates(p)[tried[p] + 1],
             tried[p] < Len(Candidates(p)),
             pc'[p] = "validate", trying'[p] = e, pend'[p] = e.deps
      PROVE  Mine(p)'
    <2>1. Candidates(p)' = Candidates(p)
        BY <1>1 DEF Candidates
    <2>2. tried[p] + 1 \in 1..Len(Candidates(p))
        BY <1>5 DEF TypeOK, Candidates
    <2>3. Sound(e)
        BY <1>5 DEF InvSound
    <2>4. TryingIsSound(p)'
        BY <1>5, <2>1, <2>2, <2>3 DEF TryingIsSound
    <2> QED
        BY <1>1, <1>2, <1>5, <2>4 DEF Mine, EvalIsRun, QuietIsCurrent
<1>6. \/ pc'[p] \in {"eval", "lookup"}
      \/ \E e \in cache[p] :
            /\ e.key = Candidates(p)[tried[p] + 1]
            /\ tried[p] < Len(Candidates(p))
            /\ pc'[p] = "validate" /\ trying'[p] = e /\ pend'[p] = e.deps
    BY DEF Lookup, TypeOK
<1> QED
    BY <1>3, <1>4, <1>5, <1>6

LEMMA ValidateKeeps ==
    ASSUME TypeOK, NEW p \in Procs, Validate(p), Mine(p)
    PROVE  Mine(p)'
<1>1. /\ UNCHANGED <<fs, today, quiet>> /\ pc[p] = "validate"
      /\ trace[p] = <<>> /\ memo[p] = {} /\ trying[p] \in EntryType
    BY DEF Validate, world, run, Mine, EvalIsRun, TypeOK
<1>2. \A e \in served[p] : Cold(p, e) => Cold(p, e)'
    BY <1>1, ColdStays DEF TypeOK
<1>3. CASE pend[p] = {} /\ Conclude(p, trying[p])
    <2>1. quiet[p] => Cold(p, trying[p])
        BY <1>1, <1>3, HitIsCold DEF Mine
    <2> QED
        BY <1>1, <1>3, <2>1, ConcludeKeeps DEF Mine
<1>4. ASSUME NEW r \in pend[p], Recheck(r) = r.outcome,
             pend' = [pend EXCEPT ![p] = @ \ {r}],
             UNCHANGED <<pc, file, content, trying, tried, memo, trace, fresh, served>>
      PROVE  Mine(p)'
    <2>1. pend'[p] = pend[p] \ {r}
        BY <1>4 DEF TypeOK
    <2>2. TryingIsSound(p)' /\ EvalIsRun(p)'
        BY <1>1, <1>4 DEF Mine, TryingIsSound, EvalIsRun, Candidates
    <2>3. \A d \in trying[p].deps : Recheck(d)' = Recheck(d)
        BY <1>1 DEF Recheck, Now
    <2>4. QuietIsCurrent(p)'
        BY <1>1, <1>2, <1>4, <2>1, <2>3 DEF Mine, QuietIsCurrent
    <2> QED
        BY <2>2, <2>4 DEF Mine
<1>5. CASE /\ pc' = [pc EXCEPT ![p] = "lookup"]
           /\ UNCHANGED <<file, content, memo, trace, served>>
    <2>1. pc'[p] = "lookup"
        BY <1>5 DEF TypeOK
    <2> QED
        BY <1>1, <1>2, <1>5, <2>1 DEF Mine, TryingIsSound, EvalIsRun, QuietIsCurrent
<1> QED
    BY <1>3, <1>4, <1>5 DEF Validate

LEMMA FinishKeeps ==
    ASSUME TypeOK, NEW p \in Procs, FinishFile(p), Mine(p)
    PROVE  Mine(p)'
<1>1. NewEntry(p) \in EntryType /\ (quiet[p] => Cold(p, NewEntry(p)))
    BY NewEntryType, NewEntryCold DEF FinishFile, Mine
<1> QED
    BY <1>1, ConcludeKeeps DEF FinishFile, NewEntry, world, run, Mine

LEMMA FailsKeeps ==
    ASSUME TypeOK, NEW p \in Procs, RuleFails(p), Mine(p)
    PROVE  Mine(p)'
<1>1. /\ pc'[p] = "next" /\ trace'[p] = <<>> /\ memo'[p] = {}
      /\ UNCHANGED <<fs, today, served, quiet>>
    BY DEF RuleFails, Leave, world, run, TypeOK
<1>2. \A e \in served[p] : Cold(p, e) => Cold(p, e)'
    BY <1>1, ColdStays DEF TypeOK
<1> QED
    BY <1>1, <1>2, BetweenFiles DEF Mine, QuietIsCurrent

LEMMA WriteKeeps ==
    ASSUME TypeOK, NEW p \in Procs, WriteStore(p), Mine(p)
    PROVE  Mine(p)'
<1>1. /\ pc'[p] = "rename" /\ trace'[p] = <<>> /\ memo'[p] = {}
      /\ UNCHANGED <<fs, today, served, quiet>>
    BY DEF WriteStore, world, run, check, Mine, EvalIsRun, TypeOK
<1>2. \A e \in served[p] : Cold(p, e) => Cold(p, e)'
    BY <1>1, ColdStays DEF TypeOK
<1> QED
    BY <1>1, <1>2, BetweenFiles DEF Mine, QuietIsCurrent

\* One more question and answer, remembered when it is about the file system.
LEMMA AskedKeeps ==
    ASSUME TypeOK, NEW p \in Procs, EvalIsRun(p), pc[p] = "eval",
           NEW q \in Questions \cup {Today}, q = Question(p), NEW a \in AnswerType,
           a.kind \in KindsOf(q.op),
           UNCHANGED <<pc, file, content, today>>,
           trace'[p] = Append(trace[p], Step(q, a)),
           memo[p] \subseteq memo'[p],
           q.op = "today" => a = DayIs(today[p]),
           q.op # "today" => Step(q, a) \in memo'[p],
           \A m, n \in memo'[p] : m.op = n.op /\ m.path = n.path => m = n,
           \A m \in memo'[p] : m.op # "today" /\ m.ans.kind \in KindsOf(m.op)
    PROVE  EvalIsRun(p)'
<1> DEFINE t == trace[p]
           s == Step(q, a)
<1>1. /\ t \in Seq(StepType) /\ s \in StepType
      /\ s.op = q.op /\ s.path = q.path /\ s.ans = a
      /\ q = [op |-> q.op, path |-> q.path]
    BY StepFacts, QuestionFacts DEF TypeOK, Today
<1> HIDE DEF s
<1>2. /\ Len(trace'[p]) = Len(t) + 1 /\ Len(t) \in Nat
      /\ trace'[p][Len(t) + 1] = s
      /\ \A i \in 1..Len(t) : trace'[p][i] = t[i]
      /\ \A i \in 1..Len(t) + 1 : SubSeq(trace'[p], 1, i - 1) = SubSeq(t, 1, i - 1)
      /\ SubSeq(t, 1, Len(t)) = t
    BY <1>1, AppendFacts DEF s
<1>3. ASSUME NEW i \in 1..Len(trace'[p])
      PROVE  /\ Ask(file[p], content[p], SubSeq(trace'[p], 1, i - 1))
                  = [op |-> trace'[p][i].op, path |-> trace'[p][i].path]
             /\ trace'[p][i].ans.kind \in KindsOf(trace'[p][i].op)
             /\ IF trace'[p][i].op = "today" THEN trace'[p][i].ans = DayIs(today[p])
                ELSE trace'[p][i] \in memo'[p]
    <2>1. CASE i \in 1..Len(t)
        BY <1>2, <2>1 DEF EvalIsRun
    <2>2. CASE i = Len(t) + 1
        <3>1. Ask(file[p], content[p], SubSeq(trace'[p], 1, i - 1)) = q
            <4>1. i - 1 = Len(t) /\ i \in 1..Len(t) + 1
                BY <1>2, <2>2
            <4>2. SubSeq(trace'[p], 1, i - 1) = t
                BY <1>2, <4>1
            <4> QED
                BY <4>2 DEF Question
        <3> QED
            BY <1>1, <1>2, <2>2, <3>1 DEF s
    <2> QED
        BY <1>2, <2>1, <2>2
<1> QED
    BY <1>3 DEF EvalIsRun

LEMMA TodayKeeps ==
    ASSUME TypeOK, NEW p \in Procs, AskToday(p), Mine(p)
    PROVE  Mine(p)'
<1>1. /\ pc[p] = "eval" /\ Question(p) = Today
      /\ UNCHANGED <<fs, pc, today, file, content, memo, served, quiet>>
      /\ trace'[p] = Append(trace[p], Step(Today, DayIs(today[p])))
    BY DEF AskToday, world, run, TypeOK
<1>2. \A e \in served[p] : Cold(p, e) => Cold(p, e)'
    BY <1>1, ColdStays DEF TypeOK
<1>3. DayIs(today[p]) \in AnswerType /\ DayIs(today[p]).kind \in KindsOf(Today.op)
    BY DayFacts, QuestionFacts DEF KindsOf, TypeOK
<1>4. EvalIsRun(p)'
    <2>1. Today \in Questions \cup {Today} /\ Today.op = "today"
        BY QuestionFacts
    <2> QED
        BY <1>1, <1>3, <2>1, AskedKeeps DEF Mine, EvalIsRun
<1>5. QuietIsCurrent(p)'
    BY <1>1, <1>2 DEF Mine, QuietIsCurrent, Now
<1> QED
    BY <1>1, <1>4, <1>5 DEF Mine, TryingIsSound

LEMMA PathKeeps ==
    ASSUME TypeOK, NEW p \in Procs, AskPath(p), Mine(p)
    PROVE  Mine(p)'
<1> DEFINE q == Question(p)
<1>1. /\ pc[p] = "eval" /\ q \in Questions
      /\ UNCHANGED <<fs, pc, today, file, content, served, quiet>>
    BY DEF AskPath, world, run
<1>2. PICK a \in IF Remembered(p, q) = {} THEN {Now(q)} ELSE {m.ans : m \in Remembered(p, q)} :
         /\ memo' = [memo EXCEPT ![p] =
                       {m \in @ : m.op # q.op \/ m.path # q.path} \cup {Step(q, a)}]
         /\ trace' = [trace EXCEPT ![p] = Append(@, Step(q, a))]
    BY DEF AskPath
<1>3. /\ q.op \in {"read", "list"} /\ q.path \in Paths
      /\ q = [op |-> q.op, path |-> q.path]
    BY <1>1, QuestionFacts
<1>4. /\ a \in AnswerType /\ a.kind \in KindsOf(q.op)
      /\ memo'[p] = memo[p] \cup {Step(q, a)}
      /\ \A m \in memo[p] : m.op = q.op /\ m.path = q.path => m = Step(q, a)
      /\ quiet[p] => a = Now(q)
    <2>1. memo'[p] = {m \in memo[p] : m.op # q.op \/ m.path # q.path} \cup {Step(q, a)}
        BY <1>2 DEF TypeOK
    <2>2. CASE Remembered(p, q) = {}
        <3>1. a = Now(q) /\ \A m \in memo[p] : m.op # q.op \/ m.path # q.path
            BY <1>2, <2>2 DEF Remembered
        <3> HIDE DEF q
        <3> QED
            BY <1>3, <2>1, <3>1, NowFacts
    <2>3. CASE Remembered(p, q) # {}
        <3>1. PICK n \in memo[p] : n.op = q.op /\ n.path = q.path /\ n.ans = a
            BY <1>2, <2>3 DEF Remembered
        <3> HIDE DEF q
        <3>2. n = Step(q, a) /\ a \in AnswerType
            <4>1. n \in StepType
                BY DEF TypeOK
            <4> QED
                BY <3>1, <4>1 DEF StepType, Step
        <3>3. \A m \in memo[p] : m.op = q.op /\ m.path = q.path => m = n
            BY <1>1, <3>1 DEF Mine, EvalIsRun
        <3>4. a.kind \in KindsOf(q.op)
            BY <1>1, <3>1 DEF Mine, EvalIsRun
        <3>5. quiet[p] => a = Now(q)
            BY <1>1, <1>3, <3>1 DEF Mine, QuietIsCurrent
        <3> QED
            BY <2>1, <3>1, <3>2, <3>3, <3>4, <3>5
    <2> QED
        BY <2>2, <2>3
<1>5. Step(q, a) \in StepType /\ Step(q, a).op = q.op /\ Step(q, a).path = q.path
        /\ Step(q, a).ans = a
    BY <1>1, <1>4, StepFacts
<1>6. trace'[p] = Append(trace[p], Step(q, a))
    BY <1>2 DEF TypeOK
<1>7. \A e \in served[p] : Cold(p, e) => Cold(p, e)'
    BY <1>1, ColdStays DEF TypeOK
<1>8. EvalIsRun(p)'
    <2>1. /\ \A m, n \in memo'[p] : m.op = n.op /\ m.path = n.path => m = n
          /\ \A m \in memo'[p] : m.op # "today" /\ m.ans.kind \in KindsOf(m.op)
        <3> HIDE DEF q
        <3> QED
            BY <1>1, <1>3, <1>4, <1>5 DEF Mine, EvalIsRun
    <2>2. q.op # "today" /\ q = Question(p)
        BY <1>3
    <2> HIDE DEF q
    <2> QED
        BY <1>1, <1>4, <1>6, <2>1, <2>2, AskedKeeps DEF Mine
<1>9. QuietIsCurrent(p)'
    <2>1. \A m \in memo[p] : Now([op |-> m.op, path |-> m.path])'
                                = Now([op |-> m.op, path |-> m.path])
        BY <1>1 DEF Now
    <2> HIDE DEF q
    <2>3. quiet[p] => \A m \in memo'[p] : m.ans = Now([op |-> m.op, path |-> m.path])
        BY <1>1, <1>3, <1>4, <1>5 DEF Mine, QuietIsCurrent
    <2>4. quiet[p] => \A m \in memo'[p] : m.ans = Now([op |-> m.op, path |-> m.path])'
        BY <1>1, <2>3 DEF Now
    <2> QED
        BY <1>1, <1>7, <2>4 DEF Mine, QuietIsCurrent
<1> QED
    BY <1>1, <1>8, <1>9 DEF Mine, TryingIsSound

-----------------------------------------------------------------------------
(* The induction, and what follows from it.                                  *)

LEMMA ProcessKeeps ==
    ASSUME TypeOK, InvSound, NEW p \in Procs, Process(p), Mine(p)
    PROVE  Mine(p)'
<1>1. ASSUME SaveFails(p) \/ Rename(p) \/ Crash(p) PROVE Mine(p)'
    BY <1>1, ExitKeeps DEF SaveFails, Rename, Crash
<1> QED
    BY <1>1, BeginKeeps, ReadKeeps, LookupKeeps, ValidateKeeps, TodayKeeps, PathKeeps,
       FailsKeeps, FinishKeeps, WriteKeeps DEF Process

LEMMA IndInit == Init => IndInv
<1> SUFFICES ASSUME Init PROVE IndInv
    OBVIOUS
<1>1. InvSound
    BY DEF Init, InvSound
<1>2. ASSUME NEW p \in Procs PROVE Mine(p)
    BY <1>2 DEF Init, Mine, TryingIsSound, EvalIsRun, QuietIsCurrent
<1> QED
    BY <1>1, <1>2, TypeInit DEF IndInv, Mine

LEMMA IndStep == IndInv /\ [Next]_vars => IndInv'
<1> SUFFICES ASSUME IndInv, [Next]_vars PROVE IndInv'
    OBVIOUS
<1>1. TypeOK' /\ InvSound'
    BY TypeStep, SoundStep DEF IndInv
<1>2. ASSUME NEW r \in Procs PROVE Mine(r)'
    <2>1. Mine(r) /\ TypeOK /\ InvSound
        BY DEF IndInv, Mine
    <2>2. ASSUME NEW p \in Procs, Process(p) PROVE Mine(r)'
        <3>1. CASE r = p
            BY <2>1, <2>2, <3>1, ProcessKeeps
        <3>2. CASE r # p
            BY <2>1, <2>2, <3>2, Frame, StaysFacts DEF Mine
        <3> QED
            BY <3>1, <3>2
    <2>3. ASSUME NEW path \in Paths, NEW v \in Values[path], Edit(path, v) PROVE Mine(r)'
        <3>1. /\ ~quiet'[r]
              /\ UNCHANGED <<pc, cache, today, file, content, trying, pend, memo, trace,
                             fresh, served>>
            BY <2>3 DEF Edit, run, check
        <3> QED
            BY <2>1, <3>1 DEF Mine, TryingIsSound, EvalIsRun, QuietIsCurrent, Candidates
    <2>4. CASE Midnight \/ UNCHANGED vars
        <3>1. Own(r)' = Own(r) /\ fs' = fs
            BY <2>4 DEF Midnight, Own, vars, run, check
        <3> QED
            BY <2>1, <3>1, StaysFacts DEF Mine
    <2> QED
        BY <2>2, <2>3, <2>4 DEF Next
<1> QED
    BY <1>1, <1>2 DEF IndInv, Mine

LEMMA Invariance == Spec => []IndInv
BY IndInit, IndStep, PTL DEF Spec

\* The state of the world, the store and every process stay what their types say
\* (in particular the store keeps one entry for each key).
THEOREM TypeCorrect == Spec => []TypeOK
<1>1. IndInv => TypeOK
    BY DEF IndInv
<1> QED
    BY <1>1, Invariance, PTL

\* Every entry on disk is a complete run of the rule on the content its key names
\* and pins all that run depended on (finish_parsed, FileAccess, Store::save).
THEOREM Honesty == Spec => []HonestStore
<1>1. IndInv => HonestStore
    BY DEF IndInv, InvSound, Sound, HonestStore
<1> QED
    BY <1>1, Invariance, PTL

\* A run during which nothing changed reports what a cold run would, for every
\* rule, corpus and history (cache_hit, validate).
THEOREM WarmIsCold == Spec => []ServedIsCold
<1>1. IndInv => ServedIsCold
    BY DEF IndInv, QuietIsCurrent, ServedIsCold
<1> QED
    BY <1>1, Invariance, PTL

-----------------------------------------------------------------------------
(* What a run saves is found by the next.                                    *)

\* An answer that is still given validates.
LEMMA RecheckAgain ==
    ASSUME NEW op \in {"read", "list"}, NEW path, NEW a, a.kind \in KindsOf(op),
           Now([op |-> op, path |-> path]) = a
    PROVE  Recheck([path |-> path, outcome |-> a]) = a
<1>1. CASE a.kind \in {"Listed", "Unlisted"}
    BY <1>1 DEF Recheck, KindsOf
<1>2. CASE a.kind \in {"Found", "Absent"}
    BY <1>2 DEF Recheck, KindsOf
<1>3. CASE a.kind = "Refused"
    <2>1. fs[path] = Refused
        BY <1>3 DEF Now, Outcome
    <2> QED
        BY <1>3, <2>1 DEF Now, Recheck
<1> QED
    BY <1>1, <1>2, <1>3 DEF KindsOf

\* Serving depends on the file system alone.
LEMMA ServesStays ==
    ASSUME fs' = fs, NEW e, NEW f, NEW d
    PROVE  Serves(e, f, d) <=> Serves(e, f, d)'
BY DEF Serves, Recheck, Now

\* The keys a file's entry can be found under.
LEMMA CandidateFacts ==
    ASSUME TypeOK, NEW p \in Procs
    PROVE  /\ Len(Candidates(p)) \in {1, 2}
           /\ \A i \in 1..Len(Candidates(p)) :
                \/ Candidates(p)[i] = Dated(file[p], content[p], today[p])
                \/ /\ Candidates(p)[i] = Plain(file[p], content[p])
                   /\ content[p] \notin Expiring
           /\ \E i \in 1..Len(Candidates(p)) :
                Candidates(p)[i] = Dated(file[p], content[p], today[p])
           /\ content[p] \notin Expiring =>
                \E i \in 1..Len(Candidates(p)) :
                    Candidates(p)[i] = Plain(file[p], content[p])
<1>1. CASE content[p] \in Expiring
    <2>1. Len(Candidates(p)) = 1 /\ Candidates(p)[1] = Dated(file[p], content[p], today[p])
        BY <1>1 DEF Candidates
    <2> QED
        BY <1>1, <2>1
<1>2. CASE content[p] \notin Expiring
    <2>1. /\ Len(Candidates(p)) = 2
          /\ Candidates(p)[1] = Dated(file[p], content[p], today[p])
          /\ Candidates(p)[2] = Plain(file[p], content[p])
        BY <1>2 DEF Candidates
    <2> QED
        BY <1>2, <2>1
<1> QED
    BY <1>1, <1>2

\* An entry that serves the file being looked up has one of those keys.
LEMMA ServingKey ==
    ASSUME TypeOK, NEW p \in Procs, NEW e \in EntryType, content[p] = fs[file[p]],
           Serves(e, file[p], today[p])
    PROVE  \E i \in 1..Len(Candidates(p)) : e.key = Candidates(p)[i]
<1>1. e.key \in [path : Files \cup {NoFile}, content : Contents \cup {NoFile}, date : Int]
    BY DEF EntryType
<1>2. \/ e.key = Dated(file[p], content[p], today[p])
      \/ e.key = Plain(file[p], content[p]) /\ content[p] \notin Expiring
    BY <1>1 DEF Serves, Dated, Plain
<1> QED
    BY <1>2, CandidateFacts

\* An entry that validated serves its file.
LEMMA HitServes ==
    ASSUME TypeOK, NEW p \in Procs, TryingIsSound(p), QuietIsCurrent(p), quiet[p],
           pc[p] = "validate", pend[p] = {}
    PROVE  Serves(trying[p], trying[p].key.path, today[p])
<1>1. PICK i \in 1..Len(Candidates(p)) : trying[p].key = Candidates(p)[i]
    BY DEF TryingIsSound
<1>2. \/ trying[p].key = Dated(file[p], content[p], today[p])
      \/ trying[p].key = Plain(file[p], content[p]) /\ content[p] \notin Expiring
    BY <1>1, CandidateFacts
<1>3. content[p] = fs[file[p]]
    BY DEF QuietIsCurrent
<1>4. \A r \in trying[p].deps : Recheck(r) = r.outcome
    BY DEF QuietIsCurrent
<1> QED
    BY <1>2, <1>3, <1>4 DEF Serves, Dated, Plain

\* And so does the one an evaluation makes.
LEMMA NewEntryServes ==
    ASSUME TypeOK, NEW p \in Procs, EvalIsRun(p), QuietIsCurrent(p), quiet[p],
           pc[p] = "eval"
    PROVE  Serves(NewEntry(p), NewEntry(p).key.path, today[p])
<1>1. /\ NewEntry(p).key.path = file[p] /\ NewEntry(p).key.content = content[p]
      /\ \/ NewEntry(p).key.date = today[p]
         \/ NewEntry(p).key.date = NoDate /\ content[p] \notin Expiring
      /\ NewEntry(p).deps = { Tracked(m, m.ans) : m \in memo[p] }
    BY DEF NewEntry, KeyFor, DateDependent, Dated, Plain, Dependencies
<1>2. content[p] = fs[file[p]]
    BY DEF QuietIsCurrent
<1>3. ASSUME NEW m \in memo[p]
      PROVE  Recheck(Tracked(m, m.ans)) = m.ans
    <2>1. m.op \in {"read", "list"} /\ m.ans.kind \in KindsOf(m.op)
        BY EntryFacts DEF EvalIsRun, TypeOK
    <2>2. Now([op |-> m.op, path |-> m.path]) = m.ans
        BY DEF QuietIsCurrent
    <2> QED
        BY <2>1, <2>2, RecheckAgain DEF Tracked
<1>4. \A r \in NewEntry(p).deps : Recheck(r) = r.outcome
    BY <1>1, <1>3 DEF Tracked
<1> QED
    BY <1>1, <1>2, <1>4 DEF Serves

Warmth(r) == StartsClean(r) /\ FreshServes(r) /\ HitToCome(r)

\* A process that does not move keeps its part while no file turns warm under it.
LEMMA WarmthStays ==
    ASSUME NEW r \in Procs, Own(r)' = Own(r), fs' = fs, Warmth(r),
           warm' \subseteq warm \/ pc[r] = "idle"
    PROVE  Warmth(r)'
<1>1. \A e, f : Serves(e, f, today[r]) <=> Serves(e, f, today[r])'
    BY DEF Serves, Recheck, Now, Own
<1>2. StartsClean(r)'
    BY DEF Warmth, StartsClean, Own
<1>3. FreshServes(r)'
    BY <1>1 DEF Warmth, FreshServes, Own
<1>4. Candidates(r)' = Candidates(r)
    BY DEF Candidates, Own
<1>5. HitToCome(r)'
    BY <1>1, <1>4, Zenon DEF Warmth, HitToCome, Own
<1> QED
    BY <1>2, <1>3, <1>5 DEF Warmth

\* The store answers for warm files as long as it stays, and every run that is
\* under way goes on with what it loaded.
LEMMA StoreStays ==
    ASSUME InvWarm, UNCHANGED <<fs, day, disk, warm>>,
           \A r \in Procs : \/ pc'[r] = "idle"
                            \/ pc[r] # "idle" /\ UNCHANGED <<quiet[r], today[r], cache[r]>>
                            \/ quiet'[r] /\ today'[r] = day /\ cache'[r] = disk
    PROVE  InvWarm'
<1>1. \A e, f : Serves(e, f, day) <=> Serves(e, f, day)'
    BY DEF Serves, Recheck, Now
<1>2. \A f \in warm' : \E e \in disk' : Serves(e, f, day)'
    BY <1>1 DEF InvWarm
<1>3. warm' # {} =>
        \A p \in Procs : pc'[p] # "idle" => quiet'[p] /\ today'[p] = day' /\ cache'[p] = disk'
    BY DEF InvWarm
<1> QED
    BY <1>2, <1>3 DEF InvWarm

LEMMA BeginWarmth ==
    ASSUME TypeOK, NEW p \in Procs, BeginRun(p), Warmth(p)
    PROVE  Warmth(p)'
<1>1. /\ pc[p] = "idle" /\ pc'[p] = "next"
      /\ tried' = tried /\ fresh' = fresh
    BY DEF BeginRun, check, TypeOK
<1> QED
    BY <1>1 DEF Warmth, StartsClean, FreshServes, HitToCome

LEMMA ReadWarmth ==
    ASSUME TypeOK, InvWarm, NEW p \in Procs, NEW f \in Files, ReadFile(p, f), Warmth(p)
    PROVE  Warmth(p)'
<1>1. /\ pc[p] = "next" /\ tried[p] = 0
      /\ UNCHANGED <<fs, cache, today, trying, pend, tried, fresh, quiet, warm>>
    BY DEF ReadFile, world, run, Warmth, StartsClean
<1>2. \A e, g, d : Serves(e, g, d) <=> Serves(e, g, d)'
    BY <1>1 DEF Serves, Recheck, Now
<1>3. FreshServes(p)'
    BY <1>1, <1>2 DEF Warmth, FreshServes
<1>4. CASE UNCHANGED <<file, content, pc>>
    BY <1>1, <1>3, <1>4 DEF Warmth, StartsClean, HitToCome
<1>5. CASE /\ file' = [file EXCEPT ![p] = f]
           /\ content' = [content EXCEPT ![p] = fs[f]]
           /\ pc' = [pc EXCEPT ![p] = "lookup"]
    <2>1. pc'[p] = "lookup" /\ file'[p] = f /\ content'[p] = fs[f]
        BY <1>5 DEF TypeOK
    <2>2. ASSUME f \in warm
          PROVE  \E e \in cache[p] : \E i \in 0 + 1..Len(Candidates(p)') :
                   e.key = Candidates(p)'[i] /\ Serves(e, f, today[p])
        <3>1. today[p] = day /\ cache[p] = disk
            BY <1>1, <2>2 DEF InvWarm
        <3>2. PICK e \in disk : Serves(e, f, today[p])
            BY <2>2, <3>1 DEF InvWarm
        <3>3. e.key \in [path : Files \cup {NoFile}, content : Contents \cup {NoFile}, date : Int]
            BY DEF TypeOK, EntryType
        <3>4. \/ e.key = Dated(f, fs[f], today[p])
              \/ e.key = Plain(f, fs[f]) /\ fs[f] \notin Expiring
            BY <3>2, <3>3 DEF Serves, Dated, Plain
        <3>5. Candidates(p)' = IF fs[f] \in Expiring THEN <<Dated(f, fs[f], today[p])>>
                               ELSE <<Dated(f, fs[f], today[p]), Plain(f, fs[f])>>
            BY <1>1, <2>1 DEF Candidates
        <3>6. \E i \in 1..Len(Candidates(p)') : e.key = Candidates(p)'[i]
            <4>1. CASE fs[f] \in Expiring
                <5>1. Len(Candidates(p)') = 1 /\ Candidates(p)'[1] = Dated(f, fs[f], today[p])
                    BY <3>5, <4>1
                <5> QED
                    BY <3>4, <4>1, <5>1
            <4>2. CASE fs[f] \notin Expiring
                <5>1. /\ Len(Candidates(p)') = 2
                      /\ Candidates(p)'[1] = Dated(f, fs[f], today[p])
                      /\ Candidates(p)'[2] = Plain(f, fs[f])
                    BY <3>5, <4>2
                <5> QED
                    BY <3>4, <5>1
            <4> QED
                BY <4>1, <4>2
        <3> QED
            BY <3>1, <3>2, <3>6
    <2>3. HitToCome(p)'
        BY <1>1, <1>2, <2>1, <2>2 DEF HitToCome
    <2> QED
        BY <1>1, <1>3, <2>1, <2>3 DEF Warmth, StartsClean
<1> QED
    BY <1>4, <1>5 DEF ReadFile

LEMMA LookupWarmth ==
    ASSUME TypeOK, NEW p \in Procs, Lookup(p), Warmth(p)
    PROVE  Warmth(p)'
<1>1. /\ pc[p] = "lookup" /\ tried[p] \in Nat
      /\ UNCHANGED <<fs, cache, today, file, content, fresh, quiet, warm>>
      /\ Candidates(p)' = Candidates(p) /\ Len(Candidates(p)) \in Nat
    BY CandidateFacts DEF Lookup, world, run, TypeOK, Candidates
<1>2. \A e, g, d : Serves(e, g, d) <=> Serves(e, g, d)'
    BY <1>1 DEF Serves, Recheck, Now
<1>3. FreshServes(p)'
    BY <1>1, <1>2 DEF Warmth, FreshServes
<1>4. file[p] \in warm =>
        \E e \in cache[p] : \E i \in tried[p] + 1..Len(Candidates(p)) :
            e.key = Candidates(p)[i] /\ Serves(e, file[p], today[p])
    BY <1>1 DEF Warmth, HitToCome
<1>5. CASE /\ tried[p] = Len(Candidates(p))
           /\ pc' = [pc EXCEPT ![p] = "eval"]
           /\ UNCHANGED <<trying, pend, tried>>
    <2>1. pc'[p] = "eval"
        BY <1>5 DEF TypeOK
    <2>2. file[p] \notin warm
        BY <1>1, <1>4, <1>5
    <2> QED
        BY <1>1, <1>3, <2>1, <2>2 DEF Warmth, StartsClean, HitToCome
<1>6. ASSUME tried' = [tried EXCEPT ![p] = @ + 1], UNCHANGED <<pc, trying, pend>>,
             {e \in cache[p] : e.key = Candidates(p)[tried[p] + 1]} = {}
      PROVE  Warmth(p)'
    <2>1. tried'[p] = tried[p] + 1 /\ pc'[p] = "lookup"
        BY <1>1, <1>6 DEF TypeOK
    <2>2. file[p] \in warm =>
            \E e \in cache[p] : \E i \in tried'[p] + 1..Len(Candidates(p)) :
                e.key = Candidates(p)[i] /\ Serves(e, file[p], today[p])
        BY <1>1, <1>4, <1>6, <2>1
    <2>3. HitToCome(p)'
        BY <1>1, <1>2, <2>1, <2>2 DEF HitToCome
    <2> QED
        BY <1>3, <2>1, <2>3 DEF Warmth, StartsClean
<1>7. ASSUME tried' = [tried EXCEPT ![p] = @ + 1],
             NEW o \in cache[p], o.key = Candidates(p)[tried[p] + 1],
             trying' = [trying EXCEPT ![p] = o],
             pend' = [pend EXCEPT ![p] = o.deps],
             pc' = [pc EXCEPT ![p] = "validate"]
      PROVE  Warmth(p)'
    <2>1. /\ tried'[p] = tried[p] + 1 /\ pc'[p] = "validate"
          /\ trying'[p] = o /\ pend'[p] = o.deps
        BY <1>7 DEF TypeOK
    <2>2. ASSUME file[p] \in warm
          PROVE  \/ Serves(o, file[p], today[p])
                 \/ \E e \in cache[p] : \E i \in tried'[p] + 1..Len(Candidates(p)) :
                        e.key = Candidates(p)[i] /\ Serves(e, file[p], today[p])
        <3>1. PICK e \in cache[p] : \E i \in tried[p] + 1..Len(Candidates(p)) :
                    e.key = Candidates(p)[i] /\ Serves(e, file[p], today[p])
            BY <1>4, <2>2
        <3>2. PICK i \in tried[p] + 1..Len(Candidates(p)) :
                    e.key = Candidates(p)[i] /\ Serves(e, file[p], today[p])
            BY <3>1
        <3>3. CASE i = tried[p] + 1
            <4>1. e = o
                BY <1>7, <3>2, <3>3 DEF TypeOK, OnePerKey
            <4> QED
                BY <3>2, <4>1
        <3>4. CASE i # tried[p] + 1
            <4>1. i \in tried'[p] + 1..Len(Candidates(p))
                BY <1>1, <2>1, <3>4
            <4> QED
                BY <3>2, <4>1
        <3> QED
            BY <3>3, <3>4
    <2>3. HitToCome(p)'
        BY <1>1, <1>2, <2>1, <2>2 DEF HitToCome
    <2> QED
        BY <1>3, <2>1, <2>3 DEF Warmth, StartsClean
<1> QED
    BY <1>5, <1>6, <1>7 DEF Lookup

\* A file that is concluded adds an entry that serves it.
LEMMA ConcludeWarmth ==
    ASSUME TypeOK, NEW p \in Procs, NEW e, Conclude(p, e), Warmth(p),
           UNCHANGED <<fs, today, quiet>>,
           quiet[p] => Serves(e, e.key.path, today[p])
    PROVE  Warmth(p)'
<1>1. /\ pc'[p] = "next" /\ tried'[p] = 0
      /\ fresh'[p] = Insert(fresh[p], e)
    BY DEF Conclude, Leave, TypeOK
<1>2. \A o, g, d : Serves(o, g, d) <=> Serves(o, g, d)'
    BY DEF Serves, Recheck, Now
<1>3. FreshServes(p)'
    BY <1>1, <1>2 DEF Warmth, FreshServes, Insert
<1> QED
    BY <1>1, <1>3 DEF Warmth, StartsClean, HitToCome

LEMMA ValidateWarmth ==
    ASSUME TypeOK, NEW p \in Procs, Validate(p), Mine(p), Warmth(p)
    PROVE  Warmth(p)'
<1>1. /\ pc[p] = "validate"
      /\ UNCHANGED <<fs, cache, today, quiet, warm>>
    BY DEF Validate, world, run
<1>2. \A e, g, d : Serves(e, g, d) <=> Serves(e, g, d)'
    BY <1>1 DEF Serves, Recheck, Now
<1>3. CASE pend[p] = {} /\ Conclude(p, trying[p])
    BY <1>1, <1>3, HitServes, ConcludeWarmth DEF Mine
<1>4. ASSUME UNCHANGED <<file, content, tried, fresh>>
      PROVE  /\ Candidates(p)' = Candidates(p)
             /\ FreshServes(p)'
    BY <1>1, <1>2, <1>4 DEF Warmth, FreshServes, Candidates
<1>5. ASSUME NEW r \in pend[p], pend' = [pend EXCEPT ![p] = @ \ {r}],
             UNCHANGED <<pc, file, content, trying, tried, fresh>>
      PROVE  Warmth(p)'
    <2>1. pend'[p] \subseteq pend[p]
        BY <1>5 DEF TypeOK
    <2>2. HitToCome(p)'
        BY <1>1, <1>2, <1>4, <1>5, Zenon DEF Warmth, HitToCome
    <2> QED
        BY <1>1, <1>4, <1>5, <2>1, <2>2 DEF Warmth, StartsClean
<1>6. ASSUME NEW r \in pend[p], Recheck(r) # r.outcome,
             pc' = [pc EXCEPT ![p] = "lookup"],
             UNCHANGED <<file, content, tried, fresh>>
      PROVE  Warmth(p)'
    <2>1. pc'[p] = "lookup"
        BY <1>6 DEF TypeOK
    <2>2. ~ Serves(trying[p], file[p], today[p])
        BY <1>1, <1>6 DEF Warmth, StartsClean, Serves
    <2>3. file[p] \in warm =>
            \E e \in cache[p] : \E i \in tried[p] + 1..Len(Candidates(p)) :
                e.key = Candidates(p)[i] /\ Serves(e, file[p], today[p])
        BY <1>1, <2>2 DEF Warmth, HitToCome
    <2>4. HitToCome(p)'
        BY <1>1, <1>2, <1>4, <1>6, <2>1, <2>3 DEF HitToCome
    <2> QED
        BY <1>4, <1>6, <2>1, <2>4 DEF Warmth, StartsClean
<1> QED
    BY <1>3, <1>5, <1>6 DEF Validate

\* The rule's questions, a failed file and the write concern neither the store nor
\* what was produced.
LEMMA EvalWarmth ==
    ASSUME TypeOK, NEW p \in Procs, Warmth(p),
           AskToday(p) \/ AskPath(p) \/ RuleFails(p) \/ WriteStore(p)
    PROVE  Warmth(p)'
<1>1. UNCHANGED <<fs, today, fresh, quiet, warm>>
    BY DEF AskToday, AskPath, RuleFails, WriteStore, world, run
<1>2. \A e, g, d : Serves(e, g, d) <=> Serves(e, g, d)'
    BY <1>1 DEF Serves, Recheck, Now
<1>3. FreshServes(p)'
    BY <1>1, <1>2 DEF Warmth, FreshServes
<1>4. CASE AskToday(p) \/ AskPath(p)
    <2>1. pc[p] = "eval" /\ UNCHANGED <<pc, file>>
        BY <1>4 DEF AskToday, AskPath
    <2> QED
        BY <1>1, <1>3, <2>1 DEF Warmth, StartsClean, HitToCome
<1>5. CASE RuleFails(p)
    <2>1. pc'[p] = "next" /\ tried'[p] = 0
        BY <1>5 DEF RuleFails, Leave, TypeOK
    <2> QED
        BY <1>3, <2>1 DEF Warmth, StartsClean, HitToCome
<1>6. CASE WriteStore(p)
    <2>1. pc[p] = "next" /\ pc'[p] = "rename" /\ tried' = tried
        BY <1>6 DEF WriteStore, check, TypeOK
    <2> QED
        BY <1>3, <2>1 DEF Warmth, StartsClean, HitToCome
<1> QED
    BY <1>4, <1>5, <1>6

LEMMA ProcessWarmth ==
    ASSUME TypeOK, InvWarm, NEW p \in Procs, Process(p), Mine(p), Warmth(p)
    PROVE  Warmth(p)'
<1>1. CASE FinishFile(p)
    <2>1. /\ pc[p] = "eval" /\ UNCHANGED <<fs, today, quiet>>
          /\ Conclude(p, NewEntry(p))
        BY <1>1 DEF FinishFile, NewEntry, world, run
    <2> QED
        BY <2>1, NewEntryServes, ConcludeWarmth DEF Mine
<1>2. CASE SaveFails(p) \/ Rename(p) \/ Crash(p)
    <2>1. Exit(p)
        BY <1>2 DEF SaveFails, Rename, Crash
    <2>2. pc'[p] = "idle" /\ tried'[p] = 0 /\ fresh'[p] = {}
        BY <2>1 DEF Exit, Leave, TypeOK
    <2> QED
        BY <2>2 DEF Warmth, StartsClean, FreshServes, HitToCome
<1> QED
    BY <1>1, <1>2, BeginWarmth, ReadWarmth, LookupWarmth, ValidateWarmth, EvalWarmth
    DEF Process

\* What a save leaves on disk answers for every file it makes warm.
LEMMA RenameWarm ==
    ASSUME TypeOK, InvWarm, NEW p \in Procs, Rename(p), FreshServes(p)
    PROVE  InvWarm'
<1>1. /\ pc[p] = "rename" /\ pc'[p] = "idle"
      /\ disk' = SavedStore(p) /\ UNCHANGED <<fs, day>>
      /\ \A r \in Procs \ {p} : pc'[r] = pc[r]
    BY DEF Rename, Exit, world, TypeOK
<1>2. \A e, g : Serves(e, g, day) <=> Serves(e, g, day)'
    BY <1>1 DEF Serves, Recheck, Now
<1>3. CASE warm' = {}
    BY <1>3 DEF InvWarm
<1>4. CASE warm' # {}
    <2>1. \A r \in Procs : pc'[r] = "idle"
        BY <1>1, <1>4 DEF Rename
    <2>2. quiet[p] /\ today[p] = day
        BY <1>1, <1>4 DEF Rename, InvWarm
    <2>3. \/ coverage[p] = "Whole" /\ ~failed[p] /\ warm' = {e.key.path : e \in fresh[p]}
          \/ /\ ~(coverage[p] = "Whole" /\ ~failed[p])
             /\ warm' = warm \cup {e.key.path : e \in fresh[p]}
        BY <1>4, <2>2 DEF Rename
    <2>4. \A e \in fresh[p] : e \in disk' /\ Serves(e, e.key.path, day)
        BY <1>1, <2>2 DEF SavedStore, Overlay, FreshServes
    <2>5. ASSUME NEW f \in warm, ~(coverage[p] = "Whole" /\ ~failed[p])
          PROVE  \E e \in disk' : Serves(e, f, day)
        <3>1. PICK e \in disk : Serves(e, f, day)
            BY DEF InvWarm
        <3>2. disk' = Overlay(disk, fresh[p])
            BY <1>1, <2>5 DEF SavedStore, InvWarm
        <3>3. CASE \A o \in fresh[p] : o.key # e.key
            BY <3>1, <3>2, <3>3 DEF Overlay
        <3>4. ASSUME NEW o \in fresh[p], o.key = e.key
              PROVE  \E n \in disk' : Serves(n, f, day)
            BY <2>4, <3>1, <3>4 DEF Serves
        <3> QED
            BY <3>3, <3>4
    <2>6. \A f \in warm' : \E e \in disk' : Serves(e, f, day)
        BY <2>3, <2>4, <2>5
    <2> QED
        BY <1>2, <2>1, <2>6 DEF InvWarm
<1> QED
    BY <1>3, <1>4

LEMMA ProcessWarm ==
    ASSUME TypeOK, InvWarm, NEW p \in Procs, Process(p), Warmth(p)
    PROVE  InvWarm'
<1>1. CASE Rename(p)
    BY <1>1, RenameWarm DEF Warmth
<1>2. CASE ~Rename(p)
    <2>1. UNCHANGED <<fs, day, disk, warm>>
        BY <1>2 DEF Process, BeginRun, ReadFile, Lookup, Validate, AskToday, AskPath,
                    RuleFails, FinishFile, WriteStore, SaveFails, Crash, world
    <2>2. \A r \in Procs \ {p} : UNCHANGED <<pc[r], quiet[r], today[r], cache[r]>>
        BY Frame DEF Own
    <2>3. \/ pc'[p] = "idle"
          \/ pc[p] # "idle" /\ UNCHANGED <<quiet[p], today[p], cache[p]>>
          \/ quiet'[p] /\ today'[p] = day /\ cache'[p] = disk
        <3>1. CASE BeginRun(p)
            BY <3>1 DEF BeginRun, TypeOK
        <3>2. CASE SaveFails(p) \/ Crash(p)
            BY <3>2 DEF SaveFails, Crash, Exit, TypeOK
        <3>3. CASE \/ (\E f \in Files : ReadFile(p, f)) \/ Lookup(p) \/ Validate(p)
                   \/ AskToday(p) \/ AskPath(p) \/ RuleFails(p) \/ FinishFile(p)
                   \/ WriteStore(p)
            BY <3>3 DEF ReadFile, Lookup, Validate, AskToday, AskPath, RuleFails,
                        FinishFile, WriteStore, run
        <3> QED
            BY <1>2, <3>1, <3>2, <3>3 DEF Process
    <2>4. \A r \in Procs : \/ pc'[r] = "idle"
                           \/ pc[r] # "idle" /\ UNCHANGED <<quiet[r], today[r], cache[r]>>
                           \/ quiet'[r] /\ today'[r] = day /\ cache'[r] = disk
        BY <2>2, <2>3
    <2> QED
        BY <2>1, <2>4, StoreStays
<1> QED
    BY <1>1, <1>2

LEMMA WarmInit == Init => WarmInv
BY DEF Init, WarmInv, InvWarm, StartsClean, FreshServes, HitToCome

LEMMA WarmStep == IndInv /\ WarmInv /\ [Next]_vars => WarmInv'
<1> SUFFICES ASSUME IndInv, WarmInv, [Next]_vars PROVE WarmInv'
    OBVIOUS
<1>1. TypeOK /\ InvSound /\ InvWarm
    BY DEF IndInv, WarmInv
<1>2. ASSUME NEW r \in Procs PROVE Mine(r) /\ Warmth(r)
    BY <1>2 DEF IndInv, Mine, WarmInv, Warmth
<1>3. ASSUME NEW p \in Procs, Process(p) PROVE WarmInv'
    <2>1. InvWarm'
        BY <1>1, <1>2, <1>3, ProcessWarm
    <2>2. ASSUME NEW r \in Procs PROVE Warmth(r)'
        <3>1. CASE r = p
            BY <1>1, <1>2, <1>3, <3>1, ProcessWarmth
        <3>2. CASE r # p
            <4>1. Own(r)' = Own(r) /\ fs' = fs
                BY <1>1, <1>3, <3>2, Frame
            <4>2. warm' \subseteq warm \/ pc[r] = "idle"
                <5>1. CASE Rename(p)
                    BY <3>2, <5>1 DEF Rename
                <5>2. CASE ~Rename(p)
                    BY <1>3, <5>2 DEF Process, BeginRun, ReadFile, Lookup, Validate, AskToday,
                        AskPath, RuleFails, FinishFile, WriteStore, SaveFails, Crash
                <5> QED
                    BY <5>1, <5>2
            <4> QED
                BY <1>2, <4>1, <4>2, WarmthStays
        <3> QED
            BY <3>1, <3>2
    <2> QED
        BY <2>1, <2>2 DEF WarmInv, Warmth
<1>4. ASSUME NEW path \in Paths, NEW v \in Values[path], Edit(path, v) PROVE WarmInv'
    <2>1. /\ warm' = {} /\ \A r \in Procs : ~quiet'[r]
          /\ UNCHANGED <<pc, tried, fresh, pend, trying>>
        BY <1>4 DEF Edit, check
    <2> QED
        BY <2>1 DEF WarmInv, InvWarm, StartsClean, FreshServes, HitToCome
<1>5. CASE Midnight
    <2>1. warm' = {} /\ fs' = fs /\ \A r \in Procs : Own(r)' = Own(r)
        BY <1>5 DEF Midnight, Own, run, check
    <2>2. \A r \in Procs : Warmth(r)'
        BY <1>2, <2>1, WarmthStays
    <2> QED
        BY <2>1, <2>2 DEF WarmInv, InvWarm, Warmth
<1>6. CASE UNCHANGED vars
    <2>1. /\ UNCHANGED <<fs, day, disk, warm>> /\ \A r \in Procs : Own(r)' = Own(r)
        BY <1>6 DEF vars, Own
    <2>2. \A r \in Procs : Warmth(r)'
        BY <1>2, <2>1, WarmthStays
    <2>3. InvWarm'
        BY <1>1, <2>1, StoreStays DEF Own
    <2> QED
        BY <2>2, <2>3 DEF WarmInv, Warmth
<1> QED
    BY <1>3, <1>4, <1>5, <1>6 DEF Next

\* A file whose entry a completed run saved is not evaluated again until something
\* changes, whatever runs fail, crash or go on beside it (the save in run_files,
\* cache_hit).
THEOREM SavedIsReused == Spec => []WarmRunHits
<1>1. Init => IndInv /\ WarmInv
    BY IndInit, WarmInit
<1>2. IndInv /\ WarmInv /\ [Next]_vars => (IndInv /\ WarmInv)'
    BY IndStep, WarmStep
<1>3. IndInv /\ WarmInv => WarmRunHits
    BY DEF WarmInv, HitToCome, WarmRunHits
<1> QED
    BY <1>1, <1>2, <1>3, PTL DEF Spec
=============================================================================
