------------------------- MODULE SuppressionsProofs -------------------------
(***************************************************************************)
(* Proofs about Suppressions, for any files, directives and rules, and any *)
(* history of runs, edits and midnights.                                   *)
(***************************************************************************)
EXTENDS Suppressions, WellFoundedInduction, TLAPS

-----------------------------------------------------------------------------
(* Directives.                                                             *)

LEMMA LeastNat ==
    ASSUME NEW T, T \subseteq Nat, T # {}
    PROVE  \E m \in T : \A n \in T : ~(n < m)
    <1> DEFINE Less == {p \in Nat \X Nat : p[1] < p[2]}
    <1>1. IsWellFoundedOn(Less, Nat)
        BY NatLessThanWellFounded DEF OpToRel
    <1>2. ASSUME NEW m \in T, NEW n \in T, n < m PROVE <<n, m>> \in Less
        BY <1>2
    <1> HIDE DEF Less
    <1>3. \E m \in T : \A n \in T : <<n, m>> \notin Less
        BY <1>1, WFMin
    <1> QED
        BY <1>2, <1>3

\* The first directive that covers a violation exists where any does.
LEMMA FirstCovers ==
    ASSUME NEW c \in Contents, NEW x, NEW i \in DOMAIN Directives[c],
           Covers(Directives[c][i], x)
    PROVE  \E j \in Covering(Directives[c], x) : TRUE
    <1> DEFINE ds == Directives[c]
               T == {j \in DOMAIN ds : Covers(ds[j], x)}
    <1>0. PICK n \in Nat : DOMAIN ds = 1..n
        <2>1. ds \in Seq(Suppression)
            BY ContentsAssumption
        <2> QED
            BY <2>1
    <1>1. T \subseteq Nat /\ T # {}
        BY <1>0
    <1>2. \A j \in T : \A k \in 1..(j - 1) : k \in DOMAIN ds /\ k < j /\ k \in Nat
        BY <1>0
    <1>3. PICK j \in T : \A m \in T : ~(m < j)
        BY <1>1, LeastNat
    <1>4. \A k \in 1..(j - 1) : ~Covers(ds[k], x)
        BY <1>2, <1>3
    <1> QED
        BY <1>3, <1>4 DEF Covering

LEMMA CoveringCovers ==
    ASSUME NEW ds, NEW x, NEW i \in Covering(ds, x)
    PROVE  i \in DOMAIN ds /\ Covers(ds[i], x)
    BY DEF Covering

\* Where a violation is reported does not matter to what covers it.
LEMMA CoveringAt ==
    ASSUME NEW ds, NEW x, NEW f
    PROVE  /\ Covering(ds, At(f, x)) = Covering(ds, x)
           /\ \A d : Covers(d, At(f, x)) <=> Covers(d, x)
    <1>1. \A d : Covers(d, At(f, x)) <=> Covers(d, x)
        BY DEF Covers, At
    <1> QED
        BY <1>1 DEF Covering

-----------------------------------------------------------------------------
(* Entries.                                                                *)

\* Without an expiry the day makes no difference, so the key need not have it.
LEMMA DayOfKey ==
    ASSUME NEW f, NEW c, NEW day
    PROVE  LET key == KeyFor(f, c, day)
           IN key.file = f /\ key.contents = c /\ Outcome(c, key.day) = Outcome(c, day)
    <1>1. CASE HasExpiry(c)
        BY <1>1 DEF KeyFor
    <1>2. CASE ~HasExpiry(c)
        <2>1. \A d : Expired(Directives[c], d) = {}
            BY <1>2 DEF HasExpiry, Expired
        <2>2. \A d, e : Outcome(c, d) = Outcome(c, e)
            BY <2>1 DEF Outcome, Applied
        <2> QED
            BY <2>2 DEF KeyFor
    <1> QED
        BY <1>1, <1>2

LEMMA HonestOverlay ==
    ASSUME NEW old, NEW new, Honest(old), Honest(new)
    PROVE  Honest(Overlay(old, new))
    BY DEF Honest, Overlay

LEMMA HonestEmpty == Honest(Empty)
    BY DEF Honest, Empty

\* What a run gathered is fit to be saved.
LEMMA HonestFresh ==
    ASSUME InvResults, pc = "checking", TypeOK
    PROVE  Honest(Fresh)
    <1> DEFINE keys == {KeyFor(f, read[f], runDay) : f \in Completed}
    <1>1. DOMAIN Fresh = keys /\ \A k \in keys : Fresh[k] = results[k.file]
        BY DEF Fresh
    <1>2. ASSUME NEW k \in keys PROVE Fresh[k] = Outcome(k.contents, k.day)
        <2>1. PICK f \in Completed : k = KeyFor(f, read[f], runDay)
            BY <1>2
        <2>2. /\ k.file = f /\ k.contents = read[f]
              /\ Outcome(read[f], k.day) = Outcome(read[f], runDay)
            BY <2>1, DayOfKey
        <2>3. results[f] = Outcome(read[f], runDay)
            BY <2>1 DEF Completed, InvResults, Expected
        <2> QED
            BY <1>1, <1>2, <2>2, <2>3
    <1> QED
        BY <1>1, <1>2 DEF Honest

LEMMA NextHonest ==
    TypeOK /\ InvResults /\ Honest(store) /\ Honest(cache) /\ [Next]_vars
        => Honest(store') /\ Honest(cache')
    <1> SUFFICES ASSUME TypeOK, InvResults, Honest(store), Honest(cache), [Next]_vars
                 PROVE  Honest(store') /\ Honest(cache')
        OBVIOUS
    <1>1. CASE Fold
        <2>1. Honest(Fresh)
            BY <1>1, HonestFresh DEF Fold
        <2>2. Honest(Overlay(cache, Fresh))
            BY <2>1, HonestOverlay
        <2> QED
            BY <1>1, <2>1, <2>2, HonestEmpty DEF Fold
    <1>2. CASE Begin
        BY <1>2 DEF Begin
    <1>3. CASE Edit \/ Midnight \/ Reduce \/ UNCHANGED vars
        BY <1>3 DEF Edit, Midnight, Reduce, vars
    <1>4. CASE \E f \in Files : Check(f) \/ RuleFails(f)
        BY <1>4 DEF Check, RuleFails, Done
    <1> QED
        BY <1>1, <1>2, <1>3, <1>4 DEF Next

-----------------------------------------------------------------------------
(* Types and results.                                                      *)

LEMMA DoneFacts ==
    ASSUME NEW f, NEW outcome, Done(f, outcome)
    PROVE  /\ DOMAIN results' = DOMAIN results \cup {f}
           /\ DOMAIN read' = DOMAIN read \cup {f}
           /\ results'[f] = outcome /\ read'[f] = world[f]
           /\ \A g \in DOMAIN results \ {f} : results'[g] = results[g]
           /\ \A g \in DOMAIN read \ {f} : read'[g] = read[g]
           /\ read' = [g \in DOMAIN read' |-> read'[g]]
    BY DEF Done, Overlay

LEMMA NextTypeOK == TypeOK /\ [Next]_vars => TypeOK'
    <1> SUFFICES ASSUME TypeOK, [Next]_vars PROVE TypeOK'
        OBVIOUS
    <1>0. Cleared => /\ read' \in [DOMAIN read' -> Held] /\ DOMAIN read' = DOMAIN results'
                     /\ DOMAIN results' = {}
        BY DEF Cleared, Empty
    <1>1. CASE Edit
        <2>a. PICK f \in Files : \E c \in CanHold[f] : world' = [world EXCEPT ![f] = c]
            BY <1>1 DEF Edit
        <2>b. PICK c \in CanHold[f] : world' = [world EXCEPT ![f] = c]
            BY <2>a
        <2>c. c \in Held /\ world \in [Files -> Held]
            BY <2>b, ContentsAssumption DEF TypeOK, Held
        <2>1. world' \in [Files -> Held]
            BY <2>b, <2>c
        <2> QED
            BY <1>1, <2>1 DEF Edit, TypeOK, runVars, resultVars
    <1>2. CASE Midnight
        BY <1>2 DEF Midnight, TypeOK, runVars, resultVars
    <1>3. CASE Begin
        <2>1. given' \subseteq Files /\ narrowed' \in BOOLEAN /\ reporting' \in BOOLEAN
            BY <1>3 DEF Begin
        <2> QED
            BY <1>0, <1>3, <2>1 DEF Begin, TypeOK
    <1>4. ASSUME NEW f \in Files, Check(f) \/ RuleFails(f) PROVE TypeOK'
        <2>1. PICK outcome : Done(f, outcome)
            BY <1>4 DEF Check, RuleFails
        <2>2. f \in given /\ world[f] \in Held
            BY <1>4 DEF Check, RuleFails, Waiting, TypeOK
        <2>a. /\ DOMAIN results' = DOMAIN results \cup {f}
              /\ DOMAIN read' = DOMAIN read \cup {f}
              /\ read'[f] = world[f]
              /\ \A g \in DOMAIN read \ {f} : read'[g] = read[g]
              /\ read' = [g \in DOMAIN read' |-> read'[g]]
            BY <2>1, DoneFacts
        <2>b. DOMAIN read = DOMAIN results /\ \A g \in DOMAIN read : read[g] \in Held
            BY DEF TypeOK
        <2>3. read' \in [DOMAIN read' -> Held]
            <3>1. \A g \in DOMAIN read' : read'[g] \in Held
                BY <2>2, <2>a, <2>b
            <3> QED
                BY <2>a, <3>1
        <2>4. DOMAIN read' = DOMAIN results' /\ DOMAIN results' \subseteq given
            BY <2>2, <2>a, <2>b DEF TypeOK
        <2> QED
            BY <2>1, <2>3, <2>4 DEF Done, TypeOK, runVars
    <1>5. CASE Fold
        BY <1>0, <1>5 DEF Fold, TypeOK, runVars, resultVars
    <1>6. CASE Reduce
        BY <1>0, <1>6 DEF Reduce, TypeOK, runVars, resultVars
    <1>7. CASE UNCHANGED vars
        BY <1>7 DEF vars, TypeOK, runVars, resultVars
    <1> QED
        BY <1>1, <1>2, <1>3, <1>4, <1>5, <1>6, <1>7 DEF Next

LEMMA NextInvResults ==
    TypeOK /\ Honest(cache) /\ InvResults /\ [Next]_vars => InvResults'
    <1> SUFFICES ASSUME TypeOK, Honest(cache), InvResults, [Next]_vars PROVE InvResults'
        OBVIOUS
    <1>1. CASE Begin
        BY <1>1 DEF Begin, Cleared, Empty, InvResults
    <1>2. ASSUME NEW f \in Files, Check(f) \/ RuleFails(f) PROVE InvResults'
        <2>1. pc = "checking" /\ world[f] \in Held
            BY <1>2 DEF Check, RuleFails, Waiting, TypeOK
        <2>2. PICK outcome : Done(f, outcome) /\ outcome \in {Failed, Expected(world[f])}
            <3>1. CASE RuleFails(f)
                BY <3>1 DEF RuleFails
            <3>2. CASE Check(f) /\ world[f] = Absent
                BY <3>2 DEF Check, Expected
            <3>3. CASE Check(f) /\ world[f] # Absent
                <4> DEFINE key == KeyFor(f, world[f], runDay)
                <4>1. CASE key \in DOMAIN cache
                    <5>1. cache[key] = Outcome(key.contents, key.day)
                        BY <4>1 DEF Honest
                    <5>2. cache[key] = Expected(world[f])
                        BY <3>3, <5>1, DayOfKey DEF Expected
                    <5> QED
                        BY <3>3, <4>1, <5>2 DEF Check, Cached
                <4>2. CASE key \notin DOMAIN cache
                    BY <3>3, <4>2 DEF Check, Expected
                <4> QED
                    BY <4>1, <4>2
            <3> QED
                BY <1>2, <3>1, <3>2, <3>3
        <2>3. UNCHANGED runDay
            BY <2>2 DEF Done, runVars
        <2>4. \A g \in DOMAIN results' : results'[g] \in {Failed, Expected(read'[g])}
            <3>1. /\ DOMAIN results' = DOMAIN results \cup {f}
                  /\ results'[f] = outcome /\ read'[f] = world[f]
                  /\ \A g \in DOMAIN results \ {f} : results'[g] = results[g]
                  /\ \A g \in DOMAIN read \ {f} : read'[g] = read[g]
                BY <2>2, DoneFacts
            <3>2. DOMAIN read = DOMAIN results
                BY DEF TypeOK
            <3>3. \A g \in DOMAIN results : results[g] \in {Failed, Expected(read[g])}
                BY <2>1 DEF InvResults
            <3> QED
                BY <2>2, <3>1, <3>2, <3>3
        <2> QED
            BY <2>3, <2>4 DEF InvResults, Expected
    <1>3. CASE Edit \/ Midnight \/ UNCHANGED vars
        BY <1>3 DEF Edit, Midnight, vars, runVars, resultVars, InvResults, Expected
    <1>4. CASE Fold \/ Reduce
        BY <1>4 DEF Fold, Reduce, InvResults
    <1> QED
        BY <1>1, <1>2, <1>3, <1>4 DEF Next

LEMMA NextInvFolded ==
    TypeOK /\ InvResults /\ InvFolded /\ [Next]_vars => InvFolded'
    <1> SUFFICES ASSUME TypeOK, InvResults, InvFolded, [Next]_vars PROVE InvFolded'
        OBVIOUS
    <1>1. CASE Fold
        <2>1. CASE AnyFailed
            <3>1. pc' = "idle"
                BY <1>1, <2>1 DEF Fold
            <3> QED
                BY <3>1 DEF InvFolded
        <2>2. CASE ~AnyFailed
            <3>1. UNCHANGED <<results, read, runDay>> /\ DOMAIN read = given
                BY <1>1, <2>2 DEF Fold, runVars, resultVars, TypeOK
            <3>2. \A f \in given : results[f] = Expected(read[f])
                BY <1>1, <2>2, <3>1 DEF Fold, AnyFailed, InvResults, TypeOK
            <3>3. violations' = UNION {{At(f, x) : x \in Expected(read[f]).violations} :
                                         f \in given}
                BY <1>1, <2>2, <3>2 DEF Fold
            <3>4. facts' = UNION {{[file |-> f, fact |-> a] : a \in Expected(read[f]).facts} :
                                    f \in given}
                BY <1>1, <2>2, <3>2 DEF Fold
            <3>5. directives' =
                    [f \in {g \in given : Expected(read[g]).suppressions # <<>>} |->
                       [suppressions |-> Expected(read[f]).suppressions,
                        used |-> Expected(read[f]).used]]
                BY <1>1, <2>2, <3>2 DEF Fold
            <3> QED
                BY <3>1, <3>3, <3>4, <3>5 DEF InvFolded, Expected
        <2> QED
            BY <2>1, <2>2
    <1>2. CASE Begin
        BY <1>2 DEF Begin, InvFolded
    <1>3. CASE \E f \in Files : Check(f) \/ RuleFails(f)
        BY <1>3 DEF Check, RuleFails, Waiting, Done, InvFolded
    <1>4. CASE Edit \/ Midnight \/ UNCHANGED vars
        <2>1. UNCHANGED <<pc, runDay, read, violations, facts, directives>>
            BY <1>4 DEF Edit, Midnight, vars, runVars, resultVars, foldVars
        <2> QED
            BY <2>1 DEF InvFolded, Expected
    <1>5. CASE Reduce
        BY <1>5 DEF Reduce, InvFolded
    <1> QED
        BY <1>1, <1>2, <1>3, <1>4, <1>5 DEF Next
-----------------------------------------------------------------------------
(* Where a run ends.                                                       *)

\* Whether the first directive that covers it exists is whether one does.
LEMMA SilencedIsCovered ==
    ASSUME NEW c, NEW x, x.file \in Parsed(c), c[x.file] \in Held
    PROVE  Silenced(c, x, {}) <=> Covering(Directives[c[x.file]], x) # {}
    <1> DEFINE ds == Directives[c[x.file]]
    <1>1. c[x.file] \in Contents
        BY DEF Parsed, Held
    <1>2. ASSUME Silenced(c, x, {}) PROVE Covering(ds, x) # {}
        <2>1. PICK i \in DOMAIN ds : Covers(ds[i], x)
            BY <1>2 DEF Silenced
        <2>2. \E j \in Covering(ds, x) : TRUE
            BY <1>1, <2>1, FirstCovers
        <2> QED
            BY <2>2
    <1>3. ASSUME Covering(ds, x) # {} PROVE Silenced(c, x, {})
        <2>1. PICK i \in Covering(ds, x) : TRUE
            BY <1>3
        <2>2. i \in DOMAIN ds /\ Covers(ds[i], x)
            BY <2>1, CoveringCovers
        <2> QED
            BY <2>2 DEF Silenced
    <1> QED
        BY <1>2, <1>3

LEMMA ExpectedParsed ==
    ASSUME TypeOK, NEW f \in DOMAIN read
    PROVE  /\ f \in Parsed(read) => Expected(read[f]) = Applied(read[f], runDay)
           /\ f \notin Parsed(read) => Expected(read[f]) = Nothing
    BY DEF Parsed, Expected, Outcome

LEMMA FoldedFacts ==
    ASSUME TypeOK, InvFolded, pc = "reducing"
    PROVE  facts = FactsIn(read)
    <1>1. \A f \in DOMAIN read :
            /\ f \in Parsed(read) => Expected(read[f]).facts = Facts[read[f]]
            /\ f \notin Parsed(read) => Expected(read[f]).facts = {}
        BY ExpectedParsed DEF Applied, Nothing
    <1>2. Parsed(read) \subseteq DOMAIN read
        BY DEF Parsed
    <1> QED
        BY <1>1, <1>2 DEF InvFolded, FactsIn

LEMMA FoldedDirectives ==
    ASSUME TypeOK, InvFolded, pc = "reducing"
    PROVE  /\ \A f : f \in DOMAIN directives <=>
                       f \in Parsed(read) /\ Directives[read[f]] # <<>>
           /\ \A f \in DOMAIN directives :
                /\ directives[f].suppressions = Directives[read[f]]
                /\ directives[f].used =
                     UNION {Covering(Directives[read[f]], x) : x \in Findings[read[f]]}
    <1>1. \A f \in DOMAIN read :
            /\ f \in Parsed(read) =>
                 /\ Expected(read[f]).suppressions = Directives[read[f]]
                 /\ Expected(read[f]).used =
                      UNION {Covering(Directives[read[f]], x) : x \in Findings[read[f]]}
            /\ f \notin Parsed(read) => Expected(read[f]).suppressions = <<>>
        BY ExpectedParsed DEF Applied, Nothing
    <1>2. Parsed(read) \subseteq DOMAIN read
        BY DEF Parsed
    <1>3. /\ DOMAIN directives = {g \in DOMAIN read : Expected(read[g]).suppressions # <<>>}
          /\ \A f \in DOMAIN directives :
                /\ directives[f].suppressions = Expected(read[f]).suppressions
                /\ directives[f].used = Expected(read[f]).used
        BY DEF InvFolded
    <1> QED
        BY <1>1, <1>2, <1>3

LEMMA FoldedViolations ==
    ASSUME TypeOK, InvFolded, pc = "reducing"
    PROVE  violations =
             Left(read, InFile(read), {}) \cup Overdue(read, runDay)
    <1>1. Parsed(read) \subseteq DOMAIN read /\ \A f \in DOMAIN read : read[f] \in Held
        BY DEF Parsed, TypeOK
    <1>2. \A f \in DOMAIN read :
            /\ f \in Parsed(read) =>
                 Expected(read[f]).violations =
                    {x \in Findings[read[f]] : Covering(Directives[read[f]], x) = {}}
                    \cup Expired(Directives[read[f]], runDay)
            /\ f \notin Parsed(read) => Expected(read[f]).violations = {}
        BY ExpectedParsed DEF Applied, Nothing
    <1>3. ASSUME NEW f \in Parsed(read), NEW x \in Findings[read[f]]
          PROVE  Covering(Directives[read[f]], x) = {} <=> ~Silenced(read, At(f, x), {})
        <2>1. At(f, x).file = f
            BY DEF At
        <2>2. Silenced(read, At(f, x), {}) <=>
                Covering(Directives[read[f]], At(f, x)) # {}
            BY <1>1, <2>1, SilencedIsCovered
        <2> QED
            BY <2>2, CoveringAt
    <1>4. violations = UNION {{At(f, x) : x \in Expected(read[f]).violations} :
                                f \in DOMAIN read}
        BY DEF InvFolded
    <1>5. ASSUME NEW v PROVE
            v \in violations <=>
              \E f \in Parsed(read) :
                \/ \E x \in Findings[read[f]] :
                     v = At(f, x) /\ Covering(Directives[read[f]], x) = {}
                \/ \E x \in Expired(Directives[read[f]], runDay) : v = At(f, x)
        <2>1. v \in violations <=>
                \E f \in DOMAIN read : \E x \in Expected(read[f]).violations : v = At(f, x)
            BY <1>4
        <2> QED
            BY <1>1, <1>2, <2>1
    <1>6. ASSUME NEW v PROVE
            v \in Left(read, InFile(read), {}) <=>
              \E f \in Parsed(read) : \E x \in Findings[read[f]] :
                v = At(f, x) /\ ~Silenced(read, At(f, x), {})
        BY DEF Left, InFile
    <1>7. ASSUME NEW v PROVE
            v \in Overdue(read, runDay) <=>
              \E f \in Parsed(read) : \E x \in Expired(Directives[read[f]], runDay) : v = At(f, x)
        BY DEF Overdue
    <1> QED
        BY <1>3, <1>5, <1>6, <1>7

\* A cross-file report is dropped where a directive of its file covers it.
LEMMA ElsewhereIsSilenced ==
    ASSUME TypeOK, InvFolded, pc = "reducing", NEW x
    PROVE  /\ Elsewhere(x) = {} <=> ~Silenced(read, x, {})
           /\ x.file \in DOMAIN directives =>
                Elsewhere(x) = Covering(Directives[read[x.file]], x)
    <1>1. Parsed(read) \subseteq DOMAIN read /\ \A f \in DOMAIN read : read[f] \in Held
        BY DEF Parsed, TypeOK
    <1>2. CASE x.file \in DOMAIN directives
        <2>1. x.file \in Parsed(read) /\ directives[x.file].suppressions = Directives[read[x.file]]
            BY <1>2, FoldedDirectives
        <2>2. Elsewhere(x) = Covering(Directives[read[x.file]], x)
            BY <1>2, <2>1 DEF Elsewhere
        <2>3. Silenced(read, x, {}) <=> Covering(Directives[read[x.file]], x) # {}
            BY <1>1, <2>1, SilencedIsCovered
        <2> QED
            BY <2>2, <2>3
    <1>3. CASE x.file \notin DOMAIN directives
        <2>1. x.file \notin Parsed(read) \/ Directives[read[x.file]] = <<>>
            BY <1>3, FoldedDirectives
        <2>2. ~Silenced(read, x, {})
            BY <2>1 DEF Silenced
        <2> QED
            BY <1>3, <2>2 DEF Elsewhere
    <1> QED
        BY <1>2, <1>3

\* What the reduce phase adds, and how much of it is a function of what was read.
Wanted == IF narrowed THEN {} ELSE Across(read)

LEMMA ReduceSilenced ==
    ASSUME TypeOK, InvFolded, Reduce, pc' = "done"
    PROVE  SilencedExactly'
    <1>1. facts = FactsIn(read) /\ pc = "reducing"
        BY FoldedFacts DEF Reduce
    <1>2. (IF narrowed THEN {} ELSE Reported(facts)) = Wanted
        BY <1>1 DEF Wanted, Across
    <1>3. /\ violations' = violations \cup {x \in Wanted : Elsewhere(x) = {}}
          /\ UNCHANGED <<read, narrowed, runDay>>
        BY <1>2 DEF Reduce, Cleared, resultVars, runVars
    <1>4. {x \in Wanted : Elsewhere(x) = {}} = Left(read, Wanted, {})
        BY <1>1, ElsewhereIsSilenced DEF Left
    <1>5. Left(read, InFile(read) \cup Wanted, {})
            = Left(read, InFile(read), {}) \cup Left(read, Wanted, {})
        BY DEF Left
    <1>6. violations' =
             Left(read, InFile(read) \cup Wanted, {})
             \cup Overdue(read, runDay)
        BY <1>1, <1>3, <1>4, <1>5, FoldedViolations
    <1>7. violations' =
             Left(read, InFile(read) \cup IF narrowed THEN {} ELSE Across(read), {})
             \cup Overdue(read, runDay)
        BY <1>6 DEF Wanted
    <1> QED
        BY <1>3, <1>7 DEF SilencedExactly

\* A directive is called unused if it is judged and first covers nothing.
LEMMA ReduceUnused ==
    ASSUME TypeOK, InvFolded, Reduce, pc' = "done"
    PROVE  \A f, i : [file |-> f, index |-> i] \in unused' <=>
             /\ reporting
             /\ f \in Parsed(read) /\ i \in DOMAIN Directives[read[f]]
             /\ \A x \in Findings[read[f]] : i \notin Covering(Directives[read[f]], x)
             /\ \A x \in Wanted : x.file = f => i \notin Covering(Directives[read[f]], x)
             /\ Directives[read[f]][i].rules \cap Unjudged = {}
    <1>1. facts = FactsIn(read) /\ pc = "reducing"
        BY FoldedFacts DEF Reduce
    <1>2. (IF narrowed THEN {} ELSE Reported(facts)) = Wanted
        BY <1>1 DEF Wanted, Across
    <1> DEFINE reduced == IF narrowed THEN {} ELSE Reported(facts)
               Called(f) == {j \in DOMAIN directives[f].suppressions :
                               /\ reporting
                               /\ j \notin Marked(f, reduced)
                               /\ directives[f].suppressions[j].rules \cap Unjudged = {}}
    <1>3. unused' = UNION {{[file |-> f, index |-> i] : i \in Called(f)} : f \in DOMAIN directives}
        BY DEF Reduce
    <1>r. \A f, i, g, j : [file |-> f, index |-> i] = [file |-> g, index |-> j]
                             => f = g /\ i = j
        OBVIOUS
    <1> HIDE DEF Called
    <1>s. ASSUME NEW f, NEW i
          PROVE  [file |-> f, index |-> i] \in unused' <=>
                    f \in DOMAIN directives /\ i \in Called(f)
        <2> DEFINE r == [file |-> f, index |-> i]
        <2>1. ASSUME r \in unused' PROVE f \in DOMAIN directives /\ i \in Called(f)
            <3>1. PICK g \in DOMAIN directives : r \in {[file |-> g, index |-> j] : j \in Called(g)}
                BY <1>3, <2>1
            <3>2. PICK j \in Called(g) : r = [file |-> g, index |-> j]
                BY <3>1
            <3> QED
                BY <1>r, <3>1, <3>2
        <2>2. ASSUME f \in DOMAIN directives, i \in Called(f) PROVE r \in unused'
            <3>1. r \in {[file |-> f, index |-> j] : j \in Called(f)}
                BY <2>2
            <3> QED
                BY <1>3, <2>2, <3>1
        <2> QED
            BY <2>1, <2>2
    <1>4. \A f, i : [file |-> f, index |-> i] \in unused' <=>
            /\ f \in DOMAIN directives /\ i \in DOMAIN directives[f].suppressions
            /\ reporting
            /\ i \notin Marked(f, Wanted)
            /\ directives[f].suppressions[i].rules \cap Unjudged = {}
        BY <1>2, <1>s DEF Called
    <1>5. ASSUME NEW f \in DOMAIN directives, NEW i
          PROVE  i \in Marked(f, Wanted) <=>
                   \/ \E x \in Findings[read[f]] : i \in Covering(Directives[read[f]], x)
                   \/ \E x \in Wanted : x.file = f /\ i \in Covering(Directives[read[f]], x)
        <2>1. \A x \in Wanted : x.file = f => Elsewhere(x) = Covering(Directives[read[f]], x)
            BY <1>1, <1>5, ElsewhereIsSilenced
        <2>2. directives[f].used =
                UNION {Covering(Directives[read[f]], x) : x \in Findings[read[f]]}
            BY <1>1, <1>5, FoldedDirectives
        <2> QED
            BY <2>1, <2>2 DEF Marked
    <1>6. \A f : f \in DOMAIN directives <=>
                   f \in Parsed(read) /\ Directives[read[f]] # <<>>
        BY <1>1, FoldedDirectives
    <1>7. \A f \in DOMAIN directives : directives[f].suppressions = Directives[read[f]]
        BY <1>1, FoldedDirectives
    <1>8. \A f, i : i \in DOMAIN Directives[read[f]] => Directives[read[f]] # <<>>
        OBVIOUS
    <1> QED
        BY <1>4, <1>5, <1>6, <1>7, <1>8

\* What a cross-file rule reports has its id.
LEMMA AcrossRules ==
    ASSUME NEW c, DOMAIN c \subseteq Files, \A f \in DOMAIN c : c[f] \in Held
    PROVE  \A x \in Across(c) : x.rule \in CrossRules
    <1>1. FactsIn(c) \in SUBSET [file : Files, fact : UNION {Facts[k] : k \in Contents}]
        BY DEF FactsIn, Parsed, Held
    <1> QED
        BY <1>1, ReduceAssumption DEF Across

LEMMA ReduceFree ==
    ASSUME TypeOK, InvFolded, Reduce, pc' = "done"
    PROVE  UnusedIsFree'
    <1>1. UNCHANGED <<read, narrowed>>
        BY DEF Reduce, Cleared, resultVars, runVars
    <1>2. SUFFICES ASSUME NEW c \in Corpora,
                          NEW x \in InFile(c) \cup Across(c), Silenced(c, x, {})
                   PROVE  Silenced(c, x, unused')
        <2>1. Corpora' = Corpora
            BY <1>1 DEF Corpora
        <2>2. \A c, y : Silenced(c, y, unused') => Silenced(c, y, {})
            BY DEF Silenced
        <2> QED
            BY <1>2, <2>1, <2>2 DEF UnusedIsFree, Left
    <1>3. /\ DOMAIN c \subseteq Files /\ \A f \in DOMAIN c : c[f] \in Held
          /\ \A f \in DOMAIN read : f \in DOMAIN c /\ c[f] = read[f]
          /\ ~narrowed => c = read
        BY DEF Corpora, TypeOK
    <1> DEFINE f == x.file
               ds == Directives[c[x.file]]
    <1>4. f \in Parsed(c) /\ c[f] \in Held
        BY <1>2, <1>3 DEF Silenced, Parsed
    <1>5. PICK i \in Covering(ds, x) : TRUE
        BY <1>2, <1>4, SilencedIsCovered
    <1>6. i \in DOMAIN ds /\ Covers(ds[i], x)
        BY <1>5, CoveringCovers
    <1>7. [file |-> f, index |-> i] \notin unused'
        <2> SUFFICES ASSUME [file |-> f, index |-> i] \in unused' PROVE FALSE
            OBVIOUS
        <2>1. /\ f \in Parsed(read)
              /\ \A y \in Findings[read[f]] : i \notin Covering(Directives[read[f]], y)
              /\ \A y \in Wanted : y.file = f => i \notin Covering(Directives[read[f]], y)
              /\ Directives[read[f]][i].rules \cap Unjudged = {}
            BY ReduceUnused
        <2>2. Directives[read[f]] = ds /\ c[f] = read[f]
            BY <1>3, <2>1 DEF Parsed
        <2>3. CASE x \in InFile(c)
            <3>0. PICK g \in Parsed(c) : \E y \in Findings[c[g]] : x = At(g, y)
                BY <2>3 DEF InFile
            <3>1. PICK y \in Findings[c[g]] : x = At(g, y)
                BY <3>0
            <3>2. g = f
                BY <3>1 DEF At
            <3>3. i \in Covering(ds, y)
                BY <1>5, <3>1, CoveringAt
            <3> QED
                BY <2>1, <2>2, <3>1, <3>2, <3>3
        <2>4. CASE x \in Across(c) /\ narrowed
            <3>1. x.rule \in CrossRules
                BY <1>3, <2>4, AcrossRules
            <3>2. x.rule \in ds[i].rules
                BY <1>6 DEF Covers
            <3> QED
                BY <2>1, <2>2, <2>4, <3>1, <3>2 DEF Unjudged
        <2>5. CASE x \in Across(c) /\ ~narrowed
            <3>1. x \in Wanted
                BY <1>3, <2>5 DEF Wanted
            <3> QED
                BY <1>5, <2>1, <2>2, <3>1
        <2> QED
            BY <1>2, <2>3, <2>4, <2>5
    <1> QED
        BY <1>4, <1>6, <1>7 DEF Silenced

LEMMA ReduceDebt ==
    ASSUME TypeOK, InvFolded, Reduce, pc' = "done"
    PROVE  DebtIsFound'
    <1>1. UNCHANGED <<read, narrowed, reporting>>
        BY DEF Reduce, Cleared, resultVars, runVars
    <1>2. SUFFICES ASSUME reporting, ~narrowed,
                          NEW f \in Parsed(read), NEW i \in DOMAIN Directives[read[f]],
                          \A x \in InFile(read) \cup Across(read) :
                             x.file = f => ~Covers(Directives[read[f]][i], x)
                   PROVE  [file |-> f, index |-> i] \in unused'
        BY <1>1 DEF DebtIsFound
    <1>3. ASSUME NEW x \in Findings[read[f]]
          PROVE  i \notin Covering(Directives[read[f]], x)
        <2>1. At(f, x) \in InFile(read) /\ At(f, x).file = f
            BY <1>2, <1>3 DEF InFile, At
        <2>2. ~Covers(Directives[read[f]][i], x)
            BY <1>2, <2>1, CoveringAt
        <2> QED
            BY <2>2, CoveringCovers
    <1>4. ASSUME NEW x \in Wanted, x.file = f
          PROVE  i \notin Covering(Directives[read[f]], x)
        <2>1. ~Covers(Directives[read[f]][i], x)
            BY <1>2, <1>4 DEF Wanted
        <2> QED
            BY <2>1, CoveringCovers
    <1>5. Unjudged = {}
        BY <1>2 DEF Unjudged
    <1> QED
        BY <1>2, <1>3, <1>4, <1>5, ReduceUnused

Promised == SilencedExactly /\ UnusedIsFree /\ DebtIsFound

LEMMA NextPromised == TypeOK /\ InvFolded /\ Promised /\ [Next]_vars => Promised'
    <1> SUFFICES ASSUME TypeOK, InvFolded, Promised, [Next]_vars PROVE Promised'
        OBVIOUS
    <1>1. CASE pc' # "done"
        BY <1>1 DEF Promised, SilencedExactly, UnusedIsFree, DebtIsFound
    <1>2. CASE Reduce /\ pc' = "done"
        BY <1>2, ReduceSilenced, ReduceFree, ReduceDebt DEF Promised
    <1>3. CASE (Edit \/ Midnight \/ UNCHANGED vars) /\ pc' = "done"
        <2>1. UNCHANGED <<pc, narrowed, reporting, runDay, read, violations, unused>>
            BY <1>3 DEF Edit, Midnight, vars, runVars, resultVars, foldVars
        <2>2. Corpora' = Corpora
            BY <2>1 DEF Corpora
        <2>3. SilencedExactly'
            BY <2>1 DEF Promised, SilencedExactly
        <2>4. UnusedIsFree'
            BY <2>1, <2>2 DEF Promised, UnusedIsFree
        <2>5. DebtIsFound'
            BY <2>1 DEF Promised, DebtIsFound
        <2> QED
            BY <2>3, <2>4, <2>5 DEF Promised
    <1>4. Begin \/ Fold \/ (\E f \in Files : Check(f) \/ RuleFails(f)) => pc' # "done"
        <2>1. Begin => pc' # "done"
            BY DEF Begin
        <2>2. Fold => pc' # "done"
            BY DEF Fold
        <2>3. (\E f \in Files : Check(f) \/ RuleFails(f)) => pc' # "done"
            BY DEF Check, RuleFails, Waiting, Done
        <2> QED
            BY <2>1, <2>2, <2>3
    <1> QED
        BY <1>1, <1>2, <1>3, <1>4 DEF Next

-----------------------------------------------------------------------------
LEMMA InitIndInv == Init => IndInv
    <1> SUFFICES ASSUME Init PROVE IndInv
        OBVIOUS
    <1>1. read \in [DOMAIN read -> Held] /\ DOMAIN read = {} /\ DOMAIN results = {}
        BY DEF Init, Empty
    <1>2. TypeOK
        BY <1>1 DEF Init, TypeOK
    <1> QED
        BY <1>2, HonestEmpty
        DEF Init, IndInv, InvResults, InvFolded, SilencedExactly, UnusedIsFree, DebtIsFound

LEMMA NextIndInv == IndInv /\ [Next]_vars => IndInv'
    <1> SUFFICES ASSUME IndInv, [Next]_vars PROVE IndInv'
        OBVIOUS
    <1>1. TypeOK' /\ Honest(store') /\ Honest(cache') /\ InvResults' /\ InvFolded'
        BY NextTypeOK, NextHonest, NextInvResults, NextInvFolded DEF IndInv
    <1>2. Promised'
        BY NextPromised DEF IndInv, Promised
    <1> QED
        BY <1>1, <1>2 DEF IndInv, Promised

LEMMA Inductive == Spec => []IndInv
    BY InitIndInv, NextIndInv, PTL DEF Spec

\* Cold, warm or narrowed, a run reports what its rules found in what it read and
\* no directive covers (apply_directives, covering_elsewhere, FileOutcome::cached).
THEOREM SilencedAsCalled == Spec => []SilencedExactly
    <1>1. IndInv => SilencedExactly
        BY DEF IndInv
    <1> QED
        BY <1>1, Inductive, PTL

\* Deleting whatever a run calls unused brings no violation up (unused_report).
THEOREM Free == Spec => []UnusedIsFree
    <1>1. IndInv => UnusedIsFree
        BY DEF IndInv
    <1> QED
        BY <1>1, Inductive, PTL

\* A whole run finds every directive that covers nothing (unused_violations).
THEOREM Debt == Spec => []DebtIsFound
    <1>1. IndInv => DebtIsFound
        BY DEF IndInv
    <1> QED
        BY <1>1, Inductive, PTL
=============================================================================
