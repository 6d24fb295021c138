--------------------------- MODULE BaselineProofs ---------------------------
(***************************************************************************)
(* What a baseline never does, for any run, any entries and any width of   *)
(* the counts.                                                             *)
(***************************************************************************)
EXTENDS Baseline, SequenceTheorems, FiniteSetTheorems, TLAPS

\* Sums stay in the width.
LEMMA PlusType ==
  ASSUME NEW a \in Counts, NEW b \in Counts
  PROVE  Plus(a, b) \in Counts
BY CountMaxIsPositive DEF Counts, Plus

LEMMA SequencesAreSeq ==
  ASSUME NEW S, NEW n \in Nat, NEW s \in Sequences(S, n)
  PROVE  s \in Seq(S)
<1>1. PICK k \in 0 .. n : s \in [1 .. k -> S]
  BY DEF Sequences
<1> QED  BY <1>1

\* Two sets of positions: those the walk has been past, and those before it.
Past == covered \cup new

\* The walk's own invariant: it has decided the positions up to `at`, hides nothing that
\* may not be recorded, and reports a violation only when its key is used up.
Walked ==
  /\ phase \in {"record", "load"} => Past = {} /\ stale = {}
  /\ phase = "walk" => Past = 1 .. at /\ stale = {}
  /\ phase = "done" => stale \subseteq Written(remaining)
  /\ \A i \in covered : Baselineable(found[i])
  /\ \A i \in new : Baselineable(found[i]) => remaining[found[i]] = 0
  /\ \A k \in Exempt : remaining[k] = 0

IInv == BaselineTypeOK /\ Walked /\ LaterCopyReported

LEMMA InitIInv == BaselineInit => IInv
<1> SUFFICES ASSUME BaselineInit PROVE IInv
  OBVIOUS
<1>1. found \in Seq(Keys)
  BY BoundsAreNat, SequencesAreSeq DEF BaselineInit
<1>2. entries \in Seq(Entry)
  BY BoundsAreNat, SequencesAreSeq, EmptySeq DEF BaselineInit
<1>3. Len(found) \in Nat /\ Len(entries) \in Nat
  BY <1>1, <1>2, LenProperties
<1>4. BaselineTypeOK
  <2>1. at \in 0 .. IF phase = "load" THEN Len(entries) ELSE Len(found)
    BY <1>3 DEF BaselineInit
  <2>2. remaining \in [Keys -> Counts]
    BY CountMaxIsPositive DEF BaselineInit, Counts
  <2> QED  BY <1>1, <1>2, <2>1, <2>2 DEF BaselineInit, BaselineTypeOK
<1>5. Walked /\ LaterCopyReported
  BY ExemptAreKeys DEF BaselineInit, Walked, Past, LaterCopyReported
<1> QED  BY <1>4, <1>5 DEF IInv

LEMMA RecordStep ==
  ASSUME IInv, Record
  PROVE  IInv'
<1>1. /\ phase = "record" /\ Len(found) \in Nat /\ at + 1 \in 1 .. Len(found)
      /\ found[at + 1] \in Keys /\ at' = at + 1
      /\ UNCHANGED <<mode, found, entries, phase, covered, new, stale>>
  <2>1. found \in Seq(Keys) /\ at \in 0 .. Len(found) /\ Len(found) \in Nat
    BY LenProperties DEF IInv, BaselineTypeOK, Record
  <2>2. at + 1 \in 1 .. Len(found)
    BY <2>1 DEF Record
  <2> QED  BY <2>1, <2>2, ElementOfSeq DEF Record
<1>2. /\ remaining' \in [Keys -> Counts]
      /\ \A k \in Exempt : remaining'[k] = 0
  <2>1. 1 \in Counts
    BY CountMaxIsPositive DEF Counts
  <2>2. \A k \in Keys : Plus(remaining[k], 1) \in Counts
    BY <2>1, PlusType DEF IInv, BaselineTypeOK
  <2> QED  BY <1>1, <2>2, ExemptAreKeys
           DEF IInv, BaselineTypeOK, Walked, Record, Accepting, Baselineable
<1>3. BaselineTypeOK'
  BY <1>1, <1>2 DEF IInv, BaselineTypeOK
<1>4. Walked' /\ LaterCopyReported'
  BY <1>1, <1>2 DEF IInv, Walked, Past, LaterCopyReported
<1> QED  BY <1>3, <1>4 DEF IInv

LEMMA LoadStep ==
  ASSUME IInv, Load
  PROVE  IInv'
<1>1. /\ phase = "load" /\ Len(entries) \in Nat /\ at + 1 \in 1 .. Len(entries)
      /\ entries[at + 1] \in Entry /\ at' = at + 1
      /\ UNCHANGED <<mode, found, entries, phase, covered, new, stale>>
  <2>1. entries \in Seq(Entry) /\ at \in 0 .. Len(entries) /\ Len(entries) \in Nat
    BY LenProperties DEF IInv, BaselineTypeOK, Load
  <2>2. at + 1 \in 1 .. Len(entries)
    BY <2>1 DEF Load
  <2> QED  BY <2>1, <2>2, ElementOfSeq DEF Load
<1>2. /\ remaining' \in [Keys -> Counts]
      /\ \A k \in Exempt : remaining'[k] = 0
  <2>1. entries[at + 1].key \in Keys /\ entries[at + 1].count \in Counts
    BY <1>1 DEF Entry
  <2>2. \A k \in Keys : Plus(remaining[k], entries[at + 1].count) \in Counts
    BY <2>1, PlusType DEF IInv, BaselineTypeOK
  <2> QED  BY <1>1, <2>1, <2>2, ExemptAreKeys
           DEF IInv, BaselineTypeOK, Walked, Load, Accepting, Baselineable
<1>3. BaselineTypeOK'
  BY <1>1, <1>2 DEF IInv, BaselineTypeOK
<1>4. Walked' /\ LaterCopyReported'
  BY <1>1, <1>2 DEF IInv, Walked, Past, LaterCopyReported
<1> QED  BY <1>3, <1>4 DEF IInv

LEMMA WalkStep ==
  ASSUME IInv, Walk
  PROVE  IInv'
<1> DEFINE i == at + 1
           k == found[i]
<1>1. /\ phase = "walk" /\ Len(found) \in Nat /\ i \in 1 .. Len(found) /\ k \in Keys
      /\ at \in Nat /\ Past = 1 .. at /\ at' = i
      /\ UNCHANGED <<mode, found, entries, phase, stale>>
  <2>1. found \in Seq(Keys) /\ at \in 0 .. Len(found) /\ Len(found) \in Nat
    BY LenProperties DEF IInv, BaselineTypeOK, Walk
  <2>2. i \in 1 .. Len(found)
    BY <2>1 DEF Walk
  <2> QED  BY <2>1, <2>2, ElementOfSeq DEF IInv, Walked, Walk
<1>2. \A j \in Past : j \in 1 .. at /\ j < i
  BY <1>1
<1>3. 1 .. i = 1 .. at \cup {i}
  BY <1>1
<1>4. remaining[k] \in Counts /\ Counts \subseteq Nat
  BY <1>1 DEF IInv, BaselineTypeOK, Counts
<1> HIDE DEF i
<1>5. \/ /\ IsCovered(k, remaining[k])
         /\ remaining' = [remaining EXCEPT ![k] = @ - 1]
         /\ covered' = covered \cup {i} /\ new' = new
      \/ /\ ~IsCovered(k, remaining[k])
         /\ new' = new \cup {i} /\ covered' = covered /\ remaining' = remaining
  BY DEF Walk, InTurn, i
<1>6. CASE /\ IsCovered(k, remaining[k])
           /\ remaining' = [remaining EXCEPT ![k] = @ - 1]
           /\ covered' = covered \cup {i} /\ new' = new
  <2>1. Baselineable(k) /\ remaining[k] > 0
    BY <1>6 DEF IsCovered
  <2>2. remaining[k] - 1 \in Counts
    BY <1>4, <2>1, CountMaxIsPositive DEF Counts
  <2>3. remaining' \in [Keys -> Counts] /\ covered' \subseteq 1 .. Len(found)
    BY <1>1, <1>6, <2>2 DEF IInv, BaselineTypeOK
  <2>4. BaselineTypeOK'
    BY <1>1, <1>6, <2>3 DEF IInv, BaselineTypeOK
  <2>5. \A j \in new : found[j] # k
    BY <1>4, <2>1 DEF IInv, Walked
  <2>6. \A j \in new : Baselineable(found[j]) => remaining'[found[j]] = 0
    <3>1. \A j \in new : found[j] \in Keys
      BY ElementOfSeq DEF IInv, BaselineTypeOK
    <3> QED  BY <1>6, <2>5, <3>1 DEF IInv, Walked, BaselineTypeOK
  <2>7. \A e \in Exempt : remaining'[e] = 0
    BY <1>6, <2>1, ExemptAreKeys DEF IInv, Walked, BaselineTypeOK, Baselineable
  <2>8. Past' = 1 .. at'
    BY <1>1, <1>3, <1>6 DEF Past
  <2>9. Walked'
    BY <1>1, <1>6, <2>1, <2>6, <2>7, <2>8 DEF IInv, Walked
  <2>10. LaterCopyReported'
    BY <1>1, <1>6, <2>5 DEF IInv, LaterCopyReported
  <2> QED  BY <2>4, <2>9, <2>10 DEF IInv
<1>7. CASE /\ ~IsCovered(k, remaining[k])
           /\ new' = new \cup {i} /\ covered' = covered /\ remaining' = remaining
  <2>1. Baselineable(k) => remaining[k] = 0
    <3>1. remaining[k] \in Nat
      BY <1>4
    <3>2. remaining[k] > 0 \/ remaining[k] = 0
      BY <3>1
    <3> QED  BY <1>7, <3>2 DEF IsCovered
  <2>2. BaselineTypeOK'
    BY <1>1, <1>7 DEF IInv, BaselineTypeOK
  <2>3. Past' = 1 .. at'
    BY <1>1, <1>3, <1>7 DEF Past
  <2>4. Walked'
    BY <1>1, <1>7, <2>1, <2>3 DEF IInv, Walked
  <2>5. LaterCopyReported'
    BY <1>1, <1>2, <1>7 DEF IInv, LaterCopyReported, Past
  <2> QED  BY <2>2, <2>4, <2>5 DEF IInv
<1> QED  BY <1>5, <1>6, <1>7

LEMMA Inductive == BaselineSpec => []IInv
<1>1. IInv /\ [BaselineNext]_baselineVars => IInv'
  <2> SUFFICES ASSUME IInv, [BaselineNext]_baselineVars PROVE IInv'
    OBVIOUS
  <2>1. CASE StartWalk
    <3>1. Len(found) \in Nat
      BY LenProperties DEF IInv, BaselineTypeOK
    <3>2. at' \in 0 .. Len(found) /\ phase' = "walk" /\ at' = 0
          /\ UNCHANGED <<mode, found, entries, remaining, covered, new, stale>>
      BY <2>1, <3>1 DEF StartWalk
    <3>3. Past = {} /\ stale = {}
      BY <2>1 DEF IInv, Walked, StartWalk
    <3>4. BaselineTypeOK'
      BY <3>2 DEF IInv, BaselineTypeOK
    <3>5. Walked' /\ LaterCopyReported'
      BY <3>2, <3>3 DEF IInv, Walked, Past, LaterCopyReported
    <3> QED  BY <3>4, <3>5 DEF IInv
  <2>2. CASE Settle
    <3>1. BaselineTypeOK'
      BY <2>2 DEF Settle, IInv, BaselineTypeOK, Written
    <3>2. Walked' /\ LaterCopyReported'
      BY <2>2 DEF Settle, IInv, Walked, Past, LaterCopyReported, Written
    <3> QED  BY <3>1, <3>2 DEF IInv
  <2>3. CASE UNCHANGED baselineVars
    BY <2>3 DEF baselineVars, IInv, BaselineTypeOK, Walked, Past, LaterCopyReported, Written
  <2> QED  BY <2>1, <2>2, <2>3, RecordStep, LoadStep, WalkStep DEF BaselineNext
<1> QED  BY InitIInv, <1>1, PTL DEF BaselineSpec

\* BaselineTypeOK holds of every behaviour; in particular no count leaves its width.
THEOREM TypeCorrect == BaselineSpec => []BaselineTypeOK
BY Inductive, PTL DEF IInv

\* Of several copies of a recorded line the later ones are reported.
THEOREM LaterCopies == BaselineSpec => []LaterCopyReported
BY Inductive, PTL DEF IInv

\* A key with a reported violation is never called stale.
THEOREM StaleIsNotNew == BaselineSpec => []NewNeverStale
<1>1. IInv => NewNeverStale
  <2> SUFFICES ASSUME IInv, NEW i \in new, NEW e \in stale, e.key = found[i]
               PROVE  FALSE
    BY DEF NewNeverStale
  <2>1. e \in Written(remaining)
    BY DEF IInv, Walked, BaselineTypeOK
  <2>2. remaining[found[i]] > 0
    BY <2>1 DEF Written
  <2>3. found[i] \in Keys
    BY ElementOfSeq DEF IInv, BaselineTypeOK
  <2> QED  BY <2>2, <2>3 DEF IInv, Walked, Baselineable
<1> QED  BY <1>1, Inductive, PTL
-----------------------------------------------------------------------------
(***************************************************************************)
(* Counting.  What is taken in is the sum of what was met, cut off at the  *)
(* width; what is hidden and what is left then always make up that sum.    *)
(***************************************************************************)
Counted ==
  /\ phase = "record" =>
       /\ mode = "write"
       /\ \A k \in Keys \ Exempt :
            remaining[k] = Least(CountMax, Cardinality(Of(k, 1 .. at)))
  /\ phase = "load" =>
       /\ mode = "compare"
       /\ \A k \in Keys \ Exempt :
            remaining[k] = Least(CountMax, Cardinality(Taken(k, at)))
  /\ phase \in {"walk", "done"} =>
       \A k \in Keys : Hidden(k) + remaining[k] = Accepted(k)
  /\ phase = "done" =>
       /\ Past = 1 .. Len(found)
       /\ stale = { e \in Written(remaining) : Covers(e.key) }

\* One more position adds itself, and no other, to its key.
LEMMA OfSteps ==
  ASSUME NEW P, IsFiniteSet(P), NEW i, i \notin P, NEW k
  PROVE  /\ IsFiniteSet(Of(k, P)) /\ Cardinality(Of(k, P)) \in Nat
         /\ Cardinality(Of(k, P \cup {i})) =
              Cardinality(Of(k, P)) + IF found[i] = k THEN 1 ELSE 0
<1>1. Of(k, P) \in SUBSET P
  BY DEF Of
<1>2. IsFiniteSet(Of(k, P)) /\ Cardinality(Of(k, P)) \in Nat
  BY <1>1, FS_Subset, FS_CardinalityType
<1>3. CASE found[i] = k
  <2>1. Of(k, P \cup {i}) = Of(k, P) \cup {i} /\ i \notin Of(k, P)
    BY <1>3 DEF Of
  <2> QED  BY <1>2, <1>3, <2>1, FS_AddElement
<1>4. CASE found[i] # k
  <2>1. Of(k, P \cup {i}) = Of(k, P)
    BY <1>4 DEF Of
  <2> QED  BY <1>2, <1>4, <2>1
<1> QED  BY <1>2, <1>3, <1>4

LEMMA UpTo ==
  ASSUME NEW c \in Nat
  PROVE  IsFiniteSet(1 .. c) /\ Cardinality(1 .. c) = c
<1>1. IsFiniteSet(1 .. c) /\ Cardinality(1 .. c) = IF 1 > c THEN 0 ELSE c - 1 + 1
  BY FS_Interval
<1> QED  BY <1>1

\* One more entry adds its count to its key, and nothing to another.
LEMMA TakenSteps ==
  ASSUME entries \in Seq(Entry), NEW n \in Nat, n < Len(entries), NEW k
  PROVE  /\ IsFiniteSet(Taken(k, n)) /\ Cardinality(Taken(k, n)) \in Nat
         /\ Cardinality(Taken(k, n + 1)) =
              Cardinality(Taken(k, n))
                + IF entries[n + 1].key = k THEN entries[n + 1].count ELSE 0
<1> DEFINE e == entries[n + 1]
           more == {n + 1} \X (1 .. e.count)
<1>1. IsFiniteSet(1 .. n) /\ IsFiniteSet(1 .. CountMax)
  BY CountMaxIsPositive, FS_Interval
<1>2. IsFiniteSet((1 .. n) \X (1 .. CountMax))
  BY <1>1, FS_Product
<1>3. Taken(k, n) \in SUBSET ((1 .. n) \X (1 .. CountMax))
  BY DEF Taken
<1>4. IsFiniteSet(Taken(k, n)) /\ Cardinality(Taken(k, n)) \in Nat
  BY <1>2, <1>3, FS_Subset, FS_CardinalityType
<1>5. e \in Entry /\ e.count \in Nat /\ e.count <= CountMax
  <2>1. Len(entries) \in Nat
    BY LenProperties
  <2>2. n + 1 \in 1 .. Len(entries)
    BY <2>1
  <2>3. e \in Entry
    BY <2>2, ElementOfSeq
  <2> QED  BY <2>3, CountMaxIsPositive DEF Entry, Counts
<1> HIDE DEF e
<1>6. CASE e.key = k
  <2>1. Taken(k, n + 1) = Taken(k, n) \cup more
    <3>1. ASSUME NEW i \in 1 .. n + 1, NEW c \in 1 .. CountMax
          PROVE  <<i, c>> \in Taken(k, n + 1) <=> <<i, c>> \in Taken(k, n) \cup more
      <4>1. CASE i = n + 1
        BY <1>5, <1>6, <4>1 DEF Taken, e
      <4>2. CASE i \in 1 .. n
        BY <4>2 DEF Taken
      <4> QED  BY <4>1, <4>2
    <3>2. more \subseteq (1 .. n + 1) \X (1 .. CountMax)
      BY <1>5, CountMaxIsPositive
    <3>3. Taken(k, n) \subseteq (1 .. n + 1) \X (1 .. CountMax)
      BY <1>3
    <3>4. Taken(k, n + 1) \subseteq (1 .. n + 1) \X (1 .. CountMax)
      BY DEF Taken
    <3> HIDE DEF more
    <3>5. \A v \in (1 .. n + 1) \X (1 .. CountMax) :
            v \in Taken(k, n + 1) <=> v \in Taken(k, n) \cup more
      BY <3>1
    <3> QED  BY <3>2, <3>3, <3>4, <3>5
  <2>2. Taken(k, n) \cap more = {}
    BY DEF Taken
  <2>3. IsFiniteSet(more) /\ Cardinality(more) = e.count
    <3>1. IsFiniteSet({n + 1}) /\ Cardinality({n + 1}) = 1
      BY FS_Singleton
    <3>2. IsFiniteSet(1 .. e.count) /\ Cardinality(1 .. e.count) = e.count
      BY <1>5, UpTo
    <3>3. /\ IsFiniteSet({n + 1} \X (1 .. e.count))
          /\ Cardinality({n + 1} \X (1 .. e.count))
               = Cardinality({n + 1}) * Cardinality(1 .. e.count)
      BY <3>1, <3>2, FS_Product
    <3> QED  BY <1>5, <3>1, <3>2, <3>3
  <2> HIDE DEF more
  <2>4. Cardinality(Taken(k, n) \cup more)
          = Cardinality(Taken(k, n)) + Cardinality(more) - Cardinality(Taken(k, n) \cap more)
    BY <1>4, <2>3, FS_Union
  <2>5. Cardinality(Taken(k, n) \cap more) = 0
    BY <2>2, FS_EmptySet
  <2>6. Cardinality(Taken(k, n + 1)) = Cardinality(Taken(k, n)) + e.count
    <3>1. Cardinality(Taken(k, n + 1)) = Cardinality(Taken(k, n) \cup more)
      BY <2>1
    <3>2. Cardinality(Taken(k, n + 1)) = Cardinality(Taken(k, n)) + e.count - 0
      BY <2>3, <2>4, <2>5, <3>1
    <3> QED  BY <1>4, <1>5, <3>2
  <2> QED  BY <1>4, <1>6, <2>6 DEF e
<1>7. CASE e.key # k
  <2>1. Taken(k, n + 1) = Taken(k, n)
    <3>1. ASSUME NEW i \in 1 .. n + 1, NEW c \in 1 .. CountMax
          PROVE  <<i, c>> \in Taken(k, n + 1) <=> <<i, c>> \in Taken(k, n)
      BY <1>7 DEF Taken, e
    <3>2. Taken(k, n) \subseteq (1 .. n + 1) \X (1 .. CountMax)
      BY <1>3
    <3>3. Taken(k, n + 1) \subseteq (1 .. n + 1) \X (1 .. CountMax)
      BY DEF Taken
    <3>4. \A v \in (1 .. n + 1) \X (1 .. CountMax) :
            v \in Taken(k, n + 1) <=> v \in Taken(k, n)
      BY <3>1
    <3> QED  BY <3>2, <3>3, <3>4
  <2> QED  BY <1>4, <1>7, <2>1 DEF e
<1> QED  BY <1>4, <1>6, <1>7

\* Adding up and cutting off may take turns.
LEMMA PlusLeast ==
  ASSUME NEW a \in Nat, NEW b \in Nat
  PROVE  Plus(Least(CountMax, a), b) = Least(CountMax, a + b)
BY CountMaxIsPositive DEF Plus, Least

LEMMA CountedRecord ==
  ASSUME IInv, Counted, Record
  PROVE  Counted'
<1>1. /\ phase = "record" /\ at \in Nat /\ at' = at + 1
      /\ UNCHANGED <<mode, found, phase>>
  BY LenProperties DEF Record, IInv, BaselineTypeOK
<1>2. at + 1 \notin 1 .. at /\ 1 .. at + 1 = (1 .. at) \cup {at + 1}
  BY <1>1
<1>a. IsFiniteSet(1 .. at)
  BY <1>1, FS_Interval
<1>3. ASSUME NEW k \in Keys \ Exempt
      PROVE  remaining'[k] = Least(CountMax, Cardinality(Of(k, 1 .. at + 1)))
  <2>1. /\ Cardinality(Of(k, 1 .. at)) \in Nat
        /\ Cardinality(Of(k, 1 .. at + 1)) =
             Cardinality(Of(k, 1 .. at)) + IF found[at + 1] = k THEN 1 ELSE 0
    <3>1. /\ Cardinality(Of(k, 1 .. at)) \in Nat
          /\ Cardinality(Of(k, (1 .. at) \cup {at + 1})) =
               Cardinality(Of(k, 1 .. at)) + IF found[at + 1] = k THEN 1 ELSE 0
      BY <1>2, <1>a, OfSteps
    <3> QED  BY <1>2, <3>1
  <2>2. remaining[k] = Least(CountMax, Cardinality(Of(k, 1 .. at)))
    BY <1>1 DEF Counted
  <2>3. CASE found[at + 1] = k
    <3>1. remaining' = [remaining EXCEPT ![k] = Plus(@, 1)]
      BY <2>3 DEF Record, Accepting, Baselineable
    <3>2. remaining'[k] = Plus(remaining[k], 1)
      BY <3>1 DEF IInv, BaselineTypeOK
    <3> QED  BY <2>1, <2>2, <2>3, <3>2, PlusLeast
  <2>4. CASE found[at + 1] # k
    <3>1. remaining'[k] = remaining[k]
      BY <2>4 DEF Record, Accepting, IInv, BaselineTypeOK
    <3> QED  BY <2>1, <2>2, <2>4, <3>1
  <2> QED  BY <2>3, <2>4
<1>4. \A k : Of(k, 1 .. at + 1) = Of(k, 1 .. at)'
  BY <1>1 DEF Of
<1> QED  BY <1>1, <1>3, <1>4 DEF Counted

LEMMA CountedLoad ==
  ASSUME IInv, Counted, Load
  PROVE  Counted'
<1>1. /\ phase = "load" /\ at \in Nat /\ at < Len(entries) /\ at' = at + 1
      /\ entries \in Seq(Entry) /\ entries[at + 1] \in Entry
      /\ UNCHANGED <<mode, entries, phase>>
  <2>1. entries \in Seq(Entry) /\ at \in 0 .. Len(entries) /\ Len(entries) \in Nat
    BY LenProperties DEF IInv, BaselineTypeOK, Load
  <2>2. at + 1 \in 1 .. Len(entries)
    BY <2>1 DEF Load
  <2> QED  BY <2>1, <2>2, ElementOfSeq DEF Load
<1>2. ASSUME NEW k \in Keys \ Exempt
      PROVE  remaining'[k] = Least(CountMax, Cardinality(Taken(k, at + 1)))
  <2> DEFINE e == entries[at + 1]
  <2>1. /\ Cardinality(Taken(k, at)) \in Nat
        /\ Cardinality(Taken(k, at + 1)) =
             Cardinality(Taken(k, at)) + IF e.key = k THEN e.count ELSE 0
    BY <1>1, TakenSteps
  <2>2. remaining[k] = Least(CountMax, Cardinality(Taken(k, at)))
    BY <1>1 DEF Counted
  <2>3. e.count \in Nat
    BY <1>1 DEF Entry, Counts
  <2>4. remaining' = IF Baselineable(e.key) THEN Accepting(e.key, e.count) ELSE remaining
    BY DEF Load
  <2> HIDE DEF e
  <2>5. CASE e.key = k
    <3>1. remaining' = [remaining EXCEPT ![k] = Plus(@, e.count)]
      BY <2>4, <2>5 DEF Accepting, Baselineable
    <3>2. remaining'[k] = Plus(remaining[k], e.count)
      BY <3>1 DEF IInv, BaselineTypeOK
    <3> QED  BY <2>1, <2>2, <2>3, <2>5, <3>2, PlusLeast
  <2>6. CASE e.key # k
    <3>1. remaining'[k] = remaining[k]
      BY <2>4, <2>6 DEF Accepting, IInv, BaselineTypeOK
    <3> QED  BY <2>1, <2>2, <2>6, <3>1
  <2> QED  BY <2>5, <2>6
<1>3. \A k : Taken(k, at + 1) = Taken(k, at)'
  BY <1>1 DEF Taken
<1> QED  BY <1>1, <1>2, <1>3 DEF Counted

LEMMA CountedWalk ==
  ASSUME IInv, Counted, Walk
  PROVE  Counted'
<1> DEFINE i == at + 1
           j == found[i]
<1>1. /\ phase = "walk" /\ i \notin covered /\ IsFiniteSet(covered) /\ j \in Keys
      /\ UNCHANGED <<mode, found, entries, phase>>
  <2>1. found \in Seq(Keys) /\ at \in 0 .. Len(found) /\ Len(found) \in Nat
    BY LenProperties DEF IInv, BaselineTypeOK, Walk
  <2>2. i \in 1 .. Len(found) /\ i \notin 1 .. at
    BY <2>1 DEF Walk
  <2>3. covered \in SUBSET (1 .. at) /\ IsFiniteSet(1 .. at)
    BY <2>1, FS_Interval DEF IInv, Walked, Past, Walk
  <2> QED  BY <2>1, <2>2, <2>3, ElementOfSeq, FS_Subset DEF Walk
<1>2. \A k \in Keys : Accepted(k)' = Accepted(k)
  BY <1>1 DEF Accepted, Found, Of, Summed, Taken
<1>3. \/ /\ IsCovered(j, remaining[j]) /\ covered' = covered \cup {i}
         /\ remaining' = [remaining EXCEPT ![j] = @ - 1]
      \/ UNCHANGED <<covered, remaining>>
  BY DEF Walk, InTurn
<1> HIDE DEF j
<1>4. ASSUME NEW k \in Keys PROVE Hidden(k)' + remaining'[k] = Accepted(k)
  <2>1. /\ Hidden(k) + remaining[k] = Accepted(k)
        /\ remaining[k] \in Nat /\ Hidden(k) \in Nat
        /\ Cardinality(Of(k, covered \cup {i})) = Hidden(k) + IF j = k THEN 1 ELSE 0
    BY <1>1, OfSteps DEF Counted, Hidden, IInv, BaselineTypeOK, Counts, j
  <2>2. Hidden(k)' = Cardinality(Of(k, covered'))
    BY <1>1 DEF Hidden, Of
  <2>3. CASE UNCHANGED <<covered, remaining>>
    BY <2>1, <2>2, <2>3 DEF Hidden
  <2>4. CASE /\ covered' = covered \cup {i}
             /\ remaining' = [remaining EXCEPT ![j] = @ - 1]
    <3>1. remaining'[k] = remaining[k] - IF j = k THEN 1 ELSE 0
      BY <2>1, <2>4 DEF IInv, BaselineTypeOK
    <3> HIDE DEF i
    <3> QED  BY <2>1, <2>2, <2>4, <3>1
  <2> QED  BY <1>3, <2>3, <2>4
<1> QED  BY <1>1, <1>2, <1>4 DEF Counted

LEMMA CountedStart ==
  ASSUME IInv, Counted, StartWalk
  PROVE  Counted'
<1>1. /\ phase' = "walk" /\ covered = {}
      /\ UNCHANGED <<mode, found, entries, remaining, covered>>
  BY DEF StartWalk, IInv, Walked, Past
<1>2. ASSUME NEW k \in Keys
      PROVE  Hidden(k) = 0 /\ remaining[k] \in Nat /\ remaining[k] = Accepted(k)
  <2>1. Of(k, covered) = {}
    BY <1>1 DEF Of
  <2>2. remaining[k] = Accepted(k)
    <3>1. CASE k \in Exempt
      BY <3>1 DEF Accepted, Baselineable, IInv, Walked
    <3>2. CASE k \notin Exempt
      BY <3>2 DEF StartWalk, Counted, Accepted, Baselineable, Found, Summed
    <3> QED  BY <3>1, <3>2
  <2> QED  BY <2>1, <2>2, FS_EmptySet DEF Hidden, IInv, BaselineTypeOK, Counts
<1>3. ASSUME NEW k \in Keys
      PROVE  Hidden(k)' = Hidden(k) /\ Accepted(k)' = Accepted(k)
  BY <1>1 DEF Hidden, Of, Accepted, Found, Summed, Taken
<1> QED  BY <1>1, <1>2, <1>3 DEF Counted

LEMMA CountedSettle ==
  ASSUME IInv, Counted, Settle
  PROVE  Counted'
<1>1. /\ phase = "walk" /\ at = Len(found) /\ phase' = "done"
      /\ stale' = { e \in Written(remaining) : Covers(e.key) }
      /\ UNCHANGED <<mode, found, entries, remaining, covered, new>>
  BY DEF Settle
<1>2. Past' = 1 .. Len(found)
  BY <1>1 DEF IInv, Walked, Past
<1>3. ASSUME NEW k \in Keys
      PROVE  Hidden(k)' = Hidden(k) /\ Accepted(k)' = Accepted(k)
  BY <1>1 DEF Hidden, Of, Accepted, Found, Summed, Taken
<1>4. stale' = { e \in Written(remaining)' : Covers(e.key) }
  BY <1>1 DEF Written
<1> QED  BY <1>1, <1>2, <1>3, <1>4 DEF Counted

LEMMA CountingAlways == BaselineSpec => [](IInv /\ Counted)
<1>1. BaselineInit => Counted
  <2> SUFFICES ASSUME BaselineInit PROVE Counted
    OBVIOUS
  <2>1. \A k : Of(k, 1 .. 0) = {} /\ Taken(k, 0) = {}
    BY DEF Of, Taken
  <2>2. Cardinality({}) = 0 /\ Least(CountMax, 0) = 0
    BY FS_EmptySet, CountMaxIsPositive DEF Least
  <2> QED  BY <2>1, <2>2 DEF BaselineInit, Counted
<1>2. IInv /\ Counted /\ [BaselineNext]_baselineVars => Counted'
  <2>1. ASSUME Counted, UNCHANGED baselineVars PROVE Counted'
    <3>1. \A k, P : Of(k, P)' = Of(k, P') /\ \A n : Taken(k, n)' = Taken(k, n')
      BY <2>1 DEF baselineVars, Of, Taken
    <3>2. \A k \in Keys : Hidden(k)' = Hidden(k) /\ Accepted(k)' = Accepted(k)
      BY <2>1 DEF baselineVars, Hidden, Accepted, Found, Summed, Of, Taken
    <3>3. Written(remaining)' = Written(remaining)
      BY <2>1 DEF baselineVars, Written
    <3> QED  BY <2>1, <3>2, <3>3 DEF baselineVars, Counted, Of, Taken, Past
  <2> QED  BY <2>1, CountedRecord, CountedLoad, CountedStart, CountedWalk, CountedSettle
           DEF BaselineNext
<1> QED  BY <1>1, <1>2, Inductive, PTL DEF BaselineSpec

\* Once the walk is over: the hidden and the reported violations of a key are all there
\* are, and what is left of its count says that none was reported.
LEMMA WalkOver ==
  ASSUME IInv, Counted, phase = "done", NEW k \in Keys
  PROVE  /\ Found(k) \in Nat /\ Hidden(k) \in Nat /\ Cardinality(Of(k, new)) \in Nat
         /\ remaining[k] \in Nat
         /\ Hidden(k) + Cardinality(Of(k, new)) = Found(k)
         /\ Hidden(k) + remaining[k] = Accepted(k)
         /\ remaining[k] > 0 => Cardinality(Of(k, new)) = 0
<1>1. IsFiniteSet(1 .. Len(found)) /\ covered \cup new = 1 .. Len(found)
  <2>1. Len(found) \in Nat
    BY LenProperties DEF IInv, BaselineTypeOK
  <2> QED  BY <2>1, FS_Interval DEF Counted, Past
<1>2. /\ Of(k, covered) \in SUBSET (1 .. Len(found))
      /\ Of(k, new) \in SUBSET (1 .. Len(found))
      /\ Of(k, covered) \cup Of(k, new) = Of(k, 1 .. Len(found))
  BY <1>1 DEF Of
<1>3. Of(k, covered) \cap Of(k, new) = {}
  <2>1. \A i \in covered \cap new : i < i /\ i \in Nat
    BY DEF IInv, BaselineTypeOK, LaterCopyReported
  <2> QED  BY <2>1 DEF Of
<1>4. /\ IsFiniteSet(Of(k, covered)) /\ Cardinality(Of(k, covered)) \in Nat
      /\ IsFiniteSet(Of(k, new)) /\ Cardinality(Of(k, new)) \in Nat
  BY <1>1, <1>2, FS_Subset, FS_CardinalityType
<1>5. Cardinality(Of(k, 1 .. Len(found))) =
        Cardinality(Of(k, covered)) + Cardinality(Of(k, new)) - 0
  BY <1>2, <1>3, <1>4, FS_Union, FS_EmptySet
<1>6. remaining[k] \in Nat /\ Hidden(k) + remaining[k] = Accepted(k)
  BY DEF Counted, IInv, BaselineTypeOK, Counts
<1>7. remaining[k] > 0 => Of(k, new) = {}
  BY <1>6 DEF IInv, Walked, Of, Baselineable
<1> QED  BY <1>4, <1>5, <1>6, <1>7, FS_EmptySet DEF Found, Hidden

LEMMA ExactlyAtEnd ==
  ASSUME IInv, Counted
  PROVE  ExactlyAccepted
<1> SUFFICES ASSUME phase = "done", NEW k \in Keys
             PROVE  /\ Hidden(k) = Least(Found(k), Accepted(k))
                    /\ Hidden(k) + Cardinality(Of(k, new)) = Found(k)
  BY DEF ExactlyAccepted
<1> QED  BY WalkOver DEF Least

LEMMA StaleAtEnd ==
  ASSUME IInv, Counted
  PROVE  StaleExactly
<1> SUFFICES ASSUME phase = "done", NEW e \in Entry
             PROVE  e \in stale <=> /\ e.key \notin Unseen /\ e.count > 0
                                    /\ Accepted(e.key) = Found(e.key) + e.count
  BY DEF StaleExactly, IInv, BaselineTypeOK
<1>1. e.key \in Keys /\ e.count \in Nat
  BY DEF Entry, Counts
<1>2. e \in stale <=> e.key \notin Unseen /\ e.count > 0 /\ e.count = remaining[e.key]
  BY DEF Counted, Written, Covers
<1>3. e.count > 0 => (e.count = remaining[e.key]
                        <=> Accepted(e.key) = Found(e.key) + e.count)
  BY <1>1, WalkOver
<1> QED  BY <1>2, <1>3

\* Of every key exactly as many violations are hidden as the baseline accepts, for any
\* run, any entries, duplicated or not, and any width of the counts.
THEOREM Exactness == BaselineSpec => []ExactlyAccepted
BY CountingAlways, ExactlyAtEnd, PTL

\* What is called stale is exactly what the baseline accepts beyond what the run found,
\* of the keys its scope covers.
THEOREM StaleIsSurplus == BaselineSpec => []StaleExactly
BY CountingAlways, StaleAtEnd, PTL

\* Whatever a run found, adopting it as a baseline leaves nothing to report but what may
\* not be recorded, and nothing stale, while no count reaches its width.
THEOREM AdoptionIsClean == BaselineSpec => []AdoptionClean
<1>1. IInv /\ Counted => AdoptionClean
  <2> SUFFICES ASSUME IInv, Counted, mode = "write", phase = "done",
                      \A k \in Keys : Found(k) <= CountMax
               PROVE  (\A i \in new : found[i] \in Exempt) /\ stale = {}
    BY DEF AdoptionClean
  <2>1. ASSUME NEW k \in Keys \ Exempt PROVE Accepted(k) = Found(k)
    BY WalkOver, CountMaxIsPositive DEF Accepted, Baselineable, Least
  <2>2. ASSUME NEW k \in Keys \ Exempt PROVE Of(k, new) = {} /\ remaining[k] = 0
    <3>1. IsFiniteSet(Of(k, new))
      <4>1. Len(found) \in Nat /\ new \in SUBSET (1 .. Len(found))
        BY LenProperties DEF IInv, BaselineTypeOK
      <4>2. Of(k, new) \in SUBSET (1 .. Len(found))
        BY <4>1 DEF Of
      <4>3. IsFiniteSet(1 .. Len(found))
        BY <4>1, FS_Interval
      <4> QED  BY <4>2, <4>3, FS_Subset
    <3>2. Cardinality(Of(k, new)) = 0 /\ remaining[k] = 0
      BY <2>1, WalkOver
    <3> QED  BY <3>1, <3>2, FS_EmptySet
  <2>3. \A i \in new : found[i] \in Exempt
    <3>1. \A i \in new : found[i] \in Keys
      BY ElementOfSeq DEF IInv, BaselineTypeOK
    <3> QED  BY <2>2, <3>1 DEF Of
  <2>4. \A k \in Keys : remaining[k] = 0
    BY <2>2 DEF IInv, Walked
  <2>5. stale = {}
    BY <2>4 DEF Counted, Written, Entry
  <2> QED  BY <2>3, <2>5
<1> QED  BY <1>1, CountingAlways, PTL
=============================================================================
