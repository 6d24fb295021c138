--------------------------- MODULE FixApplyProofs ---------------------------
(***************************************************************************)
(* What `apply` guarantees for every text and any number of fixes.         *)
(***************************************************************************)
EXTENDS FixApply, SequenceTheorems, FiniteSetTheorems, TLAPS

\* A fix's offsets are numbers and its replacement is text.
LEMMA FixFacts ==
  ASSUME TypeOK, NEW i \in DOMAIN fixes
  PROVE  /\ fixes[i].start \in Nat /\ fixes[i].end \in Nat
         /\ fixes[i].replacement \in Text /\ fixes[i] \in FixType
<1>1. PICK n \in 0 .. MaxFixes : fixes \in [1 .. n -> FixType]
  BY DEF TypeOK
<1>2. fixes[i] \in FixType
  BY <1>1
<1> QED  BY <1>2 DEF FixType

\* Indices are numbers, and there are finitely many.
LEMMA Indices ==
  ASSUME TypeOK
  PROVE  DOMAIN fixes \subseteq Nat /\ IsFiniteSet(DOMAIN fixes)
<1>1. PICK n \in 0 .. MaxFixes : fixes \in [1 .. n -> FixType]
  BY DEF TypeOK
<1>2. DOMAIN fixes = 1 .. n /\ n \in Int
  BY <1>1, MaxFixesIsNat
<1> QED  BY <1>2, FS_Interval

\* What `replace_range` leaves of a text: everything before the range.
LEMMA ReplacedPrefix ==
  ASSUME NEW text \in Text, NEW f \in FixType, Fits(f, Len(text))
  PROVE  /\ Replaced(text, f) \in Text
         /\ f.start <= Len(Replaced(text, f))
         /\ \A at \in 1 .. f.start : Replaced(text, f)[at] = text[at]
<1> DEFINE head == SubSeq(text, 1, f.start)
           tail == SubSeq(text, f.end + 1, Len(text))
           mid  == f.replacement
<1>1. /\ f.start \in Nat /\ f.end \in Nat /\ mid \in Seq(Bytes)
      /\ Len(text) \in Nat /\ f.start <= Len(text)
      /\ \A i \in 1 .. Len(text) : text[i] \in Bytes
  BY LenProperties, ElementOfSeq DEF FixType, Text, Fits
<1>2. /\ head \in Seq(Bytes) /\ Len(head) = f.start
      /\ \A i \in 1 .. f.start : head[i] = text[i]
  <2>1. /\ head \in Seq(Bytes)
        /\ Len(head) = IF 1 <= f.start THEN f.start - 1 + 1 ELSE 0
        /\ \A i \in 1 .. f.start - 1 + 1 : head[i] = text[1 + i - 1]
    <3>1. \A i \in 1 .. f.start : text[i] \in Bytes
      BY <1>1
    <3>2. 1 \in Int /\ f.start \in Int
      BY <1>1
    <3> QED  BY <3>1, <3>2, SubSeqProperties
  <2> QED  BY <1>1, <2>1
<1>3. tail \in Seq(Bytes)
  <2>1. \A i \in f.end + 1 .. Len(text) : text[i] \in Bytes
    BY <1>1
  <2>2. f.end + 1 \in Int /\ Len(text) \in Int
    BY <1>1
  <2> QED  BY <2>1, <2>2, SubSeqProperties
<1>4. /\ head \o mid \in Seq(Bytes) /\ Len(head \o mid) = f.start + Len(mid)
      /\ Len(mid) \in Nat
      /\ \A i \in 1 .. f.start : (head \o mid)[i] = text[i]
  <2> HIDE DEF head, mid
  <2>1. /\ head \o mid \in Seq(Bytes) /\ Len(head \o mid) = Len(head) + Len(mid)
        /\ \A i \in 1 .. Len(head) + Len(mid) :
             (head \o mid)[i] = IF i <= Len(head) THEN head[i] ELSE mid[i - Len(head)]
    BY <1>1, <1>2, ConcatProperties
  <2>2. Len(mid) \in Nat
    BY <1>1, LenProperties
  <2> QED  BY <1>1, <1>2, <2>1, <2>2
<1> DEFINE front == head \o mid
<1>5. /\ front \o tail \in Seq(Bytes)
      /\ Len(front \o tail) = Len(front) + Len(tail)
      /\ Len(tail) \in Nat
      /\ \A i \in 1 .. Len(front) + Len(tail) :
           (front \o tail)[i] = IF i <= Len(front) THEN front[i]
                                ELSE tail[i - Len(front)]
  <2>1. front \in Seq(Bytes)
    BY <1>4
  <2> HIDE DEF front, tail
  <2> QED  BY <1>3, <2>1, ConcatProperties, LenProperties
<1>6. Replaced(text, f) = front \o tail
  BY DEF Replaced
<1>7. \A at \in 1 .. f.start : (front \o tail)[at] = text[at]
  <2> HIDE DEF front, tail
  <2>1. Len(front) = f.start + Len(mid) /\ \A i \in 1 .. f.start : front[i] = text[i]
    BY <1>4 DEF front
  <2> QED  BY <1>1, <1>4, <1>5, <2>1
<1>8. f.start <= Len(front \o tail)
  <2> HIDE DEF front, tail
  <2>1. Len(front) = f.start + Len(mid)
    BY <1>4 DEF front
  <2> QED  BY <1>1, <1>4, <1>5, <2>1
<1> QED  BY <1>5, <1>6, <1>7, <1>8 DEF Text

-----------------------------------------------------------------------------
\* Types are kept by every step.  Writing needs no more than the types: the guard on the
\* range is part of Candidates below, so the text stays text because the offsets stay
\* valid.
Candidates ==
  /\ left \subseteq Eligible(original, fixes)
  /\ \A a \in 1 .. Len(chosen) : chosen[a] \in Eligible(original, fixes)

\* Nothing is written before everything is considered.
Unwritten == left # {} => next = Len(chosen) /\ source = original

\* The chosen ones come in the order of the sort, before all that is left, and each
\* starts at or after the end of all before it.
Chain ==
  /\ \A a, b \in 1 .. Len(chosen) :
       a < b => /\ fixes[chosen[a]].end <= fixes[chosen[b]].start
                /\ Before(chosen[a], chosen[b])
  /\ \A a \in 1 .. Len(chosen), j \in left : Before(chosen[a], j)

\* OffsetsValid from the first choice on.
Kept ==
  \A a \in 1 .. next :
    LET f == fixes[chosen[a]]
    IN /\ f.end <= Len(source)
       /\ \A at \in 1 .. f.end : source[at] = original[at]

IInv == TypeOK /\ Candidates /\ Unwritten /\ Chain /\ Kept

\* What may be chosen is what the filter lets through.
LEMMA ApplicableIsEligible ==
  /\ Applicable = Eligible(original, fixes)
  /\ Applicable \subseteq DOMAIN fixes
BY DEF Applicable, Eligible, Fits

\* Facts about the candidates that every step uses.
LEMMA EligibleFacts ==
  ASSUME TypeOK, NEW i \in Eligible(original, fixes)
  PROVE  /\ i \in DOMAIN fixes
         /\ fixes[i].start \in Nat /\ fixes[i].end \in Nat
         /\ fixes[i].start <= fixes[i].end /\ fixes[i].end <= Len(original)
<1>1. i \in DOMAIN fixes
  BY DEF Eligible
<1> QED  BY <1>1, FixFacts DEF Eligible, Fits

LEMMA ChosenFacts ==
  ASSUME TypeOK
  PROVE  /\ Len(chosen) \in Nat
         /\ \A a \in 1 .. Len(chosen) : chosen[a] \in DOMAIN fixes
<1>1. chosen \in Seq(Applicable)
  BY DEF TypeOK
<1> QED  BY <1>1, LenProperties, ElementOfSeq, ApplicableIsEligible

\* A candidate the last chosen fix does not claim starts at or after that one's end.
LEMMA UnclaimedStartsAfter ==
  ASSUME NEW f \in FixType, NEW g \in FixType,
         f.start <= f.end, g.start <= g.end,
         f.start < g.start \/ (f.start = g.start /\ f.end <= g.end),
         ~Overlaps(f, g)
  PROVE  f.end <= g.start
BY DEF FixType, Overlaps

LEMMA ChooseStep ==
  ASSUME IInv, NEW i \in left, Choose(i)
  PROVE  IInv'
<1> DEFINE n == Len(chosen)
<1>0. TypeOK /\ Candidates /\ Unwritten /\ Chain /\ Kept
  BY DEF IInv
<1>1. /\ i \in Eligible(original, fixes) /\ i \in DOMAIN fixes /\ n \in Nat
      /\ next = n /\ source = original
  BY <1>0, ChosenFacts DEF Candidates, Unwritten, Eligible
<1>2. /\ chosen' \in Seq(Applicable) /\ Len(chosen') = n + 1
      /\ chosen'[n + 1] = i
      /\ \A a \in 1 .. n : chosen'[a] = chosen[a]
  <2>1. chosen \in Seq(Applicable) /\ i \in Applicable
    BY <1>0, <1>1 DEF TypeOK
  <2> QED  BY <2>1, AppendProperties DEF Choose
<1>3. UNCHANGED <<original, fixes, skipped, source, declined>> /\ left' = left \ {i}
      /\ next' = n + 1
  BY <1>1 DEF Choose
<1>4. TypeOK'
  <2>1. Applicable' = Applicable
    BY <1>3 DEF Applicable
  <2>2. /\ original' \in Text /\ source' \in Text /\ skipped' \in Nat
        /\ \E m \in 0 .. MaxFixes : fixes' \in [1 .. m -> FixType]
        /\ left' \subseteq Applicable /\ declined' \subseteq DOMAIN fixes
    BY <1>0, <1>3 DEF TypeOK
  <2>3. next' \in 0 .. Len(chosen')
    BY <1>1, <1>2, <1>3
  <2> QED  BY <1>2, <1>3, <2>1, <2>2, <2>3 DEF TypeOK
<1>5. Candidates'
  <2>1. \A a \in 1 .. n + 1 : chosen'[a] \in Eligible(original, fixes)
    BY <1>0, <1>1, <1>2 DEF Candidates
  <2> QED  BY <1>0, <1>2, <1>3, <2>1 DEF Candidates
<1>6. Unwritten'
  BY <1>1, <1>2, <1>3 DEF Unwritten
<1>7. \A a \in 1 .. n : fixes[chosen[a]].end <= fixes[i].start /\ Before(chosen[a], i)
  <2> SUFFICES ASSUME NEW a \in 1 .. n
               PROVE  fixes[chosen[a]].end <= fixes[i].start /\ Before(chosen[a], i)
    OBVIOUS
  <2>1. \A c \in 1 .. n : Before(chosen[c], i)
    BY <1>0 DEF Chain
  <2>2. \A c \in 1 .. n : chosen[c] \in Eligible(original, fixes)
    BY <1>0 DEF Candidates
  <2>3. n \in 1 .. n /\ chosen # << >>
    BY <1>0, <1>1, EmptySeq DEF TypeOK
  <2>4. fixes[chosen[n]].end <= fixes[i].start
    <3>1. /\ fixes[chosen[n]] \in FixType /\ fixes[i] \in FixType
          /\ fixes[chosen[n]].start <= fixes[chosen[n]].end
          /\ fixes[i].start <= fixes[i].end
      BY <1>0, <1>1, <2>2, <2>3, EligibleFacts, FixFacts
    <3>2. ~Overlaps(fixes[chosen[n]], fixes[i])
      BY <2>3 DEF Choose, Claimed
    <3>3. \/ fixes[chosen[n]].start < fixes[i].start
          \/ /\ fixes[chosen[n]].start = fixes[i].start
             /\ fixes[chosen[n]].end <= fixes[i].end
      <4>1. Before(chosen[n], i)
        BY <2>1, <2>3
      <4>2. fixes[chosen[n]].end \in Nat /\ fixes[i].end \in Nat
        BY <3>1 DEF FixType
      <4> QED  BY <4>1, <4>2 DEF Before
    <3> QED  BY <3>1, <3>2, <3>3, UnclaimedStartsAfter
  <2>5. CASE a = n
    BY <2>1, <2>4, <2>5
  <2>6. CASE a # n
    <3>1. fixes[chosen[a]].end <= fixes[chosen[n]].start
      BY <1>0, <1>1, <2>3, <2>6 DEF Chain
    <3>2. /\ fixes[chosen[n]].start <= fixes[chosen[n]].end
          /\ fixes[chosen[a]].end \in Nat /\ fixes[chosen[n]].start \in Nat
          /\ fixes[chosen[n]].end \in Nat /\ fixes[i].start \in Nat
      BY <1>0, <1>1, <2>2, <2>3, EligibleFacts
    <3> QED  BY <2>1, <2>4, <3>1, <3>2
  <2> QED  BY <2>5, <2>6
<1>8. Chain'
  <2>1. ASSUME NEW a \in 1 .. Len(chosen'), NEW b \in 1 .. Len(chosen'), a < b
        PROVE  /\ fixes[chosen'[a]].end <= fixes[chosen'[b]].start
               /\ Before(chosen'[a], chosen'[b])
    <3>1. a \in 1 .. n /\ chosen'[a] = chosen[a]
      BY <1>1, <1>2, <2>1
    <3>2. CASE b = n + 1
      BY <1>2, <1>7, <3>1, <3>2
    <3>3. CASE b # n + 1
      <4>1. b \in 1 .. n /\ chosen'[b] = chosen[b]
        BY <1>1, <1>2, <3>3
      <4> QED  BY <1>0, <2>1, <3>1, <4>1 DEF Chain
    <3> QED  BY <3>2, <3>3
  <2>2. ASSUME NEW a \in 1 .. Len(chosen'), NEW j \in left'
        PROVE  Before(chosen'[a], j)
    <3>1. j \in left /\ j # i
      BY <1>3
    <3>2. CASE a = n + 1
      BY <1>2, <3>1, <3>2 DEF Choose, First
    <3>3. CASE a # n + 1
      <4>1. a \in 1 .. n /\ chosen'[a] = chosen[a]
        BY <1>1, <1>2, <3>3
      <4> QED  BY <1>0, <3>1, <4>1 DEF Chain
    <3> QED  BY <3>2, <3>3
  <2> QED  BY <1>3, <2>1, <2>2 DEF Chain, Before
<1>9. Kept'
  <2> SUFFICES ASSUME NEW a \in 1 .. n + 1
               PROVE  /\ fixes[chosen'[a]].end <= Len(original)
                      /\ \A at \in 1 .. fixes[chosen'[a]].end :
                           source'[at] = original[at]
    BY <1>1, <1>3 DEF Kept
  <2>1. chosen'[a] \in Eligible(original, fixes)
    BY <1>5, <1>2, <1>3 DEF Candidates
  <2> QED  BY <1>0, <1>1, <1>3, <2>1, EligibleFacts
<1> QED  BY <1>4, <1>5, <1>6, <1>8, <1>9 DEF IInv

LEMMA SkipStep ==
  ASSUME IInv, NEW i \in left, Skip(i)
  PROVE  IInv'
<1>0. TypeOK /\ Candidates /\ Unwritten /\ Chain /\ Kept
  BY DEF IInv
<1>1. /\ left' = left \ {i} /\ skipped' = skipped + 1
      /\ UNCHANGED <<original, fixes, chosen, next, source, declined>>
  BY DEF Skip
<1>2. TypeOK'
  BY <1>0, <1>1 DEF TypeOK, Applicable
<1>3. Candidates' /\ Unwritten' /\ Kept'
  BY <1>0, <1>1 DEF Candidates, Unwritten, Kept
<1>4. Chain'
  BY <1>0, <1>1 DEF Chain, Before
<1> QED  BY <1>2, <1>3, <1>4 DEF IInv

LEMMA WriteStep ==
  ASSUME IInv, Write
  PROVE  IInv'
<1> DEFINE f == fixes[chosen[next]]
<1>0. TypeOK /\ Candidates /\ Unwritten /\ Chain /\ Kept
  BY DEF IInv
<1>1. /\ Len(chosen) \in Nat /\ next \in 1 .. Len(chosen) /\ next' = next - 1
      /\ left = {} /\ UNCHANGED <<original, fixes, left, chosen, skipped>>
  BY <1>0, ChosenFacts DEF Write, TypeOK
<1>2. /\ chosen[next] \in Eligible(original, fixes) /\ chosen[next] \in DOMAIN fixes
      /\ f \in FixType /\ f.start <= f.end /\ f.end <= Len(source)
      /\ f.start \in Nat /\ f.end \in Nat
  BY <1>0, <1>1, EligibleFacts, FixFacts DEF Candidates, Kept
<1>3. source \in Text /\ Len(source) \in Nat
  BY <1>0, LenProperties DEF TypeOK, Text
<1>4. \/ source' = Replaced(source, f) /\ declined' = declined
      \/ source' = source /\ declined' = declined \cup {chosen[next]}
  BY DEF Write, Turn
<1>5. /\ source' \in Text /\ f.start <= Len(source')
      /\ \A at \in 1 .. f.start : source'[at] = source[at]
  <2>1. CASE source' = source
    BY <1>2, <1>3, <2>1
  <2>2. CASE source' = Replaced(source, f)
    BY <1>2, <1>3, <2>2, ReplacedPrefix DEF Fits
  <2> QED  BY <1>4, <2>1, <2>2
<1>6. TypeOK'
  <2>1. next' \in 0 .. Len(chosen)
    BY <1>1
  <2>2. declined' \subseteq DOMAIN fixes
    BY <1>0, <1>2, <1>4 DEF TypeOK
  <2> QED  BY <1>0, <1>1, <1>5, <2>1, <2>2 DEF TypeOK, Applicable
<1>7. Candidates' /\ Unwritten' /\ Chain'
  BY <1>0, <1>1 DEF Candidates, Unwritten, Chain, Before
<1>8. Kept'
  <2> SUFFICES ASSUME NEW a \in 1 .. next - 1
               PROVE  /\ fixes[chosen[a]].end <= Len(source')
                      /\ \A at \in 1 .. fixes[chosen[a]].end :
                           source'[at] = original[at]
    BY <1>1 DEF Kept
  <2>1. a \in 1 .. next /\ a \in 1 .. Len(chosen) /\ a < next
    BY <1>1
  <2>2. fixes[chosen[a]].end <= f.start
    BY <1>0, <1>1, <2>1 DEF Chain
  <2>3. \A at \in 1 .. fixes[chosen[a]].end : source[at] = original[at]
    BY <1>0, <2>1 DEF Kept
  <2>4. fixes[chosen[a]].end \in Nat
    BY <1>0, <2>1, EligibleFacts DEF Candidates
  <2>5. Len(source') \in Nat
    BY <1>5, LenProperties DEF Text
  <2> QED  BY <1>2, <1>5, <2>2, <2>3, <2>4, <2>5
<1> QED  BY <1>6, <1>7, <1>8 DEF IInv

LEMMA InitIInv == Init => IInv
<1> SUFFICES ASSUME Init PROVE IInv
  OBVIOUS
<1>1. PICK n \in 0 .. MaxFixes : fixes \in [1 .. n -> Fixes]
  BY DEF Init
<1>2. fixes \in [1 .. n -> FixType]
  BY <1>1, FixesAreFixes
<1>3. original \in Text /\ left \subseteq Applicable
  BY SourcesAreTexts, ApplicableIsEligible DEF Init
<1>4. chosen \in Seq(Applicable) /\ Len(chosen) = 0
  BY EmptySeq DEF Init
<1>5. TypeOK
  BY <1>2, <1>3, <1>4 DEF Init, TypeOK
<1>6. Candidates /\ Unwritten /\ Chain /\ Kept
  BY <1>4 DEF Init, Candidates, Unwritten, Chain, Kept
<1> QED  BY <1>5, <1>6 DEF IInv

LEMMA Inductive == Spec => []IInv
<1>1. IInv /\ [Next]_vars => IInv'
  <2> SUFFICES ASSUME IInv, [Next]_vars PROVE IInv'
    OBVIOUS
  <2>1. CASE UNCHANGED vars
    BY <2>1 DEF vars, IInv, TypeOK, Applicable, Candidates, Unwritten, Chain, Before, Kept
  <2> QED  BY <2>1, ChooseStep, SkipStep, WriteStep DEF Next
<1> QED  BY InitIInv, <1>1, PTL DEF Spec

\* TypeOK holds of every behaviour; in particular what `--fix` writes is text.
THEOREM TypeCorrect == Spec => []TypeOK
BY Inductive, PTL DEF IInv

\* Comparing each candidate with the last chosen fix alone keeps all of them apart.
THEOREM Disjoint == Spec => []ChosenDisjoint
<1>1. IInv => ChosenDisjoint
  <2> SUFFICES ASSUME IInv, NEW a \in 1 .. Len(chosen), NEW b \in 1 .. Len(chosen),
                      a < b
               PROVE  ~Overlaps(fixes[chosen[a]], fixes[chosen[b]])
    BY DEF ChosenDisjoint
  <2>1. fixes[chosen[a]].end <= fixes[chosen[b]].start
    BY DEF IInv, Chain
  <2>2. fixes[chosen[a]].end \in Nat /\ fixes[chosen[b]].start \in Nat
    BY EligibleFacts DEF IInv, Candidates
  <2> QED  BY <2>1, <2>2 DEF Overlaps
<1> QED  BY <1>1, Inductive, PTL

\* Up to the end of every fix still to be written the text is the original one, however
\* much longer or shorter the written ones made the rest.
THEOREM OffsetsStayValid == Spec => []OffsetsValid
<1>1. IInv => OffsetsValid
  BY DEF IInv, Kept, OffsetsValid
<1> QED  BY <1>1, Inductive, PTL
-----------------------------------------------------------------------------
\* Every candidate is counted once, and left out only for a chosen one before it.
LEMMA CauseStep ==
  ASSUME IInv, SkippedForCause, [Next]_vars
  PROVE  SkippedForCause'
<1> DEFINE n == Len(chosen)
           All == Eligible(original, fixes)
           Settled(j) == \/ \E a \in 1 .. n : chosen[a] = j
                         \/ \E a \in 1 .. n : /\ Overlaps(fixes[chosen[a]], fixes[j])
                                             /\ Before(chosen[a], j)
<1>0. TypeOK /\ Candidates /\ Unwritten /\ Chain /\ Kept
  BY DEF IInv
<1>1. n \in Nat /\ skipped \in Nat
  BY <1>0, ChosenFacts DEF TypeOK
<1>2. IsFiniteSet(left) /\ Cardinality(left) \in Nat
  <2>1. left \in SUBSET DOMAIN fixes
    BY <1>0, ApplicableIsEligible DEF TypeOK
  <2> QED  BY <1>0, <2>1, Indices, FS_Subset, FS_CardinalityType
<1>3. ASSUME NEW i \in left PROVE Cardinality(left \ {i}) = Cardinality(left) - 1
  BY <1>2, <1>3, FS_RemoveElement
<1>4. ASSUME NEW i \in left, Skip(i) PROVE SkippedForCause'
  <2>1. /\ left' = left \ {i} /\ skipped' = skipped + 1
        /\ original' = original /\ fixes' = fixes /\ chosen' = chosen
    BY <1>4 DEF Skip
  <2>2. skipped' + Cardinality(left') + n = Cardinality(All)
    BY <1>1, <1>2, <1>3, <2>1 DEF SkippedForCause
  <2>3. Settled(i)
    <3>1. n \in 1 .. n
      BY <1>0, <1>1, <1>4, EmptySeq DEF Skip, Claimed, TypeOK
    <3>2. Overlaps(fixes[chosen[n]], fixes[i])
      BY <1>4 DEF Skip, Claimed
    <3>3. Before(chosen[n], i)
      BY <1>0, <3>1 DEF Chain
    <3> QED  BY <3>1, <3>2, <3>3
  <2>4. \A j \in All \ left' : Settled(j)
    BY <2>1, <2>3 DEF SkippedForCause
  <2> QED  BY <2>1, <2>2, <2>4 DEF SkippedForCause, Before
<1>5. ASSUME NEW i \in left, Choose(i) PROVE SkippedForCause'
  <2>1. /\ left' = left \ {i} /\ skipped' = skipped
        /\ original' = original /\ fixes' = fixes /\ chosen' = Append(chosen, i)
    BY <1>5 DEF Choose
  <2>2. /\ Len(chosen') = n + 1 /\ chosen'[n + 1] = i
        /\ \A a \in 1 .. n : chosen'[a] = chosen[a]
    <3>1. i \in Applicable /\ chosen \in Seq(Applicable)
      BY <1>0 DEF TypeOK
    <3> QED  BY <2>1, <3>1, AppendProperties
  <2>3. skipped' + Cardinality(left') + Len(chosen') = Cardinality(All)
    <3>1. Cardinality(left') = Cardinality(left) - 1
      BY <1>3, <2>1
    <3>2. skipped + Cardinality(left) + n = Cardinality(All)
      BY DEF SkippedForCause
    <3>3. Len(chosen') = n + 1 /\ skipped' = skipped
      BY <2>1, <2>2
    <3> HIDE DEF n, All
    <3> QED  BY <1>1, <1>2, <3>1, <3>2, <3>3
  <2>4. ASSUME NEW j \in All \ left'
        PROVE  \/ \E a \in 1 .. n + 1 : chosen'[a] = j
               \/ \E a \in 1 .. n + 1 : /\ Overlaps(fixes[chosen'[a]], fixes[j])
                                        /\ Before(chosen'[a], j)
    <3>1. \A a \in 1 .. n : a \in 1 .. n + 1
      BY <1>1
    <3>2. CASE j = i
      BY <1>1, <2>2, <3>2
    <3>3. CASE j # i
      <4>1. Settled(j)
        BY <2>1, <3>3 DEF SkippedForCause
      <4>2. CASE \E a \in 1 .. n : chosen[a] = j
        BY <2>2, <3>1, <4>2
      <4>3. CASE \E a \in 1 .. n : /\ Overlaps(fixes[chosen[a]], fixes[j])
                                  /\ Before(chosen[a], j)
        BY <2>2, <3>1, <4>3
      <4> QED  BY <4>1, <4>2, <4>3
    <3> QED  BY <3>2, <3>3
  <2> QED  BY <2>1, <2>2, <2>3, <2>4 DEF SkippedForCause, Before
<1>6. CASE Write
  BY <1>6 DEF Write, SkippedForCause, Before
<1>7. CASE UNCHANGED vars
  BY <1>7 DEF vars, SkippedForCause, Before
<1> QED  BY <1>4, <1>5, <1>6, <1>7 DEF Next

\* Of any overlapping group one is chosen, the earlier in the sort, and the count of the
\* skipped is exact.
THEOREM SkipsForCause == Spec => []SkippedForCause
<1>1. Init => SkippedForCause
  <2> SUFFICES ASSUME Init PROVE SkippedForCause
    OBVIOUS
  <2>1. TypeOK
    BY InitIInv DEF IInv
  <2>2. left \in SUBSET DOMAIN fixes
    BY <2>1, ApplicableIsEligible DEF TypeOK
  <2>3. Cardinality(left) \in Nat
    BY <2>1, <2>2, Indices, FS_Subset, FS_CardinalityType
  <2>4. Len(chosen) = 0 /\ skipped = 0 /\ left = Eligible(original, fixes)
    BY EmptySeq DEF Init
  <2> QED  BY <2>3, <2>4 DEF SkippedForCause
<1>2. IInv /\ SkippedForCause /\ [Next]_vars => SkippedForCause'
  BY CauseStep
<1> QED  BY <1>1, <1>2, Inductive, PTL DEF Spec
-----------------------------------------------------------------------------
(***************************************************************************)
(* Writing one at a time is applying all at once.                          *)
(***************************************************************************)

\* A set numbered without repetition from 1 to m has m elements.
LEMMA Counted ==
  ASSUME NEW m \in Nat, NEW S, NEW F \in [1 .. m -> S],
         \A a, b \in 1 .. m : F[a] = F[b] => a = b,
         \A x \in S : \E a \in 1 .. m : F[a] = x
  PROVE  IsFiniteSet(S) /\ Cardinality(S) = m
<1>1. F \in Bijection(1 .. m, S)
  BY DEF Bijection, Injection, Surjection, IsInjective
<1>2. IsFiniteSet(1 .. m) /\ Cardinality(1 .. m) = m
  <2>1. m \in Int /\ 1 \in Int
    OBVIOUS
  <2>2. /\ IsFiniteSet(1 .. m)
        /\ Cardinality(1 .. m) = IF 1 > m THEN 0 ELSE m - 1 + 1
    BY <2>1, FS_Interval
  <2> QED  BY <2>2
<1> QED  BY <1>1, <1>2, FS_Bijection DEF ExistsBijection

\* How many pieces there are up to a position of the original, and in a replacement.
LEMMA OwnRow ==
  ASSUME NEW m \in Nat
  PROVE  LET S == { Own(at) : at \in 1 .. m } IN IsFiniteSet(S) /\ Cardinality(S) = m
<1> DEFINE F == [at \in 1 .. m |-> Own(at)]
           S == { Own(at) : at \in 1 .. m }
<1>1. F \in [1 .. m -> S] /\ \A x \in S : \E a \in 1 .. m : F[a] = x
  OBVIOUS
<1>2. \A a, b \in 1 .. m : F[a] = F[b] => a = b
  BY DEF Own
<1>3. IsFiniteSet(S) /\ Cardinality(S) = m
  <2> HIDE DEF F, S
  <2> QED  BY <1>1, <1>2, Counted
<1> QED  BY <1>3

LEMMA NewRow ==
  ASSUME NEW k, NEW m \in Nat
  PROVE  LET S == { New(k, b) : b \in 1 .. m } IN IsFiniteSet(S) /\ Cardinality(S) = m
<1> DEFINE F == [b \in 1 .. m |-> New(k, b)]
           S == { New(k, b) : b \in 1 .. m }
<1>1. F \in [1 .. m -> S] /\ \A x \in S : \E a \in 1 .. m : F[a] = x
  OBVIOUS
<1>2. \A a, b \in 1 .. m : F[a] = F[b] => a = b
  BY DEF New
<1>3. IsFiniteSet(S) /\ Cardinality(S) = m
  <2> HIDE DEF F, S
  <2> QED  BY <1>1, <1>2, Counted
<1> QED  BY <1>3

\* Disjoint sets add up.
LEMMA Together ==
  ASSUME NEW A, NEW B, IsFiniteSet(A), IsFiniteSet(B), A \cap B = {}
  PROVE  /\ IsFiniteSet(A \cup B)
         /\ Cardinality(A \cup B) = Cardinality(A) + Cardinality(B)
         /\ Cardinality(A) \in Nat /\ Cardinality(B) \in Nat
<1>1. /\ IsFiniteSet(A \cup B)
      /\ Cardinality(A \cup B) = Cardinality(A) + Cardinality(B) - Cardinality(A \cap B)
  BY FS_Union
<1>2. Cardinality(A \cap B) = 0
  BY FS_EmptySet
<1>3. Cardinality(A) \in Nat /\ Cardinality(B) \in Nat
  BY FS_CardinalityType
<1> QED  BY <1>1, <1>2, <1>3

\* What `replace_range` makes of a text, byte by byte.
LEMMA ReplacedExactly ==
  ASSUME NEW text \in Text, NEW f \in FixType, Fits(f, Len(text))
  PROVE  LET r == Len(f.replacement)
         IN /\ Len(Replaced(text, f)) = f.start + r + (Len(text) - f.end)
            /\ \A i \in 1 .. f.start : Replaced(text, f)[i] = text[i]
            /\ \A i \in 1 .. r : Replaced(text, f)[f.start + i] = f.replacement[i]
            /\ \A i \in 1 .. Len(text) - f.end :
                 Replaced(text, f)[f.start + r + i] = text[f.end + i]
<1> DEFINE head == SubSeq(text, 1, f.start)
           tail == SubSeq(text, f.end + 1, Len(text))
           mid  == f.replacement
           m    == Len(text) - f.end
           r    == Len(mid)
<1>1. /\ f.start \in Nat /\ f.end \in Nat /\ mid \in Seq(Bytes)
      /\ Len(text) \in Nat /\ f.start <= f.end /\ f.end <= Len(text)
      /\ \A i \in 1 .. Len(text) : text[i] \in Bytes
  BY LenProperties, ElementOfSeq DEF FixType, Text, Fits
<1>2. m \in Nat /\ r \in Nat
  BY <1>1, LenProperties
<1>3. /\ head \in Seq(Bytes) /\ Len(head) = f.start
      /\ \A i \in 1 .. f.start : head[i] = text[i]
  <2>1. /\ head \in Seq(Bytes)
        /\ Len(head) = IF 1 <= f.start THEN f.start - 1 + 1 ELSE 0
        /\ \A i \in 1 .. f.start - 1 + 1 : head[i] = text[1 + i - 1]
    <3>1. \A i \in 1 .. f.start : text[i] \in Bytes
      BY <1>1
    <3>2. 1 \in Int /\ f.start \in Int
      BY <1>1
    <3> QED  BY <3>1, <3>2, SubSeqProperties
  <2> QED  BY <1>1, <2>1
<1>4. /\ tail \in Seq(Bytes) /\ Len(tail) = m
      /\ \A i \in 1 .. m : tail[i] = text[f.end + i]
  <2>1. /\ tail \in Seq(Bytes)
        /\ Len(tail) = IF f.end + 1 <= Len(text) THEN Len(text) - (f.end + 1) + 1 ELSE 0
        /\ \A i \in 1 .. Len(text) - (f.end + 1) + 1 : tail[i] = text[f.end + 1 + i - 1]
    <3>1. \A i \in f.end + 1 .. Len(text) : text[i] \in Bytes
      BY <1>1
    <3>2. f.end + 1 \in Int /\ Len(text) \in Int
      BY <1>1
    <3> QED  BY <3>1, <3>2, SubSeqProperties
  <2> HIDE DEF tail
  <2>2. Len(tail) = Len(text) - f.end
    BY <1>1, <2>1
  <2>3. \A i \in 1 .. m : tail[i] = text[f.end + i]
    <3> SUFFICES ASSUME NEW i \in 1 .. m PROVE tail[i] = text[f.end + i]
      OBVIOUS
    <3>1. i \in 1 .. Len(text) - (f.end + 1) + 1 /\ f.end + 1 + i - 1 = f.end + i
      BY <1>1
    <3> QED  BY <2>1, <3>1
  <2> QED  BY <2>1, <2>2, <2>3
<1> HIDE DEF head, tail
<1>5. /\ head \o mid \in Seq(Bytes) /\ Len(head \o mid) = f.start + r
      /\ \A i \in 1 .. f.start : (head \o mid)[i] = text[i]
      /\ \A i \in 1 .. r : (head \o mid)[f.start + i] = mid[i]
  <2>1. /\ head \o mid \in Seq(Bytes) /\ Len(head \o mid) = Len(head) + Len(mid)
        /\ \A i \in 1 .. Len(head) + Len(mid) :
             (head \o mid)[i] = IF i <= Len(head) THEN head[i] ELSE mid[i - Len(head)]
    BY <1>1, <1>3, ConcatProperties
  <2> HIDE DEF mid, r
  <2>2. Len(head \o mid) = f.start + r
    BY <1>3, <2>1 DEF r
  <2>3. \A i \in 1 .. f.start : (head \o mid)[i] = text[i]
    BY <1>1, <1>2, <1>3, <2>1 DEF r
  <2>4. \A i \in 1 .. r : (head \o mid)[f.start + i] = mid[i]
    <3> SUFFICES ASSUME NEW i \in 1 .. r PROVE (head \o mid)[f.start + i] = mid[i]
      OBVIOUS
    <3>1. /\ f.start + i \in 1 .. Len(head) + Len(mid) /\ ~(f.start + i <= Len(head))
          /\ f.start + i - Len(head) = i
      <4>1. f.start \in Nat /\ Len(head) = f.start /\ Len(mid) = r /\ r \in Nat
        BY <1>1, <1>2, <1>3 DEF r
      <4> QED  BY <4>1
    <3>2. (head \o mid)[f.start + i] = mid[f.start + i - Len(head)]
      <4>1. \A x \in 1 .. Len(head) + Len(mid) :
              ~(x <= Len(head)) => (head \o mid)[x] = mid[x - Len(head)]
        BY <2>1
      <4>2. PICK x \in 1 .. Len(head) + Len(mid) : x = f.start + i
        BY <3>1
      <4>3. ~(x <= Len(head))
        BY <3>1, <4>2
      <4>4. (head \o mid)[x] = mid[x - Len(head)]
        BY <4>1, <4>3
      <4>5. f.start \in Nat /\ r \in Nat /\ i \in Nat
        BY <1>1, <1>2
      <4> QED  BY <4>2, <4>4, <4>5
    <3> QED  BY <3>1, <3>2
  <2> QED  BY <2>1, <2>2, <2>3, <2>4
<1> DEFINE front == head \o mid
<1>6. front \in Seq(Bytes) /\ Len(front) = f.start + r
  BY <1>5
<1> HIDE DEF front
<1>7. /\ Len(front \o tail) = Len(front) + Len(tail)
      /\ \A i \in 1 .. Len(front) + Len(tail) :
           (front \o tail)[i] = IF i <= Len(front) THEN front[i]
                                ELSE tail[i - Len(front)]
  <2>1. tail \in Seq(Bytes) /\ front \in Seq(Bytes)
    BY <1>4, <1>6
  <2> QED  BY <2>1, ConcatProperties
<1>8. Replaced(text, f) = front \o tail
  BY DEF Replaced, front, head, tail
<1>9. /\ \A i \in 1 .. f.start : front[i] = text[i]
      /\ \A i \in 1 .. r : front[f.start + i] = mid[i]
  BY <1>5 DEF front
<1> HIDE DEF m, r, mid
<1>10. /\ Len(front \o tail) = f.start + r + m
       /\ \A i \in 1 .. f.start : (front \o tail)[i] = text[i]
       /\ \A i \in 1 .. r : (front \o tail)[f.start + i] = mid[i]
       /\ \A i \in 1 .. m : (front \o tail)[f.start + r + i] = text[f.end + i]
  <2>1. Len(front \o tail) = f.start + r + m
    BY <1>4, <1>6, <1>7
  <2>2. \A i \in 1 .. f.start : (front \o tail)[i] = text[i]
    BY <1>1, <1>2, <1>4, <1>6, <1>7, <1>9
  <2>3. \A i \in 1 .. r : (front \o tail)[f.start + i] = mid[i]
    <3> SUFFICES ASSUME NEW i \in 1 .. r PROVE (front \o tail)[f.start + i] = mid[i]
      OBVIOUS
    <3>1. f.start + i \in 1 .. Len(front) + Len(tail) /\ f.start + i <= Len(front)
      BY <1>1, <1>2, <1>4, <1>6
    <3> QED  BY <1>7, <1>9, <3>1
  <2>4. \A i \in 1 .. m : (front \o tail)[f.start + r + i] = text[f.end + i]
    <3> SUFFICES ASSUME NEW i \in 1 .. m
                 PROVE  (front \o tail)[f.start + r + i] = text[f.end + i]
      OBVIOUS
    <3>1. /\ f.start + r + i \in 1 .. Len(front) + Len(tail)
          /\ ~(f.start + r + i <= Len(front)) /\ f.start + r + i - Len(front) = i
      <4>1. f.start + r \in Nat /\ Len(front) = f.start + r /\ Len(tail) = m /\ m \in Nat
        BY <1>1, <1>2, <1>4, <1>6
      <4> QED  BY <4>1
    <3>2. (front \o tail)[f.start + r + i] = tail[f.start + r + i - Len(front)]
      <4>1. \A x \in 1 .. Len(front) + Len(tail) :
              ~(x <= Len(front)) => (front \o tail)[x] = tail[x - Len(front)]
        BY <1>7
      <4>2. PICK x \in 1 .. Len(front) + Len(tail) : x = f.start + r + i
        BY <3>1
      <4>3. ~(x <= Len(front))
        BY <3>1, <4>2
      <4>4. (front \o tail)[x] = tail[x - Len(front)]
        BY <4>1, <4>3
      <4>5. f.start \in Nat /\ r \in Nat /\ i \in Nat
        BY <1>1, <1>2
      <4> QED  BY <4>2, <4>4, <4>5
    <3>3. tail[f.start + r + i - Len(front)] = tail[i]
      BY <3>1
    <3>4. tail[i] = text[f.end + i]
      BY <1>4
    <3> QED  BY <3>2, <3>3, <3>4
  <2> QED  BY <2>1, <2>2, <2>3, <2>4
<1> QED  BY <1>8, <1>10 DEF m, r, mid
\* What a place says of its piece.
LEMMA Places ==
  /\ \A at : Own(at)[1] = at /\ Own(at)[2] = Len(chosen) + 1 /\ Own(at)[3] = 1
  /\ \A k, b : New(k, b)[1] = Ranked(k).start + 1 /\ New(k, b)[2] = k /\ New(k, b)[3] = b
BY DEF Own, New

LEMMA PiecesAre ==
  ASSUME NEW R, NEW p
  PROVE  p \in Pieces(R) <=>
           \/ \E at \in 1 .. Len(original) : ~Covered(R, at) /\ p = Own(at)
           \/ \E k \in R : \E b \in 1 .. Len(Ranked(k).replacement) : p = New(k, b)
BY DEF Pieces

\* How far a place is along two sets of pieces, the first of which lies before it.
LEMMA UpToSplit ==
  ASSUME NEW A, NEW B, IsFiniteSet(A), IsFiniteSet(B), A \cap B = {},
         NEW p \in B, p[3] \in Nat, \A q \in A : NotAfter(q, p)
  PROVE  /\ Cardinality(UpTo(A \cup B, p)) = Cardinality(A) + Cardinality(UpTo(B, p))
         /\ Cardinality(UpTo(B, p)) \in 1 .. Cardinality(B)
         /\ Cardinality(A) \in Nat /\ Cardinality(B) \in Nat
<1> DEFINE U == UpTo(B, p)
<1>1. U \in SUBSET B /\ p \in U
  BY DEF UpTo, NotAfter
<1>2. UpTo(A \cup B, p) = A \cup U /\ A \cap U = {}
  BY DEF UpTo
<1> HIDE DEF U
<1>3. IsFiniteSet(U) /\ Cardinality(U) <= Cardinality(B)
  BY <1>1, FS_Subset
<1>4. Cardinality(A) \in Nat /\ Cardinality(B) \in Nat /\ Cardinality(U) \in Nat
  BY <1>3, FS_CardinalityType
<1>5. Cardinality(U) # 0
  BY <1>1, <1>3, FS_EmptySet
<1>6. Cardinality(A \cup U) = Cardinality(A) + Cardinality(U)
  BY <1>2, <1>3, Together
<1>7. Cardinality(UpTo(A \cup B, p)) = Cardinality(A) + Cardinality(U)
  BY <1>2, <1>6
<1>8. Cardinality(U) \in 1 .. Cardinality(B)
  BY <1>3, <1>4, <1>5
<1> QED  BY <1>4, <1>7, <1>8 DEF U

\* The fix of rank k, written into a text that spells the pieces of later ranks, makes
\* it spell its own as well, provided the text is still the original up to its end.
LEMMA Laying ==
  ASSUME TypeOK, Candidates, Chain, NEW k \in 1 .. Len(chosen),
         NEW R, \A q \in R : q \in k + 1 .. Len(chosen),
         NEW text \in Text, Spells(text, Pieces(R)), IsFiniteSet(Pieces(R)),
         Ranked(k).end <= Len(text),
         \A at \in 1 .. Ranked(k).end : text[at] = original[at]
  PROVE  /\ IsFiniteSet(Pieces(R \cup {k}))
         /\ Spells(Replaced(text, Ranked(k)), Pieces(R \cup {k}))
<1> DEFINE n == Len(chosen)
           f == Ranked(k)
           s == f.start
           e == f.end
           r == Len(f.replacement)
           Q == R \cup {k}
           Old == Pieces(R)
           All == Pieces(Q)
           Later == { p \in Old : p[1] > e }
           Gone == { Own(at) : at \in 1 .. e }
           Ahead == { Own(at) : at \in 1 .. s }
           Fresh == { New(k, b) : b \in 1 .. r }
           result == Replaced(text, f)
<1>1. /\ n \in Nat /\ k \in Nat /\ k <= n /\ s \in Nat /\ e \in Nat /\ r \in Nat
      /\ s <= e /\ e <= Len(original) /\ Len(original) \in Nat /\ Len(text) \in Nat
      /\ f \in FixType /\ Fits(f, Len(text))
  <2>1. chosen[k] \in Eligible(original, fixes)
    BY DEF Candidates
  <2>2. /\ chosen[k] \in DOMAIN fixes /\ s \in Nat /\ e \in Nat
        /\ s <= e /\ e <= Len(original)
    BY <2>1, EligibleFacts DEF Ranked
  <2>3. f \in FixType /\ f.replacement \in Text
    BY <2>2, FixFacts DEF Ranked
  <2>4. r \in Nat /\ Len(original) \in Nat /\ Len(text) \in Nat
    BY <2>3, LenProperties DEF TypeOK, Text
  <2>5. n \in Nat
    BY ChosenFacts
  <2> QED  BY <2>2, <2>3, <2>4, <2>5 DEF Fits
<1> HIDE DEF s, e, r, f, Q
<1>2. ASSUME NEW q \in R
      PROVE  /\ q \in Nat /\ q > k /\ q <= n
             /\ Ranked(q).start \in Nat /\ Ranked(q).end \in Nat /\ e <= Ranked(q).start
  <2>1. q \in 1 .. n /\ k < q /\ q \in Nat
    BY <1>1
  <2>2. e <= Ranked(q).start
    BY <2>1 DEF Chain, Ranked, e, f
  <2>3. Ranked(q).start \in Nat /\ Ranked(q).end \in Nat
    BY <2>1, EligibleFacts DEF Ranked, Candidates
  <2> QED  BY <2>1, <2>2, <2>3
<1>3. \A at \in 1 .. e : ~Covered(R, at)
  BY <1>1, <1>2 DEF Covered
<1>3a. \A at \in 1 .. s : ~Covered(Q, at)
  BY <1>1, <1>2 DEF Covered, Q, s, f
<1>3b. \A at \in 1 .. e : s < at => Covered(Q, at)
  BY <1>1, <1>2 DEF Covered, Q, s, e, f
<1>3c. \A at \in 1 .. Len(original) :
         at > e => (Covered(Q, at) <=> Covered(R, at))
  BY <1>1, <1>2 DEF Covered, Q, s, e, f
<1>4. Old = Gone \cup Later
  <2>1. ASSUME NEW p \in Old PROVE p \in Gone \cup Later
    <3>1. CASE \E at \in 1 .. Len(original) : ~Covered(R, at) /\ p = Own(at)
      BY <1>1, <2>1, <3>1, Places
    <3>2. CASE \E q \in R : \E b \in 1 .. Len(Ranked(q).replacement) : p = New(q, b)
      BY <1>1, <1>2, <2>1, <3>2, Places
    <3> QED  BY <2>1, <3>1, <3>2, PiecesAre
  <2>2. ASSUME NEW p \in Gone PROVE p \in Old
    <3>1. PICK at \in 1 .. e : p = Own(at)
      OBVIOUS
    <3>2. at \in 1 .. Len(original) /\ ~Covered(R, at)
      BY <1>1, <1>3
    <3> QED  BY <3>1, <3>2, PiecesAre
  <2> QED  BY <2>1, <2>2
<1>5. All = (Ahead \cup Fresh) \cup Later
  <2>1. ASSUME NEW p \in All PROVE p \in (Ahead \cup Fresh) \cup Later
    <3>1. CASE \E at \in 1 .. Len(original) : ~Covered(Q, at) /\ p = Own(at)
      <4>1. PICK at \in 1 .. Len(original) : ~Covered(Q, at) /\ p = Own(at)
        BY <3>1
      <4>2. CASE at <= e
        <5>1. at <= s
          BY <1>1, <1>3b, <4>1, <4>2
        <5>2. at \in 1 .. s
          BY <1>1, <4>1, <5>1
        <5> QED  BY <4>1, <5>2
      <4>3. CASE at > e
        <5>1. p \in Old /\ p[1] = at
          BY <1>3c, <4>1, <4>3, PiecesAre, Places
        <5> QED  BY <4>3, <5>1
      <4> QED  BY <1>1, <4>2, <4>3
    <3>2. CASE \E q \in Q : \E b \in 1 .. Len(Ranked(q).replacement) : p = New(q, b)
      <4>1. PICK q \in Q : \E b \in 1 .. Len(Ranked(q).replacement) : p = New(q, b)
        BY <3>2
      <4>2. CASE q = k
        BY <4>1, <4>2 DEF r, f
      <4>3. CASE q \in R
        <5>1. p \in Old /\ p[1] = Ranked(q).start + 1
          BY <4>1, <4>3, PiecesAre, Places
        <5> QED  BY <1>1, <1>2, <4>3, <5>1
      <4> QED  BY <4>1, <4>2, <4>3 DEF Q
    <3> QED  BY <2>1, <3>1, <3>2, PiecesAre
  <2>2. ASSUME NEW p \in Ahead PROVE p \in All
    <3>1. PICK at \in 1 .. s : p = Own(at)
      OBVIOUS
    <3>2. at \in 1 .. Len(original) /\ ~Covered(Q, at)
      BY <1>1, <1>3a
    <3> QED  BY <3>1, <3>2, PiecesAre
  <2>3. ASSUME NEW p \in Fresh PROVE p \in All
    BY <2>3, PiecesAre DEF Q, r, f
  <2>4. ASSUME NEW p \in Later PROVE p \in All
    <3>1. CASE \E at \in 1 .. Len(original) : ~Covered(R, at) /\ p = Own(at)
      <4>1. PICK at \in 1 .. Len(original) : ~Covered(R, at) /\ p = Own(at)
        BY <3>1
      <4>2. at > e
        BY <2>4, <4>1, Places
      <4> QED  BY <1>3c, <4>1, <4>2, PiecesAre
    <3>2. CASE \E q \in R : \E b \in 1 .. Len(Ranked(q).replacement) : p = New(q, b)
      BY <3>2, PiecesAre DEF Q
    <3> QED  BY <2>4, <3>1, <3>2, PiecesAre
  <2> QED  BY <2>1, <2>2, <2>3, <2>4
<1>6. ASSUME NEW p \in Later
      PROVE  p[1] \in Nat /\ p[1] > e /\ p[2] \in Nat /\ p[2] > k /\ p[3] \in Nat
  <2>1. CASE \E at \in 1 .. Len(original) : ~Covered(R, at) /\ p = Own(at)
    BY <1>1, <1>6, <2>1, Places
  <2>2. CASE \E q \in R : \E b \in 1 .. Len(Ranked(q).replacement) : p = New(q, b)
    BY <1>1, <1>2, <1>6, <2>2, Places
  <2> QED  BY <1>6, <2>1, <2>2, PiecesAre
<1> DEFINE Leading == Ahead \cup Fresh
<1>7. /\ IsFiniteSet(Gone) /\ Cardinality(Gone) = e
      /\ IsFiniteSet(Ahead) /\ Cardinality(Ahead) = s
      /\ IsFiniteSet(Fresh) /\ Cardinality(Fresh) = r
  <2>1. e \in Nat /\ s \in Nat /\ r \in Nat
    BY <1>1
  <2>2. IsFiniteSet(Gone) /\ Cardinality(Gone) = e
    BY <2>1, OwnRow
  <2>3. IsFiniteSet(Ahead) /\ Cardinality(Ahead) = s
    BY <2>1, OwnRow
  <2>4. IsFiniteSet(Fresh) /\ Cardinality(Fresh) = r
    BY <2>1, NewRow
  <2> QED  BY <2>2, <2>3, <2>4
<1>8. IsFiniteSet(Later)
  <2>1. Later \in SUBSET Old
    OBVIOUS
  <2> HIDE DEF Later, Old
  <2>2. IsFiniteSet(Old)
    BY DEF Old
  <2> QED  BY <2>1, <2>2, FS_Subset
<1>9. /\ \A p \in Gone : p[1] \in Nat /\ p[1] <= e
      /\ \A p \in Ahead : p[1] \in Nat /\ p[1] <= s /\ p[2] = n + 1
      /\ \A p \in Fresh : p[1] = s + 1 /\ p[2] = k
  <2>1. ASSUME NEW p \in Gone PROVE p[1] \in Nat /\ p[1] <= e
    BY <1>1, <2>1, Places
  <2>2. ASSUME NEW p \in Ahead PROVE p[1] \in Nat /\ p[1] <= s /\ p[2] = n + 1
    BY <1>1, <2>2, Places
  <2>3. ASSUME NEW p \in Fresh PROVE p[1] = s + 1 /\ p[2] = k
    BY <2>3, Places DEF s, f
  <2> QED  BY <2>1, <2>2, <2>3
<1> HIDE DEF Gone, Ahead, Fresh, Later, Old, All, n
<1>10. IsFiniteSet(Leading) /\ Cardinality(Leading) = s + r
  <2>1. Ahead \cap Fresh = {}
    BY <1>1, <1>9
  <2>2. /\ IsFiniteSet(Ahead \cup Fresh)
        /\ Cardinality(Ahead \cup Fresh) = Cardinality(Ahead) + Cardinality(Fresh)
    BY <1>7, <2>1, Together
  <2> QED  BY <1>7, <2>2
<1>11. Gone \cap Later = {} /\ Leading \cap Later = {}
  <2>1. ASSUME NEW p \in Later PROVE p \notin Gone /\ p \notin Ahead /\ p \notin Fresh
    BY <1>1, <1>6, <1>9
  <2> QED  BY <2>1
<1>12. Old = Gone \cup Later /\ All = Leading \cup Later
  BY <1>4, <1>5
<1>13. ASSUME NEW p \in Later
       PROVE  /\ \A q \in Gone : NotAfter(q, p)
              /\ \A q \in Leading : NotAfter(q, p)
  BY <1>1, <1>6, <1>9 DEF NotAfter
<1> HIDE DEF Leading
<1>14. /\ Cardinality(Later) \in Nat
       /\ IsFiniteSet(All)
       /\ Cardinality(Old) = e + Cardinality(Later)
       /\ Cardinality(All) = s + r + Cardinality(Later)
  <2>1. Cardinality(Gone \cup Later) = Cardinality(Gone) + Cardinality(Later)
    BY <1>7, <1>8, <1>11, Together
  <2>2. /\ IsFiniteSet(Leading \cup Later)
        /\ Cardinality(Leading \cup Later) = Cardinality(Leading) + Cardinality(Later)
        /\ Cardinality(Later) \in Nat
    BY <1>8, <1>10, <1>11, Together
  <2> QED  BY <1>7, <1>10, <1>12, <2>1, <2>2
<1>15. /\ Len(text) = Cardinality(Old)
       /\ \A p \in Old : text[Cardinality(UpTo(Old, p))] = ByteOf(p)
  BY DEF Spells, Old
<1>16. /\ Len(result) = s + r + (Len(text) - e)
       /\ \A i \in 1 .. s : result[i] = text[i]
       /\ \A i \in 1 .. r : result[s + i] = f.replacement[i]
       /\ \A i \in 1 .. Len(text) - e : result[s + r + i] = text[e + i]
  BY <1>1, ReplacedExactly DEF s, e, r
<1> HIDE DEF result
<1>17. Len(result) = Cardinality(All)
  BY <1>1, <1>14, <1>15, <1>16
<1>18. ASSUME NEW p \in Later PROVE result[Cardinality(UpTo(All, p))] = ByteOf(p)
  <2> DEFINE i == Cardinality(UpTo(Later, p))
  <2>1. /\ p[3] \in Nat /\ \A q \in Gone : NotAfter(q, p)
        /\ \A q \in Leading : NotAfter(q, p)
    BY <1>6, <1>13
  <2>2. Cardinality(UpTo(Gone \cup Later, p)) = Cardinality(Gone) + i
    BY <1>7, <1>8, <1>11, <2>1, UpToSplit
  <2>2a. i \in 1 .. Cardinality(Later)
    BY <1>7, <1>8, <1>11, <2>1, UpToSplit
  <2>3. Cardinality(UpTo(Leading \cup Later, p)) = Cardinality(Leading) + i
    BY <1>8, <1>10, <1>11, <2>1, UpToSplit
  <2> HIDE DEF i
  <2>4. Cardinality(UpTo(Old, p)) = e + i
    BY <1>7, <1>12, <2>2
  <2>5. Cardinality(UpTo(All, p)) = s + r + i
    BY <1>10, <1>12, <2>3
  <2>6. i \in 1 .. Len(text) - e
    BY <1>1, <1>14, <1>15, <2>2a
  <2>7. result[s + r + i] = text[e + i]
    BY <1>16, <2>6
  <2>8. p \in Old
    BY <1>12
  <2>9. text[e + i] = ByteOf(p)
    BY <1>15, <2>4, <2>8
  <2> QED  BY <2>5, <2>7, <2>9
<1>19. ASSUME NEW at \in 1 .. s
       PROVE  result[Cardinality(UpTo(All, Own(at)))] = ByteOf(Own(at))
  <2> DEFINE U == { Own(c) : c \in 1 .. at }
  <2>1. UpTo(Ahead, Own(at)) = U
    BY <1>1, Places DEF UpTo, NotAfter, Ahead
  <2>2. \A q \in Fresh \cup Later : ~NotAfter(q, Own(at))
    <3>1. ASSUME NEW q \in Fresh PROVE ~NotAfter(q, Own(at))
      BY <1>1, <1>9, <3>1, Places DEF NotAfter
    <3>2. ASSUME NEW q \in Later PROVE ~NotAfter(q, Own(at))
      BY <1>1, <1>6, <3>2, Places DEF NotAfter
    <3> QED  BY <3>1, <3>2
  <2>3. UpTo(All, Own(at)) = U
    BY <1>12, <2>1, <2>2 DEF UpTo, Leading
  <2>4. at \in Nat /\ at \in 1 .. e
    BY <1>1
  <2>5. Cardinality(UpTo(All, Own(at))) = at
    BY <2>3, <2>4, OwnRow
  <2>6. result[at] = text[at] /\ text[at] = original[at]
    BY <1>16, <2>4 DEF e, f
  <2>7. ByteOf(Own(at)) = original[at]
    BY Places DEF ByteOf
  <2> QED  BY <2>5, <2>6, <2>7
<1>20. ASSUME NEW b \in 1 .. r
       PROVE  result[Cardinality(UpTo(All, New(k, b)))] = ByteOf(New(k, b))
  <2> DEFINE U == { New(k, c) : c \in 1 .. b }
  <2>1. New(k, b) \in Fresh /\ b \in Nat
    BY <1>1 DEF Fresh
  <2>2. UpTo(Fresh, New(k, b)) = U
    BY <1>1, Places DEF UpTo, NotAfter, Fresh, s, f
  <2>3. Cardinality(UpTo(Fresh, New(k, b))) = b
    BY <2>1, <2>2, NewRow
  <2>4. New(k, b)[3] \in Nat
    BY <2>1, Places
  <2>5. \A q \in Ahead : NotAfter(q, New(k, b))
    BY <1>1, <1>9, Places DEF NotAfter, s, f
  <2>6. Ahead \cap Fresh = {}
    BY <1>1, <1>9
  <2>7. Cardinality(UpTo(Ahead \cup Fresh, New(k, b))) = s + b
    BY <1>7, <2>1, <2>3, <2>4, <2>5, <2>6, UpToSplit
  <2>8. \A q \in Later : ~NotAfter(q, New(k, b))
    BY <1>1, <1>6, Places DEF NotAfter, s, f
  <2>9. UpTo(All, New(k, b)) = UpTo(Ahead \cup Fresh, New(k, b))
    BY <1>12, <2>8 DEF UpTo, Leading
  <2>10. result[s + b] = f.replacement[b]
    BY <1>16
  <2>11. ByteOf(New(k, b)) = f.replacement[b]
    BY <1>1, Places DEF ByteOf, f, n
  <2> QED  BY <2>7, <2>9, <2>10, <2>11
<1>21. \A p \in All : result[Cardinality(UpTo(All, p))] = ByteOf(p)
  <2> SUFFICES ASSUME NEW p \in All PROVE result[Cardinality(UpTo(All, p))] = ByteOf(p)
    OBVIOUS
  <2>1. CASE p \in Later
    BY <1>18, <2>1
  <2>2. CASE p \in Ahead
    BY <1>19, <2>2 DEF Ahead
  <2>3. CASE p \in Fresh
    BY <1>20, <2>3 DEF Fresh
  <2> QED  BY <1>12, <2>1, <2>2, <2>3 DEF Leading
<1> QED  BY <1>14, <1>17, <1>21 DEF Spells, All, Q, result, f

\* A fix of whole characters, with a String for a replacement, changes no boundary up to
\* its start.
LEMMA BoundariesKept ==
  ASSUME NEW text \in Text, NEW f \in FixType, Fits(f, Len(text)),
         f.replacement = << >> \/ f.replacement[1] \notin Continuing,
         IsBoundary(text, f.start), IsBoundary(text, f.end), NEW at \in 0 .. f.start
  PROVE  IsBoundary(Replaced(text, f), at) <=> IsBoundary(text, at)
<1> DEFINE s == f.start
           e == f.end
           r == Len(f.replacement)
           result == Replaced(text, f)
<1>1. /\ s \in Nat /\ e \in Nat /\ r \in Nat /\ Len(text) \in Nat
      /\ s <= e /\ e <= Len(text) /\ (r = 0 <=> f.replacement = << >>)
  BY LenProperties, EmptySeq DEF FixType, Text, Fits
<1>2. /\ Len(result) = s + r + (Len(text) - e)
      /\ \A i \in 1 .. s : result[i] = text[i]
      /\ \A i \in 1 .. r : result[s + i] = f.replacement[i]
      /\ \A i \in 1 .. Len(text) - e : result[s + r + i] = text[e + i]
  BY ReplacedExactly
<1>3. /\ r = 0 \/ f.replacement[1] \notin Continuing
      /\ e = 0 \/ e = Len(text) \/ text[e + 1] \notin Continuing
      /\ IsBoundary(text, s) /\ at \in 0 .. s
  BY <1>1 DEF IsBoundary
<1> HIDE DEF s, e, r, result
<1>4. CASE at < s
  <2>1. at + 1 \in 1 .. s /\ at < Len(text) /\ at < Len(result)
    BY <1>1, <1>2, <1>3, <1>4
  <2>2. result[at + 1] = text[at + 1]
    BY <1>2, <2>1
  <2>3. at # Len(text) /\ at # Len(result)
    BY <1>1, <1>2, <1>3, <2>1
  <2> QED  BY <2>1, <2>2, <2>3 DEF IsBoundary, result
<1>5. CASE at = s /\ s # 0
  <2>1. CASE r = 0 /\ e = Len(text)
    <3>1. Len(result) = s
      BY <1>1, <1>2, <2>1
    <3> QED  BY <1>3, <1>5, <3>1 DEF IsBoundary, result
  <2>2. CASE r = 0 /\ e # Len(text)
    <3>1. /\ 1 \in 1 .. Len(text) - e /\ s < Len(result)
          /\ s + r + 1 = s + 1 /\ e # 0
      BY <1>1, <1>2, <1>5, <2>2
    <3>2. result[s + r + 1] = text[e + 1]
      BY <1>2, <3>1
    <3>3. result[s + 1] \notin Continuing
      BY <1>3, <2>2, <3>1, <3>2
    <3> QED  BY <1>3, <1>5, <3>1, <3>3 DEF IsBoundary, result
  <2>3. CASE r # 0
    <3>1. 1 \in 1 .. r /\ s < Len(result)
      BY <1>1, <1>2, <2>3
    <3>2. result[s + 1] \notin Continuing
      BY <1>2, <1>3, <2>3, <3>1
    <3> QED  BY <1>3, <1>5, <3>1, <3>2 DEF IsBoundary, result
  <2> QED  BY <2>1, <2>2, <2>3
<1>6. CASE at = 0
  BY <1>6 DEF IsBoundary
<1> QED  BY <1>1, <1>3, <1>4, <1>5, <1>6

\* The fixes are ones a rule may offer.
Offered == \A i \in DOMAIN fixes : fixes[i] \in Fixes

\* The half-written text has a boundary where the original has one, as far as the fixes
\* still to be written reach.
Bounded ==
  \A a \in 1 .. next : \A at \in 0 .. Ranked(a).end :
    IsBoundary(source, at) <=> IsBoundary(original, at)

\* It spells the original under the fixes written so far.
Laid ==
  /\ IsFiniteSet(Pieces(Landing(next + 1)))
  /\ Spells(source, Pieces(Landing(next + 1)))

Declines == declined = { chosen[k] : k \in { k \in next + 1 .. Len(chosen) : ~Whole(chosen[k]) } }

WInv == Offered /\ Bounded /\ Laid /\ Declines

\* Before anything is written.
Untouched ==
  /\ TypeOK /\ Offered
  /\ source = original /\ next = Len(chosen) /\ declined = {}

LEMMA UntouchedIsLaid == Untouched => WInv
<1> SUFFICES ASSUME Untouched PROVE WInv
  OBVIOUS
<1>0. TypeOK /\ Offered /\ source = original /\ next = Len(chosen) /\ declined = {}
  BY DEF Untouched
<1>1. Len(chosen) \in Nat
  BY <1>0, ChosenFacts
<1>2. Bounded
  BY <1>0 DEF Bounded
<1>3. Declines
  <2>1. next + 1 .. Len(chosen) = {}
    BY <1>0, <1>1
  <2> QED  BY <1>0, <2>1 DEF Declines
<1>4. Landing(next + 1) = {}
  BY <1>0, <1>1 DEF Landing
<1> DEFINE m == Len(original)
           Row == { Own(at) : at \in 1 .. m }
<1>5. m \in Nat
  BY <1>0, LenProperties DEF TypeOK, Text
<1>6. Pieces(Landing(next + 1)) = Row
  BY <1>4 DEF Pieces, Covered
<1>7. IsFiniteSet(Row) /\ Cardinality(Row) = m
  BY <1>5, OwnRow
<1>8. ASSUME NEW at \in 1 .. m
      PROVE  source[Cardinality(UpTo(Row, Own(at)))] = ByteOf(Own(at))
  <2> DEFINE U == { Own(c) : c \in 1 .. at }
  <2>1. UpTo(Row, Own(at)) = U
    BY <1>5, Places DEF UpTo, NotAfter
  <2>2. at \in Nat
    BY <1>5
  <2>3. Cardinality(UpTo(Row, Own(at))) = at
    BY <2>1, <2>2, OwnRow
  <2>4. ByteOf(Own(at)) = original[at]
    BY Places DEF ByteOf
  <2> QED  BY <1>0, <2>3, <2>4
<1>9. Laid
  <2>1. \A p \in Row : source[Cardinality(UpTo(Row, p))] = ByteOf(p)
    BY <1>8
  <2> HIDE DEF Row
  <2>2. Spells(source, Row)
    BY <1>0, <1>7, <2>1 DEF Spells
  <2> QED  BY <1>6, <1>7, <2>2 DEF Laid
<1> QED  BY <1>0, <1>2, <1>3, <1>9 DEF WInv

\* Steps that write nothing and choose nothing leave all of it alone.
LEMMA SameLaid ==
  ASSUME WInv, UNCHANGED <<original, fixes, chosen, next, source, declined>>
  PROVE  WInv'
<1>1. Offered' /\ Bounded'
  BY DEF WInv, Offered, Bounded, Ranked, IsBoundary
<1>2. Declines'
  BY DEF WInv, Declines, Whole, IsBoundary
<1>3. Landing(next + 1)' = Landing(next + 1)
  BY DEF Landing, Whole, IsBoundary
<1>4. Pieces(Landing(next + 1))' = Pieces(Landing(next + 1))
  BY <1>3 DEF Pieces, Own, New, Ranked, Covered
<1>5. Spells(source, Pieces(Landing(next + 1)))'
  <2> DEFINE P == Pieces(Landing(next + 1))
  <2>1. Spells(source, P)
    BY DEF WInv, Laid
  <2>2. P' = P
    BY <1>4
  <2> HIDE DEF P
  <2>3. Spells(source, P)'
    BY <2>1, <2>2 DEF Spells, UpTo, NotAfter, ByteOf, Ranked
  <2> QED  BY <2>3 DEF P
<1>6. IsFiniteSet(Pieces(Landing(next + 1)))'
  BY <1>4 DEF WInv, Laid
<1> QED  BY <1>1, <1>2, <1>5, <1>6 DEF WInv, Laid

\* Choosing touches no text.
LEMMA ChooseUntouched ==
  ASSUME IInv, WInv, NEW i \in left, Choose(i)
  PROVE  Untouched'
<1>0. TypeOK /\ Unwritten /\ Offered /\ Declines
  BY DEF IInv, WInv
<1>1. /\ source = original /\ next = Len(chosen) /\ Len(chosen) \in Nat
  BY <1>0, ChosenFacts DEF Unwritten
<1>2. declined = {}
  <2>1. next + 1 .. Len(chosen) = {}
    BY <1>1
  <2> QED  BY <1>0, <2>1 DEF Declines
<1>3. TypeOK'
  BY ChooseStep DEF IInv
<1>4. Len(chosen') = Len(chosen) + 1
  <2>1. chosen \in Seq(Applicable) /\ i \in Applicable
    BY <1>0 DEF TypeOK
  <2> QED  BY <2>1, AppendProperties DEF Choose
<1>5. source' = original' /\ declined' = {} /\ next' = Len(chosen') /\ Offered'
  BY <1>0, <1>1, <1>2, <1>4 DEF Choose, Offered
<1> QED  BY <1>3, <1>5 DEF Untouched

LEMMA WriteLaid ==
  ASSUME IInv, WInv, Write
  PROVE  WInv'
<1> DEFINE k == next
           f == Ranked(k)
           R == Landing(k + 1)
<1>0. /\ TypeOK /\ Candidates /\ Chain /\ Kept
      /\ Offered /\ Bounded /\ Laid /\ Declines
  BY DEF IInv, WInv
<1>1. /\ Len(chosen) \in Nat /\ k \in 1 .. Len(chosen) /\ k \in Nat /\ next' = k - 1
      /\ UNCHANGED <<original, fixes, chosen>>
  BY <1>0, ChosenFacts DEF Write, TypeOK
<1>2. /\ chosen[k] \in DOMAIN fixes
      /\ f \in FixType /\ f.start <= f.end /\ f.end <= Len(source)
      /\ f.start \in Nat /\ f.end \in Nat /\ f \in Fixes
  BY <1>0, <1>1, EligibleFacts, FixFacts DEF Candidates, Kept, Offered, Ranked
<1>3. source \in Text /\ Len(source) \in Nat
  BY <1>0, LenProperties DEF TypeOK, Text
<1>4. Whole(chosen[k]) <=> IsBoundary(source, f.start) /\ IsBoundary(source, f.end)
  <2>1. f.start \in 0 .. f.end /\ f.end \in 0 .. f.end /\ k \in 1 .. next
    BY <1>1, <1>2
  <2>2. /\ IsBoundary(source, f.start) <=> IsBoundary(original, f.start)
        /\ IsBoundary(source, f.end) <=> IsBoundary(original, f.end)
    BY <1>0, <2>1 DEF Bounded
  <2> QED  BY <2>2 DEF Whole, Ranked
<1>5. IF Whole(chosen[k])
      THEN source' = Replaced(source, f) /\ declined' = declined
      ELSE source' = source /\ declined' = declined \cup {chosen[k]}
  BY <1>4 DEF Write, Turn, Ranked
<1>6. ASSUME NEW a \in 1 .. k - 1
      PROVE  a \in 1 .. next /\ Ranked(a).end \in Nat /\ Ranked(a).end <= f.start
  <2>1. a \in 1 .. Len(chosen) /\ a < k /\ a \in 1 .. next
    BY <1>1
  <2>2. Ranked(a).end <= f.start
    BY <1>0, <1>1, <2>1 DEF Chain, Ranked
  <2> QED  BY <1>0, <2>1, <2>2, EligibleFacts DEF Candidates, Ranked
<1>7. Offered'
  BY <1>0, <1>1 DEF Offered
<1>8. Bounded'
  <2> SUFFICES ASSUME NEW a \in 1 .. k - 1, NEW at \in 0 .. Ranked(a).end
               PROVE  IsBoundary(source', at) <=> IsBoundary(original, at)
    BY <1>1 DEF Bounded, Ranked, IsBoundary
  <2>1. IsBoundary(source, at) <=> IsBoundary(original, at)
    BY <1>0, <1>6 DEF Bounded
  <2>2. at \in 0 .. f.start
    BY <1>2, <1>6
  <2>3. CASE Whole(chosen[k])
    <3>1. f.replacement = << >> \/ f.replacement[1] \notin Continuing
      BY <1>2, ReplacementsAreStrings
    <3>2. IsBoundary(Replaced(source, f), at) <=> IsBoundary(source, at)
      BY <1>2, <1>3, <1>4, <2>2, <2>3, <3>1, BoundariesKept DEF Fits
    <3> QED  BY <1>5, <2>1, <2>3, <3>2
  <2>4. CASE ~Whole(chosen[k])
    BY <1>5, <2>1, <2>4
  <2> QED  BY <2>3, <2>4
<1>9. k .. Len(chosen) = {k} \cup (k + 1 .. Len(chosen)) /\ k = next' + 1
  BY <1>1
<1>10. Landing(next + 1)' = Landing(k)
  <2>1. Landing(next + 1)' = { j \in next' + 1 .. Len(chosen) : Whole(chosen[j]) }
    BY <1>1 DEF Landing, Whole, IsBoundary
  <2> QED  BY <1>9, <2>1 DEF Landing
<1>11. Landing(k) = IF Whole(chosen[k]) THEN R \cup {k} ELSE R
  BY <1>9 DEF Landing
<1>12. Declines'
  <2> DEFINE Refused(low) == { chosen[j] : j \in { j \in low .. Len(chosen) : ~Whole(chosen[j]) } }
  <2>1. Declines' <=> declined' = Refused(k)
    <3>1. Declines' <=> declined' = { chosen[j] : j \in
                          { j \in next' + 1 .. Len(chosen) : ~Whole(chosen[j]) } }
      BY <1>1 DEF Declines, Whole, IsBoundary
    <3> QED  BY <1>9, <3>1
  <2>2. declined = Refused(k + 1)
    BY <1>0 DEF Declines
  <2>3. Refused(k) = IF Whole(chosen[k]) THEN Refused(k + 1)
                     ELSE Refused(k + 1) \cup {chosen[k]}
    BY <1>9
  <2> HIDE DEF Refused
  <2> QED  BY <1>5, <2>1, <2>2, <2>3
<1>13. /\ IsFiniteSet(Pieces(Landing(k)))
       /\ Spells(source', Pieces(Landing(k)))
  <2>1. IsFiniteSet(Pieces(R)) /\ Spells(source, Pieces(R))
    BY <1>0 DEF Laid
  <2>2. CASE Whole(chosen[k])
    <3>1. \A q \in R : q \in k + 1 .. Len(chosen)
      BY DEF Landing
    <3>2. \A at \in 1 .. f.end : source[at] = original[at]
      BY <1>0, <1>1 DEF Kept, Ranked
    <3> HIDE DEF R
    <3>3. /\ IsFiniteSet(Pieces(R \cup {k}))
          /\ Spells(Replaced(source, f), Pieces(R \cup {k}))
      BY <1>0, <1>1, <1>2, <1>3, <2>1, <3>1, <3>2, Laying
    <3> QED  BY <1>5, <1>11, <2>2, <3>3
  <2>3. CASE ~Whole(chosen[k])
    BY <1>5, <1>11, <2>1, <2>3
  <2> QED  BY <2>2, <2>3
<1>14. Laid'
  <2> DEFINE P == Pieces(Landing(next + 1))
             N == Pieces(Landing(k))
  <2>1. P' = N
    BY <1>1, <1>10 DEF Pieces, Own, New, Ranked, Covered
  <2>2. IsFiniteSet(N) /\ Spells(source', N)
    BY <1>13
  <2> HIDE DEF P, N
  <2>3. Spells(source, P)'
    BY <1>1, <2>1, <2>2 DEF Spells, UpTo, NotAfter, ByteOf, Ranked
  <2>4. IsFiniteSet(P)'
    BY <2>1, <2>2
  <2> QED  BY <2>3, <2>4 DEF Laid, P
<1> QED  BY <1>7, <1>8, <1>12, <1>14 DEF WInv

LEMMA InductiveW == Spec => []WInv
<1>1. Init => WInv
  <2> SUFFICES ASSUME Init PROVE WInv
    OBVIOUS
  <2>1. Untouched
    <3>1. TypeOK
      BY InitIInv DEF IInv
    <3>2. next = Len(chosen)
      BY EmptySeq DEF Init
    <3>3. Offered
      <4>1. PICK n \in 0 .. MaxFixes : fixes \in [1 .. n -> Fixes]
        BY DEF Init
      <4> QED  BY <4>1 DEF Offered
    <3> QED  BY <3>1, <3>2, <3>3 DEF Init, Untouched
  <2> QED  BY <2>1, UntouchedIsLaid
<1>2. Untouched' => WInv'
  BY UntouchedIsLaid, PTL
<1>3. IInv /\ WInv /\ [Next]_vars => WInv'
  <2> SUFFICES ASSUME IInv, WInv, [Next]_vars PROVE WInv'
    OBVIOUS
  <2>1. ASSUME NEW i \in left, Skip(i) PROVE WInv'
    BY <2>1, SameLaid DEF Skip
  <2>2. ASSUME NEW i \in left, Choose(i) PROVE WInv'
    BY <1>2, <2>2, ChooseUntouched
  <2>3. CASE Write
    BY <2>3, WriteLaid
  <2>4. CASE UNCHANGED vars
    BY <2>4, SameLaid DEF vars
  <2> QED  BY <2>1, <2>2, <2>3, <2>4 DEF Next
<1> QED  BY <1>1, <1>3, Inductive, PTL DEF Spec

\* Whatever text and fixes `apply` is given, what it returns is the original with every
\* chosen fix of whole characters laid over it at once, and it declines the others.
THEOREM AppliesAtOnce == Spec => []AppliedAtOnce
<1>1. IInv /\ WInv => AppliedAtOnce
  <2> SUFFICES ASSUME IInv, WInv, Done PROVE AppliedAtOnce
    BY DEF AppliedAtOnce
  <2>1. next + 1 = 1
    BY DEF Done
  <2>2. chosen \in Seq(Applicable)
    BY DEF IInv, TypeOK
  <2>3. DOMAIN chosen = 1 .. Len(chosen)
    BY <2>2, LenProperties
  <2>4. Spells(source, Pieces(Landing(1)))
    BY <2>1 DEF WInv, Laid
  <2>5. declined = { chosen[k] : k \in { k \in DOMAIN chosen : ~Whole(chosen[k]) } }
    BY <2>1, <2>3 DEF WInv, Declines
  <2> QED  BY <2>4, <2>5 DEF AppliedAtOnce
<1> QED  BY <1>1, Inductive, InductiveW, PTL
=============================================================================
