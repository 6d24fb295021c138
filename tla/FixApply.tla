------------------------------ MODULE FixApply ------------------------------
(***************************************************************************)
(* `apply` of lanekeep-core/src/fix.rs: what `--fix` does to the text of   *)
(* one file, given the fixes rules offered for it.                         *)
(*                                                                         *)
(* The candidates are taken in the order of the sort, (start, end) and,    *)
(* since the sort is stable, the order they were given in; each is chosen  *)
(* or skipped against the last one chosen alone.  Then the chosen ones are *)
(* written, last first, each at the offsets it had in the original text.   *)
(*                                                                         *)
(* A text is a sequence of bytes; of a byte only what it is and whether it *)
(* continues a character are kept.  Offsets count from 0, as in the code.  *)
(***************************************************************************)
EXTENDS Naturals, Sequences, FiniteSets

CONSTANTS
  Bytes,        \* the bytes a text is made of
  Continuing,   \* those that continue a multi-byte character
  Sources,      \* the texts a file may hold
  Fixes,        \* the fixes rules may offer
  MaxFixes      \* bound: how many fixes are offered for the file

Text == Seq(Bytes)

FixType == [start : Nat, end : Nat, replacement : Text, safe : BOOLEAN]

ASSUME ContinuingAreBytes == Continuing \subseteq Bytes
ASSUME SourcesAreTexts == Sources \subseteq Text
ASSUME FixesAreFixes == Fixes \subseteq FixType
\* A replacement is a String: it starts where a character starts.
ASSUME ReplacementsAreStrings ==
  \A f \in Fixes : f.replacement = << >> \/ f.replacement[1] \notin Continuing
ASSUME MaxFixesIsNat == MaxFixes \in Nat

VARIABLES
  original, \* the source `apply` was called with
  fixes,    \* the fixes it was called with, in the order given
  left,     \* candidates not yet considered, as indices of fixes
  chosen,   \* the chosen fixes, as indices, in the order of the sort
  skipped,  \* the count of those skipped
  next,     \* how many of the chosen are still to be written
  source,   \* the text being rewritten
  declined  \* the chosen fixes the boundary guard declined to write

vars == <<original, fixes, left, chosen, skipped, next, source, declined>>

-----------------------------------------------------------------------------
Overlaps(f, g) == f.start < g.end /\ g.start < f.end

Fits(f, len) == f.start <= f.end /\ f.end <= len

\* Without the sort: candidates in the order rules offered them.
MutBefore(i, j) == i < j

\* Without the second key.
MutStartOnly(i, j) ==
  \/ fixes[i].start < fixes[j].start
  \/ fixes[i].start = fixes[j].start /\ i < j

\* The order of the sort; the index stands for its stability.
Before(i, j) ==
  \/ fixes[i].start < fixes[j].start
  \/ fixes[i].start = fixes[j].start /\ fixes[i].end < fixes[j].end
  \/ fixes[i].start = fixes[j].start /\ fixes[i].end = fixes[j].end /\ i < j

Eligible(text, offered) ==
  { i \in DOMAIN offered : offered[i].safe /\ Fits(offered[i], Len(text)) }

\* Adjacent taken for overlapping.
MutClaimed(i) ==
  LET last == fixes[chosen[Len(chosen)]]
  IN chosen # << >> /\ last.start <= fixes[i].end /\ fixes[i].start <= last.end

\* Whether the last chosen fix already claims bytes of candidate i.
Claimed(i) ==
  chosen # << >> /\ Overlaps(fixes[chosen[Len(chosen)]], fixes[i])

\* `str::is_char_boundary`.
IsBoundary(text, at) ==
  \/ at = 0 \/ at = Len(text)
  \/ at < Len(text) /\ text[at + 1] \notin Continuing

\* `String::replace_range`.
Replaced(text, f) ==
  SubSeq(text, 1, f.start) \o f.replacement \o SubSeq(text, f.end + 1, Len(text))

\* First first.
MutTurn(n) == Len(chosen) + 1 - n

\* Which of the chosen is written when n are left: the last of them.
Turn(n) == n

-----------------------------------------------------------------------------
Init ==
  /\ original \in Sources
  /\ fixes \in UNION { [1 .. n -> Fixes] : n \in 0 .. MaxFixes }
  /\ left = Eligible(original, fixes)
  /\ chosen = << >>
  /\ skipped = 0
  /\ next = 0
  /\ source = original
  /\ declined = {}

First(i) == i \in left /\ \A j \in left \ {i} : Before(i, j)

Skip(i) ==
  /\ First(i) /\ Claimed(i)
  /\ left' = left \ {i}
  /\ skipped' = skipped + 1
  /\ UNCHANGED <<original, fixes, chosen, next, source, declined>>

Choose(i) ==
  /\ First(i) /\ ~Claimed(i)
  /\ left' = left \ {i}
  /\ chosen' = Append(chosen, i)
  /\ next' = next + 1
  /\ UNCHANGED <<original, fixes, skipped, source, declined>>

\* The fix whose turn it is lands, if its range still names whole characters.
Write ==
  /\ left = {} /\ next > 0
  /\ LET i == chosen[Turn(next)]
         whole == IsBoundary(source, fixes[i].start) /\ IsBoundary(source, fixes[i].end)
     IN IF whole
        THEN source' = Replaced(source, fixes[i]) /\ declined' = declined
        ELSE source' = source /\ declined' = declined \cup {i}
  /\ next' = next - 1
  /\ UNCHANGED <<original, fixes, left, chosen, skipped>>

Next ==
  \/ \E i \in left : Skip(i) \/ Choose(i)
  \/ Write

Spec == Init /\ [][Next]_vars

-----------------------------------------------------------------------------
\* "Only safe fixes, only ranges that fit."
Applicable ==
  { i \in DOMAIN fixes : /\ fixes[i].safe
                         /\ fixes[i].start <= fixes[i].end
                         /\ fixes[i].end <= Len(original) }

TypeOK ==
  /\ original \in Text
  /\ \E n \in 0 .. MaxFixes : fixes \in [1 .. n -> FixType]
  /\ left \subseteq Applicable
  /\ chosen \in Seq(Applicable)
  /\ skipped \in Nat
  /\ next \in 0 .. Len(chosen)
  /\ source \in Text
  /\ declined \subseteq DOMAIN fixes

Done == left = {} /\ next = 0

\* No two chosen fixes touch the same bytes, although each candidate was compared with
\* the last chosen one only (fix.rs `apply`).
ChosenDisjoint ==
  \A a, b \in 1 .. Len(chosen) :
    a < b => ~Overlaps(fixes[chosen[a]], fixes[chosen[b]])

\* Writing last first keeps every offset valid: up to the end of each fix that is still
\* to be written, the text is the original one (fix.rs `apply`, "last first").
OffsetsValid ==
  left = {} =>
    \A a \in 1 .. next :
      LET f == fixes[chosen[a]]
      IN /\ f.end <= Len(source)
         /\ \A at \in 1 .. f.end : source[at] = original[at]

\* One of any overlapping group, and no fewer: a candidate is left out only if a chosen
\* fix that comes before it in the sort claims bytes of its range, so which one wins
\* does not depend on the order rules ran in unless the two ranges are the same.
SkippedForCause ==
  /\ skipped + Cardinality(left) + Len(chosen) = Cardinality(Eligible(original, fixes))
  /\ \A j \in Eligible(original, fixes) \ left :
       \/ \E a \in 1 .. Len(chosen) : chosen[a] = j
       \/ \E a \in 1 .. Len(chosen) :
            Overlaps(fixes[chosen[a]], fixes[j]) /\ Before(chosen[a], j)

-----------------------------------------------------------------------------
(***************************************************************************)
(* The reference: fixes laid over the original all at once.  What comes    *)
(* out is made of pieces, each with its place <<at, rank, b>>: byte b of   *)
(* the replacement of rank `rank` among the chosen, ahead of position `at` *)
(* of the original; and, behind those, each byte of the original that no   *)
(* range covers.  A text spells the pieces if it has as many bytes and     *)
(* each piece stands behind all that have an earlier place.                *)
(***************************************************************************)
Whole(i) == IsBoundary(original, fixes[i].start) /\ IsBoundary(original, fixes[i].end)

\* The ranks from `low` up whose fixes name whole characters of the original.
Landing(low) == { k \in low .. Len(chosen) : Whole(chosen[k]) }

Ranked(k) == fixes[chosen[k]]

Own(at) == <<at, Len(chosen) + 1, 1>>

New(k, b) == <<Ranked(k).start + 1, k, b>>

Covered(ranks, at) == \E k \in ranks : Ranked(k).start < at /\ at <= Ranked(k).end

Pieces(ranks) ==
  { Own(at) : at \in { at \in 1 .. Len(original) : ~Covered(ranks, at) } }
    \cup UNION { { New(k, b) : b \in 1 .. Len(Ranked(k).replacement) } : k \in ranks }

ByteOf(p) ==
  IF p[2] = Len(chosen) + 1 THEN original[p[1]] ELSE Ranked(p[2]).replacement[p[3]]

NotAfter(p, q) ==
  \/ p[1] < q[1]
  \/ p[1] = q[1] /\ p[2] < q[2]
  \/ p[1] = q[1] /\ p[2] = q[2] /\ p[3] <= q[3]

UpTo(pieces, p) == { q \in pieces : NotAfter(q, p) }

Spells(text, pieces) ==
  /\ Len(text) = Cardinality(pieces)
  /\ \A p \in pieces : text[Cardinality(UpTo(pieces, p))] = ByteOf(p)

\* The text `apply` returns is the original with every chosen fix applied at once
\* (fix.rs `apply`): the order of writing and the changing lengths make no difference,
\* and the guard, taken on the half-written text, declines what it would decline on the
\* original.
AppliedAtOnce ==
  Done => /\ Spells(source, Pieces(Landing(1)))
          /\ declined = { chosen[k] : k \in { k \in DOMAIN chosen : ~Whole(chosen[k]) } }
=============================================================================
