------------------------------ MODULE Baseline ------------------------------
(***************************************************************************)
(* Baselines: lanekeep-core/src/baseline.rs, `Baseline::record`, the walk  *)
(* of `Baseline::apply`, and the two modes of lanekeep-cli's baseline.rs.  *)
(*                                                                         *)
(* A run's violations are a sequence of keys, in canonical order: a key is *)
(* the rule, the file and the fingerprint of the reported line, so several *)
(* violations may share one.  Under `--write-baseline` the entries are     *)
(* recorded from the run and the run is filtered against them at once;     *)
(* under `--baseline` they come from a file, which somebody may have       *)
(* edited, so that one key can have several entries.                       *)
(***************************************************************************)
EXTENDS Naturals, Sequences, FiniteSets

CONSTANTS
  Keys,       \* what identifies a violation: rule, file, fingerprint
  Exempt,     \* the keys of `lanekeep/suppression`, which is not baselineable
  Unseen,     \* the keys the run's scope does not cover
  CountMax,   \* the largest count an entry holds, 2^32 - 1 in the code
  MaxFound,   \* bound: how many violations a run finds
  MaxEntries  \* bound: how many entries a baseline file has

ASSUME ExemptAreKeys == Exempt \subseteq Keys
ASSUME UnseenAreKeys == Unseen \subseteq Keys
ASSUME CountMaxIsPositive == CountMax \in Nat \ {0}
ASSUME BoundsAreNat == MaxFound \in Nat /\ MaxEntries \in Nat

Counts == 0 .. CountMax

Entry == [key : Keys, count : Counts]

VARIABLES
  mode,      \* "write" or "compare"
  found,     \* the run's violations, by key, in the order given
  entries,   \* the entries of the file compared against
  phase,     \* "record", "load", "walk" or "done"
  at,        \* how much of the phase's input is done
  remaining, \* per key, how many violations the baseline still accepts
  covered,   \* the positions of found the baseline hides
  new,       \* the positions of found that are reported
  stale      \* keys called stale, each with the count that did not occur

baselineVars == <<mode, found, entries, phase, at, remaining, covered, new, stale>>

Sequences(S, n) == UNION { [1 .. k -> S] : k \in 0 .. n }

BaselineTypeOK ==
  /\ mode \in {"write", "compare"}
  /\ found \in Seq(Keys)
  /\ entries \in Seq(Entry)
  /\ phase \in {"record", "load", "walk", "done"}
  /\ at \in 0 .. IF phase = "load" THEN Len(entries) ELSE Len(found)
  /\ remaining \in [Keys -> Counts]
  /\ covered \subseteq 1 .. Len(found)
  /\ new \subseteq 1 .. Len(found)
  /\ stale \subseteq Entry

-----------------------------------------------------------------------------
\* `u32::wrapping_add`, in its place.
MutPlus(a, b) == (a + b) % (CountMax + 1)

\* `u32::saturating_add`.
Plus(a, b) == IF a + b > CountMax THEN CountMax ELSE a + b

Baselineable(k) == k \notin Exempt

\* The last of them stands.
MutAccepting(k, n) == [remaining EXCEPT ![k] = n]

\* Duplicate entries of one key sum their counts.
Accepting(k, n) == [remaining EXCEPT ![k] = Plus(@, n)]

\* Whether the violation at hand is hidden, given what the baseline still accepts.
IsCovered(k, left) == Baselineable(k) /\ left > 0

\* Last first.
MutInTurn(n) == Len(found) - n

\* The walk takes the violations in the order given.
InTurn(n) == n + 1

MutCovers(k) == TRUE

\* `Scope::covers`.
Covers(k) == k \notin Unseen

-----------------------------------------------------------------------------
BaselineInit ==
  /\ found \in Sequences(Keys, MaxFound)
  /\ \/ mode = "write" /\ entries = << >> /\ phase = "record"
     \/ mode = "compare" /\ entries \in Sequences(Entry, MaxEntries) /\ phase = "load"
  /\ at = 0
  /\ remaining = [k \in Keys |-> 0]
  /\ covered = {}
  /\ new = {}
  /\ stale = {}

\* `--write-baseline`: one more violation is counted into its entry.
Record ==
  /\ phase = "record" /\ at < Len(found)
  /\ LET k == found[at + 1]
     IN remaining' = IF Baselineable(k) THEN Accepting(k, 1) ELSE remaining
  /\ at' = at + 1
  /\ UNCHANGED <<mode, found, entries, phase, covered, new, stale>>

\* `--baseline`: one more entry of the file is taken in.
Load ==
  /\ phase = "load" /\ at < Len(entries)
  /\ LET e == entries[at + 1]
     IN remaining' = IF Baselineable(e.key) THEN Accepting(e.key, e.count) ELSE remaining
  /\ at' = at + 1
  /\ UNCHANGED <<mode, found, entries, phase, covered, new, stale>>

\* What was recorded is written out, and read back as it stands, as entries with a
\* count above zero: `entries` of the source.
Written(counts) == { e \in Entry : e.count > 0 /\ e.count = counts[e.key] }

StartWalk ==
  /\ \/ phase = "record" /\ at = Len(found)
     \/ phase = "load" /\ at = Len(entries)
  /\ phase' = "walk"
  /\ at' = 0
  /\ UNCHANGED <<mode, found, entries, remaining, covered, new, stale>>

\* One violation is hidden against the count left, or reported.
Walk ==
  /\ phase = "walk" /\ at < Len(found)
  /\ LET i == InTurn(at)
         k == found[i]
     IN \/ /\ IsCovered(k, remaining[k])
           /\ remaining' = [remaining EXCEPT ![k] = @ - 1]
           /\ covered' = covered \cup {i}
           /\ new' = new
        \/ /\ ~IsCovered(k, remaining[k])
           /\ new' = new \cup {i}
           /\ UNCHANGED <<remaining, covered>>
  /\ at' = at + 1
  /\ UNCHANGED <<mode, found, entries, phase, stale>>

Settle ==
  /\ phase = "walk" /\ at = Len(found)
  /\ stale' = { e \in Written(remaining) : Covers(e.key) }
  /\ phase' = "done"
  /\ UNCHANGED <<mode, found, entries, at, remaining, covered, new>>

BaselineNext == Record \/ Load \/ StartWalk \/ Walk \/ Settle

BaselineSpec == BaselineInit /\ [][BaselineNext]_baselineVars
-----------------------------------------------------------------------------
(***************************************************************************)
(* Properties.  The reference counts instead of walking.                   *)
(***************************************************************************)

\* Of some positions, those at which a key was found.
Of(k, positions) == { i \in positions : found[i] = k }

Found(k) == Cardinality(Of(k, 1 .. Len(found)))

Hidden(k) == Cardinality(Of(k, covered))

Least(m, n) == IF m < n THEN m ELSE n

\* What the first n entries stand for under a key, one by one: an entry accepts as many
\* violations as its count.
Taken(k, n) ==
  { v \in (1 .. n) \X (1 .. CountMax) : entries[v[1]].key = k /\ v[2] <= entries[v[1]].count }

\* The counts of all entries of a key, summed as numbers without a width.
Summed(k) == Cardinality(Taken(k, Len(entries)))

\* How many violations of a key the baseline accepts.
Accepted(k) ==
  IF ~Baselineable(k) THEN 0
  ELSE Least(CountMax, IF mode = "write" THEN Found(k) ELSE Summed(k))

\* Entries are a multiset: of every key exactly as many violations are hidden as the
\* baseline accepts, all of them if it accepts more, and `lanekeep/suppression` never
\* (baseline.rs `Baseline::apply`, also where entries are duplicated or counts saturate).
ExactlyAccepted ==
  phase = "done" =>
    \A k \in Keys : /\ Hidden(k) = Least(Found(k), Accepted(k))
                    /\ Hidden(k) + Cardinality(Of(k, new)) = Found(k)

\* When a copy of a recorded line is added it is the later copy that is reported
\* (baseline.rs, "Counting").
LaterCopyReported ==
  \A i \in new : \A j \in covered : found[i] = found[j] => j < i

\* No key is both new and stale: what is left of an entry says that all of the run's
\* violations of its key were hidden (baseline.rs `Baseline::apply`).
NewNeverStale == \A i \in new : \A e \in stale : e.key # found[i]

\* An entry is called stale exactly when the run could have seen it and found fewer
\* than it accepts, with the difference as its count (baseline.rs `Scope`, `apply`).
StaleExactly ==
  phase = "done" =>
    stale = { e \in Entry : /\ e.key \notin Unseen
                            /\ e.count > 0
                            /\ Accepted(e.key) = Found(e.key) + e.count }

\* Adopting a baseline leaves nothing to report but what may not be recorded: straight
\* after `--write-baseline` every other violation is hidden and no entry is stale
\* (cli baseline.rs `apply`, Mode::Write), as long as no count saturates.
AdoptionClean ==
  mode = "write" /\ phase = "done" /\ (\A k \in Keys : Found(k) <= CountMax) =>
    /\ \A i \in new : found[i] \in Exempt
    /\ stale = {}
=============================================================================
