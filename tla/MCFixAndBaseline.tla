-------------------------- MODULE MCFixAndBaseline --------------------------
(***************************************************************************)
(* The two algorithms of lanekeep-core that `check` runs to completion on  *)
(* data of its own, FixApply and Baseline, for TLC in one run: a behaviour *)
(* is one of either, and the other has nothing to do.                      *)
(*                                                                         *)
(* FixApply has a text with a two-byte character in the middle, offered up *)
(* to three fixes of every range that put another one there, some that     *)
(* delete, one suggestion, one inverted range and one past the end.        *)
(* Baseline has an ordinary key, one outside the run's scope and one that  *)
(* may not be recorded; counts saturate at 2, and a run finds up to four.  *)
(***************************************************************************)
EXTENDS FixApply, Baseline

CONSTANTS ordinary, elsewhere, directive

MCBytes == {"a", "b", "c2", "c3", "d2", "d3", "z"}
MCContinuing == {"c3", "d3"}
MCSources == {<<"a", "c2", "c3", "b">>}

Fix(start, end, replacement, safe) ==
  [start |-> start, end |-> end, replacement |-> replacement, safe |-> safe]

Ranges == { r \in (0 .. 4) \X (0 .. 4) : r[1] <= r[2] }

MCFixes ==
  { Fix(r[1], r[2], <<"d2", "d3">>, TRUE) : r \in Ranges }
    \cup { Fix(r[1], r[2], << >>, TRUE) : r \in Ranges \cap {<<0, 1>>, <<1, 3>>, <<0, 4>>} }
    \cup { Fix(0, 4, <<"z">>, FALSE), Fix(3, 1, <<"z">>, TRUE), Fix(3, 5, <<"z">>, TRUE) }

MCKeys == {ordinary, elsewhere, directive}
MCExempt == {directive}
MCUnseen == {elsewhere}

\* A text nobody offers a fix for, and a run that finds nothing with no file to compare.
NothingToFix == fixes = << >>
NothingFound == found = << >> /\ entries = << >>

MCInit ==
  \/ NothingFound /\ Init /\ BaselineInit
  \/ NothingToFix /\ Init /\ BaselineInit

MCNext ==
  \/ NothingFound /\ Next /\ UNCHANGED baselineVars
  \/ NothingToFix /\ BaselineNext /\ UNCHANGED vars

MCSpec == MCInit /\ [][MCNext]_<<vars, baselineVars>>
=============================================================================
