--------------------------- MODULE MCCheckCommand ---------------------------
(***************************************************************************)
(* CheckCommand on two files.  The first has a fixable line; the second    *)
(* ranges over texts that show each rule.  One edit, or one deletion.      *)
(***************************************************************************)
EXTENDS CheckCommand

MCFiles == {1, 2}
MCLines == {"bad", "good", "ugly", "export", "import", "idle", ""}
MCTexts == { <<"good">>, <<"import", "bad">> }

First  == { <<"bad", "ugly">>, <<"import", "bad">>, <<"good">> }
Second == { <<"bad", "ugly", "bad">>, <<"export", "ugly">>, <<"idle", "bad">> }
MCOriginals == { [f \in MCFiles |-> IF f = 1 THEN a ELSE b] : a \in First, b \in Second }

E(rule, file, line, count) ==
  [rule |-> rule, file |-> file, line |-> line, count |-> count]

\* Nothing, and what an earlier run of each rule may have left.
MCBaselines ==
  { {},
    { E("style", 1, "ugly", 1), E("style", 2, "bad", 1), E("exports", 2, "export", 1) },
    { E("style", 1, "bad", 1), E("style", 2, "ugly", 2), E("exports", 1, "export", 1) } }

Command(narrowed, picked, fix, unused, baseline) ==
  [narrowed |-> narrowed, picked |-> picked, fix |-> fix, unused |-> unused,
   baseline |-> baseline]

MCOptions ==
  { o \in [narrowed : BOOLEAN, picked : SUBSET MCFiles, fix : BOOLEAN, unused : BOOLEAN,
           baseline : {"off", "compare", "write"}] :
      /\ o.narrowed => o.baseline # "write"
      /\ ~o.narrowed => o.picked = {} }

MCOptionsNarrowed == { Command(TRUE, {1}, TRUE, FALSE, "off") }
=============================================================================
