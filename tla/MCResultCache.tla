--------------------------- MODULE MCResultCache ---------------------------
(* Small instances of ResultCache for TLC.                                 *)
EXTENDS ResultCache, TLC

\* File "a" with content "c1": look at "x"; when it is there list "d" and look at
\* "x" again, when not ask for the date.  Content "e1" carries an expiry and lists
\* "d".  Any other content asks nothing.
MCAsk(f, c, t) ==
    LET n == Len(t)
        read(p) == [op |-> "read", path |-> p]
        list(p) == [op |-> "list", path |-> p] IN
    IF f = "a" /\ c = "c1"
    THEN IF n = 0 THEN read("x")
         ELSE IF t[1].ans.kind = "Found"
              THEN IF n = 1 THEN list("d") ELSE IF n = 2 THEN read("x") ELSE Done
              ELSE IF n = 1 /\ t[1].ans.kind = "Absent" THEN Today ELSE Done
    ELSE IF c = "e1" THEN IF n = 0 THEN list("d") ELSE Done
    ELSE Done

MCPaths == {"a", "b", "x", "d"}
MCContents == {"c1", "e1", "k1"}

MCValues == [p \in MCPaths |->
    CASE p = "a" -> {"c1", "e1", Absent}
      [] p = "b" -> {"k1"}
      [] p = "x" -> {"k1", Absent, Refused}
      [] p = "d" -> {"l1", Refused}]

MCSeeds == {[p \in MCPaths |-> CASE p = "a" -> "c1" [] p = "b" -> "k1"
                                 [] p = "x" -> v [] p = "d" -> "l1"] : v \in {"k1", Absent}}

\* Processes are interchangeable.
MCSymmetry == Permutations(Procs)
=============================================================================
