---------------------------- MODULE EngineRunOrder ----------------------------
(***************************************************************************)
(* EngineRun, with a record of which failure was the first to happen: the  *)
(* doc comment of `Engine::run` says of the failure it returns that it is  *)
(* the first any worker produced.                                          *)
(***************************************************************************)
EXTENDS EngineRun

VARIABLE first      \* history: the first error a thread pushed in this run

orderVars == <<vars, first>>

OrderInit == Init /\ first = NoError

\* The files whose error this step pushed: done.push with an Err.
Produced == {f \in Files : result[f].state = "pending" /\ result'[f].state = "err"}

OrderNext ==
    /\ Next
    /\ first' \in IF outcome # NoError /\ outcome' = NoError THEN {NoError}
                  ELSE IF first = NoError /\ Produced # {}
                       THEN {result'[f].error : f \in Produced}
                       ELSE {first}

OrderSpec == OrderInit /\ [][OrderNext]_orderVars

\* A run that fails in its workers returns "the first [`RunError`] any worker
\* produced" (the doc comment of Engine::run); check_files sorts by file instead.
FirstProduced == phase = "ended" /\ Failed # {} => outcome = first
=============================================================================
