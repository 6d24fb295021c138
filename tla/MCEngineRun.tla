---------------------------- MODULE MCEngineRun ----------------------------
(* Small instances of EngineRun for TLC.                                   *)
EXTENDS EngineRun, TLC

\* The threads are alike: every Worker begins empty, and none is named by a property.
Alike == Permutations(Workers)

\* A gated file, a handler that asks the provider and then a component that runs, a
\* component that fails.
MCProfiles ==
    {[kind |-> "skip",  steps |-> <<>>],
     [kind |-> "parse", steps |-> <<"query", "component">>],
     [kind |-> "parse", steps |-> <<"component_fail">>]}

MCModes ==
    {[coverage |-> "Whole", caching |-> TRUE, reduce |-> "ok"],
     [coverage |-> "Partial", caching |-> TRUE, reduce |-> "none"],
     [coverage |-> "Whole", caching |-> FALSE, reduce |-> "fail"]}

\* Every exit before the handlers, files whose rules do not fail, with two handler
\* calls each, and those whose component or module handler does.
MCLiveProfiles ==
    {[kind |-> "empty", steps |-> <<>>],
     [kind |-> "parse", steps |-> <<"module", "module">>],
     [kind |-> "parse", steps |-> <<"query", "component">>],
     [kind |-> "parse", steps |-> <<"component_fail", "module">>],
     [kind |-> "parse", steps |-> <<"module_fail", "component">>]}

MCLiveModes ==
    {[coverage |-> c, caching |-> TRUE, reduce |-> "ok"] : c \in {"Whole", "Partial"}}
=============================================================================
