-------------------------- MODULE MCEngineRunOrder --------------------------
(* The smallest instance of EngineRunOrder in which two workers fail.      *)
EXTENDS EngineRunOrder

MCProfiles == {[kind |-> "parse", steps |-> <<"module_fail">>]}

MCModes == {[coverage |-> "Whole", caching |-> TRUE, reduce |-> "ok"]}
=============================================================================
