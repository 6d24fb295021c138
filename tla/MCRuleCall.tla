---------------------------- MODULE MCRuleCall ----------------------------
(* A small instance of RuleCall for TLC.                                   *)
EXTENDS RuleCall

\* Two rules of one component and one of another.
MCInstanceOf == [s \in Slots |-> IF s = "s3" THEN "i2" ELSE "i1"]
=============================================================================
