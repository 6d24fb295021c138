--------------------------- MODULE MCTypeSidecar ---------------------------
(* Small instances of TypeSidecar for TLC.                                 *)
EXTENDS TypeSidecar
CONSTANTS t1, t2

MCThreads == {t1, t2}
=============================================================================
