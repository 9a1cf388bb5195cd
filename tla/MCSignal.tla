------------------------------ MODULE MCSignal ------------------------------
(***************************************************************************)
(* Small instances of Signal for TLC.                                      *)
(***************************************************************************)
EXTENDS Signal, TLC

CONSTANTS t1, t2, t3

MCThreads == {t1, t2, t3}
=============================================================================
