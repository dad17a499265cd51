------------------------------ MODULE MCReport ------------------------------
(***************************************************************************)
(* Values for TLC.  The two threads are alike, and the run checks          *)
(* invariants only, so that they are taken as symmetric.                   *)
(***************************************************************************)
EXTENDS Report, TLC

CONSTANTS Sysc, OsThread

MCReporters == {Sysc, OsThread}
MCNonwarnings == <<"DEBUG", "NOTE">>
MCSymmetry == Permutations(MCReporters)
=============================================================================
