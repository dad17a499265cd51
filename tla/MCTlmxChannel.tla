--------------------------- MODULE MCTlmxChannel ---------------------------
(***************************************************************************)
(* Model values and mutants of TlmxChannel for TLC.                        *)
(***************************************************************************)
EXTENDS TlmxChannel, TLC

CONSTANTS t1, t2, p1, p2

MCThreads == {t1, t2}
MCPackets == {p1, p2}
MCSymmetry == Permutations(MCThreads) \cup Permutations(MCPackets)
=============================================================================
