---------------------------- MODULE MCExtractRun ----------------------------
(***************************************************************************)
(* Instances of ExtractRun for TLC.  The configurations differ in which    *)
(* interruptions happen and which settings the operator uses.              *)
(***************************************************************************)
EXTENDS ExtractRun, TLC

\* The hashes are interchangeable: nothing orders an input and its revision.
\* Used by the runs that check no liveness.
HashSymmetry == Permutations(Hashes)
=============================================================================
