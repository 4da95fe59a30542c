---------------------------- MODULE MCLedgerRuns ----------------------------
(***************************************************************************)
(* Instances of LedgerRuns for TLC.                                        *)
(***************************************************************************)
EXTENDS LedgerRuns, TLC

\* Each unit has a key of its own.
OwnKeys == [u \in Units |-> u]

\* The titles of all units make the same slug.
OneKey == [u \in Units |-> 1]

\* Neither the versions nor the runs are ordered.
Symmetry == Permutations(Versions) \cup Permutations(Runs)
=============================================================================
