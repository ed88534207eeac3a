------------------------- MODULE MCCrashConsistency -------------------------
(***************************************************************************)
(* CrashConsistency on a small disk.                                       *)
(***************************************************************************)
EXTENDS CrashConsistency, TLC

\* No definition tells two names of the user apart.
Symmetry == Permutations(UserNames)
=============================================================================
