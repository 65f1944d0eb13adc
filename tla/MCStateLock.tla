----------------------------- MODULE MCStateLock -----------------------------
(* Instances of StateLock for TLC.                                         *)
EXTENDS StateLockRefinement, TLC

(* Processes and directory identities are interchangeable.                 *)
Symmetry == Permutations(Procs) \cup Permutations(Dirs)
=============================================================================
