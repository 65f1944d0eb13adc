--------------------------- MODULE MCWorkerMailbox ---------------------------
(***************************************************************************)
(* The worker mailbox on a small instance, and its properties.             *)
(***************************************************************************)
EXTENDS WorkerMailboxRefinement, TLC

Symmetry == Permutations(Keys)
=============================================================================
