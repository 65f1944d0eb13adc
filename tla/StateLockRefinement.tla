------------------------- MODULE StateLockRefinement -------------------------
(* StateLock implements AbstractLock.                                      *)
EXTENDS StateLockInvariant

(* A live process has the lock from the end of its verification to the     *)
(* start of its release; a dead one as long as the directory at the path   *)
(* carries its name.                                                       *)
Left(p) == Dead(p) /\ path # NoDir /\ Claims(owner[path], path) /\ owner[path].proc = p

Holders == {p \in Procs : Held(p) \/ Left(p)}

Deads == {p \in Procs : Dead(p)}

Lock == INSTANCE AbstractLock WITH holders <- Holders, dead <- Deads

(* withLock, withWorkspaceAdmission and acquireWorkspaceProcessLease keep  *)
(* the promise of AbstractLock: nobody runs while another has the lock or  *)
(* while a dead process's lock still stands, a lock is taken away from the *)
(* dead only, and it is taken away.                                        *)
ImplementsLock == Lock!Spec

(* The same without the promise that it is taken away.                     *)
ImplementsLockSafely == Lock!Safe

=============================================================================
