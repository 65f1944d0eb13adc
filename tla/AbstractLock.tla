----------------------------- MODULE AbstractLock -----------------------------
(* What the state lock promises to the code that uses it, whatever happens *)
(* in the file system: a process takes the lock when nobody has it, gives  *)
(* it back, or dies.  A process that dies with the lock, or on its way to  *)
(* or from it, may leave it taken; then somebody takes it away from the    *)
(* dead before anybody has it again.  Nobody takes it from the living.     *)
CONSTANT Procs

VARIABLES
  holders,   \* who has the lock, the dead included
  dead       \* the processes that died

vars == <<holders, dead>>

Init == holders = {} /\ dead = {}

Acquire(p) ==
  /\ p \notin dead
  /\ holders = {}
  /\ holders' = {p}
  /\ UNCHANGED dead

Release(p) ==
  /\ p \notin dead
  /\ holders = {p}
  /\ holders' = {}
  /\ UNCHANGED dead

Die(p) ==
  /\ p \notin dead
  /\ dead' = dead \cup {p}
  /\ \/ UNCHANGED holders
     \/ holders = {} /\ holders' = {p}

Reclaim ==
  /\ \E p \in dead : holders = {p}
  /\ holders' = {}
  /\ UNCHANGED dead

Next == Reclaim \/ \E p \in Procs : Acquire(p) \/ Release(p) \/ Die(p)

Safe == Init /\ [][Next]_vars

(* What a dead process has does not stay taken.                            *)
Spec == Safe /\ WF_vars(Reclaim)

=============================================================================
