--------------------------- MODULE StateLockProofs ---------------------------
(* Theorems of StateLock and their proofs.                                 *)
EXTENDS StateLockRefinement, TLAPS

(* What the lemmas on a single step assume of the state.                   *)
TypeInv == TypeOK /\ GenKnown

(* The provisional owner, if there is a single one, is an owner record.    *)
LEMMA ProvisionalType ==
  ASSUME TypeOK, NEW d \in Dirs
  PROVE  Provisional(d) \in OwnerRec \cup {NoRec}
BY DEF Provisional, TypeOK

(* What a process writes about a known generation is well formed.          *)
LEMMA RecordTypes ==
  /\ \A p \in Procs : gen[p] \in Dirs => MyRec(p) \in OwnerRec /\ MyTrans(p) \in TransRec
  /\ \A r \in TransRec : r.proc \in Procs
  /\ \A r \in OwnerRec : r.proc \in Procs
BY DEF MyRec, MyTrans, OwnerRec, TransRec

(* Types are kept by every step.                                           *)
LEMMA TypeStep ==
  ASSUME TypeInv, [Next]_vars
  PROVE  TypeInv'
<1> USE StateLockAssumption, RecordTypes DEF TypeInv, TypeOK, GenKnown, Goto,
        Return, disk, local, vars, Pcs, Jobs, AcquirePcs,
        InspectPcs, ClaimPcs, ReclaimPcs, ReleasePcs
<1>1. CASE UNCHANGED vars
  BY <1>1
<1>2. ASSUME NEW p \in Procs, Acquire(p) PROVE TypeInv'
  <2>1. CASE BeginAcquire(p)  BY <2>1 DEF BeginAcquire
  <2>2. CASE MakeDirectory(p) BY <2>2 DEF MakeDirectory
  <2>3. CASE DirectoryExists(p) BY <2>3 DEF DirectoryExists
  <2>4. CASE ReadIdentity(p) BY <2>4 DEF ReadIdentity
  <2>5. CASE WriteProvisional(p) BY <2>5 DEF WriteProvisional, Abort
  <2>6. CASE LinkOwner(p)
    <3>1. CASE path # NoDir /\ MyRec(p) \in tmps[path] /\ owner[path] = NoRec
      BY <2>6, <3>1 DEF LinkOwner
    <3>2. CASE path # NoDir /\ MyRec(p) \in tmps[path] /\ owner[path] # NoRec
      <4>1. /\ pc[p] = "link" /\ Abort(p, "abortRetry")
            /\ tmps' = [tmps EXCEPT ![path] = @ \ {MyRec(p)}]
            /\ UNCHANGED <<path, owner, trans, wit, gone>>
        BY <2>6, <3>2 DEF LinkOwner
      <4> QED BY <4>1, <3>2 DEF Abort
    <3>3. CASE ~(path # NoDir /\ MyRec(p) \in tmps[path])
      <4>1. pc[p] = "link" /\ Abort(p, "abortFail") /\ UNCHANGED disk
        BY <2>6, <3>3 DEF LinkOwner
      <4> QED BY <4>1 DEF Abort
    <3> QED BY <3>1, <3>2, <3>3
  <2>7. CASE VerifyIdentity(p) BY <2>7 DEF VerifyIdentity, Abort
  <2>8. CASE VerifyOwner(p)
    <3>1. CASE path # NoDir /\ owner[path] = MyRec(p)
      BY <2>8, <3>1 DEF VerifyOwner
    <3>2. CASE ~(path # NoDir /\ owner[path] = MyRec(p))
      <4>1. pc[p] = "verifyOwner" /\ Abort(p, "abortFail") /\ UNCHANGED disk
        BY <2>8, <3>2 DEF VerifyOwner
      <4> QED BY <4>1 DEF Abort
    <3> QED BY <3>1, <3>2
  <2>9. CASE VerifyNoTransition(p) BY <2>9 DEF VerifyNoTransition, Abort
  <2> QED BY <1>2, <2>1, <2>2, <2>3, <2>4, <2>5, <2>6, <2>7, <2>8, <2>9 DEF Acquire
<1>3. ASSUME NEW p \in Procs, Inspect(p) PROVE TypeInv'
  <2>1. CASE InspectIdentity(p) BY <2>1 DEF InspectIdentity
  <2>2. CASE InspectOwner(p) BY <2>2 DEF InspectOwner
  <2>3. CASE InspectProvisional(p) BY <2>3, ProvisionalType DEF InspectProvisional
  <2>4. CASE JudgeStale(p) BY <2>4 DEF JudgeStale
  <2>5. CASE JudgeCurrent(p) BY <2>5 DEF JudgeCurrent
  <2>6. CASE WaitOrGiveUp(p) BY <2>6 DEF WaitOrGiveUp
  <2> QED BY <1>3, <2>1, <2>2, <2>3, <2>4, <2>5, <2>6 DEF Inspect
<1>4. ASSUME NEW p \in Procs, Claim(p) PROVE TypeInv'
  <2>1. CASE ClaimIdentity(p) BY <2>1 DEF ClaimIdentity, ClaimFails
  <2>2. CASE LinkTransition(p)
    <3>1. CASE path = NoDir BY <2>2, <3>1 DEF LinkTransition, ClaimFails
    <3>2. CASE path # NoDir /\ trans[path] = NoRec
      BY <2>2, <3>2 DEF LinkTransition
    <3>3. CASE /\ path # NoDir /\ trans[path] # NoRec
               /\ attempt[p] = 0 /\ Dead(trans[path].proc)
      BY <2>2, <3>3 DEF LinkTransition
    <3>4. CASE /\ path # NoDir /\ trans[path] # NoRec
               /\ ~(attempt[p] = 0 /\ Dead(trans[path].proc))
      BY <2>2, <3>4 DEF LinkTransition, ClaimFails
    <3> QED BY <3>1, <3>2, <3>3, <3>4
  <2>3. CASE PinWitness(p) BY <2>3 DEF PinWitness, ClaimFails
  <2>4. CASE ClearTransition(p) BY <2>4 DEF ClearTransition
  <2>5. CASE DropWitness(p) BY <2>5 DEF DropWitness, ClaimFails
  <2>6. CASE ConfirmClaim(p) BY <2>6 DEF ConfirmClaim, ClaimFails, DropOwnTransition
  <2> QED BY <1>4, <2>1, <2>2, <2>3, <2>4, <2>5, <2>6 DEF Claim
<1>5. ASSUME NEW p \in Procs, Reclaim(p) PROVE TypeInv'
  <2>1. CASE RecheckOwner(p) BY <2>1 DEF RecheckOwner, DropOwnTransition
  <2>2. CASE RecheckProvisional(p) BY <2>2 DEF RecheckProvisional, DropOwnTransition
  <2>3. CASE RenameStale(p) BY <2>3 DEF RenameStale
  <2>4. CASE CheckFrozen(p) BY <2>4 DEF CheckFrozen, Forget
  <2> QED BY <1>5, <2>1, <2>2, <2>3, <2>4 DEF Reclaim
<1>6. ASSUME NEW p \in Procs, Release(p) PROVE TypeInv'
  <2>1. CASE BeginRelease(p) BY <2>1 DEF BeginRelease
  <2>2. CASE InspectOwn(p) BY <2>2 DEF InspectOwn, ReleaseReturns
  <2>3. CASE RetryRelease(p) BY <2>3 DEF RetryRelease, ReleaseReturns
  <2>4. CASE RecheckOwn(p) BY <2>4 DEF RecheckOwn, ReleaseReturns, DropOwnTransition
  <2>5. CASE RenameOwned(p) BY <2>5 DEF RenameOwned
  <2>6. CASE RemoveRetired(p) BY <2>6 DEF RemoveRetired, ReleaseReturns, Forget
  <2> QED BY <1>6, <2>1, <2>2, <2>3, <2>4, <2>5, <2>6 DEF Release
<1>7. ASSUME NEW p \in Procs, Crash(p) PROVE TypeInv'
  BY <1>7 DEF Crash, Forget
<1> QED BY <1>1, <1>2, <1>3, <1>4, <1>5, <1>6, <1>7 DEF Next, Step

(* Jobs and places go together.                                            *)
LEMMA JobStep ==
  ASSUME TypeInv, JobOfPlace, [Next]_vars
  PROVE  JobOfPlace'
<1> USE DEF TypeInv, TypeOK, JobOfPlace, Goto, Return, disk, local, vars,
        AcquirePcs, InspectPcs, ClaimPcs, ReclaimPcs, ReleasePcs, Jobs
<1>1. CASE UNCHANGED vars
  BY <1>1
<1>2. ASSUME NEW p \in Procs, Acquire(p) PROVE JobOfPlace'
  <2>1. CASE BeginAcquire(p) BY <2>1 DEF BeginAcquire
  <2>2. CASE MakeDirectory(p) BY <2>2 DEF MakeDirectory
  <2>3. CASE DirectoryExists(p) BY <2>3 DEF DirectoryExists
  <2>4. CASE ReadIdentity(p) BY <2>4 DEF ReadIdentity
  <2>5. CASE WriteProvisional(p) BY <2>5 DEF WriteProvisional, Abort
  <2>6. CASE LinkOwner(p) BY <2>6 DEF LinkOwner, Abort
  <2>7. CASE VerifyIdentity(p) BY <2>7 DEF VerifyIdentity, Abort
  <2>8. CASE VerifyOwner(p) BY <2>8 DEF VerifyOwner, Abort
  <2>9. CASE VerifyNoTransition(p) BY <2>9 DEF VerifyNoTransition, Abort
  <2> QED BY <1>2, <2>1, <2>2, <2>3, <2>4, <2>5, <2>6, <2>7, <2>8, <2>9 DEF Acquire
<1>3. ASSUME NEW p \in Procs, Inspect(p) PROVE JobOfPlace'
  <2>1. CASE InspectIdentity(p) BY <2>1 DEF InspectIdentity
  <2>2. CASE InspectOwner(p) BY <2>2 DEF InspectOwner
  <2>3. CASE InspectProvisional(p) BY <2>3 DEF InspectProvisional
  <2>4. CASE JudgeStale(p) BY <2>4 DEF JudgeStale
  <2>5. CASE JudgeCurrent(p) BY <2>5 DEF JudgeCurrent
  <2>6. CASE WaitOrGiveUp(p) BY <2>6 DEF WaitOrGiveUp
  <2> QED BY <1>3, <2>1, <2>2, <2>3, <2>4, <2>5, <2>6 DEF Inspect
<1>4. ASSUME NEW p \in Procs, Claim(p) PROVE JobOfPlace'
  <2>1. CASE ClaimIdentity(p) BY <2>1 DEF ClaimIdentity, ClaimFails
  <2>2. CASE LinkTransition(p) BY <2>2 DEF LinkTransition, ClaimFails
  <2>3. CASE PinWitness(p) BY <2>3 DEF PinWitness, ClaimFails
  <2>4. CASE ClearTransition(p) BY <2>4 DEF ClearTransition
  <2>5. CASE DropWitness(p) BY <2>5 DEF DropWitness, ClaimFails
  <2>6. CASE ConfirmClaim(p) BY <2>6 DEF ConfirmClaim, ClaimFails, DropOwnTransition
  <2> QED BY <1>4, <2>1, <2>2, <2>3, <2>4, <2>5, <2>6 DEF Claim
<1>5. ASSUME NEW p \in Procs, Reclaim(p) PROVE JobOfPlace'
  <2>1. CASE RecheckOwner(p) BY <2>1 DEF RecheckOwner, DropOwnTransition
  <2>2. CASE RecheckProvisional(p) BY <2>2 DEF RecheckProvisional, DropOwnTransition
  <2>3. CASE RenameStale(p) BY <2>3 DEF RenameStale
  <2>4. CASE CheckFrozen(p) BY <2>4 DEF CheckFrozen, Forget
  <2> QED BY <1>5, <2>1, <2>2, <2>3, <2>4 DEF Reclaim
<1>6. ASSUME NEW p \in Procs, Release(p) PROVE JobOfPlace'
  <2>1. CASE BeginRelease(p) BY <2>1 DEF BeginRelease
  <2>2. CASE InspectOwn(p) BY <2>2 DEF InspectOwn, ReleaseReturns
  <2>3. CASE RetryRelease(p) BY <2>3 DEF RetryRelease, ReleaseReturns
  <2>4. CASE RecheckOwn(p) BY <2>4 DEF RecheckOwn, ReleaseReturns, DropOwnTransition
  <2>5. CASE RenameOwned(p) BY <2>5 DEF RenameOwned
  <2>6. CASE RemoveRetired(p) BY <2>6 DEF RemoveRetired, ReleaseReturns, Forget
  <2> QED BY <1>6, <2>1, <2>2, <2>3, <2>4, <2>5, <2>6 DEF Release
<1>7. ASSUME NEW p \in Procs, Crash(p) PROVE JobOfPlace'
  BY <1>7 DEF Crash, Forget
<1> QED BY <1>1, <1>2, <1>3, <1>4, <1>5, <1>6, <1>7 DEF Next, Step

(* A step of one process leaves the local state of the others alone.       *)
LEMMA OthersStand ==
  ASSUME TypeInv, NEW p \in Procs, Step(p) \/ Crash(p),
         NEW q \in Procs, q # p
  PROVE  /\ pc'[q] = pc[q] /\ job'[q] = job[q] /\ gen'[q] = gen[q]
         /\ fp'[q] = fp[q] /\ exp'[q] = exp[q]
<1> USE DEF TypeInv, TypeOK, Goto, Return, disk, local, vars
<1>1. CASE Acquire(p)
  <2>1. CASE BeginAcquire(p) BY <2>1 DEF BeginAcquire
  <2>2. CASE MakeDirectory(p) BY <2>2 DEF MakeDirectory
  <2>3. CASE DirectoryExists(p) BY <2>3 DEF DirectoryExists
  <2>4. CASE ReadIdentity(p) BY <2>4 DEF ReadIdentity
  <2>5. CASE WriteProvisional(p) BY <2>5 DEF WriteProvisional, Abort
  <2>6. CASE LinkOwner(p) BY <2>6 DEF LinkOwner, Abort
  <2>7. CASE VerifyIdentity(p) BY <2>7 DEF VerifyIdentity, Abort
  <2>8. CASE VerifyOwner(p) BY <2>8 DEF VerifyOwner, Abort
  <2>9. CASE VerifyNoTransition(p) BY <2>9 DEF VerifyNoTransition, Abort
  <2> QED BY <1>1, <2>1, <2>2, <2>3, <2>4, <2>5, <2>6, <2>7, <2>8, <2>9 DEF Acquire
<1>2. CASE Inspect(p)
  <2>1. CASE InspectIdentity(p) BY <2>1 DEF InspectIdentity
  <2>2. CASE InspectOwner(p) BY <2>2 DEF InspectOwner
  <2>3. CASE InspectProvisional(p) BY <2>3 DEF InspectProvisional
  <2>4. CASE JudgeStale(p) BY <2>4 DEF JudgeStale
  <2>5. CASE JudgeCurrent(p) BY <2>5 DEF JudgeCurrent
  <2>6. CASE WaitOrGiveUp(p) BY <2>6 DEF WaitOrGiveUp
  <2> QED BY <1>2, <2>1, <2>2, <2>3, <2>4, <2>5, <2>6 DEF Inspect
<1>3. CASE Claim(p)
  <2>1. CASE ClaimIdentity(p) BY <2>1 DEF ClaimIdentity, ClaimFails
  <2>2. CASE LinkTransition(p) BY <2>2 DEF LinkTransition, ClaimFails
  <2>3. CASE PinWitness(p) BY <2>3 DEF PinWitness, ClaimFails
  <2>4. CASE ClearTransition(p) BY <2>4 DEF ClearTransition
  <2>5. CASE DropWitness(p) BY <2>5 DEF DropWitness, ClaimFails
  <2>6. CASE ConfirmClaim(p) BY <2>6 DEF ConfirmClaim, ClaimFails, DropOwnTransition
  <2> QED BY <1>3, <2>1, <2>2, <2>3, <2>4, <2>5, <2>6 DEF Claim
<1>4. CASE Reclaim(p)
  <2>1. CASE RecheckOwner(p) BY <2>1 DEF RecheckOwner, DropOwnTransition
  <2>2. CASE RecheckProvisional(p) BY <2>2 DEF RecheckProvisional, DropOwnTransition
  <2>3. CASE RenameStale(p) BY <2>3 DEF RenameStale
  <2>4. CASE CheckFrozen(p) BY <2>4 DEF CheckFrozen, Forget
  <2> QED BY <1>4, <2>1, <2>2, <2>3, <2>4 DEF Reclaim
<1>5. CASE Release(p)
  <2>1. CASE BeginRelease(p) BY <2>1 DEF BeginRelease
  <2>2. CASE InspectOwn(p) BY <2>2 DEF InspectOwn, ReleaseReturns
  <2>3. CASE RetryRelease(p) BY <2>3 DEF RetryRelease, ReleaseReturns
  <2>4. CASE RecheckOwn(p) BY <2>4 DEF RecheckOwn, ReleaseReturns, DropOwnTransition
  <2>5. CASE RenameOwned(p) BY <2>5 DEF RenameOwned
  <2>6. CASE RemoveRetired(p) BY <2>6 DEF RemoveRetired, ReleaseReturns, Forget
  <2> QED BY <1>5, <2>1, <2>2, <2>3, <2>4, <2>5, <2>6 DEF Release
<1>6. CASE Crash(p) BY <1>6 DEF Crash, Forget
<1> QED BY <1>1, <1>2, <1>3, <1>4, <1>5, <1>6 DEF Step

(* The dead stay dead.                                                     *)
LEMMA DeadStays ==
  ASSUME TypeInv, NEW p \in Procs, Step(p) \/ Crash(p), NEW q \in Procs, Dead(q)
  PROVE  Dead(q)'
<1>1. ~Step(q)
  BY DEF Dead, Alive, Step, Acquire, Inspect, Claim, Reclaim, Release,
     BeginAcquire, MakeDirectory, DirectoryExists, ReadIdentity, WriteProvisional,
     LinkOwner, VerifyIdentity, VerifyOwner, VerifyNoTransition, InspectIdentity,
     InspectOwner, InspectProvisional, JudgeStale, JudgeCurrent, WaitOrGiveUp,
     ClaimIdentity, LinkTransition, PinWitness, ClearTransition, DropWitness,
     ConfirmClaim, RecheckOwner, RecheckProvisional, RenameStale, CheckFrozen,
     BeginRelease, InspectOwn, RetryRelease, RecheckOwn, RenameOwned, RemoveRetired
<1>2. ~Crash(q)
  BY DEF Dead, Crash
<1>3. q # p
  BY <1>1, <1>2
<1> QED BY <1>3, OthersStand DEF Dead, Alive

(* Only LinkTransition starts to clear a transition, and a dead one's.      *)
LEMMA ClearsEntry ==
  ASSUME TypeInv, ClearsTheDead, NEW p \in Procs, Step(p) \/ Crash(p),
         pc'[p] \in {"pinWitness", "clearTransition"}
  PROVE  exp'[p] # NoRec /\ Dead(exp'[p].proc)
<1> USE DEF TypeInv, TypeOK, ClearsTheDead, Goto, Return, disk, local, vars
<1>1. CASE Acquire(p)
  <2>1. CASE BeginAcquire(p) BY <2>1 DEF BeginAcquire
  <2>2. CASE MakeDirectory(p) BY <2>2 DEF MakeDirectory
  <2>3. CASE DirectoryExists(p) BY <2>3 DEF DirectoryExists
  <2>4. CASE ReadIdentity(p) BY <2>4 DEF ReadIdentity
  <2>5. CASE WriteProvisional(p) BY <2>5 DEF WriteProvisional, Abort
  <2>6. CASE LinkOwner(p) BY <2>6 DEF LinkOwner, Abort
  <2>7. CASE VerifyIdentity(p) BY <2>7 DEF VerifyIdentity, Abort
  <2>8. CASE VerifyOwner(p) BY <2>8 DEF VerifyOwner, Abort
  <2>9. CASE VerifyNoTransition(p) BY <2>9 DEF VerifyNoTransition, Abort
  <2> QED BY <1>1, <2>1, <2>2, <2>3, <2>4, <2>5, <2>6, <2>7, <2>8, <2>9 DEF Acquire
<1>2. CASE Inspect(p)
  <2>1. CASE InspectIdentity(p) BY <2>1 DEF InspectIdentity
  <2>2. CASE InspectOwner(p) BY <2>2 DEF InspectOwner
  <2>3. CASE InspectProvisional(p) BY <2>3 DEF InspectProvisional
  <2>4. CASE JudgeStale(p) BY <2>4 DEF JudgeStale
  <2>5. CASE JudgeCurrent(p) BY <2>5 DEF JudgeCurrent
  <2>6. CASE WaitOrGiveUp(p) BY <2>6 DEF WaitOrGiveUp
  <2> QED BY <1>2, <2>1, <2>2, <2>3, <2>4, <2>5, <2>6 DEF Inspect
<1>3. CASE Claim(p)
  <2>1. CASE ClaimIdentity(p) BY <2>1 DEF ClaimIdentity, ClaimFails
  <2>2. CASE LinkTransition(p) BY <2>2 DEF LinkTransition, ClaimFails
  <2>3. CASE PinWitness(p) BY <2>3 DEF PinWitness, ClaimFails
  <2>4. CASE ClearTransition(p) BY <2>4 DEF ClearTransition
  <2>5. CASE DropWitness(p) BY <2>5 DEF DropWitness, ClaimFails
  <2>6. CASE ConfirmClaim(p) BY <2>6 DEF ConfirmClaim, ClaimFails, DropOwnTransition
  <2> QED BY <1>3, <2>1, <2>2, <2>3, <2>4, <2>5, <2>6 DEF Claim
<1>4. CASE Reclaim(p)
  <2>1. CASE RecheckOwner(p) BY <2>1 DEF RecheckOwner, DropOwnTransition
  <2>2. CASE RecheckProvisional(p) BY <2>2 DEF RecheckProvisional, DropOwnTransition
  <2>3. CASE RenameStale(p) BY <2>3 DEF RenameStale
  <2>4. CASE CheckFrozen(p) BY <2>4 DEF CheckFrozen, Forget
  <2> QED BY <1>4, <2>1, <2>2, <2>3, <2>4 DEF Reclaim
<1>5. CASE Release(p)
  <2>1. CASE BeginRelease(p) BY <2>1 DEF BeginRelease
  <2>2. CASE InspectOwn(p) BY <2>2 DEF InspectOwn, ReleaseReturns
  <2>3. CASE RetryRelease(p) BY <2>3 DEF RetryRelease, ReleaseReturns
  <2>4. CASE RecheckOwn(p) BY <2>4 DEF RecheckOwn, ReleaseReturns, DropOwnTransition
  <2>5. CASE RenameOwned(p) BY <2>5 DEF RenameOwned
  <2>6. CASE RemoveRetired(p) BY <2>6 DEF RemoveRetired, ReleaseReturns, Forget
  <2> QED BY <1>5, <2>1, <2>2, <2>3, <2>4, <2>5, <2>6 DEF Release
<1>6. CASE Crash(p) BY <1>6 DEF Crash, Forget
<1> QED BY <1>1, <1>2, <1>3, <1>4, <1>5, <1>6 DEF Step

(* Every step keeps it: who unlinks transition.json found its maker dead.  *)
LEMMA ClearsStep ==
  ASSUME TypeInv, TypeInv', ClearsTheDead, NEW p \in Procs, Step(p) \/ Crash(p)
  PROVE  ClearsTheDead'
<1> SUFFICES ASSUME NEW q \in Procs, pc'[q] \in {"pinWitness", "clearTransition"}
             PROVE  (exp[q] # NoRec /\ Dead(exp[q].proc))'
  BY DEF ClearsTheDead
<1>1. exp'[q] # NoRec /\ Dead(exp'[q].proc)
  <2>1. CASE q = p  BY <2>1, ClearsEntry
  <2>2. CASE q # p  BY <2>2, OthersStand DEF ClearsTheDead, Dead, Alive
  <2> QED BY <2>1, <2>2
<1>2. exp'[q].proc \in Procs
  BY <1>1, RecordTypes DEF TypeInv, TypeOK
<1>3. Dead(exp'[q].proc) => pc'[exp'[q].proc] = "dead"
  BY <1>2, DeadStays DEF Dead, Alive
<1> QED BY <1>1, <1>3 DEF Dead, Alive

(* A transition names its process.                                         *)
LEMMA TransOwner ==
  /\ \A p \in Procs : MyTrans(p).proc = p
  /\ \A p, q \in Procs : MyTrans(p) = MyTrans(q) => p = q
BY DEF MyTrans

(* The path changes by a mkdir, or by a rename of a pinned directory.      *)
LEMMA PathMoves ==
  ASSUME TypeInv, NEW p \in Procs, Step(p) \/ Crash(p),
         path' # path
  PROVE  \/ path = NoDir /\ MakeDirectory(p)
         \/ path' = NoDir /\ pc[p] \in {"renameStale", "renameOwned"}
<1> USE DEF TypeInv, TypeOK, disk, local, vars
<1>1. CASE Acquire(p)
  <2>1. CASE BeginAcquire(p) BY <2>1 DEF BeginAcquire
  <2>2. CASE MakeDirectory(p) BY <2>2 DEF MakeDirectory
  <2>3. CASE DirectoryExists(p) BY <2>3 DEF DirectoryExists
  <2>4. CASE ReadIdentity(p) BY <2>4 DEF ReadIdentity
  <2>5. CASE WriteProvisional(p) BY <2>5 DEF WriteProvisional, Abort
  <2>6. CASE LinkOwner(p) BY <2>6 DEF LinkOwner, Abort
  <2>7. CASE VerifyIdentity(p) BY <2>7 DEF VerifyIdentity, Abort
  <2>8. CASE VerifyOwner(p) BY <2>8 DEF VerifyOwner, Abort
  <2>9. CASE VerifyNoTransition(p) BY <2>9 DEF VerifyNoTransition, Abort
  <2> QED BY <1>1, <2>1, <2>2, <2>3, <2>4, <2>5, <2>6, <2>7, <2>8, <2>9 DEF Acquire
<1>2. CASE Inspect(p)
  <2>1. CASE InspectIdentity(p) BY <2>1 DEF InspectIdentity
  <2>2. CASE InspectOwner(p) BY <2>2 DEF InspectOwner
  <2>3. CASE InspectProvisional(p) BY <2>3 DEF InspectProvisional
  <2>4. CASE JudgeStale(p) BY <2>4 DEF JudgeStale
  <2>5. CASE JudgeCurrent(p) BY <2>5 DEF JudgeCurrent
  <2>6. CASE WaitOrGiveUp(p) BY <2>6 DEF WaitOrGiveUp
  <2> QED BY <1>2, <2>1, <2>2, <2>3, <2>4, <2>5, <2>6 DEF Inspect
<1>3. CASE Claim(p)
  <2>1. CASE ClaimIdentity(p) BY <2>1 DEF ClaimIdentity, ClaimFails
  <2>2. CASE LinkTransition(p) BY <2>2 DEF LinkTransition, ClaimFails
  <2>3. CASE PinWitness(p) BY <2>3 DEF PinWitness, ClaimFails
  <2>4. CASE ClearTransition(p) BY <2>4 DEF ClearTransition
  <2>5. CASE DropWitness(p) BY <2>5 DEF DropWitness, ClaimFails
  <2>6. CASE ConfirmClaim(p) BY <2>6 DEF ConfirmClaim, ClaimFails, DropOwnTransition
  <2> QED BY <1>3, <2>1, <2>2, <2>3, <2>4, <2>5, <2>6 DEF Claim
<1>4. CASE Reclaim(p)
  <2>1. CASE RecheckOwner(p) BY <2>1 DEF RecheckOwner, DropOwnTransition
  <2>2. CASE RecheckProvisional(p) BY <2>2 DEF RecheckProvisional, DropOwnTransition
  <2>3. CASE RenameStale(p) BY <2>3 DEF RenameStale
  <2>4. CASE CheckFrozen(p) BY <2>4 DEF CheckFrozen, Forget
  <2> QED BY <1>4, <2>1, <2>2, <2>3, <2>4 DEF Reclaim
<1>5. CASE Release(p)
  <2>1. CASE BeginRelease(p) BY <2>1 DEF BeginRelease
  <2>2. CASE InspectOwn(p) BY <2>2 DEF InspectOwn, ReleaseReturns
  <2>3. CASE RetryRelease(p) BY <2>3 DEF RetryRelease, ReleaseReturns
  <2>4. CASE RecheckOwn(p) BY <2>4 DEF RecheckOwn, ReleaseReturns, DropOwnTransition
  <2>5. CASE RenameOwned(p) BY <2>5 DEF RenameOwned
  <2>6. CASE RemoveRetired(p) BY <2>6 DEF RemoveRetired, ReleaseReturns, Forget
  <2> QED BY <1>5, <2>1, <2>2, <2>3, <2>4, <2>5, <2>6 DEF Release
<1>6. CASE Crash(p) BY <1>6 DEF Crash, Forget
<1> QED BY <1>1, <1>2, <1>3, <1>4, <1>5, <1>6 DEF Step

(* Nobody touches the transition of a live process in the directory at the *)
(* path.                                                                   *)
LEMMA PinKept ==
  ASSUME TypeInv, Pinned, Retired, ClearsTheDead,
         NEW p \in Procs, Step(p) \/ Crash(p),
         NEW q \in Procs, q # p, Alive(q), path # NoDir, path' = path,
         trans[path] = MyTrans(q), gen[q] \in Dirs
  PROVE  trans'[path] = MyTrans(q)
<1> USE StateLockAssumption, TransOwner DEF TypeInv, TypeOK, disk, local, vars
<1>0. MyTrans(q) # NoRec /\ MyTrans(q) # MyTrans(p)
  BY RecordTypes
<1>1. CASE Acquire(p)
  <2>1. CASE BeginAcquire(p) BY <2>1, <1>0 DEF BeginAcquire
  <2>2. CASE MakeDirectory(p) BY <2>2, <1>0 DEF MakeDirectory
  <2>3. CASE DirectoryExists(p) BY <2>3, <1>0 DEF DirectoryExists
  <2>4. CASE ReadIdentity(p) BY <2>4, <1>0 DEF ReadIdentity
  <2>5. CASE WriteProvisional(p) BY <2>5, <1>0 DEF WriteProvisional, Abort
  <2>6. CASE LinkOwner(p) BY <2>6, <1>0 DEF LinkOwner, Abort
  <2>7. CASE VerifyIdentity(p) BY <2>7, <1>0 DEF VerifyIdentity, Abort
  <2>8. CASE VerifyOwner(p) BY <2>8, <1>0 DEF VerifyOwner, Abort
  <2>9. CASE VerifyNoTransition(p) BY <2>9, <1>0 DEF VerifyNoTransition, Abort
  <2> QED BY <1>1, <2>1, <2>2, <2>3, <2>4, <2>5, <2>6, <2>7, <2>8, <2>9 DEF Acquire
<1>2. CASE Inspect(p)
  <2>1. CASE InspectIdentity(p) BY <2>1, <1>0 DEF InspectIdentity
  <2>2. CASE InspectOwner(p) BY <2>2, <1>0 DEF InspectOwner
  <2>3. CASE InspectProvisional(p) BY <2>3, <1>0 DEF InspectProvisional
  <2>4. CASE JudgeStale(p) BY <2>4, <1>0 DEF JudgeStale
  <2>5. CASE JudgeCurrent(p) BY <2>5, <1>0 DEF JudgeCurrent
  <2>6. CASE WaitOrGiveUp(p) BY <2>6, <1>0 DEF WaitOrGiveUp
  <2> QED BY <1>2, <2>1, <2>2, <2>3, <2>4, <2>5, <2>6 DEF Inspect
<1>3. CASE Claim(p)
  <2>1. CASE ClaimIdentity(p) BY <2>1, <1>0 DEF ClaimIdentity, ClaimFails
  <2>2. CASE LinkTransition(p) BY <2>2, <1>0 DEF LinkTransition, ClaimFails
  <2>3. CASE PinWitness(p) BY <2>3, <1>0 DEF PinWitness, ClaimFails
  <2>4. CASE ClearTransition(p)
    <3>1. trans[path] # exp[p]
      BY <2>4 DEF ClearsTheDead, ClearTransition, Dead
    <3> QED BY <2>4, <3>1 DEF ClearTransition
  <2>5. CASE DropWitness(p) BY <2>5, <1>0 DEF DropWitness, ClaimFails
  <2>6. CASE ConfirmClaim(p) BY <2>6, <1>0 DEF ConfirmClaim, ClaimFails, DropOwnTransition
  <2> QED BY <1>3, <2>1, <2>2, <2>3, <2>4, <2>5, <2>6 DEF Claim
<1>4. CASE Reclaim(p)
  <2>1. CASE RecheckOwner(p) BY <2>1, <1>0 DEF RecheckOwner, DropOwnTransition
  <2>2. CASE RecheckProvisional(p) BY <2>2, <1>0 DEF RecheckProvisional, DropOwnTransition
  <2>3. CASE RenameStale(p) BY <2>3, <1>0 DEF RenameStale
  <2>4. CASE CheckFrozen(p)
    <3>1. gen[p] # path /\ gen[p] \in Dirs
      BY <2>4 DEF Retired, RetiringPcs, CheckFrozen
    <3> QED BY <2>4, <3>1 DEF CheckFrozen, Forget
  <2> QED BY <1>4, <2>1, <2>2, <2>3, <2>4 DEF Reclaim
<1>5. CASE Release(p)
  <2>1. CASE BeginRelease(p) BY <2>1, <1>0 DEF BeginRelease
  <2>2. CASE InspectOwn(p) BY <2>2, <1>0 DEF InspectOwn, ReleaseReturns
  <2>3. CASE RetryRelease(p) BY <2>3, <1>0 DEF RetryRelease, ReleaseReturns
  <2>4. CASE RecheckOwn(p) BY <2>4, <1>0 DEF RecheckOwn, ReleaseReturns, DropOwnTransition
  <2>5. CASE RenameOwned(p) BY <2>5, <1>0 DEF RenameOwned
  <2>6. CASE RemoveRetired(p)
    <3>1. gen[p] # path /\ gen[p] \in Dirs
      BY <2>6 DEF Retired, RetiringPcs, RemoveRetired
    <3> QED BY <2>6, <3>1 DEF RemoveRetired, Forget
  <2> QED BY <1>5, <2>1, <2>2, <2>3, <2>4, <2>5, <2>6 DEF Release
<1>6. CASE Crash(p)
  <2>1. CASE pc[p] \in RetiringPcs
    <3>1. gen[p] # path /\ gen[p] \in Dirs
      BY <2>1 DEF Retired
    <3> QED BY <1>6, <2>1, <3>1 DEF Crash, Forget, RetiringPcs
  <2>2. CASE pc[p] \notin RetiringPcs
    BY <1>6, <2>2 DEF Crash, RetiringPcs
  <2> QED BY <2>1, <2>2
<1> QED BY <1>1, <1>2, <1>3, <1>4, <1>5, <1>6 DEF Step

(* How a process comes to retire a directory, and what that does to the   *)
(* path.                                                                   *)
LEMMA RetireEntry ==
  ASSUME TypeInv, GenKnown, NEW p \in Procs, Step(p) \/ Crash(p),
         pc'[p] \in RetiringPcs
  PROVE  /\ pc[p] \in {"renameStale", "renameOwned"}
         /\ gen'[p] = gen[p] /\ path' = NoDir /\ gone' = gone
<1> USE DEF TypeInv, TypeOK, RetiringPcs, Goto, Return, disk, local, vars
<1>1. CASE Acquire(p)
  <2>1. CASE BeginAcquire(p) BY <2>1 DEF BeginAcquire
  <2>2. CASE MakeDirectory(p) BY <2>2 DEF MakeDirectory
  <2>3. CASE DirectoryExists(p) BY <2>3 DEF DirectoryExists
  <2>4. CASE ReadIdentity(p) BY <2>4 DEF ReadIdentity
  <2>5. CASE WriteProvisional(p) BY <2>5 DEF WriteProvisional, Abort
  <2>6. CASE LinkOwner(p) BY <2>6 DEF LinkOwner, Abort
  <2>7. CASE VerifyIdentity(p) BY <2>7 DEF VerifyIdentity, Abort
  <2>8. CASE VerifyOwner(p) BY <2>8 DEF VerifyOwner, Abort
  <2>9. CASE VerifyNoTransition(p) BY <2>9 DEF VerifyNoTransition, Abort
  <2> QED BY <1>1, <2>1, <2>2, <2>3, <2>4, <2>5, <2>6, <2>7, <2>8, <2>9 DEF Acquire
<1>2. CASE Inspect(p)
  <2>1. CASE InspectIdentity(p) BY <2>1 DEF InspectIdentity
  <2>2. CASE InspectOwner(p) BY <2>2 DEF InspectOwner
  <2>3. CASE InspectProvisional(p) BY <2>3 DEF InspectProvisional
  <2>4. CASE JudgeStale(p) BY <2>4 DEF JudgeStale
  <2>5. CASE JudgeCurrent(p) BY <2>5 DEF JudgeCurrent
  <2>6. CASE WaitOrGiveUp(p) BY <2>6 DEF WaitOrGiveUp
  <2> QED BY <1>2, <2>1, <2>2, <2>3, <2>4, <2>5, <2>6 DEF Inspect
<1>3. CASE Claim(p)
  <2>1. CASE ClaimIdentity(p) BY <2>1 DEF ClaimIdentity, ClaimFails
  <2>2. CASE LinkTransition(p) BY <2>2 DEF LinkTransition, ClaimFails
  <2>3. CASE PinWitness(p) BY <2>3 DEF PinWitness, ClaimFails
  <2>4. CASE ClearTransition(p) BY <2>4 DEF ClearTransition
  <2>5. CASE DropWitness(p) BY <2>5 DEF DropWitness, ClaimFails
  <2>6. CASE ConfirmClaim(p) BY <2>6 DEF ConfirmClaim, ClaimFails, DropOwnTransition
  <2> QED BY <1>3, <2>1, <2>2, <2>3, <2>4, <2>5, <2>6 DEF Claim
<1>4. CASE Reclaim(p)
  <2>1. CASE RecheckOwner(p) BY <2>1 DEF RecheckOwner, DropOwnTransition
  <2>2. CASE RecheckProvisional(p) BY <2>2 DEF RecheckProvisional, DropOwnTransition
  <2>3. CASE RenameStale(p) BY <2>3 DEF RenameStale
  <2>4. CASE CheckFrozen(p) BY <2>4 DEF CheckFrozen, Forget
  <2> QED BY <1>4, <2>1, <2>2, <2>3, <2>4 DEF Reclaim
<1>5. CASE Release(p)
  <2>1. CASE BeginRelease(p) BY <2>1 DEF BeginRelease
  <2>2. CASE InspectOwn(p) BY <2>2 DEF InspectOwn, ReleaseReturns
  <2>3. CASE RetryRelease(p) BY <2>3 DEF RetryRelease, ReleaseReturns
  <2>4. CASE RecheckOwn(p) BY <2>4 DEF RecheckOwn, ReleaseReturns, DropOwnTransition
  <2>5. CASE RenameOwned(p) BY <2>5 DEF RenameOwned
  <2>6. CASE RemoveRetired(p) BY <2>6 DEF RemoveRetired, ReleaseReturns, Forget
  <2> QED BY <1>5, <2>1, <2>2, <2>3, <2>4, <2>5, <2>6 DEF Release
<1>6. CASE Crash(p) BY <1>6 DEF Crash, Forget
<1> QED BY <1>1, <1>2, <1>3, <1>4, <1>5, <1>6 DEF Step

(* Only a removal adds to the removed directories.                         *)
LEMMA GoneGrows ==
  ASSUME TypeInv, NEW p \in Procs, Step(p) \/ Crash(p),
         NEW d \in Dirs, d \in gone', d \notin gone
  PROVE  pc[p] = "remove" /\ d = gen[p] /\ path' = path
<1> USE DEF TypeInv, TypeOK, disk, local, vars
<1>1. CASE Acquire(p)
  <2>1. CASE BeginAcquire(p) BY <2>1 DEF BeginAcquire
  <2>2. CASE MakeDirectory(p) BY <2>2 DEF MakeDirectory
  <2>3. CASE DirectoryExists(p) BY <2>3 DEF DirectoryExists
  <2>4. CASE ReadIdentity(p) BY <2>4 DEF ReadIdentity
  <2>5. CASE WriteProvisional(p) BY <2>5 DEF WriteProvisional, Abort
  <2>6. CASE LinkOwner(p) BY <2>6 DEF LinkOwner, Abort
  <2>7. CASE VerifyIdentity(p) BY <2>7 DEF VerifyIdentity, Abort
  <2>8. CASE VerifyOwner(p) BY <2>8 DEF VerifyOwner, Abort
  <2>9. CASE VerifyNoTransition(p) BY <2>9 DEF VerifyNoTransition, Abort
  <2> QED BY <1>1, <2>1, <2>2, <2>3, <2>4, <2>5, <2>6, <2>7, <2>8, <2>9 DEF Acquire
<1>2. CASE Inspect(p)
  <2>1. CASE InspectIdentity(p) BY <2>1 DEF InspectIdentity
  <2>2. CASE InspectOwner(p) BY <2>2 DEF InspectOwner
  <2>3. CASE InspectProvisional(p) BY <2>3 DEF InspectProvisional
  <2>4. CASE JudgeStale(p) BY <2>4 DEF JudgeStale
  <2>5. CASE JudgeCurrent(p) BY <2>5 DEF JudgeCurrent
  <2>6. CASE WaitOrGiveUp(p) BY <2>6 DEF WaitOrGiveUp
  <2> QED BY <1>2, <2>1, <2>2, <2>3, <2>4, <2>5, <2>6 DEF Inspect
<1>3. CASE Claim(p)
  <2>1. CASE ClaimIdentity(p) BY <2>1 DEF ClaimIdentity, ClaimFails
  <2>2. CASE LinkTransition(p) BY <2>2 DEF LinkTransition, ClaimFails
  <2>3. CASE PinWitness(p) BY <2>3 DEF PinWitness, ClaimFails
  <2>4. CASE ClearTransition(p) BY <2>4 DEF ClearTransition
  <2>5. CASE DropWitness(p) BY <2>5 DEF DropWitness, ClaimFails
  <2>6. CASE ConfirmClaim(p) BY <2>6 DEF ConfirmClaim, ClaimFails, DropOwnTransition
  <2> QED BY <1>3, <2>1, <2>2, <2>3, <2>4, <2>5, <2>6 DEF Claim
<1>4. CASE Reclaim(p)
  <2>1. CASE RecheckOwner(p) BY <2>1 DEF RecheckOwner, DropOwnTransition
  <2>2. CASE RecheckProvisional(p) BY <2>2 DEF RecheckProvisional, DropOwnTransition
  <2>3. CASE RenameStale(p) BY <2>3 DEF RenameStale
  <2>4. CASE CheckFrozen(p) BY <2>4 DEF CheckFrozen, Forget
  <2> QED BY <1>4, <2>1, <2>2, <2>3, <2>4 DEF Reclaim
<1>5. CASE Release(p)
  <2>1. CASE BeginRelease(p) BY <2>1 DEF BeginRelease
  <2>2. CASE InspectOwn(p) BY <2>2 DEF InspectOwn, ReleaseReturns
  <2>3. CASE RetryRelease(p) BY <2>3 DEF RetryRelease, ReleaseReturns
  <2>4. CASE RecheckOwn(p) BY <2>4 DEF RecheckOwn, ReleaseReturns, DropOwnTransition
  <2>5. CASE RenameOwned(p) BY <2>5 DEF RenameOwned
  <2>6. CASE RemoveRetired(p) BY <2>6 DEF RemoveRetired, ReleaseReturns, Forget
  <2> QED BY <1>5, <2>1, <2>2, <2>3, <2>4, <2>5, <2>6 DEF Release
<1>6. CASE Crash(p) BY <1>6 DEF Crash, Forget
<1> QED BY <1>1, <1>2, <1>3, <1>4, <1>5, <1>6 DEF Step

(* Every step keeps it: a process that renames the path away holds the     *)
(* directory that stood there, so nobody else retires the same one.        *)
LEMMA RetiredStep ==
  ASSUME TypeInv, TypeInv', Pinned, Retired, NEW p \in Procs, Step(p) \/ Crash(p)
  PROVE  Retired'
<1> USE StateLockAssumption
<1>1. path' \notin gone'
  <2>1. CASE path' = NoDir
    BY <2>1 DEF TypeInv, TypeOK
  <2>2. CASE path' # NoDir /\ path' = path
    BY <2>2, GoneGrows DEF Retired, RetiringPcs, TypeInv, TypeOK
  <2>3. CASE path' # NoDir /\ path' # path
    BY <2>3, PathMoves DEF MakeDirectory
  <2> QED BY <2>1, <2>2, <2>3
<1>2. ASSUME NEW q \in Procs, pc'[q] \in RetiringPcs
      PROVE  gen'[q] \in Dirs /\ gen'[q] # path' /\ gen'[q] \notin gone'
  <2>1. CASE q = p
    <3>1. /\ pc[p] \in {"renameStale", "renameOwned"}
          /\ gen'[p] = gen[p] /\ path' = NoDir /\ gone' = gone
      BY <1>2, <2>1, RetireEntry DEF TypeInv
    <3>2. path # NoDir /\ gen[p] = path
      BY <3>1 DEF Pinned, ClaimPinsPath, OwnsTransition
    <3> QED BY <2>1, <3>1, <3>2 DEF Retired, TypeInv, TypeOK
  <2>2. CASE q # p
    <3>1. /\ pc[q] \in RetiringPcs /\ gen'[q] = gen[q]
          /\ gen[q] \in Dirs /\ gen[q] # path /\ gen[q] \notin gone
      BY <1>2, <2>2, OthersStand DEF Retired
    <3>2. gen[q] # path'
      <4>1. CASE path' = path \/ path' = NoDir
        BY <3>1, <4>1
      <4>2. CASE path' # path /\ path' # NoDir
        <5>1. MakeDirectory(p)
          BY <4>2, PathMoves
        <5>2. Fresh(path')
          BY <5>1 DEF MakeDirectory
        <5> QED BY <3>1, <5>2 DEF Fresh, Remembered
      <4> QED BY <4>1, <4>2
    <3>3. gen[q] \notin gone'
      BY <2>2, <3>1, GoneGrows DEF Retired, RetiringPcs
    <3> QED BY <3>1, <3>2, <3>3
  <2> QED BY <2>1, <2>2
<1>3. ASSUME NEW q \in Procs, NEW r \in Procs, pc'[q] \in RetiringPcs,
             pc'[r] \in RetiringPcs, gen'[q] = gen'[r], q # r
      PROVE  FALSE
  <2>1. CASE q # p /\ r # p
    BY <1>3, <2>1, OthersStand DEF Retired
  <2>2. ASSUME NEW s \in Procs, s # p, pc'[s] \in RetiringPcs,
               pc'[p] \in RetiringPcs, gen'[s] = gen'[p]
        PROVE  FALSE
    <3>1. pc[p] \in {"renameStale", "renameOwned"} /\ gen'[p] = gen[p]
      BY <2>2, RetireEntry DEF TypeInv
    <3>2. gen[p] = path
      BY <3>1 DEF Pinned, ClaimPinsPath, OwnsTransition
    <3>3. pc[s] \in RetiringPcs /\ gen'[s] = gen[s]
      BY <2>2, OthersStand
    <3> QED BY <2>2, <3>1, <3>2, <3>3 DEF Retired
  <2> QED BY <1>3, <2>1, <2>2
<1> QED BY <1>1, <1>2, <1>3 DEF Retired

(* A process claims the path by the transition it links there.             *)
LEMMA PinEntry ==
  ASSUME TypeInv, Pinned, NEW p \in Procs, Step(p) \/ Crash(p)
  PROVE  /\ pc'[p] \in ClaimedPcs => OwnsTransition(p)'
         /\ pc'[p] = "confirmClaim" => (path # NoDir /\ trans[path] = MyTrans(p))'
<1> USE DEF TypeInv, TypeOK, Pinned, ClaimPinsPath, OwnsTransition, MyTrans,
        ClaimedPcs, Goto, Return, disk, local, vars
<1>1. CASE Acquire(p)
  <2>1. CASE BeginAcquire(p) BY <2>1 DEF BeginAcquire
  <2>2. CASE MakeDirectory(p) BY <2>2 DEF MakeDirectory
  <2>3. CASE DirectoryExists(p) BY <2>3 DEF DirectoryExists
  <2>4. CASE ReadIdentity(p) BY <2>4 DEF ReadIdentity
  <2>5. CASE WriteProvisional(p) BY <2>5 DEF WriteProvisional, Abort
  <2>6. CASE LinkOwner(p) BY <2>6 DEF LinkOwner, Abort
  <2>7. CASE VerifyIdentity(p) BY <2>7 DEF VerifyIdentity, Abort
  <2>8. CASE VerifyOwner(p) BY <2>8 DEF VerifyOwner, Abort
  <2>9. CASE VerifyNoTransition(p) BY <2>9 DEF VerifyNoTransition, Abort
  <2> QED BY <1>1, <2>1, <2>2, <2>3, <2>4, <2>5, <2>6, <2>7, <2>8, <2>9 DEF Acquire
<1>2. CASE Inspect(p)
  <2>1. CASE InspectIdentity(p) BY <2>1 DEF InspectIdentity
  <2>2. CASE InspectOwner(p) BY <2>2 DEF InspectOwner
  <2>3. CASE InspectProvisional(p) BY <2>3 DEF InspectProvisional
  <2>4. CASE JudgeStale(p) BY <2>4 DEF JudgeStale
  <2>5. CASE JudgeCurrent(p) BY <2>5 DEF JudgeCurrent
  <2>6. CASE WaitOrGiveUp(p) BY <2>6 DEF WaitOrGiveUp
  <2> QED BY <1>2, <2>1, <2>2, <2>3, <2>4, <2>5, <2>6 DEF Inspect
<1>3. CASE Claim(p)
  <2>1. CASE ClaimIdentity(p) BY <2>1 DEF ClaimIdentity, ClaimFails
  <2>2. CASE LinkTransition(p) BY <2>2 DEF LinkTransition, ClaimFails
  <2>3. CASE PinWitness(p) BY <2>3 DEF PinWitness, ClaimFails
  <2>4. CASE ClearTransition(p) BY <2>4 DEF ClearTransition
  <2>5. CASE DropWitness(p) BY <2>5 DEF DropWitness, ClaimFails
  <2>6. CASE ConfirmClaim(p) BY <2>6 DEF ConfirmClaim, ClaimFails, DropOwnTransition
  <2> QED BY <1>3, <2>1, <2>2, <2>3, <2>4, <2>5, <2>6 DEF Claim
<1>4. CASE Reclaim(p)
  <2>1. CASE RecheckOwner(p) BY <2>1 DEF RecheckOwner, DropOwnTransition
  <2>2. CASE RecheckProvisional(p) BY <2>2 DEF RecheckProvisional, DropOwnTransition
  <2>3. CASE RenameStale(p) BY <2>3 DEF RenameStale
  <2>4. CASE CheckFrozen(p) BY <2>4 DEF CheckFrozen, Forget
  <2> QED BY <1>4, <2>1, <2>2, <2>3, <2>4 DEF Reclaim
<1>5. CASE Release(p)
  <2>1. CASE BeginRelease(p) BY <2>1 DEF BeginRelease
  <2>2. CASE InspectOwn(p) BY <2>2 DEF InspectOwn, ReleaseReturns
  <2>3. CASE RetryRelease(p) BY <2>3 DEF RetryRelease, ReleaseReturns
  <2>4. CASE RecheckOwn(p) BY <2>4 DEF RecheckOwn, ReleaseReturns, DropOwnTransition
  <2>5. CASE RenameOwned(p) BY <2>5 DEF RenameOwned
  <2>6. CASE RemoveRetired(p) BY <2>6 DEF RemoveRetired, ReleaseReturns, Forget
  <2> QED BY <1>5, <2>1, <2>2, <2>3, <2>4, <2>5, <2>6 DEF Release
<1>6. CASE Crash(p) BY <1>6 DEF Crash, Forget
<1> QED BY <1>1, <1>2, <1>3, <1>4, <1>5, <1>6 DEF Step

(* Every step keeps it: a confirmed transition pins the path.              *)
LEMMA PinnedStep ==
  ASSUME TypeInv, TypeInv', Pinned, Retired, ClearsTheDead,
         NEW p \in Procs, Step(p) \/ Crash(p)
  PROVE  Pinned'
<1>1. ASSUME NEW q \in Procs, pc'[q] \in ClaimedPcs \cup {"confirmClaim"}, q # p
      PROVE  /\ path' = path /\ gen'[q] = gen[q] /\ pc'[q] = pc[q]
             /\ path # NoDir /\ trans[path] = MyTrans(q) /\ trans'[path] = MyTrans(q)
  <2>1. pc'[q] = pc[q] /\ gen'[q] = gen[q]
    BY <1>1, OthersStand
  <2>2. path # NoDir /\ trans[path] = MyTrans(q) /\ Alive(q) /\ gen[q] \in Dirs
    BY <1>1, <2>1 DEF Pinned, ClaimPinsPath, OwnsTransition, ClaimedPcs, Alive,
       TypeInv, GenKnown
  <2>3. path' = path
    <3>1. pc[p] \notin {"renameStale", "renameOwned"}
      BY <1>1, <2>2, TransOwner DEF Pinned, ClaimPinsPath, OwnsTransition
    <3> QED BY <2>2, <3>1, PathMoves
  <2> QED BY <1>1, <2>1, <2>2, <2>3, PinKept
<1>2. ASSUME NEW q \in Procs, pc'[q] \in ClaimedPcs
      PROVE  OwnsTransition(q)'
  <2>1. CASE q = p  BY <1>2, <2>1, PinEntry
  <2>2. CASE q # p
    BY <1>1, <1>2, <2>2 DEF Pinned, ClaimPinsPath, OwnsTransition, ClaimedPcs, MyTrans
  <2> QED BY <2>1, <2>2
<1>3. ASSUME NEW q \in Procs, pc'[q] = "confirmClaim"
      PROVE  (path # NoDir /\ trans[path] = MyTrans(q))'
  <2>1. CASE q = p  BY <1>3, <2>1, PinEntry
  <2>2. CASE q # p  BY <1>1, <1>3, <2>2 DEF MyTrans
  <2> QED BY <2>1, <2>2
<1> QED BY <1>2, <1>3 DEF Pinned, ClaimPinsPath, ClaimedPcs

-----------------------------------------------------------------------------
(* No process has begun: nothing is claimed and nothing is retired.        *)
LEMMA PathInit == Init => PathInv
BY StateLockAssumption
   DEF Init, PathInv, TypeOK, GenKnown, Pinned, ClaimPinsPath, ClaimedPcs,
       ClearsTheDead, Retired, RetiringPcs, JobOfPlace, Pcs, Jobs, AcquirePcs,
       InspectPcs, ClaimPcs, ReclaimPcs, ReleasePcs

(* PathInv is inductive.                                                   *)
LEMMA PathStep == PathInv /\ [Next]_vars => PathInv'
<1> SUFFICES ASSUME PathInv, [Next]_vars PROVE PathInv'
  OBVIOUS
<1>1. TypeInv /\ TypeInv' /\ JobOfPlace'
  BY TypeStep, JobStep DEF PathInv, TypeInv
<1>2. CASE UNCHANGED vars
  BY <1>1, <1>2 DEF PathInv, TypeInv, Pinned, ClaimPinsPath, OwnsTransition, MyTrans,
     ClearsTheDead, Dead, Alive, Retired, vars, disk, local
<1>3. CASE Next
  <2>1. PICK p \in Procs : Step(p) \/ Crash(p)
    BY <1>3 DEF Next
  <2>2. ClearsTheDead'
    BY <1>1, <2>1, ClearsStep DEF PathInv
  <2>3. Retired'
    BY <1>1, <2>1, RetiredStep DEF PathInv
  <2>4. Pinned'
    BY <1>1, <2>1, PinnedStep DEF PathInv
  <2> QED BY <1>1, <2>2, <2>3, <2>4 DEF PathInv, TypeInv
<1> QED BY <1>2, <1>3

(* PathInv holds in every behaviour.                                       *)
LEMMA PathAlways == Spec => []PathInv
BY PathInit, PathStep, PTL DEF Spec

(* The variables of the lock keep their types: a transition or an owner    *)
(* that is written always names a known generation.                        *)
THEOREM TypeCorrect == Spec => []TypeOK
<1>1. PathInv => TypeOK  BY DEF PathInv
<1> QED BY <1>1, PathAlways, PTL

(* Whatever the clock and the file system do, and however many processes   *)
(* die: between the moment a process has confirmed its transition.json and *)
(* the moment it renames, the path leads to the directory it decided about *)
(* and the transition there is its own.                                    *)
THEOREM ClaimPins == Spec => []ClaimPinsPath
<1>1. PathInv => ClaimPinsPath  BY DEF PathInv, Pinned
<1> QED BY <1>1, PathAlways, PTL

-----------------------------------------------------------------------------
(* A process gets engaged by its mkdir.                                    *)
LEMMA EngagedEntry ==
  ASSUME TypeInv, JobOfPlace, NEW p \in Procs, Step(p) \/ Crash(p),
         Engaged(p)'
  PROVE  Engaged(p) \/ MakeDirectory(p)
<1> USE DEF TypeInv, TypeOK, JobOfPlace, Jobs, Engaged, Goto, Return, disk, local, vars,
        AcquirePcs, InspectPcs, ClaimPcs, ReclaimPcs, ReleasePcs
<1>1. CASE Acquire(p)
  <2>1. CASE BeginAcquire(p) BY <2>1 DEF BeginAcquire
  <2>2. CASE MakeDirectory(p) BY <2>2 DEF MakeDirectory
  <2>3. CASE DirectoryExists(p) BY <2>3 DEF DirectoryExists
  <2>4. CASE ReadIdentity(p) BY <2>4 DEF ReadIdentity
  <2>5. CASE WriteProvisional(p) BY <2>5 DEF WriteProvisional, Abort
  <2>6. CASE LinkOwner(p) BY <2>6 DEF LinkOwner, Abort
  <2>7. CASE VerifyIdentity(p) BY <2>7 DEF VerifyIdentity, Abort
  <2>8. CASE VerifyOwner(p) BY <2>8 DEF VerifyOwner, Abort
  <2>9. CASE VerifyNoTransition(p) BY <2>9 DEF VerifyNoTransition, Abort
  <2> QED BY <1>1, <2>1, <2>2, <2>3, <2>4, <2>5, <2>6, <2>7, <2>8, <2>9 DEF Acquire
<1>2. CASE Inspect(p)
  <2>1. CASE InspectIdentity(p) BY <2>1 DEF InspectIdentity
  <2>2. CASE InspectOwner(p) BY <2>2 DEF InspectOwner
  <2>3. CASE InspectProvisional(p) BY <2>3 DEF InspectProvisional
  <2>4. CASE JudgeStale(p) BY <2>4 DEF JudgeStale
  <2>5. CASE JudgeCurrent(p) BY <2>5 DEF JudgeCurrent
  <2>6. CASE WaitOrGiveUp(p) BY <2>6 DEF WaitOrGiveUp
  <2> QED BY <1>2, <2>1, <2>2, <2>3, <2>4, <2>5, <2>6 DEF Inspect
<1>3. CASE Claim(p)
  <2>1. CASE ClaimIdentity(p) BY <2>1 DEF ClaimIdentity, ClaimFails
  <2>2. CASE LinkTransition(p) BY <2>2 DEF LinkTransition, ClaimFails
  <2>3. CASE PinWitness(p) BY <2>3 DEF PinWitness, ClaimFails
  <2>4. CASE ClearTransition(p) BY <2>4 DEF ClearTransition
  <2>5. CASE DropWitness(p) BY <2>5 DEF DropWitness, ClaimFails
  <2>6. CASE ConfirmClaim(p) BY <2>6 DEF ConfirmClaim, ClaimFails, DropOwnTransition
  <2> QED BY <1>3, <2>1, <2>2, <2>3, <2>4, <2>5, <2>6 DEF Claim
<1>4. CASE Reclaim(p)
  <2>1. CASE RecheckOwner(p) BY <2>1 DEF RecheckOwner, DropOwnTransition
  <2>2. CASE RecheckProvisional(p) BY <2>2 DEF RecheckProvisional, DropOwnTransition
  <2>3. CASE RenameStale(p) BY <2>3 DEF RenameStale
  <2>4. CASE CheckFrozen(p) BY <2>4 DEF CheckFrozen, Forget
  <2> QED BY <1>4, <2>1, <2>2, <2>3, <2>4 DEF Reclaim
<1>5. CASE Release(p)
  <2>1. CASE BeginRelease(p) BY <2>1 DEF BeginRelease
  <2>2. CASE InspectOwn(p) BY <2>2 DEF InspectOwn, ReleaseReturns
  <2>3. CASE RetryRelease(p) BY <2>3 DEF RetryRelease, ReleaseReturns
  <2>4. CASE RecheckOwn(p) BY <2>4 DEF RecheckOwn, ReleaseReturns, DropOwnTransition
  <2>5. CASE RenameOwned(p) BY <2>5 DEF RenameOwned
  <2>6. CASE RemoveRetired(p) BY <2>6 DEF RemoveRetired, ReleaseReturns, Forget
  <2> QED BY <1>5, <2>1, <2>2, <2>3, <2>4, <2>5, <2>6 DEF Release
<1>6. CASE Crash(p) BY <1>6 DEF Crash, Forget
<1> QED BY <1>1, <1>2, <1>3, <1>4, <1>5, <1>6 DEF Step

(* Only constructors write in the directory at the path.                   *)
LEMMA FilesKept ==
  ASSUME TypeInv, Retired, NEW p \in Procs, Step(p) \/ Crash(p),
         path' = path, path # NoDir, pc[p] \notin {"tmp", "link"}
  PROVE  owner'[path] = owner[path] /\ tmps'[path] = tmps[path]
<1> USE StateLockAssumption DEF TypeInv, TypeOK, disk, local, vars
<1>1. CASE Acquire(p)
  <2>1. CASE BeginAcquire(p) BY <2>1 DEF BeginAcquire
  <2>2. CASE MakeDirectory(p) BY <2>2 DEF MakeDirectory
  <2>3. CASE DirectoryExists(p) BY <2>3 DEF DirectoryExists
  <2>4. CASE ReadIdentity(p) BY <2>4 DEF ReadIdentity
  <2>5. CASE WriteProvisional(p) BY <2>5 DEF WriteProvisional, Abort
  <2>6. CASE LinkOwner(p) BY <2>6 DEF LinkOwner, Abort
  <2>7. CASE VerifyIdentity(p) BY <2>7 DEF VerifyIdentity, Abort
  <2>8. CASE VerifyOwner(p) BY <2>8 DEF VerifyOwner, Abort
  <2>9. CASE VerifyNoTransition(p) BY <2>9 DEF VerifyNoTransition, Abort
  <2> QED BY <1>1, <2>1, <2>2, <2>3, <2>4, <2>5, <2>6, <2>7, <2>8, <2>9 DEF Acquire
<1>2. CASE Inspect(p)
  <2>1. CASE InspectIdentity(p) BY <2>1 DEF InspectIdentity
  <2>2. CASE InspectOwner(p) BY <2>2 DEF InspectOwner
  <2>3. CASE InspectProvisional(p) BY <2>3 DEF InspectProvisional
  <2>4. CASE JudgeStale(p) BY <2>4 DEF JudgeStale
  <2>5. CASE JudgeCurrent(p) BY <2>5 DEF JudgeCurrent
  <2>6. CASE WaitOrGiveUp(p) BY <2>6 DEF WaitOrGiveUp
  <2> QED BY <1>2, <2>1, <2>2, <2>3, <2>4, <2>5, <2>6 DEF Inspect
<1>3. CASE Claim(p)
  <2>1. CASE ClaimIdentity(p) BY <2>1 DEF ClaimIdentity, ClaimFails
  <2>2. CASE LinkTransition(p) BY <2>2 DEF LinkTransition, ClaimFails
  <2>3. CASE PinWitness(p) BY <2>3 DEF PinWitness, ClaimFails
  <2>4. CASE ClearTransition(p) BY <2>4 DEF ClearTransition
  <2>5. CASE DropWitness(p) BY <2>5 DEF DropWitness, ClaimFails
  <2>6. CASE ConfirmClaim(p) BY <2>6 DEF ConfirmClaim, ClaimFails, DropOwnTransition
  <2> QED BY <1>3, <2>1, <2>2, <2>3, <2>4, <2>5, <2>6 DEF Claim
<1>4. CASE Reclaim(p)
  <2>1. CASE RecheckOwner(p) BY <2>1 DEF RecheckOwner, DropOwnTransition
  <2>2. CASE RecheckProvisional(p) BY <2>2 DEF RecheckProvisional, DropOwnTransition
  <2>3. CASE RenameStale(p) BY <2>3 DEF RenameStale
  <2>4. CASE CheckFrozen(p)
    <3>1. gen[p] # path /\ gen[p] \in Dirs
      BY <2>4 DEF Retired, RetiringPcs, CheckFrozen
    <3> QED BY <2>4, <3>1 DEF CheckFrozen, Forget
  <2> QED BY <1>4, <2>1, <2>2, <2>3, <2>4 DEF Reclaim
<1>5. CASE Release(p)
  <2>1. CASE BeginRelease(p) BY <2>1 DEF BeginRelease
  <2>2. CASE InspectOwn(p) BY <2>2 DEF InspectOwn, ReleaseReturns
  <2>3. CASE RetryRelease(p) BY <2>3 DEF RetryRelease, ReleaseReturns
  <2>4. CASE RecheckOwn(p) BY <2>4 DEF RecheckOwn, ReleaseReturns, DropOwnTransition
  <2>5. CASE RenameOwned(p) BY <2>5 DEF RenameOwned
  <2>6. CASE RemoveRetired(p)
    <3>1. gen[p] # path /\ gen[p] \in Dirs
      BY <2>6 DEF Retired, RetiringPcs, RemoveRetired
    <3> QED BY <2>6, <3>1 DEF RemoveRetired, Forget
  <2> QED BY <1>5, <2>1, <2>2, <2>3, <2>4, <2>5, <2>6 DEF Release
<1>6. CASE Crash(p)
  <2>1. CASE pc[p] \in RetiringPcs
    <3>1. gen[p] # path /\ gen[p] \in Dirs
      BY <2>1 DEF Retired
    <3> QED BY <1>6, <2>1, <3>1 DEF Crash, Forget, RetiringPcs
  <2>2. CASE pc[p] \notin RetiringPcs
    BY <1>6, <2>2 DEF Crash, RetiringPcs
  <2> QED BY <2>1, <2>2
<1> QED BY <1>1, <1>2, <1>3, <1>4, <1>5, <1>6 DEF Step

(* An engaged process that is past its construction stays where it is.     *)
LEMMA EngagedFrame ==
  ASSUME TypeInv, JobOfPlace, NEW p \in Procs, Step(p) \/ Crash(p),
         path # NoDir, path = gen[p], Engaged(p), Engaged(p)',
         pc[p] \notin {"tmp", "link"}
  PROVE  /\ path' = path /\ gen'[p] = gen[p]
         /\ pc'[p] # "link" /\ (Constructing(p)' <=> Constructing(p))
<1> USE DEF TypeInv, TypeOK, JobOfPlace, Engaged, Constructing, Goto, Return, disk, local, vars,
        AcquirePcs, InspectPcs, ClaimPcs, ReclaimPcs, ReleasePcs
<1>1. CASE Acquire(p)
  <2>1. CASE BeginAcquire(p) BY <2>1 DEF BeginAcquire
  <2>2. CASE MakeDirectory(p) BY <2>2 DEF MakeDirectory
  <2>3. CASE DirectoryExists(p) BY <2>3 DEF DirectoryExists
  <2>4. CASE ReadIdentity(p) BY <2>4 DEF ReadIdentity
  <2>5. CASE WriteProvisional(p) BY <2>5 DEF WriteProvisional, Abort
  <2>6. CASE LinkOwner(p) BY <2>6 DEF LinkOwner, Abort
  <2>7. CASE VerifyIdentity(p) BY <2>7 DEF VerifyIdentity, Abort
  <2>8. CASE VerifyOwner(p) BY <2>8 DEF VerifyOwner, Abort
  <2>9. CASE VerifyNoTransition(p) BY <2>9 DEF VerifyNoTransition, Abort
  <2> QED BY <1>1, <2>1, <2>2, <2>3, <2>4, <2>5, <2>6, <2>7, <2>8, <2>9 DEF Acquire
<1>2. CASE Inspect(p)
  <2>1. CASE InspectIdentity(p) BY <2>1 DEF InspectIdentity
  <2>2. CASE InspectOwner(p) BY <2>2 DEF InspectOwner
  <2>3. CASE InspectProvisional(p) BY <2>3 DEF InspectProvisional
  <2>4. CASE JudgeStale(p) BY <2>4 DEF JudgeStale
  <2>5. CASE JudgeCurrent(p) BY <2>5 DEF JudgeCurrent
  <2>6. CASE WaitOrGiveUp(p) BY <2>6 DEF WaitOrGiveUp
  <2> QED BY <1>2, <2>1, <2>2, <2>3, <2>4, <2>5, <2>6 DEF Inspect
<1>3. CASE Claim(p)
  <2>1. CASE ClaimIdentity(p) BY <2>1 DEF ClaimIdentity, ClaimFails
  <2>2. CASE LinkTransition(p) BY <2>2 DEF LinkTransition, ClaimFails
  <2>3. CASE PinWitness(p) BY <2>3 DEF PinWitness, ClaimFails
  <2>4. CASE ClearTransition(p) BY <2>4 DEF ClearTransition
  <2>5. CASE DropWitness(p) BY <2>5 DEF DropWitness, ClaimFails
  <2>6. CASE ConfirmClaim(p) BY <2>6 DEF ConfirmClaim, ClaimFails, DropOwnTransition
  <2> QED BY <1>3, <2>1, <2>2, <2>3, <2>4, <2>5, <2>6 DEF Claim
<1>4. CASE Reclaim(p)
  <2>1. CASE RecheckOwner(p) BY <2>1 DEF RecheckOwner, DropOwnTransition
  <2>2. CASE RecheckProvisional(p) BY <2>2 DEF RecheckProvisional, DropOwnTransition
  <2>3. CASE RenameStale(p) BY <2>3 DEF RenameStale
  <2>4. CASE CheckFrozen(p) BY <2>4 DEF CheckFrozen, Forget
  <2> QED BY <1>4, <2>1, <2>2, <2>3, <2>4 DEF Reclaim
<1>5. CASE Release(p)
  <2>1. CASE BeginRelease(p) BY <2>1 DEF BeginRelease
  <2>2. CASE InspectOwn(p) BY <2>2 DEF InspectOwn, ReleaseReturns
  <2>3. CASE RetryRelease(p) BY <2>3 DEF RetryRelease, ReleaseReturns
  <2>4. CASE RecheckOwn(p) BY <2>4 DEF RecheckOwn, ReleaseReturns, DropOwnTransition
  <2>5. CASE RenameOwned(p) BY <2>5 DEF RenameOwned
  <2>6. CASE RemoveRetired(p) BY <2>6 DEF RemoveRetired, ReleaseReturns, Forget
  <2> QED BY <1>5, <2>1, <2>2, <2>3, <2>4, <2>5, <2>6 DEF Release
<1>6. CASE Crash(p) BY <1>6 DEF Crash, Forget
<1> QED BY <1>1, <1>2, <1>3, <1>4, <1>5, <1>6 DEF Step

(* The step that leads to a place.                                         *)
LEMMA PlaceEntry ==
  ASSUME TypeInv, NEW p \in Procs, Step(p) \/ Crash(p)
  PROVE  /\ pc'[p] = "judge" => InspectOwner(p) \/ InspectProvisional(p)
         /\ pc'[p] \in {"recheckProvisional", "renameStale"}
              => RecheckOwner(p) \/ RecheckProvisional(p)
         /\ pc'[p] = "frozen" => RenameStale(p)
         /\ pc'[p] = "remove" => RenameOwned(p)
<1> USE DEF TypeInv, TypeOK, Goto, Return, disk, local, vars
<1>1. CASE Acquire(p)
  <2>1. CASE BeginAcquire(p) BY <2>1 DEF BeginAcquire
  <2>2. CASE MakeDirectory(p) BY <2>2 DEF MakeDirectory
  <2>3. CASE DirectoryExists(p) BY <2>3 DEF DirectoryExists
  <2>4. CASE ReadIdentity(p) BY <2>4 DEF ReadIdentity
  <2>5. CASE WriteProvisional(p) BY <2>5 DEF WriteProvisional, Abort
  <2>6. CASE LinkOwner(p) BY <2>6 DEF LinkOwner, Abort
  <2>7. CASE VerifyIdentity(p) BY <2>7 DEF VerifyIdentity, Abort
  <2>8. CASE VerifyOwner(p) BY <2>8 DEF VerifyOwner, Abort
  <2>9. CASE VerifyNoTransition(p) BY <2>9 DEF VerifyNoTransition, Abort
  <2> QED BY <1>1, <2>1, <2>2, <2>3, <2>4, <2>5, <2>6, <2>7, <2>8, <2>9 DEF Acquire
<1>2. CASE Inspect(p)
  <2>1. CASE InspectIdentity(p) BY <2>1 DEF InspectIdentity
  <2>2. CASE InspectOwner(p) BY <2>2 DEF InspectOwner
  <2>3. CASE InspectProvisional(p) BY <2>3 DEF InspectProvisional
  <2>4. CASE JudgeStale(p) BY <2>4 DEF JudgeStale
  <2>5. CASE JudgeCurrent(p) BY <2>5 DEF JudgeCurrent
  <2>6. CASE WaitOrGiveUp(p) BY <2>6 DEF WaitOrGiveUp
  <2> QED BY <1>2, <2>1, <2>2, <2>3, <2>4, <2>5, <2>6 DEF Inspect
<1>3. CASE Claim(p)
  <2>1. CASE ClaimIdentity(p) BY <2>1 DEF ClaimIdentity, ClaimFails
  <2>2. CASE LinkTransition(p) BY <2>2 DEF LinkTransition, ClaimFails
  <2>3. CASE PinWitness(p) BY <2>3 DEF PinWitness, ClaimFails
  <2>4. CASE ClearTransition(p) BY <2>4 DEF ClearTransition
  <2>5. CASE DropWitness(p) BY <2>5 DEF DropWitness, ClaimFails
  <2>6. CASE ConfirmClaim(p) BY <2>6 DEF ConfirmClaim, ClaimFails, DropOwnTransition
  <2> QED BY <1>3, <2>1, <2>2, <2>3, <2>4, <2>5, <2>6 DEF Claim
<1>4. CASE Reclaim(p)
  <2>1. CASE RecheckOwner(p) BY <2>1 DEF RecheckOwner, DropOwnTransition
  <2>2. CASE RecheckProvisional(p) BY <2>2 DEF RecheckProvisional, DropOwnTransition
  <2>3. CASE RenameStale(p) BY <2>3 DEF RenameStale
  <2>4. CASE CheckFrozen(p) BY <2>4 DEF CheckFrozen, Forget
  <2> QED BY <1>4, <2>1, <2>2, <2>3, <2>4 DEF Reclaim
<1>5. CASE Release(p)
  <2>1. CASE BeginRelease(p) BY <2>1 DEF BeginRelease
  <2>2. CASE InspectOwn(p) BY <2>2 DEF InspectOwn, ReleaseReturns
  <2>3. CASE RetryRelease(p) BY <2>3 DEF RetryRelease, ReleaseReturns
  <2>4. CASE RecheckOwn(p) BY <2>4 DEF RecheckOwn, ReleaseReturns, DropOwnTransition
  <2>5. CASE RenameOwned(p) BY <2>5 DEF RenameOwned
  <2>6. CASE RemoveRetired(p) BY <2>6 DEF RemoveRetired, ReleaseReturns, Forget
  <2> QED BY <1>5, <2>1, <2>2, <2>3, <2>4, <2>5, <2>6 DEF Release
<1>6. CASE Crash(p) BY <1>6 DEF Crash, Forget
<1> QED BY <1>1, <1>2, <1>3, <1>4, <1>5, <1>6 DEF Step

(* A reclaimer got its snapshot from its judgement.                        *)
LEMMA ReclaimEntry ==
  ASSUME TypeInv, JobOfPlace, NEW p \in Procs, Step(p) \/ Crash(p),
         job'[p] = "reclaim", pc'[p] \in ClaimPcs \cup ClaimedPcs
  PROVE  \/ JudgeStale(p)
         \/ /\ job[p] = "reclaim" /\ pc[p] \in ClaimPcs \cup ClaimedPcs
            /\ gen'[p] = gen[p] /\ fp'[p] = fp[p]
<1> USE DEF TypeInv, TypeOK, JobOfPlace, Goto, Return, disk, local, vars,
        ClaimedPcs, AcquirePcs, InspectPcs, ClaimPcs, ReclaimPcs, ReleasePcs
<1>1. CASE Acquire(p)
  <2>1. CASE BeginAcquire(p) BY <2>1 DEF BeginAcquire
  <2>2. CASE MakeDirectory(p) BY <2>2 DEF MakeDirectory
  <2>3. CASE DirectoryExists(p) BY <2>3 DEF DirectoryExists
  <2>4. CASE ReadIdentity(p) BY <2>4 DEF ReadIdentity
  <2>5. CASE WriteProvisional(p) BY <2>5 DEF WriteProvisional, Abort
  <2>6. CASE LinkOwner(p) BY <2>6 DEF LinkOwner, Abort
  <2>7. CASE VerifyIdentity(p) BY <2>7 DEF VerifyIdentity, Abort
  <2>8. CASE VerifyOwner(p) BY <2>8 DEF VerifyOwner, Abort
  <2>9. CASE VerifyNoTransition(p) BY <2>9 DEF VerifyNoTransition, Abort
  <2> QED BY <1>1, <2>1, <2>2, <2>3, <2>4, <2>5, <2>6, <2>7, <2>8, <2>9 DEF Acquire
<1>2. CASE Inspect(p)
  <2>1. CASE InspectIdentity(p) BY <2>1 DEF InspectIdentity
  <2>2. CASE InspectOwner(p) BY <2>2 DEF InspectOwner
  <2>3. CASE InspectProvisional(p) BY <2>3 DEF InspectProvisional
  <2>4. CASE JudgeStale(p) BY <2>4 DEF JudgeStale
  <2>5. CASE JudgeCurrent(p) BY <2>5 DEF JudgeCurrent
  <2>6. CASE WaitOrGiveUp(p) BY <2>6 DEF WaitOrGiveUp
  <2> QED BY <1>2, <2>1, <2>2, <2>3, <2>4, <2>5, <2>6 DEF Inspect
<1>3. CASE Claim(p)
  <2>1. CASE ClaimIdentity(p) BY <2>1 DEF ClaimIdentity, ClaimFails
  <2>2. CASE LinkTransition(p) BY <2>2 DEF LinkTransition, ClaimFails
  <2>3. CASE PinWitness(p) BY <2>3 DEF PinWitness, ClaimFails
  <2>4. CASE ClearTransition(p) BY <2>4 DEF ClearTransition
  <2>5. CASE DropWitness(p) BY <2>5 DEF DropWitness, ClaimFails
  <2>6. CASE ConfirmClaim(p) BY <2>6 DEF ConfirmClaim, ClaimFails, DropOwnTransition
  <2> QED BY <1>3, <2>1, <2>2, <2>3, <2>4, <2>5, <2>6 DEF Claim
<1>4. CASE Reclaim(p)
  <2>1. CASE RecheckOwner(p) BY <2>1 DEF RecheckOwner, DropOwnTransition
  <2>2. CASE RecheckProvisional(p) BY <2>2 DEF RecheckProvisional, DropOwnTransition
  <2>3. CASE RenameStale(p) BY <2>3 DEF RenameStale
  <2>4. CASE CheckFrozen(p) BY <2>4 DEF CheckFrozen, Forget
  <2> QED BY <1>4, <2>1, <2>2, <2>3, <2>4 DEF Reclaim
<1>5. CASE Release(p)
  <2>1. CASE BeginRelease(p) BY <2>1 DEF BeginRelease
  <2>2. CASE InspectOwn(p) BY <2>2 DEF InspectOwn, ReleaseReturns
  <2>3. CASE RetryRelease(p) BY <2>3 DEF RetryRelease, ReleaseReturns
  <2>4. CASE RecheckOwn(p) BY <2>4 DEF RecheckOwn, ReleaseReturns, DropOwnTransition
  <2>5. CASE RenameOwned(p) BY <2>5 DEF RenameOwned
  <2>6. CASE RemoveRetired(p) BY <2>6 DEF RemoveRetired, ReleaseReturns, Forget
  <2> QED BY <1>5, <2>1, <2>2, <2>3, <2>4, <2>5, <2>6 DEF Release
<1>6. CASE Crash(p) BY <1>6 DEF Crash, Forget
<1> QED BY <1>1, <1>2, <1>3, <1>4, <1>5, <1>6 DEF Step

(* The steps that write the owner of the directory under construction.     *)
LEMMA AtTmpOrLink ==
  ASSUME TypeInv, NEW p \in Procs, Step(p) \/ Crash(p), Engaged(p)'
  PROVE  /\ pc[p] = "tmp" => WriteProvisional(p)
         /\ pc[p] = "link" => LinkOwner(p)
<1> USE DEF TypeInv, TypeOK, Engaged, Return, Goto, disk, local, vars, ClaimPcs
<1>1. CASE Acquire(p)
  <2>1. CASE BeginAcquire(p) BY <2>1 DEF BeginAcquire
  <2>2. CASE MakeDirectory(p) BY <2>2 DEF MakeDirectory
  <2>3. CASE DirectoryExists(p) BY <2>3 DEF DirectoryExists
  <2>4. CASE ReadIdentity(p) BY <2>4 DEF ReadIdentity
  <2>5. CASE WriteProvisional(p) BY <2>5 DEF WriteProvisional, Abort
  <2>6. CASE LinkOwner(p) BY <2>6 DEF LinkOwner, Abort
  <2>7. CASE VerifyIdentity(p) BY <2>7 DEF VerifyIdentity, Abort
  <2>8. CASE VerifyOwner(p) BY <2>8 DEF VerifyOwner, Abort
  <2>9. CASE VerifyNoTransition(p) BY <2>9 DEF VerifyNoTransition, Abort
  <2> QED BY <1>1, <2>1, <2>2, <2>3, <2>4, <2>5, <2>6, <2>7, <2>8, <2>9 DEF Acquire
<1>2. CASE Inspect(p)
  <2>1. CASE InspectIdentity(p) BY <2>1 DEF InspectIdentity
  <2>2. CASE InspectOwner(p) BY <2>2 DEF InspectOwner
  <2>3. CASE InspectProvisional(p) BY <2>3 DEF InspectProvisional
  <2>4. CASE JudgeStale(p) BY <2>4 DEF JudgeStale
  <2>5. CASE JudgeCurrent(p) BY <2>5 DEF JudgeCurrent
  <2>6. CASE WaitOrGiveUp(p) BY <2>6 DEF WaitOrGiveUp
  <2> QED BY <1>2, <2>1, <2>2, <2>3, <2>4, <2>5, <2>6 DEF Inspect
<1>3. CASE Claim(p)
  <2>1. CASE ClaimIdentity(p) BY <2>1 DEF ClaimIdentity, ClaimFails
  <2>2. CASE LinkTransition(p) BY <2>2 DEF LinkTransition, ClaimFails
  <2>3. CASE PinWitness(p) BY <2>3 DEF PinWitness, ClaimFails
  <2>4. CASE ClearTransition(p) BY <2>4 DEF ClearTransition
  <2>5. CASE DropWitness(p) BY <2>5 DEF DropWitness, ClaimFails
  <2>6. CASE ConfirmClaim(p) BY <2>6 DEF ConfirmClaim, ClaimFails, DropOwnTransition
  <2> QED BY <1>3, <2>1, <2>2, <2>3, <2>4, <2>5, <2>6 DEF Claim
<1>4. CASE Reclaim(p)
  <2>1. CASE RecheckOwner(p) BY <2>1 DEF RecheckOwner, DropOwnTransition
  <2>2. CASE RecheckProvisional(p) BY <2>2 DEF RecheckProvisional, DropOwnTransition
  <2>3. CASE RenameStale(p) BY <2>3 DEF RenameStale
  <2>4. CASE CheckFrozen(p) BY <2>4 DEF CheckFrozen, Forget
  <2> QED BY <1>4, <2>1, <2>2, <2>3, <2>4 DEF Reclaim
<1>5. CASE Release(p)
  <2>1. CASE BeginRelease(p) BY <2>1 DEF BeginRelease
  <2>2. CASE InspectOwn(p) BY <2>2 DEF InspectOwn, ReleaseReturns
  <2>3. CASE RetryRelease(p) BY <2>3 DEF RetryRelease, ReleaseReturns
  <2>4. CASE RecheckOwn(p) BY <2>4 DEF RecheckOwn, ReleaseReturns, DropOwnTransition
  <2>5. CASE RenameOwned(p) BY <2>5 DEF RenameOwned
  <2>6. CASE RemoveRetired(p) BY <2>6 DEF RemoveRetired, ReleaseReturns, Forget
  <2> QED BY <1>5, <2>1, <2>2, <2>3, <2>4, <2>5, <2>6 DEF Release
<1>6. CASE Crash(p) BY <1>6 DEF Crash, Forget
<1> QED BY <1>1, <1>2, <1>3, <1>4, <1>5, <1>6 DEF Step

(* An engaged process stays at the path.                                   *)
LEMMA EngagedKeeps ==
  ASSUME TypeInv, TypeInv', JobOfPlace, Retired, NEW p \in Procs, Step(p) \/ Crash(p),
         AtPath(p), Engaged(p), Engaged(p)'
  PROVE  /\ path' = path /\ gen'[p] = gen[p]
         /\ Constructing(p)' => Constructing(p)
         /\ AtPath(p)'
<1> USE StateLockAssumption, RecordTypes
<1>1. CASE pc[p] \notin {"tmp", "link"}
  <2>1. /\ path' = path /\ gen'[p] = gen[p] /\ pc'[p] # "link"
        /\ Constructing(p)' <=> Constructing(p)
    BY <1>1, EngagedFrame DEF AtPath
  <2>2. owner'[path] = owner[path] /\ tmps'[path] = tmps[path]
    BY <1>1, <2>1, FilesKept DEF AtPath
  <2>3. MyRec(p)' = MyRec(p)
    BY <2>1 DEF MyRec
  <2> QED BY <1>1, <2>1, <2>2, <2>3 DEF AtPath
<1>2. CASE pc[p] = "tmp"
  <2>1. WriteProvisional(p) /\ path # NoDir /\ path \in Dirs
    BY <1>2, AtTmpOrLink DEF AtPath, TypeInv, TypeOK
  <2>2. /\ tmps' = [tmps EXCEPT ![path] = @ \cup {MyRec(p)}]
        /\ pc' = [pc EXCEPT ![p] = "link"]
        /\ gen' = gen /\ path' = path /\ owner' = owner
    BY <2>1 DEF WriteProvisional, Goto
  <2>3. pc'[p] = "link" /\ tmps'[path] = {MyRec(p)}
    BY <1>2, <2>1, <2>2 DEF AtPath, TypeInv, TypeOK
  <2> QED BY <1>2, <2>2, <2>3 DEF AtPath, MyRec, Constructing
<1>3. CASE pc[p] = "link"
  <2>1. LinkOwner(p) /\ path # NoDir /\ path \in Dirs /\ MyRec(p) \in tmps[path]
        /\ owner[path] = NoRec
    BY <1>3, AtTmpOrLink DEF AtPath, TypeInv, TypeOK, Constructing
  <2>2. /\ tmps' = [tmps EXCEPT ![path] = @ \ {MyRec(p)}]
        /\ owner' = [owner EXCEPT ![path] = MyRec(p)]
        /\ pc' = [pc EXCEPT ![p] = "verify"]
        /\ gen' = gen /\ path' = path
    BY <2>1 DEF LinkOwner, Goto
  <2>3. pc'[p] = "verify" /\ tmps'[path] = {} /\ owner'[path] = MyRec(p)
    BY <1>3, <2>1, <2>2 DEF AtPath, TypeInv, TypeOK
  <2> QED BY <1>3, <2>1, <2>2, <2>3 DEF AtPath, MyRec, Constructing
<1> QED BY <1>1, <1>2, <1>3

(* A process that makes the directory is alone in it.                      *)
LEMMA MakerAtPath ==
  ASSUME TypeInv, NEW p \in Procs, MakeDirectory(p)
  PROVE  /\ path = NoDir /\ pc'[p] = "lstat"
         /\ path' \in Dirs /\ Fresh(path') /\ gen'[p] = path'
         /\ owner'[path'] = NoRec /\ tmps'[path'] = {}
BY StateLockAssumption DEF MakeDirectory, TypeInv, TypeOK, Goto

(* A claimer keeps the path: only it can rename the directory away, and    *)
(* while it is the reclaimer nobody is engaged in it.                      *)
LEMMA OthersKeepPath ==
  ASSUME TypeInv, Pinned, OneEngaged, EngagedAtPath, Rechecked, JobOfPlace,
         NEW p \in Procs, Step(p) \/ Crash(p), NEW q \in Procs, q # p, Engaged(q)
  PROVE  path' = path /\ ~Engaged(p)
<1>1. ~Engaged(p)
  BY DEF OneEngaged
<1>2. path # NoDir
  BY DEF EngagedAtPath, AtPath
<1>3. pc[p] # "renameStale"
  BY DEF Rechecked
<1>4. pc[p] # "renameOwned"
  BY <1>1 DEF Engaged, JobOfPlace, ReleasePcs
<1> QED BY <1>1, <1>2, <1>3, <1>4, PathMoves

(* Every step keeps it: a process that is about to link, that holds or     *)
(* that releases owner.json has its generation at the path.                *)
LEMMA EngagedStep ==
  ASSUME TypeInv, TypeInv', JobOfPlace, Pinned, Retired, EngagedAtPath, OneEngaged,
         Rechecked, NEW p \in Procs, Step(p) \/ Crash(p)
  PROVE  EngagedAtPath' /\ OneEngaged'
<1>1. ASSUME NEW q \in Procs, Engaged(q)'
      PROVE  AtPath(q)' /\ (Engaged(q) \/ (q = p /\ MakeDirectory(p)))
  <2>1. CASE q = p /\ Engaged(p)
    <3>1. AtPath(p)
      BY <2>1 DEF EngagedAtPath, AtPath
    <3> QED BY <1>1, <2>1, <3>1, EngagedKeeps
  <2>2. CASE q = p /\ ~Engaged(p)
    <3>1. MakeDirectory(p)
      BY <1>1, <2>2, EngagedEntry
    <3> QED BY <2>2, <3>1, MakerAtPath, StateLockAssumption DEF AtPath, Constructing
  <2>3. CASE q # p
    <3>1. pc'[q] = pc[q] /\ gen'[q] = gen[q] /\ job'[q] = job[q]
      BY <2>3, OthersStand
    <3>2. Engaged(q) /\ AtPath(q)
      BY <1>1, <3>1 DEF Engaged, EngagedAtPath, AtPath
    <3>3. path' = path /\ ~Engaged(p)
      BY <2>3, <3>2, OthersKeepPath
    <3>4. owner'[path] = owner[path] /\ tmps'[path] = tmps[path]
      BY <3>2, <3>3, FilesKept DEF Engaged, AtPath
    <3> QED BY <3>1, <3>2, <3>3, <3>4 DEF AtPath, Constructing, MyRec
  <2> QED BY <2>1, <2>2, <2>3
<1>2. EngagedAtPath'
  BY <1>1 DEF EngagedAtPath, AtPath
<1>3. ASSUME NEW q \in Procs, NEW r \in Procs, Engaged(q)', Engaged(r)'
      PROVE  q = r
  <2>1. CASE Engaged(q) /\ Engaged(r)
    BY <2>1 DEF OneEngaged
  <2>2. ASSUME NEW s \in Procs, Engaged(s) PROVE ~MakeDirectory(p)
    BY <2>2, MakerAtPath DEF EngagedAtPath, AtPath
  <2> QED BY <1>1, <1>3, <2>1, <2>2
<1> QED BY <1>2, <1>3 DEF OneEngaged

(* A directory gets under construction by its mkdir, whose identity nobody *)
(* remembers.                                                              *)
LEMMA ConstructEntry ==
  ASSUME TypeInv, TypeInv', JobOfPlace, Pinned, Retired, EngagedAtPath, OneEngaged,
         Rechecked, ~ReusesInodes,
         NEW p \in Procs, Step(p) \/ Crash(p), NEW q \in Procs, Constructing(q)'
  PROVE  \/ Constructing(q) /\ gen'[q] = gen[q]
         \/ q = p /\ MakeDirectory(p) /\ ~Remembered(gen'[q])
<1>1. CASE q # p
  BY <1>1, OthersStand DEF Constructing
<1>2. CASE q = p /\ Engaged(p)
  <2>1. AtPath(p) /\ Engaged(p)'
    BY <1>2 DEF EngagedAtPath, Engaged, Constructing
  <2> QED BY <1>2, <2>1, EngagedKeeps
<1>3. CASE q = p /\ ~Engaged(p)
  <2>1. MakeDirectory(p)
    BY <1>3, EngagedEntry DEF Engaged, Constructing
  <2> QED BY <1>3, <2>1, MakerAtPath DEF Fresh
<1> QED BY <1>1, <1>2, <1>3

(* Every step keeps it: what a contender remembers of an owner is a        *)
(* record that stood in the generation it inspects.                        *)
LEMMA SnapshotStep ==
  ASSUME TypeInv, TypeInv', JobOfPlace, Pinned, Retired, EngagedAtPath, OneEngaged,
         Rechecked, Snapshot, ~ReusesInodes, NEW p \in Procs, Step(p) \/ Crash(p)
  PROVE  Snapshot'
<1> SUFFICES ASSUME NEW r \in Procs, NEW q \in Procs, pc'[r] = "judge",
                    Claims(fp[r], gen[r])', Constructing(q)', gen'[q] = gen'[r]
             PROVE  fp'[r].proc = q
  BY DEF Snapshot
<1>1. CASE r # p
  <2>1. /\ pc[r] = "judge" /\ gen'[r] = gen[r] /\ fp'[r] = fp[r]
    BY <1>1, OthersStand
  <2>2. Constructing(q) /\ gen'[q] = gen[q]
    <3>1. CASE q = p /\ MakeDirectory(p) /\ ~Remembered(gen'[q])
      BY <2>1, <3>1 DEF Remembered
    <3> QED BY <3>1, ConstructEntry
  <2> QED BY <2>1, <2>2 DEF Snapshot, Claims
<1>2. CASE r = p
  <2>1. InspectOwner(p) \/ InspectProvisional(p)
    BY <1>2, PlaceEntry
  <2>2. Constructing(q) /\ gen'[q] = gen[q] /\ gen' = gen /\ path' = path
    BY <1>2, <2>1, ConstructEntry DEF InspectOwner, InspectProvisional, Constructing,
       MakeDirectory, disk
  <2>3. AtPath(q)
    BY <2>2 DEF EngagedAtPath, Engaged, Constructing
  <2>4. CASE InspectOwner(p)
    BY <1>2, <2>2, <2>3, <2>4 DEF InspectOwner, AtPath, Goto, TypeInv, TypeOK
  <2>5. CASE InspectProvisional(p)
    <3>1. fp'[p] = Provisional(path)
      BY <2>3, <2>5 DEF InspectProvisional, AtPath, TypeInv, TypeOK
    <3>2. Provisional(path) = NoRec \/ Provisional(path) = MyRec(q)
      BY <2>3 DEF AtPath, Provisional
    <3> QED BY <1>2, <3>1, <3>2 DEF Claims, MyRec
  <2> QED BY <2>1, <2>4, <2>5
<1> QED BY <1>1, <1>2

(* Every step keeps it: a generation judged reclaimable has no live owner. *)
LEMMA JudgedStep ==
  ASSUME TypeInv, TypeInv', JobOfPlace, Pinned, Retired, EngagedAtPath, OneEngaged,
         Rechecked, Snapshot, Judged, ~MayStall, ~ReusesInodes,
         NEW p \in Procs, Step(p) \/ Crash(p)
  PROVE  Judged'
<1> SUFFICES ASSUME NEW r \in Procs, job'[r] = "reclaim",
                    pc'[r] \in ClaimPcs \cup ClaimedPcs
             PROVE  /\ gen'[r] \in Dirs
                    /\ Claims(fp[r], gen[r])' => Dead(fp[r].proc)'
                    /\ \A q \in Procs : Constructing(q)' => gen'[q] # gen'[r]
  BY DEF Judged
<1>1. gen'[r] \in Dirs
  BY DEF TypeInv, GenKnown, ClaimPcs, ClaimedPcs
<1>2. /\ gen'[r] = gen[r] /\ fp'[r] = fp[r]
      /\ Claims(fp[r], gen[r]) => Dead(fp[r].proc)
      /\ \A q \in Procs : Constructing(q) => gen[q] # gen[r]
  <2>1. CASE r = p /\ JudgeStale(p)
    <3>1. /\ pc[p] = "judge" /\ Reclaimable(fp[p], gen[p])
          /\ gen' = gen /\ fp' = fp
      BY <2>1 DEF JudgeStale
    <3>2. CASE Claims(fp[p], gen[p])
      <4>1. Dead(fp[p].proc)
        BY <3>1, <3>2 DEF Reclaimable
      <4>2. ASSUME NEW q \in Procs, Constructing(q), gen[q] = gen[p]
            PROVE  FALSE
        BY <3>1, <3>2, <4>1, <4>2 DEF Snapshot, Constructing, Dead, Alive
      <4> QED BY <2>1, <3>1, <4>1, <4>2
    <3>3. CASE ~Claims(fp[p], gen[p])
      BY <2>1, <3>1, <3>3 DEF Reclaimable, Aged
    <3> QED BY <3>2, <3>3
  <2>2. CASE /\ job[r] = "reclaim" /\ pc[r] \in ClaimPcs \cup ClaimedPcs
             /\ gen'[r] = gen[r] /\ fp'[r] = fp[r]
    BY <2>2 DEF Judged
  <2>3. CASE r # p
    BY <2>2, <2>3, OthersStand
  <2> QED BY <2>1, <2>2, <2>3, ReclaimEntry
<1>3. Claims(fp[r], gen[r])' => Dead(fp[r].proc)'
  <2> SUFFICES ASSUME Claims(fp'[r], gen'[r]) PROVE pc'[fp'[r].proc] = "dead"
    BY DEF Claims, Dead, Alive
  <2>1. fp[r] # NoRec /\ fp[r].proc \in Procs /\ Dead(fp[r].proc)
    BY <1>2, RecordTypes DEF Claims, TypeInv, TypeOK
  <2>2. Dead(fp[r].proc) => pc'[fp[r].proc] = "dead"
    BY <2>1, DeadStays DEF Dead, Alive
  <2> QED BY <1>2, <2>1, <2>2 DEF Dead, Alive
<1>4. ASSUME NEW q \in Procs, Constructing(q)' PROVE gen'[q] # gen'[r]
  <2>1. CASE Constructing(q) /\ gen'[q] = gen[q]
    BY <1>2, <2>1
  <2>2. CASE q = p /\ MakeDirectory(p) /\ ~Remembered(gen'[q])
    BY <1>2, <2>2 DEF Remembered
  <2> QED BY <1>4, <2>1, <2>2, ConstructEntry
<1> QED BY <1>1, <1>3, <1>4

(* Nobody renames a directory away under another process's claim.          *)
LEMMA ClaimKeepsPath ==
  ASSUME TypeInv, Pinned, NEW p \in Procs, Step(p) \/ Crash(p),
         NEW q \in Procs, q # p, pc[q] \in ClaimedPcs
  PROVE  path # NoDir /\ path' = path
<1>1. OwnsTransition(q)
  BY DEF Pinned, ClaimPinsPath, ClaimedPcs
<1>2. pc[p] \notin {"renameStale", "renameOwned"}
  BY <1>1, TransOwner DEF Pinned, ClaimPinsPath, OwnsTransition
<1> QED BY <1>1, <1>2, PathMoves DEF OwnsTransition

(* What a process has renamed away nobody else writes in.                  *)
LEMMA RetiredKept ==
  ASSUME TypeInv, Retired, NEW p \in Procs, Step(p) \/ Crash(p),
         NEW q \in Procs, q # p, pc[q] \in RetiringPcs
  PROVE  owner'[gen[q]] = owner[gen[q]] /\ tmps'[gen[q]] = tmps[gen[q]]
<1> USE StateLockAssumption DEF TypeInv, TypeOK, disk, local, vars
<1>0. gen[q] \in Dirs /\ gen[q] # path /\ gen[q] \notin gone
  BY DEF Retired
<1>1. CASE Acquire(p)
  <2>1. CASE BeginAcquire(p) BY <2>1, <1>0 DEF BeginAcquire
  <2>2. CASE MakeDirectory(p)
    <3>1. PICK d \in Dirs : /\ Fresh(d)
                             /\ owner' = [owner EXCEPT ![d] = NoRec]
                             /\ tmps' = [tmps EXCEPT ![d] = {}]
      BY <2>2 DEF MakeDirectory
    <3>2. d # gen[q]
      BY <1>0, <3>1 DEF Fresh, Remembered
    <3> QED BY <1>0, <3>1, <3>2
  <2>3. CASE DirectoryExists(p) BY <2>3, <1>0 DEF DirectoryExists
  <2>4. CASE ReadIdentity(p) BY <2>4, <1>0 DEF ReadIdentity
  <2>5. CASE WriteProvisional(p) BY <2>5, <1>0 DEF WriteProvisional, Abort
  <2>6. CASE LinkOwner(p) BY <2>6, <1>0 DEF LinkOwner, Abort
  <2>7. CASE VerifyIdentity(p) BY <2>7, <1>0 DEF VerifyIdentity, Abort
  <2>8. CASE VerifyOwner(p) BY <2>8, <1>0 DEF VerifyOwner, Abort
  <2>9. CASE VerifyNoTransition(p) BY <2>9, <1>0 DEF VerifyNoTransition, Abort
  <2> QED BY <1>1, <2>1, <2>2, <2>3, <2>4, <2>5, <2>6, <2>7, <2>8, <2>9 DEF Acquire
<1>2. CASE Inspect(p)
  <2>1. CASE InspectIdentity(p) BY <2>1, <1>0 DEF InspectIdentity
  <2>2. CASE InspectOwner(p) BY <2>2, <1>0 DEF InspectOwner
  <2>3. CASE InspectProvisional(p) BY <2>3, <1>0 DEF InspectProvisional
  <2>4. CASE JudgeStale(p) BY <2>4, <1>0 DEF JudgeStale
  <2>5. CASE JudgeCurrent(p) BY <2>5, <1>0 DEF JudgeCurrent
  <2>6. CASE WaitOrGiveUp(p) BY <2>6, <1>0 DEF WaitOrGiveUp
  <2> QED BY <1>2, <2>1, <2>2, <2>3, <2>4, <2>5, <2>6 DEF Inspect
<1>3. CASE Claim(p)
  <2>1. CASE ClaimIdentity(p) BY <2>1, <1>0 DEF ClaimIdentity, ClaimFails
  <2>2. CASE LinkTransition(p) BY <2>2, <1>0 DEF LinkTransition, ClaimFails
  <2>3. CASE PinWitness(p) BY <2>3, <1>0 DEF PinWitness, ClaimFails
  <2>4. CASE ClearTransition(p) BY <2>4, <1>0 DEF ClearTransition
  <2>5. CASE DropWitness(p) BY <2>5, <1>0 DEF DropWitness, ClaimFails
  <2>6. CASE ConfirmClaim(p) BY <2>6, <1>0 DEF ConfirmClaim, ClaimFails, DropOwnTransition
  <2> QED BY <1>3, <2>1, <2>2, <2>3, <2>4, <2>5, <2>6 DEF Claim
<1>4. CASE Reclaim(p)
  <2>1. CASE RecheckOwner(p) BY <2>1, <1>0 DEF RecheckOwner, DropOwnTransition
  <2>2. CASE RecheckProvisional(p) BY <2>2, <1>0 DEF RecheckProvisional, DropOwnTransition
  <2>3. CASE RenameStale(p) BY <2>3, <1>0 DEF RenameStale
  <2>4. CASE CheckFrozen(p)
    <3>1. gen[p] # gen[q] /\ gen[p] \in Dirs
      BY <2>4 DEF Retired, RetiringPcs, CheckFrozen
    <3> QED BY <2>4, <3>1 DEF CheckFrozen, Forget
  <2> QED BY <1>4, <2>1, <2>2, <2>3, <2>4 DEF Reclaim
<1>5. CASE Release(p)
  <2>1. CASE BeginRelease(p) BY <2>1, <1>0 DEF BeginRelease
  <2>2. CASE InspectOwn(p) BY <2>2, <1>0 DEF InspectOwn, ReleaseReturns
  <2>3. CASE RetryRelease(p) BY <2>3, <1>0 DEF RetryRelease, ReleaseReturns
  <2>4. CASE RecheckOwn(p) BY <2>4, <1>0 DEF RecheckOwn, ReleaseReturns, DropOwnTransition
  <2>5. CASE RenameOwned(p) BY <2>5, <1>0 DEF RenameOwned
  <2>6. CASE RemoveRetired(p)
    <3>1. gen[p] # gen[q] /\ gen[p] \in Dirs
      BY <2>6 DEF Retired, RetiringPcs, RemoveRetired
    <3> QED BY <2>6, <3>1 DEF RemoveRetired, Forget
  <2> QED BY <1>5, <2>1, <2>2, <2>3, <2>4, <2>5, <2>6 DEF Release
<1>6. CASE Crash(p)
  <2>1. CASE pc[p] \in RetiringPcs
    <3>1. gen[p] # gen[q] /\ gen[p] \in Dirs
      BY <2>1 DEF Retired
    <3> QED BY <1>6, <1>0, <2>1, <3>1 DEF Crash, Forget, RetiringPcs
  <2>2. CASE pc[p] \notin RetiringPcs
    BY <1>6, <2>2 DEF Crash, RetiringPcs
  <2> QED BY <2>1, <2>2
<1> QED BY <1>1, <1>2, <1>3, <1>4, <1>5, <1>6 DEF Step

(* After the second look at the owner nobody is engaged in the directory.  *)
LEMMA RecheckedStep ==
  ASSUME TypeInv, TypeInv', JobOfPlace, JobOfPlace', Pinned, Retired, EngagedAtPath,
         Judged, Rechecked, NEW p \in Procs, Step(p) \/ Crash(p)
  PROVE  Rechecked'
<1> USE DEF ClaimedPcs
<1>1. ASSUME NEW r \in Procs, pc'[r] \in {"recheckProvisional", "renameStale"}, r # p
      PROVE  /\ pc'[r] = "recheckProvisional" => owner'[path'] = NoRec
             /\ pc'[r] = "renameStale" => OwnerOf(path)' = fp'[r]
             /\ \A q \in Procs : ~Engaged(q)'
  <2>1. pc'[r] = pc[r] /\ fp'[r] = fp[r]
    BY <1>1, OthersStand
  <2>2. path # NoDir /\ path' = path
    BY <1>1, <2>1, ClaimKeepsPath
  <2>3. \A q \in Procs : ~Engaged(q)
    BY <1>1, <2>1 DEF Rechecked
  <2>4. owner'[path] = owner[path] /\ tmps'[path] = tmps[path]
    BY <2>2, <2>3, FilesKept DEF Engaged
  <2>5. OwnerOf(path)' = OwnerOf(path)
    BY <2>2, <2>4 DEF OwnerOf, Provisional
  <2>6. ASSUME NEW q \in Procs PROVE ~Engaged(q)'
    <3>1. CASE q = p
      BY <2>2, <2>3, <3>1, EngagedEntry DEF MakeDirectory
    <3>2. CASE q # p
      BY <2>3, <3>2, OthersStand DEF Engaged
    <3> QED BY <3>1, <3>2
  <2> QED BY <1>1, <2>1, <2>2, <2>4, <2>5, <2>6 DEF Rechecked
<1>2. ASSUME pc'[p] \in {"recheckProvisional", "renameStale"}
      PROVE  /\ pc'[p] = "recheckProvisional" => owner'[path'] = NoRec
             /\ pc'[p] = "renameStale" => OwnerOf(path)' = fp'[p]
             /\ \A q \in Procs : ~Engaged(q)'
  <2>1. RecheckOwner(p) \/ RecheckProvisional(p)
    BY <1>2, PlaceEntry
  <2>2. /\ OwnsTransition(p) /\ job[p] = "reclaim" /\ pc[p] \in ClaimedPcs
        /\ UNCHANGED <<path, owner, tmps, job, gen, fp>>
    BY <1>2, <2>1 DEF RecheckOwner, RecheckProvisional, Goto, JobOfPlace, ReclaimPcs,
       TypeInv, TypeOK
  <2>3. OwnerOf(path)' = OwnerOf(path)
    BY <2>2 DEF OwnerOf, Provisional
  <2>4. CASE RecheckOwner(p)
    <3>1. /\ owner[path] \in {NoRec, fp[p]}
          /\ pc'[p] = IF owner[path] = NoRec THEN "recheckProvisional" ELSE "renameStale"
      BY <1>2, <2>4 DEF RecheckOwner, Goto, TypeInv, TypeOK
    <3>2. ASSUME NEW q \in Procs, Engaged(q) PROVE FALSE
      <4>1. AtPath(q) /\ gen[q] = gen[p]
        BY <2>2, <3>2 DEF EngagedAtPath, AtPath, OwnsTransition
      <4>2. owner[path] = MyRec(q) /\ gen[q] \in Dirs
        BY <2>2, <4>1 DEF AtPath, Judged, TypeInv, GenKnown
      <4>3. fp[p] = MyRec(q) /\ MyRec(q) # NoRec
        BY <3>1, <4>2, RecordTypes, StateLockAssumption
      <4>4. Dead(q)
        BY <2>2, <4>1, <4>3 DEF Judged, Claims, MyRec
      <4> QED BY <3>2, <4>4 DEF Dead, Alive, Engaged, ClaimPcs
    <3> QED BY <2>2, <2>3, <3>1, <3>2, <2>4 DEF OwnerOf, Engaged, RecheckOwner, Goto, TypeInv, TypeOK
  <2>5. CASE RecheckProvisional(p)
    <3>1. /\ pc[p] = "recheckProvisional" /\ pc'[p] = "renameStale"
          /\ Provisional(path) = fp[p]
      BY <1>2, <2>5 DEF RecheckProvisional, Goto, TypeInv, TypeOK
    <3>2. owner[path] = NoRec /\ \A q \in Procs : ~Engaged(q)
      BY <3>1 DEF Rechecked
    <3>3. ASSUME NEW q \in Procs PROVE ~Engaged(q)'
      <4>1. CASE q = p  BY <2>2, <3>1, <4>1 DEF Engaged, ClaimPcs
      <4>2. CASE q # p  BY <3>2, <4>2, OthersStand DEF Engaged
      <4> QED BY <4>1, <4>2
    <3> QED BY <2>2, <2>3, <3>1, <3>2, <3>3 DEF OwnerOf
  <2> QED BY <2>1, <2>4, <2>5
<1> QED BY <1>1, <1>2 DEF Rechecked

(* What is renamed away is what was decided about.                         *)
LEMMA NoLostStep ==
  ASSUME TypeInv, TypeInv', JobOfPlace, Pinned, Retired, EngagedAtPath, Rechecked,
         NoLostGeneration, NEW p \in Procs, Step(p) \/ Crash(p)
  PROVE  NoLostGeneration'
<1>1. ASSUME NEW r \in Procs, pc'[r] \in RetiringPcs, r # p
      PROVE  /\ pc'[r] = "frozen" => OwnerOf(gen[r])' = fp'[r]
             /\ pc'[r] = "remove" => SameOwner(r, gen[r])'
  <2>1. pc'[r] = pc[r] /\ gen'[r] = gen[r] /\ fp'[r] = fp[r] /\ job'[r] = job[r]
    BY <1>1, OthersStand
  <2>2. owner'[gen[r]] = owner[gen[r]] /\ tmps'[gen[r]] = tmps[gen[r]]
    BY <1>1, <2>1, RetiredKept
  <2>3. OwnerOf(gen[r])' = OwnerOf(gen[r])
    BY <2>1, <2>2 DEF OwnerOf, Provisional
  <2>4. SameOwner(r, gen[r])' = SameOwner(r, gen[r])
    BY <2>1, <2>2, <2>3 DEF SameOwner, Claims
  <2> QED BY <1>1, <2>1, <2>3, <2>4 DEF NoLostGeneration
<1>2. ASSUME pc'[p] = "frozen" PROVE OwnerOf(gen[p])' = fp'[p]
  <2>1. RenameStale(p)
    BY <1>2, PlaceEntry
  <2>2. path = gen[p] /\ OwnerOf(path) = fp[p]
    BY <2>1 DEF RenameStale, Pinned, ClaimPinsPath, OwnsTransition, Rechecked
  <2> QED BY <2>1, <2>2 DEF RenameStale, OwnerOf, Provisional
<1>3. ASSUME pc'[p] = "remove" PROVE SameOwner(p, gen[p])'
  <2>1. RenameOwned(p)
    BY <1>3, PlaceEntry
  <2>2. Engaged(p) /\ ~Constructing(p)
    BY <2>1 DEF RenameOwned, Engaged, Constructing, JobOfPlace, ReleasePcs
  <2>3. path = gen[p] /\ owner[path] = MyRec(p) /\ gen[p] \in Dirs
    BY <2>1, <2>2 DEF EngagedAtPath, AtPath, RenameOwned, TypeInv, GenKnown
  <2>4. owner'[gen'[p]] = MyRec(p) /\ gen'[p] = gen[p]
    BY <2>1, <2>3 DEF RenameOwned
  <2>5. MyRec(p) # NoRec /\ MyRec(p).dir = gen[p] /\ MyRec(p).proc = p
    BY <2>3, RecordTypes, StateLockAssumption DEF MyRec
  <2> QED BY <2>4, <2>5 DEF SameOwner, Claims
<1> QED BY <1>1, <1>2, <1>3 DEF NoLostGeneration, RetiringPcs

-----------------------------------------------------------------------------
(* The path is free and nobody is engaged.                                 *)
LEMMA LockInit == Init => LockInv
BY PathInit
   DEF Init, LockInv, EngagedAtPath, OneEngaged, Engaged, Snapshot, Constructing,
       Judged, Rechecked, NoLostGeneration, ClaimPcs, ClaimedPcs

(* LockInv is inductive when no process stalls and no inode is reused.     *)
LEMMA LockStep ==
  ASSUME ~MayStall, ~ReusesInodes, LockInv, [Next]_vars
  PROVE  LockInv'
<1>1. PathInv'
  BY PathStep DEF LockInv
<1>2. /\ TypeInv /\ TypeInv' /\ JobOfPlace /\ JobOfPlace' /\ Pinned /\ Retired
      /\ EngagedAtPath /\ OneEngaged /\ Snapshot /\ Judged /\ Rechecked
      /\ NoLostGeneration
  BY <1>1 DEF LockInv, PathInv, TypeInv
<1>3. CASE UNCHANGED vars
  <2>1. /\ UNCHANGED <<path, owner, tmps, trans, pc, job, gen, fp>>
    BY <1>3 DEF vars, disk, local
  <2>2. EngagedAtPath' /\ OneEngaged'
    BY <1>2, <2>1 DEF EngagedAtPath, AtPath, OneEngaged, Engaged, Constructing, MyRec
  <2>3. Snapshot' /\ Judged'
    BY <1>2, <2>1 DEF Snapshot, Judged, Constructing, Claims, Dead, Alive
  <2>4. Rechecked' /\ NoLostGeneration'
    BY <1>2, <2>1 DEF Rechecked, NoLostGeneration, Engaged, OwnerOf, Provisional,
       SameOwner, Claims
  <2> QED BY <1>1, <2>2, <2>3, <2>4 DEF LockInv
<1>4. CASE Next
  <2>1. PICK p \in Procs : Step(p) \/ Crash(p)
    BY <1>4 DEF Next
  <2>2. EngagedAtPath' /\ OneEngaged'
    BY <1>2, <2>1, EngagedStep
  <2>3. Snapshot'
    BY <1>2, <2>1, SnapshotStep
  <2>4. Judged'
    BY <1>2, <2>1, JudgedStep
  <2>5. Rechecked'
    BY <1>2, <2>1, RecheckedStep
  <2>6. NoLostGeneration'
    BY <1>2, <2>1, NoLostStep
  <2> QED BY <1>1, <2>2, <2>3, <2>4, <2>5, <2>6 DEF LockInv
<1> QED BY <1>3, <1>4

(* LockInv holds in every behaviour when no process stalls and no inode    *)
(* is reused.                                                              *)
LEMMA LockAlways ==
  ASSUME ~MayStall, ~ReusesInodes
  PROVE  Spec => []LockInv
<1>1. LockInv /\ [Next]_vars => LockInv'
  BY LockStep
<1> QED BY <1>1, LockInit, PTL DEF Spec

(* On a file system that does not reuse the inodes of remembered           *)
(* directories, and as long as constructors publish their owner within the *)
(* grace, withLock excludes: at most one process holds the lock, however   *)
(* many compete for it and die.                                            *)
THEOREM Exclusion ==
  ASSUME ~MayStall, ~ReusesInodes
  PROVE  Spec => []MutualExclusion
<1>1. LockInv => MutualExclusion
  BY DEF LockInv, OneEngaged, Engaged, MutualExclusion, Held
<1> QED BY <1>1, LockAlways, PTL

(* Under the same assumptions the holder's directory is the one at the     *)
(* path, and names it.                                                     *)
THEOREM HolderAtPath ==
  ASSUME ~MayStall, ~ReusesInodes
  PROVE  Spec => []HolderIsAtPath
<1>1. LockInv => HolderIsAtPath
  BY DEF LockInv, EngagedAtPath, AtPath, Engaged, Constructing, HolderIsAtPath, Held
<1> QED BY <1>1, LockAlways, PTL

(* Under the same assumptions no generation is lost: the errors "Lost      *)
(* stale" and "Lost owned state-lock generation" are never thrown.         *)
THEOREM NothingLost ==
  ASSUME ~MayStall, ~ReusesInodes
  PROVE  Spec => []NoLostGeneration
<1>1. LockInv => NoLostGeneration
  BY DEF LockInv
<1> QED BY <1>1, LockAlways, PTL

-----------------------------------------------------------------------------
(* What follows holds for every clock and every file system.               *)

(* The step that leads to the end of a construction or of a release.       *)
LEMMA HolderEntry ==
  ASSUME TypeInv, NEW p \in Procs, Step(p) \/ Crash(p)
  PROVE  /\ pc'[p] = "verifyOwner" => VerifyIdentity(p)
         /\ pc'[p] = "verifyTransition" => VerifyOwner(p)
         /\ pc'[p] = "held" => VerifyNoTransition(p)
         /\ pc'[p] = "renameOwned" => RecheckOwn(p)
<1> USE DEF TypeInv, TypeOK, Goto, Return, disk, local, vars
<1>1. CASE Acquire(p)
  <2>1. CASE BeginAcquire(p) BY <2>1 DEF BeginAcquire
  <2>2. CASE MakeDirectory(p) BY <2>2 DEF MakeDirectory
  <2>3. CASE DirectoryExists(p) BY <2>3 DEF DirectoryExists
  <2>4. CASE ReadIdentity(p) BY <2>4 DEF ReadIdentity
  <2>5. CASE WriteProvisional(p) BY <2>5 DEF WriteProvisional, Abort
  <2>6. CASE LinkOwner(p) BY <2>6 DEF LinkOwner, Abort
  <2>7. CASE VerifyIdentity(p) BY <2>7 DEF VerifyIdentity, Abort
  <2>8. CASE VerifyOwner(p) BY <2>8 DEF VerifyOwner, Abort
  <2>9. CASE VerifyNoTransition(p) BY <2>9 DEF VerifyNoTransition, Abort
  <2> QED BY <1>1, <2>1, <2>2, <2>3, <2>4, <2>5, <2>6, <2>7, <2>8, <2>9 DEF Acquire
<1>2. CASE Inspect(p)
  <2>1. CASE InspectIdentity(p) BY <2>1 DEF InspectIdentity
  <2>2. CASE InspectOwner(p) BY <2>2 DEF InspectOwner
  <2>3. CASE InspectProvisional(p) BY <2>3 DEF InspectProvisional
  <2>4. CASE JudgeStale(p) BY <2>4 DEF JudgeStale
  <2>5. CASE JudgeCurrent(p) BY <2>5 DEF JudgeCurrent
  <2>6. CASE WaitOrGiveUp(p) BY <2>6 DEF WaitOrGiveUp
  <2> QED BY <1>2, <2>1, <2>2, <2>3, <2>4, <2>5, <2>6 DEF Inspect
<1>3. CASE Claim(p)
  <2>1. CASE ClaimIdentity(p) BY <2>1 DEF ClaimIdentity, ClaimFails
  <2>2. CASE LinkTransition(p) BY <2>2 DEF LinkTransition, ClaimFails
  <2>3. CASE PinWitness(p) BY <2>3 DEF PinWitness, ClaimFails
  <2>4. CASE ClearTransition(p) BY <2>4 DEF ClearTransition
  <2>5. CASE DropWitness(p) BY <2>5 DEF DropWitness, ClaimFails
  <2>6. CASE ConfirmClaim(p) BY <2>6 DEF ConfirmClaim, ClaimFails, DropOwnTransition
  <2> QED BY <1>3, <2>1, <2>2, <2>3, <2>4, <2>5, <2>6 DEF Claim
<1>4. CASE Reclaim(p)
  <2>1. CASE RecheckOwner(p) BY <2>1 DEF RecheckOwner, DropOwnTransition
  <2>2. CASE RecheckProvisional(p) BY <2>2 DEF RecheckProvisional, DropOwnTransition
  <2>3. CASE RenameStale(p) BY <2>3 DEF RenameStale
  <2>4. CASE CheckFrozen(p) BY <2>4 DEF CheckFrozen, Forget
  <2> QED BY <1>4, <2>1, <2>2, <2>3, <2>4 DEF Reclaim
<1>5. CASE Release(p)
  <2>1. CASE BeginRelease(p) BY <2>1 DEF BeginRelease
  <2>2. CASE InspectOwn(p) BY <2>2 DEF InspectOwn, ReleaseReturns
  <2>3. CASE RetryRelease(p) BY <2>3 DEF RetryRelease, ReleaseReturns
  <2>4. CASE RecheckOwn(p) BY <2>4 DEF RecheckOwn, ReleaseReturns, DropOwnTransition
  <2>5. CASE RenameOwned(p) BY <2>5 DEF RenameOwned
  <2>6. CASE RemoveRetired(p) BY <2>6 DEF RemoveRetired, ReleaseReturns, Forget
  <2> QED BY <1>5, <2>1, <2>2, <2>3, <2>4, <2>5, <2>6 DEF Release
<1>6. CASE Crash(p) BY <1>6 DEF Crash, Forget
<1> QED BY <1>1, <1>2, <1>3, <1>4, <1>5, <1>6 DEF Step

(* In the directory at the path an owner is written where there was none.  *)
LEMMA OwnerKept ==
  ASSUME TypeInv, Retired, NEW p \in Procs, Step(p) \/ Crash(p),
         path' = path, path # NoDir
  PROVE  \/ owner'[path] = owner[path]
         \/ owner[path] = NoRec /\ owner'[path] = MyRec(p) /\ pc'[p] = "verify"
<1> USE StateLockAssumption DEF TypeInv, TypeOK, Goto, disk, local, vars
<1>1. CASE Acquire(p)
  <2>1. CASE BeginAcquire(p) BY <2>1 DEF BeginAcquire
  <2>2. CASE MakeDirectory(p) BY <2>2 DEF MakeDirectory
  <2>3. CASE DirectoryExists(p) BY <2>3 DEF DirectoryExists
  <2>4. CASE ReadIdentity(p) BY <2>4 DEF ReadIdentity
  <2>5. CASE WriteProvisional(p) BY <2>5 DEF WriteProvisional, Abort
  <2>6. CASE LinkOwner(p) BY <2>6 DEF LinkOwner, Abort
  <2>7. CASE VerifyIdentity(p) BY <2>7 DEF VerifyIdentity, Abort
  <2>8. CASE VerifyOwner(p) BY <2>8 DEF VerifyOwner, Abort
  <2>9. CASE VerifyNoTransition(p) BY <2>9 DEF VerifyNoTransition, Abort
  <2> QED BY <1>1, <2>1, <2>2, <2>3, <2>4, <2>5, <2>6, <2>7, <2>8, <2>9 DEF Acquire
<1>2. CASE Inspect(p)
  <2>1. CASE InspectIdentity(p) BY <2>1 DEF InspectIdentity
  <2>2. CASE InspectOwner(p) BY <2>2 DEF InspectOwner
  <2>3. CASE InspectProvisional(p) BY <2>3 DEF InspectProvisional
  <2>4. CASE JudgeStale(p) BY <2>4 DEF JudgeStale
  <2>5. CASE JudgeCurrent(p) BY <2>5 DEF JudgeCurrent
  <2>6. CASE WaitOrGiveUp(p) BY <2>6 DEF WaitOrGiveUp
  <2> QED BY <1>2, <2>1, <2>2, <2>3, <2>4, <2>5, <2>6 DEF Inspect
<1>3. CASE Claim(p)
  <2>1. CASE ClaimIdentity(p) BY <2>1 DEF ClaimIdentity, ClaimFails
  <2>2. CASE LinkTransition(p) BY <2>2 DEF LinkTransition, ClaimFails
  <2>3. CASE PinWitness(p) BY <2>3 DEF PinWitness, ClaimFails
  <2>4. CASE ClearTransition(p) BY <2>4 DEF ClearTransition
  <2>5. CASE DropWitness(p) BY <2>5 DEF DropWitness, ClaimFails
  <2>6. CASE ConfirmClaim(p) BY <2>6 DEF ConfirmClaim, ClaimFails, DropOwnTransition
  <2> QED BY <1>3, <2>1, <2>2, <2>3, <2>4, <2>5, <2>6 DEF Claim
<1>4. CASE Reclaim(p)
  <2>1. CASE RecheckOwner(p) BY <2>1 DEF RecheckOwner, DropOwnTransition
  <2>2. CASE RecheckProvisional(p) BY <2>2 DEF RecheckProvisional, DropOwnTransition
  <2>3. CASE RenameStale(p) BY <2>3 DEF RenameStale
  <2>4. CASE CheckFrozen(p)
    <3>1. gen[p] # path /\ gen[p] \in Dirs
      BY <2>4 DEF Retired, RetiringPcs, CheckFrozen
    <3> QED BY <2>4, <3>1 DEF CheckFrozen, Forget
  <2> QED BY <1>4, <2>1, <2>2, <2>3, <2>4 DEF Reclaim
<1>5. CASE Release(p)
  <2>1. CASE BeginRelease(p) BY <2>1 DEF BeginRelease
  <2>2. CASE InspectOwn(p) BY <2>2 DEF InspectOwn, ReleaseReturns
  <2>3. CASE RetryRelease(p) BY <2>3 DEF RetryRelease, ReleaseReturns
  <2>4. CASE RecheckOwn(p) BY <2>4 DEF RecheckOwn, ReleaseReturns, DropOwnTransition
  <2>5. CASE RenameOwned(p) BY <2>5 DEF RenameOwned
  <2>6. CASE RemoveRetired(p)
    <3>1. gen[p] # path /\ gen[p] \in Dirs
      BY <2>6 DEF Retired, RetiringPcs, RemoveRetired
    <3> QED BY <2>6, <3>1 DEF RemoveRetired, Forget
  <2> QED BY <1>5, <2>1, <2>2, <2>3, <2>4, <2>5, <2>6 DEF Release
<1>6. CASE Crash(p)
  <2>1. CASE pc[p] \in RetiringPcs
    <3>1. gen[p] # path /\ gen[p] \in Dirs
      BY <2>1 DEF Retired
    <3> QED BY <1>6, <2>1, <3>1 DEF Crash, Forget, RetiringPcs
  <2>2. CASE pc[p] \notin RetiringPcs
    BY <1>6, <2>2 DEF Crash, RetiringPcs
  <2> QED BY <2>1, <2>2
<1> QED BY <1>1, <1>2, <1>3, <1>4, <1>5, <1>6 DEF Step

(* Only RemoveRetired removes.                                             *)
LEMMA Removes ==
  ASSUME NEW p \in Procs, Step(p), pc[p] = "remove"
  PROVE  RemoveRetired(p)
BY DEF Step, Acquire, Inspect, Claim, Reclaim, Release,
     BeginAcquire, MakeDirectory, DirectoryExists, ReadIdentity, WriteProvisional,
     LinkOwner, VerifyIdentity, VerifyOwner, VerifyNoTransition, InspectIdentity,
     InspectOwner, InspectProvisional, JudgeStale, JudgeCurrent, WaitOrGiveUp,
     ClaimIdentity, LinkTransition, PinWitness, ClearTransition, DropWitness,
     ConfirmClaim, RecheckOwner, RecheckProvisional, RenameStale, CheckFrozen,
     BeginRelease, InspectOwn, RetryRelease, RecheckOwn, RenameOwned, RemoveRetired

(* A record under a known generation names its process and that generation. *)
LEMMA OwnRecord ==
  ASSUME TypeInv, NEW q \in Procs, gen[q] \in Dirs
  PROVE  /\ MyRec(q) # NoRec /\ Claims(MyRec(q), gen[q])
         /\ MyRec(q).proc = q
BY RecordTypes, StateLockAssumption DEF MyRec, Claims

(* A generation that somebody works under never comes back to the path.    *)
LEMMA NotMadeAgain ==
  ASSUME TypeInv, Named, NEW p \in Procs, Step(p) \/ Crash(p),
         NEW q \in Procs, Owning(q), path' = gen[q]
  PROVE  path' = path
<1> USE StateLockAssumption
<1>1. gen[q] \in Dirs /\ gen[q] \notin gone
  BY DEF Owning, OwningPcs, Named, TypeInv, GenKnown
<1>2. ASSUME MakeDirectory(p) PROVE FALSE
  BY <1>1, <1>2 DEF MakeDirectory, Fresh, Remembered
<1> QED BY <1>1, <1>2, PathMoves

(* A process looks for its name in its own generation, or it is elsewhere. *)
LEMMA LooksStep ==
  ASSUME TypeInv, TypeInv', Retired, LooksAtOwn, NEW p \in Procs, Step(p) \/ Crash(p)
  PROVE  LooksAtOwn'
<1> USE StateLockAssumption
<1> SUFFICES ASSUME NEW q \in Procs, pc'[q] = "verifyOwner", path' # NoDir,
                    owner'[path'] = MyRec(q)'
             PROVE  path' = gen'[q]
  BY DEF LooksAtOwn
<1>1. CASE q = p
  BY <1>1, HolderEntry DEF VerifyIdentity, disk, Abort, Goto, TypeInv, TypeOK
<1>2. CASE q # p
  <2>1. pc[q] = "verifyOwner" /\ gen'[q] = gen[q] /\ MyRec(q)' = MyRec(q)
    BY <1>2, OthersStand DEF MyRec
  <2>2. gen[q] \in Dirs
    BY <2>1 DEF TypeInv, GenKnown
  <2>3. ASSUME MakeDirectory(p) PROVE FALSE
    <3>1. owner'[path'] = NoRec
      BY <2>3 DEF MakeDirectory, TypeInv, TypeOK
    <3> QED BY <2>1, <2>2, <3>1, OwnRecord
  <2>4. path' = path
    BY <2>3, PathMoves
  <2>5. MyRec(q) # MyRec(p)
    BY <1>2 DEF MyRec
  <2> QED BY <2>1, <2>4, <2>5, OwnerKept DEF LooksAtOwn
<1> QED BY <1>1, <1>2

(* The name under which a process works stays in its generation.           *)
LEMMA NamedStep ==
  ASSUME TypeInv, TypeInv', Pinned, Retired, LooksAtOwn, Named,
         NEW p \in Procs, Step(p) \/ Crash(p)
  PROVE  Named'
<1> USE StateLockAssumption
<1>1. ASSUME NEW r \in Procs, Owning(r)', r # p
      PROVE  /\ gen'[r] \notin gone'
             /\ path' = gen'[r] => owner'[gen'[r]] = MyRec(r)'
             /\ \A q \in Procs : pc'[q] \in RetiringPcs /\ gen'[q] = gen'[r]
                                  => owner'[gen'[r]] = MyRec(r)'
  <2>1. pc'[r] = pc[r] /\ gen'[r] = gen[r] /\ MyRec(r)' = MyRec(r)
    BY <1>1, OthersStand DEF MyRec
  <2>2. Owning(r) /\ gen[r] \in Dirs /\ gen[r] \notin gone
    BY <1>1, <2>1 DEF Owning, OwningPcs, Named, TypeInv, GenKnown
  <2>3. MyRec(r) # NoRec /\ MyRec(r).proc = r
    BY <2>2, OwnRecord
  <2>4. gen[r] \notin gone'
    <3> SUFFICES ASSUME gen[r] \in gone' PROVE FALSE
      OBVIOUS
    <3>1. pc[p] = "remove" /\ gen[r] = gen[p]
      BY <2>2, GoneGrows
    <3>2. owner[gen[r]] = MyRec(r)
      BY <2>2, <3>1 DEF Named, RetiringPcs
    <3>3. ~SameOwner(p, gen[p])
      BY <1>1, <2>3, <3>1, <3>2 DEF SameOwner, OwnerOf
    <3>4. CASE Step(p)
      BY <2>2, <3>1, <3>3, <3>4, Removes DEF RemoveRetired
    <3>5. CASE Crash(p)
      BY <2>2, <3>5 DEF Crash
    <3> QED BY <3>4, <3>5
  <2>5. path' = gen[r] => owner'[gen[r]] = MyRec(r)
    <3> SUFFICES ASSUME path' = gen[r] PROVE owner'[gen[r]] = MyRec(r)
      OBVIOUS
    <3>1. path' = path
      BY <2>2, NotMadeAgain
    <3>2. owner[path] = MyRec(r) /\ path # NoDir
      BY <2>2, <3>1 DEF Named
    <3> QED BY <2>3, <3>1, <3>2, OwnerKept
  <2>6. ASSUME NEW q \in Procs, pc'[q] \in RetiringPcs, gen'[q] = gen[r]
        PROVE  owner'[gen[r]] = MyRec(r)
    <3>1. CASE q = p
      <4>1. RenameStale(p) \/ RenameOwned(p)
        BY <2>6, <3>1, PlaceEntry DEF RetiringPcs
      <4>2. gen'[p] = gen[p] /\ path = gen[p] /\ owner' = owner
        BY <4>1 DEF RenameStale, RenameOwned, Pinned, ClaimPinsPath, OwnsTransition
      <4> QED BY <2>2, <2>6, <3>1, <4>2 DEF Named
    <3>2. CASE q # p
      <4>1. pc[q] \in RetiringPcs /\ gen[q] = gen[r]
        BY <2>6, <3>2, OthersStand
      <4>2. owner'[gen[q]] = owner[gen[q]]
        BY <3>2, <4>1, RetiredKept
      <4> QED BY <2>2, <4>1, <4>2 DEF Named
    <3> QED BY <3>1, <3>2
  <2> QED BY <2>1, <2>4, <2>5, <2>6
<1>2. ASSUME Owning(p)'
      PROVE  /\ gen'[p] \notin gone'
             /\ path' = gen'[p] => owner'[gen'[p]] = MyRec(p)'
             /\ \A q \in Procs : pc'[q] \in RetiringPcs /\ gen'[q] = gen'[p]
                                  => owner'[gen'[p]] = MyRec(p)'
  <2>0. pc'[p] \in {"verifyTransition", "held"}
    BY <1>2 DEF Owning, OwningPcs
  <2>1. \/ VerifyOwner(p) /\ pc'[p] = "verifyTransition"
        \/ VerifyNoTransition(p) /\ pc'[p] = "held"
    BY <2>0, HolderEntry
  <2>2. UNCHANGED disk /\ gen' = gen /\ MyRec(p)' = MyRec(p)
    BY <2>1 DEF VerifyOwner, VerifyNoTransition, Abort, MyRec
  <2>3. \A q \in Procs : pc'[q] \in RetiringPcs => q # p /\ pc[q] \in RetiringPcs
    BY <2>1, OthersStand DEF RetiringPcs
  <2>4. CASE VerifyOwner(p) /\ pc'[p] = "verifyTransition"
    <3>1. path = gen[p] /\ owner[path] = MyRec(p)
      BY <2>4 DEF VerifyOwner, Abort, Goto, LooksAtOwn, TypeInv, TypeOK
    <3> QED BY <2>2, <2>3, <3>1 DEF Retired, disk
  <2>5. CASE VerifyNoTransition(p) /\ pc'[p] = "held"
    <3>1. Owning(p)
      BY <2>5 DEF VerifyNoTransition, Owning, OwningPcs
    <3> QED BY <2>2, <2>3, <3>1 DEF Named, disk
  <2> QED BY <2>1, <2>4, <2>5
<1> QED BY <1>1, <1>2 DEF Named

(* One name per generation.                                                *)
LEMMA OneOwningStep ==
  ASSUME TypeInv, LooksAtOwn, Named, OneOwning, NEW p \in Procs, Step(p) \/ Crash(p)
  PROVE  OneOwning'
<1>1. ASSUME NEW q \in Procs, q # p, Owning(p)', Owning(q)', gen'[p] = gen'[q]
      PROVE  FALSE
  <2>1. Owning(q) /\ gen'[q] = gen[q]
    BY <1>1, OthersStand DEF Owning
  <2>0. pc'[p] \in {"verifyTransition", "held"}
    BY <1>1 DEF Owning, OwningPcs
  <2>2. \/ VerifyOwner(p) /\ pc'[p] = "verifyTransition"
        \/ VerifyNoTransition(p) /\ pc'[p] = "held"
    BY <2>0, HolderEntry
  <2>3. gen'[p] = gen[p]
    BY <2>2 DEF VerifyOwner, VerifyNoTransition, Abort
  <2>4. CASE VerifyOwner(p) /\ pc'[p] = "verifyTransition"
    <3>1. path = gen[p] /\ owner[path] = MyRec(p)
      BY <2>4 DEF VerifyOwner, Abort, Goto, LooksAtOwn, TypeInv, TypeOK
    <3>2. owner[path] = MyRec(q)
      BY <1>1, <2>1, <2>3, <3>1 DEF Named
    <3> QED BY <1>1, <3>1, <3>2 DEF MyRec
  <2>5. CASE VerifyNoTransition(p) /\ pc'[p] = "held"
    BY <1>1, <2>1, <2>3, <2>5 DEF VerifyNoTransition, OneOwning, Owning, OwningPcs
  <2> QED BY <2>2, <2>4, <2>5
<1>2. ASSUME NEW q \in Procs, NEW r \in Procs, q # p, r # p,
             Owning(q)', Owning(r)', gen'[q] = gen'[r]
      PROVE  q = r
  BY <1>2, OthersStand DEF OneOwning, Owning
<1> QED BY <1>1, <1>2 DEF OneOwning

(* What a reclaimer found dead stays dead.                                 *)
LEMMA JudgedDeadStep ==
  ASSUME TypeInv, TypeInv', JobOfPlace, JudgedDead, NEW p \in Procs, Step(p) \/ Crash(p)
  PROVE  JudgedDead'
<1> SUFFICES ASSUME NEW r \in Procs, job'[r] = "reclaim",
                    pc'[r] \in ClaimPcs \cup ClaimedPcs, Claims(fp'[r], gen'[r])
             PROVE  Dead(fp[r].proc)'
  BY DEF JudgedDead, Claims, Dead, Alive
<1>1. Claims(fp[r], gen[r]) /\ fp'[r] = fp[r] /\ Dead(fp[r].proc)
  <2>1. CASE r = p
    <3>1. CASE JudgeStale(p)
      BY <2>1, <3>1 DEF JudgeStale, Reclaimable, Claims
    <3>2. CASE ~JudgeStale(p)
      BY <2>1, <3>2, ReclaimEntry DEF JudgedDead, Claims
    <3> QED BY <3>1, <3>2
  <2>2. CASE r # p
    BY <2>2, OthersStand DEF JudgedDead, Claims
  <2> QED BY <2>1, <2>2
<1>2. fp[r].proc \in Procs
  BY <1>1, RecordTypes DEF Claims, TypeInv, TypeOK
<1> QED BY <1>1, <1>2, DeadStays DEF Dead, Alive

(* Whoever looks twice at a directory that is held leaves it.              *)
LEMMA HeldIsLeftStep ==
  ASSUME TypeInv, TypeInv', JobOfPlace, Pinned, Retired, Named, JudgedDead, HeldIsLeft,
         NEW p \in Procs, Step(p) \/ Crash(p)
  PROVE  HeldIsLeft'
<1> USE StateLockAssumption
<1> DEFINE Last == {"recheckProvisional", "renameStale", "renameOwned"}
<1> SUFFICES ASSUME NEW h \in Procs, NEW r \in Procs, pc'[h] = "held", path' = gen'[h],
                    pc'[r] \in Last
             PROVE  FALSE
  BY DEF HeldIsLeft, Held
<1>1. r # h
  OBVIOUS
<1>2. CASE h = p
  <2>1. VerifyNoTransition(p) /\ gen[p] \in Dirs
    BY <1>2, HolderEntry DEF VerifyNoTransition, TypeInv, GenKnown
  <2>2. path = gen[p] /\ path # NoDir
    BY <1>2, <2>1 DEF VerifyNoTransition, disk, Abort
  <2>3. trans[path] = NoRec
    BY <1>2, <2>1, <2>2 DEF VerifyNoTransition, Abort, Goto, TypeInv, TypeOK
  <2>4. pc[r] \in Last /\ gen[r] \in Dirs
    BY <1>1, <1>2, OthersStand DEF TypeInv, GenKnown
  <2>5. trans[path] = MyTrans(r)
    BY <2>4 DEF Pinned, ClaimPinsPath, OwnsTransition
  <2> QED BY <2>3, <2>4, <2>5, RecordTypes
<1>3. CASE h # p
  <2>1. pc[h] = "held" /\ gen'[h] = gen[h] /\ Owning(h) /\ gen[h] \in Dirs
    BY <1>3, OthersStand DEF Owning, OwningPcs, TypeInv, GenKnown
  <2>2. path = gen[h] /\ path # NoDir
    BY <2>1, NotMadeAgain
  <2>3. owner[path] = MyRec(h) /\ MyRec(h) # NoRec /\ Claims(MyRec(h), gen[h])
        /\ MyRec(h).proc = h /\ ~Dead(h)
    BY <2>1, <2>2, OwnRecord DEF Named, Dead, Alive
  <2>4. CASE r # p
    BY <2>1, <2>2, <2>4, OthersStand DEF HeldIsLeft, Held
  <2>5. CASE r = p
    <3>1. CASE RecheckOwner(p)
      <4>1. OwnsTransition(p) /\ owner[path] \in {NoRec, fp[p]} /\ job[p] = "reclaim"
            /\ pc[p] \in ClaimedPcs
        BY <2>5, <3>1 DEF RecheckOwner, Goto, JobOfPlace, ReclaimPcs, ClaimedPcs,
           TypeInv, TypeOK
      <4>2. fp[p] = MyRec(h) /\ gen[p] = gen[h]
        BY <2>2, <2>3, <4>1 DEF OwnsTransition
      <4> QED BY <2>3, <4>1, <4>2 DEF JudgedDead
    <3>2. CASE RecheckProvisional(p)
      BY <2>1, <2>2, <3>2 DEF RecheckProvisional, HeldIsLeft, Held
    <3>3. CASE RecheckOwn(p)
      <4>1. pc[p] = "releaseCheck" /\ SameOwner(p, path)
        BY <2>5, <3>3 DEF RecheckOwn, ReleaseReturns, Return, Goto, TypeInv, TypeOK
      <4> QED BY <1>3, <2>3, <4>1 DEF SameOwner, OwnerOf
    <3> QED BY <2>5, <3>1, <3>2, <3>3, PlaceEntry, HolderEntry
  <2> QED BY <2>4, <2>5
<1> QED BY <1>2, <1>3

(* Nobody works and nobody looks.                                          *)
LEMMA HolderInit == Init => HolderInv
BY PathInit
   DEF Init, HolderInv, LooksAtOwn, Named, OneOwning, Owning, OwningPcs, JudgedDead,
       HeldIsLeft, Held, ClaimPcs, ClaimedPcs

(* HolderInv is inductive.                                                 *)
LEMMA HolderStep == HolderInv /\ [Next]_vars => HolderInv'
<1> SUFFICES ASSUME HolderInv, [Next]_vars PROVE HolderInv'
  OBVIOUS
<1>1. PathInv'
  BY PathStep DEF HolderInv
<1>2. /\ TypeInv /\ TypeInv' /\ JobOfPlace /\ Pinned /\ Retired
      /\ LooksAtOwn /\ Named /\ OneOwning /\ JudgedDead /\ HeldIsLeft
  BY <1>1 DEF HolderInv, PathInv, TypeInv
<1>3. CASE UNCHANGED vars
  <2>1. UNCHANGED <<path, owner, gone, pc, job, gen, fp>>
    BY <1>3 DEF vars, disk, local
  <2>2. LooksAtOwn' /\ Named'
    BY <1>2, <2>1 DEF LooksAtOwn, Named, Owning, MyRec
  <2>3. OneOwning' /\ JudgedDead' /\ HeldIsLeft'
    BY <1>2, <2>1 DEF OneOwning, Owning, JudgedDead, Claims, Dead, Alive, HeldIsLeft, Held
  <2> QED BY <1>1, <2>2, <2>3 DEF HolderInv
<1>4. CASE Next
  <2>1. PICK p \in Procs : Step(p) \/ Crash(p)
    BY <1>4 DEF Next
  <2>2. LooksAtOwn'  BY <1>2, <2>1, LooksStep
  <2>3. Named'       BY <1>2, <2>1, NamedStep
  <2>4. OneOwning'   BY <1>2, <2>1, OneOwningStep
  <2>5. JudgedDead'  BY <1>2, <2>1, JudgedDeadStep
  <2>6. HeldIsLeft'  BY <1>2, <2>1, HeldIsLeftStep
  <2> QED BY <1>1, <2>2, <2>3, <2>4, <2>5, <2>6 DEF HolderInv
<1> QED BY <1>3, <1>4

LEMMA HolderAlways == Spec => []HolderInv
BY HolderInit, HolderStep, PTL DEF Spec

(* However long constructors pause and whatever inodes the file system     *)
(* hands out again, a directory never has two holders: its owner.json is   *)
(* linked once, each holder has read its own name there, and a generation  *)
(* that a process works under is not made again.                           *)
THEOREM OneHolder == Spec => []OneHolderPerGeneration
<1>1. HolderInv => OneHolderPerGeneration
  BY DEF HolderInv, OneOwning, Owning, OwningPcs, OneHolderPerGeneration, Held
<1> QED BY <1>1, HolderAlways, PTL

(* Under the same generality, the holder of the directory at the path is   *)
(* not displaced by anybody's rename: reclaimLockGeneration looks again at *)
(* the owner after its claim, and a claim made before the holder looked    *)
(* for a transition would have been seen.                                  *)
THEOREM HolderNotDisplaced == Spec => HolderIsNotDisplaced
<1> DEFINE Stays ==
      \A p \in Procs : Held(p) /\ path # NoDir /\ path = gen[p] => path' = path
<1>1. HolderInv /\ [Next]_vars => [Stays]_vars
  <2> SUFFICES ASSUME HolderInv, Next, NEW h \in Procs,
                      Held(h), path # NoDir, path = gen[h]
               PROVE  path' = path
    OBVIOUS
  <2>1. PICK p \in Procs : Step(p) \/ Crash(p)
    BY DEF Next
  <2>2. TypeInv /\ HeldIsLeft
    BY DEF HolderInv, PathInv, TypeInv
  <2> QED BY <2>1, <2>2, PathMoves DEF HeldIsLeft
<1> QED BY <1>1, HolderAlways, PTL DEF Spec, HolderIsNotDisplaced

-----------------------------------------------------------------------------
(* StateLock implements the safety part of AbstractLock.                   *)

(* The steps that the abstract lock can see, or that disturb what it is    *)
(* read from.                                                              *)
Visible(p) ==
  \/ VerifyNoTransition(p) \/ BeginRelease(p) \/ RenameStale(p) \/ RenameOwned(p)
  \/ MakeDirectory(p) \/ LinkOwner(p)

(* Every other step leaves the path, the owner there and the holder alone. *)
LEMMA QuietStep ==
  ASSUME TypeInv, Retired, NEW p \in Procs, Step(p), ~Visible(p)
  PROVE  /\ path' = path
         /\ path # NoDir => owner'[path] = owner[path]
         /\ pc'[p] \notin {"held", "dead"} /\ pc[p] \notin {"held", "dead"}
<1> USE StateLockAssumption DEF TypeInv, TypeOK, disk, local, vars, Goto, Return, Visible
<1>1. CASE Acquire(p)
  <2>1. CASE BeginAcquire(p) BY <2>1 DEF BeginAcquire
  <2>2. CASE MakeDirectory(p) BY <2>2 DEF MakeDirectory
  <2>3. CASE DirectoryExists(p) BY <2>3 DEF DirectoryExists
  <2>4. CASE ReadIdentity(p) BY <2>4 DEF ReadIdentity
  <2>5. CASE WriteProvisional(p) BY <2>5 DEF WriteProvisional, Abort
  <2>6. CASE LinkOwner(p) BY <2>6 DEF LinkOwner, Abort
  <2>7. CASE VerifyIdentity(p) BY <2>7 DEF VerifyIdentity, Abort
  <2>8. CASE VerifyOwner(p) BY <2>8 DEF VerifyOwner, Abort
  <2>9. CASE VerifyNoTransition(p) BY <2>9 DEF VerifyNoTransition, Abort
  <2> QED BY <1>1, <2>1, <2>2, <2>3, <2>4, <2>5, <2>6, <2>7, <2>8, <2>9 DEF Acquire
<1>2. CASE Inspect(p)
  <2>1. CASE InspectIdentity(p) BY <2>1 DEF InspectIdentity
  <2>2. CASE InspectOwner(p) BY <2>2 DEF InspectOwner
  <2>3. CASE InspectProvisional(p) BY <2>3 DEF InspectProvisional
  <2>4. CASE JudgeStale(p) BY <2>4 DEF JudgeStale
  <2>5. CASE JudgeCurrent(p) BY <2>5 DEF JudgeCurrent
  <2>6. CASE WaitOrGiveUp(p) BY <2>6 DEF WaitOrGiveUp
  <2> QED BY <1>2, <2>1, <2>2, <2>3, <2>4, <2>5, <2>6 DEF Inspect
<1>3. CASE Claim(p)
  <2>1. CASE ClaimIdentity(p) BY <2>1 DEF ClaimIdentity, ClaimFails
  <2>2. CASE LinkTransition(p) BY <2>2 DEF LinkTransition, ClaimFails
  <2>3. CASE PinWitness(p) BY <2>3 DEF PinWitness, ClaimFails
  <2>4. CASE ClearTransition(p) BY <2>4 DEF ClearTransition
  <2>5. CASE DropWitness(p) BY <2>5 DEF DropWitness, ClaimFails
  <2>6. CASE ConfirmClaim(p) BY <2>6 DEF ConfirmClaim, ClaimFails, DropOwnTransition
  <2> QED BY <1>3, <2>1, <2>2, <2>3, <2>4, <2>5, <2>6 DEF Claim
<1>4. CASE Reclaim(p)
  <2>1. CASE RecheckOwner(p) BY <2>1 DEF RecheckOwner, DropOwnTransition
  <2>2. CASE RecheckProvisional(p) BY <2>2 DEF RecheckProvisional, DropOwnTransition
  <2>3. CASE RenameStale(p) BY <2>3 DEF RenameStale
  <2>4. CASE CheckFrozen(p)
    <3>1. gen[p] # path /\ gen[p] \in Dirs
      BY <2>4 DEF Retired, RetiringPcs, CheckFrozen
    <3> QED BY <2>4, <3>1 DEF CheckFrozen, Forget
  <2> QED BY <1>4, <2>1, <2>2, <2>3, <2>4 DEF Reclaim
<1>5. CASE Release(p)
  <2>1. CASE BeginRelease(p) BY <2>1 DEF BeginRelease
  <2>2. CASE InspectOwn(p) BY <2>2 DEF InspectOwn, ReleaseReturns
  <2>3. CASE RetryRelease(p) BY <2>3 DEF RetryRelease, ReleaseReturns
  <2>4. CASE RecheckOwn(p) BY <2>4 DEF RecheckOwn, ReleaseReturns, DropOwnTransition
  <2>5. CASE RenameOwned(p) BY <2>5 DEF RenameOwned
  <2>6. CASE RemoveRetired(p)
    <3>1. gen[p] # path /\ gen[p] \in Dirs
      BY <2>6 DEF Retired, RetiringPcs, RemoveRetired
    <3> QED BY <2>6, <3>1 DEF RemoveRetired, ReleaseReturns, Forget
  <2> QED BY <1>5, <2>1, <2>2, <2>3, <2>4, <2>5, <2>6 DEF Release
<1> QED BY <1>1, <1>2, <1>3, <1>4, <1>5 DEF Step

(* What the abstract lock is told of a state: one process at most has it,  *)
(* and the directory at the path names it.                                 *)
LEMMA HolderNamed ==
  ASSUME LockInv, NEW q \in Procs
  PROVE  /\ Held(q) => path # NoDir /\ owner[path] = MyRec(q) /\ Holders = {q}
         /\ Left(q) => Holders = {q}
<1>1. \A r \in Procs : Held(r) =>
        /\ path # NoDir /\ path = gen[r] /\ owner[path] = MyRec(r) /\ Engaged(r)
  BY DEF LockInv, EngagedAtPath, AtPath, Engaged, Constructing, Held
<1>2. \A r, s \in Procs : Held(r) /\ Held(s) => r = s
  BY <1>1 DEF LockInv, OneEngaged
<1>3. \A r \in Procs : Held(r) => ~Dead(r) /\ owner[path].proc = r
  <2>1. \A r \in Procs : MyRec(r).proc = r
    BY DEF MyRec
  <2>2. \A r \in Procs : Held(r) => ~Dead(r)
    BY DEF Held, Dead, Alive
  <2> QED BY <1>1, <2>1, <2>2
<1>4. \A r \in Procs : Left(r) => Dead(r) /\ owner[path].proc = r
  BY DEF Left
<1> QED BY <1>1, <1>2, <1>3, <1>4 DEF Holders

(* A reclaimer at its rename, like a constructor, has nobody to disturb.   *)
LEMMA NobodyHolds ==
  ASSUME LockInv, NEW p \in Procs, NEW q \in Procs
  PROVE  /\ pc[p] = "renameStale" => ~Held(q)
         /\ pc[p] \in {"renameOwned", "verifyTransition", "link"} => ~Held(q) /\ ~Left(q)
<1>1. Held(q) => Engaged(q)
  BY DEF Held, Engaged
<1>2. pc[p] = "renameStale" => ~Held(q)
  BY <1>1 DEF LockInv, Rechecked
<1>3. ASSUME pc[p] \in {"renameOwned", "verifyTransition", "link"}
      PROVE  ~Held(q) /\ ~Left(q)
  <2>1. Engaged(p)
    BY <1>3 DEF LockInv, PathInv, JobOfPlace, ReleasePcs, Engaged
  <2>2. AtPath(p) /\ (p # q => ~Engaged(q))
    BY <2>1 DEF LockInv, OneEngaged, EngagedAtPath
  <2>3. ~Held(p) /\ ~Dead(p)
    BY <1>3 DEF Held, Dead, Alive
  <2>4. owner[path] # NoRec => owner[path].proc = p
    BY <2>2 DEF AtPath, MyRec
  <2> QED BY <1>1, <2>2, <2>3, <2>4 DEF Left, Claims
<1> QED BY <1>2, <1>3

(* The living stay alive in a step, and the dead take none.                *)
LEMMA StepOfTheLiving ==
  ASSUME TypeInv, Retired, NEW p \in Procs, Step(p)
  PROVE  pc[p] # "dead" /\ pc'[p] # "dead"
<1>1. CASE Visible(p)
  BY <1>1 DEF Visible, VerifyNoTransition, BeginRelease, RenameStale, RenameOwned,
     MakeDirectory, LinkOwner, Abort, Goto, TypeInv, TypeOK
<1> QED BY <1>1, QuietStep

(* Where nothing happens at the path nothing is left there or taken away.  *)
LEMMA LeftKept ==
  ASSUME NEW q \in Procs, path' = path, path # NoDir => owner'[path] = owner[path],
         Dead(q)' <=> Dead(q)
  PROVE  Left(q)' <=> Left(q)
BY DEF Left, Claims

(* A step of the lock is a step of the abstract lock or none.              *)
LEMMA StepMaps ==
  ASSUME LockInv, LockInv', NEW p \in Procs, Step(p)
  PROVE  [Lock!Next]_Lock!vars
<1>1. TypeInv /\ Retired
  BY DEF LockInv, PathInv, TypeInv
<1>2. /\ \A q \in Procs : q # p => pc'[q] = pc[q]
      /\ pc[p] # "dead" /\ pc'[p] # "dead"
  BY <1>1, OthersStand, StepOfTheLiving
<1>3. /\ \A q \in Procs : Dead(q)' <=> Dead(q)
      /\ \A q \in Procs : q # p => (Held(q)' <=> Held(q))
  BY <1>2 DEF Dead, Alive, Held
<1>4. Deads' = Deads /\ p \notin Deads
  BY <1>2, <1>3 DEF Deads, Dead, Alive
<1>5. CASE ~Visible(p)
  <2>1. \A q \in Procs : Left(q)' <=> Left(q)
    BY <1>1, <1>3, <1>5, QuietStep, LeftKept
  <2>2. Held(p)' <=> Held(p)
    BY <1>1, <1>5, QuietStep DEF Held
  <2>3. Holders' = Holders
    BY <1>3, <2>1, <2>2 DEF Holders
  <2> QED BY <1>4, <2>3 DEF Lock!vars
<1>6. CASE VerifyNoTransition(p)
  <2>1. path' = path /\ owner' = owner
    BY <1>6 DEF VerifyNoTransition, disk
  <2>2. Holders = {}
    BY <1>6, NobodyHolds DEF VerifyNoTransition, Holders
  <2>3. CASE Held(p)'
    <3>1. Holders' = {p}
      <4>1. \A q \in Procs : Held(q)' => q = p
        BY <1>3, <2>2 DEF Holders
      <4>2. \A q \in Procs : ~Left(q)'
        BY <1>3, <2>1, <2>2, LeftKept DEF Holders
      <4> QED BY <2>3, <4>1, <4>2 DEF Holders
    <3> QED BY <1>4, <2>2, <3>1 DEF Lock!Next, Lock!Acquire
  <2>4. CASE ~Held(p)'
    <3>1. Holders' = {}
      BY <1>3, <2>1, <2>2, <2>4, LeftKept DEF Holders
    <3> QED BY <1>4, <2>2, <3>1 DEF Lock!vars
  <2> QED BY <2>3, <2>4
<1>7. CASE BeginRelease(p)
  <2>1. path' = path /\ owner' = owner /\ Held(p) /\ ~Held(p)'
    BY <1>1, <1>7 DEF BeginRelease, disk, Held, Goto, TypeInv, TypeOK
  <2>2. Holders = {p}
    BY <2>1, HolderNamed
  <2>3. \A q \in Procs : ~Left(q)
    BY <1>4, <2>2, HolderNamed DEF Deads, Left
  <2>4. Holders' = {}
    BY <1>3, <2>1, <2>2, <2>3, LeftKept DEF Holders
  <2> QED BY <1>4, <2>2, <2>4 DEF Lock!Next, Lock!Release
<1>8. CASE RenameStale(p)
  <2>1. path' = NoDir /\ ~Held(p)' /\ \A q \in Procs : ~Held(q)
    BY <1>1, <1>8, NobodyHolds DEF RenameStale, Held, Goto, TypeInv, TypeOK
  <2>2. Holders' = {}
    BY <1>3, <2>1 DEF Holders, Left
  <2>3. ASSUME NEW q \in Holders PROVE Holders = {q} /\ q \in Deads
    BY <2>1, HolderNamed DEF Holders, Deads, Left
  <2> QED BY <1>4, <2>2, <2>3 DEF Lock!vars, Lock!Next, Lock!Reclaim
<1>9. CASE RenameOwned(p)
  <2>1. path' = NoDir /\ ~Held(p)' /\ Holders = {}
    BY <1>1, <1>9, NobodyHolds DEF RenameOwned, Held, Goto, TypeInv, TypeOK, Holders
  <2>2. Holders' = {}
    BY <1>3, <2>1 DEF Holders, Left
  <2> QED BY <1>4, <2>1, <2>2 DEF Lock!vars
<1>10. CASE MakeDirectory(p)
  <2>1. path = NoDir /\ pc'[p] = "lstat" /\ owner'[path'] = NoRec
    BY <1>1, <1>10, MakerAtPath
  <2>2. Holders = {}
    BY <2>1, HolderNamed DEF Holders, Left
  <2>3. Holders' = {}
    BY <1>3, <2>1, <2>2 DEF Holders, Left, Claims, Held
  <2> QED BY <1>4, <2>2, <2>3 DEF Lock!vars
<1>11. CASE LinkOwner(p)
  <2>1. pc[p] = "link" /\ path' = path
    BY <1>11 DEF LinkOwner
  <2>2. path \in Dirs /\ path # NoDir /\ owner[path] = NoRec /\ MyRec(p) \in tmps[path]
    BY <1>1, <2>1, StateLockAssumption
       DEF LockInv, EngagedAtPath, AtPath, Engaged, Constructing, TypeInv, TypeOK
  <2>3. owner'[path] = MyRec(p) /\ pc'[p] = "verify"
    BY <1>1, <1>11, <2>2 DEF LinkOwner, Goto, TypeInv, TypeOK
  <2>4. Holders = {}
    BY <2>1, NobodyHolds DEF Holders
  <2>5. Holders' = {}
    BY <1>2, <1>3, <2>1, <2>3, <2>4 DEF Holders, Left, MyRec, Held, Dead, Alive
  <2> QED BY <1>4, <2>4, <2>5 DEF Lock!vars
<1> QED BY <1>5, <1>6, <1>7, <1>8, <1>9, <1>10, <1>11 DEF Visible

(* A death is a death, with the lock if the directory at the path already  *)
(* carries the name of the process.                                        *)
LEMMA CrashMaps ==
  ASSUME LockInv, LockInv', NEW p \in Procs, Crash(p)
  PROVE  Lock!Die(p)
<1>1. TypeInv /\ Retired
  BY DEF LockInv, PathInv, TypeInv
<1>2. /\ \A q \in Procs : q # p => pc'[q] = pc[q]
      /\ pc[p] # "dead" /\ pc'[p] = "dead" /\ path' = path
  BY <1>1, OthersStand DEF Crash, Return, Goto, Alive, TypeInv, TypeOK
<1>3. /\ \A q \in Procs : q # p => (Dead(q)' <=> Dead(q)) /\ (Held(q)' <=> Held(q))
      /\ ~Dead(p) /\ Dead(p)' /\ ~Held(p)'
  BY <1>2 DEF Dead, Alive, Held
<1>4. p \notin Deads /\ Deads' = Deads \cup {p}
  BY <1>3 DEF Deads
<1>5. path # NoDir => owner'[path] = owner[path]
  <2>1. CASE pc[p] \in RetiringPcs
    <3>1. gen[p] # path /\ gen[p] \in Dirs
      BY <1>1, <2>1 DEF Retired
    <3> QED BY <1>1, <2>1, <3>1, StateLockAssumption
            DEF Crash, Forget, RetiringPcs, TypeInv, TypeOK
  <2>2. CASE pc[p] \notin RetiringPcs
    BY <2>2 DEF Crash, RetiringPcs
  <2> QED BY <2>1, <2>2
<1>6. \A q \in Procs : q # p => (Left(q)' <=> Left(q))
  BY <1>2, <1>3, <1>5, LeftKept
<1>7. \A q \in Procs : q # p => (q \in Holders' <=> q \in Holders)
  BY <1>3, <1>6 DEF Holders
<1>8. CASE Held(p)
  <2>1. Holders = {p} /\ path # NoDir /\ owner[path] = MyRec(p) /\ path = gen[p]
    BY <1>8, HolderNamed DEF LockInv, EngagedAtPath, AtPath, Engaged, Held
  <2>2. Left(p)'
    <3>1. /\ MyRec(p).proc = p /\ MyRec(p).dir = gen[p]
          /\ owner[path] \in OwnerRec
      BY <1>1, <2>1, RecordTypes DEF MyRec, TypeInv, TypeOK
    <3>2. owner[path] # NoRec
      BY <3>1, StateLockAssumption
    <3> QED BY <1>2, <1>3, <1>5, <2>1, <3>1, <3>2 DEF Left, Claims
  <2>3. Holders' = {p}
    BY <1>7, <2>1, <2>2 DEF Holders
  <2> QED BY <1>4, <2>1, <2>3 DEF Lock!Die
<1>9. CASE ~Held(p) /\ Left(p)'
  <2>1. path # NoDir /\ owner[path].proc = p
    BY <1>2, <1>5, <1>9 DEF Left
  <2>2. Holders = {}
    <3>1. \A q \in Procs : MyRec(q).proc = q
      BY DEF MyRec
    <3>2. \A q \in Procs : Held(q) => owner[path].proc = q
      BY <3>1, HolderNamed
    <3> QED BY <1>3, <1>9, <2>1, <3>2 DEF Holders, Left
  <2>3. Holders' = {p}
    BY <1>7, <1>9, <2>2 DEF Holders
  <2> QED BY <1>4, <2>2, <2>3 DEF Lock!Die
<1>10. CASE ~Held(p) /\ ~Left(p)'
  <2>1. p \notin Holders /\ p \notin Holders'
    BY <1>3, <1>10 DEF Holders, Left
  <2>2. Holders' = Holders
    BY <1>7, <2>1 DEF Holders
  <2> QED BY <1>4, <2>2 DEF Lock!Die
<1> QED BY <1>8, <1>9, <1>10

(* Any number of processes, of directories and of deaths: as long as no    *)
(* constructor outlives the grace and no remembered inode is reused, what  *)
(* withLock, withWorkspaceAdmission and acquireWorkspaceProcessLease do    *)
(* step by step in the file system is a lock that is taken when nobody has *)
(* it, given back by its holder, and taken away from the dead alone.       *)
THEOREM LockImplements ==
  ASSUME ~MayStall, ~ReusesInodes
  PROVE  Spec => ImplementsLockSafely
<1>1. Init => Lock!Init
  BY DEF Init, Lock!Init, Holders, Deads, Held, Left, Dead, Alive
<1>2. LockInv /\ LockInv' /\ [Next]_vars => [Lock!Next]_Lock!vars
  <2> SUFFICES ASSUME LockInv, LockInv', [Next]_vars PROVE [Lock!Next]_Lock!vars
    OBVIOUS
  <2>1. ASSUME NEW p \in Procs, Step(p) PROVE [Lock!Next]_Lock!vars
    BY <2>1, StepMaps
  <2>2. ASSUME NEW p \in Procs, Crash(p) PROVE [Lock!Next]_Lock!vars
    BY <2>2, CrashMaps DEF Lock!Next
  <2>3. CASE UNCHANGED vars
    BY <2>3 DEF vars, disk, local, Lock!vars, Holders, Deads, Held, Left, Dead, Alive, Claims
  <2> QED BY <2>1, <2>2, <2>3 DEF Next
<1> QED BY <1>1, <1>2, LockAlways, PTL DEF Spec, ImplementsLockSafely, Lock!Safe

=============================================================================
