------------------------------ MODULE StateLock ------------------------------
(***************************************************************************)
(* The named state lock of plugins/grok/scripts/lib/state.mjs: a directory *)
(* made with mkdir(2) that holds owner.json (who has it) and, while        *)
(* somebody is taking the directory away, transition.json.  A directory is *)
(* taken away by rename(2): by its owner when it releases the lock, or by  *)
(* another process that found the owner dead or the directory ownerless    *)
(* past a grace period.  The rename is authorised by a claim that has two  *)
(* halves, an exclusive link(2) of transition.json and a second look at    *)
(* the owner; the constructor of a directory looks in the other order,     *)
(* publishing owner.json first and looking for transition.json second.     *)
(*                                                                         *)
(* One lock name is modelled.  Every step below is one access to the       *)
(* shared directory (or several that no other process can separate, which  *)
(* is said where it is used).  Abstractions: the 128-bit tokens of owners  *)
(* and transitions are the process, since a process has one acquisition of *)
(* a lock under way at a time; a generation is its (dev, ino) pair; time   *)
(* is a nondeterministic choice (Aged, and giving up at a deadline); the   *)
(* storage errors that make every operation fail are left out.             *)
(***************************************************************************)
EXTENDS Naturals, FiniteSets

CONSTANTS
  Procs,         \* processes; one that dies never comes back (pid + start token)
  Dirs,          \* directory identities (dev, ino)
  NoDir,         \* nothing at the lock's path
  NoRec,         \* a file that is not there
  MaxCrashes,    \* bound: how many processes may die
  MayStall,      \* may a live constructor stay ownerless past the 30 s grace?
  ReusesInodes   \* does the file system reuse the inode of a removed directory
                 \* while a process still remembers it?

OwnerRec == [proc : Procs, dir : Dirs]
TransRec == [proc : Procs, target : Dirs]

ASSUME StateLockAssumption ==
  /\ NoDir \notin Dirs
  /\ NoRec \notin OwnerRec \cup TransRec
  /\ MaxCrashes \in Nat
  /\ MayStall \in BOOLEAN
  /\ ReusesInodes \in BOOLEAN

VARIABLES
  path,      \* the directory at the lock's path, or NoDir
  owner,     \* owner.json of each directory
  tmps,      \* the owner.json.<pid>.*.tmp files of each directory
  trans,     \* transition.json of each directory
  wit,       \* the .transition-stale-* witnesses of each directory
  gone,      \* the directories rmSync has removed
  pc,        \* where each process stands
  job,       \* why a process is taking a directory away
  gen,       \* the generation a process believes it works on
  fp,        \* a reclaimer's snapshot of the owner (ownerFingerprint)
  exp,       \* the abandoned transition a process is clearing
  attempt    \* the attempt counter of claimLockTransition

disk  == <<path, owner, tmps, trans, wit, gone>>
local == <<pc, job, gen, fp, exp, attempt>>
vars  == <<disk, local>>

Jobs == {"none", "reclaim", "release", "abortFail", "abortRetry"}

AcquirePcs == {"mkdir", "lstat", "tmp", "link", "verify", "verifyOwner",
               "verifyTransition"}
InspectPcs == {"existing", "existingOwner", "existingProvisional", "judge", "wait"}
ClaimPcs   == {"claim", "linkTransition", "pinWitness", "clearTransition",
               "dropWitness", "confirmClaim"}
ReclaimPcs == {"recheckOwner", "recheckProvisional", "renameStale", "frozen"}
ReleasePcs == {"release", "releaseWait", "releaseCheck", "renameOwned", "remove"}

Pcs == {"idle", "held", "dead"} \cup AcquirePcs \cup InspectPcs \cup ClaimPcs
         \cup ReclaimPcs \cup ReleasePcs

Alive(p) == pc[p] # "dead"
Dead(p)  == ~Alive(p)
Held(p)  == pc[p] = "held"

(* A directory that was made and whose owner has not been published yet.   *)
Constructing(p) == pc[p] \in {"lstat", "tmp", "link"}

Init ==
  /\ path = NoDir
  /\ owner = [d \in Dirs |-> NoRec]
  /\ tmps  = [d \in Dirs |-> {}]
  /\ trans = [d \in Dirs |-> NoRec]
  /\ wit   = [d \in Dirs |-> {}]
  /\ gone  = Dirs
  /\ pc  = [p \in Procs |-> "idle"]
  /\ job = [p \in Procs |-> "none"]
  /\ gen = [p \in Procs |-> NoDir]
  /\ fp  = [p \in Procs |-> NoRec]
  /\ exp = [p \in Procs |-> NoRec]
  /\ attempt = [p \in Procs |-> 0]

-----------------------------------------------------------------------------
(* inspectLock: what owner.json says, or the single provisional owner.     *)

MyRec(p) == [proc |-> p, dir |-> gen[p]]

Provisional(d) == IF \E r \in tmps[d] : tmps[d] = {r}
                    THEN CHOOSE r \in tmps[d] : tmps[d] = {r}
                    ELSE NoRec

OwnerOf(d) == IF owner[d] # NoRec THEN owner[d] ELSE Provisional(d)

Claims(r, d) == r # NoRec /\ r.dir = d

MyTrans(p) == [proc |-> p, target |-> gen[p]]

(* ownsLockTransition: the path leads to my generation, under my claim.    *)
OwnsTransition(p) ==
  /\ path # NoDir
  /\ path = gen[p]
  /\ trans[path] = MyTrans(p)

(* removeOwnedTransition, by path.                                         *)
DropOwnTransition(p) ==
  trans' = IF path # NoDir /\ trans[path] = MyTrans(p)
             THEN [trans EXCEPT ![path] = NoRec]
             ELSE trans

(* lockGenerationIsReclaimable.  A bound owner decides by being dead.  An  *)
(* ownerless or foreign-owned generation is reclaimable once its mtime is  *)
(* 30 s old; whether it is, is a choice of the clock.  Without MayStall    *)
(* the clock never gets there while a live process is still constructing.  *)
Aged(d) == MayStall \/ ~\E q \in Procs : Constructing(q) /\ gen[q] = d

(* Mutant: the age decides for bound owners too.                           *)
ReclaimableByAge(r, d) == Aged(d)

Reclaimable(r, d) == IF Claims(r, d) THEN Dead(r.proc) ELSE Aged(d)

(* sameOwnerGeneration for a process releasing its own generation.         *)
SameOwner(p, d) ==
  \/ Claims(owner[d], d) /\ owner[d].proc = p
  \/ job[p] # "release" /\ OwnerOf(d) = NoRec

(* An identity mkdir may hand out: one nobody remembers, or (on a file     *)
(* system that reuses inodes) any one whose directory has been removed.    *)
Remembered(d) ==
  \/ \E p \in Procs : gen[p] = d \/ Claims(fp[p], d)
  \/ /\ path # NoDir
     /\ \/ Claims(owner[path], d)
        \/ \E r \in tmps[path] : r.dir = d
        \/ trans[path] # NoRec /\ trans[path].target = d

Fresh(d) == d # path /\ (~Remembered(d) \/ (ReusesInodes /\ d \in gone))

-----------------------------------------------------------------------------
Goto(p, l) == pc' = [pc EXCEPT ![p] = l]

(* The call returns or throws: the process forgets what it was doing.      *)
Return(p, l) ==
  /\ Goto(p, l)
  /\ job' = [job EXCEPT ![p] = "none"]
  /\ gen' = [gen EXCEPT ![p] = NoDir]
  /\ fp'  = [fp EXCEPT ![p] = NoRec]
  /\ exp' = [exp EXCEPT ![p] = NoRec]
  /\ attempt' = [attempt EXCEPT ![p] = 0]

(* Construction failed: release what was made, then fail or try again.     *)
Abort(p, how) ==
  /\ Goto(p, "release")
  /\ job' = [job EXCEPT ![p] = how]
  /\ UNCHANGED <<gen, fp, exp, attempt>>

(* claimLockTransition returned null.                                      *)
ClaimFails(p) ==
  /\ Goto(p, IF job[p] = "reclaim" THEN "wait" ELSE "releaseWait")
  /\ exp' = [exp EXCEPT ![p] = NoRec]
  /\ attempt' = [attempt EXCEPT ![p] = 0]
  /\ UNCHANGED <<job, gen, fp>>

(* Every read but the one after a rename goes through the path, so what is *)
(* in a retired directory is forgotten once its renamer has looked at it.  *)
Forget(d) ==
  /\ owner' = [owner EXCEPT ![d] = NoRec]
  /\ tmps'  = [tmps EXCEPT ![d] = {}]
  /\ trans' = [trans EXCEPT ![d] = NoRec]
  /\ wit'   = [wit EXCEPT ![d] = {}]

(* releaseLockGeneration returned.                                         *)
ReleaseReturns(p) ==
  Return(p, IF job[p] = "abortRetry" THEN "existing" ELSE "idle")

-----------------------------------------------------------------------------
(* acquireLock: make the directory, publish the owner, verify.             *)

BeginAcquire(p) ==
  /\ pc[p] = "idle"
  /\ Goto(p, "mkdir")
  /\ UNCHANGED <<disk, job, gen, fp, exp, attempt>>

(* gen is assigned by the lstat that follows; until then nothing reads it  *)
(* but Aged, which needs to know which directory is being constructed.     *)
MakeDirectory(p) ==
  /\ pc[p] = "mkdir"
  /\ path = NoDir
  /\ \E d \in Dirs :
       /\ Fresh(d)
       /\ path'  = d
       /\ owner' = [owner EXCEPT ![d] = NoRec]
       /\ tmps'  = [tmps EXCEPT ![d] = {}]
       /\ trans' = [trans EXCEPT ![d] = NoRec]
       /\ wit'   = [wit EXCEPT ![d] = {}]
       /\ gone'  = gone \ {d}
       /\ gen'   = [gen EXCEPT ![p] = d]
  /\ Goto(p, "lstat")
  /\ UNCHANGED <<job, fp, exp, attempt>>

DirectoryExists(p) ==
  /\ pc[p] = "mkdir"
  /\ path # NoDir
  /\ Goto(p, "existing")
  /\ UNCHANGED <<disk, job, gen, fp, exp, attempt>>

ReadIdentity(p) ==
  /\ pc[p] = "lstat"
  /\ IF path = NoDir
       THEN Return(p, "idle")
       ELSE /\ Goto(p, "tmp")
            /\ gen' = [gen EXCEPT ![p] = path]
            /\ UNCHANGED <<job, fp, exp, attempt>>
  /\ UNCHANGED disk

WriteProvisional(p) ==
  /\ pc[p] = "tmp"
  /\ IF path = NoDir
       THEN Abort(p, "abortFail") /\ UNCHANGED tmps
       ELSE /\ tmps' = [tmps EXCEPT ![path] = @ \cup {MyRec(p)}]
            /\ Goto(p, "link")
            /\ UNCHANGED <<job, gen, fp, exp, attempt>>
  /\ UNCHANGED <<path, owner, trans, wit, gone>>

(* Mutant: rename(2) in place of link(2) and unlink(2).                    *)
RenameOwnerFile(p) ==
  /\ pc[p] = "link"
  /\ IF path # NoDir /\ MyRec(p) \in tmps[path]
       THEN /\ tmps' = [tmps EXCEPT ![path] = @ \ {MyRec(p)}]
            /\ owner' = [owner EXCEPT ![path] = MyRec(p)]
            /\ Goto(p, "verify")
            /\ UNCHANGED <<job, gen, fp, exp, attempt>>
       ELSE Abort(p, "abortFail") /\ UNCHANGED <<owner, tmps>>
  /\ UNCHANGED <<path, trans, wit, gone>>

(* link(2) of the provisional file, then unlink(2) of it; both by path, so *)
(* they fail when the path no longer leads to the directory it is in.      *)
LinkOwner(p) ==
  /\ pc[p] = "link"
  /\ IF path # NoDir /\ MyRec(p) \in tmps[path]
       THEN /\ tmps' = [tmps EXCEPT ![path] = @ \ {MyRec(p)}]
            /\ IF owner[path] = NoRec
                 THEN /\ owner' = [owner EXCEPT ![path] = MyRec(p)]
                      /\ Goto(p, "verify")
                      /\ UNCHANGED <<job, gen, fp, exp, attempt>>
                 ELSE Abort(p, "abortRetry") /\ UNCHANGED owner
       ELSE Abort(p, "abortFail") /\ UNCHANGED <<owner, tmps>>
  /\ UNCHANGED <<path, trans, wit, gone>>

VerifyIdentity(p) ==
  /\ pc[p] = "verify"
  /\ IF path # NoDir /\ path = gen[p]
       THEN Goto(p, "verifyOwner") /\ UNCHANGED <<job, gen, fp, exp, attempt>>
       ELSE Abort(p, "abortFail")
  /\ UNCHANGED disk

VerifyOwner(p) ==
  /\ pc[p] = "verifyOwner"
  /\ IF path # NoDir /\ owner[path] = MyRec(p)
       THEN Goto(p, "verifyTransition") /\ UNCHANGED <<job, gen, fp, exp, attempt>>
       ELSE Abort(p, "abortFail")
  /\ UNCHANGED disk

(* Mutant: the lock is taken whether or not a transition is pending.       *)
VerifyNothing(p) ==
  /\ pc[p] = "verifyTransition"
  /\ Goto(p, "held")
  /\ UNCHANGED <<disk, job, gen, fp, exp, attempt>>

(* existsSync(transition.json), by path: nothing at the path is "absent".  *)
VerifyNoTransition(p) ==
  /\ pc[p] = "verifyTransition"
  /\ IF path = NoDir \/ trans[path] = NoRec
       THEN Goto(p, "held") /\ UNCHANGED <<job, gen, fp, exp, attempt>>
       ELSE Abort(p, "abortFail")
  /\ UNCHANGED disk

-----------------------------------------------------------------------------
(* acquireLock when the directory exists: inspectLock, in three reads.     *)

InspectIdentity(p) ==
  /\ pc[p] = "existing"
  /\ IF path = NoDir
       THEN Goto(p, "mkdir") /\ UNCHANGED gen
       ELSE Goto(p, "existingOwner") /\ gen' = [gen EXCEPT ![p] = path]
  /\ UNCHANGED <<disk, job, fp, exp, attempt>>

InspectOwner(p) ==
  /\ pc[p] = "existingOwner"
  /\ IF path # NoDir /\ owner[path] # NoRec
       THEN Goto(p, "judge") /\ fp' = [fp EXCEPT ![p] = owner[path]]
       ELSE Goto(p, "existingProvisional") /\ UNCHANGED fp
  /\ UNCHANGED <<disk, job, gen, exp, attempt>>

InspectProvisional(p) ==
  /\ pc[p] = "existingProvisional"
  /\ fp' = [fp EXCEPT ![p] = IF path = NoDir THEN NoRec ELSE Provisional(path)]
  /\ Goto(p, "judge")
  /\ UNCHANGED <<disk, job, gen, exp, attempt>>

JudgeStale(p) ==
  /\ pc[p] = "judge"
  /\ Reclaimable(fp[p], gen[p])
  /\ Goto(p, "claim")
  /\ job' = [job EXCEPT ![p] = "reclaim"]
  /\ UNCHANGED <<disk, gen, fp, exp, attempt>>

JudgeCurrent(p) ==
  /\ pc[p] = "judge"
  /\ Claims(fp[p], gen[p]) => ~Dead(fp[p].proc)
  /\ Goto(p, "wait")
  /\ UNCHANGED <<disk, job, gen, fp, exp, attempt>>

(* Wait 10 ms and try again, or give up at the 5 s deadline.               *)
WaitOrGiveUp(p) ==
  /\ pc[p] = "wait"
  /\ \E l \in {"mkdir", "idle"} : Return(p, l)
  /\ UNCHANGED disk

-----------------------------------------------------------------------------
(* claimLockTransition and clearAbandonedTransition.                       *)

ClaimIdentity(p) ==
  /\ pc[p] = "claim"
  /\ IF path # NoDir /\ path = gen[p]
       THEN Goto(p, "linkTransition") /\ UNCHANGED <<job, gen, fp, exp, attempt>>
       ELSE ClaimFails(p)
  /\ UNCHANGED disk

(* The link lands in whatever directory is at the path now.  EEXIST: read  *)
(* the existing transition and, on the first attempt, clear it if its      *)
(* process is dead.                                                        *)
LinkTransition(p) ==
  /\ pc[p] = "linkTransition"
  /\ IF path = NoDir
       THEN ClaimFails(p) /\ UNCHANGED trans
       ELSE IF trans[path] = NoRec
         THEN /\ trans' = [trans EXCEPT ![path] = MyTrans(p)]
              /\ Goto(p, "confirmClaim")
              /\ UNCHANGED <<job, gen, fp, exp, attempt>>
         ELSE /\ UNCHANGED trans
              /\ IF attempt[p] = 0 /\ Dead(trans[path].proc)
                   THEN /\ Goto(p, "pinWitness")
                        /\ exp' = [exp EXCEPT ![p] = trans[path]]
                        /\ UNCHANGED <<job, gen, fp, attempt>>
                   ELSE ClaimFails(p)
  /\ UNCHANGED <<path, owner, tmps, wit, gone>>

(* Mutant: the witness is named after the whole transition.                *)
PinWholeTransition(p) ==
  /\ pc[p] = "pinWitness"
  /\ IF path # NoDir /\ trans[path] # NoRec
       THEN /\ wit' = [wit EXCEPT ![path] = {exp[p]}]
            /\ Goto(p, "clearTransition")
            /\ UNCHANGED <<job, gen, fp, exp, attempt>>
       ELSE ClaimFails(p) /\ UNCHANGED wit
  /\ UNCHANGED <<path, owner, tmps, trans, gone>>

(* Hard-link the transition to a witness named after its token.            *)
PinWitness(p) ==
  /\ pc[p] = "pinWitness"
  /\ IF path # NoDir /\ trans[path] # NoRec /\ exp[p].proc \notin wit[path]
       THEN /\ wit' = [wit EXCEPT ![path] = @ \cup {exp[p].proc}]
            /\ Goto(p, "clearTransition")
            /\ UNCHANGED <<job, gen, fp, exp, attempt>>
       ELSE ClaimFails(p) /\ UNCHANGED wit
  /\ UNCHANGED <<path, owner, tmps, trans, gone>>

(* Mutant: the witness is pinned and the transition stays.                 *)
ClearNothing(p) ==
  /\ pc[p] = "clearTransition"
  /\ Goto(p, "dropWitness")
  /\ UNCHANGED <<disk, job, gen, fp, exp, attempt>>

(* Compare the pinned and the current transition with the expected one and *)
(* unlink it.  A dead process's transition under its own witness is out of *)
(* everybody else's reach, so the comparison and the unlink are one step.  *)
ClearTransition(p) ==
  /\ pc[p] = "clearTransition"
  /\ IF path # NoDir /\ exp[p].proc \in wit[path] /\ trans[path] = exp[p]
       THEN /\ trans' = [trans EXCEPT ![path] = NoRec]
            /\ attempt' = [attempt EXCEPT ![p] = 1]
       ELSE UNCHANGED <<trans, attempt>>
  /\ Goto(p, "dropWitness")
  /\ UNCHANGED <<path, owner, tmps, wit, gone, job, gen, fp, exp>>

DropWitness(p) ==
  /\ pc[p] = "dropWitness"
  /\ IF path # NoDir
       THEN wit' = [wit EXCEPT ![path] = @ \ {exp[p].proc}]
       ELSE UNCHANGED wit
  /\ IF attempt[p] = 1
       THEN /\ Goto(p, "claim")
            /\ exp' = [exp EXCEPT ![p] = NoRec]
            /\ UNCHANGED <<job, gen, fp, attempt>>
       ELSE ClaimFails(p)
  /\ UNCHANGED <<path, owner, tmps, trans, gone>>

(* Mutant: the link is taken for the claim, wherever it landed.            *)
TrustClaim(p) ==
  /\ pc[p] = "confirmClaim"
  /\ Goto(p, IF job[p] = "reclaim" THEN "recheckOwner" ELSE "releaseCheck")
  /\ attempt' = [attempt EXCEPT ![p] = 0]
  /\ UNCHANGED <<disk, job, gen, fp, exp>>

(* ownsLockTransition after the link; a claim that landed in another       *)
(* generation is taken back (removeOwnedTransition).  The process's own    *)
(* transition keeps its directory at the path, so this is one step.        *)
ConfirmClaim(p) ==
  /\ pc[p] = "confirmClaim"
  /\ IF OwnsTransition(p)
       THEN /\ Goto(p, IF job[p] = "reclaim" THEN "recheckOwner" ELSE "releaseCheck")
            /\ attempt' = [attempt EXCEPT ![p] = 0]
            /\ UNCHANGED <<trans, job, gen, fp, exp>>
       ELSE DropOwnTransition(p) /\ ClaimFails(p)
  /\ UNCHANGED <<path, owner, tmps, wit, gone>>

-----------------------------------------------------------------------------
(* reclaimLockGeneration: a second look at the owner, then the rename.     *)

(* Mutant: no second look at the owner.                                    *)
RecheckNothing(p) ==
  /\ pc[p] = "recheckOwner"
  /\ Goto(p, "renameStale")
  /\ UNCHANGED <<disk, job, gen, fp, exp, attempt>>

(* The comparison of the owner's fingerprint, in two reads.  Whether the   *)
(* snapshot is reclaimable is asked again and cannot have changed: a dead  *)
(* owner stays dead and the snapshot's mtime only gets older.              *)
RecheckOwner(p) ==
  /\ pc[p] = "recheckOwner"
  /\ IF OwnsTransition(p) /\ owner[path] \in {NoRec, fp[p]}
       THEN /\ Goto(p, IF owner[path] = NoRec THEN "recheckProvisional"
                                              ELSE "renameStale")
            /\ UNCHANGED trans
       ELSE DropOwnTransition(p) /\ Goto(p, "wait")
  /\ UNCHANGED <<path, owner, tmps, wit, gone, job, gen, fp, exp, attempt>>

RecheckProvisional(p) ==
  /\ pc[p] = "recheckProvisional"
  /\ IF OwnsTransition(p) /\ Provisional(path) = fp[p]
       THEN Goto(p, "renameStale") /\ UNCHANGED trans
       ELSE DropOwnTransition(p) /\ Goto(p, "wait")
  /\ UNCHANGED <<path, owner, tmps, wit, gone, job, gen, fp, exp, attempt>>

RenameStale(p) ==
  /\ pc[p] = "renameStale"
  /\ path' = NoDir
  /\ Goto(p, "frozen")
  /\ UNCHANGED <<owner, tmps, trans, wit, gone, job, gen, fp, exp, attempt>>

(* The retired directory is inspected once more.  If its owner changed the *)
(* call throws "Lost stale state-lock generation while freezing it."; if   *)
(* not, the loop goes back to mkdir.                                       *)
CheckFrozen(p) ==
  /\ pc[p] = "frozen"
  /\ Return(p, IF OwnerOf(gen[p]) = fp[p] THEN "mkdir" ELSE "idle")
  /\ Forget(gen[p])
  /\ UNCHANGED <<path, gone>>

-----------------------------------------------------------------------------
(* releaseLockGeneration: by the holder, or by a constructor that failed.  *)

BeginRelease(p) ==
  /\ pc[p] = "held"
  /\ Goto(p, "release")
  /\ job' = [job EXCEPT ![p] = "release"]
  /\ UNCHANGED <<disk, gen, fp, exp, attempt>>

InspectOwn(p) ==
  /\ pc[p] = "release"
  /\ IF path # NoDir /\ path = gen[p] /\ SameOwner(p, path)
       THEN Goto(p, "claim") /\ UNCHANGED <<job, gen, fp, exp, attempt>>
       ELSE ReleaseReturns(p)
  /\ UNCHANGED disk

(* Try again, or throw "Timed out releasing" at the 5 s deadline.  The     *)
(* cleanup of a failed construction swallows that error (runLockCleanup).  *)
RetryRelease(p) ==
  /\ pc[p] = "releaseWait"
  /\ \/ Goto(p, "release") /\ UNCHANGED <<job, gen, fp, exp, attempt>>
     \/ ReleaseReturns(p)
  /\ UNCHANGED disk

RecheckOwn(p) ==
  /\ pc[p] = "releaseCheck"
  /\ IF OwnsTransition(p) /\ SameOwner(p, path)
       THEN /\ Goto(p, "renameOwned")
            /\ UNCHANGED <<trans, job, gen, fp, exp, attempt>>
       ELSE DropOwnTransition(p) /\ ReleaseReturns(p)
  /\ UNCHANGED <<path, owner, tmps, wit, gone>>

RenameOwned(p) ==
  /\ pc[p] = "renameOwned"
  /\ path' = NoDir
  /\ Goto(p, "remove")
  /\ UNCHANGED <<owner, tmps, trans, wit, gone, job, gen, fp, exp, attempt>>

(* A retired directory that turns out to have another owner is kept and    *)
(* the release throws "Lost owned state-lock generation".                  *)
RemoveRetired(p) ==
  /\ pc[p] = "remove"
  /\ gone' = IF SameOwner(p, gen[p]) THEN gone \cup {gen[p]} ELSE gone
  /\ ReleaseReturns(p)
  /\ Forget(gen[p])
  /\ UNCHANGED path

-----------------------------------------------------------------------------
(* The process dies between any two of its steps; its files stay.          *)
Crash(p) ==
  /\ Alive(p)
  /\ Cardinality({q \in Procs : Dead(q)}) < MaxCrashes
  /\ Return(p, "dead")
  /\ IF pc[p] \in {"frozen", "remove"}
       THEN Forget(gen[p])
       ELSE UNCHANGED <<owner, tmps, trans, wit>>
  /\ UNCHANGED <<path, gone>>

Acquire(p) ==
  \/ BeginAcquire(p) \/ MakeDirectory(p) \/ DirectoryExists(p) \/ ReadIdentity(p)
  \/ WriteProvisional(p) \/ LinkOwner(p) \/ VerifyIdentity(p) \/ VerifyOwner(p)
  \/ VerifyNoTransition(p)

Inspect(p) ==
  \/ InspectIdentity(p) \/ InspectOwner(p) \/ InspectProvisional(p)
  \/ JudgeStale(p) \/ JudgeCurrent(p) \/ WaitOrGiveUp(p)

Claim(p) ==
  \/ ClaimIdentity(p) \/ LinkTransition(p) \/ PinWitness(p) \/ ClearTransition(p)
  \/ DropWitness(p) \/ ConfirmClaim(p)

Reclaim(p) ==
  \/ RecheckOwner(p) \/ RecheckProvisional(p) \/ RenameStale(p) \/ CheckFrozen(p)

Release(p) ==
  \/ BeginRelease(p) \/ InspectOwn(p) \/ RetryRelease(p) \/ RecheckOwn(p)
  \/ RenameOwned(p) \/ RemoveRetired(p)

Step(p) == Acquire(p) \/ Inspect(p) \/ Claim(p) \/ Reclaim(p) \/ Release(p)

Next == \E p \in Procs : Step(p) \/ Crash(p)

Spec == Init /\ [][Next]_vars

(* Live processes keep running and keep asking for the lock: every wait in *)
(* this file is a 10 ms sleep, and withLock's actions are synchronous.     *)
(* Nothing makes a process die.                                            *)
FairSpec == Spec /\ \A p \in Procs : WF_vars(Step(p))

-----------------------------------------------------------------------------
(* Properties.                                                             *)

TypeOK ==
  /\ path \in Dirs \cup {NoDir}
  /\ owner \in [Dirs -> OwnerRec \cup {NoRec}]
  /\ tmps \in [Dirs -> SUBSET OwnerRec]
  /\ trans \in [Dirs -> TransRec \cup {NoRec}]
  /\ wit \in [Dirs -> SUBSET Procs]
  /\ gone \in SUBSET Dirs
  /\ pc \in [Procs -> Pcs]
  /\ job \in [Procs -> Jobs]
  /\ gen \in [Procs -> Dirs \cup {NoDir}]
  /\ fp \in [Procs -> OwnerRec \cup {NoRec}]
  /\ exp \in [Procs -> TransRec \cup {NoRec}]
  /\ attempt \in [Procs -> {0, 1}]

(* At most one process runs the action that withLock guards, or holds the  *)
(* lease of acquireWorkspaceProcessLease.                                  *)
MutualExclusion == \A p, q \in Procs : Held(p) /\ Held(q) => p = q

(* Whoever holds the lock holds the directory everybody else finds at the  *)
(* path, and is named in it: a stale generation is never worked under.     *)
HolderIsAtPath ==
  \A p \in Procs :
    Held(p) => /\ path # NoDir
               /\ path = gen[p]
               /\ owner[path] = MyRec(p)

(* Whatever the clock and the file system do, one directory never has two  *)
(* holders: link(2) of owner.json admits one name per generation.          *)
OneHolderPerGeneration ==
  \A p, q \in Procs : Held(p) /\ Held(q) /\ gen[p] = gen[q] => p = q

(* Whatever the clock and the file system do, a holder whose directory is  *)
(* at the path keeps it there: no reclaimer, however old its snapshot, and *)
(* no other releaser renames it away.                                      *)
HolderIsNotDisplaced ==
  [][\A p \in Procs : Held(p) /\ path # NoDir /\ path = gen[p] => path' = path]_vars

(* The rename that takes a directory away is never applied to anything but *)
(* the generation it was decided for, and finds it as it was: the two      *)
(* "Lost ... state-lock generation" errors are unreachable.                *)
NoLostGeneration ==
  \A p \in Procs :
    /\ pc[p] = "frozen" => OwnerOf(gen[p]) = fp[p]
    /\ pc[p] = "remove" => SameOwner(p, gen[p])

(* A claim pins the path: between confirming its transition and renaming,  *)
(* the claimer's generation is at the path under its own transition.       *)
ClaimPinsPath ==
  \A p \in Procs :
    pc[p] \in {"recheckOwner", "recheckProvisional", "renameStale",
               "releaseCheck", "renameOwned"} => OwnsTransition(p)

(* A generation whose owner died, in whatever step it was, is taken away   *)
(* as long as some process keeps asking for the lock ("a dead one is       *)
(* reclaimable").                                                          *)
Abandoned(d) == path = d /\ OwnerOf(d) # NoRec /\ Dead(OwnerOf(d).proc)

AbandonedIsReclaimed == \A d \in Dirs : Abandoned(d) ~> path # d

=============================================================================
