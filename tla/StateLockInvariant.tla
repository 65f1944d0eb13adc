-------------------------- MODULE StateLockInvariant --------------------------
(* The inductive invariants of StateLock, from which StateLockProofs       *)
(* derives its theorems.                                                   *)
EXTENDS StateLock

ClaimedPcs  == {"recheckOwner", "recheckProvisional", "renameStale",
                "releaseCheck", "renameOwned"}
RetiringPcs == {"frozen", "remove"}

(* A process past its first look at a directory remembers which one, and   *)
(* one that clears a transition remembers which.                           *)
GenKnown ==
  \A p \in Procs :
    /\ pc[p] \notin {"idle", "dead", "mkdir", "existing"} => gen[p] \in Dirs
    /\ pc[p] \in {"pinWitness", "clearTransition", "dropWitness"} => exp[p] \in TransRec

(* A transition in the directory at the path is its process's to keep: a   *)
(* claimer finds its own there until it takes it back or renames.          *)
Pinned ==
  /\ ClaimPinsPath
  /\ \A p \in Procs :
       pc[p] = "confirmClaim" => path # NoDir /\ trans[path] = MyTrans(p)

(* Only the transitions of dead processes are cleared.                     *)
ClearsTheDead ==
  \A p \in Procs :
    pc[p] \in {"pinWitness", "clearTransition"} => exp[p] # NoRec /\ Dead(exp[p].proc)

(* A directory that was renamed away and is still being looked at belongs  *)
(* to its renamer alone and is not what the path leads to.                 *)
Retired ==
  /\ path \notin gone
  /\ \A p \in Procs :
       pc[p] \in RetiringPcs => gen[p] \in Dirs /\ gen[p] # path /\ gen[p] \notin gone
  /\ \A p, q \in Procs :
       pc[p] \in RetiringPcs /\ pc[q] \in RetiringPcs /\ gen[p] = gen[q] => p = q

(* Jobs and places go together.                                            *)
JobOfPlace ==
  \A p \in Procs :
    /\ pc[p] \in AcquirePcs \cup (InspectPcs \ {"wait"}) \cup {"idle", "held", "dead"}
         => job[p] = "none"
    /\ pc[p] \in ReclaimPcs => job[p] = "reclaim"
    /\ pc[p] \in ClaimPcs => job[p] # "none"
    /\ pc[p] \in ReleasePcs => job[p] \in {"release", "abortFail", "abortRetry"}

(* Holds for every clock and every file system.                            *)
PathInv == TypeOK /\ GenKnown /\ Pinned /\ ClearsTheDead /\ Retired /\ JobOfPlace

-----------------------------------------------------------------------------
(* p works on a generation it made, from its mkdir to its rename.          *)
Engaged(p) ==
  \/ pc[p] \in {"lstat", "tmp", "link", "verify", "verifyOwner",
                "verifyTransition", "held"}
  \/ /\ pc[p] \in ClaimPcs \cup {"release", "releaseWait", "releaseCheck", "renameOwned"}
     /\ job[p] # "reclaim"

(* The generation is the one at the path, and the owner it names, once     *)
(* there is one, is p.                                                     *)
AtPath(p) ==
  /\ path # NoDir
  /\ path = gen[p]
  /\ IF Constructing(p) THEN owner[path] = NoRec ELSE owner[path] = MyRec(p)
  /\ tmps[path] = IF pc[p] = "link" THEN {MyRec(p)} ELSE {}

EngagedAtPath == \A p \in Procs : Engaged(p) => AtPath(p)

OneEngaged == \A p, q \in Procs : Engaged(p) /\ Engaged(q) => p = q

(* An owner read from a directory under construction is its constructor's. *)
Snapshot ==
  \A p, q \in Procs :
    /\ pc[p] = "judge" /\ Claims(fp[p], gen[p])
    /\ Constructing(q) /\ gen[q] = gen[p]
    => fp[p].proc = q

(* A reclaimer's decision is about a dead owner, or about a generation     *)
(* nobody is constructing; after the second look nobody is engaged in it.  *)
Judged ==
  \A p \in Procs : job[p] = "reclaim" /\ pc[p] \in ClaimPcs \cup ClaimedPcs =>
    /\ gen[p] \in Dirs
    /\ Claims(fp[p], gen[p]) => Dead(fp[p].proc)
    /\ \A q \in Procs : Constructing(q) => gen[q] # gen[p]

Rechecked ==
  /\ \A p \in Procs : pc[p] = "recheckProvisional" => owner[path] = NoRec
  /\ \A p \in Procs : pc[p] = "renameStale" => OwnerOf(path) = fp[p]
  /\ \A p, q \in Procs :
       pc[p] \in {"recheckProvisional", "renameStale"} => ~Engaged(q)

(* Holds when constructors do not stall and inodes are not reused.         *)
LockInv ==
  /\ PathInv
  /\ EngagedAtPath /\ OneEngaged
  /\ Snapshot /\ Judged /\ Rechecked
  /\ NoLostGeneration

-----------------------------------------------------------------------------
(* p has read its own name in the directory it made.                       *)
OwningPcs == {"verifyTransition", "held"}
Owning(p) == pc[p] \in OwningPcs

(* Who is about to look for its name looks in its own generation or finds  *)
(* another one's directory.                                                *)
LooksAtOwn ==
  \A p \in Procs :
    pc[p] = "verifyOwner" /\ path # NoDir /\ owner[path] = MyRec(p) => path = gen[p]

(* While it is at the path or being looked at by its renamer, the          *)
(* generation bears its owner's name; it is not one that was removed.      *)
Named ==
  \A p \in Procs : Owning(p) =>
    /\ gen[p] \notin gone
    /\ path = gen[p] => owner[gen[p]] = MyRec(p)
    /\ \A q \in Procs :
         pc[q] \in RetiringPcs /\ gen[q] = gen[p] => owner[gen[p]] = MyRec(p)

OneOwning == \A p, q \in Procs : Owning(p) /\ Owning(q) /\ gen[p] = gen[q] => p = q

(* A reclaimer whose snapshot names an owner of the generation found it    *)
(* dead.                                                                   *)
JudgedDead ==
  \A p \in Procs :
    /\ job[p] = "reclaim" /\ pc[p] \in ClaimPcs \cup ClaimedPcs
    /\ Claims(fp[p], gen[p])
    => Dead(fp[p].proc)

(* Nobody is past its second look at a directory that is held.             *)
HeldIsLeft ==
  \A p, q \in Procs :
    Held(p) /\ path = gen[p]
      => pc[q] \notin {"recheckProvisional", "renameStale", "renameOwned"}

(* Holds for every clock and every file system.                            *)
HolderInv == PathInv /\ LooksAtOwn /\ Named /\ OneOwning /\ JudgedDead /\ HeldIsLeft

=============================================================================
