-------------------------- MODULE WriteProvisioning --------------------------
(* How a managed writer gets its worktree (worker-provisioner.mjs,          *)
(* worker-mutation-write-*.mjs, provider-acp-runtime.mjs, recursion-guard). *)
(* A call of a broker snapshots the job without a lock, takes the           *)
(* controller lease of the worker, commits an intent, spawns a bootstrap    *)
(* that waits on a pipe, activates it, gives it a credential and its orders,*)
(* and the bootstrap registers its guard before it starts Grok; Grok is     *)
(* then asked to create the worktree.  The host checks what was made, kills *)
(* the controller and only then calls the worktree ready.  Every step may   *)
(* fail, and the effect of a failed creation is unknown: it is adopted if   *)
(* it is exact, and asked for again only if it is provably absent.          *)
(*                                                                          *)
(* A slot stands for a provisioning call and the host that runs it; a slot  *)
(* that ended is used again, as a new holder, when nothing names it.        *)
(* Transactions are single steps (StateLock).  The user may edit the parent *)
(* checkout, another host may cancel, and the command line of any host      *)
(* sweeps jobs that look lost.                                              *)
EXTENDS Naturals, FiniteSets

CONSTANTS
  Slots,        \* concurrent calls
  None,
  FaultKinds,   \* those this instance has, of AllFaults
  MaxFaults,    \* bound: faults altogether
  MaxRev        \* bound: journal revision up to which a pinned reissue is driven

AllFaults == {"die", "halfGuard", "bootDies", "unkillable", "expire", "edit",
              "cancel", "sweep", "home"}

ASSUME WriteProvisioningAssumption ==
  None \notin Slots /\ FaultKinds \subseteq AllFaults /\ MaxFaults \in Nat /\ MaxRev \in Nat

MaxPrior == 2      \* MAX_WRITE_PROVISIONING_ATTEMPTS - 1

Idle == [pc |-> "idle", rev |-> 0, mode |-> "fresh"]

VARIABLES
  job,     \* the job: its status, journal, intent, evidence and executable pin
  tree,    \* the worktree and its registration
  guard,   \* whose guard is registered
  boot,    \* the bootstrap, then controller, that a call spawned
  homes,   \* private controller homes on disk
  creds,   \* those with a credential in them
  lease,   \* who holds worktree-controller-<id>
  call,    \* what each call is doing, the journal it expects, and why
  edited,  \* the parent checkout differs from its fingerprint: "never", "now", "before"
  sweep,   \* the sweeper: what it is about to do, to whose controller
  faults

vars == <<job, tree, guard, boot, homes, creds, lease, call, edited, sweep, faults>>
world == <<tree, guard, boot, homes, creds, lease, edited, sweep, faults>>

(* pinned: the job was admitted with the executable that setup owns        *)
(* (spawn.providerLaunchBinding), so that every call opens the same file.  *)
Admitted(pinned) ==
  [status |-> "queued", dispatch |-> FALSE, state |-> "planned", rev |-> 0,
   intent |-> "none", holder |-> None, proc |-> None, receipt |-> FALSE,
   proof |-> FALSE, prior |-> 0, open |-> FALSE, pinned |-> pinned]

Init ==
  /\ \E pinned \in BOOLEAN : job = Admitted(pinned)
  /\ tree = "absent"
  /\ guard = None
  /\ boot = [c \in Slots |-> "none"]
  /\ homes = {} /\ creds = {}
  /\ lease = None
  /\ call = [c \in Slots |-> Idle]
  /\ edited = "never"
  /\ sweep = [pc |-> "idle", target |-> None]
  /\ faults = 0

Alive(c) == c # None /\ boot[c] \notin {"none", "gone"}
Dead(c) == call[c].pc = "dead"

Fault(kind) ==
  /\ kind \in FaultKinds /\ faults < MaxFaults
  /\ faults' = faults + 1

-----------------------------------------------------------------------------
(* What the transactions ask of the job.                                   *)

(* assertWriteExecutionJob: the shape of a job nobody else has touched, and *)
(* a parent checkout as it was at admission.                                *)
Sound == job.status \in {"queued", "failed"} /\ ~job.dispatch /\ edited # "now"

(* assertActualWriteProvisionerCleanup.                                    *)
Proven(c) == ~Alive(c) /\ guard = None

(* Mutants: what is there is the worktree; what is not clean is not there. *)
ExactIfPresent == tree # "absent"
AbsentUnlessExact == tree # "clean"

(* managedWorktreeVerification; classifyWorkerWorktreeEffect.              *)
Exact == tree = "clean"
Absent == tree = "absent"

(* assertWriteProvisioningMutationBoundary: the caller holds the intent.   *)
Owns(c) == job.intent # "none" /\ job.holder = c

Planned == job.state \in {"planned", "reissue_planned"}

Unstarted(c) ==
  /\ Planned /\ job.rev = call[c].rev
  /\ job.intent = "pending" /\ job.proc = None

Registered(c) ==
  /\ job.state = "provisioning" /\ job.rev = call[c].rev
  /\ job.intent = "registered"

Unanswered ==
  /\ job.state = "cleanup_pending" /\ job.intent = "registered"
  /\ ~job.receipt /\ job.proof

Goto(c, pc) == call' = [call EXCEPT ![c].pc = pc]
GotoRev(c, pc) == call' = [call EXCEPT ![c].pc = pc, ![c].rev = job'.rev]

(* The finally block: the lease goes back.                                 *)
Released(c) == IF lease = c THEN None ELSE lease

(* The home of a call whose controller is gone or never was is removed.    *)
End(c) ==
  /\ Goto(c, "idle")
  /\ lease' = Released(c)
  /\ homes' = homes \ {c} /\ creds' = creds \ {c}

-----------------------------------------------------------------------------
(* provisionWriteWorkerWorktree up to the lease.                           *)

(* Nothing names the slot: it can stand for a call with a new holder.      *)
Fresh(c) ==
  /\ job.holder # c \/ job.intent \in {"settled", "no-child"}
  /\ boot[c] \in {"none", "gone"} /\ guard # c /\ lease # c /\ c \notin creds

(* driveWriteVertical and the unlocked snapshot.  Any other journal is     *)
(* refused: a call continues a fresh plan, an effect nobody reported, or a *)
(* reissue that never started.                                             *)
Begin(c) ==
  /\ call[c].pc \in {"idle", "dead"} /\ Fresh(c)
  /\ job.status = "queued" /\ Sound
  /\ \E m \in {"fresh", "reissue", "recover"} :
       /\ CASE m = "fresh"   -> job.state = "planned" /\ job.intent = "none"
            [] m = "reissue" -> Unanswered
            [] m = "recover" ->
                 job.state = "reissue_planned" /\ (job.pinned => job.rev <= MaxRev)
       /\ call' = [call EXCEPT ![c] =
            [pc |-> IF m = "reissue" THEN "classify" ELSE "lease",
             rev |-> job.rev, mode |-> m]]
  /\ boot' = [boot EXCEPT ![c] = "none"]
  /\ UNCHANGED <<job, tree, guard, homes, creds, lease, edited, sweep, faults>>

Classify(c) ==
  /\ call[c].pc = "classify"
  /\ Goto(c, IF Exact THEN "adopt"
             ELSE IF Absent /\ job.prior < MaxPrior THEN "lease" ELSE "idle")
  /\ UNCHANGED <<job, world>>

(* adoptWriteProvisioningEffect.                                           *)
Adopt(c) ==
  /\ call[c].pc = "adopt"
  /\ Goto(c, "idle")
  /\ IF Sound /\ Unanswered /\ job.rev = call[c].rev /\ Proven(job.proc) /\ Exact
       THEN job' = [job EXCEPT !.state = "ready", !.rev = @ + 1, !.intent = "settled"]
       ELSE UNCHANGED job
  /\ UNCHANGED world

(* acquireWorkspaceProcessLease and cleanupStaleControllerHomes, which     *)
(* refuses a home with a credential in it.                                 *)
TakeLease(c) ==
  /\ call[c].pc = "lease"
  /\ IF lease = None /\ creds = {}
       THEN /\ lease' = c /\ homes' = {}
            /\ Goto(c, IF call[c].mode = "recover" THEN "claim" ELSE "home")
       ELSE Goto(c, "idle") /\ UNCHANGED <<lease, homes>>
  /\ UNCHANGED <<job, tree, guard, boot, creds, edited, sweep, faults>>

(* reauthorizeWriteProvisioningReissue, for a new holder.                  *)
Claim(c) ==
  /\ call[c].pc = "claim"
  /\ IF Sound /\ Unstarted(c) /\ job.state = "reissue_planned" /\ guard = None
       THEN /\ job' = [job EXCEPT !.rev = @ + 1, !.holder = c]
            /\ GotoRev(c, "home")
            /\ UNCHANGED <<lease, homes, creds>>
       ELSE End(c) /\ UNCHANGED job
  /\ UNCHANGED <<tree, guard, boot, edited, sweep, faults>>

(* taskEnvironment; a recovering call does it in a transaction that checks *)
(* its claim once more.                                                    *)
MakeHome(c) ==
  /\ call[c].pc = "home"
  /\ \/ /\ call[c].mode = "recover" =>
             Sound /\ Unstarted(c) /\ Owns(c) /\ guard = None
        /\ homes' = homes \cup {c} /\ Goto(c, "open")
        /\ UNCHANGED <<lease, creds, faults>>
     \/ /\ call[c].mode = "recover" /\ ~(Sound /\ Unstarted(c) /\ Owns(c) /\ guard = None)
        /\ End(c) /\ UNCHANGED faults
     \/ Fault("home") /\ End(c)
  /\ UNCHANGED <<job, tree, guard, boot, edited, sweep>>

-----------------------------------------------------------------------------
(* openProvider.                                                           *)

(* prepareWriteProvisionerIntent; prepareWriteProvisioningReissue, which   *)
(* archives the attempt whose effect is absent; and the reauthorization of *)
(* the caller's own claim, now for the private copy of the executable it   *)
(* really opened.  With the pin of setup there is no copy: the claim is    *)
(* this very plan already, and spawnProviderForOpen refuses a replay.      *)
CanPrepare(c) ==
  /\ Sound
  /\ CASE call[c].mode = "fresh" ->
            job.state = "planned" /\ job.rev = call[c].rev /\ job.intent = "none" /\ guard = None
       [] call[c].mode = "reissue" ->
            /\ Unanswered /\ job.rev = call[c].rev /\ job.prior < MaxPrior
            /\ Proven(job.proc) /\ Absent
       [] call[c].mode = "recover" ->
            /\ Unstarted(c) /\ job.state = "reissue_planned" /\ Owns(c) /\ guard = None
            /\ ~job.pinned

Prepare(c) ==
  CASE call[c].mode = "fresh" -> [job EXCEPT !.intent = "pending", !.holder = c]
    [] call[c].mode = "reissue" ->
         [job EXCEPT !.state = "reissue_planned", !.rev = @ + 1, !.intent = "pending",
                     !.holder = c, !.proc = None, !.proof = FALSE, !.prior = @ + 1]
    [] call[c].mode = "recover" -> [job EXCEPT !.rev = @ + 1]

Open(c) ==
  /\ call[c].pc = "open"
  /\ IF CanPrepare(c)
       THEN job' = Prepare(c) /\ GotoRev(c, "spawn") /\ UNCHANGED <<lease, homes, creds>>
       ELSE End(c) /\ UNCHANGED job
  /\ UNCHANGED <<tree, guard, boot, edited, sweep, faults>>

Spawn(c) ==
  /\ call[c].pc = "spawn"
  /\ \/ boot' = [boot EXCEPT ![c] = "blocked"] /\ Goto(c, "activate")
     \/ UNCHANGED boot /\ Goto(c, "unspawned")
  /\ UNCHANGED <<job, tree, guard, homes, creds, lease, edited, sweep, faults>>

(* activateWriteProvisioningAttempt.                                       *)
Activate(c) ==
  /\ call[c].pc = "activate"
  /\ IF Sound /\ Owns(c) /\ Unstarted(c) /\ guard = None /\ Alive(c)
       THEN /\ job' = [job EXCEPT !.state = "provisioning", !.rev = @ + 1,
                                  !.proc = c, !.open = TRUE]
            /\ GotoRev(c, "stage")
       ELSE UNCHANGED job /\ Goto(c, "abort")
  /\ UNCHANGED world

(* The credential is staged and the orders are published, in this order    *)
(* and only now: the process they are for is on record.                    *)
Stage(c) ==
  /\ call[c].pc = "stage"
  /\ \/ /\ creds' = creds \cup {c}
        /\ boot' = [boot EXCEPT ![c] = IF Alive(c) THEN "told" ELSE @]
        /\ Goto(c, "await")
     \/ UNCHANGED <<creds, boot>> /\ Goto(c, "abort")
  /\ UNCHANGED <<job, tree, guard, homes, lease, edited, sweep, faults>>

(* registerWorktreeProvisioningGuard, a transaction of the bootstrap, which*)
(* writes the guard and then the intent.                                   *)
MayRegister(c) ==
  /\ job.status \in {"queued", "cancelling", "blocked"} /\ ~job.dispatch
  /\ job.state = "provisioning" /\ job.proc = c /\ job.holder = c
  /\ job.intent \in {"pending", "registered"} /\ guard \in {None, c}

BootRegisters(c) ==
  /\ boot[c] = "told"
  /\ IF MayRegister(c)
       THEN /\ guard' = c
            /\ \/ /\ job' = [job EXCEPT !.intent = "registered"]
                  /\ boot' = [boot EXCEPT ![c] = "guarded"]
                  /\ UNCHANGED faults
               \/ /\ Fault("halfGuard")
                  /\ boot' = [boot EXCEPT ![c] = "gone"] /\ UNCHANGED job
       ELSE boot' = [boot EXCEPT ![c] = "gone"] /\ UNCHANGED <<job, guard, faults>>
  /\ UNCHANGED <<tree, homes, creds, lease, call, edited, sweep>>

(* authenticateProviderGuard, publishAndPromoteProvider.                   *)
Promote(c) ==
  /\ call[c].pc = "await"
  /\ \/ /\ boot[c] = "guarded" /\ guard = c
        /\ boot' = [boot EXCEPT ![c] = "serving"] /\ Goto(c, "init")
     \/ UNCHANGED boot /\ Goto(c, "undo")
  /\ UNCHANGED <<job, tree, guard, homes, creds, lease, edited, sweep, faults>>

(* initializeProviderClient: the credential is revoked once Grok answered. *)
Initialize(c) ==
  /\ call[c].pc = "init"
  /\ \/ Alive(c) /\ creds' = creds \ {c} /\ Goto(c, "check")
     \/ UNCHANGED creds /\ Goto(c, "undoReady")
  /\ UNCHANGED <<job, tree, guard, boot, homes, lease, edited, sweep, faults>>

-----------------------------------------------------------------------------
(* The official creation.                                                  *)

(* assertRegisteredController, what is left of the lease, and for a reissue*)
(* the absence of the effect, a third time.                                *)
Create(c) ==
  /\ call[c].pc = "check"
  /\ IF /\ Sound /\ Registered(c) /\ Owns(c) /\ job.proc = c /\ job.open
        /\ call[c].mode # "fresh" => Absent
       THEN /\ boot' = [boot EXCEPT ![c] = IF Alive(c) THEN "creating" ELSE @]
            /\ Goto(c, "create")
       ELSE UNCHANGED boot /\ Goto(c, "fail")
  /\ UNCHANGED <<job, tree, guard, homes, creds, lease, edited, sweep, faults>>

(* Grok makes the directory and registers it with Git.                     *)
TreeGrows(c) ==
  /\ boot[c] = "creating" /\ tree # "clean"
  /\ tree' \in {"partial", "clean"} /\ tree' # tree
  /\ UNCHANGED <<job, guard, boot, homes, creds, lease, call, edited, sweep, faults>>

(* It answers, or the call fails or runs out of time, whatever was made.   *)
Answered(c) ==
  /\ call[c].pc = "create"
  /\ \/ /\ boot[c] = "creating" /\ Exact
        /\ boot' = [boot EXCEPT ![c] = "serving"] /\ Goto(c, "receipt")
     \/ UNCHANGED boot /\ Goto(c, "fail")
  /\ UNCHANGED <<job, tree, guard, homes, creds, lease, edited, sweep, faults>>

(* recordOfficialWorktreeReceipt.                                          *)
Receive(c) ==
  /\ call[c].pc = "receipt"
  /\ IF Sound /\ Owns(c) /\ Registered(c) /\ job.open /\ Exact
       THEN job' = [job EXCEPT !.receipt = TRUE] /\ Goto(c, "close")
       ELSE UNCHANGED job /\ Goto(c, "fail")
  /\ UNCHANGED world

(* The session is closed, and the controller with its guard and home.      *)
Close(c) ==
  /\ call[c].pc = "close"
  /\ \/ /\ boot' = [boot EXCEPT ![c] = "gone"]
        /\ guard' = IF guard = c THEN None ELSE guard
        /\ homes' = homes \ {c} /\ creds' = creds \ {c}
        /\ Goto(c, "promote")
     \/ UNCHANGED <<boot, guard, homes, creds>> /\ Goto(c, "fail")
  /\ UNCHANGED <<job, tree, lease, edited, sweep, faults>>

(* promoteWriteWorkerReady.                                                *)
CanPromote(c) ==
  /\ Sound /\ Owns(c) /\ Registered(c) /\ job.receipt /\ job.open
  /\ Proven(c) /\ Exact

PromoteReady(c) ==
  /\ call[c].pc = "promote"
  /\ IF CanPromote(c)
       THEN /\ job' = [job EXCEPT !.state = "ready", !.rev = @ + 1, !.intent = "settled",
                                  !.proof = TRUE]
            /\ End(c)
       ELSE UNCHANGED <<job, lease, homes, creds>> /\ Goto(c, "retain")
  /\ UNCHANGED <<tree, guard, boot, edited, sweep, faults>>

-----------------------------------------------------------------------------
(* Failures.                                                               *)

(* recordWriteProvisionerNoChild.                                          *)
FailedJob == [job EXCEPT !.status = "failed", !.state = "failed", !.rev = @ + 1,
                         !.intent = "no-child"]

NoChild(c) ==
  /\ Sound /\ Owns(c)
  /\ \/ Unstarted(c) /\ ~Alive(c) /\ guard = None
     \/ /\ job.state = "provisioning" /\ job.rev = call[c].rev
        /\ job.intent = "pending" /\ job.proc = c /\ Proven(c)

(* retainWriteProvisioningCleanupPending: what the controller did before it*)
(* was killed is not known.                                                *)
(* Mutant: only an attempt that is still on its lease is retained.         *)
CanRetainOpen(c) ==
  Sound /\ Owns(c) /\ Registered(c) /\ job.proc = c /\ Proven(c) /\ job.open

CanRetain(c) == Sound /\ Owns(c) /\ Registered(c) /\ job.proc = c /\ Proven(c)

(* Mutant: a controller that is gone has done nothing.                     *)
FailedWhenGone(c) ==
  job' = IF Sound /\ Owns(c) /\ job.rev = call[c].rev /\ Proven(c) THEN FailedJob ELSE job

(* The record of a failure: exactly one of these, or, when the job does not*)
(* allow it, none.                                                         *)
Settled(c) ==
  job' = IF CanRetain(c) THEN [job EXCEPT !.state = "cleanup_pending", !.rev = @ + 1,
                                          !.proof = TRUE]
         ELSE IF NoChild(c) THEN FailedJob
         ELSE job

(* The bootstrap could not be spawned.                                     *)
Unspawned(c) ==
  /\ call[c].pc = "unspawned"
  /\ job' = IF NoChild(c) THEN FailedJob ELSE job
  /\ End(c)
  /\ UNCHANGED <<tree, guard, boot, edited, sweep, faults>>

(* cleanupBoundBootstrapStart and cleanupProvisioningProvider: kill, remove*)
(* the guard, which a caller that never saw it authenticates first.  A     *)
(* process that will not die keeps the lease and its home.                 *)
KnowsGuard(c) == call[c].pc # "undo" \/ job.status \in {"queued", "cancelling", "blocked"}

CleanUp(c) ==
  /\ call[c].pc \in {"abort", "undo", "undoReady", "fail"}
  /\ \/ /\ boot' = [boot EXCEPT ![c] = "gone"]
        /\ guard' = IF guard = c /\ KnowsGuard(c) THEN None ELSE guard
        /\ Goto(c, "retain")
        /\ UNCHANGED <<creds, faults>>
     \/ /\ Alive(c) /\ Fault("unkillable")
        /\ creds' = creds \ {c}
        /\ Goto(c, "kept")
        /\ UNCHANGED <<boot, guard>>
  /\ UNCHANGED <<job, tree, homes, lease, edited, sweep>>

Record(c) ==
  /\ call[c].pc = "retain"
  /\ Settled(c) /\ End(c)
  /\ UNCHANGED <<tree, guard, boot, edited, sweep, faults>>

-----------------------------------------------------------------------------
(* authorizeReadyWriteWorkerDispatch; WorkerDispatch goes on from here.    *)
Authorize ==
  /\ Sound /\ job.state = "ready" /\ Exact
  /\ job' = [job EXCEPT !.dispatch = TRUE]
  /\ UNCHANGED <<call, world>>

-----------------------------------------------------------------------------
(* Everybody else.                                                         *)

(* A host dies, with its lease; what it spawned reads the end of its pipes.*)
Die(c) ==
  /\ ~Dead(c) /\ (call[c].pc # "idle" \/ lease = c) /\ Fault("die")
  /\ Goto(c, "dead")
  /\ lease' = Released(c)
  /\ UNCHANGED <<job, tree, guard, boot, homes, creds, edited, sweep>>

BootEnds(c) ==
  /\ Alive(c)
  /\ \/ Dead(c) /\ UNCHANGED faults
     \/ ~Dead(c) /\ Fault("bootDies")
  /\ boot' = [boot EXCEPT ![c] = "gone"]
  /\ UNCHANGED <<job, tree, guard, homes, creds, lease, call, edited, sweep>>

(* The lease of the attempt (leaseExpiresAt) runs out.                     *)
Expire ==
  /\ job.state = "provisioning" /\ job.open /\ Fault("expire")
  /\ job' = [job EXCEPT !.open = FALSE]
  /\ UNCHANGED <<tree, guard, boot, homes, creds, lease, call, edited, sweep>>

(* The user changes the parent checkout, and may change it back.           *)
Edit ==
  /\ \/ edited = "now" /\ edited' = "before" /\ UNCHANGED faults
     \/ edited # "now" /\ edited' = "now" /\ Fault("edit")
  /\ UNCHANGED <<job, tree, guard, boot, homes, creds, lease, call, sweep>>

(* cancelWorker before there is a dispatch.                                *)
Cancel ==
  /\ job.status = "queued" /\ ~job.dispatch /\ Fault("cancel")
  /\ job' = [job EXCEPT !.status = "cancelling"]
  /\ UNCHANGED <<tree, guard, boot, homes, creds, lease, call, edited, sweep>>

(* recoverNonterminalJobs of the command line: it takes a queued job that  *)
(* has no dispatch and no worker for one that was lost.  It reads the guard*)
(* kills what it names, removes the guard and ends the job.                *)
Sweepable == job.status \in {"queued", "cancelling", "blocked"} /\ ~job.dispatch

SweepReads ==
  /\ sweep.pc = "idle" /\ Sweepable /\ Fault("sweep")
  /\ sweep' = [pc |-> "kill", target |-> guard]
  /\ UNCHANGED <<job, tree, guard, boot, homes, creds, lease, call, edited>>

SweepKills ==
  /\ sweep.pc = "kill"
  /\ \/ /\ boot' = IF Alive(sweep.target) THEN [boot EXCEPT ![sweep.target] = "gone"] ELSE boot
        /\ sweep' = [sweep EXCEPT !.pc = "unguard"]
     \/ /\ Alive(sweep.target)
        /\ sweep' = [sweep EXCEPT !.pc = "block"] /\ UNCHANGED boot
  /\ UNCHANGED <<job, tree, guard, homes, creds, lease, call, edited, faults>>

(* includeGuardCleanup removes whatever guard there is by now.             *)
SweepUnguards ==
  /\ sweep.pc = "unguard"
  /\ guard' = None
  /\ sweep' = [sweep EXCEPT !.pc = "end"]
  /\ UNCHANGED <<job, tree, boot, homes, creds, lease, call, edited, faults>>

SweepEnds ==
  /\ sweep.pc \in {"end", "block"}
  /\ job' = IF Sweepable
              THEN [job EXCEPT !.status = IF sweep.pc = "end" THEN "lost" ELSE "blocked"]
              ELSE job
  /\ sweep' = [pc |-> "idle", target |-> None]
  /\ UNCHANGED <<tree, guard, boot, homes, creds, lease, call, edited, faults>>

Sweep == SweepReads \/ SweepKills \/ SweepUnguards \/ SweepEnds

Calls(c) ==
  \/ Begin(c) \/ Classify(c) \/ Adopt(c) \/ TakeLease(c) \/ Claim(c) \/ MakeHome(c)
  \/ Open(c) \/ Spawn(c) \/ Activate(c) \/ Stage(c) \/ Promote(c) \/ Initialize(c)
  \/ Create(c) \/ Answered(c) \/ Receive(c) \/ Close(c) \/ PromoteReady(c)
  \/ Unspawned(c) \/ CleanUp(c) \/ Record(c)

Controllers(c) == BootRegisters(c) \/ TreeGrows(c) \/ BootEnds(c)

Others == Authorize \/ Expire \/ Edit \/ Cancel \/ Sweep

Next == (\E c \in Slots : Calls(c) \/ Controllers(c) \/ Die(c)) \/ Others

(* Brokers go on driving the worker; a started call has time limits on all *)
(* its waits; a controller whose host is gone ends.                        *)
Fairness ==
  /\ \A c \in Slots : WF_vars(Calls(c)) /\ WF_vars(BootRegisters(c))
                      /\ WF_vars(Dead(c) /\ BootEnds(c))
  /\ WF_vars(Authorize)

Spec == Init /\ [][Next]_vars /\ Fairness

-----------------------------------------------------------------------------
(* Properties.                                                             *)

Effective(c) == boot[c] \in {"guarded", "serving", "creating"}

(* A ready worktree is exact, and nothing that could change it or read a   *)
(* credential is left: no controller of any attempt, no guard, no home with*)
(* a secret.                                                               *)
ReadyIsEarned ==
  job.state = "ready" =>
    tree = "clean" /\ guard = None /\ creds = {} /\ \A c \in Slots : ~Effective(c)

(* A provisioning that is reported as failed made nothing and will make    *)
(* nothing, though it was asked for by a process the reporter had to kill. *)
FailedLeavesNothing ==
  job.state = "failed" =>
    tree = "absent" /\ creds = {} /\ \A c \in Slots : ~Effective(c)

(* Grok is asked to create the worktree only while there is none, and no   *)
(* controller of another call is there to make one.                        *)
CreateFindsNothing ==
  [][\A c \in Slots : boot'[c] = "creating" /\ boot[c] # "creating" =>
       tree = "absent" /\ \A d \in Slots \ {c} : ~Effective(d)]_vars

(* Where brokers leave a worker for ever: it was cancelled or swept before *)
(* its dispatch; the checkout was edited; the holder died, or kept a       *)
(* controller it could not kill, before the effect was on record; the      *)
(* effect on record can neither be adopted nor asked for again; a call has *)
(* taken over a reissue of a pinned executable, which every other call will*)
(* plan as it is planned already; or a controller or a credential of an    *)
(* ended call is in every other call's way.                                *)
Gone(c) == c # None /\ call[c].pc \in {"dead", "kept"}

Stuck ==
  \/ job.status \in {"cancelling", "blocked", "lost"}
  \/ edited # "never"
  \/ job.state \in {"planned", "provisioning"} /\ Gone(job.holder)
  \/ job.state = "cleanup_pending" /\ (job.receipt \/ tree = "partial")
  \/ job.state = "cleanup_pending" /\ Absent /\ job.prior = MaxPrior
  \/ job.state = "reissue_planned" /\ job.pinned /\ call[job.holder].mode = "recover"
  \/ \E c \in Slots : call[c].pc = "kept" \/ (Dead(c) /\ c \in creds)

(* Driven on, a worker is dispatched, or fails, or is in one of the states *)
(* nobody moves.                                                           *)
ProvisioningSettles == <>[](job.dispatch \/ job.state = "failed" \/ Stuck)
=============================================================================
