--------------------------- MODULE DispatchRecord ---------------------------
(***************************************************************************)
(* The durable record of one brokered worker (dispatch-v2) and the         *)
(* transactions that write it, plugins/grok/scripts/lib/worker-mutation-*, *)
(* worker-runtime.mjs and companion-task-*.mjs.  Each transaction runs     *)
(* under the workspace lock (module StateLock), so it is one step: Can... is*)
(* what it asserts of the record it reads, the operator of the same name   *)
(* the record it writes.  A transaction that is not allowed throws and     *)
(* writes nothing.                                                         *)
(*                                                                         *)
(* An attempt is its fence: attemptId is drawn afresh whenever the fence   *)
(* is incremented.  A process identity (pid, start token, nonce, attempt)  *)
(* is the attempt it belongs to, since an attempt creates at most one      *)
(* controller and one worker; whether the start token was read is kept.    *)
(* The one provider generation of an attempt before the report repair is   *)
(* modelled: provider rotation (generation 2) is not.                      *)
(***************************************************************************)
EXTENDS Naturals

CONSTANT MaxAttempts   \* bound: claims of the job

ASSUME AttemptsAssumption == MaxAttempts \in Nat \ {0}

Attempts == 1..MaxAttempts

States == {"pending", "claimed", "controller-started", "worker-started",
           "provider-started", "failed"}
Statuses == {"active", "completed", "stopped"}
Intents == {"none", "pending", "registered", "no-child"}
Witnesses == {"none", "signal", "observe"}   \* an identity with, without start token
Sources == {"none", "controller-cleanup", "unsettled-worker", "provider-generation"}

Record == [
  status : Statuses,           \* queued, running: "active"; failed, cancelled: "stopped"
  state : States,              \* request.spawn.dispatch.state
  fence : 0..MaxAttempts,      \* dispatch.fence, hence attemptId
  leased : BOOLEAN,            \* the lease has not expired
  auth : 0..MaxAttempts,       \* the attempt workerAuthorization is bound to
  authorized : BOOLEAN,        \* workerAuthorization is there
  consumed : BOOLEAN,          \* consumedLaunchContractDigest
  ctl : 0..MaxAttempts,        \* controllerProcess
  wrk : 0..MaxAttempts,        \* workerProcess
  prv : Witnesses \cup {"unbound"}, \* providerProcess
  gen : {0, 1},                \* dispatch.providerGeneration
  ci : Intents,                \* controllerSpawnIntent
  wi : Intents,                \* workerSpawnIntent
  pi : Intents,                \* providerSpawnIntent
  notLaunched : BOOLEAN,       \* providerLaunchOutcome is "not-launched"
  ccp : Witnesses \cup {"nobody"}, \* controllerCleanupPending and its process, if any
  uw : Witnesses,              \* unsettledWorkerProcess
  up : BOOLEAN,                \* dispatch.providerLaunchUnsettledAt
  cf : Sources,                \* cleanupFence.source
  cfState : States,            \* cleanupFence.dispatchState
  pend : {"none", "completed", "stopped"}, \* pendingTerminal.status
  blocked : BOOLEAN]           \* phase is "cleanup-blocked"

(* createDispatchOutbox: what spawnWorker commits before anything runs.    *)
Committed == [
  status |-> "active", state |-> "pending", fence |-> 0, leased |-> FALSE,
  auth |-> 0, authorized |-> TRUE, consumed |-> FALSE, ctl |-> 0, wrk |-> 0,
  prv |-> "none", gen |-> 0, ci |-> "none", wi |-> "none", pi |-> "none",
  notLaunched |-> FALSE, ccp |-> "none", uw |-> "none", up |-> FALSE,
  cf |-> "none", cfState |-> "pending", pend |-> "none", blocked |-> FALSE]

Terminal(j) == j.status # "active"

-----------------------------------------------------------------------------
(* assertDispatchContract.                                                 *)

(* assertRecoveryCleanupFenceContract.                                     *)
CleanupWitness(j, source) ==
  CASE source = "controller-cleanup"  -> IF j.ccp = "nobody" THEN "none" ELSE j.ccp
    [] source = "unsettled-worker"    -> j.uw
    [] source = "provider-generation" -> IF j.prv = "unbound" THEN "signal" ELSE j.prv
    [] OTHER -> "none"

FenceContract(j) ==
  j.cf # "none" => /\ CleanupWitness(j, j.cf) # "none"
                   /\ j.cfState = j.state

(* assertDispatchV2: authorization or a record of its consumption.         *)
AuthorityContract(j) ==
  IF j.authorized
    THEN j.auth = j.fence /\ ~j.consumed
    ELSE /\ j.state \notin {"pending", "claimed", "controller-started"}
         /\ j.state # "failed" => j.consumed

WithController == {"controller-started", "worker-started", "provider-started"}
WithWorker == {"worker-started", "provider-started"}

(* assertBoundDispatchProcess for the three processes.                     *)
ProcessContract(j) ==
  /\ j.ctl \in {0, j.fence} /\ j.wrk \in {0, j.fence}
  /\ j.state \in WithController => j.ctl # 0
  /\ j.state \in WithWorker => j.wrk # 0
  /\ j.state \in {"pending", "claimed"} => j.ctl = 0 /\ j.wrk = 0 /\ j.prv = "none"
  /\ j.state = "controller-started" => j.wrk = 0 /\ j.prv = "none"
  /\ LET unsettled == j.up /\ j.state \in {"worker-started", "failed"}
     IN /\ j.state = "provider-started" \/ unsettled => j.prv # "none"
        /\ j.prv # "none" =>
             /\ j.prv = "signal" \/ (unsettled /\ j.prv = "observe")
             /\ j.state # "worker-started" => j.gen = 1
  /\ j.wrk # 0 => j.ctl # 0
  /\ j.prv # "none" => j.ctl # 0 /\ j.wrk # 0

IntentContract(j) ==
  /\ j.pi # "none" => j.gen = (IF j.state = "provider-started" THEN 1 ELSE 0)
  /\ j.state \in WithController => j.ci = "registered"
  /\ j.state \in WithWorker => j.wi = "registered"
  /\ j.state = "pending" => j.ci = "none" /\ j.wi = "none"
  /\ j.state = "claimed" => j.ci # "registered" /\ j.wi = "none"
  /\ j.state = "controller-started" => j.wi # "registered"
  /\ j.state = "provider-started" /\ j.pi # "none" => j.pi = "registered"

WitnessContract(j) ==
  /\ j.uw # "none" =>
       /\ j.state = "controller-started" /\ j.wrk = 0
       /\ j.wi \in {"pending", "no-child"}
  /\ CleanupWitness(j, "controller-cleanup") # "none" =>
       j.state \in {"claimed", "controller-started", "failed"} /\ j.ci # "none"

Contract(j) ==
  /\ FenceContract(j) /\ AuthorityContract(j)
  /\ ProcessContract(j) /\ IntentContract(j) /\ WitnessContract(j)

Unfenced(j) == j.cf = "none"

-----------------------------------------------------------------------------
(* Mutant: only a pending job is claimed, whatever became of its launcher. *)
CanClaimOnce(j, cancelled) ==
  /\ j.fence < MaxAttempts /\ j.state = "pending"
  /\ Contract(j) /\ ~Terminal(j) /\ ~cancelled

(* claimWorkerDispatch: a pending job, or a claim whose lease expired      *)
(* before its launcher prepared a spawn.                                   *)
CanClaim(j, cancelled) ==
  /\ j.fence < MaxAttempts
  /\ \/ j.state = "pending"
     \/ /\ j.state = "claimed" /\ ~j.leased
        /\ j.ci = "none" /\ j.ctl = 0 /\ j.wrk = 0 /\ j.prv = "none"
  /\ Contract(j) /\ ~Terminal(j) /\ ~cancelled

Claim(j) ==
  [j EXCEPT !.state = "claimed", !.fence = @ + 1, !.auth = j.fence + 1, !.leased = TRUE]

(* The transactions of attempt a address a live job that is still at a.    *)
Current(j, a) == ~Terminal(j) /\ j.fence = a

(* assertTransitionNotCleanupClaimed.                                      *)
NotCleanupClaimed(j, state) ==
  /\ Unfenced(j) /\ j.ccp = "none"
  /\ state # "controller-started" => j.uw = "none"
  /\ state \in {"provider-started", "failed"} => ~j.up /\ j.prv # "observe"

(* Mutant: the worker's spawn intent is not on record when it is spawned.  *)
PrepareNothing(j) == j

(* prepareDispatchProcessSpawn for the controller and for the worker.      *)
CanPrepareController(j, a) ==
  /\ Current(j, a) /\ Contract(j) /\ Unfenced(j)
  /\ j.state = "claimed" /\ j.ci = "none"

CanPrepareWorker(j, a) ==
  /\ Current(j, a) /\ Contract(j) /\ Unfenced(j)
  /\ j.state = "controller-started" /\ j.wi = "none"

PrepareController(j) == [j EXCEPT !.ci = "pending"]
PrepareWorker(j) == [j EXCEPT !.wi = "pending"]

(* recordDispatchProcessNoChild for the controller and for the worker.     *)
CanControllerNoChild(j, a) ==
  /\ Current(j, a) /\ Contract(j) /\ Unfenced(j)
  /\ j.state = "claimed" /\ j.ci = "pending"

ControllerNoChild(j) == [j EXCEPT !.ci = "no-child", !.notLaunched = TRUE]

CanWorkerNoChild(j, a) ==
  /\ Current(j, a) /\ Contract(j) /\ Unfenced(j)
  /\ j.state = "controller-started" /\ j.wi = "pending"

WorkerNoChild(j) == [j EXCEPT !.wi = "no-child", !.notLaunched = TRUE]

(* transitionWorkerDispatch to controller-started and worker-started.  The *)
(* controller calls it for itself, and its launcher for it; likewise the   *)
(* worker and its controller.  The second call finds the same identity and *)
(* returns the record unchanged, wherever the first has led by then.       *)
Advances(j, state) ==
  /\ Contract(j) /\ NotCleanupClaimed(j, state)
  /\ IF state = "controller-started" THEN j.ci \in {"pending", "registered"}
                                     ELSE j.wi \in {"pending", "registered"}

CanControllerStarted(j, a) ==
  Current(j, a) /\ Advances(j, "controller-started") /\ j.state \in {"claimed"} \cup WithController

CanWorkerStarted(j, a) ==
  Current(j, a) /\ Advances(j, "worker-started") /\ j.state \in WithController

ControllerStarted(j, a) ==
  IF j.state # "claimed" THEN j
  ELSE [j EXCEPT !.state = "controller-started", !.ci = "registered", !.ctl = a,
                 !.leased = FALSE]

WorkerStarted(j, a) ==
  IF j.state # "controller-started" THEN j
  ELSE [j EXCEPT !.state = "worker-started", !.wi = "registered", !.wrk = a]

(* transitionWorkerDispatch to provider-started with the identity the      *)
(* provider's guard holds.                                                 *)
CanProviderStarted(j, a) ==
  /\ Current(j, a) /\ Contract(j) /\ NotCleanupClaimed(j, "provider-started")
  /\ j.pi \in {"pending", "registered"} /\ j.state = "worker-started"

ProviderStarted(j) ==
  [j EXCEPT !.state = "provider-started", !.pi = "registered", !.prv = "signal",
            !.gen = 1, !.notLaunched = FALSE]

(* transitionWorkerDispatch to failed: only the structure of the dispatch  *)
(* is asserted, not its contract, and the job ends with it.                *)
CanFail(j, a) ==
  /\ Current(j, a) /\ NotCleanupClaimed(j, "failed")
  /\ j.state \in {"claimed", "controller-started", "worker-started"}

Fail(j) ==
  [j EXCEPT !.state = "failed", !.status = "stopped", !.leased = FALSE,
            !.authorized = FALSE, !.notLaunched = TRUE]

-----------------------------------------------------------------------------
(* The worker's transactions.                                              *)

(* prepareExecution consumes the launch authorization.                     *)
CanConsume(j, a) ==
  Current(j, a) /\ Contract(j) /\ j.state = "worker-started" /\ j.authorized

Consume(j) == [j EXCEPT !.consumed = TRUE, !.authorized = FALSE, !.blocked = FALSE]

(* prepareWorkerProviderSpawn; recordWorkerProviderSpawnNoChild with g the *)
(* guard file's attempt and gone that its process group is gone.           *)
CanPrepareProvider(j, a, g) ==
  /\ Current(j, a) /\ Contract(j) /\ Unfenced(j)
  /\ j.state = "worker-started" /\ g = 0 /\ j.pi = "none"

PrepareProvider(j) == [j EXCEPT !.pi = "pending", !.notLaunched = FALSE]

CanProviderNoChild(j, a, g, gone) ==
  /\ Current(j, a) /\ Contract(j) /\ Unfenced(j) /\ j.state = "worker-started"
  /\ IF g # 0 THEN j.pi \in {"pending", "registered"} /\ gone ELSE j.pi = "pending"

ProviderNoChild(j) == [j EXCEPT !.pi = "no-child", !.notLaunched = TRUE]

(* registerProviderGuard, called by the provider's bootstrap: the contract *)
(* is not asserted, nor that the job is still live.                        *)
CanRegisterGuard(j, a, g) ==
  /\ j.fence = a /\ Unfenced(j) /\ g \in {0, a}
  /\ (IF j.state = "worker-started" THEN j.gen + 1 ELSE j.gen) = 1
  /\ j.state # "provider-started"      \* there a rotation intent is required
  /\ j.pi \in {"pending", "registered"}

RegisterGuard(j) == [j EXCEPT !.pi = "registered"]

(* recordUnsettledProviderProcess before the first provider is recorded.   *)
CanUnsettleProvider(j, a) ==
  /\ Current(j, a) /\ j.state = "worker-started" /\ j.prv = "none"
  /\ Contract(j) /\ Unfenced(j)

UnsettleProvider(j) ==
  [j EXCEPT !.prv = "observe", !.up = TRUE, !.notLaunched = FALSE, !.blocked = FALSE]

(* recordUnsettledWorkerProcess.                                           *)
CanUnsettleWorker(j, a) ==
  /\ Current(j, a) /\ j.state = "controller-started" /\ j.wrk = 0
  /\ Contract(j) /\ Unfenced(j)

UnsettleWorker(j, witness) ==
  [j EXCEPT !.uw = witness, !.blocked = TRUE, !.notLaunched = FALSE]

(* recordExecutionFailure: an update of the job under its lock that        *)
(* asserts nothing; a provider identity with a start token that no         *)
(* transition accepted is stored as it is.                                 *)
RecordFailure(j, a, unbound) ==
  IF Terminal(j) THEN j
  ELSE [j EXCEPT !.blocked = FALSE,
                 !.prv = IF @ = "none" /\ unbound THEN "unbound" ELSE @,
                 !.pend = IF j.fence = a /\ j.state = "provider-started"
                            THEN "stopped" ELSE @]

(* settlePreProviderWorkerFinalization with the outcome clean of the       *)
(* runtime cleanup; the contract of the record it writes is not asserted.  *)
CanSettlePreProvider(j, a, clean, gone) ==
  /\ Current(j, a) /\ Contract(j) /\ Unfenced(j) /\ j.state = "worker-started"
  /\ clean /\ j.prv # "none" => gone

SettlePreProvider(j, clean, gone) ==
  [j EXCEPT !.state = "failed", !.authorized = FALSE,
            !.gen = IF j.prv # "none" THEN 1 ELSE @,
            !.notLaunched = (j.prv = "none" \/ gone),
            !.status = IF clean THEN "stopped" ELSE @,
            !.blocked = ~clean,
            !.pend = IF clean THEN @ ELSE "stopped"]

(* settleProviderStartedWorkerFinalization.                                *)
CanSettleProviderStarted(j, a, gone) ==
  /\ Current(j, a) /\ Contract(j) /\ Unfenced(j)
  /\ j.state = "provider-started" /\ j.pend # "none" /\ gone

SettleAsIntended(j) ==
  [j EXCEPT !.status = j.pend, !.pend = "none", !.authorized = FALSE]

-----------------------------------------------------------------------------
(* The launcher's failure settlement and the reconciler's transactions.    *)

(* prepareControllerFailureSettlement: has is that the launcher holds a    *)
(* complete identity of its controller.  killed is that the controller's   *)
(* process group is gone, clean that the runtime artifacts are gone too.   *)
(* A handle without a pid cannot be shown gone, and leaves no identity to  *)
(* store: the cleanup is then pending with the witness "nobody".           *)
FailureEligible(j, a, has) ==
  /\ Current(j, a) /\ j.wrk = 0 /\ j.prv = "none"
  /\ \/ j.state = "claimed" /\ j.ctl = 0
     \/ j.state = "controller-started" /\ has /\ j.ctl = a

PrepareFailure(j, killed, clean, witness) ==
  [j EXCEPT !.ci = IF killed /\ @ # "none" THEN "no-child" ELSE @,
            !.ccp = IF killed THEN "none" ELSE witness,
            !.notLaunched = killed /\ @,
            !.blocked = IF clean THEN @ ELSE TRUE,
            !.pend = IF clean THEN @ ELSE "stopped"]

(* acquireRecoveryCleanupFence and verifyRecoveryCleanupFence.             *)
CanFence(j, a, state, source) ==
  /\ Current(j, a) /\ Contract(j) /\ j.state = state
  /\ CleanupWitness(j, source) # "none" /\ j.cf \in {"none", source}

Fence(j, source) == [j EXCEPT !.cf = source, !.cfState = j.state]

HoldsFence(j, a, source) == Current(j, a) /\ Contract(j) /\ j.cf = source

(* settleUnstartedDispatchLoss.  The fence a reconciler holds is its       *)
(* source, "none" when it holds none; the record may carry no other.       *)
CanSettleUnstarted(j, a, state, held, ctlGone, wrkGone, prvGone) ==
  /\ Current(j, a) /\ Contract(j) /\ j.state = state /\ j.cf = held
  /\ j.prv # "none" => prvGone
  /\ CleanupWitness(j, "controller-cleanup") # "none" => ctlGone
  /\ CASE state = "claimed" -> \/ j.ci \in {"none", "no-child"}
                               \/ CleanupWitness(j, "controller-cleanup") # "none"
       [] state = "controller-started" ->
            /\ ctlGone /\ (j.uw # "none" => wrkGone)
            /\ j.wi \in {"none", "no-child"} \/ j.uw # "none"
       [] OTHER -> ctlGone /\ wrkGone

(* Mutant: a job that was lost before its provider is dispatched again.    *)
RetryUnstarted(j) == [Committed EXCEPT !.fence = j.fence, !.auth = j.fence]

SettleUnstarted(j) ==
  [j EXCEPT !.state = "failed", !.status = "stopped", !.authorized = FALSE,
            !.leased = FALSE, !.cf = "none", !.uw = "none", !.ccp = "none",
            !.pend = "none", !.notLaunched = TRUE,
            !.gen = IF j.prv \in {"signal", "observe"} THEN 1 ELSE @]

(* settleFailedDispatchCleanup and settleStartedWorkerLoss.                *)
CanSettleFailed(j, a, held, ctlGone, wrkGone, prvGone) ==
  /\ Current(j, a) /\ Contract(j) /\ j.state = "failed" /\ j.cf = held
  /\ j.blocked /\ j.pend # "none" /\ j.ctl # 0 /\ j.wrk # 0
  /\ ctlGone /\ wrkGone /\ (j.prv # "none" => prvGone)

CanSettleLost(j, a, held, ctlGone, wrkGone, prvGone) ==
  /\ Current(j, a) /\ Contract(j) /\ j.state = "provider-started" /\ j.cf = held
  /\ wrkGone /\ prvGone /\ (j.pend # "none" => ctlGone)

(* Mutant: a retry.                                                        *)
RetryLost(j) == [Committed EXCEPT !.fence = j.fence, !.auth = j.fence]

SettleLost(j) ==
  [j EXCEPT !.status = IF j.pend = "none" THEN "stopped" ELSE j.pend, !.pend = "none",
            !.authorized = FALSE, !.cf = "none"]

(* cancelWorker: a job no launcher has claimed ends at once under a fence  *)
(* of its own; any other only has its marker and its phase written.        *)
CancelEndsIt(j, g) == j.state = "pending" /\ Contract(j) /\ g = 0

Cancelled(j, g) ==
  IF CancelEndsIt(j, g)
    THEN [j EXCEPT !.state = "failed", !.status = "stopped", !.fence = 1,
                   !.authorized = FALSE, !.notLaunched = TRUE]
    ELSE [j EXCEPT !.blocked = FALSE]

=============================================================================
