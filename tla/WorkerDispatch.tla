--------------------------- MODULE WorkerDispatch ---------------------------
(***************************************************************************)
(* The processes that carry one brokered worker from its committed record  *)
(* to a terminal one: the launcher (a broker in launchCommittedWorker,     *)
(* worker-runtime.mjs), the controller and the worker it starts detached   *)
(* (companion-worker-launcher.mjs, companion-task-*.mjs), the provider     *)
(* bootstrap (provider-bootstrap.mjs), hosts that reconcile                *)
(* (worker-recovery.mjs) and senders of cancellations.  They share the     *)
(* record (module DispatchRecord), the provider guard file, the cancel     *)
(* marker and the runtime artifacts, and they kill one another.            *)
(*                                                                         *)
(* A step is one transaction, one spawn or one kill with what its process  *)
(* does before anything others can see.  Reads outside the lock (the       *)
(* reconciler's snapshot, the cancel marker) are steps of their own where  *)
(* a later step relies on them.  The startup grace of the reconciler and   *)
(* the polls of the processes may take any time.                           *)
(***************************************************************************)
EXTENDS DispatchRecord, FiniteSets

CONSTANTS Reconcilers,   \* hosts that run reconcileBrokerWorkers
          FaultKinds,    \* what may go wrong
          MaxFaults      \* bound: how often

AllFaults == {"launcher", "controller", "worker", "bootstrap", "host", \* the process dies
              "spawn", "capture", "kill",  \* a child cannot be created, identified, killed
              "cleanup", "slow"}           \* artifacts remain; a lease runs out
ASSUME DispatchAssumption == FaultKinds \subseteq AllFaults /\ MaxFaults \in Nat

(* A controller that outlives its worker recovers the job as a host would. *)
Watchdog == "watchdog"
Recoverers == Reconcilers \cup {Watchdog}

VARIABLES
  job,        \* the record
  guard,      \* the attempt whose provider the guard file names, 0: no file
  cancelled,  \* the nonce-bound cancel marker is there
  pc,         \* pc[x][a]: where process x of attempt a is
  rec,        \* rec[r]: where recoverer r is and what it has read
  wiped,      \* the runtime artifacts (home, credentials) have been deleted
  prompts,    \* how often a provider was promoted and given the prompt
  faults      \* faults so far

vars == <<job, guard, cancelled, pc, rec, wiped, prompts, faults>>

Places == [
  launcher |-> {"none", "claimed", "prepared", "spawned", "tokened", "failing",
              "failing-blind", "failing-pidless", "settling", "done"},
  ctl |-> {"none", "boot", "owned", "prepared", "spawned", "registering", "watching",
         "recovering", "gone"},
  wrk |-> {"none", "boot", "owned", "ready", "prepared", "spawned", "waiting", "running",
         "failing", "failing-unbound", "cleaning", "settling", "settling-blocked",
         "finalizing", "gone"},
  prv |-> {"none", "boot", "guarded", "running", "gone"}]

Idle == [at |-> "idle", op |-> "unstarted", source |-> "none", attempt |-> 0,
         state |-> "pending"]

Init ==
  /\ job = Committed /\ guard = 0 /\ cancelled = FALSE /\ wiped = FALSE
  /\ prompts = 0 /\ faults = 0
  /\ pc = [x \in DOMAIN Places |-> [a \in Attempts |-> "none"]]
  /\ rec = [r \in Recoverers |-> Idle]

Gone(x, a) == pc[x][a] \in {"none", "gone"}
At(x, a, place) == pc[x][a] = place
Goes(x, a, place) == pc' = [pc EXCEPT ![x][a] = place]

(* process x of attempt a is killed, process y goes on to place            *)
Kills(x, y, a, place) ==
  pc' = [pc EXCEPT ![x][a] = IF @ = "none" THEN @ ELSE "gone", ![y][a] = place]

Fault(kind) == kind \in FaultKinds /\ faults < MaxFaults /\ faults' = faults + 1
NoFault == UNCHANGED faults

Quiet == UNCHANGED <<guard, cancelled, rec, wiped, prompts>>
Writes(allowed, record) == job' = IF allowed THEN record ELSE job

-----------------------------------------------------------------------------
(* The launcher of attempt a.                                              *)

ClaimAttempt(a) ==
  /\ job.fence = a - 1 /\ CanClaim(job, cancelled)
  /\ job' = Claim(job) /\ Goes("launcher", a, "claimed")
  /\ Quiet /\ NoFault

LauncherPrepares(a) ==
  /\ At("launcher", a, "claimed")
  /\ LET ok == ~cancelled /\ CanPrepareController(job, a)
     IN /\ Writes(ok, PrepareController(job))
        /\ Goes("launcher", a, IF ok THEN "prepared" ELSE "failing-blind")
  /\ Quiet /\ NoFault

(* A spawn that fails throws, or returns a handle without a pid.           *)
LauncherSpawns(a) ==
  /\ At("launcher", a, "prepared")
  /\ \/ /\ pc' = [pc EXCEPT !.ctl[a] = "boot", !.launcher[a] = "spawned"]
        /\ UNCHANGED job /\ NoFault
     \/ /\ Writes(CanControllerNoChild(job, a), ControllerNoChild(job))
        /\ \/ Goes("launcher", a, "failing-blind")
           \/ Goes("launcher", a, "failing-pidless")
        /\ Fault("spawn")
  /\ Quiet

LauncherReadsToken(a) ==
  /\ At("launcher", a, "spawned")
  /\ \/ Goes("launcher", a, "tokened") /\ NoFault
     \/ Goes("launcher", a, "failing-blind") /\ Fault("capture")
  /\ UNCHANGED job /\ Quiet

LauncherPublishes(a) ==
  /\ At("launcher", a, "tokened")
  /\ LET ok == ~cancelled /\ CanControllerStarted(job, a)
     IN /\ Writes(ok, ControllerStarted(job, a))
        /\ Goes("launcher", a, IF ok /\ job'.state = "controller-started"
                                 THEN "done" ELSE "failing")
  /\ Quiet /\ NoFault

(* prepareControllerFailureSettlement: the kill, the deletion and the      *)
(* record are one transaction.  terminateControllerProcess takes no handle *)
(* without a pid for a dead process; the error event of such a handle      *)
(* comes later and writes the same again.                                  *)
LauncherCleansUp(a) ==
  /\ pc.launcher[a] \in {"failing", "failing-blind", "failing-pidless"}
  /\ LET has == At("launcher", a, "failing")
         pidless == At("launcher", a, "failing-pidless")
         alive == ~Gone("ctl", a)
     IN \/ /\ ~Current(job, a) /\ Kills("ctl", "launcher", a, "done")
           /\ UNCHANGED <<job, wiped>> /\ NoFault
        \/ /\ Current(job, a) /\ ~FailureEligible(job, a, has)
           /\ Goes("launcher", a, "done") /\ UNCHANGED <<job, wiped>> /\ NoFault
        \/ /\ FailureEligible(job, a, has)
           /\ \E killed \in BOOLEAN, deleted \in BOOLEAN :
                LET clean == killed /\ guard = 0 /\ deleted
                    witness == IF pidless THEN "nobody" ELSE IF has THEN "signal" ELSE "observe"
                IN /\ IF killed THEN ~pidless /\ (IF deleted THEN NoFault ELSE Fault("cleanup"))
                      ELSE ~deleted /\ (IF pidless THEN NoFault ELSE alive /\ Fault("kill"))
                   /\ IF killed THEN Kills("ctl", "launcher", a, IF clean THEN "settling" ELSE "done")
                                ELSE Goes("launcher", a, "done")
                   /\ job' = PrepareFailure(job, killed, clean, witness)
                   /\ wiped' = (wiped \/ clean)
  /\ UNCHANGED <<guard, cancelled, rec, prompts>>

LauncherFails(a) ==
  /\ At("launcher", a, "settling")
  /\ Writes(CanFail(job, a), Fail(job)) /\ Goes("launcher", a, "done")
  /\ Quiet /\ NoFault

Launcher(a) ==
  \/ LauncherPrepares(a) \/ LauncherSpawns(a) \/ LauncherReadsToken(a)
  \/ LauncherPublishes(a) \/ LauncherCleansUp(a) \/ LauncherFails(a)

-----------------------------------------------------------------------------
(* The controller of attempt a.                                            *)

(* authorizeBrokerLauncher: it registers itself, or finds that its         *)
(* launcher has done so.                                                   *)
ControllerRegisters(a) ==
  /\ At("ctl", a, "boot")
  /\ LET ok == /\ CanControllerStarted(job, a)
               /\ \/ job.state = "claimed" /\ job.ci = "pending" /\ job.authorized
                  \/ job.state = "controller-started" /\ job.ctl = a
     IN /\ Writes(ok, ControllerStarted(job, a))
        /\ Goes("ctl", a, IF ok THEN "owned" ELSE "gone")
  /\ Quiet /\ NoFault

ControllerPrepares(a) ==
  /\ At("ctl", a, "owned")
  /\ LET ok == ~cancelled /\ CanPrepareWorker(job, a)
     IN /\ Writes(ok, PrepareWorker(job))
        /\ Goes("ctl", a, IF ok THEN "prepared" ELSE "gone")
  /\ Quiet /\ NoFault

ControllerSpawns(a) ==
  /\ At("ctl", a, "prepared")
  /\ \/ /\ pc' = [pc EXCEPT !.wrk[a] = "boot", !.ctl[a] = "spawned"]
        /\ UNCHANGED job /\ NoFault
     \/ /\ Writes(CanWorkerNoChild(job, a), WorkerNoChild(job))
        /\ Goes("ctl", a, "gone") /\ Fault("spawn")
  /\ Quiet

(* The controller ends with its worker killed, which it records, or with a *)
(* witness of a worker it could not kill.                                  *)
WorkerKilled(a) ==
  Writes(CanWorkerNoChild(job, a), WorkerNoChild(job)) /\ Kills("wrk", "ctl", a, "gone")
WorkerUnsettled(a, witness) ==
  /\ ~Gone("wrk", a)
  /\ Writes(CanUnsettleWorker(job, a), UnsettleWorker(job, witness)) /\ Goes("ctl", a, "gone")

ControllerReadsIdentity(a) ==
  /\ At("ctl", a, "spawned")
  /\ \/ Goes("ctl", a, "registering") /\ UNCHANGED job /\ NoFault
     \/ (WorkerKilled(a) \/ WorkerUnsettled(a, "observe")) /\ Fault("capture")
  /\ Quiet

(* When the worker has registered itself and got as far as its provider,   *)
(* the controller takes the state for a foreign one and kills it.          *)
ControllerPublishes(a) ==
  /\ At("ctl", a, "registering")
  /\ LET ok == ~cancelled /\ CanWorkerStarted(job, a)
     IN \/ /\ ok /\ WorkerStarted(job, a).state = "worker-started"
           /\ job' = WorkerStarted(job, a) /\ Goes("ctl", a, "watching") /\ NoFault
        \/ /\ ok /\ WorkerStarted(job, a).state # "worker-started"
           /\ UNCHANGED job
           /\ \/ Kills("wrk", "ctl", a, "gone") /\ NoFault
              \/ Goes("ctl", a, "gone") /\ Fault("kill")
        \/ ~ok /\ WorkerKilled(a) /\ NoFault
        \/ ~ok /\ WorkerUnsettled(a, "signal") /\ Fault("kill")
  /\ Quiet

(* watchBrokerWorker's loop.                                               *)
ControllerWatches(a) ==
  /\ At("ctl", a, "watching")
  /\ LET over == job.fence # a \/ job.state = "failed" \/ Terminal(job)
     IN \/ /\ over \/ (Gone("wrk", a) /\ job.state # "provider-started")
           /\ Kills("wrk", "ctl", a, "gone") /\ UNCHANGED rec
        \/ /\ ~over /\ Gone("wrk", a) /\ job.state = "provider-started"
           /\ IF Contract(job) /\ job.pend = "none"
                THEN /\ rec' = [rec EXCEPT ![Watchdog] =
                           [at |-> "fence", op |-> "lost", source |-> "provider-generation",
                            attempt |-> a, state |-> job.state]]
                     /\ Goes("ctl", a, "recovering")
                ELSE Goes("ctl", a, "gone") /\ UNCHANGED rec
  /\ UNCHANGED <<job, guard, cancelled, wiped, prompts>> /\ NoFault

ControllerRecovered(a) ==
  /\ At("ctl", a, "recovering") /\ rec[Watchdog].at = "idle"
  /\ Goes("ctl", a, "gone")
  /\ UNCHANGED job /\ Quiet /\ NoFault

Controller(a) ==
  \/ ControllerRegisters(a) \/ ControllerPrepares(a) \/ ControllerSpawns(a)
  \/ ControllerReadsIdentity(a) \/ ControllerPublishes(a) \/ ControllerWatches(a)
  \/ ControllerRecovered(a)

-----------------------------------------------------------------------------
(* The worker of attempt a.                                                *)

WorkerRegisters(a) ==
  /\ At("wrk", a, "boot")
  /\ LET ok == /\ CanWorkerStarted(job, a)
               /\ \/ job.state = "controller-started" /\ job.wi = "pending" /\ job.authorized
                  \/ job.state = "worker-started" /\ job.wrk = a
     IN /\ Writes(ok, WorkerStarted(job, a))
        /\ Goes("wrk", a, IF ok THEN "owned" ELSE "gone")
  /\ Quiet /\ NoFault

WorkerConsumes(a) ==
  /\ At("wrk", a, "owned")
  /\ Writes(CanConsume(job, a), Consume(job))
  /\ Goes("wrk", a, IF CanConsume(job, a) THEN "ready" ELSE "gone")
  /\ Quiet /\ NoFault

WorkerPrepares(a) ==
  /\ At("wrk", a, "ready")
  /\ LET ok == ~cancelled /\ CanPrepareProvider(job, a, guard)
     IN /\ Writes(ok, PrepareProvider(job))
        /\ Goes("wrk", a, IF ok THEN "prepared" ELSE "failing")
  /\ Quiet /\ NoFault

(* recordWorkerProviderSpawnNoChild removes the guard of a dead provider.   *)
ProviderAbsent(a) ==
  LET absent == CanProviderNoChild(job, a, guard, TRUE)
  IN Writes(absent, ProviderNoChild(job)) /\ guard' = IF absent THEN 0 ELSE guard

WorkerSpawns(a) ==
  /\ At("wrk", a, "prepared")
  /\ \/ /\ pc' = [pc EXCEPT !.prv[a] = "boot", !.wrk[a] = "spawned"]
        /\ UNCHANGED <<job, guard>> /\ NoFault
     \/ ProviderAbsent(a) /\ Goes("wrk", a, "failing") /\ Fault("spawn")
  /\ UNCHANGED <<cancelled, rec, wiped, prompts>>

(* The bootstrap has its specification by now, so that one which cannot be *)
(* identified may register all the same.                                   *)
WorkerReadsIdentity(a) ==
  /\ At("wrk", a, "spawned")
  /\ \/ Goes("wrk", a, "waiting") /\ UNCHANGED <<job, guard>> /\ NoFault
     \/ ProviderAbsent(a) /\ Kills("prv", "wrk", a, "failing") /\ Fault("capture")
     \/ /\ ~Gone("prv", a) /\ Fault("capture") /\ Goes("wrk", a, "failing")
        /\ Writes(CanUnsettleProvider(job, a), UnsettleProvider(job)) /\ UNCHANGED guard
  /\ UNCHANGED <<cancelled, rec, wiped, prompts>>

(* The provider is promoted when it is ready, and prompted.                *)
WorkerPromotes(a) ==
  /\ At("wrk", a, "waiting") /\ At("prv", a, "running") /\ guard = a /\ ~cancelled
  /\ CanProviderStarted(job, a)
  /\ job' = ProviderStarted(job) /\ prompts' = prompts + 1
  /\ Goes("wrk", a, "running")
  /\ UNCHANGED <<guard, cancelled, rec, wiped>> /\ NoFault

(* cleanupBoundBootstrapStart kills the bootstrap and removes its guard;   *)
(* recordBoundBootstrapNoChild then finds an intent that is registered     *)
(* with no guard and throws, and the error carries the provider's identity.*)
WorkerAbandonsProvider(a) ==
  /\ At("wrk", a, "waiting")
  /\ cancelled \/ Gone("prv", a) \/ (At("prv", a, "running") /\ ~CanProviderStarted(job, a))
  /\ LET absent == CanProviderNoChild(job, a, 0, TRUE)
     IN \/ /\ Writes(absent, ProviderNoChild(job)) /\ guard' = 0 /\ NoFault
           /\ Kills("prv", "wrk", a, IF absent THEN "failing" ELSE "failing-unbound")
        \/ /\ ~Gone("prv", a) /\ Fault("kill") /\ Goes("wrk", a, "failing-unbound")
           /\ UNCHANGED <<job, guard>>
  /\ UNCHANGED <<cancelled, rec, wiped, prompts>>

(* persistExecutionResult or recordExecutionFailure, the provider having   *)
(* been shut down if it could be.                                          *)
WorkerEnds(a) ==
  /\ At("wrk", a, "running")
  /\ \E outcome \in {"completed", "stopped"} :
       /\ Writes(Current(job, a) /\ job.state = "provider-started",
                 [job EXCEPT !.pend = outcome, !.blocked = FALSE])
       /\ \/ Kills("prv", "wrk", a, "finalizing") /\ NoFault
          \/ /\ outcome = "stopped" /\ ~Gone("prv", a) /\ Fault("kill")
             /\ Goes("wrk", a, "finalizing")
  /\ Quiet

(* settleProviderStartedWorkerFinalization and its catch.                  *)
WorkerFinalizes(a) ==
  /\ At("wrk", a, "finalizing") /\ Goes("wrk", a, "gone")
  /\ LET ok == CanSettleProviderStarted(job, a, Gone("prv", a))
     IN \/ /\ ok /\ job' = SettleAsIntended(job) /\ wiped' = TRUE /\ guard' = 0 /\ NoFault
        \/ /\ IF ok THEN Fault("cleanup") ELSE NoFault
           /\ Writes(Current(job, a) /\ job.state = "provider-started" /\ job.pend # "none",
                     [job EXCEPT !.blocked = TRUE])
           /\ UNCHANGED <<wiped, guard>>
  /\ UNCHANGED <<cancelled, rec, prompts>>

WorkerRecordsFailure(a) ==
  /\ pc.wrk[a] \in {"failing", "failing-unbound"}
  /\ job' = RecordFailure(job, a, At("wrk", a, "failing-unbound"))
  /\ Goes("wrk", a, IF Current(job, a) /\ job.state = "worker-started"
                      THEN "cleaning" ELSE "finalizing")
  /\ Quiet /\ NoFault

(* finalizeExecution deletes the artifacts outside any transaction, gated  *)
(* on the group of the recorded or guarded provider, and settles after it. *)
(* resolveProviderCleanupTarget throws when the two differ: a guard holds  *)
(* a start token, the record of a provider that could not be identified    *)
(* holds none.                                                             *)
Conflict == job.prv = "observe" /\ guard # 0

(* Mutant: the artifacts are deleted whatever became of the provider.      *)
AnyProvider(a) == TRUE

ProviderSettled(a) == job.prv # "none" \/ guard # 0 => Gone("prv", a)

WorkerCleans(a) ==
  /\ At("wrk", a, "cleaning")
  /\ \/ /\ Conflict /\ Goes("wrk", a, "gone") /\ UNCHANGED <<wiped, guard>> /\ NoFault
     \/ /\ ~Conflict /\ ProviderSettled(a)
        /\ wiped' = TRUE /\ guard' = 0 /\ Goes("wrk", a, "settling") /\ NoFault
     \/ /\ ~Conflict /\ Goes("wrk", a, "settling-blocked") /\ UNCHANGED <<wiped, guard>>
        /\ IF ProviderSettled(a) THEN Fault("cleanup") ELSE NoFault
  /\ UNCHANGED <<job, cancelled, rec, prompts>>

WorkerSettles(a) ==
  /\ pc.wrk[a] \in {"settling", "settling-blocked"}
  /\ LET clean == At("wrk", a, "settling")
     IN Writes(CanSettlePreProvider(job, a, clean, Gone("prv", a)),
               SettlePreProvider(job, clean, Gone("prv", a)))
  /\ Goes("wrk", a, "gone")
  /\ Quiet /\ NoFault

Worker(a) ==
  \/ WorkerRegisters(a) \/ WorkerConsumes(a) \/ WorkerPrepares(a) \/ WorkerSpawns(a)
  \/ WorkerReadsIdentity(a) \/ WorkerPromotes(a) \/ WorkerAbandonsProvider(a)
  \/ WorkerEnds(a) \/ WorkerFinalizes(a) \/ WorkerRecordsFailure(a)
  \/ WorkerCleans(a) \/ WorkerSettles(a)

-----------------------------------------------------------------------------
(* The provider bootstrap of attempt a, with Grok as its child once it is  *)
(* running.                                                                *)

(* The guard is written before the intent: a bootstrap that dies between   *)
(* leaves a guard whose intent is pending.                                 *)
BootstrapRegisters(a) ==
  /\ At("prv", a, "boot")
  /\ LET ok == CanRegisterGuard(job, a, guard)
     IN \/ /\ Writes(ok, RegisterGuard(job))
           /\ guard' = IF ok THEN a ELSE guard
           /\ Goes("prv", a, IF ok THEN "guarded" ELSE "gone") /\ NoFault
        \/ /\ ok /\ guard' = a /\ UNCHANGED job
           /\ Goes("prv", a, "gone") /\ Fault("bootstrap")
  /\ UNCHANGED <<cancelled, rec, wiped, prompts>>

BootstrapReady(a) ==
  /\ At("prv", a, "guarded")
  /\ Goes("prv", a, "running")
  /\ UNCHANGED job /\ Quiet /\ NoFault

(* It exits on its own or because the pipe from its worker closed; only a  *)
(* promoted one removes its guard.                                         *)
BootstrapExits(a) ==
  /\ ~Gone("prv", a) /\ Goes("prv", a, "gone")
  /\ guard' \in IF job.state = "provider-started" THEN {0, guard} ELSE {guard}
  /\ UNCHANGED <<job, cancelled, rec, wiped, prompts>> /\ NoFault

-----------------------------------------------------------------------------
(* Recovery: reconcileBrokerWorkers by a host, and the end of              *)
(* recoverLostProviderStartedWorker which a controller runs as well.  A    *)
(* recoverer reads the record once and acts on what it read; a process it  *)
(* saw gone stays gone.                                                    *)

Acting(r, at) ==
  rec[r].at = at /\ (r = Watchdog => At("ctl", rec[r].attempt, "recovering"))

Rests(r) == rec' = [rec EXCEPT ![r] = Idle]
Proceeds(r, at) == rec' = [rec EXCEPT ![r].at = at]
Decides(r, at, op, source, j) ==
  rec' = [rec EXCEPT ![r] =
    [at |-> at, op |-> op, source |-> source, attempt |-> j.fence, state |-> j.state]]

(* cleanupBlocked, after which the recoverer leaves the job.               *)
GivesUp(r) ==
  job' = (IF Terminal(job) THEN job ELSE [job EXCEPT !.blocked = TRUE]) /\ Rests(r)

(* The record is for this branch of reconcileBrokerWorkers, which needs    *)
(* the processes of its attempt recorded as ctl and wrk gone.              *)
CtlGone == job.ctl # 0 /\ Gone("ctl", job.ctl)
BothGone == CtlGone /\ job.wrk # 0 /\ Gone("wrk", job.wrk)

AbandonedClaim ==
  /\ job.state = "claimed" /\ job.ccp = "none"
  /\ job.ci = "no-child" \/ (job.ci = "none" /\ cancelled /\ ~job.leased /\ guard = 0)

LostController ==
  /\ job.state = "controller-started" /\ job.ccp = "none" /\ CtlGone
  /\ job.wi \in {"none", "no-child"} \/ job.uw # "none"

LostWorker == job.state = "worker-started" /\ BothGone
LostProvider == job.state = "provider-started" /\ BothGone
BlockedFailure == job.state = "failed" /\ BothGone /\ job.blocked /\ job.pend # "none"

Unwitnessed(j) == j.prv = "none" /\ (guard # 0 \/ ~j.notLaunched)

Reads(r) ==
  /\ r \in Reconcilers /\ rec[r].at = "idle" /\ ~Terminal(job) /\ Contract(job)
  /\ \/ job.ccp = "nobody" /\ GivesUp(r)         \* no witness of the controller
     \/ /\ CleanupWitness(job, "controller-cleanup") # "none"
        /\ Decides(r, "fence", "unstarted", "controller-cleanup", job) /\ UNCHANGED job
     \/ AbandonedClaim /\ Decides(r, "settle", "unstarted", "none", job) /\ UNCHANGED job
     \/ /\ LostController /\ UNCHANGED job
        /\ IF job.uw = "none" THEN Decides(r, "settle", "unstarted", "none", job)
                              ELSE Decides(r, "fence", "unstarted", "unsettled-worker", job)
     \/ /\ LostWorker /\ job.pi # "none"
        /\ Decides(r, "boundary", "unstarted", "none", job) /\ UNCHANGED job
     \/ LostWorker /\ job.pi = "none" /\ GivesUp(r)   \* the launch is ambiguous
     \/ LostProvider /\ Decides(r, "fence", "lost", "provider-generation", job) /\ UNCHANGED job
     \/ /\ BlockedFailure /\ ~Unwitnessed(job) /\ UNCHANGED job
        /\ IF job.prv = "none" THEN Decides(r, "settle", "failed", "none", job)
                               ELSE Decides(r, "fence", "failed", "provider-generation", job)
     \/ BlockedFailure /\ Unwitnessed(job) /\ GivesUp(r)
  /\ UNCHANGED <<pc, guard, cancelled, wiped, prompts>> /\ NoFault

(* reconcileProviderSpawnBoundary: an authorization without a guard is     *)
(* revoked, a dead provider's guard is removed, a live provider is         *)
(* promoted to be fenced.  The guard is removed before the intent is       *)
(* written.                                                                *)
ResolvesBoundary(r) ==
  /\ Acting(r, "boundary")
  /\ LET a == rec[r].attempt
         alive == guard # 0 /\ ~Gone("prv", a)
         absent == CanProviderNoChild(job, a, guard, TRUE)
         after == IF absent THEN ProviderNoChild(job) ELSE job
     IN \/ /\ ~alive /\ (absent \/ (job.pi = "no-child" /\ guard = 0)) /\ after.notLaunched
           /\ job' = after /\ guard' = 0
           /\ Decides(r, "settle", "unstarted", "none", after) /\ NoFault
        \/ /\ ~alive /\ absent /\ guard # 0
           /\ guard' = 0 /\ UNCHANGED job /\ Rests(r) /\ Fault("host")
        \/ /\ alive /\ job.prv = "none" /\ CanProviderStarted(job, a)
           /\ job' = ProviderStarted(job) /\ UNCHANGED guard
           /\ Decides(r, "fence", "lost", "provider-generation", ProviderStarted(job)) /\ NoFault
        \/ /\ IF alive THEN ~(job.prv = "none" /\ CanProviderStarted(job, a))
                       ELSE ~(absent \/ (job.pi = "no-child" /\ guard = 0)) \/ ~after.notLaunched
           /\ GivesUp(r) /\ UNCHANGED guard /\ NoFault
  /\ UNCHANGED <<pc, cancelled, wiped, prompts>>

Fences(r) ==
  /\ Acting(r, "fence")
  /\ LET d == rec[r]
     IN IF CanFence(job, d.attempt, d.state, d.source)
          THEN job' = Fence(job, d.source) /\ Proceeds(r, "signal")
          ELSE GivesUp(r)
  /\ UNCHANGED <<pc, guard, cancelled, wiped, prompts>> /\ NoFault

(* terminateWithRecoveryFence after the fence: a process whose start token *)
(* is unknown may have had its pid reused and is only observed.            *)
Target(source) ==
  CASE source = "controller-cleanup" -> "ctl"
    [] source = "unsettled-worker"   -> "wrk"
    [] OTHER                         -> "prv"

Signals(r) ==
  /\ Acting(r, "signal")
  /\ LET d == rec[r]
         x == Target(d.source)
         holds == HoldsFence(job, d.attempt, d.source)
         signals == CleanupWitness(job, d.source) = "signal"
     IN \/ /\ holds /\ (signals \/ Gone(x, d.attempt))
           /\ pc' = [pc EXCEPT ![x][d.attempt] = IF @ = "none" THEN @ ELSE "gone"]
           /\ Proceeds(r, "settle") /\ UNCHANGED job /\ NoFault
        \/ /\ holds /\ signals /\ ~Gone(x, d.attempt)
           /\ GivesUp(r) /\ UNCHANGED pc /\ Fault("kill")
        \/ /\ ~holds \/ ~(signals \/ Gone(x, d.attempt))
           /\ GivesUp(r) /\ UNCHANGED pc /\ NoFault
  /\ UNCHANGED <<guard, cancelled, wiped, prompts>>

(* settleUnstartedDispatchLoss, settleFailedDispatchCleanup or             *)
(* settleStartedWorkerLoss, the deletion of the artifacts included: one    *)
(* whose record has changed leaves the job to whoever changed it.          *)
MaySettle(r) ==
  LET d == rec[r]
      ctlGone == Gone("ctl", d.attempt)
      wrkGone == Gone("wrk", d.attempt)
      prvGone == Gone("prv", d.attempt)
  IN CASE d.op = "unstarted" ->
            CanSettleUnstarted(job, d.attempt, d.state, d.source, ctlGone, wrkGone, prvGone)
       [] d.op = "failed" ->
            CanSettleFailed(job, d.attempt, d.source, ctlGone, wrkGone, prvGone)
       [] OTHER ->
            CanSettleLost(job, d.attempt, d.source, ctlGone, wrkGone, prvGone)

Settled(op) ==
  CASE op = "unstarted" -> SettleUnstarted(job)
    [] op = "failed"    -> [SettleAsIntended(job) EXCEPT !.cf = "none"]
    [] OTHER            -> SettleLost(job)

SettlesJob(r) ==
  /\ Acting(r, "settle")
  /\ LET a == rec[r].attempt
         deletes == ~Conflict /\ ProviderSettled(a) /\ (job.wrk # 0 => Gone("wrk", a))
     IN \/ ~MaySettle(r) /\ Rests(r) /\ UNCHANGED <<job, wiped, guard>> /\ NoFault
        \/ /\ MaySettle(r) /\ deletes
           /\ job' = Settled(rec[r].op) /\ wiped' = TRUE /\ guard' = 0 /\ Rests(r) /\ NoFault
        \/ /\ MaySettle(r) /\ GivesUp(r) /\ UNCHANGED <<wiped, guard>>
           /\ IF deletes THEN Fault("cleanup") ELSE NoFault
  /\ UNCHANGED <<pc, cancelled, prompts>>

Recovers(r) ==
  Reads(r) \/ ResolvesBoundary(r) \/ Fences(r) \/ Signals(r) \/ SettlesJob(r)

-----------------------------------------------------------------------------
(* What comes from outside.                                                *)

(* cancelWorker, which a host may send again.                              *)
Cancels ==
  /\ ~Terminal(job) /\ cancelled' = TRUE
  /\ \/ /\ job' = Cancelled(job, guard) /\ NoFault
        /\ wiped' = (wiped \/ CancelEndsIt(job, guard))
     \/ /\ CancelEndsIt(job, guard) /\ Fault("cleanup") /\ UNCHANGED wiped
        /\ job' = [job EXCEPT !.blocked = FALSE]
  /\ UNCHANGED <<pc, guard, rec, prompts>>

LeaseExpires ==
  /\ job.state = "claimed" /\ job.leased /\ job' = [job EXCEPT !.leased = FALSE]
  /\ IF At("launcher", job.fence, "done") THEN NoFault ELSE Fault("slow")
  /\ UNCHANGED pc /\ Quiet

Dies(a) ==
  /\ \/ /\ pc.launcher[a] \notin {"none", "done"}
        /\ Goes("launcher", a, "done") /\ UNCHANGED rec /\ Fault("launcher")
     \/ /\ ~Gone("ctl", a) /\ Goes("ctl", a, "gone") /\ Fault("controller")
        /\ rec' = [rec EXCEPT ![Watchdog] = Idle]
     \/ ~Gone("wrk", a) /\ Goes("wrk", a, "gone") /\ UNCHANGED rec /\ Fault("worker")
  /\ UNCHANGED <<job, guard, cancelled, wiped, prompts>>

Bootstrap(a) == BootstrapRegisters(a) \/ BootstrapReady(a)

Next ==
  \/ \E a \in Attempts :
       \/ ClaimAttempt(a) \/ Launcher(a) \/ Controller(a) \/ Worker(a)
       \/ Bootstrap(a) \/ BootstrapExits(a) \/ Dies(a)
  \/ \E r \in Recoverers : Recovers(r)
  \/ Cancels \/ LeaseExpires

Spec == Init /\ [][Next]_vars

(* A process that is alive goes on; hosts reconcile and dispatch again and *)
(* again (createWorkerDispatchSupervisor); a bootstrap whose worker is     *)
(* gone reads the end of its pipe and exits.                               *)
FairSpec ==
  /\ Spec /\ WF_vars(LeaseExpires)
  /\ \A a \in Attempts :
       /\ WF_vars(ClaimAttempt(a)) /\ WF_vars(Launcher(a)) /\ WF_vars(Controller(a))
       /\ WF_vars(Worker(a)) /\ WF_vars(Bootstrap(a))
       /\ WF_vars(Gone("wrk", a) /\ BootstrapExits(a))
  /\ \A r \in Recoverers : WF_vars(Recovers(r))

-----------------------------------------------------------------------------
(* Properties.                                                             *)

(* The prompt reaches a provider once at most, whoever dies and whoever    *)
(* takes over.                                                             *)
PromptIsNeverReplayed == prompts <= 1

(* No second attempt has processes once a first one created any.           *)
OneAttemptSpawns ==
  \A a, b \in Attempts : a < b /\ pc.ctl[a] # "none" => pc.ctl[b] = "none"

(* The runtime artifacts go when no provider is left that could use them,  *)
(* and a job that has ended left neither artifacts nor a guard behind.     *)
CleanupIsLast ==
  /\ wiped => \A a \in Attempts : pc.prv[a] \notin {"guarded", "running"}
  /\ Terminal(job) => wiped /\ guard = 0

(* Recovery ends no job that has a live worker, or a provider past its     *)
(* start; a host none that has a live controller.                          *)
Alive(x, a) == pc[x][a] \notin {"none", "gone"}
EndsByRecovery(r) ==
  rec[r].at = "settle" /\ rec'[r] # rec[r] /\ ~Terminal(job) /\ job'.status # "active"

RecoverySparesTheLiving ==
  [][\A r \in Recoverers : EndsByRecovery(r) =>
       \A a \in Attempts :
         /\ ~Alive("wrk", a) /\ pc.prv[a] \notin {"guarded", "running"}
         /\ r # Watchdog => ~Alive("ctl", a)]_vars

(* A job that has been claimed ends, or stays for good in one of the       *)
(* states the code keeps for want of a proof that no process is left.      *)
Unproven ==
  \/ /\ job.state = "claimed" /\ job.ci = "pending" /\ Gone("ctl", job.fence)
     /\ job.ccp = "none"                                \* no controller known
  \/ job.ccp = "nobody"                                 \* its handle had no pid
  \/ /\ job.state = "claimed" /\ job.ci = "none" /\ ~cancelled
     /\ job.fence = MaxAttempts                         \* the bound on claims
  \/ job.state = "controller-started" /\ CtlGone /\ job.wi = "pending" /\ job.uw = "none"
  \/ LostWorker /\ job.pi = "none"                      \* no provider known
  \/ LostWorker /\ job.pi = "registered" /\ guard = 0   \* its guard was lost
  \/ job.state = "pending" /\ cancelled
  \/ job.state = "failed" /\ ~job.blocked
  \/ ~Contract(job)

JobSettles == <>[](Terminal(job) \/ Unproven)

(* "Active cancellation remains nonterminal until the controller, worker,  *)
(* or trusted recovery path publishes the same proof": one of them does,   *)
(* worker-mutation-cancellation.mjs:559.                                   *)
CancelledJobEnds == cancelled ~> Terminal(job)

=============================================================================
