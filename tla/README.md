# Verification of the Grok companion plugin

TLA+ models, TLC configurations and TLAPS proofs for the runtime in
`src/plugins/grok`: a plugin by which a host (Codex, Claude Code) hands tasks to
the Grok command-line agent. The plugin has no server process of its own that
outlives a session. It is a set of short- and long-lived Node processes that
share a directory tree of JSON files, and it must give each task to Grok once,
report its outcome truthfully and leave nothing behind, although any of these
processes may be killed at any point.

Paths below are relative to `src/plugins/grok/scripts/lib/` unless they start
with `src/`.

## 1. The system

Processes:

* **Brokers** (`src/plugins/grok/mcp/broker.mjs`): MCP servers, one per host
  session, several per workspace. They spawn, list, cancel, message and
  reconcile workers.
* **Controllers** (`companion-worker-launcher.mjs`, `--launch-worker`): detached
  watchdogs, one per dispatch attempt.
* **Workers** (`--worker`): detached, run one task through a provider.
* **Provider bootstraps** (`provider-bootstrap.mjs`): leaders of the process
  group Grok runs in; they register a guard before they start Grok.
* **The command line and hooks** (`grok-companion.mjs`, session hooks).

Shared state, per workspace: `jobs/<id>.json`, `cancel` markers, idempotency
receipts, mailbox directories, provider guards, worktree registries, isolated
homes with staged credentials. Mutual exclusion comes from lock directories.

### Components

| component | state | operations | interacts with | hard behaviour | what makes it correct |
|---|---|---|---|---|---|
| **State lock and leases** (`state.mjs` 380-935) | lock directory, `owner.json`, `transition.json`, witnesses | acquire, inspect, claim, reclaim, release | everything that writes | races of path-based file operations, deaths between any two, slow processes, inode reuse | mutual exclusion; no live generation is renamed away; abandoned locks are reclaimed |
| **Job records, admission, retention** (`state.mjs`) | job files, indexes, cancel markers | admit, update, list, retain, request cancel, list recovery candidates | all | two locks taken in order, partial writes, retention against live jobs | writer exclusion, bounded admission, no live job retired |
| **Spawn, idempotency, follow-up** (`worker-mutation-spawn*`, `-idempotency`, `-followup*`) | job + idempotency receipt | spawn, replay, follow-up | job store, dispatch | crash between two files, reuse of a key | one job per key, one adoption of a session |
| **Worker dispatch** (`worker-mutation-dispatch-*`, `worker-runtime`, `companion-worker-launcher`, `worker-dispatch-supervisor`) | `request.spawn.dispatch`, intents, process identities, cleanup fence | claim, prepare, no-child, transition, unsettle, settle | broker, controller, worker, bootstrap, recovery | five kinds of processes race on one record and kill each other | the prompt is given once; one attempt has processes; the job ends |
| **Recovery** (`worker-recovery`, `worker-mutation-terminal`) | the same record | reconcile, fence, signal, settle | as above | decides on stale snapshots | it ends no job that is alive |
| **Cancellation** (`worker-mutation-cancellation`) | marker, receipts | cancel, interrupt | dispatch, mailbox | races with each start-up step | a cancelled job ends |
| **Provider bootstrap and guard** (`provider-bootstrap*`, `provider-acp-runtime`, `recursion-guard`) | guard file, provider intent | register, ready, promote, abandon | worker, recovery | guard and intent are two files | no provider without a guard; guard removed last |
| **Worker mailbox** (`worker-mailbox-state`, `worker-mailbox`, `companion-task-turn`) | `attempt.json`, `msg-*.json`, index | open, accept, claim, inflight, settle, close, recover | senders, worker, provider, recovery | several files per transaction, lost answers, retries | once and in order; truthful and final outcomes; nothing left over |
| **Execution and finalisation** (`companion-task-*`) | outcome intent, evidence | consume launch, run, repair the report, clean up, settle | provider, mailbox, dispatch | every step may fail after the provider acted | the outcome recorded is the one that happened |
| **Write provisioning and worktrees** (`worker-mutation-write-*`, `worker-provisioner`, `worker-worktree`) | digest-chained journal, worktree registry | admit, provision, retry, archive, remove | bootstrap, owner | attempts and fences over restarts | one holder of a worktree |
| **Owner lifecycle, host actions** (`worker-owner-*`, `worker-host-actions`) | effect journals | integrate, clean up, receipts | worktrees, Git | crash between Git and journal | an effect is applied once |
| **MCP broker and service** (`broker.mjs`, `worker-service`) | sessions, subscriptions | requests, notifications | all | reconnects, session end | projections reveal only the owner's workers |
| **ACP client and provider sessions** (`acp-client`, `provider-*`) | pending requests, buffers | request, notify, close | Grok | timeouts against late answers, answers and breakage in one chunk | an answer counts only if its whole chunk is sound |
| **Credentials, environments, pins** | staged homes, attestations | stage, revoke, attest | bootstrap | deletion against a live provider | no credential is left behind |
| **Context and Git observation** | - (pure) | capture, compare | execution | - | deterministic digests |
| **Reviews, deep research** (`deep-research`, `companion-research`) | job, staged query, home, workflow binder | launch, follow, stop, report | jobs, Grok, recovery | lost and stale notifications, five writers of one record | success is earned; a cancel before the launch wins; the job ends |
| **Command line, hooks** | - | parse, render, gate | jobs | session end | - |

`PROJECT.json` lists each of these with its files, its status and what is left
out. The hazards listed there, each at its line, are what the properties are for.

## 2. Modules

```
AbstractLock         what a lock promises
StateLock            the lock, one file-system access per step
 +- StateLockInvariant   its inductive invariants
     +- StateLockRefinement        StateLock implements AbstractLock
         +- StateLockProofs            theorems (TLAPS), that one too
         +- MCStateLock
AbstractMailbox      what a mailbox promises those who send through it
MailboxDisk          mailbox transactions as pure operators on the files
 +- WorkerMailbox        senders, worker, pump, provider, cancellation, recovery
     +- WorkerMailboxRefinement    WorkerMailbox implements AbstractMailbox
         +- MCWorkerMailbox
         +- WorkerMailboxProofs        theorems (TLAPS), that one too
DispatchRecord       the dispatch record: contract, guards, transactions
 +- WorkerDispatch       launcher, controller, worker, bootstrap, recovery
     +- MCWorkerDispatch
     +- WorkerDispatchInvariant  its inductive invariant; types (TLAPS)
         +- WorkerDispatchProofs   theorems (TLAPS)
WorkerJobs           the jobs of a workspace and the calls on them
 +- MCWorkerJobs
 +- WorkerJobsProofs     theorems (TLAPS)
WriteProvisioning    how a managed writer gets its worktree
 +- MCWriteProvisioning
 +- WriteProvisioningProofs  theorems (TLAPS)
WriterLifecycle      what becomes of a writer's change, session and worktree
 +- MCWriterLifecycle
 +- WriterLifecycleProofs  theorems (TLAPS)
AcpClient            requests to Grok, and answers in chunks
 +- DeepResearch         a research job, its processes and Grok
     +- MCDeepResearch
     +- DeepResearchProofs   theorems (TLAPS)
```

The groups are layers. `StateLock` shows that a transaction excludes others;
all other modules therefore describe a transaction as one operator from the
record it reads to the record it writes, and interleave the processes that run
them. `WorkerJobs` has many jobs and takes an execution as started, learned its
session, ended or died; `WorkerDispatch` and `WorkerMailbox` have one execution
in detail. `WriteProvisioning` ends where a writer's dispatch begins,
`WriterLifecycle` begins where it has ended.

### StateLock and AbstractLock

Variables `path`, `owner`, `tmps`, `trans`, `wit`, `gone` are what is on disk,
`pc` and the rest what a process remembers. Each action is one access to the
directory (`mkdir`, `lstat`, `link`, `rename`, a read); actions that are several
accesses say why no other process can come between. `Aged` is the clock: a
directory without an owner may count as abandoned at any time when `MayStall`,
and only when its maker is dead when not. `ReusesInodes` lets a removed
directory's identity return while a process remembers it.

`AbstractLock` has the holders and the dead, and four actions. Under the mapping
in `StateLockRefinement` a live process holds from the end of its verification
to the start of its release, and a dead one as long as the directory at the path
carries its name; `Reclaim` is the rename by which somebody takes it away.

### AbstractMailbox, MailboxDisk and WorkerMailbox

One transaction holds the workspace lock but writes several files. An operator
of `MailboxDisk` returns the *trace* of disks it passes through; a fault leaves
any of them (a death stops there, a failed write throws). `WorkerMailbox` runs
the controller and the pump of the worker, which share one JavaScript thread and
interleave only at awaits, with any number of sends per key, a cancellation and
a recovering coordinator. Ghosts: `sent` (prompts handed over), `acked` (turns
the provider reported ended).

`AbstractMailbox` has no files, processes or faults. It knows what became of the
message of each key (`fate`), its place in the queue, the prompts in the order
they were handed over, whose turn ended, and whether the mailbox is closed; a
message is handed over (`Prompt`), a turn ends (`EndTurn`), or a transaction adds
one message and settles others (`Transact`). A recovery, a write that fails
between two files and an operation that starts by repairing what another left
are all one `Transact` or nothing. `WorkerMailboxRefinement` reads the fates off
the message files: accepted, claimed and inflight are pending to the sender.

### DispatchRecord and WorkerDispatch

`Record` is `request.spawn.dispatch` with the intents, identities and witnesses
beside it; `Contract` is `assertDispatchContract`. For each transaction `CanX`
is what it asserts and `X` what it writes. Where the code writes *without*
asserting the contract of the result (`prepareControllerFailureSettlement`,
`settlePreProviderWorkerFinalization`, `recordExecutionFailure`), so does the
model. `WorkerDispatch` adds the processes: each has a place (`pc`), an attempt
is its fence, a process identity is the attempt it belongs to. The reconcilers'
snapshot is kept in `rec`, so that what they decide may be stale when they act.
The fault kinds are listed at `AllFaults`.

### WorkerJobs

`jobs`, `markers`, `receipts` are the files. A broker call (`tx`) holds the
workspace lock from its first read to its last write, but reads the jobs, writes
a job and writes its idempotency receipt in separate steps; its process may die
between them, and workers, recovery and the SessionEnd hook, which take only the
lock of one job, come between. A follow-up publishes its receipt after the lock
is released (`late`). Retention first lists and then unlinks (`retiring`). Ids
are the order of creation, by which retention sorts. `Blocks` is what admission
refuses (`admitJobUnlocked`). Ghosts: who cancelled a job first, what each key
was answered.

### WriteProvisioning

A slot (`call`) is a provisioning call and the host that runs it. `job` has the
journal with its revision, intent, attempt count and evidence; `tree`, `guard`,
`boot`, `homes`, `creds`, `lease` are what is outside it. The call takes its
snapshot without a lock, so each transaction compares the revision it expects.
The bootstrap registers its guard in its own time (`BootRegisters`), also when
its host has given up; the effect of a creation is clean, partial or absent, and
what is recorded of it is what the host finds when it looks.

### WriterLifecycle

`rec` is the registry with one record per worker: integration, cleanup, the
number of attempts and the intent of each effect (apply, close, remove). `ctl`
is the controller a call spawned, which outlives its host; `parent`, `tree`,
`session` are what the effects are on. `parentLease` and `cleanLease` are the
process leases (reclaimed from the dead). A call goes from intent to spawn,
effect, answer and teardown, observes, and only then records.

### AcpClient and DeepResearch

`AcpClient` has a stage for each request, whether the transport is broken, and
the chunk that is being parsed: its messages are handled without other code
between, and answers are published in the microtask after it. `DeepResearch`
extends it with the files (`job`, `files`, `marker`), the processes (`client`,
`launcher`, `w`, `grok`), the workflow binder (`bound`) and the two sweeps of
other processes (cancel and recovery), each of which kills by a snapshot,
removes the files and only then looks at the record again. Grok's workflow is
the sequence of its revisions; a notification carries any of them, so it may be
late, repeated or lost, with the name of its run or without, and one of a
foreign workflow may come at any time. One that names no run and is not of this
workflow (the fault "stray") is applied as the code applies it, to the run the
binder is bound to; `grok.misled` remembers it.
Time limits (gate, grace, deadline, request timers) may pass at any time. The
stop prompt that nobody awaits is not a request of the model.

## 3. Runs

| run | instance | distinct states | shows |
|---|---|---|---|
| `lock_recovery` | 3 processes, 2 directories, 1 death, fair | 219,917 | exclusion, the holder is at the path, no lost generation, an abandoned generation is taken away; the lock implements `AbstractLock` with its liveness |
| `lock_any_clock` | the same with any pause and inode reuse | 492,010 | what holds without the assumptions: one holder per generation, a claim pins the path, a holder at the path is not displaced |
| `mailbox_faults` | 2 keys, bodies of 1 and 2 bytes, limits 2 and 2, 1 death, fair | 93,892 | once and in order, one message per key, everything accounted for, every message gets its outcome |
| `mailbox_ioerrors` | 2 keys, 2 faults of any kind | 159,525 | recovery accepts what faults leave; outcomes are true; the mailbox implements `AbstractMailbox`, so they are final |
| `dispatch_faults` | 2 claims, 2 hosts, any 2 faults of 10 kinds, cancellation, fair | 69,962 | one prompt, one attempt with processes, cleanup last, recovery spares the living, the job settles |
| `dispatch_cancel` | 1 claim, no fault, fair | violation | a cancelled job that nobody may end |
| `jobs` | 3 jobs, 1 admitting and 1 calling key, every operation, 1 crash | 594,046 | one job per key, executions apart, truthful cancellation receipts |
| `jobs_interrupt` | 2 jobs, interrupt only, no crash | violation | an interrupted job ended by the attempt the interrupt stopped |
| `write_provisioning` | 2 calls, executable pinned by setup or not, any 2 faults of 9 kinds, fair | 280,560 | ready is earned, failed has left nothing, no creation beside another, provisioning settles |
| `writer_lifecycle` | 2 writers of one checkout, one of them disposed of, 2 calls, 1 fault of 4 kinds, fair | 249,812 | an applied change is decided, work is kept, a complete cleanup left nothing, decisions end |
| `research` | 1 job, up to 3 workflow revisions less the faults so far, 1 fault of 9 kinds, fair | 447,449 | success is earned and final, a cancel before the launch wins, files outlive the provider, chunks are whole, the job ends |
| `research_cancel` | 1 revision, no fault | violation | a forced cancel removes the home and guard of a living, recorded provider |

**Bounds.** Three lock processes are a holder or constructor, a reclaimer and a
second reclaimer or constructor; two directories are the generation being taken
away and its successor. Two messages exercise order, both limits and one
message behind another whose outcome is unknown. Two claims are an attempt and
its successor; two hosts race for one cleanup fence, and the controller's
watchdog recovers beside them. Two faults cover every pair (a worker that dies
after a child could not be killed, a host that dies after a worker did). Three
jobs are one that ran before, one admitted and one that competes or continues;
one key to admit and one to call with are enough for a retry to meet what a
crash of the same call left. Two provisioning calls are a call and the one that
finds its remains, at once or later; a pinned reissue that was taken over adds a
revision to its journal with every call, in vain, and `MaxRev` ends that.
Two writers compete for the checkout, and
one is taken to the end of its worktree; `AppliedIsDecided`, `AbsentIsAbsent`
and `WorkIsKept` also held once with two faults (1.15 million states) and once
with both writers disposed of (13.6 million). Three revisions let a workflow
run, report completion while agents work, and settle; a fault takes the place of
a revision to keep the liveness check small, and the safety properties also held
once with three revisions beside the fault (864,254 states), and are proved
for any numbers (section 5).

**Deadlock** checking is off where the system may stop: a job ends and nothing
is left to do, or, in the lock, all processes give up or die.

**Fairness.** `StateLock`: a live process goes on and keeps asking; its waits
are 10 ms sleeps. `WorkerMailbox`: the pump and the controller move, since
prompts have time limits, and coordinators go on reconciling. `WorkerDispatch`:
a live process goes on; brokers dispatch and reconcile repeatedly
(`createWorkerDispatchSupervisor`, each host's status calls); leases expire; a
bootstrap whose worker is gone reads the end of its pipe. `WriteProvisioning`: a
live call goes on, a bootstrap whose host is dead ends, and a host asks for the
dispatch (`Authorize`). `WriterLifecycle`: a live call goes on, an orphaned
controller ends (its pipe is closed), and a host that has begun asks again until
it gets the leases: strong fairness, since other calls hold them now and then.
`DeepResearch`: command line, launcher, recovery and sweeps go on; a chunk ends,
because its parsing is one synchronous call; and the worker's own steps are
strongly fair, because Node's timers fire between chunks however many come. No
run assumes fairness of Grok, of faults, of senders or of cancellation.
`WorkerJobs` claims no liveness.

**Mutants.** Each property has a mutant in the modules, marked as such: a
plausible bug (a dropped check, two writes swapped, a retry) under which the
run violates it.

## 4. Where code and documents disagree

Shown by a run:

1. *dispatch_cancel.* The worker registers itself before its controller looks
   at the cancel marker. The controller kills it, cannot record that there is
   no child (the intent is registered) and exits; recovery then finds neither a
   provider intent nor the outcome "not-launched" and blocks the job at every
   call.
2. *jobs_interrupt.* `interruptWorker` sets the status `interrupted` and the
   cancel marker; the worker that sees the marker records the outcome cancelled,
   and its settlement does not look at the status. `src/docs/issues/120-resumable-interrupt-donor-evidence.md`
   (14-16) promises that the job stays interrupted and can be resumed.
3. *research_cancel.* `handleCancel` takes one snapshot when its grace is over.
   If the worker has spawned Grok and not yet registered its guard, there is
   nobody to kill (`terminateProviderCleanupTarget`: "Absent identity remains
   fail-open"); the worker then registers guard and provider, is killed, and
   home and guard go while the recorded Grok lives. SPEC.md:413 and :883 forbid
   it.

Met while modelling, not a run of their own:

* *Lock.* `lockGenerationIsReclaimable` takes age for death: a live constructor
  that pauses for 30 s between `mkdir` and the publication of `owner.json` loses
  its directory and goes on by path. With `MayStall = TRUE` and three
  directories `MutualExclusion` is violated.
* *Mailbox, last settlement.* The settlement of a failing job's mailbox is best
  effort (`provider-headless-runtime.mjs` 766-788); if it fails the job ends
  with an accepted message and its body, and recovery passes by jobs that have
  ended (WORKER_BROKER_PLAN.md:461, :470). With `IOErrors` and one fault
  `EveryMessageAccounted` is violated.
* *Mailbox, report.* `selectRepairedReport` binds a repaired report to
  `lastCompletedSequence`, the turn whose outcome is unknown;
  `WORKER_BROKER_PLAN.md` wants the last successfully completed one.
* *Dispatch contract.* After a guard was registered and before promotion, a
  cancel makes the worker remove the guard *before* it asks to record that
  there is no provider. That is refused, the failure record stores a provider
  identity bound to no attempt, and the contract is broken for good:
  `reconcileBrokerWorkers` throws at that job (worker-recovery.mjs:769) and does
  not reach later ones. `~Contract(job)` is one of the states of `Unproven`, and
  it is reached.
* *Dispatch without a pid.* When the controller cannot be spawned and Node says
  so by a handle without a pid (worker-runtime.mjs:731-733), the clean-up takes
  it for a process whose end is not verified (225-230) and stores
  `controllerCleanupPending` with no process (498-512); `reconcileBrokerWorkers`
  refuses the job at every call (worker-recovery.mjs:779-785) though there never
  was a controller. `job.ccp = "nobody"` is one of the states of `Unproven`, and
  it is reached.
* *Jobs.* A resumed interrupt opens a new Grok session
  (companion-task-turn.mjs:538 passes no session; document 120, 24-31, says the
  same one) and keeps a stale `pendingTerminal`; a granted follow-up of an
  interrupted parent is always refused by `admitJob`; `interruptWorker` without
  a session falls back to a cancel under another receipt kind; the SessionEnd
  hook may reopen a job that has ended when its cleanup fails (`Reopens`); a
  follow-up's receipt is published after the lock, so that a crash, retention of
  its job and a retry give one key two jobs; the 33rd cancellation key of a job
  writes the marker and then throws.
* *Provisioning.* `cancelWorker` before the dispatch sets a phase every
  provisioning transaction refuses, and no call of the broker ends the job; a
  host that dies between its intent and the record of an unknown effect leaves a
  journal no call accepts (`reclaimProvisioningJournal` is used by tests only,
  WORKER_BROKER_PLAN.md:829); the command line's `recoverNonterminalJobs` takes
  a queued writer older than 5 s for lost; an edited parent makes the failure
  records throw as well; a home with the credential of a dead call is in
  `cleanupStaleControllerHomes`'s way for ever. A reissue that another call takes
  over never gets a controller when setup pinned the executable: the claim
  (worker-provisioner.mjs:596-607) has stored the very intent that the
  preparation of the provider then asks for, the answer is a replay
  (worker-mutation-write-provisioning.mjs:229-243), and `spawnProviderForOpen`
  throws (provider-acp-runtime.mjs:370-401), on this drive and every later one.
  Without a pin the private copy of the executable makes the second intent
  another. `Stuck` names these states.
* *Owner lifecycle.* A crash, or a controller that cannot be killed, leaves a
  controller intent that nothing settles: the one bounded retry fails in its
  preparation, and the operation is blocked although the parent is unchanged
  ("`unchanged` permits one bounded reissue", worker-worktree.mjs:1618); after a
  crash in the second attempt it stays "applying". SPEC.md:279 asks for proof
  that controller, guard, credential and home are gone, `publishAbsentCleanup`
  looks at worker and provider only; a crashed host's controller home is never
  swept. An intent fences the effects of its own worker: an orphaned apply of
  one writer may still replace the file another's verified integration is in
  (WORKER_BROKER_PLAN.md:810, :502). A cancelled writer can be discarded only
  while the parent is unchanged. The registry's 128 records are never pruned.
* *Deep research, binder.* `createWorkflowBinder` "accepts ... only monotonically
  increasing revisions for that run" (deep-research.mjs:480-481). Once bound it
  refuses a notification that names another run and applies one that names none
  (602), whatever workflow it is of: that may set the status, settle the run as
  complete, or make the run's own revisions stale. It is the action
  `StrayUpdated`; a completion it caused is reached, and `CompletedIsEarned` and
  its theorem name it as their exception (`misled`).
* *Deep research.* A launcher that fails after it started the worker makes the
  command line remove the files of a live worker and overwrite its record
  (`EndIsFinal` and `FilesOutliveGrok` name the exception), and so does a poll
  error of a waiting command line for the files; when command line and launcher
  both die the job stays queued (`LaunchUnsettled`: two deaths, not in the
  instance). After the launch the worker never asks whether Grok is still
  there: an exit is noticed by the 30-minute deadline. A provider whose identity
  was not recorded and that cannot be killed loses its home.

Limits of the code that the passing runs name:

* `JobSettles` says that a job ends *or* stays in one of the states `Unproven`
  lists, and each of its disjuncts is reached: a launcher that dies between an
  intent and the identity of the child; a controller whose handle has no pid; a
  worker that dies before its provider intent; a registered intent whose guard is
  gone; a pending job cancelled with artifacts that could not be deleted; a failed
  dispatch whose blocked phase a later cancel overwrote; a broken contract. Most
  are the price of never guessing that a process is gone; the second and the last
  four are not. `ProvisioningSettles` and `DecisionsEnd` have their `Stuck`.
* `AbandonedIsReclaimed` holds with one death. With two it fails: a process that
  dies in `clearAbandonedTransition` between linking its witness and unlinking
  it blocks every later clearer of that transition (`EEXIST`, 603-612).
  Safety does not depend on the number of deaths (section 5).
* `Exclusion` assumes that no inode is reused while a process remembers it,
  since generations are told apart by `(dev, ino)`.

## 5. Proofs

Every safety property the passing runs check is proved for all values of the
constants. Each proof goes by an inductive invariant that TLC checked first, as an invariant of the
component's run, and that is not weaker than the property: what it adds is said
below.

### The lock

`StateLockProofs` proves, for any sets of processes and directories and any
number of deaths:

| theorem | assumptions | statement |
|---|---|---|
| `TypeCorrect` | none | `Spec => []TypeOK` |
| `ClaimPins` | none | `Spec => []ClaimPinsPath` |
| `Exclusion` | `~MayStall`, `~ReusesInodes` | `Spec => []MutualExclusion` |
| `HolderAtPath` | the same | `Spec => []HolderIsAtPath` |
| `NothingLost` | the same | `Spec => []NoLostGeneration` |
| `OneHolder` | none | `Spec => []OneHolderPerGeneration` |
| `HolderNotDisplaced` | none | `Spec => HolderIsNotDisplaced` |
| `LockImplements` | the same | `Spec => ImplementsLockSafely` |

None of these is inductive. *Exclusion* follows from `OneEngaged`: from its
`mkdir` to its rename, one process at most works on a generation of its own.
That needs `EngagedAtPath` (its generation is the one at the path, under its
name), which a reclaimer's rename could break; so the invariant says of a
reclaimer that its decision is about a dead owner or a generation nobody is
constructing (`Judged`, from `Snapshot`), that its second look holds until its
rename (`Rechecked`), and that its claim pins the path (`Pinned`). `PathInv` is
the part that holds under any clock and file system and is proved first; it
gives `TypeCorrect` and `ClaimPins`. `LockInv` adds the rest. Both were checked
by TLC as invariants of the instances above before they were proved. The proof
of each conjunct has one lemma that says which step can make it true or false
of a process (`...Entry`), one that says what others leave alone, and a step
lemma with a case per action.

*LockImplements* uses that invariant. A live holder is named at the path
(`HolderNamed`), a step that is not `Visible` changes neither the path nor the
owner there nor who holds, and each visible step is a step of `AbstractLock` or
a stutter: the end of a verification acquires because nobody else holds
(exclusion) and no dead owner is at the path, the start of a release gives back,
and a rename meets a dead owner or nobody (`Judged`, `Pinned`).

`OneHolder` and `HolderNotDisplaced` hold however long constructors pause and
whatever inodes come back, so they cannot use `LockInv`. `HolderInv` adds to
`PathInv` what is left then. A process that has read its own name in the
directory it made (`Owning`) keeps that name there as long as anybody looks
(`Named`), so a directory has one (`OneOwning`). A reclaimer whose snapshot
names an owner found it dead (`JudgedDead`), and its claim comes before its
second look: a holder that looked for a transition would have seen the claim, so
nobody is past the second look at a directory that is held (`HeldIsLeft`).

### Deep research

`DeepResearchProofs` has the theorems on a research job, for any number of
revisions of the workflow and of faults, of any kinds (`DeepResearchAssumption`
only fixes the three requests of a session):

| theorem | assumes | states |
|---|---|---|
| `ResearchInvariant` | - | `Spec => []Inv` |
| `SuccessIsEarned` | - | `Spec => []CompletedIsEarned` |
| `CancelWins` | - | `Spec => []CancelComesFirst` |
| `FilesOutlive` | - | `Spec => []FilesOutliveGrok` |
| `ChunksHold` | - | `Spec => ChunksAreWhole` |
| `EndsAreFinal` | - | `Spec => EndIsFinal` |

`Inv` is types and eleven named parts; TLC checked it first (924,296 states with
two faults). `EarnedInv`: a session closes without an error only when the binder
has settled on a complete run, and such a revision is Grok's last (`RunInv`: the
binder holds a revision Grok has published, `DoneIsLast`), or when a notification
without a run misled the worker (`misled`), which cannot be excluded; then
Grok, then the files go, and only then the record is written. `HomeInv`: Grok starts once, into
a home; an identity somebody knows is that of a Grok that was started, so a
sweep that gets past it has killed it, or named nobody. `CancelInv` follows a
cancellation in time: the worker never enters the loop after it, because the
marker is read between the acknowledgement and the loop, and leaves its session
with an error, which `ErrorsAreNamed` carries to the record. `ChunkInv`: what
the open chunk has answered is waiting or rejected, so that breaking rejects all
of it; only `Breaks` closes the transport (`OnlyBreaksClose`). `EndInv`: command
line, completing and failing worker write the record without looking at it, and
each of them is out of the way when somebody else has ended the job. That needs
to know what a sweep knows (`SweepInv`: it commits when the worker is gone),
which needs `RecordInv` (a started worker is recorded, or else the launch is
still authorized, so that `LaunchUnsettled` holds the cancellation back) and
`StartedOnce`. The exception, a lost launcher, is where `EndInv` cannot be
strengthened.

### The dispatch of a worker

`WorkerDispatchProofs`, for any number of claims, reconciling hosts and faults
of any kinds (`AttemptsAssumption`, `DispatchAssumption`: there is a claim,
faults are of the kinds listed):

| theorem | states |
|---|---|
| `Invariance` | `Spec => []Inv` |
| `PromptIsNeverReplayedHolds` | `Spec => []PromptIsNeverReplayed` |
| `OneAttemptSpawnsHolds` | `Spec => []OneAttemptSpawns` |
| `CleanupIsLastHolds` | `Spec => []CleanupIsLast` |
| `RecoverySparesTheLivingHolds` | `Spec => RecoverySparesTheLiving` |

Whoever gets the lock may write the record, so `Inv` says for the place each
process is in what no other has done to the record meanwhile. `Launched`: until
a launcher has prepared a spawn nothing is bound, and a prepared launcher finds
the record as it left it, since a claim in state "claimed" with an intent is not
claimed again. `OneLine`: every process has the process that made it, and a
controller the fence on record. `Controlled` and `Worked`: while a controller or
a worker that has registered lives, it alone leads the state on; in
`worker-started` the identities on record are the fence's. So the worker that
promotes finds the state it wrote, and leaves it by giving the prompt
(`Prompted`). `Closed`: once the artifacts are gone no process is in a place from
which it could start or register another (`NoSpawn`); that needs every
transaction that lets a host delete them to have revoked the intents first.
`Recovering`: what a recoverer saw gone has gone for good, and the boundary it
acts on (`no-child` for the provider, or a state before the worker) cannot come
back, so its stale snapshot errs on the side of the living. The lemmas
`...Writes` say of each transaction which fields of the record it changes, and
`...Typed` that each step keeps the types.

### The jobs of a workspace

`WorkerJobsProofs`, for any numbers of jobs, keys, retained jobs and crashes,
whether or not the SessionEnd hook reopens jobs (`WorkerJobsAssumption`):
`KeyNamesOneJobHolds`, `ExecutionsAreApartHolds`, `FirstCancelIsAcceptedHolds`.

A call reads, writes a job and writes a receipt in separate steps, so the
invariant speaks of what the holder of the lock carries. `Issued`: an id beyond
the last has never been used, and an admission is about the last. `Answered`
and `Unpublished`: an answer is its receipt's, and a call that is to write a
receipt finds none. `Owned`: two jobs are not of one key, a follow-up's job is
that of the receipt if there is one, and what is published late still exists
and is not being retired. `Apart` widens the executing jobs to those that may
execute yet (`MayRun`: a broker's job may be resumed, a job of the command line
that was taken up never goes back to the queue), because admission looks before
it writes. `Told`: a job's history, the pending answer and the receipt agree on
which key logged the cancellation.

### The worktree of a writer

`WriteProvisioningProofs`, for any number of calls and faults
(`WriteProvisioningAssumption`): `ReadyIsEarnedHolds`,
`FailedLeavesNothingHolds`, `CreateFindsNothingHolds`. `Underway`: an attempt
under way has one holder and an unsettled intent. `Bound` is the heart: a
controller that can act, the guard, each credential and each call that was
activated belong to the attempt under way, so that nothing is left when the
state is another; it is what the order of a failing call's clean-up is for
(kill, unguard, delete, record). `Made`: until Grok is asked there is no
worktree, and "registered" comes before asking.

`WriterLifecycleProofs`, for any number of writers, calls and faults
(`WriterLifecycleAssumption`): `InvHolds`, `AppliedIsDecidedHolds`,
`AbsentIsAbsentHolds`, `WorkIsKeptHolds`. The invariant says of a call that what
permitted it still stands (`Permitted`), because its lease keeps the only calls
out that could change it (`Leased`), and that a cleanup is as far as its place
says (`Ordered`); of a worker that tried changes were decided on (`WorkerInv`);
and of a controller, which outlives the call and its lease, that what it was told
is permitted for ever (`CtlInv`): the fact on record that allowed it is never
taken back.

### The mailbox

`WorkerMailboxProofs`, for any number of keys, sizes, messages and faults, any
limits, with or without failed writes (`MailboxAssumption`, `FaultAssumption`):

| theorem | states |
|---|---|
| `InvariantHolds` | `Spec => []IInv` |
| `SentOnceInOrderHolds` | `Spec => []SentOnceInOrder` |
| `OneMessagePerKeyHolds` | `Spec => []OneMessagePerKey` |
| `OutcomesAreTrueHolds` | `Spec => []OutcomesAreTrue` |
| `NothingSentAfterUnknownHolds` | `Spec => []NothingSentAfterUnknown` |
| `RecoveryNeverRefusesHolds` | `Spec => []RecoveryNeverRefuses` |
| `EveryMessageAccountedHolds` | `~IOErrors` implies `Spec => []EveryMessageAccounted` |
| `ClosedMailboxIsSettledHolds` | `Spec => ClosedMailboxIsSettled` |
| `OutcomesAreFinalHolds` | `Spec => OutcomesAreFinal` |
| `ImplementsMailboxHolds` | `Spec => ImplementsMailbox` |

A fault may leave any disk of a transaction's trace behind, so the invariant
must hold of all of them. `IInv` has three kinds of parts, and TLC checked them
first on both instances of the mailbox.

`Sound` is of the disk alone: only a rejected message has no number
(`Numbered`), keys and numbers are used once (`Distinct`), the messages that wait
come after all that left (`Queued`), a mailbox that is closing or closed has no
body (`Sealed`), and a checkpoint tells the outcome the message has
(`TrueNotes`). Its last part, `Coherent`, is why recovery never refuses.
Recovery compares the attempt record with the messages, and a transaction writes
one before the other: what it finds need not agree. What does hold on every disk
of every trace is that the accepted messages are numbered 1, 2, ... within the
limits (`Counted`); that each turn records the chain of the one before it, and
that a turn of unknown outcome is the last (`Chained`); and that the attempt
record was true of these messages some writes ago (`Fits`): its count and its
bytes are those of a prefix of the queue, its last turn and its chain those of a
turn that is there. `CoherentIsConsistent` derives the checks of
`recoverAttemptConsistency` from these three, for any disk. In the other
direction, each operation starts with a recovery, and `RecoveredAttemptFacts`
shows that it brings the record up to date (`Restored`), so that what the
operation then writes fits again. The bytes are a fold over a set of
messages (`MapThenSumSet`); the lemmas `SumExists` to `SumEmpty` give the
equations of such a sum, each from a smallest set for which it would fail, since
the library's theorems on induction cannot be instantiated here.

`Truthful` relates the disk to the ghosts, and `Started`, `Opened` and `Held` say
what follows from where controller and pump are: which message the pump holds
and in which state, that everything sent before was delivered while the pump
claims, reserves or dispatches, that the held message was acknowledged when it
settles as delivered, that the pump runs only after the primary turn is recorded.
`Finished` says that, where no write fails, the mailbox is shut once the
controller has drained or interrupted it, once its recovery is done and once the
job is terminal; with `Sealed` this is `EveryMessageAccounted`. Its assumption is
needed: with a failed write the property is false (section 4).

For each operation one lemma says that its trace `Leads` only to disks that are
`Sound` and `Onward` of the first: the same messages under the same keys, sizes
and numbers, outcomes kept, a closed mailbox unchanged, and each message moved as
the operation was granted. A *grant* is a set of moves: to accept a message, to
lose a particular one, to deliver a particular one. The lemma of an operation
asks for the moves it makes; a step is granted `Moves`, which is to accept one, to
lose those in flight and to deliver those acknowledged. The traces are given by their places, and the lemmas on joining them (`LeadsThen`,
`RejectAll`, `RejectEach`) take the place of an induction over them. `Forward`
collects the steps: `IInv'`, and the disk is `Onward`; the two action properties
follow from the second half, the invariants from the first.

*ImplementsMailboxHolds* uses both. A step hands a prompt over, ends a turn, or
leaves both histories alone (`HistoryStands`). In the last case the disk is
`Onward`, `MessageMoves` says of each key what that makes of its message, and
`OneAdded` and `OneLost` that only one is added and only one is lost, so the step
is a `Transact` or a stutter (`TransactMaps`). A prompt is the first of those that
wait because the message the pump holds is inflight, or was lost while it was on
its way, and all that wait come after it (`PromptMaps`, from `Queued`, `Truthful`
and `Held`). The specification of the abstract mailbox is safety only, so all of
`ImplementsMailbox` is proved.
`OutcomesAreFinal` says of the files what the abstract mailbox says of the fates,
that nothing with an outcome is rewritten; it is proved and no run repeats it.

### Only model-checked

Liveness (that of `ImplementsLock`, `AbandonedIsReclaimed`,
`EveryMessageSettles`, `JobSettles`, `ProvisioningSettles`, `DecisionsEnd`,
`JobEnds`): temporal reasoning under fairness and ENABLED are beyond the prover.

## 6. Not modelled

Storage errors of the lock; provider rotation (generation 2, for the repair of a
report) in the dispatch; legacy dispatches (schema 1); several open attempts of
one mailbox; host-action requests, decisions and grants; the broker's
subscriptions and projections; credentials and attestation of binaries; reviews
and the validation of reports; permission answers and backpressure of the ACP
client; Windows; and the components with status `not_modelled` in
`PROJECT.json`, each with its reason. The scripts under `src/scripts` qualify
and release the plugin and are not part of it. Digests are what they are digests
of; formatting, redaction and evidence are left out.

Only `StateLock` has a type invariant as a property. The types of every other
module with proofs are part of its inductive invariant.

## 7. Plan

Done: the lock and the mailbox, each with its proofs and its abstract
specification; the dispatch and recovery; jobs with spawn, follow-up, interrupt
and retention; write provisioning; the owner lifecycle; the ACP client with deep
research; and the proofs of their safety properties.

Next, in this order:

1. Provider rotation in `WorkerDispatch`.
2. Host actions (request, decision, grant, consumption) and the broker's
   session end; reviews.
