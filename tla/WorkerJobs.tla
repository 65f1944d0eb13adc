------------------------------ MODULE WorkerJobs ------------------------------
(* The jobs of one workspace and the calls that admit, continue, cancel,   *)
(* interrupt and retire them (state.mjs, worker-mutation-spawn, -followup, *)
(* -cancellation, -idempotency, companion-dispatch, the SessionEnd hook).  *)
(* A broker call runs under the workspace lock (StateLock shows that it    *)
(* excludes others), but it reads the jobs, writes a job and writes an     *)
(* idempotency receipt in separate steps: its process may die between      *)
(* them, and workers, recovery and hooks, which take only the lock of one  *)
(* job, come between.  One execution of a worker, in all its detail in     *)
(* WorkerDispatch, is here: started, learned its session, ended, died.     *)
(* Job ids are random; here they are the order of creation, which is what  *)
(* retention sorts by.                                                     *)
EXTENDS Naturals, FiniteSets

CONSTANTS
  MaxJobs,      \* bound: jobs ever created
  AdmitKeys,    \* idempotency keys of spawns and follow-ups
  CallKeys,     \* idempotency keys of cancels, interrupts and resumptions
  NoKey,
  Ops,          \* the operations this instance allows
  RetainLimit,  \* terminal and active jobs retention keeps (50 in the code)
  MaxHistory,   \* cancellation receipts a job can hold (32 in the code)
  Reopens,      \* may the SessionEnd hook fail to clean a job that had ended?
  MaxCrashes    \* bound: broker calls that die half-way

ASSUME WorkerJobsAssumption ==
  /\ MaxJobs \in Nat \ {0} /\ RetainLimit \in Nat /\ MaxHistory \in Nat
  /\ MaxCrashes \in Nat /\ Reopens \in BOOLEAN
  /\ NoKey \notin AdmitKeys \cup CallKeys

Keys == AdmitKeys \cup CallKeys
Ids == 1..MaxJobs
None == 0

Statuses == {"absent", "queued", "running", "interrupted", "ended"}
Leases == {"reader", "global-writer"}
Receipts == {"accepted", "already_cancelled", "already_terminal"}

JobRec == [
  status   : Statuses,
  lease    : Leases,
  lineage  : Ids \cup {None},          \* request.providerHomeId
  parent   : Ids \cup {None},          \* request.resumeJobId
  spawnKey : Keys \cup {NoKey},        \* spawn.idempotencyKeyDigest
  granted  : BOOLEAN,                  \* request.followup: made under the parent's grant
  session  : BOOLEAN,                  \* grokSessionId is recorded
  live     : BOOLEAN,                  \* its worker and provider exist
  pending  : BOOLEAN,                  \* pendingTerminal is recorded
  cleaned  : BOOLEAN,                  \* result.taskRuntimeCleaned is true
  event    : BOOLEAN,                  \* cancellation.requested was logged
  history  : [Keys -> Receipts \cup {"none"}],  \* cancellationReceiptsByKey
  message  : Keys \cup {NoKey}]        \* the key whose resume message it carries

NoJob == [status |-> "absent", lease |-> "reader", lineage |-> None, parent |-> None,
          spawnKey |-> NoKey, granted |-> FALSE, session |-> FALSE, live |-> FALSE,
          pending |-> FALSE, cleaned |-> FALSE, event |-> FALSE,
          history |-> [k \in Keys |-> "none"], message |-> NoKey]

(* The idempotency files, one directory per kind.  A receipt names a job,  *)
(* and for a cancellation says what was answered.                          *)
Kinds == {"spawn", "followup", "resume", "cancel", "interrupt"}
NoReceipt == [job |-> None, answer |-> "none"]
ReceiptRec == [job : Ids \cup {None}, answer : Receipts \cup {"none", "admitted"}]

Idle == [op |-> "idle", key |-> NoKey, job |-> None, rec |-> NoJob, answer |-> "none"]

VARIABLES
  jobs,      \* jobs/<id>.json
  markers,   \* the cancel markers
  receipts,  \* idempotency/<kind>-<key>.json
  created,   \* how many ids were given out
  tx,        \* the call that holds the workspace lock, and what it remembers
  late,      \* follow-ups committed whose receipt is still to be published
  retiring,  \* retention's list of files to unlink
  crashes,
  \* ghosts
  answers,   \* what each key was answered, by kind
  firstCancel \* the key that logged the cancellation of each job

vars == <<jobs, markers, receipts, created, tx, late, retiring, crashes,
          answers, firstCancel>>
ghosts == <<answers, firstCancel>>

(* The first job has run before, for a broker or for Claude Code.          *)
PriorJob(key) ==
  [NoJob EXCEPT !.status = "ended", !.lineage = 1, !.spawnKey = key,
                !.session = TRUE, !.cleaned = TRUE]

Init ==
  /\ \E key \in {NoKey} \cup AdmitKeys :
       /\ jobs = [i \in Ids |-> IF i = 1 THEN PriorJob(key) ELSE NoJob]
       /\ receipts = [k \in Kinds |-> [j \in Keys |->
            IF k = "spawn" /\ j = key THEN [job |-> 1, answer |-> "admitted"]
                                     ELSE NoReceipt]]
  /\ markers = {}
  /\ created = 1
  /\ tx = Idle
  /\ late = {}
  /\ retiring = {}
  /\ crashes = 0
  /\ answers = [k \in Kinds |-> [key \in Keys |-> {}]]
  /\ firstCancel = [i \in Ids |-> NoKey]

-----------------------------------------------------------------------------
(* What a job record says.                                                 *)

Stored == {i \in Ids : jobs[i].status # "absent"}
ActiveRec(r) == r.status \in {"queued", "running", "interrupted"}
Active(i) == ActiveRec(jobs[i])

(* terminalFollowupParent and interruptedFollowupParent.                   *)
TerminalParent(r) == r.status = "ended" /\ r.session /\ r.cleaned
InterruptedParent(r) == r.status = "interrupted" /\ r.session

(* Mutant: the writer fence is forgotten.                                  *)
BlocksLineage(c, new) == c.lineage = new.lineage /\ (ActiveRec(c) \/ ~c.cleaned)

(* admitJobUnlocked: what stands in the way of a new job.                  *)
Blocks(c, new) ==
  IF ~ActiveRec(c)
    THEN c.lineage = new.lineage /\ ~c.cleaned
    ELSE \/ c.lineage = new.lineage
         \/ "global-writer" \in {c.lease, new.lease}

Admissible(new) == \A i \in Stored : ~Blocks(jobs[i], new)

(* spawnReadOnlyWorker and admitWriteWorkerPlan: a new lineage.  A managed *)
(* writer has a worktree of its own, so its lease conflicts with no other  *)
(* than a reader's does.                                                   *)
SpawnedJob(i, key, parent) ==
  [NoJob EXCEPT !.status = "queued", !.lineage = i, !.parent = parent,
                !.spawnKey = key]

(* spawnGrantedFollowupWorker: the parent's lineage, under its grant.      *)
FollowupJob(key, p) ==
  [NoJob EXCEPT !.status = "queued", !.lineage = jobs[p].lineage, !.parent = p,
                !.spawnKey = key, !.granted = TRUE]

(* handleTask: a foreground task, with its own lineage or a parent's.      *)
ForegroundJob(i, lease, parent) ==
  [NoJob EXCEPT !.status = "queued", !.lease = lease, !.parent = parent,
                !.lineage = IF parent = None THEN i ELSE jobs[parent].lineage]

(* A job of Claude Code, admitted without a broker's key.                  *)
Foreground(i) == i \in Stored /\ jobs[i].spawnKey = NoKey

DigestOwners(key) == {i \in Stored : jobs[i].spawnKey = key}
GrantOwners(p) == {i \in Stored : jobs[i].granted /\ jobs[i].parent = p}
FollowupKeyOwners(key) == {i \in Stored : jobs[i].granted /\ jobs[i].spawnKey = key}

Answer(kind, key, a) == answers' = [answers EXCEPT ![kind][key] = @ \cup {a}]
WriteReceipt(kind, key, job, a) ==
  receipts' = [receipts EXCEPT ![kind][key] = [job |-> job, answer |-> a]]
Publishes(kind, key, job, a) ==
  /\ WriteReceipt(kind, key, job, a)
  /\ Answer(kind, key, [job |-> job, answer |-> a])

-----------------------------------------------------------------------------
(* A call of a broker: it takes the lock, reads, and goes on in steps.     *)

Begin(op, key, job, rec, answer) ==
  tx' = [op |-> op, key |-> key, job |-> job, rec |-> rec, answer |-> answer]
Free == tx = Idle
Return == tx' = Idle
Fresh == created + 1

(* spawnReadOnlyWorker with a receipt: the job must exist and be the       *)
(* key's only one; the receipt is rewritten with a new response number.    *)
SpawnReplay(key) ==
  LET j == receipts["spawn"][key].job IN
  /\ Free /\ j # None
  /\ j \in Stored /\ DigestOwners(key) = {j}
  /\ Publishes("spawn", key, j, "admitted")
  /\ UNCHANGED <<jobs, markers, created, tx, late, retiring, crashes, firstCancel>>

(* Without a receipt, but with a job: its publication was interrupted.     *)
SpawnRecover(key) ==
  /\ Free /\ receipts["spawn"][key] = NoReceipt
  /\ \E j \in Stored :
       /\ DigestOwners(key) = {j}
       /\ ~jobs[j].granted
       /\ Publishes("spawn", key, j, "admitted")
  /\ UNCHANGED <<jobs, markers, created, tx, late, retiring, crashes, firstCancel>>

(* The job a new key gets, once the listing shows nothing in its way.      *)
AdmitScan(op, key, new) ==
  /\ Free /\ Fresh \in Ids
  /\ Admissible(new)
  /\ created' = Fresh
  /\ Begin(op, key, Fresh, new, "admitted")
  /\ UNCHANGED <<jobs, markers, receipts, late, retiring, crashes, ghosts>>

(* Mutant: a key whose job is gone is given another job.                   *)
SpawnAgain(key, parent) ==
  /\ DigestOwners(key) = {}
  /\ AdmitScan("spawn", key, SpawnedJob(Fresh, key, parent))

(* The parent of a spawn is looked up before the lock is taken.            *)
SpawnScan(key, parent) ==
  /\ receipts["spawn"][key] = NoReceipt
  /\ DigestOwners(key) = {}
  /\ AdmitScan("spawn", key, SpawnedJob(Fresh, key, parent))

(* startJob: admission without a key.                                      *)
ForegroundScan(lease, parent) ==
  AdmitScan("foreground", NoKey, ForegroundJob(Fresh, lease, parent))

FollowupScan(key, p) ==
  /\ ~Foreground(p)
  /\ TerminalParent(jobs[p]) \/ InterruptedParent(jobs[p])
  /\ GrantOwners(p) = {} /\ FollowupKeyOwners(key) = {}
  /\ receipts["followup"][key] = NoReceipt
  /\ AdmitScan("followup", key, FollowupJob(key, p))

(* The child of this grant and this key: committed before.                 *)
FollowupReplay(key, p) ==
  /\ Free
  /\ TerminalParent(jobs[p]) \/ InterruptedParent(jobs[p])
  /\ \E c \in Stored :
       /\ GrantOwners(p) = {c} /\ FollowupKeyOwners(key) = {c}
       /\ late' = late \cup {[key |-> key, job |-> c]}
  /\ UNCHANGED <<jobs, markers, receipts, created, tx, retiring, crashes, ghosts>>

(* atomicJson of the new job.                                              *)
WriteNewJob ==
  /\ tx.op \in {"spawn", "followup", "foreground"}
  /\ jobs' = [jobs EXCEPT ![tx.job] = tx.rec]
  /\ IF tx.op = "spawn" THEN tx' = [tx EXCEPT !.op = "publish"] ELSE Return
  /\ late' = IF tx.op = "followup" THEN late \cup {[key |-> tx.key, job |-> tx.job]}
              ELSE late
  /\ UNCHANGED <<markers, receipts, created, retiring, crashes, answers, firstCancel>>

PublishSpawn ==
  /\ tx.op = "publish"
  /\ Publishes("spawn", tx.key, tx.job, "admitted")
  /\ Return
  /\ UNCHANGED <<jobs, markers, created, late, retiring, crashes, firstCancel>>

(* publishGrantedFollowupAdmission: after the lock was given back.         *)
PublishFollowup(l) ==
  /\ Publishes("followup", l.key, l.job, "admitted")
  /\ late' = late \ {l}
  /\ UNCHANGED <<jobs, markers, created, tx, retiring, crashes, firstCancel>>

-----------------------------------------------------------------------------
(* resumeInterruptedWorker.                                                *)

ResumeReplay(key, i) ==
  /\ Free /\ receipts["resume"][key].job = i /\ i \in Stored
  /\ Answer("resume", key, [job |-> i, answer |-> "admitted"])
  /\ UNCHANGED <<jobs, markers, receipts, created, tx, late, retiring, crashes,
                 firstCancel>>

ResumeClear(key, i) ==
  /\ Free /\ receipts["resume"][key] = NoReceipt
  /\ InterruptedParent(jobs[i]) /\ ~jobs[i].live
  /\ markers' = markers \ {i}
  /\ Begin("resume", key, i, NoJob, "admitted")
  /\ UNCHANGED <<jobs, receipts, created, late, retiring, crashes, ghosts>>

(* The record keeps its pendingTerminal, its result and its session, and   *)
(* no resumeSessionId is put in the request.                               *)
ResumeWrite ==
  /\ tx.op = "resume"
  /\ jobs' = [jobs EXCEPT ![tx.job].status = "queued", ![tx.job].message = tx.key]
  /\ tx' = [tx EXCEPT !.op = "publishResume"]
  /\ UNCHANGED <<markers, receipts, created, late, retiring, crashes, ghosts>>

PublishResume ==
  /\ tx.op = "publishResume"
  /\ Publishes("resume", tx.key, tx.job, "admitted")
  /\ Return
  /\ UNCHANGED <<jobs, markers, created, late, retiring, crashes, firstCancel>>

-----------------------------------------------------------------------------
(* cancelWorker.  The marker and the record are written under the lock of  *)
(* the job, the receipt after; each key's receipt is also kept in the job. *)

RecoveryJobs(key) == {j \in Stored : jobs[j].history[key] # "none"}

CancelReplay(key, i) ==
  LET r == receipts["cancel"][key] IN
  /\ Free /\ r.job = i
  /\ Answer("cancel", key, r)
  /\ UNCHANGED <<jobs, markers, receipts, created, tx, late, retiring, crashes,
                 firstCancel>>

(* findCancellationRecovery: the receipt was not published.                *)
CancelRecover(key, i) ==
  /\ Free /\ receipts["cancel"][key] = NoReceipt
  /\ RecoveryJobs(key) = {i}
  /\ Publishes("cancel", key, i, jobs[i].history[key])
  /\ UNCHANGED <<jobs, markers, created, tx, late, retiring, crashes, firstCancel>>

HistoryFull(r) == Cardinality({k \in Keys : r.history[k] # "none"}) >= MaxHistory

CancelAnswer(r) ==
  CASE ~ActiveRec(r) -> "already_terminal"
    [] ActiveRec(r) /\ r.event -> "already_cancelled"
    [] OTHER -> "accepted"

(* What a cancellation makes of the record: a job nothing was started for  *)
(* is ended at once, if its home can be cleaned.                           *)
CancelledRecs(r, key) ==
  LET noted == [r EXCEPT !.history[key] = CancelAnswer(r),
                         !.event = @ \/ ActiveRec(r)]
  IN {noted} \cup
     IF r.status = "queued" /\ ~r.pending
       THEN {[noted EXCEPT !.status = "ended", !.cleaned = TRUE]}
       ELSE {}

(* Mutant: whoever finds no receipt of its own asks anew.                  *)
NotCancelledYet(key) == receipts["cancel"][key] = NoReceipt

MayCancel(key) == receipts["cancel"][key] = NoReceipt /\ RecoveryJobs(key) = {}

CancelCommit(key, i) ==
  /\ Free /\ MayCancel(key) /\ i \in Stored
  /\ ~HistoryFull(jobs[i])
  /\ \E r \in CancelledRecs(jobs[i], key) : jobs' = [jobs EXCEPT ![i] = r]
  /\ markers' = IF Active(i) THEN markers \cup {i} ELSE markers
  /\ firstCancel' = IF CancelAnswer(jobs[i]) = "accepted"
                      THEN [firstCancel EXCEPT ![i] = key] ELSE firstCancel
  /\ Begin("publishCancel", key, i, NoJob, CancelAnswer(jobs[i]))
  /\ UNCHANGED <<receipts, created, late, retiring, crashes, answers>>

(* The call dies after the marker, or finds no room for its receipt there. *)
CancelMarkOnly(key, i) ==
  /\ Free /\ MayCancel(key) /\ Active(i)
  /\ IF HistoryFull(jobs[i]) THEN UNCHANGED crashes
       ELSE crashes < MaxCrashes /\ crashes' = crashes + 1
  /\ markers' = markers \cup {i}
  /\ UNCHANGED <<jobs, receipts, created, tx, late, retiring, ghosts>>

PublishCancel ==
  /\ tx.op = "publishCancel"
  /\ Publishes("cancel", tx.key, tx.job, tx.answer)
  /\ Return
  /\ UNCHANGED <<jobs, markers, created, late, retiring, crashes, firstCancel>>

(* interruptWorker of a job with a session; without one it is cancelWorker. *)
CanPreserve(r) == ActiveRec(r) /\ r.session

InterruptMark(key, i) ==
  /\ Free /\ receipts["interrupt"][key] = NoReceipt
  /\ CanPreserve(jobs[i])
  /\ markers' = IF jobs[i].live THEN markers \cup {i} ELSE markers
  /\ Begin("interrupt", key, i, NoJob, "accepted")
  /\ UNCHANGED <<jobs, receipts, created, late, retiring, crashes, ghosts>>

InterruptWrite ==
  /\ tx.op = "interrupt"
  /\ jobs' = [jobs EXCEPT ![tx.job].status = "interrupted"]
  /\ tx' = [tx EXCEPT !.op = "publishInterrupt"]
  /\ UNCHANGED <<markers, receipts, created, late, retiring, crashes, ghosts>>

PublishInterrupt ==
  /\ tx.op = "publishInterrupt"
  /\ Publishes("interrupt", tx.key, tx.job, tx.answer)
  /\ Return
  /\ UNCHANGED <<jobs, markers, created, late, retiring, crashes, firstCancel>>

(* The process of the call dies; its lock is reclaimed.                    *)
Crash ==
  /\ ~Free /\ crashes < MaxCrashes
  /\ crashes' = crashes + 1
  /\ Return
  /\ retiring' = {}
  /\ UNCHANGED <<jobs, markers, receipts, created, late, ghosts>>

CrashBeforePublication(l) ==
  /\ crashes < MaxCrashes
  /\ crashes' = crashes + 1
  /\ late' = late \ {l}
  /\ UNCHANGED <<jobs, markers, receipts, created, tx, retiring, ghosts>>

-----------------------------------------------------------------------------
(* One execution of a job.  Starting and ending one are transactions; what *)
(* a worker learns in between is written under the lock of its job alone.  *)

Job(i, r) ==
  /\ jobs' = [jobs EXCEPT ![i] = r]
  /\ UNCHANGED <<markers, receipts, created, tx, late, retiring, crashes, ghosts>>

Start(i) ==
  /\ Free /\ jobs[i].status = "queued" /\ i \notin markers
  /\ Job(i, [jobs[i] EXCEPT !.status = "running", !.live = TRUE, !.cleaned = FALSE])

LearnSession(i) ==
  /\ jobs[i].live /\ ~jobs[i].session
  /\ Job(i, [jobs[i] EXCEPT !.session = TRUE])

(* terminalIntentPatch: the outcome, before anything is cleaned.           *)
Intend(i) ==
  /\ jobs[i].live /\ ~jobs[i].pending
  /\ Job(i, [jobs[i] EXCEPT !.pending = TRUE])

(* settleProviderStartedWorkerFinalization: whatever the status is.        *)
Ended(r) ==
  [r EXCEPT !.status = "ended", !.live = FALSE, !.pending = FALSE, !.cleaned = TRUE]

End(i) ==
  /\ Free /\ jobs[i].live /\ jobs[i].pending
  /\ Job(i, Ended(jobs[i]))

(* The home could not be cleaned.                                          *)
BlockCleanup(i) ==
  /\ jobs[i].live /\ jobs[i].pending
  /\ Job(i, [jobs[i] EXCEPT !.status = "running", !.live = FALSE])

Die(i) ==
  /\ jobs[i].live /\ crashes < MaxCrashes
  /\ jobs' = [jobs EXCEPT ![i].live = FALSE]
  /\ crashes' = crashes + 1
  /\ UNCHANGED <<markers, receipts, created, tx, late, retiring, ghosts>>

(* Recovery of a job whose processes are gone.                             *)
Recover(i) ==
  /\ Free /\ ~jobs[i].live
  /\ \/ jobs[i].status \in {"running", "interrupted"}
     \/ jobs[i].status = "queued" /\ i \in markers
  /\ Job(i, Ended(jobs[i]))

-----------------------------------------------------------------------------
(* retain, after a job ended: what it keeps, and the jobs those continue.  *)

Ordinary == {i \in Stored : ~Active(i) /\ jobs[i].cleaned}
NewerOrdinary(i) == {j \in Ordinary : j > i}
Room == RetainLimit - Cardinality({i \in Stored : Active(i)})
KeptForThemselves ==
  (Stored \ Ordinary) \cup {i \in Ordinary : Cardinality(NewerOrdinary(i)) < Room}

(* A child is newer than its parent, so the chain is as long as the ids.   *)
Ancestors(S) ==
  LET up[n \in 0..MaxJobs] ==
        IF n = 0 THEN S
        ELSE up[n - 1] \cup {jobs[i].parent : i \in up[n - 1] \cap Stored}
  IN up[MaxJobs]

Removable == Ordinary \ Ancestors(KeptForThemselves)

(* Bound: fifty newer jobs do not come and go between a follow-up's commit *)
(* and the publication of its receipt, which follows without the lock.     *)
Settled == Removable \cap {l.job : l \in late} = {}

RetainScan ==
  /\ Free /\ Removable # {} /\ Settled
  /\ Begin("retain", NoKey, None, NoJob, "none")
  /\ retiring' = Removable
  /\ UNCHANGED <<jobs, markers, receipts, created, late, crashes, ghosts>>

(* Three unlinks; no lock of the job is held.                              *)
Removed(i) ==
  /\ jobs' = [jobs EXCEPT ![i] = NoJob]
  /\ markers' = markers \ {i}

RetainUnlink(i) ==
  /\ tx.op = "retain" /\ i \in retiring
  /\ Removed(i)
  /\ retiring' = retiring \ {i}
  /\ tx' = IF retiring = {i} THEN Idle ELSE tx
  /\ UNCHANGED <<receipts, created, late, crashes, ghosts>>

(* The SessionEnd hook of Claude Code, for the jobs of its session: it     *)
(* asks them to stop, and removes those whose processes are gone; one it   *)
(* cannot clean it makes active again.                                     *)
HookMark(i) ==
  /\ Free /\ Foreground(i) /\ Active(i)
  /\ markers' = markers \cup {i}
  /\ UNCHANGED <<jobs, receipts, created, tx, late, retiring, crashes, ghosts>>

HookBlock(i) ==
  /\ Foreground(i) /\ (Active(i) \/ Reopens)
  /\ Job(i, [jobs[i] EXCEPT !.status = "running", !.pending = TRUE, !.cleaned = FALSE])

HookRemove(i) ==
  /\ Foreground(i) /\ ~jobs[i].live
  /\ Removed(i)
  /\ UNCHANGED <<receipts, created, tx, late, retiring, crashes, ghosts>>

-----------------------------------------------------------------------------
BrokerCall(key) ==
  \/ /\ key \in AdmitKeys
     /\ \/ SpawnReplay(key) \/ SpawnRecover(key)
        \/ \E p \in {None, created} : SpawnScan(key, p)
        \/ \E i \in Stored :
             "followup" \in Ops /\ (FollowupScan(key, i) \/ FollowupReplay(key, i))
  \/ \E i \in Stored :
       /\ key \in CallKeys /\ ~Foreground(i)
       /\ \/ "interrupt" \in Ops /\ (\/ ResumeReplay(key, i) \/ ResumeClear(key, i)
                                     \/ InterruptMark(key, i))
          \/ "cancel" \in Ops /\ (\/ CancelReplay(key, i) \/ CancelRecover(key, i)
                                  \/ CancelCommit(key, i) \/ CancelMarkOnly(key, i))

BrokerStep ==
  \/ WriteNewJob \/ PublishSpawn
  \/ ResumeWrite \/ PublishResume
  \/ PublishCancel
  \/ InterruptWrite \/ PublishInterrupt
  \/ \E l \in late : PublishFollowup(l) \/ CrashBeforePublication(l)
  \/ Crash

JobStep(i) ==
  \/ Start(i) \/ LearnSession(i) \/ Intend(i) \/ End(i) \/ BlockCleanup(i)
  \/ Die(i) \/ Recover(i)
  \/ RetainUnlink(i)
  \/ "hook" \in Ops /\ (HookMark(i) \/ HookBlock(i) \/ HookRemove(i))

ForegroundCall ==
  /\ "foreground" \in Ops
  /\ \E lease \in {"reader", "global-writer"}, p \in {None} \cup Stored :
       /\ p # None => Foreground(p) /\ jobs[p].status = "ended" /\ jobs[p].session
       /\ ForegroundScan(lease, p)

Next ==
  \/ \E key \in Keys : BrokerCall(key)
  \/ BrokerStep
  \/ ForegroundCall
  \/ \E i \in Stored : JobStep(i)
  \/ RetainScan

Spec == Init /\ [][Next]_vars

-----------------------------------------------------------------------------
(* Properties.                                                             *)

(* A key is answered with one job for ever, although the job and the       *)
(* receipt are two files, calls are repeated after a crash between them    *)
(* and old jobs are retired; and no two stored jobs were made for it.      *)
KeyNamesOneJob ==
  \A key \in Keys :
    /\ \A kind \in {"spawn", "followup", "resume", "cancel"} :
         Cardinality({a.job : a \in answers[kind][key]}) <= 1
    /\ Cardinality({i \in DigestOwners(key) : ~jobs[i].granted}) <= 1

(* Two executions never share the home and session of a provider lineage,  *)
(* and nothing executes beside a writer that has no worktree of its own,   *)
(* though admission looks at the jobs before it writes one, and workers,   *)
(* recovery, retention and resumption go on meanwhile.                     *)
ExecutionsAreApart ==
  \A i, j \in Stored :
    i # j /\ jobs[i].live /\ jobs[j].live =>
      /\ jobs[i].lineage # jobs[j].lineage
      /\ "global-writer" \notin {jobs[i].lease, jobs[j].lease}

(* The key that logged the cancellation of a job is told "accepted", never *)
(* that somebody else had cancelled it or that it had ended, and no other  *)
(* key is, whatever crashes came between the record and the receipt.       *)
FirstCancelIsAccepted ==
  \A key \in Keys : \A a \in answers["cancel"][key] :
    a.answer = "accepted" <=> firstCancel[a.job] = key

(* "mode=interrupt stops the current attempt, keeps grokSessionId, and     *)
(* leaves the job interrupted": until it is resumed or cancelled.          *)
InterruptedStays ==
  [][\A i \in Ids :
       jobs[i].status = "interrupted" /\ ~jobs[i].event
       => jobs'[i].status = "interrupted" \/ tx.op = "resume"]_vars

=============================================================================
