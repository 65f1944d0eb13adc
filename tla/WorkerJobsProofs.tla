--------------------------- MODULE WorkerJobsProofs ---------------------------
(* What the run of WorkerJobs checks, for any number of jobs, keys, retained *)
(* jobs and crashes, and whether or not the SessionEnd hook can reopen a     *)
(* job that had ended: a key names one job, executions are apart, and the    *)
(* key that logged a cancellation is the one told so.  A call of a broker    *)
(* spans several steps, so the inductive invariant says what stays true of   *)
(* the jobs between what the call read and what it writes.                   *)
EXTENDS WorkerJobs, FiniteSetTheorems, TLAPS

Answers == Receipts \cup {"none", "admitted"}
TxType == [op : {"idle", "retain", "spawn", "followup", "foreground", "publish", "resume",
                 "publishResume", "publishCancel", "interrupt", "publishInterrupt"},
           key : Keys \cup {NoKey}, job : Ids \cup {None}, rec : JobRec, answer : Answers]

TypeOK ==
  /\ jobs \in [Ids -> JobRec]
  /\ markers \subseteq Ids
  /\ receipts \in [Kinds -> [Keys -> ReceiptRec]]
  /\ created \in Ids
  /\ tx \in TxType
  /\ late \subseteq [key : Keys, job : Ids]
  /\ retiring \subseteq Ids
  /\ crashes \in Nat
  /\ answers \in [Kinds -> [Keys -> SUBSET ReceiptRec]]
  /\ firstCancel \in [Ids -> Keys \cup {NoKey}]

(* The operations under the workspace lock that write a job that is not    *)
(* there yet, and those that work on one that is.                          *)
Admitting == {"spawn", "followup", "foreground"}
Resuming == {"resume", "publishResume"}
Interrupting == {"interrupt", "publishInterrupt"}
Keyed == {"spawn", "followup", "publish", "publishCancel"} \cup Resuming \cup Interrupting

(* An id is given out once, and what the lock's holder is about to write   *)
(* is under the id given out last.                                         *)
Fresh0(i) == jobs[i].status = "absent" /\ firstCancel[i] = NoKey
Unborn(r) == /\ r.status = "queued" /\ ~r.live /\ ~r.event
             /\ \A k \in Keys : r.history[k] = "none"
Issued ==
  /\ \A i \in Ids : i > created => Fresh0(i)
  /\ tx.op \in Admitting =>
       /\ tx.job = created /\ Fresh0(tx.job) /\ Unborn(tx.rec)
       /\ tx.rec.granted <=> tx.op = "followup"
       /\ tx.op = "foreground" => tx.rec.spawnKey = NoKey
       /\ tx.op # "foreground" => tx.rec.spawnKey = tx.key
  /\ tx.op \notin {"idle", "retain"} => tx.job \in Ids
  /\ tx.op \in Keyed => tx.key \in Keys
  /\ tx.op # "retain" => retiring = {}

(* What a key was answered is what its receipt says, and its receipt says  *)
(* what the job made for it is.                                            *)
Owns(i, key, granted) ==
  jobs[i].status # "absent" /\ jobs[i].spawnKey = key /\ (jobs[i].granted <=> granted)
Answered ==
  \A kind \in Kinds, key \in Keys : \A a \in answers[kind][key] :
    a.job # None /\ a.job = receipts[kind][key].job
Unpublished ==
  /\ tx.op \in {"spawn", "publish"} => receipts["spawn"][tx.key].job = None
  /\ tx.op = "followup" => receipts["followup"][tx.key].job = None
  /\ tx.op \in Resuming => receipts["resume"][tx.key].job = None
  /\ tx.op \in Interrupting => receipts["interrupt"][tx.key].job = None
  /\ tx.op = "publishCancel" => receipts["cancel"][tx.key].job = None
Owned ==
  /\ \A key \in Keys, i, j \in Ids :
       /\ Owns(i, key, TRUE) /\ Owns(j, key, TRUE) => i = j
       /\ Owns(i, key, FALSE) /\ Owns(j, key, FALSE) => i = j
       /\ Owns(i, key, TRUE) => receipts["followup"][key].job \in {None, i}
  /\ \A l \in late : Owns(l.job, l.key, TRUE) /\ l.job \notin retiring
  /\ tx.op = "spawn" => \A i \in Ids : ~Owns(i, tx.key, FALSE)
  /\ tx.op = "followup" => \A i \in Ids : ~Owns(i, tx.key, TRUE)

(* The jobs that execute, or may yet: a job of Claude Code that was taken  *)
(* up or given up is never queued again, one of a broker may be resumed.   *)
MayRun(i) ==
  \/ jobs[i].status = "queued" \/ jobs[i].live
  \/ jobs[i].spawnKey # NoKey /\ jobs[i].status \in {"running", "interrupted"}
AreApart(r, s) ==
  r.lineage # s.lineage /\ r.lease # "global-writer" /\ s.lease # "global-writer"
Apart ==
  /\ \A i \in Ids : jobs[i].live => jobs[i].status \in {"running", "interrupted"}
  /\ \A i \in Ids : jobs[i].status = "interrupted" => jobs[i].spawnKey # NoKey
  /\ \A i, j \in Ids : i # j /\ MayRun(i) /\ MayRun(j) => AreApart(jobs[i], jobs[j])
  /\ tx.op \in Admitting =>
       \A i \in Ids : MayRun(i) => AreApart(jobs[i], tx.rec)
  /\ tx.op = "resume" =>
       jobs[tx.job].status = "interrupted" /\ ~jobs[tx.job].live
  /\ tx.op = "interrupt" =>
       ActiveRec(jobs[tx.job]) /\ jobs[tx.job].spawnKey # NoKey

(* Which key logged the cancellation of a job is told alike by the job, by *)
(* the call that is to publish it and by the receipt.                      *)
Told ==
  /\ \A i \in Ids : jobs[i].status # "absent" =>
       /\ \A k \in Keys : jobs[i].history[k] = "accepted" <=> firstCancel[i] = k
       /\ ~jobs[i].event => firstCancel[i] = NoKey
  /\ tx.op = "publishCancel" => (tx.answer = "accepted" <=> firstCancel[tx.job] = tx.key)
  /\ \A key \in Keys : LET r == receipts["cancel"][key] IN
       /\ r.job # None => (r.answer = "accepted" <=> firstCancel[r.job] = key)
       /\ \A a \in answers["cancel"][key] : a = r

Inv == TypeOK /\ Issued /\ Answered /\ Unpublished /\ Owned /\ Apart /\ Told

(* Records of jobs, and updates of one that keep it one.                   *)
LEMMA NewJobs == NoJob \in JobRec /\ Idle \in TxType /\ NoReceipt \in ReceiptRec
<1>1. NoJob \in JobRec
  BY DEF NoJob, JobRec, Statuses, Leases, Receipts
<1> QED BY <1>1 DEF Idle, TxType, NoReceipt, ReceiptRec, Answers

LEMMA JobUpdates ==
  ASSUME NEW r \in JobRec, NEW s \in Statuses, NEW m \in Keys \cup {NoKey}
  PROVE  /\ [r EXCEPT !.status = s] \in JobRec
         /\ [r EXCEPT !.status = s, !.message = m] \in JobRec
         /\ [r EXCEPT !.status = s, !.live = TRUE, !.cleaned = FALSE] \in JobRec
         /\ [r EXCEPT !.status = s, !.live = FALSE] \in JobRec
         /\ [r EXCEPT !.status = s, !.pending = TRUE, !.cleaned = FALSE] \in JobRec
         /\ [r EXCEPT !.status = s, !.live = FALSE, !.pending = FALSE,
                      !.cleaned = TRUE] \in JobRec
         /\ [r EXCEPT !.status = s, !.cleaned = TRUE] \in JobRec
         /\ [r EXCEPT !.session = TRUE] \in JobRec
         /\ [r EXCEPT !.pending = TRUE] \in JobRec
         /\ [r EXCEPT !.live = FALSE] \in JobRec
<1>1. [r EXCEPT !.status = s] \in JobRec
  BY DEF JobRec
<1>2. [r EXCEPT !.status = s, !.message = m] \in JobRec
  BY DEF JobRec
<1>3. [r EXCEPT !.status = s, !.live = TRUE, !.cleaned = FALSE] \in JobRec
  BY DEF JobRec
<1>4. [r EXCEPT !.status = s, !.live = FALSE] \in JobRec
  BY DEF JobRec
<1>5. [r EXCEPT !.status = s, !.pending = TRUE, !.cleaned = FALSE] \in JobRec
  BY DEF JobRec
<1>6. [r EXCEPT !.status = s, !.live = FALSE, !.pending = FALSE, !.cleaned = TRUE] \in JobRec
  BY DEF JobRec
<1>7. [r EXCEPT !.status = s, !.cleaned = TRUE] \in JobRec
  BY DEF JobRec
<1>8. [r EXCEPT !.session = TRUE] \in JobRec
  BY DEF JobRec
<1>9. [r EXCEPT !.pending = TRUE] \in JobRec
  BY DEF JobRec
<1>10. [r EXCEPT !.live = FALSE] \in JobRec
  BY DEF JobRec
<1> QED BY <1>1, <1>2, <1>3, <1>4, <1>5, <1>6, <1>7, <1>8, <1>9, <1>10

LEMMA JobNotes ==
  ASSUME NEW r \in JobRec, NEW k \in Keys, NEW a \in Receipts, NEW b \in BOOLEAN
  PROVE  [r EXCEPT !.history[k] = a, !.event = b] \in JobRec
BY DEF JobRec

LEMMA CancelledJobs ==
  ASSUME NEW r \in JobRec, NEW k \in Keys, NEW s \in CancelledRecs(r, k)
  PROVE  s \in JobRec
<1> DEFINE noted == [r EXCEPT !.history[k] = CancelAnswer(r), !.event = @ \/ ActiveRec(r)]
<1>1. CancelAnswer(r) \in Receipts
  BY DEF CancelAnswer, Receipts, ActiveRec
<1>2. (r.event \/ ActiveRec(r)) \in BOOLEAN
  BY DEF JobRec
<1>3. noted \in JobRec
  BY <1>1, <1>2, JobNotes
<1>4. "ended" \in Statuses
  BY DEF Statuses
<1> HIDE DEF noted
<1>5. [noted EXCEPT !.status = "ended", !.cleaned = TRUE] \in JobRec
  BY <1>3, <1>4, JobUpdates
<1> QED BY <1>3, <1>5 DEF CancelledRecs, noted

LEMMA Published ==
  ASSUME TypeOK, NEW kind \in Kinds, NEW key \in Keys, NEW j \in Ids, NEW a \in Answers,
         Publishes(kind, key, j, a)
  PROVE  /\ receipts' \in [Kinds -> [Keys -> ReceiptRec]]
         /\ answers' \in [Kinds -> [Keys -> SUBSET ReceiptRec]]
<1>1. [job |-> j, answer |-> a] \in ReceiptRec
  BY DEF ReceiptRec, Answers
<1> HIDE DEF ReceiptRec
<1> QED BY <1>1 DEF TypeOK, Publishes, WriteReceipt, Answer

LEMMA AdmittedJobs ==
  ASSUME NEW i \in Ids, NEW k \in Keys \cup {NoKey}, NEW p \in Ids \cup {None},
         NEW n \in Ids \cup {None}, NEW g \in BOOLEAN, NEW l \in Leases
  PROVE  /\ [NoJob EXCEPT !.status = "queued", !.lineage = n, !.parent = p,
                          !.spawnKey = k] \in JobRec
         /\ [NoJob EXCEPT !.status = "queued", !.lineage = n, !.parent = p,
                          !.spawnKey = k, !.granted = g] \in JobRec
         /\ [NoJob EXCEPT !.status = "queued", !.lease = l, !.parent = p,
                          !.lineage = n] \in JobRec
<1>1. "queued" \in Statuses
  BY DEF Statuses
<1>2. [NoJob EXCEPT !.status = "queued", !.lineage = n, !.parent = p, !.spawnKey = k] \in JobRec
  BY <1>1, NewJobs DEF JobRec
<1>3. [NoJob EXCEPT !.status = "queued", !.lineage = n, !.parent = p,
                    !.spawnKey = k, !.granted = g] \in JobRec
  BY <1>1, NewJobs DEF JobRec
<1>4. [NoJob EXCEPT !.status = "queued", !.lease = l, !.parent = p, !.lineage = n] \in JobRec
  BY <1>1, NewJobs DEF JobRec
<1> QED BY <1>2, <1>3, <1>4

(* Types are kept by every step.                                           *)
LEMMA TypeStep == TypeOK /\ Issued /\ [Next]_vars => TypeOK'
<1> SUFFICES ASSUME TypeOK, Issued, [Next]_vars PROVE TypeOK'
  OBVIOUS
<1> USE WorkerJobsAssumption
    DEF TypeOK, ghosts, Stored
<1>0. /\ {"queued", "running", "interrupted", "ended"} \subseteq Statuses
      /\ NoJob \in JobRec /\ Idle \in TxType /\ NoReceipt \in ReceiptRec
  BY NewJobs DEF Statuses
<1>1. ASSUME NEW key \in Keys, BrokerCall(key) PROVE TypeOK'
  <2>1. CASE SpawnReplay(key)
    BY <2>1, <1>0 DEF SpawnReplay, Publishes, WriteReceipt, Answer, DigestOwners, Free, Fresh,
      Return, ReceiptRec, Answers, Kinds, Receipts, Ids, None
  <2>2. CASE SpawnRecover(key)
    BY <2>2, <1>0 DEF SpawnRecover, Publishes, WriteReceipt, Answer, DigestOwners, Free, Fresh,
      Return, ReceiptRec, Answers, Kinds, Receipts, Ids, None
  <2>3. ASSUME NEW p \in {None, created}, SpawnScan(key, p) PROVE TypeOK'
    <3>1. Fresh \in Ids /\ created' = Fresh
      BY <2>3 DEF SpawnScan, AdmitScan
    <3>2. SpawnedJob(Fresh, key, p) \in JobRec
      BY <3>1, AdmittedJobs DEF SpawnedJob, Leases
    <3>3. "admitted" \in Answers
      BY DEF Answers
    <3>4. tx' \in TxType
      BY <2>3, <3>1, <3>2, <3>3 DEF SpawnScan, AdmitScan, Begin, TxType
    <3> QED BY <2>3, <3>1, <3>4 DEF SpawnScan, AdmitScan
  <2>4. ASSUME NEW i \in Stored, FollowupScan(key, i) PROVE TypeOK'
    <3>1. Fresh \in Ids /\ created' = Fresh
      BY <2>4 DEF FollowupScan, AdmitScan
    <3>2. FollowupJob(key, i) \in JobRec
      <4>1. jobs[i].lineage \in Ids \cup {None} /\ TRUE \in BOOLEAN
        BY DEF JobRec
      <4> QED BY <4>1, <3>1, AdmittedJobs DEF FollowupJob, Leases
    <3>3. "admitted" \in Answers
      BY DEF Answers
    <3>4. tx' \in TxType
      BY <2>4, <3>1, <3>2, <3>3 DEF FollowupScan, AdmitScan, Begin, TxType
    <3> QED BY <2>4, <3>1, <3>4 DEF FollowupScan, AdmitScan
  <2>5. ASSUME NEW i \in Stored, FollowupReplay(key, i) PROVE TypeOK'
    BY <2>5, <1>0 DEF FollowupReplay, GrantOwners, FollowupKeyOwners, Free, Fresh, Return,
      ReceiptRec, Answers, Kinds, Receipts, Ids, None
  <2>6. ASSUME NEW i \in Stored, ResumeReplay(key, i), ~Foreground(i) PROVE TypeOK'
    BY <2>6, <1>0 DEF ResumeReplay, Publishes, WriteReceipt, Answer, Free, Fresh, Return,
      ReceiptRec, Answers, Kinds, Receipts, Ids, None
  <2>7. ASSUME NEW i \in Stored, ResumeClear(key, i), ~Foreground(i) PROVE TypeOK'
    <3>1. tx' \in TxType
      BY <2>7, <1>0 DEF ResumeClear, Begin, TxType, Answers, Receipts
    <3> QED BY <2>7, <3>1 DEF ResumeClear
  <2>8. ASSUME NEW i \in Stored, InterruptMark(key, i), ~Foreground(i) PROVE TypeOK'
    <3>1. tx' \in TxType
      BY <2>8, <1>0 DEF InterruptMark, Begin, TxType, Answers, Receipts
    <3> QED BY <2>8, <3>1 DEF InterruptMark
  <2>9. ASSUME NEW i \in Stored, CancelReplay(key, i), ~Foreground(i) PROVE TypeOK'
    BY <2>9, <1>0 DEF CancelReplay, Publishes, WriteReceipt, Answer, Free, Fresh, Return,
      ReceiptRec, Answers, Kinds, Receipts, Ids, None
  <2>10. ASSUME NEW i \in Stored, CancelRecover(key, i), ~Foreground(i) PROVE TypeOK'
    <3>1. "cancel" \in Kinds /\ jobs[i].history[key] \in Answers
      BY DEF Kinds, Answers, JobRec
    <3>2. /\ receipts' \in [Kinds -> [Keys -> ReceiptRec]]
          /\ answers' \in [Kinds -> [Keys -> SUBSET ReceiptRec]]
      BY <2>10, <3>1, Published DEF CancelRecover
    <3> QED BY <2>10, <3>2 DEF CancelRecover
  <2>11. ASSUME NEW i \in Stored, CancelCommit(key, i), ~Foreground(i) PROVE TypeOK'
    <3>1. jobs' \in [Ids -> JobRec]
      BY <2>11, CancelledJobs DEF CancelCommit
    <3>2. CancelAnswer(jobs[i]) \in Answers
      BY DEF CancelAnswer, Receipts, Answers, ActiveRec
    <3>3. tx' \in TxType
      BY <2>11, <1>0, <3>2 DEF CancelCommit, Begin, TxType
    <3> QED BY <2>11, <3>1, <3>3 DEF CancelCommit
  <2>12. ASSUME NEW i \in Stored, CancelMarkOnly(key, i), ~Foreground(i) PROVE TypeOK'
    BY <2>12, <1>0 DEF CancelMarkOnly, MayCancel, Free, Fresh, Return, ReceiptRec, Answers,
      Kinds, Receipts, Ids, None
  <2> QED BY <1>1, <2>1, <2>2, <2>3, <2>4, <2>5, <2>6, <2>7, <2>8, <2>9, <2>10, <2>11, <2>12
    DEF BrokerCall
<1>2. ASSUME BrokerStep PROVE TypeOK'
  <2>1. CASE WriteNewJob
    <3>0. tx.job \in Ids /\ tx.rec \in JobRec /\ (tx.op = "followup" => tx.key \in Keys)
      BY <2>1 DEF WriteNewJob, TxType, Issued, Admitting, Keyed
    <3>1. jobs' \in [Ids -> JobRec]
      BY <2>1, <3>0 DEF WriteNewJob
    <3>2. tx' \in TxType
      <4>1. [tx EXCEPT !.op = "publish"] \in TxType
        BY DEF TxType
      <4> QED BY <2>1, <1>0, <4>1 DEF WriteNewJob, Return
    <3>3. late' \subseteq [key : Keys, job : Ids]
      BY <2>1, <3>0 DEF WriteNewJob
    <3> QED BY <2>1, <3>1, <3>2, <3>3 DEF WriteNewJob
  <2>2. CASE PublishSpawn
    <3>1. "spawn" \in Kinds /\ tx.key \in Keys /\ tx.job \in Ids /\ "admitted" \in Answers
      BY <2>2 DEF PublishSpawn, TxType, Issued, Keyed, Resuming, Interrupting, Kinds, Answers
    <3>2. /\ receipts' \in [Kinds -> [Keys -> ReceiptRec]]
          /\ answers' \in [Kinds -> [Keys -> SUBSET ReceiptRec]]
      BY <2>2, <3>1, Published DEF PublishSpawn
    <3> QED BY <2>2, <1>0, <3>2 DEF PublishSpawn, Return
  <2>3. CASE ResumeWrite
    <3>0. tx.job \in Ids /\ tx.key \in Keys \cup {NoKey}
      BY <2>3 DEF ResumeWrite, TxType, Issued
    <3>1. jobs' \in [Ids -> JobRec]
      BY <2>3, <1>0, <3>0, JobUpdates DEF ResumeWrite
    <3>2. tx' \in TxType
      BY <2>3 DEF ResumeWrite, TxType
    <3> QED BY <2>3, <3>1, <3>2 DEF ResumeWrite
  <2>4. CASE PublishResume
    <3>1. "resume" \in Kinds /\ tx.key \in Keys /\ tx.job \in Ids /\ "admitted" \in Answers
      BY <2>4 DEF PublishResume, TxType, Issued, Keyed, Resuming, Interrupting, Kinds, Answers
    <3>2. /\ receipts' \in [Kinds -> [Keys -> ReceiptRec]]
          /\ answers' \in [Kinds -> [Keys -> SUBSET ReceiptRec]]
      BY <2>4, <3>1, Published DEF PublishResume
    <3> QED BY <2>4, <1>0, <3>2 DEF PublishResume, Return
  <2>5. CASE PublishCancel
    <3>1. "cancel" \in Kinds /\ tx.key \in Keys /\ tx.job \in Ids /\ tx.answer \in Answers
      BY <2>5 DEF PublishCancel, TxType, Issued, Keyed, Resuming, Interrupting, Kinds, Answers
    <3>2. /\ receipts' \in [Kinds -> [Keys -> ReceiptRec]]
          /\ answers' \in [Kinds -> [Keys -> SUBSET ReceiptRec]]
      BY <2>5, <3>1, Published DEF PublishCancel
    <3> QED BY <2>5, <1>0, <3>2 DEF PublishCancel, Return
  <2>6. CASE InterruptWrite
    <3>0. tx.job \in Ids /\ tx.key \in Keys \cup {NoKey}
      BY <2>6 DEF InterruptWrite, TxType, Issued
    <3>1. jobs' \in [Ids -> JobRec]
      BY <2>6, <1>0, <3>0, JobUpdates DEF InterruptWrite
    <3>2. tx' \in TxType
      BY <2>6 DEF InterruptWrite, TxType
    <3> QED BY <2>6, <3>1, <3>2 DEF InterruptWrite
  <2>7. CASE PublishInterrupt
    <3>1. "interrupt" \in Kinds /\ tx.key \in Keys /\ tx.job \in Ids /\ tx.answer \in Answers
      BY <2>7 DEF PublishInterrupt, TxType, Issued, Keyed, Resuming, Interrupting, Kinds, Answers
    <3>2. /\ receipts' \in [Kinds -> [Keys -> ReceiptRec]]
          /\ answers' \in [Kinds -> [Keys -> SUBSET ReceiptRec]]
      BY <2>7, <3>1, Published DEF PublishInterrupt
    <3> QED BY <2>7, <1>0, <3>2 DEF PublishInterrupt, Return
  <2>8. ASSUME NEW l \in late, PublishFollowup(l) PROVE TypeOK'
    BY <2>8, <1>0 DEF PublishFollowup, Publishes, WriteReceipt, Answer, Free, Fresh, Return,
      ReceiptRec, Answers, Kinds, Receipts, Ids, None
  <2>9. ASSUME NEW l \in late, CrashBeforePublication(l) PROVE TypeOK'
    BY <2>9, <1>0 DEF CrashBeforePublication, Free, Fresh, Return, ReceiptRec, Answers, Kinds,
      Receipts, Ids, None
  <2>10. CASE Crash
    BY <2>10, <1>0 DEF Crash, Free, Fresh, Return, ReceiptRec, Answers, Kinds, Receipts, Ids, None
  <2> QED BY <1>2, <2>1, <2>2, <2>3, <2>4, <2>5, <2>6, <2>7, <2>8, <2>9, <2>10 DEF BrokerStep
<1>3. ASSUME NEW i \in Stored, JobStep(i) PROVE TypeOK'
  <2>1. CASE Start(i)
    <3>1. jobs' \in [Ids -> JobRec]
      BY <2>1, <1>0, JobUpdates DEF Start, Job
    <3> QED BY <2>1, <1>0, <3>1 DEF Start, Job, Free, Fresh, Return
  <2>2. CASE LearnSession(i)
    <3>1. jobs' \in [Ids -> JobRec]
      BY <2>2, <1>0, JobUpdates DEF LearnSession, Job
    <3> QED BY <2>2, <1>0, <3>1 DEF LearnSession, Job, Free, Fresh, Return
  <2>3. CASE Intend(i)
    <3>1. jobs' \in [Ids -> JobRec]
      BY <2>3, <1>0, JobUpdates DEF Intend, Job
    <3> QED BY <2>3, <1>0, <3>1 DEF Intend, Job, Free, Fresh, Return
  <2>4. CASE End(i)
    <3>1. jobs' \in [Ids -> JobRec]
      BY <2>4, <1>0, JobUpdates DEF End, Job, Ended
    <3> QED BY <2>4, <1>0, <3>1 DEF End, Job, Ended, Free, Fresh, Return
  <2>5. CASE BlockCleanup(i)
    <3>1. jobs' \in [Ids -> JobRec]
      BY <2>5, <1>0, JobUpdates DEF BlockCleanup, Job
    <3> QED BY <2>5, <1>0, <3>1 DEF BlockCleanup, Job, Free, Fresh, Return
  <2>6. CASE Die(i)
    <3>1. jobs' \in [Ids -> JobRec]
      BY <2>6, <1>0, JobUpdates DEF Die
    <3> QED BY <2>6, <1>0, <3>1 DEF Die, Free, Fresh, Return
  <2>7. CASE Recover(i)
    <3>1. jobs' \in [Ids -> JobRec]
      BY <2>7, <1>0, JobUpdates DEF Recover, Job, Ended
    <3> QED BY <2>7, <1>0, <3>1 DEF Recover, Job, Ended, Free, Fresh, Return
  <2>8. CASE RetainUnlink(i)
    <3>1. jobs' \in [Ids -> JobRec]
      BY <2>8, <1>0, <1>0 DEF RetainUnlink, Removed
    <3> QED BY <2>8, <1>0, <3>1 DEF RetainUnlink, Removed, Free, Fresh, Return
  <2>9. CASE HookMark(i)
    BY <2>9, <1>0 DEF HookMark, Foreground, Free, Fresh, Return, ReceiptRec, Answers, Kinds,
      Receipts, Ids, None
  <2>10. CASE HookBlock(i)
    <3>1. jobs' \in [Ids -> JobRec]
      BY <2>10, <1>0, JobUpdates DEF HookBlock, Job, Foreground
    <3> QED BY <2>10, <1>0, <3>1 DEF HookBlock, Job, Foreground, Free, Fresh, Return
  <2>11. CASE HookRemove(i)
    <3>1. jobs' \in [Ids -> JobRec]
      BY <2>11, <1>0, <1>0 DEF HookRemove, Removed, Foreground
    <3> QED BY <2>11, <1>0, <3>1 DEF HookRemove, Removed, Foreground, Free, Fresh, Return
  <2> QED BY <1>3, <2>1, <2>2, <2>3, <2>4, <2>5, <2>6, <2>7, <2>8, <2>9, <2>10, <2>11 DEF JobStep
<1>4. ASSUME NEW lease \in {"reader", "global-writer"}, NEW p \in {None} \cup Stored,
         p # None => Foreground(p),
         ForegroundScan(lease, p)
      PROVE  TypeOK'
  <2>1. Fresh \in Ids /\ created' = Fresh
    BY <1>4 DEF ForegroundScan, AdmitScan
  <2>2. ForegroundJob(Fresh, lease, p) \in JobRec
    <3>1. p # None => jobs[p].lineage \in Ids \cup {None}
      BY DEF JobRec
    <3>2. lease \in Leases
      BY DEF Leases
    <3> QED BY <2>1, <3>1, <3>2, AdmittedJobs DEF ForegroundJob
  <2>3. "admitted" \in Answers
    BY DEF Answers
  <2>4. tx' \in TxType
    BY <1>4, <2>1, <2>2, <2>3 DEF ForegroundScan, AdmitScan, Begin, TxType
  <2> QED BY <1>4, <2>1, <2>4 DEF ForegroundScan, AdmitScan
<1>5. CASE RetainScan
  <2>1. tx' \in TxType
      BY <1>5, <1>0 DEF RetainScan, Begin, TxType, Answers, Receipts, None
  <2> QED BY <1>5, <2>1 DEF RetainScan, Removable, Ordinary
<1>6. CASE UNCHANGED vars
  BY <1>6, <1>0 DEF vars, Free, Fresh, Return, ReceiptRec, Answers, Kinds, Receipts, Ids, None
<1> QED BY <1>1, <1>2, <1>3, <1>4, <1>5, <1>6 DEF Next, ForegroundCall
(* What is not changed of a job by any write but its first and its removal; *)
(* what only a cancellation changes.                                        *)
Kept(r, s) ==
  /\ s.lease = r.lease /\ s.lineage = r.lineage
  /\ s.spawnKey = r.spawnKey /\ (s.granted <=> r.granted)
Noted(r, s) == (s.event <=> r.event) /\ s.history = r.history

LEMMA KeptStatus ==
  ASSUME NEW r \in JobRec, NEW s, NEW u,
         u = [r EXCEPT !.status = s]
  PROVE  Kept(r, u) /\ Noted(r, u) /\ (u.live <=> r.live) /\ u.status = s
BY DEF Kept, Noted, JobRec

(* A resumption and an interruption, under the lock, write a status.       *)
LEMMA StatusMoves ==
  ASSUME TypeOK, Issued, ResumeWrite \/ InterruptWrite
  PROVE  /\ tx.job \in Ids /\ \A i \in Ids \ {tx.job} : jobs'[i] = jobs[i]
         /\ Kept(jobs[tx.job], jobs'[tx.job]) /\ Noted(jobs[tx.job], jobs'[tx.job])
         /\ jobs'[tx.job].live <=> jobs[tx.job].live
         /\ \/ tx.op = "resume" /\ tx'.op = "publishResume" /\ jobs'[tx.job].status = "queued"
            \/ /\ tx.op = "interrupt" /\ tx'.op = "publishInterrupt"
               /\ jobs'[tx.job].status = "interrupted"
         /\ tx'.key = tx.key /\ tx'.job = tx.job /\ tx.key \in Keys
         /\ UNCHANGED <<receipts, created, late, retiring, answers, firstCancel>>
<1>1. tx.op \in {"resume", "interrupt"}
  BY DEF ResumeWrite, InterruptWrite
<1>2. tx.job \in Ids /\ tx.key \in Keys /\ jobs[tx.job] \in JobRec
  BY <1>1 DEF Issued, Keyed, Resuming, Interrupting, TypeOK
<1>3. CASE ResumeWrite
  <2>1. /\ jobs'[tx.job] = [jobs[tx.job] EXCEPT !.status = "queued", !.message = tx.key]
        /\ \A i \in Ids \ {tx.job} : jobs'[i] = jobs[i]
    BY <1>2, <1>3 DEF ResumeWrite, TypeOK
  <2>2. tx' = [tx EXCEPT !.op = "publishResume"] /\ tx.op = "resume"
    BY <1>3 DEF ResumeWrite
  <2>3. tx'.op = "publishResume" /\ tx'.key = tx.key /\ tx'.job = tx.job
    BY <2>2 DEF TypeOK, TxType
  <2>4. /\ Kept(jobs[tx.job], jobs'[tx.job]) /\ Noted(jobs[tx.job], jobs'[tx.job])
        /\ jobs'[tx.job].live <=> jobs[tx.job].live
        /\ jobs'[tx.job].status = "queued"
    BY <1>2, <2>1 DEF Kept, Noted, JobRec
  <2> QED BY <1>2, <1>3, <2>1, <2>2, <2>3, <2>4 DEF ResumeWrite, ghosts
<1>4. CASE InterruptWrite
  <2>1. /\ jobs'[tx.job] = [jobs[tx.job] EXCEPT !.status = "interrupted"]
        /\ \A i \in Ids \ {tx.job} : jobs'[i] = jobs[i]
    BY <1>2, <1>4 DEF InterruptWrite, TypeOK
  <2>2. tx' = [tx EXCEPT !.op = "publishInterrupt"] /\ tx.op = "interrupt"
    BY <1>4 DEF InterruptWrite
  <2>3. tx'.op = "publishInterrupt" /\ tx'.key = tx.key /\ tx'.job = tx.job
    BY <2>2 DEF TypeOK, TxType
  <2>4. /\ Kept(jobs[tx.job], jobs'[tx.job]) /\ Noted(jobs[tx.job], jobs'[tx.job])
        /\ jobs'[tx.job].live <=> jobs[tx.job].live
        /\ jobs'[tx.job].status = "interrupted"
    BY <1>2, <2>1, KeptStatus
  <2> QED BY <1>2, <1>4, <2>1, <2>2, <2>3, <2>4 DEF InterruptWrite, ghosts
<1> QED BY <1>3, <1>4

(* A cancellation answers one key, and ends no job but a queued one.       *)
LEMMA CancelMoves ==
  ASSUME TypeOK, NEW key \in Keys, NEW i \in Stored, CancelCommit(key, i)
  PROVE  /\ i \in Ids /\ \A d \in Ids \ {i} : jobs'[d] = jobs[d]
         /\ Kept(jobs[i], jobs'[i]) /\ (jobs'[i].live <=> jobs[i].live)
         /\ jobs'[i].event <=> jobs[i].event \/ Active(i)
         /\ jobs'[i].history[key] = CancelAnswer(jobs[i])
         /\ \A h \in Keys \ {key} : jobs'[i].history[h] = jobs[i].history[h]
         /\ \/ jobs'[i].status = jobs[i].status
            \/ jobs[i].status = "queued" /\ jobs'[i].status = "ended"
<1>1. i \in Ids /\ jobs[i] \in JobRec
  BY DEF Stored, TypeOK
<1>2. PICK r \in CancelledRecs(jobs[i], key) : jobs' = [jobs EXCEPT ![i] = r]
  BY DEF CancelCommit
<1>3. jobs'[i] = r /\ \A d \in Ids \ {i} : jobs'[d] = jobs[d]
  BY <1>1, <1>2 DEF TypeOK
<1> DEFINE ev == jobs[i].event \/ ActiveRec(jobs[i])
           noted == [jobs[i] EXCEPT !.history[key] = CancelAnswer(jobs[i]), !.event = ev]
<1>4. \/ r = noted
      \/ jobs[i].status = "queued" /\ r = [noted EXCEPT !.status = "ended", !.cleaned = TRUE]
  BY <1>2 DEF CancelledRecs
<1>5. ev \in BOOLEAN /\ noted \in JobRec
  <2>1. ev \in BOOLEAN
    BY <1>1 DEF JobRec
  <2>2. CancelAnswer(jobs[i]) \in Receipts
    BY DEF CancelAnswer, Receipts, ActiveRec
  <2> QED BY <1>1, <2>1, <2>2, JobNotes
<1>6. /\ Kept(jobs[i], noted) /\ (noted.live <=> jobs[i].live) /\ noted.status = jobs[i].status
      /\ noted.event <=> ev
      /\ noted.history[key] = CancelAnswer(jobs[i])
      /\ \A h \in Keys \ {key} : noted.history[h] = jobs[i].history[h]
  <2> HIDE DEF ev
  <2>1. noted = [jobs[i] EXCEPT !.history[key] = CancelAnswer(jobs[i]), !.event = ev]
    OBVIOUS
  <2> HIDE DEF noted
  <2> QED BY <1>1, <1>5, <2>1 DEF Kept, JobRec
<1> HIDE DEF noted
<1>7. r = [noted EXCEPT !.status = "ended", !.cleaned = TRUE] =>
        Kept(noted, r) /\ Noted(noted, r) /\ (r.live <=> noted.live) /\ r.status = "ended"
  BY <1>5 DEF Kept, Noted, JobRec
<1>8. CASE r = noted
  <2>1. jobs'[i] = noted
    BY <1>3, <1>8
  <2>2. ev <=> jobs[i].event \/ Active(i)
    BY DEF Active
  <2> HIDE DEF ev
  <2>3. jobs'[i].event <=> jobs[i].event \/ Active(i)
    BY <1>6, <2>1, <2>2
  <2>4. Kept(jobs[i], jobs'[i]) /\ (jobs'[i].live <=> jobs[i].live)
    BY <1>6, <2>1
  <2> QED BY <1>1, <1>3, <1>6, <2>1, <2>3, <2>4
<1>9. CASE jobs[i].status = "queued" /\ r = [noted EXCEPT !.status = "ended", !.cleaned = TRUE]
  BY <1>1, <1>3, <1>6, <1>7, <1>9 DEF Active, ev, Kept, Noted
<1> QED BY <1>4, <1>8, <1>9

(* An admission found nothing in the way of the job it is about to write.  *)
Admits(op, k, new) ==
  /\ AdmitScan(op, k, new) /\ op \in Admitting /\ Unborn(new)
  /\ op = "followup" => receipts["followup"][k].job = None
  /\ op = "followup" => new.granted /\ \A i \in Ids : ~Owns(i, k, TRUE)
  /\ op = "spawn" => \A i \in Ids : ~Owns(i, k, FALSE)
  /\ op = "spawn" => receipts["spawn"][k].job = None
  /\ op # "followup" => ~new.granted
  /\ op = "foreground" => k = NoKey /\ new.spawnKey = NoKey
  /\ op # "foreground" => k \in Keys /\ new.spawnKey = k

LEMMA SpawnAdmits ==
  ASSUME NEW key \in Keys, NEW p, SpawnScan(key, p)
  PROVE  Admits("spawn", key, SpawnedJob(Fresh, key, p))
<1>1. /\ AdmitScan("spawn", key, SpawnedJob(Fresh, key, p))
      /\ DigestOwners(key) = {} /\ receipts["spawn"][key] = NoReceipt
  BY DEF SpawnScan
<1>2. \A i \in Ids : ~Owns(i, key, FALSE)
  BY <1>1 DEF DigestOwners, Stored, Owns
<1> DEFINE new == SpawnedJob(Fresh, key, p)
<1>3. Unborn(new) /\ ~new.granted /\ new.spawnKey = key
  BY DEF SpawnedJob, NoJob, Unborn
<1>4. receipts["spawn"][key].job = None
  BY <1>1 DEF NoReceipt
<1> HIDE DEF new
<1> QED BY <1>1, <1>2, <1>3, <1>4 DEF Admits, Admitting, new

LEMMA FollowupAdmits ==
  ASSUME NEW key \in Keys, NEW p, FollowupScan(key, p)
  PROVE  Admits("followup", key, FollowupJob(key, p))
<1>1. /\ AdmitScan("followup", key, FollowupJob(key, p))
      /\ FollowupKeyOwners(key) = {} /\ receipts["followup"][key] = NoReceipt
  BY DEF FollowupScan
<1>2. \A i \in Ids : ~Owns(i, key, TRUE)
  BY <1>1 DEF FollowupKeyOwners, Stored, Owns
<1> DEFINE new == FollowupJob(key, p)
<1>3. Unborn(new) /\ new.granted /\ new.spawnKey = key
  BY DEF FollowupJob, NoJob, Unborn
<1>4. receipts["followup"][key].job = None
  BY <1>1 DEF NoReceipt
<1> HIDE DEF new
<1> QED BY <1>1, <1>2, <1>3, <1>4 DEF Admits, Admitting, new

LEMMA ForegroundAdmits ==
  ASSUME NEW lease, NEW p, ForegroundScan(lease, p)
  PROVE  Admits("foreground", NoKey, ForegroundJob(Fresh, lease, p))
<1>1. AdmitScan("foreground", NoKey, ForegroundJob(Fresh, lease, p))
  BY DEF ForegroundScan
<1> DEFINE new == ForegroundJob(Fresh, lease, p)
<1>2. Unborn(new) /\ ~new.granted /\ new.spawnKey = NoKey
  BY DEF ForegroundJob, NoJob, Unborn
<1> HIDE DEF new
<1> QED BY <1>1, <1>2 DEF Admits, Admitting, new

LEMMA AdmitMoves ==
  ASSUME TypeOK, NEW op, NEW k, NEW new, Admits(op, k, new)
  PROVE  /\ tx = Idle /\ created' = created + 1 /\ created' \in Ids
         /\ tx'.op = op /\ tx'.key = k /\ tx'.job = created' /\ tx'.rec = new
         /\ UNCHANGED <<jobs, receipts, late, retiring, answers, firstCancel>>
         /\ \A i \in Stored : ~Blocks(jobs[i], new)
BY DEF Admits, AdmitScan, Begin, Admissible, Free, Fresh, ghosts, Ids

LEMMA AdmitIssued ==
  ASSUME TypeOK, TypeOK', Issued, NEW op, NEW k, NEW new, Admits(op, k, new)
  PROVE  Issued'
<1>0. /\ op \in Admitting /\ Unborn(new) /\ (op # "foreground" => k \in Keys)
      /\ (op = "foreground" => new.spawnKey = NoKey)
      /\ (op # "foreground" => new.spawnKey = k)
      /\ (op = "followup" => new.granted) /\ (op # "followup" => ~new.granted)
  BY DEF Admits
<1>1. /\ tx = Idle /\ created' = created + 1 /\ created' \in Ids
      /\ tx'.op = op /\ tx'.key = k /\ tx'.job = created' /\ tx'.rec = new
      /\ UNCHANGED <<jobs, retiring, firstCancel>>
  BY AdmitMoves
<1>2. tx.op = "idle"
  BY <1>1 DEF Idle
<1>3. \A i \in Ids : i > created' => i > created
  BY <1>1 DEF Ids, TypeOK
<1>4. jobs'[tx'.job].status = "absent" /\ firstCancel'[tx'.job] = NoKey
  <2>1. created + 1 \in Ids /\ created + 1 > created
    BY <1>1 DEF Ids, TypeOK
  <2>2. Fresh0(created + 1)
    BY <2>1 DEF Issued
  <2> QED BY <1>1, <2>2 DEF Fresh0
<1>6. (op \in Keyed => op # "foreground") /\ op # "retain"
  BY <1>0 DEF Admitting, Keyed, Resuming, Interrupting
<1>7. (\A i \in Ids : i > created => Fresh0(i))'
  BY <1>1, <1>3 DEF Issued, Fresh0
<1>8. /\ tx'.job = created' /\ Fresh0(tx.job)' /\ Unborn(new)
      /\ tx'.rec.granted <=> tx'.op = "followup"
      /\ tx'.op = "foreground" => tx'.rec.spawnKey = NoKey
      /\ tx'.op # "foreground" => tx'.rec.spawnKey = tx'.key
  BY <1>0, <1>1, <1>4 DEF Fresh0
<1>9. Unborn(tx.rec)'
  BY <1>0, <1>1 DEF Unborn
<1>10. tx'.job \in Ids /\ (tx'.op \in Keyed => tx'.key \in Keys) /\ retiring' = {}
  BY <1>0, <1>1, <1>2, <1>6 DEF Issued
<1> QED BY <1>7, <1>8, <1>9, <1>10 DEF Issued, Fresh0

LEMMA StatusIssued ==
  ASSUME TypeOK, Issued, ResumeWrite \/ InterruptWrite, jobs[tx.job].status # "absent"
  PROVE  Issued'
<1>1. /\ tx.job \in Ids /\ \A i \in Ids \ {tx.job} : jobs'[i] = jobs[i]
      /\ tx'.op \in {"publishResume", "publishInterrupt"} /\ tx.op \in {"resume", "interrupt"}
      /\ tx'.key = tx.key /\ tx'.job = tx.job /\ tx.key \in Keys
      /\ UNCHANGED <<created, retiring, firstCancel>>
  BY StatusMoves
<1>2. (\A i \in Ids : i > created => Fresh0(i))'
  BY <1>1 DEF Issued, Fresh0
<1>3. tx'.op \notin Admitting /\ retiring' = {}
  BY <1>1 DEF Admitting, Issued
<1> QED BY <1>1, <1>2, <1>3 DEF Issued

LEMMA AnswerAnswered ==
  ASSUME TypeOK, Answered, NEW kind \in Kinds, NEW key \in Keys, NEW a,
         a.job \in Ids, receipts[kind][key].job = a.job,
         Answer(kind, key, a), receipts' = receipts
  PROVE  Answered'
<1>1. \A k \in Kinds, h \in Keys : k # kind \/ h # key => answers'[k][h] = answers[k][h]
  BY DEF Answer, TypeOK
<1>2. answers'[kind][key] = answers[kind][key] \cup {a}
  BY DEF Answer, TypeOK
<1>3. a.job # None
  BY DEF Ids, None
<1> QED BY <1>1, <1>2, <1>3 DEF Answered

(* An answer published under a key that had none, or the same job, agrees  *)
(* with its receipt.                                                       *)
LEMMA PublishAnswered ==
  ASSUME TypeOK, Answered, NEW kind \in Kinds, NEW key \in Keys, NEW j \in Ids, NEW a,
         receipts[kind][key].job \in {None, j}, Publishes(kind, key, j, a)
  PROVE  Answered'
<1>1. /\ receipts' = [receipts EXCEPT ![kind][key] = [job |-> j, answer |-> a]]
      /\ answers' = [answers EXCEPT ![kind][key] = @ \cup {[job |-> j, answer |-> a]}]
  BY DEF Publishes, WriteReceipt, Answer
<1>2. j # None
  BY DEF Ids, None
<1>3. \A k \in Kinds, h \in Keys : k # kind \/ h # key =>
        receipts'[k][h] = receipts[k][h] /\ answers'[k][h] = answers[k][h]
  BY <1>1 DEF TypeOK
<1>4. /\ receipts'[kind][key].job = j
      /\ answers'[kind][key] = answers[kind][key] \cup {[job |-> j, answer |-> a]}
  BY <1>1 DEF TypeOK
<1>5. \A b \in answers[kind][key] : b.job = j
  BY DEF Answered
<1>6. \A b \in answers'[kind][key] : b.job = j
  BY <1>4, <1>5
<1> QED BY <1>2, <1>3, <1>4, <1>6 DEF Answered


(* A step that makes no job and publishes for no follow-up leaves the      *)
(* owners of keys alone.                                                   *)
LEMMA OwnedFrame ==
  ASSUME TypeOK, Owned, receipts'["followup"] = receipts["followup"], late' \subseteq late,
         \A i \in Ids : jobs'[i].status # "absent" =>
                          jobs[i].status # "absent" /\ Kept(jobs[i], jobs'[i]),
         \A l \in late' : jobs'[l.job].status # "absent" /\ l.job \notin retiring',
         tx'.op \in {"spawn", "followup"} => tx' = tx
  PROVE  Owned'
<1>1. \A i \in Ids, k \in Keys, g \in BOOLEAN : Owns(i, k, g)' => Owns(i, k, g)
  BY DEF Owns, Kept
<1>2. \A l \in late' : l.job \in Ids /\ l.key \in Keys /\ Owns(l.job, l.key, TRUE)'
  BY DEF TypeOK, Owned, Owns, Kept
<1>3. (\A key \in Keys, i, j \in Ids :
        /\ Owns(i, key, TRUE) /\ Owns(j, key, TRUE) => i = j
        /\ Owns(i, key, FALSE) /\ Owns(j, key, FALSE) => i = j
        /\ Owns(i, key, TRUE) => receipts["followup"][key].job \in {None, i})'
  BY <1>1 DEF Owned
<1>4. /\ (tx.op = "spawn" => \A i \in Ids : ~Owns(i, tx.key, FALSE))'
      /\ (tx.op = "followup" => \A i \in Ids : ~Owns(i, tx.key, TRUE))'
  <2>1. CASE tx' = tx
    BY <2>1 DEF Owned, Owns, Kept
  <2>2. CASE tx'.op \notin {"spawn", "followup"}
    BY <2>2
  <2> QED BY <2>1, <2>2
<1> QED BY <1>2, <1>3, <1>4 DEF Owned

LEMMA StatusOwned ==
  ASSUME TypeOK, Issued, Owned, ResumeWrite \/ InterruptWrite,
         jobs[tx.job].status # "absent"
  PROVE  Owned'
<1>1. /\ tx.job \in Ids /\ \A i \in Ids \ {tx.job} : jobs'[i] = jobs[i]
      /\ Kept(jobs[tx.job], jobs'[tx.job]) /\ jobs'[tx.job].status # "absent"
      /\ tx'.op \notin {"spawn", "followup"}
      /\ UNCHANGED <<receipts, late, retiring>>
  BY StatusMoves
<1>2. \A i \in Ids : jobs'[i].status # "absent" =>
                       jobs[i].status # "absent" /\ Kept(jobs[i], jobs'[i])
  BY <1>1 DEF Kept
<1>3. \A l \in late : jobs'[l.job].status # "absent" /\ l.job \notin retiring
  BY <1>1 DEF Owned, Owns, TypeOK
<1> QED BY <1>1, <1>2, <1>3, OwnedFrame

LEMMA CancelOwned ==
  ASSUME TypeOK, Owned, NEW key \in Keys, NEW i \in Stored, CancelCommit(key, i)
  PROVE  Owned'
<1>1. /\ i \in Ids /\ \A d \in Ids \ {i} : jobs'[d] = jobs[d]
      /\ Kept(jobs[i], jobs'[i])
      /\ \/ jobs'[i].status = jobs[i].status
         \/ jobs[i].status = "queued" /\ jobs'[i].status = "ended"
      /\ jobs[i].status # "absent"
  BY CancelMoves DEF Stored
<1>2. UNCHANGED <<receipts, late, retiring>> /\ tx'.op = "publishCancel"
  BY DEF CancelCommit, Begin
<1>3. \A d \in Ids : jobs'[d].status # "absent" =>
                       jobs[d].status # "absent" /\ Kept(jobs[d], jobs'[d])
  BY <1>1 DEF Kept
<1>4. \A l \in late : jobs'[l.job].status # "absent" /\ l.job \notin retiring
  BY <1>1 DEF Owned, Owns, TypeOK
<1> QED BY <1>2, <1>3, <1>4, OwnedFrame

(* A hook removes only jobs no broker admitted.                            *)
LEMMA RemovedOwned ==
  ASSUME TypeOK, Owned, NEW i \in Stored, HookRemove(i)
  PROVE  Owned'
<1>1. /\ i \in Ids /\ jobs[i].spawnKey = NoKey /\ jobs'[i] = NoJob
      /\ \A d \in Ids \ {i} : jobs'[d] = jobs[d]
      /\ UNCHANGED <<receipts, tx, late, retiring>>
  BY DEF HookRemove, Foreground, Removed, Stored, TypeOK
<1>2. \A d \in Ids : jobs'[d].status # "absent" =>
                       jobs[d].status # "absent" /\ Kept(jobs[d], jobs'[d])
  BY <1>1 DEF Kept, NoJob
<1>3. \A l \in late : l.job # i
  BY <1>1, WorkerJobsAssumption DEF Owned, Owns, TypeOK, Keys
<1>4. \A l \in late : jobs'[l.job].status # "absent" /\ l.job \notin retiring
  BY <1>1, <1>3 DEF Owned, Owns, TypeOK
<1> QED BY <1>1, <1>2, <1>4, OwnedFrame

LEMMA OtherReceipts ==
  ASSUME TypeOK, NEW kind, kind # "followup", NEW key, NEW j, NEW a, Publishes(kind, key, j, a)
  PROVE  receipts'["followup"] = receipts["followup"]
BY DEF TypeOK, Kinds, Publishes, WriteReceipt

LEMMA AdmitOwned ==
  ASSUME TypeOK, Owned, NEW op, NEW k, NEW new, Admits(op, k, new)
  PROVE  Owned'
<1>1. /\ tx = Idle /\ tx'.op = op /\ tx'.key = k
      /\ UNCHANGED <<jobs, receipts, late, retiring>>
  BY AdmitMoves
<1> QED BY <1>1 DEF Owned, Owns, Admits

LEMMA WriteOwned ==
  ASSUME TypeOK, Issued, Owned, Unpublished, WriteNewJob
  PROVE  Owned'
<1>1. /\ tx.job \in Ids /\ tx.op \in Admitting /\ jobs'[tx.job] = tx.rec
      /\ \A i \in Ids \ {tx.job} : jobs'[i] = jobs[i]
      /\ receipts' = receipts /\ retiring' = {}
      /\ tx'.op \notin {"spawn", "followup"}
  BY DEF WriteNewJob, TypeOK, TxType, Issued, Admitting, Return, Idle
<1>2. /\ jobs[tx.job].status = "absent" /\ tx.rec.status = "queued"
      /\ tx.rec.granted <=> tx.op = "followup"
      /\ tx.op = "foreground" => tx.rec.spawnKey = NoKey
      /\ tx.op # "foreground" => tx.rec.spawnKey = tx.key /\ tx.key \in Keys
  BY <1>1 DEF Issued, Fresh0, Unborn, Admitting, Keyed
<1>3. ASSUME NEW k \in Keys, NEW g \in BOOLEAN
      PROVE  \A i \in Ids : Owns(i, k, g)' =>
               \/ i # tx.job /\ Owns(i, k, g)
               \/ i = tx.job /\ tx.op # "foreground" /\ k = tx.key /\ (g <=> tx.op = "followup")
  BY <1>1, <1>2, WorkerJobsAssumption DEF Owns, Keys
<1>4. /\ tx.op = "spawn" => \A i \in Ids : ~Owns(i, tx.key, FALSE)
      /\ tx.op = "followup" => \A i \in Ids : ~Owns(i, tx.key, TRUE)
      /\ tx.op = "followup" => receipts["followup"][tx.key].job = None
  BY DEF Owned, Unpublished
<1>5. tx.op \in {"spawn", "followup", "foreground"}
  BY <1>1 DEF Admitting
<1>6. (\A key \in Keys, i, j \in Ids :
        /\ Owns(i, key, TRUE) /\ Owns(j, key, TRUE) => i = j
        /\ Owns(i, key, FALSE) /\ Owns(j, key, FALSE) => i = j
        /\ Owns(i, key, TRUE) => receipts["followup"][key].job \in {None, i})'
  <2> SUFFICES ASSUME NEW key \in Keys, NEW i \in Ids, NEW j \in Ids
               PROVE  (/\ Owns(i, key, TRUE) /\ Owns(j, key, TRUE) => i = j
                       /\ Owns(i, key, FALSE) /\ Owns(j, key, FALSE) => i = j
                       /\ Owns(i, key, TRUE) => receipts["followup"][key].job \in {None, i})'
    OBVIOUS
  <2>1. ASSUME NEW d \in {i, j}
        PROVE  /\ Owns(d, key, TRUE)' => \/ d # tx.job /\ Owns(d, key, TRUE)
                                         \/ d = tx.job /\ key = tx.key /\ tx.op = "followup"
               /\ Owns(d, key, FALSE)' => \/ d # tx.job /\ Owns(d, key, FALSE)
                                          \/ d = tx.job /\ key = tx.key /\ tx.op = "spawn"
    BY <1>3, <1>5
  <2>2. /\ Owns(i, key, TRUE) /\ Owns(j, key, TRUE) => i = j
        /\ Owns(i, key, FALSE) /\ Owns(j, key, FALSE) => i = j
        /\ Owns(i, key, TRUE) => receipts["followup"][key].job \in {None, i}
    BY DEF Owned
  <2> QED BY <1>1, <1>4, <2>1, <2>2
<1>7. (\A l \in late : Owns(l.job, l.key, TRUE) /\ l.job \notin retiring)'
  <2> SUFFICES ASSUME NEW l \in late' PROVE Owns(l.job, l.key, TRUE)'
    BY <1>1
  <2>1. CASE l \in late
    BY <1>1, <1>2, <2>1 DEF Owned, Owns, TypeOK
  <2>2. CASE l \notin late
    <3>1. l = [key |-> tx.key, job |-> tx.job] /\ tx.op = "followup"
      BY <2>2 DEF WriteNewJob
    <3> QED BY <1>1, <1>2, <3>1 DEF Owns
  <2> QED BY <2>1, <2>2
<1> QED BY <1>1, <1>6, <1>7 DEF Owned

LEMMA PublishedOwned ==
  ASSUME TypeOK, Owned, NEW l \in late, PublishFollowup(l)
  PROVE  Owned'
<1>1. /\ UNCHANGED <<jobs, tx, retiring>> /\ late' \subseteq late /\ l.key \in Keys
      /\ receipts'["followup"][l.key].job = l.job
      /\ \A k \in Keys \ {l.key} : receipts'["followup"][k] = receipts["followup"][k]
  BY DEF PublishFollowup, Publishes, WriteReceipt, TypeOK, Kinds
<1>2. \A i \in Ids : Owns(i, l.key, TRUE) => i = l.job
  BY DEF Owned, TypeOK
<1> QED BY <1>1, <1>2 DEF Owned, Owns

(* A step after which no other job may run than before.                    *)
LEMMA ApartFrame ==
  ASSUME Apart,
         \A i \in Ids : /\ jobs'[i].live => jobs'[i].status \in {"running", "interrupted"}
                        /\ jobs'[i].status = "interrupted" => jobs'[i].spawnKey # NoKey
                        /\ MayRun(i)' => MayRun(i) /\ Kept(jobs[i], jobs'[i]),
         tx'.op \in Admitting => tx' = tx,
         tx'.op = "resume" => jobs'[tx'.job].status = "interrupted" /\ ~jobs'[tx'.job].live,
         tx'.op = "interrupt" =>
           ActiveRec(jobs'[tx'.job]) /\ jobs'[tx'.job].spawnKey # NoKey
  PROVE  Apart'
<1>1. (\A i, j \in Ids : i # j /\ MayRun(i) /\ MayRun(j) => AreApart(jobs[i], jobs[j]))'
  BY DEF Apart, Kept, AreApart
<1>2. (tx.op \in Admitting => \A i \in Ids : MayRun(i) => AreApart(jobs[i], tx.rec))'
  BY DEF Apart, Kept, AreApart
<1> QED BY <1>1, <1>2 DEF Apart, ActiveRec

LEMMA StatusApart ==
  ASSUME TypeOK, Issued, Apart, ResumeWrite \/ InterruptWrite
  PROVE  Apart'
<1>1. /\ tx.job \in Ids /\ \A i \in Ids \ {tx.job} : jobs'[i] = jobs[i]
      /\ Kept(jobs[tx.job], jobs'[tx.job])
      /\ jobs'[tx.job].live <=> jobs[tx.job].live
      /\ \/ tx.op = "resume" /\ jobs'[tx.job].status = "queued"
         \/ tx.op = "interrupt" /\ jobs'[tx.job].status = "interrupted"
      /\ tx'.op \in {"publishResume", "publishInterrupt"}
  BY StatusMoves
<1>2. MayRun(tx.job) /\ jobs[tx.job].spawnKey # NoKey
      /\ (tx.op = "resume" => ~jobs[tx.job].live)
  BY <1>1 DEF Apart, MayRun, ActiveRec
<1>3. \A i \in Ids : /\ jobs'[i].live => jobs'[i].status \in {"running", "interrupted"}
                     /\ jobs'[i].status = "interrupted" => jobs'[i].spawnKey # NoKey
                     /\ MayRun(i)' => MayRun(i) /\ Kept(jobs[i], jobs'[i])
  <2>1. ASSUME NEW i \in Ids, i # tx.job
        PROVE  /\ jobs'[i].live => jobs'[i].status \in {"running", "interrupted"}
               /\ jobs'[i].status = "interrupted" => jobs'[i].spawnKey # NoKey
               /\ MayRun(i)' => MayRun(i) /\ Kept(jobs[i], jobs'[i])
    BY <1>1, <2>1 DEF Apart, MayRun, Kept
  <2>2. /\ jobs'[tx.job].live => jobs'[tx.job].status \in {"running", "interrupted"}
        /\ jobs'[tx.job].status = "interrupted" => jobs'[tx.job].spawnKey # NoKey
    BY <1>1, <1>2 DEF Kept
  <2> QED BY <1>1, <1>2, <2>1, <2>2
<1>4. tx'.op \notin Admitting /\ tx'.op \notin {"resume", "interrupt"}
  BY <1>1 DEF Admitting
<1> QED BY <1>3, <1>4, ApartFrame

LEMMA AdmitApart ==
  ASSUME TypeOK, Apart, NEW op, NEW k, NEW new, Admits(op, k, new)
  PROVE  Apart'
<1>1. /\ tx'.op = op /\ tx'.rec = new /\ jobs' = jobs /\ op \in Admitting
      /\ \A i \in Stored : ~Blocks(jobs[i], new)
  BY AdmitMoves DEF Admits
<1>2. \A i \in Ids : MayRun(i) => i \in Stored /\ ActiveRec(jobs[i])
  BY DEF MayRun, Apart, ActiveRec, Stored
<1>3. \A i \in Ids : MayRun(i) => AreApart(jobs[i], new)
  BY <1>1, <1>2 DEF Blocks, AreApart
<1> QED BY <1>1, <1>3 DEF Apart, MayRun, Admitting

LEMMA MarkApart ==
  ASSUME TypeOK, Apart, NEW key, NEW i \in Stored, ~Foreground(i), InterruptMark(key, i)
  PROVE  Apart'
<1>1. /\ jobs' = jobs /\ tx'.op = "interrupt" /\ tx'.job = i
      /\ ActiveRec(jobs[i]) /\ jobs[i].spawnKey # NoKey
  BY DEF InterruptMark, Begin, CanPreserve, Foreground
<1> QED BY <1>1 DEF Apart, MayRun, Admitting

LEMMA CancelApart ==
  ASSUME TypeOK, Apart, NEW key \in Keys, NEW i \in Stored, CancelCommit(key, i)
  PROVE  Apart'
<1>1. /\ i \in Ids /\ \A d \in Ids \ {i} : jobs'[d] = jobs[d]
      /\ Kept(jobs[i], jobs'[i]) /\ (jobs'[i].live <=> jobs[i].live)
      /\ \/ jobs'[i].status = jobs[i].status
         \/ jobs[i].status = "queued" /\ jobs'[i].status = "ended"
  BY CancelMoves
<1>2. tx'.op = "publishCancel"
  BY DEF CancelCommit, Begin
<1>3. \A d \in Ids : /\ jobs'[d].live => jobs'[d].status \in {"running", "interrupted"}
                     /\ jobs'[d].status = "interrupted" => jobs'[d].spawnKey # NoKey
                     /\ MayRun(d)' => MayRun(d) /\ Kept(jobs[d], jobs'[d])
  BY <1>1 DEF Apart, MayRun, Kept
<1> QED BY <1>2, <1>3, ApartFrame DEF Admitting

LEMMA StatusTold ==
  ASSUME TypeOK, Issued, Told, ResumeWrite \/ InterruptWrite, jobs[tx.job].status # "absent"
  PROVE  Told'
<1>1. /\ tx.job \in Ids /\ \A i \in Ids \ {tx.job} : jobs'[i] = jobs[i]
      /\ Noted(jobs[tx.job], jobs'[tx.job])
      /\ tx'.op # "publishCancel"
      /\ UNCHANGED <<receipts, answers, firstCancel>>
  BY StatusMoves
<1> QED BY <1>1 DEF Told, Noted

LEMMA WriteTold ==
  ASSUME TypeOK, Issued, Told, WriteNewJob
  PROVE  Told'
<1>1. /\ tx.job \in Ids /\ tx.op \in Admitting /\ jobs'[tx.job] = tx.rec
      /\ \A i \in Ids \ {tx.job} : jobs'[i] = jobs[i]
      /\ UNCHANGED <<receipts, answers, firstCancel>>
      /\ tx'.op # "publishCancel"
  BY DEF WriteNewJob, TypeOK, TxType, Issued, Admitting, Return, Idle
<1>2. /\ firstCancel[tx.job] = NoKey /\ \A k \in Keys : tx.rec.history[k] = "none" /\ k # NoKey
  BY <1>1, WorkerJobsAssumption DEF Issued, Fresh0, Unborn, Keys
<1> QED BY <1>1, <1>2 DEF Told

LEMMA CancelTold ==
  ASSUME TypeOK, TypeOK', Told, NEW key \in Keys, NEW i \in Stored, CancelCommit(key, i)
  PROVE  Told'
<1>1. /\ i \in Ids /\ \A d \in Ids \ {i} : jobs'[d] = jobs[d]
      /\ jobs'[i].event <=> jobs[i].event \/ Active(i)
      /\ jobs'[i].history[key] = CancelAnswer(jobs[i])
      /\ \A h \in Keys \ {key} : jobs'[i].history[h] = jobs[i].history[h]
      /\ jobs[i].status # "absent"
  BY CancelMoves DEF Stored
<1>2. /\ UNCHANGED <<receipts, answers>> /\ receipts["cancel"][key] = NoReceipt
      /\ jobs[i].history[key] = "none"
      /\ tx'.op = "publishCancel" /\ tx'.key = key /\ tx'.job = i
      /\ tx'.answer = CancelAnswer(jobs[i])
      /\ firstCancel' = IF CancelAnswer(jobs[i]) = "accepted"
                          THEN [firstCancel EXCEPT ![i] = key] ELSE firstCancel
  BY DEF CancelCommit, MayCancel, RecoveryJobs, Begin
<1>3. key # NoKey /\ \A k \in Keys : k # NoKey
  BY WorkerJobsAssumption DEF Keys
<1>4. firstCancel[i] # key
  BY <1>1, <1>2 DEF Told
<1>5. receipts["cancel"][key].job = None /\ answers["cancel"][key] = answers'["cancel"][key]
  BY <1>2 DEF NoReceipt
<1>6. CASE CancelAnswer(jobs[i]) = "accepted"
  <2>1. ~jobs[i].event /\ Active(i)
    BY <1>6 DEF CancelAnswer, Active, ActiveRec
  <2>2. /\ firstCancel[i] = NoKey /\ firstCancel'[i] = key
        /\ \A d \in Ids \ {i} : firstCancel'[d] = firstCancel[d]
    BY <1>1, <1>2, <1>6, <2>1 DEF Told, TypeOK
  <2>3. \A k \in Keys : jobs'[i].history[k] = "accepted" <=> firstCancel'[i] = k
    BY <1>1, <1>3, <1>6, <2>2 DEF Told
  <2>4. ASSUME NEW h \in Keys, receipts["cancel"][h].job # None
        PROVE  receipts["cancel"][h].answer = "accepted"
                 <=> firstCancel'[receipts["cancel"][h].job] = h
    <3>1. h # key /\ receipts["cancel"][h].job \in Ids
      BY <1>5, <2>4 DEF TypeOK, Kinds, ReceiptRec
    <3> QED BY <1>3, <2>2, <2>4, <3>1 DEF Told
  <2> QED BY <1>1, <1>2, <1>6, <2>1, <2>2, <2>3, <2>4 DEF Told
<1>7. CASE CancelAnswer(jobs[i]) # "accepted"
  <2>1. firstCancel' = firstCancel
    BY <1>2, <1>7
  <2>2. \A k \in Keys : jobs'[i].history[k] = "accepted" <=> firstCancel'[i] = k
    BY <1>1, <1>4, <1>7, <2>1 DEF Told
  <2> QED BY <1>1, <1>2, <1>4, <1>7, <2>1, <2>2 DEF Told
<1> QED BY <1>6, <1>7

(* An answer published under a key that had none says what the job says.   *)
LEMMA PublishedTold ==
  ASSUME TypeOK, Answered, Told, NEW key \in Keys, NEW j \in Ids, NEW a,
         Publishes("cancel", key, j, a), receipts["cancel"][key].job = None,
         a = "accepted" <=> firstCancel[j] = key,
         UNCHANGED <<jobs, firstCancel>>, tx'.op # "publishCancel"
  PROVE  Told'
<1> DEFINE r == [job |-> j, answer |-> a]
<1>1. /\ receipts'["cancel"][key] = r
      /\ answers'["cancel"][key] = answers["cancel"][key] \cup {r}
      /\ \A k \in Keys \ {key} : /\ receipts'["cancel"][k] = receipts["cancel"][k]
                                 /\ answers'["cancel"][k] = answers["cancel"][k]
  BY DEF Publishes, WriteReceipt, Answer, TypeOK, Kinds
<1>2. answers["cancel"][key] = {}
  BY DEF Answered, Kinds, TypeOK
<1>3. r.job = j /\ r.answer = a
  OBVIOUS
<1> HIDE DEF r
<1> QED BY <1>1, <1>2, <1>3 DEF Told

LEMMA RecoverTold ==
  ASSUME TypeOK, Answered, Told, NEW key \in Keys, NEW i \in Stored, CancelRecover(key, i)
  PROVE  Told'
<1>1. /\ receipts["cancel"][key].job = None /\ tx'.op # "publishCancel"
      /\ jobs[i].history[key] = "accepted" <=> firstCancel[i] = key
      /\ UNCHANGED <<jobs, firstCancel>>
      /\ Publishes("cancel", key, i, jobs[i].history[key])
  BY DEF CancelRecover, Free, Idle, NoReceipt, Told, Stored
<1> QED BY <1>1, PublishedTold DEF Stored

LEMMA PublishTold ==
  ASSUME TypeOK, Issued, Answered, Unpublished, Told, PublishCancel
  PROVE  Told'
<1>1. /\ tx.key \in Keys /\ tx.job \in Ids /\ receipts["cancel"][tx.key].job = None
      /\ tx.answer = "accepted" <=> firstCancel[tx.job] = tx.key
      /\ UNCHANGED <<jobs, firstCancel>> /\ tx'.op # "publishCancel"
      /\ Publishes("cancel", tx.key, tx.job, tx.answer)
  BY DEF PublishCancel, Issued, Keyed, Unpublished, Told, Return, Idle
<1> QED BY <1>1, PublishedTold

LEMMA AdmitTold ==
  ASSUME TypeOK, Told, NEW op, NEW k, NEW new, Admits(op, k, new)
  PROVE  Told'
<1>1. /\ tx'.op = op /\ op \in Admitting
      /\ UNCHANGED <<jobs, receipts, answers, firstCancel>>
  BY AdmitMoves DEF Admits
<1> QED BY <1>1 DEF Told, Admitting

LEMMA AdmitUnpublished ==
  ASSUME TypeOK, NEW op, NEW k, NEW new, Admits(op, k, new)
  PROVE  Unpublished'
<1>1. /\ tx'.op = op /\ tx'.key = k /\ receipts' = receipts
  BY AdmitMoves
<1>2. /\ op \in {"spawn", "followup", "foreground"}
      /\ op = "spawn" => receipts["spawn"][k].job = None
      /\ op = "followup" => receipts["followup"][k].job = None
  BY DEF Admits, Admitting
<1> QED BY <1>1, <1>2 DEF Unpublished, Resuming, Interrupting

LEMMA AdmitAnswered ==
  ASSUME TypeOK, Answered, NEW op, NEW k, NEW new, Admits(op, k, new)
  PROVE  Answered'
BY AdmitMoves DEF Answered

LEMMA WriteIssued ==
  ASSUME TypeOK, Issued, WriteNewJob
  PROVE  Issued'
<1>1. /\ tx.job = created /\ tx.op \in Admitting /\ tx.job \in Ids /\ retiring = {}
      /\ tx.op = "spawn" => tx.key \in Keys
  BY DEF WriteNewJob, Issued, Admitting, Keyed
<1>2. /\ \A i \in Ids \ {tx.job} : jobs'[i] = jobs[i]
      /\ UNCHANGED <<created, retiring, firstCancel>>
      /\ \/ tx'.op = "idle"
         \/ tx.op = "spawn" /\ tx'.op = "publish" /\ tx'.key = tx.key /\ tx'.job = tx.job
  BY <1>1 DEF WriteNewJob, TypeOK, TxType, Return, Idle
<1>3. (\A i \in Ids : i > created => Fresh0(i))'
  BY <1>1, <1>2 DEF Issued, Fresh0, TypeOK, Ids
<1>4. tx'.op \notin Admitting
  BY <1>2 DEF Admitting
<1>5. /\ tx'.op \notin {"idle", "retain"} => tx'.job \in Ids
      /\ tx'.op \in Keyed => tx'.key \in Keys
  BY <1>1, <1>2 DEF Keyed, Resuming, Interrupting
<1> QED BY <1>1, <1>2, <1>3, <1>4, <1>5 DEF Issued

(* What retention does to the jobs and to the call that runs it.           *)
LEMMA UnlinkMoves ==
  ASSUME TypeOK, NEW i \in Stored, RetainUnlink(i)
  PROVE  /\ i \in Ids /\ i \in retiring /\ jobs'[i] = NoJob
         /\ \A d \in Ids \ {i} : jobs'[d] = jobs[d]
         /\ tx'.op \in {"idle", "retain"} /\ retiring' \subseteq retiring
         /\ UNCHANGED <<receipts, created, late, crashes, answers, firstCancel>>
<1>1. i \in Ids /\ i \in retiring
  BY DEF RetainUnlink, Stored
<1>2. jobs'[i] = NoJob /\ \A d \in Ids \ {i} : jobs'[d] = jobs[d]
  <2>1. jobs \in [Ids -> JobRec]  BY DEF TypeOK
  <2> QED BY <1>1, <2>1 DEF RetainUnlink, Removed
<1>3. tx'.op \in {"idle", "retain"}
  <2>1. CASE retiring = {i}  BY <2>1 DEF RetainUnlink, Idle
  <2>2. CASE retiring # {i}  BY <2>2 DEF RetainUnlink
  <2> QED BY <2>1, <2>2
<1>4. /\ retiring' \subseteq retiring
      /\ UNCHANGED <<receipts, created, late, crashes, answers, firstCancel>>
  BY DEF RetainUnlink, ghosts
<1> QED BY <1>1, <1>2, <1>3, <1>4

LEMMA UnlinkOwned ==
  ASSUME TypeOK, Owned, NEW i \in Stored, RetainUnlink(i)
  PROVE  Owned'
<1>1. /\ i \in Ids /\ i \in retiring /\ jobs'[i] = NoJob
      /\ \A d \in Ids \ {i} : jobs'[d] = jobs[d]
      /\ tx'.op \in {"idle", "retain"} /\ retiring' \subseteq retiring
      /\ UNCHANGED <<receipts, late>>
  BY UnlinkMoves
<1>2. \A d \in Ids : jobs'[d].status # "absent" =>
                       jobs[d].status # "absent" /\ Kept(jobs[d], jobs'[d])
  BY <1>1 DEF Kept, NoJob
<1>3. \A l \in late : l.job # i /\ jobs[l.job].status # "absent" /\ l.job \notin retiring
                       /\ l.job \in Ids
  BY <1>1 DEF Owned, Owns, TypeOK
<1>4. \A l \in late : jobs'[l.job].status # "absent" /\ l.job \notin retiring'
  BY <1>1, <1>3
<1> QED BY <1>1, <1>2, <1>4, OwnedFrame

LEMMA UnlinkApart ==
  ASSUME TypeOK, Apart, NEW i \in Stored, RetainUnlink(i)
  PROVE  Apart'
<1>1. /\ i \in Ids /\ jobs'[i] = NoJob /\ \A d \in Ids \ {i} : jobs'[d] = jobs[d]
      /\ tx'.op \in {"idle", "retain"}
  BY UnlinkMoves
<1>2. \A d \in Ids : /\ jobs'[d].live => jobs'[d].status \in {"running", "interrupted"}
                     /\ jobs'[d].status = "interrupted" => jobs'[d].spawnKey # NoKey
                     /\ MayRun(d)' => MayRun(d) /\ Kept(jobs[d], jobs'[d])
  <2>1. ASSUME NEW d \in Ids, d # i
        PROVE  /\ jobs'[d].live => jobs'[d].status \in {"running", "interrupted"}
               /\ jobs'[d].status = "interrupted" => jobs'[d].spawnKey # NoKey
               /\ MayRun(d)' => MayRun(d) /\ Kept(jobs[d], jobs'[d])
    BY <1>1, <2>1 DEF Apart, MayRun, Kept
  <2>2. ~jobs'[i].live /\ jobs'[i].status = "absent" /\ ~MayRun(i)'
    BY <1>1 DEF NoJob, MayRun
  <2> QED BY <2>1, <2>2
<1> QED BY <1>1, <1>2, ApartFrame DEF Admitting

LEMMA WriteApart ==
  ASSUME TypeOK, Issued, Apart, WriteNewJob
  PROVE  Apart'
<1>1. /\ tx.job \in Ids /\ tx.op \in Admitting /\ jobs'[tx.job] = tx.rec
      /\ \A i \in Ids \ {tx.job} : jobs'[i] = jobs[i]
      /\ tx'.op \in {"idle", "publish"}
  BY DEF WriteNewJob, TypeOK, TxType, Issued, Admitting, Return, Idle
<1>2. tx.rec.status = "queued" /\ ~tx.rec.live
  BY <1>1 DEF Issued, Unborn
<1>3. \A i \in Ids \ {tx.job} : MayRun(i)' => MayRun(i) /\ jobs'[i] = jobs[i]
  BY <1>1 DEF MayRun
<1>4. \A i \in Ids : MayRun(i) => AreApart(jobs[i], tx.rec)
  BY <1>1 DEF Apart
<1>5. (\A i, j \in Ids : i # j /\ MayRun(i) /\ MayRun(j) => AreApart(jobs[i], jobs[j]))'
  BY <1>1, <1>3, <1>4 DEF Apart, AreApart
<1>6. (\A i \in Ids : /\ jobs[i].live => jobs[i].status \in {"running", "interrupted"}
                      /\ jobs[i].status = "interrupted" => jobs[i].spawnKey # NoKey)'
  BY <1>1, <1>2 DEF Apart
<1> QED BY <1>1, <1>5, <1>6 DEF Apart, Admitting

LEMMA UnlinkIssued ==
  ASSUME TypeOK, Issued, NEW i \in Stored, RetainUnlink(i)
  PROVE  Issued'
<1>1. /\ \A d \in Ids \ {i} : jobs'[d] = jobs[d]
      /\ UNCHANGED <<created, firstCancel>> /\ i \in Ids /\ jobs[i].status # "absent"
      /\ \/ tx'.op = "idle" /\ retiring' = {}
         \/ tx'.op = "retain"
  <2>1. CASE retiring = {i}  BY <2>1, UnlinkMoves DEF RetainUnlink, Idle, Stored
  <2>2. CASE retiring # {i}  BY <2>2, UnlinkMoves DEF RetainUnlink, Stored
  <2> QED BY <2>1, <2>2
<1>2. (\A d \in Ids : d > created => Fresh0(d))'
  BY <1>1 DEF Issued, Fresh0
<1> QED BY <1>1, <1>2 DEF Issued, Admitting, Keyed, Resuming, Interrupting

(* What the execution of a job, its recovery and a hook do to its record.  *)
Works(i) ==
  \/ Start(i) \/ LearnSession(i) \/ Intend(i) \/ End(i)
  \/ BlockCleanup(i) \/ Die(i) \/ Recover(i) \/ HookBlock(i)

Worked(r, s) ==
  /\ Kept(r, s) /\ Noted(r, s) /\ s.status # "absent"
  /\ s.live => s.status \in {"running", "interrupted"} /\ (r.live \/ r.status = "queued")
  /\ s.status \in {"queued", "interrupted"} => s.status = r.status
  /\ s.status = "running" => ActiveRec(r) \/ r.spawnKey = NoKey
  /\ tx # Idle => /\ ActiveRec(r) => ActiveRec(s)
                  /\ r.status = "interrupted" => r.live \/ r.spawnKey = NoKey

LEMMA WorkMoves ==
  ASSUME TypeOK, Apart, NEW i \in Stored, Works(i)
  PROVE  /\ Worked(jobs[i], jobs'[i]) /\ \A d \in Ids \ {i} : jobs'[d] = jobs[d]
         /\ UNCHANGED <<receipts, created, tx, late, retiring, answers, firstCancel>>
<1> DEFINE r == jobs[i]
           s == jobs'[i]
<1>1. r \in JobRec /\ i \in Ids /\ r.status # "absent"
  BY DEF TypeOK, Stored
<1>2. /\ \A d \in Ids \ {i} : jobs'[d] = jobs[d]
      /\ UNCHANGED <<receipts, created, tx, late, retiring, answers, firstCancel>>
  BY DEF Works, Start, LearnSession, Intend, End, BlockCleanup, Die, Recover, HookBlock,
         Job, TypeOK, ghosts, Stored
<1>3. r.live => r.status \in {"running", "interrupted"}
  BY <1>1 DEF Apart
<1>4. CASE Start(i)
  <2>1. s = [r EXCEPT !.status = "running", !.live = TRUE,
    !.cleaned = FALSE] /\ r.status = "queued" /\ tx = Idle
    BY <1>1, <1>4 DEF TypeOK, Free, Start, Job
  <2> HIDE DEF r, s
  <2>2. Worked(r, s)
    BY <1>1, <1>3, <2>1 DEF Worked, ActiveRec, Kept, Noted, JobRec
  <2> QED BY <1>2, <2>2 DEF r, s
<1>5. CASE LearnSession(i)
  <2>1. s = [r EXCEPT !.session = TRUE] /\ r.live
    BY <1>1, <1>5 DEF TypeOK, LearnSession, Job
  <2> HIDE DEF r, s
  <2>2. Worked(r, s)
    BY <1>1, <1>3, <2>1 DEF Worked, ActiveRec, Kept, Noted, JobRec
  <2> QED BY <1>2, <2>2 DEF r, s
<1>6. CASE Intend(i)
  <2>1. s = [r EXCEPT !.pending = TRUE] /\ r.live
    BY <1>1, <1>6 DEF TypeOK, Intend, Job
  <2> HIDE DEF r, s
  <2>2. Worked(r, s)
    BY <1>1, <1>3, <2>1 DEF Worked, ActiveRec, Kept, Noted, JobRec
  <2> QED BY <1>2, <2>2 DEF r, s
<1>7. CASE End(i)
  <2>1. s = [r EXCEPT !.status = "ended", !.live = FALSE, !.pending = FALSE,
    !.cleaned = TRUE] /\ tx = Idle
    BY <1>1, <1>7 DEF TypeOK, Free, End, Job, Ended
  <2> HIDE DEF r, s
  <2>2. Worked(r, s)
    BY <1>1, <1>3, <2>1 DEF Worked, ActiveRec, Kept, Noted, JobRec
  <2> QED BY <1>2, <2>2 DEF r, s
<1>8. CASE BlockCleanup(i)
  <2>1. s = [r EXCEPT !.status = "running", !.live = FALSE] /\ r.live
    BY <1>1, <1>8 DEF TypeOK, BlockCleanup, Job
  <2> HIDE DEF r, s
  <2>2. Worked(r, s)
    BY <1>1, <1>3, <2>1 DEF Worked, ActiveRec, Kept, Noted, JobRec
  <2> QED BY <1>2, <2>2 DEF r, s
<1>9. CASE Die(i)
  <2>1. s = [r EXCEPT !.live = FALSE] /\ r.live
    BY <1>1, <1>9 DEF TypeOK, Die
  <2> HIDE DEF r, s
  <2>2. Worked(r, s)
    BY <1>1, <1>3, <2>1 DEF Worked, ActiveRec, Kept, Noted, JobRec
  <2> QED BY <1>2, <2>2 DEF r, s
<1>10. CASE Recover(i)
  <2>1. s = [r EXCEPT !.status = "ended", !.live = FALSE, !.pending = FALSE,
    !.cleaned = TRUE] /\ tx = Idle
    BY <1>1, <1>10 DEF TypeOK, Free, Recover, Job, Ended
  <2> HIDE DEF r, s
  <2>2. Worked(r, s)
    BY <1>1, <1>3, <2>1 DEF Worked, ActiveRec, Kept, Noted, JobRec
  <2> QED BY <1>2, <2>2 DEF r, s
<1>11. CASE HookBlock(i)
  <2>1. s = [r EXCEPT !.status = "running", !.pending = TRUE,
    !.cleaned = FALSE] /\ r.spawnKey = NoKey
    BY <1>1, <1>11 DEF TypeOK, HookBlock, Job, Foreground
  <2> HIDE DEF r, s
  <2>2. Worked(r, s)
    BY <1>1, <1>3, <2>1 DEF Worked, ActiveRec, Kept, Noted, JobRec
  <2> QED BY <1>2, <2>2 DEF r, s
<1> QED BY <1>4, <1>5, <1>6, <1>7, <1>8, <1>9, <1>10, <1>11 DEF Works

LEMMA WorkFrame ==
  ASSUME TypeOK, Issued, Answered, Unpublished, Owned, Apart, Told, NEW i \in Stored, Works(i)
  PROVE  Issued' /\ Answered' /\ Unpublished' /\ Owned' /\ Apart' /\ Told'
<1>1. /\ Worked(jobs[i], jobs'[i])
      /\ Kept(jobs[i], jobs'[i]) /\ Noted(jobs[i], jobs'[i]) /\ jobs'[i].status # "absent"
      /\ \A d \in Ids \ {i} : jobs'[d] = jobs[d]
      /\ UNCHANGED <<receipts, created, tx, late, retiring, answers, firstCancel>>
      /\ i \in Ids /\ jobs[i].status # "absent"
  BY WorkMoves DEF Stored, Worked
<1>2. Issued'
  <2>1. \A d \in Ids : Fresh0(d) => Fresh0(d)'
    BY <1>1 DEF Fresh0
  <2>2. tx.op \in Admitting => Unborn(tx.rec)'
    BY <1>1 DEF Issued, Unborn
  <2>3. tx.op \in Admitting => Fresh0(tx.job)'
    BY <1>1 DEF Issued, Fresh0, Admitting
  <2> QED BY <1>1, <2>1, <2>2, <2>3 DEF Issued
<1>3. Answered' /\ Unpublished'
  BY <1>1 DEF Answered, Unpublished
<1>4. Owned'
  <2>1. \A d \in Ids : jobs'[d].status # "absent" =>
                         jobs[d].status # "absent" /\ Kept(jobs[d], jobs'[d])
    BY <1>1 DEF Kept
  <2>2. \A l \in late' : jobs'[l.job].status # "absent" /\ l.job \notin retiring'
    BY <1>1 DEF Owned, Owns, TypeOK
  <2> QED BY <1>1, <2>1, <2>2, OwnedFrame
<1>5. Apart'
  <2>1. MayRun(i)' => MayRun(i)
    BY <1>1 DEF Worked, MayRun, Kept, ActiveRec, Apart
  <2>2. /\ jobs'[i].live => jobs'[i].status \in {"running", "interrupted"}
        /\ jobs'[i].status = "interrupted" => jobs'[i].spawnKey # NoKey
    BY <1>1 DEF Worked, Apart, Kept
  <2>3. \A d \in Ids : /\ jobs'[d].live => jobs'[d].status \in {"running", "interrupted"}
                       /\ jobs'[d].status = "interrupted" => jobs'[d].spawnKey # NoKey
                       /\ MayRun(d)' => MayRun(d) /\ Kept(jobs[d], jobs'[d])
    <3>1. ASSUME NEW d \in Ids \ {i}
          PROVE  /\ jobs'[d].live => jobs'[d].status \in {"running", "interrupted"}
                 /\ jobs'[d].status = "interrupted" => jobs'[d].spawnKey # NoKey
                 /\ MayRun(d)' => MayRun(d) /\ Kept(jobs[d], jobs'[d])
      BY <1>1 DEF Apart, MayRun, Kept
    <3> QED BY <1>1, <2>1, <2>2, <3>1
  <2>4. tx.op = "resume" => jobs'[tx.job].status = "interrupted" /\ ~jobs'[tx.job].live
    <3>1. CASE tx.op = "resume" /\ tx.job = i
      <4>1. jobs[i].status = "interrupted" /\ ~jobs[i].live /\ jobs[i].spawnKey # NoKey
        BY <1>1, <3>1 DEF Apart
      <4>2. tx # Idle
        BY <3>1 DEF Idle
      <4> QED BY <1>1, <4>1, <4>2 DEF Worked
    <3>2. CASE tx.op = "resume" /\ tx.job # i
      BY <1>1, <3>2 DEF Apart, Issued
    <3> QED BY <3>1, <3>2
  <2>5. tx.op = "interrupt" => ActiveRec(jobs'[tx.job]) /\ jobs'[tx.job].spawnKey # NoKey
    <3>1. CASE tx.op = "interrupt" /\ tx.job = i
      <4>1. ActiveRec(jobs[i]) /\ jobs[i].spawnKey # NoKey
        BY <3>1 DEF Apart
      <4>2. tx # Idle
        BY <3>1 DEF Idle
      <4> QED BY <1>1, <3>1, <4>1, <4>2 DEF Worked, Kept
    <3>2. CASE tx.op = "interrupt" /\ tx.job # i
      BY <1>1, <3>2 DEF Apart, Issued
    <3> QED BY <3>1, <3>2
  <2> QED BY <1>1, <2>3, <2>4, <2>5, ApartFrame
<1>6. Told'
  BY <1>1 DEF Told, Noted
<1> QED BY <1>2, <1>3, <1>4, <1>5, <1>6

(* An id is given out once.                                                *)
LEMMA IssuedStep ==
  ASSUME TypeOK, TypeOK', Issued, Answered, Unpublished, Owned, Apart, Told, [Next]_vars
  PROVE  Issued'
<1> USE WorkerJobsAssumption
    DEF TypeOK, JobRec, TxType, Answers, ReceiptRec, NoReceipt, Kinds, None,
        Stored, ActiveRec, Active, Free, Fresh, Return, Idle, ghosts, Issued, Fresh0, Unborn,
        Admitting, Keyed, Resuming, Interrupting, Ids
<1>1. ASSUME NEW key \in Keys, BrokerCall(key) PROVE Issued'
  <2>1. CASE SpawnReplay(key)
    BY <2>1 DEF SpawnReplay, Publishes, WriteReceipt, Answer, DigestOwners
  <2>2. CASE SpawnRecover(key)
    BY <2>2 DEF SpawnRecover, Publishes, WriteReceipt, Answer, DigestOwners
  <2>3. ASSUME NEW p \in {None, created}, SpawnScan(key, p) PROVE Issued'
    <3>1. Admits("spawn", key, SpawnedJob(Fresh, key, p))
      BY <2>3, SpawnAdmits
    <3> HIDE DEF TypeOK, Issued
    <3> QED BY <3>1, AdmitIssued
  <2>4. ASSUME NEW i \in Stored, FollowupScan(key, i) PROVE Issued'
    <3>1. Admits("followup", key, FollowupJob(key, i))
      BY <2>4, FollowupAdmits
    <3> HIDE DEF TypeOK, Issued
    <3> QED BY <3>1, AdmitIssued
  <2>5. ASSUME NEW i \in Stored, FollowupReplay(key, i) PROVE Issued'
    BY <2>5 DEF FollowupReplay, GrantOwners, FollowupKeyOwners
  <2>6. ASSUME NEW i \in Stored, ResumeReplay(key, i), ~Foreground(i) PROVE Issued'
    BY <2>6 DEF ResumeReplay, Publishes, WriteReceipt, Answer
  <2>7. ASSUME NEW i \in Stored, ResumeClear(key, i), ~Foreground(i) PROVE Issued'
    BY <2>7 DEF ResumeClear, Begin, InterruptedParent, NoJob
  <2>8. ASSUME NEW i \in Stored, InterruptMark(key, i), ~Foreground(i) PROVE Issued'
    BY <2>8 DEF InterruptMark, Begin, CanPreserve, NoJob
  <2>9. ASSUME NEW i \in Stored, CancelReplay(key, i), ~Foreground(i) PROVE Issued'
    BY <2>9 DEF CancelReplay, Publishes, WriteReceipt, Answer
  <2>10. ASSUME NEW i \in Stored, CancelRecover(key, i), ~Foreground(i) PROVE Issued'
    BY <2>10 DEF CancelRecover, Publishes, WriteReceipt, Answer, RecoveryJobs
  <2>11. ASSUME NEW i \in Stored, CancelCommit(key, i), ~Foreground(i) PROVE Issued'
    BY <2>11 DEF CancelCommit, MayCancel, RecoveryJobs, CancelledRecs, CancelAnswer, Begin, NoJob
  <2>12. ASSUME NEW i \in Stored, CancelMarkOnly(key, i), ~Foreground(i) PROVE Issued'
    BY <2>12 DEF CancelMarkOnly, MayCancel
  <2> HIDE DEF Issued
  <2> QED BY <1>1, <2>1, <2>2, <2>3, <2>4, <2>5, <2>6, <2>7, <2>8, <2>9, <2>10, <2>11, <2>12
    DEF BrokerCall
<1>2. ASSUME BrokerStep PROVE Issued'
  <2>1. CASE WriteNewJob
    BY <2>1, WriteIssued
  <2>2. CASE PublishSpawn
    BY <2>2 DEF PublishSpawn, Publishes, WriteReceipt, Answer
  <2>3. CASE ResumeWrite
    <3>1. jobs[tx.job].status # "absent"
      BY <2>3 DEF Apart, ResumeWrite, ActiveRec
    <3> QED BY <2>3, <3>1, StatusIssued
  <2>4. CASE PublishResume
    BY <2>4 DEF PublishResume, Publishes, WriteReceipt, Answer
  <2>5. CASE PublishCancel
    BY <2>5 DEF PublishCancel, Publishes, WriteReceipt, Answer
  <2>6. CASE InterruptWrite
    <3>1. jobs[tx.job].status # "absent"
      BY <2>6 DEF Apart, InterruptWrite, ActiveRec
    <3> QED BY <2>6, <3>1, StatusIssued
  <2>7. CASE PublishInterrupt
    BY <2>7 DEF PublishInterrupt, Publishes, WriteReceipt, Answer
  <2>8. ASSUME NEW l \in late, PublishFollowup(l) PROVE Issued'
    BY <2>8 DEF PublishFollowup, Publishes, WriteReceipt, Answer
  <2>9. ASSUME NEW l \in late, CrashBeforePublication(l) PROVE Issued'
    BY <2>9 DEF CrashBeforePublication
  <2>10. CASE Crash
    BY <2>10 DEF Crash
  <2> HIDE DEF Issued
  <2> QED BY <1>2, <2>1, <2>2, <2>3, <2>4, <2>5, <2>6, <2>7, <2>8, <2>9, <2>10 DEF BrokerStep
<1>3. ASSUME NEW i \in Stored, JobStep(i) PROVE Issued'
  <2>1. CASE Start(i)
    BY <2>1, WorkFrame DEF Works
  <2>2. CASE LearnSession(i)
    BY <2>2, WorkFrame DEF Works
  <2>3. CASE Intend(i)
    BY <2>3, WorkFrame DEF Works
  <2>4. CASE End(i)
    BY <2>4, WorkFrame DEF Works
  <2>5. CASE BlockCleanup(i)
    BY <2>5, WorkFrame DEF Works
  <2>6. CASE Die(i)
    BY <2>6, WorkFrame DEF Works
  <2>7. CASE Recover(i)
    BY <2>7, WorkFrame DEF Works
  <2>8. CASE RetainUnlink(i)
    BY <2>8, UnlinkIssued
  <2>9. CASE HookMark(i)
    BY <2>9 DEF HookMark, Foreground
  <2>10. CASE HookBlock(i)
    BY <2>10, WorkFrame DEF Works
  <2>11. CASE HookRemove(i)
    BY <2>11 DEF HookRemove, Removed, NoJob, Foreground
  <2> HIDE DEF Issued
  <2> QED BY <1>3, <2>1, <2>2, <2>3, <2>4, <2>5, <2>6, <2>7, <2>8, <2>9, <2>10, <2>11 DEF JobStep
<1>4. ASSUME NEW lease \in {"reader", "global-writer"}, NEW p \in {None} \cup Stored,
         p # None => Foreground(p),
         ForegroundScan(lease, p)
      PROVE  Issued'
  <2>1. Admits("foreground", NoKey, ForegroundJob(Fresh, lease, p))
    BY <1>4, ForegroundAdmits
  <2> HIDE DEF TypeOK, Issued
  <2> QED BY <2>1, AdmitIssued
<1>5. CASE RetainScan
  BY <1>5 DEF RetainScan, Begin, NoJob
<1>6. CASE UNCHANGED vars
  BY <1>6 DEF vars
<1> HIDE DEF Issued
<1> QED BY <1>1, <1>2, <1>3, <1>4, <1>5, <1>6 DEF Next, ForegroundCall

(* Answers and receipts agree.                                             *)
LEMMA AnsweredStep ==
  ASSUME TypeOK, TypeOK', Issued, Answered, Unpublished, Owned, Apart, Told, [Next]_vars
  PROVE  Answered'
<1> USE WorkerJobsAssumption
    DEF NoReceipt, None, Stored, Return, ghosts, Free, Answered
<1>1. ASSUME NEW key \in Keys, BrokerCall(key) PROVE Answered'
  <2>1. CASE SpawnReplay(key)
    <3>1. "spawn" \in Kinds /\ receipts["spawn"][key].job \in Ids
      BY <2>1 DEF SpawnReplay, Kinds
    <3> QED BY <2>1, <3>1, PublishAnswered DEF SpawnReplay
  <2>2. CASE SpawnRecover(key)
    <3>1. PICK j \in Stored : Publishes("spawn", key, j, "admitted")
      BY <2>2 DEF SpawnRecover
    <3>2. "spawn" \in Kinds /\ receipts["spawn"][key].job = None
      BY <2>2 DEF SpawnRecover, Kinds
    <3> QED BY <3>1, <3>2, PublishAnswered
  <2>3. ASSUME NEW p \in {None, created}, SpawnScan(key, p) PROVE Answered'
    <3>1. Admits("spawn", key, SpawnedJob(Fresh, key, p))
      BY <2>3, SpawnAdmits
    <3> HIDE DEF TypeOK, Answered
    <3> QED BY <3>1, AdmitAnswered
  <2>4. ASSUME NEW i \in Stored, FollowupScan(key, i) PROVE Answered'
    <3>1. Admits("followup", key, FollowupJob(key, i))
      BY <2>4, FollowupAdmits
    <3> HIDE DEF TypeOK, Answered
    <3> QED BY <3>1, AdmitAnswered
  <2>5. ASSUME NEW i \in Stored, FollowupReplay(key, i) PROVE Answered'
    BY <2>5 DEF FollowupReplay, GrantOwners, FollowupKeyOwners
  <2>6. ASSUME NEW i \in Stored, ResumeReplay(key, i), ~Foreground(i) PROVE Answered'
    <3>1. "resume" \in Kinds /\ i \in Ids /\ [job |-> i, answer |-> "admitted"].job = i
      BY DEF Kinds
    <3> QED BY <2>6, <3>1, AnswerAnswered DEF ResumeReplay
  <2>7. ASSUME NEW i \in Stored, ResumeClear(key, i), ~Foreground(i) PROVE Answered'
    BY <2>7 DEF ResumeClear, Begin, InterruptedParent, NoJob
  <2>8. ASSUME NEW i \in Stored, InterruptMark(key, i), ~Foreground(i) PROVE Answered'
    BY <2>8 DEF InterruptMark, Begin, CanPreserve, NoJob
  <2>9. ASSUME NEW i \in Stored, CancelReplay(key, i), ~Foreground(i) PROVE Answered'
    <3>1. "cancel" \in Kinds /\ i \in Ids
      BY DEF Kinds
    <3> QED BY <2>9, <3>1, AnswerAnswered DEF CancelReplay
  <2>10. ASSUME NEW i \in Stored, CancelRecover(key, i), ~Foreground(i) PROVE Answered'
    <3>1. "cancel" \in Kinds /\ receipts["cancel"][key].job = None
      BY <2>10 DEF CancelRecover, Kinds
    <3> QED BY <2>10, <3>1, PublishAnswered DEF CancelRecover
  <2>11. ASSUME NEW i \in Stored, CancelCommit(key, i), ~Foreground(i) PROVE Answered'
    BY <2>11 DEF CancelCommit, MayCancel, RecoveryJobs, CancelledRecs, CancelAnswer, Begin, NoJob
  <2>12. ASSUME NEW i \in Stored, CancelMarkOnly(key, i), ~Foreground(i) PROVE Answered'
    BY <2>12 DEF CancelMarkOnly, MayCancel
  <2> HIDE DEF Answered
  <2> QED BY <1>1, <2>1, <2>2, <2>3, <2>4, <2>5, <2>6, <2>7, <2>8, <2>9, <2>10, <2>11, <2>12
    DEF BrokerCall
<1>2. ASSUME BrokerStep PROVE Answered'
  <2>1. CASE WriteNewJob
    BY <2>1 DEF WriteNewJob
  <2>2. CASE PublishSpawn
    <3>1. "spawn" \in Kinds /\ tx.key \in Keys /\ tx.job \in Ids
      BY <2>2 DEF PublishSpawn, Issued, Keyed, Kinds
    <3> QED BY <2>2, <3>1, PublishAnswered DEF PublishSpawn, Unpublished
  <2>3. CASE ResumeWrite
    BY <2>3, StatusMoves
  <2>4. CASE PublishResume
    <3>1. "resume" \in Kinds /\ tx.key \in Keys /\ tx.job \in Ids
      BY <2>4 DEF PublishResume, Issued, Keyed, Resuming, Kinds
    <3> QED BY <2>4, <3>1, PublishAnswered DEF PublishResume, Unpublished, Resuming
  <2>5. CASE PublishCancel
    <3>1. "cancel" \in Kinds /\ tx.key \in Keys /\ tx.job \in Ids
      BY <2>5 DEF PublishCancel, Issued, Keyed, Kinds
    <3> QED BY <2>5, <3>1, PublishAnswered DEF PublishCancel, Unpublished
  <2>6. CASE InterruptWrite
    BY <2>6, StatusMoves
  <2>7. CASE PublishInterrupt
    <3>1. "interrupt" \in Kinds /\ tx.key \in Keys /\ tx.job \in Ids
      BY <2>7 DEF PublishInterrupt, Issued, Keyed, Interrupting, Kinds
    <3> QED BY <2>7, <3>1, PublishAnswered DEF PublishInterrupt, Unpublished, Interrupting
  <2>8. ASSUME NEW l \in late, PublishFollowup(l) PROVE Answered'
    <3>1. "followup" \in Kinds /\ l.key \in Keys /\ l.job \in Ids
      BY <2>8 DEF Kinds, TypeOK
    <3>2. receipts["followup"][l.key].job \in {None, l.job}
      BY <2>8, <3>1 DEF Owned
    <3> QED BY <2>8, <3>1, <3>2, PublishAnswered DEF PublishFollowup
  <2>9. ASSUME NEW l \in late, CrashBeforePublication(l) PROVE Answered'
    BY <2>9 DEF CrashBeforePublication
  <2>10. CASE Crash
    BY <2>10 DEF Crash
  <2> HIDE DEF Answered
  <2> QED BY <1>2, <2>1, <2>2, <2>3, <2>4, <2>5, <2>6, <2>7, <2>8, <2>9, <2>10 DEF BrokerStep
<1>3. ASSUME NEW i \in Stored, JobStep(i) PROVE Answered'
  <2>1. CASE Start(i)
    BY <2>1, WorkFrame DEF Works
  <2>2. CASE LearnSession(i)
    BY <2>2, WorkFrame DEF Works
  <2>3. CASE Intend(i)
    BY <2>3, WorkFrame DEF Works
  <2>4. CASE End(i)
    BY <2>4, WorkFrame DEF Works
  <2>5. CASE BlockCleanup(i)
    BY <2>5, WorkFrame DEF Works
  <2>6. CASE Die(i)
    BY <2>6, WorkFrame DEF Works
  <2>7. CASE Recover(i)
    BY <2>7, WorkFrame DEF Works
  <2>8. CASE RetainUnlink(i)
    BY <2>8 DEF RetainUnlink, Removed, NoJob
  <2>9. CASE HookMark(i)
    BY <2>9 DEF HookMark, Foreground
  <2>10. CASE HookBlock(i)
    BY <2>10, WorkFrame DEF Works
  <2>11. CASE HookRemove(i)
    BY <2>11 DEF HookRemove, Removed, NoJob, Foreground
  <2> HIDE DEF Answered
  <2> QED BY <1>3, <2>1, <2>2, <2>3, <2>4, <2>5, <2>6, <2>7, <2>8, <2>9, <2>10, <2>11 DEF JobStep
<1>4. ASSUME NEW lease \in {"reader", "global-writer"}, NEW p \in {None} \cup Stored,
         p # None => Foreground(p),
         ForegroundScan(lease, p)
      PROVE  Answered'
  <2>1. Admits("foreground", NoKey, ForegroundJob(Fresh, lease, p))
    BY <1>4, ForegroundAdmits
  <2> HIDE DEF TypeOK, Answered
  <2> QED BY <2>1, AdmitAnswered
<1>5. CASE RetainScan
  BY <1>5 DEF RetainScan, Begin, NoJob
<1>6. CASE UNCHANGED vars
  BY <1>6 DEF vars
<1> HIDE DEF Answered
<1> QED BY <1>1, <1>2, <1>3, <1>4, <1>5, <1>6 DEF Next, ForegroundCall

(* A call that is to publish a receipt finds none.                         *)
LEMMA UnpublishedStep ==
  ASSUME TypeOK, TypeOK', Issued, Answered, Unpublished, Owned, Apart, Told, [Next]_vars
  PROVE  Unpublished'
<1> USE WorkerJobsAssumption
    DEF TypeOK, NoReceipt, Kinds, None, Free, Return, Idle, ghosts, TxType, Unpublished, Issued,
        Admitting, Keyed, Resuming, Interrupting
<1>1. ASSUME NEW key \in Keys, BrokerCall(key) PROVE Unpublished'
  <2>1. CASE SpawnReplay(key)
    BY <2>1 DEF SpawnReplay, Publishes, WriteReceipt, Answer, DigestOwners
  <2>2. CASE SpawnRecover(key)
    BY <2>2 DEF SpawnRecover, Publishes, WriteReceipt, Answer, DigestOwners
  <2>3. ASSUME NEW p \in {None, created}, SpawnScan(key, p) PROVE Unpublished'
    <3>1. Admits("spawn", key, SpawnedJob(Fresh, key, p))
      BY <2>3, SpawnAdmits
    <3> HIDE DEF TypeOK, Unpublished
    <3> QED BY <3>1, AdmitUnpublished
  <2>4. ASSUME NEW i \in Stored, FollowupScan(key, i) PROVE Unpublished'
    <3>1. Admits("followup", key, FollowupJob(key, i))
      BY <2>4, FollowupAdmits
    <3> HIDE DEF TypeOK, Unpublished
    <3> QED BY <3>1, AdmitUnpublished
  <2>5. ASSUME NEW i \in Stored, FollowupReplay(key, i) PROVE Unpublished'
    BY <2>5 DEF FollowupReplay, GrantOwners, FollowupKeyOwners
  <2>6. ASSUME NEW i \in Stored, ResumeReplay(key, i), ~Foreground(i) PROVE Unpublished'
    BY <2>6 DEF ResumeReplay, Publishes, WriteReceipt, Answer
  <2>7. ASSUME NEW i \in Stored, ResumeClear(key, i), ~Foreground(i) PROVE Unpublished'
    BY <2>7 DEF ResumeClear, Begin, InterruptedParent, NoJob
  <2>8. ASSUME NEW i \in Stored, InterruptMark(key, i), ~Foreground(i) PROVE Unpublished'
    BY <2>8 DEF InterruptMark, Begin, CanPreserve, NoJob
  <2>9. ASSUME NEW i \in Stored, CancelReplay(key, i), ~Foreground(i) PROVE Unpublished'
    BY <2>9 DEF CancelReplay, Publishes, WriteReceipt, Answer
  <2>10. ASSUME NEW i \in Stored, CancelRecover(key, i), ~Foreground(i) PROVE Unpublished'
    BY <2>10 DEF CancelRecover, Publishes, WriteReceipt, Answer, RecoveryJobs
  <2>11. ASSUME NEW i \in Stored, CancelCommit(key, i), ~Foreground(i) PROVE Unpublished'
    BY <2>11 DEF CancelCommit, MayCancel, RecoveryJobs, CancelledRecs, CancelAnswer, Begin, NoJob
  <2>12. ASSUME NEW i \in Stored, CancelMarkOnly(key, i), ~Foreground(i) PROVE Unpublished'
    BY <2>12 DEF CancelMarkOnly, MayCancel
  <2> HIDE DEF Unpublished
  <2> QED BY <1>1, <2>1, <2>2, <2>3, <2>4, <2>5, <2>6, <2>7, <2>8, <2>9, <2>10, <2>11, <2>12
    DEF BrokerCall
<1>2. ASSUME BrokerStep PROVE Unpublished'
  <2>1. CASE WriteNewJob
    BY <2>1 DEF WriteNewJob
  <2>2. CASE PublishSpawn
    BY <2>2 DEF PublishSpawn, Publishes, WriteReceipt, Answer
  <2>3. CASE ResumeWrite
    BY <2>3, StatusMoves
  <2>4. CASE PublishResume
    BY <2>4 DEF PublishResume, Publishes, WriteReceipt, Answer
  <2>5. CASE PublishCancel
    BY <2>5 DEF PublishCancel, Publishes, WriteReceipt, Answer
  <2>6. CASE InterruptWrite
    BY <2>6, StatusMoves
  <2>7. CASE PublishInterrupt
    BY <2>7 DEF PublishInterrupt, Publishes, WriteReceipt, Answer
  <2>8. ASSUME NEW l \in late, PublishFollowup(l) PROVE Unpublished'
    <3>1. l.key \in Keys /\ l.job \in Ids /\ Owns(l.job, l.key, TRUE)
      BY <2>8 DEF Owned
    <3>2. tx.op = "followup" => l.key # tx.key
      BY <3>1 DEF Owned
    <3> QED BY <2>8, <3>1, <3>2 DEF PublishFollowup, Publishes, WriteReceipt
  <2>9. ASSUME NEW l \in late, CrashBeforePublication(l) PROVE Unpublished'
    BY <2>9 DEF CrashBeforePublication
  <2>10. CASE Crash
    BY <2>10 DEF Crash
  <2> HIDE DEF Unpublished
  <2> QED BY <1>2, <2>1, <2>2, <2>3, <2>4, <2>5, <2>6, <2>7, <2>8, <2>9, <2>10 DEF BrokerStep
<1>3. ASSUME NEW i \in Stored, JobStep(i) PROVE Unpublished'
  <2>1. CASE Start(i)
    BY <2>1, WorkFrame DEF Works
  <2>2. CASE LearnSession(i)
    BY <2>2, WorkFrame DEF Works
  <2>3. CASE Intend(i)
    BY <2>3, WorkFrame DEF Works
  <2>4. CASE End(i)
    BY <2>4, WorkFrame DEF Works
  <2>5. CASE BlockCleanup(i)
    BY <2>5, WorkFrame DEF Works
  <2>6. CASE Die(i)
    BY <2>6, WorkFrame DEF Works
  <2>7. CASE Recover(i)
    BY <2>7, WorkFrame DEF Works
  <2>8. CASE RetainUnlink(i)
    BY <2>8 DEF RetainUnlink, Removed, NoJob
  <2>9. CASE HookMark(i)
    BY <2>9 DEF HookMark, Foreground
  <2>10. CASE HookBlock(i)
    BY <2>10, WorkFrame DEF Works
  <2>11. CASE HookRemove(i)
    BY <2>11 DEF HookRemove, Removed, NoJob, Foreground
  <2> HIDE DEF Unpublished
  <2> QED BY <1>3, <2>1, <2>2, <2>3, <2>4, <2>5, <2>6, <2>7, <2>8, <2>9, <2>10, <2>11 DEF JobStep
<1>4. ASSUME NEW lease \in {"reader", "global-writer"}, NEW p \in {None} \cup Stored,
         p # None => Foreground(p),
         ForegroundScan(lease, p)
      PROVE  Unpublished'
  <2>1. Admits("foreground", NoKey, ForegroundJob(Fresh, lease, p))
    BY <1>4, ForegroundAdmits
  <2> HIDE DEF TypeOK, Unpublished
  <2> QED BY <2>1, AdmitUnpublished
<1>5. CASE RetainScan
  BY <1>5 DEF RetainScan, Begin, NoJob
<1>6. CASE UNCHANGED vars
  BY <1>6 DEF vars
<1> HIDE DEF Unpublished
<1> QED BY <1>1, <1>2, <1>3, <1>4, <1>5, <1>6 DEF Next, ForegroundCall

(* What was made for a key is its own.                                     *)
LEMMA OwnedStep ==
  ASSUME TypeOK, TypeOK', Issued, Answered, Unpublished, Owned, Apart, Told, [Next]_vars
  PROVE  Owned'
<1> USE WorkerJobsAssumption
    DEF TypeOK, JobRec, TxType, Answers, ReceiptRec, NoReceipt, Kinds, None,
        Stored, ActiveRec, Active, Free, Fresh, Return, Idle, ghosts, Owned, Issued, Owns,
        Admitting, Keyed, Resuming, Fresh0
<1>1. ASSUME NEW key \in Keys, BrokerCall(key) PROVE Owned'
  <2>1. CASE SpawnReplay(key)
    <3>1. receipts'["followup"] = receipts["followup"]
      BY <2>1, OtherReceipts DEF SpawnReplay
    <3> QED BY <2>1, <3>1 DEF SpawnReplay
  <2>2. CASE SpawnRecover(key)
    <3>1. PICK j \in Stored : Publishes("spawn", key, j, "admitted")
      BY <2>2 DEF SpawnRecover
    <3>2. receipts'["followup"] = receipts["followup"]
      BY <3>1, OtherReceipts
    <3> QED BY <2>2, <3>2 DEF SpawnRecover
  <2>3. ASSUME NEW p \in {None, created}, SpawnScan(key, p) PROVE Owned'
    <3>1. Admits("spawn", key, SpawnedJob(Fresh, key, p))
      BY <2>3, SpawnAdmits
    <3> HIDE DEF TypeOK, Owned
    <3> QED BY <3>1, AdmitOwned
  <2>4. ASSUME NEW i \in Stored, FollowupScan(key, i) PROVE Owned'
    <3>1. Admits("followup", key, FollowupJob(key, i))
      BY <2>4, FollowupAdmits
    <3> HIDE DEF TypeOK, Owned
    <3> QED BY <3>1, AdmitOwned
  <2>5. ASSUME NEW i \in Stored, FollowupReplay(key, i) PROVE Owned'
    BY <2>5 DEF FollowupReplay, GrantOwners, FollowupKeyOwners
  <2>6. ASSUME NEW i \in Stored, ResumeReplay(key, i), ~Foreground(i) PROVE Owned'
    BY <2>6 DEF ResumeReplay, Publishes, WriteReceipt, Answer
  <2>7. ASSUME NEW i \in Stored, ResumeClear(key, i), ~Foreground(i) PROVE Owned'
    BY <2>7 DEF ResumeClear, Begin, InterruptedParent, NoJob
  <2>8. ASSUME NEW i \in Stored, InterruptMark(key, i), ~Foreground(i) PROVE Owned'
    BY <2>8 DEF InterruptMark, Begin, CanPreserve, NoJob
  <2>9. ASSUME NEW i \in Stored, CancelReplay(key, i), ~Foreground(i) PROVE Owned'
    BY <2>9 DEF CancelReplay, Publishes, WriteReceipt, Answer
  <2>10. ASSUME NEW i \in Stored, CancelRecover(key, i), ~Foreground(i) PROVE Owned'
    <3>1. receipts'["followup"] = receipts["followup"]
      BY <2>10, OtherReceipts DEF CancelRecover
    <3> QED BY <2>10, <3>1 DEF CancelRecover
  <2>11. ASSUME NEW i \in Stored, CancelCommit(key, i), ~Foreground(i) PROVE Owned'
    BY <2>11, CancelOwned
  <2>12. ASSUME NEW i \in Stored, CancelMarkOnly(key, i), ~Foreground(i) PROVE Owned'
    BY <2>12 DEF CancelMarkOnly, MayCancel
  <2> HIDE DEF Owned
  <2> QED BY <1>1, <2>1, <2>2, <2>3, <2>4, <2>5, <2>6, <2>7, <2>8, <2>9, <2>10, <2>11, <2>12
    DEF BrokerCall
<1>2. ASSUME BrokerStep PROVE Owned'
  <2>1. CASE WriteNewJob
    BY <2>1, WriteOwned
  <2>2. CASE PublishSpawn
    <3>1. receipts'["followup"] = receipts["followup"]
      BY <2>2, OtherReceipts DEF PublishSpawn
    <3> QED BY <2>2, <3>1 DEF PublishSpawn
  <2>3. CASE ResumeWrite
    <3>1. jobs[tx.job].status # "absent"
      BY <2>3 DEF Apart, ResumeWrite, ActiveRec
    <3> QED BY <2>3, <3>1, StatusOwned
  <2>4. CASE PublishResume
    <3>1. receipts'["followup"] = receipts["followup"]
      BY <2>4, OtherReceipts DEF PublishResume
    <3> QED BY <2>4, <3>1 DEF PublishResume
  <2>5. CASE PublishCancel
    <3>1. receipts'["followup"] = receipts["followup"]
      BY <2>5, OtherReceipts DEF PublishCancel
    <3> QED BY <2>5, <3>1 DEF PublishCancel
  <2>6. CASE InterruptWrite
    <3>1. jobs[tx.job].status # "absent"
      BY <2>6 DEF Apart, InterruptWrite, ActiveRec
    <3> QED BY <2>6, <3>1, StatusOwned
  <2>7. CASE PublishInterrupt
    <3>1. receipts'["followup"] = receipts["followup"]
      BY <2>7, OtherReceipts DEF PublishInterrupt
    <3> QED BY <2>7, <3>1 DEF PublishInterrupt
  <2>8. ASSUME NEW l \in late, PublishFollowup(l) PROVE Owned'
    BY <2>8, PublishedOwned
  <2>9. ASSUME NEW l \in late, CrashBeforePublication(l) PROVE Owned'
    BY <2>9 DEF CrashBeforePublication
  <2>10. CASE Crash
    BY <2>10 DEF Crash
  <2> HIDE DEF Owned
  <2> QED BY <1>2, <2>1, <2>2, <2>3, <2>4, <2>5, <2>6, <2>7, <2>8, <2>9, <2>10 DEF BrokerStep
<1>3. ASSUME NEW i \in Stored, JobStep(i) PROVE Owned'
  <2>1. CASE Start(i)
    BY <2>1, WorkFrame DEF Works
  <2>2. CASE LearnSession(i)
    BY <2>2, WorkFrame DEF Works
  <2>3. CASE Intend(i)
    BY <2>3, WorkFrame DEF Works
  <2>4. CASE End(i)
    BY <2>4, WorkFrame DEF Works
  <2>5. CASE BlockCleanup(i)
    BY <2>5, WorkFrame DEF Works
  <2>6. CASE Die(i)
    BY <2>6, WorkFrame DEF Works
  <2>7. CASE Recover(i)
    BY <2>7, WorkFrame DEF Works
  <2>8. CASE RetainUnlink(i)
    BY <2>8, UnlinkOwned
  <2>9. CASE HookMark(i)
    BY <2>9 DEF HookMark, Foreground
  <2>10. CASE HookBlock(i)
    BY <2>10, WorkFrame DEF Works
  <2>11. CASE HookRemove(i)
    BY <2>11, RemovedOwned
  <2> HIDE DEF Owned
  <2> QED BY <1>3, <2>1, <2>2, <2>3, <2>4, <2>5, <2>6, <2>7, <2>8, <2>9, <2>10, <2>11 DEF JobStep
<1>4. ASSUME NEW lease \in {"reader", "global-writer"}, NEW p \in {None} \cup Stored,
         p # None => Foreground(p),
         ForegroundScan(lease, p)
      PROVE  Owned'
  <2>1. Admits("foreground", NoKey, ForegroundJob(Fresh, lease, p))
    BY <1>4, ForegroundAdmits
  <2> HIDE DEF TypeOK, Owned
  <2> QED BY <2>1, AdmitOwned
<1>5. CASE RetainScan
  BY <1>5 DEF RetainScan, Begin, Settled
<1>6. CASE UNCHANGED vars
  BY <1>6 DEF vars
<1> HIDE DEF Owned
<1> QED BY <1>1, <1>2, <1>3, <1>4, <1>5, <1>6 DEF Next, ForegroundCall

(* What may execute is apart.                                              *)
LEMMA ApartStep ==
  ASSUME TypeOK, TypeOK', Issued, Answered, Unpublished, Owned, Apart, Told, [Next]_vars
  PROVE  Apart'
<1> USE WorkerJobsAssumption
    DEF TypeOK, JobRec, TxType, Answers, ReceiptRec, NoReceipt, Kinds, None,
        Stored, ActiveRec, Active, Free, Fresh, Return, Idle, ghosts, Apart, Issued, MayRun,
        AreApart, Admitting, Unborn
<1>1. ASSUME NEW key \in Keys, BrokerCall(key) PROVE Apart'
  <2>1. CASE SpawnReplay(key)
    BY <2>1 DEF SpawnReplay, Publishes, WriteReceipt, Answer, DigestOwners
  <2>2. CASE SpawnRecover(key)
    BY <2>2 DEF SpawnRecover, Publishes, WriteReceipt, Answer, DigestOwners
  <2>3. ASSUME NEW p \in {None, created}, SpawnScan(key, p) PROVE Apart'
    <3>1. Admits("spawn", key, SpawnedJob(Fresh, key, p))
      BY <2>3, SpawnAdmits
    <3> HIDE DEF TypeOK, Apart
    <3> QED BY <3>1, AdmitApart
  <2>4. ASSUME NEW i \in Stored, FollowupScan(key, i) PROVE Apart'
    <3>1. Admits("followup", key, FollowupJob(key, i))
      BY <2>4, FollowupAdmits
    <3> HIDE DEF TypeOK, Apart
    <3> QED BY <3>1, AdmitApart
  <2>5. ASSUME NEW i \in Stored, FollowupReplay(key, i) PROVE Apart'
    BY <2>5 DEF FollowupReplay, GrantOwners, FollowupKeyOwners
  <2>6. ASSUME NEW i \in Stored, ResumeReplay(key, i), ~Foreground(i) PROVE Apart'
    BY <2>6 DEF ResumeReplay, Publishes, WriteReceipt, Answer
  <2>7. ASSUME NEW i \in Stored, ResumeClear(key, i), ~Foreground(i) PROVE Apart'
    BY <2>7 DEF ResumeClear, Begin, InterruptedParent, NoJob
  <2>8. ASSUME NEW i \in Stored, InterruptMark(key, i), ~Foreground(i) PROVE Apart'
    BY <2>8, MarkApart
  <2>9. ASSUME NEW i \in Stored, CancelReplay(key, i), ~Foreground(i) PROVE Apart'
    BY <2>9 DEF CancelReplay, Publishes, WriteReceipt, Answer
  <2>10. ASSUME NEW i \in Stored, CancelRecover(key, i), ~Foreground(i) PROVE Apart'
    BY <2>10 DEF CancelRecover, Publishes, WriteReceipt, Answer, RecoveryJobs
  <2>11. ASSUME NEW i \in Stored, CancelCommit(key, i), ~Foreground(i) PROVE Apart'
    BY <2>11, CancelApart
  <2>12. ASSUME NEW i \in Stored, CancelMarkOnly(key, i), ~Foreground(i) PROVE Apart'
    BY <2>12 DEF CancelMarkOnly, MayCancel
  <2> HIDE DEF Apart
  <2> QED BY <1>1, <2>1, <2>2, <2>3, <2>4, <2>5, <2>6, <2>7, <2>8, <2>9, <2>10, <2>11, <2>12
    DEF BrokerCall
<1>2. ASSUME BrokerStep PROVE Apart'
  <2>1. CASE WriteNewJob
    BY <2>1, WriteApart
  <2>2. CASE PublishSpawn
    BY <2>2 DEF PublishSpawn, Publishes, WriteReceipt, Answer
  <2>3. CASE ResumeWrite
    BY <2>3, StatusApart
  <2>4. CASE PublishResume
    BY <2>4 DEF PublishResume, Publishes, WriteReceipt, Answer
  <2>5. CASE PublishCancel
    BY <2>5 DEF PublishCancel, Publishes, WriteReceipt, Answer
  <2>6. CASE InterruptWrite
    BY <2>6, StatusApart
  <2>7. CASE PublishInterrupt
    BY <2>7 DEF PublishInterrupt, Publishes, WriteReceipt, Answer
  <2>8. ASSUME NEW l \in late, PublishFollowup(l) PROVE Apart'
    BY <2>8 DEF PublishFollowup, Publishes, WriteReceipt, Answer
  <2>9. ASSUME NEW l \in late, CrashBeforePublication(l) PROVE Apart'
    BY <2>9 DEF CrashBeforePublication
  <2>10. CASE Crash
    BY <2>10 DEF Crash
  <2> HIDE DEF Apart
  <2> QED BY <1>2, <2>1, <2>2, <2>3, <2>4, <2>5, <2>6, <2>7, <2>8, <2>9, <2>10 DEF BrokerStep
<1>3. ASSUME NEW i \in Stored, JobStep(i) PROVE Apart'
  <2>1. CASE Start(i)
    BY <2>1, WorkFrame DEF Works
  <2>2. CASE LearnSession(i)
    BY <2>2, WorkFrame DEF Works
  <2>3. CASE Intend(i)
    BY <2>3, WorkFrame DEF Works
  <2>4. CASE End(i)
    BY <2>4, WorkFrame DEF Works
  <2>5. CASE BlockCleanup(i)
    BY <2>5, WorkFrame DEF Works
  <2>6. CASE Die(i)
    BY <2>6, WorkFrame DEF Works
  <2>7. CASE Recover(i)
    BY <2>7, WorkFrame DEF Works
  <2>8. CASE RetainUnlink(i)
    BY <2>8, UnlinkApart
  <2>9. CASE HookMark(i)
    BY <2>9 DEF HookMark, Foreground
  <2>10. CASE HookBlock(i)
    BY <2>10, WorkFrame DEF Works
  <2>11. CASE HookRemove(i)
    BY <2>11 DEF HookRemove, Removed, NoJob, Foreground
  <2> HIDE DEF Apart
  <2> QED BY <1>3, <2>1, <2>2, <2>3, <2>4, <2>5, <2>6, <2>7, <2>8, <2>9, <2>10, <2>11 DEF JobStep
<1>4. ASSUME NEW lease \in {"reader", "global-writer"}, NEW p \in {None} \cup Stored,
         p # None => Foreground(p),
         ForegroundScan(lease, p)
      PROVE  Apart'
  <2>1. Admits("foreground", NoKey, ForegroundJob(Fresh, lease, p))
    BY <1>4, ForegroundAdmits
  <2> HIDE DEF TypeOK, Apart
  <2> QED BY <2>1, AdmitApart
<1>5. CASE RetainScan
  BY <1>5 DEF RetainScan, Begin, NoJob
<1>6. CASE UNCHANGED vars
  BY <1>6 DEF vars
<1> HIDE DEF Apart
<1> QED BY <1>1, <1>2, <1>3, <1>4, <1>5, <1>6 DEF Next, ForegroundCall

(* Job, call and receipt tell the same.                                    *)
LEMMA ToldStep ==
  ASSUME TypeOK, TypeOK', Issued, Answered, Unpublished, Owned, Apart, Told, [Next]_vars
  PROVE  Told'
<1> USE WorkerJobsAssumption
    DEF TypeOK, JobRec, TxType, Answers, ReceiptRec, NoReceipt, Kinds, None,
        Stored, ActiveRec, Active, Free, Fresh, Return, Idle, ghosts, Told, Owned, Issued,
        Admitting, Keyed, Unborn, Fresh0, Resuming, Receipts
<1>1. ASSUME NEW key \in Keys, BrokerCall(key) PROVE Told'
  <2>1. CASE SpawnReplay(key)
    BY <2>1 DEF SpawnReplay, Publishes, WriteReceipt, Answer, DigestOwners
  <2>2. CASE SpawnRecover(key)
    BY <2>2 DEF SpawnRecover, Publishes, WriteReceipt, Answer, DigestOwners
  <2>3. ASSUME NEW p \in {None, created}, SpawnScan(key, p) PROVE Told'
    <3>1. Admits("spawn", key, SpawnedJob(Fresh, key, p))
      BY <2>3, SpawnAdmits
    <3> HIDE DEF TypeOK, Told
    <3> QED BY <3>1, AdmitTold
  <2>4. ASSUME NEW i \in Stored, FollowupScan(key, i) PROVE Told'
    <3>1. Admits("followup", key, FollowupJob(key, i))
      BY <2>4, FollowupAdmits
    <3> HIDE DEF TypeOK, Told
    <3> QED BY <3>1, AdmitTold
  <2>5. ASSUME NEW i \in Stored, FollowupReplay(key, i) PROVE Told'
    BY <2>5 DEF FollowupReplay, GrantOwners, FollowupKeyOwners
  <2>6. ASSUME NEW i \in Stored, ResumeReplay(key, i), ~Foreground(i) PROVE Told'
    BY <2>6 DEF ResumeReplay, Publishes, WriteReceipt, Answer
  <2>7. ASSUME NEW i \in Stored, ResumeClear(key, i), ~Foreground(i) PROVE Told'
    BY <2>7 DEF ResumeClear, Begin, InterruptedParent, NoJob
  <2>8. ASSUME NEW i \in Stored, InterruptMark(key, i), ~Foreground(i) PROVE Told'
    BY <2>8 DEF InterruptMark, Begin, CanPreserve, NoJob
  <2>9. ASSUME NEW i \in Stored, CancelReplay(key, i), ~Foreground(i) PROVE Told'
    BY <2>9 DEF CancelReplay, Publishes, WriteReceipt, Answer
  <2>10. ASSUME NEW i \in Stored, CancelRecover(key, i), ~Foreground(i) PROVE Told'
    BY <2>10, RecoverTold
  <2>11. ASSUME NEW i \in Stored, CancelCommit(key, i), ~Foreground(i) PROVE Told'
    BY <2>11, CancelTold
  <2>12. ASSUME NEW i \in Stored, CancelMarkOnly(key, i), ~Foreground(i) PROVE Told'
    BY <2>12 DEF CancelMarkOnly, MayCancel
  <2> HIDE DEF Told
  <2> QED BY <1>1, <2>1, <2>2, <2>3, <2>4, <2>5, <2>6, <2>7, <2>8, <2>9, <2>10, <2>11, <2>12
    DEF BrokerCall
<1>2. ASSUME BrokerStep PROVE Told'
  <2>1. CASE WriteNewJob
    BY <2>1, WriteTold
  <2>2. CASE PublishSpawn
    BY <2>2 DEF PublishSpawn, Publishes, WriteReceipt, Answer
  <2>3. CASE ResumeWrite
    <3>1. jobs[tx.job].status # "absent"
      BY <2>3 DEF Apart, ResumeWrite, ActiveRec
    <3> QED BY <2>3, <3>1, StatusTold
  <2>4. CASE PublishResume
    BY <2>4 DEF PublishResume, Publishes, WriteReceipt, Answer
  <2>5. CASE PublishCancel
    BY <2>5, PublishTold
  <2>6. CASE InterruptWrite
    <3>1. jobs[tx.job].status # "absent"
      BY <2>6 DEF Apart, InterruptWrite, ActiveRec
    <3> QED BY <2>6, <3>1, StatusTold
  <2>7. CASE PublishInterrupt
    BY <2>7 DEF PublishInterrupt, Publishes, WriteReceipt, Answer
  <2>8. ASSUME NEW l \in late, PublishFollowup(l) PROVE Told'
    BY <2>8 DEF PublishFollowup, Publishes, WriteReceipt, Answer
  <2>9. ASSUME NEW l \in late, CrashBeforePublication(l) PROVE Told'
    BY <2>9 DEF CrashBeforePublication
  <2>10. CASE Crash
    BY <2>10 DEF Crash
  <2> HIDE DEF Told
  <2> QED BY <1>2, <2>1, <2>2, <2>3, <2>4, <2>5, <2>6, <2>7, <2>8, <2>9, <2>10 DEF BrokerStep
<1>3. ASSUME NEW i \in Stored, JobStep(i) PROVE Told'
  <2>1. CASE Start(i)
    BY <2>1, WorkFrame DEF Works
  <2>2. CASE LearnSession(i)
    BY <2>2, WorkFrame DEF Works
  <2>3. CASE Intend(i)
    BY <2>3, WorkFrame DEF Works
  <2>4. CASE End(i)
    BY <2>4, WorkFrame DEF Works
  <2>5. CASE BlockCleanup(i)
    BY <2>5, WorkFrame DEF Works
  <2>6. CASE Die(i)
    BY <2>6, WorkFrame DEF Works
  <2>7. CASE Recover(i)
    BY <2>7, WorkFrame DEF Works
  <2>8. CASE RetainUnlink(i)
    BY <2>8 DEF RetainUnlink, Removed, NoJob
  <2>9. CASE HookMark(i)
    BY <2>9 DEF HookMark, Foreground
  <2>10. CASE HookBlock(i)
    BY <2>10, WorkFrame DEF Works
  <2>11. CASE HookRemove(i)
    BY <2>11 DEF HookRemove, Removed, NoJob, Foreground
  <2> HIDE DEF Told
  <2> QED BY <1>3, <2>1, <2>2, <2>3, <2>4, <2>5, <2>6, <2>7, <2>8, <2>9, <2>10, <2>11 DEF JobStep
<1>4. ASSUME NEW lease \in {"reader", "global-writer"}, NEW p \in {None} \cup Stored,
         p # None => Foreground(p),
         ForegroundScan(lease, p)
      PROVE  Told'
  <2>1. Admits("foreground", NoKey, ForegroundJob(Fresh, lease, p))
    BY <1>4, ForegroundAdmits
  <2> HIDE DEF TypeOK, Told
  <2> QED BY <2>1, AdmitTold
<1>5. CASE RetainScan
  BY <1>5 DEF RetainScan, Begin, NoJob
<1>6. CASE UNCHANGED vars
  BY <1>6 DEF vars
<1> HIDE DEF Told
<1> QED BY <1>1, <1>2, <1>3, <1>4, <1>5, <1>6 DEF Next, ForegroundCall

-----------------------------------------------------------------------------
LEMMA InitInv == Init => Inv
<1> SUFFICES ASSUME Init PROVE Inv
  OBVIOUS
<1>1. PICK key \in {NoKey} \cup AdmitKeys :
        /\ jobs = [i \in Ids |-> IF i = 1 THEN PriorJob(key) ELSE NoJob]
        /\ receipts = [k \in Kinds |-> [j \in Keys |->
             IF k = "spawn" /\ j = key THEN [job |-> 1, answer |-> "admitted"]
                                      ELSE NoReceipt]]
  BY DEF Init
<1>2. 1 \in Ids /\ created = 1 /\ tx = Idle /\ key \in Keys \cup {NoKey}
  BY WorkerJobsAssumption DEF Init, Ids, Keys
<1>3. /\ Idle \in TxType /\ tx.op = "idle" /\ late = {} /\ retiring = {} /\ NoKey \notin Keys
      /\ firstCancel = [i \in Ids |-> NoKey]
      /\ answers = [k \in Kinds |-> [h \in Keys |-> {}]]
  BY <1>2, NewJobs, WorkerJobsAssumption DEF Init, Idle, Keys
<1>4. PriorJob(key) \in JobRec /\ NoJob \in JobRec
  <2>1. "ended" \in Statuses
    BY DEF Statuses
  <2> QED BY <1>2, <2>1, NewJobs DEF PriorJob, JobRec
<1>5. jobs \in [Ids -> JobRec]
  BY <1>1, <1>4
<1>6. receipts \in [Kinds -> [Keys -> ReceiptRec]]
  <2>1. [job |-> 1, answer |-> "admitted"] \in ReceiptRec /\ NoReceipt \in ReceiptRec
    BY <1>2, NewJobs DEF ReceiptRec
  <2> QED BY <1>1, <2>1
<1>7. TypeOK
  BY <1>2, <1>3, <1>5, <1>6 DEF TypeOK, Init
<1>8. /\ PriorJob(key).status = "ended" /\ ~PriorJob(key).live /\ ~PriorJob(key).event
      /\ ~PriorJob(key).granted /\ \A k \in Keys : PriorJob(key).history[k] = "none"
      /\ NoJob.status = "absent" /\ ~NoJob.live
  BY DEF PriorJob, NoJob
<1>9. \A i \in Ids : jobs[i] = IF i = 1 THEN PriorJob(key) ELSE NoJob
  BY <1>1
<1>10. Issued
  <2>1. \A i \in Ids : i > created => i # 1
    BY <1>2 DEF Ids
  <2> QED BY <1>2, <1>3, <1>8, <1>9, <2>1
      DEF Issued, Fresh0, Admitting, Keyed, Resuming, Interrupting
<1>11. Answered
  BY <1>3 DEF Answered
<1>12. Unpublished
  BY <1>3 DEF Unpublished, Resuming, Interrupting
<1>13. Owned
  <2>1. \A i \in Ids, k \in Keys : ~Owns(i, k, TRUE) /\ (Owns(i, k, FALSE) => i = 1)
    BY <1>8, <1>9 DEF Owns
  <2> QED BY <1>3, <2>1 DEF Owned
<1>14. Apart
  <2>1. \A i \in Ids : ~MayRun(i) /\ ~jobs[i].live /\ jobs[i].status # "interrupted"
    BY <1>8, <1>9 DEF MayRun
  <2> QED BY <1>3, <2>1 DEF Apart, Admitting
<1>15. Told
  <2>1. \A k \in Keys : receipts["cancel"][k] = NoReceipt /\ answers["cancel"][k] = {}
    BY <1>1, <1>3 DEF Kinds
  <2>3. NoReceipt.job = None
    BY DEF NoReceipt
  <2>4. \A i \in Ids : jobs[i].status # "absent" =>
           /\ \A k \in Keys : jobs[i].history[k] = "accepted" <=> firstCancel[i] = k
           /\ firstCancel[i] = NoKey
    <3>1. ASSUME NEW i \in Ids, jobs[i].status # "absent"
          PROVE  firstCancel[i] = NoKey /\ \A k \in Keys : jobs[i].history[k] = "none"
      BY <1>3, <1>8, <1>9, <3>1
    <3> QED BY <1>3, <3>1
  <2> QED BY <1>3, <2>1, <2>3, <2>4 DEF Told
<1> QED BY <1>7, <1>10, <1>11, <1>12, <1>13, <1>14, <1>15 DEF Inv

LEMMA NextInv == Inv /\ [Next]_vars => Inv'
<1> SUFFICES ASSUME Inv, [Next]_vars PROVE Inv'
  OBVIOUS
<1> USE DEF Inv
<1>1. TypeOK'
  BY TypeStep
<1> QED BY <1>1, IssuedStep, AnsweredStep, UnpublishedStep, OwnedStep, ApartStep, ToldStep

(* The state described above is kept by every step.                        *)
THEOREM InvHolds == Spec => []Inv
BY InitInv, NextInv, PTL DEF Spec

-----------------------------------------------------------------------------
LEMMA AtMostOne ==
  ASSUME NEW S, NEW x, S \subseteq {x}
  PROVE  Cardinality(S) <= 1
<1>1. CASE S = {}
  BY <1>1, FS_EmptySet
<1>2. CASE S = {x}
  BY <1>2, FS_Singleton
<1> QED BY <1>1, <1>2

(* However often a call is repeated, whatever crashes came between a job   *)
(* and its receipt, and whatever retention removed, a key is answered with *)
(* one job, and no two stored jobs were made for it.                       *)
THEOREM KeyNamesOneJobHolds == Spec => []KeyNamesOneJob
<1>1. Inv => KeyNamesOneJob
  <2> SUFFICES ASSUME Inv, NEW key \in Keys
               PROVE  /\ \A kind \in {"spawn", "followup", "resume", "cancel"} :
                           Cardinality({a.job : a \in answers[kind][key]}) <= 1
                      /\ Cardinality({i \in DigestOwners(key) : ~jobs[i].granted}) <= 1
    BY DEF KeyNamesOneJob
  <2>1. ASSUME NEW kind \in {"spawn", "followup", "resume", "cancel"}
        PROVE  Cardinality({a.job : a \in answers[kind][key]}) <= 1
    <3>1. {a.job : a \in answers[kind][key]} \subseteq {receipts[kind][key].job}
      BY DEF Inv, Answered, Kinds
    <3> QED BY <3>1, AtMostOne
  <2>2. \A i, j \in {i \in DigestOwners(key) : ~jobs[i].granted} : i = j
    BY DEF Inv, Owned, Owns, DigestOwners, Stored
  <2>3. Cardinality({i \in DigestOwners(key) : ~jobs[i].granted}) <= 1
    <3> DEFINE S == {i \in DigestOwners(key) : ~jobs[i].granted}
    <3> SUFFICES Cardinality(S) <= 1
      OBVIOUS
    <3>1. CASE S = {}
      BY <3>1, FS_EmptySet
    <3>2. CASE S # {}
      <4>1. PICK x \in S : TRUE
        BY <3>2
      <4>2. \A y \in S : y = x
        BY <2>2
      <4> HIDE DEF S
      <4>3. S \subseteq {x}
        BY <4>2
      <4> QED BY <4>3, AtMostOne
    <3> QED BY <3>1, <3>2
  <2> QED BY <2>1, <2>3
<1> QED BY <1>1, InvHolds, PTL

(* Admission looks at the jobs before it writes one, while workers, hooks, *)
(* recovery and resumption go on; no two executions share a lineage for    *)
(* it, and none is beside a writer without a worktree of its own.          *)
THEOREM ExecutionsAreApartHolds == Spec => []ExecutionsAreApart
<1>1. Inv => ExecutionsAreApart
  BY DEF Inv, Apart, MayRun, AreApart, ExecutionsAreApart, Stored
<1> QED BY <1>1, InvHolds, PTL

(* What a key is told of the cancellation it asked for is what the job's   *)
(* own history says, whether it is answered at once, after a crash, or     *)
(* again; "accepted" goes to the key that logged the cancellation alone.   *)
THEOREM FirstCancelIsAcceptedHolds == Spec => []FirstCancelIsAccepted
<1>1. Inv => FirstCancelIsAccepted
  <2> SUFFICES ASSUME Inv, NEW key \in Keys, NEW a \in answers["cancel"][key]
               PROVE  a.answer = "accepted" <=> firstCancel[a.job] = key
    BY DEF FirstCancelIsAccepted
  <2>1. a = receipts["cancel"][key] /\ a.job # None
    BY DEF Inv, Told, Answered, Kinds
  <2> QED BY <2>1 DEF Inv, Told
<1> QED BY <1>1, InvHolds, PTL
=============================================================================
