-------------------------- MODULE DeepResearchProofs --------------------------
(* Theorems about a deep-research job, for any number of revisions and of  *)
(* faults of any kind: a cancellation before the launch wins               *)
(* (CancelComesFirst), success is earned (CompletedIsEarned), the home     *)
(* outlives Grok (FilesOutliveGrok), an answer counts only if its whole    *)
(* chunk is sound (ChunksAreWhole), and the end of a job is final          *)
(* (EndIsFinal).                                                           *)
EXTENDS DeepResearch, TLAPS

Statuses == {"queued", "running"} \cup Ended
Outcomes == {"none", "failed", "cancelled"}
Session == {"new", "gate", "list", "prompt", "loop", "grace", "stopping"}
WorkerPcs == Opening \cup Session \cup {"close", "clean", "complete", "sweep", "fail", "block", "end", "dead"}
SweepPcs == {"idle", "grace", "kill", "worker", "commit", "blocked"}
Stages == {"unused", "pending", "answered", "resolved", "rejected"}

Job == [status : Statuses, pend : Outcomes, blocked : BOOLEAN,
        auth : BOOLEAN, worker : BOOLEAN, grok : BOOLEAN]
Worker == [pc : WorkerPcs, err : Outcomes, sec : BOOLEAN, cap : BOOLEAN, heard : BOOLEAN,
           acked : BOOLEAN, cancelled : BOOLEAN]
Sweep == [pc : SweepPcs, knew : BOOLEAN, kills : BOOLEAN]

AcpOK ==
  /\ req \in [Requests -> Stages]
  /\ closed \in BOOLEAN
  /\ chunk \in [open : BOOLEAN, answers : SUBSET Requests]

TypeInv ==
  /\ job \in Job
  /\ w \in Worker
  /\ sweep \in [Sweepers -> Sweep]
  /\ AcpOK
  /\ marker \in BOOLEAN /\ early \in BOOLEAN
  /\ launcher \in {"check", "spawn", "record", "ok", "failed", "lost"}
  /\ client \in {"launching", "reporting", "waiting", "done"}

(* Who unwinds or sweeps has an error to report.                           *)
ErrorsAreNamed == w.pc \in {"stopping", "sweep", "fail", "block"} => w.err # "none"

(* A job cancelled in time is not past its launch, and only with an error  *)
(* on its way to the end.                                                  *)
CancelInv ==
  early => /\ marker
           /\ w.pc \notin {"loop", "grace", "clean", "complete"}
           /\ w.pc = "close" => w.err # "none"
           /\ job.status # "completed"

(* The worker is started by the launcher, once.                            *)
NotStarted == launcher \in {"check", "spawn", "failed"}
StartedOnce ==
  /\ NotStarted => w.pc = "none" /\ job.auth /\ ~job.worker /\ ~job.grok
  /\ launcher \in {"record", "lost"} => w.pc # "none"
  /\ w.pc = "none" => ~job.worker /\ ~job.grok

ChunkInv ==
  chunk.open => /\ w.pc \in Session
                /\ \A id \in chunk.answers : req[id] \in {"answered", "rejected"}

(* Who is recorded has been started, and who is started is authorized or   *)
(* recorded: LaunchUnsettled tells the two apart.                          *)
RecordInv ==
  /\ w.pc # "none" \/ ~Terminal => job.auth \/ job.worker
  /\ w.pc \notin {"none", "authorize", "record", "end", "dead"} => job.worker
  /\ job.grok => job.worker

(* A sweep that ends the job has seen the worker's end or brings it about. *)
SweepInv ==
  \A s \in Sweepers :
    /\ sweep[s].pc \in {"kill", "worker", "commit"} => w.pc # "none"
    /\ sweep[s].pc \in {"kill", "worker"} => sweep[s].kills \/ ~Alive
    /\ sweep[s].pc = "commit" => ~Alive

(* Nobody who writes the end without a look at the record finds another    *)
(* end there, unless the launcher was lost.                                *)
EndInv ==
  /\ Terminal /\ Alive => launcher = "lost"
  /\ launcher \in {"check", "spawn"} => ~Terminal
  /\ launcher = "failed" /\ client \in {"launching", "reporting"} => ~Terminal
  /\ client = "reporting" => launcher \in {"failed", "lost"}

-----------------------------------------------------------------------------
(* What the building blocks of the actions do.                             *)

(* The worker goes on, fails or unwinds, and remains a worker.             *)
LEMMA WorkerMoves ==
  ASSUME w \in Worker
  PROVE  /\ \A pc \in WorkerPcs : Go(pc) => w' \in Worker /\ w'.pc = pc /\ w'.err = w.err
         /\ \A pc \in WorkerPcs, err \in Outcomes :
              Fails(err, pc) => w' \in Worker /\ w'.pc = pc /\ w'.err = err
         /\ \A err \in Outcomes :
              Unwinds(err) => w' \in Worker /\ w'.pc \in {"stopping", "close"} /\ w'.err = err
BY DEF Worker, Go, Fails, Unwinds, WorkerPcs, Session

(* A worker that has left its session knows nothing of it.                 *)
LEMMA WorkerForgets ==
  ASSUME NEW pc \in WorkerPcs, NEW err \in Outcomes, Forgets(pc, err)
  PROVE  w' \in Worker /\ w'.pc = pc /\ w'.err = err /\ AcpOK' /\ ~chunk'.open
BY DEF Forgets, WorkerAt, Worker, AcpForgets, AcpOK, NoChunk, Stages

(* The client's requests keep their types.                                 *)
LEMMA AcpMoves ==
  ASSUME AcpOK
  PROVE  /\ UNCHANGED acp => AcpOK'
         /\ \A id \in Requests : Dispatch(id) => AcpOK' /\ chunk' = chunk
         /\ \A id \in Requests : TimesOut(id) => AcpOK' /\ chunk' = chunk
         /\ \A id \in Requests, valid \in BOOLEAN : Answered(id, valid) => AcpOK'
         /\ Breaks /\ UNCHANGED chunk => AcpOK'
         /\ ChunkBegins => AcpOK'
         /\ ChunkEnds => AcpOK' /\ ~chunk'.open
<1>1. UNCHANGED acp => AcpOK' BY DEF acp, AcpOK
<1>2. \A id \in Requests : Dispatch(id) => AcpOK' /\ chunk' = chunk
  BY DEF AcpOK, Dispatch, Sent, Stages
<1>3. \A id \in Requests : TimesOut(id) => AcpOK' /\ chunk' = chunk
  BY DEF AcpOK, TimesOut, Stages
<1>4. Breaks /\ UNCHANGED chunk => AcpOK'
  BY DEF AcpOK, Breaks, Stages
<1>5. ASSUME NEW id \in Requests, NEW valid \in BOOLEAN, Answered(id, valid) PROVE AcpOK'
  <2>1. CASE req[id] # "pending" BY <1>4, <1>5, <2>1 DEF Answered
  <2>2. CASE req[id] = "pending" BY <1>5, <2>2 DEF Answered, AcpOK, Stages
  <2> QED BY <2>1, <2>2
<1>6. ChunkBegins => AcpOK' BY DEF AcpOK, ChunkBegins
<1>7. ChunkEnds => AcpOK' /\ ~chunk'.open BY DEF AcpOK, ChunkEnds, NoChunk, Stages
<1> QED BY <1>1, <1>2, <1>3, <1>4, <1>5, <1>6, <1>7

(* A launch, from a state that has the worker's type.                      *)
LEMMA LaunchMoves ==
  ASSUME DeepResearchAssumption, NEW state \in Worker, AcpOK, Launches(state)
  PROVE  /\ w' \in Worker /\ AcpOK' /\ chunk' = chunk
         /\ w'.pc = "prompt" \/ (w'.pc = "close" /\ w'.err = "failed")
<1>1. AcpOK' /\ chunk' = chunk
  <2>1. CASE w.sec BY <2>1, AcpMoves DEF Launches, acp
  <2>2. CASE ~w.sec BY <2>2, AcpMoves DEF Launches, DeepResearchAssumption
  <2> QED BY <2>1, <2>2
<1>2. CASE w.sec
  BY <1>1, <1>2 DEF Launches, Worker, WorkerPcs, Session, Outcomes
<1>3. CASE ~w.sec
  <2>1. w' = [state EXCEPT !.pc = "prompt", !.heard = FALSE] BY <1>3 DEF Launches
  <2> QED BY <1>1, <2>1 DEF Worker, WorkerPcs, Opening
<1> QED BY <1>2, <1>3

(* Steps of the transport, the provider and the poll leave the worker where*)
(* it is, and the rest of the job alone.                                   *)
main == <<job, marker, early, launcher, client, sweep>>

ProviderStep ==
  \/ PollSeesCancel \/ PollSeesDeadline \/ KillTimer \/ RequestTimesOut \/ ExitNoticed
  \/ ChunkArrives \/ ChunkOver \/ Answers \/ Advertises \/ Offends \/ Malformed \/ Exits \/ RunAdvances

LEMMA ProviderEffects ==
  ASSUME TypeInv, ProviderStep
  PROVE  /\ w'.pc = w.pc /\ w'.err = w.err /\ (w.cancelled => w'.cancelled)
         /\ UNCHANGED main
<1> USE DEF main, sessionFrame, grokFrame, own
<1>1. CASE PollSeesCancel \/ PollSeesDeadline \/ Offends \/ Advertises
  <2>1. \A v \in {[w EXCEPT !.cancelled = TRUE], [w EXCEPT !.sec = TRUE],
                  [w EXCEPT !.heard = TRUE], [w EXCEPT !.cap = TRUE]} :
          v.pc = w.pc /\ v.err = w.err /\ (w.cancelled => v.cancelled)
    BY DEF TypeInv, Worker
  <2> QED BY <1>1, <2>1 DEF PollSeesCancel, PollSeesDeadline, Offends, Advertises
<1>2. CASE KillTimer \/ RequestTimesOut \/ ExitNoticed \/ ChunkArrives \/ ChunkOver
  BY <1>2 DEF KillTimer, RequestTimesOut, ExitNoticed, ChunkArrives, ChunkOver
<1>3. CASE Answers \/ Malformed \/ Exits \/ RunAdvances
  BY <1>3 DEF Answers, Malformed, Exits, RunAdvances
<1> QED BY <1>1, <1>2, <1>3 DEF ProviderStep

(* Steps of the worker in its session: between chunks, to another stage or *)
(* out of it; into the loop only if no cancellation was requested, and out *)
(* of it without an error only from there.                                 *)
SessionStep ==
  \/ SessionOpened \/ RequestFailed \/ GatePasses \/ GateGivesUp \/ CatalogueRead
  \/ LaunchAcknowledged \/ LoopContinues \/ WorkflowJudged \/ StopAwaited

LEMMA SessionEffects ==
  ASSUME DeepResearchAssumption, TypeInv, ErrorsAreNamed, SessionStep
  PROVE  /\ UNCHANGED main
         /\ ~chunk.open /\ ~chunk'.open
         /\ w.pc \in Session /\ w'.pc \in Session \cup {"close"}
         /\ w'.pc \in {"loop", "grace"} => w.pc = "loop" \/ ~marker
         /\ w'.pc = "close" /\ w'.err = "none" => w.pc \in {"loop", "grace"}
<1> DEFINE Goal ==
      /\ UNCHANGED main
      /\ ~chunk.open /\ ~chunk'.open
      /\ w.pc \in Session /\ w'.pc \in Session \cup {"close"}
      /\ w'.pc \in {"loop", "grace"} => w.pc = "loop" \/ ~marker
      /\ w'.pc = "close" /\ w'.err = "none" => w.pc \in {"loop", "grace"}
<1> USE DeepResearchAssumption, WorkerMoves, AcpMoves
        DEF TypeInv, main, sessionFrame, acp, Session, WorkerPcs, Opening, Outcomes
<1>1. CASE SessionOpened
  <2>1. w'.pc = "gate" \/ (w'.pc = "close" /\ w'.err = "failed")
    BY <1>1 DEF SessionOpened, Worker
  <2> QED BY <1>1, <2>1 DEF SessionOpened, Answer
<1>2. CASE RequestFailed BY <1>2 DEF RequestFailed, Refusal
<1>3. CASE GatePasses BY <1>3, LaunchMoves DEF GatePasses
<1>4. CASE GateGivesUp BY <1>4 DEF GateGivesUp, DeepResearchAssumption
<1>5. CASE CatalogueRead
  <2>1. [w EXCEPT !.cap = TRUE] \in Worker BY DEF Worker
  <2> QED BY <1>5, <2>1, LaunchMoves DEF CatalogueRead, Answer, Refusal
<1>6. CASE LaunchAcknowledged
  <2>1. [w EXCEPT !.pc = "loop", !.acked = TRUE].pc = "loop" BY DEF Worker
  <2>2. /\ w'.pc \in {"loop", "stopping"} \/ (w'.pc = "close" /\ w'.err # "none")
        /\ w'.pc = "loop" => ~marker
    BY <1>6, <2>1 DEF LaunchAcknowledged
  <2> QED BY <1>6, <2>2 DEF LaunchAcknowledged, Answer
<1>7. CASE LoopContinues BY <1>7 DEF LoopContinues
<1>8. CASE WorkflowJudged BY <1>8 DEF WorkflowJudged
<1>9. CASE StopAwaited
  <2>1. (IF w.sec THEN "failed" ELSE w.err) \in Outcomes \ {"none"}
    BY <1>9 DEF StopAwaited, ErrorsAreNamed, Worker
  <2> QED BY <1>9, <2>1 DEF StopAwaited
<1> QED BY <1>1, <1>2, <1>3, <1>4, <1>5, <1>6, <1>7, <1>8, <1>9 DEF SessionStep

(* What the commit of a sweep leaves of the record.                        *)
LEMMA CommitEffects ==
  ASSUME job \in Job, NEW s \in Sweepers, SweepCommits(s)
  PROVE  /\ job'.auth = job.auth /\ job'.worker = job.worker /\ job'.grok = job.grok
         /\ Terminal => job' = job
         /\ ~Terminal => job'.status # "completed"
<1>1. CASE s = "cancel" BY <1>1 DEF SweepCommits, Unless, Job, Terminal, Ended
<1>2. CASE s # "cancel" BY <1>2 DEF SweepCommits, Unless, Job, Terminal, Ended, Outcomes
<1> QED BY <1>1, <1>2

(* A notification is progress, and no more.                                *)
LEMMA NotifiedEffects ==
  ASSUME job \in Job, NEW u, Notified(u)
  PROVE  job'.status = job.status /\ job'.grok = job.grok /\ UNCHANGED <<w, sweep, files, blind>>
<1>1. job' \in {job, [job EXCEPT !.blocked = FALSE]} BY DEF Notified, Reported, Unless
<1>2. [job EXCEPT !.blocked = FALSE].status = job.status /\ [job EXCEPT !.blocked = FALSE].grok = job.grok
  BY DEF Job
<1> QED BY <1>1, <1>2 DEF Notified

(* Types are kept, and so is that errors are named.                        *)
LEMMA TypeStep ==
  ASSUME DeepResearchAssumption, TypeInv, ErrorsAreNamed, [Next]_vars
  PROVE  TypeInv' /\ ErrorsAreNamed'
<1> DEFINE Good == TypeInv' /\ ErrorsAreNamed'
<1> SUFFICES Good OBVIOUS
<1> USE DeepResearchAssumption, WorkerMoves, AcpMoves
        DEF TypeInv, ErrorsAreNamed, WorkerPcs, Opening, Session, Outcomes
<1>1. CASE ClientSweeps BY <1>1 DEF ClientSweeps, acp
<1>2. CASE ClientReports BY <1>2 DEF ClientReports, Job, Statuses, Ended
<1>3. CASE ClientStopsWaiting BY <1>3 DEF ClientStopsWaiting
<1>4. CASE LauncherChecks BY <1>4 DEF LauncherChecks, Job, Statuses, Ended
<1>5. CASE LauncherSpawns BY <1>5 DEF LauncherSpawns
<1>6. CASE LauncherRecords BY <1>6 DEF LauncherRecords, Unless, Job, Statuses
<1>7. CASE LauncherFails BY <1>7 DEF LauncherFails
<1>8. CASE WorkerStarts BY <1>8 DEF WorkerStarts
<1>9. CASE WorkerRecords
  <2>1. job' \in Job BY <1>9 DEF WorkerRecords, Unless, Job, Statuses
  <2> QED BY <1>9, <2>1 DEF WorkerRecords
<1>10. CASE WorkerTakesQuery BY <1>10 DEF WorkerTakesQuery
<1>11. CASE WorkerChecks BY <1>11 DEF WorkerChecks
<1>12. CASE WorkerOpens BY <1>12 DEF WorkerOpens
<1>13. CASE WorkerSpawns BY <1>13 DEF WorkerSpawns
<1>14. CASE WorkerGuards BY <1>14 DEF WorkerGuards
<1>15. CASE WorkerPublishes
  <2>1. job' \in Job BY <1>15 DEF WorkerPublishes, Unless, Job
  <2> QED BY <1>15, <2>1 DEF WorkerPublishes
<1>16. CASE WorkerAsksForSession BY <1>16 DEF WorkerAsksForSession, DeepResearchAssumption
<1>17. CASE WorkerOpenFails BY <1>17 DEF WorkerOpenFails
<1>18. CASE SessionOpened
  <2>1. CASE w.sec BY <1>18, <2>1 DEF SessionOpened, sessionFrame
  <2>2. CASE ~w.sec
    <3>1. (w.cap \/ w.heard) \in BOOLEAN OBVIOUS
    <3>2. w' = [w EXCEPT !.pc = "gate", !.cap = w.cap \/ w.heard]
      <4>1. w' = [w EXCEPT !.pc = "gate", !.cap = @ \/ w.heard]
        BY ONLY <1>18, <2>2 DEF SessionOpened
      <4> QED BY ONLY <4>1
    <3>3. w \in Worker /\ "gate" \in WorkerPcs OBVIOUS
    <3>4. w' \in Worker /\ w'.pc = "gate" BY ONLY <3>1, <3>2, <3>3 DEF Worker
    <3> QED BY <1>18, <3>4 DEF SessionOpened, sessionFrame
  <2> QED BY <2>1, <2>2
<1>19. CASE RequestFailed BY <1>19 DEF RequestFailed, sessionFrame
<1>20. CASE GatePasses
  <2>1. /\ w' \in Worker /\ AcpOK'
        /\ w'.pc = "prompt" \/ (w'.pc = "close" /\ w'.err = "failed")
    BY <1>20, LaunchMoves DEF GatePasses
  <2> QED BY <1>20, <2>1 DEF GatePasses, sessionFrame
<1>21. CASE GateGivesUp BY <1>21 DEF GateGivesUp, sessionFrame, DeepResearchAssumption
<1>22. CASE CatalogueRead
  <2>1. [w EXCEPT !.cap = TRUE] \in Worker BY DEF Worker
  <2>2. w' \in Worker /\ AcpOK' /\ w'.pc \in {"prompt", "close"}
    BY <1>22, <2>1, LaunchMoves DEF CatalogueRead
  <2> QED BY <1>22, <2>2 DEF CatalogueRead, sessionFrame
<1>23. CASE LaunchAcknowledged
  <2>1. /\ [w EXCEPT !.pc = "loop", !.acked = TRUE] \in Worker
        /\ [w EXCEPT !.pc = "loop", !.acked = TRUE].pc = "loop"
    BY DEF Worker
  <2>2. w' \in Worker /\ (w'.pc = "stopping" => w'.err # "none")
    BY <1>23, <2>1 DEF LaunchAcknowledged
  <2>3. w'.pc \in {"loop", "stopping", "close"}
    BY <1>23, <2>1 DEF LaunchAcknowledged
  <2> QED BY <1>23, <2>2, <2>3 DEF LaunchAcknowledged, sessionFrame
<1>24. CASE LoopContinues BY <1>24 DEF LoopContinues, sessionFrame
<1>25. CASE WorkflowJudged BY <1>25 DEF WorkflowJudged, sessionFrame
<1>26. CASE StopAwaited
  <2>1. w' \in Worker /\ w'.pc = "close"
    <3>1. w.err \in Outcomes BY DEF Worker
    <3>2. (IF w.sec THEN "failed" ELSE w.err) \in Outcomes BY <3>1
    <3> QED BY <1>26, <3>2 DEF StopAwaited
  <2> QED BY <1>26, <2>1 DEF StopAwaited, sessionFrame
<1>27. CASE RequestTimesOut BY <1>27 DEF RequestTimesOut, own
<1>28. CASE ExitNoticed BY <1>28 DEF ExitNoticed, own
<1>29. CASE WorkerCloses
  <2>1. w.err \in Outcomes BY DEF Worker
  <2>2. PICK pc \in {"clean", "sweep"}, err \in Outcomes :
          Forgets(pc, err) /\ (pc = "sweep" => err # "none")
    BY <1>29, <2>1 DEF WorkerCloses
  <2>3. w' \in Worker /\ w'.pc = pc /\ w'.err = err /\ AcpOK'
    BY <2>2, WorkerForgets
  <2> QED BY <1>29, <2>2, <2>3 DEF WorkerCloses
<1>30. CASE WorkerCleans BY <1>30 DEF WorkerCleans
<1>31. CASE WorkerCompletes
  <2>1. job' \in Job BY <1>31 DEF WorkerCompletes, Job, Statuses, Ended
  <2> QED BY <1>31, <2>1 DEF WorkerCompletes
<1>32. CASE WorkerSweeps BY <1>32 DEF WorkerSweeps
<1>33. CASE WorkerFails
  <2>1. w.err \in {"failed", "cancelled"} BY <1>33 DEF WorkerFails, Worker
  <2>2. job' \in Job BY <1>33, <2>1 DEF WorkerFails, Job, Statuses, Ended
  <2> QED BY <1>33, <2>2 DEF WorkerFails
<1>34. CASE PollSeesCancel BY <1>34 DEF PollSeesCancel, sessionFrame, Worker
<1>35. CASE PollSeesDeadline BY <1>35 DEF PollSeesDeadline, sessionFrame, Worker
<1>36. CASE KillTimer BY <1>36 DEF KillTimer
<1>37. CASE WorkerDies BY <1>37, WorkerForgets DEF WorkerDies
<1>38. CASE ChunkArrives BY <1>38 DEF ChunkArrives, own
<1>39. CASE ChunkOver BY <1>39 DEF ChunkOver, own
<1>40. CASE Answers BY <1>40 DEF Answers, grokFrame
<1>41. CASE Advertises
  <2>1. /\ [w EXCEPT !.heard = TRUE] \in Worker /\ [w EXCEPT !.heard = TRUE].pc = w.pc
        /\ [w EXCEPT !.cap = TRUE] \in Worker /\ [w EXCEPT !.cap = TRUE].pc = w.pc
    BY DEF Worker
  <2>2. AcpOK' BY <1>41, "list" \in Requests DEF Advertises, DeepResearchAssumption
  <2> QED BY <1>41, <2>1, <2>2 DEF Advertises, grokFrame
<1>42. CASE Offends BY <1>42 DEF Offends, grokFrame, Worker
<1>43. CASE Malformed BY <1>43 DEF Malformed, grokFrame
<1>44. CASE Exits BY <1>44 DEF Exits
<1>45. CASE RunAdvances BY <1>45 DEF RunAdvances
<1>46. ASSUME NEW u, Notified(u) PROVE Good BY <1>46 DEF Notified, Reported, Unless, Job
<1>47. CASE Cancels BY <1>47 DEF Cancels, Sets, Sweepers, Sweep, SweepPcs
<1>48. CASE CancelForces
  <2>1. job' \in Job BY <1>48 DEF CancelForces, Unless, Job, Statuses
  <2>2. /\ [pc |-> "kill", knew |-> job.grok, kills |-> job.worker] \in Sweep /\ Idle \in Sweep
    BY DEF Sweep, SweepPcs, Idle, Job
  <2>3. sweep' \in [Sweepers -> Sweep] BY <1>48, <2>2 DEF CancelForces
  <2> QED BY <1>48, <2>1, <2>3 DEF CancelForces, sweepFrame
<1>49. CASE RecoverStarts BY <1>49 DEF RecoverStarts, sweepFrame, Sweepers, Sweep, SweepPcs, Job
<1>50. ASSUME NEW s \in Sweepers, SweepKillsGrok(s) PROVE Good
  BY <1>50 DEF SweepKillsGrok, Sets, Sweep, SweepPcs
<1>51. ASSUME NEW s \in Sweepers, SweepKillsWorker(s) PROVE Good
  BY <1>51, WorkerForgets DEF SweepKillsWorker, Sets, Sweep, SweepPcs
<1>52. ASSUME NEW s \in Sweepers, SweepCommits(s) PROVE Good
  <2>1. job' \in Job
    <3>1. (IF job.pend = "none" THEN "failed" ELSE job.pend) \in Statuses
      BY DEF Job, Statuses, Ended
    <3>2. CASE s = "cancel" BY <1>52, <3>2 DEF SweepCommits, Unless, Job, Statuses, Ended
    <3>3. CASE s # "cancel" BY <1>52, <3>1, <3>3 DEF SweepCommits, Unless, Job
    <3> QED BY <3>2, <3>3
  <2>2. sweep' \in [Sweepers -> Sweep] BY <1>52 DEF SweepCommits, Sweep, SweepPcs, Idle
  <2> QED BY <1>52, <2>1, <2>2 DEF SweepCommits, sweepFrame
<1>53. CASE UNCHANGED vars BY <1>53 DEF vars, own
<1> QED
  BY <1>1, <1>2, <1>3, <1>4, <1>5, <1>6, <1>7, <1>8, <1>9, <1>10, <1>11, <1>12, <1>13, <1>14,
     <1>15, <1>16, <1>17, <1>18, <1>19, <1>20, <1>21, <1>22, <1>23, <1>24, <1>25, <1>26, <1>27,
     <1>28, <1>29, <1>30, <1>31, <1>32, <1>33, <1>34, <1>35, <1>36, <1>37, <1>38, <1>39, <1>40,
     <1>41, <1>42, <1>43, <1>44, <1>45, <1>46, <1>47, <1>48, <1>49, <1>50, <1>51, <1>52, <1>53
  DEF Next, ClientSteps, LauncherSteps, WorkerSteps, SweepSteps, WorkflowUpdated, ForeignUpdated,
     StrayUpdated

(* The worker is started once.                                            *)
LEMMA StartedStep ==
  ASSUME DeepResearchAssumption, TypeInv, ErrorsAreNamed, StartedOnce, SweepInv, [Next]_vars
  PROVE  StartedOnce'
<1> USE DeepResearchAssumption, WorkerMoves
        DEF TypeInv, StartedOnce, SweepInv, NotStarted, Job, Alive, LaunchUnsettled, Outcomes,
            WorkerPcs, Opening, Session
<1>1. CASE ClientSweeps BY <1>1 DEF ClientSweeps
<1>2. CASE ClientReports BY <1>2 DEF ClientReports
<1>3. CASE ClientStopsWaiting BY <1>3 DEF ClientStopsWaiting
<1>4. CASE LauncherChecks BY <1>4 DEF LauncherChecks
<1>5. CASE LauncherSpawns BY <1>5 DEF LauncherSpawns
<1>6. CASE LauncherRecords BY <1>6 DEF LauncherRecords, Unless
<1>7. CASE LauncherFails BY <1>7 DEF LauncherFails
<1>8. CASE WorkerStarts BY <1>8 DEF WorkerStarts
<1>9. CASE WorkerRecords BY <1>9 DEF WorkerRecords, Unless
<1>10. CASE WorkerTakesQuery BY <1>10 DEF WorkerTakesQuery
<1>11. CASE WorkerChecks BY <1>11 DEF WorkerChecks
<1>12. CASE WorkerOpens BY <1>12 DEF WorkerOpens
<1>13. CASE WorkerSpawns BY <1>13 DEF WorkerSpawns
<1>14. CASE WorkerGuards BY <1>14 DEF WorkerGuards
<1>15. CASE WorkerPublishes BY <1>15 DEF WorkerPublishes, Unless
<1>16. CASE WorkerAsksForSession BY <1>16 DEF WorkerAsksForSession
<1>17. CASE WorkerOpenFails BY <1>17 DEF WorkerOpenFails
<1>18. CASE SessionStep BY <1>18, SessionEffects DEF main
<1>19. CASE WorkerCloses BY <1>19, WorkerForgets DEF WorkerCloses, Worker
<1>20. CASE WorkerCleans BY <1>20 DEF WorkerCleans
<1>21. CASE WorkerCompletes BY <1>21 DEF WorkerCompletes
<1>22. CASE WorkerSweeps BY <1>22 DEF WorkerSweeps
<1>23. CASE WorkerFails BY <1>23 DEF WorkerFails
<1>24. CASE WorkerDies BY <1>24, WorkerForgets DEF WorkerDies
<1>25. CASE ProviderStep BY <1>25, ProviderEffects DEF main
<1>26. CASE Cancels BY <1>26 DEF Cancels, Sets
<1>27. CASE CancelForces BY <1>27 DEF CancelForces, Unless, sweepFrame
<1>28. CASE RecoverStarts BY <1>28 DEF RecoverStarts, sweepFrame
<1>29. ASSUME NEW s \in Sweepers, SweepKillsGrok(s) PROVE StartedOnce'
  BY <1>29 DEF SweepKillsGrok, Sets
<1>30. ASSUME NEW s \in Sweepers, SweepKillsWorker(s) PROVE StartedOnce'
  BY <1>30, WorkerForgets DEF SweepKillsWorker, Sets
<1>31. ASSUME NEW s \in Sweepers, SweepCommits(s) PROVE StartedOnce'
  BY <1>31 DEF SweepCommits, Unless, sweepFrame
<1>32. ASSUME NEW u, Notified(u) PROVE StartedOnce' BY <1>32 DEF Notified, Reported, Unless
<1>33. CASE UNCHANGED vars BY <1>33 DEF vars, own
<1> QED
  BY <1>1, <1>2, <1>3, <1>4, <1>5, <1>6, <1>7, <1>8, <1>9, <1>10, <1>11, <1>12, <1>13, <1>14,
     <1>15, <1>16, <1>17, <1>18, <1>19, <1>20, <1>21, <1>22, <1>23, <1>24, <1>25, <1>26,
     <1>27, <1>28, <1>29, <1>30, <1>31, <1>32, <1>33
  DEF Next, ClientSteps, LauncherSteps, WorkerSteps, SweepSteps,
     WorkflowUpdated, ForeignUpdated, StrayUpdated,
      SessionStep, ProviderStep

(* What a chunk has answered waits for the end of the chunk or is rejected.*)
LEMMA ChunkStep ==
  ASSUME DeepResearchAssumption, TypeInv, ErrorsAreNamed, StartedOnce, ChunkInv, [Next]_vars
  PROVE  ChunkInv'
<1> USE DeepResearchAssumption, WorkerMoves
        DEF TypeInv, AcpOK, ChunkInv, WorkerPcs, Opening, Session, Outcomes
<1>1. ASSUME UNCHANGED <<w, acp>> PROVE ChunkInv' BY <1>1 DEF acp
<1>2. ASSUME ~chunk.open, chunk' = chunk PROVE ChunkInv' BY <1>2
<1>3. ASSUME ~chunk'.open PROVE ChunkInv' BY <1>3
<1>4. CASE ClientSteps \/ ClientStopsWaiting \/ LauncherChecks \/ LauncherRecords
  BY <1>1, <1>4 DEF ClientSteps, ClientSweeps, ClientReports, ClientStopsWaiting, LauncherChecks,
       LauncherRecords
<1>5. CASE LauncherSpawns BY <1>2, <1>5 DEF LauncherSpawns, StartedOnce, NotStarted, acp
<1>6. CASE LauncherFails BY <1>1, <1>2, <1>6 DEF LauncherFails, acp
<1>7. CASE \/ WorkerStarts \/ WorkerRecords \/ WorkerTakesQuery \/ WorkerChecks \/ WorkerOpens
           \/ WorkerSpawns \/ WorkerGuards \/ WorkerPublishes \/ WorkerOpenFails
  BY <1>2, <1>7 DEF WorkerStarts, WorkerRecords, WorkerTakesQuery, WorkerChecks, WorkerOpens,
     WorkerSpawns, WorkerGuards, WorkerPublishes, WorkerOpenFails, acp
<1>8. CASE WorkerAsksForSession BY <1>2, <1>8 DEF WorkerAsksForSession, Dispatch
<1>9. CASE SessionStep BY <1>3, <1>9, SessionEffects
<1>10. CASE WorkerCloses BY <1>3, <1>10, WorkerForgets DEF WorkerCloses, Worker
<1>11. CASE WorkerCleans \/ WorkerCompletes \/ WorkerSweeps \/ WorkerFails
  BY <1>2, <1>11 DEF WorkerCleans, WorkerCompletes, WorkerSweeps, WorkerFails, acp
<1>12. CASE WorkerDies BY <1>3, <1>12, WorkerForgets DEF WorkerDies
<1>13. CASE RequestTimesOut BY <1>2, <1>13 DEF RequestTimesOut, TimesOut
<1>14. CASE PollSeesCancel \/ PollSeesDeadline
  BY <1>2, <1>14 DEF PollSeesCancel, PollSeesDeadline, Polls, acp
<1>15. CASE KillTimer \/ Exits \/ RunAdvances
  BY <1>1, <1>15 DEF KillTimer, Exits, RunAdvances
<1>16. CASE ExitNoticed BY <1>2, <1>16 DEF ExitNoticed
<1>17. CASE ChunkArrives BY <1>17 DEF ChunkArrives, ChunkBegins, InSession, own
<1>18. CASE ChunkOver BY <1>3, <1>18, AcpMoves DEF ChunkOver
<1>19. ASSUME Breaks, UNCHANGED chunk, chunk.open, w'.pc = w.pc PROVE ChunkInv'
  BY <1>19 DEF Breaks
<1>20. ASSUME NEW id \in Requests, NEW valid \in BOOLEAN, Answered(id, valid), chunk.open, w'.pc = w.pc
       PROVE  ChunkInv'
  <2>1. CASE req[id] # "pending" BY <1>19, <1>20, <2>1 DEF Answered
  <2>2. CASE req[id] = "pending" BY <1>20, <2>2 DEF Answered
  <2> QED BY <2>1, <2>2
<1>21. CASE Malformed BY <1>19, <1>21 DEF Malformed, Speaks
<1>22. CASE Answers BY <1>20, <1>22 DEF Answers, Speaks
<1>23. CASE Advertises
  <2>1. w'.pc = w.pc BY <1>23, ProviderEffects DEF ProviderStep
  <2>2. CASE UNCHANGED acp BY <1>23, <2>1, <2>2 DEF acp
  <2>3. CASE Answered("list", TRUE)
    BY <1>20, <1>23, <2>1, <2>3 DEF Advertises, Speaks, DeepResearchAssumption
  <2> QED BY <1>23, <2>2, <2>3 DEF Advertises
<1>24. CASE Offends
  <2>1. w'.pc = w.pc BY <1>24, ProviderEffects DEF ProviderStep
  <2> QED BY <1>24, <2>1 DEF Offends, acp
<1>25. ASSUME NEW u, Notified(u) PROVE ChunkInv' BY <1>1, <1>25 DEF Notified
<1>26. CASE Cancels \/ CancelForces \/ RecoverStarts
  BY <1>1, <1>26 DEF Cancels, CancelForces, RecoverStarts, sweepFrame
<1>27. ASSUME NEW s \in Sweepers, SweepKillsGrok(s) \/ SweepCommits(s) PROVE ChunkInv'
  BY <1>1, <1>27 DEF SweepKillsGrok, SweepCommits, sweepFrame
<1>28. ASSUME NEW s \in Sweepers, SweepKillsWorker(s) PROVE ChunkInv'
  BY <1>1, <1>3, <1>28, WorkerForgets DEF SweepKillsWorker
<1>29. CASE UNCHANGED vars BY <1>1, <1>29 DEF vars, own
<1> QED
  BY <1>4, <1>5, <1>6, <1>7, <1>8, <1>9, <1>10, <1>11, <1>12, <1>13, <1>14, <1>15, <1>16, <1>17,
     <1>18, <1>21, <1>22, <1>23, <1>24, <1>25, <1>26, <1>27, <1>28, <1>29
  DEF Next, LauncherSteps, WorkerSteps, SweepSteps, WorkflowUpdated, ForeignUpdated,
     StrayUpdated, SessionStep

(* A cancellation in time is not forgotten.                                *)
LEMMA CancelStep ==
  ASSUME DeepResearchAssumption, TypeInv, ErrorsAreNamed, CancelInv, [Next]_vars
  PROVE  CancelInv'
<1> USE DeepResearchAssumption, WorkerMoves
        DEF TypeInv, CancelInv, Job, Terminal, Ended, Outcomes, WorkerPcs, Opening, Session
<1>1. CASE ClientSweeps BY <1>1 DEF ClientSweeps
<1>2. CASE ClientReports BY <1>2 DEF ClientReports
<1>3. CASE ClientStopsWaiting BY <1>3 DEF ClientStopsWaiting
<1>4. CASE LauncherChecks BY <1>4 DEF LauncherChecks
<1>5. CASE LauncherSpawns BY <1>5 DEF LauncherSpawns
<1>6. CASE LauncherRecords BY <1>6 DEF LauncherRecords, Unless
<1>7. CASE LauncherFails BY <1>7 DEF LauncherFails
<1>8. CASE WorkerStarts BY <1>8 DEF WorkerStarts
<1>9. CASE WorkerRecords BY <1>9 DEF WorkerRecords, Unless
<1>10. CASE WorkerTakesQuery BY <1>10 DEF WorkerTakesQuery
<1>11. CASE WorkerChecks BY <1>11 DEF WorkerChecks
<1>12. CASE WorkerOpens BY <1>12 DEF WorkerOpens
<1>13. CASE WorkerSpawns BY <1>13 DEF WorkerSpawns
<1>14. CASE WorkerGuards BY <1>14 DEF WorkerGuards
<1>15. CASE WorkerPublishes BY <1>15 DEF WorkerPublishes, Unless
<1>16. CASE WorkerAsksForSession BY <1>16 DEF WorkerAsksForSession
<1>17. CASE WorkerOpenFails BY <1>17 DEF WorkerOpenFails
<1>18. CASE SessionStep BY <1>18, SessionEffects DEF main
<1>19. CASE WorkerCloses BY <1>19, WorkerForgets DEF WorkerCloses, Worker
<1>20. CASE WorkerCleans BY <1>20 DEF WorkerCleans
<1>21. CASE WorkerCompletes BY <1>21 DEF WorkerCompletes
<1>22. CASE WorkerSweeps BY <1>22 DEF WorkerSweeps
<1>23. CASE WorkerFails BY <1>23 DEF WorkerFails, Worker
<1>24. CASE WorkerDies BY <1>24, WorkerForgets DEF WorkerDies
<1>25. CASE ProviderStep BY <1>25, ProviderEffects DEF main
<1>26. CASE Cancels BY <1>26 DEF Cancels, Sets
<1>27. CASE CancelForces BY <1>27 DEF CancelForces, Unless, sweepFrame
<1>28. CASE RecoverStarts BY <1>28 DEF RecoverStarts, sweepFrame
<1>29. ASSUME NEW s \in Sweepers, SweepKillsGrok(s) PROVE CancelInv'
  BY <1>29 DEF SweepKillsGrok, Sets
<1>30. ASSUME NEW s \in Sweepers, SweepKillsWorker(s) PROVE CancelInv'
  <2>1. CASE Forgets("dead", "none") BY <1>30, <2>1, WorkerForgets DEF SweepKillsWorker
  <2>2. CASE UNCHANGED w BY <1>30, <2>2 DEF SweepKillsWorker
  <2> QED BY <1>30, <2>1, <2>2 DEF SweepKillsWorker
<1>31. ASSUME NEW s \in Sweepers, SweepCommits(s) PROVE CancelInv'
  BY <1>31 DEF SweepCommits, Unless, sweepFrame
<1>32. ASSUME NEW u, Notified(u) PROVE CancelInv' BY <1>32 DEF Notified, Reported, Unless
<1>33. CASE UNCHANGED vars BY <1>33 DEF vars, own
<1> QED
  BY <1>1, <1>2, <1>3, <1>4, <1>5, <1>6, <1>7, <1>8, <1>9, <1>10, <1>11, <1>12, <1>13, <1>14,
     <1>15, <1>16, <1>17, <1>18, <1>19, <1>20, <1>21, <1>22, <1>23, <1>24, <1>25, <1>26,
     <1>27, <1>28, <1>29, <1>30, <1>31, <1>32, <1>33
  DEF Next, ClientSteps, LauncherSteps, WorkerSteps, SweepSteps,
     WorkflowUpdated, ForeignUpdated, StrayUpdated,
      SessionStep, ProviderStep

(* Who is started is on record or authorized.                              *)
LEMMA RecordStep ==
  ASSUME DeepResearchAssumption, TypeInv, ErrorsAreNamed, StartedOnce, RecordInv, SweepInv, [Next]_vars
  PROVE  RecordInv'
<1> USE DeepResearchAssumption, WorkerMoves
        DEF TypeInv, RecordInv, StartedOnce, SweepInv, NotStarted, Alive, LaunchUnsettled,
            Outcomes, Job, Statuses, Ended, Terminal, WorkerPcs, Opening, Session
<1>1. CASE ClientSweeps BY <1>1 DEF ClientSweeps
<1>2. CASE ClientReports BY <1>2 DEF ClientReports
<1>3. CASE ClientStopsWaiting BY <1>3 DEF ClientStopsWaiting
<1>4. CASE LauncherChecks BY <1>4 DEF LauncherChecks
<1>5. CASE LauncherSpawns BY <1>5 DEF LauncherSpawns
<1>6. CASE LauncherRecords BY <1>6 DEF LauncherRecords, Unless
<1>7. CASE LauncherFails BY <1>7 DEF LauncherFails
<1>8. CASE WorkerStarts BY <1>8 DEF WorkerStarts
<1>9. CASE WorkerRecords BY <1>9 DEF WorkerRecords, Unless
<1>10. CASE WorkerTakesQuery BY <1>10 DEF WorkerTakesQuery
<1>11. CASE WorkerChecks BY <1>11 DEF WorkerChecks
<1>12. CASE WorkerOpens BY <1>12 DEF WorkerOpens
<1>13. CASE WorkerSpawns BY <1>13 DEF WorkerSpawns
<1>14. CASE WorkerGuards BY <1>14 DEF WorkerGuards
<1>15. CASE WorkerPublishes
  <2>1. /\ job' = job \/ (job' = [job EXCEPT !.grok = TRUE] /\ ~Terminal)
        /\ w.pc = "publish" /\ w'.pc = "initialize"
    BY <1>15 DEF WorkerPublishes, Unless
  <2> QED BY <2>1
<1>16. CASE WorkerAsksForSession BY <1>16 DEF WorkerAsksForSession
<1>17. CASE WorkerOpenFails BY <1>17 DEF WorkerOpenFails
<1>18. CASE SessionStep BY <1>18, SessionEffects DEF main
<1>19. CASE WorkerCloses BY <1>19, WorkerForgets DEF WorkerCloses, Worker
<1>20. CASE WorkerCleans BY <1>20 DEF WorkerCleans
<1>21. CASE WorkerCompletes BY <1>21 DEF WorkerCompletes
<1>22. CASE WorkerSweeps BY <1>22 DEF WorkerSweeps
<1>23. CASE WorkerFails BY <1>23 DEF WorkerFails
<1>24. CASE WorkerDies BY <1>24, WorkerForgets DEF WorkerDies
<1>25. CASE ProviderStep BY <1>25, ProviderEffects DEF main
<1>26. CASE Cancels BY <1>26 DEF Cancels, Sets
<1>27. CASE CancelForces BY <1>27 DEF CancelForces, Unless, sweepFrame
<1>28. CASE RecoverStarts BY <1>28 DEF RecoverStarts, sweepFrame
<1>29. ASSUME NEW s \in Sweepers, SweepKillsGrok(s) PROVE RecordInv'
  BY <1>29 DEF SweepKillsGrok, Sets
<1>30. ASSUME NEW s \in Sweepers, SweepKillsWorker(s) PROVE RecordInv'
  BY <1>30, WorkerForgets DEF SweepKillsWorker, Sets
<1>31. ASSUME NEW s \in Sweepers, SweepCommits(s) PROVE RecordInv'
  <2>1. w' = w BY <1>31 DEF SweepCommits
  <2> QED BY <1>31, <2>1, CommitEffects
<1>32. ASSUME NEW u, Notified(u) PROVE RecordInv' BY <1>32 DEF Notified, Reported, Unless
<1>33. CASE UNCHANGED vars BY <1>33 DEF vars, own
<1> QED
  BY <1>1, <1>2, <1>3, <1>4, <1>5, <1>6, <1>7, <1>8, <1>9, <1>10, <1>11, <1>12, <1>13, <1>14,
     <1>15, <1>16, <1>17, <1>18, <1>19, <1>20, <1>21, <1>22, <1>23, <1>24, <1>25, <1>26,
     <1>27, <1>28, <1>29, <1>30, <1>31, <1>32, <1>33
  DEF Next, ClientSteps, LauncherSteps, WorkerSteps, SweepSteps,
     WorkflowUpdated, ForeignUpdated, StrayUpdated,
      SessionStep, ProviderStep

(* A sweep ends the job only when the worker is gone.                      *)
LEMMA SweepStep ==
  ASSUME DeepResearchAssumption, TypeInv, ErrorsAreNamed, StartedOnce, RecordInv, SweepInv, [Next]_vars
  PROVE  SweepInv'
<1> USE DeepResearchAssumption, WorkerMoves
        DEF TypeInv, RecordInv, StartedOnce, SweepInv, NotStarted, Alive, LaunchUnsettled, Sweep,
            Outcomes, WorkerPcs, Opening, Session
<1>1. CASE ClientSweeps BY <1>1 DEF ClientSweeps
<1>2. CASE ClientReports BY <1>2 DEF ClientReports
<1>3. CASE ClientStopsWaiting BY <1>3 DEF ClientStopsWaiting
<1>4. CASE LauncherChecks BY <1>4 DEF LauncherChecks
<1>5. CASE LauncherSpawns BY <1>5 DEF LauncherSpawns
<1>6. CASE LauncherRecords BY <1>6 DEF LauncherRecords, Unless
<1>7. CASE LauncherFails BY <1>7 DEF LauncherFails
<1>8. CASE WorkerStarts BY <1>8 DEF WorkerStarts
<1>9. CASE WorkerRecords BY <1>9 DEF WorkerRecords, Unless
<1>10. CASE WorkerTakesQuery BY <1>10 DEF WorkerTakesQuery
<1>11. CASE WorkerChecks BY <1>11 DEF WorkerChecks
<1>12. CASE WorkerOpens BY <1>12 DEF WorkerOpens
<1>13. CASE WorkerSpawns BY <1>13 DEF WorkerSpawns
<1>14. CASE WorkerGuards BY <1>14 DEF WorkerGuards
<1>15. CASE WorkerPublishes BY <1>15 DEF WorkerPublishes, Unless
<1>16. CASE WorkerAsksForSession BY <1>16 DEF WorkerAsksForSession
<1>17. CASE WorkerOpenFails BY <1>17 DEF WorkerOpenFails
<1>18. CASE SessionStep BY <1>18, SessionEffects DEF main
<1>19. CASE WorkerCloses BY <1>19, WorkerForgets DEF WorkerCloses, Worker
<1>20. CASE WorkerCleans BY <1>20 DEF WorkerCleans
<1>21. CASE WorkerCompletes BY <1>21 DEF WorkerCompletes
<1>22. CASE WorkerSweeps BY <1>22 DEF WorkerSweeps
<1>23. CASE WorkerFails BY <1>23 DEF WorkerFails
<1>24. CASE WorkerDies BY <1>24, WorkerForgets DEF WorkerDies
<1>25. CASE ProviderStep BY <1>25, ProviderEffects DEF main
<1>26. CASE Cancels BY <1>26 DEF Cancels, Sets
<1>27. CASE CancelForces
  <2>1. CASE Terminal \/ LaunchUnsettled
    BY <1>27, <2>1 DEF CancelForces, sweepFrame, Idle
  <2>2. CASE ~Terminal /\ ~LaunchUnsettled
    <3>1. job.worker BY <2>2 DEF Job
    <3>2. w.pc # "none" /\ w' = w BY <1>27, <3>1 DEF CancelForces
    <3>3. sweep' = [sweep EXCEPT !["cancel"] = [pc |-> "kill", knew |-> job.grok, kills |-> job.worker]]
      BY <1>27, <2>2 DEF CancelForces
    <3> QED BY <3>1, <3>2, <3>3
  <2> QED BY <2>1, <2>2
<1>28. CASE RecoverStarts BY <1>28 DEF RecoverStarts, sweepFrame
<1>29. ASSUME NEW s \in Sweepers, SweepKillsGrok(s) PROVE SweepInv'
  BY <1>29 DEF SweepKillsGrok, Sets
<1>30. ASSUME NEW s \in Sweepers, SweepKillsWorker(s) PROVE SweepInv'
  BY <1>30, WorkerForgets DEF SweepKillsWorker, Sets
<1>31. ASSUME NEW s \in Sweepers, SweepCommits(s) PROVE SweepInv'
  <2>1. w' = w /\ sweep' = [sweep EXCEPT ![s] = Idle] BY <1>31 DEF SweepCommits
  <2> QED BY <2>1 DEF Idle
<1>32. ASSUME NEW u, Notified(u) PROVE SweepInv' BY <1>32 DEF Notified, Reported, Unless
<1>33. CASE UNCHANGED vars BY <1>33 DEF vars, own
<1> QED
  BY <1>1, <1>2, <1>3, <1>4, <1>5, <1>6, <1>7, <1>8, <1>9, <1>10, <1>11, <1>12, <1>13, <1>14,
     <1>15, <1>16, <1>17, <1>18, <1>19, <1>20, <1>21, <1>22, <1>23, <1>24, <1>25, <1>26,
     <1>27, <1>28, <1>29, <1>30, <1>31, <1>32, <1>33
  DEF Next, ClientSteps, LauncherSteps, WorkerSteps, SweepSteps,
     WorkflowUpdated, ForeignUpdated, StrayUpdated,
      SessionStep, ProviderStep

(* The end of a job is written over by no one, unless the launcher is lost.*)
LEMMA EndStep ==
  ASSUME DeepResearchAssumption, TypeInv, ErrorsAreNamed, StartedOnce, SweepInv, EndInv, [Next]_vars
  PROVE  EndInv'
<1> USE DeepResearchAssumption, WorkerMoves
        DEF TypeInv, StartedOnce, SweepInv, EndInv, NotStarted, Alive, Outcomes, Job, Statuses,
            Ended, Terminal, WorkerPcs, Opening, Session
<1>1. CASE ClientSweeps BY <1>1 DEF ClientSweeps
<1>2. CASE ClientReports BY <1>2 DEF ClientReports
<1>3. CASE ClientStopsWaiting BY <1>3 DEF ClientStopsWaiting
<1>4. CASE LauncherChecks BY <1>4 DEF LauncherChecks
<1>5. CASE LauncherSpawns BY <1>5 DEF LauncherSpawns
<1>6. CASE LauncherRecords BY <1>6 DEF LauncherRecords, Unless
<1>7. CASE LauncherFails BY <1>7 DEF LauncherFails
<1>8. CASE WorkerStarts BY <1>8 DEF WorkerStarts
<1>9. CASE WorkerRecords BY <1>9 DEF WorkerRecords, Unless
<1>10. CASE WorkerTakesQuery BY <1>10 DEF WorkerTakesQuery
<1>11. CASE WorkerChecks BY <1>11 DEF WorkerChecks
<1>12. CASE WorkerOpens BY <1>12 DEF WorkerOpens
<1>13. CASE WorkerSpawns BY <1>13 DEF WorkerSpawns
<1>14. CASE WorkerGuards BY <1>14 DEF WorkerGuards
<1>15. CASE WorkerPublishes BY <1>15 DEF WorkerPublishes, Unless
<1>16. CASE WorkerAsksForSession BY <1>16 DEF WorkerAsksForSession
<1>17. CASE WorkerOpenFails BY <1>17 DEF WorkerOpenFails
<1>18. CASE SessionStep BY <1>18, SessionEffects DEF main
<1>19. CASE WorkerCloses BY <1>19, WorkerForgets DEF WorkerCloses, Worker
<1>20. CASE WorkerCleans BY <1>20 DEF WorkerCleans
<1>21. CASE WorkerCompletes BY <1>21 DEF WorkerCompletes
<1>22. CASE WorkerSweeps BY <1>22 DEF WorkerSweeps
<1>23. CASE WorkerFails BY <1>23 DEF WorkerFails
<1>24. CASE WorkerDies BY <1>24, WorkerForgets DEF WorkerDies
<1>25. CASE ProviderStep BY <1>25, ProviderEffects DEF main
<1>26. CASE Cancels BY <1>26 DEF Cancels, Sets
<1>27. CASE CancelForces BY <1>27 DEF CancelForces, Unless, sweepFrame
<1>28. CASE RecoverStarts BY <1>28 DEF RecoverStarts, sweepFrame
<1>29. ASSUME NEW s \in Sweepers, SweepKillsGrok(s) PROVE EndInv'
  BY <1>29 DEF SweepKillsGrok, Sets
<1>30. ASSUME NEW s \in Sweepers, SweepKillsWorker(s) PROVE EndInv'
  BY <1>30, WorkerForgets DEF SweepKillsWorker, Sets
<1>31. ASSUME NEW s \in Sweepers, SweepCommits(s) PROVE EndInv'
  BY <1>31 DEF SweepCommits, Unless, sweepFrame
<1>32. ASSUME NEW u, Notified(u) PROVE EndInv' BY <1>32 DEF Notified, Reported, Unless
<1>33. CASE UNCHANGED vars BY <1>33 DEF vars, own
<1> QED
  BY <1>1, <1>2, <1>3, <1>4, <1>5, <1>6, <1>7, <1>8, <1>9, <1>10, <1>11, <1>12, <1>13, <1>14,
     <1>15, <1>16, <1>17, <1>18, <1>19, <1>20, <1>21, <1>22, <1>23, <1>24, <1>25, <1>26,
     <1>27, <1>28, <1>29, <1>30, <1>31, <1>32, <1>33
  DEF Next, ClientSteps, LauncherSteps, WorkerSteps, SweepSteps,
     WorkflowUpdated, ForeignUpdated, StrayUpdated,
      SessionStep, ProviderStep

-----------------------------------------------------------------------------
(* Private files and success.                                              *)

Revisions == [status : {"running", "complete", "cancelled", "paused"}, agents : {0, 1}]
Binder == [armed : BOOLEAN, run : {"none", "ours"}, rev : Nat, cancelledAt : Nat, settled : BOOLEAN,
           status : {"none", "running", "complete", "cancelled", "paused"}]

Provider == [st : {"none", "alive", "gone"}, run : Seq(Revisions), misled : BOOLEAN]

WorldInv ==
  /\ files \subseteq {"query", "home", "guard"}
  /\ grok \in Provider
  /\ bound \in Binder
  /\ blind \in BOOLEAN

BeforeGrok == {"none", "authorize", "record", "query", "check", "open", "spawn"}
WithGrok == {"guard", "publish", "initialize", "close"} \cup Session

(* Grok is started once, into a home; who has its identity has it from a   *)
(* Grok that was started, and a sweep that gets past it has killed it or   *)
(* named nobody.                                                           *)
HomeInv ==
  /\ w.pc \in BeforeGrok => grok.st = "none"
  /\ w.pc \in WithGrok => grok.st # "none"
  /\ job.grok \/ "guard" \in files => grok.st # "none"
  /\ \A s \in Sweepers :
       /\ sweep[s].knew => grok.st # "none"
       /\ sweep[s].pc = "worker" => blind \/ grok.st = "gone"
  /\ w.pc \in {"clean", "complete"} => grok.st = "gone"
  /\ w.pc = "spawn" \/ grok.st = "alive" => "home" \in files \/ blind

(* What the binder holds is a revision of Grok's, unless the worker was    *)
(* misled; and nothing follows the one that is complete with its agents    *)
(* gone.                                                                   *)
Done == Revision("complete", 0)
BinderOK(b) ==
  /\ b.run = "none" => ~b.settled
  /\ b.run = "ours" => /\ b.rev \in 1..Len(grok.run)
                       /\ b.status = grok.run[b.rev].status
                       /\ b.settled => grok.run[b.rev].agents = 0
DoneIsLast == \A r \in 1..Len(grok.run) : grok.run[r] = Done => r = Len(grok.run)
RunInv == (grok.misled \/ BinderOK(bound)) /\ DoneIsLast

(* Who is on the way to report success has seen the end of the workflow,   *)
(* or was misled about it, then of Grok, then of its files.                *)
IsDone == grok.run # <<>> /\ grok.run[Len(grok.run)] = Done
Earned == IsDone \/ grok.misled
EarnedInv ==
  /\ w.pc = "grace" => w.cancelled
  /\ w.pc = "close" /\ w.err = "none" => Earned
  /\ w.pc \in {"clean", "complete"} => Earned
  /\ job.status = "completed" => Earned /\ grok.st = "gone"
  /\ w.pc = "complete" \/ job.status = "completed" => files \cap {"home", "query"} = {}
  /\ job.status = "completed" => w.pc = "end"

(* Killing Grok leaves what it has done.                                   *)
LEMMA KillEffects ==
  ASSUME WorldInv, Killed
  PROVE  /\ grok' \in Provider
         /\ grok'.run = grok.run /\ grok'.misled = grok.misled /\ grok'.st # "alive"
         /\ grok.st = "none" <=> grok'.st = "none"
BY DEF WorldInv, Provider, Killed

(* The session leaves files and Grok alone.                                *)
LEMMA SessionWorld ==
  ASSUME SessionStep
  PROVE  /\ UNCHANGED <<files, grok, blind>>
         /\ bound' = bound \/ bound' = [bound EXCEPT !.armed = TRUE]
BY DEF SessionStep, SessionOpened, RequestFailed, GatePasses, GateGivesUp, CatalogueRead,
   LaunchAcknowledged, LoopContinues, WorkflowJudged, StopAwaited, Launches, sessionFrame

(* Grok goes, or its workflow advances, unless that is done.               *)
LEMMA ProviderWorld ==
  ASSUME WorldInv, ProviderStep
  PROVE  /\ UNCHANGED <<files, blind, bound>>
         /\ \/ grok' = grok
            \/ grok.st = "alive" /\ grok' = [grok EXCEPT !.st = "gone"]
            \/ /\ grok.st = "alive" /\ ~IsDone
               /\ \E r \in Revisions : grok' = [grok EXCEPT !.run = Append(@, r)]
<1> DEFINE Goal ==
      /\ UNCHANGED <<files, blind, bound>>
      /\ \/ grok' = grok
         \/ grok.st = "alive" /\ grok' = [grok EXCEPT !.st = "gone"]
         \/ /\ grok.st = "alive" /\ ~IsDone
            /\ \E r \in Revisions : grok' = [grok EXCEPT !.run = Append(@, r)]
<1>1. CASE PollSeesCancel \/ PollSeesDeadline \/ KillTimer \/ RequestTimesOut \/ ExitNoticed
  BY <1>1 DEF PollSeesCancel, PollSeesDeadline, KillTimer, RequestTimesOut, ExitNoticed,
       sessionFrame, own
<1>2. CASE ChunkArrives \/ ChunkOver \/ Answers \/ Advertises \/ Offends \/ Malformed \/ Exits
  BY <1>2 DEF ChunkArrives, ChunkOver, Answers, Advertises, Offends, Malformed, Exits, grokFrame,
       own
<1>3. CASE RunAdvances
  <2>1. PICK r \in (IF grok.run = <<>> THEN {Running} ELSE Follows(grok.run[Len(grok.run)])) :
          grok' = [grok EXCEPT !.run = Append(@, r)]
    BY <1>3 DEF RunAdvances
  <2>2. grok.run # <<>> => grok.run[Len(grok.run)] \in Revisions
    BY DEF WorldInv, Provider
  <2>3. r \in Revisions /\ ~IsDone
    BY <2>1, <2>2 DEF Follows, Running, Revision, Revisions, IsDone, Done
  <2> QED BY <1>3, <2>1, <2>3 DEF RunAdvances
<1> QED BY <1>1, <1>2, <1>3 DEF ProviderStep

(* A notification, whatever it says, leaves the binder a binder.           *)
Updates == [run : {"ours", "foreign", "none"}, rev : Nat, agents : {0, 1},
            status : {"none", "running", "complete", "cancelled", "paused"}]

LEMMA AppliedIsTyped ==
  ASSUME NEW b \in Binder, NEW u \in Updates
  PROVE  Applied(b, u) \in Binder
<1> DEFINE status == IF u.status = "none" THEN b.status ELSE u.status
           first == status = "cancelled" /\ b.cancelledAt = 0
           settled == ~first /\ status \in Over /\ u.agents = 0
           at == IF first THEN u.rev ELSE b.cancelledAt
<1>1. CASE Applied(b, u) = b BY <1>1
<1>2. CASE Applied(b, u) # b
  <2>1. Applied(b, u) = [b EXCEPT !.run = "ours", !.rev = u.rev, !.status = status,
                                  !.cancelledAt = at, !.settled = settled]
    BY <1>2 DEF Applied, Binder
  <2>2. status \in {"none", "running", "complete", "cancelled", "paused"}
    BY DEF Binder, Updates
  <2>3. at \in Nat /\ u.rev \in Nat BY DEF Binder, Updates
  <2>4. settled \in BOOLEAN OBVIOUS
  <2> HIDE DEF status, settled, at
  <2> QED BY <2>1, <2>2, <2>3, <2>4 DEF Binder
<1> QED BY <1>1, <1>2

(* A notification of one of its revisions keeps the binder true, with or   *)
(* without the name of the run.                                            *)
Told(u, r) ==
  /\ u \in Updates /\ u.run \in {"ours", "none"}
  /\ u.rev = r /\ u.status = grok.run[r].status /\ u.agents = grok.run[r].agents

LEMMA AppliedIsOK ==
  ASSUME WorldInv, NEW b \in Binder, BinderOK(b), NEW r \in 1..Len(grok.run), NEW u, Told(u, r)
  PROVE  BinderOK(Applied(b, u))
<1>1. grok.run[r].status # "none"
  <2>1. grok.run[r] \in Revisions BY DEF WorldInv, Provider
  <2> QED BY <2>1 DEF Revisions
<1>2. CASE Applied(b, u) = b BY <1>2
<1>3. CASE Applied(b, u) # b
  <2> DEFINE first == u.status = "cancelled" /\ b.cancelledAt = 0
             c == [b EXCEPT !.run = "ours", !.rev = u.rev, !.status = u.status,
                            !.cancelledAt = IF first THEN u.rev ELSE @,
                            !.settled = ~first /\ u.status \in Over /\ u.agents = 0]
  <2>1. Applied(b, u) = c BY <1>1, <1>3 DEF Applied, Told
  <2>2. c.run = "ours" /\ c.rev = u.rev /\ c.status = u.status /\ (c.settled => u.agents = 0)
    BY DEF Binder
  <2> QED BY <2>1, <2>2 DEF BinderOK, Told
<1> QED BY <1>2, <1>3

(* A notification is applied twice; of Grok it changes no more than that   *)
(* the worker may have been misled.                                        *)
Notification == WorkflowUpdated \/ ForeignUpdated \/ StrayUpdated

LEMMA NotificationWorld ==
  ASSUME DeepResearchAssumption, WorldInv, Notification
  PROVE  /\ \E u \in Updates : Notified(u)
         /\ grok' \in Provider
         /\ grok'.st = grok.st /\ grok'.run = grok.run
         /\ grok.misled => grok'.misled
<1> USE DEF WorldInv
<1>1. CASE WorkflowUpdated
  <2>1. PICK r \in DOMAIN grok.run, run \in {"ours", "none"} :
          Notified([run |-> run, rev |-> r, status |-> grok.run[r].status, agents |-> grok.run[r].agents])
    BY <1>1 DEF WorkflowUpdated
  <2>2. r \in Nat /\ grok.run[r] \in Revisions BY DEF Provider
  <2>3. [run |-> run, rev |-> r, status |-> grok.run[r].status, agents |-> grok.run[r].agents]
          \in Updates
    BY <2>2 DEF Updates, Revisions
  <2> QED BY <1>1, <2>1, <2>3 DEF WorkflowUpdated
<1>2. CASE ForeignUpdated
  <2>1. [run |-> "foreign", rev |-> MaxRev + 1, status |-> "complete", agents |-> 0] \in Updates
    BY DEF Updates, DeepResearchAssumption
  <2> QED BY <1>2, <2>1 DEF ForeignUpdated
<1>3. CASE StrayUpdated
  <2>1. PICK rev \in 1..(MaxRev + 1), status \in {"none", "complete"} :
          Notified([run |-> "none", rev |-> rev, status |-> status, agents |-> 0])
    BY <1>3 DEF StrayUpdated
  <2>2. [run |-> "none", rev |-> rev, status |-> status, agents |-> 0] \in Updates
    BY DEF Updates, DeepResearchAssumption
  <2>3. (grok.misled \/ bound' # bound) \in BOOLEAN BY DEF Provider
  <2>4. /\ grok' \in Provider /\ grok'.st = grok.st /\ grok'.run = grok.run
        /\ grok.misled => grok'.misled
    BY <1>3, <2>3 DEF StrayUpdated, Provider
  <2> QED BY <2>1, <2>2, <2>4
<1> QED BY <1>1, <1>2, <1>3 DEF Notification

(* Types of files, Grok and binder are kept.                               *)
LEMMA WorldStep ==
  ASSUME DeepResearchAssumption, TypeInv, ErrorsAreNamed, WorldInv, RunInv, [Next]_vars
  PROVE  WorldInv'
<1> USE DeepResearchAssumption
        DEF WorldInv, Provider
<1>1. CASE ClientSweeps BY <1>1 DEF ClientSweeps, SweptBlindly
<1>2. CASE ClientReports BY <1>2 DEF ClientReports
<1>3. CASE ClientStopsWaiting BY <1>3 DEF ClientStopsWaiting, SweptBlindly
<1>4. CASE LauncherChecks BY <1>4 DEF LauncherChecks
<1>5. CASE LauncherSpawns BY <1>5 DEF LauncherSpawns
<1>6. CASE LauncherRecords BY <1>6 DEF LauncherRecords, Unless
<1>7. CASE LauncherFails BY <1>7 DEF LauncherFails
<1>8. CASE WorkerStarts BY <1>8 DEF WorkerStarts
<1>9. CASE WorkerRecords BY <1>9 DEF WorkerRecords, Unless
<1>10. CASE WorkerTakesQuery BY <1>10 DEF WorkerTakesQuery
<1>11. CASE WorkerChecks BY <1>11 DEF WorkerChecks
<1>12. CASE WorkerOpens BY <1>12 DEF WorkerOpens
<1>13. CASE WorkerSpawns BY <1>13 DEF WorkerSpawns
<1>14. CASE WorkerGuards BY <1>14 DEF WorkerGuards
<1>15. CASE WorkerPublishes BY <1>15 DEF WorkerPublishes, Unless
<1>16. CASE WorkerAsksForSession BY <1>16 DEF WorkerAsksForSession
<1>17. CASE WorkerOpenFails BY <1>17, KillEffects DEF WorkerOpenFails, Survives
<1>18. CASE SessionStep
  <2>1. bound' \in Binder BY <1>18, SessionWorld DEF Binder
  <2> QED BY <1>18, <2>1, SessionWorld
<1>19. CASE WorkerCloses
  <2>1. NoRun \in Binder BY DEF NoRun, Binder
  <2> QED BY <1>19, <2>1, KillEffects DEF WorkerCloses, Survives, Forgets
<1>20. CASE WorkerCleans BY <1>20 DEF WorkerCleans
<1>21. CASE WorkerCompletes BY <1>21 DEF WorkerCompletes
<1>22. CASE WorkerSweeps BY <1>22 DEF WorkerSweeps
<1>23. CASE WorkerFails BY <1>23 DEF WorkerFails
<1>24. CASE WorkerDies
  <2>1. NoRun \in Binder BY DEF NoRun, Binder
  <2> QED BY <1>24, <2>1 DEF WorkerDies, Forgets
<1>25. CASE ProviderStep
  <2>1. grok' \in Provider BY <1>25, ProviderWorld
  <2> QED BY <1>25, <2>1, ProviderWorld
<1>26. CASE Cancels BY <1>26 DEF Cancels, Sets
<1>27. CASE CancelForces BY <1>27 DEF CancelForces, Unless, sweepFrame
<1>28. CASE RecoverStarts BY <1>28 DEF RecoverStarts, sweepFrame
<1>29. ASSUME NEW s \in Sweepers, SweepKillsGrok(s) PROVE WorldInv'
  BY <1>29, KillEffects DEF SweepKillsGrok, Sets, Survives
<1>30. ASSUME NEW s \in Sweepers, SweepKillsWorker(s) PROVE WorldInv'
  <2>1. NoRun \in Binder BY DEF NoRun, Binder
  <2> QED BY <1>30, <2>1 DEF SweepKillsWorker, Forgets
<1>31. ASSUME NEW s \in Sweepers, SweepCommits(s) PROVE WorldInv'
  BY <1>31 DEF SweepCommits, Unless, sweepFrame
<1>32. CASE Notification
  <2>1. PICK u \in Updates : Notified(u) BY <1>32, NotificationWorld
  <2>2. bound' \in Binder BY <2>1, AppliedIsTyped DEF Notified
  <2> QED BY <1>32, <2>1, <2>2, NotificationWorld DEF Notified
<1>33. CASE UNCHANGED vars BY <1>33 DEF vars, own
<1> QED
  BY <1>1, <1>2, <1>3, <1>4, <1>5, <1>6, <1>7, <1>8, <1>9, <1>10, <1>11, <1>12, <1>13, <1>14,
     <1>15, <1>16, <1>17, <1>18, <1>19, <1>20, <1>21, <1>22, <1>23, <1>24, <1>25, <1>26,
     <1>27, <1>28, <1>29, <1>30, <1>31, <1>32, <1>33
  DEF Next, ClientSteps, LauncherSteps, WorkerSteps, SweepSteps, SessionStep, ProviderStep,
      Notification

(* The binder stays true to Grok's workflow.                               *)
LEMMA RunStep ==
  ASSUME DeepResearchAssumption, TypeInv, ErrorsAreNamed, WorldInv, RunInv, [Next]_vars
  PROVE  RunInv'
<1> USE DEF WorldInv, Provider, RunInv, DoneIsLast
<1>1. ASSUME grok'.run = grok.run, grok'.misled = grok.misled,
             bound' \in {bound, NoRun, [bound EXCEPT !.armed = TRUE]}
      PROVE  RunInv'
  <2>1. CASE bound' = NoRun BY <1>1, <2>1 DEF NoRun, BinderOK
  <2>2. CASE bound' \in {bound, [bound EXCEPT !.armed = TRUE]}
    <3>1. /\ bound'.run = bound.run /\ bound'.rev = bound.rev
          /\ bound'.status = bound.status /\ bound'.settled = bound.settled
      BY <2>2 DEF Binder
    <3> QED BY <1>1, <3>1 DEF BinderOK
  <2> QED BY <1>1, <2>1, <2>2
<1>2. CASE ClientSteps \/ ClientStopsWaiting \/ LauncherSteps \/ LauncherFails
  BY <1>1, <1>2 DEF ClientSteps, ClientSweeps, ClientReports, ClientStopsWaiting,
     LauncherSteps, LauncherChecks, LauncherSpawns, LauncherRecords, LauncherFails
<1>3. CASE \/ WorkerStarts \/ WorkerRecords \/ WorkerTakesQuery \/ WorkerChecks \/ WorkerOpens
           \/ WorkerSpawns \/ WorkerGuards \/ WorkerPublishes \/ WorkerAsksForSession \/ WorkerOpenFails
  BY <1>1, <1>3, KillEffects
  DEF WorkerStarts, WorkerRecords, WorkerTakesQuery, WorkerChecks, WorkerOpens, WorkerSpawns,
     WorkerGuards, WorkerPublishes, WorkerAsksForSession, WorkerOpenFails, Survives
<1>4. CASE SessionStep BY <1>1, <1>4, SessionWorld
<1>5. CASE WorkerCloses \/ WorkerCleans \/ WorkerCompletes \/ WorkerSweeps \/ WorkerFails \/ WorkerDies
  BY <1>1, <1>5, KillEffects
  DEF WorkerCloses, WorkerCleans, WorkerCompletes, WorkerSweeps, WorkerFails, WorkerDies, Forgets,
      Survives
<1>6. CASE ProviderStep
  <2>1. CASE grok'.run = grok.run BY <1>1, <1>6, <2>1, ProviderWorld
  <2>2. CASE grok'.run # grok.run
    <3>1. PICK r \in Revisions : grok' = [grok EXCEPT !.run = Append(@, r)]
      BY <1>6, <2>2, ProviderWorld
    <3>2. ~IsDone /\ bound' = bound BY <1>6, <2>2, ProviderWorld
    <3>3. grok'.run = Append(grok.run, r) BY <3>1
    <3>4. /\ Len(grok'.run) = Len(grok.run) + 1
          /\ \A i \in 1..Len(grok.run) : grok'.run[i] = grok.run[i]
      BY <3>3
    <3>5. grok'.misled = grok.misled /\ (BinderOK(bound) => BinderOK(bound)')
      BY <3>1, <3>2, <3>4 DEF BinderOK, Provider
    <3>6. \A i \in 1..Len(grok.run) : grok.run[i] # Done BY <3>2 DEF IsDone
    <3>7. DoneIsLast' BY <3>4, <3>6
    <3> QED BY <3>5, <3>7
  <2> QED BY <2>1, <2>2
<1>7. CASE WorkflowUpdated
  <2>1. PICK r \in DOMAIN grok.run, run \in {"ours", "none"} :
          Notified([run |-> run, rev |-> r, status |-> grok.run[r].status, agents |-> grok.run[r].agents])
    BY <1>7 DEF WorkflowUpdated
  <2>2. PICK u : u = [run |-> run, rev |-> r, status |-> grok.run[r].status, agents |-> grok.run[r].agents]
    OBVIOUS
  <2>3. r \in 1..Len(grok.run) /\ r \in Nat /\ grok.run[r] \in Revisions BY DEF Provider
  <2>4. Told(u, r) BY <2>2, <2>3 DEF Told, Updates, Revisions
  <2>5. Applied(bound, u) \in Binder BY <2>4, AppliedIsTyped DEF Told
  <2>6. BinderOK(bound) => BinderOK(Applied(Applied(bound, u), u))
    <3> SUFFICES ASSUME BinderOK(bound) PROVE BinderOK(Applied(Applied(bound, u), u))
      OBVIOUS
    <3>1. BinderOK(Applied(bound, u)) BY ONLY <2>3, <2>4, AppliedIsOK, WorldInv, BinderOK(bound)
      DEF WorldInv
    <3> QED BY ONLY <2>3, <2>4, <2>5, <3>1, AppliedIsOK, WorldInv
  <2>7. bound' = Applied(Applied(bound, u), u) /\ grok' = grok
    BY <1>7, <2>1, <2>2 DEF Notified, WorkflowUpdated
  <2>8. BinderOK(bound) => BinderOK(bound)' BY <2>6, <2>7 DEF BinderOK
  <2> QED BY <2>7, <2>8
<1>11. CASE ForeignUpdated
  <2>1. PICK u : u = [run |-> "foreign", rev |-> MaxRev + 1, status |-> "complete", agents |-> 0]
    OBVIOUS
  <2>2. Applied(bound, u) = bound BY <2>1 DEF Applied, Binder
  <2>3. bound' = Applied(Applied(bound, u), u) /\ grok' = grok
    BY <1>11, <2>1 DEF ForeignUpdated, Notified
  <2> QED BY <1>1, <2>2, <2>3
<1>12. CASE StrayUpdated
  <2>1. grok'.misled = (grok.misled \/ bound' # bound) /\ grok'.run = grok.run
    BY <1>12 DEF StrayUpdated, Provider
  <2>2. CASE bound' = bound BY <2>1, <2>2 DEF BinderOK
  <2>3. CASE bound' # bound BY <2>1, <2>3
  <2> QED BY <2>2, <2>3
<1>8. CASE Cancels \/ CancelForces \/ RecoverStarts
  BY <1>1, <1>8 DEF Cancels, CancelForces, RecoverStarts, sweepFrame
<1>9. ASSUME NEW s \in Sweepers, SweepSteps(s) PROVE RunInv'
  BY <1>1, <1>9, KillEffects
  DEF SweepSteps, SweepKillsGrok, SweepKillsWorker, SweepCommits, sweepFrame, Forgets, Survives
<1>10. CASE UNCHANGED vars BY <1>1, <1>10 DEF vars, own
<1> QED
  BY <1>2, <1>3, <1>4, <1>5, <1>6, <1>7, <1>8, <1>9, <1>10, <1>11, <1>12
  DEF Next, WorkerSteps, SessionStep, ProviderStep

(* The home outlives Grok.                                                 *)
LEMMA HomeStep ==
  ASSUME DeepResearchAssumption, TypeInv, ErrorsAreNamed, StartedOnce, SweepInv, WorldInv, HomeInv, [Next]_vars
  PROVE  HomeInv'
<1> USE DeepResearchAssumption, WorkerMoves
        DEF TypeInv, WorldInv, Provider, HomeInv, StartedOnce, SweepInv, NotStarted, Alive,
            BeforeGrok, WithGrok, Job, Outcomes, WorkerPcs, Opening, Session
<1>1. CASE ClientSweeps BY <1>1 DEF ClientSweeps, SweptBlindly
<1>2. CASE ClientReports BY <1>2 DEF ClientReports
<1>3. CASE ClientStopsWaiting BY <1>3 DEF ClientStopsWaiting, SweptBlindly
<1>4. CASE LauncherChecks BY <1>4 DEF LauncherChecks
<1>5. CASE LauncherSpawns BY <1>5 DEF LauncherSpawns
<1>6. CASE LauncherRecords BY <1>6 DEF LauncherRecords, Unless
<1>7. CASE LauncherFails BY <1>7 DEF LauncherFails
<1>8. CASE WorkerStarts BY <1>8 DEF WorkerStarts
<1>9. CASE WorkerRecords BY <1>9 DEF WorkerRecords, Unless
<1>10. CASE WorkerTakesQuery BY <1>10 DEF WorkerTakesQuery
<1>11. CASE WorkerChecks BY <1>11 DEF WorkerChecks
<1>12. CASE WorkerOpens BY <1>12 DEF WorkerOpens
<1>13. CASE WorkerSpawns BY <1>13 DEF WorkerSpawns
<1>14. CASE WorkerGuards BY <1>14 DEF WorkerGuards
<1>15. CASE WorkerPublishes BY <1>15 DEF WorkerPublishes, Unless
<1>16. CASE WorkerAsksForSession BY <1>16 DEF WorkerAsksForSession
<1>17. CASE WorkerOpenFails BY <1>17, KillEffects DEF WorkerOpenFails, Survives
<1>18. CASE SessionStep BY <1>18, SessionEffects, SessionWorld DEF main
<1>19. CASE WorkerCloses BY <1>19, WorkerForgets, KillEffects DEF WorkerCloses, Survives, Forgets,
     Worker
<1>20. CASE WorkerCleans BY <1>20 DEF WorkerCleans
<1>21. CASE WorkerCompletes BY <1>21 DEF WorkerCompletes
<1>22. CASE WorkerSweeps
  <2>1. CASE job.grok /\ grok.st = "alive" BY <1>22, <2>1 DEF WorkerSweeps
  <2>2. CASE ~(job.grok /\ grok.st = "alive")
    <3>1. blind' = (blind \/ grok.st = "alive") /\ w'.pc = "fail" /\ UNCHANGED <<job, grok, sweep>>
          /\ files' = files \ {"query", "home"}
      BY <1>22, <2>2 DEF WorkerSweeps
    <3> QED BY <3>1
  <2> QED BY <2>1, <2>2
<1>23. CASE WorkerFails BY <1>23 DEF WorkerFails
<1>24. CASE WorkerDies BY <1>24, WorkerForgets DEF WorkerDies, Forgets
<1>25. CASE ProviderStep BY <1>25, ProviderEffects, ProviderWorld DEF main
<1>26. CASE Cancels BY <1>26 DEF Cancels, Sets
<1>27. CASE CancelForces
  <2>1. CASE Terminal \/ LaunchUnsettled
    <3>1. sweep' = [sweep EXCEPT !["cancel"] = Idle] /\ UNCHANGED <<w, grok, files, blind>>
      BY <1>27, <2>1 DEF CancelForces, sweepFrame
    <3>2. job'.grok = job.grok BY <1>27, <2>1 DEF CancelForces, Unless
    <3> QED BY <3>1, <3>2 DEF Idle
  <2>2. CASE ~(Terminal \/ LaunchUnsettled)
    <3>1. /\ sweep' = [sweep EXCEPT !["cancel"] = [pc |-> "kill", knew |-> job.grok, kills |-> job.worker]]
          /\ UNCHANGED <<job, w, grok, files, blind>>
      BY <1>27, <2>2 DEF CancelForces, sweepFrame
    <3> QED BY <3>1
  <2> QED BY <2>1, <2>2
<1>28. CASE RecoverStarts BY <1>28 DEF RecoverStarts, sweepFrame
<1>29. ASSUME NEW s \in Sweepers, SweepKillsGrok(s) PROVE HomeInv'
  <2>1. UNCHANGED <<job, files, w>> /\ sweep[s].pc = "kill" BY <1>29 DEF SweepKillsGrok
  <2>2. CASE Sets(s, "worker") /\ Named(s) /\ Killed /\ blind' = blind
    BY <2>1, <2>2, KillEffects DEF Sets, Named
  <2>3. CASE Sets(s, "worker") /\ UNCHANGED grok /\ blind'
    BY <2>1, <2>3 DEF Sets
  <2>4. CASE Sets(s, "blocked") /\ UNCHANGED <<grok, blind>>
    BY <2>1, <2>4 DEF Sets
  <2> QED BY <1>29, <2>2, <2>3, <2>4 DEF SweepKillsGrok, Survives
<1>30. ASSUME NEW s \in Sweepers, SweepKillsWorker(s) PROVE HomeInv'
  BY <1>30, WorkerForgets DEF SweepKillsWorker, Sets, Forgets
<1>31. ASSUME NEW s \in Sweepers, SweepCommits(s) PROVE HomeInv'
  <2>1. sweep' = [sweep EXCEPT ![s] = Idle] /\ UNCHANGED <<w, grok, files, blind>>
    BY <1>31 DEF SweepCommits, sweepFrame
  <2> QED BY <1>31, <2>1, CommitEffects DEF Idle
<1>32. CASE Notification
  <2>1. PICK u \in Updates : Notified(u) BY <1>32, NotificationWorld
  <2>2. /\ job'.status = job.status /\ job'.grok = job.grok
        /\ UNCHANGED <<w, sweep, files, blind>>
    BY <2>1, NotifiedEffects
  <2>3. grok'.st = grok.st /\ grok'.run = grok.run /\ (grok.misled => grok'.misled)
    BY <1>32, NotificationWorld
  <2> QED BY <2>2, <2>3
<1>33. CASE UNCHANGED vars BY <1>33 DEF vars, own
<1> QED
  BY <1>1, <1>2, <1>3, <1>4, <1>5, <1>6, <1>7, <1>8, <1>9, <1>10, <1>11, <1>12, <1>13, <1>14,
     <1>15, <1>16, <1>17, <1>18, <1>19, <1>20, <1>21, <1>22, <1>23, <1>24, <1>25, <1>26,
     <1>27, <1>28, <1>29, <1>30, <1>31, <1>32, <1>33
  DEF Next, ClientSteps, LauncherSteps, WorkerSteps, SweepSteps, SessionStep, ProviderStep,
      Notification

(* A session closes without an error only when the workflow is over.       *)
LEMMA SessionEarns ==
  ASSUME DeepResearchAssumption, TypeInv, ErrorsAreNamed, WorldInv, RunInv, EarnedInv, SessionStep
  PROVE  /\ w'.pc = "grace" => w'.cancelled
         /\ w'.pc = "close" /\ w'.err = "none" => Earned
<1>1. CASE LoopContinues
  <2>1. w'.pc = "grace" => w.cancelled /\ w' = [w EXCEPT !.pc = "grace"]
    BY <1>1, WorkerMoves DEF LoopContinues, TypeInv, Go, Outcomes
  <2>2. w'.pc \in {"grace", "stopping", "close"} /\ (w'.pc = "close" => w'.err = "failed")
    BY <1>1, WorkerMoves DEF LoopContinues, TypeInv, Outcomes, WorkerPcs, Session
  <2> QED BY <2>1, <2>2 DEF TypeInv, Worker
<1>2. CASE WorkflowJudged
  <2>1. w'.pc \in {"stopping", "close"}
    BY <1>2, WorkerMoves DEF WorkflowJudged, TypeInv, Outcomes, WorkerPcs
  <2>2. ASSUME w'.err = "none", w'.pc = "close" PROVE Earned
    <3>1. w.pc = "loop" /\ bound.settled /\ bound.status = "complete"
      BY <1>2, <2>2, WorkerMoves DEF WorkflowJudged, TypeInv, Outcomes, EarnedInv
    <3>2. CASE grok.misled BY <3>2 DEF Earned
    <3>3. CASE ~grok.misled
      <4>1. /\ bound.rev \in 1..Len(grok.run)
            /\ grok.run[bound.rev].status = "complete" /\ grok.run[bound.rev].agents = 0
        BY <3>1, <3>3 DEF RunInv, BinderOK, WorldInv, Binder
      <4>2. grok.run[bound.rev] \in Revisions BY <4>1 DEF WorldInv, Provider
      <4>3. grok.run[bound.rev] = Done BY <4>1, <4>2 DEF Revisions, Done, Revision
      <4> QED BY <4>1, <4>3 DEF RunInv, DoneIsLast, IsDone, Earned, WorldInv, Provider
    <3> QED BY <3>2, <3>3
  <2> QED BY <2>1, <2>2
<1>3. CASE ~(LoopContinues \/ WorkflowJudged)
  <2>1. w.pc \notin {"loop", "grace"}
    BY <1>3 DEF SessionStep, SessionOpened, RequestFailed, GatePasses, GateGivesUp, CatalogueRead,
       LaunchAcknowledged, StopAwaited, Answer, Refusal
  <2>2. w'.pc # "grace"
    <3> USE WorkerMoves, LaunchMoves DEF TypeInv, WorkerPcs, Session, Outcomes
    <3>1. CASE SessionOpened BY <3>1 DEF SessionOpened, Worker
    <3>2. CASE RequestFailed BY <3>2 DEF RequestFailed
    <3>3. CASE GatePasses BY <3>3 DEF GatePasses
    <3>4. CASE GateGivesUp BY <3>4 DEF GateGivesUp
    <3>5. CASE CatalogueRead
      <4>1. [w EXCEPT !.cap = TRUE] \in Worker BY DEF Worker
      <4> QED BY <3>5, <4>1 DEF CatalogueRead
    <3>6. CASE LaunchAcknowledged
      <4>1. [w EXCEPT !.pc = "loop", !.acked = TRUE].pc = "loop" BY DEF Worker
      <4> QED BY <3>6, <4>1 DEF LaunchAcknowledged
    <3>7. CASE StopAwaited BY <3>7 DEF StopAwaited, Worker, Fails
    <3> QED BY <1>3, <3>1, <3>2, <3>3, <3>4, <3>5, <3>6, <3>7 DEF SessionStep
  <2> QED BY <1>3, <2>1, <2>2, SessionEffects
<1> QED BY <1>1, <1>2, <1>3

(* Success is earned.                                                      *)
LEMMA EarnedStep ==
  ASSUME DeepResearchAssumption, TypeInv, ErrorsAreNamed, StartedOnce, SweepInv, WorldInv, HomeInv, RunInv, EarnedInv, [Next]_vars
  PROVE  EarnedInv'
<1> USE DeepResearchAssumption, WorkerMoves
        DEF TypeInv, WorldInv, Provider, EarnedInv, Earned, IsDone, StartedOnce, NotStarted, Alive,
            Job, Outcomes, WorkerPcs, Opening, Session
<1>1. CASE ClientSweeps BY <1>1 DEF ClientSweeps, SweptBlindly
<1>2. CASE ClientReports BY <1>2 DEF ClientReports
<1>3. CASE ClientStopsWaiting BY <1>3 DEF ClientStopsWaiting, SweptBlindly
<1>4. CASE LauncherChecks BY <1>4 DEF LauncherChecks
<1>5. CASE LauncherSpawns BY <1>5 DEF LauncherSpawns
<1>6. CASE LauncherRecords BY <1>6 DEF LauncherRecords, Unless
<1>7. CASE LauncherFails BY <1>7 DEF LauncherFails
<1>8. CASE WorkerStarts BY <1>8 DEF WorkerStarts
<1>9. CASE WorkerRecords BY <1>9 DEF WorkerRecords, Unless
<1>10. CASE WorkerTakesQuery BY <1>10 DEF WorkerTakesQuery
<1>11. CASE WorkerChecks BY <1>11 DEF WorkerChecks
<1>12. CASE WorkerOpens BY <1>12 DEF WorkerOpens
<1>13. CASE WorkerSpawns BY <1>13 DEF WorkerSpawns
<1>14. CASE WorkerGuards BY <1>14 DEF WorkerGuards
<1>15. CASE WorkerPublishes BY <1>15 DEF WorkerPublishes, Unless
<1>16. CASE WorkerAsksForSession BY <1>16 DEF WorkerAsksForSession
<1>17. CASE WorkerOpenFails BY <1>17, KillEffects DEF WorkerOpenFails, Survives
<1>18. CASE SessionStep BY <1>18, SessionEffects, SessionWorld, SessionEarns DEF main
<1>19. CASE WorkerCloses BY <1>19, WorkerForgets, KillEffects DEF WorkerCloses, Survives, Forgets,
     Worker
<1>20. CASE WorkerCleans BY <1>20 DEF WorkerCleans
<1>21. CASE WorkerCompletes BY <1>21 DEF WorkerCompletes, HomeInv
<1>22. CASE WorkerSweeps BY <1>22 DEF WorkerSweeps
<1>23. CASE WorkerFails BY <1>23 DEF WorkerFails, Worker
<1>24. CASE WorkerDies BY <1>24, WorkerForgets DEF WorkerDies, Forgets
<1>25. CASE ProviderStep BY <1>25, ProviderEffects, ProviderWorld DEF main
<1>26. CASE Cancels BY <1>26 DEF Cancels, Sets
<1>27. CASE CancelForces BY <1>27 DEF CancelForces, Unless, sweepFrame
<1>28. CASE RecoverStarts BY <1>28 DEF RecoverStarts, sweepFrame
<1>29. ASSUME NEW s \in Sweepers, SweepKillsGrok(s) PROVE EarnedInv'
  BY <1>29, KillEffects DEF SweepKillsGrok, Sets, Survives
<1>30. ASSUME NEW s \in Sweepers, SweepKillsWorker(s) PROVE EarnedInv'
  BY <1>30, WorkerForgets DEF SweepKillsWorker, Sets, Forgets
<1>31. ASSUME NEW s \in Sweepers, SweepCommits(s) PROVE EarnedInv'
  <2>1. UNCHANGED <<w, grok, files>> BY <1>31 DEF SweepCommits
  <2>2. job'.status = "completed" => job.status = "completed" BY <1>31, CommitEffects
  <2> QED BY <2>1, <2>2
<1>32. CASE Notification
  <2>1. PICK u \in Updates : Notified(u) BY <1>32, NotificationWorld
  <2>2. /\ job'.status = job.status /\ job'.grok = job.grok
        /\ UNCHANGED <<w, sweep, files, blind>>
    BY <2>1, NotifiedEffects
  <2>3. grok'.st = grok.st /\ grok'.run = grok.run /\ (grok.misled => grok'.misled)
    BY <1>32, NotificationWorld
  <2> QED BY <2>2, <2>3
<1>33. CASE UNCHANGED vars BY <1>33 DEF vars, own
<1> QED
  BY <1>1, <1>2, <1>3, <1>4, <1>5, <1>6, <1>7, <1>8, <1>9, <1>10, <1>11, <1>12, <1>13, <1>14,
     <1>15, <1>16, <1>17, <1>18, <1>19, <1>20, <1>21, <1>22, <1>23, <1>24, <1>25, <1>26,
     <1>27, <1>28, <1>29, <1>30, <1>31, <1>32, <1>33
  DEF Next, ClientSteps, LauncherSteps, WorkerSteps, SweepSteps, SessionStep, ProviderStep,
      Notification

-----------------------------------------------------------------------------
(* The invariant.                                                          *)

Inv ==
  /\ TypeInv /\ ErrorsAreNamed /\ CancelInv /\ StartedOnce /\ ChunkInv /\ RecordInv /\ SweepInv
  /\ EndInv /\ WorldInv /\ HomeInv /\ RunInv /\ EarnedInv

(* It holds at the start.                                                  *)
LEMMA InitInv ==
  ASSUME DeepResearchAssumption, Init
  PROVE  Inv
<1> USE DEF Init, AcpInit, NoChunk, WorkerAt, Idle
<1>1. TypeInv /\ ErrorsAreNamed
  BY DEF TypeInv, ErrorsAreNamed, Job, Worker, Sweep, Statuses, Outcomes, WorkerPcs, Opening,
       SweepPcs, AcpOK, Stages
<1>2. CancelInv /\ StartedOnce /\ ChunkInv
  BY DEF CancelInv, StartedOnce, ChunkInv, NotStarted
<1>3. RecordInv /\ SweepInv /\ EndInv
  BY DEF RecordInv, SweepInv, EndInv, Terminal, Ended, Alive
<1>4. WorldInv
  <2>1. <<>> \in Seq(Revisions) OBVIOUS
  <2>2. NoRun \in Binder BY DEF NoRun, Binder
  <2> QED BY <2>1, <2>2 DEF WorldInv, Provider
<1>5. HomeInv BY DEF HomeInv, BeforeGrok, WithGrok, Session
<1>6. RunInv /\ EarnedInv
  BY DEF NoRun, RunInv, BinderOK, DoneIsLast, EarnedInv
<1> QED BY <1>1, <1>2, <1>3, <1>4, <1>5, <1>6 DEF Inv

(* It is an invariant of every execution.                                  *)
THEOREM ResearchInvariant == Spec => []Inv
<1>1. Init => Inv BY InitInv, DeepResearchAssumption
<1>2. Inv /\ [Next]_vars => Inv'
  BY TypeStep, CancelStep, StartedStep, ChunkStep, RecordStep, SweepStep, EndStep,
     WorldStep, HomeStep, RunStep, EarnedStep, DeepResearchAssumption
  DEF Inv
<1> QED BY <1>1, <1>2, PTL DEF Spec

(* A cancellation that came before the launch was acknowledged (handleCancel*)
(* against executeDeepResearchWorker) is not overtaken by a success.       *)
THEOREM CancelWins == Spec => []CancelComesFirst
<1>1. Inv => CancelComesFirst BY DEF Inv, CancelInv, CancelComesFirst
<1> QED BY <1>1, ResearchInvariant, PTL

(* A job is reported as completed only after its workflow is over, its     *)
(* agents and Grok gone and its files removed (executeDeepResearchWorker,  *)
(* createWorkflowBinder), whatever was lost, late, repeated or foreign,    *)
(* unless a notification of no run misled the worker about its workflow.   *)
THEOREM SuccessIsEarned == Spec => []CompletedIsEarned
<1>1. Inv => CompletedIsEarned BY DEF Inv, EarnedInv, Earned, IsDone, Done, CompletedIsEarned
<1> QED BY <1>1, ResearchInvariant, PTL

(* Worker, cancellation and recovery remove the home after Grok (finally   *)
(* of executeDeepResearchWorker, handleCancel, recoverNonterminalJobs).    *)
THEOREM FilesOutlive == Spec => []FilesOutliveGrok
<1>1. Inv => FilesOutliveGrok BY DEF Inv, HomeInv, FilesOutliveGrok
<1> QED BY <1>1, ResearchInvariant, PTL

(* The transport is closed by nothing but its breaking.                    *)
LEMMA OnlyBreaksClose ==
  ASSUME DeepResearchAssumption, TypeInv, ErrorsAreNamed, ~closed, closed', Next
  PROVE  Breaks
<1> USE DEF acp
<1>1. CASE ClientSteps \/ ClientStopsWaiting \/ LauncherSteps \/ LauncherFails
  BY <1>1 DEF ClientSteps, ClientSweeps, ClientReports, ClientStopsWaiting,
     LauncherSteps, LauncherChecks, LauncherSpawns, LauncherRecords, LauncherFails
<1>2. CASE \/ WorkerStarts \/ WorkerRecords \/ WorkerTakesQuery \/ WorkerChecks \/ WorkerOpens
           \/ WorkerSpawns \/ WorkerGuards \/ WorkerPublishes \/ WorkerAsksForSession \/ WorkerOpenFails
  BY <1>2 DEF WorkerStarts, WorkerRecords, WorkerTakesQuery, WorkerChecks, WorkerOpens,
     WorkerSpawns, WorkerGuards, WorkerPublishes, WorkerAsksForSession, WorkerOpenFails, Dispatch
<1>3. CASE SessionStep
  BY <1>3 DEF SessionStep, SessionOpened, RequestFailed, GatePasses, GateGivesUp, CatalogueRead,
     LaunchAcknowledged, LoopContinues, WorkflowJudged, StopAwaited, Launches, Dispatch
<1>4. CASE WorkerCloses \/ WorkerCleans \/ WorkerCompletes \/ WorkerSweeps \/ WorkerFails \/ WorkerDies
  BY <1>4 DEF WorkerCloses, WorkerCleans, WorkerCompletes, WorkerSweeps, WorkerFails, WorkerDies,
     Forgets, AcpForgets
<1>5. CASE ProviderStep
  BY <1>5 DEF ProviderStep, PollSeesCancel, PollSeesDeadline, KillTimer, RequestTimesOut, TimesOut,
     ExitNoticed, ChunkArrives, ChunkBegins, ChunkOver, ChunkEnds, Answers, Answered, Advertises,
     Offends, Malformed, Exits, RunAdvances
<1>6. ASSUME NEW u, Notified(u) PROVE Breaks BY <1>6 DEF Notified
<1>7. CASE Cancels \/ CancelForces \/ RecoverStarts
  BY <1>7 DEF Cancels, CancelForces, RecoverStarts, sweepFrame
<1>8. ASSUME NEW s \in Sweepers, SweepSteps(s) PROVE Breaks
  BY <1>8 DEF SweepSteps, SweepKillsGrok, SweepKillsWorker, SweepCommits, sweepFrame, Forgets,
       AcpForgets
<1> QED
  BY <1>1, <1>2, <1>3, <1>4, <1>5, <1>6, <1>7, <1>8
  DEF Next, WorkerSteps, SessionStep, ProviderStep, WorkflowUpdated, ForeignUpdated, StrayUpdated

(* The answers of a chunk in which the transport breaks are all taken back *)
(* (the deferred resolution in #message of acp-client.mjs).                *)
THEOREM ChunksHold == Spec => ChunksAreWhole
<1> DEFINE A == chunk.open /\ ~closed /\ closed' => \A id \in chunk.answers : req'[id] = "rejected"
<1>1. Inv /\ [Next]_vars => [A]_vars
  <2> SUFFICES ASSUME Inv, Next, chunk.open, ~closed, closed'
               PROVE  \A id \in chunk.answers : req'[id] = "rejected"
    BY DEF ChunksAreWhole
  <2> USE DeepResearchAssumption DEF Inv, TypeInv, AcpOK, ChunkInv
  <2>1. Breaks => \A id \in chunk.answers : req'[id] = "rejected"
    BY DEF Breaks
  <2> QED BY <2>1, OnlyBreaksClose
<1> QED BY <1>1, ResearchInvariant, PTL DEF Spec, ChunksAreWhole

(* All but the command line and the worker look for an end before they     *)
(* write the record.                                                       *)
LEMMA OthersRespectEnds ==
  ASSUME DeepResearchAssumption, TypeInv, ErrorsAreNamed, Terminal, Next,
         ~(ClientReports \/ WorkerCompletes \/ WorkerFails)
  PROVE  job'.status = job.status
<1> USE DEF Unless
<1>1. CASE ClientSteps \/ ClientStopsWaiting \/ LauncherSteps \/ LauncherFails
  BY <1>1 DEF ClientSteps, ClientSweeps, ClientStopsWaiting,
     LauncherSteps, LauncherChecks, LauncherSpawns, LauncherRecords, LauncherFails
<1>2. CASE \/ WorkerStarts \/ WorkerRecords \/ WorkerTakesQuery \/ WorkerChecks \/ WorkerOpens
           \/ WorkerSpawns \/ WorkerGuards \/ WorkerPublishes \/ WorkerAsksForSession \/ WorkerOpenFails
  BY <1>2 DEF WorkerStarts, WorkerRecords, WorkerTakesQuery, WorkerChecks, WorkerOpens,
     WorkerSpawns, WorkerGuards, WorkerPublishes, WorkerAsksForSession, WorkerOpenFails
<1>3. CASE SessionStep BY <1>3, SessionEffects DEF main
<1>4. CASE WorkerCloses \/ WorkerCleans \/ WorkerSweeps \/ WorkerDies
  BY <1>4 DEF WorkerCloses, WorkerCleans, WorkerSweeps, WorkerDies
<1>5. CASE ProviderStep BY <1>5, ProviderEffects DEF main
<1>6. ASSUME NEW u, Notified(u) PROVE job'.status = job.status BY <1>6 DEF Notified, Reported
<1>7. CASE Cancels \/ CancelForces \/ RecoverStarts
  BY <1>7 DEF Cancels, CancelForces, RecoverStarts
<1>8. ASSUME NEW s \in Sweepers, SweepSteps(s) PROVE job'.status = job.status
  BY <1>8, CommitEffects DEF SweepSteps, SweepKillsGrok, SweepKillsWorker, TypeInv
<1> QED
  BY <1>1, <1>2, <1>3, <1>4, <1>5, <1>6, <1>7, <1>8
  DEF Next, WorkerSteps, SessionStep, ProviderStep, WorkflowUpdated, ForeignUpdated, StrayUpdated

(* An end is final: command line, launcher, worker, cancel and recovery    *)
(* write the record, and those of them that do not look at it first come   *)
(* before its end, unless the launcher was lost.                           *)
THEOREM EndsAreFinal == Spec => EndIsFinal
<1> DEFINE A == Terminal /\ job'.status # job.status => launcher = "lost"
<1>1. Inv /\ [Next]_vars => [A]_vars
  <2> SUFFICES ASSUME Inv, Next, Terminal, job'.status # job.status
               PROVE  launcher = "lost"
    OBVIOUS
  <2> USE DEF Inv, EndInv
  <2>1. CASE ClientReports BY <2>1 DEF ClientReports, TypeInv, Job, Terminal
  <2>2. CASE WorkerCompletes \/ WorkerFails
    BY <2>2 DEF WorkerCompletes, WorkerFails, Alive
  <2> QED BY <2>1, <2>2, OthersRespectEnds, DeepResearchAssumption
<1> QED BY <1>1, ResearchInvariant, PTL DEF Spec, EndIsFinal

=============================================================================
