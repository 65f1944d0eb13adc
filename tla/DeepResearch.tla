----------------------------- MODULE DeepResearch -----------------------------
(* A deep-research job (companion-research.mjs, deep-research.mjs).  The   *)
(* command line stages the query and starts a launcher, which starts a     *)
(* detached worker and records it; the worker runs Grok in a home of its   *)
(* own, waits until the session advertises deep research, sends the slash  *)
(* command and follows the workflow by its notifications: the answer to the*)
(* prompt acknowledges the launch only.  A user may cancel, and every      *)
(* command recovers jobs whose worker is gone.                             *)
(*                                                                          *)
(* Files: the job, the cancel marker, the staged query, the home, the      *)
(* provider's guard.  A transaction on the job is one step (StateLock).    *)
(* Time limits are steps that may be taken at any time.                    *)
EXTENDS AcpClient, Naturals, Sequences

CONSTANTS
  MaxRev,      \* bound: revisions of the workflow, less the faults so far
  FaultKinds,  \* those this instance has, of AllFaults
  MaxFaults    \* bound: faults altogether

AllFaults == {"client", "launcher", "worker", "exit", "broken", "permission", "unkillable",
              "unsaid", "stray"}

ASSUME DeepResearchAssumption ==
  /\ Requests = {"new", "list", "prompt"}
  /\ MaxRev \in Nat \ {0}
  /\ FaultKinds \subseteq AllFaults /\ MaxFaults \in Nat

VARIABLES
  job,      \* the record: status, pending outcome, blocked, authorization, identities
  files,    \* the staged query, the home and the guard
  marker,   \* a cancellation is requested
  client,   \* the command line that started the job
  launcher,
  w,        \* the worker
  bound,    \* what the worker knows of the workflow (createWorkflowBinder)
  grok,     \* the provider: its process and its workflow; ghost: the worker took another's for it
  sweep,    \* what cancels and what recovers
  early,    \* ghost: cancelled before the launch was acknowledged
  blind,    \* ghost: files are removed by one who names no provider, though one lives or may
  faults

own == <<job, files, marker, client, launcher, w, bound, grok, sweep, early, blind, faults>>
vars == <<own, acp>>

Ended == {"completed", "failed", "cancelled"}
Sweepers == {"cancel", "recover"}
NoRun == [armed |-> FALSE, run |-> "none", rev |-> 0, status |-> "none",
          cancelledAt |-> 0, settled |-> FALSE]

Idle == [pc |-> "idle", knew |-> FALSE, kills |-> FALSE]
WorkerAt(pc, err) ==
  [pc |-> pc, err |-> err, sec |-> FALSE, cap |-> FALSE, heard |-> FALSE,
   acked |-> FALSE, cancelled |-> FALSE]

Init ==
  /\ AcpInit
  /\ job = [status |-> "queued", pend |-> "none", blocked |-> FALSE,
            auth |-> TRUE, worker |-> FALSE, grok |-> FALSE]
  /\ files = {"query"} /\ marker = FALSE
  /\ client = "launching" /\ launcher = "check"
  /\ w = WorkerAt("none", "none")
  /\ bound = NoRun
  /\ grok = [st |-> "none", run |-> <<>>, misled |-> FALSE]
  /\ sweep = [s \in Sweepers |-> Idle]
  /\ early = FALSE /\ blind = FALSE /\ faults = 0

Fault(kind) ==
  /\ kind \in FaultKinds /\ faults < MaxFaults /\ Len(grok.run) + faults < MaxRev
  /\ faults' = faults + 1
Terminal == job.status \in Ended
Alive == w.pc \notin {"none", "end", "dead"}
Opening == {"none", "authorize", "record", "query", "check", "open", "spawn", "guard",
            "publish", "initialize", "new", "gate", "list", "prompt"}

(* providerLaunchCleanupBlocked: authorized, and nobody on record yet.     *)
LaunchUnsettled == job.auth /\ ~job.worker /\ ~job.grok

Go(pc) == w' = [w EXCEPT !.pc = pc]
Fails(err, pc) == w' = [w EXCEPT !.pc = pc, !.err = err]

(* What the worker knew of its session is gone with it.                    *)
Forgets(pc, err) == w' = WorkerAt(pc, err) /\ bound' = NoRun /\ AcpForgets
Unless(record) == job' = IF Terminal THEN job ELSE record

-----------------------------------------------------------------------------
(* The command line.  It removes files without asking who lives.           *)

SweptBlindly ==
  files' = files \ {"query", "home"} /\ blind' = (blind \/ Alive \/ grok.st = "alive")

ClientSweeps ==
  /\ client = "launching" /\ launcher \in {"failed", "lost"}
  /\ SweptBlindly /\ client' = "reporting"
  /\ UNCHANGED <<job, marker, launcher, w, bound, grok, sweep, early, faults, acp>>

(* Whatever the record says by now.                                        *)
ClientReports ==
  /\ client = "reporting"
  /\ job' = [job EXCEPT !.status = "failed"]
  /\ client' = "waiting"
  /\ UNCHANGED <<files, marker, launcher, w, bound, grok, sweep, early, blind, faults, acp>>

(* It may wait, until the job is over or the poll fails.                   *)
ClientStopsWaiting ==
  /\ client = "waiting" \/ (client = "launching" /\ launcher = "ok")
  /\ \/ job.status \in {"failed", "cancelled"} /\ UNCHANGED faults
     \/ ~Terminal /\ Fault("client")
  /\ SweptBlindly /\ client' = "done"
  /\ UNCHANGED <<job, marker, launcher, w, bound, grok, sweep, early, acp>>

-----------------------------------------------------------------------------
(* The launcher.                                                           *)

LauncherChecks ==
  /\ launcher = "check"
  /\ IF Terminal \/ ~marker
     THEN launcher' = (IF Terminal THEN "ok" ELSE "spawn") /\ UNCHANGED <<job, files>>
     ELSE /\ launcher' = "ok" /\ files' = files \ {"query", "home"}
          /\ job' = [job EXCEPT !.status = "cancelled", !.auth = FALSE]
  /\ UNCHANGED <<marker, client, w, bound, grok, sweep, early, blind, faults, acp>>

LauncherSpawns ==
  /\ launcher = "spawn" /\ launcher' = "record" /\ Go("authorize")
  /\ UNCHANGED <<job, files, marker, client, bound, grok, sweep, early, blind, faults, acp>>

(* mutant: the end of the job is not looked for.                           *)
RecordsAnyway ==
  /\ launcher = "record" /\ launcher' = "ok"
  /\ job' = [job EXCEPT !.auth = FALSE, !.worker = TRUE, !.status = "running", !.blocked = FALSE]
  /\ UNCHANGED <<files, marker, client, w, bound, grok, sweep, early, blind, faults, acp>>

LauncherRecords ==
  /\ launcher = "record" /\ launcher' = "ok"
  /\ Unless([job EXCEPT !.auth = FALSE, !.worker = TRUE, !.status = "running", !.blocked = FALSE])
  /\ UNCHANGED <<files, marker, client, w, bound, grok, sweep, early, blind, faults, acp>>

(* It dies or throws; the worker it started may be gone with it or not.    *)
LauncherFails ==
  /\ launcher \in {"check", "spawn", "record"} /\ Fault("launcher")
  /\ launcher' = IF launcher = "record" THEN "lost" ELSE "failed"
  /\ \/ UNCHANGED w
     \/ launcher = "record" /\ w.pc = "authorize" /\ Go("dead")
  /\ UNCHANGED <<job, files, marker, client, bound, grok, sweep, early, blind, acp>>

-----------------------------------------------------------------------------
(* The worker until it has a provider.                                     *)

WorkerStarts ==
  /\ w.pc = "authorize"
  /\ Go(IF Terminal THEN "end" ELSE "record")
  /\ UNCHANGED <<job, files, marker, client, launcher, bound, grok, sweep, early, blind, faults, acp>>

WorkerRecords ==
  /\ w.pc = "record"
  /\ Go(IF Terminal THEN "end" ELSE "query")
  /\ Unless([job EXCEPT !.worker = TRUE, !.status = "running", !.blocked = FALSE])
  /\ UNCHANGED <<files, marker, client, launcher, bound, grok, sweep, early, blind, faults, acp>>

WorkerTakesQuery ==
  /\ w.pc = "query" /\ files' = files \ {"query"}
  /\ IF "query" \in files THEN Go("check") ELSE Fails("failed", "sweep")
  /\ UNCHANGED <<job, marker, client, launcher, bound, grok, sweep, early, blind, faults, acp>>

WorkerChecks ==
  /\ w.pc = "check"
  /\ IF marker THEN Fails("cancelled", "sweep") ELSE Go("open")
  /\ UNCHANGED <<job, files, marker, client, launcher, bound, grok, sweep, early, blind, faults, acp>>

(* researchEnvironment makes the home; it, or the inspection, may refuse.  *)
WorkerOpens ==
  /\ w.pc = "open" /\ files' = files \cup {"home"}
  /\ \/ Go("spawn")
     \/ Fails("failed", "sweep")
  /\ UNCHANGED <<job, marker, client, launcher, bound, grok, sweep, early, blind, faults, acp>>

WorkerSpawns ==
  /\ w.pc = "spawn"
  /\ IF marker THEN Fails("cancelled", "sweep") /\ UNCHANGED grok
     ELSE Go("guard") /\ grok' = [grok EXCEPT !.st = "alive"]
  /\ UNCHANGED <<job, files, marker, client, launcher, bound, sweep, early, blind, faults, acp>>

WorkerGuards ==
  /\ w.pc = "guard" /\ files' = files \cup {"guard"} /\ Go("publish")
  /\ UNCHANGED <<job, marker, client, launcher, bound, grok, sweep, early, blind, faults, acp>>

(* The identity goes into the record by an event, whose failure is ignored.*)
WorkerPublishes ==
  /\ w.pc = "publish" /\ Go("initialize")
  /\ \/ Unless([job EXCEPT !.grok = TRUE]) /\ UNCHANGED faults
     \/ Fault("unsaid") /\ UNCHANGED job
  /\ UNCHANGED <<files, marker, client, launcher, bound, grok, sweep, early, blind, acp>>

WorkerAsksForSession ==
  /\ w.pc = "initialize" /\ Go("new") /\ Dispatch("new")
  /\ UNCHANGED <<job, files, marker, client, launcher, bound, grok, sweep, early, blind, faults>>

(* The provider is killed, or cannot be for now.                           *)
Killed == grok' = [grok EXCEPT !.st = IF @ = "alive" THEN "gone" ELSE @]
Survives == grok.st = "alive" /\ Fault("unkillable") /\ UNCHANGED grok

(* Opening fails after the spawn: cleanupFailedProviderStart.              *)
WorkerOpenFails ==
  /\ w.pc \in {"guard", "initialize"}
  /\ \E err \in {"failed"} \cup (IF marker THEN {"cancelled"} ELSE {}) : Fails(err, "sweep")
  /\ \/ Killed /\ files' = files \ {"guard"} /\ UNCHANGED faults
     \/ Survives /\ UNCHANGED files
  /\ UNCHANGED <<job, marker, client, launcher, bound, sweep, early, blind, acp>>

-----------------------------------------------------------------------------
(* The session.  Code runs between chunks; a published answer is acted upon*)
(* before the next chunk (Ready).                                          *)

InSession == w.pc \in {"new", "gate", "list", "prompt", "loop", "grace", "stopping"}
Ready == w.pc \in Requests /\ Settled(w.pc)
Answer(id) == w.pc = id /\ ~chunk.open /\ req[id] = "resolved"
Refusal(id) == w.pc = id /\ ~chunk.open /\ req[id] = "rejected"
sessionFrame == <<job, files, marker, client, launcher, grok, sweep, blind, faults>>

(* From an error inside the session: a run that is not over is told to stop*)
(* (requestWorkflowStop: nobody awaits the answer) and given some time.    *)
Unwinds(err) ==
  LET live == bound.run # "none" /\ ~bound.settled
  IN Fails(err, IF live THEN "stopping" ELSE "close")

(* The binder is armed and the slash command sent, unless something is wrong.*)
Launches(state) ==
  IF w.sec THEN w' = [state EXCEPT !.pc = "close", !.err = "failed"] /\ UNCHANGED <<bound, acp>>
  ELSE /\ w' = [state EXCEPT !.pc = "prompt", !.heard = FALSE] /\ bound' = [bound EXCEPT !.armed = TRUE]
       /\ Dispatch("prompt")

(* An advertisement that came before the session's id was known counts.    *)
SessionOpened ==
  /\ Answer("new")
  /\ IF w.sec THEN Fails("failed", "close")
     ELSE w' = [w EXCEPT !.pc = "gate", !.cap = @ \/ w.heard]
  /\ UNCHANGED <<bound, early, acp>> /\ UNCHANGED sessionFrame

RequestFailed ==
  /\ Refusal("new") \/ Refusal("prompt") \/ (Refusal("list") /\ ~w.cap)
  /\ Unwinds("failed")
  /\ UNCHANGED <<bound, early, acp>> /\ UNCHANGED sessionFrame

GatePasses ==
  /\ w.pc = "gate" /\ ~chunk.open /\ w.cap
  /\ Launches(w)
  /\ UNCHANGED early /\ UNCHANGED sessionFrame

GateGivesUp ==
  /\ w.pc = "gate" /\ ~chunk.open /\ ~w.cap
  /\ IF w.sec THEN Fails("failed", "close") /\ UNCHANGED acp
     ELSE \/ marker /\ Fails("cancelled", "close") /\ UNCHANGED acp
          \/ Go("list") /\ Dispatch("list")
  /\ UNCHANGED <<bound, early>> /\ UNCHANGED sessionFrame

(* The catalogue, pulled for the same session; an advertisement may have   *)
(* come while it was awaited, with or without an answer.                   *)
CatalogueRead ==
  /\ Answer("list") \/ (Refusal("list") /\ w.cap)
  /\ IF w.cap \/ w.heard THEN Launches([w EXCEPT !.cap = TRUE])
     ELSE Fails("failed", "close") /\ UNCHANGED <<bound, acp>>
  /\ UNCHANGED early /\ UNCHANGED sessionFrame

(* mutant: the marker is left to the poll.                                 *)
AcknowledgedUnchecked ==
  /\ Answer("prompt")
  /\ IF w.sec THEN Unwinds("failed")
     ELSE \/ w' = [w EXCEPT !.pc = "loop", !.acked = TRUE]
          \/ \E err \in {"failed", "cancelled"} : Unwinds(err)
  /\ UNCHANGED <<bound, early, acp>> /\ UNCHANGED sessionFrame

(* The end of the prompt's turn is an acknowledgement, no more.            *)
LaunchAcknowledged ==
  /\ Answer("prompt")
  /\ IF w.sec THEN Unwinds("failed")
     ELSE IF marker THEN Unwinds("cancelled")
     ELSE \/ w' = [w EXCEPT !.pc = "loop", !.acked = TRUE]
          \/ \E err \in {"failed", "cancelled"} : Unwinds(err)
  /\ UNCHANGED <<bound, early, acp>> /\ UNCHANGED sessionFrame

(* Every 100 ms from the acknowledgement until the session is left.        *)
Polls == w.acked /\ w.pc \in {"loop", "grace", "stopping"} /\ ~chunk.open /\ ~w.sec

PollSeesCancel ==
  /\ Polls /\ marker /\ ~w.cancelled
  /\ w' = [w EXCEPT !.cancelled = TRUE]
  /\ UNCHANGED <<bound, early, acp>> /\ UNCHANGED sessionFrame

PollSeesDeadline ==
  /\ Polls /\ ~bound.settled /\ w' = [w EXCEPT !.sec = TRUE]
  /\ UNCHANGED <<bound, early, acp>> /\ UNCHANGED sessionFrame

(* Ten seconds after the poll saw the cancellation.                        *)
KillTimer ==
  /\ w.pc \in {"loop", "grace", "stopping"} /\ w.cancelled /\ grok.st = "alive"
  /\ grok' = [grok EXCEPT !.st = "gone"]
  /\ UNCHANGED <<job, files, marker, client, launcher, w, bound, sweep, early, blind, faults, acp>>

LoopContinues ==
  /\ w.pc = "loop" /\ ~chunk.open /\ ~bound.settled
  /\ IF w.cancelled /\ ~w.sec THEN Go("grace")
     ELSE Unwinds("failed")                       \* or the half hour is over
  /\ UNCHANGED <<bound, early, acp>> /\ UNCHANGED sessionFrame

(* mapDeepResearchTerminal, after the report of a complete run was read in *)
(* its home.                                                               *)
WorkflowJudged ==
  /\ ~chunk.open
  /\ (w.pc = "loop" /\ bound.settled) \/ w.pc = "grace"
  /\ IF w.sec \/ (bound.status = "complete" /\ "home" \notin files) THEN Unwinds("failed")
     ELSE IF w.cancelled \/ bound.status = "cancelled" THEN Unwinds("cancelled")
     ELSE (bound.status = "complete" /\ Go("close")) \/ Unwinds("failed")
  /\ UNCHANGED <<bound, early, acp>> /\ UNCHANGED sessionFrame

StopAwaited ==
  /\ w.pc = "stopping" /\ ~chunk.open
  /\ Fails(IF w.sec THEN "failed" ELSE w.err, "close")
  /\ UNCHANGED <<bound, early, acp>> /\ UNCHANGED sessionFrame

RequestTimesOut ==
  /\ InSession /\ \E id \in Requests : TimesOut(id)
  /\ UNCHANGED own

-----------------------------------------------------------------------------
(* The worker when its session is over.                                    *)

(* finally: the transport is closed and the process group must be gone.    *)
WorkerCloses ==
  /\ w.pc = "close" /\ ~chunk.open
  /\ \/ Killed /\ UNCHANGED faults /\ Forgets(IF w.err = "none" THEN "clean" ELSE "sweep", w.err)
     \/ Survives /\ Forgets("sweep", IF w.err = "none" THEN "failed" ELSE w.err)
  /\ UNCHANGED <<job, files, marker, client, launcher, sweep, early, blind>>

WorkerCleans ==
  /\ w.pc = "clean" /\ files' = files \ {"query", "home"} /\ Go("complete")
  /\ UNCHANGED <<job, marker, client, launcher, bound, grok, sweep, early, blind, faults, acp>>

WorkerCompletes ==
  /\ w.pc = "complete" /\ Go("end")
  /\ job' = [job EXCEPT !.status = "completed", !.blocked = FALSE]
  /\ UNCHANGED <<files, marker, client, launcher, bound, grok, sweep, early, blind, faults, acp>>

(* mutant: the provider is not asked for.                                  *)
SweepsAnyway ==
  /\ w.pc = "sweep" /\ Go("fail") /\ files' = files \ {"query", "home"}
  /\ UNCHANGED <<job, marker, client, launcher, bound, grok, sweep, early, blind, faults, acp>>

(* Of the provider it asks what the record says.                           *)
WorkerSweeps ==
  /\ w.pc = "sweep"
  /\ IF job.grok /\ grok.st = "alive" THEN Go("block") /\ UNCHANGED <<files, blind>>
     ELSE Go("fail") /\ files' = files \ {"query", "home"} /\ blind' = (blind \/ grok.st = "alive")
  /\ UNCHANGED <<job, marker, client, launcher, bound, grok, sweep, early, faults, acp>>

WorkerFails ==
  /\ w.pc \in {"fail", "block"} /\ Fails("none", "end")
  /\ job' = IF w.pc = "fail" THEN [job EXCEPT !.status = w.err, !.pend = "none", !.blocked = FALSE]
            ELSE [job EXCEPT !.status = "running", !.pend = w.err, !.blocked = TRUE]
  /\ UNCHANGED <<files, marker, client, launcher, bound, grok, sweep, early, blind, faults, acp>>

WorkerDies ==
  /\ Alive /\ Fault("worker") /\ Forgets("dead", "none")
  /\ UNCHANGED <<job, files, marker, client, launcher, grok, sweep, early, blind>>

-----------------------------------------------------------------------------
(* Grok.  What it wrote may be read after it is gone.                      *)

Speaks == chunk.open /\ InSession
grokFrame == <<job, files, marker, client, launcher, sweep, early, blind>>

ChunkArrives ==
  /\ InSession /\ grok.st # "none" /\ ~closed /\ ~Ready
  /\ ChunkBegins /\ UNCHANGED own

ChunkOver == InSession /\ ChunkEnds /\ UNCHANGED own

Answers ==
  /\ Speaks
  /\ \E id \in Requests, valid \in BOOLEAN :
       req[id] \in {"pending", "rejected"} /\ Answered(id, valid)   \* in time, or too late
  /\ UNCHANGED <<w, bound, grok, faults>> /\ UNCHANGED grokFrame

(* A full advertisement for this session, on its own or as the catalogue;  *)
(* the others change nothing.                                              *)
Advertises ==
  /\ Speaks /\ ~w.cap /\ ~w.heard
  /\ \/ /\ w.pc \in {"new", "gate", "list"}
        /\ w' = IF w.pc = "new" THEN [w EXCEPT !.heard = TRUE] ELSE [w EXCEPT !.cap = TRUE]
        /\ UNCHANGED acp
     \/ /\ w.pc = "list" /\ req["list"] = "pending" /\ Answered("list", TRUE)
        /\ w' = [w EXCEPT !.heard = TRUE]
  /\ UNCHANGED <<bound, grok, faults>> /\ UNCHANGED grokFrame

(* A permission request, too many agents, a notification of a wrong shape. *)
Offends ==
  /\ Speaks /\ Fault("permission") /\ w' = [w EXCEPT !.sec = TRUE]
  /\ UNCHANGED <<bound, grok, acp>> /\ UNCHANGED grokFrame

Malformed ==
  /\ Speaks /\ ~closed /\ Fault("broken") /\ Breaks /\ UNCHANGED chunk
  /\ UNCHANGED <<w, bound, grok>> /\ UNCHANGED grokFrame

Exits ==
  /\ grok.st = "alive" /\ Fault("exit") /\ grok' = [grok EXCEPT !.st = "gone"]
  /\ UNCHANGED <<job, files, marker, client, launcher, w, bound, sweep, early, blind, acp>>

ExitNoticed ==
  /\ InSession /\ ~chunk.open /\ grok.st = "gone" /\ ~closed
  /\ Breaks /\ UNCHANGED chunk /\ UNCHANGED own

(* The workflow the slash command started: running, then over, and its     *)
(* agents gone with that revision or a later one.                          *)
Revision(status, agents) == [status |-> status, agents |-> agents]

Running == Revision("running", 1)
Follows(last) ==
  IF last = Running THEN {Revision("complete", 0), Revision("complete", 1),
                          Revision("cancelled", 1), Revision("paused", 0)}
  ELSE IF last.status = "paused" THEN {Running}
  ELSE {Revision(last.status, 0)} \ {last}

RunAdvances ==
  /\ InSession /\ grok.st = "alive" /\ req["prompt"] # "unused"
  /\ Len(grok.run) + faults < MaxRev
  /\ \E r \in (IF grok.run = <<>> THEN {Running} ELSE Follows(grok.run[Len(grok.run)])) :
       grok' = [grok EXCEPT !.run = Append(@, r)]
  /\ UNCHANGED <<job, files, marker, client, launcher, w, bound, sweep, early, blind, faults, acp>>

(* applyUpdate: a run binds once, when armed, by its name and objective;   *)
(* from then on a notification of another run is refused, one of no run    *)
(* ("none") is not, and one of no status leaves the status.                *)
Over == {"complete", "cancelled", "paused"}

(* mutant: agents that still work are overlooked.                          *)
AppliedEarly(b, u) ==
  LET fresh == IF b.run = "none" THEN b.armed /\ u.run = "ours"
               ELSE u.run \in {b.run, "none"} /\ u.rev > b.rev
      status == IF u.status = "none" THEN b.status ELSE u.status
      first == status = "cancelled" /\ b.cancelledAt = 0
  IN IF ~fresh THEN b
     ELSE [b EXCEPT !.run = "ours", !.rev = u.rev, !.status = status,
                    !.cancelledAt = IF first THEN u.rev ELSE @,
                    !.settled = ~first /\ status \in Over]

Applied(b, u) ==
  LET fresh == IF b.run = "none" THEN b.armed /\ u.run = "ours"
               ELSE u.run \in {b.run, "none"} /\ u.rev > b.rev
      status == IF u.status = "none" THEN b.status ELSE u.status
      first == status = "cancelled" /\ b.cancelledAt = 0
  IN IF ~fresh THEN b
     ELSE [b EXCEPT !.run = "ours", !.rev = u.rev, !.status = status,
                    !.cancelledAt = IF first THEN u.rev ELSE @,
                    !.settled = ~first /\ status \in Over /\ u.agents = 0]

(* What is accepted goes into the record as progress, in a phase of its own.*)
Reported == Unless([job EXCEPT !.blocked = FALSE])

(* Each notification is applied by two listeners.  Updates may be stale,   *)
(* repeated or lost, and may leave out the run they are of.                *)
Notified(u) ==
  /\ bound' = Applied(Applied(bound, u), u)
  /\ IF bound' # bound THEN Reported ELSE UNCHANGED job
  /\ UNCHANGED <<files, marker, client, launcher, w, sweep, early, blind, acp>>

WorkflowUpdated ==
  /\ Speaks /\ UNCHANGED <<grok, faults>>
  /\ \E r \in DOMAIN grok.run, run \in {"ours", "none"} :
       Notified([run |-> run, rev |-> r, status |-> grok.run[r].status, agents |-> grok.run[r].agents])

ForeignUpdated ==
  /\ Speaks /\ UNCHANGED <<grok, faults>>
  /\ Notified([run |-> "foreign", rev |-> MaxRev + 1, status |-> "complete", agents |-> 0])

(* Of another workflow, or of none, and without the name of its run.       *)
StrayUpdated ==
  /\ Speaks /\ Fault("stray")
  /\ \E rev \in 1..(MaxRev + 1), status \in {"none", "complete"} :
       Notified([run |-> "none", rev |-> rev, status |-> status, agents |-> 0])
  /\ grok' = [grok EXCEPT !.misled = @ \/ bound' # bound]

-----------------------------------------------------------------------------
(* Cancellation (handleCancel) and recovery (recoverNonterminalJobs).  Both*)
(* kill what a snapshot of the record, or else the guard, names; remove the*)
(* files; and only then look at the record again.                          *)

Sets(s, pc) == sweep' = [sweep EXCEPT ![s].pc = pc]
sweepFrame == <<marker, client, launcher, bound, early, blind, acp>>

Cancels ==
  /\ sweep["cancel"].pc = "idle" /\ ~Terminal
  /\ marker' = TRUE /\ early' = (early \/ w.pc \in Opening) /\ Sets("cancel", "grace")
  /\ UNCHANGED <<job, files, client, launcher, w, bound, grok, blind, faults, acp>>

(* recheckCancelLaunchSettlement holds on to a launch that nobody recorded.*)
CancelForces ==
  /\ sweep["cancel"].pc = "grace"
  /\ IF Terminal \/ LaunchUnsettled
     THEN /\ sweep' = [sweep EXCEPT !["cancel"] = Idle]
          /\ Unless([job EXCEPT !.status = "running", !.blocked = FALSE])
     ELSE /\ sweep' = [sweep EXCEPT !["cancel"] = [pc |-> "kill", knew |-> job.grok, kills |-> job.worker]]
          /\ UNCHANGED job
  /\ UNCHANGED <<files, w, grok, faults>> /\ UNCHANGED sweepFrame

(* mutant: only a job whose cleanup is blocked is recovered.               *)
RecoverBlocked ==
  /\ sweep["recover"].pc = "idle" /\ ~Terminal /\ ~LaunchUnsettled
  /\ job.blocked /\ job.pend # "none"
  /\ sweep' = [sweep EXCEPT !["recover"] = [pc |-> "kill", knew |-> job.grok, kills |-> TRUE]]
  /\ UNCHANGED <<job, files, w, grok, faults>> /\ UNCHANGED sweepFrame

RecoverStarts ==
  /\ sweep["recover"].pc = "idle" /\ ~Terminal /\ ~LaunchUnsettled
  /\ LET pending == job.blocked /\ job.pend # "none"
     IN /\ pending \/ ~Alive
        /\ sweep' = [sweep EXCEPT !["recover"] = [pc |-> "kill", knew |-> job.grok, kills |-> pending]]
  /\ UNCHANGED <<job, files, w, grok, faults>> /\ UNCHANGED sweepFrame

(* The record's identity, or else the guard's; without either there is     *)
(* nothing to signal.                                                      *)
Named(s) == sweep[s].knew \/ "guard" \in files

SweepKillsGrok(s) ==
  /\ sweep[s].pc = "kill"
  /\ \/ /\ Sets(s, "worker") /\ UNCHANGED faults
        /\ IF Named(s) THEN Killed ELSE UNCHANGED grok
        /\ blind' = (blind \/ ~Named(s))
     \/ Named(s) /\ Survives /\ Sets(s, "blocked") /\ UNCHANGED blind
  /\ UNCHANGED <<job, files, w, marker, client, launcher, bound, early, acp>>

(* Nobody looks between these two.                                         *)
SweepKillsWorker(s) ==
  /\ sweep[s].pc = "worker" /\ Sets(s, "commit") /\ files' = {}
  /\ IF sweep[s].kills /\ Alive THEN Forgets("dead", "none") ELSE UNCHANGED <<w, bound, acp>>
  /\ UNCHANGED <<job, grok, faults, marker, client, launcher, early, blind>>

SweepCommits(s) ==
  /\ sweep[s].pc \in {"commit", "blocked"} /\ sweep' = [sweep EXCEPT ![s] = Idle]
  /\ IF s = "cancel"
     THEN Unless(IF sweep[s].pc = "commit" THEN [job EXCEPT !.status = "cancelled"]
                 ELSE [job EXCEPT !.status = "running", !.pend = "cancelled", !.blocked = TRUE])
     ELSE Unless(IF sweep[s].pc = "blocked" THEN [job EXCEPT !.blocked = TRUE]
                 ELSE IF LaunchUnsettled THEN job
                 ELSE [job EXCEPT !.status = IF job.pend = "none" THEN "failed" ELSE job.pend,
                                  !.pend = "none"])
  /\ UNCHANGED <<files, w, grok, faults>> /\ UNCHANGED sweepFrame

-----------------------------------------------------------------------------
WorkerSteps ==
  \/ WorkerStarts \/ WorkerRecords \/ WorkerTakesQuery \/ WorkerChecks \/ WorkerOpens
  \/ WorkerSpawns \/ WorkerGuards \/ WorkerPublishes \/ WorkerAsksForSession \/ WorkerOpenFails
  \/ SessionOpened \/ RequestFailed \/ GatePasses \/ GateGivesUp \/ CatalogueRead
  \/ LaunchAcknowledged \/ LoopContinues \/ WorkflowJudged \/ StopAwaited
  \/ RequestTimesOut \/ ExitNoticed
  \/ WorkerCloses \/ WorkerCleans \/ WorkerCompletes \/ WorkerSweeps \/ WorkerFails

SweepSteps(s) == SweepKillsGrok(s) \/ SweepKillsWorker(s) \/ SweepCommits(s)

ClientSteps == ClientSweeps \/ ClientReports
LauncherSteps == LauncherChecks \/ LauncherSpawns \/ LauncherRecords

Next ==
  \/ ClientSteps \/ ClientStopsWaiting \/ LauncherSteps \/ LauncherFails
  \/ WorkerSteps \/ PollSeesCancel \/ PollSeesDeadline \/ KillTimer \/ WorkerDies
  \/ ChunkArrives \/ ChunkOver \/ Answers \/ Advertises \/ Offends \/ Malformed \/ Exits \/ RunAdvances
  \/ WorkflowUpdated \/ ForeignUpdated \/ StrayUpdated
  \/ Cancels \/ CancelForces \/ RecoverStarts \/ (\E s \in Sweepers : SweepSteps(s))

Fairness ==
  /\ WF_vars(ClientSteps) /\ WF_vars(LauncherSteps) /\ SF_vars(WorkerSteps) /\ WF_vars(ChunkOver)
  /\ WF_vars(RecoverStarts) /\ \A s \in Sweepers : WF_vars(SweepSteps(s))

Spec == Init /\ [][Next]_vars
FairSpec == Spec /\ Fairness

-----------------------------------------------------------------------------
(* Properties.                                                             *)

(* A job is reported as completed only when its provider and its private   *)
(* files are gone and the workflow itself was over and its agents gone,    *)
(* whatever answers, stale or foreign notifications came before; except    *)
(* that a notification of another workflow that names no run was believed. *)
CompletedIsEarned ==
  job.status = "completed" =>
    /\ \/ grok.run # <<>> /\ grok.run[Len(grok.run)] = Revision("complete", 0)
       \/ grok.misled
    /\ grok.st = "gone" /\ files \cap {"home", "query"} = {}

(* A cancellation that came before the launch was acknowledged is not      *)
(* overtaken by a success: it is looked for before each stage, by several  *)
(* processes.                                                              *)
CancelComesFirst == early => job.status # "completed"

(* While the provider lives its home is kept: by the worker, by            *)
(* cancellation and by recovery, each of which removes it after it has     *)
(* killed the provider it names.  Those that name none (the command line,  *)
(* or who finds no identity) do not ask.                                   *)
FilesOutliveGrok == grok.st = "alive" => "home" \in files \/ blind

(* "Normal completion, cancellation, ... MUST all verify that the entire   *)
(* owned detached process group is gone" (SPEC.md:413), and no cleanup     *)
(* while a recorded group is live (SPEC.md:883).                           *)
CleanupIsVerified == grok.st = "alive" /\ job.grok => "home" \in files

(* When the transport breaks in a chunk, no request that the chunk has     *)
(* answered succeeds ("a later message of the same batch poisons the       *)
(* transport and must reject this request").                               *)
ChunksAreWhole ==
  [][chunk.open /\ ~closed /\ closed' => \A id \in chunk.answers : req'[id] = "rejected"]_vars

(* A job that has ended keeps its outcome, though worker, launcher, cancel *)
(* and recovery all write it; except that the command line overwrites it   *)
(* when the launcher failed after it had started the worker.               *)
EndIsFinal == [][Terminal /\ job'.status # job.status => launcher = "lost"]_vars

(* The job ends, whoever dies and whatever Grok says or does not say.      *)
JobEnds == <>[]Terminal
=============================================================================
