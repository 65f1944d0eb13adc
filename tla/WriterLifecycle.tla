--------------------------- MODULE WriterLifecycle ---------------------------
(* What a host decides about a managed writer that has ended               *)
(* (worker-owner-lifecycle.mjs, worker-owner-controller.mjs): integrate its*)
(* change into the parent checkout, abandon it, or discard a cancelled one;*)
(* and clean up: close the provider's session, delete it, remove the       *)
(* worktree.  The registry holds one record for each worker.  Every effect *)
(* outside is done by a controller of its own, whose intent is on record   *)
(* before it starts and until it is gone, and is believed only when the    *)
(* host observes it; each is asked for at most twice.                      *)
(*                                                                          *)
(* A call is a slot; a host that dies loses its leases, but what it spawned*)
(* may go on for a while.  Transactions of the registry are single steps   *)
(* (StateLock).  Calls that only answer (previews, replays, a key that is  *)
(* in use) change nothing and are left out.                                *)
EXTENDS Naturals

CONSTANTS
  Workers,      \* writers of one parent checkout
  Disposed,     \* bound: those that are cleaned up, abandoned or discarded
  Slots,        \* bound: concurrent calls
  None,
  FaultKinds,   \* those this instance has, of AllFaults
  MaxFaults     \* bound: faults altogether

AllFaults == {"die", "unkillable", "unseen", "edit"}
Places == {"base", "other"}      \* the parent, when no writer's change is in it

ASSUME WriterLifecycleAssumption ==
  /\ None \notin Workers \cup Slots /\ Workers \cap Places = {} /\ Disposed \subseteq Workers
  /\ FaultKinds \subseteq AllFaults /\ MaxFaults \in Nat

MaxTries == 2

Operations == {"integrate", "cleanup", "abandon", "discard"}

(* A record: the integration and its attempts; the cleanup, what it is for *)
(* and its attempts; and whether the intent of each effect is settled.     *)
NoRec == [integ |-> "none", tries |-> 0,
          clean |-> "none", op |-> "none",
          closes |-> 0, closed |-> FALSE, deletes |-> 0, deleted |-> FALSE,
          removes |-> 0, removed |-> FALSE,
          intent |-> [e \in {"apply", "close", "remove"} |-> "none"]]

Idle == [pc |-> "idle", w |-> None, op |-> "none", eff |-> "none",
         stage |-> "none", obs |-> "none", ok |-> FALSE]

NoCtl == [w |-> None, eff |-> "none", st |-> "gone"]

VARIABLES
  status,      \* how each writer ended
  rec,         \* the registry
  parent,      \* what the parent checkout holds
  tree,        \* each writer's worktree: kept, partial or absent
  session,     \* each writer's provider session: open, closed or deleted
  ctl,         \* the controller each call spawned
  parentLease, \* holder of the parent integration lease
  cleanLease,  \* holders of the cleanup leases
  call,
  faults

vars == <<status, rec, parent, tree, session, ctl, parentLease, cleanLease, call, faults>>
world == <<status, parent, tree, session>>
leases == <<parentLease, cleanLease>>

Init ==
  /\ status \in [Workers -> {"completed", "cancelled"}]
  /\ \A w \in Workers \ Disposed : status[w] = "completed"
  /\ rec = [w \in Workers |-> NoRec]
  /\ parent = "base"
  /\ tree = [w \in Workers |-> "kept"]
  /\ session = [w \in Workers |-> "open"]
  /\ ctl = [c \in Slots |-> NoCtl]
  /\ parentLease = None /\ cleanLease = [w \in Workers |-> None]
  /\ call = [c \in Slots |-> Idle]
  /\ faults = 0

Fault(kind) == kind \in FaultKinds /\ faults < MaxFaults /\ faults' = faults + 1

Goto(c, pc) ==
  call' = [call EXCEPT ![c] = [Idle EXCEPT !.pc = pc, !.w = call[c].w, !.op = call[c].op]]

(* The finally blocks.                                                     *)
End(c) ==
  /\ call' = [call EXCEPT ![c] = Idle]
  /\ parentLease' = IF parentLease = c THEN None ELSE parentLease
  /\ cleanLease' = [w \in Workers |-> IF cleanLease[w] = c THEN None ELSE cleanLease[w]]

(* inspectWriteVerticalIntegration.                                        *)
Observed(w) == IF parent = "base" THEN "unchanged" ELSE IF parent = w THEN "exact" ELSE "drift"

(* Mutant: a session that was closed is taken for deleted.                 *)
SessionNotOpen(w) == session[w] # "open"

(* observeSessionAbsentTwice.                                              *)
SessionAbsent(w) == session[w] = "deleted"

-----------------------------------------------------------------------------
(* Leases and the record.                                                  *)

(* Mutant: an apply that was tried is no reason not to abandon.            *)
UnverifiedMayAbandon(w) == rec[w].integ # "verified" /\ parent # w

MayAbandon(w) ==
  /\ rec[w].integ \notin {"verified", "applying"} /\ rec[w].tries = 0
  /\ rec[w].intent["apply"] = "none" /\ parent # w

(* What an operation needs of the worker, of its record and of its leases. *)
Allowed(w, op) ==
  \/ /\ op = "integrate" /\ parentLease = None
     /\ status[w] = "completed" /\ rec[w].integ \notin {"verified", "blocked"}
     /\ rec[w].integ = "none" => rec[w].clean = "none"
  \/ /\ op # "integrate" /\ w \in Disposed /\ cleanLease[w] = None
     /\ rec[w].op \in {"none", op} /\ rec[w].clean \notin {"absent", "blocked"}
     /\ op # "cleanup" /\ rec[w].closes = 0 => tree[w] = "kept"
     /\ CASE op = "cleanup" -> status[w] = "completed" /\ rec[w].integ = "verified"
          [] op = "abandon" -> parentLease = None /\ status[w] = "completed" /\ MayAbandon(w)
          [] op = "discard" -> status[w] = "cancelled" /\ parent = "base"

(* Mutant: the worktree is removed first and the session deleted later.    *)
RemoveFirst(r) ==
  IF ~r.closed THEN "close" ELSE IF ~r.removed THEN "classify"
  ELSE IF ~r.deleted THEN "inspect" ELSE "final"

(* Which of its loops a cleanup goes on with.                              *)
NextPhase(r) ==
  IF ~r.closed THEN "close" ELSE IF ~r.deleted THEN "inspect"
  ELSE IF ~r.removed THEN "classify" ELSE "final"

(* The calls of one host wait for each other; here only their number is    *)
(* bounded.                                                                *)
Free == {c \in Slots : call[c].pc = "idle" /\ ctl[c].st = "gone"}

(* A call takes its leases and looks at the worker; a call that may not go *)
(* on lets go of them again and has changed nothing.                       *)
Start(w, op) ==
  /\ Allowed(w, op) /\ Free # {}
  /\ LET c == CHOOSE s \in Free : TRUE
         new == rec[w].clean = "none" /\ (op = "integrate" => rec[w].integ = "none") IN
     /\ call' = [call EXCEPT ![c] = [Idle EXCEPT !.w = w, !.op = op,
          !.obs = IF op = "integrate" /\ new THEN Observed(w) ELSE "none",
          !.stage = IF op = "integrate" THEN "pre" ELSE "none",
          !.pc = IF new THEN "plan" ELSE IF op = "integrate" THEN "observe"
                 ELSE NextPhase(rec[w])]]
     /\ parentLease' = IF op \in {"integrate", "abandon"} THEN c ELSE parentLease
     /\ cleanLease' = IF op = "integrate" THEN cleanLease ELSE [cleanLease EXCEPT ![w] = c]
  /\ UNCHANGED <<rec, ctl, world, faults>>

(* The first record of a decision.                                         *)
PlanCleanup(c) ==
  /\ call[c].pc = "plan" /\ call[c].op # "integrate"
  /\ LET w == call[c].w IN
     /\ rec' = [rec EXCEPT ![w].clean = "planned", ![w].op = call[c].op]
     /\ Goto(c, NextPhase(rec[w]))
  /\ UNCHANGED <<ctl, leases, world, faults>>

(* An integration into a parent that has moved is blocked before anything  *)
(* was tried.                                                              *)
PlanIntegration(c) ==
  /\ call[c].pc = "plan" /\ call[c].op = "integrate"
  /\ LET w == call[c].w IN
     IF call[c].obs = "drift"
       THEN rec' = [rec EXCEPT ![w].integ = "blocked"] /\ End(c)
       ELSE /\ rec' = [rec EXCEPT ![w].integ = "planned"]
            /\ call' = [call EXCEPT ![c].pc = "observe", ![c].obs = "none"]
            /\ UNCHANGED leases
  /\ UNCHANGED <<ctl, world, faults>>

-----------------------------------------------------------------------------
(* integrateWriteWorkerWithLease: before the effect, after it failed and   *)
(* after it was answered, the parent is observed and the record follows.   *)

Observe(c) ==
  /\ call[c].pc = "observe"
  /\ call' = [call EXCEPT ![c].pc = "decide", ![c].obs = Observed(call[c].w)]
  /\ UNCHANGED <<rec, ctl, leases, world, faults>>

(* Mutant: an attempt that is on record is not gone on with.               *)
NotTried(w) == rec[w].integ = "planned" /\ rec[w].op # "abandon"

(* assertLifecycleRecord of a record with an abandon in it.                *)
Pending(w) == rec[w].integ \in {"planned", "applying"} /\ rec[w].op # "abandon"

Decide(c) ==
  /\ call[c].pc = "decide"
  /\ LET w == call[c].w
         obs == call[c].obs
         again == obs = "unchanged" /\ call[c].stage # "post" IN
     \/ /\ obs = "exact" /\ End(c)
        /\ rec' = IF Pending(w) THEN [rec EXCEPT ![w].integ = "verified"] ELSE rec
     \/ /\ again /\ Pending(w) /\ rec[w].tries < MaxTries
        /\ rec' = [rec EXCEPT ![w].integ = "applying", ![w].tries = @ + 1]
        /\ call' = [call EXCEPT ![c] = [Idle EXCEPT !.w = w, !.op = "integrate",
             !.pc = "prepare", !.eff = "apply"]]
        /\ UNCHANGED leases
     \/ /\ again /\ call[c].stage = "pre" /\ (~Pending(w) \/ rec[w].tries = MaxTries)
        /\ End(c) /\ UNCHANGED rec
     \/ /\ \/ obs = "drift"
           \/ obs = "unchanged" /\ call[c].stage = "post"
           \/ again /\ call[c].stage = "failed" /\ rec[w].tries = MaxTries
        /\ rec' = [rec EXCEPT ![w].integ = "blocked"] /\ End(c)
  /\ UNCHANGED <<ctl, world, faults>>

-----------------------------------------------------------------------------
(* openWorkerOwnerController, runOneEffect: the same for each effect.      *)

(* The call goes on with what its effect came to.                          *)
After(c, ok) ==
  LET eff == call[c].eff IN
  call' = [call EXCEPT ![c] = [Idle EXCEPT !.w = call[c].w, !.op = call[c].op,
    !.stage = IF eff # "apply" THEN "none" ELSE IF ok THEN "post" ELSE "failed",
    !.ok = ok /\ eff # "apply",
    !.pc = CASE eff = "apply" -> "observe" [] eff = "close" -> "closeEnd"
             [] eff = "remove" -> "removeEnd"]]

Intent(c, is) == rec' = [rec EXCEPT ![call[c].w].intent[call[c].eff] = is]

(* An intent that is not settled still owns the effect.                    *)
Unowned(c) == rec[call[c].w].intent[call[c].eff] \in {"none", "settled"}

(* The intent is on record before the controller is spawned, and is active *)
(* before it is told anything; one that is told nothing does nothing, so   *)
(* that up to there a failure or a death leaves no more than the intent.   *)
Prepare(c) ==
  /\ call[c].pc = "prepare"
  /\ \/ /\ Unowned(c) /\ Intent(c, "open")
        /\ \/ /\ ctl' = [ctl EXCEPT ![c] =
                  [w |-> call[c].w, eff |-> call[c].eff, st |-> "told"]]
              /\ call' = [call EXCEPT ![c].pc = "answer"]
           \/ call' = [call EXCEPT ![c].pc = "teardown"] /\ UNCHANGED ctl
     \/ After(c, FALSE) /\ UNCHANGED <<rec, ctl>>
  /\ UNCHANGED <<leases, world, faults>>

(* Grok copies the file, loads and closes the session, or removes the      *)
(* worktree, in this order from its files to its registration.             *)
Works(c) ==
  /\ ctl[c].st = "told"
  /\ LET w == ctl[c].w IN
     \/ /\ ctl[c].eff = "apply" /\ parent' = w
        /\ ctl' = [ctl EXCEPT ![c].st = "done"] /\ UNCHANGED <<tree, session>>
     \/ /\ ctl[c].eff = "close" /\ session[w] # "deleted"
        /\ session' = [session EXCEPT ![w] = "closed"]
        /\ ctl' = [ctl EXCEPT ![c].st = "done"] /\ UNCHANGED <<tree, parent>>
     \/ /\ ctl[c].eff = "remove" /\ tree[w] # "absent"
        /\ \E t \in {"partial", "absent"} \ {tree[w]} :
             /\ tree' = [tree EXCEPT ![w] = t]
             /\ ctl' = IF t = "absent" THEN [ctl EXCEPT ![c].st = "done"] ELSE ctl
        /\ UNCHANGED <<parent, session>>
  /\ UNCHANGED <<status, rec, leases, call, faults>>

(* An answer, or none in time.                                             *)
Answer(c) ==
  /\ call[c].pc = "answer"
  /\ \E ok \in BOOLEAN :
       /\ ok => ctl[c].st = "done"
       /\ call' = [call EXCEPT ![c].pc = "teardown", ![c].ok = ok]
  /\ UNCHANGED <<rec, ctl, leases, world, faults>>

(* settleAfterTeardown: an effect whose controller is not provably gone has*)
(* failed, and its intent stays.                                           *)
Teardown(c) ==
  /\ call[c].pc = "teardown"
  /\ \/ /\ ctl' = [ctl EXCEPT ![c] = NoCtl]
        /\ Intent(c, "settled") /\ After(c, call[c].ok) /\ UNCHANGED faults
     \/ ctl[c].st # "gone" /\ Fault("unkillable") /\ After(c, FALSE) /\ UNCHANGED <<rec, ctl>>
  /\ UNCHANGED <<leases, world>>

-----------------------------------------------------------------------------
(* disposeWriteWorker.                                                     *)

Block(c) == rec' = [rec EXCEPT ![call[c].w].clean = "blocked"] /\ End(c)

(* The record changes, and the cleanup goes on.                            *)
GoOn(c, r) ==
  rec' = [rec EXCEPT ![call[c].w] = r] /\ Goto(c, NextPhase(r)) /\ UNCHANGED leases

(* It changes before an effect that is asked for.                          *)
Ask(c, r, eff) ==
  /\ rec' = [rec EXCEPT ![call[c].w] = r]
  /\ call' = [call EXCEPT ![c].pc = "prepare", ![c].eff = eff]
  /\ UNCHANGED leases

Close(c) ==
  /\ call[c].pc = "close"
  /\ LET r == rec[call[c].w] IN
     IF r.closes = MaxTries THEN Block(c)
     ELSE Ask(c, [r EXCEPT !.clean = "closing", !.closes = @ + 1], "close")
  /\ UNCHANGED <<ctl, world, faults>>

CloseEnd(c) ==
  /\ call[c].pc = "closeEnd"
  /\ LET r == rec[call[c].w] IN
     IF call[c].ok THEN GoOn(c, [r EXCEPT !.closed = TRUE])
     ELSE IF r.closes < MaxTries THEN GoOn(c, r) ELSE Block(c)
  /\ UNCHANGED <<ctl, world, faults>>

(* A session that is provably absent is deleted, whoever did it; otherwise *)
(* the host asks for it, and what comes of that is seen later.             *)
Inspect(c) ==
  /\ call[c].pc = "inspect"
  /\ LET w == call[c].w
         r == rec[w] IN
     \/ SessionAbsent(w) /\ GoOn(c, [r EXCEPT !.deleted = TRUE]) /\ UNCHANGED session
     \/ /\ ~SessionAbsent(w) /\ r.deletes < MaxTries
        /\ rec' = [rec EXCEPT ![w].deletes = @ + 1] /\ Goto(c, "deleteEnd") /\ UNCHANGED leases
        /\ session' \in {session, [session EXCEPT ![w] = "deleted"]}
     \/ ~SessionAbsent(w) /\ r.deletes = MaxTries /\ Block(c) /\ UNCHANGED session
  /\ UNCHANGED <<status, parent, tree, ctl, faults>>

DeleteEnd(c) ==
  /\ call[c].pc = "deleteEnd"
  /\ LET r == rec[call[c].w] IN
     IF SessionAbsent(call[c].w) THEN GoOn(c, [r EXCEPT !.deleted = TRUE])
     ELSE IF r.deletes < MaxTries THEN GoOn(c, r) ELSE Block(c)
  /\ UNCHANGED <<ctl, world, faults>>

Classify(c) ==
  /\ call[c].pc = "classify"
  /\ LET w == call[c].w
         r == [rec[w] EXCEPT !.clean = "removing"] IN
     CASE tree[w] = "absent" -> GoOn(c, [r EXCEPT !.removed = TRUE])
       [] tree[w] = "kept" /\ r.removes < MaxTries ->
            Ask(c, [r EXCEPT !.removes = @ + 1], "remove")
       [] OTHER -> Block(c)
  /\ UNCHANGED <<ctl, world, faults>>

RemoveEnd(c) ==
  /\ call[c].pc = "removeEnd"
  /\ LET w == call[c].w
         r == rec[w] IN
     IF tree[w] = "absent" THEN GoOn(c, [r EXCEPT !.removed = TRUE])
     ELSE IF ~call[c].ok /\ tree[w] = "kept" /\ r.removes < MaxTries THEN GoOn(c, r)
     ELSE Block(c)
  /\ UNCHANGED <<ctl, world, faults>>

(* Everything is looked at once more before that is published.             *)
LeftNothing(w) == tree[w] = "absent" /\ SessionAbsent(w)

Final(c) ==
  /\ call[c].pc = "final"
  /\ LET w == call[c].w IN
     IF LeftNothing(w)
       THEN rec' = [rec EXCEPT ![w].clean = "absent"] /\ End(c)
       ELSE Block(c)
  /\ UNCHANGED <<ctl, world, faults>>

(* A session or a worktree that cannot be observed ends the call.          *)
GiveUp(c) ==
  /\ call[c].pc \in {"inspect", "deleteEnd", "final"} /\ Fault("unseen")
  /\ End(c)
  /\ UNCHANGED <<rec, ctl, world>>

-----------------------------------------------------------------------------
(* Everybody else.                                                         *)

(* A host dies, and its leases can be taken.                               *)
Die(c) ==
  /\ call[c].pc # "idle" /\ Fault("die") /\ End(c)
  /\ UNCHANGED <<rec, ctl, world>>

(* A controller nobody waits for ends in the end.                          *)
OrphanEnds(c) ==
  /\ ctl[c].st # "gone" /\ call[c].pc \notin {"answer", "teardown"}
  /\ ctl' = [ctl EXCEPT ![c] = NoCtl]
  /\ UNCHANGED <<rec, leases, world, call, faults>>

(* The user edits the checkout, or takes everything back.                  *)
Edit ==
  /\ Fault("edit")
  /\ parent' \in Places \ {parent}
  /\ UNCHANGED <<status, rec, tree, session, ctl, leases, call>>

Runs(c) ==
  \/ PlanCleanup(c) \/ PlanIntegration(c) \/ Observe(c) \/ Decide(c)
  \/ Prepare(c) \/ Answer(c) \/ Teardown(c) \/ Close(c) \/ CloseEnd(c) \/ Inspect(c) \/ DeleteEnd(c) \/ Classify(c)
  \/ RemoveEnd(c) \/ Final(c)

Next ==
  \/ \E c \in Slots : Runs(c) \/ Works(c) \/ OrphanEnds(c) \/ GiveUp(c) \/ Die(c)
  \/ \E w \in Workers, op \in Operations : Start(w, op)
  \/ Edit

(* Calls have time limits on all their waits, controllers whose pipes are  *)
(* closed end, and a host asks again, until it gets the leases, for what it*)
(* has decided.                                                            *)
Undecided(w) == rec[w].integ \in {"planned", "applying"} /\ rec[w].clean = "none"
Unclean(w) == rec[w].clean \in {"planned", "closing", "removing"}

Continue(w) ==
  \/ Undecided(w) /\ Start(w, "integrate")
  \/ Unclean(w) /\ Start(w, rec[w].op)

Fairness ==
  /\ \A c \in Slots : WF_vars(Runs(c)) /\ WF_vars(OrphanEnds(c))
  /\ \A w \in Workers : SF_vars(Continue(w))

Spec == Init /\ [][Next]_vars /\ Fairness
-----------------------------------------------------------------------------
(* Properties.                                                             *)

(* A change is in the parent, or on its way there, only by a decision to   *)
(* integrate it that stands on record: a writer that was abandoned or      *)
(* discarded never gets into the parent, not even late, by a controller    *)
(* its host has lost sight of.                                             *)
AppliedIsDecided ==
  \A w \in Workers :
    (parent = w \/ \E c \in Slots : ctl[c].w = w /\ ctl[c].eff = "apply" /\ ctl[c].st = "told")
      => rec[w].integ \in {"applying", "verified", "blocked"} /\ rec[w].op \notin {"abandon", "discard"}

(* A writer's work is in its worktree and, by its session, in the reach of *)
(* its model.  The worktree is touched only when the session has been      *)
(* closed and deleted, and only for a writer whose change is verified to   *)
(* be in the parent or that its owner has given up.                        *)
WorkIsKept ==
  [][\A w \in Workers : tree[w] = "kept" /\ tree'[w] # "kept" =>
       /\ session[w] = "deleted" /\ rec[w].closed /\ rec[w].deleted
       /\ rec[w].integ = "verified" \/ rec[w].op \in {"abandon", "discard"}]_vars

(* A cleanup that is recorded as complete has left nothing: neither the    *)
(* worktree nor the session, and nothing comes back by a controller that   *)
(* is still at work.                                                       *)
AbsentIsAbsent ==
  \A w \in Workers : rec[w].clean = "absent" => tree[w] = "absent" /\ session[w] = "deleted"

(* What no call goes on with: an apply that was tried twice, by a host that*)
(* then died, and has left the parent as it was; and the discard of a      *)
(* cancelled writer in a parent that has moved.                            *)
Stuck(w) ==
  \/ rec[w].integ = "applying" /\ rec[w].tries = MaxTries /\ Observed(w) = "unchanged"
  \/ rec[w].op = "discard" /\ parent # "base"

(* What a host has begun it ends: an integration is verified or blocked, a *)
(* cleanup is complete or blocked, whatever dies, stays or is edited.      *)
DecisionsEnd ==
  \A w \in Workers :
    /\ []<>(Undecided(w) => Stuck(w))
    /\ []<>(Unclean(w) => Stuck(w))
=============================================================================
