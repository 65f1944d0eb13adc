------------------------ MODULE WorkerDispatchProofs ------------------------
(* What the run of WorkerDispatch checks of the processes of one brokered    *)
(* worker, for any number of claims, hosts and faults: the prompt is given   *)
(* once, one attempt creates processes, the artifacts go last, and recovery  *)
(* spares the living.                                                        *)
EXTENDS WorkerDispatchInvariant

-----------------------------------------------------------------------------
(* The branches of actions that change what the invariant speaks of, each  *)
(* preserving the invariant by the part of it that names the process.      *)

(* What a recoverer knows stays true while no intent is made again and no  *)
(* process comes back.                                                     *)
LEMMA InformedKept ==
  ASSUME Recovering, \A r \in Recoverers : rec'[r] = rec[r] \/ rec'[r].at = "idle" \/ Informed(r)',
         job.pi = "no-child" => job'.pi = "no-child",
         \A a \in Attempts : pc.ctl[a] = "gone" => pc'.ctl[a] = "gone",
         \A a \in Attempts : pc.wrk[a] = "gone" => pc'.wrk[a] = "gone"
  PROVE  \A r \in Recoverers : Informed(r)'
<1> SUFFICES ASSUME NEW r \in Recoverers PROVE Informed(r)'
  OBVIOUS
<1>1. CASE rec'[r] = rec[r]
  BY <1>1 DEF Recovering, Informed, Pursues, SeenGone
<1>2. CASE rec'[r].at = "idle"
  BY <1>2 DEF Informed, Pursues
<1> QED BY <1>1, <1>2

(* An attempt is claimed only before any spawn has been prepared.          *)
LEMMA ClaimAttemptKeeps ==
  ASSUME TypeOK, Facts, NEW a \in Attempts, ClaimAttempt(a)
  PROVE  Facts'
<1> USE DEF Facts
<1>1. /\ pc'.ctl = pc.ctl /\ pc'.wrk = pc.wrk /\ pc'.prv = pc.prv
      /\ pc'.launcher[a] = "claimed"
      /\ \A b \in Attempts : b # a => pc'.launcher[b] = pc.launcher[b]
  BY GoesMoves DEF ClaimAttempt, Moved, Stay, Procs
<1>2. /\ Keeps(job, job', {"state", "fence", "auth", "leased"})
      /\ job'.state = "claimed" /\ job'.fence = a /\ job'.auth = a
  BY ClaimWrites DEF ClaimAttempt, CanClaim, TypeOK, Attempts
<1>3. /\ job'.status = job.status /\ job'.authorized = job.authorized
      /\ job'.consumed = job.consumed /\ job'.ctl = job.ctl /\ job'.wrk = job.wrk
      /\ job'.prv = job.prv /\ job'.gen = job.gen /\ job'.ci = job.ci
      /\ job'.wi = job.wi /\ job'.pi = job.pi /\ job'.ccp = job.ccp /\ job'.uw = job.uw
      /\ job'.up = job.up /\ job'.cf = job.cf
  BY <1>2 DEF Keeps, Fields
<1>4. guard' = guard /\ cancelled' = cancelled /\ wiped' = wiped /\ prompts' = prompts /\ rec' = rec
  BY DEF ClaimAttempt, Quiet
<1>5. /\ job.state = "pending" \/ (job.state = "claimed" /\ job.ci = "none")
      /\ ~cancelled /\ job.fence # a /\ a # 0
  BY DEF ClaimAttempt, CanClaim, Attempts
<1>6. Bare(job) /\ Bare(job)'
  BY <1>1, <1>2, <1>3, <1>4, <1>5 DEF Launched, Early, Bare
<1>7. Launched'
  BY <1>1, <1>2, <1>3, <1>4, <1>5, <1>6 DEF Launched, Early, Bare, OneLine, Controlled
<1>8. OneLine'
  BY <1>1, <1>2, <1>3, <1>4, <1>5, <1>6 DEF OneLine, Launched
<1>9. Controlled'
  BY <1>1, <1>2, <1>3, <1>4, <1>5, <1>6
  DEF Controlled, Launched, OneLine, Early, Gone, Closed, NoSpawn, Bare
<1>10. Worked'
  BY <1>1, <1>2, <1>3, <1>4, <1>5, <1>6
  DEF Worked, Launched, OneLine, Controlled, Bound, Early, Gone, Closed, NoSpawn
<1>11. Closed'
  BY <1>1, <1>2, <1>3, <1>4, <1>5, <1>6
  DEF Closed, NoSpawn, Terminal, Launched, OneLine, Controlled, Worked, Bound, Early, Gone
<1>12. Recovering'
  <2>1. \A r \in Recoverers : Informed(r)'
    BY <1>1, <1>2, <1>3, <1>4, <1>5, <1>6, InformedKept
  <2> QED BY <1>1, <1>2, <1>3, <1>4, <1>5, <1>6, <2>1 DEF Recovering, Worked, Early, Launched, Bare
<1>13. Prompted'
  BY <1>1, <1>2, <1>3, <1>4, <1>5, <1>6 DEF Prompted
<1> QED BY <1>7, <1>8, <1>9, <1>10, <1>11, <1>12, <1>13

(* The launcher prepares, spawns, fails to spawn and publishes.            *)
LEMMA LauncherPreparesKeeps ==
  ASSUME TypeOK, Facts, NEW a \in Attempts, LauncherPrepares(a), ~cancelled,
         CanPrepareController(job, a)
  PROVE  Facts'
<1> USE DEF Facts
<1>1. /\ pc'.ctl = pc.ctl /\ pc'.wrk = pc.wrk /\ pc'.prv = pc.prv
      /\ pc'.launcher[a] = "prepared"
      /\ \A b \in Attempts : b # a => pc'.launcher[b] = pc.launcher[b]
  BY GoesMoves DEF LauncherPrepares, Moved, Stay, Procs
<1>2. /\ Keeps(job, job', {"ci"})
      /\ job'.ci = "pending"
  BY PrepareControllerWrites DEF LauncherPrepares, Writes, TypeOK
<1>3. /\ job'.status = job.status /\ job'.state = job.state /\ job'.fence = job.fence
      /\ job'.auth = job.auth /\ job'.authorized = job.authorized
      /\ job'.consumed = job.consumed /\ job'.ctl = job.ctl /\ job'.wrk = job.wrk
      /\ job'.prv = job.prv /\ job'.gen = job.gen /\ job'.wi = job.wi
      /\ job'.pi = job.pi /\ job'.ccp = job.ccp /\ job'.uw = job.uw /\ job'.up = job.up
      /\ job'.cf = job.cf
  BY <1>2 DEF Keeps, Fields
<1>4. guard' = guard /\ cancelled' = cancelled /\ wiped' = wiped /\ prompts' = prompts /\ rec' = rec
  BY DEF LauncherPrepares, Quiet
<1>5. job.fence = a /\ job.state = "claimed" /\ job.ci = "none" /\ Bare(job)
  BY DEF CanPrepareController, Current, Launched, Early
<1>6. Launched'
  BY <1>1, <1>2, <1>3, <1>4, <1>5 DEF Launched, Early, Bare, OneLine, Controlled
<1>7. OneLine'
  BY <1>1, <1>2, <1>3, <1>4, <1>5 DEF OneLine, Launched
<1>8. Controlled'
  BY <1>1, <1>2, <1>3, <1>4, <1>5
  DEF Controlled, Launched, OneLine, Early, Gone, Closed, NoSpawn, Bare
<1>9. Worked'
  BY <1>1, <1>2, <1>3, <1>4, <1>5
  DEF Worked, Launched, OneLine, Controlled, Bound, Early, Gone, Closed, NoSpawn
<1>10. Closed'
  BY <1>1, <1>2, <1>3, <1>4, <1>5
  DEF Closed, NoSpawn, Terminal, Launched, OneLine, Controlled, Worked, Bound, Early, Gone
<1>11. Recovering'
  <2>1. \A r \in Recoverers : Informed(r)'
    BY <1>1, <1>2, <1>3, <1>4, <1>5, InformedKept
  <2> QED BY <1>1, <1>2, <1>3, <1>4, <1>5, <2>1 DEF Recovering, Worked, Early, Launched, Bare
<1>12. Prompted'
  BY <1>1, <1>2, <1>3, <1>4, <1>5 DEF Prompted
<1> QED BY <1>6, <1>7, <1>8, <1>9, <1>10, <1>11, <1>12

LEMMA LauncherSpawnsKeeps ==
  ASSUME TypeOK, Facts, NEW a \in Attempts, LauncherSpawns(a),
         pc' = [pc EXCEPT !.ctl[a] = "boot", !.launcher[a] = "spawned"], job' = job
  PROVE  Facts'
<1> USE DEF Facts
<1>1. /\ pc'.launcher[a] = "spawned"
      /\ \A b \in Attempts : b # a => pc'.launcher[b] = pc.launcher[b]
      /\ pc'.ctl[a] = "boot"
      /\ \A b \in Attempts : b # a => pc'.ctl[b] = pc.ctl[b]
      /\ pc'.wrk = pc.wrk /\ pc'.prv = pc.prv
  BY DEF TypeOK, Procs
<1>2. job' = job
  OBVIOUS
<1>3. guard' = guard /\ cancelled' = cancelled /\ wiped' = wiped /\ prompts' = prompts /\ rec' = rec
  BY DEF LauncherSpawns, Quiet
<1>4. /\ pc.launcher[a] = "prepared" /\ pc.ctl[a] = "none" /\ job.fence = a
      /\ job.state = "claimed" /\ job.ci = "pending" /\ job.ccp = "none" /\ job.wi = "none"
  BY DEF LauncherSpawns, At, Launched, Controlled, Early
<1>5. Launched'
  BY <1>1, <1>2, <1>3, <1>4 DEF Launched, Early, Bare, OneLine, Controlled
<1>6. OneLine'
  BY <1>1, <1>2, <1>3, <1>4 DEF OneLine, Launched
<1>7. Controlled'
  BY <1>1, <1>2, <1>3, <1>4 DEF Controlled, Launched, OneLine, Early, Gone, Closed, NoSpawn, Bare
<1>8. Worked'
  BY <1>1, <1>2, <1>3, <1>4
  DEF Worked, Launched, OneLine, Controlled, Bound, Early, Gone, Closed, NoSpawn
<1>9. Closed'
  BY <1>1, <1>2, <1>3, <1>4
  DEF Closed, NoSpawn, Terminal, Launched, OneLine, Controlled, Worked, Bound, Early, Gone
<1>10. Recovering'
  <2>1. \A r \in Recoverers : Informed(r)'
    BY <1>1, <1>2, <1>3, <1>4, InformedKept
  <2> QED BY <1>1, <1>2, <1>3, <1>4, <2>1 DEF Recovering, Worked, Early, Launched, Bare
<1>11. Prompted'
  BY <1>1, <1>2, <1>3, <1>4 DEF Prompted
<1> QED BY <1>5, <1>6, <1>7, <1>8, <1>9, <1>10, <1>11

LEMMA LauncherNoChildKeeps ==
  ASSUME TypeOK, Facts, NEW a \in Attempts, LauncherSpawns(a),
         NEW p \in {"failing-blind", "failing-pidless"}, Goes("launcher", a, p),
         Writes(CanControllerNoChild(job, a), ControllerNoChild(job))
  PROVE  Facts'
<1> USE DEF Facts
<1>1. /\ pc'.ctl = pc.ctl /\ pc'.wrk = pc.wrk /\ pc'.prv = pc.prv
      /\ pc'.launcher[a] = p
      /\ \A b \in Attempts : b # a => pc'.launcher[b] = pc.launcher[b]
  BY GoesMoves DEF Moved, Stay, Procs
<1>2. /\ Keeps(job, job', {"ci", "notLaunched"})
      /\ job'.ci = "no-child" \/ job'.ci = job.ci
  BY ControllerNoChildWrites DEF Writes, TypeOK, Keeps
<1>3. /\ job'.status = job.status /\ job'.state = job.state /\ job'.fence = job.fence
      /\ job'.auth = job.auth /\ job'.authorized = job.authorized
      /\ job'.consumed = job.consumed /\ job'.ctl = job.ctl /\ job'.wrk = job.wrk
      /\ job'.prv = job.prv /\ job'.gen = job.gen /\ job'.wi = job.wi
      /\ job'.pi = job.pi /\ job'.ccp = job.ccp /\ job'.uw = job.uw /\ job'.up = job.up
      /\ job'.cf = job.cf
  BY <1>2 DEF Keeps, Fields
<1>4. guard' = guard /\ cancelled' = cancelled /\ wiped' = wiped /\ prompts' = prompts /\ rec' = rec
  BY DEF LauncherSpawns, Quiet
<1>5. /\ pc.launcher[a] = "prepared" /\ pc.ctl[a] = "none" /\ job.fence = a
      /\ job.state = "claimed" /\ job.ci = "pending" /\ job.ccp = "none" /\ job.wi = "none"
  BY DEF LauncherSpawns, At, Launched, Controlled, Early
<1>6. \A b \in Attempts : pc.ctl[b] = "none" /\ pc.wrk[b] = "none" /\ pc.prv[b] = "none"
  BY <1>1, <1>2, <1>3, <1>4, <1>5 DEF OneLine
<1>7. Launched'
  BY <1>1, <1>2, <1>3, <1>4, <1>5, <1>6 DEF Launched, Early, Bare, OneLine, Controlled
<1>8. OneLine'
  BY <1>1, <1>2, <1>3, <1>4, <1>5, <1>6 DEF OneLine, Launched
<1>9. Controlled'
  BY <1>1, <1>2, <1>3, <1>4, <1>5, <1>6
  DEF Controlled, Launched, OneLine, Early, Gone, Closed, NoSpawn, Bare
<1>10. Worked'
  BY <1>1, <1>2, <1>3, <1>4, <1>5, <1>6
  DEF Worked, Launched, OneLine, Controlled, Bound, Early, Gone, Closed, NoSpawn
<1>11. Closed'
  BY <1>1, <1>2, <1>3, <1>4, <1>5, <1>6
  DEF Closed, NoSpawn, Terminal, Launched, OneLine, Controlled, Worked, Bound, Early, Gone
<1>12. Recovering'
  <2>1. \A r \in Recoverers : Informed(r)'
    BY <1>1, <1>2, <1>3, <1>4, <1>5, <1>6, InformedKept
  <2> QED BY <1>1, <1>2, <1>3, <1>4, <1>5, <1>6, <2>1 DEF Recovering, Worked, Early, Launched, Bare
<1>13. Prompted'
  BY <1>1, <1>2, <1>3, <1>4, <1>5, <1>6 DEF Prompted
<1> QED BY <1>7, <1>8, <1>9, <1>10, <1>11, <1>12, <1>13

LEMMA LauncherPublishesKeeps ==
  ASSUME TypeOK, Facts, NEW a \in Attempts, LauncherPublishes(a), CanControllerStarted(job, a),
         ~cancelled, job.state = "claimed"
  PROVE  Facts'
<1> USE DEF Facts
<1>1. /\ pc'.ctl = pc.ctl /\ pc'.wrk = pc.wrk /\ pc'.prv = pc.prv
      /\ pc'.launcher[a] = "done"
      /\ \A b \in Attempts : b # a => pc'.launcher[b] = pc.launcher[b]
  BY GoesMoves, ControllerStartedWrites DEF LauncherPublishes, Moved, Stay, Procs, Writes, TypeOK
<1>2. /\ Keeps(job, job', {"state", "ci", "ctl", "leased"})
      /\ job'.state = "controller-started" /\ job'.ci = "registered" /\ job'.ctl = a
  BY ControllerStartedWrites DEF LauncherPublishes, Writes, TypeOK
<1>3. /\ job'.status = job.status /\ job'.fence = job.fence /\ job'.auth = job.auth
      /\ job'.authorized = job.authorized /\ job'.consumed = job.consumed
      /\ job'.wrk = job.wrk /\ job'.prv = job.prv /\ job'.gen = job.gen
      /\ job'.wi = job.wi /\ job'.pi = job.pi /\ job'.ccp = job.ccp /\ job'.uw = job.uw
      /\ job'.up = job.up /\ job'.cf = job.cf
  BY <1>2 DEF Keeps, Fields
<1>4. guard' = guard /\ cancelled' = cancelled /\ wiped' = wiped /\ prompts' = prompts /\ rec' = rec
  BY DEF LauncherPublishes, Quiet
<1>5. /\ job.fence = a /\ job.state = "claimed" /\ job.ci \in {"pending", "registered"}
      /\ job.ccp = "none" /\ pc.ctl[a] # "none" /\ pc.launcher[a] = "tokened"
  BY DEF CanControllerStarted, Advances, NotCleanupClaimed, Current, OneLine, At, LauncherPublishes
<1>6. Launched'
  BY <1>1, <1>2, <1>3, <1>4, <1>5 DEF Launched, Early, Bare, OneLine, Controlled
<1>7. OneLine'
  BY <1>1, <1>2, <1>3, <1>4, <1>5 DEF OneLine, Launched
<1>8. Controlled'
  BY <1>1, <1>2, <1>3, <1>4, <1>5
  DEF Controlled, Launched, OneLine, Early, Gone, Closed, NoSpawn, Bare
<1>9. Worked'
  BY <1>1, <1>2, <1>3, <1>4, <1>5
  DEF Worked, Launched, OneLine, Controlled, Bound, Early, Gone, Closed, NoSpawn
<1>10. Closed'
  BY <1>1, <1>2, <1>3, <1>4, <1>5
  DEF Closed, NoSpawn, Terminal, Launched, OneLine, Controlled, Worked, Bound, Early, Gone
<1>11. Recovering'
  <2>1. \A r \in Recoverers : Informed(r)'
    BY <1>1, <1>2, <1>3, <1>4, <1>5, InformedKept
  <2> QED BY <1>1, <1>2, <1>3, <1>4, <1>5, <2>1 DEF Recovering, Worked, Early, Launched, Bare
<1>12. Prompted'
  BY <1>1, <1>2, <1>3, <1>4, <1>5 DEF Prompted
<1> QED BY <1>6, <1>7, <1>8, <1>9, <1>10, <1>11, <1>12

(* The controller registers, prepares and spawns its worker.               *)
LEMMA ControllerRegistersKeeps ==
  ASSUME TypeOK, Facts, NEW a \in Attempts, ControllerRegisters(a), CanControllerStarted(job, a),
         job.state = "claimed" \/ (job.state = "controller-started" /\ job.ctl = a),
         Writes(TRUE, ControllerStarted(job, a)), Goes("ctl", a, "owned")
  PROVE  Facts'
<1> USE DEF Facts
<1>1. /\ pc'.launcher = pc.launcher /\ pc'.wrk = pc.wrk /\ pc'.prv = pc.prv
      /\ pc'.ctl[a] = "owned"
      /\ \A b \in Attempts : b # a => pc'.ctl[b] = pc.ctl[b]
  BY GoesMoves DEF Moved, Stay, Procs
<1>2. /\ Keeps(job, job', {"state", "ci", "ctl", "leased"})
      /\ job'.state = "controller-started" /\ job'.ci = "registered" /\ job'.ctl = a
  <2>1. CASE job.state = "claimed"
    BY <2>1, ControllerStartedWrites DEF Writes, TypeOK
  <2>2. CASE job.state = "controller-started"
    BY <2>2, ContractSays
    DEF Writes, TypeOK, ControllerStarted, Keeps, CanControllerStarted, Advances, WithController
  <2> QED BY <2>1, <2>2
<1>3. /\ job'.status = job.status /\ job'.fence = job.fence /\ job'.auth = job.auth
      /\ job'.authorized = job.authorized /\ job'.consumed = job.consumed
      /\ job'.wrk = job.wrk /\ job'.prv = job.prv /\ job'.gen = job.gen
      /\ job'.wi = job.wi /\ job'.pi = job.pi /\ job'.ccp = job.ccp /\ job'.uw = job.uw
      /\ job'.up = job.up /\ job'.cf = job.cf
  BY <1>2 DEF Keeps, Fields
<1>4. guard' = guard /\ cancelled' = cancelled /\ wiped' = wiped /\ prompts' = prompts /\ rec' = rec
  BY DEF ControllerRegisters, Quiet
<1>5. /\ job.fence = a /\ job.state \in {"claimed", "controller-started"}
      /\ job.ci \in {"pending", "registered"} /\ job.ccp = "none" /\ pc.ctl[a] = "boot"
      /\ job.wi = "none" /\ pc.wrk[a] = "none" /\ ~wiped
  BY DEF CanControllerStarted, Advances, NotCleanupClaimed, Current, OneLine, At,
    ControllerRegisters, Controlled, Closed, NoSpawn
<1>6. \A b \in Attempts : pc.wrk[b] = "none" /\ pc.prv[b] = "none"
  BY <1>1, <1>2, <1>3, <1>4, <1>5 DEF OneLine
<1>7. Launched'
  BY <1>1, <1>2, <1>3, <1>4, <1>5, <1>6 DEF Launched, Early, Bare, OneLine, Controlled
<1>8. OneLine'
  BY <1>1, <1>2, <1>3, <1>4, <1>5, <1>6 DEF OneLine, Launched
<1>9. Controlled'
  BY <1>1, <1>2, <1>3, <1>4, <1>5, <1>6
  DEF Controlled, Launched, OneLine, Early, Gone, Closed, NoSpawn, Bare
<1>10. Worked'
  BY <1>1, <1>2, <1>3, <1>4, <1>5, <1>6
  DEF Worked, Launched, OneLine, Controlled, Bound, Early, Gone, Closed, NoSpawn
<1>11. Closed'
  BY <1>1, <1>2, <1>3, <1>4, <1>5, <1>6
  DEF Closed, NoSpawn, Terminal, Launched, OneLine, Controlled, Worked, Bound, Early, Gone
<1>12. Recovering'
  <2>1. \A r \in Recoverers : Informed(r)'
    BY <1>1, <1>2, <1>3, <1>4, <1>5, <1>6, InformedKept
  <2> QED BY <1>1, <1>2, <1>3, <1>4, <1>5, <1>6, <2>1 DEF Recovering, Worked, Early, Launched, Bare
<1>13. Prompted'
  BY <1>1, <1>2, <1>3, <1>4, <1>5, <1>6 DEF Prompted
<1> QED BY <1>7, <1>8, <1>9, <1>10, <1>11, <1>12, <1>13

LEMMA ControllerPreparesKeeps ==
  ASSUME TypeOK, Facts, NEW a \in Attempts, ControllerPrepares(a), ~cancelled,
         CanPrepareWorker(job, a)
  PROVE  Facts'
<1> USE DEF Facts
<1>1. /\ pc'.launcher = pc.launcher /\ pc'.wrk = pc.wrk /\ pc'.prv = pc.prv
      /\ pc'.ctl[a] = "prepared"
      /\ \A b \in Attempts : b # a => pc'.ctl[b] = pc.ctl[b]
  BY GoesMoves DEF ControllerPrepares, Moved, Stay, Procs
<1>2. /\ Keeps(job, job', {"wi"})
      /\ job'.wi = "pending"
  BY PrepareWorkerWrites DEF ControllerPrepares, Writes, TypeOK
<1>3. /\ job'.status = job.status /\ job'.state = job.state /\ job'.fence = job.fence
      /\ job'.auth = job.auth /\ job'.authorized = job.authorized
      /\ job'.consumed = job.consumed /\ job'.ctl = job.ctl /\ job'.wrk = job.wrk
      /\ job'.prv = job.prv /\ job'.gen = job.gen /\ job'.ci = job.ci
      /\ job'.pi = job.pi /\ job'.ccp = job.ccp /\ job'.uw = job.uw /\ job'.up = job.up
      /\ job'.cf = job.cf
  BY <1>2 DEF Keeps, Fields
<1>4. guard' = guard /\ cancelled' = cancelled /\ wiped' = wiped /\ prompts' = prompts /\ rec' = rec
  BY DEF ControllerPrepares, Quiet
<1>5. /\ job.fence = a /\ job.state = "controller-started" /\ job.wi = "none"
      /\ pc.ctl[a] = "owned" /\ pc.wrk[a] = "none" /\ ~wiped
  BY DEF CanPrepareWorker, Current, ControllerPrepares, At, Controlled, Closed, NoSpawn
<1>6. Launched'
  BY <1>1, <1>2, <1>3, <1>4, <1>5 DEF Launched, Early, Bare, OneLine, Controlled
<1>7. OneLine'
  BY <1>1, <1>2, <1>3, <1>4, <1>5 DEF OneLine, Launched
<1>8. Controlled'
  BY <1>1, <1>2, <1>3, <1>4, <1>5
  DEF Controlled, Launched, OneLine, Early, Gone, Closed, NoSpawn, Bare
<1>9. Worked'
  BY <1>1, <1>2, <1>3, <1>4, <1>5
  DEF Worked, Launched, OneLine, Controlled, Bound, Early, Gone, Closed, NoSpawn
<1>10. Closed'
  BY <1>1, <1>2, <1>3, <1>4, <1>5
  DEF Closed, NoSpawn, Terminal, Launched, OneLine, Controlled, Worked, Bound, Early, Gone
<1>11. Recovering'
  <2>1. \A r \in Recoverers : Informed(r)'
    BY <1>1, <1>2, <1>3, <1>4, <1>5, InformedKept
  <2> QED BY <1>1, <1>2, <1>3, <1>4, <1>5, <2>1 DEF Recovering, Worked, Early, Launched, Bare
<1>12. Prompted'
  BY <1>1, <1>2, <1>3, <1>4, <1>5 DEF Prompted
<1> QED BY <1>6, <1>7, <1>8, <1>9, <1>10, <1>11, <1>12

LEMMA ControllerSpawnsKeeps ==
  ASSUME TypeOK, Facts, NEW a \in Attempts, ControllerSpawns(a),
         pc' = [pc EXCEPT !.wrk[a] = "boot", !.ctl[a] = "spawned"], job' = job
  PROVE  Facts'
<1> USE DEF Facts
<1>1. /\ pc'.ctl[a] = "spawned"
      /\ \A b \in Attempts : b # a => pc'.ctl[b] = pc.ctl[b]
      /\ pc'.wrk[a] = "boot"
      /\ \A b \in Attempts : b # a => pc'.wrk[b] = pc.wrk[b]
      /\ pc'.launcher = pc.launcher /\ pc'.prv = pc.prv
  BY DEF TypeOK, Procs
<1>2. job' = job
  OBVIOUS
<1>3. guard' = guard /\ cancelled' = cancelled /\ wiped' = wiped /\ prompts' = prompts /\ rec' = rec
  BY DEF ControllerSpawns, Quiet
<1>4. /\ pc.ctl[a] = "prepared" /\ pc.wrk[a] = "none" /\ pc.prv[a] = "none" /\ ~wiped
      /\ job.state = "controller-started" /\ job.wi = "pending" /\ job.prv = "none"
  BY DEF ControllerSpawns, At, OneLine, Controlled, Closed, NoSpawn
<1>5. Launched'
  BY <1>1, <1>2, <1>3, <1>4 DEF Launched, Early, Bare, OneLine, Controlled
<1>6. OneLine'
  BY <1>1, <1>2, <1>3, <1>4 DEF OneLine, Launched
<1>7. Controlled'
  BY <1>1, <1>2, <1>3, <1>4 DEF Controlled, Launched, OneLine, Early, Gone, Closed, NoSpawn, Bare
<1>8. Worked'
  BY <1>1, <1>2, <1>3, <1>4
  DEF Worked, Launched, OneLine, Controlled, Bound, Early, Gone, Closed, NoSpawn
<1>9. Closed'
  BY <1>1, <1>2, <1>3, <1>4
  DEF Closed, NoSpawn, Terminal, Launched, OneLine, Controlled, Worked, Bound, Early, Gone
<1>10. Recovering'
  <2>1. \A r \in Recoverers : Informed(r)'
    BY <1>1, <1>2, <1>3, <1>4, InformedKept
  <2> QED BY <1>1, <1>2, <1>3, <1>4, <2>1 DEF Recovering, Worked, Early, Launched, Bare
<1>11. Prompted'
  BY <1>1, <1>2, <1>3, <1>4 DEF Prompted
<1> QED BY <1>5, <1>6, <1>7, <1>8, <1>9, <1>10, <1>11

(* The controller ends its worker, or cannot.                              *)
LEMMA WorkerKilledKeeps ==
  ASSUME TypeOK, Facts, NEW a \in Attempts, pc.ctl[a] # "none", WorkerKilled(a), Quiet
  PROVE  Facts'
<1> USE DEF Facts
<1>1. /\ pc'.launcher = pc.launcher /\ pc'.prv = pc.prv
      /\ pc'.ctl[a] = "gone"
      /\ \A b \in Attempts : b # a => pc'.ctl[b] = pc.ctl[b]
      /\ pc'.wrk[a] = IF pc.wrk[a] = "none" THEN "none" ELSE "gone"
      /\ \A b \in Attempts : b # a => pc'.wrk[b] = pc.wrk[b]
  BY KillsMoves DEF WorkerKilled, Moved, Stay, Procs
<1>2. /\ Keeps(job, job', {"wi", "notLaunched"})
      /\ job'.wi = job.wi \/ (job'.wi = "no-child" /\ job.state = "controller-started")
  BY WorkerNoChildWrites DEF WorkerKilled, CanWorkerNoChild, Writes, TypeOK, Keeps
<1>3. /\ job'.status = job.status /\ job'.state = job.state /\ job'.fence = job.fence
      /\ job'.auth = job.auth /\ job'.authorized = job.authorized
      /\ job'.consumed = job.consumed /\ job'.ctl = job.ctl /\ job'.wrk = job.wrk
      /\ job'.prv = job.prv /\ job'.gen = job.gen /\ job'.ci = job.ci
      /\ job'.pi = job.pi /\ job'.ccp = job.ccp /\ job'.uw = job.uw /\ job'.up = job.up
      /\ job'.cf = job.cf
  BY <1>2 DEF Keeps, Fields
<1>4. guard' = guard /\ cancelled' = cancelled /\ wiped' = wiped /\ prompts' = prompts /\ rec' = rec
  BY DEF Quiet
<1>5. \A b \in Attempts : b # a => pc.ctl[b] = "none" /\ pc.wrk[b] = "none" /\ pc.prv[b] = "none"
  BY <1>1, <1>2, <1>3, <1>4 DEF OneLine
<1>6. Launched'
  BY <1>1, <1>2, <1>3, <1>4, <1>5 DEF Launched, Early, Bare, OneLine, Controlled
<1>7. OneLine'
  BY <1>1, <1>2, <1>3, <1>4, <1>5 DEF OneLine, Launched
<1>8. Controlled'
  BY <1>1, <1>2, <1>3, <1>4, <1>5
  DEF Controlled, Launched, OneLine, Early, Gone, Closed, NoSpawn, Bare
<1>9. Worked'
  BY <1>1, <1>2, <1>3, <1>4, <1>5
  DEF Worked, Launched, OneLine, Controlled, Bound, Early, Gone, Closed, NoSpawn
<1>10. Closed'
  BY <1>1, <1>2, <1>3, <1>4, <1>5
  DEF Closed, NoSpawn, Terminal, Launched, OneLine, Controlled, Worked, Bound, Early, Gone
<1>11. Recovering'
  <2>1. \A r \in Recoverers : Informed(r)'
    BY <1>1, <1>2, <1>3, <1>4, <1>5, InformedKept
  <2> QED BY <1>1, <1>2, <1>3, <1>4, <1>5, <2>1 DEF Recovering, Worked, Early, Launched, Bare
<1>12. Prompted'
  BY <1>1, <1>2, <1>3, <1>4, <1>5 DEF Prompted
<1> QED BY <1>6, <1>7, <1>8, <1>9, <1>10, <1>11, <1>12

LEMMA ControllerNoWorkerKeeps ==
  ASSUME TypeOK, Facts, NEW a \in Attempts, ControllerSpawns(a),
         Writes(CanWorkerNoChild(job, a), WorkerNoChild(job)), Goes("ctl", a, "gone")
  PROVE  Facts'
<1> USE DEF Facts
<1>1. /\ pc'.launcher = pc.launcher /\ pc'.wrk = pc.wrk /\ pc'.prv = pc.prv
      /\ pc'.ctl[a] = "gone"
      /\ \A b \in Attempts : b # a => pc'.ctl[b] = pc.ctl[b]
  BY GoesMoves DEF Moved, Stay, Procs
<1>2. /\ Keeps(job, job', {"wi", "notLaunched"})
      /\ job'.wi = job.wi \/ (job'.wi = "no-child" /\ job.state = "controller-started")
  BY WorkerNoChildWrites DEF CanWorkerNoChild, Writes, TypeOK, Keeps
<1>3. /\ job'.status = job.status /\ job'.state = job.state /\ job'.fence = job.fence
      /\ job'.auth = job.auth /\ job'.authorized = job.authorized
      /\ job'.consumed = job.consumed /\ job'.ctl = job.ctl /\ job'.wrk = job.wrk
      /\ job'.prv = job.prv /\ job'.gen = job.gen /\ job'.ci = job.ci
      /\ job'.pi = job.pi /\ job'.ccp = job.ccp /\ job'.uw = job.uw /\ job'.up = job.up
      /\ job'.cf = job.cf
  BY <1>2 DEF Keeps, Fields
<1>4. guard' = guard /\ cancelled' = cancelled /\ wiped' = wiped /\ prompts' = prompts /\ rec' = rec
  BY DEF ControllerSpawns, Quiet
<1>5. pc.ctl[a] = "prepared" /\ pc.wrk[a] = "none"
  BY DEF ControllerSpawns, At, Controlled
<1>6. \A b \in Attempts : pc.wrk[b] = "none" /\ pc.prv[b] = "none"
  BY <1>1, <1>2, <1>3, <1>4, <1>5 DEF OneLine
<1>7. Launched'
  BY <1>1, <1>2, <1>3, <1>4, <1>5, <1>6 DEF Launched, Early, Bare, OneLine, Controlled
<1>8. OneLine'
  BY <1>1, <1>2, <1>3, <1>4, <1>5, <1>6 DEF OneLine, Launched
<1>9. Controlled'
  BY <1>1, <1>2, <1>3, <1>4, <1>5, <1>6
  DEF Controlled, Launched, OneLine, Early, Gone, Closed, NoSpawn, Bare
<1>10. Worked'
  BY <1>1, <1>2, <1>3, <1>4, <1>5, <1>6
  DEF Worked, Launched, OneLine, Controlled, Bound, Early, Gone, Closed, NoSpawn
<1>11. Closed'
  BY <1>1, <1>2, <1>3, <1>4, <1>5, <1>6
  DEF Closed, NoSpawn, Terminal, Launched, OneLine, Controlled, Worked, Bound, Early, Gone
<1>12. Recovering'
  <2>1. \A r \in Recoverers : Informed(r)'
    BY <1>1, <1>2, <1>3, <1>4, <1>5, <1>6, InformedKept
  <2> QED BY <1>1, <1>2, <1>3, <1>4, <1>5, <1>6, <2>1 DEF Recovering, Worked, Early, Launched, Bare
<1>13. Prompted'
  BY <1>1, <1>2, <1>3, <1>4, <1>5, <1>6 DEF Prompted
<1> QED BY <1>7, <1>8, <1>9, <1>10, <1>11, <1>12, <1>13

LEMMA WorkerUnsettledKeeps ==
  ASSUME TypeOK, Facts, NEW a \in Attempts, NEW w \in Witnesses, pc.ctl[a] # "none",
         WorkerUnsettled(a, w), Quiet
  PROVE  Facts'
<1> USE DEF Facts
<1>1. /\ pc'.launcher = pc.launcher /\ pc'.wrk = pc.wrk /\ pc'.prv = pc.prv
      /\ pc'.ctl[a] = "gone"
      /\ \A b \in Attempts : b # a => pc'.ctl[b] = pc.ctl[b]
  BY GoesMoves DEF WorkerUnsettled, Moved, Stay, Procs
<1>2. /\ Keeps(job, job', {"uw", "blocked", "notLaunched"})
      /\ job'.uw = job.uw \/ job.state = "controller-started"
  BY UnsettleWorkerWrites DEF WorkerUnsettled, CanUnsettleWorker, Writes, TypeOK, Keeps
<1>3. /\ job'.status = job.status /\ job'.state = job.state /\ job'.fence = job.fence
      /\ job'.auth = job.auth /\ job'.authorized = job.authorized
      /\ job'.consumed = job.consumed /\ job'.ctl = job.ctl /\ job'.wrk = job.wrk
      /\ job'.prv = job.prv /\ job'.gen = job.gen /\ job'.ci = job.ci
      /\ job'.wi = job.wi /\ job'.pi = job.pi /\ job'.ccp = job.ccp /\ job'.up = job.up
      /\ job'.cf = job.cf
  BY <1>2 DEF Keeps, Fields
<1>4. guard' = guard /\ cancelled' = cancelled /\ wiped' = wiped /\ prompts' = prompts /\ rec' = rec
  BY DEF Quiet
<1>5. Launched'
  BY <1>1, <1>2, <1>3, <1>4 DEF Launched, Early, Bare, OneLine, Controlled
<1>6. OneLine'
  BY <1>1, <1>2, <1>3, <1>4 DEF OneLine, Launched
<1>7. Controlled'
  BY <1>1, <1>2, <1>3, <1>4 DEF Controlled, Launched, OneLine, Early, Gone, Closed, NoSpawn, Bare
<1>8. Worked'
  BY <1>1, <1>2, <1>3, <1>4
  DEF Worked, Launched, OneLine, Controlled, Bound, Early, Gone, Closed, NoSpawn
<1>9. Closed'
  BY <1>1, <1>2, <1>3, <1>4
  DEF Closed, NoSpawn, Terminal, Launched, OneLine, Controlled, Worked, Bound, Early, Gone
<1>10. Recovering'
  <2>1. \A r \in Recoverers : Informed(r)'
    BY <1>1, <1>2, <1>3, <1>4, InformedKept
  <2> QED BY <1>1, <1>2, <1>3, <1>4, <2>1 DEF Recovering, Worked, Early, Launched, Bare
<1>11. Prompted'
  BY <1>1, <1>2, <1>3, <1>4 DEF Prompted
<1> QED BY <1>5, <1>6, <1>7, <1>8, <1>9, <1>10, <1>11

(* The controller publishes its worker.                                    *)
LEMMA ControllerPublishesKeeps ==
  ASSUME TypeOK, Facts, NEW a \in Attempts, CanWorkerStarted(job, a),
         job.state = "controller-started", job' = WorkerStarted(job, a), pc.ctl[a] = "registering",
         Goes("ctl", a, "watching"), Quiet
  PROVE  Facts'
<1> USE DEF Facts
<1>1. /\ pc'.launcher = pc.launcher /\ pc'.wrk = pc.wrk /\ pc'.prv = pc.prv
      /\ pc'.ctl[a] = "watching"
      /\ \A b \in Attempts : b # a => pc'.ctl[b] = pc.ctl[b]
  BY GoesMoves DEF Moved, Stay, Procs
<1>2. /\ Keeps(job, job', {"state", "wi", "wrk"})
      /\ job'.state = "worker-started" /\ job'.wi = "registered" /\ job'.wrk = a
  BY WorkerStartedWrites DEF TypeOK
<1>3. /\ job'.status = job.status /\ job'.fence = job.fence /\ job'.auth = job.auth
      /\ job'.authorized = job.authorized /\ job'.consumed = job.consumed
      /\ job'.ctl = job.ctl /\ job'.prv = job.prv /\ job'.gen = job.gen
      /\ job'.ci = job.ci /\ job'.pi = job.pi /\ job'.ccp = job.ccp /\ job'.uw = job.uw
      /\ job'.up = job.up /\ job'.cf = job.cf
  BY <1>2 DEF Keeps, Fields
<1>4. guard' = guard /\ cancelled' = cancelled /\ wiped' = wiped /\ prompts' = prompts /\ rec' = rec
  BY DEF Quiet
<1>5. /\ job.fence = a /\ job.ctl = a /\ job.ci = "registered" /\ job.ccp = "none"
      /\ job.uw = "none" /\ job.cf = "none" /\ job.authorized /\ job.auth = a
      /\ ~job.consumed /\ job.prv = "none" /\ job.gen = 0 /\ job.status = "active"
  BY ContractSays DEF TypeOK, CanWorkerStarted, Advances, NotCleanupClaimed, Unfenced, Current,
    Terminal, WithController, Controlled
<1>6. \A b \in Attempts : pc.prv[b] = "none"
  BY DEF Worked
<1>7. \A b \in Attempts : b # a => pc.ctl[b] = "none" /\ pc.wrk[b] = "none"
  BY <1>1, <1>2, <1>3, <1>4, <1>5, <1>6 DEF OneLine
<1>8. ~wiped /\ pc.wrk[a] # "none" /\ \A b \in Attempts :
        \/ pc.wrk[b] \in {"none", "boot", "gone"}
        \/ pc.wrk[b] \notin Bound /\ pc.wrk[b] \notin {"running", "finalizing"}
  BY <1>1, <1>2, <1>3, <1>4, <1>5, <1>6, <1>7 DEF Closed, OneLine, Worked
<1>9. Launched'
  BY <1>1, <1>2, <1>3, <1>4, <1>5, <1>6, <1>7, <1>8 DEF Launched, Early, Bare, OneLine, Controlled
<1>10. OneLine'
  BY <1>1, <1>2, <1>3, <1>4, <1>5, <1>6, <1>7, <1>8 DEF OneLine, Launched
<1>11. Controlled'
  BY <1>1, <1>2, <1>3, <1>4, <1>5, <1>6, <1>7, <1>8
  DEF Controlled, Launched, OneLine, Early, Gone, Closed, NoSpawn, Bare
<1>12. Worked'
  BY <1>1, <1>2, <1>3, <1>4, <1>5, <1>6, <1>7, <1>8
  DEF Worked, Launched, OneLine, Controlled, Bound, Early, Gone, Closed, NoSpawn
<1>13. Closed'
  BY <1>1, <1>2, <1>3, <1>4, <1>5, <1>6, <1>7, <1>8
  DEF Closed, NoSpawn, Terminal, Launched, OneLine, Controlled, Worked, Bound, Early, Gone
<1>14. Recovering'
  <2>1. \A r \in Recoverers : Informed(r)'
    BY <1>1, <1>2, <1>3, <1>4, <1>5, <1>6, <1>7, <1>8, InformedKept
  <2> QED BY <1>1, <1>2, <1>3, <1>4, <1>5, <1>6, <1>7, <1>8, <2>1
    DEF Recovering, Worked, Early, Launched, Bare
<1>15. Prompted'
  BY <1>1, <1>2, <1>3, <1>4, <1>5, <1>6, <1>7, <1>8 DEF Prompted
<1> QED BY <1>9, <1>10, <1>11, <1>12, <1>13, <1>14, <1>15

(* The worker registers itself, or finds itself registered.                *)
LEMMA WorkerRegistersKeeps ==
  ASSUME TypeOK, Facts, NEW a \in Attempts, WorkerRegisters(a), CanWorkerStarted(job, a),
         job.state = "controller-started", Writes(TRUE, WorkerStarted(job, a)),
         Goes("wrk", a, "owned")
  PROVE  Facts'
<1> USE DEF Facts
<1>1. /\ pc'.launcher = pc.launcher /\ pc'.ctl = pc.ctl /\ pc'.prv = pc.prv
      /\ pc'.wrk[a] = "owned"
      /\ \A b \in Attempts : b # a => pc'.wrk[b] = pc.wrk[b]
  BY GoesMoves DEF Moved, Stay, Procs
<1>2. /\ Keeps(job, job', {"state", "wi", "wrk"})
      /\ job'.state = "worker-started" /\ job'.wi = "registered" /\ job'.wrk = a
  BY WorkerStartedWrites DEF TypeOK, Writes
<1>3. /\ job'.status = job.status /\ job'.fence = job.fence /\ job'.auth = job.auth
      /\ job'.authorized = job.authorized /\ job'.consumed = job.consumed
      /\ job'.ctl = job.ctl /\ job'.prv = job.prv /\ job'.gen = job.gen
      /\ job'.ci = job.ci /\ job'.pi = job.pi /\ job'.ccp = job.ccp /\ job'.uw = job.uw
      /\ job'.up = job.up /\ job'.cf = job.cf
  BY <1>2 DEF Keeps, Fields
<1>4. guard' = guard /\ cancelled' = cancelled /\ wiped' = wiped /\ prompts' = prompts /\ rec' = rec
  BY DEF WorkerRegisters, Quiet
<1>5. /\ job.fence = a /\ job.ctl = a /\ job.ci = "registered" /\ job.ccp = "none"
      /\ job.uw = "none" /\ job.cf = "none" /\ job.authorized /\ job.auth = a
      /\ ~job.consumed /\ job.prv = "none" /\ job.gen = 0 /\ job.status = "active"
  BY ContractSays DEF TypeOK, CanWorkerStarted, Advances, NotCleanupClaimed, Unfenced, Current,
    Terminal, WithController, Controlled
<1>6. \A b \in Attempts : pc.prv[b] = "none"
  BY DEF Worked
<1>7. \A b \in Attempts : b # a => pc.ctl[b] = "none" /\ pc.wrk[b] = "none"
  BY <1>1, <1>2, <1>3, <1>4, <1>5, <1>6 DEF OneLine
<1>8. ~wiped /\ pc.wrk[a] = "boot"
  BY <1>1, <1>2, <1>3, <1>4, <1>5, <1>6, <1>7 DEF WorkerRegisters, At, Closed
<1>9. Launched'
  BY <1>1, <1>2, <1>3, <1>4, <1>5, <1>6, <1>7, <1>8 DEF Launched, Early, Bare, OneLine, Controlled
<1>10. OneLine'
  BY <1>1, <1>2, <1>3, <1>4, <1>5, <1>6, <1>7, <1>8 DEF OneLine, Launched
<1>11. Controlled'
  BY <1>1, <1>2, <1>3, <1>4, <1>5, <1>6, <1>7, <1>8
  DEF Controlled, Launched, OneLine, Early, Gone, Closed, NoSpawn, Bare
<1>12. Worked'
  BY <1>1, <1>2, <1>3, <1>4, <1>5, <1>6, <1>7, <1>8
  DEF Worked, Launched, OneLine, Controlled, Bound, Early, Gone, Closed, NoSpawn
<1>13. Closed'
  BY <1>1, <1>2, <1>3, <1>4, <1>5, <1>6, <1>7, <1>8
  DEF Closed, NoSpawn, Terminal, Launched, OneLine, Controlled, Worked, Bound, Early, Gone
<1>14. Recovering'
  <2>1. \A r \in Recoverers : Informed(r)'
    BY <1>1, <1>2, <1>3, <1>4, <1>5, <1>6, <1>7, <1>8, InformedKept
  <2> QED BY <1>1, <1>2, <1>3, <1>4, <1>5, <1>6, <1>7, <1>8, <2>1
    DEF Recovering, Worked, Early, Launched, Bare
<1>15. Prompted'
  BY <1>1, <1>2, <1>3, <1>4, <1>5, <1>6, <1>7, <1>8 DEF Prompted
<1> QED BY <1>9, <1>10, <1>11, <1>12, <1>13, <1>14, <1>15

LEMMA WorkerFindsItselfKeeps ==
  ASSUME TypeOK, Facts, NEW a \in Attempts, WorkerRegisters(a), job.state = "worker-started",
         job' = job, Goes("wrk", a, "owned")
  PROVE  Facts'
<1> USE DEF Facts
<1>1. /\ pc'.launcher = pc.launcher /\ pc'.ctl = pc.ctl /\ pc'.prv = pc.prv
      /\ pc'.wrk[a] = "owned"
      /\ \A b \in Attempts : b # a => pc'.wrk[b] = pc.wrk[b]
  BY GoesMoves DEF Moved, Stay, Procs
<1>2. job' = job
  OBVIOUS
<1>3. guard' = guard /\ cancelled' = cancelled /\ wiped' = wiped /\ prompts' = prompts /\ rec' = rec
  BY DEF WorkerRegisters, Quiet
<1>4. pc.wrk[a] = "boot" /\ ~wiped
  BY DEF WorkerRegisters, At, Closed, NoSpawn
<1>5. Launched'
  BY <1>1, <1>2, <1>3, <1>4 DEF Launched, Early, Bare, OneLine, Controlled
<1>6. OneLine'
  BY <1>1, <1>2, <1>3, <1>4 DEF OneLine, Launched
<1>7. Controlled'
  BY <1>1, <1>2, <1>3, <1>4 DEF Controlled, Launched, OneLine, Early, Gone, Closed, NoSpawn, Bare
<1>8. Worked'
  BY <1>1, <1>2, <1>3, <1>4
  DEF Worked, Launched, OneLine, Controlled, Bound, Early, Gone, Closed, NoSpawn
<1>9. Closed'
  BY <1>1, <1>2, <1>3, <1>4
  DEF Closed, NoSpawn, Terminal, Launched, OneLine, Controlled, Worked, Bound, Early, Gone
<1>10. Recovering'
  <2>1. \A r \in Recoverers : Informed(r)'
    BY <1>1, <1>2, <1>3, <1>4, InformedKept
  <2> QED BY <1>1, <1>2, <1>3, <1>4, <2>1 DEF Recovering, Worked, Early, Launched, Bare
<1>11. Prompted'
  BY <1>1, <1>2, <1>3, <1>4 DEF Prompted
<1> QED BY <1>5, <1>6, <1>7, <1>8, <1>9, <1>10, <1>11

(* The worker leads the record on to its provider.                         *)
LEMMA WorkerConsumesKeeps ==
  ASSUME TypeOK, Facts, NEW a \in Attempts, WorkerConsumes(a), CanConsume(job, a)
  PROVE  Facts'
<1> USE DEF Facts
<1>1. /\ pc'.launcher = pc.launcher /\ pc'.ctl = pc.ctl /\ pc'.prv = pc.prv
      /\ pc'.wrk[a] = "ready"
      /\ \A b \in Attempts : b # a => pc'.wrk[b] = pc.wrk[b]
  BY GoesMoves DEF WorkerConsumes, Moved, Stay, Procs
<1>2. /\ Keeps(job, job', {"consumed", "authorized", "blocked"})
      /\ job'.consumed /\ ~job'.authorized
  BY ConsumeWrites DEF WorkerConsumes, TypeOK, Writes
<1>3. /\ job'.status = job.status /\ job'.state = job.state /\ job'.fence = job.fence
      /\ job'.auth = job.auth /\ job'.ctl = job.ctl /\ job'.wrk = job.wrk
      /\ job'.prv = job.prv /\ job'.gen = job.gen /\ job'.ci = job.ci
      /\ job'.wi = job.wi /\ job'.pi = job.pi /\ job'.ccp = job.ccp /\ job'.uw = job.uw
      /\ job'.up = job.up /\ job'.cf = job.cf
  BY <1>2 DEF Keeps, Fields
<1>4. guard' = guard /\ cancelled' = cancelled /\ wiped' = wiped /\ prompts' = prompts /\ rec' = rec
  BY DEF WorkerConsumes, Quiet
<1>5. pc.wrk[a] = "owned" /\ job.state = "worker-started" /\ ~wiped
  BY DEF WorkerConsumes, At, CanConsume, Closed, NoSpawn
<1>6. Launched'
  BY <1>1, <1>2, <1>3, <1>4, <1>5 DEF Launched, Early, Bare, OneLine, Controlled
<1>7. OneLine'
  BY <1>1, <1>2, <1>3, <1>4, <1>5 DEF OneLine, Launched
<1>8. Controlled'
  BY <1>1, <1>2, <1>3, <1>4, <1>5
  DEF Controlled, Launched, OneLine, Early, Gone, Closed, NoSpawn, Bare
<1>9. Worked'
  BY <1>1, <1>2, <1>3, <1>4, <1>5
  DEF Worked, Launched, OneLine, Controlled, Bound, Early, Gone, Closed, NoSpawn
<1>10. Closed'
  BY <1>1, <1>2, <1>3, <1>4, <1>5
  DEF Closed, NoSpawn, Terminal, Launched, OneLine, Controlled, Worked, Bound, Early, Gone
<1>11. Recovering'
  <2>1. \A r \in Recoverers : Informed(r)'
    BY <1>1, <1>2, <1>3, <1>4, <1>5, InformedKept
  <2> QED BY <1>1, <1>2, <1>3, <1>4, <1>5, <2>1 DEF Recovering, Worked, Early, Launched, Bare
<1>12. Prompted'
  BY <1>1, <1>2, <1>3, <1>4, <1>5 DEF Prompted
<1> QED BY <1>6, <1>7, <1>8, <1>9, <1>10, <1>11, <1>12

LEMMA WorkerPreparesKeeps ==
  ASSUME TypeOK, Facts, NEW a \in Attempts, WorkerPrepares(a), ~cancelled,
         CanPrepareProvider(job, a, guard)
  PROVE  Facts'
<1> USE DEF Facts
<1>1. /\ pc'.launcher = pc.launcher /\ pc'.ctl = pc.ctl /\ pc'.prv = pc.prv
      /\ pc'.wrk[a] = "prepared"
      /\ \A b \in Attempts : b # a => pc'.wrk[b] = pc.wrk[b]
  BY GoesMoves DEF WorkerPrepares, Moved, Stay, Procs
<1>2. /\ Keeps(job, job', {"pi", "notLaunched"})
      /\ job'.pi = "pending"
  BY PrepareProviderWrites DEF WorkerPrepares, TypeOK, Writes
<1>3. /\ job'.status = job.status /\ job'.state = job.state /\ job'.fence = job.fence
      /\ job'.auth = job.auth /\ job'.authorized = job.authorized
      /\ job'.consumed = job.consumed /\ job'.ctl = job.ctl /\ job'.wrk = job.wrk
      /\ job'.prv = job.prv /\ job'.gen = job.gen /\ job'.ci = job.ci
      /\ job'.wi = job.wi /\ job'.ccp = job.ccp /\ job'.uw = job.uw /\ job'.up = job.up
      /\ job'.cf = job.cf
  BY <1>2 DEF Keeps, Fields
<1>4. guard' = guard /\ cancelled' = cancelled /\ wiped' = wiped /\ prompts' = prompts /\ rec' = rec
  BY DEF WorkerPrepares, Quiet
<1>5. pc.wrk[a] = "ready" /\ job.state = "worker-started" /\ job.pi = "none" /\ ~wiped
  BY DEF WorkerPrepares, At, CanPrepareProvider, Closed, NoSpawn
<1>6. Launched'
  BY <1>1, <1>2, <1>3, <1>4, <1>5 DEF Launched, Early, Bare, OneLine, Controlled
<1>7. OneLine'
  BY <1>1, <1>2, <1>3, <1>4, <1>5 DEF OneLine, Launched
<1>8. Controlled'
  BY <1>1, <1>2, <1>3, <1>4, <1>5
  DEF Controlled, Launched, OneLine, Early, Gone, Closed, NoSpawn, Bare
<1>9. Worked'
  BY <1>1, <1>2, <1>3, <1>4, <1>5
  DEF Worked, Launched, OneLine, Controlled, Bound, Early, Gone, Closed, NoSpawn
<1>10. Closed'
  BY <1>1, <1>2, <1>3, <1>4, <1>5
  DEF Closed, NoSpawn, Terminal, Launched, OneLine, Controlled, Worked, Bound, Early, Gone
<1>11. Recovering'
  <2>1. \A r \in Recoverers : Informed(r)'
    BY <1>1, <1>2, <1>3, <1>4, <1>5, InformedKept
  <2> QED BY <1>1, <1>2, <1>3, <1>4, <1>5, <2>1 DEF Recovering, Worked, Early, Launched, Bare
<1>12. Prompted'
  BY <1>1, <1>2, <1>3, <1>4, <1>5 DEF Prompted
<1> QED BY <1>6, <1>7, <1>8, <1>9, <1>10, <1>11, <1>12

LEMMA WorkerSpawnsKeeps ==
  ASSUME TypeOK, Facts, NEW a \in Attempts, WorkerSpawns(a),
         pc' = [pc EXCEPT !.prv[a] = "boot", !.wrk[a] = "spawned"], job' = job, guard' = guard
  PROVE  Facts'
<1> USE DEF Facts
<1>1. /\ pc'.wrk[a] = "spawned"
      /\ \A b \in Attempts : b # a => pc'.wrk[b] = pc.wrk[b]
      /\ pc'.prv[a] = "boot"
      /\ \A b \in Attempts : b # a => pc'.prv[b] = pc.prv[b]
      /\ pc'.launcher = pc.launcher /\ pc'.ctl = pc.ctl
  BY DEF TypeOK, Procs
<1>2. job' = job
  OBVIOUS
<1>3. guard' = guard /\ cancelled' = cancelled /\ wiped' = wiped /\ prompts' = prompts /\ rec' = rec
  BY DEF WorkerSpawns
<1>4. pc.wrk[a] = "prepared" /\ job.state = "worker-started" /\ job.prv = "none" /\ ~wiped
  BY DEF WorkerSpawns, At, Worked, Bound, Closed, NoSpawn
<1>5. Launched'
  BY <1>1, <1>2, <1>3, <1>4 DEF Launched, Early, Bare, OneLine, Controlled
<1>6. OneLine'
  BY <1>1, <1>2, <1>3, <1>4 DEF OneLine, Launched
<1>7. Controlled'
  BY <1>1, <1>2, <1>3, <1>4 DEF Controlled, Launched, OneLine, Early, Gone, Closed, NoSpawn, Bare
<1>8. Worked'
  BY <1>1, <1>2, <1>3, <1>4
  DEF Worked, Launched, OneLine, Controlled, Bound, Early, Gone, Closed, NoSpawn
<1>9. Closed'
  BY <1>1, <1>2, <1>3, <1>4
  DEF Closed, NoSpawn, Terminal, Launched, OneLine, Controlled, Worked, Bound, Early, Gone
<1>10. Recovering'
  <2>1. \A r \in Recoverers : Informed(r)'
    BY <1>1, <1>2, <1>3, <1>4, InformedKept
  <2> QED BY <1>1, <1>2, <1>3, <1>4, <2>1 DEF Recovering, Worked, Early, Launched, Bare
<1>11. Prompted'
  BY <1>1, <1>2, <1>3, <1>4 DEF Prompted
<1> QED BY <1>5, <1>6, <1>7, <1>8, <1>9, <1>10, <1>11

(* A provider that could not be identified.                                *)
LEMMA UnsettlesProviderKeeps ==
  ASSUME TypeOK, Facts, NEW a \in Attempts, pc.wrk[a] = "spawned", job' = UnsettleProvider(job),
         CanUnsettleProvider(job, a), Goes("wrk", a, "failing"), guard' = guard,
         UNCHANGED <<cancelled, rec, wiped, prompts>>
  PROVE  Facts'
<1> USE DEF Facts
<1>1. /\ pc'.launcher = pc.launcher /\ pc'.ctl = pc.ctl /\ pc'.prv = pc.prv
      /\ pc'.wrk[a] = "failing"
      /\ \A b \in Attempts : b # a => pc'.wrk[b] = pc.wrk[b]
  BY GoesMoves DEF Moved, Stay, Procs
<1>2. /\ Keeps(job, job', {"prv", "up", "notLaunched", "blocked"})
      /\ job'.prv = "observe"
  BY UnsettleProviderWrites DEF TypeOK
<1>3. /\ job'.status = job.status /\ job'.state = job.state /\ job'.fence = job.fence
      /\ job'.auth = job.auth /\ job'.authorized = job.authorized
      /\ job'.consumed = job.consumed /\ job'.ctl = job.ctl /\ job'.wrk = job.wrk
      /\ job'.gen = job.gen /\ job'.ci = job.ci /\ job'.wi = job.wi /\ job'.pi = job.pi
      /\ job'.ccp = job.ccp /\ job'.uw = job.uw /\ job'.cf = job.cf
  BY <1>2 DEF Keeps, Fields
<1>4. guard' = guard /\ cancelled' = cancelled /\ wiped' = wiped /\ prompts' = prompts /\ rec' = rec
  OBVIOUS
<1>5. job.state = "worker-started" /\ ~wiped
  BY DEF CanUnsettleProvider, Closed, NoSpawn
<1>6. Launched'
  BY <1>1, <1>2, <1>3, <1>4, <1>5 DEF Launched, Early, Bare, OneLine, Controlled
<1>7. OneLine'
  BY <1>1, <1>2, <1>3, <1>4, <1>5 DEF OneLine, Launched
<1>8. Controlled'
  BY <1>1, <1>2, <1>3, <1>4, <1>5
  DEF Controlled, Launched, OneLine, Early, Gone, Closed, NoSpawn, Bare
<1>9. Worked'
  BY <1>1, <1>2, <1>3, <1>4, <1>5
  DEF Worked, Launched, OneLine, Controlled, Bound, Early, Gone, Closed, NoSpawn
<1>10. Closed'
  BY <1>1, <1>2, <1>3, <1>4, <1>5
  DEF Closed, NoSpawn, Terminal, Launched, OneLine, Controlled, Worked, Bound, Early, Gone
<1>11. Recovering'
  <2>1. \A r \in Recoverers : Informed(r)'
    BY <1>1, <1>2, <1>3, <1>4, <1>5, InformedKept
  <2> QED BY <1>1, <1>2, <1>3, <1>4, <1>5, <2>1 DEF Recovering, Worked, Early, Launched, Bare
<1>12. Prompted'
  BY <1>1, <1>2, <1>3, <1>4, <1>5 DEF Prompted
<1> QED BY <1>6, <1>7, <1>8, <1>9, <1>10, <1>11, <1>12

(* The one step that gives the prompt.                                     *)
LEMMA PromotedKeeps ==
  ASSUME TypeOK, Facts, NEW a \in Attempts, CanProviderStarted(job, a),
         job' = ProviderStarted(job), guard # 0 \/ pc.wrk[a] = "waiting",
         (pc' = pc /\ pc.wrk[a] = "gone") \/ (Goes("wrk", a, "running") /\ pc.wrk[a] = "waiting"),
         guard' = guard, UNCHANGED <<cancelled, wiped>>, prompts' \in {prompts, prompts + 1},
         \A r \in Recoverers : rec'[r] = rec[r] \/ Informed(r)'
  PROVE  Facts'
<1> USE DEF Facts
<1>1. /\ pc'.launcher = pc.launcher /\ pc'.ctl = pc.ctl /\ pc'.prv = pc.prv
      /\ pc'.wrk[a] \in {"running", "gone"} /\ pc.wrk[a] \in {"waiting", "gone"}
      /\ pc.wrk[a] = "gone" => pc'.wrk[a] = "gone"
      /\ \A b \in Attempts : b # a => pc'.wrk[b] = pc.wrk[b]
  BY GoesMoves DEF Moved, Stay, Procs
<1>2. /\ Keeps(job, job', {"state", "pi", "prv", "gen", "notLaunched"})
      /\ job'.state = "provider-started" /\ job'.pi = "registered" /\ job'.prv = "signal"
           /\ job'.gen = 1
  BY ProviderStartedWrites DEF TypeOK
<1>3. /\ job'.status = job.status /\ job'.fence = job.fence /\ job'.auth = job.auth
      /\ job'.authorized = job.authorized /\ job'.consumed = job.consumed
      /\ job'.ctl = job.ctl /\ job'.wrk = job.wrk /\ job'.ci = job.ci
      /\ job'.wi = job.wi /\ job'.ccp = job.ccp /\ job'.uw = job.uw /\ job'.up = job.up
      /\ job'.cf = job.cf
  BY <1>2 DEF Keeps, Fields
<1>4. guard' = guard /\ cancelled' = cancelled /\ wiped' = wiped
  OBVIOUS
<1>5. /\ job.state = "worker-started" /\ job.fence = a /\ job.ccp = "none" /\ job.status = "active"
      /\ job.pi \in {"pending", "registered"} /\ ~wiped
  BY <1>1, <1>2, <1>3, <1>4
  DEF CanProviderStarted, NotCleanupClaimed, Current, Terminal, Closed, NoSpawn
<1>6. \A b \in Attempts : b # a => pc.ctl[b] = "none" /\ pc.wrk[b] = "none" /\ pc.prv[b] = "none"
  BY <1>1, <1>2, <1>3, <1>4, <1>5 DEF OneLine
<1>7. prompts = 0 /\ prompts' \in {0, 1}
  BY <1>1, <1>2, <1>3, <1>4, <1>5, <1>6 DEF Prompted, TypeOK
<1>8. Launched'
  BY <1>1, <1>2, <1>3, <1>4, <1>5, <1>6, <1>7 DEF Launched, Early, Bare, OneLine, Controlled
<1>9. OneLine'
  BY <1>1, <1>2, <1>3, <1>4, <1>5, <1>6, <1>7 DEF OneLine, Launched
<1>10. Controlled'
  BY <1>1, <1>2, <1>3, <1>4, <1>5, <1>6, <1>7
  DEF Controlled, Launched, OneLine, Early, Gone, Closed, NoSpawn, Bare
<1>11. Worked'
  BY <1>1, <1>2, <1>3, <1>4, <1>5, <1>6, <1>7
  DEF Worked, Launched, OneLine, Controlled, Bound, Early, Gone, Closed, NoSpawn
<1>12. Closed'
  BY <1>1, <1>2, <1>3, <1>4, <1>5, <1>6, <1>7
  DEF Closed, NoSpawn, Terminal, Launched, OneLine, Controlled, Worked, Bound, Early, Gone
<1>13. Recovering'
  <2>1. \A r \in Recoverers : Informed(r)'
    BY <1>1, <1>2, <1>3, <1>4, <1>5, <1>6, <1>7, InformedKept
  <2> QED BY <1>1, <1>2, <1>3, <1>4, <1>5, <1>6, <1>7, <2>1
    DEF Recovering, Worked, Early, Launched, Bare
<1>14. Prompted'
  BY <1>1, <1>2, <1>3, <1>4, <1>5, <1>6, <1>7 DEF Prompted
<1> QED BY <1>8, <1>9, <1>10, <1>11, <1>12, <1>13, <1>14

(* The ends of a worker.                                                   *)
LEMMA WorkerFinalizesKeeps ==
  ASSUME TypeOK, Facts, NEW a \in Attempts, WorkerFinalizes(a),
         CanSettleProviderStarted(job, a, Gone("prv", a)), job' = SettleAsIntended(job),
         wiped' = TRUE, guard' = 0
  PROVE  Facts'
<1> USE DEF Facts
<1>1. /\ pc'.launcher = pc.launcher /\ pc'.ctl = pc.ctl /\ pc'.prv = pc.prv
      /\ pc'.wrk[a] = "gone"
      /\ \A b \in Attempts : b # a => pc'.wrk[b] = pc.wrk[b]
  BY GoesMoves DEF WorkerFinalizes, Moved, Stay, Procs
<1>2. /\ Keeps(job, job', {"status", "pend", "authorized"})
      /\ job'.status # "active"
  BY SettleAsIntendedWrites DEF CanSettleProviderStarted, TypeOK
<1>3. /\ job'.state = job.state /\ job'.fence = job.fence /\ job'.auth = job.auth
      /\ job'.consumed = job.consumed /\ job'.ctl = job.ctl /\ job'.wrk = job.wrk
      /\ job'.prv = job.prv /\ job'.gen = job.gen /\ job'.ci = job.ci
      /\ job'.wi = job.wi /\ job'.pi = job.pi /\ job'.ccp = job.ccp /\ job'.uw = job.uw
      /\ job'.up = job.up /\ job'.cf = job.cf
  BY <1>2 DEF Keeps, Fields
<1>4. cancelled' = cancelled /\ wiped' /\ guard' = 0 /\ prompts' = prompts /\ rec' = rec
  BY DEF WorkerFinalizes
<1>5. job.state = "provider-started" /\ job.fence = a /\ pc.wrk[a] = "finalizing"
      /\ pc.prv[a] \in {"none", "gone"}
  BY DEF WorkerFinalizes, At, CanSettleProviderStarted, Current, Gone
<1>6. \A b \in Attempts : b # a => pc.ctl[b] = "none" /\ pc.wrk[b] = "none" /\ pc.prv[b] = "none"
  BY <1>1, <1>2, <1>3, <1>4, <1>5 DEF OneLine
<1>7. Launched'
  BY <1>1, <1>2, <1>3, <1>4, <1>5, <1>6 DEF Launched, Early, Bare, OneLine, Controlled
<1>8. OneLine'
  BY <1>1, <1>2, <1>3, <1>4, <1>5, <1>6 DEF OneLine, Launched
<1>9. Controlled'
  BY <1>1, <1>2, <1>3, <1>4, <1>5, <1>6
  DEF Controlled, Launched, OneLine, Early, Gone, Closed, NoSpawn, Bare
<1>10. Worked'
  BY <1>1, <1>2, <1>3, <1>4, <1>5, <1>6
  DEF Worked, Launched, OneLine, Controlled, Bound, Early, Gone, Closed, NoSpawn
<1>11. Closed'
  BY <1>1, <1>2, <1>3, <1>4, <1>5, <1>6
  DEF Closed, NoSpawn, Terminal, Launched, OneLine, Controlled, Worked, Bound, Early, Gone
<1>12. Recovering'
  <2>1. \A r \in Recoverers : Informed(r)'
    BY <1>1, <1>2, <1>3, <1>4, <1>5, <1>6, InformedKept
  <2> QED BY <1>1, <1>2, <1>3, <1>4, <1>5, <1>6, <2>1 DEF Recovering, Worked, Early, Launched, Bare
<1>13. Prompted'
  BY <1>1, <1>2, <1>3, <1>4, <1>5, <1>6 DEF Prompted
<1> QED BY <1>7, <1>8, <1>9, <1>10, <1>11, <1>12, <1>13

LEMMA UnboundKeeps ==
  ASSUME TypeOK, Facts, NEW a \in Attempts, WorkerRecordsFailure(a), pc.wrk[a] = "failing-unbound"
  PROVE  Facts'
<1> USE DEF Facts
<1>1. /\ pc'.launcher = pc.launcher /\ pc'.ctl = pc.ctl /\ pc'.prv = pc.prv
      /\ pc'.wrk[a] = "cleaning"
      /\ \A b \in Attempts : b # a => pc'.wrk[b] = pc.wrk[b]
  <2>1. Current(job, a) /\ job.state = "worker-started"
    BY DEF Current, Terminal, OneLine, Worked, Bound, Controlled
  <2> QED BY <2>1, GoesMoves DEF WorkerRecordsFailure, Moved, Stay, Procs
<1>2. /\ Keeps(job, job', {"prv", "blocked", "pend"})
      /\ job'.prv = job.prv \/ (job.prv = "none" /\ job'.prv # "none")
      /\ job'.prv # "none"
  <2>1. job.state = "worker-started" /\ ~Terminal(job)
    BY DEF Terminal, OneLine, Worked, Bound, Controlled
  <2>2. job' = RecordFailure(job, a, TRUE)
    BY DEF WorkerRecordsFailure, At
  <2> QED BY <2>1, <2>2, RecordFailureWrites DEF TypeOK
<1>3. /\ job'.status = job.status /\ job'.state = job.state /\ job'.fence = job.fence
      /\ job'.auth = job.auth /\ job'.authorized = job.authorized
      /\ job'.consumed = job.consumed /\ job'.ctl = job.ctl /\ job'.wrk = job.wrk
      /\ job'.gen = job.gen /\ job'.ci = job.ci /\ job'.wi = job.wi /\ job'.pi = job.pi
      /\ job'.ccp = job.ccp /\ job'.uw = job.uw /\ job'.up = job.up /\ job'.cf = job.cf
  BY <1>2 DEF Keeps, Fields
<1>4. guard' = guard /\ cancelled' = cancelled /\ wiped' = wiped /\ prompts' = prompts /\ rec' = rec
  BY DEF WorkerRecordsFailure, Quiet
<1>5. job.state = "worker-started" /\ ~wiped
  BY DEF Worked, Bound, Closed, NoSpawn
<1>6. Launched'
  BY <1>1, <1>2, <1>3, <1>4, <1>5 DEF Launched, Early, Bare, OneLine, Controlled
<1>7. OneLine'
  BY <1>1, <1>2, <1>3, <1>4, <1>5 DEF OneLine, Launched
<1>8. Controlled'
  BY <1>1, <1>2, <1>3, <1>4, <1>5
  DEF Controlled, Launched, OneLine, Early, Gone, Closed, NoSpawn, Bare
<1>9. Worked'
  BY <1>1, <1>2, <1>3, <1>4, <1>5
  DEF Worked, Launched, OneLine, Controlled, Bound, Early, Gone, Closed, NoSpawn
<1>10. Closed'
  BY <1>1, <1>2, <1>3, <1>4, <1>5
  DEF Closed, NoSpawn, Terminal, Launched, OneLine, Controlled, Worked, Bound, Early, Gone
<1>11. Recovering'
  <2>1. \A r \in Recoverers : Informed(r)'
    BY <1>1, <1>2, <1>3, <1>4, <1>5, InformedKept
  <2> QED BY <1>1, <1>2, <1>3, <1>4, <1>5, <2>1 DEF Recovering, Worked, Early, Launched, Bare
<1>12. Prompted'
  BY <1>1, <1>2, <1>3, <1>4, <1>5 DEF Prompted
<1> QED BY <1>6, <1>7, <1>8, <1>9, <1>10, <1>11, <1>12

LEMMA WorkerCleansKeeps ==
  ASSUME TypeOK, Facts, NEW a \in Attempts, At("wrk", a, "cleaning"), ProviderSettled(a),
         job' = job, wiped' = TRUE, guard' = 0, Goes("wrk", a, "settling"), UNCHANGED <<cancelled,
         rec, prompts>>
  PROVE  Facts'
<1> USE DEF Facts
<1>1. /\ pc'.launcher = pc.launcher /\ pc'.ctl = pc.ctl /\ pc'.prv = pc.prv
      /\ pc'.wrk[a] = "settling"
      /\ \A b \in Attempts : b # a => pc'.wrk[b] = pc.wrk[b]
  BY GoesMoves DEF Moved, Stay, Procs
<1>2. job' = job
  OBVIOUS
<1>3. cancelled' = cancelled /\ wiped' /\ guard' = 0 /\ prompts' = prompts /\ rec' = rec
  OBVIOUS
<1>4. pc.wrk[a] = "cleaning" /\ job.state = "worker-started" /\ pc.ctl[a] # "none"
      /\ job.fence = a /\ job.status = "active"
  BY DEF At, Worked, Bound, OneLine, Controlled
<1>5. pc.prv[a] \in {"none", "gone"}
  BY <1>1, <1>2, <1>3, <1>4 DEF Worked, ProviderSettled, Gone
<1>6. \A b \in Attempts : b # a => pc.ctl[b] = "none" /\ pc.wrk[b] = "none" /\ pc.prv[b] = "none"
  BY <1>1, <1>2, <1>3, <1>4, <1>5 DEF OneLine
<1>7. Launched'
  BY <1>1, <1>2, <1>3, <1>4, <1>5, <1>6 DEF Launched, Early, Bare, OneLine, Controlled
<1>8. OneLine'
  BY <1>1, <1>2, <1>3, <1>4, <1>5, <1>6 DEF OneLine, Launched
<1>9. Controlled'
  BY <1>1, <1>2, <1>3, <1>4, <1>5, <1>6
  DEF Controlled, Launched, OneLine, Early, Gone, Closed, NoSpawn, Bare
<1>10. Worked'
  BY <1>1, <1>2, <1>3, <1>4, <1>5, <1>6
  DEF Worked, Launched, OneLine, Controlled, Bound, Early, Gone, Closed, NoSpawn
<1>11. Closed'
  BY <1>1, <1>2, <1>3, <1>4, <1>5, <1>6
  DEF Closed, NoSpawn, Terminal, Launched, OneLine, Controlled, Worked, Bound, Early, Gone
<1>12. Recovering'
  <2>1. \A r \in Recoverers : Informed(r)'
    BY <1>1, <1>2, <1>3, <1>4, <1>5, <1>6, InformedKept
  <2> QED BY <1>1, <1>2, <1>3, <1>4, <1>5, <1>6, <2>1 DEF Recovering, Worked, Early, Launched, Bare
<1>13. Prompted'
  BY <1>1, <1>2, <1>3, <1>4, <1>5, <1>6 DEF Prompted
<1> QED BY <1>7, <1>8, <1>9, <1>10, <1>11, <1>12, <1>13

LEMMA WorkerSettlesKeeps ==
  ASSUME TypeOK, Facts, NEW a \in Attempts, WorkerSettles(a),
         CanSettlePreProvider(job, a, At("wrk", a, "settling"), Gone("prv", a))
  PROVE  Facts'
<1> USE DEF Facts
<1>1. /\ pc'.launcher = pc.launcher /\ pc'.ctl = pc.ctl /\ pc'.prv = pc.prv
      /\ pc'.wrk[a] = "gone"
      /\ \A b \in Attempts : b # a => pc'.wrk[b] = pc.wrk[b]
  BY GoesMoves DEF WorkerSettles, Moved, Stay, Procs
<1>2. /\ Keeps(job, job', {"state", "status", "authorized", "gen", "notLaunched", "blocked",
                           "pend"})
      /\ job'.state = "failed" /\ (job.prv = "none" => job'.gen = job.gen)
      /\ pc.wrk[a] # "settling" => job'.status = job.status
  <2> DEFINE c == At("wrk", a, "settling")
             g == Gone("prv", a)
  <2>1. c \in BOOLEAN /\ g \in BOOLEAN /\ (c <=> pc.wrk[a] = "settling")
    BY DEF At, Gone
  <2>2. job' = SettlePreProvider(job, c, g)
    BY DEF WorkerSettles, Writes
  <2> HIDE DEF c, g
  <2>3. job \in Record
    BY DEF TypeOK
  <2> QED BY <2>1, <2>2, <2>3, SettlePreProviderWrites
<1>3. /\ job'.fence = job.fence /\ job'.auth = job.auth /\ job'.consumed = job.consumed
      /\ job'.ctl = job.ctl /\ job'.wrk = job.wrk /\ job'.prv = job.prv
      /\ job'.ci = job.ci /\ job'.wi = job.wi /\ job'.pi = job.pi /\ job'.ccp = job.ccp
      /\ job'.uw = job.uw /\ job'.up = job.up /\ job'.cf = job.cf
  BY <1>2 DEF Keeps, Fields
<1>4. guard' = guard /\ cancelled' = cancelled /\ wiped' = wiped /\ prompts' = prompts /\ rec' = rec
  BY DEF WorkerSettles, Quiet
<1>5. /\ job.state = "worker-started" /\ pc.ctl[a] # "none" /\ job.fence = a
           /\ job.status = "active"
      /\ job.ccp = "none" /\ job.gen = 0
  BY DEF WorkerSettles, Worked, Bound, OneLine, Controlled
<1>6. /\ pc.wrk[a] = "settling" => wiped
      /\ pc.wrk[a] # "settling" => ~wiped
  BY DEF WorkerSettles, Closed, NoSpawn
<1>7. \A b \in Attempts : b # a => pc.ctl[b] = "none" /\ pc.wrk[b] = "none" /\ pc.prv[b] = "none"
  BY <1>1, <1>2, <1>3, <1>4, <1>5, <1>6 DEF OneLine
<1>8. Launched'
  BY <1>1, <1>2, <1>3, <1>4, <1>5, <1>6, <1>7 DEF Launched, Early, Bare, OneLine, Controlled
<1>9. OneLine'
  BY <1>1, <1>2, <1>3, <1>4, <1>5, <1>6, <1>7 DEF OneLine, Launched
<1>10. Controlled'
  BY <1>1, <1>2, <1>3, <1>4, <1>5, <1>6, <1>7
  DEF Controlled, Launched, OneLine, Early, Gone, Closed, NoSpawn, Bare
<1>11. Worked'
  BY <1>1, <1>2, <1>3, <1>4, <1>5, <1>6, <1>7
  DEF Worked, Launched, OneLine, Controlled, Bound, Early, Gone, Closed, NoSpawn
<1>12. Closed'
  BY <1>1, <1>2, <1>3, <1>4, <1>5, <1>6, <1>7
  DEF Closed, NoSpawn, Terminal, Launched, OneLine, Controlled, Worked, Bound, Early, Gone
<1>13. Recovering'
  <2>1. \A r \in Recoverers : Informed(r)'
    BY <1>1, <1>2, <1>3, <1>4, <1>5, <1>6, <1>7, InformedKept
  <2> QED BY <1>1, <1>2, <1>3, <1>4, <1>5, <1>6, <1>7, <2>1
    DEF Recovering, Worked, Early, Launched, Bare
<1>14. Prompted'
  BY <1>1, <1>2, <1>3, <1>4, <1>5, <1>6, <1>7 DEF Prompted
<1> QED BY <1>8, <1>9, <1>10, <1>11, <1>12, <1>13, <1>14

(* The guard is written for an authorization that is current.              *)
LEMMA BootstrapRegistersKeeps ==
  ASSUME TypeOK, Facts, NEW a \in Attempts, BootstrapRegisters(a), CanRegisterGuard(job, a, guard)
  PROVE  Facts'
<1> USE DEF Facts
<1>1. /\ pc'.launcher = pc.launcher /\ pc'.ctl = pc.ctl /\ pc'.wrk = pc.wrk
      /\ pc'.prv[a] \in {"guarded", "gone"}
      /\ \A b \in Attempts : b # a => pc'.prv[b] = pc.prv[b]
  <2>1. PICK p \in {"guarded", "gone"} : Goes("prv", a, p)
    BY DEF BootstrapRegisters
  <2> QED BY <2>1, GoesMoves DEF Moved, Stay, Procs
<1>2. /\ Keeps(job, job', {"pi"})
      /\ job'.pi = "registered" \/ job'.pi = job.pi
  BY RegisterGuardWrites DEF BootstrapRegisters, Writes, TypeOK, Keeps
<1>3. /\ job'.status = job.status /\ job'.state = job.state /\ job'.fence = job.fence
      /\ job'.auth = job.auth /\ job'.authorized = job.authorized
      /\ job'.consumed = job.consumed /\ job'.ctl = job.ctl /\ job'.wrk = job.wrk
      /\ job'.prv = job.prv /\ job'.gen = job.gen /\ job'.ci = job.ci
      /\ job'.wi = job.wi /\ job'.ccp = job.ccp /\ job'.uw = job.uw /\ job'.up = job.up
      /\ job'.cf = job.cf
  BY <1>2 DEF Keeps, Fields
<1>4. cancelled' = cancelled /\ wiped' = wiped /\ guard' = a /\ prompts' = prompts /\ rec' = rec
  BY DEF BootstrapRegisters
<1>5. /\ pc.prv[a] = "boot" /\ job.pi \in {"pending", "registered"} /\ job.fence = a
      /\ job.state \in {"worker-started", "failed"}
      /\ job.state = "failed" => job.gen = 1
  BY DEF BootstrapRegisters, At, CanRegisterGuard, Worked, Early, TypeOK, Record, States
<1>6. ~wiped
  BY <1>1, <1>2, <1>3, <1>4, <1>5 DEF Closed, NoSpawn
<1>7. \A b \in Attempts : b # a => pc.ctl[b] = "none" /\ pc.wrk[b] = "none" /\ pc.prv[b] = "none"
  BY <1>1, <1>2, <1>3, <1>4, <1>5, <1>6 DEF OneLine
<1>8. Launched'
  BY <1>1, <1>2, <1>3, <1>4, <1>5, <1>6, <1>7 DEF Launched, Early, Bare, OneLine, Controlled
<1>9. OneLine'
  BY <1>1, <1>2, <1>3, <1>4, <1>5, <1>6, <1>7 DEF OneLine, Launched
<1>10. Controlled'
  BY <1>1, <1>2, <1>3, <1>4, <1>5, <1>6, <1>7
  DEF Controlled, Launched, OneLine, Early, Gone, Closed, NoSpawn, Bare
<1>11. Worked'
  BY <1>1, <1>2, <1>3, <1>4, <1>5, <1>6, <1>7
  DEF Worked, Launched, OneLine, Controlled, Bound, Early, Gone, Closed, NoSpawn
<1>12. Closed'
  BY <1>1, <1>2, <1>3, <1>4, <1>5, <1>6, <1>7
  DEF Closed, NoSpawn, Terminal, Launched, OneLine, Controlled, Worked, Bound, Early, Gone
<1>13. Recovering'
  <2>1. \A r \in Recoverers : Informed(r)'
    BY <1>1, <1>2, <1>3, <1>4, <1>5, <1>6, <1>7, InformedKept
  <2> QED BY <1>1, <1>2, <1>3, <1>4, <1>5, <1>6, <1>7, <2>1
    DEF Recovering, Worked, Early, Launched, Bare
<1>14. Prompted'
  BY <1>1, <1>2, <1>3, <1>4, <1>5, <1>6, <1>7 DEF Prompted
<1> QED BY <1>8, <1>9, <1>10, <1>11, <1>12, <1>13, <1>14

(* A fence revokes what the attempt could still register.                  *)
LEMMA FencesKeeps ==
  ASSUME TypeOK, Facts, NEW r \in Recoverers, Fences(r),
         CanFence(job, rec[r].attempt, rec[r].state, rec[r].source)
  PROVE  Facts'
<1> USE DEF Facts
<1>1. pc' = pc
  BY DEF Fences
<1>2. /\ Keeps(job, job', {"cf", "cfState"})
      /\ job'.cf = rec[r].source
  BY FenceWrites DEF Fences, TypeOK, RecRec
<1>3. /\ job'.status = job.status /\ job'.state = job.state /\ job'.fence = job.fence
      /\ job'.auth = job.auth /\ job'.authorized = job.authorized
      /\ job'.consumed = job.consumed /\ job'.ctl = job.ctl /\ job'.wrk = job.wrk
      /\ job'.prv = job.prv /\ job'.gen = job.gen /\ job'.ci = job.ci
      /\ job'.wi = job.wi /\ job'.pi = job.pi /\ job'.ccp = job.ccp /\ job'.uw = job.uw
      /\ job'.up = job.up
  BY <1>2 DEF Keeps, Fields
<1>4. guard' = guard /\ cancelled' = cancelled /\ wiped' = wiped /\ prompts' = prompts
  BY DEF Fences
<1>5. \A s \in Recoverers : Informed(s)'
  <2>1. ASSUME NEW s \in Recoverers, s # r PROVE rec'[s] = rec[s]
    BY <2>1 DEF Fences, Proceeds, TypeOK
  <2>2. rec[r].at = "fence" /\ rec' = [rec EXCEPT ![r].at = "signal"]
    BY DEF Fences, Acting, Proceeds
  <2>3. /\ rec'[r].at = "signal" /\ rec'[r].op = rec[r].op
        /\ rec'[r].state = rec[r].state /\ rec'[r].attempt = rec[r].attempt
    BY <2>2 DEF TypeOK, RecRec
  <2>4. Informed(r)'
    BY <1>1, <1>2, <1>3, <1>4, <2>2, <2>3 DEF Informed, Pursues, SeenGone, Recovering
  <2>5. ASSUME NEW s \in Recoverers, s # r PROVE Informed(s)'
    BY <1>1, <1>2, <1>3, <1>4, <2>1, <2>5 DEF Informed, Pursues, SeenGone, Recovering
  <2> QED BY <2>4, <2>5
<1>6. /\ job.state \in Early => job.ci # "none"
      /\ job.state = "worker-started" => job.prv # "none"
  <2>1. rec[r].source \in Sources
    BY DEF TypeOK, RecRec
  <2>2. CleanupWitness(job, rec[r].source) # "none"
    BY DEF CanFence
  <2>3. job.ccp # "none" \/ job.uw # "none" \/ job.prv # "none"
    BY <2>1, <2>2, WitnessCases DEF Sources
  <2> QED BY <2>3 DEF Launched, Bare, Controlled, Worked, Early
<1>7. Launched'
  BY <1>1, <1>2, <1>3, <1>4, <1>5, <1>6 DEF Launched, Early, Bare, OneLine, Controlled
<1>8. OneLine'
  BY <1>1, <1>2, <1>3, <1>4, <1>5, <1>6 DEF OneLine, Launched
<1>9. Controlled'
  BY <1>1, <1>2, <1>3, <1>4, <1>5, <1>6
  DEF Controlled, Launched, OneLine, Early, Gone, Closed, NoSpawn, Bare
<1>10. Worked'
  BY <1>1, <1>2, <1>3, <1>4, <1>5, <1>6
  DEF Worked, Launched, OneLine, Controlled, Bound, Early, Gone, Closed, NoSpawn
<1>11. Closed'
  BY <1>1, <1>2, <1>3, <1>4, <1>5, <1>6
  DEF Closed, NoSpawn, Terminal, Launched, OneLine, Controlled, Worked, Bound, Early, Gone
<1>12. Recovering'
  BY <1>1, <1>2, <1>3, <1>4, <1>5, <1>6 DEF Recovering
<1>13. Prompted'
  BY <1>1, <1>2, <1>3, <1>4, <1>5, <1>6 DEF Prompted
<1> QED BY <1>7, <1>8, <1>9, <1>10, <1>11, <1>12, <1>13

(* A cancellation that ends a job nobody has claimed.                      *)
LEMMA CancelsPendingKeeps ==
  ASSUME TypeOK, Facts, Cancels, CancelEndsIt(job, guard), job' = Cancelled(job, guard), wiped'
  PROVE  Facts'
<1> USE DEF Facts
<1>1. pc' = pc
  BY DEF Cancels
<1>2. /\ Keeps(job, job', {"state", "status", "fence", "authorized", "notLaunched"})
      /\ job'.state = "failed" /\ job'.status = "stopped" /\ job'.fence = 1
  BY CancelledWrites DEF TypeOK
<1>3. /\ job'.auth = job.auth /\ job'.consumed = job.consumed /\ job'.ctl = job.ctl
      /\ job'.wrk = job.wrk /\ job'.prv = job.prv /\ job'.gen = job.gen
      /\ job'.ci = job.ci /\ job'.wi = job.wi /\ job'.pi = job.pi /\ job'.ccp = job.ccp
      /\ job'.uw = job.uw /\ job'.up = job.up /\ job'.cf = job.cf
  BY <1>2 DEF Keeps, Fields
<1>4. guard' = guard /\ cancelled' /\ prompts' = prompts /\ rec' = rec
  BY DEF Cancels
<1>5. /\ job.state = "pending" /\ job.ci = "none" /\ guard = 0 /\ Bare(job)
      /\ job.prv = "none" /\ job.gen = 0
  BY DEF CancelEndsIt, Launched, Early, Controlled
<1>6. \A b \in Attempts : pc.ctl[b] = "none" /\ pc.wrk[b] = "none" /\ pc.prv[b] = "none"
  BY <1>1, <1>2, <1>3, <1>4, <1>5 DEF OneLine
<1>7. Launched'
  BY <1>1, <1>2, <1>3, <1>4, <1>5, <1>6 DEF Launched, Early, Bare, OneLine, Controlled
<1>8. OneLine'
  BY <1>1, <1>2, <1>3, <1>4, <1>5, <1>6 DEF OneLine, Launched
<1>9. Controlled'
  BY <1>1, <1>2, <1>3, <1>4, <1>5, <1>6
  DEF Controlled, Launched, OneLine, Early, Gone, Closed, NoSpawn, Bare
<1>10. Worked'
  BY <1>1, <1>2, <1>3, <1>4, <1>5, <1>6
  DEF Worked, Launched, OneLine, Controlled, Bound, Early, Gone, Closed, NoSpawn
<1>11. Closed'
  BY <1>1, <1>2, <1>3, <1>4, <1>5, <1>6 DEF Closed, NoSpawn, Terminal, Launched, OneLine,
    Controlled, Worked, Bound, Early, Gone, Bare
<1>12. Recovering'
  <2>1. \A r \in Recoverers : Informed(r)'
    BY <1>1, <1>2, <1>3, <1>4, <1>5, <1>6, InformedKept
  <2> QED BY <1>1, <1>2, <1>3, <1>4, <1>5, <1>6, <2>1 DEF Recovering, Worked, Early, Launched, Bare
<1>13. Prompted'
  BY <1>1, <1>2, <1>3, <1>4, <1>5, <1>6 DEF Prompted
<1> QED BY <1>7, <1>8, <1>9, <1>10, <1>11, <1>12, <1>13

(* The settlement of a launcher that failed.                               *)
LEMMA LauncherFailsKeeps ==
  ASSUME TypeOK, Facts, NEW a \in Attempts, LauncherFails(a), CanFail(job, a)
  PROVE  Facts'
<1> USE DEF Facts
<1>1. /\ pc'.ctl = pc.ctl /\ pc'.wrk = pc.wrk /\ pc'.prv = pc.prv
      /\ pc'.launcher[a] = "done"
      /\ \A b \in Attempts : b # a => pc'.launcher[b] = pc.launcher[b]
  BY GoesMoves DEF LauncherFails, Moved, Stay, Procs
<1>2. /\ Keeps(job, job', {"state", "status", "authorized", "leased", "notLaunched"})
      /\ job'.state = "failed" /\ job'.status = "stopped"
  BY FailWrites DEF LauncherFails, Writes, TypeOK
<1>3. /\ job'.fence = job.fence /\ job'.auth = job.auth /\ job'.consumed = job.consumed
      /\ job'.ctl = job.ctl /\ job'.wrk = job.wrk /\ job'.prv = job.prv
      /\ job'.gen = job.gen /\ job'.ci = job.ci /\ job'.wi = job.wi /\ job'.pi = job.pi
      /\ job'.ccp = job.ccp /\ job'.uw = job.uw /\ job'.up = job.up /\ job'.cf = job.cf
  BY <1>2 DEF Keeps, Fields
<1>4. guard' = guard /\ cancelled' = cancelled /\ wiped' = wiped /\ prompts' = prompts /\ rec' = rec
  BY DEF LauncherFails, Quiet
<1>5. /\ job.state \in {"claimed", "controller-started"} /\ job.fence = a /\ wiped
      /\ job.ccp = "none" /\ job.prv = "none" /\ job.gen = 0
  BY DEF LauncherFails, At, CanFail, Current, NotCleanupClaimed, Closed, Controlled, Early
<1>6. \A b \in Attempts : pc.prv[b] = "none"
  BY <1>1, <1>2, <1>3, <1>4, <1>5 DEF Worked, Early
<1>7. Launched'
  BY <1>1, <1>2, <1>3, <1>4, <1>5, <1>6 DEF Launched, Early, Bare, OneLine, Controlled
<1>8. OneLine'
  BY <1>1, <1>2, <1>3, <1>4, <1>5, <1>6 DEF OneLine, Launched
<1>9. Controlled'
  BY <1>1, <1>2, <1>3, <1>4, <1>5, <1>6
  DEF Controlled, Launched, OneLine, Early, Gone, Closed, NoSpawn, Bare
<1>10. Worked'
  BY <1>1, <1>2, <1>3, <1>4, <1>5, <1>6
  DEF Worked, Launched, OneLine, Controlled, Bound, Early, Gone, Closed, NoSpawn
<1>11. Closed'
  BY <1>1, <1>2, <1>3, <1>4, <1>5, <1>6
  DEF Closed, NoSpawn, Terminal, Launched, OneLine, Controlled, Worked, Bound, Early, Gone
<1>12. Recovering'
  <2>1. \A r \in Recoverers : Informed(r)'
    BY <1>1, <1>2, <1>3, <1>4, <1>5, <1>6, InformedKept
  <2> QED BY <1>1, <1>2, <1>3, <1>4, <1>5, <1>6, <2>1 DEF Recovering, Worked, Early, Launched, Bare
<1>13. Prompted'
  BY <1>1, <1>2, <1>3, <1>4, <1>5, <1>6 DEF Prompted
<1> QED BY <1>7, <1>8, <1>9, <1>10, <1>11, <1>12, <1>13

LEMMA LauncherKillsKeeps ==
  ASSUME TypeOK, Facts, NEW a \in Attempts, job.fence = a,
         pc.launcher[a] \in {"failing", "failing-blind"},
         job.state \in {"claimed", "controller-started"},
         job.state = "claimed" => job.ctl = 0,
         job.state = "controller-started" => pc.launcher[a] = "failing",
         NEW settles \in BOOLEAN, settles => guard = 0,
         Kills("ctl", "launcher", a, IF settles THEN "settling" ELSE "done"),
         Keeps(job, job', {"ci", "ccp", "notLaunched", "blocked", "pend"}), job'.ccp = "none",
         job'.ci = IF job.ci = "none" THEN "none" ELSE "no-child",
         wiped' = (wiped \/ settles), UNCHANGED <<guard, cancelled, rec, prompts>>
  PROVE  Facts'
<1> USE DEF Facts
<1>1. /\ pc'.wrk = pc.wrk /\ pc'.prv = pc.prv
      /\ pc'.ctl[a] = (IF pc.ctl[a] = "none" THEN "none" ELSE "gone")
      /\ \A b \in Attempts : b # a => pc'.ctl[b] = pc.ctl[b]
      /\ pc'.launcher[a] = IF settles THEN "settling" ELSE "done"
      /\ \A b \in Attempts : b # a => pc'.launcher[b] = pc.launcher[b]
  BY KillsMoves DEF Moved, Stay, Procs
<1>2. Keeps(job, job', {"ci", "ccp", "notLaunched", "blocked", "pend"})
  OBVIOUS
<1>3. /\ job'.status = job.status /\ job'.state = job.state /\ job'.fence = job.fence
      /\ job'.auth = job.auth /\ job'.authorized = job.authorized
      /\ job'.consumed = job.consumed /\ job'.ctl = job.ctl /\ job'.wrk = job.wrk
      /\ job'.prv = job.prv /\ job'.gen = job.gen /\ job'.wi = job.wi
      /\ job'.pi = job.pi /\ job'.uw = job.uw /\ job'.up = job.up /\ job'.cf = job.cf
  BY <1>2 DEF Keeps, Fields
<1>4. guard' = guard /\ cancelled' = cancelled /\ prompts' = prompts /\ rec' = rec
  OBVIOUS
<1>5. /\ job.state = "controller-started" => job.ci # "none"
      /\ job.state = "claimed" /\ job.ci = "none" => cancelled
  BY DEF OneLine, Launched
<1>6. \A b \in Attempts : b # a => pc.ctl[b] = "none" /\ pc.wrk[b] = "none" /\ pc.prv[b] = "none"
  BY DEF OneLine
<1>7. \A b \in Attempts : pc.prv[b] = "none"
  BY DEF Worked, Early
<1>8. /\ pc.wrk[a] \in {"none", "boot", "gone"}
      /\ job.state = "claimed" => pc.wrk[a] = "none"
  <2>1. pc.wrk[a] \in Places["wrk"]
    BY DEF TypeOK, Placed, Procs
  <2>2. pc.wrk[a] \in {"none", "boot", "gone", "running", "finalizing"} \cup Bound
    BY <2>1 DEF Bound, Places
  <2> QED BY <2>2 DEF Worked, Early, Controlled
<1>9. Launched'
  BY <1>1, <1>2, <1>3, <1>4, <1>5, <1>6, <1>7, <1>8 DEF Launched, Early, Bare, OneLine, Controlled
<1>10. OneLine'
  BY <1>1, <1>2, <1>3, <1>4, <1>5, <1>6, <1>7, <1>8 DEF OneLine, Launched
<1>11. Controlled'
  BY <1>1, <1>2, <1>3, <1>4, <1>5, <1>6, <1>7, <1>8
  DEF Controlled, Launched, OneLine, Early, Gone, Closed, NoSpawn, Bare
<1>12. Worked'
  BY <1>1, <1>2, <1>3, <1>4, <1>5, <1>6, <1>7, <1>8
  DEF Worked, Launched, OneLine, Controlled, Bound, Early, Gone, Closed, NoSpawn
<1>13. Closed'
  <2>1. wiped' => \A b \in Attempts : NoSpawn(b)'
    <3>1. ASSUME wiped', NEW b \in Attempts, b # a PROVE NoSpawn(b)'
      BY <1>1, <1>2, <1>3, <1>4, <1>5, <1>6, <1>7, <1>8, <3>1 DEF NoSpawn, Launched
    <3>2. ASSUME wiped' PROVE NoSpawn(a)'
      BY <1>1, <1>2, <1>3, <1>4, <1>5, <1>6, <1>7, <1>8, <3>2 DEF NoSpawn
    <3> QED BY <3>1, <3>2
  <2>2. ASSUME wiped'
        PROVE  /\ guard' = 0 /\ job'.state # "pending"
               /\ job'.state = "claimed" =>
                    job'.ci = "no-child" \/ (job'.ci = "none" /\ cancelled')
               /\ job'.state = "controller-started" => job'.ci = "no-child"
    <3>1. guard = 0
      BY <2>2 DEF Closed
    <3> QED BY <1>1, <1>2, <1>3, <1>4, <1>5, <1>6, <1>7, <1>8, <3>1
  <2>3. ASSUME wiped \/ settles PROVE wiped'
    BY <2>3
  <2>4. pc'.launcher[a] = "settling" => wiped'
    <3>1. pc'.launcher[a] = "settling" => settles
      BY <1>1
    <3> QED BY <3>1, <2>3
  <2>5. \A b \in Attempts \ {a} : pc'.launcher[b] = "settling" => wiped'
    <3>1. \A b \in Attempts \ {a} : pc'.launcher[b] = "settling" => wiped
      BY <1>1 DEF Closed
    <3> QED BY <3>1, <2>3
  <2>6. \A b \in Attempts : pc'.wrk[b] = "settling" => wiped'
    <3>1. \A b \in Attempts : pc'.wrk[b] = "settling" => wiped
      BY <1>1 DEF Closed
    <3> QED BY <3>1, <2>3
  <2>7. \A b \in Attempts : pc'.launcher[b] = "settling" /\ job'.fence = b =>
          job'.state \notin {"worker-started", "provider-started"}
    BY <1>1, <1>2, <1>3, <1>4, <1>5, <1>6, <1>7, <1>8
  <2>8. Terminal(job') => wiped'
    BY <1>1, <1>2, <1>3, <1>4, <1>5, <1>6, <1>7, <1>8 DEF Closed, Terminal
  <2> QED BY <2>1, <2>2, <2>4, <2>5, <2>6, <2>7, <2>8 DEF Closed
<1>14. Recovering'
  <2>1. \A r \in Recoverers : Informed(r)'
    BY <1>1, <1>2, <1>3, <1>4, <1>5, <1>6, <1>7, <1>8, InformedKept
  <2> QED BY <1>1, <1>2, <1>3, <1>4, <1>5, <1>6, <1>7, <1>8, <2>1
    DEF Recovering, Worked, Early, Launched, Bare
<1>15. Prompted'
  BY <1>1, <1>2, <1>3, <1>4, <1>5, <1>6, <1>7, <1>8 DEF Prompted
<1> QED BY <1>9, <1>10, <1>11, <1>12, <1>13, <1>14, <1>15

LEMMA LauncherCannotKillKeeps ==
  ASSUME TypeOK, Facts, NEW a \in Attempts, job.fence = a,
         pc.launcher[a] \in {"failing", "failing-blind", "failing-pidless"},
         job.state \in {"claimed", "controller-started"},
         job.state = "claimed" => job.ctl = 0,
         job.state = "controller-started" => pc.launcher[a] = "failing",
         pc.ctl[a] # "none" \/ pc.launcher[a] = "failing-pidless",
         Goes("launcher", a, "done"), wiped' = wiped,
         Keeps(job, job', {"ci", "ccp", "notLaunched", "blocked", "pend"}), job'.ci = job.ci,
         UNCHANGED <<guard, cancelled, rec, prompts>>
  PROVE  Facts'
<1> USE DEF Facts
<1>1. /\ pc'.ctl = pc.ctl /\ pc'.wrk = pc.wrk /\ pc'.prv = pc.prv
      /\ pc'.launcher[a] = "done"
      /\ \A b \in Attempts : b # a => pc'.launcher[b] = pc.launcher[b]
  BY GoesMoves DEF Moved, Stay, Procs
<1>2. Keeps(job, job', {"ci", "ccp", "notLaunched", "blocked", "pend"})
  OBVIOUS
<1>3. /\ job'.status = job.status /\ job'.state = job.state /\ job'.fence = job.fence
      /\ job'.auth = job.auth /\ job'.authorized = job.authorized
      /\ job'.consumed = job.consumed /\ job'.ctl = job.ctl /\ job'.wrk = job.wrk
      /\ job'.prv = job.prv /\ job'.gen = job.gen /\ job'.wi = job.wi
      /\ job'.pi = job.pi /\ job'.uw = job.uw /\ job'.up = job.up /\ job'.cf = job.cf
  BY <1>2 DEF Keeps, Fields
<1>4. guard' = guard /\ cancelled' = cancelled /\ wiped' = wiped /\ prompts' = prompts /\ rec' = rec
  OBVIOUS
<1>5. job.ci # "none"
  BY DEF OneLine, Launched
<1>6. Launched'
  BY <1>1, <1>2, <1>3, <1>4, <1>5 DEF Launched, Early, Bare, OneLine, Controlled
<1>7. OneLine'
  BY <1>1, <1>2, <1>3, <1>4, <1>5 DEF OneLine, Launched
<1>8. Controlled'
  BY <1>1, <1>2, <1>3, <1>4, <1>5
  DEF Controlled, Launched, OneLine, Early, Gone, Closed, NoSpawn, Bare
<1>9. Worked'
  BY <1>1, <1>2, <1>3, <1>4, <1>5
  DEF Worked, Launched, OneLine, Controlled, Bound, Early, Gone, Closed, NoSpawn
<1>10. Closed'
  BY <1>1, <1>2, <1>3, <1>4, <1>5
  DEF Closed, NoSpawn, Terminal, Launched, OneLine, Controlled, Worked, Bound, Early, Gone
<1>11. Recovering'
  <2>1. \A r \in Recoverers : Informed(r)'
    BY <1>1, <1>2, <1>3, <1>4, <1>5, InformedKept
  <2> QED BY <1>1, <1>2, <1>3, <1>4, <1>5, <2>1 DEF Recovering, Worked, Early, Launched, Bare
<1>12. Prompted'
  BY <1>1, <1>2, <1>3, <1>4, <1>5 DEF Prompted
<1> QED BY <1>6, <1>7, <1>8, <1>9, <1>10, <1>11, <1>12

(* Who may settle a job for recovery finds no process of it left.          *)
LEMMA NoneIsLeft ==
  ASSUME TypeOK, Facts, NEW r \in Recoverers, rec[r].at = "settle", MaySettle(r)
  PROVE  /\ Current(job, rec[r].attempt)
         /\ rec[r].op = "unstarted" => job.state \notin {"pending", "provider-started"}
         /\ rec[r].op = "failed" => job.state = "failed"
         /\ rec[r].op = "lost" => job.state = "provider-started"
         /\ \A b \in Attempts :
              /\ Gone("wrk", b) /\ pc.launcher[b] # "prepared"
              /\ Gone("ctl", b) \/ (r = Watchdog /\ job.state = "provider-started")
              /\ pc.prv[b] = "boot" =>
                   \/ job.pi = "no-child"
                   \/ job.state = "failed" /\ job.prv = "none"
<1> USE DEF Facts
<1> DEFINE n == rec[r].attempt
<1>1. rec[r].op \in Ops /\ job \in Record
  BY DEF TypeOK, RecRec
<1>2. ASSUME Current(job, n), NEW b \in Attempts, b # n
      PROVE  pc.ctl[b] = "none" /\ pc.wrk[b] = "none" /\ pc.prv[b] = "none"
  BY <1>2 DEF Current, OneLine
<1>3. ASSUME Current(job, n), NEW b \in Attempts, pc.launcher[b] = "prepared"
      PROVE  /\ b = n /\ job.state = "claimed" /\ job.ci = "pending" /\ job.ccp = "none"
             /\ pc.ctl[b] = "none"
  BY <1>3 DEF Current, Launched
<1>4. CASE rec[r].op = "unstarted"
  <2>1. CanSettleUnstarted(job, n, rec[r].state, rec[r].source,
                           Gone("ctl", n), Gone("wrk", n), Gone("prv", n))
    BY <1>4, SettleCases
  <2>2. /\ Current(job, n) /\ Contract(job) /\ job.state = rec[r].state
        /\ job.prv # "none" => Gone("prv", n)
        /\ job.state = "claimed" =>
             job.ci \in {"none", "no-child"} \/ (job.ccp # "none" /\ Gone("ctl", n))
        /\ job.state = "controller-started" =>
             /\ Gone("ctl", n)
             /\ Gone("wrk", n) \/ (job.uw = "none" /\ job.wi \in {"none", "no-child"})
        /\ job.state \notin {"claimed", "controller-started"} =>
             Gone("ctl", n) /\ Gone("wrk", n)
    BY <2>1, UnstartedCases
  <2>3. job.state \in {"claimed", "controller-started"} \/ job.pi = "no-child"
    BY <1>4, <2>2 DEF Recovering, Informed, Pursues
  <2>4. job.state \notin {"pending", "provider-started"}
    <3>1. job.state # "pending"
      BY <2>3 DEF Launched, Early, Bare
    <3>2. job.state # "provider-started"
      BY <2>2, <2>3 DEF Contract, IntentContract
    <3> QED BY <3>1, <3>2
  <2>5. ASSUME NEW b \in Attempts, b = n
        PROVE  /\ Gone("wrk", b) /\ Gone("ctl", b)
               /\ pc.launcher[b] # "prepared"
               /\ pc.prv[b] = "boot" => job.pi = "no-child"
    <3>1. Gone("ctl", b)
      BY <2>2, <2>5 DEF Controlled
    <3>2. Gone("wrk", b)
      BY <2>2, <2>5 DEF Controlled, Early, Gone
    <3>3. pc.launcher[b] # "prepared"
      BY <2>2, <2>5, <1>3
    <3>4. pc.prv[b] = "boot" => job.pi = "no-child"
      BY <2>3 DEF Worked, Early
    <3> QED BY <3>1, <3>2, <3>3, <3>4
  <2>6. ASSUME NEW b \in Attempts, b # n
        PROVE  /\ Gone("wrk", b) /\ Gone("ctl", b)
               /\ pc.launcher[b] # "prepared" /\ pc.prv[b] # "boot"
    BY <2>2, <2>6, <1>2, <1>3 DEF Gone
  <2> QED BY <1>4, <2>2, <2>4, <2>5, <2>6
<1>5. CASE rec[r].op = "failed"
  <2>1. CanSettleFailed(job, n, rec[r].source, Gone("ctl", n), Gone("wrk", n), Gone("prv", n))
    BY <1>5, SettleCases
  <2>2. /\ Current(job, n) /\ job.state = "failed" /\ Gone("ctl", n) /\ Gone("wrk", n)
        /\ job.prv # "none" => Gone("prv", n)
    BY <2>1 DEF CanSettleFailed
  <2>3. ASSUME NEW b \in Attempts
        PROVE  /\ Gone("wrk", b) /\ Gone("ctl", b)
               /\ pc.launcher[b] # "prepared" /\ (pc.prv[b] = "boot" => job.prv = "none")
    BY <2>2, <1>2, <1>3 DEF Gone
  <2> QED BY <1>5, <2>2, <2>3
<1>6. CASE rec[r].op = "lost"
  <2>1. CanSettleLost(job, n, rec[r].source, Gone("ctl", n), Gone("wrk", n), Gone("prv", n))
    BY <1>6, SettleCases
  <2>2. /\ Current(job, n) /\ job.state = "provider-started" /\ Gone("wrk", n)
        /\ Gone("prv", n)
    BY <2>1 DEF CanSettleLost
  <2>3. r # Watchdog => pc.ctl[n] = "gone"
    BY <1>6 DEF Recovering, Informed, Pursues, SeenGone
  <2>4. ASSUME NEW b \in Attempts
        PROVE  /\ Gone("wrk", b) /\ (r # Watchdog => Gone("ctl", b))
               /\ pc.launcher[b] # "prepared" /\ pc.prv[b] # "boot"
    BY <2>2, <2>3, <1>2, <1>3 DEF Gone
  <2> QED BY <1>6, <2>2, <2>4
<1> QED BY <1>1, <1>4, <1>5, <1>6 DEF Ops

(* The settlement by recovery.                                             *)
LEMMA SettlesWrites ==
  ASSUME TypeOK, NEW r \in Recoverers, MaySettle(r), job' = Settled(rec[r].op)
  PROVE  /\ Keeps(job, job', {"state", "status", "authorized", "leased", "cf", "uw", "ccp",
                              "pend", "notLaunched", "gen"})
         /\ job'.status # "active"
         /\ job'.ccp = (IF rec[r].op = "unstarted" THEN "none" ELSE job.ccp)
         /\ (job.state = "failed" => job'.state = "failed")
         /\ IF rec[r].op = "lost"
              THEN job.state = "provider-started" /\ job'.state = "provider-started"
              ELSE job'.state = "failed" /\ (job.prv = "none" => job'.gen = job.gen)
<1>1. rec[r].op \in Ops /\ job \in Record
  BY DEF TypeOK, RecRec
<1>2. CASE rec[r].op = "unstarted"
  BY <1>1, <1>2, SettleCases, SettleUnstartedWrites DEF Keeps
<1>3. CASE rec[r].op = "failed"
  <2>1. job.state = "failed" /\ job.pend # "none"
    BY <1>3, SettleCases DEF CanSettleFailed
  <2>2. job' = SettleFailed(job)
    BY <1>3, SettleCases
  <2> QED BY <1>1, <1>3, <2>1, <2>2, SettleFailedWrites DEF Keeps, Fields
<1>4. CASE rec[r].op = "lost"
  <2>1. job.state = "provider-started"
    BY <1>4, SettleCases DEF CanSettleLost
  <2>2. job' = SettleLost(job)
    BY <1>4, SettleCases
  <2> QED BY <1>1, <1>4, <2>1, <2>2, SettleLostWrites DEF Keeps, Fields
<1> QED BY <1>1, <1>2, <1>3, <1>4 DEF Ops

LEMMA SettlesJobKeeps ==
  ASSUME TypeOK, Facts, NEW r \in Recoverers, rec[r].at = "settle", MaySettle(r),
         ProviderSettled(rec[r].attempt), job' = Settled(rec[r].op), wiped', guard' = 0, pc' = pc,
         Rests(r), UNCHANGED <<cancelled, prompts>>
  PROVE  Facts'
<1> USE DEF Facts
<1>1. /\ Keeps(job, job', {"state", "status", "authorized", "leased", "cf", "uw", "ccp", "pend",
                           "notLaunched", "gen"})
      /\ job'.status # "active"
      /\ job'.ccp = IF rec[r].op = "unstarted" THEN "none" ELSE job.ccp
      /\ IF rec[r].op = "lost"
           THEN job.state = "provider-started" /\ job'.state = "provider-started"
           ELSE job'.state = "failed" /\ (job.prv = "none" => job'.gen = job.gen)
  BY SettlesWrites
<1>2. /\ job'.fence = job.fence /\ job'.auth = job.auth /\ job'.consumed = job.consumed
      /\ job'.ctl = job.ctl /\ job'.wrk = job.wrk /\ job'.prv = job.prv
      /\ job'.ci = job.ci /\ job'.wi = job.wi /\ job'.pi = job.pi /\ job'.up = job.up
  BY <1>1 DEF Keeps, Fields
<1>3. pc' = pc /\ cancelled' = cancelled /\ wiped' /\ guard' = 0 /\ prompts' = prompts
  OBVIOUS
<1>4. \A s \in Recoverers : Informed(s)'
  <2>1. \A s \in Recoverers : rec'[s] = rec[s] \/ rec'[s].at = "idle"
    BY DEF Rests, TypeOK, Idle
  <2> QED BY <1>1, <1>2, <1>3, <2>1, InformedKept
<1>5. /\ job.fence = rec[r].attempt /\ job.status = "active"
      /\ rec[r].op = "unstarted" => job.state \notin {"pending", "provider-started"}
      /\ rec[r].op = "failed" => job.state = "failed"
      /\ job.state # "pending"
      /\ \A b \in Attempts :
           /\ Gone("wrk", b) /\ pc.launcher[b] # "prepared"
           /\ Gone("ctl", b) \/ job.state = "provider-started"
           /\ pc.prv[b] = "boot" =>
                \/ job.pi = "no-child"
                \/ job.state = "failed" /\ job.prv = "none"
  BY NoneIsLeft DEF Current, Terminal, TypeOK, RecRec, Ops
<1>6. \A b \in Attempts : pc.prv[b] \notin {"guarded", "running"}
  BY <1>1, <1>2, <1>3, <1>4, <1>5 DEF Worked, ProviderSettled, Gone, OneLine, Attempts
<1>7. job'.state \in {"failed", "provider-started"}
  BY <1>1, <1>2, <1>3, <1>4, <1>5, <1>6
<1>8. job'.state = "failed" => job'.pi = job.pi /\ (job.prv = "none" => job'.gen = 0)
  <2>1. job.state \in States /\ rec[r].op \in Ops
    BY RecordTyped DEF Typed, TypeOK, RecRec
  <2> QED BY <1>1, <1>2, <1>3, <1>4, <1>5, <1>6, <1>7, <2>1
    DEF Controlled, Worked, States, Early, Ops
<1>9. \A b \in Attempts : NoSpawn(b)'
  BY <1>1, <1>2, <1>3, <1>4, <1>5, <1>6, <1>7, <1>8 DEF NoSpawn, Gone, Controlled, Worked
<1>10. Launched'
  BY <1>1, <1>2, <1>3, <1>4, <1>5, <1>6, <1>7, <1>8, <1>9
  DEF Launched, Early, Bare, OneLine, Controlled
<1>11. OneLine'
  BY <1>1, <1>2, <1>3, <1>4, <1>5, <1>6, <1>7, <1>8, <1>9 DEF OneLine, Launched
<1>12. Controlled'
  BY <1>1, <1>2, <1>3, <1>4, <1>5, <1>6, <1>7, <1>8, <1>9
  DEF Controlled, Launched, OneLine, Early, Gone, Closed, NoSpawn, Bare
<1>13. Worked'
  <2>1. job'.up => job'.prv # "none"
    BY <1>2 DEF Worked
  <2>2. \A b \in Attempts :
          /\ pc.wrk[b] \in {"none", "gone"} /\ pc.prv[b] \notin {"guarded", "running"}
          /\ pc.prv[b] # "none" => job'.state \notin Early \cup {"controller-started"}
    BY <1>5, <1>6, <1>7 DEF Gone, Early
  <2> QED BY <1>1, <1>2, <1>3, <1>7, <1>8, <2>1, <2>2 DEF Worked, Bound
<1>14. Closed'
  BY <1>1, <1>2, <1>3, <1>4, <1>5, <1>6, <1>7, <1>8, <1>9 DEF Closed
<1>15. Recovering'
  <2>1. rec[r].op \in Ops
    BY DEF TypeOK, RecRec
  <2>2. job'.ccp # "none" => job.ccp # "none" /\ rec[r].op \in {"failed", "lost"}
    BY <1>1, <1>2, <1>3, <1>4, <1>5, <1>6, <1>7, <1>8, <1>9, <2>1 DEF Ops
  <2>3. rec[r].op = "lost" => job.state = "provider-started"
    BY <1>1, <1>2, <1>3, <1>4, <1>5, <1>6, <1>7, <1>8, <1>9
  <2>4. job'.ccp = "none"
    BY <1>1, <1>2, <1>3, <1>4, <1>5, <1>6, <1>7, <1>8, <1>9, <2>2, <2>3 DEF Recovering
  <2> QED BY <1>1, <1>2, <1>3, <1>4, <1>5, <1>6, <1>7, <1>8, <1>9, <2>4 DEF Recovering
<1>16. Prompted'
  BY <1>1, <1>2, <1>3, <1>4, <1>5, <1>6, <1>7, <1>8, <1>9 DEF Prompted
<1> QED BY <1>10, <1>11, <1>12, <1>13, <1>14, <1>15, <1>16

-----------------------------------------------------------------------------
(* Every action: the branch that changes what the invariant speaks of by   *)
(* its lemma, the others by the frame.                                     *)
Elsewhere(a) == \A x \in Procs, b \in Attempts \ {a} : pc'[x][b] = pc[x][b]

(* A process that moves leaves those of the other attempts alone.          *)
LEMMA MovesElsewhere ==
  ASSUME TypeOK, NEW a \in Attempts,
         \/ \E x \in Procs, p \in AllPlaces : Goes(x, a, p)
         \/ \E x \in Procs, y \in Procs, p \in AllPlaces : x # y /\ Kills(x, y, a, p)
         \/ pc' = pc
  PROVE  Elsewhere(a)
<1>1. ASSUME NEW x \in Procs, NEW p \in AllPlaces, Goes(x, a, p) PROVE Elsewhere(a)
  BY <1>1 DEF TypeOK, Goes, Elsewhere
<1>2. ASSUME NEW x \in Procs, NEW y \in Procs, NEW p \in AllPlaces, x # y, Kills(x, y, a, p)
      PROVE  Elsewhere(a)
  <2>1. /\ \A b \in Attempts \ {a} : pc'[x][b] = pc[x][b] /\ pc'[y][b] = pc[y][b]
        /\ \A z \in Procs \ {x, y} : pc'[z] = pc[z]
    BY <1>2, KillsMoves DEF Moved, Stay
  <2> QED BY <2>1 DEF Elsewhere
<1>3. ASSUME pc' = pc PROVE Elsewhere(a)
  BY <1>3 DEF Elsewhere
<1> QED BY <1>1, <1>2, <1>3

(* The frame, for steps of one attempt and for quiet ones.                 *)
LEMMA FrameAt ==
  ASSUME TypeOK, Facts, NEW a \in Attempts, Elsewhere(a), GoesOn(a), OnlyRevokes, GuardKept,
         wiped' = wiped, cancelled => cancelled', prompts' = prompts,
         \A r \in Recoverers : rec'[r] = rec[r] \/ rec'[r].at = "idle" \/ Informed(r)'
  PROVE  Facts'
<1>1. ASSUME NEW b \in Attempts PROVE GoesOn(b)
  <2>1. CASE b = a  BY <2>1
  <2>2. CASE b # a
    <3>1. /\ pc'.launcher[b] = pc.launcher[b] /\ pc'.ctl[b] = pc.ctl[b]
          /\ pc'.wrk[b] = pc.wrk[b] /\ pc'.prv[b] = pc.prv[b]
      BY <2>2 DEF Elsewhere, Procs
    <3> QED BY <3>1 DEF GoesOn, LauncherGoesOn, ControllerGoesOn, WorkerGoesOn, ProviderGoesOn
  <2> QED BY <2>1, <2>2
<1> QED BY <1>1, Frame

LEMMA FrameQuiet ==
  ASSUME TypeOK, Facts, NEW a \in Attempts, Elsewhere(a), GoesOn(a), OnlyRevokes, Quiet
  PROVE  Facts'
<1>1. GuardKept
  BY DEF GuardKept, Quiet
<1> QED BY <1>1, FrameAt DEF Quiet

LEMMA SameRevokes ==
  ASSUME job' = job
  PROVE  OnlyRevokes
BY DEF OnlyRevokes, Keeps

(* One process of an attempt goes on, or goes on and kills another.        *)
LEMMA LauncherMoves ==
  ASSUME TypeOK, NEW a \in Attempts, NEW p \in AllPlaces, Goes("launcher", a, p), LauncherGoesOn(a)
  PROVE  Elsewhere(a) /\ GoesOn(a)
<1>1. Elsewhere(a)
  BY MovesElsewhere DEF Procs
<1>2. pc'.ctl = pc.ctl /\ pc'.wrk = pc.wrk /\ pc'.prv = pc.prv
  BY GoesMoves DEF Stay, Procs
<1> QED BY <1>1, <1>2 DEF GoesOn, ControllerGoesOn, WorkerGoesOn, ProviderGoesOn

LEMMA ControllerMoves ==
  ASSUME TypeOK, NEW a \in Attempts, NEW p \in AllPlaces, Goes("ctl", a, p), ControllerGoesOn(a)
  PROVE  Elsewhere(a) /\ GoesOn(a)
<1>1. Elsewhere(a)
  BY MovesElsewhere DEF Procs
<1>2. pc'.launcher = pc.launcher /\ pc'.wrk = pc.wrk /\ pc'.prv = pc.prv
  BY GoesMoves DEF Stay, Procs
<1> QED BY <1>1, <1>2 DEF GoesOn, LauncherGoesOn, WorkerGoesOn, ProviderGoesOn

LEMMA WorkerMoves ==
  ASSUME TypeOK, NEW a \in Attempts, NEW p \in AllPlaces, Goes("wrk", a, p), WorkerGoesOn(a)
  PROVE  Elsewhere(a) /\ GoesOn(a)
<1>1. Elsewhere(a)
  BY MovesElsewhere DEF Procs
<1>2. pc'.launcher = pc.launcher /\ pc'.ctl = pc.ctl /\ pc'.prv = pc.prv
  BY GoesMoves DEF Stay, Procs
<1> QED BY <1>1, <1>2 DEF GoesOn, LauncherGoesOn, ControllerGoesOn, ProviderGoesOn

LEMMA ProviderMoves ==
  ASSUME TypeOK, NEW a \in Attempts, NEW p \in AllPlaces, Goes("prv", a, p), ProviderGoesOn(a)
  PROVE  Elsewhere(a) /\ GoesOn(a)
<1>1. Elsewhere(a)
  BY MovesElsewhere DEF Procs
<1>2. pc'.launcher = pc.launcher /\ pc'.ctl = pc.ctl /\ pc'.wrk = pc.wrk
  BY GoesMoves DEF Stay, Procs
<1> QED BY <1>1, <1>2 DEF GoesOn, LauncherGoesOn, ControllerGoesOn, WorkerGoesOn

LEMMA ControllerKills ==
  ASSUME TypeOK, NEW a \in Attempts, pc.ctl[a] # "none", Kills("wrk", "ctl", a, "gone")
  PROVE  Elsewhere(a) /\ GoesOn(a)
<1>1. Elsewhere(a)
  BY MovesElsewhere DEF Procs, AllPlaces, Places
<1>2. /\ pc'.launcher = pc.launcher /\ pc'.prv = pc.prv /\ pc'.ctl[a] = "gone"
      /\ pc'.wrk[a] = IF pc.wrk[a] = "none" THEN "none" ELSE "gone"
  BY KillsMoves DEF Moved, Stay, Procs
<1> QED BY <1>1, <1>2
  DEF GoesOn, LauncherGoesOn, ControllerGoesOn, WorkerGoesOn, ProviderGoesOn, Ends

LEMMA WorkerKills ==
  ASSUME TypeOK, NEW a \in Attempts, NEW p \in AllPlaces, Kills("prv", "wrk", a, p),
         pc'.wrk[a] = p /\ pc'.prv[a] \in {"none", "gone"} => WorkerGoesOn(a)
  PROVE  Elsewhere(a) /\ GoesOn(a) /\ pc'.prv[a] \in {"none", "gone"}
<1>1. Elsewhere(a)
  BY MovesElsewhere DEF Procs
<1>2. /\ pc'.launcher = pc.launcher /\ pc'.ctl = pc.ctl /\ pc'.wrk[a] = p
      /\ pc'.prv[a] = IF pc.prv[a] = "none" THEN "none" ELSE "gone"
  BY KillsMoves DEF Moved, Stay, Procs
<1> QED BY <1>1, <1>2 DEF GoesOn, LauncherGoesOn, ControllerGoesOn, ProviderGoesOn, Ends

(* What is written without changing what the invariant speaks of.          *)
LEMMA SilentWrites ==
  ASSUME TypeOK
  PROVE  /\ \A b \in BOOLEAN : job' = Blocked(job, b) => OnlyRevokes
         /\ job' = Unleased(job) => OnlyRevokes
         /\ \A o \in {"completed", "stopped"} : job' = Ended(job, o) => OnlyRevokes
         /\ job.state \notin Early /\ job' = ProviderNoChild(job) => OnlyRevokes
<1>1. job \in Record
  BY DEF TypeOK
<1>2. \A b \in BOOLEAN : job' = Blocked(job, b) => OnlyRevokes
  BY <1>1, BlockedWrites DEF OnlyRevokes, Keeps, Silent, Fields
<1>3. job' = Unleased(job) => OnlyRevokes
  BY <1>1, UnleasedWrites DEF OnlyRevokes, Keeps, Silent, Fields
<1>4. \A o \in {"completed", "stopped"} : job' = Ended(job, o) => OnlyRevokes
  BY <1>1, EndedWrites DEF OnlyRevokes, Keeps, Silent, Fields
<1>5. job.state \notin Early /\ job' = ProviderNoChild(job) => OnlyRevokes
  BY <1>1, ProviderNoChildWrites DEF OnlyRevokes, Keeps, Silent, Fields
<1> QED BY <1>2, <1>3, <1>4, <1>5

(* The actions of the launcher.                                            *)
LEMMA PlacesKnown ==
  {"none", "claimed", "prepared", "spawned", "tokened", "failing", "failing-blind",
   "failing-pidless", "settling", "done", "boot", "owned", "registering", "watching", "recovering", "gone", "ready",
   "waiting", "running", "failing-unbound", "cleaning", "settling-blocked", "finalizing", "guarded"}
  \subseteq AllPlaces
BY DEF AllPlaces, Places

LEMMA LauncherPreparesPreserves ==
  ASSUME TypeOK, Facts, NEW a \in Attempts, LauncherPrepares(a)
  PROVE  Facts'
<1> DEFINE ok == ~cancelled /\ CanPrepareController(job, a)
<1>1. CASE ok
  BY <1>1, LauncherPreparesKeeps
<1>2. CASE ~ok
  <2>1. job' = job /\ Goes("launcher", a, "failing-blind") /\ Quiet
    BY <1>2 DEF LauncherPrepares, Writes
  <2>2. job.fence = a /\ job.state = "claimed" /\ job.ci = "none" => cancelled
    <3>1. SUFFICES ASSUME job.fence = a, job.state = "claimed", job.ci = "none", ~cancelled
                   PROVE  FALSE
      OBVIOUS
    <3>2. Bare(job) /\ job.prv = "none" /\ job.status = "active"
      BY <3>1 DEF Facts, Launched, Early, Controlled
    <3>3. Contract(job)
      BY <3>1, <3>2, BareContract DEF TypeOK
    <3> QED BY <1>2, <3>1, <3>2, <3>3 DEF CanPrepareController, Current, Terminal, Unfenced, Bare
  <2>3. pc'.launcher[a] = "failing-blind"
    BY <2>1, GoesMoves DEF Moved, Procs
  <2>4. LauncherGoesOn(a)
    BY <2>2, <2>3 DEF LauncherGoesOn
  <2> QED BY <2>1, <2>4, PlacesKnown, LauncherMoves, SameRevokes, FrameQuiet
<1> QED BY <1>1, <1>2

LEMMA LauncherSpawnsPreserves ==
  ASSUME TypeOK, Facts, NEW a \in Attempts, LauncherSpawns(a)
  PROVE  Facts'
<1>1. ASSUME NEW p \in {"failing-blind", "failing-pidless"}, Goes("launcher", a, p),
             Writes(CanControllerNoChild(job, a), ControllerNoChild(job))
      PROVE  Facts'
  BY <1>1, LauncherNoChildKeeps
<1> QED BY <1>1, LauncherSpawnsKeeps DEF LauncherSpawns

LEMMA LauncherReadsTokenPreserves ==
  ASSUME TypeOK, Facts, NEW a \in Attempts, LauncherReadsToken(a)
  PROVE  Facts'
<1>1. pc.ctl[a] # "none" /\ job.ci # "none"
  BY DEF LauncherReadsToken, At, Facts, OneLine
<1>2. PICK p \in {"tokened", "failing-blind"} : Goes("launcher", a, p) /\ job' = job /\ Quiet
  BY DEF LauncherReadsToken
<1>3. pc'.launcher[a] = p
  BY <1>2, GoesMoves DEF Moved, Procs
<1>4. LauncherGoesOn(a)
  BY <1>1, <1>2, <1>3 DEF LauncherGoesOn
<1> QED BY <1>2, <1>4, PlacesKnown, LauncherMoves, SameRevokes, FrameQuiet

LEMMA LauncherPublishesPreserves ==
  ASSUME TypeOK, Facts, NEW a \in Attempts, LauncherPublishes(a)
  PROVE  Facts'
<1> DEFINE ok == ~cancelled /\ CanControllerStarted(job, a)
<1>1. CASE ok /\ job.state = "claimed"
  BY <1>1, LauncherPublishesKeeps
<1>2. CASE ~(ok /\ job.state = "claimed")
  <2>1. job' = job /\ Quiet
    BY <1>2 DEF LauncherPublishes, Writes, ControllerStarted
  <2>2. PICK p \in {"done", "failing"} : Goes("launcher", a, p)
    BY DEF LauncherPublishes
  <2>3. pc'.launcher[a] = p /\ pc.ctl[a] # "none"
    BY <2>2, GoesMoves DEF Moved, Procs, LauncherPublishes, At, Facts, OneLine
  <2>4. LauncherGoesOn(a)
    BY <2>2, <2>3 DEF LauncherGoesOn
  <2> QED BY <2>1, <2>2, <2>4, PlacesKnown, LauncherMoves, SameRevokes, FrameQuiet
<1> QED BY <1>1, <1>2

LEMMA LauncherCleansUpPreserves ==
  ASSUME TypeOK, Facts, NEW a \in Attempts, LauncherCleansUp(a)
  PROVE  Facts'
<1> DEFINE has == At("launcher", a, "failing")
           pidless == At("launcher", a, "failing-pidless")
           others == UNCHANGED <<guard, cancelled, rec, prompts>>
<1>0. others /\ pc.launcher[a] \in {"failing", "failing-blind", "failing-pidless"}
  BY DEF LauncherCleansUp
<1>1. ASSUME job' = job, wiped' = wiped,
             Kills("ctl", "launcher", a, "done") \/ Goes("launcher", a, "done")
      PROVE  Facts'
  <2>1. Elsewhere(a)
    BY <1>1, MovesElsewhere, PlacesKnown DEF Procs
  <2>2. /\ pc'.launcher[a] = "done" /\ pc'.wrk = pc.wrk /\ pc'.prv = pc.prv
        /\ pc'.ctl[a] = pc.ctl[a] \/ (pc.ctl[a] # "none" /\ pc'.ctl[a] = "gone")
    BY <1>1, GoesMoves, KillsMoves DEF Moved, Stay, Procs
  <2>3. GoesOn(a)
    BY <2>2 DEF GoesOn, LauncherGoesOn, ControllerGoesOn, WorkerGoesOn, ProviderGoesOn, Ends
  <2>4. OnlyRevokes /\ GuardKept
    BY <1>0, <1>1, SameRevokes DEF GuardKept
  <2> QED BY <1>0, <1>1, <2>1, <2>3, <2>4, FrameAt
<1>2. CASE FailureEligible(job, a, has)
  <2>1. /\ job.fence = a /\ job.state \in {"claimed", "controller-started"}
        /\ job.state = "claimed" => job.ctl = 0
        /\ job.state = "controller-started" => pc.launcher[a] = "failing"
    BY <1>2 DEF FailureEligible, Current, At
  <2>2. ~(~Current(job, a)) /\ ~(Current(job, a) /\ ~FailureEligible(job, a, has))
    BY <1>2 DEF FailureEligible
  <2> DEFINE w == IF pidless THEN "nobody" ELSE IF has THEN "signal" ELSE "observe"
  <2>3. w \in Witnesses \cup {"nobody"} /\ job \in Record
    BY DEF Witnesses, TypeOK
  <2>4. PICK killed \in BOOLEAN, deleted \in BOOLEAN :
          /\ IF killed THEN ~pidless ELSE ~deleted /\ (pidless \/ ~Gone("ctl", a))
          /\ IF killed
               THEN Kills("ctl", "launcher", a,
                          IF killed /\ guard = 0 /\ deleted THEN "settling" ELSE "done")
               ELSE Goes("launcher", a, "done")
          /\ job' = PrepareFailure(job, killed, killed /\ guard = 0 /\ deleted, w)
          /\ wiped' = (wiped \/ (killed /\ guard = 0 /\ deleted))
    BY <1>2, <2>2 DEF LauncherCleansUp
  <2> DEFINE clean == killed /\ guard = 0 /\ deleted
  <2>5. killed \in BOOLEAN /\ clean \in BOOLEAN /\ (clean => guard = 0)
    OBVIOUS
  <2>6. /\ Keeps(job, job', {"ci", "ccp", "notLaunched", "blocked", "pend"})
        /\ killed /\ job.ci # "none" => job'.ci = "no-child"
        /\ ~killed \/ job.ci = "none" => job'.ci = job.ci
        /\ killed => job'.ccp = "none"
    <3> HIDE DEF w, clean
    <3>1. job' = PrepareFailure(job, killed, clean, w)
      BY <2>4 DEF clean
    <3> QED BY <2>3, <2>5, <3>1, PrepareFailureWrites
  <2>7. CASE killed
    <3>1. Kills("ctl", "launcher", a, IF clean THEN "settling" ELSE "done")
      BY <2>4, <2>7
    <3>2. wiped' = (wiped \/ clean)
      BY <2>4
    <3>3. job'.ccp = "none" /\ job'.ci = IF job.ci = "none" THEN "none" ELSE "no-child"
      BY <2>6, <2>7
    <3>4. pc.launcher[a] \in {"failing", "failing-blind"}
      BY <1>0, <2>4, <2>7 DEF At
    <3> HIDE DEF clean
    <3> QED BY <1>0, <2>1, <2>5, <2>6, <3>1, <3>2, <3>3, <3>4, LauncherKillsKeeps
  <2>8. CASE ~killed
    <3>1. /\ pc.ctl[a] # "none" \/ pc.launcher[a] = "failing-pidless"
          /\ Goes("launcher", a, "done") /\ wiped' = wiped
      BY <2>4, <2>8 DEF TypeOK, Gone, At
    <3>2. job'.ci = job.ci
      BY <2>6, <2>8
    <3> QED BY <1>0, <2>1, <2>6, <3>1, <3>2, LauncherCannotKillKeeps
  <2> QED BY <2>7, <2>8
<1>3. CASE ~FailureEligible(job, a, has)
  BY <1>1, <1>3 DEF LauncherCleansUp
<1> QED BY <1>2, <1>3

LEMMA LauncherFailsPreserves ==
  ASSUME TypeOK, Facts, NEW a \in Attempts, LauncherFails(a)
  PROVE  Facts'
<1>1. CASE CanFail(job, a)
  BY <1>1, LauncherFailsKeeps
<1>2. CASE ~CanFail(job, a)
  <2>1. job' = job /\ Quiet /\ Goes("launcher", a, "done")
    BY <1>2 DEF LauncherFails, Writes
  <2>2. pc'.launcher[a] = "done"
    BY <2>1, GoesMoves DEF Moved, Procs
  <2>3. LauncherGoesOn(a)
    BY <2>2 DEF LauncherGoesOn
  <2> QED BY <2>1, <2>3, PlacesKnown, LauncherMoves, SameRevokes, FrameQuiet
<1> QED BY <1>1, <1>2

(* The actions of the controller.                                          *)
LEMMA ControllerRegistersPreserves ==
  ASSUME TypeOK, Facts, NEW a \in Attempts, ControllerRegisters(a)
  PROVE  Facts'
<1> DEFINE ok == /\ CanControllerStarted(job, a)
                 /\ \/ job.state = "claimed" /\ job.ci = "pending" /\ job.authorized
                    \/ job.state = "controller-started" /\ job.ctl = a
<1>1. CASE ok
  BY <1>1, ControllerRegistersKeeps DEF ControllerRegisters, Writes
<1>2. CASE ~ok
  <2>1. job' = job /\ Quiet /\ Goes("ctl", a, "gone")
    BY <1>2 DEF ControllerRegisters, Writes
  <2>2. pc'.ctl[a] = "gone" /\ pc.ctl[a] = "boot"
    BY <2>1, GoesMoves DEF Moved, Procs, ControllerRegisters, At
  <2>3. ControllerGoesOn(a)
    BY <2>2 DEF ControllerGoesOn, Ends
  <2> QED BY <2>1, <2>3, PlacesKnown, ControllerMoves, SameRevokes, FrameQuiet
<1> QED BY <1>1, <1>2

LEMMA ControllerPreparesPreserves ==
  ASSUME TypeOK, Facts, NEW a \in Attempts, ControllerPrepares(a)
  PROVE  Facts'
<1> DEFINE ok == ~cancelled /\ CanPrepareWorker(job, a)
<1>1. CASE ok
  BY <1>1, ControllerPreparesKeeps
<1>2. CASE ~ok
  <2>1. job' = job /\ Quiet /\ Goes("ctl", a, "gone")
    BY <1>2 DEF ControllerPrepares, Writes
  <2>2. pc'.ctl[a] = "gone" /\ pc.ctl[a] = "owned"
    BY <2>1, GoesMoves DEF Moved, Procs, ControllerPrepares, At
  <2>3. ControllerGoesOn(a)
    BY <2>2 DEF ControllerGoesOn, Ends
  <2> QED BY <2>1, <2>3, PlacesKnown, ControllerMoves, SameRevokes, FrameQuiet
<1> QED BY <1>1, <1>2

LEMMA ControllerSpawnsPreserves ==
  ASSUME TypeOK, Facts, NEW a \in Attempts, ControllerSpawns(a)
  PROVE  Facts'
BY ControllerSpawnsKeeps, ControllerNoWorkerKeeps DEF ControllerSpawns

LEMMA ControllerReadsIdentityPreserves ==
  ASSUME TypeOK, Facts, NEW a \in Attempts, ControllerReadsIdentity(a)
  PROVE  Facts'
<1>1. pc.ctl[a] = "spawned" /\ Quiet /\ "observe" \in Witnesses
  BY DEF ControllerReadsIdentity, At, Witnesses
<1>2. CASE Goes("ctl", a, "registering") /\ job' = job
  <2>1. pc'.ctl[a] = "registering"
    BY <1>2, GoesMoves DEF Moved, Procs
  <2>2. ControllerGoesOn(a)
    BY <1>1, <2>1 DEF ControllerGoesOn
  <2> QED BY <1>1, <1>2, <2>2, PlacesKnown, ControllerMoves, SameRevokes, FrameQuiet
<1>3. CASE WorkerKilled(a)
  BY <1>1, <1>3, WorkerKilledKeeps
<1>4. CASE WorkerUnsettled(a, "observe")
  BY <1>1, <1>4, WorkerUnsettledKeeps
<1> QED BY <1>2, <1>3, <1>4 DEF ControllerReadsIdentity

LEMMA ControllerPublishesPreserves ==
  ASSUME TypeOK, Facts, NEW a \in Attempts, ControllerPublishes(a)
  PROVE  Facts'
<1> DEFINE ok == ~cancelled /\ CanWorkerStarted(job, a)
<1>1. pc.ctl[a] = "registering" /\ Quiet /\ "signal" \in Witnesses
  BY DEF ControllerPublishes, At, Witnesses
<1>2. CASE WorkerKilled(a)
  BY <1>1, <1>2, WorkerKilledKeeps
<1>3. CASE WorkerUnsettled(a, "signal")
  BY <1>1, <1>3, WorkerUnsettledKeeps
<1>4. CASE job' = job /\ Kills("wrk", "ctl", a, "gone")
  BY <1>1, <1>4, ControllerKills, SameRevokes, FrameQuiet
<1>5. ASSUME NEW p \in {"gone", "watching"}, job' = job, Goes("ctl", a, p) PROVE Facts'
  <2>1. pc'.ctl[a] = p
    BY <1>5, GoesMoves DEF Moved, Procs
  <2>2. ControllerGoesOn(a)
    BY <1>1, <1>5, <2>1 DEF ControllerGoesOn, Ends
  <2> QED BY <1>1, <1>5, <2>2, PlacesKnown, ControllerMoves, SameRevokes, FrameQuiet
<1>6. CASE /\ ok /\ WorkerStarted(job, a).state = "worker-started"
           /\ job' = WorkerStarted(job, a) /\ Goes("ctl", a, "watching")
  <2>1. CASE job.state = "controller-started"
    BY <1>1, <1>6, <2>1, ControllerPublishesKeeps
  <2>2. CASE job.state # "controller-started"
    <3>1. job' = job
      BY <1>6, <2>2 DEF WorkerStarted
    <3> QED BY <1>5, <1>6, <3>1
  <2> QED BY <2>1, <2>2
<1> QED BY <1>2, <1>3, <1>4, <1>5, <1>6 DEF ControllerPublishes

LEMMA ControllerWatchesPreserves ==
  ASSUME TypeOK, Facts, NEW a \in Attempts, ControllerWatches(a)
  PROVE  Facts'
<1>1. /\ pc.ctl[a] = "watching" /\ job' = job /\ guard' = guard /\ cancelled' = cancelled
      /\ wiped' = wiped /\ prompts' = prompts
  BY DEF ControllerWatches, At
<1>2. OnlyRevokes /\ GuardKept
  BY <1>1, SameRevokes DEF GuardKept
<1>3. CASE Kills("wrk", "ctl", a, "gone") /\ rec' = rec
  BY <1>1, <1>2, <1>3, ControllerKills, FrameAt
<1>4. CASE /\ rec' = [rec EXCEPT ![Watchdog] =
                        [at |-> "fence", op |-> "lost", source |-> "provider-generation",
                         attempt |-> a, state |-> job.state]]
           /\ Goes("ctl", a, "recovering")
  <2>1. pc'.ctl[a] = "recovering"
    BY <1>4, GoesMoves DEF Moved, Procs
  <2>2. ControllerGoesOn(a)
    BY <1>1, <2>1 DEF ControllerGoesOn
  <2>3. ASSUME NEW r \in Recoverers PROVE rec'[r] = rec[r] \/ Informed(r)'
    <3>1. CASE r = Watchdog
      <4>1. rec'[r].at = "fence" /\ rec'[r].op = "lost"
        BY <1>4, <3>1 DEF TypeOK, Recoverers
      <4> QED BY <3>1, <4>1 DEF Informed, Pursues
    <3>2. CASE r # Watchdog
      BY <1>4, <3>2 DEF TypeOK
    <3> QED BY <3>1, <3>2
  <2> QED BY <1>1, <1>2, <1>4, <2>2, <2>3, PlacesKnown, ControllerMoves, FrameAt
<1>5. CASE Goes("ctl", a, "gone") /\ rec' = rec
  <2>1. pc'.ctl[a] = "gone"
    BY <1>5, GoesMoves DEF Moved, Procs
  <2>2. ControllerGoesOn(a)
    BY <1>1, <2>1 DEF ControllerGoesOn, Ends
  <2> QED BY <1>1, <1>2, <1>5, <2>2, PlacesKnown, ControllerMoves, FrameAt
<1> QED BY <1>3, <1>4, <1>5 DEF ControllerWatches

LEMMA ControllerRecoveredPreserves ==
  ASSUME TypeOK, Facts, NEW a \in Attempts, ControllerRecovered(a)
  PROVE  Facts'
<1>1. pc.ctl[a] = "recovering" /\ job' = job /\ Quiet /\ Goes("ctl", a, "gone")
  BY DEF ControllerRecovered, At
<1>2. pc'.ctl[a] = "gone"
  BY <1>1, GoesMoves DEF Moved, Procs
<1>3. ControllerGoesOn(a)
  BY <1>1, <1>2 DEF ControllerGoesOn, Ends
<1> QED BY <1>1, <1>3, PlacesKnown, ControllerMoves, SameRevokes, FrameQuiet

(* The actions of the worker.                                              *)
LEMMA WorkerRegistersPreserves ==
  ASSUME TypeOK, Facts, NEW a \in Attempts, WorkerRegisters(a)
  PROVE  Facts'
<1> DEFINE ok == /\ CanWorkerStarted(job, a)
                 /\ \/ job.state = "controller-started" /\ job.wi = "pending" /\ job.authorized
                    \/ job.state = "worker-started" /\ job.wrk = a
<1>1. CASE ok /\ job.state = "controller-started"
  BY <1>1, WorkerRegistersKeeps DEF WorkerRegisters, Writes
<1>2. CASE ok /\ job.state # "controller-started"
  <2>1. job' = job /\ Goes("wrk", a, "owned") /\ job.state = "worker-started"
    BY <1>2 DEF WorkerRegisters, Writes, WorkerStarted
  <2> QED BY <2>1, WorkerFindsItselfKeeps
<1>3. CASE ~ok
  <2>1. job' = job /\ Quiet /\ Goes("wrk", a, "gone")
    BY <1>3 DEF WorkerRegisters, Writes
  <2>2. pc'.wrk[a] = "gone" /\ pc.wrk[a] = "boot"
    BY <2>1, GoesMoves DEF Moved, Procs, WorkerRegisters, At
  <2>3. WorkerGoesOn(a)
    BY <2>2 DEF WorkerGoesOn, Ends
  <2> QED BY <2>1, <2>3, PlacesKnown, WorkerMoves, SameRevokes, FrameQuiet
<1> QED BY <1>1, <1>2, <1>3

LEMMA WorkerConsumesPreserves ==
  ASSUME TypeOK, Facts, NEW a \in Attempts, WorkerConsumes(a)
  PROVE  Facts'
<1>1. CASE CanConsume(job, a)
  BY <1>1, WorkerConsumesKeeps
<1>2. CASE ~CanConsume(job, a)
  <2>1. job' = job /\ Quiet /\ Goes("wrk", a, "gone")
    BY <1>2 DEF WorkerConsumes, Writes
  <2>2. pc'.wrk[a] = "gone" /\ pc.wrk[a] = "owned"
    BY <2>1, GoesMoves DEF Moved, Procs, WorkerConsumes, At
  <2>3. WorkerGoesOn(a)
    BY <2>2 DEF WorkerGoesOn, Ends
  <2> QED BY <2>1, <2>3, PlacesKnown, WorkerMoves, SameRevokes, FrameQuiet
<1> QED BY <1>1, <1>2

LEMMA WorkerPreparesPreserves ==
  ASSUME TypeOK, Facts, NEW a \in Attempts, WorkerPrepares(a)
  PROVE  Facts'
<1> DEFINE ok == ~cancelled /\ CanPrepareProvider(job, a, guard)
<1>1. CASE ok
  BY <1>1, WorkerPreparesKeeps
<1>2. CASE ~ok
  <2>1. job' = job /\ Quiet /\ Goes("wrk", a, "failing")
    BY <1>2 DEF WorkerPrepares, Writes
  <2>2. pc'.wrk[a] = "failing" /\ pc.wrk[a] = "ready" /\ pc'.prv = pc.prv
    BY <2>1, GoesMoves DEF Moved, Stay, Procs, WorkerPrepares, At
  <2>3. WorkerGoesOn(a)
    BY <2>2 DEF WorkerGoesOn, Bound, Facts, Worked
  <2> QED BY <2>1, <2>3, PlacesKnown, WorkerMoves, SameRevokes, FrameQuiet
<1> QED BY <1>1, <1>2

(* The guard goes when its provider is gone.                               *)
LEMMA GuardGoes ==
  ASSUME TypeOK, Facts, NEW a \in Attempts, Elsewhere(a), job.fence = a,
         pc'.prv[a] \in {"none", "gone"}, guard' \in {guard, 0}
  PROVE  GuardKept
<1>1. ASSUME NEW b \in Attempts PROVE pc'.prv[b] \notin {"guarded", "running"}
  <2>1. CASE b = a  BY <2>1
  <2>2. CASE b # a
    <3>1. pc'.prv[b] = pc.prv[b] /\ pc.prv[b] = "none"
      BY <2>2 DEF Elsewhere, Procs, Facts, OneLine
    <3> QED BY <3>1
  <2> QED BY <2>1, <2>2
<1> QED BY <1>1 DEF GuardKept

(* A worker that has got as far as Bound is current.                       *)
LEMMA BoundIsCurrent ==
  ASSUME TypeOK, Facts, NEW a \in Attempts, pc.wrk[a] \in Bound
  PROVE  Current(job, a) /\ job.fence = a /\ job.state = "worker-started"
BY DEF Current, Terminal, Facts, OneLine, Worked, Controlled, Bound

LEMMA AbsentPreserves ==
  ASSUME TypeOK, Facts, NEW a \in Attempts, Elsewhere(a), GoesOn(a), pc.wrk[a] \in Bound,
         pc'.prv[a] \in {"none", "gone"}, guard' \in {guard, 0},
         job' = job \/ job' = ProviderNoChild(job), UNCHANGED <<cancelled, rec, wiped, prompts>>
  PROVE  Facts'
<1>1. job.fence = a /\ job.state \notin Early
  BY BoundIsCurrent DEF Early
<1>2. OnlyRevokes
  BY <1>1, SameRevokes, SilentWrites
<1>3. GuardKept
  BY <1>1, GuardGoes
<1> QED BY <1>2, <1>3, FrameAt

(* A provider is created, or found absent.                                 *)
LEMMA WorkerSpawnsPreserves ==
  ASSUME TypeOK, Facts, NEW a \in Attempts, WorkerSpawns(a)
  PROVE  Facts'
<1>1. pc.wrk[a] = "prepared" /\ UNCHANGED <<cancelled, rec, wiped, prompts>>
  BY DEF WorkerSpawns, At
<1>2. CASE ProviderAbsent(a) /\ Goes("wrk", a, "failing")
  <2>1. pc'.wrk[a] = "failing" /\ pc'.prv = pc.prv
    BY <1>2, GoesMoves DEF Moved, Stay, Procs
  <2>2. pc'.prv[a] \in {"none", "gone"} /\ pc.wrk[a] \in Bound
    BY <1>1, <2>1 DEF Facts, Worked, Bound
  <2>3. WorkerGoesOn(a)
    BY <1>1, <2>1, <2>2 DEF WorkerGoesOn, Bound
  <2>4. (job' = job \/ job' = ProviderNoChild(job)) /\ guard' \in {guard, 0}
    BY <1>2 DEF ProviderAbsent, Writes
  <2>5. Elsewhere(a) /\ GoesOn(a)
    BY <1>2, <2>3, PlacesKnown, WorkerMoves
  <2> QED BY <1>1, <2>2, <2>4, <2>5, AbsentPreserves
<1> QED BY <1>2, WorkerSpawnsKeeps DEF WorkerSpawns

LEMMA WorkerReadsIdentityPreserves ==
  ASSUME TypeOK, Facts, NEW a \in Attempts, WorkerReadsIdentity(a)
  PROVE  Facts'
<1>1. pc.wrk[a] = "spawned" /\ pc.wrk[a] \in Bound /\ UNCHANGED <<cancelled, rec, wiped, prompts>>
  BY DEF WorkerReadsIdentity, At, Bound
<1>2. CASE Goes("wrk", a, "waiting") /\ job' = job /\ guard' = guard
  <2>1. pc'.wrk[a] = "waiting"
    BY <1>2, GoesMoves DEF Moved, Procs
  <2>2. WorkerGoesOn(a)
    BY <1>1, <2>1 DEF WorkerGoesOn, Bound
  <2>3. Quiet
    BY <1>1, <1>2 DEF Quiet
  <2> QED BY <1>2, <2>2, <2>3, PlacesKnown, WorkerMoves, SameRevokes, FrameQuiet
<1>3. CASE ProviderAbsent(a) /\ Kills("prv", "wrk", a, "failing")
  <2>1. pc'.wrk[a] = "failing" /\ pc'.prv[a] \in {"none", "gone"} => WorkerGoesOn(a)
    BY <1>1 DEF WorkerGoesOn, Bound
  <2>2. Elsewhere(a) /\ GoesOn(a) /\ pc'.prv[a] \in {"none", "gone"}
    BY <1>3, <2>1, PlacesKnown, WorkerKills
  <2>3. (job' = job \/ job' = ProviderNoChild(job)) /\ guard' \in {guard, 0}
    BY <1>3 DEF ProviderAbsent, Writes
  <2> QED BY <1>1, <2>2, <2>3, AbsentPreserves
<1>4. CASE /\ Goes("wrk", a, "failing") /\ guard' = guard
           /\ Writes(CanUnsettleProvider(job, a), UnsettleProvider(job))
  <2>1. Current(job, a) /\ job.fence = a /\ job.state = "worker-started" /\ job.fence # 0
    BY <1>1, BoundIsCurrent DEF Facts, Launched
  <2>2. job.prv = "none" /\ job \in Record /\ job.gen = 0
    BY <1>1, <2>1 DEF Facts, Worked, Controlled, TypeOK
  <2>3. Contract(job)
    BY <2>1, <2>2, WorkerContract DEF Facts, Worked
  <2>4. CanUnsettleProvider(job, a)
    BY <2>1, <2>2, <2>3 DEF CanUnsettleProvider, Unfenced, Facts, Worked
  <2> QED BY <1>1, <1>4, <2>4, UnsettlesProviderKeeps DEF Writes
<1> QED BY <1>2, <1>3, <1>4 DEF WorkerReadsIdentity

LEMMA WorkerPromotesPreserves ==
  ASSUME TypeOK, Facts, NEW a \in Attempts, WorkerPromotes(a)
  PROVE  Facts'
BY PromotedKeeps DEF WorkerPromotes, At

LEMMA WorkerAbandonsProviderPreserves ==
  ASSUME TypeOK, Facts, NEW a \in Attempts, WorkerAbandonsProvider(a)
  PROVE  Facts'
<1>1. pc.wrk[a] = "waiting" /\ pc.wrk[a] \in Bound /\ UNCHANGED <<cancelled, rec, wiped, prompts>>
  BY DEF WorkerAbandonsProvider, At, Bound
<1>2. ASSUME NEW p \in {"failing", "failing-unbound"}, Kills("prv", "wrk", a, p), guard' = 0,
             Writes(CanProviderNoChild(job, a, 0, TRUE), ProviderNoChild(job))
      PROVE  Facts'
  <2>1. pc'.wrk[a] = p /\ pc'.prv[a] \in {"none", "gone"} => WorkerGoesOn(a)
    BY <1>1, <1>2 DEF WorkerGoesOn, Bound
  <2>2. Elsewhere(a) /\ GoesOn(a) /\ pc'.prv[a] \in {"none", "gone"}
    BY <1>2, <2>1, PlacesKnown, WorkerKills
  <2>3. job' = job \/ job' = ProviderNoChild(job)
    BY <1>2 DEF Writes
  <2> QED BY <1>1, <1>2, <2>2, <2>3, AbsentPreserves
<1>3. CASE Goes("wrk", a, "failing-unbound") /\ job' = job /\ guard' = guard
  <2>1. pc'.wrk[a] = "failing-unbound"
    BY <1>3, GoesMoves DEF Moved, Procs
  <2>2. WorkerGoesOn(a)
    BY <1>1, <2>1 DEF WorkerGoesOn, Bound
  <2>3. Quiet
    BY <1>1, <1>3 DEF Quiet
  <2> QED BY <1>3, <2>2, <2>3, PlacesKnown, WorkerMoves, SameRevokes, FrameQuiet
<1> QED BY <1>2, <1>3 DEF WorkerAbandonsProvider

(* The ends of the worker.                                                 *)
LEMMA WorkerEndsPreserves ==
  ASSUME TypeOK, Facts, NEW a \in Attempts, WorkerEnds(a)
  PROVE  Facts'
<1>1. pc.wrk[a] = "running" /\ Quiet
  BY DEF WorkerEnds, At
<1>2. PICK outcome \in {"completed", "stopped"} :
        /\ Writes(Current(job, a) /\ job.state = "provider-started", Ended(job, outcome))
        /\ Kills("prv", "wrk", a, "finalizing") \/ Goes("wrk", a, "finalizing")
  BY DEF WorkerEnds, Ended
<1>3. OnlyRevokes
  BY <1>2, SilentWrites, SameRevokes DEF Writes
<1>4. CASE Kills("prv", "wrk", a, "finalizing")
  <2>1. pc'.wrk[a] = "finalizing" => WorkerGoesOn(a)
    BY <1>1 DEF WorkerGoesOn
  <2> QED BY <1>1, <1>3, <1>4, <2>1, PlacesKnown, WorkerKills, FrameQuiet
<1>5. CASE Goes("wrk", a, "finalizing")
  <2>1. pc'.wrk[a] = "finalizing"
    BY <1>5, GoesMoves DEF Moved, Procs
  <2>2. WorkerGoesOn(a)
    BY <1>1, <2>1 DEF WorkerGoesOn
  <2> QED BY <1>1, <1>3, <1>5, <2>2, PlacesKnown, WorkerMoves, FrameQuiet
<1> QED BY <1>2, <1>4, <1>5

LEMMA WorkerFinalizesPreserves ==
  ASSUME TypeOK, Facts, NEW a \in Attempts, WorkerFinalizes(a)
  PROVE  Facts'
<1>1. CASE /\ CanSettleProviderStarted(job, a, Gone("prv", a))
           /\ job' = SettleAsIntended(job) /\ wiped' = TRUE /\ guard' = 0
  BY <1>1, WorkerFinalizesKeeps
<1>2. CASE /\ Writes(Current(job, a) /\ job.state = "provider-started" /\ job.pend # "none",
                     [job EXCEPT !.blocked = TRUE])
           /\ UNCHANGED <<wiped, guard>>
  <2>1. pc.wrk[a] = "finalizing" /\ Goes("wrk", a, "gone") /\ Quiet
    BY <1>2 DEF WorkerFinalizes, At, Quiet
  <2>2. job' = job \/ job' = Blocked(job, TRUE)
    BY <1>2 DEF Writes, Blocked
  <2>3. OnlyRevokes
    BY <2>2, SilentWrites, SameRevokes
  <2>4. pc'.wrk[a] = "gone"
    BY <2>1, GoesMoves DEF Moved, Procs
  <2>5. WorkerGoesOn(a)
    BY <2>1, <2>4 DEF WorkerGoesOn, Ends
  <2> QED BY <2>1, <2>3, <2>5, PlacesKnown, WorkerMoves, FrameQuiet
<1> QED BY <1>1, <1>2 DEF WorkerFinalizes

LEMMA WorkerRecordsFailurePreserves ==
  ASSUME TypeOK, Facts, NEW a \in Attempts, WorkerRecordsFailure(a)
  PROVE  Facts'
<1>1. CASE pc.wrk[a] = "failing-unbound"
  BY <1>1, UnboundKeeps
<1>2. CASE pc.wrk[a] = "failing"
  <2>1. Current(job, a) /\ job.state = "worker-started" /\ job \in Record
    BY <1>2, BoundIsCurrent DEF Bound, TypeOK
  <2> DEFINE u == At("wrk", a, "failing-unbound")
  <2>2. /\ job' = RecordFailure(job, a, u) /\ Goes("wrk", a, "cleaning") /\ Quiet
        /\ u \in BOOLEAN /\ ~u
    BY <1>2, <2>1 DEF WorkerRecordsFailure, At
  <2>3. OnlyRevokes
    <3> HIDE DEF u
    <3>1. Keeps(job, job', {"prv", "blocked", "pend"}) /\ job'.prv = job.prv
      BY <2>1, <2>2, RecordFailureWrites
    <3> QED BY <3>1 DEF OnlyRevokes, Keeps, Silent, Fields
  <2>4. pc'.wrk[a] = "cleaning"
    BY <2>2, GoesMoves DEF Moved, Procs
  <2>5. WorkerGoesOn(a)
    BY <1>2, <2>4 DEF WorkerGoesOn
  <2> QED BY <2>2, <2>3, <2>5, PlacesKnown, WorkerMoves, FrameQuiet
<1> QED BY <1>1, <1>2 DEF WorkerRecordsFailure

LEMMA WorkerCleansPreserves ==
  ASSUME TypeOK, Facts, NEW a \in Attempts, WorkerCleans(a)
  PROVE  Facts'
<1>1. /\ pc.wrk[a] = "cleaning" /\ At("wrk", a, "cleaning") /\ job' = job
      /\ UNCHANGED <<cancelled, rec, prompts>>
  BY DEF WorkerCleans, At
<1>2. ASSUME NEW p \in {"gone", "settling-blocked"}, Goes("wrk", a, p), wiped' = wiped,
guard' = guard
      PROVE  Facts'
  <2>1. pc'.wrk[a] = p
    BY <1>2, GoesMoves DEF Moved, Procs
  <2>2. WorkerGoesOn(a)
    BY <1>1, <1>2, <2>1 DEF WorkerGoesOn, Bound, Ends
  <2>3. Quiet
    BY <1>1, <1>2 DEF Quiet
  <2> QED BY <1>1, <1>2, <2>2, <2>3, PlacesKnown, WorkerMoves, SameRevokes, FrameQuiet
<1>3. CASE /\ ProviderSettled(a) /\ wiped' = TRUE /\ guard' = 0
           /\ Goes("wrk", a, "settling")
  BY <1>1, <1>3, WorkerCleansKeeps
<1> QED BY <1>2, <1>3 DEF WorkerCleans

LEMMA WorkerSettlesPreserves ==
  ASSUME TypeOK, Facts, NEW a \in Attempts, WorkerSettles(a)
  PROVE  Facts'
<1>1. CASE CanSettlePreProvider(job, a, At("wrk", a, "settling"), Gone("prv", a))
  BY <1>1, WorkerSettlesKeeps
<1>2. CASE ~CanSettlePreProvider(job, a, At("wrk", a, "settling"), Gone("prv", a))
  <2>1. /\ job' = job /\ Quiet /\ Goes("wrk", a, "gone")
        /\ pc.wrk[a] \in {"settling", "settling-blocked"}
    BY <1>2 DEF WorkerSettles, Writes
  <2>2. pc'.wrk[a] = "gone"
    BY <2>1, GoesMoves DEF Moved, Procs
  <2>3. WorkerGoesOn(a)
    BY <2>1, <2>2 DEF WorkerGoesOn, Ends
  <2> QED BY <2>1, <2>3, PlacesKnown, WorkerMoves, SameRevokes, FrameQuiet
<1> QED BY <1>1, <1>2

(* The bootstrap, and deaths.                                              *)
LEMMA BootstrapRegistersPreserves ==
  ASSUME TypeOK, Facts, NEW a \in Attempts, BootstrapRegisters(a)
  PROVE  Facts'
<1>1. CASE CanRegisterGuard(job, a, guard)
  BY <1>1, BootstrapRegistersKeeps
<1>2. CASE ~CanRegisterGuard(job, a, guard)
  <2>1. job' = job /\ Goes("prv", a, "gone") /\ Quiet /\ pc.prv[a] = "boot"
    BY <1>2 DEF BootstrapRegisters, Writes, Quiet, At
  <2>2. pc'.prv[a] = "gone"
    BY <2>1, GoesMoves DEF Moved, Procs
  <2>3. ProviderGoesOn(a)
    BY <2>1, <2>2 DEF ProviderGoesOn, Ends
  <2> QED BY <2>1, <2>3, PlacesKnown, ProviderMoves, SameRevokes, FrameQuiet
<1> QED BY <1>1, <1>2

LEMMA BootstrapReadyPreserves ==
  ASSUME TypeOK, Facts, NEW a \in Attempts, BootstrapReady(a)
  PROVE  Facts'
<1>1. job' = job /\ Goes("prv", a, "running") /\ Quiet /\ pc.prv[a] = "guarded"
  BY DEF BootstrapReady, At
<1>2. pc'.prv[a] = "running"
  BY <1>1, GoesMoves DEF Moved, Procs
<1>3. ProviderGoesOn(a)
  BY <1>1, <1>2 DEF ProviderGoesOn
<1> QED BY <1>1, <1>3, PlacesKnown, ProviderMoves, SameRevokes, FrameQuiet

LEMMA BootstrapExitsPreserves ==
  ASSUME TypeOK, Facts, NEW a \in Attempts, BootstrapExits(a)
  PROVE  Facts'
<1>1. /\ job' = job /\ Goes("prv", a, "gone") /\ pc.prv[a] \notin {"none", "gone"}
      /\ guard' \in {guard, 0} /\ UNCHANGED <<cancelled, rec, wiped, prompts>>
  BY DEF BootstrapExits, Gone
<1>2. pc'.prv[a] = "gone" /\ job.fence = a
  BY <1>1, GoesMoves DEF Moved, Procs, Facts, OneLine
<1>3. ProviderGoesOn(a)
  BY <1>1, <1>2 DEF ProviderGoesOn, Ends
<1>4. Elsewhere(a) /\ GoesOn(a)
  BY <1>1, <1>3, PlacesKnown, ProviderMoves
<1>5. GuardKept
  BY <1>1, <1>2, <1>4, GuardGoes
<1> QED BY <1>1, <1>4, <1>5, SameRevokes, FrameAt

LEMMA DiesPreserves ==
  ASSUME TypeOK, Facts, NEW a \in Attempts, Dies(a)
  PROVE  Facts'
<1>1. /\ job' = job /\ UNCHANGED <<guard, cancelled, wiped, prompts>>
      /\ rec' = rec \/ rec' = [rec EXCEPT ![Watchdog] = Idle]
  BY DEF Dies
<1>2. OnlyRevokes /\ GuardKept
  BY <1>1, SameRevokes DEF GuardKept
<1>3. \A r \in Recoverers : rec'[r] = rec[r] \/ rec'[r].at = "idle"
  BY <1>1 DEF TypeOK, Idle
<1>4. CASE Goes("launcher", a, "done")
  <2>1. pc'.launcher[a] = "done"
    BY <1>4, GoesMoves DEF Moved, Procs
  <2>2. LauncherGoesOn(a)
    BY <2>1 DEF LauncherGoesOn
  <2> QED BY <1>1, <1>2, <1>3, <1>4, <2>2, PlacesKnown, LauncherMoves, FrameAt
<1>5. CASE pc.ctl[a] # "none" /\ Goes("ctl", a, "gone")
  <2>1. pc'.ctl[a] = "gone"
    BY <1>5, GoesMoves DEF Moved, Procs
  <2>2. ControllerGoesOn(a)
    BY <1>5, <2>1 DEF ControllerGoesOn, Ends
  <2> QED BY <1>1, <1>2, <1>3, <1>5, <2>2, PlacesKnown, ControllerMoves, FrameAt
<1>6. CASE pc.wrk[a] # "none" /\ Goes("wrk", a, "gone")
  <2>1. pc'.wrk[a] = "gone"
    BY <1>6, GoesMoves DEF Moved, Procs
  <2>2. WorkerGoesOn(a)
    BY <1>6, <2>1 DEF WorkerGoesOn, Ends
  <2> QED BY <1>1, <1>2, <1>3, <1>6, <2>2, PlacesKnown, WorkerMoves, FrameAt
<1> QED BY <1>4, <1>5, <1>6 DEF Dies, Gone

(* Steps of recoverers and from outside, which move no process.            *)
LEMMA FrameStill ==
  ASSUME TypeOK, Facts, pc' = pc, OnlyRevokes, GuardKept,
         wiped' = wiped, cancelled => cancelled', prompts' = prompts,
         \A r \in Recoverers : rec'[r] = rec[r] \/ rec'[r].at = "idle" \/ Informed(r)'
  PROVE  Facts'
<1>1. \A a \in Attempts : GoesOn(a)
  BY DEF GoesOn, LauncherGoesOn, ControllerGoesOn, WorkerGoesOn, ProviderGoesOn
<1> QED BY <1>1, Frame

LEMMA RestsIdle ==
  ASSUME TypeOK, NEW r \in Recoverers, Rests(r)
  PROVE  \A s \in Recoverers : rec'[s] = rec[s] \/ rec'[s].at = "idle"
BY DEF Rests, TypeOK, Idle

LEMMA GivesUpPreserves ==
  ASSUME TypeOK, Facts, NEW r \in Recoverers, GivesUp(r), pc' = pc,
         UNCHANGED <<guard, cancelled, wiped, prompts>>
  PROVE  Facts'
<1>1. job' = job \/ job' = Blocked(job, TRUE)
  BY DEF GivesUp, Blocked
<1>2. OnlyRevokes /\ GuardKept
  BY <1>1, SilentWrites, SameRevokes DEF GuardKept
<1>3. \A s \in Recoverers : rec'[s] = rec[s] \/ rec'[s].at = "idle"
  BY RestsIdle DEF GivesUp
<1> QED BY <1>2, <1>3, FrameStill

(* What a recoverer decides on, the others resting on what they know.      *)
LEMMA DecidesOn ==
  ASSUME TypeOK, NEW r \in Recoverers, NEW at, NEW op, NEW source, NEW j,
         Decides(r, at, op, source, j)
  PROVE  /\ rec'[r].at = at /\ rec'[r].op = op /\ rec'[r].attempt = j.fence
         /\ rec'[r].state = j.state
         /\ \A s \in Recoverers \ {r} : rec'[s] = rec[s]
BY DEF Decides, TypeOK

(* The actions of a recoverer.                                             *)
LEMMA ReadsPreserves ==
  ASSUME TypeOK, Facts, NEW r \in Recoverers, Reads(r)
  PROVE  Facts'
<1>1. /\ pc' = pc /\ UNCHANGED <<guard, cancelled, wiped, prompts>> /\ Contract(job)
      /\ job \in Record
  BY DEF Reads, TypeOK
<1>2. CASE GivesUp(r)
  BY <1>1, <1>2, GivesUpPreserves
<1>3. ASSUME NEW at, NEW op, NEW source, job' = job, Decides(r, at, op, source, job),
             at = "boundary" => LostWorker,
             op = "unstarted" /\ at # "boundary" => job.state \in {"claimed", "controller-started"},
             op = "lost" => LostProvider
      PROVE  Facts'
  <2>1. BothGone => SeenGone("ctl", job.fence)' /\ SeenGone("wrk", job.fence)'
    <3>1. SUFFICES ASSUME BothGone
                   PROVE  SeenGone("ctl", job.fence)' /\ SeenGone("wrk", job.fence)'
      OBVIOUS
    <3>2. job.ctl # 0 /\ job.wrk # 0 /\ Gone("ctl", job.ctl) /\ Gone("wrk", job.wrk)
      BY <3>1 DEF BothGone, CtlGone
    <3>3. job.ctl = job.fence /\ job.wrk = job.fence
      BY <1>1, <3>2, ContractSays
    <3>4. job.fence \in Attempts /\ pc.ctl[job.fence] = "gone" /\ pc.wrk[job.fence] = "gone"
      BY <3>2, <3>3 DEF Facts, Recovering, Gone
    <3> QED BY <1>1, <1>3, <3>4 DEF SeenGone
  <2>2. /\ rec'[r].at = at /\ rec'[r].op = op /\ rec'[r].attempt = job.fence
        /\ rec'[r].state = job.state
        /\ \A s \in Recoverers \ {r} : rec'[s] = rec[s]
    BY <1>3, DecidesOn
  <2>3. Informed(r)'
    BY <1>3, <2>1, <2>2 DEF Informed, Pursues, LostWorker, LostProvider, SeenGone
  <2>4. \A s \in Recoverers : rec'[s] = rec[s] \/ Informed(s)'
    BY <2>2, <2>3
  <2>5. OnlyRevokes /\ GuardKept
    BY <1>1, <1>3, SameRevokes DEF GuardKept
  <2> QED BY <1>1, <2>4, <2>5, FrameStill
<1>4. CASE /\ CleanupWitness(job, "controller-cleanup") # "none"
           /\ Decides(r, "fence", "unstarted", "controller-cleanup", job)
           /\ job' = job
  BY <1>3, <1>4, WitnessCases DEF Facts, Recovering
<1>5. CASE AbandonedClaim /\ Decides(r, "settle", "unstarted", "none", job) /\ job' = job
  BY <1>3, <1>5 DEF AbandonedClaim
<1>6. CASE /\ LostController /\ job' = job
           /\ \/ Decides(r, "settle", "unstarted", "none", job)
              \/ Decides(r, "fence", "unstarted", "unsettled-worker", job)
  BY <1>3, <1>6 DEF LostController
<1>7. CASE LostWorker /\ Decides(r, "boundary", "unstarted", "none", job) /\ job' = job
  BY <1>3, <1>7
<1>8. CASE LostProvider /\ Decides(r, "fence", "lost", "provider-generation", job) /\ job' = job
  BY <1>3, <1>8
<1>9. CASE /\ job' = job
           /\ \/ Decides(r, "settle", "failed", "none", job)
              \/ Decides(r, "fence", "failed", "provider-generation", job)
  BY <1>3, <1>9
<1> QED BY <1>2, <1>4, <1>5, <1>6, <1>7, <1>8, <1>9 DEF Reads

LEMMA ResolvesBoundaryPreserves ==
  ASSUME TypeOK, Facts, NEW r \in Recoverers, ResolvesBoundary(r)
  PROVE  Facts'
<1> DEFINE a == rec[r].attempt
           alive == guard # 0 /\ ~Gone("prv", a)
           absent == CanProviderNoChild(job, a, guard, TRUE)
           after == IF absent THEN ProviderNoChild(job) ELSE job
<1>1. /\ pc' = pc /\ UNCHANGED <<cancelled, wiped, prompts>> /\ job \in Record
      /\ a \in Attempts /\ pc.ctl[a] = "gone" /\ pc.wrk[a] = "gone"
  BY DEF ResolvesBoundary, Acting, Facts, Recovering, Informed, SeenGone, TypeOK
<1>2. job.fence = a
  BY <1>1 DEF Facts, OneLine
<1>3. ASSUME guard' = 0, ~alive PROVE GuardKept
  <2>1. ASSUME NEW b \in Attempts PROVE pc'.prv[b] \notin {"guarded", "running"}
    <3>1. SUFFICES ASSUME pc.prv[b] \in {"guarded", "running"} PROVE FALSE
      BY <1>1
    <3>2. guard = b /\ b = a
      BY <1>2, <3>1 DEF Facts, Worked, OneLine
    <3> QED BY <1>3, <3>1, <3>2 DEF Gone, Attempts
  <2> QED BY <1>3, <2>1 DEF GuardKept
<1>4. CASE /\ ~alive /\ (absent \/ (job.pi = "no-child" /\ guard = 0))
           /\ job' = after /\ guard' = 0 /\ Decides(r, "settle", "unstarted", "none", after)
  <2>1. absent => job.state \notin Early
    BY DEF CanProviderNoChild, Early
  <2>2. job'.pi = "no-child"
    BY <1>1, <1>4, ProviderNoChildWrites
  <2>3. OnlyRevokes
    BY <1>4, <2>1, SilentWrites, SameRevokes
  <2>4. /\ rec'[r].at = "settle" /\ rec'[r].op = "unstarted"
        /\ \A s \in Recoverers \ {r} : rec'[s] = rec[s]
    BY <1>4 DEF Decides, TypeOK
  <2>5. Informed(r)'
    BY <2>2, <2>4 DEF Informed, Pursues
  <2>6. ~alive
    BY <1>4
  <2> HIDE DEF alive, absent, after
  <2>7. GuardKept
    BY <1>3, <1>4, <2>6
  <2> QED BY <1>1, <2>3, <2>4, <2>5, <2>7, FrameStill
<1>5. CASE ~alive /\ guard' = 0 /\ job' = job /\ Rests(r)
  BY <1>1, <1>3, <1>5, SameRevokes, RestsIdle, FrameStill
<1>6. CASE /\ alive /\ CanProviderStarted(job, a) /\ job' = ProviderStarted(job) /\ guard' = guard
           /\ Decides(r, "fence", "lost", "provider-generation", ProviderStarted(job))
  <2>1. ProviderStarted(job).fence = a
    BY <1>1, <1>2, ProviderStartedWrites DEF Keeps, Fields
  <2>2. /\ rec'[r].at = "fence" /\ rec'[r].op = "lost" /\ rec'[r].attempt = a
        /\ \A s \in Recoverers \ {r} : rec'[s] = rec[s]
    BY <1>6, <2>1, DecidesOn
  <2>3. Informed(r)'
    BY <1>1, <2>2 DEF Informed, Pursues, SeenGone
  <2>4. \A s \in Recoverers : rec'[s] = rec[s] \/ Informed(s)'
    BY <2>2, <2>3
  <2> HIDE DEF a
  <2>5. guard # 0
    BY <1>6
  <2> QED BY <1>1, <1>6, <2>4, <2>5, PromotedKeeps
<1>7. CASE GivesUp(r) /\ guard' = guard
  BY <1>1, <1>7, GivesUpPreserves
<1> QED BY <1>4, <1>5, <1>6, <1>7 DEF ResolvesBoundary

LEMMA FencesPreserves ==
  ASSUME TypeOK, Facts, NEW r \in Recoverers, Fences(r)
  PROVE  Facts'
<1>1. CASE CanFence(job, rec[r].attempt, rec[r].state, rec[r].source)
  BY <1>1, FencesKeeps
<1>2. CASE ~CanFence(job, rec[r].attempt, rec[r].state, rec[r].source)
  BY <1>2, GivesUpPreserves DEF Fences
<1> QED BY <1>1, <1>2

LEMMA SignalsPreserves ==
  ASSUME TypeOK, Facts, NEW r \in Recoverers, Signals(r)
  PROVE  Facts'
<1> DEFINE x == Target(rec[r].source)
           n == rec[r].attempt
<1>1. UNCHANGED <<guard, cancelled, wiped, prompts>> /\ x \in {"ctl", "wrk", "prv"}
  BY DEF Signals, Target
<1>2. CASE GivesUp(r) /\ pc' = pc
  BY <1>1, <1>2, GivesUpPreserves
<1>3. CASE /\ pc' = [pc EXCEPT ![x][n] = IF @ = "none" THEN @ ELSE "gone"]
           /\ Proceeds(r, "settle") /\ job' = job
  <2> HIDE DEF x, n
  <2>1. ASSUME NEW b \in Attempts
        PROVE  /\ pc'.launcher[b] = pc.launcher[b]
               /\ pc'.ctl[b] = pc.ctl[b] \/ (pc.ctl[b] # "none" /\ pc'.ctl[b] = "gone")
               /\ pc'.wrk[b] = pc.wrk[b] \/ (pc.wrk[b] # "none" /\ pc'.wrk[b] = "gone")
               /\ pc'.prv[b] = pc.prv[b] \/ (pc.prv[b] # "none" /\ pc'.prv[b] = "gone")
    BY <1>1, <1>3 DEF TypeOK, Procs
  <2>2. ASSUME NEW b \in Attempts PROVE GoesOn(b)
    BY <2>1 DEF GoesOn, LauncherGoesOn, ControllerGoesOn, WorkerGoesOn, ProviderGoesOn, Ends
  <2>3. /\ rec[r].at = "signal" /\ rec'[r].at = "settle" /\ rec'[r].op = rec[r].op
        /\ rec'[r].attempt = rec[r].attempt /\ rec'[r].state = rec[r].state
        /\ \A s \in Recoverers \ {r} : rec'[s] = rec[s]
    BY <1>3 DEF Signals, Acting, Proceeds, TypeOK, RecRec
  <2>4. \A b \in Attempts : pc.ctl[b] = "gone" => pc'.ctl[b] = "gone"
    BY <2>1
  <2>5. Informed(r)'
    BY <1>3, <2>3, <2>4 DEF Informed, Pursues, SeenGone, Facts, Recovering
  <2>6. \A s \in Recoverers : rec'[s] = rec[s] \/ Informed(s)'
    BY <2>3, <2>5
  <2>7. OnlyRevokes /\ GuardKept
    BY <1>1, <1>3, SameRevokes DEF GuardKept
  <2> QED BY <1>1, <2>2, <2>6, <2>7, Frame
<1> QED BY <1>2, <1>3 DEF Signals

LEMMA SettlesJobPreserves ==
  ASSUME TypeOK, Facts, NEW r \in Recoverers, SettlesJob(r)
  PROVE  Facts'
<1>1. pc' = pc /\ UNCHANGED <<cancelled, prompts>> /\ rec[r].at = "settle"
  BY DEF SettlesJob, Acting
<1>2. CASE Rests(r) /\ UNCHANGED <<job, wiped, guard>>
  <2>1. OnlyRevokes /\ GuardKept
    BY <1>2, SameRevokes DEF GuardKept
  <2> QED BY <1>1, <1>2, <2>1, RestsIdle, FrameStill
<1>3. CASE /\ MaySettle(r) /\ ProviderSettled(rec[r].attempt)
           /\ job' = Settled(rec[r].op) /\ wiped' = TRUE /\ guard' = 0 /\ Rests(r)
  BY <1>1, <1>3, SettlesJobKeeps
<1>4. CASE GivesUp(r) /\ UNCHANGED <<wiped, guard>>
  BY <1>1, <1>4, GivesUpPreserves
<1> QED BY <1>2, <1>3, <1>4 DEF SettlesJob

(* What comes from outside.                                                *)
LEMMA CancelsPreserves ==
  ASSUME TypeOK, Facts, Cancels
  PROVE  Facts'
<1>1. /\ pc' = pc /\ guard' = guard /\ rec' = rec /\ prompts' = prompts /\ cancelled'
      /\ GuardKept
  BY DEF Cancels, GuardKept
<1>2. CASE job' = Blocked(job, FALSE) /\ wiped' = wiped
  <2>1. OnlyRevokes
    BY <1>2, SilentWrites
  <2> QED BY <1>1, <1>2, <2>1, FrameStill
<1>3. CASE job' = Cancelled(job, guard) /\ wiped' = (wiped \/ CancelEndsIt(job, guard))
  <2>1. CASE CancelEndsIt(job, guard)
    BY <1>3, <2>1, CancelsPendingKeeps
  <2>2. CASE ~CancelEndsIt(job, guard)
    <3>1. job' = Blocked(job, FALSE) /\ wiped' = wiped
      BY <1>3, <2>2 DEF Cancelled, Blocked, TypeOK
    <3> QED BY <1>2, <3>1
  <2> QED BY <2>1, <2>2
<1> QED BY <1>2, <1>3 DEF Cancels, Blocked

LEMMA LeaseExpiresPreserves ==
  ASSUME TypeOK, Facts, LeaseExpires
  PROVE  Facts'
<1>1. pc' = pc /\ Quiet /\ job' = Unleased(job)
  BY DEF LeaseExpires, Unleased
<1>2. OnlyRevokes /\ GuardKept
  BY <1>1, SilentWrites DEF GuardKept, Quiet
<1> QED BY <1>1, <1>2, FrameStill DEF Quiet

-----------------------------------------------------------------------------
(* Every step preserves the invariant.                                     *)

LEMMA InitInv == Init => Inv
<1> SUFFICES ASSUME Init PROVE Inv
  OBVIOUS
<1>1. job \in Record /\ job.state = "pending" /\ job.fence = 0 /\ job.status = "active"
  BY AttemptsAssumption DEF Init, Committed, Record, States, Intents, Witnesses, Sources, Statuses
<1>2. /\ guard = 0 /\ ~cancelled /\ ~wiped /\ prompts = 0 /\ faults = 0
      /\ \A x \in Procs, a \in Attempts : pc[x][a] = "none"
      /\ \A r \in Recoverers : rec[r] = Idle
  BY DEF Init, Places, Procs
<1>3. TypeOK
  <2>1. pc \in [Procs -> [Attempts -> AllPlaces]]
    BY DEF Init, Places, Procs, AllPlaces
  <2>2. rec \in [Recoverers -> RecRec]
    BY AttemptsAssumption DEF Init, Idle, RecRec, Ops, Sources, States
  <2>3. Placed
    BY <1>2 DEF Placed, Places, Procs
  <2>4. cancelled \in BOOLEAN /\ wiped \in BOOLEAN
    BY Zenon DEF Init
  <2>5. guard \in 0..MaxAttempts /\ prompts \in Nat /\ faults \in Nat
    BY <1>2, AttemptsAssumption
  <2> QED BY <1>1, <2>1, <2>2, <2>3, <2>4, <2>5 DEF TypeOK
<1>4. Launched /\ OneLine /\ Controlled /\ Worked /\ Closed /\ Recovering /\ Prompted
  <2>1. /\ job.authorized /\ job.auth = job.fence /\ ~job.consumed
        /\ job.ctl = 0 /\ job.wrk = 0 /\ job.wi = "none" /\ job.pi = "none"
        /\ job.ccp = "none" /\ job.uw = "none" /\ job.cf = "none"
        /\ job.ci = "none" /\ job.prv = "none" /\ job.gen = 0 /\ ~job.up
    BY DEF Init, Committed
  <2>2. Launched /\ OneLine /\ Controlled
    BY <1>1, <1>2, <2>1 DEF Launched, Bare, OneLine, Controlled, Gone, Early, Procs
  <2>3. Worked /\ Closed
    BY <1>1, <1>2, <2>1 DEF Worked, Closed, Bound, Gone, Early, Procs, Terminal
  <2>4. Recovering /\ Prompted
    BY <1>1, <1>2, <2>1 DEF Recovering, Informed, Pursues, Idle, Prompted, Recoverers
  <2> QED BY <2>2, <2>3, <2>4
<1> QED BY <1>3, <1>4 DEF Inv

LEMMA LauncherPreserves ==
  ASSUME TypeOK, Facts, NEW a \in Attempts, Launcher(a)
  PROVE  TypeOK' /\ Facts'
<1>1. CASE LauncherPrepares(a)
  BY <1>1, LauncherPreparesTyped, LauncherPreparesPreserves
<1>2. CASE LauncherSpawns(a)
  BY <1>2, LauncherSpawnsTyped, LauncherSpawnsPreserves
<1>3. CASE LauncherReadsToken(a)
  BY <1>3, LauncherReadsTokenTyped, LauncherReadsTokenPreserves
<1>4. CASE LauncherPublishes(a)
  BY <1>4, LauncherPublishesTyped, LauncherPublishesPreserves
<1>5. CASE LauncherCleansUp(a)
  BY <1>5, LauncherCleansUpTyped, LauncherCleansUpPreserves
<1>6. CASE LauncherFails(a)
  BY <1>6, LauncherFailsTyped, LauncherFailsPreserves
<1> QED BY <1>1, <1>2, <1>3, <1>4, <1>5, <1>6 DEF Launcher

LEMMA ControllerPreserves ==
  ASSUME TypeOK, Facts, NEW a \in Attempts, Controller(a)
  PROVE  TypeOK' /\ Facts'
<1>1. CASE ControllerRegisters(a)
  BY <1>1, ControllerRegistersTyped, ControllerRegistersPreserves
<1>2. CASE ControllerPrepares(a)
  BY <1>2, ControllerPreparesTyped, ControllerPreparesPreserves
<1>3. CASE ControllerSpawns(a)
  BY <1>3, ControllerSpawnsTyped, ControllerSpawnsPreserves
<1>4. CASE ControllerReadsIdentity(a)
  BY <1>4, ControllerReadsIdentityTyped, ControllerReadsIdentityPreserves
<1>5. CASE ControllerPublishes(a)
  BY <1>5, ControllerPublishesTyped, ControllerPublishesPreserves
<1>6. CASE ControllerWatches(a)
  BY <1>6, ControllerWatchesTyped, ControllerWatchesPreserves
<1>7. CASE ControllerRecovered(a)
  BY <1>7, ControllerRecoveredTyped, ControllerRecoveredPreserves
<1> QED BY <1>1, <1>2, <1>3, <1>4, <1>5, <1>6, <1>7 DEF Controller

LEMMA WorkerPreserves ==
  ASSUME TypeOK, Facts, NEW a \in Attempts, Worker(a)
  PROVE  TypeOK' /\ Facts'
<1>1. CASE WorkerRegisters(a)
  BY <1>1, WorkerRegistersTyped, WorkerRegistersPreserves
<1>2. CASE WorkerConsumes(a)
  BY <1>2, WorkerConsumesTyped, WorkerConsumesPreserves
<1>3. CASE WorkerPrepares(a)
  BY <1>3, WorkerPreparesTyped, WorkerPreparesPreserves
<1>4. CASE WorkerSpawns(a)
  BY <1>4, WorkerSpawnsTyped, WorkerSpawnsPreserves
<1>5. CASE WorkerReadsIdentity(a)
  BY <1>5, WorkerReadsIdentityTyped, WorkerReadsIdentityPreserves
<1>6. CASE WorkerPromotes(a)
  BY <1>6, WorkerPromotesTyped, WorkerPromotesPreserves
<1>7. CASE WorkerAbandonsProvider(a)
  BY <1>7, WorkerAbandonsProviderTyped, WorkerAbandonsProviderPreserves
<1>8. CASE WorkerEnds(a)
  BY <1>8, WorkerEndsTyped, WorkerEndsPreserves
<1>9. CASE WorkerFinalizes(a)
  BY <1>9, WorkerFinalizesTyped, WorkerFinalizesPreserves
<1>10. CASE WorkerRecordsFailure(a)
  BY <1>10, WorkerRecordsFailureTyped, WorkerRecordsFailurePreserves
<1>11. CASE WorkerCleans(a)
  BY <1>11, WorkerCleansTyped, WorkerCleansPreserves
<1>12. CASE WorkerSettles(a)
  BY <1>12, WorkerSettlesTyped, WorkerSettlesPreserves
<1> QED BY <1>1, <1>2, <1>3, <1>4, <1>5, <1>6, <1>7, <1>8, <1>9, <1>10, <1>11, <1>12 DEF Worker

LEMMA RecoversPreserves ==
  ASSUME TypeOK, Facts, NEW r \in Recoverers, Recovers(r)
  PROVE  TypeOK' /\ Facts'
<1>1. CASE Reads(r)
  BY <1>1, ReadsTyped, ReadsPreserves
<1>2. CASE ResolvesBoundary(r)
  BY <1>2, ResolvesBoundaryTyped, ResolvesBoundaryPreserves
<1>3. CASE Fences(r)
  BY <1>3, FencesTyped, FencesPreserves
<1>4. CASE Signals(r)
  BY <1>4, SignalsTyped, SignalsPreserves
<1>5. CASE SettlesJob(r)
  BY <1>5, SettlesJobTyped, SettlesJobPreserves
<1> QED BY <1>1, <1>2, <1>3, <1>4, <1>5 DEF Recovers

LEMMA NextPreserves == Inv /\ [Next]_vars => Inv'
<1> SUFFICES ASSUME TypeOK, Facts, [Next]_vars PROVE TypeOK' /\ Facts'
  BY DEF Inv, Facts
<1>1. ASSUME NEW a \in Attempts, ClaimAttempt(a) PROVE TypeOK' /\ Facts'
  BY <1>1, ClaimAttemptTyped, ClaimAttemptKeeps
<1>2. ASSUME NEW a \in Attempts, Launcher(a) PROVE TypeOK' /\ Facts'
  BY <1>2, LauncherPreserves
<1>3. ASSUME NEW a \in Attempts, Controller(a) PROVE TypeOK' /\ Facts'
  BY <1>3, ControllerPreserves
<1>4. ASSUME NEW a \in Attempts, Worker(a) PROVE TypeOK' /\ Facts'
  BY <1>4, WorkerPreserves
<1>5. ASSUME NEW a \in Attempts, Bootstrap(a) PROVE TypeOK' /\ Facts'
  <2>1. CASE BootstrapRegisters(a)
    BY <2>1, BootstrapRegistersTyped, BootstrapRegistersPreserves
  <2>2. CASE BootstrapReady(a)
    BY <2>2, BootstrapReadyTyped, BootstrapReadyPreserves
  <2> QED BY <1>5, <2>1, <2>2 DEF Bootstrap
<1>6. ASSUME NEW a \in Attempts, BootstrapExits(a) PROVE TypeOK' /\ Facts'
  BY <1>6, BootstrapExitsTyped, BootstrapExitsPreserves
<1>7. ASSUME NEW a \in Attempts, Dies(a) PROVE TypeOK' /\ Facts'
  BY <1>7, DiesTyped, DiesPreserves
<1>8. ASSUME NEW r \in Recoverers, Recovers(r) PROVE TypeOK' /\ Facts'
  BY <1>8, RecoversPreserves
<1>9. CASE Cancels
  BY <1>9, CancelsTyped, CancelsPreserves
<1>10. CASE LeaseExpires
  BY <1>10, LeaseExpiresTyped, LeaseExpiresPreserves
<1>11. CASE UNCHANGED vars
  <2>1. TypeOK'
    BY <1>11 DEF vars, TypeOK, Placed
  <2>2. Facts'
    BY <1>11 DEF vars, Facts, Launched, Bare, OneLine, Controlled, Worked, Closed, NoSpawn,
                 Recovering, Informed, Pursues, SeenGone, Prompted, Gone, Terminal
  <2> QED BY <2>1, <2>2
<1> QED BY <1>1, <1>2, <1>3, <1>4, <1>5, <1>6, <1>7, <1>8, <1>9, <1>10, <1>11 DEF Next

(* Every reachable state of the processes of a brokered worker satisfies   *)
(* the inductive invariant.                                                *)
THEOREM Invariance == Spec => []Inv
<1>1. Init => Inv
  BY InitInv
<1>2. Inv /\ [Next]_vars => Inv'
  BY NextPreserves
<1> QED BY <1>1, <1>2, PTL DEF Spec

-----------------------------------------------------------------------------
(* What the runs check.                                                    *)

(* The prompt is given to a provider once at most, for any number of       *)
(* claims, hosts, cancellations and deaths: only a worker that has         *)
(* registered gives it, in a state it leaves by giving it.                 *)
THEOREM PromptIsNeverReplayedHolds == Spec => []PromptIsNeverReplayed
<1>1. Inv => PromptIsNeverReplayed
  BY DEF Inv, Prompted, TypeOK, PromptIsNeverReplayed
<1> QED BY <1>1, Invariance, PTL

(* Of all the attempts that ever claim the job one creates processes:      *)
(* the record binds each controller that exists to the attempt on record.  *)
THEOREM OneAttemptSpawnsHolds == Spec => []OneAttemptSpawns
<1>1. Inv => OneAttemptSpawns
  BY DEF Inv, OneLine, OneAttemptSpawns, Attempts
<1> QED BY <1>1, Invariance, PTL

(* The artifacts are deleted when no provider is left that uses them, and  *)
(* a job that has ended left neither artifacts nor a guard.                *)
THEOREM CleanupIsLastHolds == Spec => []CleanupIsLast
<1>1. Inv => CleanupIsLast
  BY DEF Inv, Closed, Worked, CleanupIsLast, Attempts
<1> QED BY <1>1, Invariance, PTL

(* A recoverer whose step ends the job settles it, and settles it when no  *)
(* process of it is left.                                                  *)
LEMMA OnlySettlingEnds ==
  ASSUME TypeOK, Facts, NEW r \in Recoverers, Next, EndsByRecovery(r)
  PROVE  SettlesJob(r)
<1>1. rec[r].at = "settle" /\ rec'[r] # rec[r] /\ job' # job
  BY DEF EndsByRecovery, Terminal
<1>2. \A a \in Attempts :
        ~ClaimAttempt(a) /\ ~Launcher(a) /\ ~Controller(a) /\ ~Bootstrap(a)
  BY <1>1 DEF ClaimAttempt, Launcher, LauncherPrepares, LauncherSpawns, LauncherReadsToken,
       LauncherPublishes, LauncherCleansUp, LauncherFails, Controller, ControllerRegisters,
       ControllerPrepares, ControllerSpawns, ControllerReadsIdentity, ControllerPublishes,
       ControllerWatches, ControllerRecovered, Bootstrap, BootstrapRegisters, BootstrapReady, Quiet
<1>3. \A a \in Attempts : ~Worker(a) /\ ~BootstrapExits(a) /\ ~Dies(a)
  BY <1>1 DEF Worker, WorkerRegisters, WorkerConsumes, WorkerPrepares, WorkerSpawns,
       WorkerReadsIdentity, WorkerPromotes, WorkerAbandonsProvider, WorkerEnds, WorkerFinalizes,
       WorkerRecordsFailure, WorkerCleans, WorkerSettles, BootstrapExits, Dies, Quiet
<1>4. ~Cancels /\ ~LeaseExpires
  BY <1>1 DEF Cancels, LeaseExpires, Quiet
<1>5. PICK s \in Recoverers : Recovers(s)
  BY <1>2, <1>3, <1>4 DEF Next
<1>6. s = r
  BY <1>1, <1>5 DEF Recovers, Reads, ResolvesBoundary, Fences, Signals, SettlesJob, GivesUp,
       Rests, Proceeds, Decides, TypeOK
<1> QED BY <1>1, <1>5, <1>6 DEF Recovers, Reads, ResolvesBoundary, Fences, Signals, Acting

(* Recovery ends no job that has a live worker or a provider past its      *)
(* start, and a host none that has a live controller: what a recoverer has *)
(* seen gone is gone for good, and nothing it revoked is made again.       *)
THEOREM RecoverySparesTheLivingHolds == Spec => RecoverySparesTheLiving
<1>1. ASSUME Inv, [Next]_vars, NEW r \in Recoverers, EndsByRecovery(r), NEW a \in Attempts
      PROVE  /\ ~Alive("wrk", a) /\ pc.prv[a] \notin {"guarded", "running"}
             /\ r # Watchdog => ~Alive("ctl", a)
  <2>1. TypeOK /\ Facts
    BY <1>1 DEF Inv, Facts
  <2>2. SettlesJob(r)
    <3>1. Next
      BY <1>1 DEF EndsByRecovery, vars
    <3> QED BY <1>1, <2>1, <3>1, OnlySettlingEnds
  <2>3. /\ rec[r].at = "settle" /\ MaySettle(r)
        /\ ProviderSettled(rec[r].attempt)
    <3>1. ~(GivesUp(r) \/ job' = job)
      BY <1>1, <2>1 DEF EndsByRecovery, Terminal, GivesUp, TypeOK, Record
    <3> QED BY <2>2, <3>1 DEF SettlesJob, Acting
  <2>4. /\ Gone("wrk", a) /\ (Gone("ctl", a) \/ r = Watchdog)
        /\ job.fence = rec[r].attempt
    BY <2>1, <2>3, NoneIsLeft DEF Current
  <2>5. pc.prv[a] \notin {"guarded", "running"}
    BY <2>1, <2>3, <2>4 DEF Facts, Worked, OneLine, ProviderSettled, Gone, Attempts
  <2> QED BY <2>4, <2>5 DEF Gone, Alive
<1>2. Inv /\ [Next]_vars =>
        [\A r \in Recoverers : EndsByRecovery(r) =>
           \A a \in Attempts :
             /\ ~Alive("wrk", a) /\ pc.prv[a] \notin {"guarded", "running"}
             /\ r # Watchdog => ~Alive("ctl", a)]_vars
  BY <1>1
<1> QED BY <1>2, Invariance, PTL DEF Spec, RecoverySparesTheLiving

=============================================================================
