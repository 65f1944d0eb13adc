----------------------- MODULE WorkerDispatchInvariant -----------------------
(* The inductive invariant behind what the run of WorkerDispatch checks of   *)
(* the processes of one brokered worker, and that every step keeps the       *)
(* types.  The record is written by whoever gets the lock, so the invariant  *)
(* says for each process what no other may have done to the record while     *)
(* the process is where it is.                                               *)
EXTENDS WorkerDispatch, TLAPS

Ops == {"unstarted", "failed", "lost"}
RecRec == [at : {"idle", "boundary", "fence", "signal", "settle"}, op : Ops,
           source : Sources, attempt : 0..MaxAttempts, state : States]

Procs == {"launcher", "ctl", "wrk", "prv"}
AllPlaces == Places.launcher \cup Places.ctl \cup Places.wrk \cup Places.prv

Placed == \A x \in Procs, a \in Attempts : pc[x][a] \in Places[x]

TypeOK ==
  /\ job \in Record /\ guard \in 0..MaxAttempts
  /\ cancelled \in BOOLEAN /\ wiped \in BOOLEAN
  /\ pc \in [Procs -> [Attempts -> AllPlaces]] /\ Placed
  /\ rec \in [Recoverers -> RecRec]
  /\ prompts \in Nat /\ faults \in Nat

(* The record before a launcher has prepared a spawn: it may be claimed    *)
(* again, unless it is cancelled, and nothing can be wrong with it.        *)
Early == {"pending", "claimed"}
Bare(j) ==
  /\ j.authorized /\ j.auth = j.fence /\ ~j.consumed
  /\ j.ctl = 0 /\ j.wrk = 0 /\ j.wi = "none" /\ j.pi = "none"
  /\ j.ccp = "none" /\ j.uw = "none" /\ j.cf = "none"
Launched ==
  /\ job.state = "pending" => job.ci = "none"
  /\ job.state # "pending" => job.fence # 0
  /\ job.state \in Early /\ job.ci = "none" => Bare(job)
  /\ \A a \in Attempts :
       /\ pc.launcher[a] = "prepared" =>
            /\ job.fence = a /\ job.state = "claimed" /\ job.ci = "pending"
            /\ job.ccp = "none" /\ pc.ctl[a] = "none"
       /\ pc.launcher[a] = "failing-pidless" => job.fence = a /\ job.ci # "none"
       /\ pc.launcher[a] \in {"failing-blind", "settling"} =>
            (job.fence = a /\ job.state = "claimed" /\ job.ci = "none" => cancelled)

(* One attempt has processes, and each process one that created it.        *)
OneLine ==
  \A a \in Attempts :
    /\ pc.ctl[a] # "none" => job.fence = a /\ job.ci # "none"
    /\ pc.launcher[a] \in {"spawned", "tokened", "failing"} => pc.ctl[a] # "none"
    /\ pc.ctl[a] \in {"spawned", "registering"} => pc.wrk[a] # "none"
    /\ pc.wrk[a] # "none" => pc.ctl[a] # "none"
    /\ pc.prv[a] # "none" => pc.wrk[a] # "none"

(* The record while there is no worker to change it: only a controller     *)
(* that lives leads it on.                                                 *)
Controlled ==
  /\ job.state \in Early => job.wi = "none"
  /\ job.state \in Early \cup {"controller-started"} => job.prv = "none"
  /\ job.state \in Early \cup {"controller-started", "worker-started"} =>
       job.status = "active" /\ job.gen = 0
  /\ \A a \in Attempts :
       /\ job.state \in Early => pc.wrk[a] = "none"
       /\ job.state = "claimed" /\ ~Gone("ctl", a) => job.ci = "pending"
       /\ pc.ctl[a] = "boot" => job.state \in {"claimed", "controller-started"} /\ job.wi = "none"
       /\ pc.ctl[a] = "owned" => job.state = "controller-started" /\ job.wi = "none"
       /\ pc.ctl[a] = "prepared" => job.state = "controller-started" /\ job.wi = "pending"
       /\ pc.ctl[a] \in {"boot", "owned", "prepared"} => pc.wrk[a] = "none"
       /\ job.state = "controller-started" /\ ~Gone("wrk", a) => job.wi \notin {"none", "no-child"}

(* The record while there is a worker that has registered: nobody else     *)
(* leads it on, so what the worker has recorded of its provider stands.    *)
Bound == {"owned", "ready", "prepared", "spawned", "waiting", "failing", "failing-unbound",
          "cleaning", "settling", "settling-blocked"}
Worked ==
  /\ job.up => job.prv # "none"
  /\ job.state = "failed" /\ job.prv = "none" => job.gen = 0
  /\ job.state = "worker-started" =>
       /\ job.ctl = job.fence /\ job.wrk = job.fence
       /\ job.ci = "registered" /\ job.wi = "registered"
       /\ job.ccp = "none" /\ job.uw = "none"
       /\ job.cf # "none" => job.prv # "none"
       /\ IF job.authorized THEN job.auth = job.fence /\ ~job.consumed ELSE job.consumed
  /\ \A a \in Attempts :
       /\ pc.wrk[a] = "boot" =>
            job.state \in {"controller-started", "worker-started", "failed"}
       /\ pc.wrk[a] \in Bound => job.state = "worker-started"
       /\ pc.wrk[a] \in {"running", "finalizing"} =>
            job.state = "provider-started" /\ job.status = "active"
       /\ pc.wrk[a] \in {"boot", "owned", "ready", "prepared"} => pc.prv[a] = "none"
       /\ pc.wrk[a] \in {"boot", "owned", "ready", "prepared", "spawned"} => job.prv = "none"
       /\ pc.wrk[a] \in {"failing", "cleaning"} /\ ~Gone("prv", a) => job.prv # "none"
       /\ pc.prv[a] # "none" => job.state \notin Early \cup {"controller-started"}
       /\ pc.prv[a] \in {"guarded", "running"} => guard = a

(* Once the artifacts are gone nothing more can be started or registered.  *)
NoSpawn(a) ==
  /\ pc.launcher[a] # "prepared"
  /\ pc.ctl[a] \notin {"boot", "owned", "prepared"}
  /\ pc.wrk[a] \in {"none", "boot", "settling", "gone"}
  /\ pc.wrk[a] = "boot" => job.state \in {"controller-started", "failed"}
  /\ pc.prv[a] = "boot" => job.pi = "no-child" \/ (job.state = "failed" /\ job.gen = 0)
Closed ==
  /\ wiped =>
       /\ guard = 0 /\ job.state # "pending"
       /\ job.state = "claimed" =>
            job.ci = "no-child" \/ (job.ci = "none" /\ cancelled)
       /\ job.state = "controller-started" => job.ci = "no-child"
       /\ \A a \in Attempts : NoSpawn(a)
  /\ \A a \in Attempts :
       /\ pc.launcher[a] = "settling" => wiped
       /\ pc.launcher[a] = "settling" /\ job.fence = a =>
            job.state \notin {"worker-started", "provider-started"}
       /\ pc.wrk[a] = "settling" => wiped
  /\ Terminal(job) => wiped

(* What a recoverer has seen gone stays gone, and what it has revoked      *)
(* stays revoked.                                                          *)
Pursues(r, op) == rec[r].at \in {"fence", "signal", "settle"} /\ rec[r].op = op
SeenGone(x, a) == a \in Attempts /\ pc[x][a] = "gone"
Informed(r) ==
  /\ rec[r].at = "boundary" =>
       SeenGone("ctl", rec[r].attempt) /\ SeenGone("wrk", rec[r].attempt)
  /\ Pursues(r, "unstarted") =>
       rec[r].state \in {"claimed", "controller-started"} \/ job.pi = "no-child"
  /\ Pursues(r, "lost") /\ r # Watchdog => SeenGone("ctl", rec[r].attempt)
Recovering ==
  /\ job.ccp # "none" => job.state \in {"claimed", "controller-started"}
  /\ job.ctl # 0 => job.ctl \in Attempts /\ pc.ctl[job.ctl] # "none"
  /\ job.wrk # 0 => job.wrk \in Attempts /\ pc.wrk[job.wrk] # "none"
  /\ \A r \in Recoverers : Informed(r)

Prompted ==
  prompts # 0 => prompts = 1 /\ job.state \in {"provider-started", "failed"}

Inv ==
  /\ TypeOK /\ Launched /\ OneLine /\ Controlled /\ Worked /\ Closed /\ Recovering /\ Prompted

-----------------------------------------------------------------------------
(* The record.                                                             *)
Fields == {"status", "state", "fence", "leased", "auth", "authorized", "consumed", "ctl",
           "wrk", "prv", "gen", "ci", "wi", "pi", "notLaunched", "ccp", "uw", "up", "cf",
           "cfState", "pend", "blocked"}
Keeps(j, k, changed) == \A f \in Fields \ changed : k[f] = j[f]

(* The fields the invariant does not speak of.                             *)
Silent == {"leased", "notLaunched", "cfState", "pend", "blocked"}

Typed(j) ==
  /\ j.status \in Statuses /\ j.state \in States /\ j.fence \in 0..MaxAttempts
  /\ j.leased \in BOOLEAN /\ j.auth \in 0..MaxAttempts /\ j.authorized \in BOOLEAN
  /\ j.consumed \in BOOLEAN /\ j.ctl \in 0..MaxAttempts /\ j.wrk \in 0..MaxAttempts
  /\ j.prv \in Witnesses \cup {"unbound"} /\ j.gen \in {0, 1}
  /\ j.ci \in Intents /\ j.wi \in Intents /\ j.pi \in Intents
  /\ j.notLaunched \in BOOLEAN /\ j.ccp \in Witnesses \cup {"nobody"}
  /\ j.uw \in Witnesses
  /\ j.up \in BOOLEAN /\ j.cf \in Sources /\ j.cfState \in States
  /\ j.pend \in {"none", "completed", "stopped"} /\ j.blocked \in BOOLEAN
Whole(j) ==
  j = [status |-> j.status, state |-> j.state, fence |-> j.fence, leased |-> j.leased,
       auth |-> j.auth, authorized |-> j.authorized, consumed |-> j.consumed,
       ctl |-> j.ctl, wrk |-> j.wrk, prv |-> j.prv, gen |-> j.gen, ci |-> j.ci,
       wi |-> j.wi, pi |-> j.pi, notLaunched |-> j.notLaunched, ccp |-> j.ccp,
       uw |-> j.uw, up |-> j.up, cf |-> j.cf, cfState |-> j.cfState, pend |-> j.pend,
       blocked |-> j.blocked]

(* The fields one by one, for a record and what a write makes of it.       *)
LEMMA RecordTyped ==
  ASSUME NEW j \in Record
  PROVE  Typed(j) /\ DOMAIN j = Fields
BY DEF Record, Typed, Fields

LEMMA WholeRecord ==
  ASSUME NEW j, Typed(j), Whole(j)
  PROVE  j \in Record
BY DEF Record, Typed, Whole

LEMMA TypedRecord ==
  ASSUME NEW j, Typed(j), j = [f \in Fields |-> j[f]]
  PROVE  j \in Record
<1>1. Whole(j)
  BY DEF Whole, Fields
<1> QED BY <1>1, WholeRecord

(* What a write leaves alone keeps its type.                               *)
TypedField(j, f) ==
  /\ f = "status" => j[f] \in Statuses
  /\ f \in {"state", "cfState"} => j[f] \in States
  /\ f \in {"fence", "auth", "ctl", "wrk"} => j[f] \in 0..MaxAttempts
  /\ f = "prv" => j[f] \in Witnesses \cup {"unbound"}
  /\ f = "gen" => j[f] \in {0, 1}
  /\ f \in {"ci", "wi", "pi"} => j[f] \in Intents
  /\ f = "ccp" => j[f] \in Witnesses \cup {"nobody"}
  /\ f = "uw" => j[f] \in Witnesses
  /\ f = "cf" => j[f] \in Sources
  /\ f = "pend" => j[f] \in {"none", "completed", "stopped"}
  /\ f \in {"leased", "authorized", "consumed", "notLaunched", "up", "blocked"} =>
       j[f] \in BOOLEAN

LEMMA KeepsTyped ==
  ASSUME NEW j, NEW k, NEW F, Typed(j), Keeps(j, k, F), \A f \in F \cap Fields : TypedField(k, f)
  PROVE  Typed(k)
<1>1. ASSUME NEW f \in Fields PROVE TypedField(k, f)
  <2>1. CASE f \in F  BY <2>1
  <2>2. CASE f \notin F
    <3>1. k[f] = j[f]  BY <2>2 DEF Keeps
    <3>2. TypedField(j, f)  BY DEF TypedField, Typed, Fields
    <3> QED BY <3>1, <3>2 DEF TypedField
  <2> QED BY <2>1, <2>2
<1> QED BY <1>1 DEF TypedField, Typed, Fields

(* Writes that are not operators of their own: settleFailedDispatchCleanup,*)
(* a cleanup that is blocked, a lease that runs out, a result.             *)
SettleFailed(j) == [SettleAsIntended(j) EXCEPT !.cf = "none"]
Blocked(j, b) == [j EXCEPT !.blocked = b]
Unleased(j) == [j EXCEPT !.leased = FALSE]
Ended(j, o) == [j EXCEPT !.pend = o, !.blocked = FALSE]

(* What each write of DispatchRecord changes and what it leaves alone.      *)
LEMMA ClaimWrites ==
  ASSUME NEW j \in Record, j.fence < MaxAttempts
  PROVE  LET k == Claim(j)
         IN /\ k \in Record
            /\ Keeps(j, k, {"state", "fence", "auth", "leased"})
            /\ k.state = "claimed" /\ k.fence = j.fence + 1 /\ k.auth = j.fence + 1
<1> DEFINE k == Claim(j)
<1>1. DOMAIN j = Fields /\ Typed(j)
  BY RecordTyped
<1>2. /\ Keeps(j, k, {"state", "fence", "auth", "leased"})
      /\ DOMAIN k = Fields /\ k = [f \in Fields |-> k[f]]
      /\ k.state = "claimed" /\ k.fence = j.fence + 1 /\ k.auth = j.fence + 1
  BY <1>1 DEF Claim, Keeps, Fields, Typed
<1>3. /\ k.state \in States
      /\ k.fence \in 0..MaxAttempts
      /\ k.auth \in 0..MaxAttempts
      /\ k.leased \in BOOLEAN
  BY <1>1, AttemptsAssumption DEF Claim, Typed, Fields, States
<1> HIDE DEF k
<1>4. Typed(k)
  BY <1>1, <1>2, <1>3, KeepsTyped DEF TypedField, Fields
<1>5. k \in Record
  BY <1>2, <1>4, TypedRecord
<1> QED BY <1>2, <1>5 DEF k

LEMMA PrepareControllerWrites ==
  ASSUME NEW j \in Record
  PROVE  LET k == PrepareController(j)
         IN /\ k \in Record
            /\ Keeps(j, k, {"ci"})
            /\ k.ci = "pending"
<1> DEFINE k == PrepareController(j)
<1>1. DOMAIN j = Fields /\ Typed(j)
  BY RecordTyped
<1>2. /\ Keeps(j, k, {"ci"})
      /\ DOMAIN k = Fields /\ k = [f \in Fields |-> k[f]]
      /\ k.ci = "pending"
  BY <1>1 DEF PrepareController, Keeps, Fields, Typed
<1>3. /\ k.ci \in Intents
  BY <1>1 DEF PrepareController, Typed, Fields, Intents
<1> HIDE DEF k
<1>4. Typed(k)
  BY <1>1, <1>2, <1>3, KeepsTyped DEF TypedField, Fields
<1>5. k \in Record
  BY <1>2, <1>4, TypedRecord
<1> QED BY <1>2, <1>5 DEF k

LEMMA PrepareWorkerWrites ==
  ASSUME NEW j \in Record
  PROVE  LET k == PrepareWorker(j)
         IN /\ k \in Record
            /\ Keeps(j, k, {"wi"})
            /\ k.wi = "pending"
<1> DEFINE k == PrepareWorker(j)
<1>1. DOMAIN j = Fields /\ Typed(j)
  BY RecordTyped
<1>2. /\ Keeps(j, k, {"wi"})
      /\ DOMAIN k = Fields /\ k = [f \in Fields |-> k[f]]
      /\ k.wi = "pending"
  BY <1>1 DEF PrepareWorker, Keeps, Fields, Typed
<1>3. /\ k.wi \in Intents
  BY <1>1 DEF PrepareWorker, Typed, Fields, Intents
<1> HIDE DEF k
<1>4. Typed(k)
  BY <1>1, <1>2, <1>3, KeepsTyped DEF TypedField, Fields
<1>5. k \in Record
  BY <1>2, <1>4, TypedRecord
<1> QED BY <1>2, <1>5 DEF k

LEMMA ControllerNoChildWrites ==
  ASSUME NEW j \in Record
  PROVE  LET k == ControllerNoChild(j)
         IN /\ k \in Record
            /\ Keeps(j, k, {"ci", "notLaunched"})
            /\ k.ci = "no-child"
<1> DEFINE k == ControllerNoChild(j)
<1>1. DOMAIN j = Fields /\ Typed(j)
  BY RecordTyped
<1>2. /\ Keeps(j, k, {"ci", "notLaunched"})
      /\ DOMAIN k = Fields /\ k = [f \in Fields |-> k[f]]
      /\ k.ci = "no-child"
  BY <1>1 DEF ControllerNoChild, Keeps, Fields, Typed
<1>3. /\ k.ci \in Intents
      /\ k.notLaunched \in BOOLEAN
  BY <1>1 DEF ControllerNoChild, Typed, Fields, Intents
<1> HIDE DEF k
<1>4. Typed(k)
  BY <1>1, <1>2, <1>3, KeepsTyped DEF TypedField, Fields
<1>5. k \in Record
  BY <1>2, <1>4, TypedRecord
<1> QED BY <1>2, <1>5 DEF k

LEMMA WorkerNoChildWrites ==
  ASSUME NEW j \in Record
  PROVE  LET k == WorkerNoChild(j)
         IN /\ k \in Record
            /\ Keeps(j, k, {"wi", "notLaunched"})
            /\ k.wi = "no-child"
<1> DEFINE k == WorkerNoChild(j)
<1>1. DOMAIN j = Fields /\ Typed(j)
  BY RecordTyped
<1>2. /\ Keeps(j, k, {"wi", "notLaunched"})
      /\ DOMAIN k = Fields /\ k = [f \in Fields |-> k[f]]
      /\ k.wi = "no-child"
  BY <1>1 DEF WorkerNoChild, Keeps, Fields, Typed
<1>3. /\ k.wi \in Intents
      /\ k.notLaunched \in BOOLEAN
  BY <1>1 DEF WorkerNoChild, Typed, Fields, Intents
<1> HIDE DEF k
<1>4. Typed(k)
  BY <1>1, <1>2, <1>3, KeepsTyped DEF TypedField, Fields
<1>5. k \in Record
  BY <1>2, <1>4, TypedRecord
<1> QED BY <1>2, <1>5 DEF k

LEMMA ControllerStartedWrites ==
  ASSUME NEW j \in Record, NEW a \in Attempts, j.state = "claimed"
  PROVE  LET k == ControllerStarted(j, a)
         IN /\ k \in Record
            /\ Keeps(j, k, {"state", "ci", "ctl", "leased"})
            /\ k.state = "controller-started" /\ k.ci = "registered" /\ k.ctl = a
<1> DEFINE k == ControllerStarted(j, a)
<1>1. DOMAIN j = Fields /\ Typed(j)
  BY RecordTyped
<1>2. /\ Keeps(j, k, {"state", "ci", "ctl", "leased"})
      /\ DOMAIN k = Fields /\ k = [f \in Fields |-> k[f]]
      /\ k.state = "controller-started" /\ k.ci = "registered" /\ k.ctl = a
  BY <1>1 DEF ControllerStarted, Keeps, Fields, Typed
<1>3. /\ k.state \in States
      /\ k.ci \in Intents
      /\ k.ctl \in 0..MaxAttempts
      /\ k.leased \in BOOLEAN
  BY <1>1, AttemptsAssumption DEF ControllerStarted, Typed, Fields, Intents, States, Attempts
<1> HIDE DEF k
<1>4. Typed(k)
  BY <1>1, <1>2, <1>3, KeepsTyped DEF TypedField, Fields
<1>5. k \in Record
  BY <1>2, <1>4, TypedRecord
<1> QED BY <1>2, <1>5 DEF k

LEMMA WorkerStartedWrites ==
  ASSUME NEW j \in Record, NEW a \in Attempts, j.state = "controller-started"
  PROVE  LET k == WorkerStarted(j, a)
         IN /\ k \in Record
            /\ Keeps(j, k, {"state", "wi", "wrk"})
            /\ k.state = "worker-started" /\ k.wi = "registered" /\ k.wrk = a
<1> DEFINE k == WorkerStarted(j, a)
<1>1. DOMAIN j = Fields /\ Typed(j)
  BY RecordTyped
<1>2. /\ Keeps(j, k, {"state", "wi", "wrk"})
      /\ DOMAIN k = Fields /\ k = [f \in Fields |-> k[f]]
      /\ k.state = "worker-started" /\ k.wi = "registered" /\ k.wrk = a
  BY <1>1 DEF WorkerStarted, Keeps, Fields, Typed
<1>3. /\ k.state \in States
      /\ k.wi \in Intents
      /\ k.wrk \in 0..MaxAttempts
  BY <1>1, AttemptsAssumption DEF WorkerStarted, Typed, Fields, Intents, States, Attempts
<1> HIDE DEF k
<1>4. Typed(k)
  BY <1>1, <1>2, <1>3, KeepsTyped DEF TypedField, Fields
<1>5. k \in Record
  BY <1>2, <1>4, TypedRecord
<1> QED BY <1>2, <1>5 DEF k

LEMMA ProviderStartedWrites ==
  ASSUME NEW j \in Record
  PROVE  LET k == ProviderStarted(j)
         IN /\ k \in Record
            /\ Keeps(j, k, {"state", "pi", "prv", "gen", "notLaunched"})
            /\ k.state = "provider-started" /\ k.pi = "registered" /\ k.prv = "signal" /\ k.gen = 1
<1> DEFINE k == ProviderStarted(j)
<1>1. DOMAIN j = Fields /\ Typed(j)
  BY RecordTyped
<1>2. /\ Keeps(j, k, {"state", "pi", "prv", "gen", "notLaunched"})
      /\ DOMAIN k = Fields /\ k = [f \in Fields |-> k[f]]
      /\ k.state = "provider-started" /\ k.pi = "registered" /\ k.prv = "signal" /\ k.gen = 1
  BY <1>1 DEF ProviderStarted, Keeps, Fields, Typed
<1>3. /\ k.state \in States
      /\ k.pi \in Intents
      /\ k.prv \in Witnesses \cup {"unbound"}
      /\ k.gen \in {0, 1}
      /\ k.notLaunched \in BOOLEAN
  BY <1>1 DEF ProviderStarted, Typed, Fields, Intents, States, Witnesses
<1> HIDE DEF k
<1>4. Typed(k)
  BY <1>1, <1>2, <1>3, KeepsTyped DEF TypedField, Fields
<1>5. k \in Record
  BY <1>2, <1>4, TypedRecord
<1> QED BY <1>2, <1>5 DEF k

LEMMA FailWrites ==
  ASSUME NEW j \in Record
  PROVE  LET k == Fail(j)
         IN /\ k \in Record
            /\ Keeps(j, k, {"state", "status", "authorized", "leased", "notLaunched"})
            /\ k.state = "failed" /\ k.status = "stopped"
<1> DEFINE k == Fail(j)
<1>1. DOMAIN j = Fields /\ Typed(j)
  BY RecordTyped
<1>2. /\ Keeps(j, k, {"state", "status", "authorized", "leased", "notLaunched"})
      /\ DOMAIN k = Fields /\ k = [f \in Fields |-> k[f]]
      /\ k.state = "failed" /\ k.status = "stopped"
  BY <1>1 DEF Fail, Keeps, Fields, Typed
<1>3. /\ k.state \in States
      /\ k.status \in Statuses
      /\ k.authorized \in BOOLEAN
      /\ k.leased \in BOOLEAN
      /\ k.notLaunched \in BOOLEAN
  BY <1>1 DEF Fail, Typed, Fields, States, Statuses
<1> HIDE DEF k
<1>4. Typed(k)
  BY <1>1, <1>2, <1>3, KeepsTyped DEF TypedField, Fields
<1>5. k \in Record
  BY <1>2, <1>4, TypedRecord
<1> QED BY <1>2, <1>5 DEF k

LEMMA ConsumeWrites ==
  ASSUME NEW j \in Record
  PROVE  LET k == Consume(j)
         IN /\ k \in Record
            /\ Keeps(j, k, {"consumed", "authorized", "blocked"})
            /\ k.consumed /\ ~k.authorized
<1> DEFINE k == Consume(j)
<1>1. DOMAIN j = Fields /\ Typed(j)
  BY RecordTyped
<1>2. /\ Keeps(j, k, {"consumed", "authorized", "blocked"})
      /\ DOMAIN k = Fields /\ k = [f \in Fields |-> k[f]]
      /\ k.consumed /\ ~k.authorized
  BY <1>1 DEF Consume, Keeps, Fields, Typed
<1>3. /\ k.consumed \in BOOLEAN
      /\ k.authorized \in BOOLEAN
      /\ k.blocked \in BOOLEAN
  BY <1>1 DEF Consume, Typed, Fields
<1> HIDE DEF k
<1>4. Typed(k)
  BY <1>1, <1>2, <1>3, KeepsTyped DEF TypedField, Fields
<1>5. k \in Record
  BY <1>2, <1>4, TypedRecord
<1> QED BY <1>2, <1>5 DEF k

LEMMA PrepareProviderWrites ==
  ASSUME NEW j \in Record
  PROVE  LET k == PrepareProvider(j)
         IN /\ k \in Record
            /\ Keeps(j, k, {"pi", "notLaunched"})
            /\ k.pi = "pending"
<1> DEFINE k == PrepareProvider(j)
<1>1. DOMAIN j = Fields /\ Typed(j)
  BY RecordTyped
<1>2. /\ Keeps(j, k, {"pi", "notLaunched"})
      /\ DOMAIN k = Fields /\ k = [f \in Fields |-> k[f]]
      /\ k.pi = "pending"
  BY <1>1 DEF PrepareProvider, Keeps, Fields, Typed
<1>3. /\ k.pi \in Intents
      /\ k.notLaunched \in BOOLEAN
  BY <1>1 DEF PrepareProvider, Typed, Fields, Intents
<1> HIDE DEF k
<1>4. Typed(k)
  BY <1>1, <1>2, <1>3, KeepsTyped DEF TypedField, Fields
<1>5. k \in Record
  BY <1>2, <1>4, TypedRecord
<1> QED BY <1>2, <1>5 DEF k

LEMMA ProviderNoChildWrites ==
  ASSUME NEW j \in Record
  PROVE  LET k == ProviderNoChild(j)
         IN /\ k \in Record
            /\ Keeps(j, k, {"pi", "notLaunched"})
            /\ k.pi = "no-child"
<1> DEFINE k == ProviderNoChild(j)
<1>1. DOMAIN j = Fields /\ Typed(j)
  BY RecordTyped
<1>2. /\ Keeps(j, k, {"pi", "notLaunched"})
      /\ DOMAIN k = Fields /\ k = [f \in Fields |-> k[f]]
      /\ k.pi = "no-child"
  BY <1>1 DEF ProviderNoChild, Keeps, Fields, Typed
<1>3. /\ k.pi \in Intents
      /\ k.notLaunched \in BOOLEAN
  BY <1>1 DEF ProviderNoChild, Typed, Fields, Intents
<1> HIDE DEF k
<1>4. Typed(k)
  BY <1>1, <1>2, <1>3, KeepsTyped DEF TypedField, Fields
<1>5. k \in Record
  BY <1>2, <1>4, TypedRecord
<1> QED BY <1>2, <1>5 DEF k

LEMMA RegisterGuardWrites ==
  ASSUME NEW j \in Record
  PROVE  LET k == RegisterGuard(j)
         IN /\ k \in Record
            /\ Keeps(j, k, {"pi"})
            /\ k.pi = "registered"
<1> DEFINE k == RegisterGuard(j)
<1>1. DOMAIN j = Fields /\ Typed(j)
  BY RecordTyped
<1>2. /\ Keeps(j, k, {"pi"})
      /\ DOMAIN k = Fields /\ k = [f \in Fields |-> k[f]]
      /\ k.pi = "registered"
  BY <1>1 DEF RegisterGuard, Keeps, Fields, Typed
<1>3. /\ k.pi \in Intents
  BY <1>1 DEF RegisterGuard, Typed, Fields, Intents
<1> HIDE DEF k
<1>4. Typed(k)
  BY <1>1, <1>2, <1>3, KeepsTyped DEF TypedField, Fields
<1>5. k \in Record
  BY <1>2, <1>4, TypedRecord
<1> QED BY <1>2, <1>5 DEF k

LEMMA UnsettleProviderWrites ==
  ASSUME NEW j \in Record
  PROVE  LET k == UnsettleProvider(j)
         IN /\ k \in Record
            /\ Keeps(j, k, {"prv", "up", "notLaunched", "blocked"})
            /\ k.prv = "observe"
<1> DEFINE k == UnsettleProvider(j)
<1>1. DOMAIN j = Fields /\ Typed(j)
  BY RecordTyped
<1>2. /\ Keeps(j, k, {"prv", "up", "notLaunched", "blocked"})
      /\ DOMAIN k = Fields /\ k = [f \in Fields |-> k[f]]
      /\ k.prv = "observe"
  BY <1>1 DEF UnsettleProvider, Keeps, Fields, Typed
<1>3. /\ k.prv \in Witnesses \cup {"unbound"}
      /\ k.up \in BOOLEAN
      /\ k.notLaunched \in BOOLEAN
      /\ k.blocked \in BOOLEAN
  BY <1>1 DEF UnsettleProvider, Typed, Fields, Witnesses
<1> HIDE DEF k
<1>4. Typed(k)
  BY <1>1, <1>2, <1>3, KeepsTyped DEF TypedField, Fields
<1>5. k \in Record
  BY <1>2, <1>4, TypedRecord
<1> QED BY <1>2, <1>5 DEF k

LEMMA UnsettleWorkerWrites ==
  ASSUME NEW j \in Record, NEW w \in Witnesses
  PROVE  LET k == UnsettleWorker(j, w)
         IN /\ k \in Record
            /\ Keeps(j, k, {"uw", "blocked", "notLaunched"})
            /\ k.uw = w
<1> DEFINE k == UnsettleWorker(j, w)
<1>1. DOMAIN j = Fields /\ Typed(j)
  BY RecordTyped
<1>2. /\ Keeps(j, k, {"uw", "blocked", "notLaunched"})
      /\ DOMAIN k = Fields /\ k = [f \in Fields |-> k[f]]
      /\ k.uw = w
  BY <1>1 DEF UnsettleWorker, Keeps, Fields, Typed
<1>3. /\ k.uw \in Witnesses
      /\ k.blocked \in BOOLEAN
      /\ k.notLaunched \in BOOLEAN
  BY <1>1 DEF UnsettleWorker, Typed, Fields, Witnesses
<1> HIDE DEF k
<1>4. Typed(k)
  BY <1>1, <1>2, <1>3, KeepsTyped DEF TypedField, Fields
<1>5. k \in Record
  BY <1>2, <1>4, TypedRecord
<1> QED BY <1>2, <1>5 DEF k

LEMMA RecordFailureWrites ==
  ASSUME NEW j \in Record, NEW a \in Attempts, NEW u \in BOOLEAN
  PROVE  LET k == RecordFailure(j, a, u)
         IN /\ k \in Record
            /\ Keeps(j, k, {"prv", "blocked", "pend"})
            /\ j.prv # "none" \/ ~u \/ Terminal(j) => k.prv = j.prv
            /\ u /\ ~Terminal(j) => k.prv # "none"
<1> DEFINE k == RecordFailure(j, a, u)
<1>1. DOMAIN j = Fields /\ Typed(j)
  BY RecordTyped
<1>2. /\ Keeps(j, k, {"prv", "blocked", "pend"})
      /\ DOMAIN k = Fields /\ k = [f \in Fields |-> k[f]]
      /\ j.prv # "none" \/ ~u \/ Terminal(j) => k.prv = j.prv
      /\ u /\ ~Terminal(j) => k.prv # "none"
  <2>1. CASE Terminal(j)
    BY <1>1, <2>1 DEF RecordFailure, Keeps, Fields, Record
  <2>2. CASE ~Terminal(j)
    BY <1>1, <2>2 DEF RecordFailure, Keeps, Fields, Record
  <2> QED BY <2>1, <2>2
<1>3. /\ k.prv \in Witnesses \cup {"unbound"}
      /\ k.blocked \in BOOLEAN
      /\ k.pend \in {"none", "completed", "stopped"}
  BY <1>1 DEF RecordFailure, Terminal, Typed, Fields, Witnesses
<1> HIDE DEF k
<1>4. Typed(k)
  BY <1>1, <1>2, <1>3, KeepsTyped DEF TypedField, Fields
<1>5. k \in Record
  BY <1>2, <1>4, TypedRecord
<1> QED BY <1>2, <1>5 DEF k

LEMMA SettlePreProviderWrites ==
  ASSUME NEW j \in Record, NEW c \in BOOLEAN, NEW g \in BOOLEAN
  PROVE  LET k == SettlePreProvider(j, c, g)
         IN /\ k \in Record
            /\ Keeps(j, k, {"state", "status", "authorized", "gen", "notLaunched", "blocked",
                            "pend"})
            /\ k.state = "failed"
            /\ j.prv = "none" => k.gen = j.gen
            /\ ~c => k.status = j.status
<1> DEFINE k == SettlePreProvider(j, c, g)
<1>1. DOMAIN j = Fields /\ Typed(j)
  BY RecordTyped
<1>2. /\ Keeps(j, k, {"state", "status", "authorized", "gen", "notLaunched", "blocked", "pend"})
      /\ DOMAIN k = Fields /\ k = [f \in Fields |-> k[f]]
      /\ k.state = "failed"
      /\ j.prv = "none" => k.gen = j.gen
      /\ ~c => k.status = j.status
  BY <1>1, ZenonT(60) DEF SettlePreProvider, Keeps, Fields, Typed
<1>3. /\ k.state \in States
      /\ k.status \in Statuses
      /\ k.authorized \in BOOLEAN
      /\ k.gen \in {0, 1}
      /\ k.notLaunched \in BOOLEAN
      /\ k.blocked \in BOOLEAN
      /\ k.pend \in {"none", "completed", "stopped"}
  BY <1>1 DEF SettlePreProvider, Typed, Fields, States, Statuses
<1> HIDE DEF k
<1>4. Typed(k)
  BY <1>1, <1>2, <1>3, KeepsTyped DEF TypedField, Fields
<1>5. k \in Record
  BY <1>2, <1>4, TypedRecord
<1> QED BY <1>2, <1>5 DEF k

LEMMA SettleAsIntendedWrites ==
  ASSUME NEW j \in Record, j.pend # "none"
  PROVE  LET k == SettleAsIntended(j)
         IN /\ k \in Record
            /\ Keeps(j, k, {"status", "pend", "authorized"})
            /\ k.status # "active"
<1> DEFINE k == SettleAsIntended(j)
<1>1. DOMAIN j = Fields /\ Typed(j)
  BY RecordTyped
<1>2. /\ Keeps(j, k, {"status", "pend", "authorized"})
      /\ DOMAIN k = Fields /\ k = [f \in Fields |-> k[f]]
      /\ k.status # "active"
  BY <1>1 DEF SettleAsIntended, Keeps, Fields, Typed
<1>3. /\ k.status \in Statuses
      /\ k.pend \in {"none", "completed", "stopped"}
      /\ k.authorized \in BOOLEAN
  BY <1>1 DEF SettleAsIntended, Typed, Fields, Statuses
<1> HIDE DEF k
<1>4. Typed(k)
  BY <1>1, <1>2, <1>3, KeepsTyped DEF TypedField, Fields
<1>5. k \in Record
  BY <1>2, <1>4, TypedRecord
<1> QED BY <1>2, <1>5 DEF k

LEMMA PrepareFailureWrites ==
  ASSUME NEW j \in Record, NEW d \in BOOLEAN, NEW c \in BOOLEAN,
         NEW w \in Witnesses \cup {"nobody"}
  PROVE  LET k == PrepareFailure(j, d, c, w)
         IN /\ k \in Record
            /\ Keeps(j, k, {"ci", "ccp", "notLaunched", "blocked", "pend"})
            /\ d /\ j.ci # "none" => k.ci = "no-child"
            /\ ~d \/ j.ci = "none" => k.ci = j.ci
            /\ d => k.ccp = "none"
<1> DEFINE k == PrepareFailure(j, d, c, w)
<1>1. DOMAIN j = Fields /\ Typed(j)
  BY RecordTyped
<1>2. /\ Keeps(j, k, {"ci", "ccp", "notLaunched", "blocked", "pend"})
      /\ DOMAIN k = Fields /\ k = [f \in Fields |-> k[f]]
      /\ d /\ j.ci # "none" => k.ci = "no-child"
      /\ ~d \/ j.ci = "none" => k.ci = j.ci
      /\ d => k.ccp = "none"
  BY <1>1, ZenonT(60) DEF PrepareFailure, Keeps, Fields, Typed
<1>3. /\ k.ci \in Intents
      /\ k.ccp \in Witnesses \cup {"nobody"}
      /\ k.notLaunched \in BOOLEAN
      /\ k.blocked \in BOOLEAN
      /\ k.pend \in {"none", "completed", "stopped"}
  BY <1>1 DEF PrepareFailure, Typed, Fields, Intents, Witnesses
<1> HIDE DEF k
<1>4. Typed(k)
  BY <1>1, <1>2, <1>3, KeepsTyped DEF TypedField, Fields
<1>5. k \in Record
  BY <1>2, <1>4, TypedRecord
<1> QED BY <1>2, <1>5 DEF k

LEMMA FenceWrites ==
  ASSUME NEW j \in Record, NEW s \in Sources
  PROVE  LET k == Fence(j, s)
         IN /\ k \in Record
            /\ Keeps(j, k, {"cf", "cfState"})
            /\ k.cf = s
<1> DEFINE k == Fence(j, s)
<1>1. DOMAIN j = Fields /\ Typed(j)
  BY RecordTyped
<1>2. /\ Keeps(j, k, {"cf", "cfState"})
      /\ DOMAIN k = Fields /\ k = [f \in Fields |-> k[f]]
      /\ k.cf = s
  BY <1>1 DEF Fence, Keeps, Fields, Typed
<1>3. /\ k.cf \in Sources
      /\ k.cfState \in States
  BY <1>1 DEF Fence, Typed, Fields, Sources, States
<1> HIDE DEF k
<1>4. Typed(k)
  BY <1>1, <1>2, <1>3, KeepsTyped DEF TypedField, Fields
<1>5. k \in Record
  BY <1>2, <1>4, TypedRecord
<1> QED BY <1>2, <1>5 DEF k

LEMMA SettleUnstartedWrites ==
  ASSUME NEW j \in Record
  PROVE  LET k == SettleUnstarted(j)
         IN /\ k \in Record
            /\ Keeps(j, k, {"state", "status", "authorized", "leased", "cf", "uw", "ccp", "pend",
                            "notLaunched", "gen"})
            /\ k.state = "failed" /\ k.status = "stopped" /\ k.ccp = "none"
            /\ j.prv = "none" => k.gen = j.gen
<1> DEFINE k == SettleUnstarted(j)
<1>1. DOMAIN j = Fields /\ Typed(j)
  BY RecordTyped
<1>2. /\ Keeps(j, k, {"state", "status", "authorized", "leased", "cf", "uw", "ccp", "pend",
                      "notLaunched", "gen"})
      /\ DOMAIN k = Fields /\ k = [f \in Fields |-> k[f]]
      /\ k.state = "failed" /\ k.status = "stopped" /\ k.ccp = "none"
      /\ j.prv = "none" => k.gen = j.gen
  BY <1>1, ZenonT(60) DEF SettleUnstarted, Keeps, Fields, Typed
<1>3. /\ k.state \in States
      /\ k.status \in Statuses
      /\ k.authorized \in BOOLEAN
      /\ k.leased \in BOOLEAN
      /\ k.cf \in Sources
      /\ k.uw \in Witnesses
      /\ k.ccp \in Witnesses \cup {"nobody"}
      /\ k.pend \in {"none", "completed", "stopped"}
      /\ k.notLaunched \in BOOLEAN
      /\ k.gen \in {0, 1}
  BY <1>1 DEF SettleUnstarted, Typed, Fields, Sources, States, Statuses, Witnesses
<1> HIDE DEF k
<1>4. Typed(k)
  BY <1>1, <1>2, <1>3, KeepsTyped DEF TypedField, Fields
<1>5. k \in Record
  BY <1>2, <1>4, TypedRecord
<1> QED BY <1>2, <1>5 DEF k

LEMMA SettleLostWrites ==
  ASSUME NEW j \in Record
  PROVE  LET k == SettleLost(j)
         IN /\ k \in Record
            /\ Keeps(j, k, {"status", "pend", "authorized", "cf"})
            /\ k.status # "active"
<1> DEFINE k == SettleLost(j)
<1>1. DOMAIN j = Fields /\ Typed(j)
  BY RecordTyped
<1>2. /\ Keeps(j, k, {"status", "pend", "authorized", "cf"})
      /\ DOMAIN k = Fields /\ k = [f \in Fields |-> k[f]]
      /\ k.status # "active"
  BY <1>1 DEF SettleLost, Keeps, Fields, Typed
<1>3. /\ k.status \in Statuses
      /\ k.pend \in {"none", "completed", "stopped"}
      /\ k.authorized \in BOOLEAN
      /\ k.cf \in Sources
  BY <1>1 DEF SettleLost, Typed, Fields, Sources, Statuses
<1> HIDE DEF k
<1>4. Typed(k)
  BY <1>1, <1>2, <1>3, KeepsTyped DEF TypedField, Fields
<1>5. k \in Record
  BY <1>2, <1>4, TypedRecord
<1> QED BY <1>2, <1>5 DEF k

LEMMA SettleFailedWrites ==
  ASSUME NEW j \in Record, j.pend # "none"
  PROVE  LET k == SettleFailed(j)
         IN /\ k \in Record
            /\ Keeps(j, k, {"status", "pend", "authorized", "cf"})
            /\ k.status # "active"
<1> DEFINE k == SettleFailed(j)
<1>1. DOMAIN j = Fields /\ Typed(j)
  BY RecordTyped
<1>2. /\ Keeps(j, k, {"status", "pend", "authorized", "cf"})
      /\ DOMAIN k = Fields /\ k = [f \in Fields |-> k[f]]
      /\ k.status # "active"
  BY <1>1 DEF SettleFailed, SettleAsIntended, Keeps, Fields, Typed
<1>3. /\ k.status \in Statuses
      /\ k.pend \in {"none", "completed", "stopped"}
      /\ k.authorized \in BOOLEAN
      /\ k.cf \in Sources
  BY <1>1 DEF SettleFailed, SettleAsIntended, Typed, Fields, Sources, Statuses
<1> HIDE DEF k
<1>4. Typed(k)
  BY <1>1, <1>2, <1>3, KeepsTyped DEF TypedField, Fields
<1>5. k \in Record
  BY <1>2, <1>4, TypedRecord
<1> QED BY <1>2, <1>5 DEF k

LEMMA CancelledWrites ==
  ASSUME NEW j \in Record, NEW g, CancelEndsIt(j, g)
  PROVE  LET k == Cancelled(j, g)
         IN /\ k \in Record
            /\ Keeps(j, k, {"state", "status", "fence", "authorized", "notLaunched"})
            /\ k.state = "failed" /\ k.status = "stopped" /\ k.fence = 1
<1> DEFINE k == Cancelled(j, g)
<1>1. DOMAIN j = Fields /\ Typed(j)
  BY RecordTyped
<1>2. /\ Keeps(j, k, {"state", "status", "fence", "authorized", "notLaunched"})
      /\ DOMAIN k = Fields /\ k = [f \in Fields |-> k[f]]
      /\ k.state = "failed" /\ k.status = "stopped" /\ k.fence = 1
  BY <1>1 DEF Cancelled, Keeps, Fields, Typed
<1>3. /\ k.state \in States
      /\ k.status \in Statuses
      /\ k.fence \in 0..MaxAttempts
      /\ k.authorized \in BOOLEAN
      /\ k.notLaunched \in BOOLEAN
  BY <1>1, AttemptsAssumption DEF Cancelled, Typed, Fields, States, Statuses
<1> HIDE DEF k
<1>4. Typed(k)
  BY <1>1, <1>2, <1>3, KeepsTyped DEF TypedField, Fields
<1>5. k \in Record
  BY <1>2, <1>4, TypedRecord
<1> QED BY <1>2, <1>5 DEF k

LEMMA BlockedWrites ==
  ASSUME NEW j \in Record, NEW b \in BOOLEAN
  PROVE  LET k == Blocked(j, b)
         IN /\ k \in Record
            /\ Keeps(j, k, {"blocked"})
<1> DEFINE k == Blocked(j, b)
<1>1. DOMAIN j = Fields /\ Typed(j)
  BY RecordTyped
<1>2. /\ Keeps(j, k, {"blocked"})
      /\ DOMAIN k = Fields /\ k = [f \in Fields |-> k[f]]
  BY <1>1 DEF Blocked, Keeps, Fields, Typed
<1>3. /\ k.blocked \in BOOLEAN
  BY <1>1 DEF Blocked, Typed, Fields
<1> HIDE DEF k
<1>4. Typed(k)
  BY <1>1, <1>2, <1>3, KeepsTyped DEF TypedField, Fields
<1>5. k \in Record
  BY <1>2, <1>4, TypedRecord
<1> QED BY <1>2, <1>5 DEF k

LEMMA UnleasedWrites ==
  ASSUME NEW j \in Record
  PROVE  LET k == Unleased(j)
         IN /\ k \in Record
            /\ Keeps(j, k, {"leased"})
<1> DEFINE k == Unleased(j)
<1>1. DOMAIN j = Fields /\ Typed(j)
  BY RecordTyped
<1>2. /\ Keeps(j, k, {"leased"})
      /\ DOMAIN k = Fields /\ k = [f \in Fields |-> k[f]]
  BY <1>1 DEF Unleased, Keeps, Fields, Typed
<1>3. /\ k.leased \in BOOLEAN
  BY <1>1 DEF Unleased, Typed, Fields
<1> HIDE DEF k
<1>4. Typed(k)
  BY <1>1, <1>2, <1>3, KeepsTyped DEF TypedField, Fields
<1>5. k \in Record
  BY <1>2, <1>4, TypedRecord
<1> QED BY <1>2, <1>5 DEF k

LEMMA EndedWrites ==
  ASSUME NEW j \in Record, NEW o \in {"completed", "stopped"}
  PROVE  LET k == Ended(j, o)
         IN /\ k \in Record
            /\ Keeps(j, k, {"pend", "blocked"})
<1> DEFINE k == Ended(j, o)
<1>1. DOMAIN j = Fields /\ Typed(j)
  BY RecordTyped
<1>2. /\ Keeps(j, k, {"pend", "blocked"})
      /\ DOMAIN k = Fields /\ k = [f \in Fields |-> k[f]]
  BY <1>1 DEF Ended, Keeps, Fields, Typed
<1>3. /\ k.pend \in {"none", "completed", "stopped"}
      /\ k.blocked \in BOOLEAN
  BY <1>1 DEF Ended, Typed, Fields
<1> HIDE DEF k
<1>4. Typed(k)
  BY <1>1, <1>2, <1>3, KeepsTyped DEF TypedField, Fields
<1>5. k \in Record
  BY <1>2, <1>4, TypedRecord
<1> QED BY <1>2, <1>5 DEF k
-----------------------------------------------------------------------------
(* The places of the processes.                                            *)
Moved(x, a, p) == pc'[x][a] = p /\ \A b \in Attempts \ {a} : pc'[x][b] = pc[x][b]
Stay(X) == \A x \in X : pc'[x] = pc[x]

(* A process goes on; it goes on and kills another.                        *)
LEMMA GoesMoves ==
  ASSUME TypeOK, NEW x \in Procs, NEW a \in Attempts, NEW p, Goes(x, a, p)
  PROVE  Moved(x, a, p) /\ Stay(Procs \ {x})
BY DEF TypeOK, Goes, Moved, Stay

LEMMA KillsMoves ==
  ASSUME TypeOK, NEW x \in Procs, NEW y \in Procs, x # y, NEW a \in Attempts, NEW p,
         Kills(x, y, a, p)
  PROVE  /\ Moved(x, a, IF pc[x][a] = "none" THEN "none" ELSE "gone")
         /\ Moved(y, a, p) /\ Stay(Procs \ {x, y})
BY DEF TypeOK, Kills, Moved, Stay

(* What a process may do without a word of the others: the launcher and    *)
(* the controller once the controller is there, the worker while it sees   *)
(* to its provider, and all of them may die.                               *)
Ends(x, a, end) == pc[x][a] # "none" /\ pc'[x][a] = end
LauncherGoesOn(a) ==
  \/ pc'.launcher[a] = pc.launcher[a]
  \/ /\ pc'.launcher[a] \notin {"prepared", "failing-pidless", "settling"}
     /\ pc'.launcher[a] \in {"spawned", "tokened", "failing"} => pc.ctl[a] # "none"
     /\ pc'.launcher[a] = "failing-blind" =>
          (job.fence = a /\ job.state = "claimed" /\ job.ci = "none" => cancelled)
ControllerGoesOn(a) ==
  \/ pc'.ctl[a] = pc.ctl[a]
  \/ Ends("ctl", a, "gone")
  \/ /\ pc.ctl[a] \notin {"none", "gone"}
     /\ pc'.ctl[a] \in {"registering", "watching", "recovering"}
     /\ pc'.ctl[a] = "registering" => pc.ctl[a] = "spawned"
WorkerGoesOn(a) ==
  \/ pc'.wrk[a] = pc.wrk[a]
  \/ Ends("wrk", a, "gone")
  \/ /\ pc.wrk[a] \in Bound \ {"settling"}
     /\ \/ pc'.wrk[a] \in {"waiting", "settling-blocked", "failing-unbound"}
        \/ pc'.wrk[a] = "failing" /\ pc'.prv[a] \in {"none", "gone"}
  \/ pc.wrk[a] = "failing" /\ pc'.wrk[a] = "cleaning"
  \/ pc.wrk[a] = "running" /\ pc'.wrk[a] = "finalizing"
ProviderGoesOn(a) ==
  \/ pc'.prv[a] = pc.prv[a]
  \/ Ends("prv", a, "gone")
  \/ pc.prv[a] = "guarded" /\ pc'.prv[a] = "running"
GoesOn(a) ==
  LauncherGoesOn(a) /\ ControllerGoesOn(a) /\ WorkerGoesOn(a) /\ ProviderGoesOn(a)

(* What may be written at any time: what the invariant does not speak of,  *)
(* and that no provider has been started.                                  *)
OnlyRevokes ==
  /\ Keeps(job, job', Silent \cup {"pi"})
  /\ job'.pi = job.pi \/ (job'.pi = "no-child" /\ job.state \notin Early)
GuardKept ==
  \/ guard' = guard
  \/ guard' = 0 /\ \A a \in Attempts : pc'.prv[a] \notin {"guarded", "running"}

Facts ==
  Launched /\ OneLine /\ Controlled /\ Worked /\ Closed /\ Recovering /\ Prompted

(* The frame: such steps preserve the invariant.                           *)
LEMMA Frame ==
  ASSUME TypeOK, Facts, OnlyRevokes, \A a \in Attempts : GoesOn(a), GuardKept,
         wiped' = wiped, cancelled => cancelled', prompts' = prompts,
         \A r \in Recoverers : rec'[r] = rec[r] \/ rec'[r].at = "idle" \/ Informed(r)'
  PROVE  Facts'
<1> USE DEF Facts
<1>1. /\ job'.status = job.status /\ job'.state = job.state /\ job'.fence = job.fence
      /\ job'.auth = job.auth /\ job'.authorized = job.authorized
      /\ job'.consumed = job.consumed /\ job'.ctl = job.ctl /\ job'.wrk = job.wrk
      /\ job'.prv = job.prv /\ job'.gen = job.gen /\ job'.ci = job.ci /\ job'.wi = job.wi
      /\ job'.ccp = job.ccp /\ job'.uw = job.uw /\ job'.up = job.up
      /\ job'.cf = job.cf
      /\ job.state \in Early => job'.pi = job.pi
      /\ job.pi = "no-child" => job'.pi = "no-child"
  BY DEF OnlyRevokes, Keeps, Fields, Silent
<1>2. \A a \in Attempts :
        /\ pc'.ctl[a] = "none" <=> pc.ctl[a] = "none"
        /\ pc'.wrk[a] = "none" <=> pc.wrk[a] = "none"
        /\ pc'.prv[a] = "none" <=> pc.prv[a] = "none"
        /\ pc.ctl[a] = "gone" => pc'.ctl[a] = "gone"
        /\ pc.wrk[a] = "gone" => pc'.wrk[a] = "gone"
        /\ pc.prv[a] = "gone" => pc'.prv[a] = "gone"
  BY DEF GoesOn, ControllerGoesOn, WorkerGoesOn, ProviderGoesOn, Ends, Bound
<1>3. Launched'
  BY <1>1, <1>2 DEF Launched, Early, Bare, GoesOn, LauncherGoesOn
<1>4. OneLine'
  BY <1>1, <1>2 DEF OneLine, GoesOn, LauncherGoesOn, ControllerGoesOn, Ends
<1>5. Controlled'
  BY <1>1, <1>2 DEF Controlled, Gone, GoesOn, ControllerGoesOn, Ends
<1>6. Worked'
  <2>1. ASSUME NEW a \in Attempts
        PROVE  /\ (pc.wrk[a] = "boot" =>
                     job.state \in {"controller-started", "worker-started", "failed"})'
               /\ (pc.wrk[a] \in Bound => job.state = "worker-started")'
               /\ (pc.wrk[a] \in {"running", "finalizing"} =>
                     job.state = "provider-started" /\ job.status = "active")'
               /\ (pc.wrk[a] \in {"boot", "owned", "ready", "prepared"} => pc.prv[a] = "none")'
               /\ (pc.wrk[a] \in {"boot", "owned", "ready", "prepared", "spawned"} =>
                     job.prv = "none")'
    BY <1>1, <1>2 DEF Worked, GoesOn, WorkerGoesOn, Ends, Bound
  <2>2. ASSUME NEW a \in Attempts
        PROVE  /\ (pc.wrk[a] \in {"failing", "cleaning"} /\ ~Gone("prv", a) =>
                     job.prv # "none")'
               /\ (pc.prv[a] # "none" =>
                     job.state \notin Early \cup {"controller-started"})'
    BY <1>1, <1>2 DEF Worked, GoesOn, WorkerGoesOn, Ends, Bound, Gone
  <2>3. ASSUME NEW a \in Attempts
        PROVE  (pc.prv[a] \in {"guarded", "running"} => guard = a)'
    BY <1>1, <1>2 DEF Worked, GoesOn, ProviderGoesOn, Ends, GuardKept
  <2> QED BY <1>1, <2>1, <2>2, <2>3 DEF Worked
<1>7. Closed'
  <2>1. ASSUME wiped, NEW a \in Attempts PROVE NoSpawn(a)'
    BY <1>1, <1>2, <2>1 DEF Closed, NoSpawn, GoesOn, LauncherGoesOn, ControllerGoesOn,
       WorkerGoesOn, ProviderGoesOn, Ends, Bound
  <2>2. \A a \in Attempts :
          /\ pc'.launcher[a] = "settling" => pc.launcher[a] = "settling"
          /\ pc'.wrk[a] = "settling" => pc.wrk[a] = "settling"
    BY DEF GoesOn, LauncherGoesOn, WorkerGoesOn, Ends
  <2>3. wiped => guard' = 0
    BY DEF Closed, GuardKept
  <2> QED BY <1>1, <2>1, <2>2, <2>3 DEF Closed, Terminal
<1>8. Recovering'
  <2>1. ASSUME NEW r \in Recoverers PROVE Informed(r)'
    <3>1. CASE rec'[r] = rec[r]
      BY <1>1, <1>2, <3>1 DEF Recovering, Informed, Pursues, SeenGone
    <3>2. CASE rec'[r].at = "idle"
      BY <3>2 DEF Informed, Pursues
    <3> QED BY <2>1, <3>1, <3>2
  <2> QED BY <1>1, <1>2, <2>1 DEF Recovering
<1>9. Prompted'
  BY <1>1 DEF Prompted
<1> QED BY <1>3, <1>4, <1>5, <1>6, <1>7, <1>8, <1>9
-----------------------------------------------------------------------------
(* What a transaction knows of a record that satisfies its contract.       *)
LEMMA ContractSays ==
  ASSUME NEW j \in Record, Contract(j)
  PROVE  /\ j.authorized => j.auth = j.fence /\ ~j.consumed
         /\ ~j.authorized => j.state \notin {"pending", "claimed", "controller-started"}
         /\ j.state \in WithController => j.ci = "registered" /\ j.ctl # 0
         /\ j.state \in WithWorker => j.wi = "registered" /\ j.wrk # 0
         /\ j.ctl \in {0, j.fence} /\ j.wrk \in {0, j.fence}
         /\ j.state = "controller-started" => j.wrk = 0 /\ j.wi # "registered"
         /\ j.state = "claimed" => j.ci # "registered" /\ j.wi = "none"
         /\ j.ccp \in {"signal", "observe"} => j.ci # "none"
BY DEF Contract, AuthorityContract, ProcessContract, IntentContract, WitnessContract,
   CleanupWitness, WithController, WithWorker

(* A record nobody has prepared a spawn in has nothing to be wrong, and so *)
(* has one whose worker has not recorded a provider.                       *)
LEMMA BareContract ==
  ASSUME NEW j \in Record, j.state = "claimed", j.ci = "none", Bare(j), j.prv = "none"
  PROVE  Contract(j)
<1>1. FenceContract(j) /\ AuthorityContract(j)
  BY DEF FenceContract, AuthorityContract, Bare
<1>2. ProcessContract(j)
  BY DEF ProcessContract, Bare, WithController, WithWorker
<1>3. IntentContract(j) /\ WitnessContract(j)
  BY DEF IntentContract, WitnessContract, CleanupWitness, Bare, WithController, WithWorker
<1> QED BY <1>1, <1>2, <1>3 DEF Contract

LEMMA WorkerContract ==
  ASSUME NEW j \in Record, j.state = "worker-started", j.prv = "none", j.gen = 0, ~j.up,
         j.fence # 0, j.ctl = j.fence, j.wrk = j.fence, j.ci = "registered",
         j.wi = "registered", j.ccp = "none", j.uw = "none", j.cf = "none",
         j.authorized => j.auth = j.fence /\ ~j.consumed, ~j.authorized => j.consumed
  PROVE  Contract(j)
<1>1. FenceContract(j) /\ AuthorityContract(j)
  BY DEF FenceContract, AuthorityContract
<1>2. ProcessContract(j)
  BY DEF ProcessContract, WithController, WithWorker
<1>3. IntentContract(j) /\ WitnessContract(j)
  BY DEF IntentContract, WitnessContract, CleanupWitness, WithController, WithWorker
<1> QED BY <1>1, <1>2, <1>3 DEF Contract

(* The cases of the definitions that choose by a state or a source.        *)
LEMMA WitnessCases ==
  ASSUME NEW j
  PROVE  /\ j.ccp # "nobody" => CleanupWitness(j, "controller-cleanup") = j.ccp
         /\ j.ccp \in {"none", "nobody"} => CleanupWitness(j, "controller-cleanup") = "none"
         /\ CleanupWitness(j, "unsettled-worker") = j.uw
         /\ j.prv = "none" => CleanupWitness(j, "provider-generation") = "none"
         /\ CleanupWitness(j, "none") = "none"
BY DEF CleanupWitness

LEMMA UnstartedCases ==
  ASSUME NEW j, NEW a, NEW state, NEW held, NEW c, NEW w, NEW p,
         CanSettleUnstarted(j, a, state, held, c, w, p)
  PROVE  /\ Current(j, a) /\ Contract(j) /\ j.state = state
         /\ j.prv # "none" => p
         /\ state = "claimed" => j.ci \in {"none", "no-child"} \/ (j.ccp # "none" /\ c)
         /\ state = "controller-started" =>
              c /\ (w \/ (j.uw = "none" /\ j.wi \in {"none", "no-child"}))
         /\ state \notin {"claimed", "controller-started"} => c /\ w
BY DEF CanSettleUnstarted, CleanupWitness

LEMMA SettleCases ==
  ASSUME NEW r
  PROVE  LET d == rec[r]
             c == Gone("ctl", d.attempt)
             w == Gone("wrk", d.attempt)
             p == Gone("prv", d.attempt)
         IN /\ d.op = "unstarted" =>
                 /\ MaySettle(r) <=>
                      CanSettleUnstarted(job, d.attempt, d.state, d.source, c, w, p)
                 /\ Settled(d.op) = SettleUnstarted(job)
            /\ d.op = "failed" =>
                 /\ MaySettle(r) <=> CanSettleFailed(job, d.attempt, d.source, c, w, p)
                 /\ Settled(d.op) = SettleFailed(job)
            /\ d.op = "lost" =>
                 /\ MaySettle(r) <=> CanSettleLost(job, d.attempt, d.source, c, w, p)
                 /\ Settled(d.op) = SettleLost(job)
BY DEF MaySettle, Settled, SettleFailed

-----------------------------------------------------------------------------
(* Every step keeps the types.                                             *)
LEMMA GoesTyped ==
  ASSUME TypeOK, NEW x \in Procs, NEW a \in Attempts, NEW p \in AllPlaces, Goes(x, a, p)
  PROVE  pc' \in [Procs -> [Attempts -> AllPlaces]]
BY DEF TypeOK, Goes

LEMMA KillsTyped ==
  ASSUME TypeOK, NEW x \in Procs, NEW y \in Procs, x # y, NEW a \in Attempts,
         NEW p \in AllPlaces, Kills(x, y, a, p)
  PROVE  pc' \in [Procs -> [Attempts -> AllPlaces]]
BY DEF TypeOK, Kills, AllPlaces, Places

LEMMA SettledWrites ==
  ASSUME TypeOK, NEW r \in Recoverers, MaySettle(r)
  PROVE  Settled(rec[r].op) \in Record
<1>1. rec[r].op \in Ops
  BY DEF TypeOK, RecRec
<1>2. job \in Record
  BY DEF TypeOK
<1>3. CASE rec[r].op = "unstarted"
  BY <1>2, <1>3, SettleCases, SettleUnstartedWrites
<1>4. CASE rec[r].op = "failed"
  BY <1>2, <1>4, SettleCases, SettleFailedWrites DEF CanSettleFailed
<1>5. CASE rec[r].op = "lost"
  BY <1>2, <1>5, SettleCases, SettleLostWrites
<1> QED BY <1>1, <1>3, <1>4, <1>5 DEF Ops

(* A recoverer that has decided, goes on or rests.                         *)
LEMMA RecTyped ==
  ASSUME TypeOK, NEW r \in Recoverers, NEW s \in RecRec, rec' = [rec EXCEPT ![r] = s]
  PROVE  rec' \in [Recoverers -> RecRec]
BY DEF TypeOK

LEMMA ProceedsTyped ==
  ASSUME TypeOK, NEW r \in Recoverers, NEW at \in {"idle", "boundary", "fence", "signal", "settle"},
         Proceeds(r, at)
  PROVE  rec' \in [Recoverers -> RecRec]
BY DEF TypeOK, Proceeds, RecRec

LEMMA DecidesTyped ==
  ASSUME TypeOK, NEW r \in Recoverers, NEW at \in {"idle", "boundary", "fence", "signal", "settle"},
         NEW op \in Ops, NEW source \in Sources, NEW j \in Record, Decides(r, at, op, source, j)
  PROVE  rec' \in [Recoverers -> RecRec]
<1>1. j.fence \in 0..MaxAttempts /\ j.state \in States
  BY RecordTyped DEF Typed
<1>2. [at |-> at, op |-> op, source |-> source, attempt |-> j.fence, state |-> j.state] \in RecRec
  BY <1>1 DEF RecRec
<1> QED BY <1>2, RecTyped DEF Decides

LEMMA RestsTyped ==
  ASSUME TypeOK, NEW r \in Recoverers, Rests(r)
  PROVE  rec' \in [Recoverers -> RecRec]
<1>1. Idle \in RecRec
  BY AttemptsAssumption DEF Idle, RecRec, Ops, Sources, States
<1> QED BY <1>1, RecTyped DEF Rests

(* The processes stay in places they have.                                 *)
LEMMA PlacesAre ==
  /\ {"claimed", "prepared", "spawned", "tokened", "failing", "failing-blind",
      "failing-pidless", "settling", "done"} \subseteq Places["launcher"]
  /\ {"boot", "owned", "prepared", "spawned", "registering", "watching", "recovering",
      "gone"} \subseteq Places["ctl"]
  /\ {"boot", "owned", "ready", "prepared", "spawned", "waiting", "running", "failing",
      "failing-unbound", "cleaning", "settling", "settling-blocked", "finalizing",
      "gone"} \subseteq Places["wrk"]
  /\ {"boot", "guarded", "running", "gone"} \subseteq Places["prv"]
BY DEF Places

LEMMA GoesPlaced ==
  ASSUME TypeOK, NEW x \in Procs, NEW a \in Attempts, NEW p \in Places[x], Goes(x, a, p)
  PROVE  Placed'
BY DEF TypeOK, Placed, Goes

LEMMA KillsPlaced ==
  ASSUME TypeOK, NEW x \in Procs, NEW y \in Procs, x # y, "gone" \in Places[x],
         NEW a \in Attempts, NEW p \in Places[y], Kills(x, y, a, p)
  PROVE  Placed'
BY DEF TypeOK, Placed, Kills

(* The launcher.                                                           *)
LEMMA ClaimAttemptTyped ==
  ASSUME TypeOK, NEW a \in Attempts, ClaimAttempt(a)
  PROVE  TypeOK'
<1>1. job \in Record  BY DEF TypeOK
<1>2. job' \in Record
  BY <1>1, ClaimWrites DEF ClaimAttempt, CanClaim
<1>3. pc' \in [Procs -> [Attempts -> AllPlaces]]
  BY GoesTyped, KillsTyped DEF ClaimAttempt, Procs, AllPlaces, Places
<1>4. rec' \in [Recoverers -> RecRec]
  BY DEF ClaimAttempt, TypeOK, Quiet
<1>5. guard' \in 0..MaxAttempts /\ cancelled' \in BOOLEAN /\ wiped' \in BOOLEAN /\ prompts' \in Nat
  BY DEF ClaimAttempt, TypeOK, Quiet
<1>6. faults' \in Nat
  BY DEF ClaimAttempt, TypeOK, Fault, NoFault
<1>7. Placed'
  BY GoesPlaced, KillsPlaced, PlacesAre DEF ClaimAttempt, Procs
<1> QED BY <1>2, <1>3, <1>4, <1>5, <1>6, <1>7 DEF TypeOK

LEMMA LauncherPreparesTyped ==
  ASSUME TypeOK, NEW a \in Attempts, LauncherPrepares(a)
  PROVE  TypeOK'
<1>1. job \in Record  BY DEF TypeOK
<1>2. job' \in Record
  BY <1>1, PrepareControllerWrites DEF LauncherPrepares, Writes
<1>3. pc' \in [Procs -> [Attempts -> AllPlaces]]
  BY GoesTyped, KillsTyped DEF LauncherPrepares, Procs, AllPlaces, Places
<1>4. rec' \in [Recoverers -> RecRec]
  BY DEF LauncherPrepares, TypeOK, Quiet
<1>5. guard' \in 0..MaxAttempts /\ cancelled' \in BOOLEAN /\ wiped' \in BOOLEAN /\ prompts' \in Nat
  BY DEF LauncherPrepares, TypeOK, Quiet
<1>6. faults' \in Nat
  BY DEF LauncherPrepares, TypeOK, Fault, NoFault
<1>7. Placed'
  BY GoesPlaced, KillsPlaced, PlacesAre DEF LauncherPrepares, Procs
<1> QED BY <1>2, <1>3, <1>4, <1>5, <1>6, <1>7 DEF TypeOK

LEMMA LauncherSpawnsTyped ==
  ASSUME TypeOK, NEW a \in Attempts, LauncherSpawns(a)
  PROVE  TypeOK'
<1>1. job \in Record  BY DEF TypeOK
<1>2. job' \in Record
  BY <1>1, ControllerNoChildWrites DEF LauncherSpawns, Writes
<1>3. pc' \in [Procs -> [Attempts -> AllPlaces]]
  <2>1. {"boot", "spawned", "failing-blind", "failing", "gone"} \subseteq AllPlaces
    BY DEF AllPlaces, Places
  <2>2. Procs = {"launcher", "ctl", "wrk", "prv"}
    BY DEF Procs
  <2>3. [pc EXCEPT !.ctl[a] = "boot",
         !.launcher[a] = "spawned"] \in [Procs -> [Attempts -> AllPlaces]]
    BY <2>1, <2>2 DEF TypeOK
  <2>4. Goes("launcher", a, "failing-blind") => pc' \in [Procs -> [Attempts -> AllPlaces]]
    BY <2>1, <2>2, GoesTyped
  <2>5. "failing-pidless" \in AllPlaces
    BY DEF AllPlaces, Places
  <2>6. Goes("launcher", a, "failing-pidless") => pc' \in [Procs -> [Attempts -> AllPlaces]]
    BY <2>2, <2>5, GoesTyped
  <2> QED BY <2>3, <2>4, <2>6 DEF LauncherSpawns
<1>4. rec' \in [Recoverers -> RecRec]
  BY DEF LauncherSpawns, TypeOK, Quiet
<1>5. guard' \in 0..MaxAttempts /\ cancelled' \in BOOLEAN /\ wiped' \in BOOLEAN /\ prompts' \in Nat
  BY DEF LauncherSpawns, TypeOK, Quiet
<1>6. faults' \in Nat
  BY DEF LauncherSpawns, TypeOK, Fault, NoFault
<1>7. Placed'
  <2>1. Procs = {"launcher", "ctl", "wrk", "prv"}
    BY DEF Procs
  <2>2. ASSUME pc' = [pc EXCEPT !.ctl[a] = "boot", !.launcher[a] = "spawned"] PROVE Placed'
    <3>1. ASSUME NEW x \in Procs, NEW b \in Attempts
          PROVE  pc'[x][b] \in Places[x]
      <4>1. \/ pc'[x][b] = pc[x][b]
            \/ x = "ctl" /\ pc'[x][b] = "boot"
            \/ x = "launcher" /\ pc'[x][b] = "spawned"
        BY <2>1, <2>2 DEF TypeOK
      <4> QED BY <4>1, PlacesAre DEF TypeOK, Placed
    <3> QED BY <3>1 DEF Placed
  <2>3. Goes("launcher", a, "failing-blind") => Placed'
    BY <2>1, PlacesAre, GoesPlaced
  <2>4. Goes("launcher", a, "failing-pidless") => Placed'
    BY <2>1, PlacesAre, GoesPlaced
  <2> QED BY <2>2, <2>3, <2>4 DEF LauncherSpawns
<1> QED BY <1>2, <1>3, <1>4, <1>5, <1>6, <1>7 DEF TypeOK

LEMMA LauncherReadsTokenTyped ==
  ASSUME TypeOK, NEW a \in Attempts, LauncherReadsToken(a)
  PROVE  TypeOK'
<1>1. job \in Record  BY DEF TypeOK
<1>2. job' \in Record
  BY <1>1 DEF LauncherReadsToken
<1>3. pc' \in [Procs -> [Attempts -> AllPlaces]]
  BY GoesTyped, KillsTyped DEF LauncherReadsToken, Procs, AllPlaces, Places
<1>4. rec' \in [Recoverers -> RecRec]
  BY DEF LauncherReadsToken, TypeOK, Quiet
<1>5. guard' \in 0..MaxAttempts /\ cancelled' \in BOOLEAN /\ wiped' \in BOOLEAN /\ prompts' \in Nat
  BY DEF LauncherReadsToken, TypeOK, Quiet
<1>6. faults' \in Nat
  BY DEF LauncherReadsToken, TypeOK, Fault, NoFault
<1>7. Placed'
  BY GoesPlaced, KillsPlaced, PlacesAre DEF LauncherReadsToken, Procs
<1> QED BY <1>2, <1>3, <1>4, <1>5, <1>6, <1>7 DEF TypeOK

LEMMA LauncherPublishesTyped ==
  ASSUME TypeOK, NEW a \in Attempts, LauncherPublishes(a)
  PROVE  TypeOK'
<1>1. job \in Record  BY DEF TypeOK
<1>2. job' \in Record
  BY <1>1, ControllerStartedWrites DEF LauncherPublishes, Writes, ControllerStarted
<1>3. pc' \in [Procs -> [Attempts -> AllPlaces]]
  BY GoesTyped, KillsTyped DEF LauncherPublishes, Procs, AllPlaces, Places
<1>4. rec' \in [Recoverers -> RecRec]
  BY DEF LauncherPublishes, TypeOK, Quiet
<1>5. guard' \in 0..MaxAttempts /\ cancelled' \in BOOLEAN /\ wiped' \in BOOLEAN /\ prompts' \in Nat
  BY DEF LauncherPublishes, TypeOK, Quiet
<1>6. faults' \in Nat
  BY DEF LauncherPublishes, TypeOK, Fault, NoFault
<1>7. Placed'
  BY GoesPlaced, KillsPlaced, PlacesAre DEF LauncherPublishes, Procs
<1> QED BY <1>2, <1>3, <1>4, <1>5, <1>6, <1>7 DEF TypeOK

LEMMA LauncherCleansUpTyped ==
  ASSUME TypeOK, NEW a \in Attempts, LauncherCleansUp(a)
  PROVE  TypeOK'
<1>1. job \in Record  BY DEF TypeOK
<1>2. job' \in Record
  <2>1. {"signal", "observe"} \subseteq Witnesses
    BY DEF Witnesses
  <2> DEFINE w == IF At("launcher", a, "failing-pidless") THEN "nobody"
                  ELSE IF At("launcher", a, "failing") THEN "signal" ELSE "observe"
  <2>2. w \in Witnesses \cup {"nobody"}
    BY <2>1
  <2> HIDE DEF w
  <2>3. job' = job \/ \E killed \in BOOLEAN,
  clean \in BOOLEAN : job' = PrepareFailure(job, killed, clean, w)
    <3>1. CASE FailureEligible(job, a, At("launcher", a, "failing"))
      <4>1. PICK killed \in BOOLEAN, deleted \in BOOLEAN :
              job' = PrepareFailure(job, killed, killed /\ guard = 0 /\ deleted, w)
        <5> DEFINE ok == FailureEligible(job, a, At("launcher", a, "failing"))
        <5>1. ~(Current(job, a) /\ ~ok) /\ ~(~Current(job, a))
          BY <3>1 DEF FailureEligible
        <5> QED BY <3>1, <5>1 DEF LauncherCleansUp, w
      <4>2. killed \in BOOLEAN /\ (killed /\ guard = 0 /\ deleted) \in BOOLEAN
        OBVIOUS
      <4> QED BY <4>1, <4>2
    <3>2. CASE ~FailureEligible(job, a, At("launcher", a, "failing"))
      BY <3>2 DEF LauncherCleansUp
    <3> QED BY <3>1, <3>2
  <2> QED BY <1>1, <2>2, <2>3, PrepareFailureWrites
<1>3. pc' \in [Procs -> [Attempts -> AllPlaces]]
  <2>1. {"done", "settling", "gone", "watching"} \subseteq AllPlaces
    BY DEF AllPlaces, Places
  <2>2. Procs = {"launcher", "ctl", "wrk", "prv"}
    BY DEF Procs
  <2> QED BY <2>1, <2>2, GoesTyped, KillsTyped DEF LauncherCleansUp, WorkerKilled, WorkerUnsettled
<1>4. rec' \in [Recoverers -> RecRec]
  BY DEF LauncherCleansUp, TypeOK, Quiet
<1>5. guard' \in 0..MaxAttempts /\ cancelled' \in BOOLEAN /\ wiped' \in BOOLEAN /\ prompts' \in Nat
  BY DEF LauncherCleansUp, TypeOK, Quiet
<1>6. faults' \in Nat
  <2>1. faults' \in {faults, faults + 1}
    BY DEF LauncherCleansUp, Fault, NoFault
  <2> QED BY <2>1 DEF TypeOK
<1>7. Placed'
  BY GoesPlaced, KillsPlaced, PlacesAre DEF LauncherCleansUp, Procs
<1> QED BY <1>2, <1>3, <1>4, <1>5, <1>6, <1>7 DEF TypeOK

LEMMA LauncherFailsTyped ==
  ASSUME TypeOK, NEW a \in Attempts, LauncherFails(a)
  PROVE  TypeOK'
<1>1. job \in Record  BY DEF TypeOK
<1>2. job' \in Record
  BY <1>1, FailWrites DEF LauncherFails, Writes
<1>3. pc' \in [Procs -> [Attempts -> AllPlaces]]
  BY GoesTyped, KillsTyped DEF LauncherFails, Procs, AllPlaces, Places
<1>4. rec' \in [Recoverers -> RecRec]
  BY DEF LauncherFails, TypeOK, Quiet
<1>5. guard' \in 0..MaxAttempts /\ cancelled' \in BOOLEAN /\ wiped' \in BOOLEAN /\ prompts' \in Nat
  BY DEF LauncherFails, TypeOK, Quiet
<1>6. faults' \in Nat
  BY DEF LauncherFails, TypeOK, Fault, NoFault
<1>7. Placed'
  BY GoesPlaced, KillsPlaced, PlacesAre DEF LauncherFails, Procs
<1> QED BY <1>2, <1>3, <1>4, <1>5, <1>6, <1>7 DEF TypeOK

(* The controller.                                                         *)
LEMMA ControllerRegistersTyped ==
  ASSUME TypeOK, NEW a \in Attempts, ControllerRegisters(a)
  PROVE  TypeOK'
<1>1. job \in Record  BY DEF TypeOK
<1>2. job' \in Record
  BY <1>1, ControllerStartedWrites DEF ControllerRegisters, Writes, ControllerStarted
<1>3. pc' \in [Procs -> [Attempts -> AllPlaces]]
  BY GoesTyped, KillsTyped
  DEF ControllerRegisters, Procs, AllPlaces, Places, WorkerKilled, WorkerUnsettled
<1>4. rec' \in [Recoverers -> RecRec]
  BY DEF ControllerRegisters, TypeOK, Quiet
<1>5. guard' \in 0..MaxAttempts /\ cancelled' \in BOOLEAN /\ wiped' \in BOOLEAN /\ prompts' \in Nat
  BY DEF ControllerRegisters, TypeOK, Quiet
<1>6. faults' \in Nat
  BY DEF ControllerRegisters, TypeOK, Fault, NoFault
<1>7. Placed'
  BY GoesPlaced, KillsPlaced, PlacesAre
  DEF ControllerRegisters, Procs, WorkerKilled, WorkerUnsettled
<1> QED BY <1>2, <1>3, <1>4, <1>5, <1>6, <1>7 DEF TypeOK

LEMMA ControllerPreparesTyped ==
  ASSUME TypeOK, NEW a \in Attempts, ControllerPrepares(a)
  PROVE  TypeOK'
<1>1. job \in Record  BY DEF TypeOK
<1>2. job' \in Record
  BY <1>1, PrepareWorkerWrites DEF ControllerPrepares, Writes
<1>3. pc' \in [Procs -> [Attempts -> AllPlaces]]
  BY GoesTyped, KillsTyped
  DEF ControllerPrepares, Procs, AllPlaces, Places, WorkerKilled, WorkerUnsettled
<1>4. rec' \in [Recoverers -> RecRec]
  BY DEF ControllerPrepares, TypeOK, Quiet
<1>5. guard' \in 0..MaxAttempts /\ cancelled' \in BOOLEAN /\ wiped' \in BOOLEAN /\ prompts' \in Nat
  BY DEF ControllerPrepares, TypeOK, Quiet
<1>6. faults' \in Nat
  BY DEF ControllerPrepares, TypeOK, Fault, NoFault
<1>7. Placed'
  BY GoesPlaced, KillsPlaced, PlacesAre DEF ControllerPrepares, Procs, WorkerKilled, WorkerUnsettled
<1> QED BY <1>2, <1>3, <1>4, <1>5, <1>6, <1>7 DEF TypeOK

LEMMA ControllerSpawnsTyped ==
  ASSUME TypeOK, NEW a \in Attempts, ControllerSpawns(a)
  PROVE  TypeOK'
<1>1. job \in Record  BY DEF TypeOK
<1>2. job' \in Record
  BY <1>1, WorkerNoChildWrites DEF ControllerSpawns, Writes
<1>3. pc' \in [Procs -> [Attempts -> AllPlaces]]
  <2>1. {"boot", "spawned", "failing-blind", "failing", "gone"} \subseteq AllPlaces
    BY DEF AllPlaces, Places
  <2>2. Procs = {"launcher", "ctl", "wrk", "prv"}
    BY DEF Procs
  <2>3. [pc EXCEPT !.wrk[a] = "boot", !.ctl[a] = "spawned"] \in [Procs -> [Attempts -> AllPlaces]]
    BY <2>1, <2>2 DEF TypeOK
  <2>4. Goes("ctl", a, "gone") => pc' \in [Procs -> [Attempts -> AllPlaces]]
    BY <2>1, <2>2, GoesTyped
  <2> QED BY <2>3, <2>4 DEF ControllerSpawns
<1>4. rec' \in [Recoverers -> RecRec]
  BY DEF ControllerSpawns, TypeOK, Quiet
<1>5. guard' \in 0..MaxAttempts /\ cancelled' \in BOOLEAN /\ wiped' \in BOOLEAN /\ prompts' \in Nat
  BY DEF ControllerSpawns, TypeOK, Quiet
<1>6. faults' \in Nat
  BY DEF ControllerSpawns, TypeOK, Fault, NoFault
<1>7. Placed'
  <2>1. Procs = {"launcher", "ctl", "wrk", "prv"}
    BY DEF Procs
  <2>2. ASSUME pc' = [pc EXCEPT !.wrk[a] = "boot", !.ctl[a] = "spawned"] PROVE Placed'
    <3>1. ASSUME NEW x \in Procs, NEW b \in Attempts
          PROVE  pc'[x][b] \in Places[x]
      <4>1. \/ pc'[x][b] = pc[x][b]
            \/ x = "wrk" /\ pc'[x][b] = "boot"
            \/ x = "ctl" /\ pc'[x][b] = "spawned"
        BY <2>1, <2>2 DEF TypeOK
      <4> QED BY <4>1, PlacesAre DEF TypeOK, Placed
    <3> QED BY <3>1 DEF Placed
  <2>3. Goes("ctl", a, "gone") => Placed'
    BY <2>1, PlacesAre, GoesPlaced
  <2> QED BY <2>2, <2>3 DEF ControllerSpawns
<1> QED BY <1>2, <1>3, <1>4, <1>5, <1>6, <1>7 DEF TypeOK

LEMMA ControllerReadsIdentityTyped ==
  ASSUME TypeOK, NEW a \in Attempts, ControllerReadsIdentity(a)
  PROVE  TypeOK'
<1>1. job \in Record  BY DEF TypeOK
<1>2. job' \in Record
  BY <1>1, WorkerNoChildWrites, UnsettleWorkerWrites
  DEF ControllerReadsIdentity, Writes, WorkerKilled, WorkerUnsettled, Witnesses
<1>3. pc' \in [Procs -> [Attempts -> AllPlaces]]
  BY GoesTyped, KillsTyped
  DEF ControllerReadsIdentity, Procs, AllPlaces, Places, WorkerKilled, WorkerUnsettled
<1>4. rec' \in [Recoverers -> RecRec]
  BY DEF ControllerReadsIdentity, TypeOK, Quiet
<1>5. guard' \in 0..MaxAttempts /\ cancelled' \in BOOLEAN /\ wiped' \in BOOLEAN /\ prompts' \in Nat
  BY DEF ControllerReadsIdentity, TypeOK, Quiet
<1>6. faults' \in Nat
  BY DEF ControllerReadsIdentity, TypeOK, Fault, NoFault
<1>7. Placed'
  BY GoesPlaced, KillsPlaced, PlacesAre
  DEF ControllerReadsIdentity, Procs, WorkerKilled, WorkerUnsettled
<1> QED BY <1>2, <1>3, <1>4, <1>5, <1>6, <1>7 DEF TypeOK

LEMMA ControllerPublishesTyped ==
  ASSUME TypeOK, NEW a \in Attempts, ControllerPublishes(a)
  PROVE  TypeOK'
<1>1. job \in Record  BY DEF TypeOK
<1>2. job' \in Record
  <2>1. {"signal", "observe"} \subseteq Witnesses
    BY DEF Witnesses
  <2>2. job.state = "controller-started" => WorkerStarted(job, a) \in Record
    BY <1>1, WorkerStartedWrites
  <2>3. WorkerStarted(job, a).state = "worker-started" => WorkerStarted(job, a) \in Record
    BY <1>1, <2>2 DEF WorkerStarted
  <2>4. WorkerNoChild(job) \in Record /\ UnsettleWorker(job, "signal") \in Record
    BY <1>1, <2>1, WorkerNoChildWrites, UnsettleWorkerWrites
  <2> QED BY <1>1, <2>3, <2>4 DEF ControllerPublishes, Writes, WorkerKilled, WorkerUnsettled
<1>3. pc' \in [Procs -> [Attempts -> AllPlaces]]
  <2>1. {"done", "settling", "gone", "watching"} \subseteq AllPlaces
    BY DEF AllPlaces, Places
  <2>2. Procs = {"launcher", "ctl", "wrk", "prv"}
    BY DEF Procs
  <2> QED BY <2>1, <2>2, GoesTyped, KillsTyped
    DEF ControllerPublishes, WorkerKilled, WorkerUnsettled
<1>4. rec' \in [Recoverers -> RecRec]
  BY DEF ControllerPublishes, TypeOK, Quiet
<1>5. guard' \in 0..MaxAttempts /\ cancelled' \in BOOLEAN /\ wiped' \in BOOLEAN /\ prompts' \in Nat
  BY DEF ControllerPublishes, TypeOK, Quiet
<1>6. faults' \in Nat
  BY DEF ControllerPublishes, TypeOK, Fault, NoFault
<1>7. Placed'
  BY GoesPlaced, KillsPlaced, PlacesAre
  DEF ControllerPublishes, Procs, WorkerKilled, WorkerUnsettled
<1> QED BY <1>2, <1>3, <1>4, <1>5, <1>6, <1>7 DEF TypeOK

LEMMA ControllerWatchesTyped ==
  ASSUME TypeOK, NEW a \in Attempts, ControllerWatches(a)
  PROVE  TypeOK'
<1>1. job \in Record  BY DEF TypeOK
<1>2. job' \in Record
  BY <1>1 DEF ControllerWatches
<1>3. pc' \in [Procs -> [Attempts -> AllPlaces]]
  BY GoesTyped, KillsTyped
  DEF ControllerWatches, Procs, AllPlaces, Places, WorkerKilled, WorkerUnsettled
<1>4. rec' \in [Recoverers -> RecRec]
  <2> DEFINE s == [at |-> "fence", op |-> "lost", source |-> "provider-generation",
                           attempt |-> a, state |-> job.state]
  <2>1. s \in RecRec
    BY <1>1, RecordTyped DEF RecRec, Typed, Ops, Sources, Attempts
  <2>2. Watchdog \in Recoverers
    BY DEF Recoverers
  <2> HIDE DEF s
  <2>3. rec' = rec \/ rec' = [rec EXCEPT ![Watchdog] = s]
    BY DEF ControllerWatches, s
  <2> QED BY <2>1, <2>2, <2>3, RecTyped DEF TypeOK
<1>5. guard' \in 0..MaxAttempts /\ cancelled' \in BOOLEAN /\ wiped' \in BOOLEAN /\ prompts' \in Nat
  BY DEF ControllerWatches, TypeOK, Quiet
<1>6. faults' \in Nat
  BY DEF ControllerWatches, TypeOK, Fault, NoFault
<1>7. Placed'
  BY GoesPlaced, KillsPlaced, PlacesAre DEF ControllerWatches, Procs, WorkerKilled, WorkerUnsettled
<1> QED BY <1>2, <1>3, <1>4, <1>5, <1>6, <1>7 DEF TypeOK

LEMMA ControllerRecoveredTyped ==
  ASSUME TypeOK, NEW a \in Attempts, ControllerRecovered(a)
  PROVE  TypeOK'
<1>1. job \in Record  BY DEF TypeOK
<1>2. job' \in Record
  BY <1>1 DEF ControllerRecovered
<1>3. pc' \in [Procs -> [Attempts -> AllPlaces]]
  BY GoesTyped, KillsTyped
  DEF ControllerRecovered, Procs, AllPlaces, Places, WorkerKilled, WorkerUnsettled
<1>4. rec' \in [Recoverers -> RecRec]
  BY DEF ControllerRecovered, TypeOK, Quiet
<1>5. guard' \in 0..MaxAttempts /\ cancelled' \in BOOLEAN /\ wiped' \in BOOLEAN /\ prompts' \in Nat
  BY DEF ControllerRecovered, TypeOK, Quiet
<1>6. faults' \in Nat
  BY DEF ControllerRecovered, TypeOK, Fault, NoFault
<1>7. Placed'
  BY GoesPlaced, KillsPlaced, PlacesAre
  DEF ControllerRecovered, Procs, WorkerKilled, WorkerUnsettled
<1> QED BY <1>2, <1>3, <1>4, <1>5, <1>6, <1>7 DEF TypeOK

(* The worker.                                                             *)
LEMMA WorkerRegistersTyped ==
  ASSUME TypeOK, NEW a \in Attempts, WorkerRegisters(a)
  PROVE  TypeOK'
<1>1. job \in Record  BY DEF TypeOK
<1>2. job' \in Record
  BY <1>1, WorkerStartedWrites DEF WorkerRegisters, Writes, WorkerStarted
<1>3. pc' \in [Procs -> [Attempts -> AllPlaces]]
  BY GoesTyped, KillsTyped DEF WorkerRegisters, Procs, AllPlaces, Places
<1>4. rec' \in [Recoverers -> RecRec]
  BY DEF WorkerRegisters, TypeOK, Quiet
<1>5. guard' \in 0..MaxAttempts /\ cancelled' \in BOOLEAN /\ wiped' \in BOOLEAN /\ prompts' \in Nat
  BY DEF WorkerRegisters, TypeOK, Quiet
<1>6. faults' \in Nat
  BY DEF WorkerRegisters, TypeOK, Fault, NoFault
<1>7. Placed'
  BY GoesPlaced, KillsPlaced, PlacesAre DEF WorkerRegisters, Procs
<1> QED BY <1>2, <1>3, <1>4, <1>5, <1>6, <1>7 DEF TypeOK

LEMMA WorkerConsumesTyped ==
  ASSUME TypeOK, NEW a \in Attempts, WorkerConsumes(a)
  PROVE  TypeOK'
<1>1. job \in Record  BY DEF TypeOK
<1>2. job' \in Record
  BY <1>1, ConsumeWrites DEF WorkerConsumes, Writes
<1>3. pc' \in [Procs -> [Attempts -> AllPlaces]]
  BY GoesTyped, KillsTyped DEF WorkerConsumes, Procs, AllPlaces, Places
<1>4. rec' \in [Recoverers -> RecRec]
  BY DEF WorkerConsumes, TypeOK, Quiet
<1>5. guard' \in 0..MaxAttempts /\ cancelled' \in BOOLEAN /\ wiped' \in BOOLEAN /\ prompts' \in Nat
  BY DEF WorkerConsumes, TypeOK, Quiet
<1>6. faults' \in Nat
  BY DEF WorkerConsumes, TypeOK, Fault, NoFault
<1>7. Placed'
  BY GoesPlaced, KillsPlaced, PlacesAre DEF WorkerConsumes, Procs
<1> QED BY <1>2, <1>3, <1>4, <1>5, <1>6, <1>7 DEF TypeOK

LEMMA WorkerPreparesTyped ==
  ASSUME TypeOK, NEW a \in Attempts, WorkerPrepares(a)
  PROVE  TypeOK'
<1>1. job \in Record  BY DEF TypeOK
<1>2. job' \in Record
  BY <1>1, PrepareProviderWrites DEF WorkerPrepares, Writes
<1>3. pc' \in [Procs -> [Attempts -> AllPlaces]]
  BY GoesTyped, KillsTyped DEF WorkerPrepares, Procs, AllPlaces, Places
<1>4. rec' \in [Recoverers -> RecRec]
  BY DEF WorkerPrepares, TypeOK, Quiet
<1>5. guard' \in 0..MaxAttempts /\ cancelled' \in BOOLEAN /\ wiped' \in BOOLEAN /\ prompts' \in Nat
  BY DEF WorkerPrepares, TypeOK, Quiet
<1>6. faults' \in Nat
  BY DEF WorkerPrepares, TypeOK, Fault, NoFault
<1>7. Placed'
  BY GoesPlaced, KillsPlaced, PlacesAre DEF WorkerPrepares, Procs
<1> QED BY <1>2, <1>3, <1>4, <1>5, <1>6, <1>7 DEF TypeOK

LEMMA WorkerSpawnsTyped ==
  ASSUME TypeOK, NEW a \in Attempts, WorkerSpawns(a)
  PROVE  TypeOK'
<1>1. job \in Record  BY DEF TypeOK
<1>2. job' \in Record
  BY <1>1, ProviderNoChildWrites DEF WorkerSpawns, Writes, ProviderAbsent
<1>3. pc' \in [Procs -> [Attempts -> AllPlaces]]
  <2>1. {"boot", "spawned", "failing-blind", "failing", "gone"} \subseteq AllPlaces
    BY DEF AllPlaces, Places
  <2>2. Procs = {"launcher", "ctl", "wrk", "prv"}
    BY DEF Procs
  <2>3. [pc EXCEPT !.prv[a] = "boot", !.wrk[a] = "spawned"] \in [Procs -> [Attempts -> AllPlaces]]
    BY <2>1, <2>2 DEF TypeOK
  <2>4. Goes("wrk", a, "failing") => pc' \in [Procs -> [Attempts -> AllPlaces]]
    BY <2>1, <2>2, GoesTyped
  <2> QED BY <2>3, <2>4 DEF WorkerSpawns
<1>4. rec' \in [Recoverers -> RecRec]
  BY DEF WorkerSpawns, TypeOK, Quiet
<1>5. guard' \in 0..MaxAttempts /\ cancelled' \in BOOLEAN /\ wiped' \in BOOLEAN /\ prompts' \in Nat
  <2>1. guard' \in {guard, 0} /\ cancelled' = cancelled
    BY DEF WorkerSpawns, ProviderAbsent
  <2>2. 0 \in 0..MaxAttempts
    BY AttemptsAssumption DEF Attempts
  <2>3. wiped' \in {wiped, TRUE} /\ prompts' = prompts
    BY DEF WorkerSpawns
  <2> QED BY <2>1, <2>2, <2>3 DEF TypeOK
<1>6. faults' \in Nat
  BY DEF WorkerSpawns, TypeOK, Fault, NoFault
<1>7. Placed'
  <2>1. Procs = {"launcher", "ctl", "wrk", "prv"}
    BY DEF Procs
  <2>2. ASSUME pc' = [pc EXCEPT !.prv[a] = "boot", !.wrk[a] = "spawned"] PROVE Placed'
    <3>1. ASSUME NEW x \in Procs, NEW b \in Attempts
          PROVE  pc'[x][b] \in Places[x]
      <4>1. \/ pc'[x][b] = pc[x][b]
            \/ x = "prv" /\ pc'[x][b] = "boot"
            \/ x = "wrk" /\ pc'[x][b] = "spawned"
        BY <2>1, <2>2 DEF TypeOK
      <4> QED BY <4>1, PlacesAre DEF TypeOK, Placed
    <3> QED BY <3>1 DEF Placed
  <2>3. Goes("wrk", a, "failing") => Placed'
    BY <2>1, PlacesAre, GoesPlaced
  <2> QED BY <2>2, <2>3 DEF WorkerSpawns
<1> QED BY <1>2, <1>3, <1>4, <1>5, <1>6, <1>7 DEF TypeOK

LEMMA WorkerReadsIdentityTyped ==
  ASSUME TypeOK, NEW a \in Attempts, WorkerReadsIdentity(a)
  PROVE  TypeOK'
<1>1. job \in Record  BY DEF TypeOK
<1>2. job' \in Record
  BY <1>1, ProviderNoChildWrites, UnsettleProviderWrites
  DEF WorkerReadsIdentity, Writes, ProviderAbsent
<1>3. pc' \in [Procs -> [Attempts -> AllPlaces]]
  BY GoesTyped, KillsTyped DEF WorkerReadsIdentity, Procs, AllPlaces, Places
<1>4. rec' \in [Recoverers -> RecRec]
  BY DEF WorkerReadsIdentity, TypeOK, Quiet
<1>5. guard' \in 0..MaxAttempts /\ cancelled' \in BOOLEAN /\ wiped' \in BOOLEAN /\ prompts' \in Nat
  <2>1. guard' \in {guard, 0} /\ cancelled' = cancelled
    BY DEF WorkerReadsIdentity, ProviderAbsent
  <2>2. 0 \in 0..MaxAttempts
    BY AttemptsAssumption DEF Attempts
  <2>3. wiped' \in {wiped, TRUE} /\ prompts' = prompts
    BY DEF WorkerReadsIdentity
  <2> QED BY <2>1, <2>2, <2>3 DEF TypeOK
<1>6. faults' \in Nat
  BY DEF WorkerReadsIdentity, TypeOK, Fault, NoFault
<1>7. Placed'
  BY GoesPlaced, KillsPlaced, PlacesAre DEF WorkerReadsIdentity, Procs
<1> QED BY <1>2, <1>3, <1>4, <1>5, <1>6, <1>7 DEF TypeOK

LEMMA WorkerPromotesTyped ==
  ASSUME TypeOK, NEW a \in Attempts, WorkerPromotes(a)
  PROVE  TypeOK'
<1>1. job \in Record  BY DEF TypeOK
<1>2. job' \in Record
  BY <1>1, ProviderStartedWrites DEF WorkerPromotes
<1>3. pc' \in [Procs -> [Attempts -> AllPlaces]]
  BY GoesTyped, KillsTyped DEF WorkerPromotes, Procs, AllPlaces, Places
<1>4. rec' \in [Recoverers -> RecRec]
  BY DEF WorkerPromotes, TypeOK, Quiet
<1>5. guard' \in 0..MaxAttempts /\ cancelled' \in BOOLEAN /\ wiped' \in BOOLEAN /\ prompts' \in Nat
  BY DEF WorkerPromotes, TypeOK, Quiet
<1>6. faults' \in Nat
  BY DEF WorkerPromotes, TypeOK, Fault, NoFault
<1>7. Placed'
  BY GoesPlaced, KillsPlaced, PlacesAre DEF WorkerPromotes, Procs
<1> QED BY <1>2, <1>3, <1>4, <1>5, <1>6, <1>7 DEF TypeOK

LEMMA WorkerAbandonsProviderTyped ==
  ASSUME TypeOK, NEW a \in Attempts, WorkerAbandonsProvider(a)
  PROVE  TypeOK'
<1>1. job \in Record  BY DEF TypeOK
<1>2. job' \in Record
  BY <1>1, ProviderNoChildWrites DEF WorkerAbandonsProvider, Writes
<1>3. pc' \in [Procs -> [Attempts -> AllPlaces]]
  BY GoesTyped, KillsTyped DEF WorkerAbandonsProvider, Procs, AllPlaces, Places
<1>4. rec' \in [Recoverers -> RecRec]
  BY DEF WorkerAbandonsProvider, TypeOK, Quiet
<1>5. guard' \in 0..MaxAttempts /\ cancelled' \in BOOLEAN /\ wiped' \in BOOLEAN /\ prompts' \in Nat
  <2>1. guard' \in {guard, 0} /\ cancelled' = cancelled
    BY DEF WorkerAbandonsProvider
  <2>2. 0 \in 0..MaxAttempts
    BY AttemptsAssumption DEF Attempts
  <2>3. wiped' \in {wiped, TRUE} /\ prompts' = prompts
    BY DEF WorkerAbandonsProvider
  <2> QED BY <2>1, <2>2, <2>3 DEF TypeOK
<1>6. faults' \in Nat
  <2>1. faults' \in {faults, faults + 1}
    BY DEF WorkerAbandonsProvider, Fault, NoFault
  <2> QED BY <2>1 DEF TypeOK
<1>7. Placed'
  BY GoesPlaced, KillsPlaced, PlacesAre DEF WorkerAbandonsProvider, Procs
<1> QED BY <1>2, <1>3, <1>4, <1>5, <1>6, <1>7 DEF TypeOK

LEMMA WorkerEndsTyped ==
  ASSUME TypeOK, NEW a \in Attempts, WorkerEnds(a)
  PROVE  TypeOK'
<1>1. job \in Record  BY DEF TypeOK
<1>0. Ended(job, "completed") \in Record /\ Ended(job, "stopped") \in Record
  BY <1>1, EndedWrites
<1>2. job' \in Record
  BY <1>1, <1>0 DEF WorkerEnds, Writes, Ended
<1>3. pc' \in [Procs -> [Attempts -> AllPlaces]]
  BY GoesTyped, KillsTyped DEF WorkerEnds, Procs, AllPlaces, Places
<1>4. rec' \in [Recoverers -> RecRec]
  BY DEF WorkerEnds, TypeOK, Quiet
<1>5. guard' \in 0..MaxAttempts /\ cancelled' \in BOOLEAN /\ wiped' \in BOOLEAN /\ prompts' \in Nat
  BY DEF WorkerEnds, TypeOK, Quiet
<1>6. faults' \in Nat
  BY DEF WorkerEnds, TypeOK, Fault, NoFault
<1>7. Placed'
  BY GoesPlaced, KillsPlaced, PlacesAre DEF WorkerEnds, Procs
<1> QED BY <1>2, <1>3, <1>4, <1>5, <1>6, <1>7 DEF TypeOK

LEMMA WorkerFinalizesTyped ==
  ASSUME TypeOK, NEW a \in Attempts, WorkerFinalizes(a)
  PROVE  TypeOK'
<1>1. job \in Record  BY DEF TypeOK
<1>0. Blocked(job, TRUE) \in Record /\ Blocked(job, FALSE) \in Record
  BY <1>1, BlockedWrites
<1>2. job' \in Record
  BY <1>1, SettleAsIntendedWrites, <1>0
  DEF WorkerFinalizes, Writes, CanSettleProviderStarted, Blocked
<1>3. pc' \in [Procs -> [Attempts -> AllPlaces]]
  BY GoesTyped, KillsTyped DEF WorkerFinalizes, Procs, AllPlaces, Places
<1>4. rec' \in [Recoverers -> RecRec]
  BY DEF WorkerFinalizes, TypeOK, Quiet
<1>5. guard' \in 0..MaxAttempts /\ cancelled' \in BOOLEAN /\ wiped' \in BOOLEAN /\ prompts' \in Nat
  <2>1. guard' \in {guard, 0} /\ cancelled' = cancelled
    BY DEF WorkerFinalizes
  <2>2. 0 \in 0..MaxAttempts
    BY AttemptsAssumption DEF Attempts
  <2>3. wiped' \in {wiped, TRUE} /\ prompts' = prompts
    BY DEF WorkerFinalizes
  <2> QED BY <2>1, <2>2, <2>3 DEF TypeOK
<1>6. faults' \in Nat
  BY DEF WorkerFinalizes, TypeOK, Fault, NoFault
<1>7. Placed'
  BY GoesPlaced, KillsPlaced, PlacesAre DEF WorkerFinalizes, Procs
<1> QED BY <1>2, <1>3, <1>4, <1>5, <1>6, <1>7 DEF TypeOK

LEMMA WorkerRecordsFailureTyped ==
  ASSUME TypeOK, NEW a \in Attempts, WorkerRecordsFailure(a)
  PROVE  TypeOK'
<1>1. job \in Record  BY DEF TypeOK
<1>2. job' \in Record
  BY <1>1, RecordFailureWrites DEF WorkerRecordsFailure, At
<1>3. pc' \in [Procs -> [Attempts -> AllPlaces]]
  BY GoesTyped, KillsTyped DEF WorkerRecordsFailure, Procs, AllPlaces, Places
<1>4. rec' \in [Recoverers -> RecRec]
  BY DEF WorkerRecordsFailure, TypeOK, Quiet
<1>5. guard' \in 0..MaxAttempts /\ cancelled' \in BOOLEAN /\ wiped' \in BOOLEAN /\ prompts' \in Nat
  BY DEF WorkerRecordsFailure, TypeOK, Quiet
<1>6. faults' \in Nat
  BY DEF WorkerRecordsFailure, TypeOK, Fault, NoFault
<1>7. Placed'
  BY GoesPlaced, KillsPlaced, PlacesAre DEF WorkerRecordsFailure, Procs
<1> QED BY <1>2, <1>3, <1>4, <1>5, <1>6, <1>7 DEF TypeOK

LEMMA WorkerCleansTyped ==
  ASSUME TypeOK, NEW a \in Attempts, WorkerCleans(a)
  PROVE  TypeOK'
<1>1. job \in Record  BY DEF TypeOK
<1>2. job' \in Record
  BY <1>1 DEF WorkerCleans
<1>3. pc' \in [Procs -> [Attempts -> AllPlaces]]
  BY GoesTyped, KillsTyped DEF WorkerCleans, Procs, AllPlaces, Places
<1>4. rec' \in [Recoverers -> RecRec]
  BY DEF WorkerCleans, TypeOK, Quiet
<1>5. guard' \in 0..MaxAttempts /\ cancelled' \in BOOLEAN /\ wiped' \in BOOLEAN /\ prompts' \in Nat
  <2>1. guard' \in {guard, 0} /\ cancelled' = cancelled
    BY DEF WorkerCleans
  <2>2. 0 \in 0..MaxAttempts
    BY AttemptsAssumption DEF Attempts
  <2>3. wiped' \in {wiped, TRUE} /\ prompts' = prompts
    BY DEF WorkerCleans
  <2> QED BY <2>1, <2>2, <2>3 DEF TypeOK
<1>6. faults' \in Nat
  BY DEF WorkerCleans, TypeOK, Fault, NoFault
<1>7. Placed'
  BY GoesPlaced, KillsPlaced, PlacesAre DEF WorkerCleans, Procs
<1> QED BY <1>2, <1>3, <1>4, <1>5, <1>6, <1>7 DEF TypeOK

LEMMA WorkerSettlesTyped ==
  ASSUME TypeOK, NEW a \in Attempts, WorkerSettles(a)
  PROVE  TypeOK'
<1>1. job \in Record  BY DEF TypeOK
<1>2. job' \in Record
  <2> DEFINE c == At("wrk", a, "settling")
             g == Gone("prv", a)
  <2>1. c \in BOOLEAN /\ g \in BOOLEAN
    BY DEF At, Gone
  <2>2. job' = job \/ job' = SettlePreProvider(job, c, g)
    BY DEF WorkerSettles, Writes
  <2> HIDE DEF c, g
  <2> QED BY <1>1, <2>1, <2>2, SettlePreProviderWrites
<1>3. pc' \in [Procs -> [Attempts -> AllPlaces]]
  BY GoesTyped, KillsTyped DEF WorkerSettles, Procs, AllPlaces, Places
<1>4. rec' \in [Recoverers -> RecRec]
  BY DEF WorkerSettles, TypeOK, Quiet
<1>5. guard' \in 0..MaxAttempts /\ cancelled' \in BOOLEAN /\ wiped' \in BOOLEAN /\ prompts' \in Nat
  BY DEF WorkerSettles, TypeOK, Quiet
<1>6. faults' \in Nat
  BY DEF WorkerSettles, TypeOK, Fault, NoFault
<1>7. Placed'
  BY GoesPlaced, KillsPlaced, PlacesAre DEF WorkerSettles, Procs
<1> QED BY <1>2, <1>3, <1>4, <1>5, <1>6, <1>7 DEF TypeOK

(* The bootstrap, and deaths.                                              *)
LEMMA BootstrapRegistersTyped ==
  ASSUME TypeOK, NEW a \in Attempts, BootstrapRegisters(a)
  PROVE  TypeOK'
<1>1. job \in Record  BY DEF TypeOK
<1>2. job' \in Record
  BY <1>1, RegisterGuardWrites DEF BootstrapRegisters, Writes
<1>3. pc' \in [Procs -> [Attempts -> AllPlaces]]
  BY GoesTyped, KillsTyped DEF BootstrapRegisters, Procs, AllPlaces, Places
<1>4. rec' \in [Recoverers -> RecRec]
  BY DEF BootstrapRegisters, TypeOK, Quiet
<1>5. guard' \in 0..MaxAttempts /\ cancelled' \in BOOLEAN /\ wiped' \in BOOLEAN /\ prompts' \in Nat
  <2>1. guard' \in {guard, 0, a} /\ cancelled' = cancelled
    BY DEF BootstrapRegisters
  <2>2. 0 \in 0..MaxAttempts /\ a \in 0..MaxAttempts
    BY AttemptsAssumption DEF Attempts
  <2>3. wiped' \in {wiped, TRUE} /\ prompts' = prompts
    BY DEF BootstrapRegisters
  <2> QED BY <2>1, <2>2, <2>3 DEF TypeOK
<1>6. faults' \in Nat
  BY DEF BootstrapRegisters, TypeOK, Fault, NoFault
<1>7. Placed'
  BY GoesPlaced, KillsPlaced, PlacesAre DEF BootstrapRegisters, Procs
<1> QED BY <1>2, <1>3, <1>4, <1>5, <1>6, <1>7 DEF TypeOK

LEMMA BootstrapReadyTyped ==
  ASSUME TypeOK, NEW a \in Attempts, BootstrapReady(a)
  PROVE  TypeOK'
<1>1. job \in Record  BY DEF TypeOK
<1>2. job' \in Record
  BY <1>1 DEF BootstrapReady
<1>3. pc' \in [Procs -> [Attempts -> AllPlaces]]
  BY GoesTyped, KillsTyped DEF BootstrapReady, Procs, AllPlaces, Places
<1>4. rec' \in [Recoverers -> RecRec]
  BY DEF BootstrapReady, TypeOK, Quiet
<1>5. guard' \in 0..MaxAttempts /\ cancelled' \in BOOLEAN /\ wiped' \in BOOLEAN /\ prompts' \in Nat
  BY DEF BootstrapReady, TypeOK, Quiet
<1>6. faults' \in Nat
  BY DEF BootstrapReady, TypeOK, Fault, NoFault
<1>7. Placed'
  BY GoesPlaced, KillsPlaced, PlacesAre DEF BootstrapReady, Procs
<1> QED BY <1>2, <1>3, <1>4, <1>5, <1>6, <1>7 DEF TypeOK

LEMMA BootstrapExitsTyped ==
  ASSUME TypeOK, NEW a \in Attempts, BootstrapExits(a)
  PROVE  TypeOK'
<1>1. job \in Record  BY DEF TypeOK
<1>2. job' \in Record
  BY <1>1 DEF BootstrapExits
<1>3. pc' \in [Procs -> [Attempts -> AllPlaces]]
  BY GoesTyped, KillsTyped DEF BootstrapExits, Procs, AllPlaces, Places
<1>4. rec' \in [Recoverers -> RecRec]
  BY DEF BootstrapExits, TypeOK, Quiet
<1>5. guard' \in 0..MaxAttempts /\ cancelled' \in BOOLEAN /\ wiped' \in BOOLEAN /\ prompts' \in Nat
  <2>1. guard' \in {guard, 0} /\ cancelled' = cancelled
    BY DEF BootstrapExits
  <2>2. 0 \in 0..MaxAttempts
    BY AttemptsAssumption DEF Attempts
  <2>3. wiped' \in {wiped, TRUE} /\ prompts' = prompts
    BY DEF BootstrapExits
  <2> QED BY <2>1, <2>2, <2>3 DEF TypeOK
<1>6. faults' \in Nat
  BY DEF BootstrapExits, TypeOK, Fault, NoFault
<1>7. Placed'
  BY GoesPlaced, KillsPlaced, PlacesAre DEF BootstrapExits, Procs
<1> QED BY <1>2, <1>3, <1>4, <1>5, <1>6, <1>7 DEF TypeOK

LEMMA DiesTyped ==
  ASSUME TypeOK, NEW a \in Attempts, Dies(a)
  PROVE  TypeOK'
<1>1. job \in Record  BY DEF TypeOK
<1>2. job' \in Record
  BY <1>1 DEF Dies
<1>3. pc' \in [Procs -> [Attempts -> AllPlaces]]
  BY GoesTyped, KillsTyped DEF Dies, Procs, AllPlaces, Places
<1>4. rec' \in [Recoverers -> RecRec]
  <2>1. Idle \in RecRec
    BY AttemptsAssumption DEF Idle, RecRec, Ops, Sources, States
  <2>2. Watchdog \in Recoverers
    BY DEF Recoverers
  <2> QED BY <2>1, <2>2, RecTyped DEF Dies, TypeOK
<1>5. guard' \in 0..MaxAttempts /\ cancelled' \in BOOLEAN /\ wiped' \in BOOLEAN /\ prompts' \in Nat
  BY DEF Dies, TypeOK, Quiet
<1>6. faults' \in Nat
  BY DEF Dies, TypeOK, Fault, NoFault
<1>7. Placed'
  BY GoesPlaced, KillsPlaced, PlacesAre DEF Dies, Procs
<1> QED BY <1>2, <1>3, <1>4, <1>5, <1>6, <1>7 DEF TypeOK

(* Recovery.                                                               *)
LEMMA ReadsTyped ==
  ASSUME TypeOK, NEW r \in Recoverers, Reads(r)
  PROVE  TypeOK'
<1>1. job \in Record  BY DEF TypeOK
<1>0. Blocked(job, TRUE) \in Record /\ Blocked(job, FALSE) \in Record
  BY <1>1, BlockedWrites
<1>2. job' \in Record
  BY <1>1, <1>0 DEF Reads, GivesUp, Blocked
<1>3. pc' \in [Procs -> [Attempts -> AllPlaces]]
  BY DEF Reads, TypeOK
<1>4. rec' \in [Recoverers -> RecRec]
  BY <1>1, DecidesTyped, RestsTyped DEF Reads, GivesUp, Ops, Sources
<1>5. guard' \in 0..MaxAttempts /\ cancelled' \in BOOLEAN /\ wiped' \in BOOLEAN /\ prompts' \in Nat
  BY DEF Reads, TypeOK, Quiet
<1>6. faults' \in Nat
  BY DEF Reads, TypeOK, Fault, NoFault
<1>7. Placed'
  BY DEF Reads, TypeOK, Placed
<1> QED BY <1>2, <1>3, <1>4, <1>5, <1>6, <1>7 DEF TypeOK

LEMMA ResolvesBoundaryTyped ==
  ASSUME TypeOK, NEW r \in Recoverers, ResolvesBoundary(r)
  PROVE  TypeOK'
<1>1. job \in Record  BY DEF TypeOK
<1>0. Blocked(job, TRUE) \in Record /\ Blocked(job, FALSE) \in Record
  BY <1>1, BlockedWrites
<1>2. job' \in Record
  BY <1>1, ProviderNoChildWrites, ProviderStartedWrites, <1>0 DEF ResolvesBoundary, GivesUp, Blocked
<1>3. pc' \in [Procs -> [Attempts -> AllPlaces]]
  BY DEF ResolvesBoundary, TypeOK
<1>4. rec' \in [Recoverers -> RecRec]
  <2>1. ProviderNoChild(job) \in Record /\ ProviderStarted(job) \in Record
    BY <1>1, ProviderNoChildWrites, ProviderStartedWrites
  <2> QED BY <1>1, <2>1, DecidesTyped, RestsTyped DEF ResolvesBoundary, GivesUp, Ops, Sources
<1>5. guard' \in 0..MaxAttempts /\ cancelled' \in BOOLEAN /\ wiped' \in BOOLEAN /\ prompts' \in Nat
  <2>1. guard' \in {guard, 0} /\ cancelled' = cancelled
    BY DEF ResolvesBoundary
  <2>2. 0 \in 0..MaxAttempts
    BY AttemptsAssumption DEF Attempts
  <2>3. wiped' \in {wiped, TRUE} /\ prompts' = prompts
    BY DEF ResolvesBoundary
  <2> QED BY <2>1, <2>2, <2>3 DEF TypeOK
<1>6. faults' \in Nat
  <2>1. faults' \in {faults, faults + 1}
    BY DEF ResolvesBoundary, Fault, NoFault
  <2> QED BY <2>1 DEF TypeOK
<1>7. Placed'
  BY DEF ResolvesBoundary, TypeOK, Placed
<1> QED BY <1>2, <1>3, <1>4, <1>5, <1>6, <1>7 DEF TypeOK

LEMMA FencesTyped ==
  ASSUME TypeOK, NEW r \in Recoverers, Fences(r)
  PROVE  TypeOK'
<1>1. job \in Record  BY DEF TypeOK
<1>0. Blocked(job, TRUE) \in Record /\ Blocked(job, FALSE) \in Record
  BY <1>1, BlockedWrites
<1>2. job' \in Record
  <2>1. rec[r].source \in Sources
    BY DEF TypeOK, RecRec
  <2>2. Fence(job, rec[r].source) \in Record
    BY <1>1, <2>1, FenceWrites
  <2>3. job' \in {job, Fence(job, rec[r].source), Blocked(job, TRUE)}
    BY DEF Fences, GivesUp, Blocked
  <2> QED BY <1>1, <1>0, <2>2, <2>3
<1>3. pc' \in [Procs -> [Attempts -> AllPlaces]]
  BY DEF Fences, TypeOK
<1>4. rec' \in [Recoverers -> RecRec]
  BY ProceedsTyped, RestsTyped DEF Fences, GivesUp
<1>5. guard' \in 0..MaxAttempts /\ cancelled' \in BOOLEAN /\ wiped' \in BOOLEAN /\ prompts' \in Nat
  BY DEF Fences, TypeOK, Quiet
<1>6. faults' \in Nat
  BY DEF Fences, TypeOK, Fault, NoFault
<1>7. Placed'
  BY DEF Fences, TypeOK, Placed
<1> QED BY <1>2, <1>3, <1>4, <1>5, <1>6, <1>7 DEF TypeOK

LEMMA SignalsTyped ==
  ASSUME TypeOK, NEW r \in Recoverers, Signals(r)
  PROVE  TypeOK'
<1>1. job \in Record  BY DEF TypeOK
<1>0. Blocked(job, TRUE) \in Record /\ Blocked(job, FALSE) \in Record
  BY <1>1, BlockedWrites
<1>2. job' \in Record
  BY <1>1, <1>0 DEF Signals, GivesUp, Blocked
<1>3. pc' \in [Procs -> [Attempts -> AllPlaces]]
  <2>1. Target(rec[r].source) \in Procs
    BY DEF Target, Procs
  <2> DEFINE x == Target(rec[r].source)
             n == rec[r].attempt
  <2> HIDE DEF x, n
  <2>2. "gone" \in AllPlaces
    BY DEF AllPlaces, Places
  <2>3. [pc EXCEPT ![x][n] = IF @ = "none" THEN @ ELSE "gone"]
          \in [Procs -> [Attempts -> AllPlaces]]
    BY <2>1, <2>2 DEF TypeOK, x
  <2> QED BY <2>3 DEF Signals, TypeOK, x, n
<1>4. rec' \in [Recoverers -> RecRec]
  BY ProceedsTyped, RestsTyped DEF Signals, GivesUp
<1>5. guard' \in 0..MaxAttempts /\ cancelled' \in BOOLEAN /\ wiped' \in BOOLEAN /\ prompts' \in Nat
  BY DEF Signals, TypeOK, Quiet
<1>6. faults' \in Nat
  BY DEF Signals, TypeOK, Fault, NoFault
<1>7. Placed'
  <2>1. Target(rec[r].source) \in {"ctl", "wrk", "prv"}
    BY DEF Target
  <2>2. \A x \in {"ctl", "wrk", "prv"} : x \in Procs /\ "gone" \in Places[x]
    BY PlacesAre DEF Procs
  <2>3. pc' = pc \/ \E x \in {"ctl", "wrk", "prv"}, n \in Nat :
                     pc' = [pc EXCEPT ![x][n] = IF @ = "none" THEN @ ELSE "gone"]
    BY <2>1 DEF Signals, TypeOK, RecRec
  <2>4. ASSUME NEW y \in Procs, NEW b \in Attempts
        PROVE  pc'[y][b] = pc[y][b] \/ (y \in {"ctl", "wrk", "prv"} /\ pc'[y][b] = "gone")
    BY <2>2, <2>3 DEF TypeOK
  <2> QED BY <2>2, <2>4 DEF TypeOK, Placed
<1> QED BY <1>2, <1>3, <1>4, <1>5, <1>6, <1>7 DEF TypeOK

LEMMA SettlesJobTyped ==
  ASSUME TypeOK, NEW r \in Recoverers, SettlesJob(r)
  PROVE  TypeOK'
<1>1. job \in Record  BY DEF TypeOK
<1>0. Blocked(job, TRUE) \in Record /\ Blocked(job, FALSE) \in Record
  BY <1>1, BlockedWrites
<1>2. job' \in Record
  BY <1>1, SettledWrites, <1>0 DEF SettlesJob, GivesUp, Blocked
<1>3. pc' \in [Procs -> [Attempts -> AllPlaces]]
  BY DEF SettlesJob, TypeOK
<1>4. rec' \in [Recoverers -> RecRec]
  BY RestsTyped DEF SettlesJob, GivesUp
<1>5. guard' \in 0..MaxAttempts /\ cancelled' \in BOOLEAN /\ wiped' \in BOOLEAN /\ prompts' \in Nat
  <2>1. guard' \in {guard, 0} /\ cancelled' = cancelled
    BY DEF SettlesJob
  <2>2. 0 \in 0..MaxAttempts
    BY AttemptsAssumption DEF Attempts
  <2>3. wiped' \in {wiped, TRUE} /\ prompts' = prompts
    BY DEF SettlesJob
  <2> QED BY <2>1, <2>2, <2>3 DEF TypeOK
<1>6. faults' \in Nat
  BY DEF SettlesJob, TypeOK, Fault, NoFault
<1>7. Placed'
  BY DEF SettlesJob, TypeOK, Placed
<1> QED BY <1>2, <1>3, <1>4, <1>5, <1>6, <1>7 DEF TypeOK

(* What comes from outside.                                                *)
LEMMA CancelsTyped ==
  ASSUME TypeOK, Cancels
  PROVE  TypeOK'
<1>1. job \in Record  BY DEF TypeOK
<1>0. Blocked(job, TRUE) \in Record /\ Blocked(job, FALSE) \in Record
  BY <1>1, BlockedWrites
<1>2. job' \in Record
  BY <1>1, CancelledWrites, <1>0 DEF Cancels, Cancelled, Blocked
<1>3. pc' \in [Procs -> [Attempts -> AllPlaces]]
  BY DEF Cancels, TypeOK
<1>4. rec' \in [Recoverers -> RecRec]
  BY DEF Cancels, TypeOK, Quiet
<1>5. guard' \in 0..MaxAttempts /\ cancelled' \in BOOLEAN /\ wiped' \in BOOLEAN /\ prompts' \in Nat
  BY DEF Cancels, TypeOK, Quiet
<1>6. faults' \in Nat
  BY DEF Cancels, TypeOK, Fault, NoFault
<1>7. Placed'
  BY DEF Cancels, TypeOK, Placed
<1> QED BY <1>2, <1>3, <1>4, <1>5, <1>6, <1>7 DEF TypeOK

LEMMA LeaseExpiresTyped ==
  ASSUME TypeOK, LeaseExpires
  PROVE  TypeOK'
<1>1. job \in Record  BY DEF TypeOK
<1>0. Unleased(job) \in Record  BY <1>1, UnleasedWrites
<1>2. job' \in Record
  BY <1>1, <1>0 DEF LeaseExpires, Unleased
<1>3. pc' \in [Procs -> [Attempts -> AllPlaces]]
  BY DEF LeaseExpires, TypeOK
<1>4. rec' \in [Recoverers -> RecRec]
  BY DEF LeaseExpires, TypeOK, Quiet
<1>5. guard' \in 0..MaxAttempts /\ cancelled' \in BOOLEAN /\ wiped' \in BOOLEAN /\ prompts' \in Nat
  BY DEF LeaseExpires, TypeOK, Quiet
<1>6. faults' \in Nat
  BY DEF LeaseExpires, TypeOK, Fault, NoFault
<1>7. Placed'
  BY DEF LeaseExpires, TypeOK, Placed
<1> QED BY <1>2, <1>3, <1>4, <1>5, <1>6, <1>7 DEF TypeOK

=============================================================================
