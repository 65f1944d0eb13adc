----------------------- MODULE WriteProvisioningProofs -----------------------
(* Theorems of WriteProvisioning and their proofs.                         *)
EXTENDS WriteProvisioning, TLAPS

(* The places of a call that was activated, up to its clean-up; those      *)
(* before it asked Grok for the worktree.                                  *)
EarlyPcs  == {"stage", "await", "init", "check"}
ActivePcs == EarlyPcs \cup {"create", "receipt", "close", "promote", "undo", "undoReady", "fail"}

Pcs == ActivePcs \cup {"idle", "dead", "kept", "classify", "adopt", "lease", "claim", "home",
                       "open", "spawn", "unspawned", "activate", "abort", "retain"}

Statuses == {"queued", "failed", "cancelling", "blocked", "lost"}
States   == {"planned", "reissue_planned", "provisioning", "cleanup_pending", "ready", "failed"}
Intents  == {"none", "pending", "registered", "settled", "no-child"}

JobType ==
  [status : Statuses, dispatch : BOOLEAN, state : States, rev : Nat, intent : Intents,
   holder : Slots \cup {None}, proc : Slots \cup {None}, receipt : BOOLEAN,
   proof : BOOLEAN, prior : Nat, open : BOOLEAN, pinned : BOOLEAN]

CallType == [pc : Pcs, rev : Nat, mode : {"fresh", "reissue", "recover"}]

SweepType == [pc : {"idle", "kill", "unguard", "end", "block"}, target : Slots \cup {None}]

BootStates == {"none", "blocked", "told", "guarded", "serving", "creating", "gone"}

TypeOK ==
  /\ job \in JobType
  /\ tree \in {"absent", "partial", "clean"}
  /\ guard \in Slots \cup {None}
  /\ boot \in [Slots -> BootStates]
  /\ creds \subseteq Slots
  /\ call \in [Slots -> CallType]
  /\ sweep \in SweepType

(* The attempt under way is its holder's, and c's.                         *)
Current(c) == job.state = "provisioning" /\ job.proc = c /\ job.holder = c

(* An attempt under way has an intent on record that nobody has settled.   *)
Underway ==
  job.state = "provisioning" =>
    /\ job.intent \in {"pending", "registered"}
    /\ job.proc \in Slots /\ job.holder = job.proc

(* Whatever can act, or tell that something acts, belongs to the attempt   *)
(* under way: a controller that serves, and it is registered; a guard; a   *)
(* credential; and a call that was activated.                              *)
Bound ==
  /\ \A c \in Slots : Effective(c) => Current(c) /\ job.intent = "registered"
  /\ guard # None => Current(guard)
  /\ \A c \in creds : Current(c)
  /\ \A c \in Slots : call[c].pc \in ActivePcs => Current(c)

(* Until Grok is asked there is no worktree, and once the worktree is      *)
(* called ready there is one.                                              *)
Made ==
  /\ job.state \in {"planned", "reissue_planned", "failed"} => tree = "absent"
  /\ job.state = "provisioning" /\ job.intent = "pending" => tree = "absent"
  /\ \A c \in Slots : call[c].pc \in EarlyPcs => tree = "absent" /\ boot[c] # "creating"
  /\ job.state = "ready" => tree = "clean"

Inv == TypeOK /\ Underway /\ Bound /\ Made

(* Updates of a job that keep it one.                                      *)
LEMMA JobUpdates ==
  ASSUME NEW j \in JobType, NEW s \in Statuses, NEW t \in States, NEW i \in Intents,
         NEW n \in Nat, NEW h \in Slots \cup {None}, NEW b \in BOOLEAN
  PROVE  /\ [j EXCEPT !.state = t, !.rev = n, !.intent = i] \in JobType
         /\ [j EXCEPT !.state = t, !.rev = n, !.intent = i, !.proof = b] \in JobType
         /\ [j EXCEPT !.state = t, !.rev = n, !.proof = b] \in JobType
         /\ [j EXCEPT !.state = t, !.rev = n, !.proc = h, !.open = b] \in JobType
         /\ [j EXCEPT !.status = s, !.state = t, !.rev = n, !.intent = i] \in JobType
BY DEF JobType

LEMMA JobClaims ==
  ASSUME NEW j \in JobType, NEW n \in Nat, NEW h \in Slots
  PROVE  /\ [j EXCEPT !.rev = n, !.holder = h] \in JobType
         /\ [j EXCEPT !.receipt = TRUE] \in JobType
BY DEF JobType

LEMMA JobReissues ==
  ASSUME NEW j \in JobType, NEW n \in Nat, NEW m \in Nat, NEW h \in Slots,
         NEW t \in States, NEW i \in Intents
  PROVE  [j EXCEPT !.state = t, !.rev = n, !.intent = i, !.holder = h, !.proc = None,
                   !.proof = FALSE, !.prior = m] \in JobType
BY DEF JobType

(* Those of a transaction of call c: a worktree is adopted, a reissue is   *)
(* planned, claimed, an attempt is activated, promoted, retained, failed.  *)
LEMMA JobChanges ==
  ASSUME TypeOK, NEW c \in Slots
  PROVE  /\ [job EXCEPT !.state = "ready", !.rev = @ + 1, !.intent = "settled"] \in JobType
         /\ [job EXCEPT !.state = "reissue_planned", !.rev = @ + 1, !.intent = "pending",
                        !.holder = c, !.proc = None, !.proof = FALSE,
                        !.prior = @ + 1] \in JobType
         /\ [job EXCEPT !.rev = @ + 1, !.holder = c] \in JobType
         /\ [job EXCEPT !.state = "provisioning", !.rev = @ + 1, !.proc = c,
                        !.open = TRUE] \in JobType
         /\ [job EXCEPT !.state = "ready", !.rev = @ + 1, !.intent = "settled",
                        !.proof = TRUE] \in JobType
         /\ [job EXCEPT !.state = "cleanup_pending", !.rev = @ + 1,
                        !.proof = TRUE] \in JobType
         /\ FailedJob \in JobType
<1>1. job \in JobType /\ job.rev + 1 \in Nat /\ job.prior + 1 \in Nat
  BY DEF TypeOK, JobType
<1>2. /\ "failed" \in Statuses /\ {"settled", "no-child", "pending"} \subseteq Intents
      /\ {"ready", "failed", "reissue_planned", "provisioning", "cleanup_pending"} \subseteq States
  BY DEF Statuses, States, Intents
<1>3. [job EXCEPT !.state = "ready", !.rev = @ + 1, !.intent = "settled"] \in JobType
  BY <1>1, <1>2, JobUpdates
<1>4. [job EXCEPT !.state = "reissue_planned", !.rev = @ + 1, !.intent = "pending",
                  !.holder = c, !.proc = None, !.proof = FALSE, !.prior = @ + 1] \in JobType
  BY <1>1, <1>2, JobReissues
<1>5. [job EXCEPT !.rev = @ + 1, !.holder = c] \in JobType
  BY <1>1, JobClaims
<1>6. [job EXCEPT !.state = "provisioning", !.rev = @ + 1, !.proc = c,
                  !.open = TRUE] \in JobType
  BY <1>1, <1>2, JobUpdates
<1>7. [job EXCEPT !.state = "ready", !.rev = @ + 1, !.intent = "settled",
                  !.proof = TRUE] \in JobType
  BY <1>1, <1>2, JobUpdates
<1>8. [job EXCEPT !.state = "cleanup_pending", !.rev = @ + 1, !.proof = TRUE] \in JobType
  BY <1>1, <1>2, JobUpdates
<1>9. FailedJob \in JobType
  BY <1>1, <1>2, JobUpdates DEF FailedJob
<1> QED BY <1>3, <1>4, <1>5, <1>6, <1>7, <1>8, <1>9

(* Types are kept by every step.                                           *)
LEMMA TypeStep == TypeOK /\ [Next]_vars => TypeOK'
<1> SUFFICES ASSUME TypeOK, [Next]_vars PROVE TypeOK'
  OBVIOUS
<1> USE WriteProvisioningAssumption DEF TypeOK
<1>0. job.rev + 1 \in Nat /\ job.prior + 1 \in Nat
  BY DEF JobType
<1>1. ASSUME NEW c \in Slots, Calls(c) PROVE TypeOK'
  <2>1. CASE Begin(c)
    <3>1. PICK m \in {"fresh", "reissue", "recover"} :
            call' = [call EXCEPT ![c] = [pc |-> IF m = "reissue" THEN "classify" ELSE "lease",
                                         rev |-> job.rev, mode |-> m]]
      BY <2>1 DEF Begin
    <3>2. job.rev \in Nat
      BY DEF JobType
    <3>3. call' \in [Slots -> CallType]
      BY <3>1, <3>2 DEF CallType, Pcs
    <3> QED BY <2>1, <3>3 DEF Begin, BootStates
  <2>2. CASE Classify(c)
    BY <2>2 DEF Classify, CallType, Pcs, EarlyPcs, ActivePcs, SweepType, BootStates, Goto,
      GotoRev, End, vars, world, Fault
  <2>3. CASE Adopt(c)
    <3>1. job' \in JobType
      BY <2>3, JobChanges DEF Adopt
    <3>2. job'.rev \in Nat
      BY <3>1 DEF JobType
    <3>3. call' \in [Slots -> CallType]
      BY <2>3, <3>2 DEF Adopt, Goto, GotoRev, End, CallType, Pcs, EarlyPcs, ActivePcs
    <3> QED BY <2>3, <3>1, <3>3 DEF Adopt, End, world, BootStates
  <2>4. CASE TakeLease(c)
    BY <2>4 DEF TakeLease, CallType, Pcs, EarlyPcs, ActivePcs, SweepType, BootStates, Goto,
      GotoRev, End, vars, world, Fault
  <2>5. CASE Claim(c)
    <3>1. job' \in JobType
      BY <2>5, JobChanges DEF Claim
    <3>2. job'.rev \in Nat
      BY <3>1 DEF JobType
    <3>3. call' \in [Slots -> CallType]
      BY <2>5, <3>2 DEF Claim, Goto, GotoRev, End, CallType, Pcs, EarlyPcs, ActivePcs
    <3> QED BY <2>5, <3>1, <3>3 DEF Claim, End, world, BootStates
  <2>6. CASE MakeHome(c)
    BY <2>6 DEF MakeHome, CallType, Pcs, EarlyPcs, ActivePcs, SweepType, BootStates, Goto,
      GotoRev, End, vars, world, Fault
  <2>7. CASE Open(c)
    <3>1. job' \in JobType
      <4>1. Prepare(c) \in JobType
        <5>1. CASE call[c].mode = "fresh"
          BY <5>1 DEF Prepare, JobType, Statuses, States, Intents
        <5>2. CASE call[c].mode = "reissue"
          BY <5>2, JobChanges DEF Prepare
        <5>3. CASE call[c].mode = "recover"
          BY <5>3, <1>0 DEF Prepare, JobType, Statuses, States, Intents
        <5> QED BY <5>1, <5>2, <5>3 DEF CallType
      <4> QED BY <2>7, <4>1 DEF Open
    <3>2. job'.rev \in Nat
      BY <3>1 DEF JobType
    <3>3. call' \in [Slots -> CallType]
      BY <2>7, <3>2 DEF Open, Goto, GotoRev, End, CallType, Pcs, EarlyPcs, ActivePcs
    <3> QED BY <2>7, <3>1, <3>3 DEF Open, End, world, BootStates
  <2>8. CASE Spawn(c)
    BY <2>8 DEF Spawn, CallType, Pcs, EarlyPcs, ActivePcs, SweepType, BootStates, Goto, GotoRev,
      End, vars, world, Fault
  <2>9. CASE Activate(c)
    <3>1. job' \in JobType
      BY <2>9, JobChanges DEF Activate
    <3>2. job'.rev \in Nat
      BY <3>1 DEF JobType
    <3>3. call' \in [Slots -> CallType]
      BY <2>9, <3>2 DEF Activate, Goto, GotoRev, End, CallType, Pcs, EarlyPcs, ActivePcs
    <3> QED BY <2>9, <3>1, <3>3 DEF Activate, End, world, BootStates
  <2>10. CASE Stage(c)
    <3>1. call' \in [Slots -> CallType]
      BY <2>10 DEF Stage, Goto, CallType, Pcs, EarlyPcs, ActivePcs
    <3>2. boot' \in [Slots -> BootStates]
      BY <2>10 DEF Stage, BootStates
    <3> QED BY <2>10, <3>1, <3>2 DEF Stage
  <2>11. CASE Promote(c)
    <3>1. call' \in [Slots -> CallType]
      BY <2>11 DEF Promote, Goto, CallType, Pcs, EarlyPcs, ActivePcs
    <3>2. boot' \in [Slots -> BootStates]
      BY <2>11 DEF Promote, BootStates
    <3> QED BY <2>11, <3>1, <3>2 DEF Promote
  <2>12. CASE Initialize(c)
    BY <2>12 DEF Initialize, CallType, Pcs, EarlyPcs, ActivePcs, SweepType, BootStates, Goto,
      GotoRev, End, vars, world, Fault
  <2>13. CASE Create(c)
    BY <2>13 DEF Create, CallType, Pcs, EarlyPcs, ActivePcs, SweepType, BootStates, Goto,
      GotoRev, End, vars, world, Fault
  <2>14. CASE Answered(c)
    BY <2>14 DEF Answered, CallType, Pcs, EarlyPcs, ActivePcs, SweepType, BootStates, Goto,
      GotoRev, End, vars, world, Fault
  <2>15. CASE Receive(c)
    <3>1. job' \in JobType
      BY <2>15, <1>0, JobClaims DEF Receive
    <3>2. job'.rev \in Nat
      BY <3>1 DEF JobType
    <3>3. call' \in [Slots -> CallType]
      BY <2>15, <3>2 DEF Receive, Goto, GotoRev, End, CallType, Pcs, EarlyPcs, ActivePcs
    <3> QED BY <2>15, <3>1, <3>3 DEF Receive, End, world, BootStates
  <2>16. CASE Close(c)
    BY <2>16 DEF Close, CallType, Pcs, EarlyPcs, ActivePcs, SweepType, BootStates, Goto,
      GotoRev, End, vars, world, Fault
  <2>17. CASE PromoteReady(c)
    <3>1. job' \in JobType
      BY <2>17, JobChanges DEF PromoteReady
    <3>2. job'.rev \in Nat
      BY <3>1 DEF JobType
    <3>3. call' \in [Slots -> CallType]
      BY <2>17, <3>2 DEF PromoteReady, Goto, GotoRev, End, CallType, Pcs, EarlyPcs, ActivePcs
    <3> QED BY <2>17, <3>1, <3>3 DEF PromoteReady, End, world, BootStates
  <2>18. CASE Unspawned(c)
    <3>1. job' \in JobType
      BY <2>18, JobChanges DEF Unspawned
    <3>2. job'.rev \in Nat
      BY <3>1 DEF JobType
    <3>3. call' \in [Slots -> CallType]
      BY <2>18, <3>2 DEF Unspawned, Goto, GotoRev, End, CallType, Pcs, EarlyPcs, ActivePcs
    <3> QED BY <2>18, <3>1, <3>3 DEF Unspawned, End, world, BootStates
  <2>19. CASE CleanUp(c)
    BY <2>19 DEF CleanUp, CallType, Pcs, EarlyPcs, ActivePcs, SweepType, BootStates, Goto,
      GotoRev, End, vars, world, Fault
  <2>20. CASE Record(c)
    <3>1. job' \in JobType
      BY <2>20, JobChanges DEF Record, Settled
    <3>2. job'.rev \in Nat
      BY <3>1 DEF JobType
    <3>3. call' \in [Slots -> CallType]
      BY <2>20, <3>2 DEF Record, Goto, GotoRev, End, CallType, Pcs, EarlyPcs, ActivePcs
    <3> QED BY <2>20, <3>1, <3>3 DEF Record, End, world, BootStates
  <2> QED BY <1>1, <2>1, <2>2, <2>3, <2>4, <2>5, <2>6, <2>7, <2>8, <2>9, <2>10, <2>11, <2>12,
    <2>13, <2>14, <2>15, <2>16, <2>17, <2>18, <2>19, <2>20 DEF Calls
<1>2. ASSUME NEW c \in Slots, Controllers(c) PROVE TypeOK'
  <2>1. CASE BootRegisters(c)
    BY <2>1 DEF BootRegisters, CallType, Pcs, EarlyPcs, ActivePcs, SweepType, BootStates, Goto,
      GotoRev, End, vars, world, Fault, JobType, Statuses, States, Intents
  <2>2. CASE TreeGrows(c)
    BY <2>2 DEF TreeGrows, CallType, Pcs, EarlyPcs, ActivePcs, SweepType, BootStates, Goto,
      GotoRev, End, vars, world, Fault
  <2>3. CASE BootEnds(c)
    BY <2>3 DEF BootEnds, CallType, Pcs, EarlyPcs, ActivePcs, SweepType, BootStates, Goto,
      GotoRev, End, vars, world, Fault
  <2> QED BY <1>2, <2>1, <2>2, <2>3 DEF Controllers
<1>3. ASSUME NEW c \in Slots, Die(c) PROVE TypeOK'
  BY <1>3 DEF Die, Released, CallType, Pcs, EarlyPcs, ActivePcs, SweepType, BootStates, Goto,
    GotoRev, End, vars, world, Fault
<1>4. ASSUME Others PROVE TypeOK'
  <2>1. CASE Authorize
    BY <2>1 DEF Authorize, CallType, Pcs, EarlyPcs, ActivePcs, SweepType, BootStates, Goto,
      GotoRev, End, vars, world, Fault, JobType, Statuses, States, Intents
  <2>2. CASE Expire
    BY <2>2 DEF Expire, CallType, Pcs, EarlyPcs, ActivePcs, SweepType, BootStates, Goto,
      GotoRev, End, vars, world, Fault, JobType, Statuses, States, Intents
  <2>3. CASE Edit
    BY <2>3 DEF Edit, CallType, Pcs, EarlyPcs, ActivePcs, SweepType, BootStates, Goto, GotoRev,
      End, vars, world, Fault
  <2>4. CASE Cancel
    BY <2>4 DEF Cancel, CallType, Pcs, EarlyPcs, ActivePcs, SweepType, BootStates, Goto,
      GotoRev, End, vars, world, Fault, JobType, Statuses, States, Intents
  <2>5. CASE SweepReads
    BY <2>5 DEF SweepReads, CallType, Pcs, EarlyPcs, ActivePcs, SweepType, BootStates, Goto,
      GotoRev, End, vars, world, Fault
  <2>6. CASE SweepKills
    <3>1. sweep' \in SweepType
      BY <2>6 DEF SweepKills, SweepType
    <3>2. boot' \in [Slots -> BootStates]
      BY <2>6 DEF SweepKills, BootStates
    <3> QED BY <2>6, <3>1, <3>2 DEF SweepKills, SweepType
  <2>7. CASE SweepUnguards
    BY <2>7 DEF SweepUnguards, CallType, Pcs, EarlyPcs, ActivePcs, SweepType, BootStates, Goto,
      GotoRev, End, vars, world, Fault
  <2>8. CASE SweepEnds
    BY <2>8 DEF SweepEnds, CallType, Pcs, EarlyPcs, ActivePcs, SweepType, BootStates, Goto,
      GotoRev, End, vars, world, Fault, JobType, Statuses, States, Intents
  <2> QED BY <1>4, <2>1, <2>2, <2>3, <2>4, <2>5, <2>6, <2>7, <2>8 DEF Others, Sweep
<1>5. CASE UNCHANGED vars
  BY <1>5 DEF vars
<1> QED BY <1>1, <1>2, <1>3, <1>4, <1>5 DEF Next

(* What the transactions change of the attempt, and what they ask for.      *)
LEMMA AdoptMoves ==
  ASSUME TypeOK, NEW c \in Slots, Adopt(c)
  PROVE  \/ job' = job
         \/ job.state = "cleanup_pending" /\ job'.state = "ready" /\ tree = "clean"
BY DEF Adopt, Unanswered, Exact, TypeOK, JobType

LEMMA ClaimMoves ==
  ASSUME TypeOK, NEW c \in Slots, Claim(c)
  PROVE  \/ job' = job
         \/ job.state = "reissue_planned" /\ job'.state = "reissue_planned"
BY DEF Claim, TypeOK, JobType

LEMMA OpenMoves ==
  ASSUME TypeOK, NEW c \in Slots, Open(c)
  PROVE  \/ job' = job
         \/ job.state \in {"planned", "reissue_planned"} /\ job'.state = job.state
         \/ /\ job.state = "cleanup_pending" /\ job'.state = "reissue_planned"
            /\ tree = "absent"
<1>1. job \in JobType
  BY DEF TypeOK
<1>2. CASE job' = job
  BY <1>2
<1>3. CASE job' # job
  <2>1. CanPrepare(c) /\ job' = Prepare(c)
    BY <1>3 DEF Open
  <2>2. call[c].mode \in {"fresh", "reissue", "recover"}
    BY DEF TypeOK, CallType
  <2>3. CASE call[c].mode = "fresh"
    <3>1. job.state = "planned" /\ job' = [job EXCEPT !.intent = "pending", !.holder = c]
      BY <2>1, <2>3 DEF CanPrepare, Prepare
    <3> QED BY <1>1, <3>1 DEF JobType
  <2>4. CASE call[c].mode = "reissue"
    <3>1. /\ job.state = "cleanup_pending" /\ tree = "absent"
          /\ job' = [job EXCEPT !.state = "reissue_planned", !.rev = @ + 1,
                                !.intent = "pending", !.holder = c, !.proc = None,
                                !.proof = FALSE, !.prior = @ + 1]
      BY <2>1, <2>4 DEF CanPrepare, Prepare, Unanswered, Absent
    <3> QED BY <1>1, <3>1 DEF JobType
  <2>5. CASE call[c].mode = "recover"
    <3>1. job.state = "reissue_planned" /\ job' = [job EXCEPT !.rev = @ + 1]
      BY <2>1, <2>5 DEF CanPrepare, Prepare
    <3> QED BY <1>1, <3>1 DEF JobType
  <2> QED BY <2>2, <2>3, <2>4, <2>5
<1> QED BY <1>2, <1>3

LEMMA ActivateMoves ==
  ASSUME TypeOK, NEW c \in Slots, Activate(c)
  PROVE  \/ job' = job /\ call'[c].pc = "abort"
         \/ /\ job.state \in {"planned", "reissue_planned"} /\ guard = None
            /\ job'.state = "provisioning" /\ job'.proc = c /\ job'.holder = c
            /\ job'.intent = "pending" /\ call'[c].pc = "stage"
<1> DEFINE go == Sound /\ Owns(c) /\ Unstarted(c) /\ guard = None /\ Alive(c)
<1>1. job \in JobType /\ call \in [Slots -> CallType]
  BY DEF TypeOK
<1>2. CASE go
  <2>1. /\ job.state \in {"planned", "reissue_planned"} /\ guard = None
        /\ job.holder = c /\ job.intent = "pending"
    BY <1>2 DEF Owns, Unstarted, Planned
  <2>2. /\ job' = [job EXCEPT !.state = "provisioning", !.rev = @ + 1,
                              !.proc = c, !.open = TRUE]
        /\ call' = [call EXCEPT ![c].pc = "stage", ![c].rev = job'.rev]
    BY <1>2 DEF Activate, GotoRev
  <2>3. job'.state = "provisioning" /\ job'.proc = c /\ job'.holder = job.holder
        /\ job'.intent = job.intent
    BY <1>1, <2>2 DEF JobType
  <2>4. call'[c].pc = "stage"
    BY <1>1, <2>2 DEF CallType
  <2> QED BY <2>1, <2>3, <2>4
<1>3. CASE ~go
  BY <1>1, <1>3 DEF Activate, Goto, CallType
<1> QED BY <1>2, <1>3

LEMMA PromoteMoves ==
  ASSUME TypeOK, NEW c \in Slots, PromoteReady(c)
  PROVE  \/ job' = job /\ creds' = creds
         \/ /\ job.state = "provisioning" /\ job.holder = c /\ job'.state = "ready"
            /\ ~Alive(c) /\ guard = None /\ tree = "clean"
            /\ creds' = creds \ {c}
<1>1. job \in JobType
  BY DEF TypeOK
<1>2. CASE CanPromote(c)
  <2>1. /\ job.state = "provisioning" /\ job.holder = c /\ ~Alive(c) /\ guard = None
        /\ tree = "clean"
    BY <1>2 DEF CanPromote, Owns, Registered, Proven, Exact
  <2>2. /\ job' = [job EXCEPT !.state = "ready", !.rev = @ + 1, !.intent = "settled",
                              !.proof = TRUE]
        /\ creds' = creds \ {c}
    BY <1>2 DEF PromoteReady, End
  <2> QED BY <1>1, <2>1, <2>2 DEF JobType
<1>3. CASE ~CanPromote(c)
  BY <1>3 DEF PromoteReady
<1> QED BY <1>2, <1>3

(* They move a call in its own slot.                                       *)
LEMMA OwnSlot ==
  ASSUME TypeOK, NEW c \in Slots,
         Adopt(c) \/ Claim(c) \/ Open(c) \/ Activate(c) \/ PromoteReady(c)
  PROVE  /\ \A d \in Slots \ {c} : call'[d].pc = call[d].pc
         /\ call'[c].pc \in {"idle", "home", "spawn", "stage", "abort", "retain"}
         /\ call'[c].pc = "stage" => Activate(c)
         /\ UNCHANGED <<tree, guard, boot>>
         /\ creds' \subseteq creds
<1> USE DEF TypeOK, CallType, End, Goto, GotoRev, world
<1>1. CASE Adopt(c)         BY <1>1 DEF Adopt
<1>2. CASE Claim(c)         BY <1>2 DEF Claim
<1>3. CASE Open(c)          BY <1>3 DEF Open
<1>4. CASE Activate(c)      BY <1>4 DEF Activate
<1>5. CASE PromoteReady(c)  BY <1>5 DEF PromoteReady
<1> QED BY <1>1, <1>2, <1>3, <1>4, <1>5


(* Nothing is bound to an attempt while none is under way.                 *)
LEMMA NothingBound ==
  ASSUME Bound, job.state # "provisioning"
  PROVE  /\ \A c \in Slots : ~Effective(c) /\ call[c].pc \notin ActivePcs
         /\ guard = None /\ \A c \in creds : FALSE
BY DEF Bound, Current

(* A step that activates nothing and leaves the attempt alone.             *)
LEMMA BoundFrame ==
  ASSUME Bound, UNCHANGED <<job, guard, boot>>, creds' \subseteq creds,
         \A d \in Slots : call'[d].pc \in ActivePcs => call[d].pc \in ActivePcs
  PROVE  Bound'
BY DEF Bound, Current, Effective

LEMMA MadeFrame ==
  ASSUME Made, UNCHANGED <<job, tree, boot>>,
         \A d \in Slots : call'[d].pc \in EarlyPcs => call[d].pc \in EarlyPcs
  PROVE  Made'
BY DEF Made

LEMMA BoundMoves ==
  ASSUME TypeOK, Underway, Bound, NEW c \in Slots,
         Adopt(c) \/ Claim(c) \/ Open(c) \/ Activate(c) \/ PromoteReady(c)
  PROVE  Bound'
<1>1. /\ \A d \in Slots \ {c} : call'[d].pc = call[d].pc
      /\ call'[c].pc \in {"idle", "home", "spawn", "stage", "abort", "retain"}
      /\ call'[c].pc = "stage" => Activate(c)
      /\ guard' = guard /\ boot' = boot /\ creds' \subseteq creds
  BY OwnSlot
<1>2. creds \subseteq Slots
  BY DEF TypeOK
<1>3. CASE job' = job
  <2>1. call'[c].pc \notin ActivePcs
    BY <1>1, <1>3, ActivateMoves DEF ActivePcs, EarlyPcs
  <2> QED BY <1>1, <1>3, <2>1 DEF Bound, Current, Effective
<1>4. CASE job' # job /\ job.state # "provisioning"
  <2>1. /\ \A d \in Slots : ~Effective(d) /\ call[d].pc \notin ActivePcs
        /\ guard = None /\ \A d \in creds : FALSE
    BY <1>4, NothingBound
  <2>2. \A d \in Slots : ~Effective(d)'
    BY <1>1, <2>1 DEF Effective
  <2>3. call'[c].pc \in ActivePcs => Current(c)'
    <3>1. call'[c].pc \in ActivePcs => call'[c].pc = "stage"
      BY <1>1 DEF ActivePcs, EarlyPcs
    <3> QED BY <1>1, <1>4, <3>1, ActivateMoves DEF Current
  <2> QED BY <1>1, <2>1, <2>2, <2>3 DEF Bound
<1>5. CASE job' # job /\ job.state = "provisioning"
  <2>1. PromoteReady(c)
    BY <1>5, AdoptMoves, ClaimMoves, OpenMoves, ActivateMoves
  <2>2. job.holder = c /\ ~Alive(c) /\ guard = None /\ creds' = creds \ {c}
    BY <1>5, <2>1, PromoteMoves
  <2>3. \A d \in Slots : Current(d) => d = c
    BY <2>2 DEF Current
  <2>4. \A d \in Slots : ~Effective(d)'
    BY <1>1, <2>2, <2>3, WriteProvisioningAssumption DEF Bound, Effective, Alive
  <2>5. \A d \in creds' : FALSE
    BY <1>2, <2>2, <2>3 DEF Bound
  <2>6. \A d \in Slots : call'[d].pc \notin ActivePcs
    <3>1. call'[c].pc \notin ActivePcs
      BY <1>1, <1>5, <2>1, PromoteMoves, ActivateMoves DEF ActivePcs, EarlyPcs
    <3> QED BY <1>1, <2>3, <3>1 DEF Bound
  <2> QED BY <1>1, <2>2, <2>4, <2>5, <2>6 DEF Bound
<1> QED BY <1>3, <1>4, <1>5

LEMMA MadeMoves ==
  ASSUME TypeOK, Underway, Bound, Made, NEW c \in Slots,
         Adopt(c) \/ Claim(c) \/ Open(c) \/ Activate(c) \/ PromoteReady(c)
  PROVE  Made'
<1>1. /\ \A d \in Slots \ {c} : call'[d].pc = call[d].pc
      /\ call'[c].pc \in {"idle", "home", "spawn", "stage", "abort", "retain"}
      /\ call'[c].pc = "stage" => Activate(c)
      /\ tree' = tree /\ boot' = boot
  BY OwnSlot
<1>2. \/ job' = job
      \/ job.state = "cleanup_pending" /\ job'.state = "ready" /\ tree = "clean"
      \/ job.state \in {"planned", "reissue_planned"} /\ job'.state = job.state
      \/ job.state = "cleanup_pending" /\ job'.state = "reissue_planned" /\ tree = "absent"
      \/ /\ job.state \in {"planned", "reissue_planned"}
         /\ job'.state = "provisioning"
      \/ job.state = "provisioning" /\ job'.state = "ready" /\ tree = "clean"
  BY AdoptMoves, ClaimMoves, OpenMoves, ActivateMoves, PromoteMoves
<1>3. ASSUME NEW d \in Slots, call'[d].pc \in EarlyPcs
      PROVE  tree' = "absent" /\ boot'[d] # "creating"
  <2>1. CASE d # c
    BY <1>1, <1>3, <2>1 DEF Made
  <2>2. CASE d = c
    <3>1. Activate(c) /\ job.state \in {"planned", "reissue_planned"}
      BY <1>1, <1>3, <2>2, ActivateMoves DEF EarlyPcs
    <3>2. ~Effective(c) /\ tree = "absent"
      BY <3>1, NothingBound DEF Made
    <3> QED BY <1>1, <2>2, <3>2 DEF Effective
  <2> QED BY <2>1, <2>2
<1> QED BY <1>1, <1>2, <1>3 DEF Made

(* An attempt under way is its holder's.                                   *)
LEMMA UnderwayStep ==
  ASSUME TypeOK, TypeOK', Underway, Bound, [Next]_vars
  PROVE  Underway'
<1> USE WriteProvisioningAssumption
    DEF TypeOK, JobType, CallType, SweepType, Goto, GotoRev, End, Alive, Effective,
        world, vars, Underway, Bound, Current, ActivePcs, EarlyPcs
<1>1. ASSUME NEW c \in Slots, Calls(c) PROVE Underway'
  <2>1. CASE Begin(c)
    BY <2>1 DEF Begin, Fresh
  <2>2. CASE Classify(c)
    BY <2>2 DEF Classify, Exact, Absent
  <2>3. CASE Adopt(c)
    BY <2>3, AdoptMoves
  <2>4. CASE TakeLease(c)
    BY <2>4 DEF TakeLease
  <2>5. CASE Claim(c)
    BY <2>5, ClaimMoves
  <2>6. CASE MakeHome(c)
    BY <2>6 DEF MakeHome
  <2>7. CASE Open(c)
    BY <2>7, OpenMoves
  <2>8. CASE Spawn(c)
    BY <2>8 DEF Spawn
  <2>9. CASE Activate(c)
    BY <2>9, ActivateMoves
  <2>10. CASE Stage(c)
    BY <2>10 DEF Stage
  <2>11. CASE Promote(c)
    BY <2>11 DEF Promote
  <2>12. CASE Initialize(c)
    BY <2>12 DEF Initialize
  <2>13. CASE Create(c)
    BY <2>13 DEF Create, Registered, Owns
  <2>14. CASE Answered(c)
    BY <2>14 DEF Answered, Exact
  <2>15. CASE Receive(c)
    BY <2>15 DEF Receive, Registered
  <2>16. CASE Close(c)
    BY <2>16 DEF Close
  <2>17. CASE PromoteReady(c)
    BY <2>17, PromoteMoves
  <2>18. CASE Unspawned(c)
    BY <2>18 DEF Unspawned, NoChild, FailedJob, Owns, Unstarted, Planned, Proven
  <2>19. CASE CleanUp(c)
    BY <2>19 DEF CleanUp, KnowsGuard
  <2>20. CASE Record(c)
    BY <2>20 DEF Record, Settled, CanRetain, NoChild, FailedJob, Owns, Unstarted, Planned,
      Proven, Registered
  <2> QED BY <1>1, <2>1, <2>2, <2>3, <2>4, <2>5, <2>6, <2>7, <2>8, <2>9, <2>10, <2>11, <2>12,
    <2>13, <2>14, <2>15, <2>16, <2>17, <2>18, <2>19, <2>20 DEF Calls
<1>2. ASSUME NEW c \in Slots, Controllers(c) PROVE Underway'
  <2>1. CASE BootRegisters(c)
    BY <2>1 DEF BootRegisters, MayRegister
  <2>2. CASE TreeGrows(c)
    BY <2>2 DEF TreeGrows
  <2>3. CASE BootEnds(c)
    BY <2>3 DEF BootEnds
  <2> QED BY <1>2, <2>1, <2>2, <2>3 DEF Controllers
<1>3. ASSUME NEW c \in Slots, Die(c) PROVE Underway'
  BY <1>3 DEF Die, Released
<1>4. ASSUME Others PROVE Underway'
  <2>1. CASE Authorize
    BY <2>1 DEF Authorize
  <2>2. CASE Expire
    BY <2>2 DEF Expire
  <2>3. CASE Edit
    BY <2>3 DEF Edit
  <2>4. CASE Cancel
    BY <2>4 DEF Cancel
  <2>5. CASE SweepReads
    BY <2>5 DEF SweepReads
  <2>6. CASE SweepKills
    BY <2>6 DEF SweepKills
  <2>7. CASE SweepUnguards
    BY <2>7 DEF SweepUnguards
  <2>8. CASE SweepEnds
    BY <2>8 DEF SweepEnds, Sweepable
  <2> QED BY <1>4, <2>1, <2>2, <2>3, <2>4, <2>5, <2>6, <2>7, <2>8 DEF Others, Sweep
<1>5. CASE UNCHANGED vars
  BY <1>5
<1> QED BY <1>1, <1>2, <1>3, <1>4, <1>5 DEF Next

(* What acts belongs to the attempt under way.                             *)
LEMMA BoundStep ==
  ASSUME TypeOK, TypeOK', Underway, Bound, [Next]_vars
  PROVE  Bound'
<1> USE WriteProvisioningAssumption
    DEF TypeOK, JobType, CallType, SweepType, Goto, GotoRev, End, Alive, Effective,
        world, vars, Underway, Bound, Current, ActivePcs, EarlyPcs, BootStates
<1>1. ASSUME NEW c \in Slots, Calls(c) PROVE Bound'
  <2>1. CASE Begin(c)
    BY <2>1 DEF Begin, Fresh
  <2>2. CASE Classify(c)
    BY <2>2 DEF Classify, Exact, Absent
  <2>3. CASE Adopt(c)
    BY <2>3, BoundMoves
  <2>4. CASE TakeLease(c)
    BY <2>4 DEF TakeLease
  <2>5. CASE Claim(c)
    BY <2>5, BoundMoves
  <2>6. CASE MakeHome(c)
    <3>1. UNCHANGED <<job, guard, boot>> /\ creds' \subseteq creds
      BY <2>6 DEF MakeHome
    <3>2. call'[c].pc \in {"open", "idle"} /\ \A d \in Slots \ {c} : call'[d] = call[d]
      BY <2>6 DEF MakeHome
    <3>3. \A d \in Slots : call'[d].pc \in ActivePcs => call[d].pc \in ActivePcs
      BY <3>2
    <3> QED BY <3>1, <3>3, BoundFrame
  <2>7. CASE Open(c)
    BY <2>7, BoundMoves
  <2>8. CASE Spawn(c)
    BY <2>8 DEF Spawn
  <2>9. CASE Activate(c)
    BY <2>9, BoundMoves
  <2>10. CASE Stage(c)
    BY <2>10 DEF Stage
  <2>11. CASE Promote(c)
    BY <2>11 DEF Promote
  <2>12. CASE Initialize(c)
    BY <2>12 DEF Initialize
  <2>13. CASE Create(c)
    BY <2>13 DEF Create, Registered, Owns
  <2>14. CASE Answered(c)
    BY <2>14 DEF Answered, Exact
  <2>15. CASE Receive(c)
    BY <2>15 DEF Receive, Registered
  <2>16. CASE Close(c)
    BY <2>16 DEF Close
  <2>17. CASE PromoteReady(c)
    BY <2>17, BoundMoves
  <2>18. CASE Unspawned(c)
    BY <2>18 DEF Unspawned, NoChild, FailedJob, Owns, Unstarted, Planned, Proven
  <2>19. CASE CleanUp(c)
    BY <2>19 DEF CleanUp, KnowsGuard
  <2>20. CASE Record(c)
    BY <2>20 DEF Record, Settled, CanRetain, NoChild, FailedJob, Owns, Unstarted, Planned,
      Proven, Registered
  <2> QED BY <1>1, <2>1, <2>2, <2>3, <2>4, <2>5, <2>6, <2>7, <2>8, <2>9, <2>10, <2>11, <2>12,
    <2>13, <2>14, <2>15, <2>16, <2>17, <2>18, <2>19, <2>20 DEF Calls
<1>2. ASSUME NEW c \in Slots, Controllers(c) PROVE Bound'
  <2>1. CASE BootRegisters(c)
    BY <2>1 DEF BootRegisters, MayRegister
  <2>2. CASE TreeGrows(c)
    BY <2>2 DEF TreeGrows
  <2>3. CASE BootEnds(c)
    BY <2>3 DEF BootEnds
  <2> QED BY <1>2, <2>1, <2>2, <2>3 DEF Controllers
<1>3. ASSUME NEW c \in Slots, Die(c) PROVE Bound'
  BY <1>3 DEF Die, Released
<1>4. ASSUME Others PROVE Bound'
  <2>1. CASE Authorize
    BY <2>1 DEF Authorize
  <2>2. CASE Expire
    BY <2>2 DEF Expire
  <2>3. CASE Edit
    BY <2>3 DEF Edit
  <2>4. CASE Cancel
    BY <2>4 DEF Cancel
  <2>5. CASE SweepReads
    BY <2>5 DEF SweepReads
  <2>6. CASE SweepKills
    BY <2>6 DEF SweepKills
  <2>7. CASE SweepUnguards
    BY <2>7 DEF SweepUnguards
  <2>8. CASE SweepEnds
    BY <2>8 DEF SweepEnds, Sweepable
  <2> QED BY <1>4, <2>1, <2>2, <2>3, <2>4, <2>5, <2>6, <2>7, <2>8 DEF Others, Sweep
<1>5. CASE UNCHANGED vars
  BY <1>5
<1> QED BY <1>1, <1>2, <1>3, <1>4, <1>5 DEF Next

(* There is a worktree only where Grok was asked for it.                   *)
LEMMA MadeStep ==
  ASSUME TypeOK, TypeOK', Underway, Bound, Made, [Next]_vars
  PROVE  Made'
<1> USE WriteProvisioningAssumption
    DEF TypeOK, JobType, CallType, SweepType, Goto, GotoRev, End, Alive, Effective,
        world, vars, Made, Underway, Bound, Current, ActivePcs, EarlyPcs, BootStates
<1>1. ASSUME NEW c \in Slots, Calls(c) PROVE Made'
  <2>1. CASE Begin(c)
    BY <2>1 DEF Begin, Fresh
  <2>2. CASE Classify(c)
    BY <2>2 DEF Classify, Exact, Absent
  <2>3. CASE Adopt(c)
    BY <2>3, MadeMoves
  <2>4. CASE TakeLease(c)
    BY <2>4 DEF TakeLease
  <2>5. CASE Claim(c)
    BY <2>5, MadeMoves
  <2>6. CASE MakeHome(c)
    <3>1. UNCHANGED <<job, tree, boot>>
      BY <2>6 DEF MakeHome
    <3>2. call'[c].pc \in {"open", "idle"} /\ \A d \in Slots \ {c} : call'[d] = call[d]
      BY <2>6 DEF MakeHome
    <3>3. \A d \in Slots : call'[d].pc \in EarlyPcs => call[d].pc \in EarlyPcs
      BY <3>2
    <3> QED BY <3>1, <3>3, MadeFrame
  <2>7. CASE Open(c)
    BY <2>7, MadeMoves
  <2>8. CASE Spawn(c)
    BY <2>8 DEF Spawn
  <2>9. CASE Activate(c)
    BY <2>9, MadeMoves
  <2>10. CASE Stage(c)
    BY <2>10 DEF Stage
  <2>11. CASE Promote(c)
    BY <2>11 DEF Promote
  <2>12. CASE Initialize(c)
    BY <2>12 DEF Initialize
  <2>13. CASE Create(c)
    BY <2>13 DEF Create, Registered, Owns
  <2>14. CASE Answered(c)
    BY <2>14 DEF Answered, Exact
  <2>15. CASE Receive(c)
    BY <2>15 DEF Receive, Registered
  <2>16. CASE Close(c)
    BY <2>16 DEF Close
  <2>17. CASE PromoteReady(c)
    BY <2>17, MadeMoves
  <2>18. CASE Unspawned(c)
    BY <2>18 DEF Unspawned, NoChild, FailedJob, Owns, Unstarted, Planned, Proven
  <2>19. CASE CleanUp(c)
    BY <2>19 DEF CleanUp, KnowsGuard
  <2>20. CASE Record(c)
    BY <2>20 DEF Record, Settled, CanRetain, NoChild, FailedJob, Owns, Unstarted, Planned,
      Proven, Registered
  <2> QED BY <1>1, <2>1, <2>2, <2>3, <2>4, <2>5, <2>6, <2>7, <2>8, <2>9, <2>10, <2>11, <2>12,
    <2>13, <2>14, <2>15, <2>16, <2>17, <2>18, <2>19, <2>20 DEF Calls
<1>2. ASSUME NEW c \in Slots, Controllers(c) PROVE Made'
  <2>1. CASE BootRegisters(c)
    BY <2>1 DEF BootRegisters, MayRegister
  <2>2. CASE TreeGrows(c)
    BY <2>2 DEF TreeGrows
  <2>3. CASE BootEnds(c)
    BY <2>3 DEF BootEnds
  <2> QED BY <1>2, <2>1, <2>2, <2>3 DEF Controllers
<1>3. ASSUME NEW c \in Slots, Die(c) PROVE Made'
  BY <1>3 DEF Die, Released
<1>4. ASSUME Others PROVE Made'
  <2>1. CASE Authorize
    BY <2>1 DEF Authorize
  <2>2. CASE Expire
    BY <2>2 DEF Expire
  <2>3. CASE Edit
    BY <2>3 DEF Edit
  <2>4. CASE Cancel
    BY <2>4 DEF Cancel
  <2>5. CASE SweepReads
    BY <2>5 DEF SweepReads
  <2>6. CASE SweepKills
    BY <2>6 DEF SweepKills
  <2>7. CASE SweepUnguards
    BY <2>7 DEF SweepUnguards
  <2>8. CASE SweepEnds
    BY <2>8 DEF SweepEnds, Sweepable
  <2> QED BY <1>4, <2>1, <2>2, <2>3, <2>4, <2>5, <2>6, <2>7, <2>8 DEF Others, Sweep
<1>5. CASE UNCHANGED vars
  BY <1>5
<1> QED BY <1>1, <1>2, <1>3, <1>4, <1>5 DEF Next

(* Only the call's own Create asks Grok for the worktree.                  *)
LEMMA CreateEntry ==
  ASSUME TypeOK, Next
  PROVE  \A d \in Slots : boot'[d] = "creating" /\ boot[d] # "creating" => Create(d)
<1> DEFINE Asked == \A d \in Slots : boot'[d] = "creating" /\ boot[d] # "creating" => Create(d)
<1> USE DEF TypeOK
<1>1. ASSUME NEW c \in Slots, Calls(c) PROVE Asked
  <2>1. CASE Begin(c)
    BY <2>1 DEF Begin
  <2>2. CASE Classify(c)
    BY <2>2 DEF Classify, End, world
  <2>3. CASE Adopt(c)
    BY <2>3 DEF Adopt, End, world
  <2>4. CASE TakeLease(c)
    BY <2>4 DEF TakeLease
  <2>5. CASE Claim(c)
    BY <2>5 DEF Claim
  <2>6. CASE MakeHome(c)
    BY <2>6 DEF MakeHome
  <2>7. CASE Open(c)
    BY <2>7 DEF Open
  <2>8. CASE Spawn(c)
    BY <2>8 DEF Spawn
  <2>9. CASE Activate(c)
    BY <2>9 DEF Activate, End, world
  <2>10. CASE Stage(c)
    BY <2>10 DEF Stage
  <2>11. CASE Promote(c)
    BY <2>11 DEF Promote
  <2>12. CASE Initialize(c)
    BY <2>12 DEF Initialize
  <2>13. CASE Create(c)
    BY <2>13 DEF Create
  <2>14. CASE Answered(c)
    BY <2>14 DEF Answered
  <2>15. CASE Receive(c)
    BY <2>15 DEF Receive, End, world
  <2>16. CASE Close(c)
    BY <2>16 DEF Close
  <2>17. CASE PromoteReady(c)
    BY <2>17 DEF PromoteReady
  <2>18. CASE Unspawned(c)
    BY <2>18 DEF Unspawned
  <2>19. CASE CleanUp(c)
    BY <2>19 DEF CleanUp
  <2>20. CASE Record(c)
    BY <2>20 DEF Record
  <2> QED BY <1>1, <2>1, <2>2, <2>3, <2>4, <2>5, <2>6, <2>7, <2>8, <2>9, <2>10, <2>11, <2>12,
    <2>13, <2>14, <2>15, <2>16, <2>17, <2>18, <2>19, <2>20 DEF Calls
<1>2. ASSUME NEW c \in Slots, Controllers(c) PROVE Asked
  <2>1. CASE BootRegisters(c)
    BY <2>1 DEF BootRegisters
  <2>2. CASE TreeGrows(c)
    BY <2>2 DEF TreeGrows
  <2>3. CASE BootEnds(c)
    BY <2>3 DEF BootEnds
  <2> QED BY <1>2, <2>1, <2>2, <2>3 DEF Controllers
<1>3. ASSUME NEW c \in Slots, Die(c) PROVE Asked
  BY <1>3 DEF Die
<1>4. ASSUME Others PROVE Asked
  <2>1. CASE Authorize
    BY <2>1 DEF Authorize, End, world
  <2>2. CASE Expire
    BY <2>2 DEF Expire
  <2>3. CASE Edit
    BY <2>3 DEF Edit
  <2>4. CASE Cancel
    BY <2>4 DEF Cancel
  <2>5. CASE SweepReads
    BY <2>5 DEF SweepReads
  <2>6. CASE SweepKills
    BY <2>6 DEF SweepKills
  <2>7. CASE SweepUnguards
    BY <2>7 DEF SweepUnguards
  <2>8. CASE SweepEnds
    BY <2>8 DEF SweepEnds
  <2> QED BY <1>4, <2>1, <2>2, <2>3, <2>4, <2>5, <2>6, <2>7, <2>8 DEF Others, Sweep
<1> QED BY <1>1, <1>2, <1>3, <1>4 DEF Next

(* Nothing has happened.                                                   *)
LEMMA InitInv == Init => Inv
BY WriteProvisioningAssumption
   DEF Init, Admitted, Idle, Inv, TypeOK, JobType, CallType, SweepType, BootStates, Statuses,
       States, Intents, Pcs, EarlyPcs, ActivePcs, Underway, Bound, Made, Effective, Current

(* Inv is inductive.                                                       *)
LEMMA NextInv == Inv /\ [Next]_vars => Inv'
BY TypeStep, UnderwayStep, BoundStep, MadeStep DEF Inv

(* Inv holds in every behaviour, with or without fairness.                 *)
LEMMA InvAlways == Spec => []Inv
BY InitInv, NextInv, PTL DEF Spec

(* However many calls compete for a worker, whatever they know of each     *)
(* other, and whatever dies, expires, is edited, cancelled or swept in     *)
(* between: a worktree that is called ready is the exact one, and no       *)
(* controller, guard or credential of any attempt is left.                 *)
THEOREM ReadyIsEarnedHolds == Spec => []ReadyIsEarned
<1>1. Inv => ReadyIsEarned
  <2> SUFFICES ASSUME Inv, job.state = "ready"
               PROVE  /\ tree = "clean" /\ guard = None /\ creds = {}
                      /\ \A c \in Slots : ~Effective(c)
    BY DEF ReadyIsEarned
  <2>1. /\ \A c \in Slots : ~Effective(c)
        /\ guard = None /\ \A c \in creds : FALSE
    BY NothingBound DEF Inv
  <2> QED BY <2>1 DEF Inv, Made
<1> QED BY <1>1, InvAlways, PTL

(* Under the same generality: a job that the transactions of a failed call *)
(* report as failed left nothing behind, neither on disk nor running.      *)
THEOREM FailedLeavesNothingHolds == Spec => []FailedLeavesNothing
<1>1. Inv => FailedLeavesNothing
  <2> SUFFICES ASSUME Inv, job.state = "failed"
               PROVE  tree = "absent" /\ creds = {} /\ \A c \in Slots : ~Effective(c)
    BY DEF FailedLeavesNothing
  <2>1. (\A c \in Slots : ~Effective(c)) /\ \A c \in creds : FALSE
    BY NothingBound DEF Inv
  <2> QED BY <2>1 DEF Inv, Made
<1> QED BY <1>1, InvAlways, PTL

(* Under the same generality: the request that makes a worktree is sent    *)
(* only while there is none and no other attempt's controller can make     *)
(* one; a reissue never meets the effect of the attempt before it.         *)
THEOREM CreateFindsNothingHolds == Spec => CreateFindsNothing
<1> DEFINE Finds ==
      \A c \in Slots : boot'[c] = "creating" /\ boot[c] # "creating" =>
        tree = "absent" /\ \A d \in Slots \ {c} : ~Effective(d)
<1>1. Inv /\ [Next]_vars => [Finds]_vars
  <2> SUFFICES ASSUME Inv, Next, NEW c \in Slots,
                      boot'[c] = "creating", boot[c] # "creating"
               PROVE  tree = "absent" /\ \A d \in Slots \ {c} : ~Effective(d)
    OBVIOUS
  <2>1. call[c].pc \in EarlyPcs /\ call[c].pc \in ActivePcs
    BY CreateEntry DEF Inv, Create, EarlyPcs, ActivePcs
  <2>2. tree = "absent" /\ Current(c)
    BY <2>1 DEF Inv, Made, Bound
  <2>3. \A d \in Slots : Effective(d) => d = c
    BY <2>2 DEF Inv, Bound, Current
  <2> QED BY <2>2, <2>3
<1> QED BY <1>1, InvAlways, PTL DEF Spec, CreateFindsNothing

=============================================================================
