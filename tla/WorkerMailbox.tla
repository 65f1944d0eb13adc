---------------------------- MODULE WorkerMailbox ----------------------------
(***************************************************************************)
(* The mailbox of one worker attempt at work: senders (any number of host  *)
(* processes calling sendWorkerMessage), the worker process (the           *)
(* controller that runs the primary provider turn and the report, and the  *)
(* pump that drains the mailbox through the provider), cancellation, and   *)
(* the recovery of a worker that died.                                     *)
(*                                                                         *)
(* Every transaction runs under the workspace lock (module StateLock), so  *)
(* one transaction is one step; what several processes interleave is       *)
(* transactions, and what the pump read before one and uses in it.  The    *)
(* controller and the pump share one JavaScript thread: they interleave    *)
(* only where the pump awaits the provider.  A fault interrupts a          *)
(* transaction after any of its file writes: a process that dies goes no   *)
(* further, a write (or lock acquisition) that fails throws.               *)
(***************************************************************************)
EXTENDS MailboxDisk

CONSTANTS
  MaxFaults,   \* bound: deaths, failed writes and lock timeouts of one run
  IOErrors     \* writes and lock acquisitions may fail

ASSUME FaultAssumption == MaxFaults \in Nat /\ IOErrors \in BOOLEAN

VARIABLES
  disk,      \* attempt.json, msg-*.json and the job's mailbox checkpoints
  job,       \* the job is "running" or "terminal"
  cancel,    \* the cancel file of the job is there
  main,      \* where the controller of the worker process is
  pump,      \* where drainWorkerMailbox is
  cur,       \* the message the pump holds
  snap,      \* attemptSnapshot.communicationChainDigest
  drained,   \* of the drain: the last delivered sequence, deliveryUnknown
  sent,      \* ghost: the messages whose prompt was handed to the provider
  acked,     \* ghost: the messages whose turn the provider reported ended
  faults     \* how many faults there were

vars == <<disk, job, cancel, main, pump, cur, snap, drained, sent, acked, faults>>

MainStates == {"session", "primary", "record", "draining", "drained", "failing",
               "report", "repair", "finish", "done", "dead", "settled"}
PumpStates == {"off", "claim", "reserve", "unsure", "dispatch", "await", "failed",
               "snapshot", "settle", "reread", "close"}

NewDisk == [att |-> NoAttempt, msgs |-> <<>>, noted |-> {}]

Init ==
  /\ disk = NewDisk
  /\ job = "running"
  /\ cancel = FALSE
  /\ main = "session"
  /\ pump = "off"
  /\ cur = 0
  /\ snap = <<>>
  /\ drained = [turn |-> 0, unknown |-> FALSE]
  /\ sent = <<>>
  /\ acked = {}
  /\ faults = 0

-----------------------------------------------------------------------------
(* Transactions and faults.                                                *)

(* mailboxAuthority: a terminal job refuses every worker transaction.      *)
Authorised(r) == IF job = "terminal" THEN Throws(<<disk>>) ELSE r

As(r, ret) == IF r.ret = "error" THEN r ELSE Returns(r.trace, ret)

Fault == faults < MaxFaults /\ faults' = faults + 1

Completes(r) == r.ret # "error" /\ disk' = Last(r.trace) /\ UNCHANGED faults

(* The call throws: of itself, or because a write of it failed.            *)
Fails(r) ==
  \/ r.ret = "error" /\ disk' = Last(r.trace) /\ UNCHANGED faults
  \/ IOErrors /\ Fault /\ disk' \in Range(r.trace)

(* The process dies in the call.                                           *)
Dies(r) == Fault /\ disk' \in Range(r.trace)

WorkerGone ==
  /\ main' = "dead" /\ pump' = "off"
  /\ UNCHANGED <<job, cancel, cur, snap, drained, sent, acked>>

-----------------------------------------------------------------------------
(* Senders.                                                                *)

(* settleCancellation, and the same in sendWorkerMessage: settle what is   *)
(* left of the attempt and note the outcome of every message.              *)
SettleCancelled(d) == NotingAll(SettleInterrupted(d))

(* Mutant: no lookup of the message the key was used for.                  *)
SendingBlindly(k, size) ==
  IF cancel
    THEN IF IsOpen(disk) THEN SettleCancelled(disk) ELSE Returns(<<disk>>, "ok")
  ELSE IF IsOpen(disk) /\ job = "running"
    THEN Noting(AcceptMessage(disk, k, size), Len(disk.msgs) + 1)
  ELSE Throws(<<disk>>)

(* sendWorkerMessage.  A key used before is answered from the message it   *)
(* was used for, unless the request differs.                               *)
Sending(k, size) ==
  LET prior == {i \in DOMAIN disk.msgs : disk.msgs[i].key = k}
      p     == CHOOSE i \in prior : TRUE
  IN IF prior # {} /\ disk.msgs[p].size # size THEN Throws(<<disk>>)
     ELSE IF cancel
       THEN IF IsOpen(disk) THEN SettleCancelled(disk) ELSE Returns(<<disk>>, "ok")
     ELSE IF prior # {}
       THEN IF job = "terminal" THEN Returns(<<disk>>, "ok")
            ELSE Noting(Returns(<<disk>>, "ok"), p)
     ELSE IF IsOpen(disk) /\ job = "running"
       THEN Noting(AcceptMessage(disk, k, size), Len(disk.msgs) + 1)
     ELSE Throws(<<disk>>)

Send(k, size) ==
  LET r == Sending(k, size) IN
  /\ Completes(r) \/ Fails(r) \/ Dies(r)
  /\ UNCHANGED <<job, cancel, main, pump, cur, snap, drained, sent, acked>>

(* requestCancel.                                                          *)
Cancel ==
  /\ job = "running" /\ ~cancel
  /\ cancel' = TRUE
  /\ UNCHANGED <<disk, job, main, pump, cur, snap, drained, sent, acked, faults>>

-----------------------------------------------------------------------------
(* The controller.  Main(from, r, Next(_), failed): the controller makes   *)
(* the call r, and goes on with Next(ret), or with failed when it throws.  *)
Main(from, r, NextState(_), failed) ==
  /\ main = from
  /\ \/ /\ \/ Completes(r) /\ main' = NextState(r.ret)
           \/ Fails(r) /\ main' = failed
        /\ pump' = IF main' = "draining" THEN "claim" ELSE pump
        /\ UNCHANGED <<job, cancel, cur, snap, drained, sent, acked>>
     \/ Dies(r) /\ WorkerGone

(* mailboxController.open, once the provider session is there.  When it    *)
(* throws there is no mailboxAttempt yet and nothing is interrupted.       *)
OpenMailbox ==
  Main("session", Authorised(OpenAttempt(disk)), LAMBDA ret : "primary", "finish")

(* promptPrimaryProviderTurn: the primary turn ends, or it fails or is     *)
(* cancelled (the provider poll sees the cancel file).                     *)
PrimaryEnds ==
  /\ main = "primary" /\ ~cancel
  /\ main' = "record"
  /\ UNCHANGED <<disk, job, cancel, pump, cur, snap, drained, sent, acked, faults>>

(* recordPrimary; then the drain begins.                                   *)
RecordPrimaryTurn ==
  Main("record", Authorised(RecordPrimary(disk)), LAMBDA ret : "draining", "failing")

(* The provider fails: the operation the controller awaits loses the race  *)
(* against the provider's event failure, the pump is not told.             *)
ProviderFails ==
  /\ \/ main \in {"primary", "drained"}
     \/ main = "draining" /\ pump = "await"
  /\ main' = "failing"
  /\ UNCHANGED <<disk, job, cancel, pump, cur, snap, drained, sent, acked, faults>>

(* The drain returned: a cancelled job fails, another goes to its report.  *)
DrainReturned ==
  /\ main = "drained"
  /\ main' = IF cancel THEN "failing" ELSE "report"
  /\ UNCHANGED <<disk, job, cancel, pump, cur, snap, drained, sent, acked, faults>>

(* Mutant: a failed provider leaves the mailbox as it is.                  *)
SkipInterrupt ==
  /\ main = "failing"
  /\ main' = "finish"
  /\ UNCHANGED <<disk, job, cancel, pump, cur, snap, drained, sent, acked, faults>>

(* handleAcpProviderFailure: an error of interrupt becomes a warning.      *)
InterruptMailbox ==
  Main("failing", Authorised(SettleInterrupted(disk)), LAMBDA ret : "finish", "finish")

(* selectReport: the report of a drain that met an unknown delivery is     *)
(* empty, hence invalid; every other report may be either.                 *)
SelectedSequence == IF drained.unknown THEN disk.att.last ELSE drained.turn

SelectReport ==
  \E valid \in BOOLEAN :
    /\ drained.unknown => ~valid
    /\ Main("report", Authorised(SelectFinal(disk, SelectedSequence, valid)),
            LAMBDA ret : IF valid THEN "finish" ELSE "repair", "finish")

(* The report repair: selectRepairedReport when the repaired report is     *)
(* valid, for the sequence that was selected before.                       *)
SelectRepairedReport ==
  Main("repair", Authorised(SelectFinal(disk, SelectedSequence, TRUE)),
       LAMBDA ret : "finish", "finish")

RepairFails ==
  /\ main = "repair"
  /\ main' = "finish"
  /\ UNCHANGED <<disk, job, cancel, pump, cur, snap, drained, sent, acked, faults>>

FinishJob ==
  /\ main = "finish"
  /\ main' = "done" /\ job' = "terminal"
  /\ UNCHANGED <<disk, cancel, pump, cur, snap, drained, sent, acked, faults>>

-----------------------------------------------------------------------------
(* The pump.  PumpTx(from, r, Ok, Fail): the pump makes the call r.        *)

PumpAt(p) == pump' = p /\ UNCHANGED <<main, cur, snap, drained, sent, acked>>

(* drainWorkerMailbox returns or throws, to a controller that waits for it *)
(* or that has left.                                                       *)
PumpLeaves(m) ==
  /\ pump' = "off"
  /\ main' = IF main = "draining" THEN m ELSE main
  /\ UNCHANGED <<cur, snap, sent, acked>>
PumpReturns == PumpLeaves("drained") /\ UNCHANGED drained
PumpThrows  == PumpLeaves("failing") /\ UNCHANGED drained

PumpTx(from, r, Ok, Fail) ==
  /\ pump = from
  /\ \/ /\ \/ Completes(r) /\ Ok
           \/ Fails(r) /\ Fail
        /\ UNCHANGED <<job, cancel>>
     \/ Dies(r) /\ WorkerGone

(* The transaction at the head of the loop: claim the next message, or     *)
(* close the mailbox when none is waiting.                                 *)
Claiming ==
  IF ~IsOpen(disk) THEN Returns(<<disk>>, "return")
  ELSE IF cancel THEN As(SettleCancelled(disk), "cancelled")
  ELSE IF disk.att.unknown # NoMessage THEN Returns(<<disk>>, "unknown")
  ELSE LET c == ClaimNext(disk)
       IN IF c.ret = "none"
            THEN As(AndThen(c.trace, LAMBDA d : TryClose(d, FALSE)), "return")
            ELSE As(c, "claimed")

PumpClaims ==
  LET r == Authorised(Claiming) IN
  PumpTx("claim", r,
    \/ /\ r.ret = "claimed"
       /\ pump' = "reserve"
       /\ cur' = CHOOSE i \in InState(disk', {"claimed"}) : TRUE
       /\ UNCHANGED <<main, snap, drained, sent, acked>>
    \/ r.ret = "return" /\ PumpReturns
    \/ /\ r.ret = "unknown"
       /\ PumpLeaves("drained")
       /\ drained' = [drained EXCEPT !.unknown = TRUE]
    \/ r.ret = "cancelled" /\ PumpThrows,
    PumpThrows)

(* The transaction that marks the message inflight.                        *)
PumpReserves ==
  LET r == Authorised(IF cancel THEN As(SettleCancelled(disk), "cancelled")
                                ELSE MarkInflight(disk, cur)) IN
  PumpTx("reserve", r,
    \/ r.ret = "ok" /\ PumpAt("dispatch")
    \/ r.ret = "cancelled" /\ PumpThrows,
    PumpAt("unsure"))

(* client.reserveRequestId throws: the transport closed before the drain   *)
(* began.  (Later it is found closed at the end of the turn before.)       *)
PumpCannotReserve ==
  /\ pump = "reserve" /\ sent = <<>>
  /\ PumpAt("unsure")
  /\ UNCHANGED <<disk, job, cancel, faults>>

(* It threw: what is on disk decides between unknown and rejected.         *)
PumpSettlesUnsure ==
  LET inflight == disk.msgs[cur].state = "inflight" IN
  PumpTx("unsure",
    Authorised(Noting(IF inflight THEN SettleUnknown(disk, cur)
                                  ELSE SettleRejected(disk, cur), cur)),
    IF inflight
      THEN /\ pump' = "close"
           /\ drained' = [drained EXCEPT !.unknown = TRUE]
           /\ UNCHANGED <<main, cur, snap, sent, acked>>
      ELSE PumpAt("claim"),
    PumpThrows)

(* client.dispatchReserved: the prompt leaves, and an answer, a timeout or *)
(* a transport error comes back.                                           *)
PumpDispatches ==
  /\ pump = "dispatch"
  /\ pump' = "await"
  /\ sent' = Append(sent, cur)
  /\ UNCHANGED <<disk, job, cancel, main, cur, snap, drained, acked, faults>>

TurnEnds ==
  /\ pump = "await"
  /\ pump' = "snapshot"
  /\ acked' = acked \cup {cur}
  /\ UNCHANGED <<disk, job, cancel, main, cur, snap, drained, sent, faults>>

(* Mutant: a prompt that failed is sent again.                             *)
TurnIsRetried ==
  /\ pump = "await"
  /\ pump' = "dispatch"
  /\ Len(sent) < 2
  /\ UNCHANGED <<disk, job, cancel, main, cur, snap, drained, sent, acked, faults>>

TurnFails ==
  /\ pump = "await"
  /\ pump' = "failed"
  /\ UNCHANGED <<disk, job, cancel, main, cur, snap, drained, sent, acked, faults>>

(* settleMessageUnknown after a turn that did not end well, or whose       *)
(* settlement could not be written; then the mailbox is closed.            *)
SettlesUnknown(from) ==
  PumpTx(from, Authorised(Noting(SettleUnknown(disk, cur), cur)),
    /\ pump' = "close"
    /\ drained' = [drained EXCEPT !.unknown = TRUE]
    /\ UNCHANGED <<main, cur, snap, sent, acked>>,
    PumpThrows)

PumpSettlesUnknown == SettlesUnknown("failed")

PumpClosesUnknown ==
  PumpTx("close", Authorised(TryClose(disk, FALSE)), PumpReturns, PumpThrows)

(* attemptSnapshot is read with no lock held.                              *)
PumpReadsAttempt ==
  /\ pump = "snapshot"
  /\ pump' = "settle"
  /\ snap' = disk.att.chain
  /\ UNCHANGED <<disk, job, cancel, main, cur, drained, sent, acked, faults>>

GoesOn ==
  /\ pump' = "claim"
  /\ drained' = [drained EXCEPT !.turn = disk.msgs[cur].seq]
  /\ UNCHANGED <<main, cur, snap, sent, acked>>

PumpSettlesDelivered ==
  PumpTx("settle", Authorised(Noting(SettleDelivered(disk, cur, snap), cur)),
    GoesOn, PumpAt("reread"))

(* It threw: a settlement that is on disk all the same is taken, a message *)
(* still inflight becomes unknown, anything else is thrown on.             *)
Settled == LET turn == Append(snap, TurnOf(disk, cur, "delivered")) IN
  /\ disk.msgs[cur].state = "delivered"
  /\ disk.msgs[cur].turn = turn
  /\ disk.att.chain = turn
  /\ disk.att.last = disk.msgs[cur].seq

PumpTakesSettled ==
  /\ pump = "reread" /\ Settled
  /\ GoesOn
  /\ UNCHANGED <<disk, job, cancel, faults>>

PumpThrowsOn ==
  /\ pump = "reread" /\ ~Settled /\ disk.msgs[cur].state # "inflight"
  /\ PumpThrows
  /\ UNCHANGED <<disk, job, cancel, faults>>

PumpGivesUp ==
  /\ pump = "reread" /\ disk.msgs[cur].state = "inflight"
  /\ SettlesUnknown("reread")

-----------------------------------------------------------------------------
(* Death and recovery.                                                     *)
WorkerDies ==
  /\ main \notin {"done", "dead", "settled"}
  /\ Fault
  /\ WorkerGone
  /\ UNCHANGED disk

(* Mutant: the job of a dead worker ends with its mailbox as it is.        *)
RecoverJobOnly ==
  /\ main = "dead"
  /\ main' = "settled"
  /\ UNCHANGED <<disk, job, cancel, pump, cur, snap, drained, sent, acked, faults>>

(* settleMailboxAfterProviderLoss, by a coordinator that knows the worker  *)
(* and its provider gone.  The job becomes terminal only after it returns; *)
(* a coordinator that throws or dies leaves it to the next.                *)
Recover ==
  /\ main = "dead"
  /\ LET r == Authorised(SettleInterrupted(disk)) IN
       \/ Completes(r) /\ main' = "settled"
       \/ (Fails(r) \/ Dies(r)) /\ UNCHANGED main
  /\ UNCHANGED <<job, cancel, pump, cur, snap, drained, sent, acked>>

RecoveryFinishesJob ==
  /\ main = "settled"
  /\ main' = "done" /\ job' = "terminal"
  /\ UNCHANGED <<disk, cancel, pump, cur, snap, drained, sent, acked, faults>>

-----------------------------------------------------------------------------
Controller ==
  \/ OpenMailbox \/ PrimaryEnds \/ RecordPrimaryTurn \/ DrainReturned
  \/ InterruptMailbox \/ SelectReport \/ SelectRepairedReport \/ RepairFails
  \/ FinishJob

Pump ==
  \/ PumpClaims \/ PumpReserves \/ PumpCannotReserve \/ PumpSettlesUnsure \/ PumpDispatches
  \/ PumpSettlesUnknown \/ PumpClosesUnknown \/ PumpReadsAttempt
  \/ PumpSettlesDelivered \/ PumpTakesSettled \/ PumpThrowsOn \/ PumpGivesUp

Provider == TurnEnds \/ TurnFails

Recovery == Recover \/ RecoveryFinishesJob

Next ==
  \/ \E k \in Keys, size \in Sizes : Send(k, size)
  \/ Cancel
  \/ Controller \/ Pump \/ Provider \/ ProviderFails
  \/ WorkerDies \/ Recovery

Spec == Init /\ [][Next]_vars

(* The worker runs and its prompts time out at the latest, so a pump that  *)
(* is not off moves on; a controller that does not wait for the pump moves *)
(* on, or, when its process is dead, a coordinator that keeps reconciling  *)
(* does (the next faultless transaction is a move in every such state).    *)
(* Senders, cancellation and faults owe nothing.                           *)
PumpMoves == pump # "off" /\ pump' \in PumpStates \ {pump}
MainMoves == main \notin {"draining", "done"} /\ main' \in MainStates \ {main}

Fairness == WF_pump(PumpMoves) /\ WF_main(MainMoves)

FairSpec == Spec /\ Fairness

-----------------------------------------------------------------------------
(* Properties.                                                             *)

(* Whatever a fault leaves behind, recoverAttemptConsistency accepts it:   *)
(* it never refuses with E_STATE an attempt the code itself wrote, which   *)
(* would leave the job blocked in recovery for good.                       *)
RecoveryNeverRefuses == Consistent(disk)

(* The prompts leave in the order their messages were accepted in, none    *)
(* twice, across every fault, retry and cancellation.                      *)
SentOnceInOrder ==
  \A i, j \in DOMAIN sent : i < j => disk.msgs[sent[i]].seq < disk.msgs[sent[j]].seq

(* The recorded outcome is true of the provider: a rejected message never  *)
(* left, a delivered one did and its turn ended, and one that left is      *)
(* inflight, delivered or unknown.  A checkpoint that reports an outcome   *)
(* reports the one the message ended with, though it is written later.     *)
OutcomesAreTrue ==
  /\ \A i \in Range(sent) : disk.msgs[i].state \in {"inflight"} \cup TurnStates
  /\ \A i \in InState(disk, {"delivered"}) : i \in acked
  /\ \A n \in disk.noted : n[2] \in TurnStates \cup {"rejected"} => disk.msgs[n[1]].state = n[2]

(* After a turn whose outcome is unknown nothing else is handed to the     *)
(* provider.                                                               *)
NothingSentAfterUnknown ==
  \A n, m \in DOMAIN sent : n < m => disk.msgs[sent[n]].state = "delivered"

(* An idempotency key names one message, however often a sender that       *)
(* crashed or got no answer retries it.                                    *)
OneMessagePerKey ==
  \A i, j \in DOMAIN disk.msgs : disk.msgs[i].key = disk.msgs[j].key => i = j

(* When the job is terminal, every message has an outcome and no body is   *)
(* kept (WORKER_BROKER_PLAN.md: terminalisation accounts for every message *)
(* as delivered, rejected or delivery_unknown and removes every body).     *)
EveryMessageAccounted == job = "terminal" => InState(disk, ActiveStates) = {}

(* A closed mailbox holds no message that waits, and never changes one.    *)
ClosedMailboxIsSettled ==
  [][disk.att # NoAttempt /\ disk.att.state = "closed" =>
       InState(disk, ActiveStates) = {} /\ disk'.msgs = disk.msgs]_vars

(* An outcome is final: no step rewrites a message that has one.           *)
OutcomesAreFinal ==
  [][\A i \in InState(disk, TurnStates \cup {"rejected"}) : disk'.msgs[i] = disk.msgs[i]]_vars

(* A message that was accepted gets its outcome in the end, whatever       *)
(* process dies.                                                           *)
EveryMessageSettles ==
  \A k \in Keys :
    (\E i \in InState(disk, ActiveStates) : disk.msgs[i].key = k)
      ~> (\A i \in InState(disk, ActiveStates) : disk.msgs[i].key # k)

=============================================================================
