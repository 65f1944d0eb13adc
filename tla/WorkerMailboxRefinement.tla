----------------------- MODULE WorkerMailboxRefinement -----------------------
(* WorkerMailbox implements AbstractMailbox.                               *)
EXTENDS WorkerMailbox

(* As publicMailboxState has it, claimed and inflight are the mailbox's    *)
(* own means: to the sender the message is pending.  An accepted message   *)
(* is pending here too, it only waits longer.                              *)
With(d, k) == {i \in DOMAIN d.msgs : d.msgs[i].key = k}

FateOf(d, k) ==
  IF With(d, k) = {} THEN "none"
  ELSE LET m == d.msgs[CHOOSE i \in With(d, k) : TRUE]
       IN IF m.state \in ActiveStates THEN "pending" ELSE m.state

PlaceOf(d, k) ==
  IF FateOf(d, k) \in {"none", "rejected"} THEN 0
  ELSE d.msgs[CHOOSE i \in With(d, k) : TRUE].seq

Mailbox == INSTANCE AbstractMailbox WITH
  fate    <- [k \in Keys |-> FateOf(disk, k)],
  place   <- [k \in Keys |-> PlaceOf(disk, k)],
  prompts <- [n \in DOMAIN sent |-> disk.msgs[sent[n]].key],
  ended   <- {disk.msgs[i].key : i \in acked},
  closed  <- disk.att.state = "closed"

(* The mailbox keeps the promise of AbstractMailbox through every death,   *)
(* failed write, retry and cancellation: sendWorkerMessage, the pump,      *)
(* settleInterruptedAttempt and recoverAttemptConsistency together.        *)
ImplementsMailbox == Mailbox!Spec

=============================================================================
