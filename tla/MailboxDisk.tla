----------------------------- MODULE MailboxDisk -----------------------------
(***************************************************************************)
(* The durable half of the worker mailbox, as pure operators: what         *)
(* plugins/grok/scripts/lib/worker-mailbox-state.mjs does to the files of  *)
(* one provider attempt.  attempt.json is d.att, the msg-*.json files are  *)
(* d.msgs (the file name is the place in the sequence), and d.noted holds  *)
(* the checkpoints appended to the job's lifecycle events.                 *)
(*                                                                         *)
(* Every transaction runs under the workspace lock, but its files are      *)
(* written one after the other, each atomically.  So an operation is       *)
(* described by the trace of the disks it goes through, the present one    *)
(* first: a process that dies, or whose write fails, leaves any one of     *)
(* them behind.  [trace, ret] is what a call does and how it returns.      *)
(*                                                                         *)
(* Abstractions: a digest is what it is the digest of (turn digests are    *)
(* chains of turns); a body is its length in bytes; a message in the       *)
(* states accepted and claimed has its body and no other has, which        *)
(* writeMessage asserts of every record; nextSequence, which always goes   *)
(* with acceptedCount, reasons and timestamps are left out.  The open      *)
(* index is a cache of which attempt of a worker is open; with one attempt *)
(* per worker the lookup through it and the one without it agree, and its  *)
(* write is a place in a trace where nothing else changes.                 *)
(***************************************************************************)
EXTENDS Integers, Sequences, FiniteSets, SequencesExt, FiniteSetsExt

CONSTANTS
  Keys,          \* idempotency keys of senders
  Sizes,         \* lengths of message bodies
  MaxMessages,   \* MAX_MAILBOX_ACCEPTED_MESSAGES
  MaxBytes       \* MAX_MAILBOX_ACCEPTED_BYTES

ASSUME MailboxAssumption ==
  /\ Sizes \subseteq Nat \ {0}
  /\ MaxMessages \in Nat
  /\ MaxBytes \in Nat

NoTurn    == -1                      \* no completed turn, no final report
NoMessage == 0                       \* no sequence
NoAttempt == [state |-> "none"]

Turn == [seq : Nat, msg : Nat, outcome : {"delivered", "delivery_unknown"}]

Attempt ==
  [state : {"preparing", "open", "closing", "closed"},
   count : Nat, bytes : Nat,         \* acceptedCount, acceptedBytes
   active : Nat,                     \* activeSequence
   primary : BOOLEAN,                \* primaryTurnEvidence is there
   chain : Seq(Turn),                \* communicationChainDigest
   last : Nat \cup {NoTurn},         \* lastCompletedSequence (and its digest)
   unknown : Nat,                    \* deliveryUnknownSequence
   final : Nat \cup {NoTurn}]        \* finalReportSequence

Message ==
  [key : Keys, size : Sizes, seq : Nat,
   state : {"accepted", "claimed", "inflight", "delivered",
            "delivery_unknown", "rejected"},
   turn : Seq(Turn)]                 \* turnEvidence, <<>> when there is none

ActiveStates    == {"accepted", "claimed", "inflight"}
RetainingStates == {"accepted", "claimed"}
TurnStates      == {"delivered", "delivery_unknown"}

-----------------------------------------------------------------------------
(* Traces and results.                                                     *)

Returns(t, r) == [trace |-> t, ret |-> r]
Throws(t)     == Returns(t, "error")

(* First t, then what F does to the disk t ends with.                      *)
Then(t, F(_)) == t \o Tail(F(Last(t)))
AndThen(t, F(_)) == LET r == F(Last(t)) IN Returns(t \o Tail(r.trace), r.ret)

WriteAttempt(d, a)    == <<d, [d EXCEPT !.att = a]>>
WriteMessage(d, i, m) == <<d, [d EXCEPT !.msgs[i] = m]>>
SetState(d, i, s)     == WriteMessage(d, i, [d.msgs[i] EXCEPT !.state = s])

PrimaryTurn == [seq |-> 0, msg |-> NoMessage, outcome |-> "delivered"]
TurnOf(d, i, o) == [seq |-> d.msgs[i].seq, msg |-> i, outcome |-> o]

-----------------------------------------------------------------------------
(* Sets of messages.                                                       *)

InState(d, S) == {i \in DOMAIN d.msgs : d.msgs[i].state \in S}
Accepted(d)   == {i \in DOMAIN d.msgs : d.msgs[i].seq > 0}
TurnsOf(d)    == Accepted(d) \cap InState(d, TurnStates)
UnknownOf(d)  == InState(d, {"delivery_unknown"})
Pumped(d)     == InState(d, {"claimed", "inflight"})
Seqs(d, S)    == {d.msgs[i].seq : i \in S}
Bytes(d, n)   == MapThenSumSet(LAMBDA i : d.msgs[i].size,
                               {i \in Accepted(d) : d.msgs[i].seq <= n})

(* The turn that completed last according to the messages' own evidence.   *)
LastTurn(d) == IF TurnsOf(d) # {} THEN Max(Seqs(d, TurnsOf(d)))
               ELSE IF d.att.primary THEN 0 ELSE NoTurn

(* The chain of all the turns up to sequence s, as that evidence has it.   *)
ChainUpTo(d, s) ==
  IF s = NoTurn THEN <<>>
  ELSE IF s = 0 THEN <<PrimaryTurn>>
  ELSE d.msgs[CHOOSE i \in TurnsOf(d) : d.msgs[i].seq = s].turn

-----------------------------------------------------------------------------
(* Everything recoverAttemptConsistency (and the shape assertions of the   *)
(* reads and writes) refuse with E_STATE when it does not hold.            *)
ConsistentMessages(d) ==
  LET n == Cardinality(Accepted(d)) IN
  /\ Seqs(d, Accepted(d)) = 1..n
  /\ n <= MaxMessages
  /\ Bytes(d, n) <= MaxBytes
  /\ d.att.count <= n
  /\ d.att.bytes = Bytes(d, d.att.count)
  /\ Cardinality(Pumped(d)) <= 1
  /\ d.att.active # NoMessage => d.att.active \in 1..n
  /\ d.att.active <= d.att.count

ConsistentTurns(d) ==
  LET Before(i) == {d.msgs[j].seq : j \in {k \in TurnsOf(d) : d.msgs[k].seq < d.msgs[i].seq}}
                     \cup {0}
  IN
  /\ Cardinality(UnknownOf(d)) <= 1
  /\ \A i \in UnknownOf(d), j \in TurnsOf(d) : d.msgs[j].seq <= d.msgs[i].seq
  /\ TurnsOf(d) # {} => d.att.primary
  /\ \A i \in TurnsOf(d) :
       d.msgs[i].turn = Append(ChainUpTo(d, Max(Before(i))),
                               TurnOf(d, i, d.msgs[i].state))
  /\ \A i \in DOMAIN d.msgs \ TurnsOf(d) : d.msgs[i].turn = <<>>

ConsistentAttempt(d) ==
  /\ d.att.last = NoTurn <=> ~d.att.primary
  /\ d.att.last \in Seqs(d, TurnsOf(d)) \cup {0, NoTurn}
  /\ d.att.chain = ChainUpTo(d, d.att.last)
  /\ d.att.final # NoTurn => d.att.state = "closed" /\ d.att.final = d.att.last

Consistent(d) ==
  d.att # NoAttempt =>
    ConsistentMessages(d) /\ ConsistentTurns(d) /\ ConsistentAttempt(d)

-----------------------------------------------------------------------------
(* Rejecting messages one file at a time, in the order of their sequence:  *)
(* each disk has one more of them rejected.                                *)
FirstOf(d, S, n) == {i \in S : Cardinality({j \in S : d.msgs[j].seq < d.msgs[i].seq}) < n}

Rejected(d, S) ==
  [d EXCEPT !.msgs = [i \in DOMAIN @ |-> IF i \in S THEN [@[i] EXCEPT !.state = "rejected"]
                                                    ELSE @[i]]]

RejectAll(d, S) == [n \in 1..(Cardinality(S) + 1) |-> Rejected(d, FirstOf(d, S, n - 1))]

(* recoverAttemptConsistency, on a disk that is Consistent: bring the      *)
(* attempt up to what the messages say, finish an interrupted settlement   *)
(* of an unknown turn, scrub a closed attempt.  The repaired attempt is    *)
(* written last, and only if it differs.                                   *)
RecoveredAttempt(d, repairUnknown) ==
  LET s == LastTurn(d)
      u == UnknownOf(d)
      a == [d.att EXCEPT
              !.chain = ChainUpTo(d, s), !.last = s,
              !.count = Cardinality(Accepted(d)),
              !.bytes = Bytes(d, Cardinality(Accepted(d))),
              !.active = IF u # {} \/ Pumped(d) = {} THEN NoMessage
                         ELSE Max(Seqs(d, Pumped(d)))]
  IN IF u = {} \/ ~repairUnknown THEN a
     ELSE [a EXCEPT !.state = IF @ = "closed" THEN @ ELSE "closing",
                    !.unknown = Max(Seqs(d, u))]

Recovered(d, repairUnknown) ==
  LET a == RecoveredAttempt(d, repairUnknown)
      late == {i \in InState(d, RetainingStates) :
                 repairUnknown /\ \E j \in UnknownOf(d) : d.msgs[j].seq < d.msgs[i].seq}
      scrubbed == IF d.att.state = "closed" THEN InState(d, RetainingStates) ELSE late
      t == RejectAll(d, scrubbed)
  IN IF a = d.att THEN t ELSE Then(t, LAMBDA e : WriteAttempt(e, a))

(* An operation that begins with the recovery of the attempt.              *)
Recovering(d, repairUnknown, F(_)) ==
  IF ~Consistent(d) THEN Throws(<<d>>) ELSE AndThen(Recovered(d, repairUnknown), F)

-----------------------------------------------------------------------------
(* openAttemptMailbox.  A worker opens the mailbox of its attempt once, so *)
(* the branches that resume an attempt.json already there are left out.    *)
NewAttempt ==
  [state |-> "preparing", count |-> 0, bytes |-> 0, active |-> NoMessage,
   primary |-> FALSE, chain |-> <<>>, last |-> NoTurn, unknown |-> NoMessage,
   final |-> NoTurn]

OpenAttempt(d) ==
  LET preparing == [d EXCEPT !.att = NewAttempt]
      opened    == [preparing EXCEPT !.att.state = "open"]
  IN Returns(<<d, preparing, opened, opened>>, "ok")

(* resolveOpenMailbox found the attempt.                                   *)
IsOpen(d) == d.att # NoAttempt /\ d.att.state = "open"

(* Mutant: the counters are written before the message they count.         *)
AcceptCountersFirst(d, k, size) ==
  Recovering(d, TRUE, LAMBDA e :
    LET new == [key |-> k, size |-> size, seq |-> e.att.count + 1, state |-> "accepted",
                turn |-> <<>>]
        counted == [e EXCEPT !.att.count = @ + 1, !.att.bytes = @ + size]
    IN IF \/ e.att.state # "open" \/ e.att.unknown # NoMessage
          \/ e.att.count + 1 > MaxMessages \/ e.att.bytes + size > MaxBytes
         THEN Throws(<<e>>)
         ELSE Returns(<<e, counted, [counted EXCEPT !.msgs = Append(@, new)]>>, "ok"))

(* acceptAttemptMessage after the lookup of earlier messages: the message  *)
(* is written first, the counters of the attempt second.  A request beyond *)
(* a limit, or after an unknown turn, is recorded as rejected.             *)
AcceptMessage(d, k, size) ==
  Recovering(d, TRUE, LAMBDA e :
    LET new(s, st) == [key |-> k, size |-> size, seq |-> s, state |-> st, turn |-> <<>>]
        rejected == [e EXCEPT !.msgs = Append(@, new(0, "rejected"))]
        accepted == [e EXCEPT !.msgs = Append(@, new(e.att.count + 1, "accepted"))]
        counted  == [accepted EXCEPT !.att.count = @ + 1, !.att.bytes = @ + size]
    IN IF e.att.state # "open" THEN Throws(<<e>>)
       ELSE IF \/ e.att.unknown # NoMessage
               \/ e.att.count + 1 > MaxMessages
               \/ e.att.bytes + size > MaxBytes
         THEN Returns(<<e, rejected>>, "ok")
         ELSE Returns(<<e, accepted, counted>>, "ok"))

(* Mutant: the message that waits since last is claimed first.             *)
ClaimLast(d) ==
  Recovering(d, TRUE, LAMBDA e :
    LET waiting == InState(e, {"accepted"})
        next    == CHOOSE i \in waiting :
                     \A j \in waiting : e.msgs[i].seq >= e.msgs[j].seq
    IN IF e.att.state # "open" \/ e.att.unknown # NoMessage \/ waiting = {}
         THEN Returns(<<e>>, "none")
         ELSE Returns(Then(SetState(e, next, "claimed"),
                           LAMBDA f : WriteAttempt(f, [f.att EXCEPT !.active = f.msgs[next].seq])),
                      "ok"))

(* claimNextAcceptedMessage; "none" when nothing is waiting.               *)
ClaimNext(d) ==
  Recovering(d, TRUE, LAMBDA e :
    LET waiting == InState(e, {"accepted"})
        next    == CHOOSE i \in waiting :
                     \A j \in waiting : e.msgs[i].seq <= e.msgs[j].seq
    IN IF e.att.state # "open" \/ e.att.unknown # NoMessage THEN Returns(<<e>>, "none")
       ELSE IF e.att.active # NoMessage THEN Throws(<<e>>)
       ELSE IF waiting = {} THEN Returns(<<e>>, "none")
       ELSE Returns(Then(SetState(e, next, "claimed"),
                         LAMBDA f : WriteAttempt(f, [f.att EXCEPT !.active = f.msgs[next].seq])),
                    "ok"))

(* Mutant: the transition to inflight is not written.                      *)
MarkNothing(d, i) ==
  Recovering(d, TRUE, LAMBDA e :
    IF e.msgs[i].state # "claimed" THEN Throws(<<e>>) ELSE Returns(<<e>>, "ok"))

(* markMessageInflight: the body is erased before any byte is sent.        *)
MarkInflight(d, i) ==
  Recovering(d, TRUE, LAMBDA e :
    IF \/ e.att.state # "open"
       \/ e.msgs[i].state # "claimed"
       \/ e.att.active # e.msgs[i].seq
      THEN Throws(<<e>>)
      ELSE Returns(SetState(e, i, "inflight"), "ok"))

(* Mutant: a late answer settles a message whatever became of it.          *)
SettleLate(d, i, chain) ==
  Recovering(d, TRUE, LAMBDA e :
    Returns(WriteMessage(e, i, [e.msgs[i] EXCEPT
              !.state = "delivered", !.turn = Append(chain, TurnOf(e, i, "delivered"))]),
            "ok"))

(* settleMessageDelivered.  The turn was computed from the chain the pump  *)
(* read before it took the lock, and must extend the chain there is now.   *)
SettleDelivered(d, i, chain) ==
  Recovering(d, TRUE, LAMBDA e :
    LET turn == Append(chain, TurnOf(e, i, "delivered"))
        settled == [e.msgs[i] EXCEPT !.state = "delivered", !.turn = turn]
    IN IF \/ e.msgs[i].state # "inflight"
          \/ e.att.active # e.msgs[i].seq
          \/ e.att.chain # chain
         THEN Throws(<<e>>)
         ELSE Returns(Then(WriteMessage(e, i, settled), LAMBDA f :
                        WriteAttempt(f, [f.att EXCEPT !.chain = turn, !.active = NoMessage,
                                                      !.last = f.msgs[i].seq])),
                      "ok"))

(* Mutant: a message that is not inflight any more is settled again.       *)
SettleUnknownAgain(d, i) ==
  Recovering(d, FALSE, LAMBDA e :
    Returns(WriteMessage(e, i, [e.msgs[i] EXCEPT
              !.state = "delivery_unknown",
              !.turn = Append(e.att.chain, TurnOf(e, i, "delivery_unknown"))]),
            "ok"))

(* settleMessageUnknown with eraseActiveBodies and                         *)
(* rejectUnattemptedAccepted, which finds nothing the former left.         *)
SettleUnknown(d, i) ==
  Recovering(d, FALSE, LAMBDA e :
    LET turn == Append(e.att.chain, TurnOf(e, i, "delivery_unknown"))
        settled == [e.msgs[i] EXCEPT !.state = "delivery_unknown", !.turn = turn]
    IN IF e.msgs[i].state # "inflight" \/ e.att.active # e.msgs[i].seq
         THEN Throws(<<e>>)
         ELSE Returns(
           Then(Then(WriteMessage(e, i, settled),
                     LAMBDA f : RejectAll(f, InState(f, RetainingStates))),
                LAMBDA f : WriteAttempt(f, [f.att EXCEPT
                  !.state = IF @ = "closed" THEN @ ELSE "closing",
                  !.chain = turn, !.last = f.msgs[i].seq,
                  !.unknown = f.msgs[i].seq, !.active = NoMessage])),
           "ok"))

(* settleMessageRejected: no recovery first, and no need for an open       *)
(* attempt.                                                                *)
SettleRejected(d, i) ==
  IF d.msgs[i].state \notin RetainingStates THEN Throws(<<d>>)
  ELSE Returns(
    IF d.att.active = d.msgs[i].seq
      THEN Then(SetState(d, i, "rejected"),
                LAMBDA e : WriteAttempt(e, [e.att EXCEPT !.active = NoMessage]))
      ELSE SetState(d, i, "rejected"),
    "ok")

(* The same for a set of messages, in the order of their sequence: each    *)
(* file is written, and then the attempt if it was the active one.         *)
Deactivated(d, S) == IF d.att.active \in Seqs(d, S) THEN [d EXCEPT !.att.active = NoMessage] ELSE d

RejectEach(d, S) ==
  [n \in 1..(2 * Cardinality(S) + 1) |->
     Deactivated(Rejected(d, FirstOf(d, S, n \div 2)), FirstOf(d, S, (n - 1) \div 2))]

(* tryCloseAttemptMailbox: closing, closed, the open index, and a scrub    *)
(* that finds no body left.  "none" when messages are still waiting.       *)
TryClose(d, recovery) ==
  Recovering(d, TRUE, LAMBDA e :
    LET toClosing == IF e.att.state = "closing" THEN <<e>>
                     ELSE WriteAttempt(e, [e.att EXCEPT !.state = "closing"])
        toClosed(f) == LET g == [f EXCEPT !.att.state = "closed"] IN <<f, g, g>>
    IN IF e.att.state = "closed" THEN Returns(<<e>>, "ok")
       ELSE IF e.att.state = "preparing" /\ ~recovery THEN Throws(<<e>>)
       ELSE IF InState(e, ActiveStates) # {}
         THEN IF e.att.unknown = NoMessage THEN Returns(<<e>>, "none") ELSE Throws(<<e>>)
       ELSE Returns(Then(Then(toClosing, toClosed),
                         LAMBDA f : RejectAll(f, InState(f, RetainingStates))), "ok"))

(* settleInterruptedAttempt: an inflight message becomes unknown, the ones *)
(* that were never sent are rejected, and the attempt is closed.           *)
SettleInterrupted(d) ==
  IF d.att = NoAttempt THEN Returns(<<d>>, "ok") ELSE
  Recovering(d, TRUE, LAMBDA e :
    LET inflight == InState(e, {"inflight"})
        settled == IF inflight # {}
                     THEN SettleUnknown(e, CHOOSE i \in inflight : TRUE)
                     ELSE Returns(RejectEach(e, InState(e, RetainingStates)), "ok")
    IN IF e.att.state = "closed" THEN Returns(<<e>>, "ok")
       ELSE IF settled.ret = "error" THEN settled
       ELSE AndThen(settled.trace, LAMBDA f : TryClose(f, TRUE)))

(* recordPrimaryTurn.                                                      *)
RecordPrimary(d) ==
  Recovering(d, TRUE, LAMBDA e :
    IF \/ e.att.state # "open"
       \/ e.att.last # NoTurn \/ e.att.primary \/ e.att.active # NoMessage
      THEN Throws(<<e>>)
      ELSE Returns(WriteAttempt(e, [e.att EXCEPT !.primary = TRUE, !.last = 0,
                                                 !.chain = <<PrimaryTurn>>]), "ok"))

(* selectFinalReportSequence.                                              *)
SelectFinal(d, seq, valid) ==
  IF \/ d.att = NoAttempt
     \/ d.att.state # "closed"
     \/ seq # d.att.last \/ seq = NoTurn
     \/ d.att.final # NoTurn
    THEN Throws(<<d>>)
    ELSE Returns(WriteAttempt(d, [d.att EXCEPT !.final = IF valid THEN seq ELSE NoTurn]), "ok")

(* appendMailboxOutcome: one checkpoint per message and state.             *)
Note(d, i) ==
  IF <<i, d.msgs[i].state>> \in d.noted THEN <<d>>
  ELSE <<d, [d EXCEPT !.noted = @ \cup {<<i, d.msgs[i].state>>}]>>

Noting(r, i) == IF r.ret = "error" THEN r
                ELSE Returns(Then(r.trace, LAMBDA d : Note(d, i)), r.ret)

NoteAll(d) ==
  [n \in 1..(Len(d.msgs) + 1) |->
     [d EXCEPT !.noted = @ \cup {<<i, d.msgs[i].state>> : i \in 1..(n - 1)}]]

NotingAll(r) == IF r.ret = "error" THEN r ELSE Returns(Then(r.trace, NoteAll), r.ret)
=============================================================================
