---------------------------- MODULE AbstractMailbox ----------------------------
(* What a mailbox promises to those who send through it, whatever dies or  *)
(* fails: a message is refused, or waits in its place; one at a time, in   *)
(* the order of their places, messages are handed to the provider, each    *)
(* once; and each gets one outcome that stands.  It is delivered when the  *)
(* provider reported the end of its turn, rejected only if it was never    *)
(* handed over, and where neither is known it is lost (delivery_unknown),  *)
(* after which no other is handed over.                                    *)
EXTENDS Naturals, Sequences

CONSTANT Keys   \* a message is known by the key of its sender

VARIABLES
  fate,      \* what became of the message of each key
  place,     \* its place in the queue, 0 for none
  prompts,   \* the messages handed to the provider, in this order
  ended,     \* those whose turn the provider reported ended
  closed     \* nothing is accepted or settled any more

vars == <<fate, place, prompts, ended, closed>>

Fates == {"none", "pending", "delivered", "delivery_unknown", "rejected"}

Init ==
  /\ fate = [k \in Keys |-> "none"]
  /\ place = [k \in Keys |-> 0]
  /\ prompts = <<>>
  /\ ended = {}
  /\ closed = FALSE

Prompted == {prompts[n] : n \in DOMAIN prompts}

Unknown == {k \in Keys : fate[k] = "delivery_unknown"}

First(k) == \A j \in Keys : fate[j] = "pending" => place[k] <= place[j]

(* A message that is given up while it is on its way may still leave.      *)
Prompt(k) ==
  /\ fate[k] \in {"pending", "delivery_unknown"} /\ k \notin Prompted
  /\ First(k)
  /\ Unknown \subseteq {k}
  /\ \A j \in Prompted : fate[j] = "delivered"
  /\ prompts' = Append(prompts, k)
  /\ UNCHANGED <<fate, place, ended, closed>>

EndTurn ==
  /\ prompts # <<>>
  /\ ended' = ended \cup {prompts[Len(prompts)]}
  /\ UNCHANGED <<fate, place, prompts, closed>>

(* What a transaction may make of the message of k.                        *)
Becomes(k, f, n) == fate'[k] = f /\ place'[k] = n

Stays(k)     == Becomes(k, fate[k], place[k])
Refused(k)   == fate[k] = "none" /\ Becomes(k, "rejected", 0)
Accepted(k)  == /\ fate[k] = "none" /\ fate'[k] = "pending"
                /\ \A j \in Keys : place[j] < place'[k]
Withdrawn(k) == fate[k] = "pending" /\ k \notin Prompted /\ Becomes(k, "rejected", 0)
Delivered(k) == /\ fate[k] = "pending" /\ First(k) /\ k \in ended
                /\ Becomes(k, "delivered", place[k])
Lost(k)      == /\ fate[k] = "pending" /\ First(k)
                /\ Becomes(k, "delivery_unknown", place[k])

Added == {k \in Keys : Refused(k) \/ Accepted(k)}

(* A transaction adds one message at the most and loses one at the most;   *)
(* it may settle several, and none is left when it closes the mailbox.     *)
Transact ==
  /\ ~closed
  /\ fate' \in [Keys -> Fates] /\ place' \in [Keys -> Nat] /\ closed' \in BOOLEAN
  /\ \A k \in Keys : \/ Stays(k) \/ Refused(k) \/ Accepted(k)
                     \/ Withdrawn(k) \/ Delivered(k) \/ Lost(k)
  /\ \A j, k \in Added : j = k
  /\ \A j, k \in Unknown' : j = k
  /\ closed' => \A k \in Keys : fate'[k] # "pending"
  /\ UNCHANGED <<prompts, ended>>

Next == Transact \/ EndTurn \/ \E k \in Keys : Prompt(k)

Spec == Init /\ [][Next]_vars

=============================================================================
