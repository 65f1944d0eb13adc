------------------------------ MODULE AcpClient ------------------------------
(* The JSON-RPC client of a provider (acp-client.mjs): requests written to *)
(* Grok's standard input, answers read from its standard output in chunks. *)
(* A chunk is parsed message by message without any other code running in  *)
(* between; a successful answer is published only in the microtask after   *)
(* the chunk, so that a later message of the chunk can still take it back. *)
(* An answer to a request that is not pending any more (timed out, answered*)
(* before) breaks the transport, and with it every request that waits.     *)
(*                                                                          *)
(* A module that uses the client EXTENDS this one.  Each request is sent   *)
(* once; ids are what the client counts.                                   *)

CONSTANT Requests

VARIABLES
  req,     \* each request: unused, pending, answered, resolved or rejected
  closed,  \* the transport is broken
  chunk    \* whether a chunk is being parsed, and the requests it answered

acp == <<req, closed, chunk>>

NoChunk == [open |-> FALSE, answers |-> {}]

AcpInit == req = [id \in Requests |-> "unused"] /\ closed = FALSE /\ chunk = NoChunk

AcpForgets == req' = [id \in Requests |-> "unused"] /\ closed' = FALSE /\ chunk' = NoChunk

Settled(id) == req[id] \in {"resolved", "rejected"}

(* reserveRequestId and dispatchReserved.  The client keeps nothing of a   *)
(* request that was answered, and by now the answer has been used.         *)
Sent(id) == [r \in Requests |->
  IF r = id THEN IF closed THEN "rejected" ELSE "pending"
  ELSE IF req[r] = "resolved" THEN "unused" ELSE req[r]]

Dispatch(id) == req' = Sent(id) /\ UNCHANGED <<closed, chunk>>

(* The timer of a request; its answer is not awaited any more.             *)
TimesOut(id) ==
  /\ ~chunk.open /\ req[id] = "pending"
  /\ req' = [req EXCEPT ![id] = "rejected"]
  /\ UNCHANGED <<closed, chunk>>

(* #close: everything that waits is rejected.                              *)
Breaks ==
  /\ closed' = TRUE
  /\ req' = [id \in Requests |-> IF req[id] \in {"pending", "answered"} THEN "rejected" ELSE req[id]]

(* mutant: an answer is published at once.                                 *)
AnsweredAtOnce(id, valid) ==
  IF req[id] # "pending" THEN Breaks /\ UNCHANGED chunk
  ELSE /\ req' = [req EXCEPT ![id] = IF valid THEN "resolved" ELSE "rejected"]
       /\ chunk' = [chunk EXCEPT !.answers = @ \cup {id}]
       /\ UNCHANGED closed

(* #message, an answer: valid or not.                                      *)
Answered(id, valid) ==
  IF req[id] # "pending" THEN Breaks /\ UNCHANGED chunk
  ELSE /\ req' = [req EXCEPT ![id] = IF valid THEN "answered" ELSE "rejected"]
       /\ chunk' = [chunk EXCEPT !.answers = @ \cup {id}]
       /\ UNCHANGED closed

ChunkBegins == ~chunk.open /\ chunk' = [open |-> TRUE, answers |-> {}] /\ UNCHANGED <<req, closed>>

(* The microtasks after the chunk.                                         *)
ChunkEnds ==
  /\ chunk.open /\ chunk' = NoChunk
  /\ req' = [id \in Requests |-> IF req[id] # "answered" THEN req[id]
                                 ELSE IF closed THEN "rejected" ELSE "resolved"]
  /\ UNCHANGED closed
=============================================================================
