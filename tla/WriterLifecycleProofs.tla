------------------------- MODULE WriterLifecycleProofs -------------------------
(* Theorems about the end of a managed writer, for any number of writers,  *)
(* calls and faults of any kind: what is in the parent was decided on      *)
(* (AppliedIsDecided), a worktree is touched only when the work in it is   *)
(* no longer needed (WorkIsKept), and a complete cleanup is final          *)
(* (AbsentIsAbsent).                                                       *)
EXTENDS WriterLifecycle, TLAPS

Effects == {"apply", "close", "remove"}
Integrations == {"none", "planned", "applying", "verified", "blocked"}
Cleanups == {"none", "planned", "closing", "removing", "absent", "blocked"}
Cleanings == Operations \ {"integrate"}

(* Where a call can be: in an integration, in a cleanup whose session is   *)
(* still there or already gone, or in an effect of either.                 *)
Integrating == {"observe", "decide"}
Effecting == {"prepare", "answer", "teardown"}
Deleting == {"inspect", "deleteEnd"}
Removing == {"classify", "removeEnd", "final"}
Cleaning == {"close", "closeEnd"} \cup Deleting \cup Removing
Pcs == {"idle", "plan"} \cup Integrating \cup Effecting \cup Cleaning

Rec == [integ : Integrations, tries : 0 .. MaxTries,
        clean : Cleanups, op : Cleanings \cup {"none"},
        closes : 0 .. MaxTries, closed : BOOLEAN, deletes : 0 .. MaxTries, deleted : BOOLEAN,
        removes : 0 .. MaxTries, removed : BOOLEAN,
        intent : [Effects -> {"none", "open", "settled"}]]
Call == [pc : Pcs, w : Workers \cup {None}, op : Operations \cup {"none"},
         eff : Effects \cup {"none"}, stage : {"none", "pre", "post", "failed"},
         obs : {"none", "unchanged", "exact", "drift"}, ok : BOOLEAN]
Ctl == [w : Workers \cup {None}, eff : Effects \cup {"none"}, st : {"told", "done", "gone"}]

TypeInv ==
  /\ status \in [Workers -> {"completed", "cancelled"}]
  /\ rec \in [Workers -> Rec]
  /\ parent \in Places \cup Workers
  /\ tree \in [Workers -> {"kept", "partial", "absent"}]
  /\ session \in [Workers -> {"open", "closed", "deleted"}]
  /\ ctl \in [Slots -> Ctl]
  /\ call \in [Slots -> Call]
  /\ parentLease \in Slots \cup {None}
  /\ cleanLease \in [Workers -> Slots \cup {None}]

Active(c) == call[c].pc # "idle"

(* A call is in one of its operation's places, with the worker it is for.  *)
Placed(c) ==
  /\ call[c].w \in Workers /\ call[c].op \in Operations
  /\ call[c].pc \in Integrating => call[c].op = "integrate"
  /\ call[c].pc \in Cleaning => call[c].op # "integrate"
  /\ call[c].pc \in Effecting =>
       IF call[c].op = "integrate" THEN call[c].eff = "apply"
       ELSE call[c].eff \in {"close", "remove"}

(* It holds its leases until it ends.                                      *)
Leased(c) ==
  /\ call[c].op \in {"integrate", "abandon"} => parentLease = c
  /\ call[c].op # "integrate" => cleanLease[call[c].w] = c

(* What was allowed when it began stays so, and what it saw or did in the  *)
(* parent was tried.                                                       *)
Permitted(c) ==
  LET k == call[c]
      r == rec[k.w] IN
  /\ k.op = "integrate" =>
       /\ status[k.w] = "completed" /\ r.integ \notin {"verified", "blocked"}
       /\ k.pc = "plan" => r.tries = 0
       /\ k.obs = "exact" \/ k.pc \in Effecting => r.tries > 0
  /\ k.op = "cleanup" => r.integ = "verified"
  /\ k.op = "abandon" => r.tries = 0
  /\ k.op = "discard" => status[k.w] = "cancelled"
  /\ k.op # "integrate" => r.op \in (IF k.pc = "plan" THEN {"none", k.op} ELSE {k.op})

(* A cleanup goes in its order: closed, deleted, removed.                  *)
Gone(r) == r.closed /\ r.deleted
Ordered(c) ==
  LET r == rec[call[c].w] IN
  /\ call[c].pc \in Deleting => r.closed
  /\ call[c].pc \in Removing => Gone(r)
  /\ call[c].pc \in Effecting /\ call[c].eff = "remove" => Gone(r)

CallInv(c) == Active(c) => Placed(c) /\ Leased(c) /\ Permitted(c) /\ Ordered(c)

(* What is on record of a worker fits together: what was tried was decided *)
(* on and never given up.                                                  *)
WorkerInv(w) ==
  /\ rec[w].tries > 0 =>
       status[w] = "completed" /\ rec[w].integ \in {"applying", "verified", "blocked"}
  /\ rec[w].op = "cleanup" => rec[w].integ = "verified"
  /\ rec[w].op = "abandon" => rec[w].tries = 0
  /\ rec[w].op = "discard" => status[w] = "cancelled"
  /\ rec[w].deleted => session[w] = "deleted"
  /\ rec[w].clean # "none" => rec[w].op # "none"
  /\ rec[w].clean = "absent" => tree[w] = "absent" /\ session[w] = "deleted"

(* A controller at work was asked for by a call that could.                *)
CtlInv(c) ==
  LET r == rec[ctl[c].w] IN
  ctl[c].st = "told" =>
    /\ ctl[c].w \in Workers
    /\ ctl[c].eff = "apply" => r.tries > 0
    /\ ctl[c].eff = "remove" => Gone(r) /\ r.op # "none"

ParentInv == parent \in Workers => rec[parent].tries > 0

Inv ==
  /\ TypeInv
  /\ \A c \in Slots : CallInv(c) /\ CtlInv(c)
  /\ \A w \in Workers : WorkerInv(w)
  /\ ParentInv

-----------------------------------------------------------------------------
(* What the building blocks of the actions do.                             *)

LEMMA NoneIsNoSlot ==
  ASSUME WriterLifecycleAssumption
  PROVE  None \notin Slots /\ None \notin Workers /\ Workers \cap Places = {}
BY DEF WriterLifecycleAssumption

LEMMA IdleCall == Idle \in Call /\ Idle.pc = "idle"
BY DEF Idle, Call, Pcs

(* A call goes on elsewhere.                                               *)
LEMMA GotoMoves ==
  ASSUME TypeInv, NEW c \in Slots, NEW pc \in Pcs, Goto(c, pc)
  PROVE  /\ call' \in [Slots -> Call]
         /\ call'[c].pc = pc /\ call'[c].w = call[c].w /\ call'[c].op = call[c].op
         /\ call'[c].obs = "none" /\ call'[c].eff = "none"
         /\ \A d \in Slots \ {c} : call'[d] = call[d]
<1>1. call[c] \in Call /\ call \in [Slots -> Call] BY DEF TypeInv
<1>2. [Idle EXCEPT !.pc = pc, !.w = call[c].w, !.op = call[c].op] \in Call
  BY <1>1 DEF Idle, Call
<1> QED BY <1>1, <1>2 DEF Goto, Idle

(* A call ends, and lets go of its leases and of no other's.               *)
LEMMA EndMoves ==
  ASSUME TypeInv, NEW c \in Slots, End(c), WriterLifecycleAssumption
  PROVE  /\ call' \in [Slots -> Call]
         /\ call'[c] = Idle
         /\ parentLease' \in Slots \cup {None} /\ cleanLease' \in [Workers -> Slots \cup {None}]
         /\ \A d \in Slots \ {c} :
              /\ call'[d] = call[d]
              /\ parentLease = d => parentLease' = d
              /\ \A w \in Workers : cleanLease[w] = d => cleanLease'[w] = d
BY IdleCall, NoneIsNoSlot DEF TypeInv, End

(* The first of the phases that is still to be done.                       *)
LEMMA PhaseMoves ==
  ASSUME NEW r \in Rec
  PROVE  /\ NextPhase(r) \in Cleaning
         /\ NextPhase(r) # "close" => r.closed
         /\ NextPhase(r) \in Removing => Gone(r)
         /\ NextPhase(r) \notin {"idle", "plan"} \cup Integrating \cup Effecting
BY DEF NextPhase, Rec, Cleaning, Removing, Deleting, Gone, Integrating, Effecting

(* A call goes on after its effect.                                        *)
LEMMA AfterMoves ==
  ASSUME TypeInv, NEW c \in Slots, NEW ok \in BOOLEAN, call[c].eff \in Effects, After(c, ok)
  PROVE  /\ call' \in [Slots -> Call]
         /\ call'[c].pc = (IF call[c].eff = "apply" THEN "observe"
                           ELSE IF call[c].eff = "close" THEN "closeEnd" ELSE "removeEnd")
         /\ call'[c].w = call[c].w /\ call'[c].op = call[c].op
         /\ call'[c].obs = "none" /\ call'[c].eff = "none"
         /\ \A d \in Slots \ {c} : call'[d] = call[d]
<1> DEFINE k == [Idle EXCEPT !.w = call[c].w, !.op = call[c].op,
      !.stage = IF call[c].eff # "apply" THEN "none" ELSE IF ok THEN "post" ELSE "failed",
      !.ok = ok /\ call[c].eff # "apply",
      !.pc = CASE call[c].eff = "apply" -> "observe" [] call[c].eff = "close" -> "closeEnd"
               [] call[c].eff = "remove" -> "removeEnd"]
<1>1. call[c] \in Call /\ call \in [Slots -> Call] BY DEF TypeInv
<1>2. call' = [call EXCEPT ![c] = k] BY DEF After
<1>3. (ok /\ call[c].eff # "apply") \in BOOLEAN OBVIOUS
<1>4. /\ k \in Call
      /\ k.pc = (IF call[c].eff = "apply" THEN "observe"
                 ELSE IF call[c].eff = "close" THEN "closeEnd" ELSE "removeEnd")
      /\ k.w = call[c].w /\ k.op = call[c].op /\ k.obs = "none" /\ k.eff = "none"
  <2> DEFINE stage == IF call[c].eff # "apply" THEN "none" ELSE IF ok THEN "post" ELSE "failed"
             done == ok /\ call[c].eff # "apply"
             pc == CASE call[c].eff = "apply" -> "observe" [] call[c].eff = "close" -> "closeEnd"
                     [] call[c].eff = "remove" -> "removeEnd"
  <2>1. stage \in {"none", "pre", "post", "failed"} OBVIOUS
  <2>2. pc = (IF call[c].eff = "apply" THEN "observe"
              ELSE IF call[c].eff = "close" THEN "closeEnd" ELSE "removeEnd")
    BY DEF Effects
  <2>3. pc \in Pcs BY <2>2 DEF Pcs, Integrating, Cleaning, Removing
  <2>4. call[c].w \in Workers \cup {None} /\ call[c].op \in Operations \cup {"none"}
    BY <1>1 DEF Call
  <2> HIDE DEF stage, done, pc
  <2>5. k = [Idle EXCEPT !.w = call[c].w, !.op = call[c].op, !.stage = stage, !.ok = done,
    !.pc = pc]
    BY DEF stage, done, pc
  <2> HIDE DEF k
  <2>6. done \in BOOLEAN BY <1>3 DEF done
  <2>7. /\ k \in Call /\ k.pc = pc /\ k.w = call[c].w /\ k.op = call[c].op /\ k.obs = "none"
        /\ k.eff = "none"
    BY <2>1, <2>3, <2>4, <2>5, <2>6 DEF Idle, Call
  <2> QED BY <2>2, <2>7
<1> QED BY <1>1, <1>2, <1>4

(* An intent is recorded, and nothing else of the record changes.          *)
Same(r, n) ==
  /\ n.integ = r.integ /\ n.tries = r.tries /\ n.op = r.op
  /\ n.closed = r.closed /\ n.deleted = r.deleted

LEMMA IntentMoves ==
  ASSUME TypeInv, NEW c \in Slots, NEW is \in {"open", "settled"}, Intent(c, is),
         call[c].w \in Workers, call[c].eff \in Effects
  PROVE  /\ rec' \in [Workers -> Rec]
         /\ \A v \in Workers \ {call[c].w} : rec'[v] = rec[v]
         /\ Same(rec[call[c].w], rec'[call[c].w])
         /\ rec'[call[c].w].clean = rec[call[c].w].clean
<1> DEFINE w == call[c].w
           n == [rec[w] EXCEPT !.intent[call[c].eff] = is]
<1>1. rec \in [Workers -> Rec] /\ rec[w] \in Rec BY DEF TypeInv
<1>2. rec' = [rec EXCEPT ![w] = n] BY DEF Intent
<1>3. n \in Rec BY <1>1 DEF Rec
<1>4. Same(rec[w], n) /\ n.clean = rec[w].clean BY <1>1 DEF Rec, Same
<1> QED BY <1>1, <1>2, <1>3, <1>4

(* A cleanup blocks, goes on with another record, or asks for an effect.   *)
LEMMA BlockMoves ==
  ASSUME TypeInv, NEW c \in Slots, call[c].w \in Workers, Block(c)
  PROVE  /\ rec' \in [Workers -> Rec] /\ End(c)
         /\ \A v \in Workers \ {call[c].w} : rec'[v] = rec[v]
         /\ Same(rec[call[c].w], rec'[call[c].w]) /\ rec'[call[c].w].clean = "blocked"
<1> DEFINE w == call[c].w
           n == [rec[w] EXCEPT !.clean = "blocked"]
<1>1. rec \in [Workers -> Rec] /\ rec[w] \in Rec BY DEF TypeInv
<1>2. rec' = [rec EXCEPT ![w] = n] BY DEF Block
<1>3. n \in Rec BY <1>1 DEF Rec, Cleanups
<1>4. Same(rec[w], n) /\ n.clean = "blocked" BY <1>1 DEF Rec, Same
<1> QED BY <1>1, <1>2, <1>3, <1>4 DEF Block

LEMMA GoOnMoves ==
  ASSUME TypeInv, NEW c \in Slots, call[c].w \in Workers, NEW r \in Rec, GoOn(c, r)
  PROVE  /\ rec' \in [Workers -> Rec] /\ rec'[call[c].w] = r
         /\ \A v \in Workers \ {call[c].w} : rec'[v] = rec[v]
         /\ call' \in [Slots -> Call]
         /\ call'[c].pc = NextPhase(r) /\ call'[c].w = call[c].w /\ call'[c].op = call[c].op
         /\ \A d \in Slots \ {c} : call'[d] = call[d]
         /\ parentLease' = parentLease /\ cleanLease' = cleanLease
<1>1. NextPhase(r) \in Pcs BY PhaseMoves DEF Pcs
<1>2. Goto(c, NextPhase(r)) BY DEF GoOn
<1> QED BY <1>1, <1>2, GotoMoves DEF GoOn, TypeInv, leases

LEMMA AskMoves ==
  ASSUME TypeInv, NEW c \in Slots, call[c].w \in Workers, NEW r \in Rec, NEW eff \in Effects,
         Ask(c, r, eff)
  PROVE  /\ rec' \in [Workers -> Rec] /\ rec'[call[c].w] = r
         /\ \A v \in Workers \ {call[c].w} : rec'[v] = rec[v]
         /\ call' \in [Slots -> Call]
         /\ call'[c].pc = "prepare" /\ call'[c].eff = eff
         /\ call'[c].w = call[c].w /\ call'[c].op = call[c].op
         /\ \A d \in Slots \ {c} : call'[d] = call[d]
         /\ parentLease' = parentLease /\ cleanLease' = cleanLease
<1>1. call[c] \in Call /\ call \in [Slots -> Call] BY DEF TypeInv
<1>2. [call[c] EXCEPT !.pc = "prepare", !.eff = eff] \in Call
  BY <1>1 DEF Call, Pcs, Effecting
<1>3. call' = [call EXCEPT ![c] = [call[c] EXCEPT !.pc = "prepare", !.eff = eff]]
  BY <1>1 DEF Ask
<1> QED BY <1>1, <1>2, <1>3 DEF Ask, TypeInv, leases, Call

(* Two calls at once are for two workers: what excludes two of them is a   *)
(* lease, or what one of them needs of the record and the other denies.    *)
LEMMA Exclusive ==
  ASSUME NEW c \in Slots, NEW d \in Slots, c # d, Active(c), Active(d), CallInv(c), CallInv(d)
  PROVE  call[c].w # call[d].w
BY DEF CallInv, Placed, Leased, Permitted, Operations

(* The steps of a call, to its end or death.                               *)
CallStep(c) == Runs(c) \/ GiveUp(c) \/ Die(c)

(* Such a step is its own: it changes its call, the record of its worker,  *)
(* where nothing that was reached is taken back, and its own leases.       *)
Own(c) ==
  LET w == call[c].w IN
  /\ Active(c) /\ status' = status /\ parent' = parent
  /\ \A d \in Slots \ {c} :
       /\ call'[d] = call[d]
       /\ parentLease = d => parentLease' = d
       /\ \A v \in Workers : cleanLease[v] = d => cleanLease'[v] = d
  /\ \A v \in Workers \ {w} : rec'[v] = rec[v]
  /\ rec[w].tries > 0 => rec'[w].tries > 0
  /\ rec[w].closed => rec'[w].closed
  /\ rec[w].deleted => rec'[w].deleted
  /\ rec[w].op # "none" => rec'[w].op # "none"

(* A step of one call leaves the others where they are.                    *)
LEMMA OthersStep ==
  ASSUME TypeInv, \A s \in Slots : CallInv(s),
         NEW c \in Slots, Own(c), NEW d \in Slots \ {c}
  PROVE  CallInv(d)'
<1> SUFFICES ASSUME Active(d)' PROVE (Placed(d) /\ Leased(d) /\ Permitted(d) /\ Ordered(d))'
  BY DEF CallInv
<1>1. call'[d] = call[d] /\ Active(d) BY DEF Own, Active
<1>2. CallInv(d) /\ call[d].w \in Workers BY <1>1 DEF CallInv, Placed
<1>3. call[d].w # call[c].w BY <1>1, Exclusive DEF Own
<1>4. rec'[call[d].w] = rec[call[d].w] /\ status' = status BY <1>2, <1>3 DEF Own
<1>5. Placed(d)' BY <1>1, <1>2 DEF CallInv, Placed
<1>6. Leased(d)' BY <1>1, <1>2 DEF CallInv, Leased, Own
<1>7. Permitted(d)' BY <1>1, <1>2, <1>4 DEF CallInv, Permitted
<1>8. Ordered(d)' BY <1>1, <1>2, <1>4 DEF CallInv, Ordered, Gone
<1> QED BY <1>5, <1>6, <1>7, <1>8

-----------------------------------------------------------------------------
(* The steps of a call, one by one: each keeps the types, is the call's    *)
(* own, and leaves the call and its worker's record as the invariant says. *)

Acting(c, w) ==
  /\ WriterLifecycleAssumption /\ TypeInv
  /\ Active(c) /\ CallInv(c) /\ w = call[c].w /\ WorkerInv(w)
Keeps(c, w) == TypeInv' /\ Own(c) /\ CallInv(c)' /\ WorkerInv(w)'

LEMMA ActingFacts ==
  ASSUME NEW c \in Slots, NEW w, Acting(c, w)
  PROVE  /\ w \in Workers /\ call[c] \in Call /\ rec[w] \in Rec
         /\ Placed(c) /\ Leased(c) /\ Permitted(c) /\ Ordered(c)
         /\ call \in [Slots -> Call] /\ rec \in [Workers -> Rec]
BY DEF Acting, CallInv, Placed, TypeInv

(* A record that has grown: nothing reached is taken back, the decision    *)
(* stays, and what is recorded as gone is gone.                            *)
Grown(w, n) ==
  /\ n \in Rec /\ n.integ = rec[w].integ /\ n.tries = rec[w].tries /\ n.op = rec[w].op
  /\ rec[w].closed => n.closed
  /\ rec[w].deleted => n.deleted
  /\ n.deleted => session'[w] = "deleted"
  /\ n.clean # "none" => n.op # "none"
  /\ n.clean = "absent" => tree[w] = "absent" /\ session'[w] = "deleted"

(* All that a step of a cleanup does to the world outside.                 *)
Outside(w) ==
  /\ UNCHANGED <<status, parent, tree, ctl>>
  /\ session' \in [Workers -> {"open", "closed", "deleted"}]
  /\ session[w] = "deleted" => session'[w] = "deleted"

LEMMA OutsideIsWorld ==
  ASSUME TypeInv, UNCHANGED ctl, UNCHANGED world
  PROVE  \A w \in Workers : Outside(w)
BY DEF TypeInv, world, Outside

(* A call that ends has only the record to keep.                           *)
LEMMA EndKeeps ==
  ASSUME NEW c \in Slots, NEW w, Acting(c, w), End(c), Outside(w),
         rec' \in [Workers -> Rec], \A v \in Workers \ {w} : rec'[v] = rec[v],
         Grown(w, rec'[w])
  PROVE  Keeps(c, w)
<1>1. TypeInv' BY EndMoves DEF Acting, TypeInv, Outside
<1>2. Own(c) BY EndMoves, ActingFacts DEF Own, Acting, Outside, Grown
<1>3. CallInv(c)' BY EndMoves DEF Acting, CallInv, Active, Idle
<1>4. WorkerInv(w)' BY DEF WorkerInv, Acting, Grown, Outside
<1> QED BY <1>1, <1>2, <1>3, <1>4 DEF Keeps

LEMMA CleaningIsOnRecord ==
  ASSUME NEW c \in Slots, NEW w, Acting(c, w), call[c].pc \in Cleaning
  PROVE  rec[w].op = call[c].op /\ rec[w].op # "none"
BY ActingFacts
DEF Acting, Permitted, Placed, Operations, Cleaning, Deleting, Removing

LEMMA BlockKeeps ==
  ASSUME NEW c \in Slots, NEW w, Acting(c, w), Block(c), Outside(w), call[c].pc \in Cleaning
  PROVE  Keeps(c, w)
<1>1. Same(rec[w], rec'[w]) /\ rec'[w].clean = "blocked" /\ rec'[w] \in Rec
  BY BlockMoves, ActingFacts DEF Acting
<1>2. Grown(w, rec'[w]) BY <1>1, CleaningIsOnRecord DEF Grown, Same, Acting, WorkerInv, Outside
<1> QED BY <1>2, EndKeeps, BlockMoves, ActingFacts DEF Acting

(* A cleanup goes on with its next phase.                                  *)
LEMMA GoOnKeeps ==
  ASSUME NEW c \in Slots, NEW w, Acting(c, w), NEW n, Grown(w, n), GoOn(c, n), Outside(w),
         call[c].pc \in Cleaning
  PROVE  Keeps(c, w)
<1>1. n \in Rec /\ call[c].op \in Cleanings
  BY ActingFacts DEF Grown, Placed, Cleanings
<1>2. /\ rec' \in [Workers -> Rec] /\ rec'[w] = n /\ \A v \in Workers \ {w} : rec'[v] = rec[v]
      /\ call' \in [Slots -> Call]
      /\ call'[c].pc = NextPhase(n) /\ call'[c].w = w /\ call'[c].op = call[c].op
      /\ \A d \in Slots \ {c} : call'[d] = call[d]
      /\ parentLease' = parentLease /\ cleanLease' = cleanLease
  BY <1>1, GoOnMoves, ActingFacts DEF Acting
<1>3. TypeInv' BY <1>2 DEF Acting, TypeInv, Outside
<1>4. Own(c) BY <1>1, <1>2 DEF Own, Acting, Outside, Grown
<1>5. Placed(c)'
  BY <1>1, <1>2, ActingFacts, PhaseMoves DEF Placed, Cleanings, Cleaning, Integrating, Effecting
<1>6. Leased(c)' BY <1>2, ActingFacts DEF Leased, Acting
<1>7. Permitted(c)'
  <2>1. call'[c].pc # "plan" BY <1>1, <1>2, PhaseMoves
  <2>2. Permitted(c) /\ call[c].w = w /\ call[c].pc # "plan"
    BY ActingFacts DEF Acting, Cleaning, Deleting, Removing
  <2> QED BY <1>1, <1>2, <2>1, <2>2 DEF Permitted, Cleanings, Grown, Outside
<1>8. Ordered(c)' BY <1>1, <1>2, PhaseMoves DEF Ordered, Gone, Deleting
<1>9. WorkerInv(w)' BY <1>2 DEF WorkerInv, Acting, Grown, Outside
<1> QED BY <1>3, <1>4, <1>5, <1>6, <1>7, <1>8, <1>9 DEF Keeps, CallInv

(* Or asks for an effect, when the order allows it.                        *)
LEMMA AskKeeps ==
  ASSUME NEW c \in Slots, NEW w, Acting(c, w), NEW n, Grown(w, n), Outside(w),
         NEW eff \in {"close", "remove"}, Ask(c, n, eff), call[c].pc \in Cleaning,
         eff = "remove" => Gone(n)
  PROVE  Keeps(c, w)
<1>1. n \in Rec /\ call[c].op \in Cleanings /\ eff \in Effects
  BY ActingFacts DEF Grown, Placed, Cleanings, Effects
<1>2. /\ rec' \in [Workers -> Rec] /\ rec'[w] = n /\ \A v \in Workers \ {w} : rec'[v] = rec[v]
      /\ call' \in [Slots -> Call]
      /\ call'[c].pc = "prepare" /\ call'[c].eff = eff
      /\ call'[c].w = w /\ call'[c].op = call[c].op
      /\ \A d \in Slots \ {c} : call'[d] = call[d]
      /\ parentLease' = parentLease /\ cleanLease' = cleanLease
  BY <1>1, AskMoves, ActingFacts DEF Acting
<1>3. TypeInv' BY <1>2 DEF Acting, TypeInv, Outside
<1>4. Own(c) BY <1>1, <1>2 DEF Own, Acting, Outside, Grown
<1>5. Placed(c)'
  BY <1>1, <1>2, ActingFacts
  DEF Placed, Cleanings, Cleaning, Integrating, Effecting, Removing, Deleting
<1>6. Leased(c)' BY <1>2, ActingFacts DEF Leased, Acting
<1>7. Permitted(c)'
  <2>1. Permitted(c) /\ call[c].w = w /\ call[c].pc # "plan"
    BY ActingFacts DEF Acting, Cleaning, Deleting, Removing
  <2> QED BY <1>1, <1>2, <2>1 DEF Permitted, Cleanings, Grown, Outside
<1>8. Ordered(c)' BY <1>1, <1>2 DEF Ordered, Gone, Deleting, Removing
<1>9. WorkerInv(w)' BY <1>2 DEF WorkerInv, Acting, Grown, Outside
<1> QED BY <1>3, <1>4, <1>5, <1>6, <1>7, <1>8, <1>9 DEF Keeps, CallInv

(* The first record of a cleanup.                                          *)
LEMMA PlanCleanupKeeps ==
  ASSUME NEW c \in Slots, NEW w, Acting(c, w), PlanCleanup(c)
  PROVE  Keeps(c, w)
<1> DEFINE r == rec[w]
           n == [rec[w] EXCEPT !.clean = "planned", !.op = call[c].op]
<1>1. /\ w \in Workers /\ call[c] \in Call /\ rec[w] \in Rec /\ call[c].w = w
      /\ Placed(c) /\ Leased(c) /\ Permitted(c) /\ Ordered(c)
      /\ call \in [Slots -> Call] /\ rec \in [Workers -> Rec]
  BY ActingFacts DEF Acting
<1>2. call[c].op \in Cleanings BY <1>1 DEF PlanCleanup, Placed, Cleanings
<1>3. n \in Rec BY <1>1, <1>2 DEF Rec, Cleanups
<1>4. /\ n.integ = r.integ /\ n.tries = r.tries /\ n.op = call[c].op /\ n.closed = r.closed
      /\ n.deleted = r.deleted /\ n.clean = "planned"
  BY <1>1 DEF Rec
<1>5. rec' = [rec EXCEPT ![w] = n] BY <1>1 DEF PlanCleanup
<1>6. rec'[w] = n /\ \A v \in Workers \ {w} : rec'[v] = rec[v] BY <1>1, <1>5
<1>7. /\ call' \in [Slots -> Call]
      /\ call'[c].pc = NextPhase(r) /\ call'[c].w = w /\ call'[c].op = call[c].op
      /\ call'[c].obs = "none" /\ call'[c].eff = "none"
      /\ \A d \in Slots \ {c} : call'[d] = call[d]
  <2>1. NextPhase(r) \in Pcs BY <1>1, PhaseMoves DEF Pcs
  <2> QED BY <1>1, <2>1, GotoMoves DEF PlanCleanup, Acting
<1> HIDE DEF n
<1>8. TypeInv' BY <1>1, <1>3, <1>5, <1>7 DEF Acting, TypeInv, PlanCleanup, leases, world
<1>9. Own(c)
  BY <1>1, <1>2, <1>4, <1>6, <1>7 DEF Own, Acting, PlanCleanup, leases, world, Cleanings, Operations
<1>10. Placed(c)'
  BY <1>1, <1>2, <1>7, PhaseMoves DEF Placed, Pcs, Cleanings, Cleaning, Integrating, Effecting
<1>11. Leased(c)' BY <1>1, <1>7 DEF Leased, PlanCleanup, leases
<1>12. Permitted(c)'
  <2>1. call'[c].pc # "plan" BY <1>1, <1>7, PhaseMoves
  <2> QED BY <1>1, <1>2, <1>4, <1>6, <1>7, <2>1 DEF Permitted, PlanCleanup, world, Cleanings
<1>13. Ordered(c)' BY <1>1, <1>4, <1>6, <1>7, PhaseMoves DEF Ordered, Gone, Deleting
<1>14. WorkerInv(w)'
  <2>1. /\ call[c].op = "cleanup" => r.integ = "verified"
        /\ call[c].op = "abandon" => r.tries = 0
        /\ call[c].op = "discard" => status[w] = "cancelled"
    BY <1>1 DEF Permitted
  <2> QED BY <1>1, <1>2, <1>4, <1>6, <2>1
    DEF Acting, WorkerInv, PlanCleanup, world, Cleanings, Operations
<1> QED BY <1>8, <1>9, <1>10, <1>11, <1>12, <1>13, <1>14 DEF Keeps, CallInv

-----------------------------------------------------------------------------
(* The steps of a cleanup.                                                 *)

(* What is recorded in a cleanup makes the record grow.                    *)
LEMMA RecordGrows ==
  ASSUME NEW c \in Slots, NEW w, Acting(c, w), Outside(w), call[c].pc \in Cleaning
  PROVE  /\ Grown(w, rec[w])
         /\ rec[w].closes # MaxTries =>
              Grown(w, [rec[w] EXCEPT !.clean = "closing", !.closes = @ + 1])
         /\ Grown(w, [rec[w] EXCEPT !.closed = TRUE])
         /\ session'[w] = "deleted" => Grown(w, [rec[w] EXCEPT !.deleted = TRUE])
         /\ rec[w].deletes < MaxTries => Grown(w, [rec[w] EXCEPT !.deletes = @ + 1])
         /\ LET r == [rec[w] EXCEPT !.clean = "removing"] IN
            /\ Grown(w, [r EXCEPT !.removed = TRUE])
            /\ Grown(w, r)
            /\ r.removes < MaxTries => Grown(w, [r EXCEPT !.removes = @ + 1])
         /\ tree[w] = "absent" /\ session'[w] = "deleted" =>
              Grown(w, [rec[w] EXCEPT !.clean = "absent"])
<1>1. /\ rec[w] \in Rec
      /\ rec[w].deleted => session'[w] = "deleted"
      /\ rec[w].clean = "absent" => tree[w] = "absent" /\ session'[w] = "deleted"
      /\ rec[w].op # "none"
  BY ActingFacts, CleaningIsOnRecord DEF Acting, WorkerInv, Outside
<1> USE <1>1 DEF Grown, Rec, MaxTries, Cleanups
<1>2. Grown(w, rec[w]) OBVIOUS
<1>3. rec[w].closes # MaxTries =>
        Grown(w, [rec[w] EXCEPT !.clean = "closing", !.closes = @ + 1])
  <2> SUFFICES ASSUME rec[w].closes # MaxTries
               PROVE  Grown(w, [rec[w] EXCEPT !.clean = "closing", !.closes = @ + 1])
    OBVIOUS
  <2>1. rec[w].closes + 1 \in 0 .. MaxTries OBVIOUS
  <2> QED BY <2>1
<1>4. Grown(w, [rec[w] EXCEPT !.closed = TRUE]) OBVIOUS
<1>5. session'[w] = "deleted" => Grown(w, [rec[w] EXCEPT !.deleted = TRUE]) OBVIOUS
<1>6. rec[w].deletes < MaxTries => Grown(w, [rec[w] EXCEPT !.deletes = @ + 1]) OBVIOUS
<1>7. Grown(w, [[rec[w] EXCEPT !.clean = "removing"] EXCEPT !.removed = TRUE]) OBVIOUS
<1>8. Grown(w, [rec[w] EXCEPT !.clean = "removing"]) OBVIOUS
<1>9. [rec[w] EXCEPT !.clean = "removing"].removes < MaxTries =>
        Grown(w, [[rec[w] EXCEPT !.clean = "removing"] EXCEPT !.removes = @ + 1])
  <2> SUFFICES ASSUME rec[w].removes < MaxTries
               PROVE  Grown(w, [[rec[w] EXCEPT !.clean = "removing"] EXCEPT !.removes = @ + 1])
    OBVIOUS
  <2>1. rec[w].removes + 1 \in 0 .. MaxTries OBVIOUS
  <2> QED BY <2>1
<1>10. tree[w] = "absent" /\ session'[w] = "deleted" =>
         Grown(w, [rec[w] EXCEPT !.clean = "absent"])
  OBVIOUS
<1> HIDE <1>1 DEF Grown, Rec, MaxTries, Cleanups
<1> QED BY <1>2, <1>3, <1>4, <1>5, <1>6, <1>7, <1>8, <1>9, <1>10

LEMMA CloseKeeps ==
  ASSUME NEW c \in Slots, NEW w, Acting(c, w), Close(c)
  PROVE  Keeps(c, w)
<1>1. Outside(w) /\ call[c].w = w /\ call[c].pc \in Cleaning
  BY OutsideIsWorld, ActingFacts DEF Close, Acting, Cleaning
<1>2. CASE rec[w].closes = MaxTries BY <1>1, <1>2, BlockKeeps DEF Close
<1>3. CASE rec[w].closes # MaxTries BY <1>1, <1>3, AskKeeps, RecordGrows DEF Close
<1> QED BY <1>2, <1>3

LEMMA CloseEndKeeps ==
  ASSUME NEW c \in Slots, NEW w, Acting(c, w), CloseEnd(c)
  PROVE  Keeps(c, w)
<1>1. Outside(w) /\ call[c].w = w /\ call[c].pc \in Cleaning
  BY OutsideIsWorld, ActingFacts DEF CloseEnd, Acting, Cleaning
<1>2. CASE call[c].ok BY <1>1, <1>2, GoOnKeeps, RecordGrows DEF CloseEnd
<1>3. CASE ~call[c].ok /\ rec[w].closes < MaxTries
  BY <1>1, <1>3, GoOnKeeps, RecordGrows DEF CloseEnd
<1>4. CASE ~call[c].ok /\ ~(rec[w].closes < MaxTries) BY <1>1, <1>4, BlockKeeps DEF CloseEnd
<1> QED BY <1>2, <1>3, <1>4

LEMMA InspectKeeps ==
  ASSUME NEW c \in Slots, NEW w, Acting(c, w), Inspect(c)
  PROVE  Keeps(c, w)
<1>1. call[c].w = w /\ call[c].pc = "inspect" /\ call[c].pc \in Cleaning /\ w \in Workers
      /\ call[c].op # "integrate"
  BY ActingFacts DEF Inspect, Acting, Cleaning, Deleting, Placed
<1>2. /\ UNCHANGED <<status, parent, tree, ctl>>
      /\ session \in [Workers -> {"open", "closed", "deleted"}]
  BY DEF Inspect, Acting, TypeInv
<1>3. CASE SessionAbsent(w) /\ GoOn(c, [rec[w] EXCEPT !.deleted = TRUE]) /\ UNCHANGED session
  <2>1. Outside(w) /\ session'[w] = "deleted" BY <1>2, <1>3 DEF Outside, SessionAbsent
  <2> QED BY <1>1, <1>3, <2>1, GoOnKeeps, RecordGrows
<1>4. CASE /\ ~SessionAbsent(w) /\ rec[w].deletes < MaxTries
           /\ rec' = [rec EXCEPT ![w].deletes = @ + 1] /\ Goto(c, "deleteEnd") /\ UNCHANGED leases
           /\ session' \in {session, [session EXCEPT ![w] = "deleted"]}
  <2> DEFINE n == [rec[w] EXCEPT !.deletes = @ + 1]
  <2>1. Outside(w)
    <3>1. CASE session' = session BY <1>2, <3>1 DEF Outside
    <3>2. CASE session' = [session EXCEPT ![w] = "deleted"] BY <1>1, <1>2, <3>2 DEF Outside
    <3> QED BY <1>4, <3>1, <3>2
  <2>2. Grown(w, n) BY <1>1, <1>4, <2>1, RecordGrows
  <2>3. rec' = [rec EXCEPT ![w] = n] BY <1>4
  <2> HIDE DEF n
  <2>4. /\ rec' \in [Workers -> Rec] /\ rec'[w] = n /\ \A v \in Workers \ {w} : rec'[v] = rec[v]
    BY <1>1, <2>2, <2>3, ActingFacts DEF Grown
  <2>5. "deleteEnd" \in Pcs BY DEF Pcs, Cleaning, Deleting
  <2>6. /\ call' \in [Slots -> Call]
        /\ call'[c].pc = "deleteEnd" /\ call'[c].w = w /\ call'[c].op = call[c].op
        /\ \A d \in Slots \ {c} : call'[d] = call[d]
    BY <1>1, <1>4, <2>5, GotoMoves DEF Acting
  <2>7. TypeInv' BY <1>2, <1>4, <2>1, <2>4, <2>6 DEF Acting, TypeInv, Outside, leases
  <2>8. Own(c)
    <3>1. /\ rec[w].tries > 0 => rec'[w].tries > 0
          /\ rec[w].closed => rec'[w].closed
          /\ rec[w].deleted => rec'[w].deleted
          /\ rec[w].op # "none" => rec'[w].op # "none"
      BY <2>2, <2>4 DEF Grown
    <3> QED BY <1>1, <1>2, <1>4, <2>4, <2>6, <3>1 DEF Own, Acting, leases
  <2>9. Placed(c)' BY <1>1, <2>6, ActingFacts DEF Placed, Integrating, Effecting
  <2>10. Leased(c)' BY <1>1, <1>4, <2>6, ActingFacts DEF Leased, leases
  <2>11. Permitted(c)'
    <3>1. Permitted(c) /\ status' = status BY <1>2, ActingFacts
    <3> QED BY <1>1, <2>2, <2>4, <2>6, <3>1 DEF Permitted, Grown
  <2>12. Ordered(c)'
    BY <1>1, <2>2, <2>4, <2>6, ActingFacts DEF Ordered, Grown, Deleting, Removing, Effecting
  <2>13. WorkerInv(w)' BY <2>1, <2>2, <2>4 DEF WorkerInv, Acting, Grown, Outside
  <2> QED BY <2>7, <2>8, <2>9, <2>10, <2>11, <2>12, <2>13 DEF Keeps, CallInv
<1>5. CASE ~SessionAbsent(w) /\ rec[w].deletes = MaxTries /\ Block(c) /\ UNCHANGED session
  <2>1. Outside(w) BY <1>2, <1>5 DEF Outside
  <2> QED BY <1>1, <1>5, <2>1, BlockKeeps
<1> QED BY <1>1, <1>3, <1>4, <1>5 DEF Inspect

LEMMA DeleteEndKeeps ==
  ASSUME NEW c \in Slots, NEW w, Acting(c, w), DeleteEnd(c)
  PROVE  Keeps(c, w)
<1>1. Outside(w) /\ call[c].w = w /\ call[c].pc \in Cleaning /\ session' = session
  BY OutsideIsWorld, ActingFacts DEF DeleteEnd, Acting, Cleaning, Deleting, world
<1>2. CASE SessionAbsent(w)
  BY <1>1, <1>2, GoOnKeeps, RecordGrows DEF DeleteEnd, SessionAbsent
<1>3. CASE ~SessionAbsent(w) /\ rec[w].deletes < MaxTries
  BY <1>1, <1>3, GoOnKeeps, RecordGrows DEF DeleteEnd
<1>4. CASE ~SessionAbsent(w) /\ ~(rec[w].deletes < MaxTries)
  BY <1>1, <1>4, BlockKeeps DEF DeleteEnd
<1> QED BY <1>2, <1>3, <1>4

LEMMA ClassifyKeeps ==
  ASSUME NEW c \in Slots, NEW w, Acting(c, w), Classify(c)
  PROVE  Keeps(c, w)
<1> DEFINE r == [rec[w] EXCEPT !.clean = "removing"]
<1>1. /\ Outside(w) /\ call[c].w = w /\ call[c].pc = "classify" /\ call[c].pc \in Cleaning
      /\ call[c].pc \in Removing
  BY OutsideIsWorld, ActingFacts DEF Classify, Acting, Cleaning, Removing
<1>2. Gone(rec[w]) BY <1>1, ActingFacts DEF Ordered
<1>3. CASE tree[w] = "absent" BY <1>1, <1>3, GoOnKeeps, RecordGrows DEF Classify
<1>4. CASE tree[w] = "kept" /\ r.removes < MaxTries
  <2> DEFINE n == [r EXCEPT !.removes = @ + 1]
  <2>1. Grown(w, n) BY <1>1, <1>4, RecordGrows
  <2>2. Gone(n) BY <1>2, <2>1 DEF Gone, Grown
  <2>3. Ask(c, n, "remove") BY <1>1, <1>4 DEF Classify
  <2> HIDE DEF n
  <2> QED BY <1>1, <2>1, <2>2, <2>3, AskKeeps
<1>5. CASE tree[w] # "absent" /\ ~(tree[w] = "kept" /\ r.removes < MaxTries)
  BY <1>1, <1>5, BlockKeeps DEF Classify
<1> QED BY <1>3, <1>4, <1>5

LEMMA RemoveEndKeeps ==
  ASSUME NEW c \in Slots, NEW w, Acting(c, w), RemoveEnd(c)
  PROVE  Keeps(c, w)
<1> DEFINE again == ~call[c].ok /\ tree[w] = "kept" /\ rec[w].removes < MaxTries
<1>1. Outside(w) /\ call[c].w = w /\ call[c].pc \in Cleaning
  BY OutsideIsWorld, ActingFacts DEF RemoveEnd, Acting, Cleaning, Removing
<1>2. CASE tree[w] = "absent"
  <2>1. GoOn(c, [rec[w] EXCEPT !.removed = TRUE]) BY <1>1, <1>2 DEF RemoveEnd
  <2>2. Grown(w, [rec[w] EXCEPT !.removed = TRUE])
    <3>1. Grown(w, rec[w]) BY <1>1, RecordGrows
    <3> QED BY <3>1 DEF Grown, Rec
  <2> QED BY <1>1, <2>1, <2>2, GoOnKeeps
<1>3. CASE tree[w] # "absent" /\ again BY <1>1, <1>3, GoOnKeeps, RecordGrows DEF RemoveEnd
<1>4. CASE tree[w] # "absent" /\ ~again BY <1>1, <1>4, BlockKeeps DEF RemoveEnd
<1> QED BY <1>2, <1>3, <1>4

LEMMA FinalKeeps ==
  ASSUME NEW c \in Slots, NEW w, Acting(c, w), Final(c)
  PROVE  Keeps(c, w)
<1> DEFINE n == [rec[w] EXCEPT !.clean = "absent"]
<1>1. /\ Outside(w) /\ call[c].w = w /\ session' = session /\ w \in Workers
      /\ call[c].pc \in Cleaning
  BY OutsideIsWorld, ActingFacts DEF Final, Acting, world, Cleaning, Removing
<1>2. CASE LeftNothing(w)
  <2>1. rec' = [rec EXCEPT ![w] = n] /\ End(c) BY <1>1, <1>2 DEF Final
  <2>2. Grown(w, n) BY <1>1, <1>2, RecordGrows DEF LeftNothing, SessionAbsent
  <2> HIDE DEF n
  <2>3. rec' \in [Workers -> Rec] /\ rec'[w] = n /\ \A v \in Workers \ {w} : rec'[v] = rec[v]
    BY <1>1, <2>1, <2>2, ActingFacts DEF Grown
  <2> QED BY <1>1, <2>1, <2>2, <2>3, EndKeeps
<1>3. CASE ~LeftNothing(w) BY <1>1, <1>3, BlockKeeps DEF Final
<1> QED BY <1>2, <1>3

-----------------------------------------------------------------------------
(* The steps of an integration.                                            *)

(* A decision: the integration and its attempts, and nothing else.         *)
Decides(w, n, integ) ==
  /\ n \in Rec /\ n.integ = integ /\ n.tries >= rec[w].tries
  /\ n.op = rec[w].op /\ n.clean = rec[w].clean
  /\ n.closed = rec[w].closed /\ n.deleted = rec[w].deleted

LEMMA IntegMoves ==
  ASSUME NEW w \in Workers, rec[w] \in Rec, NEW integ \in Integrations
  PROVE  LET n == [rec[w] EXCEPT !.integ = integ] IN
         Decides(w, n, integ) /\ n.tries = rec[w].tries
<1> DEFINE n == [rec[w] EXCEPT !.integ = integ]
<1>1. n \in Rec BY DEF Rec
<1>2. /\ n.integ = integ /\ n.tries = rec[w].tries /\ n.op = rec[w].op /\ n.clean = rec[w].clean
      /\ n.closed = rec[w].closed /\ n.deleted = rec[w].deleted
  BY DEF Rec
<1>3. rec[w].tries \in Nat BY DEF Rec, MaxTries
<1> HIDE DEF n
<1>4. n.tries >= rec[w].tries BY <1>2, <1>3
<1> QED BY <1>1, <1>2, <1>4 DEF Decides, n

(* One that ends the call.                                                 *)
LEMMA DecideEnds ==
  ASSUME NEW c \in Slots, NEW w, Acting(c, w), call[c].op = "integrate",
         NEW integ \in {"verified", "blocked"}, rec' = [rec EXCEPT ![w].integ = integ], End(c),
         UNCHANGED <<ctl, world>>
  PROVE  Keeps(c, w)
<1> DEFINE n == [rec[w] EXCEPT !.integ = integ]
<1>1. /\ w \in Workers /\ rec[w] \in Rec /\ rec \in [Workers -> Rec] /\ call[c].w = w
      /\ Permitted(c)
  BY ActingFacts DEF Acting
<1>2. Decides(w, n, integ) /\ n.tries = rec[w].tries BY <1>1, IntegMoves DEF Integrations
<1>3. rec' = [rec EXCEPT ![w] = n] OBVIOUS
<1> HIDE DEF n
<1>4. rec' \in [Workers -> Rec] /\ rec'[w] = n /\ \A v \in Workers \ {w} : rec'[v] = rec[v]
  BY <1>1, <1>2, <1>3 DEF Decides
<1>5. TypeInv' BY <1>4, EndMoves DEF Acting, TypeInv, world
<1>6. Own(c)
  <2>1. /\ \A d \in Slots \ {c} :
             /\ call'[d] = call[d]
             /\ parentLease = d => parentLease' = d
             /\ \A v \in Workers : cleanLease[v] = d => cleanLease'[v] = d
    BY EndMoves DEF Acting
  <2>2. /\ rec[w].tries > 0 => rec'[w].tries > 0
        /\ rec[w].closed => rec'[w].closed
        /\ rec[w].deleted => rec'[w].deleted
        /\ rec[w].op # "none" => rec'[w].op # "none"
    BY <1>2, <1>4 DEF Decides
  <2> QED BY <1>1, <1>4, <2>1, <2>2 DEF Own, Acting, world
<1>7. CallInv(c)' BY EndMoves DEF Acting, CallInv, Active, Idle
<1>8. WorkerInv(w)'
  <2>1. status[w] = "completed" /\ rec[w].integ # "verified" BY <1>1 DEF Permitted
  <2>2. /\ rec'[w].integ = integ /\ rec'[w].tries = rec[w].tries /\ rec'[w].op = rec[w].op
        /\ rec'[w].clean = rec[w].clean /\ rec'[w].deleted = rec[w].deleted
    BY <1>2, <1>4 DEF Decides
  <2>3. WorkerInv(w) /\ status' = status /\ session' = session /\ tree' = tree
    BY DEF Acting, world
  <2> QED BY <2>1, <2>2, <2>3 DEF WorkerInv
<1> QED BY <1>5, <1>6, <1>7, <1>8 DEF Keeps

(* One that leaves the record as it is.                                    *)
LEMMA NothingDecided ==
  ASSUME NEW c \in Slots, NEW w, Acting(c, w), rec' = rec, End(c), UNCHANGED <<ctl, world>>
  PROVE  Keeps(c, w)
<1>1. Outside(w) BY OutsideIsWorld, ActingFacts DEF Acting
<1>2. Grown(w, rec[w]) BY <1>1, ActingFacts DEF Acting, WorkerInv, Grown, Outside
<1> QED BY <1>1, <1>2, EndKeeps, ActingFacts

LEMMA PlanIntegrationKeeps ==
  ASSUME NEW c \in Slots, NEW w, Acting(c, w), PlanIntegration(c)
  PROVE  Keeps(c, w)
<1>1. /\ w \in Workers /\ call[c] \in Call /\ rec[w] \in Rec /\ call[c].w = w
      /\ Placed(c) /\ Leased(c) /\ Permitted(c) /\ Ordered(c)
      /\ call \in [Slots -> Call] /\ rec \in [Workers -> Rec]
      /\ call[c].op = "integrate" /\ call[c].pc = "plan"
  BY ActingFacts DEF Acting, PlanIntegration
<1>2. CASE call[c].obs = "drift" BY <1>1, <1>2, DecideEnds DEF PlanIntegration
<1>3. CASE call[c].obs # "drift"
  <2> DEFINE n == [rec[w] EXCEPT !.integ = "planned"]
             k == [call[c] EXCEPT !.pc = "observe", !.obs = "none"]
  <2>1. Decides(w, n, "planned") /\ n.tries = rec[w].tries
    BY <1>1, IntegMoves DEF Integrations
  <2>2. k \in Call /\ k.pc = "observe" /\ k.obs = "none" /\ k.w = w /\ k.op = "integrate"
    BY <1>1 DEF Call, Pcs, Integrating
  <2>3. rec' = [rec EXCEPT ![w] = n] /\ call' = [call EXCEPT ![c] = k]
    BY <1>1, <1>3 DEF PlanIntegration
  <2>4. UNCHANGED <<ctl, leases, world>> BY <1>1, <1>3 DEF PlanIntegration
  <2> HIDE DEF n, k
  <2>5. /\ rec' \in [Workers -> Rec] /\ rec'[w] = n /\ \A v \in Workers \ {w} : rec'[v] = rec[v]
        /\ call' \in [Slots -> Call] /\ call'[c] = k /\ \A d \in Slots \ {c} : call'[d] = call[d]
    BY <1>1, <2>1, <2>2, <2>3 DEF Decides
  <2>6. rec[w].tries = 0 /\ status[w] = "completed" BY <1>1 DEF Permitted
  <2>7. TypeInv' BY <2>4, <2>5 DEF Acting, TypeInv, world, leases
  <2>8. Own(c) BY <1>1, <2>1, <2>4, <2>5 DEF Own, Acting, Decides, world, leases
  <2>9. Placed(c)' BY <1>1, <2>2, <2>5 DEF Placed, Cleaning, Deleting, Removing, Effecting
  <2>10. Leased(c)' BY <1>1, <2>2, <2>4, <2>5 DEF Leased, leases
  <2>11. Permitted(c)' BY <1>1, <2>1, <2>2, <2>4, <2>5, <2>6
    DEF Permitted, Decides, world, Effecting
  <2>12. Ordered(c)' BY <2>2, <2>5 DEF Ordered, Deleting, Removing, Effecting
  <2>13. WorkerInv(w)'
    <3>1. rec[w].integ # "verified" BY <1>1 DEF Permitted
    <3> QED BY <2>1, <2>4, <2>5, <2>6, <3>1 DEF WorkerInv, Acting, Decides, world
  <2> QED BY <2>7, <2>8, <2>9, <2>10, <2>11, <2>12, <2>13 DEF Keeps, CallInv
<1> QED BY <1>2, <1>3

(* What is seen in the parent as this writer's change was tried.           *)
LEMMA ObserveKeeps ==
  ASSUME NEW c \in Slots, NEW w, Acting(c, w), ParentInv, Observe(c)
  PROVE  Keeps(c, w)
<1> DEFINE k == [call[c] EXCEPT !.pc = "decide", !.obs = Observed(w)]
<1>1. /\ w \in Workers /\ call[c] \in Call /\ rec[w] \in Rec /\ call[c].w = w
      /\ Placed(c) /\ Leased(c) /\ Permitted(c) /\ Ordered(c)
      /\ call \in [Slots -> Call] /\ rec \in [Workers -> Rec]
      /\ call[c].op = "integrate" /\ call[c].pc = "observe"
  BY ActingFacts DEF Acting, Observe, Placed, Integrating
<1>2. /\ Observed(w) \in {"unchanged", "exact", "drift"}
      /\ Observed(w) = "exact" => rec[w].tries > 0
  BY <1>1 DEF Observed, ParentInv
<1>3. /\ k \in Call /\ k.pc = "decide" /\ k.obs = Observed(w) /\ k.w = w /\ k.op = "integrate"
  BY <1>1, <1>2 DEF Call, Pcs, Integrating
<1>4. call' = [call EXCEPT ![c] = k] /\ UNCHANGED <<rec, ctl, leases, world>> BY <1>1 DEF Observe
<1> HIDE DEF k
<1>5. call' \in [Slots -> Call] /\ call'[c] = k /\ \A d \in Slots \ {c} : call'[d] = call[d]
  BY <1>1, <1>3, <1>4
<1>6. TypeInv' BY <1>4, <1>5 DEF Acting, TypeInv, world, leases
<1>7. Own(c) BY <1>1, <1>4, <1>5 DEF Own, Acting, world, leases
<1>8. Placed(c)' BY <1>1, <1>3, <1>5 DEF Placed, Cleaning, Deleting, Removing, Effecting
<1>9. Leased(c)' BY <1>1, <1>3, <1>4, <1>5 DEF Leased, leases
<1>10. Permitted(c)' BY <1>1, <1>2, <1>3, <1>4, <1>5 DEF Permitted, world, Effecting
<1>11. Ordered(c)' BY <1>3, <1>5 DEF Ordered, Deleting, Removing, Effecting
<1>12. WorkerInv(w)' BY <1>4 DEF WorkerInv, Acting, world
<1> QED BY <1>6, <1>7, <1>8, <1>9, <1>10, <1>11, <1>12 DEF Keeps, CallInv

LEMMA DecideKeeps ==
  ASSUME NEW c \in Slots, NEW w, Acting(c, w), Decide(c)
  PROVE  Keeps(c, w)
<1> DEFINE obs == call[c].obs
           again == obs = "unchanged" /\ call[c].stage # "post"
<1>1. /\ w \in Workers /\ call[c] \in Call /\ rec[w] \in Rec /\ call[c].w = w
      /\ Placed(c) /\ Leased(c) /\ Permitted(c) /\ Ordered(c)
      /\ call \in [Slots -> Call] /\ rec \in [Workers -> Rec]
      /\ call[c].op = "integrate" /\ call[c].pc = "decide"
  BY ActingFacts DEF Acting, Decide, Placed, Integrating
<1>2. UNCHANGED <<ctl, world>> BY DEF Decide
<1>3. CASE /\ obs = "exact" /\ End(c)
           /\ rec' = IF Pending(w) THEN [rec EXCEPT ![w].integ = "verified"] ELSE rec
  <2>1. CASE Pending(w) BY <1>1, <1>2, <1>3, <2>1, DecideEnds
  <2>2. CASE ~Pending(w) BY <1>1, <1>2, <1>3, <2>2, NothingDecided
  <2> QED BY <2>1, <2>2
<1>4. CASE /\ again /\ Pending(w) /\ rec[w].tries < MaxTries
           /\ rec' = [rec EXCEPT ![w].integ = "applying", ![w].tries = @ + 1]
           /\ call' = [call EXCEPT ![c] = [Idle EXCEPT !.w = w, !.op = "integrate",
                !.pc = "prepare", !.eff = "apply"]]
           /\ UNCHANGED leases
  <2> DEFINE n == [rec[w] EXCEPT !.integ = "applying", !.tries = @ + 1]
             k == [Idle EXCEPT !.w = w, !.op = "integrate", !.pc = "prepare", !.eff = "apply"]
  <2>1. Decides(w, n, "applying") /\ n.tries > 0
    <3>1. rec[w].tries \in Nat /\ rec[w].tries + 1 \in 0 .. MaxTries
      BY <1>1, <1>4 DEF Rec, MaxTries
    <3>2. n \in Rec BY <1>1, <3>1 DEF Rec, Integrations
    <3>3. /\ n.integ = "applying" /\ n.tries = rec[w].tries + 1 /\ n.op = rec[w].op
          /\ n.clean = rec[w].clean /\ n.closed = rec[w].closed /\ n.deleted = rec[w].deleted
      BY <1>1 DEF Rec
    <3> HIDE DEF n
    <3> QED BY <3>1, <3>2, <3>3 DEF Decides
  <2>2. /\ k \in Call /\ k.pc = "prepare" /\ k.obs = "none" /\ k.w = w /\ k.op = "integrate"
        /\ k.eff = "apply"
    BY <1>1 DEF Idle, Call, Pcs, Effecting, Effects, Operations
  <2>3. rec' = [rec EXCEPT ![w] = n]
    BY <1>1, <1>4
  <2>4. call' = [call EXCEPT ![c] = k] BY <1>4
  <2> HIDE DEF n, k
  <2>5. /\ rec' \in [Workers -> Rec] /\ rec'[w] = n /\ \A v \in Workers \ {w} : rec'[v] = rec[v]
        /\ call' \in [Slots -> Call] /\ call'[c] = k /\ \A d \in Slots \ {c} : call'[d] = call[d]
    BY <1>1, <2>1, <2>2, <2>3, <2>4 DEF Decides
  <2>6. status[w] = "completed" /\ rec[w].integ # "verified" /\ rec[w].op # "abandon"
    BY <1>1, <1>4 DEF Permitted, Pending
  <2>7. TypeInv' BY <1>2, <1>4, <2>5 DEF Acting, TypeInv, world, leases
  <2>8. Own(c) BY <1>1, <1>2, <1>4, <2>1, <2>5 DEF Own, Acting, Decides, world, leases
  <2>9. Placed(c)' BY <1>1, <2>2, <2>5 DEF Placed, Cleaning, Deleting, Removing, Integrating
  <2>10. Leased(c)' BY <1>1, <1>4, <2>2, <2>5 DEF Leased, leases
  <2>11. Permitted(c)' BY <1>2, <2>1, <2>2, <2>5, <2>6 DEF Permitted, Decides, world
  <2>12. Ordered(c)' BY <2>2, <2>5 DEF Ordered, Deleting, Removing
  <2>13. WorkerInv(w)' BY <1>2, <2>1, <2>5, <2>6 DEF WorkerInv, Acting, Decides, world
  <2> QED BY <2>7, <2>8, <2>9, <2>10, <2>11, <2>12, <2>13 DEF Keeps, CallInv
<1>5. CASE /\ again /\ call[c].stage = "pre" /\ (~Pending(w) \/ rec[w].tries = MaxTries)
           /\ End(c) /\ UNCHANGED rec
  BY <1>2, <1>5, NothingDecided
<1>6. CASE rec' = [rec EXCEPT ![w].integ = "blocked"] /\ End(c)
  BY <1>1, <1>2, <1>6, DecideEnds
<1> QED BY <1>1, <1>3, <1>4, <1>5, <1>6 DEF Decide

-----------------------------------------------------------------------------
(* The steps of an effect.                                                 *)

LEMMA EffectFacts ==
  ASSUME NEW c \in Slots, NEW w, Acting(c, w), call[c].pc \in Effecting
  PROVE  /\ call[c].w = w /\ call[c].eff \in Effects /\ call[c].pc # "plan"
         /\ call[c].op = "integrate" => call[c].eff = "apply" /\ rec[w].tries > 0
         /\ call[c].op # "integrate" =>
              call[c].eff \in {"close", "remove"} /\ rec[w].op = call[c].op
         /\ call[c].eff = "remove" => Gone(rec[w])
BY ActingFacts DEF Acting, Placed, Permitted, Ordered, Effects, Effecting

(* A step that stays with the effect, and one that goes on after it, with  *)
(* no more than its intent recorded.                                       *)
LEMMA EffectKeeps ==
  ASSUME NEW c \in Slots, NEW w, Acting(c, w), call[c].pc \in Effecting,
         UNCHANGED <<leases, world>>, ctl' \in [Slots -> Ctl],
         rec' \in [Workers -> Rec], \A v \in Workers \ {w} : rec'[v] = rec[v],
         Same(rec[w], rec'[w]), rec'[w].clean = rec[w].clean,
         call' \in [Slots -> Call], \A d \in Slots \ {c} : call'[d] = call[d],
         call'[c].w = w, call'[c].op = call[c].op,
         \/ call'[c].pc \in Effecting /\ call'[c].eff = call[c].eff
         \/ /\ call'[c].pc = (IF call[c].eff = "apply" THEN "observe"
                              ELSE IF call[c].eff = "close" THEN "closeEnd" ELSE "removeEnd")
            /\ call'[c].obs = "none"
  PROVE  Keeps(c, w)
<1>1. /\ w \in Workers /\ call[c].w = w /\ Placed(c) /\ Leased(c) /\ Permitted(c) /\ Ordered(c)
      /\ call[c].eff \in Effects
  BY ActingFacts, EffectFacts DEF Acting
<1>2. TypeInv' BY DEF Acting, TypeInv, world, leases
<1>3. Own(c) BY <1>1 DEF Own, Acting, Same, world, leases
<1>4. Leased(c)' BY <1>1 DEF Leased, leases
<1>5. WorkerInv(w)' BY DEF WorkerInv, Acting, Same, world
<1>6. CASE call'[c].pc \in Effecting /\ call'[c].eff = call[c].eff
  <2>1. Placed(c)' BY <1>1, <1>6 DEF Placed, Integrating, Cleaning, Deleting, Removing, Effecting
  <2>2. Permitted(c)' BY <1>1, <1>6, EffectFacts DEF Permitted, Same, world, Effecting
  <2>3. Ordered(c)' BY <1>1, <1>6, EffectFacts
    DEF Ordered, Same, Gone, Deleting, Removing, Effecting
  <2> QED BY <1>2, <1>3, <1>4, <1>5, <2>1, <2>2, <2>3 DEF Keeps, CallInv
<1>7. CASE /\ call'[c].pc = (IF call[c].eff = "apply" THEN "observe"
                              ELSE IF call[c].eff = "close" THEN "closeEnd" ELSE "removeEnd")
           /\ call'[c].obs = "none"
  <2>1. Placed(c)'
    BY <1>1, <1>7, EffectFacts DEF Placed, Integrating, Cleaning, Deleting, Removing, Effecting
  <2>2. Permitted(c)' BY <1>1, <1>7, EffectFacts DEF Permitted, Same, world, Effecting
  <2>3. Ordered(c)'
    BY <1>1, <1>7, EffectFacts DEF Ordered, Same, Gone, Deleting, Removing, Effecting, Effects
  <2> QED BY <1>2, <1>3, <1>4, <1>5, <2>1, <2>2, <2>3 DEF Keeps, CallInv
<1> QED BY <1>6, <1>7

LEMMA PrepareKeeps ==
  ASSUME NEW c \in Slots, NEW w, Acting(c, w), Prepare(c)
  PROVE  Keeps(c, w)
<1>1. /\ w \in Workers /\ call[c] \in Call /\ rec \in [Workers -> Rec] /\ call \in [Slots -> Call]
      /\ call[c].w = w /\ call[c].eff \in Effects /\ call[c].pc \in Effecting
      /\ ctl \in [Slots -> Ctl] /\ TypeInv
      /\ UNCHANGED <<leases, world>>
  BY ActingFacts, EffectFacts DEF Acting, Prepare, Effecting, TypeInv
<1>2. CASE /\ Intent(c, "open")
           /\ ctl' = [ctl EXCEPT ![c] = [w |-> call[c].w, eff |-> call[c].eff, st |-> "told"]]
           /\ call' = [call EXCEPT ![c].pc = "answer"]
  <2>1. [w |-> call[c].w, eff |-> call[c].eff, st |-> "told"] \in Ctl BY <1>1 DEF Ctl
  <2>2. ctl' \in [Slots -> Ctl] BY <1>1, <1>2, <2>1
  <2>3. [call[c] EXCEPT !.pc = "answer"] \in Call BY <1>1 DEF Call, Pcs, Effecting
  <2>4. /\ call' \in [Slots -> Call] /\ \A d \in Slots \ {c} : call'[d] = call[d]
        /\ call'[c].w = w /\ call'[c].op = call[c].op
        /\ call'[c].pc \in Effecting /\ call'[c].eff = call[c].eff
    BY <1>1, <1>2, <2>3 DEF Call, Effecting
  <2> QED BY <1>1, <1>2, <2>2, <2>4, IntentMoves, EffectKeeps
<1>3. CASE Intent(c, "open") /\ call' = [call EXCEPT ![c].pc = "teardown"] /\ UNCHANGED ctl
  <2>1. [call[c] EXCEPT !.pc = "teardown"] \in Call BY <1>1 DEF Call, Pcs, Effecting
  <2>2. /\ call' \in [Slots -> Call] /\ \A d \in Slots \ {c} : call'[d] = call[d]
        /\ call'[c].w = w /\ call'[c].op = call[c].op
        /\ call'[c].pc \in Effecting /\ call'[c].eff = call[c].eff
    BY <1>1, <1>3, <2>1 DEF Call, Effecting
  <2> QED BY <1>1, <1>3, <2>2, IntentMoves, EffectKeeps
<1>4. CASE After(c, FALSE) /\ UNCHANGED <<rec, ctl>>
  <2>1. Same(rec[w], rec[w]) BY DEF Same
  <2> QED BY <1>1, <1>4, <2>1, AfterMoves, EffectKeeps
<1> QED BY <1>2, <1>3, <1>4 DEF Prepare

LEMMA AnswerKeeps ==
  ASSUME NEW c \in Slots, NEW w, Acting(c, w), Answer(c)
  PROVE  Keeps(c, w)
<1>1. /\ w \in Workers /\ call[c] \in Call /\ rec \in [Workers -> Rec] /\ call \in [Slots -> Call]
      /\ call[c].w = w /\ call[c].pc \in Effecting /\ ctl \in [Slots -> Ctl]
      /\ UNCHANGED <<rec, ctl, leases, world>> /\ Same(rec[w], rec[w])
  BY ActingFacts, EffectFacts DEF Acting, Answer, Effecting, TypeInv, Same
<1>2. PICK ok \in BOOLEAN : call' = [call EXCEPT ![c].pc = "teardown", ![c].ok = ok]
  BY DEF Answer
<1>3. [call[c] EXCEPT !.pc = "teardown", !.ok = ok] \in Call BY <1>1 DEF Call, Pcs, Effecting
<1>4. /\ call' \in [Slots -> Call] /\ \A d \in Slots \ {c} : call'[d] = call[d]
      /\ call'[c].w = w /\ call'[c].op = call[c].op
      /\ call'[c].pc \in Effecting /\ call'[c].eff = call[c].eff
  BY <1>1, <1>2, <1>3 DEF Call, Effecting
<1> QED BY <1>1, <1>4, EffectKeeps

LEMMA TeardownKeeps ==
  ASSUME NEW c \in Slots, NEW w, Acting(c, w), Teardown(c)
  PROVE  Keeps(c, w)
<1>1. /\ w \in Workers /\ call[c] \in Call /\ rec \in [Workers -> Rec] /\ call \in [Slots -> Call]
      /\ call[c].w = w /\ call[c].eff \in Effects /\ call[c].pc \in Effecting
      /\ ctl \in [Slots -> Ctl] /\ TypeInv /\ call[c].ok \in BOOLEAN
      /\ UNCHANGED <<leases, world>> /\ Same(rec[w], rec[w])
  BY ActingFacts, EffectFacts DEF Acting, Teardown, Effecting, TypeInv, Same, Call
<1>2. CASE /\ ctl' = [ctl EXCEPT ![c] = NoCtl]
           /\ Intent(c, "settled") /\ After(c, call[c].ok)
  <2>1. NoCtl \in Ctl BY DEF NoCtl, Ctl
  <2>2. ctl' \in [Slots -> Ctl] BY <1>1, <1>2, <2>1
  <2> QED BY <1>1, <1>2, <2>2, AfterMoves, IntentMoves, EffectKeeps
<1>3. CASE After(c, FALSE) /\ UNCHANGED <<rec, ctl>>
  BY <1>1, <1>3, AfterMoves, EffectKeeps
<1> QED BY <1>2, <1>3 DEF Teardown

-----------------------------------------------------------------------------
(* A step of a call is one of these, or its end.                           *)

LEMMA CallStepKeeps ==
  ASSUME NEW c \in Slots, NEW w, Acting(c, w), ParentInv, CallStep(c)
  PROVE  Keeps(c, w)
<1>1. CASE GiveUp(c) \/ Die(c) BY <1>1, NothingDecided DEF GiveUp, Die
<1>2. CASE Runs(c)
  BY <1>2, PlanCleanupKeeps, PlanIntegrationKeeps, ObserveKeeps, DecideKeeps, PrepareKeeps,
     AnswerKeeps, TeardownKeeps, CloseKeeps, CloseEndKeeps, InspectKeeps, DeleteEndKeeps,
     ClassifyKeeps, RemoveEndKeeps, FinalKeeps
  DEF Runs
<1> QED BY <1>1, <1>2 DEF CallStep

(* Only an active call takes a step.                                       *)
LEMMA CallStepIsActive ==
  ASSUME NEW c \in Slots, CallStep(c)
  PROVE  Active(c)
BY DEF CallStep, Runs, PlanCleanup, PlanIntegration, Observe, Decide, Prepare, Answer, Teardown,
       Close, CloseEnd, Inspect, DeleteEnd, Classify, RemoveEnd, Final, GiveUp, Die, Active

(* What a controller needs of the record stays there.                      *)
LEMMA CtlStays ==
  ASSUME TypeInv, NEW c \in Slots, Own(c), call[c].w \in Workers,
         NEW d \in Slots, CtlInv(d), ctl'[d] = ctl[d]
  PROVE  CtlInv(d)'
<1> SUFFICES ASSUME ctl[d].st = "told"
             PROVE  /\ ctl[d].w \in Workers
                    /\ ctl[d].eff = "apply" => rec'[ctl[d].w].tries > 0
                    /\ ctl[d].eff = "remove" => Gone(rec'[ctl[d].w]) /\ rec'[ctl[d].w].op # "none"
  BY DEF CtlInv
<1>1. CASE ctl[d].w = call[c].w BY <1>1 DEF CtlInv, Own, Gone
<1>2. CASE ctl[d].w # call[c].w BY <1>2 DEF CtlInv, Own, Gone
<1> QED BY <1>1, <1>2

LEMMA CtlStep ==
  ASSUME NEW c \in Slots, NEW w, Acting(c, w), CallStep(c), Own(c), \A d \in Slots : CtlInv(d),
         TypeInv'
  PROVE  \A d \in Slots : CtlInv(d)'
<1>1. /\ w \in Workers /\ call[c].w = w /\ ctl \in [Slots -> Ctl] /\ TypeInv
  BY ActingFacts DEF Acting, TypeInv
<1>2. CASE ctl' = ctl BY <1>1, <1>2, CtlStays
<1>3. CASE ctl' = [ctl EXCEPT ![c] = NoCtl]
  <2>1. CtlInv(c)' BY <1>1, <1>3 DEF CtlInv, NoCtl
  <2> QED BY <1>1, <1>3, <2>1, CtlStays
<1>4. CASE /\ call[c].pc = "prepare" /\ Intent(c, "open")
           /\ ctl' = [ctl EXCEPT ![c] = [w |-> call[c].w, eff |-> call[c].eff, st |-> "told"]]
  <2>1. call[c].pc \in Effecting BY <1>4 DEF Effecting
  <2>2. Same(rec[w], rec'[w]) BY <1>1, <1>4, <2>1, EffectFacts, IntentMoves
  <2>3. rec[w].op = call[c].op \/ call[c].op = "integrate" BY <2>1, EffectFacts
  <2>4. /\ ctl'[c].w = w /\ ctl'[c].eff = call[c].eff /\ \A d \in Slots \ {c} : ctl'[d] = ctl[d]
    BY <1>1, <1>4
  <2>5. CtlInv(c)'
    <3>1. call[c].eff = "apply" => rec[w].tries > 0 BY <2>1, EffectFacts DEF Effects
    <3>2. call[c].eff = "remove" => Gone(rec[w]) /\ rec[w].op # "none"
      <4>1. call[c].op \in Operations BY ActingFacts DEF Placed
      <4> QED BY <2>1, <4>1, EffectFacts DEF Operations
    <3> QED BY <1>1, <2>2, <2>4, <3>1, <3>2 DEF CtlInv, Same, Gone
  <2> QED BY <1>1, <2>4, <2>5, CtlStays
<1> QED
  BY <1>2, <1>3, <1>4
  DEF CallStep, Runs, PlanCleanup, PlanIntegration, Observe, Decide, Prepare, Answer, Teardown,
      Close, CloseEnd, Inspect, DeleteEnd, Classify, RemoveEnd, Final, GiveUp, Die

-----------------------------------------------------------------------------
(* The steps of everybody else.                                            *)

(* What calls and records need is left alone.                              *)
LEMMA CallsStay ==
  ASSUME NEW c \in Slots, CallInv(c), UNCHANGED <<rec, call, leases, status>>
  PROVE  CallInv(c)'
BY DEF CallInv, Active, Placed, Leased, Permitted, Ordered, Gone, leases

LEMMA EditStep ==
  ASSUME WriterLifecycleAssumption, Inv, Edit
  PROVE  Inv'
<1>1. TypeInv' BY DEF Inv, TypeInv, Edit, leases
<1>2. \A c \in Slots : (CallInv(c) /\ CtlInv(c))'
  BY CallsStay DEF Inv, Edit, CtlInv
<1>3. \A w \in Workers : WorkerInv(w)' BY DEF Inv, Edit, WorkerInv
<1>4. ParentInv' BY NoneIsNoSlot DEF Edit, ParentInv
<1> QED BY <1>1, <1>2, <1>3, <1>4 DEF Inv

LEMMA OrphanStep ==
  ASSUME Inv, NEW c \in Slots, OrphanEnds(c)
  PROVE  Inv'
<1>1. TypeInv'
  <2>1. NoCtl \in Ctl BY DEF NoCtl, Ctl
  <2> QED BY <2>1 DEF Inv, TypeInv, OrphanEnds, leases, world
<1>2. \A d \in Slots : CtlInv(d)' BY DEF Inv, TypeInv, OrphanEnds, CtlInv, NoCtl
<1>3. \A d \in Slots : CallInv(d)' BY CallsStay DEF Inv, OrphanEnds, world
<1>4. (\A w \in Workers : WorkerInv(w)') /\ ParentInv'
  BY DEF Inv, OrphanEnds, WorkerInv, ParentInv, world
<1> QED BY <1>1, <1>2, <1>3, <1>4 DEF Inv

(* What a controller does at last: its change was tried, a session that is *)
(* deleted stays so, and so does a worktree that is absent.                *)
LEMMA WorksStep ==
  ASSUME Inv, NEW c \in Slots, Works(c)
  PROVE  Inv'
<1> DEFINE w == ctl[c].w
<1>1. /\ TypeInv /\ w \in Workers /\ CtlInv(c) /\ ctl[c].st = "told" /\ ctl[c] \in Ctl
      /\ UNCHANGED <<status, rec, leases, call, faults>>
  BY DEF Inv, TypeInv, Works, CtlInv
<1>2. /\ ctl' \in [Slots -> Ctl]
      /\ \A d \in Slots : ctl'[d] = ctl[d] \/ ctl'[d].st = "done"
  <2> DEFINE done == [ctl[c] EXCEPT !.st = "done"]
  <2>1. done \in Ctl /\ done.st = "done" BY <1>1 DEF Ctl
  <2>2. ctl' = ctl \/ ctl' = [ctl EXCEPT ![c] = done] BY <1>1 DEF Works
  <2>3. ctl \in [Slots -> Ctl] BY <1>1 DEF TypeInv
  <2> HIDE DEF done
  <2> QED BY <2>1, <2>2, <2>3
<1>3. /\ parent' = parent \/ (parent' = w /\ ctl[c].eff = "apply")
      /\ \/ session' = session
         \/ session' = [session EXCEPT ![w] = "closed"] /\ session[w] # "deleted"
      /\ \/ tree' = tree
         \/ \E t \in {"partial", "absent"} : tree' = [tree EXCEPT ![w] = t] /\ tree[w] # "absent"
  BY DEF Works
<1>4. TypeInv' BY <1>1, <1>2, <1>3 DEF TypeInv, leases
<1>5. \A d \in Slots : CallInv(d)' BY <1>1, CallsStay DEF Inv
<1>6. \A d \in Slots : CtlInv(d)' BY <1>1, <1>2 DEF Inv, CtlInv, Gone
<1>7. ASSUME NEW v \in Workers PROVE WorkerInv(v)'
  <2>1. /\ session[v] = "deleted" => session'[v] = "deleted"
        /\ tree[v] = "absent" => tree'[v] = "absent"
    BY <1>1, <1>3 DEF TypeInv
  <2> QED BY <1>1, <2>1 DEF Inv, WorkerInv
<1>8. ParentInv' BY <1>1, <1>3 DEF Inv, ParentInv, CtlInv
<1> QED BY <1>4, <1>5, <1>6, <1>7, <1>8 DEF Inv

(* A call begins: what it was allowed on is what the invariant asks of it. *)
LEMMA StartStep ==
  ASSUME WriterLifecycleAssumption, Inv, NEW w \in Workers, NEW op \in Operations, Start(w, op)
  PROVE  Inv'
<1>2. PICK c \in Slots : c = (CHOOSE s \in Free : TRUE) /\ call[c].pc = "idle"
  <2>1. (CHOOSE s \in Free : TRUE) \in Free BY DEF Start
  <2> QED BY <2>1 DEF Free
<1> DEFINE new == rec[w].clean = "none" /\ (op = "integrate" => rec[w].integ = "none")
           k == [Idle EXCEPT !.w = w, !.op = op,
                  !.obs = IF op = "integrate" /\ new THEN Observed(w) ELSE "none",
                  !.stage = IF op = "integrate" THEN "pre" ELSE "none",
                  !.pc = IF new THEN "plan" ELSE IF op = "integrate" THEN "observe"
                         ELSE NextPhase(rec[w])]
<1>1. /\ TypeInv /\ rec[w] \in Rec /\ WorkerInv(w) /\ ParentInv /\ Allowed(w, op)
      /\ UNCHANGED <<rec, ctl, world>>
  BY DEF Inv, TypeInv, Start
<1>3. /\ call' = [call EXCEPT ![c] = k]
      /\ parentLease' = IF op \in {"integrate", "abandon"} THEN c ELSE parentLease
      /\ cleanLease' = IF op = "integrate" THEN cleanLease ELSE [cleanLease EXCEPT ![w] = c]
  BY <1>2 DEF Start
<1>4. Observed(w) \in {"unchanged", "exact", "drift"} /\ (Observed(w) = "exact" => rec[w].tries > 0)
  BY <1>1 DEF Observed, ParentInv
<1>5. /\ k \in Call /\ k.w = w /\ k.op = op /\ k.eff = "none"
      /\ k.obs = "exact" => op = "integrate" /\ rec[w].tries > 0
      /\ k.pc = (IF new THEN "plan" ELSE IF op = "integrate" THEN "observe" ELSE NextPhase(rec[w]))
  <2> DEFINE obs == IF op = "integrate" /\ new THEN Observed(w) ELSE "none"
             stage == IF op = "integrate" THEN "pre" ELSE "none"
             pc == IF new THEN "plan" ELSE IF op = "integrate" THEN "observe" ELSE NextPhase(rec[w])
  <2>1. /\ obs \in {"none", "unchanged", "exact", "drift"} /\ stage \in {"none", "pre"}
        /\ obs = "exact" => op = "integrate" /\ rec[w].tries > 0
    BY <1>4
  <2>2. pc \in Pcs BY <1>1, PhaseMoves DEF Pcs, Integrating
  <2>3. k = [Idle EXCEPT !.w = w, !.op = op, !.obs = obs, !.stage = stage, !.pc = pc] OBVIOUS
  <2> HIDE DEF obs, stage, pc, k
  <2>4. k \in Call /\ k.w = w /\ k.op = op /\ k.eff = "none" /\ k.obs = obs /\ k.pc = pc
    BY <2>1, <2>2, <2>3 DEF Idle, Call
  <2> QED BY <2>1, <2>4 DEF pc
<1> HIDE DEF k
<1>6. /\ call' \in [Slots -> Call] /\ call'[c] = k /\ \A d \in Slots \ {c} : call'[d] = call[d]
      /\ parentLease' \in Slots \cup {None} /\ cleanLease' \in [Workers -> Slots \cup {None}]
  BY <1>1, <1>3, <1>5 DEF TypeInv
<1>7. TypeInv' BY <1>1, <1>6 DEF TypeInv, world
<1>8. ASSUME NEW d \in Slots \ {c} PROVE CallInv(d)'
  <2> SUFFICES ASSUME Active(d) PROVE (Placed(d) /\ Leased(d) /\ Permitted(d) /\ Ordered(d))'
    BY <1>6 DEF CallInv, Active
  <2>1. call'[d] = call[d] /\ Placed(d) /\ Leased(d) /\ Permitted(d) /\ Ordered(d)
    BY <1>6 DEF Inv, CallInv
  <2>2. Leased(d)'
    <3>1. call[d].op \in {"integrate", "abandon"} => parentLease' = d
      <4>1. op \in {"integrate", "abandon"} => parentLease = None
        BY <1>1 DEF Allowed
      <4> QED BY <1>3, <2>1, <4>1, NoneIsNoSlot DEF Leased
    <3>2. call[d].op # "integrate" => cleanLease'[call[d].w] = d
      <4>1. op # "integrate" => cleanLease[w] = None BY <1>1 DEF Allowed
      <4> QED BY <1>1, <1>3, <2>1, <4>1, NoneIsNoSlot DEF Leased, TypeInv, Placed
    <3> QED BY <2>1, <3>1, <3>2 DEF Leased
  <2>3. Placed(d)' BY <2>1 DEF Placed
  <2>4. Permitted(d)' BY <1>1, <2>1 DEF Permitted, world
  <2>5. Ordered(d)' BY <1>1, <2>1 DEF Ordered, Gone
  <2> QED BY <2>2, <2>3, <2>4, <2>5
<1>9. CallInv(c)'
  <2>1. Leased(c)' BY <1>1, <1>3, <1>5, <1>6 DEF Leased, TypeInv
  <2>2. CASE op = "integrate"
    <3>1. /\ status[w] = "completed" /\ rec[w].integ \notin {"verified", "blocked"}
          /\ new => rec[w].tries = 0
      BY <1>1, <2>2 DEF Allowed, WorkerInv, Rec
    <3>2. k.pc \in {"plan", "observe"} BY <1>5, <2>2
    <3>3. Placed(c)'
      BY <1>5, <1>6, <2>2, <3>2 DEF Placed, Operations, Cleaning, Deleting, Removing, Effecting
    <3>4. Permitted(c)' BY <1>1, <1>5, <1>6, <2>2, <3>1, <3>2 DEF Permitted, world, Effecting
    <3>5. Ordered(c)' BY <1>6, <3>2 DEF Ordered, Deleting, Removing, Effecting
    <3> QED BY <2>1, <3>3, <3>4, <3>5 DEF CallInv
  <2>3. CASE op # "integrate"
    <3>1. /\ op = "cleanup" => rec[w].integ = "verified"
          /\ op = "abandon" => rec[w].tries = 0
          /\ op = "discard" => status[w] = "cancelled"
          /\ rec[w].op \in {"none", op}
      BY <1>1, <2>3 DEF Allowed, MayAbandon
    <3>2. k.pc = IF new THEN "plan" ELSE NextPhase(rec[w]) BY <1>5, <2>3
    <3>3. ~new => rec[w].op = op BY <1>1, <2>3, <3>1 DEF WorkerInv
    <3>4. /\ k.pc \notin Integrating \cup Effecting
          /\ k.pc = "plan" <=> new
          /\ k.pc \in Deleting => rec[w].closed
          /\ k.pc \in Removing => Gone(rec[w])
      BY <1>1, <3>2, PhaseMoves DEF Integrating, Effecting, Deleting, Removing
    <3>5. Placed(c)' BY <1>5, <1>6, <2>3, <3>4 DEF Placed
    <3>6. Permitted(c)' BY <1>1, <1>5, <1>6, <2>3, <3>1, <3>3, <3>4 DEF Permitted, world
    <3>7. Ordered(c)' BY <1>1, <1>5, <1>6, <3>4 DEF Ordered, Gone
    <3> QED BY <2>1, <3>5, <3>6, <3>7 DEF CallInv
  <2> QED BY <2>2, <2>3
<1>10. (\A v \in Workers : WorkerInv(v)') /\ (\A d \in Slots : CtlInv(d)') /\ ParentInv'
  BY <1>1 DEF Inv, WorkerInv, CtlInv, ParentInv, world, Gone
<1> QED BY <1>7, <1>8, <1>9, <1>10 DEF Inv

-----------------------------------------------------------------------------
(* The theorems.                                                           *)

LEMMA CallStepStep ==
  ASSUME WriterLifecycleAssumption, Inv, NEW c \in Slots, CallStep(c)
  PROVE  Inv'
<1> DEFINE w == call[c].w
<1>1. Active(c) BY CallStepIsActive
<1>2. w \in Workers BY <1>1 DEF Inv, CallInv, Placed
<1>3. Acting(c, w) BY <1>1, <1>2 DEF Inv, Acting
<1>4. PICK v \in Workers : v = w BY <1>2
<1> HIDE DEF w
<1>5. Keeps(c, v) /\ Own(c) /\ TypeInv' /\ CallInv(c)' /\ WorkerInv(v)'
  BY <1>3, <1>4, CallStepKeeps DEF Inv, Keeps
<1>6. \A d \in Slots : CallInv(d)' BY <1>5, OthersStep DEF Inv
<1>7. \A d \in Slots : CtlInv(d)' BY <1>3, <1>5, CtlStep DEF Inv
<1>8. ASSUME NEW u \in Workers \ {v} PROVE WorkerInv(u)'
  <2>1. rec'[u] = rec[u] /\ status' = status BY <1>4, <1>5, <1>8 DEF Own, w
  <2>2. tree' = tree /\ (session[u] = "deleted" => session'[u] = "deleted")
    <3>1. CASE Inspect(c)
      <4>1. session' = session \/ session' = [session EXCEPT ![w] = "deleted"]
        BY <3>1 DEF Inspect, w
      <4> QED BY <3>1, <4>1 DEF Inspect, Inv, TypeInv
    <3>2. CASE UNCHANGED world BY <3>2 DEF world
    <3> QED
      BY <3>1, <3>2
      DEF CallStep, Runs, PlanCleanup, PlanIntegration, Observe, Decide, Prepare, Answer, Teardown,
          Close, CloseEnd, DeleteEnd, Classify, RemoveEnd, Final, GiveUp, Die
  <2> QED BY <2>1, <2>2 DEF Inv, WorkerInv
<1>9. ParentInv'
  <2> SUFFICES ASSUME parent' \in Workers PROVE rec'[parent'].tries > 0 BY DEF ParentInv
  <2>1. parent' = parent /\ rec[parent].tries > 0 BY <1>5 DEF Own, Inv, ParentInv
  <2> QED BY <1>4, <1>5, <2>1 DEF Own, w
<1> QED BY <1>5, <1>6, <1>7, <1>8, <1>9 DEF Inv

LEMMA InvInit == WriterLifecycleAssumption /\ Init => Inv
<1> SUFFICES ASSUME WriterLifecycleAssumption, Init PROVE Inv OBVIOUS
<1>1. NoRec \in Rec
  <2>1. NoRec.intent \in [Effects -> {"none", "open", "settled"}] BY DEF NoRec, Effects
  <2> QED BY <2>1 DEF NoRec, Rec, Integrations, Cleanups, MaxTries
<1>2. NoCtl \in Ctl BY DEF NoCtl, Ctl
<1>3. TypeInv BY <1>1, <1>2, IdleCall DEF Init, TypeInv, Places
<1>4. \A c \in Slots : CallInv(c) /\ CtlInv(c)
  BY DEF Init, CallInv, CtlInv, Active, Idle, NoCtl
<1>5. \A w \in Workers : WorkerInv(w) 
  <2>1. /\ NoRec.tries = 0 /\ NoRec.op = "none" /\ NoRec.clean = "none" /\ ~NoRec.deleted
    BY DEF NoRec
  <2>2. ASSUME NEW w \in Workers PROVE WorkerInv(w)
    <3>1. rec[w] = NoRec BY DEF Init
    <3> QED BY <2>1, <3>1 DEF WorkerInv
  <2> QED BY <2>2
<1>6. ParentInv BY NoneIsNoSlot DEF Init, ParentInv, Places
<1> QED BY <1>3, <1>4, <1>5, <1>6 DEF Inv

LEMMA InvStep == WriterLifecycleAssumption /\ Inv /\ [Next]_vars => Inv'
<1> SUFFICES ASSUME WriterLifecycleAssumption, Inv, [Next]_vars PROVE Inv' OBVIOUS
<1>1. ASSUME NEW c \in Slots, Runs(c) \/ GiveUp(c) \/ Die(c) PROVE Inv'
  BY <1>1, CallStepStep DEF CallStep
<1>2. ASSUME NEW c \in Slots, Works(c) PROVE Inv' BY <1>2, WorksStep
<1>3. ASSUME NEW c \in Slots, OrphanEnds(c) PROVE Inv' BY <1>3, OrphanStep
<1>4. ASSUME NEW w \in Workers, NEW op \in Operations, Start(w, op) PROVE Inv'
  BY <1>4, StartStep
<1>5. CASE Edit BY <1>5, EditStep
<1>6. CASE UNCHANGED vars
  <2>1. TypeInv' BY <1>6 DEF Inv, TypeInv, vars
  <2>2. \A c \in Slots : CallInv(c)' /\ CtlInv(c)'
    BY <1>6, CallsStay DEF Inv, vars, leases, CtlInv, Gone
  <2>3. (\A w \in Workers : WorkerInv(w)') /\ ParentInv'
    BY <1>6 DEF Inv, vars, WorkerInv, ParentInv
  <2> QED BY <2>1, <2>2, <2>3 DEF Inv
<1> QED BY <1>1, <1>2, <1>3, <1>4, <1>5, <1>6 DEF Next

(* The inductive invariant holds in every state.                           *)
THEOREM InvHolds == Spec => []Inv
<1>1. Init => Inv BY InvInit, WriterLifecycleAssumption
<1>2. Inv /\ [Next]_vars => Inv' BY InvStep, WriterLifecycleAssumption
<1> QED BY <1>1, <1>2, PTL DEF Spec

(* A change is in the parent, or on its way there by a controller told to  *)
(* apply it, only by a decision that stands on record, for a writer nobody *)
(* abandoned or discarded.                                                 *)
THEOREM AppliedIsDecidedHolds == Spec => []AppliedIsDecided
<1>1. Inv => AppliedIsDecided
  <2> SUFFICES ASSUME Inv, NEW w \in Workers,
                      parent = w \/ \E c \in Slots : /\ ctl[c].w = w /\ ctl[c].eff = "apply"
                                                     /\ ctl[c].st = "told"
               PROVE  /\ rec[w].integ \in {"applying", "verified", "blocked"}
                      /\ rec[w].op \notin {"abandon", "discard"}
    BY DEF AppliedIsDecided
  <2>1. rec[w].tries > 0 BY DEF Inv, ParentInv, CtlInv
  <2>2. WorkerInv(w) /\ rec[w] \in Rec BY DEF Inv, TypeInv
  <2> QED BY <2>1, <2>2 DEF WorkerInv, Rec
<1> QED BY <1>1, InvHolds, PTL

(* A cleanup recorded as complete has left neither worktree nor session,   *)
(* and no controller brings anything back.                                 *)
THEOREM AbsentIsAbsentHolds == Spec => []AbsentIsAbsent
<1>1. Inv => AbsentIsAbsent BY DEF Inv, WorkerInv, AbsentIsAbsent
<1> QED BY <1>1, InvHolds, PTL

(* The worktree is touched only by a controller that was asked to remove   *)
(* it, and that is asked only for a session that is closed and deleted and *)
(* for work that is in the parent or given up.                             *)
LEMMA TreeIsKept ==
  ASSUME WriterLifecycleAssumption, Inv, Next, NEW w \in Workers, tree[w] = "kept",
  tree'[w] # "kept"
  PROVE  /\ session[w] = "deleted" /\ rec[w].closed /\ rec[w].deleted
         /\ rec[w].integ = "verified" \/ rec[w].op \in {"abandon", "discard"}
<1>1. PICK c \in Slots : Works(c)
  <2>1. ASSUME NEW c \in Slots, Runs(c) PROVE tree' = tree
    BY <2>1
    DEF Runs, PlanCleanup, PlanIntegration, Observe, Decide, Prepare, Answer, Teardown,
        Close, CloseEnd, Inspect, DeleteEnd, Classify, RemoveEnd, Final, world
  <2>2. ASSUME NEW c \in Slots, OrphanEnds(c) \/ GiveUp(c) \/ Die(c) PROVE tree' = tree
    BY <2>2 DEF OrphanEnds, GiveUp, Die, world
  <2>3. ASSUME NEW v \in Workers, NEW op \in Operations, Start(v, op) PROVE tree' = tree
    BY <2>3 DEF Start, world
  <2>4. Edit => tree' = tree BY DEF Edit
  <2> QED BY <2>1, <2>2, <2>3, <2>4 DEF Next
<1>2. ctl[c].st = "told" /\ ctl[c].eff = "remove" /\ ctl[c].w = w BY <1>1 DEF Works, Inv, TypeInv
<1>3. Gone(rec[w]) /\ rec[w].op # "none" BY <1>2 DEF Inv, CtlInv
<1>4. WorkerInv(w) /\ rec[w] \in Rec BY DEF Inv, TypeInv
<1> QED BY <1>3, <1>4 DEF WorkerInv, Gone, Rec, Cleanings, Operations

(* A writer's work is kept until its session is closed and deleted and its *)
(* change is verified in the parent, or its owner has given it up.         *)
THEOREM WorkIsKeptHolds == Spec => WorkIsKept
<1>1. Inv /\ [Next]_vars =>
        [\A w \in Workers : tree[w] = "kept" /\ tree'[w] # "kept" =>
           /\ session[w] = "deleted" /\ rec[w].closed /\ rec[w].deleted
           /\ rec[w].integ = "verified" \/ rec[w].op \in {"abandon", "discard"}]_vars
  <2> SUFFICES ASSUME Inv, Next
               PROVE  \A w \in Workers : tree[w] = "kept" /\ tree'[w] # "kept" =>
                        /\ session[w] = "deleted" /\ rec[w].closed /\ rec[w].deleted
                        /\ rec[w].integ = "verified" \/ rec[w].op \in {"abandon", "discard"}
    OBVIOUS
  <2> QED BY TreeIsKept, WriterLifecycleAssumption
<1> QED BY <1>1, InvHolds, PTL DEF Spec, WorkIsKept

=============================================================================
