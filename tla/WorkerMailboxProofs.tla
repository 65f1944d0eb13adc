------------------------- MODULE WorkerMailboxProofs -------------------------
(* Theorems of WorkerMailbox and their proofs.                             *)
EXTENDS WorkerMailboxRefinement, FiniteSetTheorems, SequenceTheorems, TLAPS

(* The least of a set of numbers: induction on numbers by contradiction.   *)
LEMMA Least ==
  ASSUME NEW T \in SUBSET Nat, T # {}
  PROVE  \E n \in T : \A m \in T : n <= m
<1>1. \E n \in T : \A m \in T : ~(<<m, n>> \in OpToRel(<, Nat))
  BY NatLessThanWellFounded, WFMin
<1>2. PICK n \in T : \A m \in T : ~(<<m, n>> \in OpToRel(<, Nat))
  BY <1>1
<1>3. ASSUME NEW m \in T PROVE n <= m
  <2>1. ~(m < n)
    BY <1>2, <1>3 DEF OpToRel
  <2> QED BY <2>1
<1> QED BY <1>3

(* The greatest element of a bounded set of numbers.                       *)
LEMMA Greatest ==
  ASSUME NEW T \in SUBSET Nat, T # {}, NEW b \in Nat, \A n \in T : n <= b
  PROVE  Max(T) \in T /\ \A n \in T : n <= Max(T)
<1> DEFINE U == {k \in Nat : \A n \in T : n <= k}
<1>1. PICK k \in U : \A m \in U : k <= m
  BY Least
<1>2. k \in T
  <2>1. SUFFICES ASSUME k \notin T PROVE FALSE
    OBVIOUS
  <2>2. PICK n \in T : TRUE
    OBVIOUS
  <2>3. k - 1 \in Nat
    BY <2>1, <2>2
  <2>4. k - 1 \in U
    BY <2>1, <2>3
  <2> QED BY <2>4, <1>1, <2>3
<1>3. \E x \in T : \A y \in T : x >= y
  BY <1>2
<1>4. Max(T) \in T /\ \A y \in T : Max(T) >= y
  BY <1>3 DEF Max
<1> QED BY <1>4

-----------------------------------------------------------------------------
(* Sums of sizes.  One is the message the sum takes next.                  *)
One(s) == CHOOSE x \in s : TRUE
IsSum(g, d, S) ==
  g = [s \in S |-> IF s = {} THEN 0 ELSE d.msgs[One(s)].size + g[s \ {One(s)}]]

SumOf(d, S) == MapThenSumSet(LAMBDA i : d.msgs[i].size, S)

(* A sum over the subsets of a finite set exists: induction on the set.    *)
LEMMA SumExists ==
  ASSUME NEW d, NEW S, IsFiniteSet(S)
  PROVE  \E g : IsSum(g, d, SUBSET S)
<1> DEFINE Upto(n) == {s \in SUBSET S : Cardinality(s) <= n}
<1> DEFINE Bad == {n \in Nat : ~\E g : IsSum(g, d, Upto(n))}
<1>0. \A s \in SUBSET S : IsFiniteSet(s) /\ Cardinality(s) \in Nat
      /\ Cardinality(s) <= Cardinality(S)
  BY FS_Subset, FS_CardinalityType
<1>1. Bad = {}
  <2> SUFFICES ASSUME Bad # {} PROVE FALSE
    OBVIOUS
  <2>1. PICK n \in Bad : \A m \in Bad : n <= m
    BY Least
  <2>2. CASE n = 0
    <3>1. \A s \in Upto(0) : s = {}
      BY <1>0, FS_EmptySet
    <3> DEFINE h == [s \in Upto(0) |-> 0]
    <3>2. IsSum(h, d, Upto(0))
      BY <3>1 DEF IsSum
    <3> QED BY <2>1, <2>2, <3>2
  <2>3. CASE n # 0
    <3>1. n - 1 \in Nat /\ n - 1 \notin Bad
      <4>1. n \in Nat /\ n - 1 \in Nat /\ ~(n <= n - 1)
        BY <2>3
      <4> HIDE DEF Bad
      <4> QED BY <4>1, <2>1
    <3>2. PICK g : IsSum(g, d, Upto(n - 1))
      BY <3>1
    <3> DEFINE V(k, s) == IF s = {} THEN 0 ELSE d.msgs[One(s)].size + k[s \ {One(s)}]
               h == [s \in Upto(n) |-> V(g, s)]
    <3>3. ASSUME NEW s \in Upto(n), s # {} PROVE h[s \ {One(s)}] = g[s \ {One(s)}]
      <4>1. One(s) \in s
        BY <3>3 DEF One
      <4>2. Cardinality(s \ {One(s)}) = Cardinality(s) - 1
        BY <4>1, <1>0, FS_RemoveElement
      <4>3. s \ {One(s)} \in Upto(n - 1) /\ s \ {One(s)} \in Upto(n)
        BY <4>2, <1>0
      <4>4. h[s \ {One(s)}] = V(g, s \ {One(s)})
        BY <4>3
      <4>5. g[s \ {One(s)}] = V(g, s \ {One(s)})
        BY <4>3, <3>2 DEF IsSum
      <4> QED BY <4>4, <4>5
    <3>4. IsSum(h, d, Upto(n))
      <4>1. \A s \in Upto(n) : V(g, s) = V(h, s)
        BY <3>3
      <4> QED BY <4>1 DEF IsSum
    <3> QED BY <2>1, <3>4
  <2> QED BY <2>2, <2>3
<1>2. Upto(Cardinality(S)) = SUBSET S
  BY <1>0
<1>3. Cardinality(S) \in Nat
  BY FS_CardinalityType
<1> QED BY <1>1, <1>2, <1>3

(* SumOf is the value of such a sum.                                       *)
LEMMA SumIs ==
  ASSUME NEW d, NEW S, IsFiniteSet(S)
  PROVE  \E g : IsSum(g, d, SUBSET S) /\ SumOf(d, S) = g[S]
<1> DEFINE g == CHOOSE g : IsSum(g, d, SUBSET S)
<1>1. IsSum(g, d, SUBSET S)
  BY SumExists
<1>2. SumOf(d, S) = g[S]
  BY DEF SumOf, MapThenSumSet, MapThenFoldSet, IsSum, One
<1> QED BY <1>1, <1>2

(* Induction on finite sets by contradiction.                              *)
LEMMA Smallest ==
  ASSUME NEW S, IsFiniteSet(S), NEW T \in SUBSET (SUBSET S), T # {}
  PROVE  \E s \in T : \A u \in T : u \subseteq s => u = s
<1> DEFINE N == {Cardinality(s) : s \in T}
<1>1. \A s \in T : IsFiniteSet(s) /\ Cardinality(s) \in Nat
  BY FS_Subset, FS_CardinalityType
<1>0. N \in SUBSET Nat /\ N # {}
  BY <1>1
<1> HIDE DEF N
<1>2. PICK n \in N : \A m \in N : n <= m
  BY <1>0, Least
<1>3. PICK s \in T : n = Cardinality(s)
  BY <1>2 DEF N
<1>4. ASSUME NEW u \in T, u \subseteq s PROVE u = s
  <2>1. Cardinality(u) <= Cardinality(s) /\ (Cardinality(s) = Cardinality(u) => s = u)
    BY <1>1, <1>4, FS_Subset
  <2>2. Cardinality(s) <= Cardinality(u)
    BY <1>2, <1>3 DEF N
  <2> QED BY <1>1, <2>1, <2>2
<1> QED BY <1>4

(* The sum of a set is that of one element and the rest.                   *)
LEMMA SumsOf ==
  ASSUME NEW d, NEW S, IsFiniteSet(S), NEW g, IsSum(g, d, SUBSET S),
         \A i \in S : d.msgs[i].size \in Nat
  PROVE  \A s \in SUBSET S :
           g[s] \in Nat /\ \A x \in s : g[s] = d.msgs[x].size + g[s \ {x}]
<1> DEFINE Size(i) == d.msgs[i].size
           Bad == {s \in SUBSET S : ~(g[s] \in Nat)}
           Odd == {s \in SUBSET S : ~\A x \in s : g[s] = Size(x) + g[s \ {x}]}
<1>1. \A s \in SUBSET S : s # {} => One(s) \in s
  BY DEF One
<1>2. \A s \in SUBSET S : s # {} => g[s] = Size(One(s)) + g[s \ {One(s)}]
  BY DEF IsSum
<1>3. g[{}] = 0
  BY DEF IsSum
<1>4. Bad = {}
  <2> SUFFICES ASSUME Bad # {} PROVE FALSE
    OBVIOUS
  <2>0. Bad \in SUBSET (SUBSET S)
    OBVIOUS
  <2>1. PICK s \in Bad : \A u \in Bad : u \subseteq s => u = s
    <3> HIDE DEF Bad
    <3> QED BY <2>0, Smallest
  <2>2. s # {}
    <3>1. g[{}] \in Nat
      BY <1>3
    <3> QED BY <2>1, <3>1
  <2>3. s \ {One(s)} \notin Bad
    BY <2>1, <2>2, <1>1
  <2>4. g[s \ {One(s)}] \in Nat /\ Size(One(s)) \in Nat
    BY <2>2, <2>3, <1>1
  <2>5. g[s] \in Nat
    <3>1. g[s] = Size(One(s)) + g[s \ {One(s)}]
      BY <2>1, <2>2, <1>2
    <3> HIDE DEF Size
    <3> QED BY <2>4, <3>1
  <2> QED BY <2>1, <2>5
<1>5. \A s \in SUBSET S : g[s] \in Nat
  BY <1>4
<1>6. Odd = {}
  <2> SUFFICES ASSUME Odd # {} PROVE FALSE
    OBVIOUS
  <2>0. Odd \in SUBSET (SUBSET S)
    OBVIOUS
  <2>1. PICK s \in Odd : \A u \in Odd : u \subseteq s => u = s
    <3> HIDE DEF Odd
    <3> QED BY <2>0, Smallest
  <2>2. PICK x \in s : g[s] # Size(x) + g[s \ {x}]
    BY <2>1
  <2> DEFINE c == One(s)
  <2>3. c \in s /\ c # x /\ g[s] = Size(c) + g[s \ {c}]
    BY <2>2, <1>1, <1>2
  <2> HIDE DEF c
  <2>4. s \ {c} \in SUBSET S /\ s \ {c} \notin Odd /\ s \ {x} \in SUBSET S /\ s \ {x} \notin Odd
    BY <2>1, <2>2, <2>3
  <2>5. g[s \ {c}] = Size(x) + g[(s \ {c}) \ {x}]
    BY <2>2, <2>3, <2>4
  <2>6. g[s \ {x}] = Size(c) + g[(s \ {x}) \ {c}]
    BY <2>2, <2>3, <2>4
  <2>7. (s \ {c}) \ {x} = (s \ {x}) \ {c}
    OBVIOUS
  <2>8. /\ Size(x) \in Nat /\ Size(c) \in Nat /\ g[s] \in Nat /\ g[s \ {c}] \in Nat
        /\ g[s \ {x}] \in Nat /\ g[(s \ {x}) \ {c}] \in Nat
    BY <1>5, <2>2, <2>3, <2>4
  <2>9. g[s] = Size(x) + g[s \ {x}]
    <3> DEFINE a == Size(x)
               b == Size(c)
               p == g[s \ {c}]
               q == g[s \ {x}]
               r == g[(s \ {c}) \ {x}]
               t == g[s]
    <3>1. /\ a \in Nat /\ b \in Nat /\ p \in Nat /\ q \in Nat /\ r \in Nat /\ t \in Nat
          /\ t = b + p /\ p = a + r /\ q = b + r
      BY <2>3, <2>5, <2>6, <2>7, <2>8
    <3>2. t = a + q
      <4> HIDE DEF a, b, p, q, r, t
      <4> QED BY <3>1
    <3> QED BY <3>2
  <2> QED BY <2>2, <2>9
<1> QED BY <1>5, <1>6

Agree(g, h, T) == g[T] = h[T]
SameSizes(d, e, T) == \A i \in T : d.msgs[i].size = e.msgs[i].size

(* Two sums over the same sizes agree.                                     *)
LEMMA SumsAgree ==
  ASSUME NEW d, NEW e, NEW S, IsFiniteSet(S), NEW T, T \subseteq S,
         NEW g, IsSum(g, d, SUBSET S), NEW h, IsSum(h, e, SUBSET T),
         SameSizes(d, e, T)
  PROVE  Agree(g, h, T)
<1> DEFINE Bad == {s \in SUBSET T : g[s] # h[s]}
<1>0. Bad \in SUBSET (SUBSET T)
  OBVIOUS
<1>1. IsFiniteSet(T)
  BY FS_Subset
<1>2. Bad = {}
  <2> SUFFICES ASSUME Bad # {} PROVE FALSE
    OBVIOUS
  <2>1. PICK s \in Bad : \A u \in Bad : u \subseteq s => u = s
    <3> HIDE DEF Bad
    <3> QED BY <1>0, <1>1, Smallest
  <2>2. CASE s = {}
    BY <2>1, <2>2 DEF IsSum
  <2>3. CASE s # {}
    <3>1. One(s) \in s
      BY <2>3 DEF One
    <3>2. g[s \ {One(s)}] = h[s \ {One(s)}]
      BY <3>1, <2>1
    <3>3. /\ g[s] = d.msgs[One(s)].size + g[s \ {One(s)}]
          /\ h[s] = e.msgs[One(s)].size + h[s \ {One(s)}]
      BY <2>1, <2>3 DEF IsSum
    <3> QED BY <2>1, <3>1, <3>2, <3>3 DEF SameSizes
  <2> QED BY <2>2, <2>3
<1> QED BY <1>2 DEF Agree

(* What is used of sums.                                                   *)
LEMMA SumFacts ==
  ASSUME NEW d, NEW S, IsFiniteSet(S), \A i \in S : d.msgs[i].size \in Nat
  PROVE  /\ SumOf(d, S) \in Nat
         /\ \A x \in S : SumOf(d, S) = d.msgs[x].size + SumOf(d, S \ {x})
<1>1. PICK g : IsSum(g, d, SUBSET S) /\ SumOf(d, S) = g[S]
  BY SumIs
<1>2. S \in SUBSET S
  OBVIOUS
<1>3. ASSUME NEW x \in S PROVE SumOf(d, S) = d.msgs[x].size + SumOf(d, S \ {x})
  <2>1. IsFiniteSet(S \ {x})
    BY FS_RemoveElement
  <2>2. PICK h : IsSum(h, d, SUBSET (S \ {x})) /\ SumOf(d, S \ {x}) = h[S \ {x}]
    BY <2>1, SumIs
  <2>3. Agree(g, h, S \ {x})
    <3>1. S \ {x} \subseteq S
      OBVIOUS
    <3>2. SameSizes(d, d, S \ {x})
      BY DEF SameSizes
    <3> QED BY <1>1, <2>2, <3>1, <3>2, SumsAgree
  <2>4. g[S] = d.msgs[x].size + g[S \ {x}]
    BY <1>1, <1>2, SumsOf
  <2> QED BY <1>1, <2>2, <2>3, <2>4 DEF Agree
<1>4. g[S] \in Nat
  BY <1>1, <1>2, SumsOf
<1> QED BY <1>1, <1>3, <1>4

(* The sum depends on the sizes alone.                                     *)
LEMMA SumSame ==
  ASSUME NEW d, NEW e, NEW S, IsFiniteSet(S), SameSizes(d, e, S)
  PROVE  SumOf(d, S) = SumOf(e, S)
<1>1. PICK g : IsSum(g, d, SUBSET S) /\ SumOf(d, S) = g[S]
  BY SumIs
<1>2. PICK h : IsSum(h, e, SUBSET S) /\ SumOf(e, S) = h[S]
  BY SumIs
<1>3. Agree(g, h, S)
  <2>1. S \subseteq S
    OBVIOUS
  <2> QED BY <1>1, <1>2, <2>1, SumsAgree
<1> QED BY <1>1, <1>2, <1>3 DEF Agree

(* The sum of nothing.                                                     *)
LEMMA SumEmpty == ASSUME NEW d PROVE SumOf(d, {}) = 0
<1>1. IsFiniteSet({})
  BY FS_EmptySet
<1>2. PICK g : IsSum(g, d, SUBSET {}) /\ SumOf(d, {}) = g[{}]
  BY <1>1, SumIs
<1> QED BY <1>2 DEF IsSum
-----------------------------------------------------------------------------
(* Traces.                                                                 *)

(* A trace that begins with d, through disks of S.                         *)
Trace(S, d, t) == t \in Seq(S) /\ t # <<>> /\ t[1] = d

(* The disks of a trace.                                                   *)
LEMMA TraceFacts ==
  ASSUME NEW S, NEW d, NEW t, Trace(S, d, t)
  PROVE  /\ Range(t) \subseteq S /\ Last(t) \in Range(t) /\ d \in Range(t)
         /\ Len(t) \in Nat \ {0} /\ DOMAIN t = 1..Len(t)
<1>1. Len(t) \in Nat /\ Len(t) # 0 /\ t \in [1..Len(t) -> S]
  BY LenProperties, EmptySeq DEF Trace
<1>2. 1 \in 1..Len(t) /\ Len(t) \in 1..Len(t)
  BY <1>1
<1> QED BY <1>1, <1>2 DEF Range, Last, Trace

(* The traces of no write, of one and of two.                              *)
LEMMA Short ==
  ASSUME NEW S, NEW d \in S
  PROVE  /\ Trace(S, d, <<d>>) /\ Last(<<d>>) = d
         /\ \A e \in S : /\ Trace(S, d, <<d, e>>) /\ Last(<<d, e>>) = e
                         /\ \A f \in S : Trace(S, d, <<d, e, f>>) /\ Last(<<d, e, f>>) = f
BY DEF Trace, Last

(* One trace after the other.                                              *)
LEMMA Joined ==
  ASSUME NEW S, NEW d, NEW t, Trace(S, d, t), NEW u, Trace(S, Last(t), u)
  PROVE  /\ Trace(S, d, t \o Tail(u)) /\ Last(t \o Tail(u)) = Last(u)
         /\ Range(t \o Tail(u)) \subseteq Range(t) \cup Range(u)
<1> DEFINE w == t \o Tail(u)
<1>1. /\ Len(t) \in Nat \ {0} /\ DOMAIN t = 1..Len(t)
      /\ Len(u) \in Nat \ {0} /\ DOMAIN u = 1..Len(u)
  BY TraceFacts
<1>2. /\ t \in Seq(S) /\ u \in Seq(S) /\ u # <<>> /\ t # <<>> /\ t[1] = d /\ u[1] = t[Len(t)]
  BY DEF Trace, Last
<1>3. /\ Tail(u) \in Seq(S) /\ Len(Tail(u)) = Len(u) - 1
      /\ \A i \in 1..Len(u) - 1 : Tail(u)[i] = u[i + 1]
  BY <1>2, HeadTailProperties
<1>4. /\ w \in Seq(S) /\ Len(w) = Len(t) + Len(u) - 1
      /\ \A i \in 1..Len(t) + Len(u) - 1 :
           w[i] = IF i <= Len(t) THEN t[i] ELSE u[i - Len(t) + 1]
  <2> HIDE DEF w
  <2>1. /\ w \in Seq(S) /\ Len(w) = Len(t) + Len(Tail(u))
        /\ \A i \in 1..Len(t) + Len(Tail(u)) :
             w[i] = IF i <= Len(t) THEN t[i] ELSE Tail(u)[i - Len(t)]
    BY <1>2, <1>3, ConcatProperties DEF w
  <2> QED BY <2>1, <1>1, <1>3
<1> HIDE DEF w
<1>5. w # <<>> /\ w[1] = d
  BY <1>1, <1>2, <1>4, EmptySeq
<1>6. w[Len(w)] = u[Len(u)]
  BY <1>1, <1>2, <1>4
<1>7. DOMAIN w = 1..Len(w)
  BY <1>4, LenProperties
<1>8. ASSUME NEW i \in DOMAIN w PROVE w[i] \in Range(t) \cup Range(u)
  <2>1. CASE i <= Len(t)
    BY <2>1, <1>1, <1>4, <1>7 DEF Range
  <2>2. CASE i > Len(t)
    <3>1. i - Len(t) + 1 \in DOMAIN u /\ w[i] = u[i - Len(t) + 1]
      BY <2>2, <1>1, <1>4, <1>7
    <3> QED BY <3>1 DEF Range
  <2> QED BY <2>1, <2>2, <1>1, <1>7
<1>9. Range(w) \subseteq Range(t) \cup Range(u)
  BY <1>8 DEF Range
<1> QED BY <1>4, <1>5, <1>6, <1>9 DEF Trace, Last, w

-----------------------------------------------------------------------------
(* Disks.                                                                  *)
FinalStates == TurnStates \cup {"rejected"}
States == ActiveStates \cup FinalStates

Disks == [att : Attempt \cup {NoAttempt}, msgs : Seq(Message), noted : SUBSET (Nat \X States)]

(* The types of the parts of a disk.                                       *)
LEMMA DiskFacts ==
  ASSUME NEW d \in Disks
  PROVE  /\ d.msgs \in Seq(Message) /\ Len(d.msgs) \in Nat
         /\ DOMAIN d.msgs = 1..Len(d.msgs) /\ DOMAIN d.msgs \subseteq Nat
         /\ IsFiniteSet(DOMAIN d.msgs)
         /\ \A i \in DOMAIN d.msgs :
              /\ d.msgs[i] \in Message /\ d.msgs[i].seq \in Nat /\ d.msgs[i].key \in Keys
              /\ d.msgs[i].size \in Nat /\ d.msgs[i].state \in States
         /\ d.att # NoAttempt <=> d.att \in Attempt
         /\ d.att # NoAttempt <=> d.att.state # "none"
<1>1. d.msgs \in Seq(Message) /\ d.att \in Attempt \cup {NoAttempt}
  BY DEF Disks
<1>2. /\ Len(d.msgs) \in Nat /\ DOMAIN d.msgs = 1..Len(d.msgs)
      /\ \A i \in DOMAIN d.msgs : d.msgs[i] \in Message
  BY <1>1, LenProperties, ElementOfSeq
<1>3. IsFiniteSet(1..Len(d.msgs))
  BY <1>2, FS_Interval
<1>4. \A m \in Message : /\ m.seq \in Nat /\ m.key \in Keys /\ m.size \in Nat /\ m.state \in States
  BY MailboxAssumption DEF Message, States, ActiveStates, FinalStates, TurnStates
<1>5. \A a \in Attempt : a # NoAttempt /\ a.state # "none"
  BY DEF Attempt, NoAttempt
<1>6. NoAttempt.state = "none"
  BY DEF NoAttempt
<1> QED BY <1>1, <1>2, <1>3, <1>4, <1>5, <1>6

(* What writes to a disk make of it.                                       *)
LEMMA AttemptWritten ==
  ASSUME NEW d \in Disks, NEW a \in Attempt
  PROVE  LET e == [d EXCEPT !.att = a]
         IN e \in Disks /\ e.att = a /\ e.msgs = d.msgs /\ e.noted = d.noted
BY DEF Disks

(* What is there after message i is written.                               *)
LEMMA MessageWritten ==
  ASSUME NEW d \in Disks, NEW i \in DOMAIN d.msgs, NEW m \in Message
  PROVE  LET e == [d EXCEPT !.msgs[i] = m]
         IN /\ e \in Disks /\ e.att = d.att /\ e.noted = d.noted
            /\ Len(e.msgs) = Len(d.msgs) /\ DOMAIN e.msgs = DOMAIN d.msgs
            /\ \A j \in DOMAIN d.msgs : e.msgs[j] = IF j = i THEN m ELSE d.msgs[j]
<1> DEFINE e == [d EXCEPT !.msgs[i] = m]
<1>1. d.msgs \in Seq(Message) /\ i \in 1..Len(d.msgs) /\ DOMAIN d.msgs = 1..Len(d.msgs)
  BY DiskFacts
<1>2. e.msgs = [d.msgs EXCEPT ![i] = m] /\ e.att = d.att /\ e.noted = d.noted
  BY DEF Disks
<1>3. /\ e.msgs \in Seq(Message) /\ Len(e.msgs) = Len(d.msgs)
      /\ \A j \in 1..Len(d.msgs) : e.msgs[j] = IF j = i THEN m ELSE d.msgs[j]
  BY <1>1, <1>2, ExceptSeq
<1>4. DOMAIN e.msgs = DOMAIN d.msgs
  BY <1>1, <1>2
<1>5. e \in Disks
  <2>1. e = [d EXCEPT !.msgs = e.msgs]
    BY <1>2 DEF Disks
  <2> HIDE DEF e
  <2> QED BY <1>3, <2>1 DEF Disks
<1> QED BY <1>1, <1>2, <1>3, <1>4, <1>5

(* What is there after a message is added.                                 *)
LEMMA MessageAdded ==
  ASSUME NEW d \in Disks, NEW m \in Message
  PROVE  LET e == [d EXCEPT !.msgs = Append(@, m)]
         IN /\ e \in Disks /\ e.att = d.att /\ e.noted = d.noted
            /\ Len(e.msgs) = Len(d.msgs) + 1
            /\ DOMAIN e.msgs = DOMAIN d.msgs \cup {Len(d.msgs) + 1}
            /\ \A j \in DOMAIN d.msgs : e.msgs[j] = d.msgs[j]
            /\ e.msgs[Len(d.msgs) + 1] = m
<1> DEFINE e == [d EXCEPT !.msgs = Append(@, m)]
<1>1. d.msgs \in Seq(Message) /\ Len(d.msgs) \in Nat /\ DOMAIN d.msgs = 1..Len(d.msgs)
  BY DiskFacts
<1>2. e.msgs = Append(d.msgs, m) /\ e.att = d.att /\ e.noted = d.noted
  BY DEF Disks
<1>3. /\ e.msgs \in Seq(Message) /\ Len(e.msgs) = Len(d.msgs) + 1
      /\ \A j \in 1..Len(d.msgs) : e.msgs[j] = d.msgs[j]
      /\ e.msgs[Len(d.msgs) + 1] = m
  BY <1>1, <1>2, AppendProperties
<1>4. DOMAIN e.msgs = 1..(Len(d.msgs) + 1)
  BY <1>3, LenProperties
<1>5. e \in Disks
  <2>1. e = [d EXCEPT !.msgs = e.msgs]
    BY <1>2 DEF Disks
  <2> HIDE DEF e
  <2> QED BY <1>3, <2>1 DEF Disks
<1> HIDE DEF e
<1>6. 1..(Len(d.msgs) + 1) = 1..Len(d.msgs) \cup {Len(d.msgs) + 1}
  BY <1>1
<1> QED BY <1>1, <1>2, <1>3, <1>4, <1>5, <1>6 DEF e

(* A state is written into a message.                                      *)
LEMMA StateWritten ==
  ASSUME NEW m \in Message, NEW s \in States
  PROVE  LET n == [m EXCEPT !.state = s]
         IN /\ n \in Message /\ n.key = m.key /\ n.size = m.size /\ n.seq = m.seq
            /\ n.turn = m.turn /\ n.state = s
BY DEF Message, States, ActiveStates, FinalStates, TurnStates

-----------------------------------------------------------------------------
(* The inductive invariant.  First, what every disk satisfies: only a      *)
(* rejected message has no number, numbers and keys name messages, turns   *)
(* come before the one message the pump holds and that before the ones     *)
(* that wait, a mailbox that is closing or closed has no message in        *)
(* motion, and a checkpoint with an outcome is about a message that has    *)
(* it.                                                                     *)
Is(d, i, S) == d.msgs[i].state \in S

Numbered(d) == \A i \in DOMAIN d.msgs : d.msgs[i].seq > 0 \/ Is(d, i, {"rejected"})

Distinct(d) ==
  \A i, j \in DOMAIN d.msgs :
    \/ d.msgs[i].key = d.msgs[j].key
    \/ d.msgs[i].seq = d.msgs[j].seq /\ d.msgs[i].seq > 0
    => i = j

Queued(d) ==
  \A i, j \in DOMAIN d.msgs :
    /\ Is(d, i, TurnStates) /\ Is(d, j, ActiveStates) => d.msgs[i].seq < d.msgs[j].seq
    /\ Is(d, i, {"claimed", "inflight"}) /\ Is(d, j, {"accepted"})
         => d.msgs[i].seq < d.msgs[j].seq
    /\ Is(d, i, {"claimed", "inflight"}) /\ Is(d, j, {"claimed", "inflight"}) => i = j

Shut(a) == a.state \in {"none", "closing", "closed"}

Sealed(d) == Shut(d.att) => \A i \in DOMAIN d.msgs : ~Is(d, i, ActiveStates)

TrueNotes(d) ==
  \A n \in d.noted : /\ n[1] \in DOMAIN d.msgs
                     /\ n[2] \in FinalStates => d.msgs[n[1]].state = n[2]

(* Then, what makes recoverAttemptConsistency accept it.  The numbers are  *)
(* those of a queue within the limits; the turns are a chain in their      *)
(* order, which an unknown one ends; and the attempt a is one that was     *)
(* true of these messages, perhaps some writes ago.                        *)
Counted(d) ==
  LET n == Cardinality(Accepted(d))
  IN Seqs(d, Accepted(d)) = 1..n /\ n <= MaxMessages /\ Bytes(d, n) <= MaxBytes

Preceding(d, i) ==
  {d.msgs[j].seq : j \in {k \in TurnsOf(d) : d.msgs[k].seq < d.msgs[i].seq}} \cup {0}

Chained(d) ==
  /\ \A i \in UnknownOf(d) :
       /\ \A j \in UnknownOf(d) : j = i
       /\ \A j \in TurnsOf(d) : d.msgs[j].seq <= d.msgs[i].seq
       /\ Pumped(d) = {}
  /\ \A i \in TurnsOf(d) :
       d.msgs[i].turn = Append(ChainUpTo(d, Max(Preceding(d, i))), TurnOf(d, i, d.msgs[i].state))
  /\ \A i \in DOMAIN d.msgs \ TurnsOf(d) : d.msgs[i].turn = <<>>

LatestOf(d, primary) ==
  IF TurnsOf(d) # {} THEN Max(Seqs(d, TurnsOf(d))) ELSE IF primary THEN 0 ELSE NoTurn

Fits(d, a) ==
  /\ a.count <= Cardinality(Accepted(d)) /\ a.bytes = Bytes(d, a.count)
  /\ a.active <= a.count
  /\ ~a.primary => TurnsOf(d) = {} /\ Pumped(d) = {}
  /\ a.last = NoTurn <=> ~a.primary
  /\ a.last \in Seqs(d, TurnsOf(d)) \cup {0, NoTurn}
  /\ a.chain = ChainUpTo(d, a.last)
  /\ a.state = "closed" => a.last = LatestOf(d, a.primary)
  /\ a.final # NoTurn => a.state = "closed" /\ a.final = a.last
  /\ a.unknown # NoMessage => Shut(a)
  /\ a.primary => a.state # "preparing"

Coherent(d) ==
  IF d.att = NoAttempt THEN d.msgs = <<>> ELSE Counted(d) /\ Chained(d) /\ Fits(d, d.att)

(* Two versions of the same message: what counts it has not changed.       *)
Same(m, n) == n.key = m.key /\ n.size = m.size /\ n.seq = m.seq

Sound ==
  {d \in Disks :
     Numbered(d) /\ Distinct(d) /\ Queued(d) /\ Sealed(d) /\ TrueNotes(d) /\ Coherent(d)}

-----------------------------------------------------------------------------
(* Counters, sums and chains.                                              *)
LEMMA AcceptedFacts ==
  ASSUME NEW d \in Disks
  PROVE  /\ Accepted(d) \subseteq DOMAIN d.msgs /\ IsFiniteSet(Accepted(d))
         /\ Cardinality(Accepted(d)) \in Nat
         /\ TurnsOf(d) \subseteq Accepted(d)
         /\ \A i \in Accepted(d) : d.msgs[i].seq \in Nat \ {0}
<1>1. Accepted(d) \subseteq DOMAIN d.msgs /\ IsFiniteSet(DOMAIN d.msgs)
  BY DiskFacts DEF Accepted
<1>2. \A i \in Accepted(d) : d.msgs[i].seq \in Nat \ {0}
  BY DiskFacts DEF Accepted
<1> QED BY <1>1, <1>2, FS_Subset, FS_CardinalityType DEF TurnsOf

(* x has the messages of d, and perhaps more.                              *)
Keeps(d, x) ==
  /\ DOMAIN d.msgs \subseteq DOMAIN x.msgs
  /\ \A i \in DOMAIN d.msgs : Same(d.msgs[i], x.msgs[i])

(* Messages without a number up to n add nothing to the bytes up to n.     *)
LEMMA BytesKept ==
  ASSUME NEW d \in Disks, NEW x \in Disks, Keeps(d, x), NEW n \in Nat,
         \A i \in DOMAIN x.msgs \ DOMAIN d.msgs : x.msgs[i].seq = 0 \/ x.msgs[i].seq > n
  PROVE  Bytes(x, n) = Bytes(d, n)
<1> DEFINE S == {i \in Accepted(d) : d.msgs[i].seq <= n}
           T == {i \in Accepted(x) : x.msgs[i].seq <= n}
<1>1. \A i \in DOMAIN d.msgs : i \in DOMAIN x.msgs /\ Same(d.msgs[i], x.msgs[i])
  BY DEF Keeps
<1>2. \A i \in DOMAIN x.msgs : x.msgs[i].seq \in Nat
  BY DiskFacts
<1>3. S = T
  BY <1>1, <1>2 DEF Accepted, Same
<1>4. IsFiniteSet(S) /\ S \subseteq DOMAIN d.msgs
  BY AcceptedFacts, FS_Subset
<1>5. Bytes(d, n) = SumOf(d, S) /\ Bytes(x, n) = SumOf(x, T)
  BY DEF Bytes, SumOf
<1> HIDE DEF S, T
<1>6. SameSizes(d, x, S)
  BY <1>1, <1>4 DEF SameSizes, Same
<1> QED BY <1>3, <1>4, <1>5, <1>6, SumSame

(* Messages without a number change no count.                              *)
LEMMA CountsKept ==
  ASSUME NEW d \in Disks, NEW x \in Disks, Keeps(d, x),
         \A i \in DOMAIN x.msgs \ DOMAIN d.msgs : x.msgs[i].seq = 0
  PROVE  /\ Accepted(x) = Accepted(d) /\ Seqs(x, Accepted(x)) = Seqs(d, Accepted(d))
         /\ \A n \in Nat : Bytes(x, n) = Bytes(d, n)
         /\ Counted(d) => Counted(x)
<1>1. \A i \in DOMAIN d.msgs : i \in DOMAIN x.msgs /\ Same(d.msgs[i], x.msgs[i])
  BY DEF Keeps
<1>2. Accepted(x) = Accepted(d)
  BY <1>1 DEF Accepted, Same
<1>3. Seqs(x, Accepted(x)) = Seqs(d, Accepted(d))
  BY <1>1, <1>2, AcceptedFacts DEF Seqs, Same
<1>4. \A n \in Nat : Bytes(x, n) = Bytes(d, n)
  BY BytesKept
<1>5. Counted(d) => Counted(x)
  BY <1>2, <1>3, <1>4, AcceptedFacts DEF Counted
<1> QED BY <1>2, <1>3, <1>4, <1>5

(* The chain up to a turn is the one the message records.                  *)
LEMMA ChainIs ==
  ASSUME NEW d \in Disks, Distinct(d)
  PROVE  /\ \A i \in TurnsOf(d) : ChainUpTo(d, d.msgs[i].seq) = d.msgs[i].turn
         /\ ChainUpTo(d, 0) = <<PrimaryTurn>> /\ ChainUpTo(d, NoTurn) = <<>>
<1>1. ASSUME NEW i \in TurnsOf(d) PROVE ChainUpTo(d, d.msgs[i].seq) = d.msgs[i].turn
  <2> DEFINE s == d.msgs[i].seq
             j == CHOOSE j \in TurnsOf(d) : d.msgs[j].seq = s
  <2>1. s \in Nat \ {0} /\ s # NoTurn /\ s # 0 /\ i \in DOMAIN d.msgs
    BY AcceptedFacts DEF NoTurn
  <2>2. ChainUpTo(d, s) = d.msgs[j].turn
    BY <2>1 DEF ChainUpTo
  <2>3. j \in TurnsOf(d) /\ d.msgs[j].seq = s
    OBVIOUS
  <2> HIDE DEF j
  <2>4. j \in DOMAIN d.msgs
    BY <2>3, AcceptedFacts
  <2>5. j = i
    BY <2>1, <2>3, <2>4 DEF Distinct
  <2> QED BY <2>2, <2>5
<1>2. ChainUpTo(d, 0) = <<PrimaryTurn>> /\ ChainUpTo(d, NoTurn) = <<>>
  BY DEF ChainUpTo, NoTurn
<1> QED BY <1>1, <1>2

(* The turn before a message's.                                            *)
LEMMA PrevFacts ==
  ASSUME NEW d \in Disks, NEW i \in DOMAIN d.msgs
  PROVE  /\ Max(Preceding(d, i)) \in Preceding(d, i)
         /\ Preceding(d, i) \subseteq Seqs(d, TurnsOf(d)) \cup {0}
         /\ Preceding(d, i) \subseteq Nat /\ \A n \in Preceding(d, i) : n <= Max(Preceding(d, i))
<1> DEFINE T == Preceding(d, i)
<1>1. d.msgs[i].seq \in Nat
  BY DiskFacts
<1>2. T \in SUBSET Nat /\ T # {} /\ (\A n \in T : n <= d.msgs[i].seq)
  BY <1>1, AcceptedFacts DEF Preceding
<1>3. T \subseteq Seqs(d, TurnsOf(d)) \cup {0}
  BY DEF Preceding, Seqs
<1> HIDE DEF T
<1>4. Max(T) \in T /\ \A n \in T : n <= Max(T)
  BY <1>1, <1>2, Greatest
<1> QED BY <1>2, <1>3, <1>4 DEF T

(* x has the turns of d.                                                   *)
Unturned(d, x) ==
  /\ Keeps(d, x)
  /\ \A i \in DOMAIN d.msgs :
       /\ x.msgs[i].turn = d.msgs[i].turn
       /\ \/ x.msgs[i].state = d.msgs[i].state
          \/ x.msgs[i].state \notin TurnStates /\ d.msgs[i].state \notin TurnStates
  /\ \A i \in DOMAIN x.msgs \ DOMAIN d.msgs :
       x.msgs[i].state \notin TurnStates /\ x.msgs[i].turn = <<>>

(* Writes that change no turn leave the chain as it is.                    *)
LEMMA TurnsKept ==
  ASSUME NEW d \in Disks, NEW x \in Disks, Distinct(d), Distinct(x), Unturned(d, x)
  PROVE  /\ TurnsOf(x) = TurnsOf(d) /\ UnknownOf(x) = UnknownOf(d)
         /\ Seqs(x, TurnsOf(x)) = Seqs(d, TurnsOf(d))
         /\ \A s \in Seqs(d, TurnsOf(d)) \cup {0, NoTurn} : ChainUpTo(x, s) = ChainUpTo(d, s)
         /\ \A p : LatestOf(x, p) = LatestOf(d, p)
         /\ Chained(d) /\ (UnknownOf(d) # {} => Pumped(x) = {}) => Chained(x)
<1>1. \A i \in DOMAIN d.msgs :
        /\ i \in DOMAIN x.msgs /\ x.msgs[i].seq = d.msgs[i].seq /\ x.msgs[i].turn = d.msgs[i].turn
        /\ \/ x.msgs[i].state = d.msgs[i].state
           \/ x.msgs[i].state \notin TurnStates /\ d.msgs[i].state \notin TurnStates
  BY DEF Unturned, Keeps, Same
<1>2. \A i \in DOMAIN x.msgs : i \notin DOMAIN d.msgs =>
        x.msgs[i].state \notin TurnStates /\ x.msgs[i].turn = <<>>
  BY DEF Unturned
<1>3. TurnsOf(x) = TurnsOf(d)
  BY <1>1, <1>2 DEF TurnsOf, InState, Accepted
<1>4. UnknownOf(x) = UnknownOf(d)
  BY <1>1, <1>2 DEF UnknownOf, InState, TurnStates
<1>5. TurnsOf(d) \subseteq DOMAIN d.msgs
  BY AcceptedFacts
<1>6. \A i \in TurnsOf(d) : /\ x.msgs[i].seq = d.msgs[i].seq /\ x.msgs[i].turn = d.msgs[i].turn
                           /\ x.msgs[i].state = d.msgs[i].state
  <2>1. \A i \in TurnsOf(d) : d.msgs[i].state \in TurnStates
    BY DEF TurnsOf, InState
  <2> QED BY <1>1, <1>5, <2>1
<1>7. Seqs(x, TurnsOf(x)) = Seqs(d, TurnsOf(d))
  BY <1>3, <1>6 DEF Seqs
<1>8. ASSUME NEW s \in Seqs(d, TurnsOf(d)) \cup {0, NoTurn}
      PROVE  ChainUpTo(x, s) = ChainUpTo(d, s)
  <2>1. CASE s \in {0, NoTurn}
    BY <2>1, ChainIs
  <2>2. CASE s \in Seqs(d, TurnsOf(d))
    <3>1. PICK i \in TurnsOf(d) : s = d.msgs[i].seq
      BY <2>2 DEF Seqs
    <3>2. ChainUpTo(d, d.msgs[i].seq) = d.msgs[i].turn
      BY ChainIs
    <3>3. ChainUpTo(x, x.msgs[i].seq) = x.msgs[i].turn
      BY <1>3, ChainIs
    <3> QED BY <1>6, <3>1, <3>2, <3>3
  <2> QED BY <2>1, <2>2
<1>9. ASSUME NEW p PROVE LatestOf(x, p) = LatestOf(d, p)
  BY <1>3, <1>7 DEF LatestOf
<1>10. ASSUME Chained(d), UnknownOf(d) # {} => Pumped(x) = {} PROVE Chained(x)
  <2>1. ASSUME NEW i \in UnknownOf(x)
        PROVE  /\ \A j \in UnknownOf(x) : j = i
               /\ \A j \in TurnsOf(x) : x.msgs[j].seq <= x.msgs[i].seq
               /\ Pumped(x) = {}
    <3>1. i \in UnknownOf(d) /\ i \in DOMAIN d.msgs
      BY <1>4 DEF UnknownOf, InState
    <3> QED BY <1>1, <1>3, <1>4, <1>6, <1>10, <3>1 DEF Chained
  <2>2. ASSUME NEW i \in TurnsOf(x)
        PROVE  x.msgs[i].turn = Append(ChainUpTo(x, Max(Preceding(x, i))),
                                       TurnOf(x, i, x.msgs[i].state))
    <3>1. i \in TurnsOf(d) /\ i \in DOMAIN d.msgs
      BY <1>3, <1>5
    <3>2. Preceding(x, i) = Preceding(d, i)
      BY <1>3, <1>6, <3>1 DEF Preceding
    <3>3. Max(Preceding(d, i)) \in Seqs(d, TurnsOf(d)) \cup {0, NoTurn}
      BY <3>1, PrevFacts
    <3>4. ChainUpTo(x, Max(Preceding(x, i))) = ChainUpTo(d, Max(Preceding(d, i)))
      BY <1>8, <3>2, <3>3
    <3>5. TurnOf(x, i, x.msgs[i].state) = TurnOf(d, i, d.msgs[i].state)
      BY <1>6, <3>1 DEF TurnOf
    <3>6. d.msgs[i].turn = Append(ChainUpTo(d, Max(Preceding(d, i))), TurnOf(d, i, d.msgs[i].state))
      BY <1>10, <3>1 DEF Chained
    <3> QED BY <1>6, <3>1, <3>4, <3>5, <3>6
  <2>3. ASSUME NEW i \in DOMAIN x.msgs \ TurnsOf(x) PROVE x.msgs[i].turn = <<>>
    BY <1>1, <1>2, <1>3, <1>10 DEF Chained
  <2> QED BY <2>1, <2>2, <2>3 DEF Chained
<1> QED BY <1>3, <1>4, <1>7, <1>8, <1>9, <1>10

(* The turn of message i comes after those there are.                      *)
Turned(d, x, i, o) ==
  /\ d.msgs[i].seq > 0
  /\ DOMAIN x.msgs = DOMAIN d.msgs
  /\ \A j \in DOMAIN d.msgs : j # i => x.msgs[j] = d.msgs[j]
  /\ Same(d.msgs[i], x.msgs[i]) /\ x.msgs[i].state = o
  /\ \A j \in TurnsOf(d) : d.msgs[j].seq < d.msgs[i].seq
  /\ x.msgs[i].turn = Append(ChainUpTo(d, LatestOf(d, TRUE)), TurnOf(d, i, o))

(* One more turn, after the others, extends the chain.                     *)
LEMMA TurnsAdded ==
  ASSUME NEW d \in Disks, NEW x \in Disks, Distinct(d), Distinct(x),
         NEW i \in DOMAIN d.msgs, NEW o \in TurnStates, Turned(d, x, i, o),
         Chained(d), UnknownOf(d) = {}, Pumped(x) = {}
  PROVE  /\ Chained(x) /\ TurnsOf(x) = TurnsOf(d) \cup {i}
         /\ \A s \in Seqs(d, TurnsOf(d)) \cup {0, NoTurn} : ChainUpTo(x, s) = ChainUpTo(d, s)
         /\ Seqs(x, TurnsOf(x)) = Seqs(d, TurnsOf(d)) \cup {d.msgs[i].seq}
         /\ ChainUpTo(x, d.msgs[i].seq) = x.msgs[i].turn
         /\ \A p : LatestOf(x, p) = d.msgs[i].seq
<1>1. /\ \A j \in DOMAIN d.msgs : x.msgs[j].seq = d.msgs[j].seq /\ (j # i => x.msgs[j] = d.msgs[j])
      /\ DOMAIN x.msgs = DOMAIN d.msgs /\ x.msgs[i].state = o
      /\ \A j \in TurnsOf(d) : d.msgs[j].seq < d.msgs[i].seq
      /\ d.msgs[i].seq \in Nat \ {0}
  BY DiskFacts DEF Turned, Same
<1>2. TurnsOf(d) \subseteq DOMAIN d.msgs /\ \A j \in TurnsOf(d) : d.msgs[j].seq \in Nat \ {0}
  BY AcceptedFacts
<1>3. i \notin TurnsOf(d)
  BY <1>1
<1>4. TurnsOf(x) = TurnsOf(d) \cup {i}
  BY <1>1, <1>3 DEF TurnsOf, InState, Accepted
<1>5. UnknownOf(x) \subseteq {i}
  BY <1>1 DEF UnknownOf, InState
<1>6. \A j \in TurnsOf(d) : j # i /\ x.msgs[j] = d.msgs[j]
  BY <1>1, <1>2, <1>3
<1>7. Seqs(x, TurnsOf(x)) = Seqs(d, TurnsOf(d)) \cup {d.msgs[i].seq}
  BY <1>1, <1>4, <1>6 DEF Seqs
<1>8. ASSUME NEW s \in Seqs(d, TurnsOf(d)) \cup {0, NoTurn}
      PROVE  ChainUpTo(x, s) = ChainUpTo(d, s)
  <2>1. CASE s \in {0, NoTurn}
    BY <2>1, ChainIs
  <2>2. CASE s \in Seqs(d, TurnsOf(d))
    <3>1. PICK j \in TurnsOf(d) : s = d.msgs[j].seq
      BY <2>2 DEF Seqs
    <3>2. ChainUpTo(d, d.msgs[j].seq) = d.msgs[j].turn
      BY ChainIs
    <3>3. ChainUpTo(x, x.msgs[j].seq) = x.msgs[j].turn
      BY <1>4, ChainIs
    <3> QED BY <1>6, <3>1, <3>2, <3>3
  <2> QED BY <2>1, <2>2
<1>9. ChainUpTo(x, d.msgs[i].seq) = x.msgs[i].turn
  <2>1. ChainUpTo(x, x.msgs[i].seq) = x.msgs[i].turn
    BY <1>4, ChainIs
  <2> QED BY <1>1, <2>1
<1>10. ASSUME NEW p PROVE LatestOf(x, p) = d.msgs[i].seq
  <2> DEFINE T == Seqs(x, TurnsOf(x))
             s == d.msgs[i].seq
  <2>1. T \in SUBSET Nat /\ s \in T /\ s \in Nat /\ \A n \in T : n <= s
    <3>1. \A n \in Seqs(d, TurnsOf(d)) : n \in Nat /\ n <= s
      BY <1>1, <1>2 DEF Seqs
    <3> QED BY <1>1, <1>7, <3>1
  <2>2. LatestOf(x, p) = Max(T)
    BY <1>4 DEF LatestOf
  <2> HIDE DEF T, s
  <2>3. Max(T) \in T /\ \A n \in T : n <= Max(T)
    BY <2>1, Greatest
  <2>4. Max(T) \in Nat /\ Max(T) <= s /\ s <= Max(T)
    BY <2>1, <2>3
  <2>5. Max(T) = s
    BY <2>1, <2>4
  <2> QED BY <2>2, <2>5 DEF s
<1>11. ASSUME NEW j \in TurnsOf(x)
       PROVE  x.msgs[j].turn = Append(ChainUpTo(x, Max(Preceding(x, j))),
                                      TurnOf(x, j, x.msgs[j].state))
  <2>1. CASE j = i
    <3> DEFINE T == Preceding(x, i)
               s == LatestOf(d, TRUE)
    <3>1. T = Seqs(d, TurnsOf(d)) \cup {0}
      <4>1. {k \in TurnsOf(x) : x.msgs[k].seq < x.msgs[i].seq} = TurnsOf(d)
        BY <1>1, <1>2, <1>3, <1>4, <1>6
      <4> QED BY <1>6, <4>1 DEF Preceding, Seqs
    <3>2. T \in SUBSET Nat /\ Max(T) \in T /\ \A n \in T : n <= Max(T)
      BY <1>1, PrevFacts
    <3>3. s \in T /\ \A n \in T : n <= s
      <4>1. CASE TurnsOf(d) = {}
        BY <3>1, <4>1 DEF LatestOf, Seqs
      <4>2. CASE TurnsOf(d) # {}
        <5> DEFINE U == Seqs(d, TurnsOf(d))
        <5>1. U \in SUBSET Nat /\ U # {} /\ \A n \in U : n <= d.msgs[i].seq
          BY <1>1, <1>2, <4>2 DEF Seqs
        <5>2. d.msgs[i].seq \in Nat /\ s = Max(U)
          BY <1>1, <4>2 DEF LatestOf
        <5> HIDE DEF U, s
        <5>3. Max(U) \in U /\ \A n \in U : n <= Max(U)
          BY <5>1, <5>2, Greatest
        <5>4. Max(U) \in Nat
          BY <5>1, <5>3
        <5> QED BY <3>1, <5>2, <5>3, <5>4 DEF U
      <4> QED BY <4>1, <4>2
    <3>4. Max(T) = s
      <4> HIDE DEF T, s
      <4>1. Max(T) \in Nat /\ s \in Nat /\ Max(T) <= s /\ s <= Max(T)
        BY <3>2, <3>3
      <4> QED BY <4>1
    <3>5. s \in Seqs(d, TurnsOf(d)) \cup {0, NoTurn}
      BY <3>1, <3>3
    <3>6. x.msgs[i].turn = Append(ChainUpTo(d, s), TurnOf(d, i, o))
      BY DEF Turned
    <3>7. TurnOf(x, i, x.msgs[i].state) = TurnOf(d, i, o)
      BY <1>1 DEF TurnOf
    <3> HIDE DEF T, s
    <3>8. ChainUpTo(x, Max(T)) = ChainUpTo(d, s)
      BY <1>8, <3>4, <3>5
    <3> QED BY <2>1, <3>6, <3>7, <3>8 DEF T
  <2>2. CASE j # i
    <3>1. j \in TurnsOf(d) /\ j \in DOMAIN d.msgs
      BY <1>2, <1>4, <2>2
    <3>2. Preceding(x, j) = Preceding(d, j)
      <4>1. {k \in TurnsOf(x) : x.msgs[k].seq < x.msgs[j].seq}
              = {k \in TurnsOf(d) : d.msgs[k].seq < d.msgs[j].seq}
        <5>1. ~(x.msgs[i].seq < x.msgs[j].seq)
          BY <1>1, <1>2, <3>1
        <5> QED BY <1>4, <1>6, <3>1, <5>1
      <4> QED BY <1>6, <4>1 DEF Preceding
    <3>3. Max(Preceding(d, j)) \in Seqs(d, TurnsOf(d)) \cup {0, NoTurn}
      BY <3>1, PrevFacts
    <3>4. ChainUpTo(x, Max(Preceding(x, j))) = ChainUpTo(d, Max(Preceding(d, j)))
      BY <1>8, <3>2, <3>3
    <3>5. TurnOf(x, j, x.msgs[j].state) = TurnOf(d, j, d.msgs[j].state)
      BY <1>6, <3>1 DEF TurnOf
    <3>6. d.msgs[j].turn = Append(ChainUpTo(d, Max(Preceding(d, j))), TurnOf(d, j, d.msgs[j].state))
      BY <3>1 DEF Chained
    <3> QED BY <1>6, <3>1, <3>4, <3>5, <3>6
  <2> QED BY <2>1, <2>2
<1>12. Chained(x)
  <2>1. ASSUME NEW j \in UnknownOf(x)
        PROVE  /\ \A k \in UnknownOf(x) : k = j
               /\ \A k \in TurnsOf(x) : x.msgs[k].seq <= x.msgs[j].seq
               /\ Pumped(x) = {}
    <3>1. j = i
      BY <1>5
    <3>2. \A k \in TurnsOf(x) : x.msgs[k].seq <= x.msgs[i].seq
      <4>1. \A k \in TurnsOf(d) : x.msgs[k].seq < x.msgs[i].seq /\ x.msgs[k].seq \in Nat
        BY <1>1, <1>2, <1>6
      <4> QED BY <1>1, <1>4, <4>1
    <3> QED BY <1>5, <3>1, <3>2
  <2>2. ASSUME NEW j \in DOMAIN x.msgs \ TurnsOf(x) PROVE x.msgs[j].turn = <<>>
    BY <1>1, <1>4 DEF Chained
  <2> QED BY <1>11, <2>1, <2>2 DEF Chained
<1> QED BY <1>4, <1>7, <1>8, <1>9, <1>10, <1>12

(* Recovery accepts it.                                                    *)
LEMMA CoherentIsConsistent == ASSUME NEW d \in Sound PROVE Consistent(d)
<1> SUFFICES ASSUME d.att # NoAttempt
             PROVE  ConsistentMessages(d) /\ ConsistentTurns(d) /\ ConsistentAttempt(d)
  BY DEF Consistent
<1>0. d \in Disks /\ Numbered(d) /\ Queued(d) /\ Counted(d) /\ Chained(d) /\ Fits(d, d.att)
  BY DEF Sound, Coherent
<1>1. /\ d.att \in Attempt /\ d.att.count \in Nat /\ d.att.active \in Nat
      /\ Cardinality(Accepted(d)) \in Nat /\ IsFiniteSet(DOMAIN d.msgs)
  BY <1>0, DiskFacts, AcceptedFacts DEF Attempt
<1>2. ASSUME NEW S \in SUBSET DOMAIN d.msgs, \A i, j \in S : i = j PROVE Cardinality(S) <= 1
  <2>1. CASE S = {}
    BY <2>1, FS_EmptySet
  <2>2. CASE S # {}
    <3>1. PICK i \in S : TRUE
      BY <2>2
    <3>2. S = {i}
      BY <1>2, <3>1
    <3>3. Cardinality({i}) = 1
      BY FS_Singleton
    <3> QED BY <3>2, <3>3
  <2> QED BY <2>1, <2>2
<1>3. ConsistentMessages(d)
  <2>1. Cardinality(Pumped(d)) <= 1
    <3>1. Pumped(d) \in SUBSET DOMAIN d.msgs
      BY DEF Pumped, InState
    <3>2. \A i, j \in Pumped(d) : i = j
      BY <1>0 DEF Queued, Pumped, InState, Is
    <3> QED BY <1>2, <3>1, <3>2
  <2>2. d.att.active # NoMessage => d.att.active \in 1..Cardinality(Accepted(d))
    BY <1>0, <1>1 DEF Fits, NoMessage
  <2> QED BY <1>0, <2>1, <2>2 DEF ConsistentMessages, Counted, Fits
<1>4. ConsistentTurns(d)
  <2>1. Cardinality(UnknownOf(d)) <= 1
    <3>1. UnknownOf(d) \in SUBSET DOMAIN d.msgs
      BY DEF UnknownOf, InState
    <3>2. \A i, j \in UnknownOf(d) : i = j
      BY <1>0 DEF Chained
    <3> QED BY <1>2, <3>1, <3>2
  <2>2. \A i \in UnknownOf(d), j \in TurnsOf(d) : d.msgs[j].seq <= d.msgs[i].seq
    BY <1>0 DEF Chained
  <2>3. TurnsOf(d) # {} => d.att.primary
    BY <1>0, <1>1 DEF Fits, Attempt
  <2> QED BY <1>0, <2>1, <2>2, <2>3 DEF ConsistentTurns, Chained, Preceding
<1>5. ConsistentAttempt(d)
  BY <1>0 DEF ConsistentAttempt, Fits
<1> QED BY <1>3, <1>4, <1>5

(* An attempt still fits after a write that changes no turn.               *)
LEMMA FitsKept ==
  ASSUME NEW d \in Disks, NEW x \in Disks, Distinct(d), Distinct(x), Unturned(d, x),
         NEW a \in Attempt, Fits(d, a), a.primary \/ Pumped(x) = {},
         Cardinality(Accepted(d)) <= Cardinality(Accepted(x)),
         Bytes(x, a.count) = Bytes(d, a.count)
  PROVE  Fits(x, a)
<1>1. /\ TurnsOf(x) = TurnsOf(d) /\ Seqs(x, TurnsOf(x)) = Seqs(d, TurnsOf(d))
      /\ \A s \in Seqs(d, TurnsOf(d)) \cup {0, NoTurn} : ChainUpTo(x, s) = ChainUpTo(d, s)
      /\ \A p : LatestOf(x, p) = LatestOf(d, p)
  BY TurnsKept
<1>2. a.count <= Cardinality(Accepted(x))
  BY AcceptedFacts DEF Fits, Attempt
<1>3. a.chain = ChainUpTo(x, a.last) /\ a.last \in Seqs(x, TurnsOf(x)) \cup {0, NoTurn}
  BY <1>1 DEF Fits
<1>4. a.state = "closed" => a.last = LatestOf(x, a.primary)
  BY <1>1 DEF Fits
<1> QED BY <1>1, <1>2, <1>3, <1>4 DEF Fits

(* A write that keeps the keys and the numbers keeps them distinct.        *)
LEMMA DistinctKept ==
  ASSUME NEW d, NEW x, Distinct(d), Keeps(d, x), DOMAIN x.msgs = DOMAIN d.msgs
  PROVE  Distinct(x)
BY DEF Distinct, Keeps, Same

(* No message is added and no turn.                                        *)
LEMMA CoherentKept ==
  ASSUME NEW d \in Disks, NEW x \in Disks, Distinct(d), Coherent(d), x.att = d.att,
         DOMAIN x.msgs = DOMAIN d.msgs, Unturned(d, x),
         Pumped(x) # {} => d.att # NoAttempt /\ d.att.primary /\ UnknownOf(d) = {}
  PROVE  Coherent(x)
<1>1. CASE d.att = NoAttempt
  <2>1. x.msgs \in Seq(Message) /\ Len(x.msgs) \in Nat /\ 1..Len(x.msgs) = {}
    BY <1>1, DiskFacts DEF Coherent
  <2>2. Len(x.msgs) = 0
    BY <2>1
  <2>3. x.msgs = <<>>
    BY <2>1, <2>2, EmptySeq
  <2> QED BY <1>1, <2>3 DEF Coherent
<1>2. CASE d.att # NoAttempt
  <2>1. Keeps(d, x) /\ Distinct(x)
    BY DistinctKept DEF Unturned
  <2>2. /\ Accepted(x) = Accepted(d) /\ (Counted(d) => Counted(x))
        /\ \A n \in Nat : Bytes(x, n) = Bytes(d, n)
    BY <2>1, CountsKept
  <2>3. d.att \in Attempt /\ Counted(d) /\ Chained(d) /\ Fits(d, d.att)
    BY <1>2, DiskFacts DEF Coherent
  <2>4. d.att.count \in Nat /\ Cardinality(Accepted(d)) \in Nat
    BY <2>3, AcceptedFacts DEF Attempt
  <2>5. Chained(x)
    BY <2>1, <2>3, TurnsKept
  <2>6. d.att.primary \/ Pumped(x) = {}
    OBVIOUS
  <2>7. Fits(x, d.att)
    <3>1. Cardinality(Accepted(d)) <= Cardinality(Accepted(x))
      BY <2>2, <2>4
    <3>2. Bytes(x, d.att.count) = Bytes(d, d.att.count)
      BY <2>2, <2>4
    <3> QED BY <2>1, <2>3, <2>6, <3>1, <3>2, FitsKept
  <2> QED BY <1>2, <2>2, <2>3, <2>5, <2>7 DEF Coherent
<1> QED BY <1>1, <1>2

(* A turn is added, to the attempt that will say so.                       *)
LEMMA CoherentTurned ==
  ASSUME NEW d \in Disks, NEW x \in Disks, Distinct(d), Coherent(d), x.att = d.att,
         d.att # NoAttempt, d.att.primary, ~Shut(d.att), UnknownOf(d) = {}, Pumped(x) = {},
         NEW i \in DOMAIN d.msgs, NEW o \in TurnStates, Turned(d, x, i, o)
  PROVE  Coherent(x)
<1>1. Keeps(d, x) /\ DOMAIN x.msgs = DOMAIN d.msgs
  BY DEF Keeps, Turned, Same
<1>2. Distinct(x)
  BY <1>1, DistinctKept
<1>3. /\ Accepted(x) = Accepted(d) /\ (Counted(d) => Counted(x))
      /\ \A n \in Nat : Bytes(x, n) = Bytes(d, n)
  BY <1>1, CountsKept
<1>4. /\ d.att \in Attempt /\ Counted(d) /\ Chained(d) /\ Fits(d, d.att) /\ d.att.count \in Nat
  BY DiskFacts DEF Coherent, Attempt
<1>5. /\ Chained(x)
      /\ \A s \in Seqs(d, TurnsOf(d)) \cup {0, NoTurn} : ChainUpTo(x, s) = ChainUpTo(d, s)
      /\ Seqs(x, TurnsOf(x)) = Seqs(d, TurnsOf(d)) \cup {d.msgs[i].seq}
  BY <1>2, <1>4, TurnsAdded
<1>6. Fits(x, d.att)
  <2>1. d.att.chain = ChainUpTo(x, d.att.last)
        /\ d.att.last \in Seqs(x, TurnsOf(x)) \cup {0, NoTurn}
    BY <1>4, <1>5 DEF Fits
  <2>2. d.att.count <= Cardinality(Accepted(x)) /\ d.att.bytes = Bytes(x, d.att.count)
    BY <1>3, <1>4 DEF Fits
  <2>3. d.att.state # "closed"
    BY DEF Shut
  <2> QED BY <1>4, <2>1, <2>2, <2>3 DEF Fits
<1> QED BY <1>3, <1>4, <1>5, <1>6 DEF Coherent

(* What was sent, and what the provider reported.                          *)
Truthful(d, s, a) ==
  /\ s \in Seq(Nat)
  /\ \A n \in DOMAIN s : s[n] \in DOMAIN d.msgs /\ Is(d, s[n], {"inflight"} \cup TurnStates)
  /\ \A n \in DOMAIN s : n < Len(s) => Is(d, s[n], {"delivered"})
  /\ \A n, m \in DOMAIN s : n < m => d.msgs[s[n]].seq < d.msgs[s[m]].seq
  /\ \A i \in DOMAIN d.msgs : Is(d, i, {"delivered"}) => i \in a
  /\ \A i \in a : \E n \in DOMAIN s : s[n] = i

AllDelivered(d, s) == \A n \in DOMAIN s : Is(d, s[n], {"delivered"})
AllBefore(d, s, i) == \A n \in DOMAIN s : d.msgs[s[n]].seq < d.msgs[i].seq

-----------------------------------------------------------------------------
(* What a transaction makes of a disk, in any number of writes.  D grants  *)
(* it what it may do: <<i, "accepted">> lets it add message i, <<i, s>>    *)
(* for another state s lets it bring message i there.                      *)
Onto(m, n) ==
  /\ Same(m, n)
  /\ m.state \in FinalStates => n = m
  /\ m.state = "inflight" => n.state \in {"inflight"} \cup TurnStates

Advances(a, b) == (a.primary => b.primary) /\ (Shut(a) => Shut(b))

Granted(d, x, D) ==
  \A i \in DOMAIN x.msgs :
    /\ i \in DOMAIN d.msgs \/ <<i, "accepted">> \in D
    /\ x.msgs[i].state \in TurnStates
         => \/ <<i, x.msgs[i].state>> \in D
            \/ i \in DOMAIN d.msgs /\ d.msgs[i].state = x.msgs[i].state

Onward(d, x, D) ==
  /\ x \in Sound
  /\ DOMAIN d.msgs \subseteq DOMAIN x.msgs
  /\ d.att # NoAttempt => x.att # NoAttempt /\ Advances(d.att, x.att)
  /\ d.att.state = "closed" => x.att.state = "closed" /\ x.msgs = d.msgs
  /\ \A i \in DOMAIN d.msgs : Onto(d.msgs[i], x.msgs[i])
  /\ Granted(d, x, D)

(* The same messages need no grant.                                        *)
LEMMA SameGranted == ASSUME NEW D, NEW d, NEW x, x.msgs = d.msgs PROVE Granted(d, x, D)
BY DEF Granted

(* To stay is to go onward.                                                *)
LEMMA Stays == ASSUME NEW D, NEW d \in Sound PROVE Onward(d, d, D)
BY SameGranted DEF Onward, Onto, Same, Advances

(* To go onward twice is to go onward.                                     *)
LEMMA Onwards ==
  ASSUME NEW D, NEW d \in Sound, NEW e, Onward(d, e, D), NEW x, Onward(e, x, D)
  PROVE  Onward(d, x, D)
<1>1. ASSUME NEW i \in DOMAIN d.msgs PROVE Onto(d.msgs[i], x.msgs[i])
  <2>1. i \in DOMAIN e.msgs /\ Onto(d.msgs[i], e.msgs[i]) /\ Onto(e.msgs[i], x.msgs[i])
    BY DEF Onward
  <2> QED BY <2>1 DEF Onto, Same, FinalStates, TurnStates
<1>2. Granted(d, x, D)
  <2>1. Granted(d, e, D) /\ Granted(e, x, D)
    BY DEF Onward
  <2> QED BY <2>1 DEF Granted
<1>3. /\ x \in Sound /\ DOMAIN d.msgs \subseteq DOMAIN x.msgs
      /\ d.att # NoAttempt => x.att # NoAttempt /\ Advances(d.att, x.att)
      /\ d.att.state = "closed" => x.att.state = "closed" /\ x.msgs = d.msgs
  BY DEF Onward, Advances
<1> QED BY <1>1, <1>2, <1>3 DEF Onward

Leads(d, t, D) == Trace(Sound, d, t) /\ \A x \in Range(t) : Onward(d, x, D)

(* Where a trace that leads onward gets.                                   *)
LEMMA LeadsFacts ==
  ASSUME NEW D, NEW d, NEW t, Leads(d, t, D)
  PROVE  /\ Last(t) \in Sound /\ Onward(d, Last(t), D)
         /\ \A x \in Range(t) : x \in Sound /\ Onward(d, x, D)
BY TraceFacts DEF Leads

(* The trace of no write leads onward.                                     *)
LEMMA LeadsNowhere == ASSUME NEW D, NEW d \in Sound PROVE Leads(d, <<d>>, D) /\ Last(<<d>>) = d
<1>1. Trace(Sound, d, <<d>>) /\ Last(<<d>>) = d
  BY Short
<1>2. Range(<<d>>) = {d}
  BY DEF Range
<1> QED BY <1>1, <1>2, Stays DEF Leads

(* The trace of one write.                                                 *)
LEMMA LeadsTo ==
  ASSUME NEW D, NEW d \in Sound, NEW x, Onward(d, x, D)
  PROVE  Leads(d, <<d, x>>, D) /\ Last(<<d, x>>) = x
<1>1. x \in Sound
  BY DEF Onward
<1>2. Trace(Sound, d, <<d, x>>) /\ Last(<<d, x>>) = x
  BY <1>1 DEF Trace, Last
<1>3. \A y \in Range(<<d, x>>) : y = d \/ y = x
  BY DEF Range
<1> QED BY <1>2, <1>3, Stays DEF Leads

(* One trace after the other.                                              *)
LEMMA LeadsThen ==
  ASSUME NEW D, NEW d \in Sound, NEW t, Leads(d, t, D), NEW u, Leads(Last(t), u, D)
  PROVE  Leads(d, t \o Tail(u), D) /\ Last(t \o Tail(u)) = Last(u)
<1> DEFINE w == t \o Tail(u)
<1>1. Trace(Sound, d, w) /\ Last(w) = Last(u) /\ Range(w) \subseteq Range(t) \cup Range(u)
  BY Joined DEF Leads
<1> HIDE DEF w
<1>2. ASSUME NEW x \in Range(w) PROVE Onward(d, x, D)
  <2>1. CASE x \in Range(t)
    BY <2>1 DEF Leads
  <2>2. CASE x \in Range(u)
    <3>1. Onward(Last(t), x, D) /\ Onward(d, Last(t), D)
      BY <2>2, LeadsFacts DEF Leads
    <3> QED BY <3>1, Onwards
  <2> QED BY <1>1, <2>1, <2>2
<1> QED BY <1>1, <1>2 DEF Leads, w

-----------------------------------------------------------------------------
(* The single writes.                                                      *)
Settling(m, n) ==
  \/ n = m
  \/ Same(m, n) /\ m.state \in RetainingStates /\ n.state = "rejected"
  \/ Same(m, n) /\ m.state = "inflight" /\ n.state \in TurnStates

(* Messages that settle, nothing else written, take the disk onward.       *)
LEMMA MessagesSettled ==
  ASSUME NEW D, NEW d \in Sound, NEW x \in Disks,
         x.att = d.att, x.noted = d.noted, DOMAIN x.msgs = DOMAIN d.msgs, Coherent(x),
         \A i \in DOMAIN d.msgs : Settling(d.msgs[i], x.msgs[i]),
         Granted(d, x, D)
  PROVE  Onward(d, x, D)
<1> USE DEF Is, Settling, Same, ActiveStates, RetainingStates, TurnStates, FinalStates
<1>0. d \in Disks /\ Numbered(d) /\ Distinct(d) /\ Queued(d) /\ Sealed(d) /\ TrueNotes(d)
  BY DEF Sound
<1>1. Numbered(x)
  BY <1>0 DEF Numbered
<1>2. Distinct(x)
  BY <1>0 DEF Distinct
<1>3. Queued(x)
  <2> SUFFICES ASSUME NEW i \in DOMAIN x.msgs, NEW j \in DOMAIN x.msgs
      PROVE  /\ Is(x, i, TurnStates) /\ Is(x, j, ActiveStates) => x.msgs[i].seq < x.msgs[j].seq
             /\ Is(x, i, {"claimed", "inflight"}) /\ Is(x, j, {"accepted"})
                  => x.msgs[i].seq < x.msgs[j].seq
             /\ Is(x, i, {"claimed", "inflight"}) /\ Is(x, j, {"claimed", "inflight"}) => i = j
    BY DEF Queued
  <2>1. Settling(d.msgs[i], x.msgs[i]) /\ Settling(d.msgs[j], x.msgs[j])
    OBVIOUS
  <2>2. /\ Is(d, i, TurnStates) /\ Is(d, j, ActiveStates) => d.msgs[i].seq < d.msgs[j].seq
        /\ Is(d, i, {"claimed", "inflight"}) /\ Is(d, j, {"accepted"})
             => d.msgs[i].seq < d.msgs[j].seq
        /\ Is(d, i, {"claimed", "inflight"}) /\ Is(d, j, {"claimed", "inflight"}) => i = j
    BY <1>0 DEF Queued
  <2> QED BY <2>1, <2>2
<1>4. Sealed(x)
  BY <1>0 DEF Sealed
<1>5. TrueNotes(x)
  BY <1>0 DEF TrueNotes
<1>6. ASSUME d.att.state = "closed" PROVE x.msgs = d.msgs
  <2>1. \A i \in DOMAIN d.msgs : x.msgs[i] = d.msgs[i]
    BY <1>0, <1>6 DEF Sealed, Shut
  <2>2. x.msgs \in Seq(Message) /\ d.msgs \in Seq(Message)
    BY <1>0, DiskFacts
  <2>3. x.msgs = [i \in DOMAIN d.msgs |-> x.msgs[i]] /\ d.msgs = [i \in DOMAIN d.msgs |-> d.msgs[i]]
    BY <2>2
  <2> QED BY <2>1, <2>3
<1>7. \A i \in DOMAIN d.msgs : Onto(d.msgs[i], x.msgs[i])
  BY DEF Onto
<1>8. x \in Sound
  BY <1>1, <1>2, <1>3, <1>4, <1>5 DEF Sound
<1>9. d.att.state = "closed" => x.att.state = "closed" /\ x.msgs = d.msgs
  BY <1>6
<1>10. Advances(d.att, x.att)
  BY DEF Advances
<1> QED BY <1>7, <1>8, <1>9, <1>10, Zenon DEF Onward

(* The attempt a may be written.                                           *)
Becomes(d, a) ==
  /\ Counted(d) /\ Chained(d) /\ Fits(d, a)
  /\ Shut(a) => \A i \in DOMAIN d.msgs : ~Is(d, i, ActiveStates)
  /\ d.att # NoAttempt => Advances(d.att, a)
  /\ d.att.state = "closed" => a.state = "closed"

(* An attempt record that fits takes the disk onward.                      *)
LEMMA AttemptSound ==
  ASSUME NEW D, NEW d \in Sound, NEW a \in Attempt, Becomes(d, a)
  PROVE  LET x == [d EXCEPT !.att = a]
         IN Onward(d, x, D) /\ x.att = a /\ x.msgs = d.msgs
<1> DEFINE x == [d EXCEPT !.att = a]
<1>0. d \in Disks /\ Numbered(d) /\ Distinct(d) /\ Queued(d) /\ Sealed(d) /\ TrueNotes(d)
  BY DEF Sound
<1>1. x \in Disks /\ x.att = a /\ x.msgs = d.msgs /\ x.noted = d.noted
  BY <1>0, AttemptWritten
<1>2. a # NoAttempt
  BY <1>1, DiskFacts
<1> HIDE DEF x
<1>3. Sealed(x)
  BY <1>1 DEF Becomes, Sealed, Is
<1>4. Distinct(x) /\ Numbered(x) /\ Queued(x) /\ TrueNotes(x)
  BY <1>0, <1>1 DEF Numbered, Distinct, Queued, TrueNotes, Is
<1>5. Coherent(x)
  <2>1. Keeps(d, x) /\ Unturned(d, x)
    BY <1>1 DEF Keeps, Unturned, Same
  <2>2. Pumped(x) = Pumped(d) /\ Cardinality(Accepted(d)) \in Nat /\ a.count \in Nat
    BY <1>0, <1>1, AcceptedFacts DEF Pumped, InState, Attempt
  <2>3. /\ Accepted(x) = Accepted(d) /\ (Counted(d) => Counted(x))
        /\ \A n \in Nat : Bytes(x, n) = Bytes(d, n)
    BY <1>0, <1>1, <2>1, CountsKept
  <2>4. Chained(d) /\ (UnknownOf(d) # {} => Pumped(x) = {})
    BY <2>2 DEF Becomes, Chained
  <2>5. Chained(x)
    BY <1>0, <1>1, <1>4, <2>1, <2>4, TurnsKept
  <2>6. Fits(x, a)
    <3>1. Fits(d, a) /\ (a.primary \/ Pumped(x) = {})
      BY <2>2 DEF Becomes, Fits
    <3>2. Cardinality(Accepted(d)) <= Cardinality(Accepted(x))
      BY <2>2, <2>3
    <3>3. Bytes(x, a.count) = Bytes(d, a.count)
      BY <2>2, <2>3
    <3> QED BY <1>0, <1>1, <1>4, <2>1, <3>1, <3>2, <3>3, FitsKept
  <2> QED BY <1>1, <1>2, <2>3, <2>5, <2>6 DEF Coherent, Becomes
<1>6. x \in Sound
  BY <1>1, <1>3, <1>4, <1>5 DEF Sound
<1>7. \A i \in DOMAIN d.msgs : Onto(d.msgs[i], x.msgs[i])
  BY <1>1 DEF Onto, Same
<1>8. Granted(d, x, D)
  BY <1>1, SameGranted
<1> QED BY <1>1, <1>2, <1>6, <1>7, <1>8 DEF Onward, Is, Becomes, x

(* writeAttempt of a record that fits.                                     *)
LEMMA AttemptLeads ==
  ASSUME NEW D, NEW d \in Sound, NEW a \in Attempt, Becomes(d, a)
  PROVE  /\ Leads(d, WriteAttempt(d, a), D)
         /\ Last(WriteAttempt(d, a)).att = a /\ Last(WriteAttempt(d, a)).msgs = d.msgs
<1> DEFINE x == [d EXCEPT !.att = a]
<1>1. Onward(d, x, D) /\ x.att = a /\ x.msgs = d.msgs
  BY AttemptSound
<1>2. WriteAttempt(d, a) = <<d, x>>
  BY DEF WriteAttempt
<1> HIDE DEF x
<1> QED BY <1>1, <1>2, LeadsTo

Allowed(m, i, D) == m.state \in TurnStates => <<i, m.state>> \in D

Wrote(d, t, i, m) ==
  /\ Last(t).att = d.att /\ DOMAIN Last(t).msgs = DOMAIN d.msgs
  /\ \A j \in DOMAIN d.msgs : Last(t).msgs[j] = IF j = i THEN m ELSE d.msgs[j]

(* writeMessage of a message that settles.                                 *)
LEMMA MessageLeads ==
  ASSUME NEW D, NEW d \in Sound, NEW i \in DOMAIN d.msgs, NEW m \in Message,
         Settling(d.msgs[i], m), Allowed(m, i, D), Coherent([d EXCEPT !.msgs[i] = m])
  PROVE  Leads(d, WriteMessage(d, i, m), D) /\ Wrote(d, WriteMessage(d, i, m), i, m)
<1> DEFINE x == [d EXCEPT !.msgs[i] = m]
<1>1. /\ x \in Disks /\ x.att = d.att /\ x.noted = d.noted /\ Coherent(x)
      /\ DOMAIN x.msgs = DOMAIN d.msgs
      /\ \A j \in DOMAIN d.msgs : x.msgs[j] = IF j = i THEN m ELSE d.msgs[j]
  BY MessageWritten DEF Sound
<1>2. WriteMessage(d, i, m) = <<d, x>>
  BY DEF WriteMessage
<1> HIDE DEF x
<1>3. \A j \in DOMAIN d.msgs : Settling(d.msgs[j], x.msgs[j])
  BY <1>1 DEF Settling
<1>4. Granted(d, x, D)
  BY <1>1 DEF Granted, Allowed
<1>5. Onward(d, x, D)
  BY <1>1, <1>3, <1>4, MessagesSettled
<1>6. Leads(d, <<d, x>>, D) /\ Last(<<d, x>>) = x
  BY <1>5, LeadsTo
<1> QED BY <1>1, <1>2, <1>6 DEF Wrote

(* Where the pump may hold a message.                                      *)
LEMMA PumpedFacts ==
  ASSUME NEW d \in Sound, Pumped(d) # {}
  PROVE  d.att # NoAttempt /\ d.att.primary /\ UnknownOf(d) = {} /\ ~Shut(d.att)
<1>0. Coherent(d) /\ d \in Disks /\ Sealed(d)
  BY DEF Sound
<1>1. PICK i \in DOMAIN d.msgs : d.msgs[i].state \in {"claimed", "inflight"}
  BY DEF Pumped, InState
<1>2. ~Shut(d.att)
  BY <1>0, <1>1 DEF Sealed, Is, ActiveStates
<1>3. d.att # NoAttempt
  BY <1>2 DEF Shut, NoAttempt
<1>4. Chained(d) /\ Fits(d, d.att) /\ d.att.primary \in BOOLEAN
  BY <1>0, <1>3, DiskFacts DEF Coherent, Attempt
<1> QED BY <1>2, <1>3, <1>4 DEF Chained, Fits

(* writeMessage of a message rejected while it waits.                      *)
LEMMA MessageRejected ==
  ASSUME NEW D, NEW d \in Sound, NEW i \in DOMAIN d.msgs, Is(d, i, RetainingStates)
  PROVE  LET m == [d.msgs[i] EXCEPT !.state = "rejected"]
         IN Leads(d, WriteMessage(d, i, m), D) /\ Wrote(d, WriteMessage(d, i, m), i, m)
<1> DEFINE m == [d.msgs[i] EXCEPT !.state = "rejected"]
           x == [d EXCEPT !.msgs[i] = m]
<1>0. d \in Disks /\ Distinct(d) /\ Coherent(d) /\ d.msgs[i] \in Message /\ "rejected" \in States
  BY DiskFacts DEF Sound, States, FinalStates
<1>1. m \in Message /\ Same(d.msgs[i], m) /\ m.state = "rejected" /\ m.turn = d.msgs[i].turn
  BY <1>0, StateWritten DEF Same
<1> HIDE DEF m
<1>2. /\ x \in Disks /\ x.att = d.att /\ DOMAIN x.msgs = DOMAIN d.msgs
      /\ \A j \in DOMAIN d.msgs : x.msgs[j] = IF j = i THEN m ELSE d.msgs[j]
  BY <1>0, <1>1, MessageWritten
<1> HIDE DEF x
<1>3. Unturned(d, x)
  BY <1>1, <1>2 DEF Unturned, Keeps, Same, Is, RetainingStates, TurnStates
<1>4. Pumped(x) # {} => d.att # NoAttempt /\ d.att.primary /\ UnknownOf(d) = {}
  <2>1. Pumped(x) \subseteq Pumped(d)
    BY <1>1, <1>2 DEF Pumped, InState
  <2> QED BY <2>1, PumpedFacts
<1>5. Coherent(x)
  BY <1>0, <1>2, <1>3, <1>4, CoherentKept
<1>6. Settling(d.msgs[i], m) /\ Allowed(m, i, D)
  BY <1>1 DEF Settling, Is, Allowed, TurnStates
<1> QED BY <1>1, <1>5, <1>6, MessageLeads DEF m, x

(* A turn is written to message i, and then to the attempt.                *)
Settles(d, i, o, m) ==
  m = [d.msgs[i] EXCEPT !.state = o, !.turn = Append(d.att.chain, TurnOf(d, i, o))]

Reports(d, m, a) ==
  /\ a.count = d.att.count /\ a.bytes = d.att.bytes /\ a.final = d.att.final
  /\ a.active = NoMessage /\ a.primary /\ a.chain = m.turn /\ a.last = m.seq
  /\ a.state \notin {"closed", "preparing"}
  /\ a.unknown # NoMessage => Shut(a)

(* writeMessage of a message whose turn is known or unknown now.           *)
LEMMA TurnLeads ==
  ASSUME NEW D, NEW d \in Sound, NEW i \in DOMAIN d.msgs, Is(d, i, {"inflight"}),
         NEW o \in TurnStates, NEW m \in Message, Settles(d, i, o, m), Allowed(m, i, D),
         d.att.last = LatestOf(d, TRUE)
  PROVE  /\ Leads(d, WriteMessage(d, i, m), D) /\ Wrote(d, WriteMessage(d, i, m), i, m)
         /\ \A a \in Attempt : Reports(d, m, a) => Fits(Last(WriteMessage(d, i, m)), a)
         /\ Pumped(Last(WriteMessage(d, i, m))) = {}
<1> DEFINE x == [d EXCEPT !.msgs[i] = m]
<1>0. /\ d \in Disks /\ Distinct(d) /\ Numbered(d) /\ Queued(d) /\ Coherent(d)
      /\ d.msgs[i] \in Message /\ d.msgs[i].seq \in Nat
  BY DiskFacts DEF Sound
<1>1. d.att # NoAttempt /\ d.att.primary /\ UnknownOf(d) = {} /\ ~Shut(d.att)
  <2>1. Pumped(d) # {}
    BY DEF Pumped, InState, Is
  <2> QED BY <2>1, PumpedFacts
<1>2. Counted(d) /\ Chained(d) /\ Fits(d, d.att) /\ d.att \in Attempt
  BY <1>0, <1>1, DiskFacts DEF Coherent
<1>3. /\ Same(d.msgs[i], m) /\ m.state = o
      /\ m.turn = Append(ChainUpTo(d, LatestOf(d, TRUE)), TurnOf(d, i, o))
  BY <1>0, <1>2 DEF Settles, Same, Message, Fits
<1>4. /\ x \in Disks /\ x.att = d.att /\ x.noted = d.noted /\ DOMAIN x.msgs = DOMAIN d.msgs
      /\ \A j \in DOMAIN d.msgs : x.msgs[j] = IF j = i THEN m ELSE d.msgs[j]
  BY <1>0, MessageWritten
<1>5. WriteMessage(d, i, m) = <<d, x>>
  BY DEF WriteMessage
<1> HIDE DEF x
<1>6. Turned(d, x, i, o)
  <2>1. d.msgs[i].seq > 0 /\ d.msgs[i].state = "inflight"
    BY <1>0 DEF Numbered, Is
  <2>2. \A j \in TurnsOf(d) : d.msgs[j].seq < d.msgs[i].seq
    BY <1>0, <2>1 DEF Queued, Is, TurnsOf, InState, ActiveStates
  <2> QED BY <1>3, <1>4, <2>1, <2>2 DEF Turned
<1>7. Pumped(x) = {}
  <2>1. \A j \in DOMAIN d.msgs : Is(d, j, {"claimed", "inflight"}) => j = i
    BY <1>0 DEF Queued, Is
  <2> QED BY <1>3, <1>4, <2>1 DEF Pumped, InState, Is, TurnStates
<1>8. Coherent(x)
  BY <1>0, <1>1, <1>4, <1>6, <1>7, CoherentTurned
<1>9. Settling(d.msgs[i], m)
  BY <1>3 DEF Settling, Is
<1>10. Leads(d, WriteMessage(d, i, m), D) /\ Wrote(d, WriteMessage(d, i, m), i, m)
  BY <1>8, <1>9, MessageLeads DEF x
<1>11. Keeps(d, x) /\ Distinct(x)
  <2>1. Keeps(d, x)
    BY <1>3, <1>4 DEF Keeps, Same
  <2> QED BY <1>0, <1>4, <2>1, DistinctKept
<1>12. /\ Accepted(x) = Accepted(d) /\ \A n \in Nat : Bytes(x, n) = Bytes(d, n)
  BY <1>0, <1>4, <1>11, CountsKept
<1>13. /\ TurnsOf(x) = TurnsOf(d) \cup {i}
       /\ Seqs(x, TurnsOf(x)) = Seqs(d, TurnsOf(d)) \cup {d.msgs[i].seq}
       /\ ChainUpTo(x, d.msgs[i].seq) = x.msgs[i].turn
  BY <1>0, <1>1, <1>2, <1>4, <1>6, <1>7, <1>11, TurnsAdded
<1>14. ASSUME NEW a \in Attempt, Reports(d, m, a) PROVE Fits(x, a)
  <2>1. a.last = d.msgs[i].seq /\ a.last \in Nat
    BY <1>0, <1>3, <1>14 DEF Reports, Same
  <2>2. a.chain = ChainUpTo(x, a.last) /\ a.last \in Seqs(x, TurnsOf(x)) /\ a.last # NoTurn
    BY <1>4, <1>13, <1>14, <2>1 DEF Reports, NoTurn
  <2>3. /\ a.count <= Cardinality(Accepted(x)) /\ a.bytes = Bytes(x, a.count)
        /\ a.count \in Nat /\ a.active <= a.count
    BY <1>2, <1>12, <1>14 DEF Reports, Fits, Attempt, NoMessage
  <2>4. a.final = NoTurn
    BY <1>1, <1>2, <1>14 DEF Reports, Fits, Shut
  <2> QED BY <1>14, <2>2, <2>3, <2>4 DEF Fits, Reports
<1>15. Last(<<d, x>>) = x
  BY DEF Last
<1> QED BY <1>5, <1>7, <1>10, <1>14, <1>15

(* A checkpoint.                                                           *)
LEMMA NoteLeads ==
  ASSUME NEW D, NEW d \in Sound, NEW N \in SUBSET (Nat \X States),
         \A n \in N : n[1] \in DOMAIN d.msgs /\ d.msgs[n[1]].state = n[2]
  PROVE  LET x == [d EXCEPT !.noted = @ \cup N]
         IN Onward(d, x, D) /\ x.msgs = d.msgs /\ x.att = d.att
<1> DEFINE x == [d EXCEPT !.noted = @ \cup N]
<1>0. d \in Disks /\ Numbered(d) /\ Distinct(d) /\ Queued(d) /\ Sealed(d) /\ TrueNotes(d)
  BY DEF Sound
<1>1. x \in Disks /\ x.att = d.att /\ x.msgs = d.msgs /\ x.noted = d.noted \cup N
  BY <1>0 DEF Disks
<1> HIDE DEF x
<1>2. TrueNotes(x)
  BY <1>0, <1>1 DEF TrueNotes
<1>3. Coherent(x)
  <2>1. Unturned(d, x) /\ Pumped(x) = Pumped(d)
    BY <1>1 DEF Unturned, Keeps, Same, Pumped, InState
  <2>2. Pumped(x) # {} => d.att # NoAttempt /\ d.att.primary /\ UnknownOf(d) = {}
    BY <2>1, PumpedFacts
  <2>3. Coherent(d)
    BY DEF Sound
  <2> QED BY <1>0, <1>1, <2>1, <2>2, <2>3, CoherentKept
<1>4. x \in Sound
  BY <1>0, <1>1, <1>2, <1>3 DEF Sound, Numbered, Distinct, Queued, Sealed, Is
<1>5. \A i \in DOMAIN d.msgs : Onto(d.msgs[i], x.msgs[i])
  BY <1>1 DEF Onto, Same
<1>6. Granted(d, x, D)
  BY <1>1, SameGranted
<1> QED BY <1>1, <1>4, <1>5, <1>6 DEF Onward, Is, Advances, x

-----------------------------------------------------------------------------
(* Rejecting sets of messages.                                             *)
LEMMA FirstOfFacts ==
  ASSUME NEW d \in Disks, NEW S \in SUBSET DOMAIN d.msgs
  PROVE  /\ Cardinality(S) \in Nat
         /\ \A n \in Nat : FirstOf(d, S, n) \subseteq S
         /\ FirstOf(d, S, 0) = {}
         /\ FirstOf(d, S, Cardinality(S)) = S
<1>1. IsFiniteSet(S) /\ Cardinality(S) \in Nat
  BY DiskFacts, FS_Subset, FS_CardinalityType
<1> DEFINE Before(i) == {j \in S : d.msgs[j].seq < d.msgs[i].seq}
<1>2. ASSUME NEW i \in S PROVE Cardinality(Before(i)) \in Nat
      /\ Cardinality(Before(i)) < Cardinality(S)
  <2>1. i \notin Before(i)
    BY DiskFacts
  <2>2. Before(i) \subseteq S \ {i}
    BY <2>1
  <2>3. IsFiniteSet(S \ {i}) /\ Cardinality(S \ {i}) = Cardinality(S) - 1
    BY <1>1, FS_RemoveElement
  <2> HIDE DEF Before
  <2>4. IsFiniteSet(Before(i)) /\ Cardinality(Before(i)) <= Cardinality(S \ {i})
    BY <2>2, <2>3, FS_Subset
  <2>5. Cardinality(Before(i)) \in Nat
    BY <2>4, FS_CardinalityType
  <2> QED BY <1>1, <2>3, <2>4, <2>5
<1>3. \A n : FirstOf(d, S, n) = {i \in S : Cardinality(Before(i)) < n}
  BY DEF FirstOf
<1> HIDE DEF Before
<1>4. FirstOf(d, S, 0) = {}
  BY <1>2, <1>3
<1> QED BY <1>1, <1>2, <1>3, <1>4

(* The disk after the rejection of the waiting messages S.                 *)
LEMMA RejectedFacts ==
  ASSUME NEW D, NEW d \in Sound, NEW S \in SUBSET InState(d, RetainingStates)
  PROVE  LET x == Rejected(d, S)
         IN /\ Onward(d, x, D) /\ x.att = d.att /\ DOMAIN x.msgs = DOMAIN d.msgs
            /\ Unturned(d, x)
            /\ \A i \in DOMAIN d.msgs : x.msgs[i] = d.msgs[i] \/ x.msgs[i].state = "rejected"
            /\ \A i \in S : x.msgs[i].state = "rejected"
            /\ S = {} => x = d
<1> DEFINE x == Rejected(d, S)
           M(i) == IF i \in S THEN [d.msgs[i] EXCEPT !.state = "rejected"] ELSE d.msgs[i]
<1>0. d \in Disks /\ "rejected" \in States
  BY DEF Sound, States, FinalStates
<1>1. /\ x.att = d.att /\ x.noted = d.noted /\ x.msgs = [i \in DOMAIN d.msgs |-> M(i)]
      /\ x = [d EXCEPT !.msgs = x.msgs]
  BY <1>0 DEF Disks, Rejected
<1>2. \A i \in DOMAIN d.msgs : d.msgs[i] \in Message
  BY <1>0, DiskFacts
<1>3. ASSUME NEW i \in DOMAIN d.msgs
      PROVE  /\ M(i) \in Message /\ Same(d.msgs[i], M(i)) /\ M(i).turn = d.msgs[i].turn
             /\ i \in S => M(i).state = "rejected"
  <2>1. LET n == [d.msgs[i] EXCEPT !.state = "rejected"]
        IN n \in Message /\ Same(d.msgs[i], n) /\ n.state = "rejected" /\ n.turn = d.msgs[i].turn
    BY <1>0, <1>2, StateWritten DEF Same
  <2> QED BY <1>2, <2>1 DEF Same
<1> HIDE DEF M
<1>4. DOMAIN x.msgs = DOMAIN d.msgs /\ \A i \in DOMAIN d.msgs : x.msgs[i] = M(i)
  BY <1>1
<1>5. x \in Disks
  <2>1. x.msgs \in [1..Len(d.msgs) -> Message] /\ Len(d.msgs) \in Nat
    BY <1>0, <1>1, <1>3, DiskFacts
  <2>2. x.msgs \in Seq(Message)
    BY <2>1, SeqDef
  <2> HIDE DEF x
  <2> QED BY <1>0, <1>1, <2>2 DEF Disks
<1>6. S = {} => x = d
  <2> SUFFICES ASSUME S = {} PROVE x = d
    OBVIOUS
  <2>1. x.msgs = [i \in DOMAIN d.msgs |-> d.msgs[i]]
    BY <1>1 DEF M
  <2>2. d.msgs = [i \in DOMAIN d.msgs |-> d.msgs[i]]
    <3>1. d.msgs \in Seq(Message)
      BY <1>0, DiskFacts
    <3> QED BY <3>1
  <2>3. [d EXCEPT !.msgs = d.msgs] = d
    BY <1>0 DEF Disks
  <2> HIDE DEF x
  <2> QED BY <1>1, <2>1, <2>2, <2>3
<1> HIDE DEF x
<1>7. \A i \in DOMAIN d.msgs : i \in S => d.msgs[i].state \in RetainingStates
  BY DEF InState
<1>8. \A i \in DOMAIN d.msgs : Settling(d.msgs[i], x.msgs[i])
  BY <1>3, <1>4, <1>7 DEF Settling, M
<1>9. Granted(d, x, D)
  BY <1>3, <1>4 DEF Granted, M, TurnStates
<1>10. Unturned(d, x)
  BY <1>3, <1>4, <1>7 DEF Unturned, Keeps, M, RetainingStates, TurnStates
<1>11. Coherent(x)
  <2>1. Pumped(x) \subseteq Pumped(d)
    BY <1>3, <1>4 DEF Pumped, InState, M
  <2>2. Pumped(x) # {} => d.att # NoAttempt /\ d.att.primary /\ UnknownOf(d) = {}
    BY <2>1, PumpedFacts
  <2>3. Coherent(d) /\ Distinct(d)
    BY DEF Sound
  <2> QED BY <1>0, <1>1, <1>4, <1>5, <1>10, <2>2, <2>3, CoherentKept
<1>12. Onward(d, x, D)
  BY <1>1, <1>4, <1>5, <1>8, <1>9, <1>11, MessagesSettled
<1>13. \A i \in DOMAIN d.msgs : x.msgs[i] = d.msgs[i] \/ x.msgs[i].state = "rejected"
  BY <1>3, <1>4 DEF M
<1>14. \A i \in S : x.msgs[i].state = "rejected"
  BY <1>3, <1>4 DEF InState
<1> QED BY <1>1, <1>4, <1>6, <1>10, <1>12, <1>13, <1>14 DEF x

(* The writes that reject them one by one.                                 *)
LEMMA RejectAllLeads ==
  ASSUME NEW D, NEW d \in Sound, NEW S \in SUBSET InState(d, RetainingStates)
  PROVE  /\ Leads(d, RejectAll(d, S), D)
         /\ Last(RejectAll(d, S)) = Rejected(d, S)
<1> DEFINE t == RejectAll(d, S)
           c == Cardinality(S)
<1>1. S \in SUBSET DOMAIN d.msgs /\ d \in Disks
  BY DEF InState, Sound
<1>2. /\ c \in Nat /\ \A n \in Nat : FirstOf(d, S, n) \subseteq S
      /\ FirstOf(d, S, 0) = {} /\ FirstOf(d, S, c) = S
  BY <1>1, FirstOfFacts
<1>3. \A n \in 1..c + 1 : Onward(d, Rejected(d, FirstOf(d, S, n - 1)), D)
  <2> SUFFICES ASSUME NEW n \in 1..c + 1 PROVE Onward(d, Rejected(d, FirstOf(d, S, n - 1)), D)
    OBVIOUS
  <2>1. n - 1 \in Nat
    BY <1>2
  <2>2. FirstOf(d, S, n - 1) \in SUBSET InState(d, RetainingStates)
    BY <1>2, <2>1
  <2> QED BY <2>2, RejectedFacts
<1>4. t = [n \in 1..c + 1 |-> Rejected(d, FirstOf(d, S, n - 1))]
  BY DEF RejectAll
<1> HIDE DEF t, c
<1>5. t \in [1..c + 1 -> Sound] /\ \A x \in Range(t) : Onward(d, x, D)
  BY <1>3, <1>4 DEF Onward, Range
<1>6. t[1] = d /\ t[c + 1] = Rejected(d, S)
  <2>1. 1 \in 1..c + 1 /\ c + 1 \in 1..c + 1 /\ 1 - 1 = 0 /\ (c + 1) - 1 = c
    BY <1>2
  <2>2. t[1] = Rejected(d, {}) /\ t[c + 1] = Rejected(d, S)
    BY <1>2, <1>4, <2>1
  <2>3. {} \in SUBSET InState(d, RetainingStates)
    OBVIOUS
  <2>4. Rejected(d, {}) = d
    BY <2>3, RejectedFacts
  <2> QED BY <2>2, <2>4
<1>7. t \in Seq(Sound) /\ Len(t) = c + 1
  BY <1>2, <1>5, SeqDef, LenProperties
<1>8. t # <<>>
  BY <1>2, <1>7, EmptySeq
<1> QED BY <1>5, <1>6, <1>7, <1>8 DEF Leads, Trace, Last, t

(* The attempt without its active message still fits.                      *)
LEMMA InactiveFits ==
  ASSUME NEW d \in Sound, d.att # NoAttempt
  PROVE  Becomes(d, [d.att EXCEPT !.active = NoMessage])
<1> DEFINE a == [d.att EXCEPT !.active = NoMessage]
<1>1. Counted(d) /\ Chained(d) /\ Fits(d, d.att) /\ Sealed(d) /\ d.att \in Attempt
  BY DiskFacts DEF Sound, Coherent
<1>2. /\ a.count = d.att.count /\ a.bytes = d.att.bytes /\ a.primary = d.att.primary
      /\ a.last = d.att.last /\ a.chain = d.att.chain /\ a.state = d.att.state
      /\ a.final = d.att.final /\ a.unknown = d.att.unknown /\ a.active = 0 /\ a.count \in Nat
  BY <1>1 DEF Attempt, NoMessage
<1> HIDE DEF a
<1>3. Fits(d, a)
  BY <1>1, <1>2 DEF Fits, Shut
<1>4. Shut(a) = Shut(d.att)
  BY <1>2 DEF Shut
<1>5. Becomes(d, a)
  BY <1>1, <1>2, <1>3, <1>4 DEF Becomes, Advances, Sealed
<1> QED BY <1>5 DEF a

(* The disk after the active message is one of S no more.                  *)
LEMMA DeactivatedFacts ==
  ASSUME NEW D, NEW d \in Sound, d.att # NoAttempt, NEW S \in SUBSET DOMAIN d.msgs
  PROVE  Onward(d, Deactivated(d, S), D) /\ (S = {} => Deactivated(d, S) = d)
<1>1. S = {} => Deactivated(d, S) = d
  BY DEF Deactivated, Seqs
<1>2. CASE Deactivated(d, S) = d
  BY <1>1, <1>2, Stays
<1>3. CASE Deactivated(d, S) # d
  <2>1. Deactivated(d, S) = [d EXCEPT !.att = [d.att EXCEPT !.active = NoMessage]]
    BY <1>3 DEF Deactivated
  <2>2. d.att \in Attempt
    BY DiskFacts DEF Sound
  <2> DEFINE a == [d.att EXCEPT !.active = NoMessage]
  <2>3. a \in Attempt
    BY <2>2 DEF Attempt, NoMessage
  <2>4. Becomes(d, a)
    BY InactiveFits
  <2> HIDE DEF a
  <2>5. Onward(d, [d EXCEPT !.att = a], D)
    BY <2>3, <2>4, AttemptSound
  <2> QED BY <1>1, <2>1, <2>5 DEF a
<1> QED BY <1>2, <1>3

(* rejectMessage for each message of S.                                    *)
LEMMA RejectEachLeads ==
  ASSUME NEW D, NEW d \in Sound, d.att # NoAttempt, NEW S \in SUBSET InState(d, RetainingStates)
  PROVE  /\ Leads(d, RejectEach(d, S), D)
         /\ Last(RejectEach(d, S)).msgs = Rejected(d, S).msgs
<1> DEFINE t == RejectEach(d, S)
           c == Cardinality(S)
           E(n) == Deactivated(Rejected(d, FirstOf(d, S, n \div 2)), FirstOf(d, S, (n - 1) \div 2))
<1>1. S \in SUBSET DOMAIN d.msgs /\ d \in Disks
  BY DEF InState, Sound
<1>2. /\ c \in Nat /\ \A n \in Nat : FirstOf(d, S, n) \subseteq S
      /\ FirstOf(d, S, 0) = {} /\ FirstOf(d, S, c) = S
  BY <1>1, FirstOfFacts
<1>3. ASSUME NEW n \in 1..2 * c + 1 PROVE Onward(d, E(n), D)
  <2>1. n \div 2 \in Nat /\ (n - 1) \div 2 \in Nat
    BY <1>2
  <2> DEFINE A == FirstOf(d, S, n \div 2)
             B == FirstOf(d, S, (n - 1) \div 2)
             x == Rejected(d, A)
  <2>2. A \in SUBSET InState(d, RetainingStates) /\ B \in SUBSET DOMAIN d.msgs
    BY <1>1, <1>2, <2>1
  <2> HIDE DEF A, B
  <2>3. Onward(d, x, D) /\ DOMAIN x.msgs = DOMAIN d.msgs
    BY <2>2, RejectedFacts
  <2> HIDE DEF x
  <2>4. x \in Sound /\ x.att # NoAttempt
    BY <2>3 DEF Onward
  <2>5. Onward(x, Deactivated(x, B), D)
    BY <2>2, <2>3, <2>4, DeactivatedFacts
  <2>6. Onward(d, Deactivated(x, B), D)
    BY <2>3, <2>4, <2>5, Onwards
  <2> QED BY <2>6 DEF A, B, x
<1>4. t = [n \in 1..2 * c + 1 |-> E(n)]
  BY DEF RejectEach
<1>5. E(1) = d
  <2>1. 1 \div 2 = 0 /\ (1 - 1) \div 2 = 0
    OBVIOUS
  <2>2. Rejected(d, {}) = d
    BY RejectedFacts
  <2>3. {} \in SUBSET DOMAIN d.msgs
    OBVIOUS
  <2>4. Deactivated(d, {}) = d
    BY <2>3, DeactivatedFacts
  <2> QED BY <1>2, <2>1, <2>2, <2>4
<1>10. E(2 * c + 1).msgs = Rejected(d, S).msgs
  <2> DEFINE x == Rejected(d, S)
             B == FirstOf(d, S, ((2 * c + 1) - 1) \div 2)
  <2>1. (2 * c + 1) \div 2 = c
    BY <1>2
  <2>2. E(2 * c + 1) = Deactivated(x, B)
    BY <1>2, <2>1
  <2> HIDE DEF x, B, E
  <2>3. Deactivated(x, B).msgs = x.msgs
    BY DEF Deactivated
  <2> QED BY <2>2, <2>3 DEF x
<1> HIDE DEF t, c, E
<1>6. 2 * c + 1 \in Nat /\ 1 \in 1..2 * c + 1 /\ 2 * c + 1 # 0
  BY <1>2
<1> DEFINE k == 2 * c + 1
<1> HIDE DEF k
<1>7. t \in [1..k -> Sound] /\ (\A x \in Range(t) : Onward(d, x, D)) /\ t[1] = d
  BY <1>3, <1>4, <1>5, <1>6 DEF Onward, Range, k
<1>8. t \in Seq(Sound) /\ Len(t) = k
  BY <1>6, <1>7, SeqDef, LenProperties DEF k
<1>9. t # <<>>
  BY <1>6, <1>8, EmptySeq DEF k
<1>11. Last(t).msgs = Rejected(d, S).msgs
  BY <1>4, <1>6, <1>8, <1>10 DEF Last, k
<1> QED BY <1>7, <1>8, <1>9, <1>11 DEF Leads, Trace, t

(* The journal entries of the messages settled so far.                     *)
LEMMA NoteAllLeads ==
  ASSUME NEW D, NEW d \in Sound
  PROVE  Leads(d, NoteAll(d), D)
<1> DEFINE t == NoteAll(d)
           k == Len(d.msgs) + 1
           N(n) == {<<i, d.msgs[i].state>> : i \in 1..(n - 1)}
           E(n) == [d EXCEPT !.noted = @ \cup N(n)]
<1>1. /\ Len(d.msgs) \in Nat /\ DOMAIN d.msgs = 1..Len(d.msgs)
      /\ \A i \in DOMAIN d.msgs : d.msgs[i].state \in States
  BY DiskFacts DEF Sound
<1>2. ASSUME NEW n \in 1..k PROVE Onward(d, E(n), D)
  <2>1. 1..(n - 1) \subseteq DOMAIN d.msgs /\ 1..(n - 1) \subseteq Nat
    BY <1>1
  <2>2. /\ N(n) \in SUBSET (Nat \X States)
        /\ \A p \in N(n) : p[1] \in DOMAIN d.msgs /\ d.msgs[p[1]].state = p[2]
    BY <1>1, <2>1
  <2> HIDE DEF N
  <2> QED BY <2>2, NoteLeads
<1>3. E(1) = d
  <2>1. N(1) = {}
    OBVIOUS
  <2> QED BY <2>1 DEF Sound, Disks
<1>4. t = [n \in 1..k |-> E(n)]
  BY DEF NoteAll
<1>5. k \in Nat /\ k # 0 /\ 1 \in 1..k
  BY <1>1
<1> HIDE DEF t, k, E
<1>6. t \in [1..k -> Sound] /\ (\A x \in Range(t) : Onward(d, x, D)) /\ t[1] = d
  BY <1>2, <1>3, <1>4, <1>5 DEF Onward, Range
<1>7. t \in Seq(Sound) /\ Len(t) = k
  BY <1>5, <1>6, SeqDef, LenProperties
<1>8. t # <<>>
  BY <1>5, <1>7, EmptySeq
<1> QED BY <1>6, <1>7, <1>8 DEF Leads, Trace, t

-----------------------------------------------------------------------------
(* The recovery of an attempt.                                             *)
LEMMA Whole ==
  ASSUME NEW d \in Sound, d.att # NoAttempt
  PROVE  /\ d \in Disks /\ d.att \in Attempt /\ Consistent(d)
         /\ Numbered(d) /\ Distinct(d) /\ Queued(d) /\ Sealed(d)
         /\ Counted(d) /\ Chained(d) /\ Fits(d, d.att)
BY CoherentIsConsistent, DiskFacts DEF Sound, Coherent

(* The highest number of a set of messages is the number of one of it.     *)
LEMMA Highest ==
  ASSUME NEW d \in Disks, Counted(d), NEW S \in SUBSET DOMAIN d.msgs, S # {}
  PROVE  /\ Max(Seqs(d, S)) \in Seqs(d, S) /\ Seqs(d, S) \subseteq Nat
         /\ \A i \in S : d.msgs[i].seq <= Max(Seqs(d, S))
<1> DEFINE T == Seqs(d, S)
           b == Cardinality(Accepted(d))
<1>1. b \in Nat
  BY AcceptedFacts
<1>2. Seqs(d, Accepted(d)) = 1..b
  BY DEF Counted
<1> HIDE DEF b
<1>3. \A i \in DOMAIN d.msgs : d.msgs[i].seq \in Nat /\ d.msgs[i].seq <= b
  <2> SUFFICES ASSUME NEW i \in DOMAIN d.msgs PROVE d.msgs[i].seq \in Nat /\ d.msgs[i].seq <= b
    OBVIOUS
  <2>1. d.msgs[i].seq \in Nat
    BY DiskFacts
  <2>2. CASE d.msgs[i].seq > 0
    BY <1>1, <1>2, <2>1, <2>2 DEF Seqs, Accepted
  <2> QED BY <1>1, <2>1, <2>2
<1>4. T \in SUBSET Nat /\ T # {} /\ \A n \in T : n <= b
  BY <1>3 DEF Seqs
<1> HIDE DEF T
<1>5. Max(T) \in T /\ \A n \in T : n <= Max(T)
  BY <1>1, <1>4, Greatest
<1>6. \A i \in S : d.msgs[i].seq \in T
  BY DEF T, Seqs
<1> QED BY <1>4, <1>5, <1>6 DEF T

(* The number of the latest turn, and the chain up to it.                  *)
LEMMA LatestFacts ==
  ASSUME NEW d \in Disks, Counted(d), Distinct(d), NEW p \in BOOLEAN, ~p => TurnsOf(d) = {}
  PROVE  /\ LatestOf(d, p) \in Seqs(d, TurnsOf(d)) \cup {0, NoTurn}
         /\ LatestOf(d, p) \in Nat \cup {NoTurn}
         /\ LatestOf(d, p) = NoTurn <=> ~p
         /\ ChainUpTo(d, LatestOf(d, p)) \in Seq(Turn)
<1>1. /\ TurnsOf(d) \in SUBSET DOMAIN d.msgs /\ \A i \in TurnsOf(d) : d.msgs[i] \in Message
  BY AcceptedFacts, DiskFacts
<1>2. PrimaryTurn \in Turn
  BY DEF PrimaryTurn, Turn, NoMessage
<1>3. <<>> \in Seq(Turn) /\ <<PrimaryTurn>> \in Seq(Turn)
  BY <1>2
<1>4. CASE TurnsOf(d) # {}
  <2>1. LatestOf(d, p) = Max(Seqs(d, TurnsOf(d)))
    BY <1>4 DEF LatestOf
  <2>2. LatestOf(d, p) \in Seqs(d, TurnsOf(d)) /\ LatestOf(d, p) \in Nat
    BY <1>1, <1>4, <2>1, Highest
  <2>3. PICK i \in TurnsOf(d) : d.msgs[i].seq = LatestOf(d, p)
    BY <2>2 DEF Seqs
  <2>4. ChainUpTo(d, LatestOf(d, p)) = d.msgs[i].turn
    BY <2>3, ChainIs
  <2>5. d.msgs[i].turn \in Seq(Turn)
    BY <1>1, <2>3 DEF Message
  <2> QED BY <1>4, <2>2, <2>4, <2>5 DEF NoTurn
<1>5. CASE TurnsOf(d) = {}
  <2>1. LatestOf(d, p) = IF p THEN 0 ELSE NoTurn
    BY <1>5 DEF LatestOf
  <2>2. ChainUpTo(d, 0) \in Seq(Turn) /\ ChainUpTo(d, NoTurn) \in Seq(Turn)
    BY <1>3, ChainIs
  <2> QED BY <2>1, <2>2 DEF NoTurn
<1> QED BY <1>4, <1>5

(* Bytes are a natural number.                                             *)
LEMMA BytesType == ASSUME NEW d \in Disks, NEW n PROVE Bytes(d, n) \in Nat
<1> DEFINE S == {i \in Accepted(d) : d.msgs[i].seq <= n}
<1>1. S \subseteq DOMAIN d.msgs
  BY DEF Accepted
<1>2. IsFiniteSet(S) /\ \A i \in S : d.msgs[i].size \in Nat
  BY <1>1, DiskFacts, FS_Subset
<1>3. Bytes(d, n) = SumOf(d, S)
  BY DEF Bytes, SumOf
<1> HIDE DEF S
<1> QED BY <1>2, <1>3, SumFacts

(* The message the pump holds.                                             *)
LEMMA PumpedIs ==
  ASSUME NEW d \in Sound, d.att # NoAttempt, Pumped(d) # {}
  PROVE  /\ Max(Seqs(d, Pumped(d))) \in 1..Cardinality(Accepted(d))
         /\ \A i \in Pumped(d) : d.msgs[i].seq = Max(Seqs(d, Pumped(d)))
<1>0. d \in Disks /\ Numbered(d) /\ Queued(d) /\ Counted(d)
  BY Whole
<1>1. Pumped(d) \in SUBSET DOMAIN d.msgs
  BY DEF Pumped, InState
<1>2. Max(Seqs(d, Pumped(d))) \in Seqs(d, Pumped(d))
  BY <1>0, <1>1, Highest
<1>3. PICK i \in Pumped(d) : d.msgs[i].seq = Max(Seqs(d, Pumped(d)))
  BY <1>2 DEF Seqs
<1>4. \A j \in Pumped(d) : j = i
  BY <1>0, <1>1 DEF Queued, Is, Pumped, InState
<1>5. d.msgs[i].seq > 0 /\ i \in DOMAIN d.msgs
  BY <1>0, <1>1 DEF Numbered, Is, Pumped, InState
<1>6. d.msgs[i].seq \in Seqs(d, Accepted(d))
  BY <1>5 DEF Seqs, Accepted
<1>7. d.msgs[i].seq \in 1..Cardinality(Accepted(d))
  BY <1>0, <1>6 DEF Counted
<1> QED BY <1>3, <1>4, <1>7

(* The attempt a says what the messages of d say.                          *)
Restored(d, a, b) ==
  /\ a.last = LatestOf(d, a.primary)
  /\ a.count = Cardinality(Accepted(d))
  /\ a.bytes = Bytes(d, Cardinality(Accepted(d)))
  /\ \A i \in Pumped(d) : a.active = d.msgs[i].seq
  /\ a.active = NoMessage => Pumped(d) = {}
  /\ b /\ a.unknown = NoMessage => UnknownOf(d) = {}

(* The attempt recoverAttemptConsistency writes fits the messages.         *)
LEMMA RecoveredAttemptFacts ==
  ASSUME NEW d \in Sound, d.att # NoAttempt, NEW b \in BOOLEAN
  PROVE  LET a == RecoveredAttempt(d, b)
         IN /\ a \in Attempt /\ a.primary = d.att.primary
            /\ a.state \in {d.att.state, "closing"}
            /\ a.state = "closed" <=> d.att.state = "closed"
            /\ a.state # d.att.state => b /\ UnknownOf(d) # {}
            /\ Restored(d, a, b) /\ Fits(d, a)
<1> DEFINE u == UnknownOf(d)
           p == Pumped(d)
           act == IF u # {} \/ p = {} THEN NoMessage ELSE Max(Seqs(d, p))
           last == LatestOf(d, d.att.primary)
           chain == ChainUpTo(d, last)
           count == Cardinality(Accepted(d))
           bytes == Bytes(d, count)
           x == [d.att EXCEPT !.chain = chain, !.last = last, !.count = count,
                              !.bytes = bytes, !.active = act]
<1>0. /\ d \in Disks /\ d.att \in Attempt /\ Numbered(d) /\ Distinct(d) /\ Counted(d)
      /\ Chained(d) /\ Fits(d, d.att)
  BY Whole
<1>1. d.att.primary \in BOOLEAN /\ (~d.att.primary => TurnsOf(d) = {} /\ p = {})
  BY <1>0 DEF Attempt, Fits
<1>2. /\ last \in Seqs(d, TurnsOf(d)) \cup {0, NoTurn} /\ last \in Nat \cup {NoTurn}
      /\ last = NoTurn <=> ~d.att.primary
      /\ chain \in Seq(Turn)
  BY <1>0, <1>1, LatestFacts
<1>3. count \in Nat /\ bytes \in Nat
  BY <1>0, AcceptedFacts, BytesType
<1>4. u # {} => p = {}
  BY <1>0 DEF Chained
<1>5. /\ act \in Nat /\ act <= count /\ (act = NoMessage => p = {})
      /\ \A i \in p : act = d.msgs[i].seq
  <2>1. CASE u # {} \/ p = {}
    BY <1>3, <1>4, <2>1 DEF NoMessage
  <2>2. CASE p # {} /\ u = {}
    <3>1. /\ Max(Seqs(d, p)) \in 1..count
          /\ \A i \in p : d.msgs[i].seq = Max(Seqs(d, p))
      BY <2>2, PumpedIs
    <3> HIDE DEF p, count, u
    <3> QED BY <1>3, <2>2, <3>1 DEF NoMessage
  <2> QED BY <2>1, <2>2
<1>6. u # {} => Max(Seqs(d, u)) \in Nat \ {0}
  <2> SUFFICES ASSUME u # {} PROVE Max(Seqs(d, u)) \in Nat \ {0}
    OBVIOUS
  <2>1. u \in SUBSET DOMAIN d.msgs
    BY DEF UnknownOf, InState
  <2>2. Max(Seqs(d, u)) \in Seqs(d, u)
    BY <1>0, <2>1, Highest
  <2>3. \A i \in u : d.msgs[i].seq \in Nat \ {0}
    BY <1>0, <2>1, DiskFacts DEF Numbered, Is, UnknownOf, InState
  <2> QED BY <2>2, <2>3 DEF Seqs
<1>7. RecoveredAttempt(d, b) =
        IF u = {} \/ ~b THEN x
        ELSE [x EXCEPT !.state = IF @ = "closed" THEN @ ELSE "closing",
                       !.unknown = Max(Seqs(d, u))]
  BY DEF RecoveredAttempt, LastTurn, LatestOf
<1> HIDE DEF u, p, act, last, chain, count, bytes
<1>8. /\ x \in Attempt /\ x.state = d.att.state /\ x.count = count /\ x.active = act
      /\ x.primary = d.att.primary /\ x.last = last /\ x.chain = chain /\ x.bytes = bytes
      /\ x.final = d.att.final /\ x.unknown = d.att.unknown
  BY <1>0, <1>2, <1>3, <1>5 DEF Attempt
<1> HIDE DEF x
<1>9. ASSUME NEW y \in Attempt,
             /\ y.count = count /\ y.active = act /\ y.primary = d.att.primary
             /\ y.last = last /\ y.chain = chain /\ y.bytes = bytes /\ y.final = d.att.final,
             b /\ y.unknown = NoMessage => u = {}
      PROVE  Restored(d, y, b)
  BY <1>9, <1>5 DEF Restored, u, p, count, last, bytes
<1>10. ASSUME NEW y \in Attempt,
              /\ y.count = count /\ y.active = act /\ y.primary = d.att.primary
              /\ y.last = last /\ y.chain = chain /\ y.bytes = bytes /\ y.final = d.att.final,
              y.state = d.att.state \/ (y.state = "closing" /\ d.att.state # "closed"),
              y.unknown # NoMessage => Shut(y)
       PROVE  Fits(d, y)
  <2>1. /\ y.count <= Cardinality(Accepted(d)) /\ y.bytes = Bytes(d, y.count)
        /\ y.active <= y.count
    BY <1>3, <1>5, <1>10 DEF count, bytes
  <2>2. /\ ~y.primary => TurnsOf(d) = {} /\ Pumped(d) = {}
        /\ y.last = NoTurn <=> ~y.primary
        /\ y.last \in Seqs(d, TurnsOf(d)) \cup {0, NoTurn}
        /\ y.chain = ChainUpTo(d, y.last)
        /\ y.last = LatestOf(d, y.primary)
    BY <1>1, <1>2, <1>10 DEF p, last, chain
  <2>3. y.final # NoTurn => y.state = "closed" /\ y.final = y.last
    BY <1>0, <1>10, <2>2 DEF Fits
  <2>4. y.primary => y.state # "preparing"
    BY <1>0, <1>10 DEF Fits
  <2> QED BY <1>10, <2>1, <2>2, <2>3, <2>4 DEF Fits
<1>11. CASE u = {} \/ ~b
  <2>1. RecoveredAttempt(d, b) = x
    BY <1>7, <1>11
  <2>2. x.unknown # NoMessage => Shut(x)
    BY <1>0, <1>8 DEF Fits, Shut
  <2>3. Fits(d, x)
    BY <1>8, <1>10, <2>2
  <2>4. Restored(d, x, b)
    BY <1>8, <1>9, <1>11
  <2> QED BY <1>8, <2>1, <2>3, <2>4
<1>12. CASE u # {} /\ b
  <2> DEFINE h == Max(Seqs(d, u))
             y == [x EXCEPT !.state = IF @ = "closed" THEN @ ELSE "closing", !.unknown = h]
  <2>1. RecoveredAttempt(d, b) = y
    BY <1>7, <1>12
  <2>2. h \in Nat /\ h # NoMessage
    BY <1>6, <1>12 DEF NoMessage
  <2> HIDE DEF h
  <2>3. /\ y \in Attempt /\ y.state = (IF x.state = "closed" THEN "closed" ELSE "closing")
        /\ y.unknown = h /\ y.count = x.count /\ y.active = x.active
        /\ y.primary = x.primary /\ y.last = x.last /\ y.chain = x.chain /\ y.bytes = x.bytes
        /\ y.final = x.final
    BY <1>8, <2>2 DEF Attempt
  <2> HIDE DEF y
  <2>4. Shut(y) /\ (y.state = d.att.state \/ (y.state = "closing" /\ d.att.state # "closed"))
    BY <1>8, <2>3 DEF Shut
  <2>5. Fits(d, y)
    BY <1>8, <1>10, <2>3, <2>4
  <2>6. Restored(d, y, b)
    BY <1>8, <1>9, <2>2, <2>3
  <2> QED BY <1>8, <1>12, <2>1, <2>3, <2>4, <2>5, <2>6 DEF u
<1> QED BY <1>11, <1>12

(* What the recovery of d leads to.                                        *)
LEMMA RecoveredLeads ==
  ASSUME NEW D, NEW d \in Sound, d.att # NoAttempt, NEW b \in BOOLEAN
  PROVE  /\ Leads(d, Recovered(d, b), D)
         /\ Last(Recovered(d, b)).att = RecoveredAttempt(d, b)
         /\ DOMAIN Last(Recovered(d, b)).msgs = DOMAIN d.msgs
         /\ \A i \in DOMAIN d.msgs : \/ Last(Recovered(d, b)).msgs[i] = d.msgs[i]
                                    \/ Last(Recovered(d, b)).msgs[i].state = "rejected"
         /\ Unturned(d, Last(Recovered(d, b)))
<1> DEFINE a == RecoveredAttempt(d, b)
           late == {i \in InState(d, RetainingStates) :
                      b /\ \E j \in UnknownOf(d) : d.msgs[j].seq < d.msgs[i].seq}
           S == IF d.att.state = "closed" THEN InState(d, RetainingStates) ELSE late
           t == RejectAll(d, S)
           x == Last(t)
<1>0. /\ d \in Disks /\ Distinct(d) /\ Queued(d) /\ Sealed(d) /\ Counted(d) /\ Chained(d)
  BY Whole
<1>1. S \in SUBSET InState(d, RetainingStates)
  OBVIOUS
<1>2. Recovered(d, b) = IF a = d.att THEN t ELSE t \o Tail(WriteAttempt(x, a))
  BY DEF Recovered, Then
<1>3. /\ a \in Attempt /\ a.primary = d.att.primary
      /\ a.state \in {d.att.state, "closing"}
      /\ a.state = "closed" <=> d.att.state = "closed"
      /\ a.state # d.att.state => b /\ UnknownOf(d) # {}
      /\ Fits(d, a)
  BY RecoveredAttemptFacts
<1>4. ASSUME Shut(a), NEW i \in DOMAIN d.msgs PROVE i \in S \/ d.msgs[i].state \notin ActiveStates
  <2>1. CASE Shut(d.att)
    BY <1>0, <2>1 DEF Sealed, Is
  <2>2. CASE ~Shut(d.att)
    <3>1. b /\ UnknownOf(d) # {} /\ d.att.state # "closed"
      <4> HIDE DEF a
      <4> QED BY <1>3, <1>4, <2>2 DEF Shut
    <3>2. PICK j \in UnknownOf(d) : TRUE
      BY <3>1
    <3>3. Pumped(d) = {} /\ j \in DOMAIN d.msgs /\ Is(d, j, TurnStates)
      BY <1>0, <3>1, <3>2 DEF Chained, UnknownOf, InState, Is, TurnStates
    <3>4. CASE d.msgs[i].state \in ActiveStates
      <4>1. d.msgs[i].state \in RetainingStates
        BY <3>3, <3>4 DEF Pumped, InState, ActiveStates, RetainingStates
      <4>2. d.msgs[j].seq < d.msgs[i].seq
        BY <1>0, <3>3, <3>4 DEF Queued, Is
      <4> QED BY <3>1, <3>2, <4>1, <4>2 DEF InState
    <3> QED BY <3>4
  <2> QED BY <2>1, <2>2
<1> HIDE DEF a, S
<1>5. /\ Leads(d, t, D) /\ x.att = d.att /\ DOMAIN x.msgs = DOMAIN d.msgs
      /\ \A i \in DOMAIN d.msgs : x.msgs[i] = d.msgs[i] \/ x.msgs[i].state = "rejected"
      /\ \A i \in S : x.msgs[i].state = "rejected"
      /\ Unturned(d, x)
  BY <1>1, RejectAllLeads, RejectedFacts
<1> HIDE DEF t
<1>6. x \in Sound
  BY <1>5, LeadsFacts
<1> HIDE DEF x
<1>7. x \in Disks /\ Distinct(x) /\ Counted(x) /\ Chained(x) /\ Fits(x, x.att)
  BY <1>5, <1>6, Whole
<1>8. Becomes(x, a)
  <2>1. Keeps(d, x)
    BY <1>5 DEF Unturned
  <2>2. /\ Accepted(x) = Accepted(d) /\ \A n \in Nat : Bytes(x, n) = Bytes(d, n)
    BY <1>0, <1>5, <1>7, <2>1, CountsKept
  <2>3. a.count \in Nat /\ Cardinality(Accepted(d)) \in Nat
    BY <1>0, <1>3, AcceptedFacts DEF Attempt
  <2>4. Cardinality(Accepted(d)) <= Cardinality(Accepted(x))
    BY <2>2, <2>3
  <2>5. a.primary \/ Pumped(x) = {}
    BY <1>3, <1>5, <1>7 DEF Fits
  <2>6. Fits(x, a)
    BY <1>0, <1>3, <1>5, <1>7, <2>2, <2>3, <2>4, <2>5, FitsKept
  <2>7. Shut(a) => \A i \in DOMAIN x.msgs : ~Is(x, i, ActiveStates)
    BY <1>4, <1>5 DEF Is, ActiveStates
  <2>8. Advances(x.att, a)
    BY <1>3, <1>5 DEF Advances, Shut
  <2> QED BY <1>3, <1>5, <1>7, <2>6, <2>7, <2>8 DEF Becomes
<1> DEFINE w == WriteAttempt(x, a)
<1>9. Leads(x, w, D) /\ Last(w).att = a /\ Last(w).msgs = x.msgs
  BY <1>3, <1>6, <1>8, AttemptLeads
<1> HIDE DEF w
<1>10. Leads(d, t \o Tail(w), D) /\ Last(t \o Tail(w)) = Last(w)
  BY <1>5, <1>9, LeadsThen DEF x
<1>11. CASE a = d.att
  BY <1>2, <1>5, <1>11 DEF a, x
<1>12. CASE a # d.att
  <2>1. Recovered(d, b) = t \o Tail(w)
    BY <1>2, <1>12 DEF w
  <2>2. Unturned(d, Last(w))
    BY <1>5, <1>9 DEF Unturned, Keeps
  <2> QED BY <1>5, <1>9, <1>10, <2>1, <2>2 DEF a
<1> QED BY <1>11, <1>12

-----------------------------------------------------------------------------
(* The operations.  Each begins with a recovery.                           *)
LEMMA RecoverThen ==
  ASSUME NEW D, NEW d \in Sound, d.att # NoAttempt, NEW b \in BOOLEAN,
         NEW u, Leads(Last(Recovered(d, b)), u, D)
  PROVE  Leads(d, Recovered(d, b) \o Tail(u), D)
BY RecoveredLeads, LeadsThen

(* The trace leads from d to e.                                            *)
Via(d, t, e, D) == Leads(d, t, D) /\ Last(t) = e

(* A write after the recovery.                                             *)
LEMMA RecoverVia ==
  ASSUME NEW D, NEW d \in Sound, d.att # NoAttempt, NEW b \in BOOLEAN,
         NEW u, NEW e, Via(Last(Recovered(d, b)), u, e, D)
  PROVE  Via(d, Recovered(d, b) \o Tail(u), e, D)
<1>1. Leads(Last(Recovered(d, b)), u, D) /\ Last(u) = e
  BY DEF Via
<1>2. Leads(d, Recovered(d, b), D)
  BY RecoveredLeads
<1>3. /\ Leads(d, Recovered(d, b) \o Tail(u), D)
      /\ Last(Recovered(d, b) \o Tail(u)) = Last(u)
  BY <1>1, <1>2, LeadsThen
<1> QED BY <1>1, <1>3 DEF Via

(* The disk recoverAttemptConsistency leaves behind.                       *)
LEMMA RecoveredDisk ==
  ASSUME NEW d \in Sound, d.att # NoAttempt, NEW b \in BOOLEAN
  PROVE  LET e == Last(Recovered(d, b))
         IN /\ e \in Sound /\ e.att # NoAttempt /\ e.att \in Attempt
            /\ e.att.primary = d.att.primary /\ DOMAIN e.msgs = DOMAIN d.msgs
            /\ \A D : Onward(d, e, D)
            /\ \A i \in DOMAIN e.msgs : e.msgs[i] \in Message /\ e.msgs[i].seq \in Nat
            /\ \A i \in DOMAIN e.msgs : e.msgs[i] = d.msgs[i] \/ e.msgs[i].state = "rejected"
            /\ Restored(e, e.att, b)
<1> DEFINE e == Last(Recovered(d, b))
<1>1. \A D : Leads(d, Recovered(d, b), D)
  BY RecoveredLeads
<1>2. /\ DOMAIN e.msgs = DOMAIN d.msgs /\ e.att = RecoveredAttempt(d, b) /\ Unturned(d, e)
      /\ \A i \in DOMAIN e.msgs : e.msgs[i] = d.msgs[i] \/ e.msgs[i].state = "rejected"
  BY RecoveredLeads
<1>3. e.att.primary = d.att.primary /\ Restored(d, e.att, b)
  BY <1>2, RecoveredAttemptFacts
<1>4. \A D : Onward(d, e, D)
  BY <1>1, LeadsFacts
<1> HIDE DEF e
<1>5. e \in Sound /\ e.att # NoAttempt
  BY <1>4 DEF Onward
<1>6. d \in Disks /\ Distinct(d) /\ e \in Disks /\ Distinct(e)
  BY <1>5, Whole
<1>7. e.att \in Attempt /\ \A i \in DOMAIN e.msgs : e.msgs[i] \in Message /\ e.msgs[i].seq \in Nat
  BY <1>5, <1>6, DiskFacts
<1>8. /\ UnknownOf(e) = UnknownOf(d) /\ \A p : LatestOf(e, p) = LatestOf(d, p)
  BY <1>2, <1>6, TurnsKept
<1>9. /\ Accepted(e) = Accepted(d) /\ \A n \in Nat : Bytes(e, n) = Bytes(d, n)
  BY <1>2, <1>6, CountsKept DEF Unturned
<1>10. Pumped(e) \subseteq Pumped(d) /\ \A i \in Pumped(e) : e.msgs[i].seq = d.msgs[i].seq
  BY <1>2 DEF Pumped, InState
<1>11. Cardinality(Accepted(d)) \in Nat
  BY <1>6, AcceptedFacts
<1>12. Restored(e, e.att, b)
  BY <1>3, <1>8, <1>9, <1>10, <1>11 DEF Restored
<1> QED BY <1>2, <1>3, <1>4, <1>5, <1>7, <1>12 DEF e

(* Every message that is inflight may be lost.                             *)
Losing(d, D) == \A i \in InState(d, {"inflight"}) : <<i, "delivery_unknown">> \in D

(* The recovery takes no message into flight.                              *)
LEMMA LosingKept ==
  ASSUME NEW D, NEW d \in Sound, d.att # NoAttempt, NEW b \in BOOLEAN, Losing(d, D)
  PROVE  Losing(Last(Recovered(d, b)), D)
<1> DEFINE e == Last(Recovered(d, b))
<1>1. /\ DOMAIN e.msgs = DOMAIN d.msgs
      /\ \A i \in DOMAIN e.msgs : e.msgs[i] = d.msgs[i] \/ e.msgs[i].state = "rejected"
  BY RecoveredDisk
<1> HIDE DEF e
<1>2. Losing(e, D)
  BY <1>1 DEF Losing, InState
<1> QED BY <1>2 DEF e

(* What an operation does: it takes d onward, returns, and Q holds of the  *)
(* disk it ends with when it returns "ok".                                 *)
Primes(d, r, D) ==
  /\ Leads(d, r.trace, D)
  /\ r.ret \in {"ok", "error"}
  /\ r.ret = "ok" => Last(r.trace).att.primary

(* recordPrimary.                                                          *)
LEMMA RecordPrimaryLeads ==
  ASSUME NEW D, NEW d \in Sound, d.att # NoAttempt
  PROVE  Primes(d, RecordPrimary(d), D)
<1> DEFINE r == RecordPrimary(d)
           R == Recovered(d, TRUE)
           e == Last(R)
           chain == <<PrimaryTurn>>
           a == [e.att EXCEPT !.primary = TRUE, !.last = 0, !.chain = chain]
           w == WriteAttempt(e, a)
           Refused == \/ e.att.state # "open"
                      \/ e.att.last # NoTurn \/ e.att.primary \/ e.att.active # NoMessage
<1>1. Consistent(d)
  BY Whole
<1>2. e \in Sound /\ e.att # NoAttempt
  BY RecoveredDisk
<1>3. CASE Refused
  <2>1. r.trace = R \o Tail(<<e>>) /\ r.ret = "error"
    BY <1>1, <1>3 DEF RecordPrimary, Recovering, AndThen, Throws, Returns
  <2> HIDE DEF r
  <2>2. Leads(e, <<e>>, D)
    BY <1>2, LeadsNowhere
  <2>3. Leads(d, R \o Tail(<<e>>), D)
    BY <2>2, RecoverThen
  <2>4. Primes(d, r, D)
    BY <2>1, <2>3 DEF Primes
  <2> QED BY <2>4 DEF r
<1>4. CASE ~Refused
  <2>1. r.trace = R \o Tail(w) /\ r.ret = "ok"
    BY <1>1, <1>4 DEF RecordPrimary, Recovering, AndThen, Throws, Returns
  <2> HIDE DEF r, e
  <2>2. /\ e \in Disks /\ Distinct(e) /\ Counted(e) /\ Chained(e) /\ Fits(e, e.att)
        /\ e.att \in Attempt
    BY <1>2, Whole
  <2>3. chain \in Seq(Turn) /\ chain = ChainUpTo(e, 0)
    <3>1. PrimaryTurn \in Turn
      BY DEF PrimaryTurn, Turn, NoMessage
    <3> QED BY <2>2, <3>1, ChainIs
  <2> HIDE DEF chain
  <2>4. /\ a \in Attempt /\ a.primary /\ a.last = 0 /\ a.chain = chain /\ a.state = "open"
        /\ a.count = e.att.count /\ a.bytes = e.att.bytes /\ a.active = e.att.active
        /\ a.final = e.att.final /\ a.unknown = e.att.unknown
    BY <1>4, <2>2, <2>3 DEF Attempt
  <2> HIDE DEF a
  <2>5. Fits(e, a)
    BY <1>4, <2>2, <2>3, <2>4 DEF Fits, NoTurn, Shut
  <2>6. Becomes(e, a)
    BY <1>4, <2>2, <2>4, <2>5 DEF Becomes, Advances, Shut
  <2>7. Leads(e, w, D) /\ Last(w).att = a
    BY <1>2, <2>4, <2>6, AttemptLeads
  <2> HIDE DEF w
  <2>8. Via(d, R \o Tail(w), Last(w), D)
    <3>1. Via(e, w, Last(w), D)
      BY <2>7 DEF Via
    <3> QED BY <3>1, RecoverVia DEF e
  <2>9. Primes(d, r, D)
    BY <2>1, <2>4, <2>7, <2>8 DEF Primes, Via
  <2> QED BY <2>9 DEF r
<1> QED BY <1>3, <1>4

(* The call shuts the mailbox when it returns "ok", and it does when       *)
(* message i is inflight.                                                  *)
Shuts(d, r, i, D) ==
  /\ Leads(d, r.trace, D)
  /\ r.ret \in {"ok", "error"}
  /\ r.ret = "ok" => Shut(Last(r.trace).att)
  /\ Is(d, i, {"inflight"}) => r.ret = "ok"

(* settleUnknown shuts the mailbox.                                        *)
LEMMA SettleUnknownLeads ==
  ASSUME NEW D, NEW d \in Sound, d.att # NoAttempt, NEW i \in DOMAIN d.msgs, Losing(d, D)
  PROVE  Shuts(d, SettleUnknown(d, i), i, D)
<1> DEFINE r == SettleUnknown(d, i)
           R == Recovered(d, FALSE)
           e == Last(R)
           turn == Append(e.att.chain, TurnOf(e, i, "delivery_unknown"))
           m == [e.msgs[i] EXCEPT !.state = "delivery_unknown", !.turn = turn]
           t == WriteMessage(e, i, m)
           f == Last(t)
           u == RejectAll(f, InState(f, RetainingStates))
           tu == t \o Tail(u)
           g == Last(tu)
           a == [g.att EXCEPT !.state = IF @ = "closed" THEN @ ELSE "closing",
                              !.chain = turn, !.last = g.msgs[i].seq,
                              !.unknown = g.msgs[i].seq, !.active = NoMessage]
           w == WriteAttempt(g, a)
<1>1. Consistent(d)
  BY Whole
<1>2. /\ e \in Sound /\ e.att # NoAttempt /\ e.att \in Attempt /\ i \in DOMAIN e.msgs
      /\ e.msgs[i] \in Message /\ e.msgs[i].seq \in Nat
      /\ e.msgs[i] = d.msgs[i] \/ e.msgs[i].state = "rejected"
      /\ Restored(e, e.att, FALSE) /\ Onward(d, e, D) /\ Losing(e, D)
  BY RecoveredDisk, LosingKept
<1>3. CASE e.msgs[i].state = "inflight" /\ e.att.active = e.msgs[i].seq
  <2>1. r.trace = R \o Tail(tu \o Tail(w)) /\ r.ret = "ok"
    BY <1>1, <1>3 DEF SettleUnknown, Recovering, AndThen, Throws, Returns, Then
  <2>2. turn \in Seq(Turn)
    <3>1. i \in Nat
      BY <1>2, DiskFacts DEF Sound
    <3>2. TurnOf(e, i, "delivery_unknown") \in Turn
      BY <1>2, <3>1 DEF TurnOf, Turn
    <3>3. e.att.chain \in Seq(Turn)
      BY <1>2 DEF Attempt
    <3> QED BY <3>2, <3>3, AppendProperties
  <2> HIDE DEF r
  <2> USE DEF TurnStates
  <2>3. Settles(e, i, "delivery_unknown", m)
    BY DEF Settles
  <2> HIDE DEF e, turn
  <2>4. /\ m \in Message /\ Allowed(m, i, D) /\ m.seq = e.msgs[i].seq
        /\ m.state = "delivery_unknown" /\ m.turn = turn
    BY <1>2, <1>3, <2>2 DEF Allowed, Message, Losing, InState
  <2> HIDE DEF m
  <2>5. e.att.primary /\ ~Shut(e.att)
    <3>1. i \in Pumped(e)
      BY <1>2, <1>3 DEF Pumped, InState
    <3> QED BY <1>2, <3>1, PumpedFacts
  <2>6. e.att.last = LatestOf(e, TRUE) /\ Is(e, i, {"inflight"})
    BY <1>2, <1>3, <2>5 DEF Restored, Attempt, Is
  <2>7. /\ Leads(e, t, D) /\ Wrote(e, t, i, m) /\ Pumped(f) = {}
        /\ \A b \in Attempt : Reports(e, m, b) => Fits(f, b)
    BY <1>2, <2>3, <2>4, <2>6, TurnLeads
  <2> HIDE DEF t
  <2>8. /\ f \in Sound /\ f.att = e.att /\ DOMAIN f.msgs = DOMAIN e.msgs /\ f.msgs[i] = m
    BY <1>2, <2>7, LeadsFacts DEF Wrote
  <2> HIDE DEF f
  <2>9. /\ Leads(f, u, D) /\ Last(u).att = f.att /\ DOMAIN Last(u).msgs = DOMAIN f.msgs
        /\ Unturned(f, Last(u))
        /\ \A j \in DOMAIN f.msgs : \/ Last(u).msgs[j] = f.msgs[j]
                                   \/ Last(u).msgs[j].state = "rejected"
        /\ \A j \in InState(f, RetainingStates) : Last(u).msgs[j].state = "rejected"
    <3> DEFINE S == InState(f, RetainingStates)
               x == Rejected(f, S)
    <3>1. S \in SUBSET InState(f, RetainingStates)
      OBVIOUS
    <3>2. u = RejectAll(f, S)
      OBVIOUS
    <3> HIDE DEF u, S
    <3>3. Leads(f, u, D) /\ Last(u) = x
      BY <2>8, <3>1, <3>2, RejectAllLeads
    <3>4. /\ x.att = f.att /\ DOMAIN x.msgs = DOMAIN f.msgs /\ Unturned(f, x)
          /\ \A j \in DOMAIN f.msgs : x.msgs[j] = f.msgs[j] \/ x.msgs[j].state = "rejected"
          /\ \A j \in S : x.msgs[j].state = "rejected"
      BY <2>8, <3>1, RejectedFacts
    <3> HIDE DEF x
    <3> QED BY <3>3, <3>4 DEF S
  <2> HIDE DEF u
  <2>10. /\ Leads(e, tu, D) /\ g = Last(u)
    BY <1>2, <2>7, <2>9, LeadsThen DEF f
  <2> HIDE DEF tu
  <2>11. /\ g \in Sound /\ g.att = e.att /\ Unturned(f, g) /\ DOMAIN g.msgs = DOMAIN f.msgs
         /\ \A j \in DOMAIN f.msgs : g.msgs[j] = f.msgs[j] \/ g.msgs[j].state = "rejected"
         /\ \A j \in InState(f, RetainingStates) : g.msgs[j].state = "rejected"
    BY <2>8, <2>9, <2>10, LeadsFacts
  <2> HIDE DEF g
  <2>12. g.msgs[i].seq = m.seq /\ m.seq \in Nat
    BY <1>2, <2>4, <2>8, <2>11 DEF Unturned, Keeps, Same
  <2>13. \A j \in DOMAIN g.msgs : ~Is(g, j, ActiveStates)
    <3> SUFFICES ASSUME NEW j \in DOMAIN g.msgs PROVE g.msgs[j].state \notin ActiveStates
      BY DEF Is
    <3>1. f.msgs[j].state \notin {"claimed", "inflight"}
      BY <2>7, <2>11 DEF Pumped, InState
    <3> QED BY <2>11, <3>1 DEF InState, ActiveStates, RetainingStates
  <2>14. /\ a \in Attempt /\ a.state = "closing" /\ a.chain = m.turn /\ a.last = m.seq
         /\ a.unknown = m.seq /\ a.active = NoMessage /\ a.primary
         /\ a.count = e.att.count /\ a.bytes = e.att.bytes /\ a.final = e.att.final
    <3>1. g.att \in Attempt /\ g.att.state # "closed" /\ g.att.primary
      BY <1>2, <2>5, <2>11 DEF Shut
    <3> QED BY <2>2, <2>4, <2>11, <2>12, <3>1 DEF Attempt, NoMessage
  <2> HIDE DEF a
  <2>15. Reports(e, m, a) /\ Shut(a)
    BY <2>14 DEF Reports, Shut
  <2>16. Fits(g, a)
    <3>1. f \in Disks /\ Distinct(f) /\ g \in Disks /\ Distinct(g)
      BY <2>8, <2>11 DEF Sound
    <3>2. Fits(f, a)
      BY <2>7, <2>14, <2>15
    <3>3. /\ Accepted(g) = Accepted(f) /\ \A n \in Nat : Bytes(g, n) = Bytes(f, n)
      BY <2>11, <3>1, CountsKept DEF Unturned
    <3>4. a.count \in Nat /\ Cardinality(Accepted(f)) <= Cardinality(Accepted(g))
      BY <2>14, <3>1, <3>3, AcceptedFacts DEF Attempt
    <3>5. Bytes(g, a.count) = Bytes(f, a.count) /\ (a.primary \/ Pumped(g) = {})
      BY <2>14, <3>3, <3>4
    <3> QED BY <2>11, <2>14, <3>1, <3>2, <3>4, <3>5, FitsKept
  <2>17. Becomes(g, a)
    <3>1. Counted(g) /\ Chained(g) /\ g.att.state # "closed"
      BY <1>2, <2>5, <2>11, Whole DEF Shut
    <3> QED BY <2>13, <2>14, <2>15, <2>16, <3>1 DEF Becomes, Advances
  <2>18. Leads(g, w, D) /\ Last(w).att = a
    BY <2>11, <2>14, <2>17, AttemptLeads
  <2> HIDE DEF w
  <2>19. Leads(e, tu \o Tail(w), D) /\ Last(tu \o Tail(w)) = Last(w)
    BY <1>2, <2>10, <2>18, LeadsThen DEF g
  <2>20. Via(d, R \o Tail(tu \o Tail(w)), Last(w), D)
    <3>1. Via(e, tu \o Tail(w), Last(w), D)
      BY <2>19 DEF Via
    <3> QED BY <3>1, RecoverVia DEF e
  <2>21. Shuts(d, r, i, D)
    BY <2>1, <2>15, <2>18, <2>20 DEF Shuts, Via
  <2> QED BY <2>21 DEF r
<1>4. CASE ~(e.msgs[i].state = "inflight" /\ e.att.active = e.msgs[i].seq)
  <2>1. r.trace = R \o Tail(<<e>>) /\ r.ret = "error"
    BY <1>1, <1>4 DEF SettleUnknown, Recovering, AndThen, Throws, Returns
  <2> HIDE DEF r
  <2>2. Leads(e, <<e>>, D)
    BY <1>2, LeadsNowhere
  <2>3. Leads(d, R \o Tail(<<e>>), D)
    BY <2>2, RecoverThen
  <2>4. ~Is(d, i, {"inflight"})
    <3> HIDE DEF e
    <3> SUFFICES ASSUME d.msgs[i].state = "inflight" PROVE FALSE
      BY DEF Is
    <3>1. Onto(d.msgs[i], e.msgs[i])
      BY <1>2 DEF Onward
    <3>2. e.msgs[i].state = "inflight"
      BY <1>2, <3>1 DEF Onto, TurnStates
    <3>3. e.att.active = e.msgs[i].seq
      BY <1>2, <3>2 DEF Restored, Pumped, InState
    <3> QED BY <1>4, <3>2, <3>3
  <2>5. Shuts(d, r, i, D)
    BY <2>1, <2>3, <2>4 DEF Shuts
  <2> QED BY <2>5 DEF r
<1> QED BY <1>3, <1>4

(* settleRejected.                                                         *)
LEMMA SettleRejectedLeads ==
  ASSUME NEW D, NEW d \in Sound, d.att # NoAttempt, NEW i \in DOMAIN d.msgs
  PROVE  Leads(d, SettleRejected(d, i).trace, D)
<1> DEFINE m == [d.msgs[i] EXCEPT !.state = "rejected"]
           t == WriteMessage(d, i, m)
           e == Last(t)
           a == [e.att EXCEPT !.active = NoMessage]
           w == WriteAttempt(e, a)
<1>1. CASE d.msgs[i].state \notin RetainingStates
  <2>1. SettleRejected(d, i).trace = <<d>>
    BY <1>1 DEF SettleRejected, Throws, Returns
  <2> QED BY <2>1, LeadsNowhere
<1>2. CASE d.msgs[i].state \in RetainingStates
  <2>1. SettleRejected(d, i).trace \in {t, t \o Tail(w)}
    BY <1>2 DEF SettleRejected, Returns, Then, SetState
  <2>2. Is(d, i, RetainingStates)
    BY <1>2 DEF Is
  <2>3. Leads(d, t, D) /\ Wrote(d, t, i, m)
    BY <2>2, MessageRejected
  <2> HIDE DEF t
  <2>4. e \in Sound /\ e.att # NoAttempt
    BY <2>3, LeadsFacts DEF Wrote
  <2> HIDE DEF e
  <2>5. a \in Attempt
    <3>1. e.att \in Attempt
      BY <2>4, Whole
    <3> QED BY <3>1 DEF Attempt, NoMessage
  <2>6. Becomes(e, a)
    BY <2>4, InactiveFits
  <2> HIDE DEF a
  <2>7. Leads(e, w, D)
    BY <2>4, <2>5, <2>6, AttemptLeads
  <2> HIDE DEF w
  <2>8. Leads(d, t \o Tail(w), D)
    BY <2>3, <2>7, LeadsThen DEF e
  <2> QED BY <2>1, <2>3, <2>8
<1> QED BY <1>1, <1>2

(* The call shuts the mailbox when it returns "ok".                        *)
Closes(d, r, D) ==
  /\ Leads(d, r.trace, D)
  /\ r.ret = "ok" => Shut(Last(r.trace).att)

(* What depends on the messages alone.                                     *)
LEMMA SameMessages ==
  ASSUME NEW d, NEW x, x.msgs = d.msgs
  PROVE  /\ Accepted(x) = Accepted(d) /\ TurnsOf(x) = TurnsOf(d)
         /\ UnknownOf(x) = UnknownOf(d) /\ Pumped(x) = Pumped(d)
         /\ \A S : InState(x, S) = InState(d, S)
         /\ \A p : LatestOf(x, p) = LatestOf(d, p)
<1>1. /\ Accepted(x) = Accepted(d) /\ \A S : InState(x, S) = InState(d, S)
  BY DEF Accepted, InState
<1>2. TurnsOf(x) = TurnsOf(d) /\ UnknownOf(x) = UnknownOf(d) /\ Pumped(x) = Pumped(d)
  BY <1>1 DEF TurnsOf, UnknownOf, Pumped
<1>3. ASSUME NEW p PROVE LatestOf(x, p) = LatestOf(d, p)
  <2>1. Seqs(x, TurnsOf(d)) = Seqs(d, TurnsOf(d))
    BY DEF Seqs
  <2> QED BY <1>2, <2>1 DEF LatestOf
<1> QED BY <1>1, <1>2, <1>3

(* tryClose closes a mailbox in which nothing is active.                   *)
LEMMA TryCloseLeads ==
  ASSUME NEW D, NEW d \in Sound, d.att # NoAttempt, NEW recovery \in BOOLEAN
  PROVE  /\ Closes(d, TryClose(d, recovery), D)
         /\ InState(d, ActiveStates) = {} /\ (recovery \/ d.att.primary)
              => TryClose(d, recovery).ret = "ok"
<1> DEFINE r == TryClose(d, recovery)
           R == Recovered(d, TRUE)
           e == Last(R)
           a == [e.att EXCEPT !.state = "closing"]
           t == IF e.att.state = "closing" THEN <<e>> ELSE WriteAttempt(e, a)
           f == Last(t)
           g == [f EXCEPT !.att.state = "closed"]
           tu == t \o Tail(<<f, g, g>>)
           h == Last(tu)
           w == RejectAll(h, InState(h, RetainingStates))
           Early == e.att.state = "preparing" /\ ~recovery
<1>1. Consistent(d)
  BY Whole
<1>2. /\ e \in Sound /\ e.att # NoAttempt /\ e.att \in Attempt /\ e.att.primary = d.att.primary
      /\ DOMAIN e.msgs = DOMAIN d.msgs /\ Restored(e, e.att, TRUE)
      /\ \A i \in DOMAIN e.msgs : e.msgs[i] = d.msgs[i] \/ e.msgs[i].state = "rejected"
  BY RecoveredDisk
<1>3. ASSUME InState(d, ActiveStates) = {} PROVE InState(e, ActiveStates) = {}
  BY <1>2, <1>3 DEF InState, ActiveStates
<1>4. ASSUME recovery \/ d.att.primary PROVE ~Early
  <2>1. Fits(e, e.att)
    BY <1>2, Whole
  <2> QED BY <1>2, <1>4, <2>1 DEF Fits
<1>5. CASE e.att.state # "closed" /\ ~Early /\ InState(e, ActiveStates) = {}
  <2>1. r.trace = R \o Tail(tu \o Tail(w)) /\ r.ret = "ok"
    BY <1>1, <1>5 DEF TryClose, Recovering, AndThen, Throws, Returns, Then
  <2>2. \A i \in DOMAIN e.msgs : ~Is(e, i, ActiveStates)
    BY <1>5 DEF InState, Is
  <2> HIDE DEF r, e
  <2>3. Counted(e) /\ Chained(e) /\ Fits(e, e.att)
    BY <1>2, Whole
  <2>4. /\ a \in Attempt /\ a.state = "closing" /\ a.count = e.att.count /\ a.bytes = e.att.bytes
        /\ a.active = e.att.active /\ a.primary = e.att.primary /\ a.chain = e.att.chain
        /\ a.last = e.att.last /\ a.unknown = e.att.unknown /\ a.final = e.att.final
    BY <1>2 DEF Attempt
  <2> HIDE DEF a
  <2>5. Fits(e, a)
    BY <1>5, <2>3, <2>4 DEF Fits, Shut
  <2>6. Becomes(e, a)
    BY <1>5, <2>2, <2>3, <2>4, <2>5 DEF Becomes, Advances, Shut
  <2>7. /\ Leads(e, t, D) /\ f.msgs = e.msgs /\ f.att \in Attempt
        /\ f.att.state = "closing" /\ f.att.last = e.att.last /\ f.att.primary = e.att.primary
    <3>1. CASE e.att.state = "closing"
      BY <1>2, <3>1, LeadsNowhere
    <3>2. CASE e.att.state # "closing"
      <4> DEFINE z == WriteAttempt(e, a)
      <4>1. Leads(e, z, D) /\ Last(z).att = a /\ Last(z).msgs = e.msgs
        BY <1>2, <2>4, <2>6, AttemptLeads
      <4>2. t = z
        BY <3>2
      <4> HIDE DEF t, z
      <4> QED BY <2>4, <4>1, <4>2
    <3> QED BY <3>1, <3>2
  <2> HIDE DEF t
  <2>8. f \in Sound
    BY <2>7, LeadsFacts
  <2> HIDE DEF f
  <2>9. f.att # NoAttempt /\ f \in Disks
    BY <2>7, <2>8, DiskFacts DEF Sound
  <2>10. Counted(f) /\ Chained(f) /\ Fits(f, f.att)
    BY <2>8, <2>9, Whole
  <2> DEFINE c == [f.att EXCEPT !.state = "closed"]
  <2>11. /\ c \in Attempt /\ c.state = "closed" /\ c.count = f.att.count
         /\ c.bytes = f.att.bytes /\ c.active = f.att.active /\ c.primary = f.att.primary
         /\ c.chain = f.att.chain /\ c.last = f.att.last /\ c.unknown = f.att.unknown
         /\ c.final = f.att.final
    BY <2>7 DEF Attempt
  <2>12. g = [f EXCEPT !.att = c]
    BY <2>9 DEF Disks
  <2> HIDE DEF c, g
  <2>13. c.last = LatestOf(f, c.primary)
    <3>1. LatestOf(f, e.att.primary) = LatestOf(e, e.att.primary)
      BY <2>7, SameMessages
    <3> QED BY <1>2, <2>7, <2>11, <3>1 DEF Restored
  <2>14. Fits(f, c)
    BY <2>7, <2>10, <2>11, <2>13 DEF Fits, Shut
  <2>15. Becomes(f, c)
    BY <2>2, <2>7, <2>10, <2>11, <2>14 DEF Becomes, Advances, Shut, Is
  <2>16. Onward(f, g, D) /\ g.att = c
    BY <2>8, <2>11, <2>12, <2>15, AttemptSound
  <2>17. Leads(f, <<f, g, g>>, D) /\ Last(<<f, g, g>>) = g
    <3>1. g \in Sound
      BY <2>16 DEF Onward
    <3>2. Trace(Sound, f, <<f, g, g>>) /\ Last(<<f, g, g>>) = g
      BY <2>8, <3>1 DEF Trace, Last
    <3>3. \A y \in Range(<<f, g, g>>) : y = f \/ y = g
      BY DEF Range
    <3> QED BY <2>8, <2>16, <3>2, <3>3, Stays DEF Leads
  <2>18. Leads(e, tu, D) /\ h = g
    <3> DEFINE v == <<f, g, g>>
    <3>1. Leads(f, v, D) /\ Last(v) = g /\ tu = t \o Tail(v)
      BY <2>17
    <3> HIDE DEF v, tu
    <3>2. Leads(Last(t), v, D)
      BY <3>1 DEF f
    <3> QED BY <1>2, <2>7, <3>1, <3>2, LeadsThen
  <2> HIDE DEF tu
  <2>19. h \in Sound
    BY <2>18, LeadsFacts
  <2> HIDE DEF h
  <2>20. Leads(h, w, D) /\ Last(w).att = h.att
    <3> DEFINE S == InState(h, RetainingStates)
    <3>1. S \in SUBSET InState(h, RetainingStates) /\ w = RejectAll(h, S)
      OBVIOUS
    <3> HIDE DEF S, w
    <3> QED BY <2>19, <3>1, RejectAllLeads, RejectedFacts
  <2> HIDE DEF w
  <2>21. Leads(e, tu \o Tail(w), D) /\ Last(tu \o Tail(w)) = Last(w)
    BY <1>2, <2>18, <2>20, LeadsThen DEF h
  <2>22. Via(d, R \o Tail(tu \o Tail(w)), Last(w), D)
    <3>1. Via(e, tu \o Tail(w), Last(w), D)
      BY <2>21 DEF Via
    <3> QED BY <3>1, RecoverVia DEF e
  <2>23. Shut(Last(w).att)
    BY <2>11, <2>16, <2>18, <2>20 DEF Shut
  <2>24. Closes(d, r, D)
    BY <2>1, <2>22, <2>23 DEF Closes, Via
  <2> QED BY <2>1, <2>24 DEF r
<1>6. CASE e.att.state = "closed"
  <2>1. r.trace = R \o Tail(<<e>>) /\ r.ret = "ok"
    BY <1>1, <1>6 DEF TryClose, Recovering, AndThen, Throws, Returns
  <2> HIDE DEF r
  <2>2. Leads(e, <<e>>, D) /\ Last(<<e>>) = e
    BY <1>2, LeadsNowhere
  <2>3. Via(d, R \o Tail(<<e>>), e, D)
    <3>1. Via(e, <<e>>, e, D)
      BY <2>2 DEF Via
    <3> QED BY <3>1, RecoverVia DEF e
  <2>4. Closes(d, r, D)
    BY <1>6, <2>1, <2>3 DEF Closes, Via, Shut
  <2> QED BY <2>1, <2>4 DEF r
<1>7. CASE e.att.state # "closed" /\ (Early \/ InState(e, ActiveStates) # {})
  <2>1. r.trace = R \o Tail(<<e>>) /\ r.ret # "ok"
    BY <1>1, <1>7 DEF TryClose, Recovering, AndThen, Throws, Returns
  <2> HIDE DEF r
  <2>2. Leads(e, <<e>>, D)
    BY <1>2, LeadsNowhere
  <2>3. Leads(d, R \o Tail(<<e>>), D)
    BY <2>2, RecoverThen
  <2>4. Closes(d, r, D)
    BY <2>1, <2>3 DEF Closes
  <2>5. ~(InState(d, ActiveStates) = {} /\ (recovery \/ d.att.primary))
    <3> HIDE DEF e, Early
    <3> QED BY <1>3, <1>4, <1>7
  <2> QED BY <2>4, <2>5 DEF r
<1> QED BY <1>5, <1>6, <1>7

(* settleInterruptedAttempt never throws of itself.                        *)
Interrupts(d, r, D) ==
  /\ Leads(d, r.trace, D)
  /\ r.ret = "ok" /\ Shut(Last(r.trace).att)

(* No message of a shut mailbox is active.                                 *)
LEMMA ShutIsSettled ==
  ASSUME NEW d \in Sound, Shut(d.att)
  PROVE  InState(d, ActiveStates) = {}
BY DEF Sound, Sealed, InState, Is

(* settleInterrupted.                                                      *)
LEMMA SettleInterruptedLeads ==
  ASSUME NEW D, NEW d \in Sound, Losing(d, D)
  PROVE  Interrupts(d, SettleInterrupted(d), D)
<1> DEFINE q == SettleInterrupted(d)
           R == Recovered(d, TRUE)
           e == Last(R)
           inflight == InState(e, {"inflight"})
           i == CHOOSE i \in inflight : TRUE
           r == IF inflight # {} THEN SettleUnknown(e, i)
                ELSE Returns(RejectEach(e, InState(e, RetainingStates)), "ok")
           f == Last(r.trace)
           c == TryClose(f, TRUE)
<1>1. CASE d.att = NoAttempt
  <2>1. q.trace = <<d>> /\ q.ret = "ok"
    BY <1>1 DEF SettleInterrupted, Returns
  <2>2. Shut(d.att)
    BY <1>1 DEF Shut, NoAttempt
  <2> HIDE DEF q
  <2>3. Interrupts(d, q, D)
    BY <2>1, <2>2, LeadsNowhere DEF Interrupts
  <2> QED BY <2>3 DEF q
<1>2. CASE d.att # NoAttempt
  <2>1. Consistent(d)
    BY <1>2, Whole
  <2>2. e \in Sound /\ e.att # NoAttempt /\ Losing(e, D)
    BY <1>2, RecoveredDisk, LosingKept
  <2>3. CASE e.att.state = "closed"
    <3>1. q.trace = R \o Tail(<<e>>) /\ q.ret = "ok"
      BY <1>2, <2>1, <2>3 DEF SettleInterrupted, Recovering, AndThen, Throws, Returns
    <3> HIDE DEF q
    <3>2. Leads(e, <<e>>, D) /\ Last(<<e>>) = e
      BY <2>2, LeadsNowhere
    <3>3. Via(d, R \o Tail(<<e>>), e, D)
      <4>1. Via(e, <<e>>, e, D)
        BY <3>2 DEF Via
      <4> QED BY <1>2, <4>1, RecoverVia DEF e
    <3>4. Interrupts(d, q, D)
      BY <2>3, <3>1, <3>3 DEF Interrupts, Via, Shut
    <3> QED BY <3>4 DEF q
  <2>4. CASE e.att.state # "closed"
    <3>1. q = IF r.ret = "error" THEN Returns(R \o Tail(r.trace), r.ret)
              ELSE Returns(R \o Tail(r.trace \o Tail(c.trace)), c.ret)
      BY <1>2, <2>1, <2>4 DEF SettleInterrupted, Recovering, AndThen, Throws, Returns
    <3> HIDE DEF q, e
    <3>2. Leads(e, r.trace, D) /\ r.ret = "ok" /\ InState(f, ActiveStates) = {}
      <4>1. CASE inflight # {}
        <5>1. i \in DOMAIN e.msgs /\ Is(e, i, {"inflight"})
          BY <4>1 DEF InState, Is
        <5>2. r = SettleUnknown(e, i)
          BY <4>1
        <5> HIDE DEF i, inflight, r
        <5>3. Shuts(e, r, i, D)
          BY <2>2, <5>1, <5>2, SettleUnknownLeads
        <5>4. Leads(e, r.trace, D) /\ r.ret = "ok" /\ Shut(f.att)
          BY <5>1, <5>3 DEF Shuts
        <5>5. f \in Sound
          BY <5>4, LeadsFacts
        <5> QED BY <5>4, <5>5, ShutIsSettled
      <4>2. CASE inflight = {}
        <5> DEFINE S == InState(e, RetainingStates)
                   x == Rejected(e, S)
        <5>1. r.trace = RejectEach(e, S) /\ r.ret = "ok"
          BY <4>2 DEF Returns
        <5>2. S \in SUBSET InState(e, RetainingStates)
          OBVIOUS
        <5> HIDE DEF r, S
        <5>3. Leads(e, r.trace, D) /\ f.msgs = x.msgs
          BY <2>2, <5>1, <5>2, RejectEachLeads
        <5>4. /\ DOMAIN x.msgs = DOMAIN e.msgs
              /\ \A j \in DOMAIN e.msgs : x.msgs[j] = e.msgs[j] \/ x.msgs[j].state = "rejected"
              /\ \A j \in S : x.msgs[j].state = "rejected"
          BY <2>2, <5>2, RejectedFacts
        <5> HIDE DEF x
        <5>5. InState(f, ActiveStates) = {}
          BY <4>2, <5>3, <5>4 DEF InState, ActiveStates, RetainingStates, S
        <5> QED BY <5>1, <5>3, <5>5
      <4> QED BY <4>1, <4>2
    <3> HIDE DEF r
    <3>3. f \in Sound /\ f.att # NoAttempt
      BY <2>2, <3>2, LeadsFacts DEF Onward
    <3> HIDE DEF f
    <3>4. Closes(f, c, D) /\ c.ret = "ok"
      BY <3>2, <3>3, TryCloseLeads
    <3> HIDE DEF c
    <3>5. Leads(f, c.trace, D) /\ Shut(Last(c.trace).att)
      BY <3>4 DEF Closes
    <3>6. /\ Leads(e, r.trace \o Tail(c.trace), D)
          /\ Last(r.trace \o Tail(c.trace)) = Last(c.trace)
      BY <2>2, <3>2, <3>5, LeadsThen DEF f
    <3>7. Via(d, R \o Tail(r.trace \o Tail(c.trace)), Last(c.trace), D)
      <4>1. Via(e, r.trace \o Tail(c.trace), Last(c.trace), D)
        BY <3>6 DEF Via
      <4> QED BY <1>2, <4>1, RecoverVia DEF e
    <3>8. Interrupts(d, q, D)
      BY <3>1, <3>2, <3>4, <3>5, <3>7 DEF Interrupts, Via, Returns
    <3> QED BY <3>8 DEF q
  <2> QED BY <2>3, <2>4
<1> QED BY <1>1, <1>2

(* selectFinal.                                                            *)
LEMMA SelectFinalLeads ==
  ASSUME NEW D, NEW d \in Sound, NEW seq, NEW valid \in BOOLEAN
  PROVE  Leads(d, SelectFinal(d, seq, valid).trace, D)
<1> DEFINE f == IF valid THEN seq ELSE NoTurn
           a == [d.att EXCEPT !.final = f]
           w == WriteAttempt(d, a)
<1>1. CASE d.att = NoAttempt \/ d.att.state # "closed" \/ seq # d.att.last
  <2>1. SelectFinal(d, seq, valid).trace = <<d>>
    BY <1>1 DEF SelectFinal, Throws, Returns
  <2> QED BY <2>1, LeadsNowhere
<1>2. CASE d.att # NoAttempt /\ d.att.state = "closed" /\ seq = d.att.last
  <2>1. SelectFinal(d, seq, valid).trace \in {<<d>>, w}
    BY DEF SelectFinal, Throws, Returns
  <2>2. /\ d.att \in Attempt /\ Sealed(d) /\ Counted(d) /\ Chained(d) /\ Fits(d, d.att)
    BY <1>2, Whole
  <2>3. f \in Nat \cup {NoTurn} /\ (f # NoTurn => f = d.att.last)
    BY <1>2, <2>2 DEF Attempt
  <2> HIDE DEF f
  <2>4. /\ a \in Attempt /\ a.state = "closed" /\ a.count = d.att.count /\ a.bytes = d.att.bytes
        /\ a.active = d.att.active /\ a.primary = d.att.primary /\ a.chain = d.att.chain
        /\ a.last = d.att.last /\ a.unknown = d.att.unknown /\ a.final = f
    BY <1>2, <2>2, <2>3 DEF Attempt
  <2> HIDE DEF a
  <2>5. Fits(d, a)
    BY <1>2, <2>2, <2>3, <2>4 DEF Fits, Shut
  <2>6. Becomes(d, a)
    BY <1>2, <2>2, <2>4, <2>5 DEF Becomes, Advances, Shut, Sealed
  <2>7. Leads(d, w, D)
    BY <2>4, <2>6, AttemptLeads
  <2> HIDE DEF w
  <2> QED BY <2>1, <2>7, LeadsNowhere
<1> QED BY <1>1, <1>2

(* The journal entry after a call about message i.                         *)
LEMMA NotingLeads ==
  ASSUME NEW D, NEW d \in Sound, NEW r, Leads(d, r.trace, D), NEW i,
         r.ret # "error" => i \in DOMAIN Last(r.trace).msgs
  PROVE  /\ Leads(d, Noting(r, i).trace, D)
         /\ Noting(r, i).ret = r.ret
         /\ Last(Noting(r, i).trace).msgs = Last(r.trace).msgs
         /\ Last(Noting(r, i).trace).att = Last(r.trace).att
<1> DEFINE e == Last(r.trace)
           p == <<i, e.msgs[i].state>>
           x == [e EXCEPT !.noted = @ \cup {p}]
<1>1. e \in Sound
  BY LeadsFacts
<1>2. CASE r.ret = "error"
  BY <1>2 DEF Noting
<1>3. CASE r.ret # "error"
  <2>1. Noting(r, i) = Returns(r.trace \o Tail(Note(e, i)), r.ret)
    BY <1>3 DEF Noting, Then
  <2>2. Note(e, i) \in {<<e>>, <<e, x>>}
    BY DEF Note
  <2>3. i \in DOMAIN e.msgs /\ i \in Nat /\ e.msgs[i].state \in States
    BY <1>1, <1>3, DiskFacts DEF Sound
  <2>4. {p} \in SUBSET (Nat \X States) /\ \A n \in {p} : n[1] \in DOMAIN e.msgs
        /\ e.msgs[n[1]].state = n[2]
    BY <2>3
  <2> HIDE DEF p, e
  <2>5. Onward(e, x, D) /\ x.msgs = e.msgs /\ x.att = e.att
    BY <1>1, <2>4, NoteLeads
  <2> HIDE DEF x
  <2>6. /\ Leads(e, Note(e, i), D) /\ Last(Note(e, i)).msgs = e.msgs
        /\ Last(Note(e, i)).att = e.att
    BY <1>1, <2>2, <2>5, LeadsNowhere, LeadsTo
  <2>7. /\ Leads(d, r.trace \o Tail(Note(e, i)), D)
        /\ Last(r.trace \o Tail(Note(e, i))) = Last(Note(e, i))
    BY <2>6, LeadsThen DEF e
  <2> QED BY <2>1, <2>6, <2>7 DEF Returns, e
<1> QED BY <1>2, <1>3

(* The journal entries after a call about all the messages.                *)
LEMMA NotingAllLeads ==
  ASSUME NEW D, NEW d \in Sound, NEW r, Leads(d, r.trace, D)
  PROVE  Leads(d, NotingAll(r).trace, D)
<1> DEFINE e == Last(r.trace)
<1>1. e \in Sound
  BY LeadsFacts
<1>2. NotingAll(r).trace \in {r.trace, r.trace \o Tail(NoteAll(e))}
  BY DEF NotingAll, Then, Returns
<1>3. Leads(e, NoteAll(e), D)
  BY <1>1, NoteAllLeads
<1>4. Leads(d, r.trace \o Tail(NoteAll(e)), D)
  BY <1>3, LeadsThen
<1> QED BY <1>2, <1>4

(* settleCancelled.                                                        *)
LEMMA SettleCancelledLeads ==
  ASSUME NEW D, NEW d \in Sound, Losing(d, D)
  PROVE  Leads(d, SettleCancelled(d).trace, D)
<1> DEFINE r == SettleInterrupted(d)
<1>1. Leads(d, r.trace, D)
  BY SettleInterruptedLeads DEF Interrupts
<1>2. SettleCancelled(d) = NotingAll(r)
  BY DEF SettleCancelled
<1> HIDE DEF r
<1> QED BY <1>1, <1>2, NotingAllLeads

(* The attempt is opened where there is none.                              *)
LEMMA EmptyFits ==
  ASSUME NEW d \in Disks, d.msgs = <<>>, NEW a \in Attempt,
         a.count = 0, a.bytes = 0, a.active = NoMessage, ~a.primary, a.chain = <<>>,
         a.last = NoTurn, a.unknown = NoMessage, a.final = NoTurn, ~Shut(a),
         d.att # NoAttempt => Advances(d.att, a), d.att.state # "closed"
  PROVE  Becomes(d, a)
<1>1. DOMAIN d.msgs = {}
  OBVIOUS
<1>2. Accepted(d) = {} /\ TurnsOf(d) = {} /\ UnknownOf(d) = {} /\ Pumped(d) = {}
  BY <1>1 DEF Accepted, TurnsOf, UnknownOf, Pumped, InState
<1>3. Cardinality(Accepted(d)) = 0
  BY <1>2, FS_EmptySet
<1>4. Bytes(d, 0) = 0
  <2>1. {i \in Accepted(d) : d.msgs[i].seq <= 0} = {}
    BY <1>2
  <2>2. Bytes(d, 0) = SumOf(d, {})
    BY <2>1 DEF Bytes, SumOf
  <2> QED BY <2>2, SumEmpty
<1>5. Counted(d)
  <2>1. Seqs(d, Accepted(d)) = {} /\ 1..0 = {}
    BY <1>2 DEF Seqs
  <2> QED BY <1>3, <1>4, <2>1, MailboxAssumption DEF Counted
<1>6. Chained(d)
  BY <1>1, <1>2 DEF Chained
<1>7. Fits(d, a)
  <2>1. ChainUpTo(d, NoTurn) = <<>>
    BY DEF ChainUpTo
  <2>2. a.state # "closed"
    BY DEF Shut
  <2> QED BY <1>2, <1>3, <1>4, <2>1, <2>2 DEF Fits, NoMessage
<1> QED BY <1>1, <1>5, <1>6, <1>7 DEF Becomes

(* openAttempt, which succeeds on the new disk.                            *)
LEMMA OpenAttemptLeads ==
  ASSUME NEW D, NEW d \in Sound, d.att = NoAttempt
  PROVE  /\ Leads(d, OpenAttempt(d).trace, D) /\ OpenAttempt(d).ret = "ok"
         /\ Last(OpenAttempt(d).trace).att # NoAttempt
<1> DEFINE a == [NewAttempt EXCEPT !.state = "open"]
           p == [d EXCEPT !.att = NewAttempt]
           o == [p EXCEPT !.att.state = "open"]
<1>1. OpenAttempt(d).trace = <<d, p, o, o>> /\ OpenAttempt(d).ret = "ok"
  BY DEF OpenAttempt, Returns
<1>2. NewAttempt \in Attempt /\ NewAttempt.state = "preparing"
  BY DEF NewAttempt, Attempt, NoMessage, NoTurn
<1>3. a \in Attempt /\ a.state = "open"
  BY <1>2 DEF Attempt
<1>4. d \in Disks /\ d.msgs = <<>> /\ d.att.state # "closed"
  BY DEF Sound, Coherent, NoAttempt
<1>5. Onward(d, p, D) /\ p.att = NewAttempt /\ p.msgs = d.msgs
  <2> DEFINE y == NewAttempt
  <2>1. /\ y.count = 0 /\ y.bytes = 0 /\ y.active = NoMessage /\ ~y.primary /\ y.chain = <<>>
        /\ y.last = NoTurn /\ y.unknown = NoMessage /\ y.final = NoTurn /\ ~Shut(y)
    BY DEF NewAttempt, Shut
  <2> HIDE DEF y
  <2>2. Becomes(d, y)
    BY <1>2, <1>4, <2>1, EmptyFits DEF y
  <2> QED BY <1>2, <2>2, AttemptSound DEF y
<1>6. p \in Sound /\ p \in Disks
  BY <1>5 DEF Onward, Sound
<1>7. o = [p EXCEPT !.att = a]
  BY <1>5, <1>6 DEF Disks
<1> HIDE DEF p
<1>8. Onward(p, o, D) /\ o.att = a
  <2>1. /\ a.count = 0 /\ a.bytes = 0 /\ a.active = NoMessage /\ ~a.primary /\ a.chain = <<>>
        /\ a.last = NoTurn /\ a.unknown = NoMessage /\ a.final = NoTurn
    BY DEF NewAttempt
  <2> HIDE DEF a
  <2>2. ~Shut(a) /\ Advances(p.att, a) /\ p.att.state # "closed"
    <3>1. ~NewAttempt.primary
      BY DEF NewAttempt
    <3> QED BY <1>2, <1>3, <1>5, <3>1 DEF Shut, Advances
  <2>3. Becomes(p, a)
    BY <1>3, <1>4, <1>5, <1>6, <2>1, <2>2, EmptyFits
  <2> QED BY <1>3, <1>6, <1>7, <2>3, AttemptSound
<1> HIDE DEF o, a
<1>9. o \in Sound /\ Onward(d, o, D)
  <2>1. Onward(d, o, D)
    BY <1>5, <1>8, Onwards
  <2> QED BY <2>1 DEF Onward
<1>10. Trace(Sound, d, <<d, p, o, o>>) /\ Last(<<d, p, o, o>>) = o
  BY <1>6, <1>9 DEF Trace, Last
<1>11. \A y \in Range(<<d, p, o, o>>) : y = d \/ y = p \/ y = o
  BY DEF Range
<1>12. o.att # NoAttempt
  BY <1>3, <1>8 DEF NoAttempt
<1> QED BY <1>1, <1>5, <1>9, <1>10, <1>11, <1>12, Stays DEF Leads

(* The call r takes d onward, and brings message i to the state s.         *)
Brings(d, r, i, s, D) ==
  /\ Leads(d, r.trace, D)
  /\ r.ret \in {"ok", "error"}
  /\ r.ret = "ok" => i \in DOMAIN Last(r.trace).msgs /\ Last(r.trace).msgs[i].state = s

(* settleDelivered of a message the provider reported.                     *)
LEMMA SettleDeliveredLeads ==
  ASSUME NEW D, NEW d \in Sound, d.att # NoAttempt, NEW i \in DOMAIN d.msgs, NEW chain,
         <<i, "delivered">> \in D
  PROVE  Brings(d, SettleDelivered(d, i, chain), i, "delivered", D)
<1> DEFINE r == SettleDelivered(d, i, chain)
           R == Recovered(d, TRUE)
           e == Last(R)
           turn == Append(chain, TurnOf(e, i, "delivered"))
           m == [e.msgs[i] EXCEPT !.state = "delivered", !.turn = turn]
           t == WriteMessage(e, i, m)
           f == Last(t)
           a == [f.att EXCEPT !.chain = turn, !.active = NoMessage, !.last = f.msgs[i].seq]
           w == WriteAttempt(f, a)
           Refused == \/ e.msgs[i].state # "inflight"
                      \/ e.att.active # e.msgs[i].seq
                      \/ e.att.chain # chain
<1>1. Consistent(d)
  BY Whole
<1>2. /\ e \in Sound /\ e.att # NoAttempt /\ e.att \in Attempt /\ i \in DOMAIN e.msgs
      /\ e.msgs[i] \in Message /\ e.msgs[i].seq \in Nat
      /\ Restored(e, e.att, TRUE)
  BY RecoveredDisk
<1>3. CASE ~Refused
  <2>1. r.trace = R \o Tail(t \o Tail(w)) /\ r.ret = "ok"
    BY <1>1, <1>3 DEF SettleDelivered, Recovering, AndThen, Throws, Returns, Then
  <2>2. turn \in Seq(Turn)
    <3>1. i \in Nat
      BY <1>2, DiskFacts DEF Sound
    <3>2. TurnOf(e, i, "delivered") \in Turn
      BY <1>2, <3>1 DEF TurnOf, Turn
    <3>3. chain \in Seq(Turn)
      BY <1>2, <1>3 DEF Attempt
    <3> QED BY <3>2, <3>3, AppendProperties
  <2> USE DEF TurnStates
  <2>3. Settles(e, i, "delivered", m)
    BY <1>3 DEF Settles
  <2> HIDE DEF r, e, turn
  <2>4. /\ m \in Message /\ Allowed(m, i, D) /\ m.seq = e.msgs[i].seq
        /\ m.state = "delivered" /\ m.turn = turn
    BY <1>2, <1>3, <2>2 DEF Allowed, Message
  <2> HIDE DEF m
  <2>5. e.att.primary /\ ~Shut(e.att) /\ Is(e, i, {"inflight"})
    <3>1. i \in Pumped(e) /\ Is(e, i, {"inflight"})
      BY <1>2, <1>3 DEF Pumped, InState, Is
    <3> QED BY <1>2, <3>1, PumpedFacts
  <2>6. e.att.last = LatestOf(e, TRUE)
    BY <1>2, <2>5 DEF Restored, Attempt
  <2>7. /\ Leads(e, t, D) /\ Wrote(e, t, i, m)
        /\ \A b \in Attempt : Reports(e, m, b) => Fits(f, b)
    BY <1>2, <2>3, <2>4, <2>5, <2>6, TurnLeads
  <2> HIDE DEF t
  <2>8. /\ f \in Sound /\ f.att = e.att /\ f.msgs[i] = m /\ i \in DOMAIN f.msgs
    BY <1>2, <2>7, LeadsFacts DEF Wrote
  <2> HIDE DEF f
  <2>9. Fits(e, e.att) /\ Counted(f) /\ Chained(f)
    BY <1>2, <2>8, Whole
  <2>10. /\ a \in Attempt /\ a.state = e.att.state /\ a.chain = m.turn /\ a.last = m.seq
         /\ a.unknown = e.att.unknown /\ a.active = NoMessage /\ a.primary
         /\ a.count = e.att.count /\ a.bytes = e.att.bytes /\ a.final = e.att.final
    BY <1>2, <2>2, <2>4, <2>5, <2>8 DEF Attempt, NoMessage
  <2> HIDE DEF a
  <2>11. Reports(e, m, a) /\ ~Shut(a)
    BY <2>5, <2>9, <2>10 DEF Reports, Shut, Fits
  <2>12. Becomes(f, a)
    <3>1. Fits(f, a)
      BY <2>7, <2>10, <2>11
    <3>2. f.att.state # "closed" /\ Advances(f.att, a)
      BY <2>5, <2>8, <2>10 DEF Shut, Advances
    <3> QED BY <2>9, <2>11, <3>1, <3>2 DEF Becomes
  <2>13. Leads(f, w, D) /\ Last(w).msgs = f.msgs
    BY <2>8, <2>10, <2>12, AttemptLeads
  <2> HIDE DEF w
  <2>14. Leads(e, t \o Tail(w), D) /\ Last(t \o Tail(w)) = Last(w)
    BY <1>2, <2>7, <2>13, LeadsThen DEF f
  <2>15. Via(d, R \o Tail(t \o Tail(w)), Last(w), D)
    <3>1. Via(e, t \o Tail(w), Last(w), D)
      BY <2>14 DEF Via
    <3> QED BY <3>1, RecoverVia DEF e
  <2>16. Brings(d, r, i, "delivered", D)
    BY <2>1, <2>4, <2>8, <2>13, <2>15 DEF Brings, Via
  <2> QED BY <2>16 DEF r
<1>4. CASE Refused
  <2>1. r.trace = R \o Tail(<<e>>) /\ r.ret = "error"
    BY <1>1, <1>4 DEF SettleDelivered, Recovering, AndThen, Throws, Returns
  <2> HIDE DEF r
  <2>2. Leads(e, <<e>>, D)
    BY <1>2, LeadsNowhere
  <2>3. Leads(d, R \o Tail(<<e>>), D)
    BY <2>2, RecoverThen
  <2>4. Brings(d, r, i, "delivered", D)
    BY <2>1, <2>3 DEF Brings
  <2> QED BY <2>4 DEF r
<1> QED BY <1>3, <1>4

(* The message that the pump takes next, or is about to send.              *)
LEMMA MessageTaken ==
  ASSUME NEW D, NEW d \in Sound, NEW i \in DOMAIN d.msgs, Is(d, i, RetainingStates),
         NEW s \in {"claimed", "inflight"},
         d.att # NoAttempt, d.att.primary, UnknownOf(d) = {},
         \A j \in DOMAIN d.msgs : Is(d, j, {"claimed", "inflight"}) => j = i,
         \A j \in DOMAIN d.msgs : Is(d, j, {"accepted"}) /\ j # i => d.msgs[i].seq < d.msgs[j].seq
  PROVE  /\ Leads(d, SetState(d, i, s), D)
         /\ Wrote(d, SetState(d, i, s), i, [d.msgs[i] EXCEPT !.state = s])
<1> DEFINE m == [d.msgs[i] EXCEPT !.state = s]
           x == [d EXCEPT !.msgs[i] = m]
<1> USE DEF Is, ActiveStates, RetainingStates, TurnStates, FinalStates
<1>0. /\ d \in Disks /\ Numbered(d) /\ Distinct(d) /\ Queued(d) /\ Sealed(d) /\ TrueNotes(d)
      /\ Coherent(d)
  BY DEF Sound
<1>1. d.msgs[i] \in Message
  BY <1>0, DiskFacts
<1>2. m \in Message /\ Same(d.msgs[i], m) /\ m.state = s /\ m.turn = d.msgs[i].turn
  <2>1. s \in States
    BY DEF States
  <2> QED BY <1>1, <2>1, StateWritten DEF Same
<1>3. SetState(d, i, s) = <<d, x>>
  BY DEF SetState, WriteMessage
<1> HIDE DEF m
<1>4. /\ x \in Disks /\ x.att = d.att /\ x.noted = d.noted /\ DOMAIN x.msgs = DOMAIN d.msgs
      /\ \A j \in DOMAIN d.msgs : x.msgs[j] = IF j = i THEN m ELSE d.msgs[j]
  BY <1>0, <1>2, MessageWritten
<1> HIDE DEF x
<1>5. \A j \in DOMAIN d.msgs : Same(d.msgs[j], x.msgs[j])
  BY <1>2, <1>4 DEF Same
<1>6. Numbered(x)
  BY <1>0, <1>2, <1>4, <1>5 DEF Numbered, Same
<1>7. Distinct(x)
  BY <1>0, <1>4, <1>5 DEF Distinct, Same
<1>8. Queued(x)
  <2> SUFFICES ASSUME NEW k \in DOMAIN x.msgs, NEW j \in DOMAIN x.msgs
      PROVE  /\ Is(x, k, TurnStates) /\ Is(x, j, ActiveStates) => x.msgs[k].seq < x.msgs[j].seq
             /\ Is(x, k, {"claimed", "inflight"}) /\ Is(x, j, {"accepted"})
                  => x.msgs[k].seq < x.msgs[j].seq
             /\ Is(x, k, {"claimed", "inflight"}) /\ Is(x, j, {"claimed", "inflight"}) => k = j
    BY DEF Queued
  <2>1. Same(d.msgs[k], x.msgs[k]) /\ Same(d.msgs[j], x.msgs[j])
    BY <1>4, <1>5
  <2>2. /\ Is(d, k, TurnStates) /\ Is(d, j, ActiveStates) => d.msgs[k].seq < d.msgs[j].seq
        /\ Is(d, k, {"claimed", "inflight"}) /\ Is(d, j, {"accepted"})
             => d.msgs[k].seq < d.msgs[j].seq
        /\ Is(d, k, {"claimed", "inflight"}) /\ Is(d, j, {"claimed", "inflight"}) => k = j
    BY <1>0, <1>4 DEF Queued
  <2> QED BY <1>2, <1>4, <2>1, <2>2 DEF Same
<1>9. Sealed(x) /\ d.att.state # "closed"
  BY <1>0, <1>4 DEF Sealed, Shut
<1>10. TrueNotes(x)
  BY <1>0, <1>4 DEF TrueNotes
<1>11. Coherent(x)
  <2>1. Unturned(d, x)
    BY <1>2, <1>4, <1>5 DEF Unturned, Keeps
  <2> QED BY <1>0, <1>4, <2>1, CoherentKept
<1>12. x \in Sound
  BY <1>4, <1>6, <1>7, <1>8, <1>9, <1>10, <1>11 DEF Sound
<1>13. \A j \in DOMAIN d.msgs : Onto(d.msgs[j], x.msgs[j])
  BY <1>2, <1>4, <1>5 DEF Onto
<1>14. Granted(d, x, D)
  BY <1>2, <1>4 DEF Granted
<1>15. Onward(d, x, D)
  BY <1>4, <1>9, <1>12, <1>13, <1>14 DEF Onward, Advances
<1>16. Leads(d, <<d, x>>, D) /\ Last(<<d, x>>) = x
  BY <1>15, LeadsTo
<1>17. Wrote(d, <<d, x>>, i, m)
  BY <1>4, <1>16 DEF Wrote
<1> QED BY <1>3, <1>16, <1>17 DEF m

(* markInflight.                                                           *)
LEMMA MarkInflightLeads ==
  ASSUME NEW D, NEW d \in Sound, d.att # NoAttempt, NEW i \in DOMAIN d.msgs
  PROVE  Brings(d, MarkInflight(d, i), i, "inflight", D)
<1> DEFINE r == MarkInflight(d, i)
           R == Recovered(d, TRUE)
           e == Last(R)
           t == SetState(e, i, "inflight")
           m == [e.msgs[i] EXCEPT !.state = "inflight"]
           Refused == \/ e.att.state # "open"
                      \/ e.msgs[i].state # "claimed"
                      \/ e.att.active # e.msgs[i].seq
<1>1. Consistent(d)
  BY Whole
<1>2. e \in Sound /\ e.att # NoAttempt /\ i \in DOMAIN e.msgs /\ e.msgs[i] \in Message
  BY RecoveredDisk
<1>3. CASE ~Refused
  <2>1. r.trace = R \o Tail(t) /\ r.ret = "ok"
    BY <1>1, <1>3 DEF MarkInflight, Recovering, AndThen, Throws, Returns
  <2>2. e.msgs[i].state = "claimed" /\ Queued(e)
    BY <1>2, <1>3 DEF Sound
  <2> HIDE DEF r, e
  <2>3. /\ Is(e, i, RetainingStates)
        /\ \A j \in DOMAIN e.msgs : Is(e, j, {"claimed", "inflight"}) => j = i
        /\ \A j \in DOMAIN e.msgs :
             Is(e, j, {"accepted"}) /\ j # i => e.msgs[i].seq < e.msgs[j].seq
    BY <1>2, <2>2 DEF Queued, Is, RetainingStates
  <2>4. e.att.primary /\ UnknownOf(e) = {}
    <3>1. i \in Pumped(e)
      BY <1>2, <2>2 DEF Pumped, InState
    <3> QED BY <1>2, <3>1, PumpedFacts
  <2>5. Leads(e, t, D) /\ Wrote(e, t, i, m)
    BY <1>2, <2>3, <2>4, MessageTaken
  <2>6. m.state = "inflight"
    BY <1>2 DEF Message
  <2> HIDE DEF t, m
  <2>7. Via(d, R \o Tail(t), Last(t), D)
    <3>1. Via(e, t, Last(t), D)
      BY <2>5 DEF Via
    <3> QED BY <3>1, RecoverVia DEF e
  <2>8. i \in DOMAIN Last(t).msgs /\ Last(t).msgs[i].state = "inflight"
    BY <1>2, <2>5, <2>6 DEF Wrote
  <2>9. Brings(d, r, i, "inflight", D)
    BY <2>1, <2>7, <2>8 DEF Brings, Via
  <2> QED BY <2>9 DEF r
<1>4. CASE Refused
  <2>1. r.trace = R \o Tail(<<e>>) /\ r.ret = "error"
    BY <1>1, <1>4 DEF MarkInflight, Recovering, AndThen, Throws, Returns
  <2> HIDE DEF r
  <2>2. Leads(e, <<e>>, D)
    BY <1>2, LeadsNowhere
  <2>3. Leads(d, R \o Tail(<<e>>), D)
    BY <2>2, RecoverThen
  <2>4. Brings(d, r, i, "inflight", D)
    BY <2>1, <2>3 DEF Brings
  <2> QED BY <2>4 DEF r
<1> QED BY <1>3, <1>4

(* The call r takes d onward, and when it returns "ok" a message is        *)
(* claimed; when it returns "none", no message waits.                      *)
Claims(d, r, D) ==
  /\ Leads(d, r.trace, D)
  /\ r.ret \in {"ok", "none", "error"}
  /\ r.ret = "ok" => InState(Last(r.trace), {"claimed"}) # {}
  /\ r.ret = "none" => InState(Last(r.trace), ActiveStates) = {}

(* claimNext.                                                              *)
LEMMA ClaimNextLeads ==
  ASSUME NEW D, NEW d \in Sound, d.att # NoAttempt, d.att.primary
  PROVE  Claims(d, ClaimNext(d), D)
<1> DEFINE r == ClaimNext(d)
           R == Recovered(d, TRUE)
           e == Last(R)
           waiting == InState(e, {"accepted"})
           i == CHOOSE i \in waiting : \A j \in waiting : e.msgs[i].seq <= e.msgs[j].seq
           t == SetState(e, i, "claimed")
           m == [e.msgs[i] EXCEPT !.state = "claimed"]
           f == Last(t)
           a == [f.att EXCEPT !.active = f.msgs[i].seq]
           w == WriteAttempt(f, a)
           Idle == e.att.state # "open" \/ e.att.unknown # NoMessage
           Busy == e.att.active # NoMessage
<1>1. Consistent(d)
  BY Whole
<1>2. /\ e \in Sound /\ e.att # NoAttempt /\ e.att \in Attempt /\ e.att.primary
      /\ DOMAIN e.msgs = DOMAIN d.msgs /\ Restored(e, e.att, TRUE)
  BY RecoveredDisk
<1>3. /\ e \in Disks /\ Numbered(e) /\ Distinct(e) /\ Queued(e) /\ Counted(e) /\ Fits(e, e.att)
  BY <1>2, Whole
<1>4. CASE ~Idle /\ ~Busy /\ waiting # {}
  <2>1. r.trace = R \o Tail(t \o Tail(w)) /\ r.ret = "ok"
    BY <1>1, <1>4 DEF ClaimNext, Recovering, AndThen, Throws, Returns, Then
  <2>2. Pumped(e) = {} /\ UnknownOf(e) = {}
    BY <1>2, <1>4 DEF Restored
  <2>3. waiting # {} /\ waiting \subseteq DOMAIN e.msgs
    BY <1>4 DEF InState
  <2> HIDE DEF r, e
  <2>4. i \in waiting /\ \A j \in waiting : e.msgs[i].seq <= e.msgs[j].seq
    <3> DEFINE T == {e.msgs[j].seq : j \in waiting}
    <3>1. T \in SUBSET Nat /\ T # {}
      BY <1>3, <2>3, DiskFacts
    <3> HIDE DEF T
    <3>2. PICK n \in T : \A k \in T : n <= k
      BY <3>1, Least
    <3>3. \E k \in waiting : \A j \in waiting : e.msgs[k].seq <= e.msgs[j].seq
      <4>1. PICK k \in waiting : e.msgs[k].seq = n
        BY <3>2 DEF T
      <4>2. \A j \in waiting : e.msgs[j].seq \in T
        BY DEF T
      <4> QED BY <3>2, <4>1, <4>2
    <3> QED BY <3>3
  <2> HIDE DEF i
  <2>5. /\ i \in DOMAIN e.msgs /\ e.msgs[i].state = "accepted" /\ e.msgs[i].seq > 0
        /\ \A j \in DOMAIN e.msgs : e.msgs[j].seq \in Nat
    BY <1>3, <2>4, DiskFacts DEF InState, Numbered, Is
  <2>6. /\ Is(e, i, RetainingStates)
        /\ \A j \in DOMAIN e.msgs : Is(e, j, {"claimed", "inflight"}) => j = i
        /\ \A j \in DOMAIN e.msgs :
             Is(e, j, {"accepted"}) /\ j # i => e.msgs[i].seq < e.msgs[j].seq
    <3>1. ASSUME NEW j \in DOMAIN e.msgs, Is(e, j, {"accepted"}), j # i
          PROVE  e.msgs[i].seq < e.msgs[j].seq
      <4>1. e.msgs[i].seq <= e.msgs[j].seq
        BY <2>4, <3>1 DEF InState, Is
      <4>2. e.msgs[i].seq # e.msgs[j].seq
        BY <1>3, <2>5, <3>1 DEF Distinct
      <4> QED BY <2>5, <4>1, <4>2
    <3>2. \A j \in DOMAIN e.msgs : ~Is(e, j, {"claimed", "inflight"})
      BY <2>2 DEF Pumped, InState, Is
    <3> QED BY <2>5, <3>1, <3>2 DEF Is, RetainingStates
  <2>7. Leads(e, t, D) /\ Wrote(e, t, i, m)
    BY <1>2, <2>2, <2>5, <2>6, MessageTaken
  <2>8. m \in Message /\ m.state = "claimed" /\ m.seq \in Nat /\ m.seq = e.msgs[i].seq
    <3>1. e.msgs[i] \in Message
      BY <1>3, <2>5, DiskFacts
    <3> QED BY <3>1 DEF Message
  <2> HIDE DEF t, m
  <2>9. f \in Sound /\ f.att = e.att /\ i \in DOMAIN f.msgs /\ f.msgs[i] = m
    BY <2>5, <2>7, LeadsFacts DEF Wrote
  <2> HIDE DEF f
  <2>10. m.seq <= e.att.count
    <3>1. m.seq \in Seqs(e, Accepted(e))
      BY <2>5, <2>8 DEF Seqs, Accepted
    <3>2. Cardinality(Accepted(e)) \in Nat
      BY <1>3, AcceptedFacts
    <3>3. m.seq \in 1..Cardinality(Accepted(e))
      BY <1>3, <3>1 DEF Counted
    <3> QED BY <1>2, <3>2, <3>3 DEF Restored
  <2>11. /\ a \in Attempt /\ a.active = m.seq /\ a.state = e.att.state /\ a.count = e.att.count
         /\ a.bytes = e.att.bytes /\ a.primary = e.att.primary /\ a.chain = e.att.chain
         /\ a.last = e.att.last /\ a.unknown = e.att.unknown /\ a.final = e.att.final
    BY <1>2, <2>8, <2>9 DEF Attempt
  <2> HIDE DEF a
  <2>12. Becomes(f, a)
    <3>1. Counted(f) /\ Chained(f) /\ Fits(f, e.att)
      BY <1>2, <2>9, Whole
    <3>2. Fits(f, a) /\ ~Shut(a)
      BY <1>4, <2>10, <2>11, <3>1 DEF Fits, Shut
    <3> QED BY <1>4, <2>9, <2>11, <3>1, <3>2 DEF Becomes, Advances, Shut
  <2>13. Leads(f, w, D) /\ Last(w).msgs = f.msgs
    BY <2>9, <2>11, <2>12, AttemptLeads
  <2> HIDE DEF w
  <2>14. Leads(e, t \o Tail(w), D) /\ Last(t \o Tail(w)) = Last(w)
    BY <1>2, <2>7, <2>13, LeadsThen DEF f
  <2>15. Via(d, R \o Tail(t \o Tail(w)), Last(w), D)
    <3>1. Via(e, t \o Tail(w), Last(w), D)
      BY <2>14 DEF Via
    <3> QED BY <3>1, RecoverVia DEF e
  <2>16. i \in InState(Last(w), {"claimed"})
    BY <2>8, <2>9, <2>13 DEF InState
  <2>17. Claims(d, r, D)
    BY <2>1, <2>15, <2>16 DEF Claims, Via
  <2> QED BY <2>17 DEF r
<1>5. CASE Idle \/ Busy \/ waiting = {}
  <2>1. /\ r.trace = R \o Tail(<<e>>) /\ r.ret \in {"none", "error"}
        /\ r.ret = "none" => Idle \/ (~Busy /\ waiting = {})
    BY <1>1, <1>5 DEF ClaimNext, Recovering, AndThen, Throws, Returns
  <2> HIDE DEF r
  <2>2. Leads(e, <<e>>, D) /\ Last(<<e>>) = e
    BY <1>2, LeadsNowhere
  <2>3. Via(d, R \o Tail(<<e>>), e, D)
    <3>1. Via(e, <<e>>, e, D)
      BY <2>2 DEF Via
    <3> QED BY <3>1, RecoverVia DEF e
  <2> HIDE DEF e
  <2>4. CASE Idle
    <3>1. Shut(e.att)
      BY <1>2, <1>3, <2>4 DEF Fits, Shut, Attempt
    <3>2. InState(e, ActiveStates) = {}
      BY <1>2, <3>1, ShutIsSettled
    <3>3. Claims(d, r, D)
      BY <2>1, <2>3, <3>2 DEF Claims, Via
    <3> QED BY <3>3 DEF r
  <2>5. CASE ~Busy /\ waiting = {}
    <3>1. Pumped(e) = {}
      BY <1>2, <2>5 DEF Restored
    <3>2. InState(e, ActiveStates) = {}
      BY <2>5, <3>1 DEF Pumped, InState, ActiveStates
    <3>3. Claims(d, r, D)
      BY <2>1, <2>3, <3>2 DEF Claims, Via
    <3> QED BY <3>3 DEF r
  <2>6. CASE ~Idle /\ (Busy \/ waiting # {})
    <3>1. Claims(d, r, D)
      BY <2>1, <2>3, <2>6 DEF Claims, Via
    <3> QED BY <3>1 DEF r
  <2> QED BY <2>4, <2>5, <2>6
<1> QED BY <1>4, <1>5

(* No number is above the count of the accepted messages.                  *)
LEMMA NumbersEnd ==
  ASSUME NEW d \in Disks, Counted(d), NEW i \in DOMAIN d.msgs
  PROVE  d.msgs[i].seq <= Cardinality(Accepted(d))
<1>1. d.msgs[i].seq \in Nat /\ Cardinality(Accepted(d)) \in Nat
  BY DiskFacts, AcceptedFacts
<1>2. CASE d.msgs[i].seq > 0
  <2>1. d.msgs[i].seq \in Seqs(d, Accepted(d))
    BY <1>2 DEF Seqs, Accepted
  <2>2. d.msgs[i].seq \in 1..Cardinality(Accepted(d))
    BY <2>1 DEF Counted
  <2> QED BY <1>1, <2>2
<1> QED BY <1>1, <1>2

(* A new message: rejected at once, or the next in the queue.              *)
New(d, m) ==
  /\ m.turn = <<>>
  /\ \A i \in DOMAIN d.msgs : d.msgs[i].key # m.key
  /\ \/ m.state = "rejected" /\ m.seq = 0
     \/ /\ m.state = "accepted" /\ m.seq = Cardinality(Accepted(d)) + 1
        /\ m.seq <= MaxMessages
        /\ Bytes(d, Cardinality(Accepted(d))) + m.size <= MaxBytes
        /\ ~Shut(d.att)

(* x is d and, in the place n, the message m.                              *)
Plus(d, x, n, m) ==
  /\ x.att = d.att /\ x.noted = d.noted
  /\ n \notin DOMAIN d.msgs /\ DOMAIN x.msgs = DOMAIN d.msgs \cup {n}
  /\ \A j \in DOMAIN d.msgs : x.msgs[j] = d.msgs[j]
  /\ x.msgs[n] = m

(* The counters that go with it.                                           *)
Counts(d, x, m) ==
  m.seq > 0 => /\ m.seq = Cardinality(Accepted(x))
               /\ Bytes(x, m.seq) = Bytes(d, Cardinality(Accepted(d))) + m.size

(* One more accepted message takes the next number.                        *)
LEMMA MessageCounted ==
  ASSUME NEW d \in Disks, Counted(d), NEW m \in Message, New(d, m), m.state = "accepted",
         NEW x \in Disks, NEW n, Plus(d, x, n, m)
  PROVE  /\ Counted(x) /\ Counts(d, x, m)
         /\ Cardinality(Accepted(x)) = Cardinality(Accepted(d)) + 1
         /\ \A k \in 0..Cardinality(Accepted(d)) : Bytes(x, k) = Bytes(d, k)
<1> DEFINE c == Cardinality(Accepted(d))
           T == {i \in Accepted(x) : x.msgs[i].seq <= m.seq}
           S == {i \in Accepted(d) : d.msgs[i].seq <= c}
<1>1. /\ c \in Nat /\ IsFiniteSet(Accepted(d)) /\ Accepted(d) \subseteq DOMAIN d.msgs
      /\ m.seq = c + 1 /\ m.seq <= MaxMessages /\ Bytes(d, c) + m.size <= MaxBytes
  BY AcceptedFacts DEF New
<1>2. /\ n \notin DOMAIN d.msgs /\ DOMAIN x.msgs = DOMAIN d.msgs \cup {n}
      /\ \A j \in DOMAIN d.msgs : x.msgs[j] = d.msgs[j]
      /\ x.msgs[n] = m
  BY DEF Plus
<1>3. \A j \in DOMAIN d.msgs : d.msgs[j].seq \in Nat /\ d.msgs[j].seq <= c
  BY DiskFacts, NumbersEnd
<1> HIDE DEF c
<1>4. Accepted(x) = Accepted(d) \cup {n}
  BY <1>1, <1>2 DEF Accepted
<1>5. Cardinality(Accepted(x)) = c + 1
  BY <1>1, <1>2, <1>4, FS_AddElement DEF c
<1>6. Seqs(x, Accepted(x)) = 1..(c + 1)
  <2>1. Seqs(x, Accepted(x)) = Seqs(d, Accepted(d)) \cup {m.seq}
    BY <1>1, <1>2, <1>4 DEF Seqs
  <2>2. Seqs(d, Accepted(d)) = 1..c
    BY DEF Counted, c
  <2> QED BY <1>1, <2>1, <2>2
<1>7. \A k \in 0..c : Bytes(x, k) = Bytes(d, k)
  <2> SUFFICES ASSUME NEW k \in 0..c PROVE Bytes(x, k) = Bytes(d, k)
    OBVIOUS
  <2>1. Keeps(d, x) /\ k \in Nat
    BY <1>1, <1>2 DEF Keeps, Same
  <2>2. \A i \in DOMAIN x.msgs \ DOMAIN d.msgs : x.msgs[i].seq = 0 \/ x.msgs[i].seq > k
    BY <1>1, <1>2
  <2> QED BY <2>1, <2>2, BytesKept
<1>8. Bytes(x, m.seq) = Bytes(d, c) + m.size
  <2>1. S = Accepted(d) /\ T = Accepted(x)
    BY <1>1, <1>2, <1>3, <1>4
  <2>2. Bytes(x, m.seq) = SumOf(x, T) /\ Bytes(d, c) = SumOf(d, S)
    BY DEF Bytes, SumOf
  <2>3. Bytes(x, m.seq) = SumOf(x, Accepted(x)) /\ Bytes(d, c) = SumOf(d, Accepted(d))
    BY <2>1, <2>2
  <2>4. IsFiniteSet(Accepted(x)) /\ \A i \in Accepted(x) : x.msgs[i].size \in Nat
    BY AcceptedFacts, DiskFacts
  <2>5. n \in Accepted(x) /\ Accepted(x) \ {n} = Accepted(d)
    BY <1>1, <1>2, <1>4
  <2>6. SumOf(x, Accepted(x)) = x.msgs[n].size + SumOf(x, Accepted(x) \ {n})
    BY <2>4, <2>5, SumFacts
  <2>7. SameSizes(x, d, Accepted(d))
    BY <1>1, <1>2 DEF SameSizes
  <2>8. SumOf(x, Accepted(d)) = SumOf(d, Accepted(d))
    BY <1>1, <2>7, SumSame
  <2>9. m.size \in Nat /\ SumOf(d, Accepted(d)) \in Nat
    <3>1. \A i \in Accepted(d) : d.msgs[i].size \in Nat
      BY AcceptedFacts, DiskFacts
    <3>2. m.size \in Nat
      BY <1>2, <2>4, <2>5
    <3> QED BY <1>1, <3>1, <3>2, SumFacts
  <2>10. /\ Bytes(x, m.seq) = m.size + SumOf(d, Accepted(d))
         /\ Bytes(d, c) = SumOf(d, Accepted(d))
    BY <1>2, <2>3, <2>5, <2>6, <2>8
  <2> DEFINE p == m.size
             q == SumOf(d, Accepted(d))
  <2>11. p + q = q + p
    BY <2>9
  <2> QED BY <2>10, <2>11
<1>9. Counted(x)
  <2>1. Bytes(x, c + 1) = Bytes(d, c) + m.size
    BY <1>1, <1>8
  <2> QED BY <1>1, <1>5, <1>6, <2>1 DEF Counted
<1>10. Counts(d, x, m)
  BY <1>1, <1>5, <1>8 DEF Counts, c
<1> QED BY <1>5, <1>7, <1>9, <1>10 DEF c

(* The disk with one more message is still coherent.                       *)
LEMMA CoherentPlus ==
  ASSUME NEW d \in Sound, d.att # NoAttempt, NEW m \in Message, New(d, m),
         NEW x \in Disks, Distinct(x), NEW n, Plus(d, x, n, m)
  PROVE  Coherent(x) /\ Counts(d, x, m)
<1>0. /\ d \in Disks /\ Distinct(d) /\ Counted(d) /\ Chained(d) /\ Fits(d, d.att)
      /\ d.att \in Attempt /\ d.att.count \in Nat /\ d.att.primary \in BOOLEAN
  <2>1. d \in Disks /\ Distinct(d) /\ Counted(d) /\ Chained(d) /\ Fits(d, d.att)
        /\ d.att \in Attempt
    BY Whole
  <2> QED BY <2>1 DEF Attempt
<1>1. /\ x.att = d.att /\ n \notin DOMAIN d.msgs /\ DOMAIN x.msgs = DOMAIN d.msgs \cup {n}
      /\ \A j \in DOMAIN d.msgs : x.msgs[j] = d.msgs[j]
      /\ x.msgs[n] = m /\ m.turn = <<>> /\ m.state \in {"rejected", "accepted"}
  BY DEF Plus, New
<1>2. Keeps(d, x) /\ Unturned(d, x)
  BY <1>1 DEF Keeps, Unturned, Same, TurnStates
<1>3. Pumped(x) = Pumped(d)
  BY <1>1 DEF Pumped, InState
<1>4. Chained(x)
  <2>1. UnknownOf(d) # {} => Pumped(x) = {}
    BY <1>0, <1>3 DEF Chained
  <2> QED BY <1>0, <1>2, <2>1, TurnsKept
<1>5. Cardinality(Accepted(d)) \in Nat /\ d.att.count <= Cardinality(Accepted(d))
  BY <1>0, AcceptedFacts DEF Fits
<1>6. /\ Counted(x) /\ Counts(d, x, m)
      /\ Cardinality(Accepted(d)) <= Cardinality(Accepted(x))
      /\ Bytes(x, d.att.count) = Bytes(d, d.att.count)
  <2>1. CASE m.state = "accepted"
    <3>1. /\ Counted(x) /\ Counts(d, x, m)
          /\ Cardinality(Accepted(x)) = Cardinality(Accepted(d)) + 1
          /\ \A k \in 0..Cardinality(Accepted(d)) : Bytes(x, k) = Bytes(d, k)
      BY <1>0, <2>1, MessageCounted
    <3>2. d.att.count \in 0..Cardinality(Accepted(d))
      BY <1>0, <1>5
    <3> QED BY <1>5, <3>1, <3>2
  <2>2. CASE m.state = "rejected"
    <3>1. m.seq = 0
      BY <2>2 DEF New
    <3>2. /\ Accepted(x) = Accepted(d) /\ Counted(x)
          /\ \A k \in Nat : Bytes(x, k) = Bytes(d, k)
      BY <1>0, <1>1, <1>2, <3>1, CountsKept
    <3> QED BY <1>0, <1>5, <3>1, <3>2 DEF Counts
  <2> QED BY <1>1, <2>1, <2>2
<1>7. Fits(x, d.att)
  <2>1. d.att.primary \/ Pumped(x) = {}
    BY <1>0, <1>3 DEF Fits
  <2> QED BY <1>0, <1>2, <1>6, <2>1, FitsKept
<1> QED BY <1>1, <1>4, <1>6, <1>7 DEF Coherent

(* A message may be added.                                                 *)
Room(d, D) == <<Len(d.msgs) + 1, "accepted">> \in D

(* The first write of acceptMessage takes the disk onward.                 *)
LEMMA MessagePosted ==
  ASSUME NEW D, NEW d \in Sound, NEW m \in Message, New(d, m), d.att.state # "closed",
         d.att # NoAttempt, Room(d, D)
  PROVE  LET x == [d EXCEPT !.msgs = Append(@, m)]
         IN /\ Onward(d, x, D) /\ x.att = d.att /\ Counts(d, x, m)
            /\ DOMAIN x.msgs = DOMAIN d.msgs \cup {Len(d.msgs) + 1}
<1> DEFINE x == [d EXCEPT !.msgs = Append(@, m)]
           n == Len(d.msgs) + 1
<1> USE DEF Is, ActiveStates, RetainingStates, TurnStates, FinalStates
<1>0. d \in Disks /\ Numbered(d) /\ Distinct(d) /\ Queued(d) /\ Sealed(d) /\ TrueNotes(d)
      /\ Counted(d)
  BY Whole DEF Sound
<1>1. /\ x \in Disks /\ x.att = d.att /\ x.noted = d.noted
      /\ DOMAIN x.msgs = DOMAIN d.msgs \cup {n}
      /\ \A j \in DOMAIN d.msgs : x.msgs[j] = d.msgs[j]
      /\ x.msgs[n] = m
  BY <1>0, MessageAdded
<1>2. m.seq \in Nat /\ \A j \in DOMAIN d.msgs : d.msgs[j].seq \in Nat
  BY <1>0, DiskFacts DEF Message
<1>21. Plus(d, x, n, m)
  <2>1. n \notin DOMAIN d.msgs
    BY <1>0, DiskFacts
  <2> QED BY <1>1, <2>1 DEF Plus
<1>22. /\ m.state \in {"rejected", "accepted"} /\ (m.state = "rejected" => m.seq = 0)
       /\ m.state = "accepted" => m.seq > 0 /\ ~Shut(d.att)
       /\ m.state = "accepted" => \A i \in DOMAIN d.msgs : d.msgs[i].seq < m.seq
       /\ \A i \in DOMAIN d.msgs : d.msgs[i].key # m.key
  <2>1. Cardinality(Accepted(d)) \in Nat
    BY <1>0, AcceptedFacts
  <2>2. \A i \in DOMAIN d.msgs : d.msgs[i].seq <= Cardinality(Accepted(d))
    BY <1>0, NumbersEnd
  <2> QED BY <1>2, <2>1, <2>2 DEF New
<1> HIDE DEF x, n
<1>3. Numbered(x)
  BY <1>0, <1>1, <1>22 DEF Numbered
<1>4. Distinct(x)
  <2> SUFFICES ASSUME NEW i \in DOMAIN x.msgs, NEW j \in DOMAIN x.msgs,
                      \/ x.msgs[i].key = x.msgs[j].key
                      \/ x.msgs[i].seq = x.msgs[j].seq /\ x.msgs[i].seq > 0
               PROVE  i = j
    BY DEF Distinct
  <2>1. CASE i = n /\ j # n
    BY <1>1, <1>2, <1>22, <2>1
  <2>2. CASE j = n /\ i # n
    BY <1>1, <1>2, <1>22, <2>2
  <2>3. CASE i \in DOMAIN d.msgs /\ j \in DOMAIN d.msgs
    BY <1>0, <1>1, <2>3 DEF Distinct
  <2> QED BY <1>1, <2>1, <2>2, <2>3
<1>5. Queued(x)
  <2> SUFFICES ASSUME NEW i \in DOMAIN x.msgs, NEW j \in DOMAIN x.msgs
      PROVE  /\ Is(x, i, TurnStates) /\ Is(x, j, ActiveStates) => x.msgs[i].seq < x.msgs[j].seq
             /\ Is(x, i, {"claimed", "inflight"}) /\ Is(x, j, {"accepted"})
                  => x.msgs[i].seq < x.msgs[j].seq
             /\ Is(x, i, {"claimed", "inflight"}) /\ Is(x, j, {"claimed", "inflight"}) => i = j
    BY DEF Queued
  <2>1. CASE i = n
    BY <1>1, <1>22, <2>1
  <2>2. CASE j = n /\ i # n
    BY <1>1, <1>22, <2>2
  <2>3. CASE i \in DOMAIN d.msgs /\ j \in DOMAIN d.msgs
    BY <1>0, <1>1, <2>3 DEF Queued
  <2> QED BY <1>1, <2>1, <2>2, <2>3
<1>6. Sealed(x)
  BY <1>0, <1>1, <1>22 DEF Sealed
<1>7. TrueNotes(x)
  BY <1>0, <1>1 DEF TrueNotes
<1>71. Coherent(x) /\ Counts(d, x, m)
  BY <1>1, <1>4, <1>21, CoherentPlus
<1>8. x \in Sound
  BY <1>1, <1>3, <1>4, <1>5, <1>6, <1>7, <1>71 DEF Sound
<1>9. \A i \in DOMAIN d.msgs : Onto(d.msgs[i], x.msgs[i])
  BY <1>1 DEF Onto, Same
<1>91. <<n, "accepted">> \in D
  BY DEF n, Room
<1>10. Granted(d, x, D)
  BY <1>1, <1>22, <1>91 DEF Granted
<1>11. Onward(d, x, D)
  BY <1>1, <1>8, <1>9, <1>10 DEF Onward, Advances
<1> QED BY <1>1, <1>11, <1>71 DEF x, n

(* The call r takes d onward, and when it does not throw there is a        *)
(* message i.                                                              *)
Adds(d, r, i, D) ==
  /\ Leads(d, r.trace, D)
  /\ r.ret \in {"ok", "error"}
  /\ r.ret = "ok" => i \in DOMAIN Last(r.trace).msgs

(* As many messages.                                                       *)
LEMMA SameDomain ==
  ASSUME NEW d \in Disks, NEW e \in Disks, DOMAIN e.msgs = DOMAIN d.msgs
  PROVE  Len(e.msgs) = Len(d.msgs)
<1>1. /\ Len(d.msgs) \in Nat /\ DOMAIN d.msgs = 1..Len(d.msgs)
      /\ Len(e.msgs) \in Nat /\ DOMAIN e.msgs = 1..Len(e.msgs)
  BY DiskFacts
<1> DEFINE p == Len(e.msgs)
           q == Len(d.msgs)
<1>2. p \in Nat /\ q \in Nat /\ 1..p = 1..q
  BY <1>1
<1> HIDE DEF p, q
<1>3. (p \in 1..p \/ p = 0) /\ (q \in 1..q \/ q = 0)
  BY <1>2
<1>4. p = q
  BY <1>2, <1>3
<1> QED BY <1>4 DEF p, q

(* acceptMessage of a key that is not there yet.                           *)
LEMMA AcceptMessageLeads ==
  ASSUME NEW D, NEW d \in Sound, d.att # NoAttempt, NEW k \in Keys, NEW size \in Sizes,
         \A i \in DOMAIN d.msgs : d.msgs[i].key # k, Room(d, D)
  PROVE  Adds(d, AcceptMessage(d, k, size), Len(d.msgs) + 1, D)
<1> DEFINE r == AcceptMessage(d, k, size)
           n == Len(d.msgs) + 1
           R == Recovered(d, TRUE)
           e == Last(R)
           c == e.att.count + 1
           b == e.att.bytes + size
           New1(s, st) == [key |-> k, size |-> size, seq |-> s, state |-> st, turn |-> <<>>]
           rejected == [e EXCEPT !.msgs = Append(@, New1(0, "rejected"))]
           accepted == [e EXCEPT !.msgs = Append(@, New1(c, "accepted"))]
           counted == [accepted EXCEPT !.att.count = @ + 1, !.att.bytes = @ + size]
           Full == e.att.unknown # NoMessage \/ c > MaxMessages \/ b > MaxBytes
<1>1. Consistent(d) /\ d \in Disks
  BY Whole
<1>2. /\ e \in Sound /\ e.att # NoAttempt /\ e.att \in Attempt /\ DOMAIN e.msgs = DOMAIN d.msgs
      /\ Onward(d, e, D) /\ Restored(e, e.att, TRUE)
  BY RecoveredDisk
<1>3. e \in Disks /\ Counted(e) /\ Chained(e) /\ Fits(e, e.att)
  BY <1>2, Whole
<1>4. \A i \in DOMAIN e.msgs : e.msgs[i].key # k
  BY <1>2 DEF Onward, Onto, Same
<1>5. Len(e.msgs) = Len(d.msgs) /\ Room(e, D)
  BY <1>1, <1>2, <1>3, SameDomain DEF Room
<1>6. /\ e.att.count \in Nat /\ e.att.bytes \in Nat /\ size \in Nat
      /\ e.att.count = Cardinality(Accepted(e))
      /\ e.att.bytes = Bytes(e, Cardinality(Accepted(e)))
      /\ MaxMessages \in Nat /\ MaxBytes \in Nat
  BY <1>2, MailboxAssumption DEF Attempt, Restored
<1>7. CASE e.att.state # "open"
  <2>1. r.trace = R \o Tail(<<e>>) /\ r.ret = "error"
    BY <1>1, <1>7 DEF AcceptMessage, Recovering, AndThen, Throws, Returns
  <2> HIDE DEF r
  <2>2. Leads(e, <<e>>, D)
    BY <1>2, LeadsNowhere
  <2>3. Leads(d, R \o Tail(<<e>>), D)
    BY <2>2, RecoverThen
  <2>4. Adds(d, r, n, D)
    BY <2>1, <2>3 DEF Adds
  <2> QED BY <2>4 DEF r
<1>8. CASE e.att.state = "open" /\ Full
  <2>1. r.trace = R \o Tail(<<e, rejected>>) /\ r.ret = "ok"
    BY <1>1, <1>8 DEF AcceptMessage, Recovering, AndThen, Throws, Returns
  <2> DEFINE m == New1(0, "rejected")
  <2>0. rejected = [e EXCEPT !.msgs = Append(@, m)] /\ n = Len(e.msgs) + 1
    BY <1>5
  <2> HIDE DEF r, e, n, rejected
  <2>2. m \in Message /\ m.key = k /\ m.seq = 0 /\ m.state = "rejected" /\ m.turn = <<>>
    <3>1. <<>> \in Seq(Turn)
      BY EmptySeq
    <3> QED BY <1>6, <3>1 DEF Message
  <2> HIDE DEF m
  <2>3. New(e, m)
    BY <1>4, <2>2 DEF New
  <2>4. Onward(e, rejected, D) /\ DOMAIN rejected.msgs = DOMAIN e.msgs \cup {n}
    <3>1. e.att.state # "closed"
      BY <1>8
    <3>2. Room(e, D) /\ e \in Sound /\ e.att # NoAttempt /\ m \in Message
      BY <1>2, <1>5, <2>2
    <3>3. LET x == [e EXCEPT !.msgs = Append(@, m)]
          IN Onward(e, x, D) /\ DOMAIN x.msgs = DOMAIN e.msgs \cup {Len(e.msgs) + 1}
      BY <2>3, <3>1, <3>2, MessagePosted
    <3> QED BY <2>0, <3>3
  <2>5. Via(e, <<e, rejected>>, rejected, D)
    BY <1>2, <2>4, LeadsTo DEF Via
  <2>6. Via(d, R \o Tail(<<e, rejected>>), rejected, D)
    BY <2>5, RecoverVia DEF e
  <2>7. Adds(d, r, n, D)
    BY <2>1, <2>4, <2>6 DEF Adds, Via
  <2> QED BY <2>7 DEF r, n
<1>9. CASE e.att.state = "open" /\ ~Full
  <2>1. r.trace = R \o Tail(<<e, accepted, counted>>) /\ r.ret = "ok"
    BY <1>1, <1>9 DEF AcceptMessage, Recovering, AndThen, Throws, Returns
  <2> DEFINE m == New1(c, "accepted")
             a == [accepted.att EXCEPT !.count = accepted.att.count + 1,
                                       !.bytes = accepted.att.bytes + size]
  <2>2. accepted = [e EXCEPT !.msgs = Append(@, m)] /\ n = Len(e.msgs) + 1
    BY <1>5
  <2> HIDE DEF r, e, n, accepted
  <2>3. /\ m \in Message /\ m.key = k /\ m.seq = c /\ m.state = "accepted" /\ m.turn = <<>>
        /\ m.size = size
    <3>1. <<>> \in Seq(Turn) /\ c \in Nat
      BY <1>6, EmptySeq
    <3> HIDE DEF c
    <3> QED BY <1>6, <3>1 DEF Message
  <2> HIDE DEF m
  <2>4. New(e, m)
    <3>1. c <= MaxMessages /\ b <= MaxBytes
      BY <1>6, <1>9
    <3> QED BY <1>4, <1>6, <1>9, <2>3, <3>1 DEF New, Shut
  <2>5. /\ Onward(e, accepted, D) /\ accepted.att = e.att /\ Counts(e, accepted, m)
        /\ DOMAIN accepted.msgs = DOMAIN e.msgs \cup {n}
    <3>1. e.att.state # "closed"
      BY <1>9
    <3>2. Room(e, D) /\ e \in Sound /\ e.att # NoAttempt /\ m \in Message
      BY <1>2, <1>5, <2>3
    <3>3. LET x == [e EXCEPT !.msgs = Append(@, m)]
          IN /\ Onward(e, x, D) /\ x.att = e.att /\ Counts(e, x, m)
             /\ DOMAIN x.msgs = DOMAIN e.msgs \cup {Len(e.msgs) + 1}
      BY <2>4, <3>1, <3>2, MessagePosted
    <3> QED BY <2>2, <3>3
  <2>6. accepted \in Sound
    BY <2>5 DEF Onward
  <2>7. /\ a \in Attempt /\ a.count = c /\ a.bytes = b /\ a.state = e.att.state
        /\ a.active = e.att.active /\ a.primary = e.att.primary /\ a.chain = e.att.chain
        /\ a.last = e.att.last /\ a.unknown = e.att.unknown /\ a.final = e.att.final
    <3>1. accepted.att \in Attempt /\ c \in Nat /\ b \in Nat
      BY <1>2, <1>6, <2>5
    <3>2. a = [accepted.att EXCEPT !.count = c, !.bytes = b]
      BY <2>5
    <3> HIDE DEF a, c, b
    <3> QED BY <2>5, <3>1, <3>2 DEF Attempt
  <2>8. counted = [accepted EXCEPT !.att = a]
    BY <1>2, <2>5, <2>6 DEF Sound, Disks, Attempt
  <2> HIDE DEF a, counted
  <2>9. Becomes(accepted, a)
    <3>1. Counted(accepted) /\ Chained(accepted) /\ Fits(accepted, e.att)
      BY <1>2, <2>5, <2>6, Whole
    <3>2. c = Cardinality(Accepted(accepted)) /\ Bytes(accepted, c) = b
      BY <1>6, <2>3, <2>5 DEF Counts
    <3>3. a.count <= Cardinality(Accepted(accepted)) /\ a.active <= a.count
          /\ a.bytes = Bytes(accepted, a.count)
      <4>1. e.att.active \in Nat /\ e.att.active <= e.att.count /\ c \in Nat
        BY <1>2, <1>6, <3>1 DEF Fits, Attempt
      <4>2. c <= Cardinality(Accepted(accepted))
        BY <3>2, <4>1
      <4>3. e.att.active <= c
        BY <1>6, <4>1
      <4> QED BY <2>7, <3>2, <4>2, <4>3
    <3>4. Fits(accepted, a) /\ ~Shut(a)
      BY <1>9, <2>7, <3>1, <3>3 DEF Fits, Shut
    <3> QED BY <1>9, <2>5, <2>7, <3>1, <3>4 DEF Becomes, Advances, Shut
  <2>10. Onward(accepted, counted, D) /\ counted.msgs = accepted.msgs
    BY <2>6, <2>7, <2>8, <2>9, AttemptSound
  <2>11. Via(e, <<e, accepted, counted>>, counted, D)
    <3>1. Onward(e, counted, D)
      BY <1>2, <2>5, <2>10, Onwards
    <3>2. counted \in Sound
      BY <3>1 DEF Onward
    <3>3. /\ Trace(Sound, e, <<e, accepted, counted>>)
          /\ Last(<<e, accepted, counted>>) = counted
      BY <1>2, <2>6, <3>2 DEF Trace, Last
    <3>4. \A y \in Range(<<e, accepted, counted>>) : y = e \/ y = accepted \/ y = counted
      BY DEF Range
    <3> QED BY <1>2, <2>5, <3>1, <3>3, <3>4, Stays DEF Via, Leads
  <2>12. Via(d, R \o Tail(<<e, accepted, counted>>), counted, D)
    BY <2>11, RecoverVia DEF e
  <2>13. Adds(d, r, n, D)
    BY <2>1, <2>5, <2>10, <2>12 DEF Adds, Via
  <2> QED BY <2>13 DEF r, n
<1> QED BY <1>7, <1>8, <1>9

(* Where the controller and the pump are.                                  *)
Started ==
  /\ main \in {"session", "primary", "record"} => pump = "off" /\ sent = <<>>
  /\ main = "session" => disk = NewDisk

Opened ==
  /\ pump # "off" \/ main \in {"primary", "record", "draining"} => disk.att # NoAttempt
  /\ pump # "off" => disk.att.primary

Held ==
  /\ pump \notin {"off", "claim", "close"} => cur \in DOMAIN disk.msgs
  /\ pump \in {"claim", "reserve", "unsure", "dispatch"} => AllDelivered(disk, sent)
  /\ pump \in {"reserve", "unsure", "dispatch"} => AllBefore(disk, sent, cur)
  /\ pump = "dispatch" => Is(disk, cur, {"inflight"} \cup TurnStates)
  /\ pump \in {"await", "failed", "snapshot", "settle", "reread"}
       => sent # <<>> /\ sent[Len(sent)] = cur
  /\ pump \in {"snapshot", "settle", "reread"} => cur \in acked

(* The controller has drained the mailbox or interrupted it, the recovery  *)
(* has settled it, or the job is terminal.                                 *)
Ending ==
  \/ main \in {"drained", "report", "repair", "finish", "settled", "done"}
  \/ pump = "close" \/ job = "terminal"

(* Where no write fails, the mailbox is shut then.                         *)
Finished == ~IOErrors /\ Ending => Shut(disk.att)

(* The inductive invariant.                                                *)
IInv ==
  /\ disk \in Sound
  /\ Truthful(disk, sent, acked)
  /\ main \in MainStates /\ pump \in PumpStates
  /\ Started /\ Opened /\ Held /\ Finished

-----------------------------------------------------------------------------
(* What a transaction may do: add one message, lose one that is inflight,  *)
(* deliver one of a, whose turn the provider reported ended.               *)
Moves(d, a) ==
  {<<Len(d.msgs) + 1, "accepted">>}
    \cup {<<i, "delivery_unknown">> : i \in InState(d, {"inflight"})}
    \cup {<<i, "delivered">> : i \in a}

Grants == Moves(disk, acked)

(* Each of the moves by itself.                                            *)
LEMMA MovesAre ==
  ASSUME NEW d, NEW a, NEW i
  PROVE  /\ <<i, "accepted">> \in Moves(d, a) <=> i = Len(d.msgs) + 1
         /\ <<i, "delivery_unknown">> \in Moves(d, a) <=> i \in InState(d, {"inflight"})
         /\ <<i, "delivered">> \in Moves(d, a) <=> i \in a
BY DEF Moves

(* They cover what the operations of the mailbox need.                     *)
LEMMA GrantsAre ==
  ASSUME TRUE
  PROVE  /\ Losing(disk, Grants)
         /\ Room(disk, Grants)
         /\ \A i \in acked : <<i, "delivered">> \in Grants
BY MovesAre DEF Grants, Losing, Room

(* What the invariant says of sent and acked survives a transaction.       *)
LEMMA TruthfulKept ==
  ASSUME NEW d \in Sound, NEW s, NEW a, Truthful(d, s, a), NEW x, Onward(d, x, Moves(d, a))
  PROVE  /\ Truthful(x, s, a)
         /\ AllDelivered(d, s) => AllDelivered(x, s)
         /\ \A i \in DOMAIN d.msgs :
              /\ i \in DOMAIN x.msgs
              /\ AllBefore(d, s, i) => AllBefore(x, s, i)
              /\ Is(d, i, {"inflight"} \cup TurnStates) => Is(x, i, {"inflight"} \cup TurnStates)
<1> USE DEF FinalStates, TurnStates, Is
<1>1. \A i \in DOMAIN d.msgs :
        /\ i \in DOMAIN x.msgs /\ x.msgs[i].seq = d.msgs[i].seq
        /\ Is(d, i, {"delivered"}) => Is(x, i, {"delivered"})
        /\ Is(d, i, {"inflight"} \cup TurnStates) => Is(x, i, {"inflight"} \cup TurnStates)
  BY DEF Onward, Onto, Same
<1>2. \A n \in DOMAIN s : s[n] \in DOMAIN d.msgs
  BY DEF Truthful
<1>3. AllDelivered(d, s) => AllDelivered(x, s)
  BY <1>1, <1>2 DEF AllDelivered
<1>4. \A i \in DOMAIN d.msgs : AllBefore(d, s, i) => AllBefore(x, s, i)
  BY <1>1, <1>2 DEF AllBefore
<1>5. \A i \in DOMAIN x.msgs : Is(x, i, {"delivered"}) => i \in a
  BY MovesAre DEF Truthful, Onward, Granted
<1>6. Truthful(x, s, a)
  <2>1. s \in Seq(Nat)
    BY DEF Truthful
  <2>2. \A n \in DOMAIN s : s[n] \in DOMAIN x.msgs /\ Is(x, s[n], {"inflight"} \cup TurnStates)
    BY <1>1 DEF Truthful
  <2>3. \A n \in DOMAIN s : n < Len(s) => Is(x, s[n], {"delivered"})
    BY <1>1, <1>2 DEF Truthful
  <2>4. \A n, m \in DOMAIN s : n < m => x.msgs[s[n]].seq < x.msgs[s[m]].seq
    BY <1>1, <1>2 DEF Truthful
  <2> QED BY <1>5, <2>1, <2>2, <2>3, <2>4 DEF Truthful
<1> QED BY <1>1, <1>3, <1>4, <1>6

-----------------------------------------------------------------------------
(* Calls, with the moves that are granted.                                 *)
Calls(r) == Leads(disk, r.trace, Grants)

(* However a call ends, the disk has gone onward.                          *)
LEMMA CallEnds ==
  ASSUME NEW r, Calls(r), Completes(r) \/ Fails(r) \/ Dies(r)
  PROVE  Onward(disk, disk', Grants)
BY LeadsFacts DEF Calls, Completes, Fails, Dies

(* A call that needs an active job.                                        *)
LEMMA CallAuthorised ==
  ASSUME disk \in Sound, NEW r, Calls(r)
  PROVE  /\ Calls(Authorised(r))
         /\ Authorised(r).ret # "error" => Authorised(r) = r
         /\ Authorised(r).ret = "error" => r.ret = "error" \/ job = "terminal"
         /\ r.trace = <<disk>> => Authorised(r).trace = <<disk>>
<1>1. CASE job = "terminal"
  BY <1>1, LeadsNowhere DEF Calls, Authorised, Throws, Returns
<1>2. CASE job # "terminal"
  BY <1>2 DEF Authorised
<1> QED BY <1>1, <1>2

(* A call whose result has another name.                                   *)
LEMMA CallAs ==
  ASSUME NEW r, Calls(r), NEW s
  PROVE  Calls(As(r, s)) /\ As(r, s).ret \in {"error", s}
BY DEF Calls, As, Returns

(* The call of a sender.                                                   *)
LEMMA CallSending ==
  ASSUME disk \in Sound, NEW k \in Keys, NEW size \in Sizes
  PROVE  /\ Calls(Sending(k, size))
         /\ disk.att = NoAttempt => Sending(k, size).trace = <<disk>>
<1> DEFINE prior == {i \in DOMAIN disk.msgs : disk.msgs[i].key = k}
           p == CHOOSE i \in prior : TRUE
           n == Len(disk.msgs) + 1
           here == Returns(<<disk>>, "ok")
           a == AcceptMessage(disk, k, size)
           r == Sending(k, size)
<1>1. \/ r.trace = <<disk>>
      \/ r = SettleCancelled(disk)
      \/ r = Noting(here, p) /\ prior # {}
      \/ r = Noting(a, n) /\ prior = {} /\ IsOpen(disk)
  BY DEF Sending, Throws, Returns
<1>2. disk.att = NoAttempt => r.trace = <<disk>>
  <2>1. disk.att = NoAttempt => prior = {} /\ ~IsOpen(disk)
    BY DEF Sound, Coherent, IsOpen
  <2>2. prior = {} /\ ~IsOpen(disk) => r.trace = <<disk>>
    BY DEF Sending, Throws, Returns
  <2> QED BY <2>1, <2>2
<1> HIDE DEF r
<1>3. ASSUME r.trace = <<disk>>
      PROVE  Calls(r)
  BY <1>3, LeadsNowhere DEF Calls
<1>4. ASSUME r = SettleCancelled(disk)
      PROVE  Calls(r)
  BY <1>4, SettleCancelledLeads, GrantsAre DEF Calls
<1>5. ASSUME r = Noting(here, p) /\ prior # {}
      PROVE  Calls(r)
  <2>1. p \in DOMAIN disk.msgs
    BY <1>5
  <2>2. Leads(disk, here.trace, Grants) /\ Last(here.trace) = disk
    BY LeadsNowhere DEF Returns
  <2> HIDE DEF p, here, prior
  <2>3. here.ret # "error" => p \in DOMAIN Last(here.trace).msgs
    BY <2>1, <2>2
  <2> QED BY <1>5, <2>2, <2>3, NotingLeads DEF Calls
<1>6. ASSUME r = Noting(a, n) /\ prior = {} /\ IsOpen(disk)
      PROVE  Calls(r)
  <2>1. disk.att # NoAttempt
    BY <1>6 DEF IsOpen
  <2>2. \A i \in DOMAIN disk.msgs : disk.msgs[i].key # k
    BY <1>6
  <2>3. Adds(disk, a, n, Grants)
    BY <2>1, <2>2, AcceptMessageLeads, GrantsAre
  <2> HIDE DEF a, n
  <2>4. Leads(disk, a.trace, Grants) /\ (a.ret # "error" => n \in DOMAIN Last(a.trace).msgs)
    BY <2>3 DEF Adds
  <2> QED BY <1>6, <2>4, NotingLeads DEF Calls
<1>7. Calls(r)
  BY <1>1, <1>3, <1>4, <1>5, <1>6
<1> QED BY <1>2, <1>7 DEF r

(* The transaction at the head of the pump's loop.                         *)
(* Where the mailbox may be claimed from, it is shut or open.              *)
LEMMA ShutOrOpen ==
  ASSUME NEW d \in Sound, d.att # NoAttempt, d.att.primary
  PROVE  (~IsOpen(d) \/ d.att.unknown # NoMessage) => Shut(d.att)
<1>1. Fits(d, d.att) /\ d.att \in Attempt
  BY Whole
<1> QED BY <1>1 DEF Fits, IsOpen, Shut, Attempt

(* The transaction at the head of the pump's loop.                         *)
LEMMA CallClaiming ==
  ASSUME disk \in Sound, disk.att # NoAttempt, disk.att.primary
  PROVE  /\ Calls(Claiming)
         /\ Claiming.ret = "claimed" => InState(Last(Claiming.trace), {"claimed"}) # {}
         /\ Claiming.ret \in {"error", "return", "cancelled", "unknown", "claimed"}
         /\ Claiming.ret \in {"return", "unknown"} => Shut(Last(Claiming.trace).att)
<1> DEFINE r == Claiming
           c == ClaimNext(disk)
           s == SettleCancelled(disk)
           e == Last(c.trace)
           x == TryClose(e, FALSE)
           y == Returns(c.trace \o Tail(x.trace), x.ret)
           here == Returns(<<disk>>, "return")
           unsure == Returns(<<disk>>, "unknown")
<1>1. \/ r \in {here, unsure} /\ (~IsOpen(disk) \/ disk.att.unknown # NoMessage)
      \/ r = As(s, "cancelled")
      \/ r = As(y, "return") /\ c.ret = "none"
      \/ r = As(c, "claimed") /\ c.ret # "none"
  BY DEF Claiming, AndThen, IsOpen
<1>2. CASE r \in {here, unsure} /\ (~IsOpen(disk) \/ disk.att.unknown # NoMessage)
  <2>1. Shut(disk.att)
    BY <1>2, ShutOrOpen
  <2>2. r.trace = <<disk>> /\ r.ret \in {"return", "unknown"}
    BY <1>2 DEF Returns
  <2> HIDE DEF r
  <2>3. Calls(r) /\ Last(r.trace) = disk
    BY <2>2, LeadsNowhere DEF Calls
  <2> QED BY <2>1, <2>2, <2>3 DEF r
<1>3. CASE r = As(s, "cancelled")
  <2>1. Calls(s)
    BY SettleCancelledLeads, GrantsAre DEF Calls
  <2> HIDE DEF r, s
  <2>2. Calls(r) /\ r.ret \in {"error", "cancelled"}
    BY <1>3, <2>1, CallAs
  <2> QED BY <2>2 DEF r
<1>4. CASE r = As(y, "return") /\ c.ret = "none"
  <2>1. Leads(disk, c.trace, Grants) /\ InState(e, ActiveStates) = {}
    BY <1>4, ClaimNextLeads DEF Claims
  <2> HIDE DEF c
  <2>2. e \in Sound /\ Onward(disk, e, Grants)
    BY <2>1, LeadsFacts
  <2> HIDE DEF e
  <2>3. e.att # NoAttempt /\ e.att.primary
    BY <1>4, <2>2 DEF Onward, Advances
  <2>4. Closes(e, x, Grants) /\ x.ret = "ok"
    BY <2>1, <2>2, <2>3, TryCloseLeads
  <2>5. Leads(e, x.trace, Grants) /\ Shut(Last(x.trace).att)
    BY <2>4 DEF Closes
  <2>6. y.ret = "ok" /\ y.trace = c.trace \o Tail(x.trace)
    BY <2>4 DEF Returns
  <2> HIDE DEF x
  <2>61. Leads(Last(c.trace), x.trace, Grants)
    BY <2>5 DEF e
  <2>62. /\ Leads(disk, c.trace \o Tail(x.trace), Grants)
         /\ Last(c.trace \o Tail(x.trace)) = Last(x.trace)
    BY <2>1, <2>61, LeadsThen
  <2>7. Calls(y) /\ Shut(Last(y.trace).att)
    BY <2>5, <2>6, <2>62 DEF Calls
  <2> HIDE DEF y
  <2>8. r.trace = y.trace /\ r.ret = "return"
    BY <1>4, <2>6 DEF As, Returns
  <2> HIDE DEF r
  <2>9. Calls(r) /\ Shut(Last(r.trace).att)
    BY <2>7, <2>8 DEF Calls
  <2> QED BY <2>8, <2>9 DEF r
<1>5. CASE r = As(c, "claimed") /\ c.ret # "none"
  <2>1. Claims(disk, c, Grants)
    BY <1>5, ClaimNextLeads
  <2> HIDE DEF r, c
  <2>2. Calls(c) /\ (c.ret = "error" \/ InState(Last(c.trace), {"claimed"}) # {})
    BY <1>5, <2>1 DEF Claims, Calls
  <2>3. Calls(r) /\ r.ret \in {"error", "claimed"}
    BY <1>5, <2>2, CallAs
  <2>4. r.ret = "claimed" => r.trace = c.trace /\ c.ret # "error"
    BY <1>5 DEF As, Returns
  <2> QED BY <2>2, <2>3, <2>4 DEF r
<1> QED BY <1>1, <1>2, <1>3, <1>4, <1>5

-----------------------------------------------------------------------------
(* Steps that preserve the invariant.                                      *)
Waiting == {"session", "primary", "record"}

(* Where the attempt is not there, the step leaves the disk alone; and a   *)
(* step that ends something shuts the mailbox, or a write of it failed.    *)
Still == disk.att = NoAttempt => disk' = disk
Concluded == Ending' => Ending \/ IOErrors \/ Shut(disk'.att)

(* A mailbox that had to be shut still is, and no other has to be now.     *)
LEMMA FinishedKept ==
  ASSUME IInv, Onward(disk, disk', Grants), Still, Concluded
  PROVE  Finished'
<1>1. Shut(disk.att) => Shut(disk'.att)
  BY DEF Onward, Advances, Still
<1>2. ASSUME ~IOErrors, Ending' PROVE Shut(disk'.att)
  BY <1>1, <1>2 DEF IInv, Finished, Concluded
<1> QED BY <1>2 DEF Finished

(* Neither sends nor takes a message: the pump stays or leaves.            *)
LEMMA QuietStep ==
  ASSUME IInv, Onward(disk, disk', Grants), sent' = sent, acked' = acked, cur' = cur, Finished',
         pump' \in {pump, "off"}, main' \in MainStates,
         \/ main' = main
         \/ main' \notin Waiting \cup {"draining"}
         \/ main = "primary" /\ main' = "record",
         main' = "session" => disk' = disk
  PROVE  IInv'
<1>1. /\ disk \in Sound /\ Truthful(disk, sent, acked)
      /\ pump \in PumpStates /\ Started /\ Opened /\ Held
  BY DEF IInv
<1>2. /\ disk' \in Sound
      /\ disk.att # NoAttempt => disk'.att # NoAttempt /\ Advances(disk.att, disk'.att)
  BY DEF Onward
<1>3. /\ Truthful(disk', sent, acked)
      /\ AllDelivered(disk, sent) => AllDelivered(disk', sent)
      /\ \A i \in DOMAIN disk.msgs :
           /\ i \in DOMAIN disk'.msgs
           /\ AllBefore(disk, sent, i) => AllBefore(disk', sent, i)
           /\ Is(disk, i, {"inflight"} \cup TurnStates)
                => Is(disk', i, {"inflight"} \cup TurnStates)
  BY <1>1, TruthfulKept DEF Grants
<1>4. pump' \in PumpStates
  BY <1>1 DEF PumpStates
<1>5. Started'
  BY <1>1 DEF Started, Waiting
<1>6. Opened'
  BY <1>1, <1>2 DEF Opened, Waiting, Advances
<1>7. Held'
  <2>1. CASE pump' = "off"
    BY <2>1 DEF Held
  <2>2. CASE pump' = pump /\ pump # "off"
    BY <1>1, <1>3, <2>2 DEF Held
  <2> QED BY <2>1, <2>2
<1> QED BY <1>2, <1>3, <1>4, <1>5, <1>6, <1>7 DEF IInv

(* The pump moves on from its message or leaves.                           *)
LEMMA PumpStep ==
  ASSUME IInv, pump # "off", Onward(disk, disk', Grants), sent' = sent, acked' = acked,
         main' \in {main, "drained", "failing", "dead"}, pump' \in PumpStates, Held', Concluded
  PROVE  IInv'
<1>1. /\ disk \in Sound /\ Truthful(disk, sent, acked)
      /\ main \in MainStates /\ Started /\ Opened
  BY DEF IInv
<1>2. disk' \in Sound /\ disk'.att # NoAttempt /\ disk'.att.primary /\ disk.att # NoAttempt
  BY <1>1 DEF Onward, Opened, Advances
<1>3. Truthful(disk', sent, acked)
  BY <1>1, TruthfulKept DEF Grants
<1>4. main' \in MainStates
  BY <1>1 DEF MainStates
<1>5. Started'
  BY <1>1 DEF Started
<1>6. Opened'
  BY <1>2 DEF Opened
<1>7. Finished'
  BY <1>2, FinishedKept DEF Still
<1> QED BY <1>2, <1>3, <1>4, <1>5, <1>6, <1>7 DEF IInv

(* The process dies in a call, or between two.                             *)
LEMMA GoneStep ==
  ASSUME IInv, Onward(disk, disk', Grants), WorkerGone, Still
  PROVE  IInv'
<1>1. Concluded
  BY DEF Concluded, Ending, WorkerGone
<1>2. Finished'
  BY <1>1, FinishedKept
<1> QED BY <1>2, QuietStep DEF WorkerGone, MainStates, Waiting

(* The pump leaves the loop.                                               *)
LEMMA LeaveStep ==
  ASSUME IInv, pump # "off", Onward(disk, disk', Grants),
         NEW m \in {"drained", "failing"}, PumpLeaves(m), Concluded
  PROVE  IInv'
<1>1. Held'
  BY DEF Held, PumpLeaves
<1> QED BY <1>1, PumpStep DEF PumpLeaves, PumpStates

-----------------------------------------------------------------------------
(* Every step preserves the invariant, and moves the disk onward.          *)
Forward == IInv' /\ Onward(disk, disk', Grants)

(* What a sender does.                                                     *)
LEMMA SendForward ==
  ASSUME IInv, NEW k \in Keys, NEW size \in Sizes, Send(k, size)
  PROVE  Forward
<1> DEFINE r == Sending(k, size)
<1>1. disk \in Sound /\ main \in MainStates /\ (main = "session" => disk = NewDisk)
  BY DEF IInv, Started
<1>2. Calls(r) /\ (disk.att = NoAttempt => r.trace = <<disk>>)
  BY <1>1, CallSending
<1>3. /\ Completes(r) \/ Fails(r) \/ Dies(r)
      /\ UNCHANGED <<job, cancel, main, pump, cur, snap, drained, sent, acked>>
  BY DEF Send
<1> HIDE DEF r
<1>4. Onward(disk, disk', Grants)
  BY <1>2, <1>3, CallEnds
<1>5. r.trace = <<disk>> => disk' = disk
  BY <1>3 DEF Completes, Fails, Dies, Last, Range
<1>6. Still /\ (main' = "session" => disk' = disk)
  BY <1>1, <1>2, <1>3, <1>5 DEF Still, NewDisk
<1>7. Concluded
  BY <1>3 DEF Concluded, Ending
<1>8. Finished'
  BY <1>4, <1>6, <1>7, FinishedKept
<1> QED BY <1>1, <1>3, <1>4, <1>6, <1>8, QuietStep DEF Forward

(* The steps that write nothing.                                           *)
LEMMA StillForward ==
  ASSUME IInv, disk' = disk, sent' = sent, acked' = acked, cur' = cur,
         pump' \in {pump, "off"}, main' \in MainStates,
         \/ main' = main
         \/ main' \notin Waiting \cup {"draining"}
         \/ main = "primary" /\ main' = "record",
         Concluded
  PROVE  Forward
<1>1. Onward(disk, disk', Grants)
  BY Stays DEF IInv
<1>2. Finished'
  BY <1>1, FinishedKept DEF Still
<1> QED BY <1>1, <1>2, QuietStep DEF Forward

(* A call that writes nothing where there is no attempt; and one of the    *)
(* controller after which nothing is sent.                                 *)
Standing(r) == disk.att = NoAttempt => r.trace = <<disk>>

LastCall(r) ==
  /\ Completes(r) \/ Fails(r) \/ Dies(r)
  /\ pump' \in {pump, "off"} /\ main' \in MainStates \ (Waiting \cup {"draining"})
  /\ sent' = sent /\ acked' = acked /\ cur' = cur

(* Such a call leaves a disk without an attempt alone.                     *)
LEMMA StandsStill ==
  ASSUME NEW r, Standing(r), Completes(r) \/ Fails(r) \/ Dies(r)
  PROVE  Still
<1>1. r.trace = <<disk>> => disk' = disk
  BY DEF Completes, Fails, Dies, Last, Range
<1> QED BY <1>1 DEF Still, Standing

(* A call after which the worker waits for nothing more.                   *)
LEMMA LastCallForward ==
  ASSUME IInv, NEW r, Calls(r), LastCall(r), Standing(r), Concluded
  PROVE  Forward
<1>1. Onward(disk, disk', Grants)
  BY CallEnds DEF LastCall
<1>2. main' # "session"
  BY DEF LastCall, Waiting
<1>3. Still
  BY StandsStill DEF LastCall
<1>4. Finished'
  BY <1>1, <1>3, FinishedKept
<1> QED BY <1>1, <1>2, <1>4, QuietStep DEF Forward, LastCall

(* The worker dies in a call of the pump.                                  *)
LEMMA GoneForward ==
  ASSUME IInv, pump # "off", NEW r, Calls(r), Dies(r), WorkerGone
  PROVE  Forward
<1>1. Onward(disk, disk', Grants)
  BY CallEnds
<1>2. Still
  BY DEF IInv, Opened, Still
<1> QED BY <1>1, <1>2, GoneStep DEF Forward

(* settleInterruptedAttempt, called for the worker or for a dead one.      *)
Interrupting == Authorised(SettleInterrupted(disk))

(* The interruption of the mailbox, by the worker or its recovery.         *)
LEMMA CallInterrupting ==
  ASSUME disk \in Sound
  PROVE  /\ Calls(Interrupting) /\ Standing(Interrupting)
         /\ Completes(Interrupting) => Shut(disk'.att)
         /\ Fails(Interrupting) => IOErrors \/ job = "terminal"
<1> DEFINE s == SettleInterrupted(disk)
           r == Authorised(s)
<1>1. Calls(s) /\ s.ret = "ok" /\ Shut(Last(s.trace).att)
  BY SettleInterruptedLeads, GrantsAre DEF Calls, Interrupts
<1>2. disk.att = NoAttempt => s.trace = <<disk>>
  BY DEF SettleInterrupted, Returns
<1> HIDE DEF s
<1>3. /\ Calls(r) /\ (r.ret # "error" => r = s)
      /\ r.ret = "error" => job = "terminal"
      /\ s.trace = <<disk>> => r.trace = <<disk>>
  BY <1>1, CallAuthorised
<1>4. Interrupting = r
  BY DEF Interrupting, s
<1> HIDE DEF r
<1> QED BY <1>1, <1>2, <1>3, <1>4 DEF Completes, Fails, Standing

(* A step of InterruptMailbox.                                             *)
LEMMA InterruptMailboxForward == ASSUME IInv, InterruptMailbox PROVE Forward
<1> DEFINE r == Interrupting
<1>1. disk \in Sound
  BY DEF IInv
<1>2. /\ Calls(r) /\ Standing(r)
      /\ Completes(r) => Shut(disk'.att)
      /\ Fails(r) => IOErrors \/ job = "terminal"
  BY <1>1, CallInterrupting
<1>3. InterruptMailbox <=> Main("failing", r, LAMBDA ret : "finish", "finish")
  BY DEF InterruptMailbox, Interrupting
<1> HIDE DEF r
<1>4. LastCall(r)
  BY <1>3 DEF Main, LastCall, WorkerGone, MainStates, Waiting
<1>5. /\ job' = job /\ (pump' = pump \/ pump' = "off")
      /\ \/ Completes(r) \/ Fails(r)
         \/ main' = "dead"
  BY <1>3 DEF Main, WorkerGone
<1>6. Concluded
  BY <1>2, <1>5 DEF Concluded, Ending
<1> QED BY <1>2, <1>4, <1>6, LastCallForward

(* The selection of the report.                                            *)
LEMMA CallSelecting ==
  ASSUME IInv, NEW valid \in BOOLEAN, NEW r,
         r = Authorised(SelectFinal(disk, SelectedSequence, valid))
  PROVE  Calls(r) /\ Standing(r)
<1> DEFINE s == SelectFinal(disk, SelectedSequence, valid)
<1>1. disk \in Sound
  BY DEF IInv
<1>2. Calls(s)
  BY <1>1, SelectFinalLeads DEF Calls
<1>3. disk.att = NoAttempt => s.trace = <<disk>>
  BY DEF SelectFinal, Throws, Returns
<1> HIDE DEF s
<1>4. Calls(r) /\ (s.trace = <<disk>> => r.trace = <<disk>>)
  BY <1>1, <1>2, CallAuthorised DEF s
<1> QED BY <1>3, <1>4 DEF Standing

(* A step of SelectReport.                                                 *)
LEMMA SelectReportForward == ASSUME IInv, SelectReport PROVE Forward
<1>1. PICK valid \in BOOLEAN :
        Main("report", Authorised(SelectFinal(disk, SelectedSequence, valid)),
             LAMBDA ret : IF valid THEN "finish" ELSE "repair", "finish")
  BY DEF SelectReport
<1> DEFINE r == Authorised(SelectFinal(disk, SelectedSequence, valid))
<1>2. Calls(r) /\ Standing(r)
  BY CallSelecting
<1> HIDE DEF r
<1>3. LastCall(r)
  BY <1>1 DEF r, Main, LastCall, WorkerGone, MainStates, Waiting
<1>4. Concluded
  BY <1>1 DEF Main, Concluded, Ending
<1> QED BY <1>2, <1>3, <1>4, LastCallForward

(* A step of SelectRepairedReport.                                         *)
LEMMA SelectRepairedReportForward == ASSUME IInv, SelectRepairedReport PROVE Forward
<1> DEFINE r == Authorised(SelectFinal(disk, SelectedSequence, TRUE))
<1>1. Calls(r) /\ Standing(r)
  BY CallSelecting
<1>2. LastCall(r)
  BY DEF SelectRepairedReport, Main, LastCall, WorkerGone, MainStates, Waiting
<1>3. Concluded
  BY DEF SelectRepairedReport, Main, Concluded, Ending
<1> QED BY <1>1, <1>2, <1>3, LastCallForward

(* A step of Recover.                                                      *)
LEMMA RecoverForward == ASSUME IInv, Recover PROVE Forward
<1> DEFINE r == Interrupting
<1>1. disk \in Sound /\ main \in MainStates
  BY DEF IInv
<1>2. /\ Calls(r) /\ Standing(r)
      /\ Completes(r) => Shut(disk'.att)
  BY <1>1, CallInterrupting
<1>3. /\ main = "dead"
      /\ \/ Completes(r) /\ main' = "settled"
         \/ (Fails(r) \/ Dies(r)) /\ main' = main
      /\ UNCHANGED <<job, cancel, pump, cur, snap, drained, sent, acked>>
  BY DEF Recover, Interrupting
<1> HIDE DEF r
<1>4. LastCall(r)
  BY <1>1, <1>3 DEF LastCall, MainStates, Waiting
<1>5. Concluded
  BY <1>2, <1>3 DEF Concluded, Ending
<1> QED BY <1>2, <1>4, <1>5, LastCallForward

(* A step of WorkerDies.                                                   *)
LEMMA WorkerDiesForward == ASSUME IInv, WorkerDies PROVE Forward
<1>1. Concluded
  BY DEF WorkerDies, WorkerGone, Concluded, Ending
<1> QED BY <1>1, StillForward DEF WorkerDies, WorkerGone, MainStates, Waiting

(* The steps that write nothing.                                           *)
LEMMA IdleForward ==
  ASSUME IInv,
         \/ Cancel \/ PrimaryEnds \/ ProviderFails \/ DrainReturned
         \/ RepairFails \/ FinishJob \/ RecoveryFinishesJob
  PROVE  Forward
<1>1. main \in MainStates
  BY DEF IInv
<1>0. Concluded
  BY DEF Cancel, PrimaryEnds, ProviderFails, DrainReturned, RepairFails, FinishJob,
         RecoveryFinishesJob, Concluded, Ending
<1>2. CASE Cancel
  BY <1>0, <1>1, <1>2, StillForward DEF Cancel
<1>3. CASE PrimaryEnds
  BY <1>0, <1>3, StillForward DEF PrimaryEnds, MainStates
<1>4. CASE ProviderFails
  BY <1>0, <1>4, StillForward DEF ProviderFails, MainStates, Waiting
<1>5. CASE DrainReturned
  BY <1>0, <1>5, StillForward DEF DrainReturned, MainStates, Waiting
<1>6. CASE RepairFails
  BY <1>0, <1>6, StillForward DEF RepairFails, MainStates, Waiting
<1>7. CASE FinishJob
  BY <1>0, <1>7, StillForward DEF FinishJob, MainStates, Waiting
<1>8. CASE RecoveryFinishesJob
  BY <1>0, <1>8, StillForward DEF RecoveryFinishesJob, MainStates, Waiting
<1> QED BY <1>2, <1>3, <1>4, <1>5, <1>6, <1>7, <1>8

(* A step of OpenMailbox.                                                  *)
LEMMA OpenMailboxForward == ASSUME IInv, OpenMailbox PROVE Forward
<1> DEFINE s == OpenAttempt(disk)
           r == Authorised(s)
<1>1. /\ disk \in Sound /\ Truthful(disk, sent, acked)
      /\ pump \in PumpStates /\ main \in MainStates /\ Started /\ Opened /\ Held
  BY DEF IInv
<1>2. main = "session"
  BY DEF OpenMailbox, Main
<1>3. disk = NewDisk /\ disk.att = NoAttempt /\ pump = "off" /\ sent = <<>> /\ Shut(disk.att)
  BY <1>1, <1>2 DEF Started, NewDisk, Shut, NoAttempt
<1>4. Calls(s) /\ s.ret = "ok" /\ Last(s.trace).att # NoAttempt
  BY <1>1, <1>3, OpenAttemptLeads DEF Calls
<1> HIDE DEF s
<1>5. Calls(r) /\ (r.ret # "error" => r = s) /\ (r.ret = "error" => job = "terminal")
  BY <1>1, <1>4, CallAuthorised
<1>51. job = "terminal" => r.trace = <<disk>> /\ r.ret = "error"
  BY DEF Authorised, Throws, Returns
<1>6. Main("session", r, LAMBDA ret : "primary", "finish")
  BY DEF OpenMailbox, s
<1> HIDE DEF r
<1>7. CASE /\ LastCall(r) /\ job' = job
           /\ \/ Fails(r)
              \/ Dies(r) /\ main' = "dead" /\ pump' = "off"
  <2>1. Onward(disk, disk', Grants)
    BY <1>5, <1>7, CallEnds DEF LastCall
  <2>2. ASSUME ~IOErrors, Ending' PROVE Shut(disk'.att)
    <3>1. job = "terminal"
      BY <1>5, <1>7, <2>2 DEF Ending, Fails
    <3>2. disk' = disk
      BY <1>7, <1>51, <3>1 DEF Fails, Dies, Last, Range
    <3> QED BY <1>3, <3>2
  <2>3. Finished'
    BY <2>2 DEF Finished
  <2>4. main' # "session"
    BY <1>7 DEF LastCall, Waiting
  <2> QED BY <1>7, <2>1, <2>3, <2>4, QuietStep DEF Forward, LastCall
<1>8. CASE /\ Completes(r) /\ main' = "primary" /\ pump' = pump /\ sent' = sent /\ acked' = acked
           /\ job' = job
  <2>1. Onward(disk, disk', Grants)
    BY <1>5, <1>8, CallEnds
  <2>2. disk'.att # NoAttempt
    BY <1>4, <1>5, <1>8 DEF Completes
  <2>3. disk' \in Sound /\ Truthful(disk', sent, acked)
    BY <1>1, <2>1, TruthfulKept DEF Grants, Onward
  <2>4. Started' /\ Opened' /\ Held'
    BY <1>3, <1>8, <2>2 DEF Started, Opened, Held
  <2>5. main' \in MainStates /\ pump' \in PumpStates
    BY <1>1, <1>8 DEF MainStates
  <2>6. Finished'
    BY <1>3, <1>8, <1>51 DEF Finished, Ending, Completes
  <2> QED BY <1>8, <2>1, <2>3, <2>4, <2>5, <2>6 DEF Forward, IInv
<1>9. \/ /\ LastCall(r) /\ job' = job
         /\ \/ Fails(r)
            \/ Dies(r) /\ main' = "dead" /\ pump' = "off"
      \/ /\ Completes(r) /\ main' = "primary" /\ pump' = pump /\ sent' = sent /\ acked' = acked
         /\ job' = job
  <2>1. UNCHANGED <<job, cur, sent, acked>>
    BY <1>6 DEF Main, WorkerGone
  <2>2. \/ Completes(r) /\ main' = "primary" /\ pump' = pump
        \/ Fails(r) /\ main' = "finish" /\ pump' = pump
        \/ Dies(r) /\ main' = "dead" /\ pump' = "off"
    BY <1>6 DEF Main, WorkerGone
  <2> QED BY <2>1, <2>2 DEF LastCall, MainStates, Waiting
<1> QED BY <1>7, <1>8, <1>9

(* A step of RecordPrimaryTurn.                                            *)
LEMMA RecordPrimaryTurnForward == ASSUME IInv, RecordPrimaryTurn PROVE Forward
<1> DEFINE s == RecordPrimary(disk)
           r == Authorised(s)
<1>1. /\ disk \in Sound /\ Truthful(disk, sent, acked)
      /\ pump \in PumpStates /\ main \in MainStates /\ Started /\ Opened /\ Held
  BY DEF IInv
<1>2. main = "record"
  BY DEF RecordPrimaryTurn, Main
<1>3. disk.att # NoAttempt /\ pump = "off" /\ sent = <<>>
  BY <1>1, <1>2 DEF Started, Opened
<1>4. Calls(s) /\ s.ret \in {"ok", "error"} /\ (s.ret = "ok" => Last(s.trace).att.primary)
  BY <1>1, <1>3, RecordPrimaryLeads DEF Calls, Primes
<1> HIDE DEF s
<1>5. Calls(r) /\ (r.ret # "error" => r = s)
  BY <1>1, <1>4, CallAuthorised
<1>6. Main("record", r, LAMBDA ret : "draining", "failing")
  BY DEF RecordPrimaryTurn, s
<1> HIDE DEF r
<1>7. CASE LastCall(r) /\ job' = job /\ main' \in {"failing", "dead"}
  <2>1. Concluded /\ Standing(r)
    BY <1>3, <1>7 DEF Concluded, Ending, Standing, LastCall
  <2> QED BY <1>5, <1>7, <2>1, LastCallForward
<1>8. CASE /\ Completes(r) /\ main' = "draining" /\ pump' = "claim" /\ sent' = sent
           /\ acked' = acked /\ job' = job
  <2>1. Onward(disk, disk', Grants)
    BY <1>5, <1>8, CallEnds
  <2>2. disk'.att # NoAttempt /\ disk'.att.primary
    BY <1>3, <1>4, <1>5, <1>8, <2>1 DEF Onward, Completes
  <2>3. disk' \in Sound /\ Truthful(disk', sent, acked)
    BY <1>1, <2>1, TruthfulKept DEF Grants, Onward
  <2>4. AllDelivered(disk', sent')
    BY <1>3, <1>8 DEF AllDelivered
  <2>5. Started' /\ Opened' /\ Held'
    BY <1>8, <2>2, <2>4 DEF Started, Opened, Held
  <2>6. main' \in MainStates /\ pump' \in PumpStates
    BY <1>8 DEF MainStates, PumpStates
  <2>7. Still /\ Concluded
    BY <1>3, <1>8 DEF Still, Concluded, Ending
  <2>8. Finished'
    BY <2>1, <2>7, FinishedKept
  <2> QED BY <1>8, <2>1, <2>3, <2>5, <2>6, <2>8 DEF Forward, IInv
<1>9. \/ LastCall(r) /\ job' = job /\ main' \in {"failing", "dead"}
      \/ /\ Completes(r) /\ main' = "draining" /\ pump' = "claim" /\ sent' = sent
         /\ acked' = acked /\ job' = job
  BY <1>6 DEF Main, LastCall, WorkerGone, MainStates, Waiting
<1> QED BY <1>7, <1>8, <1>9

-----------------------------------------------------------------------------
(* The pump's steps.  What its call wrote, and that it left.               *)
LEMMA PumpFacts ==
  ASSUME IInv, pump # "off"
  PROVE  /\ disk \in Sound /\ disk.att # NoAttempt /\ disk.att.primary
         /\ Truthful(disk, sent, acked) /\ Held
         /\ pump \notin {"claim", "close"} => cur \in DOMAIN disk.msgs
BY DEF IInv, Opened, Held

(* The pump goes on to p with the message it has.                          *)
LEMMA PumpAtForward ==
  ASSUME IInv, pump # "off", Onward(disk, disk', Grants), sent' = sent, acked' = acked,
         main' = main, cur' = cur, Concluded,
         \/ pump \in {"reserve", "unsure"} /\ pump' \in {"unsure", "claim"}
         \/ pump' = "close"
         \/ pump = "snapshot" /\ pump' = "settle"
         \/ pump = "settle" /\ pump' = "reread"
         \/ pump = "await" /\ pump' = "failed"
  PROVE  Forward
<1>1. /\ disk \in Sound /\ Truthful(disk, sent, acked) /\ Held
  BY DEF IInv
<1>2. /\ AllDelivered(disk, sent) => AllDelivered(disk', sent)
      /\ \A i \in DOMAIN disk.msgs :
           /\ i \in DOMAIN disk'.msgs
           /\ AllBefore(disk, sent, i) => AllBefore(disk', sent, i)
  BY <1>1, TruthfulKept DEF Grants
<1>3. Held'
  BY <1>1, <1>2 DEF Held
<1>4. pump' \in PumpStates
  BY DEF PumpStates, IInv
<1> QED BY <1>3, <1>4, PumpStep DEF Forward

(* A message that is delivered on disk was the last one sent, and all.     *)
LEMMA GoesOnForward ==
  ASSUME IInv, pump \in {"settle", "reread"}, Onward(disk, disk', Grants), GoesOn,
         acked' = acked, job' = job, Is(disk', cur, {"delivered"})
  PROVE  Forward
<1>1. /\ disk \in Sound /\ Truthful(disk, sent, acked)
      /\ sent # <<>> /\ sent[Len(sent)] = cur
  BY DEF IInv, Held
<1>2. Truthful(disk', sent, acked)
  BY <1>1, TruthfulKept DEF Grants
<1>3. AllDelivered(disk', sent)
  BY <1>1, <1>2 DEF AllDelivered, Truthful, Is
<1>4. /\ pump' = "claim" /\ main' = main /\ sent' = sent
  BY DEF GoesOn
<1>5. Held'
  BY <1>3, <1>4 DEF Held
<1>6. Concluded
  BY <1>4 DEF Concluded, Ending
<1> QED BY <1>4, <1>5, <1>6, PumpStep DEF Forward, PumpStates

(* The pump makes a call and stops.                                        *)
LEMMA PumpLeavesForward ==
  ASSUME IInv, pump # "off", Onward(disk, disk', Grants), Concluded,
         PumpLeaves("drained") \/ PumpLeaves("failing")
  PROVE  Forward
<1>1. IInv'
  BY LeaveStep
<1> QED BY <1>1 DEF Forward

(* The pump fails, which ends nothing.                                     *)
LEMMA PumpThrowsForward ==
  ASSUME IInv, pump # "off", Onward(disk, disk', Grants), PumpLeaves("failing"), job' = job
  PROVE  Forward
<1>1. Concluded
  BY DEF Concluded, Ending, PumpLeaves
<1> QED BY <1>1, PumpLeavesForward

(* Every settlement that the pump makes and then goes on to note.          *)
LEMMA CallNoting ==
  ASSUME IInv, pump # "off", pump \notin {"claim", "close"}, NEW s, Calls(s)
  PROVE  /\ Calls(Noting(s, cur)) /\ Noting(s, cur).ret = s.ret
         /\ Last(Noting(s, cur).trace).att = Last(s.trace).att
         /\ Last(Noting(s, cur).trace).msgs = Last(s.trace).msgs
<1>1. disk \in Sound /\ cur \in DOMAIN disk.msgs
  BY PumpFacts
<1>2. Onward(disk, Last(s.trace), Grants)
  BY LeadsFacts DEF Calls
<1>3. s.ret # "error" => cur \in DOMAIN Last(s.trace).msgs
  BY <1>1, <1>2 DEF Onward
<1>4. Leads(disk, s.trace, Grants)
  BY DEF Calls
<1>5. /\ Leads(disk, Noting(s, cur).trace, Grants) /\ Noting(s, cur).ret = s.ret
      /\ Last(Noting(s, cur).trace).att = Last(s.trace).att
      /\ Last(Noting(s, cur).trace).msgs = Last(s.trace).msgs
  BY <1>1, <1>3, <1>4, NotingLeads
<1> QED BY <1>5 DEF Calls

(* settleMessageUnknown for the message the pump holds: it shuts the       *)
(* mailbox.                                                                *)
Unsettling == Noting(SettleUnknown(disk, cur), cur)

(* The settlement of a message whose outcome is not known.                 *)
LEMMA CallUnsettling ==
  ASSUME IInv, pump # "off", pump \notin {"claim", "close"}
  PROVE  /\ Calls(Authorised(Unsettling))
         /\ Completes(Authorised(Unsettling)) => Shut(disk'.att)
<1> DEFINE s == SettleUnknown(disk, cur)
           c == Unsettling
           r == Authorised(c)
<1>1. disk \in Sound /\ disk.att # NoAttempt /\ cur \in DOMAIN disk.msgs
  BY PumpFacts
<1>2. Calls(s) /\ s.ret \in {"ok", "error"} /\ (s.ret = "ok" => Shut(Last(s.trace).att))
  BY <1>1, SettleUnknownLeads, GrantsAre DEF Calls, Shuts
<1> HIDE DEF s
<1>3. Calls(c) /\ c.ret = s.ret /\ Last(c.trace).att = Last(s.trace).att
  BY <1>2, CallNoting DEF Unsettling, s
<1> HIDE DEF c
<1>4. Calls(r) /\ (r.ret # "error" => r = c)
  BY <1>1, <1>3, CallAuthorised
<1> HIDE DEF r
<1>5. Completes(r) => Shut(disk'.att)
  BY <1>2, <1>3, <1>4 DEF Completes
<1> QED BY <1>4, <1>5 DEF r, c

(* A step of PumpDispatches.                                               *)
LEMMA PumpDispatchesForward == ASSUME IInv, PumpDispatches PROVE Forward
<1>1. pump = "dispatch" /\ pump' = "await" /\ sent' = Append(sent, cur)
      /\ disk' = disk /\ main' = main /\ cur' = cur /\ acked' = acked
  BY DEF PumpDispatches
<1>2. /\ disk \in Sound /\ Truthful(disk, sent, acked) /\ main \in MainStates
      /\ Started /\ Opened
      /\ cur \in DOMAIN disk.msgs /\ AllDelivered(disk, sent) /\ AllBefore(disk, sent, cur)
      /\ Is(disk, cur, {"inflight"} \cup TurnStates)
  BY <1>1 DEF IInv, Held
<1>3. sent \in Seq(Nat) /\ cur \in Nat
  BY <1>2 DEF Truthful, Sound, Disks
<1> DEFINE w == Append(sent, cur)
<1>4. /\ w \in Seq(Nat) /\ Len(w) = Len(sent) + 1 /\ DOMAIN w = 1..(Len(sent) + 1)
      /\ DOMAIN sent = 1..Len(sent) /\ Len(sent) \in Nat
      /\ w[Len(w)] = cur
      /\ \A n \in DOMAIN sent : w[n] = sent[n]
  BY <1>3
<1> HIDE DEF w
<1>5. Truthful(disk, w, acked)
  <2>0. \A n \in DOMAIN w :
          \/ n \in DOMAIN sent /\ w[n] = sent[n] /\ n < Len(w)
          \/ n = Len(w) /\ w[n] = cur
    <3>1. \A n \in DOMAIN w : n \in DOMAIN sent \/ n = Len(w)
      BY <1>4
    <3>2. \A n \in DOMAIN sent : n < Len(w)
      BY <1>4
    <3> QED BY <1>4, <3>1, <3>2
  <2>1. \A n \in DOMAIN w : w[n] \in DOMAIN disk.msgs /\ Is(disk, w[n],
                                                            {"inflight"} \cup TurnStates)
    BY <1>2, <2>0 DEF Truthful
  <2>2. \A n \in DOMAIN w : n < Len(w) => Is(disk, w[n], {"delivered"})
    BY <1>2, <2>0 DEF AllDelivered
  <2>3. \A n, m \in DOMAIN w : n < m => disk.msgs[w[n]].seq < disk.msgs[w[m]].seq
    <3>1. ASSUME NEW n \in DOMAIN w, NEW m \in DOMAIN w, n < m
          PROVE  disk.msgs[w[n]].seq < disk.msgs[w[m]].seq
      <4>1. n \in DOMAIN sent /\ w[n] = sent[n]
        BY <1>4, <2>0, <3>1
      <4>2. CASE m = Len(w) /\ w[m] = cur
        BY <1>2, <4>1, <4>2 DEF AllBefore
      <4>3. CASE m \in DOMAIN sent /\ w[m] = sent[m]
        BY <1>2, <3>1, <4>1, <4>3 DEF Truthful
      <4> QED BY <2>0, <4>2, <4>3
    <3> QED BY <3>1
  <2>4. \A i \in acked : \E n \in DOMAIN w : w[n] = i
    <3>1. \A n \in DOMAIN sent : n \in DOMAIN w /\ w[n] = sent[n]
      BY <1>4
    <3> QED BY <1>2, <3>1 DEF Truthful
  <2> QED BY <1>2, <1>4, <2>1, <2>2, <2>3, <2>4 DEF Truthful
<1>6. Started'
  BY <1>1, <1>2 DEF Started
<1>7. Opened'
  BY <1>1, <1>2 DEF Opened
<1>8. Held'
  <2>1. w # <<>>
    BY <1>4
  <2> QED BY <1>1, <1>2, <1>4, <2>1 DEF Held, w
<1>9. Onward(disk, disk', Grants)
  BY <1>1, <1>2, Stays
<1>10. Finished'
  <2>1. Still /\ Concluded
    BY DEF Still, Concluded, Ending, PumpDispatches
  <2> QED BY <1>9, <2>1, FinishedKept
<1> QED BY <1>1, <1>2, <1>5, <1>6, <1>7, <1>8, <1>9, <1>10 DEF Forward, IInv, w, PumpStates

(* A step of TurnEnds.                                                     *)
LEMMA TurnEndsForward == ASSUME IInv, TurnEnds PROVE Forward
<1>1. pump = "await" /\ pump' = "snapshot" /\ sent' = sent /\ acked' = acked \cup {cur}
      /\ disk' = disk /\ main' = main /\ cur' = cur
  BY DEF TurnEnds
<1>2. /\ disk \in Sound /\ Truthful(disk, sent, acked) /\ main \in MainStates
      /\ Started /\ Opened /\ Held
  BY DEF IInv
<1>3. Truthful(disk, sent, acked \cup {cur})
  <2>1. sent \in Seq(Nat) /\ sent # <<>> /\ sent[Len(sent)] = cur
    BY <1>1, <1>2 DEF Held, Truthful
  <2>2. Len(sent) \in DOMAIN sent
    BY <2>1
  <2> QED BY <1>2, <2>1, <2>2 DEF Truthful
<1>4. Started' /\ Opened'
  BY <1>1, <1>2 DEF Started, Opened
<1>5. Held'
  BY <1>1, <1>2 DEF Held
<1>6. Onward(disk, disk', Grants)
  BY <1>1, <1>2, Stays
<1>7. Finished'
  <2>1. Still /\ Concluded
    BY DEF Still, Concluded, Ending, TurnEnds
  <2> QED BY <1>6, <2>1, FinishedKept
<1> QED BY <1>1, <1>2, <1>3, <1>4, <1>5, <1>6, <1>7 DEF Forward, IInv, PumpStates

(* A step of PumpClaims.                                                   *)
LEMMA PumpClaimsForward == ASSUME IInv, PumpClaims PROVE Forward
<1> DEFINE c == Claiming
           r == Authorised(c)
<1>1. pump = "claim"
  BY DEF PumpClaims, PumpTx
<1>2. /\ disk \in Sound /\ disk.att # NoAttempt /\ disk.att.primary
      /\ Truthful(disk, sent, acked) /\ AllDelivered(disk, sent)
  BY <1>1, PumpFacts DEF Held
<1>3. /\ Calls(c) /\ (c.ret = "claimed" => InState(Last(c.trace), {"claimed"}) # {})
      /\ c.ret \in {"return", "unknown"} => Shut(Last(c.trace).att)
  BY <1>2, CallClaiming
<1>4. Calls(r) /\ (r.ret # "error" => r = c)
  BY <1>2, <1>3, CallAuthorised
<1>5. \/ Dies(r) /\ WorkerGone
      \/ (Completes(r) \/ Fails(r)) /\ PumpLeaves("failing") /\ job' = job
      \/ /\ Completes(r) /\ r.ret \in {"return", "unknown"}
         /\ PumpLeaves("drained") /\ job' = job
      \/ /\ Completes(r) /\ r.ret = "claimed" /\ pump' = "reserve"
         /\ cur' = CHOOSE i \in InState(disk', {"claimed"}) : TRUE
         /\ main' = main /\ sent' = sent /\ acked' = acked /\ job' = job
  BY DEF PumpClaims, PumpTx, PumpReturns, PumpThrows
<1> HIDE DEF r, c
<1>6. CASE Dies(r) /\ WorkerGone
  BY <1>1, <1>4, <1>6, GoneForward
<1>7. CASE (Completes(r) \/ Fails(r)) /\ PumpLeaves("failing") /\ job' = job
  <2>1. Onward(disk, disk', Grants)
    BY <1>4, <1>7, CallEnds
  <2> QED BY <1>1, <1>7, <2>1, PumpThrowsForward
<1>71. CASE /\ Completes(r) /\ r.ret \in {"return", "unknown"}
            /\ PumpLeaves("drained") /\ job' = job
  <2>1. Onward(disk, disk', Grants)
    BY <1>4, <1>71, CallEnds
  <2>2. Shut(disk'.att)
    BY <1>3, <1>4, <1>71 DEF Completes
  <2>3. Concluded
    BY <2>2 DEF Concluded
  <2> QED BY <1>1, <1>71, <2>1, <2>3, PumpLeavesForward
<1>8. CASE /\ Completes(r) /\ r.ret = "claimed" /\ pump' = "reserve"
           /\ cur' = CHOOSE i \in InState(disk', {"claimed"}) : TRUE
           /\ main' = main /\ sent' = sent /\ acked' = acked /\ job' = job
  <2>1. Onward(disk, disk', Grants) /\ disk' \in Sound
    BY <1>4, <1>8, CallEnds DEF Onward
  <2>2. InState(disk', {"claimed"}) # {}
    BY <1>3, <1>4, <1>8 DEF Completes
  <2>3. cur' \in DOMAIN disk'.msgs /\ Is(disk', cur', {"claimed"})
    BY <1>8, <2>2 DEF InState, Is
  <2>4. Truthful(disk', sent, acked) /\ AllDelivered(disk', sent)
    BY <1>2, <2>1, TruthfulKept DEF Grants
  <2>5. AllBefore(disk', sent, cur')
    <3>1. Queued(disk')
      BY <2>1 DEF Sound
    <3>2. Is(disk', cur', ActiveStates)
      BY <2>3 DEF Is, ActiveStates
    <3>3. ASSUME NEW n \in DOMAIN sent
          PROVE  disk'.msgs[sent[n]].seq < disk'.msgs[cur'].seq
      <4>1. sent[n] \in DOMAIN disk'.msgs /\ Is(disk', sent[n], TurnStates)
        BY <2>4 DEF Truthful, AllDelivered, Is, TurnStates
      <4> QED BY <2>3, <3>1, <3>2, <4>1 DEF Queued
    <3> QED BY <3>3 DEF AllBefore
  <2>6. Held'
    BY <1>8, <2>3, <2>4, <2>5 DEF Held
  <2>7. Concluded
    BY <1>8 DEF Concluded, Ending
  <2> QED BY <1>1, <1>8, <2>1, <2>6, <2>7, PumpStep DEF Forward, PumpStates
<1> QED BY <1>5, <1>6, <1>7, <1>71, <1>8

(* A step of PumpReserves.                                                 *)
LEMMA PumpReservesForward == ASSUME IInv, PumpReserves PROVE Forward
<1> DEFINE s == As(SettleCancelled(disk), "cancelled")
           m == MarkInflight(disk, cur)
           c == IF cancel THEN s ELSE m
           r == Authorised(c)
<1>1. pump = "reserve"
  BY DEF PumpReserves, PumpTx
<1>2. /\ disk \in Sound /\ disk.att # NoAttempt /\ Truthful(disk, sent, acked)
      /\ cur \in DOMAIN disk.msgs /\ AllDelivered(disk, sent) /\ AllBefore(disk, sent, cur)
  BY <1>1, PumpFacts DEF Held
<1>3. Calls(s) /\ s.ret \in {"error", "cancelled"}
  BY <1>2, SettleCancelledLeads, GrantsAre, CallAs DEF Calls
<1>4. Calls(m) /\ (m.ret = "ok" => Is(Last(m.trace), cur, {"inflight"}))
  BY <1>2, MarkInflightLeads DEF Brings, Calls, Is
<1> HIDE DEF s, m
<1>5. Calls(c) /\ (c.ret = "ok" => Is(Last(c.trace), cur, {"inflight"}))
  BY <1>3, <1>4
<1> HIDE DEF c
<1>6. Calls(r) /\ (r.ret # "error" => r = c)
  BY <1>2, <1>5, CallAuthorised
<1>7. \/ Dies(r) /\ WorkerGone
      \/ Completes(r) /\ PumpLeaves("failing") /\ job' = job
      \/ Fails(r) /\ PumpAt("unsure") /\ job' = job
      \/ Completes(r) /\ r.ret = "ok" /\ PumpAt("dispatch") /\ job' = job
  BY DEF PumpReserves, PumpTx, PumpThrows, r, c, m, s
<1> HIDE DEF r
<1>8. CASE Dies(r) /\ WorkerGone
  BY <1>1, <1>6, <1>8, GoneForward
<1>9. CASE Completes(r) /\ PumpLeaves("failing") /\ job' = job
  <2>1. Onward(disk, disk', Grants)
    BY <1>6, <1>9, CallEnds
  <2> QED BY <1>1, <1>9, <2>1, PumpThrowsForward
<1>10. CASE Fails(r) /\ PumpAt("unsure") /\ job' = job
  <2>1. Onward(disk, disk', Grants)
    BY <1>6, <1>10, CallEnds
  <2>2. Concluded
    BY <1>10 DEF Concluded, Ending, PumpAt
  <2> QED BY <1>1, <1>10, <2>1, <2>2, PumpAtForward DEF PumpAt
<1>11. CASE Completes(r) /\ r.ret = "ok" /\ PumpAt("dispatch") /\ job' = job
  <2>1. Onward(disk, disk', Grants)
    BY <1>6, <1>11, CallEnds
  <2>2. /\ AllDelivered(disk', sent) /\ cur \in DOMAIN disk'.msgs /\ AllBefore(disk', sent, cur)
    BY <1>2, <2>1, TruthfulKept DEF Grants
  <2>3. Is(disk', cur, {"inflight"})
    BY <1>5, <1>6, <1>11 DEF Completes
  <2>4. Is(disk', cur, {"inflight"} \cup TurnStates)
    BY <2>3 DEF Is
  <2>5. Held'
    BY <1>11, <2>2, <2>4 DEF Held, PumpAt
  <2>6. Concluded
    BY <1>11 DEF Concluded, Ending, PumpAt
  <2> QED BY <1>1, <1>11, <2>1, <2>5, <2>6, PumpStep DEF Forward, PumpStates, PumpAt
<1> QED BY <1>7, <1>8, <1>9, <1>10, <1>11

(* A step of PumpSettlesUnsure.                                            *)
LEMMA PumpSettlesUnsureForward == ASSUME IInv, PumpSettlesUnsure PROVE Forward
<1> DEFINE inflight == disk.msgs[cur].state = "inflight"
           v == SettleRejected(disk, cur)
           c == Noting(v, cur)
           w == IF inflight THEN Unsettling ELSE c
           r == Authorised(w)
<1>1. pump = "unsure"
  BY DEF PumpSettlesUnsure, PumpTx
<1>2. disk \in Sound /\ disk.att # NoAttempt /\ cur \in DOMAIN disk.msgs
  BY <1>1, PumpFacts
<1>3. /\ Calls(Authorised(Unsettling))
      /\ Completes(Authorised(Unsettling)) => Shut(disk'.att)
  BY <1>1, CallUnsettling
<1>4. Calls(Authorised(c))
  <2>1. Calls(v)
    BY <1>2, SettleRejectedLeads DEF Calls
  <2> HIDE DEF v
  <2>2. Calls(c)
    BY <1>1, <2>1, CallNoting
  <2> HIDE DEF c
  <2> QED BY <1>2, <2>2, CallAuthorised
<1>5. w = Noting(IF inflight THEN SettleUnknown(disk, cur) ELSE v, cur)
  BY DEF Unsettling
<1> HIDE DEF v
<1>6. /\ pump = "unsure"
      /\ \/ /\ \/ /\ Completes(r)
                  /\ IF inflight THEN pump' = "close" /\ UNCHANGED <<main, cur, sent, acked>>
                                 ELSE PumpAt("claim")
               \/ Fails(r) /\ PumpLeaves("failing")
            /\ job' = job
         \/ Dies(r) /\ WorkerGone
  BY <1>5 DEF PumpSettlesUnsure, PumpTx, PumpThrows, v
<1>7. Calls(r) /\ (inflight /\ Completes(r) => Shut(disk'.att))
  <2>1. CASE inflight
    BY <1>3, <2>1
  <2>2. CASE ~inflight
    BY <1>4, <2>2
  <2> QED BY <2>1, <2>2
<1> HIDE DEF r, w, c, inflight
<1>8. CASE Dies(r) /\ WorkerGone
  BY <1>1, <1>7, <1>8, GoneForward
<1>9. CASE Fails(r) /\ PumpLeaves("failing") /\ job' = job
  <2>1. Onward(disk, disk', Grants)
    BY <1>7, <1>9, CallEnds
  <2> QED BY <1>1, <1>9, <2>1, PumpThrowsForward
<1>10. CASE Completes(r) /\ inflight /\ pump' = "close" /\ UNCHANGED <<main, cur, sent, acked>>
  <2>1. Onward(disk, disk', Grants)
    BY <1>7, <1>10, CallEnds
  <2>2. Concluded
    BY <1>7, <1>10 DEF Concluded
  <2> QED BY <1>1, <1>10, <2>1, <2>2, PumpAtForward
<1>11. CASE Completes(r) /\ PumpAt("claim") /\ job' = job
  <2>1. Onward(disk, disk', Grants)
    BY <1>7, <1>11, CallEnds
  <2>2. Concluded
    BY <1>11 DEF Concluded, Ending, PumpAt
  <2> QED BY <1>1, <1>11, <2>1, <2>2, PumpAtForward DEF PumpAt
<1> QED BY <1>6, <1>8, <1>9, <1>10, <1>11

(* The settlement of it, from any step of the pump.                        *)
LEMMA SettlesUnknownForward ==
  ASSUME IInv, NEW from \in {"failed", "reread"}, SettlesUnknown(from)
  PROVE  Forward
<1> DEFINE r == Authorised(Unsettling)
<1>1. pump \in {"failed", "reread"}
  BY DEF SettlesUnknown, PumpTx
<1>2. Calls(r) /\ (Completes(r) => Shut(disk'.att))
  BY <1>1, CallUnsettling
<1>3. \/ Dies(r) /\ WorkerGone
      \/ Fails(r) /\ PumpLeaves("failing") /\ job' = job
      \/ /\ Completes(r) /\ pump' = "close"
         /\ main' = main /\ sent' = sent /\ acked' = acked /\ cur' = cur
  BY DEF SettlesUnknown, PumpTx, PumpThrows, Unsettling
<1> HIDE DEF r
<1>4. CASE Dies(r) /\ WorkerGone
  BY <1>1, <1>2, <1>4, GoneForward
<1>5. CASE Fails(r) /\ PumpLeaves("failing") /\ job' = job
  <2>1. Onward(disk, disk', Grants)
    BY <1>2, <1>5, CallEnds
  <2> QED BY <1>1, <1>5, <2>1, PumpThrowsForward
<1>6. CASE /\ Completes(r) /\ pump' = "close"
           /\ main' = main /\ sent' = sent /\ acked' = acked /\ cur' = cur
  <2>1. Onward(disk, disk', Grants)
    BY <1>2, <1>6, CallEnds
  <2>2. Concluded
    BY <1>2, <1>6 DEF Concluded
  <2> QED BY <1>1, <1>6, <2>1, <2>2, PumpAtForward
<1> QED BY <1>3, <1>4, <1>5, <1>6

(* A step of PumpClosesUnknown.                                            *)
LEMMA PumpClosesUnknownForward == ASSUME IInv, PumpClosesUnknown PROVE Forward
<1> DEFINE c == TryClose(disk, FALSE)
           r == Authorised(c)
<1>1. pump = "close"
  BY DEF PumpClosesUnknown, PumpTx
<1>2. disk \in Sound /\ disk.att # NoAttempt
  BY <1>1, PumpFacts
<1>3. Calls(c)
  BY <1>2, TryCloseLeads DEF Calls, Closes
<1> HIDE DEF c
<1>4. Calls(r)
  BY <1>2, <1>3, CallAuthorised
<1>5. \/ Dies(r) /\ WorkerGone
      \/ (Completes(r) \/ Fails(r)) /\ (PumpLeaves("drained") \/ PumpLeaves("failing"))
  BY DEF PumpClosesUnknown, PumpTx, PumpThrows, PumpReturns, c
<1> HIDE DEF r
<1>6. Onward(disk, disk', Grants) /\ Concluded
  BY <1>1, <1>4, <1>5, CallEnds DEF Concluded, Ending
<1> QED BY <1>1, <1>4, <1>5, <1>6, GoneForward, PumpLeavesForward

(* A step of PumpSettlesDelivered.                                         *)
LEMMA PumpSettlesDeliveredForward == ASSUME IInv, PumpSettlesDelivered PROVE Forward
<1> DEFINE s == SettleDelivered(disk, cur, snap)
           c == Noting(s, cur)
           r == Authorised(c)
<1>1. pump = "settle"
  BY DEF PumpSettlesDelivered, PumpTx
<1>2. disk \in Sound /\ disk.att # NoAttempt /\ cur \in DOMAIN disk.msgs /\ cur \in acked
  BY <1>1, PumpFacts DEF Held
<1>3. Brings(disk, s, cur, "delivered", Grants)
  BY <1>2, SettleDeliveredLeads, GrantsAre
<1>4. /\ Calls(s) /\ s.ret \in {"ok", "error"}
      /\ (s.ret = "ok" => Is(Last(s.trace), cur, {"delivered"}))
  BY <1>3 DEF Brings, Calls, Is
<1> HIDE DEF s
<1>5. /\ Calls(c) /\ c.ret = s.ret
      /\ Last(c.trace).msgs = Last(s.trace).msgs
  BY <1>1, <1>4, CallNoting
<1> HIDE DEF c
<1>6. Calls(r) /\ (r.ret # "error" => r = c)
  BY <1>2, <1>5, CallAuthorised
<1>7. \/ Dies(r) /\ WorkerGone
      \/ Fails(r) /\ PumpAt("reread") /\ job' = job
      \/ Completes(r) /\ GoesOn /\ job' = job
  BY DEF PumpSettlesDelivered, PumpTx, c, s
<1>8. acked' = acked
  BY DEF PumpSettlesDelivered, PumpTx, GoesOn, PumpAt, WorkerGone
<1> HIDE DEF r
<1>9. CASE Dies(r) /\ WorkerGone
  BY <1>1, <1>6, <1>9, GoneForward
<1>10. CASE Fails(r) /\ PumpAt("reread") /\ job' = job
  <2>1. Onward(disk, disk', Grants)
    BY <1>6, <1>10, CallEnds
  <2>2. Concluded
    BY <1>10 DEF Concluded, Ending, PumpAt
  <2> QED BY <1>1, <1>10, <2>1, <2>2, PumpAtForward DEF PumpAt
<1>11. CASE Completes(r) /\ GoesOn /\ job' = job
  <2>1. Onward(disk, disk', Grants)
    BY <1>6, <1>11, CallEnds
  <2>2. Is(disk', cur, {"delivered"})
    BY <1>4, <1>5, <1>6, <1>11 DEF Completes, Is
  <2> QED BY <1>1, <1>8, <1>11, <2>1, <2>2, GoesOnForward
<1> QED BY <1>7, <1>9, <1>10, <1>11

(* A step of PumpTakesSettled.                                             *)
LEMMA PumpTakesSettledForward == ASSUME IInv, PumpTakesSettled PROVE Forward
<1>1. /\ pump = "reread" /\ Is(disk, cur, {"delivered"}) /\ GoesOn
      /\ disk' = disk /\ acked' = acked /\ job' = job
  BY DEF PumpTakesSettled, Settled, Is, GoesOn
<1>2. Onward(disk, disk', Grants)
  BY <1>1, Stays DEF IInv
<1>3. Is(disk', cur, {"delivered"})
  BY <1>1
<1> QED BY <1>1, <1>2, <1>3, GoesOnForward

(* The pump's steps that write nothing.                                    *)
LEMMA PumpIdleForward ==
  ASSUME IInv, PumpCannotReserve \/ TurnFails \/ PumpReadsAttempt \/ PumpThrowsOn
  PROVE  Forward
<1>1. disk' = disk
  BY DEF PumpCannotReserve, TurnFails, PumpReadsAttempt, PumpThrowsOn
<1>2. Onward(disk, disk', Grants)
  BY <1>1, Stays DEF IInv
<1>0. Concluded
  BY DEF PumpCannotReserve, TurnFails, PumpReadsAttempt, PumpThrowsOn, PumpThrows,
         PumpLeaves, PumpAt, Concluded, Ending
<1>3. CASE PumpCannotReserve
  BY <1>0, <1>2, <1>3, PumpAtForward DEF PumpCannotReserve, PumpAt
<1>4. CASE TurnFails
  BY <1>0, <1>2, <1>4, PumpAtForward DEF TurnFails
<1>5. CASE PumpReadsAttempt
  BY <1>0, <1>2, <1>5, PumpAtForward DEF PumpReadsAttempt
<1>6. CASE PumpThrowsOn
  BY <1>0, <1>2, <1>6, PumpLeavesForward DEF PumpThrowsOn, PumpThrows
<1> QED BY <1>3, <1>4, <1>5, <1>6

-----------------------------------------------------------------------------
(* The initial states.                                                     *)
LEMMA InitHolds == Init => IInv
<1> SUFFICES ASSUME Init PROVE IInv
  OBVIOUS
<1>1. /\ disk = NewDisk /\ sent = <<>> /\ acked = {} /\ main = "session" /\ pump = "off"
      /\ job = "running"
  BY DEF Init
<1>2. /\ DOMAIN NewDisk.msgs = {} /\ NewDisk.noted = {} /\ NewDisk.att = NoAttempt
      /\ NewDisk.msgs = <<>>
  BY DEF NewDisk
<1>3. NewDisk \in Disks
  BY DEF NewDisk, Disks
<1>4. NewDisk \in Sound
  BY <1>2, <1>3 DEF Sound, Numbered, Distinct, Queued, Sealed, TrueNotes, Coherent
<1>5. Truthful(disk, sent, acked)
  BY <1>1, <1>2 DEF Truthful
<1>6. Finished
  BY <1>1 DEF Finished, Ending
<1> QED BY <1>1, <1>4, <1>5, <1>6 DEF IInv, Started, Opened, Held, MainStates, PumpStates

(* Every step.                                                             *)
LEMMA NextForward == ASSUME IInv, Next PROVE Forward
<1>1. CASE \E k \in Keys, size \in Sizes : Send(k, size)
  BY <1>1, SendForward
<1>2. CASE Cancel \/ ProviderFails
  BY <1>2, IdleForward
<1>3. CASE Controller
  <2>1. CASE PrimaryEnds \/ DrainReturned \/ RepairFails \/ FinishJob
    BY <2>1, IdleForward
  <2> QED BY <1>3, <2>1, OpenMailboxForward, RecordPrimaryTurnForward, InterruptMailboxForward,
             SelectReportForward, SelectRepairedReportForward DEF Controller
<1>4. CASE Pump
  <2>1. CASE PumpCannotReserve \/ PumpReadsAttempt \/ PumpThrowsOn
    BY <2>1, PumpIdleForward
  <2>2. CASE PumpSettlesUnknown \/ PumpGivesUp
    BY <2>2, SettlesUnknownForward DEF PumpSettlesUnknown, PumpGivesUp
  <2> QED BY <1>4, <2>1, <2>2, PumpClaimsForward, PumpReservesForward, PumpSettlesUnsureForward,
             PumpDispatchesForward, PumpClosesUnknownForward, PumpSettlesDeliveredForward,
             PumpTakesSettledForward DEF Pump
<1>5. CASE Provider
  BY <1>5, TurnEndsForward, PumpIdleForward DEF Provider
<1>6. CASE WorkerDies
  BY <1>6, WorkerDiesForward
<1>7. CASE Recovery
  BY <1>7, RecoverForward, IdleForward DEF Recovery
<1> QED BY <1>1, <1>2, <1>3, <1>4, <1>5, <1>6, <1>7 DEF Next

(* Every step, or none.                                                    *)
LEMMA StepForward == IInv /\ [Next]_vars => Forward
<1>1. IInv /\ UNCHANGED vars => Forward
  <2> SUFFICES ASSUME IInv, UNCHANGED vars PROVE Forward
    OBVIOUS
  <2>1. /\ disk' = disk /\ sent' = sent /\ acked' = acked /\ cur' = cur
        /\ pump' = pump /\ main' = main /\ main \in MainStates
    BY DEF vars, IInv
  <2>2. Concluded
    BY DEF vars, Concluded, Ending
  <2> QED BY <2>1, <2>2, StillForward
<1> QED BY <1>1, NextForward

(* In every reachable state the disk is sound, what was sent agrees with   *)
(* it, and the controller and the pump are where they may be.              *)
THEOREM InvariantHolds == Spec => []IInv
<1>1. IInv /\ [Next]_vars => IInv'
  BY StepForward DEF Forward
<1> QED BY <1>1, InitHolds, PTL DEF Spec

-----------------------------------------------------------------------------
(* The prompts leave in the order their messages were accepted in, and     *)
(* none leaves twice: what claimNextAcceptedMessage, markMessageInflight   *)
(* and the settlements keep in step across every fault and retry.          *)
THEOREM SentOnceInOrderHolds == Spec => []SentOnceInOrder
<1>1. IInv => SentOnceInOrder
  BY DEF IInv, Truthful, SentOnceInOrder
<1> QED BY <1>1, InvariantHolds, PTL

(* An idempotency key names one message, and so does a sequence number:    *)
(* sendWorkerMessage looks for the key in the lock it writes in.           *)
THEOREM OneMessagePerKeyHolds == Spec => []OneMessagePerKey
<1>1. IInv => OneMessagePerKey
  BY DEF IInv, Sound, Distinct, OneMessagePerKey
<1> QED BY <1>1, InvariantHolds, PTL

(* What is recorded of a message is what the provider did with it: what    *)
(* left is inflight or settled, a delivered message's turn was reported    *)
(* ended, and a checkpoint's outcome is the message's.                     *)
THEOREM OutcomesAreTrueHolds == Spec => []OutcomesAreTrue
<1>1. ASSUME IInv PROVE OutcomesAreTrue
  <2>1. disk \in Sound /\ Truthful(disk, sent, acked)
    BY <1>1 DEF IInv
  <2>2. \A i \in Range(sent) : disk.msgs[i].state \in {"inflight"} \cup TurnStates
    BY <2>1 DEF Truthful, Range, Is
  <2>3. \A i \in InState(disk, {"delivered"}) : i \in acked
    BY <2>1 DEF Truthful, InState, Is
  <2>4. \A n \in disk.noted : n[2] \in TurnStates \cup {"rejected"} => disk.msgs[n[1]].state = n[2]
    BY <2>1 DEF Sound, TrueNotes, FinalStates, TurnStates
  <2> QED BY <2>2, <2>3, <2>4 DEF OutcomesAreTrue
<1> QED BY <1>1, InvariantHolds, PTL

(* Nothing is handed to the provider after a turn whose outcome is not     *)
(* known: every message sent before another one was delivered.             *)
THEOREM NothingSentAfterUnknownHolds == Spec => []NothingSentAfterUnknown
<1>1. ASSUME IInv PROVE NothingSentAfterUnknown
  <2>1. \A n \in DOMAIN sent : n < Len(sent) => disk.msgs[sent[n]].state = "delivered"
    BY <1>1 DEF IInv, Truthful, Is
  <2>2. \A n, m \in DOMAIN sent : n < m => n < Len(sent)
    <3>1. sent \in Seq(Nat)
      BY <1>1 DEF IInv, Truthful
    <3> QED BY <3>1
  <2> QED BY <2>1, <2>2 DEF NothingSentAfterUnknown
<1> QED BY <1>1, InvariantHolds, PTL

(* A closed mailbox holds no message that waits, and no sender, pump or    *)
(* recovery ever changes one of it again.                                  *)
THEOREM ClosedMailboxIsSettledHolds == Spec => ClosedMailboxIsSettled
<1> DEFINE A == disk.att # NoAttempt /\ disk.att.state = "closed" =>
                  InState(disk, ActiveStates) = {} /\ disk'.msgs = disk.msgs
<1>1. ASSUME IInv, [Next]_vars PROVE A
  <2>1. Onward(disk, disk', Grants) /\ disk \in Sound
    BY <1>1, StepForward DEF Forward, IInv
  <2> QED BY <2>1 DEF Onward, Sound, Sealed, Shut, InState, Is
<1>2. IInv /\ [Next]_vars => [A]_vars
  BY <1>1
<1>3. []IInv /\ [][Next]_vars => [][A]_vars
  BY <1>2, PTL
<1> QED BY <1>3, InvariantHolds, PTL DEF Spec, ClosedMailboxIsSettled

(* Delivered, delivery_unknown and rejected are final: no step rewrites a  *)
(* message that has its outcome.                                           *)
THEOREM OutcomesAreFinalHolds == Spec => OutcomesAreFinal
<1> DEFINE A == \A i \in InState(disk, TurnStates \cup {"rejected"}) : disk'.msgs[i] = disk.msgs[i]
<1>1. ASSUME IInv, [Next]_vars PROVE A
  <2>1. Onward(disk, disk', Grants)
    BY <1>1, StepForward DEF Forward
  <2> QED BY <2>1 DEF Onward, Onto, InState, FinalStates, TurnStates
<1>2. IInv /\ [Next]_vars => [A]_vars
  BY <1>1
<1>3. []IInv /\ [][Next]_vars => [][A]_vars
  BY <1>2, PTL
<1> QED BY <1>3, InvariantHolds, PTL DEF Spec, OutcomesAreFinal

(* Whatever a fault leaves behind, recoverAttemptConsistency accepts it:   *)
(* an attempt is never refused with E_STATE.                               *)
THEOREM RecoveryNeverRefusesHolds == Spec => []RecoveryNeverRefuses
<1>1. IInv => RecoveryNeverRefuses
  BY CoherentIsConsistent DEF IInv, RecoveryNeverRefuses
<1> QED BY <1>1, InvariantHolds, PTL

(* Where processes die but no write fails, a terminal job has an outcome   *)
(* for every message: handleAcpProviderFailure and the settlement of a     *)
(* dead worker shut the mailbox before the job ends.                       *)
THEOREM EveryMessageAccountedHolds ==
  ASSUME ~IOErrors
  PROVE  Spec => []EveryMessageAccounted
<1>1. ASSUME IInv, job = "terminal" PROVE InState(disk, ActiveStates) = {}
  <2>1. disk \in Sound /\ Shut(disk.att)
    BY <1>1 DEF IInv, Finished, Ending
  <2> QED BY <2>1, ShutIsSettled
<1>2. IInv => EveryMessageAccounted
  BY <1>1 DEF EveryMessageAccounted
<1> QED BY <1>2, InvariantHolds, PTL

-----------------------------------------------------------------------------
(* WorkerMailbox implements AbstractMailbox.                               *)
Fate(m)  == IF m.state \in ActiveStates THEN "pending" ELSE m.state
Place(m) == IF m.state = "rejected" THEN 0 ELSE m.seq

(* What a message is to its sender.                                        *)
LEMMA FateIs ==
  ASSUME NEW d \in Sound, NEW i \in DOMAIN d.msgs, NEW k, d.msgs[i].key = k
  PROVE  FateOf(d, k) = Fate(d.msgs[i]) /\ PlaceOf(d, k) = Place(d.msgs[i])
<1>1. Distinct(d) /\ d.msgs[i].state \in States
  BY DiskFacts DEF Sound
<1>2. With(d, k) = {i}
  BY <1>1 DEF With, Distinct
<1>3. (CHOOSE j \in With(d, k) : TRUE) = i /\ With(d, k) # {}
  BY <1>2
<1>4. FateOf(d, k) = Fate(d.msgs[i])
  BY <1>3 DEF FateOf, Fate
<1>5. Fate(d.msgs[i]) # "none"
  BY <1>1 DEF Fate, States, ActiveStates, FinalStates, TurnStates
<1>6. Fate(d.msgs[i]) = "rejected" <=> d.msgs[i].state = "rejected"
  BY DEF Fate, ActiveStates
<1>7. PlaceOf(d, k) = IF Fate(d.msgs[i]) \in {"none", "rejected"} THEN 0 ELSE d.msgs[i].seq
  BY <1>3, <1>4 DEF PlaceOf
<1> QED BY <1>4, <1>5, <1>6, <1>7 DEF Place

(* A key that names no message.                                            *)
LEMMA FateNone ==
  ASSUME NEW d, NEW k, \A i \in DOMAIN d.msgs : d.msgs[i].key # k
  PROVE  FateOf(d, k) = "none" /\ PlaceOf(d, k) = 0
<1>1. With(d, k) = {}
  BY DEF With
<1> QED BY <1>1 DEF FateOf, PlaceOf

(* The fates and the places of all the keys.                               *)
LEMMA FateType ==
  ASSUME NEW d \in Sound, NEW k
  PROVE  /\ FateOf(d, k) \in {"none", "pending", "delivered", "delivery_unknown", "rejected"}
         /\ PlaceOf(d, k) \in Nat
<1>1. CASE \A i \in DOMAIN d.msgs : d.msgs[i].key # k
  BY <1>1, FateNone
<1>2. ASSUME NEW i \in DOMAIN d.msgs, d.msgs[i].key = k
      PROVE  /\ FateOf(d, k) \in {"pending", "delivered", "delivery_unknown", "rejected"}
             /\ PlaceOf(d, k) \in Nat
  <2>1. d.msgs[i].state \in States /\ d.msgs[i].seq \in Nat
    BY DiskFacts DEF Sound
  <2> QED BY <1>2, <2>1, FateIs DEF Fate, Place, States, ActiveStates, FinalStates, TurnStates
<1> QED BY <1>1, <1>2

(* A key that is pending names an active message.                          *)
LEMMA PendingIs ==
  ASSUME NEW d \in Sound, NEW k, FateOf(d, k) = "pending"
  PROVE  \E i \in DOMAIN d.msgs :
           /\ d.msgs[i].key = k /\ Is(d, i, ActiveStates) /\ PlaceOf(d, k) = d.msgs[i].seq
<1>1. PICK i \in DOMAIN d.msgs : d.msgs[i].key = k
  BY FateNone
<1>2. Is(d, i, ActiveStates)
  <2>1. d.msgs[i].state \in States /\ Fate(d.msgs[i]) = "pending"
    BY <1>1, FateIs, DiskFacts DEF Sound
  <2> QED BY <2>1 DEF Fate, Is, States, FinalStates, TurnStates
<1>3. PlaceOf(d, k) = d.msgs[i].seq
  BY <1>1, <1>2, FateIs DEF Place, Is, ActiveStates
<1> QED BY <1>1, <1>2, <1>3

Foremost(d, k) == \A j \in Keys : FateOf(d, j) = "pending" => PlaceOf(d, k) <= PlaceOf(d, j)

(* A message that is inflight, or lost, comes before all that wait.        *)
LEMMA InflightFirst ==
  ASSUME NEW d \in Sound, NEW i \in DOMAIN d.msgs, NEW k, d.msgs[i].key = k,
         Is(d, i, {"inflight", "delivery_unknown"})
  PROVE  Foremost(d, k)
<1>1. PlaceOf(d, k) = d.msgs[i].seq /\ d.msgs[i].seq \in Nat /\ Queued(d)
  BY FateIs, DiskFacts DEF Place, Is, Sound
<1>2. ASSUME NEW j \in Keys, FateOf(d, j) = "pending" PROVE PlaceOf(d, k) <= PlaceOf(d, j)
  <2>1. PICK n \in DOMAIN d.msgs : Is(d, n, ActiveStates) /\ PlaceOf(d, j) = d.msgs[n].seq
    BY <1>2, PendingIs
  <2>2. d.msgs[n].seq \in Nat
    BY DiskFacts DEF Sound
  <2>3. n = i \/ d.msgs[i].seq < d.msgs[n].seq
    BY <1>1, <2>1 DEF Queued, Is, ActiveStates, TurnStates
  <2> QED BY <1>1, <2>1, <2>2, <2>3
<1> QED BY <1>2 DEF Foremost

Handed(d, s) == {d.msgs[s[n]].key : n \in DOMAIN s}

(* The key of message i is among those of the messages sent only if i was  *)
(* sent.                                                                   *)
LEMMA SentIs ==
  ASSUME NEW d \in Sound, NEW s, NEW a, Truthful(d, s, a), NEW i \in DOMAIN d.msgs,
         d.msgs[i].key \in Handed(d, s)
  PROVE  Is(d, i, {"inflight"} \cup TurnStates)
<1>1. PICK n \in DOMAIN s : d.msgs[i].key = d.msgs[s[n]].key
  BY DEF Handed
<1>2. s[n] = i
  BY <1>1 DEF Truthful, Sound, Distinct
<1> QED BY <1>2 DEF Truthful

(* A transaction leaves the message of k alone, or does one of these.      *)
Kept(d, x, k)      == FateOf(x, k) = FateOf(d, k) /\ PlaceOf(x, k) = PlaceOf(d, k)
Declined(d, x, k)  == FateOf(d, k) = "none" /\ FateOf(x, k) = "rejected" /\ PlaceOf(x, k) = 0
Enqueued(d, x, k)  == /\ FateOf(d, k) = "none" /\ FateOf(x, k) = "pending"
                      /\ \A j \in Keys : PlaceOf(d, j) < PlaceOf(x, k)
Recalled(d, x, k, s) == /\ FateOf(d, k) = "pending" /\ k \notin Handed(d, s)
                        /\ FateOf(x, k) = "rejected" /\ PlaceOf(x, k) = 0
Reported(d, x, k, a) == /\ FateOf(d, k) = "pending" /\ Foremost(d, k)
                        /\ \E i \in a : d.msgs[i].key = k
                        /\ FateOf(x, k) = "delivered" /\ PlaceOf(x, k) = PlaceOf(d, k)
GivenUp(d, x, k)   == /\ FateOf(d, k) = "pending" /\ Foremost(d, k)
                      /\ FateOf(x, k) = "delivery_unknown" /\ PlaceOf(x, k) = PlaceOf(d, k)

(* What becomes of a message that was there.                               *)
LEMMA OldMessageMoves ==
  ASSUME NEW d \in Sound, NEW s, NEW a, Truthful(d, s, a), NEW x, Onward(d, x, Moves(d, a)),
         NEW i \in DOMAIN d.msgs, NEW k, d.msgs[i].key = k
  PROVE  Kept(d, x, k) \/ Recalled(d, x, k, s) \/ Reported(d, x, k, a) \/ GivenUp(d, x, k)
<1> DEFINE m == d.msgs[i]
           n == x.msgs[i]
<1>1. x \in Sound /\ i \in DOMAIN x.msgs /\ Onto(m, n) /\ Granted(d, x, Moves(d, a))
  BY DEF Onward
<1>2. Same(m, n) /\ n.key = k /\ m.state \in States /\ n.state \in States
  BY <1>1, DiskFacts DEF Onto, Same, Sound
<1>3. /\ FateOf(d, k) = Fate(m) /\ PlaceOf(d, k) = Place(m)
      /\ FateOf(x, k) = Fate(n) /\ PlaceOf(x, k) = Place(n)
  BY <1>1, <1>2, FateIs
<1>4. n.state \in TurnStates /\ m.state # n.state => <<i, n.state>> \in Moves(d, a)
  BY <1>1 DEF Granted
<1> HIDE DEF m, n
<1>5. CASE m.state \in FinalStates
  BY <1>1, <1>3, <1>5 DEF Onto, Kept
<1>6. CASE m.state \in ActiveStates /\ n.state \in ActiveStates
  BY <1>2, <1>3, <1>6 DEF Kept, Fate, Place, Same, ActiveStates
<1>7. CASE m.state \in ActiveStates /\ n.state = "rejected"
  <2>1. m.state # "inflight"
    BY <1>1, <1>7 DEF Onto, TurnStates
  <2>2. k \notin Handed(d, s)
    BY <1>7, <2>1, SentIs DEF Is, m, ActiveStates, TurnStates
  <2> QED BY <1>3, <1>7, <2>2 DEF Recalled, Fate, Place, ActiveStates
<1>8. CASE m.state \in ActiveStates /\ n.state \in TurnStates
  <2>1. m.state # n.state
    BY <1>8 DEF ActiveStates, TurnStates
  <2>2. /\ FateOf(d, k) = "pending" /\ FateOf(x, k) = n.state
        /\ PlaceOf(x, k) = PlaceOf(d, k)
    BY <1>2, <1>3, <1>8 DEF Fate, Place, Same, ActiveStates, TurnStates
  <2>3. CASE n.state = "delivered"
    <3>1. i \in a
      BY <1>4, <1>8, <2>1, <2>3, MovesAre
    <3>2. Is(d, i, {"inflight"} \cup TurnStates)
      BY <3>1 DEF Truthful
    <3>3. Foremost(d, k)
      BY <1>8, <3>2, InflightFirst DEF Is, m, ActiveStates, TurnStates
    <3> QED BY <2>2, <2>3, <3>1, <3>3 DEF Reported
  <2>4. CASE n.state = "delivery_unknown"
    <3>1. Is(d, i, {"inflight"})
      BY <1>4, <1>8, <2>1, <2>4, MovesAre DEF InState, Is
    <3>2. Foremost(d, k)
      BY <3>1, InflightFirst DEF Is
    <3> QED BY <2>2, <2>4, <3>2 DEF GivenUp
  <2> QED BY <1>8, <2>3, <2>4 DEF TurnStates
<1> QED BY <1>2, <1>5, <1>6, <1>7, <1>8 DEF States, FinalStates

(* What becomes of a key that named none.                                  *)
LEMMA NewMessageMoves ==
  ASSUME NEW d \in Sound, NEW s, NEW a, Truthful(d, s, a), NEW x, Onward(d, x, Moves(d, a)),
         NEW i \in DOMAIN x.msgs, i \notin DOMAIN d.msgs, NEW k, x.msgs[i].key = k
  PROVE  /\ i = Len(d.msgs) + 1
         /\ Declined(d, x, k) \/ Enqueued(d, x, k)
<1> DEFINE n == x.msgs[i]
<1>1. /\ x \in Sound /\ Granted(d, x, Moves(d, a)) /\ DOMAIN d.msgs \subseteq DOMAIN x.msgs
      /\ \A j \in DOMAIN d.msgs : Same(d.msgs[j], x.msgs[j])
  BY DEF Onward, Onto
<1>2. /\ n.state \in States /\ n.seq \in Nat /\ Distinct(x) /\ Numbered(x)
      /\ d \in Disks /\ Coherent(d)
  BY <1>1, DiskFacts DEF Sound
<1>3. i = Len(d.msgs) + 1
  BY <1>1, MovesAre DEF Granted
<1>4. n.state \notin TurnStates
  <2>1. n.state \in TurnStates => <<i, n.state>> \in Moves(d, a)
    BY <1>1 DEF Granted
  <2>2. i \notin a
    BY DEF Truthful
  <2>3. i \notin InState(d, {"inflight"})
    BY DEF InState
  <2> QED BY <2>1, <2>2, <2>3, MovesAre DEF TurnStates
<1>5. \A j \in DOMAIN d.msgs : d.msgs[j].key # k
  BY <1>1, <1>2 DEF Distinct, Same
<1>6. FateOf(d, k) = "none" /\ FateOf(x, k) = Fate(n) /\ PlaceOf(x, k) = Place(n)
  BY <1>1, <1>5, FateNone, FateIs
<1>7. CASE n.state = "rejected"
  BY <1>3, <1>6, <1>7 DEF Declined, Fate, Place, ActiveStates
<1>8. CASE n.state \in ActiveStates
  <2>1. n.seq > 0
    BY <1>2, <1>8 DEF Numbered, Is, ActiveStates
  <2>2. ASSUME NEW j \in DOMAIN d.msgs PROVE d.msgs[j].seq < n.seq
    <3> DEFINE c == Cardinality(Accepted(d))
    <3>1. d.att # NoAttempt
      BY <1>2 DEF Coherent
    <3>2. Counted(d) /\ c \in Nat /\ d.msgs[j].seq <= c /\ d.msgs[j].seq \in Nat
      BY <1>2, <3>1, Whole, NumbersEnd, AcceptedFacts, DiskFacts
    <3>3. n.seq \notin Seqs(d, Accepted(d))
      BY <1>1, <1>2, <2>1 DEF Seqs, Accepted, Distinct, Same
    <3>4. n.seq \notin 1..c
      BY <3>2, <3>3 DEF Counted
    <3> HIDE DEF c
    <3> QED BY <1>2, <2>1, <3>2, <3>4
  <2>3. ASSUME NEW j \in Keys PROVE PlaceOf(d, j) < n.seq
    <3>1. CASE \A l \in DOMAIN d.msgs : d.msgs[l].key # j
      BY <2>1, <3>1, FateNone
    <3>2. ASSUME NEW l \in DOMAIN d.msgs, d.msgs[l].key = j PROVE PlaceOf(d, j) < n.seq
      BY <2>1, <2>2, <3>2, FateIs DEF Place
    <3> QED BY <3>1, <3>2
  <2>4. FateOf(x, k) = "pending" /\ PlaceOf(x, k) = n.seq
    BY <1>6, <1>8 DEF Fate, Place, ActiveStates
  <2> HIDE DEF n
  <2> QED BY <1>3, <1>6, <2>3, <2>4 DEF Enqueued
<1> QED BY <1>2, <1>4, <1>7, <1>8 DEF States, FinalStates

(* Both.                                                                   *)
LEMMA MessageMoves ==
  ASSUME NEW d \in Sound, NEW s, NEW a, Truthful(d, s, a), NEW x, Onward(d, x, Moves(d, a)),
         NEW k
  PROVE  \/ Kept(d, x, k) \/ Declined(d, x, k) \/ Enqueued(d, x, k)
         \/ Recalled(d, x, k, s) \/ Reported(d, x, k, a) \/ GivenUp(d, x, k)
<1>1. x \in Sound /\ DOMAIN d.msgs \subseteq DOMAIN x.msgs
  BY DEF Onward
<1>2. ASSUME NEW i \in DOMAIN d.msgs, d.msgs[i].key = k
      PROVE  Kept(d, x, k) \/ Recalled(d, x, k, s) \/ Reported(d, x, k, a) \/ GivenUp(d, x, k)
  BY <1>2, OldMessageMoves
<1>3. ASSUME NEW i \in DOMAIN x.msgs, i \notin DOMAIN d.msgs, x.msgs[i].key = k
      PROVE  Declined(d, x, k) \/ Enqueued(d, x, k)
  BY <1>3, NewMessageMoves
<1>4. ASSUME \A i \in DOMAIN d.msgs : d.msgs[i].key # k, \A i \in DOMAIN x.msgs : x.msgs[i].key # k
      PROVE  Kept(d, x, k)
  BY <1>4, FateNone DEF Kept
<1>5. CASE \E i \in DOMAIN d.msgs : d.msgs[i].key = k
  BY <1>2, <1>5
<1>6. CASE /\ \A i \in DOMAIN d.msgs : d.msgs[i].key # k
           /\ \E i \in DOMAIN x.msgs : x.msgs[i].key = k
  <2>1. PICK i \in DOMAIN x.msgs : x.msgs[i].key = k
    BY <1>6
  <2>2. i \notin DOMAIN d.msgs
    BY <1>6, <2>1 DEF Onward, Onto, Same
  <2> QED BY <1>3, <2>1, <2>2
<1> QED BY <1>4, <1>5, <1>6

(* A transaction adds one message at the most.                             *)
LEMMA OneAdded ==
  ASSUME NEW d \in Sound, NEW s, NEW a, Truthful(d, s, a), NEW x, Onward(d, x, Moves(d, a)),
         NEW j, NEW k, FateOf(d, j) = "none", FateOf(x, j) # "none",
         FateOf(d, k) = "none", FateOf(x, k) # "none"
  PROVE  j = k
<1>1. ASSUME NEW l, FateOf(d, l) = "none", FateOf(x, l) # "none"
      PROVE  /\ Len(d.msgs) + 1 \in DOMAIN x.msgs
             /\ x.msgs[Len(d.msgs) + 1].key = l
  <2>1. PICK i \in DOMAIN x.msgs : x.msgs[i].key = l
    BY <1>1, FateNone
  <2>2. i \notin DOMAIN d.msgs
    <3>1. ASSUME i \in DOMAIN d.msgs PROVE FALSE
      <4>1. d.msgs[i].key = l /\ d.msgs[i].state \in States
        BY <2>1, <3>1, DiskFacts DEF Onward, Onto, Same, Sound
      <4>2. Fate(d.msgs[i]) = "none"
        BY <1>1, <3>1, <4>1, FateIs
      <4> QED BY <4>1, <4>2 DEF Fate, States, ActiveStates, FinalStates, TurnStates
    <3> QED BY <3>1
  <2>3. i = Len(d.msgs) + 1
    BY <2>1, <2>2, NewMessageMoves
  <2> QED BY <2>1, <2>3
<1> QED BY <1>1

(* One message at the most is lost.                                        *)
LEMMA OneLost ==
  ASSUME NEW d \in Sound, NEW j, NEW k,
         FateOf(d, j) = "delivery_unknown", FateOf(d, k) = "delivery_unknown"
  PROVE  j = k
<1>1. ASSUME NEW l, FateOf(d, l) = "delivery_unknown"
      PROVE  \E i \in UnknownOf(d) : d.msgs[i].key = l
  <2>1. PICK i \in DOMAIN d.msgs : d.msgs[i].key = l
    BY <1>1, FateNone
  <2>2. Fate(d.msgs[i]) = "delivery_unknown"
    BY <1>1, <2>1, FateIs
  <2> QED BY <2>1, <2>2 DEF Fate, UnknownOf, InState
<1>2. PICK i \in UnknownOf(d) : d.msgs[i].key = j
  BY <1>1
<1>3. PICK n \in UnknownOf(d) : d.msgs[n].key = k
  BY <1>1
<1>4. d.att # NoAttempt
  BY <1>2 DEF Sound, Coherent, UnknownOf, InState
<1>5. Chained(d)
  BY <1>4, Whole
<1> QED BY <1>2, <1>3, <1>5 DEF Chained

(* The abstract state, as functions of the disk and the two histories.     *)
AbsFate(d)    == [k \in Keys |-> FateOf(d, k)]
AbsPlace(d)   == [k \in Keys |-> PlaceOf(d, k)]
AbsSent(d, s) == [n \in DOMAIN s |-> d.msgs[s[n]].key]
AbsEnded(d, a) == {d.msgs[i].key : i \in a}

(* What was sent and reported keeps its keys.                              *)
LEMMA HistoryKept ==
  ASSUME NEW d \in Sound, NEW s, NEW a, Truthful(d, s, a), NEW x, Onward(d, x, Moves(d, a))
  PROVE  AbsSent(x, s) = AbsSent(d, s) /\ AbsEnded(x, a) = AbsEnded(d, a)
<1>1. \A i \in DOMAIN d.msgs : x.msgs[i].key = d.msgs[i].key
  BY DEF Onward, Onto, Same
<1>2. /\ \A n \in DOMAIN s : s[n] \in DOMAIN d.msgs
      /\ a \subseteq DOMAIN d.msgs
  BY DEF Truthful
<1> QED BY <1>1, <1>2 DEF AbsSent, AbsEnded

(* A transaction is a Transact of AbstractMailbox, or changes nothing      *)
(* there.                                                                  *)
LEMMA TransactMaps ==
  ASSUME IInv, IInv', Onward(disk, disk', Grants), sent' = sent, acked' = acked
  PROVE  [Mailbox!Next]_Mailbox!vars
<1>1. /\ disk \in Sound /\ Truthful(disk, sent, acked) /\ disk' \in Sound
      /\ Onward(disk, disk', Moves(disk, acked))
  BY DEF IInv, Grants
<1>2. /\ AbsSent(disk', sent') = AbsSent(disk, sent)
      /\ AbsEnded(disk', acked') = AbsEnded(disk, acked)
  BY <1>1, HistoryKept
<1>3. CASE disk.att.state = "closed"
  <2>1. disk'.att.state = "closed" /\ disk'.msgs = disk.msgs
    BY <1>1, <1>3 DEF Onward
  <2>2. AbsFate(disk') = AbsFate(disk) /\ AbsPlace(disk') = AbsPlace(disk)
    BY <2>1 DEF AbsFate, AbsPlace, FateOf, PlaceOf, With
  <2>3. UNCHANGED Mailbox!vars
    BY <1>2, <1>3, <2>1, <2>2 DEF Mailbox!vars, AbsFate, AbsPlace, AbsSent, AbsEnded
  <2> QED BY <2>3
<1>4. CASE disk.att.state # "closed"
  <2>1. /\ AbsFate(disk') \in [Keys -> Mailbox!Fates] /\ AbsPlace(disk') \in [Keys -> Nat]
    BY <1>1, FateType DEF AbsFate, AbsPlace, Mailbox!Fates
  <2>2. ASSUME NEW k \in Keys
        PROVE  \/ Mailbox!Stays(k) \/ Mailbox!Refused(k) \/ Mailbox!Accepted(k)
               \/ Mailbox!Withdrawn(k) \/ Mailbox!Delivered(k) \/ Mailbox!Lost(k)
    <3>1. \/ Kept(disk, disk', k) \/ Declined(disk, disk', k) \/ Enqueued(disk, disk', k)
          \/ Recalled(disk, disk', k, sent) \/ Reported(disk, disk', k, acked)
          \/ GivenUp(disk, disk', k)
      BY <1>1, MessageMoves
    <3>2. Kept(disk, disk', k) => Mailbox!Stays(k)
      BY DEF Kept, Mailbox!Stays, Mailbox!Becomes
    <3>3. Declined(disk, disk', k) => Mailbox!Refused(k)
      BY DEF Declined, Mailbox!Refused, Mailbox!Becomes
    <3>4. Enqueued(disk, disk', k) => Mailbox!Accepted(k)
      BY DEF Enqueued, Mailbox!Accepted
    <3>5. Recalled(disk, disk', k, sent) => Mailbox!Withdrawn(k)
      BY DEF Recalled, Mailbox!Withdrawn, Mailbox!Becomes, Mailbox!Prompted, Handed
    <3>6. Reported(disk, disk', k, acked) => Mailbox!Delivered(k)
      BY DEF Reported, Mailbox!Delivered, Mailbox!Becomes, Mailbox!First, Foremost
    <3>7. GivenUp(disk, disk', k) => Mailbox!Lost(k)
      BY DEF GivenUp, Mailbox!Lost, Mailbox!Becomes, Mailbox!First, Foremost
    <3> QED BY <3>1, <3>2, <3>3, <3>4, <3>5, <3>6, <3>7
  <2>3. \A j, k \in Mailbox!Added : j = k
    <3>1. ASSUME NEW k \in Mailbox!Added
          PROVE  FateOf(disk, k) = "none" /\ FateOf(disk', k) # "none"
      BY <3>1 DEF Mailbox!Added, Mailbox!Refused, Mailbox!Accepted, Mailbox!Becomes
    <3> QED BY <1>1, <3>1, OneAdded
  <2>4. \A j, k \in Mailbox!Unknown' : j = k
    <3>1. ASSUME NEW k \in Mailbox!Unknown' PROVE FateOf(disk', k) = "delivery_unknown"
      BY <3>1 DEF Mailbox!Unknown
    <3> QED BY <1>1, <3>1, OneLost
  <2>5. disk'.att.state = "closed" => \A k \in Keys : FateOf(disk', k) # "pending"
    <3>1. ASSUME disk'.att.state = "closed", NEW k \in Keys, FateOf(disk', k) = "pending"
          PROVE  FALSE
      <4>1. \E i \in DOMAIN disk'.msgs : Is(disk', i, ActiveStates)
        BY <1>1, <3>1, PendingIs
      <4> QED BY <1>1, <3>1, <4>1 DEF Sound, Sealed, Shut
    <3> QED BY <3>1
  <2>6. Mailbox!Transact
    BY <1>2, <1>4, <2>1, <2>2, <2>3, <2>4, <2>5
       DEF Mailbox!Transact, AbsFate, AbsPlace, AbsSent, AbsEnded
  <2> QED BY <2>6 DEF Mailbox!Next
<1> QED BY <1>3, <1>4

(* client.dispatchReserved is a Prompt: the message the pump reserved is   *)
(* the first of those that wait, or was lost while it was on its way.      *)
LEMMA PromptMaps == ASSUME IInv, PumpDispatches PROVE Mailbox!Next
<1> DEFINE k == disk.msgs[cur].key
<1>1. /\ disk \in Sound /\ Truthful(disk, sent, acked) /\ sent \in Seq(Nat)
      /\ cur \in DOMAIN disk.msgs /\ AllDelivered(disk, sent) /\ AllBefore(disk, sent, cur)
      /\ Is(disk, cur, {"inflight"} \cup TurnStates)
  BY DEF PumpDispatches, IInv, Held, Truthful
<1>2. disk' = disk /\ sent' = Append(sent, cur) /\ acked' = acked
  BY DEF PumpDispatches
<1>3. k \in Keys /\ \A i \in DOMAIN disk.msgs : disk.msgs[i].seq \in Nat
  BY <1>1, DiskFacts DEF Sound
<1>4. \A n \in DOMAIN sent : sent[n] \in DOMAIN disk.msgs /\ sent[n] # cur
  BY <1>1, <1>3 DEF Truthful, AllBefore
<1>5. k \notin Mailbox!Prompted
  <2>1. \A n \in DOMAIN sent : disk.msgs[sent[n]].key # k
    BY <1>1, <1>4 DEF Sound, Distinct
  <2> QED BY <2>1 DEF Mailbox!Prompted
<1>6. Is(disk, cur, {"inflight", "delivery_unknown"})
  <2>1. cur \notin acked
    BY <1>1, <1>4 DEF Truthful
  <2> QED BY <1>1, <2>1 DEF Truthful, Is, TurnStates
<1>7. FateOf(disk, k) \in {"pending", "delivery_unknown"}
  BY <1>1, <1>6, FateIs DEF Fate, Is, ActiveStates
<1>8. Mailbox!First(k)
  <2>1. Foremost(disk, k)
    BY <1>1, <1>6, InflightFirst
  <2> QED BY <1>3, <2>1 DEF Foremost, Mailbox!First
<1>9. Mailbox!Unknown \subseteq {k}
  <2>1. ASSUME NEW j \in Keys, FateOf(disk, j) = "delivery_unknown" PROVE j = k
    <3>1. CASE Is(disk, cur, {"delivery_unknown"})
      <4>1. FateOf(disk, k) = "delivery_unknown"
        BY <1>1, <3>1, FateIs DEF Fate, Is, ActiveStates
      <4> QED BY <1>1, <2>1, <4>1, OneLost
    <3>2. CASE Is(disk, cur, {"inflight"})
      <4>1. Pumped(disk) # {}
        BY <1>1, <3>2 DEF Pumped, InState, Is
      <4>2. UnknownOf(disk) = {}
        BY <1>1, <4>1, PumpedFacts
      <4>3. PICK i \in DOMAIN disk.msgs : disk.msgs[i].key = j
        BY <2>1, FateNone
      <4>4. disk.msgs[i].state = "delivery_unknown"
        BY <1>1, <2>1, <4>3, FateIs DEF Fate
      <4> QED BY <4>2, <4>4 DEF UnknownOf, InState
    <3> QED BY <1>6, <3>1, <3>2 DEF Is
  <2> QED BY <2>1 DEF Mailbox!Unknown
<1>10. ASSUME NEW n \in DOMAIN sent PROVE FateOf(disk, disk.msgs[sent[n]].key) = "delivered"
  BY <1>1, <1>4, FateIs DEF AllDelivered, Fate, Is, ActiveStates
<1>11. \A j \in Mailbox!Prompted : AbsFate(disk)[j] = "delivered"
  <2>1. ASSUME NEW n \in DOMAIN sent PROVE AbsFate(disk)[disk.msgs[sent[n]].key] = "delivered"
    <3>1. disk.msgs[sent[n]].key \in Keys
      BY <1>1, <1>4, DiskFacts DEF Sound
    <3> QED BY <1>10, <3>1 DEF AbsFate
  <2> QED BY <2>1 DEF Mailbox!Prompted
<1>12. AbsSent(disk', sent') = Append(AbsSent(disk, sent), k)
  <2>1. /\ Len(sent) \in Nat /\ DOMAIN sent = 1..Len(sent)
        /\ DOMAIN sent' = 1..(Len(sent) + 1) /\ sent'[Len(sent) + 1] = cur
        /\ \A n \in 1..Len(sent) : sent'[n] = sent[n]
    BY <1>1, <1>2
  <2>2. AbsSent(disk, sent) = [n \in 1..Len(sent) |-> disk.msgs[sent[n]].key]
    BY <2>1 DEF AbsSent
  <2>3. AbsSent(disk, sent) \in Seq(Keys)
    <3>1. \A n \in 1..Len(sent) : disk.msgs[sent[n]].key \in Keys
      BY <1>1, <1>4, <2>1, DiskFacts DEF Sound
    <3> QED BY <2>1, <2>2, <3>1, SeqDef
  <2>4. Len(AbsSent(disk, sent)) = Len(sent)
    BY <2>1, <2>2, <2>3, LenProperties
  <2>5. Append(AbsSent(disk, sent), k)
          = [n \in 1..(Len(sent) + 1) |-> IF n <= Len(sent) THEN AbsSent(disk, sent)[n] ELSE k]
    <3> DEFINE q == AbsSent(disk, sent)
    <3> HIDE DEF q, k
    <3>1. q \in Seq(Keys) /\ k \in Keys /\ Len(q) = Len(sent)
      BY <1>3, <2>3, <2>4 DEF q
    <3>2. /\ Append(q, k) \in Seq(Keys) /\ Len(Append(q, k)) = Len(q) + 1
          /\ \A n \in 1..Len(q) : Append(q, k)[n] = q[n]
          /\ Append(q, k)[Len(q) + 1] = k
      BY <3>1, AppendProperties
    <3>3. Append(q, k) \in [1..(Len(sent) + 1) -> Keys]
      BY <3>1, <3>2, LenProperties
    <3>4. ASSUME NEW n \in 1..(Len(sent) + 1)
          PROVE  Append(q, k)[n] = IF n <= Len(sent) THEN q[n] ELSE k
      BY <2>1, <3>1, <3>2, <3>4
    <3>5. Append(q, k)
            = [n \in 1..(Len(sent) + 1) |-> IF n <= Len(sent) THEN q[n] ELSE k]
      BY <3>1, <3>2, <3>3, <3>4
    <3> QED BY <3>5 DEF q
  <2>6. \A n \in 1..(Len(sent) + 1) :
          disk.msgs[sent'[n]].key = IF n <= Len(sent) THEN AbsSent(disk, sent)[n] ELSE k
    BY <2>1, <2>2
  <2> QED BY <1>2, <2>1, <2>5, <2>6 DEF AbsSent
<1>13. AbsFate(disk)[k] \in {"pending", "delivery_unknown"}
  BY <1>3, <1>7 DEF AbsFate
<1>14. PICK j \in Keys : j = k
  BY <1>3
<1> HIDE DEF k
<1>15. /\ j \notin Mailbox!Prompted /\ Mailbox!First(j) /\ Mailbox!Unknown \subseteq {j}
       /\ AbsFate(disk)[j] \in {"pending", "delivery_unknown"}
       /\ AbsSent(disk', sent') = Append(AbsSent(disk, sent), j)
  BY <1>5, <1>8, <1>9, <1>12, <1>13, <1>14
<1>16. Mailbox!Prompt(j)
  <2>1. [i \in Keys |-> FateOf(disk, i)][j] \in {"pending", "delivery_unknown"}
    BY <1>15 DEF AbsFate
  <2>2. \A i \in Mailbox!Prompted : [x \in Keys |-> FateOf(disk, x)][i] = "delivered"
    BY <1>11 DEF AbsFate
  <2>3. [n \in DOMAIN sent' |-> disk'.msgs[sent'[n]].key]
          = Append([n \in DOMAIN sent |-> disk.msgs[sent[n]].key], j)
    BY <1>15 DEF AbsSent
  <2>4. disk' = disk /\ acked' = acked
    BY <1>2
  <2> QED BY ONLY <1>15, <2>1, <2>2, <2>3, <2>4, Zenon DEF Mailbox!Prompt
<1> QED BY <1>16 DEF Mailbox!Next

(* The end of a turn is an EndTurn: it is that of the last prompt.         *)
LEMMA EndTurnMaps == ASSUME IInv, TurnEnds PROVE Mailbox!Next
<1>1. /\ disk \in Sound /\ sent \in Seq(Nat) /\ sent # <<>> /\ sent[Len(sent)] = cur
  BY DEF TurnEnds, IInv, Held, Truthful
<1>2. disk' = disk /\ sent' = sent /\ acked' = acked \cup {cur}
  BY DEF TurnEnds
<1> DEFINE q == AbsSent(disk, sent)
<1>3. /\ Len(sent) \in Nat \ {0} /\ DOMAIN sent = 1..Len(sent)
  BY <1>1, EmptySeq, LenProperties
<1>4. \A n \in 1..Len(sent) : disk.msgs[sent[n]].key \in Keys
  <2>1. \A n \in 1..Len(sent) : sent[n] \in DOMAIN disk.msgs
    BY <1>3 DEF IInv, Truthful
  <2> QED BY <1>1, <2>1, DiskFacts DEF Sound
<1>5. q = [n \in 1..Len(sent) |-> disk.msgs[sent[n]].key]
  BY <1>3 DEF AbsSent
<1>6. q \in Seq(Keys)
  BY <1>3, <1>4, <1>5, SeqDef
<1>7. Len(q) = Len(sent)
  BY <1>3, <1>5, <1>6, LenProperties
<1>8. q # <<>> /\ q[Len(q)] = disk.msgs[cur].key
  BY <1>1, <1>3, <1>5, <1>6, <1>7, EmptySeq
<1>9. AbsEnded(disk', acked') = AbsEnded(disk, acked) \cup {q[Len(q)]}
  BY <1>2, <1>8 DEF AbsEnded
<1>10. AbsSent(disk', sent') = q
  BY <1>2
<1>11. Mailbox!EndTurn
  BY <1>2, <1>8, <1>9, <1>10 DEF Mailbox!EndTurn, AbsEnded, AbsSent
<1> QED BY <1>11 DEF Mailbox!Next

(* The empty mailbox.                                                      *)
LEMMA InitMaps == Init => Mailbox!Init
<1> SUFFICES ASSUME Init PROVE Mailbox!Init
  OBVIOUS
<1>1. disk = NewDisk /\ sent = <<>> /\ acked = {}
  BY DEF Init
<1>2. \A k \in Keys : FateOf(disk, k) = "none" /\ PlaceOf(disk, k) = 0
  BY <1>1, FateNone DEF NewDisk
<1>3. disk.att.state # "closed"
  BY <1>1 DEF NewDisk, NoAttempt
<1>4. AbsSent(disk, sent) = <<>> /\ AbsEnded(disk, acked) = {}
  BY <1>1 DEF AbsSent, AbsEnded
<1> QED BY <1>2, <1>3, <1>4 DEF Mailbox!Init, AbsSent, AbsEnded

(* Every other step leaves the two histories alone.                        *)
LEMMA HistoryStands ==
  ASSUME [Next]_vars
  PROVE  PumpDispatches \/ TurnEnds \/ (sent' = sent /\ acked' = acked)
<1>1. CASE UNCHANGED vars
  BY <1>1 DEF vars
<1>2. CASE Next
  <2>1. CASE \E k \in Keys, size \in Sizes : Send(k, size)
    BY <2>1 DEF Send
  <2>2. CASE Cancel \/ ProviderFails \/ WorkerDies
    BY <2>2 DEF Cancel, ProviderFails, WorkerDies, WorkerGone
  <2>3. CASE Controller
    BY <2>3 DEF Controller, OpenMailbox, PrimaryEnds, RecordPrimaryTurn, DrainReturned,
       InterruptMailbox, SelectReport, SelectRepairedReport, RepairFails, FinishJob,
       Main, WorkerGone
  <2>4. CASE Pump
    <3>1. CASE PumpClaims \/ PumpReserves
      BY <3>1 DEF PumpClaims, PumpReserves, PumpTx, PumpAt, PumpReturns, PumpThrows,
         PumpLeaves, WorkerGone
    <3>2. CASE PumpSettlesUnsure \/ PumpSettlesUnknown \/ PumpClosesUnknown
      BY <3>2 DEF PumpSettlesUnsure, PumpSettlesUnknown, SettlesUnknown, PumpClosesUnknown,
         PumpTx, PumpAt, PumpReturns, PumpThrows, PumpLeaves, WorkerGone
    <3>3. CASE PumpSettlesDelivered \/ PumpTakesSettled \/ PumpThrowsOn \/ PumpGivesUp
      BY <3>3 DEF PumpSettlesDelivered, PumpTakesSettled, PumpThrowsOn, PumpGivesUp,
         SettlesUnknown, GoesOn, PumpTx, PumpAt, PumpThrows, PumpLeaves, WorkerGone
    <3>4. CASE PumpCannotReserve \/ PumpReadsAttempt
      BY <3>4 DEF PumpCannotReserve, PumpReadsAttempt, PumpAt
    <3> QED BY <2>4, <3>1, <3>2, <3>3, <3>4 DEF Pump
  <2>5. CASE Provider
    BY <2>5 DEF Provider, TurnFails
  <2>6. CASE Recovery
    BY <2>6 DEF Recovery, Recover, RecoveryFinishesJob
  <2> QED BY <1>2, <2>1, <2>2, <2>3, <2>4, <2>5, <2>6 DEF Next
<1> QED BY <1>1, <1>2

(* The mailbox keeps the promise of AbstractMailbox: whatever dies or      *)
(* fails, messages are handed over one at a time and in order, each once,  *)
(* and the outcome recorded of each is true, and final.                    *)
THEOREM ImplementsMailboxHolds == Spec => ImplementsMailbox
<1>1. ASSUME IInv, [Next]_vars PROVE [Mailbox!Next]_Mailbox!vars
  <2>1. Forward
    BY <1>1, StepForward
  <2>2. CASE PumpDispatches
    BY <1>1, <2>2, PromptMaps
  <2>3. CASE TurnEnds
    BY <1>1, <2>3, EndTurnMaps
  <2>4. CASE sent' = sent /\ acked' = acked
    BY <1>1, <2>1, <2>4, TransactMaps DEF Forward
  <2> QED BY <1>1, <2>2, <2>3, <2>4, HistoryStands
<1>2. IInv /\ [Next]_vars => [Mailbox!Next]_Mailbox!vars
  BY <1>1
<1>3. []IInv /\ [][Next]_vars => [][Mailbox!Next]_Mailbox!vars
  BY <1>2, PTL
<1> QED BY <1>3, InitMaps, InvariantHolds, PTL DEF Spec, ImplementsMailbox, Mailbox!Spec

=============================================================================
