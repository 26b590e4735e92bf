----------------------------- MODULE DataLemmas -----------------------------
(***************************************************************************)
(* What several of the proofs need to know of the data.                    *)
(*                                                                         *)
(* Of queues: what becomes of "the last message of this kind" when         *)
(* messages are added at the end and taken from the front.  The last       *)
(* command to set a dial decides where the dial will be, the last event on *)
(* its way what a cache will hold, the last phase what a panel will show.  *)
(* Kinds are sets of messages, so that the lemmas can be instantiated.     *)
(*                                                                         *)
(* Of numbers and loops: induction, and that a loop that makes its input   *)
(* smaller in every turn defines a function.                               *)
(***************************************************************************)
EXTENDS Naturals, Sequences, SequenceTheorems, FiniteSetTheorems,
        WellFoundedInduction, TLAPS

-----------------------------------------------------------------------------
(* Queues. *)

(* No message of the kind is in the queue. *)
NoneIn(queue, kind) == \A i \in DOMAIN queue : queue[i] \notin kind

(* If there is a message of the kind in the queue, the last one is good.   *)
LastIn(queue, kind, good) ==
  \A i \in DOMAIN queue :
    (queue[i] \in kind /\ \A j \in DOMAIN queue : j > i => queue[j] \notin kind)
      => queue[i] \in good

-----------------------------------------------------------------------------

(* An empty queue holds nothing. *)
LEMMA EmptyQueue ==
  ASSUME NEW kind, NEW good
  PROVE  NoneIn(<<>>, kind) /\ LastIn(<<>>, kind, good)
  BY DEF NoneIn, LastIn

(* Without a message of the kind there is no last one.                     *)
LEMMA NoneHasNoLast ==
  ASSUME NEW queue, NEW kind, NEW good, NoneIn(queue, kind)
  PROVE  LastIn(queue, kind, good)
  BY DEF NoneIn, LastIn

(* The elements of a queue that grew at its end. *)
LEMMA AppendElements ==
  ASSUME NEW S, NEW q \in Seq(S), NEW e \in S
  PROVE  /\ Append(q, e) \in Seq(S)
         /\ DOMAIN Append(q, e) = (DOMAIN q) \cup {Len(q) + 1}
         /\ Append(q, e)[Len(q) + 1] = e
         /\ \A i \in DOMAIN q : Append(q, e)[i] = q[i] /\ i < Len(q) + 1
  OBVIOUS

(* The elements of a queue that was taken from. *)
LEMMA TailElements ==
  ASSUME NEW S, NEW q \in Seq(S), q # <<>>
  PROVE  /\ Tail(q) \in Seq(S)
         /\ Head(q) \in S /\ Head(q) = q[1] /\ 1 \in DOMAIN q
         /\ \A i \in DOMAIN Tail(q) : i + 1 \in DOMAIN q /\ Tail(q)[i] = q[i + 1]
         /\ \A i \in DOMAIN q : i = 1 \/ (i - 1 \in DOMAIN Tail(q) /\ i \in Nat)
         /\ DOMAIN Tail(q) \subseteq Nat /\ DOMAIN q \subseteq Nat
  OBVIOUS

(* The elements of what is left when the end of a queue is lost.           *)
LEMMA PrefixElements ==
  ASSUME NEW S, NEW q \in Seq(S), NEW n \in 0 .. Len(q)
  PROVE  /\ SubSeq(q, 1, n) \in Seq(S)
         /\ \A i \in DOMAIN SubSeq(q, 1, n) : i \in DOMAIN q /\ SubSeq(q, 1, n)[i] = q[i]
         /\ DOMAIN SubSeq(q, 1, n) \subseteq Nat
  OBVIOUS

(* Adding one message, or none, by concatenation. *)
LEMMA ConcatOne ==
  ASSUME NEW S, NEW q \in Seq(S), NEW e \in S
  PROVE  /\ q \o <<>> = q
         /\ q \o <<e>> = Append(q, e)
  OBVIOUS

(* A queue with one put in front of it. *)
LEMMA PutInFront ==
  ASSUME NEW S, NEW q \in Seq(S), NEW e \in S
  PROVE  /\ <<e>> \o q \in Seq(S) /\ <<e>> \o q # <<>>
         /\ (<<e>> \o q)[1] = e /\ Tail(<<e>> \o q) = q
<1> DEFINE p == <<e>> \o q
<1>1. <<e>> \in Seq(S) /\ Len(<<e>>) = 1 /\ <<e>>[1] = e
  OBVIOUS
<1>2. /\ p \in Seq(S) /\ Len(p) = 1 + Len(q) /\ Len(q) \in Nat
      /\ \A i \in 1 .. 1 + Len(q) : p[i] = IF i <= 1 THEN e ELSE q[i - 1]
  BY <1>1, ConcatProperties, LenProperties
<1> HIDE DEF p
<1>3. p # <<>> /\ p[1] = e
  BY <1>2
<1>4. /\ Tail(p) \in Seq(S) /\ Len(Tail(p)) = Len(q)
      /\ \A i \in 1 .. Len(q) : Tail(p)[i] = p[i + 1]
  BY <1>2, <1>3, HeadTailProperties
<1>5. Tail(p) = q
  BY <1>2, <1>4, SeqEqual
<1> QED
  BY <1>2, <1>3, <1>5 DEF p

(* A message of the kind that is added is the last one.                    *)
LEMMA AppendOfKind ==
  ASSUME NEW S, NEW q \in Seq(S), NEW e \in S, NEW kind, NEW good,
         e \in kind, e \in good
  PROVE  LastIn(Append(q, e), kind, good)
  BY AppendElements DEF LastIn

(* A message of another kind makes no difference.                          *)
LEMMA AppendOfOther ==
  ASSUME NEW S, NEW q \in Seq(S), NEW e \in S, NEW kind, NEW good, e \notin kind
  PROVE  /\ LastIn(Append(q, e), kind, good) <=> LastIn(q, kind, good)
         /\ NoneIn(Append(q, e), kind) <=> NoneIn(q, kind)
<1>1. NoneIn(Append(q, e), kind) <=> NoneIn(q, kind)
  BY AppendElements DEF NoneIn
<1>2. ASSUME LastIn(Append(q, e), kind, good) PROVE LastIn(q, kind, good)
  BY <1>2, AppendElements DEF LastIn
<1>3. ASSUME LastIn(q, kind, good) PROVE LastIn(Append(q, e), kind, good)
  BY <1>3, AppendElements DEF LastIn
<1> QED
  BY <1>1, <1>2, <1>3

(* What is left has the same last message, or the one that was taken was   *)
(* the last.                                                               *)
LEMMA TailOfKind ==
  ASSUME NEW S, NEW q \in Seq(S), q # <<>>, NEW kind, NEW good
  PROVE  /\ LastIn(q, kind, good) => LastIn(Tail(q), kind, good)
         /\ NoneIn(q, kind) => NoneIn(Tail(q), kind)
         /\ Head(q) \notin kind /\ NoneIn(Tail(q), kind) => NoneIn(q, kind)
         /\ LastIn(q, kind, good) /\ NoneIn(Tail(q), kind) /\ Head(q) \in kind
              => Head(q) \in good
<1>1. NoneIn(q, kind) => NoneIn(Tail(q), kind)
  BY TailElements DEF NoneIn
<1>2. Head(q) \notin kind /\ NoneIn(Tail(q), kind) => NoneIn(q, kind)
  <2> SUFFICES ASSUME Head(q) \notin kind, NoneIn(Tail(q), kind), NEW i \in DOMAIN q
               PROVE  q[i] \notin kind
    BY DEF NoneIn
  <2>1. CASE i = 1
    BY <2>1, TailElements
  <2>2. CASE i # 1
    <3>1. i - 1 \in DOMAIN Tail(q) /\ Tail(q)[i - 1] = q[i]
      BY <2>2, TailElements
    <3> QED
      BY <3>1 DEF NoneIn
  <2> QED
    BY <2>1, <2>2
<1>3. LastIn(q, kind, good) => LastIn(Tail(q), kind, good)
  <2> SUFFICES ASSUME LastIn(q, kind, good), NEW i \in DOMAIN Tail(q),
                      Tail(q)[i] \in kind,
                      \A j \in DOMAIN Tail(q) : j > i => Tail(q)[j] \notin kind
               PROVE  Tail(q)[i] \in good
    BY DEF LastIn
  <2>1. i + 1 \in DOMAIN q /\ q[i + 1] = Tail(q)[i] /\ i \in Nat
    BY TailElements
  <2>2. ASSUME NEW j \in DOMAIN q, j > i + 1 PROVE q[j] \notin kind
    <3>1. j - 1 \in DOMAIN Tail(q) /\ Tail(q)[j - 1] = q[j] /\ j - 1 > i
      BY <2>1, <2>2, TailElements
    <3> QED
      BY <3>1
  <2> QED
    BY <2>1, <2>2 DEF LastIn
<1>4. LastIn(q, kind, good) /\ NoneIn(Tail(q), kind) /\ Head(q) \in kind
        => Head(q) \in good
  <2> SUFFICES ASSUME LastIn(q, kind, good), NoneIn(Tail(q), kind), Head(q) \in kind
               PROVE  Head(q) \in good
    OBVIOUS
  <2>1. ASSUME NEW j \in DOMAIN q, j > 1 PROVE q[j] \notin kind
    <3>1. j - 1 \in DOMAIN Tail(q) /\ Tail(q)[j - 1] = q[j]
      BY <2>1, TailElements
    <3> QED
      BY <3>1 DEF NoneIn
  <2> QED
    BY <2>1, TailElements DEF LastIn
<1> QED
  BY <1>1, <1>2, <1>3, <1>4

(* Several messages are added, the last of them of the kind.               *)
LEMMA ConcatOfKind ==
  ASSUME NEW S, NEW q \in Seq(S), NEW r \in Seq(S), r # <<>>, NEW kind, NEW good,
         r[Len(r)] \in kind, r[Len(r)] \in good
  PROVE  LastIn(q \o r, kind, good) /\ ~NoneIn(q \o r, kind)
<1> DEFINE p == q \o r
           n == Len(q) + Len(r)
<1>1. Len(q) \in Nat /\ Len(r) \in Nat \ {0}
  BY LenProperties, EmptySeq
<1>2. p \in Seq(S) /\ Len(p) = n /\ DOMAIN p = 1 .. n /\ p[n] = r[Len(r)]
  BY <1>1, ConcatProperties, LenProperties
<1> HIDE DEF p
<1>3. n \in DOMAIN p /\ \A i \in DOMAIN p : i = n \/ n > i
  BY <1>1, <1>2
<1> HIDE DEF n
<1>4. LastIn(p, kind, good)
  BY <1>2, <1>3 DEF LastIn
<1> QED
  BY <1>2, <1>3, <1>4 DEF NoneIn, p

(* Messages of another kind make no difference. *)
LEMMA ConcatOfOther ==
  ASSUME NEW S, NEW q \in Seq(S), NEW r \in Seq(S), NEW kind, NEW good,
         NoneIn(r, kind)
  PROVE  /\ LastIn(q, kind, good) => LastIn(q \o r, kind, good)
         /\ NoneIn(q \o r, kind) => NoneIn(q, kind)
<1> DEFINE p == q \o r
<1>1. /\ Len(q) \in Nat /\ Len(r) \in Nat
      /\ DOMAIN q = 1 .. Len(q) /\ DOMAIN r = 1 .. Len(r)
  BY LenProperties
<1>2. /\ p \in Seq(S) /\ Len(p) = Len(q) + Len(r) /\ DOMAIN p = 1 .. Len(p)
      /\ \A i \in 1 .. Len(q) + Len(r) :
           p[i] = IF i <= Len(q) THEN q[i] ELSE r[i - Len(q)]
  BY ConcatProperties, LenProperties
<1> HIDE DEF p
<1>3. \A i \in DOMAIN q : i \in DOMAIN p /\ p[i] = q[i]
  BY <1>1, <1>2
<1>4. \A i \in DOMAIN p : i \in DOMAIN q \/ p[i] \notin kind
  <2> SUFFICES ASSUME NEW i \in DOMAIN p, i \notin DOMAIN q PROVE p[i] \notin kind
    OBVIOUS
  <2>1. i - Len(q) \in DOMAIN r /\ p[i] = r[i - Len(q)]
    BY <1>1, <1>2
  <2> QED
    BY <2>1 DEF NoneIn
<1>5. LastIn(q, kind, good) => LastIn(p, kind, good)
  BY <1>3, <1>4 DEF LastIn
<1>6. NoneIn(p, kind) => NoneIn(q, kind)
  BY <1>3 DEF NoneIn
<1> QED
  BY <1>5, <1>6 DEF p

-----------------------------------------------------------------------------
(* Induction.  The library states it for operators; here it is for sets,   *)
(* from the theorem that a well-founded relation has minimal elements.     *)

(* The order on which the induction goes. *)
Smaller == {pair \in Nat \X Nat : pair[1] < pair[2]}

(* Every set of numbers has a least one.                                   *)
LEMMA LeastNumber ==
  ASSUME NEW T \in SUBSET Nat, T # {}
  PROVE  \E x \in T : \A y \in T : x <= y
<1>1. IsWellFoundedOn(Smaller, Nat)
  BY NatLessThanWellFounded DEF OpToRel, Smaller
<1>2. PICK x \in T : \A y \in T : ~ (<<y, x>> \in Smaller)
  BY <1>1, WFMin
<1>3. ASSUME NEW y \in T PROVE x <= y
  <2>1. ~ (y < x)
    BY <1>2 DEF Smaller
  <2> QED BY <2>1
<1> QED BY <1>3

(* What holds of 0, and of n + 1 if it holds of n, holds of every number.  *)
LEMMA Induction ==
  ASSUME NEW P \in SUBSET Nat, 0 \in P, \A n \in P : n + 1 \in P
  PROVE  P = Nat
<1> SUFFICES ASSUME Nat \ P # {} PROVE FALSE
  OBVIOUS
<1>1. PICK x \in Nat \ P : \A y \in Nat \ P : x <= y
  BY LeastNumber
<1>2. x # 0 /\ x - 1 \in P
  BY <1>1
<1> QED BY <1>1, <1>2

(* What holds of s if it holds of everything smaller, holds of everything. *)
LEMMA InductionOnSize ==
  ASSUME NEW S, NEW size \in [S -> Nat], NEW P \in SUBSET S,
         \A s \in S : (\A r \in S : size[r] < size[s] => r \in P) => s \in P
  PROVE  P = S
<1> SUFFICES ASSUME S \ P # {} PROVE FALSE
  OBVIOUS
<1> DEFINE sizes == {size[s] : s \in S \ P}
<1>1. PICK n \in sizes : \A m \in sizes : n <= m
  <2>1. sizes \in SUBSET Nat /\ sizes # {}
    OBVIOUS
  <2> QED BY <2>1, LeastNumber
<1>2. PICK s \in S \ P : size[s] = n
  OBVIOUS
<1>3. ASSUME NEW r \in S, size[r] < size[s] PROVE r \in P
  <2> SUFFICES ASSUME r \notin P PROVE FALSE
    OBVIOUS
  <2>1. size[r] \in sizes /\ size[r] \in Nat /\ size[s] \in Nat
    OBVIOUS
  <2>2. size[s] <= size[r]
    BY <1>1, <1>2, <2>1
  <2> QED BY <1>3, <2>1, <2>2
<1> QED BY <1>2, <1>3

-----------------------------------------------------------------------------
(* A loop that makes its input smaller in every turn defines a function.   *)

(* What f gives for s in one turn of a loop: base where the loop stops,    *)
(* else a step from what f gives for the next input.                       *)
Turn(f, stop, base, step, next, s) ==
  IF s \in stop THEN base[s] ELSE step[<<s, f[next[s]]>>]

(* A loop over S with results in V whose inputs shrink until it stops.     *)
IsLoop(S, V, size, stop, base, next, step) ==
  /\ size \in [S -> Nat] /\ stop \in SUBSET S /\ base \in [S -> V]
  /\ next \in [S -> S] /\ step \in [S \X V -> V]
  /\ \A s \in S \ stop : size[next[s]] < size[s]

(* Such a loop defines a function on S. *)
LEMMA LoopFunction ==
  ASSUME NEW S, NEW V, NEW size, NEW stop, NEW base, NEW next, NEW step,
         IsLoop(S, V, size, stop, base, next, step)
  PROVE  \E f \in [S -> V] : \A s \in S : f[s] = Turn(f, stop, base, step, next, s)
<1>0. /\ size \in [S -> Nat] /\ stop \in SUBSET S /\ base \in [S -> V]
      /\ next \in [S -> S] /\ step \in [S \X V -> V]
      /\ \A s \in S \ stop : size[next[s]] < size[s]
  BY DEF IsLoop
<1> USE <1>0
<1> DEFINE upto(n) == {s \in S : size[s] <= n}
           good(f, n) == \A s \in upto(n) : f[s] = Turn(f, stop, base, step, next, s)
(* There is a function that is right about everything up to a size.        *)
<1>1. \A n \in Nat : \E f \in [S -> V] : good(f, n)
  <2> DEFINE P == {n \in Nat : \E f \in [S -> V] : good(f, n)}
  <2>1. 0 \in P
    <3>1. good(base, 0)
      BY DEF Turn
    <3> QED BY <3>1
  <2>2. ASSUME NEW n \in P PROVE n + 1 \in P
    <3>1. PICK f \in [S -> V] : good(f, n)
      OBVIOUS
    <3> DEFINE g == [s \in S |-> Turn(f, stop, base, step, next, s)]
    <3>2. g \in [S -> V]
      BY DEF Turn
    <3>3. ASSUME NEW s \in upto(n + 1)
          PROVE  g[s] = Turn(g, stop, base, step, next, s)
      <4>1. CASE s \in stop
        BY <4>1 DEF Turn
      <4>2. CASE s \notin stop
        <5>1. next[s] \in upto(n)
          BY <4>2
        <5>2. f[next[s]] = g[next[s]]
          BY <3>1, <5>1
        <5> QED BY <4>2, <5>2 DEF Turn
      <4> QED BY <4>1, <4>2
    <3>4. good(g, n + 1)
      BY <3>3
    <3> HIDE DEF g
    <3> QED BY <3>2, <3>4
  <2>3. P = Nat
    <3> HIDE DEF P
    <3> QED BY <2>1, <2>2, Induction DEF P
  <2> QED BY <2>3
(* Two that are, agree.                                                    *)
<1>2. ASSUME NEW f \in [S -> V], NEW g \in [S -> V], NEW n \in Nat,
             good(f, n), good(g, n)
      PROVE  \A s \in upto(n) : f[s] = g[s]
  <2> DEFINE P == {s \in S : s \in upto(n) => f[s] = g[s]}
  <2>1. ASSUME NEW s \in S, \A r \in S : size[r] < size[s] => r \in P
        PROVE  s \in P
    <3> SUFFICES ASSUME s \in upto(n) PROVE f[s] = g[s]
      OBVIOUS
    <3>1. CASE s \in stop
      BY <1>2, <3>1 DEF Turn
    <3>2. CASE s \notin stop
      <4>1. next[s] \in upto(n) /\ next[s] \in P
        BY <2>1, <3>2
      <4>2. f[next[s]] = g[next[s]]
        BY <4>1
      <4> QED BY <1>2, <3>2, <4>2 DEF Turn
    <3> QED BY <3>1, <3>2
  <2>2. P \in SUBSET S
    OBVIOUS
  <2>3. P = S
    <3> HIDE DEF P
    <3> QED BY <2>1, <2>2, InductionOnSize
  <2> QED BY <2>3
(* So the values at each size make one function.                           *)
<1>3. PICK some \in [Nat -> [S -> V]] : \A n \in Nat : good(some[n], n)
  <2> DEFINE some == [n \in Nat |-> CHOOSE f \in [S -> V] : good(f, n)]
  <2>1. \A n \in Nat : some[n] \in [S -> V] /\ good(some[n], n)
    BY <1>1
  <2> QED BY <2>1
<1> DEFINE F == [s \in S |-> some[size[s]][s]]
<1>4. F \in [S -> V]
  OBVIOUS
<1>5. ASSUME NEW s \in S PROVE F[s] = Turn(F, stop, base, step, next, s)
  <2>1. some[size[s]][s] = Turn(some[size[s]], stop, base, step, next, s)
    BY <1>3
  <2>2. CASE s \in stop
    BY <2>1, <2>2 DEF Turn
  <2>3. CASE s \notin stop
    <3> DEFINE r == next[s]
    <3>1. size[r] < size[s] /\ size[r] \in Nat /\ size[s] \in Nat /\ r \in S
      BY <2>3
    <3>2. good(some[size[s]], size[r])
      BY <1>3, <3>1
    <3>3. /\ some[size[s]] \in [S -> V] /\ some[size[r]] \in [S -> V]
          /\ good(some[size[r]], size[r]) /\ r \in upto(size[r])
      BY <1>3, <3>1
    <3>4. some[size[s]][r] = some[size[r]][r]
      <4> HIDE DEF good, upto, r
      <4> QED BY <1>2, <3>1, <3>2, <3>3
    <3> QED BY <2>1, <2>3, <3>1, <3>4 DEF Turn
  <2> QED BY <2>2, <2>3
<1> QED BY <1>4, <1>5
=============================================================================
