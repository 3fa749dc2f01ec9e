---------------------------- MODULE CalloutProofs ----------------------------
(***************************************************************************)
(* What holds of the callout queue, for any number of slots, any functions *)
(* and any intervals: the differences it keeps add up to the moments the   *)
(* callers asked for, and softclock calls every function on time.          *)
(*                                                                         *)
(* The queue is a list of differences, and the model adds them up with a   *)
(* fold. What a fold returns is found by induction over the positions of   *)
(* the list (FoldExists, FoldInduction); no fold is needed after WaitIs,   *)
(* which says that in a queue that is exact the sum up to an entry is the  *)
(* time left to that entry, if it is not late.                             *)
(*                                                                         *)
(* QueueOK is what every operation keeps: the time left to an entry is the *)
(* time left to the entry before it and its own difference, an entry that  *)
(* is late holds its lateness (Exact), and the entries that are late stand *)
(* in front, the latest first (Shape). Shape is what makes Exact           *)
(* inductive: hardclock counts down the entries up to the first that is    *)
(* not due, and untimeout passes on a time only if it is still to come.    *)
(*                                                                         *)
(* The lemmas follow the operations: EnqueueKeeps, DequeueKeeps, TickKeeps *)
(* and TakeKeeps.                                                          *)
(***************************************************************************)
EXTENDS Callout, FoldLemmas, SequenceTheorems, TLAPS

------------------------------------------------------------------------------
(* The queue. *)

\* The ticks still to come of n, and those until entry i is due.
Pos(n) == IF n > 0 THEN n ELSE 0
Till(q, i) == IF i = 0 THEN 0 ELSE Pos(q[i].left)

\* The differences add up, and what is late holds its lateness.
Exact(q) ==
    \A i \in DOMAIN q :
       /\ Pos(q[i].left) = Till(q, i - 1) + Pos(q[i].time)
       /\ q[i].left <= 0 => q[i].left = q[i].time

\* Late entries stand in front, the latest first.
Shape(q) == \A i, j \in DOMAIN q : i < j => q[j].time >= 0 \/ q[i].time <= q[j].time

QueueOK(q) == q \in Seq(Entry) /\ Exact(q) /\ Shape(q)

\* A set of natural numbers has a least one.
LEMMA Least ==
    ASSUME NEW X \in SUBSET Nat, X # {}
    PROVE  \E n \in X : \A m \in X : n <= m
<1>1. PICK n \in X : \A m \in X : ~(<<m, n>> \in OpToRel(<, Nat))
  BY NatLessThanWellFounded, WFMin
<1>2. \A m \in X : m < n => <<m, n>> \in OpToRel(<, Nat)
  BY DEF OpToRel
<1>3. \A m \in X : m \in Nat /\ ~(m < n)
  BY <1>1, <1>2
<1>4. \A m \in X : n <= m
  BY <1>3
<1> QED BY <1>4

\* The fields of an entry.
LEMMA Fields ==
    ASSUME NEW q \in Seq(Entry)
    PROVE  /\ Len(q) \in Nat /\ DOMAIN q = 1 .. Len(q)
           /\ \A i \in 1 .. Len(q) : /\ q[i] \in Entry /\ q[i].ev \in Events
                                     /\ q[i].time \in Int /\ q[i].left \in Int
           /\ \A i \in 0 .. Len(q) : Till(q, i) \in Nat
<1>1. \A i \in 1 .. Len(q) : q[i] \in Entry
  OBVIOUS
<1>2. \A i \in 1 .. Len(q) : q[i].ev \in Events /\ q[i].time \in Int /\ q[i].left \in Int
  BY <1>1 DEF Entry
<1>3. \A i \in 0 .. Len(q) : i = 0 \/ i \in 1 .. Len(q)
  OBVIOUS
<1>4. \A i \in 0 .. Len(q) : Till(q, i) \in Nat
  BY <1>2, <1>3 DEF Till, Pos
<1> QED BY <1>1, <1>2, <1>4

\* The fold of the model: the times to come up to entry i add up to the time
\* left to it.
LEMMA WaitIs ==
    ASSUME NEW q, QueueOK(q), NEW i \in 0 .. Len(q)
    PROVE  Wait(q, i) = Till(q, i)
<1>0. q \in Seq(Entry) /\ Exact(q)
  BY DEF QueueOK
<1> DEFINE S == 1 .. i
           Body(g, s) == g[s \ {Max(s)}] + (IF SubSeq(q, 1, i)[Max(s)].time > 0
                                           THEN SubSeq(q, 1, i)[Max(s)].time ELSE 0)
           iter == CHOOSE g : g = [s \in SUBSET S |-> IF s = {} THEN 0 ELSE Body(g, s)]
           F == [x \in S \X Int |-> x[2] + Pos(q[x[1]].time)]
<1>1. DOMAIN SubSeq(q, 1, i) = S /\ \A j \in S : SubSeq(q, 1, i)[j] = q[j]
  BY <1>0, Fields
<1>2. Wait(q, i) = iter[S]
  BY <1>1 DEF Wait, FoldLeft, MapThenFoldSet
<1>3. \A j \in S : q[j].time \in Int /\ q[j].left \in Int
  BY <1>0, Fields
<1>4. S \in SUBSET Int /\ IsFiniteSet(S) /\ F \in [S \X Int -> Int] /\ 0 \in Int
  <2>1. \A j \in S : Pos(q[j].time) \in Int
    BY <1>3 DEF Pos
  <2>2. \A x \in S \X Int : x[2] + Pos(q[x[1]].time) \in Int
    BY <2>1
  <2> QED BY <2>2, FS_Interval
<1>5. \A s \in SUBSET S : s # {} => Max(s) \in s
  BY <1>4, FS_Subset, MaxIn
<1> HIDE DEF F
<1>6. PICK W \in [SUBSET S -> Int] :
         \A s \in SUBSET S : W[s] = IF s = {} THEN 0 ELSE F[<<Max(s), W[s \ {Max(s)}]>>]
  <2> HIDE DEF S
  <2>1. PICK W : IsFold(W, S, Int, 0, F)
    BY <1>4, FoldExists
  <2> QED BY <2>1 DEF IsFold
<1>7. \A s \in SUBSET S, v \in Int : s # {} =>
         F[<<Max(s), v>>] = v + Pos(q[Max(s)].time)
  BY <1>5 DEF F
<1>8. W = [s \in SUBSET S |-> IF s = {} THEN 0 ELSE Body(W, s)]
  <2> SUFFICES ASSUME NEW s \in SUBSET S
               PROVE  W[s] = IF s = {} THEN 0 ELSE Body(W, s)
    OBVIOUS
  <2>1. s # {} => /\ W[s \ {Max(s)}] \in Int
                  /\ SubSeq(q, 1, i)[Max(s)] = q[Max(s)]
    BY <1>1, <1>5
  <2> QED BY <1>6, <1>7, <2>1 DEF Pos
<1>9. iter = [s \in SUBSET S |-> IF s = {} THEN 0 ELSE Body(iter, s)]
  BY <1>8
<1> HIDE DEF iter
<1> DEFINE G == {x \in (SUBSET S) \X Int : \A k \in 0 .. i : x[1] = 1 .. k => x[2] = Till(q, k)}
<1>10. <<{}, iter[{}]>> \in G
  <2>1. iter[{}] = 0
    BY <1>9
  <2>2. \A k \in 0 .. i : {} = 1 .. k => k = 0
    OBVIOUS
  <2>3. \A k \in 0 .. i : {} = 1 .. k => 0 = Till(q, k)
    BY <2>2 DEF Till
  <2>4. {} \in SUBSET S /\ 0 \in Int
    OBVIOUS
  <2> QED BY <2>1, <2>3, <2>4
<1>11. ASSUME NEW s \in SUBSET S, s # {}, <<s \ {Max(s)}, iter[s \ {Max(s)}]>> \in G
       PROVE  <<s, iter[s]>> \in G
  <2>1. Max(s) \in s /\ iter[s \ {Max(s)}] \in Int
    BY <1>5, <1>11
  <2>2. iter[s] = iter[s \ {Max(s)}] + Pos(q[Max(s)].time)
    BY <1>1, <1>9, <1>11, <2>1 DEF Pos
  <2>3. iter[s] \in Int
    <3>1. Max(s) \in S
      BY <2>1
    <3>2. Pos(q[Max(s)].time) \in Int
      BY <1>3, <3>1 DEF Pos
    <3> QED BY <2>1, <2>2, <3>2
  <2>4. ASSUME NEW k \in 0 .. i, s = 1 .. k
        PROVE  iter[s] = Till(q, k)
    <3>1. k \in 1 .. i
      BY <1>11, <2>4
    <3>2. Max(s) = k
      <4>1. k \in s /\ s \in SUBSET Int /\ \A y \in s : k >= y
        BY <2>4, <3>1
      <4> QED BY <4>1, MaxIs
    <3>3. s \ {k} = 1 .. k - 1 /\ k - 1 \in 0 .. i
      BY <2>4, <3>1
    <3>4. iter[s \ {k}] = Till(q, k - 1)
      BY <1>11, <3>2, <3>3
    <3>5. Pos(q[k].left) = Till(q, k - 1) + Pos(q[k].time)
      BY <1>0, <3>1, Fields DEF Exact
    <3> QED BY <2>2, <3>1, <3>2, <3>4, <3>5 DEF Till
  <2> QED BY <2>3, <2>4
<1> HIDE DEF G
<1>12. \A s \in SUBSET S : <<s, iter[s]>> \in G
  BY <1>4, <1>10, <1>11, FoldInduction
<1>13. iter[S] = Till(q, i)
  <2>1. <<S, iter[S]>> \in G /\ i \in 0 .. i
    BY <1>12
  <2> QED BY <2>1 DEF G
<1> QED BY <1>2, <1>13

\* From an entry to the next.
LEMMA TillStep ==
    ASSUME NEW q, QueueOK(q), NEW i \in 1 .. Len(q)
    PROVE  /\ i - 1 \in 0 .. Len(q) /\ Till(q, i - 1) \in Nat /\ Till(q, i) \in Nat
           /\ Till(q, i) = Till(q, i - 1) + Pos(q[i].time)
           /\ Till(q, i) = Pos(q[i].left)
           /\ q[i].time \in Int /\ q[i].left \in Int
           /\ q[i].left <= 0 => q[i].left = q[i].time
BY Fields DEF QueueOK, Exact, Till

\* The time left grows along the queue, except past entries with no time.
LEMMA TillGrows ==
    ASSUME NEW q, QueueOK(q), NEW i \in 0 .. Len(q), NEW j \in i .. Len(q)
    PROVE  /\ Till(q, i) <= Till(q, j)
           /\ (\A l \in i + 1 .. j : q[l].time <= 0) => Till(q, i) = Till(q, j)
<1> DEFINE Good(k) == /\ Till(q, i) <= Till(q, k)
                      /\ (\A l \in i + 1 .. k : q[l].time <= 0) => Till(q, i) = Till(q, k)
           X == {k \in i .. j : ~Good(k)}
<1>0. Len(q) \in Nat /\ Till(q, i) \in Nat
  BY Fields DEF QueueOK
<1>1. ASSUME X # {}
      PROVE  FALSE
  <2>1. PICK k \in X : \A m \in X : k <= m
    <3>1. X \in SUBSET Nat
      BY <1>0
    <3> HIDE DEF X
    <3> QED BY <1>1, <3>1, Least
  <2>2. k # i
    BY <1>0, <2>1
  <2>3. k \in 1 .. Len(q) /\ k - 1 \in i .. j /\ k - 1 < k
    BY <1>0, <2>1, <2>2
  <2>4. Good(k - 1)
    BY <2>1, <2>3
  <2>5. Till(q, k) = Till(q, k - 1) + Pos(q[k].time) /\ q[k].time \in Int
        /\ Till(q, k - 1) \in Nat
    BY <2>3, TillStep
  <2>6. k \in i + 1 .. k /\ \A l \in i + 1 .. k - 1 : l \in i + 1 .. k
    BY <1>0, <2>2, <2>3
  <2>7. Good(k)
    BY <1>0, <2>4, <2>5, <2>6 DEF Pos
  <2> QED BY <2>1, <2>7
<1>2. j \notin X /\ j \in i .. j
  BY <1>0, <1>1
<1> QED BY <1>2

\* The front of the queue, the entries that are due.
LEMMA FrontIsDue ==
    ASSUME NEW q, QueueOK(q), NEW i \in 0 .. Len(q)
    PROVE  Till(q, i) = 0 <=> \A j \in 1 .. i : q[j].time <= 0
<1>0. Len(q) \in Nat /\ Till(q, 0) = 0 /\ Till(q, i) \in Nat
  BY Fields DEF QueueOK, Till
<1>1. (\A j \in 1 .. i : q[j].time <= 0) => Till(q, i) = 0
  BY <1>0, TillGrows
<1>2. ASSUME NEW j \in 1 .. i, q[j].time > 0
      PROVE  Till(q, i) > 0
  <2>1. j \in 1 .. Len(q) /\ j \in 0 .. Len(q) /\ i \in j .. Len(q)
    BY <1>0
  <2>2. Till(q, j) > 0
    BY <1>2, <2>1, TillStep DEF Pos
  <2>3. Till(q, j) <= Till(q, i) /\ Till(q, j) \in Nat
    BY <2>1, TillGrows, TillStep
  <2> QED BY <1>0, <2>2, <2>3
<1>3. \A j \in 1 .. i : q[j].time \in Int
  BY <1>0, TillStep
<1> QED BY <1>0, <1>1, <1>2, <1>3

\* The queue is sorted by the moments asked for.
LEMMA Sorted ==
    ASSUME NEW q, QueueOK(q), NEW i \in 1 .. Len(q), NEW j \in i .. Len(q)
    PROVE  q[i].left <= q[j].left
<1>0. Len(q) \in Nat /\ DOMAIN q = 1 .. Len(q)
  BY Fields DEF QueueOK
<1>1. j \in 1 .. Len(q) /\ i \in 0 .. Len(q)
  BY <1>0
<1>2. Till(q, i) <= Till(q, j)
  BY <1>1, TillGrows
<1>3. /\ Till(q, i) = Pos(q[i].left) /\ Till(q, j) = Pos(q[j].left)
      /\ q[i].left \in Int /\ q[j].left \in Int /\ q[i].time \in Int /\ q[j].time \in Int
      /\ q[i].left <= 0 => q[i].left = q[i].time
      /\ q[j].left <= 0 => q[j].left = q[j].time
  BY <1>1, TillStep
<1>4. i < j => q[j].time >= 0 \/ q[i].time <= q[j].time
  BY <1>0, <1>1 DEF QueueOK, Shape
<1> QED BY <1>0, <1>2, <1>3, <1>4 DEF Pos

\* The deadline that the queue holds is the one that the caller asked for.
LEMMA DueIs ==
    ASSUME NEW q, QueueOK(q), NEW i \in DOMAIN q
    PROVE  Due(q, i) = q[i].left
<1>0. Len(q) \in Nat /\ i \in 1 .. Len(q) /\ i \in 0 .. Len(q)
  BY Fields DEF QueueOK
<1>1. Wait(q, i) = Till(q, i)
  BY <1>0, WaitIs
<1>2. Till(q, i) = 0 <=> \A j \in 1 .. i : q[j].time <= 0
  BY <1>0, FrontIsDue
<1>3. Till(q, i) = Pos(q[i].left) /\ q[i].left \in Int
      /\ (q[i].left <= 0 => q[i].left = q[i].time)
  BY <1>0, TillStep
<1> QED BY <1>1, <1>2, <1>3 DEF Due, Pos

------------------------------------------------------------------------------
(* What the operations do to it. *)

\* The search of timeout stops at an entry that is due no earlier (kern_clock.c:331).
LEMMA BeforeIs ==
    ASSUME NEW q, QueueOK(q), NEW t \in Nat \ {0}
    PROVE  /\ Before(q, t) \in 0 .. Len(q)
           /\ Till(q, Before(q, t)) < t
           /\ Before(q, t) < Len(q) =>
                q[Before(q, t) + 1].time >= t - Till(q, Before(q, t))
<1> DEFINE n == Len(q)
           Over(j) == q[j].time < t - Till(q, j - 1)
           X == {i \in 0 .. n : i < n => ~Over(i + 1)}
           IsBefore(i) == /\ i \in 0 .. n
                          /\ \A j \in 1 .. i : Over(j)
                          /\ i < n => ~Over(i + 1)
<1>0. n \in Nat /\ \A j \in 1 .. n : q[j].time \in Int /\ Till(q, j - 1) \in Nat
  BY Fields, TillStep DEF QueueOK
<1>1. \E i \in 0 .. n : IsBefore(i)
  <2>1. n \in X /\ X \in SUBSET Nat
    BY <1>0
  <2>2. PICK i \in X : \A m \in X : i <= m
    <3> HIDE DEF X
    <3> QED BY <2>1, Least
  <2>3. ASSUME NEW j \in 1 .. i
        PROVE  Over(j)
    <3>1. j - 1 \in 0 .. n /\ j - 1 < i /\ j - 1 + 1 = j
      BY <1>0, <2>2
    <3>2. j - 1 \notin X
      BY <1>0, <2>2, <3>1
    <3> QED BY <3>1, <3>2
  <2> QED BY <2>2, <2>3
<1>2. \A i \in 0 .. n : IsBefore(i) <=>
         /\ \A j \in 1 .. i : q[j].time < t - Wait(q, j - 1)
         /\ i < n => q[i + 1].time >= t - Wait(q, i)
  <2> SUFFICES ASSUME NEW i \in 0 .. n
               PROVE  IsBefore(i) <=>
                         /\ \A j \in 1 .. i : q[j].time < t - Wait(q, j - 1)
                         /\ i < n => q[i + 1].time >= t - Wait(q, i)
    OBVIOUS
  <2>1. \A j \in 1 .. i : j - 1 \in 0 .. n /\ Wait(q, j - 1) = Till(q, j - 1)
    BY <1>0, WaitIs
  <2>2. Wait(q, i) = Till(q, i) /\ (i < n => i + 1 \in 1 .. n /\ i + 1 - 1 = i)
    BY <1>0, WaitIs
  <2> QED BY <1>0, <2>1, <2>2
<1> HIDE DEF IsBefore
<1>3. IsBefore(Before(q, t))
  BY <1>1, <1>2 DEF Before
<1> DEFINE i == Before(q, t)
<1> HIDE DEF i
<1>4. i \in 0 .. n /\ (\A j \in 1 .. i : Over(j)) /\ (i < n => ~Over(i + 1))
  BY <1>3 DEF IsBefore, i
<1>5. Till(q, i) < t
  <2>1. CASE i = 0
    BY <2>1 DEF Till
  <2>2. CASE i # 0
    <3>1. i \in 1 .. n /\ i - 1 \in 0 .. n
      BY <1>0, <1>4, <2>2
    <3>2. Over(i)
      BY <1>4, <3>1
    <3>3. Till(q, i) = Till(q, i - 1) + Pos(q[i].time) /\ Till(q, i - 1) \in Nat
      BY <3>1, TillStep
    <3>4. CASE q[i].time >= 0
      BY <1>0, <3>1, <3>2, <3>3, <3>4 DEF Pos
    <3>5. CASE q[i].time < 0
      <4>1. \A j \in 1 .. i : q[j].time <= 0
        <5>1. \A j \in 1 .. i : j \in DOMAIN q /\ i \in DOMAIN q /\ (j < i \/ j = i)
                                 /\ q[j].time \in Int
          BY <1>0, <3>1, Fields DEF QueueOK
        <5>2. \A j \in 1 .. i : j < i => q[i].time >= 0 \/ q[j].time <= q[i].time
          BY <5>1 DEF QueueOK, Shape
        <5> QED BY SMTT(30), <1>0, <3>1, <3>5, <5>1, <5>2
      <4>2. Till(q, i) = 0
        BY <1>4, <4>1, FrontIsDue
      <4> QED BY <4>2
    <3> QED BY <1>0, <3>1, <3>4, <3>5
  <2> QED BY <2>1, <2>2
<1>6. i < n => q[i + 1].time >= t - Till(q, i)
  <2>1. i < n => i + 1 \in 1 .. n /\ i + 1 - 1 = i
    BY <1>0, <1>4
  <2> QED BY <1>0, <1>4, <2>1
<1> QED BY <1>4, <1>5, <1>6 DEF i

\* Elements of two sequences put together, of a sequence with one element put
\* in, and with one taken out.
LEMMA Joined ==
    ASSUME NEW a \in Seq(Entry), NEW b \in Seq(Entry), NEW r, r = a \o b
    PROVE  /\ r \in Seq(Entry)
           /\ Len(r) = Len(a) + Len(b)
           /\ \A j \in 1 .. Len(a) + Len(b) :
                r[j] = IF j <= Len(a) THEN a[j] ELSE b[j - Len(a)]
BY ConcatProperties

\* r is u with e as its k-th element.
Grown(r, u, k, e) ==
    /\ r \in Seq(Entry) /\ Len(r) = Len(u) + 1
    /\ \A j \in 1 .. Len(u) + 1 :
         r[j] = IF j < k THEN u[j] ELSE IF j = k THEN e ELSE u[j - 1]

\* InsertAt puts it there.
LEMMA Inserted ==
    ASSUME NEW u \in Seq(Entry), NEW e \in Entry, NEW k \in 1 .. Len(u) + 1,
           NEW r, r = InsertAt(u, k, e)
    PROVE  Grown(r, u, k, e)
<1>0. Len(u) \in Nat /\ k \in Nat /\ \A j \in 1 .. Len(u) : u[j] \in Entry
  BY LenProperties
<1>1. PICK a : a = SubSeq(u, 1, k - 1)
  OBVIOUS
<1>2. PICK b : b = SubSeq(u, k, Len(u))
  OBVIOUS
<1>3. PICK c : c = <<e>>
  OBVIOUS
<1>4. r = (a \o c) \o b
  BY <1>1, <1>2, <1>3 DEF InsertAt
<1>5. a \in Seq(Entry) /\ Len(a) = k - 1 /\ \A j \in 1 .. k - 1 : a[j] = u[j]
  BY <1>0, <1>1
<1>6. b \in Seq(Entry) /\ Len(b) = Len(u) - k + 1
      /\ \A j \in 1 .. Len(u) - k + 1 : b[j] = u[k + j - 1]
  BY <1>0, <1>2, SubSeqProperties
<1>7. c \in Seq(Entry) /\ Len(c) = 1 /\ c[1] = e
  BY <1>3
<1>8. PICK d : d = a \o c
  OBVIOUS
<1>9. d \in Seq(Entry) /\ Len(d) = k
      /\ \A j \in 1 .. k : d[j] = IF j < k THEN u[j] ELSE e
  <2>1. d \in Seq(Entry) /\ Len(d) = k - 1 + 1
        /\ \A j \in 1 .. k - 1 + 1 : d[j] = IF j <= k - 1 THEN a[j] ELSE c[j - (k - 1)]
    <3>1. /\ d \in Seq(Entry) /\ Len(d) = Len(a) + Len(c)
          /\ \A j \in 1 .. Len(a) + Len(c) : d[j] = IF j <= Len(a) THEN a[j] ELSE c[j - Len(a)]
      <4>1. a \in Seq(Entry) /\ c \in Seq(Entry) /\ d = a \o c
        BY <1>5, <1>7, <1>8
      <4> QED BY <4>1, Joined
    <3>2. Len(a) = k - 1 /\ Len(c) = 1
      BY <1>5, <1>7
    <3> QED BY <3>1, <3>2
  <2>2. \A j \in 1 .. k : j \in 1 .. k - 1 + 1 /\ (j < k => j \in 1 .. k - 1)
                          /\ (~(j < k) => j - (k - 1) = 1)
    BY <1>0
  <2> QED BY <1>0, <1>5, <1>7, <2>1, <2>2
<1>10. r = d \o b
  BY <1>4, <1>8
<1>11. r \in Seq(Entry) /\ Len(r) = k + (Len(u) - k + 1)
       /\ \A j \in 1 .. k + (Len(u) - k + 1) : r[j] = IF j <= k THEN d[j] ELSE b[j - k]
  <2>1. /\ r \in Seq(Entry) /\ Len(r) = Len(d) + Len(b)
        /\ \A j \in 1 .. Len(d) + Len(b) : r[j] = IF j <= Len(d) THEN d[j] ELSE b[j - Len(d)]
    <3>1. d \in Seq(Entry) /\ b \in Seq(Entry) /\ r = d \o b
      BY <1>6, <1>9, <1>10
    <3> QED BY <3>1, Joined
  <2>2. Len(d) = k /\ Len(b) = Len(u) - k + 1
    BY <1>6, <1>9
  <2> QED BY <2>1, <2>2
<1>12. k + (Len(u) - k + 1) = Len(u) + 1
  BY <1>0
<1>13. ASSUME NEW j \in 1 .. Len(u) + 1
       PROVE  r[j] = IF j < k THEN u[j] ELSE IF j = k THEN e ELSE u[j - 1]
  <2>1. r[j] = IF j <= k THEN d[j] ELSE b[j - k]
    BY <1>11, <1>12
  <2>2. j <= k => j \in 1 .. k
    BY <1>0
  <2>3. j > k => j - k \in 1 .. Len(u) - k + 1 /\ k + (j - k) - 1 = j - 1
    BY <1>0
  <2>4. j > k => r[j] = u[j - 1]
    BY <1>0, <1>6, <2>1, <2>3
  <2> QED BY <1>0, <1>9, <2>1, <2>2, <2>4
<1> QED BY <1>11, <1>12, <1>13 DEF Grown

\* The elements when one has been taken out.
LEMMA Removed ==
    ASSUME NEW u \in Seq(Entry), NEW k \in 1 .. Len(u)
    PROVE  /\ RemoveAt(u, k) \in Seq(Entry)
           /\ Len(RemoveAt(u, k)) = Len(u) - 1
           /\ \A j \in 1 .. Len(u) - 1 :
                RemoveAt(u, k)[j] = IF j < k THEN u[j] ELSE u[j + 1]
<1>0. Len(u) \in Nat /\ k \in Nat /\ \A j \in 1 .. Len(u) : u[j] \in Entry
  BY LenProperties
<1>1. PICK a : a = SubSeq(u, 1, k - 1)
  OBVIOUS
<1>2. PICK b : b = SubSeq(u, k + 1, Len(u))
  OBVIOUS
<1>3. RemoveAt(u, k) = a \o b
  BY <1>1, <1>2 DEF RemoveAt
<1>4. a \in Seq(Entry) /\ Len(a) = k - 1 /\ \A j \in 1 .. k - 1 : a[j] = u[j]
  BY <1>0, <1>1
<1>5. b \in Seq(Entry) /\ Len(b) = Len(u) - k
      /\ \A j \in 1 .. Len(u) - k : b[j] = u[k + j]
  <2>1. Len(u) - (k + 1) + 1 = Len(u) - k /\ \A j \in 1 .. Len(u) - k : k + 1 + j - 1 = k + j
    BY <1>0
  <2>2. b \in Seq(Entry) /\ Len(b) = (IF k + 1 <= Len(u) THEN Len(u) - (k + 1) + 1 ELSE 0)
        /\ \A j \in 1 .. Len(u) - (k + 1) + 1 : b[j] = u[k + 1 + j - 1]
    BY <1>0, <1>2, SubSeqProperties
  <2>3. Len(b) = Len(u) - k
    BY <1>0, <2>2
  <2> QED BY <2>1, <2>2, <2>3
<1>6. PICK r : r = a \o b
  OBVIOUS
<1>7. r \in Seq(Entry) /\ Len(r) = k - 1 + (Len(u) - k)
      /\ \A j \in 1 .. k - 1 + (Len(u) - k) : r[j] = IF j <= k - 1 THEN a[j] ELSE b[j - (k - 1)]
  <2>1. /\ r \in Seq(Entry) /\ Len(r) = Len(a) + Len(b)
        /\ \A j \in 1 .. Len(a) + Len(b) : r[j] = IF j <= Len(a) THEN a[j] ELSE b[j - Len(a)]
    <3>1. a \in Seq(Entry) /\ b \in Seq(Entry) /\ r = a \o b
      BY <1>4, <1>5, <1>6
    <3> QED BY <3>1, Joined
  <2>2. Len(a) = k - 1 /\ Len(b) = Len(u) - k
    BY <1>4, <1>5
  <2> QED BY <2>1, <2>2
<1>8. k - 1 + (Len(u) - k) = Len(u) - 1
  BY <1>0
<1>9. ASSUME NEW j \in 1 .. Len(u) - 1
      PROVE  r[j] = IF j < k THEN u[j] ELSE u[j + 1]
  <2>1. r[j] = IF j <= k - 1 THEN a[j] ELSE b[j - (k - 1)]
    BY <1>7, <1>8
  <2>2. /\ j < k => j \in 1 .. k - 1
        /\ ~(j < k) => j - (k - 1) \in 1 .. Len(u) - k /\ k + (j - (k - 1)) = j + 1
    BY <1>0
  <2>3. ~(j < k) => r[j] = u[j + 1]
    BY <1>0, <1>5, <2>1, <2>2
  <2> QED BY <1>0, <1>4, <2>1, <2>2, <2>3
<1> QED BY <1>3, <1>6, <1>7, <1>8, <1>9

\* An entry with another time.
LEMMA Timed ==
    ASSUME NEW x \in Entry, NEW t \in Int
    PROVE  /\ [x EXCEPT !.time = t] \in Entry
           /\ [x EXCEPT !.time = t].time = t /\ [x EXCEPT !.time = t].left = x.left
BY DEF Entry

\* timeout puts the entry where its difference is positive and the successor's
\* stays non-negative.
LEMMA EnqueueKeeps ==
    ASSUME NEW q, QueueOK(q), NEW ev \in Events, NEW ticks \in Nat
    PROVE  QueueOK(Enqueue(q, ev, ticks)) /\ Len(Enqueue(q, ev, ticks)) = Len(q) + 1
<1> DEFINE n == Len(q)
           t == IF ticks = 0 THEN 1 ELSE ticks
           i == Before(q, t)
           d == t - Wait(q, i)
           e == [ev |-> ev, time |-> d, left |-> t]
           u == IF i < n THEN [q EXCEPT ![i + 1].time = @ - d] ELSE q
           r == Enqueue(q, ev, ticks)
<1>0. q \in Seq(Entry) /\ n \in Nat /\ DOMAIN q = 1 .. n /\ t \in Nat \ {0}
  BY Fields DEF QueueOK
<1>1. /\ i \in 0 .. n /\ Till(q, i) < t /\ Till(q, i) \in Nat
      /\ i < n => q[i + 1].time >= t - Till(q, i)
  BY <1>0, BeforeIs, Fields
<1>2. d = t - Till(q, i) /\ d \in Int /\ d > 0
  BY <1>0, <1>1, WaitIs
<1>3. \A j \in 1 .. n : q[j] \in Entry /\ q[j].time \in Int /\ q[j].left \in Int
                        /\ q[j].ev \in Events
  BY <1>0, Fields
<1>4. e \in Entry /\ e.time = d /\ e.left = t
  BY <1>0, <1>2 DEF Entry
<1> HIDE DEF t, d, e, i
<1>5. i < n => i + 1 \in 1 .. n /\ [q[i + 1] EXCEPT !.time = @ - d] \in Entry
  <2>1. i < n => i + 1 \in 1 .. n
    BY <1>0, <1>1
  <2>2. i < n => q[i + 1] \in Entry /\ q[i + 1].time - d \in Int
    BY <1>2, <1>3, <2>1
  <2> QED BY <2>1, <2>2, Timed
<1>6. u \in Seq(Entry) /\ Len(u) = n
      /\ \A j \in 1 .. n : u[j] = IF j = i + 1 THEN [q[j] EXCEPT !.time = @ - d] ELSE q[j]
  BY <1>0, <1>1, <1>5
<1> HIDE DEF u
<1>7. r = InsertAt(u, i + 1, e)
  BY DEF Enqueue, t, d, e, i, u
<1> HIDE DEF r
<1>8. r \in Seq(Entry) /\ Len(r) = n + 1
      /\ \A j \in 1 .. n + 1 : r[j] = IF j <= i THEN u[j] ELSE IF j = i + 1 THEN e ELSE u[j - 1]
  <2> DEFINE k == i + 1
  <2>1. k \in 1 .. Len(u) + 1 /\ \A j \in 1 .. n + 1 : j <= i <=> j < k
    BY <1>0, <1>1, <1>6
  <2>2. r = InsertAt(u, k, e)
    BY <1>7
  <2> HIDE DEF k
  <2>3. r \in Seq(Entry) /\ Len(r) = n + 1
        /\ \A j \in 1 .. n + 1 : r[j] = IF j < k THEN u[j] ELSE IF j = k THEN e ELSE u[j - 1]
    <3>1. /\ r \in Seq(Entry) /\ Len(r) = Len(u) + 1
          /\ \A j \in 1 .. Len(u) + 1 :
                r[j] = IF j < k THEN u[j] ELSE IF j = k THEN e ELSE u[j - 1]
      <4>1. u \in Seq(Entry) /\ e \in Entry
        BY <1>4, <1>6
      <4>2. Grown(r, u, k, e)
        BY <4>1, <2>1, <2>2, Inserted
      <4> QED BY <4>2 DEF Grown
    <3> QED BY <3>1, <1>6
  <2> QED BY <2>1, <2>3 DEF k
<1>9. DOMAIN r = 1 .. n + 1
      /\ \A j \in 1 .. n + 1 :
            /\ j <= i => j \in 1 .. n /\ r[j] = q[j]
            /\ j = i + 1 => r[j].time = d /\ r[j].left = t
            /\ j = i + 2 => /\ i + 1 \in 1 .. n /\ r[j].time = q[i + 1].time - d
                            /\ r[j].left = q[i + 1].left
            /\ j > i + 2 => j - 1 \in 1 .. n /\ r[j] = q[j - 1]
  <2> SUFFICES ASSUME NEW j \in 1 .. n + 1
               PROVE  /\ j <= i => j \in 1 .. n /\ r[j] = q[j]
                      /\ j = i + 1 => r[j].time = d /\ r[j].left = t
                      /\ j = i + 2 => /\ i + 1 \in 1 .. n /\ r[j].time = q[i + 1].time - d
                                      /\ r[j].left = q[i + 1].left
                      /\ j > i + 2 => j - 1 \in 1 .. n /\ r[j] = q[j - 1]
    BY <1>8
  <2>1. j <= i => j \in 1 .. n /\ r[j] = q[j]
    <3>1. j <= i => j \in 1 .. n /\ j # i + 1 /\ r[j] = u[j]
      BY <1>0, <1>1, <1>8
    <3> QED BY <1>6, <3>1
  <2>2. j = i + 1 => r[j].time = d /\ r[j].left = t
    BY <1>0, <1>1, <1>4, <1>8
  <2>3. j = i + 2 => /\ i + 1 \in 1 .. n /\ r[j].time = q[i + 1].time - d
                     /\ r[j].left = q[i + 1].left
    <3>1. j = i + 2 => i + 1 \in 1 .. n /\ r[j] = u[i + 1]
      BY <1>0, <1>1, <1>8
    <3>2. i + 1 \in 1 .. n => u[i + 1] = [q[i + 1] EXCEPT !.time = @ - d]
      BY <1>6
    <3>3. i + 1 \in 1 .. n => q[i + 1] \in Entry /\ q[i + 1].time - d \in Int
      BY <1>2, <1>3
    <3>4. ASSUME i + 1 \in 1 .. n
          PROVE  /\ [q[i + 1] EXCEPT !.time = @ - d].time = q[i + 1].time - d
                 /\ [q[i + 1] EXCEPT !.time = @ - d].left = q[i + 1].left
      BY <3>3, <3>4, Timed
    <3> QED BY <3>1, <3>2, <3>4
  <2>4. j > i + 2 => j - 1 \in 1 .. n /\ r[j] = q[j - 1]
    <3>1. j > i + 2 => j - 1 \in 1 .. n /\ j - 1 # i + 1 /\ r[j] = u[j - 1]
      BY <1>0, <1>1, <1>8
    <3> QED BY <1>6, <3>1
  <2> QED BY <2>1, <2>2, <2>3, <2>4
<1>10. Exact(r)
  <2> SUFFICES ASSUME NEW j \in 1 .. n + 1
               PROVE  /\ Pos(r[j].left) = Till(r, j - 1) + Pos(r[j].time)
                      /\ r[j].left <= 0 => r[j].left = r[j].time
    BY <1>9 DEF Exact
  <2>1. CASE j <= i
    <3>1. r[j] = q[j] /\ j \in 1 .. n /\ (j = 1 \/ j - 1 \in 1 .. n + 1)
      BY <1>0, <1>1, <1>9, <2>1
    <3>2. Till(r, j - 1) = Till(q, j - 1)
      BY <1>1, <1>9, <2>1, <3>1 DEF Till
    <3> QED BY <1>0, <3>1, <3>2 DEF QueueOK, Exact
  <2>2. CASE j = i + 1
    <3>1. r[j].time = d /\ r[j].left = t /\ j - 1 = i
      BY <1>1, <1>9, <2>2
    <3>2. Till(r, i) = Till(q, i)
      BY <1>0, <1>1, <1>9 DEF Till
    <3> QED BY <1>0, <1>1, <1>2, <3>1, <3>2 DEF Pos
  <2>3. CASE j = i + 2
    <3>1. /\ i + 1 \in 1 .. n /\ r[j].time = q[i + 1].time - d /\ r[j].left = q[i + 1].left
          /\ j - 1 = i + 1 /\ i + 1 - 1 = i /\ i < n /\ i + 1 \in 1 .. n + 1
      BY <1>0, <1>1, <1>9, <2>3
    <3>2. Till(r, i + 1) = t
      BY <1>0, <1>1, <1>9, <3>1 DEF Till, Pos
    <3>3. Pos(q[i + 1].left) = Till(q, i) + Pos(q[i + 1].time)
          /\ q[i + 1].left \in Int /\ q[i + 1].time \in Int
      <4> DEFINE k == i + 1
      <4>1. k \in 1 .. n /\ k - 1 = i
        BY <1>0, <1>1, <3>1
      <4> HIDE DEF k
      <4>2. Till(q, k) = Till(q, k - 1) + Pos(q[k].time) /\ Till(q, k) = Pos(q[k].left)
            /\ q[k].left \in Int /\ q[k].time \in Int
        BY <4>1, TillStep
      <4> QED BY <4>1, <4>2 DEF k
    <3>4. q[i + 1].time >= t - Till(q, i)
      BY <1>1, <3>1
    <3>5. Till(r, j - 1) = t /\ r[j].left = q[i + 1].left
          /\ r[j].time = q[i + 1].time - (t - Till(q, i))
      BY <1>2, <3>1, <3>2
    <3>6. PICK a \in Int, b \in Int, c \in Nat :
             a = q[i + 1].left /\ b = q[i + 1].time /\ c = Till(q, i)
      BY <1>1, <3>3
    <3>7. Pos(a) = c + Pos(b) /\ b >= t - c /\ c < t /\ t \in Nat \ {0}
      BY <1>0, <1>1, <3>3, <3>4, <3>6
    <3>8. b > 0 /\ Pos(b) = b
      BY <3>6, <3>7 DEF Pos
    <3>9. a = c + b /\ a > 0
      BY <3>6, <3>7, <3>8 DEF Pos
    <3>10. Pos(a) = t + Pos(b - (t - c))
      <4>1. b - (t - c) \in Int /\ b - (t - c) >= 0
        BY <3>6, <3>7
      <4>2. \A m \in Int : m >= 0 => Pos(m) = m
        BY DEF Pos
      <4>3. Pos(b - (t - c)) = b - (t - c) /\ Pos(a) = a
        <5>1. Pos(b - (t - c)) = b - (t - c)
          BY <4>1, <4>2
        <5>2. a >= 0
          BY <3>6, <3>9
        <5>3. Pos(a) = a
          BY <3>6, <4>2, <5>2
        <5> QED BY <5>1, <5>3
      <4>4. a = t + (b - (t - c))
        BY <3>6, <3>7, <3>9
      <4> QED BY <4>3, <4>4
    <3>11. r[j].left = a /\ r[j].time = b - (t - c) /\ Till(r, j - 1) = t
      BY <3>5, <3>6
    <3> HIDE DEF n, r
    <3> QED BY <3>6, <3>9, <3>10, <3>11
  <2>4. CASE j > i + 2
    <3>1. PICK k : k = j - 1
      OBVIOUS
    <3>2. k \in 1 .. n /\ k \in 1 .. n + 1 /\ k - 1 \in 1 .. n /\ r[j] = q[k]
          /\ (k > i + 2 \/ (k = i + 2 /\ k - 1 = i + 1))
      BY <1>0, <1>1, <1>9, <2>4, <3>1
    <3>3. r[k].left = q[k - 1].left
      BY <1>9, <3>2
    <3>4. Till(r, k) = Till(q, k - 1)
      BY <1>0, <3>2, <3>3 DEF Till
    <3>5. /\ Pos(q[k].left) = Till(q, k - 1) + Pos(q[k].time)
          /\ q[k].left <= 0 => q[k].left = q[k].time
      BY <1>0, <3>2 DEF QueueOK, Exact
    <3>6. /\ Pos(r[j].left) = Till(r, k) + Pos(r[j].time)
          /\ r[j].left <= 0 => r[j].left = r[j].time
      BY <3>2, <3>4, <3>5
    <3> QED BY <3>1, <3>6
  <2> QED BY <1>1, <2>1, <2>2, <2>3, <2>4
<1>11. Shape(r)
  <2> SUFFICES ASSUME NEW j \in 1 .. n + 1, NEW k \in 1 .. n + 1, j < k
               PROVE  r[k].time >= 0 \/ r[j].time <= r[k].time
    BY <1>9 DEF Shape
  <2>1. k = i + 1 \/ k = i + 2 => r[k].time >= 0
    BY <1>0, <1>1, <1>2, <1>3, <1>9
  <2>2. CASE k <= i
    <3>1. j \in 1 .. n /\ k \in 1 .. n /\ r[j] = q[j] /\ r[k] = q[k]
      <4>1. j <= i /\ k <= i
        BY <1>1, <2>2
      <4> QED BY <1>9, <4>1
    <3>2. q[k].time >= 0 \/ q[j].time <= q[k].time
      BY <1>0, <3>1 DEF QueueOK, Shape
    <3> QED BY <3>1, <3>2
  <2>3. CASE k > i + 2
    <3>1. i + 1 \in 1 .. n /\ i + 1 < k - 1 /\ k - 1 \in 1 .. n /\ i < n /\ r[k] = q[k - 1]
      BY <1>0, <1>1, <1>9, <2>3
    <3>2. q[k - 1].time >= 0 \/ q[i + 1].time <= q[k - 1].time
      BY <1>0, <3>1 DEF QueueOK, Shape
    <3>3. q[i + 1].time > 0 /\ q[k - 1].time \in Int /\ q[i + 1].time \in Int
      BY SMTT(30), <1>0, <1>1, <1>2, <1>3, <3>1
    <3> QED BY <3>1, <3>2, <3>3
  <2> QED BY <1>1, <2>1, <2>2, <2>3
<1> QED BY <1>8, <1>10, <1>11 DEF QueueOK, r

\* untimeout passes on a time that is still to come; a late entry has none.
LEMMA DequeueKeeps ==
    ASSUME NEW q, QueueOK(q), NEW i \in DOMAIN q
    PROVE  QueueOK(Dequeue(q, i)) /\ Len(Dequeue(q, i)) = Len(q) - 1
<1> DEFINE n == Len(q)
           passed == i < n /\ q[i].time > 0
           u == IF i < n /\ q[i].time > 0 THEN [q EXCEPT ![i + 1].time = @ + q[i].time] ELSE q
           r == Dequeue(q, i)
<1>0. q \in Seq(Entry) /\ n \in Nat /\ DOMAIN q = 1 .. n /\ i \in 1 .. n
  BY Fields DEF QueueOK
<1>1. \A j \in 1 .. n : /\ q[j] \in Entry /\ q[j].time \in Int /\ q[j].left \in Int
                        /\ Till(q, j - 1) \in Nat /\ Till(q, j) \in Nat
                        /\ Till(q, j) = Till(q, j - 1) + Pos(q[j].time)
                        /\ Till(q, j) = Pos(q[j].left)
                        /\ q[j].left <= 0 => q[j].left = q[j].time
  BY <1>0, Fields, TillStep
<1>2. passed => i + 1 \in 1 .. n /\ q[i + 1] \in Entry /\ q[i + 1].time + q[i].time \in Int
                /\ [q[i + 1] EXCEPT !.time = @ + q[i].time] \in Entry
  <2>1. passed => i + 1 \in 1 .. n /\ q[i + 1] \in Entry /\ q[i + 1].time + q[i].time \in Int
    BY <1>0, <1>1
  <2> QED BY <2>1, Timed
<1>3. u \in Seq(Entry) /\ Len(u) = n
      /\ \A j \in 1 .. n : u[j] = IF passed /\ j = i + 1
                                  THEN [q[j] EXCEPT !.time = @ + q[i].time] ELSE q[j]
  BY <1>0, <1>2
<1> HIDE DEF u
<1>4. r = RemoveAt(u, i)
  BY DEF Dequeue, u
<1>5. r \in Seq(Entry) /\ Len(r) = n - 1
      /\ \A j \in 1 .. n - 1 : r[j] = IF j < i THEN u[j] ELSE u[j + 1]
  <2> HIDE DEF r
  <2>1. /\ r \in Seq(Entry) /\ Len(r) = Len(u) - 1
        /\ \A j \in 1 .. Len(u) - 1 : r[j] = IF j < i THEN u[j] ELSE u[j + 1]
    <3>1. u \in Seq(Entry) /\ i \in 1 .. Len(u)
      BY <1>0, <1>3
    <3> QED BY <3>1, <1>4, Removed
  <2> QED BY <2>1, <1>3
<1> HIDE DEF r, passed
<1>6. DOMAIN r = 1 .. n - 1
      /\ \A j \in 1 .. n - 1 :
            /\ j \in 1 .. n /\ j + 1 \in 1 .. n
            /\ j < i => r[j] = q[j]
            /\ j >= i => r[j].left = q[j + 1].left
            /\ j = i => r[j].time = IF q[i].time > 0 THEN q[i + 1].time + q[i].time
                                                     ELSE q[i + 1].time
            /\ j > i => r[j] = q[j + 1]
  <2> SUFFICES ASSUME NEW j \in 1 .. n - 1
               PROVE  /\ j \in 1 .. n /\ j + 1 \in 1 .. n
                      /\ j < i => r[j] = q[j]
                      /\ j >= i => r[j].left = q[j + 1].left
                      /\ j = i => r[j].time = IF q[i].time > 0 THEN q[i + 1].time + q[i].time
                                                               ELSE q[i + 1].time
                      /\ j > i => r[j] = q[j + 1]
    BY <1>0, <1>5
  <2>0. j \in 1 .. n /\ j + 1 \in 1 .. n
    BY <1>0
  <2>1. j < i => r[j] = q[j]
    <3>1. j < i => j # i + 1 /\ r[j] = u[j]
      BY <1>0, <1>5
    <3> QED BY <1>3, <2>0, <3>1
  <2>2. CASE j > i
    <3> DEFINE k == j + 1
    <3>1. k \in 1 .. n /\ k # i + 1 /\ r[j] = u[k] /\ j # i /\ ~(j < i)
      BY <1>0, <1>5, <2>0, <2>2
    <3> HIDE DEF k
    <3>2. r[j] = q[k]
      BY <1>3, <3>1
    <3> QED BY <2>0, <3>1, <3>2 DEF k
  <2>3. CASE j = i
    <3>1. i + 1 \in 1 .. n /\ r[j] = u[i + 1] /\ i < n
      BY <1>0, <1>5, <2>0, <2>3
    <3>2. CASE q[i].time > 0
      <4>1. u[i + 1] = [q[i + 1] EXCEPT !.time = @ + q[i].time]
        BY <1>3, <3>1, <3>2 DEF passed
      <4>2. q[i + 1] \in Entry /\ q[i + 1].time + q[i].time \in Int
        BY <1>2, <3>1, <3>2 DEF passed
      <4>3. /\ u[i + 1].time = q[i + 1].time + q[i].time
            /\ u[i + 1].left = q[i + 1].left
        BY <4>1, <4>2, Timed
      <4> QED BY <1>0, <2>0, <2>3, <3>1, <3>2, <4>3
    <3>3. CASE ~(q[i].time > 0)
      <4>1. u[i + 1] = q[i + 1]
        BY <1>3, <3>1, <3>3 DEF passed
      <4> QED BY <1>0, <2>0, <2>3, <3>1, <3>3, <4>1
    <3> QED BY <3>2, <3>3
  <2> QED BY <1>0, <2>0, <2>1, <2>2, <2>3
<1>7. Exact(r)
  <2> SUFFICES ASSUME NEW j \in 1 .. n - 1
               PROVE  /\ Pos(r[j].left) = Till(r, j - 1) + Pos(r[j].time)
                      /\ r[j].left <= 0 => r[j].left = r[j].time
    BY <1>6 DEF Exact
  <2>0. j = 1 \/ j - 1 \in 1 .. n - 1
    BY <1>0
  <2>1. CASE j < i
    <3>1. r[j] = q[j] /\ j \in 1 .. n /\ (j = 1 \/ r[j - 1] = q[j - 1])
      BY <1>0, <1>6, <2>0, <2>1
    <3>2. Till(r, j - 1) = Till(q, j - 1)
      BY <3>1 DEF Till
    <3> QED BY <1>1, <3>1, <3>2
  <2>2. CASE j = i
    <3>1. /\ i \in 1 .. n /\ i + 1 \in 1 .. n /\ i + 1 - 1 = i
          /\ j = 1 \/ r[j - 1] = q[j - 1]
      BY <1>0, <1>6, <2>0, <2>2
    <3>2. Till(r, j - 1) = Till(q, i - 1)
      BY <2>2, <3>1 DEF Till
    <3>3. /\ Till(q, i + 1) = Till(q, i) + Pos(q[i + 1].time)
          /\ Till(q, i + 1) = Pos(q[i + 1].left)
          /\ q[i + 1].left <= 0 => q[i + 1].left = q[i + 1].time
          /\ q[i + 1].left \in Int /\ q[i + 1].time \in Int
      <4> DEFINE k == i + 1
      <4>1. k \in 1 .. n /\ k - 1 = i
        BY <3>1
      <4> HIDE DEF k
      <4>2. /\ Till(q, k) = Till(q, k - 1) + Pos(q[k].time)
            /\ Till(q, k) = Pos(q[k].left)
            /\ q[k].left <= 0 => q[k].left = q[k].time
            /\ q[k].left \in Int /\ q[k].time \in Int
        BY <1>1, <4>1
      <4> QED BY <4>1, <4>2 DEF k
    <3>4. /\ Till(q, i) = Till(q, i - 1) + Pos(q[i].time)
          /\ Till(q, i) \in Nat /\ Till(q, i - 1) \in Nat /\ q[i].time \in Int
      BY <1>1, <3>1
    <3>5. r[j].left = q[i + 1].left
          /\ r[j].time = IF q[i].time > 0 THEN q[i + 1].time + q[i].time ELSE q[i + 1].time
      BY <1>0, <1>6, <2>2
    <3>6. q[i].time > 0 => q[i + 1].time >= 0
      <4>1. i \in DOMAIN q /\ i + 1 \in DOMAIN q /\ i < i + 1
        BY <1>0, <3>1
      <4>2. q[i + 1].time >= 0 \/ q[i].time <= q[i + 1].time
        BY <4>1 DEF QueueOK, Shape
      <4> QED BY <3>3, <3>4, <4>2
    <3>7. CASE q[i].time > 0
      <4>1. Pos(q[i].time) = q[i].time /\ Pos(q[i + 1].time) = q[i + 1].time
            /\ Pos(r[j].time) = q[i + 1].time + q[i].time
            /\ r[j].time = q[i + 1].time + q[i].time
        BY SMTT(30), <3>3, <3>4, <3>5, <3>6, <3>7 DEF Pos
      <4>2. Pos(r[j].left) = Till(r, j - 1) + Pos(r[j].time)
        BY <3>2, <3>3, <3>4, <3>5, <4>1
      <4>3. r[j].left > 0
        <5>1. Pos(q[i + 1].left) > 0
          BY SMTT(30), <3>3, <3>4, <3>6, <3>7, <4>1
        <5> QED BY <3>3, <3>5, <5>1 DEF Pos
      <4> QED BY <3>3, <3>5, <4>2, <4>3
    <3>8. CASE ~(q[i].time > 0)
      <4>1. Pos(q[i].time) = 0 /\ r[j].time = q[i + 1].time
        BY <3>5, <3>8 DEF Pos
      <4> QED BY <3>2, <3>3, <3>4, <3>5, <4>1
    <3> QED BY <3>7, <3>8
  <2>3. CASE j > i
    <3>1. r[j] = q[j + 1] /\ j + 1 \in 1 .. n /\ j + 1 - 1 = j /\ j \in 1 .. n /\ j # 0
          /\ j - 1 \in 1 .. n - 1 /\ j - 1 >= i /\ j - 1 + 1 = j /\ j - 1 # 0
      BY <1>0, <1>6, <2>3
    <3>2. r[j - 1].left = q[j].left
      <4> DEFINE k == j - 1
      <4>1. k \in 1 .. n - 1 /\ k >= i /\ k + 1 = j
        BY <3>1
      <4> HIDE DEF k
      <4>2. r[k].left = q[k + 1].left
        BY <1>6, <4>1
      <4> QED BY <4>1, <4>2 DEF k
    <3>3. Till(r, j - 1) = Till(q, j)
      BY <3>1, <3>2 DEF Till
    <3>4. /\ Pos(q[j + 1].left) = Till(q, j) + Pos(q[j + 1].time)
          /\ q[j + 1].left <= 0 => q[j + 1].left = q[j + 1].time
      <4> DEFINE k == j + 1
      <4>1. k \in 1 .. n /\ k - 1 = j
        BY <3>1
      <4> HIDE DEF k
      <4>2. /\ Pos(q[k].left) = Till(q, k - 1) + Pos(q[k].time)
            /\ q[k].left <= 0 => q[k].left = q[k].time
        BY <1>1, <4>1
      <4> QED BY <4>1, <4>2 DEF k
    <3> QED BY <3>1, <3>3, <3>4
  <2> QED BY <1>0, <2>1, <2>2, <2>3
<1>8. Shape(r)
  <2> SUFFICES ASSUME NEW j \in 1 .. n - 1, NEW k \in 1 .. n - 1, j < k
               PROVE  r[k].time >= 0 \/ r[j].time <= r[k].time
    BY <1>6 DEF Shape
  <2>0. \A x, y \in 1 .. n : x < y => q[y].time >= 0 \/ q[x].time <= q[y].time
    BY <1>0 DEF QueueOK, Shape
  <2>1. CASE k < i
    BY <1>0, <1>6, <2>0, <2>1
  <2>2. CASE k = i
    <3>1. /\ r[j] = q[j] /\ j \in 1 .. n /\ i + 1 \in 1 .. n /\ j < i + 1 /\ i < i + 1
          /\ r[k].time = IF q[i].time > 0 THEN q[i + 1].time + q[i].time ELSE q[i + 1].time
      BY <1>0, <1>6, <2>2
    <3>2. q[i + 1].time >= 0 \/ (q[j].time <= q[i + 1].time /\ q[i].time <= q[i + 1].time)
      BY <1>0, <2>0, <3>1
    <3>3. q[i + 1].time \in Int /\ q[i].time \in Int /\ q[j].time \in Int
      BY <1>0, <1>1, <3>1
    <3> QED BY <3>1, <3>2, <3>3
  <2>3. CASE k > i
    <3>1. r[k] = q[k + 1] /\ k + 1 \in 1 .. n /\ i \in 1 .. n /\ i < k + 1
      BY <1>0, <1>6, <2>3
    <3>2. CASE j < i
      BY <1>0, <1>6, <2>0, <3>1, <3>2
    <3>3. CASE j > i
      BY <1>0, <1>6, <2>0, <3>1, <3>3
    <3>4. CASE j = i
      <4>1. /\ i + 1 \in 1 .. n /\ i + 1 < k + 1
            /\ r[j].time = IF q[i].time > 0 THEN q[i + 1].time + q[i].time ELSE q[i + 1].time
        BY <1>0, <1>6, <3>4
      <4>2. q[k + 1].time >= 0 \/ (q[i + 1].time <= q[k + 1].time /\ q[i].time <= q[k + 1].time)
        BY <2>0, <3>1, <4>1
      <4>3. q[i + 1].time \in Int /\ q[i].time \in Int /\ q[k + 1].time \in Int
        BY <1>1, <3>1, <4>1
      <4> QED BY <3>1, <4>1, <4>2, <4>3
    <3> QED BY <1>0, <3>2, <3>3, <3>4
  <2> QED BY <1>0, <2>1, <2>2, <2>3
<1> QED BY <1>5, <1>7, <1>8 DEF QueueOK, r

\* hardclock counts down the late entries and the first that is not late.
LEMMA TickKeeps ==
    ASSUME NEW q, QueueOK(q)
    PROVE  QueueOK(Tick(q)) /\ Len(Tick(q)) = Len(q)
<1> DEFINE n == Len(q)
           r == Tick(q)
           Counted(i) == \A j \in 1 .. i - 1 : q[j].time <= 0
           New(i) == [q[i] EXCEPT !.left = @ - 1,
                                  !.time = IF Counted(i) THEN @ - 1 ELSE @]
<1>0. q \in Seq(Entry) /\ n \in Nat /\ DOMAIN q = 1 .. n
  BY Fields DEF QueueOK
<1>1. \A j \in 1 .. n : /\ q[j] \in Entry /\ q[j].time \in Int /\ q[j].left \in Int
                        /\ j - 1 \in 0 .. n
                        /\ Till(q, j - 1) \in Nat /\ Till(q, j) \in Nat
                        /\ Till(q, j) = Till(q, j - 1) + Pos(q[j].time)
                        /\ Till(q, j) = Pos(q[j].left)
                        /\ q[j].left <= 0 => q[j].left = q[j].time
  BY <1>0, Fields, TillStep
<1>2. \A i \in 1 .. n : New(i) \in Entry /\ New(i).left = q[i].left - 1
                        /\ New(i).time = IF Counted(i) THEN q[i].time - 1 ELSE q[i].time
  <2> SUFFICES ASSUME NEW i \in 1 .. n
               PROVE  New(i) \in Entry /\ New(i).left = q[i].left - 1
                      /\ New(i).time = IF Counted(i) THEN q[i].time - 1 ELSE q[i].time
    OBVIOUS
  <2>1. q[i] \in Entry /\ q[i].left - 1 \in Int /\ q[i].time - 1 \in Int /\ q[i].time \in Int
    BY <1>1
  <2> HIDE DEF Counted
  <2> QED BY <2>1 DEF Entry
<1>3. r = [i \in 1 .. n |-> New(i)]
  BY <1>0 DEF Tick
<1> HIDE DEF r, New
<1>4. r \in Seq(Entry) /\ Len(r) = n /\ DOMAIN r = 1 .. n
  <2>1. r \in [1 .. n -> Entry]
    BY <1>2, <1>3
  <2> QED BY <1>0, <2>1
<1>5. \A i \in 1 .. n : /\ r[i].left = q[i].left - 1
                        /\ r[i].time = IF Counted(i) THEN q[i].time - 1 ELSE q[i].time
  BY <1>2, <1>3
<1>6. \A i \in 1 .. n : Counted(i) <=> Till(q, i - 1) = 0
  <2> SUFFICES ASSUME NEW i \in 1 .. n
               PROVE  Counted(i) <=> Till(q, i - 1) = 0
    OBVIOUS
  <2>1. i - 1 \in 0 .. Len(q)
    BY <1>1
  <2> QED BY <2>1, FrontIsDue
<1>7. \A i \in 1 .. n : ~Counted(i) => q[i].time >= 0
  <2> SUFFICES ASSUME NEW i \in 1 .. n, NEW j \in 1 .. i - 1, ~(q[j].time <= 0)
               PROVE  q[i].time >= 0
    OBVIOUS
  <2>1. j \in 1 .. n /\ j < i
    BY <1>0
  <2>2. q[i].time >= 0 \/ q[j].time <= q[i].time
    BY <1>0, <2>1 DEF QueueOK, Shape
  <2> QED BY SMTT(30), <1>1, <2>1, <2>2
<1> HIDE DEF Counted
<1>8. \A i \in 0 .. n : Till(r, i) = IF Till(q, i) > 0 THEN Till(q, i) - 1 ELSE 0
  <2> SUFFICES ASSUME NEW i \in 0 .. n
               PROVE  Till(r, i) = IF Till(q, i) > 0 THEN Till(q, i) - 1 ELSE 0
    OBVIOUS
  <2>1. CASE i = 0
    BY <2>1 DEF Till
  <2>2. CASE i # 0
    <3>1. i \in 1 .. n
      BY <1>0, <2>2
    <3> QED BY <1>1, <1>5, <2>2, <3>1 DEF Till, Pos
  <2> QED BY <2>1, <2>2
<1>9. Exact(r)
  <2> SUFFICES ASSUME NEW i \in 1 .. n
               PROVE  /\ Pos(r[i].left) = Till(r, i - 1) + Pos(r[i].time)
                      /\ r[i].left <= 0 => r[i].left = r[i].time
    BY <1>4 DEF Exact
  <2>1. Till(r, i - 1) = IF Till(q, i - 1) > 0 THEN Till(q, i - 1) - 1 ELSE 0
    BY <1>1, <1>8
  <2>2. CASE Counted(i)
    <3>1. Till(q, i - 1) = 0 /\ Till(r, i - 1) = 0 /\ r[i].time = q[i].time - 1
      BY <1>5, <1>6, <2>1, <2>2
    <3>2. q[i].left = q[i].time
      BY <1>1, <3>1 DEF Pos
    <3>3. r[i].left = r[i].time
      BY <1>5, <3>1, <3>2
    <3>4. r[i].left \in Int /\ r[i].time \in Int
      <4>1. q[i].left \in Int /\ r[i].left = q[i].left - 1
        BY <1>1, <1>5
      <4>2. r[i].left \in Int
        BY <4>1
      <4> QED BY <3>3, <4>2
    <3> QED BY <3>1, <3>3, <3>4 DEF Pos
  <2>3. CASE ~Counted(i)
    <3>1. Till(q, i - 1) > 0 /\ r[i].time = q[i].time /\ q[i].time >= 0
          /\ Till(r, i - 1) = Till(q, i - 1) - 1
      BY <1>1, <1>5, <1>6, <1>7, <2>1, <2>3
    <3>2. q[i].left = Till(q, i - 1) + q[i].time
      BY SMTT(30), <1>1, <3>1 DEF Pos
    <3>3. r[i].left = Till(q, i - 1) - 1 + q[i].time
      <4>1. Till(q, i - 1) \in Nat /\ q[i].time \in Int /\ r[i].left = q[i].left - 1
        BY <1>1, <1>5
      <4> QED BY <3>2, <4>1
    <3> QED BY <1>1, <3>1, <3>3 DEF Pos
  <2> QED BY <2>2, <2>3
<1>10. Shape(r)
  <2> SUFFICES ASSUME NEW j \in 1 .. n, NEW k \in 1 .. n, j < k
               PROVE  r[k].time >= 0 \/ r[j].time <= r[k].time
    BY <1>4 DEF Shape
  <2>1. q[k].time >= 0 \/ q[j].time <= q[k].time
    BY <1>0 DEF QueueOK, Shape
  <2>2. CASE Counted(k)
    <3>1. Counted(j) /\ q[j].time <= 0
      <4>1. j \in 1 .. k - 1 /\ \A l \in 1 .. j - 1 : l \in 1 .. k - 1
        BY <1>0
      <4> QED BY <2>2, <4>1 DEF Counted
    <3>2. q[j].time <= q[k].time
      BY <1>1, <2>1, <3>1
    <3>3. r[j].time = q[j].time - 1 /\ r[k].time = q[k].time - 1
      BY <1>5, <2>2, <3>1
    <3>4. q[j].time \in Int /\ q[k].time \in Int
      BY <1>1
    <3> QED BY <3>2, <3>3, <3>4
  <2>3. CASE ~Counted(k)
    BY <1>5, <1>7, <2>3
  <2> QED BY <2>2, <2>3
<1> QED BY <1>4, <1>9, <1>10 DEF QueueOK, r

\* The head of the queue, which softclock takes off when it is due.
LEMMA TakeKeeps ==
    ASSUME NEW q, QueueOK(q), q # <<>>, Head(q).time <= 0
    PROVE  /\ QueueOK(Tail(q)) /\ Len(Tail(q)) = Len(q) - 1
           /\ Head(q) \in Entry
           /\ Head(q).left <= 0 /\ Head(q).time = Head(q).left
           /\ \A i \in DOMAIN q : Head(q).left <= q[i].left
<1> DEFINE n == Len(q)
           r == Tail(q)
<1>0. q \in Seq(Entry) /\ n \in Nat \ {0} /\ DOMAIN q = 1 .. n /\ 1 \in 1 .. n /\ Head(q) = q[1]
  BY EmptySeq, Fields DEF QueueOK
<1>1. \A j \in 1 .. n : /\ q[j] \in Entry /\ q[j].time \in Int /\ q[j].left \in Int
                        /\ Till(q, j - 1) \in Nat /\ Till(q, j) \in Nat
                        /\ Till(q, j) = Till(q, j - 1) + Pos(q[j].time)
                        /\ Till(q, j) = Pos(q[j].left)
                        /\ q[j].left <= 0 => q[j].left = q[j].time
  BY <1>0, Fields, TillStep
<1>2. Till(q, 0) = 0 /\ Till(q, 1) = 0 /\ q[1].left <= 0 /\ q[1].left = q[1].time
  <2>1. Till(q, 0) = 0
    BY DEF Till
  <2>2. Till(q, 1) = Till(q, 1 - 1) + Pos(q[1].time) /\ Pos(q[1].time) = 0
    BY <1>0, <1>1 DEF Pos
  <2>3. Till(q, 1) = 0 /\ Pos(q[1].left) = 0
    BY <1>0, <1>1, <2>1, <2>2
  <2>4. q[1].left <= 0
    BY <1>0, <1>1, <2>3 DEF Pos
  <2> QED BY <1>0, <1>1, <2>1, <2>3, <2>4
<1>3. r \in Seq(Entry) /\ Len(r) = n - 1 /\ DOMAIN r = 1 .. n - 1
      /\ \A j \in 1 .. n - 1 : j + 1 \in 1 .. n /\ r[j] = q[j + 1]
  BY <1>0, HeadTailProperties
<1> HIDE DEF r
<1>4. \A j \in 1 .. n - 1 : Till(r, j - 1) = Till(q, j)
  <2> SUFFICES ASSUME NEW j \in 1 .. n - 1
               PROVE  Till(r, j - 1) = Till(q, j)
    OBVIOUS
  <2>1. CASE j = 1
    BY <1>2, <2>1 DEF Till
  <2>2. CASE j # 1
    <3> DEFINE k == j - 1
    <3>1. k \in 1 .. n - 1 /\ k + 1 = j /\ k # 0 /\ j # 0
      BY <1>0, <2>2
    <3> HIDE DEF k
    <3>2. Till(r, k) = Till(q, j)
      BY <1>3, <3>1 DEF Till
    <3> QED BY <3>2 DEF k
  <2> QED BY <2>1, <2>2
<1>5. Exact(r)
  <2> SUFFICES ASSUME NEW j \in 1 .. n - 1
               PROVE  /\ Pos(r[j].left) = Till(r, j - 1) + Pos(r[j].time)
                      /\ r[j].left <= 0 => r[j].left = r[j].time
    BY <1>3 DEF Exact
  <2> DEFINE k == j + 1
  <2>1. k \in 1 .. n /\ k - 1 = j /\ r[j] = q[k]
    BY <1>3
  <2> HIDE DEF k
  <2>2. /\ Pos(q[k].left) = Till(q, k - 1) + Pos(q[k].time)
        /\ q[k].left <= 0 => q[k].left = q[k].time
    BY <1>1, <2>1
  <2> QED BY <1>4, <2>1, <2>2
<1>6. Shape(r)
  <2> SUFFICES ASSUME NEW j \in 1 .. n - 1, NEW k \in 1 .. n - 1, j < k
               PROVE  r[k].time >= 0 \/ r[j].time <= r[k].time
    BY <1>3 DEF Shape
  <2>1. /\ j + 1 \in DOMAIN q /\ k + 1 \in DOMAIN q /\ j + 1 < k + 1
        /\ r[j] = q[j + 1] /\ r[k] = q[k + 1]
    BY <1>0, <1>3
  <2> QED BY <2>1 DEF QueueOK, Shape
<1>7. \A i \in DOMAIN q : q[1].left <= q[i].left
  <2> SUFFICES ASSUME NEW i \in 1 .. n
               PROVE  q[1].left <= q[i].left
    BY <1>0
  <2>1. 1 \in 1 .. Len(q) /\ i \in 1 .. Len(q)
    BY <1>0
  <2> QED BY <2>1, Sorted
<1> QED BY <1>0, <1>1, <1>2, <1>3, <1>5, <1>6, <1>7 DEF QueueOK, r

------------------------------------------------------------------------------
(* The invariant and the theorems. *)

\* The inductive invariant.
QueueExact ==
    /\ QueueOK(calltodo)
    /\ Len(calltodo) <= NCallout
    /\ running \in Seq(Entry) /\ Len(running) <= 1
    /\ panicked \in BOOLEAN

\* The queue is empty when the kernel starts.
LEMMA EmptyExact == Init => QueueExact
<1> SUFFICES ASSUME Init
             PROVE  QueueExact
  OBVIOUS
<1>1. calltodo = <<>> /\ running = <<>> /\ panicked = FALSE /\ NCallout \in Nat
  BY CalloutAssumption DEF Init
<1>2. <<>> \in Seq(Entry) /\ Len(<<>>) = 0 /\ DOMAIN <<>> = {}
  BY EmptySeq
<1>3. QueueOK(<<>>)
  BY <1>2 DEF QueueOK, Exact, Shape
<1>4. Len(calltodo) = 0 /\ Len(running) = 0 /\ running \in Seq(Entry) /\ QueueOK(calltodo)
  BY <1>1, <1>2, <1>3
<1>5. Len(calltodo) <= NCallout /\ Len(running) <= 1
  <2>1. 0 <= NCallout
    BY <1>1
  <2> QED BY <1>4, <2>1
<1>6. panicked \in BOOLEAN
  BY <1>1
<1> QED BY <1>4, <1>5, <1>6 DEF QueueExact

\* Every step keeps the queue exact.
LEMMA StepsKeepExact == QueueExact /\ [Next]_vars => QueueExact'
<1> SUFFICES ASSUME QueueExact, [Next]_vars
             PROVE  QueueExact'
  OBVIOUS
<1>0. /\ QueueOK(calltodo) /\ Len(calltodo) <= NCallout /\ Len(calltodo) \in Nat
      /\ running \in Seq(Entry) /\ Len(running) <= 1 /\ panicked \in BOOLEAN
      /\ NCallout \in Nat /\ MaxTime \in Nat
  BY CalloutAssumption, Fields DEF QueueExact, QueueOK
<1>1. ASSUME NEW ev \in Events, NEW t \in 0 .. MaxTime, Timeout(ev, t)
      PROVE  QueueExact'
  <2>1. CASE Callfree > 0 /\ calltodo' = Enqueue(calltodo, ev, t) /\ UNCHANGED panicked
    <3>1. t \in Nat
      BY <1>0
    <3>2. QueueOK(calltodo') /\ Len(calltodo') = Len(calltodo) + 1
      BY <1>0, <2>1, <3>1, EnqueueKeeps
    <3> QED BY <1>0, <1>1, <2>1, <3>2 DEF Timeout, QueueExact, Callfree
  <2>2. CASE panicked' = TRUE /\ UNCHANGED calltodo
    BY <1>0, <1>1, <2>2 DEF Timeout, QueueExact
  <2> QED BY <1>1, <2>1, <2>2 DEF Timeout
<1>2. ASSUME NEW ev \in Events, Untimeout(ev)
      PROVE  QueueExact'
  <2>1. PICK i \in DOMAIN calltodo : calltodo' = Dequeue(calltodo, i)
    BY <1>2 DEF Untimeout
  <2>2. QueueOK(calltodo') /\ Len(calltodo') = Len(calltodo) - 1
    BY <1>0, <2>1, DequeueKeeps
  <2> QED BY <1>0, <1>2, <2>2 DEF Untimeout, QueueExact
<1>3. ASSUME Hardclock
      PROVE  QueueExact'
  <2>1. QueueOK(calltodo') /\ Len(calltodo') = Len(calltodo)
    BY <1>0, <1>3, TickKeeps DEF Hardclock
  <2> QED BY <1>0, <1>3, <2>1 DEF Hardclock, QueueExact
<1>4. ASSUME SoftclockTake
      PROVE  QueueExact'
  <2>1. /\ QueueOK(calltodo') /\ Len(calltodo') = Len(calltodo) - 1
        /\ Head(calltodo) \in Entry
    BY <1>0, <1>4, TakeKeeps DEF SoftclockTake
  <2>2. running' = <<Head(calltodo)>> /\ UNCHANGED panicked
    BY <1>4 DEF SoftclockTake
  <2>3. running' \in Seq(Entry) /\ Len(running') = 1
    BY <2>1, <2>2
  <2> QED BY <1>0, <2>1, <2>2, <2>3 DEF QueueExact
<1>5. ASSUME SoftclockReturn
      PROVE  QueueExact'
  BY <1>0, <1>5 DEF SoftclockReturn, QueueExact
<1>6. ASSUME UNCHANGED vars
      PROVE  QueueExact'
  BY <1>0, <1>6 DEF vars, QueueExact
<1> QED BY <1>1, <1>2, <1>3, <1>4, <1>5, <1>6 DEF Next, Down

\* The queue is exact in every state that timeout, untimeout, hardclock and
\* softclock of kern_clock.c can reach.
THEOREM AlwaysExact == Spec => []QueueExact
<1> QED BY EmptyExact, StepsKeepExact, PTL DEF Spec

\* No step takes a variable out of its type: timeout of kern_clock.c never uses
\* more slots than the table has, and softclock is in one function at a time.
THEOREM TypesHold == Spec => []TypeOK
<1>1. QueueExact => TypeOK
  <2> SUFFICES ASSUME QueueExact
               PROVE  TypeOK
    OBVIOUS
  <2>1. calltodo \in Seq(Entry) /\ Len(calltodo) \in Nat /\ Len(calltodo) <= NCallout
        /\ NCallout \in Nat
    BY CalloutAssumption, Fields DEF QueueExact, QueueOK
  <2> QED BY <2>1 DEF TypeOK, QueueExact, Callfree
<1> QED BY <1>1, AlwaysExact, PTL

\* The differences in the queue always add up to the moments the callers asked
\* for, and softclock of kern_clock.c calls no function before its time or before one
\* with an earlier deadline, and tells it how late it is.
THEOREM CallsOnTime == Spec => OnTime
<1>1. QueueExact => DeadlinesExact
  BY DueIs DEF QueueExact, DeadlinesExact
<1>2. QueueExact /\ SoftclockTake =>
         /\ Head(calltodo).left <= 0
         /\ Head(calltodo).time = Head(calltodo).left
         /\ \A i \in DOMAIN calltodo : Head(calltodo).left <= calltodo[i].left
  BY TakeKeeps DEF QueueExact, SoftclockTake
<1>3. QueueExact' => DeadlinesExact'
  BY <1>1, PTL
<1> QED BY <1>2, <1>3, AlwaysExact, PTL DEF OnTime
==============================================================================
