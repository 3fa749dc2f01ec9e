-------------------------- MODULE ByteStreamProofs --------------------------
(***************************************************************************)
(* That ByteStream, which Tcp is shown to implement, says what a user may  *)
(* rely on.                                                                *)
(***************************************************************************)
EXTENDS ByteStream, TLAPS

TypeOK ==
    /\ wrote \in [Ends -> Nat]
    /\ over \in [Ends -> BOOLEAN]
    /\ DOMAIN given = Ends
    /\ told \in [Ends -> BOOLEAN]

IInv == TypeOK /\ Kept

LEMMA StreamLen == ASSUME NEW n \in Nat PROVE Len(Stream(n)) = n
BY DEF Stream

LEMMA InitIInv == ASSUME \A e \in Ends: Peer(e) \in Ends, Init PROVE IInv
<1>1. TypeOK
  BY DEF Init, TypeOK
<1>2. Kept
  <2>1. SUFFICES ASSUME NEW e \in Ends
                 PROVE  \E n \in 0..wrote[Peer(e)]:
                           /\ given[e] = Stream(n)
                           /\ told[e] => over[Peer(e)] /\ n = wrote[Peer(e)]
    BY DEF Kept
  <2>2. wrote[Peer(e)] = 0 /\ given[e] = <<>> /\ ~told[e]
    BY DEF Init
  <2>3. Stream(0) = <<>>
    BY DEF Stream
  <2>4. QED
    BY <2>2, <2>3
<1>3. QED
  BY <1>1, <1>2 DEF IInv

\* A step keeps the invariant, and takes nothing back.
Sound ==
    \A e \in Ends: /\ Len(given[e]) <= Len(given'[e])
                   /\ told[e] => told'[e] /\ given'[e] = given[e]

LEMMA WriteKeeps ==
    ASSUME \A e \in Ends: Peer(e) \in Ends, IInv, NEW e \in Ends, Write(e)
    PROVE  IInv' /\ Sound
<1>1. TypeOK'
  BY DEF IInv, TypeOK, Write
<1>2. \A x \in Ends: wrote[x] <= wrote'[x] /\ (over[x] => wrote'[x] = wrote[x])
  BY DEF IInv, TypeOK, Write
<1>3. Kept'
  <2>1. SUFFICES ASSUME NEW x \in Ends
                 PROVE  (\E n \in 0..wrote[Peer(x)]:
                           /\ given[x] = Stream(n)
                           /\ told[x] => over[Peer(x)] /\ n = wrote[Peer(x)])'
    BY DEF Kept
  <2>2. PICK n \in 0..wrote[Peer(x)]:
           /\ given[x] = Stream(n)
           /\ told[x] => over[Peer(x)] /\ n = wrote[Peer(x)]
    BY DEF IInv, Kept
  <2>3. n \in 0..wrote'[Peer(x)]
    BY <1>1, <1>2, <2>2 DEF IInv, TypeOK
  <2>4. given' = given /\ told' = told /\ over' = over
    BY DEF Write
  <2>5. QED
    BY <1>2, <2>2, <2>3, <2>4
<1>4. Sound
  <2>1. given' = given /\ told' = told
    BY DEF Write
  <2>2. \A x \in Ends: Len(given[x]) \in Nat
    BY StreamLen DEF IInv, TypeOK, Kept
  <2>3. QED
    BY <2>1, <2>2 DEF Sound
<1>5. QED
  BY <1>1, <1>3, <1>4 DEF IInv

LEMMA FinishKeeps ==
    ASSUME \A e \in Ends: Peer(e) \in Ends, IInv, NEW e \in Ends, Finish(e)
    PROVE  IInv' /\ Sound
<1>1. TypeOK'
  BY DEF IInv, TypeOK, Finish
<1>2. wrote' = wrote /\ given' = given /\ told' = told
  BY DEF Finish
<1>3. \A x \in Ends: over[x] => over'[x]
  BY DEF IInv, TypeOK, Finish
<1>4. Kept'
  BY <1>2, <1>3 DEF IInv, Kept
<1>5. Sound
  <2>1. \A x \in Ends: Len(given[x]) \in Nat
    BY StreamLen DEF IInv, TypeOK, Kept
  <2>2. QED
    BY <1>2, <2>1 DEF Sound
<1>6. QED
  BY <1>1, <1>4, <1>5 DEF IInv

LEMMA HandKeeps ==
    ASSUME \A e \in Ends: Peer(e) \in Ends, IInv, NEW e \in Ends, Hand(e)
    PROVE  IInv' /\ Sound
<1>1. PICK n \in Len(given[e])..wrote[Peer(e)]:
         /\ given' = [given EXCEPT ![e] = Stream(n)]
         /\ \/ told' = told
            \/ /\ over[Peer(e)] /\ n = wrote[Peer(e)]
               /\ told' = [told EXCEPT ![e] = TRUE]
  BY DEF Hand
<1>2. Len(given[e]) \in Nat /\ n \in 0..wrote[Peer(e)] /\ wrote' = wrote
  BY StreamLen, <1>1 DEF IInv, TypeOK, Kept, Hand
<1>3. TypeOK'
  BY <1>1 DEF IInv, TypeOK, Hand
<1>4. \A x \in Ends: over[x] => over'[x]
  BY DEF IInv, TypeOK, Hand
<1>5. ~told[e]
  BY DEF Hand
<1>6. ASSUME NEW x \in Ends
      PROVE  /\ \E m \in 0..wrote[Peer(x)]:
                   /\ given'[x] = Stream(m)
                   /\ told'[x] => over'[Peer(x)] /\ m = wrote[Peer(x)]
             /\ Len(given[x]) <= Len(given'[x])
             /\ told[x] => told'[x] /\ given'[x] = given[x]
  <2>1. CASE x = e
    <3>1. given'[x] = Stream(n) /\ Len(given'[x]) = n
      BY <1>1, <1>2, <2>1, StreamLen DEF IInv, TypeOK
    <3>2. told'[x] => over'[Peer(x)] /\ n = wrote[Peer(x)]
      BY <1>1, <1>4, <1>5, <2>1 DEF IInv, TypeOK
    <3>3. QED
      BY <1>1, <1>2, <1>5, <2>1, <3>1, <3>2
  <2>2. CASE x # e
    <3>1. given'[x] = given[x] /\ told'[x] = told[x]
      BY <1>1, <2>2 DEF IInv, TypeOK
    <3>2. PICK m \in 0..wrote[Peer(x)]:
             /\ given[x] = Stream(m)
             /\ told[x] => over[Peer(x)] /\ m = wrote[Peer(x)]
      BY DEF IInv, Kept
    <3>3. Len(given[x]) = m
      BY <3>2, StreamLen DEF IInv, TypeOK
    <3>4. QED
      BY <1>4, <3>1, <3>2, <3>3
  <2>3. QED
    BY <2>1, <2>2
<1>7. Kept'
  BY <1>2, <1>6 DEF Kept
<1>8. Sound
  BY <1>6 DEF Sound
<1>9. QED
  BY <1>3, <1>7, <1>8 DEF IInv

LEMMA StepKeeps ==
    ASSUME \A e \in Ends: Peer(e) \in Ends, IInv, [Next]_vars
    PROVE  IInv' /\ [Sound]_vars
<1>1. CASE Next
  BY <1>1, WriteKeeps, FinishKeeps, HandKeeps DEF Next
<1>2. CASE UNCHANGED vars
  BY <1>2 DEF vars, IInv, TypeOK, Kept
<1>3. QED
  BY <1>1, <1>2

\* Whatever the two users write and whenever they stop, what each has been
\* handed is the first of what the other wrote, and all of it at the end.
THEOREM StreamIsKept == ASSUME \A e \in Ends: Peer(e) \in Ends
                        PROVE  Spec => []Kept
<1>1. Init => IInv
  BY InitIInv
<1>2. IInv /\ [Next]_vars => IInv'
  BY StepKeeps
<1>3. IInv => Kept
  BY DEF IInv
<1>4. QED
  BY <1>1, <1>2, <1>3, PTL DEF Spec

\* What has been handed over is never taken back, and the end is the end.
THEOREM StreamIsFinal == ASSUME \A e \in Ends: Peer(e) \in Ends
                         PROVE  Spec => Final
<1>1. Init => IInv
  BY InitIInv
<1>2. IInv /\ [Next]_vars => IInv' /\ [Sound]_vars
  BY StepKeeps
<1>3. QED
  BY <1>1, <1>2, PTL DEF Spec, Final, Sound
=============================================================================
