-------------------------- MODULE ResourceMapProofs --------------------------
(* Proofs about the resource maps, for tables of any size and any calls.     *)
EXTENDS ResourceMap, SequenceTheorems, TLAPS

------------------------------------------------------------------------------
(* Sequences. *)

\* The shift of rmalloc and rmfree: the slots behind i move down.
LEMMA RemoveAtMap ==
    ASSUME NEW m \in Map, NEW i \in 1 .. Len(m)
    PROVE  /\ RemoveAt(m, i) \in Map
           /\ Len(RemoveAt(m, i)) = Len(m) - 1
           /\ \A j \in 1 .. Len(m) - 1 :
                 RemoveAt(m, i)[j] = IF j < i THEN m[j] ELSE m[j + 1]
<1> DEFINE a == SubSeq(m, 1, i - 1)
           b == SubSeq(m, i + 1, Len(m))
<1>1. m \in Seq(Segment) /\ Len(m) \in Nat /\ \A j \in 1 .. Len(m) : m[j] \in Segment
  BY LenProperties, ElementOfSeq DEF Map
<1>2. /\ a \in Seq(Segment) /\ Len(a) = i - 1
      /\ \A j \in 1 .. i - 1 : a[j] = m[j]
  BY <1>1, SubSeqProperties
<1>3. /\ b \in Seq(Segment) /\ Len(b) = Len(m) - i
      /\ \A j \in 1 .. Len(m) - i : b[j] = m[i + j]
  BY <1>1, SubSeqProperties
<1>4. RemoveAt(m, i) = a \o b
  BY DEF RemoveAt
<1> HIDE DEF a, b
<1>5. /\ a \o b \in Seq(Segment) /\ Len(a \o b) = Len(a) + Len(b)
      /\ \A j \in 1 .. Len(a) + Len(b) :
            (a \o b)[j] = IF j <= Len(a) THEN a[j] ELSE b[j - Len(a)]
  BY <1>2, <1>3, ConcatProperties
<1>6. Len(a) + Len(b) = Len(m) - 1
  BY <1>1, <1>2, <1>3
<1>7. ASSUME NEW j \in 1 .. Len(m) - 1
      PROVE  (a \o b)[j] = IF j < i THEN m[j] ELSE m[j + 1]
  <2>1. CASE j < i
    BY <1>1, <1>2, <1>5, <1>6, <2>1
  <2>2. CASE ~(j < i)
    <3>1. (a \o b)[j] = b[j - (i - 1)] /\ j - (i - 1) \in 1 .. Len(m) - i
      BY <1>1, <1>2, <1>5, <1>6, <2>2
    <3>2. i + (j - (i - 1)) = j + 1
      BY <1>1
    <3> QED BY <1>3, <2>2, <3>1, <3>2
  <2> QED BY <2>1, <2>2
<1> QED BY <1>4, <1>5, <1>6, <1>7 DEF Map

\* The exchanges of rmfree and the shift of rmget: the slots from i move up.
LEMMA InsertAtMap ==
    ASSUME NEW m \in Map, NEW i \in 1 .. Len(m) + 1, NEW s \in Segment
    PROVE  /\ InsertAt(m, i, s) \in Map
           /\ Len(InsertAt(m, i, s)) = Len(m) + 1
           /\ \A j \in 1 .. Len(m) + 1 :
                 InsertAt(m, i, s)[j] = IF j < i THEN m[j]
                                        ELSE IF j = i THEN s ELSE m[j - 1]
<1> DEFINE a == SubSeq(m, 1, i - 1)
           b == SubSeq(m, i, Len(m))
           c == a \o <<s>>
<1>1. m \in Seq(Segment) /\ Len(m) \in Nat /\ \A j \in 1 .. Len(m) : m[j] \in Segment
  BY LenProperties, ElementOfSeq DEF Map
<1>2. /\ a \in Seq(Segment) /\ Len(a) = i - 1
      /\ \A j \in 1 .. i - 1 : a[j] = m[j]
  BY <1>1, SubSeqProperties
<1>3. /\ b \in Seq(Segment) /\ Len(b) = Len(m) - i + 1
      /\ \A j \in 1 .. Len(m) - i + 1 : b[j] = m[i + j - 1]
  BY <1>1, SubSeqProperties
<1>4. /\ <<s>> \in Seq(Segment) /\ Len(<<s>>) = 1 /\ <<s>>[1] = s
  OBVIOUS
<1>5. InsertAt(m, i, s) = c \o b
  BY DEF InsertAt
<1> HIDE DEF a, b
<1>6. /\ c \in Seq(Segment) /\ Len(c) = i
      /\ \A j \in 1 .. i : c[j] = IF j <= i - 1 THEN a[j] ELSE <<s>>[j - (i - 1)]
  BY <1>1, <1>2, <1>4, ConcatProperties
<1>7. \A j \in 1 .. i : c[j] = IF j < i THEN m[j] ELSE s
  BY <1>2, <1>4, <1>6
<1> HIDE DEF c
<1>8. /\ c \o b \in Seq(Segment) /\ Len(c \o b) = Len(m) + 1
      /\ \A j \in 1 .. Len(m) + 1 :
            (c \o b)[j] = IF j <= i THEN c[j] ELSE b[j - i]
  BY <1>1, <1>3, <1>6, ConcatProperties
<1>9. \A j \in 1 .. Len(m) + 1 :
         (c \o b)[j] = IF j < i THEN m[j] ELSE IF j = i THEN s ELSE m[j - 1]
  BY <1>1, <1>3, <1>7, <1>8
<1> QED BY <1>5, <1>8, <1>9 DEF Map

\* One segment is changed in place.
LEMMA ChangeMap ==
    ASSUME NEW m \in Map, NEW i \in 1 .. Len(m), NEW s \in Segment
    PROVE  /\ [m EXCEPT ![i] = s] \in Map
           /\ Len([m EXCEPT ![i] = s]) = Len(m)
           /\ \A j \in 1 .. Len(m) :
                 [m EXCEPT ![i] = s][j] = IF j = i THEN s ELSE m[j]
BY ExceptSeq DEF Map

LEMMA MapFacts ==
    ASSUME NEW m \in Map
    PROVE  /\ Len(m) \in Nat /\ DOMAIN m = 1 .. Len(m)
           /\ \A i \in 1 .. Len(m) :
                 /\ m[i] \in Segment
                 /\ m[i].addr \in Nat \ {0} /\ m[i].size \in Nat \ {0}
<1>1. Len(m) \in Nat /\ DOMAIN m = 1 .. Len(m)
  BY LenProperties DEF Map
<1>2. \A i \in 1 .. Len(m) : m[i] \in Segment
  BY ElementOfSeq DEF Map
<1> QED BY <1>1, <1>2 DEF Segment

------------------------------------------------------------------------------
(* The table operators: each keeps the table well formed, and says what it   *)
(* does to the free units.                                                   *)

LEMMA FreeUnitsAre ==
    ASSUME NEW m \in Map
    PROVE  \A u : u \in FreeUnits(m) <=>
              \E i \in 1 .. Len(m) : u \in Int /\ m[i].addr <= u /\ u < End(m[i])
<1>1. \A i \in 1 .. Len(m) : \A u :
         u \in Units(m[i]) <=> u \in Int /\ m[i].addr <= u /\ u < End(m[i])
  BY MapFacts DEF Units, End
<1> QED BY <1>1, MapFacts DEF FreeUnits

\* Units of other segments are no units of segment i.
LEMMA OneSegment ==
    ASSUME NEW m \in Map, Ordered(m), NEW i \in 1 .. Len(m), NEW j \in 1 .. Len(m),
           NEW u \in Int, m[i].addr <= u, u < End(m[i]),
           m[j].addr <= u, u < End(m[j])
    PROVE  i = j
<1>1. /\ Len(m) \in Nat /\ DOMAIN m = 1 .. Len(m)
      /\ m[i].addr \in Nat /\ m[i].size \in Nat
      /\ m[j].addr \in Nat /\ m[j].size \in Nat
  BY MapFacts
<1>2. /\ i < j => End(m[i]) < m[j].addr
      /\ j < i => End(m[j]) < m[i].addr
  BY <1>1 DEF Ordered
<1> QED BY <1>1, <1>2 DEF End

\* A table whose segments lie in different segments of an ordered one, in the
\* same order, is ordered.
LEMMA OrderedPart ==
    ASSUME NEW m \in Map, Ordered(m), NEW c \in Map,
           NEW f \in [1 .. Len(c) -> 1 .. Len(m)],
           \A a, b \in 1 .. Len(c) : a < b => f[a] < f[b],
           \A a \in 1 .. Len(c) :
              m[f[a]].addr <= c[a].addr /\ End(c[a]) <= End(m[f[a]])
    PROVE  Ordered(c)
<1> SUFFICES ASSUME NEW a \in 1 .. Len(c), NEW b \in 1 .. Len(c), a < b
             PROVE  End(c[a]) < c[b].addr
  BY MapFacts DEF Ordered
<1>1. f[a] \in 1 .. Len(m) /\ f[b] \in 1 .. Len(m) /\ f[a] < f[b]
  OBVIOUS
<1>2. End(m[f[a]]) < m[f[b]].addr
  BY <1>1, MapFacts DEF Ordered
<1>3. End(c[a]) <= End(m[f[a]]) /\ m[f[b]].addr <= c[b].addr
  OBVIOUS
<1>4. \A j \in 1 .. Len(c) : c[j].addr \in Int /\ End(c[j]) \in Int
  BY MapFacts DEF End
<1>5. \A j \in 1 .. Len(m) : m[j].addr \in Int /\ End(m[j]) \in Int
  BY MapFacts DEF End
<1> QED BY <1>1, <1>2, <1>3, <1>4, <1>5

\* A segment leaves the table.
LEMMA RemovedMap ==
    ASSUME NEW m \in Map, Ordered(m), NEW i \in 1 .. Len(m)
    PROVE  /\ RemoveAt(m, i) \in Map /\ Ordered(RemoveAt(m, i))
           /\ Len(RemoveAt(m, i)) = Len(m) - 1
           /\ FreeUnits(RemoveAt(m, i)) = FreeUnits(m) \ Units(m[i])
<1> DEFINE c == RemoveAt(m, i)
           f == [j \in 1 .. Len(m) - 1 |-> IF j < i THEN j ELSE j + 1]
<1>1. /\ c \in Map /\ Len(c) = Len(m) - 1
      /\ \A j \in 1 .. Len(m) - 1 : c[j] = IF j < i THEN m[j] ELSE m[j + 1]
  BY RemoveAtMap
<1>2. /\ Len(m) \in Nat
      /\ \A j \in 1 .. Len(m) : m[j].addr \in Nat /\ m[j].size \in Nat
  BY MapFacts
<1> HIDE DEF c
<1>3. \A j \in 1 .. Len(m) - 1 :
         /\ f[j] \in 1 .. Len(m) /\ f[j] # i
         /\ f[j] = IF j < i THEN j ELSE j + 1
  BY <1>2
<1>4. f \in [1 .. Len(c) -> 1 .. Len(m)]
  BY <1>1, <1>3
<1> HIDE DEF f
<1>5. \A j \in 1 .. Len(m) - 1 : c[j] = m[f[j]]
  BY <1>1, <1>3
<1>6. \A j \in 1 .. Len(c) : m[f[j]].addr <= c[j].addr /\ End(c[j]) <= End(m[f[j]])
  BY <1>1, <1>2, <1>3, <1>5 DEF End
<1>7. \A x, y \in 1 .. Len(c) : x < y => f[x] < f[y]
  BY <1>1, <1>2, <1>3
<1>8. Ordered(c)
  BY <1>1, <1>4, <1>6, <1>7, OrderedPart
<1>9. ASSUME NEW u \in FreeUnits(c)
      PROVE  u \in FreeUnits(m) \ Units(m[i])
  <2>1. PICK j \in 1 .. Len(m) - 1 : u \in Int /\ c[j].addr <= u /\ u < End(c[j])
    BY <1>1, FreeUnitsAre
  <2>2. m[f[j]].addr <= u /\ u < End(m[f[j]]) /\ f[j] # i /\ f[j] \in 1 .. Len(m)
    BY <1>3, <1>5, <2>1
  <2>3. u \in FreeUnits(m)
    BY <2>1, <2>2, FreeUnitsAre
  <2>4. ~(m[i].addr <= u /\ u < End(m[i]))
    BY <2>1, <2>2, OneSegment
  <2> QED BY <1>2, <2>1, <2>3, <2>4 DEF Units, End
<1>10. ASSUME NEW u \in FreeUnits(m) \ Units(m[i])
       PROVE  u \in FreeUnits(c)
  <2>1. PICK l \in 1 .. Len(m) : u \in Int /\ m[l].addr <= u /\ u < End(m[l])
    BY FreeUnitsAre
  <2>2. l # i
    BY <1>2, <2>1 DEF Units, End
  <2>3. PICK j \in 1 .. Len(m) - 1 : f[j] = l
    <3>1. CASE l < i
      <4>1. l \in 1 .. Len(m) - 1
        BY <1>2, <3>1
      <4> QED BY <1>3, <3>1, <4>1
    <3>2. CASE i < l
      <4>1. l - 1 \in 1 .. Len(m) - 1 /\ ~(l - 1 < i) /\ (l - 1) + 1 = l
        BY <1>2, <3>2
      <4> QED BY <1>3, <4>1
    <3> QED BY <1>2, <2>2, <3>1, <3>2
  <2> QED BY <1>1, <1>5, <2>1, <2>3, FreeUnitsAre
<1> QED BY <1>1, <1>8, <1>9, <1>10 DEF c

\* A segment shrinks, at its front or at its back.
LEMMA ShrunkMap ==
    ASSUME NEW m \in Map, Ordered(m), NEW i \in 1 .. Len(m), NEW t \in Segment,
           m[i].addr <= t.addr, End(t) <= End(m[i])
    PROVE  /\ [m EXCEPT ![i] = t] \in Map /\ Ordered([m EXCEPT ![i] = t])
           /\ Len([m EXCEPT ![i] = t]) = Len(m)
           /\ FreeUnits([m EXCEPT ![i] = t])
                 = FreeUnits(m) \ (Units(m[i]) \ Units(t))
<1> DEFINE c == [m EXCEPT ![i] = t]
           f == [j \in 1 .. Len(m) |-> j]
<1>1. /\ c \in Map /\ Len(c) = Len(m)
      /\ \A j \in 1 .. Len(m) : c[j] = IF j = i THEN t ELSE m[j]
  BY ChangeMap
<1>2. /\ Len(m) \in Nat /\ t.addr \in Nat /\ t.size \in Nat
      /\ \A j \in 1 .. Len(m) : m[j].addr \in Nat /\ m[j].size \in Nat
  BY MapFacts DEF Segment
<1> HIDE DEF c
<1>3. /\ f \in [1 .. Len(c) -> 1 .. Len(m)]
      /\ \A a, b \in 1 .. Len(c) : a < b => f[a] < f[b]
      /\ \A a \in 1 .. Len(c) :
            m[f[a]].addr <= c[a].addr /\ End(c[a]) <= End(m[f[a]])
  BY <1>1, <1>2 DEF End
<1> HIDE DEF f
<1>4. Ordered(c)
  BY <1>1, <1>3, OrderedPart
<1>5. \A u : u \in FreeUnits(c) <=>
         \E j \in 1 .. Len(m) : u \in Int /\ c[j].addr <= u /\ u < End(c[j])
  BY <1>1, FreeUnitsAre
<1>6. ASSUME NEW u \in FreeUnits(c)
      PROVE  u \in FreeUnits(m) \ (Units(m[i]) \ Units(t))
  <2>1. PICK j \in 1 .. Len(m) : u \in Int /\ c[j].addr <= u /\ u < End(c[j])
    BY <1>5
  <2>2. m[j].addr <= u /\ u < End(m[j])
    BY <1>1, <1>2, <2>1 DEF End
  <2>3. u \in FreeUnits(m)
    BY <2>1, <2>2, FreeUnitsAre
  <2>4. m[i].addr <= u /\ u < End(m[i]) => j = i
    BY <2>1, <2>2, OneSegment
  <2>5. u \in Units(m[i]) => u \in Units(t)
    BY <1>1, <1>2, <2>1, <2>4 DEF Units, End
  <2> QED BY <2>3, <2>5
<1>7. ASSUME NEW u \in FreeUnits(m) \ (Units(m[i]) \ Units(t))
      PROVE  u \in FreeUnits(c)
  <2>1. PICK l \in 1 .. Len(m) : u \in Int /\ m[l].addr <= u /\ u < End(m[l])
    BY FreeUnitsAre
  <2>2. l = i => t.addr <= u /\ u < End(t)
    BY <1>2, <2>1 DEF Units, End
  <2>3. c[l].addr <= u /\ u < End(c[l])
    BY <1>1, <2>1, <2>2
  <2> QED BY <1>5, <2>1, <2>3
<1> QED BY <1>1, <1>4, <1>6, <1>7 DEF c

\* Units are taken off the front of a segment.
LEMMA CutMap ==
    ASSUME NEW m \in Map, Ordered(m), NEW i \in 1 .. Len(m),
           NEW n \in Nat \ {0}, n <= m[i].size
    PROVE  /\ Cut(m, i, n) \in Map /\ Ordered(Cut(m, i, n))
           /\ Len(Cut(m, i, n)) <= Len(m)
           /\ FreeUnits(Cut(m, i, n)) = FreeUnits(m) \ (m[i].addr .. m[i].addr + n - 1)
<1> DEFINE t == [addr |-> m[i].addr + n, size |-> m[i].size - n]
<1>1. Len(m) \in Nat /\ m[i].addr \in Nat \ {0} /\ m[i].size \in Nat \ {0}
  BY MapFacts
<1>2. CASE m[i].size = n
  <2>1. Cut(m, i, n) = RemoveAt(m, i) /\ Units(m[i]) = m[i].addr .. m[i].addr + n - 1
    BY <1>1, <1>2 DEF Cut, Units, End
  <2>2. Len(m) - 1 <= Len(m)
    BY <1>1
  <2> QED BY <2>1, <2>2, RemovedMap
<1>3. CASE m[i].size # n
  <2>1. Cut(m, i, n) = [m EXCEPT ![i] = t]
    BY <1>3 DEF Cut
  <2>2. t.addr = m[i].addr + n /\ t.size = m[i].size - n
    OBVIOUS
  <2>3. t \in Segment
    BY <1>1, <1>3 DEF Segment
  <2> HIDE DEF t
  <2>4. m[i].addr <= t.addr /\ End(t) <= End(m[i]) /\ End(t) = End(m[i])
    BY <1>1, <2>2 DEF End
  <2>5. \A u : u \in Units(m[i]) \ Units(t) <=> u \in m[i].addr .. m[i].addr + n - 1
    BY <1>1, <2>2 DEF End, Units
  <2>6. Units(m[i]) \ Units(t) = m[i].addr .. m[i].addr + n - 1
    BY <2>5
  <2>7. /\ Cut(m, i, n) \in Map /\ Ordered(Cut(m, i, n))
        /\ Len(Cut(m, i, n)) = Len(m)
        /\ FreeUnits(Cut(m, i, n)) = FreeUnits(m) \ (Units(m[i]) \ Units(t))
    <3>1. /\ [m EXCEPT ![i] = t] \in Map /\ Ordered([m EXCEPT ![i] = t])
          /\ Len([m EXCEPT ![i] = t]) = Len(m)
          /\ FreeUnits([m EXCEPT ![i] = t])
                = FreeUnits(m) \ (Units(m[i]) \ Units(t))
      BY <2>3, <2>4, ShrunkMap
    <3> QED BY <2>1, <3>1
  <2> QED BY <1>1, <2>6, <2>7
<1> QED BY <1>2, <1>3

\* A free run that touches segment i grows it; nothing else is near.
LEMMA GrownMap ==
    ASSUME NEW m \in Map, Ordered(m), NEW i \in 1 .. Len(m),
           NEW t \in Segment, NEW s \in Segment,
           Units(t) = Units(m[i]) \cup Units(s),
           \A j \in 1 .. Len(m) : j < i => End(m[j]) < t.addr,
           \A j \in 1 .. Len(m) : i < j => End(t) < m[j].addr
    PROVE  /\ [m EXCEPT ![i] = t] \in Map /\ Ordered([m EXCEPT ![i] = t])
           /\ Len([m EXCEPT ![i] = t]) = Len(m)
           /\ FreeUnits([m EXCEPT ![i] = t]) = FreeUnits(m) \cup Units(s)
<1> DEFINE c == [m EXCEPT ![i] = t]
<1>1. /\ c \in Map /\ Len(c) = Len(m)
      /\ \A j \in 1 .. Len(m) : c[j] = IF j = i THEN t ELSE m[j]
  BY ChangeMap
<1>2. Len(m) \in Nat /\ DOMAIN m = 1 .. Len(m) /\ DOMAIN c = 1 .. Len(m)
  BY <1>1, MapFacts
<1> HIDE DEF c
<1>3. Ordered(c)
  <2>1. ASSUME NEW a \in 1 .. Len(m), NEW b \in 1 .. Len(m), a < b
        PROVE  End(c[a]) < c[b].addr
    <3>1. CASE a = i
      BY <1>1, <1>2, <2>1, <3>1
    <3>2. CASE b = i
      BY <1>1, <1>2, <2>1, <3>2
    <3>3. CASE a # i /\ b # i
      BY <1>1, <1>2, <2>1, <3>3 DEF Ordered
    <3> QED BY <3>1, <3>2, <3>3
  <2> QED BY <1>2, <2>1 DEF Ordered
<1>4. /\ FreeUnits(c) = UNION {Units(c[j]) : j \in 1 .. Len(m)}
      /\ FreeUnits(m) = UNION {Units(m[j]) : j \in 1 .. Len(m)}
  BY <1>2 DEF FreeUnits
<1>5. FreeUnits(c) = FreeUnits(m) \cup Units(s)
  <2>1. ASSUME NEW u \in FreeUnits(c) PROVE u \in FreeUnits(m) \cup Units(s)
    BY <1>1, <1>4
  <2>2. ASSUME NEW u \in FreeUnits(m) \cup Units(s) PROVE u \in FreeUnits(c)
    BY <1>1, <1>4
  <2> QED BY <2>1, <2>2
<1> QED BY <1>1, <1>3, <1>5 DEF c

\* A free run that touches nothing becomes a segment.
LEMMA InsertedMap ==
    ASSUME NEW m \in Map, Ordered(m), NEW k \in 0 .. Len(m), NEW s \in Segment,
           \A j \in 1 .. Len(m) : j <= k => End(m[j]) < s.addr,
           \A j \in 1 .. Len(m) : k < j => End(s) < m[j].addr
    PROVE  /\ InsertAt(m, k + 1, s) \in Map /\ Ordered(InsertAt(m, k + 1, s))
           /\ Len(InsertAt(m, k + 1, s)) = Len(m) + 1
           /\ FreeUnits(InsertAt(m, k + 1, s)) = FreeUnits(m) \cup Units(s)
<1> DEFINE c == InsertAt(m, k + 1, s)
           f == [j \in 1 .. Len(m) |-> IF j <= k THEN j ELSE j + 1]
<1>1. Len(m) \in Nat /\ DOMAIN m = 1 .. Len(m) /\ k + 1 \in 1 .. Len(m) + 1
  BY MapFacts
<1>2. /\ c \in Map /\ Len(c) = Len(m) + 1
      /\ \A j \in 1 .. Len(m) + 1 :
            c[j] = IF j < k + 1 THEN m[j] ELSE IF j = k + 1 THEN s ELSE m[j - 1]
  BY <1>1, InsertAtMap
<1> HIDE DEF c
<1>3. DOMAIN c = 1 .. Len(m) + 1
  BY <1>2, MapFacts
<1>4. \A j \in 1 .. Len(m) + 1 :
         /\ j <= k => j \in 1 .. Len(m) /\ c[j] = m[j]
         /\ j = k + 1 => c[j] = s
         /\ j > k + 1 => j - 1 \in 1 .. Len(m) /\ c[j] = m[j - 1]
  BY <1>1, <1>2
<1>5. Ordered(c)
  <2>1. ASSUME NEW a \in 1 .. Len(m) + 1, NEW b \in 1 .. Len(m) + 1, a < b
        PROVE  End(c[a]) < c[b].addr
    <3>1. CASE a = k + 1
      BY <1>1, <1>4, <2>1, <3>1
    <3>2. CASE b = k + 1
      BY <1>1, <1>4, <2>1, <3>2
    <3>3. CASE a <= k /\ b <= k
      BY <1>1, <1>4, <2>1, <3>3 DEF Ordered
    <3>4. CASE a <= k /\ b > k + 1
      <4>1. b - 1 \in 1 .. Len(m) /\ a < b - 1 /\ c[b] = m[b - 1] /\ c[a] = m[a]
        BY <1>1, <1>4, <3>4
      <4> QED BY <1>1, <1>4, <3>4, <4>1 DEF Ordered
    <3>5. CASE a > k + 1 /\ b > k + 1
      <4>1. /\ a - 1 \in 1 .. Len(m) /\ b - 1 \in 1 .. Len(m) /\ a - 1 < b - 1
            /\ c[b] = m[b - 1] /\ c[a] = m[a - 1]
        BY <1>1, <1>4, <2>1, <3>5
      <4> QED BY <1>1, <4>1 DEF Ordered
    <3> QED BY <1>1, <2>1, <3>1, <3>2, <3>3, <3>4, <3>5
  <2> QED BY <1>3, <2>1 DEF Ordered
<1>6. /\ FreeUnits(c) = UNION {Units(c[j]) : j \in 1 .. Len(m) + 1}
      /\ FreeUnits(m) = UNION {Units(m[j]) : j \in 1 .. Len(m)}
  BY <1>1, <1>3 DEF FreeUnits
<1>7. ASSUME NEW u \in FreeUnits(c) PROVE u \in FreeUnits(m) \cup Units(s)
  <2>1. PICK j \in 1 .. Len(m) + 1 : u \in Units(c[j])
    BY <1>6
  <2>2. c[j] = s \/ \E l \in 1 .. Len(m) : c[j] = m[l]
    BY <1>1, <1>4
  <2> QED BY <1>6, <2>1, <2>2
<1>8. ASSUME NEW u \in FreeUnits(m) \cup Units(s) PROVE u \in FreeUnits(c)
  <2>1. CASE u \in Units(s)
    BY <1>1, <1>4, <1>6, <2>1
  <2>2. CASE u \in FreeUnits(m)
    <3>1. PICK l \in 1 .. Len(m) : u \in Units(m[l])
      BY <1>6, <2>2
    <3>2. CASE l <= k
      <4>1. l \in 1 .. Len(m) + 1 /\ c[l] = m[l]
        BY <1>1, <1>4, <3>2
      <4> QED BY <1>6, <3>1, <4>1
    <3>3. CASE l > k
      <4>1. l + 1 \in 1 .. Len(m) + 1 /\ c[l + 1] = m[l]
        BY <1>1, <1>2, <3>3
      <4> QED BY <1>6, <3>1, <4>1
    <3> QED BY <1>1, <3>2, <3>3
  <2> QED BY <2>1, <2>2
<1> QED BY <1>2, <1>5, <1>7, <1>8 DEF c

\* Units given up because no slot is left are lost, nothing else happens.
LEMMA DiscardMap ==
    ASSUME NEW m \in Map, Ordered(m)
    PROVE  /\ Discard(m) \in Map /\ Ordered(Discard(m))
           /\ FreeUnits(Discard(m)) \subseteq FreeUnits(m)
           /\ Len(m) < NSlot => Discard(m) = m /\ Len(Discard(m)) < NSlot
           /\ Len(m) = NSlot => Len(Discard(m)) < NSlot
<1>1. Len(m) \in Nat /\ NSlot \in Nat /\ NSlot >= 2
  BY MapFacts, RmapAssumption
<1>2. CASE Len(m) >= NSlot
  <2>1. Len(m) - 1 \in 1 .. Len(m)
    BY <1>1, <1>2
  <2>2. Discard(m) = RemoveAt(m, Len(m) - 1)
    BY <1>2 DEF Discard
  <2>3. /\ RemoveAt(m, Len(m) - 1) \in Map /\ Ordered(RemoveAt(m, Len(m) - 1))
        /\ Len(RemoveAt(m, Len(m) - 1)) = Len(m) - 1
        /\ FreeUnits(RemoveAt(m, Len(m) - 1)) \subseteq FreeUnits(m)
    BY <2>1, RemovedMap
  <2> QED BY <1>1, <1>2, <2>2, <2>3
<1>3. CASE Len(m) < NSlot
  BY <1>1, <1>3 DEF Discard
<1> QED BY <1>1, <1>2, <1>3

\* What rmfree knows of the segments around s once its checks have passed.
LEMMA Around ==
    ASSUME NEW m \in Map, Ordered(m), NEW s \in Segment, NEW k \in 0 .. Len(m),
           Behind(m, s, k), ~Bad(m, s, k)
    PROVE  /\ \A j \in 1 .. Len(m) : j <= k => End(m[j]) <= s.addr
           /\ \A j \in 1 .. Len(m) : j < k => End(m[j]) < s.addr
           /\ \A j \in 1 .. Len(m) : j > k => End(s) <= m[j].addr
           /\ \A j \in 1 .. Len(m) : j > k + 1 => End(s) < m[j].addr
           /\ ~AbutsLeft(m, s, k) =>
                 \A j \in 1 .. Len(m) : j <= k => End(m[j]) < s.addr
           /\ ~AbutsRight(m, s, k) =>
                 \A j \in 1 .. Len(m) : j > k => End(s) < m[j].addr
<1>1. /\ Len(m) \in Nat /\ DOMAIN m = 1 .. Len(m)
      /\ s.addr \in Nat /\ s.size \in Nat /\ End(s) \in Int
  BY MapFacts DEF Segment, End
<1>2. \A j \in 1 .. Len(m) : /\ m[j].addr \in Int /\ End(m[j]) \in Int
                             /\ m[j].addr < End(m[j])
  BY MapFacts DEF End
<1>3. k > 0 => k \in 1 .. Len(m) /\ End(m[k]) <= s.addr
  BY <1>1, <1>2 DEF Bad
<1>4. k < Len(m) => k + 1 \in 1 .. Len(m) /\ End(s) <= m[k + 1].addr
  BY <1>1, <1>2 DEF Bad
<1>5. \A i, j \in 1 .. Len(m) : i < j => End(m[i]) < m[j].addr
  BY <1>1 DEF Ordered
<1>6. ASSUME NEW j \in 1 .. Len(m), j < k PROVE End(m[j]) < s.addr
  BY <1>1, <1>2, <1>3, <1>5, <1>6
<1>7. ASSUME NEW j \in 1 .. Len(m), j > k + 1 PROVE End(s) < m[j].addr
  BY <1>1, <1>2, <1>4, <1>5, <1>7
<1>8. \A j \in 1 .. Len(m) : j <= k => j < k \/ j = k
  BY <1>1
<1>9. \A j \in 1 .. Len(m) : j > k => j > k + 1 \/ (j = k + 1 /\ k < Len(m))
  BY <1>1
<1>10. ~AbutsLeft(m, s, k) /\ k > 0 => End(m[k]) < s.addr
  BY <1>1, <1>2, <1>3 DEF AbutsLeft
<1>11. ~AbutsRight(m, s, k) /\ k < Len(m) => End(s) < m[k + 1].addr
  BY <1>1, <1>2, <1>4 DEF AbutsRight
<1>12. /\ \A j \in 1 .. Len(m) : j <= k => End(m[j]) <= s.addr
       /\ \A j \in 1 .. Len(m) : j > k => End(s) <= m[j].addr
  BY <1>1, <1>2, <1>3, <1>4, <1>6, <1>7, <1>8, <1>9
<1>13. ~AbutsLeft(m, s, k) => \A j \in 1 .. Len(m) : j <= k => End(m[j]) < s.addr
  BY <1>1, <1>6, <1>8, <1>10
<1>14. ~AbutsRight(m, s, k) => \A j \in 1 .. Len(m) : j > k => End(s) < m[j].addr
  BY <1>1, <1>7, <1>9, <1>11
<1> QED BY <1>6, <1>7, <1>12, <1>13, <1>14

\* Two runs that touch are one.
LEMMA TwoRuns ==
    ASSUME NEW s \in Segment, NEW r \in Segment, NEW t \in Segment,
           t.addr = s.addr, End(s) = r.addr, t.size = s.size + r.size
    PROVE  End(t) = End(r) /\ Units(t) = Units(s) \cup Units(r)
<1>1. /\ s.addr \in Int /\ s.size \in Int /\ s.size >= 0
      /\ r.addr \in Int /\ r.size \in Int /\ r.size >= 0
      /\ t.addr \in Int /\ t.size \in Int
  BY DEF Segment
<1>2. /\ End(s) = s.addr + s.size /\ End(r) = r.addr + r.size
      /\ End(t) = t.addr + t.size
  BY DEF End
<1>6. r.addr = s.addr + s.size
  BY <1>2
<1>3. End(t) = End(r) /\ End(s) \in Int /\ End(r) \in Int
  BY <1>1, <1>2, <1>6
<1>4. /\ Units(s) = s.addr .. End(s) - 1 /\ Units(r) = r.addr .. End(r) - 1
      /\ Units(t) = t.addr .. End(t) - 1
  BY DEF Units
<1>5. s.addr <= End(s) /\ End(s) <= End(r)
  BY <1>1, <1>2, <1>6
<1>8. \A a, b, c \in Int : a <= b /\ b <= c =>
         a .. c - 1 = (a .. b - 1) \cup (b .. c - 1)
  OBVIOUS
<1>7. s.addr .. End(r) - 1 = (s.addr .. End(s) - 1) \cup (End(s) .. End(r) - 1)
  BY <1>1, <1>3, <1>5, <1>8
<1> QED BY <1>3, <1>4, <1>7

\* Only the size of a segment changes.
LEMMA Resized ==
    ASSUME NEW m \in Map, NEW i \in 1 .. Len(m), NEW n
    PROVE  [m EXCEPT ![i].size = n]
              = [m EXCEPT ![i] = [addr |-> m[i].addr, size |-> n]]
<1>1. m[i] \in [addr : Nat \ {0}, size : Nat \ {0}]
  BY MapFacts DEF Segment
<1>2. [m[i] EXCEPT !.size = n] = [addr |-> m[i].addr, size |-> n]
  BY <1>1
<1> QED BY <1>2

\* A free run behind segment i, which it touches, becomes part of it.
LEMMA GrownBack ==
    ASSUME NEW m \in Map, Ordered(m), NEW i \in 1 .. Len(m), NEW s \in Segment,
           End(m[i]) = s.addr,
           \A j \in 1 .. Len(m) : i < j => End(s) < m[j].addr
    PROVE  LET c == [m EXCEPT ![i].size = m[i].size + s.size]
           IN  /\ c \in Map /\ Ordered(c) /\ Len(c) = Len(m)
               /\ FreeUnits(c) = FreeUnits(m) \cup Units(s)
<1> DEFINE t == [addr |-> m[i].addr, size |-> m[i].size + s.size]
<1>1. /\ m[i].addr \in Nat \ {0} /\ m[i].size \in Nat \ {0}
      /\ s.addr \in Nat \ {0} /\ s.size \in Nat \ {0}
      /\ Len(m) \in Nat /\ DOMAIN m = 1 .. Len(m)
  BY MapFacts DEF Segment
<1>2. t.addr = m[i].addr /\ t.size = m[i].size + s.size
  OBVIOUS
<1>3. t \in Segment
  BY <1>1 DEF Segment
<1>4. [m EXCEPT ![i].size = m[i].size + s.size] = [m EXCEPT ![i] = t]
  <2>1. \A n : [m EXCEPT ![i].size = n]
                = [m EXCEPT ![i] = [addr |-> m[i].addr, size |-> n]]
    BY Resized
  <2> QED BY <2>1
<1> HIDE DEF t
<1>5. m[i] \in Segment
  BY MapFacts
<1>7. End(t) = End(s) /\ Units(t) = Units(m[i]) \cup Units(s)
  BY <1>2, <1>3, <1>5, TwoRuns
<1>8. \A j \in 1 .. Len(m) : j < i => End(m[j]) < t.addr
  BY <1>1, <1>2 DEF Ordered
<1>9. \A j \in 1 .. Len(m) : i < j => End(t) < m[j].addr
  BY <1>7
<1>10. /\ [m EXCEPT ![i] = t] \in Map /\ Ordered([m EXCEPT ![i] = t])
       /\ Len([m EXCEPT ![i] = t]) = Len(m)
       /\ FreeUnits([m EXCEPT ![i] = t]) = FreeUnits(m) \cup Units(s)
  BY <1>3, <1>7, <1>8, <1>9, GrownMap
<1> QED BY <1>4, <1>10

\* A free run in front of segment i, which it touches, becomes part of it.
LEMMA GrownFront ==
    ASSUME NEW m \in Map, Ordered(m), NEW i \in 1 .. Len(m), NEW s \in Segment,
           End(s) = m[i].addr,
           \A j \in 1 .. Len(m) : j < i => End(m[j]) < s.addr
    PROVE  LET c == [m EXCEPT ![i] = [addr |-> s.addr, size |-> m[i].size + s.size]]
           IN  /\ c \in Map /\ Ordered(c) /\ Len(c) = Len(m)
               /\ FreeUnits(c) = FreeUnits(m) \cup Units(s)
<1> DEFINE t == [addr |-> s.addr, size |-> m[i].size + s.size]
<1>1. /\ m[i].addr \in Nat \ {0} /\ m[i].size \in Nat \ {0}
      /\ s.addr \in Nat \ {0} /\ s.size \in Nat \ {0}
      /\ Len(m) \in Nat /\ DOMAIN m = 1 .. Len(m)
  BY MapFacts DEF Segment
<1>2. t.addr = s.addr /\ t.size = m[i].size + s.size
  OBVIOUS
<1>3. t \in Segment
  BY <1>1 DEF Segment
<1> HIDE DEF t
<1>5. m[i] \in Segment
  BY MapFacts
<1>6. m[i].size + s.size = s.size + m[i].size
  BY <1>1
<1>7. End(t) = End(m[i]) /\ Units(t) = Units(s) \cup Units(m[i])
  BY <1>2, <1>3, <1>5, <1>6, TwoRuns
<1>8. \A j \in 1 .. Len(m) : j < i => End(m[j]) < t.addr
  BY <1>2
<1>9. \A j \in 1 .. Len(m) : i < j => End(t) < m[j].addr
  BY <1>1, <1>7 DEF Ordered
<1>10. Units(t) = Units(m[i]) \cup Units(s)
  BY <1>7
<1>11. /\ [m EXCEPT ![i] = t] \in Map /\ Ordered([m EXCEPT ![i] = t])
       /\ Len([m EXCEPT ![i] = t]) = Len(m)
       /\ FreeUnits([m EXCEPT ![i] = t]) = FreeUnits(m) \cup Units(s)
  BY <1>3, <1>8, <1>9, <1>10, GrownMap
<1> QED BY <1>11 DEF t

\* A run that fills the gap between two segments makes one of them.
LEMMA JoinMap ==
    ASSUME NEW m \in Map, Ordered(m), NEW s \in Segment, NEW k \in 0 .. Len(m),
           AbutsLeft(m, s, k), AbutsRight(m, s, k)
    PROVE  /\ Join(m, s, k) \in Map /\ Ordered(Join(m, s, k))
           /\ Len(Join(m, s, k)) = Len(m) - 1
           /\ FreeUnits(Join(m, s, k)) = FreeUnits(m) \cup Units(s)
<1> DEFINE r == m[k + 1]
           c == RemoveAt(m, k + 1)
           t == [addr |-> s.addr, size |-> s.size + r.size]
<1>1. /\ Len(m) \in Nat /\ DOMAIN m = 1 .. Len(m)
      /\ k \in 1 .. Len(m) /\ k + 1 \in 1 .. Len(m)
      /\ End(m[k]) = s.addr /\ End(s) = r.addr
  BY MapFacts DEF AbutsLeft, AbutsRight
<1>2. /\ s.addr \in Nat \ {0} /\ s.size \in Nat \ {0}
      /\ r.addr \in Nat \ {0} /\ r.size \in Nat \ {0}
      /\ m[k].size \in Nat
  BY <1>1, MapFacts DEF Segment
<1>3. /\ c \in Map /\ Ordered(c) /\ Len(c) = Len(m) - 1
      /\ FreeUnits(c) = FreeUnits(m) \ Units(r)
  BY <1>1, RemovedMap
<1>4. \A j \in 1 .. Len(m) - 1 : c[j] = IF j < k + 1 THEN m[j] ELSE m[j + 1]
  BY <1>1, RemoveAtMap
<1>5. Units(r) \subseteq FreeUnits(m)
  BY <1>1 DEF FreeUnits
<1>6. t.addr = s.addr /\ t.size = s.size + r.size /\ t \in Segment
  BY <1>2 DEF Segment
<1>15. r \in Segment
  BY <1>1, MapFacts
<1>7. Join(m, s, k) = [c EXCEPT ![k].size = @ + s.size + r.size]
  BY DEF Join
<1> HIDE DEF c, t, r
<1>8. k \in 1 .. Len(c) /\ c[k] = m[k]
  BY <1>1, <1>3, <1>4
<1>9. End(t) = End(r)
  BY <1>1, <1>6, <1>15, TwoRuns
<1>10. Units(t) = Units(s) \cup Units(r)
  BY <1>1, <1>6, <1>15, TwoRuns
<1>11. \A j \in 1 .. Len(c) : k < j => End(t) < c[j].addr
  <2> SUFFICES ASSUME NEW j \in 1 .. Len(c), k < j PROVE End(t) < c[j].addr
    OBVIOUS
  <2>1. j + 1 \in 1 .. Len(m) /\ k + 1 < j + 1 /\ c[j] = m[j + 1]
    BY <1>1, <1>3, <1>4
  <2> QED BY <1>1, <1>9, <2>1 DEF Ordered, r
<1>12. LET d == [c EXCEPT ![k].size = c[k].size + t.size]
       IN  /\ d \in Map /\ Ordered(d) /\ Len(d) = Len(c)
           /\ FreeUnits(d) = FreeUnits(c) \cup Units(t)
  BY <1>1, <1>3, <1>6, <1>8, <1>11, GrownBack
<1>13. c[k].size + s.size + r.size = c[k].size + t.size
  BY <1>2, <1>6, <1>8
<1>14. Join(m, s, k) = [c EXCEPT ![k].size = c[k].size + t.size]
  BY <1>7, <1>13
<1> QED BY <1>3, <1>5, <1>10, <1>12, <1>14

\* rmfree keeps the table in order.  Of the free units it adds only those of s,
\* and it loses units only if no slot is left.
LEMMA FreedMap ==
    ASSUME NEW m \in Map, Ordered(m), NEW s \in Segment, NEW k \in 0 .. Len(m),
           Behind(m, s, k), ~Bad(m, s, k)
    PROVE  /\ Freed(m, s, k) \in Map /\ Ordered(Freed(m, s, k))
           /\ FreeUnits(Freed(m, s, k)) \subseteq FreeUnits(m) \cup Units(s)
           /\ Len(m) + 1 < NSlot =>
                 FreeUnits(Freed(m, s, k)) = FreeUnits(m) \cup Units(s)
           /\ Len(m) < NSlot => Len(Freed(m, s, k)) < NSlot
<1>1. Len(m) \in Nat /\ DOMAIN m = 1 .. Len(m) /\ NSlot \in Nat
  BY MapFacts, RmapAssumption
<1>2. /\ \A j \in 1 .. Len(m) : j < k => End(m[j]) < s.addr
      /\ \A j \in 1 .. Len(m) : j > k + 1 => End(s) < m[j].addr
      /\ ~AbutsLeft(m, s, k) =>
            \A j \in 1 .. Len(m) : j <= k => End(m[j]) < s.addr
      /\ ~AbutsRight(m, s, k) =>
            \A j \in 1 .. Len(m) : j > k => End(s) < m[j].addr
  BY Around
<1>3. CASE AbutsLeft(m, s, k) /\ AbutsRight(m, s, k)
  <2>1. Freed(m, s, k) = Join(m, s, k)
    BY <1>3 DEF Freed
  <2>2. /\ Join(m, s, k) \in Map /\ Ordered(Join(m, s, k))
        /\ Len(Join(m, s, k)) = Len(m) - 1
        /\ FreeUnits(Join(m, s, k)) = FreeUnits(m) \cup Units(s)
    BY <1>3, JoinMap
  <2> QED BY <1>1, <2>1, <2>2
<1>4. CASE AbutsLeft(m, s, k) /\ ~AbutsRight(m, s, k)
  <2>1. Freed(m, s, k) = [m EXCEPT ![k].size = m[k].size + s.size]
    BY <1>4 DEF Freed
  <2>2. k \in 1 .. Len(m) /\ End(m[k]) = s.addr
    BY <1>1, <1>4 DEF AbutsLeft
  <2>3. LET c == [m EXCEPT ![k].size = m[k].size + s.size]
        IN  /\ c \in Map /\ Ordered(c) /\ Len(c) = Len(m)
            /\ FreeUnits(c) = FreeUnits(m) \cup Units(s)
    BY <1>2, <1>4, <2>2, GrownBack
  <2> QED BY <1>1, <2>1, <2>3
<1>5. CASE ~AbutsLeft(m, s, k) /\ AbutsRight(m, s, k)
  <2>1. Freed(m, s, k)
           = [m EXCEPT ![k + 1] = [addr |-> s.addr, size |-> m[k + 1].size + s.size]]
    BY <1>5 DEF Freed
  <2>2. k + 1 \in 1 .. Len(m) /\ End(s) = m[k + 1].addr
    BY <1>1, <1>5 DEF AbutsRight
  <2>3. \A j \in 1 .. Len(m) : j < k + 1 => End(m[j]) < s.addr
    BY <1>1, <1>2, <1>5
  <2>4. LET c == [m EXCEPT ![k + 1] = [addr |-> s.addr, size |-> m[k + 1].size + s.size]]
        IN  /\ c \in Map /\ Ordered(c) /\ Len(c) = Len(m)
            /\ FreeUnits(c) = FreeUnits(m) \cup Units(s)
    BY <2>2, <2>3, GrownFront
  <2> QED BY <1>1, <2>1, <2>4
<1>6. CASE ~AbutsLeft(m, s, k) /\ ~AbutsRight(m, s, k)
  <2> DEFINE c == InsertAt(m, k + 1, s)
  <2>1. Freed(m, s, k) = Discard(c)
    BY <1>6 DEF Freed
  <2>2. /\ c \in Map /\ Ordered(c) /\ Len(c) = Len(m) + 1
        /\ FreeUnits(c) = FreeUnits(m) \cup Units(s)
    BY <1>2, <1>6, InsertedMap
  <2> HIDE DEF c
  <2>3. /\ Discard(c) \in Map /\ Ordered(Discard(c))
        /\ FreeUnits(Discard(c)) \subseteq FreeUnits(c)
        /\ Len(c) < NSlot => Discard(c) = c /\ Len(Discard(c)) < NSlot
        /\ Len(c) = NSlot => Len(Discard(c)) < NSlot
    BY <2>2, DiscardMap
  <2> QED BY <1>1, <2>1, <2>2, <2>3
<1> QED BY <1>3, <1>4, <1>5, <1>6

\* rmget takes the units of s and no others.
LEMMA GotMap ==
    ASSUME NEW m \in Map, Ordered(m), NEW i \in 1 .. Len(m), NEW s \in Segment,
           Gettable(m, i, s)
    PROVE  /\ Got(m, i, s) \in Map /\ Ordered(Got(m, i, s))
           /\ FreeUnits(Got(m, i, s)) = FreeUnits(m) \ Units(s)
           /\ Units(s) \subseteq FreeUnits(m)
<1> DEFINE a == m[i]
<1>1. /\ Len(m) \in Nat /\ DOMAIN m = 1 .. Len(m)
      /\ a.addr \in Int /\ a.addr > 0 /\ a.size \in Int /\ a.size > 0
      /\ s.addr \in Int /\ s.addr > 0 /\ s.size \in Int /\ s.size > 0
  BY MapFacts DEF Segment
<1>2. End(a) = a.addr + a.size /\ End(s) = s.addr + s.size
  BY DEF End
<1>3. Units(a) = a.addr .. End(a) - 1 /\ Units(s) = s.addr .. End(s) - 1
  BY DEF Units
<1>4. Units(s) \subseteq FreeUnits(m) /\ Units(a) \subseteq FreeUnits(m)
  BY <1>1 DEF Gettable, FreeUnits
<1> HIDE DEF a
<1>5. a.addr <= s.addr /\ End(s) <= End(a)
  <2>1. Units(s) \subseteq Units(a)
    BY DEF Gettable, a
  <2>2. s.addr \in Units(s) /\ End(s) - 1 \in Units(s)
    BY <1>1, <1>2, <1>3
  <2>3. s.addr \in a.addr .. End(a) - 1 /\ End(s) - 1 \in a.addr .. End(a) - 1
    BY <1>3, <2>1, <2>2
  <2> QED BY <1>1, <1>2, <2>3
<1>6. CASE a.addr = s.addr
  <2>1. Got(m, i, s) = Cut(m, i, s.size)
    BY <1>6 DEF Got, a
  <2>2. s.size \in Nat \ {0} /\ s.size <= a.size
    BY <1>1, <1>2, <1>5, <1>6
  <2>3. /\ Cut(m, i, s.size) \in Map /\ Ordered(Cut(m, i, s.size))
        /\ FreeUnits(Cut(m, i, s.size))
              = FreeUnits(m) \ (a.addr .. a.addr + s.size - 1)
    BY <2>2, CutMap DEF a
  <2>5. a.addr + s.size = End(s)
    BY <1>1, <1>2, <1>6
  <2>4. a.addr .. a.addr + s.size - 1 = Units(s)
    BY <1>1, <1>3, <1>6, <2>5
  <2> QED BY <1>4, <2>1, <2>3, <2>4
<1>7. CASE a.addr # s.addr /\ End(a) = End(s)
  <2> DEFINE t == [addr |-> a.addr, size |-> a.size - s.size]
  <2>1. t.addr = a.addr /\ t.size = a.size - s.size
    OBVIOUS
  <2>2. Got(m, i, s) = [m EXCEPT ![i] = t]
    <3>1. \A n : [m EXCEPT ![i].size = n] = [m EXCEPT ![i] = [addr |-> a.addr, size |-> n]]
      BY Resized DEF a
    <3>2. Got(m, i, s) = [m EXCEPT ![i].size = a.size - s.size]
      BY <1>7 DEF Got, a
    <3> QED BY <3>1, <3>2
  <2>3. t \in Segment
    BY <1>1, <1>2, <1>5, <1>7 DEF Segment
  <2> HIDE DEF t
  <2>8. End(t) = t.addr + t.size /\ Units(t) = t.addr .. End(t) - 1
    BY DEF End, Units
  <2>4. End(t) = s.addr /\ Units(t) = t.addr .. End(t) - 1
    <3>1. a.addr + a.size = s.addr + s.size
      BY <1>2, <1>7
    <3>2. a.addr + (a.size - s.size) = s.addr
      BY <1>1, <3>1
    <3>3. t.addr + t.size = a.addr + (a.size - s.size)
      BY <2>1
    <3>4. End(t) = s.addr
      BY <2>8, <3>2, <3>3
    <3> QED BY <2>8, <3>4
  <2>5. a.addr <= t.addr /\ End(t) <= End(a)
    <3>1. s.addr <= s.addr + s.size
      BY <1>1
    <3>2. s.addr <= End(a)
      BY <1>2, <1>7, <3>1
    <3> QED BY <1>1, <2>1, <2>4, <3>2
  <2>6. Units(a) \ Units(t) = Units(s)
    BY <1>1, <1>2, <1>3, <1>5, <1>7, <2>1, <2>4
  <2>7. /\ [m EXCEPT ![i] = t] \in Map /\ Ordered([m EXCEPT ![i] = t])
        /\ FreeUnits([m EXCEPT ![i] = t]) = FreeUnits(m) \ (Units(a) \ Units(t))
    BY <2>3, <2>5, ShrunkMap DEF a
  <2> QED BY <1>4, <2>2, <2>6, <2>7
<1>8. CASE a.addr # s.addr /\ End(a) # End(s)
  <2> DEFINE t == [addr |-> a.addr, size |-> s.addr - a.addr]
             r == [addr |-> End(s), size |-> End(a) - End(s)]
             c == [m EXCEPT ![i] = t]
  <2>1. /\ t.addr = a.addr /\ t.size = s.addr - a.addr
        /\ r.addr = End(s) /\ r.size = End(a) - End(s)
    OBVIOUS
  <2>2. Got(m, i, s) = InsertAt(c, i + 1, r)
    <3>1. \A n : [m EXCEPT ![i].size = n] = [m EXCEPT ![i] = [addr |-> a.addr, size |-> n]]
      BY Resized DEF a
    <3>2. Got(m, i, s) = InsertAt([m EXCEPT ![i].size = s.addr - a.addr], i + 1, r)
      BY <1>8 DEF Got, Split, a
    <3> QED BY <3>1, <3>2
  <2>3. t \in Segment /\ r \in Segment
    BY <1>1, <1>2, <1>5, <1>8 DEF Segment
  <2> HIDE DEF t, r
  <2>4. /\ End(t) = s.addr /\ Units(t) = t.addr .. End(t) - 1
        /\ End(r) = End(a) /\ Units(r) = r.addr .. End(r) - 1
    BY <1>1, <1>2, <2>1 DEF End, Units
  <2>5. a.addr <= t.addr /\ End(t) <= End(a)
    BY <1>1, <1>2, <1>5, <2>1, <2>4
  <2>6. /\ c \in Map /\ Ordered(c) /\ Len(c) = Len(m)
        /\ FreeUnits(c) = FreeUnits(m) \ (Units(a) \ Units(t))
    BY <2>3, <2>5, ShrunkMap DEF a
  <2>7. \A j \in 1 .. Len(m) : c[j] = IF j = i THEN t ELSE m[j]
    BY <2>3, ChangeMap
  <2> HIDE DEF c
  <2>8. \A j \in 1 .. Len(c) : j <= i => End(c[j]) < r.addr
    <3> SUFFICES ASSUME NEW j \in 1 .. Len(c), j <= i PROVE End(c[j]) < r.addr
      OBVIOUS
    <3>1. CASE j = i
      BY <1>1, <1>2, <2>1, <2>4, <2>6, <2>7, <3>1
    <3>2. CASE j # i
      <4>1. End(m[j]) < a.addr /\ c[j] = m[j] /\ m[j].addr \in Int /\ m[j].size \in Int
        BY <1>1, <2>6, <2>7, <3>2, MapFacts DEF Ordered, a
      <4>2. End(m[j]) \in Int
        BY <4>1 DEF End
      <4> QED BY <1>1, <1>2, <1>5, <2>1, <4>1, <4>2
    <3> QED BY <3>1, <3>2
  <2>9. \A j \in 1 .. Len(c) : i < j => End(r) < c[j].addr
    BY <1>1, <2>4, <2>6, <2>7 DEF Ordered, a
  <2>10. i \in 0 .. Len(c)
    BY <1>1, <2>6
  <2>11. /\ InsertAt(c, i + 1, r) \in Map /\ Ordered(InsertAt(c, i + 1, r))
         /\ FreeUnits(InsertAt(c, i + 1, r)) = FreeUnits(c) \cup Units(r)
    BY <2>3, <2>6, <2>8, <2>9, <2>10, InsertedMap
  <2>12. /\ Units(a) \ Units(t) = Units(s) \cup Units(r)
         /\ Units(s) \cap Units(r) = {}
         /\ Units(r) \subseteq Units(a)
    <3>1. \A w, x, y, z \in Int : w <= x /\ x <= y /\ y <= z =>
             /\ (w .. z - 1) \ (w .. x - 1) = (x .. y - 1) \cup (y .. z - 1)
             /\ (x .. y - 1) \cap (y .. z - 1) = {}
             /\ y .. z - 1 \subseteq w .. z - 1
      OBVIOUS
    <3>2. /\ a.addr \in Int /\ s.addr \in Int /\ End(s) \in Int /\ End(a) \in Int
          /\ a.addr <= s.addr /\ s.addr <= End(s) /\ End(s) <= End(a)
      BY <1>1, <1>2, <1>5
    <3>3. /\ Units(t) = a.addr .. s.addr - 1
          /\ Units(r) = End(s) .. End(a) - 1
      BY <2>1, <2>4
    <3> QED BY <1>3, <3>1, <3>2, <3>3
  <2>13. FreeUnits(c) \cup Units(r) = FreeUnits(m) \ Units(s)
    BY <1>4, <2>6, <2>12
  <2> QED BY <1>4, <2>2, <2>11, <2>13
<1> QED BY <1>6, <1>7, <1>8

\* rmalloc out of a segment that reaches into the next stripe: the front stays
\* and the run is taken behind it.
LEMMA TrimmedMap ==
    ASSUME NEW m \in Map, Ordered(m), NEW i \in 1 .. Len(m), Crosses(m[i])
    PROVE  /\ Trimmed(m, i) \in Map /\ Ordered(Trimmed(m, i))
           /\ Len(Trimmed(m, i)) = Len(m)
           /\ FreeUnits(Trimmed(m, i)) = FreeUnits(m) \ (Base(m[i]) .. End(m[i]) - 1)
           /\ Base(m[i]) .. End(m[i]) - 1 \subseteq FreeUnits(m)
           /\ First(m[i]) \in Nat \ {0} /\ First(m[i]) < m[i].size
           /\ Base(m[i]) = m[i].addr + First(m[i])
<1> DEFINE a == m[i]
           t == [addr |-> a.addr, size |-> First(a)]
<1>1. /\ Len(m) \in Nat /\ DOMAIN m = 1 .. Len(m)
      /\ a.addr \in Int /\ a.addr > 0 /\ a.size \in Int /\ a.size > 0
  BY MapFacts
<1>2. First(a) \in Int /\ First(a) > 0 /\ First(a) < a.size
  <2>1. Dmmax \in Int /\ Dmmax > 0
    BY RmapAssumption
  <2>2. a.addr % Dmmax \in Int /\ a.addr % Dmmax < Dmmax
    BY <1>1, <2>1
  <2> QED BY <2>1, <2>2 DEF First, Crosses
<1>3. Base(a) = a.addr + First(a)
  BY DEF Base
<1>4. End(a) = a.addr + a.size /\ Units(a) = a.addr .. End(a) - 1
  BY DEF End, Units
<1>5. Units(a) \subseteq FreeUnits(m)
  BY <1>1 DEF FreeUnits
<1>6. t.addr = a.addr /\ t.size = First(a)
  OBVIOUS
<1>7. t \in Segment
  BY <1>1, <1>2 DEF Segment
<1>8. Trimmed(m, i) = [m EXCEPT ![i] = t]
  <2>1. \A n : [m EXCEPT ![i].size = n] = [m EXCEPT ![i] = [addr |-> a.addr, size |-> n]]
    BY Resized
  <2> QED BY <2>1 DEF Trimmed
<1> HIDE DEF a, t
<1>9. End(t) = Base(a) /\ Units(t) = t.addr .. End(t) - 1
  BY <1>1, <1>2, <1>3, <1>6 DEF End, Units
<1>10. a.addr <= t.addr /\ End(t) <= End(a)
  BY <1>1, <1>2, <1>3, <1>4, <1>6, <1>9
<1>11. /\ [m EXCEPT ![i] = t] \in Map /\ Ordered([m EXCEPT ![i] = t])
       /\ Len([m EXCEPT ![i] = t]) = Len(m)
       /\ FreeUnits([m EXCEPT ![i] = t]) = FreeUnits(m) \ (Units(a) \ Units(t))
  BY <1>7, <1>10, ShrunkMap DEF a
<1>12. /\ Units(a) \ Units(t) = Base(a) .. End(a) - 1
       /\ Base(a) .. End(a) - 1 \subseteq Units(a)
  BY <1>1, <1>2, <1>3, <1>4, <1>6, <1>9
<1>13. First(a) \in Nat \ {0} /\ First(a) < a.size
  BY <1>2
<1>14. /\ FreeUnits(Trimmed(m, i)) = FreeUnits(m) \ (Base(a) .. End(a) - 1)
       /\ Base(a) .. End(a) - 1 \subseteq FreeUnits(m)
  BY <1>5, <1>8, <1>11, <1>12
<1>15. /\ Trimmed(m, i) \in Map /\ Ordered(Trimmed(m, i))
       /\ Len(Trimmed(m, i)) = Len(m)
  BY <1>8, <1>11
<1> QED BY <1>3, <1>13, <1>14, <1>15 DEF a

------------------------------------------------------------------------------
(* The invariant: well-formed tables whose segments nobody else has.         *)

IInv == TypeOK /\ Sorted /\ Exclusive

LEMMA SegmentFacts ==
    ASSUME NEW s \in Segment
    PROVE  /\ s.addr \in Int /\ s.addr > 0 /\ s.size \in Int /\ s.size > 0
           /\ End(s) = s.addr + s.size /\ Units(s) = s.addr .. End(s) - 1
           /\ s.addr \in Units(s) /\ End(s) - 1 \in Units(s)
           /\ Units(s) \subseteq Nat \ {0}
<1>1. s.addr \in Int /\ s.addr > 0 /\ s.size \in Int /\ s.size > 0
  BY DEF Segment
<1>2. End(s) = s.addr + s.size /\ Units(s) = s.addr .. End(s) - 1
  BY DEF End, Units
<1> QED BY <1>1, <1>2

\* What the callers ask for is a segment.
LEMMA Asked ==
    ASSUME TypeOK
    PROVE  Sizes \subseteq Nat \ {0} /\ Runs \subseteq Segment
<1>1. FreeUnits(map) \subseteq Nat \ {0}
  <2>1. \A i \in DOMAIN map : Units(map[i]) \subseteq Nat \ {0}
    BY MapFacts, SegmentFacts DEF TypeOK
  <2> QED BY <2>1 DEF FreeUnits
<1>2. UNION {Units(s) : s \in held} \subseteq Nat \ {0}
  BY SegmentFacts DEF TypeOK
<1>3. Space \subseteq Nat \ {0}
  BY <1>1, <1>2 DEF Space
<1>4. Sizes \subseteq Nat \ {0}
  BY <1>3 DEF Sizes
<1> QED BY <1>3, <1>4 DEF Runs, Segment

\* Any way to give a free run away is sound.
LEMMA Gives ==
    ASSUME IInv, NEW s \in Segment, Units(s) \subseteq FreeUnits(map),
           map' \in Map, Ordered(map'), held' = held \cup {s},
           FreeUnits(map') \subseteq FreeUnits(map) \ Units(s)
    PROVE  IInv' /\ Abstract!Allocate
<1>1. TypeOK'
  BY DEF IInv, TypeOK
<1>2. Sorted'
  BY DEF Sorted
<1>3. HeldUnits' = HeldUnits \cup Units(s)
  BY DEF HeldUnits
<1>4. FreeUnits(map) \cap HeldUnits = {}
  BY DEF IInv, Exclusive
<1>5. FreeUnits(map') \cap HeldUnits' = {}
  BY <1>3, <1>4
<1>6. \A t \in held : Units(t) \cap Units(s) = {}
  BY <1>4 DEF HeldUnits
<1>7. Exclusive'
  <2>1. \A t, u \in held' : t # u => Units(t) \cap Units(u) = {}
    BY <1>6 DEF IInv, Exclusive
  <2> QED BY <1>5, <2>1 DEF Exclusive
<1>8. Abstract!Allocate
  <2>1. s.addr \in FreeUnits(map) /\ End(s) - 1 \in FreeUnits(map)
    BY SegmentFacts
  <2>2. s.addr <= End(s) - 1 /\ Units(s) = s.addr .. End(s) - 1
    BY SegmentFacts
  <2> QED BY <1>3, <2>1, <2>2 DEF Abstract!Allocate
<1> QED BY <1>1, <1>2, <1>7, <1>8 DEF IInv

\* Any way to take a run back is sound.
LEMMA Takes ==
    ASSUME IInv, NEW s \in held, map' \in Map, Ordered(map'), held' = held \ {s},
           FreeUnits(map') \subseteq FreeUnits(map) \cup Units(s)
    PROVE  IInv' /\ Abstract!Release
<1>1. TypeOK' /\ s \in Segment
  BY DEF IInv, TypeOK
<1>2. Sorted'
  BY DEF Sorted
<1>3. \A t \in held' : Units(t) \cap Units(s) = {}
  BY DEF IInv, Exclusive
<1>4. HeldUnits' = HeldUnits \ Units(s) /\ Units(s) \subseteq HeldUnits
  BY <1>3 DEF HeldUnits
<1>5. FreeUnits(map) \cap HeldUnits = {}
  BY DEF IInv, Exclusive
<1>6. FreeUnits(map') \cap HeldUnits' = {}
  BY <1>4, <1>5
<1>7. Exclusive'
  <2>1. \A t, u \in held' : t # u => Units(t) \cap Units(u) = {}
    BY DEF IInv, Exclusive
  <2> QED BY <1>6, <2>1 DEF Exclusive
<1>8. Abstract!Release
  <2>1. s.addr \in HeldUnits /\ End(s) - 1 \in HeldUnits
    BY <1>1, <1>4, SegmentFacts
  <2>2. s.addr <= End(s) - 1 /\ Units(s) = s.addr .. End(s) - 1
    BY <1>1, SegmentFacts
  <2> QED BY <1>4, <2>1, <2>2 DEF Abstract!Release
<1> QED BY <1>1, <1>2, <1>7, <1>8 DEF IInv

\* What every step does: one of the two, on a table that stays within its slots
\* and loses units only when there is none to spare.
Moves(s) ==
    \/ /\ s \in Segment /\ Units(s) \subseteq FreeUnits(map)
       /\ held' = held \cup {s}
       /\ FreeUnits(map') \subseteq FreeUnits(map) \ Units(s)
       /\ Len(map) + 1 < NSlot => FreeUnits(map') = FreeUnits(map) \ Units(s)
    \/ /\ s \in held /\ held' = held \ {s}
       /\ FreeUnits(map') \subseteq FreeUnits(map) \cup Units(s)
       /\ Len(map) + 1 < NSlot => FreeUnits(map') = FreeUnits(map) \cup Units(s)

Step ==
    /\ map' \in Map /\ Ordered(map')
    /\ ~Gets /\ Len(map) < NSlot => Len(map') < NSlot
    /\ \E s : Moves(s)

LEMMA FrontStep ==
    ASSUME IInv, NEW size \in Nat \ {0}, RmallocFront(size)
    PROVE  Step
<1>1. map \in Map /\ Ordered(map) /\ DOMAIN map = 1 .. Len(map) /\ Len(map) \in Nat
  BY MapFacts DEF IInv, TypeOK, Sorted
<1>2. PICK i \in 1 .. Len(map) :
         /\ FirstFit(map, size, i) /\ ~Crosses(map[i])
         /\ map' = Cut(map, i, size)
         /\ held' = held \cup {[addr |-> Base(map[i]), size |-> size]}
  BY <1>1 DEF RmallocFront
<1> DEFINE s == [addr |-> map[i].addr, size |-> size]
<1>3. /\ map[i] \in Segment /\ map[i].size \in Nat /\ size <= map[i].size
      /\ Base(map[i]) = map[i].addr
  BY <1>1, <1>2, MapFacts DEF FirstFit, Fits, Base
<1>4. s \in Segment /\ s.addr = map[i].addr /\ s.size = size
  BY <1>3 DEF Segment
<1>5. held' = held \cup {s}
  BY <1>2, <1>3
<1> HIDE DEF s
<1>6. Units(s) = map[i].addr .. map[i].addr + size - 1
  <2>1. Units(s) = s.addr .. End(s) - 1 /\ End(s) = s.addr + s.size
    BY <1>4, SegmentFacts
  <2>2. End(s) = map[i].addr + size /\ map[i].addr \in Int
    BY <1>3, <1>4, <2>1, SegmentFacts
  <2> QED BY <1>4, <2>1, <2>2
<1>7. Units(s) \subseteq Units(map[i])
  <2>1. /\ map[i].addr \in Int /\ End(map[i]) = map[i].addr + map[i].size
        /\ Units(map[i]) = map[i].addr .. End(map[i]) - 1
    BY <1>3, SegmentFacts
  <2> QED BY <1>3, <1>6, <2>1
<1>8. Units(s) \subseteq FreeUnits(map)
  BY <1>1, <1>7 DEF FreeUnits
<1>9. /\ map' \in Map /\ Ordered(map') /\ Len(map') <= Len(map)
      /\ FreeUnits(map') = FreeUnits(map) \ Units(s)
  BY <1>1, <1>2, <1>3, <1>6, CutMap
<1>10. Moves(s)
  BY <1>4, <1>5, <1>8, <1>9 DEF Moves
<1>11. Len(map') \in Nat /\ NSlot \in Nat
  BY <1>9, MapFacts, RmapAssumption
<1> QED BY <1>1, <1>9, <1>10, <1>11 DEF Step

LEMMA StripeStep ==
    ASSUME IInv, NEW size \in Nat \ {0}, RmallocStripe(size)
    PROVE  Step
<1>1. map \in Map /\ Ordered(map) /\ DOMAIN map = 1 .. Len(map) /\ Len(map) \in Nat
  BY MapFacts DEF IInv, TypeOK, Sorted
<1>2. PICK i \in 1 .. Len(map) :
         /\ FirstFit(map, size, i) /\ Crosses(map[i])
         /\ held' = held \cup {[addr |-> Base(map[i]), size |-> size]}
         /\ IF Rest(map[i], size).size = 0 THEN map' = Trimmed(map, i)
            ELSE \E k \in 0 .. Len(map) :
                    /\ Behind(Trimmed(map, i), Rest(map[i], size), k)
                    /\ ~Bad(Trimmed(map, i), Rest(map[i], size), k)
                    /\ map' = Freed(Trimmed(map, i), Rest(map[i], size), k)
  BY <1>1 DEF RmallocStripe
<1> DEFINE a == map[i]
           t == Trimmed(map, i)
           s == [addr |-> Base(a), size |-> size]
           r == Rest(a, size)
<1>3. /\ t \in Map /\ Ordered(t) /\ Len(t) = Len(map)
      /\ FreeUnits(t) = FreeUnits(map) \ (Base(a) .. End(a) - 1)
      /\ Base(a) .. End(a) - 1 \subseteq FreeUnits(map)
      /\ First(a) \in Nat \ {0} /\ First(a) < a.size
      /\ Base(a) = a.addr + First(a)
  BY <1>1, <1>2, TrimmedMap
<1>4. /\ a \in Segment /\ a.addr \in Int /\ a.addr > 0 /\ a.size \in Int
      /\ End(a) = a.addr + a.size
  BY <1>1, MapFacts, SegmentFacts
<1>5. a.size - First(a) >= size
  BY <1>2 DEF FirstFit, Fits
<1>6. /\ r.addr = Base(a) + size /\ r.size = a.size - First(a) - size
      /\ s.addr = Base(a) /\ s.size = size
  BY DEF Rest
<1>7. s \in Segment /\ r.size \in Nat /\ r.addr \in Nat \ {0}
  BY <1>3, <1>4, <1>5, <1>6 DEF Segment
<1>8. r.size # 0 => r \in Segment
  BY <1>7 DEF Segment, Rest
<1>9. /\ held' = held \cup {s}
      /\ r.size = 0 => map' = t
      /\ r.size # 0 => \E k \in 0 .. Len(map) :
                          Behind(t, r, k) /\ ~Bad(t, r, k) /\ map' = Freed(t, r, k)
  BY <1>2
<1> HIDE DEF a, t, s, r
<1>10. Units(s) = Base(a) .. Base(a) + size - 1
  BY <1>6, <1>7, SegmentFacts
<1>11. Base(a) \in Int /\ First(a) \in Int /\ Base(a) + size <= End(a)
  BY <1>3, <1>4, <1>5
<1>12. Units(s) \subseteq FreeUnits(map)
  BY <1>3, <1>4, <1>10, <1>11
<1>13. NSlot \in Nat
  BY RmapAssumption
<1>14. /\ map' \in Map /\ Ordered(map')
       /\ Len(map) < NSlot => Len(map') < NSlot
       /\ FreeUnits(map') \subseteq FreeUnits(map) \ Units(s)
       /\ Len(map) + 1 < NSlot => FreeUnits(map') = FreeUnits(map) \ Units(s)
  <2>1. CASE r.size = 0
    <3>1. Units(s) = Base(a) .. End(a) - 1
      <4>1. First(a) \in Int /\ size \in Int /\ a.size - First(a) - size = 0
        BY <1>3, <1>6, <2>1
      <4>2. Base(a) + size = End(a)
        BY <1>3, <1>4, <4>1
      <4> QED BY <1>10, <1>11, <4>1, <4>2
    <3> QED BY <1>3, <1>9, <2>1, <3>1
  <2>2. CASE r.size # 0
    <3>1. PICK k \in 0 .. Len(t) :
             Behind(t, r, k) /\ ~Bad(t, r, k) /\ map' = Freed(t, r, k)
      BY <1>3, <1>9, <2>2
    <3>2. /\ map' \in Map /\ Ordered(map')
          /\ FreeUnits(map') \subseteq FreeUnits(t) \cup Units(r)
          /\ Len(t) + 1 < NSlot => FreeUnits(map') = FreeUnits(t) \cup Units(r)
          /\ Len(t) < NSlot => Len(map') < NSlot
      BY <1>3, <1>8, <2>2, <3>1, FreedMap
    <3>3. End(r) = End(a) /\ Units(r) = r.addr .. End(r) - 1
      <4>1. End(r) = r.addr + r.size /\ Units(r) = r.addr .. End(r) - 1
        BY <1>8, <2>2, SegmentFacts
      <4> QED BY <1>3, <1>4, <1>6, <1>11, <4>1
    <3>4. Units(r) = Base(a) + size .. End(a) - 1
      BY <1>6, <3>3
    <3>5. /\ Base(a) .. End(a) - 1 = Units(s) \cup Units(r)
          /\ Units(s) \cap Units(r) = {}
      BY <1>4, <1>10, <1>11, <3>4
    <3>6. FreeUnits(t) \cup Units(r) = FreeUnits(map) \ Units(s)
      BY <1>3, <3>5
    <3> QED BY <1>3, <3>2, <3>6
  <2> QED BY <2>1, <2>2
<1>15. Moves(s)
  BY <1>7, <1>9, <1>12, <1>14 DEF Moves
<1> QED BY <1>14, <1>15 DEF Step

LEMMA FreeStep ==
    ASSUME IInv, NEW s \in held, Rmfree(s)
    PROVE  Step
<1>1. map \in Map /\ Ordered(map) /\ s \in Segment
  BY DEF IInv, TypeOK, Sorted
<1>2. PICK k \in 0 .. Len(map) :
         Behind(map, s, k) /\ ~Bad(map, s, k) /\ map' = Freed(map, s, k)
  BY DEF Rmfree
<1>3. /\ map' \in Map /\ Ordered(map')
      /\ FreeUnits(map') \subseteq FreeUnits(map) \cup Units(s)
      /\ Len(map) + 1 < NSlot => FreeUnits(map') = FreeUnits(map) \cup Units(s)
      /\ Len(map) < NSlot => Len(map') < NSlot
  BY <1>1, <1>2, FreedMap
<1>4. held' = held \ {s}
  BY DEF Rmfree
<1> QED BY <1>3, <1>4 DEF Step, Moves

LEMMA GetStep ==
    ASSUME IInv, NEW s \in Segment, Rmget(s)
    PROVE  Step
<1>1. map \in Map /\ Ordered(map) /\ DOMAIN map = 1 .. Len(map)
  BY MapFacts DEF IInv, TypeOK, Sorted
<1>2. PICK i \in 1 .. Len(map) : Gettable(map, i, s) /\ map' = Got(map, i, s)
  BY <1>1 DEF Rmget
<1>3. /\ map' \in Map /\ Ordered(map')
      /\ FreeUnits(map') = FreeUnits(map) \ Units(s)
      /\ Units(s) \subseteq FreeUnits(map)
  BY <1>1, <1>2, GotMap
<1>4. held' = held \cup {s} /\ Gets
  BY DEF Rmget
<1> QED BY <1>3, <1>4 DEF Step, Moves

LEMMA NextStep ==
    ASSUME IInv, Next
    PROVE  Step
<1>1. Sizes \subseteq Nat \ {0} /\ Runs \subseteq Segment
  BY Asked DEF IInv
<1>2. CASE \E size \in Sizes : Rmalloc(size)
  BY <1>1, <1>2, FrontStep, StripeStep DEF Rmalloc
<1>3. CASE \E s \in held : Rmfree(s)
  BY <1>3, FreeStep
<1>4. CASE \E s \in Runs : Rmget(s)
  BY <1>1, <1>4, GetStep
<1> QED BY <1>2, <1>3, <1>4 DEF Next

LEMMA StepKeeps ==
    ASSUME IInv, Step
    PROVE  IInv' /\ (Abstract!Allocate \/ Abstract!Release)
<1>1. PICK s : Moves(s)
  BY DEF Step
<1>2. map' \in Map /\ Ordered(map')
  BY DEF Step
<1> QED BY <1>1, <1>2, Gives, Takes DEF Moves

LEMMA InitIInv == Init => IInv
<1> SUFFICES ASSUME Init PROVE IInv
  OBVIOUS
<1>1. map = <<Initial>> /\ held = Later /\ Initial \in Segment /\ Later \subseteq Segment
  BY ResourceMapAssumption DEF Init
<1>2. map \in Map /\ Len(map) = 1 /\ map[1] = Initial
  BY <1>1 DEF Map
<1>3. DOMAIN map = {1}
  BY <1>1
<1>4. Ordered(map)
  BY <1>3 DEF Ordered
<1>5. FreeUnits(map) = Units(Initial)
  BY <1>2, <1>3 DEF FreeUnits
<1>6. Exclusive
  BY <1>1, <1>5, ResourceMapAssumption DEF Exclusive, HeldUnits
<1> QED BY <1>1, <1>2, <1>4, <1>6 DEF IInv, TypeOK, Sorted

LEMMA Stutters ==
    ASSUME IInv, UNCHANGED vars
    PROVE  IInv' /\ UNCHANGED <<FreeUnits(map), HeldUnits>>
BY DEF IInv, TypeOK, Sorted, Exclusive, HeldUnits, vars

LEMMA Inductive == Spec => []IInv
<1>1. IInv /\ [Next]_vars => IInv'
  BY NextStep, StepKeeps, Stutters
<1> QED BY InitIInv, <1>1, PTL DEF Spec

------------------------------------------------------------------------------
(* Theorems. *)

\* The table holds segments, in order and coalesced, as the searches of rmalloc,
\* rmfree and rmget rely on, and no unit has two owners.
THEOREM TableCorrect == Spec => []TableOK
BY Inductive, PTL DEF IInv, TableOK

\* Every call is an allocation or a release of the abstract free space.
THEOREM Implements == Spec => ImplementsFreeSpace
<1>1. Init => FreeUnits(map) \cap HeldUnits = {}
  BY InitIInv DEF IInv, Exclusive
<1>2. IInv /\ [Next]_vars =>
         [Abstract!Allocate \/ Abstract!Release]_<<FreeUnits(map), HeldUnits>>
  BY NextStep, StepKeeps, Stutters
<1> QED BY Inductive, <1>1, <1>2, PTL DEF Spec, ImplementsFreeSpace, Abstract!Spec

\* Without rmget the table and its delimiter never leave the array.
THEOREM NeverPastTheArray == ~Gets => (Spec => []InArray)
<1> SUFFICES ASSUME ~Gets PROVE Spec => []InArray
  OBVIOUS
<1>1. Init => InArray
  <2> SUFFICES ASSUME Init PROVE InArray
    OBVIOUS
  <2>1. Len(map) = 1 /\ NSlot \in Nat /\ NSlot >= 2
    BY RmapAssumption DEF Init
  <2> QED BY <2>1 DEF InArray
<1>2. IInv /\ InArray /\ [Next]_vars => InArray'
  BY NextStep DEF Step, InArray, vars
<1> QED BY Inductive, <1>1, <1>2, PTL DEF Spec

\* Units are lost only by calls on a table without a slot to spare.
THEOREM LossNeedsFullTable == Spec => LosesOnlyWhenFull
<1>1. IInv /\ [Next]_vars => [Len(map) + 1 < NSlot => Space' = Space]_vars
  <2> SUFFICES ASSUME IInv, Next, Len(map) + 1 < NSlot
               PROVE  Space' = Space
    BY DEF Space, vars
  <2>1. PICK s : Moves(s)
    BY NextStep DEF Step
  <2>2. Space = FreeUnits(map) \cup HeldUnits /\ Space' = FreeUnits(map') \cup HeldUnits'
    BY DEF Space, HeldUnits
  <2>3. CASE /\ Units(s) \subseteq FreeUnits(map)
             /\ held' = held \cup {s}
             /\ FreeUnits(map') = FreeUnits(map) \ Units(s)
    <3>1. HeldUnits' = HeldUnits \cup Units(s)
      BY <2>3 DEF HeldUnits
    <3> QED BY <2>2, <2>3, <3>1
  <2>4. CASE /\ s \in held /\ held' = held \ {s}
             /\ FreeUnits(map') = FreeUnits(map) \cup Units(s)
    <3>1. HeldUnits = HeldUnits' \cup Units(s)
      BY <2>4 DEF HeldUnits
    <3> QED BY <2>2, <2>4, <3>1
  <2> QED BY <2>1, <2>3, <2>4 DEF Moves
<1> QED BY Inductive, <1>1, PTL DEF Spec, LosesOnlyWhenFull

\* rmfree panics for a run that overlaps the free space, and for no other.
THEOREM DoubleFreesCaught == Spec => []DoubleFreeCaught
<1>1. ASSUME IInv, NEW s \in Runs, NEW k \in 0 .. Len(map), Behind(map, s, k)
      PROVE  Bad(map, s, k) <=> Units(s) \cap FreeUnits(map) # {}
  <2>1. /\ map \in Map /\ Ordered(map) /\ s \in Segment
        /\ Len(map) \in Nat /\ DOMAIN map = 1 .. Len(map)
    BY <1>1, MapFacts, Asked DEF IInv, TypeOK, Sorted
  <2>2. \A j \in 1 .. Len(map) :
           /\ map[j].addr \in Int /\ End(map[j]) \in Int
           /\ \A u \in Int : map[j].addr <= u /\ u < End(map[j]) => u \in FreeUnits(map)
    <3>1. \A j \in 1 .. Len(map) : map[j] \in Segment
      BY <2>1, MapFacts
    <3>2. \A t \in Segment : t.addr \in Int /\ End(t) \in Int
      BY SegmentFacts
    <3>3. \A u : u \in FreeUnits(map) <=>
             \E j \in 1 .. Len(map) : u \in Int /\ map[j].addr <= u /\ u < End(map[j])
      BY <2>1, FreeUnitsAre
    <3> QED BY <3>1, <3>2, <3>3
  <2>3. /\ s.addr \in Int /\ End(s) \in Int /\ s.addr < End(s)
        /\ Units(s) = s.addr .. End(s) - 1
    BY <2>1, SegmentFacts
  <2>4. CASE k > 0 /\ End(map[k]) > s.addr
    <3>1. k \in 1 .. Len(map) /\ map[k].addr <= s.addr
      BY <1>1, <2>1, <2>4 DEF Behind
    <3>2. s.addr \in FreeUnits(map) /\ s.addr \in Units(s)
      BY <2>2, <2>3, <2>4, <3>1
    <3> QED BY <2>4, <3>2 DEF Bad
  <2>5. CASE k < Len(map) /\ End(s) > map[k + 1].addr
    <3>1. k + 1 \in 1 .. Len(map) /\ s.addr < map[k + 1].addr
      BY <1>1, <2>1, <2>5 DEF Behind
    <3>2. map[k + 1].addr < End(map[k + 1])
      BY <2>1, <3>1, MapFacts, SegmentFacts
    <3>3. map[k + 1].addr \in FreeUnits(map) /\ map[k + 1].addr \in Units(s)
      BY <2>2, <2>3, <2>5, <3>1, <3>2
    <3> QED BY <2>5, <3>3 DEF Bad
  <2>6. CASE ~Bad(map, s, k)
    <3>1. /\ \A j \in 1 .. Len(map) : j <= k => End(map[j]) <= s.addr
          /\ \A j \in 1 .. Len(map) : j > k => End(s) <= map[j].addr
      BY <1>1, <2>1, <2>6, Around
    <3>2. ASSUME NEW u \in Units(s), u \in FreeUnits(map) PROVE FALSE
      <4>1. PICK j \in 1 .. Len(map) : u \in Int /\ map[j].addr <= u /\ u < End(map[j])
        BY <2>1, <3>2, FreeUnitsAre
      <4>2. s.addr <= u /\ u < End(s)
        BY <2>3, <4>1
      <4>3. CASE j <= k
        BY <2>2, <2>3, <3>1, <4>1, <4>2, <4>3
      <4>4. CASE j > k
        BY <2>2, <2>3, <3>1, <4>1, <4>2, <4>4
      <4> QED BY <2>1, <4>3, <4>4
    <3> QED BY <2>6, <3>2
  <2> QED BY <2>4, <2>5, <2>6 DEF Bad
<1>2. IInv => DoubleFreeCaught
  BY <1>1 DEF DoubleFreeCaught
<1> QED BY Inductive, <1>2, PTL

\* In a map that is not striped a run that could be given lies in one segment,
\* since no two segments abut.
LEMMA RunInSegment ==
    ASSUME IInv, ~Striped, NEW size \in Sizes, NEW a \in Possible(size)
    PROVE  \E i \in 1 .. Len(map) : map[i].addr <= a /\ Fits(map[i], size)
<1>1. /\ map \in Map /\ Ordered(map) /\ size \in Nat \ {0}
      /\ Len(map) \in Nat /\ DOMAIN map = 1 .. Len(map)
  BY MapFacts, Asked DEF IInv, TypeOK, Sorted
<1>2. a \in FreeUnits(map) /\ a .. a + size - 1 \subseteq FreeUnits(map)
  BY DEF Possible
<1>3. PICK i \in 1 .. Len(map) : a \in Int /\ map[i].addr <= a /\ a < End(map[i])
  BY <1>1, <1>2, FreeUnitsAre
<1>4. \A j \in 1 .. Len(map) :
         /\ map[j].addr \in Int /\ End(map[j]) \in Int /\ map[j].size \in Int
         /\ map[j].addr < End(map[j]) /\ End(map[j]) = map[j].addr + map[j].size
  BY <1>1, MapFacts, SegmentFacts
<1>5. End(map[i]) \notin FreeUnits(map)
  <2> SUFFICES ASSUME End(map[i]) \in FreeUnits(map) PROVE FALSE
    OBVIOUS
  <2>1. PICK j \in 1 .. Len(map) :
           map[j].addr <= End(map[i]) /\ End(map[i]) < End(map[j])
    BY <1>1, FreeUnitsAre
  <2>2. /\ i < j => End(map[i]) < map[j].addr
        /\ j < i => End(map[j]) < map[i].addr
    BY <1>1 DEF Ordered
  <2>3. i \in Int /\ j \in Int /\ (i < j \/ j < i \/ i = j)
    BY <1>1
  <2> QED BY <1>4, <2>1, <2>2, <2>3
<1>6. a + size <= End(map[i])
  BY <1>1, <1>2, <1>3, <1>4, <1>5
<1>7. map[i].size >= size
  BY <1>1, <1>3, <1>4, <1>6
<1> QED BY <1>3, <1>7 DEF Fits, Crosses

\* In a map that is not striped a request fails only if no run is large enough,
\* and gets the one with the lowest address (subr_rmap.c:77, "first-fit").
THEOREM PlainMapsFitFirst == ~Striped => (Spec => []FirstFitExact)
<1> SUFFICES ASSUME ~Striped PROVE Spec => []FirstFitExact
  OBVIOUS
<1>1. ASSUME IInv PROVE FailsOnlyIfNone
  <2>1. DOMAIN map = 1 .. Len(map)
    BY <1>1, MapFacts DEF IInv, TypeOK
  <2> QED BY <1>1, <2>1, RunInSegment DEF FailsOnlyIfNone
<1>2. ASSUME IInv, NEW size \in Sizes, NEW i \in DOMAIN map, FirstFit(map, size, i)
      PROVE  Base(map[i]) = Min(Possible(size))
  <2>1. /\ map \in Map /\ Ordered(map) /\ size \in Nat \ {0}
        /\ Len(map) \in Nat /\ DOMAIN map = 1 .. Len(map)
    BY <1>2, MapFacts, Asked DEF IInv, TypeOK, Sorted
  <2>2. \A j \in 1 .. Len(map) :
           /\ map[j].addr \in Int /\ End(map[j]) \in Int /\ map[j].size \in Int
           /\ map[j].addr < End(map[j]) /\ End(map[j]) = map[j].addr + map[j].size
           /\ Units(map[j]) = map[j].addr .. End(map[j]) - 1
    <3> TAKE j \in 1 .. Len(map)
    <3>1. map[j] \in Segment
      BY <2>1, MapFacts
    <3> QED BY <3>1, SegmentFacts
  <2>3. i \in 1 .. Len(map) /\ map[i].size >= size /\ Base(map[i]) = map[i].addr
    BY <1>2, <2>1 DEF FirstFit, Fits, Base, Crosses
  <2>4. map[i].addr \in Possible(size)
    <3>1. map[i].addr .. map[i].addr + size - 1 \subseteq Units(map[i])
      BY <2>1, <2>2, <2>3
    <3>2. Units(map[i]) \subseteq FreeUnits(map)
      BY <2>1, <2>3 DEF FreeUnits
    <3>3. map[i].addr \in map[i].addr .. map[i].addr + size - 1
      BY <2>1, <2>2, <2>3
    <3> QED BY <3>1, <3>2, <3>3 DEF Possible
  <2>5. ASSUME NEW a \in Possible(size) PROVE a \in Int /\ map[i].addr <= a
    <3>1. a \in Int
      BY <2>1, <2>5, FreeUnitsAre DEF Possible
    <3>2. PICK j \in 1 .. Len(map) : map[j].addr <= a /\ Fits(map[j], size)
      BY <1>2, <2>5, RunInSegment
    <3>3. ~(j \in 1 .. i - 1)
      BY <1>2, <3>2 DEF FirstFit
    <3>4. i = j \/ i < j
      BY <2>1, <2>3, <3>3
    <3>5. i < j => End(map[i]) < map[j].addr
      BY <2>1, <2>3 DEF Ordered
    <3> QED BY <2>2, <2>3, <3>1, <3>2, <3>4, <3>5
  <2>6. \A x \in Possible(size) :
           (\A y \in Possible(size) : x <= y) => x = map[i].addr
    BY <2>2, <2>3, <2>4, <2>5
  <2>7. Min(Possible(size)) = map[i].addr
    BY <2>4, <2>5, <2>6 DEF Min
  <2> QED BY <2>3, <2>7
<1>3. IInv => FirstFitExact
  BY <1>1, <1>2 DEF FirstFitExact, LowestRun
<1> QED BY Inductive, <1>3, PTL

------------------------------------------------------------------------------
(* Stripes. *)

\* Division by the size of a stripe.
LEMMA StripeFacts ==
    ASSUME NEW a \in Nat
    PROVE  /\ Dmmax \in Nat \ {0}
           /\ Stripe(a) \in Nat /\ a % Dmmax \in Nat /\ a % Dmmax < Dmmax
           /\ a = Dmmax * Stripe(a) + (a % Dmmax)
<1>1. Dmmax \in Nat \ {0}
  BY RmapAssumption
<1>2. ASSUME NEW d \in Nat \ {0}
      PROVE  a \div d \in Nat
  OBVIOUS
<1>3. ASSUME NEW d \in Nat \ {0}
      PROVE  a % d \in Nat /\ a % d < d
  OBVIOUS
<1>4. ASSUME NEW d \in Nat \ {0}
      PROVE  a = d * (a \div d) + (a % d)
  OBVIOUS
<1> QED BY <1>1, <1>2, <1>3, <1>4 DEF Stripe

\* A remainder is its own, and leaves the quotient.
LEMMA DivisionFacts ==
    ASSUME NEW d \in Nat \ {0}, NEW q \in Nat, NEW r \in Nat, r < d
    PROVE  (d * q + r) \div d = q /\ (d * q + r) % d = r
<1>1. (d * q + r) \div d = q
  OBVIOUS
<1>2. (d * q + r) % d = r
  OBVIOUS
<1> QED BY <1>1, <1>2

\* Units in front of the next boundary are in the stripe of the first one.
LEMMA SameStripe ==
    ASSUME NEW a \in Nat, NEW n \in Nat, (a % Dmmax) + n < Dmmax
    PROVE  Stripe(a + n) = Stripe(a)
<1> DEFINE q == Stripe(a)
           r == a % Dmmax
<1>1. /\ Dmmax \in Nat \ {0} /\ q \in Nat /\ r \in Nat
      /\ a = Dmmax * q + r /\ r + n < Dmmax
  BY StripeFacts
<1>2. Stripe(a + n) = (a + n) \div Dmmax
  BY DEF Stripe
<1> HIDE DEF q, r
<1>3. a + n = Dmmax * q + (r + n) /\ r + n \in Nat
  BY <1>1
<1>4. (Dmmax * q + (r + n)) \div Dmmax = q
  BY <1>1, <1>3, DivisionFacts
<1> QED BY <1>2, <1>3, <1>4 DEF q

\* The next boundary is the first unit of a stripe.
LEMMA NextBoundary ==
    ASSUME NEW s \in Segment
    PROVE  s.addr + First(s) \in Nat /\ (s.addr + First(s)) % Dmmax = 0
<1> DEFINE q == Stripe(s.addr)
           r == s.addr % Dmmax
<1>1. s.addr \in Nat
  BY DEF Segment
<1>2. /\ Dmmax \in Nat \ {0} /\ q \in Nat /\ r \in Nat
      /\ s.addr = Dmmax * q + r /\ First(s) = Dmmax - r
  BY <1>1, StripeFacts DEF First
<1> HIDE DEF q, r
<1>3. s.addr + First(s) = Dmmax * q + Dmmax
  BY <1>1, <1>2
<1>4. s.addr + First(s) = Dmmax * (q + 1) + 0 /\ q + 1 \in Nat
  BY <1>2, <1>3
<1>5. (Dmmax * (q + 1) + 0) % Dmmax = 0
  BY <1>2, <1>4, DivisionFacts
<1>6. Dmmax * q \in Nat
  BY <1>2
<1> QED BY <1>2, <1>3, <1>4, <1>5, <1>6

\* What rmalloc gives of a striped segment lies in one stripe.
LEMMA GivenInStripe ==
    ASSUME NEW s \in Segment, Striped, NEW size \in Nat \ {0}, size <= Dmmax,
           Fits(s, size)
    PROVE  /\ Base(s) \in Nat
           /\ Stripe(Base(s)) = Stripe(Base(s) + size - 1)
<1>1. /\ s.addr \in Nat /\ s.size \in Nat /\ s.size >= size
      /\ First(s) = Dmmax - (s.addr % Dmmax)
  BY DEF Segment, Fits, First
<1>2. Dmmax \in Nat \ {0} /\ s.addr % Dmmax \in Nat
  BY <1>1, StripeFacts
<1>3. Base(s) \in Nat /\ (Base(s) % Dmmax) + (size - 1) < Dmmax
  <2>1. CASE Crosses(s)
    BY <1>2, <2>1, NextBoundary DEF Base
  <2>2. CASE ~Crosses(s)
    <3>1. Base(s) = s.addr /\ ~(First(s) < s.size)
      BY <2>2 DEF Base, Crosses
    <3>2. ASSUME NEW r \in Nat, NEW d \in Nat, ~(d - r < s.size)
          PROVE  r + (size - 1) < d
      BY <1>1, <3>2
    <3> QED BY <1>1, <1>2, <3>1, <3>2
  <2> QED BY <2>1, <2>2
<1>4. Stripe(Base(s) + (size - 1)) = Stripe(Base(s))
  BY <1>3, SameStripe
<1>5. Base(s) + (size - 1) = Base(s) + size - 1
  BY <1>3
<1> QED BY <1>3, <1>4, <1>5

\* vm_sw.c:42-48 makes an error of a transfer that runs over the end of a stripe:
\* rmalloc never gives such a run of the swap space.
THEOREM SwapRunsInOneStripe == Spec => []InOneStripe
<1>1. Init => InOneStripe
  BY ResourceMapAssumption DEF Init, InOneStripe
<1>2. ASSUME IInv, InOneStripe, Next, Striped
      PROVE  InOneStripe'
  <2>1. /\ Sizes \subseteq Nat \ {0} /\ Swap
        /\ \A i \in DOMAIN map : map[i] \in Segment
    BY <1>2, Asked, MapFacts, ResourceMapAssumption DEF IInv, TypeOK
  <2>2. ASSUME NEW size \in Sizes, Rmalloc(size)
        PROVE  InOneStripe'
    <3>1. PICK i \in DOMAIN map :
             /\ Fits(map[i], size)
             /\ held' = held \cup {[addr |-> Base(map[i]), size |-> size]}
      BY <2>2 DEF Rmalloc, RmallocFront, RmallocStripe, FirstFit
    <3>2. size \in Nat \ {0} /\ size <= Dmmax /\ map[i] \in Segment
      BY <2>1, <2>2 DEF Rmalloc
    <3>3. /\ Base(map[i]) \in Nat
          /\ Stripe(Base(map[i])) = Stripe(Base(map[i]) + size - 1)
      BY <1>2, <3>1, <3>2, GivenInStripe
    <3> DEFINE t == [addr |-> Base(map[i]), size |-> size]
    <3>4. Stripe(t.addr) = Stripe(End(t) - 1)
      <4>1. t.addr = Base(map[i]) /\ End(t) - 1 = Base(map[i]) + size - 1
        BY <3>2, <3>3 DEF End
      <4> QED BY <3>3, <4>1
    <3> HIDE DEF t
    <3>5. \A s \in held' : s \in held \/ s = t
      BY <3>1 DEF t
    <3> QED BY <1>2, <3>4, <3>5 DEF InOneStripe
  <2>3. ASSUME NEW s \in held, Rmfree(s)
        PROVE  InOneStripe'
    BY <1>2, <2>3 DEF Rmfree, InOneStripe
  <2>4. ~(\E s \in Runs : Rmget(s))
    BY <2>1 DEF Rmget
  <2> QED BY <1>2, <2>2, <2>3, <2>4 DEF Next
<1>3. IInv /\ InOneStripe /\ [Next]_vars => InOneStripe'
  BY <1>2 DEF InOneStripe, vars
<1> QED BY Inductive, <1>1, <1>3, PTL DEF Spec

==============================================================================
