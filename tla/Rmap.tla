-------------------------------- MODULE Rmap --------------------------------
(* The tables of subr_rmap.c as values: a map is the sequence of its         *)
(* segments, without the delimiter, whose slot and all the slots behind it   *)
(* are zero.  The operators give the table a routine leaves behind; the      *)
(* callers (ResourceMap, Unibus) make actions of them.                       *)
EXTENDS Integers, Sequences, SequencesExt

CONSTANTS
    NSlot,    \* slots for the segments and the delimiter: mapsize - 1
    Striped,  \* mp == swapmap && nswdev > 1
    Dmmax     \* size of a stripe of the swap space

ASSUME RmapAssumption ==
    /\ NSlot \in Nat /\ NSlot >= 2
    /\ Striped \in BOOLEAN
    /\ Dmmax \in Nat \ {0}

\* Address 0 is no address: it marks the delimiter.
Segment == [addr : Nat \ {0}, size : Nat \ {0}]
Map == Seq(Segment)

End(s) == s.addr + s.size
Units(s) == s.addr .. End(s) - 1
FreeUnits(m) == UNION {Units(m[i]) : i \in DOMAIN m}

Stripe(a) == a \div Dmmax

\* In the order of their addresses, with a gap between any two.
Ordered(m) == \A i, j \in DOMAIN m : i < j => End(m[i]) < m[j].addr

------------------------------------------------------------------------------
(* rmalloc *)

\* The distance to the next stripe, and whether the segment reaches it.
First(s) == Dmmax - (s.addr % Dmmax)
Crosses(s) == Striped /\ First(s) < s.size

\* rmalloc stops at this segment.
Fits(s, size) ==
    /\ s.size >= size
    /\ Crosses(s) => s.size - First(s) >= size

\* Mutant: the last segment that fits.
FirstFitLast(m, size, i) ==
    /\ Fits(m[i], size)
    /\ \A j \in i + 1 .. Len(m) : ~Fits(m[j], size)

\* Segment i is the first that fits.
FirstFit(m, size, i) ==
    /\ Fits(m[i], size)
    /\ \A j \in 1 .. i - 1 : ~Fits(m[j], size)

\* Mutant: the stripes are ignored.
BaseUnstriped(s) == s.addr

\* The address rmalloc returns from the segment.
Base(s) == IF Crosses(s) THEN s.addr + First(s) ELSE s.addr

\* Units are taken off the front of segment i, which goes when none is left.
Cut(m, i, size) ==
    IF m[i].size = size THEN RemoveAt(m, i)
    ELSE [m EXCEPT ![i] = [addr |-> @.addr + size, size |-> @.size - size]]

\* What a striped segment keeps in front of the next stripe, and what is left
\* behind the units taken (perhaps nothing).
Trimmed(m, i) == [m EXCEPT ![i].size = First(m[i])]
Rest(s, size) == [addr |-> Base(s) + size, size |-> s.size - First(s) - size]

------------------------------------------------------------------------------
(* rmfree *)

\* The search for the segments around s stops behind the first k.
Behind(m, s, k) ==
    /\ \A i \in 1 .. k : m[i].addr <= s.addr
    /\ k < Len(m) => s.addr < m[k + 1].addr

\* Mutant: only the segment on the left is looked at.
BadLeft(m, s, k) == k > 0 /\ End(m[k]) > s.addr

\* "bad rmfree": s and a neighbour overlap.
Bad(m, s, k) ==
    \/ k > 0 /\ End(m[k]) > s.addr
    \/ k < Len(m) /\ End(s) > m[k + 1].addr

AbutsLeft(m, s, k) == k > 0 /\ End(m[k]) = s.addr
AbutsRight(m, s, k) == k < Len(m) /\ End(s) = m[k + 1].addr

\* Mutant: the test for overflow is off by one.
DiscardLate(m) == IF Len(m) > NSlot THEN RemoveAt(m, Len(m) - 1) ELSE m

\* No slot is left for the delimiter: the last segment but one is lost.
Discard(m) == IF Len(m) >= NSlot THEN RemoveAt(m, Len(m) - 1) ELSE m

\* Mutant: the segment on the right is not merged with the one on the left.
JoinLeftOnly(m, s, k) == [m EXCEPT ![k].size = @ + s.size]

\* Mutant: the slots behind the merged segment are not moved.
JoinKeep(m, s, k) == [m EXCEPT ![k].size = @ + s.size + m[k + 1].size]

\* s closes the gap between two segments.
Join(m, s, k) ==
    [RemoveAt(m, k + 1) EXCEPT ![k].size = @ + s.size + m[k + 1].size]

\* s is put back behind the first k segments.
Freed(m, s, k) ==
    IF AbutsLeft(m, s, k)
    THEN IF AbutsRight(m, s, k) THEN Join(m, s, k)
         ELSE [m EXCEPT ![k].size = @ + s.size]
    ELSE IF AbutsRight(m, s, k)
         THEN [m EXCEPT ![k + 1] = [addr |-> s.addr, size |-> @.size + s.size]]
         ELSE Discard(InsertAt(m, k + 1, s))

------------------------------------------------------------------------------
(* rmget *)

\* Units in the middle of segment i are taken: the rest becomes a segment.
Split(m, i, s) ==
    InsertAt([m EXCEPT ![i].size = s.addr - m[i].addr], i + 1,
             [addr |-> End(s), size |-> End(m[i]) - End(s)])

\* The table without s, which lies in segment i.
Got(m, i, s) ==
    IF m[i].addr = s.addr THEN Cut(m, i, s.size)
    ELSE IF End(m[i]) = End(s)
         THEN [m EXCEPT ![i].size = @ - s.size]
         ELSE Split(m, i, s)

\* rmget gives s out of segment i: the last condition is its test for a full
\* table, which counts the slot of the delimiter as free.
Gettable(m, i, s) ==
    /\ Units(s) \subseteq Units(m[i])
    /\ m[i].addr # s.addr /\ End(m[i]) # End(s) => Len(m) # NSlot

==============================================================================
