----------------------------- MODULE ResourceMap -----------------------------
(* A resource map of subr_rmap.c and the callers that allocate from it and   *)
(* give back what they got: the swap space (vm_drum.c, vm_sw.c), the page    *)
(* tables of the kernel (vm_pt.c, vm_mem.c), mbuf pages (uipc_mbuf.c) and    *)
(* the UNIBUS maps (uba.c).  Every caller runs a routine to its end at a     *)
(* priority that keeps the others out, so each call is one step.             *)
EXTENDS Rmap

CONSTANTS
    Initial,  \* the segment rminit puts into the map
    Later,    \* segments rmfree'd into it later (swfree, for each stripe)
    Swap,     \* mp == swapmap
    Gets      \* rmget is called (ubamem)

ASSUME ResourceMapAssumption ==
    /\ Initial \in Segment
    /\ Later \subseteq Segment
    /\ \A s \in Later : Units(s) \cap Units(Initial) = {}
    /\ \A s, t \in Later : s # t => Units(s) \cap Units(t) = {}
    /\ Swap \in BOOLEAN /\ Gets \in BOOLEAN
    /\ Striped => Swap
    /\ Striped => \A s \in Later : Stripe(s.addr) = Stripe(End(s) - 1)

VARIABLES
    map,  \* the segments of the table
    held  \* the segments the callers have

vars == <<map, held>>

\* rminit.  A segment that is to be added later is as good as held.
Init == map = <<Initial>> /\ held = Later

\* rmalloc, from a segment that stays in one stripe.
RmallocFront(size) ==
    \E i \in DOMAIN map :
        /\ FirstFit(map, size, i)
        /\ ~Crosses(map[i])
        /\ map' = Cut(map, i, size)
        /\ held' = held \cup {[addr |-> Base(map[i]), size |-> size]}

\* Mutant: the rest of the segment is forgotten.
RmallocStripeLeak(size) ==
    \E i \in DOMAIN map :
        /\ FirstFit(map, size, i)
        /\ Crosses(map[i])
        /\ held' = held \cup {[addr |-> Base(map[i]), size |-> size]}
        /\ map' = Trimmed(map, i)

\* rmalloc, from the next stripe; what is left behind is freed again.
RmallocStripe(size) ==
    \E i \in DOMAIN map :
        LET rest == Rest(map[i], size)
        IN  /\ FirstFit(map, size, i)
            /\ Crosses(map[i])
            /\ held' = held \cup {[addr |-> Base(map[i]), size |-> size]}
            /\ IF rest.size = 0 THEN map' = Trimmed(map, i)
               ELSE \E k \in 0 .. Len(map) :
                       /\ Behind(Trimmed(map, i), rest, k)
                       /\ ~Bad(Trimmed(map, i), rest, k)
                       /\ map' = Freed(Trimmed(map, i), rest, k)

\* A larger request for swap space panics; one that finds no segment gets 0.
Rmalloc(size) ==
    /\ Swap => size <= Dmmax
    /\ RmallocFront(size) \/ RmallocStripe(size)

Rmfree(s) ==
    /\ s \in held
    /\ \E k \in 0 .. Len(map) :
          /\ Behind(map, s, k)
          /\ ~Bad(map, s, k)
          /\ map' = Freed(map, s, k)
    /\ held' = held \ {s}

\* rmget: the units at the given address, or none.
Rmget(s) ==
    /\ Gets /\ ~Swap
    /\ \E i \in DOMAIN map : Gettable(map, i, s) /\ map' = Got(map, i, s)
    /\ held' = held \cup {s}

\* The sizes and addresses that make sense in this map.
Space == FreeUnits(map) \cup UNION {Units(s) : s \in held}
Sizes == {n \in {hi - lo + 1 : lo, hi \in Space} : n > 0}
Runs == [addr : Space, size : Sizes]

Next ==
    \/ \E size \in Sizes : Rmalloc(size)
    \/ \E s \in held : Rmfree(s)
    \/ \E s \in Runs : Rmget(s)

Spec == Init /\ [][Next]_vars

------------------------------------------------------------------------------
(* Properties. *)

HeldUnits == UNION {Units(s) : s \in held}

TypeOK == map \in Map /\ held \subseteq Segment

\* The searches rely on it: the segments are in the order of their addresses,
\* and no two abut, so that what is free in one piece is one segment.
Sorted == Ordered(map)

\* subr_rmap.c:57-58 (rminit): "We insure that we never use segments past the
\* end of the array which is given by mp->m_limit."  The delimiter has a slot.
InArray == Len(map) < NSlot

\* Nothing is in two hands, or in the map and in a hand.
Exclusive ==
    /\ FreeUnits(map) \cap HeldUnits = {}
    /\ \A s, t \in held : s # t => Units(s) \cap Units(t) = {}

\* The table and the runs of the callers agree: a sorted, coalesced table of
\* segments, and one owner for every unit (subr_rmap.c).
TableOK == TypeOK /\ Sorted /\ Exclusive

\* A run that overlaps the free space is refused by rmfree wherever the search
\* stops, and no other run is: a double free never corrupts the table.
DoubleFreeCaught ==
    \A s \in Runs : \A k \in 0 .. Len(map) :
        Behind(map, s, k) =>
            (Bad(map, s, k) <=> Units(s) \cap FreeUnits(map) # {})

\* Units are lost only by a call that needs one more segment than there are
\* slots for (map.h: "then some of the resource is discarded").
LosesOnlyWhenFull ==
    [][Len(map) + 1 < NSlot => Space' = Space]_vars

\* The runs rmalloc may return: free units, in swap space within a stripe.
Possible(size) ==
    {a \in FreeUnits(map) :
        /\ a .. a + size - 1 \subseteq FreeUnits(map)
        /\ Striped => Stripe(a) = Stripe(a + size - 1)}

\* subr_rmap.c:95-96: "Search for a piece of the resource map which has enough
\* free space to accomodate the request."  A request fails only if there is no
\* run it could be given.
FailsOnlyIfNone ==
    \A size \in {n \in Sizes : Swap => n <= Dmmax} :
        Possible(size) # {} => \E i \in DOMAIN map : Fits(map[i], size)

\* subr_rmap.c:77: "Algorithm is first-fit."  So it gets the run with the lowest
\* address.
LowestRun ==
    \A size \in Sizes : \A i \in DOMAIN map :
        FirstFit(map, size, i) => Base(map[i]) = Min(Possible(size))

\* Both: what can be given is given, from the lowest address.
FirstFitExact == FailsOnlyIfNone /\ LowestRun

\* vm_sw.c:42-48: a transfer that runs over the end of a stripe is an error, so
\* what rmalloc gives of an interleaved swap space must not.
InOneStripe ==
    Striped => \A s \in held : Stripe(s.addr) = Stripe(End(s) - 1)

\* The map implements the promise to its callers.
Abstract == INSTANCE FreeSpace WITH free <- FreeUnits(map), used <- HeldUnits
ImplementsFreeSpace == Abstract!Spec

==============================================================================
