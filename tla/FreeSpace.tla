------------------------------ MODULE FreeSpace ------------------------------
(* What a resource map promises its callers: units of a resource are free,   *)
(* in use, or lost, a unit is never given to a second caller before it is    *)
(* returned, and whoever asks gets a run of neighbouring units.              *)
EXTENDS Integers

VARIABLES
    free,  \* the units that can be had
    used   \* the units callers have

\* A caller is given a run.  Free units may be lost meanwhile, used ones not.
Allocate ==
    \E lo \in free : \E hi \in free :
        /\ lo <= hi
        /\ lo .. hi \subseteq free
        /\ used' = used \cup (lo .. hi)
        /\ free' \subseteq free \ (lo .. hi)

\* A caller returns a run.
Release ==
    \E lo \in used : \E hi \in used :
        /\ lo <= hi
        /\ lo .. hi \subseteq used
        /\ used' = used \ (lo .. hi)
        /\ free' \subseteq free \cup (lo .. hi)

Spec == free \cap used = {} /\ [][Allocate \/ Release]_<<free, used>>

==============================================================================
