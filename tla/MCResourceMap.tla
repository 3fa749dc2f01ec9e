---------------------------- MODULE MCResourceMap ----------------------------
(* Instances of ResourceMap for TLC.                                         *)
EXTENDS ResourceMap

Seg(a, n) == [addr |-> a, size |-> n]

\* One map that starts whole.
WholeInitial == Seg(1, 9)
WholeLater == {}

\* Two interleaved swap devices, three stripes of four units, of the first only
\* the upper half: swfree adds the others one by one.
SwapInitial == Seg(2, 2)
SwapLater == {Seg(4, 4), Seg(8, 4)}

==============================================================================
