---------------------------- MODULE MCInodeCache ----------------------------
(* Instances of InodeCache for TLC.                                          *)
EXTENDS InodeCache, TLC

CONSTANTS p1, p2

\* One process makes and opens files, another removes and syncs them.
FilesCalls ==
    (p1 :> {"open", "creat", "link", "close"}) @@ (p2 :> {"unlink", "sync"})

\* Two processes make files, in different directories.
GroupCalls == (p1 :> {"creat", "close"}) @@ (p2 :> {"creat", "close"})

Symmetric == Permutations(Slots) \cup Permutations(Files) \cup Permutations(Dirs)
==============================================================================
