---------------------------- MODULE MCBufferCache ----------------------------
(* Instances of the buffer cache for TLC.  Processes and buffers are         *)
(* interchangeable: nothing in BufferCache chooses among them by name.       *)
EXTENDS BufferCache, TLC

Symmetric == Permutations(Procs) \cup Permutations(Bufs)

==============================================================================
