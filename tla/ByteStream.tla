----------------------------- MODULE ByteStream -----------------------------
(***************************************************************************)
(* What a stream socket promises the two users of a connection             *)
(* (tcp_input.c, tcp_output.c): each one is handed what the other wrote,   *)
(* in order, without gap or repetition, and is told that the stream has    *)
(* ended only when it has been handed all of it.  The program says nothing *)
(* of when: that is a property of its own.                                 *)
(***************************************************************************)
EXTENDS Naturals, Sequences

CONSTANTS
    Ends,       \* the two ends of the connection
    Peer(_)     \* the other end

VARIABLES
    wrote,      \* wrote[e]: the number of bytes the user of e has written
    over,       \* over[e]: that user will write no more
    given,      \* given[e]: the bytes handed to the user of e
    told        \* told[e]: that user has been told that there are no more

vars == <<wrote, over, given, told>>

\* The bytes of a user are numbered in the order it writes them.
Stream(n) == [i \in 1..n |-> i]

Init ==
    /\ wrote = [e \in Ends |-> 0]
    /\ over = [e \in Ends |-> FALSE]
    /\ given = [e \in Ends |-> <<>>]
    /\ told = [e \in Ends |-> FALSE]

Write(e) ==
    /\ ~over[e]
    /\ wrote'[e] \in Nat /\ wrote'[e] > wrote[e]
    /\ wrote' = [wrote EXCEPT ![e] = wrote'[e]]
    /\ UNCHANGED <<over, given, told>>

\* The user is done, or the connection is gone.
Finish(e) ==
    /\ over' = [over EXCEPT ![e] = TRUE]
    /\ UNCHANGED <<wrote, given, told>>

\* More of the stream, or its end, or both at once; the same step may be
\* the last of this end.
Hand(e) ==
    /\ ~told[e]
    /\ \E n \in Len(given[e])..wrote[Peer(e)]:
          /\ given' = [given EXCEPT ![e] = Stream(n)]
          /\ \/ told' = told
             \/ /\ over[Peer(e)] /\ n = wrote[Peer(e)]
                /\ told' = [told EXCEPT ![e] = TRUE]
    /\ over' \in {over, [over EXCEPT ![e] = TRUE]}
    /\ UNCHANGED wrote

Next == \E e \in Ends: Write(e) \/ Finish(e) \/ Hand(e)

Spec == Init /\ [][Next]_vars

\* What has been handed to a user is the first of what the other wrote, and
\* all of it once the user has been told that this is the end.
Kept ==
    \A e \in Ends:
       \E n \in 0..wrote[Peer(e)]:
          /\ given[e] = Stream(n)
          /\ told[e] => over[Peer(e)] /\ n = wrote[Peer(e)]

\* Nothing handed over is taken back, and nothing follows the end.
Final ==
    [][\A e \in Ends: /\ Len(given[e]) <= Len(given'[e])
                      /\ told[e] => told'[e] /\ given'[e] = given[e]]_vars
=============================================================================
