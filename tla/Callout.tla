------------------------------- MODULE Callout -------------------------------
(***************************************************************************)
(* The callout queue of kern_clock.c.                                      *)
(*                                                                         *)
(* timeout(fun, arg, t) asks for fun to be called with arg in t ticks of   *)
(* the clock.  The queue keeps the time of an entry as a difference to the *)
(* entry before it, so that the clock interrupt touches only its front;    *)
(* entries that are due but not yet run hold a time <= 0, minus how late   *)
(* they are.                                                               *)
(*                                                                         *)
(* Three levels of the machine meet here.  hardclock interrupts anything   *)
(* but an spl7 section; softclock runs at a low interrupt level, takes one *)
(* entry off the queue at spl7 and calls its function with the clock       *)
(* enabled; timeout and untimeout run whole at spl7, called from processes *)
(* and from the functions softclock calls.                                 *)
(*                                                                         *)
(* "left" is a history field: the ticks until the moment the caller asked  *)
(* for, counted down once a tick whatever the queue does.                  *)
(***************************************************************************)
EXTENDS Integers, SequencesExt

CONSTANTS
    Events,     \* the (function, argument) pairs that are timed out
    MaxTime,    \* bound: the longest interval a caller asks for
    NCallout,   \* slots in the callout table (ncallout)
    MaxLate     \* bound: ticks softclock is held off by higher levels

ASSUME CalloutAssumption ==
    /\ MaxTime \in Nat \ {0}
    /\ NCallout \in Nat \ {0}
    /\ MaxLate \in Nat \ {0}

VARIABLES
    calltodo,   \* the queue, a sequence of entries
    running,    \* the entry whose function softclock is in: <<>> or <<entry>>
    panicked    \* "timeout table overflow"

vars == <<calltodo, running, panicked>>

Entry == [ev : Events, time : Int, left : Int]

\* The table's free slots, the list callfree.
Callfree == NCallout - Len(calltodo)

TypeOK ==
    /\ calltodo \in Seq(Entry)
    /\ Callfree \in 0 .. NCallout
    /\ running \in Seq(Entry) /\ Len(running) <= 1
    /\ panicked \in BOOLEAN

Init ==
    /\ calltodo = <<>>
    /\ running = <<>>
    /\ panicked = FALSE

------------------------------------------------------------------------------
(* The queue operations. *)

\* The ticks from now to entry i: the sum of the times still to come up to i.
Wait(q, i) ==
    FoldLeft(LAMBDA sum, e : sum + (IF e.time > 0 THEN e.time ELSE 0),
             0, SubSeq(q, 1, i))

\* The entries timeout's search steps over: those due strictly before t.
Before(q, t) ==
    CHOOSE i \in 0 .. Len(q) :
        /\ \A j \in 1 .. i : q[j].time < t - Wait(q, j - 1)
        /\ i < Len(q) => q[i + 1].time >= t - Wait(q, i)

\* Mutant: the successor keeps its difference to the entry before.
EnqueueKeepSuccessor(q, ev, ticks) ==
    LET t == IF ticks = 0 THEN 1 ELSE ticks
        i == Before(q, t)
    IN  InsertAt(q, i + 1, [ev |-> ev, time |-> t - Wait(q, i), left |-> t])

\* Put ev after those entries and make its successor relative to it.
Enqueue(q, ev, ticks) ==
    LET t == IF ticks = 0 THEN 1 ELSE ticks
        i == Before(q, t)
        d == t - Wait(q, i)
        successor == IF i < Len(q)
                     THEN [q EXCEPT ![i + 1].time = @ - d]
                     ELSE q
    IN  InsertAt(successor, i + 1, [ev |-> ev, time |-> d, left |-> t])

\* Take entry i off, its time passed on to the successor if still to come.
Dequeue(q, i) ==
    RemoveAt(IF i < Len(q) /\ q[i].time > 0
             THEN [q EXCEPT ![i + 1].time = @ + q[i].time]
             ELSE q,
             i)

\* hardclock counts the overdue entries down and stops at the first entry
\* that is not overdue after the decrement.
Tick(q) ==
    [i \in DOMAIN q |->
        [q[i] EXCEPT !.left = @ - 1,
                     !.time = IF \A j \in 1 .. i - 1 : q[j].time <= 0
                              THEN @ - 1 ELSE @]]

------------------------------------------------------------------------------
(* The actions. *)

\* Mutant: the table is not checked for a free slot.
TimeoutUnchecked(ev, t) ==
    /\ ~panicked
    /\ Len(calltodo) <= NCallout
    /\ calltodo' = Enqueue(calltodo, ev, t)
    /\ UNCHANGED <<running, panicked>>

\* timeout(), from a process or an interrupt; the table may be full.
Timeout(ev, t) ==
    /\ ~panicked
    /\ UNCHANGED running
    /\ \/ /\ Callfree > 0
          /\ calltodo' = Enqueue(calltodo, ev, t)
          /\ UNCHANGED panicked
       \/ /\ Callfree = 0
          /\ panicked' = TRUE
          /\ UNCHANGED calltodo

\* untimeout(): the first entry with this function and argument, if any.
Untimeout(ev) ==
    /\ ~panicked
    /\ \E i \in DOMAIN calltodo :
          /\ calltodo[i].ev = ev
          /\ \A j \in 1 .. i - 1 : calltodo[j].ev # ev
          /\ calltodo' = Dequeue(calltodo, i)
    /\ UNCHANGED <<running, panicked>>

\* The part of hardclock() that updates the queue.  The bound MaxLate says
\* how long the higher interrupt levels keep softclock from running.
Hardclock ==
    /\ ~panicked
    /\ \A i \in DOMAIN calltodo : calltodo[i].time > -MaxLate
    /\ calltodo' = Tick(calltodo)
    /\ UNCHANGED <<running, panicked>>

\* Mutant: only an entry due exactly now is taken.
SoftclockTakeExact ==
    /\ ~panicked
    /\ running = <<>>
    /\ calltodo # <<>>
    /\ Head(calltodo).time = 0
    /\ running' = <<Head(calltodo)>>
    /\ calltodo' = Tail(calltodo)
    /\ UNCHANGED panicked

\* softclock() takes a due entry off at spl7 ...
SoftclockTake ==
    /\ ~panicked
    /\ running = <<>>
    /\ calltodo # <<>>
    /\ Head(calltodo).time <= 0
    /\ running' = <<Head(calltodo)>>
    /\ calltodo' = Tail(calltodo)
    /\ UNCHANGED panicked

\* ... and calls its function, which may itself use the queue (Timeout and
\* Untimeout interleave with it) until it returns.
SoftclockReturn ==
    /\ ~panicked
    /\ running # <<>>
    /\ running' = <<>>
    /\ UNCHANGED <<calltodo, panicked>>

\* panic(): the machine is down.
Down == panicked /\ UNCHANGED vars

Next ==
    \/ \E ev \in Events, t \in 0 .. MaxTime : Timeout(ev, t)
    \/ \E ev \in Events : Untimeout(ev)
    \/ Hardclock
    \/ SoftclockTake
    \/ SoftclockReturn
    \/ Down

Spec == Init /\ [][Next]_vars

\* The clock keeps ticking; hardclock posts the software interrupt on every
\* tick, so softclock runs again while anything is due; and the functions it
\* calls return.
Fairness ==
    /\ WF_vars(Hardclock)
    /\ WF_vars(SoftclockTake)
    /\ WF_vars(SoftclockReturn)

FairSpec == Spec /\ Fairness

------------------------------------------------------------------------------
(* Properties. *)

\* The tick at which the queue makes entry i due, relative to now: late
\* entries at the front hold their lateness, the rest a sum of differences.
Due(q, i) ==
    IF \A j \in 1 .. i : q[j].time <= 0 THEN q[i].time ELSE Wait(q, i)

\* The differences always add up to the moment each caller asked for,
\* whatever timeout, untimeout, ticks and late running did to the
\* neighbours of an entry (kern_clock.c timeout, untimeout, hardclock).
DeadlinesExact == \A i \in DOMAIN calltodo : Due(calltodo, i) = calltodo[i].left

\* That stays so, and a function is never called before its time, and never
\* while an entry with an earlier deadline is still queued; the lateness passed
\* to it as its second argument is the true one (kern_clock.c softclock).
OnTime ==
    [][/\ DeadlinesExact'
       /\ SoftclockTake =>
             /\ Head(calltodo).left <= 0
             /\ Head(calltodo).time = Head(calltodo).left
             /\ \A i \in DOMAIN calltodo : Head(calltodo).left <= calltodo[i].left]_vars

Pending(ev) == \E i \in DOMAIN calltodo : calltodo[i].ev = ev
Runs(ev) == running # <<>> /\ running[1].ev = ev

\* What is timed out is called, unless its caller keeps cancelling it: no
\* mix of earlier insertions, cancellations of others and late ticks strands
\* an entry in the queue (kern_clock.c timeout, hardclock, softclock).
TimeoutsRun ==
    \A ev \in Events :
        \/ []<><<Untimeout(ev)>>_vars
        \/ Pending(ev) ~> Runs(ev) \/ ~Pending(ev) \/ panicked

==============================================================================
