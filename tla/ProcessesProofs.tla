-------------------------- MODULE ProcessesProofs --------------------------
(***************************************************************************)
(* Type correctness, the run and sleep queues, signals, and parents and    *)
(* children, for any number of processes, any programs of theirs and any   *)
(* number of signals.                                                      *)
(*                                                                         *)
(* The properties look at sleeping and stopped processes; IInv says of a   *)
(* process at every label what will be true when it sleeps or stops. It is *)
(* made of what a single record satisfies (RecordOK: QueueOK, SignalOK,    *)
(* SeenOK, StopOK), what its place in the kernel says of it (PlaceOK,      *)
(* InitOK), what parents and children have to do with one another (KinOK), *)
(* and what a parent in wait has been told (Told).                         *)
(*                                                                         *)
(* wakeup, psignal, newproc and exit are lemmas about what they do to the  *)
(* table (the fields they leave alone, and the record of each process      *)
(* after them); the loops of gsignal and exit over the table are folds,    *)
(* followed by induction over the slots (FoldLemmas). There is one lemma   *)
(* for each action, and its case in NextKeeps.                             *)
(*                                                                         *)
(* Three properties need a restriction on the signals, stated as           *)
(* hypotheses below; without it the code violates them (see README.md).    *)
(***************************************************************************)
EXTENDS Processes, FoldLemmas, SequenceTheorems, TLAPS

------------------------------------------------------------------------------
(* What the properties assume of the signals. *)

\* No process catches SIGCHLD.
ChldNotCaught == CHLD \notin Caught

\* SIGCONT is not caught, and neither it nor SIGKILL comes from a terminal.
ContNotTyped ==
    /\ CONT \notin Caught
    /\ \A s \in Typed : \A i \in DOMAIN s : s[i] \notin {CONT, KILL}

\* No stop signal comes from a terminal.
StopsNotTyped == \A s \in Typed : \A i \in DOMAIN s : s[i] \notin Stops

\* The numbers of the signals.
LEMMA SignalNumbers ==
    /\ HUP \in Signals /\ KILL \in Signals /\ STOP \in Signals /\ TSTP \in Signals
    /\ CONT \in Signals /\ CHLD \in Signals
    /\ Signals \subseteq Nat \ {0} /\ 0 \notin Signals /\ IsFiniteSet(Signals)
    /\ Signals = {HUP, KILL, STOP, TSTP, CONT, CHLD}
    /\ Stops = {STOP, TSTP} /\ Stops \subseteq Signals
    /\ HUP < KILL /\ KILL < STOP /\ STOP < TSTP /\ TSTP < CONT /\ CONT < CHLD
    /\ HUP \notin Stops /\ KILL \notin Stops /\ CONT \notin Stops /\ CHLD \notin Stops
    /\ KILL # CONT /\ KILL # CHLD /\ CONT # CHLD /\ HUP # CONT /\ HUP # KILL /\ HUP # CHLD
<1>1. IsFiniteSet(Signals)
  <2>1. Signals \subseteq 1 .. 20
    BY DEF Signals, HUP, KILL, STOP, TSTP, CONT, CHLD
  <2>2. IsFiniteSet(1 .. 20)
    <3>1. 1 \in Int /\ 20 \in Int
      OBVIOUS
    <3> QED BY <3>1, FS_Interval
  <2> QED BY <2>1, <2>2, FS_Subset
<1> QED BY <1>1 DEF Signals, Stops, HUP, KILL, STOP, TSTP, CONT, CHLD

\* The slots and channels.
LEMMA SlotNames ==
    /\ init \in Procs /\ shell \in Procs /\ shell # init
    /\ None \notin Procs /\ None \notin Channels /\ Procs \subseteq Channels
    /\ Tty \in Channels /\ Disk \in Channels /\ Uarea \in Channels
    /\ Devices \subseteq Channels
    /\ Procs \subseteq Int /\ IsFiniteSet(Procs)
<1>1. Procs \subseteq Int /\ IsFiniteSet(Procs)
  BY ProcessesAssumption
<1>2. Procs # {} /\ Procs \ {init} # {}
  <2>1. Procs # {}
    BY ProcessesAssumption, FS_EmptySet
  <2>2. ASSUME Procs \ {init} = {}
        PROVE  FALSE
    <3>1. Procs = {init}
      BY <2>1, <2>2
    <3>2. Cardinality(Procs) = 1
      BY <3>1, FS_Singleton
    <3> QED BY <3>2, ProcessesAssumption
  <2> QED BY <2>1, <2>2
<1>3. init \in Procs
  BY <1>1, <1>2, MinIn DEF init
<1>4. shell \in Procs \ {init}
  <2>1. IsFiniteSet(Procs \ {init}) /\ Procs \ {init} \in SUBSET Int
    BY <1>1, FS_Subset
  <2> QED BY <1>2, <2>1, MinIn DEF shell
<1>5. {None, Tty, Disk, Uarea} \cap Procs = {}
  BY ProcessesAssumption
<1>6. None # Tty /\ None # Disk /\ None # Uarea
  <2>1. Cardinality({None, Tty, Disk, Uarea}) = 4
    BY ProcessesAssumption
  <2>2. \A a, b, c : Cardinality({a, b, c}) <= 3
    <3> SUFFICES ASSUME NEW a, NEW b, NEW c
                 PROVE  Cardinality({a, b, c}) <= 3
      OBVIOUS
    <3>1. IsFiniteSet({a}) /\ Cardinality({a}) = 1
      BY FS_Singleton
    <3>2. IsFiniteSet({a} \cup {b}) /\ Cardinality({a} \cup {b}) <= 2
      <4>1. IsFiniteSet({a} \cup {b})
            /\ (Cardinality({a} \cup {b}) = Cardinality({a})
                \/ Cardinality({a} \cup {b}) = Cardinality({a}) + 1)
        BY <3>1, FS_AddElement
      <4> QED BY <3>1, <4>1
    <3>3. IsFiniteSet(({a} \cup {b}) \cup {c})
          /\ (Cardinality(({a} \cup {b}) \cup {c}) = Cardinality({a} \cup {b})
              \/ Cardinality(({a} \cup {b}) \cup {c}) = Cardinality({a} \cup {b}) + 1)
      BY <3>2, FS_AddElement
    <3>4. ({a} \cup {b}) \cup {c} = {a, b, c}
      OBVIOUS
    <3>5. Cardinality({a} \cup {b}) \in Nat
      BY <3>2, FS_CardinalityType
    <3>6. PICK n : n = Cardinality({a} \cup {b})
      OBVIOUS
    <3>7. n \in Nat /\ n <= 2
      BY <3>2, <3>5, <3>6
    <3>8. PICK m : m = Cardinality(({a} \cup {b}) \cup {c})
      OBVIOUS
    <3>9. m = n \/ m = n + 1
      BY <3>3, <3>6, <3>8
    <3>10. m <= 3
      BY <3>7, <3>9
    <3>11. m = Cardinality({a, b, c})
      BY <3>4, <3>8, Zenon
    <3> QED BY <3>10, <3>11
  <2>3. /\ None = Tty => {None, Tty, Disk, Uarea} = {Tty, Disk, Uarea}
        /\ None = Disk => {None, Tty, Disk, Uarea} = {Tty, Disk, Uarea}
        /\ None = Uarea => {None, Tty, Disk, Uarea} = {Tty, Disk, Uarea}
    OBVIOUS
  <2>4. Cardinality({Tty, Disk, Uarea}) # 4
    <3>1. Cardinality({Tty, Disk, Uarea}) <= 3
      BY <2>2
    <3> QED BY <3>1
  <2> QED BY <2>1, <2>3, <2>4
<1> QED BY <1>1, <1>3, <1>4, <1>5, <1>6 DEF Channels, Devices

------------------------------------------------------------------------------
(* What every record of the process table satisfies. *)

\* No process runs, sleeps or is stopped in this slot.
Dead == {"none", "SIDL", "SZOMB"}

\* The queues; on says that the process has the processor.
QueueOK(r, on) ==
    /\ r.rq => r.stat = "SRUN" /\ r.wchan = None /\ ~on
    /\ r.wchan # None => r.stat \in {"SSLEEP", "SSTOP"} \/ (r.sub = "pre" /\ on)
    /\ r.stat = "SSLEEP" => r.wchan # None /\ r.sub \in {"slept", "pre"}
    /\ r.stat = "SRUN" => r.rq \/ on
    /\ on => r.stat = "SRUN"
    /\ r.stat = "SSTOP" /\ r.wchan # None => r.intr /\ r.sub \in {"slept", "pre"}
    /\ r.sub = "stop" => on
    /\ r.sub = "pre" => r.intr

\* SIGCONT and the stop signals cancel, only what may be caught is caught, and
\* who ignores SIGKILL or SIGCONT is exiting and ignores them all.
SignalOK(r) ==
    /\ \A s \in r.sig \cap Stops : CONT \notin r.sig
    /\ \A s \in Signals : r.disp[s] = "catch" => s \in Caught
    /\ r.disp[KILL] = "ign" \/ r.disp[CONT] = "ign" =>
          \A s \in Signals : r.disp[s] = "ign"

\* Who sleeps has seen the signals that have come; what is left when he is
\* stopped in his sleep is taken away by the SIGCONT that lets him go on.
SeenOK(r) ==
    \A s \in r.sig \ r.mask : r.disp[s] # "ign" =>
       /\ r.stat = "SSLEEP" /\ r.intr =>
             \/ s = CHLD
             \/ s = CONT /\ r.disp[s] = "dfl"
             \/ r.vfork /\ s \in Stops
       /\ r.stat = "SSTOP" /\ r.wchan # None => s \in Stops \cup {CHLD}

\* Who is stopped, or about to stop, has been told neither to go on nor to die.
StopOK(r) ==
    /\ CONT \notin r.mask
    /\ r.stat = "SSTOP" \/ r.sub = "stop" =>
          r.sig \cap {CONT, KILL} = {} /\ r.cursig \in Stops

RecordOK(r, on) ==
    /\ QueueOK(r, on)
    /\ SignalOK(r)
    /\ SeenOK(r)
    /\ ContNotTyped => StopOK(r)

\* t is a process table with c on the processor.
TableOK(t, c) == t \in [Procs -> Proc] /\ \A p \in Procs : RecordOK(t[p], p = c)

\* What sleep, wakeup and signals of others leave alone.
Fixed(r, x) ==
    /\ x.pptr = r.pptr /\ x.intr = r.intr /\ x.mask = r.mask /\ x.disp = r.disp
    /\ x.frames = r.frames /\ x.omask = r.omask /\ x.vfork = r.vfork
    /\ x.vfdone = r.vfdone /\ x.child = r.child /\ x.xstat = r.xstat
    /\ x.pc = r.pc /\ x.opts = r.opts /\ x.sub = r.sub

\* They take a process off its channel, and bring nobody to life or to death.
Moved(r, x) ==
    /\ Fixed(r, x)
    /\ x.wchan \in {r.wchan, None}
    /\ r.stat \in Dead \/ x.stat \in Dead => x.stat = r.stat

\* Nobody stops.
NotStopped(r, x) == x.stat = "SSTOP" => r.stat = "SSTOP" /\ x.swted = r.swted

------------------------------------------------------------------------------
(* The record operations that the table operations are made of. *)

Ready(r) == [[r EXCEPT !.wchan = None] EXCEPT !.stat = "SRUN", !.rq = TRUE]
OffQueue(r) == [r EXCEPT !.wchan = None]

PostedRec(r, s) ==
    LET n == Noted(r, s)
    IN CASE s \in n.mask -> n
         [] n.stat = "SSLEEP" /\ s \notin n.mask ->
              IF ~n.intr THEN n
              ELSE IF s = CHLD /\ n.disp[s] = "dfl" THEN [n EXCEPT !.sig = @ \ {s}]
                   ELSE Ready(n)
         [] n.stat = "SSTOP" /\ s \notin n.mask ->
              IF Starts(n, s) THEN Ready(n)
              ELSE IF s = CONT THEN [n EXCEPT !.stat = "SSLEEP"]
              ELSE IF n.intr THEN OffQueue(n) ELSE n
         [] OTHER -> n

LEMMA OffQueueFields ==
    ASSUME NEW r \in Proc
    PROVE  /\ OffQueue(r) \in Proc /\ Fixed(r, OffQueue(r))
           /\ OffQueue(r).wchan = None /\ OffQueue(r).stat = r.stat
           /\ OffQueue(r).rq = r.rq /\ OffQueue(r).sig = r.sig
           /\ OffQueue(r).cursig = r.cursig /\ OffQueue(r).swted = r.swted
<1>1. OffQueue(r) \in Proc
  BY DEF OffQueue, Proc
<1>2. Fixed(r, OffQueue(r))
  BY DEF OffQueue, Proc, Fixed
<1> QED BY <1>1, <1>2 DEF OffQueue, Proc

LEMMA ReadyFields ==
    ASSUME NEW r \in Proc
    PROVE  /\ Ready(r) \in Proc /\ Fixed(r, Ready(r))
           /\ Ready(r).wchan = None /\ Ready(r).stat = "SRUN" /\ Ready(r).rq = TRUE
           /\ Ready(r).sig = r.sig /\ Ready(r).cursig = r.cursig /\ Ready(r).swted = r.swted
<1>1. Ready(r) \in Proc
  BY ZenonT(60) DEF Ready, Proc
<1>2. Fixed(r, Ready(r))
  BY DEF Ready, Proc, Fixed
<1> QED BY <1>1, <1>2 DEF Ready, Proc

LEMMA SigFields ==
    ASSUME NEW r \in Proc, NEW g \in SUBSET Signals
    PROVE  LET x == [r EXCEPT !.sig = g]
           IN /\ x \in Proc /\ Fixed(r, x) /\ x.sig = g
              /\ x.wchan = r.wchan /\ x.stat = r.stat /\ x.rq = r.rq
              /\ x.cursig = r.cursig /\ x.swted = r.swted
<1> DEFINE x == [r EXCEPT !.sig = g]
<1>1. x \in Proc
  BY DEF Proc
<1>2. Fixed(r, x)
  BY DEF Proc, Fixed
<1>3. /\ x.sig = g /\ x.wchan = r.wchan /\ x.stat = r.stat /\ x.rq = r.rq
      /\ x.cursig = r.cursig /\ x.swted = r.swted
  BY DEF Proc
<1> QED BY <1>1, <1>2, <1>3

\* What a process is doing about signals, set.
LEMMA SubField ==
    ASSUME NEW r \in Proc, NEW v \in {"main", "slept", "pre", "issig", "stop"}
    PROVE  [r EXCEPT !.sub = v] \in Proc
BY SMTT(30), ZenonT(60) DEF Proc

LEMMA SleepsFields ==
    ASSUME NEW r \in Proc
    PROVE  LET x == [r EXCEPT !.stat = "SSLEEP"]
           IN /\ x \in Proc /\ Fixed(r, x) /\ x.sig = r.sig
              /\ x.wchan = r.wchan /\ x.stat = "SSLEEP" /\ x.rq = r.rq
              /\ x.cursig = r.cursig /\ x.swted = r.swted
<1> DEFINE x == [r EXCEPT !.stat = "SSLEEP"]
<1>1. x \in Proc
  BY DEF Proc
<1>2. Fixed(r, x)
  BY DEF Proc, Fixed
<1>3. /\ x.sig = r.sig /\ x.wchan = r.wchan /\ x.stat = "SSLEEP" /\ x.rq = r.rq
      /\ x.cursig = r.cursig /\ x.swted = r.swted
  BY DEF Proc
<1> QED BY <1>1, <1>2, <1>3

\* A signal that has come.
NotedSig(r, s) ==
    (r.sig \cup {s}) \ (CASE s = CONT -> Stops [] s \in Stops -> {CONT} [] OTHER -> {})

LEMMA NotedFields ==
    ASSUME NEW r \in Proc, NEW s \in Signals
    PROVE  /\ Noted(r, s) \in Proc /\ Fixed(r, Noted(r, s))
           /\ Noted(r, s).sig = NotedSig(r, s) /\ NotedSig(r, s) \in SUBSET Signals
           /\ Noted(r, s).wchan = r.wchan /\ Noted(r, s).stat = r.stat
           /\ Noted(r, s).rq = r.rq /\ Noted(r, s).cursig = r.cursig
           /\ Noted(r, s).swted = r.swted
<1>1. r.sig \in SUBSET Signals
  BY DEF Proc
<1>2. NotedSig(r, s) \in SUBSET Signals
  BY <1>1, SignalNumbers DEF NotedSig
<1>3. Noted(r, s) = [r EXCEPT !.sig = NotedSig(r, s)]
  BY DEF Noted, NotedSig
<1> QED BY <1>2, <1>3, SigFields

\* A signal that is not a stop signal leaves the process where it is, makes it
\* ready, lets it go on sleeping, or takes it off its sleep queue.
LEMMA PostedFields ==
    ASSUME NEW r \in Proc, NEW s \in Signals
    PROVE  LET x == PostedRec(r, s)
           IN /\ x \in Proc /\ Fixed(r, x) /\ x.cursig = r.cursig /\ x.swted = r.swted
              /\ \/ /\ x.stat = r.stat /\ x.rq = r.rq /\ x.wchan = r.wchan
                    /\ x.sig = NotedSig(r, s)
                    /\ \/ s \in r.mask
                       \/ r.stat = "SSLEEP" /\ ~r.intr
                       \/ r.stat = "SSTOP" /\ s \notin {KILL, CONT} /\ ~r.intr
                       \/ r.stat \notin {"SSLEEP", "SSTOP"}
                 \/ /\ x.stat = r.stat /\ x.rq = r.rq /\ x.wchan = r.wchan
                    /\ x.sig = NotedSig(r, s) \ {s}
                    /\ s = CHLD /\ r.disp[s] = "dfl" /\ r.stat = "SSLEEP" /\ r.intr
                 \/ /\ x.stat = "SRUN" /\ x.rq = TRUE /\ x.wchan = None
                    /\ x.sig = NotedSig(r, s)
                    /\ r.stat \in {"SSLEEP", "SSTOP"}
                 \/ /\ x.stat = "SSLEEP" /\ x.rq = r.rq /\ x.wchan = r.wchan
                    /\ x.sig = NotedSig(r, s)
                    /\ r.stat = "SSTOP" /\ s = CONT /\ r.disp[s] = "dfl" /\ r.wchan # None
                 \/ /\ x.stat = r.stat /\ x.rq = r.rq /\ x.wchan = None
                    /\ x.sig = NotedSig(r, s)
                    /\ r.stat = "SSTOP" /\ s \notin {KILL, CONT} /\ s \notin r.mask
<1> DEFINE n == Noted(r, s)
<1>1. /\ n \in Proc /\ Fixed(r, n) /\ n.sig = NotedSig(r, s)
      /\ NotedSig(r, s) \in SUBSET Signals
      /\ n.wchan = r.wchan /\ n.stat = r.stat /\ n.rq = r.rq
      /\ n.cursig = r.cursig /\ n.swted = r.swted
      /\ n.mask = r.mask /\ n.disp = r.disp /\ n.intr = r.intr
  BY NotedFields DEF Fixed
<1>2. /\ s \in n.mask => PostedRec(r, s) = n
      /\ n.stat = "SSLEEP" /\ s \notin n.mask /\ ~n.intr => PostedRec(r, s) = n
      /\ n.stat = "SSLEEP" /\ s \notin n.mask /\ n.intr /\ s = CHLD /\ n.disp[s] = "dfl"
            => PostedRec(r, s) = [n EXCEPT !.sig = n.sig \ {s}]
      /\ n.stat = "SSLEEP" /\ s \notin n.mask /\ n.intr /\ ~(s = CHLD /\ n.disp[s] = "dfl")
            => PostedRec(r, s) = Ready(n)
      /\ n.stat = "SSTOP" /\ s \notin n.mask /\ Starts(n, s) => PostedRec(r, s) = Ready(n)
      /\ n.stat = "SSTOP" /\ s \notin n.mask /\ ~Starts(n, s) /\ s = CONT
            => PostedRec(r, s) = [n EXCEPT !.stat = "SSLEEP"]
      /\ n.stat = "SSTOP" /\ s \notin n.mask /\ ~Starts(n, s) /\ s # CONT
            => PostedRec(r, s) = IF n.intr THEN OffQueue(n) ELSE n
      /\ n.stat \notin {"SSLEEP", "SSTOP"} => PostedRec(r, s) = n
  <2> HIDE DEF n
  <2>1. PostedRec(r, s) =
          CASE s \in n.mask -> n
            [] n.stat = "SSLEEP" /\ s \notin n.mask ->
                 IF ~n.intr THEN n
                 ELSE IF s = CHLD /\ n.disp[s] = "dfl" THEN [n EXCEPT !.sig = n.sig \ {s}]
                      ELSE Ready(n)
            [] n.stat = "SSTOP" /\ s \notin n.mask ->
                 IF Starts(n, s) THEN Ready(n)
                 ELSE IF s = CONT THEN [n EXCEPT !.stat = "SSLEEP"]
                 ELSE IF n.intr THEN OffQueue(n) ELSE n
            [] OTHER -> n
    BY DEF PostedRec, n
  <2> QED BY <2>1
<1>3. Starts(n, s) <=> s = KILL \/ (s = CONT /\ (r.disp[s] # "dfl" \/ r.wchan = None))
  BY <1>1 DEF Starts
<1> HIDE DEF n
<1>4. CASE s \in r.mask
  BY <1>1, <1>2, <1>4
<1>5. CASE s \notin r.mask /\ r.stat = "SSLEEP"
  <2>1. CASE ~r.intr
    BY <1>1, <1>2, <1>5, <2>1
  <2>2. CASE r.intr /\ s = CHLD /\ r.disp[s] = "dfl"
    <3>1. PostedRec(r, s) = [n EXCEPT !.sig = n.sig \ {s}] /\ n.sig \ {s} \in SUBSET Signals
      BY <1>1, <1>2, <1>5, <2>2
    <3> DEFINE x == [n EXCEPT !.sig = n.sig \ {s}]
    <3>2. /\ x \in Proc /\ Fixed(n, x) /\ x.sig = n.sig \ {s}
          /\ x.wchan = n.wchan /\ x.stat = n.stat /\ x.rq = n.rq
          /\ x.cursig = n.cursig /\ x.swted = n.swted
      BY <1>1, <3>1, SigFields
    <3> HIDE DEF x
    <3>3. Fixed(r, x)
      BY <1>1, <3>2 DEF Fixed
    <3>4. PostedRec(r, s) = x
      BY <3>1 DEF x
    <3> QED BY <1>1, <1>5, <2>2, <3>2, <3>3, <3>4
  <2>3. CASE r.intr /\ ~(s = CHLD /\ r.disp[s] = "dfl")
    <3>1. PostedRec(r, s) = Ready(n)
      BY <1>1, <1>2, <1>5, <2>3
    <3>2. Fixed(r, Ready(n))
      BY <1>1, ReadyFields DEF Fixed
    <3> QED BY <1>1, <1>5, <3>1, <3>2, ReadyFields
  <2> QED BY <2>1, <2>2, <2>3
<1>6. CASE s \notin r.mask /\ r.stat = "SSTOP"
  <2>1. CASE Starts(n, s)
    <3>1. PostedRec(r, s) = Ready(n)
      BY <1>1, <1>2, <1>6, <2>1
    <3>2. Fixed(r, Ready(n))
      BY <1>1, ReadyFields DEF Fixed
    <3> QED BY <1>1, <1>6, <3>1, <3>2, ReadyFields
  <2>2. CASE ~Starts(n, s) /\ s = CONT
    <3>1. PostedRec(r, s) = [n EXCEPT !.stat = "SSLEEP"]
      BY <1>1, <1>2, <1>6, <2>2
    <3> DEFINE x == [n EXCEPT !.stat = "SSLEEP"]
    <3>2. /\ x \in Proc /\ Fixed(n, x) /\ x.sig = n.sig
          /\ x.wchan = n.wchan /\ x.stat = "SSLEEP" /\ x.rq = n.rq
          /\ x.cursig = n.cursig /\ x.swted = n.swted
      BY <1>1, SleepsFields
    <3> HIDE DEF x
    <3>3. Fixed(r, x)
      BY <1>1, <3>2 DEF Fixed
    <3>4. PostedRec(r, s) = x
      BY <3>1 DEF x
    <3>5. r.disp[s] = "dfl" /\ r.wchan # None
      BY <1>3, <2>2
    <3> QED BY <1>1, <1>6, <2>2, <3>2, <3>3, <3>4, <3>5
  <2>3. CASE ~Starts(n, s) /\ s # CONT
    <3>1. PostedRec(r, s) = IF r.intr THEN OffQueue(n) ELSE n
      BY <1>1, <1>2, <1>6, <2>3
    <3>2. Fixed(r, OffQueue(n))
      BY <1>1, OffQueueFields DEF Fixed
    <3>3. s \notin {KILL, CONT}
      BY <1>3, <2>3
    <3>4. CASE r.intr
      BY <1>1, <1>6, <3>1, <3>2, <3>3, <3>4, OffQueueFields
    <3>5. CASE ~r.intr
      BY <1>1, <1>6, <3>1, <3>3, <3>5
    <3> QED BY <3>4, <3>5
  <2> QED BY <2>1, <2>2, <2>3
<1>7. CASE s \notin r.mask /\ r.stat \notin {"SSLEEP", "SSTOP"}
  BY <1>1, <1>2, <1>7
<1> QED BY <1>4, <1>5, <1>6, <1>7


------------------------------------------------------------------------------
(* Where the processes are in the kernel. *)

\* What the place of a process says of its record.
PlaceOK(p, r, on) ==
    /\ r.pc \in {"procdup", "waitsleep"} => on /\ r.sub = "main"
    /\ r.pc \in {"procdup", "vfork"} => r.child \in Procs
    /\ r.wchan # None =>
         /\ r.pc = "wait" => r.wchan = p
         /\ r.pc = "vfork" => r.wchan = r.child
         /\ r.pc \in {"exec", "exit"} => r.wchan = p /\ ~r.vfdone
    /\ r.stat \in {"none", "SZOMB"} => r.pc = "none"
    /\ r.stat = "SIDL" => r.pc = "user"
    /\ r.vfdone => r.pc \in {"exec", "exit"}
    /\ r.vfork => r.pc \notin {"exec", "exit", "close", "none"}
    /\ r.disp[KILL] = "ign" => r.pc \in {"exit", "close", "none"}
    /\ r.sub \in {"pre", "issig", "stop"} \/ (r.sub = "slept" /\ r.intr) =>
         r.pc \in {"trap", "sigpause", "wait", "tty"}

\* init does not die, and takes no signal that it does not catch.
InitOK(r) ==
    /\ r.pptr = None /\ r.stat \notin Dead /\ r.stat # "SSTOP" /\ ~r.vfork
    /\ r.pc \notin {"exit", "close", "exec", "none"}
    /\ r.sub # "stop"
    /\ r.sub = "main" /\ r.cursig # 0 =>
         r.pc = "trap" /\ r.disp[r.cursig] = "catch"
    /\ r.sub = "slept" => r.cursig = 0

PlacesOK(t, c) ==
    /\ \A p \in Procs : PlaceOK(p, t[p], p = c)
    /\ InitOK(t[init])

------------------------------------------------------------------------------
(* Parents and children. *)

\* About to sleep in wait, or asleep there.
Waiting(r) == r.pc = "waitsleep" \/ (r.pc = "wait" /\ r.wchan # None)

\* With the memory of the parent, or not told that it has been taken back.
Lent(r) == r.vfork \/ (r.pc \in {"exec", "exit"} /\ ~r.vfdone)

ParentOK(t, p) ==
    IF t[p].stat = "none" THEN t[p].pptr = None
    ELSE p # init => /\ t[p].pptr \in Procs \ {p}
                     /\ t[t[p].pptr].stat \notin Dead

WaitOK(t, p) ==
    Waiting(t[p]) => /\ \E q \in Procs : t[q].pptr = p
                     /\ \A q \in Procs : t[q].pptr = p => t[q].stat # "SZOMB"

LentOK(t, c) ==
    Lent(t[c]) => /\ t[t[c].pptr].pc \in {"procdup", "vfork"}
                  /\ t[t[c].pptr].child = c

ForkOK(t, p) ==
    LET c == t[p].child
    IN /\ t[p].pc = "procdup" => t[c].pptr = p /\ t[c].stat = "SIDL"
       /\ t[p].pc = "vfork" =>
            /\ t[c].pptr = p /\ t[c].stat \notin {"none", "SZOMB"} /\ Lent(t[c])
            /\ t[p].wchan # None => t[c].vfork

KinOK(t) ==
    \A p \in Procs : ParentOK(t, p) /\ WaitOK(t, p) /\ LentOK(t, p) /\ ForkOK(t, p)

\* A parent that waits for stopped children has been told of all of them.
Told(t) ==
    \A p, q \in Procs :
       Waiting(t[p]) /\ "WUNTRACED" \in t[p].opts /\ t[q].pptr = p
         /\ t[q].stat = "SSTOP" => t[q].swted

\* What holds of the process table with c on the processor.
StateOK(t, c) ==
    /\ TableOK(t, c)
    /\ PlacesOK(t, c)
    /\ KinOK(t)
    /\ StopsNotTyped => Told(t)

\* The inductive invariant.
IInv ==
    /\ cur \in Procs \cup {None} /\ forks \in 0 .. MaxForks /\ signals \in 0 .. MaxSignals
    /\ StateOK(proc, cur)

\* What a signal that is not a stop signal does to p_sig.
LEMMA NotedIs ==
    ASSUME NEW r \in Proc, NEW s \in Signals
    PROVE  /\ s \notin Stops /\ s # CONT => NotedSig(r, s) = r.sig \cup {s}
           /\ s = CONT => NotedSig(r, s) = (r.sig \cup {CONT}) \ Stops
           /\ s \in Stops => NotedSig(r, s) = (r.sig \cup {s}) \ {CONT}
BY SignalNumbers DEF NotedSig

\* psignal of a signal that is not a stop signal keeps what holds of a record.
LEMMA PostedKeeps ==
    ASSUME NEW r \in Proc, NEW s \in Signals \ Stops, NEW on \in BOOLEAN,
           RecordOK(r, on), r.disp[s] # "ign",
           ContNotTyped /\ r.sub = "stop" => s \notin {CONT, KILL}
    PROVE  LET x == PostedRec(r, s)
           IN /\ x \in Proc /\ RecordOK(x, on) /\ Moved(r, x) /\ NotStopped(r, x)
              /\ x.cursig = r.cursig
<1> DEFINE x == PostedRec(r, s)
<1>1. /\ x \in Proc /\ Fixed(r, x) /\ x.cursig = r.cursig /\ x.swted = r.swted
      /\ \/ /\ x.stat = r.stat /\ x.rq = r.rq /\ x.wchan = r.wchan
            /\ x.sig = NotedSig(r, s)
            /\ \/ s \in r.mask
               \/ r.stat = "SSLEEP" /\ ~r.intr
               \/ r.stat = "SSTOP" /\ s \notin {KILL, CONT} /\ ~r.intr
               \/ r.stat \notin {"SSLEEP", "SSTOP"}
         \/ /\ x.stat = r.stat /\ x.rq = r.rq /\ x.wchan = r.wchan
            /\ x.sig = NotedSig(r, s) \ {s}
            /\ s = CHLD /\ r.disp[s] = "dfl" /\ r.stat = "SSLEEP" /\ r.intr
         \/ /\ x.stat = "SRUN" /\ x.rq = TRUE /\ x.wchan = None
            /\ x.sig = NotedSig(r, s)
            /\ r.stat \in {"SSLEEP", "SSTOP"}
         \/ /\ x.stat = "SSLEEP" /\ x.rq = r.rq /\ x.wchan = r.wchan
            /\ x.sig = NotedSig(r, s)
            /\ r.stat = "SSTOP" /\ s = CONT /\ r.disp[s] = "dfl" /\ r.wchan # None
         \/ /\ x.stat = r.stat /\ x.rq = r.rq /\ x.wchan = None
            /\ x.sig = NotedSig(r, s)
            /\ r.stat = "SSTOP" /\ s \notin {KILL, CONT} /\ s \notin r.mask
  BY PostedFields
<1> HIDE DEF x
<1>2. /\ s # CONT => NotedSig(r, s) = r.sig \cup {s}
      /\ s = CONT => NotedSig(r, s) = (r.sig \cup {CONT}) \ Stops
      /\ s \notin Stops /\ CONT \notin Stops
  BY NotedIs, SignalNumbers
<1>3. /\ x.intr = r.intr /\ x.mask = r.mask /\ x.disp = r.disp /\ x.vfork = r.vfork
      /\ x.sub = r.sub
  BY <1>1 DEF Fixed
<1>4. QueueOK(r, on) /\ SignalOK(r) /\ SeenOK(r) /\ (ContNotTyped => StopOK(r))
  BY DEF RecordOK
<1>5. QueueOK(x, on)
  BY <1>1, <1>3, <1>4 DEF QueueOK
<1>6. SignalOK(x)
  <2>1. \A u \in x.sig \cap Stops : CONT \notin x.sig
    BY <1>1, <1>2, <1>4 DEF SignalOK
  <2> QED BY <2>1, <1>3, <1>4 DEF SignalOK
<1>7. SeenOK(x)
  <2> SUFFICES ASSUME NEW u \in x.sig \ x.mask, x.disp[u] # "ign"
               PROVE  /\ x.stat = "SSLEEP" /\ x.intr =>
                           \/ u = CHLD
                           \/ u = CONT /\ x.disp[u] = "dfl"
                           \/ x.vfork /\ u \in Stops
                      /\ x.stat = "SSTOP" /\ x.wchan # None => u \in Stops \cup {CHLD}
    BY DEF SeenOK
  <2>1. u = s \/ u \in r.sig
    BY <1>1, <1>2
  <2>2. u \in r.sig => /\ r.stat = "SSLEEP" /\ r.intr =>
                            \/ u = CHLD
                            \/ u = CONT /\ r.disp[u] = "dfl"
                            \/ r.vfork /\ u \in Stops
                       /\ r.stat = "SSTOP" /\ r.wchan # None => u \in Stops \cup {CHLD}
    BY <1>3, <1>4 DEF SeenOK
  <2>3. s = CONT => u \notin Stops
    BY <1>1, <1>2
  <2> HIDE DEF CHLD, CONT, Stops
  <2> QED BY <1>1, <1>2, <1>3, <1>4, <2>1, <2>2, <2>3 DEF QueueOK
<1>8. ASSUME ContNotTyped
      PROVE  StopOK(x)
  <2>1. KILL \notin r.mask /\ CONT \notin r.mask
    BY <1>4, <1>8 DEF StopOK, Proc, Masks
  <2>2. r.sub = "stop" => s \notin {CONT, KILL}
    BY <1>8
  <2>3. r.sub = "stop" => on /\ r.stat = "SRUN"
    BY <1>4 DEF QueueOK
  <2> QED BY <1>1, <1>2, <1>3, <1>4, <1>8, <2>1, <2>2, <2>3 DEF StopOK
<1>9. Moved(r, x)
  BY <1>1 DEF Moved, Dead
<1>10. NotStopped(r, x)
  BY <1>1 DEF NotStopped
<1> QED BY <1>1, <1>5, <1>6, <1>7, <1>8, <1>9, <1>10 DEF RecordOK, x

------------------------------------------------------------------------------
(* Wakeup and psignal on the process table. *)

\* What they do to all the processes: nobody stops without a word to the parent.
Frame(t, u) ==
    /\ \A p \in Procs : Moved(t[p], u[p])
    /\ \A p \in Procs : u[p].stat = "SSTOP" =>
          \/ t[p].stat = "SSTOP" /\ u[p].swted = t[p].swted
          \/ t[p].pptr \in Procs /\ u[t[p].pptr].wchan # t[p].pptr
    /\ u[init].cursig = t[init].cursig

\* Nobody stops at all.
Quiet(t, u) == \A p \in Procs : NotStopped(t[p], u[p])

LEMMA FrameSelf ==
    ASSUME NEW t \in [Procs -> Proc]
    PROVE  Frame(t, t)
BY DEF Frame, Moved, Fixed

LEMMA FrameJoin ==
    ASSUME NEW t, NEW u, NEW v, Frame(t, u), Frame(u, v)
    PROVE  Frame(t, v)
<1>1. \A p \in Procs : Moved(t[p], v[p])
  <2> SUFFICES ASSUME NEW p \in Procs
               PROVE  Moved(t[p], v[p])
    OBVIOUS
  <2>1. Moved(t[p], u[p]) /\ Moved(u[p], v[p])
    BY DEF Frame
  <2>2. Fixed(t[p], v[p])
    BY <2>1 DEF Moved, Fixed
  <2> QED BY <2>1, <2>2 DEF Moved
<1>2. ASSUME NEW p \in Procs, v[p].stat = "SSTOP"
      PROVE  \/ t[p].stat = "SSTOP" /\ v[p].swted = t[p].swted
             \/ t[p].pptr \in Procs /\ v[t[p].pptr].wchan # t[p].pptr
  <2>1. u[p].pptr = t[p].pptr
    BY DEF Frame, Moved, Fixed
  <2>2. \/ u[p].stat = "SSTOP" /\ v[p].swted = u[p].swted
        \/ u[p].pptr \in Procs /\ v[u[p].pptr].wchan # u[p].pptr
    BY <1>2 DEF Frame
  <2>3. u[p].stat = "SSTOP" => \/ t[p].stat = "SSTOP" /\ u[p].swted = t[p].swted
                               \/ t[p].pptr \in Procs /\ u[t[p].pptr].wchan # t[p].pptr
    BY DEF Frame
  <2>4. ASSUME t[p].pptr \in Procs, u[t[p].pptr].wchan # t[p].pptr
        PROVE  v[t[p].pptr].wchan # t[p].pptr
    <3>1. v[t[p].pptr].wchan \in {u[t[p].pptr].wchan, None}
      BY <2>4 DEF Frame, Moved
    <3> QED BY <2>4, <3>1, SlotNames
  <2> QED BY <2>1, <2>2, <2>3, <2>4
<1>3. v[init].cursig = t[init].cursig
  BY DEF Frame
<1> QED BY <1>1, <1>2, <1>3 DEF Frame

\* One process gets another record.
LEMMA TableWith ==
    ASSUME NEW t, NEW c, TableOK(t, c), NEW p \in Procs, NEW d,
           NEW x \in Proc, RecordOK(x, p = d),
           \A q \in Procs \ {p} : q = c <=> q = d
    PROVE  TableOK([t EXCEPT ![p] = x], d)
<1> DEFINE u == [t EXCEPT ![p] = x]
<1>1. t \in [Procs -> Proc] /\ \A q \in Procs : RecordOK(t[q], q = c)
  BY DEF TableOK
<1>2. u \in [Procs -> Proc] /\ u[p] = x /\ \A q \in Procs \ {p} : u[q] = t[q]
  BY <1>1
<1> HIDE DEF u
<1>3. ASSUME NEW q \in Procs
      PROVE  RecordOK(u[q], q = d)
  <2>1. CASE q = p
    BY <1>2, <2>1
  <2>2. CASE q # p
    <3>1. u[q] = t[q] /\ RecordOK(t[q], q = c)
      BY <1>1, <1>2, <2>2
    <3>2. CASE q = c
      <4>1. (q = c) = TRUE /\ (q = d) = TRUE
        BY <2>2, <3>2
      <4> QED BY <3>1, <4>1
    <3>3. CASE q # c
      <4>1. (q = c) = FALSE /\ (q = d) = FALSE
        BY <2>2, <3>3
      <4> QED BY <3>1, <4>1
    <3> QED BY <3>2, <3>3
  <2> QED BY <2>1, <2>2
<1> QED BY <1>2, <1>3 DEF TableOK, u

\* ... which another could have given it.
LEMMA FrameWith ==
    ASSUME NEW t \in [Procs -> Proc], NEW p \in Procs, NEW x \in Proc,
           Moved(t[p], x), NotStopped(t[p], x), p = init => x.cursig = t[p].cursig
    PROVE  Frame(t, [t EXCEPT ![p] = x])
<1> DEFINE u == [t EXCEPT ![p] = x]
<1>1. u \in [Procs -> Proc] /\ u[p] = x /\ \A q \in Procs \ {p} : u[q] = t[q]
  OBVIOUS
<1> HIDE DEF u
<1>2. \A q \in Procs : Moved(t[q], t[q])
  BY DEF Moved, Fixed
<1>3. \A q \in Procs : Moved(t[q], u[q])
  BY <1>1, <1>2
<1>4. \A q \in Procs : u[q].stat = "SSTOP" => t[q].stat = "SSTOP" /\ u[q].swted = t[q].swted
  BY <1>1 DEF NotStopped
<1>5. u[init].cursig = t[init].cursig
  BY <1>1, SlotNames
<1> QED BY <1>3, <1>4, <1>5 DEF Frame, u

\* wakeup of one process.
WakeRec(r, chan) ==
    IF r.wchan # chan THEN r ELSE IF r.stat = "SSLEEP" THEN Ready(r) ELSE OffQueue(r)

LEMMA WakeupIs ==
    ASSUME NEW t \in [Procs -> Proc], NEW chan, NEW p \in Procs
    PROVE  Wakeup(t, chan)[p] = WakeRec(t[p], chan)
<1>1. Setrun(t, p)[p] = Ready(t[p]) /\ Unsleep(t, p)[p] = OffQueue(t[p])
  BY DEF Setrun, Unsleep, Ready, OffQueue
<1> QED BY <1>1 DEF Wakeup, WakeRec

LEMMA WakeKeeps ==
    ASSUME NEW r \in Proc, NEW chan, chan # None, NEW on \in BOOLEAN, RecordOK(r, on)
    PROVE  LET x == WakeRec(r, chan)
           IN /\ x \in Proc /\ RecordOK(x, on) /\ Moved(r, x) /\ NotStopped(r, x)
              /\ x.cursig = r.cursig /\ x.wchan # chan
<1> DEFINE x == WakeRec(r, chan)
<1>1. CASE r.wchan # chan
  <2>1. x = r
    BY <1>1 DEF WakeRec
  <2>2. Moved(r, r)
    BY DEF Moved, Fixed
  <2> HIDE DEF x
  <2> QED BY <1>1, <2>1, <2>2 DEF NotStopped, x
<1>2. CASE r.wchan = chan
  <2>1. QueueOK(r, on) /\ SignalOK(r) /\ SeenOK(r) /\ (ContNotTyped => StopOK(r))
    BY DEF RecordOK
  <2>2. /\ x \in Proc /\ Fixed(r, x) /\ x.cursig = r.cursig /\ x.swted = r.swted
        /\ x.wchan = None /\ x.sig = r.sig
        /\ \/ r.stat = "SSLEEP" /\ x.stat = "SRUN" /\ x.rq = TRUE
           \/ r.stat # "SSLEEP" /\ x.stat = r.stat /\ x.rq = r.rq
    BY <1>2, OffQueueFields, ReadyFields DEF WakeRec
  <2> HIDE DEF x
  <2>3. x.intr = r.intr /\ x.mask = r.mask /\ x.disp = r.disp /\ x.vfork = r.vfork
        /\ x.sub = r.sub
    BY <2>2 DEF Fixed
  <2>4. QueueOK(x, on)
    BY <1>2, <2>1, <2>2, <2>3 DEF QueueOK
  <2>5. SignalOK(x)
    BY <2>1, <2>2, <2>3 DEF SignalOK
  <2>6. SeenOK(x)
    BY <2>1, <2>2, <2>3 DEF SeenOK
  <2>7. ContNotTyped => StopOK(x)
    BY <2>1, <2>2, <2>3 DEF StopOK
  <2>8. Moved(r, x) /\ NotStopped(r, x)
    BY <2>2 DEF Moved, NotStopped, Dead
  <2>9. x.wchan # chan
    BY <2>2
  <2> QED BY <2>2, <2>4, <2>5, <2>6, <2>7, <2>8, <2>9 DEF RecordOK, x
<1> QED BY <1>1, <1>2

\* wakeup.
LEMMA WakeupKeeps ==
    ASSUME NEW t, NEW c, TableOK(t, c), NEW chan \in Channels
    PROVE  /\ TableOK(Wakeup(t, chan), c)
           /\ Frame(t, Wakeup(t, chan))
           /\ Quiet(t, Wakeup(t, chan))
           /\ \A p \in Procs : Wakeup(t, chan)[p].wchan # chan
<1> DEFINE u == Wakeup(t, chan)
<1>1. t \in [Procs -> Proc] /\ \A q \in Procs : RecordOK(t[q], q = c)
  BY DEF TableOK
<1>2. chan # None
  BY SlotNames
<1>3. ASSUME NEW p \in Procs
      PROVE  /\ u[p] \in Proc /\ RecordOK(u[p], p = c) /\ Moved(t[p], u[p])
             /\ NotStopped(t[p], u[p]) /\ u[p].cursig = t[p].cursig /\ u[p].wchan # chan
  <2>1. t[p] \in Proc /\ RecordOK(t[p], p = c) /\ (p = c) \in BOOLEAN
    BY <1>1
  <2>2. u[p] = WakeRec(t[p], chan)
    BY <1>1, WakeupIs
  <2> DEFINE x == WakeRec(t[p], chan)
  <2>3. /\ x \in Proc /\ RecordOK(x, p = c) /\ Moved(t[p], x) /\ NotStopped(t[p], x)
        /\ x.cursig = t[p].cursig /\ x.wchan # chan
    BY <1>2, <2>1, WakeKeeps
  <2> HIDE DEF x
  <2>4. u[p] = x
    BY <2>2 DEF x
  <2> HIDE DEF u
  <2> QED BY <2>3, <2>4
<1>4. u = [p \in Procs |-> u[p]]
  BY DEF Wakeup
<1> HIDE DEF u
<1>5. TableOK(u, c)
  BY <1>3, <1>4 DEF TableOK
<1>6. Frame(t, u)
  BY <1>3, SlotNames DEF Frame, NotStopped
<1> QED BY <1>3, <1>5, <1>6 DEF Quiet, u

LEMMA PostedIs ==
    ASSUME NEW t \in [Procs -> Proc], NEW p \in Procs, NEW s \in Signals
    PROVE  Posted(t, p, s) = [t EXCEPT ![p] = PostedRec(t[p], s)]
<1> DEFINE n == Noted(t[p], s)
           m == [t EXCEPT ![p] = Noted(@, s)]
<1>1. /\ m \in [Procs -> Proc] /\ m[p] = n /\ m = [t EXCEPT ![p] = n]
  BY NotedFields
<1>2. \A x : [m EXCEPT ![p] = x] = [t EXCEPT ![p] = x]
  BY <1>1
<1>3. /\ Setrun(m, p) = [t EXCEPT ![p] = Ready(n)]
      /\ Unsleep(m, p) = [t EXCEPT ![p] = OffQueue(n)]
      /\ [m EXCEPT ![p].sig = @ \ {s}] = [t EXCEPT ![p] = [n EXCEPT !.sig = @ \ {s}]]
      /\ [m EXCEPT ![p].stat = "SSLEEP"] = [t EXCEPT ![p] = [n EXCEPT !.stat = "SSLEEP"]]
  BY <1>1, <1>2 DEF Setrun, Unsleep, Ready, OffQueue
<1>4. Posted(t, p, s) =
        CASE s \in n.mask -> m
          [] n.stat = "SSLEEP" /\ s \notin n.mask ->
               IF ~n.intr THEN m
               ELSE IF s = CHLD /\ n.disp[s] = "dfl" THEN [m EXCEPT ![p].sig = @ \ {s}]
                    ELSE Setrun(m, p)
          [] n.stat = "SSTOP" /\ s \notin n.mask ->
               IF Starts(n, s) THEN Setrun(m, p)
               ELSE IF s = CONT THEN [m EXCEPT ![p].stat = "SSLEEP"]
               ELSE IF n.intr THEN Unsleep(m, p) ELSE m
          [] OTHER -> m
  BY <1>1 DEF Posted
<1>5. PostedRec(t[p], s) =
        CASE s \in n.mask -> n
          [] n.stat = "SSLEEP" /\ s \notin n.mask ->
               IF ~n.intr THEN n
               ELSE IF s = CHLD /\ n.disp[s] = "dfl" THEN [n EXCEPT !.sig = @ \ {s}]
                    ELSE Ready(n)
          [] n.stat = "SSTOP" /\ s \notin n.mask ->
               IF Starts(n, s) THEN Ready(n)
               ELSE IF s = CONT THEN [n EXCEPT !.stat = "SSLEEP"]
               ELSE IF n.intr THEN OffQueue(n) ELSE n
          [] OTHER -> n
  BY DEF PostedRec
<1> HIDE DEF n, m
<1> QED BY <1>1, <1>3, <1>4, <1>5

\* psignal of a signal that is not a stop signal.
LEMMA PostKeeps ==
    ASSUME NEW t, NEW c, TableOK(t, c), NEW p \in Procs, NEW s \in Signals \ Stops,
           ContNotTyped /\ t[p].sub = "stop" => s \notin {CONT, KILL}
    PROVE  /\ TableOK(Post(t, p, s), c)
           /\ Frame(t, Post(t, p, s))
           /\ Quiet(t, Post(t, p, s))
           /\ \A q \in Procs \ {p} : Post(t, p, s)[q] = t[q]
<1>1. t \in [Procs -> Proc] /\ RecordOK(t[p], p = c) /\ t[p] \in Proc
  BY DEF TableOK
<1>2. CASE t[p].disp[s] = "ign"
  <2>1. Post(t, p, s) = t
    BY <1>2 DEF Post, Ignores
  <2> QED BY <1>1, <2>1, FrameSelf DEF Quiet, NotStopped
<1>3. CASE t[p].disp[s] # "ign"
  <2> DEFINE x == PostedRec(t[p], s)
  <2>1. Post(t, p, s) = [t EXCEPT ![p] = x]
    BY <1>1, <1>3, PostedIs DEF Post, Ignores
  <2>2. (p = c) \in BOOLEAN
    OBVIOUS
  <2>3. /\ x \in Proc /\ RecordOK(x, p = c) /\ Moved(t[p], x) /\ NotStopped(t[p], x)
        /\ x.cursig = t[p].cursig
    BY <1>1, <1>3, <2>2, PostedKeeps
  <2> HIDE DEF x
  <2>4. TableOK([t EXCEPT ![p] = x], c)
    BY <2>3, TableWith
  <2>5. Frame(t, [t EXCEPT ![p] = x])
    BY <1>1, <2>3, FrameWith
  <2>6. \A q \in Procs \ {p} : [t EXCEPT ![p] = x][q] = t[q]
    BY <1>1
  <2>7. Quiet(t, [t EXCEPT ![p] = x])
    BY <1>1, <2>3 DEF Quiet, NotStopped
  <2> QED BY <2>1, <2>4, <2>5, <2>6, <2>7
<1> QED BY <1>2, <1>3

------------------------------------------------------------------------------
(* Stopping. *)

StopRec(r) == [r EXCEPT !.stat = "SSTOP", !.swted = FALSE]

LEMMA StopFields ==
    ASSUME NEW r \in Proc
    PROVE  /\ StopRec(r) \in Proc /\ Fixed(r, StopRec(r))
           /\ StopRec(r).stat = "SSTOP" /\ StopRec(r).swted = FALSE
           /\ StopRec(r).wchan = r.wchan /\ StopRec(r).rq = r.rq
           /\ StopRec(r).sig = r.sig /\ StopRec(r).cursig = r.cursig
<1>1. StopRec(r) \in Proc
  BY ZenonT(60) DEF StopRec, Proc
<1>2. Fixed(r, StopRec(r))
  BY DEF StopRec, Proc, Fixed
<1> QED BY <1>1, <1>2 DEF StopRec, Proc

\* stop, of a process whose record has become x; d has the processor then.
LEMMA StopProcKeeps ==
    ASSUME NEW t \in [Procs -> Proc], NEW p \in Procs, NEW d, t[p].pptr \in Procs,
           NEW z \in [Procs -> Proc], z[p] = StopRec(t[p]),
           \A q \in Procs \ {p} : z[q] = t[q], TableOK(z, d),
           NEW u, u = StopProc(t, p)
    PROVE  TableOK(u, d) /\ Frame(z, u) /\ u[t[p].pptr].wchan # t[p].pptr
<1> DEFINE parent == t[p].pptr
           w == Wakeup(z, parent)
<1>1. TableOK(z, d)
  OBVIOUS
<1>2. u = Post(w, parent, CHLD)
  <2>1. [t EXCEPT ![p].stat = "SSTOP", ![p].swted = FALSE] = [t EXCEPT ![p] = StopRec(t[p])]
    BY DEF StopRec
  <2>2. [t EXCEPT ![p] = StopRec(t[p])] = z
    OBVIOUS
  <2> QED BY <2>1, <2>2 DEF StopProc
<1>3. parent \in Channels
  BY SlotNames
<1>4. TableOK(w, d) /\ Frame(z, w) /\ w[parent].wchan # parent
  BY <1>1, <1>3, WakeupKeeps
<1> HIDE DEF w
<1>5. CHLD \in Signals \ Stops /\ CHLD \notin {CONT, KILL} /\ parent \in Procs
  BY SignalNumbers
<1>6. TableOK(u, d) /\ Frame(w, u)
  BY <1>2, <1>4, <1>5, PostKeeps
<1>7. Frame(z, u)
  BY <1>4, <1>6, FrameJoin
<1>8. u[parent].wchan # parent
  <2>1. u[parent].wchan \in {w[parent].wchan, None}
    BY <1>5, <1>6 DEF Frame, Moved
  <2> QED BY <1>4, <1>5, <2>1, SlotNames
<1> QED BY <1>6, <1>7, <1>8

\* What a stop signal does to p_sig.
LEMMA StopNoted ==
    ASSUME NEW r \in Proc, NEW s \in Stops
    PROVE  /\ s \in Signals /\ Noted(r, s) \in Proc /\ Fixed(r, Noted(r, s))
           /\ Noted(r, s).sig = (r.sig \cup {s}) \ {CONT}
           /\ Noted(r, s).sig \in SUBSET Signals
           /\ Noted(r, s).wchan = r.wchan /\ Noted(r, s).stat = r.stat
           /\ Noted(r, s).rq = r.rq /\ Noted(r, s).cursig = r.cursig
           /\ Noted(r, s).swted = r.swted
           /\ Noted(r, s).mask = r.mask /\ Noted(r, s).disp = r.disp
           /\ Noted(r, s).intr = r.intr /\ Noted(r, s).pptr = r.pptr
           /\ Noted(r, s).vfork = r.vfork /\ Noted(r, s).sub = r.sub
<1>1. s \in Signals
  BY SignalNumbers
<1>2. /\ Noted(r, s) \in Proc /\ Fixed(r, Noted(r, s))
      /\ Noted(r, s).sig = NotedSig(r, s) /\ NotedSig(r, s) \in SUBSET Signals
      /\ Noted(r, s).wchan = r.wchan /\ Noted(r, s).stat = r.stat
      /\ Noted(r, s).rq = r.rq /\ Noted(r, s).cursig = r.cursig
      /\ Noted(r, s).swted = r.swted
  BY <1>1, NotedFields
<1>3. NotedSig(r, s) = (r.sig \cup {s}) \ {CONT}
  BY <1>1, NotedIs
<1> QED BY <1>1, <1>2, <1>3 DEF Fixed

\* A stop signal of which nobody stops: the process becomes ready, or stays
\* where it is.
LEMMA StopSignalKeeps ==
    ASSUME NEW r \in Proc, NEW s \in Stops, NEW on \in BOOLEAN, RecordOK(r, on),
           NEW x \in Proc, Fixed(r, x), x.cursig = r.cursig, x.swted = r.swted,
           CONT \notin x.sig,
           \/ /\ x.stat = "SRUN" /\ x.rq = TRUE /\ x.wchan = None
              /\ x.sig \subseteq r.sig \cup {s, KILL} /\ r.stat = "SSLEEP"
           \/ /\ x.stat = r.stat /\ x.rq = r.rq /\ x.wchan = r.wchan
              /\ x.sig \subseteq r.sig \cup {s}
              /\ s \in r.mask \/ ~r.intr \/ r.vfork \/ r.stat # "SSLEEP"
    PROVE  RecordOK(x, on) /\ Moved(r, x) /\ NotStopped(r, x)
<1>1. /\ x.intr = r.intr /\ x.mask = r.mask /\ x.disp = r.disp /\ x.vfork = r.vfork
      /\ x.sub = r.sub
  BY DEF Fixed
<1>2. QueueOK(r, on) /\ SignalOK(r) /\ SeenOK(r) /\ (ContNotTyped => StopOK(r))
  BY DEF RecordOK
<1>3. QueueOK(x, on)
  BY <1>1, <1>2 DEF QueueOK
<1>4. SignalOK(x)
  <2>1. \A u \in x.sig \cap Stops : CONT \notin x.sig
    OBVIOUS
  <2> QED BY <2>1, <1>1, <1>2 DEF SignalOK
<1>5. SeenOK(x)
  <2> SUFFICES ASSUME NEW u \in x.sig \ x.mask, x.disp[u] # "ign"
               PROVE  /\ x.stat = "SSLEEP" /\ x.intr =>
                           \/ u = CHLD
                           \/ u = CONT /\ x.disp[u] = "dfl"
                           \/ x.vfork /\ u \in Stops
                      /\ x.stat = "SSTOP" /\ x.wchan # None => u \in Stops \cup {CHLD}
    BY DEF SeenOK
  <2>1. x.stat # "SRUN" => u = s \/ u \in r.sig
    OBVIOUS
  <2>2. u \in r.sig => /\ r.stat = "SSLEEP" /\ r.intr =>
                            \/ u = CHLD
                            \/ u = CONT /\ r.disp[u] = "dfl"
                            \/ r.vfork /\ u \in Stops
                       /\ r.stat = "SSTOP" /\ r.wchan # None => u \in Stops \cup {CHLD}
    BY <1>1, <1>2 DEF SeenOK
  <2> HIDE DEF CHLD, CONT, Stops
  <2> QED BY <1>1, <2>1, <2>2
<1>6. ASSUME ContNotTyped
      PROVE  StopOK(x)
  <2>1. StopOK(r) /\ s # KILL
    BY <1>2, <1>6, SignalNumbers
  <2>2. r.sub = "stop" => on /\ r.stat = "SRUN"
    BY <1>2 DEF QueueOK
  <2> QED BY <1>1, <2>1, <2>2 DEF StopOK
<1>7. Moved(r, x)
  BY DEF Moved, Dead
<1>8. NotStopped(r, x)
  BY DEF NotStopped
<1> QED BY <1>3, <1>4, <1>5, <1>6, <1>7, <1>8 DEF RecordOK

\* The record with which a process stops in its sleep.
LEMMA StoppedAsleep ==
    ASSUME NEW r \in Proc, NEW s \in Stops, NEW on \in BOOLEAN, RecordOK(r, on),
           r.stat = "SSLEEP", r.intr, s \notin r.mask, r.disp[s] # "ign"
    PROVE  LET y == [[Noted(r, s) EXCEPT !.sig = @ \ {s}] EXCEPT !.cursig = s]
           IN /\ y \in Proc /\ y.pptr = r.pptr
              /\ RecordOK(StopRec(y), FALSE) /\ Moved(r, StopRec(y))
<1> DEFINE n == Noted(r, s)
           g == n.sig \ {s}
           y == [[n EXCEPT !.sig = @ \ {s}] EXCEPT !.cursig = s]
           x == StopRec(y)
<1>1. /\ s \in Signals /\ n \in Proc /\ Fixed(r, n)
      /\ n.sig = (r.sig \cup {s}) \ {CONT} /\ n.sig \in SUBSET Signals
      /\ n.wchan = r.wchan /\ n.stat = r.stat /\ n.rq = r.rq
  BY StopNoted
<1> HIDE DEF n
<1>2. y \in Proc
  BY <1>1 DEF Proc
<1>3. Fixed(n, y)
  BY <1>1 DEF Proc, Fixed
<1>4. y.sig = g /\ y.cursig = s /\ y.wchan = n.wchan /\ y.rq = n.rq
  BY <1>1 DEF Proc
<1> HIDE DEF y
<1>5. /\ x \in Proc /\ Fixed(y, x) /\ x.stat = "SSTOP" /\ x.wchan = y.wchan
      /\ x.rq = y.rq /\ x.sig = y.sig /\ x.cursig = y.cursig
  BY <1>2, StopFields
<1> HIDE DEF x
<1>6. Fixed(r, x)
  BY <1>1, <1>3, <1>5 DEF Fixed
<1>7. /\ x.stat = "SSTOP" /\ x.wchan = r.wchan /\ x.rq = r.rq /\ x.cursig = s
      /\ x.sig = (r.sig \ {CONT}) \ {s} /\ x.intr = r.intr /\ x.mask = r.mask
      /\ x.disp = r.disp /\ x.sub = r.sub
  <2>1. x.sig = ((r.sig \cup {s}) \ {CONT}) \ {s}
    BY <1>1, <1>4, <1>5
  <2> QED BY <1>1, <1>4, <1>5, <1>6, <2>1 DEF Fixed
<1>8. QueueOK(r, on) /\ SignalOK(r) /\ SeenOK(r) /\ (ContNotTyped => StopOK(r))
  BY DEF RecordOK
<1>9. QueueOK(x, FALSE)
  BY <1>7, <1>8 DEF QueueOK
<1>10. SignalOK(x)
  <2>1. \A u \in x.sig \cap Stops : CONT \notin x.sig
    BY <1>7
  <2> QED BY <2>1, <1>7, <1>8 DEF SignalOK
<1>11. \A u \in r.sig \ r.mask : r.disp[u] # "ign" => u \in {CHLD, CONT} \cup Stops
  BY <1>8 DEF SeenOK
<1>12. SeenOK(x)
  BY <1>7, <1>11 DEF SeenOK
<1>13. ASSUME ContNotTyped
       PROVE  StopOK(x)
  <2>1. KILL \notin r.mask /\ KILL \notin {CHLD, CONT} \cup Stops
    BY SignalNumbers DEF Proc, Masks
  <2>2. r.disp[KILL] # "ign"
    BY <1>1, <1>8 DEF SignalOK
  <2>3. KILL \notin r.sig
    BY <1>11, <2>1, <2>2
  <2> QED BY <1>7, <1>8, <1>13, <2>3 DEF StopOK
<1>14. Moved(r, x)
  BY <1>6, <1>7 DEF Moved, Dead
<1>15. y.pptr = r.pptr
  BY <1>1, <1>3 DEF Fixed
<1> QED BY <1>2, <1>9, <1>10, <1>12, <1>13, <1>14, <1>15 DEF RecordOK, x, y, n

\* psignal of a stop signal.
LEMMA PostStopKeeps ==
    ASSUME NEW t, NEW c, TableOK(t, c), NEW p \in Procs \ {init}, NEW s \in Stops,
           t[p].disp[s] # "ign", t[p].pptr \in Procs
    PROVE  /\ TableOK(PostStop(t, p, s), c)
           /\ Frame(t, PostStop(t, p, s))
<1> DEFINE r == t[p]
           n == Noted(r, s)
           m == [t EXCEPT ![p] = Noted(@, s)]
           u == PostStop(t, p, s)
           one(x) == [t EXCEPT ![p] = x]
<1> SUFFICES TableOK(u, c) /\ Frame(t, u)
  OBVIOUS
<1>1. p \in Procs /\ p # init
  OBVIOUS
<1>2. t \in [Procs -> Proc] /\ RecordOK(r, p = c) /\ r \in Proc
  BY DEF TableOK
<1>3. /\ s \in Signals /\ n \in Proc /\ Fixed(r, n)
      /\ n.sig = (r.sig \cup {s}) \ {CONT} /\ n.sig \in SUBSET Signals
      /\ n.wchan = r.wchan /\ n.stat = r.stat /\ n.rq = r.rq
      /\ n.cursig = r.cursig /\ n.swted = r.swted
      /\ n.mask = r.mask /\ n.disp = r.disp /\ n.intr = r.intr /\ n.pptr = r.pptr
      /\ n.vfork = r.vfork /\ n.sub = r.sub
  BY <1>2, StopNoted
<1>4. /\ m \in [Procs -> Proc] /\ m[p] = n /\ m = one(n)
      /\ \A x : [m EXCEPT ![p] = x] = one(x)
  BY <1>2, <1>3
<1>5. QueueOK(r, p = c) /\ SignalOK(r)
  BY <1>2 DEF RecordOK
<1> DEFINE On == p = c
<1>6. On \in BOOLEAN /\ RecordOK(r, On)
  BY <1>2
<1>7. /\ r.stat = "SSLEEP" /\ s \notin r.mask /\ r.intr /\ r.disp[s] = "catch"
           => u = Setrun(m, p)
      /\ r.stat = "SSLEEP" /\ s \notin r.mask /\ r.intr /\ r.disp[s] # "catch"
           /\ s # STOP /\ r.pptr = init
           => u = [Post(m, p, KILL) EXCEPT ![p].sig = @ \ {s}]
      /\ r.stat = "SSLEEP" /\ s \notin r.mask /\ r.intr /\ r.disp[s] # "catch"
           /\ ~(s # STOP /\ r.pptr = init) /\ r.vfork
           => u = m
      /\ r.stat = "SSLEEP" /\ s \notin r.mask /\ r.intr /\ r.disp[s] # "catch"
           /\ ~(s # STOP /\ r.pptr = init) /\ ~r.vfork
           => u = StopProc([[m EXCEPT ![p].sig = @ \ {s}] EXCEPT ![p].cursig = s], p)
      /\ r.stat = "SSTOP" /\ s \notin r.mask
           => u = [m EXCEPT ![p].sig = @ \ {s}]
      /\ ~(r.stat = "SSLEEP" /\ s \notin r.mask /\ r.intr)
           /\ ~(r.stat = "SSTOP" /\ s \notin r.mask)
           => u = m
  <2>1. u = IF n.stat = "SSLEEP" /\ s \notin n.mask /\ n.intr
            THEN IF n.disp[s] = "catch" THEN Setrun(m, p)
                 ELSE IF s # STOP /\ n.pptr = init
                      THEN [Post(m, p, KILL) EXCEPT ![p].sig = @ \ {s}]
                 ELSE IF n.vfork THEN m
                 ELSE StopProc([[m EXCEPT ![p].sig = @ \ {s}] EXCEPT ![p].cursig = s], p)
            ELSE IF n.stat = "SSTOP" /\ s \notin n.mask THEN [m EXCEPT ![p].sig = @ \ {s}]
            ELSE m
    BY <1>4 DEF PostStop
  <2> HIDE DEF u, n, m, r
  <2> QED BY <1>3, <2>1
<1> HIDE DEF u, n, m, r
<1>8. ASSUME NEW x \in Proc, u = one(x), Fixed(r, x), x.cursig = r.cursig,
             x.swted = r.swted, CONT \notin x.sig,
             \/ /\ x.stat = "SRUN" /\ x.rq = TRUE /\ x.wchan = None
                /\ x.sig \subseteq r.sig \cup {s, KILL} /\ r.stat = "SSLEEP"
             \/ /\ x.stat = r.stat /\ x.rq = r.rq /\ x.wchan = r.wchan
                /\ x.sig \subseteq r.sig \cup {s}
                /\ s \in r.mask \/ ~r.intr \/ r.vfork \/ r.stat # "SSLEEP"
      PROVE  TableOK(u, c) /\ Frame(t, u)
  <2>1. RecordOK(x, On) /\ Moved(r, x) /\ NotStopped(r, x)
    <3> HIDE DEF On, one
    <3> QED BY <1>2, <1>6, <1>8, StopSignalKeeps
  <2>2. TableOK(one(x), c)
    BY <2>1, TableWith
  <2>3. Frame(t, one(x))
    BY <1>2, <1>8, <2>1, FrameWith DEF r
  <2> QED BY <1>8, <2>2, <2>3
<1>9. CASE r.stat = "SSLEEP" /\ s \notin r.mask /\ r.intr /\ r.disp[s] = "catch"
  <2>1. u = one(Ready(n))
    <3>1. Setrun(m, p) = one(Ready(n))
      BY <1>4 DEF Setrun, Unsleep, Ready
    <3> QED BY <1>7, <1>9, <3>1
  <2>2. Fixed(r, Ready(n))
    BY <1>3, ReadyFields DEF Fixed
  <2>3. /\ Ready(n) \in Proc /\ Ready(n).cursig = r.cursig /\ Ready(n).swted = r.swted
        /\ CONT \notin Ready(n).sig /\ Ready(n).stat = "SRUN" /\ Ready(n).rq = TRUE
        /\ Ready(n).wchan = None /\ Ready(n).sig \subseteq r.sig \cup {s, KILL}
    BY <1>3, ReadyFields
  <2> HIDE DEF one
  <2> QED BY <1>8, <1>9, <2>1, <2>2, <2>3
<1>10. CASE /\ r.stat = "SSLEEP" /\ s \notin r.mask /\ r.intr /\ r.disp[s] # "catch"
           /\ s # STOP /\ r.pptr = init
  <2> DEFINE k == Noted(n, KILL)
             x == [Ready(k) EXCEPT !.sig = @ \ {s}]
  <2>1. KILL \in Signals /\ KILL \notin Stops /\ KILL # CONT /\ KILL # CHLD
    BY SignalNumbers
  <2>2. r.disp[KILL] # "ign"
    <3>1. r.disp[s] # "ign"
      BY DEF r
    <3> QED BY <1>3, <1>5, <3>1 DEF SignalOK
  <2>3. Post(m, p, KILL) = [m EXCEPT ![p] = PostedRec(n, KILL)]
    <3>1. ~Ignores(m[p], KILL)
      BY <1>3, <1>4, <2>2 DEF Ignores
    <3>2. Posted(m, p, KILL) = [m EXCEPT ![p] = PostedRec(m[p], KILL)]
      <4>1. m \in [Procs -> Proc]
        BY <1>4
      <4> QED BY <1>1, <2>1, <4>1, PostedIs
    <3> QED BY <1>4, <3>1, <3>2 DEF Post
  <2>4. /\ k \in Proc /\ Fixed(n, k) /\ k.sig = n.sig \cup {KILL}
        /\ k.wchan = n.wchan /\ k.stat = n.stat /\ k.rq = n.rq
        /\ k.cursig = n.cursig /\ k.swted = n.swted
    <3>1. NotedSig(n, KILL) = n.sig \cup {KILL}
      BY <1>3, <2>1, NotedIs
    <3> QED BY <1>3, <2>1, <3>1, NotedFields
  <2>5. PostedRec(n, KILL) = Ready(k)
    <3>1. KILL \notin k.mask
      BY <2>4 DEF Proc, Masks
    <3>2. k.stat = "SSLEEP" /\ k.intr
      BY <1>3, <1>10, <2>4 DEF Fixed
    <3> QED BY <2>1, <3>1, <3>2 DEF PostedRec
  <2> HIDE DEF k
  <2>6. /\ Ready(k) \in Proc /\ Fixed(k, Ready(k)) /\ Ready(k).wchan = None
        /\ Ready(k).stat = "SRUN" /\ Ready(k).rq = TRUE
        /\ Ready(k).sig = k.sig /\ Ready(k).cursig = k.cursig /\ Ready(k).swted = k.swted
    BY <2>4, ReadyFields
  <2>7. u = one([Ready(k) EXCEPT !.sig = Ready(k).sig \ {s}])
    <3> DEFINE v == [m EXCEPT ![p] = Ready(k)]
    <3>1. u = [v EXCEPT ![p].sig = @ \ {s}]
      BY <1>7, <1>10, <2>3, <2>5
    <3>2. v = one(Ready(k)) /\ v[p] = Ready(k)
      BY <1>2, <1>4
    <3>3. [v EXCEPT ![p].sig = @ \ {s}] = [v EXCEPT ![p] = [Ready(k) EXCEPT !.sig = Ready(k).sig \ {s}]]
      BY <3>2
    <3> QED BY <1>2, <3>1, <3>2, <3>3
  <2> DEFINE g == Ready(k).sig \ {s}
             y == [Ready(k) EXCEPT !.sig = g]
  <2>8. g \in SUBSET Signals
    BY <2>6 DEF Proc
  <2>9. /\ y \in Proc /\ Fixed(Ready(k), y) /\ y.sig = g
        /\ y.wchan = None /\ y.stat = "SRUN" /\ y.rq = TRUE
        /\ y.cursig = Ready(k).cursig /\ y.swted = Ready(k).swted
    <3> HIDE DEF g
    <3> QED BY <2>6, <2>8, SigFields
  <2>10. Fixed(r, y)
    BY <1>3, <2>4, <2>6, <2>9 DEF Fixed
  <2>11. u = one(y)
    BY <2>7
  <2>12. /\ y.cursig = r.cursig /\ y.swted = r.swted
         /\ CONT \notin y.sig /\ y.sig \subseteq r.sig \cup {s, KILL}
    BY <1>3, <2>1, <2>4, <2>6, <2>9
  <2> HIDE DEF y, one
  <2> QED BY <1>8, <1>10, <2>9, <2>10, <2>11, <2>12
<1>11. CASE /\ r.stat = "SSLEEP" /\ s \notin r.mask /\ r.intr /\ r.disp[s] # "catch"
            /\ ~(s # STOP /\ r.pptr = init) /\ r.vfork
  <2>1. u = one(n)
    BY <1>4, <1>7, <1>11
  <2> HIDE DEF one
  <2> QED BY <1>3, <1>8, <1>11, <2>1
<1>12. CASE /\ r.stat = "SSLEEP" /\ s \notin r.mask /\ r.intr /\ r.disp[s] # "catch"
            /\ ~(s # STOP /\ r.pptr = init) /\ ~r.vfork
  <2> DEFINE y == [[n EXCEPT !.sig = @ \ {s}] EXCEPT !.cursig = s]
             z == [t EXCEPT ![p] = StopRec(y)]
  <2>1. u = StopProc(one(y), p)
    <3>1. [[m EXCEPT ![p].sig = @ \ {s}] EXCEPT ![p].cursig = s] = one(y)
      BY <1>4
    <3> QED BY <1>7, <1>12, <3>1
  <2>2. y \in Proc /\ y.pptr = r.pptr /\ RecordOK(StopRec(y), FALSE) /\ Moved(r, StopRec(y))
    <3>1. r.disp[s] # "ign"
      BY DEF r
    <3> HIDE DEF On
    <3> QED BY <1>2, <1>6, <1>12, <3>1, StoppedAsleep DEF n
  <2> HIDE DEF y
  <2>3. p # c
    BY <1>5, <1>12 DEF QueueOK
  <2>4. y.pptr \in Procs
    BY <2>2 DEF r
  <2>5. /\ TableOK(u, c)
        /\ z \in [Procs -> Proc] /\ z[p] = StopRec(y)
        /\ \A q \in Procs \ {p} : z[q] = t[q]
        /\ Frame(z, u) /\ u[y.pptr].wchan # y.pptr
    <3>1. \A q \in Procs \ {p} : q = c <=> q = c
      OBVIOUS
    <3>2. y \in Proc /\ RecordOK(StopRec(y), FALSE)
      BY <2>2
    <3>3. PICK v : v = [t EXCEPT ![p] = y]
      OBVIOUS
    <3>4. u = StopProc(v, p)
      BY <2>1, <3>3
    <3>5. StopRec(y) \in Proc
      BY <3>2, StopFields
    <3>6. z \in [Procs -> Proc] /\ z[p] = StopRec(y) /\ \A q \in Procs \ {p} : z[q] = t[q]
      BY <1>1, <1>2, <3>5
    <3>7. v \in [Procs -> Proc] /\ v[p] = y /\ \A q \in Procs \ {p} : v[q] = t[q]
      BY <1>1, <1>2, <3>2, <3>3
    <3>8. TableOK(z, c)
      <4>1. RecordOK(StopRec(y), p = c)
        <5>1. (p = c) = FALSE
          BY <2>3
        <5> QED BY <3>2, <5>1
      <4> QED BY <1>1, <3>1, <3>5, <4>1, TableWith
    <3> HIDE DEF z
    <3>9. TableOK(u, c) /\ Frame(z, u) /\ u[y.pptr].wchan # y.pptr
      BY <2>4, <3>4, <3>6, <3>7, <3>8, StopProcKeeps
    <3> QED BY <3>6, <3>9
  <2> HIDE DEF z
  <2>6. \A q \in Procs : Moved(t[q], z[q])
    <3>1. \A q \in Procs : Moved(t[q], t[q])
      BY DEF Moved, Fixed
    <3> QED BY <2>2, <2>5, <3>1 DEF r
  <2>7. ASSUME NEW q \in Procs
        PROVE  Moved(t[q], u[q])
    <3>1. Moved(t[q], z[q]) /\ Moved(z[q], u[q])
      BY <2>5, <2>6 DEF Frame
    <3>2. Fixed(t[q], u[q])
      BY <3>1 DEF Moved, Fixed
    <3> QED BY <3>1, <3>2 DEF Moved
  <2>8. ASSUME NEW q \in Procs, u[q].stat = "SSTOP"
        PROVE  \/ t[q].stat = "SSTOP" /\ u[q].swted = t[q].swted
               \/ t[q].pptr \in Procs /\ u[t[q].pptr].wchan # t[q].pptr
    <3>1. CASE q = p
      BY <2>2, <2>4, <2>5, <3>1 DEF r
    <3>2. CASE q # p
      <4>1. z[q] = t[q]
        BY <2>5, <3>2
      <4> QED BY <2>5, <2>8, <4>1 DEF Frame
    <3> QED BY <3>1, <3>2
  <2>9. u[init].cursig = t[init].cursig
    BY <2>5, SlotNames DEF Frame
  <2> QED BY <2>5, <2>7, <2>8, <2>9 DEF Frame
<1>13. CASE r.stat = "SSTOP" /\ s \notin r.mask
  <2> DEFINE g == n.sig \ {s}
             x == [n EXCEPT !.sig = g]
  <2>1. u = one(x)
    <3>1. [m EXCEPT ![p].sig = @ \ {s}] = one([n EXCEPT !.sig = n.sig \ {s}])
      BY <1>4
    <3> QED BY <1>7, <1>13, <3>1
  <2>2. g \in SUBSET Signals
    BY <1>3
  <2>3. /\ x \in Proc /\ Fixed(n, x) /\ x.sig = g
        /\ x.wchan = n.wchan /\ x.stat = n.stat /\ x.rq = n.rq
        /\ x.cursig = n.cursig /\ x.swted = n.swted
    <3> HIDE DEF g
    <3> QED BY <1>3, <2>2, SigFields
  <2> HIDE DEF x
  <2>4. Fixed(r, x)
    BY <1>3, <2>3 DEF Fixed
  <2>5. CONT \notin x.sig /\ x.sig \subseteq r.sig \cup {s}
    BY <1>3, <2>3
  <2> HIDE DEF one
  <2> QED BY <1>3, <1>8, <1>13, <2>1, <2>3, <2>4, <2>5
<1>14. CASE /\ ~(r.stat = "SSLEEP" /\ s \notin r.mask /\ r.intr)
            /\ ~(r.stat = "SSTOP" /\ s \notin r.mask)
  <2>1. u = one(n)
    BY <1>4, <1>7, <1>14
  <2> HIDE DEF one
  <2> QED BY <1>3, <1>8, <1>14, <2>1
<1> QED BY <1>9, <1>10, <1>11, <1>12, <1>13, <1>14

\* psignal: a process that may have to stop has a parent.
LEMMA PsignalKeeps ==
    ASSUME NEW t, NEW c, TableOK(t, c), NEW p \in Procs, NEW s \in Signals,
           s \in Stops => p # init /\ t[p].pptr \in Procs,
           ContNotTyped /\ t[p].sub = "stop" => s \notin {CONT, KILL}
    PROVE  /\ TableOK(Psignal(t, p, s), c)
           /\ Frame(t, Psignal(t, p, s))
           /\ s \notin Stops => Quiet(t, Psignal(t, p, s))
<1>1. t \in [Procs -> Proc]
  BY DEF TableOK
<1>2. CASE t[p].disp[s] = "ign"
  <2>1. Psignal(t, p, s) = t
    BY <1>2 DEF Psignal, Ignores
  <2> QED BY <1>1, <2>1, FrameSelf DEF Quiet, NotStopped
<1>3. CASE t[p].disp[s] # "ign" /\ s \in Stops
  <2>1. Psignal(t, p, s) = PostStop(t, p, s)
    BY <1>3 DEF Psignal, Ignores
  <2> QED BY <1>3, <2>1, PostStopKeeps
<1>4. CASE t[p].disp[s] # "ign" /\ s \notin Stops
  <2>1. Psignal(t, p, s) = Post(t, p, s)
    BY <1>4 DEF Psignal, Ignores
  <2> QED BY <1>4, <2>1, PostKeeps
<1> QED BY <1>2, <1>3, <1>4

------------------------------------------------------------------------------
(* What wakeup and psignal leave alone. *)

LEMMA FrameKeepsPlaces ==
    ASSUME NEW t, NEW u, Frame(t, u), NEW c, PlacesOK(t, c)
    PROVE  PlacesOK(u, c)
<1>1. ASSUME NEW p \in Procs
      PROVE  PlaceOK(p, u[p], p = c)
  <2>1. PlaceOK(p, t[p], p = c) /\ Moved(t[p], u[p])
    BY DEF PlacesOK, Frame
  <2> QED BY <2>1 DEF PlaceOK, Moved, Fixed, Dead
<1>2. InitOK(u[init])
  <2>1. InitOK(t[init]) /\ Moved(t[init], u[init]) /\ u[init].cursig = t[init].cursig
    BY SlotNames DEF PlacesOK, Frame
  <2>2. t[init].pptr = None
    BY <2>1 DEF InitOK
  <2>3. u[init].stat # "SSTOP"
    <3>1. t[init].stat # "SSTOP" /\ t[init].pptr \notin Procs
      BY <2>1, <2>2, SlotNames DEF InitOK
    <3> QED BY <3>1, SlotNames DEF Frame
  <2> QED BY <2>1, <2>3 DEF InitOK, Moved, Fixed
<1> QED BY <1>1, <1>2 DEF PlacesOK

LEMMA FrameKeepsKin ==
    ASSUME NEW t, NEW u, Frame(t, u), KinOK(t), NEW c, PlacesOK(t, c)
    PROVE  KinOK(u)
<1>1. \A p \in Procs :
        /\ u[p].pptr = t[p].pptr /\ u[p].pc = t[p].pc /\ u[p].child = t[p].child
        /\ u[p].vfork = t[p].vfork /\ u[p].vfdone = t[p].vfdone
        /\ t[p].wchan = None => u[p].wchan = None
        /\ t[p].stat \in Dead \/ u[p].stat \in Dead => u[p].stat = t[p].stat
  BY DEF Frame, Moved, Fixed
<1>2. \A p \in Procs : /\ Waiting(u[p]) => Waiting(t[p])
                       /\ Lent(u[p]) <=> Lent(t[p])
                       /\ u[p].stat = "none" <=> t[p].stat = "none"
                       /\ u[p].stat = "SZOMB" <=> t[p].stat = "SZOMB"
                       /\ u[p].stat = "SIDL" <=> t[p].stat = "SIDL"
  BY <1>1 DEF Waiting, Lent, Dead
<1> SUFFICES ASSUME NEW p \in Procs
             PROVE  ParentOK(u, p) /\ WaitOK(u, p) /\ LentOK(u, p) /\ ForkOK(u, p)
  BY DEF KinOK
<1>3. ParentOK(t, p) /\ WaitOK(t, p) /\ LentOK(t, p) /\ ForkOK(t, p)
  BY DEF KinOK
<1>4. ParentOK(u, p)
  BY <1>1, <1>2, <1>3 DEF ParentOK, Dead
<1>5. WaitOK(u, p)
  BY <1>1, <1>2, <1>3 DEF WaitOK
<1>6. LentOK(u, p)
  <2>1. ASSUME Lent(t[p])
        PROVE  t[p].pptr \in Procs
    <3>1. p # init
      BY <2>1 DEF PlacesOK, InitOK, Lent
    <3>2. t[p].stat # "none" => t[p].pptr \in Procs
      BY <1>3, <3>1 DEF ParentOK
    <3>3. t[p].stat # "none"
      BY <2>1 DEF PlacesOK, PlaceOK, Lent
    <3> QED BY <3>2, <3>3
  <2> QED BY <1>1, <1>2, <1>3, <2>1 DEF LentOK
<1>7. ForkOK(u, p)
  <2>1. t[p].pc \in {"procdup", "vfork"} => t[p].child \in Procs
    BY DEF PlacesOK, PlaceOK
  <2> QED BY <1>1, <1>2, <1>3, <2>1 DEF ForkOK
<1> QED BY <1>4, <1>5, <1>6, <1>7

\* Nobody stops without a word to a parent that waits.
LEMMA FrameKeepsTold ==
    ASSUME NEW t, NEW u, Frame(t, u), NEW c, PlacesOK(t, c), Told(t),
           Quiet(t, u) \/ (c \in Procs => t[c].pc # "waitsleep")
    PROVE  Told(u)
<1>1. \A p \in Procs :
        /\ u[p].pptr = t[p].pptr /\ u[p].opts = t[p].opts
        /\ u[p].pc = t[p].pc
        /\ t[p].wchan = None => u[p].wchan = None
        /\ u[p].wchan # None => u[p].wchan = t[p].wchan
        /\ Waiting(u[p]) => Waiting(t[p])
  BY DEF Frame, Moved, Fixed, Waiting
<1> SUFFICES ASSUME NEW p \in Procs, NEW q \in Procs, Waiting(u[p]),
                    "WUNTRACED" \in u[p].opts, u[q].pptr = p, u[q].stat = "SSTOP"
             PROVE  u[q].swted
  BY DEF Told
<1>2. t[q].stat = "SSTOP" => t[q].swted
  BY <1>1 DEF Told
<1>3. CASE t[q].stat = "SSTOP" /\ u[q].swted = t[q].swted
  BY <1>2, <1>3
<1>4. CASE Quiet(t, u)
  BY <1>2, <1>4 DEF Quiet, NotStopped
<1>5. CASE ~Quiet(t, u) /\ u[p].wchan # p
  <2>1. u[p].pc # "waitsleep"
    <3>1. t[p].pc = "waitsleep" => p = c
      BY DEF PlacesOK, PlaceOK
    <3> QED BY <1>1, <1>5, <3>1
  <2>2. u[p].pc = "wait" /\ u[p].wchan # None
    BY <2>1 DEF Waiting
  <2>3. t[p].pc = "wait" /\ t[p].wchan = u[p].wchan
    BY <1>1, <2>2
  <2>4. t[p].wchan = p
    BY <2>2, <2>3 DEF PlacesOK, PlaceOK
  <2> QED BY <1>5, <2>3, <2>4
<1>6. \/ t[q].stat = "SSTOP" /\ u[q].swted = t[q].swted
      \/ u[p].wchan # p
  BY <1>1 DEF Frame
<1> QED BY <1>3, <1>4, <1>5, <1>6

LEMMA FrameKeepsState ==
    ASSUME NEW t, NEW u, NEW c, StateOK(t, c), Frame(t, u), TableOK(u, c),
           StopsNotTyped => Quiet(t, u) \/ (c \in Procs => t[c].pc # "waitsleep")
    PROVE  StateOK(u, c)
BY FrameKeepsPlaces, FrameKeepsKin, FrameKeepsTold DEF StateOK

\* wakeup and psignal keep all of it.
LEMMA WakeupKeepsState ==
    ASSUME NEW t, NEW c, StateOK(t, c), NEW chan \in Channels
    PROVE  StateOK(Wakeup(t, chan), c)
<1>1. TableOK(t, c)
  BY DEF StateOK
<1> DEFINE u == Wakeup(t, chan)
<1>2. TableOK(u, c) /\ Frame(t, u) /\ Quiet(t, u)
  BY <1>1, WakeupKeeps
<1> HIDE DEF u
<1>3. StateOK(u, c)
  BY <1>2, FrameKeepsState
<1> QED BY <1>3 DEF u

LEMMA PsignalKeepsState ==
    ASSUME NEW t, NEW c, StateOK(t, c), NEW p \in Procs, NEW s \in Signals,
           s \in Stops => p # init /\ t[p].stat # "none",
           ContNotTyped /\ t[p].sub = "stop" => s \notin {CONT, KILL},
           StopsNotTyped => s \notin Stops \/ (c \in Procs => t[c].pc # "waitsleep")
    PROVE  StateOK(Psignal(t, p, s), c)
<1>1. TableOK(t, c) /\ KinOK(t)
  BY DEF StateOK
<1> DEFINE u == Psignal(t, p, s)
<1>2. s \in Stops => p # init /\ t[p].pptr \in Procs
  BY <1>1 DEF KinOK, ParentOK
<1>3. TableOK(u, c) /\ Frame(t, u) /\ (s \notin Stops => Quiet(t, u))
  BY <1>1, <1>2, PsignalKeeps
<1> HIDE DEF u
<1>4. StateOK(u, c)
  BY <1>3, FrameKeepsState
<1> QED BY <1>4 DEF u

------------------------------------------------------------------------------
(* Signals of the terminals. *)

LEMMA GsignalKeeps ==
    ASSUME NEW t, NEW c, TableOK(t, c), KinOK(t), NEW s \in Signals,
           ContNotTyped => s \notin {CONT, KILL}
    PROVE  /\ TableOK(Gsignal(t, s), c)
           /\ Frame(t, Gsignal(t, s))
           /\ s \notin Stops => Quiet(t, Gsignal(t, s))
<1> DEFINE S == Group
           J == {u \in [Procs -> Proc] : /\ TableOK(u, c) /\ Frame(t, u)
                                         /\ s \notin Stops => Quiet(t, u)}
           Op(u, p) == IF u[p].stat = "none" THEN u ELSE Psignal(u, p, s)
           iter == CHOOSE g : g = [a \in SUBSET S |->
                                     IF a = {} THEN t ELSE Op(g[a \ {Max(a)}], Max(a))]
           F == [x \in S \X J |-> Op(x[2], x[1])]
<1>1. Gsignal(t, s) = iter[S]
  BY DEF Gsignal, InOrder, MapThenFoldSet
<1>2. t \in J
  <2>1. t \in [Procs -> Proc]
    BY DEF TableOK
  <2>2. Frame(t, t) /\ Quiet(t, t)
    BY <2>1, FrameSelf DEF Quiet, NotStopped
  <2> QED BY <2>1, <2>2
<1>3. S \in SUBSET Int /\ IsFiniteSet(S) /\ S \subseteq Procs \ {init}
  <2>1. S \subseteq Procs
    BY ProcessesAssumption
  <2> QED BY <2>1, ProcessesAssumption, SlotNames, FS_Subset
<1>4. ASSUME NEW u \in J, NEW p \in S
      PROVE  Op(u, p) \in J
  <2>1. CASE u[p].stat = "none"
    BY <2>1
  <2>2. CASE u[p].stat # "none"
    <3> DEFINE v == Psignal(u, p, s)
    <3>1. TableOK(u, c) /\ Frame(t, u) /\ (s \notin Stops => Quiet(t, u))
      OBVIOUS
    <3>2. p \in Procs /\ p # init
      BY <1>3
    <3>3. u[p].pptr \in Procs
      <4>1. u[p].pptr = t[p].pptr /\ t[p].stat # "none"
        BY <2>2, <3>1, <3>2 DEF Frame, Moved, Fixed, Dead
      <4>2. ParentOK(t, p)
        BY <3>2 DEF KinOK
      <4> QED BY <3>2, <4>1, <4>2 DEF ParentOK
    <3>4. TableOK(v, c) /\ Frame(u, v) /\ (s \notin Stops => Quiet(u, v))
      BY <3>1, <3>2, <3>3, PsignalKeeps
    <3>5. v \in [Procs -> Proc]
      BY <3>4 DEF TableOK
    <3> HIDE DEF v
    <3>6. Frame(t, v)
      BY <3>1, <3>4, FrameJoin
    <3>7. s \notin Stops => Quiet(t, v)
      BY <3>1, <3>4 DEF Quiet, NotStopped
    <3>8. v \in J
      BY <3>4, <3>5, <3>6, <3>7
    <3> QED BY <2>2, <3>8 DEF v
  <2> QED BY <2>1, <2>2
<1> HIDE DEF J, Op
<1>5. F \in [S \X J -> J]
  BY <1>4
<1>6. \A a \in SUBSET S : a # {} => Max(a) \in a
  BY <1>3, FS_Subset, MaxIn
<1> HIDE DEF F
<1>7. PICK W \in [SUBSET S -> J] :
         \A a \in SUBSET S : W[a] = IF a = {} THEN t ELSE F[<<Max(a), W[a \ {Max(a)}]>>]
  <2> HIDE DEF S
  <2>1. PICK W : IsFold(W, S, J, t, F)
    BY <1>2, <1>3, <1>5, FoldExists
  <2> QED BY <2>1 DEF IsFold
<1>8. \A a \in SUBSET S, v \in J : a # {} => F[<<Max(a), v>>] = Op(v, Max(a))
  BY <1>6 DEF F
<1>9. W = [a \in SUBSET S |-> IF a = {} THEN t ELSE Op(W[a \ {Max(a)}], Max(a))]
  <2> SUFFICES ASSUME NEW a \in SUBSET S
               PROVE  W[a] = IF a = {} THEN t ELSE Op(W[a \ {Max(a)}], Max(a))
    OBVIOUS
  <2>1. W[a \ {Max(a)}] \in J
    OBVIOUS
  <2> QED BY <1>7, <1>8, <2>1
<1>10. iter = [a \in SUBSET S |-> IF a = {} THEN t ELSE Op(iter[a \ {Max(a)}], Max(a))]
  BY <1>9
<1> HIDE DEF iter
<1> DEFINE G == (SUBSET S) \X J
<1>11. <<{}, iter[{}]>> \in G
  BY <1>2, <1>10
<1>12. ASSUME NEW a \in SUBSET S, a # {}, <<a \ {Max(a)}, iter[a \ {Max(a)}]>> \in G
       PROVE  <<a, iter[a]>> \in G
  <2>1. iter[a \ {Max(a)}] \in J /\ Max(a) \in S
    BY <1>6, <1>12
  <2>2. Op(iter[a \ {Max(a)}], Max(a)) \in J
    BY <1>4, <2>1
  <2>3. iter[a] = Op(iter[a \ {Max(a)}], Max(a))
    BY <1>10, <1>12
  <2> QED BY <2>2, <2>3
<1>13. <<S, iter[S]>> \in G
  <2> HIDE DEF G
  <2>1. \A a \in SUBSET S : <<a, iter[a]>> \in G
    BY <1>3, <1>11, <1>12, FoldInduction
  <2> QED BY <2>1
<1> QED BY <1>1, <1>13 DEF J

LEMMA GsignalKeepsState ==
    ASSUME NEW t, NEW c, StateOK(t, c), NEW s \in Signals,
           ContNotTyped => s \notin {CONT, KILL}, StopsNotTyped => s \notin Stops
    PROVE  StateOK(Gsignal(t, s), c)
<1> DEFINE u == Gsignal(t, s)
<1>1. TableOK(t, c) /\ KinOK(t)
  BY DEF StateOK
<1>2. TableOK(u, c) /\ Frame(t, u) /\ (s \notin Stops => Quiet(t, u))
  BY <1>1, GsignalKeeps
<1> HIDE DEF u
<1>3. StateOK(u, c)
  BY <1>2, FrameKeepsState
<1> QED BY <1>3 DEF u

\* All the signals that a terminal sends.
LEMMA TypedKeepsState ==
    ASSUME NEW t, NEW c, StateOK(t, c), NEW s \in Typed
    PROVE  StateOK(FoldLeft(Gsignal, t, s), c)
<1> DEFINE S == DOMAIN s
           J == {u \in [Procs -> Proc] : StateOK(u, c)}
           iter == CHOOSE g : g = [a \in SUBSET S |->
                      IF a = {} THEN t ELSE Gsignal(g[a \ {Max(a)}], s[Max(a)])]
           F == [x \in S \X J |-> Gsignal(x[2], s[x[1]])]
<1>1. FoldLeft(Gsignal, t, s) = iter[S]
  BY DEF FoldLeft, MapThenFoldSet
<1>2. t \in J
  BY DEF StateOK, TableOK
<1>3. S \in SUBSET Int /\ IsFiniteSet(S) /\ \A i \in S : s[i] \in Signals
  <2>1. s \in Seq(Signals)
    BY ProcessesAssumption
  <2>2. S = 1 .. Len(s) /\ Len(s) \in Int /\ 1 \in Int
    BY <2>1, LenProperties
  <2> QED BY <2>1, <2>2, FS_Interval, ElementOfSeq
<1>4. ASSUME NEW u \in J, NEW i \in S
      PROVE  Gsignal(u, s[i]) \in J
  <2> DEFINE v == Gsignal(u, s[i])
  <2>1. s[i] \in Signals
    BY <1>3
  <2>2. /\ ContNotTyped => s[i] \notin {CONT, KILL}
        /\ StopsNotTyped => s[i] \notin Stops
    BY DEF ContNotTyped, StopsNotTyped
  <2>3. StateOK(v, c)
    BY <2>1, <2>2, GsignalKeepsState
  <2> HIDE DEF v
  <2>4. v \in [Procs -> Proc]
    BY <2>3 DEF StateOK, TableOK
  <2> QED BY <2>3, <2>4 DEF v
<1> HIDE DEF J
<1>5. F \in [S \X J -> J]
  BY <1>4
<1>6. \A a \in SUBSET S : a # {} => Max(a) \in a
  BY <1>3, FS_Subset, MaxIn
<1> HIDE DEF F
<1>7. PICK W \in [SUBSET S -> J] :
         \A a \in SUBSET S : W[a] = IF a = {} THEN t ELSE F[<<Max(a), W[a \ {Max(a)}]>>]
  <2> HIDE DEF S
  <2>1. PICK W : IsFold(W, S, J, t, F)
    BY <1>2, <1>3, <1>5, FoldExists
  <2> QED BY <2>1 DEF IsFold
<1>8. \A a \in SUBSET S, v \in J : a # {} => F[<<Max(a), v>>] = Gsignal(v, s[Max(a)])
  BY <1>6 DEF F
<1>9. W = [a \in SUBSET S |-> IF a = {} THEN t ELSE Gsignal(W[a \ {Max(a)}], s[Max(a)])]
  <2> SUFFICES ASSUME NEW a \in SUBSET S
               PROVE  W[a] = IF a = {} THEN t ELSE Gsignal(W[a \ {Max(a)}], s[Max(a)])
    OBVIOUS
  <2>1. W[a \ {Max(a)}] \in J
    OBVIOUS
  <2> QED BY <1>7, <1>8, <2>1
<1>10. iter = [a \in SUBSET S |-> IF a = {} THEN t ELSE Gsignal(iter[a \ {Max(a)}], s[Max(a)])]
  BY <1>9
<1> HIDE DEF iter
<1> DEFINE G == (SUBSET S) \X J
<1>11. <<{}, iter[{}]>> \in G
  BY <1>2, <1>10
<1>12. ASSUME NEW a \in SUBSET S, a # {}, <<a \ {Max(a)}, iter[a \ {Max(a)}]>> \in G
       PROVE  <<a, iter[a]>> \in G
  <2>1. iter[a \ {Max(a)}] \in J /\ Max(a) \in S
    BY <1>6, <1>12
  <2>2. Gsignal(iter[a \ {Max(a)}], s[Max(a)]) \in J
    BY <1>4, <2>1
  <2>3. iter[a] = Gsignal(iter[a \ {Max(a)}], s[Max(a)])
    BY <1>10, <1>12
  <2> QED BY <2>2, <2>3
<1>13. <<S, iter[S]>> \in G
  <2> HIDE DEF G
  <2>1. \A a \in SUBSET S : <<a, iter[a]>> \in G
    BY <1>3, <1>11, <1>12, FoldInduction
  <2> QED BY <2>1
<1> QED BY <1>1, <1>13 DEF J

------------------------------------------------------------------------------
(* One process gets another record. *)

\* Nobody is his own parent.
LEMMA NotOwnParent ==
    ASSUME NEW t, NEW c, KinOK(t), PlacesOK(t, c), NEW p \in Procs
    PROVE  /\ t[p].pptr # p /\ t[p].pptr \in Procs \cup {None}
           /\ p # init /\ t[p].stat # "none" => /\ t[p].pptr \in Procs
                                                /\ t[t[p].pptr].stat \notin Dead
           /\ Lent(t[p]) => p # init /\ t[p].stat # "none" /\ t[p].pptr \in Procs
<1>1. ParentOK(t, p)
  BY DEF KinOK
<1>2. InitOK(t[init]) /\ PlaceOK(p, t[p], p = c)
  BY DEF PlacesOK
<1>3. p = init => t[p].pptr = None /\ t[p].stat # "none" /\ ~Lent(t[p])
  BY <1>2 DEF InitOK, Dead, Lent
<1>4. t[p].stat = "none" => ~Lent(t[p])
  BY <1>2 DEF PlaceOK, Lent
<1> QED BY <1>1, <1>3, <1>4, SlotNames DEF ParentOK

\* The processes that are alive keep their parents and children.
LEMMA KinWith ==
    ASSUME NEW t \in [Procs -> Proc], NEW c, KinOK(t), PlacesOK(t, c),
           NEW p \in Procs, NEW x \in Proc,
           x.pptr = t[p].pptr, t[p].stat \notin Dead, x.stat \notin Dead,
           Lent(x) <=> Lent(t[p]),
           \/ x.vfork = t[p].vfork
           \/ \A q \in Procs : t[q].pc = "vfork" /\ t[q].child = p => t[q].wchan = None,
           Waiting(x) => \/ Waiting(t[p])
                         \/ /\ \E q \in Procs : t[q].pptr = p
                            /\ \A q \in Procs : t[q].pptr = p => t[q].stat # "SZOMB",
           \/ {x.pc, t[p].pc} \cap {"procdup", "vfork"} = {}
           \/ /\ x.pc = t[p].pc /\ x.child = t[p].child
              /\ x.pc = "vfork" /\ x.wchan # None => t[p].wchan # None \/ t[x.child].vfork
    PROVE  KinOK([t EXCEPT ![p] = x])
<1>1. PICK u : u = [t EXCEPT ![p] = x]
  OBVIOUS
<1>2. u \in [Procs -> Proc] /\ u[p] = x /\ \A q \in Procs \ {p} : u[q] = t[q]
  BY <1>1
<1>3. \A q \in Procs : /\ t[q].pptr # q /\ t[q].pptr \in Procs \cup {None}
                       /\ Lent(t[q]) => t[q].pptr \in Procs
                       /\ ParentOK(t, q) /\ WaitOK(t, q) /\ LentOK(t, q) /\ ForkOK(t, q)
                       /\ t[q].pc \in {"procdup", "vfork"} => t[q].child \in Procs
  BY NotOwnParent DEF KinOK, PlacesOK, PlaceOK
<1>4. \A q \in Procs : /\ u[q].pptr = t[q].pptr
                       /\ Lent(u[q]) <=> Lent(t[q])
                       /\ u[q].stat \in Dead \/ t[q].stat \in Dead => u[q].stat = t[q].stat
                       /\ u[q].stat \in Dead <=> t[q].stat \in Dead
  BY <1>2
<1>5. \A q \in Procs : /\ u[q].stat = "none" <=> t[q].stat = "none"
                       /\ u[q].stat = "SZOMB" <=> t[q].stat = "SZOMB"
                       /\ u[q].stat = "SIDL" <=> t[q].stat = "SIDL"
  BY <1>4 DEF Dead
<1> SUFFICES ASSUME NEW q \in Procs
             PROVE  ParentOK(u, q) /\ WaitOK(u, q) /\ LentOK(u, q) /\ ForkOK(u, q)
  BY <1>1 DEF KinOK
<1>6. ParentOK(u, q)
  <2>1. CASE t[q].stat = "none"
    BY <1>3, <1>4, <1>5, <2>1 DEF ParentOK
  <2>2. CASE t[q].stat # "none" /\ q # init
    <3>1. t[q].pptr \in Procs \ {q} /\ t[t[q].pptr].stat \notin Dead
      BY <1>3, <2>2 DEF ParentOK
    <3>2. u[q].pptr = t[q].pptr /\ u[u[q].pptr].stat \notin Dead
      BY <1>4, <3>1
    <3> QED BY <1>5, <2>2, <3>1, <3>2 DEF ParentOK
  <2>3. CASE t[q].stat # "none" /\ q = init
    BY <1>5, <2>3 DEF ParentOK
  <2> QED BY <2>1, <2>2, <2>3
<1>7. WaitOK(u, q)
  <2>1. CASE q = p
    BY <1>2, <1>3, <1>4, <1>5, <2>1 DEF WaitOK
  <2>2. CASE q # p
    BY <1>2, <1>3, <1>4, <1>5, <2>2 DEF WaitOK
  <2> QED BY <2>1, <2>2
<1>8. LentOK(u, q)
  <2> SUFFICES ASSUME Lent(u[q])
               PROVE  /\ u[u[q].pptr].pc \in {"procdup", "vfork"}
                      /\ u[u[q].pptr].child = q
    BY DEF LentOK
  <2>1. /\ t[q].pptr \in Procs /\ t[t[q].pptr].pc \in {"procdup", "vfork"}
        /\ t[t[q].pptr].child = q /\ u[q].pptr = t[q].pptr
    BY <1>3, <1>4 DEF LentOK
  <2>2. CASE t[q].pptr = p
    <3>1. x.pc = t[p].pc /\ x.child = t[p].child
      BY <2>1, <2>2
    <3> QED BY <1>2, <2>1, <2>2, <3>1
  <2>3. CASE t[q].pptr # p
    BY <1>2, <2>1, <2>3
  <2> QED BY <2>2, <2>3
<1>9. ForkOK(u, q)
  <2>1. u[q].pc \in {"procdup", "vfork"} =>
           u[q].pc = t[q].pc /\ u[q].child = t[q].child /\ t[q].child \in Procs
    <3>1. CASE q = p
      BY <1>2, <1>3, <3>1
    <3>2. CASE q # p
      BY <1>2, <1>3, <3>2
    <3> QED BY <3>1, <3>2
  <2>2. u[q].pc = "procdup" => u[u[q].child].pptr = q /\ u[u[q].child].stat = "SIDL"
    BY <1>3, <1>4, <1>5, <2>1 DEF ForkOK
  <2>3. u[q].pc = "vfork" =>
          /\ u[u[q].child].pptr = q /\ u[u[q].child].stat \notin {"none", "SZOMB"}
          /\ Lent(u[u[q].child])
    BY <1>3, <1>4, <1>5, <2>1 DEF ForkOK
  <2>4. ASSUME u[q].pc = "vfork", u[q].wchan # None
        PROVE  u[u[q].child].vfork
    <3> DEFINE k == t[q].child
    <3>1. k \in Procs /\ u[q].child = k /\ t[q].pc = "vfork" /\ t[k].pptr = q
      BY <1>3, <2>1, <2>4 DEF ForkOK
    <3>2. k # q
      BY <1>3, <3>1
    <3>3. t[q].wchan # None => t[k].vfork
      BY <1>3, <3>1 DEF ForkOK
    <3> HIDE DEF k
    <3>4. CASE q = p
      <4>1. u[k] = t[k]
        BY <1>2, <3>1, <3>2, <3>4
      <4>2. t[k].vfork
        BY <1>2, <2>4, <3>1, <3>3, <3>4
      <4> QED BY <3>1, <4>1, <4>2
    <3>5. CASE q # p
      <4>1. t[q].wchan # None /\ t[k].vfork
        BY <1>2, <2>4, <3>3, <3>5
      <4>2. CASE k = p
        <5>1. t[q].child = p
          BY <4>2 DEF k
        <5>2. x.vfork = t[p].vfork
          BY <3>1, <4>1, <5>1
        <5> QED BY <1>2, <3>1, <4>1, <4>2, <5>2
      <4>3. CASE k # p
        BY <1>2, <3>1, <4>1, <4>3
      <4> QED BY <4>2, <4>3
    <3> QED BY <3>4, <3>5
  <2> QED BY <2>2, <2>3, <2>4 DEF ForkOK
<1> QED BY <1>6, <1>7, <1>8, <1>9

LEMMA PlacesWith ==
    ASSUME NEW t \in [Procs -> Proc], NEW c, PlacesOK(t, c), NEW p \in Procs, NEW d,
           NEW x \in Proc, PlaceOK(p, x, p = d), p = init => InitOK(x),
           \A q \in Procs \ {p} : q = c <=> q = d
    PROVE  PlacesOK([t EXCEPT ![p] = x], d)
<1>1. PICK u : u = [t EXCEPT ![p] = x]
  OBVIOUS
<1>2. u[p] = x /\ \A q \in Procs \ {p} : u[q] = t[q]
  BY <1>1
<1>3. ASSUME NEW q \in Procs
      PROVE  PlaceOK(q, u[q], q = d)
  <2>1. CASE q = p
    BY <1>2, <2>1
  <2>2. CASE q # p
    <3>1. u[q] = t[q] /\ PlaceOK(q, t[q], q = c)
      BY <1>2, <2>2 DEF PlacesOK
    <3>2. q = c <=> q = d
      BY <2>2
    <3> QED BY <3>1, <3>2 DEF PlaceOK
  <2> QED BY <2>1, <2>2
<1>4. InitOK(u[init])
  BY <1>2, SlotNames DEF PlacesOK
<1> QED BY <1>1, <1>3, <1>4 DEF PlacesOK

LEMMA ToldWith ==
    ASSUME NEW t \in [Procs -> Proc], Told(t), NEW p \in Procs, NEW x \in Proc,
           x.pptr = t[p].pptr, NotStopped(t[p], x),
           Waiting(x) /\ "WUNTRACED" \in x.opts =>
              \/ Waiting(t[p]) /\ "WUNTRACED" \in t[p].opts
              \/ \A q \in Procs : t[q].pptr = p /\ t[q].stat = "SSTOP" => t[q].swted
    PROVE  Told([t EXCEPT ![p] = x])
<1>1. PICK u : u = [t EXCEPT ![p] = x]
  OBVIOUS
<1>2. u[p] = x /\ \A q \in Procs \ {p} : u[q] = t[q]
  BY <1>1
<1>3. \A q \in Procs : /\ u[q].pptr = t[q].pptr
                       /\ u[q].stat = "SSTOP" => t[q].stat = "SSTOP" /\ u[q].swted = t[q].swted
  BY <1>2 DEF NotStopped
<1> SUFFICES ASSUME NEW k \in Procs, NEW q \in Procs, Waiting(u[k]),
                    "WUNTRACED" \in u[k].opts, u[q].pptr = k, u[q].stat = "SSTOP"
             PROVE  u[q].swted
  BY <1>1 DEF Told
<1>4. CASE k = p
  BY <1>2, <1>3, <1>4 DEF Told
<1>5. CASE k # p
  BY <1>2, <1>3, <1>5 DEF Told
<1> QED BY <1>4, <1>5

\* What most steps do to the record of the process that takes them.
Plain(t, p, x) ==
    LET r == t[p]
    IN /\ x.pptr = r.pptr /\ x.vfork = r.vfork
       /\ r.stat \notin Dead /\ x.stat \notin Dead
       /\ Lent(x) <=> Lent(r)
       /\ Waiting(x) => Waiting(r) /\ x.opts = r.opts
       /\ NotStopped(r, x)
       /\ \/ {x.pc, r.pc} \cap {"procdup", "vfork"} = {}
          \/ /\ x.pc = r.pc /\ x.child = r.child
             /\ x.pc = "vfork" /\ x.wchan # None => r.wchan # None \/ t[x.child].vfork

LEMMA PlainKeepsState ==
    ASSUME NEW t, NEW c, StateOK(t, c), NEW p \in Procs, NEW d,
           \A q \in Procs \ {p} : q = c <=> q = d,
           NEW x \in Proc, RecordOK(x, p = d), PlaceOK(p, x, p = d),
           p = init => InitOK(x), Plain(t, p, x)
    PROVE  StateOK([t EXCEPT ![p] = x], d)
<1>1. t \in [Procs -> Proc] /\ TableOK(t, c) /\ PlacesOK(t, c) /\ KinOK(t)
      /\ (StopsNotTyped => Told(t))
  BY DEF StateOK, TableOK
<1>2. TableOK([t EXCEPT ![p] = x], d)
  BY <1>1, TableWith
<1>3. PlacesOK([t EXCEPT ![p] = x], d)
  BY <1>1, PlacesWith
<1>4. KinOK([t EXCEPT ![p] = x])
  <2>1. x.pptr = t[p].pptr /\ t[p].stat \notin Dead /\ x.stat \notin Dead
        /\ (Lent(x) <=> Lent(t[p])) /\ x.vfork = t[p].vfork
        /\ (Waiting(x) => Waiting(t[p]))
    BY DEF Plain
  <2>2. \/ {x.pc, t[p].pc} \cap {"procdup", "vfork"} = {}
        \/ /\ x.pc = t[p].pc /\ x.child = t[p].child
           /\ x.pc = "vfork" /\ x.wchan # None => t[p].wchan # None \/ t[x.child].vfork
    BY DEF Plain
  <2> QED BY <1>1, <2>1, <2>2, KinWith
<1>5. StopsNotTyped => Told([t EXCEPT ![p] = x])
  <2>1. /\ x.pptr = t[p].pptr /\ NotStopped(t[p], x)
        /\ Waiting(x) /\ "WUNTRACED" \in x.opts => Waiting(t[p]) /\ "WUNTRACED" \in t[p].opts
    BY DEF Plain
  <2> QED BY <1>1, <2>1, ToldWith
<1> QED BY <1>2, <1>3, <1>4, <1>5 DEF StateOK

------------------------------------------------------------------------------
(* Steps of the process that runs. *)

\* What no step of a process itself changes but fork, exec, exit and wait.
Same(r, x) ==
    /\ x.stat = r.stat /\ x.rq = r.rq /\ x.pptr = r.pptr
    /\ x.vfork = r.vfork /\ x.vfdone = r.vfdone

\* The process that runs.
LEMMA OnFacts ==
    ASSUME NEW t, NEW p \in Procs, StateOK(t, p)
    PROVE  /\ t \in [Procs -> Proc] /\ t[p] \in Proc /\ RecordOK(t[p], TRUE)
           /\ t[p].stat = "SRUN" /\ t[p].rq = FALSE
           /\ t[p].wchan # None => t[p].sub = "pre"
           /\ t[p].sub = "pre" => t[p].intr
           /\ SignalOK(t[p])
           /\ ContNotTyped => StopOK(t[p]) /\ CONT \notin t[p].mask
           /\ PlaceOK(p, t[p], TRUE) /\ PlacesOK(t, p) /\ KinOK(t)
           /\ p = init => InitOK(t[p])
           /\ t[p].sub = "main" => t[p].wchan = None
           /\ \A q \in Procs : t[q].stat # "SRUN" => q # p
           /\ \A q \in Procs : t[q].sub \in {"stop"} \/ t[q].pc \in {"procdup", "waitsleep"}
                                  => q = p
<1>1. TableOK(t, p) /\ PlacesOK(t, p) /\ KinOK(t) /\ t \in [Procs -> Proc]
  BY DEF StateOK, TableOK
<1>2. RecordOK(t[p], TRUE)
  <2>1. RecordOK(t[p], p = p)
    BY <1>1 DEF TableOK
  <2> QED BY <2>1
<1>3. PlaceOK(p, t[p], TRUE)
  <2>1. PlaceOK(p, t[p], p = p)
    BY <1>1 DEF PlacesOK
  <2> QED BY <2>1
<1>4. p = init => InitOK(t[p])
  BY <1>1 DEF PlacesOK
<1>5. QueueOK(t[p], TRUE) /\ SignalOK(t[p]) /\ (ContNotTyped => StopOK(t[p]))
  BY <1>2 DEF RecordOK
<1>6. t[p].stat = "SRUN" /\ t[p].rq = FALSE /\ (t[p].wchan # None => t[p].sub = "pre")
      /\ (t[p].sub = "pre" => t[p].intr)
  BY <1>1, <1>5 DEF QueueOK, Proc
<1>7. ContNotTyped => CONT \notin t[p].mask
  BY <1>5 DEF StopOK
<1>8. ASSUME NEW q \in Procs, t[q].sub \in {"stop"} \/ t[q].pc \in {"procdup", "waitsleep"}
      PROVE  q = p
  <2>1. RecordOK(t[q], q = p) /\ PlaceOK(q, t[q], q = p)
    BY <1>1 DEF TableOK, PlacesOK
  <2> QED BY <1>8, <2>1 DEF RecordOK, QueueOK, PlaceOK
<1> QED BY <1>1, <1>2, <1>3, <1>4, <1>5, <1>6, <1>7, <1>8

\* A record of a process that runs.
LEMMA RunRecord ==
    ASSUME NEW x \in Proc, x.stat = "SRUN", x.rq = FALSE,
           x.wchan # None => x.sub = "pre", x.sub = "pre" => x.intr, SignalOK(x),
           ContNotTyped => CONT \notin x.mask,
           ContNotTyped /\ x.sub = "stop" =>
              x.sig \cap {CONT, KILL} = {} /\ x.cursig \in Stops
    PROVE  RecordOK(x, TRUE)
<1>1. QueueOK(x, TRUE)
  BY DEF QueueOK
<1>2. SeenOK(x)
  BY DEF SeenOK
<1>3. ContNotTyped => StopOK(x)
  BY DEF StopOK
<1> QED BY <1>1, <1>2, <1>3 DEF RecordOK

\* With the same dispositions and no new signal.
LEMMA SignalLess ==
    ASSUME NEW r, NEW x, SignalOK(r), x.disp = r.disp, x.sig \subseteq r.sig
    PROVE  SignalOK(x)
BY DEF SignalOK

\* It goes on in the kernel outside sleep, issig, and the two halves of vfork.
LEMMA GoKeepsState ==
    ASSUME NEW t, NEW p \in Procs, StateOK(t, p), NEW x \in Proc, Same(t[p], x),
           x.wchan = None, x.sub = "main", SignalOK(x),
           ContNotTyped => CONT \notin x.mask,
           x.pc \in {"user", "trap", "close", "wait", "sigpause", "tty", "disk"},
           t[p].pc \notin {"procdup", "vfork", "exec", "exit"},
           x.pc = "close" => ~x.vfork /\ p # init,
           p = init /\ x.cursig # 0 => x.pc = "trap" /\ x.disp[x.cursig] = "catch",
           x.disp[KILL] = "ign" => x.pc = "close"
    PROVE  StateOK([t EXCEPT ![p] = x], p)
<1> DEFINE r == t[p]
<1>1. /\ r \in Proc /\ r.stat = "SRUN" /\ r.rq = FALSE
      /\ PlaceOK(p, r, TRUE) /\ (p = init => InitOK(r))
  BY OnFacts
<1>2. /\ x.stat = "SRUN" /\ x.rq = FALSE /\ x.pptr = r.pptr
      /\ x.vfork = r.vfork /\ x.vfdone = r.vfdone /\ ~x.vfdone
  BY <1>1 DEF Same, PlaceOK
<1> HIDE DEF r
<1>3. RecordOK(x, TRUE)
  BY <1>2, RunRecord
<1>4. PlaceOK(p, x, TRUE)
  BY <1>2 DEF PlaceOK
<1>5. p = init => InitOK(x)
  BY <1>1, <1>2 DEF InitOK, Dead
<1>6. Plain(t, p, x)
  <2>1. Lent(x) <=> Lent(r)
    BY <1>2 DEF Lent, r
  <2>2. ~Waiting(x)
    BY DEF Waiting
  <2>3. NotStopped(r, x)
    BY <1>2 DEF NotStopped
  <2>4. {x.pc, r.pc} \cap {"procdup", "vfork"} = {}
    BY DEF r
  <2> QED BY <1>1, <1>2, <2>1, <2>2, <2>3, <2>4 DEF Plain, Dead, r
<1>7. RecordOK(x, p = p) /\ PlaceOK(p, x, p = p) /\ \A q \in Procs \ {p} : q = p <=> q = p
  BY <1>3, <1>4
<1> QED BY <1>5, <1>6, <1>7, PlainKeepsState DEF r

\* It goes on at the same place, in sleep or issig or out of them.
LEMMA SubKeepsState ==
    ASSUME NEW t, NEW p \in Procs, StateOK(t, p), NEW x \in Proc, Same(t[p], x),
           x.disp = t[p].disp, x.mask = t[p].mask, x.pc = t[p].pc, x.child = t[p].child,
           x.opts = t[p].opts, x.intr = t[p].intr, x.wchan = t[p].wchan,
           x.sig \subseteq t[p].sig,
           x.wchan # None => x.sub = "pre",
           x.sub \in {"pre", "issig", "stop"} => x.pc \in {"trap", "sigpause", "wait", "tty"},
           x.sub \in {"main", "pre", "issig", "stop"}, x.sub = "pre" => x.intr,
           ContNotTyped /\ x.sub = "stop" =>
              x.sig \cap {CONT, KILL} = {} /\ x.cursig \in Stops,
           p = init => x.sub # "stop" /\ (x.sub = "main" => x.cursig = 0)
    PROVE  StateOK([t EXCEPT ![p] = x], p)
<1> DEFINE r == t[p]
<1>1. /\ r \in Proc /\ r.stat = "SRUN" /\ r.rq = FALSE /\ SignalOK(r)
      /\ PlaceOK(p, r, TRUE) /\ (p = init => InitOK(r))
      /\ (ContNotTyped => CONT \notin r.mask)
  BY ZenonT(60), OnFacts
<1>2. /\ x.stat = "SRUN" /\ x.rq = FALSE /\ x.pptr = r.pptr
      /\ x.vfork = r.vfork /\ x.vfdone = r.vfdone
      /\ x.disp = r.disp /\ x.mask = r.mask /\ x.pc = r.pc /\ x.child = r.child
      /\ x.opts = r.opts /\ x.intr = r.intr /\ x.wchan = r.wchan /\ x.sig \subseteq r.sig
  BY <1>1 DEF Same
<1> HIDE DEF r
<1>3. RecordOK(x, TRUE)
  <2>1. SignalOK(x)
    BY <1>1, <1>2, SignalLess
  <2>2. ContNotTyped => CONT \notin x.mask
    BY <1>1, <1>2
  <2> QED BY <1>2, <2>1, <2>2, RunRecord
<1>4. PlaceOK(p, x, TRUE)
  BY <1>1, <1>2 DEF PlaceOK
<1>5. p = init => InitOK(x)
  BY <1>1, <1>2 DEF InitOK, Dead
<1>6. Plain(t, p, x)
  <2>1. Lent(x) <=> Lent(r)
    BY <1>2 DEF Lent
  <2>2. Waiting(x) => Waiting(r) /\ x.opts = r.opts
    BY <1>2 DEF Waiting
  <2>3. NotStopped(r, x)
    BY <1>2 DEF NotStopped
  <2>4. \/ {x.pc, r.pc} \cap {"procdup", "vfork"} = {}
        \/ /\ x.pc = r.pc /\ x.child = r.child
           /\ x.pc = "vfork" /\ x.wchan # None => r.wchan # None
    BY <1>2
  <2> QED BY <2>4, <1>1, <1>2, <2>1, <2>2, <2>3 DEF Plain, Dead, r
<1>7. RecordOK(x, p = p) /\ PlaceOK(p, x, p = p) /\ \A q \in Procs \ {p} : q = p <=> q = p
  BY <1>3, <1>4
<1> QED BY <1>5, <1>6, <1>7, PlainKeepsState DEF r

------------------------------------------------------------------------------
(* Going to sleep. *)

\* Nobody whose signals are all seen needs to wake up for them.
LEMMA SleepRecord ==
    ASSUME NEW x \in Proc, x.stat = "SSLEEP", x.rq = FALSE, x.wchan # None,
           x.sub \in {"slept", "pre"}, x.sub = "pre" => x.intr, SignalOK(x),
           ContNotTyped => CONT \notin x.mask,
           x.intr => \A s \in x.sig \ x.mask :
                        x.disp[s] # "ign" => x.vfork /\ s \in Stops
    PROVE  RecordOK(x, FALSE)
<1>1. QueueOK(x, FALSE)
  BY DEF QueueOK
<1>2. SeenOK(x)
  BY DEF SeenOK
<1>3. ContNotTyped => StopOK(x)
  BY DEF StopOK
<1> QED BY <1>1, <1>2, <1>3 DEF RecordOK

\* The signals that issig may take.
LEMMA DeliverableIs ==
    ASSUME NEW r \in Proc
    PROVE  /\ Pending(r) = {s \in r.sig : s \notin r.mask /\ r.disp[s] # "ign"}
           /\ Deliverable(r) = {s \in Pending(r) : ~(r.vfork /\ s \in Stops)}
           /\ Deliverable(r) \subseteq r.sig /\ r.sig \subseteq Signals
<1>1. r.sig \subseteq Signals
  BY DEF Proc
<1> QED BY <1>1 DEF Pending, Deliverable

\* All but p_stat, p_wchan, p_pri and the place in sleep.
AtRest(r, x) ==
    /\ x.rq = r.rq /\ x.pptr = r.pptr /\ x.vfork = r.vfork /\ x.vfdone = r.vfdone
    /\ x.disp = r.disp /\ x.mask = r.mask /\ x.child = r.child /\ x.opts = r.opts
    /\ x.sig = r.sig /\ x.cursig = r.cursig /\ x.swted = r.swted /\ x.pc = r.pc

\* sleep(chan, pri), once p is at y: in the kernel, where it may sleep.
LEMMA SleepKeepsState ==
    ASSUME NEW t, NEW p \in Procs, StateOK(t, p), t[p].sub = "main",
           NEW y \in Proc, Same(t[p], y), y.disp = t[p].disp, y.mask = t[p].mask,
           y.sig = t[p].sig, y.child = t[p].child, y.opts = t[p].opts,
           y.cursig = t[p].cursig, y.swted = t[p].swted, y.sub = "main",
           NEW chan \in Channels, NEW intr \in BOOLEAN,
           y.pc = t[p].pc \/ (t[p].pc = "waitsleep" /\ y.pc = "wait"),
           intr => y.pc \in {"sigpause", "wait", "tty"},
           y.pc = "wait" => chan = p /\ Waiting(t[p]),
           y.pc = "vfork" => chan = y.child /\ t[y.child].vfork,
           y.pc \in {"exec", "exit"} => chan = p /\ ~y.vfdone,
           y.pc \notin {"procdup", "waitsleep", "trap"}
    PROVE  LET q == [y EXCEPT !.wchan = chan, !.intr = intr]
           IN /\ intr => StateOK([t EXCEPT ![p] = [q EXCEPT !.sub = "pre"]], p)
              /\ ~intr \/ Pending(q) = {}
                   => StateOK([t EXCEPT ![p] = [q EXCEPT !.stat = "SSLEEP", !.sub = "slept"]],
                              None)
<1> DEFINE r == t[p]
           q == [y EXCEPT !.wchan = chan, !.intr = intr]
           b == [q EXCEPT !.sub = "pre"]
           a == [q EXCEPT !.stat = "SSLEEP", !.sub = "slept"]
<1>1. /\ r \in Proc /\ r.stat = "SRUN" /\ r.rq = FALSE /\ SignalOK(r)
      /\ r.wchan = None
      /\ PlaceOK(p, r, TRUE) /\ (p = init => InitOK(r))
      /\ (ContNotTyped => CONT \notin r.mask)
  BY OnFacts
<1>2. chan # None
  BY SlotNames
<1>3. /\ y.stat = "SRUN" /\ y.rq = FALSE /\ y.pptr = r.pptr
      /\ y.vfork = r.vfork /\ y.vfdone = r.vfdone
      /\ y.disp = r.disp /\ y.mask = r.mask /\ y.child = r.child
      /\ y.opts = r.opts /\ y.sig = r.sig /\ y.cursig = r.cursig /\ y.swted = r.swted
      /\ y.pc = r.pc \/ (r.pc = "waitsleep" /\ y.pc = "wait")
  BY <1>1 DEF Same
<1>4. q \in Proc /\ AtRest(y, q) /\ q.wchan = chan /\ q.intr = intr /\ q.stat = "SRUN"
  <2>1. q \in Proc
    BY DEF Proc
  <2>2. AtRest(y, q)
    BY DEF Proc, AtRest
  <2> QED BY <1>3, <2>1, <2>2 DEF Proc
<1> HIDE DEF q
<1>5. /\ a \in Proc /\ AtRest(y, a) /\ a.wchan = chan /\ a.intr = intr
      /\ a.stat = "SSLEEP" /\ a.sub = "slept"
  <2> DEFINE w == [q EXCEPT !.stat = "SSLEEP"]
  <2>1. w \in Proc /\ w.wchan = q.wchan /\ w.stat = "SSLEEP" /\ w.intr = q.intr
    BY <1>4, SleepsFields DEF Fixed
  <2>2. AtRest(q, w)
    BY <1>4 DEF Proc, AtRest
  <2>3. a = [w EXCEPT !.sub = "slept"]
    BY <1>4 DEF Proc
  <2> HIDE DEF w
  <2>4. [w EXCEPT !.sub = "slept"] \in Proc
    BY <2>1, SubField
  <2>5. AtRest(w, [w EXCEPT !.sub = "slept"])
    BY <2>1 DEF Proc, AtRest
  <2>6. AtRest(y, a)
    BY <1>4, <2>2, <2>3, <2>5 DEF AtRest
  <2>7. /\ [w EXCEPT !.sub = "slept"].wchan = w.wchan
        /\ [w EXCEPT !.sub = "slept"].intr = w.intr
        /\ [w EXCEPT !.sub = "slept"].stat = w.stat
        /\ [w EXCEPT !.sub = "slept"].sub = "slept"
    BY <2>1 DEF Proc
  <2> QED BY <1>4, <2>1, <2>3, <2>4, <2>6, <2>7
<1>6. /\ b \in Proc /\ AtRest(y, b) /\ b.wchan = chan /\ b.intr = intr
      /\ b.stat = "SRUN" /\ b.sub = "pre"
  <2>1. b \in Proc
    BY ZenonT(60), <1>4 DEF Proc
  <2>2. AtRest(q, b)
    BY <1>4 DEF Proc, AtRest
  <2>3. AtRest(y, b)
    BY <1>4, <2>2 DEF AtRest
  <2> QED BY <1>4, <2>1, <2>3 DEF Proc
<1>7. Pending(q) = {s \in q.sig : s \notin q.mask /\ q.disp[s] # "ign"}
  BY <1>4, DeliverableIs
<1>8. (y.pc = "wait" => chan = p /\ Waiting(r))
      /\ (y.pc = "vfork" => chan = y.child /\ t[y.child].vfork)
      /\ (y.pc \in {"exec", "exit"} => chan = p /\ ~y.vfdone)
  OBVIOUS
<1> HIDE DEF r, a, b
<1>9. ASSUME NEW x \in Proc, NEW on \in BOOLEAN, AtRest(y, x), x.wchan = chan,
             x.intr = intr, x.stat \in {"SSLEEP", "SRUN"}, x.sub \in {"slept", "pre"},
             x.sub = "pre" => intr
      PROVE  /\ PlaceOK(p, x, on) /\ Plain(t, p, x)
             /\ p = init => InitOK(x)
  <2>1. /\ x.rq = FALSE /\ x.pptr = r.pptr
        /\ x.vfork = r.vfork /\ x.vfdone = r.vfdone
        /\ x.disp = r.disp /\ x.mask = r.mask /\ x.child = r.child
        /\ x.opts = r.opts /\ x.sig = r.sig /\ x.cursig = r.cursig /\ x.swted = r.swted
        /\ x.pc = y.pc /\ x.wchan = chan /\ x.intr = intr
        /\ x.stat \in {"SSLEEP", "SRUN"} /\ x.sub \in {"slept", "pre"}
    BY <1>3, <1>9 DEF AtRest
  <2>2. PlaceOK(p, x, on)
    <3>1. x.pc \notin {"procdup", "waitsleep", "trap"}
      BY <2>1
    <3>2. x.pc = "vfork" => x.child \in Procs
      BY <1>1, <1>3, <2>1 DEF PlaceOK
    <3>3. /\ x.pc = "wait" => x.wchan = p
          /\ x.pc = "vfork" => x.wchan = x.child
          /\ x.pc \in {"exec", "exit"} => x.wchan = p /\ ~x.vfdone
      BY <1>3, <1>8, <2>1
    <3>4. x.stat \notin {"none", "SZOMB"}
      BY <2>1
    <3>5. x.vfdone => x.pc \in {"exec", "exit"}
      BY <1>1, <1>3, <2>1 DEF PlaceOK
    <3>6. x.vfork => x.pc \notin {"exec", "exit", "close", "none"}
      BY <1>1, <1>3, <2>1 DEF PlaceOK
    <3>7. x.sub = "pre" \/ x.intr => x.pc \in {"trap", "sigpause", "wait", "tty"}
      BY <1>9, <2>1
    <3>8. x.disp[KILL] = "ign" => x.pc \in {"exit", "close", "none"}
      BY <1>1, <1>3, <2>1 DEF PlaceOK
    <3> QED BY <2>1, <3>1, <3>2, <3>3, <3>4, <3>5, <3>6, <3>7, <3>8 DEF PlaceOK
  <2>3. p = init => InitOK(x)
    <3> SUFFICES ASSUME p = init PROVE InitOK(x)
      OBVIOUS
    <3>1. r.pc # "trap"
      BY <1>3
    <3>2. r.cursig = 0
      BY <1>1, <3>1 DEF InitOK, r
    <3>3. x.cursig = 0 /\ InitOK(r)
      BY <1>1, <2>1, <3>2
    <3>4. y.pc \notin {"exit", "close", "exec", "none"}
      BY <1>3, <3>3 DEF InitOK
    <3> QED BY <2>1, <3>3, <3>4 DEF InitOK, Dead
  <2>4. Plain(t, p, x)
    <3>1. Lent(x) <=> Lent(r)
      BY <1>3, <2>1 DEF Lent
    <3>2. Waiting(x) => Waiting(r) /\ x.opts = r.opts
      BY <1>8, <2>1 DEF Waiting
    <3>3. NotStopped(r, x)
      BY <2>1 DEF NotStopped
    <3>4. \/ {x.pc, r.pc} \cap {"procdup", "vfork"} = {}
          \/ /\ x.pc = r.pc /\ x.child = r.child
             /\ x.pc = "vfork" /\ x.wchan # None => r.wchan # None \/ t[x.child].vfork
      BY <1>3, <1>8, <2>1
    <3>5. r.stat \notin Dead /\ x.stat \notin Dead
      BY <1>1, <2>1 DEF Dead
    <3> QED BY <2>1, <3>1, <3>2, <3>3, <3>4, <3>5 DEF Plain, r
  <2> QED BY <2>2, <2>3, <2>4
<1>10. ASSUME intr
       PROVE  StateOK([t EXCEPT ![p] = b], p)
  <2>1. RecordOK(b, TRUE)
    <3>1. SignalOK(b)
      BY <1>1, <1>3, <1>6, SignalLess DEF AtRest
    <3>2. b.rq = FALSE /\ b.mask = r.mask
      BY <1>3, <1>6 DEF AtRest
    <3> QED BY <1>1, <1>6, <1>10, <3>1, <3>2, RunRecord
  <2>2. PlaceOK(p, b, TRUE) /\ Plain(t, p, b) /\ (p = init => InitOK(b))
    BY <1>6, <1>9, <1>10
  <2>3. RecordOK(b, p = p) /\ PlaceOK(p, b, p = p) /\ \A k \in Procs \ {p} : k = p <=> k = p
    BY <2>1, <2>2
  <2> QED BY <1>6, <2>2, <2>3, PlainKeepsState
<1>11. ASSUME ~intr \/ Pending(q) = {}
       PROVE  StateOK([t EXCEPT ![p] = a], None)
  <2>1. RecordOK(a, FALSE)
    <3>1. SignalOK(a)
      BY <1>1, <1>3, <1>5, SignalLess DEF AtRest
    <3>2. a.intr => \A s \in a.sig \ a.mask : a.disp[s] # "ign" => a.vfork /\ s \in Stops
      <4>1. a.sig = q.sig /\ a.mask = q.mask /\ a.disp = q.disp
        BY <1>4, <1>5 DEF AtRest
      <4> QED BY <1>5, <1>7, <1>11, <4>1
    <3>3. a.rq = FALSE /\ a.mask = r.mask
      BY <1>3, <1>5 DEF AtRest
    <3> QED BY <1>1, <1>2, <1>5, <3>1, <3>2, <3>3, SleepRecord
  <2>2. PlaceOK(p, a, FALSE) /\ Plain(t, p, a) /\ (p = init => InitOK(a))
    BY <1>5, <1>9
  <2>3. p # None /\ (p = None) = FALSE
    BY SlotNames
  <2>4. RecordOK(a, p = None) /\ PlaceOK(p, a, p = None)
        /\ \A k \in Procs \ {p} : k = p <=> k = None
    BY <2>1, <2>2, <2>3, SlotNames
  <2> QED BY <1>5, <2>2, <2>4, PlainKeepsState
<1> QED BY <1>10, <1>11 DEF q, a, b

------------------------------------------------------------------------------
(* Where a process goes on in the kernel. *)

Places == {"user", "trap", "procdup", "vfork", "exec", "exit", "close", "wait",
           "waitsleep", "sigpause", "tty", "disk"}

GotoRec(r, pc) == [[r EXCEPT !.pc = pc] EXCEPT !.sub = "main"]

\* All but the place.
Still(r, x) ==
    /\ x.stat = r.stat /\ x.rq = r.rq /\ x.pptr = r.pptr /\ x.wchan = r.wchan
    /\ x.intr = r.intr /\ x.sig = r.sig /\ x.mask = r.mask /\ x.disp = r.disp
    /\ x.cursig = r.cursig /\ x.frames = r.frames /\ x.omask = r.omask
    /\ x.vfork = r.vfork /\ x.vfdone = r.vfdone /\ x.swted = r.swted
    /\ x.child = r.child /\ x.xstat = r.xstat /\ x.opts = r.opts

LEMMA SubFields ==
    ASSUME NEW r \in Proc, NEW sub \in {"main", "slept", "pre", "issig", "stop"}
    PROVE  LET x == [r EXCEPT !.sub = sub]
           IN x \in Proc /\ Still(r, x) /\ x.pc = r.pc /\ x.sub = sub
<1> DEFINE x == [r EXCEPT !.sub = sub]
<1>1. x \in Proc
  BY DEF Proc
<1>2. Still(r, x)
  BY DEF Proc, Still
<1> QED BY <1>1, <1>2 DEF Proc

LEMMA GotoFields ==
    ASSUME NEW r \in Proc, NEW pc \in Places
    PROVE  LET x == GotoRec(r, pc)
           IN x \in Proc /\ Still(r, x) /\ x.pc = pc /\ x.sub = "main"
<1> DEFINE y == [r EXCEPT !.pc = pc]
<1>1. y \in Proc
  BY DEF Proc, Places
<1>2. Still(r, y) /\ y.pc = pc
  BY DEF Proc, Still
<1>3. GotoRec(r, pc) = [y EXCEPT !.sub = "main"]
  BY DEF GotoRec
<1> HIDE DEF y
<1> DEFINE x == [y EXCEPT !.sub = "main"]
<1>4. x \in Proc /\ Still(y, x) /\ x.pc = y.pc /\ x.sub = "main"
  BY <1>1, SubFields
<1> HIDE DEF x
<1>5. Still(r, x)
  BY <1>2, <1>4 DEF Still
<1> QED BY <1>2, <1>3, <1>4, <1>5 DEF x

LEMMA GotoIs ==
    ASSUME NEW t \in [Procs -> Proc], NEW p \in Procs, NEW pc
    PROVE  Goto(t, p, pc) = [t EXCEPT ![p] = GotoRec(t[p], pc)]
BY DEF Goto, GotoRec

\* Two writes to one record.
LEMMA Twice ==
    ASSUME NEW t \in [Procs -> Proc], NEW p \in Procs, NEW x, NEW y
    PROVE  [[t EXCEPT ![p] = x] EXCEPT ![p] = y] = [t EXCEPT ![p] = y]
OBVIOUS

\* It goes on with the record y.
LEMMA GotoKeepsState ==
    ASSUME NEW t, NEW p \in Procs, StateOK(t, p), NEW y \in Proc, Same(t[p], y),
           y.wchan = None, SignalOK(y), ContNotTyped => CONT \notin y.mask,
           NEW pc \in {"user", "trap", "close", "wait", "sigpause", "tty", "disk"},
           t[p].pc \notin {"procdup", "vfork", "exec", "exit"},
           pc = "close" => ~y.vfork /\ p # init,
           p = init /\ y.cursig # 0 => pc = "trap" /\ y.disp[y.cursig] = "catch",
           y.disp[KILL] = "ign" => pc = "close"
    PROVE  StateOK(Goto([t EXCEPT ![p] = y], p, pc), p)
<1> DEFINE x == GotoRec(y, pc)
<1>1. x \in Proc /\ Still(y, x) /\ x.pc = pc /\ x.sub = "main"
  BY GotoFields DEF Places
<1>2. t \in [Procs -> Proc]
  BY OnFacts
<1>3. Goto([t EXCEPT ![p] = y], p, pc) = [t EXCEPT ![p] = x]
  <2>1. [t EXCEPT ![p] = y] \in [Procs -> Proc] /\ [t EXCEPT ![p] = y][p] = y
    BY <1>2
  <2>2. Goto([t EXCEPT ![p] = y], p, pc) = [[t EXCEPT ![p] = y] EXCEPT ![p] = x]
    BY <2>1, GotoIs
  <2> HIDE DEF x
  <2> QED BY <1>2, <2>2, Twice
<1> HIDE DEF x
<1>4. Same(t[p], x)
  BY <1>1 DEF Same, Still
<1>5. /\ x.wchan = None /\ x.mask = y.mask /\ x.disp = y.disp /\ x.sig = y.sig
      /\ x.cursig = y.cursig /\ x.vfork = y.vfork
  BY <1>1 DEF Still
<1>6. SignalOK(x)
  BY <1>5, SignalLess
<1>7. StateOK([t EXCEPT ![p] = x], p)
  BY <1>1, <1>4, <1>5, <1>6, GoKeepsState
<1> QED BY <1>3, <1>7

\* It goes on without any other change.
LEMMA GoesOn ==
    ASSUME NEW t, NEW p \in Procs, StateOK(t, p), t[p].wchan = None,
           NEW pc \in {"user", "trap", "wait", "sigpause", "tty", "disk"},
           t[p].pc \notin {"procdup", "vfork", "exec", "exit", "close", "none"},
           p = init /\ t[p].cursig # 0 => pc = "trap" /\ t[p].disp[t[p].cursig] = "catch"
    PROVE  StateOK(Goto(t, p, pc), p)
<1> DEFINE r == t[p]
<1>1. t \in [Procs -> Proc] /\ r \in Proc /\ SignalOK(r)
      /\ (ContNotTyped => CONT \notin r.mask)
  BY OnFacts
<1>2. [t EXCEPT ![p] = r] = t
  BY <1>1
<1>3. Same(t[p], r)
  BY DEF Same
<1>4. r.disp[KILL] # "ign"
  <2>1. PlaceOK(p, t[p], TRUE)
    BY OnFacts
  <2> QED BY <2>1 DEF PlaceOK
<1>5. t[p].pc \notin {"procdup", "vfork", "exec", "exit"}
  OBVIOUS
<1>6. r.wchan = None /\ (p = init /\ r.cursig # 0 => pc = "trap" /\ r.disp[r.cursig] = "catch")
  OBVIOUS
<1> HIDE DEF r
<1>7. StateOK(Goto([t EXCEPT ![p] = r], p, pc), p)
  BY <1>1, <1>3, <1>6, <1>4, <1>5, GotoKeepsState
<1> QED BY <1>2, <1>7

------------------------------------------------------------------------------
(* The processor, and the signals that issig takes. *)

LEMMA DispatchStep ==
    ASSUME StateOK(proc, cur), NEW p \in Procs, Dispatch(p)
    PROVE  StateOK(proc', cur')
<1> DEFINE r == proc[p]
           x == [r EXCEPT !.rq = FALSE]
<1>1. /\ cur = None /\ cur' = p /\ r.rq /\ p # None /\ (p = None) = FALSE
      /\ proc \in [Procs -> Proc] /\ TableOK(proc, None) /\ PlacesOK(proc, None) /\ r \in Proc
  BY SlotNames DEF Dispatch, StateOK, TableOK
<1>2. proc' = [proc EXCEPT ![p] = x]
  BY <1>1 DEF Dispatch
<1>3. RecordOK(r, FALSE) /\ PlaceOK(p, r, FALSE) /\ (p = init => InitOK(r))
  BY <1>1 DEF TableOK, PlacesOK
<1>4. /\ x \in Proc /\ Fixed(r, x) /\ x.rq = FALSE
      /\ x.wchan = r.wchan /\ x.stat = r.stat /\ x.sig = r.sig /\ x.cursig = r.cursig
      /\ x.swted = r.swted
  <2> HIDE DEF r
  <2>1. x \in Proc
    BY <1>1 DEF Proc
  <2>2. Fixed(r, x)
    BY <1>1 DEF Proc, Fixed
  <2> QED BY <1>1, <2>1, <2>2 DEF Proc
<1> HIDE DEF x, r
<1>5. QueueOK(r, FALSE) /\ SignalOK(r) /\ SeenOK(r) /\ (ContNotTyped => StopOK(r))
  BY <1>3 DEF RecordOK
<1>6. /\ x.stat = "SRUN" /\ x.wchan = None /\ x.sub # "stop" /\ (x.sub = "pre" => x.intr)
      /\ x.disp = r.disp /\ x.mask = r.mask
  BY <1>1, <1>4, <1>5 DEF QueueOK, Fixed
<1>7. RecordOK(x, TRUE)
  <2>1. SignalOK(x)
    BY <1>4, <1>5, <1>6, SignalLess
  <2>2. ContNotTyped => CONT \notin x.mask
    BY <1>5, <1>6 DEF StopOK
  <2> QED BY <1>4, <1>6, <2>1, <2>2, RunRecord
<1>8. PlaceOK(p, x, TRUE) /\ (p = init => InitOK(x))
  <2>1. PlaceOK(p, x, TRUE)
    BY <1>3, <1>4 DEF PlaceOK, Fixed
  <2>2. p = init => InitOK(x)
    BY <1>3, <1>4 DEF InitOK, Fixed
  <2> QED BY <2>1, <2>2
<1>9. Plain(proc, p, x)
  <2>1. Lent(x) <=> Lent(r)
    BY <1>4 DEF Lent, Fixed
  <2>2. Waiting(x) => Waiting(r) /\ x.opts = r.opts
    BY <1>4 DEF Waiting, Fixed
  <2>3. /\ NotStopped(r, x) /\ r.stat \notin Dead /\ x.stat \notin Dead
    BY <1>4, <1>6 DEF NotStopped, Dead
  <2>4. x.pptr = r.pptr /\ x.vfork = r.vfork /\ x.pc = r.pc /\ x.child = r.child
        /\ x.wchan = None
    BY <1>4, <1>6 DEF Fixed
  <2>5. x.pc \in {"procdup", "vfork"} \/ {x.pc, r.pc} \cap {"procdup", "vfork"} = {}
    BY <2>4
  <2> QED BY <2>1, <2>2, <2>3, <2>4, <2>5 DEF Plain, r
<1>10. RecordOK(x, p = p) /\ PlaceOK(p, x, p = p) /\ \A q \in Procs \ {p} : q = cur <=> q = p
  BY <1>1, <1>7, <1>8, SlotNames
<1>11. StateOK([proc EXCEPT ![p] = x], p)
  BY <1>4, <1>8, <1>9, <1>10, PlainKeepsState
<1> QED BY <1>1, <1>2, <1>11

LEMMA AwakeStep ==
    ASSUME StateOK(proc, cur), NEW p \in Procs, Awake(p)
    PROVE  StateOK(proc', cur')
<1> DEFINE r == proc[p]
           sub == IF r.intr /\ Pending(r) # {} THEN "issig" ELSE "main"
           x == [r EXCEPT !.sub = sub]
<1>1. /\ cur = p /\ cur' = p /\ r.sub = "slept" /\ StateOK(proc, p)
  BY DEF Awake, Run
<1>2. /\ proc \in [Procs -> Proc] /\ r \in Proc /\ r.wchan = None
      /\ PlaceOK(p, r, TRUE) /\ (p = init => InitOK(r))
  BY <1>1, OnFacts
<1>3. proc' = [proc EXCEPT ![p] = x]
  BY <1>1, <1>2 DEF Awake, Run
<1>4. sub \in {"main", "issig"} /\ (sub = "issig" => r.intr)
  OBVIOUS
<1> HIDE DEF sub, r
<1>5. x \in Proc /\ Still(r, x) /\ x.pc = r.pc /\ x.sub = sub
  <2>1. sub \in {"main", "slept", "pre", "issig", "stop"}
    BY <1>4
  <2> QED BY <1>2, <2>1, SubFields
<1> HIDE DEF x
<1>6. Same(r, x)
  BY <1>5 DEF Same, Still
<1>7. /\ x.disp = r.disp /\ x.mask = r.mask /\ x.child = r.child
      /\ x.opts = r.opts /\ x.intr = r.intr /\ x.wchan = r.wchan /\ x.sig = r.sig
      /\ x.cursig = r.cursig
  BY <1>5 DEF Still
<1>8. x.sub \in {"pre", "issig", "stop"} => x.pc \in {"trap", "sigpause", "wait", "tty"}
  BY <1>1, <1>2, <1>5, <1>4 DEF PlaceOK
<1>9. p = init => x.sub # "stop" /\ (x.sub = "main" => x.cursig = 0)
  BY <1>1, <1>2, <1>5, <1>4, <1>7 DEF InitOK
<1>10. StateOK([proc EXCEPT ![p] = x], p)
  BY <1>1, <1>2, <1>5, <1>4, <1>6, <1>7, <1>8, <1>9, SubKeepsState DEF r
<1> QED BY <1>1, <1>3, <1>10

\* All but the signals.
Kept(r, x) ==
    /\ x.stat = r.stat /\ x.rq = r.rq /\ x.pptr = r.pptr /\ x.wchan = r.wchan
    /\ x.intr = r.intr /\ x.mask = r.mask /\ x.disp = r.disp
    /\ x.frames = r.frames /\ x.omask = r.omask
    /\ x.vfork = r.vfork /\ x.vfdone = r.vfdone /\ x.swted = r.swted
    /\ x.child = r.child /\ x.xstat = r.xstat /\ x.opts = r.opts
    /\ x.pc = r.pc /\ x.sub = r.sub

LEMMA CursigFields ==
    ASSUME NEW r \in Proc, NEW s \in Signals \cup {0}
    PROVE  LET x == [r EXCEPT !.cursig = s]
           IN x \in Proc /\ Kept(r, x) /\ x.sig = r.sig /\ x.cursig = s
<1> DEFINE x == [r EXCEPT !.cursig = s]
<1>1. x \in Proc
  BY DEF Proc
<1>2. Kept(r, x)
  BY DEF Proc, Kept
<1> QED BY <1>1, <1>2 DEF Proc

TakeRec(r, s) == [[r EXCEPT !.sig = @ \ {s}] EXCEPT !.cursig = s]

LEMMA TakeFields ==
    ASSUME NEW r \in Proc, NEW s \in Signals
    PROVE  LET x == TakeRec(r, s)
           IN x \in Proc /\ Kept(r, x) /\ x.sig = r.sig \ {s} /\ x.cursig = s
<1> DEFINE y == [r EXCEPT !.sig = r.sig \ {s}]
<1>1. r.sig \ {s} \in SUBSET Signals
  BY DEF Proc
<1>2. y \in Proc /\ y.sig = r.sig \ {s}
  BY <1>1, SigFields
<1>3. Kept(r, y)
  BY DEF Proc, Kept
<1>4. TakeRec(r, s) = [y EXCEPT !.cursig = s]
  BY DEF TakeRec
<1> HIDE DEF y
<1> DEFINE x == [y EXCEPT !.cursig = s]
<1>5. x \in Proc /\ Kept(y, x) /\ x.sig = y.sig /\ x.cursig = s
  BY <1>2, CursigFields
<1> HIDE DEF x
<1>6. Kept(r, x)
  BY <1>3, <1>5 DEF Kept
<1> QED BY <1>2, <1>4, <1>5, <1>6 DEF x

\* issig takes the lowest of the signals it may take.
LEMMA NextIs ==
    ASSUME proc \in [Procs -> Proc], NEW p \in Procs, Deliverable(proc[p]) # {}
    PROVE  LET k == Next1(p)
               r == proc[p]
           IN /\ k \in Signals /\ k \in r.sig /\ k \notin r.mask /\ r.disp[k] # "ign"
              /\ ~(r.vfork /\ k \in Stops)
              /\ \A s \in Deliverable(r) : k <= s
              /\ Take(p) = [proc EXCEPT ![p] = TakeRec(r, k)]
<1> DEFINE r == proc[p]
           k == Next1(p)
<1>1. r \in Proc /\ Deliverable(r) # {} /\ k = Min(Deliverable(r))
  BY DEF Next1
<1>2. Take(p) = [proc EXCEPT ![p] = TakeRec(r, k)]
  BY <1>1 DEF Take, TakeRec
<1> HIDE DEF r, k
<1>3. /\ Pending(r) = {s \in r.sig : s \notin r.mask /\ r.disp[s] # "ign"}
      /\ Deliverable(r) = {s \in Pending(r) : ~(r.vfork /\ s \in Stops)}
      /\ Deliverable(r) \subseteq r.sig /\ r.sig \subseteq Signals
  BY <1>1, DeliverableIs
<1>4. Deliverable(r) \in SUBSET Int /\ IsFiniteSet(Deliverable(r))
  BY <1>3, SignalNumbers, FS_Subset
<1>5. k \in Deliverable(r) /\ \A s \in Deliverable(r) : k <= s
  BY <1>1, <1>4, MinIn
<1> QED BY <1>2, <1>3, <1>5 DEF r, k

\* The process in issig.
LEMMA InIssigFacts ==
    ASSUME StateOK(proc, cur), NEW p \in Procs, InIssig(p)
    PROVE  LET r == proc[p]
           IN /\ cur = p /\ StateOK(proc, p) /\ proc \in [Procs -> Proc] /\ r \in Proc
              /\ r.sub \in {"pre", "issig"} /\ r.pc \in {"trap", "sigpause", "wait", "tty"}
              /\ (r.sub = "pre" => r.intr) /\ (r.wchan # None => r.sub = "pre")
              /\ (r.sub = "issig" => r.wchan = None)
              /\ r.stat = "SRUN" /\ r.rq = FALSE /\ SignalOK(r)
              /\ (ContNotTyped => CONT \notin r.mask)
              /\ PlaceOK(p, r, TRUE) /\ (p = init => InitOK(r))
<1>1. cur = p /\ StateOK(proc, p) /\ proc[p].sub \in {"pre", "issig"}
  BY DEF InIssig
<1> QED BY <1>1, OnFacts DEF PlaceOK

LEMMA IssigDiscardStep ==
    ASSUME StateOK(proc, cur), NEW p \in Procs, InIssig(p), Deliverable(proc[p]) # {},
           NEW u, u = Take(p)
    PROVE  StateOK(u, p)
<1> DEFINE r == proc[p]
           k == Next1(p)
           x == TakeRec(r, k)
<1>1. /\ cur = p /\ StateOK(proc, p) /\ proc \in [Procs -> Proc] /\ r \in Proc
      /\ r.sub \in {"pre", "issig"} /\ r.pc \in {"trap", "sigpause", "wait", "tty"}
      /\ (r.sub = "pre" => r.intr) /\ (r.wchan # None => r.sub = "pre")
  BY InIssigFacts
<1>2. k \in Signals /\ k \in r.sig /\ u = [proc EXCEPT ![p] = x]
  BY <1>1, NextIs
<1>3. x \in Proc /\ Kept(r, x) /\ x.sig = r.sig \ {k} /\ x.cursig = k
  BY <1>1, <1>2, TakeFields
<1> HIDE DEF x, k
<1>4. Same(r, x)
  BY <1>3 DEF Same, Kept
<1>5. /\ x.disp = r.disp /\ x.mask = r.mask /\ x.child = r.child /\ x.pc = r.pc
      /\ x.opts = r.opts /\ x.intr = r.intr /\ x.wchan = r.wchan /\ x.sig \subseteq r.sig
      /\ x.sub = r.sub
  BY <1>3 DEF Kept
<1>6. StateOK([proc EXCEPT ![p] = x], p)
  BY <1>1, <1>3, <1>4, <1>5, SubKeepsState
<1> QED BY <1>2, <1>6

LEMMA IssigOrphanStep ==
    ASSUME StateOK(proc, cur), NEW p \in Procs, IssigOrphan(p)
    PROVE  StateOK(proc', cur')
<1>1. /\ InIssig(p) /\ Deliverable(proc[p]) # {} /\ cur' = cur
      /\ proc' = Psignal(Take(p), p, KILL)
  BY DEF IssigOrphan, Run
<1>2. cur = p /\ proc[p].sub \in {"pre", "issig"} /\ proc \in [Procs -> Proc] /\ proc[p] \in Proc
  BY <1>1, InIssigFacts
<1>3. PICK u : u = Take(p)
  OBVIOUS
<1>4. StateOK(u, p)
  BY <1>1, <1>3, IssigDiscardStep
<1>5. u[p].sub = proc[p].sub
  <2>1. Next1(p) \in Signals /\ u = [proc EXCEPT ![p] = TakeRec(proc[p], Next1(p))]
    BY <1>1, <1>2, <1>3, NextIs
  <2>2. u[p] = TakeRec(proc[p], Next1(p))
    BY <1>2, <2>1
  <2> QED BY <1>2, <2>1, <2>2, TakeFields DEF Kept
<1>6. ~(ContNotTyped /\ u[p].sub = "stop")
  BY <1>2, <1>5
<1>7. KILL \in Signals /\ KILL \notin Stops
  BY SignalNumbers
<1>8. StateOK(Psignal(u, p, KILL), p)
  BY <1>4, <1>6, <1>7, PsignalKeepsState
<1> QED BY <1>1, <1>2, <1>3, <1>8

LEMMA IssigSendStep ==
    ASSUME StateOK(proc, cur), NEW p \in Procs, IssigSend(p)
    PROVE  StateOK(proc', cur')
<1> DEFINE r == proc[p]
           k == Next1(p)
           x == TakeRec(r, k)
           y == IF r.sub = "pre" THEN OffQueue(x) ELSE x
<1>1. /\ cur = p /\ StateOK(proc, p) /\ proc \in [Procs -> Proc] /\ r \in Proc
      /\ r.sub \in {"pre", "issig"} /\ r.pc \in {"trap", "sigpause", "wait", "tty"}
      /\ (r.sub = "issig" => r.wchan = None) /\ SignalOK(r)
      /\ (ContNotTyped => CONT \notin r.mask)
  BY InIssigFacts DEF IssigSend
<1>2. k \in Signals /\ k \in r.sig /\ r.disp[k] # "ign" /\ Take(p) = [proc EXCEPT ![p] = x]
  BY <1>1, NextIs DEF IssigSend
<1>3. x \in Proc /\ Kept(r, x) /\ x.sig = r.sig \ {k} /\ x.cursig = k
  BY <1>1, <1>2, TakeFields
<1>4. p = init => r.disp[k] = "catch"
  <2>1. p = init => r.disp[k] # "dfl"
    BY DEF IssigSend, Sends, Discards, ByDefault
  <2>2. r.disp[k] \in {"dfl", "ign", "catch"}
    BY <1>1, <1>2 DEF Proc
  <2> QED BY <1>2, <2>1, <2>2
<1>5. /\ cur' = p
      /\ proc' = Goto(IF r.sub = "pre" THEN Unsleep(Take(p), p) ELSE Take(p), p, "trap")
  BY <1>1 DEF IssigSend, Run
<1> HIDE DEF k, x
<1>6. (IF r.sub = "pre" THEN Unsleep(Take(p), p) ELSE Take(p)) = [proc EXCEPT ![p] = y]
  BY <1>1, <1>2 DEF Unsleep, OffQueue
<1>7. /\ y \in Proc /\ y.wchan = None /\ y.sig \subseteq r.sig /\ y.cursig = k
      /\ y.stat = r.stat /\ y.rq = r.rq /\ y.pptr = r.pptr /\ y.vfork = r.vfork
      /\ y.vfdone = r.vfdone /\ y.disp = r.disp /\ y.mask = r.mask
  <2>1. CASE r.sub = "pre"
    <3>1. y = OffQueue(x)
      BY <2>1
    <3> QED BY <1>3, <3>1, OffQueueFields DEF Kept, Fixed
  <2>2. CASE r.sub = "issig"
    <3>1. y = x
      BY <2>2
    <3> QED BY <1>1, <1>3, <2>2, <3>1 DEF Kept
  <2> QED BY <1>1, <2>1, <2>2
<1> HIDE DEF y
<1>8. Same(r, y) /\ SignalOK(y)
  BY <1>1, <1>7, SignalLess DEF Same
<1>9. p = init /\ y.cursig # 0 => y.disp[y.cursig] = "catch"
  BY <1>4, <1>7
<1>10. y.disp[KILL] # "ign"
  <2>1. PlaceOK(p, r, TRUE)
    BY InIssigFacts DEF IssigSend
  <2> QED BY <1>1, <1>7, <2>1 DEF PlaceOK
<1>11. /\ ContNotTyped => CONT \notin y.mask
       /\ proc[p].pc \notin {"procdup", "vfork", "exec", "exit"}
  BY <1>1, <1>7
<1>12. StateOK(Goto([proc EXCEPT ![p] = y], p, "trap"), p)
  BY <1>1, <1>7, <1>8, <1>9, <1>11, <1>10, GotoKeepsState
<1> QED BY <1>5, <1>6, <1>12

------------------------------------------------------------------------------
(* The process that runs gives the processor up. *)

\* No other process runs, before or after.
LEMMA OthersNot ==
    ASSUME NEW p \in Procs
    PROVE  p # None /\ (p = None) = FALSE /\ \A q \in Procs \ {p} : q = p <=> q = None
BY SlotNames

LEMMA TableOff ==
    ASSUME NEW t, NEW p \in Procs, TableOK(t, p), NEW y \in Proc, RecordOK(y, FALSE)
    PROVE  TableOK([t EXCEPT ![p] = y], None)
<1>1. PICK c, d : c = p /\ d = None
  OBVIOUS
<1>2. RecordOK(y, p = d)
  <2>1. (p = d) = FALSE
    BY <1>1, OthersNot
  <2> QED BY <2>1
<1>3. \A q \in Procs \ {p} : q = c <=> q = d
  BY <1>1, OthersNot
<1>4. TableOK(t, c)
  BY <1>1
<1>5. TableOK([t EXCEPT ![p] = y], d)
  BY <1>2, <1>3, <1>4, TableWith
<1> QED BY <1>1, <1>5

LEMMA PlacesOff ==
    ASSUME NEW t \in [Procs -> Proc], NEW p \in Procs, PlacesOK(t, p), p # init,
           NEW y \in Proc, PlaceOK(p, y, FALSE)
    PROVE  PlacesOK([t EXCEPT ![p] = y], None)
<1>1. PICK c, d : c = p /\ d = None
  OBVIOUS
<1>2. PlaceOK(p, y, p = d)
  <2>1. (p = d) = FALSE
    BY <1>1, OthersNot
  <2> QED BY <2>1
<1>3. \A q \in Procs \ {p} : q = c <=> q = d
  BY <1>1, OthersNot
<1>4. PlacesOK(t, c)
  BY <1>1
<1>5. PlacesOK([t EXCEPT ![p] = y], d)
  BY <1>2, <1>3, <1>4, PlacesWith
<1> QED BY <1>1, <1>5

LEMMA PlainOff ==
    ASSUME NEW t, NEW p \in Procs, StateOK(t, p), NEW x \in Proc, RecordOK(x, FALSE),
           PlaceOK(p, x, FALSE), p = init => InitOK(x), Plain(t, p, x)
    PROVE  StateOK([t EXCEPT ![p] = x], None)
<1>1. PICK c, d : c = p /\ d = None
  OBVIOUS
<1>2. RecordOK(x, p = d) /\ PlaceOK(p, x, p = d)
  <2>1. (p = d) = FALSE
    BY <1>1, OthersNot
  <2> QED BY <2>1
<1>3. \A q \in Procs \ {p} : q = c <=> q = d
  BY <1>1, OthersNot
<1>4. StateOK(t, c)
  BY <1>1
<1>5. StateOK([t EXCEPT ![p] = x], d)
  BY <1>2, <1>3, <1>4, PlainKeepsState
<1> QED BY <1>1, <1>5

\* No signal is left.
LEMMA IssigNoneStep ==
    ASSUME StateOK(proc, cur), NEW p \in Procs, IssigNone(p)
    PROVE  StateOK(proc', cur')
<1> DEFINE r == proc[p]
           x == [r EXCEPT !.cursig = 0]
           t == [proc EXCEPT ![p].cursig = 0]
<1>1. /\ cur = p /\ StateOK(proc, p) /\ proc \in [Procs -> Proc] /\ r \in Proc
      /\ r.sub \in {"pre", "issig"} /\ r.pc \in {"trap", "sigpause", "wait", "tty"}
      /\ (r.sub = "pre" => r.intr) /\ (r.wchan # None => r.sub = "pre")
      /\ r.stat = "SRUN" /\ r.rq = FALSE /\ SignalOK(r)
      /\ (ContNotTyped => CONT \notin r.mask)
      /\ PlaceOK(p, r, TRUE) /\ (p = init => InitOK(r))
  BY InIssigFacts DEF IssigNone
<1>2. x \in Proc /\ Kept(r, x) /\ x.sig = r.sig /\ x.cursig = 0
  BY <1>1, CursigFields
<1>3. t = [proc EXCEPT ![p] = x] /\ t \in [Procs -> Proc] /\ t[p] = x
  BY <1>1, <1>2
<1>4. /\ x.stat = "SRUN" /\ x.rq = FALSE /\ x.pptr = r.pptr /\ x.wchan = r.wchan
      /\ x.intr = r.intr /\ x.mask = r.mask /\ x.disp = r.disp /\ x.vfork = r.vfork
      /\ x.vfdone = r.vfdone /\ x.child = r.child /\ x.opts = r.opts /\ x.pc = r.pc
      /\ x.sub = r.sub /\ x.swted = r.swted
  BY <1>1, <1>2 DEF Kept
<1> HIDE DEF x, t
<1>5. CASE r.sub = "pre" /\ r.wchan # None
  <2> DEFINE w == [x EXCEPT !.stat = "SSLEEP"]
             a == [w EXCEPT !.sub = "slept"]
  <2>1. cur' = None /\ proc' = Asleep(t, p)
    BY <1>5 DEF IssigNone, Swtch, t
  <2>2. Asleep(t, p) = [proc EXCEPT ![p] = a]
    BY <1>1, <1>3 DEF Asleep
  <2>3. /\ w \in Proc /\ Fixed(x, w) /\ w.sig = x.sig /\ w.wchan = x.wchan
        /\ w.stat = "SSLEEP" /\ w.rq = x.rq /\ w.cursig = x.cursig /\ w.swted = x.swted
    BY <1>2, SleepsFields
  <2> HIDE DEF w
  <2>4. a \in Proc /\ Still(w, a) /\ a.pc = w.pc /\ a.sub = "slept"
    BY <2>3, SubFields
  <2> HIDE DEF a
  <2>5. /\ a.stat = "SSLEEP" /\ a.rq = FALSE /\ a.pptr = r.pptr /\ a.wchan = r.wchan
        /\ a.intr = r.intr /\ a.mask = r.mask /\ a.disp = r.disp /\ a.vfork = r.vfork
        /\ a.vfdone = r.vfdone /\ a.child = r.child /\ a.opts = r.opts /\ a.pc = r.pc
        /\ a.sub = "slept" /\ a.swted = r.swted /\ a.sig = r.sig /\ a.cursig = 0
    BY <1>2, <1>4, <2>3, <2>4 DEF Still, Fixed
  <2>6. RecordOK(a, FALSE)
    <3>1. SignalOK(a)
      BY <1>1, <2>5, SignalLess
    <3>2. \A s \in a.sig \ a.mask : a.disp[s] # "ign" => a.vfork /\ s \in Stops
      <4>1. Deliverable(r) = {}
        BY DEF IssigNone
      <4> QED BY <1>1, <2>5, <4>1, DeliverableIs
    <3> QED BY <1>1, <1>5, <2>4, <2>5, <3>1, <3>2, SleepRecord
  <2>7. PlaceOK(p, a, FALSE)
    BY <1>1, <2>5 DEF PlaceOK
  <2>8. p = init => InitOK(a)
    BY <1>1, <2>5 DEF InitOK, Dead
  <2>9. Plain(proc, p, a)
    <3>1. Lent(a) <=> Lent(r)
      BY <2>5 DEF Lent
    <3>2. Waiting(a) => Waiting(r) /\ a.opts = r.opts
      BY <2>5 DEF Waiting
    <3>3. NotStopped(r, a) /\ r.stat \notin Dead /\ a.stat \notin Dead
      BY <1>1, <2>5 DEF NotStopped, Dead
    <3>4. {a.pc, r.pc} \cap {"procdup", "vfork"} = {}
      BY <1>1, <2>5
    <3> QED BY <2>5, <3>1, <3>2, <3>3, <3>4 DEF Plain
  <2>10. StateOK([proc EXCEPT ![p] = a], None)
    BY <1>1, <2>4, <2>6, <2>7, <2>8, <2>9, PlainOff
  <2> QED BY <2>1, <2>2, <2>10
<1>6. CASE ~(r.sub = "pre" /\ r.wchan # None)
  <2> DEFINE b == [x EXCEPT !.sub = "main"]
  <2>1. cur' = p /\ proc' = [t EXCEPT ![p].sub = "main"]
    BY <1>1, <1>6 DEF IssigNone, Run, t
  <2>2. [t EXCEPT ![p].sub = "main"] = [proc EXCEPT ![p] = b]
    BY <1>1, <1>3
  <2>3. b \in Proc /\ Still(x, b) /\ b.pc = x.pc /\ b.sub = "main"
    BY <1>2, SubFields
  <2> HIDE DEF b
  <2>4. /\ b.disp = r.disp /\ b.mask = r.mask /\ b.child = r.child /\ b.pc = r.pc
        /\ b.opts = r.opts /\ b.intr = r.intr /\ b.wchan = r.wchan /\ b.sig = r.sig
        /\ b.cursig = 0 /\ b.wchan = None
    BY <1>1, <1>2, <1>4, <1>6, <2>3 DEF Still
  <2>5. Same(r, b)
    BY <1>1, <1>4, <2>3 DEF Same, Still
  <2>6. StateOK([proc EXCEPT ![p] = b], p)
    BY <1>1, <2>3, <2>4, <2>5, SubKeepsState
  <2> QED BY <2>1, <2>2, <2>6
<1> QED BY <1>5, <1>6

------------------------------------------------------------------------------
(* Stopping. *)

\* The process that runs stops, with its parent woken and told.
LEMMA StopsKeepsState ==
    ASSUME NEW t, NEW p \in Procs \ {init}, StateOK(t, p),
           NEW x \in Proc, Same(t[p], x), x.wchan = t[p].wchan, x.intr = t[p].intr,
           x.mask = t[p].mask, x.disp = t[p].disp, x.child = t[p].child,
           x.pc = t[p].pc, x.opts = t[p].opts, x.sub \in {"pre", "issig"},
           x.sub = "pre" => t[p].sub = "pre", t[p].wchan # None => x.sub = "pre",
           x.pc \in {"trap", "sigpause", "wait", "tty"},
           SignalOK(x),
           ContNotTyped => x.sig \cap {CONT, KILL} = {} /\ x.cursig \in Stops,
           x.wchan # None => \A s \in x.sig \ x.mask :
                                x.disp[s] # "ign" => s \in Stops \cup {CHLD},
           NEW u, u = StopProc([t EXCEPT ![p] = x], p)
    PROVE  StateOK(u, None)
<1> DEFINE r == t[p]
           y == StopRec(x)
           parent == x.pptr
<1>1. /\ r \in Proc /\ r.stat = "SRUN" /\ r.rq = FALSE /\ (r.sub = "pre" => r.intr)
      /\ PlaceOK(p, r, TRUE) /\ t \in [Procs -> Proc]
      /\ (ContNotTyped => CONT \notin r.mask) /\ PlacesOK(t, p) /\ KinOK(t)
  BY OnFacts
<1>2. PICK z : z = [t EXCEPT ![p] = y]
  OBVIOUS
<1>3. /\ x.stat = "SRUN" /\ x.rq = FALSE /\ x.pptr = r.pptr
      /\ x.vfork = r.vfork /\ x.vfdone = r.vfdone /\ (x.sub = "pre" => x.intr)
  BY <1>1 DEF Same
<1>4. parent \in Procs /\ parent # p
  <2>1. r.stat # "none" /\ p # init
    BY <1>1
  <2>2. r.pptr \in Procs /\ r.pptr # p
    BY <1>1, <2>1, NotOwnParent
  <2> QED BY <1>3, <2>2
<1>5. /\ y \in Proc /\ Fixed(x, y) /\ y.stat = "SSTOP" /\ y.swted = FALSE
      /\ y.wchan = x.wchan /\ y.rq = x.rq /\ y.sig = x.sig /\ y.cursig = x.cursig
  BY StopFields
<1>6. /\ y.pptr = r.pptr /\ y.intr = r.intr /\ y.mask = r.mask /\ y.disp = r.disp
      /\ y.vfork = r.vfork /\ y.vfdone = r.vfdone /\ y.child = r.child /\ y.pc = r.pc
      /\ y.opts = r.opts /\ y.sub = x.sub /\ y.wchan = r.wchan /\ y.rq = FALSE
  BY <1>3, <1>5 DEF Fixed
<1> HIDE DEF y, r
<1>7. RecordOK(y, FALSE)
  <2>1. QueueOK(y, FALSE)
    BY <1>1, <1>3, <1>5, <1>6 DEF QueueOK, r
  <2>2. SignalOK(y)
    BY <1>5, <1>6, SignalLess DEF r
  <2>3. SeenOK(y)
    BY <1>5, <1>6 DEF SeenOK, r
  <2>4. ContNotTyped => StopOK(y)
    BY <1>1, <1>5, <1>6 DEF StopOK
  <2> QED BY <2>1, <2>2, <2>3, <2>4 DEF RecordOK
<1>8. p \in Procs /\ p # init /\ TableOK(t, p)
  BY DEF StateOK
<1>9. /\ TableOK(u, None) /\ z \in [Procs -> Proc] /\ Frame(z, u) /\ u[parent].wchan # parent
  <2>1. PICK v : v = [t EXCEPT ![p] = x]
    OBVIOUS
  <2>2. v \in [Procs -> Proc] /\ v[p] = x /\ \A k \in Procs \ {p} : v[k] = t[k]
    BY <1>1, <2>1
  <2>3. z[p] = StopRec(x) /\ \A k \in Procs \ {p} : z[k] = t[k]
    BY <1>1, <1>2, <1>5 DEF y
  <2>4. u = StopProc(v, p)
    BY <2>1
  <2>5. TableOK(z, None)
    BY <1>2, <1>5, <1>7, <1>8, TableOff
  <2>6. z \in [Procs -> Proc]
    BY <2>5 DEF TableOK
  <2>7. TableOK(u, None) /\ Frame(z, u) /\ u[x.pptr].wchan # x.pptr
    BY <1>4, <2>5, <2>6, <2>2, <2>3, <2>4, StopProcKeeps
  <2> QED BY <2>5, <2>6, <2>7
<1>10. PlacesOK(z, None)
  <2>1. PlaceOK(p, y, FALSE)
    BY <1>1, <1>5, <1>6 DEF PlaceOK, r
  <2> QED BY <1>1, <1>2, <1>5, <1>8, <2>1, PlacesOff
<1>11. KinOK(z)
  <2>1. r.stat \notin Dead /\ y.stat \notin Dead /\ (Lent(y) <=> Lent(r))
    BY <1>1, <1>5, <1>6 DEF Dead, Lent
  <2>2. Waiting(y) => Waiting(r)
    BY <1>6 DEF Waiting
  <2>3. {y.pc, r.pc} \cap {"procdup", "vfork"} = {}
    BY <1>6 DEF r
  <2> QED BY <1>1, <1>2, <1>5, <1>6, <2>1, <2>2, <2>3, KinWith DEF r
<1>12. PlacesOK(u, None)
  BY <1>9, <1>10, FrameKeepsPlaces
<1>13. KinOK(u)
  BY <1>9, <1>10, <1>11, FrameKeepsKin
<1>14. ASSUME StopsNotTyped
       PROVE  Told(u)
  <2> SUFFICES ASSUME NEW k \in Procs, NEW c \in Procs, Waiting(u[k]),
                      "WUNTRACED" \in u[k].opts, u[c].pptr = k, u[c].stat = "SSTOP"
               PROVE  u[c].swted
    BY DEF Told
  <2>1. u[k].wchan = k
    <3>1. PlaceOK(k, u[k], k = None)
      BY <1>12 DEF PlacesOK
    <3>2. k # None
      BY SlotNames
    <3> QED BY <3>1, <3>2 DEF PlaceOK, Waiting
  <2>2. /\ Moved(z[k], u[k]) /\ Moved(z[c], u[c])
        /\ \/ z[c].stat = "SSTOP" /\ u[c].swted = z[c].swted
           \/ z[c].pptr \in Procs /\ u[z[c].pptr].wchan # z[c].pptr
    BY <1>9 DEF Frame
  <2>3. z[c].pptr = k
    BY <2>2 DEF Moved, Fixed
  <2>4. z[c].stat = "SSTOP" /\ u[c].swted = z[c].swted
    BY <2>1, <2>2, <2>3
  <2>5. c # p
    <3>1. c = p => z[c] = y
      BY <1>1, <1>2
    <3>2. c = p => k = parent
      BY <1>3, <1>6, <2>3, <3>1
    <3> QED BY <1>9, <2>1, <3>2
  <2>6. z[c] = t[c]
    BY <1>1, <1>2, <2>5
  <2>7. Waiting(t[k]) /\ "WUNTRACED" \in t[k].opts
    <3>1. Waiting(z[k]) /\ "WUNTRACED" \in z[k].opts
      BY <2>2 DEF Moved, Fixed, Waiting
    <3>2. CASE k = p
      <4>1. z[k] = y
        BY <1>1, <1>2, <3>2
      <4> QED BY <1>6, <3>1, <3>2, <4>1 DEF Waiting, r
    <3>3. CASE k # p
      BY <1>1, <1>2, <3>1, <3>3
    <3> QED BY <3>2, <3>3
  <2>8. Told(t)
    BY <1>14 DEF StateOK
  <2>9. t[c].pptr = k /\ t[c].stat = "SSTOP"
    BY <2>3, <2>4, <2>6
  <2>10. t[c].swted
    BY <2>7, <2>8, <2>9 DEF Told
  <2> QED BY <2>4, <2>6, <2>10
<1> QED BY <1>9, <1>12, <1>13, <1>14 DEF StateOK

\* stop touches p itself only where it writes p_stat.
LEMMA StopProcWith ==
    ASSUME NEW t \in [Procs -> Proc], NEW p \in Procs, NEW y \in Proc,
           t[p].pptr \in Procs \ {p}, t[p].wchan # t[p].pptr,
           y.pptr = t[p].pptr, y.wchan = t[p].wchan,
           NEW v \in [Procs -> Proc], v[p] = y, \A k \in Procs \ {p} : v[k] = t[k]
    PROVE  /\ StopProc(v, p) = [StopProc(t, p) EXCEPT ![p] = StopRec(y)]
           /\ StopProc(t, p)[p] = StopRec(t[p])
           /\ DOMAIN StopProc(t, p) = Procs
<1> DEFINE parent == t[p].pptr
           z1 == [t EXCEPT ![p] = StopRec(t[p])]
           z2 == [t EXCEPT ![p] = StopRec(y)]
           w1 == Wakeup(z1, parent)
           w2 == Wakeup(z2, parent)
<1>1. /\ StopRec(y) \in Proc /\ StopRec(y).wchan = y.wchan
      /\ StopRec(t[p]) \in Proc /\ StopRec(t[p]).wchan = t[p].wchan
  BY StopFields
<1>2. /\ z1 \in [Procs -> Proc] /\ z1[p] = StopRec(t[p])
      /\ z2 \in [Procs -> Proc] /\ z2[p] = StopRec(y)
      /\ \A k \in Procs \ {p} : z1[k] = t[k] /\ z2[k] = t[k]
  BY <1>1
<1>3. /\ StopProc(t, p) = Post(w1, parent, CHLD)
      /\ StopProc(v, p) = Post(w2, parent, CHLD)
  <2>1. [t EXCEPT ![p].stat = "SSTOP", ![p].swted = FALSE] = z1
    BY DEF StopRec
  <2>2. v[p] = y /\ v \in [Procs -> Proc]
    OBVIOUS
  <2>3. [v EXCEPT ![p].stat = "SSTOP", ![p].swted = FALSE] = [v EXCEPT ![p] = StopRec(y)]
    BY <2>2 DEF StopRec
  <2>4. [v EXCEPT ![p] = StopRec(y)] = z2
    OBVIOUS
  <2> HIDE DEF z1, z2
  <2>5. [v EXCEPT ![p].stat = "SSTOP", ![p].swted = FALSE] = z2
    BY <2>3, <2>4
  <2> QED BY <2>1, <2>2, <2>5 DEF StopProc
<1> HIDE DEF z1, z2
<1>4. \A k \in Procs : w1[k] = WakeRec(z1[k], parent) /\ w2[k] = WakeRec(z2[k], parent)
  BY <1>2, WakeupIs
<1>5. DOMAIN w1 = Procs /\ w1 = [k \in Procs |-> w1[k]]
      /\ DOMAIN w2 = Procs /\ w2 = [k \in Procs |-> w2[k]]
  BY DEF Wakeup
<1> HIDE DEF w1, w2
<1>6. w1[p] = StopRec(t[p]) /\ w2[p] = StopRec(y)
  BY <1>1, <1>2, <1>4 DEF WakeRec
<1>7. \A k \in Procs \ {p} : w1[k] = w2[k]
  BY <1>2, <1>4
<1>8. w2 = [w1 EXCEPT ![p] = StopRec(y)]
  <2> DEFINE m == [w1 EXCEPT ![p] = StopRec(y)]
  <2>1. DOMAIN m = Procs /\ m = [k \in Procs |-> m[k]]
    BY <1>5
  <2>2. \A k \in Procs : m[k] = w2[k]
    BY <1>5, <1>6, <1>7
  <2> HIDE DEF m
  <2>3. m = w2
    BY <1>5, <2>1, <2>2
  <2> QED BY <2>3 DEF m
<1>9. w1 \in [Procs -> Proc] /\ w2 \in [Procs -> Proc]
  <2>1. \A k \in Procs : WakeRec(z1[k], parent) \in Proc /\ WakeRec(z2[k], parent) \in Proc
    BY <1>2, ReadyFields, OffQueueFields DEF WakeRec
  <2> QED BY <1>4, <1>5, <2>1
<1>10. parent \in Procs /\ parent # p /\ CHLD \in Signals /\ w2[parent] = w1[parent]
  BY <1>7, SignalNumbers
<1> HIDE DEF parent
<1> DEFINE i == PostedRec(w1[parent], CHLD)
<1>11. CASE w1[parent].disp[CHLD] = "ign"
  <2>1. StopProc(t, p) = w1 /\ StopProc(v, p) = w2
    BY <1>3, <1>10, <1>11 DEF Post, Ignores
  <2> QED BY <1>5, <1>6, <1>8, <2>1
<1>12. CASE w1[parent].disp[CHLD] # "ign"
  <2>1. StopProc(t, p) = Posted(w1, parent, CHLD) /\ StopProc(v, p) = Posted(w2, parent, CHLD)
    BY <1>3, <1>10, <1>12 DEF Post, Ignores
  <2>2. /\ Posted(w1, parent, CHLD) = [w1 EXCEPT ![parent] = i]
        /\ Posted(w2, parent, CHLD) = [w2 EXCEPT ![parent] = i]
    <3>1. Posted(w1, parent, CHLD) = [w1 EXCEPT ![parent] = PostedRec(w1[parent], CHLD)]
      BY <1>9, <1>10, PostedIs
    <3>2. Posted(w2, parent, CHLD) = [w2 EXCEPT ![parent] = PostedRec(w2[parent], CHLD)]
      BY <1>9, <1>10, PostedIs
    <3> QED BY <1>10, <3>1, <3>2
  <2> HIDE DEF i
  <2>3. [w2 EXCEPT ![parent] = i] = [[w1 EXCEPT ![parent] = i] EXCEPT ![p] = StopRec(y)]
    BY <1>8, <1>9, <1>10
  <2>4. [w1 EXCEPT ![parent] = i][p] = w1[p] /\ DOMAIN [w1 EXCEPT ![parent] = i] = Procs
    BY <1>9, <1>10
  <2> QED BY <1>6, <2>1, <2>2, <2>3, <2>4
<1> QED BY <1>11, <1>12

\* A process with a stop signal to act on, at the end of a system call.
LEMMA StopStep ==
    ASSUME StateOK(proc, cur), NEW p \in Procs, Stop(p)
    PROVE  StateOK(proc', cur')
<1> DEFINE r == proc[p]
           y == [r EXCEPT !.sub = "issig"]
<1>1. /\ cur = p /\ cur' = None /\ r.sub = "stop" /\ StateOK(proc, p)
      /\ proc' = [StopProc(proc, p) EXCEPT ![p].sub = "issig"]
  BY DEF Stop, Swtch
<1>2. /\ proc \in [Procs -> Proc] /\ r \in Proc /\ r.stat = "SRUN" /\ r.wchan = None
      /\ PlaceOK(p, r, TRUE) /\ (p = init => InitOK(r)) /\ SignalOK(r)
      /\ (ContNotTyped => StopOK(r)) /\ PlacesOK(proc, p) /\ KinOK(proc)
  BY <1>1, OnFacts
<1>3. p # init /\ r.pc \in {"trap", "sigpause", "wait", "tty"}
  BY <1>1, <1>2 DEF InitOK, PlaceOK
<1>4. r.pptr \in Procs \ {p}
  BY <1>2, <1>3, NotOwnParent
<1>5. y \in Proc /\ Still(r, y) /\ y.pc = r.pc /\ y.sub = "issig"
  BY <1>2, SubFields
<1>6. StopRec(y) = [StopRec(r) EXCEPT !.sub = "issig"]
  BY <1>2 DEF StopRec, Proc
<1> HIDE DEF y
<1>7. PICK v : v = [proc EXCEPT ![p] = y]
  OBVIOUS
<1>8. /\ StopProc(v, p) = [StopProc(proc, p) EXCEPT ![p] = StopRec(y)]
      /\ StopProc(proc, p)[p] = StopRec(r) /\ DOMAIN StopProc(proc, p) = Procs
  <2>1. r.wchan # r.pptr /\ y.pptr = r.pptr /\ y.wchan = r.wchan
    BY <1>2, <1>4, <1>5, SlotNames DEF Still
  <2>2. v \in [Procs -> Proc] /\ v[p] = y /\ \A k \in Procs \ {p} : v[k] = proc[k]
    BY <1>2, <1>5, <1>7
  <2> QED BY <1>2, <1>4, <1>5, <2>1, <2>2, StopProcWith
<1>9. proc' = StopProc(v, p)
  BY <1>1, <1>6, <1>8
<1>10. /\ y.mask = r.mask /\ y.disp = r.disp /\ y.child = r.child /\ y.intr = r.intr
       /\ y.opts = r.opts /\ y.wchan = None /\ y.sig = r.sig /\ y.cursig = r.cursig
  BY <1>2, <1>5 DEF Still
<1>11. Same(r, y) /\ SignalOK(y)
  BY <1>2, <1>5, <1>10, SignalLess DEF Same, Still
<1>12. ContNotTyped => y.sig \cap {CONT, KILL} = {} /\ y.cursig \in Stops
  BY <1>1, <1>2, <1>10 DEF StopOK
<1>13. PICK u : u = StopProc([proc EXCEPT ![p] = y], p)
  OBVIOUS
<1>14. StateOK(u, None)
  BY <1>1, <1>2, <1>3, <1>5, <1>10, <1>11, <1>12, <1>13, StopsKeepsState
<1> QED BY <1>1, <1>7, <1>9, <1>13, <1>14

\* issig takes a stop signal.
LEMMA IssigStopStep ==
    ASSUME StateOK(proc, cur), NEW p \in Procs, IssigStop(p)
    PROVE  StateOK(proc', cur')
<1> DEFINE r == proc[p]
           k == Next1(p)
           x == TakeRec(r, k)
           y == [x EXCEPT !.sub = "stop"]
<1>1. /\ cur = p /\ StateOK(proc, p) /\ proc \in [Procs -> Proc] /\ r \in Proc
      /\ r.sub \in {"pre", "issig"} /\ r.pc \in {"trap", "sigpause", "wait", "tty"}
      /\ (r.sub = "pre" => r.intr) /\ (r.wchan # None => r.sub = "pre")
      /\ (r.sub = "issig" => r.wchan = None) /\ SignalOK(r)
  BY InIssigFacts DEF IssigStop
<1>2. /\ k \in Signals /\ k \in r.sig /\ r.disp[k] # "ign" /\ ~(r.vfork /\ k \in Stops)
      /\ \A s \in Deliverable(r) : k <= s
      /\ Take(p) = [proc EXCEPT ![p] = x]
  BY <1>1, NextIs DEF IssigStop
<1>3. x \in Proc /\ Kept(r, x) /\ x.sig = r.sig \ {k} /\ x.cursig = k
  BY <1>1, <1>2, TakeFields
<1>4. k \in Stops /\ p # init
  BY DEF IssigStop, StopsProc
<1>5. /\ IF r.sub = "pre" THEN proc' = StopProc([proc EXCEPT ![p] = x], p) /\ cur' = None
         ELSE proc' = [[proc EXCEPT ![p] = x] EXCEPT ![p].sub = "stop"] /\ cur' = p
  BY <1>1, <1>2 DEF IssigStop, Swtch, Run
<1> HIDE DEF x, k
<1>6. /\ x.mask = r.mask /\ x.disp = r.disp /\ x.child = r.child /\ x.intr = r.intr
      /\ x.opts = r.opts /\ x.wchan = r.wchan /\ x.sub = r.sub /\ x.pc = r.pc
      /\ x.vfork = r.vfork
  BY <1>3 DEF Kept
<1>7. Same(r, x) /\ SignalOK(x)
  BY <1>1, <1>3, <1>6, SignalLess DEF Same, Kept
<1>8. r.vfork = FALSE
  BY <1>1, <1>2, <1>4 DEF Proc
<1>9. Deliverable(r) = {s \in r.sig : s \notin r.mask /\ r.disp[s] # "ign"} /\ r.sig \subseteq Signals
  BY <1>1, <1>8, DeliverableIs
<1>10. \A s \in Signals : s < k => s \in {HUP, KILL} \cup Stops
  BY <1>4, SignalNumbers
<1>11. CONT \notin r.sig
  BY <1>1, <1>2, <1>4 DEF SignalOK
<1>12. KILL \notin r.sig
  <2> SUFFICES ASSUME KILL \in r.sig PROVE FALSE
    OBVIOUS
  <2>1. KILL \notin r.mask
    BY <1>1 DEF Proc, Masks
  <2>2. r.disp[KILL] # "ign"
    BY <1>1, <1>2 DEF SignalOK
  <2>3. k <= KILL
    BY <1>2, <1>9, <2>1, <2>2
  <2> QED BY <1>4, <2>3, SignalNumbers
<1>13. x.sig \cap {CONT, KILL} = {} /\ x.cursig \in Stops
  BY <1>3, <1>4, <1>11, <1>12
<1>14. \A s \in x.sig \ x.mask : x.disp[s] # "ign" => s \in Stops \cup {CHLD}
  <2> SUFFICES ASSUME NEW s \in x.sig \ x.mask, x.disp[s] # "ign"
               PROVE  s \in Stops \cup {CHLD}
    OBVIOUS
  <2>1. s \in Deliverable(r) /\ s \in Signals /\ s # CONT
    BY <1>3, <1>6, <1>9, <1>11
  <2>2. k <= s
    BY <1>2, <2>1
  <2> QED BY <1>4, <2>1, <2>2, SignalNumbers
<1>15. CASE r.sub = "pre"
  <2>1. PICK u : u = StopProc([proc EXCEPT ![p] = x], p)
    OBVIOUS
  <2>2. StateOK(u, None)
    BY <1>1, <1>3, <1>4, <1>6, <1>7, <1>13, <1>14, <1>15, <2>1, StopsKeepsState
  <2> QED BY <1>5, <1>15, <2>1, <2>2
<1>16. CASE r.sub = "issig"
  <2>1. y \in Proc /\ Still(x, y) /\ y.pc = x.pc /\ y.sub = "stop"
    BY <1>3, SubFields
  <2>2. [[proc EXCEPT ![p] = x] EXCEPT ![p].sub = "stop"] = [proc EXCEPT ![p] = y]
    BY <1>1
  <2> HIDE DEF y
  <2>3. /\ y.mask = r.mask /\ y.disp = r.disp /\ y.child = r.child /\ y.intr = r.intr
        /\ y.opts = r.opts /\ y.wchan = r.wchan /\ y.pc = r.pc /\ y.sig \subseteq r.sig
        /\ y.wchan = None
    BY <1>1, <1>3, <1>6, <1>16, <2>1 DEF Still
  <2>4. Same(r, y)
    BY <1>7, <2>1 DEF Same, Still
  <2>5. y.sig \cap {CONT, KILL} = {} /\ y.cursig \in Stops
    BY <1>13, <2>1 DEF Still
  <2>6. StateOK([proc EXCEPT ![p] = y], p)
    BY <1>1, <1>4, <2>1, <2>3, <2>4, <2>5, SubKeepsState
  <2> QED BY <1>1, <1>5, <1>16, <2>2, <2>6
<1> QED BY <1>1, <1>15, <1>16

------------------------------------------------------------------------------
(* The end of a system call or trap. *)

\* The process at a place outside sleep and issig.
LEMMA AtFacts ==
    ASSUME StateOK(proc, cur), NEW p \in Procs, NEW pc, At(p, pc)
    PROVE  LET r == proc[p]
           IN /\ cur = p /\ StateOK(proc, p) /\ proc \in [Procs -> Proc] /\ r \in Proc
              /\ r.pc = pc /\ r.sub = "main" /\ r.wchan = None
              /\ r.stat = "SRUN" /\ r.rq = FALSE /\ SignalOK(r)
              /\ (ContNotTyped => CONT \notin r.mask)
              /\ PlaceOK(p, r, TRUE) /\ (p = init => InitOK(r))
              /\ PlacesOK(proc, p) /\ KinOK(proc)
              /\ (p = init /\ r.cursig # 0 => pc = "trap" /\ r.disp[r.cursig] = "catch")
<1>1. cur = p /\ StateOK(proc, p) /\ proc[p].pc = pc /\ proc[p].sub = "main"
  BY DEF At
<1> QED BY <1>1, OnFacts DEF InitOK

LEMMA TrapStep ==
    ASSUME StateOK(proc, cur), NEW p \in Procs, Trap(p)
    PROVE  StateOK(proc', cur')
<1>1. At(p, "user") /\ proc' = Goto(proc, p, "trap") /\ cur' = cur
  BY DEF Trap, Run
<1>2. /\ cur = p /\ StateOK(proc, p) /\ proc[p].pc = "user" /\ proc[p].wchan = None
      /\ (p = init => proc[p].cursig = 0)
  BY <1>1, AtFacts
<1>3. StateOK(Goto(proc, p, "trap"), p)
  BY <1>2, GoesOn
<1> QED BY <1>1, <1>2, <1>3

LEMMA TrapIssigStep ==
    ASSUME StateOK(proc, cur), NEW p \in Procs, TrapIssig(p)
    PROVE  StateOK(proc', cur')
<1> DEFINE r == proc[p]
           x == [r EXCEPT !.sub = "issig"]
<1>1. At(p, "trap") /\ proc' = [proc EXCEPT ![p].sub = "issig"] /\ cur' = cur
  BY DEF TrapIssig, Run
<1>2. /\ cur = p /\ StateOK(proc, p) /\ proc \in [Procs -> Proc] /\ r \in Proc
      /\ r.pc = "trap" /\ r.wchan = None
  BY <1>1, AtFacts
<1>3. proc' = [proc EXCEPT ![p] = x]
  BY <1>1, <1>2
<1>4. x \in Proc /\ Still(r, x) /\ x.pc = r.pc /\ x.sub = "issig"
  BY <1>2, SubFields
<1> HIDE DEF x
<1>5. Same(r, x)
  BY <1>4 DEF Same, Still
<1>6. /\ x.disp = r.disp /\ x.mask = r.mask /\ x.child = r.child /\ x.pc = r.pc
      /\ x.opts = r.opts /\ x.intr = r.intr /\ x.wchan = r.wchan /\ x.sig = r.sig
      /\ x.wchan = None
  BY <1>2, <1>4 DEF Still
<1>7. StateOK([proc EXCEPT ![p] = x], p)
  BY <1>2, <1>4, <1>5, <1>6, SubKeepsState
<1> QED BY <1>1, <1>2, <1>3, <1>7

LEMMA TrapReturnStep ==
    ASSUME StateOK(proc, cur), NEW p \in Procs, TrapReturn(p)
    PROVE  StateOK(proc', cur')
<1>1. At(p, "trap") /\ proc[p].cursig = 0 /\ proc' = Goto(proc, p, "user") /\ cur' = cur
  BY DEF TrapReturn, NoSignal, Run
<1>2. /\ cur = p /\ StateOK(proc, p) /\ proc[p].pc = "trap" /\ proc[p].wchan = None
  BY <1>1, AtFacts
<1>3. StateOK(Goto(proc, p, "user"), p)
  BY <1>1, <1>2, GoesOn
<1> QED BY <1>1, <1>2, <1>3

LEMMA PreemptStep ==
    ASSUME StateOK(proc, cur), NEW p \in Procs, Preempt(p)
    PROVE  StateOK(proc', cur')
<1> DEFINE r == proc[p]
           y == GotoRec(r, "user")
           x == [y EXCEPT !.rq = TRUE]
<1>1. /\ At(p, "trap") /\ r.cursig = 0 /\ cur' = None
      /\ proc' = [Goto(proc, p, "user") EXCEPT ![p].rq = TRUE]
  BY DEF Preempt, NoSignal, Swtch
<1>2. /\ cur = p /\ StateOK(proc, p) /\ proc \in [Procs -> Proc] /\ r \in Proc
      /\ r.pc = "trap" /\ r.wchan = None /\ r.stat = "SRUN" /\ SignalOK(r)
      /\ (ContNotTyped => CONT \notin r.mask)
      /\ PlaceOK(p, r, TRUE) /\ (p = init => InitOK(r))
  BY <1>1, AtFacts
<1>3. y \in Proc /\ Still(r, y) /\ y.pc = "user" /\ y.sub = "main"
  BY <1>2, GotoFields DEF Places
<1>4. proc' = [proc EXCEPT ![p] = x]
  <2>1. Goto(proc, p, "user") = [proc EXCEPT ![p] = y]
    BY <1>2, GotoIs
  <2> HIDE DEF y
  <2> QED BY <1>1, <1>2, <2>1
<1> HIDE DEF y
<1>5. x \in Proc
  BY <1>3 DEF Proc
<1>6. /\ x.stat = "SRUN" /\ x.rq = TRUE /\ x.wchan = None /\ x.pc = "user"
      /\ x.sub = "main" /\ x.pptr = r.pptr /\ x.sig = r.sig /\ x.disp = r.disp
      /\ x.mask = r.mask /\ x.vfork = r.vfork /\ x.vfdone = r.vfdone
      /\ x.cursig = 0
  BY <1>1, <1>2, <1>3 DEF Proc, Still
<1> HIDE DEF x
<1>7. RecordOK(x, FALSE)
  <2>1. QueueOK(x, FALSE)
    BY <1>6 DEF QueueOK
  <2>2. SignalOK(x)
    BY <1>2, <1>6, SignalLess
  <2>3. SeenOK(x)
    BY <1>6 DEF SeenOK
  <2>4. ContNotTyped => StopOK(x)
    BY <1>2, <1>6 DEF StopOK
  <2> QED BY <2>1, <2>2, <2>3, <2>4 DEF RecordOK
<1>8. PlaceOK(p, x, FALSE)
  BY <1>2, <1>6 DEF PlaceOK
<1>9. p = init => InitOK(x)
  BY <1>2, <1>6 DEF InitOK, Dead
<1>10. Plain(proc, p, x)
  <2>1. Lent(x) <=> Lent(r)
    BY <1>2, <1>6 DEF Lent
  <2>2. ~Waiting(x) /\ NotStopped(r, x) /\ r.stat \notin Dead /\ x.stat \notin Dead
    BY <1>2, <1>6 DEF Waiting, NotStopped, Dead
  <2>3. {x.pc, r.pc} \cap {"procdup", "vfork"} = {}
    BY <1>2, <1>6
  <2> QED BY <1>6, <2>1, <2>2, <2>3 DEF Plain
<1>11. StateOK([proc EXCEPT ![p] = x], None)
  BY <1>2, <1>5, <1>7, <1>8, <1>9, <1>10, PlainOff
<1> QED BY <1>1, <1>4, <1>11

\* A handler is entered.
LEMMA PsigCatchStep ==
    ASSUME StateOK(proc, cur), NEW p \in Procs, PsigCatch(p)
    PROVE  StateOK(proc', cur')
<1> DEFINE r == proc[p]
           mask == IF r.omask = {None} THEN r.mask ELSE r.omask
           y == GotoRec(r, "user")
           a == [y EXCEPT !.omask = {None}]
           b == [a EXCEPT !.mask = a.mask \cup {r.cursig}]
           c == [b EXCEPT !.frames = Append(b.frames, mask)]
           x == [c EXCEPT !.cursig = 0]
<1>1. /\ At(p, "trap") /\ r.cursig # 0 /\ r.disp[r.cursig] = "catch" /\ cur' = cur
      /\ proc' = [Goto(proc, p, "user") EXCEPT
                   ![p].omask = {None}, ![p].mask = @ \cup {r.cursig},
                   ![p].frames = Append(@, mask), ![p].cursig = 0]
  BY DEF PsigCatch, Run
<1>2. /\ cur = p /\ StateOK(proc, p) /\ proc \in [Procs -> Proc] /\ r \in Proc
      /\ r.pc = "trap" /\ r.wchan = None /\ SignalOK(r)
      /\ (ContNotTyped => CONT \notin r.mask)
  BY <1>1, AtFacts
<1>3. r.cursig \in Signals \ {KILL, STOP} /\ (ContNotTyped => r.cursig # CONT)
  <2>1. r.cursig \in Signals
    BY <1>1, <1>2 DEF Proc
  <2>2. r.cursig \in Caught
    BY <1>1, <1>2, <2>1 DEF SignalOK
  <2> QED BY <2>2, ProcessesAssumption DEF ContNotTyped
<1>4. mask \in Masks
  <2>1. r.mask \in Masks /\ r.omask \in {{None}} \cup Masks
    BY <1>2 DEF Proc
  <2> QED BY <2>1
<1>5. y \in Proc /\ Still(r, y) /\ y.pc = "user" /\ y.sub = "main"
  BY <1>2, GotoFields DEF Places
<1>6. proc' = [proc EXCEPT ![p] = x]
  <2>1. Goto(proc, p, "user") = [proc EXCEPT ![p] = y]
    BY <1>2, GotoIs
  <2> HIDE DEF y, mask
  <2>2. PICK g : g = [proc EXCEPT ![p] = y]
    OBVIOUS
  <2>3. g \in [Procs -> Proc] /\ g[p] = y /\ DOMAIN g = Procs
    BY <1>2, <1>5, <2>2
  <2>4. proc' = [g EXCEPT ![p].omask = {None}, ![p].mask = @ \cup {r.cursig},
                          ![p].frames = Append(@, mask), ![p].cursig = 0]
    BY <1>1, <2>1, <2>2
  <2>5. proc' = [g EXCEPT ![p] = [g[p] EXCEPT !.omask = {None}, !.mask = @ \cup {r.cursig},
                                              !.frames = Append(@, mask), !.cursig = 0]]
    BY <2>3, <2>4
  <2>6. [y EXCEPT !.omask = {None}, !.mask = @ \cup {r.cursig},
                  !.frames = Append(@, mask), !.cursig = 0] = x
    BY <1>5 DEF Proc
  <2> HIDE DEF x
  <2>7. proc' = [g EXCEPT ![p] = x]
    BY <2>3, <2>5, <2>6
  <2> QED BY <1>2, <2>2, <2>7
<1> HIDE DEF y, mask
<1>7. /\ a \in Proc /\ Same(y, a) /\ a.wchan = y.wchan /\ a.sig = y.sig /\ a.disp = y.disp
      /\ a.mask = y.mask /\ a.pc = y.pc /\ a.sub = y.sub
  BY SMTT(30), ZenonT(60), <1>5 DEF Proc, Same
<1> HIDE DEF a
<1>8. /\ b \in Proc /\ Same(a, b) /\ b.wchan = a.wchan /\ b.sig = a.sig /\ b.disp = a.disp
      /\ b.mask = a.mask \cup {r.cursig} /\ b.pc = a.pc /\ b.sub = a.sub
  <2>1. a.mask \cup {r.cursig} \in Masks
    <3>1. a.mask \in Masks
      BY <1>7 DEF Proc
    <3> QED BY <1>3, <3>1 DEF Masks
  <2> QED BY ZenonT(60), <1>7, <2>1 DEF Proc, Same
<1> HIDE DEF b
<1>9. /\ c \in Proc /\ Same(b, c) /\ c.wchan = b.wchan /\ c.sig = b.sig /\ c.disp = b.disp
      /\ c.mask = b.mask /\ c.pc = b.pc /\ c.sub = b.sub
  <2>1. Append(b.frames, mask) \in Seq(Masks)
    <3>1. b.frames \in Seq(Masks)
      BY <1>8 DEF Proc
    <3> QED BY <1>4, <3>1
  <2> QED BY ZenonT(60), <1>8, <2>1 DEF Proc, Same
<1> HIDE DEF c
<1>10. /\ x \in Proc /\ Kept(c, x) /\ x.sig = c.sig /\ x.cursig = 0
  BY <1>9, CursigFields
<1> HIDE DEF x
<1>11. Same(r, x)
  BY <1>5, <1>7, <1>8, <1>9, <1>10 DEF Same, Still, Kept
<1>12. /\ x.wchan = None /\ x.sig = r.sig /\ x.disp = r.disp /\ x.pc = "user" /\ x.sub = "main"
       /\ x.mask = r.mask \cup {r.cursig}
  BY <1>2, <1>5, <1>7, <1>8, <1>9, <1>10 DEF Still, Kept
<1>13. SignalOK(x) /\ (ContNotTyped => CONT \notin x.mask)
  BY <1>2, <1>3, <1>12, SignalLess
<1>14. x.disp[KILL] # "ign"
  <2>1. PlaceOK(p, r, TRUE)
    BY <1>1, AtFacts
  <2> QED BY <1>2, <1>12, <2>1 DEF PlaceOK
<1>15. StateOK([proc EXCEPT ![p] = x], p)
  BY <1>14, <1>2, <1>10, <1>11, <1>12, <1>13, GoKeepsState
<1> QED BY <1>1, <1>2, <1>6, <1>15

------------------------------------------------------------------------------
(* exit, and exec, up to where they sleep. *)

\* A wakeup on a channel that p does not wait for leaves p alone.
LEMMA WakeupWith ==
    ASSUME NEW t \in [Procs -> Proc], NEW p \in Procs, NEW y \in Proc, NEW chan,
           y.wchan # chan, NEW v \in [Procs -> Proc], v[p] = y,
           \A k \in Procs \ {p} : v[k] = t[k]
    PROVE  Wakeup(v, chan) = [Wakeup(t, chan) EXCEPT ![p] = y]
<1> DEFINE w == Wakeup(t, chan)
           a == Wakeup(v, chan)
           m == [w EXCEPT ![p] = y]
<1>1. w = [k \in Procs |-> w[k]] /\ DOMAIN w = Procs
      /\ a = [k \in Procs |-> a[k]] /\ DOMAIN a = Procs
  BY DEF Wakeup
<1>2. \A k \in Procs : w[k] = WakeRec(t[k], chan) /\ a[k] = WakeRec(v[k], chan)
  BY WakeupIs
<1> HIDE DEF w, a
<1>3. m = [k \in Procs |-> m[k]] /\ DOMAIN m = Procs
  BY <1>1
<1>4. \A k \in Procs : m[k] = a[k]
  <2>1. m[p] = y /\ a[p] = y
    BY <1>1, <1>2 DEF WakeRec
  <2>2. \A k \in Procs \ {p} : m[k] = a[k]
    BY <1>1, <1>2
  <2> QED BY <2>1, <2>2
<1> HIDE DEF m
<1>5. m = a
  BY <1>1, <1>3, <1>4
<1> QED BY <1>5 DEF m, a, w

LEMMA PlacesOn ==
    ASSUME NEW t \in [Procs -> Proc], NEW p \in Procs, PlacesOK(t, p), p # init,
           NEW y \in Proc, PlaceOK(p, y, TRUE)
    PROVE  PlacesOK([t EXCEPT ![p] = y], p)
<1>1. PICK c, d : c = p /\ d = p
  OBVIOUS
<1>2. PlaceOK(p, y, p = d)
  <2>1. (p = d) = TRUE
    BY <1>1
  <2> QED BY <2>1
<1>3. \A q \in Procs \ {p} : q = c <=> q = d
  BY <1>1
<1>4. PlacesOK(t, c)
  BY <1>1
<1>5. PlacesOK([t EXCEPT ![p] = y], d)
  BY <1>2, <1>3, <1>4, PlacesWith
<1> QED BY <1>1, <1>5

\* The child of a vfork gives the memory back.
LEMMA VforkEnds ==
    ASSUME NEW t, NEW p \in Procs, StateOK(t, p), t[p].sub = "main",
           t[p].pc \in {"user", "trap"}, t[p].vfork,
           NEW x \in Proc, x.stat = t[p].stat, x.rq = t[p].rq, x.pptr = t[p].pptr,
           x.wchan = None, x.vfork = FALSE, x.vfdone = t[p].vfdone, x.mask = t[p].mask,
           x.sub = "main", x.pc \in {"exec", "exit"}, SignalOK(x),
           x.disp[KILL] = "ign" => x.pc = "exit"
    PROVE  StateOK([Wakeup(t, p) EXCEPT ![p] = x], p)
<1>1. PICK u : u = Wakeup(t, p)
  OBVIOUS
<1>2. p \in Channels /\ t \in [Procs -> Proc] /\ t[p].wchan = None /\ p # None
  BY OnFacts, SlotNames
<1>3. StateOK(u, p)
  BY <1>1, <1>2, WakeupKeepsState
<1>4. u[p] = t[p]
  <2>1. u[p] = WakeRec(t[p], p)
    BY <1>1, <1>2, WakeupIs
  <2> QED BY <1>2, <2>1 DEF WakeRec
<1>5. \A k \in Procs : u[k].wchan # p
  <2>1. TableOK(t, p)
    BY DEF StateOK
  <2> QED BY <1>1, <1>2, <2>1, WakeupKeeps
<1> DEFINE r == u[p]
<1>6. /\ u \in [Procs -> Proc] /\ r \in Proc /\ r.stat = "SRUN" /\ r.rq = FALSE
      /\ (ContNotTyped => CONT \notin r.mask)
      /\ PlaceOK(p, r, TRUE) /\ PlacesOK(u, p) /\ KinOK(u) /\ (p = init => InitOK(r))
  <2>1. u \in [Procs -> Proc] /\ r \in Proc /\ r.stat = "SRUN" /\ r.rq = FALSE
    <3>1. u \in [Procs -> Proc]
      BY <1>3, OnFacts
    <3>2. r.stat = "SRUN"
      BY <1>3, OnFacts
    <3>3. t[p].rq = FALSE
      BY OnFacts
    <3>4. r.rq = FALSE
      BY <1>4, <3>3
    <3> QED BY <3>1, <3>2, <3>4
  <2>2. ContNotTyped => CONT \notin r.mask
    BY <1>3, OnFacts
  <2>3. PlaceOK(p, r, TRUE) /\ (p = init => InitOK(r))
    BY <1>3, OnFacts
  <2>4. PlacesOK(u, p) /\ KinOK(u)
    BY <1>3 DEF StateOK
  <2> QED BY <2>1, <2>2, <2>3, <2>4
<1>7. /\ x.stat = r.stat /\ x.rq = r.rq /\ x.pptr = r.pptr /\ x.vfdone = r.vfdone
      /\ x.mask = r.mask /\ r.pc \in {"user", "trap"} /\ r.vfork
  BY <1>4
<1> HIDE DEF r
<1>8. r.vfdone = FALSE /\ p # init
  BY <1>6, <1>7 DEF PlaceOK, InitOK, Proc
<1>9. RecordOK(x, p = p)
  <2>1. RecordOK(x, TRUE)
    BY <1>6, <1>7, RunRecord
  <2> QED BY <2>1
<1>10. PlaceOK(p, x, TRUE)
  BY <1>6, <1>7, <1>8 DEF PlaceOK
<1>11. \A k \in Procs \ {p} : k = p <=> k = p
  OBVIOUS
<1>12. TableOK(u, p)
  BY <1>3 DEF StateOK
<1>13. TableOK([u EXCEPT ![p] = x], p)
  BY <1>9, <1>11, <1>12, TableWith
<1>14. PlacesOK([u EXCEPT ![p] = x], p)
  BY <1>6, <1>8, <1>10, PlacesOn
<1>15. KinOK([u EXCEPT ![p] = x])
  <2>1. r.stat \notin Dead /\ x.stat \notin Dead /\ (Lent(x) <=> Lent(r)) /\ ~Waiting(x)
    BY <1>6, <1>7, <1>8 DEF Dead, Lent, Waiting
  <2>2. \A k \in Procs : u[k].pc = "vfork" /\ u[k].child = p => u[k].wchan = None
    BY <1>5, <1>6 DEF PlacesOK, PlaceOK
  <2>3. {x.pc, r.pc} \cap {"procdup", "vfork"} = {}
    BY <1>7
  <2> QED BY <1>6, <1>7, <2>1, <2>2, <2>3, KinWith DEF r
<1>16. StopsNotTyped => Told([u EXCEPT ![p] = x])
  <2>1. NotStopped(r, x) /\ ~Waiting(x)
    BY <1>6, <1>7 DEF NotStopped, Waiting
  <2>2. StopsNotTyped => Told(u)
    BY <1>3 DEF StateOK
  <2> QED BY <1>6, <1>7, <2>1, <2>2, ToldWith DEF r
<1>17. StateOK([u EXCEPT ![p] = x], p)
  BY <1>13, <1>14, <1>15, <1>16 DEF StateOK
<1> QED BY <1>1, <1>17

\* It does so in exec or exit, with the record y.
LEMMA VforkGives ==
    ASSUME NEW t, NEW p \in Procs, StateOK(t, p), t[p].sub = "main",
           t[p].pc \in {"user", "trap"}, t[p].vfork,
           NEW y \in Proc, Same(t[p], y), y.wchan = None, y.mask = t[p].mask, SignalOK(y),
           NEW pc \in {"exec", "exit"}, y.disp[KILL] = "ign" => pc = "exit",
           NEW e, e = [t EXCEPT ![p] = y]
    PROVE  StateOK(Goto(Wakeup([e EXCEPT ![p].vfork = FALSE], p), p, pc), p)
<1> DEFINE r == t[p]
           f == [y EXCEPT !.vfork = FALSE]
           x == GotoRec(f, pc)
<1>1. t \in [Procs -> Proc] /\ p # None
  BY OnFacts, SlotNames
<1>2. /\ f \in Proc /\ f.stat = r.stat /\ f.rq = r.rq /\ f.pptr = r.pptr
      /\ f.vfdone = r.vfdone /\ f.vfork = FALSE /\ f.wchan = None /\ f.mask = r.mask
      /\ f.sig = y.sig /\ f.disp = y.disp
  BY ZenonT(60) DEF Proc, Same
<1>3. PICK v : v = [e EXCEPT ![p].vfork = FALSE]
  OBVIOUS
<1>4. v \in [Procs -> Proc] /\ v[p] = f /\ \A k \in Procs \ {p} : v[k] = t[k]
  <2>1. e \in [Procs -> Proc] /\ e[p] = y /\ \A k \in Procs \ {p} : e[k] = t[k]
    BY <1>1
  <2>2. v = [e EXCEPT ![p] = f]
    BY <1>3, <2>1
  <2> HIDE DEF f
  <2> QED BY <1>2, <2>1, <2>2
<1> HIDE DEF f
<1>5. Wakeup(v, p) = [Wakeup(t, p) EXCEPT ![p] = f]
  BY <1>1, <1>2, <1>4, WakeupWith
<1>6. x \in Proc /\ Still(f, x) /\ x.pc = pc /\ x.sub = "main"
  <2>1. pc \in Places
    BY DEF Places
  <2> QED BY <1>2, <2>1, GotoFields
<1>7. Goto(Wakeup(v, p), p, pc) = [Wakeup(t, p) EXCEPT ![p] = x]
  <2>1. PICK w : w = Wakeup(t, p)
    OBVIOUS
  <2>2. TableOK(t, p) /\ p \in Channels
    BY SlotNames DEF StateOK
  <2>3. w \in [Procs -> Proc]
    BY <2>1, <2>2, WakeupKeeps DEF TableOK
  <2>4. [w EXCEPT ![p] = f] \in [Procs -> Proc] /\ [w EXCEPT ![p] = f][p] = f
    BY <1>2, <2>3
  <2>5. Goto([w EXCEPT ![p] = f], p, pc) = [[w EXCEPT ![p] = f] EXCEPT ![p] = x]
    BY <2>4, GotoIs
  <2> HIDE DEF x
  <2>6. [[w EXCEPT ![p] = f] EXCEPT ![p] = x] = [w EXCEPT ![p] = x]
    BY <2>3
  <2> QED BY <1>5, <2>1, <2>5, <2>6
<1> HIDE DEF x
<1>8. StateOK([Wakeup(t, p) EXCEPT ![p] = x], p)
  <2>1. /\ x.stat = r.stat /\ x.rq = r.rq /\ x.pptr = r.pptr
        /\ x.wchan = None /\ x.vfork = FALSE /\ x.vfdone = r.vfdone /\ x.mask = r.mask
        /\ x.sig = y.sig /\ x.disp = y.disp
    BY <1>2, <1>6 DEF Still
  <2>2. SignalOK(x)
    BY <2>1, SignalLess
  <2> QED BY <1>6, <2>1, <2>2, VforkEnds
<1> QED BY <1>3, <1>7, <1>8

\* The record of an exiting process.
ExitRec(r, rv) == [[r EXCEPT !.disp = [s \in Signals |-> "ign"]] EXCEPT !.xstat = rv]

\* The status that an exiting process leaves, set.
LEMMA StatusField ==
    ASSUME NEW r \in Proc, NEW v \in Signals \cup {0}
    PROVE  [r EXCEPT !.xstat = v] \in Proc
BY SMTT(30), ZenonT(60) DEF Proc

LEMMA ExitFields ==
    ASSUME NEW r \in Proc, NEW rv \in Signals \cup {0}
    PROVE  LET x == ExitRec(r, rv)
           IN /\ x \in Proc /\ Same(r, x) /\ x.wchan = r.wchan /\ x.mask = r.mask
              /\ x.sig = r.sig /\ x.cursig = r.cursig /\ x.pc = r.pc /\ x.sub = r.sub
              /\ SignalOK(r) => SignalOK(x)
<1> DEFINE ign == [s \in Signals |-> "ign"]
           y == [r EXCEPT !.disp = ign]
           x == [y EXCEPT !.xstat = rv]
<1>1. ign \in [Signals -> {"dfl", "ign", "catch"}] /\ \A s \in Signals : ign[s] = "ign"
  OBVIOUS
<1> HIDE DEF ign
<1>2. /\ y \in Proc /\ Same(r, y) /\ y.wchan = r.wchan /\ y.mask = r.mask /\ y.sig = r.sig
      /\ y.cursig = r.cursig /\ y.pc = r.pc /\ y.sub = r.sub /\ y.disp = ign
  BY <1>1 DEF Proc, Same
<1>3. ExitRec(r, rv) = x
  BY DEF ExitRec, ign
<1> HIDE DEF y
<1>4. /\ x \in Proc /\ Same(y, x) /\ x.wchan = y.wchan /\ x.mask = y.mask /\ x.sig = y.sig
      /\ x.cursig = y.cursig /\ x.pc = y.pc /\ x.sub = y.sub /\ x.disp = y.disp
  <2>1. x \in Proc
    BY <1>2, StatusField
  <2>2. Same(y, x)
    BY <1>2 DEF Proc, Same
  <2> QED BY <1>2, <2>1, <2>2 DEF Proc
<1> HIDE DEF x
<1>5. Same(r, x)
  BY <1>2, <1>4 DEF Same
<1>6. SignalOK(r) => SignalOK(x)
  BY <1>1, <1>2, <1>4 DEF SignalOK
<1> QED BY <1>2, <1>3, <1>4, <1>5, <1>6

LEMMA ExitingKeepsState ==
    ASSUME NEW t, NEW p \in Procs \ {init}, StateOK(t, p), t[p].sub = "main",
           t[p].pc \in {"user", "trap"}, NEW rv \in Signals \cup {0}
    PROVE  StateOK(Exiting(t, p, rv), p)
<1> DEFINE r == t[p]
           y == ExitRec(r, rv)
<1>1. /\ t \in [Procs -> Proc] /\ r \in Proc /\ r.wchan = None /\ SignalOK(r)
      /\ (ContNotTyped => CONT \notin r.mask) /\ p # None
  BY OnFacts, SlotNames
<1>2. /\ y \in Proc /\ Same(r, y) /\ y.wchan = r.wchan /\ y.mask = r.mask
      /\ y.pc = r.pc /\ y.sub = r.sub /\ SignalOK(y)
  BY <1>1, ExitFields
<1>3. [t EXCEPT ![p].disp = [s \in Signals |-> "ign"], ![p].xstat = rv] = [t EXCEPT ![p] = y]
  BY <1>1 DEF ExitRec
<1> HIDE DEF y
<1>4. PICK e : e = [t EXCEPT ![p].disp = [s \in Signals |-> "ign"], ![p].xstat = rv]
  OBVIOUS
<1>5. e = [t EXCEPT ![p] = y]
  BY <1>4, <1>3
<1>6. Exiting(t, p, rv) = IF r.vfork THEN Goto(Wakeup([e EXCEPT ![p].vfork = FALSE], p), p, "exit")
                          ELSE Goto(e, p, "close")
  BY <1>4 DEF Exiting
<1>7. CASE ~r.vfork
  <2>1. StateOK(Goto([t EXCEPT ![p] = y], p, "close"), p)
    <3>1. ~y.vfork /\ r.pc \notin {"procdup", "vfork", "exec", "exit"} /\ y.wchan = None
          /\ (ContNotTyped => CONT \notin y.mask) /\ p # init
      BY <1>1, <1>2, <1>7 DEF Same
    <3> QED BY <1>2, <3>1, GotoKeepsState
  <2> QED BY <1>5, <1>6, <1>7, <2>1
<1>8. CASE r.vfork
  <2>1. y.wchan = None /\ r.pc \in {"user", "trap"} /\ r.sub = "main"
    BY <1>1, <1>2
  <2>2. StateOK(Goto(Wakeup([e EXCEPT ![p].vfork = FALSE], p), p, "exit"), p)
    BY <1>2, <1>5, <1>8, <2>1, VforkGives
  <2> QED BY <1>6, <1>8, <2>2
<1> QED BY <1>7, <1>8

\* sleep(chan, pri), with the record y.
LEMMA SleepStep ==
    ASSUME NEW p \in Procs, StateOK(proc, p), cur = p, proc[p].sub = "main",
           NEW y \in Proc, Same(proc[p], y), y.disp = proc[p].disp, y.mask = proc[p].mask,
           y.sig = proc[p].sig, y.child = proc[p].child, y.opts = proc[p].opts,
           y.cursig = proc[p].cursig, y.swted = proc[p].swted, y.sub = "main",
           NEW chan \in Channels, NEW intr \in BOOLEAN,
           y.pc = proc[p].pc \/ (proc[p].pc = "waitsleep" /\ y.pc = "wait"),
           intr => y.pc \in {"sigpause", "wait", "tty"},
           y.pc = "wait" => chan = p /\ Waiting(proc[p]),
           y.pc = "vfork" => chan = y.child /\ proc[y.child].vfork,
           y.pc \in {"exec", "exit"} => chan = p /\ ~y.vfdone,
           y.pc \notin {"procdup", "waitsleep", "trap"},
           NEW t \in [Procs -> Proc], t[p] = y, \A k \in Procs \ {p} : t[k] = proc[k],
           Sleep(t, p, chan, intr)
    PROVE  StateOK(proc', cur')
<1> DEFINE q == [y EXCEPT !.wchan = chan, !.intr = intr]
           b == [q EXCEPT !.sub = "pre"]
           a == [q EXCEPT !.stat = "SSLEEP", !.sub = "slept"]
<1>1. /\ intr => StateOK([proc EXCEPT ![p] = b], p)
      /\ ~intr \/ Pending(q) = {} => StateOK([proc EXCEPT ![p] = a], None)
  <2>1. StateOK(proc, p) /\ proc[p].sub = "main"
    OBVIOUS
  <2> QED BY ZenonT(60), <2>1, SleepKeepsState
<1>2. proc \in [Procs -> Proc]
  BY OnFacts
<1>3. PICK w : w = [t EXCEPT ![p].wchan = chan, ![p].intr = intr]
  OBVIOUS
<1>4. IF intr /\ Pending(w[p]) # {}
      THEN proc' = [w EXCEPT ![p].sub = "pre"] /\ cur' = cur
      ELSE proc' = [w EXCEPT ![p].stat = "SSLEEP", ![p].sub = "slept"] /\ cur' = None
  BY <1>3 DEF Sleep, Run, Swtch, Asleep
<1>5. w = [t EXCEPT ![p] = q] /\ DOMAIN w = Procs /\ w[p] = q
      /\ \A k \in Procs \ {p} : w[k] = proc[k]
  BY <1>3
<1> HIDE DEF q
<1>6. [w EXCEPT ![p].sub = "pre"] = [w EXCEPT ![p] = b]
  BY <1>5
<1>7. [w EXCEPT ![p].stat = "SSLEEP", ![p].sub = "slept"] = [w EXCEPT ![p] = a]
  BY <1>5
<1> HIDE DEF a, b
<1>8. [w EXCEPT ![p] = a] = [proc EXCEPT ![p] = a] /\ [w EXCEPT ![p] = b] = [proc EXCEPT ![p] = b]
  <2>1. w = [t EXCEPT ![p] = q]
    BY <1>5
  <2>2. [[t EXCEPT ![p] = q] EXCEPT ![p] = a] = [proc EXCEPT ![p] = a]
    BY <1>2
  <2>3. [[t EXCEPT ![p] = q] EXCEPT ![p] = b] = [proc EXCEPT ![p] = b]
    BY <1>2
  <2> QED BY <2>1, <2>2, <2>3
<1>9. CASE intr /\ Pending(q) # {}
  <2>1. proc' = [proc EXCEPT ![p] = b] /\ cur' = p
    BY <1>4, <1>5, <1>6, <1>8, <1>9
  <2> QED BY <1>1, <1>9, <2>1
<1>10. CASE ~intr \/ Pending(q) = {}
  <2>1. proc' = [proc EXCEPT ![p] = a] /\ cur' = None
    BY <1>4, <1>5, <1>7, <1>8, <1>10
  <2> QED BY <1>1, <1>10, <2>1
<1> QED BY <1>9, <1>10

\* A sleep where the process is.
LEMMA SleepHere ==
    ASSUME StateOK(proc, cur), NEW p \in Procs, NEW pc, At(p, pc),
           NEW chan \in Channels, NEW intr \in BOOLEAN,
           intr => pc \in {"sigpause", "tty"},
           pc \in {"vfork", "exec", "exit", "close", "sigpause", "tty", "disk"},
           pc = "vfork" => chan = proc[p].child /\ proc[proc[p].child].vfork,
           pc \in {"exec", "exit"} => chan = p /\ ~proc[p].vfdone,
           Sleep(proc, p, chan, intr)
    PROVE  StateOK(proc', cur')
<1> DEFINE y == proc[p]
<1>1. /\ cur = p /\ StateOK(proc, p) /\ proc \in [Procs -> Proc] /\ y \in Proc
      /\ y.pc = pc /\ y.sub = "main"
  BY AtFacts
<1>2. Same(proc[p], y)
  BY DEF Same
<1>3. PICK t : t = proc
  OBVIOUS
<1>4. t \in [Procs -> Proc] /\ t[p] = y /\ \A k \in Procs \ {p} : t[k] = proc[k]
  BY <1>1, <1>3
<1>5. Sleep(t, p, chan, intr)
  BY <1>3
<1>6. /\ y.disp = proc[p].disp /\ y.mask = proc[p].mask
      /\ y.sig = proc[p].sig /\ y.child = proc[p].child /\ y.opts = proc[p].opts
      /\ y.cursig = proc[p].cursig /\ y.swted = proc[p].swted /\ y.pc = proc[p].pc
      /\ proc[p].sub = "main"
  BY <1>1
<1>7. /\ intr => y.pc \in {"sigpause", "wait", "tty"}
      /\ y.pc # "wait"
      /\ y.pc = "vfork" => chan = y.child /\ proc[y.child].vfork
      /\ y.pc \in {"exec", "exit"} => chan = p /\ ~y.vfdone
      /\ y.pc \notin {"procdup", "waitsleep", "trap"}
  BY <1>1
<1> HIDE DEF y
<1> QED BY <1>1, <1>2, <1>4, <1>5, <1>6, <1>7, SleepStep

LEMMA PauseStep ==
    ASSUME StateOK(proc, cur), NEW p \in Procs, Pause(p)
    PROVE  StateOK(proc', cur')
<1>1. At(p, "sigpause") /\ Sleep(proc, p, Uarea, TRUE) /\ Uarea \in Channels
  BY SlotNames DEF Pause
<1> QED BY <1>1, SleepHere

LEMMA VforkWaitStep ==
    ASSUME StateOK(proc, cur), NEW p \in Procs, VforkWait(p)
    PROVE  StateOK(proc', cur')
<1>1. /\ At(p, "vfork") /\ proc[proc[p].child].vfork
      /\ Sleep(proc, p, proc[p].child, FALSE)
  BY DEF VforkWait
<1>2. proc[p].child \in Channels
  <2>1. PlaceOK(p, proc[p], TRUE) /\ proc[p].pc = "vfork"
    BY <1>1, AtFacts
  <2> QED BY <2>1, SlotNames DEF PlaceOK
<1> QED BY <1>1, <1>2, SleepHere

LEMMA VfdoneWaitStep ==
    ASSUME StateOK(proc, cur), NEW p \in Procs, VfdoneWait(p)
    PROVE  StateOK(proc', cur')
<1>1. /\ At(p, "exec") \/ At(p, "exit")
      /\ ~proc[p].vfdone /\ Sleep(proc, p, p, FALSE) /\ p \in Channels
  BY SlotNames DEF VfdoneWait
<1> QED BY <1>1, SleepHere

LEMMA CloseWaitStep ==
    ASSUME StateOK(proc, cur), NEW p \in Procs, CloseWait(p)
    PROVE  StateOK(proc', cur')
<1>1. At(p, "close") /\ Sleep(proc, p, Disk, FALSE) /\ Disk \in Channels
  BY SlotNames DEF CloseWait
<1> QED BY <1>1, SleepHere

LEMMA ReadWaitStep ==
    ASSUME StateOK(proc, cur), NEW p \in Procs, NEW dev \in Devices, ReadWait(p, dev)
    PROVE  StateOK(proc', cur')
<1>1. /\ At(p, Reading(dev)) /\ Sleep(proc, p, dev, dev = Tty) /\ dev \in Channels
      /\ (dev = Tty) \in BOOLEAN
  BY SlotNames DEF ReadWait
<1>2. Reading(dev) \in {"tty", "disk"} /\ (dev = Tty => Reading(dev) = "tty")
  BY DEF Reading
<1> QED BY <1>1, <1>2, SleepHere

LEMMA ReadDoneStep ==
    ASSUME StateOK(proc, cur), NEW p \in Procs, NEW dev \in Devices, ReadDone(p, dev)
    PROVE  StateOK(proc', cur')
<1>1. At(p, Reading(dev)) /\ proc' = Goto(proc, p, "trap") /\ cur' = cur
  BY DEF ReadDone, Run
<1>2. Reading(dev) \in {"tty", "disk"}
  BY DEF Reading
<1>3. /\ cur = p /\ StateOK(proc, p) /\ proc[p].pc = Reading(dev) /\ proc[p].wchan = None
      /\ (p = init => proc[p].cursig = 0)
  BY <1>1, <1>2, AtFacts
<1>4. StateOK(Goto(proc, p, "trap"), p)
  BY <1>2, <1>3, GoesOn
<1> QED BY <1>1, <1>3, <1>4

LEMMA ReadStep ==
    ASSUME StateOK(proc, cur), NEW p \in Procs, NEW dev \in Devices, Read(p, dev)
    PROVE  StateOK(proc', cur')
<1>1. At(p, "user") /\ proc' = Goto(proc, p, Reading(dev)) /\ cur' = cur
  BY DEF Read, Run, Calls
<1>2. Reading(dev) \in {"tty", "disk"}
  BY DEF Reading
<1>3. /\ cur = p /\ StateOK(proc, p) /\ proc[p].pc = "user" /\ proc[p].wchan = None
      /\ (p = init => proc[p].cursig = 0)
  BY <1>1, AtFacts
<1>4. StateOK(Goto(proc, p, Reading(dev)), p)
  BY <1>2, <1>3, GoesOn
<1> QED BY <1>1, <1>3, <1>4

LEMMA InterruptStep ==
    ASSUME StateOK(proc, cur), NEW dev \in Devices, Interrupt(dev)
    PROVE  StateOK(proc', cur')
<1>1. proc' = Wakeup(proc, dev) /\ cur' = cur /\ dev \in Channels
  BY SlotNames DEF Interrupt
<1>2. StateOK(Wakeup(proc, dev), cur)
  BY <1>1, WakeupKeepsState
<1> QED BY <1>1, <1>2

LEMMA TypeStep ==
    ASSUME StateOK(proc, cur), NEW s \in Typed, Type(s)
    PROVE  StateOK(proc', cur')
<1>1. proc' = FoldLeft(Gsignal, proc, s) /\ cur' = cur
  BY DEF Type
<1>2. StateOK(FoldLeft(Gsignal, proc, s), cur)
  BY TypedKeepsState
<1> QED BY <1>1, <1>2

------------------------------------------------------------------------------
(* System calls. *)

\* The process goes on with another record.
LEMMA GotoStep ==
    ASSUME StateOK(proc, cur), NEW p \in Procs, NEW at, At(p, at),
           at \in {"user", "wait", "waitsleep"}, NEW t \in [Procs -> Proc],
           \A k \in Procs \ {p} : t[k] = proc[k], Same(proc[p], t[p]),
           t[p].wchan = None, SignalOK(t[p]), ContNotTyped => CONT \notin t[p].mask,
           t[p].cursig = proc[p].cursig, t[p].disp[KILL] # "ign",
           NEW pc \in {"user", "trap", "wait", "sigpause"}
    PROVE  StateOK(Goto(t, p, pc), p)
<1> DEFINE y == t[p]
<1>1. /\ cur = p /\ StateOK(proc, p) /\ proc \in [Procs -> Proc]
      /\ proc[p].pc \notin {"procdup", "vfork", "exec", "exit"}
      /\ (p = init => proc[p].cursig = 0)
  <2>1. /\ cur = p /\ StateOK(proc, p) /\ proc \in [Procs -> Proc] /\ proc[p].pc = at
        /\ (p = init /\ proc[p].cursig # 0 => at = "trap")
    BY AtFacts
  <2> QED BY <2>1
<1>2. t = [proc EXCEPT ![p] = y]
  BY <1>1
<1>3. /\ y \in Proc /\ Same(proc[p], y) /\ y.wchan = None /\ SignalOK(y)
      /\ (ContNotTyped => CONT \notin y.mask) /\ y.cursig = proc[p].cursig
      /\ y.disp[KILL] # "ign"
  OBVIOUS
<1> HIDE DEF y
<1>4. StateOK(Goto([proc EXCEPT ![p] = y], p, pc), p)
  BY <1>1, <1>3, GotoKeepsState
<1> QED BY <1>2, <1>4

\* What the record of a process that calls the system says.
LEMMA CallsFacts ==
    ASSUME StateOK(proc, cur), NEW p \in Procs, At(p, "user")
    PROVE  LET r == proc[p]
           IN /\ cur = p /\ StateOK(proc, p) /\ proc \in [Procs -> Proc] /\ r \in Proc
              /\ r.wchan = None /\ SignalOK(r) /\ (ContNotTyped => CONT \notin r.mask)
              /\ r.disp[KILL] # "ign" /\ r.disp[CONT] # "ign"
              /\ (p = init => r.cursig = 0)
<1> DEFINE r == proc[p]
<1>1. /\ cur = p /\ StateOK(proc, p) /\ proc \in [Procs -> Proc] /\ r \in Proc
      /\ r.wchan = None /\ SignalOK(r) /\ (ContNotTyped => CONT \notin r.mask)
      /\ (p = init => r.cursig = 0) /\ PlaceOK(p, r, TRUE) /\ r.pc = "user"
  BY AtFacts
<1>2. r.disp[KILL] # "ign"
  BY <1>1 DEF PlaceOK
<1>3. r.disp[CONT] # "ign"
  BY <1>1, <1>2, SignalNumbers DEF SignalOK
<1> QED BY <1>1, <1>2, <1>3

\* The mask of sigblock, sigsetmask, sigpause and sigcleanup.
LEMMA MaskFields ==
    ASSUME NEW r \in Proc, NEW m \in SUBSET Signals
    PROVE  LET x == [r EXCEPT !.mask = m \ Cantmask]
           IN /\ x \in Proc /\ Same(r, x) /\ x.wchan = r.wchan /\ x.sig = r.sig
              /\ x.disp = r.disp /\ x.cursig = r.cursig /\ CONT \notin x.mask
<1> DEFINE v == m \ Cantmask
           x == [r EXCEPT !.mask = v]
<1>1. v \in Masks /\ CONT \notin v
  BY DEF Masks, Cantmask
<1> HIDE DEF v
<1>2. x \in Proc
  BY <1>1 DEF Proc
<1>3. Same(r, x)
  BY DEF Proc, Same
<1>4. x.mask = v
  BY DEF Proc
<1> QED BY <1>1, <1>2, <1>3, <1>4 DEF Proc, v

LEMMA SigsetmaskStep ==
    ASSUME StateOK(proc, cur), NEW p \in Procs, NEW m \in SUBSET Blockable, Sigsetmask(p, m)
    PROVE  StateOK(proc', cur')
<1> DEFINE r == proc[p]
           y == [r EXCEPT !.mask = m \ Cantmask]
<1>1. At(p, "user") /\ cur' = cur
      /\ proc' = Goto([proc EXCEPT ![p].mask = m \ Cantmask], p, "trap")
  BY DEF Sigsetmask, Calls, Run
<1>2. /\ cur = p /\ proc \in [Procs -> Proc] /\ r \in Proc /\ r.wchan = None /\ SignalOK(r)
      /\ r.disp[KILL] # "ign"
  BY <1>1, CallsFacts
<1>3. PICK t : t = [proc EXCEPT ![p].mask = m \ Cantmask]
  OBVIOUS
<1>4. m \in SUBSET Signals
  BY ProcessesAssumption
<1>5. /\ y \in Proc /\ Same(r, y) /\ y.wchan = r.wchan /\ y.sig = r.sig
      /\ y.disp = r.disp /\ y.cursig = r.cursig /\ CONT \notin y.mask
  BY <1>2, <1>4, MaskFields
<1>6. t \in [Procs -> Proc] /\ t[p] = y /\ \A k \in Procs \ {p} : t[k] = proc[k]
  BY <1>2, <1>3, <1>5
<1> HIDE DEF y
<1>7. SignalOK(y)
  BY <1>2, <1>5, SignalLess
<1>8. StateOK(Goto(t, p, "trap"), p)
  BY <1>1, <1>2, <1>5, <1>6, <1>7, GotoStep
<1> QED BY <1>1, <1>2, <1>3, <1>8

LEMMA SigpauseStep ==
    ASSUME StateOK(proc, cur), NEW p \in Procs, NEW m \in SUBSET Blockable, Sigpause(p, m)
    PROVE  StateOK(proc', cur')
<1> DEFINE r == proc[p]
           x == [r EXCEPT !.omask = r.mask]
           y == [x EXCEPT !.mask = m \ Cantmask]
<1>1. At(p, "user") /\ cur' = cur
      /\ proc' = Goto([proc EXCEPT ![p].omask = proc[p].mask, ![p].mask = m \ Cantmask],
                      p, "sigpause")
  BY DEF Sigpause, Calls, Run
<1>2. /\ cur = p /\ proc \in [Procs -> Proc] /\ r \in Proc /\ r.wchan = None /\ SignalOK(r)
      /\ r.disp[KILL] # "ign"
  BY <1>1, CallsFacts
<1>3. PICK t : t = [proc EXCEPT ![p].omask = proc[p].mask, ![p].mask = m \ Cantmask]
  OBVIOUS
<1>4. m \in SUBSET Signals
  BY ProcessesAssumption
<1>5. /\ x \in Proc /\ Same(r, x) /\ x.wchan = r.wchan /\ x.sig = r.sig
      /\ x.disp = r.disp /\ x.cursig = r.cursig
  <2>1. x \in Proc
    BY ZenonT(60), <1>2 DEF Proc
  <2>2. Same(r, x)
    BY <1>2 DEF Proc, Same
  <2> QED BY <1>2, <2>1, <2>2 DEF Proc
<1>6. t = [proc EXCEPT ![p] = y]
  BY <1>2, <1>3
<1> HIDE DEF x
<1>7. /\ y \in Proc /\ Same(x, y) /\ y.wchan = x.wchan /\ y.sig = x.sig
      /\ y.disp = x.disp /\ y.cursig = x.cursig /\ CONT \notin y.mask
  BY <1>4, <1>5, MaskFields
<1> HIDE DEF y
<1>8. t \in [Procs -> Proc] /\ t[p] = y /\ \A k \in Procs \ {p} : t[k] = proc[k]
  BY <1>2, <1>6, <1>7
<1>9. SignalOK(y) /\ Same(r, y)
  BY <1>2, <1>5, <1>7, SignalLess DEF Same
<1>10. StateOK(Goto(t, p, "sigpause"), p)
  BY <1>1, <1>2, <1>5, <1>7, <1>8, <1>9, GotoStep
<1> QED BY <1>1, <1>2, <1>3, <1>10

\* The handler returns.
LEMMA SigcleanupStep ==
    ASSUME StateOK(proc, cur), NEW p \in Procs, Sigcleanup(p)
    PROVE  StateOK(proc', cur')
<1> DEFINE r == proc[p]
           m == Last(r.frames)
           x == [r EXCEPT !.mask = m \ Cantmask]
           f == Front(x.frames)
           y == [x EXCEPT !.frames = f]
<1>1. At(p, "user") /\ cur' = cur /\ r.frames # <<>>
      /\ proc' = Goto([proc EXCEPT ![p].mask = Last(proc[p].frames) \ Cantmask,
                                   ![p].frames = Front(@)], p, "trap")
  BY DEF Sigcleanup, Run
<1>2. /\ cur = p /\ proc \in [Procs -> Proc] /\ r \in Proc /\ r.wchan = None /\ SignalOK(r)
      /\ r.disp[KILL] # "ign"
  BY <1>1, CallsFacts
<1>3. PICK t : t = [proc EXCEPT ![p].mask = Last(proc[p].frames) \ Cantmask,
                                ![p].frames = Front(@)]
  OBVIOUS
<1>4. r.frames \in Seq(Masks)
  BY <1>2 DEF Proc
<1>5. Len(r.frames) \in Nat \ {0} /\ Front(r.frames) \in Seq(Masks) /\ m \in Masks
  <2>1. Len(r.frames) \in Nat /\ Len(r.frames) # 0
    BY <1>1, <1>4
  <2>2. m \in Masks
    BY <1>4, <2>1 DEF Last
  <2>3. Front(r.frames) \in Seq(Masks)
    <3>1. 1 \in 1 .. Len(r.frames) /\ Len(r.frames) - 1 \in 0 .. Len(r.frames)
      BY <2>1
    <3> QED BY <1>4, <2>1, <3>1 DEF Front
  <2> QED BY <2>1, <2>2, <2>3
<1>6. m \in SUBSET Signals
  BY <1>5 DEF Masks
<1>7. t = [proc EXCEPT ![p] = y]
  BY <1>2, <1>3
<1> HIDE DEF m
<1>8. /\ x \in Proc /\ Same(r, x) /\ x.wchan = r.wchan /\ x.sig = r.sig
      /\ x.disp = r.disp /\ x.cursig = r.cursig /\ CONT \notin x.mask
  BY <1>2, <1>6, MaskFields
<1>9. x.frames = r.frames
  BY <1>2 DEF Proc
<1> HIDE DEF x
<1>10. f \in Seq(Masks)
  BY <1>5, <1>9
<1> HIDE DEF f
<1>11. /\ y \in Proc /\ Same(x, y) /\ y.wchan = x.wchan /\ y.sig = x.sig
       /\ y.disp = x.disp /\ y.cursig = x.cursig /\ y.mask = x.mask
  <2>1. y \in Proc
    BY <1>8, <1>10 DEF Proc
  <2>2. Same(x, y)
    BY <1>8 DEF Proc, Same
  <2> QED BY <1>8, <2>1, <2>2 DEF Proc
<1> HIDE DEF y
<1>12. t \in [Procs -> Proc] /\ t[p] = y /\ \A k \in Procs \ {p} : t[k] = proc[k]
  BY <1>2, <1>7, <1>11
<1>13. SignalOK(y) /\ Same(r, y)
  BY <1>2, <1>8, <1>11, SignalLess DEF Same
<1>14. StateOK(Goto(t, p, "trap"), p)
  BY <1>1, <1>2, <1>8, <1>11, <1>12, <1>13, GotoStep
<1> QED BY <1>1, <1>2, <1>3, <1>14

\* A disposition.
LEMMA SigvecStep ==
    ASSUME StateOK(proc, cur), NEW p \in Procs, NEW s \in Caught,
           NEW d \in {"dfl", "ign", "catch"}, Sigvec(p, s, d)
    PROVE  StateOK(proc', cur')
<1> DEFINE r == proc[p]
           disp == [r.disp EXCEPT ![s] = d]
           x == [r EXCEPT !.disp = disp]
           g == IF d = "ign" THEN x.sig \ {s} ELSE x.sig
           y == [x EXCEPT !.sig = g]
<1>1. At(p, "user") /\ cur' = cur /\ ~(s = CONT /\ d = "ign")
      /\ proc' = Goto([proc EXCEPT ![p].disp[s] = d,
                                   ![p].sig = IF d = "ign" THEN @ \ {s} ELSE @], p, "trap")
  BY DEF Sigvec, Calls, Run
<1>2. /\ cur = p /\ proc \in [Procs -> Proc] /\ r \in Proc /\ r.wchan = None /\ SignalOK(r)
      /\ r.disp[KILL] # "ign" /\ r.disp[CONT] # "ign"
      /\ (ContNotTyped => CONT \notin r.mask)
  BY <1>1, CallsFacts
<1>3. PICK t : t = [proc EXCEPT ![p].disp[s] = d,
                                ![p].sig = IF d = "ign" THEN @ \ {s} ELSE @]
  OBVIOUS
<1>4. s \in Signals /\ s # KILL
  BY ProcessesAssumption
<1>5. /\ disp \in [Signals -> {"dfl", "ign", "catch"}] /\ disp[s] = d
      /\ \A k \in Signals \ {s} : disp[k] = r.disp[k]
  <2>1. r.disp \in [Signals -> {"dfl", "ign", "catch"}]
    BY <1>2 DEF Proc
  <2> QED BY <1>4, <2>1
<1>6. t = [proc EXCEPT ![p] = y]
  BY <1>2, <1>3
<1> HIDE DEF disp
<1>7. x \in Proc /\ Same(r, x) /\ x.wchan = r.wchan /\ x.sig = r.sig /\ x.mask = r.mask
      /\ x.disp = disp /\ x.cursig = r.cursig
  <2>1. x \in Proc
    BY <1>2, <1>5 DEF Proc
  <2>2. Same(r, x)
    BY <1>2 DEF Proc, Same
  <2> QED BY <1>2, <2>1, <2>2 DEF Proc
<1> HIDE DEF x
<1>8. g \in SUBSET Signals /\ g \subseteq r.sig
  <2>1. x.sig \in SUBSET Signals
    BY <1>7 DEF Proc
  <2> QED BY <1>7, <2>1
<1> HIDE DEF g
<1>9. y \in Proc /\ Fixed(x, y) /\ y.sig = g /\ y.wchan = x.wchan /\ y.stat = x.stat
      /\ y.rq = x.rq /\ y.cursig = x.cursig
  BY <1>7, <1>8, SigFields
<1> HIDE DEF y
<1>10. t \in [Procs -> Proc] /\ t[p] = y /\ \A k \in Procs \ {p} : t[k] = proc[k]
  BY <1>2, <1>6, <1>9
<1>11. Same(r, y) /\ y.mask = r.mask /\ y.disp = disp
  BY <1>7, <1>9 DEF Same, Fixed
<1>12. disp[KILL] # "ign" /\ disp[CONT] # "ign"
  BY <1>1, <1>2, <1>4, <1>5, SignalNumbers
<1>13. SignalOK(y)
  <2>1. \A k \in Signals : disp[k] = "catch" => k \in Caught
    BY <1>2, <1>5 DEF SignalOK
  <2>2. \A k \in y.sig \cap Stops : CONT \notin y.sig
    BY <1>2, <1>8, <1>9 DEF SignalOK
  <2> QED BY <1>11, <1>12, <2>1, <2>2 DEF SignalOK
<1>14. StateOK(Goto(t, p, "trap"), p)
  BY <1>1, <1>2, <1>7, <1>9, <1>10, <1>11, <1>12, <1>13, GotoStep
<1> QED BY <1>1, <1>2, <1>3, <1>14

------------------------------------------------------------------------------
(* Signals that end a process, kill, and exec. *)

LEMMA DiscardStep ==
    ASSUME StateOK(proc, cur), NEW p \in Procs, IssigDiscard(p)
    PROVE  StateOK(proc', cur')
<1>1. InIssig(p) /\ Deliverable(proc[p]) # {} /\ proc' = Take(p) /\ cur' = cur
  BY DEF IssigDiscard, Run
<1>2. StateOK(Take(p), p)
  BY <1>1, IssigDiscardStep
<1> QED BY <1>1, <1>2 DEF InIssig

LEMMA PsigExitStep ==
    ASSUME StateOK(proc, cur), NEW p \in Procs, PsigExit(p)
    PROVE  StateOK(proc', cur')
<1>1. /\ At(p, "trap") /\ proc[p].cursig # 0 /\ proc[p].disp[proc[p].cursig] = "dfl"
      /\ proc' = Exiting(proc, p, proc[p].cursig) /\ cur' = cur
  BY DEF PsigExit, Run
<1>2. /\ cur = p /\ StateOK(proc, p) /\ proc[p].sub = "main" /\ proc[p].pc = "trap"
      /\ proc[p] \in Proc /\ p # init
  BY <1>1, AtFacts
<1>3. proc[p].cursig \in Signals \cup {0}
  BY <1>2 DEF Proc
<1>4. StateOK(Exiting(proc, p, proc[p].cursig), p)
  BY <1>2, <1>3, ExitingKeepsState
<1> QED BY <1>1, <1>2, <1>4

LEMMA ExitStep ==
    ASSUME StateOK(proc, cur), NEW p \in Procs, Exit(p)
    PROVE  StateOK(proc', cur')
<1>1. At(p, "user") /\ "exit" \in Programs[p] /\ proc' = Exiting(proc, p, 0) /\ cur' = cur
  BY DEF Exit, Calls, Run
<1>2. cur = p /\ StateOK(proc, p) /\ proc[p].sub = "main" /\ proc[p].pc = "user"
  BY <1>1, AtFacts
<1>3. p # init
  BY <1>1, ProcessesAssumption
<1>4. StateOK(Exiting(proc, p, 0), p)
  BY <1>2, <1>3, ExitingKeepsState
<1> QED BY <1>1, <1>2, <1>4

LEMMA KillStep ==
    ASSUME StateOK(proc, cur), NEW p \in Procs, NEW q \in Procs, NEW s \in Killed,
           Kill(p, q, s)
    PROVE  StateOK(proc', cur')
<1>1. /\ At(p, "user") /\ q # init /\ proc[q].stat # "none"
      /\ proc' = Goto(Psignal(proc, q, s), p, "trap") /\ cur' = cur /\ s \in Signals
  BY ProcessesAssumption DEF Kill, Calls, Run
<1>2. /\ cur = p /\ StateOK(proc, p) /\ proc[p].pc = "user" /\ proc[p].sub = "main"
      /\ proc[p].wchan = None /\ (p = init => proc[p].cursig = 0)
      /\ TableOK(proc, p) /\ KinOK(proc) /\ PlacesOK(proc, p)
  BY <1>1, AtFacts DEF StateOK
<1>3. proc[q].sub # "stop" /\ proc[q].pptr \in Procs
  <2>1. proc[q].sub = "stop" => q = p
    BY <1>2, OnFacts
  <2>2. proc[q].pptr \in Procs
    BY <1>1, <1>2, NotOwnParent
  <2> QED BY <1>2, <2>1, <2>2
<1>4. PICK u : u = Psignal(proc, q, s)
  OBVIOUS
<1>5. StateOK(u, p)
  BY <1>1, <1>2, <1>3, <1>4, PsignalKeepsState
<1>6. Frame(proc, u)
  BY <1>1, <1>2, <1>3, <1>4, PsignalKeeps
<1>7. /\ u[p].wchan = None /\ u[p].pc = "user" /\ (p = init => u[p].cursig = 0)
  BY <1>2, <1>6 DEF Frame, Moved, Fixed
<1>8. StateOK(Goto(u, p, "trap"), p)
  BY <1>5, <1>7, GoesOn
<1> QED BY <1>1, <1>2, <1>4, <1>8

\* The record with a new image.
ImageRec(r) ==
    [[r EXCEPT !.disp = [s \in Signals |-> IF r.disp[s] = "catch" THEN "dfl" ELSE r.disp[s]]]
       EXCEPT !.frames = <<>>]

LEMMA ImageFields ==
    ASSUME NEW r \in Proc, SignalOK(r)
    PROVE  LET x == ImageRec(r)
           IN /\ x \in Proc /\ Same(r, x) /\ x.wchan = r.wchan /\ x.mask = r.mask
              /\ x.sig = r.sig /\ x.cursig = r.cursig /\ x.pc = r.pc /\ x.sub = r.sub
              /\ x.opts = r.opts /\ x.intr = r.intr
              /\ SignalOK(x) /\ (x.disp[KILL] = "ign" => r.disp[KILL] = "ign")
<1> DEFINE disp == [s \in Signals |-> IF r.disp[s] = "catch" THEN "dfl" ELSE r.disp[s]]
           y == [r EXCEPT !.disp = disp]
           x == [y EXCEPT !.frames = <<>>]
<1>1. /\ disp \in [Signals -> {"dfl", "ign", "catch"}]
      /\ \A s \in Signals : disp[s] # "catch" /\ (disp[s] = "ign" <=> r.disp[s] = "ign")
  <2>1. r.disp \in [Signals -> {"dfl", "ign", "catch"}]
    BY DEF Proc
  <2> QED BY <2>1
<1>2. ImageRec(r) = x
  BY DEF ImageRec
<1> HIDE DEF disp
<1>3. /\ y \in Proc /\ Same(r, y) /\ y.wchan = r.wchan /\ y.mask = r.mask /\ y.sig = r.sig
      /\ y.cursig = r.cursig /\ y.pc = r.pc /\ y.sub = r.sub /\ y.disp = disp
      /\ y.opts = r.opts /\ y.intr = r.intr
  <2>1. y \in Proc
    BY <1>1 DEF Proc
  <2>2. Same(r, y)
    BY DEF Proc, Same
  <2> QED BY <2>1, <2>2 DEF Proc
<1> HIDE DEF y
<1>4. /\ x \in Proc /\ Same(y, x) /\ x.wchan = y.wchan /\ x.mask = y.mask /\ x.sig = y.sig
      /\ x.cursig = y.cursig /\ x.pc = y.pc /\ x.sub = y.sub /\ x.disp = y.disp
      /\ x.opts = y.opts /\ x.intr = y.intr
  <2>1. x \in Proc
    <3>1. <<>> \in Seq(Masks)
      OBVIOUS
    <3>2. PICK e \in Seq(Masks) : e = <<>>
      BY <3>1
    <3>3. [y EXCEPT !.frames = e] \in Proc
      BY <1>3 DEF Proc
    <3> QED BY <3>2, <3>3
  <2>2. Same(y, x)
    BY <1>3 DEF Proc, Same
  <2> QED BY <1>3, <2>1, <2>2 DEF Proc
<1> HIDE DEF x
<1>5. Same(r, x)
  BY <1>3, <1>4 DEF Same
<1>6. SignalOK(x) /\ (x.disp[KILL] = "ign" => r.disp[KILL] = "ign")
  BY <1>1, <1>3, <1>4, SignalNumbers DEF SignalOK
<1> QED BY <1>2, <1>3, <1>4, <1>5, <1>6

LEMMA NewImageIs ==
    ASSUME NEW t \in [Procs -> Proc], NEW p \in Procs
    PROVE  NewImage(t, p) = [t EXCEPT ![p] = ImageRec(GotoRec(t[p], "trap"))]
<1> DEFINE y == GotoRec(t[p], "trap")
<1>1. PICK g : g = Goto(t, p, "trap")
  OBVIOUS
<1>2. g = [t EXCEPT ![p] = y]
  BY <1>1, GotoIs
<1>3. y \in Proc
  BY GotoFields DEF Places
<1> HIDE DEF y
<1>4. DOMAIN g = Procs /\ g[p] = y
  BY <1>2
<1>5. NewImage(t, p) =
        [g EXCEPT ![p].disp = [s \in Signals |-> IF @[s] = "catch" THEN "dfl" ELSE @[s]],
                  ![p].frames = <<>>]
  BY <1>1 DEF NewImage
<1>6. NewImage(t, p) = [g EXCEPT ![p] = ImageRec(y)]
  BY <1>4, <1>5 DEF ImageRec
<1>7. PICK x : x = ImageRec(y)
  OBVIOUS
<1>8. [g EXCEPT ![p] = x] = [t EXCEPT ![p] = x]
  BY <1>2
<1> QED BY <1>6, <1>7, <1>8 DEF y

LEMMA ExecStep ==
    ASSUME StateOK(proc, cur), NEW p \in Procs, Exec(p)
    PROVE  StateOK(proc', cur')
<1> DEFINE r == proc[p]
           y == GotoRec(r, "trap")
           x == ImageRec(y)
<1>1. /\ At(p, "user") /\ cur' = cur
      /\ proc' = IF r.vfork
                 THEN Goto(Wakeup([proc EXCEPT ![p].vfork = FALSE], p), p, "exec")
                 ELSE NewImage(proc, p)
  BY DEF Exec, Calls, Run
<1>2. /\ cur = p /\ StateOK(proc, p) /\ proc \in [Procs -> Proc] /\ r \in Proc
      /\ r.wchan = None /\ SignalOK(r) /\ (ContNotTyped => CONT \notin r.mask)
      /\ r.disp[KILL] # "ign" /\ (p = init => r.cursig = 0)
      /\ r.pc = "user" /\ r.sub = "main"
  BY <1>1, CallsFacts DEF At
<1>3. CASE r.vfork
  <2>1. [proc EXCEPT ![p] = r] = proc /\ Same(r, r)
    BY <1>2 DEF Same
  <2> HIDE DEF r
  <2>2. r = proc[p]
    BY DEF r
  <2>3. StateOK(Goto(Wakeup([proc EXCEPT ![p].vfork = FALSE], p), p, "exec"), p)
    BY <1>2, <1>3, <2>1, <2>2, VforkGives
  <2> QED BY <1>1, <1>2, <1>3, <2>3
<1>4. CASE ~r.vfork
  <2>1. proc' = [proc EXCEPT ![p] = x] /\ cur' = p
    BY <1>1, <1>2, <1>4, NewImageIs
  <2>2. y \in Proc /\ Still(r, y) /\ y.pc = "trap" /\ y.sub = "main"
    BY <1>2, GotoFields DEF Places
  <2> HIDE DEF y, r
  <2>3. Same(r, y) /\ SignalOK(y)
    BY <1>2, <2>2, SignalLess DEF Same, Still
  <2>4. /\ x \in Proc /\ Same(y, x) /\ x.wchan = y.wchan /\ x.mask = y.mask
        /\ x.sig = y.sig /\ x.cursig = y.cursig /\ x.pc = y.pc /\ x.sub = y.sub
        /\ SignalOK(x) /\ (x.disp[KILL] = "ign" => y.disp[KILL] = "ign")
    BY <2>2, <2>3, ImageFields
  <2> HIDE DEF x
  <2>5. /\ Same(r, x) /\ x.wchan = None /\ (ContNotTyped => CONT \notin x.mask)
        /\ (p = init => x.cursig = 0) /\ x.disp[KILL] # "ign"
    BY <1>2, <2>2, <2>3, <2>4 DEF Same, Still
  <2>6. StateOK([proc EXCEPT ![p] = x], p)
    BY <1>2, <2>2, <2>4, <2>5, GoKeepsState DEF r
  <2> QED BY <2>1, <2>6
<1> QED BY <1>3, <1>4

\* The child of a vfork has been told that its parent has the memory again.
LEMMA VfdoneRecord ==
    ASSUME NEW t, NEW p \in Procs, StateOK(t, p), t[p].vfdone, t[p].sub = "main",
           t[p].pc \in {"exec", "exit"},
           NEW x \in Proc, x.stat = t[p].stat, x.rq = t[p].rq, x.pptr = t[p].pptr,
           x.vfork = t[p].vfork, x.wchan = None, ~x.vfdone, x.sub = "main",
           SignalOK(x), x.mask = t[p].mask, x.pc \in {"trap", "close"},
           x.disp[KILL] = "ign" => x.pc = "close"
    PROVE  StateOK([t EXCEPT ![p] = x], p)
<1> DEFINE r == t[p]
<1>1. /\ r \in Proc /\ r.stat = "SRUN" /\ r.rq = FALSE /\ PlaceOK(p, r, TRUE)
      /\ (ContNotTyped => CONT \notin r.mask) /\ (p = init => InitOK(r))
  BY OnFacts
<1>2. p # init /\ ~r.vfork
  BY <1>1 DEF InitOK, PlaceOK
<1>3. RecordOK(x, TRUE)
  BY <1>1, RunRecord
<1>4. PlaceOK(p, x, TRUE)
  BY <1>1, <1>2 DEF PlaceOK
<1>5. Plain(t, p, x)
  <2>1. ~Lent(x) /\ ~Lent(r) /\ ~Waiting(x)
    BY <1>2 DEF Lent, Waiting
  <2>2. NotStopped(r, x) /\ r.stat \notin Dead /\ x.stat \notin Dead
    BY <1>1 DEF NotStopped, Dead
  <2>3. {x.pc, r.pc} \cap {"procdup", "vfork"} = {}
    OBVIOUS
  <2> QED BY <2>1, <2>2, <2>3 DEF Plain
<1>6. PICK c, d : c = p /\ d = p
  OBVIOUS
<1>7. RecordOK(x, p = d) /\ PlaceOK(p, x, p = d) /\ \A q \in Procs \ {p} : q = c <=> q = d
  <2>1. (p = d) = TRUE
    BY <1>6
  <2> QED BY <1>3, <1>4, <1>6, <2>1
<1>8. StateOK(t, c)
  BY <1>6
<1>9. StateOK([t EXCEPT ![p] = x], d)
  BY <1>2, <1>5, <1>7, <1>8, PlainKeepsState
<1> QED BY <1>6, <1>9

LEMMA VfdoneFields ==
    ASSUME NEW r \in Proc, NEW pc \in Places
    PROVE  LET f == [r EXCEPT !.vfdone = FALSE]
               x == GotoRec(f, pc)
           IN /\ f \in Proc /\ x \in Proc /\ x.vfdone = FALSE /\ x.pc = pc /\ x.sub = "main"
              /\ x.stat = r.stat /\ x.rq = r.rq /\ x.pptr = r.pptr /\ x.vfork = r.vfork
              /\ x.wchan = r.wchan /\ x.mask = r.mask /\ x.disp = r.disp /\ x.sig = r.sig
<1> DEFINE f == [r EXCEPT !.vfdone = FALSE]
           x == GotoRec(f, pc)
<1>1. /\ f \in Proc /\ f.vfdone = FALSE
      /\ f.stat = r.stat /\ f.rq = r.rq /\ f.pptr = r.pptr /\ f.vfork = r.vfork
      /\ f.wchan = r.wchan /\ f.mask = r.mask /\ f.disp = r.disp /\ f.sig = r.sig
  BY DEF Proc
<1> HIDE DEF f
<1>2. x \in Proc /\ Still(f, x) /\ x.pc = pc /\ x.sub = "main"
  BY <1>1, GotoFields
<1> HIDE DEF x
<1>3. /\ x \in Proc /\ x.vfdone = FALSE /\ x.pc = pc /\ x.sub = "main"
      /\ x.stat = r.stat /\ x.rq = r.rq /\ x.pptr = r.pptr /\ x.vfork = r.vfork
      /\ x.wchan = r.wchan /\ x.mask = r.mask /\ x.disp = r.disp /\ x.sig = r.sig
  BY <1>1, <1>2 DEF Still
<1> QED BY <1>1, <1>3 DEF f, x

LEMMA VfdoneExecStep ==
    ASSUME StateOK(proc, cur), NEW p \in Procs, VfdoneExec(p)
    PROVE  StateOK(proc', cur')
<1> DEFINE r == proc[p]
           f == [r EXCEPT !.vfdone = FALSE]
           y == GotoRec(f, "trap")
           x == ImageRec(y)
<1>1. /\ At(p, "exec") /\ r.vfdone /\ cur' = cur
      /\ proc' = NewImage([proc EXCEPT ![p].vfdone = FALSE], p)
  BY DEF VfdoneExec, Run
<1>2. /\ cur = p /\ StateOK(proc, p) /\ proc \in [Procs -> Proc] /\ r \in Proc
      /\ r.wchan = None /\ SignalOK(r) /\ r.pc = "exec" /\ r.sub = "main"
      /\ PlaceOK(p, r, TRUE)
  BY <1>1, AtFacts
<1>3. r.disp[KILL] # "ign"
  BY <1>2 DEF PlaceOK
<1>4. /\ f \in Proc /\ y \in Proc /\ y.vfdone = FALSE /\ y.pc = "trap" /\ y.sub = "main"
      /\ y.stat = r.stat /\ y.rq = r.rq /\ y.pptr = r.pptr /\ y.vfork = r.vfork
      /\ y.wchan = r.wchan /\ y.mask = r.mask /\ y.disp = r.disp /\ y.sig = r.sig
  <2>1. "trap" \in Places
    BY DEF Places
  <2> QED BY <1>2, <2>1, VfdoneFields
<1>5. PICK e : e = [proc EXCEPT ![p].vfdone = FALSE]
  OBVIOUS
<1>6. e = [proc EXCEPT ![p] = f] /\ e \in [Procs -> Proc] /\ e[p] = f
  <2>1. e = [proc EXCEPT ![p] = f]
    BY <1>2, <1>5
  <2> QED BY <1>2, <1>4, <2>1
<1> HIDE DEF f
<1>7. NewImage(e, p) = [e EXCEPT ![p] = x]
  BY <1>6, NewImageIs
<1> HIDE DEF y
<1>8. SignalOK(y)
  BY <1>2, <1>4, SignalLess
<1>9. /\ x \in Proc /\ Same(y, x) /\ x.wchan = y.wchan /\ x.mask = y.mask
      /\ x.pc = y.pc /\ x.sub = y.sub
      /\ SignalOK(x) /\ (x.disp[KILL] = "ign" => y.disp[KILL] = "ign")
  BY <1>4, <1>8, ImageFields
<1> HIDE DEF x
<1>10. proc' = [proc EXCEPT ![p] = x]
  <2>1. [[proc EXCEPT ![p] = f] EXCEPT ![p] = x] = [proc EXCEPT ![p] = x]
    BY <1>2
  <2> QED BY <1>1, <1>5, <1>6, <1>7, <2>1
<1>11. /\ x.stat = r.stat /\ x.rq = r.rq /\ x.pptr = r.pptr /\ x.vfork = r.vfork
       /\ x.wchan = None /\ ~x.vfdone /\ x.mask = r.mask /\ x.pc = "trap" /\ x.sub = "main"
       /\ x.disp[KILL] # "ign"
  BY <1>2, <1>3, <1>4, <1>9 DEF Same
<1>12. StateOK([proc EXCEPT ![p] = x], p)
  BY <1>1, <1>2, <1>9, <1>11, VfdoneRecord
<1> QED BY <1>1, <1>2, <1>10, <1>12

LEMMA VfdoneExitStep ==
    ASSUME StateOK(proc, cur), NEW p \in Procs, VfdoneExit(p)
    PROVE  StateOK(proc', cur')
<1> DEFINE r == proc[p]
           f == [r EXCEPT !.vfdone = FALSE]
           x == GotoRec(f, "close")
<1>1. /\ At(p, "exit") /\ r.vfdone /\ cur' = cur
      /\ proc' = Goto([proc EXCEPT ![p].vfdone = FALSE], p, "close")
  BY DEF VfdoneExit, Run
<1>2. /\ cur = p /\ StateOK(proc, p) /\ proc \in [Procs -> Proc] /\ r \in Proc
      /\ r.wchan = None /\ SignalOK(r) /\ r.pc = "exit" /\ r.sub = "main"
  BY <1>1, AtFacts
<1>3. /\ f \in Proc /\ x \in Proc /\ x.vfdone = FALSE /\ x.pc = "close" /\ x.sub = "main"
      /\ x.stat = r.stat /\ x.rq = r.rq /\ x.pptr = r.pptr /\ x.vfork = r.vfork
      /\ x.wchan = r.wchan /\ x.mask = r.mask /\ x.disp = r.disp /\ x.sig = r.sig
  <2>1. "close" \in Places
    BY DEF Places
  <2> QED BY <1>2, <2>1, VfdoneFields
<1>4. PICK e : e = [proc EXCEPT ![p].vfdone = FALSE]
  OBVIOUS
<1>5. e = [proc EXCEPT ![p] = f] /\ e \in [Procs -> Proc] /\ e[p] = f
  <2>1. e = [proc EXCEPT ![p] = f]
    BY <1>2, <1>4
  <2> QED BY <1>2, <1>3, <2>1
<1> HIDE DEF f
<1>6. Goto(e, p, "close") = [e EXCEPT ![p] = x]
  BY <1>5, GotoIs
<1> HIDE DEF x
<1>7. proc' = [proc EXCEPT ![p] = x]
  <2>1. [[proc EXCEPT ![p] = f] EXCEPT ![p] = x] = [proc EXCEPT ![p] = x]
    BY <1>2
  <2> QED BY <1>1, <1>4, <1>5, <1>6, <2>1
<1>8. SignalOK(x)
  BY <1>2, <1>3, SignalLess
<1>9. StateOK([proc EXCEPT ![p] = x], p)
  BY <1>1, <1>2, <1>3, <1>8, VfdoneRecord
<1> QED BY <1>1, <1>2, <1>7, <1>9

------------------------------------------------------------------------------
(* wait. *)

\* wait is entered, or returns, with other options.
LEMMA OptsKeepsState ==
    ASSUME NEW t, NEW p \in Procs, StateOK(t, p), t[p].sub = "main",
           t[p].pc \in {"user", "wait"}, NEW pc \in {"wait", "trap"},
           NEW opts \in SUBSET {"WUNTRACED", "WNOHANG"}
    PROVE  StateOK([Goto(t, p, pc) EXCEPT ![p].opts = opts], p)
<1> DEFINE r == t[p]
           y == GotoRec(r, pc)
           x == [y EXCEPT !.opts = opts]
<1>1. /\ t \in [Procs -> Proc] /\ r \in Proc /\ r.wchan = None /\ SignalOK(r)
      /\ (ContNotTyped => CONT \notin r.mask) /\ PlaceOK(p, r, TRUE)
      /\ (p = init => InitOK(r))
  BY OnFacts
<1>2. y \in Proc /\ Still(r, y) /\ y.pc = pc /\ y.sub = "main"
  <2>1. pc \in Places
    BY DEF Places
  <2> QED BY <1>1, <2>1, GotoFields
<1>3. [Goto(t, p, pc) EXCEPT ![p].opts = opts] = [t EXCEPT ![p] = x]
  <2>1. Goto(t, p, pc) = [t EXCEPT ![p] = y]
    BY <1>1, GotoIs
  <2> HIDE DEF y
  <2> QED BY <1>1, <2>1
<1> HIDE DEF y
<1>4. /\ x \in Proc /\ Same(y, x) /\ x.wchan = y.wchan /\ x.mask = y.mask /\ x.sig = y.sig
      /\ x.cursig = y.cursig /\ x.pc = y.pc /\ x.sub = y.sub /\ x.disp = y.disp
  <2>1. x \in Proc
    BY <1>2 DEF Proc
  <2>2. Same(y, x)
    BY <1>2 DEF Proc, Same
  <2> QED BY <1>2, <2>1, <2>2 DEF Proc
<1> HIDE DEF x
<1>5. /\ x.wchan = None /\ x.mask = r.mask /\ x.sig = r.sig /\ x.cursig = r.cursig
      /\ x.disp = r.disp
  BY <1>1, <1>2, <1>4 DEF Still
<1>6. Same(r, x)
  BY <1>2, <1>4 DEF Same, Still
<1>7. SignalOK(x) /\ x.disp[KILL] # "ign" /\ (p = init => x.cursig = 0)
  <2>1. SignalOK(x)
    BY <1>1, <1>5, SignalLess
  <2>2. x.disp[KILL] # "ign"
    BY <1>1, <1>5 DEF PlaceOK
  <2>3. p = init => x.cursig = 0
    BY <1>1, <1>5 DEF InitOK
  <2> QED BY <2>1, <2>2, <2>3
<1>8. StateOK([t EXCEPT ![p] = x], p)
  BY <1>1, <1>2, <1>4, <1>5, <1>6, <1>7, GoKeepsState
<1> QED BY <1>3, <1>8

LEMMA WaitStep ==
    ASSUME StateOK(proc, cur), NEW p \in Procs,
           NEW opts \in {{}, {"WUNTRACED"}, {"WNOHANG", "WUNTRACED"}}, Wait(p, opts)
    PROVE  StateOK(proc', cur')
<1>1. At(p, "user") /\ proc' = [Goto(proc, p, "wait") EXCEPT ![p].opts = opts] /\ cur' = cur
  BY DEF Wait, Run
<1>2. cur = p /\ StateOK(proc, p) /\ proc[p].sub = "main" /\ proc[p].pc = "user"
  BY <1>1, AtFacts
<1>3. opts \in SUBSET {"WUNTRACED", "WNOHANG"}
  OBVIOUS
<1>4. StateOK([Goto(proc, p, "wait") EXCEPT ![p].opts = opts], p)
  BY <1>2, <1>3, OptsKeepsState
<1> QED BY <1>1, <1>2, <1>4

LEMMA WaitNoneStep ==
    ASSUME StateOK(proc, cur), NEW p \in Procs, WaitNone(p)
    PROVE  StateOK(proc', cur')
<1>1. At(p, "wait") /\ proc' = [Goto(proc, p, "trap") EXCEPT ![p].opts = {}] /\ cur' = cur
  BY DEF WaitNone, Run
<1>2. cur = p /\ StateOK(proc, p) /\ proc[p].sub = "main" /\ proc[p].pc = "wait"
  BY <1>1, AtFacts
<1>3. PICK opts \in SUBSET {"WUNTRACED", "WNOHANG"} : opts = {}
  OBVIOUS
<1>4. StateOK([Goto(proc, p, "trap") EXCEPT ![p].opts = opts], p)
  BY <1>2, OptsKeepsState
<1> QED BY <1>1, <1>2, <1>3, <1>4

\* All children have been looked at.
LEMMA WaitScannedStep ==
    ASSUME StateOK(proc, cur), NEW p \in Procs, WaitScanned(p)
    PROVE  StateOK(proc', cur')
<1> DEFINE r == proc[p]
           x == GotoRec(r, "waitsleep")
<1>1. /\ At(p, "wait") /\ Reported(p) = {} /\ Children(proc, p) # {}
      /\ proc' = Goto(proc, p, "waitsleep") /\ cur' = cur
  BY DEF WaitScanned, Run
<1>2. /\ cur = p /\ StateOK(proc, p) /\ proc \in [Procs -> Proc] /\ r \in Proc
      /\ r.pc = "wait" /\ r.sub = "main" /\ r.wchan = None
      /\ r.stat = "SRUN" /\ r.rq = FALSE /\ SignalOK(r)
      /\ (ContNotTyped => CONT \notin r.mask)
      /\ PlaceOK(p, r, TRUE) /\ (p = init => InitOK(r))
      /\ PlacesOK(proc, p) /\ KinOK(proc) /\ (p = init => r.cursig = 0)
  BY <1>1, AtFacts
<1>3. x \in Proc /\ Still(r, x) /\ x.pc = "waitsleep" /\ x.sub = "main"
  BY <1>2, GotoFields DEF Places
<1>4. proc' = [proc EXCEPT ![p] = x]
  BY <1>1, <1>2, GotoIs
<1> HIDE DEF x
<1>5. /\ x.stat = "SRUN" /\ x.rq = FALSE /\ x.pptr = r.pptr /\ x.wchan = None
      /\ x.sig = r.sig /\ x.mask = r.mask /\ x.disp = r.disp /\ x.cursig = r.cursig
      /\ x.vfork = r.vfork /\ x.vfdone = r.vfdone /\ x.opts = r.opts
  BY <1>2, <1>3 DEF Still
<1>6. TableOK([proc EXCEPT ![p] = x], p)
  <2>1. SignalOK(x)
    BY <1>2, <1>5, SignalLess
  <2>2. RecordOK(x, TRUE)
    BY <1>2, <1>3, <1>5, <2>1, RunRecord
  <2>3. PICK c, d : c = p /\ d = p
    OBVIOUS
  <2>4. RecordOK(x, p = d) /\ \A q \in Procs \ {p} : q = c <=> q = d
    <3>1. (p = d) = TRUE
      BY <2>3
    <3> QED BY <2>2, <2>3, <3>1
  <2>5. TableOK(proc, c)
    BY <1>2, <2>3 DEF StateOK
  <2>6. TableOK([proc EXCEPT ![p] = x], d)
    BY <1>3, <2>4, <2>5, TableWith
  <2> QED BY <2>3, <2>6
<1>7. PlacesOK([proc EXCEPT ![p] = x], p)
  <2>1. PlaceOK(p, x, TRUE)
    BY <1>2, <1>3, <1>5 DEF PlaceOK
  <2>2. p = init => InitOK(x)
    BY <1>2, <1>3, <1>5 DEF InitOK, Dead
  <2>3. PICK c, d : c = p /\ d = p
    OBVIOUS
  <2>4. PlaceOK(p, x, p = d) /\ \A q \in Procs \ {p} : q = c <=> q = d
    <3>1. (p = d) = TRUE
      BY <2>3
    <3> QED BY <2>1, <2>3, <3>1
  <2>5. PlacesOK(proc, c)
    BY <1>2, <2>3
  <2>6. proc \in [Procs -> Proc] /\ x \in Proc
    BY <1>2, <1>3
  <2>7. PlacesOK([proc EXCEPT ![p] = x], d)
    BY <2>2, <2>4, <2>5, <2>6, PlacesWith
  <2> QED BY <2>3, <2>7
<1>8. KinOK([proc EXCEPT ![p] = x])
  <2>1. r.stat \notin Dead /\ x.stat \notin Dead /\ (Lent(x) <=> Lent(r))
    BY <1>2, <1>3, <1>5 DEF Dead, Lent
  <2>2. /\ \E q \in Procs : proc[q].pptr = p
        /\ \A q \in Procs : proc[q].pptr = p => proc[q].stat # "SZOMB"
    BY <1>1 DEF Reported, Children
  <2>3. {x.pc, r.pc} \cap {"procdup", "vfork"} = {}
    BY <1>2, <1>3
  <2> QED BY <1>2, <1>3, <1>5, <2>1, <2>2, <2>3, KinWith DEF r
<1>9. StopsNotTyped => Told([proc EXCEPT ![p] = x])
  <2>1. NotStopped(r, x)
    BY <1>5 DEF NotStopped
  <2>2. "WUNTRACED" \in x.opts =>
          \A q \in Procs : proc[q].pptr = p /\ proc[q].stat = "SSTOP" => proc[q].swted
    BY <1>1, <1>5 DEF Reported, Children
  <2>3. StopsNotTyped => Told(proc)
    BY <1>2 DEF StateOK
  <2> QED BY <1>2, <1>3, <1>5, <2>1, <2>2, <2>3, ToldWith DEF r
<1>10. StateOK([proc EXCEPT ![p] = x], p)
  BY <1>6, <1>7, <1>8, <1>9 DEF StateOK
<1> QED BY <1>1, <1>2, <1>4, <1>10

LEMMA WaitSleepStep ==
    ASSUME StateOK(proc, cur), NEW p \in Procs, WaitSleep(p)
    PROVE  StateOK(proc', cur')
<1> DEFINE r == proc[p]
           y == GotoRec(r, "wait")
<1>1. At(p, "waitsleep") /\ Sleep(Goto(proc, p, "wait"), p, p, TRUE) /\ p \in Channels
  BY SlotNames DEF WaitSleep
<1>2. /\ cur = p /\ StateOK(proc, p) /\ proc \in [Procs -> Proc] /\ r \in Proc
      /\ r.pc = "waitsleep" /\ r.sub = "main"
  BY <1>1, AtFacts
<1>3. y \in Proc /\ Still(r, y) /\ y.pc = "wait" /\ y.sub = "main"
  BY <1>2, GotoFields DEF Places
<1>4. PICK t : t = Goto(proc, p, "wait")
  OBVIOUS
<1>5. t = [proc EXCEPT ![p] = y]
  BY <1>2, <1>4, GotoIs
<1> HIDE DEF y
<1>6. t \in [Procs -> Proc] /\ t[p] = y /\ \A k \in Procs \ {p} : t[k] = proc[k]
  BY <1>2, <1>3, <1>5
<1>7. Sleep(t, p, p, TRUE)
  BY <1>1, <1>4
<1>8. Same(r, y) /\ Waiting(r)
  BY <1>2, <1>3 DEF Same, Still, Waiting
<1>9. /\ y.disp = r.disp /\ y.mask = r.mask /\ y.sig = r.sig /\ y.child = r.child
      /\ y.opts = r.opts /\ y.cursig = r.cursig /\ y.swted = r.swted
  BY <1>3 DEF Still
<1> HIDE DEF r
<1> QED BY <1>1, <1>2, <1>3, <1>6, <1>7, <1>8, <1>9, SleepStep DEF r

LEMMA FreeFields ==
    /\ Free \in Proc /\ Free.stat = "none" /\ Free.pptr = None /\ Free.pc = "none"
    /\ Free.wchan = None /\ Free.vfork = FALSE /\ Free.vfdone = FALSE
    /\ RecordOK(Free, FALSE) /\ \A p : PlaceOK(p, Free, FALSE)
<1> DEFINE f == Free
<1>1. [s \in Signals |-> "dfl"] \in [Signals -> {"dfl", "ign", "catch"}]
      /\ <<>> \in Seq(Masks) /\ {} \in Masks
  BY DEF Masks
<1>2. /\ f \in Proc /\ f.stat = "none" /\ f.pptr = None /\ f.rq = FALSE /\ f.wchan = None
      /\ f.sig = {} /\ f.mask = {} /\ f.pc = "none" /\ f.sub = "main"
      /\ f.vfork = FALSE /\ f.vfdone = FALSE /\ \A s \in Signals : f.disp[s] = "dfl"
  <2>1. /\ f.stat = "none" /\ f.pptr = None /\ f.rq = FALSE /\ f.wchan = None
        /\ f.sig = {} /\ f.mask = {} /\ f.pc = "none" /\ f.sub = "main"
        /\ f.vfork = FALSE /\ f.vfdone = FALSE /\ f.disp = [s \in Signals |-> "dfl"]
    BY DEF Free
  <2>2. f \in Proc
    BY <1>1 DEF Free, Proc
  <2> QED BY <2>1, <2>2
<1> HIDE DEF f
<1>3. RecordOK(f, FALSE)
  <2>1. QueueOK(f, FALSE)
    BY <1>2 DEF QueueOK
  <2>2. SignalOK(f)
    BY <1>2, SignalNumbers DEF SignalOK
  <2>3. SeenOK(f) /\ StopOK(f)
    BY <1>2 DEF SeenOK, StopOK
  <2> QED BY <2>1, <2>2, <2>3 DEF RecordOK
<1>4. \A p : PlaceOK(p, f, FALSE)
  BY <1>2, SignalNumbers DEF PlaceOK
<1> QED BY <1>2, <1>3, <1>4 DEF f

\* The slot of a zombie is free when its parent has found it.
LEMMA BuryKeepsState ==
    ASSUME NEW t, NEW c, StateOK(t, c), NEW q \in Procs, t[q].stat = "SZOMB",
           NEW p \in Procs, t[q].pptr = p, ~Waiting(t[p]),
           NEW u, u = [t EXCEPT ![q] = Free]
    PROVE  StateOK(u, c)
<1>1. /\ t \in [Procs -> Proc] /\ TableOK(t, c) /\ PlacesOK(t, c) /\ KinOK(t)
      /\ (StopsNotTyped => Told(t)) /\ Free \in Proc
  BY FreeFields DEF StateOK, TableOK
<1>2. q # init /\ (q = c) = FALSE
  <2>1. q # init
    BY <1>1 DEF PlacesOK, InitOK, Dead
  <2>2. q # c
    BY <1>1 DEF TableOK, RecordOK, QueueOK
  <2> QED BY <2>1, <2>2
<1>3. u[q] = Free /\ u \in [Procs -> Proc] /\ \A k \in Procs \ {q} : u[k] = t[k]
  BY <1>1
<1>4. /\ Free.stat = "none" /\ Free.pptr = None /\ Free.pc = "none" /\ Free.wchan = None
      /\ Free.vfork = FALSE
  BY FreeFields
<1>5. RecordOK(Free, q = c) /\ PlaceOK(q, Free, q = c)
  BY <1>2, FreeFields
<1>6. TableOK(u, c)
  <2>1. TableOK([t EXCEPT ![q] = Free], c)
    BY <1>1, <1>5, TableWith
  <2> QED BY <2>1
<1>7. PlacesOK(u, c)
  <2>1. PlacesOK([t EXCEPT ![q] = Free], c)
    BY <1>1, <1>2, <1>5, PlacesWith
  <2> QED BY <2>1
<1>8. \A k \in Procs : /\ t[k].pptr # q /\ t[k].pptr \in Procs \cup {None}
                       /\ Lent(t[k]) => t[k].pptr \in Procs
                       /\ ParentOK(t, k) /\ WaitOK(t, k) /\ LentOK(t, k) /\ ForkOK(t, k)
                       /\ t[k].pc \in {"procdup", "vfork"} => t[k].child \in Procs
  <2> SUFFICES ASSUME NEW k \in Procs
               PROVE  /\ t[k].pptr # q /\ t[k].pptr \in Procs \cup {None}
                      /\ Lent(t[k]) => t[k].pptr \in Procs
                      /\ ParentOK(t, k) /\ WaitOK(t, k) /\ LentOK(t, k) /\ ForkOK(t, k)
                      /\ t[k].pc \in {"procdup", "vfork"} => t[k].child \in Procs
    OBVIOUS
  <2>1. ParentOK(t, k) /\ WaitOK(t, k) /\ LentOK(t, k) /\ ForkOK(t, k)
    BY <1>1 DEF KinOK
  <2>2. /\ t[k].pptr \in Procs \cup {None} /\ (Lent(t[k]) => t[k].pptr \in Procs)
        /\ k # init /\ t[k].stat # "none" => t[t[k].pptr].stat \notin Dead
    BY <1>1, NotOwnParent
  <2>3. k = init \/ t[k].stat = "none" => t[k].pptr = None
    BY <1>1, <2>1 DEF PlacesOK, InitOK, ParentOK
  <2>4. t[k].pptr # q
    BY <2>2, <2>3, SlotNames DEF Dead
  <2>5. t[k].pc \in {"procdup", "vfork"} => t[k].child \in Procs
    BY <1>1 DEF PlacesOK, PlaceOK
  <2> QED BY <2>1, <2>2, <2>4, <2>5
<1>9. KinOK(u)
  <2> SUFFICES ASSUME NEW k \in Procs
               PROVE  ParentOK(u, k) /\ WaitOK(u, k) /\ LentOK(u, k) /\ ForkOK(u, k)
    BY DEF KinOK
  <2>1. CASE k = q
    <3>1. ~Waiting(Free) /\ ~Lent(Free)
      BY <1>4 DEF Waiting, Lent
    <3> QED BY <1>3, <1>4, <2>1, <3>1 DEF ParentOK, WaitOK, LentOK, ForkOK
  <2>2. CASE k # q
    <3>1. u[k] = t[k]
      BY <1>3, <2>2
    <3>2. ParentOK(u, k)
      BY <1>3, <1>8, <3>1 DEF ParentOK
    <3>3. WaitOK(u, k)
      <4> SUFFICES ASSUME Waiting(u[k])
                   PROVE  /\ \E j \in Procs : u[j].pptr = k
                          /\ \A j \in Procs : u[j].pptr = k => u[j].stat # "SZOMB"
        BY DEF WaitOK
      <4>1. k # p
        BY <3>1
      <4>2. /\ \E j \in Procs : t[j].pptr = k
            /\ \A j \in Procs : t[j].pptr = k => t[j].stat # "SZOMB"
        BY <1>8, <3>1 DEF WaitOK
      <4>3. PICK j \in Procs : t[j].pptr = k
        BY <4>2
      <4>4. u[j].pptr = k
        BY <1>3, <4>1, <4>3
      <4>5. \A i \in Procs : u[i].pptr = k => u[i].stat # "SZOMB"
        BY <1>3, <1>4, <4>2
      <4> QED BY <4>4, <4>5
    <3>4. LentOK(u, k)
      BY <1>3, <1>8, <3>1 DEF LentOK
    <3>5. ForkOK(u, k)
      <4>1. t[k].pc \in {"procdup", "vfork"} => t[k].child # q
        BY <1>8 DEF ForkOK
      <4> QED BY <1>3, <1>8, <3>1, <4>1 DEF ForkOK
    <3> QED BY <3>2, <3>3, <3>4, <3>5
  <2> QED BY <2>1, <2>2
<1>10. StopsNotTyped => Told(u)
  <2> SUFFICES ASSUME StopsNotTyped, NEW k \in Procs, NEW j \in Procs, Waiting(u[k]),
                      "WUNTRACED" \in u[k].opts, u[j].pptr = k, u[j].stat = "SSTOP"
               PROVE  u[j].swted
    BY DEF Told
  <2>1. k # q /\ j # q
    BY <1>3, <1>4 DEF Waiting
  <2> QED BY <1>1, <1>3, <2>1 DEF Told
<1> QED BY <1>6, <1>7, <1>9, <1>10 DEF StateOK

LEMMA SwtedFields ==
    ASSUME NEW r \in Proc
    PROVE  LET x == [r EXCEPT !.swted = TRUE]
           IN /\ x \in Proc /\ Fixed(r, x) /\ x.swted = TRUE /\ x.sig = r.sig
              /\ x.wchan = r.wchan /\ x.stat = r.stat /\ x.rq = r.rq /\ x.cursig = r.cursig
<1> DEFINE x == [r EXCEPT !.swted = TRUE]
<1>1. x \in Proc
  BY DEF Proc
<1>2. Fixed(r, x)
  BY DEF Proc, Fixed
<1> QED BY <1>1, <1>2 DEF Proc

\* The parent of a stopped process has been told.
LEMMA TellKeepsState ==
    ASSUME NEW t, NEW c, StateOK(t, c), NEW q \in Procs, t[q].stat = "SSTOP",
           NEW u, u = [t EXCEPT ![q] = [t[q] EXCEPT !.swted = TRUE]]
    PROVE  StateOK(u, c)
<1> DEFINE r == t[q]
           x == [r EXCEPT !.swted = TRUE]
<1>1. /\ t \in [Procs -> Proc] /\ r \in Proc /\ TableOK(t, c) /\ PlacesOK(t, c) /\ KinOK(t)
      /\ (StopsNotTyped => Told(t))
  BY DEF StateOK, TableOK
<1>2. RecordOK(r, q = c) /\ PlaceOK(q, r, q = c) /\ q # init
  BY <1>1 DEF TableOK, PlacesOK, InitOK
<1>3. /\ x \in Proc /\ Fixed(r, x) /\ x.swted = TRUE /\ x.sig = r.sig
      /\ x.wchan = r.wchan /\ x.stat = r.stat /\ x.rq = r.rq /\ x.cursig = r.cursig
  BY <1>1, SwtedFields
<1>4. u = [t EXCEPT ![q] = x]
  OBVIOUS
<1> HIDE DEF x
<1>5. RecordOK(x, q = c)
  <2>1. PICK on \in BOOLEAN : on = (q = c)
    OBVIOUS
  <2>2. RecordOK(r, on)
    BY <1>2, <2>1
  <2> HIDE DEF r
  <2>3. QueueOK(x, on)
    BY <1>3, <2>2 DEF RecordOK, QueueOK, Fixed
  <2>4. SignalOK(x)
    BY <1>3, <2>2, SignalLess DEF RecordOK, Fixed
  <2>5. SeenOK(x)
    BY <1>3, <2>2 DEF RecordOK, SeenOK, Fixed
  <2>6. ContNotTyped => StopOK(x)
    BY <1>3, <2>2 DEF RecordOK, StopOK, Fixed
  <2>7. RecordOK(x, on)
    BY <2>3, <2>4, <2>5, <2>6 DEF RecordOK
  <2> QED BY <2>1, <2>7
<1>6. PlaceOK(q, x, q = c)
  BY <1>2, <1>3 DEF PlaceOK, Fixed
<1>7. TableOK([t EXCEPT ![q] = x], c)
  BY <1>1, <1>3, <1>5, TableWith
<1>8. PlacesOK([t EXCEPT ![q] = x], c)
  BY <1>1, <1>2, <1>3, <1>6, PlacesWith
<1>9. KinOK([t EXCEPT ![q] = x])
  <2>1. x.pptr = r.pptr /\ x.vfork = r.vfork /\ x.pc = r.pc /\ x.child = r.child
    BY <1>3 DEF Fixed
  <2>2. (Lent(x) <=> Lent(r)) /\ (Waiting(x) => Waiting(r))
    BY <1>3 DEF Lent, Waiting, Fixed
  <2>3. r.stat \notin Dead /\ x.stat \notin Dead
    BY <1>3 DEF Dead
  <2>4. x.pc = r.pc /\ x.child = r.child
        /\ (x.pc = "vfork" /\ x.wchan # None => r.wchan # None \/ t[x.child].vfork)
    BY <1>3, <2>1
  <2> QED BY <1>1, <1>3, <2>1, <2>2, <2>3, <2>4, KinWith DEF r
<1>10. StopsNotTyped => Told(u)
  <2>1. u[q] = x /\ \A k \in Procs \ {q} : u[k] = t[k]
    BY <1>1, <1>4
  <2>2. \A k \in Procs : /\ Waiting(u[k]) <=> Waiting(t[k])
                         /\ u[k].opts = t[k].opts /\ u[k].pptr = t[k].pptr
                         /\ u[k].stat = t[k].stat /\ (t[k].swted => u[k].swted)
    BY <1>3, <2>1 DEF Waiting, Fixed
  <2> QED BY <1>1, <2>2 DEF Told
<1> QED BY <1>4, <1>7, <1>8, <1>9, <1>10 DEF StateOK

LEMMA WaitFoundStep ==
    ASSUME StateOK(proc, cur), NEW p \in Procs, WaitFound(p)
    PROVE  StateOK(proc', cur')
<1> DEFINE q == Min(Reported(p))
           r == proc[q]
<1>1. /\ At(p, "wait") /\ Reported(p) # {} /\ cur' = cur
      /\ proc' = [Goto([proc EXCEPT ![q] = IF @.stat = "SZOMB" THEN Free
                                           ELSE [@ EXCEPT !.swted = TRUE]], p, "trap")
                    EXCEPT ![p].opts = {}]
  BY DEF WaitFound, Run
<1>2. /\ cur = p /\ StateOK(proc, p) /\ proc \in [Procs -> Proc] /\ proc[p].sub = "main"
      /\ proc[p].pc = "wait" /\ proc[p].wchan = None /\ PlacesOK(proc, p) /\ KinOK(proc)
  BY <1>1, AtFacts
<1>3. q \in Reported(p)
  <2>1. Reported(p) \subseteq Procs
    BY DEF Reported, Children
  <2>2. Reported(p) \in SUBSET Int /\ IsFiniteSet(Reported(p))
    BY <2>1, SlotNames, FS_Subset
  <2> QED BY <1>1, <2>2, MinIn
<1>4. q \in Procs /\ r.pptr = p /\ r.stat \in {"SZOMB", "SSTOP"} /\ q # p
  <2>1. q \in Procs /\ r.pptr = p /\ r.stat \in {"SZOMB", "SSTOP"}
    BY <1>3 DEF Reported, Children
  <2>2. r.pptr # q
    BY <1>2, <2>1, NotOwnParent
  <2> QED BY <2>1, <2>2
<1>5. PICK t : t = [proc EXCEPT ![q] = IF @.stat = "SZOMB" THEN Free
                                       ELSE [@ EXCEPT !.swted = TRUE]]
  OBVIOUS
<1> HIDE DEF q
<1>6. ~Waiting(proc[p])
  BY <1>2 DEF Waiting
<1>7. StateOK(t, p)
  <2>1. CASE r.stat = "SZOMB"
    <3>1. t = [proc EXCEPT ![q] = Free]
      BY <1>2, <1>4, <1>5, <2>1
    <3> QED BY <1>2, <1>4, <1>6, <2>1, <3>1, BuryKeepsState
  <2>2. CASE r.stat = "SSTOP"
    <3>1. t = [proc EXCEPT ![q] = [proc[q] EXCEPT !.swted = TRUE]]
      BY <1>2, <1>4, <1>5, <2>2
    <3> QED BY <1>2, <1>4, <2>2, <3>1, TellKeepsState
  <2> QED BY <1>4, <2>1, <2>2
<1>8. t[p] = proc[p]
  BY <1>2, <1>4, <1>5
<1>9. PICK opts \in SUBSET {"WUNTRACED", "WNOHANG"} : opts = {}
  OBVIOUS
<1>10. StateOK([Goto(t, p, "trap") EXCEPT ![p].opts = opts], p)
  BY <1>2, <1>7, <1>8, OptsKeepsState
<1>11. proc' = [Goto(t, p, "trap") EXCEPT ![p].opts = opts]
  BY <1>1, <1>5, <1>9 DEF q
<1> QED BY <1>1, <1>2, <1>10, <1>11

------------------------------------------------------------------------------
(* fork and vfork. *)

\* Parent and child get new records.
LEMMA TwoRecords ==
    ASSUME NEW t, NEW p \in Procs, NEW c \in Procs, p # c, c # init,
           TableOK(t, p), PlacesOK(t, p),
           NEW u \in [Procs -> Proc], \A k \in Procs \ {p, c} : u[k] = t[k],
           RecordOK(u[p], TRUE), RecordOK(u[c], FALSE),
           PlaceOK(p, u[p], TRUE), PlaceOK(c, u[c], FALSE), p = init => InitOK(u[p])
    PROVE  TableOK(u, p) /\ PlacesOK(u, p)
<1>1. ASSUME NEW k \in Procs
      PROVE  RecordOK(u[k], k = p) /\ PlaceOK(k, u[k], k = p)
  <2>1. CASE k = p
    <3>1. (k = p) = TRUE
      BY <2>1
    <3> QED BY <2>1, <3>1
  <2>2. CASE k = c
    <3>1. (k = p) = FALSE
      BY <2>2
    <3> QED BY <2>2, <3>1
  <2>3. CASE k \notin {p, c}
    <3>1. u[k] = t[k]
      BY <2>3
    <3> QED BY <3>1 DEF TableOK, PlacesOK
  <2> QED BY <2>1, <2>2, <2>3
<1>2. InitOK(u[init])
  BY SlotNames DEF PlacesOK
<1> QED BY <1>1, <1>2 DEF TableOK, PlacesOK

\* The record x of a new child of p, and the record y of p, which was r.
Born(r, p, x) ==
    /\ x \in Proc /\ x.stat = "SIDL" /\ x.pptr = p /\ x.pc = "user" /\ x.sub = "main"
    /\ x.wchan = None /\ ~x.rq /\ x.sig = {} /\ x.mask = r.mask /\ x.disp = r.disp
    /\ ~x.vfdone
Bears(r, c, y) ==
    /\ y \in Proc /\ Same(r, y) /\ y.wchan = None /\ y.sig = r.sig /\ y.mask = r.mask
    /\ y.disp = r.disp /\ y.cursig = r.cursig /\ y.sub = "main" /\ y.pc = "procdup"
    /\ y.child = c

\* A process that runs makes a child in a free slot.
LEMMA BirthKeepsState ==
    ASSUME NEW t, NEW p \in Procs, StateOK(t, p), t[p].pc = "user", t[p].sub = "main",
           NEW c \in Procs, t[c].stat = "none",
           NEW u \in [Procs -> Proc], \A k \in Procs \ {p, c} : u[k] = t[k],
           NEW y, u[p] = y, Bears(t[p], c, y), NEW x, u[c] = x, Born(t[p], p, x)
    PROVE  StateOK(u, p)
<1> DEFINE r == t[p]
<1>1. /\ t \in [Procs -> Proc] /\ r \in Proc /\ r.stat = "SRUN" /\ r.rq = FALSE
      /\ r.wchan = None /\ SignalOK(r) /\ (ContNotTyped => CONT \notin r.mask)
      /\ PlaceOK(p, r, TRUE) /\ PlacesOK(t, p) /\ KinOK(t) /\ (p = init => InitOK(r))
      /\ TableOK(t, p) /\ (StopsNotTyped => Told(t))
  <2>1. TableOK(t, p) /\ (StopsNotTyped => Told(t))
    BY DEF StateOK
  <2> QED BY <2>1, OnFacts
<1>2. y \in Proc /\ x \in Proc /\ c # p /\ c # init /\ r.disp[KILL] # "ign"
      /\ (p = init => r.cursig = 0)
  <2>1. y \in Proc /\ x \in Proc /\ c # p
    BY <1>1
  <2>2. c # init
    BY <1>1 DEF PlacesOK, InitOK, Dead
  <2>3. r.disp[KILL] # "ign" /\ (p = init => r.cursig = 0)
    BY <1>1 DEF PlaceOK, InitOK
  <2> QED BY <2>1, <2>2, <2>3
<1>3. /\ y.stat = "SRUN" /\ y.rq = FALSE /\ y.pptr = r.pptr /\ y.vfork = r.vfork
      /\ y.vfdone = r.vfdone /\ y.wchan = None /\ y.sig = r.sig /\ y.mask = r.mask
      /\ y.disp = r.disp /\ y.cursig = r.cursig /\ y.sub = "main" /\ y.pc = "procdup"
      /\ y.child = c
  BY <1>1 DEF Same, Bears
<1>4. /\ x.stat = "SIDL" /\ x.pptr = p /\ x.pc = "user" /\ x.sub = "main"
      /\ x.wchan = None /\ ~x.rq /\ x.sig = {} /\ x.mask = r.mask /\ x.disp = r.disp
      /\ ~x.vfdone
  BY DEF Born
<1>5. RecordOK(y, TRUE) /\ PlaceOK(p, y, TRUE) /\ (p = init => InitOK(y))
  <2>1. SignalOK(y)
    BY <1>3, <1>4, <1>1, SignalLess
  <2>2. RecordOK(y, TRUE)
    BY <1>4, <1>1, <1>2, <1>3, <2>1, RunRecord
  <2>3. PlaceOK(p, y, TRUE)
    BY <1>4, <1>1, <1>2, <1>3 DEF PlaceOK
  <2>4. p = init => InitOK(y)
    BY <1>4, <1>1, <1>2, <1>3 DEF InitOK, Dead
  <2> QED BY <1>3, <1>4, <2>2, <2>3, <2>4
<1>6. RecordOK(x, FALSE) /\ PlaceOK(c, x, FALSE)
  <2>1. QueueOK(x, FALSE)
    BY <1>3, <1>4 DEF QueueOK
  <2>2. SignalOK(x)
    BY <1>3, <1>4, <1>1 DEF SignalOK
  <2>3. SeenOK(x)
    BY <1>3, <1>4 DEF SeenOK
  <2>4. ContNotTyped => StopOK(x)
    BY <1>3, <1>4, <1>1 DEF StopOK
  <2>5. PlaceOK(c, x, FALSE)
    BY <1>3, <1>4, <1>2 DEF PlaceOK
  <2> QED BY <1>3, <1>4, <2>1, <2>2, <2>3, <2>4, <2>5 DEF RecordOK
<1>7. TableOK(u, p) /\ PlacesOK(u, p)
  BY <1>3, <1>4, <1>1, <1>2, <1>5, <1>6, TwoRecords
<1>8. \A k \in Procs : /\ t[k].pptr # c /\ t[k].pptr # k /\ t[k].pptr \in Procs \cup {None}
                       /\ Lent(t[k]) => t[k].pptr \in Procs
                       /\ ParentOK(t, k) /\ WaitOK(t, k) /\ LentOK(t, k) /\ ForkOK(t, k)
                       /\ t[k].pc \in {"procdup", "vfork"} => t[k].child \in Procs
  <2> SUFFICES ASSUME NEW k \in Procs
               PROVE  /\ t[k].pptr # c /\ t[k].pptr # k /\ t[k].pptr \in Procs \cup {None}
                      /\ Lent(t[k]) => t[k].pptr \in Procs
                      /\ ParentOK(t, k) /\ WaitOK(t, k) /\ LentOK(t, k) /\ ForkOK(t, k)
                      /\ t[k].pc \in {"procdup", "vfork"} => t[k].child \in Procs
    OBVIOUS
  <2>1. ParentOK(t, k) /\ WaitOK(t, k) /\ LentOK(t, k) /\ ForkOK(t, k)
    BY <1>3, <1>4, <1>1 DEF KinOK
  <2>2. /\ t[k].pptr # k /\ t[k].pptr \in Procs \cup {None}
        /\ (Lent(t[k]) => t[k].pptr \in Procs)
        /\ k # init /\ t[k].stat # "none" => t[t[k].pptr].stat \notin Dead
    BY <1>3, <1>4, <1>1, NotOwnParent
  <2>3. k = init \/ t[k].stat = "none" => t[k].pptr = None
    BY <1>3, <1>4, <1>1, <2>1 DEF PlacesOK, InitOK, ParentOK
  <2>4. t[k].pptr # c
    BY <1>3, <1>4, <2>2, <2>3, SlotNames DEF Dead
  <2>5. t[k].pc \in {"procdup", "vfork"} => t[k].child \in Procs
    BY <1>3, <1>4, <1>1 DEF PlacesOK, PlaceOK
  <2> QED BY <1>3, <1>4, <2>1, <2>2, <2>4, <2>5
<1>9. KinOK(u)
  <2> SUFFICES ASSUME NEW k \in Procs
               PROVE  ParentOK(u, k) /\ WaitOK(u, k) /\ LentOK(u, k) /\ ForkOK(u, k)
    BY <1>3, <1>4 DEF KinOK
  <2>1. CASE k = c
    <3>1. ParentOK(u, k)
      BY <1>4, <1>2, <1>3, <2>1 DEF ParentOK, Dead
    <3>2. WaitOK(u, k) /\ ForkOK(u, k)
      BY <1>3, <1>4, <2>1 DEF WaitOK, Waiting, ForkOK
    <3>3. LentOK(u, k)
      BY <1>3, <1>4, <2>1 DEF LentOK
    <3> QED BY <1>3, <1>4, <3>1, <3>2, <3>3
  <2>2. CASE k = p
    <3>1. ParentOK(u, k)
      BY <1>4, <1>1, <1>3, <1>8, <2>2 DEF ParentOK
    <3>2. WaitOK(u, k) /\ ForkOK(u, k)
      BY <1>3, <1>4, <1>2, <2>2 DEF WaitOK, Waiting, ForkOK
    <3>3. LentOK(u, k)
      <4>1. Lent(y) <=> Lent(r)
        BY <1>4, <1>3 DEF Lent
      <4>2. Lent(r) => /\ r.pptr \in Procs \ {p, c} /\ t[r.pptr].pc \in {"procdup", "vfork"}
                       /\ t[r.pptr].child = p
        BY <1>3, <1>4, <1>8 DEF LentOK
      <4> QED BY <1>4, <1>3, <2>2, <4>1, <4>2 DEF LentOK
    <3> QED BY <1>3, <1>4, <3>1, <3>2, <3>3
  <2>3. CASE k \notin {p, c}
    <3>1. u[k] = t[k]
      BY <1>3, <1>4, <2>3
    <3>2. ParentOK(u, k)
      <4>1. CASE t[k].stat = "none" \/ k = init
        BY <1>3, <1>4, <1>8, <3>1, <4>1 DEF ParentOK
      <4>2. CASE t[k].stat # "none" /\ k # init
        <5>1. t[k].pptr \in Procs \ {k} /\ t[t[k].pptr].stat \notin Dead /\ t[k].pptr # c
          BY <1>3, <1>4, <1>8, <4>2 DEF ParentOK
        <5>2. u[t[k].pptr].stat \notin Dead
          <6>1. CASE t[k].pptr = p
            BY <1>4, <1>3, <6>1 DEF Dead
          <6>2. CASE t[k].pptr # p
            BY <1>3, <1>4, <5>1, <6>2
          <6> QED BY <1>3, <1>4, <6>1, <6>2
        <5> QED BY <1>3, <1>4, <3>1, <4>2, <5>1, <5>2 DEF ParentOK
      <4> QED BY <1>3, <1>4, <4>1, <4>2
    <3>3. WaitOK(u, k)
      <4> SUFFICES ASSUME Waiting(u[k])
                   PROVE  /\ \E j \in Procs : u[j].pptr = k
                          /\ \A j \in Procs : u[j].pptr = k => u[j].stat # "SZOMB"
        BY <1>3, <1>4 DEF WaitOK
      <4>1. /\ \E j \in Procs : t[j].pptr = k
            /\ \A j \in Procs : t[j].pptr = k => t[j].stat # "SZOMB"
        BY <1>3, <1>4, <1>8, <3>1 DEF WaitOK
      <4>2. PICK j \in Procs : t[j].pptr = k
        BY <1>3, <1>4, <4>1
      <4>3. t[c].pptr = None
        BY <1>3, <1>4, <1>8 DEF ParentOK
      <4>4. j # c
        BY <1>3, <1>4, <4>2, <4>3, SlotNames
      <4>5. u[j].pptr = k
        BY <1>4, <1>3, <4>2, <4>4
      <4>6. \A i \in Procs : u[i].pptr = k => u[i].stat # "SZOMB"
        BY <1>4, <1>3, <2>3, <4>1
      <4> QED BY <1>3, <1>4, <4>5, <4>6
    <3>4. LentOK(u, k)
      <4> SUFFICES ASSUME Lent(u[k])
                   PROVE  u[u[k].pptr].pc \in {"procdup", "vfork"} /\ u[u[k].pptr].child = k
        BY <1>3, <1>4 DEF LentOK
      <4>1. /\ t[k].pptr \in Procs /\ t[k].pptr # c
            /\ t[t[k].pptr].pc \in {"procdup", "vfork"} /\ t[t[k].pptr].child = k
        BY <1>3, <1>4, <1>8, <3>1 DEF LentOK
      <4>2. t[k].pptr # p
        BY <1>3, <1>4, <4>1
      <4> QED BY <1>3, <1>4, <3>1, <4>1, <4>2
    <3>5. ForkOK(u, k)
      <4> SUFFICES ASSUME t[k].pc \in {"procdup", "vfork"}
                   PROVE  ForkOK(u, k)
        BY <1>3, <1>4, <3>1 DEF ForkOK
      <4>1. PICK d \in Procs : d = t[k].child
        BY <1>3, <1>4, <1>8
      <4>2. /\ t[d].pptr = k
            /\ t[k].pc = "procdup" => t[d].stat = "SIDL"
            /\ t[k].pc = "vfork" => /\ t[d].stat \notin {"none", "SZOMB"} /\ Lent(t[d])
                                    /\ t[k].wchan # None => t[d].vfork
        BY <1>3, <1>4, <1>8, <4>1 DEF ForkOK
      <4>3. d # c
        BY <1>3, <1>4, <4>2
      <4>4. Lent(y) <=> Lent(r)
        BY <1>4, <1>3 DEF Lent
      <4>5. /\ u[d].pptr = t[d].pptr /\ u[d].stat = t[d].stat /\ u[d].vfork = t[d].vfork
            /\ Lent(u[d]) <=> Lent(t[d])
        <5>1. CASE d = p
          BY <1>4, <1>1, <1>3, <4>4, <5>1
        <5>2. CASE d # p
          BY <1>3, <1>4, <4>3, <5>2
        <5> QED BY <1>3, <1>4, <5>1, <5>2
      <4> QED BY <1>3, <1>4, <3>1, <4>1, <4>2, <4>5 DEF ForkOK
    <3> QED BY <1>3, <1>4, <3>2, <3>3, <3>4, <3>5
  <2> QED BY <1>3, <1>4, <2>1, <2>2, <2>3
<1>10. StopsNotTyped => Told(u)
  <2> SUFFICES ASSUME StopsNotTyped, NEW k \in Procs, NEW j \in Procs, Waiting(u[k]),
                      "WUNTRACED" \in u[k].opts, u[j].pptr = k, u[j].stat = "SSTOP"
               PROVE  u[j].swted
    BY <1>3, <1>4 DEF Told
  <2>1. k \notin {p, c} /\ j \notin {p, c}
    BY <1>4, <1>3 DEF Waiting
  <2> QED BY <1>3, <1>4, <1>1, <2>1 DEF Told
<1> QED BY <1>3, <1>4, <1>7, <1>9, <1>10 DEF StateOK

\* What fork1 gives the child.
BirthRec(r, p, isvfork) ==
    [Free EXCEPT !.stat = "SIDL", !.pptr = p, !.mask = r.mask, !.disp = r.disp,
                 !.frames = r.frames, !.vfork = isvfork, !.pc = "user"]

LEMMA BirthUpdates ==
    ASSUME NEW r \in Proc
    PROVE  /\ [r EXCEPT !.pc = "user"] \in Proc
           /\ \A p \in Procs, m \in Masks : [r EXCEPT !.stat = "SIDL", !.pptr = p, !.mask = m] \in Proc
           /\ \A d \in [Signals -> {"dfl", "ign", "catch"}] : [r EXCEPT !.disp = d] \in Proc
           /\ \A f \in Seq(Masks) : [r EXCEPT !.frames = f] \in Proc
           /\ \A b \in BOOLEAN : [r EXCEPT !.vfork = b] \in Proc
<1>1. [r EXCEPT !.pc = "user"] \in Proc
  BY DEF Proc
<1>2. ASSUME NEW p \in Procs, NEW m \in Masks
      PROVE  [r EXCEPT !.stat = "SIDL", !.pptr = p, !.mask = m] \in Proc
  BY ZenonT(60) DEF Proc
<1>3. ASSUME NEW d \in [Signals -> {"dfl", "ign", "catch"}]
      PROVE  [r EXCEPT !.disp = d] \in Proc
  BY DEF Proc
<1>4. ASSUME NEW f \in Seq(Masks)
      PROVE  [r EXCEPT !.frames = f] \in Proc
  BY DEF Proc
<1>5. ASSUME NEW b \in BOOLEAN
      PROVE  [r EXCEPT !.vfork = b] \in Proc
  BY DEF Proc
<1> QED BY <1>1, <1>2, <1>3, <1>4, <1>5

LEMMA BirthFields ==
    ASSUME NEW r \in Proc, NEW p \in Procs, NEW isvfork \in BOOLEAN,
           NEW x, x = BirthRec(r, p, isvfork)
    PROVE  Born(r, p, x)
<1>1. /\ r.mask \in Masks /\ r.disp \in [Signals -> {"dfl", "ign", "catch"}]
      /\ r.frames \in Seq(Masks)
  BY DEF Proc
<1>2. PICK mask, disp, frames : mask = r.mask /\ disp = r.disp /\ frames = r.frames
  OBVIOUS
<1>3. x = [Free EXCEPT !.stat = "SIDL", !.pptr = p, !.mask = mask, !.disp = disp,
                       !.frames = frames, !.vfork = isvfork, !.pc = "user"]
  BY <1>2 DEF BirthRec
<1>4. /\ x.stat = "SIDL" /\ x.pptr = p /\ x.pc = "user"
      /\ x.sub = "main" /\ x.wchan = None /\ x.rq = FALSE /\ x.sig = {}
      /\ x.mask = mask /\ x.disp = disp /\ x.vfdone = FALSE
  BY <1>3 DEF Free
<1> DEFINE a == [[Free EXCEPT !.pc = "user"] EXCEPT !.stat = "SIDL", !.pptr = p, !.mask = mask]
           b == [a EXCEPT !.disp = disp]
           e == [b EXCEPT !.frames = frames]
           d == [e EXCEPT !.vfork = isvfork]
<1>5. x \in Proc
  <2>1. mask \in Masks /\ disp \in [Signals -> {"dfl", "ign", "catch"}] /\ frames \in Seq(Masks)
    BY <1>1, <1>2
  <2>2. x = d
    BY <1>3, FreeFields DEF Proc
  <2> DEFINE g == [Free EXCEPT !.pc = "user"]
  <2>3. g \in Proc
    BY FreeFields, BirthUpdates
  <2> HIDE DEF g
  <2>4. a \in Proc
    BY <2>1, <2>3, BirthUpdates DEF g
  <2> HIDE DEF a
  <2>5. b \in Proc
    BY <2>1, <2>4, BirthUpdates
  <2> HIDE DEF b
  <2>6. e \in Proc
    BY <2>1, <2>5, BirthUpdates
  <2> HIDE DEF e
  <2>7. d \in Proc
    BY <2>6, BirthUpdates
  <2> QED BY <2>2, <2>7
<1> QED BY <1>2, <1>4, <1>5 DEF Born

LEMMA ChildFields ==
    ASSUME NEW r \in Proc, NEW c \in Procs \cup {None}
    PROVE  LET z == [r EXCEPT !.child = c]
           IN /\ z \in Proc /\ Same(r, z) /\ z.wchan = r.wchan /\ z.sig = r.sig
              /\ z.mask = r.mask /\ z.disp = r.disp /\ z.cursig = r.cursig
              /\ z.sub = r.sub /\ z.pc = r.pc /\ z.child = c
<1> DEFINE z == [r EXCEPT !.child = c]
<1>1. z \in Proc
  BY DEF Proc
<1>2. Same(r, z)
  BY DEF Proc, Same
<1> QED BY <1>1, <1>2 DEF Proc

LEMMA NewProcStep ==
    ASSUME StateOK(proc, cur), NEW p \in Procs, NEW isvfork \in BOOLEAN, NewProc(p, isvfork)
    PROVE  StateOK(proc', cur')
<1> DEFINE r == proc[p]
           c == Min(Slots)
           z == [r EXCEPT !.child = c]
           y == [z EXCEPT !.pc = "procdup"]
<1>1. /\ At(p, "user") /\ Slots # {} /\ cur' = cur
      /\ proc' = [proc EXCEPT ![c] = BirthRec(r, p, isvfork), ![p].child = c,
                              ![p].pc = "procdup"]
  BY DEF NewProc, Calls, Run, BirthRec
<1>2. /\ cur = p /\ StateOK(proc, p) /\ proc \in [Procs -> Proc] /\ r \in Proc
      /\ r.pc = "user" /\ r.sub = "main" /\ r.wchan = None /\ r.stat = "SRUN"
  BY <1>1, AtFacts
<1>3. c \in Procs /\ proc[c].stat = "none" /\ c # p
  <2>1. Slots \subseteq Procs
    BY DEF Slots
  <2>2. Slots \in SUBSET Int /\ IsFiniteSet(Slots)
    BY <2>1, SlotNames, FS_Subset
  <2>3. c \in Slots
    BY <1>1, <2>2, MinIn
  <2> QED BY <1>2, <2>3 DEF Slots
<1> HIDE DEF c
<1>4. PICK x : x = BirthRec(r, p, isvfork)
  OBVIOUS
<1>5. Born(r, p, x)
  <2>1. r \in Proc
    BY <1>2
  <2> HIDE DEF r
  <2> QED BY <1>4, <2>1, BirthFields
<1>6. /\ z \in Proc /\ Same(r, z) /\ z.wchan = r.wchan /\ z.sig = r.sig /\ z.mask = r.mask
      /\ z.disp = r.disp /\ z.cursig = r.cursig /\ z.sub = r.sub /\ z.child = c
  BY <1>2, <1>3, ChildFields
<1>7. proc' = [[proc EXCEPT ![c] = x] EXCEPT ![p] = y]
  <2>1. PICK g : g = [proc EXCEPT ![c] = x]
    OBVIOUS
  <2>2. g \in [Procs -> Proc] /\ g[p] = r
    BY <1>2, <1>3, <1>5, <2>1 DEF Born
  <2>3. proc' = [g EXCEPT ![p].child = c, ![p].pc = "procdup"]
    BY <1>4, <1>1, <2>1
  <2>4. proc' = [g EXCEPT ![p] = y]
    BY <2>2, <2>3
  <2> QED BY <2>1, <2>4
<1> HIDE DEF z
<1>8. /\ y \in Proc /\ Same(z, y) /\ y.wchan = z.wchan /\ y.sig = z.sig /\ y.mask = z.mask
      /\ y.disp = z.disp /\ y.cursig = z.cursig /\ y.sub = z.sub /\ y.child = z.child
      /\ y.pc = "procdup"
  <2>1. y \in Proc
    BY <1>6 DEF Proc
  <2>2. Same(z, y)
    BY <1>6 DEF Proc, Same
  <2> QED BY <1>6, <2>1, <2>2 DEF Proc
<1> HIDE DEF y
<1>9. PICK u : u = proc'
  OBVIOUS
<1>10. u \in [Procs -> Proc] /\ u[p] = y /\ u[c] = x
      /\ \A k \in Procs \ {p, c} : u[k] = proc[k]
  <2>1. x \in Proc
    BY <1>5 DEF Born
  <2> QED BY <1>2, <1>3, <1>7, <1>8, <1>9, <2>1
<1>11. Bears(r, c, y)
  <2>1. Same(r, y)
    BY <1>6, <1>8 DEF Same
  <2> QED BY <1>2, <1>6, <1>8, <2>1 DEF Bears
<1>12. StateOK(u, p)
  <2>1. StateOK(proc, p) /\ proc[p].pc = "user" /\ proc[p].sub = "main"
    BY <1>2
  <2> HIDE DEF r
  <2>2. r = proc[p]
    BY DEF r
  <2> QED BY <1>3, <1>5, <1>8, <1>10, <1>11, <2>1, <2>2, BirthKeepsState
<1> QED BY <1>1, <1>2, <1>9, <1>12

\* Parent and child go on in the next stage of fork or vfork.
Pair(t, p, c, y, x) ==
    /\ y.pptr = t[p].pptr /\ y.stat = t[p].stat /\ y.vfork = t[p].vfork /\ y.wchan = None
    /\ y.pc \in {"vfork", "trap"} /\ y.child \in {c, None} /\ (y.pc = "vfork" => y.child = c)
    /\ x.pptr = p /\ x.pc = t[c].pc /\ x.pc \notin {"procdup", "vfork"} /\ ~Waiting(x)
    /\ t[c].stat \notin {"none", "SZOMB"} /\ x.stat \notin {"none", "SZOMB"}
    /\ (t[c].stat \notin Dead => x.stat \notin Dead) /\ NotStopped(t[c], x)
    /\ Lent(x) <=> y.pc = "vfork"

LEMMA PairKeepsState ==
    ASSUME NEW t, NEW p \in Procs, StateOK(t, p), NEW c \in Procs, p # c,
           t[p].pc \in {"procdup", "vfork"}, t[p].child = c, t[c].pptr = p,
           NEW u \in [Procs -> Proc], \A k \in Procs \ {p, c} : u[k] = t[k],
           NEW y, u[p] = y, NEW x, u[c] = x, Pair(t, p, c, y, x),
           RecordOK(y, TRUE), RecordOK(x, FALSE),
           PlaceOK(p, y, TRUE), PlaceOK(c, x, FALSE), p = init => InitOK(y)
    PROVE  StateOK(u, p)
<1>1. /\ t \in [Procs -> Proc] /\ PlacesOK(t, p) /\ KinOK(t) /\ t[p].stat = "SRUN"
      /\ TableOK(t, p) /\ (StopsNotTyped => Told(t))
  <2>1. TableOK(t, p) /\ (StopsNotTyped => Told(t))
    BY DEF StateOK
  <2> QED BY <2>1, OnFacts
<1>2. c # init
  BY <1>1, SlotNames DEF PlacesOK, InitOK
<1>3. TableOK(u, p) /\ PlacesOK(u, p)
  BY <1>1, <1>2, TwoRecords
<1>4. /\ y.pptr = t[p].pptr /\ y.stat = "SRUN" /\ y.vfork = t[p].vfork /\ y.wchan = None
      /\ y.pc \in {"vfork", "trap"} /\ (y.pc = "vfork" => y.child = c)
  BY <1>1 DEF Pair
<1>5. /\ x.pptr = p /\ x.pc = t[c].pc /\ x.pc \notin {"procdup", "vfork"} /\ ~Waiting(x)
      /\ t[c].stat \notin {"none", "SZOMB"} /\ x.stat \notin {"none", "SZOMB"}
      /\ (t[c].stat \notin Dead => x.stat \notin Dead) /\ NotStopped(t[c], x)
      /\ (Lent(x) <=> y.pc = "vfork")
  BY DEF Pair
<1>6. \A k \in Procs : /\ t[k].pptr # k /\ t[k].pptr \in Procs \cup {None}
                       /\ Lent(t[k]) => t[k].pptr \in Procs
                       /\ ParentOK(t, k) /\ WaitOK(t, k) /\ LentOK(t, k) /\ ForkOK(t, k)
                       /\ t[k].pc \in {"procdup", "vfork"} => t[k].child \in Procs
  <2>1. TAKE k \in Procs
  <2>2. /\ t[k].pptr # k /\ t[k].pptr \in Procs \cup {None}
        /\ Lent(t[k]) => t[k].pptr \in Procs
    BY <1>1, NotOwnParent
  <2>3. ParentOK(t, k) /\ WaitOK(t, k) /\ LentOK(t, k) /\ ForkOK(t, k)
    BY <1>1 DEF KinOK
  <2>4. PlaceOK(k, t[k], k = p)
    BY <1>1 DEF PlacesOK
  <2>5. t[k].pc \in {"procdup", "vfork"} => t[k].child \in Procs
    BY <2>4 DEF PlaceOK
  <2> QED BY <2>2, <2>3, <2>5
<1>7. \A k \in Procs : /\ u[k].pptr = t[k].pptr
                       /\ u[k].stat = "none" <=> t[k].stat = "none"
                       /\ u[k].stat = "SZOMB" <=> t[k].stat = "SZOMB"
                       /\ t[k].stat \notin Dead => u[k].stat \notin Dead
  BY <1>1, <1>4, <1>5 DEF Dead
<1>8. ~Waiting(y) /\ (Lent(y) <=> Lent(t[p]))
  BY <1>4 DEF Waiting, Lent
<1>9. KinOK(u)
  <2> SUFFICES ASSUME NEW k \in Procs
               PROVE  ParentOK(u, k) /\ WaitOK(u, k) /\ LentOK(u, k) /\ ForkOK(u, k)
    BY DEF KinOK
  <2>1. ParentOK(u, k)
    <3>1. CASE t[k].stat = "none" \/ k = init
      BY <1>6, <1>7, <3>1 DEF ParentOK
    <3>2. CASE t[k].stat # "none" /\ k # init
      <4>1. t[k].pptr \in Procs \ {k} /\ t[t[k].pptr].stat \notin Dead
        BY <1>6, <3>2 DEF ParentOK
      <4>2. u[k].pptr = t[k].pptr /\ u[t[k].pptr].stat \notin Dead
        BY <1>7, <4>1
      <4> QED BY <1>7, <3>2, <4>1, <4>2 DEF ParentOK
    <3> QED BY <3>1, <3>2
  <2>2. WaitOK(u, k)
    <3> SUFFICES ASSUME Waiting(u[k])
                 PROVE  /\ \E j \in Procs : u[j].pptr = k
                        /\ \A j \in Procs : u[j].pptr = k => u[j].stat # "SZOMB"
      BY DEF WaitOK
    <3>1. k \notin {p, c}
      BY <1>5, <1>8
    <3>2. u[k] = t[k]
      BY <3>1
    <3> QED BY <1>6, <1>7, <3>2 DEF WaitOK
  <2>3. LentOK(u, k)
    <3>1. CASE k = c
      BY <1>4, <1>5, <3>1 DEF LentOK
    <3>2. CASE k # c
      <4> SUFFICES ASSUME Lent(u[k])
                   PROVE  u[u[k].pptr].pc \in {"procdup", "vfork"} /\ u[u[k].pptr].child = k
        BY DEF LentOK
      <4>1. Lent(t[k])
        BY <1>8, <3>2
      <4>2. PICK j \in Procs : j = t[k].pptr
        BY <1>6, <4>1
      <4>3. t[j].pc \in {"procdup", "vfork"} /\ t[j].child = k
        BY <1>6, <4>1, <4>2 DEF LentOK
      <4>4. j \notin {p, c}
        BY <1>5, <3>2, <4>3
      <4> QED BY <1>7, <4>2, <4>3, <4>4
    <3> QED BY <3>1, <3>2
  <2>4. ForkOK(u, k)
    <3>1. CASE k = p
      BY <1>4, <1>5, <3>1 DEF ForkOK
    <3>2. CASE k = c
      BY <1>5, <3>2 DEF ForkOK
    <3>3. CASE k \notin {p, c}
      <4>1. u[k] = t[k]
        BY <3>3
      <4> SUFFICES ASSUME t[k].pc \in {"procdup", "vfork"}
                   PROVE  ForkOK(u, k)
        BY <4>1 DEF ForkOK
      <4>2. PICK d \in Procs : d = t[k].child
        BY <1>6
      <4>3. /\ t[d].pptr = k
            /\ t[k].pc = "procdup" => t[d].stat = "SIDL"
            /\ t[k].pc = "vfork" => /\ t[d].stat \notin {"none", "SZOMB"} /\ Lent(t[d])
                                    /\ t[k].wchan # None => t[d].vfork
        BY <1>6, <4>2 DEF ForkOK
      <4>4. d # c
        BY <3>3, <4>3
      <4>5. /\ u[d].pptr = t[d].pptr /\ u[d].stat = t[d].stat /\ u[d].vfork = t[d].vfork
            /\ Lent(u[d]) <=> Lent(t[d])
        <5>1. CASE d = p
          BY <1>1, <1>4, <1>8, <5>1
        <5>2. CASE d # p
          BY <4>4, <5>2
        <5> QED BY <5>1, <5>2
      <4> QED BY <4>1, <4>2, <4>3, <4>5 DEF ForkOK
    <3> QED BY <3>1, <3>2, <3>3
  <2> QED BY <2>1, <2>2, <2>3, <2>4
<1>10. StopsNotTyped => Told(u)
  <2> SUFFICES ASSUME StopsNotTyped, NEW k \in Procs, NEW j \in Procs, Waiting(u[k]),
                      "WUNTRACED" \in u[k].opts, u[j].pptr = k, u[j].stat = "SSTOP"
               PROVE  u[j].swted
    BY DEF Told
  <2>1. k \notin {p, c}
    BY <1>5, <1>8
  <2>2. j \notin {p, c}
    BY <1>4, <1>5, <2>1
  <2> QED BY <1>1, <2>1, <2>2 DEF Told
<1> QED BY <1>3, <1>9, <1>10 DEF StateOK

\* The parent goes on without its child.
TrapRec(r) == [GotoRec(r, "trap") EXCEPT !.child = None]

LEMMA TrapFields ==
    ASSUME NEW r \in Proc, NEW y, y = TrapRec(r) \/ y = GotoRec(r, "vfork")
    PROVE  /\ y \in Proc /\ Same(r, y) /\ y.wchan = r.wchan /\ y.sig = r.sig
           /\ y.mask = r.mask /\ y.disp = r.disp /\ y.cursig = r.cursig /\ y.sub = "main"
           /\ y = TrapRec(r) => y.pc = "trap" /\ y.child = None
           /\ y = GotoRec(r, "vfork") => y.pc = "vfork" /\ y.child = r.child
<1> DEFINE a == GotoRec(r, "trap")
           b == GotoRec(r, "vfork")
           z == [a EXCEPT !.child = None]
<1>1. /\ a \in Proc /\ Still(r, a) /\ a.pc = "trap" /\ a.sub = "main"
      /\ b \in Proc /\ Still(r, b) /\ b.pc = "vfork" /\ b.sub = "main"
  <2>1. "trap" \in Places /\ "vfork" \in Places
    BY DEF Places
  <2> QED BY <2>1, GotoFields
<1>2. TrapRec(r) = z
  BY DEF TrapRec
<1> HIDE DEF a, b
<1>3. /\ z \in Proc /\ Same(a, z) /\ z.wchan = a.wchan /\ z.sig = a.sig
      /\ z.mask = a.mask /\ z.disp = a.disp /\ z.cursig = a.cursig /\ z.sub = a.sub
      /\ z.pc = a.pc /\ z.child = None
  BY <1>1, ChildFields
<1> HIDE DEF z
<1>4. Same(r, z) /\ Same(r, b)
  BY <1>1, <1>3 DEF Same, Still
<1>5. /\ z.wchan = r.wchan /\ z.sig = r.sig /\ z.mask = r.mask /\ z.disp = r.disp
      /\ z.cursig = r.cursig /\ z.sub = "main" /\ z.pc = "trap" /\ z.child = None
  BY <1>1, <1>3 DEF Still
<1>6. /\ b.wchan = r.wchan /\ b.sig = r.sig /\ b.mask = r.mask /\ b.disp = r.disp
      /\ b.cursig = r.cursig /\ b.child = r.child
  BY <1>1 DEF Still
<1>7. z # b
  BY <1>1, <1>5
<1>8. y = z \/ y = b
  BY <1>2 DEF b
<1>9. (y = TrapRec(r) <=> y = z) /\ (y = GotoRec(r, "vfork") <=> y = b)
  BY <1>2 DEF b
<1> QED BY <1>1, <1>3, <1>4, <1>5, <1>6, <1>7, <1>8, <1>9

\* A parent in fork, and what comes of its record.
InFork(t, p, r) ==
    StateOK(t, p) /\ r = t[p] /\ r.pc \in {"procdup", "vfork"} /\ r.sub = "main"
Later(r, y) == y = TrapRec(r) \/ y = GotoRec(r, "vfork")

\* The parent's record is as it should be.
LEMMA ParentRecord ==
    ASSUME NEW t, NEW p \in Procs, NEW r \in Proc, InFork(t, p, r), NEW y \in Proc, Later(r, y)
    PROVE  /\ RecordOK(y, TRUE) /\ PlaceOK(p, y, TRUE) /\ (p = init => InitOK(y))
           /\ y.pptr = r.pptr /\ y.stat = r.stat /\ y.vfork = r.vfork
           /\ y.wchan = None /\ y.pc \in {"vfork", "trap"} /\ y.child \in {r.child, None}
           /\ y = TrapRec(r) => y.pc = "trap"
           /\ y = GotoRec(r, "vfork") => y.pc = "vfork" /\ y.child = r.child
<1>1. /\ r \in Proc /\ r.stat = "SRUN" /\ r.rq = FALSE /\ r.wchan = None /\ SignalOK(r)
      /\ (ContNotTyped => CONT \notin r.mask) /\ PlaceOK(p, r, TRUE) /\ (p = init => InitOK(r))
  <2>1. StateOK(t, p) /\ r = t[p]
    BY DEF InFork
  <2>2. LET x == t[p]
        IN /\ x \in Proc /\ x.stat = "SRUN" /\ x.rq = FALSE
           /\ x.wchan # None => x.sub = "pre"
           /\ SignalOK(x)
           /\ (ContNotTyped => CONT \notin x.mask) /\ PlaceOK(p, x, TRUE)
           /\ (p = init => InitOK(x))
    BY <2>1, OnFacts
  <2>3. r.sub = "main"
    BY DEF InFork
  <2> QED BY <2>1, <2>2, <2>3
<1>2. y = TrapRec(r) \/ y = GotoRec(r, "vfork")
  BY DEF Later
<1>3. /\ y \in Proc /\ Same(r, y) /\ y.wchan = r.wchan /\ y.sig = r.sig
      /\ y.mask = r.mask /\ y.disp = r.disp /\ y.cursig = r.cursig /\ y.sub = "main"
      /\ y = TrapRec(r) => y.pc = "trap" /\ y.child = None
      /\ y = GotoRec(r, "vfork") => y.pc = "vfork" /\ y.child = r.child
  BY <1>1, <1>2, TrapFields
<1>4. /\ y.pptr = r.pptr /\ y.stat = "SRUN" /\ y.vfork = r.vfork /\ y.rq = FALSE
      /\ y.vfdone = r.vfdone /\ y.wchan = None
      /\ y.pc \in {"vfork", "trap"} /\ y.child \in {r.child, None}
      /\ (y.pc = "vfork" => y.child = r.child) /\ r.pc \in {"procdup", "vfork"} /\ r.sub = "main"
  <2>1. r.pc \in {"procdup", "vfork"} /\ r.sub = "main"
    BY DEF InFork
  <2>2. y.pptr = r.pptr /\ y.stat = r.stat /\ y.vfork = r.vfork /\ y.rq = r.rq
        /\ y.vfdone = r.vfdone
    BY <1>3 DEF Same
  <2>3. /\ y.pc \in {"vfork", "trap"} /\ y.child \in {r.child, None}
        /\ (y.pc = "vfork" => y.child = r.child)
    BY <1>2, <1>3
  <2>4. y.stat = "SRUN" /\ y.wchan = None
    BY <1>1, <1>3, <2>2
  <2>5. y.rq = FALSE
    BY <1>1, <2>2
  <2> QED BY <2>1, <2>2, <2>3, <2>4, <2>5
<1>5. RecordOK(y, TRUE)
  <2>1. SignalOK(y)
    BY <1>1, <1>3, SignalLess
  <2> QED BY <1>1, <1>3, <1>4, <2>1, RunRecord
<1>6. PlaceOK(p, y, TRUE)
  BY <1>1, <1>3, <1>4 DEF PlaceOK
<1>7. p = init => InitOK(y)
  BY <1>1, <1>3, <1>4 DEF InitOK, Dead
<1>8. y.stat = r.stat
  BY <1>1, <1>4
<1> QED BY <1>3, <1>4, <1>5, <1>6, <1>7, <1>8

\* The child is put on the run queue.
StartRec(r) == [r EXCEPT !.stat = "SRUN", !.rq = TRUE]

LEMMA StartRecord ==
    ASSUME NEW r \in Proc, RecordOK(r, FALSE), r.stat = "SIDL", r.pc = "user",
           NEW c \in Procs, PlaceOK(c, r, FALSE), NEW x, x = StartRec(r)
    PROVE  /\ x \in Proc /\ x.pptr = r.pptr /\ x.pc = "user" /\ x.stat = "SRUN"
           /\ x.vfork = r.vfork /\ x.swted = r.swted
           /\ RecordOK(x, FALSE) /\ PlaceOK(c, x, FALSE)
<1>1. x \in Proc
  BY DEF StartRec, Proc
<1>2. /\ x.stat = "SRUN" /\ x.rq = TRUE /\ x.pptr = r.pptr /\ x.wchan = r.wchan
      /\ x.intr = r.intr /\ x.sig = r.sig /\ x.mask = r.mask /\ x.disp = r.disp
      /\ x.vfork = r.vfork /\ x.vfdone = r.vfdone /\ x.swted = r.swted
      /\ x.child = r.child /\ x.pc = r.pc /\ x.sub = r.sub
  BY DEF StartRec, Proc
<1>3. r.sub \in {"main", "slept"} /\ r.wchan = None
  <2>1. r.sub \in {"main", "slept", "pre", "issig", "stop"}
    BY DEF Proc
  <2>2. r.sub \notin {"pre", "issig", "stop"}
    BY DEF PlaceOK
  <2>3. r.wchan = None
    BY <2>2 DEF RecordOK, QueueOK
  <2> QED BY <2>1, <2>2, <2>3
<1>4. QueueOK(x, FALSE)
  BY <1>2, <1>3 DEF QueueOK
<1>5. SignalOK(x)
  BY <1>2 DEF RecordOK, SignalOK
<1>6. SeenOK(x)
  BY <1>2 DEF SeenOK
<1>7. ContNotTyped => StopOK(x)
  BY <1>2, <1>3 DEF RecordOK, StopOK
<1>8. PlaceOK(c, x, FALSE)
  BY <1>2, <1>3 DEF PlaceOK
<1> QED BY <1>1, <1>2, <1>4, <1>5, <1>6, <1>7, <1>8 DEF RecordOK

\* StartChild keeps the invariant.
LEMMA StartChildStep ==
    ASSUME StateOK(proc, cur), NEW p \in Procs, StartChild(p)
    PROVE  StateOK(proc', cur')
<1>1. At(p, "procdup")
  BY DEF StartChild
<1>2. /\ cur = p /\ StateOK(proc, p) /\ proc \in [Procs -> Proc] /\ proc[p] \in Proc
      /\ proc[p].pc = "procdup" /\ proc[p].sub = "main" /\ PlaceOK(p, proc[p], TRUE)
      /\ PlacesOK(proc, p) /\ KinOK(proc)
  BY <1>1, AtFacts
<1>3. PICK c \in Procs : c = proc[p].child
  BY <1>2 DEF PlaceOK
<1>4. proc[c].pptr = p /\ proc[c].stat = "SIDL" /\ p # c /\ proc[c].pc = "user"
  <2>1. ForkOK(proc, p) /\ PlaceOK(c, proc[c], c = p)
    BY <1>2 DEF KinOK, PlacesOK
  <2>2. proc[c].pptr = p /\ proc[c].stat = "SIDL"
    BY <1>2, <1>3, <2>1 DEF ForkOK
  <2>3. proc[c].pc = "user"
    BY <2>1, <2>2 DEF PlaceOK
  <2> QED BY <1>2, <2>2, <2>3
<1>5. RecordOK(proc[c], FALSE) /\ PlaceOK(c, proc[c], FALSE) /\ (c = p) = FALSE
  <2>1. (c = p) = FALSE
    BY <1>4
  <2>2. RecordOK(proc[c], c = p) /\ PlaceOK(c, proc[c], c = p)
    BY <1>2 DEF StateOK, TableOK, PlacesOK
  <2> QED BY <2>1, <2>2
<1> DEFINE r == proc[c]
           x == StartRec(r)
           v == r.vfork
           y == IF v THEN GotoRec(proc[p], "vfork") ELSE TrapRec(proc[p])
           u == [[proc EXCEPT ![c] = x] EXCEPT ![p] = y]
<1>6. /\ x \in Proc /\ x.pptr = p /\ x.pc = "user" /\ x.stat = "SRUN"
      /\ x.vfork = v /\ RecordOK(x, FALSE) /\ PlaceOK(c, x, FALSE)
  <2>1. r \in Proc /\ r.stat = "SIDL" /\ r.pc = "user" /\ r.pptr = p
    BY <1>2, <1>4
  <2>2. RecordOK(r, FALSE) /\ PlaceOK(c, r, FALSE)
    BY <1>5
  <2>3. x = StartRec(r) /\ v = r.vfork
    OBVIOUS
  <2> HIDE DEF x, r, v
  <2>4. /\ x \in Proc /\ x.pptr = r.pptr /\ x.pc = "user" /\ x.stat = "SRUN"
        /\ x.vfork = r.vfork /\ RecordOK(x, FALSE) /\ PlaceOK(c, x, FALSE)
    BY <2>1, <2>2, <2>3, StartRecord
  <2> QED BY <2>1, <2>3, <2>4
<1>7. /\ y \in Proc /\ RecordOK(y, TRUE) /\ PlaceOK(p, y, TRUE) /\ (p = init => InitOK(y))
      /\ y.pptr = proc[p].pptr /\ y.stat = proc[p].stat /\ y.vfork = proc[p].vfork
      /\ y.wchan = None /\ y.pc \in {"vfork", "trap"} /\ y.child \in {c, None}
      /\ (y.pc = "vfork" <=> v) /\ (y.pc = "vfork" => y.child = c)
  <2>1. y = TrapRec(proc[p]) \/ y = GotoRec(proc[p], "vfork")
    OBVIOUS
  <2>2. (v => y = GotoRec(proc[p], "vfork")) /\ (~v => y = TrapRec(proc[p])) /\ v \in BOOLEAN
    BY <1>2 DEF Proc
  <2> HIDE DEF y, v
  <2>3. proc[p].pc \in {"procdup", "vfork"} /\ proc[p].sub = "main" /\ StateOK(proc, p)
    BY <1>2
  <2>4. /\ y \in Proc /\ RecordOK(y, TRUE) /\ PlaceOK(p, y, TRUE) /\ (p = init => InitOK(y))
        /\ y.pptr = proc[p].pptr /\ y.stat = proc[p].stat /\ y.vfork = proc[p].vfork
        /\ y.wchan = None /\ y.pc \in {"vfork", "trap"} /\ y.child \in {proc[p].child, None}
        /\ y = TrapRec(proc[p]) => y.pc = "trap"
        /\ y = GotoRec(proc[p], "vfork") => y.pc = "vfork" /\ y.child = proc[p].child
    <3>1. PICK z, q : z = y /\ q = proc[p]
      OBVIOUS
    <3>2. InFork(proc, p, q) /\ Later(q, z)
      BY <2>1, <2>3, <3>1 DEF InFork, Later
    <3>3. q \in Proc /\ z \in Proc
      <4>1. q \in Proc
        BY <1>2, <3>1
      <4> QED BY <3>2, <4>1, TrapFields DEF Later
    <3>4. /\ RecordOK(z, TRUE) /\ PlaceOK(p, z, TRUE) /\ (p = init => InitOK(z))
          /\ z.pptr = q.pptr /\ z.stat = q.stat /\ z.vfork = q.vfork
          /\ z.wchan = None /\ z.pc \in {"vfork", "trap"} /\ z.child \in {q.child, None}
          /\ z = TrapRec(q) => z.pc = "trap"
          /\ z = GotoRec(q, "vfork") => z.pc = "vfork" /\ z.child = q.child
      BY ZenonT(60), <3>2, <3>3, ParentRecord
    <3> QED BY <3>1, <3>3, <3>4
  <2>5. (y.pc = "vfork" <=> v) /\ (y.pc = "vfork" => y.child = proc[p].child)
    BY <2>2, <2>4
  <2> QED BY <1>3, <2>4, <2>5
<1>8. u \in [Procs -> Proc] /\ u[p] = y /\ u[c] = x /\ \A k \in Procs \ {p, c} : u[k] = proc[k]
  <2> HIDE DEF x, y
  <2> QED BY <1>2, <1>4, <1>6, <1>7
<1>9. proc' = u /\ cur' = p
  <2> DEFINE w == [proc EXCEPT ![c].stat = "SRUN", ![c].rq = TRUE]
  <2>1. /\ proc' = IF v THEN Goto(w, p, "vfork")
                   ELSE [Goto(w, p, "trap") EXCEPT ![p].child = None]
        /\ cur' = p
    BY <1>2, <1>3 DEF StartChild, Run
  <2>2. w = [proc EXCEPT ![c] = x]
    BY <1>2 DEF StartRec
  <2>3. w \in [Procs -> Proc] /\ w[p] = proc[p]
    <3> HIDE DEF x, w
    <3> QED BY <1>2, <1>4, <1>6, <2>2
  <2> HIDE DEF x, w
  <2>4. \A pc : Goto(w, p, pc) = [w EXCEPT ![p] = GotoRec(proc[p], pc)]
    BY <2>3, GotoIs
  <2>5. [[w EXCEPT ![p] = GotoRec(proc[p], "trap")] EXCEPT ![p].child = None]
          = [w EXCEPT ![p] = TrapRec(proc[p])]
    BY <2>3 DEF TrapRec
  <2> QED BY <2>1, <2>2, <2>4, <2>5
<1> HIDE DEF y, u
<1>10. Pair(proc, p, c, y, x)
  <2>1. Lent(x) <=> y.pc = "vfork"
    BY <1>6, <1>7 DEF Lent
  <2>2. ~Waiting(x)
    BY <1>6 DEF Waiting
  <2>3. NotStopped(proc[c], x)
    BY <1>6 DEF NotStopped
  <2> HIDE DEF x
  <2> QED BY <1>4, <1>6, <1>7, <2>1, <2>2, <2>3 DEF Pair, Dead
<1> HIDE DEF x
<1>11. StateOK(u, p)
  BY <1>2, <1>3, <1>4, <1>6, <1>7, <1>8, <1>10, PairKeepsState
<1> QED BY <1>9, <1>11

\* The child is told that its parent has the memory again.
DoneRec(r) == [r EXCEPT !.vfdone = TRUE]

LEMMA DoneFields ==
    ASSUME NEW r \in Proc
    PROVE  LET x == DoneRec(r)
           IN /\ x \in Proc
              /\ x.stat = r.stat /\ x.rq = r.rq /\ x.pptr = r.pptr /\ x.wchan = r.wchan
              /\ x.intr = r.intr /\ x.sig = r.sig /\ x.mask = r.mask /\ x.disp = r.disp
              /\ x.cursig = r.cursig /\ x.vfork = r.vfork /\ x.swted = r.swted
              /\ x.child = r.child /\ x.pc = r.pc /\ x.opts = r.opts /\ x.sub = r.sub
              /\ x.vfdone = TRUE
<1>1. DoneRec(r) \in Proc
  BY DEF DoneRec, Proc
<1>2. LET x == DoneRec(r)
      IN /\ x.stat = r.stat /\ x.rq = r.rq /\ x.pptr = r.pptr /\ x.wchan = r.wchan
         /\ x.intr = r.intr /\ x.sig = r.sig /\ x.mask = r.mask /\ x.disp = r.disp
         /\ x.cursig = r.cursig /\ x.vfork = r.vfork /\ x.swted = r.swted
         /\ x.child = r.child /\ x.pc = r.pc /\ x.opts = r.opts /\ x.sub = r.sub
         /\ x.vfdone = TRUE
  BY DEF DoneRec, Proc
<1> QED BY <1>1, <1>2

LEMMA DoneRecord ==
    ASSUME NEW r \in Proc, RecordOK(r, FALSE), r.pc \in {"exec", "exit"}, r.wchan = None,
           NEW c \in Procs, PlaceOK(c, r, FALSE), NEW x, x = DoneRec(r)
    PROVE  x \in Proc /\ RecordOK(x, FALSE) /\ PlaceOK(c, x, FALSE)
<1>1. /\ x \in Proc /\ x.stat = r.stat /\ x.rq = r.rq /\ x.pptr = r.pptr /\ x.wchan = r.wchan
      /\ x.intr = r.intr /\ x.sig = r.sig /\ x.mask = r.mask /\ x.disp = r.disp
      /\ x.cursig = r.cursig /\ x.vfork = r.vfork /\ x.swted = r.swted
      /\ x.child = r.child /\ x.pc = r.pc /\ x.opts = r.opts /\ x.sub = r.sub
      /\ x.vfdone = TRUE
  BY DoneFields
<1>2. QueueOK(x, FALSE)
  BY <1>1 DEF RecordOK, QueueOK
<1>3. SignalOK(x)
  BY <1>1 DEF RecordOK, SignalOK
<1>4. SeenOK(x)
  BY <1>1 DEF RecordOK, SeenOK
<1>5. ContNotTyped => StopOK(x)
  BY <1>1 DEF RecordOK, StopOK
<1>6. PlaceOK(c, x, FALSE)
  BY <1>1 DEF PlaceOK
<1> QED BY <1>1, <1>2, <1>3, <1>4, <1>5, <1>6 DEF RecordOK

LEMMA DoneWakes ==
    ASSUME NEW r \in Proc, NEW chan
    PROVE  WakeRec(DoneRec(r), chan) = DoneRec(WakeRec(r, chan))
<1>1. DoneRec(r) \in Proc /\ DoneRec(r).wchan = r.wchan /\ DoneRec(r).stat = r.stat
  BY DoneFields
<1>2. Ready(DoneRec(r)) = DoneRec(Ready(r))
  BY DEF Ready, DoneRec, Proc
<1>3. OffQueue(DoneRec(r)) = DoneRec(OffQueue(r))
  BY DEF OffQueue, DoneRec, Proc
<1> QED BY <1>1, <1>2, <1>3 DEF WakeRec

\* VforkDone keeps the invariant.
LEMMA VforkDoneStep ==
    ASSUME StateOK(proc, cur), NEW p \in Procs, VforkDone(p)
    PROVE  StateOK(proc', cur')
<1>1. At(p, "vfork")
  BY DEF VforkDone
<1>2. /\ cur = p /\ StateOK(proc, p) /\ proc \in [Procs -> Proc] /\ proc[p] \in Proc
      /\ proc[p].pc = "vfork" /\ proc[p].sub = "main" /\ PlaceOK(p, proc[p], TRUE)
      /\ proc[p].wchan = None /\ PlacesOK(proc, p) /\ KinOK(proc)
  BY <1>1, AtFacts
<1>3. PICK c \in Procs : c = proc[p].child
  BY <1>2 DEF PlaceOK
<1>4. /\ proc[c].pptr = p /\ Lent(proc[c]) /\ ~proc[c].vfork /\ p # c
  <2>1. ForkOK(proc, p)
    BY <1>2 DEF KinOK
  <2>2. proc[c].pptr = p /\ Lent(proc[c])
    BY <1>2, <1>3, <2>1 DEF ForkOK
  <2>3. ~proc[c].vfork
    BY <1>3 DEF VforkDone
  <2>4. p # c
    BY <1>2, <2>2, <2>3 DEF Lent
  <2> QED BY <2>2, <2>3, <2>4
<1> DEFINE w == Wakeup(proc, c)
           x == DoneRec(w[c])
           y == TrapRec(w[p])
           u == [[w EXCEPT ![c] = x] EXCEPT ![p] = y]
           e == [proc EXCEPT ![c] = DoneRec(proc[c])]
<1>5. c \in Channels /\ TableOK(proc, p) /\ c # None
  BY <1>2, SlotNames DEF StateOK
<1>6. /\ StateOK(w, p) /\ w \in [Procs -> Proc] /\ w[p] \in Proc /\ w[c] \in Proc
      /\ Frame(proc, w) /\ w[c].wchan # c /\ w[p] = proc[p]
  <2>1. StateOK(w, p)
    BY <1>2, <1>5, WakeupKeepsState
  <2>2. Frame(proc, w) /\ w[c].wchan # c
    BY <1>5, WakeupKeeps
  <2>3. w[p] = proc[p]
    BY <1>2, <1>5, WakeupIs DEF WakeRec
  <2>4. w \in [Procs -> Proc]
    BY <2>1 DEF StateOK, TableOK
  <2> QED BY <2>1, <2>2, <2>3, <2>4
<1>7. w[c].pptr = p /\ ~w[c].vfork /\ w[c].pc \in {"exec", "exit"}
  <2>1. Fixed(proc[c], w[c])
    BY <1>6 DEF Frame, Moved
  <2>2. proc[c].pc \in {"exec", "exit"}
    BY <1>4 DEF Lent
  <2> QED BY <1>4, <2>1, <2>2 DEF Fixed
<1>8. w[p].pc = "vfork" /\ w[p].sub = "main" /\ w[p].child = c
  BY <1>2, <1>3, <1>6
<1> HIDE DEF w
<1>9. /\ RecordOK(w[c], FALSE) /\ PlaceOK(c, w[c], FALSE) /\ KinOK(w)
      /\ w[c].stat \notin {"none", "SZOMB"}
  <2>1. (c = p) = FALSE
    BY <1>4
  <2>2. RecordOK(w[c], c = p) /\ PlaceOK(c, w[c], c = p) /\ KinOK(w)
    BY <1>6 DEF StateOK, TableOK, PlacesOK
  <2>3. ForkOK(w, p)
    BY <2>2 DEF KinOK
  <2>4. w[c].stat \notin {"none", "SZOMB"}
    BY <1>8, <2>3 DEF ForkOK
  <2> QED BY <2>1, <2>2, <2>4
<1>10. w[c].wchan = None
  BY <1>6, <1>7, <1>9 DEF PlaceOK
<1>11. x \in Proc /\ RecordOK(x, FALSE) /\ PlaceOK(c, x, FALSE)
  <2> HIDE DEF x
  <2> QED BY <1>6, <1>7, <1>9, <1>10, DoneRecord DEF x
<1>12. /\ x.pptr = p /\ x.pc = w[c].pc /\ x.stat = w[c].stat /\ x.swted = w[c].swted
       /\ ~x.vfork /\ x.vfdone
  BY <1>6, <1>7, DoneFields
<1>13. /\ y \in Proc /\ RecordOK(y, TRUE) /\ PlaceOK(p, y, TRUE) /\ (p = init => InitOK(y))
       /\ y.pptr = w[p].pptr /\ y.stat = w[p].stat /\ y.vfork = w[p].vfork
       /\ y.wchan = None /\ y.pc = "trap" /\ y.child \in {c, None}
  <2>1. PICK q, z : q = w[p] /\ z = y
    OBVIOUS
  <2>2. z = TrapRec(q)
    BY <2>1
  <2> HIDE DEF y
  <2>3. InFork(w, p, q) /\ Later(q, z) /\ q \in Proc
    BY <1>6, <1>8, <2>1, <2>2 DEF InFork, Later
  <2>4. z \in Proc
    BY <2>2, <2>3, TrapFields
  <2>5. /\ RecordOK(z, TRUE) /\ PlaceOK(p, z, TRUE) /\ (p = init => InitOK(z))
        /\ z.pptr = q.pptr /\ z.stat = q.stat /\ z.vfork = q.vfork
        /\ z.wchan = None /\ z.pc \in {"vfork", "trap"} /\ z.child \in {q.child, None}
        /\ z = TrapRec(q) => z.pc = "trap"
        /\ z = GotoRec(q, "vfork") => z.pc = "vfork" /\ z.child = q.child
    BY ZenonT(60), <2>3, <2>4, ParentRecord
  <2> QED BY <1>8, <2>1, <2>2, <2>4, <2>5
<1> HIDE DEF x, y
<1>14. /\ u \in [Procs -> Proc] /\ u[p] = y /\ u[c] = x
       /\ \A k \in Procs \ {p, c} : u[k] = w[k]
  BY <1>4, <1>6, <1>11, <1>13
<1>15. proc' = u /\ cur' = p
  <2>1. e \in [Procs -> Proc] /\ \A k \in Procs : e[k] = IF k = c THEN DoneRec(proc[c]) ELSE proc[k]
    <3>1. DoneRec(proc[c]) \in Proc
      BY <1>2, DoneFields
    <3> QED BY <1>2, <3>1
  <2> HIDE DEF e
  <2>2. \A k \in Procs : Wakeup(e, c)[k] = [w EXCEPT ![c] = x][k]
    <3> SUFFICES ASSUME NEW k \in Procs
                 PROVE  Wakeup(e, c)[k] = [w EXCEPT ![c] = x][k]
      OBVIOUS
    <3>1. Wakeup(e, c)[k] = WakeRec(e[k], c)
      BY <2>1, WakeupIs
    <3>2. w[k] = WakeRec(proc[k], c)
      BY <1>2, WakeupIs DEF w
    <3>3. CASE k # c
      BY <1>6, <2>1, <3>1, <3>2, <3>3
    <3>4. CASE k = c
      <4>1. WakeRec(DoneRec(proc[c]), c) = DoneRec(WakeRec(proc[c], c))
        BY <1>2, DoneWakes
      <4> QED BY <1>6, <2>1, <3>1, <3>2, <3>4, <4>1 DEF x
    <3> QED BY <3>3, <3>4
  <2>3. Wakeup(e, c) = [w EXCEPT ![c] = x]
    <3>1. Wakeup(e, c) = [k \in Procs |-> Wakeup(e, c)[k]]
      BY DEF Wakeup
    <3>2. [w EXCEPT ![c] = x] = [k \in Procs |-> [w EXCEPT ![c] = x][k]]
      BY <1>6
    <3> QED BY <2>2, <3>1, <3>2
  <2>4. /\ proc' = [Goto(Wakeup(e, c), p, "trap") EXCEPT ![p].child = None]
        /\ cur' = p
    <3>1. [proc EXCEPT ![c].vfdone = TRUE] = e
      BY <1>2 DEF e, DoneRec
    <3> QED BY <1>2, <1>3, <3>1 DEF VforkDone, Run
  <2> DEFINE v == [w EXCEPT ![c] = x]
  <2>5. v \in [Procs -> Proc] /\ v[p] = w[p]
    BY <1>4, <1>6, <1>11
  <2> HIDE DEF v
  <2>6. Goto(v, p, "trap") = [v EXCEPT ![p] = GotoRec(w[p], "trap")]
    BY <2>5, GotoIs
  <2>7. [[v EXCEPT ![p] = GotoRec(w[p], "trap")] EXCEPT ![p].child = None]
          = [v EXCEPT ![p] = TrapRec(w[p])]
    BY <2>5 DEF TrapRec
  <2> QED BY <2>3, <2>4, <2>6, <2>7 DEF v, y
<1> HIDE DEF u
<1>16. Pair(w, p, c, y, x)
  <2>1. ~Lent(x)
    BY <1>12 DEF Lent
  <2>2. ~Waiting(x)
    BY <1>7, <1>12 DEF Waiting
  <2>3. NotStopped(w[c], x)
    BY <1>12 DEF NotStopped
  <2> QED BY <1>7, <1>9, <1>12, <1>13, <2>1, <2>2, <2>3 DEF Pair
<1>17. StateOK(u, p)
  <2>1. w[p].pc \in {"procdup", "vfork"}
    BY <1>8
  <2> QED BY <1>4, <1>6, <1>7, <1>8, <1>9, <1>11, <1>13, <1>14, <1>16, <2>1, PairKeepsState
<1> QED BY <1>15, <1>17

------------------------------------------------------------------------------
(* The children of an exiting process. *)

\* A signal that is taken away.
SigLess(r, g) == [r EXCEPT !.sig = g]

LEMMA SigLessKeeps ==
    ASSUME NEW r \in Proc, NEW on \in BOOLEAN, RecordOK(r, on), NEW g, g \subseteq r.sig,
           NEW x, x = SigLess(r, g)
    PROVE  x \in Proc /\ RecordOK(x, on) /\ Moved(r, x) /\ NotStopped(r, x) /\ x.cursig = r.cursig
<1>1. g \in SUBSET Signals
  BY DEF Proc
<1>2. /\ x \in Proc /\ Fixed(r, x) /\ x.sig = g
      /\ x.wchan = r.wchan /\ x.stat = r.stat /\ x.rq = r.rq
      /\ x.cursig = r.cursig /\ x.swted = r.swted
  BY <1>1, SigFields DEF SigLess
<1>3. /\ x.intr = r.intr /\ x.mask = r.mask /\ x.disp = r.disp /\ x.vfork = r.vfork
      /\ x.sub = r.sub
  BY <1>2 DEF Fixed
<1>4. QueueOK(x, on)
  BY <1>2, <1>3 DEF RecordOK, QueueOK
<1>5. SignalOK(x)
  BY <1>2, <1>3 DEF RecordOK, SignalOK
<1>6. SeenOK(x)
  BY <1>2, <1>3 DEF RecordOK, SeenOK
<1>7. ContNotTyped => StopOK(x)
  BY <1>2, <1>3 DEF RecordOK, StopOK
<1> QED BY <1>2, <1>4, <1>5, <1>6, <1>7 DEF RecordOK, Moved, NotStopped

\* SIGTSTP is taken away from the processes of M.
Relieved(t, M) ==
    [r \in Procs |-> IF r \in M THEN [t[r] EXCEPT !.sig = @ \ {TSTP}] ELSE t[r]]

LEMMA RelievedKeeps ==
    ASSUME NEW t, NEW c, TableOK(t, c), NEW M, NEW u, u = Relieved(t, M)
    PROVE  TableOK(u, c) /\ Frame(t, u) /\ Quiet(t, u)
<1>1. t \in [Procs -> Proc] /\ \A k \in Procs : RecordOK(t[k], k = c)
  BY DEF TableOK
<1>2. ASSUME NEW k \in Procs
      PROVE  /\ u[k] \in Proc /\ RecordOK(u[k], k = c) /\ Moved(t[k], u[k])
             /\ NotStopped(t[k], u[k]) /\ u[k].cursig = t[k].cursig
  <2>1. t[k] \in Proc /\ RecordOK(t[k], k = c) /\ (k = c) \in BOOLEAN
    BY <1>1
  <2>2. CASE k \in M
    <3>1. u[k] = SigLess(t[k], t[k].sig \ {TSTP})
      BY <2>2 DEF Relieved, SigLess
    <3>2. PICK r, x, on : r = t[k] /\ x = u[k] /\ on = (k = c)
      OBVIOUS
    <3>3. on \in BOOLEAN /\ r \in Proc /\ RecordOK(r, on) /\ x = SigLess(r, r.sig \ {TSTP})
      BY <2>1, <3>1, <3>2
    <3>4. PICK g : g = r.sig \ {TSTP}
      OBVIOUS
    <3>5. g \subseteq r.sig /\ x = SigLess(r, g)
      BY <3>3, <3>4
    <3>6. x \in Proc /\ RecordOK(x, on) /\ Moved(r, x) /\ NotStopped(r, x) /\ x.cursig = r.cursig
      BY <3>3, <3>5, SigLessKeeps
    <3> QED BY <3>2, <3>6
  <2>3. CASE k \notin M
    <3>1. u[k] = t[k]
      BY <2>3 DEF Relieved
    <3> QED BY <2>1, <3>1 DEF Moved, Fixed, NotStopped
  <2> QED BY <2>2, <2>3
<1>3. u \in [Procs -> Proc]
  <2>1. u = [k \in Procs |-> u[k]]
    BY DEF Relieved
  <2> QED BY <1>2, <2>1
<1>4. TableOK(u, c)
  BY <1>2, <1>3 DEF TableOK
<1>5. Quiet(t, u)
  BY <1>2 DEF Quiet
<1>6. Frame(t, u)
  BY <1>2, SlotNames DEF Frame, NotStopped
<1> QED BY <1>4, <1>5, <1>6

\* A process gets another parent.
AdoptedRec(r) == [r EXCEPT !.pptr = init]

LEMMA AdoptedFields ==
    ASSUME NEW r \in Proc
    PROVE  LET x == AdoptedRec(r)
           IN /\ x \in Proc /\ x.pptr = init
              /\ x.stat = r.stat /\ x.rq = r.rq /\ x.wchan = r.wchan /\ x.intr = r.intr
              /\ x.sig = r.sig /\ x.mask = r.mask /\ x.disp = r.disp /\ x.cursig = r.cursig
              /\ x.vfork = r.vfork /\ x.vfdone = r.vfdone /\ x.swted = r.swted
              /\ x.child = r.child /\ x.pc = r.pc /\ x.opts = r.opts /\ x.sub = r.sub
<1>1. AdoptedRec(r) \in Proc
  BY SlotNames DEF AdoptedRec, Proc
<1> QED BY <1>1 DEF AdoptedRec, Proc

LEMMA AdoptedKeeps ==
    ASSUME NEW t, NEW c, TableOK(t, c), PlacesOK(t, c), NEW q \in Procs \ {init},
           NEW u, u = [t EXCEPT ![q] = AdoptedRec(t[q])]
    PROVE  TableOK(u, c) /\ PlacesOK(u, c)
<1>1. t \in [Procs -> Proc] /\ t[q] \in Proc /\ RecordOK(t[q], q = c) /\ PlaceOK(q, t[q], q = c)
  BY DEF TableOK, PlacesOK
<1>2. PICK x, r : x = AdoptedRec(r) /\ r = t[q]
  OBVIOUS
<1>3. /\ x \in Proc /\ x.pptr = init
      /\ x.stat = r.stat /\ x.rq = r.rq /\ x.wchan = r.wchan /\ x.intr = r.intr
      /\ x.sig = r.sig /\ x.mask = r.mask /\ x.disp = r.disp /\ x.cursig = r.cursig
      /\ x.vfork = r.vfork /\ x.vfdone = r.vfdone /\ x.swted = r.swted
      /\ x.child = r.child /\ x.pc = r.pc /\ x.opts = r.opts /\ x.sub = r.sub
  BY <1>1, <1>2, AdoptedFields
<1>4. PICK on \in BOOLEAN : on = (q = c)
  OBVIOUS
<1>5. RecordOK(r, on) /\ PlaceOK(q, r, on)
  BY <1>1, <1>2, <1>4
<1>6. RecordOK(x, on)
  <2>1. QueueOK(x, on)
    BY <1>3, <1>5 DEF RecordOK, QueueOK
  <2>2. SignalOK(x)
    BY <1>3, <1>5 DEF RecordOK, SignalOK
  <2>3. SeenOK(x)
    BY <1>3, <1>5 DEF RecordOK, SeenOK
  <2>4. ContNotTyped => StopOK(x)
    BY <1>3, <1>5 DEF RecordOK, StopOK
  <2> QED BY <2>1, <2>2, <2>3, <2>4 DEF RecordOK
<1>7. PlaceOK(q, x, on)
  BY <1>3, <1>5 DEF PlaceOK
<1>8. /\ u \in [Procs -> Proc] /\ u[q] = x /\ \A k \in Procs \ {q} : u[k] = t[k]
  BY <1>1, <1>2, <1>3
<1>9. \A k \in Procs : RecordOK(u[k], k = c) /\ PlaceOK(k, u[k], k = c)
  <2> SUFFICES ASSUME NEW k \in Procs
               PROVE  RecordOK(u[k], k = c) /\ PlaceOK(k, u[k], k = c)
    OBVIOUS
  <2>1. CASE k = q
    BY <1>4, <1>6, <1>7, <1>8, <2>1
  <2>2. CASE k # q
    BY <1>8, <2>2 DEF TableOK, PlacesOK
  <2> QED BY <2>1, <2>2
<1>10. InitOK(u[init])
  BY <1>8, SlotNames DEF PlacesOK
<1> QED BY <1>8, <1>9, <1>10 DEF TableOK, PlacesOK

\* A child gets init as its parent, and what that does to the rest of the table.
LEMMA OrphanKeeps ==
    ASSUME NEW t, TableOK(t, None), PlacesOK(t, None), NEW q \in Procs \ {init},
           NEW a, a = [t EXCEPT ![q] = AdoptedRec(t[q])], NEW v, v = Orphan(t, q)
    PROVE  /\ TableOK(a, None) /\ TableOK(v, None) /\ PlacesOK(v, None)
           /\ Frame(a, v) /\ Quiet(a, v) /\ v[init].wchan # init
<1>1. TableOK(a, None) /\ PlacesOK(a, None) /\ t \in [Procs -> Proc]
  <2>1. PICK d : d = None
    OBVIOUS
  <2>2. TableOK(t, d) /\ PlacesOK(t, d)
    BY <2>1
  <2>3. TableOK(a, d) /\ PlacesOK(a, d)
    BY <2>2, AdoptedKeeps
  <2> QED BY <2>1, <2>3 DEF TableOK
<1> DEFINE i == Wakeup(a, init)
           j == Psignal(i, q, HUP)
           h == IF i[q].stat = "SSTOP" THEN Psignal(j, q, CONT) ELSE i
           M == Family(h, q)
<1>2. v = Relieved(h, M)
  <2>1. [t EXCEPT ![q].pptr = init] = a
    BY <1>1 DEF AdoptedRec
  <2> QED BY <2>1 DEF Orphan, Relieved
<1>3. TableOK(i, None) /\ Frame(a, i) /\ Quiet(a, i) /\ i[init].wchan # init
  <2>1. init \in Channels /\ init \in Procs
    BY SlotNames
  <2> QED BY <1>1, <2>1, WakeupKeeps
<1> HIDE DEF i
<1>4. TableOK(j, None) /\ Frame(i, j) /\ Quiet(i, j)
  <2>1. HUP \in Signals /\ HUP \notin Stops /\ HUP \notin {CONT, KILL}
    BY SignalNumbers
  <2> HIDE DEF HUP
  <2> QED BY <1>3, <2>1, PsignalKeeps
<1> HIDE DEF j
<1>5. TableOK(h, None) /\ Frame(i, h) /\ Quiet(i, h)
  <2>1. CASE i[q].stat = "SSTOP"
    <3> DEFINE k == Psignal(j, q, CONT)
    <3>1. CONT \in Signals /\ CONT \notin Stops
      BY SignalNumbers
    <3>2. j[q].sub # "stop"
      <4>1. (q = None) = FALSE
        BY OthersNot
      <4>2. RecordOK(j[q], q = None)
        BY <1>4 DEF TableOK
      <4> QED BY <4>1, <4>2 DEF RecordOK, QueueOK
    <3> HIDE DEF CONT
    <3>3. TableOK(k, None) /\ Frame(j, k) /\ Quiet(j, k)
      BY <1>4, <3>1, <3>2, PsignalKeeps
    <3>4. h = k
      BY <2>1
    <3> HIDE DEF k, h
    <3>5. Frame(i, k)
      BY <1>4, <3>3, FrameJoin
    <3>6. Quiet(i, k)
      BY <1>4, <3>3 DEF Quiet, NotStopped
    <3> QED BY <3>3, <3>4, <3>5, <3>6
  <2>2. CASE i[q].stat # "SSTOP"
    <3>1. h = i
      BY <2>2
    <3>2. i \in [Procs -> Proc]
      BY <1>3 DEF TableOK
    <3>3. Frame(i, i) /\ Quiet(i, i)
      BY <3>2, FrameSelf DEF Quiet, NotStopped
    <3> QED BY <1>3, <3>1, <3>3
  <2> QED BY <2>1, <2>2
<1> HIDE DEF h, M
<1>6. TableOK(v, None) /\ Frame(h, v) /\ Quiet(h, v)
  BY <1>2, <1>5, RelievedKeeps
<1>7. Frame(i, v)
  BY <1>5, <1>6, FrameJoin
<1>8. Frame(a, v)
  BY <1>3, <1>7, FrameJoin
<1>9. Quiet(a, v)
  BY <1>3, <1>5, <1>6 DEF Quiet, NotStopped
<1>10. PlacesOK(v, None)
  BY <1>1, <1>8, FrameKeepsPlaces
<1>11. v[init].wchan # init
  BY <1>3, <1>7, SlotNames DEF Frame, Moved
<1> QED BY <1>1, <1>6, <1>8, <1>9, <1>10, <1>11

\* What has become of a process while others got a new parent.
Taken(r, x) ==
    /\ x.intr = r.intr /\ x.disp = r.disp /\ x.vfork = r.vfork /\ x.vfdone = r.vfdone
    /\ x.child = r.child /\ x.pc = r.pc /\ x.opts = r.opts /\ x.sub = r.sub
    /\ x.wchan \in {r.wchan, None}
    /\ r.stat \in Dead \/ x.stat \in Dead => x.stat = r.stat
    /\ NotStopped(r, x)

\* Those of S have init as their parent now, the others whom they had.
Adopted(t, u, S) ==
    /\ \A k \in Procs : Taken(t[k], u[k])
    /\ \A k \in Procs : u[k].pptr = IF k \in S THEN init ELSE t[k].pptr
    /\ S # {} => u[init].wchan # init

LEMMA OrphanAdopts ==
    ASSUME NEW t, NEW u, TableOK(u, None), PlacesOK(u, None), NEW S, Adopted(t, u, S),
           NEW q \in Procs \ {init}, NEW v, v = Orphan(u, q)
    PROVE  TableOK(v, None) /\ PlacesOK(v, None) /\ Adopted(t, v, S \cup {q})
<1>1. PICK a : a = [u EXCEPT ![q] = AdoptedRec(u[q])]
  OBVIOUS
<1>2. /\ TableOK(a, None) /\ TableOK(v, None) /\ PlacesOK(v, None)
      /\ Frame(a, v) /\ Quiet(a, v) /\ v[init].wchan # init
  BY <1>1, OrphanKeeps
<1>3. u \in [Procs -> Proc] /\ u[q] \in Proc
  BY DEF TableOK
<1>4. a[q] = AdoptedRec(u[q]) /\ \A k \in Procs \ {q} : a[k] = u[k]
  BY <1>1, <1>3
<1>5. ASSUME NEW k \in Procs
      PROVE  /\ Taken(u[k], a[k]) /\ a[k].pptr = IF k = q THEN init ELSE u[k].pptr
  <2>1. CASE k = q
    <3>1. Taken(u[q], AdoptedRec(u[q])) /\ AdoptedRec(u[q]).pptr = init
      BY <1>3, AdoptedFields DEF Taken, NotStopped
    <3> QED BY <1>4, <2>1, <3>1
  <2>2. CASE k # q
    BY <1>4, <2>2 DEF Taken, NotStopped
  <2> QED BY <2>1, <2>2
<1>6. ASSUME NEW k \in Procs
      PROVE  Taken(a[k], v[k]) /\ v[k].pptr = a[k].pptr
  <2>1. Moved(a[k], v[k]) /\ NotStopped(a[k], v[k])
    BY <1>2 DEF Frame, Quiet
  <2> QED BY <2>1 DEF Moved, Fixed, Taken
<1>7. \A k \in Procs : Taken(t[k], v[k])
  BY <1>5, <1>6 DEF Adopted, Taken, NotStopped
<1>8. \A k \in Procs : v[k].pptr = IF k \in S \cup {q} THEN init ELSE t[k].pptr
  BY <1>5, <1>6 DEF Adopted
<1> QED BY <1>2, <1>7, <1>8 DEF Adopted

LEMMA OrphansAdopted ==
    ASSUME NEW t, TableOK(t, None), PlacesOK(t, None),
           NEW S, S \subseteq Procs \ {init}, NEW o, o = InOrder(Orphan, t, S)
    PROVE  TableOK(o, None) /\ PlacesOK(o, None) /\ Adopted(t, o, S)
<1> DEFINE J == {u \in [Procs -> Proc] : TableOK(u, None) /\ PlacesOK(u, None)}
           iter == CHOOSE g : g = [a \in SUBSET S |->
                                     IF a = {} THEN t ELSE Orphan(g[a \ {Max(a)}], Max(a))]
           F == [x \in S \X J |-> Orphan(x[2], x[1])]
<1>1. o = iter[S]
  BY DEF InOrder, MapThenFoldSet
<1>2. t \in J /\ Adopted(t, t, {})
  <2>1. t \in [Procs -> Proc]
    BY DEF TableOK
  <2> QED BY <2>1 DEF Adopted, Taken, NotStopped
<1>3. S \in SUBSET Int /\ IsFiniteSet(S)
  BY SlotNames, FS_Subset
<1>4. ASSUME NEW u \in J, NEW q \in S
      PROVE  /\ Orphan(u, q) \in J
             /\ \A a : Adopted(t, u, a) => Adopted(t, Orphan(u, q), a \cup {q})
  <2>1. PICK v : v = Orphan(u, q)
    OBVIOUS
  <2>2. TableOK(u, None) /\ PlacesOK(u, None) /\ u \in [Procs -> Proc] /\ q \in Procs \ {init}
    OBVIOUS
  <2>3. TableOK(v, None) /\ PlacesOK(v, None)
    <3>1. Adopted(u, u, {})
      BY <2>2 DEF Adopted, Taken, NotStopped
    <3> QED BY <2>1, <2>2, <3>1, OrphanAdopts
  <2>4. ASSUME NEW a, Adopted(t, u, a)
        PROVE  Adopted(t, v, a \cup {q})
    BY <2>1, <2>2, <2>4, OrphanAdopts
  <2>5. v \in J
    BY <2>3 DEF TableOK
  <2> QED BY <2>1, <2>4, <2>5
<1> HIDE DEF J
<1>5. F \in [S \X J -> J]
  BY <1>4
<1>6. \A a \in SUBSET S : a # {} => Max(a) \in a
  BY <1>3, FS_Subset, MaxIn
<1> HIDE DEF F
<1>7. PICK W \in [SUBSET S -> J] :
         \A a \in SUBSET S : W[a] = IF a = {} THEN t ELSE F[<<Max(a), W[a \ {Max(a)}]>>]
  <2>1. PICK W : IsFold(W, S, J, t, F)
    BY <1>2, <1>3, <1>5, FoldExists
  <2> QED BY <2>1 DEF IsFold
<1>8. \A a \in SUBSET S, v \in J : a # {} => F[<<Max(a), v>>] = Orphan(v, Max(a))
  BY <1>6 DEF F
<1>9. W = [a \in SUBSET S |-> IF a = {} THEN t ELSE Orphan(W[a \ {Max(a)}], Max(a))]
  <2> SUFFICES ASSUME NEW a \in SUBSET S
               PROVE  W[a] = IF a = {} THEN t ELSE Orphan(W[a \ {Max(a)}], Max(a))
    OBVIOUS
  <2>1. W[a \ {Max(a)}] \in J
    OBVIOUS
  <2> QED BY <1>7, <1>8, <2>1
<1>10. iter = [a \in SUBSET S |-> IF a = {} THEN t ELSE Orphan(iter[a \ {Max(a)}], Max(a))]
  BY <1>9
<1> HIDE DEF iter
<1> DEFINE G == {x \in (SUBSET S) \X J : Adopted(t, x[2], x[1])}
<1>11. <<{}, iter[{}]>> \in G
  <2>1. iter[{}] = t
    BY <1>10
  <2> QED BY <1>2, <2>1
<1>12. ASSUME NEW a \in SUBSET S, a # {}, <<a \ {Max(a)}, iter[a \ {Max(a)}]>> \in G
       PROVE  <<a, iter[a]>> \in G
  <2> DEFINE b == a \ {Max(a)}
             u == iter[b]
  <2>1. u \in J /\ Max(a) \in S /\ Adopted(t, u, b)
    BY <1>6, <1>12
  <2>2. iter[a] = Orphan(u, Max(a)) /\ a = b \cup {Max(a)}
    <3>1. iter[a] = Orphan(u, Max(a))
      BY <1>10, <1>12
    <3>2. a = b \cup {Max(a)}
      BY <1>6, <1>12
    <3> QED BY <3>1, <3>2
  <2> HIDE DEF u, b
  <2>3. Orphan(u, Max(a)) \in J /\ Adopted(t, Orphan(u, Max(a)), b \cup {Max(a)})
    BY <1>4, <2>1
  <2> QED BY <2>2, <2>3
<1>13. <<S, iter[S]>> \in G
  <2> HIDE DEF G
  <2>1. \A a \in SUBSET S : <<a, iter[a]>> \in G
    BY <1>3, <1>11, <1>12, FoldInduction
  <2> QED BY <2>1
<1> QED BY <1>1, <1>13 DEF J

\* The table of who has exited, whose children are init's and whose parent has
\* been woken.
Exited(t, p, z, m) ==
    /\ p # init /\ t[p].pc = "close" /\ ~Lent(t[p]) /\ t[p].pptr = m
    /\ z \in [Procs -> Proc] /\ \A k \in Procs \ {p} : z[k] = t[k]
    /\ z[p].stat = "SZOMB" /\ z[p].pc = "none" /\ z[p].pptr = m /\ z[p].vfork = FALSE
Mourned(z, p, u, m) == Adopted(z, u, Children(z, p)) /\ u[m].wchan # m

LEMMA ExitedKeepsState ==
    ASSUME NEW t, NEW p \in Procs, StateOK(t, p), NEW z, NEW n, Exited(t, p, z, n),
           NEW u, TableOK(u, None), PlacesOK(u, None), Mourned(z, p, u, n)
    PROVE  StateOK(u, None)
<1> DEFINE S == Children(z, p)
           x == z[p]
<1>1. /\ p # init /\ t[p].pc = "close" /\ ~Lent(t[p]) /\ t[p].pptr = n
      /\ z \in [Procs -> Proc] /\ \A k \in Procs \ {p} : z[k] = t[k]
      /\ x.stat = "SZOMB" /\ x.pc = "none" /\ x.pptr = n /\ x.vfork = FALSE
      /\ Adopted(z, u, S) /\ u[n].wchan # n
  BY DEF Exited, Mourned
<1>2. /\ t \in [Procs -> Proc] /\ PlacesOK(t, p) /\ KinOK(t) /\ t[p].stat = "SRUN"
      /\ (StopsNotTyped => Told(t))
  <2>1. StopsNotTyped => Told(t)
    BY DEF StateOK
  <2>2. p \in Procs /\ StateOK(t, p)
    OBVIOUS
  <2>3. t \in [Procs -> Proc] /\ PlacesOK(t, p) /\ KinOK(t) /\ t[p].stat = "SRUN"
    BY <2>2, OnFacts
  <2> QED BY <2>1, <2>3
<1>3. \A k \in Procs : /\ t[k].pptr # k /\ t[k].pptr \in Procs \cup {None}
                       /\ k # init /\ t[k].stat # "none" => /\ t[k].pptr \in Procs
                                                            /\ t[t[k].pptr].stat \notin Dead
                       /\ Lent(t[k]) => k # init /\ t[k].pptr \in Procs
                       /\ ParentOK(t, k) /\ WaitOK(t, k) /\ LentOK(t, k) /\ ForkOK(t, k)
  BY <1>2, NotOwnParent DEF KinOK
<1>4. S = {k \in Procs : t[k].pptr = p} /\ p \notin S
  <2>1. \A k \in Procs : z[k].pptr = t[k].pptr
    BY <1>1
  <2> QED BY <1>3, <2>1 DEF Children
<1>5. /\ \A k \in Procs \ {p} : Taken(t[k], u[k])
      /\ \A k \in Procs : u[k].pptr = IF t[k].pptr = p THEN init ELSE t[k].pptr
      /\ u[p].stat = "SZOMB" /\ u[p].pc = "none" /\ u[p].vfork = FALSE
      /\ (S # {} => u[init].wchan # init)
  <2>1. \A k \in Procs \ {p} : Taken(t[k], u[k])
    BY <1>1 DEF Adopted
  <2>2. Taken(x, u[p])
    BY <1>1 DEF Adopted
  <2>3. u[p].stat = "SZOMB" /\ u[p].pc = "none" /\ u[p].vfork = FALSE
    BY <1>1, <2>2 DEF Taken, Dead
  <2>4. \A k \in Procs : u[k].pptr = IF t[k].pptr = p THEN init ELSE t[k].pptr
    <3>1. \A k \in Procs : z[k].pptr = t[k].pptr
      BY <1>1
    <3> QED BY <1>1, <1>4, <3>1 DEF Adopted
  <2>5. S # {} => u[init].wchan # init
    BY <1>1 DEF Adopted
  <2> QED BY <2>1, <2>3, <2>4, <2>5
<1>6. init \in Procs /\ t[init].stat \notin Dead /\ t[init].pptr = None
  BY <1>2, SlotNames DEF PlacesOK, InitOK
<1>7. PICK m \in Procs : m = t[p].pptr /\ m # p /\ u[m].wchan # m
  <2>1. t[p].pptr \in Procs /\ t[p].pptr # p
    BY <1>1, <1>2, <1>3
  <2> QED BY <1>1, <2>1
<1>8. ASSUME NEW k \in Procs, Waiting(u[k])
      PROVE  /\ Waiting(t[k]) /\ k # p /\ k # m /\ u[k].opts = t[k].opts
             /\ \A j \in Procs : u[j].pptr = k <=> t[j].pptr = k
  <2>1. k # p
    BY <1>5, <1>8 DEF Waiting
  <2>2. Taken(t[k], u[k])
    BY <1>5, <2>1
  <2>3. u[k].pc = "wait" /\ u[k].wchan # None
    <3>1. (k = None) = FALSE
      BY OthersNot
    <3>2. u[k].pc # "waitsleep"
      BY <3>1 DEF PlacesOK, PlaceOK
    <3> QED BY <1>8, <3>2 DEF Waiting
  <2>4. u[k].wchan = k
    BY <2>3 DEF PlacesOK, PlaceOK
  <2>5. Waiting(t[k]) /\ u[k].opts = t[k].opts
    BY <2>2, <2>3 DEF Taken, Waiting
  <2>6. k # m
    BY <1>7, <2>4
  <2>7. ASSUME NEW j \in Procs
        PROVE  u[j].pptr = k <=> t[j].pptr = k
    <3>1. CASE t[j].pptr = p
      <4>1. j \in S
        BY <1>4, <3>1
      <4>2. k # init
        BY <1>5, <2>4, <4>1
      <4> QED BY <1>5, <2>1, <3>1, <4>2
    <3>2. CASE t[j].pptr # p
      BY <1>5, <3>2
    <3> QED BY <3>1, <3>2
  <2> QED BY <2>1, <2>5, <2>6, <2>7
<1>9. \A k \in Procs \ {p} : Lent(u[k]) <=> Lent(t[k])
  BY <1>5 DEF Lent, Taken
<1>10. ~Lent(u[p])
  BY <1>5 DEF Lent
<1>11. \A k \in Procs \ {p} :
          /\ u[k].pc = t[k].pc /\ u[k].child = t[k].child /\ u[k].vfork = t[k].vfork
          /\ t[k].stat \in Dead \/ u[k].stat \in Dead => u[k].stat = t[k].stat
          /\ u[k].wchan # None => t[k].wchan # None
  BY <1>5 DEF Taken
<1>12. KinOK(u)
  <2> SUFFICES ASSUME NEW k \in Procs
               PROVE  ParentOK(u, k) /\ WaitOK(u, k) /\ LentOK(u, k) /\ ForkOK(u, k)
    BY DEF KinOK
  <2>1. ParentOK(u, k)
    <3>1. CASE t[k].stat = "none"
      <4>1. k # p /\ t[k].pptr = None
        BY <1>2, <1>3, <3>1 DEF ParentOK
      <4>2. u[k].stat = "none"
        BY <1>11, <3>1, <4>1 DEF Dead
      <4>3. u[k].pptr = None
        BY <1>5, <4>1, SlotNames
      <4> QED BY <4>2, <4>3 DEF ParentOK
    <3>2. CASE t[k].stat # "none" /\ k = init
      <4>1. u[k].stat # "none"
        BY <1>1, <1>6, <1>11, <3>2 DEF Dead
      <4> QED BY <3>2, <4>1 DEF ParentOK
    <3>3. CASE t[k].stat # "none" /\ k # init
      <4>1. u[k].stat # "none"
        BY <1>5, <1>11, <3>3 DEF Dead
      <4>2. u[k].pptr \in Procs \ {k} /\ u[u[k].pptr].stat \notin Dead
        <5>1. CASE t[k].pptr = p
          <6>1. u[init].stat \notin Dead
            BY <1>1, <1>6, <1>11
          <6> QED BY <1>5, <1>6, <3>3, <5>1, <6>1
        <5>2. CASE t[k].pptr # p
          <6>1. PICK j \in Procs : j = t[k].pptr
            BY <1>3, <3>3
          <6>2. j # p /\ j # k /\ t[j].stat \notin Dead
            BY <1>3, <3>3, <5>2, <6>1
          <6>3. u[j].stat \notin Dead
            BY <1>11, <6>2
          <6> QED BY <1>5, <5>2, <6>1, <6>2, <6>3
        <5> QED BY <5>1, <5>2
      <4> QED BY <4>1, <4>2 DEF ParentOK
    <3> QED BY <3>1, <3>2, <3>3
  <2>2. WaitOK(u, k)
    <3> SUFFICES ASSUME Waiting(u[k])
                 PROVE  /\ \E j \in Procs : u[j].pptr = k
                        /\ \A j \in Procs : u[j].pptr = k => u[j].stat # "SZOMB"
      BY DEF WaitOK
    <3>1. /\ Waiting(t[k]) /\ k # p /\ k # m
          /\ \A j \in Procs : u[j].pptr = k <=> t[j].pptr = k
      BY <1>8
    <3>2. /\ \E j \in Procs : t[j].pptr = k
          /\ \A j \in Procs : t[j].pptr = k => t[j].stat # "SZOMB"
      BY <1>3, <3>1 DEF WaitOK
    <3>3. ASSUME NEW j \in Procs, u[j].pptr = k
          PROVE  u[j].stat # "SZOMB"
      <4>1. t[j].pptr = k /\ j # p
        BY <1>7, <3>1, <3>3
      <4> QED BY <1>11, <3>2, <4>1 DEF Dead
    <3> QED BY <3>1, <3>2, <3>3
  <2>3. LentOK(u, k)
    <3> SUFFICES ASSUME Lent(u[k])
                 PROVE  u[u[k].pptr].pc \in {"procdup", "vfork"} /\ u[u[k].pptr].child = k
      BY DEF LentOK
    <3>1. k # p /\ Lent(t[k])
      BY <1>9, <1>10
    <3>2. PICK j \in Procs : j = t[k].pptr
      BY <1>3, <3>1
    <3>3. t[j].pc \in {"procdup", "vfork"} /\ t[j].child = k
      BY <1>3, <3>1, <3>2 DEF LentOK
    <3>4. j # p
      BY <1>1, <3>3
    <3> QED BY <1>5, <1>11, <3>2, <3>3, <3>4
  <2>4. ForkOK(u, k)
    <3> SUFFICES ASSUME u[k].pc \in {"procdup", "vfork"}
                 PROVE  ForkOK(u, k)
      BY DEF ForkOK
    <3>1. k # p /\ t[k].pc = u[k].pc /\ t[k].child = u[k].child
      BY <1>5, <1>11
    <3>2. PICK d \in Procs : d = t[k].child
      BY <1>2, <3>1 DEF PlacesOK, PlaceOK
    <3>3. /\ t[d].pptr = k
          /\ t[k].pc = "procdup" => t[d].stat = "SIDL"
          /\ t[k].pc = "vfork" => /\ t[d].stat \notin {"none", "SZOMB"} /\ Lent(t[d])
                                  /\ t[k].wchan # None => t[d].vfork
      BY <1>3, <3>1, <3>2 DEF ForkOK
    <3>4. d # p
      BY <1>1, <1>2, <3>1, <3>3
    <3>5. u[d].pptr = k
      BY <1>5, <3>1, <3>3
    <3>6. /\ t[d].stat = "SIDL" => u[d].stat = "SIDL"
          /\ t[d].stat \notin {"none", "SZOMB"} => u[d].stat \notin {"none", "SZOMB"}
          /\ Lent(u[d]) <=> Lent(t[d])
          /\ u[d].vfork = t[d].vfork
      BY <1>9, <1>11, <3>4 DEF Dead
    <3>7. u[k].wchan # None => t[k].wchan # None
      BY <1>11, <3>1
    <3> QED BY <3>1, <3>2, <3>3, <3>5, <3>6, <3>7 DEF ForkOK
  <2> QED BY <2>1, <2>2, <2>3, <2>4
<1>13. StopsNotTyped => Told(u)
  <2> SUFFICES ASSUME StopsNotTyped, NEW k \in Procs, NEW j \in Procs, Waiting(u[k]),
                      "WUNTRACED" \in u[k].opts, u[j].pptr = k, u[j].stat = "SSTOP"
               PROVE  u[j].swted
    BY DEF Told
  <2>1. Waiting(t[k]) /\ "WUNTRACED" \in t[k].opts /\ t[j].pptr = k
    BY <1>8
  <2>2. j # p
    BY <1>5
  <2>3. t[j].stat = "SSTOP" /\ u[j].swted = t[j].swted
    BY <1>5, <2>2 DEF Taken, NotStopped
  <2> QED BY <1>2, <2>1, <2>3 DEF Told
<1> QED BY <1>12, <1>13 DEF StateOK

\* A process becomes a zombie.
ZombieRec(r) == [[r EXCEPT !.stat = "SZOMB"] EXCEPT !.pc = "none"]

LEMMA ZombieRecord ==
    ASSUME NEW r \in Proc, r.rq = FALSE, r.wchan = None, r.sub = "main", ~r.vfork, ~r.vfdone,
           SignalOK(r), ContNotTyped => CONT \notin r.mask, NEW p \in Procs
    PROVE  LET x == ZombieRec(r)
           IN /\ x \in Proc /\ x.stat = "SZOMB" /\ x.pc = "none" /\ x.pptr = r.pptr
              /\ x.vfork = FALSE /\ RecordOK(x, FALSE) /\ PlaceOK(p, x, FALSE)
<1>1. PICK x : x = ZombieRec(r)
  OBVIOUS
<1>2. ZombieRec(r) \in Proc
  BY ZenonT(60) DEF ZombieRec, Proc
<1>3. /\ x.stat = "SZOMB" /\ x.rq = FALSE /\ x.pptr = r.pptr /\ x.wchan = None
      /\ x.sig = r.sig /\ x.mask = r.mask /\ x.disp = r.disp
      /\ x.vfork = FALSE /\ x.vfdone = FALSE /\ x.pc = "none" /\ x.sub = "main"
  BY <1>1 DEF ZombieRec, Proc
<1>4. QueueOK(x, FALSE)
  BY <1>3 DEF QueueOK
<1>5. SignalOK(x)
  BY <1>3 DEF SignalOK
<1>6. SeenOK(x)
  BY <1>3 DEF SeenOK
<1>7. ContNotTyped => StopOK(x)
  BY <1>3 DEF StopOK
<1>8. PlaceOK(p, x, FALSE)
  BY <1>3 DEF PlaceOK
<1> QED BY <1>1, <1>2, <1>3, <1>4, <1>5, <1>6, <1>7, <1>8 DEF RecordOK

\* Zombie keeps the invariant.
LEMMA ZombieStep ==
    ASSUME StateOK(proc, cur), NEW p \in Procs, Zombie(p)
    PROVE  StateOK(proc', cur')
<1> DEFINE r == proc[p]
           x == ZombieRec(r)
           z == [proc EXCEPT ![p] = x]
           S == Children(z, p)
           o == InOrder(Orphan, z, S)
           m == o[p].pptr
           s == Psignal(o, m, CHLD)
           u == Wakeup(s, m)
<1>1. At(p, "close")
  BY DEF Zombie
<1>2. /\ cur = p /\ StateOK(proc, p) /\ proc \in [Procs -> Proc] /\ r \in Proc
      /\ r.pc = "close" /\ r.sub = "main" /\ r.wchan = None
      /\ r.stat = "SRUN" /\ r.rq = FALSE /\ SignalOK(r)
      /\ (ContNotTyped => CONT \notin r.mask)
      /\ PlaceOK(p, r, TRUE) /\ (p = init => InitOK(r))
      /\ PlacesOK(proc, p) /\ KinOK(proc)
  BY <1>1, AtFacts
<1>3. proc' = u /\ cur' = None
  <2>1. [proc EXCEPT ![p].stat = "SZOMB", ![p].pc = "none"] = z
    BY <1>2 DEF ZombieRec
  <2> HIDE DEF z
  <2> QED BY <2>1 DEF Zombie, Swtch
<1>4. p # init /\ ~r.vfork /\ ~r.vfdone /\ ~Lent(r)
  BY <1>2 DEF InitOK, PlaceOK, Lent
<1> HIDE DEF r
<1>5. /\ x \in Proc /\ x.stat = "SZOMB" /\ x.pc = "none" /\ x.pptr = r.pptr
      /\ x.vfork = FALSE /\ RecordOK(x, FALSE) /\ PlaceOK(p, x, FALSE)
  BY <1>2, <1>4, ZombieRecord
<1> HIDE DEF x
<1>6. TableOK(z, None) /\ PlacesOK(z, None)
  <2>1. TableOK(proc, p)
    BY <1>2 DEF StateOK
  <2>2. TableOK(z, None)
    BY <1>5, <2>1, TableOff
  <2>3. PlacesOK(z, None)
    BY <1>2, <1>4, <1>5, PlacesOff
  <2> QED BY <2>2, <2>3
<1>7. z \in [Procs -> Proc] /\ z[p] = x /\ \A k \in Procs \ {p} : z[k] = proc[k]
  BY <1>2, <1>5
<1> HIDE DEF z
<1>8. x.pptr \in Procs \ {p} /\ proc[p].pptr = x.pptr /\ S \subseteq Procs \ {init} /\ p \notin S
  <2>1. proc[p].pptr \in Procs \ {p}
    <3>1. r = proc[p]
      BY DEF r
    <3> QED BY <1>2, <1>4, <3>1, NotOwnParent
  <2>2. x.pptr = proc[p].pptr
    BY <1>5 DEF r
  <2>3. init \notin S
    <3>1. proc[init].pptr = None
      BY <1>2 DEF PlacesOK, InitOK
    <3>2. z[init].pptr = None
      BY <1>4, <1>7, <3>1, SlotNames
    <3> QED BY <3>2, SlotNames DEF Children
  <2> QED BY <1>7, <2>1, <2>2, <2>3 DEF Children
<1>9. TableOK(o, None) /\ PlacesOK(o, None) /\ Adopted(z, o, S)
  <2>1. PICK T, v : T = S /\ v = o
    OBVIOUS
  <2> HIDE DEF S
  <2>2. T \subseteq Procs \ {init} /\ v = InOrder(Orphan, z, T)
    BY <1>8, <2>1
  <2> HIDE DEF o
  <2> QED BY <1>6, <2>1, <2>2, OrphansAdopted
<1> HIDE DEF S, o
<1>10. m = x.pptr /\ m \in Procs
  BY <1>7, <1>8, <1>9 DEF Adopted
<1> HIDE DEF m
<1>11. TableOK(s, None) /\ Frame(o, s) /\ Quiet(o, s)
  <2>1. CHLD \in Signals /\ CHLD \notin Stops /\ CHLD \notin {CONT, KILL}
    BY SignalNumbers
  <2> HIDE DEF CHLD
  <2> QED BY <1>9, <1>10, <2>1, PsignalKeeps
<1> HIDE DEF s
<1>12. TableOK(u, None) /\ Frame(s, u) /\ Quiet(s, u) /\ u[m].wchan # m
  <2>1. m \in Channels
    BY <1>10, SlotNames
  <2> QED BY <1>10, <1>11, <2>1, WakeupKeeps
<1> HIDE DEF u
<1>13. Frame(o, u)
  BY <1>11, <1>12, FrameJoin
<1>14. PlacesOK(u, None)
  BY <1>9, <1>13, FrameKeepsPlaces
<1>15. Adopted(z, u, S)
  <2>1. \A k \in Procs : Moved(o[k], u[k]) /\ NotStopped(o[k], u[k])
    BY <1>11, <1>12, <1>13 DEF Frame, Quiet, NotStopped
  <2>2. \A k \in Procs : Taken(o[k], u[k]) /\ u[k].pptr = o[k].pptr
    BY <2>1 DEF Moved, Fixed, Taken
  <2>3. \A k \in Procs : Taken(z[k], u[k])
    BY <1>9, <2>2 DEF Adopted, Taken, NotStopped
  <2>4. \A k \in Procs : u[k].pptr = IF k \in S THEN init ELSE z[k].pptr
    BY <1>9, <2>2 DEF Adopted
  <2>5. S # {} => u[init].wchan # init
    BY <1>9, <2>1, SlotNames DEF Adopted, Moved
  <2> QED BY <2>3, <2>4, <2>5 DEF Adopted
<1>16. StateOK(u, None)
  <2>1. Exited(proc, p, z, m)
    <3>1. p # init /\ proc[p].pc = "close" /\ ~Lent(proc[p])
      BY <1>2, <1>4 DEF r
    <3> QED BY <1>5, <1>7, <1>8, <1>10, <3>1 DEF Exited
  <2>2. Mourned(z, p, u, m)
    BY <1>12, <1>15 DEF Mourned, S
  <2> QED BY <1>2, <1>12, <1>14, <2>1, <2>2, ExitedKeepsState
<1> QED BY <1>3, <1>16

------------------------------------------------------------------------------
(* The invariant. *)

\* At the start there are init and its shell.
LEMMA StartRecords ==
    /\ LET x == [Free EXCEPT !.stat = "SRUN", !.pc = "user"]
       IN /\ x \in Proc /\ RecordOK(x, TRUE) /\ \A p : PlaceOK(p, x, TRUE)
          /\ InitOK(x) /\ x.stat = "SRUN" /\ x.pc = "user" /\ ~x.vfork
    /\ LET x == [Free EXCEPT !.stat = "SRUN", !.pc = "user", !.pptr = init, !.rq = TRUE]
       IN /\ x \in Proc /\ RecordOK(x, FALSE) /\ \A p : PlaceOK(p, x, FALSE)
          /\ x.pptr = init /\ x.stat = "SRUN" /\ x.pc = "user" /\ ~x.vfork
<1>1. /\ KILL \in Signals /\ CONT \in Signals /\ init \in Procs /\ None \notin Procs
      /\ {} \in Masks
  BY SignalNumbers, SlotNames DEF Masks
<1>2. [Free EXCEPT !.stat = "SRUN", !.pc = "user"] \in Proc
  <2>1. Free \in Proc
    BY FreeFields
  <2>2. PICK f \in Proc : f = Free
    BY <2>1
  <2>3. PICK g : g = [f EXCEPT !.stat = "SRUN"]
    OBVIOUS
  <2>4. g \in Proc
    BY <2>3 DEF Proc
  <2>5. [g EXCEPT !.pc = "user"] \in Proc
    BY <2>4, BirthUpdates
  <2> QED BY <2>2, <2>3, <2>5
<1>3. [Free EXCEPT !.stat = "SRUN", !.pc = "user", !.pptr = init, !.rq = TRUE] \in Proc
  <2>1. PICK f : f = [Free EXCEPT !.stat = "SRUN", !.pc = "user"]
    OBVIOUS
  <2>2. [f EXCEPT !.pptr = init, !.rq = TRUE] \in Proc
    <3>1. f \in Proc
      BY <1>2, <2>1
    <3> QED BY <1>1, <3>1 DEF Proc
  <2>3. [Free EXCEPT !.stat = "SRUN", !.pc = "user", !.pptr = init, !.rq = TRUE]
          = [f EXCEPT !.pptr = init, !.rq = TRUE]
    BY <2>1
  <2> QED BY <2>2, <2>3
<1>4. LET x == [Free EXCEPT !.stat = "SRUN", !.pc = "user"]
      IN /\ x.stat = "SRUN" /\ x.pc = "user" /\ x.pptr = None /\ x.rq = FALSE
         /\ x.wchan = None /\ x.intr = FALSE /\ x.sig = {} /\ x.mask = {}
         /\ (\A s \in Signals : x.disp[s] = "dfl") /\ x.cursig = 0 /\ x.vfork = FALSE
         /\ x.vfdone = FALSE /\ x.sub = "main"
  BY DEF Free
<1>5. LET x == [Free EXCEPT !.stat = "SRUN", !.pc = "user", !.pptr = init, !.rq = TRUE]
      IN /\ x.stat = "SRUN" /\ x.pc = "user" /\ x.pptr = init /\ x.rq = TRUE
         /\ x.wchan = None /\ x.intr = FALSE /\ x.sig = {} /\ x.mask = {}
         /\ (\A s \in Signals : x.disp[s] = "dfl") /\ x.cursig = 0 /\ x.vfork = FALSE
         /\ x.vfdone = FALSE /\ x.sub = "main"
  BY DEF Free
<1>6. ASSUME NEW x \in Proc, NEW on \in BOOLEAN, x.stat = "SRUN", x.pc = "user", x.rq = ~on,
             x.wchan = None, x.sig = {}, x.mask = {},
             \A s \in Signals : x.disp[s] = "dfl", x.vfork = FALSE, x.vfdone = FALSE,
             x.sub = "main"
      PROVE  RecordOK(x, on) /\ \A p : PlaceOK(p, x, on)
  <2>1. QueueOK(x, on)
    BY <1>6 DEF QueueOK
  <2>2. SignalOK(x) /\ SeenOK(x) /\ StopOK(x)
    BY <1>1, <1>6 DEF SignalOK, SeenOK, StopOK
  <2>3. \A p : PlaceOK(p, x, on)
    BY <1>1, <1>6 DEF PlaceOK
  <2> QED BY <2>1, <2>2, <2>3 DEF RecordOK
<1>7. PICK x, y : /\ x = [Free EXCEPT !.stat = "SRUN", !.pc = "user"]
                  /\ y = [Free EXCEPT !.stat = "SRUN", !.pc = "user", !.pptr = init, !.rq = TRUE]
  OBVIOUS
<1>8. RecordOK(x, TRUE) /\ \A p : PlaceOK(p, x, TRUE)
  <2>1. x \in Proc
    BY <1>2, <1>7
  <2>2. /\ x.stat = "SRUN" /\ x.pc = "user" /\ x.rq = FALSE /\ x.wchan = None /\ x.sig = {}
        /\ x.mask = {} /\ (\A s \in Signals : x.disp[s] = "dfl") /\ x.vfork = FALSE
        /\ x.vfdone = FALSE /\ x.sub = "main"
    BY <1>4, <1>7
  <2>3. x.rq = ~TRUE
    BY <2>2
  <2> QED BY <1>6, <2>1, <2>2, <2>3
<1>9. RecordOK(y, FALSE) /\ \A p : PlaceOK(p, y, FALSE)
  <2>1. y \in Proc
    BY <1>3, <1>7
  <2>2. /\ y.stat = "SRUN" /\ y.pc = "user" /\ y.rq = ~FALSE /\ y.wchan = None /\ y.sig = {}
        /\ y.mask = {} /\ (\A s \in Signals : y.disp[s] = "dfl") /\ y.vfork = FALSE
        /\ y.vfdone = FALSE /\ y.sub = "main"
    BY <1>5, <1>7
  <2> QED BY <1>6, <2>1, <2>2
<1>10. InitOK(x)
  BY <1>4, <1>7 DEF InitOK, Dead
<1> QED BY <1>2, <1>3, <1>4, <1>5, <1>7, <1>8, <1>9, <1>10

LEMMA InitHolds ==
    ASSUME Init
    PROVE  IInv
<1> DEFINE x == [Free EXCEPT !.stat = "SRUN", !.pc = "user"]
           y == [Free EXCEPT !.stat = "SRUN", !.pc = "user", !.pptr = init, !.rq = TRUE]
<1>1. /\ init \in Procs /\ shell \in Procs /\ shell # init /\ None \notin Procs
  BY SlotNames
<1>2. /\ x \in Proc /\ RecordOK(x, TRUE) /\ (\A p : PlaceOK(p, x, TRUE))
      /\ InitOK(x) /\ x.stat = "SRUN" /\ x.pc = "user" /\ ~x.vfork
      /\ y \in Proc /\ RecordOK(y, FALSE) /\ (\A p : PlaceOK(p, y, FALSE))
      /\ y.pptr = init /\ y.stat = "SRUN" /\ y.pc = "user" /\ ~y.vfork
  BY StartRecords
<1>3. /\ Free \in Proc /\ Free.stat = "none" /\ Free.pptr = None /\ Free.pc = "none"
      /\ Free.vfork = FALSE /\ RecordOK(Free, FALSE) /\ \A p : PlaceOK(p, Free, FALSE)
  BY FreeFields
<1>4. /\ proc = [p \in Procs |-> CASE p = init -> x [] p = shell -> y [] OTHER -> Free]
      /\ cur = init /\ forks = 0 /\ signals = 0
  BY DEF Init
<1> HIDE DEF x, y
<1>5. /\ proc \in [Procs -> Proc] /\ proc[init] = x /\ proc[shell] = y
      /\ \A p \in Procs \ {init, shell} : proc[p] = Free
  <2>1. \A p \in Procs : (CASE p = init -> x [] p = shell -> y [] OTHER -> Free)
                            = IF p = init THEN x ELSE IF p = shell THEN y ELSE Free
    BY <1>1
  <2>2. proc = [p \in Procs |-> IF p = init THEN x ELSE IF p = shell THEN y ELSE Free]
    BY <1>4, <2>1
  <2> QED BY <1>1, <1>2, <1>3, <2>2
<1>6. \A p \in Procs : /\ proc[p].pc \in {"user", "none"} /\ ~proc[p].vfork
                       /\ proc[p].stat \in {"SRUN", "none"}
                       /\ proc[p].stat = "none" => proc[p].pptr = None
                       /\ p # init /\ proc[p].stat # "none" => proc[p].pptr = init /\ p = shell
  BY <1>2, <1>3, <1>5
<1>7. \A p \in Procs : RecordOK(proc[p], p = cur) /\ PlaceOK(p, proc[p], p = cur)
  <2> SUFFICES ASSUME NEW p \in Procs
               PROVE  RecordOK(proc[p], p = cur) /\ PlaceOK(p, proc[p], p = cur)
    OBVIOUS
  <2>1. CASE p = init
    <3>1. (p = cur) = TRUE
      BY <1>4, <2>1
    <3> QED BY <1>2, <1>5, <2>1, <3>1
  <2>2. CASE p # init
    <3>1. (p = cur) = FALSE
      BY <1>4, <2>2
    <3> QED BY <1>2, <1>3, <1>5, <2>2, <3>1
  <2> QED BY <2>1, <2>2
<1>8. TableOK(proc, cur) /\ PlacesOK(proc, cur)
  BY <1>2, <1>5, <1>7 DEF TableOK, PlacesOK
<1>9. KinOK(proc)
  <2> SUFFICES ASSUME NEW p \in Procs
               PROVE  ParentOK(proc, p) /\ WaitOK(proc, p) /\ LentOK(proc, p) /\ ForkOK(proc, p)
    BY DEF KinOK
  <2>1. ParentOK(proc, p)
    <3>1. proc[init].stat \notin Dead
      BY <1>2, <1>5 DEF Dead
    <3> QED BY <1>1, <1>6, <3>1 DEF ParentOK
  <2>2. WaitOK(proc, p) /\ LentOK(proc, p) /\ ForkOK(proc, p)
    BY <1>6 DEF WaitOK, Waiting, LentOK, Lent, ForkOK
  <2> QED BY <2>1, <2>2
<1>10. Told(proc)
  BY <1>6 DEF Told
<1>11. /\ cur \in Procs \cup {None} /\ forks \in 0 .. MaxForks /\ signals \in 0 .. MaxSignals
  <2>1. MaxForks \in Nat /\ MaxSignals \in Nat
    BY ProcessesAssumption
  <2> QED BY <1>1, <1>4, <2>1
<1> QED BY <1>8, <1>9, <1>10, <1>11 DEF IInv, StateOK

\* What a process does in the kernel keeps the invariant.
LEMMA ContinueStep ==
    ASSUME StateOK(proc, cur), NEW p \in Procs, Continue(p)
    PROVE  StateOK(proc', cur')
<1>1. CASE Awake(p)
  BY <1>1, AwakeStep
<1>2. CASE IssigNone(p)
  BY <1>2, IssigNoneStep
<1>3. CASE IssigDiscard(p)
  BY <1>3, DiscardStep
<1>4. CASE IssigOrphan(p)
  BY <1>4, IssigOrphanStep
<1>5. CASE IssigStop(p)
  BY <1>5, IssigStopStep
<1>6. CASE Stop(p)
  BY <1>6, StopStep
<1>7. CASE IssigSend(p)
  BY <1>7, IssigSendStep
<1>8. CASE TrapIssig(p)
  BY <1>8, TrapIssigStep
<1>9. CASE TrapReturn(p)
  BY <1>9, TrapReturnStep
<1>10. CASE Preempt(p)
  BY <1>10, PreemptStep
<1>11. CASE PsigCatch(p)
  BY <1>11, PsigCatchStep
<1>12. CASE PsigExit(p)
  BY <1>12, PsigExitStep
<1>13. CASE Pause(p)
  BY <1>13, PauseStep
<1>14. CASE StartChild(p)
  BY <1>14, StartChildStep
<1>15. CASE VforkWait(p)
  BY <1>15, VforkWaitStep
<1>16. CASE VforkDone(p)
  BY <1>16, VforkDoneStep
<1>17. CASE VfdoneWait(p)
  BY <1>17, VfdoneWaitStep
<1>18. CASE VfdoneExec(p)
  BY <1>18, VfdoneExecStep
<1>19. CASE VfdoneExit(p)
  BY <1>19, VfdoneExitStep
<1>20. CASE CloseWait(p)
  BY <1>20, CloseWaitStep
<1>21. CASE Zombie(p)
  BY <1>21, ZombieStep
<1>22. CASE WaitFound(p)
  BY <1>22, WaitFoundStep
<1>23. CASE WaitNone(p)
  BY <1>23, WaitNoneStep
<1>24. CASE WaitScanned(p)
  BY <1>24, WaitScannedStep
<1>25. CASE WaitSleep(p)
  BY <1>25, WaitSleepStep
<1>26. ASSUME NEW dev \in Devices, ReadWait(p, dev)
       PROVE  StateOK(proc', cur')
  BY <1>26, ReadWaitStep
<1>27. ASSUME NEW dev \in Devices, ReadDone(p, dev)
       PROVE  StateOK(proc', cur')
  BY <1>27, ReadDoneStep
<1> QED BY <1>1, <1>2, <1>3, <1>4, <1>5, <1>6, <1>7, <1>8, <1>9, <1>10, <1>11, <1>12,
           <1>13, <1>14, <1>15, <1>16, <1>17, <1>18, <1>19, <1>20, <1>21, <1>22, <1>23,
           <1>24, <1>25, <1>26, <1>27 DEF Continue

\* ... and so do its system calls.
LEMMA CallStep ==
    ASSUME StateOK(proc, cur), NEW p \in Procs, Call(p)
    PROVE  StateOK(proc', cur')
<1>1. ASSUME NEW q \in Procs, NEW s \in Killed, Kill(p, q, s)
      PROVE  StateOK(proc', cur')
  BY <1>1, KillStep
<1>2. ASSUME NEW s \in Caught, NEW d \in {"dfl", "ign", "catch"}, Sigvec(p, s, d)
      PROVE  StateOK(proc', cur')
  BY <1>2, SigvecStep
<1>3. ASSUME NEW m \in SUBSET Blockable, Sigsetmask(p, m)
      PROVE  StateOK(proc', cur')
  BY <1>3, SigsetmaskStep
<1>4. ASSUME NEW m \in SUBSET Blockable, Sigpause(p, m)
      PROVE  StateOK(proc', cur')
  BY <1>4, SigpauseStep
<1>5. CASE Sigcleanup(p)
  BY <1>5, SigcleanupStep
<1>6. CASE NewProc(p, TRUE)
  BY <1>6, NewProcStep
<1>7. CASE NewProc(p, FALSE)
  BY <1>7, NewProcStep
<1>8. CASE Exec(p)
  BY <1>8, ExecStep
<1>9. CASE Exit(p)
  BY <1>9, ExitStep
<1>10. ASSUME NEW opts \in {{}, {"WUNTRACED"}, {"WNOHANG", "WUNTRACED"}}, Wait(p, opts)
       PROVE  StateOK(proc', cur')
  BY <1>10, WaitStep
<1>11. ASSUME NEW dev \in Devices, Read(p, dev)
       PROVE  StateOK(proc', cur')
  BY <1>11, ReadStep
<1> QED BY <1>1, <1>2, <1>3, <1>4, <1>5, <1>6, <1>7, <1>8, <1>9, <1>10, <1>11 DEF Call

\* What the steps of a process do to the other variables.
LEMMA ContinueCounts ==
    ASSUME NEW p \in Procs, Continue(p)
    PROVE  cur' \in {cur, None} /\ Env
<1>1. CASE Awake(p) \/ IssigNone(p) \/ IssigDiscard(p) \/ IssigOrphan(p) \/ IssigStop(p)
  BY <1>1 DEF Awake, IssigNone, IssigDiscard, IssigOrphan, IssigStop, Run, Swtch
<1>2. CASE Stop(p) \/ IssigSend(p) \/ TrapIssig(p) \/ TrapReturn(p) \/ Preempt(p)
  BY <1>2 DEF Stop, IssigSend, TrapIssig, TrapReturn, Preempt, Run, Swtch
<1>3. CASE PsigCatch(p) \/ PsigExit(p) \/ StartChild(p) \/ VforkDone(p)
  BY <1>3 DEF PsigCatch, PsigExit, StartChild, VforkDone, Run
<1>4. CASE Pause(p) \/ VforkWait(p) \/ VfdoneWait(p) \/ CloseWait(p) \/ WaitSleep(p)
  BY <1>4 DEF Pause, VforkWait, VfdoneWait, CloseWait, WaitSleep, Sleep, Run, Swtch
<1>5. CASE VfdoneExec(p) \/ VfdoneExit(p) \/ Zombie(p) \/ WaitFound(p) \/ WaitNone(p)
           \/ WaitScanned(p)
  BY <1>5 DEF VfdoneExec, VfdoneExit, Zombie, WaitFound, WaitNone, WaitScanned, Run, Swtch
<1>6. CASE \E dev \in Devices : ReadWait(p, dev) \/ ReadDone(p, dev)
  BY <1>6 DEF ReadWait, ReadDone, Sleep, Run, Swtch
<1> QED BY <1>1, <1>2, <1>3, <1>4, <1>5, <1>6 DEF Continue

LEMMA CallCounts ==
    ASSUME forks \in 0 .. MaxForks, signals \in 0 .. MaxSignals, NEW p \in Procs, Call(p)
    PROVE  cur' = cur /\ forks' \in 0 .. MaxForks /\ signals' \in 0 .. MaxSignals
<1>1. MaxForks \in Nat /\ MaxSignals \in Nat
  BY ProcessesAssumption
<1>2. CASE \E q \in Procs, s \in Killed : Kill(p, q, s)
  <2>1. cur' = cur /\ forks' = forks /\ signals < MaxSignals /\ signals' = signals + 1
    BY <1>2 DEF Kill, Run
  <2> QED BY <1>1, <2>1
<1>3. CASE NewProc(p, TRUE) \/ NewProc(p, FALSE)
  <2>1. cur' = cur /\ signals' = signals /\ forks < MaxForks /\ forks' = forks + 1
    BY <1>3 DEF NewProc, Run
  <2> QED BY <1>1, <2>1
<1>4. ASSUME \/ \E s \in Caught, d \in {"dfl", "ign", "catch"} : Sigvec(p, s, d)
             \/ \E m \in SUBSET Blockable : Sigsetmask(p, m) \/ Sigpause(p, m)
             \/ Sigcleanup(p) \/ Exec(p) \/ Exit(p)
             \/ \E opts \in {{}, {"WUNTRACED"}, {"WNOHANG", "WUNTRACED"}} : Wait(p, opts)
             \/ \E dev \in Devices : Read(p, dev)
      PROVE  cur' = cur /\ Env
  BY <1>4 DEF Sigvec, Sigsetmask, Sigpause, Sigcleanup, Exec, Exit, Wait, Read, Run
<1> QED BY <1>2, <1>3, <1>4 DEF Call, Env

\* The invariant is inductive.
LEMMA NextKeeps ==
    ASSUME IInv, [Next]_vars
    PROVE  IInv'
<1>1. /\ cur \in Procs \cup {None} /\ forks \in 0 .. MaxForks /\ signals \in 0 .. MaxSignals
      /\ StateOK(proc, cur)
  BY DEF IInv
<1>2. StateOK(proc', cur')
  <2>1. ASSUME NEW p \in Procs, Dispatch(p)
        PROVE  StateOK(proc', cur')
    BY <1>1, <2>1, DispatchStep
  <2>2. ASSUME NEW p \in Procs, Trap(p)
        PROVE  StateOK(proc', cur')
    BY <1>1, <2>2, TrapStep
  <2>3. ASSUME NEW p \in Procs, Continue(p)
        PROVE  StateOK(proc', cur')
    BY <1>1, <2>3, ContinueStep
  <2>4. ASSUME NEW p \in Procs, Call(p)
        PROVE  StateOK(proc', cur')
    BY <1>1, <2>4, CallStep
  <2>5. ASSUME NEW dev \in Devices, Interrupt(dev)
        PROVE  StateOK(proc', cur')
    BY <1>1, <2>5, InterruptStep
  <2>6. ASSUME NEW s \in Typed, Type(s)
        PROVE  StateOK(proc', cur')
    BY <1>1, <2>6, TypeStep
  <2>7. CASE UNCHANGED vars
    BY <1>1, <2>7 DEF vars
  <2> QED BY <2>1, <2>2, <2>3, <2>4, <2>5, <2>6, <2>7 DEF Next
<1>3. cur' \in Procs \cup {None} /\ forks' \in 0 .. MaxForks /\ signals' \in 0 .. MaxSignals
  <2> DEFINE C == cur' \in Procs \cup {None} /\ forks' \in 0 .. MaxForks
                  /\ signals' \in 0 .. MaxSignals
  <2>1. ASSUME NEW p \in Procs, Dispatch(p)
        PROVE  C
    BY <1>1, <2>1 DEF Dispatch, Env
  <2>2. ASSUME NEW p \in Procs, Trap(p)
        PROVE  C
    BY <1>1, <2>2 DEF Trap, Run, Env
  <2>3. ASSUME NEW p \in Procs, Continue(p)
        PROVE  C
    BY <1>1, <2>3, ContinueCounts DEF Env
  <2>4. ASSUME NEW p \in Procs, Call(p)
        PROVE  C
    BY <1>1, <2>4, CallCounts
  <2>5. ASSUME NEW dev \in Devices, Interrupt(dev)
        PROVE  C
    BY <1>1, <2>5 DEF Interrupt
  <2>6. ASSUME NEW s \in Typed, Type(s)
        PROVE  C
    <3>1. cur' = cur /\ forks' = forks /\ signals < MaxSignals /\ signals' = signals + 1
      BY <2>6 DEF Type
    <3> QED BY <1>1, <3>1, ProcessesAssumption
  <2>7. CASE UNCHANGED vars
    BY <1>1, <2>7 DEF vars
  <2> QED BY <2>1, <2>2, <2>3, <2>4, <2>5, <2>6, <2>7 DEF Next
<1> QED BY <1>2, <1>3 DEF IInv

LEMMA Invariant == Spec => []IInv
<1>1. Init => IInv
  BY InitHolds
<1>2. IInv /\ [Next]_vars => IInv'
  BY NextKeeps
<1> QED BY <1>1, <1>2, PTL DEF Spec

------------------------------------------------------------------------------
(* The theorems. *)

\* Every variable has its type in every state: no handler leaves a process with
\* a record that is not one (proc.h), and the bounds of the model hold.
THEOREM TypesHold == Spec => []TypeOK
<1>1. IInv => TypeOK
  BY DEF IInv, StateOK, TableOK, TypeOK
<1> QED BY <1>1, Invariant, PTL

\* The queues are exact: the panics of sleep, wakeup, setrq and swtch
\* (kern_synch.c) do not happen, and no process that sleeps or is runnable is
\* off its queue.
THEOREM AlwaysQueued == Spec => []QueuesExact
<1>1. IInv => QueuesExact
  <2> SUFFICES ASSUME IInv, NEW p \in Procs
               PROVE  LET r == proc[p] IN
                      /\ r.rq => r.stat = "SRUN" /\ r.wchan = None /\ p # cur
                      /\ r.wchan # None => r.stat \in {"SSLEEP", "SSTOP"} \/ r.sub = "pre"
                      /\ r.stat = "SSLEEP" => r.wchan # None
                      /\ r.stat = "SRUN" => r.rq \/ p = cur
                      /\ p = cur => r.stat = "SRUN"
    BY DEF QueuesExact
  <2>1. QueueOK(proc[p], p = cur)
    BY DEF IInv, StateOK, TableOK, RecordOK
  <2> QED BY <2>1 DEF QueueOK
<1> QED BY <1>1, Invariant, PTL

\* Parents and children agree through fork, vfork, exec, exit and wait
\* (kern_fork.c, kern_exec.c, kern_exit.c).
THEOREM AlwaysKin == Spec => []KinExact
<1>1. IInv => KinExact
  <2> SUFFICES ASSUME IInv
               PROVE  KinExact
    OBVIOUS
  <2>1. /\ \A p \in Procs : /\ ParentOK(proc, p) /\ WaitOK(proc, p)
                            /\ LentOK(proc, p) /\ ForkOK(proc, p)
                            /\ PlaceOK(p, proc[p], p = cur) /\ QueueOK(proc[p], p = cur)
    BY DEF IInv, StateOK, TableOK, RecordOK, PlacesOK, KinOK
  <2>2. FamilyExact
    <3>1. ASSUME NEW p \in Procs \ {init}, proc[p].stat # "none"
          PROVE  proc[proc[p].pptr].stat \notin {"none", "SZOMB"}
      BY <2>1, <3>1 DEF ParentOK, Dead
    <3>2. ASSUME NEW p \in Procs, proc[p].stat = "SSLEEP", proc[p].pc = "wait"
          PROVE  /\ Children(proc, p) # {}
                 /\ \A q \in Children(proc, p) : proc[q].stat # "SZOMB"
      <4>1. Waiting(proc[p])
        BY <2>1, <3>2 DEF QueueOK, Waiting
      <4> QED BY <2>1, <4>1 DEF WaitOK, Children
    <3> QED BY <3>1, <3>2 DEF FamilyExact
  <2>3. VforkExact
    <3> SUFFICES ASSUME NEW p \in Procs, NEW c \in Procs
                 PROVE  /\ proc[c].stat # "none" /\ proc[c].pptr = p
                             /\ (proc[c].vfork \/ (proc[c].pc \in {"exec", "exit"} /\ ~proc[c].vfdone))
                           => proc[p].pc \in {"procdup", "vfork"} /\ proc[p].child = c
                        /\ proc[p].pc = "vfork" /\ proc[p].child = c => proc[c].pptr = p
                        /\ proc[p].pc = "vfork" /\ proc[p].child = c /\ proc[p].stat = "SSLEEP"
                           => proc[c].vfork
                        /\ proc[c].pc \in {"exec", "exit"} /\ proc[c].stat = "SSLEEP"
                           => ~proc[c].vfdone
      BY DEF VforkExact
    <3>1. ASSUME proc[c].pptr = p, Lent(proc[c])
          PROVE  proc[p].pc \in {"procdup", "vfork"} /\ proc[p].child = c
      BY <2>1, <3>1 DEF LentOK
    <3>2. ASSUME proc[p].pc = "vfork", proc[p].child = c
          PROVE  proc[c].pptr = p /\ (proc[p].stat = "SSLEEP" => proc[c].vfork)
      BY <2>1, <3>2 DEF ForkOK, QueueOK
    <3>3. ASSUME proc[c].pc \in {"exec", "exit"}, proc[c].stat = "SSLEEP"
          PROVE  ~proc[c].vfdone
      BY <2>1, <3>3 DEF PlaceOK, QueueOK
    <3> QED BY <3>1, <3>2, <3>3 DEF Lent
  <2> QED BY <2>2, <2>3 DEF KinExact
<1> QED BY <1>1, Invariant, PTL

\* No process sleeps through a signal that it should act on (kern_sig.c psignal,
\* kern_synch.c sleep).  Who catches SIGCHLD may: when sleep finds it pending
\* together with a stop signal, the process stops first, and SIGCONT puts it to
\* sleep without a look at the rest.
THEOREM SignalsSeen == ChldNotCaught => (Spec => []SignalSeen)
<1>1. ASSUME ChldNotCaught
      PROVE  IInv => SignalSeen
  <2> SUFFICES ASSUME IInv, NEW p \in Procs, proc[p].stat = "SSLEEP", proc[p].intr,
                      NEW s \in Deliverable(proc[p])
               PROVE  s \in {CONT, CHLD} /\ proc[p].disp[s] = "dfl"
    BY DEF SignalSeen
  <2>1. proc[p] \in Proc /\ SeenOK(proc[p]) /\ SignalOK(proc[p])
    BY DEF IInv, StateOK, TableOK, RecordOK
  <2>2. /\ s \in proc[p].sig /\ s \in Signals /\ s \notin proc[p].mask
        /\ proc[p].disp[s] # "ign" /\ ~(proc[p].vfork /\ s \in Stops)
    BY <2>1, DeliverableIs
  <2>3. s = CHLD \/ (s = CONT /\ proc[p].disp[s] = "dfl")
    BY <2>1, <2>2 DEF SeenOK
  <2>4. s = CHLD => proc[p].disp[s] = "dfl"
    <3>1. proc[p].disp[s] \in {"dfl", "ign", "catch"}
      BY <2>1, <2>2 DEF Proc
    <3>2. proc[p].disp[s] = "catch" => s \in Caught
      BY <2>1, <2>2 DEF SignalOK
    <3> QED BY <1>1, <2>2, <3>1, <3>2 DEF ChldNotCaught
  <2> QED BY <2>3, <2>4
<1>2. CASE ChldNotCaught
  <2>1. IInv => SignalSeen
    BY <1>1, <1>2
  <2>2. Spec => []SignalSeen
    BY <2>1, Invariant, PTL
  <2> QED BY <2>2
<1> QED BY <1>2

\* Who is stopped has been told neither to go on nor to die (kern_sig.c psignal,
\* issig, stop).
THEOREM StopsExact == ContNotTyped => (Spec => []StopExact)
<1>1. ASSUME ContNotTyped
      PROVE  IInv => StopExact
  BY <1>1 DEF IInv, StateOK, TableOK, RecordOK, StopOK, StopExact
<1>2. CASE ContNotTyped
  <2>1. IInv => StopExact
    BY <1>1, <1>2
  <2>2. Spec => []StopExact
    BY <2>1, Invariant, PTL
  <2> QED BY <2>2
<1> QED BY <1>2

\* A parent that asked for stopped children does not sleep while one is there
\* that it has not been told of (kern_sig.c stop, kern_exit.c wait1).
THEOREM StopsTold == StopsNotTyped => (Spec => []StopsReported)
<1>1. ASSUME StopsNotTyped
      PROVE  IInv => StopsReported
  <2> SUFFICES ASSUME IInv, NEW p \in Procs, NEW q \in Procs,
                      proc[p].stat = "SSLEEP", proc[p].pc = "wait",
                      "WUNTRACED" \in proc[p].opts, proc[q].pptr = p, proc[q].stat = "SSTOP"
               PROVE  proc[q].swted
    BY DEF StopsReported
  <2>1. QueueOK(proc[p], p = cur) /\ Told(proc)
    BY <1>1 DEF IInv, StateOK, TableOK, RecordOK
  <2>2. Waiting(proc[p])
    BY <2>1 DEF QueueOK, Waiting
  <2> QED BY <2>1, <2>2 DEF Told
<1>2. CASE StopsNotTyped
  <2>1. IInv => StopsReported
    BY <1>1, <1>2
  <2>2. Spec => []StopsReported
    BY <2>1, Invariant, PTL
  <2> QED BY <2>2
<1> QED BY <1>2
=============================================================================
