------------------------------ MODULE Processes ------------------------------
(* Processes of 4.2BSD on one processor: sleep and wakeup (kern_synch.c),    *)
(* signals and stopping (kern_sig.c), fork, vfork, exec, exit and wait       *)
(* (kern_fork.c, kern_exec.c, kern_exit.c).  The process cur runs until it   *)
(* gives the processor up in swtch; interrupts come between its steps,       *)
(* except where the code has raised the priority with spl6.                  *)
EXTENDS Integers, Sequences, FiniteSets, FiniteSetsExt, SequencesExt

CONSTANTS Procs,       \* the slots of the process table
          None,        \* no process, no channel
          Tty, Disk,   \* the channels of two devices
          Uarea,       \* &u, the channel of sigpause, on which nobody is woken
          Programs,    \* for each process, the system calls it makes
          Killed,      \* the signals that processes send with kill
          Group,       \* the slots whose processes are in the process group
                       \* of the terminals
          Typed,       \* what terminals send to it at interrupt level, each
                       \* a sequence of signals
          Caught,      \* the signals a process may catch
          Blockable,   \* the signals it may ask to block
          MaxForks,    \* bound: forks and vforks
          MaxSignals   \* bound: calls of kill, and signals from terminals

\* signal.h; issig takes the lowest of the pending signals.  HUP stands for all
\* the signals that end a process unless it catches, holds or ignores them.
HUP == 1
KILL == 9
STOP == 17
TSTP == 18
CONT == 19
CHLD == 20
Signals == {HUP, KILL, STOP, TSTP, CONT, CHLD}
Stops == {STOP, TSTP}
Cantmask == {KILL, CONT, STOP}

\* &proc[1], the parent of orphans, and the first process it makes.
init == Min(Procs)
shell == Min(Procs \ {init})

SystemCalls == {"fork", "vfork", "exec", "exit", "wait", "waitstopped", "poll",
                "kill", "sigvec", "sigsetmask", "sigpause", "tty", "disk"}

ASSUME ProcessesAssumption ==
    /\ IsFiniteSet(Procs) /\ Procs \subseteq Nat /\ Cardinality(Procs) >= 2
    /\ {None, Tty, Disk, Uarea} \cap Procs = {}
    /\ Cardinality({None, Tty, Disk, Uarea}) = 4
    /\ Programs \in [Procs -> SUBSET SystemCalls]
    /\ "exit" \notin Programs[init]       \* exit panics: "init died"
    /\ Killed \subseteq Signals
    /\ Group \subseteq Procs \ {init}
    /\ Typed \subseteq Seq(Signals)
    /\ Caught \subseteq Signals \ {KILL, STOP}
    /\ Blockable \subseteq Signals
    /\ MaxForks \in Nat /\ MaxSignals \in Nat

VARIABLES proc,     \* the process table
          cur,      \* the process that runs, None in the idle loop of swtch
          forks,    \* how many forks and vforks there have been
          signals   \* how often kill and the terminals have sent signals

vars == <<proc, cur, forks, signals>>

------------------------------------------------------------------------------
(* The process table. *)

Devices == {Tty, Disk}
Channels == Procs \cup Devices \cup {Uarea}
Masks == SUBSET (Signals \ {KILL, STOP})

\* stat is p_stat; rq: p_rlink is set; intr: p_pri > PZERO; pc is the place in
\* the kernel, and sub the place in sleep and issig below it.
Proc == [stat : {"none", "SIDL", "SRUN", "SSLEEP", "SSTOP", "SZOMB"},
         pptr : Procs \cup {None}, rq : BOOLEAN,
         wchan : Channels \cup {None}, intr : BOOLEAN,
         sig : SUBSET Signals, mask : Masks,
         disp : [Signals -> {"dfl", "ign", "catch"}],
         cursig : Signals \cup {0}, frames : Seq(Masks),
         omask : {{None}} \cup Masks,
         vfork : BOOLEAN, vfdone : BOOLEAN, swted : BOOLEAN,
         child : Procs \cup {None}, xstat : Signals \cup {0},
         pc : {"none", "user", "trap", "procdup", "vfork", "exec", "exit",
               "close", "wait", "waitsleep", "sigpause", "tty", "disk"},
         opts : SUBSET {"WUNTRACED", "WNOHANG"},
         sub : {"main", "slept", "pre", "issig", "stop"}]

\* A slot of the table that no process has.
Free == [stat |-> "none", pptr |-> None, rq |-> FALSE, wchan |-> None,
         intr |-> FALSE, sig |-> {}, mask |-> {},
         disp |-> [s \in Signals |-> "dfl"], cursig |-> 0, frames |-> <<>>,
         omask |-> {None}, vfork |-> FALSE, vfdone |-> FALSE, swted |-> FALSE,
         child |-> None, xstat |-> 0, pc |-> "none", opts |-> {},
         sub |-> "main"]

\* init runs and shell, its child, is ready.
Init ==
    /\ proc = [p \in Procs |->
                 CASE p = init  -> [Free EXCEPT !.stat = "SRUN", !.pc = "user"]
                   [] p = shell -> [Free EXCEPT !.stat = "SRUN", !.pc = "user",
                                                !.pptr = init, !.rq = TRUE]
                   [] OTHER     -> Free]
    /\ cur = init
    /\ forks = 0 /\ signals = 0

------------------------------------------------------------------------------
(* Sleep queues and run queues (kern_synch.c).  t is the process table.      *)

\* p leaves its sleep queue.
Unsleep(t, p) == [t EXCEPT ![p].wchan = None]

\* p becomes ready.
Setrun(t, p) == [Unsleep(t, p) EXCEPT ![p].stat = "SRUN", ![p].rq = TRUE]

\* All processes on the queue of chan leave it; those that sleep become ready,
\* and those that are stopped stay so.
Wakeup(t, chan) ==
    [p \in Procs |->
       IF t[p].wchan # chan THEN t[p]
       ELSE IF t[p].stat = "SSLEEP" THEN Setrun(t, p)[p] ELSE Unsleep(t, p)[p]]

\* The signals that issig may take, and the test of the macro ISSIG.
Pending(r) == r.sig \ (r.mask \cup {s \in Signals : r.disp[s] = "ign"})
Deliverable(r) == Pending(r) \ (IF r.vfork THEN Stops ELSE {})

------------------------------------------------------------------------------
(* Sending signals (kern_sig.c). *)

\* Mutant: SIGCONT does not cancel the stop signals.
NotedStops(r, s) == [r EXCEPT !.sig = (@ \cup {s}) \ (IF s \in Stops THEN {CONT} ELSE {})]

\* p_sig after a signal has come: SIGCONT and the stop signals cancel.
Noted(r, s) ==
    [r EXCEPT !.sig = (@ \cup {s}) \ (CASE s = CONT -> Stops
                                        [] s \in Stops -> {CONT}
                                        [] OTHER -> {})]

\* Mutant: SIGCONT puts every stopped process back to sleep.
StartsAsleep(r, s) == s = KILL \/ (s = CONT /\ r.disp[s] # "dfl")

\* Mutant: only SIGCONT ends a stop.
StartsContinued(r, s) == s = CONT /\ (r.disp[s] # "dfl" \/ r.wchan = None)

\* The signals that make a stopped process run, SIGCONT only if it does not go
\* back to its sleep.
Starts(r, s) == s = KILL \/ (s = CONT /\ (r.disp[s] # "dfl" \/ r.wchan = None))

\* psignal of a signal that p is interested in, and that is not a stop signal.
Posted(t, p, s) ==
    LET n == [t EXCEPT ![p] = Noted(@, s)]
        r == n[p]
    IN CASE s \in r.mask -> n
         [] r.stat = "SSLEEP" /\ s \notin r.mask ->
              IF ~r.intr THEN n
              ELSE IF s = CHLD /\ r.disp[s] = "dfl"
                   THEN [n EXCEPT ![p].sig = @ \ {s}]
                   ELSE Setrun(n, p)
         [] r.stat = "SSTOP" /\ s \notin r.mask ->
              IF Starts(r, s) THEN Setrun(n, p)
              ELSE IF s = CONT THEN [n EXCEPT ![p].stat = "SSLEEP"]
              ELSE IF r.intr THEN Unsleep(n, p) ELSE n
         [] OTHER -> n

Ignores(r, s) == r.disp[s] = "ign"
Post(t, p, s) == IF Ignores(t[p], s) THEN t ELSE Posted(t, p, s)

\* Mutant: the parent only gets SIGCHLD.
StopProcUnwoken(t, p) ==
    Post([t EXCEPT ![p].stat = "SSTOP", ![p].swted = FALSE], t[p].pptr, CHLD)

\* stop: p stops, and its parent is woken and gets SIGCHLD.
StopProc(t, p) ==
    LET parent == t[p].pptr
        stopped == [t EXCEPT ![p].stat = "SSTOP", ![p].swted = FALSE]
    IN Post(Wakeup(stopped, parent), parent, CHLD)

\* psignal of a stop signal.
PostStop(t, p, s) ==
    LET n == [t EXCEPT ![p] = Noted(@, s)]
        r == n[p]
        taken == [n EXCEPT ![p].sig = @ \ {s}]
    IN IF r.stat = "SSLEEP" /\ s \notin r.mask /\ r.intr
       THEN IF r.disp[s] = "catch" THEN Setrun(n, p)
            ELSE IF s # STOP /\ r.pptr = init
                 THEN LET k == Post(n, p, KILL) IN [k EXCEPT ![p].sig = @ \ {s}]
            ELSE IF r.vfork THEN n
            ELSE StopProc([taken EXCEPT ![p].cursig = s], p)
       ELSE IF r.stat = "SSTOP" /\ s \notin r.mask THEN taken
       ELSE n

\* psignal(p, s).
Psignal(t, p, s) ==
    IF Ignores(t[p], s) THEN t
    ELSE IF s \in Stops THEN PostStop(t, p, s) ELSE Post(t, p, s)

\* op for each slot in S, in the order of the table.
InOrder(op(_, _), t, S) ==
    MapThenFoldSet(LAMBDA q, u : op(u, q), t, LAMBDA q : q, Max, S)

\* gsignal: every process of the group of the terminals gets the signal.
Gsignal(t, s) ==
    InOrder(LAMBDA u, p : IF u[p].stat = "none" THEN u ELSE Psignal(u, p, s),
            t, Group)

------------------------------------------------------------------------------
(* The processor. *)

At(p, pc) == cur = p /\ proc[p].pc = pc /\ proc[p].sub = "main"
Goto(t, p, pc) == [t EXCEPT ![p].pc = pc, ![p].sub = "main"]
Env == UNCHANGED <<forks, signals>>

\* p goes on, with the process table t.
Run(t) == proc' = t /\ cur' = cur
\* p gives the processor up.  The interrupts that may come before swtch has
\* taken it find the table as those after do.
Swtch(t) == proc' = t /\ cur' = None

\* swtch takes a process from the run queues.  Which one depends on the
\* priorities, which change all the time.
Dispatch(p) ==
    /\ cur = None /\ proc[p].rq
    /\ cur' = p
    /\ proc' = [proc EXCEPT ![p].rq = FALSE]
    /\ Env

Asleep(t, p) == [t EXCEPT ![p].stat = "SSLEEP", ![p].sub = "slept"]

\* Mutant: signals are looked at only after the sleep.
SleepUnchecked(t, p, chan, intr) ==
    Swtch(Asleep([t EXCEPT ![p].wchan = chan, ![p].intr = intr], p))

\* sleep(chan, pri): the process is on the queue; if a signal may be taken it
\* goes through issig at spl6, otherwise it switches.
Sleep(t, p, chan, intr) ==
    LET q == [t EXCEPT ![p].wchan = chan, ![p].intr = intr]
    IN IF intr /\ Pending(q[p]) # {}
       THEN Run([q EXCEPT ![p].sub = "pre"])
       ELSE Swtch(Asleep(q, p))

\* The process runs again after its sleep.
Awake(p) ==
    /\ cur = p /\ proc[p].sub = "slept"
    /\ Run([proc EXCEPT ![p].sub =
              IF proc[p].intr /\ Pending(proc[p]) # {} THEN "issig" ELSE "main"])
    /\ Env

------------------------------------------------------------------------------
(* issig, called by sleep before it switches ("pre", at spl6), by sleep when  *)
(* it comes back and at the end of a system call or trap (both "issig").     *)

InIssig(p) == cur = p /\ proc[p].sub \in {"pre", "issig"}
Next1(p) == Min(Deliverable(proc[p]))
Take(p) == [proc EXCEPT ![p].sig = @ \ {Next1(p)}, ![p].cursig = Next1(p)]

\* No signal is left: issig returns 0.
IssigNone(p) ==
    /\ InIssig(p) /\ Deliverable(proc[p]) = {}
    /\ LET t == [proc EXCEPT ![p].cursig = 0]
       IN IF proc[p].sub = "pre" /\ proc[p].wchan # None
          THEN Swtch(Asleep(t, p))
          ELSE Run([t EXCEPT ![p].sub = "main"])
    /\ Env

\* What issig does with the signal it takes.
ByDefault(p) == proc[p].disp[Next1(p)] = "dfl"
Discards(p) == ByDefault(p) /\ (p = init \/ Next1(p) \in {CONT, CHLD})
KillsOrphan(p) == ByDefault(p) /\ p # init /\ Next1(p) = TSTP /\ proc[p].pptr = init
StopsProc(p) == ByDefault(p) /\ p # init /\ Next1(p) \in Stops /\ ~KillsOrphan(p)
Sends(p) == ~Discards(p) /\ ~KillsOrphan(p) /\ ~StopsProc(p)

IssigDiscard(p) ==
    /\ InIssig(p) /\ Deliverable(proc[p]) # {} /\ Discards(p)
    /\ Run(Take(p))
    /\ Env

\* Children of init are killed by the stop signals of terminals.
IssigOrphan(p) ==
    /\ InIssig(p) /\ Deliverable(proc[p]) # {} /\ KillsOrphan(p)
    /\ Run(Psignal(Take(p), p, KILL))
    /\ Env

\* A stop signal has been taken; in sleep before it switches nothing can come
\* between that and the stop.
IssigStop(p) ==
    /\ InIssig(p) /\ Deliverable(proc[p]) # {} /\ StopsProc(p)
    /\ IF proc[p].sub = "pre"
       THEN Swtch(StopProc(Take(p), p))
       ELSE Run([Take(p) EXCEPT ![p].sub = "stop"])
    /\ Env

Stop(p) ==
    /\ cur = p /\ proc[p].sub = "stop"
    /\ Swtch([StopProc(proc, p) EXCEPT ![p].sub = "issig"])
    /\ Env

\* issig returns the signal.  In sleep this ends the system call: longjmp.
IssigSend(p) ==
    /\ InIssig(p) /\ Deliverable(proc[p]) # {} /\ Sends(p)
    /\ LET t == IF proc[p].sub = "pre" THEN Unsleep(Take(p), p) ELSE Take(p)
       IN Run(Goto(t, p, "trap"))
    /\ Env

------------------------------------------------------------------------------
(* The end of a system call or trap (trap.c) and psig. *)

\* The process enters the kernel: a clock interrupt, or an AST.
Trap(p) == At(p, "user") /\ Run(Goto(proc, p, "trap")) /\ Env

\* ISSIG; p_cursig is set when sleep has taken the signal already.
TrapIssig(p) ==
    /\ At(p, "trap") /\ proc[p].cursig = 0 /\ Pending(proc[p]) # {}
    /\ Deliverable(proc[p]) # {}
    /\ Run([proc EXCEPT ![p].sub = "issig"])
    /\ Env

\* No signal is left.  The process goes back to user mode, or when runrun is
\* set to the run queue.
NoSignal(p) ==
    At(p, "trap") /\ proc[p].cursig = 0 /\ Deliverable(proc[p]) = {}
TrapReturn(p) == NoSignal(p) /\ Run(Goto(proc, p, "user")) /\ Env
Preempt(p) ==
    NoSignal(p) /\ Swtch([Goto(proc, p, "user") EXCEPT ![p].rq = TRUE]) /\ Env

\* psig of a caught signal: sendsig makes a frame with the mask to return to.
PsigCatch(p) ==
    LET r == proc[p]
        returnmask == IF r.omask = {None} THEN r.mask ELSE r.omask
    IN /\ At(p, "trap") /\ r.cursig # 0 /\ r.disp[r.cursig] = "catch"
       /\ Run([Goto(proc, p, "user") EXCEPT
                 ![p].omask = {None}, ![p].mask = @ \cup {r.cursig},
                 ![p].frames = Append(@, returnmask), ![p].cursig = 0])
       /\ Env

\* exit(rv), up to where it may sleep.
Exiting(t, p, rv) ==
    LET e == [t EXCEPT ![p].disp = [s \in Signals |-> "ign"], ![p].xstat = rv]
    IN IF t[p].vfork
       THEN Goto(Wakeup([e EXCEPT ![p].vfork = FALSE], p), p, "exit")
       ELSE Goto(e, p, "close")

\* psig of a signal that is not caught.
PsigExit(p) ==
    /\ At(p, "trap") /\ proc[p].cursig # 0
    /\ proc[p].disp[proc[p].cursig] = "dfl"
    /\ Run(Exiting(proc, p, proc[p].cursig))
    /\ Env

------------------------------------------------------------------------------
(* System calls on signals. *)

Calls(p, call) == At(p, "user") /\ call \in Programs[p]

\* kill: the permissions are those of one user, and init is another's.
Kill(p, q, s) ==
    /\ Calls(p, "kill") /\ signals < MaxSignals
    /\ q # init /\ proc[q].stat # "none"
    /\ signals' = signals + 1
    /\ Run(Goto(Psignal(proc, q, s), p, "trap"))
    /\ UNCHANGED forks

\* setsigvec.
Sigvec(p, s, d) ==
    /\ Calls(p, "sigvec") /\ proc[p].disp[s] # d
    /\ ~(s = CONT /\ d = "ign")
    /\ Run(Goto([proc EXCEPT ![p].disp[s] = d,
                             ![p].sig = IF d = "ign" THEN @ \ {s} ELSE @],
                p, "trap"))
    /\ Env

\* Mutant: any signal can be held.
SigsetmaskAny(p, m) ==
    /\ Calls(p, "sigsetmask") /\ proc[p].mask # m
    /\ Run(Goto([proc EXCEPT ![p].mask = m], p, "trap"))
    /\ Env

\* sigblock and sigsetmask.
Sigsetmask(p, m) ==
    /\ Calls(p, "sigsetmask") /\ proc[p].mask # m
    /\ Run(Goto([proc EXCEPT ![p].mask = m \ Cantmask], p, "trap"))
    /\ Env

\* sigpause: the mask of the call until a signal comes, then the old one.
Sigpause(p, m) ==
    /\ Calls(p, "sigpause")
    /\ Run(Goto([proc EXCEPT ![p].omask = proc[p].mask,
                             ![p].mask = m \ Cantmask], p, "sigpause"))
    /\ Env

Pause(p) == At(p, "sigpause") /\ Sleep(proc, p, Uarea, TRUE) /\ Env

\* The handler returns (sigcleanup).
Sigcleanup(p) ==
    /\ At(p, "user") /\ proc[p].frames # <<>>
    /\ Run(Goto([proc EXCEPT ![p].mask = Last(proc[p].frames) \ Cantmask,
                             ![p].frames = Front(@)], p, "trap"))
    /\ Env

------------------------------------------------------------------------------
(* fork, vfork and exec. *)

Slots == {q \in Procs : proc[q].stat = "none"}

\* fork1 and newproc, up to procdup: the first free slot becomes the child.
\* The limits on the processes of one user are left out.
NewProc(p, isvfork) ==
    LET r == proc[p]
        c == Min(Slots)
    IN /\ Calls(p, IF isvfork THEN "vfork" ELSE "fork")
       /\ forks < MaxForks /\ Slots # {}
       /\ forks' = forks + 1
       /\ Run([proc EXCEPT
                 ![c] = [Free EXCEPT !.stat = "SIDL", !.pptr = p, !.mask = r.mask,
                                     !.disp = r.disp, !.frames = r.frames,
                                     !.vfork = isvfork, !.pc = "user"],
                 ![p].child = c, ![p].pc = "procdup"])
       /\ UNCHANGED signals

\* The child is runnable.  The parent of a vfork waits for its memory.
StartChild(p) ==
    LET c == proc[p].child
        t == [proc EXCEPT ![c].stat = "SRUN", ![c].rq = TRUE]
    IN /\ At(p, "procdup")
       /\ Run(IF proc[c].vfork THEN Goto(t, p, "vfork")
              ELSE [Goto(t, p, "trap") EXCEPT ![p].child = None])
       /\ Env

\* The parent: until the child has given the memory back.
VforkWait(p) ==
    /\ At(p, "vfork") /\ proc[proc[p].child].vfork
    /\ Sleep(proc, p, proc[p].child, FALSE)
    /\ Env

\* Mutant: the child is not woken.
VforkDoneUnwoken(p) ==
    /\ At(p, "vfork") /\ ~proc[proc[p].child].vfork
    /\ Run([Goto([proc EXCEPT ![proc[p].child].vfdone = TRUE], p, "trap")
              EXCEPT ![p].child = None])
    /\ Env

VforkDone(p) ==
    LET c == proc[p].child
    IN /\ At(p, "vfork") /\ ~proc[c].vfork
       /\ Run([Goto(Wakeup([proc EXCEPT ![c].vfdone = TRUE], c), p, "trap")
                 EXCEPT ![p].child = None])
       /\ Env

\* The new image: no handlers, and no frames of theirs.
NewImage(t, p) ==
    [Goto(t, p, "trap") EXCEPT
       ![p].disp = [s \in Signals |-> IF @[s] = "catch" THEN "dfl" ELSE @[s]],
       ![p].frames = <<>>]

Exec(p) ==
    /\ Calls(p, "exec")
    /\ Run(IF proc[p].vfork
           THEN Goto(Wakeup([proc EXCEPT ![p].vfork = FALSE], p), p, "exec")
           ELSE NewImage(proc, p))
    /\ Env

\* The child, in exec or exit: until the parent has taken the memory.
VfdoneWait(p) ==
    /\ At(p, "exec") \/ At(p, "exit")
    /\ ~proc[p].vfdone
    /\ Sleep(proc, p, p, FALSE)
    /\ Env

VfdoneExec(p) ==
    /\ At(p, "exec") /\ proc[p].vfdone
    /\ Run(NewImage([proc EXCEPT ![p].vfdone = FALSE], p))
    /\ Env

VfdoneExit(p) ==
    /\ At(p, "exit") /\ proc[p].vfdone
    /\ Run(Goto([proc EXCEPT ![p].vfdone = FALSE], p, "close"))
    /\ Env

------------------------------------------------------------------------------
(* exit and wait (kern_exit.c). *)

Exit(p) == Calls(p, "exit") /\ Run(Exiting(proc, p, 0)) /\ Env

\* closef and iput may wait for the disk.
CloseWait(p) ==
    At(p, "close") /\ Sleep(proc, p, Disk, FALSE) /\ Env

Children(t, p) == {q \in Procs : t[q].pptr = p}

\* q and its descendants.
Family(t, q) ==
    {r \in Procs :
       LET up[n \in 0 .. Cardinality(Procs)] ==
             IF n = 0 THEN r
             ELSE IF up[n - 1] = None THEN None ELSE t[up[n - 1]].pptr
       IN \E n \in DOMAIN up : up[n] = q}

\* A child of an exiting process becomes init's; one that is stopped is hung
\* up and continued.  spgrp takes the stop signals of the terminal away.
Orphan(t, q) ==
    LET i == Wakeup([t EXCEPT ![q].pptr = init], init)
        h == IF i[q].stat = "SSTOP"
             THEN Psignal(Psignal(i, q, HUP), q, CONT) ELSE i
    IN [r \in Procs |-> IF r \in Family(h, q)
                        THEN [h[r] EXCEPT !.sig = @ \ {TSTP}] ELSE h[r]]

\* Mutant: the parent only gets SIGCHLD.
ZombieUnwoken(p) ==
    LET z == [proc EXCEPT ![p].stat = "SZOMB", ![p].pc = "none"]
        o == InOrder(Orphan, z, Children(z, p))
    IN /\ At(p, "close")
       /\ Swtch(Psignal(o, o[p].pptr, CHLD))
       /\ Env

\* The process is a zombie, its children are init's, its parent is told.
Zombie(p) ==
    LET z == [proc EXCEPT ![p].stat = "SZOMB", ![p].pc = "none"]
        o == InOrder(Orphan, z, Children(z, p))
        parent == o[p].pptr
    IN /\ At(p, "close")
       /\ Swtch(Wakeup(Psignal(o, parent, CHLD), parent))
       /\ Env

Wait(p, opts) ==
    /\ At(p, "user")
    /\ CASE opts = {} -> "wait" \in Programs[p]
         [] opts = {"WUNTRACED"} -> "waitstopped" \in Programs[p]
         [] OTHER -> "poll" \in Programs[p]
    /\ Run([Goto(proc, p, "wait") EXCEPT ![p].opts = opts])
    /\ Env

\* The children that wait1 reports, in the order of the table.
Reported(p) ==
    {q \in Children(proc, p) :
       \/ proc[q].stat = "SZOMB"
       \/ /\ proc[q].stat = "SSTOP" /\ ~proc[q].swted
          /\ "WUNTRACED" \in proc[p].opts}

\* wait1 finds a zombie, whose slot is free then, or a stopped child.
WaitFound(p) ==
    /\ At(p, "wait") /\ Reported(p) # {}
    /\ LET q == Min(Reported(p))
           t == [proc EXCEPT ![q] = IF @.stat = "SZOMB" THEN Free
                                    ELSE [@ EXCEPT !.swted = TRUE]]
       IN Run([Goto(t, p, "trap") EXCEPT ![p].opts = {}])
    /\ Env

\* ECHILD, or WNOHANG.
WaitNone(p) ==
    /\ At(p, "wait") /\ Reported(p) = {}
    /\ Children(proc, p) = {} \/ "WNOHANG" \in proc[p].opts
    /\ Run([Goto(proc, p, "trap") EXCEPT ![p].opts = {}])
    /\ Env

\* wait1 has looked at all the processes, and is about to sleep.
WaitScanned(p) ==
    /\ At(p, "wait") /\ Reported(p) = {}
    /\ Children(proc, p) # {} /\ "WNOHANG" \notin proc[p].opts
    /\ Run(Goto(proc, p, "waitsleep"))
    /\ Env

WaitSleep(p) ==
    At(p, "waitsleep") /\ Sleep(Goto(proc, p, "wait"), p, p, TRUE) /\ Env

------------------------------------------------------------------------------
(* Other sleeps, and interrupts. *)

\* A read of a terminal, which signals end, and one of a disk.
Reading(dev) == IF dev = Tty THEN "tty" ELSE "disk"

Read(p, dev) == Calls(p, Reading(dev)) /\ Run(Goto(proc, p, Reading(dev))) /\ Env
ReadWait(p, dev) ==
    At(p, Reading(dev)) /\ Sleep(proc, p, dev, dev = Tty) /\ Env
ReadDone(p, dev) == At(p, Reading(dev)) /\ Run(Goto(proc, p, "trap")) /\ Env

\* At spl6 there are no interrupts.
Spl0 == \A p \in Procs : cur = p => proc[p].sub # "pre"

Interrupt(dev) == Spl0 /\ proc' = Wakeup(proc, dev) /\ UNCHANGED <<cur, forks, signals>>

\* A terminal sends signals: a character that was typed, or a lost carrier.
Type(s) ==
    /\ Spl0 /\ signals < MaxSignals
    /\ signals' = signals + 1
    /\ proc' = FoldLeft(Gsignal, proc, s)
    /\ UNCHANGED <<cur, forks>>

------------------------------------------------------------------------------
\* What a process does by itself once it is in the kernel.
Continue(p) ==
    \/ Awake(p)
    \/ IssigNone(p) \/ IssigDiscard(p) \/ IssigOrphan(p) \/ IssigStop(p)
    \/ Stop(p) \/ IssigSend(p)
    \/ TrapIssig(p) \/ TrapReturn(p) \/ Preempt(p) \/ PsigCatch(p) \/ PsigExit(p)
    \/ Pause(p) \/ StartChild(p) \/ VforkWait(p) \/ VforkDone(p)
    \/ VfdoneWait(p) \/ VfdoneExec(p) \/ VfdoneExit(p)
    \/ CloseWait(p) \/ Zombie(p)
    \/ WaitFound(p) \/ WaitNone(p) \/ WaitScanned(p) \/ WaitSleep(p)
    \/ \E dev \in Devices : ReadWait(p, dev) \/ ReadDone(p, dev)

\* What its program does.
Call(p) ==
    \/ \E q \in Procs, s \in Killed : Kill(p, q, s)
    \/ \E s \in Caught, d \in {"dfl", "ign", "catch"} : Sigvec(p, s, d)
    \/ \E m \in SUBSET Blockable : Sigsetmask(p, m) \/ Sigpause(p, m)
    \/ Sigcleanup(p)
    \/ NewProc(p, TRUE) \/ NewProc(p, FALSE) \/ Exec(p) \/ Exit(p)
    \/ \E opts \in {{}, {"WUNTRACED"}, {"WNOHANG", "WUNTRACED"}} : Wait(p, opts)
    \/ \E dev \in Devices : Read(p, dev)

Next ==
    \/ \E p \in Procs : Dispatch(p) \/ Trap(p) \/ Continue(p) \/ Call(p)
    \/ \E dev \in Devices : Interrupt(dev)
    \/ \E s \in Typed : Type(s)

Spec == Init /\ [][Next]_vars

\* The process that runs goes on, and is interrupted by the clock when it only
\* computes; roundrobin takes the processor away every tenth of a second, and
\* priorities age (schedcpu), so a process that is ready gets its turn; devices
\* answer, and an exiting process waits for them a few times only.  Of the
\* programs it assumes that init waits, and that a child which borrows its
\* parent's memory gives it back.
\* The first condition is weak fairness, of the process that runs; the next four
\* are strong fairness; all have their ENABLED written out.
Fairness ==
    /\ []<>(cur = None) \/ []<><<\E p \in Procs : Continue(p) \/ Trap(p)>>_vars
    /\ <>[](\A p \in Procs : ~NoSignal(p)) \/ []<><<\E p \in Procs : Preempt(p)>>_vars
    /\ <>[](\A p \in Procs : ~At(p, "close")) \/ []<><<\E p \in Procs : Zombie(p)>>_vars
    /\ <>[](~At(init, "user")) \/ []<><<Wait(init, {})>>_vars
    /\ \/ <>[](\A p \in Procs : ~(At(p, "user") /\ proc[p].vfork))
       \/ []<><<\E p \in Procs : proc[p].vfork /\ (Exec(p) \/ Exit(p))>>_vars
    /\ \A p \in Procs : SF_vars(Dispatch(p))
    /\ \A dev \in Devices : WF_vars(Interrupt(dev))

FairSpec == Spec /\ Fairness

------------------------------------------------------------------------------
(* Properties. *)

\* Every variable has its type.
TypeOK ==
    /\ DOMAIN proc = Procs /\ \A p \in Procs : proc[p] \in Proc
    /\ cur \in Procs \cup {None}
    /\ forks \in 0 .. MaxForks /\ signals \in 0 .. MaxSignals

\* The panics of sleep, wakeup, setrq and swtch do not happen, and nobody is
\* forgotten: who sleeps is on a sleep queue, and who is runnable runs or is
\* on the run queue.
QueuesExact ==
    \A p \in Procs : LET r == proc[p] IN
      /\ r.rq => r.stat = "SRUN" /\ r.wchan = None /\ p # cur
      /\ r.wchan # None => r.stat \in {"SSLEEP", "SSTOP"} \/ r.sub = "pre"
      /\ r.stat = "SSLEEP" => r.wchan # None
      /\ r.stat = "SRUN" => r.rq \/ p = cur
      /\ p = cur => r.stat = "SRUN"

\* No process sleeps through a signal that it should act on, by default or in
\* a handler.
SignalSeen ==
    \A p \in Procs : proc[p].stat = "SSLEEP" /\ proc[p].intr =>
       \A s \in Deliverable(proc[p]) : s \in {CONT, CHLD} /\ proc[p].disp[s] = "dfl"

\* A stopped process has been told neither to go on nor to die.
StopExact ==
    \A p \in Procs : proc[p].stat = "SSTOP" =>
       proc[p].sig \cap {CONT, KILL} = {} /\ proc[p].cursig \in Stops

\* Every process but init has a living parent, and one that sleeps in wait has
\* a child to wait for, and no zombie among them.
FamilyExact ==
    /\ \A p \in Procs \ {init} : proc[p].stat # "none" =>
         proc[proc[p].pptr].stat \notin {"none", "SZOMB"}
    /\ \A p \in Procs : proc[p].stat = "SSLEEP" /\ proc[p].pc = "wait" =>
         /\ Children(proc, p) # {}
         /\ \A q \in Children(proc, p) : proc[q].stat # "SZOMB"

\* The two halves of vfork: a child that has the memory, or has not been told
\* that it was taken back, has its parent in vfork; and neither sleeps when it
\* is its turn.
VforkExact ==
    \A p, c \in Procs :
      /\ proc[c].stat # "none" /\ proc[c].pptr = p
           /\ (proc[c].vfork \/ (proc[c].pc \in {"exec", "exit"} /\ ~proc[c].vfdone))
         => proc[p].pc \in {"procdup", "vfork"} /\ proc[p].child = c
      /\ proc[p].pc = "vfork" /\ proc[p].child = c => proc[c].pptr = p
      /\ proc[p].pc = "vfork" /\ proc[p].child = c /\ proc[p].stat = "SSLEEP"
         => proc[c].vfork
      /\ proc[c].pc \in {"exec", "exit"} /\ proc[c].stat = "SSLEEP" => ~proc[c].vfdone

\* Parents and children agree, through fork, vfork, exec, exit and wait
\* (kern_fork.c newproc, kern_exec.c getxfile, kern_exit.c).
KinExact == FamilyExact /\ VforkExact

\* A parent that asked for stopped children does not sleep while one is there
\* that it has not been told of.
StopsReported ==
    \A p, q \in Procs :
      proc[p].stat = "SSLEEP" /\ proc[p].pc = "wait"
        /\ "WUNTRACED" \in proc[p].opts /\ proc[q].pptr = p
        /\ proc[q].stat = "SSTOP" => proc[q].swted

\* Who has been killed dies: a stopped process, one that sleeps and can be
\* disturbed, and a parent that waits for the memory it has lent.
Doomed(p) == KILL \in proc[p].sig \cup {proc[p].cursig, proc[p].xstat}
KillKills == []<>(\A p \in Procs : Doomed(p) => proc[p].stat \in {"SZOMB", "none"})

\* The zombies that init has, and those it inherits, are buried.
ZombiesBuried == []<>(\A p \in Procs : proc[p].stat = "SZOMB" => proc[p].pptr # init)
==============================================================================
