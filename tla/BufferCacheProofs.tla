-------------------------- MODULE BufferCacheProofs --------------------------
(***************************************************************************)
(* All that is proved of the buffer cache, for any number of processes and *)
(* buffers, any sizes, and devices that fail, in three parts: ownership;   *)
(* memory, and no panic; and, when every buffer has the memory of a block, *)
(* the contents of the buffers.                                            *)
(*                                                                         *)
(* Part 1. Type correctness and the ownership of buffers.                  *)
(*                                                                         *)
(* Ownership is not inductive: that the next step of a process releases a  *)
(* buffer it holds, or takes one nobody holds, depends on where the process*)
(* is. IInv adds which registers are in use at each label (RegsOK), what   *)
(* the flags say of a buffer (FlagsOK), when a process may have its buffer *)
(* with the device (Settled), and that allocbuf takes pages only while they*)
(* are needed (Short).                                                     *)
(***************************************************************************)
EXTENDS BufferCache, FiniteSetTheorems, WellFoundedInduction, TLAPS

\* The registers a process uses at each of its labels.
RegsOK(r) ==
    /\ r.pc \in {"user", "breada", "bflush", "blkflush"} =>
          r.bp = None /\ r.ep = None /\ r.first = None
    /\ r.pc \in {"breada", "ahead"} => r.op = "reada"
    /\ r.pc = "finish" => r.op \in {"reada", "ahead"}
    /\ r.pc \in {"getblk", "ahead", "finish"} => r.bp = None
    /\ r.pc \in {"brealloc", "overlap", "allocbuf", "got", "biowait", "hold"} =>
          r.bp # None
    /\ r.pc \in {"biowait", "hold"} => r.first = None
    /\ r.pc = "biowait" => r.op \in {"read", "extend", "move"}
    /\ r.pc # "bwrite" => r.ep = None
    /\ r.pc = "bwrite" =>
          /\ r.ep # None
          /\ r.ret \in {"user", "getblk", "overlap", "blkflush"}
          /\ IF r.ret = "overlap" THEN r.bp # None ELSE r.bp = None
          /\ r.ret \in {"user", "blkflush"} => r.first = None
    /\ \/ r.pc \in {"getblk", "getnewbuf", "brealloc", "overlap", "allocbuf", "got"}
       \/ r.pc = "bwrite" /\ r.ret \in {"getblk", "overlap"}
       => /\ r.op = "copy" => r.first # None
          /\ r.op \notin {"ahead", "copy"} => r.first = None

\* No register repeats another.
Distinct(r) ==
    /\ r.bp # None => r.bp # r.ep /\ r.bp # r.first
    /\ r.ep # None => r.ep # r.first

\* The flags of a buffer agree with the free list and with the device.
FlagsOK(b) ==
    /\ Free(b) <=> ~Is(b, "BUSY")
    /\ Free(b) => b \notin io
    /\ Is(b, "ASYNC") => b \in io
    /\ b \in io => ~Is(b, "DONE")

\* A process waits for the buffers it has given to the device.
Settled(p) ==
    /\ proc[p].pc # "biowait" => proc[p].bp \notin io
    /\ proc[p].op = "copy" => proc[p].first \notin io

\* allocbuf is at getnewbuf because its buffer is too small.
Short(p) ==
    proc[p].pc = "getnewbuf" /\ proc[p].bp # None =>
        buf[proc[p].bp].mem < proc[p].want.size

\* Who may hold a buffer, and that somebody does.
HeldOK(p, b) == Holds(p, b) => ~Free(b) /\ ~Is(b, "ASYNC")
OneHolder(p, q, b) == Holds(p, b) /\ Holds(q, b) => p = q
NoLeak(b) == ~Free(b) /\ ~Is(b, "ASYNC") => \E p \in Procs : Holds(p, b)

BufInv == \A b \in Bufs : FlagsOK(b) /\ NoLeak(b)
ProcInv == \A p \in Procs :
              RegsOK(proc[p]) /\ Distinct(proc[p]) /\ Settled(p) /\ Short(p)
HoldInv == /\ \A p \in Procs, b \in Bufs : HeldOK(p, b)
           /\ \A p, q \in Procs, b \in Bufs : OneHolder(p, q, b)

IInv == TypeOK /\ BufInv /\ ProcInv /\ HoldInv


LEMMA NoneIsNoBuffer == None \notin Bufs /\ None \notin Procs
  BY BufferCacheAssumption

LEMMA FragsType ==
    ASSUME NEW start, NEW size
    PROVE  Frags(start, size) \subseteq Addr
  BY DEF Frags

LEMMA TakenType ==
    ASSUME NEW r \in Buffer
    PROVE  /\ Taken(r) \in Buffer
           /\ Taken(r).flags = r.flags \cup {"BUSY"}
           /\ Taken(r).queue = "out"
           /\ Taken(r).mem = r.mem
  BY DEF Taken, Buffer, Flag

LEMMA InvalidatedType ==
    ASSUME NEW r \in Buffer
    PROVE  /\ Invalidated(r) \in Buffer
           /\ Invalidated(r).queue = "out"
           /\ Invalidated(r).mem = r.mem
           /\ Invalidated(r).flags = r.flags \cup {"BUSY", "INVAL"}
<1>1. Taken(r) \in Buffer
  BY TakenType
<1> QED
  BY <1>1, TakenType DEF Invalidated, Buffer, Flag

LEMMA FilledType ==
    ASSUME NEW r \in Buffer, NEW mem \in 0 .. BlockFrags
    PROVE  /\ Filled(r, mem) \in Buffer
           /\ Filled(r, mem).mem = mem
           /\ Filled(r, mem).flags = r.flags \cup {"BUSY", "INVAL"}
<1>1. Invalidated(r) \in Buffer /\ 0 \in 0 .. BlockFrags
  BY InvalidatedType, BufferCacheAssumption
<1> QED
  BY <1>1, InvalidatedType DEF Filled, Buffer

LEMMA WrittenType ==
    ASSUME NEW r \in Buffer
    PROVE  /\ Written(r) \in Buffer
           /\ Written(r).flags = r.flags \ {"READ", "DONE", "ERROR", "DELWRI"}
           /\ Written(r).queue = r.queue
           /\ Written(r).mem = r.mem
  BY DEF Written, Buffer

LEMMA AsyncWrittenType ==
    ASSUME NEW r \in Buffer
    PROVE  /\ AsyncWritten(r) \in Buffer
           /\ AsyncWritten(r).flags =
                (r.flags \ {"READ", "DONE", "ERROR", "DELWRI"}) \cup {"ASYNC"}
           /\ AsyncWritten(r).queue = r.queue
           /\ AsyncWritten(r).mem = r.mem
  BY DEF AsyncWritten, Written, Buffer, Flag

LEMMA ReleasedType ==
    ASSUME NEW r \in Buffer
    PROVE  /\ Released(r) \in Buffer
           /\ Released(r).flags = r.flags \ {"WANTED", "BUSY", "ASYNC"}
           /\ Released(r).queue # "out"
           /\ Released(r).mem = r.mem
  BY DEF Released, Buffer

LEMMA ResizedType ==
    ASSUME NEW r \in Buffer, NEW cnt \in 0 .. BlockFrags
    PROVE  /\ Resized(r, cnt) \in Buffer
           /\ Resized(r, cnt).flags = r.flags
           /\ Resized(r, cnt).queue = r.queue
           /\ Resized(r, cnt).mem = r.mem
  BY DEF Resized, Buffer

LEMMA ReadingType ==
    ASSUME NEW r \in Buffer, NEW flags \in SUBSET {"ASYNC"}
    PROVE  /\ Reading(r, flags) \in Buffer
           /\ Reading(r, flags).flags = r.flags \cup {"READ"} \cup flags
           /\ Reading(r, flags).queue = r.queue
           /\ Reading(r, flags).mem = r.mem
  BY DEF Reading, Buffer, Flag

LEMMA CompletedType ==
    ASSUME NEW r \in Buffer, NEW err \in BOOLEAN, TypeOK
    PROVE  /\ Completed(r, err) \in Buffer
           /\ Completed(r, err).flags \in {r.flags \cup {"DONE"},
                                           r.flags \cup {"DONE", "ERROR"}}
           /\ Completed(r, err).queue = r.queue
           /\ Completed(r, err).mem = r.mem
  BY DEF Completed, ReadInto, Buffer, Flag, TypeOK

LEMMA InitInv == Init => IInv
<1> SUFFICES ASSUME Init PROVE IInv
  OBVIOUS
<1>1. TypeOK
  <2>1. PICK rich \in SUBSET Bufs :
          /\ Cardinality(rich) = Residual
          /\ buf = [b \in Bufs |->
                LET pages == IF b \in rich THEN BasePages + 1 ELSE BasePages
                IN  [blk |-> NODEV, cnt |-> 0, mem |-> pages,
                     flags |-> {"INVAL"},
                     queue |-> IF pages = 0 THEN "empty" ELSE "free",
                     cur |-> {}]]
    BY DEF Init
  <2>2. \A b \in rich : BasePages + 1 \in 0 .. BlockFrags
    <3>1. CASE Residual = 0
      BY <3>1, <2>1, FS_EmptySet, FS_Subset, BufferCacheAssumption
    <3>2. CASE Residual # 0
      BY <3>2, BufferCacheAssumption
    <3> QED BY <3>1, <3>2
  <2>3. BasePages \in 0 .. BlockFrags
    BY BufferCacheAssumption
  <2>4. buf \in [Bufs -> Buffer]
    BY <2>1, <2>2, <2>3, BufferCacheAssumption DEF Buffer, Flag
  <2>5. Idle \in Process
    BY BufferCacheAssumption DEF Idle, Empty, Process, Label, Op, NoExtent, Extent
  <2> QED
    BY <2>4, <2>5, NoneIsNoBuffer DEF Init, TypeOK
<1>2. \A b \in Bufs : buf[b].flags = {"INVAL"} /\ buf[b].queue # "out"
  BY DEF Init
<1>3. \A p \in Procs : proc[p] = Idle /\ \A b \in Bufs : ~Holds(p, b)
  BY NoneIsNoBuffer DEF Init, Holds, Idle, Empty
<1>4. BufInv
  BY <1>2 DEF BufInv, FlagsOK, NoLeak, Free, Is, Init
<1>5. ProcInv
  BY <1>3 DEF ProcInv, RegsOK, Distinct, Settled, Short, Idle, Empty, Init
<1>6. HoldInv
  BY <1>3 DEF HoldInv, HeldOK, OneHolder
<1> QED
  BY <1>1, <1>4, <1>5, <1>6 DEF IInv

------------------------------------------------------------------------------
(* Steps. *)

\* Nothing about b changes that the invariant speaks of.
SameView(b) ==
    /\ buf'[b].queue = buf[b].queue
    /\ buf'[b].mem = buf[b].mem
    /\ \A f \in {"BUSY", "ASYNC", "DONE"} :
          f \in buf'[b].flags <=> f \in buf[b].flags
    /\ b \in io' <=> b \in io

\* A step of p (or of the device, p no process) that changes the buffers in T,
\* which no other process holds, and after which p holds those of T that are
\* busy and not left to the interrupt.
LEMMA Handover ==
    ASSUME IInv, TypeOK', NEW p, NEW T \in SUBSET Bufs,
           \A q \in Procs \ {p} : proc'[q] = proc[q],
           \A b \in Bufs \ T : SameView(b) /\
              (p \in Procs => (Holds(p, b)' <=> Holds(p, b))),
           \A b \in T :
              /\ FlagsOK(b)'
              /\ \A q \in Procs \ {p} : ~Holds(q, b)
              /\ p \in Procs /\ Holds(p, b)' <=> ~Free(b)' /\ ~Is(b, "ASYNC")',
           p \in Procs => /\ RegsOK(proc'[p]) /\ Distinct(proc'[p])
                          /\ Settled(p)' /\ Short(p)'
    PROVE  IInv'
<1>1. BufInv'
  <2> SUFFICES ASSUME NEW b \in Bufs PROVE FlagsOK(b)' /\ NoLeak(b)'
    BY DEF BufInv
  <2>1. CASE b \in T
    BY <2>1 DEF NoLeak
  <2>2. CASE b \notin T
    <3>1. SameView(b) /\ FlagsOK(b) /\ NoLeak(b)
      BY <2>2 DEF IInv, BufInv
    <3>2. FlagsOK(b)'
      BY <3>1 DEF SameView, FlagsOK, Free, Is
    <3>3. NoLeak(b)'
      BY <2>2, <3>1 DEF SameView, NoLeak, Free, Is, Holds
    <3> QED BY <3>2, <3>3
  <2> QED BY <2>1, <2>2
<1>2. ProcInv'
  <2> SUFFICES ASSUME NEW q \in Procs, q # p
               PROVE  (RegsOK(proc[q]) /\ Distinct(proc[q]) /\ Settled(q)
                       /\ Short(q))'
    BY DEF ProcInv
  <2>1. /\ RegsOK(proc[q]) /\ Distinct(proc[q]) /\ Settled(q) /\ Short(q)
        /\ proc'[q] = proc[q]
    BY DEF IInv, ProcInv
  <2>2. \A b \in Bufs : Holds(q, b) => SameView(b)
    OBVIOUS
  <2>3. proc[q] \in Process
    BY DEF IInv, TypeOK
  <2>4. (RegsOK(proc[q]) /\ Distinct(proc[q]))'
    BY <2>1
  <2>5. io' \subseteq Bufs /\ None \notin Bufs
    BY NoneIsNoBuffer DEF TypeOK
  <2>6. Settled(q)'
    BY <2>1, <2>2, <2>3, <2>5 DEF Settled, Holds, SameView, Process
  <2>7. Short(q)'
    BY <2>1, <2>2, <2>3 DEF Short, Holds, SameView, Process
  <2> QED BY <2>4, <2>6, <2>7
<1>3. HoldInv'
  <2>1. ASSUME NEW q \in Procs, NEW b \in Bufs PROVE HeldOK(q, b)'
    <3>1. CASE q = p
      BY <3>1 DEF IInv, HoldInv, HeldOK, SameView, Free, Is
    <3>2. CASE q # p
      BY <3>2 DEF IInv, HoldInv, HeldOK, SameView, Free, Is, Holds
    <3> QED BY <3>1, <3>2
  <2>2. ASSUME NEW q \in Procs, NEW r \in Procs, NEW b \in Bufs
        PROVE  OneHolder(q, r, b)'
    BY DEF IInv, HoldInv, OneHolder, Holds
  <2> QED BY <2>1, <2>2 DEF HoldInv
<1> QED
  BY <1>1, <1>2, <1>3 DEF IInv

\* A step in which p only changes its registers, and leaves no buffer it held
\* and takes none.
LEMMA Internal ==
    ASSUME IInv, NEW p \in Procs, NEW r \in Process,
           proc' = [proc EXCEPT ![p] = r], UNCHANGED <<buf, io, dcur>>,
           fwant' \in BOOLEAN, live' \subseteq Extent,
           slp' \in [Procs -> Bufs \cup {None, FreeList}],
           cpu' \in Procs \cup {None},
           \A b \in Bufs : b \in {r.bp, r.ep, r.first} <=> Holds(p, b),
           RegsOK(r), Distinct(r),
           r.pc # "biowait" => r.bp \notin io,
           r.op = "copy" => r.first \notin io,
           r.pc = "getnewbuf" /\ r.bp # None => buf[r.bp].mem < r.want.size
    PROVE  IInv'
<1>1. TypeOK'
  BY DEF IInv, TypeOK
<1>2. proc'[p] = r /\ \A q \in Procs \ {p} : proc'[q] = proc[q]
  BY DEF IInv, TypeOK
<1>3. \A b \in Bufs : SameView(b)
  BY DEF SameView
<1>4. \A b \in Bufs : Holds(p, b)' <=> Holds(p, b)
  BY <1>2 DEF Holds
<1>5. RegsOK(proc'[p]) /\ Distinct(proc'[p]) /\ Settled(p)' /\ Short(p)'
  BY <1>2 DEF Settled, Short
<1> DEFINE T == {}
<1>6. T \in SUBSET Bufs /\ \A b \in T : FALSE
  OBVIOUS
<1> HIDE DEF T
<1> QED
  BY <1>1, <1>2, <1>3, <1>4, <1>5, <1>6, Handover

\* What IInv says of p, all at once.
LEMMA View ==
    ASSUME IInv, NEW p \in Procs
    PROVE  /\ TypeOK /\ proc[p] \in Process
           /\ RegsOK(proc[p]) /\ Distinct(proc[p]) /\ Settled(p) /\ Short(p)
  BY DEF IInv, ProcInv, TypeOK

LEMMA IdleType == Idle \in Process
  BY BufferCacheAssumption DEF Idle, Empty, Process, Label, Op, NoExtent, Extent

LEMMA FileExtentType ==
    FileExtent \subseteq Extent /\ NoExtent \in Extent
  BY BufferCacheAssumption DEF FileExtent, Extent, NoExtent

\* Entering: a process outside the cache holds nothing.
LEMMA EnterInv ==
    ASSUME IInv, NEW p \in Procs,
           NEW pc \in {"getblk", "getnewbuf", "breada", "bflush", "blkflush"},
           NEW op \in Op \ {"copy", "ahead"}, pc = "breada" => op = "reada",
           NEW want \in Extent, NEW ra \in Extent,
           Enter(p, pc, op, want, ra), live' \subseteq Extent
    PROVE  IInv'
<1> DEFINE r == Empty(pc, op, want, ra)
<1>1. proc[p].bp = None /\ proc[p].ep = None /\ proc[p].first = None
  BY View DEF RegsOK, Enter
<1>2. None \notin io
  BY NoneIsNoBuffer DEF IInv, TypeOK
<1>3. \A b \in Bufs : b \in {r.bp, r.ep, r.first} <=> Holds(p, b)
  BY <1>1 DEF Empty, Holds
<1>4. r \in Process /\ RegsOK(r) /\ Distinct(r)
  BY DEF Empty, Process, Label, RegsOK, Distinct
<1>5. /\ fwant' \in BOOLEAN /\ slp' \in [Procs -> Bufs \cup {None, FreeList}]
      /\ cpu' \in Procs \cup {None} /\ UNCHANGED <<buf, io, dcur>>
      /\ proc' = [proc EXCEPT ![p] = r]
  BY DEF IInv, TypeOK, Enter
<1>6. r.pc # "biowait" /\ r.op # "copy" /\ r.bp = None
  BY DEF Empty
<1> HIDE DEF r
<1> QED
  BY <1>2, <1>3, <1>4, <1>5, <1>6, Internal

LEMMA CallInv ==
    ASSUME IInv, NEW p \in Procs, Call(p)
    PROVE  IInv'
<1> USE FileExtentType
<1>1. live \subseteq Extent
  BY DEF IInv, TypeOK
<1>2. ASSUME NEW e \in FileExtent,
             \/ Bread(p, e) \/ CookedRead(p, e) \/ Overwrite(p, e)
             \/ Alloc(p, e) \/ Blkflush(p, e)
      PROVE  IInv'
  BY <1>1, <1>2, EnterInv
  DEF Bread, CookedRead, Overwrite, Alloc, Blkflush, Op
<1>3. ASSUME NEW e \in FileExtent, NEW new \in FileExtent,
             Breada(p, e, new) \/ Extend(p, e, new) \/ Move(p, e, new)
      PROVE  IInv'
  BY <1>1, <1>3, EnterInv DEF Breada, Extend, Move, Op
<1>4. ASSUME NEW n \in 1 .. BlockFrags, Geteblk(p, n) PROVE IInv'
  <2>1. [start |-> NODEV, size |-> n] \in Extent
    BY DEF Extent
  <2> QED BY <1>1, <1>4, <2>1, EnterInv DEF Geteblk, Op
<1>5. ASSUME Bflush(p) PROVE IInv'
  BY <1>1, <1>5, EnterInv DEF Bflush, Op
<1> QED
  BY <1>2, <1>3, <1>4, <1>5 DEF Call

\* Steps that change none of the registers and buffers.
LEMMA ScheduleInv ==
    ASSUME IInv, UNCHANGED <<buf, io, dcur, proc>>, fwant' \in BOOLEAN,
           live' \subseteq Extent,
           slp' \in [Procs -> Bufs \cup {None, FreeList}],
           cpu' \in Procs \cup {None}
    PROVE  IInv'
<1>1. TypeOK'
  BY DEF IInv, TypeOK
<1>2. BufInv'
  BY DEF IInv, BufInv, FlagsOK, NoLeak, Free, Is, Holds
<1>3. ProcInv'
  BY DEF IInv, ProcInv, Settled, Short
<1>4. HoldInv'
  BY DEF IInv, HoldInv, HeldOK, OneHolder, Free, Is, Holds
<1> QED BY <1>1, <1>2, <1>3, <1>4 DEF IInv

LEMMA SleepInv ==
    ASSUME IInv, NEW p \in Procs,
           \/ Dispatch(p) \/ Pause(p) \/ GetnewbufNone(p) \/ Biowait(p)
           \/ \E e \in live : FreeExtent(e)
    PROVE  IInv'
<1>1. TypeOK /\ proc[p] \in Process /\ RegsOK(proc[p])
  BY View
<1>2. CASE Dispatch(p)
  BY <1>1, <1>2, ScheduleInv DEF Dispatch, TypeOK
<1>3. CASE Pause(p)
  BY <1>1, <1>3, ScheduleInv DEF Pause, TypeOK
<1>4. CASE GetnewbufNone(p)
  BY <1>1, <1>4, ScheduleInv DEF GetnewbufNone, Sleep, TypeOK
<1>5. CASE Biowait(p)
  <2>1. proc[p].bp \in Bufs \cup {None} /\ proc[p].ep \in Bufs \cup {None}
    BY <1>1 DEF Process
  <2> QED
    BY <1>1, <1>5, <2>1, ScheduleInv DEF Biowait, Sleep, TypeOK
<1>6. CASE \E e \in live : FreeExtent(e)
  BY <1>1, <1>6, ScheduleInv DEF FreeExtent, TypeOK
<1> QED BY <1>2, <1>3, <1>4, <1>5, <1>6

\* Steps that change registers only.
LEMMA GotoInv ==
    ASSUME IInv, NEW p \in Procs, NEW r \in Process, Goto(p, r),
           UNCHANGED <<buf, io, dcur, fwant, live, slp>>,
           \A b \in Bufs : b \in {r.bp, r.ep, r.first} <=> Holds(p, b),
           RegsOK(r), Distinct(r),
           r.pc # "biowait" => r.bp \notin io,
           r.op = "copy" => r.first \notin io,
           r.pc = "getnewbuf" /\ r.bp # None => buf[r.bp].mem < r.want.size
    PROVE  IInv'
  BY Internal DEF Goto, IInv, TypeOK

LEMMA SearchInv ==
    ASSUME IInv, NEW p \in Procs,
           \/ GetblkMiss(p) \/ BreallocSame(p) \/ BreallocShrink(p)
           \/ OverlapNone(p) \/ AllocbufMore(p)
    PROVE  IInv'
<1> DEFINE to(l) == [proc[p] EXCEPT !.pc = l]
<1>1. /\ TypeOK /\ proc[p] \in Process
      /\ RegsOK(proc[p]) /\ Distinct(proc[p]) /\ Settled(p) /\ Short(p)
  BY View
<1>2. PICK l \in {"getnewbuf", "got", "allocbuf", "overlap"} :
        /\ Goto(p, to(l))
        /\ UNCHANGED <<buf, io, dcur, fwant, live, slp>>
        /\ proc[p].pc \in {"getblk", "brealloc", "overlap", "allocbuf"}
        /\ l = "getnewbuf" <=> proc[p].pc \in {"getblk", "allocbuf"}
        /\ proc[p].pc = "allocbuf" => buf[proc[p].bp].mem < proc[p].want.size
  BY <1>1 DEF GetblkMiss, BreallocSame, BreallocShrink, OverlapNone,
              AllocbufMore, Running
<1>3. to(l) \in Process
  BY <1>1 DEF Process, Label
<1>4. \A b \in Bufs : b \in {to(l).bp, to(l).ep, to(l).first} <=> Holds(p, b)
  BY <1>1 DEF Holds, Process
<1>5. RegsOK(to(l)) /\ Distinct(to(l))
  BY <1>1, <1>2 DEF RegsOK, Distinct, Process
<1>6. /\ to(l).bp \notin io
      /\ to(l).op = "copy" => to(l).first \notin io
      /\ to(l).pc = "getnewbuf" /\ to(l).bp # None =>
            buf[to(l).bp].mem < to(l).want.size
  BY <1>1, <1>2 DEF Settled, RegsOK, Process
<1> HIDE DEF to
<1> QED
  BY <1>2, <1>3, <1>4, <1>5, <1>6, GotoInv

LEMMA LeaveInv ==
    ASSUME IInv, NEW p \in Procs, BflushReturn(p) \/ BlkflushReturn(p)
    PROVE  IInv'
<1>1. /\ TypeOK /\ proc[p] \in Process
      /\ RegsOK(proc[p]) /\ Distinct(proc[p]) /\ Settled(p)
  BY View
<1>2. /\ proc' = [proc EXCEPT ![p] = Idle] /\ cpu' = None
      /\ UNCHANGED <<buf, io, dcur, fwant, live, slp>>
      /\ proc[p].pc \in {"bflush", "blkflush"}
  BY DEF BflushReturn, BlkflushReturn, Leave, Running
<1>3. /\ Idle.bp = None /\ Idle.ep = None /\ Idle.first = None
      /\ Idle.pc = "user" /\ Idle.op = "none"
  BY DEF Idle, Empty
<1>4. None \notin io
  BY NoneIsNoBuffer, <1>1 DEF TypeOK
<1>5. \A b \in Bufs : b \in {Idle.bp, Idle.ep, Idle.first} <=> Holds(p, b)
  BY <1>1, <1>2, <1>3 DEF Holds, RegsOK
<1>6. RegsOK(Idle) /\ Distinct(Idle)
  BY <1>3 DEF RegsOK, Distinct
<1> QED
  BY <1>1, <1>2, <1>3, <1>4, <1>5, <1>6, IdleType, Internal DEF TypeOK

\* getblk's caller goes on with the buffer.
LEMMA GotInv ==
    ASSUME IInv, NEW p \in Procs, GotCached(p) \/ GotBlank(p)
    PROVE  IInv'
<1> DEFINE to(l) == [proc[p] EXCEPT !.pc = l]
<1>1. /\ TypeOK /\ proc[p] \in Process
      /\ RegsOK(proc[p]) /\ Distinct(proc[p]) /\ Settled(p)
  BY View
<1>2. PICK l \in {"biowait", "hold"} :
        /\ Goto(p, to(l))
        /\ UNCHANGED <<buf, io, dcur, fwant, live, slp>>
        /\ proc[p].pc = "got" /\ proc[p].op \notin {"ahead", "copy"}
        /\ l = "biowait" => proc[p].op \in {"read", "extend", "move"}
  BY DEF GotCached, GotBlank, Running
<1>3. to(l) \in Process
  BY <1>1 DEF Process, Label
<1>4. \A b \in Bufs : b \in {to(l).bp, to(l).ep, to(l).first} <=> Holds(p, b)
  BY <1>1 DEF Holds, Process
<1>5. RegsOK(to(l)) /\ Distinct(to(l))
  BY <1>1, <1>2 DEF RegsOK, Distinct, Process
<1>6. to(l).bp \notin io /\ to(l).op # "copy" /\ to(l).pc # "getnewbuf"
  BY <1>1, <1>2 DEF Settled, Process
<1> HIDE DEF to
<1> QED BY <1>2, <1>3, <1>4, <1>5, <1>6, GotoInv

LEMMA BreadaInv ==
    ASSUME IInv, NEW p \in Procs,
           BreadaFirst(p) \/ BreadaAhead(p) \/ BreadaFinish(p)
    PROVE  IInv'
<1>1. /\ TypeOK /\ proc[p] \in Process
      /\ RegsOK(proc[p]) /\ Distinct(proc[p]) /\ Settled(p)
  BY View
<1>2. None \notin io
  BY NoneIsNoBuffer, <1>1 DEF TypeOK
<1>3. PICK r \in Process :
        /\ Goto(p, r)
        /\ UNCHANGED <<buf, io, dcur, fwant, live, slp>>
        /\ RegsOK(r) /\ Distinct(r)
        /\ r.op # "copy" /\ r.pc # "getnewbuf"
        /\ \A b \in Bufs : b \in {r.bp, r.ep, r.first} <=> Holds(p, b)
        /\ r.pc # "biowait" => r.bp = None
  <2>1. CASE BreadaFirst(p)
    <3> DEFINE l == IF Cached(proc[p].want) = {} THEN "getblk" ELSE "ahead"
               r == [proc[p] EXCEPT !.pc = l]
    <3>1. Goto(p, r) /\ UNCHANGED <<buf, io, dcur, fwant, live, slp>>
          /\ proc[p].pc = "breada"
      BY <2>1 DEF BreadaFirst, Running
    <3>2. l \in {"getblk", "ahead"}
      OBVIOUS
    <3> HIDE DEF l
    <3>3. r \in Process /\ RegsOK(r) /\ Distinct(r)
      BY <1>1, <3>1, <3>2 DEF Process, Label, RegsOK, Distinct
    <3>4. /\ r.op # "copy" /\ r.pc # "getnewbuf" /\ r.bp = None
          /\ \A b \in Bufs : b \in {r.bp, r.ep, r.first} <=> Holds(p, b)
      BY <1>1, <3>1, <3>2 DEF Process, RegsOK, Holds
    <3> QED BY <3>1, <3>3, <3>4
  <2>2. CASE BreadaAhead(p)
    <3> DEFINE s == [proc[p] EXCEPT !.pc = "finish"]
               t == [proc[p] EXCEPT !.pc = "getblk", !.op = "ahead",
                                    !.want = proc[p].ra, !.ra = proc[p].want]
    <3>1. PICK r \in {s, t} :
            Goto(p, r) /\ UNCHANGED <<buf, io, dcur, fwant, live, slp>>
            /\ proc[p].pc = "ahead"
      BY <2>2 DEF BreadaAhead, Running
    <3>2. r \in Process /\ RegsOK(r) /\ Distinct(r)
      BY ZenonT(60), <1>1, <3>1 DEF Process, Label, Op, RegsOK, Distinct
    <3>3. /\ r.op # "copy" /\ r.pc # "getnewbuf" /\ r.bp = None
          /\ \A b \in Bufs : b \in {r.bp, r.ep, r.first} <=> Holds(p, b)
      BY <1>1, <3>1 DEF Process, RegsOK, Holds
    <3> HIDE DEF s, t
    <3> QED BY <3>1, <3>2, <3>3
  <2>3. CASE BreadaFinish(p)
    <3> DEFINE l == IF proc[p].first = None THEN "getblk" ELSE "biowait"
               r == [proc[p] EXCEPT !.pc = l, !.op = "read",
                                    !.bp = proc[p].first, !.first = None,
                                    !.ra = NoExtent]
    <3>1. Goto(p, r) /\ UNCHANGED <<buf, io, dcur, fwant, live, slp>>
          /\ proc[p].pc = "finish"
      BY <2>3 DEF BreadaFinish, Running
    <3>2. /\ l \in {"getblk", "biowait"}
          /\ l = "getblk" <=> proc[p].first = None
      OBVIOUS
    <3> HIDE DEF l
    <3>3. r \in Process /\ RegsOK(r) /\ Distinct(r)
      BY ZenonT(60), <1>1, <3>1, <3>2, FileExtentType
      DEF Process, Label, Op, RegsOK, Distinct
    <3>4. /\ r.op # "copy" /\ r.pc # "getnewbuf"
          /\ r.pc # "biowait" => r.bp = None
          /\ \A b \in Bufs : b \in {r.bp, r.ep, r.first} <=> Holds(p, b)
      BY <1>1, <3>1, <3>2, NoneIsNoBuffer DEF Process, RegsOK, Holds
    <3> QED BY <3>1, <3>3, <3>4
  <2> QED BY <2>1, <2>2, <2>3
<1> QED
  BY <1>2, <1>3, GotoInv

LEMMA ReadDoneInv ==
    ASSUME IInv, NEW p \in Procs, ReadDone(p)
    PROVE  IInv'
<1>1. /\ TypeOK /\ proc[p] \in Process
      /\ RegsOK(proc[p]) /\ Distinct(proc[p])
  BY View
<1>2. None \notin io
  BY NoneIsNoBuffer, <1>1 DEF TypeOK
<1>3. /\ proc[p].pc = "biowait" /\ proc[p].bp \in Bufs
      /\ proc[p].first = None /\ proc[p].ep = None /\ proc[p].op # "copy"
  BY <1>1 DEF ReadDone, Running, RegsOK, Process
<1>4. proc[p].bp \notin io
  BY <1>3 DEF IInv, BufInv, FlagsOK, ReadDone, Is
<1> DEFINE more == [proc[p] EXCEPT !.pc = "brealloc", !.op = "extended",
                                   !.want = proc[p].ra, !.ra = proc[p].want]
           copy == [proc[p] EXCEPT !.pc = "getblk", !.op = "copy",
                                   !.first = proc[p].bp, !.bp = None,
                                   !.want = proc[p].ra, !.ra = proc[p].want]
           hold == [proc[p] EXCEPT !.pc = "hold"]
<1>5. PICK r \in {more, copy, hold} :
        Goto(p, r) /\ UNCHANGED <<buf, io, dcur, fwant, live, slp>>
  BY Zenon DEF ReadDone
<1>6. r \in Process
  BY ZenonT(60), <1>1 DEF Process, Label, Op
<1>7. \A b \in Bufs : b \in {r.bp, r.ep, r.first} <=> Holds(p, b)
  BY <1>1, <1>3, NoneIsNoBuffer DEF Holds, Process
<1>8. RegsOK(r) /\ Distinct(r)
  <2>1. CASE r = more
    BY <2>1, <1>1, <1>3, NoneIsNoBuffer DEF RegsOK, Distinct, Process
  <2>2. CASE r = copy
    BY <2>2, <1>1, <1>3, NoneIsNoBuffer DEF RegsOK, Distinct, Process
  <2>3. CASE r = hold
    BY <2>3, <1>1, <1>3, NoneIsNoBuffer DEF RegsOK, Distinct, Process
  <2> QED BY <2>1, <2>2, <2>3
<1>9. /\ r.bp \notin io /\ r.pc # "getnewbuf"
      /\ r.op = "copy" => r.first \notin io
  BY <1>1, <1>2, <1>3, <1>4 DEF Process
<1> HIDE DEF more, copy, hold
<1> QED
  BY <1>5, <1>6, <1>7, <1>8, <1>9, GotoInv

------------------------------------------------------------------------------
(* Steps that change one buffer. *)

LEMMA WakeupType ==
    ASSUME TypeOK, NEW chans, Wakeup(chans)
    PROVE  slp' \in [Procs -> Bufs \cup {None, FreeList}]
  BY DEF TypeOK, Wakeup

LEMMA ReleaseWakeupsType ==
    ASSUME TypeOK, NEW b, ReleaseWakeups(b)
    PROVE  slp' \in [Procs -> Bufs \cup {None, FreeList}] /\ fwant' \in BOOLEAN
  BY WakeupType DEF ReleaseWakeups

\* The flags of record s agree with its list and with the device's list d.
Agree(s, b, d) ==
    /\ s.queue # "out" <=> "BUSY" \notin s.flags
    /\ s.queue # "out" => b \notin d
    /\ "ASYNC" \in s.flags => b \in d
    /\ b \in d => "DONE" \notin s.flags

LEMMA OneBuffer ==
    ASSUME IInv, NEW p \in Procs, NEW r \in Process, NEW b \in Bufs,
           proc' = [proc EXCEPT ![p] = r],
           buf' \in [Bufs -> Buffer],
           \A c \in Bufs \ {b} : /\ buf'[c].queue = buf[c].queue
                                 /\ buf'[c].mem = buf[c].mem
                                 /\ buf'[c].flags = buf[c].flags
                                 /\ c \in io' <=> c \in io,
           io' \subseteq Bufs, dcur' \subseteq Addr, fwant' \in BOOLEAN,
           live' \subseteq Extent,
           slp' \in [Procs -> Bufs \cup {None, FreeList}],
           cpu' \in Procs \cup {None},
           \A q \in Procs \ {p} : ~Holds(q, b),
           \A c \in Bufs \ {b} : c \in {r.bp, r.ep, r.first} <=> Holds(p, c),
           b \in {r.bp, r.ep, r.first}
              <=> buf'[b].queue = "out" /\ "ASYNC" \notin buf'[b].flags,
           Agree(buf'[b], b, io'),
           RegsOK(r), Distinct(r),
           r.pc # "biowait" => r.bp \notin io',
           r.op = "copy" => r.first \notin io',
           r.pc = "getnewbuf" /\ r.bp # None => buf'[r.bp].mem < r.want.size
    PROVE  IInv'
<1>1. TypeOK'
  BY DEF IInv, TypeOK
<1>2. proc'[p] = r /\ \A q \in Procs \ {p} : proc'[q] = proc[q]
  BY DEF IInv, TypeOK
<1>3. \A c \in Bufs \ {b} : SameView(c)
  BY DEF SameView
<1>4. \A c \in Bufs \ {b} : Holds(p, c)' <=> Holds(p, c)
  BY <1>2 DEF Holds
<1>5. RegsOK(proc'[p]) /\ Distinct(proc'[p]) /\ Settled(p)' /\ Short(p)'
  BY <1>2 DEF Settled, Short
<1>6. FlagsOK(b)'
  BY DEF FlagsOK, Agree, Free, Is
<1>7. Holds(p, b)' <=> ~Free(b)' /\ ~Is(b, "ASYNC")'
  BY <1>2 DEF Holds, Free, Is
<1> DEFINE T == {b}
<1>8. \A c \in T : /\ FlagsOK(c)'
                   /\ \A q \in Procs \ {p} : ~Holds(q, c)
                   /\ p \in Procs /\ Holds(p, c)'
                         <=> ~Free(c)' /\ ~Is(c, "ASYNC")'
  BY <1>6, <1>7 DEF FlagsOK, Free, Is, Holds
<1>9. \A c \in Bufs \ T : SameView(c)
        /\ (p \in Procs => (Holds(p, c)' <=> Holds(p, c)))
  BY <1>3, <1>4
<1>10. T \in SUBSET Bufs
  OBVIOUS
<1> HIDE DEF T
<1> QED
  BY <1>1, <1>2, <1>5, <1>8, <1>9, <1>10, Handover

\* The usual case: the other buffers stay as they are.
LEMMA OneRecord ==
    ASSUME IInv, NEW p \in Procs, NEW r \in Process, NEW b \in Bufs,
           NEW s \in Buffer,
           proc' = [proc EXCEPT ![p] = r], buf' = [buf EXCEPT ![b] = s],
           io' = io \/ io' = io \cup {b} \/ io' = io \ {b},
           dcur' \subseteq Addr, fwant' \in BOOLEAN, live' \subseteq Extent,
           slp' \in [Procs -> Bufs \cup {None, FreeList}],
           cpu' \in Procs \cup {None},
           \A q \in Procs \ {p} : ~Holds(q, b),
           \A c \in Bufs \ {b} : c \in {r.bp, r.ep, r.first} <=> Holds(p, c),
           b \in {r.bp, r.ep, r.first}
              <=> s.queue = "out" /\ "ASYNC" \notin s.flags,
           Agree(s, b, io'),
           RegsOK(r), Distinct(r),
           r.pc # "biowait" => r.bp \notin io',
           r.op = "copy" => r.first \notin io',
           r.pc = "getnewbuf" /\ r.bp # None => buf'[r.bp].mem < r.want.size
    PROVE  IInv'
<1>1. buf \in [Bufs -> Buffer] /\ io \subseteq Bufs
  BY DEF IInv, TypeOK
<1>2. /\ buf' \in [Bufs -> Buffer] /\ buf'[b] = s
      /\ \A c \in Bufs \ {b} : buf'[c] = buf[c]
  BY <1>1
<1>3. io' \subseteq Bufs /\ \A c \in Bufs \ {b} : c \in io' <=> c \in io
  BY <1>1
<1>4. \A c \in Bufs \ {b} : /\ buf'[c].queue = buf[c].queue
                            /\ buf'[c].mem = buf[c].mem
                            /\ buf'[c].flags = buf[c].flags
                            /\ c \in io' <=> c \in io
  BY <1>2, <1>3
<1>5. /\ Agree(buf'[b], b, io')
      /\ b \in {r.bp, r.ep, r.first}
            <=> buf'[b].queue = "out" /\ "ASYNC" \notin buf'[b].flags
  BY <1>2
<1> QED
  BY <1>2, <1>3, <1>4, <1>5, OneBuffer

\* A buffer another process holds is neither free nor left to the interrupt.
LEMMA FreeUnheld ==
    ASSUME IInv, NEW b \in Bufs, Free(b)
    PROVE  /\ \A q \in Procs : ~Holds(q, b)
           /\ b \notin io /\ "BUSY" \notin buf[b].flags
           /\ "ASYNC" \notin buf[b].flags /\ buf[b] \in Buffer
  BY DEF IInv, HoldInv, HeldOK, BufInv, FlagsOK, Is, TypeOK

LEMMA HeldUnique ==
    ASSUME IInv, NEW p \in Procs, NEW b \in Bufs, Holds(p, b)
    PROVE  /\ \A q \in Procs \ {p} : ~Holds(q, b)
           /\ buf[b].queue = "out" /\ "BUSY" \in buf[b].flags
           /\ "ASYNC" \notin buf[b].flags /\ buf[b] \in Buffer
           /\ b \in io => "DONE" \notin buf[b].flags
  BY DEF IInv, HoldInv, HeldOK, OneHolder, BufInv, FlagsOK, Free, Is, TypeOK

LEMMA RenamedType ==
    ASSUME NEW r \in Buffer, NEW blk \in Addr \cup {NODEV},
           NEW flags \in {{"BUSY"}, {"BUSY", "INVAL"}}
    PROVE  /\ Renamed(r, blk, flags) \in Buffer
           /\ Renamed(r, blk, flags).flags = flags
           /\ Renamed(r, blk, flags).queue = "out"
<1>1. flags \in SUBSET Flag /\ 0 \in 0 .. BlockFrags
  BY BufferCacheAssumption DEF Flag
<1> QED
  BY <1>1 DEF Renamed, Buffer

LEMMA HitInv ==
    ASSUME IInv, NEW p \in Procs, GetblkHit(p) \/ GetnewbufClean(p)
    PROVE  IInv'
<1>1. /\ TypeOK /\ proc[p] \in Process
      /\ RegsOK(proc[p]) /\ Distinct(proc[p]) /\ Settled(p)
  BY View
<1>2. PICK b \in Bufs :
        /\ Free(b) /\ proc[p].pc \in {"getblk", "getnewbuf"}
        /\ proc[p].bp = None
        /\ UNCHANGED <<io, dcur, fwant, live, slp, cpu>>
        /\ proc' = [proc EXCEPT ![p] =
                      [proc[p] EXCEPT !.pc = "brealloc", !.bp = b]]
        /\ \E s \in Buffer : /\ buf' = [buf EXCEPT ![b] = s]
                             /\ s.queue = "out" /\ "BUSY" \in s.flags
                             /\ "ASYNC" \notin s.flags
  <2>1. CASE GetblkHit(p)
    <3>1. PICK b \in Bufs :
            /\ "BUSY" \notin buf[b].flags
            /\ buf' = [buf EXCEPT ![b] = Taken(buf[b])]
            /\ Goto(p, [proc[p] EXCEPT !.pc = "brealloc", !.bp = b])
      BY <2>1 DEF GetblkHit, Cached, Is
    <3>2. Free(b)
      BY <3>1 DEF IInv, BufInv, FlagsOK, Is
    <3>3. buf[b] \in Buffer /\ "ASYNC" \notin buf[b].flags
      BY <3>2, FreeUnheld
    <3>4. /\ Taken(buf[b]) \in Buffer /\ Taken(buf[b]).queue = "out"
          /\ "BUSY" \in Taken(buf[b]).flags /\ "ASYNC" \notin Taken(buf[b]).flags
      BY <3>3, TakenType
    <3> QED
      BY <1>1, <2>1, <3>1, <3>2, <3>4 DEF GetblkHit, Running, RegsOK, Goto
  <2>2. CASE GetnewbufClean(p)
    <3> DEFINE flags == IF proc[p].op = "anon" THEN {"BUSY", "INVAL"}
                        ELSE {"BUSY"}
               s(b) == Renamed(buf[b], proc[p].want.start, flags)
    <3>1. PICK b \in Bufs :
            /\ buf[b].queue = "free"
            /\ buf' = [buf EXCEPT ![b] = s(b)]
            /\ Goto(p, [proc[p] EXCEPT !.pc = "brealloc", !.bp = b])
      BY <2>2, Zenon DEF GetnewbufClean
    <3>2. buf[b] \in Buffer /\ proc[p].want \in Extent
      BY <1>1 DEF TypeOK, Process
    <3>3. /\ s(b) \in Buffer /\ s(b).queue = "out"
          /\ "BUSY" \in s(b).flags /\ "ASYNC" \notin s(b).flags
      BY <3>2, RenamedType DEF Extent
    <3>4. Free(b)
      BY <3>1 DEF Free
    <3> HIDE DEF s
    <3> QED
      BY <1>1, <2>2, <3>1, <3>3, <3>4 DEF GetnewbufClean, Running, RegsOK, Goto
  <2> QED BY <2>1, <2>2
<1> DEFINE r == [proc[p] EXCEPT !.pc = "brealloc", !.bp = b]
<1>3. PICK s \in Buffer : /\ buf' = [buf EXCEPT ![b] = s]
                          /\ s.queue = "out" /\ "BUSY" \in s.flags
                          /\ "ASYNC" \notin s.flags
  BY <1>2
<1>4. (\A q \in Procs : ~Holds(q, b)) /\ b \notin io
  BY <1>2, FreeUnheld
<1>5. r \in Process /\ r.pc = "brealloc" /\ r.bp = b /\ proc' = [proc EXCEPT ![p] = r]
  BY <1>1, <1>2 DEF Process, Label
<1>6. \A c \in Bufs \ {b} : c \in {r.bp, r.ep, r.first} <=> Holds(p, c)
  BY <1>1, <1>2, NoneIsNoBuffer DEF Holds, Process
<1>7. RegsOK(r) /\ Distinct(r)
  BY <1>1, <1>2, <1>4, NoneIsNoBuffer DEF RegsOK, Distinct, Process, Holds
<1>8. r.op = "copy" => r.first \notin io
  BY <1>1 DEF Settled, Process
<1>9. /\ dcur' \subseteq Addr /\ fwant' \in BOOLEAN /\ live' \subseteq Extent
      /\ slp' \in [Procs -> Bufs \cup {None, FreeList}]
      /\ cpu' \in Procs \cup {None} /\ io' = io
  BY <1>1, <1>2 DEF TypeOK
<1>10. Agree(s, b, io')
  BY <1>3, <1>4, <1>9 DEF Agree
<1> HIDE DEF r
<1> QED
  BY <1>3, <1>4, <1>5, <1>6, <1>7, <1>8, <1>9, <1>10, OneRecord

\* Sleeping marks a buffer, which no part of the invariant looks at.
LEMMA WaitInv ==
    ASSUME IInv, NEW p \in Procs,
           GetblkBusy(p) \/ OverlapBusy(p) \/ BlkflushBusy(p)
    PROVE  IInv'
<1>1. TypeOK /\ proc[p] \in Process
  BY View
<1>2. PICK b \in Bufs : WaitFor(p, b)
  BY DEF GetblkBusy, OverlapBusy, BlkflushBusy, Cached, Rivals, Overlapping
<1>3. TypeOK'
  <2>1. [buf[b] EXCEPT !.flags = @ \cup {"WANTED"}] \in Buffer
    BY <1>1 DEF TypeOK, Buffer, Flag
  <2>2. /\ buf' = [buf EXCEPT ![b] =
                      [buf[b] EXCEPT !.flags = @ \cup {"WANTED"}]]
        /\ slp' = [slp EXCEPT ![p] = b] /\ cpu' = None
        /\ UNCHANGED <<io, dcur, fwant, live, proc>>
    BY <1>2 DEF WaitFor, Sleep
  <2> QED BY <1>1, <2>1, <2>2 DEF TypeOK
<1>4. \A c \in Bufs : SameView(c)
  <2>1. /\ buf \in [Bufs -> Buffer]
        /\ buf' = [buf EXCEPT ![b].flags = @ \cup {"WANTED"}] /\ io' = io
    BY <1>1, <1>2 DEF TypeOK, WaitFor
  <2> QED BY <2>1 DEF SameView, Buffer
<1>5. proc' = proc
  BY <1>2 DEF WaitFor
<1>6. \A c \in Bufs : Holds(p, c)' <=> Holds(p, c)
  BY <1>5 DEF Holds
<1>7. RegsOK(proc'[p]) /\ Distinct(proc'[p])
  BY <1>5, View
<1>8. Settled(p)' /\ Short(p)'
  <2>1. Settled(p) /\ Short(p)
    BY View
  <2>2. Settled(p)'
    BY <2>1, <1>2, <1>5 DEF Settled, WaitFor
  <2>3. Short(p)'
    BY <2>1, <1>1, <1>4, <1>5 DEF Short, SameView, Process
  <2> QED BY <2>2, <2>3
<1> DEFINE T == {}
<1>9. T \in SUBSET Bufs /\ (\A c \in T : FALSE) /\ Bufs \ T \subseteq Bufs
  OBVIOUS
<1> HIDE DEF T
<1> QED
  BY <1>3, <1>4, <1>5, <1>6, <1>7, <1>8, <1>9, Handover

\* Steps on a free buffer after which the process holds nothing new.
LEMMA FreeStep ==
    ASSUME IInv, NEW p \in Procs, NEW b \in Bufs, NEW s \in Buffer, Free(b),
           buf' = [buf EXCEPT ![b] = s], UNCHANGED <<dcur, live, proc, cpu>>,
           slp' \in [Procs -> Bufs \cup {None, FreeList}], fwant' \in BOOLEAN,
           io' = io \/ io' = io \cup {b},
           s.queue = "out" <=> "ASYNC" \in s.flags,
           Agree(s, b, io')
    PROVE  IInv'
<1>1. /\ TypeOK /\ proc[p] \in Process
      /\ RegsOK(proc[p]) /\ Distinct(proc[p]) /\ Settled(p) /\ Short(p)
  BY View
<1>2. (\A q \in Procs : ~Holds(q, b)) /\ b \notin io
  BY FreeUnheld
<1>3. proc' = [proc EXCEPT ![p] = proc[p]]
  BY <1>1 DEF TypeOK
<1>4. /\ dcur' \subseteq Addr /\ live' \subseteq Extent
      /\ cpu' \in Procs \cup {None}
  BY <1>1 DEF TypeOK
<1>5. \A c \in Bufs \ {b} : c \in {proc[p].bp, proc[p].ep, proc[p].first}
                              <=> Holds(p, c)
  BY DEF Holds
<1>6. b \in {proc[p].bp, proc[p].ep, proc[p].first}
         <=> s.queue = "out" /\ "ASYNC" \notin s.flags
  BY <1>2 DEF Holds
<1>7. /\ proc[p].pc # "biowait" => proc[p].bp \notin io'
      /\ proc[p].op = "copy" => proc[p].first \notin io'
  BY <1>1, <1>2 DEF Settled, Holds
<1>8. proc[p].pc = "getnewbuf" /\ proc[p].bp # None =>
         buf'[proc[p].bp].mem < proc[p].want.size
  BY <1>1, <1>2 DEF Short, Holds, Process, TypeOK
<1> QED
  BY <1>1, <1>2, <1>3, <1>4, <1>5, <1>6, <1>7, <1>8, OneRecord

LEMMA FlushAsyncInv ==
    ASSUME IInv, NEW p \in Procs, GetnewbufDirty(p) \/ BflushWrite(p)
    PROVE  IInv'
<1>1. PICK b \in Bufs : Free(b) /\ FlushAsync(p, b)
  BY DEF GetnewbufDirty, BflushWrite, Dirty, Free
<1> DEFINE s == AsyncWritten(Taken(buf[b]))
<1>2. buf[b] \in Buffer /\ TypeOK
  BY View DEF TypeOK
<1>3. /\ s \in Buffer /\ s.queue = "out"
      /\ "BUSY" \in s.flags /\ "ASYNC" \in s.flags /\ "DONE" \notin s.flags
  BY <1>2, TakenType, AsyncWrittenType
<1>4. /\ buf' = [buf EXCEPT ![b] = s] /\ UNCHANGED <<dcur, live, proc, cpu>>
      /\ io' = io \cup {b}
      /\ slp' \in [Procs -> Bufs \cup {None, FreeList}] /\ fwant' \in BOOLEAN
  BY <1>1, <1>2 DEF FlushAsync, TypeOK
<1>5. Agree(s, b, io')
  BY <1>3, <1>4 DEF Agree
<1> HIDE DEF s
<1> QED
  BY <1>1, <1>3, <1>4, <1>5, FreeStep

LEMMA OverlapCleanInv ==
    ASSUME IInv, NEW p \in Procs, OverlapClean(p)
    PROVE  IInv'
<1> DEFINE s(b) == Released(Invalidated(buf[b]))
<1>1. PICK b \in Bufs :
        /\ ~Is(b, "BUSY") /\ buf' = [buf EXCEPT ![b] = s(b)]
        /\ ReleaseWakeups(b)
  BY DEF OverlapClean, Rivals, Overlapping
<1>2. buf[b] \in Buffer /\ TypeOK
  BY View DEF TypeOK
<1>3. Free(b)
  BY <1>1 DEF IInv, BufInv, FlagsOK
<1>4. /\ s(b) \in Buffer /\ s(b).queue # "out"
      /\ "BUSY" \notin s(b).flags /\ "ASYNC" \notin s(b).flags
  BY <1>2, InvalidatedType, ReleasedType
<1>5. Agree(s(b), b, io)
  BY <1>3, <1>4, FreeUnheld DEF Agree
<1>6. UNCHANGED <<io, dcur, live, proc, cpu>>
  BY DEF OverlapClean
<1> HIDE DEF s
<1> QED
  BY <1>1, <1>2, <1>3, <1>4, <1>5, <1>6, FreeStep, ReleaseWakeupsType

\* Steps on a buffer that the process goes on holding.
LEMMA KeepStep ==
    ASSUME IInv, NEW p \in Procs, NEW r \in Process, NEW b \in Bufs,
           NEW s \in Buffer, Holds(p, b),
           buf' = [buf EXCEPT ![b] = s], Goto(p, r),
           io' = io \/ io' = io \cup {b}, live' \subseteq Extent,
           UNCHANGED <<dcur, fwant, slp>>,
           s.queue = "out", "BUSY" \in s.flags, "ASYNC" \notin s.flags,
           b \in io' => "DONE" \notin s.flags,
           \A c \in Bufs : c \in {r.bp, r.ep, r.first} <=> Holds(p, c),
           RegsOK(r), Distinct(r),
           r.pc # "biowait" => r.bp \notin io',
           r.op = "copy" => r.first \notin io',
           r.pc # "getnewbuf"
    PROVE  IInv'
<1>1. \A q \in Procs \ {p} : ~Holds(q, b)
  BY HeldUnique
<1>2. Agree(s, b, io')
  BY DEF Agree
<1>3. /\ dcur' \subseteq Addr /\ fwant' \in BOOLEAN
      /\ slp' \in [Procs -> Bufs \cup {None, FreeList}]
      /\ cpu' \in Procs \cup {None} /\ proc' = [proc EXCEPT ![p] = r]
  BY DEF IInv, TypeOK, Goto
<1> QED
  BY <1>1, <1>2, <1>3, OneRecord

\* Steps that release a buffer the process held.
LEMMA ReleaseStep ==
    ASSUME IInv, NEW p \in Procs, NEW r \in Process, NEW b \in Bufs,
           Holds(p, b), b \notin io,
           buf' = [buf EXCEPT ![b] = Released(buf[b])], ReleaseWakeups(b),
           proc' = [proc EXCEPT ![p] = r], cpu' \in Procs \cup {None},
           UNCHANGED <<io, dcur>>, live' \subseteq Extent,
           \A c \in Bufs \ {b} : c \in {r.bp, r.ep, r.first} <=> Holds(p, c),
           b \notin {r.bp, r.ep, r.first},
           RegsOK(r), Distinct(r),
           r.pc # "biowait" => r.bp \notin io,
           r.op = "copy" => r.first \notin io,
           r.pc # "getnewbuf"
    PROVE  IInv'
<1> DEFINE s == Released(buf[b])
<1>1. (\A q \in Procs \ {p} : ~Holds(q, b)) /\ buf[b] \in Buffer
  BY HeldUnique
<1>2. /\ s \in Buffer /\ s.queue # "out" /\ "BUSY" \notin s.flags
      /\ "ASYNC" \notin s.flags
  BY <1>1, ReleasedType
<1>3. Agree(s, b, io')
  BY <1>2 DEF Agree
<1>4. TypeOK
  BY View
<1>5. /\ dcur' \subseteq Addr /\ fwant' \in BOOLEAN /\ io' = io
      /\ slp' \in [Procs -> Bufs \cup {None, FreeList}]
  BY <1>4, ReleaseWakeupsType DEF TypeOK
<1> HIDE DEF s
<1>6. buf' = [buf EXCEPT ![b] = s]
  BY DEF s
<1> QED
  BY <1>1, <1>2, <1>3, <1>5, <1>6, OneRecord

LEMMA FlushSyncInv ==
    ASSUME IInv, NEW p \in Procs, OverlapDirty(p) \/ BlkflushDirty(p)
    PROVE  IInv'
<1>1. /\ TypeOK /\ proc[p] \in Process
      /\ RegsOK(proc[p]) /\ Distinct(proc[p]) /\ Settled(p)
  BY View
<1>2. PICK e \in Bufs, ret \in {"overlap", "blkflush"} :
        ~Is(e, "BUSY") /\ FlushSync(p, e, ret) /\ proc[p].pc = ret
  BY DEF OverlapDirty, BlkflushDirty, Rivals, Overlapping, Running
<1> DEFINE s == Written(Taken(buf[e]))
           r == [proc[p] EXCEPT !.pc = "bwrite", !.ep = e, !.ret = ret]
<1>3. Free(e)
  BY <1>2 DEF IInv, BufInv, FlagsOK
<1>4. /\ \A q \in Procs : ~Holds(q, e)
      /\ e \notin io /\ "ASYNC" \notin buf[e].flags /\ buf[e] \in Buffer
  BY <1>3, FreeUnheld
<1>5. /\ s \in Buffer /\ s.queue = "out" /\ "BUSY" \in s.flags
      /\ "ASYNC" \notin s.flags /\ "DONE" \notin s.flags
  BY <1>4, TakenType, WrittenType
<1>6. /\ r \in Process /\ RegsOK(r) /\ Distinct(r)
  <2>1. proc[p].bp # e /\ proc[p].first # e /\ e # None
    BY <1>4, NoneIsNoBuffer DEF Holds
  <2>2. r \in Process
    BY <1>1, <1>2 DEF Process, Label
  <2>3. RegsOK(r)
    BY <1>1, <1>2, <2>1 DEF RegsOK, Process
  <2>4. Distinct(r)
    BY <1>1, <1>2, <2>1 DEF Distinct, Process
  <2> QED BY <2>2, <2>3, <2>4
<1>7. /\ buf' = [buf EXCEPT ![e] = s] /\ io' = io \cup {e}
      /\ proc' = [proc EXCEPT ![p] = r]
      /\ UNCHANGED <<dcur, fwant, live, slp, cpu>>
  BY <1>2 DEF FlushSync, Goto
<1>8. /\ \A c \in Bufs \ {e} : c \in {r.bp, r.ep, r.first} <=> Holds(p, c)
      /\ e \in {r.bp, r.ep, r.first} /\ r.pc = "bwrite"
  BY <1>1, <1>2, NoneIsNoBuffer DEF Holds, Process, RegsOK
<1>9. r.bp \notin io' /\ (r.op = "copy" => r.first \notin io')
  BY <1>1, <1>2, <1>4, <1>7 DEF Holds, Settled, Process
<1>10. Agree(s, e, io')
  BY <1>5 DEF Agree
<1>11. /\ dcur' \subseteq Addr /\ fwant' \in BOOLEAN /\ live' \subseteq Extent
       /\ slp' \in [Procs -> Bufs \cup {None, FreeList}]
       /\ cpu' \in Procs \cup {None}
  BY <1>1, <1>7 DEF TypeOK
<1> HIDE DEF s, r
<1> QED
  BY <1>4, <1>5, <1>6, <1>7, <1>8, <1>9, <1>10, <1>11, OneRecord

\* What is known of the buffer that getblk works on.
LEMMA BpHeld ==
    ASSUME IInv, NEW p \in Procs,
           proc[p].pc \in {"brealloc", "overlap", "allocbuf", "got", "biowait",
                           "hold"}
    PROVE  /\ proc[p].bp \in Bufs /\ Holds(p, proc[p].bp)
           /\ proc[p].ep = None /\ proc[p].first # proc[p].bp
           /\ buf[proc[p].bp] \in Buffer
           /\ buf[proc[p].bp].queue = "out" /\ "BUSY" \in buf[proc[p].bp].flags
           /\ "ASYNC" \notin buf[proc[p].bp].flags
           /\ proc[p].pc # "biowait" => proc[p].bp \notin io
<1>1. /\ proc[p] \in Process /\ RegsOK(proc[p]) /\ Distinct(proc[p])
      /\ Settled(p)
  BY View
<1>2. /\ proc[p].bp \in Bufs /\ Holds(p, proc[p].bp)
      /\ proc[p].ep = None /\ proc[p].first # proc[p].bp
  BY <1>1 DEF Process, RegsOK, Distinct, Holds
<1> QED
  BY <1>1, <1>2, HeldUnique DEF Settled

LEMMA BreallocInv ==
    ASSUME IInv, NEW p \in Procs, BreallocDirty(p) \/ BreallocGrow(p)
    PROVE  IInv'
<1> DEFINE b == proc[p].bp
<1>1. /\ TypeOK /\ proc[p] \in Process
      /\ RegsOK(proc[p]) /\ Distinct(proc[p]) /\ Settled(p)
      /\ proc[p].pc = "brealloc" /\ None \notin io
  BY View, NoneIsNoBuffer DEF BreallocDirty, BreallocGrow, Running, TypeOK
<1>2. /\ b \in Bufs /\ Holds(p, b) /\ proc[p].ep = None
      /\ proc[p].first # b /\ b \notin io /\ buf[b] \in Buffer
      /\ buf[b].queue = "out" /\ "BUSY" \in buf[b].flags
      /\ "ASYNC" \notin buf[b].flags
  BY <1>1, BpHeld
<1>3. CASE BreallocDirty(p)
  <2> DEFINE s == Written(buf[b])
             r == [proc[p] EXCEPT !.pc = "bwrite", !.ep = b, !.bp = None,
                                  !.ret = "getblk"]
  <2>1. /\ s \in Buffer /\ s.queue = "out" /\ "BUSY" \in s.flags
        /\ "ASYNC" \notin s.flags /\ "DONE" \notin s.flags
    BY <1>2, WrittenType
  <2>2. /\ buf' = [buf EXCEPT ![b] = s] /\ io' = io \cup {b} /\ Goto(p, r)
        /\ UNCHANGED <<dcur, fwant, live, slp>>
    BY <1>3 DEF BreallocDirty
  <2>3. r \in Process /\ RegsOK(r) /\ Distinct(r)
    BY ZenonT(60), <1>1, <1>2, NoneIsNoBuffer DEF Process, Label, RegsOK, Distinct
  <2>4. \A c \in Bufs : c \in {r.bp, r.ep, r.first} <=> Holds(p, c)
    BY <1>1, <1>2, NoneIsNoBuffer DEF Holds, Process
  <2>5. /\ r.bp \notin io' /\ r.pc = "bwrite"
        /\ r.op = "copy" => r.first \notin io'
    BY <1>1, <1>2, <2>2, NoneIsNoBuffer DEF Settled, Process
  <2>6. live' \subseteq Extent
    BY <1>1, <2>2 DEF TypeOK
  <2> HIDE DEF s, r
  <2> QED
    BY <1>2, <2>1, <2>2, <2>3, <2>4, <2>5, <2>6, KeepStep
<1>4. CASE BreallocGrow(p)
  <2> DEFINE s == [buf[b] EXCEPT !.flags = @ \ {"DONE"}]
             r == [proc[p] EXCEPT !.pc = "overlap"]
  <2>1. /\ s \in Buffer /\ s.queue = "out" /\ "BUSY" \in s.flags
        /\ "ASYNC" \notin s.flags
    BY <1>2 DEF Buffer
  <2>2. /\ buf' = [buf EXCEPT ![b] = s] /\ io' = io /\ Goto(p, r)
        /\ UNCHANGED <<dcur, fwant, live, slp>>
    BY <1>4 DEF BreallocGrow
  <2>3. r \in Process /\ RegsOK(r) /\ Distinct(r)
    BY <1>1, <1>2 DEF Process, Label, RegsOK, Distinct
  <2>4. \A c \in Bufs : c \in {r.bp, r.ep, r.first} <=> Holds(p, c)
    BY <1>1 DEF Holds, Process
  <2>5. /\ r.bp \notin io' /\ r.pc = "overlap"
        /\ r.op = "copy" => r.first \notin io'
    BY <1>1, <1>2, <2>2 DEF Settled, Process
  <2>6. live' \subseteq Extent
    BY <1>1, <2>2 DEF TypeOK
  <2> HIDE DEF s, r
  <2> QED
    BY <1>2, <2>1, <2>2, <2>3, <2>4, <2>5, <2>6, KeepStep
<1> QED
  BY <1>3, <1>4

LEMMA AllocbufFitsInv ==
    ASSUME IInv, NEW p \in Procs, AllocbufFits(p)
    PROVE  IInv'
<1> DEFINE b == proc[p].bp
           s == Resized(buf[b], proc[p].want.size)
           r == [proc[p] EXCEPT !.pc = "got"]
<1>1. /\ TypeOK /\ proc[p] \in Process
      /\ RegsOK(proc[p]) /\ Distinct(proc[p]) /\ Settled(p)
      /\ proc[p].pc = "allocbuf"
  BY View DEF AllocbufFits, Running
<1>2. /\ b \in Bufs /\ Holds(p, b) /\ b \notin io /\ buf[b] \in Buffer
      /\ buf[b].queue = "out" /\ "BUSY" \in buf[b].flags
      /\ "ASYNC" \notin buf[b].flags
  BY <1>1, BpHeld
<1>3. proc[p].want.size \in 0 .. BlockFrags
  BY <1>1 DEF Process, Extent
<1>4. /\ s \in Buffer /\ s.queue = "out" /\ "BUSY" \in s.flags
      /\ "ASYNC" \notin s.flags
  BY <1>2, <1>3, ResizedType
<1>5. /\ buf' = [buf EXCEPT ![b] = s] /\ io' = io /\ Goto(p, r)
      /\ UNCHANGED <<dcur, fwant, live, slp>>
  BY DEF AllocbufFits
<1>6. r \in Process /\ RegsOK(r) /\ Distinct(r)
  BY <1>1 DEF Process, Label, RegsOK, Distinct
<1>7. \A c \in Bufs : c \in {r.bp, r.ep, r.first} <=> Holds(p, c)
  BY <1>1 DEF Holds, Process
<1>8. /\ r.bp \notin io' /\ r.pc = "got"
      /\ r.op = "copy" => r.first \notin io'
  BY <1>1, <1>2, <1>5 DEF Settled, Process
<1>9. live' \subseteq Extent
  BY <1>1, <1>5 DEF TypeOK
<1> HIDE DEF s, r
<1> QED
  BY <1>2, <1>4, <1>5, <1>6, <1>7, <1>8, <1>9, KeepStep

LEMMA GotExtendedInv ==
    ASSUME IInv, NEW p \in Procs, GotExtended(p)
    PROVE  IInv'
<1> DEFINE b == proc[p].bp
           s == [buf[b] EXCEPT !.flags = @ \cup {"DONE"}]
           r == [proc[p] EXCEPT !.pc = "hold"]
<1>1. /\ TypeOK /\ proc[p] \in Process
      /\ RegsOK(proc[p]) /\ Distinct(proc[p]) /\ Settled(p)
      /\ proc[p].pc = "got" /\ proc[p].op = "extended"
  BY View DEF GotExtended, Running
<1>2. /\ b \in Bufs /\ Holds(p, b) /\ b \notin io /\ buf[b] \in Buffer
      /\ buf[b].queue = "out" /\ "BUSY" \in buf[b].flags
      /\ "ASYNC" \notin buf[b].flags
  BY <1>1, BpHeld
<1>3. /\ s \in Buffer /\ s.queue = "out" /\ "BUSY" \in s.flags
      /\ "ASYNC" \notin s.flags
  BY <1>2 DEF Buffer, Flag
<1>4. /\ buf' = [buf EXCEPT ![b] = s] /\ io' = io /\ Goto(p, r)
      /\ UNCHANGED <<dcur, fwant, slp>>
      /\ live' = (live \ {proc[p].ra}) \cup {proc[p].want}
  BY DEF GotExtended
<1>5. r \in Process /\ RegsOK(r) /\ Distinct(r)
  BY <1>1 DEF Process, Label, RegsOK, Distinct
<1>6. \A c \in Bufs : c \in {r.bp, r.ep, r.first} <=> Holds(p, c)
  BY <1>1 DEF Holds, Process
<1>7. r.bp \notin io' /\ r.pc = "hold" /\ r.op # "copy"
  BY <1>1, <1>2, <1>4 DEF Process
<1>8. live' \subseteq Extent
  BY <1>1, <1>4 DEF TypeOK, Process
<1> HIDE DEF s, r
<1> QED
  BY <1>2, <1>3, <1>4, <1>5, <1>6, <1>7, <1>8, KeepStep

LEMMA GotReadInv ==
    ASSUME IInv, NEW p \in Procs, GotUncached(p)
    PROVE  IInv'
<1> DEFINE b == proc[p].bp
           s == Reading(buf[b], {})
           ahead == [proc[p] EXCEPT !.pc = "ahead", !.first = proc[p].bp,
                                    !.bp = None]
           wait == [proc[p] EXCEPT !.pc = "biowait"]
           r == IF proc[p].op = "reada" THEN ahead ELSE wait
<1>1. /\ TypeOK /\ proc[p] \in Process
      /\ RegsOK(proc[p]) /\ Distinct(proc[p]) /\ Settled(p)
      /\ proc[p].pc = "got" /\ None \notin io
      /\ proc[p].op \in {"read", "extend", "move", "reada"}
      /\ "DONE" \notin buf[b].flags
  BY View, NoneIsNoBuffer DEF GotUncached, Running, Is, TypeOK
<1>2. /\ b \in Bufs /\ Holds(p, b) /\ buf[b] \in Buffer
      /\ proc[p].ep = None /\ proc[p].first = None
      /\ buf[b].queue = "out" /\ "BUSY" \in buf[b].flags
      /\ "ASYNC" \notin buf[b].flags
  BY <1>1, BpHeld DEF RegsOK
<1>3. /\ s \in Buffer /\ s.queue = "out" /\ "BUSY" \in s.flags
      /\ "ASYNC" \notin s.flags /\ "DONE" \notin s.flags
  BY <1>1, <1>2, ReadingType
<1>4. /\ buf' = [buf EXCEPT ![b] = s] /\ io' = io \cup {b} /\ Goto(p, r)
      /\ UNCHANGED <<dcur, fwant, live, slp>>
  BY DEF GotUncached
<1>5. CASE proc[p].op = "reada"
  <2>1. ahead \in Process /\ RegsOK(ahead) /\ Distinct(ahead)
    BY <1>1, <1>2, <1>5 DEF Process, Label, RegsOK, Distinct
  <2>2. \A c \in Bufs : c \in {ahead.bp, ahead.ep, ahead.first} <=> Holds(p, c)
    BY <1>1, <1>2, NoneIsNoBuffer DEF Holds, Process
  <2>3. /\ ahead.bp \notin io' /\ ahead.pc = "ahead" /\ ahead.op # "copy"
    BY <1>1, <1>2, <1>4, NoneIsNoBuffer DEF Process
  <2>4. Goto(p, ahead)
    BY <1>4, <1>5
  <2>5. live' \subseteq Extent
    BY <1>1, <1>4 DEF TypeOK
  <2> HIDE DEF s, ahead
  <2> QED
    BY <1>2, <1>3, <1>4, <2>1, <2>2, <2>3, <2>4, <2>5, KeepStep
<1>6. CASE proc[p].op # "reada"
  <2>1. wait \in Process /\ RegsOK(wait) /\ Distinct(wait)
    BY <1>1, <1>2, <1>6 DEF Process, Label, RegsOK, Distinct
  <2>2. \A c \in Bufs : c \in {wait.bp, wait.ep, wait.first} <=> Holds(p, c)
    BY <1>1 DEF Holds, Process
  <2>3. wait.pc = "biowait" /\ wait.op # "copy"
    BY <1>1 DEF Process
  <2>4. Goto(p, wait)
    BY <1>4, <1>6
  <2>5. live' \subseteq Extent
    BY <1>1, <1>4 DEF TypeOK
  <2> HIDE DEF s, wait
  <2> QED
    BY <1>2, <1>3, <1>4, <2>1, <2>2, <2>3, <2>4, <2>5, KeepStep
<1> QED
  BY <1>5, <1>6

\* The block read ahead leaves the process: to the cache or to the interrupt.
LEMMA GotAheadInv ==
    ASSUME IInv, NEW p \in Procs, GotAhead(p)
    PROVE  IInv'
<1> DEFINE b == proc[p].bp
           r == AheadOver(p)
<1>1. /\ TypeOK /\ proc[p] \in Process
      /\ RegsOK(proc[p]) /\ Distinct(proc[p]) /\ Settled(p)
      /\ proc[p].pc = "got" /\ proc[p].op = "ahead" /\ None \notin io
  BY View, NoneIsNoBuffer DEF GotAhead, Running, TypeOK
<1>2. /\ b \in Bufs /\ Holds(p, b) /\ buf[b] \in Buffer /\ b \notin io
      /\ proc[p].ep = None /\ proc[p].first # b
      /\ buf[b].queue = "out" /\ "BUSY" \in buf[b].flags
  BY <1>1, BpHeld
<1>3. r \in Process /\ RegsOK(r) /\ Distinct(r)
  BY <1>1, <1>2 DEF AheadOver, Process, Label, RegsOK, Distinct
<1>4. /\ \A c \in Bufs \ {b} : c \in {r.bp, r.ep, r.first} <=> Holds(p, c)
      /\ b \notin {r.bp, r.ep, r.first}
  BY <1>1, <1>2, NoneIsNoBuffer DEF AheadOver, Holds, Process
<1>5. r.bp = None /\ r.pc = "finish" /\ r.op = "ahead"
  BY <1>1 DEF AheadOver, Process
<1> DEFINE s == Reading(buf[b], {"ASYNC"})
<1>6. /\ s \in Buffer /\ s.queue = "out" /\ "BUSY" \in s.flags
      /\ "ASYNC" \in s.flags /\ "DONE" \notin s.flags
  BY <1>2, ReadingType DEF GotAhead, Is
<1>7. /\ buf' = [buf EXCEPT ![b] = s] /\ io' = io \cup {b}
      /\ proc' = [proc EXCEPT ![p] = r]
      /\ UNCHANGED <<dcur, fwant, live, slp, cpu>>
  BY DEF GotAhead, Goto
<1>8. /\ dcur' \subseteq Addr /\ fwant' \in BOOLEAN /\ live' \subseteq Extent
      /\ slp' \in [Procs -> Bufs \cup {None, FreeList}]
      /\ cpu' \in Procs \cup {None}
  BY <1>1, <1>7 DEF TypeOK
<1>9. Agree(s, b, io')
  BY <1>6, <1>7 DEF Agree
<1>10. r.bp \notin io'
  BY <1>1, <1>2, <1>5, <1>7, NoneIsNoBuffer
<1>11. \A q \in Procs \ {p} : ~Holds(q, b)
  BY <1>2, HeldUnique
<1> HIDE DEF r, s
<1> QED
  BY <1>2, <1>3, <1>4, <1>5, <1>6, <1>7, <1>8, <1>9, <1>10, <1>11, OneRecord

LEMMA GotCopyInv ==
    ASSUME IInv, NEW p \in Procs, GotCopy(p)
    PROVE  IInv'
<1> DEFINE b == proc[p].first
           r == [proc[p] EXCEPT !.pc = "hold", !.first = None]
<1>1. /\ TypeOK /\ proc[p] \in Process
      /\ RegsOK(proc[p]) /\ Distinct(proc[p]) /\ Settled(p)
      /\ proc[p].pc = "got" /\ proc[p].op = "copy" /\ None \notin io
  BY View, NoneIsNoBuffer DEF GotCopy, Running, TypeOK
<1>2. /\ b \in Bufs /\ Holds(p, b) /\ b \notin io
      /\ proc[p].ep = None /\ proc[p].bp # b /\ proc[p].bp \notin io
  BY <1>1 DEF RegsOK, Distinct, Settled, Process, Holds
<1>3. r \in Process /\ RegsOK(r) /\ Distinct(r)
  BY <1>1, <1>2 DEF Process, Label, RegsOK, Distinct
<1>4. /\ \A c \in Bufs \ {b} : c \in {r.bp, r.ep, r.first} <=> Holds(p, c)
      /\ b \notin {r.bp, r.ep, r.first}
      /\ r.bp \notin io /\ r.first \notin io /\ r.pc = "hold"
  BY <1>1, <1>2, NoneIsNoBuffer DEF Holds, Process
<1>5. /\ buf' = [buf EXCEPT ![b] = Released(buf[b])] /\ ReleaseWakeups(b)
      /\ proc' = [proc EXCEPT ![p] = r] /\ cpu' = cpu
      /\ UNCHANGED <<io, dcur>>
      /\ live' = (live \ {proc[p].ra}) \cup {proc[p].want}
  BY DEF GotCopy, Goto
<1>6. live' \subseteq Extent /\ cpu' \in Procs \cup {None}
  BY <1>1, <1>5 DEF TypeOK, Process
<1> HIDE DEF r
<1> QED
  BY <1>2, <1>3, <1>4, <1>5, <1>6, ReleaseStep

LEMMA WriteDoneInv ==
    ASSUME IInv, NEW p \in Procs, WriteDone(p)
    PROVE  IInv'
<1> DEFINE b == proc[p].ep
           back == [proc[p] EXCEPT !.pc = proc[p].ret, !.ep = None,
                                   !.ret = "user"]
<1>1. /\ TypeOK /\ proc[p] \in Process
      /\ RegsOK(proc[p]) /\ Distinct(proc[p]) /\ Settled(p)
      /\ proc[p].pc = "bwrite" /\ None \notin io
  BY View, NoneIsNoBuffer DEF WriteDone, Running, TypeOK
<1>2. b \in Bufs /\ Holds(p, b) /\ b # proc[p].bp /\ b # proc[p].first
  BY <1>1 DEF RegsOK, Distinct, Process, Holds
<1>3. b \notin io
  BY <1>2 DEF IInv, BufInv, FlagsOK, WriteDone, Is
<1>4. /\ buf' = [buf EXCEPT ![b] = Released(buf[b])] /\ ReleaseWakeups(b)
      /\ UNCHANGED <<io, dcur>> /\ live' = live
  BY DEF WriteDone
<1>5. live' \subseteq Extent
  BY <1>1, <1>4 DEF TypeOK
<1>6. CASE proc[p].ret = "user"
  <2>1. proc' = [proc EXCEPT ![p] = Idle] /\ cpu' \in Procs \cup {None}
    BY <1>6 DEF WriteDone, Leave
  <2>2. /\ Idle.bp = None /\ Idle.ep = None /\ Idle.first = None
        /\ Idle.pc = "user" /\ Idle.op = "none"
    BY DEF Idle, Empty
  <2>3. /\ \A c \in Bufs \ {b} : c \in {Idle.bp, Idle.ep, Idle.first}
                                    <=> Holds(p, c)
        /\ b \notin {Idle.bp, Idle.ep, Idle.first}
    BY <1>1, <1>2, <1>6, <2>2, NoneIsNoBuffer DEF Holds, RegsOK
  <2>4. RegsOK(Idle) /\ Distinct(Idle)
    BY <2>2 DEF RegsOK, Distinct
  <2> QED
    BY <1>1, <1>2, <1>3, <1>4, <1>5, <2>1, <2>2, <2>3, <2>4, IdleType,
       ReleaseStep
<1>7. CASE proc[p].ret # "user"
  <2>1. proc' = [proc EXCEPT ![p] = back] /\ cpu' \in Procs \cup {None}
    BY <1>1, <1>7 DEF WriteDone, Goto, TypeOK
  <2>2. back \in Process /\ RegsOK(back) /\ Distinct(back)
    BY <1>1, <1>2, <1>7 DEF Process, Label, RegsOK, Distinct
  <2>3. /\ \A c \in Bufs \ {b} : c \in {back.bp, back.ep, back.first}
                                    <=> Holds(p, c)
        /\ b \notin {back.bp, back.ep, back.first}
    BY <1>1, <1>2, NoneIsNoBuffer DEF Holds, Process
  <2>4. /\ back.bp \notin io /\ back.pc # "getnewbuf"
        /\ back.op = "copy" => back.first \notin io
    BY <1>1 DEF Settled, RegsOK, Process
  <2> HIDE DEF back
  <2> QED
    BY <1>2, <1>3, <1>4, <1>5, <2>1, <2>2, <2>3, <2>4, ReleaseStep
<1> QED
  BY <1>6, <1>7

LEMMA BrelseInv ==
    ASSUME IInv, NEW p \in Procs, Brelse(p)
    PROVE  IInv'
<1> DEFINE b == proc[p].bp
<1>1. /\ TypeOK /\ proc[p] \in Process /\ RegsOK(proc[p])
      /\ proc[p].pc = "hold" /\ None \notin io
  BY View, NoneIsNoBuffer DEF Brelse, Running, TypeOK
<1>2. /\ b \in Bufs /\ Holds(p, b) /\ b \notin io
      /\ proc[p].ep = None /\ proc[p].first = None
  BY <1>1, BpHeld DEF RegsOK
<1>3. /\ buf' = [buf EXCEPT ![b] = Released(buf[b])] /\ ReleaseWakeups(b)
      /\ UNCHANGED <<io, dcur>> /\ live' = live
      /\ proc' = [proc EXCEPT ![p] = Idle] /\ cpu' \in Procs \cup {None}
  BY DEF Brelse, Leave
<1>4. live' \subseteq Extent
  BY <1>1, <1>3 DEF TypeOK
<1>5. /\ Idle.bp = None /\ Idle.ep = None /\ Idle.first = None
      /\ Idle.pc = "user" /\ Idle.op = "none"
  BY DEF Idle, Empty
<1>6. /\ \A c \in Bufs \ {b} : c \in {Idle.bp, Idle.ep, Idle.first}
                                  <=> Holds(p, c)
      /\ b \notin {Idle.bp, Idle.ep, Idle.first}
  BY <1>1, <1>2, <1>5, NoneIsNoBuffer DEF Holds
<1>7. RegsOK(Idle) /\ Distinct(Idle)
  BY <1>5 DEF RegsOK, Distinct
<1> QED
  BY <1>1, <1>2, <1>3, <1>4, <1>5, <1>6, <1>7, IdleType, ReleaseStep

LEMMA ModifiedType ==
    ASSUME TypeOK, NEW b \in Bufs
    PROVE  /\ Modified(b) \in [Bufs -> Buffer]
           /\ \A c \in Bufs : /\ Modified(b)[c].queue = buf[c].queue
                              /\ Modified(b)[c].mem = buf[c].mem
                              /\ Modified(b)[c].flags = buf[c].flags
<1>1. BufFrags(buf[b]) \subseteq Addr
  BY FragsType DEF BufFrags
<1> QED
  BY <1>1 DEF TypeOK, Modified, Buffer

LEMMA UpdateInv ==
    ASSUME IInv, NEW p \in Procs, Bdwrite(p) \/ Bwrite(p) \/ Bawrite(p)
    PROVE  IInv'
<1> DEFINE b == proc[p].bp
           m == Modified(b)
           sync == [proc[p] EXCEPT !.pc = "bwrite", !.bp = None, !.ep = b,
                                   !.ret = "user"]
<1>1. /\ TypeOK /\ proc[p] \in Process /\ RegsOK(proc[p])
      /\ proc[p].pc = "hold" /\ None \notin io
  BY View, NoneIsNoBuffer DEF Bdwrite, Bwrite, Bawrite, Changing, Running, TypeOK
<1>2. /\ b \in Bufs /\ Holds(p, b) /\ b \notin io
      /\ proc[p].ep = None /\ proc[p].first = None
      /\ buf[b].queue = "out" /\ "BUSY" \in buf[b].flags
      /\ "ASYNC" \notin buf[b].flags
      /\ \A q \in Procs \ {p} : ~Holds(q, b)
  BY <1>1, BpHeld, HeldUnique DEF RegsOK
<1>3. /\ m \in [Bufs -> Buffer]
      /\ \A c \in Bufs : /\ m[c].queue = buf[c].queue
                         /\ m[c].mem = buf[c].mem
                         /\ m[c].flags = buf[c].flags
  BY <1>1, <1>2, ModifiedType
<1>4. /\ dcur' \subseteq Addr /\ live' \subseteq Extent
      /\ cpu' \in Procs \cup {None}
  BY <1>1 DEF Bdwrite, Bwrite, Bawrite, Changing, Leave, Goto, TypeOK
<1>5. PICK s \in Buffer, r \in {Idle, sync} :
        /\ buf' = [m EXCEPT ![b] = s] /\ io' \in {io, io \cup {b}}
        /\ proc' = [proc EXCEPT ![p] = r]
        /\ slp' \in [Procs -> Bufs \cup {None, FreeList}] /\ fwant' \in BOOLEAN
        /\ b \in {r.bp, r.ep, r.first}
              <=> s.queue = "out" /\ "ASYNC" \notin s.flags
        /\ Agree(s, b, io')
  <2>1. m[b] \in Buffer
    BY <1>2, <1>3
  <2>2. Idle.bp = None /\ Idle.ep = None /\ Idle.first = None
    BY DEF Idle, Empty
  <2>3. CASE Bdwrite(p)
    <3> DEFINE s == Released(Delayed(m[b]))
    <3>1. Delayed(m[b]) \in Buffer
      BY <2>1 DEF Delayed, Buffer, Flag
    <3>2. /\ s \in Buffer /\ s.queue # "out" /\ "BUSY" \notin s.flags
          /\ "ASYNC" \notin s.flags
      BY <3>1, ReleasedType
    <3>3. /\ buf' = [m EXCEPT ![b] = s] /\ io' = io
          /\ proc' = [proc EXCEPT ![p] = Idle] /\ ReleaseWakeups(b)
      BY <2>3 DEF Bdwrite, Leave
    <3>4. Agree(s, b, io')
      BY <1>2, <3>2, <3>3 DEF Agree
    <3>5. b \notin {Idle.bp, Idle.ep, Idle.first}
      BY <1>2, <2>2, NoneIsNoBuffer
    <3> HIDE DEF s, m
    <3> QED BY <1>1, <3>2, <3>3, <3>4, <3>5, ReleaseWakeupsType
  <2>4. CASE Bwrite(p)
    <3> DEFINE s == Written(m[b])
    <3>1. /\ s \in Buffer /\ s.queue = "out" /\ "BUSY" \in s.flags
          /\ "ASYNC" \notin s.flags /\ "DONE" \notin s.flags
      BY <1>2, <1>3, <2>1, WrittenType
    <3>2. /\ buf' = [m EXCEPT ![b] = s] /\ io' = io \cup {b}
          /\ proc' = [proc EXCEPT ![p] = sync]
          /\ UNCHANGED <<fwant, slp>>
      BY <2>4 DEF Bwrite, Goto
    <3>3. Agree(s, b, io')
      BY <3>1, <3>2 DEF Agree
    <3>4. b \in {sync.bp, sync.ep, sync.first}
      BY <1>1 DEF Process
    <3>5. slp' \in [Procs -> Bufs \cup {None, FreeList}] /\ fwant' \in BOOLEAN
      BY <1>1, <3>2 DEF TypeOK
    <3> HIDE DEF s, m, sync
    <3> QED BY <3>1, <3>2, <3>3, <3>4, <3>5
  <2>5. CASE Bawrite(p)
    <3> DEFINE s == AsyncWritten(m[b])
    <3>1. /\ s \in Buffer /\ s.queue = "out" /\ "BUSY" \in s.flags
          /\ "ASYNC" \in s.flags /\ "DONE" \notin s.flags
      BY <1>2, <1>3, <2>1, AsyncWrittenType
    <3>2. /\ buf' = [m EXCEPT ![b] = s] /\ io' = io \cup {b}
          /\ proc' = [proc EXCEPT ![p] = Idle]
          /\ UNCHANGED <<fwant, slp>>
      BY <2>5 DEF Bawrite, Leave
    <3>3. Agree(s, b, io')
      BY <3>1, <3>2 DEF Agree
    <3>4. b \notin {Idle.bp, Idle.ep, Idle.first}
      BY <1>2, <2>2, NoneIsNoBuffer
    <3>5. slp' \in [Procs -> Bufs \cup {None, FreeList}] /\ fwant' \in BOOLEAN
      BY <1>1, <3>2 DEF TypeOK
    <3> HIDE DEF s, m
    <3> QED BY <3>1, <3>2, <3>3, <3>4, <3>5
  <2> QED BY <2>3, <2>4, <2>5
<1>6. /\ buf' \in [Bufs -> Buffer] /\ buf'[b] = s /\ io' \subseteq Bufs
      /\ \A c \in Bufs \ {b} : /\ buf'[c].queue = buf[c].queue
                               /\ buf'[c].mem = buf[c].mem
                               /\ buf'[c].flags = buf[c].flags
                               /\ c \in io' <=> c \in io
  <2>1. io \subseteq Bufs
    BY <1>1 DEF TypeOK
  <2> HIDE DEF m
  <2> QED BY <1>2, <1>3, <1>5, <2>1
<1>7. /\ r \in Process /\ RegsOK(r) /\ Distinct(r)
      /\ \A c \in Bufs \ {b} : c \in {r.bp, r.ep, r.first} <=> Holds(p, c)
      /\ r.bp = None /\ r.first = None /\ r.pc # "getnewbuf"
  <2>1. CASE r = Idle
    <3>1. /\ r.bp = None /\ r.ep = None /\ r.first = None
          /\ r.pc = "user" /\ r.op = "none"
      BY <2>1 DEF Idle, Empty
    <3> QED
      BY <1>2, <2>1, <3>1, IdleType, NoneIsNoBuffer DEF Holds, RegsOK, Distinct
  <2>2. CASE r = sync
    BY ZenonT(60), <1>1, <1>2, <2>2, NoneIsNoBuffer
    DEF Holds, RegsOK, Distinct, Process, Label
  <2> QED BY <1>5, <2>1, <2>2
<1>8. None \notin io'
  BY <1>1, <1>2, <1>5, NoneIsNoBuffer
<1>9. /\ b \in {r.bp, r.ep, r.first}
            <=> buf'[b].queue = "out" /\ "ASYNC" \notin buf'[b].flags
      /\ Agree(buf'[b], b, io')
  BY <1>5, <1>6
<1>10. /\ proc' = [proc EXCEPT ![p] = r] /\ fwant' \in BOOLEAN
       /\ slp' \in [Procs -> Bufs \cup {None, FreeList}]
       /\ b \in Bufs /\ \A q \in Procs \ {p} : ~Holds(q, b)
  BY <1>2, <1>5
<1>11. /\ r.pc # "biowait" => r.bp \notin io'
       /\ r.op = "copy" => r.first \notin io'
       /\ r.pc = "getnewbuf" /\ r.bp # None => buf'[r.bp].mem < r.want.size
  BY <1>7, <1>8
<1> HIDE DEF b, m, sync
<1> QED
  BY <1>4, <1>6, <1>7, <1>9, <1>10, <1>11, OneBuffer

------------------------------------------------------------------------------
(* The interrupt. *)

LEMMA BiodoneInv ==
    ASSUME IInv, NEW b \in Bufs, NEW err \in BOOLEAN, Biodone(b, err)
    PROVE  IInv'
<1>1. /\ TypeOK /\ buf[b] \in Buffer /\ b \in io
      /\ FlagsOK(b) /\ NoLeak(b)
      /\ \A p \in Procs : HeldOK(p, b)
  BY DEF IInv, TypeOK, BufInv, HoldInv, Biodone
<1> DEFINE c == Completed(buf[b], err)
<1>2. /\ c \in Buffer /\ c.queue = buf[b].queue /\ c.mem = buf[b].mem
      /\ c.flags \in {buf[b].flags \cup {"DONE"},
                      buf[b].flags \cup {"DONE", "ERROR"}}
  BY <1>1, CompletedType
<1>3. /\ io' = io \ {b} /\ UNCHANGED <<live, proc, cpu>>
      /\ live' \subseteq Extent /\ cpu' \in Procs \cup {None}
  BY <1>1 DEF Biodone, TypeOK
<1>4. dcur' \subseteq Addr
  <2>1. dcur' = DiskAfter(buf[b], err)
    BY DEF Biodone
  <2>2. BufFrags(buf[b]) \subseteq Addr
    BY FragsType DEF BufFrags
  <2> QED BY <1>1, <2>1, <2>2 DEF DiskAfter, TypeOK
<1>5. CASE ~Is(b, "ASYNC")
  <2>1. PICK p \in Procs : Holds(p, b)
    BY <1>1, <1>5 DEF FlagsOK, NoLeak
  <2> DEFINE s == Answered(c)
             r == proc[p]
  <2>2. /\ r \in Process /\ RegsOK(r) /\ Distinct(r) /\ Settled(p) /\ Short(p)
    BY View
  <2>3. /\ buf' = [buf EXCEPT ![b] = s] /\ Wakeup({b}) /\ UNCHANGED fwant
    BY <1>5 DEF Biodone
  <2>4. /\ slp' \in [Procs -> Bufs \cup {None, FreeList}] /\ fwant' \in BOOLEAN
    BY <1>1, <2>3, WakeupType DEF TypeOK
  <2>5. /\ (\A q \in Procs \ {p} : ~Holds(q, b)) /\ buf[b].queue = "out"
        /\ "BUSY" \in buf[b].flags /\ "ASYNC" \notin buf[b].flags
    BY <2>1, HeldUnique
  <2>6. /\ s \in Buffer /\ s.queue = "out" /\ "ASYNC" \notin s.flags
        /\ s.mem = buf[b].mem /\ "BUSY" \in s.flags
    <3> HIDE DEF c
    <3> QED BY <1>2, <2>5 DEF Answered, Buffer
  <2>7. Agree(s, b, io')
    BY <1>3, <2>6 DEF Agree
  <2>8. proc' = [proc EXCEPT ![p] = r]
    BY <1>1, <1>3 DEF TypeOK
  <2>9. /\ \A d \in Bufs \ {b} : d \in {r.bp, r.ep, r.first} <=> Holds(p, d)
        /\ b \in {r.bp, r.ep, r.first}
    BY <2>1 DEF Holds
  <2>10. /\ r.pc # "biowait" => r.bp \notin io'
         /\ r.op = "copy" => r.first \notin io'
    BY <1>3, <2>2 DEF Settled
  <2>11. r.pc = "getnewbuf" /\ r.bp # None => buf'[r.bp].mem < r.want.size
    <3> HIDE DEF s
    <3> QED BY <1>1, <2>2, <2>3, <2>6 DEF Short, Process, TypeOK
  <2> HIDE DEF s, r
  <2> QED
    BY <1>3, <1>4, <2>2, <2>3, <2>4, <2>5, <2>6, <2>7, <2>8, <2>9, <2>10,
       <2>11, OneRecord
<1>6. CASE Is(b, "ASYNC")
  <2> DEFINE s == Released(c)
             T == {b}
  <2>1. /\ s \in Buffer /\ s.queue # "out"
        /\ "BUSY" \notin s.flags /\ "ASYNC" \notin s.flags
    BY <1>2, ReleasedType
  <2>2. buf' = [buf EXCEPT ![b] = s] /\ ReleaseWakeups(b)
    BY <1>6 DEF Biodone
  <2>3. \A p \in Procs : ~Holds(p, b)
    BY <1>1, <1>6 DEF HeldOK
  <2>4. TypeOK'
    <3>1. slp' \in [Procs -> Bufs \cup {None, FreeList}] /\ fwant' \in BOOLEAN
      BY <1>1, <2>2, ReleaseWakeupsType
    <3> HIDE DEF s
    <3> QED BY <1>1, <1>3, <1>4, <2>1, <2>2, <3>1 DEF TypeOK
  <2> HIDE DEF s
  <2>5. \A d \in Bufs \ T : SameView(d)
    BY <1>1, <1>3, <2>2 DEF SameView, TypeOK
  <2>6. \A d \in T : FlagsOK(d)' /\ Free(d)' /\ ~Is(d, "ASYNC")'
    BY <1>1, <1>3, <2>1, <2>2 DEF FlagsOK, Free, Is, TypeOK
  <2>7. None \notin Procs /\ T \in SUBSET Bufs
    BY NoneIsNoBuffer
  <2>8. \A d \in T : \A q \in Procs : ~Holds(q, d)
    BY <2>3
  <2> HIDE DEF T
  <2>9. \A q \in Procs \ {None} : proc'[q] = proc[q]
    BY <1>3
  <2>10. \A d \in T : /\ FlagsOK(d)'
                      /\ \A q \in Procs \ {None} : ~Holds(q, d)
                      /\ None \in Procs /\ Holds(None, d)'
                            <=> ~Free(d)' /\ ~Is(d, "ASYNC")'
    BY <2>6, <2>7, <2>8
  <2>11. \A d \in Bufs \ T : SameView(d) /\
           (None \in Procs => (Holds(None, d)' <=> Holds(None, d)))
    BY <2>5, <2>7
  <2> QED
    BY <2>4, <2>7, <2>9, <2>10, <2>11, Handover
<1> QED
  BY <1>5, <1>6

------------------------------------------------------------------------------
(* allocbuf: pages move between the buffer held and a free one. *)

LEMMA TwoBuffers ==
    ASSUME IInv, NEW p \in Procs, NEW r \in Process,
           NEW b \in Bufs, NEW e \in Bufs, NEW s \in Buffer, NEW t \in Buffer,
           Holds(p, b), b \notin io, Free(e),
           buf' = [buf EXCEPT ![b] = s, ![e] = t], Goto(p, r),
           ReleaseWakeups(e), UNCHANGED <<io, dcur, live>>,
           s.queue = "out", "BUSY" \in s.flags, "ASYNC" \notin s.flags,
           t.queue # "out", "BUSY" \notin t.flags, "ASYNC" \notin t.flags,
           \A c \in Bufs : c \in {r.bp, r.ep, r.first} <=> Holds(p, c),
           RegsOK(r), Distinct(r), r.bp = b,
           r.op = "copy" => r.first \notin io,
           r.pc # "getnewbuf"
    PROVE  IInv'
<1>1. TypeOK
  BY View
<1>2. (\A q \in Procs \ {p} : ~Holds(q, b)) /\ buf[b] \in Buffer
  BY HeldUnique
<1>3. (\A q \in Procs : ~Holds(q, e)) /\ e \notin io /\ e # b
  BY FreeUnheld
<1>4. /\ buf' \in [Bufs -> Buffer] /\ buf'[b] = s /\ buf'[e] = t
      /\ \A c \in Bufs \ {b, e} : buf'[c] = buf[c]
  BY <1>1, <1>3 DEF TypeOK
<1>5. /\ \A q \in Procs \ {p} : proc'[q] = proc[q]
      /\ proc'[p] = r /\ proc' = [proc EXCEPT ![p] = r] /\ cpu' = cpu
  BY <1>1 DEF Goto, TypeOK
<1>6. TypeOK'
  <2>1. slp' \in [Procs -> Bufs \cup {None, FreeList}] /\ fwant' \in BOOLEAN
    BY <1>1, ReleaseWakeupsType
  <2> QED BY <1>1, <1>4, <1>5, <2>1 DEF TypeOK
<1>7. \A c \in Bufs : Holds(p, c)' <=> Holds(p, c)
  BY <1>5 DEF Holds
<1>8. \A c \in Bufs \ {b, e} : SameView(c)
  BY <1>4 DEF SameView
<1>9. RegsOK(proc'[p]) /\ Distinct(proc'[p]) /\ Settled(p)' /\ Short(p)'
  BY <1>5 DEF Settled, Short
<1>10. /\ FlagsOK(b)' /\ ~Free(b)' /\ ~Is(b, "ASYNC")'
       /\ FlagsOK(e)' /\ Free(e)'
  BY <1>3, <1>4 DEF FlagsOK, Free, Is
<1> DEFINE T == {b, e}
<1>11. \A c \in T : /\ FlagsOK(c)'
                    /\ \A q \in Procs \ {p} : ~Holds(q, c)
                    /\ p \in Procs /\ Holds(p, c)'
                          <=> ~Free(c)' /\ ~Is(c, "ASYNC")'
  <2>1. \A q \in Procs \ {p} : ~Holds(q, b) /\ ~Holds(q, e)
    BY <1>2, <1>3
  <2>2. Holds(p, b)' /\ ~Holds(p, e)'
    BY <1>3, <1>7
  <2> QED
    BY <1>10, <2>1, <2>2 DEF FlagsOK, Free, Is, Holds
<1>12. \A c \in Bufs \ T : SameView(c)
         /\ (p \in Procs => (Holds(p, c)' <=> Holds(p, c)))
  BY <1>7, <1>8
<1>13. T \in SUBSET Bufs
  OBVIOUS
<1> HIDE DEF T
<1> QED
  BY <1>5, <1>6, <1>9, <1>11, <1>12, <1>13, Handover

LEMMA AllocbufGiveInv ==
    ASSUME IInv, NEW p \in Procs, AllocbufGive(p)
    PROVE  IInv'
<1> DEFINE b == proc[p].bp
           size == proc[p].want.size
           mem == buf[b].mem - size
           s == [Resized(buf[b], size) EXCEPT !.mem = size]
           r == [proc[p] EXCEPT !.pc = "got"]
<1>1. /\ TypeOK /\ proc[p] \in Process /\ RegsOK(proc[p])
      /\ Distinct(proc[p]) /\ Settled(p)
      /\ proc[p].pc = "allocbuf" /\ buf[b].mem > size
  BY View DEF AllocbufGive, Running
<1>2. /\ b \in Bufs /\ Holds(p, b) /\ b \notin io /\ buf[b] \in Buffer
      /\ buf[b].queue = "out" /\ "BUSY" \in buf[b].flags
      /\ "ASYNC" \notin buf[b].flags
  BY <1>1, BpHeld
<1>3. PICK e \in Bufs :
        /\ buf[e].queue = "empty"
        /\ buf' = [buf EXCEPT ![b] = s, ![e] = Released(Filled(buf[e], mem))]
        /\ ReleaseWakeups(e)
  BY Zenon DEF AllocbufGive
<1>4. size \in 0 .. BlockFrags /\ mem \in 0 .. BlockFrags /\ buf[e] \in Buffer
  BY <1>1, <1>2, BufferCacheAssumption DEF Process, Extent, Buffer, TypeOK
<1>5. /\ s \in Buffer /\ s.queue = "out" /\ "BUSY" \in s.flags
      /\ "ASYNC" \notin s.flags
  <2>1. Resized(buf[b], size) \in Buffer
    BY <1>2, <1>4, ResizedType
  <2> QED BY <1>2, <1>4, <2>1, ResizedType DEF Buffer
<1> DEFINE t == Released(Filled(buf[e], mem))
<1>6. /\ t \in Buffer /\ t.queue # "out" /\ "BUSY" \notin t.flags
      /\ "ASYNC" \notin t.flags
  BY <1>4, FilledType, ReleasedType
<1>7. Free(e) /\ Goto(p, r) /\ UNCHANGED <<io, dcur, live>>
  BY <1>3 DEF Free, AllocbufGive
<1>8. r \in Process /\ RegsOK(r) /\ Distinct(r)
  BY <1>1 DEF Process, Label, RegsOK, Distinct
<1>9. \A c \in Bufs : c \in {r.bp, r.ep, r.first} <=> Holds(p, c)
  BY <1>1 DEF Holds, Process
<1>10. r.bp = b /\ r.pc = "got" /\ (r.op = "copy" => r.first \notin io)
  BY <1>1 DEF Settled, Process
<1> HIDE DEF s, t, r
<1>11. buf' = [buf EXCEPT ![b] = s, ![e] = t]
  BY <1>3 DEF t
<1> HIDE DEF b
<1> QED
  BY <1>2, <1>3, <1>5, <1>6, <1>7, <1>8, <1>9, <1>10, <1>11, TwoBuffers

LEMMA RobbedType ==
    ASSUME NEW r \in Buffer, NEW take \in 0 .. r.mem
    PROVE  /\ Robbed(r, take) \in Buffer
           /\ Robbed(r, take).mem = r.mem - take
<1> DEFINE left == [r EXCEPT !.flags = {"BUSY"}, !.mem = @ - take]
           cnt == IF r.cnt > left.mem THEN left.mem ELSE r.cnt
           cut == Resized(left, cnt)
<1>1. r.mem \in 0 .. BlockFrags /\ r.cnt \in 0 .. BlockFrags
  BY DEF Buffer
<1>2. left \in Buffer /\ left.mem = r.mem - take
  <2>1. r.mem - take \in 0 .. BlockFrags /\ {"BUSY"} \in SUBSET Flag
    BY <1>1, BufferCacheAssumption DEF Flag
  <2> QED BY <2>1 DEF Buffer
<1>3. cnt \in 0 .. BlockFrags
  BY <1>1, <1>2, BufferCacheAssumption
<1>4. cut \in Buffer /\ cut.mem = left.mem
  BY <1>2, <1>3, ResizedType
<1>5. Robbed(r, take) = IF left.mem > 0 THEN cut
        ELSE [cut EXCEPT !.blk = NODEV, !.flags = {"BUSY", "INVAL"}]
  BY DEF Robbed
<1> HIDE DEF left, cut
<1>6. /\ [cut EXCEPT !.blk = NODEV, !.flags = {"BUSY", "INVAL"}] \in Buffer
      /\ [cut EXCEPT !.blk = NODEV, !.flags = {"BUSY", "INVAL"}].mem = cut.mem
  BY <1>4 DEF Buffer, Flag
<1> QED
  BY <1>2, <1>4, <1>5, <1>6

LEMMA AllocbufTakeInv ==
    ASSUME IInv, NEW p \in Procs, AllocbufTake(p)
    PROVE  IInv'
<1> DEFINE b == proc[p].bp
           need == proc[p].want.size - buf[b].mem
           take(e) == IF need < buf[e].mem THEN need ELSE buf[e].mem
           s(e) == [buf[b] EXCEPT !.mem = @ + take(e)]
           t(e) == Released(Robbed(buf[e], take(e)))
           r == [proc[p] EXCEPT !.pc = "allocbuf"]
<1>1. /\ TypeOK /\ proc[p] \in Process /\ RegsOK(proc[p])
      /\ Distinct(proc[p]) /\ Settled(p) /\ Short(p)
      /\ proc[p].pc = "getnewbuf" /\ b # None
  BY View DEF AllocbufTake, Running
<1>2. b \in Bufs /\ Holds(p, b)
  BY <1>1 DEF Process, Holds
<1>3. /\ b \notin io /\ buf[b] \in Buffer
      /\ buf[b].queue = "out" /\ "BUSY" \in buf[b].flags
      /\ "ASYNC" \notin buf[b].flags
  BY <1>1, <1>2, HeldUnique DEF Settled
<1>4. PICK e \in Bufs :
        /\ buf[e].queue = "free"
        /\ buf' = [buf EXCEPT ![b].mem = @ + take(e), ![e] = t(e)]
        /\ ReleaseWakeups(e)
  BY Zenon DEF AllocbufTake
<1>5. /\ buf[e] \in Buffer /\ buf[e].mem \in 0 .. BlockFrags
      /\ buf[b].mem \in 0 .. BlockFrags
      /\ proc[p].want.size \in 0 .. BlockFrags /\ need > 0
  BY <1>1, <1>2, <1>3 DEF Process, Extent, Buffer, TypeOK, Short
<1>6. /\ take(e) \in 0 .. buf[e].mem
      /\ buf[b].mem + take(e) \in 0 .. BlockFrags
  BY <1>5, BufferCacheAssumption
<1> HIDE DEF take
<1>7. /\ s(e) \in Buffer /\ s(e).queue = "out" /\ "BUSY" \in s(e).flags
      /\ "ASYNC" \notin s(e).flags
  BY <1>3, <1>6 DEF Buffer
<1>8. /\ t(e) \in Buffer /\ t(e).queue # "out" /\ "BUSY" \notin t(e).flags
      /\ "ASYNC" \notin t(e).flags
  BY <1>5, <1>6, RobbedType, ReleasedType
<1>9. Free(e) /\ Goto(p, r) /\ UNCHANGED <<io, dcur, live>>
  BY <1>4 DEF Free, AllocbufTake
<1>10. r \in Process /\ RegsOK(r) /\ Distinct(r)
  BY <1>1 DEF Process, Label, RegsOK, Distinct
<1>11. \A c \in Bufs : c \in {r.bp, r.ep, r.first} <=> Holds(p, c)
  BY <1>1 DEF Holds, Process
<1>12. r.bp = b /\ r.pc = "allocbuf" /\ (r.op = "copy" => r.first \notin io)
  BY <1>1 DEF Settled, Process
<1> HIDE DEF t, r, b
<1>13. buf' = [buf EXCEPT ![b] = s(e), ![e] = t(e)]
  BY <1>4
<1> HIDE DEF s
<1> QED
  BY <1>2, <1>3, <1>4, <1>7, <1>8, <1>9, <1>10, <1>11, <1>12, <1>13, TwoBuffers

------------------------------------------------------------------------------
(* The theorems. *)

LEMMA NextInv == IInv /\ [Next]_vars => IInv'
<1> SUFFICES ASSUME IInv, [Next]_vars PROVE IInv'
  OBVIOUS
<1>1. ASSUME NEW p \in Procs, Getblk(p) PROVE IInv'
  BY <1>1, WaitInv, HitInv, SearchInv, SleepInv, FlushAsyncInv, BreallocInv,
     FlushSyncInv, OverlapCleanInv, AllocbufFitsInv, AllocbufGiveInv,
     AllocbufTakeInv DEF Getblk
<1>2. ASSUME NEW p \in Procs, Got(p) PROVE IInv'
  BY <1>2, GotInv, GotReadInv, GotAheadInv, GotExtendedInv, GotCopyInv,
     BreadaInv, SleepInv, ReadDoneInv, WriteDoneInv DEF Got
<1>3. ASSUME NEW p \in Procs, Finish(p) PROVE IInv'
  BY <1>3, BrelseInv, UpdateInv, FlushAsyncInv, LeaveInv, WaitInv,
     FlushSyncInv DEF Finish
<1>4. ASSUME NEW p \in Procs, Call(p) \/ Dispatch(p) \/ Pause(p) PROVE IInv'
  BY <1>4, CallInv, SleepInv
<1>5. ASSUME \E e \in live : FreeExtent(e) PROVE IInv'
  BY <1>5, View, ScheduleInv DEF FreeExtent, TypeOK, IInv
<1>6. ASSUME NEW b \in Bufs, NEW err \in IOErrors, Biodone(b, err) PROVE IInv'
  BY <1>6, BiodoneInv, BufferCacheAssumption
<1>7. CASE UNCHANGED vars
  BY <1>7, ScheduleInv DEF vars, IInv, TypeOK
<1> QED
  BY <1>1, <1>2, <1>3, <1>4, <1>5, <1>6, <1>7 DEF Next, Step

LEMMA Inductive == Spec => []IInv
<1> QED
  BY InitInv, NextInv, PTL DEF Spec

\* Every variable keeps its type in every behaviour of the buffer cache, for
\* any set of processes and buffers, any block size and any device errors: no
\* step of ufs_bio.c, of allocbuf or of the interrupt makes a transfer length
\* or a buffer's memory leave the range of a block.
THEOREM TypeCorrect == Spec => []TypeOK
<1>1. IInv => TypeOK
  BY DEF IInv
<1> QED
  BY <1>1, Inductive, PTL

\* A buffer is free, or one process's in one role, or the interrupt's, in every
\* reachable state: nobody releases what another uses, and no path through
\* getblk, breada, realloccg, bwrite and biodone loses a buffer (ufs_bio.c).
THEOREM OwnershipHolds == Spec => []Ownership
<1>1. IInv => Ownership
  <2> SUFFICES ASSUME IInv PROVE Ownership
    OBVIOUS
  <2>1. ASSUME NEW b \in Bufs, Free(b)
        PROVE  /\ ~Is(b, "BUSY") /\ b \notin io
               /\ \A p \in Procs : ~Holds(p, b)
    BY <2>1, FreeUnheld DEF Is
  <2>2. ASSUME NEW b \in Bufs, ~Free(b)
        PROVE  /\ Is(b, "BUSY")
               /\ InFlight(b) <=> \A p \in Procs : ~Holds(p, b)
               /\ \A p, q \in Procs : Holds(p, b) /\ Holds(q, b) => p = q
    BY <2>2 DEF IInv, BufInv, FlagsOK, NoLeak, HoldInv, HeldOK, OneHolder,
                InFlight
  <2>3. ASSUME NEW p \in Procs, NEW f \in {"bp", "ep", "first"},
               NEW g \in {"bp", "ep", "first"}, f # g, proc[p][f] # None
        PROVE  proc[p][f] # proc[p][g]
    <3>1. Distinct(proc[p]) /\ proc[p] \in Process
      BY View
    <3> QED BY <2>3, <3>1 DEF Distinct, Process
  <2> QED BY <2>1, <2>2, <2>3 DEF Ownership
<1> QED
  BY <1>1, Inductive, PTL

------------------------------------------------------------------------------
(***************************************************************************)
(* Part 2. Reading ahead, memory and wakeups.                              *)
(*                                                                         *)
(* breada never meets a valid buffer for its first block, allocbuf neither *)
(* makes nor loses pages, and no transfer hits a panic, for any number of  *)
(* processes and buffers and any sizes.                                    *)
(*                                                                         *)
(* Safe adds to the ownership of buffers (IInv) what they are for: a       *)
(* process that has a buffer from getblk has named it for what it wants,   *)
(* and the buffer has no contents until it is read or written (Shapes);    *)
(* and how memory is shared out (MemInv): the pages of all buffers, a set  *)
(* of pairs whose cardinality needs no induction over the buffers, are as  *)
(* many as at the start, and a buffer is on the empty list just when it    *)
(* has none.                                                               *)
(***************************************************************************)

\* What the steps of others leave alone in a buffer that is not free.
Kept(b) ==
    /\ buf'[b].blk = buf[b].blk
    /\ buf'[b].cnt = buf[b].cnt
    /\ buf'[b].mem = buf[b].mem
    /\ buf'[b].queue = buf[b].queue
    /\ buf'[b].flags \ {"WANTED"} = buf[b].flags \ {"WANTED"}
    /\ "WANTED" \in buf[b].flags => "WANTED" \in buf'[b].flags
    /\ b \in io' <=> b \in io

Act(p) == Call(p) \/ Dispatch(p) \/ Step(p) \/ Pause(p)

\* A step of p that changes at most the record of b.
LEMMA OneKept ==
    ASSUME TypeOK, NEW b, buf' = [buf EXCEPT ![b] = buf'[b]],
           io' = io \/ io' = io \cup {b}
    PROVE  \A c \in Bufs \ {b} : Kept(c)
  BY DEF TypeOK, Kept

LEMMA StillKept ==
    ASSUME UNCHANGED <<buf, io>>
    PROVE  \A c \in Bufs : Kept(c)
  BY DEF Kept

LEMMA WaitKept ==
    ASSUME IInv, NEW p \in Procs, NEW b \in Bufs, WaitFor(p, b)
    PROVE  \A c \in Bufs : Kept(c)
<1>1. buf \in [Bufs -> Buffer]
  BY View DEF TypeOK
<1> QED BY <1>1 DEF WaitFor, Kept, Buffer

LEMMA FlushKept ==
    ASSUME IInv, NEW p \in Procs, NEW b \in Bufs,
           \/ FlushAsync(p, b)
           \/ FlushSync(p, b, "overlap") \/ FlushSync(p, b, "blkflush")
    PROVE  \A c \in Bufs \ {b} : Kept(c)
<1>1. buf \in [Bufs -> Buffer]
  BY View DEF TypeOK
<1> QED BY <1>1 DEF FlushSync, FlushAsync, Kept

LEMMA NotBusyFree ==
    ASSUME IInv, NEW b \in Bufs, ~Is(b, "BUSY")
    PROVE  Free(b)
  BY DEF IInv, BufInv, FlagsOK

\* getblk and the routines under it change the buffer they got, and free ones.
LEMMA GetblkKept ==
    ASSUME IInv, NEW p \in Procs, Getblk(p)
    PROVE  \A b \in Bufs : ~Free(b) /\ b # proc[p].bp => Kept(b)
<1>1. buf \in [Bufs -> Buffer]
  BY View DEF TypeOK
<1>2. CASE GetblkBusy(p)
  BY <1>1, <1>2, WaitKept DEF GetblkBusy, Cached
<1>3. CASE OverlapBusy(p)
  BY <1>1, <1>3, WaitKept DEF OverlapBusy, Rivals, Overlapping
<1>4. CASE GetblkMiss(p)
  BY <1>1, <1>4, StillKept DEF GetblkMiss
<1>5. CASE GetnewbufNone(p)
  BY <1>1, <1>5, StillKept DEF GetnewbufNone
<1>6. CASE BreallocSame(p)
  BY <1>1, <1>6, StillKept DEF BreallocSame
<1>7. CASE BreallocShrink(p)
  BY <1>1, <1>7, StillKept DEF BreallocShrink
<1>8. CASE OverlapNone(p)
  BY <1>1, <1>8, StillKept DEF OverlapNone
<1>9. CASE AllocbufMore(p)
  BY <1>1, <1>9, StillKept DEF AllocbufMore
<1>10. CASE GetblkHit(p)
  BY <1>1, <1>10, NotBusyFree DEF GetblkHit, Cached, Kept
<1>11. CASE GetnewbufClean(p)
  BY <1>1, <1>11 DEF GetnewbufClean, Free, Kept
<1>12. CASE GetnewbufDirty(p)
  BY <1>1, <1>12, FlushKept DEF GetnewbufDirty, Free
<1>13. CASE BreallocDirty(p)
  BY <1>1, <1>13 DEF BreallocDirty, Kept
<1>14. CASE BreallocGrow(p)
  BY <1>1, <1>14 DEF BreallocGrow, Kept
<1>15. CASE AllocbufFits(p)
  BY <1>1, <1>15 DEF AllocbufFits, Kept
<1>16. CASE OverlapDirty(p)
  BY <1>1, <1>16, FlushKept, NotBusyFree DEF OverlapDirty, Rivals, Overlapping
<1>17. CASE OverlapClean(p)
  BY <1>1, <1>17, NotBusyFree DEF OverlapClean, Rivals, Overlapping, Kept
<1>18. CASE AllocbufGive(p)
  BY <1>1, <1>18 DEF AllocbufGive, Free, Kept
<1>19. CASE AllocbufTake(p)
  BY <1>1, <1>19 DEF AllocbufTake, Free, Kept
<1> QED
  BY Getblk(p), <1>2, <1>3, <1>4, <1>5, <1>6, <1>7, <1>8, <1>9, <1>10, <1>11,
     <1>12, <1>13, <1>14, <1>15, <1>16, <1>17, <1>18, <1>19
  DEF Getblk

\* The steps of a process leave the buffers it does not hold alone, unless
\* they are free.
LEMMA OthersKept ==
    ASSUME IInv, NEW p \in Procs, Act(p)
    PROVE  \A b \in Bufs : ~Free(b) /\ ~Holds(p, b) => Kept(b)
<1>0. TypeOK /\ proc[p] \in Process /\ RegsOK(proc[p])
  BY View
<1>1. ASSUME UNCHANGED <<buf, io>> PROVE \A b \in Bufs : Kept(b)
  BY <1>1, StillKept
<1>2. ASSUME NEW b \in Bufs, WaitFor(p, b) PROVE \A c \in Bufs : Kept(c)
  BY <1>0, <1>2 DEF WaitFor, Kept, TypeOK, Buffer
<1>3. ASSUME NEW b \in Bufs, FlushSync(p, b, "overlap") \/ FlushSync(p, b, "blkflush") \/ FlushAsync(p, b)
      PROVE \A c \in Bufs \ {b} : Kept(c)
  BY <1>0, <1>3 DEF FlushSync, FlushAsync, TypeOK, Kept
<1>4. ASSUME NEW b \in Bufs, ~Is(b, "BUSY") PROVE Free(b)
  BY <1>4 DEF IInv, BufInv, FlagsOK
<1>5. CASE Call(p)
  BY <1>1, <1>5 DEF Call, Bread, CookedRead, Breada, Overwrite, Alloc, Extend, Move, Geteblk, Bflush, Blkflush, Enter
<1>6. CASE Dispatch(p) \/ Pause(p)
  BY <1>1, <1>6 DEF Dispatch, Pause
<1>7. CASE Getblk(p)
  BY <1>7, GetblkKept DEF Holds
<1>8. CASE Got(p)
  <2>1. CASE GotCached(p) \/ GotBlank(p) \/ BreadaFirst(p) \/ BreadaAhead(p) \/ BreadaFinish(p) \/ Biowait(p) \/ ReadDone(p)
    BY <1>1, <2>1 DEF GotCached, GotBlank, BreadaFirst, BreadaAhead, BreadaFinish, Biowait, ReadDone
  <2>2. CASE GotUncached(p) \/ GotAhead(p) \/ GotExtended(p)
    BY <1>0, <2>2 DEF GotUncached, GotAhead, GotExtended, Kept, TypeOK, Holds
  <2>3. CASE GotCopy(p) \/ WriteDone(p)
    BY <1>0, <2>3 DEF GotCopy, WriteDone, Kept, TypeOK, Holds
  <2> QED BY <1>8, <2>1, <2>2, <2>3 DEF Got
<1>9. CASE Finish(p)
  <2>1. CASE Brelse(p)
    BY <1>0, <2>1 DEF Brelse, Kept, TypeOK, Holds
  <2>2. CASE Bdwrite(p) \/ Bwrite(p) \/ Bawrite(p)
    <3>1. \A c \in Bufs \ {proc[p].bp} :
            buf'[c] = [buf[c] EXCEPT !.cur = @ \ BufFrags(buf[proc[p].bp])]
      BY <1>0, <2>2 DEF Bdwrite, Bwrite, Bawrite, Modified
    <3>2. io' = io \/ io' = io \cup {proc[p].bp}
      BY <2>2 DEF Bdwrite, Bwrite, Bawrite
    <3>3. buf \in [Bufs -> Buffer]
      BY <1>0 DEF TypeOK
    <3>4. ASSUME NEW c \in Bufs \ {proc[p].bp} PROVE Kept(c)
      <4>1. buf'[c] = [buf[c] EXCEPT !.cur = @ \ BufFrags(buf[proc[p].bp])]
            /\ buf[c] \in Buffer /\ (c \in io' <=> c \in io)
        BY <3>1, <3>2, <3>3
      <4> HIDE DEF BufFrags
      <4> QED BY <4>1 DEF Kept, Buffer
    <3> QED
      BY <3>4 DEF Holds
  <2>3. CASE BflushWrite(p)
    BY <1>3, <2>3 DEF BflushWrite, Dirty
  <2>4. CASE BflushReturn(p) \/ BlkflushReturn(p)
    BY <1>1, <2>4 DEF BflushReturn, BlkflushReturn
  <2>5. CASE BlkflushBusy(p)
    BY <1>2, <2>5 DEF BlkflushBusy, Overlapping
  <2>6. CASE BlkflushDirty(p)
    BY <1>3, <1>4, <2>6 DEF BlkflushDirty, Overlapping
  <2> QED BY <1>9, <2>1, <2>2, <2>3, <2>4, <2>5, <2>6 DEF Finish
<1> QED BY <1>5, <1>6, <1>7, <1>8, <1>9 DEF Act, Step

------------------------------------------------------------------------------
(* The registers of a process fit what it was called for. *)

\* The calls that never give a buffer its old contents.
Fresh == {"reada", "ahead", "anon"}
Paired == {"reada", "ahead", "extend", "extended", "move", "copy"}

PathOK(r) ==
    /\ (r.pc = "user") <=> (r.op = "none")
    /\ (r.op = "flush") <=>
          (\/ r.pc \in {"bflush", "blkflush"}
           \/ r.pc = "bwrite" /\ r.ret = "blkflush")
    /\ r.op \notin {"none", "anon", "flush"} => r.want \in FileExtent
    /\ IF r.op \in Paired THEN r.ra \in FileExtent ELSE r.ra = NoExtent
    /\ r.op \in {"move", "copy"} => Disjoint(r.want, r.ra)
    /\ r.op = "extend" => r.want.start = r.ra.start /\ r.want.size < r.ra.size
    /\ r.op = "extended" => r.want.start = r.ra.start /\ r.ra.size < r.want.size
    /\ r.op = "anon" => r.want.start = NODEV /\ r.want.size > 0
    /\ r.op = "none" => r.want = NoExtent
    /\ r.op \in {"reada", "ahead"} => r.pc \notin {"biowait", "hold"}
    /\ r.op = "flush" => r.want = NoExtent \/ r.want \in FileExtent

Paths == \A p \in Procs : PathOK(proc[p])

LEMMA EnterSets ==
    ASSUME TypeOK, NEW p \in Procs, NEW pc, NEW op, NEW want, NEW ra,
           Enter(p, pc, op, want, ra)
    PROVE  proc'[p] = Empty(pc, op, want, ra)
  BY DEF Enter, TypeOK

LEMMA CallPath ==
    ASSUME IInv, NEW p \in Procs, Call(p)
    PROVE  PathOK(proc'[p])
<1>1. TypeOK
  BY View
<1>2. ASSUME NEW e \in FileExtent
      PROVE  /\ PathOK(Empty("getblk", "read", e, NoExtent))
             /\ PathOK(Empty("getblk", "overwrite", e, NoExtent))
             /\ PathOK(Empty("blkflush", "flush", e, NoExtent))
  BY <1>2 DEF PathOK, Empty, Paired
<1>3. ASSUME NEW e \in FileExtent, NEW new \in FileExtent
      PROVE  PathOK(Empty("breada", "reada", e, new))
  BY <1>3 DEF PathOK, Empty, Paired, FileExtent
<1>4. ASSUME NEW e \in FileExtent, NEW new \in FileExtent,
             new.start = e.start, new.size > e.size
      PROVE  PathOK(Empty("getblk", "extend", e, new))
  BY <1>4 DEF PathOK, Empty, Paired, FileExtent
<1>5. ASSUME NEW e \in FileExtent, NEW new \in FileExtent,
             Disjoint(e, new)
      PROVE  PathOK(Empty("getblk", "move", e, new))
  BY <1>5 DEF PathOK, Empty, Paired, FileExtent
<1>6. ASSUME NEW n \in 1 .. BlockFrags
      PROVE  PathOK(Empty("getnewbuf", "anon", [start |-> NODEV, size |-> n],
                          NoExtent))
  BY <1>6 DEF PathOK, Empty, Paired
<1>7. PathOK(Empty("bflush", "flush", NoExtent, NoExtent))
  BY DEF PathOK, Empty, Paired
<1>8. ASSUME NEW e \in FileExtent, NEW new \in FileExtent,
             Breada(p, e, new) \/ Extend(p, e, new) \/ Move(p, e, new)
      PROVE  PathOK(proc'[p])
  <2>1. CASE Breada(p, e, new)
    BY <1>1, <1>3, <2>1, EnterSets DEF Breada
  <2>2. CASE Extend(p, e, new)
    BY <1>1, <1>4, <2>2, EnterSets DEF Extend
  <2>3. CASE Move(p, e, new)
    <3>1. e \in live /\ e # NoExtent
      BY <2>3 DEF Move, Usable, NoExtent, FileExtent, Addr, NODEV
    <3>2. Disjoint(e, new)
      BY <3>1, <2>3 DEF Move, Allocatable, Disjoint
    <3> QED BY <1>1, <1>5, <2>3, <3>2, EnterSets DEF Move
  <2> QED BY <1>8, <2>1, <2>2, <2>3
<1>9. ASSUME NEW e \in FileExtent,
             \/ Bread(p, e) \/ CookedRead(p, e) \/ Overwrite(p, e) \/ Alloc(p, e)
             \/ Blkflush(p, e)
      PROVE  PathOK(proc'[p])
  BY <1>1, <1>2, <1>9, EnterSets DEF Bread, CookedRead, Overwrite, Alloc, Blkflush
<1>10. ASSUME NEW n \in 1 .. BlockFrags, Geteblk(p, n) PROVE PathOK(proc'[p])
  BY <1>1, <1>6, <1>10, EnterSets DEF Geteblk
<1>11. CASE Bflush(p)
  BY <1>1, <1>7, <1>11, EnterSets DEF Bflush
<1> QED
  BY <1>8, <1>9, <1>10, <1>11 DEF Call

\* What getblk and the routines under it may do to the registers.
LEMMA GetblkMoves ==
    ASSUME IInv, NEW p \in Procs, Getblk(p)
    PROVE  /\ proc[p].pc \in {"getblk", "getnewbuf", "brealloc", "overlap", "allocbuf"}
           /\ proc'[p].op = proc[p].op /\ proc'[p].want = proc[p].want
           /\ proc'[p].ra = proc[p].ra /\ proc'[p].first = proc[p].first
           /\ proc'[p].pc \in {"getblk", "getnewbuf", "brealloc", "overlap", "allocbuf", "got", "bwrite"}
           /\ proc'[p].pc = "bwrite" => proc'[p].ret \in {"getblk", "overlap"}
<1>0. proc[p] \in Process /\ proc \in [Procs -> Process]
  BY View DEF TypeOK
<1>1. CASE GetblkBusy(p)
  BY <1>0, <1>1 DEF GetblkBusy, WaitFor, Running
<1>2. CASE OverlapBusy(p)
  BY <1>0, <1>2 DEF OverlapBusy, WaitFor, Running
<1>3. CASE GetnewbufNone(p)
  BY <1>0, <1>3 DEF GetnewbufNone, Running
<1>4. CASE GetnewbufDirty(p)
  BY <1>0, <1>4 DEF GetnewbufDirty, FlushAsync, Running
<1>5. CASE OverlapClean(p)
  BY <1>0, <1>5 DEF OverlapClean, Running
<1>6. CASE GetblkHit(p)
  BY <1>0, <1>6 DEF GetblkHit, Goto, Process, Running
<1>7. CASE GetblkMiss(p)
  BY <1>0, <1>7 DEF GetblkMiss, Goto, Process, Running
<1>8. CASE GetnewbufClean(p)
  BY <1>0, <1>8 DEF GetnewbufClean, Goto, Process, Running
<1>9. CASE BreallocSame(p)
  BY <1>0, <1>9 DEF BreallocSame, Goto, Process, Running
<1>10. CASE BreallocDirty(p)
  BY <1>0, <1>10 DEF BreallocDirty, Goto, Process, Running
<1>11. CASE BreallocShrink(p)
  BY <1>0, <1>11 DEF BreallocShrink, Goto, Process, Running
<1>12. CASE BreallocGrow(p)
  BY <1>0, <1>12 DEF BreallocGrow, Goto, Process, Running
<1>13. CASE OverlapNone(p)
  BY <1>0, <1>13 DEF OverlapNone, Goto, Process, Running
<1>14. CASE AllocbufFits(p)
  BY <1>0, <1>14 DEF AllocbufFits, Goto, Process, Running
<1>15. CASE AllocbufGive(p)
  BY <1>0, <1>15 DEF AllocbufGive, Goto, Process, Running
<1>16. CASE AllocbufMore(p)
  BY <1>0, <1>16 DEF AllocbufMore, Goto, Process, Running
<1>17. CASE AllocbufTake(p)
  BY <1>0, <1>17 DEF AllocbufTake, Goto, Process, Running
<1>18. CASE OverlapDirty(p)
  BY <1>0, <1>18 DEF OverlapDirty, FlushSync, Goto, Process, Running
<1> QED
  BY Getblk(p), <1>1, <1>2, <1>3, <1>4, <1>5, <1>6, <1>7, <1>8, <1>9, <1>10,
     <1>11, <1>12, <1>13, <1>14, <1>15, <1>16, <1>17, <1>18
  DEF Getblk

LEMMA ReadDoneMoves ==
    ASSUME IInv, NEW p \in Procs, ReadDone(p)
    PROVE  /\ proc[p].pc = "biowait" /\ proc[p].op \in {"read", "extend", "move"}
           /\ Is(proc[p].bp, "DONE")
           /\ proc'[p].ep = proc[p].ep /\ proc'[p].ret = proc[p].ret
           /\ \/ /\ proc[p].op = "extend" /\ ~Is(proc[p].bp, "ERROR")
                 /\ proc'[p].pc = "brealloc" /\ proc'[p].op = "extended"
                 /\ proc'[p].want = proc[p].ra /\ proc'[p].ra = proc[p].want
                 /\ proc'[p].bp = proc[p].bp /\ proc'[p].first = proc[p].first
              \/ /\ proc[p].op = "move" /\ ~Is(proc[p].bp, "ERROR")
                 /\ proc'[p].pc = "getblk" /\ proc'[p].op = "copy"
                 /\ proc'[p].want = proc[p].ra /\ proc'[p].ra = proc[p].want
                 /\ proc'[p].bp = None /\ proc'[p].first = proc[p].bp
              \/ /\ proc[p].op = "read" \/ Is(proc[p].bp, "ERROR")
                 /\ proc'[p].pc = "hold" /\ proc'[p].op = proc[p].op
                 /\ proc'[p].want = proc[p].want /\ proc'[p].ra = proc[p].ra
                 /\ proc'[p].bp = proc[p].bp /\ proc'[p].first = proc[p].first
<1>1. proc[p] \in Process /\ proc \in [Procs -> Process] /\ RegsOK(proc[p])
  BY View DEF TypeOK
<1> DEFINE more == [proc[p] EXCEPT !.pc = "brealloc", !.op = "extended",
                                   !.want = proc[p].ra, !.ra = proc[p].want]
           copy == [proc[p] EXCEPT !.pc = "getblk", !.op = "copy",
                                   !.first = proc[p].bp, !.bp = None,
                                   !.want = proc[p].ra, !.ra = proc[p].want]
           hold == [proc[p] EXCEPT !.pc = "hold"]
<1>2. \/ proc[p].op = "extend" /\ ~Is(proc[p].bp, "ERROR") /\ Goto(p, more)
      \/ proc[p].op = "move" /\ ~Is(proc[p].bp, "ERROR") /\ Goto(p, copy)
      \/ (proc[p].op = "read" \/ Is(proc[p].bp, "ERROR")) /\ Goto(p, hold)
  BY Zenon DEF ReadDone
<1>3. proc[p].pc = "biowait" /\ proc[p].op \in {"read", "extend", "move"}
      /\ Is(proc[p].bp, "DONE")
  BY <1>1 DEF ReadDone, Running, RegsOK
<1>4. CASE Goto(p, more) /\ proc[p].op = "extend" /\ ~Is(proc[p].bp, "ERROR")
  BY <1>1, <1>3, <1>4 DEF Goto, Process
<1>5. CASE Goto(p, copy) /\ proc[p].op = "move" /\ ~Is(proc[p].bp, "ERROR")
  BY <1>1, <1>3, <1>5 DEF Goto, Process
<1>6. CASE Goto(p, hold) /\ (proc[p].op = "read" \/ Is(proc[p].bp, "ERROR"))
  BY <1>1, <1>3, <1>6 DEF Goto, Process
<1> QED BY <1>2, <1>4, <1>5, <1>6

LEMMA WriteDoneMoves ==
    ASSUME IInv, NEW p \in Procs, WriteDone(p)
    PROVE  /\ proc[p].pc = "bwrite" /\ proc[p].ep \in Bufs
           /\ Is(proc[p].ep, "DONE") /\ proc[p].ep \notin io
           /\ IF proc[p].ret = "user"
              THEN proc'[p] = Idle /\ cpu' = None
              ELSE /\ proc'[p].pc = proc[p].ret /\ proc'[p].op = proc[p].op
                   /\ proc'[p].want = proc[p].want /\ proc'[p].ra = proc[p].ra
                   /\ proc'[p].bp = proc[p].bp /\ proc'[p].first = proc[p].first
                   /\ proc'[p].ep = None /\ cpu' = p
<1>1. proc[p] \in Process /\ proc \in [Procs -> Process] /\ RegsOK(proc[p])
  BY View DEF TypeOK
<1>2. proc[p].pc = "bwrite" /\ proc[p].ep \in Bufs /\ Is(proc[p].ep, "DONE")
  BY <1>1 DEF WriteDone, Running, RegsOK, Process
<1>3. proc[p].ep \notin io
  BY <1>2 DEF IInv, BufInv, FlagsOK
<1>4. CASE proc[p].ret = "user"
  BY <1>1, <1>2, <1>3, <1>4 DEF WriteDone, Leave
<1>5. CASE proc[p].ret # "user"
  <2>1. /\ proc' = [proc EXCEPT ![p] = [proc[p] EXCEPT
                       !.pc = proc[p].ret, !.ep = None, !.ret = "user"]]
        /\ cpu' = p
    BY <1>5 DEF WriteDone, Running, Goto
  <2> QED BY <1>1, <1>2, <1>3, <1>5, <2>1 DEF Process
<1> QED BY <1>4, <1>5

LEMMA IdlePath == PathOK(Idle)
  BY DEF PathOK, Idle, Empty, Paired

\* No step but a call gives a process an extent it had not.
LEMMA StepPath ==
    ASSUME IInv, NEW p \in Procs, Paths, Step(p)
    PROVE  PathOK(proc'[p])
<1>0. TypeOK /\ proc[p] \in Process /\ RegsOK(proc[p]) /\ PathOK(proc[p])
  BY View DEF Paths
<1>1. proc \in [Procs -> Process]
  BY <1>0 DEF TypeOK
<1>2. ASSUME Leave(p) PROVE PathOK(proc'[p])
  BY <1>1, <1>2, IdlePath DEF Leave
<1>3. CASE Getblk(p)
  <2>1. proc[p].op \notin {"none", "flush"}
    BY <1>0, <1>3, GetblkMoves DEF PathOK
  <2> QED BY <1>0, <1>3, <2>1, GetblkMoves DEF PathOK
<1>4. CASE Got(p)
  <2>11. CASE ReadDone(p)
    BY <1>0, <2>11, ReadDoneMoves DEF PathOK, Paired, Disjoint
  <2>12. CASE WriteDone(p)
    BY <1>0, <2>12, IdlePath, WriteDoneMoves DEF PathOK, RegsOK
  <2>1. CASE GotCached(p)
    BY <1>0, <1>1, <2>1 DEF GotCached, Goto, Running, PathOK, Process, Paired
  <2>2. CASE GotUncached(p)
    BY <1>0, <1>1, <2>2
    DEF GotUncached, Goto, Running, PathOK, Process, Paired
  <2>3. CASE GotBlank(p)
    BY <1>0, <1>1, <2>3 DEF GotBlank, Goto, Running, PathOK, Process, Paired
  <2>4. CASE GotExtended(p)
    BY <1>0, <1>1, <2>4
    DEF GotExtended, Goto, Running, PathOK, Process, Paired
  <2>5. CASE GotCopy(p)
    BY <1>0, <1>1, <2>5 DEF GotCopy, Goto, Running, PathOK, Process, Paired
  <2>6. CASE GotAhead(p)
    BY <1>0, <1>1, <2>6
    DEF GotAhead, AheadOver, RegsOK, Goto, Running, PathOK, Process, Paired
  <2>7. CASE BreadaFirst(p)
    BY <1>0, <1>1, <2>7
    DEF BreadaFirst, AheadOver, RegsOK, Goto, Running, PathOK, Process, Paired
  <2>8. CASE BreadaAhead(p)
    BY <1>0, <1>1, <2>8
    DEF BreadaAhead, AheadOver, RegsOK, Goto, Running, PathOK, Process, Paired
  <2>9. CASE BreadaFinish(p)
    BY <1>0, <1>1, <2>9
    DEF BreadaFinish, AheadOver, RegsOK, Goto, Running, PathOK, Process,
        Paired
  <2>10. CASE Biowait(p)
    BY <1>0, <1>1, <2>10 DEF Biowait, Goto, Running, PathOK, Process, Paired
  <2> QED
    BY <1>4, <2>1, <2>2, <2>3, <2>4, <2>5, <2>6, <2>7, <2>8, <2>9, <2>10,
       <2>11, <2>12
    DEF Got
<1>5. CASE Finish(p)
  <2>1. CASE Brelse(p)
    BY <1>0, <1>1, <1>2, <2>1 DEF Brelse
  <2>2. CASE Bdwrite(p)
    BY <1>0, <1>1, <1>2, <2>2 DEF Bdwrite
  <2>3. CASE Bawrite(p)
    BY <1>0, <1>1, <1>2, <2>3 DEF Bawrite
  <2>4. CASE BflushReturn(p)
    BY <1>0, <1>1, <1>2, <2>4 DEF BflushReturn
  <2>5. CASE BlkflushReturn(p)
    BY <1>0, <1>1, <1>2, <2>5 DEF BlkflushReturn
  <2>6. CASE Bwrite(p)
    BY <1>0, <1>1, <1>2, <2>6
    DEF Bwrite, Changing, Goto, Running, PathOK, Process
  <2>7. CASE BflushWrite(p)
    BY <1>0, <1>1, <1>2, <2>7 DEF BflushWrite, FlushAsync
  <2>8. CASE BlkflushBusy(p)
    BY <1>0, <1>1, <1>2, <2>8 DEF BlkflushBusy, WaitFor
  <2>9. CASE BlkflushDirty(p)
    BY <1>0, <1>1, <1>2, <2>9
    DEF BlkflushDirty, FlushSync, Goto, Running, PathOK, Process
  <2> QED
    BY <1>5, <2>1, <2>2, <2>3, <2>4, <2>5, <2>6, <2>7, <2>8, <2>9 DEF Finish
<1> QED BY <1>3, <1>4, <1>5 DEF Step
------------------------------------------------------------------------------
(* The buffers of a process hold what they are for. *)

\* A step of p is p's: nobody else moves.
LEMMA ActsAlone ==
    ASSUME IInv, NEW p \in Procs, Act(p)
    PROVE  /\ cpu \in {p, None} /\ cpu' \in {p, None}
           /\ \A q \in Procs \ {p} : proc'[q] = proc[q] /\ slp'[q] \in {slp[q], None}
<1>0. proc \in [Procs -> Process] /\ slp \in [Procs -> Bufs \cup {None, FreeList}]
  BY View DEF TypeOK
<1>1. ASSUME NEW chans, Wakeup(chans)
      PROVE  \A q \in Procs : slp'[q] \in {slp[q], None}
  BY <1>1, Zenon DEF Wakeup
<1>2. ASSUME NEW b, ReleaseWakeups(b)
      PROVE  \A q \in Procs : slp'[q] \in {slp[q], None}
  BY <1>1, <1>2 DEF ReleaseWakeups
<1>3. CASE Call(p)
  <2>1. \E pc, op, want, ra : Enter(p, pc, op, want, ra)
    BY <1>3, Zenon DEF Call, Bread, CookedRead, Breada, Overwrite, Alloc, Extend, Move,
       Geteblk, Bflush, Blkflush
  <2> QED BY <1>0, <2>1 DEF Enter
<1>4. CASE Dispatch(p) \/ Pause(p)
  BY <1>0, <1>4 DEF Dispatch, Pause, Running
<1>5. CASE Getblk(p)
  <2>1. CASE GetblkBusy(p)
    BY <1>0, <1>2, <2>1 DEF GetblkBusy, WaitFor, Sleep, Running
  <2>2. CASE OverlapBusy(p)
    BY <1>0, <1>2, <2>2 DEF OverlapBusy, WaitFor, Sleep, Running
  <2>3. CASE GetnewbufNone(p)
    BY <1>0, <1>2, <2>3 DEF GetnewbufNone, Sleep, Running
  <2>4. CASE GetnewbufDirty(p)
    BY <1>0, <1>2, <2>4 DEF GetnewbufDirty, FlushAsync, Running
  <2>5. CASE OverlapClean(p)
    BY <1>0, <1>2, <2>5 DEF OverlapClean, Running
  <2>6. CASE GetblkHit(p)
    BY <1>0, <1>2, <2>6 DEF GetblkHit, Goto, Running
  <2>7. CASE GetblkMiss(p)
    BY <1>0, <1>2, <2>7 DEF GetblkMiss, Goto, Running
  <2>8. CASE GetnewbufClean(p)
    BY <1>0, <1>2, <2>8 DEF GetnewbufClean, Goto, Running
  <2>9. CASE BreallocSame(p)
    BY <1>0, <1>2, <2>9 DEF BreallocSame, Goto, Running
  <2>10. CASE BreallocDirty(p)
    BY <1>0, <1>2, <2>10 DEF BreallocDirty, Goto, Running
  <2>11. CASE BreallocShrink(p)
    BY <1>0, <1>2, <2>11 DEF BreallocShrink, Goto, Running
  <2>12. CASE BreallocGrow(p)
    BY <1>0, <1>2, <2>12 DEF BreallocGrow, Goto, Running
  <2>13. CASE OverlapNone(p)
    BY <1>0, <1>2, <2>13 DEF OverlapNone, Goto, Running
  <2>14. CASE AllocbufFits(p)
    BY <1>0, <1>2, <2>14 DEF AllocbufFits, Goto, Running
  <2>15. CASE AllocbufGive(p)
    BY <1>0, <1>2, <2>15 DEF AllocbufGive, Goto, Running
  <2>16. CASE AllocbufMore(p)
    BY <1>0, <1>2, <2>16 DEF AllocbufMore, Goto, Running
  <2>17. CASE AllocbufTake(p)
    BY <1>0, <1>2, <2>17 DEF AllocbufTake, Goto, Running
  <2>18. CASE OverlapDirty(p)
    BY <1>0, <1>2, <2>18 DEF OverlapDirty, FlushSync, Goto, Running
  <2> QED
    BY <1>5, <2>1, <2>2, <2>3, <2>4, <2>5, <2>6, <2>7, <2>8, <2>9, <2>10,
       <2>11, <2>12, <2>13, <2>14, <2>15, <2>16, <2>17, <2>18
    DEF Getblk
<1>6. CASE Got(p)
  <2>1. CASE GotCached(p)
    BY <1>0, <1>2, <2>1 DEF GotCached, Goto, Running
  <2>2. CASE GotUncached(p)
    BY <1>0, <1>2, <2>2 DEF GotUncached, Goto, Running
  <2>3. CASE GotAhead(p)
    BY <1>0, <1>2, <2>3 DEF GotAhead, Goto, Running
  <2>4. CASE GotBlank(p)
    BY <1>0, <1>2, <2>4 DEF GotBlank, Goto, Running
  <2>5. CASE GotExtended(p)
    BY <1>0, <1>2, <2>5 DEF GotExtended, Goto, Running
  <2>6. CASE GotCopy(p)
    BY <1>0, <1>2, <2>6 DEF GotCopy, Goto, Running
  <2>7. CASE BreadaFirst(p)
    BY <1>0, <1>2, <2>7 DEF BreadaFirst, Goto, Running
  <2>8. CASE BreadaAhead(p)
    BY <1>0, <1>2, <2>8 DEF BreadaAhead, Goto, Running
  <2>9. CASE BreadaFinish(p)
    BY <1>0, <1>2, <2>9 DEF BreadaFinish, Goto, Running
  <2>10. CASE ReadDone(p)
    BY <1>0, <1>2, <2>10 DEF ReadDone, Goto, Running
  <2>11. CASE Biowait(p)
    BY <1>0, <1>2, <2>11 DEF Biowait, Sleep, Running
  <2>12. CASE WriteDone(p)
    BY <1>0, <1>2, <2>12 DEF WriteDone, Goto, Leave, Running
  <2> QED
    BY <1>6, <2>1, <2>2, <2>3, <2>4, <2>5, <2>6, <2>7, <2>8, <2>9, <2>10,
       <2>11, <2>12
    DEF Got
<1>7. CASE Finish(p)
  <2>1. CASE Brelse(p)
    BY <1>0, <1>2, <2>1 DEF Brelse, Leave, Running
  <2>2. CASE BflushReturn(p)
    BY <1>0, <1>2, <2>2 DEF BflushReturn, Leave, Running
  <2>3. CASE BlkflushReturn(p)
    BY <1>0, <1>2, <2>3 DEF BlkflushReturn, Leave, Running
  <2>4. CASE Bdwrite(p)
    BY <1>0, <1>2, <2>4 DEF Bdwrite, Changing, Leave, Running
  <2>5. CASE Bawrite(p)
    BY <1>0, <1>2, <2>5 DEF Bawrite, Changing, Leave, Running
  <2>6. CASE Bwrite(p)
    BY <1>0, <1>2, <2>6 DEF Bwrite, Changing, Goto, Running
  <2>7. CASE BflushWrite(p)
    BY <1>0, <1>2, <2>7 DEF BflushWrite, FlushAsync, Running
  <2>8. CASE BlkflushBusy(p)
    BY <1>0, <1>2, <2>8 DEF BlkflushBusy, WaitFor, Sleep, Running
  <2>9. CASE BlkflushDirty(p)
    BY <1>0, <1>2, <2>9 DEF BlkflushDirty, FlushSync, Goto, Running
  <2> QED
    BY <1>7, <2>1, <2>2, <2>3, <2>4, <2>5, <2>6, <2>7, <2>8, <2>9 DEF Finish
<1> QED BY <1>3, <1>4, <1>5, <1>6, <1>7 DEF Act, Step

Names(b, e) == buf[b].blk = e.start
Exact(b, e) == Names(b, e) /\ buf[b].cnt = e.size

\* The extent of the buffer a process has put aside.
FirstExtent(r) ==
    IF r.op = "copy" \/ (r.op = "ahead" /\ r.pc # "finish") THEN r.ra ELSE r.want

NamedOK(p) ==
    /\ proc[p].bp # None =>
          /\ Names(proc[p].bp, proc[p].want)
          /\ Is(proc[p].bp, "INVAL") <=> proc[p].op = "anon"
    /\ proc[p].pc \in {"got", "biowait", "hold"} => Exact(proc[p].bp, proc[p].want)
    /\ proc[p].first # None =>
          /\ Exact(proc[p].first, FirstExtent(proc[p]))
          /\ ~Is(proc[p].first, "INVAL")
    /\ proc[p].pc = "bwrite" /\ proc[p].ret = "user" =>
          /\ Exact(proc[p].ep, proc[p].want)
          /\ ~Is(proc[p].ep, "INVAL")

\* Between its test and its read, nothing puts contents in a fresh buffer.
FreshOK(p) ==
    proc[p].op \in Fresh =>
        /\ proc[p].pc = "getblk" =>
              cpu = p /\ Cached(proc[p].want) = {} /\ proc[p].op # "anon"
        /\ proc[p].pc = "brealloc" => buf[proc[p].bp].cnt = 0
        /\ proc[p].pc = "bwrite" => proc[p].ret = "overlap"
        /\ proc[p].bp # None => ~Is(proc[p].bp, "DONE")

Shapes == Paths /\ \A p \in Procs : NamedOK(p) /\ FreshOK(p)

LEMMA NamedCall ==
    ASSUME IInv, NEW p \in Procs, Call(p)
    PROVE  NamedOK(p)' /\ FreshOK(p)'
<1>1. TypeOK
  BY View
<1>2. PICK pc, op, want, ra :
        /\ Enter(p, pc, op, want, ra)
        /\ pc \notin {"got", "biowait", "hold", "bwrite", "brealloc"}
        /\ op \in Fresh => pc # "getblk"
  <2>1. ASSUME NEW pc, NEW op, NEW want, NEW ra, Enter(p, pc, op, want, ra),
               pc \in {"getblk", "getnewbuf", "breada", "bflush", "blkflush"},
               op \in Fresh => pc # "getblk"
        PROVE  \E c, o, w, a :
                  /\ Enter(p, c, o, w, a)
                  /\ c \notin {"got", "biowait", "hold", "bwrite", "brealloc"}
                  /\ o \in Fresh => c # "getblk"
    BY <2>1
  <2> QED
    BY <2>1 DEF Call, Bread, CookedRead, Breada, Overwrite, Alloc, Extend, Move,
       Geteblk, Bflush, Blkflush, Fresh
<1>3. proc'[p] = Empty(pc, op, want, ra)
  BY <1>1, <1>2, EnterSets
<1> QED BY <1>2, <1>3 DEF NamedOK, FreshOK, Empty

\* allocbuf gives memory away: the two buffers afterwards.
LEMMA GiveSets ==
    ASSUME IInv, NEW p \in Procs, AllocbufGive(p)
    PROVE  LET b == proc[p].bp  s == buf'[b]  size == proc[p].want.size
           IN  /\ b \in Bufs /\ size \in 0 .. BlockFrags /\ proc[p].pc = "allocbuf"
               /\ proc'[p].bp = b /\ proc'[p].pc = "got" /\ proc'[p].op = proc[p].op
               /\ proc'[p].want = proc[p].want
               /\ s.blk = buf[b].blk /\ s.cnt = size /\ s.mem = size
               /\ s.flags = buf[b].flags /\ s.queue = "out"
               /\ buf[b].mem > size
               /\ \E e \in Bufs \ {b} :
                     LET t == buf'[e]
                     IN  /\ buf[e].queue = "empty"
                         /\ t.cnt = 0 /\ t.mem = buf[b].mem - size
                         /\ t.flags = (buf[e].flags \cup {"INVAL"})
                                        \ {"WANTED", "BUSY", "ASYNC"}
                         /\ t.blk \in {buf[e].blk, NODEV}
                         /\ "ERROR" \in buf[e].flags => t.blk = NODEV
                         /\ t.queue = IF t.mem = 0 THEN "empty" ELSE "free"
                         /\ t.cur = {}
                         /\ \A c \in Bufs \ {b, e} : buf'[c] = buf[c]
<1> DEFINE b == proc[p].bp
           size == proc[p].want.size
<1>1. proc[p] \in Process /\ RegsOK(proc[p]) /\ buf \in [Bufs -> Buffer]
      /\ proc \in [Procs -> Process]
  BY View DEF TypeOK
<1>2. /\ proc' = [proc EXCEPT ![p] = [proc[p] EXCEPT !.pc = "got"]]
      /\ proc[p].pc = "allocbuf" /\ b \in Bufs /\ buf[b].mem > size
      /\ size \in 0 .. BlockFrags
  BY <1>1 DEF AllocbufGive, Goto, Running, RegsOK, Process, Extent
<1>3. buf[b].queue = "out"
  BY <1>2, HeldUnique DEF Holds
<1>4. PICK e \in Bufs :
         /\ buf[e].queue = "empty"
         /\ buf' = [buf EXCEPT
               ![b] = [Resized(@, size) EXCEPT !.mem = size],
               ![e] = Released(Filled(@, buf[b].mem - size))]
  BY Zenon DEF AllocbufGive
<1>5. buf[b] \in Buffer /\ buf[e] \in Buffer /\ e # b
  BY <1>1, <1>2, <1>3, <1>4
<1>6. /\ buf'[b] = [Resized(buf[b], size) EXCEPT !.mem = size]
      /\ buf'[e] = Released(Filled(buf[e], buf[b].mem - size))
      /\ \A c \in Bufs \ {b, e} : buf'[c] = buf[c]
  BY <1>1, <1>2, <1>4, <1>5
<1>7. Resized(buf[b], size) \in Buffer /\ buf[b].mem - size \in 0 .. BlockFrags
  BY <1>2, <1>5, ResizedType, BufferCacheAssumption DEF Buffer
<1> DEFINE r == Resized(buf[b], size)
           f == Filled(buf[e], buf[b].mem - size)
<1>8. /\ r.blk = buf[b].blk /\ r.cnt = size /\ r.flags = buf[b].flags
      /\ r.queue = "out"
  BY <1>3, <1>5 DEF Resized, Buffer
<1>9. /\ f \in Buffer /\ f.mem = buf[b].mem - size /\ f.cnt = 0 /\ f.cur = {}
      /\ f.blk = buf[e].blk /\ f.flags = buf[e].flags \cup {"BUSY", "INVAL"}
  BY ZenonT(60), <1>5, <1>7, FilledType DEF Filled, Invalidated, Taken, Buffer
<1> HIDE DEF r, f
<1>10. /\ buf'[b].blk = buf[b].blk /\ buf'[b].cnt = size /\ buf'[b].mem = size
       /\ buf'[b].flags = buf[b].flags /\ buf'[b].queue = "out"
  BY <1>6, <1>7, <1>8 DEF r, Buffer
<1>11. /\ buf'[e].cnt = 0 /\ buf'[e].mem = buf[b].mem - size /\ buf'[e].cur = {}
       /\ buf'[e].flags = (buf[e].flags \cup {"INVAL"}) \ {"WANTED", "BUSY", "ASYNC"}
       /\ buf'[e].blk \in {buf[e].blk, NODEV}
       /\ "ERROR" \in buf[e].flags => buf'[e].blk = NODEV
       /\ buf'[e].queue = IF buf'[e].mem = 0 THEN "empty" ELSE "free"
  BY <1>6, <1>9 DEF f, Released, Buffer
<1>12. /\ proc'[p].bp = b /\ proc'[p].pc = "got" /\ proc'[p].op = proc[p].op
       /\ proc'[p].want = proc[p].want
  BY <1>1, <1>2 DEF Process
<1> QED
  BY <1>2, <1>4, <1>5, <1>6, <1>10, <1>11, <1>12

\* allocbuf takes memory: the two buffers afterwards.
LEMMA TakeSets ==
    ASSUME IInv, NEW p \in Procs, AllocbufTake(p)
    PROVE  LET b == proc[p].bp  s == buf'[b]
           IN  /\ b \in Bufs /\ proc[p].pc = "getnewbuf"
               /\ proc'[p].bp = b /\ proc'[p].pc = "allocbuf" /\ proc'[p].op = proc[p].op
               /\ proc'[p].want = proc[p].want
               /\ s.blk = buf[b].blk /\ s.cnt = buf[b].cnt /\ s.flags = buf[b].flags
               /\ s.queue = "out" /\ s.cur = buf[b].cur
               /\ buf[b].mem < proc[p].want.size
               /\ \E e \in Bufs \ {b} : \E take \in 0 .. buf[e].mem :
                     LET t == buf'[e]
                     IN  /\ buf[e].queue = "free" /\ "DELWRI" \notin buf[e].flags
                         /\ s.mem = buf[b].mem + take
                         /\ t.mem = buf[e].mem - take
                         /\ t.cnt \in 0 .. t.mem
                         /\ t.flags \in SUBSET {"INVAL"}
                         /\ t.blk \in {buf[e].blk, NODEV}
                         /\ "INVAL" \in t.flags <=> t.mem = 0
                         /\ t.queue = IF t.mem = 0 THEN "empty" ELSE "free"
                         /\ \A c \in Bufs \ {b, e} : buf'[c] = buf[c]
<1> DEFINE b == proc[p].bp
           need == proc[p].want.size - buf[b].mem
           take(e) == IF need < buf[e].mem THEN need ELSE buf[e].mem
<1>1. proc[p] \in Process /\ RegsOK(proc[p]) /\ buf \in [Bufs -> Buffer]
      /\ proc \in [Procs -> Process] /\ Short(p)
  BY View DEF TypeOK
<1>2. /\ proc' = [proc EXCEPT ![p] = [proc[p] EXCEPT !.pc = "allocbuf"]]
      /\ proc[p].pc = "getnewbuf" /\ b \in Bufs
      /\ buf[b].mem < proc[p].want.size /\ proc[p].want.size \in 0 .. BlockFrags
  BY <1>1 DEF AllocbufTake, Goto, Running, Short, Process, Extent
<1>3. buf[b].queue = "out" /\ buf[b] \in Buffer
  BY <1>2, HeldUnique DEF Holds
<1>4. PICK e \in Bufs :
        /\ buf[e].queue = "free" /\ ~Is(e, "DELWRI")
        /\ buf' = [buf EXCEPT ![b].mem = @ + take(e),
                              ![e] = Released(Robbed(@, take(e)))]
  BY Zenon DEF AllocbufTake
<1>5. buf[e] \in Buffer /\ e # b /\ take(e) \in 0 .. buf[e].mem
  BY <1>1, <1>2, <1>3, <1>4, BufferCacheAssumption DEF Buffer
<1> DEFINE k == take(e)
           r == Robbed(buf[e], k)
<1>6. /\ buf'[b] = [buf[b] EXCEPT !.mem = @ + k]
      /\ buf'[e] = Released(r)
      /\ \A c \in Bufs \ {b, e} : buf'[c] = buf[c]
  BY <1>1, <1>2, <1>4, <1>5
<1>7. k \in 0 .. buf[e].mem
  BY <1>5
<1> HIDE DEF take, k
<1>8. /\ r.mem = buf[e].mem - k /\ r.cnt \in 0 .. r.mem
      /\ IF r.mem > 0 THEN r.blk = buf[e].blk /\ r.flags = {"BUSY"}
         ELSE r.blk = NODEV /\ r.flags = {"BUSY", "INVAL"}
      /\ r \in Buffer
  <2> DEFINE left == [buf[e] EXCEPT !.flags = {"BUSY"}, !.mem = @ - k]
             n == IF buf[e].cnt > left.mem THEN left.mem ELSE buf[e].cnt
             cut == Resized(left, n)
  <2>0. /\ buf[e].mem \in 0 .. BlockFrags /\ buf[e].cnt \in 0 .. BlockFrags
        /\ k \in 0 .. buf[e].mem
    BY <1>5, <1>7 DEF Buffer
  <2>9. buf[e].mem - k \in 0 .. BlockFrags
    BY <2>0, BufferCacheAssumption
  <2>10. left.mem = buf[e].mem - k
    BY <1>5 DEF Buffer
  <2>1. left \in Buffer /\ left.mem = buf[e].mem - k /\ left.blk = buf[e].blk
        /\ left.flags = {"BUSY"}
    BY <1>5, <2>9 DEF Buffer, Flag
  <2> HIDE DEF left
  <2>2. n \in 0 .. left.mem /\ n \in 0 .. BlockFrags
    BY <2>0, <2>9, <2>10, BufferCacheAssumption
  <2>3. r = IF left.mem > 0 THEN cut
            ELSE [cut EXCEPT !.blk = NODEV, !.flags = {"BUSY", "INVAL"}]
    BY DEF r, Robbed, left
  <2> HIDE DEF n
  <2>4. /\ cut \in Buffer /\ cut.mem = left.mem /\ cut.cnt = n
        /\ cut.blk = left.blk /\ cut.flags = left.flags
    BY <2>1, <2>2, ResizedType DEF Resized, Buffer
  <2> HIDE DEF cut
  <2>5. r \in Buffer
    BY <1>5, <1>7, RobbedType DEF r
  <2>6. CASE left.mem > 0
    BY <2>1, <2>2, <2>3, <2>4, <2>5, <2>6
  <2>7. CASE ~(left.mem > 0)
    BY <2>1, <2>2, <2>3, <2>4, <2>5, <2>7 DEF Buffer
  <2> QED BY <2>6, <2>7
<1> HIDE DEF r
<1>9. /\ buf'[b].blk = buf[b].blk /\ buf'[b].cnt = buf[b].cnt
      /\ buf'[b].flags = buf[b].flags /\ buf'[b].queue = "out"
      /\ buf'[b].cur = buf[b].cur /\ buf'[b].mem = buf[b].mem + k
  BY <1>3, <1>6 DEF Buffer
<1>10. /\ buf'[e].mem = r.mem /\ buf'[e].cnt = r.cnt /\ buf'[e].blk \in {r.blk, NODEV}
       /\ buf'[e].flags = r.flags \ {"WANTED", "BUSY", "ASYNC"}
       /\ buf'[e].queue = IF r.mem = 0 THEN "empty" ELSE "free"
  BY <1>6, <1>8 DEF Released, Buffer
<1>11. r.mem \in 0 .. BlockFrags /\ "DELWRI" \notin buf[e].flags
  BY <1>4, <1>8 DEF Buffer, Is
<1>12. /\ buf'[e].flags \in SUBSET {"INVAL"}
       /\ "INVAL" \in buf'[e].flags <=> buf'[e].mem = 0
       /\ buf'[e].cnt \in 0 .. buf'[e].mem
       /\ buf'[e].blk \in {buf[e].blk, NODEV}
       /\ buf'[e].queue = IF buf'[e].mem = 0 THEN "empty" ELSE "free"
       /\ buf'[e].mem = buf[e].mem - k
  BY <1>8, <1>10, <1>11, BufferCacheAssumption
<1>13. /\ proc'[p].bp = b /\ proc'[p].pc = "allocbuf" /\ proc'[p].op = proc[p].op
       /\ proc'[p].want = proc[p].want
  BY <1>1, <1>2 DEF Process
<1> HIDE DEF b
<1> QED
  BY <1>2, <1>4, <1>5, <1>6, <1>7, <1>9, <1>11, <1>12, <1>13 DEF b

\* What getblk does to the buffer it has got.
LEMMA GetblkBuffer ==
    ASSUME IInv, Shapes, NEW p \in Procs, Getblk(p)
    PROVE  /\ proc'[p].bp # None =>
                /\ proc'[p].bp \in Bufs
                /\ buf'[proc'[p].bp].blk = proc[p].want.start
                /\ "INVAL" \in buf'[proc'[p].bp].flags <=> proc[p].op = "anon"
           /\ proc'[p].pc = "got" =>
                buf'[proc'[p].bp].cnt = proc[p].want.size
<1>0. proc[p] \in Process
  BY View
<1>1. proc \in [Procs -> Process] /\ buf \in [Bufs -> Buffer]
  BY View DEF TypeOK
<1>2. RegsOK(proc[p]) /\ NamedOK(p) /\ FreshOK(p)
  BY View DEF Shapes
<1>3. /\ proc[p].bp \in Bufs \cup {None}
      /\ proc[p].bp # None =>
           /\ buf[proc[p].bp].blk = proc[p].want.start
           /\ "INVAL" \in buf[proc[p].bp].flags <=> proc[p].op = "anon"
      /\ proc[p].pc \in {"brealloc", "overlap", "allocbuf"} => proc[p].bp # None
      /\ proc[p].pc = "getblk" /\ Cached(proc[p].want) # {} => proc[p].op # "anon"
  BY <1>0, <1>2 DEF NamedOK, RegsOK, Names, Is, FreshOK, Fresh, Process
<1>5. CASE AllocbufGive(p)
  BY <1>3, <1>5, GiveSets
<1>6. CASE AllocbufTake(p)
  BY <1>3, <1>6, TakeSets
<1>7. CASE GetblkBusy(p)
  BY <1>0, <1>1, <1>3, <1>7 DEF GetblkBusy, WaitFor, Buffer, Running
<1>8. CASE OverlapBusy(p)
  BY <1>0, <1>1, <1>3, <1>8 DEF OverlapBusy, WaitFor, Buffer, Running
<1>9. CASE GetnewbufNone(p)
  BY <1>0, <1>1, <1>3, <1>9 DEF GetnewbufNone, Running
<1>10. CASE GetnewbufDirty(p)
  BY <1>0, <1>1, <1>3, <1>10
  DEF GetnewbufDirty, FlushAsync, AsyncWritten, Written, Taken, Buffer,
      Running
<1>11. CASE OverlapClean(p)
  BY <1>0, <1>1, <1>3, <1>11 DEF OverlapClean, Rivals, Running
<1>12. CASE GetblkHit(p)
  BY <1>0, <1>1, <1>3, <1>12
  DEF GetblkHit, Cached, Is, Goto, Process, Taken, Buffer, Running
<1>13. CASE GetblkMiss(p)
  BY <1>0, <1>1, <1>3, <1>13 DEF GetblkMiss, Goto, Process, Running
<1>14. CASE GetnewbufClean(p)
  BY <1>0, <1>1, <1>3, <1>14
  DEF GetnewbufClean, Goto, Process, Renamed, Buffer, Running
<1>15. CASE BreallocSame(p)
  BY <1>0, <1>1, <1>3, <1>15 DEF BreallocSame, Goto, Process, Buffer, Running
<1>16. CASE BreallocDirty(p)
  BY <1>0, <1>1, <1>3, <1>16 DEF BreallocDirty, Goto, Process, Buffer, Running
<1>17. CASE BreallocShrink(p)
  BY <1>0, <1>1, <1>3, <1>17
  DEF BreallocShrink, Goto, Process, Buffer, Running
<1>18. CASE BreallocGrow(p)
  BY <1>0, <1>1, <1>3, <1>18 DEF BreallocGrow, Goto, Process, Buffer, Running
<1>19. CASE OverlapNone(p)
  BY <1>0, <1>1, <1>3, <1>19 DEF OverlapNone, Goto, Process, Buffer, Running
<1>20. CASE AllocbufFits(p)
  BY <1>0, <1>1, <1>3, <1>20
  DEF AllocbufFits, Goto, Process, Buffer, Resized, Running
<1>21. CASE AllocbufMore(p)
  BY <1>0, <1>1, <1>3, <1>21
  DEF AllocbufMore, Goto, Process, Buffer, Resized, Running
<1>22. CASE OverlapDirty(p)
  BY <1>0, <1>1, <1>3, <1>22
  DEF OverlapDirty, Rivals, Overlapping, FlushSync, Goto, Process, Running
<1> QED
  BY Getblk(p), <1>7, <1>8, <1>9, <1>10, <1>11, <1>12, <1>13, <1>14, <1>15,
     <1>16, <1>17, <1>18, <1>19, <1>20, <1>21, <1>5, <1>6, <1>22
  DEF Getblk

LEMMA NamedGetblk ==
    ASSUME IInv, IInv', Shapes, NEW p \in Procs, Getblk(p)
    PROVE  NamedOK(p)'
<1>1. /\ proc[p] \in Process /\ RegsOK(proc[p]) /\ PathOK(proc[p]) /\ NamedOK(p)
      /\ Distinct(proc[p])
  BY View DEF Shapes, Paths
<1>2. proc[p].first # None =>
         /\ proc[p].first \in Bufs /\ proc[p].first # proc[p].bp
         /\ ~Free(proc[p].first)
  BY <1>1, HeldUnique DEF Process, Distinct, Holds, Free
<1>3. proc[p].first # None => Kept(proc[p].first)
  BY <1>2, GetblkKept
<1>4. FirstExtent(proc'[p]) = FirstExtent(proc[p])
  BY GetblkMoves DEF FirstExtent
<1>5. proc'[p].first # None =>
        /\ buf'[proc'[p].first].blk = FirstExtent(proc'[p]).start
        /\ buf'[proc'[p].first].cnt = FirstExtent(proc'[p]).size
        /\ "INVAL" \notin buf'[proc'[p].first].flags
  BY <1>1, <1>3, <1>4, GetblkMoves DEF NamedOK, Exact, Names, Kept, Is
<1>6. proc'[p].pc = "got" => proc'[p].bp # None
  BY DEF IInv, ProcInv, RegsOK
<1> QED
  BY <1>5, <1>6, GetblkMoves, GetblkBuffer DEF NamedOK, Exact, Names, Is

LEMMA NamedGot ==
    ASSUME IInv, Shapes, NEW p \in Procs, Got(p)
    PROVE  NamedOK(p)'
<1>1. proc[p] \in Process /\ RegsOK(proc[p]) /\ NamedOK(p) /\ Distinct(proc[p]) /\ PathOK(proc[p]) /\ FreshOK(p)
  BY View DEF Shapes, Paths
<1>2. proc \in [Procs -> Process] /\ buf \in [Bufs -> Buffer]
  BY View DEF TypeOK
<1> USE DEF NamedOK, Exact, Names, Is, FirstExtent
<1>3. CASE ReadDone(p)
  <2>1. buf' = buf
    BY <1>3 DEF ReadDone
  <2>2. proc[p].first = None /\ proc[p].bp # None
    BY <1>1, <1>3, ReadDoneMoves DEF RegsOK
  <2>3. proc[p].op = "extend" => proc[p].want.start = proc[p].ra.start
    BY <1>1 DEF PathOK
  <2> QED BY <1>1, <1>3, <2>1, <2>2, <2>3, ReadDoneMoves
<1>4. CASE WriteDone(p)
  <2>1. buf' = [buf EXCEPT ![proc[p].ep] = Released(@)]
    BY <1>4 DEF WriteDone
  <2>2. \A b \in Bufs \ {proc[p].ep} : buf'[b] = buf[b]
    BY <1>2, <2>1
  <2>3. /\ proc[p].bp # None => proc[p].bp \in Bufs \ {proc[p].ep}
        /\ proc[p].first # None => proc[p].first \in Bufs \ {proc[p].ep}
    BY <1>1 DEF Distinct, Process
  <2>4. CASE proc[p].ret = "user"
    BY <1>4, <2>4, WriteDoneMoves DEF Idle, Empty
  <2>5. CASE proc[p].ret # "user"
    <3>1. proc[p].ret \in {"getblk", "overlap", "blkflush"}
      BY <1>1, <1>4, <2>5, WriteDoneMoves DEF RegsOK
    <3> QED BY <1>1, <1>4, <2>2, <2>3, <2>5, <3>1, WriteDoneMoves
  <2> QED BY <2>4, <2>5
<1>5. CASE GotCached(p)
  BY <1>1, <1>2, <1>5 DEF GotCached, RegsOK, Goto, Process, Running
<1>6. CASE GotBlank(p)
  BY <1>1, <1>2, <1>6 DEF GotBlank, RegsOK, Goto, Process, Running
<1>7. CASE GotUncached(p)
  BY <1>1, <1>2, <1>7
  DEF GotUncached, Reading, AheadOver, RegsOK, Goto, Process, Buffer, Running
<1>8. CASE GotAhead(p)
  BY <1>1, <1>2, <1>8
  DEF GotAhead, Reading, AheadOver, RegsOK, Goto, Process, Buffer, Running
<1>9. CASE GotExtended(p)
  BY <1>1, <1>2, <1>9
  DEF GotExtended, Reading, AheadOver, RegsOK, Goto, Process, Buffer, Running
<1>10. CASE GotCopy(p)
  BY <1>1, <1>2, <1>10
  DEF GotCopy, RegsOK, Goto, Process, Released, Distinct, Running
<1>11. CASE BreadaFirst(p)
  BY <1>1, <1>2, <1>11 DEF BreadaFirst, RegsOK, Goto, Process, Running
<1>12. CASE BreadaAhead(p)
  BY <1>1, <1>2, <1>12 DEF BreadaAhead, RegsOK, Goto, Process, Running
<1>13. CASE BreadaFinish(p)
  BY <1>1, <1>2, <1>13 DEF BreadaFinish, RegsOK, Goto, Process, Running
<1>14. CASE Biowait(p)
  BY <1>1, <1>2, <1>14 DEF Biowait, Running
<1> QED
  BY Got(p), <1>5, <1>6, <1>7, <1>8, <1>9, <1>10, <1>11, <1>12, <1>13, <1>14,
     <1>3, <1>4
  DEF Got

LEMMA NamedFinish ==
    ASSUME IInv, Shapes, NEW p \in Procs, Finish(p)
    PROVE  NamedOK(p)'
<1>1. proc[p] \in Process /\ RegsOK(proc[p]) /\ NamedOK(p) /\ Distinct(proc[p]) /\ PathOK(proc[p]) /\ FreshOK(p)
  BY View DEF Shapes, Paths
<1>2. proc \in [Procs -> Process] /\ buf \in [Bufs -> Buffer]
  BY View DEF TypeOK
<1> USE DEF NamedOK, Exact, Names, Is, FirstExtent
<1>3. CASE Bwrite(p)
  <2> DEFINE b == proc[p].bp
  <2>1. /\ b \in Bufs /\ proc[p].first = None /\ proc[p].op # "anon" /\ proc[p].pc = "hold"
        /\ proc' = [proc EXCEPT ![p] = [proc[p] EXCEPT
              !.pc = "bwrite", !.bp = None, !.ep = b, !.ret = "user"]]
    BY <1>1, <1>3 DEF Bwrite, Changing, Running, RegsOK, Goto, Process
  <2>2. buf' = [Modified(b) EXCEPT ![b] = Written(@)]
    BY <1>3 DEF Bwrite
  <2>3. buf'[b] = Written([buf[b] EXCEPT !.cur = BufFrags(buf[b])])
    BY <2>1, <2>2 DEF Modified
  <2>4. /\ buf'[b].blk = buf[b].blk /\ buf'[b].cnt = buf[b].cnt
        /\ "INVAL" \in buf'[b].flags <=> "INVAL" \in buf[b].flags
    BY <1>2, <2>1, <2>3 DEF Written, Buffer
  <2>5. /\ proc'[p].pc = "bwrite" /\ proc'[p].bp = None /\ proc'[p].ep = b
        /\ proc'[p].first = None /\ proc'[p].want = proc[p].want
    BY <1>1, <1>2, <2>1 DEF Process
  <2> HIDE DEF b
  <2>6. b # None /\ proc[p].bp = b
    BY <2>1, NoneIsNoBuffer DEF b
  <2> QED BY <1>1, <2>1, <2>4, <2>5, <2>6
<1>4. CASE Brelse(p)
  BY <1>1, <1>2, <1>4 DEF Brelse, Leave, Idle, Empty, Running
<1>5. CASE BflushReturn(p)
  BY <1>1, <1>2, <1>5 DEF BflushReturn, Leave, Idle, Empty, Running
<1>6. CASE BlkflushReturn(p)
  BY <1>1, <1>2, <1>6 DEF BlkflushReturn, Leave, Idle, Empty, Running
<1>7. CASE Bdwrite(p)
  BY <1>1, <1>2, <1>7 DEF Bdwrite, Changing, Leave, Idle, Empty, Running
<1>8. CASE Bawrite(p)
  BY <1>1, <1>2, <1>8 DEF Bawrite, Changing, Leave, Idle, Empty, Running
<1>9. CASE BflushWrite(p)
  BY <1>1, <1>2, <1>9 DEF BflushWrite, FlushAsync, RegsOK, Running
<1>10. CASE BlkflushBusy(p)
  BY <1>1, <1>2, <1>10 DEF BlkflushBusy, WaitFor, RegsOK, Running
<1>11. CASE BlkflushDirty(p)
  BY <1>1, <1>2, <1>11
  DEF BlkflushDirty, FlushSync, Goto, RegsOK, Process, Running
<1> QED
  BY Finish(p), <1>4, <1>5, <1>6, <1>7, <1>8, <1>3, <1>9, <1>10, <1>11
  DEF Finish

\* A buffer in use keeps its name whatever others and the device do.
LEMMA NamedKept ==
    ASSUME IInv, NEW q \in Procs, NamedOK(q), proc'[q] = proc[q],
           \A b \in Bufs : Holds(q, b) =>
              /\ buf'[b].blk = buf[b].blk /\ buf'[b].cnt = buf[b].cnt
              /\ "INVAL" \in buf'[b].flags <=> "INVAL" \in buf[b].flags
    PROVE  NamedOK(q)'
<1>1. proc[q] \in Process /\ RegsOK(proc[q])
  BY View
<1>2. /\ proc[q].bp # None => proc[q].bp \in Bufs /\ Holds(q, proc[q].bp)
      /\ proc[q].ep # None => proc[q].ep \in Bufs /\ Holds(q, proc[q].ep)
      /\ proc[q].first # None => proc[q].first \in Bufs /\ Holds(q, proc[q].first)
  BY <1>1 DEF Process, Holds
<1> QED
  BY <1>1, <1>2 DEF NamedOK, Exact, Names, Is, RegsOK

LEMMA FreshKept ==
    ASSUME IInv, NEW q \in Procs, FreshOK(q), proc'[q] = proc[q],
           proc[q].pc = "getblk" /\ cpu = q /\ proc[q].op \in {"reada", "ahead"} =>
              cpu' = q /\ Cached(proc[q].want)' \subseteq Cached(proc[q].want),
           \A b \in Bufs : Holds(q, b) =>
              /\ buf'[b].cnt = buf[b].cnt
              /\ "DONE" \in buf'[b].flags => "DONE" \in buf[b].flags \/ b \in io
    PROVE  FreshOK(q)'
<1>1. proc[q] \in Process /\ RegsOK(proc[q]) /\ Settled(q)
  BY View
<1>2. proc[q].bp # None => proc[q].bp \in Bufs /\ Holds(q, proc[q].bp)
  BY <1>1 DEF Process, Holds
<1> QED
  BY <1>1, <1>2 DEF FreshOK, Is, RegsOK, Settled, Fresh

LEMMA FreshStep ==
    ASSUME IInv, IInv', Shapes, NEW p \in Procs, Step(p)
    PROVE  FreshOK(p)'
<1>1. /\ proc[p] \in Process /\ RegsOK(proc[p]) /\ PathOK(proc[p]) /\ FreshOK(p)
  BY View DEF Shapes, Paths
<1>2. proc \in [Procs -> Process] /\ buf \in [Bufs -> Buffer]
  BY View DEF TypeOK
<1>3. RegsOK(proc'[p])
  BY DEF IInv, ProcInv
<1> USE DEF FreshOK, Is, Fresh
<1>4. CASE Getblk(p)
  <2>1. proc[p].op \in Fresh /\ proc[p].pc = "brealloc" =>
           ~(buf[proc[p].bp].cnt > proc[p].want.size)
    <3>1. proc[p].op \in Fresh => proc[p].want.size \in Nat \ {0}
      BY <1>1, BufferCacheAssumption DEF PathOK, FileExtent, Process, Extent
    <3> QED BY <1>1, <3>1
  <2>2. proc[p].bp # None => proc[p].bp \in Bufs /\ buf[proc[p].bp].queue = "out"
    BY <1>1, HeldUnique DEF Holds, Process
  <2>3. CASE AllocbufGive(p)
    BY <1>1, <2>2, <2>3, GiveSets DEF RegsOK
  <2>4. CASE AllocbufTake(p)
    BY <1>1, <2>2, <2>4, TakeSets DEF RegsOK
  <2>5. CASE OverlapClean(p)
    <3>1. PICK e \in Bufs : /\ e # proc[p].bp
                            /\ buf' = [buf EXCEPT ![e] = Released(Invalidated(@))]
      BY <2>5 DEF OverlapClean, Rivals, Overlapping
    <3>2. proc' = proc /\ proc[p].pc = "overlap"
      BY <2>5 DEF OverlapClean, Running
    <3>3. proc[p].bp # None => buf'[proc[p].bp] = buf[proc[p].bp]
      BY <1>2, <2>2, <3>1
    <3> QED BY <1>1, <1>2, <2>2, <3>2, <3>3
  <2>6. CASE GetblkBusy(p)
    BY <1>1, <1>2, <2>6 DEF GetblkBusy, WaitFor, Running
  <2>7. CASE OverlapBusy(p)
    BY <1>1, <1>2, <2>7 DEF OverlapBusy, WaitFor, Rivals, Running
  <2>8. CASE GetnewbufNone(p)
    BY <1>1, <1>2, <2>8 DEF GetnewbufNone, Running
  <2>9. CASE GetnewbufDirty(p)
    BY <1>1, <1>2, <2>9, <2>2 DEF GetnewbufDirty, FlushAsync, Running
  <2>10. CASE GetblkHit(p)
    BY <1>1, <1>2, <2>10 DEF GetblkHit, Goto, Process, Running
  <2>11. CASE GetblkMiss(p)
    BY <1>1, <1>2, <2>11 DEF GetblkMiss, Goto, Process, Running
  <2>12. CASE GetnewbufClean(p)
    BY <1>1, <1>2, <2>12
    DEF GetnewbufClean, Goto, Process, Renamed, Buffer, Running
  <2>13. CASE BreallocSame(p)
    BY <1>1, <1>2, <2>13, <2>1
    DEF BreallocSame, RegsOK, Goto, Process, Buffer, Running
  <2>14. CASE BreallocDirty(p)
    BY <1>1, <1>2, <2>14, <2>1
    DEF BreallocDirty, RegsOK, Goto, Process, Buffer, Running
  <2>15. CASE BreallocShrink(p)
    BY <1>1, <1>2, <2>15, <2>1
    DEF BreallocShrink, RegsOK, Goto, Process, Buffer, Running
  <2>16. CASE BreallocGrow(p)
    BY <1>1, <1>2, <2>16, <2>1
    DEF BreallocGrow, RegsOK, Goto, Process, Buffer, Running
  <2>17. CASE OverlapNone(p)
    BY <1>1, <1>2, <2>17, <2>1
    DEF OverlapNone, RegsOK, Goto, Process, Buffer, Running
  <2>18. CASE AllocbufFits(p)
    BY <1>1, <1>2, <2>18
    DEF AllocbufFits, RegsOK, Goto, Process, Buffer, Resized, Running
  <2>19. CASE AllocbufMore(p)
    BY <1>1, <1>2, <2>19
    DEF AllocbufMore, RegsOK, Goto, Process, Buffer, Resized, Running
  <2>20. CASE OverlapDirty(p)
    BY <1>1, <1>2, <2>20
    DEF OverlapDirty, Rivals, Overlapping, FlushSync, Goto, Process, Running
  <2> QED
    BY <1>4, <2>6, <2>7, <2>8, <2>9, <2>10, <2>11, <2>12, <2>13, <2>14, <2>15,
       <2>16, <2>17, <2>18, <2>19, <2>20, <2>3, <2>4, <2>5
    DEF Getblk
<1>5. CASE Got(p)
  <2>1. CASE WriteDone(p)
    <3>1. buf' = [buf EXCEPT ![proc[p].ep] = Released(@)]
      BY <2>1 DEF WriteDone
    <3>2. \A b \in Bufs \ {proc[p].ep} : buf'[b] = buf[b]
      BY <1>2, <3>1
    <3>3. proc[p].bp # None => proc[p].bp \in Bufs \ {proc[p].ep}
      BY <1>1, View DEF Distinct, Process
    <3>4. CASE proc[p].ret = "user"
      BY <2>1, <3>4, WriteDoneMoves DEF Idle, Empty
    <3>5. CASE proc[p].ret # "user"
      BY <1>1, <2>1, <3>2, <3>3, <3>5, WriteDoneMoves
    <3> QED BY <3>4, <3>5
  <2>2. CASE GotCached(p)
    BY <1>1, <1>2, <2>2
    DEF GotCached, RegsOK, AheadOver, Goto, Process, Running
  <2>3. CASE GotUncached(p)
    BY <1>1, <1>2, <2>3
    DEF GotUncached, RegsOK, AheadOver, Goto, Process, Running
  <2>4. CASE GotAhead(p)
    BY <1>1, <1>2, <2>4
    DEF GotAhead, RegsOK, AheadOver, Goto, Process, Running
  <2>5. CASE GotBlank(p)
    BY <1>1, <1>2, <2>5
    DEF GotBlank, RegsOK, AheadOver, Goto, Process, Running
  <2>6. CASE GotExtended(p)
    BY <1>1, <1>2, <2>6
    DEF GotExtended, RegsOK, AheadOver, Goto, Process, Running
  <2>7. CASE GotCopy(p)
    BY <1>1, <1>2, <2>7 DEF GotCopy, RegsOK, AheadOver, Goto, Process, Running
  <2>8. CASE BreadaFinish(p)
    BY <1>1, <1>2, <2>8
    DEF BreadaFinish, RegsOK, AheadOver, Goto, Process, Running
  <2>9. CASE BreadaFirst(p)
    BY <1>1, <1>2, <2>9
    DEF BreadaFirst, RegsOK, Cached, Goto, Process, Running
  <2>10. CASE BreadaAhead(p)
    BY <1>1, <1>2, <2>10
    DEF BreadaAhead, RegsOK, Cached, Goto, Process, Running
  <2>11. CASE Biowait(p)
    BY <1>1, <1>2, <2>11 DEF Biowait, Running
  <2>12. CASE ReadDone(p)
    BY <1>1, <1>2, <2>12, ReadDoneMoves DEF ReadDone, Running
  <2> QED
    BY <1>5, <2>2, <2>3, <2>4, <2>5, <2>6, <2>7, <2>8, <2>9, <2>10, <2>11,
       <2>12, <2>1
    DEF Got
<1>6. CASE Finish(p)
  <2>1. CASE Brelse(p)
    BY <1>1, <1>2, <2>1 DEF Brelse, Leave, Idle, Empty, Running
  <2>2. CASE BflushReturn(p)
    BY <1>1, <1>2, <2>2 DEF BflushReturn, Leave, Idle, Empty, Running
  <2>3. CASE BlkflushReturn(p)
    BY <1>1, <1>2, <2>3 DEF BlkflushReturn, Leave, Idle, Empty, Running
  <2>4. CASE Bdwrite(p)
    BY <1>1, <1>2, <2>4 DEF Bdwrite, Changing, Leave, Idle, Empty, Running
  <2>5. CASE Bawrite(p)
    BY <1>1, <1>2, <2>5 DEF Bawrite, Changing, Leave, Idle, Empty, Running
  <2>6. CASE Bwrite(p)
    BY <1>1, <1>2, <2>6 DEF Bwrite, PathOK, Changing, Goto, Process, Running
  <2>7. CASE BflushWrite(p)
    BY <1>1, <1>2, <2>7 DEF BflushWrite, PathOK, FlushAsync, Running
  <2>8. CASE BlkflushBusy(p)
    BY <1>1, <1>2, <2>8 DEF BlkflushBusy, PathOK, WaitFor, Running
  <2>9. CASE BlkflushDirty(p)
    BY <1>1, <1>2, <2>9
    DEF BlkflushDirty, PathOK, FlushSync, Goto, Process, Running
  <2> QED
    BY <1>6, <2>1, <2>2, <2>3, <2>4, <2>5, <2>6, <2>7, <2>8, <2>9 DEF Finish
<1> QED BY <1>4, <1>5, <1>6 DEF Step

\* The interrupt, on the buffer of the transfer.
LEMMA BiodoneSets ==
    ASSUME IInv, NEW b \in Bufs, NEW err \in BOOLEAN, Biodone(b, err)
    PROVE  LET s == buf'[b]
               after == buf[b].flags \cup {"DONE"} \cup (IF err THEN {"ERROR"} ELSE {})
           IN  /\ b \in io /\ io' = io \ {b} /\ UNCHANGED <<proc, live, cpu>>
               /\ \A c \in Bufs \ {b} : buf'[c] = buf[c]
               /\ s.cnt = buf[b].cnt /\ s.mem = buf[b].mem
               /\ IF Is(b, "ASYNC")
                  THEN /\ s.flags = after \ {"WANTED", "BUSY", "ASYNC"}
                       /\ s.blk = IF "ERROR" \in after THEN NODEV ELSE buf[b].blk
                       /\ s.queue = IF s.mem = 0 THEN "empty" ELSE "free"
                       /\ ReleaseWakeups(b)
                  ELSE /\ s.flags = after \ {"WANTED"}
                       /\ s.blk = buf[b].blk /\ s.queue = buf[b].queue
                       /\ Wakeup({b}) /\ fwant' = fwant
               /\ s.cur = IF "READ" \in buf[b].flags
                          THEN IF err THEN {} ELSE dcur \cap BufFrags(buf[b])
                          ELSE buf[b].cur
<1> DEFINE done == Completed(buf[b], err)
           after == buf[b].flags \cup {"DONE"} \cup (IF err THEN {"ERROR"} ELSE {})
<1>1. buf \in [Bufs -> Buffer] /\ buf[b] \in Buffer
  BY DEF IInv, TypeOK
<1>2. /\ done.blk = buf[b].blk /\ done.cnt = buf[b].cnt /\ done.mem = buf[b].mem
      /\ done.queue = buf[b].queue /\ done.flags = after
      /\ done.cur = IF "READ" \in buf[b].flags
                    THEN IF err THEN {} ELSE dcur \cap BufFrags(buf[b])
                    ELSE buf[b].cur
  <2> HIDE DEF BufFrags
  <2> QED BY <1>1 DEF Completed, ReadInto, Buffer
<1>3. done \in Buffer
  BY <1>1, CompletedType DEF IInv, TypeOK
<1> HIDE DEF done
<1>4. CASE Is(b, "ASYNC")
  <2>1. buf' = [buf EXCEPT ![b] = Released(done)] /\ ReleaseWakeups(b)
    BY <1>4, Zenon DEF Biodone, done
  <2>2. buf'[b] = Released(done) /\ \A c \in Bufs \ {b} : buf'[c] = buf[c]
    BY <1>1, <2>1
  <2>3. /\ buf'[b].cnt = done.cnt /\ buf'[b].mem = done.mem
        /\ buf'[b].cur = done.cur
        /\ buf'[b].flags = done.flags \ {"WANTED", "BUSY", "ASYNC"}
        /\ buf'[b].blk = IF "ERROR" \in done.flags THEN NODEV ELSE done.blk
        /\ buf'[b].queue = IF done.mem = 0 THEN "empty" ELSE "free"
    BY <1>3, <2>2 DEF Released, Buffer
  <2> QED
    BY <1>2, <1>4, <2>1, <2>2, <2>3 DEF Biodone
<1>5. CASE ~Is(b, "ASYNC")
  <2>1. buf' = [buf EXCEPT ![b] = Answered(done)] /\ Wakeup({b}) /\ fwant' = fwant
    BY <1>5, Zenon DEF Biodone, done
  <2>2. buf'[b] = Answered(done) /\ \A c \in Bufs \ {b} : buf'[c] = buf[c]
    BY <1>1, <2>1
  <2>3. /\ buf'[b].cnt = done.cnt /\ buf'[b].mem = done.mem
        /\ buf'[b].cur = done.cur /\ buf'[b].blk = done.blk
        /\ buf'[b].flags = done.flags \ {"WANTED"}
        /\ buf'[b].queue = done.queue
    BY <1>3, <2>2 DEF Answered, Buffer
  <2> QED
    BY <1>2, <1>5, <2>1, <2>2, <2>3 DEF Biodone
<1> QED BY <1>4, <1>5

LEMMA InitShapes == Init => Shapes
  BY DEF Init, Shapes, Paths, PathOK, NamedOK, FreshOK, Fresh, Paired, Idle, Empty

LEMMA ShapesAct ==
    ASSUME IInv, IInv', Shapes, NEW p \in Procs, Act(p)
    PROVE  Shapes'
<1> DEFINE Fits(q) == PathOK(proc[q]) /\ NamedOK(q) /\ FreshOK(q)
<1>1. \A q \in Procs : Fits(q)
  BY DEF Shapes, Paths
<1>2. Fits(p)'
  <2>1. CASE Call(p)
    BY <2>1, CallPath, NamedCall
  <2>2. CASE Dispatch(p) \/ Pause(p)
    <3>1. buf' = buf /\ proc' = proc /\ Fits(p)
      BY <1>1, <2>2 DEF Dispatch, Pause
    <3>2. proc[p].op \in Fresh => proc[p].pc # "getblk"
      BY <2>2, <3>1, NoneIsNoBuffer DEF FreshOK, Dispatch, Pause, Running
    <3>3. NamedOK(p)'
      BY <3>1 DEF NamedOK, Exact, Names, FirstExtent, Is
    <3>4. FreshOK(p)'
      BY <3>1, <3>2 DEF FreshOK, Fresh, Is
    <3> QED BY <3>1, <3>3, <3>4
  <2>3. CASE Step(p)
    <3>1. PathOK(proc'[p])
      BY <2>3, StepPath DEF Shapes
    <3>2. NamedOK(p)'
      BY <2>3, NamedGetblk, NamedGot, NamedFinish DEF Step
    <3>3. FreshOK(p)'
      BY <2>3, FreshStep
    <3> QED BY <3>1, <3>2, <3>3
  <2> QED BY <2>1, <2>2, <2>3 DEF Act
<1>3. ASSUME NEW q \in Procs \ {p} PROVE Fits(q)'
  <2>1. proc'[q] = proc[q] /\ cpu # q
    BY ActsAlone, NoneIsNoBuffer
  <2>2. ASSUME NEW b \in Bufs, Holds(q, b) PROVE Kept(b)
    BY <2>2, HeldUnique, OthersKept DEF Free
  <2>3. NamedOK(q)'
    BY <1>1, <2>1, <2>2, NamedKept DEF Kept
  <2>4. FreshOK(q)'
    BY <1>1, <2>1, <2>2, FreshKept DEF Kept
  <2> QED BY <1>1, <2>1, <2>3, <2>4
<1> QED BY <1>2, <1>3 DEF Shapes, Paths

LEMMA ShapesBiodone ==
    ASSUME IInv, Shapes, NEW b \in Bufs, NEW err \in BOOLEAN, Biodone(b, err)
    PROVE  Shapes'
<1>1. proc' = proc /\ cpu' = cpu
  BY BiodoneSets
<1> SUFFICES ASSUME NEW q \in Procs PROVE NamedOK(q)' /\ FreshOK(q)'
  BY <1>1 DEF Shapes, Paths
<1>2. PathOK(proc[q]) /\ NamedOK(q) /\ FreshOK(q)
  BY DEF Shapes, Paths
<1>3. ASSUME NEW c \in Bufs, Holds(q, c)
      PROVE  /\ buf'[c].blk = buf[c].blk /\ buf'[c].cnt = buf[c].cnt
             /\ "INVAL" \in buf'[c].flags <=> "INVAL" \in buf[c].flags
             /\ "DONE" \in buf'[c].flags => "DONE" \in buf[c].flags \/ c \in io
  <2>1. ~Is(c, "ASYNC")
    BY <1>3 DEF IInv, HoldInv, HeldOK
  <2>2. CASE c = b
    <3>1. /\ buf'[b].blk = buf[b].blk /\ buf'[b].cnt = buf[b].cnt /\ b \in io
          /\ buf'[b].flags = (buf[b].flags \cup {"DONE"}
                \cup (IF err THEN {"ERROR"} ELSE {})) \ {"WANTED"}
      BY <2>1, <2>2, BiodoneSets
    <3> QED BY <2>2, <3>1
  <2>3. CASE c # b
    BY <2>3, BiodoneSets
  <2> QED BY <2>2, <2>3
<1>4. NamedOK(q)'
  BY <1>1, <1>2, <1>3, NamedKept
<1>5. ASSUME proc[q].op \in {"reada", "ahead"}
      PROVE  Cached(proc[q].want)' \subseteq Cached(proc[q].want)
  <2>1. proc[q].want.start # NODEV
    BY <1>2, <1>5 DEF PathOK, FileExtent, Addr, NODEV
  <2> QED BY <1>1, <2>1, BiodoneSets DEF Cached, Is
<1>6. FreshOK(q)'
  BY <1>1, <1>2, <1>3, <1>5, FreshKept
<1> QED BY <1>4, <1>6

LEMMA ShapesInv ==
    ASSUME IInv, IInv', Shapes, [Next]_vars
    PROVE  Shapes'
<1>1. ASSUME NEW p \in Procs, Act(p) PROVE Shapes'
  BY <1>1, ShapesAct
<1>2. ASSUME UNCHANGED <<buf, proc, cpu>> PROVE Shapes'
  BY <1>2 DEF Shapes, Paths, NamedOK, FreshOK, Exact, Names, FirstExtent, Is,
              Cached
<1>3. ASSUME NEW b \in Bufs, NEW err \in IOErrors, Biodone(b, err) PROVE Shapes'
  BY <1>3, ShapesBiodone, BufferCacheAssumption
<1> QED BY <1>1, <1>2, <1>3 DEF Next, Act, FreeExtent, vars

\* After incore has said no, getblk never gives breada a buffer that has its
\* contents, for any number of processes and buffers, sizes and device errors:
\* the branches of breada for B_DONE are never taken (ufs_bio.c:72-73, 80-83).
THEOREM BreadaAlwaysMisses == Spec => []BreadaMisses
<1>1. IInv /\ Shapes => BreadaMisses
  <2> SUFFICES ASSUME IInv, Shapes, NEW p \in Procs,
                      proc[p].pc = "got", proc[p].op \in {"reada", "ahead"}
               PROVE  ~Is(proc[p].bp, "DONE")
    BY DEF BreadaMisses
  <2> QED BY View DEF Shapes, FreshOK, Fresh, RegsOK
<1>2. IInv /\ Shapes /\ [Next]_vars => Shapes'
  BY NextInv, ShapesInv
<1> QED
  BY <1>1, <1>2, InitShapes, Inductive, PTL DEF Spec

------------------------------------------------------------------------------
(* What a step of p may do to a buffer, field by field. *)

Carries(b, queue, flags) ==
    /\ buf'[b].blk = buf[b].blk /\ buf'[b].cnt = buf[b].cnt
    /\ buf'[b].mem = buf[b].mem /\ buf'[b].queue = queue
    /\ buf'[b].flags = flags

SameIO(b) == b \in io' <=> b \in io

Passed(p, b) ==
    /\ Kept(b)
    /\ \/ buf'[b].cur = buf[b].cur
       \/ /\ Changing(p) /\ b # proc[p].bp
          /\ buf'[b].cur = buf[b].cur \ BufFrags(buf[proc[p].bp])

Found(p, b) ==
    /\ proc[p].pc = "getblk" /\ b \in Cached(proc[p].want) /\ Free(b)
    /\ Carries(b, "out", buf[b].flags \cup {"BUSY"}) /\ SameIO(b)
    /\ buf'[b].cur = buf[b].cur
    /\ proc'[p].bp = b /\ proc'[p].pc = "brealloc"

Clean == {"READ", "DONE", "ERROR", "DELWRI"}

Flushed(p, b) ==
    /\ Is(b, "DELWRI")
    /\ \/ Free(b)
       \/ proc[p].pc = "brealloc" /\ b = proc[p].bp
    /\ \E async \in SUBSET {"ASYNC"} :
          Carries(b, "out", ((buf[b].flags \cup {"BUSY"}) \ Clean) \cup async)
    /\ b \in io' /\ buf'[b].cur = buf[b].cur

Updated(p, b) ==
    /\ Changing(p) /\ b = proc[p].bp
    /\ \E async \in SUBSET {"ASYNC"} :
          Carries(b, "out", (buf[b].flags \ Clean) \cup async)
    /\ b \in io' /\ buf'[b].cur = BufFrags(buf[b])

Claimed(p, b) ==
    /\ proc[p].pc = "getnewbuf" /\ proc[p].bp = None
    /\ Free(b) /\ buf[b].queue = "free" /\ ~Is(b, "DELWRI") /\ SameIO(b)
    /\ buf'[b].blk = proc[p].want.start /\ buf'[b].cnt = 0
    /\ buf'[b].mem = buf[b].mem /\ buf'[b].queue = "out" /\ buf'[b].cur = {}
    /\ buf'[b].flags = IF proc[p].op = "anon" THEN {"BUSY", "INVAL"}
                       ELSE {"BUSY"}
    /\ proc'[p].bp = b /\ proc'[p].pc = "brealloc"

Opened(p, b) ==
    /\ proc[p].pc = "brealloc" /\ b = proc[p].bp
    /\ buf[b].cnt < proc[p].want.size
    /\ Carries(b, buf[b].queue, buf[b].flags \ {"DONE"}) /\ SameIO(b)
    /\ buf'[b].cur = buf[b].cur

OnList(b) == buf'[b].queue = IF buf'[b].mem = 0 THEN "empty" ELSE "free"

Dropped(p, b) ==
    /\ proc[p].pc = "overlap" /\ b \in Rivals(p) /\ Free(b) /\ ~Is(b, "DELWRI")
    /\ buf'[b].cnt = buf[b].cnt /\ buf'[b].mem = buf[b].mem /\ OnList(b)
    /\ buf'[b].blk = IF Is(b, "ERROR") THEN NODEV ELSE buf[b].blk
    /\ buf'[b].flags = (buf[b].flags \cup {"INVAL"}) \ {"WANTED", "BUSY", "ASYNC"}
    /\ SameIO(b) /\ buf'[b].cur = buf[b].cur

Fitted(p, b) ==
    LET size == proc[p].want.size
    IN  /\ proc[p].pc = "allocbuf" /\ b = proc[p].bp
        /\ size <= buf[b].mem
        /\ \/ buf'[b].mem = buf[b].mem
           \/ AllocbufGive(p) /\ buf'[b].mem = size
        /\ buf'[b].blk = buf[b].blk /\ buf'[b].cnt = size
        /\ buf'[b].flags = buf[b].flags /\ buf'[b].queue = buf[b].queue
        /\ SameIO(b) /\ buf'[b].cur = buf[b].cur \cap Frags(buf[b].blk, size)

Given(p, b) ==
    /\ AllocbufGive(p) /\ buf[b].queue = "empty"
    /\ buf'[b].blk \in {buf[b].blk, NODEV}
    /\ Is(b, "ERROR") => buf'[b].blk = NODEV
    /\ buf'[b].cnt = 0 /\ buf'[b].mem \in 0 .. BlockFrags /\ OnList(b)
    /\ buf'[b].flags = (buf[b].flags \cup {"INVAL"}) \ {"WANTED", "BUSY", "ASYNC"}
    /\ SameIO(b) /\ buf'[b].cur = {}

Enlarged(p, b) ==
    /\ AllocbufTake(p) /\ b = proc[p].bp
    /\ buf[b].mem < proc[p].want.size
    /\ buf[b].mem <= buf'[b].mem
    /\ buf'[b].blk = buf[b].blk /\ buf'[b].cnt = buf[b].cnt
    /\ buf'[b].queue = buf[b].queue /\ buf'[b].flags = buf[b].flags
    /\ SameIO(b) /\ buf'[b].cur = buf[b].cur

Robbing(p, b) ==
    /\ AllocbufTake(p) /\ b # proc[p].bp
    /\ buf[proc[p].bp].mem < proc[p].want.size
    /\ buf[b].queue = "free" /\ ~Is(b, "DELWRI")
    /\ buf'[b].blk \in {buf[b].blk, NODEV}
    /\ buf'[b].mem \in 0 .. buf[b].mem /\ buf'[b].cnt \in 0 .. buf'[b].mem
    /\ buf'[b].flags \in SUBSET {"INVAL"}
    /\ OnList(b) /\ SameIO(b)

Fetched(p, b) ==
    /\ proc[p].pc = "got" /\ b = proc[p].bp /\ ~Is(b, "DONE")
    /\ proc[p].op \in {"read", "extend", "move", "reada", "ahead"}
    /\ \E async \in SUBSET {"ASYNC"} :
          Carries(b, buf[b].queue, buf[b].flags \cup {"READ"} \cup async)
    /\ b \in io' /\ buf'[b].cur = buf[b].cur

Completing(p, b) ==
    /\ proc[p].pc = "got" /\ b = proc[p].bp /\ proc[p].op = "extended"
    /\ Carries(b, buf[b].queue, buf[b].flags \cup {"DONE"}) /\ SameIO(b)
    /\ buf'[b].cur = buf[b].cur

Returned(p, b) ==
    /\ \/ proc[p].pc = "got" /\ proc[p].op = "copy" /\ b = proc[p].first
       \/ proc[p].pc = "bwrite" /\ b = proc[p].ep /\ Is(b, "DONE")
       \/ /\ proc[p].pc = "hold" /\ b = proc[p].bp
          /\ proc[p].op \in {"read", "anon"} \/ Is(b, "ERROR")
    /\ buf'[b].cnt = buf[b].cnt /\ buf'[b].mem = buf[b].mem /\ OnList(b)
    /\ buf'[b].blk = IF Is(b, "ERROR") THEN NODEV ELSE buf[b].blk
    /\ buf'[b].flags = buf[b].flags \ {"WANTED", "BUSY", "ASYNC"}
    /\ SameIO(b) /\ buf'[b].cur = buf[b].cur

Put(p, b) ==
    /\ Changing(p) /\ b = proc[p].bp
    /\ buf'[b].blk = buf[b].blk /\ buf'[b].cnt = buf[b].cnt
    /\ buf'[b].mem = buf[b].mem /\ OnList(b)
    /\ buf'[b].flags = (buf[b].flags \cup {"DELWRI", "DONE"})
                          \ {"WANTED", "BUSY", "ASYNC"}
    /\ SameIO(b) /\ buf'[b].cur = BufFrags(buf[b])

Touched(p, b) ==
    \/ Passed(p, b) \/ Found(p, b) \/ Flushed(p, b) \/ Updated(p, b)
    \/ Claimed(p, b) \/ Opened(p, b) \/ Dropped(p, b) \/ Fitted(p, b)
    \/ Given(p, b) \/ Enlarged(p, b) \/ Robbing(p, b) \/ Fetched(p, b)
    \/ Completing(p, b) \/ Returned(p, b) \/ Put(p, b)

LEMMA FlushTouches ==
    ASSUME IInv, NEW p \in Procs, NEW e \in Bufs, NEW b \in Bufs,
           \/ FlushAsync(p, e)
           \/ FlushSync(p, e, "overlap") \/ FlushSync(p, e, "blkflush"),
           Free(e), Is(e, "DELWRI")
    PROVE  Passed(p, b) \/ Flushed(p, b)
<1>1. buf \in [Bufs -> Buffer]
  BY View DEF TypeOK
<1>2. CASE b # e
  BY <1>1, <1>2, FlushKept DEF Passed, FlushAsync, FlushSync
<1>3. ASSUME NEW r \in Buffer
      PROVE  LET s == Written(Taken(r))
             IN  /\ s.blk = r.blk /\ s.cnt = r.cnt /\ s.mem = r.mem
                 /\ s.queue = "out" /\ s.cur = r.cur
                 /\ s.flags = (r.flags \cup {"BUSY"}) \ Clean
                 /\ s \in Buffer
  BY <1>3, TakenType, WrittenType DEF Written, Taken, Clean, Buffer
<1>4. CASE b = e
  <2> DEFINE s == Written(Taken(buf[b]))
  <2>0. buf[b] \in Buffer
    BY <1>1
  <2>1. /\ s.blk = buf[b].blk /\ s.cnt = buf[b].cnt /\ s.mem = buf[b].mem
        /\ s.queue = "out" /\ s.cur = buf[b].cur
        /\ s.flags = (buf[b].flags \cup {"BUSY"}) \ Clean
        /\ s \in Buffer
    BY <1>3, <2>0
  <2>2. /\ buf'[b] = s \/ buf'[b] = [s EXCEPT !.flags = @ \cup {"ASYNC"}]
        /\ b \in io'
    BY <1>1, <1>4 DEF FlushAsync, FlushSync, AsyncWritten
  <2> HIDE DEF s
  <2>3. CASE buf'[b] = s
    <3>1. buf'[b].flags = ((buf[b].flags \cup {"BUSY"}) \ Clean) \cup {}
      BY <2>1, <2>3
    <3>2. {} \in SUBSET {"ASYNC"}
      OBVIOUS
    <3> QED BY <1>4, <2>1, <2>2, <2>3, <3>1, <3>2 DEF Flushed, Carries
  <2>4. CASE buf'[b] = [s EXCEPT !.flags = @ \cup {"ASYNC"}]
    <3>1. /\ buf'[b].blk = s.blk /\ buf'[b].cnt = s.cnt /\ buf'[b].mem = s.mem
          /\ buf'[b].queue = s.queue /\ buf'[b].cur = s.cur
          /\ buf'[b].flags = s.flags \cup {"ASYNC"}
      BY <2>1, <2>4 DEF Buffer
    <3>2. {"ASYNC"} \in SUBSET {"ASYNC"}
      OBVIOUS
    <3> QED BY <1>4, <2>1, <2>2, <3>1, <3>2 DEF Flushed, Carries
  <2> QED BY <2>2, <2>3, <2>4
<1> QED BY <1>2, <1>4

LEMMA GetblkTouches ==
    ASSUME IInv, Shapes, NEW p \in Procs, NEW b \in Bufs, Getblk(p)
    PROVE  Touched(p, b)
<1>0. proc[p] \in Process /\ RegsOK(proc[p])
  BY View
<1>1. proc \in [Procs -> Process] /\ buf \in [Bufs -> Buffer] /\ buf[b] \in Buffer
  BY View DEF TypeOK
<1>2. ASSUME buf' = buf, io' = io PROVE Passed(p, b)
  BY <1>2 DEF Passed, Kept
<1>3. ASSUME NEW e \in Bufs, WaitFor(p, e) PROVE Passed(p, b)
  BY <1>1, <1>3 DEF WaitFor, Passed, Kept, Buffer
<1>4. ASSUME buf'[b] = buf[b], io' = io PROVE Passed(p, b)
  BY <1>4 DEF Passed, Kept
<1>5. \A e \in Bufs : ~Is(e, "BUSY") => Free(e)
  BY NotBusyFree
<1>6. proc[p].pc \in {"brealloc", "overlap", "allocbuf"} =>
         proc[p].bp \in Bufs /\ buf[proc[p].bp].queue = "out"
  BY <1>0, HeldUnique DEF Holds, Process, RegsOK
<1>7. CASE AllocbufGive(p)
  <2>1. PICK e \in Bufs \ {proc[p].bp} :
          /\ buf[e].queue = "empty"
          /\ buf'[e].cnt = 0 /\ buf'[e].mem = buf[proc[p].bp].mem - proc[p].want.size
          /\ buf'[e].flags = (buf[e].flags \cup {"INVAL"}) \ {"WANTED", "BUSY", "ASYNC"}
          /\ buf'[e].blk \in {buf[e].blk, NODEV}
          /\ "ERROR" \in buf[e].flags => buf'[e].blk = NODEV
          /\ buf'[e].queue = IF buf'[e].mem = 0 THEN "empty" ELSE "free"
          /\ buf'[e].cur = {}
          /\ \A c \in Bufs \ {proc[p].bp, e} : buf'[c] = buf[c]
    BY <1>7, GiveSets
  <2>2. io' = io
    BY <1>7 DEF AllocbufGive
  <2>3. CASE b = proc[p].bp
    <3>1. /\ buf'[b].blk = buf[b].blk /\ buf'[b].cnt = proc[p].want.size
          /\ buf'[b].mem = proc[p].want.size /\ buf'[b].flags = buf[b].flags
          /\ buf'[b].queue = "out" /\ buf[b].mem > proc[p].want.size
          /\ proc[p].pc = "allocbuf"
      BY <1>7, <2>3, GiveSets
    <3>2. buf'[b] = [Resized(buf[b], proc[p].want.size) EXCEPT
                        !.mem = proc[p].want.size]
      BY <1>1, <1>6, <1>7, <2>3, <3>1 DEF AllocbufGive
    <3>3. buf'[b].cur = buf[b].cur \cap Frags(buf[b].blk, proc[p].want.size)
      <4> HIDE DEF Frags
      <4> QED BY <1>1, <3>2 DEF Resized, Buffer
    <3>4. buf[b].queue = "out" /\ proc[p].want.size <= buf[b].mem
      BY <1>1, <1>6, <1>0, <2>3, <3>1, BufferCacheAssumption DEF Buffer, Process, Extent
    <3> QED BY <1>7, <2>2, <2>3, <3>1, <3>3, <3>4 DEF Fitted, SameIO, Touched
  <2>4. CASE b = e
    <3>1. buf'[b].mem \in 0 .. BlockFrags
      <4>1. buf[proc[p].bp] \in Buffer /\ proc[p].want.size \in 0 .. BlockFrags
            /\ buf[proc[p].bp].mem > proc[p].want.size
        BY <1>0, <1>1, <1>6, <1>7, GiveSets DEF Process, Extent
      <4>2. buf[proc[p].bp].mem \in 0 .. BlockFrags
        BY <4>1 DEF Buffer
      <4> QED BY <2>1, <2>4, <4>1, <4>2, BufferCacheAssumption
    <3> QED BY <1>7, <2>1, <2>2, <2>4, <3>1, GiveSets DEF Given, SameIO, OnList, Is, Touched
  <2>5. CASE b \notin {proc[p].bp, e}
    BY <1>4, <2>1, <2>2, <2>5 DEF Touched
  <2> QED BY <2>3, <2>4, <2>5
<1>8. CASE AllocbufTake(p)
  <2>0. /\ proc[p].bp \in Bufs /\ proc[p].pc = "getnewbuf"
        /\ buf[proc[p].bp].queue = "out"
        /\ buf[proc[p].bp].mem < proc[p].want.size
    BY <1>8, TakeSets, HeldUnique DEF Holds
  <2>7. PICK e \in Bufs \ {proc[p].bp} : \E take \in 0 .. buf[e].mem :
          /\ buf[e].queue = "free" /\ "DELWRI" \notin buf[e].flags
          /\ buf'[proc[p].bp].mem = buf[proc[p].bp].mem + take
          /\ buf'[e].mem = buf[e].mem - take
          /\ buf'[e].cnt \in 0 .. buf'[e].mem
          /\ buf'[e].flags \in SUBSET {"INVAL"}
          /\ buf'[e].blk \in {buf[e].blk, NODEV}
          /\ buf'[e].queue = IF buf'[e].mem = 0 THEN "empty" ELSE "free"
          /\ \A c \in Bufs \ {proc[p].bp, e} : buf'[c] = buf[c]
    BY <1>8, TakeSets
  <2>1. PICK take \in 0 .. buf[e].mem :
          /\ buf[e].queue = "free" /\ "DELWRI" \notin buf[e].flags
          /\ buf'[proc[p].bp].mem = buf[proc[p].bp].mem + take
          /\ buf'[e].mem = buf[e].mem - take
          /\ buf'[e].cnt \in 0 .. buf'[e].mem
          /\ buf'[e].flags \in SUBSET {"INVAL"}
          /\ buf'[e].blk \in {buf[e].blk, NODEV}
          /\ buf'[e].queue = IF buf'[e].mem = 0 THEN "empty" ELSE "free"
          /\ \A c \in Bufs \ {proc[p].bp, e} : buf'[c] = buf[c]
    BY <2>7
  <2>2. io' = io
    BY <1>8 DEF AllocbufTake
  <2>6. buf[e].mem \in 0 .. BlockFrags /\ buf[proc[p].bp].mem \in 0 .. BlockFrags
    BY <1>1, <2>0 DEF Buffer
  <2>3. CASE b = proc[p].bp
    <3>1. buf[b].mem <= buf'[b].mem
      BY <2>1, <2>3, <2>6, BufferCacheAssumption
    <3> QED BY <1>8, <2>0, <2>2, <2>3, <3>1, TakeSets DEF Enlarged, SameIO, Touched
  <2>4. CASE b = e
    <3>1. buf'[b].mem \in 0 .. buf[b].mem
      BY <2>1, <2>4, <2>6, BufferCacheAssumption
    <3> QED BY <1>8, <2>0, <2>1, <2>2, <2>4, <3>1 DEF Robbing, SameIO, OnList, Is, Touched
  <2>5. CASE b \notin {proc[p].bp, e}
    BY <1>4, <2>1, <2>2, <2>5 DEF Touched
  <2> QED BY <2>3, <2>4, <2>5
<1>9. CASE AllocbufFits(p)
  <2> DEFINE size == proc[p].want.size
  <2>1. /\ buf' = [buf EXCEPT ![proc[p].bp] = Resized(@, size)]
        /\ proc[p].pc = "allocbuf" /\ io' = io
        /\ buf[proc[p].bp].mem = size \/ buf[proc[p].bp].mem > size
    BY <1>9 DEF AllocbufFits, Running
  <2>2. CASE b # proc[p].bp
    BY <1>1, <1>4, <2>1, <2>2 DEF Touched
  <2>3. CASE b = proc[p].bp
    <3>1. size <= buf[b].mem
      BY <1>0, <1>1, <2>1, <2>3, BufferCacheAssumption DEF Buffer, Process, Extent
    <3>2. buf'[b] = Resized(buf[b], size)
      BY <1>1, <1>6, <2>1, <2>3
    <3>3. /\ buf'[b].mem = buf[b].mem /\ buf'[b].blk = buf[b].blk
          /\ buf'[b].cnt = size /\ buf'[b].flags = buf[b].flags
          /\ buf'[b].queue = buf[b].queue
          /\ buf'[b].cur = buf[b].cur \cap Frags(buf[b].blk, size)
      <4> HIDE DEF Frags, size
      <4> QED BY <1>1, <3>2 DEF Resized, Buffer
    <3> QED BY <2>1, <2>3, <3>1, <3>3 DEF Fitted, SameIO, Touched
  <2> QED BY <2>2, <2>3
<1>10. CASE BreallocDirty(p)
  <2>1. /\ buf' = [buf EXCEPT ![proc[p].bp] = Written(@)]
        /\ io' = io \cup {proc[p].bp} /\ proc[p].pc = "brealloc"
        /\ Is(proc[p].bp, "DELWRI")
    BY <1>10 DEF BreallocDirty, Running
  <2>2. CASE b # proc[p].bp
    BY <1>1, <2>1, <2>2 DEF Touched, Passed, Kept
  <2>3. CASE b = proc[p].bp
    <3>1. "BUSY" \in buf[b].flags
      BY <1>6, <2>1, <2>3 DEF IInv, BufInv, FlagsOK, Free, Is
    <3>2. buf'[b] = Written(buf[b])
      BY <1>1, <1>6, <2>1, <2>3
    <3>3. Carries(b, "out", ((buf[b].flags \cup {"BUSY"}) \ Clean) \cup {})
          /\ buf'[b].cur = buf[b].cur
      BY <1>1, <1>6, <2>1, <2>3, <3>1, <3>2 DEF Carries, Written, Clean, Buffer
    <3>4. {} \in SUBSET {"ASYNC"}
      OBVIOUS
    <3> QED BY <2>1, <2>3, <3>3, <3>4 DEF Flushed, Touched
  <2> QED BY <2>2, <2>3
<1>11. CASE GetblkBusy(p)
  BY <1>0, <1>1, <1>2, <1>3, <1>4, <1>11 DEF GetblkBusy, Cached, Touched
<1>12. CASE OverlapBusy(p)
  BY <1>0, <1>1, <1>2, <1>3, <1>4, <1>12
  DEF OverlapBusy, Rivals, Overlapping, Touched
<1>13. CASE GetblkMiss(p)
  BY <1>0, <1>1, <1>2, <1>3, <1>4, <1>13 DEF GetblkMiss, Touched
<1>14. CASE GetnewbufNone(p)
  BY <1>0, <1>1, <1>2, <1>3, <1>4, <1>14 DEF GetnewbufNone, Touched
<1>15. CASE BreallocSame(p)
  BY <1>0, <1>1, <1>2, <1>3, <1>4, <1>15 DEF BreallocSame, Touched
<1>16. CASE BreallocShrink(p)
  BY <1>0, <1>1, <1>2, <1>3, <1>4, <1>16 DEF BreallocShrink, Touched
<1>17. CASE OverlapNone(p)
  BY <1>0, <1>1, <1>2, <1>3, <1>4, <1>17 DEF OverlapNone, Touched
<1>18. CASE AllocbufMore(p)
  BY <1>0, <1>1, <1>2, <1>3, <1>4, <1>18 DEF AllocbufMore, Touched
<1>19. CASE GetblkHit(p)
  BY <1>0, <1>1, <1>2, <1>3, <1>4, <1>19, <1>5
  DEF GetblkHit, Cached, Found, Carries, SameIO, Taken, Buffer, Goto, Process,
      Running, Touched
<1>20. CASE GetnewbufDirty(p)
  BY <1>0, <1>1, <1>2, <1>3, <1>4, <1>20, FlushTouches
  DEF GetnewbufDirty, Free, Touched
<1>21. CASE GetnewbufClean(p)
  BY <1>0, <1>1, <1>2, <1>3, <1>4, <1>21
  DEF GetnewbufClean, Claimed, SameIO, Renamed, Buffer, Free, Goto, Process,
      Running, Touched
<1>22. CASE OverlapDirty(p)
  BY <1>0, <1>1, <1>2, <1>3, <1>4, <1>22, <1>5, FlushTouches
  DEF OverlapDirty, Rivals, Overlapping, Touched
<1>23. CASE OverlapClean(p)
  BY <1>0, <1>1, <1>2, <1>3, <1>4, <1>23, <1>5
  DEF OverlapClean, Rivals, Overlapping, Dropped, SameIO, OnList, Released,
      Invalidated, Taken, Is, Running, Buffer, Touched
<1>24. CASE BreallocGrow(p)
  BY <1>0, <1>1, <1>2, <1>3, <1>4, <1>24, <1>6
  DEF BreallocGrow, Opened, Carries, SameIO, Buffer, Running, Touched
<1> QED
  BY Getblk(p), <1>11, <1>12, <1>13, <1>14, <1>15, <1>16, <1>17, <1>18, <1>19,
     <1>20, <1>21, <1>22, <1>23, <1>24, <1>7, <1>8, <1>9, <1>10
  DEF Getblk

LEMMA GotTouches ==
    ASSUME IInv, Shapes, NEW p \in Procs, NEW b \in Bufs, Got(p)
    PROVE  Touched(p, b)
<1>0. proc[p] \in Process /\ RegsOK(proc[p])
  BY View
<1>1. proc \in [Procs -> Process] /\ buf \in [Bufs -> Buffer] /\ buf[b] \in Buffer
  BY View DEF TypeOK
<1>2. ASSUME buf'[b] = buf[b], SameIO(b)
      PROVE  Touched(p, b)
  BY <1>2 DEF Touched, Passed, Kept, SameIO
<1>3. ASSUME NEW c \in Bufs,
             \/ proc[p].pc = "got" /\ proc[p].op = "copy" /\ c = proc[p].first
             \/ proc[p].pc = "bwrite" /\ c = proc[p].ep /\ Is(c, "DONE"),
             buf' = [buf EXCEPT ![c] = Released(@)], io' = io
      PROVE  Touched(p, b)
  <2>1. CASE b # c
    BY <1>1, <1>2, <1>3, <2>1 DEF SameIO
  <2>2. CASE b = c
    <3>1. buf'[b] = Released(buf[b])
      BY <1>1, <1>3, <2>2
    <3>2. /\ buf'[b].cnt = buf[b].cnt /\ buf'[b].mem = buf[b].mem
          /\ buf'[b].queue = IF buf[b].mem = 0 THEN "empty" ELSE "free"
          /\ buf'[b].blk = IF "ERROR" \in buf[b].flags THEN NODEV ELSE buf[b].blk
          /\ buf'[b].flags = buf[b].flags \ {"WANTED", "BUSY", "ASYNC"}
          /\ buf'[b].cur = buf[b].cur
      BY <1>1, <3>1 DEF Released, Buffer
    <3> QED BY <1>3, <2>2, <3>2 DEF Returned, OnList, SameIO, Is, Touched
  <2> QED BY <2>1, <2>2
<1>4. ASSUME NEW async \in SUBSET {"ASYNC"}, proc[p].pc = "got",
             proc[p].op \in {"read", "extend", "move", "reada", "ahead"},
             ~Is(proc[p].bp, "DONE"),
             buf' = [buf EXCEPT ![proc[p].bp] = Reading(@, async)],
             io' = io \cup {proc[p].bp}
      PROVE  Touched(p, b)
  <2>1. CASE b # proc[p].bp
    BY <1>1, <1>2, <1>4, <2>1 DEF SameIO
  <2>2. CASE b = proc[p].bp
    <3>1. buf'[b] = Reading(buf[b], async)
      BY <1>1, <1>4, <2>2
    <3>2. Carries(b, buf[b].queue, buf[b].flags \cup {"READ"} \cup async)
          /\ buf'[b].cur = buf[b].cur
      BY <1>1, <3>1 DEF Carries, Reading, Buffer
    <3> QED BY <1>4, <2>2, <3>2 DEF Fetched, Touched
  <2> QED BY <2>1, <2>2
<1>5. CASE GotUncached(p)
  <2>1. {} \in SUBSET {"ASYNC"}
    OBVIOUS
  <2> QED BY <1>4, <1>5, <2>1 DEF GotUncached, Running
<1>6. CASE GotAhead(p)
  <2>1. {"ASYNC"} \in SUBSET {"ASYNC"}
    OBVIOUS
  <2> QED BY <1>4, <1>6, <2>1 DEF GotAhead, Running
<1>7. CASE GotExtended(p)
  <2>1. buf' = [buf EXCEPT ![proc[p].bp].flags = @ \cup {"DONE"}] /\ io' = io
        /\ proc[p].pc = "got" /\ proc[p].op = "extended"
    BY <1>7 DEF GotExtended, Running
  <2>2. CASE b # proc[p].bp
    BY <1>1, <1>2, <2>1, <2>2 DEF SameIO
  <2>3. CASE b = proc[p].bp
    BY <1>1, <2>1, <2>3 DEF Completing, Carries, SameIO, Buffer, Touched
  <2> QED BY <2>2, <2>3
<1>8. CASE GotCopy(p)
  BY <1>0, <1>3, <1>8 DEF GotCopy, Running, RegsOK, Process
<1>9. CASE WriteDone(p)
  <2>1. /\ buf' = [buf EXCEPT ![proc[p].ep] = Released(@)] /\ io' = io
        /\ proc[p].pc = "bwrite" /\ Is(proc[p].ep, "DONE")
        /\ proc[p].ep \in Bufs
    BY <1>9, WriteDoneMoves DEF WriteDone
  <2> QED BY <1>3, <2>1
<1>10. CASE GotCached(p)
  BY <1>2, <1>10 DEF GotCached, SameIO
<1>11. CASE GotBlank(p)
  BY <1>2, <1>11 DEF GotBlank, SameIO
<1>12. CASE BreadaFirst(p)
  BY <1>2, <1>12 DEF BreadaFirst, SameIO
<1>13. CASE BreadaAhead(p)
  BY <1>2, <1>13 DEF BreadaAhead, SameIO
<1>14. CASE BreadaFinish(p)
  BY <1>2, <1>14 DEF BreadaFinish, SameIO
<1>15. CASE Biowait(p)
  BY <1>2, <1>15 DEF Biowait, SameIO
<1>16. CASE ReadDone(p)
  BY <1>2, <1>16 DEF ReadDone, SameIO
<1> QED
  BY Got(p), <1>5, <1>6, <1>7, <1>8, <1>9, <1>10, <1>11, <1>12, <1>13, <1>14,
     <1>15, <1>16
  DEF Got

\* The steps that leave a buffer with new contents.
LEMMA UpdateTouches ==
    ASSUME IInv, NEW p \in Procs, NEW b \in Bufs, Bdwrite(p) \/ Bwrite(p) \/ Bawrite(p)
    PROVE  IF b = proc[p].bp THEN Updated(p, b) \/ Put(p, b) ELSE Passed(p, b)
<1>0. proc[p] \in Process /\ RegsOK(proc[p])
  BY View
<1>1. proc \in [Procs -> Process] /\ buf \in [Bufs -> Buffer] /\ buf[b] \in Buffer
  BY View DEF TypeOK
<1> DEFINE d == [buf[b] EXCEPT !.cur = BufFrags(buf[b])]
<1>4. Changing(p) /\ proc[p].bp \in Bufs /\ ~Is(proc[p].bp, "ERROR")
      /\ "BUSY" \in buf[proc[p].bp].flags
  <2>1. Changing(p) /\ proc[p].bp \in Bufs
    BY <1>0 DEF Bdwrite, Bwrite, Bawrite, Changing, Running, RegsOK, Process
  <2> QED BY <2>1, HeldUnique DEF Changing, Holds, Free, Is, IInv, BufInv, FlagsOK
<1>5. CASE b # proc[p].bp
  <2>1. buf'[b] = [buf[b] EXCEPT !.cur = @ \ BufFrags(buf[proc[p].bp])]
    BY <1>1, <1>5 DEF Bdwrite, Bwrite, Bawrite, Modified
  <2>2. io' = io \/ io' = io \cup {proc[p].bp}
    BY DEF Bdwrite, Bwrite, Bawrite
  <2> HIDE DEF BufFrags
  <2>3. Kept(b)
    BY <1>1, <1>5, <2>1, <2>2 DEF Kept, Buffer
  <2>4. buf'[b].cur = buf[b].cur \ BufFrags(buf[proc[p].bp])
    BY <1>1, <2>1 DEF Buffer
  <2> QED BY <1>4, <1>5, <2>3, <2>4 DEF Passed
<1>6. CASE b = proc[p].bp
  <2>1. d \in Buffer /\ Modified(b) \in [Bufs -> Buffer] /\ Modified(b)[b] = d
    BY <1>1, ModifiedType, FragsType DEF Modified, BufFrags, Buffer
  <2>2. /\ d.blk = buf[b].blk /\ d.cnt = buf[b].cnt /\ d.mem = buf[b].mem
        /\ d.flags = buf[b].flags /\ d.cur = BufFrags(buf[b])
        /\ d.queue = buf[b].queue
    <3> HIDE DEF BufFrags
    <3> QED BY <1>1 DEF Buffer
  <2>3. buf[b].queue = "out"
    BY <1>0, <1>4, <1>6, HeldUnique DEF Holds
  <2> HIDE DEF d
  <2>4. CASE Bdwrite(p)
    <3>1. buf'[b] = Released(Delayed(d)) /\ io' = io
      BY <1>1, <1>6, <2>1, <2>4 DEF Bdwrite
    <3>2. /\ buf'[b].blk = d.blk /\ buf'[b].cnt = d.cnt /\ buf'[b].mem = d.mem
          /\ buf'[b].queue = IF d.mem = 0 THEN "empty" ELSE "free"
          /\ buf'[b].flags = (d.flags \cup {"DELWRI", "DONE"})
                                \ {"WANTED", "BUSY", "ASYNC"}
          /\ buf'[b].cur = d.cur
      BY <1>4, <1>6, <2>1, <2>2, <3>1 DEF Released, Delayed, Buffer, Is
    <3> QED BY <1>4, <1>6, <2>2, <3>1, <3>2 DEF Put, OnList, SameIO
  <2>5. CASE Bwrite(p)
    <3>1. buf'[b] = Written(d) /\ b \in io'
      BY <1>1, <1>6, <2>1, <2>5 DEF Bwrite
    <3>2. Carries(b, "out", (buf[b].flags \ Clean) \cup {}) /\ buf'[b].cur = d.cur
      BY <2>1, <2>2, <2>3, <3>1 DEF Written, Carries, Clean, Buffer
    <3>3. {} \in SUBSET {"ASYNC"}
      OBVIOUS
    <3> QED BY <1>4, <1>6, <2>2, <3>1, <3>2, <3>3 DEF Updated
  <2>6. CASE Bawrite(p)
    <3>1. buf'[b] = AsyncWritten(d) /\ b \in io'
      BY <1>1, <1>6, <2>1, <2>6 DEF Bawrite
    <3>2. Carries(b, "out", (buf[b].flags \ Clean) \cup {"ASYNC"})
          /\ buf'[b].cur = d.cur
      BY <2>1, <2>2, <2>3, <3>1 DEF AsyncWritten, Written, Carries, Clean, Buffer
    <3>3. {"ASYNC"} \in SUBSET {"ASYNC"}
      OBVIOUS
    <3> QED BY <1>4, <1>6, <2>2, <3>1, <3>2, <3>3 DEF Updated
  <2> QED BY <2>4, <2>5, <2>6
<1> QED BY <1>5, <1>6

LEMMA FinishTouches ==
    ASSUME IInv, Shapes, NEW p \in Procs, NEW b \in Bufs, Finish(p)
    PROVE  Touched(p, b)
<1>0. proc[p] \in Process /\ RegsOK(proc[p])
  BY View
<1>1. proc \in [Procs -> Process] /\ buf \in [Bufs -> Buffer] /\ buf[b] \in Buffer
  BY View DEF TypeOK
<1>2. ASSUME buf' = buf, io' = io PROVE Touched(p, b)
  BY <1>2 DEF Touched, Passed, Kept
<1>3. CASE Brelse(p)
  <2>1. /\ buf' = [buf EXCEPT ![proc[p].bp] = Released(@)] /\ io' = io
        /\ proc[p].pc = "hold"
        /\ proc[p].op \in {"read", "anon"} \/ Is(proc[p].bp, "ERROR")
    BY <1>3 DEF Brelse, Running
  <2>2. CASE b # proc[p].bp
    BY <1>1, <2>1, <2>2 DEF Touched, Passed, Kept
  <2>3. CASE b = proc[p].bp
    <3>1. buf'[b] = Released(buf[b])
      BY <1>1, <2>1, <2>3
    <3>2. /\ buf'[b].cnt = buf[b].cnt /\ buf'[b].mem = buf[b].mem
          /\ buf'[b].queue = IF buf[b].mem = 0 THEN "empty" ELSE "free"
          /\ buf'[b].blk = IF "ERROR" \in buf[b].flags THEN NODEV ELSE buf[b].blk
          /\ buf'[b].flags = buf[b].flags \ {"WANTED", "BUSY", "ASYNC"}
          /\ buf'[b].cur = buf[b].cur
      BY <1>1, <3>1 DEF Released, Buffer
    <3> QED BY <2>1, <2>3, <3>2 DEF Returned, OnList, SameIO, Is, Touched
  <2> QED BY <2>2, <2>3
<1>4. CASE Bdwrite(p) \/ Bwrite(p) \/ Bawrite(p)
  BY <1>4, UpdateTouches DEF Touched
<1>5. CASE BflushWrite(p)
  BY <1>5, FlushTouches DEF BflushWrite, Dirty, Touched
<1>6. CASE BlkflushDirty(p)
  BY <1>6, FlushTouches, NotBusyFree DEF BlkflushDirty, Overlapping, Touched
<1>7. CASE BlkflushBusy(p)
  <2>1. ASSUME NEW e \in Bufs, WaitFor(p, e) PROVE Passed(p, b)
    BY <1>1, <2>1 DEF WaitFor, Passed, Kept, Buffer
  <2> QED BY <1>7, <2>1 DEF BlkflushBusy, Overlapping, Touched
<1>8. CASE BflushReturn(p) \/ BlkflushReturn(p)
  BY <1>2, <1>8 DEF BflushReturn, BlkflushReturn
<1> QED
  BY <1>3, <1>4, <1>5, <1>6, <1>7, <1>8 DEF Finish

\* Every step of a process is one of these to every buffer.
LEMMA ActTouches ==
    ASSUME IInv, Shapes, NEW p \in Procs, NEW b \in Bufs, Act(p)
    PROVE  Touched(p, b)
<1>1. CASE Call(p) \/ Dispatch(p) \/ Pause(p)
  <2>1. buf' = buf /\ io' = io
    BY <1>1 DEF Call, Bread, CookedRead, Breada, Overwrite, Alloc, Extend,
       Move, Geteblk, Bflush, Blkflush, Enter, Dispatch, Pause
  <2> QED BY <2>1 DEF Touched, Passed, Kept
<1> QED
  BY <1>1, GetblkTouches, GotTouches, FinishTouches DEF Act, Step

------------------------------------------------------------------------------
(* Memory: the pages of the buffers are counted as a set. *)

Pages(m, s) == {pg \in s \X (1 .. BlockFrags) : pg[2] <= m[pg[1]]}
memory == [b \in Bufs |-> buf[b].mem]

LEMMA PagesFinite ==
    ASSUME NEW m, NEW s \in SUBSET Bufs
    PROVE  IsFiniteSet(Pages(m, s)) /\ Cardinality(Pages(m, s)) \in Nat
<1>1. IsFiniteSet(s) /\ IsFiniteSet(1 .. BlockFrags)
  BY FS_Subset, FS_Interval, BufferCacheAssumption
<1>2. IsFiniteSet(s \X (1 .. BlockFrags))
  BY <1>1, FS_Product
<1>3. Pages(m, s) \in SUBSET (s \X (1 .. BlockFrags))
  BY DEF Pages
<1> QED BY <1>2, <1>3, FS_Subset, FS_CardinalityType

LEMMA Column ==
    ASSUME NEW x, NEW n \in Nat
    PROVE  IsFiniteSet({x} \X (1 .. n)) /\ Cardinality({x} \X (1 .. n)) = n
<1>1. IsFiniteSet({x}) /\ Cardinality({x}) = 1
  BY FS_Singleton
<1>2. IsFiniteSet(1 .. n) /\ Cardinality(1 .. n) = IF 1 > n THEN 0 ELSE n - 1 + 1
  BY FS_Interval
<1>3. Cardinality(1 .. n) = n
  BY <1>2
<1>4. /\ IsFiniteSet({x} \X (1 .. n))
      /\ Cardinality({x} \X (1 .. n)) = Cardinality({x}) * Cardinality(1 .. n)
  BY <1>1, <1>2, FS_Product
<1> QED BY <1>1, <1>3, <1>4

LEMMA PagesStep ==
    ASSUME NEW m \in [Bufs -> 0 .. BlockFrags], NEW s \in SUBSET Bufs, NEW x \in s
    PROVE  Cardinality(Pages(m, s)) = m[x] + Cardinality(Pages(m, s \ {x}))
<1> DEFINE col == {x} \X (1 .. m[x])
           rest == Pages(m, s \ {x})
<1>1. m[x] \in Nat /\ m[x] <= BlockFrags
  BY BufferCacheAssumption
<1>2. IsFiniteSet(col) /\ Cardinality(col) = m[x]
  BY <1>1, Column
<1>3. IsFiniteSet(rest) /\ Cardinality(rest) \in Nat
  BY PagesFinite
<1>4. Pages(m, s) = col \cup rest
  BY <1>1, BufferCacheAssumption DEF Pages
<1>5. col \cap rest = {}
  BY DEF Pages
<1> HIDE DEF col, rest
<1>6. Cardinality(col \cup rest)
         = Cardinality(col) + Cardinality(rest) - Cardinality(col \cap rest)
  BY <1>2, <1>3, FS_Union
<1>7. Cardinality(col \cap rest) = 0
  BY <1>5, FS_EmptySet
<1> QED BY <1>1, <1>2, <1>3, <1>4, <1>6, <1>7 DEF rest

\* The sum that PagesConserved speaks of.
LEMMA PagesSum ==
    ASSUME TypeOK
    PROVE  MapThenSumSet(LAMBDA b : buf[b].mem, Bufs) = Cardinality(Pages(memory, Bufs))
<1> DEFINE Sums(it) ==
              it = [s \in SUBSET Bufs |->
                      IF s = {} THEN 0
                      ELSE LET x == CHOOSE x \in s : TRUE
                           IN  buf[x].mem + it[s \ {x}]]
           f == CHOOSE it : Sums(it)
           g == [s \in SUBSET Bufs |-> Cardinality(Pages(memory, s))]
<1>1. memory \in [Bufs -> 0 .. BlockFrags]
  BY DEF memory, TypeOK, Buffer
<1>2. ASSUME NEW s \in SUBSET Bufs, s # {}
      PROVE  LET x == CHOOSE x \in s : TRUE
             IN  x \in s /\ g[s] = buf[x].mem + g[s \ {x}]
  <2> DEFINE x == CHOOSE y \in s : TRUE
  <2>1. x \in s
    BY <1>2
  <2> HIDE DEF x
  <2>2. Cardinality(Pages(memory, s)) = memory[x] + Cardinality(Pages(memory, s \ {x}))
    BY <1>1, <2>1, PagesStep
  <2>3. memory[x] = buf[x].mem /\ s \ {x} \in SUBSET Bufs
    BY <2>1 DEF memory
  <2>4. x \in s /\ g[s] = buf[x].mem + g[s \ {x}]
    BY <2>1, <2>2, <2>3
  <2> QED BY <2>4 DEF x
<1>3. g[{}] = 0
  <2>1. Pages(memory, {}) = {}
    BY DEF Pages
  <2> QED BY <2>1, FS_EmptySet
<1> HIDE DEF g
<1>4. g = [s \in SUBSET Bufs |->
             IF s = {} THEN 0
             ELSE LET x == CHOOSE x \in s : TRUE
                  IN  buf[x].mem + g[s \ {x}]]
  <2>1. \A s \in SUBSET Bufs :
          g[s] = IF s = {} THEN 0
                 ELSE LET x == CHOOSE x \in s : TRUE
                      IN  buf[x].mem + g[s \ {x}]
    BY <1>2, <1>3
  <2> QED BY <2>1 DEF g
<1>5. Sums(f)
  <2>1. Sums(g)
    BY <1>4
  <2> HIDE DEF Sums
  <2> QED BY <2>1
<1> HIDE DEF f
<1>6. f[Bufs] = g[Bufs]
  <2> DEFINE bad == {s \in SUBSET Bufs : f[s] # g[s]}
  <2> SUFFICES ASSUME bad # {} PROVE FALSE
    OBVIOUS
  <2>1. IsWellFoundedOn(StrictSubsetOrdering(Bufs), SUBSET Bufs)
    BY FS_StrictSubsetOrderingWellFounded, FS_FiniteSubsetsOfFinite, BufferCacheAssumption
  <2>2. PICK s \in bad : \A t \in bad : <<t, s>> \notin StrictSubsetOrdering(Bufs)
    <3>1. bad \subseteq SUBSET Bufs
      OBVIOUS
    <3> HIDE DEF bad
    <3> QED BY <2>1, <3>1, WFMin
  <2>3. s # {}
    BY <1>3, <1>5
  <2> DEFINE x == CHOOSE y \in s : TRUE
  <2>4. x \in s
    BY <2>3
  <2>5. f[s] = buf[x].mem + f[s \ {x}]
    BY <1>5, <2>3
  <2>6. g[s] = buf[x].mem + g[s \ {x}]
    BY <1>2, <2>3
  <2> HIDE DEF x
  <2>7. <<s \ {x}, s>> \in StrictSubsetOrdering(Bufs)
    BY <2>4 DEF StrictSubsetOrdering
  <2>8. s \ {x} \notin bad /\ s \ {x} \in SUBSET Bufs
    BY <2>2, <2>7
  <2> QED BY <2>2, <2>5, <2>6, <2>8
<1>7. MapThenSumSet(LAMBDA b : buf[b].mem, Bufs) = f[Bufs]
  BY DEF MapThenSumSet, MapThenFoldSet, f
<1> QED BY <1>6, <1>7 DEF g

\* Moving pages from one buffer to another keeps their number.
LEMMA PagesMoved ==
    ASSUME NEW m \in [Bufs -> 0 .. BlockFrags], NEW n \in [Bufs -> 0 .. BlockFrags],
           NEW b \in Bufs, NEW e \in Bufs \ {b},
           \A c \in Bufs \ {b, e} : n[c] = m[c],
           n[b] + n[e] = m[b] + m[e]
    PROVE  Cardinality(Pages(n, Bufs)) = Cardinality(Pages(m, Bufs))
<1> DEFINE rest == (Bufs \ {b}) \ {e}
<1>1. ASSUME NEW k \in [Bufs -> 0 .. BlockFrags]
      PROVE  Cardinality(Pages(k, Bufs)) = k[b] + (k[e] + Cardinality(Pages(k, rest)))
  <2>1. Cardinality(Pages(k, Bufs)) = k[b] + Cardinality(Pages(k, Bufs \ {b}))
    BY PagesStep
  <2>2. Cardinality(Pages(k, Bufs \ {b})) = k[e] + Cardinality(Pages(k, rest))
    BY PagesStep
  <2> QED BY <2>1, <2>2
<1>2. Pages(m, rest) = Pages(n, rest)
  BY DEF Pages
<1>3. Cardinality(Pages(m, rest)) \in Nat
  BY PagesFinite
<1>4. m[b] \in Int /\ m[e] \in Int /\ n[b] \in Int /\ n[e] \in Int
  BY BufferCacheAssumption
<1> HIDE DEF rest
<1> QED BY <1>1, <1>2, <1>3, <1>4

\* binit's shares.
LEMMA PagesShared ==
    ASSUME NEW rich \in SUBSET Bufs, Cardinality(rich) = Residual,
           memory = [b \in Bufs |-> IF b \in rich THEN BasePages + 1 ELSE BasePages]
    PROVE  Cardinality(Pages(memory, Bufs)) = BasePages * Cardinality(Bufs) + Residual
<1> DEFINE low == Bufs \X (1 .. BasePages)
           top == rich \X {BasePages + 1}
<1>1. IsFiniteSet(Bufs) /\ IsFiniteSet(rich) /\ Cardinality(Bufs) \in Nat
  BY FS_Subset, FS_CardinalityType, BufferCacheAssumption
<1>2. IsFiniteSet(1 .. BasePages) /\ Cardinality(1 .. BasePages) = BasePages
  <2>1. /\ IsFiniteSet(1 .. BasePages)
        /\ Cardinality(1 .. BasePages) = IF 1 > BasePages THEN 0 ELSE BasePages - 1 + 1
    BY FS_Interval, BufferCacheAssumption
  <2> QED BY <2>1, BufferCacheAssumption
<1>3. IsFiniteSet({BasePages + 1}) /\ Cardinality({BasePages + 1}) = 1
  BY FS_Singleton
<1>4. IsFiniteSet(low) /\ Cardinality(low) = Cardinality(Bufs) * BasePages
  BY <1>1, <1>2, FS_Product
<1>5. IsFiniteSet(top) /\ Cardinality(top) = Residual
  <2>1. IsFiniteSet(top) /\ Cardinality(top) = Residual * 1
    BY <1>1, <1>3, FS_Product
  <2> QED BY <2>1, BufferCacheAssumption
<1>6. low \cap top = {}
  BY BufferCacheAssumption
<1>7. rich # {} => BasePages + 1 <= BlockFrags
  <2>1. rich # {} => Residual # 0
    BY <1>1, FS_EmptySet
  <2> QED BY <2>1, BufferCacheAssumption
<1>8. Pages(memory, Bufs) = low \cup top
  <2>1. BasePages \in Nat /\ BasePages <= BlockFrags /\ BlockFrags \in Nat
    BY BufferCacheAssumption
  <2>2. ASSUME NEW pg \in Bufs \X (1 .. BlockFrags)
        PROVE  pg \in Pages(memory, Bufs) <=> pg \in low \cup top
    <3>1. pg = <<pg[1], pg[2]>> /\ pg[1] \in Bufs /\ pg[2] \in 1 .. BlockFrags
      OBVIOUS
    <3>2. pg[2] <= memory[pg[1]] <=>
            pg[2] \in 1 .. BasePages \/ (pg[1] \in rich /\ pg[2] = BasePages + 1)
      BY <2>1, <3>1
    <3> QED BY <3>1, <3>2 DEF Pages
  <2>3. low \cup top \subseteq Bufs \X (1 .. BlockFrags)
    BY <1>7, <2>1
  <2> HIDE DEF low, top
  <2> QED BY <2>2, <2>3 DEF Pages
<1> HIDE DEF low, top
<1>9. Cardinality(Pages(memory, Bufs)) = Cardinality(Bufs) * BasePages + Residual
  <2>1. Cardinality(low \cup top)
           = Cardinality(low) + Cardinality(top) - Cardinality(low \cap top)
    BY <1>4, <1>5, FS_Union
  <2>2. Cardinality(low \cap top) = 0
    BY <1>6, FS_EmptySet
  <2> DEFINE k == Cardinality(Bufs) * BasePages
  <2>3. k \in Int /\ Residual \in Int /\ Cardinality(low) = k
    BY <1>1, <1>4, BufferCacheAssumption
  <2> HIDE DEF k
  <2>4. Cardinality(Pages(memory, Bufs)) = k + Residual
    BY <1>5, <1>8, <2>1, <2>2, <2>3
  <2> QED BY <2>4 DEF k
<1> QED BY <1>1, <1>9, BufferCacheAssumption

MemOK(b) ==
    /\ buf[b].cnt <= buf[b].mem
    /\ Free(b) => (buf[b].queue = "empty" <=> buf[b].mem = 0)
    /\ Is(b, "DELWRI") => buf[b].cnt > 0 /\ ~Is(b, "INVAL")

MemInv ==
    /\ \A b \in Bufs : MemOK(b)
    /\ Cardinality(Pages(memory, Bufs)) = BasePages * Cardinality(Bufs) + Residual

\* Who has a buffer from getblk has asked for something.
LEMMA WantOK ==
    ASSUME IInv, Shapes, NEW p \in Procs, proc[p].bp # None
    PROVE  /\ proc[p].bp \in Bufs /\ ~Free(proc[p].bp)
           /\ buf[proc[p].bp].blk = proc[p].want.start
           /\ "INVAL" \in buf[proc[p].bp].flags <=> proc[p].op = "anon"
           /\ proc[p].want.size \in 1 .. BlockFrags
           /\ proc[p].op # "anon" =>
                 proc[p].want \in FileExtent /\ proc[p].want.start # NODEV
           /\ proc[p].op \notin {"none", "flush"}
<1>1. /\ proc[p] \in Process /\ RegsOK(proc[p]) /\ PathOK(proc[p]) /\ NamedOK(p)
  BY View DEF Shapes, Paths
<1>2. proc[p].bp \in Bufs /\ ~Free(proc[p].bp)
  BY <1>1, HeldUnique DEF Process, Holds, Free
<1>3. proc[p].op \notin {"none", "flush"}
  BY <1>1 DEF RegsOK, PathOK
<1>4. proc[p].op # "anon" => proc[p].want \in FileExtent
  BY <1>1, <1>3 DEF PathOK
<1>5. proc[p].want.size \in 1 .. BlockFrags
  BY <1>1, <1>4, BufferCacheAssumption DEF PathOK, FileExtent, Process, Extent
<1>6. proc[p].op # "anon" => proc[p].want.start # NODEV
  BY <1>4 DEF FileExtent, Addr, NODEV
<1> QED BY <1>1, <1>2, <1>3, <1>4, <1>5, <1>6 DEF NamedOK, Names, Is

\* A caller that has the buffer has all of what it asked for.
LEMMA HoldOK ==
    ASSUME IInv, Shapes, NEW p \in Procs, proc[p].pc \in {"got", "biowait", "hold"}
    PROVE  proc[p].bp # None /\ buf[proc[p].bp].cnt = proc[p].want.size
  BY View DEF Shapes, NamedOK, Exact, RegsOK

LEMMA MemAct ==
    ASSUME IInv, IInv', Shapes, NEW p \in Procs, Act(p), NEW b \in Bufs, MemOK(b)
    PROVE  MemOK(b)'
<1>1. buf[b] \in Buffer /\ buf'[b] \in Buffer
  BY DEF IInv, TypeOK
<1>2. /\ buf[b].mem \in 0 .. BlockFrags /\ buf[b].cnt \in 0 .. BlockFrags
      /\ buf'[b].mem \in 0 .. BlockFrags /\ buf'[b].cnt \in 0 .. BlockFrags
      /\ BlockFrags \in Nat
  BY <1>1, BufferCacheAssumption DEF Buffer
<1>3. proc[p].bp # None =>
         /\ proc[p].want.size \in 1 .. BlockFrags
         /\ "INVAL" \in buf[proc[p].bp].flags <=> proc[p].op = "anon"
  BY WantOK
<1> USE DEF MemOK, Is, Free
<1>4. CASE Passed(p, b)
  BY <1>2, <1>4 DEF Passed, Kept
<1>5. CASE Found(p, b)
  BY <1>2, <1>5 DEF Found, Carries
<1>6. CASE Flushed(p, b)
  BY <1>2, <1>6 DEF Flushed, Carries, Clean
<1>7. CASE Updated(p, b)
  BY <1>2, <1>7 DEF Updated, Carries, Clean
<1>8. CASE Claimed(p, b)
  BY <1>2, <1>8 DEF Claimed
<1>9. CASE Opened(p, b)
  BY <1>2, <1>9 DEF Opened, Carries
<1>10. CASE Dropped(p, b)
  BY <1>2, <1>10 DEF Dropped, OnList
<1>11. CASE Fitted(p, b)
  BY <1>2, <1>3, <1>11, View DEF Fitted, RegsOK
<1>12. CASE Given(p, b)
  BY <1>2, <1>12 DEF Given, OnList
<1>13. CASE Enlarged(p, b)
  <2>1. buf[b].queue = "out" /\ buf'[b].queue = buf[b].queue
    BY <1>13, NoneIsNoBuffer, WantOK DEF Enlarged
  <2> QED BY <1>2, <1>13, <2>1 DEF Enlarged
<1>14. CASE Robbing(p, b)
  BY <1>2, <1>14 DEF Robbing, OnList
<1>15. CASE Fetched(p, b)
  BY <1>2, <1>15 DEF Fetched, Carries
<1>16. CASE Completing(p, b)
  BY <1>2, <1>16 DEF Completing, Carries
<1>17. CASE Returned(p, b)
  BY <1>2, <1>17 DEF Returned, OnList
<1>18. CASE Put(p, b)
  <2>1. proc[p].bp # None /\ buf[b].cnt = proc[p].want.size /\ proc[p].op # "anon"
    BY <1>18, HoldOK DEF Put, Changing, Running
  <2> QED BY <1>2, <1>3, <1>18, <2>1 DEF Put, OnList
<1> QED
  BY <1>4, <1>5, <1>6, <1>7, <1>8, <1>9, <1>10, <1>11, <1>12, <1>13, <1>14,
     <1>15, <1>16, <1>17, <1>18, ActTouches DEF Touched

LEMMA MemSame ==
    ASSUME IInv, Shapes, NEW p \in Procs, Act(p), NEW b \in Bufs,
           ~AllocbufGive(p), ~AllocbufTake(p)
    PROVE  buf'[b].mem = buf[b].mem
<1>1. Touched(p, b)
  BY ActTouches
<1>2. ~Given(p, b) /\ ~Enlarged(p, b) /\ ~Robbing(p, b)
  BY DEF Given, Enlarged, Robbing
<1>3. CASE Passed(p, b)
  BY <1>3 DEF Passed, Kept
<1>4. CASE Found(p, b) \/ Flushed(p, b) \/ Updated(p, b) \/ Opened(p, b)
           \/ Fetched(p, b) \/ Completing(p, b)
  BY <1>4 DEF Found, Flushed, Updated, Opened, Fetched, Completing, Carries
<1>5. CASE Claimed(p, b) \/ Dropped(p, b) \/ Fitted(p, b) \/ Returned(p, b)
           \/ Put(p, b)
  BY <1>5 DEF Claimed, Dropped, Fitted, Returned, Put
<1> QED BY <1>1, <1>2, <1>3, <1>4, <1>5 DEF Touched

\* Only allocbuf moves pages, from one buffer to one other.
LEMMA MovesPages ==
    ASSUME IInv, IInv', Shapes, \A b \in Bufs : MemOK(b), NEW p \in Procs, Act(p)
    PROVE  Cardinality(Pages(memory', Bufs)) = Cardinality(Pages(memory, Bufs))
<1>1. buf \in [Bufs -> Buffer] /\ buf' \in [Bufs -> Buffer]
  BY DEF IInv, TypeOK
<1>2. memory \in [Bufs -> 0 .. BlockFrags] /\ memory' \in [Bufs -> 0 .. BlockFrags]
  BY <1>1 DEF memory, Buffer
<1>3. \A b \in Bufs : memory[b] = buf[b].mem /\ memory'[b] = buf'[b].mem
  BY DEF memory
<1>4. \A b \in Bufs : memory[b] \in 0 .. BlockFrags /\ memory'[b] \in 0 .. BlockFrags
  BY <1>2
<1>5. CASE AllocbufGive(p)
  <2>1. PICK e \in Bufs \ {proc[p].bp} :
          /\ buf[e].queue = "empty"
          /\ buf'[e].mem = buf[proc[p].bp].mem - proc[p].want.size
          /\ \A c \in Bufs \ {proc[p].bp, e} : buf'[c] = buf[c]
    BY <1>5, GiveSets
  <2>2. /\ proc[p].bp \in Bufs /\ buf'[proc[p].bp].mem = proc[p].want.size
        /\ proc[p].want.size \in 0 .. BlockFrags
    BY <1>5, GiveSets
  <2>3. buf[e].mem = 0
    BY <2>1 DEF MemOK, Free
  <2>4. memory'[proc[p].bp] + memory'[e] = memory[proc[p].bp] + memory[e]
    BY <1>3, <1>4, <2>1, <2>2, <2>3, BufferCacheAssumption
  <2>5. \A c \in Bufs \ {proc[p].bp, e} : memory'[c] = memory[c]
    BY <1>3, <2>1
  <2> QED BY <1>2, <2>1, <2>2, <2>4, <2>5, PagesMoved
<1>6. CASE AllocbufTake(p)
  <2>1. PICK e \in Bufs \ {proc[p].bp} : \E take \in 0 .. buf[e].mem :
          /\ buf'[proc[p].bp].mem = buf[proc[p].bp].mem + take
          /\ buf'[e].mem = buf[e].mem - take
          /\ \A c \in Bufs \ {proc[p].bp, e} : buf'[c] = buf[c]
    BY <1>6, TakeSets
  <2>2. proc[p].bp \in Bufs
    BY <1>6, TakeSets
  <2>4. memory'[proc[p].bp] + memory'[e] = memory[proc[p].bp] + memory[e]
    BY <1>3, <1>4, <2>1, <2>2, BufferCacheAssumption
  <2>5. \A c \in Bufs \ {proc[p].bp, e} : memory'[c] = memory[c]
    BY <1>3, <2>1
  <2> QED BY <1>2, <2>1, <2>2, <2>4, <2>5, PagesMoved
<1>7. CASE ~AllocbufGive(p) /\ ~AllocbufTake(p)
  <2>1. \A b \in Bufs : buf'[b].mem = buf[b].mem
    BY <1>7, MemSame
  <2>2. memory' = memory
    BY <2>1 DEF memory
  <2> QED BY <2>2
<1> QED BY <1>5, <1>6, <1>7

LEMMA MemBiodone ==
    ASSUME IInv, IInv', NEW b \in Bufs, NEW err \in BOOLEAN, Biodone(b, err),
           NEW c \in Bufs, MemOK(c)
    PROVE  MemOK(c)' /\ buf'[c].mem = buf[c].mem
<1>1. buf[c] \in Buffer /\ buf'[c] \in Buffer
  BY DEF IInv, TypeOK
<1>2. CASE c # b
  BY <1>2, BiodoneSets DEF MemOK, Free, Is
<1>3. CASE c = b
  <2>1. buf'[c].cnt = buf[c].cnt /\ buf'[c].mem = buf[c].mem /\ ~Free(c)
    BY <1>3, BiodoneSets DEF IInv, BufInv, FlagsOK
  <2>2. CASE Is(b, "ASYNC")
    <3>1. /\ buf'[c].flags = (buf[c].flags \cup {"DONE"}
                \cup (IF err THEN {"ERROR"} ELSE {})) \ {"WANTED", "BUSY", "ASYNC"}
          /\ buf'[c].queue = IF buf'[c].mem = 0 THEN "empty" ELSE "free"
      BY <1>3, <2>2, BiodoneSets
    <3> QED BY <2>1, <3>1 DEF MemOK, Free, Is
  <2>3. CASE ~Is(b, "ASYNC")
    <3>1. /\ buf'[c].flags = (buf[c].flags \cup {"DONE"}
                \cup (IF err THEN {"ERROR"} ELSE {})) \ {"WANTED"}
          /\ buf'[c].queue = buf[c].queue
      BY <1>3, <2>3, BiodoneSets
    <3> QED BY <2>1, <3>1 DEF MemOK, Free, Is
  <2> QED BY <2>2, <2>3
<1> QED BY <1>2, <1>3

LEMMA InitMem == Init => MemInv
<1> SUFFICES ASSUME Init PROVE MemInv
  OBVIOUS
<1>1. PICK rich \in SUBSET Bufs :
        /\ Cardinality(rich) = Residual
        /\ buf = [b \in Bufs |->
              LET pages == IF b \in rich THEN BasePages + 1 ELSE BasePages
              IN  [blk |-> NODEV, cnt |-> 0, mem |-> pages,
                   flags |-> {"INVAL"},
                   queue |-> IF pages = 0 THEN "empty" ELSE "free",
                   cur |-> {}]]
  BY DEF Init
<1>2. memory = [b \in Bufs |-> IF b \in rich THEN BasePages + 1 ELSE BasePages]
  BY <1>1 DEF memory
<1>3. Cardinality(Pages(memory, Bufs)) = BasePages * Cardinality(Bufs) + Residual
  BY <1>1, <1>2, PagesShared
<1>4. ASSUME NEW b \in Bufs PROVE MemOK(b)
  BY <1>1, BufferCacheAssumption DEF MemOK, Free, Is
<1> QED BY <1>3, <1>4 DEF MemInv

LEMMA MemNext ==
    ASSUME IInv, IInv', Shapes, MemInv, [Next]_vars
    PROVE  MemInv'
<1>1. ASSUME NEW p \in Procs, Act(p) PROVE MemInv'
  BY <1>1, MemAct, MovesPages DEF MemInv
<1>2. ASSUME UNCHANGED buf PROVE MemInv'
  <2>1. memory' = memory
    BY <1>2 DEF memory
  <2>2. \A b \in Bufs : MemOK(b)'
    BY <1>2 DEF MemInv, MemOK, Free, Is
  <2> QED BY <2>1, <2>2 DEF MemInv
<1>3. ASSUME NEW b \in Bufs, NEW err \in IOErrors, Biodone(b, err) PROVE MemInv'
  <2>1. \A c \in Bufs : MemOK(c)' /\ buf'[c].mem = buf[c].mem
    BY <1>3, MemBiodone, BufferCacheAssumption DEF MemInv
  <2>2. memory' = memory
    BY <2>1 DEF memory
  <2> QED BY <2>1, <2>2 DEF MemInv
<1> QED BY <1>1, <1>2, <1>3 DEF Next, Act, FreeExtent, vars

\* The invariants so far.
Safe == IInv /\ Shapes /\ MemInv

LEMMA SafeNext == Safe /\ [Next]_vars => Safe'
  BY NextInv, ShapesInv, MemNext DEF Safe

LEMMA SafeAlways == Spec => []Safe
<1>1. Init => Safe
  BY InitInv, InitShapes, InitMem DEF Safe
<1> QED BY <1>1, SafeNext, PTL DEF Spec

\* allocbuf moves pages between buffers and never makes or loses one, whatever
\* processes, sizes, shares of memory and device errors there are; a transfer
\* fits its buffer's memory (the panics of bread and bwrite); and exactly the
\* free buffers without memory are on the empty list (vax/ufs_machdep.c).
THEOREM PagesAreConserved == Spec => []PagesConserved
<1>1. Safe => PagesConserved
  BY PagesSum DEF PagesConserved, Safe, IInv, MemInv, MemOK
<1> QED BY <1>1, SafeAlways, PTL

------------------------------------------------------------------------------
(* A device without errors: what is written or under way has a block. *)

BlockOK(b) ==
    /\ ~Is(b, "ERROR")
    /\ Is(b, "DELWRI") \/ b \in io => buf[b].blk # NODEV

LEMMA BlockAct ==
    ASSUME IInv, Shapes, NEW p \in Procs, Act(p), NEW b \in Bufs, MemOK(b),
           BlockOK(b)
    PROVE  BlockOK(b)'
<1>1. buf[b] \in Buffer
  BY DEF IInv, TypeOK
<1>2. buf[b].mem \in 0 .. BlockFrags /\ buf[b].cnt \in 0 .. BlockFrags
  BY <1>1 DEF Buffer
<1>3. proc[p].bp # None =>
         /\ buf[proc[p].bp].blk = proc[p].want.start
         /\ proc[p].op # "anon" => proc[p].want.start # NODEV
  BY WantOK
<1>4. proc[p].pc \in {"got", "hold"} => proc[p].bp # None
  BY HoldOK
<1> USE DEF BlockOK, Is
<1>5. CASE Passed(p, b)
  BY <1>5 DEF Passed, Kept
<1>6. CASE Found(p, b) \/ Opened(p, b) \/ Completing(p, b)
  BY <1>6 DEF Found, Opened, Completing, Carries, SameIO
<1>7. CASE Flushed(p, b)
  BY <1>7 DEF Flushed, Carries, Clean
<1>8. CASE Updated(p, b)
  BY <1>3, <1>4, <1>8 DEF Updated, Carries, Clean, Changing, Running
<1>9. CASE Claimed(p, b)
  BY <1>9 DEF Claimed, SameIO, IInv, BufInv, FlagsOK
<1>10. CASE Dropped(p, b)
  BY <1>10 DEF Dropped, SameIO, IInv, BufInv, FlagsOK
<1>11. CASE Fitted(p, b) \/ Enlarged(p, b)
  BY <1>11 DEF Fitted, Enlarged, SameIO
<1>12. CASE Given(p, b)
  <2>1. Free(b) /\ ~Is(b, "DELWRI")
    BY <1>2, <1>12 DEF Given, MemOK, Free
  <2> QED BY <1>12, <2>1 DEF Given, SameIO, IInv, BufInv, FlagsOK
<1>13. CASE Robbing(p, b)
  BY <1>13 DEF Robbing, SameIO, IInv, BufInv, FlagsOK, Free
<1>14. CASE Fetched(p, b)
  BY <1>3, <1>4, <1>14 DEF Fetched, Carries
<1>15. CASE Returned(p, b)
  BY <1>15 DEF Returned, SameIO
<1>16. CASE Put(p, b)
  BY <1>3, <1>4, <1>16 DEF Put, Changing, Running
<1> QED
  BY <1>5, <1>6, <1>7, <1>8, <1>9, <1>10, <1>11, <1>12, <1>13, <1>14,
     <1>15, <1>16, ActTouches DEF Touched

LEMMA BlockBiodone ==
    ASSUME IInv, NEW b \in Bufs, Biodone(b, FALSE), NEW c \in Bufs, BlockOK(c)
    PROVE  BlockOK(c)'
<1>1. FALSE \in BOOLEAN
  OBVIOUS
<1>2. CASE c # b
  BY <1>1, <1>2, BiodoneSets DEF BlockOK, Is
<1>3. CASE c = b
  <2> DEFINE after == buf[b].flags \cup {"DONE"}
  <2>1. /\ buf'[b].flags \in {after \ {"WANTED", "BUSY", "ASYNC"}, after \ {"WANTED"}}
        /\ "ERROR" \in after \/ buf'[b].blk = buf[b].blk
        /\ b \in io
    BY <1>1, <1>3, BiodoneSets
  <2> QED BY <1>3, <2>1 DEF BlockOK, Is
<1> QED BY <1>2, <1>3

Faultless == TRUE \notin IOErrors
Blocks == \A b \in Bufs : BlockOK(b)

LEMMA InitBlocks == Init => Blocks
  BY DEF Init, Blocks, BlockOK, Is

LEMMA BlocksNext ==
    ASSUME Safe, Faultless, Blocks, [Next]_vars
    PROVE  Blocks'
<1> SUFFICES ASSUME NEW c \in Bufs PROVE BlockOK(c)'
  BY DEF Blocks
<1>0. IInv /\ Shapes /\ MemOK(c) /\ BlockOK(c)
  BY DEF Safe, MemInv, Blocks
<1>1. ASSUME NEW p \in Procs, Act(p) PROVE BlockOK(c)'
  BY <1>0, <1>1, BlockAct
<1>2. ASSUME UNCHANGED <<buf, io>> PROVE BlockOK(c)'
  BY <1>0, <1>2 DEF BlockOK, Is
<1>3. ASSUME NEW b \in Bufs, NEW err \in IOErrors, Biodone(b, err)
      PROVE  BlockOK(c)'
  <2>1. err = FALSE
    BY BufferCacheAssumption DEF Faultless
  <2> QED BY <1>0, <1>3, <2>1, BlockBiodone
<1> QED BY <1>1, <1>2, <1>3 DEF Next, Act, FreeExtent, vars

\* With a device that reports no error, the pages add up, every transfer fits
\* its buffer's memory, completes once and goes to a real block: none of the
\* panics of the I/O path (ufs_bio.c, vax/ufs_machdep.c).  With errors the last
\* part is false: see TransfersSane in part 3.
THEOREM MemorySaneHolds == TRUE \notin IOErrors => (Spec => []MemorySane)
<1> SUFFICES ASSUME Faultless PROVE Spec => []MemorySane
  BY DEF Faultless
<1>1. Safe /\ Blocks => TransfersSane
  <2> SUFFICES ASSUME IInv, MemInv, Blocks, NEW b \in io
               PROVE  buf[b].cnt <= buf[b].mem /\ ~Is(b, "DONE")
                      /\ buf[b].blk # NODEV
    BY DEF TransfersSane, Safe
  <2>1. b \in Bufs
    BY DEF IInv, TypeOK
  <2>2. buf[b].cnt <= buf[b].mem /\ ~Is(b, "DONE")
    BY <2>1 DEF MemInv, MemOK, IInv, BufInv, FlagsOK
  <2> QED BY <2>1, <2>2 DEF Blocks, BlockOK
<1>2. PagesConserved /\ TransfersSane => MemorySane
  BY DEF MemorySane
<1> QED
  BY <1>1, <1>2, InitBlocks, BlocksNext, PagesAreConserved, SafeAlways, PTL
  DEF Spec

------------------------------------------------------------------------------
(***************************************************************************)
(* No wakeup is lost: who sleeps in the buffer cache waits for something   *)
(* that is still to come, and whoever brings it knows.                     *)
(*                                                                         *)
(* WakeOK says of each process what it waits for, and adds that a buffer   *)
(* of its own it waits for is with the device. A step of another process   *)
(* leaves that alone or wakes it (ReleasesWake). That a process never      *)
(* waits for a buffer it has itself put aside rests on the extents that    *)
(* the file system has handed out: LiveInv keeps those of different files, *)
(* and the two of one process, apart. BioOK says that who waits for a      *)
(* transfer has one under way.                                             *)
(***************************************************************************)

(* Extents. *)

LEMMA Solid ==
    ASSUME NEW e \in FileExtent
    PROVE  ~Disjoint(e, e) /\ e # NoExtent /\ e.start \in FragsOf(e)
<1>1. e.start \in Addr /\ e.size \in 1 .. BlockFrags
  BY DEF FileExtent
<1>2. e.start # NODEV /\ e.start \in Int
  BY <1>1, BufferCacheAssumption DEF Addr, NODEV
<1>3. e.start - e.start \in 0 .. e.size - 1
  BY <1>1, <1>2, BufferCacheAssumption
<1>4. e.start \in FragsOf(e)
  BY <1>1, <1>2, <1>3 DEF FragsOf, Frags
<1> QED BY <1>2, <1>4 DEF Disjoint, NoExtent

LEMMA Apartness ==
    /\ \A d, e : Disjoint(d, e) => Disjoint(e, d)
    /\ \A e : Disjoint(e, NoExtent) /\ Disjoint(NoExtent, e)
  BY DEF Disjoint, FragsOf, Frags, NoExtent

------------------------------------------------------------------------------
(* What the file system has allocated, and who uses it. *)

\* The allocated extent a process that may change extents works on.
Own(r) ==
    IF /\ r.op \in {"extended", "copy"}
       /\ ~(r.pc = "hold" \/ (r.pc = "bwrite" /\ r.ret = "user"))
    THEN r.ra ELSE r.want

LiveOK ==
    /\ live \subseteq FileExtent
    /\ \A e, f \in live : e # f => Disjoint(e, f)

Mine(p) ==
    proc[p].op \in Exclusive =>
        /\ Own(proc[p]) \in live
        /\ \A f \in live \ {Own(proc[p])} :
              Disjoint(f, proc[p].want) /\ Disjoint(f, proc[p].ra)

Separate(r, s) ==
    /\ Disjoint(r.want, s.want) /\ Disjoint(r.want, s.ra)
    /\ Disjoint(r.ra, s.want) /\ Disjoint(r.ra, s.ra)

\* The block device may be read whatever the file system does.
Apart(p, q) ==
    /\ proc[p].op \in Exclusive
    /\ proc[q].op # "read" \/ "cooked" \notin Calls
    => Separate(proc[p], proc[q])

InSequence(p) ==
    proc[p].op \in {"reada", "ahead"} => Disjoint(proc[p].want, proc[p].ra)

LiveInv ==
    /\ LiveOK
    /\ \A p \in Procs : Mine(p) /\ InSequence(p)
    /\ \A p, q \in Procs : p # q => Apart(p, q)

\* What a step may do to the extents of its process.
Stays(p) ==
    /\ proc'[p].op = proc[p].op /\ proc'[p].want = proc[p].want
    /\ proc'[p].ra = proc[p].ra
    /\ live' = live
    /\ Own(proc'[p]) = Own(proc[p])

Swaps(p) ==
    /\ proc[p].op \in {"extend", "move", "reada", "ahead"}
    /\ proc'[p].op = IF proc[p].op = "extend" THEN "extended"
                     ELSE IF proc[p].op = "move" THEN "copy" ELSE "ahead"
    /\ proc'[p].want = proc[p].ra /\ proc'[p].ra = proc[p].want
    /\ proc'[p].pc # "hold" /\ ~(proc'[p].pc = "bwrite" /\ proc'[p].ret = "user")
    /\ live' = live

Ends(p) ==
    /\ proc[p].op \in {"reada", "ahead"} /\ proc'[p].op = "read"
    /\ proc'[p].want = proc[p].want /\ proc'[p].ra = NoExtent
    /\ live' = live

Goes(p) == proc'[p] = Idle /\ live' = live

Grants(p) ==
    /\ proc[p].op \in {"extended", "copy"} /\ proc[p].pc = "got"
    /\ proc'[p].op = proc[p].op /\ proc'[p].want = proc[p].want
    /\ proc'[p].ra = proc[p].ra /\ proc'[p].pc = "hold"
    /\ live' = (live \ {proc[p].ra}) \cup {proc[p].want}

LEMMA StepExtents ==
    ASSUME IInv, NEW p \in Procs, Paths, Step(p)
    PROVE  Stays(p) \/ Swaps(p) \/ Ends(p) \/ Goes(p) \/ Grants(p)
<1>1. /\ proc[p] \in Process /\ proc \in [Procs -> Process] /\ RegsOK(proc[p])
      /\ PathOK(proc[p])
  BY View DEF TypeOK, Paths
<1>2. CASE Getblk(p)
  <2>1. live' = live
    BY <1>2 DEF Getblk, GetblkBusy, GetblkHit, GetblkMiss, GetnewbufNone,
       GetnewbufDirty, GetnewbufClean, BreallocSame, BreallocDirty,
       BreallocShrink, BreallocGrow, OverlapBusy, OverlapDirty, OverlapClean,
       OverlapNone, AllocbufFits, AllocbufGive, AllocbufMore, AllocbufTake,
       WaitFor, FlushSync, FlushAsync
  <2> QED BY <1>2, <2>1, GetblkMoves DEF Stays, Own
<1>3. CASE ReadDone(p)
  <2>1. live' = live
    BY <1>3 DEF ReadDone
  <2> QED BY <1>3, <2>1, ReadDoneMoves DEF Stays, Swaps, Own
<1>4. CASE WriteDone(p)
  <2>1. live' = live
    BY <1>4 DEF WriteDone
  <2>2. proc[p].ret # "user" => proc[p].ret \in {"getblk", "overlap", "blkflush"}
    BY <1>1, <1>4, WriteDoneMoves DEF RegsOK
  <2> QED BY <1>4, <2>1, <2>2, WriteDoneMoves DEF Stays, Goes, Own
<1>5. CASE Got(p)
  <2>1. CASE GotCached(p)
    BY <1>1, <1>3, <1>4, <2>1
    DEF GotCached, Stays, Own, PathOK, Running, Goto, Process
  <2>2. CASE GotUncached(p)
    BY <1>1, <1>3, <1>4, <2>2
    DEF GotUncached, Stays, Own, PathOK, Running, Goto, Process
  <2>3. CASE GotBlank(p)
    BY <1>1, <1>3, <1>4, <2>3
    DEF GotBlank, Stays, Own, PathOK, Running, Goto, Process
  <2>4. CASE BreadaFirst(p)
    BY <1>1, <1>3, <1>4, <2>4
    DEF BreadaFirst, Stays, Own, PathOK, Running, Goto, Process
  <2>5. CASE GotAhead(p)
    BY <1>1, <1>3, <1>4, <2>5
    DEF GotAhead, AheadOver, Stays, Swaps, Own, RegsOK, Running, Goto, Process
  <2>6. CASE BreadaAhead(p)
    BY <1>1, <1>3, <1>4, <2>6
    DEF BreadaAhead, AheadOver, Stays, Swaps, Own, RegsOK, Running, Goto,
        Process
  <2>7. CASE GotExtended(p)
    BY <1>1, <1>3, <1>4, <2>7 DEF GotExtended, Grants, Running, Goto, Process
  <2>8. CASE GotCopy(p)
    BY <1>1, <1>3, <1>4, <2>8 DEF GotCopy, Grants, Running, Goto, Process
  <2>9. CASE BreadaFinish(p)
    BY <1>1, <1>3, <1>4, <2>9
    DEF BreadaFinish, Ends, RegsOK, Running, Goto, Process
  <2>10. CASE Biowait(p)
    BY <1>1, <1>3, <1>4, <2>10 DEF Biowait, Stays, Running, Goto, Process
  <2>30. CASE ReadDone(p)
    BY <1>1, <1>3, <1>4, <2>30, ReadDoneMoves
  <2>31. CASE WriteDone(p)
    BY <1>1, <1>3, <1>4, <2>31 DEF WriteDone, Running, Goto, Process
  <2> QED
    BY <1>5, <2>1, <2>2, <2>3, <2>4, <2>5, <2>6, <2>7, <2>8, <2>9, <2>10,
       <2>30, <2>31
    DEF Got
<1>6. CASE Finish(p)
  <2>1. CASE Brelse(p)
    BY <1>1, <2>1 DEF Brelse, Leave, Goes, Running
  <2>2. CASE BflushReturn(p)
    BY <1>1, <2>2 DEF BflushReturn, Leave, Goes, Running
  <2>3. CASE BlkflushReturn(p)
    BY <1>1, <2>3 DEF BlkflushReturn, Leave, Goes, Running
  <2>4. CASE Bdwrite(p)
    BY <1>1, <2>4 DEF Bdwrite, Changing, Leave, Goes, Running
  <2>5. CASE Bawrite(p)
    BY <1>1, <2>5 DEF Bawrite, Changing, Leave, Goes, Running
  <2>6. CASE Bwrite(p)
    BY <1>1, <2>6 DEF Bwrite, Changing, Goto, Process, Stays, Own, Running
  <2>7. CASE BflushWrite(p)
    BY <1>1, <2>7 DEF BflushWrite, FlushAsync, Stays, Running
  <2>8. CASE BlkflushBusy(p)
    BY <1>1, <2>8 DEF BlkflushBusy, WaitFor, Stays, Running
  <2>9. CASE BlkflushDirty(p)
    BY <1>1, <2>9
    DEF BlkflushDirty, FlushSync, Goto, Process, Stays, Own, PathOK, Running
  <2> QED
    BY <1>6, <2>1, <2>2, <2>3, <2>4, <2>5, <2>6, <2>7, <2>8, <2>9 DEF Finish
<1> QED BY <1>2, <1>5, <1>6 DEF Step

\* The extents of who is still in a call are among those of before.
LEMMA FewerExtents ==
    ASSUME IInv, NEW p \in Procs, Paths, Step(p)
    PROVE  /\ proc'[p].want \in {proc[p].want, proc[p].ra, NoExtent}
           /\ proc'[p].ra \in {proc[p].want, proc[p].ra, NoExtent}
           /\ proc'[p].op \in Exclusive => proc[p].op \in Exclusive
           /\ proc'[p].op \in {"reada", "ahead"} => proc[p].op \in {"reada", "ahead"}
           /\ proc[p].op = "read" => proc'[p].op \in {"read", "none"}
  BY StepExtents DEF Stays, Swaps, Ends, Goes, Grants, Idle, Empty, Exclusive

\* What a call may do to them.
Enters(p) ==
    LET r == proc'[p]
    IN  /\ Own(r) = r.want /\ r.op \notin {"extended", "copy", "ahead"}
        /\ live' = live \/ (live' = live \cup {r.want} /\ r.op \in Exclusive)
        /\ r.op \in Exclusive =>
              /\ r.want \in live' /\ r.want \in FileExtent
              /\ \A f \in live' \ {r.want} : Disjoint(f, r.want) /\ Disjoint(f, r.ra)
              /\ \A q \in Procs \ {p} : Separate(r, proc[q])
        /\ r.op # "read" \/ "cooked" \notin Calls =>
              \A q \in Procs \ {p} :
                 proc[q].op \in Exclusive => Separate(proc[q], r)
        /\ r.op = "reada" => Disjoint(r.want, r.ra)

LEMMA CallExtents ==
    ASSUME IInv, LiveOK, NEW p \in Procs, Call(p)
    PROVE  Enters(p)
<1>0. TypeOK
  BY View
<1>1. ASSUME NEW e, NEW q \in Procs, Using(e) = {}
      PROVE  /\ Disjoint(proc[q].want, e) /\ Disjoint(proc[q].ra, e)
             /\ Disjoint(e, proc[q].want) /\ Disjoint(e, proc[q].ra)
  BY <1>1, Apartness DEF Using
<1>2. ASSUME NEW e, NEW q \in Procs, Usable(e), proc[q].op \in Exclusive
      PROVE  Disjoint(proc[q].want, e) /\ Disjoint(proc[q].ra, e)
  BY <1>2 DEF Usable, Using
<1>3. ASSUME NEW e \in live, NEW f \in live, e # f
      PROVE  Disjoint(e, f)
  BY <1>3 DEF LiveOK
<1>4. NoExtent \notin live
  BY Solid DEF LiveOK
<1>5. \A e : Usable(e) => e \in live
  BY DEF Usable
<1>6. ASSUME NEW e, NEW own, Allocatable(e, own)
      PROVE  Using(e) = {} /\ \A f \in live \ {own} : Disjoint(f, e)
  BY <1>6, Apartness DEF Allocatable
<1> HIDE DEF Disjoint, Using, Usable, Allocatable
<1>10. ASSUME NEW e \in FileExtent, NEW new \in FileExtent,
              Breada(p, e, new) \/ Extend(p, e, new) \/ Move(p, e, new)
       PROVE  Enters(p)
  <2>1. CASE Breada(p, e, new)
    <3>1. /\ proc'[p] = Empty("breada", "reada", e, new) /\ live' = live
          /\ Usable(e) /\ Usable(new) /\ e # new
      BY <1>0, <2>1, EnterSets DEF Breada
    <3> QED
      BY <1>2, <1>3, <1>5, <3>1, Apartness
      DEF Enters, Empty, Own, Exclusive, Separate
  <2>2. CASE Extend(p, e, new)
    <3>1. /\ proc'[p] = Empty("getblk", "extend", e, new) /\ live' = live
          /\ Usable(e) /\ Using(e) = {} /\ Allocatable(new, e)
      BY <1>0, <2>2, EnterSets DEF Extend
    <3> QED
      BY <1>1, <1>3, <1>5, <1>6, <3>1, Apartness
      DEF Enters, Empty, Own, Exclusive, Separate
  <2>3. CASE Move(p, e, new)
    <3>1. /\ proc'[p] = Empty("getblk", "move", e, new) /\ live' = live
          /\ Usable(e) /\ Using(e) = {} /\ Allocatable(new, NoExtent)
      BY <1>0, <2>3, EnterSets DEF Move
    <3> QED
      BY <1>1, <1>3, <1>4, <1>5, <1>6, <3>1, Apartness
      DEF Enters, Empty, Own, Exclusive, Separate
  <2> QED BY <1>10, <2>1, <2>2, <2>3
<1>11. ASSUME NEW e \in FileExtent,
              \/ Bread(p, e) \/ CookedRead(p, e) \/ Overwrite(p, e) \/ Alloc(p, e)
              \/ Blkflush(p, e)
       PROVE  Enters(p)
  <2>1. CASE Bread(p, e)
    <3>1. proc'[p] = Empty("getblk", "read", e, NoExtent) /\ live' = live /\ Usable(e)
      BY <1>0, <2>1, EnterSets DEF Bread
    <3> QED
      BY <1>2, <3>1, Apartness DEF Enters, Empty, Own, Exclusive, Separate
  <2>2. CASE CookedRead(p, e)
    <3>1. /\ proc'[p] = Empty("getblk", "read", e, NoExtent) /\ live' = live
          /\ "cooked" \in Calls
      BY <1>0, <2>2, EnterSets DEF CookedRead
    <3> QED BY <3>1 DEF Enters, Empty, Own, Exclusive
  <2>3. CASE Overwrite(p, e)
    <3>1. /\ proc'[p] = Empty("getblk", "overwrite", e, NoExtent) /\ live' = live
          /\ Usable(e) /\ Using(e) = {}
      BY <1>0, <2>3, EnterSets DEF Overwrite
    <3> QED
      BY <1>1, <1>3, <1>5, <3>1, Apartness
      DEF Enters, Empty, Own, Exclusive, Separate
  <2>4. CASE Alloc(p, e)
    <3>1. /\ proc'[p] = Empty("getblk", "overwrite", e, NoExtent)
          /\ live' = live \cup {e} /\ Allocatable(e, NoExtent)
      BY <1>0, <2>4, EnterSets DEF Alloc
    <3> QED
      BY <1>1, <1>4, <1>6, <3>1, Apartness
      DEF Enters, Empty, Own, Exclusive, Separate
  <2>5. CASE Blkflush(p, e)
    <3>1. proc'[p] = Empty("blkflush", "flush", e, NoExtent) /\ live' = live /\ Usable(e)
      BY <1>0, <2>5, EnterSets DEF Blkflush
    <3> QED
      BY <1>2, <3>1, Apartness DEF Enters, Empty, Own, Exclusive, Separate
  <2> QED BY <1>11, <2>1, <2>2, <2>3, <2>4, <2>5
<1>12. ASSUME NEW n \in 1 .. BlockFrags, Geteblk(p, n) PROVE Enters(p)
  <2>1. /\ proc'[p] = Empty("getnewbuf", "anon", [start |-> NODEV, size |-> n], NoExtent)
        /\ live' = live
    BY <1>0, <1>12, EnterSets DEF Geteblk
  <2>2. \A e : Disjoint(e, [start |-> NODEV, size |-> n])
    BY DEF Disjoint, FragsOf, Frags
  <2> QED
    BY <2>1, <2>2, Apartness DEF Enters, Empty, Own, Exclusive, Separate
<1>13. CASE Bflush(p)
  <2>1. proc'[p] = Empty("bflush", "flush", NoExtent, NoExtent) /\ live' = live
    BY <1>0, <1>13, EnterSets DEF Bflush
  <2> QED
    BY <2>1, Apartness DEF Enters, Empty, Own, Exclusive, Separate
<1> QED
  BY <1>10, <1>11, <1>12, <1>13 DEF Call

LEMMA LiveStep ==
    ASSUME IInv, Paths, LiveInv, NEW p \in Procs, Step(p)
    PROVE  LiveInv'
<1>0. \A q \in Procs \ {p} : proc'[q] = proc[q]
  BY ActsAlone DEF Act
<1>1. /\ LiveOK /\ PathOK(proc[p])
      /\ \A q \in Procs : Mine(q) /\ InSequence(q)
      /\ \A q \in Procs, r \in Procs : q # r => Apart(q, r)
  BY DEF LiveInv, Paths
<1>2. \A q \in Procs : Own(proc[q]) \in {proc[q].want, proc[q].ra}
  BY DEF Own
<1>3. CASE Grants(p)
  <2> USE DEF Grants
  <2>1. /\ Own(proc[p]) = proc[p].ra /\ Own(proc'[p]) = proc[p].want
        /\ proc[p].op \in Exclusive
        /\ proc[p].want \in FileExtent
    BY <1>1, <1>3 DEF Own, Exclusive, PathOK
  <2>2. \A f \in live \ {proc[p].ra} :
           /\ Disjoint(f, proc[p].want) /\ Disjoint(f, proc[p].ra)
           /\ Disjoint(proc[p].want, f)
    BY <1>1, <2>1, Apartness DEF Mine
  <2> HIDE DEF Disjoint
  <2>3. LiveOK'
    BY <1>1, <1>3, <2>1, <2>2 DEF LiveOK
  <2>4. Mine(p)'
    BY <1>3, <2>1, <2>2 DEF Mine
  <2>5. ASSUME NEW q \in Procs \ {p}, proc[q].op \in Exclusive
        PROVE  /\ Own(proc[q]) \in live'
               /\ \A f \in live' \ {Own(proc[q])} :
                    Disjoint(f, proc[q].want) /\ Disjoint(f, proc[q].ra)
    <3>1. Separate(proc[p], proc[q])
      BY <1>1, <2>1, <2>5 DEF Apart, Exclusive
    <3>2. /\ Own(proc[q]) \in live /\ ~Disjoint(Own(proc[q]), Own(proc[q]))
          /\ \A f \in live \ {Own(proc[q])} :
                    Disjoint(f, proc[q].want) /\ Disjoint(f, proc[q].ra)
      BY <1>1, <2>5, Solid DEF Mine, LiveOK
    <3>3. Own(proc[q]) # proc[p].ra
      BY <1>2, <3>1, <3>2 DEF Separate
    <3> QED BY <1>3, <3>1, <3>2, <3>3 DEF Separate
  <2>6. \A q \in Procs \ {p} : Mine(q)'
    BY <1>0, <2>5 DEF Mine
  <2>7. \A q \in Procs : InSequence(q)'
    BY <1>0, <1>1, <1>3 DEF InSequence
  <2>8. \A q \in Procs, r \in Procs : q # r => Apart(q, r)'
    <3>1. \A q \in Procs : /\ proc'[q].op = proc[q].op /\ proc'[q].want = proc[q].want
                           /\ proc'[q].ra = proc[q].ra
      BY <1>0, <1>3
    <3> QED BY <1>1, <3>1 DEF Apart, Separate
  <2> QED BY <2>3, <2>4, <2>6, <2>7, <2>8 DEF LiveInv
<1>4. CASE ~Grants(p)
  <2>1. live' = live
    BY <1>4, StepExtents DEF Stays, Swaps, Ends, Goes
  <2> HIDE DEF Disjoint
  <2>2. LiveOK'
    BY <1>1, <2>1 DEF LiveOK
  <2>3. Mine(p)' /\ InSequence(p)'
    <3>1. CASE Stays(p)
      BY <1>1, <3>1 DEF Stays, Mine, InSequence
    <3>2. CASE Swaps(p)
      BY <1>1, <3>2, Apartness DEF Swaps, Mine, InSequence, Own, Exclusive
    <3>3. CASE Ends(p) \/ Goes(p)
      BY <3>3 DEF Ends, Goes, Mine, InSequence, Exclusive, Idle, Empty
    <3> QED BY <1>4, <3>1, <3>2, <3>3, StepExtents
  <2>4. \A q \in Procs \ {p} : Mine(q)' /\ InSequence(q)'
    BY <1>0, <1>1, <2>1 DEF Mine, InSequence
  <2>5. ASSUME NEW q \in Procs \ {p} PROVE Apart(p, q)' /\ Apart(q, p)'
    <3>1. Apart(p, q) /\ Apart(q, p) /\ proc'[q] = proc[q]
      BY <1>0, <1>1
    <3>2. /\ proc'[p].want \in {proc[p].want, proc[p].ra, NoExtent}
          /\ proc'[p].ra \in {proc[p].want, proc[p].ra, NoExtent}
          /\ proc'[p].op \in Exclusive => proc[p].op \in Exclusive
      BY FewerExtents
    <3>3. CASE proc'[p].op # "none"
      <4>1. proc[p].op = "read" => proc'[p].op = "read"
        BY <3>3, FewerExtents
      <4> QED BY <3>1, <3>2, <4>1, Apartness DEF Apart, Separate
    <3>4. CASE proc'[p].op = "none"
      <4>1. PathOK(proc'[p])
        BY StepPath
      <4>2. proc'[p].want = NoExtent /\ proc'[p].ra = NoExtent
        BY <3>4, <4>1 DEF PathOK, Paired
      <4> QED BY <3>1, <4>2, Apartness DEF Apart, Separate
    <3> QED BY <3>3, <3>4
  <2>6. \A q, r \in Procs : q # r => Apart(q, r)'
    <3> SUFFICES ASSUME NEW q \in Procs, NEW r \in Procs, q # r PROVE Apart(q, r)'
      OBVIOUS
    <3>1. CASE q # p /\ r # p
      BY <1>0, <1>1, <3>1 DEF Apart, Separate
    <3> QED BY <2>5, <3>1
  <2> QED BY <2>2, <2>3, <2>4, <2>6 DEF LiveInv
<1> QED BY <1>3, <1>4

LEMMA LiveCall ==
    ASSUME IInv, LiveInv, NEW p \in Procs, Call(p)
    PROVE  LiveInv'
<1>0. \A q \in Procs \ {p} : proc'[q] = proc[q]
  BY ActsAlone DEF Act
<1>1. /\ LiveOK
      /\ \A q \in Procs : Mine(q) /\ InSequence(q)
      /\ \A q, r \in Procs : q # r => Apart(q, r)
  BY DEF LiveInv
<1>2. Enters(p)
  BY <1>1, CallExtents
<1> HIDE DEF Disjoint
<1>3. LiveOK'
  BY <1>1, <1>2, Apartness DEF LiveOK, Enters
<1>4. Mine(p)' /\ InSequence(p)'
  BY <1>2 DEF Mine, InSequence, Enters
<1>5. ASSUME NEW q \in Procs \ {p} PROVE Mine(q)' /\ InSequence(q)'
  <2>1. Mine(q) /\ InSequence(q) /\ proc'[q] = proc[q]
    BY <1>0, <1>1
  <2>2. CASE live' = live
    BY <2>1, <2>2 DEF Mine, InSequence
  <2>3. CASE live' = live \cup {proc'[p].want} /\ proc'[p].op \in Exclusive
    <3>1. Separate(proc'[p], proc[q])
      BY <1>2, <2>3 DEF Enters
    <3> QED BY <2>1, <2>3, <3>1 DEF Mine, InSequence, Separate
  <2> QED BY <1>2, <2>2, <2>3 DEF Enters
<1>6. ASSUME NEW q \in Procs \ {p} PROVE Apart(p, q)' /\ Apart(q, p)'
  BY <1>0, <1>2 DEF Enters, Apart
<1>7. ASSUME NEW q \in Procs, NEW r \in Procs, q # r PROVE Apart(q, r)'
  <2>1. CASE q # p /\ r # p
    BY <1>0, <1>1, <1>7, <2>1 DEF Apart, Separate
  <2> QED BY <1>6, <1>7, <2>1
<1> QED BY <1>3, <1>4, <1>5, <1>6, <1>7 DEF LiveInv

LEMMA LiveFree ==
    ASSUME LiveInv, NEW e \in live, FreeExtent(e)
    PROVE  LiveInv'
<1>1. proc' = proc /\ live' = live \ {e} /\ Using(e) = {}
  BY DEF FreeExtent
<1>2. LiveOK'
  BY <1>1 DEF LiveInv, LiveOK
<1>3. ASSUME NEW q \in Procs PROVE Mine(q)'
  <2>1. Own(proc[q]) # e
    <3>1. Disjoint(proc[q].want, e) /\ Disjoint(proc[q].ra, e)
      BY <1>1 DEF Using
    <3>2. ~Disjoint(e, e)
      BY Solid DEF LiveInv, LiveOK
    <3> QED BY <3>1, <3>2 DEF Own
  <2> QED BY <1>1, <2>1 DEF LiveInv, Mine
<1> QED BY <1>1, <1>2, <1>3 DEF LiveInv, InSequence, Apart

LEMMA LiveNext ==
    ASSUME IInv, Paths, LiveInv, [Next]_vars
    PROVE  LiveInv'
<1>1. ASSUME UNCHANGED <<live, proc>> PROVE LiveInv'
  BY <1>1 DEF LiveInv, LiveOK, Mine, InSequence, Apart
<1>2. ASSUME NEW p \in Procs, Dispatch(p) \/ Pause(p) PROVE LiveInv'
  BY <1>1, <1>2 DEF Dispatch, Pause
<1>3. ASSUME NEW b \in Bufs, NEW err \in IOErrors, Biodone(b, err) PROVE LiveInv'
  BY <1>1, <1>3 DEF Biodone
<1> QED
  BY <1>1, <1>2, <1>3, LiveStep, LiveCall, LiveFree DEF Next, vars

LEMMA InitLive == Init => LiveInv
  BY DEF Init, LiveInv, LiveOK, Mine, InSequence, Apart, Exclusive, Idle, Empty

------------------------------------------------------------------------------
(* Whoever waits for a transfer waits for one under way. *)

BioOK(p) ==
    /\ proc[p].pc = "biowait" => Is(proc[p].bp, "DONE") \/ proc[p].bp \in io
    /\ proc[p].pc = "bwrite" => Is(proc[p].ep, "DONE") \/ proc[p].ep \in io
    /\ proc[p].op \in {"reada", "ahead"} /\ proc[p].first # None =>
          Is(proc[p].first, "DONE") \/ proc[p].first \in io

\* The buffer a process has put aside stays as it is until it is released.
LEMMA FirstKept ==
    ASSUME IInv, Shapes, NEW p \in Procs, Act(p), proc[p].first # None,
           proc[p].op # "copy"
    PROVE  proc[p].first \in Bufs /\ Kept(proc[p].first)
<1> DEFINE b == proc[p].first
<1>1. proc[p] \in Process /\ Distinct(proc[p]) /\ RegsOK(proc[p])
  BY View
<1>2. b \in Bufs /\ Holds(p, b) /\ ~Free(b) /\ b # proc[p].bp /\ b # proc[p].ep
  BY <1>1, HeldUnique DEF Process, Holds, Free, Distinct
<1>3. Touched(p, b)
  BY <1>2, ActTouches
<1>4. Passed(p, b)
  BY <1>2, <1>3
  DEF Touched, Found, Flushed, Updated, Claimed, Opened, Dropped, Fitted, Given,
      Enlarged, Robbing, Fetched, Completing, Returned, Put, Free
<1> QED BY <1>2, <1>4 DEF Passed

\* Every call begins without a buffer.
LEMMA CallEmpty ==
    ASSUME IInv, NEW p \in Procs, Call(p)
    PROVE  /\ proc'[p].pc \in {"getblk", "getnewbuf", "breada", "bflush", "blkflush"}
           /\ proc'[p].bp = None /\ proc'[p].ep = None /\ proc'[p].first = None
           /\ cpu = None /\ proc[p].pc = "user"
           /\ UNCHANGED <<buf, io, dcur, fwant, slp>> /\ cpu' = p
<1>1. TypeOK
  BY View
<1>2. PICK pc, op, want, ra :
        /\ Enter(p, pc, op, want, ra)
        /\ pc \in {"getblk", "getnewbuf", "breada", "bflush", "blkflush"}
  <2>1. ASSUME NEW pc, NEW op, NEW want, NEW ra, Enter(p, pc, op, want, ra),
               pc \in {"getblk", "getnewbuf", "breada", "bflush", "blkflush"}
        PROVE  \E c, o, w, a :
                  /\ Enter(p, c, o, w, a)
                  /\ c \in {"getblk", "getnewbuf", "breada", "bflush", "blkflush"}
    BY <2>1
  <2> QED
    BY <2>1 DEF Call, Bread, CookedRead, Breada, Overwrite, Alloc, Extend, Move,
       Geteblk, Bflush, Blkflush
<1>3. proc'[p] = Empty(pc, op, want, ra)
  BY <1>1, <1>2, EnterSets
<1> QED BY <1>2, <1>3 DEF Empty, Enter

\* The three parts of BioOK, for the process that moves.
LEMMA BioReads ==
    ASSUME IInv, Shapes, NEW p \in Procs, BioOK(p), Step(p),
           proc'[p].pc = "biowait"
    PROVE  "DONE" \in buf'[proc'[p].bp].flags \/ proc'[p].bp \in io'
<1>0. proc[p] \in Process /\ proc \in [Procs -> Process] /\ RegsOK(proc[p])
      /\ buf \in [Bufs -> Buffer]
  BY View DEF TypeOK
<1>1. ~Getblk(p)
  BY GetblkMoves
<1>3. CASE Finish(p)
  <2>1. CASE Brelse(p)
    BY <1>0, <2>1 DEF Brelse, Leave, Idle, Empty, Running
  <2>2. CASE BflushReturn(p)
    BY <1>0, <2>2 DEF BflushReturn, Leave, Idle, Empty, Running
  <2>3. CASE BlkflushReturn(p)
    BY <1>0, <2>3 DEF BlkflushReturn, Leave, Idle, Empty, Running
  <2>4. CASE Bdwrite(p)
    BY <1>0, <2>4 DEF Bdwrite, Changing, Leave, Idle, Empty, Running
  <2>5. CASE Bawrite(p)
    BY <1>0, <2>5 DEF Bawrite, Changing, Leave, Idle, Empty, Running
  <2>6. CASE Bwrite(p)
    BY <1>0, <2>6 DEF Bwrite, Changing, Goto, Process, Running
  <2>7. CASE BflushWrite(p)
    BY <1>0, <2>7 DEF BflushWrite, FlushAsync, Running
  <2>8. CASE BlkflushBusy(p)
    BY <1>0, <2>8 DEF BlkflushBusy, WaitFor, Running
  <2>9. CASE BlkflushDirty(p)
    BY <1>0, <2>9 DEF BlkflushDirty, FlushSync, Goto, Process, Running
  <2> QED
    BY <1>3, <2>1, <2>2, <2>3, <2>4, <2>5, <2>6, <2>7, <2>8, <2>9 DEF Finish
<1>4. CASE Got(p)
  <2>1. CASE GotCached(p)
    BY <1>0, <2>1 DEF GotCached, Is, Goto, Running, Process
  <2>2. CASE GotUncached(p)
    BY <1>0, <2>2 DEF GotUncached, Goto, Running, Process
  <2>3. CASE GotAhead(p)
    BY <1>0, <2>3 DEF GotAhead, AheadOver, Goto, Running, Process
  <2>4. CASE GotBlank(p)
    BY <1>0, <2>4 DEF GotBlank, Goto, Running, Process
  <2>5. CASE GotExtended(p)
    BY <1>0, <2>5 DEF GotExtended, Goto, Running, Process
  <2>6. CASE GotCopy(p)
    BY <1>0, <2>6 DEF GotCopy, Goto, Running, Process
  <2>7. CASE BreadaFirst(p)
    BY <1>0, <2>7 DEF BreadaFirst, Goto, Running, Process
  <2>8. CASE BreadaAhead(p)
    BY <1>0, <2>8 DEF BreadaAhead, Goto, Running, Process
  <2>15. CASE BreadaFinish(p)
    <3>1. /\ proc[p].op \in {"reada", "ahead"} /\ proc[p].first # None
          /\ proc'[p].bp = proc[p].first
      BY <1>0, <2>15 DEF BreadaFinish, RegsOK, Goto, Running, Process
    <3>2. buf' = buf /\ io' = io
      BY <2>15 DEF BreadaFinish
    <3> QED BY <3>1, <3>2 DEF BioOK, Is
  <2>16. CASE Biowait(p)
    BY <1>0, <2>16 DEF Biowait, BioOK, Is, Goto, Running, Process
  <2>30. CASE ReadDone(p)
    BY <1>0, <2>30, ReadDoneMoves
  <2>31. CASE WriteDone(p)
    BY <1>0, <2>31, WriteDoneMoves DEF RegsOK, Idle, Empty
  <2> QED
    BY <1>4, <2>1, <2>2, <2>3, <2>4, <2>5, <2>6, <2>7, <2>8, <2>15, <2>16,
       <2>30, <2>31
    DEF Got
<1> QED BY <1>1, <1>3, <1>4 DEF Step

LEMMA BioWrites ==
    ASSUME IInv, Shapes, NEW p \in Procs, BioOK(p), Step(p),
           proc'[p].pc = "bwrite"
    PROVE  "DONE" \in buf'[proc'[p].ep].flags \/ proc'[p].ep \in io'
<1>0. proc[p] \in Process /\ proc \in [Procs -> Process] /\ RegsOK(proc[p])
      /\ buf \in [Bufs -> Buffer]
  BY View DEF TypeOK
<1>1. CASE Getblk(p)
  <2>1. CASE GetblkBusy(p)
    BY <1>0, <2>1 DEF GetblkBusy, WaitFor, Goto, Running, Process
  <2>2. CASE OverlapBusy(p)
    BY <1>0, <2>2 DEF OverlapBusy, WaitFor, Goto, Running, Process
  <2>3. CASE GetblkHit(p)
    BY <1>0, <2>3 DEF GetblkHit, Goto, Running, Process
  <2>4. CASE GetblkMiss(p)
    BY <1>0, <2>4 DEF GetblkMiss, Goto, Running, Process
  <2>5. CASE GetnewbufNone(p)
    BY <1>0, <2>5 DEF GetnewbufNone, Goto, Running, Process
  <2>6. CASE GetnewbufClean(p)
    BY <1>0, <2>6 DEF GetnewbufClean, Goto, Running, Process
  <2>7. CASE BreallocSame(p)
    BY <1>0, <2>7 DEF BreallocSame, Goto, Running, Process
  <2>8. CASE BreallocDirty(p)
    BY <1>0, <2>8 DEF BreallocDirty, Goto, Running, Process
  <2>9. CASE BreallocShrink(p)
    BY <1>0, <2>9 DEF BreallocShrink, Goto, Running, Process
  <2>10. CASE BreallocGrow(p)
    BY <1>0, <2>10 DEF BreallocGrow, Goto, Running, Process
  <2>11. CASE OverlapClean(p)
    BY <1>0, <2>11 DEF OverlapClean, Goto, Running, Process
  <2>12. CASE OverlapNone(p)
    BY <1>0, <2>12 DEF OverlapNone, Goto, Running, Process
  <2>13. CASE AllocbufFits(p)
    BY <1>0, <2>13 DEF AllocbufFits, Goto, Running, Process
  <2>14. CASE AllocbufGive(p)
    BY <1>0, <2>14 DEF AllocbufGive, Goto, Running, Process
  <2>15. CASE AllocbufMore(p)
    BY <1>0, <2>15 DEF AllocbufMore, Goto, Running, Process
  <2>16. CASE AllocbufTake(p)
    BY <1>0, <2>16 DEF AllocbufTake, Goto, Running, Process
  <2>17. CASE OverlapDirty(p)
    BY <1>0, <2>17 DEF OverlapDirty, FlushSync, Goto, Running, Process
  <2>18. CASE GetnewbufDirty(p)
    BY <1>0, <2>18 DEF GetnewbufDirty, FlushAsync, Goto, Running, Process
  <2> QED
    BY <1>1, <2>1, <2>2, <2>3, <2>4, <2>5, <2>6, <2>7, <2>8, <2>9, <2>10,
       <2>11, <2>12, <2>13, <2>14, <2>15, <2>16, <2>17, <2>18
    DEF Getblk
<1>2. CASE Finish(p)
  <2>1. CASE Brelse(p)
    BY <1>0, <2>1 DEF Brelse, Leave, Idle, Empty, Running
  <2>2. CASE BflushReturn(p)
    BY <1>0, <2>2 DEF BflushReturn, Leave, Idle, Empty, Running
  <2>3. CASE BlkflushReturn(p)
    BY <1>0, <2>3 DEF BlkflushReturn, Leave, Idle, Empty, Running
  <2>4. CASE Bdwrite(p)
    BY <1>0, <2>4 DEF Bdwrite, Changing, Leave, Idle, Empty, Running
  <2>5. CASE Bawrite(p)
    BY <1>0, <2>5 DEF Bawrite, Changing, Leave, Idle, Empty, Running
  <2>6. CASE Bwrite(p)
    BY <1>0, <2>6 DEF Bwrite, Changing, Goto, Process, Running
  <2>7. CASE BflushWrite(p)
    BY <1>0, <2>7 DEF BflushWrite, FlushAsync, Running
  <2>8. CASE BlkflushBusy(p)
    BY <1>0, <2>8 DEF BlkflushBusy, WaitFor, Running
  <2>9. CASE BlkflushDirty(p)
    BY <1>0, <2>9 DEF BlkflushDirty, FlushSync, Goto, Process, Running
  <2> QED
    BY <1>2, <2>1, <2>2, <2>3, <2>4, <2>5, <2>6, <2>7, <2>8, <2>9 DEF Finish
<1>3. CASE Got(p)
  <2>1. CASE GotCached(p)
    BY <1>0, <2>1 DEF GotCached, Goto, Running, Process
  <2>2. CASE GotUncached(p)
    BY <1>0, <2>2 DEF GotUncached, Goto, Running, Process
  <2>3. CASE GotBlank(p)
    BY <1>0, <2>3 DEF GotBlank, Goto, Running, Process
  <2>4. CASE GotExtended(p)
    BY <1>0, <2>4 DEF GotExtended, Goto, Running, Process
  <2>5. CASE GotCopy(p)
    BY <1>0, <2>5 DEF GotCopy, Goto, Running, Process
  <2>6. CASE BreadaFirst(p)
    BY <1>0, <2>6 DEF BreadaFirst, Goto, Running, Process
  <2>7. CASE BreadaFinish(p)
    BY <1>0, <2>7 DEF BreadaFinish, Goto, Running, Process
  <2>8. CASE BreadaAhead(p)
    BY <1>0, <2>8 DEF BreadaAhead, RegsOK, Goto, Running, Process
  <2>9. CASE GotAhead(p)
    BY <1>0, <2>9 DEF GotAhead, AheadOver, Goto, Running, Process
  <2>10. CASE Biowait(p)
    BY <1>0, <2>10 DEF Biowait, BioOK, Is, Goto, Running, Process
  <2>30. CASE ReadDone(p)
    BY <1>0, <2>30, ReadDoneMoves
  <2>31. CASE WriteDone(p)
    BY <1>0, <2>31, WriteDoneMoves DEF RegsOK, Idle, Empty
  <2> QED
    BY <1>3, <2>1, <2>2, <2>3, <2>4, <2>5, <2>6, <2>7, <2>8, <2>9, <2>10,
       <2>30, <2>31
    DEF Got
<1> QED BY <1>1, <1>2, <1>3 DEF Step

LEMMA BioFirst ==
    ASSUME IInv, Shapes, NEW p \in Procs, BioOK(p), Step(p),
           proc'[p].op \in {"reada", "ahead"}, proc'[p].first # None
    PROVE  "DONE" \in buf'[proc'[p].first].flags \/ proc'[p].first \in io'
<1>0. proc[p] \in Process /\ proc \in [Procs -> Process] /\ RegsOK(proc[p])
      /\ buf \in [Bufs -> Buffer]
  BY View DEF TypeOK
<1>1. CASE GotUncached(p)
  BY <1>0, <1>1 DEF GotUncached, Goto, Running, Process, RegsOK
<1>2. CASE ~GotUncached(p)
  <2>1. proc'[p].first = proc[p].first /\ proc[p].op \in {"reada", "ahead"}
    <3>1. CASE Getblk(p)
      BY <3>1, GetblkMoves
    <3>2. CASE Finish(p)
      <4>1. CASE Brelse(p)
        BY <1>0, <4>1 DEF Brelse, Leave, Idle, Empty, Running
      <4>2. CASE BflushReturn(p)
        BY <1>0, <4>2 DEF BflushReturn, Leave, Idle, Empty, Running
      <4>3. CASE BlkflushReturn(p)
        BY <1>0, <4>3 DEF BlkflushReturn, Leave, Idle, Empty, Running
      <4>4. CASE Bdwrite(p)
        BY <1>0, <4>4 DEF Bdwrite, Changing, Leave, Idle, Empty, Running
      <4>5. CASE Bawrite(p)
        BY <1>0, <4>5 DEF Bawrite, Changing, Leave, Idle, Empty, Running
      <4>6. CASE Bwrite(p)
        BY <1>0, <4>6 DEF Bwrite, Changing, Goto, Process, Running
      <4>7. CASE BflushWrite(p)
        BY <1>0, <4>7 DEF BflushWrite, FlushAsync, Running
      <4>8. CASE BlkflushBusy(p)
        BY <1>0, <4>8 DEF BlkflushBusy, WaitFor, Running
      <4>9. CASE BlkflushDirty(p)
        BY <1>0, <4>9 DEF BlkflushDirty, FlushSync, Goto, Process, Running
      <4> QED
        BY <3>2, <4>1, <4>2, <4>3, <4>4, <4>5, <4>6, <4>7, <4>8, <4>9
        DEF Finish
    <3>3. CASE Got(p)
      <4>1. CASE GotCached(p)
        BY <1>0, <1>2, <4>1 DEF GotCached, Goto, Running, Process
      <4>2. CASE GotUncached(p)
        BY <1>0, <1>2, <4>2 DEF GotUncached, Goto, Running, Process
      <4>3. CASE GotBlank(p)
        BY <1>0, <1>2, <4>3 DEF GotBlank, Goto, Running, Process
      <4>4. CASE GotExtended(p)
        BY <1>0, <1>2, <4>4 DEF GotExtended, Goto, Running, Process
      <4>5. CASE GotCopy(p)
        BY <1>0, <1>2, <4>5 DEF GotCopy, Goto, Running, Process
      <4>6. CASE BreadaFirst(p)
        BY <1>0, <1>2, <4>6 DEF BreadaFirst, Goto, Running, Process
      <4>7. CASE BreadaFinish(p)
        BY <1>0, <1>2, <4>7 DEF BreadaFinish, Goto, Running, Process
      <4>8. CASE Biowait(p)
        BY <1>0, <1>2, <4>8 DEF Biowait, Goto, Running, Process
      <4>9. CASE BreadaAhead(p)
        BY <1>0, <1>2, <4>9 DEF BreadaAhead, RegsOK, Goto, Running, Process
      <4>10. CASE GotAhead(p)
        BY <1>0, <1>2, <4>10 DEF GotAhead, AheadOver, Goto, Running, Process
      <4>30. CASE ReadDone(p)
        BY <1>0, <1>2, <4>30, ReadDoneMoves
      <4>31. CASE WriteDone(p)
        BY <1>0, <1>2, <4>31, WriteDoneMoves DEF RegsOK, Idle, Empty
      <4> QED
        BY <3>3, <4>1, <4>2, <4>3, <4>4, <4>5, <4>6, <4>7, <4>8, <4>9, <4>10,
           <4>30, <4>31
        DEF Got
    <3> QED BY <3>1, <3>2, <3>3 DEF Step
  <2>2. proc[p].first \in Bufs /\ Kept(proc[p].first)
    BY <2>1, FirstKept DEF Act
  <2> QED BY <2>1, <2>2 DEF BioOK, Kept, Is
<1> QED BY <1>1, <1>2

LEMMA BioAct ==
    ASSUME IInv, Shapes, NEW p \in Procs, Act(p), \A q \in Procs : BioOK(q)
    PROVE  \A q \in Procs : BioOK(q)'
<1>1. BioOK(p)'
  <2>1. CASE Call(p)
    BY <2>1, CallEmpty DEF BioOK
  <2>2. CASE Dispatch(p) \/ Pause(p)
    BY <2>2 DEF Dispatch, Pause, BioOK, Is
  <2>3. CASE Step(p)
    BY <2>3, BioReads, BioWrites, BioFirst DEF BioOK, Is
  <2> QED BY <2>1, <2>2, <2>3 DEF Act
<1>2. ASSUME NEW q \in Procs \ {p} PROVE BioOK(q)'
  <2>1. proc'[q] = proc[q] /\ proc[q] \in Process /\ RegsOK(proc[q])
    BY ActsAlone, View
  <2>2. ASSUME NEW b \in Bufs, Holds(q, b) PROVE Kept(b)
    BY <2>2, HeldUnique, OthersKept DEF Free
  <2>3. proc[q].pc = "biowait" => Kept(proc[q].bp)
    BY <2>1, <2>2 DEF RegsOK, Holds, Process
  <2>4. proc[q].pc = "bwrite" => Kept(proc[q].ep)
    BY <2>1, <2>2 DEF RegsOK, Holds, Process
  <2>5. proc[q].first # None => Kept(proc[q].first)
    BY <2>1, <2>2 DEF Holds, Process
  <2> QED BY <2>1, <2>3, <2>4, <2>5 DEF BioOK, Kept, Is
<1> QED BY <1>1, <1>2

LEMMA BioNext ==
    ASSUME IInv, Shapes, \A p \in Procs : BioOK(p), [Next]_vars
    PROVE  \A p \in Procs : BioOK(p)'
<1>1. ASSUME UNCHANGED <<buf, io, proc>> PROVE \A p \in Procs : BioOK(p)'
  BY <1>1 DEF BioOK, Is
<1>2. ASSUME NEW b \in Bufs, NEW err \in IOErrors, Biodone(b, err)
      PROVE  \A p \in Procs : BioOK(p)'
  <2> SUFFICES ASSUME NEW p \in Procs PROVE BioOK(p)'
    OBVIOUS
  <2>1. proc[p] \in Process /\ RegsOK(proc[p])
    BY View
  <2>2. ASSUME NEW c \in Bufs, Is(c, "DONE") \/ c \in io
        PROVE  "DONE" \in buf'[c].flags \/ c \in io'
    <3>1. CASE c # b
      BY <1>2, <2>2, <3>1, BiodoneSets, BufferCacheAssumption DEF Is
    <3>2. CASE c = b
      BY <1>2, <3>2, BiodoneSets, BufferCacheAssumption
    <3> QED BY <3>1, <3>2
  <2>3. proc' = proc
    BY <1>2 DEF Biodone
  <2> QED BY <2>1, <2>2, <2>3 DEF BioOK, RegsOK, Process, Is
<1> QED BY <1>1, <1>2, BioAct DEF Next, Act, FreeExtent, vars

------------------------------------------------------------------------------
(* Whoever sleeps will be woken. *)

\* Asleep, the process is off the processor and inside a call; the buffer it
\* sleeps on is wanted, or is its own and with the device.
WakeOK(p) ==
    /\ slp[p] \in Bufs =>
          /\ ~Free(slp[p])
          /\ Is(slp[p], "WANTED") \/ (Holds(p, slp[p]) /\ slp[p] \in io)
          /\ Holds(p, slp[p]) => slp[p] \in io
    /\ slp[p] = FreeList => fwant
    /\ slp[p] # None => proc[p].pc # "user" /\ cpu # p

\* Nobody waits for the buffer it has put aside.
LEMMA NotOwnFirst ==
    ASSUME IInv, Shapes, LiveInv, NEW p \in Procs, NEW b \in Bufs,
           \/ proc[p].pc = "getblk" /\ b \in Cached(proc[p].want)
           \/ proc[p].pc = "overlap" /\ b \in Rivals(p)
           \/ proc[p].pc = "blkflush"
    PROVE  ~Holds(p, b)
<1>1. proc[p] \in Process /\ RegsOK(proc[p]) /\ PathOK(proc[p]) /\ NamedOK(p)
      /\ FreshOK(p) /\ InSequence(p)
  BY View DEF Shapes, Paths, LiveInv
<1>2. b # None
  BY NoneIsNoBuffer
<1>3. CASE proc[p].pc = "blkflush"
  BY <1>1, <1>2, <1>3 DEF RegsOK, Holds
<1>4. CASE proc[p].pc \in {"getblk", "overlap"}
  <2>1. b # proc[p].bp /\ b # proc[p].ep
    BY <1>1, <1>2, <1>4 DEF RegsOK, Rivals
  <2>2. SUFFICES ASSUME b = proc[p].first PROVE FALSE
    BY <2>1 DEF Holds
  <2>3. proc[p].op \in {"ahead", "copy"} /\ ~(proc[p].pc = "getblk" /\ proc[p].op = "ahead")
    BY <1>1, <1>2, <1>4, <2>2 DEF RegsOK, FreshOK, Fresh
  <2>4. /\ buf[b].blk = proc[p].ra.start /\ buf[b].cnt = proc[p].ra.size
    BY <1>1, <1>2, <1>4, <2>2, <2>3 DEF NamedOK, Exact, Names, FirstExtent
  <2>5. /\ Disjoint(proc[p].want, proc[p].ra)
        /\ proc[p].want \in FileExtent /\ proc[p].ra \in FileExtent
    BY <1>1, <2>3 DEF PathOK, InSequence, Paired
  <2>6. CASE proc[p].pc = "getblk"
    <3>1. proc[p].want.start = proc[p].ra.start
      BY <1>3, <2>4, <2>6 DEF Cached
    <3> QED BY <2>5, <3>1, Solid DEF Disjoint
  <2>7. CASE proc[p].pc = "overlap"
    BY <2>4, <2>5, <2>7 DEF Rivals, Overlapping, BufFrags, Disjoint, FragsOf
  <2> QED BY <1>4, <2>6, <2>7
<1> QED BY <1>3, <1>4

\* A buffer that becomes free is given to those who wait for it.
LEMMA ReleasesWake ==
    ASSUME IInv, IInv', Shapes, NEW p \in Procs, Act(p), NEW b \in Bufs,
           ~Free(b), Free(b)'
    PROVE  ReleaseWakeups(b)
<1>0. proc[p] \in Process /\ RegsOK(proc[p]) /\ buf[b].queue = "out"
      /\ proc \in [Procs -> Process] /\ buf'[b].queue # "out"
  BY View DEF TypeOK, Free
<1>1. Returned(p, b) \/ Put(p, b)
  <2>1. Touched(p, b)
    BY ActTouches
  <2> QED
    BY <1>0, <2>1
    DEF Touched, Passed, Kept, Found, Flushed, Updated, Claimed, Opened,
        Dropped, Fitted, Given, Enlarged, Robbing, Fetched, Completing, Carries, Free
<1>2. b \notin io'
  BY DEF IInv, BufInv, FlagsOK
<1>3. buf' # buf
  BY <1>0
<1>4. Step(p)
  BY <1>3, CallEmpty DEF Act, Dispatch, Pause
<1>5. \/ proc[p].pc = "got" /\ proc[p].op = "copy" /\ b = proc[p].first
      \/ proc[p].pc = "bwrite" /\ b = proc[p].ep
      \/ proc[p].pc = "hold" /\ b = proc[p].bp
  BY <1>1 DEF Returned, Put, Changing, Running
<1>6. ~Getblk(p)
  BY <1>5, GetblkMoves
<1>7. CASE Finish(p)
  <2>1. CASE Brelse(p)
    BY <1>2, <1>5, <2>1 DEF Brelse, Changing, Running
  <2>2. CASE Bdwrite(p)
    BY <1>2, <1>5, <2>2 DEF Bdwrite, Changing, Running
  <2>3. CASE Bwrite(p)
    BY <1>2, <1>5, <2>3 DEF Bwrite, Changing, Running
  <2>4. CASE Bawrite(p)
    BY <1>2, <1>5, <2>4 DEF Bawrite, Changing, Running
  <2>5. CASE BflushWrite(p)
    BY <1>2, <1>5, <2>5 DEF BflushWrite, Running
  <2>6. CASE BflushReturn(p)
    BY <1>2, <1>5, <2>6 DEF BflushReturn, Running
  <2>7. CASE BlkflushBusy(p)
    BY <1>2, <1>5, <2>7 DEF BlkflushBusy, Running
  <2>8. CASE BlkflushDirty(p)
    BY <1>2, <1>5, <2>8 DEF BlkflushDirty, Running
  <2>9. CASE BlkflushReturn(p)
    BY <1>2, <1>5, <2>9 DEF BlkflushReturn, Running
  <2> QED
    BY <1>7, <2>1, <2>2, <2>3, <2>4, <2>5, <2>6, <2>7, <2>8, <2>9 DEF Finish
<1>8. CASE Got(p)
  <2>1. CASE GotCached(p)
    BY <1>3, <1>5, <2>1 DEF GotCached, Running
  <2>2. CASE GotUncached(p)
    BY <1>3, <1>5, <2>2 DEF GotUncached, Running
  <2>3. CASE GotAhead(p)
    BY <1>3, <1>5, <2>3 DEF GotAhead, Running
  <2>4. CASE GotBlank(p)
    BY <1>3, <1>5, <2>4 DEF GotBlank, Running
  <2>5. CASE GotExtended(p)
    BY <1>3, <1>5, <2>5 DEF GotExtended, Running
  <2>6. CASE GotCopy(p)
    BY <1>3, <1>5, <2>6 DEF GotCopy, Running
  <2>7. CASE BreadaFirst(p)
    BY <1>3, <1>5, <2>7 DEF BreadaFirst, Running
  <2>8. CASE BreadaAhead(p)
    BY <1>3, <1>5, <2>8 DEF BreadaAhead, Running
  <2>9. CASE BreadaFinish(p)
    BY <1>3, <1>5, <2>9 DEF BreadaFinish, Running
  <2>10. CASE Biowait(p)
    BY <1>3, <1>5, <2>10 DEF Biowait, Running
  <2>11. CASE ReadDone(p)
    BY <1>3, <1>5, <2>11 DEF ReadDone, Running
  <2>12. CASE WriteDone(p)
    BY <1>3, <1>5, <2>12 DEF WriteDone, Running
  <2> QED
    BY <1>8, <2>1, <2>2, <2>3, <2>4, <2>5, <2>6, <2>7, <2>8, <2>9, <2>10,
       <2>11, <2>12
    DEF Got
<1> QED BY <1>4, <1>6, <1>7, <1>8 DEF Step

\* Only brelse clears the mark of the free list, and wakes those it is for.
LEMMA MarkKept ==
    ASSUME IInv, NEW p \in Procs, Act(p)
    PROVE  fwant' = fwant \/ fwant' \/ \E b \in Bufs : ReleaseWakeups(b)
<1>0. proc[p] \in Process /\ RegsOK(proc[p])
  BY View
<1>1. ASSUME NEW b, NEW ret, FlushSync(p, b, ret) PROVE fwant' = fwant
  BY <1>1 DEF FlushSync
<1>2. ASSUME NEW b, WaitFor(p, b) \/ FlushAsync(p, b) PROVE fwant' = fwant
  BY <1>2 DEF WaitFor, FlushAsync
<1>3. CASE Call(p)
  BY <1>3, CallEmpty
<1>4. CASE Dispatch(p) \/ Pause(p)
  BY <1>4 DEF Dispatch, Pause
<1>5. CASE Getblk(p)
  BY <1>0, <1>1, <1>2, <1>5
  DEF Getblk, GetblkBusy, GetblkHit, GetblkMiss, GetnewbufNone, GetnewbufDirty,
      GetnewbufClean, BreallocSame, BreallocDirty, BreallocShrink, BreallocGrow,
      OverlapBusy, OverlapDirty, OverlapClean, OverlapNone, AllocbufFits,
      AllocbufGive, AllocbufMore, AllocbufTake, Rivals, Overlapping
<1>6. CASE Got(p)
  <2>1. CASE GotCopy(p)
    <3>1. proc[p].first \in Bufs
      BY <1>0, <2>1 DEF GotCopy, Running, RegsOK, Process
    <3> QED BY <2>1, <3>1 DEF GotCopy
  <2>2. CASE WriteDone(p)
    <3>1. proc[p].ep \in Bufs
      BY <1>0, <2>2 DEF WriteDone, Running, RegsOK, Process
    <3> QED BY <2>2, <3>1 DEF WriteDone
  <2>3. CASE ~GotCopy(p) /\ ~WriteDone(p)
    BY <1>6, <2>3
    DEF Got, GotCached, GotUncached, GotAhead, GotBlank, GotExtended,
        BreadaFirst, BreadaAhead, BreadaFinish, Biowait, ReadDone
  <2> QED BY <2>1, <2>2, <2>3
<1>7. CASE Finish(p)
  <2>1. CASE Brelse(p) \/ Bdwrite(p)
    <3>1. proc[p].bp \in Bufs
      BY <1>0, <2>1 DEF Brelse, Bdwrite, Changing, Running, RegsOK, Process
    <3> QED BY <2>1, <3>1 DEF Brelse, Bdwrite
  <2>2. CASE ~(Brelse(p) \/ Bdwrite(p))
    BY <1>1, <1>2, <1>7, <2>2
    DEF Finish, Bwrite, Bawrite, BflushWrite, BflushReturn, BlkflushBusy,
        BlkflushDirty, BlkflushReturn
  <2> QED BY <2>1, <2>2
<1> QED BY <1>3, <1>4, <1>5, <1>6, <1>7 DEF Act, Step

\* Why the process that moves may fall asleep.
LEMMA Sleeps ==
    ASSUME IInv, NEW p \in Procs, Act(p), slp[p] = None, slp'[p] # None
    PROVE  /\ proc'[p] = proc[p] /\ proc[p].pc # "user" /\ cpu' # p
           /\ \/ \E b \in Bufs :
                   /\ \/ proc[p].pc = "getblk" /\ b \in Cached(proc[p].want)
                      \/ proc[p].pc = "overlap" /\ b \in Rivals(p)
                      \/ proc[p].pc = "blkflush"
                   /\ Is(b, "BUSY") /\ WaitFor(p, b)
              \/ /\ slp'[p] = FreeList /\ fwant'
              \/ /\ \/ proc[p].pc = "biowait" /\ slp'[p] = proc[p].bp
                    \/ proc[p].pc = "bwrite" /\ slp'[p] = proc[p].ep
                 /\ slp'[p] \in Bufs /\ ~Is(slp'[p], "DONE")
                 /\ UNCHANGED <<buf, io>>
<1>0. /\ proc[p] \in Process /\ RegsOK(proc[p])
      /\ slp \in [Procs -> Bufs \cup {None, FreeList}]
  BY View DEF TypeOK
<1>1. \A chans : ~Wakeup(chans)
  BY DEF Wakeup
<1>2. slp' # slp
  OBVIOUS
<1>3. ASSUME NEW b PROVE ~ReleaseWakeups(b) /\ ~FlushSync(p, b, "overlap")
                         /\ ~FlushSync(p, b, "blkflush") /\ ~FlushAsync(p, b)
  BY <1>1, <1>2 DEF ReleaseWakeups, FlushSync, FlushAsync
<1>4. cpu = p => p # None
  BY NoneIsNoBuffer
<1>5. ~Call(p) /\ ~Dispatch(p) /\ ~Pause(p)
  BY <1>2, CallEmpty DEF Dispatch, Pause
<1> HIDE DEF Wakeup, ReleaseWakeups
<1>6. CASE Getblk(p)
  <2>1. CASE GetblkBusy(p)
    BY <1>0, <1>2, <1>3, <1>4, <2>1
    DEF GetblkBusy, WaitFor, Sleep, Cached, Running, FlushSync
  <2>2. CASE OverlapBusy(p)
    BY <1>0, <1>2, <1>3, <1>4, <2>2
    DEF OverlapBusy, WaitFor, Sleep, Rivals, Overlapping, Running, FlushSync
  <2>3. CASE GetnewbufNone(p)
    BY <1>0, <1>2, <1>3, <1>4, <2>3
    DEF GetnewbufNone, Sleep, Running, FlushSync
  <2>4. CASE GetblkHit(p)
    BY <1>0, <1>2, <1>3, <1>4, <2>4 DEF GetblkHit, Running, FlushSync
  <2>5. CASE GetblkMiss(p)
    BY <1>0, <1>2, <1>3, <1>4, <2>5 DEF GetblkMiss, Running, FlushSync
  <2>6. CASE GetnewbufDirty(p)
    BY <1>0, <1>2, <1>3, <1>4, <2>6 DEF GetnewbufDirty, Running, FlushSync
  <2>7. CASE GetnewbufClean(p)
    BY <1>0, <1>2, <1>3, <1>4, <2>7 DEF GetnewbufClean, Running, FlushSync
  <2>8. CASE BreallocSame(p)
    BY <1>0, <1>2, <1>3, <1>4, <2>8 DEF BreallocSame, Running, FlushSync
  <2>9. CASE BreallocDirty(p)
    BY <1>0, <1>2, <1>3, <1>4, <2>9 DEF BreallocDirty, Running, FlushSync
  <2>10. CASE BreallocShrink(p)
    BY <1>0, <1>2, <1>3, <1>4, <2>10 DEF BreallocShrink, Running, FlushSync
  <2>11. CASE BreallocGrow(p)
    BY <1>0, <1>2, <1>3, <1>4, <2>11 DEF BreallocGrow, Running, FlushSync
  <2>12. CASE OverlapDirty(p)
    BY <1>0, <1>2, <1>3, <1>4, <2>12 DEF OverlapDirty, Running, FlushSync
  <2>13. CASE OverlapClean(p)
    BY <1>0, <1>2, <1>3, <1>4, <2>13 DEF OverlapClean, Running, FlushSync
  <2>14. CASE OverlapNone(p)
    BY <1>0, <1>2, <1>3, <1>4, <2>14 DEF OverlapNone, Running, FlushSync
  <2>15. CASE AllocbufFits(p)
    BY <1>0, <1>2, <1>3, <1>4, <2>15 DEF AllocbufFits, Running, FlushSync
  <2>16. CASE AllocbufGive(p)
    BY <1>0, <1>2, <1>3, <1>4, <2>16 DEF AllocbufGive, Running, FlushSync
  <2>17. CASE AllocbufMore(p)
    BY <1>0, <1>2, <1>3, <1>4, <2>17 DEF AllocbufMore, Running, FlushSync
  <2>18. CASE AllocbufTake(p)
    BY <1>0, <1>2, <1>3, <1>4, <2>18 DEF AllocbufTake, Running, FlushSync
  <2> QED
    BY <1>6, <2>1, <2>2, <2>3, <2>4, <2>5, <2>6, <2>7, <2>8, <2>9, <2>10,
       <2>11, <2>12, <2>13, <2>14, <2>15, <2>16, <2>17, <2>18
    DEF Getblk
<1>7. CASE Got(p)
  <2>1. CASE GotCached(p)
    BY <1>0, <1>2, <1>3, <1>4, <2>1 DEF GotCached, Running
  <2>2. CASE GotUncached(p)
    BY <1>0, <1>2, <1>3, <1>4, <2>2 DEF GotUncached, Running
  <2>3. CASE GotAhead(p)
    BY <1>0, <1>2, <1>3, <1>4, <2>3 DEF GotAhead, Running
  <2>4. CASE GotBlank(p)
    BY <1>0, <1>2, <1>3, <1>4, <2>4 DEF GotBlank, Running
  <2>5. CASE GotExtended(p)
    BY <1>0, <1>2, <1>3, <1>4, <2>5 DEF GotExtended, Running
  <2>6. CASE GotCopy(p)
    BY <1>0, <1>2, <1>3, <1>4, <2>6 DEF GotCopy, Running
  <2>7. CASE BreadaFirst(p)
    BY <1>0, <1>2, <1>3, <1>4, <2>7 DEF BreadaFirst, Running
  <2>8. CASE BreadaAhead(p)
    BY <1>0, <1>2, <1>3, <1>4, <2>8 DEF BreadaAhead, Running
  <2>9. CASE BreadaFinish(p)
    BY <1>0, <1>2, <1>3, <1>4, <2>9 DEF BreadaFinish, Running
  <2>10. CASE ReadDone(p)
    BY <1>0, <1>2, <1>3, <1>4, <2>10 DEF ReadDone, Running
  <2>11. CASE WriteDone(p)
    BY <1>0, <1>2, <1>3, <1>4, <2>11 DEF WriteDone, Running
  <2>12. CASE Biowait(p)
    BY <1>0, <1>2, <1>3, <1>4, <2>12
    DEF Biowait, Sleep, RegsOK, Process, Is, Running
  <2> QED
    BY <1>7, <2>1, <2>2, <2>3, <2>4, <2>5, <2>6, <2>7, <2>8, <2>9, <2>10,
       <2>11, <2>12
    DEF Got
<1>8. CASE Finish(p)
  <2>1. CASE Brelse(p)
    BY <1>0, <1>2, <1>3, <1>4, <2>1 DEF Brelse, Running
  <2>2. CASE Bdwrite(p)
    BY <1>0, <1>2, <1>3, <1>4, <2>2 DEF Bdwrite, Running
  <2>3. CASE Bwrite(p)
    BY <1>0, <1>2, <1>3, <1>4, <2>3 DEF Bwrite, Running
  <2>4. CASE Bawrite(p)
    BY <1>0, <1>2, <1>3, <1>4, <2>4 DEF Bawrite, Running
  <2>5. CASE BflushWrite(p)
    BY <1>0, <1>2, <1>3, <1>4, <2>5 DEF BflushWrite, Running
  <2>6. CASE BflushReturn(p)
    BY <1>0, <1>2, <1>3, <1>4, <2>6 DEF BflushReturn, Running
  <2>7. CASE BlkflushDirty(p)
    BY <1>0, <1>2, <1>3, <1>4, <2>7 DEF BlkflushDirty, Running
  <2>8. CASE BlkflushReturn(p)
    BY <1>0, <1>2, <1>3, <1>4, <2>8 DEF BlkflushReturn, Running
  <2>9. CASE BlkflushBusy(p)
    BY <1>0, <1>2, <1>3, <1>4, <2>9
    DEF BlkflushBusy, WaitFor, Sleep, Overlapping, Running
  <2> QED
    BY <1>8, <2>1, <2>2, <2>3, <2>4, <2>5, <2>6, <2>7, <2>8, <2>9 DEF Finish
<1> QED BY <1>5, <1>6, <1>7, <1>8 DEF Act, Step

\* Who sleeps on after a step of p is still waited on.
LEMMA WakeOthers ==
    ASSUME IInv, IInv', Shapes, NEW p \in Procs, Act(p), NEW q \in Procs \ {p},
           WakeOK(q)
    PROVE  WakeOK(q)'
<1>0. /\ proc'[q] = proc[q] /\ slp'[q] \in {slp[q], None} /\ cpu' \in {p, None}
      /\ q # None
  BY ActsAlone, NoneIsNoBuffer
<1>1. CASE slp'[q] = None
  BY <1>1, BufferCacheAssumption DEF WakeOK
<1>2. CASE slp'[q] # None
  <2>1. slp'[q] = slp[q] /\ slp[q] # None
    BY <1>0, <1>2
  <2>2. slp[q] = FreeList => fwant'
    <3>1. ASSUME slp[q] = FreeList, NEW b \in Bufs, ReleaseWakeups(b) PROVE FALSE
      <4>1. fwant
        BY <3>1 DEF WakeOK
      <4>2. slp'[q] = None
        BY <3>1, <4>1 DEF ReleaseWakeups, Wakeup
      <4> QED BY <1>2, <4>2
    <3>2. slp[q] = FreeList => fwant
      BY DEF WakeOK
    <3> QED BY <3>1, <3>2, MarkKept
  <2>3. ASSUME NEW b \in Bufs, slp[q] = b
        PROVE  /\ ~Free(b)'
               /\ Is(b, "WANTED")' \/ (Holds(q, b) /\ b \in io')
               /\ Holds(q, b) => b \in io'
    <3>1. /\ ~Free(b)
          /\ Is(b, "WANTED") \/ (Holds(q, b) /\ b \in io)
          /\ Holds(q, b) => b \in io
      BY <2>3 DEF WakeOK
    <3>2. CASE Holds(q, b)
      <4>1. Kept(b)
        BY <3>1, <3>2, HeldUnique, OthersKept
      <4> QED BY <3>1, <3>2, <4>1 DEF Kept, Free, Is
    <3>3. CASE ~Holds(q, b)
      <4>1. Is(b, "WANTED")
        BY <3>1, <3>3
      <4>2. ~Free(b)'
        <5>1. ASSUME ReleaseWakeups(b) PROVE slp'[q] = None
          BY <2>3, <4>1, <5>1 DEF ReleaseWakeups, Wakeup
        <5> QED BY <1>2, <3>1, <5>1, ReleasesWake
      <4>3. Is(b, "WANTED")'
        <5>1. Touched(p, b)
          BY ActTouches
        <5>2. buf[b].queue = "out" /\ buf'[b].queue = "out"
          BY <3>1, <4>2 DEF Free
        <5>3. buf'[b].mem = 0 \/ buf'[b].mem # 0
          OBVIOUS
        <5> QED
          BY <4>1, <5>1, <5>2, <5>3
          DEF Touched, Passed, Kept, Found, Flushed, Updated, Claimed, Opened,
              Dropped, Fitted, Given, Enlarged, Robbing, Fetched, Completing,
              Returned, Put, Carries, OnList, Clean, Free, Is
      <4> QED BY <3>3, <4>2, <4>3
    <3> QED BY <3>2, <3>3
  <2>4. proc[q].pc # "user" /\ cpu # q
    BY <2>1 DEF WakeOK
  <2> QED BY <1>0, <2>1, <2>2, <2>3, <2>4 DEF WakeOK, Holds
<1> QED BY <1>1, <1>2

LEMMA Awake ==
    ASSUME IInv, NEW p \in Procs, Act(p), WakeOK(p)
    PROVE  slp[p] = None
<1>0. p # None /\ proc[p] \in Process
  BY View, NoneIsNoBuffer
<1>1. Step(p) \/ Pause(p) => cpu = p
  BY DEF Step, Pause, Running, Getblk, Got, Finish,
     GetblkBusy, GetblkHit, GetblkMiss, GetnewbufNone, GetnewbufDirty,
     GetnewbufClean, BreallocSame, BreallocDirty, BreallocShrink, BreallocGrow,
     OverlapBusy, OverlapDirty, OverlapClean, OverlapNone, AllocbufFits,
     AllocbufGive, AllocbufMore, AllocbufTake, GotCached, GotUncached,
     GotAhead, GotBlank, GotExtended, GotCopy, BreadaFirst, BreadaAhead,
     BreadaFinish, Biowait, ReadDone, WriteDone, Brelse, Bdwrite, Bwrite,
     Bawrite, Changing, BflushWrite, BflushReturn, BlkflushBusy,
     BlkflushDirty, BlkflushReturn
<1>2. Dispatch(p) => slp[p] = None
  BY DEF Dispatch
<1>3. Call(p) => proc[p].pc = "user"
  BY CallEmpty
<1> QED BY <1>0, <1>1, <1>2, <1>3 DEF Act, WakeOK

LEMMA WakeSelf ==
    ASSUME IInv, IInv', Shapes, LiveInv, NEW p \in Procs, Act(p), WakeOK(p), BioOK(p)
    PROVE  WakeOK(p)'
<1>0. p # None /\ proc[p] \in Process
  BY View, NoneIsNoBuffer
<1>1. slp[p] = None
  BY Awake
<1>2. CASE slp'[p] = None
  BY <1>2, BufferCacheAssumption DEF WakeOK
<1>3. CASE slp'[p] # None
  <2>1. proc'[p] = proc[p] /\ proc[p].pc # "user" /\ cpu' # p
    BY <1>1, <1>3, Sleeps
  <2>2. CASE slp'[p] = FreeList /\ fwant'
    BY <2>1, <2>2, BufferCacheAssumption DEF WakeOK
  <2>3. ASSUME NEW b \in Bufs, WaitFor(p, b), Is(b, "BUSY"),
               \/ proc[p].pc = "getblk" /\ b \in Cached(proc[p].want)
               \/ proc[p].pc = "overlap" /\ b \in Rivals(p)
               \/ proc[p].pc = "blkflush"
        PROVE  WakeOK(p)'
    <3>1. ~Free(b) /\ ~Holds(p, b)
      BY <2>3, NotOwnFirst DEF IInv, BufInv, FlagsOK
    <3>2. buf[b] \in Buffer /\ buf \in [Bufs -> Buffer] /\ slp \in [Procs -> Bufs \cup {None, FreeList}]
      BY DEF IInv, TypeOK
    <3>3. slp'[p] = b /\ buf'[b] = [buf[b] EXCEPT !.flags = @ \cup {"WANTED"}]
      BY <2>3, <3>2 DEF WaitFor, Sleep
    <3>4. buf'[b].queue = buf[b].queue /\ "WANTED" \in buf'[b].flags
      BY <3>2, <3>3 DEF Buffer
    <3>5. b # FreeList /\ b # None
      BY BufferCacheAssumption
    <3> QED BY <2>1, <3>1, <3>3, <3>4, <3>5 DEF WakeOK, Free, Is, Holds
  <2>4. ASSUME \/ proc[p].pc = "biowait" /\ slp'[p] = proc[p].bp
               \/ proc[p].pc = "bwrite" /\ slp'[p] = proc[p].ep,
               slp'[p] \in Bufs, ~Is(slp'[p], "DONE"), UNCHANGED <<buf, io>>
        PROVE  WakeOK(p)'
    <3> DEFINE b == slp'[p]
    <3>1. b \in io /\ Holds(p, b) /\ b \in Bufs /\ b # None /\ b # FreeList
      BY <2>4, BufferCacheAssumption DEF BioOK, Holds
    <3>2. ~Free(b)
      BY <3>1, HeldUnique DEF Free
    <3> QED BY <2>1, <2>4, <3>1, <3>2 DEF WakeOK, Free, Is, Holds
  <2> QED BY <1>1, <1>3, <2>2, <2>3, <2>4, Sleeps
<1> QED BY <1>2, <1>3

LEMMA WakeBiodone ==
    ASSUME IInv, NEW b \in Bufs, NEW err \in BOOLEAN, Biodone(b, err),
           NEW q \in Procs, WakeOK(q)
    PROVE  WakeOK(q)'
<1>1. /\ b \in io /\ io' = io \ {b} /\ proc' = proc /\ cpu' = cpu
      /\ \A c \in Bufs \ {b} : buf'[c] = buf[c]
      /\ IF Is(b, "ASYNC") THEN ReleaseWakeups(b) ELSE Wakeup({b}) /\ fwant' = fwant
  BY BiodoneSets
<1>2. slp'[q] \in {slp[q], None}
  BY <1>1 DEF ReleaseWakeups, Wakeup
<1>3. CASE slp'[q] = None
  BY <1>3, BufferCacheAssumption DEF WakeOK
<1>4. CASE slp'[q] # None
  <2>1. slp'[q] = slp[q]
    BY <1>2, <1>4
  <2>2. slp[q] # b
    <3> SUFFICES ASSUME slp[q] = b PROVE slp'[q] = None
      BY <1>4
    <3>1. Is(b, "ASYNC") => Is(b, "WANTED")
      BY DEF WakeOK, IInv, HoldInv, HeldOK
    <3> QED BY <1>1, <3>1 DEF ReleaseWakeups, Wakeup
  <2>3. slp[q] = FreeList => fwant'
    BY <1>1, <1>4, <2>1 DEF WakeOK, ReleaseWakeups, Wakeup
  <2> QED BY <1>1, <2>1, <2>2, <2>3 DEF WakeOK, Free, Is, Holds
<1> QED BY <1>3, <1>4

WaitingInv == LiveInv /\ \A p \in Procs : BioOK(p) /\ WakeOK(p)

LEMMA WaitNext == Safe /\ WaitingInv /\ [Next]_vars => WaitingInv'
<1> SUFFICES ASSUME Safe, WaitingInv, [Next]_vars PROVE WaitingInv'
  OBVIOUS
<1>1. IInv /\ IInv' /\ Shapes /\ Paths
  BY SafeNext DEF Safe, Shapes
<1>2. LiveInv' /\ \A p \in Procs : BioOK(p)'
  BY <1>1, LiveNext, BioNext DEF WaitingInv
<1>3. ASSUME NEW p \in Procs, Act(p), NEW q \in Procs PROVE WakeOK(q)'
  BY <1>1, <1>3, WakeSelf, WakeOthers DEF WaitingInv
<1>4. ASSUME UNCHANGED <<buf, io, fwant, proc, slp, cpu>>, NEW q \in Procs
      PROVE  WakeOK(q)'
  BY <1>4 DEF WaitingInv, WakeOK, Free, Is, Holds
<1>5. ASSUME NEW b \in Bufs, NEW err \in IOErrors, Biodone(b, err), NEW q \in Procs
      PROVE  WakeOK(q)'
  BY <1>1, <1>5, WakeBiodone, BufferCacheAssumption DEF WaitingInv
<1>6. \A q \in Procs : WakeOK(q)'
  BY <1>3, <1>4, <1>5 DEF Next, Act, FreeExtent, vars
<1> QED BY <1>2, <1>6 DEF WaitingInv

LEMMA InitWait == Init => WaitingInv
<1> SUFFICES ASSUME Init PROVE \A p \in Procs : BioOK(p) /\ WakeOK(p)
  BY InitLive DEF WaitingInv
<1> QED
  BY BufferCacheAssumption DEF Init, BioOK, WakeOK, Idle, Empty

\* Whoever sleeps in the buffer cache will be woken: no order of requests,
\* releases and interrupts loses a wakeup, for any processes, buffers and
\* sizes, with or without device errors (the sleep and wakeup calls of
\* ufs_bio.c getblk, getnewbuf, brelse, biowait and biodone).
THEOREM NoWakeupIsLost == Spec => []WillBeWoken
<1>1. Safe /\ WaitingInv => WillBeWoken
  BY DEF WaitingInv, WakeOK, WillBeWoken
<1>2. Init => WaitingInv
  BY InitWait
<1> QED BY <1>1, <1>2, SafeAlways, WaitNext, PTL DEF Spec

------------------------------------------------------------------------------
(***************************************************************************)
(* Part 3. The contents of the buffers.                                    *)
(*                                                                         *)
(* One valid buffer for a block, no process stuck in a circle, no stale    *)
(* read, no lost delayed write, and fsync that does what it promises, for  *)
(* any number of processes and buffers when every buffer has the memory of *)
(* a block (Full).                                                         *)
(*                                                                         *)
(* With less memory the first of these is false (see README.md), and with  *)
(* it the rest. NobodyIsStuck also needs that nobody reads the block       *)
(* device (Uncooked), and the contents that the device reports no error    *)
(* (Faultless). The invariants build on one another: FullInv (allocbuf     *)
(* moves nothing, and makes a buffer hold more only while no other         *)
(* overlaps it), FilesInv (what is busy of the extents of files, and in    *)
(* what state), CircleInv (who waits for a buffer, and what its holder     *)
(* does with it), and ContentsInv (which fragments of a buffer, and of the *)
(* disk, are the latest).                                                  *)
(***************************************************************************)

------------------------------------------------------------------------------
(* Enough memory: every buffer can hold a block, and allocbuf moves nothing. *)

Full == BasePages = BlockFrags

FullOK == \A b \in Bufs : buf[b].mem = BlockFrags

\* The holder of b may make it hold the extent it is for.
AloneOK(p) ==
    proc[p].pc = "allocbuf" =>
        /\ cpu = p
        /\ buf[proc[p].bp].cnt < proc[p].want.size => Rivals(p) = {}

FullInv ==
    /\ FullOK
    /\ \A p \in Procs : AloneOK(p)
    /\ OneBufferPerBlock

LEMMA NothingMoves ==
    ASSUME Safe, FullOK, NEW p \in Procs
    PROVE  /\ ~AllocbufGive(p) /\ ~AllocbufTake(p) /\ ~AllocbufMore(p)
           /\ proc[p].pc = "getnewbuf" => proc[p].bp = None
<1>1. BlockFrags \in Nat \ {0}
  BY BufferCacheAssumption
<1>2. ~AllocbufGive(p)
  <2> SUFFICES ASSUME AllocbufGive(p) PROVE FALSE
    OBVIOUS
  <2>1. PICK e \in Bufs : buf[e].queue = "empty"
    BY GiveSets DEF Safe
  <2>2. buf[e].mem = 0
    BY <2>1 DEF Safe, MemInv, MemOK, Free
  <2> QED BY <1>1, <2>2 DEF FullOK
<1>3. proc[p].bp # None => ~(buf[proc[p].bp].mem < proc[p].want.size)
  BY <1>1, WantOK DEF Safe, FullOK
<1>4. proc[p].pc = "getnewbuf" => proc[p].bp = None
  BY <1>3, View DEF Safe, Short
<1>5. ~AllocbufTake(p)
  BY <1>4 DEF AllocbufTake, Running
<1>6. ~AllocbufMore(p)
  BY <1>3, View DEF Safe, AllocbufMore, Running, RegsOK
<1> QED BY <1>2, <1>4, <1>5, <1>6

LEMMA FullNext ==
    ASSUME Safe, FullOK, [Next]_vars
    PROVE  FullOK'
<1>1. ASSUME NEW p \in Procs, Act(p) PROVE FullOK'
  BY <1>1, NothingMoves, MemSame DEF Safe, FullOK
<1>2. ASSUME NEW b \in Bufs, NEW err \in IOErrors, Biodone(b, err) PROVE FullOK'
  BY <1>2, BiodoneSets, BufferCacheAssumption DEF Safe, FullOK
<1>3. ASSUME UNCHANGED buf PROVE FullOK'
  BY <1>3 DEF FullOK
<1> QED BY <1>1, <1>2, <1>3 DEF Next, Act, FreeExtent, vars

\* What fragments a buffer that may be found holds.
Held(b) == IF Is(b, "INVAL") THEN {} ELSE BufFrags(buf[b])

\* No step but the last of allocbuf gives a buffer fragments.
LEMMA HeldFewer ==
    ASSUME Safe, FullOK, NEW p \in Procs, Act(p), NEW b \in Bufs,
           ~(Fitted(p, b) /\ buf[b].cnt < proc[p].want.size)
    PROVE  Held(b)' \subseteq Held(b)
<1>1. Touched(p, b)
  BY ActTouches DEF Safe
<1>2. buf[b] \in Buffer /\ buf'[b] \in Buffer
  <2>1. [Next]_vars
    BY DEF Act, Next
  <2> QED BY <2>1, SafeNext DEF Safe, IInv, TypeOK
<1>3. ~Given(p, b) /\ ~Enlarged(p, b) /\ ~Robbing(p, b)
  BY NothingMoves DEF Given, Enlarged, Robbing
<1>4. \A blk, cnt : Frags(NODEV, cnt) = {} /\ Frags(blk, 0) = {}
  BY DEF Frags
<1> USE DEF Held, Is, BufFrags
<1>5. CASE Passed(p, b)
  BY <1>5 DEF Passed, Kept
<1>6. CASE Found(p, b) \/ Flushed(p, b) \/ Updated(p, b) \/ Opened(p, b)
           \/ Fetched(p, b) \/ Completing(p, b)
  BY <1>6 DEF Found, Flushed, Updated, Opened, Fetched, Completing, Carries, Clean
<1>7. CASE Claimed(p, b)
  BY <1>4, <1>7 DEF Claimed
<1>8. CASE Dropped(p, b)
  BY <1>8 DEF Dropped
<1>9. CASE Fitted(p, b)
  <2>1. buf[b].cnt \in Nat /\ proc[p].want.size \in Nat
    BY <1>2, View, BufferCacheAssumption DEF Safe, Buffer, Process, Extent
  <2>2. proc[p].want.size <= buf[b].cnt
    BY <1>9, <2>1
  <2>3. Frags(buf[b].blk, proc[p].want.size) \subseteq Frags(buf[b].blk, buf[b].cnt)
    BY <2>1, <2>2, BufferCacheAssumption DEF Frags, Addr
  <2> QED BY <1>9, <2>3 DEF Fitted
<1>10. CASE Returned(p, b) \/ Put(p, b)
  BY <1>4, <1>10 DEF Returned, Put
<1> QED
  BY <1>1, <1>3, <1>5, <1>6, <1>7, <1>8, <1>9, <1>10 DEF Touched

LEMMA HeldBiodone ==
    ASSUME IInv, NEW b \in Bufs, NEW err \in BOOLEAN, Biodone(b, err),
           NEW c \in Bufs
    PROVE  Held(c)' \subseteq Held(c)
<1>1. CASE c # b
  BY <1>1, BiodoneSets DEF Held, Is, BufFrags
<1>2. CASE c = b
  <2>1. /\ buf'[b].cnt = buf[b].cnt /\ buf'[b].blk \in {buf[b].blk, NODEV}
        /\ "INVAL" \in buf'[b].flags <=> "INVAL" \in buf[b].flags
    <3> DEFINE after == buf[b].flags \cup {"DONE"} \cup (IF err THEN {"ERROR"} ELSE {})
    <3>1. /\ buf'[b].cnt = buf[b].cnt
          /\ \/ /\ buf'[b].flags = after \ {"WANTED", "BUSY", "ASYNC"}
                /\ buf'[b].blk = IF "ERROR" \in after THEN NODEV ELSE buf[b].blk
             \/ /\ buf'[b].flags = after \ {"WANTED"}
                /\ buf'[b].blk = buf[b].blk
      BY BiodoneSets
    <3> QED BY <3>1
  <2> QED BY <1>2, <2>1 DEF Held, Is, BufFrags, Frags
<1> QED BY <1>1, <1>2

\* The rivals of a buffer are found by what they hold.
LEMMA RivalsHold ==
    ASSUME NEW p
    PROVE  Rivals(p) = {e \in Bufs \ {proc[p].bp} :
                           Held(e) \cap FragsOf(proc[p].want) # {}}
  BY DEF Rivals, Overlapping, Held

LEMMA OneHolds ==
    OneBufferPerBlock <=>
        \A b, c \in Bufs : b # c => Held(b) \cap Held(c) = {}
  BY DEF OneBufferPerBlock, Held

LEMMA ToAllocbuf ==
    ASSUME IInv, NEW p \in Procs, Step(p), proc'[p].pc = "allocbuf"
    PROVE  BreallocShrink(p) \/ OverlapNone(p) \/ AllocbufTake(p)
<1>0. proc[p] \in Process /\ proc \in [Procs -> Process] /\ RegsOK(proc[p])
  BY View DEF TypeOK
<1>1. CASE Getblk(p)
  <2>1. CASE GetblkBusy(p)
    BY <1>0, <2>1 DEF GetblkBusy, WaitFor, Goto, Running, Process
  <2>2. CASE OverlapBusy(p)
    BY <1>0, <2>2 DEF OverlapBusy, WaitFor, Goto, Running, Process
  <2>3. CASE GetnewbufDirty(p)
    BY <1>0, <2>3 DEF GetnewbufDirty, FlushAsync, Goto, Running, Process
  <2>4. CASE OverlapDirty(p)
    BY <1>0, <2>4 DEF OverlapDirty, FlushSync, Goto, Running, Process
  <2>5. CASE GetblkHit(p)
    BY <1>0, <2>5 DEF GetblkHit, Goto, Running, Process
  <2>6. CASE GetblkMiss(p)
    BY <1>0, <2>6 DEF GetblkMiss, Goto, Running, Process
  <2>7. CASE GetnewbufNone(p)
    BY <1>0, <2>7 DEF GetnewbufNone, Goto, Running, Process
  <2>8. CASE GetnewbufClean(p)
    BY <1>0, <2>8 DEF GetnewbufClean, Goto, Running, Process
  <2>9. CASE BreallocSame(p)
    BY <1>0, <2>9 DEF BreallocSame, Goto, Running, Process
  <2>10. CASE BreallocDirty(p)
    BY <1>0, <2>10 DEF BreallocDirty, Goto, Running, Process
  <2>11. CASE BreallocGrow(p)
    BY <1>0, <2>11 DEF BreallocGrow, Goto, Running, Process
  <2>12. CASE OverlapClean(p)
    BY <1>0, <2>12 DEF OverlapClean, Goto, Running, Process
  <2>13. CASE AllocbufFits(p)
    BY <1>0, <2>13 DEF AllocbufFits, Goto, Running, Process
  <2>14. CASE AllocbufGive(p)
    BY <1>0, <2>14 DEF AllocbufGive, Goto, Running, Process
  <2>15. CASE AllocbufMore(p)
    BY <1>0, <2>15 DEF AllocbufMore, Goto, Running, Process
  <2>30. CASE BreallocShrink(p) \/ OverlapNone(p) \/ AllocbufTake(p)
    BY <2>30
  <2> QED
    BY <1>1, <2>1, <2>2, <2>3, <2>4, <2>5, <2>6, <2>7, <2>8, <2>9, <2>10,
       <2>11, <2>12, <2>13, <2>14, <2>15, <2>30
    DEF Getblk
<1>2. CASE Got(p)
  <2>1. CASE GotCached(p)
    BY <1>0, <2>1 DEF GotCached, Goto, Running, Process
  <2>2. CASE GotUncached(p)
    BY <1>0, <2>2 DEF GotUncached, Goto, Running, Process
  <2>3. CASE GotBlank(p)
    BY <1>0, <2>3 DEF GotBlank, Goto, Running, Process
  <2>4. CASE GotExtended(p)
    BY <1>0, <2>4 DEF GotExtended, Goto, Running, Process
  <2>5. CASE GotCopy(p)
    BY <1>0, <2>5 DEF GotCopy, Goto, Running, Process
  <2>6. CASE BreadaFirst(p)
    BY <1>0, <2>6 DEF BreadaFirst, Goto, Running, Process
  <2>7. CASE BreadaAhead(p)
    BY <1>0, <2>7 DEF BreadaAhead, Goto, Running, Process
  <2>8. CASE BreadaFinish(p)
    BY <1>0, <2>8 DEF BreadaFinish, Goto, Running, Process
  <2>9. CASE Biowait(p)
    BY <1>0, <2>9 DEF Biowait, Goto, Running, Process
  <2>10. CASE GotAhead(p)
    BY <1>0, <2>10 DEF GotAhead, AheadOver, Goto, Running, Process
  <2>30. CASE ReadDone(p)
    BY <2>30, ReadDoneMoves
  <2>31. CASE WriteDone(p)
    BY <1>0, <2>31, WriteDoneMoves DEF RegsOK, Idle, Empty
  <2> QED
    BY <1>2, <2>1, <2>2, <2>3, <2>4, <2>5, <2>6, <2>7, <2>8, <2>9, <2>10,
       <2>30, <2>31
    DEF Got
<1>3. CASE Finish(p)
  <2>1. CASE Brelse(p)
    BY <1>0, <2>1 DEF Brelse, Leave, Idle, Empty, Running
  <2>2. CASE BflushReturn(p)
    BY <1>0, <2>2 DEF BflushReturn, Leave, Idle, Empty, Running
  <2>3. CASE BlkflushReturn(p)
    BY <1>0, <2>3 DEF BlkflushReturn, Leave, Idle, Empty, Running
  <2>4. CASE Bdwrite(p)
    BY <1>0, <2>4 DEF Bdwrite, Changing, Leave, Idle, Empty, Running
  <2>5. CASE Bawrite(p)
    BY <1>0, <2>5 DEF Bawrite, Changing, Leave, Idle, Empty, Running
  <2>6. CASE Bwrite(p)
    BY <1>0, <2>6 DEF Bwrite, Changing, Goto, Process, Running
  <2>7. CASE BflushWrite(p)
    BY <1>0, <2>7 DEF BflushWrite, FlushAsync, Running
  <2>8. CASE BlkflushBusy(p)
    BY <1>0, <2>8 DEF BlkflushBusy, WaitFor, Running
  <2>9. CASE BlkflushDirty(p)
    BY <1>0, <2>9 DEF BlkflushDirty, FlushSync, Goto, Process, Running
  <2> QED
    BY <1>3, <2>1, <2>2, <2>3, <2>4, <2>5, <2>6, <2>7, <2>8, <2>9 DEF Finish
<1> QED BY <1>1, <1>2, <1>3 DEF Step

LEMMA AloneAct ==
    ASSUME Safe, FullInv, NEW p \in Procs, Act(p)
    PROVE  FullInv'
<1>0. /\ FullOK /\ FullOK' /\ IInv /\ Shapes
      /\ \A q \in Procs : AloneOK(q)
      /\ \A b, c \in Bufs : b # c => Held(b) \cap Held(c) = {}
  <2>1. [Next]_vars
    BY DEF Act, Next
  <2> QED BY <2>1, FullNext, OneHolds DEF FullInv, Safe
<1>1. ASSUME NEW b \in Bufs, NEW c \in Bufs, b # c
      PROVE  Held(b)' \cap Held(c)' = {}
  <2>1. ASSUME NEW d \in Bufs, NEW e \in Bufs, d # e,
               Fitted(p, d), buf[d].cnt < proc[p].want.size
        PROVE  Held(d)' \cap Held(e)' = {}
    <3>1. d = proc[p].bp /\ proc[p].pc = "allocbuf"
      BY <2>1 DEF Fitted
    <3>2. Rivals(p) = {}
      BY <1>0, <2>1, <3>1 DEF AloneOK
    <3>3. Held(e) \cap FragsOf(proc[p].want) = {}
      BY <2>1, <3>1, <3>2, RivalsHold
    <3>4. buf[d].blk = proc[p].want.start
      BY <1>0, <3>1, WantOK, NoneIsNoBuffer
    <3>5. Held(d)' \subseteq FragsOf(proc[p].want)
      BY <2>1, <3>4 DEF Fitted, Held, BufFrags, FragsOf
    <3>6. Held(e)' \subseteq Held(e)
      <4>1. ~Fitted(p, e)
        BY <2>1, <3>1 DEF Fitted
      <4> QED BY <1>0, <4>1, HeldFewer
    <3> QED BY <3>3, <3>5, <3>6
  <2>2. CASE \/ Fitted(p, b) /\ buf[b].cnt < proc[p].want.size
             \/ Fitted(p, c) /\ buf[c].cnt < proc[p].want.size
    BY <1>1, <2>1, <2>2
  <2>3. CASE ~(\/ Fitted(p, b) /\ buf[b].cnt < proc[p].want.size
               \/ Fitted(p, c) /\ buf[c].cnt < proc[p].want.size)
    <3>1. Held(b)' \subseteq Held(b) /\ Held(c)' \subseteq Held(c)
      BY <1>0, <2>3, HeldFewer
    <3> QED BY <1>0, <1>1, <3>1
  <2> QED BY <2>2, <2>3
<1>2. OneBufferPerBlock'
  BY <1>1 DEF OneBufferPerBlock, Held
<1>3. ASSUME NEW q \in Procs \ {p} PROVE AloneOK(q)'
  <2>1. cpu # q /\ proc'[q] = proc[q]
    BY <1>0, ActsAlone, NoneIsNoBuffer
  <2> QED BY <1>0, <2>1 DEF AloneOK
<1>4. AloneOK(p)'
  <2> SUFFICES ASSUME proc'[p].pc = "allocbuf" PROVE AloneOK(p)'
    BY DEF AloneOK
  <2>0. /\ proc[p] \in Process /\ proc \in [Procs -> Process] /\ RegsOK(proc[p])
        /\ PathOK(proc[p])
    BY <1>0, View DEF TypeOK, Shapes, Paths
  <2>1. CASE BreallocShrink(p)
    <3>1. buf' = buf /\ cpu' = p /\ proc'[p].bp = proc[p].bp
          /\ proc'[p].want = proc[p].want
          /\ buf[proc[p].bp].cnt > proc[p].want.size
          /\ proc[p].bp \in Bufs
      BY <2>0, <2>1 DEF BreallocShrink, Goto, Running, Process, RegsOK
    <3>2. buf[proc[p].bp].cnt \in Nat /\ proc[p].want.size \in Nat
      BY <1>0, <2>0, <3>1, View, BufferCacheAssumption DEF TypeOK, Buffer, Process, Extent
    <3> QED BY <3>1, <3>2 DEF AloneOK
  <2>2. CASE OverlapNone(p)
    <3>1. buf' = buf /\ cpu' = p /\ proc'[p].bp = proc[p].bp
          /\ proc'[p].want = proc[p].want /\ Rivals(p) = {}
      BY <2>0, <2>2 DEF OverlapNone, Goto, Running, Process
    <3> QED BY <3>1 DEF AloneOK, Rivals, Overlapping, Is
  <2>3. CASE ~BreallocShrink(p) /\ ~OverlapNone(p)
    <3>1. ~AllocbufTake(p)
      BY <1>0, NothingMoves
    <3>2. ~Step(p)
      BY <1>0, <2>3, <3>1, ToAllocbuf
    <3>3. ~Call(p)
      BY <1>0, CallEmpty
    <3>4. ~Dispatch(p) /\ ~Pause(p)
      <4>1. AloneOK(p)
        BY <1>0
      <4>2. p # None
        BY NoneIsNoBuffer
      <4> QED BY <4>1, <4>2 DEF Dispatch, Pause, Running, AloneOK
    <3> QED BY <3>2, <3>3, <3>4 DEF Act
  <2> QED BY <2>1, <2>2, <2>3
<1> QED BY <1>0, <1>2, <1>3, <1>4 DEF FullInv

LEMMA AloneNext == Safe /\ FullInv /\ [Next]_vars => FullInv'
<1> SUFFICES ASSUME Safe, FullInv, [Next]_vars PROVE FullInv'
  OBVIOUS
<1>1. ASSUME NEW p \in Procs, Act(p) PROVE FullInv'
  BY <1>1, AloneAct
<1>2. ASSUME NEW b \in Bufs, NEW err \in IOErrors, Biodone(b, err) PROVE FullInv'
  <2>0. IInv /\ IInv' /\ Shapes /\ FullOK'
    BY SafeNext, FullNext DEF Safe, FullInv
  <2>1. \A c \in Bufs : Held(c)' \subseteq Held(c)
    BY <1>2, <2>0, HeldBiodone, BufferCacheAssumption
  <2>2. OneBufferPerBlock'
    BY <2>1 DEF FullInv, OneBufferPerBlock, Held
  <2>3. ASSUME NEW p \in Procs PROVE AloneOK(p)'
    <3> SUFFICES ASSUME proc[p].pc = "allocbuf"
                 PROVE  /\ cpu = p
                        /\ buf'[proc[p].bp].cnt < proc[p].want.size => Rivals(p)' = {}
      BY <1>2 DEF AloneOK, Biodone
    <3>1. proc[p].bp \in Bufs /\ proc' = proc
      BY <1>2, <2>0, View DEF RegsOK, Process, Biodone
    <3>2. buf'[proc[p].bp].cnt = buf[proc[p].bp].cnt
      BY <1>2, <2>0, <3>1, BiodoneSets, BufferCacheAssumption
    <3>3. Rivals(p)' \subseteq Rivals(p)
      BY <2>1, <3>1 DEF Rivals, Overlapping, Held
    <3> QED BY <3>2, <3>3 DEF FullInv, AloneOK
  <2> QED BY <2>0, <2>2, <2>3 DEF FullInv
<1>3. ASSUME UNCHANGED <<buf, proc, cpu>> PROVE FullInv'
  BY <1>3 DEF FullInv, FullOK, AloneOK, OneBufferPerBlock, Rivals, Overlapping, Is
<1> QED BY <1>1, <1>2, <1>3 DEF Next, Act, FreeExtent, vars

LEMMA InitFull == Init /\ Full => FullInv
<1> SUFFICES ASSUME Init, Full PROVE FullInv
  OBVIOUS
<1>1. PICK rich \in SUBSET Bufs :
        /\ Cardinality(rich) = Residual
        /\ buf = [b \in Bufs |->
              LET pages == IF b \in rich THEN BasePages + 1 ELSE BasePages
              IN  [blk |-> NODEV, cnt |-> 0, mem |-> pages,
                   flags |-> {"INVAL"},
                   queue |-> IF pages = 0 THEN "empty" ELSE "free",
                   cur |-> {}]]
  BY DEF Init
<1>2. rich = {}
  <2>1. Residual = 0
    BY BufferCacheAssumption DEF Full
  <2>2. IsFiniteSet(rich)
    BY FS_Subset, BufferCacheAssumption
  <2> QED BY <1>1, <2>1, <2>2, FS_EmptySet
<1>3. FullOK
  BY <1>1, <1>2 DEF FullOK, Full
<1>4. OneBufferPerBlock
  BY <1>1 DEF OneBufferPerBlock, Is
<1> QED BY <1>3, <1>4 DEF Init, FullInv, AloneOK, Idle, Empty

\* When every buffer has memory for a whole block, each fragment of the disk is
\* in at most one valid buffer, whatever processes do, whatever extents the
\* file system hands out and frees, and with device errors too: what the
\* comment at ufs_bio.c:371-372 asks of brealloc.
THEOREM OneBufferWhenFull == BasePages = BlockFrags => (Spec => []OneBufferPerBlock)
<1> SUFFICES ASSUME Full PROVE Spec => []OneBufferPerBlock
  BY DEF Full
<1>1. Init => FullInv
  BY InitFull
<1>2. FullInv => OneBufferPerBlock
  BY DEF FullInv
<1> QED BY <1>1, <1>2, SafeAlways, AloneNext, PTL DEF Spec

------------------------------------------------------------------------------
(* Without the block device: buffers and the extents of the file system. *)

Uncooked == "cooked" \notin Calls

\* Who reads an extent reads an allocated one.
UsedOK(p) ==
    proc[p].op \in {"read", "reada", "ahead"} =>
        /\ proc[p].want \in live
        /\ proc[p].op # "read" => proc[p].ra \in live

\* Whoever has one of these operations will replace the contents of its
\* extents.
Rewriting == {"overwrite", "extended", "copy"}
Quiet(e) ==
    \A q \in Procs :
        proc[q].op \in Rewriting =>
            Disjoint(proc[q].want, e) /\ Disjoint(proc[q].ra, e)

\* What is left in the cache of an allocated extent is exactly that extent.
ExactOK ==
    \A e \in live : Quiet(e) =>
        \A b \in Bufs : Held(b) \cap FragsOf(e) # {} => Exact(b, e)

LEMMA UsedCall ==
    ASSUME IInv, Uncooked, NEW p \in Procs, Call(p)
    PROVE  UsedOK(p)'
<1>0. TypeOK
  BY View
<1>1. ASSUME NEW pc, NEW op \in Op \ {"read", "reada", "ahead"}, NEW want, NEW ra,
             Enter(p, pc, op, want, ra)
      PROVE  UsedOK(p)'
  <2>1. proc'[p] = Empty(pc, op, want, ra)
    BY <1>0, <1>1, EnterSets
  <2> QED BY <2>1 DEF UsedOK, Empty
<1>2. ASSUME NEW e \in FileExtent, Bread(p, e)
      PROVE  UsedOK(p)'
  <2>1. /\ proc'[p] = Empty("getblk", "read", e, NoExtent) /\ live' = live
        /\ e \in live
    BY <1>0, <1>2, EnterSets DEF Bread, Usable
  <2> QED BY <2>1 DEF UsedOK, Empty
<1>3. ASSUME NEW e \in FileExtent, NEW new \in FileExtent, Breada(p, e, new)
      PROVE  UsedOK(p)'
  <2>1. /\ proc'[p] = Empty("breada", "reada", e, new) /\ live' = live
        /\ e \in live /\ new \in live
    BY <1>0, <1>3, EnterSets DEF Breada, Usable
  <2> QED BY <2>1 DEF UsedOK, Empty
<1>4. ASSUME NEW e \in FileExtent, NEW new \in FileExtent,
             Extend(p, e, new) \/ Move(p, e, new)
      PROVE  UsedOK(p)'
  BY <1>1, <1>4 DEF Extend, Move, Op
<1>5. ASSUME NEW e \in FileExtent, Overwrite(p, e) \/ Alloc(p, e) \/ Blkflush(p, e)
      PROVE  UsedOK(p)'
  BY <1>1, <1>5 DEF Overwrite, Alloc, Blkflush, Op
<1>6. ASSUME NEW n \in 1 .. BlockFrags, Geteblk(p, n) PROVE UsedOK(p)'
  BY <1>1, <1>6 DEF Geteblk, Op
<1>7. CASE Bflush(p)
  BY <1>1, <1>7 DEF Bflush, Op
<1> QED
  BY <1>2, <1>3, <1>4, <1>5, <1>6, <1>7 DEF Call, CookedRead, Uncooked

LEMMA UsedNext ==
    ASSUME Safe, WaitingInv, Uncooked, \A q \in Procs : UsedOK(q), [Next]_vars
    PROVE  \A q \in Procs : UsedOK(q)'
<1>0. IInv /\ Paths /\ LiveInv
  BY DEF Safe, Shapes, WaitingInv
<1>1. ASSUME NEW p \in Procs, Step(p), NEW q \in Procs PROVE UsedOK(q)'
  <2>1. CASE Grants(p)
    <3>1. CASE q = p
      BY <1>0, <2>1, <3>1 DEF Grants, UsedOK
    <3>2. CASE q # p
      <4>1. proc'[q] = proc[q]
        BY <1>0, <1>1, <3>2, ActsAlone DEF Act
      <4>2. Separate(proc[p], proc[q])
        BY <1>0, <2>1, <3>2 DEF Grants, LiveInv, Apart, Exclusive, Uncooked
      <4>3. proc[p].ra \in FileExtent
        BY <1>0, <2>1 DEF Grants, Paths, PathOK, Paired
      <4>4. proc[q].want # proc[p].ra /\ proc[q].ra # proc[p].ra
        BY <4>2, <4>3, Solid DEF Separate
      <4> QED BY <2>1, <4>1, <4>4 DEF Grants, UsedOK
    <3> QED BY <3>1, <3>2
  <2>2. CASE ~Grants(p)
    <3>1. CASE q = p
      BY <1>0, <1>1, <2>2, <3>1, StepExtents
      DEF Stays, Swaps, Ends, Goes, UsedOK, Idle, Empty
    <3>2. CASE q # p
      BY <1>0, <1>1, <2>2, <3>2, StepExtents, ActsAlone
      DEF Stays, Swaps, Ends, Goes, UsedOK, Act
    <3> QED BY <3>1, <3>2
  <2> QED BY <2>1, <2>2
<1>2. ASSUME NEW p \in Procs, Call(p), NEW q \in Procs PROVE UsedOK(q)'
  <2>1. CASE q = p
    BY <1>0, <1>2, <2>1, UsedCall
  <2>2. CASE q # p
    BY <1>0, <1>2, <2>2, ActsAlone, CallExtents DEF Act, Enters, UsedOK, LiveInv
  <2> QED BY <2>1, <2>2
<1>3. ASSUME NEW e \in live, FreeExtent(e), NEW q \in Procs PROVE UsedOK(q)'
  <2>1. ~Disjoint(e, e) /\ Disjoint(proc[q].want, e) /\ Disjoint(proc[q].ra, e)
    BY <1>0, <1>3, Solid DEF FreeExtent, Using, LiveInv, LiveOK
  <2>2. proc[q].want # e /\ proc[q].ra # e
    BY <2>1
  <2> QED BY <1>3, <2>2 DEF FreeExtent, UsedOK
<1>4. ASSUME UNCHANGED <<proc, live>>, NEW q \in Procs PROVE UsedOK(q)'
  BY <1>4 DEF UsedOK
<1>5. ASSUME NEW p \in Procs, Dispatch(p) \/ Pause(p) PROVE UNCHANGED <<proc, live>>
  BY <1>5 DEF Dispatch, Pause
<1>6. ASSUME NEW b \in Bufs, NEW err \in IOErrors, Biodone(b, err)
      PROVE  UNCHANGED <<proc, live>>
  BY <1>6 DEF Biodone
<1> QED BY <1>1, <1>2, <1>3, <1>4, <1>5, <1>6 DEF Next, vars

\* What changes of a buffer that still holds something.
LEMMA HeldSame ==
    ASSUME Safe, FullOK, NEW p \in Procs, Act(p), NEW b \in Bufs,
           ~Fitted(p, b), Held(b)' # {}
    PROVE  buf'[b].blk = buf[b].blk /\ buf'[b].cnt = buf[b].cnt
<1>1. Touched(p, b)
  BY ActTouches DEF Safe
<1>3. ~Given(p, b) /\ ~Enlarged(p, b) /\ ~Robbing(p, b)
  BY NothingMoves DEF Given, Enlarged, Robbing
<1>4. \A blk, cnt : Frags(NODEV, cnt) = {} /\ Frags(blk, 0) = {}
  BY DEF Frags
<1>5. "INVAL" \notin buf'[b].flags /\ buf'[b].blk # NODEV /\ buf'[b].cnt # 0
  BY <1>4 DEF Held, BufFrags, Is
<1>6. CASE Passed(p, b) \/ Found(p, b) \/ Flushed(p, b) \/ Updated(p, b)
           \/ Opened(p, b) \/ Fetched(p, b) \/ Completing(p, b)
  BY <1>6 DEF Passed, Kept, Found, Flushed, Updated, Opened, Fetched,
              Completing, Carries
<1>7. CASE Claimed(p, b) \/ Dropped(p, b) \/ Returned(p, b) \/ Put(p, b)
  BY <1>5, <1>7 DEF Claimed, Dropped, Returned, Put
<1> QED BY <1>1, <1>3, <1>6, <1>7 DEF Touched

\* How a process that has worked on a buffer leaves.
LEMMA Leaving ==
    ASSUME IInv, Shapes, NEW p \in Procs, Step(p), proc'[p].pc = "user",
           proc[p].op # "flush"
    PROVE  \/ proc[p].pc = "hold"
           \/ proc[p].pc = "bwrite" /\ proc[p].ret = "user"
<1>0. proc[p] \in Process /\ proc \in [Procs -> Process] /\ RegsOK(proc[p])
      /\ PathOK(proc[p])
  BY View DEF TypeOK, Shapes, Paths
<1>1. ~Getblk(p)
  BY GetblkMoves
<1>2. CASE Got(p)
  <2>1. CASE GotCached(p)
    BY <1>0, <2>1 DEF GotCached, Goto, Running, Process
  <2>2. CASE GotUncached(p)
    BY <1>0, <2>2 DEF GotUncached, Goto, Running, Process
  <2>3. CASE GotBlank(p)
    BY <1>0, <2>3 DEF GotBlank, Goto, Running, Process
  <2>4. CASE GotExtended(p)
    BY <1>0, <2>4 DEF GotExtended, Goto, Running, Process
  <2>5. CASE GotCopy(p)
    BY <1>0, <2>5 DEF GotCopy, Goto, Running, Process
  <2>6. CASE BreadaFirst(p)
    BY <1>0, <2>6 DEF BreadaFirst, Goto, Running, Process
  <2>7. CASE BreadaAhead(p)
    BY <1>0, <2>7 DEF BreadaAhead, Goto, Running, Process
  <2>8. CASE BreadaFinish(p)
    BY <1>0, <2>8 DEF BreadaFinish, Goto, Running, Process
  <2>9. CASE Biowait(p)
    BY <1>0, <2>9 DEF Biowait, Goto, Running, Process
  <2>10. CASE GotAhead(p)
    BY <1>0, <2>10 DEF GotAhead, AheadOver, Goto, Running, Process
  <2>30. CASE ReadDone(p)
    BY <2>30, ReadDoneMoves
  <2>31. CASE WriteDone(p)
    BY <1>0, <2>31, WriteDoneMoves DEF RegsOK, Idle, Empty
  <2> QED
    BY <1>2, <2>1, <2>2, <2>3, <2>4, <2>5, <2>6, <2>7, <2>8, <2>9, <2>10,
       <2>30, <2>31
    DEF Got
<1>3. CASE Finish(p)
  <2>1. CASE Brelse(p)
    BY <1>0, <2>1 DEF Brelse, Running
  <2>2. CASE Bdwrite(p)
    BY <1>0, <2>2 DEF Bdwrite, Changing, Running
  <2>3. CASE Bawrite(p)
    BY <1>0, <2>3 DEF Bawrite, Changing, Running
  <2>4. CASE Bwrite(p)
    BY <1>0, <2>4 DEF Bwrite, Changing, Running
  <2>5. CASE BflushReturn(p)
    BY <1>0, <2>5 DEF BflushReturn, PathOK, Running
  <2>6. CASE BflushWrite(p)
    BY <1>0, <2>6 DEF BflushWrite, PathOK, Running
  <2>7. CASE BlkflushReturn(p)
    BY <1>0, <2>7 DEF BlkflushReturn, PathOK, Running
  <2>8. CASE BlkflushBusy(p)
    BY <1>0, <2>8 DEF BlkflushBusy, PathOK, Running
  <2>9. CASE BlkflushDirty(p)
    BY <1>0, <2>9 DEF BlkflushDirty, PathOK, Running
  <2> QED
    BY <1>3, <2>1, <2>2, <2>3, <2>4, <2>5, <2>6, <2>7, <2>8, <2>9 DEF Finish
<1> QED BY <1>1, <1>2, <1>3 DEF Step

\* The buffer such a process leaves holds its extent.
LEMMA LeavingHeld ==
    ASSUME IInv, Shapes, NEW p \in Procs, proc[p].op \in Rewriting,
           \/ proc[p].pc = "hold"
           \/ proc[p].pc = "bwrite" /\ proc[p].ret = "user"
    PROVE  /\ \E b \in Bufs : /\ Holds(p, b) /\ Exact(b, proc[p].want)
                              /\ Held(b) = FragsOf(proc[p].want)
           /\ Own(proc[p]) = proc[p].want
<1>1. /\ proc[p] \in Process /\ RegsOK(proc[p]) /\ NamedOK(p)
  BY View DEF Shapes
<1>2. Own(proc[p]) = proc[p].want
  BY DEF Own
<1>3. \A b \in Bufs : Exact(b, proc[p].want) /\ ~Is(b, "INVAL") =>
         Held(b) = FragsOf(proc[p].want)
  BY DEF Held, Exact, Names, BufFrags, FragsOf
<1>4. CASE proc[p].pc = "hold"
  BY <1>1, <1>2, <1>3, <1>4 DEF RegsOK, NamedOK, Rewriting, Holds, Process
<1>5. CASE proc[p].pc = "bwrite" /\ proc[p].ret = "user"
  BY <1>1, <1>2, <1>3, <1>5 DEF RegsOK, NamedOK, Rewriting, Holds, Process
<1> QED BY <1>4, <1>5

Files == Safe /\ WaitingInv /\ FullInv /\ \A q \in Procs : UsedOK(q)

\* An extent that is quiet and allocated after a step was so before, or the
\* process has just left the buffer of exactly that extent.
LEMMA QuietBefore ==
    ASSUME Files, NEW p \in Procs, Act(p), NEW e \in live', Quiet(e)',
           NEW b \in Bufs, Held(b) \cap FragsOf(e) # {},
           e \in live /\ Quiet(e) => Exact(b, e)
    PROVE  Exact(b, e)
<1>0. IInv /\ Shapes /\ Paths /\ LiveInv
      /\ \A c, d \in Bufs : c # d => Held(c) \cap Held(d) = {}
  BY OneHolds DEF Files, Safe, Shapes, WaitingInv, FullInv
<1>1. /\ live \subseteq FileExtent /\ Mine(p)
      /\ \A q \in Procs \ {p} : proc'[q] = proc[q]
  BY <1>0, ActsAlone DEF LiveInv, LiveOK
<1>2. SUFFICES ASSUME ~(e \in live /\ Quiet(e)) PROVE Exact(b, e)
  OBVIOUS
<1> HIDE DEF Disjoint
<1>3. CASE Call(p)
  <2>1. Enters(p)
    BY <1>0, <1>3, CallExtents DEF LiveInv
  <2>2. proc[p].op = "none"
    BY <1>0, <1>3, CallEmpty DEF Paths, PathOK
  <2>3. Quiet(e)
    BY <1>1, <2>2 DEF Quiet, Rewriting
  <2>4. live' # live
    BY <1>2, <2>3
  <2>5. PICK f \in FileExtent : Alloc(p, f)
    BY <1>3, <2>4
    DEF Call, Bread, CookedRead, Breada, Overwrite, Extend, Move, Geteblk,
        Bflush, Blkflush
  <2>6. proc'[p].want = f /\ proc'[p].op = "overwrite" /\ live' = live \cup {f}
    <3>1. proc'[p] = Empty("getblk", "overwrite", f, NoExtent)
      BY <1>0, <2>5, EnterSets, View DEF Alloc
    <3> QED BY <2>5, <3>1 DEF Alloc, Empty
  <2>7. e = f /\ ~Disjoint(f, f)
    BY <1>2, <2>3, <2>6, Solid
  <2> QED BY <2>6, <2>7 DEF Quiet, Rewriting
<1>4. CASE Dispatch(p) \/ Pause(p)
  BY <1>2, <1>4 DEF Dispatch, Pause, Quiet
<1>5. CASE Step(p)
  <2>1. CASE Grants(p)
    <3>1. proc[p].op \in Rewriting /\ proc'[p].op \in Rewriting
          /\ proc[p].want \in FileExtent
      BY <1>0, <2>1 DEF Grants, Rewriting, Paths, PathOK
    <3>2. e \in live
      BY <2>1, <3>1, Solid DEF Grants, Quiet
    <3>3. Quiet(e)
      BY <1>1, <2>1, <3>1 DEF Grants, Quiet
    <3> QED BY <1>2, <3>2, <3>3
  <2>2. CASE ~Grants(p)
    <3>1. live' = live
      BY <1>0, <1>5, <2>2, StepExtents DEF Stays, Swaps, Ends, Goes
    <3>2. /\ proc[p].op \in Rewriting
          /\ ~(Disjoint(proc[p].want, e) /\ Disjoint(proc[p].ra, e))
      BY <1>1, <1>2, <3>1 DEF Quiet
    <3>3. Goes(p)
      BY <1>0, <1>5, <2>2, <3>2, StepExtents
      DEF Stays, Swaps, Ends, Rewriting, Quiet
    <3>4. \/ proc[p].pc = "hold"
          \/ proc[p].pc = "bwrite" /\ proc[p].ret = "user"
      BY <1>0, <1>5, <3>2, <3>3, Leaving DEF Goes, Rewriting, Idle, Empty
    <3>5. PICK h \in Bufs : Exact(h, proc[p].want) /\ Held(h) = FragsOf(proc[p].want)
      BY <1>0, <3>2, <3>4, LeavingHeld
    <3>6. Own(proc[p]) = proc[p].want
      BY <1>0, <3>2, <3>4, LeavingHeld
    <3>7. e = proc[p].want
      BY <1>1, <3>1, <3>2, <3>6, Apartness DEF Mine, Rewriting, Exclusive
    <3>8. b = h
      BY <1>0, <3>5, <3>7
    <3> QED BY <3>5, <3>7, <3>8
  <2> QED BY <2>1, <2>2
<1> QED BY <1>3, <1>4, <1>5 DEF Act

LEMMA GotAt ==
    ASSUME NEW p, Got(p) \/ Finish(p)
    PROVE  proc[p].pc \in {"got", "breada", "ahead", "finish", "biowait", "bwrite",
                           "hold", "bflush", "blkflush"}
  BY DEF Got, Finish, GotCached, GotUncached, GotAhead, GotBlank, GotExtended,
     GotCopy, BreadaFirst, BreadaAhead, BreadaFinish, Biowait, ReadDone,
     WriteDone, Brelse, Bdwrite, Bwrite, Bawrite, Changing, BflushWrite,
     BflushReturn, BlkflushBusy, BlkflushDirty, BlkflushReturn, Running

LEMMA AtAllocbuf ==
    ASSUME IInv, Shapes, NEW p \in Procs, Act(p), proc[p].pc = "allocbuf"
    PROVE  live' = live /\ proc'[p].op = proc[p].op /\ proc'[p].want = proc[p].want
<1>1. ~Call(p)
  BY CallEmpty
<1>2. Dispatch(p) \/ Pause(p) => live' = live /\ proc' = proc
  BY DEF Dispatch, Pause
<1>3. CASE Step(p)
  <2>1. Getblk(p)
    BY <1>3, GotAt DEF Step
  <2>2. ~Grants(p)
    BY DEF Grants
  <2>3. live' = live
    BY <1>3, <2>2, StepExtents DEF Stays, Swaps, Ends, Goes, Shapes
  <2> QED BY <2>1, <2>3, GetblkMoves
<1> QED BY <1>1, <1>2, <1>3 DEF Act

LEMMA ExactAct ==
    ASSUME Files, ExactOK, NEW p \in Procs, Act(p)
    PROVE  ExactOK'
<1>0. IInv /\ Shapes /\ Paths /\ LiveInv /\ FullOK /\ UsedOK(p) /\ Mine(p)
  BY DEF Files, Safe, Shapes, WaitingInv, FullInv, LiveInv
<1> SUFFICES ASSUME NEW e \in live', Quiet(e)', NEW b \in Bufs,
                    Held(b)' \cap FragsOf(e) # {}
             PROVE  Exact(b, e)'
  BY DEF ExactOK
<1> HIDE DEF Disjoint
<1>1. CASE Fitted(p, b)
  <2>1. /\ proc[p].pc = "allocbuf" /\ b = proc[p].bp
        /\ buf'[b].blk = buf[b].blk /\ buf'[b].cnt = proc[p].want.size
        /\ buf'[b].flags = buf[b].flags
    BY <1>1 DEF Fitted
  <2>2. /\ buf[b].blk = proc[p].want.start
        /\ Is(b, "INVAL") <=> proc[p].op = "anon"
        /\ proc[p].op \in Op \ {"none", "flush"}
        /\ proc[p].op # "anon" => proc[p].want \in FileExtent
    BY <1>0, <2>1, WantOK, NoneIsNoBuffer, View DEF Is, Process
  <2>3. Held(b)' \subseteq FragsOf(proc[p].want) /\ proc[p].op # "anon"
    BY <2>1, <2>2 DEF Held, BufFrags, FragsOf, Is
  <2>4. ~Disjoint(proc[p].want, e)
    BY <2>3 DEF Disjoint
  <2>5. live' = live /\ proc'[p].op = proc[p].op /\ proc'[p].want = proc[p].want
    BY <1>0, <2>1, AtAllocbuf
  <2>6. proc[p].op \notin Rewriting
    BY <2>4, <2>5 DEF Quiet
  <2>7. proc[p].want \in live
    BY <1>0, <2>2, <2>3, <2>6 DEF Op, Rewriting, UsedOK, Mine, Own, Exclusive
  <2>8. proc[p].want = e
    BY <1>0, <2>4, <2>5, <2>7 DEF LiveInv, LiveOK
  <2> QED BY <2>1, <2>2, <2>8 DEF Exact, Names
<1>2. CASE ~Fitted(p, b)
  <2>1. Held(b)' \subseteq Held(b) /\ Held(b)' # {}
    BY <1>0, <1>2, HeldFewer DEF Files
  <2>2. buf'[b].blk = buf[b].blk /\ buf'[b].cnt = buf[b].cnt
    BY <1>0, <1>2, <2>1, HeldSame DEF Files
  <2>3. Exact(b, e)
    BY <2>1, QuietBefore DEF ExactOK
  <2> QED BY <2>2, <2>3 DEF Exact, Names
<1> QED BY <1>1, <1>2

LEMMA ExactNext ==
    ASSUME Files, ExactOK, [Next]_vars
    PROVE  ExactOK'
<1>1. ASSUME NEW p \in Procs, Act(p) PROVE ExactOK'
  BY <1>1, ExactAct
<1>2. ASSUME NEW b \in Bufs, NEW err \in IOErrors, Biodone(b, err) PROVE ExactOK'
  <2> SUFFICES ASSUME NEW e \in live', Quiet(e)', NEW c \in Bufs,
                      Held(c)' \cap FragsOf(e) # {}
               PROVE  Exact(c, e)'
    BY DEF ExactOK
  <2>1. proc' = proc /\ live' = live
    BY <1>2 DEF Biodone
  <2>2. Held(c)' \subseteq Held(c)
    BY <1>2, HeldBiodone, BufferCacheAssumption DEF Files, Safe
  <2>3. Exact(c, e)
    BY <2>1, <2>2 DEF ExactOK, Quiet
  <2>4. buf'[c].cnt = buf[c].cnt /\ buf'[c].blk \in {buf[c].blk, NODEV}
    <3>1. CASE c # b
      BY <1>2, <3>1, BiodoneSets, BufferCacheAssumption DEF Files, Safe
    <3>2. CASE c = b
      BY <1>2, <3>2, BiodoneSets, BufferCacheAssumption DEF Files, Safe
    <3> QED BY <3>1, <3>2
  <2>5. buf'[c].blk # NODEV
    BY DEF Held, BufFrags, Frags
  <2> QED BY <2>3, <2>4, <2>5 DEF Exact, Names
<1>3. ASSUME NEW e0 \in live, FreeExtent(e0) PROVE ExactOK'
  BY <1>3 DEF FreeExtent, ExactOK, Quiet, Held, Exact, Names, Is
<1>4. CASE UNCHANGED vars
  BY <1>4 DEF vars, ExactOK, Quiet, Held, Exact, Names, Is
<1> QED BY <1>1, <1>2, <1>3, <1>4 DEF Next, Act

------------------------------------------------------------------------------
(* Files only: what a reader finds in its buffer, and transfers with errors. *)

Reads == {"read", "extend", "move", "reada", "ahead"}

\* The buffer of a reader is whole, or has nothing in it; and nothing with a
\* delayed write is read again.
ReadOK(p) ==
    LET r == proc[p]
    IN  /\ r.op \in Reads /\ r.bp # None =>
              /\ Is(r.bp, "DELWRI") => Is(r.bp, "DONE")
              /\ r.pc \in {"brealloc", "overlap", "allocbuf", "bwrite"} =>
                    \/ buf[r.bp].cnt = 0
                    \/ /\ r.pc = "brealloc"
                       /\ buf[r.bp].cnt = r.want.size /\ Is(r.bp, "DONE")
              /\ r.pc = "hold" => Is(r.bp, "DONE")
        /\ r.first # None =>
              /\ Is(r.first, "DELWRI") => Is(r.first, "DONE")
              /\ r.op = "copy" => Is(r.first, "DONE")

BlkOK(b) ==
    /\ b \in io => ~Is(b, "DELWRI") /\ buf[b].blk # NODEV
    /\ Is(b, "DELWRI") => ~Is(b, "ERROR") /\ buf[b].blk # NODEV
    /\ Free(b) /\ Is(b, "ERROR") => buf[b].blk = NODEV
    /\ Free(b) /\ ~Is(b, "INVAL") /\ buf[b].blk # NODEV => Is(b, "DONE")

\* The block a reader looks for is in the cache as it should be, or not at all.
LEMMA ReadHit ==
    ASSUME Files, ExactOK, Uncooked, NEW p \in Procs, proc[p].op \in Reads,
           NEW b \in Cached(proc[p].want)
    PROVE  buf[b].cnt = 0 \/ buf[b].cnt = proc[p].want.size
<1>0. /\ b \in Bufs /\ buf[b].blk = proc[p].want.start /\ ~Is(b, "INVAL")
      /\ buf[b] \in Buffer
  BY View DEF Cached, Files, Safe, TypeOK
<1>1. proc[p].want \in FileExtent /\ UsedOK(p) /\ Mine(p)
  BY DEF Files, Safe, Shapes, Paths, PathOK, Reads, WaitingInv, LiveInv
<1>2. proc[p].want \in live
  BY <1>1 DEF Reads, UsedOK, Mine, Own, Exclusive
<1>3. Quiet(proc[p].want)
  <2> SUFFICES ASSUME NEW q \in Procs, proc[q].op \in Rewriting
               PROVE  /\ Disjoint(proc[q].want, proc[p].want)
                      /\ Disjoint(proc[q].ra, proc[p].want)
    BY DEF Quiet
  <2>1. q # p /\ proc[q].op \in Exclusive
    BY DEF Reads, Rewriting, Exclusive
  <2>2. Separate(proc[q], proc[p])
    BY <2>1 DEF Files, WaitingInv, LiveInv, Apart, Uncooked
  <2> QED BY <2>2 DEF Separate
<1>4. CASE buf[b].cnt # 0
  <2>1. /\ proc[p].want.start \in Addr /\ proc[p].want.size \in 1 .. BlockFrags
        /\ buf[b].cnt \in 1 .. BlockFrags
    BY <1>0, <1>1, <1>4, BufferCacheAssumption DEF FileExtent, Buffer
  <2>2. proc[p].want.start \in Held(b) \cap FragsOf(proc[p].want)
    BY <1>0, <2>1, BufferCacheAssumption DEF Held, BufFrags, Frags, FragsOf, Addr, NODEV
  <2>3. Exact(b, proc[p].want)
    BY <1>0, <1>2, <1>3, <2>2 DEF ExactOK
  <2> QED BY <2>3 DEF Exact
<1> QED BY <1>4

Whole == \A b \in Bufs : BlkOK(b)

LEMMA ReadGetblk ==
    ASSUME Files, ExactOK, Uncooked, Whole, NEW p \in Procs, ReadOK(p), Getblk(p)
    PROVE  ReadOK(p)'
<1>0. /\ proc[p] \in Process /\ proc \in [Procs -> Process] /\ RegsOK(proc[p])
      /\ buf \in [Bufs -> Buffer] /\ IInv /\ FullOK /\ None \notin Bufs
      /\ Distinct(proc[p])
  BY View, NoneIsNoBuffer DEF Files, Safe, TypeOK, FullInv
<1>1. /\ proc'[p].op = proc[p].op /\ proc'[p].first = proc[p].first
      /\ proc'[p].want = proc[p].want
  BY <1>0, GetblkMoves
<1>2. proc[p].first # None =>
         /\ "DELWRI" \in buf'[proc[p].first].flags => Is(proc[p].first, "DELWRI")
         /\ Is(proc[p].first, "DONE") => "DONE" \in buf'[proc[p].first].flags
  <2> SUFFICES ASSUME proc[p].first # None
               PROVE  Kept(proc[p].first)
    BY DEF Kept, Is
  <2>1. proc[p].first \in Bufs /\ proc[p].first # proc[p].bp
    BY <1>0 DEF Process, Distinct
  <2>2. ~Free(proc[p].first)
    BY <1>0, <2>1 DEF IInv, HoldInv, HeldOK, Holds
  <2> QED BY <1>0, <2>1, <2>2, GetblkKept
<1> SUFFICES ASSUME proc[p].op \in Reads, proc'[p].bp # None
             PROVE  LET b == proc'[p].bp
                    IN  /\ "DELWRI" \in buf'[b].flags => "DONE" \in buf'[b].flags
                        /\ proc'[p].pc \in {"brealloc", "overlap", "allocbuf", "bwrite"} =>
                              \/ buf'[b].cnt = 0
                              \/ /\ proc'[p].pc = "brealloc"
                                 /\ buf'[b].cnt = proc[p].want.size
                                 /\ "DONE" \in buf'[b].flags
  <2>1. proc'[p].pc # "hold"
    BY <1>0, GetblkMoves
  <2> QED BY <1>1, <1>2, <2>1 DEF ReadOK, Is
<1>3. /\ proc[p].bp # None =>
            /\ proc[p].bp \in Bufs /\ proc[p].want.size \in 1 .. BlockFrags
            /\ buf[proc[p].bp].cnt \in 0 .. BlockFrags
            /\ Is(proc[p].bp, "DELWRI") => buf[proc[p].bp].cnt > 0
  BY <1>0, WantOK DEF Files, Safe, MemInv, MemOK, Buffer, Process
<1>4. CASE GetblkHit(p)
  <2>1. PICK b \in Cached(proc[p].want) :
          /\ ~Is(b, "BUSY") /\ buf' = [buf EXCEPT ![b] = Taken(@)]
          /\ proc' = [proc EXCEPT ![p] = [proc[p] EXCEPT !.pc = "brealloc", !.bp = b]]
    BY <1>4 DEF GetblkHit, Goto
  <2>2. /\ b \in Bufs /\ Free(b) /\ ~Is(b, "INVAL") /\ buf[b].blk = proc[p].want.start
        /\ buf[b].blk # NODEV
    <3>1. proc[p].want.start \in Addr
      BY DEF Files, Safe, Shapes, Paths, PathOK, Reads, FileExtent
    <3> QED BY <1>0, <2>1, <3>1, NotBusyFree DEF Cached, Addr, NODEV
  <2>3. Is(b, "DONE")
    BY <2>2 DEF Whole, BlkOK
  <2>4. buf'[b].flags = buf[b].flags \cup {"BUSY"} /\ buf'[b].cnt = buf[b].cnt
        /\ proc'[p].bp = b /\ proc'[p].pc = "brealloc"
    BY <1>0, <2>1, <2>2, TakenType DEF Process, Taken, Buffer
  <2>5. buf[b].cnt = 0 \/ buf[b].cnt = proc[p].want.size
    BY <2>1, ReadHit
  <2> QED BY <2>3, <2>4, <2>5 DEF Is
<1>5. CASE GetnewbufClean(p)
  <2>1. PICK b \in Bufs :
          /\ buf' = [buf EXCEPT ![b] =
                       Renamed(buf[b], proc[p].want.start, {"BUSY"})]
          /\ proc' = [proc EXCEPT ![p] = [proc[p] EXCEPT !.pc = "brealloc", !.bp = b]]
    BY <1>5 DEF GetnewbufClean, Goto, Reads
  <2> QED BY <1>0, <2>1 DEF Renamed, Buffer, Process
<1>6. CASE BreallocSame(p) \/ BreallocGrow(p) \/ BreallocShrink(p) \/ BreallocDirty(p)
  <2>1. CASE BreallocSame(p)
    BY <1>0, <1>3, <2>1
    DEF BreallocSame, ReadOK, Goto, Running, Process, Is, Buffer
  <2>2. CASE BreallocShrink(p)
    BY <1>0, <1>3, <2>2
    DEF BreallocShrink, ReadOK, Goto, Running, Process, Is, Buffer
  <2>3. CASE BreallocGrow(p)
    BY <1>0, <1>3, <2>3
    DEF BreallocGrow, ReadOK, Goto, Running, Process, Is, Buffer
  <2>4. CASE BreallocDirty(p)
    BY <1>0, <1>3, <2>4
    DEF BreallocDirty, ReadOK, Goto, Running, Process, Is, Buffer
  <2> QED
    BY <1>6, <2>1, <2>2, <2>3, <2>4 DEF BreallocSame
<1>7. CASE GetblkMiss(p) \/ GetnewbufNone(p) \/ GetblkBusy(p) \/ GetnewbufDirty(p)
  <2>1. proc[p].bp = None
    BY <1>0, <1>7, NothingMoves
    DEF Files, GetblkMiss, GetnewbufNone, GetblkBusy, GetnewbufDirty, Running, RegsOK
  <2> QED
    BY <1>0, <1>7, <2>1
    DEF GetblkMiss, GetnewbufNone, GetblkBusy, GetnewbufDirty, FlushAsync,
        WaitFor, Goto, Process
<1>8. CASE OverlapBusy(p) \/ OverlapDirty(p) \/ OverlapClean(p) \/ OverlapNone(p)
  <2>1. proc[p].pc = "overlap" /\ proc[p].bp # None
    BY <1>0, <1>8 DEF RegsOK, OverlapBusy, OverlapDirty, OverlapClean, OverlapNone, Running
  <2>2. proc'[p].bp = proc[p].bp /\ proc'[p].pc # "brealloc"
    <3>1. CASE OverlapBusy(p) \/ OverlapClean(p)
      BY <2>1, <3>1 DEF OverlapBusy, OverlapClean, WaitFor
    <3>2. CASE OverlapDirty(p)
      BY <1>0, <2>1, <3>2 DEF OverlapDirty, FlushSync, Goto, Process
    <3>3. CASE OverlapNone(p)
      BY <1>0, <2>1, <3>3 DEF OverlapNone, Goto, Process
    <3> QED BY <1>8, <3>1, <3>2, <3>3
  <2>3. /\ buf'[proc[p].bp].cnt = buf[proc[p].bp].cnt
        /\ "DELWRI" \in buf'[proc[p].bp].flags => "DELWRI" \in buf[proc[p].bp].flags
    BY <1>0, <1>3, <1>8, <2>1
    DEF OverlapBusy, OverlapDirty, OverlapClean, OverlapNone, WaitFor,
        FlushSync, Rivals, Buffer
  <2> QED BY <1>3, <2>1, <2>2, <2>3 DEF ReadOK, Is
<1>9. CASE AllocbufFits(p)
  <2>1. proc[p].pc = "allocbuf" /\ proc[p].bp # None
    BY <1>0, <1>9 DEF RegsOK, AllocbufFits, Running
  <2>2. proc'[p].bp = proc[p].bp /\ proc'[p].pc = "got"
        /\ buf'[proc[p].bp].flags = buf[proc[p].bp].flags
    BY <1>0, <1>3, <1>9, <2>1, ResizedType DEF AllocbufFits, Goto, Process, Extent
  <2> QED BY <1>3, <2>1, <2>2 DEF ReadOK, Is
<1>10. ~AllocbufGive(p) /\ ~AllocbufTake(p) /\ ~AllocbufMore(p)
  BY <1>0, NothingMoves DEF Files
<1> QED
  BY <1>4, <1>5, <1>6, <1>7, <1>8, <1>9, <1>10 DEF Getblk

LEMMA ReadGot ==
    ASSUME Files, NEW p \in Procs, ReadOK(p), Got(p)
    PROVE  ReadOK(p)'
<1>0. /\ proc[p] \in Process /\ proc \in [Procs -> Process] /\ RegsOK(proc[p])
      /\ buf \in [Bufs -> Buffer] /\ IInv /\ Shapes /\ None \notin Bufs
      /\ Distinct(proc[p]) /\ PathOK(proc[p])
  BY View, NoneIsNoBuffer DEF Files, Safe, TypeOK, Shapes, Paths
<1>1. CASE GotCached(p) \/ GotBlank(p) \/ BreadaFirst(p) \/ BreadaAhead(p)
           \/ BreadaFinish(p) \/ Biowait(p)
  <2> USE DEF ReadOK, Goto, Running, Process, Is, RegsOK, Reads
  <2>1. CASE GotCached(p)
    BY <1>0, <2>1 DEF GotCached
  <2>2. CASE GotBlank(p)
    BY <1>0, <2>2 DEF GotBlank
  <2>3. CASE BreadaFirst(p)
    BY <1>0, <2>3 DEF BreadaFirst
  <2>4. CASE BreadaAhead(p)
    BY <1>0, <2>4 DEF BreadaAhead
  <2>5. CASE BreadaFinish(p)
    BY <1>0, <2>5 DEF BreadaFinish
  <2>6. CASE Biowait(p)
    BY <1>0, <2>6 DEF Biowait
  <2> QED BY <1>1, <2>1, <2>2, <2>3, <2>4, <2>5, <2>6
<1>2. CASE GotUncached(p) \/ GotAhead(p)
  <2>1. /\ proc[p].pc = "got" /\ proc[p].bp \in Bufs /\ ~Is(proc[p].bp, "DONE")
        /\ proc[p].op \in Reads /\ proc[p].first # proc[p].bp
    BY <1>0, <1>2
    DEF GotUncached, GotAhead, Running, RegsOK, Process, Reads, Distinct
  <2>2. ~Is(proc[p].bp, "DELWRI")
    BY <1>0, <2>1 DEF ReadOK
  <2>3. PICK r \in {Reading(buf[proc[p].bp], {}), Reading(buf[proc[p].bp], {"ASYNC"})} :
          buf' = [buf EXCEPT ![proc[p].bp] = r]
    BY <1>2 DEF GotUncached, GotAhead
  <2>4. /\ "DELWRI" \notin buf'[proc[p].bp].flags
        /\ \A b \in Bufs \ {proc[p].bp} : buf'[b] = buf[b]
    BY <1>0, <2>1, <2>2, <2>3, ReadingType DEF Is
  <2>5. CASE GotAhead(p) \/ proc[p].op = "reada"
    <3>1. /\ proc'[p].bp = None /\ proc'[p].first \in {proc[p].first, proc[p].bp}
          /\ proc'[p].op \in {"reada", "ahead"}
      <4>1. CASE GotAhead(p)
        BY <1>0, <4>1 DEF GotAhead, Goto, AheadOver, Process
      <4>2. CASE GotUncached(p) /\ proc[p].op = "reada"
        BY <1>0, <4>2 DEF GotUncached, Goto, Process
      <4> QED BY <1>2, <2>5, <4>1, <4>2
    <3>2. proc[p].first # None => buf'[proc[p].first] = buf[proc[p].first]
      BY <1>0, <2>1, <2>4 DEF Process
    <3> QED BY <2>4, <3>1, <3>2 DEF ReadOK, Is
  <2>6. CASE GotUncached(p) /\ proc[p].op # "reada"
    <3>1. /\ proc'[p].bp = proc[p].bp /\ proc'[p].first = proc[p].first
          /\ proc'[p].pc = "biowait" /\ proc'[p].op = proc[p].op
      BY <1>0, <2>6 DEF GotUncached, Goto, Process
    <3>2. proc[p].first # None => buf'[proc[p].first] = buf[proc[p].first]
      BY <1>0, <2>1, <2>4 DEF Process
    <3> QED BY <2>4, <3>1, <3>2 DEF ReadOK, Is
  <2> QED BY <1>2, <2>5, <2>6
<1>3. CASE GotExtended(p) \/ GotCopy(p)
  <2>1. proc'[p].op \notin Reads /\ proc'[p].first = None
    <3>1. CASE GotExtended(p)
      BY <1>0, <3>1 DEF GotExtended, Running, Goto, Process, Reads, RegsOK
    <3>2. CASE GotCopy(p)
      BY <1>0, <3>2 DEF GotCopy, Running, Goto, Process, Reads
    <3> QED BY <1>3, <3>1, <3>2
  <2> QED BY <2>1 DEF ReadOK
<1>4. CASE ReadDone(p)
  <2>1. buf' = buf /\ proc[p].first = None
    BY <1>0, <1>4 DEF ReadDone, Running, RegsOK
  <2> QED BY <1>0, <1>4, <2>1, ReadDoneMoves DEF ReadOK, Is, Reads
<1>5. CASE WriteDone(p)
  <2>1. CASE proc'[p] = Idle
    BY <2>1 DEF Idle, Empty, ReadOK, Reads
  <2>2. CASE proc'[p] # Idle
    <3>1. /\ proc'[p].pc = proc[p].ret /\ proc'[p].op = proc[p].op
          /\ proc'[p].want = proc[p].want
          /\ proc'[p].bp = proc[p].bp /\ proc'[p].first = proc[p].first
          /\ proc[p].pc = "bwrite" /\ proc[p].ep \in Bufs
      BY <1>0, <1>5, <2>2, WriteDoneMoves
    <3>2. \A b \in Bufs \ {proc[p].ep} : buf'[b] = buf[b]
      BY <1>0, <1>5 DEF WriteDone
    <3>3. /\ proc[p].bp # proc[p].ep /\ proc[p].first # proc[p].ep
          /\ proc[p].ret \notin {"hold", "brealloc"}
      BY <1>0, <3>1 DEF Distinct, RegsOK
    <3> QED BY <1>0, <3>1, <3>2, <3>3 DEF ReadOK, Is, Process
  <2> QED BY <2>1, <2>2
<1> QED BY <1>1, <1>2, <1>3, <1>4, <1>5 DEF Got

LEMMA ReadFinish ==
    ASSUME Files, NEW p \in Procs, ReadOK(p), Finish(p)
    PROVE  ReadOK(p)'
<1>0. /\ proc[p] \in Process /\ proc \in [Procs -> Process] /\ RegsOK(proc[p])
      /\ IInv /\ PathOK(proc[p])
  BY View DEF Files, Safe, TypeOK, Shapes, Paths
<1>1. proc[p].first = None /\ (proc[p].pc = "hold" \/ proc[p].op = "flush")
  BY <1>0
  DEF Finish, Brelse, Bdwrite, Bwrite, Bawrite, Changing, BflushWrite,
      BflushReturn, BlkflushBusy, BlkflushDirty, BlkflushReturn, Running,
      RegsOK, PathOK
<1>2. /\ proc'[p].first = None
      /\ proc'[p].bp = None \/ proc'[p].op = "flush"
  <2>1. CASE Brelse(p)
    BY <1>0, <1>1, <2>1 DEF Brelse, Leave, Idle, Empty, Running
  <2>2. CASE BflushReturn(p)
    BY <1>0, <1>1, <2>2 DEF BflushReturn, Leave, Idle, Empty, Running
  <2>3. CASE BlkflushReturn(p)
    BY <1>0, <1>1, <2>3 DEF BlkflushReturn, Leave, Idle, Empty, Running
  <2>4. CASE Bdwrite(p)
    BY <1>0, <1>1, <2>4 DEF Bdwrite, Leave, Idle, Empty, Running
  <2>5. CASE Bawrite(p)
    BY <1>0, <1>1, <2>5 DEF Bawrite, Leave, Idle, Empty, Running
  <2>6. CASE Bwrite(p)
    BY <1>0, <1>1, <2>6 DEF Bwrite, Goto, Process, Running
  <2>7. CASE BflushWrite(p)
    BY <1>0, <1>1, <2>7 DEF BflushWrite, FlushAsync, PathOK, Running
  <2>8. CASE BlkflushBusy(p)
    BY <1>0, <1>1, <2>8 DEF BlkflushBusy, WaitFor, PathOK, Running
  <2>9. CASE BlkflushDirty(p)
    BY <1>0, <1>1, <2>9
    DEF BlkflushDirty, FlushSync, Goto, Process, PathOK, Running
  <2> QED
    BY <1>0, <2>1, <2>2, <2>3, <2>4, <2>5, <2>6, <2>7, <2>8, <2>9 DEF Finish
<1> QED BY <1>2 DEF ReadOK, Reads

LEMMA ReadAct ==
    ASSUME Files, ExactOK, Uncooked, Whole, \A q \in Procs : ReadOK(q),
           NEW p \in Procs, Act(p)
    PROVE  \A q \in Procs : ReadOK(q)'
<1>0. IInv /\ Shapes /\ None \notin Bufs
  BY NoneIsNoBuffer DEF Files, Safe
<1>1. ASSUME NEW q \in Procs \ {p} PROVE ReadOK(q)'
  <2>1. proc'[q] = proc[q] /\ proc[q] \in Process
    BY <1>0, ActsAlone, View
  <2>2. ASSUME NEW b \in Bufs, Holds(q, b) PROVE Kept(b)
    <3>1. ~Free(b) /\ ~Holds(p, b)
      BY <1>0, <2>2 DEF IInv, HoldInv, HeldOK, OneHolder
    <3> QED BY <1>0, <3>1, OthersKept
  <2>3. proc[q].bp # None => Kept(proc[q].bp)
    BY <2>1, <2>2 DEF Holds, Process
  <2>4. proc[q].first # None => Kept(proc[q].first)
    BY <2>1, <2>2 DEF Holds, Process
  <2> QED BY <2>1, <2>3, <2>4 DEF ReadOK, Kept, Is
<1>2. ReadOK(p)'
  <2>1. CASE Call(p)
    BY <1>0, <2>1, CallEmpty DEF ReadOK
  <2>2. CASE Dispatch(p) \/ Pause(p)
    BY <2>2 DEF Dispatch, Pause, ReadOK, Is
  <2> QED BY <2>1, <2>2, ReadGetblk, ReadGot, ReadFinish DEF Act, Step
<1> QED BY <1>1, <1>2

LEMMA BlkAct ==
    ASSUME Files, NEW p \in Procs, Act(p), ReadOK(p), NEW b \in Bufs, BlkOK(b)
    PROVE  BlkOK(b)'
<1>0. /\ proc[p] \in Process /\ RegsOK(proc[p]) /\ IInv /\ IInv' /\ Shapes
      /\ FlagsOK(b) /\ FlagsOK(b)' /\ Settled(p) /\ None \notin Bufs
      /\ buf[b] \in Buffer
  <2>1. [Next]_vars
    BY DEF Act, Next
  <2> QED BY <2>1, View, SafeNext, NoneIsNoBuffer
          DEF Files, Safe, IInv, BufInv, TypeOK
<1>1. Touched(p, b)
  BY <1>0, ActTouches
<1>2. ~Given(p, b) /\ ~Enlarged(p, b) /\ ~Robbing(p, b)
  BY NothingMoves DEF Files, FullInv, Given, Enlarged, Robbing
<1>3. b = proc[p].bp =>
         /\ buf[b].blk = proc[p].want.start /\ ~Free(b)
         /\ "INVAL" \in buf[b].flags <=> proc[p].op = "anon"
         /\ proc[p].op # "anon" => proc[p].want.start # NODEV
  BY <1>0, WantOK
<1> USE DEF BlkOK, Is, Free, SameIO
<1>4. CASE Passed(p, b)
  BY <1>4 DEF Passed, Kept
<1>5. CASE Found(p, b)
  BY <1>0, <1>5 DEF Found, Carries, FlagsOK
<1>6. CASE Flushed(p, b)
  BY <1>6 DEF Flushed, Carries, Clean
<1>7. CASE Updated(p, b)
  BY <1>0, <1>3, <1>7 DEF Updated, Carries, Clean, Changing
<1>8. CASE Claimed(p, b)
  BY <1>0, <1>8 DEF Claimed, FlagsOK
<1>9. CASE Opened(p, b)
  BY <1>0, <1>3, <1>9 DEF Opened, Carries
<1>10. CASE Dropped(p, b)
  BY <1>0, <1>10 DEF Dropped, FlagsOK
<1>11. CASE Fitted(p, b)
  BY <1>0, <1>3, <1>11 DEF Fitted
<1>12. CASE Fetched(p, b)
  <2>1. ~Is(b, "DELWRI") /\ proc[p].op # "anon"
    BY <1>0, <1>12 DEF Fetched, ReadOK, Reads
  <2> QED BY <1>3, <1>12, <2>1 DEF Fetched, Carries
<1>13. CASE Completing(p, b)
  BY <1>3, <1>13 DEF Completing, Carries
<1>14. CASE Returned(p, b)
  <2>1. "ERROR" \in buf[b].flags \/ "DONE" \in buf[b].flags \/ "INVAL" \in buf[b].flags
    <3>1. CASE proc[p].pc = "got" /\ proc[p].op = "copy" /\ b = proc[p].first
      BY <1>0, <3>1 DEF ReadOK
    <3>2. CASE proc[p].pc = "hold" /\ b = proc[p].bp /\ proc[p].op = "read"
      BY <1>0, <3>2 DEF ReadOK, Reads
    <3> QED BY <1>3, <1>14, <3>1, <3>2 DEF Returned
  <2> QED BY <1>0, <1>14, <2>1 DEF Returned, OnList, FlagsOK
<1>15. CASE Put(p, b)
  BY <1>0, <1>3, <1>15 DEF Put, Changing, Settled, Running
<1> QED
  BY <1>1, <1>2, <1>4, <1>5, <1>6, <1>7, <1>8, <1>9, <1>10, <1>11, <1>12,
     <1>13, <1>14, <1>15 DEF Touched

LEMMA BlkBiodone ==
    ASSUME Files, NEW b \in Bufs, NEW err \in BOOLEAN, Biodone(b, err),
           NEW c \in Bufs, BlkOK(c)
    PROVE  BlkOK(c)'
<1>0. IInv /\ FlagsOK(b)
  BY DEF Files, Safe, IInv, BufInv
<1>1. CASE c # b
  BY <1>0, <1>1, BiodoneSets DEF BlkOK, Is, Free
<1>2. CASE c = b
  <2> DEFINE after == buf[b].flags \cup {"DONE"} \cup (IF err THEN {"ERROR"} ELSE {})
  <2>1. /\ b \in io /\ b \notin io'
        /\ \/ /\ buf'[b].flags = after \ {"WANTED", "BUSY", "ASYNC"}
              /\ buf'[b].blk = IF "ERROR" \in after THEN NODEV ELSE buf[b].blk
           \/ /\ buf'[b].flags = after \ {"WANTED"}
              /\ buf'[b].blk = buf[b].blk /\ buf'[b].queue = buf[b].queue
    BY <1>0, BiodoneSets
  <2>2. buf[b].queue = "out" /\ "DELWRI" \notin buf[b].flags
    BY <1>0, <1>2, <2>1 DEF FlagsOK, BlkOK, Is, Free
  <2> QED BY <1>2, <2>1, <2>2 DEF BlkOK, Is, Free
<1> QED BY <1>1, <1>2

Settling == Whole /\ ExactOK /\ \A p \in Procs : ReadOK(p)

LEMMA SettlingNext ==
    ASSUME Files, Uncooked, Settling, [Next]_vars
    PROVE  Settling'
<1>1. ExactOK'
  BY ExactNext DEF Settling
<1>2. ASSUME NEW p \in Procs, Act(p) PROVE Settling'
  BY <1>1, <1>2, ReadAct, BlkAct DEF Settling, Whole
<1>3. ASSUME NEW b \in Bufs, NEW err \in IOErrors, Biodone(b, err) PROVE Settling'
  <2>1. Whole'
    BY <1>3, BlkBiodone, BufferCacheAssumption DEF Settling, Whole
  <2>2. ASSUME NEW p \in Procs PROVE ReadOK(p)'
    <3>1. /\ proc' = proc
          /\ \A c \in Bufs : /\ buf'[c].cnt = buf[c].cnt
                             /\ "DONE" \in buf[c].flags => "DONE" \in buf'[c].flags
                             /\ "DELWRI" \in buf'[c].flags => "DELWRI" \in buf[c].flags
      <4>1. ASSUME NEW c \in Bufs \ {b} PROVE buf'[c] = buf[c]
        BY <1>3, BiodoneSets, BufferCacheAssumption DEF Files, Safe
      <4> DEFINE after == buf[b].flags \cup {"DONE"} \cup (IF err THEN {"ERROR"} ELSE {})
      <4>2. /\ proc' = proc /\ buf'[b].cnt = buf[b].cnt
            /\ \/ buf'[b].flags = after \ {"WANTED", "BUSY", "ASYNC"}
               \/ buf'[b].flags = after \ {"WANTED"}
        BY <1>3, BiodoneSets, BufferCacheAssumption DEF Files, Safe
      <4> QED BY <4>1, <4>2
    <3>2. proc[p] \in Process /\ ReadOK(p)
      BY View DEF Files, Safe, Settling
    <3> QED BY <3>1, <3>2 DEF ReadOK, Is, Process
  <2> QED BY <1>1, <2>1, <2>2 DEF Settling
<1>4. ASSUME UNCHANGED <<buf, io, proc>> PROVE Settling'
  BY <1>1, <1>4 DEF Settling, Whole, BlkOK, ReadOK, Is, Free
<1> QED BY <1>2, <1>3, <1>4 DEF Next, Act, FreeExtent, vars

LEMMA InitSettling == Init => Settling /\ \A p \in Procs : UsedOK(p)
<1> SUFFICES ASSUME Init PROVE Settling /\ \A p \in Procs : UsedOK(p)
  OBVIOUS
<1>1. \A b \in Bufs : buf[b].blk = NODEV /\ buf[b].flags = {"INVAL"}
  BY DEF Init
<1> QED
  BY <1>1 DEF Init, Settling, Whole, BlkOK, ExactOK, ReadOK, UsedOK, Is, Free,
              Idle, Empty, Reads, Held

\* All of it.
FilesInv == Files /\ Settling

LEMMA FilesAlways == Full /\ Uncooked => (Spec => []FilesInv)
<1> SUFFICES ASSUME Full, Uncooked PROVE Spec => []FilesInv
  OBVIOUS
<1>1. Init => FilesInv
  BY InitInv, InitShapes, InitMem, InitWait, InitFull, InitSettling
  DEF FilesInv, Files, Safe
<1>2. FilesInv /\ [Next]_vars => FilesInv'
  BY SafeNext, WaitNext, AloneNext, UsedNext, SettlingNext DEF FilesInv, Files
<1> QED BY <1>1, <1>2, PTL DEF Spec

\* With memory for whole blocks, and without reads of the block device, a
\* transfer that fails neither loses a buffer nor completes twice, and no
\* transfer is started on a buffer that has lost its block to an error: on the
\* error paths of bread, breada, bwrite and realloccg, for any number of
\* processes.
THEOREM ErrorsAreContained ==
    BasePages = BlockFrags /\ "cooked" \notin Calls => (Spec => []ErrorsContained)
<1> SUFFICES ASSUME Full, Uncooked PROVE Spec => []ErrorsContained
  BY DEF Full, Uncooked
<1>1. FilesInv => TransfersSane
  BY DEF FilesInv, Files, Safe, IInv, BufInv, FlagsOK, MemInv, MemOK, Settling,
         Whole, BlkOK, TransfersSane, TypeOK
<1>2. Ownership /\ TransfersSane => ErrorsContained
  BY DEF ErrorsContained
<1> QED BY <1>1, <1>2, FilesAlways, OwnershipHolds, PTL

------------------------------------------------------------------------------
(* Files only: nobody waits in a circle. *)

\* brealloc looks for the other buffers only to make its own hold more.
Looking(r) == r.pc = "overlap" \/ (r.pc = "bwrite" /\ r.ret = "overlap")
GrowOK(p) == Looking(proc[p]) => buf[proc[p].bp].cnt < proc[p].want.size

LEMMA LooksOn ==
    ASSUME IInv, NEW p \in Procs, Act(p), Looking(proc'[p])
    PROVE  \/ BreallocGrow(p)
           \/ /\ Looking(proc[p]) /\ proc'[p].bp = proc[p].bp
              /\ proc'[p].want = proc[p].want
              /\ buf'[proc[p].bp].cnt = buf[proc[p].bp].cnt
<1>0. /\ proc[p] \in Process /\ proc \in [Procs -> Process] /\ RegsOK(proc[p])
      /\ buf \in [Bufs -> Buffer] /\ Distinct(proc[p]) /\ None \notin Bufs
  BY View, NoneIsNoBuffer DEF TypeOK
<1> USE DEF Looking
<1>1. CASE Getblk(p)
  <2>1. CASE GetblkBusy(p)
    BY <1>0, <2>1 DEF GetblkBusy, WaitFor, Goto, Running, Process
  <2>2. CASE GetnewbufDirty(p)
    BY <1>0, <2>2 DEF GetnewbufDirty, FlushAsync, Goto, Running, Process
  <2>3. CASE GetblkHit(p)
    BY <1>0, <2>3 DEF GetblkHit, Goto, Running, Process
  <2>4. CASE GetblkMiss(p)
    BY <1>0, <2>4 DEF GetblkMiss, Goto, Running, Process
  <2>5. CASE GetnewbufNone(p)
    BY <1>0, <2>5 DEF GetnewbufNone, Goto, Running, Process
  <2>6. CASE GetnewbufClean(p)
    BY <1>0, <2>6 DEF GetnewbufClean, Goto, Running, Process
  <2>7. CASE BreallocSame(p)
    BY <1>0, <2>7 DEF BreallocSame, Goto, Running, Process
  <2>8. CASE BreallocDirty(p)
    BY <1>0, <2>8 DEF BreallocDirty, Goto, Running, Process
  <2>9. CASE BreallocShrink(p)
    BY <1>0, <2>9 DEF BreallocShrink, Goto, Running, Process
  <2>10. CASE OverlapNone(p)
    BY <1>0, <2>10 DEF OverlapNone, Goto, Running, Process
  <2>11. CASE AllocbufFits(p)
    BY <1>0, <2>11 DEF AllocbufFits, Goto, Running, Process
  <2>12. CASE AllocbufGive(p)
    BY <1>0, <2>12 DEF AllocbufGive, Goto, Running, Process
  <2>13. CASE AllocbufMore(p)
    BY <1>0, <2>13 DEF AllocbufMore, Goto, Running, Process
  <2>14. CASE AllocbufTake(p)
    BY <1>0, <2>14 DEF AllocbufTake, Goto, Running, Process
  <2>30. CASE BreallocGrow(p)
    BY <2>30
  <2>31. CASE OverlapBusy(p) \/ OverlapDirty(p) \/ OverlapClean(p)
    <3>1. PICK e \in Rivals(p) : \A b \in Bufs \ {e} : buf'[b] = buf[b]
      BY <1>0, <2>31
      DEF OverlapBusy, OverlapDirty, OverlapClean, WaitFor, FlushSync, Rivals, Overlapping
    <3>2. OverlapBusy(p) \/ OverlapClean(p) => UNCHANGED proc
      BY DEF OverlapBusy, OverlapClean, WaitFor
    <3>3. OverlapDirty(p) => proc'[p].bp = proc[p].bp /\ proc'[p].want = proc[p].want
      BY <1>0 DEF OverlapDirty, FlushSync, Goto, Process
    <3>4. proc[p].pc = "overlap" /\ proc[p].bp \in Bufs \ {e}
      <4>1. proc[p].pc = "overlap"
        BY <2>31 DEF OverlapBusy, OverlapDirty, OverlapClean, Running
      <4> QED BY <1>0, <3>1, <4>1 DEF RegsOK, Process, Rivals
    <3> QED BY <2>31, <3>1, <3>2, <3>3, <3>4
  <2> QED
    BY <1>1, <2>1, <2>2, <2>3, <2>4, <2>5, <2>6, <2>7, <2>8, <2>9, <2>10,
       <2>11, <2>12, <2>13, <2>14, <2>30, <2>31
    DEF Getblk
<1>2. CASE Got(p)
  <2>1. CASE GotCached(p)
    BY <1>0, <2>1 DEF GotCached, Goto, Running, Process
  <2>2. CASE GotUncached(p)
    BY <1>0, <2>2 DEF GotUncached, Goto, Running, Process
  <2>3. CASE GotBlank(p)
    BY <1>0, <2>3 DEF GotBlank, Goto, Running, Process
  <2>4. CASE GotExtended(p)
    BY <1>0, <2>4 DEF GotExtended, Goto, Running, Process
  <2>5. CASE GotCopy(p)
    BY <1>0, <2>5 DEF GotCopy, Goto, Running, Process
  <2>6. CASE BreadaFirst(p)
    BY <1>0, <2>6 DEF BreadaFirst, Goto, Running, Process
  <2>7. CASE BreadaAhead(p)
    BY <1>0, <2>7 DEF BreadaAhead, Goto, Running, Process
  <2>8. CASE BreadaFinish(p)
    BY <1>0, <2>8 DEF BreadaFinish, Goto, Running, Process
  <2>9. CASE Biowait(p)
    BY <1>0, <2>9 DEF Biowait, Goto, Running, Process
  <2>10. CASE GotAhead(p)
    BY <1>0, <2>10 DEF GotAhead, AheadOver, Goto, Running, Process
  <2>30. CASE ReadDone(p)
    BY <2>30, ReadDoneMoves, <1>0 DEF RegsOK
  <2>31. CASE WriteDone(p)
    <3>1. /\ proc[p].pc = "bwrite" /\ proc[p].ep \in Bufs
          /\ proc[p].ret = "overlap"
          /\ proc'[p].bp = proc[p].bp /\ proc'[p].want = proc[p].want
      BY <1>0, <2>31, WriteDoneMoves DEF RegsOK, Idle, Empty
    <3>2. \A b \in Bufs \ {proc[p].ep} : buf'[b] = buf[b]
      BY <1>0, <2>31 DEF WriteDone
    <3>3. proc[p].bp \in Bufs \ {proc[p].ep}
      BY <1>0, <3>1 DEF RegsOK, Distinct, Process
    <3> QED BY <3>1, <3>2, <3>3
  <2> QED
    BY <1>2, <2>1, <2>2, <2>3, <2>4, <2>5, <2>6, <2>7, <2>8, <2>9, <2>10,
       <2>30, <2>31
    DEF Got
<1>3. CASE Finish(p)
  <2>1. CASE Brelse(p)
    BY <1>0, <2>1 DEF Brelse, Leave, Idle, Empty, Running
  <2>2. CASE BflushReturn(p)
    BY <1>0, <2>2 DEF BflushReturn, Leave, Idle, Empty, Running
  <2>3. CASE BlkflushReturn(p)
    BY <1>0, <2>3 DEF BlkflushReturn, Leave, Idle, Empty, Running
  <2>4. CASE Bdwrite(p)
    BY <1>0, <2>4 DEF Bdwrite, Changing, Leave, Idle, Empty, Running
  <2>5. CASE Bawrite(p)
    BY <1>0, <2>5 DEF Bawrite, Changing, Leave, Idle, Empty, Running
  <2>6. CASE Bwrite(p)
    BY <1>0, <2>6 DEF Bwrite, Changing, Goto, Process, Running
  <2>7. CASE BflushWrite(p)
    BY <1>0, <2>7 DEF BflushWrite, FlushAsync, Running
  <2>8. CASE BlkflushBusy(p)
    BY <1>0, <2>8 DEF BlkflushBusy, WaitFor, Running
  <2>9. CASE BlkflushDirty(p)
    BY <1>0, <2>9 DEF BlkflushDirty, FlushSync, Goto, Process, Running
  <2> QED
    BY <1>3, <2>1, <2>2, <2>3, <2>4, <2>5, <2>6, <2>7, <2>8, <2>9 DEF Finish
<1>4. CASE Call(p)
  BY <1>4, CallEmpty
<1>5. CASE Dispatch(p) \/ Pause(p)
  BY <1>5 DEF Dispatch, Pause
<1> QED BY <1>1, <1>2, <1>3, <1>4, <1>5 DEF Act, Step

LEMMA GrowNext ==
    ASSUME IInv, IInv', \A p \in Procs : GrowOK(p), [Next]_vars
    PROVE  \A p \in Procs : GrowOK(p)'
<1> SUFFICES ASSUME NEW q \in Procs, Looking(proc'[q])
             PROVE  buf'[proc'[q].bp].cnt < proc'[q].want.size
  BY DEF GrowOK, Looking
<1>0. proc[q] \in Process /\ RegsOK(proc[q]) /\ None \notin Bufs
      /\ GrowOK(q) /\ buf \in [Bufs -> Buffer]
  BY View, NoneIsNoBuffer DEF TypeOK
<1>1. Looking(proc[q]) => /\ proc[q].bp \in Bufs /\ Holds(q, proc[q].bp)
                          /\ buf[proc[q].bp].cnt < proc[q].want.size
  BY <1>0 DEF Looking, RegsOK, GrowOK, Process, Holds
<1>2. ASSUME Act(q) PROVE buf'[proc'[q].bp].cnt < proc'[q].want.size
  <2>1. CASE BreallocGrow(q)
    <3>1. /\ proc[q].bp \in Bufs /\ proc[q].pc = "brealloc"
      BY <1>0, <2>1 DEF BreallocGrow, Running, RegsOK, Process
    <3>2. /\ proc'[q].bp = proc[q].bp /\ proc'[q].want = proc[q].want
          /\ buf'[proc[q].bp].cnt = buf[proc[q].bp].cnt
      BY <1>0, <2>1, <3>1 DEF BreallocGrow, Goto, Process, Buffer, IInv, TypeOK
    <3> QED BY <2>1, <3>2 DEF BreallocGrow
  <2> QED BY <1>1, <1>2, <2>1, LooksOn
<1>3. ASSUME NEW p \in Procs \ {q}, Act(p)
      PROVE  buf'[proc'[q].bp].cnt < proc'[q].want.size
  <2>1. proc'[q] = proc[q]
    BY <1>3, ActsAlone
  <2>2. Kept(proc[q].bp)
    BY <1>1, <1>3, <2>1, OthersKept DEF IInv, HoldInv, HeldOK, OneHolder
  <2> QED BY <1>1, <2>1, <2>2 DEF Kept
<1>4. ASSUME NEW b \in Bufs, NEW err \in IOErrors, Biodone(b, err)
      PROVE  buf'[proc'[q].bp].cnt < proc'[q].want.size
  <2>1. proc' = proc /\ \A c \in Bufs : buf'[c].cnt = buf[c].cnt
    <3>1. \A c \in Bufs \ {b} : buf'[c] = buf[c]
      BY <1>4, BiodoneSets, BufferCacheAssumption
    <3>2. proc' = proc /\ buf'[b].cnt = buf[b].cnt
      BY <1>4, BiodoneSets, BufferCacheAssumption
    <3> QED BY <3>1, <3>2
  <2> QED BY <1>1, <2>1
<1>5. ASSUME UNCHANGED <<buf, proc>>
      PROVE  buf'[proc'[q].bp].cnt < proc'[q].want.size
  BY <1>1, <1>5
<1> QED BY <1>2, <1>3, <1>4, <1>5 DEF Next, Act, FreeExtent, vars

\* q gives up b, which an exclusive process waits for, without waiting for
\* another buffer.
Passing(q, b) ==
    \/ b = proc[q].ep
    \/ /\ b = proc[q].bp /\ proc[q].op \in Rewriting
       /\ \/ proc[q].pc \in {"got", "hold"}
          \/ /\ proc[q].pc \in {"brealloc", "allocbuf"}
             /\ buf[b].cnt > proc[q].want.size

\* q reads in b what another process wants to read.
Serving(q, b) ==
    \/ b \in {proc[q].first, proc[q].ep}
    \/ /\ b = proc[q].bp
       /\ \/ proc[q].pc \in {"got", "biowait", "hold"}
          \/ proc[q].pc = "brealloc" /\ buf[b].cnt = proc[q].want.size

\* What a process waits for, and who has it.
QueueOK(p) ==
    LET b == slp[p]
    IN  b \in Bufs =>
          \/ Holds(p, b)
          \/ proc[p].pc = "blkflush"
          \/ /\ proc[p].pc \in {"getblk", "overlap"} /\ proc[p].op \in Exclusive
             /\ \A q \in Procs : Holds(q, b) => Passing(q, b)
          \/ proc[p].pc = "getblk" /\ proc[p].op = "read"
          \/ /\ proc[p].pc = "overlap" /\ proc[p].op \in {"read", "reada", "ahead"}
             /\ buf[b].blk = proc[p].want.start
             /\ \A q \in Procs : Holds(q, b) => Serving(q, b)

\* A process does not get the buffer that another one has.
LEMMA HeldBefore ==
    ASSUME IInv, IInv', NEW p \in Procs, Act(p), NEW q \in Procs, NEW b \in Bufs,
           ~Free(b), Holds(q, b)'
    PROVE  Holds(q, b)
<1>1. CASE q # p
  BY <1>1, ActsAlone DEF Holds
<1>2. CASE q = p
  <2> SUFFICES ASSUME ~Holds(p, b) PROVE FALSE
    BY <1>2
  <2>1. Kept(b)
    BY OthersKept
  <2>2. "ASYNC" \notin buf[b].flags
    BY <1>2, <2>1, HeldUnique DEF Kept, IInv, HoldInv, HeldOK, Is
  <2>3. PICK r \in Procs : Holds(r, b)
    BY <2>2 DEF IInv, BufInv, NoLeak, Is
  <2>4. r # p /\ Holds(r, b)'
    BY <2>3, ActsAlone DEF Holds
  <2> QED BY <1>2, <2>4 DEF IInv, HoldInv, OneHolder
<1> QED BY <1>1, <1>2

\* Who writes a buffer keeps it for that, or releases it.
LEMMA WritesOn ==
    ASSUME IInv, NEW q \in Procs, Act(q), NEW b \in Bufs, b = proc[q].ep,
           Holds(q, b)'
    PROVE  b = proc'[q].ep
<1>0. proc[q] \in Process /\ proc[q].pc = "bwrite" /\ Distinct(proc[q])
  BY View, NoneIsNoBuffer DEF RegsOK
<1>1. CASE Step(q)
  <2>1. Biowait(q) \/ WriteDone(q)
    BY <1>0, <1>1
    DEF Step, Running, Getblk, Got, Finish,
        GetblkBusy, GetblkHit, GetblkMiss, GetnewbufNone, GetnewbufDirty,
        GetnewbufClean, BreallocSame, BreallocDirty, BreallocShrink,
        BreallocGrow, OverlapBusy, OverlapDirty, OverlapClean, OverlapNone,
        AllocbufFits, AllocbufGive, AllocbufMore, AllocbufTake, GotCached,
        GotUncached, GotAhead, GotBlank, GotExtended, GotCopy, BreadaFirst,
        BreadaAhead, BreadaFinish, ReadDone, Brelse, Bdwrite, Bwrite,
        Bawrite, Changing, BflushWrite, BflushReturn, BlkflushBusy,
        BlkflushDirty, BlkflushReturn
  <2>2. CASE Biowait(q)
    BY <2>2 DEF Biowait
  <2>3. CASE WriteDone(q)
    BY <1>0, <2>3, WriteDoneMoves, NoneIsNoBuffer DEF Holds, Distinct, Idle, Empty
  <2> QED BY <2>1, <2>2, <2>3
<1>2. CASE Dispatch(q) \/ Pause(q)
  BY <1>2 DEF Dispatch, Pause
<1> QED BY <1>0, <1>1, <1>2, CallEmpty DEF Act

LEMMA PassStep ==
    ASSUME IInv, Shapes, FullOK, Safe, NEW q \in Procs, Act(q), NEW b \in Bufs,
           Passing(q, b), Holds(q, b)'
    PROVE  Passing(q, b)'
<1>0. /\ proc[q] \in Process /\ proc \in [Procs -> Process] /\ RegsOK(proc[q])
      /\ buf \in [Bufs -> Buffer] /\ Distinct(proc[q]) /\ None \notin Bufs
      /\ b # None /\ Holds(q, b) /\ PathOK(proc[q])
  BY View, NoneIsNoBuffer DEF TypeOK, Passing, Holds, Shapes, Paths
<1>1. CASE b = proc[q].ep
  BY <1>0, <1>1, WritesOn DEF Passing
<1>2. CASE b # proc[q].ep
  <2>0. /\ b = proc[q].bp /\ proc[q].op \in Rewriting
        /\ proc[q].pc \in {"got", "hold", "brealloc", "allocbuf"}
        /\ proc[q].pc \in {"brealloc", "allocbuf"} => buf[b].cnt > proc[q].want.size
        /\ proc[q].want.size \in 1 .. BlockFrags /\ buf[b].cnt \in 0 .. BlockFrags
        /\ buf[b] \in Buffer
    BY <1>0, <1>2, WantOK DEF Passing, Buffer
  <2>1. CASE Getblk(q)
    <3>1. \/ BreallocSame(q) \/ BreallocDirty(q) \/ BreallocShrink(q) \/ BreallocGrow(q)
          \/ AllocbufFits(q)
      BY <2>0, <2>1, NothingMoves
      DEF Getblk, Running, GetblkBusy, GetblkHit, GetblkMiss, GetnewbufNone,
          GetnewbufDirty, GetnewbufClean, OverlapBusy, OverlapDirty,
          OverlapClean, OverlapNone
    <3>2. ~BreallocSame(q) /\ ~BreallocGrow(q)
      BY <2>0 DEF BreallocSame, BreallocGrow, Running
    <3>3. CASE BreallocDirty(q)
      BY <1>0, <2>0, <3>3 DEF BreallocDirty, Goto, Passing, Process
    <3>4. CASE BreallocShrink(q)
      BY <1>0, <2>0, <3>4 DEF BreallocShrink, Goto, Passing, Process, Running
    <3>5. CASE AllocbufFits(q)
      BY <1>0, <2>0, <3>5 DEF AllocbufFits, Goto, Passing, Process
    <3> QED BY <3>1, <3>2, <3>3, <3>4, <3>5
  <2>2. CASE Got(q)
    <3>1. GotBlank(q) \/ GotExtended(q) \/ GotCopy(q)
      BY <2>0, <2>2
      DEF Got, Running, GotCached, GotUncached, GotAhead, BreadaFirst,
          BreadaAhead, BreadaFinish, Biowait, ReadDone, WriteDone, Rewriting
    <3>2. CASE GotBlank(q)
      BY <1>0, <2>0, <3>2 DEF GotBlank, Goto, Passing, Process
    <3>3. CASE GotExtended(q)
      BY <1>0, <2>0, <3>3 DEF GotExtended, Goto, Passing, Process
    <3>4. CASE GotCopy(q)
      BY <1>0, <2>0, <3>4 DEF GotCopy, Goto, Passing, Process
    <3> QED BY <3>1, <3>2, <3>3, <3>4
  <2>3. CASE Finish(q)
    <3>1. Brelse(q) \/ Bdwrite(q) \/ Bwrite(q) \/ Bawrite(q)
      BY <2>0, <2>3
      DEF Finish, Running, BflushWrite, BflushReturn, BlkflushBusy,
          BlkflushDirty, BlkflushReturn
    <3>2. CASE Bwrite(q)
      BY <1>0, <2>0, <3>2 DEF Bwrite, Goto, Passing, Process
    <3>3. ~(Brelse(q) \/ Bdwrite(q) \/ Bawrite(q))
      BY <1>0 DEF Brelse, Bdwrite, Bawrite, Leave, Holds, Idle, Empty
    <3> QED BY <3>1, <3>2, <3>3
  <2>4. CASE Dispatch(q) \/ Pause(q)
    BY <2>0, <2>4 DEF Dispatch, Pause, Passing
  <2>5. ~Call(q)
    BY <2>0, CallEmpty
  <2> QED BY <2>1, <2>2, <2>3, <2>4, <2>5 DEF Act, Step
<1> QED BY <1>1, <1>2

LEMMA ServeFirst ==
    ASSUME IInv, NEW q \in Procs, Act(q), NEW b \in Bufs, b = proc[q].first,
           Holds(q, b)'
    PROVE  Serving(q, b)'
<1>0. /\ proc[q] \in Process /\ proc \in [Procs -> Process] /\ RegsOK(proc[q])
      /\ buf \in [Bufs -> Buffer] /\ Distinct(proc[q]) /\ b # None
  BY View, NoneIsNoBuffer DEF TypeOK
<1>1. CASE Getblk(q)
  BY <1>0, <1>1, GetblkMoves DEF Serving
<1>2. CASE Got(q)
  <2>1. CASE GotCached(q) \/ GotBlank(q) \/ GotExtended(q) \/ BreadaFirst(q)
             \/ BreadaAhead(q) \/ Biowait(q)
    <3>1. proc'[q].first = proc[q].first
      <4>1. CASE GotCached(q)
        BY <1>0, <4>1 DEF GotCached, Goto, Process
      <4>2. CASE GotBlank(q)
        BY <1>0, <4>2 DEF GotBlank, Goto, Process
      <4>3. CASE GotExtended(q)
        BY <1>0, <4>3 DEF GotExtended, Goto, Process
      <4>4. CASE BreadaFirst(q)
        BY <1>0, <4>4 DEF BreadaFirst, Goto, Process
      <4>5. CASE BreadaAhead(q)
        BY <1>0, <4>5 DEF BreadaAhead, Goto, Process
      <4>6. CASE Biowait(q)
        BY <1>0, <4>6 DEF Biowait
      <4> QED BY <2>1, <4>1, <4>2, <4>3, <4>4, <4>5, <4>6
    <3> QED BY <3>1 DEF Serving
  <2>2. CASE GotUncached(q)
    <3>1. proc[q].op # "reada"
      BY <1>0, <2>2 DEF GotUncached, Running, RegsOK
    <3> QED BY <1>0, <2>2, <3>1 DEF GotUncached, Goto, Process, Serving
  <2>3. CASE GotAhead(q)
    BY <1>0, <2>3 DEF GotAhead, AheadOver, Goto, Process, Serving
  <2>4. CASE GotCopy(q)
    <3>1. proc'[q].first = None /\ proc'[q].bp = proc[q].bp /\ proc'[q].ep = proc[q].ep
      BY <1>0, <2>4 DEF GotCopy, Goto, Process
    <3> QED BY <1>0, <3>1 DEF Holds, Distinct
  <2>5. CASE BreadaFinish(q)
    BY <1>0, <2>5 DEF BreadaFinish, Goto, Process, Serving
  <2>6. CASE ReadDone(q)
    BY <1>0, <2>6 DEF ReadDone, Running, RegsOK
  <2>7. CASE WriteDone(q)
    <3>1. CASE proc[q].ret = "user"
      BY <1>0, <2>7, <3>1 DEF WriteDone, Running, RegsOK
    <3>2. CASE proc[q].ret # "user"
      BY <1>0, <2>7, <3>2, WriteDoneMoves DEF Serving
    <3> QED BY <3>1, <3>2
  <2> QED BY <1>2, <2>1, <2>2, <2>3, <2>4, <2>5, <2>6, <2>7 DEF Got
<1>3. ~Finish(q)
  BY <1>0
  DEF Finish, Brelse, Bdwrite, Bwrite, Bawrite, Changing, BflushWrite,
      BflushReturn, BlkflushBusy, BlkflushDirty, BlkflushReturn, Running,
      RegsOK
<1>4. CASE Dispatch(q) \/ Pause(q)
  BY <1>4 DEF Dispatch, Pause, Serving
<1>5. ~Call(q)
  BY <1>0, CallEmpty DEF RegsOK
<1> QED BY <1>1, <1>2, <1>3, <1>4, <1>5 DEF Act, Step

LEMMA ServeStep ==
    ASSUME Safe, FullOK, NEW q \in Procs, Act(q), NEW b \in Bufs,
           Serving(q, b), Holds(q, b)', b = proc[q].bp => proc[q].op # "extend"
    PROVE  Serving(q, b)'
<1>0. /\ proc[q] \in Process /\ proc \in [Procs -> Process] /\ RegsOK(proc[q])
      /\ buf \in [Bufs -> Buffer] /\ Distinct(proc[q]) /\ None \notin Bufs
      /\ b # None /\ IInv /\ Shapes
  BY View, NoneIsNoBuffer DEF TypeOK, Safe
<1>1. CASE b = proc[q].ep
  BY <1>0, <1>1, WritesOn DEF Serving
<1>2. CASE b = proc[q].first
  BY <1>0, <1>2, ServeFirst
<1>3. CASE b \notin {proc[q].ep, proc[q].first}
  <2>0. /\ b = proc[q].bp /\ proc[q].pc \in {"got", "biowait", "hold", "brealloc"}
        /\ proc[q].pc = "brealloc" => buf[b].cnt = proc[q].want.size
        /\ proc[q].want.size \in 1 .. BlockFrags
    BY <1>0, <1>3, WantOK DEF Serving
  <2>1. CASE Getblk(q)
    <3>1. BreallocSame(q) \/ BreallocDirty(q) \/ BreallocShrink(q) \/ BreallocGrow(q)
      BY <2>0, <2>1
      DEF Getblk, Running, GetblkBusy, GetblkHit, GetblkMiss, GetnewbufNone,
          GetnewbufDirty, GetnewbufClean, OverlapBusy, OverlapDirty,
          OverlapClean, OverlapNone, AllocbufFits, AllocbufGive,
          AllocbufMore, AllocbufTake
    <3>2. BreallocSame(q)
      BY <2>0, <3>1 DEF BreallocDirty, BreallocShrink, BreallocGrow, Running
    <3> QED BY <1>0, <2>0, <3>2 DEF BreallocSame, Goto, Process, Serving
  <2>2. CASE Got(q)
    <3>1. \/ GotCached(q) \/ GotUncached(q) \/ GotAhead(q) \/ GotBlank(q)
          \/ GotExtended(q) \/ GotCopy(q) \/ Biowait(q) \/ ReadDone(q)
      BY <2>0, <2>2
      DEF Got, Running, BreadaFirst, BreadaAhead, BreadaFinish, WriteDone
    <3>2. CASE GotCached(q)
      BY <1>0, <2>0, <3>2 DEF GotCached, Goto, Process, Serving
    <3>3. CASE GotUncached(q)
      BY <1>0, <2>0, <3>3 DEF GotUncached, Goto, Process, Serving
    <3>4. CASE GotAhead(q)
      <4>1. proc'[q].first = proc[q].first /\ proc'[q].bp = None /\ proc'[q].ep = proc[q].ep
        BY <1>0, <3>4 DEF GotAhead, AheadOver, Goto, Process
      <4> QED BY <1>0, <1>3, <4>1 DEF Holds
    <3>5. CASE GotBlank(q)
      BY <1>0, <2>0, <3>5 DEF GotBlank, Goto, Process, Serving
    <3>6. CASE GotExtended(q)
      BY <1>0, <2>0, <3>6 DEF GotExtended, Goto, Process, Serving
    <3>7. CASE GotCopy(q)
      BY <1>0, <2>0, <3>7 DEF GotCopy, Goto, Process, Serving
    <3>8. CASE Biowait(q)
      BY <1>0, <2>0, <3>8 DEF Biowait, Serving
    <3>9. CASE ReadDone(q)
      BY <1>0, <2>0, <3>9, ReadDoneMoves DEF Serving
    <3> QED BY <3>1, <3>2, <3>3, <3>4, <3>5, <3>6, <3>7, <3>8, <3>9
  <2>3. CASE Finish(q)
    <3>1. Brelse(q) \/ Bdwrite(q) \/ Bwrite(q) \/ Bawrite(q)
      BY <2>0, <2>3
      DEF Finish, Running, BflushWrite, BflushReturn, BlkflushBusy,
          BlkflushDirty, BlkflushReturn
    <3>2. CASE Bwrite(q)
      BY <1>0, <2>0, <3>2 DEF Bwrite, Goto, Serving, Process
    <3>3. ~(Brelse(q) \/ Bdwrite(q) \/ Bawrite(q))
      BY <1>0 DEF Brelse, Bdwrite, Bawrite, Leave, Holds, Idle, Empty
    <3> QED BY <3>1, <3>2, <3>3
  <2>4. CASE Dispatch(q) \/ Pause(q)
    BY <2>0, <2>4 DEF Dispatch, Pause, Serving
  <2>5. ~Call(q)
    BY <1>0, <2>0, CallEmpty
  <2> QED BY <2>1, <2>2, <2>3, <2>4, <2>5 DEF Act, Step
<1> QED BY <1>1, <1>2, <1>3

\* An extent that is being read is quiet.
LEMMA ReadQuiet ==
    ASSUME Files, Uncooked, NEW p \in Procs, proc[p].op \in {"read", "reada", "ahead"}
    PROVE  Quiet(proc[p].want) /\ proc[p].want \in live /\ proc[p].want \in FileExtent
<1>1. Quiet(proc[p].want)
  <2> SUFFICES ASSUME NEW q \in Procs, proc[q].op \in Rewriting
               PROVE  /\ Disjoint(proc[q].want, proc[p].want)
                      /\ Disjoint(proc[q].ra, proc[p].want)
    BY DEF Quiet
  <2>1. q # p /\ proc[q].op \in Exclusive
    BY DEF Rewriting, Exclusive
  <2>2. Separate(proc[q], proc[p])
    BY <2>1 DEF Files, WaitingInv, LiveInv, Apart, Uncooked
  <2> QED BY <2>2 DEF Separate
<1> QED BY <1>1 DEF Files, UsedOK, Safe, Shapes, Paths, PathOK

\* Extents that start at the same place are not disjoint.
LEMMA SameStart ==
    ASSUME NEW d \in FileExtent, NEW e \in FileExtent, d.start = e.start
    PROVE  ~Disjoint(d, e)
  BY Solid DEF Disjoint

\* The extents of the buffers a process holds.
LEMMA HolderSeparate ==
    ASSUME Files, Uncooked, NEW p \in Procs, NEW q \in Procs \ {p},
           proc[p].op \in Exclusive \/ proc[q].op \in Exclusive
    PROVE  Separate(proc[p], proc[q])
<1>1. Separate(proc[p], proc[q]) \/ Separate(proc[q], proc[p])
  BY DEF Files, WaitingInv, LiveInv, Apart, Uncooked
<1> QED BY <1>1, Apartness DEF Separate

LEMMA SleepPassing ==
    ASSUME Files, Settling, Uncooked, \A r \in Procs : GrowOK(r),
           NEW p \in Procs, proc[p].op \in Exclusive, NEW b \in Bufs,
           \/ proc[p].pc = "getblk" /\ b \in Cached(proc[p].want)
           \/ proc[p].pc = "overlap" /\ b \in Rivals(p),
           NEW q \in Procs \ {p}, Holds(q, b)
    PROVE  Passing(q, b)
<1>0. /\ proc[q] \in Process /\ RegsOK(proc[q]) /\ NamedOK(q) /\ PathOK(proc[q])
      /\ PathOK(proc[p]) /\ b # None /\ ReadOK(q) /\ GrowOK(q) /\ IInv /\ Shapes
      /\ Separate(proc[p], proc[q]) /\ buf[b] \in Buffer /\ FullOK
  BY View, NoneIsNoBuffer, HolderSeparate
  DEF Files, Safe, Shapes, Paths, Settling, FullInv, TypeOK
<1>1. /\ ~Is(b, "INVAL")
      /\ buf[b].blk = proc[p].want.start \/ Held(b) \cap FragsOf(proc[p].want) # {}
      /\ proc[p].want \in FileExtent
  BY <1>0 DEF Cached, Rivals, Overlapping, Held, PathOK, Exclusive
<1>2. ASSUME NEW e \in FileExtent, Disjoint(proc[p].want, e), buf[b].blk = e.start,
             buf[b].cnt <= e.size
      PROVE  FALSE
  <2>1. FragsOf(e) = Frags(buf[b].blk, e.size)
    BY <1>2 DEF FragsOf
  <2>2. Held(b) \subseteq FragsOf(e)
    <3>1. buf[b].cnt \in Nat /\ e.size \in Nat
      BY <1>0, BufferCacheAssumption DEF Buffer, FileExtent
    <3> QED BY <1>2, <2>1, <3>1, BufferCacheAssumption DEF Held, BufFrags, Frags, Addr
  <2>3. proc[p].want.start # e.start
    BY <1>1, <1>2, SameStart
  <2> QED BY <1>1, <1>2, <2>2, <2>3 DEF Disjoint
<1>3. b # proc[q].first
  <2> SUFFICES ASSUME b = proc[q].first PROVE FALSE
    OBVIOUS
  <2>1. Exact(b, FirstExtent(proc[q]))
    BY <1>0 DEF NamedOK
  <2>2. FirstExtent(proc[q]) \in {proc[q].want, proc[q].ra}
    BY DEF FirstExtent
  <2>3. FirstExtent(proc[q]).start = buf[b].blk /\ FirstExtent(proc[q]).size = buf[b].cnt
    BY <2>1 DEF Exact, Names
  <2>4. FirstExtent(proc[q]) \in FileExtent
    <3>1. proc[q].op \in {"reada", "ahead", "copy"}
      BY <1>0 DEF RegsOK, Process, Label
    <3> QED BY <1>0, <2>2, <3>1 DEF PathOK, Paired
  <2>5. buf[b].cnt <= FirstExtent(proc[q]).size
    BY <1>0, <2>3 DEF Buffer
  <2> QED BY <1>0, <1>2, <2>2, <2>3, <2>4, <2>5 DEF Separate
<1>4. CASE b = proc[q].bp
  <2>0. /\ buf[b].blk = proc[q].want.start /\ proc[q].op # "anon"
        /\ proc[q].want.size \in 1 .. BlockFrags /\ proc[q].want \in FileExtent
        /\ proc[q].op \notin {"none", "flush"} /\ buf[b].cnt \in 0 .. BlockFrags
    BY <1>0, <1>1, <1>4, WantOK DEF Is, Buffer
  <2>1. buf[b].cnt > proc[q].want.size
    <3>1. ~(buf[b].cnt <= proc[q].want.size)
      BY <1>0, <1>2, <2>0 DEF Separate
    <3> QED BY <2>0, <3>1
  <2>2. proc[q].pc \in {"brealloc", "allocbuf"}
    <3>1. ~Looking(proc[q])
      BY <1>0, <1>4, <2>0, <2>1 DEF GrowOK
    <3>2. proc[q].pc \notin {"got", "biowait", "hold"}
      BY <1>0, <1>4, <2>0, <2>1 DEF NamedOK, Exact
    <3>3. proc[q].pc # "getnewbuf"
      BY <1>0, <1>4, NothingMoves DEF Files
    <3> QED BY <1>0, <1>4, <3>1, <3>2, <3>3 DEF RegsOK, Looking, Process, Label
  <2>3. proc[q].op \in Rewriting
    <3>1. proc[q].op \notin Reads
      BY <1>0, <1>4, <2>0, <2>1, <2>2 DEF ReadOK
    <3> QED BY <1>0, <2>0, <3>1 DEF Process, Op, Reads, Rewriting
  <2> QED BY <1>4, <2>1, <2>2, <2>3 DEF Passing
<1> QED BY <1>3, <1>4 DEF Holds, Passing

LEMMA SleepServing ==
    ASSUME Files, Settling, Uncooked, NEW p \in Procs,
           proc[p].op \in {"read", "reada", "ahead"}, NEW b \in Rivals(p),
           NEW q \in Procs \ {p}, Holds(q, b)
    PROVE  Serving(q, b)
<1>0. /\ proc[q] \in Process /\ RegsOK(proc[q]) /\ NamedOK(q) /\ PathOK(proc[q])
      /\ b # None /\ ReadOK(q) /\ IInv /\ Shapes /\ b \in Bufs
      /\ buf[b] \in Buffer /\ FullOK
  BY View, NoneIsNoBuffer
  DEF Files, Safe, Shapes, Paths, Settling, FullInv, TypeOK, Rivals, Overlapping
<1>1. /\ ~Is(b, "INVAL") /\ Exact(b, proc[p].want) /\ proc[p].want \in FileExtent
  BY ReadQuiet DEF Rivals, Overlapping, Held, Settling, ExactOK
<1>2. CASE b = proc[q].bp
  <2>0. /\ buf[b].blk = proc[q].want.start /\ proc[q].op # "anon"
        /\ proc[q].want.size \in 1 .. BlockFrags /\ proc[q].want \in FileExtent
        /\ proc[q].op \notin {"none", "flush"} /\ buf[b].cnt > 0
    BY <1>0, <1>1, <1>2, WantOK, BufferCacheAssumption DEF Is, Exact, FileExtent
  <2>1. proc[q].op \notin Exclusive
    <3> SUFFICES ASSUME proc[q].op \in Exclusive PROVE FALSE
      OBVIOUS
    <3>1. Disjoint(proc[p].want, proc[q].want)
      BY HolderSeparate DEF Separate
    <3> QED BY <1>1, <2>0, <3>1, SameStart DEF Exact, Names
  <2>2. proc[q].op \in Reads
    BY <1>0, <2>0, <2>1 DEF Process, Op, Exclusive, Reads
  <2>3. proc[q].pc # "getnewbuf"
    BY <1>0, <1>2, NothingMoves DEF Files
  <2>4. proc[q].pc \notin {"overlap", "allocbuf", "bwrite"}
    BY <1>0, <1>2, <2>0, <2>2 DEF ReadOK
  <2>5. proc[q].pc = "brealloc" => buf[b].cnt = proc[q].want.size
    BY <1>0, <1>2, <2>0, <2>2 DEF ReadOK
  <2> QED BY <1>0, <1>2, <2>3, <2>4, <2>5 DEF Serving, RegsOK, Process, Label
<1> QED BY <1>2 DEF Holds, Serving

LEMMA QueueSleeps ==
    ASSUME Files, Settling, Uncooked, \A r \in Procs : GrowOK(r),
           NEW p \in Procs, Act(p), slp'[p] \in Bufs
    PROVE  QueueOK(p)'
<1>0. IInv /\ Shapes /\ None \notin Bufs /\ FreeList \notin Bufs /\ WakeOK(p)
      /\ proc[p] \in Process /\ PathOK(proc[p]) /\ FreshOK(p)
      /\ buf \in [Bufs -> Buffer] /\ LiveInv
  BY View, BufferCacheAssumption
  DEF Files, Safe, WaitingInv, Shapes, Paths, TypeOK
<1>1. slp[p] = None /\ slp'[p] # None
  BY <1>0, Awake
<1>2. ASSUME NEW b \in Bufs, WaitFor(p, b), Is(b, "BUSY"),
             \/ proc[p].pc = "getblk" /\ b \in Cached(proc[p].want)
             \/ proc[p].pc = "overlap" /\ b \in Rivals(p)
             \/ proc[p].pc = "blkflush"
      PROVE  QueueOK(p)'
  <2>1. /\ proc' = proc /\ slp'[p] = b /\ ~Holds(p, b)
        /\ \A c \in Bufs : buf'[c].blk = buf[c].blk /\ buf'[c].cnt = buf[c].cnt
    <3>1. proc' = proc /\ slp'[p] = b
      BY <1>0, <1>2 DEF WaitFor, Sleep, IInv, TypeOK
    <3>2. \A c \in Bufs : buf'[c].blk = buf[c].blk /\ buf'[c].cnt = buf[c].cnt
      BY <1>0, <1>2, WaitKept DEF Kept
    <3> QED BY <1>0, <1>2, <3>1, <3>2, NotOwnFirst
  <2>2. CASE proc[p].pc = "blkflush"
    BY <2>1, <2>2 DEF QueueOK
  <2>3. CASE proc[p].pc \in {"getblk", "overlap"} /\ proc[p].op \in Exclusive
    <3>1. \A q \in Procs : Holds(q, b) => Passing(q, b)
      BY <1>2, <2>1, <2>3, SleepPassing
    <3>2. \A q \in Procs : Holds(q, b)' => Passing(q, b)'
      BY <2>1, <3>1 DEF Holds, Passing
    <3> QED BY <2>1, <2>3, <3>2 DEF QueueOK
  <2>4. CASE proc[p].pc = "getblk" /\ proc[p].op \notin Exclusive
    <3>1. proc[p].op = "read"
      BY <1>0, <1>2, <2>4 DEF FreshOK, Fresh, PathOK, Process, Op, Exclusive
    <3> QED BY <2>1, <2>4, <3>1 DEF QueueOK
  <2>5. CASE proc[p].pc = "overlap" /\ proc[p].op \notin Exclusive
    <3>1. b \in Rivals(p)
      BY <1>2, <2>5
    <3>2. proc[p].op \in {"read", "reada", "ahead"}
      <4>1. proc[p].op # "anon"
        BY <1>0, <3>1 DEF PathOK, Rivals, Overlapping, FragsOf, Frags
      <4> QED BY <1>0, <2>5, <4>1 DEF PathOK, Process, Op, Exclusive
    <3>3. \A q \in Procs : Holds(q, b) => Serving(q, b)
      BY <2>1, <3>1, <3>2, SleepServing
    <3>4. buf[b].blk = proc[p].want.start
      BY <3>1, <3>2, ReadQuiet DEF Rivals, Overlapping, Held, Settling, ExactOK, Exact, Names
    <3>5. \A q \in Procs : Holds(q, b)' => Serving(q, b)'
      BY <2>1, <3>3 DEF Holds, Serving
    <3> QED BY <2>1, <2>5, <3>2, <3>4, <3>5 DEF QueueOK
  <2> QED BY <1>2, <2>2, <2>3, <2>4, <2>5
<1>3. ASSUME \/ proc[p].pc = "biowait" /\ slp'[p] = proc[p].bp
             \/ proc[p].pc = "bwrite" /\ slp'[p] = proc[p].ep,
             proc'[p] = proc[p]
      PROVE  QueueOK(p)'
  BY <1>3 DEF QueueOK, Holds
<1> QED BY <1>0, <1>1, <1>2, <1>3, Sleeps

LEMMA BusyName ==
    ASSUME IInv, Shapes, NEW p \in Procs, Act(p), NEW b \in Bufs,
           ~Free(b), ~Free(b)'
    PROVE  buf'[b].blk = buf[b].blk
<1>1. Touched(p, b)
  BY ActTouches
<1> USE DEF Free
<1>2. ~(Claimed(p, b) \/ Dropped(p, b) \/ Given(p, b) \/ Robbing(p, b))
  BY DEF Claimed, Dropped, Given, Robbing
<1>3. ~(Returned(p, b) \/ Put(p, b))
  BY DEF Returned, Put, OnList
<1> QED
  BY <1>1, <1>2, <1>3
  DEF Touched, Passed, Kept, Found, Flushed, Updated, Opened, Fitted,
      Enlarged, Fetched, Completing, Carries

LEMMA QueueAct ==
    ASSUME Files, IInv', Settling, Uncooked, \A r \in Procs : GrowOK(r) /\ QueueOK(r),
           NEW p \in Procs, Act(p)
    PROVE  \A r \in Procs : QueueOK(r)'
<1>0. IInv /\ Shapes /\ None \notin Bufs /\ FullOK
  BY NoneIsNoBuffer DEF Files, Safe, FullInv
<1>1. QueueOK(p)'
  BY QueueSleeps DEF QueueOK
<1>2. ASSUME NEW r \in Procs \ {p} PROVE QueueOK(r)'
  <2>1. proc'[r] = proc[r] /\ slp'[r] \in {slp[r], None} /\ WakeOK(r) /\ QueueOK(r)
    BY <1>0, ActsAlone DEF Files, WaitingInv
  <2> SUFFICES ASSUME slp'[r] \in Bufs PROVE QueueOK(r)'
    BY DEF QueueOK
  <2> DEFINE b == slp[r]
  <2>2. slp'[r] = b /\ b \in Bufs
    BY <1>0, <2>1
  <2>3. CASE Holds(r, b)
    BY <2>1, <2>2, <2>3 DEF QueueOK, Holds
  <2>4. CASE ~Holds(r, b)
    <3>1. ~Free(b) /\ Is(b, "WANTED")
      BY <2>1, <2>2, <2>4 DEF WakeOK
    <3>2. ~Free(b)'
      <4>1. ASSUME ReleaseWakeups(b) PROVE slp'[r] = None
        BY <2>2, <3>1, <4>1 DEF ReleaseWakeups, Wakeup
      <4> QED BY <1>0, <2>2, <3>1, <4>1, ReleasesWake
    <3>3. ASSUME NEW q \in Procs, Holds(q, b)' PROVE Holds(q, b)
      BY <1>0, <2>2, <3>1, <3>3, HeldBefore
    <3>4. ASSUME NEW q \in Procs \ {p}, Holds(q, b)
          PROVE  Kept(b) /\ proc'[q] = proc[q]
      BY <1>0, <2>2, <3>1, <3>4, OthersKept, ActsAlone DEF IInv, HoldInv, OneHolder
    <3>5. CASE proc[r].pc = "blkflush" \/ (proc[r].pc = "getblk" /\ proc[r].op = "read")
      BY <2>1, <3>5 DEF QueueOK
    <3>6. ASSUME \A q \in Procs : Holds(q, b) => Passing(q, b),
                 NEW q \in Procs, Holds(q, b)'
          PROVE  Passing(q, b)'
      <4>1. CASE q # p
        BY <2>2, <3>3, <3>4, <3>6, <4>1 DEF Passing, Kept
      <4>2. CASE q = p
        BY <1>0, <2>2, <3>3, <3>6, <4>2, PassStep DEF Files
      <4> QED BY <4>1, <4>2
    <3>7. ASSUME \A q \in Procs : Holds(q, b) => Serving(q, b),
                 buf[b].blk = proc[r].want.start,
                 proc[r].op \in {"read", "reada", "ahead"},
                 NEW q \in Procs, Holds(q, b)'
          PROVE  Serving(q, b)'
      <4>1. CASE q # p
        BY <2>2, <3>3, <3>4, <3>7, <4>1 DEF Serving, Kept
      <4>2. CASE q = p
        <5>1. b = proc[p].bp => proc[p].op # "extend"
          <6> SUFFICES ASSUME b = proc[p].bp, proc[p].op = "extend" PROVE FALSE
            OBVIOUS
          <6>1. Disjoint(proc[p].want, proc[r].want)
            BY HolderSeparate DEF Separate, Exclusive
          <6>2. proc[p].want \in FileExtent /\ buf[b].blk = proc[p].want.start
            BY <1>0, <2>2, WantOK
          <6> QED BY <3>7, <6>1, <6>2, SameStart, ReadQuiet
        <5> QED BY <1>0, <2>2, <3>3, <3>7, <4>2, <5>1, ServeStep DEF Files
      <4> QED BY <4>1, <4>2
    <3>8. buf'[b].blk = buf[b].blk
      BY <1>0, <2>2, <3>1, <3>2, BusyName
    <3> QED BY <2>1, <2>2, <2>4, <3>5, <3>6, <3>7, <3>8 DEF QueueOK
  <2> QED BY <2>3, <2>4
<1> QED BY <1>1, <1>2

LEMMA QueueNext ==
    ASSUME Files, IInv', Settling, Uncooked, \A r \in Procs : GrowOK(r) /\ QueueOK(r),
           [Next]_vars
    PROVE  \A r \in Procs : QueueOK(r)'
<1>1. ASSUME NEW p \in Procs, Act(p) PROVE \A r \in Procs : QueueOK(r)'
  BY <1>1, QueueAct
<1>2. ASSUME NEW c \in Bufs, NEW err \in IOErrors, Biodone(c, err), NEW r \in Procs
      PROVE  QueueOK(r)'
  <2>1. /\ proc' = proc /\ QueueOK(r) /\ WakeOK(r) /\ IInv /\ err \in BOOLEAN
        /\ None \notin Bufs
    BY <1>2, BufferCacheAssumption DEF Biodone, Files, Safe, WaitingInv
  <2>2. /\ \A b \in Bufs \ {c} : buf'[b] = buf[b]
        /\ IF Is(c, "ASYNC") THEN ReleaseWakeups(c) ELSE Wakeup({c})
    BY <1>2, <2>1, BiodoneSets
  <2>3. slp'[r] \in {slp[r], None}
    BY <2>2 DEF ReleaseWakeups, Wakeup
  <2> SUFFICES ASSUME slp'[r] \in Bufs PROVE QueueOK(r)'
    BY DEF QueueOK
  <2>4. slp'[r] = slp[r] /\ slp[r] \in Bufs
    BY <2>1, <2>3
  <2>5. CASE Holds(r, slp[r])
    BY <2>1, <2>4, <2>5 DEF QueueOK, Holds
  <2>6. CASE ~Holds(r, slp[r])
    <3>1. Is(slp[r], "WANTED")
      BY <2>1, <2>4, <2>6 DEF WakeOK
    <3>2. slp[r] # c
      <4> SUFFICES ASSUME slp[r] = c PROVE slp'[r] = None
        BY <2>1
      <4> QED BY <2>2, <3>1 DEF ReleaseWakeups, Wakeup
    <3>3. buf'[slp[r]] = buf[slp[r]]
      BY <2>2, <2>4, <3>2
    <3> QED BY <2>1, <2>4, <2>6, <3>3 DEF QueueOK, Holds, Passing, Serving
  <2> QED BY <2>5, <2>6
<1>3. ASSUME UNCHANGED <<buf, proc, slp>>, NEW r \in Procs PROVE QueueOK(r)'
  BY <1>3 DEF QueueOK, Holds, Passing, Serving
<1> QED BY <1>1, <1>2, <1>3 DEF Next, Act, FreeExtent, vars

\* Read-aheads that look for each other's first blocks.
Chasing(S) ==
    \A p \in S :
        /\ proc[p].op = "ahead" /\ proc[p].pc # "finish"
        /\ \E q \in S : /\ proc[q].first # None
                        /\ buf[proc[q].first].blk = proc[p].want.start
NoChase == \A S \in SUBSET Procs : Chasing(S) => S = {}

LEMMA ToAhead ==
    ASSUME IInv, LiveOK, NEW p \in Procs, Act(p), proc'[p].op = "ahead",
           proc'[p].pc # "finish"
    PROVE  \/ /\ Cached(proc'[p].want) = {} /\ UNCHANGED buf
              /\ proc'[p].first = proc[p].first
           \/ /\ proc[p].op = "ahead" /\ proc[p].pc # "finish"
              /\ proc'[p].want = proc[p].want /\ proc'[p].first = proc[p].first
<1>0. /\ proc[p] \in Process /\ proc \in [Procs -> Process] /\ RegsOK(proc[p])
  BY View DEF TypeOK
<1>1. CASE Getblk(p)
  BY <1>0, <1>1, GetblkMoves
<1>2. CASE Got(p)
  <2>1. CASE GotCached(p)
    BY <1>0, <2>1 DEF GotCached, Goto, Running, Process
  <2>2. CASE GotUncached(p)
    BY <1>0, <2>2 DEF GotUncached, Goto, Running, Process
  <2>3. CASE GotBlank(p)
    BY <1>0, <2>3 DEF GotBlank, Goto, Running, Process
  <2>4. CASE GotExtended(p)
    BY <1>0, <2>4 DEF GotExtended, Goto, Running, Process
  <2>5. CASE GotCopy(p)
    BY <1>0, <2>5 DEF GotCopy, Goto, Running, Process
  <2>6. CASE BreadaFirst(p)
    BY <1>0, <2>6 DEF BreadaFirst, Goto, Running, Process
  <2>7. CASE BreadaFinish(p)
    BY <1>0, <2>7 DEF BreadaFinish, Goto, Running, Process
  <2>8. CASE Biowait(p)
    BY <1>0, <2>8 DEF Biowait, Goto, Running, Process
  <2>9. CASE GotAhead(p)
    BY <1>0, <2>9 DEF GotAhead, AheadOver, Goto, Running, Process
  <2>30. CASE BreadaAhead(p)
    <3>1. CASE Cached(proc[p].ra) = {}
      <4>1. proc'[p].want = proc[p].ra /\ proc'[p].first = proc[p].first /\ buf' = buf
        BY <1>0, <2>30, <3>1 DEF BreadaAhead, Goto, Process
      <4> QED BY <3>1, <4>1
    <3>2. CASE Cached(proc[p].ra) # {}
      BY <1>0, <2>30, <3>2 DEF BreadaAhead, Goto, Process
    <3> QED BY <3>1, <3>2
  <2>31. CASE ReadDone(p)
    BY <2>31, ReadDoneMoves
  <2>32. CASE WriteDone(p)
    BY <1>0, <2>32, WriteDoneMoves DEF RegsOK, Idle, Empty
  <2> QED
    BY <1>2, <2>1, <2>2, <2>3, <2>4, <2>5, <2>6, <2>7, <2>8, <2>9, <2>30,
       <2>31, <2>32
    DEF Got
<1>3. CASE Finish(p)
  <2>1. CASE Brelse(p)
    BY <1>0, <2>1 DEF Brelse, Leave, Idle, Empty, Running
  <2>2. CASE BflushReturn(p)
    BY <1>0, <2>2 DEF BflushReturn, Leave, Idle, Empty, Running
  <2>3. CASE BlkflushReturn(p)
    BY <1>0, <2>3 DEF BlkflushReturn, Leave, Idle, Empty, Running
  <2>4. CASE Bdwrite(p)
    BY <1>0, <2>4 DEF Bdwrite, Changing, Leave, Idle, Empty, Running
  <2>5. CASE Bawrite(p)
    BY <1>0, <2>5 DEF Bawrite, Changing, Leave, Idle, Empty, Running
  <2>6. CASE Bwrite(p)
    BY <1>0, <2>6 DEF Bwrite, Changing, Goto, Process, Running
  <2>7. CASE BflushWrite(p)
    BY <1>0, <2>7 DEF BflushWrite, FlushAsync, Running
  <2>8. CASE BlkflushBusy(p)
    BY <1>0, <2>8 DEF BlkflushBusy, WaitFor, Running
  <2>9. CASE BlkflushDirty(p)
    BY <1>0, <2>9 DEF BlkflushDirty, FlushSync, Goto, Process, Running
  <2> QED
    BY <1>3, <2>1, <2>2, <2>3, <2>4, <2>5, <2>6, <2>7, <2>8, <2>9 DEF Finish
<1>4. ~Call(p)
  BY CallExtents DEF Enters
<1>5. CASE Dispatch(p) \/ Pause(p)
  BY <1>5 DEF Dispatch, Pause
<1> QED BY <1>1, <1>2, <1>3, <1>4, <1>5 DEF Act, Step

LEMMA ChaseNext ==
    ASSUME Files, NoChase, [Next]_vars
    PROVE  NoChase'
<1>0. IInv /\ Shapes /\ LiveOK /\ None \notin Bufs
      /\ \A q \in Procs : proc[q] \in Process /\ NamedOK(q)
  BY NoneIsNoBuffer, View DEF Files, Safe, Shapes, WaitingInv, LiveInv
<1> SUFFICES ASSUME NEW S \in SUBSET Procs, Chasing(S)' PROVE Chasing(S)
  BY DEF NoChase
<1>1. ASSUME NEW p \in Procs, Act(p) PROVE Chasing(S)
  <2>1. ASSUME NEW q \in S PROVE proc'[q].op = "ahead" /\ proc'[q].pc # "finish"
    BY DEF Chasing
  <2>2. ASSUME NEW q \in S
        PROVE  /\ proc[q].op = "ahead" /\ proc[q].pc # "finish"
               /\ proc'[q].want = proc[q].want /\ proc'[q].first = proc[q].first
    <3>1. CASE q # p
      BY <1>0, <1>1, <2>1, <3>1, ActsAlone
    <3>2. CASE q = p
      <4> SUFFICES ASSUME Cached(proc'[p].want) = {}, UNCHANGED buf,
                          proc'[p].first = proc[p].first
                   PROVE  FALSE
        BY <1>0, <1>1, <2>1, <3>2, ToAhead
      <4>1. PICK r \in S : proc'[r].first # None
                           /\ buf[proc'[r].first].blk = proc'[p].want.start
        BY <3>2 DEF Chasing
      <4>2. proc'[r].first = proc[r].first
        BY <1>0, <1>1, ActsAlone
      <4>3. proc[r].first \in Bufs /\ ~Is(proc[r].first, "INVAL")
        BY <1>0, <4>1, <4>2 DEF Process, NamedOK
      <4> QED BY <4>1, <4>2, <4>3 DEF Cached
    <3> QED BY <3>1, <3>2
  <2>3. ASSUME NEW q \in S, proc[q].first # None
        PROVE  buf'[proc[q].first].blk = buf[proc[q].first].blk
    <3>1. CASE q # p
      <4>1. proc[q].first \in Bufs /\ Holds(q, proc[q].first)
        BY <1>0, <2>3 DEF Process, Holds
      <4> QED
        BY <1>0, <1>1, <3>1, <4>1, OthersKept DEF Kept, IInv, HoldInv, HeldOK, OneHolder
    <3>2. CASE q = p
      BY <1>0, <1>1, <2>2, <2>3, <3>2, FirstKept DEF Kept
    <3> QED BY <3>1, <3>2
  <2> QED BY <2>2, <2>3 DEF Chasing
<1>2. ASSUME NEW b \in Bufs, NEW err \in IOErrors, Biodone(b, err) PROVE Chasing(S)
  <2>1. proc' = proc
    BY <1>2 DEF Biodone
  <2>2. ASSUME NEW q \in Procs, proc[q].first # None
        PROVE  buf'[proc[q].first].blk = buf[proc[q].first].blk
    <3>1. proc[q].first \in Bufs /\ ~Is(proc[q].first, "ASYNC")
      BY <1>0, <2>2 DEF Process, IInv, HoldInv, HeldOK, Holds
    <3>2. CASE proc[q].first = b
      BY <1>0, <1>2, <3>1, <3>2, BiodoneSets, BufferCacheAssumption
    <3>3. CASE proc[q].first # b
      BY <1>0, <1>2, <3>1, <3>3, BiodoneSets, BufferCacheAssumption
    <3> QED BY <3>2, <3>3
  <2> QED BY <2>1, <2>2 DEF Chasing
<1>3. ASSUME UNCHANGED <<buf, proc>> PROVE Chasing(S)
  BY <1>3 DEF Chasing
<1> QED BY <1>1, <1>2, <1>3 DEF Next, Act, FreeExtent, vars

\* What a circle would be made of: every process in it that another one waits
\* for looks for rivals of the block it will read.
Circle(S) ==
    \A p \in S : slp[p] \in Bufs \ io /\ \E q \in S : Holds(q, slp[p])
Awaited(S) == {q \in S : \E p \in S : Holds(q, slp[p])}

LEMMA AwaitedLooks ==
    ASSUME FilesInv, \A p \in Procs : QueueOK(p), NEW S \in SUBSET Procs, Circle(S),
           NEW q \in Awaited(S)
    PROVE  /\ proc[q].pc = "overlap" /\ proc[q].op \in {"read", "reada", "ahead"}
           /\ buf[slp[q]].blk = proc[q].want.start
           /\ \A r \in Procs : Holds(r, slp[q]) => Serving(r, slp[q])
<1>0. /\ None \notin Bufs
      /\ \A p \in Procs : proc[p] \in Process /\ RegsOK(proc[p]) /\ WakeOK(p)
  BY NoneIsNoBuffer, View DEF FilesInv, Files, Safe, WaitingInv
<1>1. ASSUME NEW r \in Awaited(S)
      PROVE  /\ proc[r].pc \in {"getblk", "overlap"}
             /\ ~(proc[r].pc = "getblk" /\ proc[r].op = "read")
  <2>1. r \in Procs /\ slp[r] \in Bufs \ io /\ ~Holds(r, slp[r])
    BY <1>0 DEF Awaited, Circle, WakeOK
  <2>2. PICK p \in S : Holds(r, slp[p])
    BY DEF Awaited
  <2>3. slp[p] \in Bufs
    BY <2>2 DEF Circle
  <2>4. \/ proc[r].pc = "blkflush"
        \/ proc[r].pc \in {"getblk", "overlap"}
    BY <2>1 DEF QueueOK
  <2>5. ~(proc[r].bp = None /\ proc[r].ep = None /\ proc[r].first = None)
    BY <1>0, <2>2, <2>3 DEF Holds
  <2> QED BY <1>0, <2>1, <2>4, <2>5 DEF RegsOK
<1>2. PICK r \in S : Holds(r, slp[q])
  BY DEF Awaited, Circle
<1>3. r \in Awaited(S) /\ q \in S /\ slp[q] \in Bufs \ io /\ ~Holds(q, slp[q])
  BY <1>0, <1>2 DEF Awaited, Circle, WakeOK
<1>4. ~Passing(r, slp[q])
  BY <1>0, <1>1, <1>3 DEF Passing, RegsOK
<1> QED BY <1>1, <1>2, <1>3, <1>4 DEF QueueOK

LEMMA AwaitedAhead ==
    ASSUME FilesInv, \A p \in Procs : QueueOK(p), NEW S \in SUBSET Procs, Circle(S),
           NEW p \in Awaited(S), NEW q \in S, Holds(q, slp[p])
    PROVE  /\ q \in Awaited(S) /\ proc[q].op = "ahead" /\ proc[q].pc = "overlap"
           /\ proc[q].first = slp[p] /\ slp[p] # None
           /\ buf[proc[q].first].blk = proc[p].want.start
<1>0. /\ None \notin Bufs /\ RegsOK(proc[q]) /\ q \in Awaited(S)
      /\ slp[p] \in Bufs /\ p \in S
  BY NoneIsNoBuffer DEF FilesInv, Files, Safe, IInv, ProcInv, Awaited, Circle
<1>1. Serving(q, slp[p]) /\ buf[slp[p]].blk = proc[p].want.start
  BY AwaitedLooks
<1>2. proc[q].pc = "overlap" /\ proc[q].op \in {"read", "reada", "ahead"}
  BY <1>0, AwaitedLooks
<1>3. proc[q].first = slp[p]
  BY <1>0, <1>1, <1>2 DEF Serving, RegsOK
<1> QED BY <1>0, <1>1, <1>2, <1>3 DEF RegsOK

CircleInv == FilesInv /\ NoChase /\ \A p \in Procs : GrowOK(p) /\ QueueOK(p)

LEMMA InCircle == CircleInv => NoCircularWait
<1> SUFFICES ASSUME CircleInv, NEW S \in SUBSET Procs, Circle(S) PROVE S = {}
  BY DEF NoCircularWait, Circle
<1> DEFINE T == {q \in Awaited(S) : proc[q].op = "ahead"}
<1>1. \A p \in Awaited(S) :
         \E q \in T : /\ proc[q].first # None /\ proc[q].pc = "overlap"
                      /\ buf[proc[q].first].blk = proc[p].want.start
  <2> SUFFICES ASSUME NEW p \in Awaited(S)
               PROVE  \E q \in T : /\ proc[q].first # None /\ proc[q].pc = "overlap"
                                   /\ buf[proc[q].first].blk = proc[p].want.start
    OBVIOUS
  <2>1. PICK q \in S : Holds(q, slp[p])
    BY DEF Awaited, Circle
  <2> QED BY <2>1, AwaitedAhead DEF CircleInv
<1>2. \A q \in T : proc[q].pc # "finish"
  BY AwaitedLooks DEF CircleInv
<1>3. T \in SUBSET Procs /\ Chasing(T)
  BY <1>1, <1>2 DEF Chasing, Awaited
<1>4. Awaited(S) = {}
  BY <1>1, <1>3 DEF CircleInv, NoChase
<1> QED BY <1>4 DEF Circle, Awaited

LEMMA InitCircle == Init => NoChase /\ \A p \in Procs : GrowOK(p) /\ QueueOK(p)
<1> SUFFICES ASSUME Init PROVE NoChase /\ \A p \in Procs : GrowOK(p) /\ QueueOK(p)
  OBVIOUS
<1>1. \A p \in Procs : proc[p] = Idle /\ slp[p] = None
  BY DEF Init
<1>2. NoChase
  BY <1>1 DEF NoChase, Chasing, Idle, Empty
<1>3. \A p \in Procs : GrowOK(p) /\ QueueOK(p)
  BY <1>1, NoneIsNoBuffer DEF GrowOK, Looking, QueueOK, Idle, Empty
<1> QED BY <1>2, <1>3

LEMMA CircleAlways == Full /\ Uncooked => (Spec => []CircleInv)
<1> SUFFICES ASSUME Full, Uncooked PROVE Spec => []CircleInv
  OBVIOUS
<1>1. Init => CircleInv
  BY InitInv, InitShapes, InitMem, InitWait, InitFull, InitSettling, InitCircle
  DEF FilesInv, Files, Safe, CircleInv
<1>2. CircleInv /\ [Next]_vars => CircleInv'
  <2> SUFFICES ASSUME CircleInv, [Next]_vars PROVE CircleInv'
    OBVIOUS
  <2>1. FilesInv'
    BY SafeNext, WaitNext, AloneNext, UsedNext, SettlingNext
    DEF CircleInv, FilesInv, Files
  <2>2. (\A p \in Procs : GrowOK(p)') /\ NoChase'
    BY <2>1, GrowNext, ChaseNext DEF CircleInv, FilesInv, Files, Safe
  <2>3. \A p \in Procs : QueueOK(p)'
    BY <2>1, QueueNext DEF CircleInv, FilesInv, Files, Safe
  <2> QED BY <2>1, <2>2, <2>3 DEF CircleInv
<1> QED BY <1>1, <1>2, PTL DEF Spec

\* With memory for whole blocks, and without reads of the block device,
\* nobody sleeps for ever: every sleeper has a wakeup to come, and no processes
\* wait for one another's buffers in a circle, whatever extents they ask for
\* while they hold others (ufs_bio.c:371-373 getblk, brealloc, breada, and
\* ufs_alloc.c realloccg).
THEOREM NobodyIsStuck ==
    BasePages = BlockFrags /\ "cooked" \notin Calls => (Spec => []NoneStuck)
<1> SUFFICES ASSUME Full, Uncooked PROVE Spec => []NoneStuck
  BY DEF Full, Uncooked
<1>1. CircleInv /\ WillBeWoken => NoneStuck
  BY InCircle DEF NoneStuck
<1> QED BY <1>1, CircleAlways, NoWakeupIsLost, PTL

------------------------------------------------------------------------------
(* Files only, and a device without errors: the contents of the buffers. *)

\* realloccg has b larger than before, and not yet cleared the new part.
Growing(b) ==
    \E p \in Procs : /\ proc[p].op = "extended" /\ proc[p].pc \in {"got", "hold"}
                     /\ b = proc[p].bp

\* A buffer knows what it has: with B_DONE the latest contents of all its
\* fragments, and so when they are on their way to the disk.
CurOK(b) ==
    /\ buf[b].cur \subseteq BufFrags(buf[b])
    /\ ~Is(b, "INVAL") /\ Is(b, "DONE") /\ ~Growing(b) =>
          BufFrags(buf[b]) \subseteq buf[b].cur
    /\ b \in io /\ ~Is(b, "READ") => BufFrags(buf[b]) \subseteq buf[b].cur
    /\ Is(b, "DELWRI") \/ b \in io => ~Is(b, "INVAL")

\* brealloc makes a buffer without B_DONE larger, and one without a delayed
\* write smaller.
FitOK(p) ==
    LET r == proc[p]
    IN  /\ Looking(r) => ~Is(r.bp, "DONE")
        /\ r.pc = "brealloc" /\ Is(r.bp, "DELWRI") => Is(r.bp, "DONE")
        /\ r.pc = "allocbuf" =>
              /\ buf[r.bp].cnt < r.want.size => ~Is(r.bp, "DONE")
              /\ buf[r.bp].cnt > r.want.size => ~Is(r.bp, "DELWRI")

Curs == \A b \in Bufs : CurOK(b)

\* Where a buffer gets B_DONE or B_DELWRI from a process.
LEMMA Marks ==
    ASSUME Safe, FullOK, NEW p \in Procs, Act(p), NEW b \in Bufs
    PROVE  /\ "DONE" \in buf'[b].flags =>
                 Is(b, "DONE") \/ proc[p].pc \in {"got", "hold"}
           /\ "DELWRI" \in buf'[b].flags => Is(b, "DELWRI") \/ proc[p].pc = "hold"
<1>1. Touched(p, b)
  BY ActTouches DEF Safe
<1>2. ~Given(p, b) /\ ~Enlarged(p, b) /\ ~Robbing(p, b)
  BY NothingMoves DEF Given, Enlarged, Robbing
<1> USE DEF Is
<1>3. CASE Passed(p, b) \/ Found(p, b) \/ Flushed(p, b) \/ Claimed(p, b)
  BY <1>3 DEF Passed, Kept, Found, Flushed, Claimed, Carries, Clean
<1>4. CASE Updated(p, b) \/ Put(p, b)
  BY <1>4 DEF Updated, Put, Carries, Clean, Changing, Running
<1>5. CASE Opened(p, b) \/ Dropped(p, b) \/ Fitted(p, b)
  BY <1>5 DEF Opened, Dropped, Fitted, Carries
<1>6. CASE Fetched(p, b) \/ Completing(p, b) \/ Returned(p, b)
  BY <1>6 DEF Fetched, Completing, Returned, Carries
<1> QED BY <1>1, <1>2, <1>3, <1>4, <1>5, <1>6 DEF Touched

\* How a process comes to have a buffer in brealloc.
LEMMA ToBrealloc ==
    ASSUME IInv, NEW p \in Procs, Step(p), proc'[p].pc = "brealloc"
    PROVE  \/ GetblkHit(p) \/ GetnewbufClean(p)
           \/ UNCHANGED buf /\ Is(proc'[p].bp, "DONE")
<1>0. proc[p] \in Process /\ proc \in [Procs -> Process] /\ RegsOK(proc[p])
  BY View DEF TypeOK
<1>1. CASE Getblk(p)
  <2>1. CASE GetblkBusy(p)
    BY <1>0, <2>1 DEF GetblkBusy, WaitFor, Goto, Running, Process
  <2>2. CASE OverlapBusy(p)
    BY <1>0, <2>2 DEF OverlapBusy, WaitFor, Goto, Running, Process
  <2>3. CASE GetnewbufDirty(p)
    BY <1>0, <2>3 DEF GetnewbufDirty, FlushAsync, Goto, Running, Process
  <2>4. CASE OverlapDirty(p)
    BY <1>0, <2>4 DEF OverlapDirty, FlushSync, Goto, Running, Process
  <2>5. CASE GetblkMiss(p)
    BY <1>0, <2>5 DEF GetblkMiss, Goto, Running, Process
  <2>6. CASE GetnewbufNone(p)
    BY <1>0, <2>6 DEF GetnewbufNone, Goto, Running, Process
  <2>7. CASE BreallocSame(p)
    BY <1>0, <2>7 DEF BreallocSame, Goto, Running, Process
  <2>8. CASE BreallocDirty(p)
    BY <1>0, <2>8 DEF BreallocDirty, Goto, Running, Process
  <2>9. CASE BreallocGrow(p)
    BY <1>0, <2>9 DEF BreallocGrow, Goto, Running, Process
  <2>10. CASE BreallocShrink(p)
    BY <1>0, <2>10 DEF BreallocShrink, Goto, Running, Process
  <2>11. CASE OverlapClean(p)
    BY <1>0, <2>11 DEF OverlapClean, Goto, Running, Process
  <2>12. CASE OverlapNone(p)
    BY <1>0, <2>12 DEF OverlapNone, Goto, Running, Process
  <2>13. CASE AllocbufFits(p)
    BY <1>0, <2>13 DEF AllocbufFits, Goto, Running, Process
  <2>14. CASE AllocbufGive(p)
    BY <1>0, <2>14 DEF AllocbufGive, Goto, Running, Process
  <2>15. CASE AllocbufMore(p)
    BY <1>0, <2>15 DEF AllocbufMore, Goto, Running, Process
  <2>16. CASE AllocbufTake(p)
    BY <1>0, <2>16 DEF AllocbufTake, Goto, Running, Process
  <2>30. CASE GetblkHit(p) \/ GetnewbufClean(p)
    BY <2>30
  <2> QED
    BY <1>1, <2>1, <2>2, <2>3, <2>4, <2>5, <2>6, <2>7, <2>8, <2>9, <2>10,
       <2>11, <2>12, <2>13, <2>14, <2>15, <2>16, <2>30
    DEF Getblk
<1>2. CASE Got(p)
  <2>1. CASE GotCached(p)
    BY <1>0, <2>1 DEF GotCached, Goto, Running, Process
  <2>2. CASE GotUncached(p)
    BY <1>0, <2>2 DEF GotUncached, Goto, Running, Process
  <2>3. CASE GotBlank(p)
    BY <1>0, <2>3 DEF GotBlank, Goto, Running, Process
  <2>4. CASE GotExtended(p)
    BY <1>0, <2>4 DEF GotExtended, Goto, Running, Process
  <2>5. CASE GotCopy(p)
    BY <1>0, <2>5 DEF GotCopy, Goto, Running, Process
  <2>6. CASE BreadaFirst(p)
    BY <1>0, <2>6 DEF BreadaFirst, Goto, Running, Process
  <2>7. CASE BreadaAhead(p)
    BY <1>0, <2>7 DEF BreadaAhead, Goto, Running, Process
  <2>8. CASE BreadaFinish(p)
    BY <1>0, <2>8 DEF BreadaFinish, Goto, Running, Process
  <2>9. CASE Biowait(p)
    BY <1>0, <2>9 DEF Biowait, Goto, Running, Process
  <2>10. CASE GotAhead(p)
    BY <1>0, <2>10 DEF GotAhead, AheadOver, Goto, Running, Process
  <2>30. CASE ReadDone(p)
    <3>1. UNCHANGED buf
      BY <2>30 DEF ReadDone
    <3> QED BY <2>30, <3>1, ReadDoneMoves
  <2>31. CASE WriteDone(p)
    BY <1>0, <2>31, WriteDoneMoves DEF RegsOK, Idle, Empty
  <2> QED
    BY <1>2, <2>1, <2>2, <2>3, <2>4, <2>5, <2>6, <2>7, <2>8, <2>9, <2>10,
       <2>30, <2>31
    DEF Got
<1>3. CASE Finish(p)
  <2>1. CASE Brelse(p)
    BY <1>0, <2>1 DEF Brelse, Leave, Idle, Empty, Running
  <2>2. CASE BflushReturn(p)
    BY <1>0, <2>2 DEF BflushReturn, Leave, Idle, Empty, Running
  <2>3. CASE BlkflushReturn(p)
    BY <1>0, <2>3 DEF BlkflushReturn, Leave, Idle, Empty, Running
  <2>4. CASE Bdwrite(p)
    BY <1>0, <2>4 DEF Bdwrite, Changing, Leave, Idle, Empty, Running
  <2>5. CASE Bawrite(p)
    BY <1>0, <2>5 DEF Bawrite, Changing, Leave, Idle, Empty, Running
  <2>6. CASE Bwrite(p)
    BY <1>0, <2>6 DEF Bwrite, Changing, Goto, Process, Running
  <2>7. CASE BflushWrite(p)
    BY <1>0, <2>7 DEF BflushWrite, FlushAsync, Running
  <2>8. CASE BlkflushBusy(p)
    BY <1>0, <2>8 DEF BlkflushBusy, WaitFor, Running
  <2>9. CASE BlkflushDirty(p)
    BY <1>0, <2>9 DEF BlkflushDirty, FlushSync, Goto, Process, Running
  <2> QED
    BY <1>3, <2>1, <2>2, <2>3, <2>4, <2>5, <2>6, <2>7, <2>8, <2>9 DEF Finish
<1> QED BY <1>1, <1>2, <1>3 DEF Step

LEMMA FitAct ==
    ASSUME Files, Settling, Curs, NEW p \in Procs, GrowOK(p), FitOK(p), Act(p)
    PROVE  FitOK(p)'
<1>0. /\ proc[p] \in Process /\ proc \in [Procs -> Process] /\ RegsOK(proc[p])
      /\ buf \in [Bufs -> Buffer] /\ IInv /\ None \notin Bufs /\ p # None
      /\ Safe /\ FullOK /\ FullInv
  BY View, NoneIsNoBuffer DEF Files, Safe, TypeOK, FullInv
<1>1. ASSUME Looking(proc'[p]) PROVE "DONE" \notin buf'[proc'[p].bp].flags
  <2>1. CASE BreallocGrow(p)
    <3>1. proc[p].bp \in Bufs /\ proc'[p].bp = proc[p].bp
      BY <1>0, <2>1 DEF BreallocGrow, Running, RegsOK, Process, Goto
    <3> QED BY <1>0, <2>1, <3>1 DEF BreallocGrow, Buffer
  <2>2. CASE Looking(proc[p]) /\ proc'[p].bp = proc[p].bp
    <3>1. proc[p].bp \in Bufs /\ ~Is(proc[p].bp, "DONE")
          /\ proc[p].pc \notin {"got", "hold"}
      BY <1>0, <2>2 DEF Looking, RegsOK, Process, FitOK
    <3> QED BY <1>0, <2>2, <3>1, Marks
  <2> QED BY <1>0, <1>1, <2>1, <2>2, LooksOn
<1>2. ASSUME proc'[p].pc = "brealloc", "DELWRI" \in buf'[proc'[p].bp].flags
      PROVE  "DONE" \in buf'[proc'[p].bp].flags
  <2>1. CASE GetblkHit(p)
    <3>1. PICK b \in Cached(proc[p].want) :
             /\ ~Is(b, "BUSY") /\ buf' = [buf EXCEPT ![b] = Taken(@)]
             /\ proc'[p].bp = b
      BY <1>0, <2>1 DEF GetblkHit, Goto, Process
    <3>2. b \in Bufs /\ Free(b) /\ buf[b] \in Buffer /\ ~Is(b, "INVAL")
      BY <1>0, <3>1, NotBusyFree DEF Cached
    <3>3. buf'[b].flags = buf[b].flags \cup {"BUSY"}
      BY <1>0, <3>1, <3>2 DEF Taken, Buffer
    <3> QED BY <1>2, <3>1, <3>2, <3>3 DEF Settling, Whole, BlkOK, Is
  <2>2. CASE GetnewbufClean(p)
    <3> DEFINE flags == IF proc[p].op = "anon" THEN {"BUSY", "INVAL"} ELSE {"BUSY"}
    <3>1. PICK b \in Bufs :
             /\ buf' = [buf EXCEPT ![b] = Renamed(@, proc[p].want.start, flags)]
             /\ Goto(p, [proc[p] EXCEPT !.pc = "brealloc", !.bp = b])
      BY <2>2 DEF GetnewbufClean
    <3>2. proc'[p].bp = b
      BY <1>0, <3>1 DEF Goto, Process
    <3>3. buf'[b].flags = flags
      <4> HIDE DEF flags
      <4> QED BY <1>0, <3>1 DEF Renamed, Buffer
    <3> QED BY <1>2, <3>2, <3>3
  <2>3. CASE UNCHANGED buf /\ Is(proc'[p].bp, "DONE")
    BY <2>3 DEF Is
  <2>4. ~Call(p)
    BY <1>0, <1>2, CallEmpty
  <2>5. CASE Dispatch(p) \/ Pause(p)
    BY <1>2, <2>5 DEF Dispatch, Pause, FitOK, Is
  <2> QED BY <1>0, <1>2, <2>1, <2>2, <2>3, <2>4, <2>5, ToBrealloc DEF Act
<1>3. ASSUME proc'[p].pc = "allocbuf"
      PROVE  LET b == proc'[p].bp
             IN  /\ buf'[b].cnt < proc'[p].want.size => "DONE" \notin buf'[b].flags
                 /\ buf'[b].cnt > proc'[p].want.size => "DELWRI" \notin buf'[b].flags
  <2>1. CASE BreallocShrink(p)
    <3>1. buf' = buf /\ proc'[p].bp = proc[p].bp /\ proc'[p].want = proc[p].want
          /\ buf[proc[p].bp].cnt > proc[p].want.size /\ ~Is(proc[p].bp, "DELWRI")
          /\ proc[p].bp \in Bufs
      BY <1>0, <2>1 DEF BreallocShrink, Goto, Running, Process, RegsOK
    <3>2. buf[proc[p].bp].cnt \in Int /\ proc[p].want.size \in Int
      BY <1>0, <3>1, BufferCacheAssumption DEF Buffer, Process, Extent
    <3> QED BY <3>1, <3>2 DEF Is
  <2>2. CASE OverlapNone(p)
    <3>1. buf' = buf /\ proc'[p].bp = proc[p].bp /\ proc'[p].want = proc[p].want
          /\ Looking(proc[p]) /\ proc[p].bp \in Bufs
      BY <1>0, <2>2 DEF OverlapNone, Goto, Running, Process, RegsOK, Looking
    <3>2. buf[proc[p].bp].cnt \in Int /\ proc[p].want.size \in Int
      BY <1>0, <3>1, BufferCacheAssumption DEF Buffer, Process, Extent
    <3> QED BY <3>1, <3>2 DEF GrowOK, FitOK, Is
  <2>3. CASE ~BreallocShrink(p) /\ ~OverlapNone(p)
    <3>1. ~AllocbufTake(p)
      BY <1>0, NothingMoves
    <3>2. ~Step(p)
      BY <1>0, <1>3, <2>3, <3>1, ToAllocbuf
    <3>3. ~Call(p)
      BY <1>0, <1>3, CallEmpty
    <3>4. CASE Dispatch(p) \/ Pause(p)
      BY <1>3, <3>4 DEF Dispatch, Pause, FitOK, Is
    <3> QED BY <3>2, <3>3, <3>4 DEF Act
  <2> QED BY <2>1, <2>2, <2>3
<1> QED BY <1>1, <1>2, <1>3 DEF FitOK, Looking, Is

LEMMA FitNext ==
    ASSUME Files, Settling, Curs, \A p \in Procs : GrowOK(p) /\ FitOK(p), [Next]_vars
    PROVE  \A p \in Procs : FitOK(p)'
<1> SUFFICES ASSUME NEW q \in Procs PROVE FitOK(q)'
  OBVIOUS
<1>0. /\ proc[q] \in Process /\ RegsOK(proc[q]) /\ None \notin Bufs /\ IInv
      /\ FitOK(q) /\ Settled(q)
  BY View, NoneIsNoBuffer DEF Files, Safe
<1>1. Looking(proc[q]) \/ proc[q].pc \in {"brealloc", "allocbuf"} =>
         proc[q].bp \in Bufs /\ Holds(q, proc[q].bp) /\ proc[q].bp \notin io
  BY <1>0 DEF Looking, RegsOK, Process, Holds, Settled
<1>2. CASE Act(q)
  BY <1>2, FitAct
<1>3. ASSUME NEW p \in Procs \ {q}, Act(p) PROVE FitOK(q)'
  <2>1. proc'[q] = proc[q]
    BY <1>0, <1>3, ActsAlone
  <2>2. proc[q].bp \in Bufs /\ Holds(q, proc[q].bp) => Kept(proc[q].bp)
    BY <1>0, <1>3, OthersKept DEF IInv, HoldInv, HeldOK, OneHolder
  <2> QED BY <1>0, <1>1, <2>1, <2>2 DEF Kept, FitOK, Looking, Is
<1>4. ASSUME NEW b \in Bufs, NEW err \in IOErrors, Biodone(b, err) PROVE FitOK(q)'
  <2>1. b \in io /\ proc' = proc /\ \A c \in Bufs \ {b} : buf'[c] = buf[c]
    BY <1>0, <1>4, BiodoneSets, BufferCacheAssumption
  <2> QED BY <1>0, <1>1, <2>1 DEF FitOK, Looking, Is
<1>5. CASE UNCHANGED <<buf, proc>>
  BY <1>0, <1>5 DEF FitOK, Looking, Is
<1> QED BY <1>2, <1>3, <1>4, <1>5 DEF Next, Act, FreeExtent, vars

\* The contents realloccg makes are complete when it lets the buffer go.
LEMMA GrownUntil ==
    ASSUME IInv, Blocks, NEW p \in Procs, Act(p), NEW b \in Bufs,
           Growing(b), ~Growing(b)'
    PROVE  Put(p, b) \/ Updated(p, b)
<1>0. /\ \A q \in Procs : proc[q] \in Process /\ RegsOK(proc[q])
      /\ proc \in [Procs -> Process] /\ ~Is(b, "ERROR")
  BY View DEF TypeOK, Blocks, BlockOK
<1>1. /\ proc[p].op = "extended" /\ proc[p].pc \in {"got", "hold"}
      /\ b = proc[p].bp /\ ~Growing(b)'
  BY ActsAlone DEF Growing
<1>2. ~(/\ proc'[p].op = "extended" /\ proc'[p].pc \in {"got", "hold"}
        /\ proc'[p].bp = b)
  BY DEF Growing
<1>3. ~Getblk(p)
  BY <1>1, GetblkMoves
<1>4. ~Got(p)
  <2> SUFFICES ASSUME Got(p) PROVE FALSE
    OBVIOUS
  <2>1. CASE GotCached(p)
    BY <1>0, <1>1, <1>2, <2>1 DEF GotCached, Goto, Running, Process
  <2>2. CASE GotUncached(p)
    BY <1>0, <1>1, <1>2, <2>2 DEF GotUncached, Goto, Running, Process
  <2>3. CASE GotBlank(p)
    BY <1>0, <1>1, <1>2, <2>3 DEF GotBlank, Goto, Running, Process
  <2>4. CASE GotExtended(p)
    BY <1>0, <1>1, <1>2, <2>4 DEF GotExtended, Goto, Running, Process
  <2>5. CASE GotCopy(p)
    BY <1>0, <1>1, <1>2, <2>5 DEF GotCopy, Goto, Running, Process
  <2>6. CASE BreadaFirst(p)
    BY <1>0, <1>1, <1>2, <2>6 DEF BreadaFirst, Goto, Running, Process
  <2>7. CASE BreadaAhead(p)
    BY <1>0, <1>1, <1>2, <2>7 DEF BreadaAhead, Goto, Running, Process
  <2>8. CASE BreadaFinish(p)
    BY <1>0, <1>1, <1>2, <2>8 DEF BreadaFinish, Goto, Running, Process
  <2>9. CASE Biowait(p)
    BY <1>0, <1>1, <1>2, <2>9 DEF Biowait, Goto, Running, Process
  <2>10. CASE GotAhead(p)
    BY <1>0, <1>1, <1>2, <2>10 DEF GotAhead, Goto, Running, Process
  <2>30. CASE ReadDone(p)
    BY <1>1, <2>30, ReadDoneMoves
  <2>31. CASE WriteDone(p)
    BY <1>1, <2>31, WriteDoneMoves
  <2> QED
    BY <1>1, <2>1, <2>2, <2>3, <2>4, <2>5, <2>6, <2>7, <2>8, <2>9, <2>10,
       <2>30, <2>31
    DEF Got
<1>5. CASE Finish(p)
  <2>1. CASE Bdwrite(p) \/ Bwrite(p) \/ Bawrite(p)
    BY <1>1, <2>1, UpdateTouches
  <2>2. CASE Brelse(p)
    BY <1>0, <1>1, <2>2 DEF Brelse, Running
  <2>3. CASE BflushWrite(p)
    BY <1>0, <1>1, <2>3 DEF BflushWrite, Running
  <2>4. CASE BflushReturn(p)
    BY <1>0, <1>1, <2>4 DEF BflushReturn, Running
  <2>5. CASE BlkflushBusy(p)
    BY <1>0, <1>1, <2>5 DEF BlkflushBusy, Running
  <2>6. CASE BlkflushDirty(p)
    BY <1>0, <1>1, <2>6 DEF BlkflushDirty, Running
  <2>7. CASE BlkflushReturn(p)
    BY <1>0, <1>1, <2>7 DEF BlkflushReturn, Running
  <2> QED
    BY <1>5, <2>2, <2>3, <2>4, <2>5, <2>6, <2>7, <2>1 DEF Finish
<1>6. ~Call(p)
  BY <1>1, CallEmpty
<1>7. ~Dispatch(p) /\ ~Pause(p)
  BY <1>1, <1>2 DEF Dispatch, Pause
<1> QED BY <1>3, <1>4, <1>5, <1>6, <1>7 DEF Act, Step

LEMMA FewerFrags ==
    ASSUME NEW blk \in Addr \cup {NODEV}, NEW m \in Nat, NEW n \in Nat, m <= n
    PROVE  Frags(blk, m) \subseteq Frags(blk, n)
  BY BufferCacheAssumption DEF Frags, Addr, NODEV

\* The contents of two buffers that may be found never meet.
LEMMA Elsewhere ==
    ASSUME FullInv, Curs, NEW b \in Bufs, NEW c \in Bufs, b # c,
           ~Is(b, "INVAL"), ~Is(c, "INVAL")
    PROVE  buf[b].cur \ BufFrags(buf[c]) = buf[b].cur
  BY DEF FullInv, OneBufferPerBlock, Curs, CurOK

LEMMA GrowingHeld ==
    ASSUME IInv, NEW b \in Bufs, Growing(b)
    PROVE  /\ ~Free(b)
           /\ \A q \in Procs : Holds(q, b) =>
                 proc[q].op = "extended" /\ proc[q].pc \in {"got", "hold"}
  BY DEF Growing, Holds, IInv, HoldInv, HeldOK, OneHolder

LEMMA CurAct ==
    ASSUME Files, Settling, Blocks, Curs, NEW p \in Procs, Act(p), FitOK(p),
           NEW b \in Bufs
    PROVE  CurOK(b)'
<1>0. /\ proc[p] \in Process /\ RegsOK(proc[p]) /\ IInv /\ IInv' /\ Shapes
      /\ FlagsOK(b) /\ FlagsOK(b)' /\ Settled(p) /\ None \notin Bufs
      /\ buf[b] \in Buffer /\ CurOK(b) /\ FullInv /\ BlkOK(b) /\ ~Is(b, "ERROR")
  <2>1. [Next]_vars
    BY DEF Act, Next
  <2> QED BY <2>1, View, SafeNext, NoneIsNoBuffer
          DEF Files, Safe, IInv, BufInv, TypeOK, Curs, Settling, Whole, Blocks,
              BlockOK
<1>1. Touched(p, b)
  BY <1>0, ActTouches
<1>2. ~Given(p, b) /\ ~Enlarged(p, b) /\ ~Robbing(p, b)
  BY NothingMoves DEF Files, FullInv, Given, Enlarged, Robbing
<1>3. /\ proc[p].bp # None =>
            /\ proc[p].bp \in Bufs
            /\ Is(proc[p].bp, "INVAL") <=> proc[p].op = "anon"
      /\ proc[p].pc \in {"got", "hold", "brealloc", "allocbuf"} => proc[p].bp # None
  BY <1>0 DEF Shapes, NamedOK, RegsOK, Process
<1>4. Put(p, b) \/ Updated(p, b) \/ (Growing(b) => Growing(b)')
  BY <1>0, GrownUntil
<1>5. Growing(b) => /\ ~Free(b)
                    /\ Holds(p, b) => proc[p].pc \in {"got", "hold"}
  BY <1>0, GrowingHeld
<1> USE DEF CurOK, Is, Free, SameIO, BufFrags
<1>6. CASE Put(p, b) \/ Updated(p, b)
  BY <1>0, <1>3, <1>6 DEF Put, Updated, Carries, Clean, Changing, Running
<1>7. CASE Passed(p, b) /\ (Growing(b) => Growing(b)')
  <2>1. CASE buf'[b].cur = buf[b].cur
    BY <1>0, <1>7, <2>1 DEF Passed, Kept
  <2>2. CASE buf'[b].cur # buf[b].cur
    <3>1. /\ Changing(p) /\ b # proc[p].bp
          /\ buf'[b].cur = buf[b].cur \ BufFrags(buf[proc[p].bp])
      BY <1>7, <2>2 DEF Passed
    <3>2. proc[p].bp \in Bufs /\ ~Is(proc[p].bp, "INVAL")
      BY <1>0, <1>3, <3>1 DEF Changing, Running
    <3>3. Is(b, "INVAL")
      BY <1>0, <2>2, <3>1, <3>2, Elsewhere
    <3> QED BY <1>0, <1>7, <3>1, <3>3 DEF Passed, Kept
  <2> QED BY <2>1, <2>2
<1>8. CASE Found(p, b) /\ (Growing(b) => Growing(b)')
  BY <1>0, <1>8 DEF Found, Carries
<1>9. CASE Flushed(p, b)
  <2>1. "DELWRI" \in buf[b].flags /\ "INVAL" \notin buf[b].flags
    BY <1>0, <1>9 DEF Flushed
  <2>2. "DONE" \in buf[b].flags
    BY <1>0, <1>9, <2>1 DEF Flushed, BlkOK, FitOK
  <2>3. ~Growing(b)
    BY <1>0, <1>5, <1>9 DEF Flushed, Holds
  <2>4. Frags(buf[b].blk, buf[b].cnt) \subseteq buf[b].cur
    BY <1>0, <2>1, <2>2, <2>3
  <2> QED BY <1>0, <1>9, <2>1, <2>4 DEF Flushed, Carries, Clean
<1>10. CASE Claimed(p, b)
  BY <1>0, <1>10 DEF Claimed, FlagsOK
<1>11. CASE Opened(p, b)
  BY <1>0, <1>11 DEF Opened, Carries
<1>12. CASE Dropped(p, b)
  BY <1>0, <1>12 DEF Dropped, FlagsOK
<1>13. CASE Fitted(p, b) /\ (Growing(b) => Growing(b)')
  <2> DEFINE size == proc[p].want.size
  <2>1. /\ proc[p].pc = "allocbuf" /\ b = proc[p].bp
        /\ buf'[b].blk = buf[b].blk /\ buf'[b].cnt = size
        /\ buf'[b].flags = buf[b].flags /\ SameIO(b)
        /\ buf'[b].cur = buf[b].cur \cap Frags(buf[b].blk, size)
    BY <1>13 DEF Fitted
  <2>2. b \notin io'
    BY <1>0, <2>1 DEF Settled
  <2>3. size \in Nat /\ buf[b].cnt \in Nat
    BY <1>0, BufferCacheAssumption DEF Process, Extent, Buffer
  <2>4. ASSUME Is(b, "DONE")
        PROVE  Frags(buf[b].blk, size) \subseteq Frags(buf[b].blk, buf[b].cnt)
    <3>1. ~(buf[b].cnt < size)
      BY <2>1, <2>4 DEF FitOK
    <3>2. size <= buf[b].cnt
      BY <2>3, <3>1
    <3> QED BY <1>0, <2>3, <3>2, FewerFrags DEF Buffer
  <2> HIDE DEF size
  <2> QED BY <1>0, <1>13, <2>1, <2>2, <2>4
<1>14. CASE Fetched(p, b)
  BY <1>0, <1>3, <1>14 DEF Fetched, Carries
<1>15. CASE Completing(p, b) /\ (Growing(b) => Growing(b)')
  <2>1. Growing(b)
    BY <1>15 DEF Completing, Growing
  <2> QED BY <1>0, <1>15, <2>1 DEF Completing, Carries
<1>16. CASE Returned(p, b) /\ (Growing(b) => Growing(b)')
  BY <1>0, <1>16 DEF Returned, OnList, FlagsOK
<1> QED
  BY <1>1, <1>2, <1>4, <1>6, <1>7, <1>8, <1>9, <1>10, <1>11, <1>12, <1>13,
     <1>14, <1>15, <1>16 DEF Touched

\* What a transfer without an error does to the contents.
LEMMA BiodoneContents ==
    ASSUME IInv, NEW b \in Bufs, ~Is(b, "ERROR"), Biodone(b, FALSE)
    PROVE  LET frags == BufFrags(buf[b])
           IN  /\ buf'[b].blk = buf[b].blk /\ buf'[b].cnt = buf[b].cnt
               /\ buf'[b].flags \in {(buf[b].flags \cup {"DONE"}) \ {"WANTED"},
                     (buf[b].flags \cup {"DONE"}) \ {"WANTED", "BUSY", "ASYNC"}}
               /\ IF Is(b, "READ")
                  THEN buf'[b].cur = dcur \cap frags /\ dcur' = dcur
                  ELSE /\ buf'[b].cur = buf[b].cur
                       /\ dcur' = (dcur \ frags) \cup (buf[b].cur \cap frags)
<1>1. FALSE \in BOOLEAN /\ buf \in [Bufs -> Buffer] /\ buf[b] \in Buffer
  BY DEF IInv, TypeOK
<1> DEFINE r == buf[b]
           s == Completed(r, FALSE)
<1>2. /\ s.blk = r.blk /\ s.cnt = r.cnt /\ s.flags = r.flags \cup {"DONE"}
      /\ s.cur = IF "READ" \in r.flags THEN dcur \cap BufFrags(r) ELSE r.cur
      /\ s \in [blk : Addr \cup {NODEV}, cnt : 0 .. BlockFrags,
                mem : 0 .. BlockFrags, flags : SUBSET Flag,
                queue : {"out", "free", "empty"}, cur : SUBSET Addr]
  <2> HIDE DEF BufFrags
  <2>1. CASE "READ" \in r.flags
    BY <1>1, <2>1 DEF Completed, ReadInto, Buffer, IInv, TypeOK, Flag
  <2>2. CASE "READ" \notin r.flags
    BY <1>1, <2>2 DEF Completed, ReadInto, Buffer, IInv, TypeOK, Flag
  <2> QED BY <2>1, <2>2
<1>3. buf'[b] = IF Is(b, "ASYNC") THEN Released(s) ELSE Answered(s)
  BY <1>1 DEF Biodone
<1>4. dcur' = DiskAfter(r, FALSE)
  BY DEF Biodone
<1> HIDE DEF s
<1>5. /\ buf'[b].cur = s.cur
      /\ buf'[b].blk \in {s.blk, NODEV} /\ buf'[b].cnt = s.cnt
  BY <1>2, <1>3 DEF Released, Answered
<1>6. /\ "ERROR" \notin s.flags
      /\ buf'[b].blk = s.blk
      /\ buf'[b].flags \in {s.flags \ {"WANTED"}, s.flags \ {"WANTED", "BUSY", "ASYNC"}}
  BY <1>2, <1>3 DEF Released, Answered, Is
<1> QED BY <1>2, <1>4, <1>5, <1>6 DEF DiskAfter, Is

\* What the disk is read from and written to is nobody else's.
LEMMA ReadsDisk ==
    ASSUME Files, Settling, Curs, NoUpdateLost, NEW b \in io, Is(b, "READ")
    PROVE  BufFrags(buf[b]) \subseteq dcur
<1>1. /\ b \in Bufs /\ ~Is(b, "INVAL") /\ ~Is(b, "DELWRI")
      /\ \A c \in Bufs : buf[c].cur \subseteq BufFrags(buf[c])
  BY DEF Files, Safe, IInv, TypeOK, Settling, Whole, BlkOK, Curs, CurOK
<1> SUFFICES ASSUME NEW f \in BufFrags(buf[b]), f \notin dcur PROVE FALSE
  OBVIOUS
<1>2. f \in Addr
  BY DEF BufFrags, Frags
<1>3. PICK c \in Bufs : /\ f \in buf[c].cur
                        /\ Is(c, "DELWRI") \/ (c \in io /\ ~Is(c, "READ"))
                        /\ ~Is(c, "INVAL")
  BY <1>2 DEF NoUpdateLost
<1>4. c # b
  BY <1>1, <1>3
<1> QED BY <1>1, <1>3, <1>4 DEF Files, FullInv, OneBufferPerBlock

LEMMA CurBiodone ==
    ASSUME Files, Settling, Blocks, Curs, NoUpdateLost,
           NEW c \in Bufs, Biodone(c, FALSE), NEW b \in Bufs
    PROVE  CurOK(b)'
<1>0. IInv /\ CurOK(b) /\ ~Is(b, "ERROR") /\ FALSE \in BOOLEAN
  BY DEF Files, Safe, Curs, Blocks, BlockOK
<1>1. Growing(b)' <=> Growing(b)
  BY DEF Biodone, Growing
<1>2. CASE b # c
  BY <1>0, <1>1, <1>2, BiodoneSets DEF CurOK, Is
<1>3. CASE b = c
  <2>1. b \in io /\ io' = io \ {b} /\ ~Is(b, "INVAL")
    BY <1>0, <1>3, BiodoneSets DEF CurOK
  <2>2. Is(b, "READ") => BufFrags(buf[b]) \subseteq dcur
    BY <2>1, ReadsDisk
  <2>3. /\ buf'[b].blk = buf[b].blk /\ buf'[b].cnt = buf[b].cnt
        /\ "INVAL" \notin buf'[b].flags
        /\ buf'[b].cur = IF Is(b, "READ") THEN dcur \cap BufFrags(buf[b])
                         ELSE buf[b].cur
    <3> DEFINE flags == buf'[b].flags
    <3>1. Biodone(b, FALSE)
      BY <1>3
    <3>2. /\ buf'[b].blk = buf[b].blk /\ buf'[b].cnt = buf[b].cnt
          /\ flags \in {(buf[b].flags \cup {"DONE"}) \ {"WANTED"},
                (buf[b].flags \cup {"DONE"}) \ {"WANTED", "BUSY", "ASYNC"}}
          /\ buf'[b].cur = IF Is(b, "READ") THEN dcur \cap BufFrags(buf[b])
                           ELSE buf[b].cur
      BY <1>0, <3>1, BiodoneContents
    <3>3. "INVAL" \notin flags
      BY <2>1, <3>2 DEF Is
    <3> QED BY <3>2, <3>3
  <2>4. buf'[b].cur = BufFrags(buf[b])
    <3>1. CASE Is(b, "READ")
      BY <2>2, <2>3, <3>1
    <3>2. CASE ~Is(b, "READ")
      BY <1>0, <2>1, <2>3, <3>2 DEF CurOK
    <3> QED BY <3>1, <3>2
  <2>5. BufFrags(buf[b])' = BufFrags(buf[b]) /\ b \notin io'
    BY <2>1, <2>3 DEF BufFrags
  <2> QED BY <2>3, <2>4, <2>5 DEF CurOK, Is
<1> QED BY <1>2, <1>3

\* Somebody will write the fragment out of b.
Carrying(b, f) ==
    /\ f \in buf[b].cur
    /\ Is(b, "DELWRI") \/ (b \in io /\ ~Is(b, "READ"))
    /\ ~Is(b, "INVAL")

LEMMA CarriesOn ==
    ASSUME Files, Settling, Blocks, Curs, NEW p \in Procs, Act(p), FitOK(p), ReadOK(p),
           NEW b \in Bufs, NEW f, Carrying(b, f)
    PROVE  Carrying(b, f)'
<1>0. /\ proc[p] \in Process /\ RegsOK(proc[p]) /\ IInv /\ IInv' /\ Shapes
      /\ FlagsOK(b) /\ FlagsOK(b)' /\ Settled(p) /\ None \notin Bufs
      /\ buf[b] \in Buffer /\ CurOK(b) /\ FullInv /\ BlkOK(b) /\ ~Is(b, "ERROR")
  <2>1. [Next]_vars
    BY DEF Act, Next
  <2> QED BY <2>1, View, SafeNext, NoneIsNoBuffer
          DEF Files, Safe, IInv, BufInv, TypeOK, Curs, Settling, Whole, Blocks,
              BlockOK
<1>1. Touched(p, b)
  BY <1>0, ActTouches
<1>2. ~Given(p, b) /\ ~Enlarged(p, b) /\ ~Robbing(p, b)
  BY NothingMoves DEF Files, FullInv, Given, Enlarged, Robbing
<1> USE DEF Is, Free, SameIO, Carrying
<1>3. CASE Put(p, b) \/ Updated(p, b)
  <2>1. f \in BufFrags(buf[b])
    BY <1>0 DEF CurOK
  <2> QED BY <1>3, <2>1 DEF Put, Updated, Carries, Clean
<1>4. CASE Passed(p, b)
  <2>1. ASSUME Changing(p), b # proc[p].bp PROVE f \notin BufFrags(buf[proc[p].bp])
    <3>1. proc[p].bp \in Bufs /\ ~Is(proc[p].bp, "INVAL")
      BY <1>0, <2>1 DEF Changing, Running, Shapes, NamedOK, RegsOK, Process
    <3> QED BY <1>0, <2>1, <3>1, Elsewhere
  <2> QED BY <1>4, <2>1 DEF Passed, Kept
<1>5. CASE Found(p, b) \/ Opened(p, b) \/ Completing(p, b)
  BY <1>5 DEF Found, Opened, Completing, Carries
<1>6. CASE Flushed(p, b)
  BY <1>6 DEF Flushed, Carries, Clean
<1>7. CASE Claimed(p, b) \/ Dropped(p, b)
  BY <1>0, <1>7 DEF Claimed, Dropped, FlagsOK
<1>8. CASE Fitted(p, b)
  <2> DEFINE size == proc[p].want.size
  <2>1. /\ proc[p].pc = "allocbuf" /\ b = proc[p].bp
        /\ buf'[b].flags = buf[b].flags /\ SameIO(b)
        /\ buf'[b].cur = buf[b].cur \cap Frags(buf[b].blk, size)
    BY <1>8 DEF Fitted
  <2>2. "DELWRI" \in buf[b].flags
    BY <1>0, <2>1 DEF Settled
  <2>3. size \in Nat /\ buf[b].cnt \in Nat
    BY <1>0, BufferCacheAssumption DEF Process, Extent, Buffer
  <2>4. buf[b].cnt <= size
    BY <2>1, <2>2, <2>3 DEF FitOK
  <2>5. Frags(buf[b].blk, buf[b].cnt) \subseteq Frags(buf[b].blk, size)
    BY <1>0, <2>3, <2>4, FewerFrags DEF Buffer
  <2> HIDE DEF size
  <2> QED BY <1>0, <2>1, <2>2, <2>5 DEF CurOK, BufFrags
<1>9. CASE Fetched(p, b)
  <2>1. "DELWRI" \notin buf[b].flags
    BY <1>0, <1>9 DEF Fetched, ReadOK, Reads
  <2>2. b \notin io
    BY <1>0, <1>9 DEF Fetched, Settled
  <2> QED BY <2>1, <2>2
<1>10. CASE Returned(p, b)
  BY <1>0, <1>10 DEF Returned, OnList, FlagsOK
<1> QED
  BY <1>1, <1>2, <1>3, <1>4, <1>5, <1>6, <1>7, <1>8, <1>9, <1>10 DEF Touched

\* What a process makes the disk forget, its buffer has.
LEMMA NewCarried ==
    ASSUME IInv, Shapes, NEW p \in Procs, Act(p), NEW f \in dcur, f \notin dcur'
    PROVE  \E b \in Bufs : Carrying(b, f)'
<1>0. proc[p] \in Process /\ RegsOK(proc[p]) /\ NamedOK(p)
  BY View DEF Shapes
<1>1. CASE Bdwrite(p) \/ Bwrite(p) \/ Bawrite(p)
  <2>1. Changing(p) /\ dcur' = dcur \ BufFrags(buf[proc[p].bp])
        /\ proc[p].bp \in Bufs /\ ~Is(proc[p].bp, "INVAL")
    BY <1>0, <1>1
    DEF Bdwrite, Bwrite, Bawrite, Changing, Running, RegsOK, NamedOK, Process
  <2>2. PICK b \in Bufs : b = proc[p].bp
    BY <2>1
  <2>3. Updated(p, b) \/ Put(p, b)
    BY <1>1, <2>2, UpdateTouches
  <2>4. f \in BufFrags(buf[b]) /\ ~Is(b, "INVAL")
    BY <2>1, <2>2
  <2>5. Carrying(b, f)'
    BY <2>3, <2>4 DEF Carrying, Updated, Put, Carries, Clean, Is
  <2> QED BY <2>5
<1>2. CASE Call(p)
  BY <1>2, CallEmpty
<1>3. CASE Dispatch(p) \/ Pause(p)
  BY <1>3 DEF Dispatch, Pause
<1>4. CASE Getblk(p)
  <2>1. CASE GetblkBusy(p)
    BY <2>1 DEF GetblkBusy, WaitFor
  <2>2. CASE OverlapBusy(p)
    BY <2>2 DEF OverlapBusy, WaitFor
  <2>3. CASE GetnewbufDirty(p)
    BY <2>3 DEF GetnewbufDirty, FlushAsync
  <2>4. CASE OverlapDirty(p)
    BY <2>4 DEF OverlapDirty, FlushSync
  <2>5. CASE GetblkHit(p)
    BY <2>5 DEF GetblkHit
  <2>6. CASE GetblkMiss(p)
    BY <2>6 DEF GetblkMiss
  <2>7. CASE GetnewbufNone(p)
    BY <2>7 DEF GetnewbufNone
  <2>8. CASE GetnewbufClean(p)
    BY <2>8 DEF GetnewbufClean
  <2>9. CASE BreallocSame(p)
    BY <2>9 DEF BreallocSame
  <2>10. CASE BreallocDirty(p)
    BY <2>10 DEF BreallocDirty
  <2>11. CASE BreallocGrow(p)
    BY <2>11 DEF BreallocGrow
  <2>12. CASE BreallocShrink(p)
    BY <2>12 DEF BreallocShrink
  <2>13. CASE OverlapClean(p)
    BY <2>13 DEF OverlapClean
  <2>14. CASE OverlapNone(p)
    BY <2>14 DEF OverlapNone
  <2>15. CASE AllocbufFits(p)
    BY <2>15 DEF AllocbufFits
  <2>16. CASE AllocbufGive(p)
    BY <2>16 DEF AllocbufGive
  <2>17. CASE AllocbufMore(p)
    BY <2>17 DEF AllocbufMore
  <2>18. CASE AllocbufTake(p)
    BY <2>18 DEF AllocbufTake
  <2> QED
    BY <1>4, <2>1, <2>2, <2>3, <2>4, <2>5, <2>6, <2>7, <2>8, <2>9, <2>10,
       <2>11, <2>12, <2>13, <2>14, <2>15, <2>16, <2>17, <2>18
    DEF Getblk
<1>5. CASE Got(p)
  <2>1. CASE GotCached(p)
    BY <2>1 DEF GotCached
  <2>2. CASE GotUncached(p)
    BY <2>2 DEF GotUncached
  <2>3. CASE GotAhead(p)
    BY <2>3 DEF GotAhead
  <2>4. CASE GotBlank(p)
    BY <2>4 DEF GotBlank
  <2>5. CASE GotExtended(p)
    BY <2>5 DEF GotExtended
  <2>6. CASE GotCopy(p)
    BY <2>6 DEF GotCopy
  <2>7. CASE BreadaFirst(p)
    BY <2>7 DEF BreadaFirst
  <2>8. CASE BreadaAhead(p)
    BY <2>8 DEF BreadaAhead
  <2>9. CASE BreadaFinish(p)
    BY <2>9 DEF BreadaFinish
  <2>10. CASE Biowait(p)
    BY <2>10 DEF Biowait
  <2>11. CASE ReadDone(p)
    BY <2>11 DEF ReadDone
  <2>12. CASE WriteDone(p)
    BY <2>12 DEF WriteDone
  <2> QED
    BY <1>5, <2>1, <2>2, <2>3, <2>4, <2>5, <2>6, <2>7, <2>8, <2>9, <2>10,
       <2>11, <2>12
    DEF Got
<1>6. CASE Finish(p)
  <2>1. CASE Brelse(p)
    BY <2>1 DEF Brelse
  <2>2. CASE BflushReturn(p)
    BY <2>2 DEF BflushReturn
  <2>3. CASE BlkflushReturn(p)
    BY <2>3 DEF BlkflushReturn
  <2>30. CASE Bdwrite(p) \/ Bwrite(p) \/ Bawrite(p)
    BY <1>1, <2>30
  <2>4. CASE BflushWrite(p)
    BY <2>4 DEF BflushWrite, FlushAsync
  <2>5. CASE BlkflushBusy(p)
    BY <2>5 DEF BlkflushBusy, WaitFor
  <2>6. CASE BlkflushDirty(p)
    BY <2>6 DEF BlkflushDirty, FlushSync
  <2> QED
    BY <1>6, <2>1, <2>2, <2>3, <2>4, <2>5, <2>6, <2>30 DEF Finish
<1> QED BY <1>2, <1>3, <1>4, <1>5, <1>6 DEF Act, Step

LEMMA CarriedBiodone ==
    ASSUME Files, Settling, Blocks, Curs, NoUpdateLost,
           NEW c \in Bufs, Biodone(c, FALSE), NEW f \in Addr, f \notin dcur'
    PROVE  \E b \in Bufs : Carrying(b, f)'
<1>0. /\ IInv /\ CurOK(c) /\ ~Is(c, "ERROR") /\ FALSE \in BOOLEAN /\ c \in io
      /\ ~Is(c, "DELWRI")
  BY DEF Files, Safe, Curs, Blocks, BlockOK, Biodone, Settling, Whole, BlkOK
<1>1. f \notin dcur
  <2>1. CASE Is(c, "READ")
    BY <1>0, <2>1, BiodoneContents
  <2>2. CASE ~Is(c, "READ")
    <3>1. /\ dcur' = (dcur \ BufFrags(buf[c])) \cup (buf[c].cur \cap BufFrags(buf[c]))
          /\ BufFrags(buf[c]) \subseteq buf[c].cur
      BY <1>0, <2>2, BiodoneContents DEF CurOK
    <3> QED BY <3>1
  <2> QED BY <2>1, <2>2
<1>2. PICK b \in Bufs : Carrying(b, f)
  BY <1>1 DEF NoUpdateLost, Carrying
<1>3. b # c
  <2> SUFFICES ASSUME b = c PROVE FALSE
    OBVIOUS
  <2>1. ~Is(c, "READ") /\ f \in buf[c].cur
    BY <1>0, <1>2 DEF Carrying
  <2>2. f \in BufFrags(buf[c])
    BY <1>0, <2>1 DEF CurOK
  <2>3. dcur' = (dcur \ BufFrags(buf[c])) \cup (buf[c].cur \cap BufFrags(buf[c]))
    BY <1>0, <2>1, BiodoneContents
  <2> QED BY <2>1, <2>2, <2>3
<1>4. buf'[b] = buf[b] /\ io' = io \ {c}
  BY <1>0, <1>3, BiodoneSets
<1>5. Carrying(b, f)'
  BY <1>2, <1>3, <1>4 DEF Carrying, Is
<1> QED BY <1>5

LEMMA CarriedNext ==
    ASSUME Files, Settling, Blocks, Faultless, Curs, NoUpdateLost,
           \A p \in Procs : FitOK(p), [Next]_vars
    PROVE  NoUpdateLost'
<1> SUFFICES ASSUME NEW f \in Addr, f \notin dcur' PROVE \E b \in Bufs : Carrying(b, f)'
  BY DEF NoUpdateLost, Carrying
<1>0. /\ \A p \in Procs : ReadOK(p)
      /\ IInv /\ Shapes
      /\ f \in dcur \/ \E b \in Bufs : Carrying(b, f)
  BY DEF Settling, Files, Safe, NoUpdateLost, Carrying
<1>1. ASSUME NEW p \in Procs, Act(p) PROVE \E b \in Bufs : Carrying(b, f)'
  <2>1. ASSUME NEW b \in Bufs, Carrying(b, f) PROVE Carrying(b, f)'
    BY <1>0, <1>1, <2>1, CarriesOn
  <2> QED BY <1>0, <1>1, <2>1, NewCarried
<1>2. ASSUME NEW c \in Bufs, NEW err \in IOErrors, Biodone(c, err)
      PROVE  \E b \in Bufs : Carrying(b, f)'
  <2>1. err = FALSE
    BY BufferCacheAssumption DEF Faultless
  <2> QED BY <1>2, <2>1, CarriedBiodone
<1>3. ASSUME UNCHANGED <<buf, io, dcur>> PROVE \E b \in Bufs : Carrying(b, f)'
  BY <1>0, <1>3 DEF Carrying, Is
<1> QED BY <1>1, <1>2, <1>3 DEF Next, Act, FreeExtent, vars

LEMMA CursNext ==
    ASSUME Files, Settling, Blocks, Faultless, Curs, NoUpdateLost,
           \A p \in Procs : FitOK(p), [Next]_vars
    PROVE  Curs'
<1> SUFFICES ASSUME NEW b \in Bufs PROVE CurOK(b)'
  BY DEF Curs
<1>1. ASSUME NEW p \in Procs, Act(p) PROVE CurOK(b)'
  BY <1>1, CurAct
<1>2. ASSUME NEW c \in Bufs, NEW err \in IOErrors, Biodone(c, err) PROVE CurOK(b)'
  <2>1. err = FALSE
    BY BufferCacheAssumption DEF Faultless
  <2> QED BY <1>2, <2>1, CurBiodone
<1>3. ASSUME UNCHANGED <<buf, io, proc>> PROVE CurOK(b)'
  BY <1>3 DEF CurOK, Curs, Growing, Is
<1> QED BY <1>1, <1>2, <1>3 DEF Next, Act, FreeExtent, vars

LEMMA InitContents == Init => Curs /\ NoUpdateLost /\ \A p \in Procs : FitOK(p)
<1> SUFFICES ASSUME Init PROVE Curs /\ NoUpdateLost /\ \A p \in Procs : FitOK(p)
  OBVIOUS
<1>1. /\ \A p \in Procs : proc[p] = Idle
      /\ \A b \in Bufs : buf[b].cur = {} /\ buf[b].flags = {"INVAL"}
      /\ io = {} /\ dcur = Addr
  BY DEF Init
<1>2. Curs
  BY <1>1 DEF Curs, CurOK, Is
<1>3. NoUpdateLost
  BY <1>1 DEF NoUpdateLost
<1>4. \A p \in Procs : FitOK(p)
  BY <1>1 DEF FitOK, Looking, Idle, Empty
<1> QED BY <1>2, <1>3, <1>4

ContentsInv ==
    /\ CircleInv /\ Blocks /\ Curs /\ NoUpdateLost
    /\ \A p \in Procs : FitOK(p)

LEMMA ContentsAlways == Full /\ Uncooked /\ Faultless => (Spec => []ContentsInv)
<1> SUFFICES ASSUME Full, Uncooked, Faultless PROVE Spec => []ContentsInv
  OBVIOUS
<1>1. Init => Blocks /\ Curs /\ NoUpdateLost /\ \A p \in Procs : FitOK(p)
  BY InitBlocks, InitContents
<1>2. ContentsInv /\ CircleInv' /\ [Next]_vars => ContentsInv'
  <2> SUFFICES ASSUME ContentsInv, CircleInv', [Next]_vars PROVE ContentsInv'
    OBVIOUS
  <2>1. Files /\ Settling /\ Safe /\ \A p \in Procs : GrowOK(p) /\ FitOK(p)
    BY DEF ContentsInv, CircleInv, FilesInv, Files
  <2>2. Blocks' /\ Curs' /\ NoUpdateLost'
    BY <2>1, BlocksNext, CursNext, CarriedNext DEF ContentsInv
  <2>3. \A p \in Procs : FitOK(p)'
    BY <2>1, FitNext DEF ContentsInv
  <2> QED BY <2>2, <2>3 DEF ContentsInv
<1> QED BY <1>1, <1>2, CircleAlways, PTL DEF Spec, ContentsInv

LEMMA NothingStale ==
    ASSUME ContentsInv
    PROVE  ReadsLatest
<1> SUFFICES ASSUME NEW p \in Procs, proc[p].pc = "hold", proc[p].op = "read"
             PROVE  FragsOf(proc[p].want) \subseteq buf[proc[p].bp].cur
  BY DEF ReadsLatest
<1>0. /\ IInv /\ proc[p] \in Process /\ RegsOK(proc[p]) /\ NamedOK(p) /\ ReadOK(p)
  BY View DEF ContentsInv, CircleInv, FilesInv, Files, Safe, Shapes, Settling
<1>1. /\ proc[p].bp \in Bufs /\ Holds(p, proc[p].bp)
      /\ Exact(proc[p].bp, proc[p].want) /\ ~Is(proc[p].bp, "INVAL")
      /\ Is(proc[p].bp, "DONE")
  BY <1>0 DEF RegsOK, NamedOK, ReadOK, Reads, Process, Holds
<1>2. ~Growing(proc[p].bp)
  BY <1>0, <1>1, GrowingHeld
<1>3. BufFrags(buf[proc[p].bp]) \subseteq buf[proc[p].bp].cur
  BY <1>1, <1>2 DEF ContentsInv, Curs, CurOK
<1> QED BY <1>1, <1>3 DEF Exact, Names, BufFrags, FragsOf

\* With memory for whole blocks, without reads of the block device, and with a
\* device that reports no error: whatever processes do to the same blocks, in
\* whatever order with the transfers, who reads a block finds the latest
\* contents, no delayed write is dropped, and the disk is never read over
\* contents that a buffer already has (ufs_bio.c getblk, brealloc, getnewbuf,
\* breada, biodone; ufs_alloc.c realloccg; vax/ufs_machdep.c allocbuf).
THEOREM ContentsAreSafe ==
    BasePages = BlockFrags /\ "cooked" \notin Calls /\ TRUE \notin IOErrors
       => (Spec => []ContentsSafe)
<1> SUFFICES ASSUME Full, Uncooked, Faultless PROVE Spec => []ContentsSafe
  BY DEF Full, Uncooked, Faultless
<1>1. ContentsInv /\ BreadaMisses => ContentsSafe
  BY NothingStale DEF ContentsSafe, ContentsInv
<1> QED BY <1>1, ContentsAlways, BreadaAlwaysMisses, PTL

\* Its first part by itself: in the same circumstances a process that reads a
\* block, whoever wrote it and wherever it has been since, finds the latest
\* contents in the buffer it is given (ufs_bio.c bread).
THEOREM ReadersFindTheLatest ==
    BasePages = BlockFrags /\ "cooked" \notin Calls /\ TRUE \notin IOErrors
       => (Spec => []ReadsLatest)
<1>1. ContentsSafe => ReadsLatest
  BY DEF ContentsSafe
<1> QED BY <1>1, ContentsAreSafe, PTL

\* In the same circumstances, when fsync's blkflush returns, the latest contents
\* of the extent are on the disk (ufs_bio.c blkflush): a property of a step, for
\* which what matters is that no valid buffer that overlaps the extent is busy
\* or dirty.
THEOREM FlushesReachTheDisk ==
    BasePages = BlockFrags /\ "cooked" \notin Calls /\ TRUE \notin IOErrors
       => (Spec => FlushReachesDisk)
<1> SUFFICES ASSUME Full, Uncooked, Faultless PROVE Spec => FlushReachesDisk
  BY DEF Full, Uncooked, Faultless
<1>1. ASSUME ContentsInv, NEW p \in Procs, BlkflushReturn(p)
      PROVE  FragsOf(proc[p].want) \subseteq dcur
  <2> SUFFICES ASSUME NEW f \in FragsOf(proc[p].want), f \notin dcur PROVE FALSE
    OBVIOUS
  <2>1. f \in Addr
    BY DEF FragsOf, Frags
  <2>2. PICK b \in Bufs : Carrying(b, f)
    BY <1>1, <2>1 DEF ContentsInv, NoUpdateLost, Carrying
  <2>3. f \in BufFrags(buf[b]) /\ ~Is(b, "INVAL")
    BY <1>1, <2>2 DEF ContentsInv, Curs, CurOK, Carrying
  <2>4. ~Is(b, "BUSY") /\ ~Is(b, "DELWRI")
    BY <1>1, <2>3 DEF BlkflushReturn, Overlapping
  <2>5. b \notin io
    BY <1>1, <2>4
    DEF ContentsInv, CircleInv, FilesInv, Files, Safe, IInv, BufInv, FlagsOK
  <2> QED BY <2>2, <2>4, <2>5 DEF Carrying
<1>2. ContentsInv => \A p \in Procs : BlkflushReturn(p) => FragsOf(proc[p].want) \subseteq dcur
  BY <1>1
<1> QED BY <1>2, ContentsAlways, PTL DEF FlushReachesDisk

==============================================================================
