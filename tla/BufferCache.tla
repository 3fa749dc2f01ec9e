----------------------------- MODULE BufferCache -----------------------------
(***************************************************************************)
(* The buffer cache: ufs_bio.c, with the page shuffling of allocbuf        *)
(* (vax/ufs_machdep.c) and the way ufs_alloc.c and sys_inode.c call it.    *)
(*                                                                         *)
(* Scheduling.  A process in the kernel keeps the processor ("cpu") until  *)
(* it sleeps or leaves; the disk interrupt (Biodone) comes in between any  *)
(* two of its steps.  Each action is therefore a piece of code that runs   *)
(* at spl6 or touches nothing an interrupt handler touches.                *)
(*                                                                         *)
(* Space.  Disk space is numbered in fragments; an extent is a run of      *)
(* fragments inside one block, and extents of different sizes start at the *)
(* same address or overlap over time as the file system reallocates them.  *)
(* A buffer has memory for b_bufsize fragments, of which b_bcount are used.*)
(*                                                                         *)
(* Contents.  For each fragment one version is the latest; "cur" says      *)
(* which copies (in a buffer, or dcur for the disk) are that version.      *)
(*                                                                         *)
(* Abstracted: the order along a hash chain and on the free lists, with    *)
(* the AGE list and LRU list made one (any buffer may be the next one met, *)
(* so B_AGE has no effect), the device (one, or NODEV), and the LOCKED     *)
(* list, which nothing in the kernel ever fills.                           *)
(***************************************************************************)
EXTENDS Integers, FiniteSetsExt

CONSTANTS
    Procs,      \* processes
    Bufs,       \* buffer headers
    None,       \* no buffer / no process
    FreeList,   \* the sleep channel "bfreelist"
    NFrag,      \* fragments on the disk
    BlockFrags, \* fragments in a block (MAXBSIZE)
    BasePages,  \* fragments of memory in a buffer: bufpages / nbuf
    Residual,   \* buffers that get one more: bufpages % nbuf
    Calls,      \* the entry points processes use in this instance
    IOErrors    \* BOOLEANs: does the device report errors

ASSUME BufferCacheAssumption ==
    /\ NFrag \in Nat \ {0}
    /\ BlockFrags \in Nat \ {0}
    /\ BasePages \in Nat
    /\ Residual \in Nat
    /\ IF Residual = 0 THEN BasePages <= BlockFrags ELSE BasePages < BlockFrags
    /\ IsFiniteSet(Bufs)
    /\ None \notin Bufs \cup Procs
    /\ FreeList \notin Bufs \cup {None}
    /\ IOErrors \subseteq BOOLEAN

NODEV == -1

Addr == 0 .. NFrag - 1
Extent == [start : Addr \cup {NODEV}, size : 0 .. BlockFrags]
NoExtent == [start |-> NODEV, size |-> 0]

Frags(start, size) ==
    IF start = NODEV THEN {} ELSE {f \in Addr : f - start \in 0 .. size - 1}
FragsOf(e) == Frags(e.start, e.size)
Disjoint(d, e) == FragsOf(d) \cap FragsOf(e) = {}

\* The runs of fragments the allocator hands out: inside one block.
FileExtent ==
    {e \in [start : Addr, size : 1 .. BlockFrags] :
        /\ (e.start % BlockFrags) + e.size <= BlockFrags
        /\ e.start + e.size <= NFrag}

Flag == {"READ", "DONE", "ERROR", "BUSY", "WANTED", "ASYNC", "DELWRI", "INVAL"}

Label == {"user", "breada", "ahead", "finish", "getblk", "getnewbuf",
          "brealloc", "overlap", "allocbuf", "got", "biowait", "bwrite",
          "hold", "bflush", "blkflush"}

\* What the caller does with the buffer that getblk returns.
Op == {"none", "read", "reada", "ahead", "overwrite", "extend", "extended",
       "move", "copy", "anon", "flush"}

VARIABLES
    buf,    \* the buffer headers
    io,     \* buffers handed to the driver's strategy routine
    dcur,   \* fragments whose latest contents are on the disk
    fwant,  \* B_WANTED in bfreelist[0]
    live,   \* extents the file system has allocated
    proc,   \* what each process is doing in this module
    slp,    \* the channel a process sleeps on, None when runnable
    cpu     \* the process that has the processor

vars == <<buf, io, dcur, fwant, live, proc, slp, cpu>>

Buffer == [blk : Addr \cup {NODEV}, cnt : 0 .. BlockFrags,
           mem : 0 .. BlockFrags, flags : SUBSET Flag,
           queue : {"out", "free", "empty"}, cur : SUBSET Addr]

\* bp, first: buffers getblk returned; ep: one being written synchronously,
\* after which the process goes on at ret.
Process == [pc : Label, op : Op, want : Extent, ra : Extent,
            bp : Bufs \cup {None}, ep : Bufs \cup {None},
            first : Bufs \cup {None}, ret : Label]

\* A process that has no buffer.
Empty(pc, op, want, ra) ==
    [pc |-> pc, op |-> op, want |-> want, ra |-> ra,
     bp |-> None, ep |-> None, first |-> None, ret |-> "user"]

Idle == Empty("user", "none", NoExtent, NoExtent)

TypeOK ==
    /\ buf \in [Bufs -> Buffer]
    /\ io \subseteq Bufs
    /\ dcur \subseteq Addr
    /\ fwant \in BOOLEAN
    /\ live \subseteq Extent
    /\ proc \in [Procs -> Process]
    /\ slp \in [Procs -> Bufs \cup {None, FreeList}]
    /\ cpu \in Procs \cup {None}

\* binit: the pages are shared out evenly, and every header is released with
\* no block.
Init ==
    /\ \E rich \in SUBSET Bufs :
          /\ Cardinality(rich) = Residual
          /\ buf = [b \in Bufs |->
                LET pages == IF b \in rich THEN BasePages + 1 ELSE BasePages
                IN  [blk |-> NODEV, cnt |-> 0, mem |-> pages,
                     flags |-> {"INVAL"},
                     queue |-> IF pages = 0 THEN "empty" ELSE "free",
                     cur |-> {}]]
    /\ io = {}
    /\ dcur = Addr
    /\ fwant = FALSE
    /\ live = {}
    /\ proc = [p \in Procs |-> Idle]
    /\ slp = [p \in Procs |-> None]
    /\ cpu = None

------------------------------------------------------------------------------
(* Buffers. *)

Is(b, f) == f \in buf[b].flags
Free(b) == buf[b].queue # "out"
BufFrags(r) == Frags(r.blk, r.cnt)

\* The buffers getblk and incore accept for a block number.
Cached(e) == {b \in Bufs : buf[b].blk = e.start /\ ~Is(b, "INVAL")}

\* Mutant: only a buffer with the same address overlaps.
OverlappingSame(e) == Cached(e)

\* The valid buffers that hold some of the fragments of an extent.
Overlapping(e) ==
    {b \in Bufs : ~Is(b, "INVAL") /\ BufFrags(buf[b]) \cap FragsOf(e) # {}}

\* notavail: off the free list, busy.
Taken(r) == [r EXCEPT !.queue = "out", !.flags = @ \cup {"BUSY"}]

\* bwrite, up to the call of the strategy routine.
Written(r) == [r EXCEPT !.flags = @ \ {"READ", "DONE", "ERROR", "DELWRI"}]

\* bawrite, up to the same point.
AsyncWritten(r) == [Written(r) EXCEPT !.flags = @ \cup {"ASYNC"}]

\* brelse: the released buffer, on a list and without a block after an error.
Released(r) ==
    [r EXCEPT !.queue = IF r.mem = 0 THEN "empty" ELSE "free",
              !.blk = IF "ERROR" \in r.flags THEN NODEV ELSE @,
              !.flags = @ \ {"WANTED", "BUSY", "ASYNC"}]

\* Taken by a process that makes it invalid.
Invalidated(r) == [Taken(r) EXCEPT !.flags = @ \cup {"INVAL"}]

\* An empty header that has been given memory.
Filled(r, mem) == [Invalidated(r) EXCEPT !.mem = mem, !.cnt = 0, !.cur = {}]

\* Set the fragments a buffer holds, forgetting what it no longer holds.
Resized(r, cnt) ==
    [r EXCEPT !.cnt = cnt, !.cur = @ \cap Frags(r.blk, cnt)]

\* Everybody asleep on these channels becomes runnable.
Wakeup(chans) ==
    slp' = [p \in Procs |-> IF slp[p] \in chans THEN None ELSE slp[p]]

\* Mutant: brelse forgets who waits for any buffer.
ReleaseWakeupsOne(b) ==
    /\ Wakeup(IF Is(b, "WANTED") THEN {b} ELSE {})
    /\ UNCHANGED fwant

\* The wakeups of brelse(b).
ReleaseWakeups(b) ==
    /\ Wakeup((IF Is(b, "WANTED") THEN {b} ELSE {})
              \cup (IF fwant THEN {FreeList} ELSE {}))
    /\ fwant' = FALSE

\* The process stores into buffer b: every other copy is now an old one.
Modified(b) ==
    [c \in Bufs |->
        [buf[c] EXCEPT !.cur = IF c = b THEN BufFrags(buf[b])
                               ELSE @ \ BufFrags(buf[b])]]

------------------------------------------------------------------------------
(* Processes. *)

Running(p, label) == cpu = p /\ proc[p].pc = label
Goto(p, r) == proc' = [proc EXCEPT ![p] = r] /\ UNCHANGED cpu
Leave(p) == proc' = [proc EXCEPT ![p] = Idle] /\ cpu' = None
Sleep(p, chan) == slp' = [slp EXCEPT ![p] = chan] /\ cpu' = None

\* sleep(bp) with B_WANTED set, to search again when woken.
WaitFor(p, b) ==
    /\ buf' = [buf EXCEPT ![b].flags = @ \cup {"WANTED"}]
    /\ Sleep(p, b)
    /\ UNCHANGED <<io, dcur, fwant, live, proc>>

\* Take e off the free list and bwrite it, to go on at label ret.
FlushSync(p, e, ret) ==
    /\ buf' = [buf EXCEPT ![e] = Written(Taken(buf[e]))]
    /\ io' = io \cup {e}
    /\ Goto(p, [proc[p] EXCEPT !.pc = "bwrite", !.ep = e, !.ret = ret])
    /\ UNCHANGED <<dcur, fwant, live, slp>>

\* Take e off the free list and start an asynchronous write.
FlushAsync(p, e) ==
    /\ buf' = [buf EXCEPT ![e] = AsyncWritten(Taken(buf[e]))]
    /\ io' = io \cup {e}
    /\ UNCHANGED <<dcur, fwant, live, proc, slp, cpu>>

\* swtch: a runnable process gets the processor.
Dispatch(p) ==
    /\ cpu = None
    /\ proc[p].pc # "user"
    /\ slp[p] = None
    /\ cpu' = p
    /\ UNCHANGED <<buf, io, dcur, fwant, live, proc, slp>>


------------------------------------------------------------------------------
(* Calls from the file system. *)

Enter(p, pc, op, want, ra) ==
    /\ cpu = None
    /\ proc[p].pc = "user"
    /\ cpu' = p
    /\ proc' = [proc EXCEPT ![p] = Empty(pc, op, want, ra)]
    /\ UNCHANGED <<buf, io, dcur, fwant, slp>>

Using(e) ==
    {q \in Procs : ~Disjoint(proc[q].want, e) \/ ~Disjoint(proc[q].ra, e)}

\* Who writes file data has the inode locked; inodes, cylinder groups and
\* directories are shared, and guarded by their buffers alone.
Exclusive == {"overwrite", "extend", "extended", "move", "copy"}

Usable(e) == e \in live /\ \A q \in Using(e) : proc[q].op \notin Exclusive

\* Fragments the allocator may hand out, to a file that has extent own.
Allocatable(e, own) ==
    /\ \A f \in live \ {own} : Disjoint(e, f)
    /\ Using(e) = {}

\* bread, from any part of the file system.
Bread(p, e) ==
    /\ "bread" \in Calls
    /\ Usable(e)
    /\ Enter(p, "getblk", "read", e, NoExtent)
    /\ UNCHANGED live

\* rwip on the block device itself: whole blocks, allocated or not.
CookedRead(p, e) ==
    /\ "cooked" \in Calls
    /\ e.size = BlockFrags
    /\ Enter(p, "getblk", "read", e, NoExtent)
    /\ UNCHANGED live

\* breada, when a file is read sequentially.
Breada(p, e, next) ==
    /\ "breada" \in Calls
    /\ Usable(e) /\ Usable(next) /\ e # next
    /\ Enter(p, "breada", "reada", e, next)
    /\ UNCHANGED live

\* rwip writing a whole block: a buffer without its old contents.
Overwrite(p, e) ==
    /\ "overwrite" \in Calls
    /\ Usable(e) /\ Using(e) = {}
    /\ Enter(p, "getblk", "overwrite", e, NoExtent)
    /\ UNCHANGED live

\* alloc: a buffer for free fragments, cleared by clrbuf.
Alloc(p, e) ==
    /\ "alloc" \in Calls
    /\ Allocatable(e, NoExtent)
    /\ Enter(p, "getblk", "overwrite", e, NoExtent)
    /\ live' = live \cup {e}

\* realloccg, when fragextend finds the fragments after e free.
Extend(p, e, new) ==
    /\ "extend" \in Calls
    /\ Usable(e) /\ Using(e) = {}
    /\ new.start = e.start /\ new.size > e.size
    /\ Allocatable(new, e)
    /\ Enter(p, "getblk", "extend", e, new)
    /\ UNCHANGED live

\* realloccg, when the extent has to move.
Move(p, e, new) ==
    /\ "move" \in Calls
    /\ Usable(e) /\ Using(e) = {}
    /\ new.size > e.size
    /\ Allocatable(new, NoExtent)
    /\ Enter(p, "getblk", "move", e, new)
    /\ UNCHANGED live

\* free: the fragments may be allocated again; the cache is not told.
FreeExtent(e) ==
    /\ "free" \in Calls
    /\ cpu = None
    /\ e \in live
    /\ Using(e) = {}
    /\ live' = live \ {e}
    /\ UNCHANGED <<buf, io, dcur, fwant, proc, slp, cpu>>

\* geteblk, for a path name or a copy of a block.
Geteblk(p, n) ==
    /\ "geteblk" \in Calls
    /\ Enter(p, "getnewbuf", "anon", [start |-> NODEV, size |-> n], NoExtent)
    /\ UNCHANGED live

\* sync.
Bflush(p) ==
    /\ "bflush" \in Calls
    /\ Enter(p, "bflush", "flush", NoExtent, NoExtent)
    /\ UNCHANGED live

\* fsync, for one extent of the file.
Blkflush(p, e) ==
    /\ "blkflush" \in Calls
    /\ Usable(e)
    /\ Enter(p, "blkflush", "flush", e, NoExtent)
    /\ UNCHANGED live

Call(p) ==
    \/ \E e \in FileExtent :
          \/ Bread(p, e) \/ CookedRead(p, e) \/ Overwrite(p, e) \/ Alloc(p, e)
          \/ Blkflush(p, e)
          \/ \E new \in FileExtent :
                Breada(p, e, new) \/ Extend(p, e, new) \/ Move(p, e, new)
    \/ \E n \in 1 .. BlockFrags : Geteblk(p, n)
    \/ Bflush(p)

------------------------------------------------------------------------------
(* getblk and geteblk. *)

\* The block is in a busy buffer: wait and search again.
GetblkBusy(p) ==
    /\ Running(p, "getblk")
    /\ \E b \in Cached(proc[p].want) : Is(b, "BUSY") /\ WaitFor(p, b)

\* The block is in a free buffer.
GetblkHit(p) ==
    /\ Running(p, "getblk")
    /\ \E b \in Cached(proc[p].want) :
          /\ ~Is(b, "BUSY")
          /\ buf' = [buf EXCEPT ![b] = Taken(@)]
          /\ Goto(p, [proc[p] EXCEPT !.pc = "brealloc", !.bp = b])
    /\ UNCHANGED <<io, dcur, fwant, live, slp>>

GetblkMiss(p) ==
    /\ Running(p, "getblk")
    /\ Cached(proc[p].want) = {}
    /\ Goto(p, [proc[p] EXCEPT !.pc = "getnewbuf"])
    /\ UNCHANGED <<buf, io, dcur, fwant, live, slp>>

\* Mutant: sleep without B_WANTED in the free list.
GetnewbufNoneUnmarked(p) ==
    /\ Running(p, "getnewbuf")
    /\ \A b \in Bufs : buf[b].queue # "free"
    /\ Sleep(p, FreeList)
    /\ UNCHANGED <<buf, io, dcur, fwant, live, proc>>

\* getnewbuf: no free buffer has memory.
GetnewbufNone(p) ==
    /\ Running(p, "getnewbuf")
    /\ \A b \in Bufs : buf[b].queue # "free"
    /\ fwant' = TRUE
    /\ Sleep(p, FreeList)
    /\ UNCHANGED <<buf, io, dcur, live, proc>>

\* getnewbuf: a dirty one is written out and the search goes on.
GetnewbufDirty(p) ==
    /\ Running(p, "getnewbuf")
    /\ \E b \in Bufs :
          /\ buf[b].queue = "free"
          /\ Is(b, "DELWRI")
          /\ FlushAsync(p, b)

\* What getnewbuf, getblk and geteblk make of a clean buffer.
Renamed(r, blk, flags) ==
    [r EXCEPT !.queue = "out", !.blk = blk, !.cnt = 0, !.cur = {},
              !.flags = flags]

\* getnewbuf: a clean one loses its identity.  It becomes the buffer of the
\* block (getblk) or of nothing (geteblk).
GetnewbufClean(p) ==
    /\ Running(p, "getnewbuf")
    /\ proc[p].bp = None
    /\ \E b \in Bufs :
          /\ buf[b].queue = "free"
          /\ ~Is(b, "DELWRI")
          /\ buf' = [buf EXCEPT ![b] =
                Renamed(@, proc[p].want.start,
                        IF proc[p].op = "anon" THEN {"BUSY", "INVAL"}
                        ELSE {"BUSY"})]
          /\ Goto(p, [proc[p] EXCEPT !.pc = "brealloc", !.bp = b])
    /\ UNCHANGED <<io, dcur, fwant, live, slp>>

------------------------------------------------------------------------------
(* brealloc and allocbuf: make the buffer bp hold the extent "want". *)

BreallocSame(p) ==
    /\ Running(p, "brealloc")
    /\ buf[proc[p].bp].cnt = proc[p].want.size
    /\ Goto(p, [proc[p] EXCEPT !.pc = "got"])
    /\ UNCHANGED <<buf, io, dcur, fwant, live, slp>>

\* A dirty buffer that holds more is written, released and looked for again.
BreallocDirty(p) ==
    /\ Running(p, "brealloc")
    /\ buf[proc[p].bp].cnt > proc[p].want.size
    /\ Is(proc[p].bp, "DELWRI")
    /\ buf' = [buf EXCEPT ![proc[p].bp] = Written(@)]
    /\ io' = io \cup {proc[p].bp}
    /\ Goto(p, [proc[p] EXCEPT !.pc = "bwrite", !.ep = proc[p].bp,
                               !.bp = None, !.ret = "getblk"])
    /\ UNCHANGED <<dcur, fwant, live, slp>>

BreallocShrink(p) ==
    /\ Running(p, "brealloc")
    /\ buf[proc[p].bp].cnt > proc[p].want.size
    /\ ~Is(proc[p].bp, "DELWRI")
    /\ Goto(p, [proc[p] EXCEPT !.pc = "allocbuf"])
    /\ UNCHANGED <<buf, io, dcur, fwant, live, slp>>

BreallocGrow(p) ==
    /\ Running(p, "brealloc")
    /\ buf[proc[p].bp].cnt < proc[p].want.size
    /\ buf' = [buf EXCEPT ![proc[p].bp].flags = @ \ {"DONE"}]
    /\ Goto(p, [proc[p] EXCEPT !.pc = "overlap"])
    /\ UNCHANGED <<io, dcur, fwant, live, slp>>

\* Mutant: the buffer itself is not left out.
RivalsSelf(p) == Overlapping(proc[p].want)

\* The other buffers with fragments of the extent.  (NODEV has none.)
Rivals(p) == Overlapping(proc[p].want) \ {proc[p].bp}

OverlapBusy(p) ==
    /\ Running(p, "overlap")
    /\ \E e \in Rivals(p) : Is(e, "BUSY") /\ WaitFor(p, e)

OverlapDirty(p) ==
    /\ Running(p, "overlap")
    /\ \E e \in Rivals(p) :
          /\ ~Is(e, "BUSY")
          /\ Is(e, "DELWRI")
          /\ FlushSync(p, e, "overlap")

\* Mutant: a dirty buffer is invalidated as well.
OverlapCleanAny(p) ==
    /\ Running(p, "overlap")
    /\ \E e \in Rivals(p) :
          /\ ~Is(e, "BUSY")
          /\ buf' = [buf EXCEPT ![e] = Released(Invalidated(@))]
          /\ ReleaseWakeups(e)
    /\ UNCHANGED <<io, dcur, live, proc, cpu>>

OverlapClean(p) ==
    /\ Running(p, "overlap")
    /\ \E e \in Rivals(p) :
          /\ ~Is(e, "BUSY")
          /\ ~Is(e, "DELWRI")
          /\ buf' = [buf EXCEPT ![e] = Released(Invalidated(@))]
          /\ ReleaseWakeups(e)
    /\ UNCHANGED <<io, dcur, live, proc, cpu>>

OverlapNone(p) ==
    /\ Running(p, "overlap")
    /\ Rivals(p) = {}
    /\ Goto(p, [proc[p] EXCEPT !.pc = "allocbuf"])
    /\ UNCHANGED <<buf, io, dcur, fwant, live, slp>>

\* allocbuf: the memory fits, or there is no empty header to give the rest.
AllocbufFits(p) ==
    LET bp == proc[p].bp  size == proc[p].want.size
    IN  /\ Running(p, "allocbuf")
        /\ \/ buf[bp].mem = size
           \/ buf[bp].mem > size /\ \A b \in Bufs : buf[b].queue # "empty"
        /\ buf' = [buf EXCEPT ![bp] = Resized(@, size)]
        /\ Goto(p, [proc[p] EXCEPT !.pc = "got"])
        /\ UNCHANGED <<io, dcur, fwant, live, slp>>

\* Mutant: the buffer that gives memory away keeps its b_bufsize.
AllocbufGiveKeep(p) ==
    LET bp == proc[p].bp  size == proc[p].want.size
    IN  /\ Running(p, "allocbuf")
        /\ buf[bp].mem > size
        /\ \E e \in Bufs :
              /\ buf[e].queue = "empty"
              /\ buf' = [buf EXCEPT
                    ![bp] = Resized(@, size),
                    ![e] = Released(Filled(@, buf[bp].mem - size))]
              /\ ReleaseWakeups(e)
        /\ Goto(p, [proc[p] EXCEPT !.pc = "got"])
        /\ UNCHANGED <<io, dcur, live>>

\* allocbuf: the excess memory goes to an empty header.
AllocbufGive(p) ==
    LET bp == proc[p].bp  size == proc[p].want.size
    IN  /\ Running(p, "allocbuf")
        /\ buf[bp].mem > size
        /\ \E e \in Bufs :
              /\ buf[e].queue = "empty"
              /\ buf' = [buf EXCEPT
                    ![bp] = [Resized(@, size) EXCEPT !.mem = size],
                    ![e] = Released(Filled(@, buf[bp].mem - size))]
              /\ ReleaseWakeups(e)
        /\ Goto(p, [proc[p] EXCEPT !.pc = "got"])
        /\ UNCHANGED <<io, dcur, live>>

AllocbufMore(p) ==
    /\ Running(p, "allocbuf")
    /\ buf[proc[p].bp].mem < proc[p].want.size
    /\ Goto(p, [proc[p] EXCEPT !.pc = "getnewbuf"])
    /\ UNCHANGED <<buf, io, dcur, fwant, live, slp>>

\* Mutant: b_bcount stays above b_bufsize.
RobbedUncut(r, take) ==
    LET left == [r EXCEPT !.flags = {"BUSY"}, !.mem = @ - take]
    IN  IF left.mem > 0 THEN left
        ELSE [left EXCEPT !.blk = NODEV, !.flags = {"BUSY", "INVAL"}]

\* allocbuf: the clean buffer from getnewbuf gives up pages; it keeps its
\* block if some are left.  getnewbuf has set its flags to B_BUSY alone.
Robbed(r, take) ==
    LET left == [r EXCEPT !.flags = {"BUSY"}, !.mem = @ - take]
        cut == Resized(left, IF r.cnt > left.mem THEN left.mem ELSE r.cnt)
    IN  IF left.mem > 0 THEN cut
        ELSE [cut EXCEPT !.blk = NODEV, !.flags = {"BUSY", "INVAL"}]

\* Mutant: all the memory of the other buffer is taken.
AllocbufTakeAll(p) ==
    /\ Running(p, "getnewbuf")
    /\ proc[p].bp # None
    /\ \E b \in Bufs :
          /\ buf[b].queue = "free"
          /\ ~Is(b, "DELWRI")
          /\ buf' = [buf EXCEPT ![proc[p].bp].mem = @ + buf[b].mem,
                                ![b] = Released(Robbed(@, buf[b].mem))]
          /\ ReleaseWakeups(b)
    /\ Goto(p, [proc[p] EXCEPT !.pc = "allocbuf"])
    /\ UNCHANGED <<io, dcur, live>>

AllocbufTake(p) ==
    LET bp == proc[p].bp  need == proc[p].want.size - buf[bp].mem
    IN  /\ Running(p, "getnewbuf")
        /\ bp # None
        /\ \E b \in Bufs :
              LET take == IF need < buf[b].mem THEN need ELSE buf[b].mem
              IN  /\ buf[b].queue = "free"
                  /\ ~Is(b, "DELWRI")
                  /\ buf' = [buf EXCEPT ![bp].mem = @ + take,
                                        ![b] = Released(Robbed(@, take))]
                  /\ ReleaseWakeups(b)
        /\ Goto(p, [proc[p] EXCEPT !.pc = "allocbuf"])
        /\ UNCHANGED <<io, dcur, live>>

------------------------------------------------------------------------------
(* getblk has returned bp: go on in the caller. *)

\* The flags with which bread and breada hand a buffer to the driver.
Reading(r, flags) == [r EXCEPT !.flags = @ \cup {"READ"} \cup flags]

\* bread: the contents are there.
GotCached(p) ==
    /\ Running(p, "got")
    /\ proc[p].op \in {"read", "extend", "move"}
    /\ Is(proc[p].bp, "DONE")
    /\ Goto(p, [proc[p] EXCEPT !.pc = "biowait"])
    /\ UNCHANGED <<buf, io, dcur, fwant, live, slp>>

\* bread, breada: start the read.  That getblk gives breada a buffer with its
\* contents, which breada also handles, cannot happen: see BreadaMisses.
GotUncached(p) ==
    /\ Running(p, "got")
    /\ proc[p].op \in {"read", "extend", "move", "reada"}
    /\ ~Is(proc[p].bp, "DONE")
    /\ buf' = [buf EXCEPT ![proc[p].bp] = Reading(@, {})]
    /\ io' = io \cup {proc[p].bp}
    /\ Goto(p, IF proc[p].op = "reada"
               THEN [proc[p] EXCEPT !.pc = "ahead", !.first = proc[p].bp,
                                    !.bp = None]
               ELSE [proc[p] EXCEPT !.pc = "biowait"])
    /\ UNCHANGED <<dcur, fwant, live, slp>>

\* Back to the block breada was called for.
AheadOver(p) ==
    [proc[p] EXCEPT !.pc = "finish", !.bp = None,
                    !.want = proc[p].ra, !.ra = proc[p].want]

\* Mutant: B_ASYNC is not set.
GotAheadSync(p) ==
    /\ Running(p, "got")
    /\ proc[p].op = "ahead"
    /\ ~Is(proc[p].bp, "DONE")
    /\ buf' = [buf EXCEPT ![proc[p].bp] = Reading(@, {})]
    /\ io' = io \cup {proc[p].bp}
    /\ Goto(p, AheadOver(p))
    /\ UNCHANGED <<dcur, fwant, live, slp>>

\* breada: start the read; the interrupt will release the buffer.
GotAhead(p) ==
    /\ Running(p, "got")
    /\ proc[p].op = "ahead"
    /\ ~Is(proc[p].bp, "DONE")
    /\ buf' = [buf EXCEPT ![proc[p].bp] = Reading(@, {"ASYNC"})]
    /\ io' = io \cup {proc[p].bp}
    /\ Goto(p, AheadOver(p))
    /\ UNCHANGED <<dcur, fwant, live, slp>>

\* alloc, geteblk, rwip: the old contents do not matter.
GotBlank(p) ==
    /\ Running(p, "got")
    /\ proc[p].op \in {"overwrite", "anon"}
    /\ Goto(p, [proc[p] EXCEPT !.pc = "hold"])
    /\ UNCHANGED <<buf, io, dcur, fwant, live, slp>>

\* realloccg: the buffer has been grown in place.
GotExtended(p) ==
    /\ Running(p, "got")
    /\ proc[p].op = "extended"
    /\ buf' = [buf EXCEPT ![proc[p].bp].flags = @ \cup {"DONE"}]
    /\ live' = (live \ {proc[p].ra}) \cup {proc[p].want}
    /\ Goto(p, [proc[p] EXCEPT !.pc = "hold"])
    /\ UNCHANGED <<io, dcur, fwant, slp>>

\* realloccg: copy to the new buffer, release the old one, free its extent.
GotCopy(p) ==
    /\ Running(p, "got")
    /\ proc[p].op = "copy"
    /\ buf' = [buf EXCEPT ![proc[p].first] = Released(@)]
    /\ ReleaseWakeups(proc[p].first)
    /\ live' = (live \ {proc[p].ra}) \cup {proc[p].want}
    /\ Goto(p, [proc[p] EXCEPT !.pc = "hold", !.first = None])
    /\ UNCHANGED <<io, dcur>>

\* breada: read the first block unless it is in the cache.
BreadaFirst(p) ==
    /\ Running(p, "breada")
    /\ Goto(p, [proc[p] EXCEPT
                  !.pc = IF Cached(proc[p].want) = {} THEN "getblk" ELSE "ahead"])
    /\ UNCHANGED <<buf, io, dcur, fwant, live, slp>>

\* breada: read the second ahead unless it is in the cache.
BreadaAhead(p) ==
    /\ Running(p, "ahead")
    /\ Goto(p, IF Cached(proc[p].ra) # {}
               THEN [proc[p] EXCEPT !.pc = "finish"]
               ELSE [proc[p] EXCEPT !.pc = "getblk", !.op = "ahead",
                                    !.want = proc[p].ra, !.ra = proc[p].want])
    /\ UNCHANGED <<buf, io, dcur, fwant, live, slp>>

\* breada: wait for the first block, or let bread get it.
BreadaFinish(p) ==
    /\ Running(p, "finish")
    /\ Goto(p, [proc[p] EXCEPT !.pc = IF proc[p].first = None THEN "getblk"
                                      ELSE "biowait",
                               !.op = "read", !.bp = proc[p].first,
                               !.first = None, !.ra = NoExtent])
    /\ UNCHANGED <<buf, io, dcur, fwant, live, slp>>

------------------------------------------------------------------------------
(* Waiting for the device, and its interrupt. *)

\* biowait in bread, and in a synchronous bwrite.
Biowait(p) ==
    /\ \/ Running(p, "biowait") /\ ~Is(proc[p].bp, "DONE") /\ Sleep(p, proc[p].bp)
       \/ Running(p, "bwrite") /\ ~Is(proc[p].ep, "DONE") /\ Sleep(p, proc[p].ep)
    /\ UNCHANGED <<buf, io, dcur, fwant, live, proc>>

\* The read is done: realloccg goes on with an intact old extent; any other
\* caller, and realloccg on an error, has the buffer to itself.
ReadDone(p) ==
    /\ Running(p, "biowait")
    /\ Is(proc[p].bp, "DONE")
    /\ \/ /\ proc[p].op = "extend" /\ ~Is(proc[p].bp, "ERROR")
          /\ Goto(p, [proc[p] EXCEPT !.pc = "brealloc", !.op = "extended",
                                     !.want = proc[p].ra, !.ra = proc[p].want])
       \/ /\ proc[p].op = "move" /\ ~Is(proc[p].bp, "ERROR")
          /\ Goto(p, [proc[p] EXCEPT !.pc = "getblk", !.op = "copy",
                                     !.first = proc[p].bp, !.bp = None,
                                     !.want = proc[p].ra, !.ra = proc[p].want])
       \/ /\ proc[p].op = "read" \/ Is(proc[p].bp, "ERROR")
          /\ Goto(p, [proc[p] EXCEPT !.pc = "hold"])
    /\ UNCHANGED <<buf, io, dcur, fwant, live, slp>>

\* bwrite releases the buffer and returns.
WriteDone(p) ==
    LET ep == proc[p].ep
    IN  /\ Running(p, "bwrite")
        /\ Is(ep, "DONE")
        /\ buf' = [buf EXCEPT ![ep] = Released(@)]
        /\ ReleaseWakeups(ep)
        /\ IF proc[p].ret = "user" THEN Leave(p)
           ELSE Goto(p, [proc[p] EXCEPT !.pc = proc[p].ret, !.ep = None,
                                        !.ret = "user"])
        /\ UNCHANGED <<io, dcur, live>>

\* What a transfer that ends well, or with an error, leaves in the buffer and
\* on the disk.
ReadInto(r, err) == [r EXCEPT !.cur = IF err THEN {} ELSE dcur \cap BufFrags(r)]
DiskAfter(r, err) ==
    IF "READ" \in r.flags THEN dcur
    ELSE (dcur \ BufFrags(r)) \cup (IF err THEN {} ELSE r.cur \cap BufFrags(r))

Completed(r, err) ==
    [(IF "READ" \in r.flags THEN ReadInto(r, err) ELSE r) EXCEPT
        !.flags = @ \cup {"DONE"} \cup (IF err THEN {"ERROR"} ELSE {})]

\* biodone has woken those who wait for the transfer.
Answered(r) == [r EXCEPT !.flags = @ \ {"WANTED"}]

\* Mutant: a failed asynchronous transfer is not released.
BiodoneErrorKept(b, err) ==
    /\ b \in io
    /\ io' = io \ {b}
    /\ dcur' = DiskAfter(buf[b], err)
    /\ IF Is(b, "ASYNC") /\ ~err
       THEN /\ buf' = [buf EXCEPT ![b] = Released(Completed(@, err))]
            /\ ReleaseWakeups(b)
       ELSE /\ buf' = [buf EXCEPT ![b] = Answered(Completed(@, err))]
            /\ Wakeup({b})
            /\ UNCHANGED fwant
    /\ UNCHANGED <<live, proc, cpu>>

\* biodone, from the driver's interrupt routine.
Biodone(b, err) ==
    /\ b \in io
    /\ io' = io \ {b}
    /\ dcur' = DiskAfter(buf[b], err)
    /\ IF Is(b, "ASYNC")
       THEN /\ buf' = [buf EXCEPT ![b] = Released(Completed(@, err))]
            /\ ReleaseWakeups(b)
       ELSE /\ buf' = [buf EXCEPT ![b] = Answered(Completed(@, err))]
            /\ Wakeup({b})
            /\ UNCHANGED fwant
    /\ UNCHANGED <<live, proc, cpu>>

------------------------------------------------------------------------------
(* The caller has the buffer. *)

\* It copies from or to user memory, which may have to be paged in.
Pause(p) ==
    /\ Running(p, "hold")
    /\ cpu' = None
    /\ UNCHANGED <<buf, io, dcur, fwant, live, proc, slp>>

\* brelse, after reading, using a scratch buffer, or an error.
Brelse(p) ==
    LET bp == proc[p].bp
    IN  /\ Running(p, "hold")
        /\ proc[p].op \in {"read", "anon"} \/ Is(bp, "ERROR")
        /\ buf' = [buf EXCEPT ![bp] = Released(@)]
        /\ ReleaseWakeups(bp)
        /\ Leave(p)
        /\ UNCHANGED <<io, dcur, live>>

\* The caller has changed the contents and will write them.
Changing(p) ==
    /\ Running(p, "hold")
    /\ proc[p].op # "anon"
    /\ ~Is(proc[p].bp, "ERROR")
    /\ dcur' = dcur \ BufFrags(buf[proc[p].bp])

\* A delayed write.
Delayed(r) == [r EXCEPT !.flags = @ \cup {"DELWRI", "DONE"}]

Bdwrite(p) ==
    LET bp == proc[p].bp
    IN  /\ Changing(p)
        /\ buf' = [Modified(bp) EXCEPT ![bp] = Released(Delayed(@))]
        /\ ReleaseWakeups(bp)
        /\ Leave(p)
        /\ UNCHANGED <<io, live>>

Bwrite(p) ==
    LET bp == proc[p].bp
    IN  /\ Changing(p)
        /\ buf' = [Modified(bp) EXCEPT ![bp] = Written(@)]
        /\ io' = io \cup {bp}
        /\ Goto(p, [proc[p] EXCEPT !.pc = "bwrite", !.bp = None, !.ep = bp,
                                   !.ret = "user"])
        /\ UNCHANGED <<fwant, live, slp>>

Bawrite(p) ==
    LET bp == proc[p].bp
    IN  /\ Changing(p)
        /\ buf' = [Modified(bp) EXCEPT ![bp] = AsyncWritten(@)]
        /\ io' = io \cup {bp}
        /\ Leave(p)
        /\ UNCHANGED <<fwant, live, slp>>

------------------------------------------------------------------------------
(* sync and fsync. *)

Dirty == {b \in Bufs : Free(b) /\ Is(b, "DELWRI")}

BflushWrite(p) ==
    /\ Running(p, "bflush")
    /\ \E b \in Dirty : FlushAsync(p, b)

BflushReturn(p) ==
    /\ Running(p, "bflush")
    /\ Dirty = {}
    /\ Leave(p)
    /\ UNCHANGED <<buf, io, dcur, fwant, live, slp>>

BlkflushBusy(p) ==
    /\ Running(p, "blkflush")
    /\ \E e \in Overlapping(proc[p].want) : Is(e, "BUSY") /\ WaitFor(p, e)

BlkflushDirty(p) ==
    /\ Running(p, "blkflush")
    /\ \E e \in Overlapping(proc[p].want) :
          /\ ~Is(e, "BUSY")
          /\ Is(e, "DELWRI")
          /\ FlushSync(p, e, "blkflush")

\* Mutant: a busy buffer is passed over.
BlkflushReturnBusy(p) ==
    /\ Running(p, "blkflush")
    /\ \A e \in Overlapping(proc[p].want) : ~Is(e, "DELWRI")
    /\ Leave(p)
    /\ UNCHANGED <<buf, io, dcur, fwant, live, slp>>

\* No overlapping buffer is busy or dirty.
BlkflushReturn(p) ==
    /\ Running(p, "blkflush")
    /\ \A e \in Overlapping(proc[p].want) : ~Is(e, "BUSY") /\ ~Is(e, "DELWRI")
    /\ Leave(p)
    /\ UNCHANGED <<buf, io, dcur, fwant, live, slp>>

------------------------------------------------------------------------------
Getblk(p) ==
    \/ GetblkBusy(p) \/ GetblkHit(p) \/ GetblkMiss(p)
    \/ GetnewbufNone(p) \/ GetnewbufDirty(p) \/ GetnewbufClean(p)
    \/ BreallocSame(p) \/ BreallocDirty(p) \/ BreallocShrink(p) \/ BreallocGrow(p)
    \/ OverlapBusy(p) \/ OverlapDirty(p) \/ OverlapClean(p) \/ OverlapNone(p)
    \/ AllocbufFits(p) \/ AllocbufGive(p) \/ AllocbufMore(p) \/ AllocbufTake(p)

Got(p) ==
    \/ GotCached(p) \/ GotUncached(p) \/ GotAhead(p) \/ GotBlank(p)
    \/ GotExtended(p) \/ GotCopy(p)
    \/ BreadaFirst(p) \/ BreadaAhead(p) \/ BreadaFinish(p)
    \/ Biowait(p) \/ ReadDone(p) \/ WriteDone(p)

Finish(p) ==
    \/ Brelse(p) \/ Bdwrite(p) \/ Bwrite(p) \/ Bawrite(p)
    \/ BflushWrite(p) \/ BflushReturn(p)
    \/ BlkflushBusy(p) \/ BlkflushDirty(p) \/ BlkflushReturn(p)

Step(p) == Getblk(p) \/ Got(p) \/ Finish(p)

Next ==
    \/ \E p \in Procs : Call(p) \/ Dispatch(p) \/ Step(p) \/ Pause(p)
    \/ \E e \in live : FreeExtent(e)
    \/ \E b \in Bufs, err \in IOErrors : Biodone(b, err)

Spec == Init /\ [][Next]_vars


\* The device interrupts for every transfer; a runnable process is scheduled
\* and goes on.  Strong fairness of a step says that a caller copying to or
\* from user memory is paged in a finite number of times.
Fairness ==
    /\ \A p \in Procs : WF_vars(Dispatch(p)) /\ SF_vars(Step(p))
    /\ \A b \in Bufs : WF_vars(\E err \in IOErrors : Biodone(b, err))

FairSpec == Spec /\ Fairness

------------------------------------------------------------------------------
(* Properties. *)

\* The process is to release b or has to wait for its transfer.
Holds(p, b) == b \in {proc[p].bp, proc[p].ep, proc[p].first}

\* The device has b and the interrupt will release it.
InFlight(b) == b \in io /\ Is(b, "ASYNC")

\* Every buffer is either free, or held by one process in one role, or left
\* to the interrupt; never two of these, and never none, which would take it
\* out of the cache for good (ufs_bio.c getblk, getnewbuf, breada, bwrite,
\* brelse, biodone; ufs_alloc.c realloccg).
Ownership ==
    /\ \A b \in Bufs :
          IF Free(b)
          THEN ~Is(b, "BUSY") /\ b \notin io /\ \A p \in Procs : ~Holds(p, b)
          ELSE /\ Is(b, "BUSY")
               /\ InFlight(b) <=> \A p \in Procs : ~Holds(p, b)
               /\ \A p, q \in Procs : Holds(p, b) /\ Holds(q, b) => p = q
    /\ \A p \in Procs :
          \A f, g \in {"bp", "ep", "first"} :
              f # g /\ proc[p][f] # None => proc[p][f] # proc[p][g]

\* Whoever sleeps will be woken: on a buffer, because it is wanted when it is
\* released, or its transfer is under way; on the free list, because the next
\* release looks at its B_WANTED (ufs_bio.c sleep and wakeup calls).
WillBeWoken ==
    \A p \in Procs :
        /\ slp[p] \in Bufs =>
              /\ ~Free(slp[p])
              /\ Is(slp[p], "WANTED") \/ slp[p] \in io
              /\ Holds(p, slp[p]) => slp[p] \in io
        /\ slp[p] = FreeList => fwant

\* None of the panics of the I/O path: the transfer fits the memory ("bread",
\* "bwrite"), and a completion comes once ("dup biodone"); and it goes to a
\* real block.
TransfersSane ==
    \A b \in io : /\ buf[b].cnt <= buf[b].mem
                  /\ ~Is(b, "DONE")
                  /\ buf[b].blk # NODEV

\* pagemove never loses or invents a page of the cache, and a header on the
\* empty list is exactly a free one without memory (vax/ufs_machdep.c).
PagesConserved ==
    /\ MapThenSumSet(LAMBDA b : buf[b].mem, Bufs)
          = BasePages * Cardinality(Bufs) + Residual
    /\ \A b \in Bufs : Free(b) => (buf[b].queue = "empty" <=> buf[b].mem = 0)

\* What a process finds in a buffer bread gave it is the latest contents.
ReadsLatest ==
    \A p \in Procs :
        proc[p].pc = "hold" /\ proc[p].op = "read" =>
            FragsOf(proc[p].want) \subseteq buf[proc[p].bp].cur

\* The latest contents of every fragment are on the disk, or in a buffer that
\* will still be written: no reuse, resizing or invalidation of a buffer, in
\* any order with the transfers, drops a delayed write (without errors).
NoUpdateLost ==
    \A f \in Addr :
        \/ f \in dcur
        \/ \E b \in Bufs : /\ f \in buf[b].cur
                           /\ Is(b, "DELWRI") \/ (b \in io /\ ~Is(b, "READ"))
                           /\ ~Is(b, "INVAL")

\* When fsync's blkflush returns, the latest contents of the extent are on
\* the disk (ufs_bio.c blkflush).
FlushReachesDisk ==
    [][\A p \in Procs : BlkflushReturn(p) => FragsOf(proc[p].want) \subseteq dcur]_vars

\* ufs_bio.c:371-372: "A disk block must be mapped by at most one buffer at
\* any point in time."
OneBufferPerBlock ==
    \A b, c \in Bufs :
        b # c /\ ~Is(b, "INVAL") /\ ~Is(c, "INVAL") =>
            BufFrags(buf[b]) \cap BufFrags(buf[c]) = {}

\* ufs_bio.c:372-373: "Care must be taken to avoid deadlocking when two
\* buffer are trying to get the same set of disk blocks."
NoCircularWait ==
    ~ \E S \in (SUBSET Procs) \ {{}} :
        \A p \in S : /\ slp[p] \in Bufs \ io
                     /\ \E q \in S : Holds(q, slp[p])

\* After incore has said no, getblk never gives breada a buffer that has its
\* contents, however long it slept meanwhile and whoever read the block: the
\* branches for B_DONE in breada (ufs_bio.c:72-73, 80-83) are never taken.
BreadaMisses ==
    \A p \in Procs :
        proc[p].pc = "got" /\ proc[p].op \in {"reada", "ahead"} =>
            ~Is(proc[p].bp, "DONE")

\* Nobody sleeps for ever, for want of a wakeup or in a circle (ufs_bio.c
\* getblk, getnewbuf, brealloc, brelse).
NoneStuck == WillBeWoken /\ NoCircularWait

\* Whatever two processes do to the same blocks, what is read is the latest
\* contents, what was written is not dropped, and the disk is never read over
\* contents that a buffer already has (ufs_bio.c getblk, brealloc, breada).
ContentsSafe == ReadsLatest /\ NoUpdateLost /\ BreadaMisses

\* The memory of the buffers adds up, and is enough for every transfer
\* (vax/ufs_machdep.c allocbuf).
MemorySane == PagesConserved /\ TransfersSane

\* A failed transfer neither leaks a buffer nor completes twice (ufs_bio.c
\* brelse, biodone, and the error paths of their callers).
ErrorsContained == Ownership /\ TransfersSane

\* Every call into the cache returns.
CallsReturn == \A p \in Procs : proc[p].pc # "user" ~> proc[p].pc = "user"

==============================================================================
