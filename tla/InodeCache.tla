----------------------------- MODULE InodeCache -----------------------------
(* The in-core inode table of 4.2BSD (ufs_inode.c) under the system calls    *)
(* open, creat, link, unlink, close and sync, with directories, the bitmap   *)
(* of allocated inodes, and a disk to which inodes are written late.  A      *)
(* process runs until it sleeps; its places in the code are the labels of    *)
(* proc[p].pc, and at those of Sleeps another process may run.               *)
EXTENDS Integers, FiniteSets, Sequences, SequencesExt

CONSTANTS Procs,      \* processes
          Slots,      \* the slots of the inode table, besides the directories'
          Dirs,       \* directories; their inodes stay in core
          Names,      \* names in a directory
          Files,      \* the inode numbers for files
          None,       \* no process, slot or name; inode number 0
          Calls,      \* for each process, the system calls it makes
          Failing,    \* the reads that may fail, by the label of the sleeper
          MaxFail     \* bound: how many of them do, each kind once

SystemCalls == {"open", "creat", "link", "unlink", "close", "sync"}
Reads == {"namei", "iread", "iupdat", "ifree", "ialloccg", "direnter", "dirremove"}

ASSUME InodeCacheAssumption ==
    /\ Calls \in [Procs -> SUBSET SystemCalls]
    /\ Failing \subseteq Reads
    /\ MaxFail \in Nat
    /\ None \notin Procs \cup Slots \cup Dirs \cup Files \cup (Dirs \X Names)
    /\ Slots \cap Dirs = {} /\ Files \cap (Slots \cup Dirs) = {}
    /\ IsFiniteSet(Slots) /\ IsFiniteSet(Procs)
    /\ IsFiniteSet(Dirs) /\ IsFiniteSet(Names)

VARIABLES inode,      \* the inode table
          freelist,   \* its free list, from ifreeh on
          entry,      \* the directories, as the buffer cache has them
          dino,       \* the inodes of the disk, as the buffer cache has them
          iused,      \* cg_iused, the allocated inode numbers
          dentry,     \* the directories on the disk
          sino,       \* the inodes on the disk
          lost,       \* the buffer of the cylinder group is never released
          proc,       \* where each process is, with its local variables
          chan,       \* the inode a process is asleep on
          failed,     \* the reads that have failed
          panicked    \* the kernel has stopped

disk == <<entry, dino, iused, dentry, sino, lost>>
env == <<failed, panicked>>
vars == <<inode, freelist, disk, proc, chan, env>>

Inos == Files \cup {None}
Paths == Dirs \X Names
Table == Slots \cup Dirs

------------------------------------------------------------------------------
(* The state. *)

\* i_number, i_count, ILOCKED, IWANT, i_mode # 0, i_nlink, any of IUPD, IACC
\* and ICHG, and whether the inode is on its hash chain.
Inode == [ino : Inos \cup Table, count : Nat, locked : BOOLEAN, want : BOOLEAN,
          mode : BOOLEAN, nlink : Int, dirty : BOOLEAN, hashed : BOOLEAN]
Dinode == [mode : BOOLEAN, nlink : Int]

\* The places where a process sleeps, or may do so.
Sleeps == {"user", "namei", "close", "iget", "iread", "ialloccg", "ifreeino",
           "iupdat", "bwrite", "truncated", "ifree", "direnter", "dirremove",
           "dirwrite"}
\* The others.
Passes == {"got", "null", "opened", "granted", "linked", "out", "iput", "irele",
           "release", "undir"}

Places == Sleeps \cup Passes

\* The system calls, and their parts.
Ops == SystemCalls \cup {"make", "enter", ""}

\* A process: the call, its path and (link) its second path, the inode number
\* for iget, the inode at hand, link's first inode, the open file, u_error,
\* waitfor of iupdat, and where iupdat and irele return to.
Process == [pc : Places, op : Ops,
            at : Paths \cup {None}, to : Paths \cup {None}, ino : Inos,
            ip : Slots \cup {None}, lp : Slots \cup {None},
            fd : Slots \cup {None}, err : BOOLEAN, wait : BOOLEAN,
            then : Places, ret : Places]

InUser(fd) == [pc |-> "user", op |-> "", at |-> None, to |-> None,
               ino |-> None, ip |-> None, lp |-> None, fd |-> fd,
               err |-> FALSE, wait |-> FALSE, then |-> "user", ret |-> "user"]

EmptyDinode == [mode |-> FALSE, nlink |-> 0]

\* A slot that nobody has, and one that stays in core; s stands for its number.
Unused == [ino |-> None, count |-> 0, locked |-> FALSE, want |-> FALSE,
           mode |-> FALSE, nlink |-> 0, dirty |-> FALSE, hashed |-> FALSE]
InUse(s) == [Unused EXCEPT !.ino = s, !.count = 1, !.mode = TRUE, !.nlink = 2,
                           !.hashed = TRUE]

\* ihinit, and a new file system: inode number 0 counts as allocated.  Some
\* slots hold inodes of other file systems.
Init ==
    /\ \E S \in SUBSET Slots :
          /\ inode = [s \in Table |-> IF s \in Dirs \cup S THEN InUse(s) ELSE Unused]
          /\ freelist \in SetToSeqs(Slots \ S)
    /\ entry = [a \in Paths |-> None] /\ dentry = entry
    /\ dino = [i \in Inos |-> EmptyDinode] /\ sino = dino
    /\ iused = {None}
    /\ lost = FALSE
    /\ proc = [p \in Procs |-> InUser(None)]
    /\ chan = [p \in Procs |-> None]
    /\ failed = {} /\ panicked = FALSE

------------------------------------------------------------------------------
(* Steps of a process. *)

\* p may go on from label l: nothing is preempted in the kernel.
At(p, l) ==
    /\ proc[p].pc = l
    /\ chan[p] = None
    /\ \A q \in Procs \ {p} : proc[q].pc \in Sleeps
    /\ ~panicked

Go(p, l) == proc' = [proc EXCEPT ![p].pc = l]

\* The read that p waits for fails.
Fails(kind) ==
    /\ kind \in Failing \ failed
    /\ Cardinality(failed) < MaxFail
    /\ failed' = failed \cup {kind}
    /\ UNCHANGED panicked

\* ifree of number i; "freeing free inode" stops the kernel.
FreeNumber(i) ==
    /\ iused' = iused \ {i}
    /\ panicked' = (i \notin iused)
    /\ UNCHANGED failed

\* ILOCK finds inode s locked.
SleepOn(p, s) ==
    /\ inode[s].locked
    /\ inode' = [inode EXCEPT ![s].want = TRUE]
    /\ chan' = [chan EXCEPT ![p] = s]
    /\ UNCHANGED <<freelist, disk, proc, env>>

\* IUNLOCK of the inodes S, in the table and on the sleep queues.
Unlocked(table, S) ==
    [s \in Table |-> IF s \in S THEN [table[s] EXCEPT !.locked = FALSE, !.want = FALSE]
                     ELSE table[s]]
Wakeup(S) ==
    chan' = [q \in Procs |->
               IF chan[q] \in S /\ inode[chan[q]].want THEN None ELSE chan[q]]

\* iput of a directory, which has other references.
Put(table, d) == [Unlocked(table, {d}) EXCEPT ![d].count = @ - 1]

Dir(p) == proc[p].at[1]

------------------------------------------------------------------------------
(* namei *)

NameiLocked(p) ==
    /\ At(p, "namei")
    /\ SleepOn(p, Dir(p))

\* Mutant: namei unlocks the directory before iget, as for "..".
NameiFoundUnlocked(p) ==
    /\ At(p, "namei")
    /\ ~inode[Dir(p)].locked
    /\ entry[proc[p].at] # None
    /\ inode' = [inode EXCEPT ![Dir(p)].count = @ + 1]
    /\ proc' = [proc EXCEPT ![p].ino = entry[proc[p].at], ![p].pc = "iget"]
    /\ UNCHANGED <<freelist, disk, chan, env>>

\* The name is there: fetch its inode with the directory locked.
NameiFound(p) ==
    /\ At(p, "namei")
    /\ ~inode[Dir(p)].locked
    /\ entry[proc[p].at] # None
    /\ inode' = [inode EXCEPT ![Dir(p)].locked = TRUE, ![Dir(p)].count = @ + 1]
    /\ proc' = [proc EXCEPT ![p].ino = entry[proc[p].at], ![p].pc = "iget"]
    /\ UNCHANGED <<freelist, disk, chan, env>>

\* ENOENT; for creat also the first test of ialloc.
NameiFails(p) ==
    /\ At(p, "namei")
    /\ ~inode[Dir(p)].locked
    /\ entry[proc[p].at] = None
    /\ \/ proc[p].op \in {"open", "link", "unlink"}
       \/ proc[p].op = "creat" /\ Inos \subseteq iused
    /\ proc' = [proc EXCEPT ![p] = InUser(@.fd)]
    /\ UNCHANGED <<inode, freelist, disk, chan, env>>

\* The directory cannot be read.
NameiError(p) ==
    /\ At(p, "namei")
    /\ ~inode[Dir(p)].locked
    /\ Fails("namei")
    /\ proc' = IF proc[p].op = "enter"
               THEN [proc EXCEPT ![p].err = TRUE, ![p].pc = "out"]
               ELSE [proc EXCEPT ![p] = InUser(@.fd)]
    /\ UNCHANGED <<inode, freelist, disk, chan>>

\* The name is free: return with the directory locked.
NameiFree(p) ==
    /\ At(p, "namei")
    /\ ~inode[Dir(p)].locked
    /\ entry[proc[p].at] = None
    /\ inode' = [inode EXCEPT ![Dir(p)].locked = TRUE, ![Dir(p)].count = @ + 1]
    /\ UNCHANGED <<freelist, disk, chan, env>>

NameiMake(p) ==
    /\ NameiFree(p)
    /\ proc[p].op = "creat" /\ ~(Inos \subseteq iused)
    /\ proc' = [proc EXCEPT ![p].op = "make", ![p].pc = "ialloccg"]

NameiEnter(p) == NameiFree(p) /\ proc[p].op = "enter" /\ Go(p, "direnter")

------------------------------------------------------------------------------
(* iget *)

\* Mutant: the search of the hash chain steps over locked inodes.
FoundUnlocked(s, i) == inode[s].hashed /\ inode[s].ino = i /\ ~inode[s].locked

Found(s, i) == inode[s].hashed /\ inode[s].ino = i

\* The inode is in core and locked.
IgetLocked(p) ==
    /\ At(p, "iget")
    /\ \E s \in Slots : Found(s, proc[p].ino) /\ SleepOn(p, s)

\* The free list when s is taken from it, wherever it is.
Unlink(s) == RemoveAt(freelist, CHOOSE k \in DOMAIN freelist : freelist[k] = s)

\* Mutant: the reference is not counted.
IgetHitUncounted(p) ==
    /\ At(p, "iget")
    /\ \E s \in Slots :
          /\ Found(s, proc[p].ino)
          /\ ~inode[s].locked
          /\ freelist' = IF inode[s].count = 0 THEN Unlink(s) ELSE freelist
          /\ inode' = [inode EXCEPT ![s].locked = TRUE]
          /\ proc' = [proc EXCEPT ![p].ip = s, ![p].pc = "got"]
    /\ UNCHANGED <<disk, chan, env>>

\* It is in core, perhaps on the free list.
IgetHit(p) ==
    /\ At(p, "iget")
    /\ \E s \in Slots :
          /\ Found(s, proc[p].ino)
          /\ ~inode[s].locked
          /\ freelist' = IF inode[s].count = 0 THEN Unlink(s) ELSE freelist
          /\ inode' = [inode EXCEPT ![s].count = @ + 1, ![s].locked = TRUE]
          /\ proc' = [proc EXCEPT ![p].ip = s, ![p].pc = "got"]
    /\ UNCHANGED <<disk, chan, env>>

\* It is not, and the table is full (ENFILE).
IgetFull(p) ==
    /\ At(p, "iget")
    /\ ~ \E s \in Slots : Found(s, proc[p].ino)
    /\ freelist = <<>>
    /\ Go(p, "null")
    /\ UNCHANGED <<inode, freelist, disk, chan, env>>

\* It is not: take the slot at the head of the free list, and read.
IgetMiss(p) ==
    LET s == Head(freelist)
    IN  /\ At(p, "iget")
        /\ ~ \E t \in Slots : Found(t, proc[p].ino)
        /\ freelist # <<>>
        /\ inode' = [inode EXCEPT ![s] =
                       [@ EXCEPT !.hashed = TRUE, !.ino = proc[p].ino, !.locked = TRUE,
                                 !.want = FALSE, !.dirty = FALSE,
                                 !.count = inode[s].count + 1]]
        /\ proc' = [proc EXCEPT ![p].ip = s, ![p].pc = "iread"]
        /\ freelist' = Tail(freelist)
        /\ UNCHANGED <<disk, chan, env>>

Iread(p) ==
    /\ At(p, "iread")
    /\ LET s == proc[p].ip
       IN  inode' = [inode EXCEPT ![s].mode = dino[inode[s].ino].mode,
                                  ![s].nlink = dino[inode[s].ino].nlink]
    /\ Go(p, "got")
    /\ UNCHANGED <<freelist, disk, chan, env>>

\* Only a block that is not in the cache, and has nothing to write, is read.
Clean(s) == dino[inode[s].ino] = sino[inode[s].ino]

\* The read failed: off the hash chain, lose the number, iput.
IreadFails(p) ==
    LET s == proc[p].ip
    IN  /\ At(p, "iread")
        /\ Clean(s)
        /\ Fails("iread")
        /\ inode' = [Unlocked(inode, {s}) EXCEPT ![s].hashed = FALSE, ![s].ino = None]
        /\ Wakeup({s})
        /\ proc' = [proc EXCEPT ![p].pc = "irele", ![p].ret = "null"]
        /\ UNCHANGED <<freelist, disk>>

------------------------------------------------------------------------------
(* iput, irele, itrunc and iupdat *)

Iput(p) ==
    /\ At(p, "iput")
    /\ inode' = Unlocked(inode, {proc[p].ip})
    /\ Wakeup({proc[p].ip})
    /\ Go(p, "irele")
    /\ UNCHANGED <<freelist, disk, env>>

\* irele returns.
Return(p) ==
    proc' = [proc EXCEPT ![p] = IF @.ret = "user" THEN InUser(@.fd)
                                ELSE [@ EXCEPT !.ip = None, !.pc = proc[p].ret, !.ret = "user"]]

\* Others have the inode.
IreleShared(p) ==
    LET s == proc[p].ip
    IN  /\ At(p, "irele")
        /\ inode[s].count # 1
        /\ inode' = [inode EXCEPT ![s].count = @ - 1]
        /\ Return(p)
        /\ UNCHANGED <<freelist, disk, chan, env>>

\* The last reference to a file with links: write the inode if it changed.
IreleLast(p) ==
    LET s == proc[p].ip
    IN  /\ At(p, "irele")
        /\ inode[s].count = 1
        /\ inode[s].nlink > 0
        /\ inode' = [inode EXCEPT ![s].locked = TRUE]
        /\ proc' = [proc EXCEPT ![p].wait = FALSE, ![p].then = "release",
                                ![p].pc = IF inode[s].dirty THEN "iupdat" ELSE "release"]
        /\ UNCHANGED <<freelist, disk, chan, env>>

\* Mutant: a file without links is freed at any iput.
IreleUnlinkedAny(p) ==
    LET s == proc[p].ip
    IN  /\ At(p, "irele")
        /\ inode[s].nlink <= 0
        /\ inode' = [inode EXCEPT ![s].locked = TRUE, ![s].dirty = TRUE]
        /\ proc' = [proc EXCEPT ![p].wait = TRUE, ![p].then = "truncated",
                                ![p].pc = "iupdat"]
        /\ UNCHANGED <<freelist, disk, chan, env>>

\* The last reference to a file without links: itrunc writes the inode first.
IreleUnlinked(p) ==
    LET s == proc[p].ip
    IN  /\ At(p, "irele")
        /\ inode[s].count = 1
        /\ inode[s].nlink <= 0
        /\ inode' = [inode EXCEPT ![s].locked = TRUE, ![s].dirty = TRUE]
        /\ proc' = [proc EXCEPT ![p].wait = TRUE, ![p].then = "truncated",
                                ![p].pc = "iupdat"]
        /\ UNCHANGED <<freelist, disk, chan, env>>

\* The blocks are free.
Truncated(p) ==
    /\ At(p, "truncated")
    /\ inode' = [inode EXCEPT ![proc[p].ip].mode = FALSE, ![proc[p].ip].dirty = TRUE]
    /\ Go(p, "ifree")
    /\ UNCHANGED <<freelist, disk, chan, env>>

\* Mutant: the inode is not written again after ifree.
ToIupdatNever(p) == Go(p, "release")

\* ifree of irele; then the last update of the inode, which is dirty.
ToIupdat(p) == proc' = [proc EXCEPT ![p].wait = FALSE, ![p].then = "release", ![p].pc = "iupdat"]

Ifree(p) ==
    /\ At(p, "ifree")
    /\ ~lost
    /\ FreeNumber(inode[proc[p].ip].ino)
    /\ ToIupdat(p)
    /\ UNCHANGED <<inode, freelist, entry, dino, dentry, sino, lost, chan>>

IfreeFails(p) ==
    /\ At(p, "ifree")
    /\ ~lost
    /\ Fails("ifree")
    /\ ToIupdat(p)
    /\ UNCHANGED <<inode, freelist, disk, chan>>

\* Mutant: i_flag is cleared without iunlock, IWANT with it.
ReleaseClear(p) ==
    LET s == proc[p].ip
    IN  /\ At(p, "release")
        /\ inode' = [Unlocked(inode, {s}) EXCEPT ![s].dirty = FALSE, ![s].count = @ - 1]
        /\ freelist' = Append(freelist, s)
        /\ Return(p)
        /\ UNCHANGED <<disk, chan, env>>

\* Nobody has the inode any more: to the end of the free list.
Release(p) ==
    LET s == proc[p].ip
    IN  /\ At(p, "release")
        /\ inode' = [Unlocked(inode, {s}) EXCEPT ![s].dirty = FALSE, ![s].count = @ - 1]
        /\ Wakeup({s})
        /\ freelist' = Append(freelist, s)
        /\ Return(p)
        /\ UNCHANGED <<disk, env>>

Iupdat(p) ==
    LET s == proc[p].ip
    IN  /\ At(p, "iupdat")
        /\ dino' = [dino EXCEPT ![inode[s].ino] =
                      [mode |-> inode[s].mode, nlink |-> inode[s].nlink]]
        /\ inode' = [inode EXCEPT ![s].dirty = FALSE]
        /\ Go(p, IF proc[p].wait THEN "bwrite" ELSE proc[p].then)
        /\ UNCHANGED <<freelist, entry, iused, dentry, sino, lost, chan, env>>

\* The block cannot be read: the inode stays dirty, u_error is set.
IupdatFails(p) ==
    /\ At(p, "iupdat")
    /\ Clean(proc[p].ip)
    /\ Fails("iupdat")
    /\ proc' = [proc EXCEPT ![p].err = TRUE, ![p].pc = proc[p].then]
    /\ UNCHANGED <<inode, freelist, disk, chan>>

Bwrite(p) ==
    LET i == inode[proc[p].ip].ino
    IN  /\ At(p, "bwrite")
        /\ sino' = [sino EXCEPT ![i] = dino[i]]
        /\ Go(p, proc[p].then)
        /\ UNCHANGED <<inode, freelist, entry, dino, iused, dentry, lost, chan, env>>

\* A delayed write goes out: bflush, or the buffer is taken.
Writeback(i) ==
    /\ ~panicked
    /\ \A q \in Procs : proc[q].pc \in Sleeps
    /\ sino[i] # dino[i]
    /\ sino' = [sino EXCEPT ![i] = dino[i]]
    /\ UNCHANGED <<inode, freelist, entry, dino, iused, dentry, lost, proc, chan, env>>

------------------------------------------------------------------------------
(* ialloc and maknode *)

\* ialloc gives up, and maknode releases the directory.
NoInode(p) ==
    /\ inode' = Put(inode, Dir(p)) /\ Wakeup({Dir(p)})
    /\ proc' = [proc EXCEPT ![p] = InUser(@.fd)]

\* The last number of the group went while p was asleep: ialloccg returns, and
\* keeps the buffer.
IalloccgNone(p) ==
    /\ At(p, "ialloccg")
    /\ ~lost
    /\ Inos \subseteq iused
    /\ lost' = TRUE
    /\ NoInode(p)
    /\ UNCHANGED <<freelist, entry, dino, iused, dentry, sino, env>>

\* ialloccg takes a number of the group, of which 0 counts as none.
IalloccgTake(p) ==
    /\ At(p, "ialloccg")
    /\ ~lost
    /\ \E i \in Inos \ iused :
          /\ iused' = iused \cup {i}
          /\ IF i = None THEN NoInode(p)
             ELSE /\ proc' = [proc EXCEPT ![p].ino = i, ![p].pc = "iget"]
                  /\ UNCHANGED <<inode, chan>>
    /\ UNCHANGED <<freelist, entry, dino, dentry, sino, lost, env>>

Ialloccg(p) == IF Inos \subseteq iused THEN IalloccgNone(p) ELSE IalloccgTake(p)

IalloccgFails(p) ==
    /\ At(p, "ialloccg")
    /\ ~lost
    /\ Fails("ialloccg")
    /\ NoInode(p)
    /\ UNCHANGED <<freelist, disk>>

\* ialloc got no inode for the number, and frees it.
Ifreeino(p) ==
    /\ At(p, "ifreeino")
    /\ ~lost
    /\ \/ FreeNumber(proc[p].ino)
       \/ Fails("ifree") /\ UNCHANGED iused
    /\ NoInode(p)
    /\ UNCHANGED <<freelist, entry, dino, dentry, sino, lost>>

\* "ialloc: dup alloc"
GotInUse(p) ==
    /\ At(p, "got")
    /\ proc[p].op = "make"
    /\ inode[proc[p].ip].mode
    /\ panicked' = TRUE
    /\ UNCHANGED <<inode, freelist, disk, proc, chan, failed>>

\* Mutant: maknode leaves the inode to a delayed write.
GotNewLate(p) ==
    LET s == proc[p].ip
    IN  /\ At(p, "got")
        /\ proc[p].op = "make"
        /\ ~inode[s].mode
        /\ inode' = [inode EXCEPT ![s] = [@ EXCEPT !.mode = TRUE, !.nlink = 1, !.dirty = TRUE]]
        /\ proc' = [proc EXCEPT ![p].wait = FALSE, ![p].then = "direnter", ![p].pc = "iupdat"]
        /\ UNCHANGED <<freelist, disk, chan, env>>

\* maknode: the inode goes to disk before the directory entry.
GotNew(p) ==
    LET s == proc[p].ip
    IN  /\ At(p, "got")
        /\ proc[p].op = "make"
        /\ ~inode[s].mode
        /\ inode' = [inode EXCEPT ![s] = [@ EXCEPT !.mode = TRUE, !.nlink = 1, !.dirty = TRUE]]
        /\ proc' = [proc EXCEPT ![p].wait = TRUE, ![p].then = "direnter", ![p].pc = "iupdat"]
        /\ UNCHANGED <<freelist, disk, chan, env>>

------------------------------------------------------------------------------
(* direnter and dirremove *)

\* The inode that the new entry is for.
Entered(p) == inode[IF proc[p].op = "make" THEN proc[p].ip ELSE proc[p].lp].ino

Direnter(p) ==
    /\ At(p, "direnter")
    /\ ~proc[p].err
    /\ entry' = [entry EXCEPT ![proc[p].at] = Entered(p)]
    /\ Go(p, "dirwrite")
    /\ UNCHANGED <<inode, freelist, dino, iused, dentry, sino, lost, chan, env>>

\* u_error is set from before, or the directory cannot be read.
DirenterFails(p) ==
    /\ At(p, "direnter")
    /\ IF proc[p].err THEN UNCHANGED env ELSE Fails("direnter")
    /\ UNCHANGED <<freelist, disk>>

\* maknode deallocates the inode.
MakeFails(p) ==
    LET s == proc[p].ip
        d == Dir(p)
    IN  /\ DirenterFails(p)
        /\ proc[p].op = "make"
        /\ inode' = [Unlocked(Put(inode, d), {s}) EXCEPT ![s].nlink = 0, ![s].dirty = TRUE]
        /\ Wakeup({d, s})
        /\ Go(p, "irele")

\* link undoes its count.
EnterFails(p) ==
    /\ DirenterFails(p)
    /\ proc[p].op = "enter"
    /\ inode' = Put(inode, Dir(p))
    /\ Wakeup({Dir(p)})
    /\ proc' = [proc EXCEPT ![p].err = TRUE, ![p].pc = "out"]

\* The entry is on the disk.
Dirwrite(p) ==
    /\ At(p, "dirwrite")
    /\ dentry' = [dentry EXCEPT ![proc[p].at] = entry[proc[p].at]]
    /\ UNCHANGED <<freelist, entry, dino, iused, sino, lost, env>>

DirenterDone(p) ==
    /\ Dirwrite(p)
    /\ proc[p].op \in {"make", "enter"}
    /\ inode' = Put(inode, Dir(p))
    /\ Wakeup({Dir(p)})
    /\ Go(p, IF proc[p].op = "make" THEN "opened" ELSE "out")

DirremoveDone(p) ==
    LET s == proc[p].ip
    IN  /\ Dirwrite(p)
        /\ proc[p].op = "unlink"
        /\ inode' = [Unlocked(inode, {s}) EXCEPT ![s].nlink = @ - 1, ![s].dirty = TRUE]
        /\ Wakeup({s})
        /\ proc' = [proc EXCEPT ![p].pc = "irele", ![p].ret = "undir"]

Dirremove(p) ==
    /\ At(p, "dirremove")
    /\ entry' = [entry EXCEPT ![proc[p].at] = None]
    /\ Go(p, "dirwrite")
    /\ UNCHANGED <<inode, freelist, dino, iused, dentry, sino, lost, chan, env>>

\* The directory cannot be read.  If the entry is the first of its block the
\* error of rdwri is ignored, and unlink takes the entry for removed.
DirremoveFails(p) ==
    LET s == proc[p].ip
    IN  /\ At(p, "dirremove")
        /\ Fails("dirremove")
        /\ \E n \in {0, 1} :
              inode' = [Unlocked(inode, {s}) EXCEPT ![s].nlink = @ - n,
                                                    ![s].dirty = @ \/ n = 1]
        /\ Wakeup({s})
        /\ proc' = [proc EXCEPT ![p].pc = "irele", ![p].ret = "undir"]
        /\ UNCHANGED <<freelist, disk>>

\* unlink: iput(dp)
Undir(p) ==
    /\ At(p, "undir")
    /\ inode' = Put(inode, Dir(p)) /\ Wakeup({Dir(p)})
    /\ proc' = [proc EXCEPT ![p] = InUser(@.fd)]
    /\ UNCHANGED <<freelist, disk, env>>

------------------------------------------------------------------------------
(* The system calls. *)

\* namei returns the inode of the last component, and leaves the directory.
GotOpen(p) ==
    /\ At(p, "got")
    /\ proc[p].op \in {"open", "creat"}
    /\ inode' = Put(inode, Dir(p))
    /\ Wakeup({Dir(p)})
    /\ Go(p, "opened")
    /\ UNCHANGED <<freelist, disk, env>>

\* copen has a file structure.
Opened(p) ==
    /\ At(p, "opened")
    /\ proc[p].op # "creat"
    /\ Go(p, "granted")
    /\ UNCHANGED <<inode, freelist, disk, chan, env>>

\* creat of an old file truncates it.
OpenedOld(p) ==
    /\ At(p, "opened")
    /\ proc[p].op = "creat"
    /\ inode' = [inode EXCEPT ![proc[p].ip].dirty = TRUE]
    /\ proc' = [proc EXCEPT ![p].wait = TRUE, ![p].then = "granted", ![p].pc = "iupdat"]
    /\ UNCHANGED <<freelist, disk, chan, env>>

\* The file may not be opened, or there is no file structure.
OpenedFails(p) ==
    /\ At(p, "opened")
    /\ Go(p, "iput")
    /\ UNCHANGED <<inode, freelist, disk, chan, env>>

Granted(p) ==
    LET s == proc[p].ip
    IN  /\ At(p, "granted")
        /\ inode' = Unlocked(inode, {s})
        /\ Wakeup({s})
        /\ proc' = [proc EXCEPT ![p] = InUser(s)]
        /\ UNCHANGED <<freelist, disk, env>>

\* link counts the new link, and the inode goes to disk first.
GotLink(p) ==
    LET s == proc[p].ip
    IN  /\ At(p, "got")
        /\ proc[p].op = "link"
        /\ inode' = [Put(inode, Dir(p)) EXCEPT ![s].nlink = @ + 1, ![s].dirty = TRUE]
        /\ Wakeup({Dir(p)})
        /\ proc' = [proc EXCEPT ![p].wait = TRUE, ![p].then = "linked", ![p].pc = "iupdat"]
        /\ UNCHANGED <<freelist, disk, env>>

\* The second namei gives up at once if u_error is set.
Linked(p) ==
    LET s == proc[p].ip
    IN  /\ At(p, "linked")
        /\ inode' = Unlocked(inode, {s})
        /\ Wakeup({s})
        /\ proc' = [proc EXCEPT ![p] = [@ EXCEPT !.lp = s, !.ip = None, !.op = "enter",
                                                 !.at = proc[p].to,
                                                 !.pc = IF proc[p].err THEN "out" ELSE "namei"]]
        /\ UNCHANGED <<freelist, disk, env>>

\* The second name exists.
GotExisting(p) ==
    LET s == proc[p].ip
    IN  /\ At(p, "got")
        /\ proc[p].op = "enter"
        /\ inode' = Unlocked(Put(inode, Dir(p)), {s})
        /\ Wakeup({s, Dir(p)})
        /\ proc' = [proc EXCEPT ![p].err = TRUE, ![p].pc = "irele", ![p].ret = "out"]
        /\ UNCHANGED <<freelist, disk, env>>

\* The end of link.
Out(p) ==
    LET s == proc[p].lp
    IN  /\ At(p, "out")
        /\ inode' = IF proc[p].err
                    THEN [inode EXCEPT ![s].nlink = @ - 1, ![s].dirty = TRUE]
                    ELSE inode
        /\ proc' = [proc EXCEPT ![p] = [@ EXCEPT !.ip = s, !.lp = None, !.pc = "irele",
                                                 !.ret = "user"]]
        /\ UNCHANGED <<freelist, disk, chan, env>>

\* unlink keeps the directory locked.
GotUnlink(p) ==
    /\ At(p, "got")
    /\ proc[p].op = "unlink"
    /\ Go(p, "dirremove")
    /\ UNCHANGED <<inode, freelist, disk, chan, env>>

\* iget has returned NULL to ialloc.
MakeNull(p) ==
    /\ At(p, "null")
    /\ proc[p].op = "make"
    /\ Go(p, "ifreeino")
    /\ UNCHANGED <<inode, freelist, disk, chan, env>>

\* iget has returned NULL to namei.
GotNull(p) ==
    /\ At(p, "null")
    /\ proc[p].op # "make"
    /\ inode' = Put(inode, Dir(p)) /\ Wakeup({Dir(p)})
    /\ proc' = IF proc[p].op = "enter"
               THEN [proc EXCEPT ![p].err = TRUE, ![p].pc = "out"]
               ELSE [proc EXCEPT ![p] = InUser(@.fd)]
    /\ UNCHANGED <<freelist, disk, env>>

CloseLocked(p) ==
    /\ At(p, "close")
    /\ SleepOn(p, proc[p].fd)

\* ilock, iput
Close(p) ==
    /\ At(p, "close")
    /\ ~inode[proc[p].fd].locked
    /\ proc' = [proc EXCEPT ![p] = [@ EXCEPT !.ip = proc[p].fd, !.fd = None, !.pc = "irele"]]
    /\ UNCHANGED <<inode, freelist, disk, chan, env>>

\* A process makes a system call.  It opens one file at a time.
Call(p) ==
    /\ At(p, "user")
    /\ \E op \in Calls[p], a, b \in Paths :
          /\ op \in {"open", "creat"} => proc[p].fd = None
          /\ op \in {"open", "creat", "link", "unlink"}
          /\ op # "link" => b = a
          /\ proc' = [proc EXCEPT ![p] = [@ EXCEPT !.op = op, !.at = a, !.to = b, !.pc = "namei"]]
    /\ UNCHANGED <<inode, freelist, disk, chan, env>>

CallClose(p) ==
    /\ At(p, "user")
    /\ "close" \in Calls[p]
    /\ proc[p].fd # None
    /\ proc' = [proc EXCEPT ![p].op = "close", ![p].pc = "close"]
    /\ UNCHANGED <<inode, freelist, disk, chan, env>>

\* update, at one inode in use.  Under updlock another update returns at once.
Sync(p) ==
    /\ At(p, "user")
    /\ "sync" \in Calls[p]
    /\ \A q \in Procs : proc[q].op # "sync"
    /\ \E s \in Slots :
          /\ ~inode[s].locked /\ inode[s].count > 0
          /\ inode' = [inode EXCEPT ![s].locked = TRUE, ![s].count = @ + 1]
          /\ proc' = [proc EXCEPT ![p] = [@ EXCEPT !.op = "sync", !.ip = s, !.then = "iput",
                                        !.pc = IF inode[s].dirty THEN "iupdat" ELSE "iput"]]
    /\ UNCHANGED <<freelist, disk, chan, env>>

Step(p) ==
    \/ Call(p) \/ CallClose(p) \/ Sync(p)
    \/ NameiLocked(p) \/ NameiFound(p) \/ NameiFails(p) \/ NameiError(p)
    \/ NameiMake(p) \/ NameiEnter(p)
    \/ IgetLocked(p) \/ IgetHit(p) \/ IgetFull(p) \/ IgetMiss(p)
    \/ Iread(p) \/ IreadFails(p)
    \/ GotOpen(p) \/ GotLink(p) \/ GotExisting(p) \/ GotUnlink(p)
    \/ GotNew(p) \/ GotInUse(p) \/ GotNull(p) \/ MakeNull(p)
    \/ Opened(p) \/ OpenedOld(p) \/ OpenedFails(p) \/ Granted(p)
    \/ Linked(p) \/ Out(p)
    \/ Ialloccg(p) \/ IalloccgFails(p) \/ Ifreeino(p)
    \/ Direnter(p) \/ MakeFails(p) \/ EnterFails(p) \/ DirenterDone(p)
    \/ Dirremove(p) \/ DirremoveFails(p) \/ DirremoveDone(p) \/ Undir(p)
    \/ CloseLocked(p) \/ Close(p) \/ Iput(p)
    \/ IreleShared(p) \/ IreleLast(p) \/ IreleUnlinked(p) \/ Truncated(p)
    \/ Ifree(p) \/ IfreeFails(p) \/ Release(p)
    \/ Iupdat(p) \/ IupdatFails(p) \/ Bwrite(p)

Next == (\E p \in Procs : Step(p)) \/ (\E i \in Inos : Writeback(i))

Spec == Init /\ [][Next]_vars

------------------------------------------------------------------------------
(* Properties. *)

TypeOK ==
    /\ inode \in [Table -> Inode]
    /\ freelist \in Seq(Slots)
    /\ entry \in [Paths -> Inos] /\ dentry \in [Paths -> Inos]
    /\ dino \in [Inos -> Dinode] /\ sino \in [Inos -> Dinode]
    /\ iused \subseteq Inos
    /\ proc \in [Procs -> Process]
    /\ chan \in [Procs -> Table \cup {None}]
    /\ failed \subseteq Reads
    /\ lost \in BOOLEAN /\ panicked \in BOOLEAN

\* One in-core copy of a file.
OneCopy ==
    \A s, t \in Slots : inode[s].hashed /\ inode[t].hashed /\ inode[s].ino = inode[t].ino => s = t

\* The free list holds the inodes without references, each once.
FreeListExact ==
    /\ \A s \in Slots : inode[s].count = 0 <=> \E k \in DOMAIN freelist : freelist[k] = s
    /\ \A j, k \in DOMAIN freelist : freelist[j] = freelist[k] => j = k

\* i_count is the number of processes and open files that have the inode (one,
\* for an inode of another file system that stays in core).
CountsExact ==
    \A s \in Slots :
        inode[s].count = (IF inode[s].ino = s THEN 1 ELSE 0)
                         + Cardinality({p \in Procs : proc[p].ip = s})
                         + Cardinality({p \in Procs : proc[p].lp = s})
                         + Cardinality({p \in Procs : proc[p].fd = s})

\* The table of inodes agrees with itself and with its users: one copy of a
\* file, an exact count, and on the free list what nobody has (ufs_inode.c).
TableExact == OneCopy /\ FreeListExact /\ CountsExact

\* The places at which a process has its inode, or its directory, locked.
HasFile(p, s) ==
    /\ proc[p].ip = s
    /\ proc[p].pc \in {"got", "iread", "iupdat", "bwrite", "truncated", "ifree", "release",
                       "opened", "granted", "linked", "direnter", "dirremove", "dirwrite",
                       "iput"}
HasDir(p, d) ==
    /\ proc[p].at # None /\ Dir(p) = d
    /\ \/ proc[p].pc \in {"iget", "iread", "got", "null", "ialloccg", "ifreeino",
                          "direnter", "dirremove", "dirwrite", "undir"}
       \/ proc[p].op = "make" /\ proc[p].pc \in {"iupdat", "bwrite"} /\ proc[p].then = "direnter"
       \/ proc[p].ret \in {"null", "undir"}
Has(p, s) == HasFile(p, s) \/ HasDir(p, s)

\* ILOCKED has one owner, who is at a place where the code gives it up later.
LockExact ==
    \A s \in Table :
        /\ inode[s].locked <=> \E p \in Procs : Has(p, s)
        /\ \A p, q \in Procs : Has(p, s) /\ Has(q, s) => p = q

\* Nobody sleeps on an inode that is free, or whose owner does not know of it.
WillBeWoken ==
    \A p \in Procs : chan[p] # None => inode[chan[p]].locked /\ inode[chan[p]].want

\* Every lock has one owner who gives it up, and knows who waits for it
\* (ufs_inode.c, inode.h ILOCK and IUNLOCK).
LocksExact == LockExact /\ WillBeWoken

Links(dir, f) == Cardinality({a \in Paths : dir[a] = f})

\* unlink has taken an entry for removed that it could not read: dirremove
\* ignores what rdwri returns for the first entry of a block.
Torn == "dirremove" \in failed

\* ufs_nami.c:435-436: "We must get the target inode before unlocking the
\* directory to insure that the inode will not be removed before we get it."
FoundAlive ==
    \A p \in Procs :
        proc[p].pc = "got" /\ proc[p].op # "make" => Torn \/ inode[proc[p].ip].mode

\* The link count of a file, in core or else on its way to the disk, covers
\* its names, and its number is allocated.
Reading(s) == \E p \in Procs : proc[p].pc = "iread" /\ proc[p].ip = s
Current(f) ==
    IF \E s \in Slots : Found(s, f) /\ ~Reading(s)
    THEN inode[CHOOSE s \in Slots : Found(s, f)].nlink
    ELSE dino[f].nlink
NamesCounted ==
    Torn \/ \A f \in Files : Links(entry, f) > 0 => f \in iused /\ Links(entry, f) <= Current(f)

\* After a crash the disk has no name of a file that is not there, and no file
\* with fewer links than names (ufs_syscalls.c:1061: "Make sure inode goes to
\* disk before directory entry."); what is lost is only to be reclaimed.
CrashSafe ==
    \A f \in Files : Links(dentry, f) > 0 =>
        Torn \/ (sino[f].mode /\ sino[f].nlink >= Links(dentry, f))

\* Links cover names, in core and, at any moment, on the disk.
NamesSafe == NamesCounted /\ CrashSafe

\* ufs_alloc.c:223, 849: "ialloc: dup alloc", "ifree: freeing free inode" do
\* not happen unless a read of an inode, or of a directory, has failed.
NoPanic == panicked => failed \cap {"iread", "iupdat", "dirremove"} # {}

\* A number is freed when the file has neither a name nor an open file.  (A
\* torn name still finds the inode while another file is made of its number.)
FreedUnused ==
    [][\A f \in Files : f \in iused /\ f \notin iused' =>
          \/ Torn
          \/ /\ Links(entry, f) = 0
             /\ \A p \in Procs : proc[p].fd # None => inode[proc[p].fd].ino # f]_vars

\* The buffer of the cylinder group is not checked out for ever.
GroupReleased == ~lost

==============================================================================
