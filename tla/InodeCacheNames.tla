--------------------------- MODULE InodeCacheNames ---------------------------
(***************************************************************************)
(* What holds of names and files, for any number of processes, inodes,     *)
(* directories and names, any system calls and any reads that fail: namei  *)
(* returns an inode that is there, a link count covers the names of its    *)
(* file in core and on the disk, a number is freed when nobody uses it,    *)
(* and the kernel does not stop.                                           *)
(*                                                                         *)
(* A link count covers not the names alone but the names and the debts: a  *)
(* process that has counted a link and has yet to enter the name, or has   *)
(* cleared the name and has yet to uncount the link, owes one (Owing;      *)
(* OwingDisk for the names on the disk). CoreCounts says so of the inode   *)
(* in core, DiskCounts of its copies in the buffer cache and on the disk,  *)
(* where only the debts count whose inode has got so far (Updated,         *)
(* Written). LinksOK is inductive together with what each process knows of *)
(* its name and of the inode it gives up (WorkOK), and with the numbers    *)
(* (NumbersOK): a name, or an inode that is used, keeps its number         *)
(* allocated, and a number that is being made a file of has one maker.     *)
(* NameInv holds until a torn directory makes unlink believe in an entry   *)
(* that it has not removed.                                                *)
(*                                                                         *)
(* ClearOK, that the inode of a free number is clear wherever iget may     *)
(* read it, holds until an inode cannot be read or written; NoPanic rests  *)
(* on it.                                                                  *)
(*                                                                         *)
(* The lemmas follow the parts: Moves says how the steps change what a     *)
(* process owes, knows and makes; DebtsBalance, DiskCountsStep and         *)
(* CoreCountsStep are the counts, WorkStep the knowledge, NumbersStep the  *)
(* numbers, ClearStep the clear inodes.                                    *)
(***************************************************************************)
EXTENDS InodeCacheProofs

------------------------------------------------------------------------------
(* Links that are counted and names that are there. *)

\* The inode that a process has counted a link of.
Target(r) == IF r.op = "enter" THEN r.lp ELSE r.ip

\* A process has counted a link for which there is no name.
Owing(r) ==
    \/ /\ r.op = "make"
       /\ r.pc = "direnter" \/ (r.pc \in {"iupdat", "bwrite"} /\ r.then = "direnter")
    \/ /\ r.op = "link"
       /\ r.pc = "linked" \/ (r.pc \in {"iupdat", "bwrite"} /\ r.then = "linked")
    \/ r.op = "enter" /\ r.lp # None /\ r.pc # "dirwrite" /\ (r.pc = "out" => r.err)
    \/ r.op = "unlink" /\ r.pc = "dirwrite"

\* ... for which there is no name on the disk.
OwingDisk(r) ==
    \/ Owing(r) /\ r.op # "unlink"
    \/ r.op \in {"make", "enter"} /\ r.pc = "dirwrite"

\* The inode with that link is in the buffer cache, or even on the disk.
ToDisk(r) == r.then \in {"direnter", "linked"}
Updated(r) == ~r.err /\ ~(r.pc = "iupdat" /\ ToDisk(r))
Written(r) == Updated(r) /\ ~(r.pc = "bwrite" /\ ToDisk(r))

Owed(s) == {p \in Procs : Owing(proc[p]) /\ Target(proc[p]) = s}
OwedDisk(s) == {p \in Procs : OwingDisk(proc[p]) /\ Target(proc[p]) = s}
Of(p, f) == Target(proc[p]) # None /\ inode[Target(proc[p])].ino = f
OwedUpdated(f) ==
    {p \in Procs : Owing(proc[p]) /\ proc[p].op # "unlink" /\ Updated(proc[p]) /\ Of(p, f)}
OwedDiskUpdated(f) == {p \in Procs : OwingDisk(proc[p]) /\ Updated(proc[p]) /\ Of(p, f)}
OwedDiskWritten(f) == {p \in Procs : OwingDisk(proc[p]) /\ Written(proc[p]) /\ Of(p, f)}

Cached(s, f) == Found(s, f) /\ ~Reading(s)

\* The link count of a file covers its names and what is owed: in core, in the
\* buffer cache, and on the disk.
CoreCounts(s, f) ==
    Cached(s, f) =>
       /\ inode[s].nlink >= Links(entry, f) + Cardinality(Owed(s))
       /\ inode[s].nlink >= Links(dentry, f) + Cardinality(OwedDisk(s))
       /\ inode[s].nlink > 0 => inode[s].mode
DiskCounts(f) ==
    /\ dino[f].nlink >= Links(entry, f) + Cardinality(OwedUpdated(f))
    /\ dino[f].nlink >= Links(dentry, f) + Cardinality(OwedDiskUpdated(f))
    /\ sino[f].nlink >= Links(dentry, f) + Cardinality(OwedDiskWritten(f))
    /\ dino[f].nlink > 0 => dino[f].mode
    /\ sino[f].nlink > 0 => sino[f].mode
LinksOK == \A f \in Files : DiskCounts(f) /\ \A s \in Slots : CoreCounts(s, f)

------------------------------------------------------------------------------
(* What a process at work knows. *)

\* Of itself: u_error is clear, and the inode of a new name is written at once.
CalmOK(r) ==
    /\ r.pc \in {"user", "namei", "iget", "iread", "got", "ialloccg"} => ~r.err
    /\ r.pc = "dirwrite" /\ r.op \in {"make", "enter"} => ~r.err
    /\ r.pc \in {"iupdat", "bwrite"} /\ ToDisk(r) => ~r.err
    /\ r.pc = "iupdat" /\ ToDisk(r) => r.wait

\* Of its name: the entry that it has found, or has written, or is to write.
Vacant(r) ==
    \/ r.pc = "direnter"
    \/ /\ r.op = "make"
       /\ \/ r.pc \in {"ialloccg", "ifreeino", "iget", "iread", "got", "null"}
          \/ r.ret = "null"
          \/ Owing(r)
NameOK(p) ==
    LET r == proc[p]
    IN  /\ r.pc \in {"iread", "got", "dirremove"} => inode[r.ip].ino = r.ino
        /\ r.op # "make" /\ r.pc \in {"iget", "iread", "got", "dirremove"} =>
              entry[r.at] = r.ino /\ dentry[r.at] = r.ino
        /\ r.pc = "dirwrite" /\ r.op = "unlink" =>
              entry[r.at] = None /\ dentry[r.at] = inode[r.ip].ino
        /\ r.pc = "dirwrite" /\ r.op # "unlink" =>
              entry[r.at] = inode[Target(r)].ino /\ dentry[r.at] = None
        /\ Vacant(r) => entry[r.at] = None /\ dentry[r.at] = None

\* Of the inode whose last reference it gives up.
AtLast(r) ==
    \/ r.pc \in {"iupdat", "bwrite"} /\ r.then = "truncated"
    \/ r.pc \in {"truncated", "ifree"}
LastOK(p) ==
    /\ AtLast(proc[p]) => inode[proc[p].ip].nlink <= 0
    /\ proc[p].pc = "ifree" => ~inode[proc[p].ip].mode

\* The directories of the buffer cache are those of the disk, but for entries
\* that are being written.
EntriesOK ==
    \A a \in Paths : entry[a] # dentry[a] =>
       \E p \in Procs : proc[p].pc = "dirwrite" /\ proc[p].at = a

WorkOK == EntriesOK /\ \A p \in Procs : CalmOK(proc[p]) /\ NameOK(p) /\ LastOK(p)

------------------------------------------------------------------------------
(* The inode numbers. *)

\* A process makes a file of a number that is free otherwise.
Making(r) ==
    /\ r.op = "make"
    /\ r.pc \in {"iget", "iread", "got", "null", "ifreeino"} \/ r.ret = "null"
\* It has the new inode at hand.
MakesFile(r) == r.op = "make" /\ (r.pc = "got" \/ Owing(r))
\* A process has freed the number of the inode at hand.
Ending(r) == r.pc = "release" \/ (r.pc \in {"iupdat", "bwrite"} /\ r.then = "release")
Freed(p, s) == proc[p].ip = s /\ Ending(proc[p]) /\ inode[s].nlink <= 0
Uses1(p, s) == Refs(p, s) /\ ~Freed(p, s)
Named(f) == \E a \in Paths : entry[a] = f \/ dentry[a] = f

NumberOK(p) ==
    LET r == proc[p]
    IN  /\ \A s \in Slots : Uses1(p, s) /\ inode[s].ino \in Files => inode[s].ino \in iused
        /\ Making(r) => r.ino \in iused \cap Files /\ ~Named(r.ino)
        /\ MakesFile(r) => inode[r.ip].count = 1
        /\ r.op = "make" /\ Owing(r) => inode[r.ip].nlink = 1
\* Nobody else has the number that q makes a file of.
OwnNumber(p, q) ==
    Making(proc[q]) =>
       /\ Making(proc[p]) => proc[p].ino # proc[q].ino
       /\ \A s \in Slots : Uses1(p, s) => inode[s].ino # proc[q].ino
NumbersOK ==
    /\ \A f \in Files : Named(f) => f \in iused
    /\ \A p \in Procs : NumberOK(p)
    /\ \A p, q \in Procs : p # q => OwnNumber(p, q)

\* The inode of a number that is free, or has just been taken, is clear.
Vague(f) == f \notin iused \/ \E p \in Procs : Making(proc[p]) /\ proc[p].ino = f
Clearing(p, f) ==
    /\ proc[p].pc = "iupdat" /\ proc[p].then = "release"
    /\ Found(proc[p].ip, f) /\ ~inode[proc[p].ip].mode
ClearOK ==
    /\ \A f \in Files : Vague(f) =>
          /\ dino[f].mode => \E p \in Procs : proc[p].ip # None /\ Clearing(p, f)
          /\ \A s \in Slots : Cached(s, f) => ~inode[s].mode
    /\ \A p \in Procs, s \in Slots : Refs(p, s) => inode[s].ino # None

NameInv == ~Torn => LinksOK /\ WorkOK /\ NumbersOK
ClearInv == failed \cap {"iread", "iupdat", "dirremove"} = {} => ClearOK

------------------------------------------------------------------------------
(* Counting. *)
\* Two sets that differ in one element at most.
LEMMA Differ ==
    ASSUME NEW S, IsFiniteSet(S), NEW A \in SUBSET S, NEW B \in SUBSET S, NEW x \in S,
           \A y \in S \ {x} : y \in A <=> y \in B
    PROVE  /\ Cardinality(A) \in Nat /\ Cardinality(B) \in Nat
           /\ Cardinality(B) = Cardinality(A) - Num(x \in A) + Num(x \in B)
<1>1. IsFiniteSet(A) /\ IsFiniteSet(B)
  BY FS_Subset
<1>2. Cardinality(A) \in Nat /\ Cardinality(B) \in Nat
  BY <1>1, FS_CardinalityType
<1>3. CASE x \in A <=> x \in B
  <2>1. A = B
    BY <1>3
  <2> QED BY <1>2, <2>1 DEF Num
<1>4. CASE x \in A /\ x \notin B
  <2>1. B = A \ {x}
    BY <1>4
  <2> QED BY <1>1, <1>2, <1>4, <2>1, FS_RemoveElement DEF Num
<1>5. CASE x \notin A /\ x \in B
  <2>1. B = A \cup {x}
    BY <1>5
  <2> QED BY <1>1, <1>2, <1>5, <2>1, FS_AddElement DEF Num
<1> QED BY <1>3, <1>4, <1>5

\* A smaller set of processes.
LEMMA Fewer ==
    ASSUME NEW A \in SUBSET Procs, NEW B \in SUBSET A
    PROVE  /\ Cardinality(A) \in Nat /\ Cardinality(B) \in Nat
           /\ Cardinality(B) <= Cardinality(A)
<1>1. IsFiniteSet(A)
  BY Assumed, FS_Subset
<1> QED BY <1>1, FS_Subset, FS_CardinalityType

LEMMA LinksType ==
    ASSUME NEW dir, NEW f
    PROVE  /\ Links(dir, f) \in Nat
           /\ Links(dir, f) = 0 <=> \A a \in Paths : dir[a] # f
<1> DEFINE A == {a \in Paths : dir[a] = f}
<1>1. IsFiniteSet(A)
  BY Assumed, FS_Subset
<1>2. Cardinality(A) \in Nat /\ (Cardinality(A) = 0 <=> A = {})
  BY <1>1, FS_CardinalityType, FS_EmptySet
<1> QED BY <1>2 DEF Links

\* An entry is written.
LEMMA LinksChange ==
    ASSUME NEW d, NEW e, NEW a \in Paths, NEW f, \A b \in Paths \ {a} : e[b] = d[b]
    PROVE  Links(e, f) = Links(d, f) - Num(d[a] = f) + Num(e[a] = f)
<1> DEFINE A == {b \in Paths : d[b] = f}  B == {b \in Paths : e[b] = f}
<1>2. /\ A \in SUBSET Paths /\ B \in SUBSET Paths
      /\ \A b \in Paths \ {a} : b \in A <=> b \in B
      /\ a \in A <=> d[a] = f
      /\ a \in B <=> e[a] = f
  OBVIOUS
<1> HIDE DEF A, B
<1>3. Cardinality(B) = Cardinality(A) - Num(a \in A) + Num(a \in B)
  BY <1>2, Assumed, Differ
<1>4. Num(a \in A) = Num(d[a] = f) /\ Num(a \in B) = Num(e[a] = f)
  BY <1>2 DEF Num
<1> QED BY <1>3, <1>4 DEF Links, A, B

------------------------------------------------------------------------------
(* The steps of a process, and what they make of it. *)

\* What p owes, it goes on owing.
DebtSame(p) ==
    LET r == proc[p]
        q == proc'[p]
    IN  /\ Owing(q) <=> Owing(r)
        /\ OwingDisk(q) <=> OwingDisk(r)
        /\ Owing(r) \/ OwingDisk(r) =>
              Target(q) = Target(r) /\ (q.op = "unlink" <=> r.op = "unlink")
\* The inode for it comes to the buffer cache, and to the disk, by iupdat.
WritesLess(p) ==
    /\ OwingDisk(proc[p]) /\ Updated(proc'[p]) => Updated(proc[p]) \/ Iupdat(p)
    /\ OwingDisk(proc[p]) /\ Written(proc'[p]) => Written(proc[p]) \/ Bwrite(p)
\* What p knows of its name, it knew before.
NameKept(p) ==
    LET r == proc[p]
        q == proc'[p]
    IN  /\ q.pc \in {"iread", "got", "dirremove"} =>
              /\ r.pc \in {"iread", "got", "dirremove"}
              /\ q.ip = r.ip /\ q.ino = r.ino
        /\ q.op # "make" /\ q.pc \in {"iget", "iread", "got", "dirremove"} =>
              /\ r.op # "make" /\ r.pc \in {"iget", "iread", "got", "dirremove"}
              /\ q.at = r.at /\ q.ino = r.ino
        /\ q.pc # "dirwrite"
        /\ Vacant(q) => Vacant(r) /\ q.at = r.at
LastKept(p) ==
    /\ AtLast(proc'[p]) => AtLast(proc[p]) /\ proc'[p].ip = proc[p].ip
    /\ proc'[p].pc # "ifree"
\* The file that p makes.
MakeKept(p) ==
    /\ Making(proc'[p]) => Making(proc[p]) /\ proc'[p].ino = proc[p].ino
    /\ MakesFile(proc'[p]) => MakesFile(proc[p]) /\ proc'[p].ip = proc[p].ip
    /\ proc'[p].op = "make" /\ Owing(proc'[p]) => Owing(proc[p])
EndKept(p) == Ending(proc'[p]) => Ending(proc[p]) /\ proc'[p].ip = proc[p].ip

\* The steps that are not so.
Debtor(p) ==
    \/ GotNew(p) \/ GotLink(p) \/ Direnter(p) \/ MakeFails(p) \/ DirenterDone(p)
    \/ Dirremove(p) \/ DirremoveDone(p) \/ Out(p)
Namer(p) ==
    \/ NameiFound(p) \/ NameiMake(p) \/ NameiEnter(p) \/ IgetHit(p) \/ IgetMiss(p)
    \/ Direnter(p) \/ Dirremove(p)
Laster(p) == IreleUnlinked(p) \/ Truncated(p)
Maker(p) == IalloccgTake(p) \/ GotNew(p) \/ IgetHit(p) \/ Iread(p)
Ender(p) == Ifree(p) \/ IfreeFails(p) \/ IreleLast(p)

LEMMA Moves ==
    ASSUME TypeOK, Frames, NEW p \in Procs, Step(p), CalmOK(proc[p])
    PROVE  /\ CalmOK(proc'[p])
           /\ WritesLess(p)
           /\ Debtor(p) \/ DebtSame(p)
           /\ Namer(p) \/ NameKept(p)
           /\ Laster(p) \/ LastKept(p)
           /\ Maker(p) \/ MakeKept(p)
           /\ Ender(p) \/ EndKept(p)
<1>1. /\ proc \in [Procs -> Process] /\ proc[p] \in Process /\ Frame(proc[p])
      /\ None \notin Slots /\ CalmOK(proc[p])
  BY Assumed DEF TypeOK, Frames
<1>2. \A l : At(p, l) => proc[p].pc = l
  BY DEF At
<1> DEFINE Goal ==
             /\ CalmOK(proc'[p])
             /\ WritesLess(p)
             /\ Debtor(p) \/ DebtSame(p)
             /\ Namer(p) \/ NameKept(p)
             /\ Laster(p) \/ LastKept(p)
             /\ Maker(p) \/ MakeKept(p)
             /\ Ender(p) \/ EndKept(p)
<1> SUFFICES Goal
  OBVIOUS
<1>3. ASSUME NEW fd, proc'[p] = InUser(fd), proc[p].pc # "dirwrite",
             ~Owing(proc[p])
      PROVE  Goal
  <2>1. /\ proc'[p].pc = "user" /\ proc'[p].op = "" /\ proc'[p].ret = "user"
        /\ ~proc'[p].err
    <3>1. ~InUser(fd).err
      BY DEF InUser
    <3> QED BY <1>3, <3>1, UserAt
  <2>2. ~Owing(proc'[p]) /\ ~OwingDisk(proc'[p]) /\ ~OwingDisk(proc[p])
    BY <1>3, <2>1 DEF Owing, OwingDisk
  <2>3. CalmOK(proc'[p]) /\ WritesLess(p) /\ DebtSame(p)
    BY <1>3, <2>1, <2>2 DEF CalmOK, WritesLess, DebtSame
  <2>4. NameKept(p) /\ LastKept(p)
    BY <2>1, <2>2 DEF NameKept, LastKept, Vacant, AtLast
  <2>5. MakeKept(p) /\ EndKept(p)
    BY <2>1, <2>2 DEF MakeKept, EndKept, Making, MakesFile, Ending
  <2> QED BY <2>3, <2>4, <2>5
<1>4. ASSUME proc' = proc, proc[p].pc \notin {"dirwrite", "ifree"}
      PROVE  Goal
  <2>1. CalmOK(proc'[p]) /\ WritesLess(p) /\ DebtSame(p)
    BY <1>1, <1>4 DEF WritesLess, DebtSame
  <2>2. NameKept(p) /\ LastKept(p)
    BY <1>4 DEF NameKept, LastKept
  <2>3. MakeKept(p) /\ EndKept(p)
    BY <1>4 DEF MakeKept, EndKept
  <2> QED BY <2>1, <2>2, <2>3
<1> HIDE DEF Goal
<1>5. CASE Call(p)
  <2>1. PICK op \in Calls[p], a \in Paths, b \in Paths :
          /\ op \in {"open", "creat", "link", "unlink"}
          /\ proc' = [proc EXCEPT ![p] = [@ EXCEPT !.op = op, !.at = a, !.to = b, !.pc = "namei"]]
    BY <1>5 DEF Call
  <2>2. proc[p].pc = "user"
    BY <1>2, <1>5 DEF Call
  <2>3. proc[p].op = "" /\ proc[p].ret = "user" /\ proc[p].lp = None
    BY <1>1, <2>2 DEF Frame, OpsOK, RetOK, PathOK, Ireles
  <2>4. /\ proc'[p].pc = "namei" /\ proc'[p].op = op /\ proc'[p].ret = "user"
        /\ proc'[p].err = proc[p].err
    BY <1>1, <2>1, <2>3 DEF Process
  <2>5. CalmOK(proc'[p])
    BY <1>1, <2>1, <2>2, <2>3, <2>4 DEF CalmOK, ToDisk
  <2>6. WritesLess(p)
    BY <1>1, <2>1, <2>2, <2>3, <2>4 DEF WritesLess, OwingDisk, Owing, Updated, Written, ToDisk, CalmOK
  <2>7. DebtSame(p)
    BY <1>1, <2>1, <2>2, <2>3, <2>4 DEF DebtSame, Owing, OwingDisk, Target
  <2>8. NameKept(p)
    BY <1>1, <2>1, <2>2, <2>3, <2>4 DEF NameKept, Vacant, Owing
  <2>9. LastKept(p)
    BY <1>1, <2>1, <2>2, <2>3, <2>4 DEF LastKept, AtLast
  <2>10. MakeKept(p)
    BY <1>1, <2>1, <2>2, <2>3, <2>4 DEF MakeKept, Making, MakesFile, Owing
  <2>11. EndKept(p)
    BY <1>1, <2>1, <2>2, <2>3, <2>4 DEF EndKept, Ending
  <2> QED
    BY <2>5, <2>6, <2>7, <2>8, <2>9, <2>10, <2>11 DEF Goal
<1>6. CASE NameiLocked(p) \/ CloseLocked(p) \/ IgetLocked(p) \/ GotInUse(p)
  <2>1. proc' = proc
    BY <1>6 DEF NameiLocked, CloseLocked, IgetLocked, GotInUse, SleepOn
  <2>2. proc[p].pc \notin {"dirwrite", "ifree"}
    BY <1>2, <1>6 DEF NameiLocked, CloseLocked, IgetLocked, GotInUse
  <2> QED BY <1>4, <2>1, <2>2
<1>7. CASE Sync(p)
  <2>1. PICK s \in Slots :
          proc' = [proc EXCEPT ![p] = [@ EXCEPT !.op = "sync", !.ip = s, !.then = "iput",
                                        !.pc = IF inode[s].dirty THEN "iupdat" ELSE "iput"]]
    BY <1>7 DEF Sync
  <2>2. proc[p].pc = "user"
    BY <1>2, <1>7 DEF Sync
  <2>3. proc[p].op = "" /\ proc[p].ret = "user" /\ proc[p].lp = None
    BY <1>1, <2>2 DEF Frame, OpsOK, RetOK, PathOK, Ireles
  <2>4. /\ proc'[p].pc \in {"iupdat", "iput"} /\ proc'[p].op = "sync"
        /\ proc'[p].ret = "user" /\ proc'[p].then = "iput" /\ proc'[p].err = proc[p].err
    BY <1>1, <2>1, <2>3 DEF Process
  <2>5. CalmOK(proc'[p])
    BY <1>1, <2>2, <2>3, <2>4 DEF CalmOK, ToDisk
  <2>6. WritesLess(p)
    BY <1>1, <2>2, <2>3, <2>4 DEF WritesLess, OwingDisk, Owing, Updated, Written, ToDisk, CalmOK
  <2>7. DebtSame(p)
    BY <1>1, <2>2, <2>3, <2>4 DEF DebtSame, Owing, OwingDisk, Target
  <2>8. NameKept(p)
    BY <1>1, <2>2, <2>3, <2>4 DEF NameKept, Vacant, Owing
  <2>9. LastKept(p)
    BY <1>1, <2>2, <2>3, <2>4 DEF LastKept, AtLast
  <2>10. MakeKept(p)
    BY <1>1, <2>2, <2>3, <2>4 DEF MakeKept, Making, MakesFile, Owing
  <2>11. EndKept(p)
    BY <1>1, <2>2, <2>3, <2>4 DEF EndKept, Ending
  <2> QED
    BY <2>5, <2>6, <2>7, <2>8, <2>9, <2>10, <2>11 DEF Goal
<1>8. CASE CallClose(p)
  <2>1. proc[p].pc = "user"
    BY <1>2, <1>8 DEF CallClose
  <2>2. proc[p].op = "" /\ proc[p].lp = None
    BY <1>1, <2>1 DEF Frame, OpsOK, ThenOK, RetOK, HandOK, PathOK, Lookups, Opens, Ireles
  <2>3. /\ proc'[p].pc = "close" /\ proc'[p].op = "close"
        /\ proc'[p].at = proc[p].at /\ proc'[p].ip = proc[p].ip
        /\ proc'[p].lp = proc[p].lp /\ proc'[p].fd = proc[p].fd
        /\ proc'[p].ino = proc[p].ino /\ proc'[p].err = proc[p].err
        /\ proc'[p].wait = proc[p].wait /\ proc'[p].then = proc[p].then
        /\ proc'[p].ret = proc[p].ret
    BY <1>1, <2>1, <2>2, <1>8 DEF CallClose, Go, Process
  <2>4. CalmOK(proc'[p])
    BY <1>1, <2>1, <2>2, <2>3 DEF CalmOK, ToDisk
  <2>5. WritesLess(p)
    BY <1>1, <2>1, <2>2, <2>3 DEF WritesLess, OwingDisk, Owing, Updated, Written, ToDisk, CalmOK
  <2>6. DebtSame(p)
    BY <1>1, <2>1, <2>2, <2>3 DEF DebtSame, Owing, OwingDisk, Target
  <2>7. NameKept(p)
    BY <1>1, <2>1, <2>2, <2>3 DEF NameKept, Vacant, Owing
  <2>8. LastKept(p)
    BY <1>1, <2>1, <2>2, <2>3 DEF LastKept, AtLast
  <2>9. MakeKept(p)
    BY <1>1, <2>1, <2>2, <2>3 DEF MakeKept, Making, MakesFile, Owing
  <2>10. EndKept(p)
    BY <1>1, <2>1, <2>2, <2>3 DEF EndKept, Ending
  <2> QED
    BY <1>8, <2>4, <2>5, <2>6, <2>7, <2>8, <2>9, <2>10 DEF Goal
<1>9. CASE NameiFound(p)
  <2>1. proc[p].pc = "namei"
    BY <1>2, <1>9 DEF NameiFound
  <2>2. proc[p].op # "make" /\ proc[p].at # None /\ proc[p].ret = "user"
    BY <1>1, <2>1 DEF Frame, OpsOK, ThenOK, RetOK, HandOK, PathOK, Lookups, Opens, Ireles
  <2>3. /\ proc'[p].pc = "iget" /\ proc'[p].op = proc[p].op
        /\ proc'[p].at = proc[p].at /\ proc'[p].ip = proc[p].ip
        /\ proc'[p].lp = proc[p].lp /\ proc'[p].fd = proc[p].fd
        /\ proc'[p].ino = entry[proc[p].at] /\ proc'[p].err = proc[p].err
        /\ proc'[p].wait = proc[p].wait /\ proc'[p].then = proc[p].then
        /\ proc'[p].ret = proc[p].ret
    BY <1>1, <2>1, <2>2, <1>9 DEF NameiFound, Go, Process
  <2>4. CalmOK(proc'[p])
    BY <1>1, <2>1, <2>2, <2>3 DEF CalmOK, ToDisk
  <2>5. WritesLess(p)
    BY <1>1, <2>1, <2>2, <2>3 DEF WritesLess, OwingDisk, Owing, Updated, Written, ToDisk, CalmOK
  <2>6. DebtSame(p)
    BY <1>1, <2>1, <2>2, <2>3 DEF DebtSame, Owing, OwingDisk, Target
  <2>7. LastKept(p)
    BY <1>1, <2>1, <2>2, <2>3 DEF LastKept, AtLast
  <2>8. MakeKept(p)
    BY <1>1, <2>1, <2>2, <2>3 DEF MakeKept, Making, MakesFile, Owing
  <2>9. EndKept(p)
    BY <1>1, <2>1, <2>2, <2>3 DEF EndKept, Ending
  <2> QED
    BY <1>9, <2>4, <2>5, <2>6, <2>7, <2>8, <2>9 DEF Goal, Namer
<1>10. CASE NameiFails(p)
  <2>1. proc[p].pc = "namei" /\ proc[p].op # "enter"
    BY <1>2, <1>10 DEF NameiFails
  <2>2. proc'[p] = InUser(proc[p].fd)
    BY <1>1, <1>10 DEF NameiFails
  <2>3. ~Owing(proc[p])
    BY <1>1, <2>1 DEF Owing, Frame, OpsOK, ThenOK, RetOK, HandOK, PathOK, Lookups, Opens, Ireles
  <2> QED BY <1>3, <2>1, <2>2, <2>3
<1>11. CASE NameiMake(p)
  <2>1. proc[p].pc = "namei" /\ proc[p].op = "creat"
    BY <1>2, <1>11 DEF NameiMake, NameiFree
  <2>2. proc[p].ret = "user" /\ proc[p].lp = None
    BY <1>1, <2>1 DEF Frame, OpsOK, ThenOK, RetOK, HandOK, PathOK, Lookups, Opens, Ireles
  <2>3. /\ proc'[p].pc = "ialloccg" /\ proc'[p].op = "make"
        /\ proc'[p].at = proc[p].at /\ proc'[p].ip = proc[p].ip
        /\ proc'[p].lp = proc[p].lp /\ proc'[p].fd = proc[p].fd
        /\ proc'[p].ino = proc[p].ino /\ proc'[p].err = proc[p].err
        /\ proc'[p].wait = proc[p].wait /\ proc'[p].then = proc[p].then
        /\ proc'[p].ret = proc[p].ret
    BY <1>1, <2>1, <2>2, <1>11 DEF NameiMake, NameiFree, Go, Process
  <2>4. CalmOK(proc'[p])
    BY <1>1, <2>1, <2>2, <2>3 DEF CalmOK, ToDisk
  <2>5. WritesLess(p)
    BY <1>1, <2>1, <2>2, <2>3 DEF WritesLess, OwingDisk, Owing, Updated, Written, ToDisk, CalmOK
  <2>6. DebtSame(p)
    BY <1>1, <2>1, <2>2, <2>3 DEF DebtSame, Owing, OwingDisk, Target
  <2>7. LastKept(p)
    BY <1>1, <2>1, <2>2, <2>3 DEF LastKept, AtLast
  <2>8. MakeKept(p)
    BY <1>1, <2>1, <2>2, <2>3 DEF MakeKept, Making, MakesFile, Owing
  <2>9. EndKept(p)
    BY <1>1, <2>1, <2>2, <2>3 DEF EndKept, Ending
  <2> QED
    BY <1>11, <2>4, <2>5, <2>6, <2>7, <2>8, <2>9 DEF Goal, Namer
<1>12. CASE NameiEnter(p)
  <2>1. proc[p].pc = "namei" /\ proc[p].op = "enter"
    BY <1>2, <1>12 DEF NameiEnter, NameiFree
  <2>2. proc[p].lp # None /\ proc[p].ret = "user"
    BY <1>1, <2>1 DEF Frame, OpsOK, ThenOK, RetOK, HandOK, PathOK, Lookups, Opens, Ireles
  <2>3. /\ proc'[p].pc = "direnter" /\ proc'[p].op = proc[p].op
        /\ proc'[p].at = proc[p].at /\ proc'[p].ip = proc[p].ip
        /\ proc'[p].lp = proc[p].lp /\ proc'[p].fd = proc[p].fd
        /\ proc'[p].ino = proc[p].ino /\ proc'[p].err = proc[p].err
        /\ proc'[p].wait = proc[p].wait /\ proc'[p].then = proc[p].then
        /\ proc'[p].ret = proc[p].ret
    BY <1>1, <2>1, <2>2, <1>12 DEF NameiEnter, NameiFree, Go, Process
  <2>4. CalmOK(proc'[p])
    BY <1>1, <2>1, <2>2, <2>3 DEF CalmOK, ToDisk
  <2>5. WritesLess(p)
    BY <1>1, <2>1, <2>2, <2>3 DEF WritesLess, OwingDisk, Owing, Updated, Written, ToDisk, CalmOK
  <2>6. DebtSame(p)
    BY <1>1, <2>1, <2>2, <2>3 DEF DebtSame, Owing, OwingDisk, Target
  <2>7. LastKept(p)
    BY <1>1, <2>1, <2>2, <2>3 DEF LastKept, AtLast
  <2>8. MakeKept(p)
    BY <1>1, <2>1, <2>2, <2>3 DEF MakeKept, Making, MakesFile, Owing
  <2>9. EndKept(p)
    BY <1>1, <2>1, <2>2, <2>3 DEF EndKept, Ending
  <2> QED
    BY <1>12, <2>4, <2>5, <2>6, <2>7, <2>8, <2>9 DEF Goal, Namer
<1>13. CASE IgetHit(p)
  <2>1. proc[p].pc = "iget"
    BY <1>2, <1>13 DEF IgetHit
  <2>2. proc[p].ip = None /\ proc[p].ret = "user"
    BY <1>1, <2>1 DEF Frame, OpsOK, ThenOK, RetOK, HandOK, PathOK, Lookups, Opens, Ireles
  <2>3. /\ proc'[p].pc = "got" /\ proc'[p].op = proc[p].op
        /\ proc'[p].at = proc[p].at /\ proc'[p].lp = proc[p].lp
        /\ proc'[p].fd = proc[p].fd /\ proc'[p].ino = proc[p].ino
        /\ proc'[p].err = proc[p].err /\ proc'[p].wait = proc[p].wait
        /\ proc'[p].then = proc[p].then /\ proc'[p].ret = proc[p].ret
    BY <1>1, <2>1, <2>2, <1>13 DEF IgetHit, Go, Process
  <2>4. CalmOK(proc'[p])
    BY <1>1, <2>1, <2>2, <2>3 DEF CalmOK, ToDisk
  <2>5. WritesLess(p)
    BY <1>1, <2>1, <2>2, <2>3 DEF WritesLess, OwingDisk, Owing, Updated, Written, ToDisk, CalmOK
  <2>6. DebtSame(p)
    BY <1>1, <2>1, <2>2, <2>3 DEF DebtSame, Owing, OwingDisk, Target
  <2>7. LastKept(p)
    BY <1>1, <2>1, <2>2, <2>3 DEF LastKept, AtLast
  <2>8. EndKept(p)
    BY <1>1, <2>1, <2>2, <2>3 DEF EndKept, Ending
  <2> QED
    BY <1>13, <2>4, <2>5, <2>6, <2>7, <2>8 DEF Goal, Namer, Maker
<1>14. CASE IgetFull(p)
  <2>1. proc[p].pc = "iget"
    BY <1>2, <1>14 DEF IgetFull
  <2>2. proc[p].ret = "user"
    BY <1>1, <2>1 DEF Frame, OpsOK, ThenOK, RetOK, HandOK, PathOK, Lookups, Opens, Ireles
  <2>3. /\ proc'[p].pc = "null" /\ proc'[p].op = proc[p].op
        /\ proc'[p].at = proc[p].at /\ proc'[p].ip = proc[p].ip
        /\ proc'[p].lp = proc[p].lp /\ proc'[p].fd = proc[p].fd
        /\ proc'[p].ino = proc[p].ino /\ proc'[p].err = proc[p].err
        /\ proc'[p].wait = proc[p].wait /\ proc'[p].then = proc[p].then
        /\ proc'[p].ret = proc[p].ret
    BY <1>1, <2>1, <2>2, <1>14 DEF IgetFull, Go, Process
  <2>4. CalmOK(proc'[p])
    BY <1>1, <2>1, <2>2, <2>3 DEF CalmOK, ToDisk
  <2>5. WritesLess(p)
    BY <1>1, <2>1, <2>2, <2>3 DEF WritesLess, OwingDisk, Owing, Updated, Written, ToDisk, CalmOK
  <2>6. DebtSame(p)
    BY <1>1, <2>1, <2>2, <2>3 DEF DebtSame, Owing, OwingDisk, Target
  <2>7. NameKept(p)
    BY <1>1, <2>1, <2>2, <2>3 DEF NameKept, Vacant, Owing
  <2>8. LastKept(p)
    BY <1>1, <2>1, <2>2, <2>3 DEF LastKept, AtLast
  <2>9. MakeKept(p)
    BY <1>1, <2>1, <2>2, <2>3 DEF MakeKept, Making, MakesFile, Owing
  <2>10. EndKept(p)
    BY <1>1, <2>1, <2>2, <2>3 DEF EndKept, Ending
  <2> QED
    BY <1>14, <2>4, <2>5, <2>6, <2>7, <2>8, <2>9, <2>10 DEF Goal
<1>15. CASE IgetMiss(p)
  <2>1. proc[p].pc = "iget"
    BY <1>2, <1>15 DEF IgetMiss
  <2>2. proc[p].ip = None /\ proc[p].ret = "user"
    BY <1>1, <2>1 DEF Frame, OpsOK, ThenOK, RetOK, HandOK, PathOK, Lookups, Opens, Ireles
  <2>3. /\ proc'[p].pc = "iread" /\ proc'[p].op = proc[p].op
        /\ proc'[p].at = proc[p].at /\ proc'[p].lp = proc[p].lp
        /\ proc'[p].fd = proc[p].fd /\ proc'[p].ino = proc[p].ino
        /\ proc'[p].err = proc[p].err /\ proc'[p].wait = proc[p].wait
        /\ proc'[p].then = proc[p].then /\ proc'[p].ret = proc[p].ret
    BY <1>1, <2>1, <2>2, <1>15 DEF IgetMiss, Go, Process
  <2>4. CalmOK(proc'[p])
    BY <1>1, <2>1, <2>2, <2>3 DEF CalmOK, ToDisk
  <2>5. WritesLess(p)
    BY <1>1, <2>1, <2>2, <2>3 DEF WritesLess, OwingDisk, Owing, Updated, Written, ToDisk, CalmOK
  <2>6. DebtSame(p)
    BY <1>1, <2>1, <2>2, <2>3 DEF DebtSame, Owing, OwingDisk, Target
  <2>7. LastKept(p)
    BY <1>1, <2>1, <2>2, <2>3 DEF LastKept, AtLast
  <2>8. MakeKept(p)
    BY <1>1, <2>1, <2>2, <2>3 DEF MakeKept, Making, MakesFile, Owing
  <2>9. EndKept(p)
    BY <1>1, <2>1, <2>2, <2>3 DEF EndKept, Ending
  <2> QED
    BY <1>15, <2>4, <2>5, <2>6, <2>7, <2>8, <2>9 DEF Goal, Namer
<1>16. CASE Iread(p)
  <2>1. proc[p].pc = "iread"
    BY <1>2, <1>16 DEF Iread
  <2>2. proc[p].ret = "user"
    BY <1>1, <2>1 DEF Frame, OpsOK, ThenOK, RetOK, HandOK, PathOK, Lookups, Opens, Ireles
  <2>3. /\ proc'[p].pc = "got" /\ proc'[p].op = proc[p].op
        /\ proc'[p].at = proc[p].at /\ proc'[p].ip = proc[p].ip
        /\ proc'[p].lp = proc[p].lp /\ proc'[p].fd = proc[p].fd
        /\ proc'[p].ino = proc[p].ino /\ proc'[p].err = proc[p].err
        /\ proc'[p].wait = proc[p].wait /\ proc'[p].then = proc[p].then
        /\ proc'[p].ret = proc[p].ret
    BY <1>1, <2>1, <2>2, <1>16 DEF Iread, Go, Process
  <2>4. CalmOK(proc'[p])
    BY <1>1, <2>1, <2>2, <2>3 DEF CalmOK, ToDisk
  <2>5. WritesLess(p)
    BY <1>1, <2>1, <2>2, <2>3 DEF WritesLess, OwingDisk, Owing, Updated, Written, ToDisk, CalmOK
  <2>6. DebtSame(p)
    BY <1>1, <2>1, <2>2, <2>3 DEF DebtSame, Owing, OwingDisk, Target
  <2>7. NameKept(p)
    BY <1>1, <2>1, <2>2, <2>3 DEF NameKept, Vacant, Owing
  <2>8. LastKept(p)
    BY <1>1, <2>1, <2>2, <2>3 DEF LastKept, AtLast
  <2>9. EndKept(p)
    BY <1>1, <2>1, <2>2, <2>3 DEF EndKept, Ending
  <2> QED
    BY <1>16, <2>4, <2>5, <2>6, <2>7, <2>8, <2>9 DEF Goal, Maker
<1>17. CASE IreadFails(p)
  <2>1. proc[p].pc = "iread"
    BY <1>2, <1>17 DEF IreadFails
  <2>2. proc[p].op = "enter" => proc[p].lp # None
    BY <1>1, <2>1 DEF Frame, OpsOK, ThenOK, RetOK, HandOK, PathOK, Lookups, Opens, Ireles
  <2>3. /\ proc'[p].pc = "irele" /\ proc'[p].op = proc[p].op
        /\ proc'[p].at = proc[p].at /\ proc'[p].ip = proc[p].ip
        /\ proc'[p].lp = proc[p].lp /\ proc'[p].fd = proc[p].fd
        /\ proc'[p].ino = proc[p].ino /\ proc'[p].err = proc[p].err
        /\ proc'[p].wait = proc[p].wait /\ proc'[p].then = proc[p].then
        /\ proc'[p].ret = "null"
    BY <1>1, <2>1, <2>2, <1>17 DEF IreadFails, Go, Process
  <2>4. CalmOK(proc'[p])
    BY <1>1, <2>1, <2>2, <2>3 DEF CalmOK, ToDisk
  <2>5. WritesLess(p)
    BY <1>1, <2>1, <2>2, <2>3 DEF WritesLess, OwingDisk, Owing, Updated, Written, ToDisk, CalmOK
  <2>6. DebtSame(p)
    BY <1>1, <2>1, <2>2, <2>3 DEF DebtSame, Owing, OwingDisk, Target
  <2>7. NameKept(p)
    BY <1>1, <2>1, <2>2, <2>3 DEF NameKept, Vacant, Owing
  <2>8. LastKept(p)
    BY <1>1, <2>1, <2>2, <2>3 DEF LastKept, AtLast
  <2>9. MakeKept(p)
    BY <1>1, <2>1, <2>2, <2>3 DEF MakeKept, Making, MakesFile, Owing
  <2>10. EndKept(p)
    BY <1>1, <2>1, <2>2, <2>3 DEF EndKept, Ending
  <2> QED
    BY <1>17, <2>4, <2>5, <2>6, <2>7, <2>8, <2>9, <2>10 DEF Goal
<1>18. CASE GotOpen(p)
  <2>1. proc[p].pc = "got" /\ proc[p].op \in {"open", "creat"}
    BY <1>2, <1>18 DEF GotOpen
  <2>2. proc[p].ret = "user"
    BY <1>1, <2>1 DEF Frame, OpsOK, ThenOK, RetOK, HandOK, PathOK, Lookups, Opens, Ireles
  <2>3. /\ proc'[p].pc = "opened" /\ proc'[p].op = proc[p].op
        /\ proc'[p].at = proc[p].at /\ proc'[p].ip = proc[p].ip
        /\ proc'[p].lp = proc[p].lp /\ proc'[p].fd = proc[p].fd
        /\ proc'[p].ino = proc[p].ino /\ proc'[p].err = proc[p].err
        /\ proc'[p].wait = proc[p].wait /\ proc'[p].then = proc[p].then
        /\ proc'[p].ret = proc[p].ret
    BY <1>1, <2>1, <2>2, <1>18 DEF GotOpen, Go, Process
  <2>4. CalmOK(proc'[p])
    BY <1>1, <2>1, <2>2, <2>3 DEF CalmOK, ToDisk
  <2>5. WritesLess(p)
    BY <1>1, <2>1, <2>2, <2>3 DEF WritesLess, OwingDisk, Owing, Updated, Written, ToDisk, CalmOK
  <2>6. DebtSame(p)
    BY <1>1, <2>1, <2>2, <2>3 DEF DebtSame, Owing, OwingDisk, Target
  <2>7. NameKept(p)
    BY <1>1, <2>1, <2>2, <2>3 DEF NameKept, Vacant, Owing
  <2>8. LastKept(p)
    BY <1>1, <2>1, <2>2, <2>3 DEF LastKept, AtLast
  <2>9. MakeKept(p)
    BY <1>1, <2>1, <2>2, <2>3 DEF MakeKept, Making, MakesFile, Owing
  <2>10. EndKept(p)
    BY <1>1, <2>1, <2>2, <2>3 DEF EndKept, Ending
  <2> QED
    BY <1>18, <2>4, <2>5, <2>6, <2>7, <2>8, <2>9, <2>10 DEF Goal
<1>19. CASE GotLink(p)
  <2>1. proc[p].pc = "got" /\ proc[p].op = "link"
    BY <1>2, <1>19 DEF GotLink
  <2>2. proc[p].ret = "user"
    BY <1>1, <2>1 DEF Frame, OpsOK, ThenOK, RetOK, HandOK, PathOK, Lookups, Opens, Ireles
  <2>3. /\ proc'[p].pc = "iupdat" /\ proc'[p].op = proc[p].op
        /\ proc'[p].at = proc[p].at /\ proc'[p].ip = proc[p].ip
        /\ proc'[p].lp = proc[p].lp /\ proc'[p].fd = proc[p].fd
        /\ proc'[p].ino = proc[p].ino /\ proc'[p].err = proc[p].err
        /\ proc'[p].wait = TRUE /\ proc'[p].then = "linked"
        /\ proc'[p].ret = proc[p].ret
    BY <1>1, <2>1, <2>2, <1>19 DEF GotLink, Go, Process
  <2>4. CalmOK(proc'[p])
    BY <1>1, <2>1, <2>2, <2>3 DEF CalmOK, ToDisk
  <2>5. WritesLess(p)
    BY <1>1, <2>1, <2>2, <2>3 DEF WritesLess, OwingDisk, Owing, Updated, Written, ToDisk, CalmOK
  <2>6. NameKept(p)
    BY <1>1, <2>1, <2>2, <2>3 DEF NameKept, Vacant, Owing
  <2>7. LastKept(p)
    BY <1>1, <2>1, <2>2, <2>3 DEF LastKept, AtLast
  <2>8. MakeKept(p)
    BY <1>1, <2>1, <2>2, <2>3 DEF MakeKept, Making, MakesFile, Owing
  <2>9. EndKept(p)
    BY <1>1, <2>1, <2>2, <2>3 DEF EndKept, Ending
  <2> QED
    BY <1>19, <2>4, <2>5, <2>6, <2>7, <2>8, <2>9 DEF Goal, Debtor
<1>20. CASE GotExisting(p)
  <2>1. proc[p].pc = "got" /\ proc[p].op = "enter"
    BY <1>2, <1>20 DEF GotExisting
  <2>2. proc[p].lp # None /\ proc[p].ret = "user"
    BY <1>1, <2>1 DEF Frame, OpsOK, ThenOK, RetOK, HandOK, PathOK, Lookups, Opens, Ireles
  <2>3. /\ proc'[p].pc = "irele" /\ proc'[p].op = proc[p].op
        /\ proc'[p].at = proc[p].at /\ proc'[p].ip = proc[p].ip
        /\ proc'[p].lp = proc[p].lp /\ proc'[p].fd = proc[p].fd
        /\ proc'[p].ino = proc[p].ino /\ proc'[p].err = TRUE
        /\ proc'[p].wait = proc[p].wait /\ proc'[p].then = proc[p].then
        /\ proc'[p].ret = "out"
    BY <1>1, <2>1, <2>2, <1>20 DEF GotExisting, Go, Process
  <2>4. CalmOK(proc'[p])
    BY <1>1, <2>1, <2>2, <2>3 DEF CalmOK, ToDisk
  <2>5. WritesLess(p)
    BY <1>1, <2>1, <2>2, <2>3 DEF WritesLess, OwingDisk, Owing, Updated, Written, ToDisk, CalmOK
  <2>6. DebtSame(p)
    BY <1>1, <2>1, <2>2, <2>3 DEF DebtSame, Owing, OwingDisk, Target
  <2>7. NameKept(p)
    BY <1>1, <2>1, <2>2, <2>3 DEF NameKept, Vacant, Owing
  <2>8. LastKept(p)
    BY <1>1, <2>1, <2>2, <2>3 DEF LastKept, AtLast
  <2>9. MakeKept(p)
    BY <1>1, <2>1, <2>2, <2>3 DEF MakeKept, Making, MakesFile, Owing
  <2>10. EndKept(p)
    BY <1>1, <2>1, <2>2, <2>3 DEF EndKept, Ending
  <2> QED
    BY <1>20, <2>4, <2>5, <2>6, <2>7, <2>8, <2>9, <2>10 DEF Goal
<1>21. CASE GotUnlink(p)
  <2>1. proc[p].pc = "got" /\ proc[p].op = "unlink"
    BY <1>2, <1>21 DEF GotUnlink
  <2>2. proc[p].ret = "user"
    BY <1>1, <2>1 DEF Frame, OpsOK, ThenOK, RetOK, HandOK, PathOK, Lookups, Opens, Ireles
  <2>3. /\ proc'[p].pc = "dirremove" /\ proc'[p].op = proc[p].op
        /\ proc'[p].at = proc[p].at /\ proc'[p].ip = proc[p].ip
        /\ proc'[p].lp = proc[p].lp /\ proc'[p].fd = proc[p].fd
        /\ proc'[p].ino = proc[p].ino /\ proc'[p].err = proc[p].err
        /\ proc'[p].wait = proc[p].wait /\ proc'[p].then = proc[p].then
        /\ proc'[p].ret = proc[p].ret
    BY <1>1, <2>1, <2>2, <1>21 DEF GotUnlink, Go, Process
  <2>4. CalmOK(proc'[p])
    BY <1>1, <2>1, <2>2, <2>3 DEF CalmOK, ToDisk
  <2>5. WritesLess(p)
    BY <1>1, <2>1, <2>2, <2>3 DEF WritesLess, OwingDisk, Owing, Updated, Written, ToDisk, CalmOK
  <2>6. DebtSame(p)
    BY <1>1, <2>1, <2>2, <2>3 DEF DebtSame, Owing, OwingDisk, Target
  <2>7. NameKept(p)
    BY <1>1, <2>1, <2>2, <2>3 DEF NameKept, Vacant, Owing
  <2>8. LastKept(p)
    BY <1>1, <2>1, <2>2, <2>3 DEF LastKept, AtLast
  <2>9. MakeKept(p)
    BY <1>1, <2>1, <2>2, <2>3 DEF MakeKept, Making, MakesFile, Owing
  <2>10. EndKept(p)
    BY <1>1, <2>1, <2>2, <2>3 DEF EndKept, Ending
  <2> QED
    BY <1>21, <2>4, <2>5, <2>6, <2>7, <2>8, <2>9, <2>10 DEF Goal
<1>22. CASE GotNew(p)
  <2>1. proc[p].pc = "got" /\ proc[p].op = "make"
    BY <1>2, <1>22 DEF GotNew
  <2>2. proc[p].ret = "user"
    BY <1>1, <2>1 DEF Frame, OpsOK, ThenOK, RetOK, HandOK, PathOK, Lookups, Opens, Ireles
  <2>3. /\ proc'[p].pc = "iupdat" /\ proc'[p].op = proc[p].op
        /\ proc'[p].at = proc[p].at /\ proc'[p].ip = proc[p].ip
        /\ proc'[p].lp = proc[p].lp /\ proc'[p].fd = proc[p].fd
        /\ proc'[p].ino = proc[p].ino /\ proc'[p].err = proc[p].err
        /\ proc'[p].wait = TRUE /\ proc'[p].then = "direnter"
        /\ proc'[p].ret = proc[p].ret
    BY <1>1, <2>1, <2>2, <1>22 DEF GotNew, Go, Process
  <2>4. CalmOK(proc'[p])
    BY <1>1, <2>1, <2>2, <2>3 DEF CalmOK, ToDisk
  <2>5. WritesLess(p)
    BY <1>1, <2>1, <2>2, <2>3 DEF WritesLess, OwingDisk, Owing, Updated, Written, ToDisk, CalmOK
  <2>6. NameKept(p)
    BY <1>1, <2>1, <2>2, <2>3 DEF NameKept, Vacant, Owing
  <2>7. LastKept(p)
    BY <1>1, <2>1, <2>2, <2>3 DEF LastKept, AtLast
  <2>8. EndKept(p)
    BY <1>1, <2>1, <2>2, <2>3 DEF EndKept, Ending
  <2> QED
    BY <1>22, <2>4, <2>5, <2>6, <2>7, <2>8 DEF Goal, Debtor, Maker
<1>23. CASE MakeNull(p)
  <2>1. proc[p].pc = "null" /\ proc[p].op = "make"
    BY <1>2, <1>23 DEF MakeNull
  <2>2. proc[p].ret = "user"
    BY <1>1, <2>1 DEF Frame, OpsOK, ThenOK, RetOK, HandOK, PathOK, Lookups, Opens, Ireles
  <2>3. /\ proc'[p].pc = "ifreeino" /\ proc'[p].op = proc[p].op
        /\ proc'[p].at = proc[p].at /\ proc'[p].ip = proc[p].ip
        /\ proc'[p].lp = proc[p].lp /\ proc'[p].fd = proc[p].fd
        /\ proc'[p].ino = proc[p].ino /\ proc'[p].err = proc[p].err
        /\ proc'[p].wait = proc[p].wait /\ proc'[p].then = proc[p].then
        /\ proc'[p].ret = proc[p].ret
    BY <1>1, <2>1, <2>2, <1>23 DEF MakeNull, Go, Process
  <2>4. CalmOK(proc'[p])
    BY <1>1, <2>1, <2>2, <2>3 DEF CalmOK, ToDisk
  <2>5. WritesLess(p)
    BY <1>1, <2>1, <2>2, <2>3 DEF WritesLess, OwingDisk, Owing, Updated, Written, ToDisk, CalmOK
  <2>6. DebtSame(p)
    BY <1>1, <2>1, <2>2, <2>3 DEF DebtSame, Owing, OwingDisk, Target
  <2>7. NameKept(p)
    BY <1>1, <2>1, <2>2, <2>3 DEF NameKept, Vacant, Owing
  <2>8. LastKept(p)
    BY <1>1, <2>1, <2>2, <2>3 DEF LastKept, AtLast
  <2>9. MakeKept(p)
    BY <1>1, <2>1, <2>2, <2>3 DEF MakeKept, Making, MakesFile, Owing
  <2>10. EndKept(p)
    BY <1>1, <2>1, <2>2, <2>3 DEF EndKept, Ending
  <2> QED
    BY <1>23, <2>4, <2>5, <2>6, <2>7, <2>8, <2>9, <2>10 DEF Goal
<1>24. CASE Opened(p)
  <2>1. proc[p].pc = "opened"
    BY <1>2, <1>24 DEF Opened
  <2>2. /\ proc'[p].pc = "granted" /\ proc'[p].op = proc[p].op
        /\ proc'[p].at = proc[p].at /\ proc'[p].ip = proc[p].ip
        /\ proc'[p].lp = proc[p].lp /\ proc'[p].fd = proc[p].fd
        /\ proc'[p].ino = proc[p].ino /\ proc'[p].err = proc[p].err
        /\ proc'[p].wait = proc[p].wait /\ proc'[p].then = proc[p].then
        /\ proc'[p].ret = proc[p].ret
    BY <1>1, <2>1, <1>24 DEF Opened, Go, Process
  <2>3. CalmOK(proc'[p])
    BY <1>1, <2>1, <2>2 DEF CalmOK, ToDisk
  <2>4. WritesLess(p)
    BY <1>1, <2>1, <2>2 DEF WritesLess, OwingDisk, Owing, Updated, Written, ToDisk, CalmOK
  <2>5. DebtSame(p)
    BY <1>1, <2>1, <2>2 DEF DebtSame, Owing, OwingDisk, Target
  <2>6. NameKept(p)
    BY <1>1, <2>1, <2>2 DEF NameKept, Vacant, Owing
  <2>7. LastKept(p)
    BY <1>1, <2>1, <2>2 DEF LastKept, AtLast
  <2>8. MakeKept(p)
    BY <1>1, <2>1, <2>2 DEF MakeKept, Making, MakesFile, Owing
  <2>9. EndKept(p)
    BY <1>1, <2>1, <2>2 DEF EndKept, Ending
  <2> QED
    BY <1>24, <2>3, <2>4, <2>5, <2>6, <2>7, <2>8, <2>9 DEF Goal
<1>25. CASE OpenedOld(p)
  <2>1. proc[p].pc = "opened" /\ proc[p].op = "creat"
    BY <1>2, <1>25 DEF OpenedOld
  <2>2. proc[p].ret = "user"
    BY <1>1, <2>1 DEF Frame, OpsOK, ThenOK, RetOK, HandOK, PathOK, Lookups, Opens, Ireles
  <2>3. /\ proc'[p].pc = "iupdat" /\ proc'[p].op = proc[p].op
        /\ proc'[p].at = proc[p].at /\ proc'[p].ip = proc[p].ip
        /\ proc'[p].lp = proc[p].lp /\ proc'[p].fd = proc[p].fd
        /\ proc'[p].ino = proc[p].ino /\ proc'[p].err = proc[p].err
        /\ proc'[p].wait = TRUE /\ proc'[p].then = "granted"
        /\ proc'[p].ret = proc[p].ret
    BY <1>1, <2>1, <2>2, <1>25 DEF OpenedOld, Go, Process
  <2>4. CalmOK(proc'[p])
    BY <1>1, <2>1, <2>2, <2>3 DEF CalmOK, ToDisk
  <2>5. WritesLess(p)
    BY <1>1, <2>1, <2>2, <2>3 DEF WritesLess, OwingDisk, Owing, Updated, Written, ToDisk, CalmOK
  <2>6. DebtSame(p)
    BY <1>1, <2>1, <2>2, <2>3 DEF DebtSame, Owing, OwingDisk, Target
  <2>7. NameKept(p)
    BY <1>1, <2>1, <2>2, <2>3 DEF NameKept, Vacant, Owing
  <2>8. LastKept(p)
    BY <1>1, <2>1, <2>2, <2>3 DEF LastKept, AtLast
  <2>9. MakeKept(p)
    BY <1>1, <2>1, <2>2, <2>3 DEF MakeKept, Making, MakesFile, Owing
  <2>10. EndKept(p)
    BY <1>1, <2>1, <2>2, <2>3 DEF EndKept, Ending
  <2> QED
    BY <1>25, <2>4, <2>5, <2>6, <2>7, <2>8, <2>9, <2>10 DEF Goal
<1>26. CASE OpenedFails(p)
  <2>1. proc[p].pc = "opened"
    BY <1>2, <1>26 DEF OpenedFails
  <2>2. proc[p].ret = "user"
    BY <1>1, <2>1 DEF Frame, OpsOK, ThenOK, RetOK, HandOK, PathOK, Lookups, Opens, Ireles
  <2>3. /\ proc'[p].pc = "iput" /\ proc'[p].op = proc[p].op
        /\ proc'[p].at = proc[p].at /\ proc'[p].ip = proc[p].ip
        /\ proc'[p].lp = proc[p].lp /\ proc'[p].fd = proc[p].fd
        /\ proc'[p].ino = proc[p].ino /\ proc'[p].err = proc[p].err
        /\ proc'[p].wait = proc[p].wait /\ proc'[p].then = proc[p].then
        /\ proc'[p].ret = proc[p].ret
    BY <1>1, <2>1, <2>2, <1>26 DEF OpenedFails, Go, Process
  <2>4. CalmOK(proc'[p])
    BY <1>1, <2>1, <2>2, <2>3 DEF CalmOK, ToDisk
  <2>5. WritesLess(p)
    BY <1>1, <2>1, <2>2, <2>3 DEF WritesLess, OwingDisk, Owing, Updated, Written, ToDisk, CalmOK
  <2>6. DebtSame(p)
    BY <1>1, <2>1, <2>2, <2>3 DEF DebtSame, Owing, OwingDisk, Target
  <2>7. NameKept(p)
    BY <1>1, <2>1, <2>2, <2>3 DEF NameKept, Vacant, Owing
  <2>8. LastKept(p)
    BY <1>1, <2>1, <2>2, <2>3 DEF LastKept, AtLast
  <2>9. MakeKept(p)
    BY <1>1, <2>1, <2>2, <2>3 DEF MakeKept, Making, MakesFile, Owing
  <2>10. EndKept(p)
    BY <1>1, <2>1, <2>2, <2>3 DEF EndKept, Ending
  <2> QED
    BY <1>26, <2>4, <2>5, <2>6, <2>7, <2>8, <2>9, <2>10 DEF Goal
<1>27. CASE Granted(p)
  <2>1. proc[p].pc = "granted"
    BY <1>2, <1>27 DEF Granted
  <2>2. proc'[p] = InUser(proc[p].ip)
    BY <1>1, <1>27 DEF Granted
  <2>3. ~Owing(proc[p])
    BY <1>1, <2>1 DEF Owing, Frame, OpsOK, ThenOK, RetOK, HandOK, PathOK, Lookups, Opens, Ireles
  <2> QED BY <1>3, <2>1, <2>2, <2>3
<1>28. CASE Linked(p)
  <2>1. proc[p].pc = "linked"
    BY <1>2, <1>28 DEF Linked
  <2>2. proc[p].op = "link" /\ proc[p].ip # None /\ proc[p].ret = "user"
    BY <1>1, <2>1 DEF Frame, OpsOK, ThenOK, RetOK, HandOK, PathOK, Lookups, Opens, Ireles
  <2>3. /\ proc'[p].pc = (IF proc[p].err THEN "out" ELSE "namei")
        /\ proc'[p].op = "enter" /\ proc'[p].at = proc[p].to /\ proc'[p].ip = None
        /\ proc'[p].lp = proc[p].ip /\ proc'[p].fd = proc[p].fd
        /\ proc'[p].ino = proc[p].ino /\ proc'[p].err = proc[p].err
        /\ proc'[p].wait = proc[p].wait /\ proc'[p].then = proc[p].then
        /\ proc'[p].ret = proc[p].ret
    BY <1>1, <2>1, <2>2, <1>28 DEF Linked, Go, Process
  <2>4. CalmOK(proc'[p])
    BY <1>1, <2>1, <2>2, <2>3 DEF CalmOK, ToDisk
  <2>5. WritesLess(p)
    BY <1>1, <2>1, <2>2, <2>3 DEF WritesLess, OwingDisk, Owing, Updated, Written, ToDisk, CalmOK
  <2>6. DebtSame(p)
    BY <1>1, <2>1, <2>2, <2>3 DEF DebtSame, Owing, OwingDisk, Target
  <2>7. NameKept(p)
    BY <1>1, <2>1, <2>2, <2>3 DEF NameKept, Vacant, Owing
  <2>8. LastKept(p)
    BY <1>1, <2>1, <2>2, <2>3 DEF LastKept, AtLast
  <2>9. MakeKept(p)
    BY <1>1, <2>1, <2>2, <2>3 DEF MakeKept, Making, MakesFile, Owing
  <2>10. EndKept(p)
    BY <1>1, <2>1, <2>2, <2>3 DEF EndKept, Ending
  <2> QED
    BY <1>28, <2>4, <2>5, <2>6, <2>7, <2>8, <2>9, <2>10 DEF Goal
<1>29. CASE Out(p)
  <2>1. proc[p].pc = "out"
    BY <1>2, <1>29 DEF Out
  <2>2. proc[p].op = "enter" /\ proc[p].lp # None /\ proc[p].ret = "user"
    BY <1>1, <2>1 DEF Frame, OpsOK, ThenOK, RetOK, HandOK, PathOK, Lookups, Opens, Ireles
  <2>3. /\ proc'[p].pc = "irele" /\ proc'[p].op = proc[p].op
        /\ proc'[p].at = proc[p].at /\ proc'[p].ip = proc[p].lp
        /\ proc'[p].lp = None /\ proc'[p].fd = proc[p].fd
        /\ proc'[p].ino = proc[p].ino /\ proc'[p].err = proc[p].err
        /\ proc'[p].wait = proc[p].wait /\ proc'[p].then = proc[p].then
        /\ proc'[p].ret = "user"
    BY <1>1, <2>1, <2>2, <1>29 DEF Out, Go, Process
  <2>4. CalmOK(proc'[p])
    BY <1>1, <2>1, <2>2, <2>3 DEF CalmOK, ToDisk
  <2>5. WritesLess(p)
    BY <1>1, <2>1, <2>2, <2>3 DEF WritesLess, OwingDisk, Owing, Updated, Written, ToDisk, CalmOK
  <2>6. NameKept(p)
    BY <1>1, <2>1, <2>2, <2>3 DEF NameKept, Vacant, Owing
  <2>7. LastKept(p)
    BY <1>1, <2>1, <2>2, <2>3 DEF LastKept, AtLast
  <2>8. MakeKept(p)
    BY <1>1, <2>1, <2>2, <2>3 DEF MakeKept, Making, MakesFile, Owing
  <2>9. EndKept(p)
    BY <1>1, <2>1, <2>2, <2>3 DEF EndKept, Ending
  <2> QED
    BY <1>29, <2>4, <2>5, <2>6, <2>7, <2>8, <2>9 DEF Goal, Debtor
<1>30. CASE IalloccgNone(p)
  <2>1. proc[p].pc = "ialloccg"
    BY <1>2, <1>30 DEF IalloccgNone, NoInode
  <2>2. proc'[p] = InUser(proc[p].fd)
    BY <1>1, <1>30 DEF IalloccgNone, NoInode
  <2>3. ~Owing(proc[p])
    BY <1>1, <2>1 DEF Owing, Frame, OpsOK, ThenOK, RetOK, HandOK, PathOK, Lookups, Opens, Ireles
  <2> QED BY <1>3, <2>1, <2>2, <2>3
<1>31. CASE IalloccgFails(p)
  <2>1. proc[p].pc = "ialloccg"
    BY <1>2, <1>31 DEF IalloccgFails, NoInode
  <2>2. proc'[p] = InUser(proc[p].fd)
    BY <1>1, <1>31 DEF IalloccgFails, NoInode
  <2>3. ~Owing(proc[p])
    BY <1>1, <2>1 DEF Owing, Frame, OpsOK, ThenOK, RetOK, HandOK, PathOK, Lookups, Opens, Ireles
  <2> QED BY <1>3, <2>1, <2>2, <2>3
<1>32. CASE Ifreeino(p)
  <2>1. proc[p].pc = "ifreeino"
    BY <1>2, <1>32 DEF Ifreeino, NoInode
  <2>2. proc'[p] = InUser(proc[p].fd)
    BY <1>1, <1>32 DEF Ifreeino, NoInode
  <2>3. ~Owing(proc[p])
    BY <1>1, <2>1 DEF Owing, Frame, OpsOK, ThenOK, RetOK, HandOK, PathOK, Lookups, Opens, Ireles
  <2> QED BY <1>3, <2>1, <2>2, <2>3
<1>33. CASE Undir(p)
  <2>1. proc[p].pc = "undir"
    BY <1>2, <1>33 DEF Undir
  <2>2. proc'[p] = InUser(proc[p].fd)
    BY <1>1, <1>33 DEF Undir
  <2>3. ~Owing(proc[p])
    BY <1>1, <2>1 DEF Owing, Frame, OpsOK, ThenOK, RetOK, HandOK, PathOK, Lookups, Opens, Ireles
  <2> QED BY <1>3, <2>1, <2>2, <2>3
<1>34. CASE Direnter(p)
  <2>1. proc[p].pc = "direnter" /\ ~proc[p].err
    BY <1>2, <1>34 DEF Direnter
  <2>2. /\ proc[p].op \in {"make", "enter"}
        /\ (proc[p].op = "enter" => proc[p].lp # None) /\ proc[p].ret = "user"
    BY <1>1, <2>1 DEF Frame, OpsOK, ThenOK, RetOK, HandOK, PathOK, Lookups, Opens, Ireles
  <2>3. /\ proc'[p].pc = "dirwrite" /\ proc'[p].op = proc[p].op
        /\ proc'[p].at = proc[p].at /\ proc'[p].ip = proc[p].ip
        /\ proc'[p].lp = proc[p].lp /\ proc'[p].fd = proc[p].fd
        /\ proc'[p].ino = proc[p].ino /\ proc'[p].err = proc[p].err
        /\ proc'[p].wait = proc[p].wait /\ proc'[p].then = proc[p].then
        /\ proc'[p].ret = proc[p].ret
    BY <1>1, <2>1, <2>2, <1>34 DEF Direnter, Go, Process
  <2>4. CalmOK(proc'[p])
    BY <1>1, <2>1, <2>2, <2>3 DEF CalmOK, ToDisk
  <2>5. WritesLess(p)
    BY <1>1, <2>1, <2>2, <2>3 DEF WritesLess, OwingDisk, Owing, Updated, Written, ToDisk, CalmOK
  <2>6. LastKept(p)
    BY <1>1, <2>1, <2>2, <2>3 DEF LastKept, AtLast
  <2>7. MakeKept(p)
    BY <1>1, <2>1, <2>2, <2>3 DEF MakeKept, Making, MakesFile, Owing
  <2>8. EndKept(p)
    BY <1>1, <2>1, <2>2, <2>3 DEF EndKept, Ending
  <2> QED
    BY <1>34, <2>4, <2>5, <2>6, <2>7, <2>8 DEF Goal, Debtor, Namer
<1>35. CASE MakeFails(p)
  <2>1. proc[p].pc = "direnter" /\ proc[p].op = "make"
    BY <1>2, <1>35 DEF MakeFails, DirenterFails
  <2>2. proc[p].ret = "user"
    BY <1>1, <2>1 DEF Frame, OpsOK, ThenOK, RetOK, HandOK, PathOK, Lookups, Opens, Ireles
  <2>3. /\ proc'[p].pc = "irele" /\ proc'[p].op = proc[p].op
        /\ proc'[p].at = proc[p].at /\ proc'[p].ip = proc[p].ip
        /\ proc'[p].lp = proc[p].lp /\ proc'[p].fd = proc[p].fd
        /\ proc'[p].ino = proc[p].ino /\ proc'[p].err = proc[p].err
        /\ proc'[p].wait = proc[p].wait /\ proc'[p].then = proc[p].then
        /\ proc'[p].ret = proc[p].ret
    BY <1>1, <2>1, <2>2, <1>35 DEF MakeFails, DirenterFails, Go, Process
  <2>4. CalmOK(proc'[p])
    BY <1>1, <2>1, <2>2, <2>3 DEF CalmOK, ToDisk
  <2>5. WritesLess(p)
    BY <1>1, <2>1, <2>2, <2>3 DEF WritesLess, OwingDisk, Owing, Updated, Written, ToDisk, CalmOK
  <2>6. NameKept(p)
    BY <1>1, <2>1, <2>2, <2>3 DEF NameKept, Vacant, Owing
  <2>7. LastKept(p)
    BY <1>1, <2>1, <2>2, <2>3 DEF LastKept, AtLast
  <2>8. MakeKept(p)
    BY <1>1, <2>1, <2>2, <2>3 DEF MakeKept, Making, MakesFile, Owing
  <2>9. EndKept(p)
    BY <1>1, <2>1, <2>2, <2>3 DEF EndKept, Ending
  <2> QED
    BY <1>35, <2>4, <2>5, <2>6, <2>7, <2>8, <2>9 DEF Goal, Debtor
<1>36. CASE EnterFails(p)
  <2>1. proc[p].pc = "direnter" /\ proc[p].op = "enter"
    BY <1>2, <1>36 DEF EnterFails, DirenterFails
  <2>2. proc[p].lp # None /\ proc[p].ret = "user"
    BY <1>1, <2>1 DEF Frame, OpsOK, ThenOK, RetOK, HandOK, PathOK, Lookups, Opens, Ireles
  <2>3. /\ proc'[p].pc = "out" /\ proc'[p].op = proc[p].op
        /\ proc'[p].at = proc[p].at /\ proc'[p].ip = proc[p].ip
        /\ proc'[p].lp = proc[p].lp /\ proc'[p].fd = proc[p].fd
        /\ proc'[p].ino = proc[p].ino /\ proc'[p].err = TRUE
        /\ proc'[p].wait = proc[p].wait /\ proc'[p].then = proc[p].then
        /\ proc'[p].ret = proc[p].ret
    BY <1>1, <2>1, <2>2, <1>36 DEF EnterFails, DirenterFails, Go, Process
  <2>4. CalmOK(proc'[p])
    BY <1>1, <2>1, <2>2, <2>3 DEF CalmOK, ToDisk
  <2>5. WritesLess(p)
    BY <1>1, <2>1, <2>2, <2>3 DEF WritesLess, OwingDisk, Owing, Updated, Written, ToDisk, CalmOK
  <2>6. DebtSame(p)
    BY <1>1, <2>1, <2>2, <2>3 DEF DebtSame, Owing, OwingDisk, Target
  <2>7. NameKept(p)
    BY <1>1, <2>1, <2>2, <2>3 DEF NameKept, Vacant, Owing
  <2>8. LastKept(p)
    BY <1>1, <2>1, <2>2, <2>3 DEF LastKept, AtLast
  <2>9. MakeKept(p)
    BY <1>1, <2>1, <2>2, <2>3 DEF MakeKept, Making, MakesFile, Owing
  <2>10. EndKept(p)
    BY <1>1, <2>1, <2>2, <2>3 DEF EndKept, Ending
  <2> QED
    BY <1>36, <2>4, <2>5, <2>6, <2>7, <2>8, <2>9, <2>10 DEF Goal
<1>37. CASE DirenterDone(p)
  <2>1. proc[p].pc = "dirwrite" /\ proc[p].op \in {"make", "enter"}
    BY <1>2, <1>37 DEF DirenterDone, Dirwrite
  <2>2. proc[p].ret = "user"
    BY <1>1, <2>1 DEF Frame, OpsOK, ThenOK, RetOK, HandOK, PathOK, Lookups, Opens, Ireles
  <2>3. /\ proc'[p].pc = (IF proc[p].op = "make" THEN "opened" ELSE "out")
        /\ proc'[p].op = proc[p].op /\ proc'[p].at = proc[p].at
        /\ proc'[p].ip = proc[p].ip /\ proc'[p].lp = proc[p].lp
        /\ proc'[p].fd = proc[p].fd /\ proc'[p].ino = proc[p].ino
        /\ proc'[p].err = proc[p].err /\ proc'[p].wait = proc[p].wait
        /\ proc'[p].then = proc[p].then /\ proc'[p].ret = proc[p].ret
    BY <1>1, <2>1, <2>2, <1>37 DEF DirenterDone, Dirwrite, Go, Process
  <2>4. CalmOK(proc'[p])
    BY <1>1, <2>1, <2>2, <2>3 DEF CalmOK, ToDisk
  <2>5. WritesLess(p)
    BY <1>1, <2>1, <2>2, <2>3 DEF WritesLess, OwingDisk, Owing, Updated, Written, ToDisk, CalmOK
  <2>6. NameKept(p)
    BY <1>1, <2>1, <2>2, <2>3 DEF NameKept, Vacant, Owing
  <2>7. LastKept(p)
    BY <1>1, <2>1, <2>2, <2>3 DEF LastKept, AtLast
  <2>8. MakeKept(p)
    BY <1>1, <2>1, <2>2, <2>3 DEF MakeKept, Making, MakesFile, Owing
  <2>9. EndKept(p)
    BY <1>1, <2>1, <2>2, <2>3 DEF EndKept, Ending
  <2> QED
    BY <1>37, <2>4, <2>5, <2>6, <2>7, <2>8, <2>9 DEF Goal, Debtor
<1>38. CASE Dirremove(p)
  <2>1. proc[p].pc = "dirremove"
    BY <1>2, <1>38 DEF Dirremove
  <2>2. proc[p].op = "unlink" /\ proc[p].ret = "user"
    BY <1>1, <2>1 DEF Frame, OpsOK, ThenOK, RetOK, HandOK, PathOK, Lookups, Opens, Ireles
  <2>3. /\ proc'[p].pc = "dirwrite" /\ proc'[p].op = proc[p].op
        /\ proc'[p].at = proc[p].at /\ proc'[p].ip = proc[p].ip
        /\ proc'[p].lp = proc[p].lp /\ proc'[p].fd = proc[p].fd
        /\ proc'[p].ino = proc[p].ino /\ proc'[p].err = proc[p].err
        /\ proc'[p].wait = proc[p].wait /\ proc'[p].then = proc[p].then
        /\ proc'[p].ret = proc[p].ret
    BY <1>1, <2>1, <2>2, <1>38 DEF Dirremove, Go, Process
  <2>4. CalmOK(proc'[p])
    BY <1>1, <2>1, <2>2, <2>3 DEF CalmOK, ToDisk
  <2>5. WritesLess(p)
    BY <1>1, <2>1, <2>2, <2>3 DEF WritesLess, OwingDisk, Owing, Updated, Written, ToDisk, CalmOK
  <2>6. LastKept(p)
    BY <1>1, <2>1, <2>2, <2>3 DEF LastKept, AtLast
  <2>7. MakeKept(p)
    BY <1>1, <2>1, <2>2, <2>3 DEF MakeKept, Making, MakesFile, Owing
  <2>8. EndKept(p)
    BY <1>1, <2>1, <2>2, <2>3 DEF EndKept, Ending
  <2> QED
    BY <1>38, <2>4, <2>5, <2>6, <2>7, <2>8 DEF Goal, Debtor, Namer
<1>39. CASE DirremoveFails(p)
  <2>1. proc[p].pc = "dirremove"
    BY <1>2, <1>39 DEF DirremoveFails
  <2>2. proc[p].op = "unlink" /\ proc[p].ret = "user"
    BY <1>1, <2>1 DEF Frame, OpsOK, ThenOK, RetOK, HandOK, PathOK, Lookups, Opens, Ireles
  <2>3. /\ proc'[p].pc = "irele" /\ proc'[p].op = proc[p].op
        /\ proc'[p].at = proc[p].at /\ proc'[p].ip = proc[p].ip
        /\ proc'[p].lp = proc[p].lp /\ proc'[p].fd = proc[p].fd
        /\ proc'[p].ino = proc[p].ino /\ proc'[p].err = proc[p].err
        /\ proc'[p].wait = proc[p].wait /\ proc'[p].then = proc[p].then
        /\ proc'[p].ret = "undir"
    BY <1>1, <2>1, <2>2, <1>39 DEF DirremoveFails, Go, Process
  <2>4. CalmOK(proc'[p])
    BY <1>1, <2>1, <2>2, <2>3 DEF CalmOK, ToDisk
  <2>5. WritesLess(p)
    BY <1>1, <2>1, <2>2, <2>3 DEF WritesLess, OwingDisk, Owing, Updated, Written, ToDisk, CalmOK
  <2>6. DebtSame(p)
    BY <1>1, <2>1, <2>2, <2>3 DEF DebtSame, Owing, OwingDisk, Target
  <2>7. NameKept(p)
    BY <1>1, <2>1, <2>2, <2>3 DEF NameKept, Vacant, Owing
  <2>8. LastKept(p)
    BY <1>1, <2>1, <2>2, <2>3 DEF LastKept, AtLast
  <2>9. MakeKept(p)
    BY <1>1, <2>1, <2>2, <2>3 DEF MakeKept, Making, MakesFile, Owing
  <2>10. EndKept(p)
    BY <1>1, <2>1, <2>2, <2>3 DEF EndKept, Ending
  <2> QED
    BY <1>39, <2>4, <2>5, <2>6, <2>7, <2>8, <2>9, <2>10 DEF Goal
<1>40. CASE DirremoveDone(p)
  <2>1. proc[p].pc = "dirwrite" /\ proc[p].op = "unlink"
    BY <1>2, <1>40 DEF DirremoveDone, Dirwrite
  <2>2. /\ proc'[p].pc = "irele" /\ proc'[p].op = proc[p].op
        /\ proc'[p].at = proc[p].at /\ proc'[p].ip = proc[p].ip
        /\ proc'[p].lp = proc[p].lp /\ proc'[p].fd = proc[p].fd
        /\ proc'[p].ino = proc[p].ino /\ proc'[p].err = proc[p].err
        /\ proc'[p].wait = proc[p].wait /\ proc'[p].then = proc[p].then
        /\ proc'[p].ret = "undir"
    BY <1>1, <2>1, <1>40 DEF DirremoveDone, Dirwrite, Go, Process
  <2>3. CalmOK(proc'[p])
    BY <1>1, <2>1, <2>2 DEF CalmOK, ToDisk
  <2>4. WritesLess(p)
    BY <1>1, <2>1, <2>2 DEF WritesLess, OwingDisk, Owing, Updated, Written, ToDisk, CalmOK
  <2>5. NameKept(p)
    BY <1>1, <2>1, <2>2 DEF NameKept, Vacant, Owing
  <2>6. LastKept(p)
    BY <1>1, <2>1, <2>2 DEF LastKept, AtLast
  <2>7. MakeKept(p)
    BY <1>1, <2>1, <2>2 DEF MakeKept, Making, MakesFile, Owing
  <2>8. EndKept(p)
    BY <1>1, <2>1, <2>2 DEF EndKept, Ending
  <2> QED
    BY <1>40, <2>3, <2>4, <2>5, <2>6, <2>7, <2>8 DEF Goal, Debtor
<1>41. CASE Close(p)
  <2>1. proc[p].pc = "close"
    BY <1>2, <1>41 DEF Close
  <2>2. proc[p].op = "close" /\ proc[p].ret = "user"
    BY <1>1, <2>1 DEF Frame, OpsOK, ThenOK, RetOK, HandOK, PathOK, Lookups, Opens, Ireles
  <2>3. /\ proc'[p].pc = "irele" /\ proc'[p].op = proc[p].op
        /\ proc'[p].at = proc[p].at /\ proc'[p].ip = proc[p].fd
        /\ proc'[p].lp = proc[p].lp /\ proc'[p].fd = None
        /\ proc'[p].ino = proc[p].ino /\ proc'[p].err = proc[p].err
        /\ proc'[p].wait = proc[p].wait /\ proc'[p].then = proc[p].then
        /\ proc'[p].ret = proc[p].ret
    BY <1>1, <2>1, <2>2, <1>41 DEF Close, Go, Process
  <2>4. CalmOK(proc'[p])
    BY <1>1, <2>1, <2>2, <2>3 DEF CalmOK, ToDisk
  <2>5. WritesLess(p)
    BY <1>1, <2>1, <2>2, <2>3 DEF WritesLess, OwingDisk, Owing, Updated, Written, ToDisk, CalmOK
  <2>6. DebtSame(p)
    BY <1>1, <2>1, <2>2, <2>3 DEF DebtSame, Owing, OwingDisk, Target
  <2>7. NameKept(p)
    BY <1>1, <2>1, <2>2, <2>3 DEF NameKept, Vacant, Owing
  <2>8. LastKept(p)
    BY <1>1, <2>1, <2>2, <2>3 DEF LastKept, AtLast
  <2>9. MakeKept(p)
    BY <1>1, <2>1, <2>2, <2>3 DEF MakeKept, Making, MakesFile, Owing
  <2>10. EndKept(p)
    BY <1>1, <2>1, <2>2, <2>3 DEF EndKept, Ending
  <2> QED
    BY <1>41, <2>4, <2>5, <2>6, <2>7, <2>8, <2>9, <2>10 DEF Goal
<1>42. CASE Iput(p)
  <2>1. proc[p].pc = "iput"
    BY <1>2, <1>42 DEF Iput
  <2>2. proc[p].op \in {"open", "creat", "make", "sync"} /\ proc[p].ret = "user"
    BY <1>1, <2>1 DEF Frame, OpsOK, ThenOK, RetOK, HandOK, PathOK, Lookups, Opens, Ireles
  <2>3. /\ proc'[p].pc = "irele" /\ proc'[p].op = proc[p].op
        /\ proc'[p].at = proc[p].at /\ proc'[p].ip = proc[p].ip
        /\ proc'[p].lp = proc[p].lp /\ proc'[p].fd = proc[p].fd
        /\ proc'[p].ino = proc[p].ino /\ proc'[p].err = proc[p].err
        /\ proc'[p].wait = proc[p].wait /\ proc'[p].then = proc[p].then
        /\ proc'[p].ret = proc[p].ret
    BY <1>1, <2>1, <2>2, <1>42 DEF Iput, Go, Process
  <2>4. CalmOK(proc'[p])
    BY <1>1, <2>1, <2>2, <2>3 DEF CalmOK, ToDisk
  <2>5. WritesLess(p)
    BY <1>1, <2>1, <2>2, <2>3 DEF WritesLess, OwingDisk, Owing, Updated, Written, ToDisk, CalmOK
  <2>6. DebtSame(p)
    BY <1>1, <2>1, <2>2, <2>3 DEF DebtSame, Owing, OwingDisk, Target
  <2>7. NameKept(p)
    BY <1>1, <2>1, <2>2, <2>3 DEF NameKept, Vacant, Owing
  <2>8. LastKept(p)
    BY <1>1, <2>1, <2>2, <2>3 DEF LastKept, AtLast
  <2>9. MakeKept(p)
    BY <1>1, <2>1, <2>2, <2>3 DEF MakeKept, Making, MakesFile, Owing
  <2>10. EndKept(p)
    BY <1>1, <2>1, <2>2, <2>3 DEF EndKept, Ending
  <2> QED
    BY <1>42, <2>4, <2>5, <2>6, <2>7, <2>8, <2>9, <2>10 DEF Goal
<1>43. CASE IreleLast(p)
  <2>1. proc[p].pc = "irele"
    BY <1>2, <1>43 DEF IreleLast
  <2>2. /\ proc'[p].pc \in {"iupdat", "release"} /\ proc'[p].op = proc[p].op
        /\ proc'[p].at = proc[p].at /\ proc'[p].ip = proc[p].ip
        /\ proc'[p].lp = proc[p].lp /\ proc'[p].fd = proc[p].fd
        /\ proc'[p].ino = proc[p].ino /\ proc'[p].err = proc[p].err
        /\ proc'[p].wait = FALSE /\ proc'[p].then = "release"
        /\ proc'[p].ret = proc[p].ret
    BY <1>1, <2>1, <1>43 DEF IreleLast, Go, Process
  <2>3. CalmOK(proc'[p])
    BY <1>1, <2>1, <2>2 DEF CalmOK, ToDisk
  <2>4. WritesLess(p)
    BY <1>1, <2>1, <2>2 DEF WritesLess, OwingDisk, Owing, Updated, Written, ToDisk, CalmOK
  <2>5. DebtSame(p)
    BY <1>1, <2>1, <2>2 DEF DebtSame, Owing, OwingDisk, Target
  <2>6. NameKept(p)
    BY <1>1, <2>1, <2>2 DEF NameKept, Vacant, Owing
  <2>7. LastKept(p)
    BY <1>1, <2>1, <2>2 DEF LastKept, AtLast
  <2>8. MakeKept(p)
    BY <1>1, <2>1, <2>2 DEF MakeKept, Making, MakesFile, Owing
  <2> QED
    BY <1>43, <2>3, <2>4, <2>5, <2>6, <2>7, <2>8 DEF Goal, Ender
<1>44. CASE IreleUnlinked(p)
  <2>1. proc[p].pc = "irele"
    BY <1>2, <1>44 DEF IreleUnlinked
  <2>2. /\ proc'[p].pc = "iupdat" /\ proc'[p].op = proc[p].op
        /\ proc'[p].at = proc[p].at /\ proc'[p].ip = proc[p].ip
        /\ proc'[p].lp = proc[p].lp /\ proc'[p].fd = proc[p].fd
        /\ proc'[p].ino = proc[p].ino /\ proc'[p].err = proc[p].err
        /\ proc'[p].wait = TRUE /\ proc'[p].then = "truncated"
        /\ proc'[p].ret = proc[p].ret
    BY <1>1, <2>1, <1>44 DEF IreleUnlinked, Go, Process
  <2>3. CalmOK(proc'[p])
    BY <1>1, <2>1, <2>2 DEF CalmOK, ToDisk
  <2>4. WritesLess(p)
    BY <1>1, <2>1, <2>2 DEF WritesLess, OwingDisk, Owing, Updated, Written, ToDisk, CalmOK
  <2>5. DebtSame(p)
    BY <1>1, <2>1, <2>2 DEF DebtSame, Owing, OwingDisk, Target
  <2>6. NameKept(p)
    BY <1>1, <2>1, <2>2 DEF NameKept, Vacant, Owing
  <2>7. MakeKept(p)
    BY <1>1, <2>1, <2>2 DEF MakeKept, Making, MakesFile, Owing
  <2>8. EndKept(p)
    BY <1>1, <2>1, <2>2 DEF EndKept, Ending
  <2> QED
    BY <1>44, <2>3, <2>4, <2>5, <2>6, <2>7, <2>8 DEF Goal, Laster
<1>45. CASE Truncated(p)
  <2>1. proc[p].pc = "truncated"
    BY <1>2, <1>45 DEF Truncated
  <2>2. /\ proc'[p].pc = "ifree" /\ proc'[p].op = proc[p].op
        /\ proc'[p].at = proc[p].at /\ proc'[p].ip = proc[p].ip
        /\ proc'[p].lp = proc[p].lp /\ proc'[p].fd = proc[p].fd
        /\ proc'[p].ino = proc[p].ino /\ proc'[p].err = proc[p].err
        /\ proc'[p].wait = proc[p].wait /\ proc'[p].then = proc[p].then
        /\ proc'[p].ret = proc[p].ret
    BY <1>1, <2>1, <1>45 DEF Truncated, Go, Process
  <2>3. CalmOK(proc'[p])
    BY <1>1, <2>1, <2>2 DEF CalmOK, ToDisk
  <2>4. WritesLess(p)
    BY <1>1, <2>1, <2>2 DEF WritesLess, OwingDisk, Owing, Updated, Written, ToDisk, CalmOK
  <2>5. DebtSame(p)
    BY <1>1, <2>1, <2>2 DEF DebtSame, Owing, OwingDisk, Target
  <2>6. NameKept(p)
    BY <1>1, <2>1, <2>2 DEF NameKept, Vacant, Owing
  <2>7. MakeKept(p)
    BY <1>1, <2>1, <2>2 DEF MakeKept, Making, MakesFile, Owing
  <2>8. EndKept(p)
    BY <1>1, <2>1, <2>2 DEF EndKept, Ending
  <2> QED
    BY <1>45, <2>3, <2>4, <2>5, <2>6, <2>7, <2>8 DEF Goal, Laster
<1>46. CASE Ifree(p)
  <2>1. proc[p].pc = "ifree"
    BY <1>2, <1>46 DEF Ifree, ToIupdat
  <2>2. /\ proc'[p].pc = "iupdat" /\ proc'[p].op = proc[p].op
        /\ proc'[p].at = proc[p].at /\ proc'[p].ip = proc[p].ip
        /\ proc'[p].lp = proc[p].lp /\ proc'[p].fd = proc[p].fd
        /\ proc'[p].ino = proc[p].ino /\ proc'[p].err = proc[p].err
        /\ proc'[p].wait = FALSE /\ proc'[p].then = "release"
        /\ proc'[p].ret = proc[p].ret
    BY <1>1, <2>1, <1>46 DEF Ifree, ToIupdat, Go, Process
  <2>3. CalmOK(proc'[p])
    BY <1>1, <2>1, <2>2 DEF CalmOK, ToDisk
  <2>4. WritesLess(p)
    BY <1>1, <2>1, <2>2 DEF WritesLess, OwingDisk, Owing, Updated, Written, ToDisk, CalmOK
  <2>5. DebtSame(p)
    BY <1>1, <2>1, <2>2 DEF DebtSame, Owing, OwingDisk, Target
  <2>6. NameKept(p)
    BY <1>1, <2>1, <2>2 DEF NameKept, Vacant, Owing
  <2>7. LastKept(p)
    BY <1>1, <2>1, <2>2 DEF LastKept, AtLast
  <2>8. MakeKept(p)
    BY <1>1, <2>1, <2>2 DEF MakeKept, Making, MakesFile, Owing
  <2> QED
    BY <1>46, <2>3, <2>4, <2>5, <2>6, <2>7, <2>8 DEF Goal, Ender
<1>47. CASE IfreeFails(p)
  <2>1. proc[p].pc = "ifree"
    BY <1>2, <1>47 DEF IfreeFails, ToIupdat
  <2>2. /\ proc'[p].pc = "iupdat" /\ proc'[p].op = proc[p].op
        /\ proc'[p].at = proc[p].at /\ proc'[p].ip = proc[p].ip
        /\ proc'[p].lp = proc[p].lp /\ proc'[p].fd = proc[p].fd
        /\ proc'[p].ino = proc[p].ino /\ proc'[p].err = proc[p].err
        /\ proc'[p].wait = FALSE /\ proc'[p].then = "release"
        /\ proc'[p].ret = proc[p].ret
    BY <1>1, <2>1, <1>47 DEF IfreeFails, ToIupdat, Go, Process
  <2>3. CalmOK(proc'[p])
    BY <1>1, <2>1, <2>2 DEF CalmOK, ToDisk
  <2>4. WritesLess(p)
    BY <1>1, <2>1, <2>2 DEF WritesLess, OwingDisk, Owing, Updated, Written, ToDisk, CalmOK
  <2>5. DebtSame(p)
    BY <1>1, <2>1, <2>2 DEF DebtSame, Owing, OwingDisk, Target
  <2>6. NameKept(p)
    BY <1>1, <2>1, <2>2 DEF NameKept, Vacant, Owing
  <2>7. LastKept(p)
    BY <1>1, <2>1, <2>2 DEF LastKept, AtLast
  <2>8. MakeKept(p)
    BY <1>1, <2>1, <2>2 DEF MakeKept, Making, MakesFile, Owing
  <2> QED
    BY <1>47, <2>3, <2>4, <2>5, <2>6, <2>7, <2>8 DEF Goal, Ender
<1>48. CASE Iupdat(p)
  <2>1. proc[p].pc = "iupdat"
    BY <1>2, <1>48 DEF Iupdat
  <2>2. /\ (proc[p].then = "direnter" => proc[p].op = "make")
        /\ (proc[p].then = "linked" => proc[p].op = "link")
        /\ proc[p].then \in {"direnter", "granted", "linked", "iput", "truncated", "release"}
    BY <1>1, <2>1 DEF Frame, OpsOK, ThenOK, RetOK, HandOK, PathOK, Lookups, Opens, Ireles
  <2>3. /\ proc'[p].pc = (IF proc[p].wait THEN "bwrite" ELSE proc[p].then)
        /\ proc'[p].op = proc[p].op /\ proc'[p].at = proc[p].at
        /\ proc'[p].ip = proc[p].ip /\ proc'[p].lp = proc[p].lp
        /\ proc'[p].fd = proc[p].fd /\ proc'[p].ino = proc[p].ino
        /\ proc'[p].err = proc[p].err /\ proc'[p].wait = proc[p].wait
        /\ proc'[p].then = proc[p].then /\ proc'[p].ret = proc[p].ret
    BY <1>1, <2>1, <2>2, <1>48 DEF Iupdat, Go, Process
  <2>4. CalmOK(proc'[p])
    BY <1>48, <1>1, <2>1, <2>2, <2>3 DEF CalmOK, ToDisk
  <2>5. WritesLess(p)
    BY <1>48, <1>1, <2>1, <2>2, <2>3 DEF WritesLess, OwingDisk, Owing, Updated, Written, ToDisk, CalmOK
  <2>6. DebtSame(p)
    BY <1>48, <1>1, <2>1, <2>2, <2>3 DEF DebtSame, Owing, OwingDisk, Target
  <2>7. NameKept(p)
    BY <1>48, <1>1, <2>1, <2>2, <2>3 DEF NameKept, Vacant, Owing
  <2>8. LastKept(p)
    BY <1>48, <1>1, <2>1, <2>2, <2>3 DEF LastKept, AtLast
  <2>9. MakeKept(p)
    BY <1>48, <1>1, <2>1, <2>2, <2>3 DEF MakeKept, Making, MakesFile, Owing
  <2>10. EndKept(p)
    BY <1>48, <1>1, <2>1, <2>2, <2>3 DEF EndKept, Ending
  <2> QED
    BY <1>48, <2>4, <2>5, <2>6, <2>7, <2>8, <2>9, <2>10 DEF Goal
<1>49. CASE IupdatFails(p)
  <2>1. proc[p].pc = "iupdat"
    BY <1>2, <1>49 DEF IupdatFails
  <2>2. /\ (proc[p].then = "direnter" => proc[p].op = "make")
        /\ (proc[p].then = "linked" => proc[p].op = "link")
        /\ proc[p].then \in {"direnter", "granted", "linked", "iput", "truncated", "release"}
    BY <1>1, <2>1 DEF Frame, OpsOK, ThenOK, RetOK, HandOK, PathOK, Lookups, Opens, Ireles
  <2>3. /\ proc'[p].pc = proc[p].then /\ proc'[p].op = proc[p].op
        /\ proc'[p].at = proc[p].at /\ proc'[p].ip = proc[p].ip
        /\ proc'[p].lp = proc[p].lp /\ proc'[p].fd = proc[p].fd
        /\ proc'[p].ino = proc[p].ino /\ proc'[p].err = TRUE
        /\ proc'[p].wait = proc[p].wait /\ proc'[p].then = proc[p].then
        /\ proc'[p].ret = proc[p].ret
    BY <1>1, <2>1, <2>2, <1>49 DEF IupdatFails, Go, Process
  <2>4. CalmOK(proc'[p])
    BY <1>1, <2>1, <2>2, <2>3 DEF CalmOK, ToDisk
  <2>5. WritesLess(p)
    BY <1>1, <2>1, <2>2, <2>3 DEF WritesLess, OwingDisk, Owing, Updated, Written, ToDisk, CalmOK
  <2>6. DebtSame(p)
    BY <1>1, <2>1, <2>2, <2>3 DEF DebtSame, Owing, OwingDisk, Target
  <2>7. NameKept(p)
    BY <1>1, <2>1, <2>2, <2>3 DEF NameKept, Vacant, Owing
  <2>8. LastKept(p)
    BY <1>1, <2>1, <2>2, <2>3 DEF LastKept, AtLast
  <2>9. MakeKept(p)
    BY <1>1, <2>1, <2>2, <2>3 DEF MakeKept, Making, MakesFile, Owing
  <2>10. EndKept(p)
    BY <1>1, <2>1, <2>2, <2>3 DEF EndKept, Ending
  <2> QED
    BY <1>49, <2>4, <2>5, <2>6, <2>7, <2>8, <2>9, <2>10 DEF Goal
<1>50. CASE Bwrite(p)
  <2>1. proc[p].pc = "bwrite"
    BY <1>2, <1>50 DEF Bwrite
  <2>2. /\ (proc[p].then = "direnter" => proc[p].op = "make")
        /\ (proc[p].then = "linked" => proc[p].op = "link")
        /\ proc[p].then \in {"direnter", "granted", "linked", "iput", "truncated", "release"}
    BY <1>1, <2>1 DEF Frame, OpsOK, ThenOK, RetOK, HandOK, PathOK, Lookups, Opens, Ireles
  <2>3. /\ proc'[p].pc = proc[p].then /\ proc'[p].op = proc[p].op
        /\ proc'[p].at = proc[p].at /\ proc'[p].ip = proc[p].ip
        /\ proc'[p].lp = proc[p].lp /\ proc'[p].fd = proc[p].fd
        /\ proc'[p].ino = proc[p].ino /\ proc'[p].err = proc[p].err
        /\ proc'[p].wait = proc[p].wait /\ proc'[p].then = proc[p].then
        /\ proc'[p].ret = proc[p].ret
    BY <1>1, <2>1, <2>2, <1>50 DEF Bwrite, Go, Process
  <2>4. CalmOK(proc'[p])
    BY <1>50, <1>1, <2>1, <2>2, <2>3 DEF CalmOK, ToDisk
  <2>5. WritesLess(p)
    BY <1>50, <1>1, <2>1, <2>2, <2>3 DEF WritesLess, OwingDisk, Owing, Updated, Written, ToDisk, CalmOK
  <2>6. DebtSame(p)
    BY <1>50, <1>1, <2>1, <2>2, <2>3 DEF DebtSame, Owing, OwingDisk, Target
  <2>7. NameKept(p)
    BY <1>50, <1>1, <2>1, <2>2, <2>3 DEF NameKept, Vacant, Owing
  <2>8. LastKept(p)
    BY <1>50, <1>1, <2>1, <2>2, <2>3 DEF LastKept, AtLast
  <2>9. MakeKept(p)
    BY <1>50, <1>1, <2>1, <2>2, <2>3 DEF MakeKept, Making, MakesFile, Owing
  <2>10. EndKept(p)
    BY <1>50, <1>1, <2>1, <2>2, <2>3 DEF EndKept, Ending
  <2> QED
    BY <1>50, <2>4, <2>5, <2>6, <2>7, <2>8, <2>9, <2>10 DEF Goal
<1>51. CASE NameiError(p)
  <2>1. proc[p].pc = "namei"
    BY <1>2, <1>51 DEF NameiError
  <2>2. proc[p].ret = "user" /\ (proc[p].op = "enter" => proc[p].lp # None)
    BY <1>1, <2>1 DEF Frame, OpsOK, RetOK, PathOK, Ireles
  <2>3. CASE proc[p].op # "enter"
    <3>1. proc'[p] = InUser(proc[p].fd)
      BY <1>1, <2>3, <1>51 DEF NameiError
    <3>2. ~Owing(proc[p])
      BY <1>1, <2>1, <2>3 DEF Owing, Frame, OpsOK
    <3> QED BY <1>3, <2>1, <3>1, <3>2
  <2>4. CASE proc[p].op = "enter"
    <3>1. /\ proc'[p].pc = "out" /\ proc'[p].op = proc[p].op
          /\ proc'[p].at = proc[p].at /\ proc'[p].ip = proc[p].ip
          /\ proc'[p].lp = proc[p].lp /\ proc'[p].fd = proc[p].fd
          /\ proc'[p].ino = proc[p].ino /\ proc'[p].err = TRUE
          /\ proc'[p].wait = proc[p].wait /\ proc'[p].then = proc[p].then
          /\ proc'[p].ret = proc[p].ret
      BY <1>1, <2>4, <1>51 DEF NameiError, Process
    <3>2. CalmOK(proc'[p])
      BY <1>1, <2>1, <2>2, <2>4, <3>1 DEF CalmOK, ToDisk
    <3>3. WritesLess(p)
      BY <1>1, <2>1, <2>2, <2>4, <3>1 DEF WritesLess, OwingDisk, Owing, Updated, Written, ToDisk, CalmOK
    <3>4. DebtSame(p)
      BY <1>1, <2>1, <2>2, <2>4, <3>1 DEF DebtSame, Owing, OwingDisk, Target
    <3>5. NameKept(p)
      BY <1>1, <2>1, <2>2, <2>4, <3>1 DEF NameKept, Vacant, Owing
    <3>6. LastKept(p)
      BY <1>1, <2>1, <2>2, <2>4, <3>1 DEF LastKept, AtLast
    <3>7. MakeKept(p)
      BY <1>1, <2>1, <2>2, <2>4, <3>1 DEF MakeKept, Making, MakesFile, Owing
    <3>8. EndKept(p)
      BY <1>1, <2>1, <2>2, <2>4, <3>1 DEF EndKept, Ending
    <3> QED
      BY <3>2, <3>3, <3>4, <3>5, <3>6, <3>7, <3>8 DEF Goal
  <2> QED BY <2>3, <2>4
<1>52. CASE GotNull(p)
  <2>1. proc[p].pc = "null"
    BY <1>2, <1>52 DEF GotNull
  <2>2. proc[p].ret = "user" /\ (proc[p].op = "enter" => proc[p].lp # None)
    BY <1>1, <2>1 DEF Frame, OpsOK, RetOK, PathOK, Ireles
  <2>3. CASE proc[p].op # "enter"
    <3>1. proc'[p] = InUser(proc[p].fd)
      BY <1>1, <2>3, <1>52 DEF GotNull
    <3>2. ~Owing(proc[p])
      BY <1>1, <2>1, <2>3 DEF Owing, Frame, OpsOK
    <3> QED BY <1>3, <2>1, <3>1, <3>2
  <2>4. CASE proc[p].op = "enter"
    <3>1. /\ proc'[p].pc = "out" /\ proc'[p].op = proc[p].op
          /\ proc'[p].at = proc[p].at /\ proc'[p].ip = proc[p].ip
          /\ proc'[p].lp = proc[p].lp /\ proc'[p].fd = proc[p].fd
          /\ proc'[p].ino = proc[p].ino /\ proc'[p].err = TRUE
          /\ proc'[p].wait = proc[p].wait /\ proc'[p].then = proc[p].then
          /\ proc'[p].ret = proc[p].ret
      BY <1>1, <2>4, <1>52 DEF GotNull, Process
    <3>2. CalmOK(proc'[p])
      BY <1>1, <2>1, <2>2, <2>4, <3>1 DEF CalmOK, ToDisk
    <3>3. WritesLess(p)
      BY <1>1, <2>1, <2>2, <2>4, <3>1 DEF WritesLess, OwingDisk, Owing, Updated, Written, ToDisk, CalmOK
    <3>4. DebtSame(p)
      BY <1>1, <2>1, <2>2, <2>4, <3>1 DEF DebtSame, Owing, OwingDisk, Target
    <3>5. NameKept(p)
      BY <1>1, <2>1, <2>2, <2>4, <3>1 DEF NameKept, Vacant, Owing
    <3>6. LastKept(p)
      BY <1>1, <2>1, <2>2, <2>4, <3>1 DEF LastKept, AtLast
    <3>7. MakeKept(p)
      BY <1>1, <2>1, <2>2, <2>4, <3>1 DEF MakeKept, Making, MakesFile, Owing
    <3>8. EndKept(p)
      BY <1>1, <2>1, <2>2, <2>4, <3>1 DEF EndKept, Ending
    <3> QED
      BY <3>2, <3>3, <3>4, <3>5, <3>6, <3>7, <3>8 DEF Goal
  <2> QED BY <2>3, <2>4
<1>53. CASE IalloccgTake(p)
  <2>1. PICK i \in Inos : \/ proc' = [proc EXCEPT ![p].ino = i, ![p].pc = "iget"]
                         \/ proc' = [proc EXCEPT ![p] = InUser(@.fd)]
    BY <1>53 DEF IalloccgTake, NoInode
  <2>2. proc[p].pc = "ialloccg"
    BY <1>2, <1>53 DEF IalloccgTake
  <2>3. proc[p].op = "make" /\ proc[p].ret = "user" /\ proc[p].lp = None
    BY <1>1, <2>2 DEF Frame, OpsOK, RetOK, PathOK, Ireles
  <2>4. CASE proc' = [proc EXCEPT ![p].ino = i, ![p].pc = "iget"]
    <3>1. /\ proc'[p].pc = "iget" /\ proc'[p].op = proc[p].op
          /\ proc'[p].at = proc[p].at /\ proc'[p].ip = proc[p].ip
          /\ proc'[p].lp = proc[p].lp /\ proc'[p].fd = proc[p].fd
          /\ proc'[p].ino = i /\ proc'[p].err = proc[p].err
          /\ proc'[p].wait = proc[p].wait /\ proc'[p].then = proc[p].then
          /\ proc'[p].ret = proc[p].ret
      BY <1>1, <2>4 DEF Process
    <3>2. CalmOK(proc'[p])
      BY <1>1, <2>2, <2>3, <3>1 DEF CalmOK, ToDisk
    <3>3. WritesLess(p)
      BY <1>1, <2>2, <2>3, <3>1 DEF WritesLess, OwingDisk, Owing, Updated, Written, ToDisk, CalmOK
    <3>4. DebtSame(p)
      BY <1>1, <2>2, <2>3, <3>1 DEF DebtSame, Owing, OwingDisk, Target
    <3>5. NameKept(p)
      BY <1>1, <2>2, <2>3, <3>1 DEF NameKept, Vacant, Owing
    <3>6. LastKept(p)
      BY <1>1, <2>2, <2>3, <3>1 DEF LastKept, AtLast
    <3>7. EndKept(p)
      BY <1>1, <2>2, <2>3, <3>1 DEF EndKept, Ending
    <3> QED
      BY <1>53, <3>2, <3>3, <3>4, <3>5, <3>6, <3>7 DEF Goal, Maker
  <2>5. CASE proc' = [proc EXCEPT ![p] = InUser(@.fd)]
    <3>1. proc'[p] = InUser(proc[p].fd)
      BY <1>1, <2>5
    <3>2. ~Owing(proc[p])
      BY <2>2, <2>3 DEF Owing
    <3> QED BY <1>3, <2>2, <3>1, <3>2
  <2> QED BY <2>1, <2>4, <2>5
<1>54. CASE IreleShared(p)
  <2>1. proc[p].pc = "irele" /\ Return(p)
    BY <1>2, <1>54 DEF IreleShared
  <2>2. CASE proc[p].ret = "user"
    <3>1. proc'[p] = InUser(proc[p].fd)
      BY <1>1, <2>1, <2>2 DEF Return
    <3>2. ~Owing(proc[p])
      BY <1>1, <2>1, <2>2 DEF Owing, Frame, PathOK, Ireles
    <3> QED BY <1>3, <2>1, <3>1, <3>2
  <2>3. CASE proc[p].ret # "user"
    <3>1. /\ proc[p].ret \in {"null", "undir", "out"}
          /\ proc[p].ret = "undir" => proc[p].op = "unlink"
          /\ proc[p].ret = "out" => proc[p].op = "enter" /\ proc[p].err
          /\ proc[p].ret = "null" => proc[p].op \in Lookups
          /\ proc[p].op = "enter" => proc[p].lp # None
      BY <1>1, <2>1, <2>3 DEF Frame, RetOK, PathOK
    <3>2. /\ proc'[p].pc = proc[p].ret /\ proc'[p].op = proc[p].op
          /\ proc'[p].at = proc[p].at /\ proc'[p].ip = None
          /\ proc'[p].lp = proc[p].lp /\ proc'[p].fd = proc[p].fd
          /\ proc'[p].ino = proc[p].ino /\ proc'[p].err = proc[p].err
          /\ proc'[p].wait = proc[p].wait /\ proc'[p].then = proc[p].then
          /\ proc'[p].ret = "user"
      BY <1>1, <2>1, <2>3 DEF Return, Process
    <3>3. CalmOK(proc'[p])
      BY <1>1, <2>1, <2>3, <3>1, <3>2 DEF CalmOK, ToDisk
    <3>4. WritesLess(p)
      BY <1>1, <2>1, <2>3, <3>1, <3>2 DEF WritesLess, OwingDisk, Owing, Updated, Written, ToDisk, CalmOK
    <3>5. DebtSame(p)
      BY <1>1, <2>1, <2>3, <3>1, <3>2 DEF DebtSame, Owing, OwingDisk, Target
    <3>6. NameKept(p)
      BY <1>1, <2>1, <2>3, <3>1, <3>2 DEF NameKept, Vacant, Owing
    <3>7. LastKept(p)
      BY <1>1, <2>1, <2>3, <3>1, <3>2 DEF LastKept, AtLast
    <3>8. MakeKept(p)
      BY <1>1, <2>1, <2>3, <3>1, <3>2 DEF MakeKept, Making, MakesFile, Owing
    <3>9. EndKept(p)
      BY <1>1, <2>1, <2>3, <3>1, <3>2 DEF EndKept, Ending
    <3> QED
      BY <3>3, <3>4, <3>5, <3>6, <3>7, <3>8, <3>9 DEF Goal
  <2> QED BY <2>2, <2>3
<1>55. CASE Release(p)
  <2>1. proc[p].pc = "release" /\ Return(p)
    BY <1>2, <1>55 DEF Release
  <2>2. CASE proc[p].ret = "user"
    <3>1. proc'[p] = InUser(proc[p].fd)
      BY <1>1, <2>1, <2>2 DEF Return
    <3>2. ~Owing(proc[p])
      BY <1>1, <2>1, <2>2 DEF Owing, Frame, PathOK, Ireles
    <3> QED BY <1>3, <2>1, <3>1, <3>2
  <2>3. CASE proc[p].ret # "user"
    <3>1. /\ proc[p].ret \in {"null", "undir", "out"}
          /\ proc[p].ret = "undir" => proc[p].op = "unlink"
          /\ proc[p].ret = "out" => proc[p].op = "enter" /\ proc[p].err
          /\ proc[p].ret = "null" => proc[p].op \in Lookups
          /\ proc[p].op = "enter" => proc[p].lp # None
      BY <1>1, <2>1, <2>3 DEF Frame, RetOK, PathOK
    <3>2. /\ proc'[p].pc = proc[p].ret /\ proc'[p].op = proc[p].op
          /\ proc'[p].at = proc[p].at /\ proc'[p].ip = None
          /\ proc'[p].lp = proc[p].lp /\ proc'[p].fd = proc[p].fd
          /\ proc'[p].ino = proc[p].ino /\ proc'[p].err = proc[p].err
          /\ proc'[p].wait = proc[p].wait /\ proc'[p].then = proc[p].then
          /\ proc'[p].ret = "user"
      BY <1>1, <2>1, <2>3 DEF Return, Process
    <3>3. CalmOK(proc'[p])
      BY <1>1, <2>1, <2>3, <3>1, <3>2 DEF CalmOK, ToDisk
    <3>4. WritesLess(p)
      BY <1>1, <2>1, <2>3, <3>1, <3>2 DEF WritesLess, OwingDisk, Owing, Updated, Written, ToDisk, CalmOK
    <3>5. DebtSame(p)
      BY <1>1, <2>1, <2>3, <3>1, <3>2 DEF DebtSame, Owing, OwingDisk, Target
    <3>6. NameKept(p)
      BY <1>1, <2>1, <2>3, <3>1, <3>2 DEF NameKept, Vacant, Owing
    <3>7. LastKept(p)
      BY <1>1, <2>1, <2>3, <3>1, <3>2 DEF LastKept, AtLast
    <3>8. MakeKept(p)
      BY <1>1, <2>1, <2>3, <3>1, <3>2 DEF MakeKept, Making, MakesFile, Owing
    <3>9. EndKept(p)
      BY <1>1, <2>1, <2>3, <3>1, <3>2 DEF EndKept, Ending
    <3> QED
      BY <3>3, <3>4, <3>5, <3>6, <3>7, <3>8, <3>9 DEF Goal
  <2> QED BY <2>2, <2>3
<1> QED
  BY Step(p), <1>5, <1>6, <1>7, <1>8, <1>9, <1>10, <1>11, <1>12, <1>13, <1>14,
     <1>15, <1>16, <1>17, <1>18, <1>19, <1>20, <1>21, <1>22, <1>23, <1>24,
     <1>25, <1>26, <1>27, <1>28, <1>29, <1>30, <1>31, <1>32, <1>33, <1>34,
     <1>35, <1>36, <1>37, <1>38, <1>39, <1>40, <1>41, <1>42, <1>43, <1>44,
     <1>45, <1>46, <1>47, <1>48, <1>49, <1>50, <1>51, <1>52, <1>53, <1>54, <1>55 DEF Step, Ialloccg

\* What those steps make of it.
LEMMA Debts ==
    ASSUME TypeOK, Frames, NEW p \in Procs, CalmOK(proc[p]), NEW r, r = proc[p],
           NEW q, q = proc'[p]
    PROVE  /\ GotNew(p) \/ GotLink(p) =>
                /\ ~Owing(r) /\ ~OwingDisk(r) /\ Owing(q) /\ OwingDisk(q)
                /\ Target(q) = r.ip /\ ~Updated(q) /\ ~Written(q)
           /\ Direnter(p) =>
                /\ Owing(r) /\ OwingDisk(r) /\ Updated(r) /\ Written(r)
                /\ r.op # "unlink" /\ ~Owing(q) /\ OwingDisk(q) /\ Target(q) = Target(r)
           /\ MakeFails(p) =>
                /\ Owing(r) /\ OwingDisk(r) /\ Target(r) = r.ip
                /\ ~Owing(q) /\ ~OwingDisk(q)
           /\ DirenterDone(p) =>
                /\ ~Owing(r) /\ OwingDisk(r) /\ Updated(r) /\ Written(r)
                /\ ~Owing(q) /\ ~OwingDisk(q)
           /\ Dirremove(p) =>
                /\ ~Owing(r) /\ ~OwingDisk(r) /\ Owing(q) /\ ~OwingDisk(q)
                /\ Target(q) = r.ip /\ q.op = "unlink"
           /\ DirremoveDone(p) =>
                /\ Owing(r) /\ ~OwingDisk(r) /\ Target(r) = r.ip /\ r.op = "unlink"
                /\ ~Owing(q) /\ ~OwingDisk(q)
           /\ Out(p) =>
                /\ Owing(r) <=> r.err
                /\ OwingDisk(r) <=> r.err
                /\ r.op = "enter" /\ Target(r) = r.lp
                /\ ~Owing(q) /\ ~OwingDisk(q)
<1>1. /\ proc \in [Procs -> Process] /\ proc[p] \in Process /\ Frame(proc[p])
      /\ CalmOK(proc[p])
  BY DEF TypeOK, Frames
<1>2. \A l : At(p, l) => proc[p].pc = l
  BY DEF At
<1>3. ASSUME GotNew(p)
      PROVE  /\ ~Owing(r) /\ ~OwingDisk(r) /\ Owing(q) /\ OwingDisk(q)
             /\ Target(q) = r.ip /\ ~Updated(q) /\ ~Written(q)
  <2>1. proc[p].pc = "got" /\ proc[p].op = "make"
    BY <1>2, <1>3 DEF GotNew
  <2>2. proc[p].ret = "user"
    BY <1>1, <2>1 DEF Frame, OpsOK, ThenOK, RetOK, HandOK, PathOK, Lookups, Opens, Ireles
  <2>3. /\ proc'[p].pc = "iupdat" /\ proc'[p].op = proc[p].op
        /\ proc'[p].at = proc[p].at /\ proc'[p].ip = proc[p].ip
        /\ proc'[p].lp = proc[p].lp /\ proc'[p].fd = proc[p].fd
        /\ proc'[p].ino = proc[p].ino /\ proc'[p].err = proc[p].err
        /\ proc'[p].wait = TRUE /\ proc'[p].then = "direnter"
        /\ proc'[p].ret = proc[p].ret
    BY <1>1, <2>1, <2>2, <1>3 DEF GotNew, Go, Process
  <2> QED
    BY <1>1, <2>1, <2>2, <2>3
    DEF Owing, OwingDisk, Target, Updated, Written, ToDisk, CalmOK
<1>4. ASSUME GotLink(p)
      PROVE  /\ ~Owing(r) /\ ~OwingDisk(r) /\ Owing(q) /\ OwingDisk(q)
             /\ Target(q) = r.ip /\ ~Updated(q) /\ ~Written(q)
  <2>1. proc[p].pc = "got" /\ proc[p].op = "link"
    BY <1>2, <1>4 DEF GotLink
  <2>2. proc[p].ret = "user"
    BY <1>1, <2>1 DEF Frame, OpsOK, ThenOK, RetOK, HandOK, PathOK, Lookups, Opens, Ireles
  <2>3. /\ proc'[p].pc = "iupdat" /\ proc'[p].op = proc[p].op
        /\ proc'[p].at = proc[p].at /\ proc'[p].ip = proc[p].ip
        /\ proc'[p].lp = proc[p].lp /\ proc'[p].fd = proc[p].fd
        /\ proc'[p].ino = proc[p].ino /\ proc'[p].err = proc[p].err
        /\ proc'[p].wait = TRUE /\ proc'[p].then = "linked"
        /\ proc'[p].ret = proc[p].ret
    BY <1>1, <2>1, <2>2, <1>4 DEF GotLink, Go, Process
  <2> QED
    BY <1>1, <2>1, <2>2, <2>3
    DEF Owing, OwingDisk, Target, Updated, Written, ToDisk, CalmOK
<1>5. ASSUME Direnter(p)
      PROVE  /\ Owing(r) /\ OwingDisk(r) /\ Updated(r) /\ Written(r)
             /\ r.op # "unlink" /\ ~Owing(q) /\ OwingDisk(q)
             /\ Target(q) = Target(r)
  <2>1. proc[p].pc = "direnter" /\ ~proc[p].err
    BY <1>2, <1>5 DEF Direnter
  <2>2. /\ proc[p].op \in {"make", "enter"}
        /\ (proc[p].op = "enter" => proc[p].lp # None) /\ proc[p].ret = "user"
    BY <1>1, <2>1 DEF Frame, OpsOK, ThenOK, RetOK, HandOK, PathOK, Lookups, Opens, Ireles
  <2>3. /\ proc'[p].pc = "dirwrite" /\ proc'[p].op = proc[p].op
        /\ proc'[p].at = proc[p].at /\ proc'[p].ip = proc[p].ip
        /\ proc'[p].lp = proc[p].lp /\ proc'[p].fd = proc[p].fd
        /\ proc'[p].ino = proc[p].ino /\ proc'[p].err = proc[p].err
        /\ proc'[p].wait = proc[p].wait /\ proc'[p].then = proc[p].then
        /\ proc'[p].ret = proc[p].ret
    BY <1>1, <2>1, <2>2, <1>5 DEF Direnter, Go, Process
  <2> QED
    BY <1>1, <2>1, <2>2, <2>3
    DEF Owing, OwingDisk, Target, Updated, Written, ToDisk, CalmOK
<1>6. ASSUME MakeFails(p)
      PROVE  /\ Owing(r) /\ OwingDisk(r) /\ Target(r) = r.ip /\ ~Owing(q)
             /\ ~OwingDisk(q)
  <2>1. proc[p].pc = "direnter" /\ proc[p].op = "make"
    BY <1>2, <1>6 DEF MakeFails, DirenterFails
  <2>2. proc[p].ret = "user"
    BY <1>1, <2>1 DEF Frame, OpsOK, ThenOK, RetOK, HandOK, PathOK, Lookups, Opens, Ireles
  <2>3. /\ proc'[p].pc = "irele" /\ proc'[p].op = proc[p].op
        /\ proc'[p].at = proc[p].at /\ proc'[p].ip = proc[p].ip
        /\ proc'[p].lp = proc[p].lp /\ proc'[p].fd = proc[p].fd
        /\ proc'[p].ino = proc[p].ino /\ proc'[p].err = proc[p].err
        /\ proc'[p].wait = proc[p].wait /\ proc'[p].then = proc[p].then
        /\ proc'[p].ret = proc[p].ret
    BY <1>1, <2>1, <2>2, <1>6 DEF MakeFails, DirenterFails, Go, Process
  <2> QED
    BY <1>1, <2>1, <2>2, <2>3
    DEF Owing, OwingDisk, Target, Updated, Written, ToDisk, CalmOK
<1>7. ASSUME DirenterDone(p)
      PROVE  /\ ~Owing(r) /\ OwingDisk(r) /\ Updated(r) /\ Written(r) /\ ~Owing(q)
             /\ ~OwingDisk(q)
  <2>1. proc[p].pc = "dirwrite" /\ proc[p].op \in {"make", "enter"}
    BY <1>2, <1>7 DEF DirenterDone, Dirwrite
  <2>2. proc[p].ret = "user"
    BY <1>1, <2>1 DEF Frame, OpsOK, ThenOK, RetOK, HandOK, PathOK, Lookups, Opens, Ireles
  <2>3. /\ proc'[p].pc = (IF proc[p].op = "make" THEN "opened" ELSE "out")
        /\ proc'[p].op = proc[p].op /\ proc'[p].at = proc[p].at
        /\ proc'[p].ip = proc[p].ip /\ proc'[p].lp = proc[p].lp
        /\ proc'[p].fd = proc[p].fd /\ proc'[p].ino = proc[p].ino
        /\ proc'[p].err = proc[p].err /\ proc'[p].wait = proc[p].wait
        /\ proc'[p].then = proc[p].then /\ proc'[p].ret = proc[p].ret
    BY <1>1, <2>1, <2>2, <1>7 DEF DirenterDone, Dirwrite, Go, Process
  <2> QED
    BY <1>1, <2>1, <2>2, <2>3
    DEF Owing, OwingDisk, Target, Updated, Written, ToDisk, CalmOK
<1>8. ASSUME Dirremove(p)
      PROVE  /\ ~Owing(r) /\ ~OwingDisk(r) /\ Owing(q) /\ ~OwingDisk(q)
             /\ Target(q) = r.ip /\ q.op = "unlink"
  <2>1. proc[p].pc = "dirremove"
    BY <1>2, <1>8 DEF Dirremove
  <2>2. proc[p].op = "unlink" /\ proc[p].ret = "user"
    BY <1>1, <2>1 DEF Frame, OpsOK, ThenOK, RetOK, HandOK, PathOK, Lookups, Opens, Ireles
  <2>3. /\ proc'[p].pc = "dirwrite" /\ proc'[p].op = proc[p].op
        /\ proc'[p].at = proc[p].at /\ proc'[p].ip = proc[p].ip
        /\ proc'[p].lp = proc[p].lp /\ proc'[p].fd = proc[p].fd
        /\ proc'[p].ino = proc[p].ino /\ proc'[p].err = proc[p].err
        /\ proc'[p].wait = proc[p].wait /\ proc'[p].then = proc[p].then
        /\ proc'[p].ret = proc[p].ret
    BY <1>1, <2>1, <2>2, <1>8 DEF Dirremove, Go, Process
  <2> QED
    BY <1>1, <2>1, <2>2, <2>3
    DEF Owing, OwingDisk, Target, Updated, Written, ToDisk, CalmOK
<1>9. ASSUME DirremoveDone(p)
      PROVE  /\ Owing(r) /\ ~OwingDisk(r) /\ Target(r) = r.ip /\ r.op = "unlink"
             /\ ~Owing(q) /\ ~OwingDisk(q)
  <2>1. proc[p].pc = "dirwrite" /\ proc[p].op = "unlink"
    BY <1>2, <1>9 DEF DirremoveDone, Dirwrite
  <2>2. /\ proc'[p].pc = "irele" /\ proc'[p].op = proc[p].op
        /\ proc'[p].at = proc[p].at /\ proc'[p].ip = proc[p].ip
        /\ proc'[p].lp = proc[p].lp /\ proc'[p].fd = proc[p].fd
        /\ proc'[p].ino = proc[p].ino /\ proc'[p].err = proc[p].err
        /\ proc'[p].wait = proc[p].wait /\ proc'[p].then = proc[p].then
        /\ proc'[p].ret = "undir"
    BY <1>1, <2>1, <1>9 DEF DirremoveDone, Dirwrite, Go, Process
  <2> QED
    BY <1>1, <2>1, <2>2
    DEF Owing, OwingDisk, Target, Updated, Written, ToDisk, CalmOK
<1>10. ASSUME Out(p)
      PROVE  /\ (Owing(r) <=> r.err) /\ (OwingDisk(r) <=> r.err) /\ r.op = "enter"
             /\ Target(r) = r.lp /\ ~Owing(q) /\ ~OwingDisk(q)
  <2>1. proc[p].pc = "out"
    BY <1>2, <1>10 DEF Out
  <2>2. proc[p].op = "enter" /\ proc[p].lp # None /\ proc[p].ret = "user"
    BY <1>1, <2>1 DEF Frame, OpsOK, ThenOK, RetOK, HandOK, PathOK, Lookups, Opens, Ireles
  <2>3. /\ proc'[p].pc = "irele" /\ proc'[p].op = proc[p].op
        /\ proc'[p].at = proc[p].at /\ proc'[p].ip = proc[p].lp
        /\ proc'[p].lp = None /\ proc'[p].fd = proc[p].fd
        /\ proc'[p].ino = proc[p].ino /\ proc'[p].err = proc[p].err
        /\ proc'[p].wait = proc[p].wait /\ proc'[p].then = proc[p].then
        /\ proc'[p].ret = "user"
    BY <1>1, <2>1, <2>2, <1>10 DEF Out, Go, Process
  <2> QED
    BY <1>1, <2>1, <2>2, <2>3
    DEF Owing, OwingDisk, Target, Updated, Written, ToDisk, CalmOK
<1> QED
  BY <1>3, <1>4, <1>5, <1>6, <1>7, <1>8, <1>9, <1>10

------------------------------------------------------------------------------
(* What a step does to the files and to the disk. *)

FileKept(s) ==
    /\ inode'[s].ino = inode[s].ino /\ inode'[s].hashed = inode[s].hashed
    /\ inode'[s].mode = inode[s].mode /\ inode'[s].nlink = inode[s].nlink

\* The steps that change an inode.
Filer(p) ==
    \/ Iread(p) \/ IreadFails(p) \/ IgetMiss(p) \/ GotNew(p) \/ GotLink(p) \/ MakeFails(p)
    \/ DirremoveDone(p) \/ DirremoveFails(p) \/ Out(p) \/ Truncated(p)

LEMMA FilesEffect ==
    ASSUME TypeOK, Frames, DirsOK, LocksExact, CountsExact, NEW p \in Procs, Step(p),
           ~Filer(p)
    PROVE  \A s \in Slots : FileKept(s)
<1>1. Slots \subseteq Table
  BY DEF Table
<1>2. \A l : At(p, l) => proc[p].pc = l
  BY DEF At
<1>3. ASSUME NEW t, Elsewhere({t}), FileKept(t)
      PROVE  \A s \in Slots : FileKept(s)
  BY <1>1, <1>3 DEF Elsewhere, FileKept
<1>4. ASSUME NEW t, NEW d, Elsewhere({t, d}), FileKept(t), FileKept(d)
      PROVE  \A s \in Slots : FileKept(s)
  BY <1>1, <1>4 DEF Elsewhere, FileKept
<1>5. \A t : SameFile(t) => FileKept(t)
  BY DEF SameFile, FileKept
<1>6. proc[p].pc = "namei" => Dir(p) \in Table
  BY AtHand
<1>7. proc[p].pc = "close" => proc[p].fd \in Table
  BY AtHand
<1>8. ASSUME NEW d, d = Dir(p), inode' = Put(inode, d),
             proc[p].pc \in {"got", "null", "ialloccg", "ifreeino", "direnter",
                             "dirwrite", "undir"}
      PROVE  \A s \in Slots : FileKept(s)
  BY <1>3, <1>5, <1>8, PutTable
<1>9. ASSUME NEW t \in Table,
             \/ inode' = [inode EXCEPT ![t].locked = TRUE, ![t].count = @ + 1]
             \/ inode' = [inode EXCEPT ![t].count = @ + 1, ![t].locked = TRUE]
      PROVE  \A s \in Slots : FileKept(s)
  BY <1>3, <1>5, <1>9, AcquiredTable
<1>10. ASSUME inode' = inode
       PROVE  \A s \in Slots : FileKept(s)
  BY <1>10 DEF FileKept
<1>11. CASE NameiLocked(p) \/ CloseLocked(p) \/ IgetLocked(p)
  <2>1. PICK t \in Table : SleepOn(p, t)
    BY <1>1, <1>2, <1>6, <1>7, <1>11 DEF NameiLocked, CloseLocked, IgetLocked
  <2> QED BY <1>3, <1>5, <2>1, SleepOnTable
<1>12. CASE IgetHit(p)
  <2>1. PICK t \in Slots : inode' = [inode EXCEPT ![t].count = @ + 1, ![t].locked = TRUE]
    BY <1>12 DEF IgetHit
  <2> QED BY <1>1, <1>9, <2>1
<1>13. CASE Sync(p)
  <2>1. PICK t \in Slots : inode' = [inode EXCEPT ![t].locked = TRUE, ![t].count = @ + 1]
    BY <1>13 DEF Sync
  <2> QED BY <1>1, <1>9, <2>1
<1>14. CASE IalloccgTake(p)
  <2>1. inode' = inode \/ inode' = Put(inode, Dir(p))
    BY <1>14 DEF IalloccgTake, NoInode
  <2>2. proc[p].pc = "ialloccg"
    BY <1>2, <1>14 DEF IalloccgTake
  <2> QED BY <1>8, <1>10, <2>1, <2>2
<1>15. CASE GotExisting(p)
  <2>1. PICK t, d : Elsewhere({t, d}) /\ SameFile(t) /\ SameFile(d)
    BY <1>15, GotExistingTable
  <2> QED BY <1>4, <1>5, <2>1
<1>16. CASE Call(p)
  BY ~Filer(p), <1>10, <1>16 DEF Call
<1>17. CASE CallClose(p)
  BY ~Filer(p), <1>10, <1>17 DEF CallClose
<1>18. CASE NameiFails(p)
  BY ~Filer(p), <1>10, <1>18 DEF NameiFails
<1>19. CASE NameiError(p)
  BY ~Filer(p), <1>10, <1>19 DEF NameiError
<1>20. CASE IgetFull(p)
  BY ~Filer(p), <1>10, <1>20 DEF IgetFull
<1>21. CASE GotUnlink(p)
  BY ~Filer(p), <1>10, <1>21 DEF GotUnlink
<1>22. CASE GotInUse(p)
  BY ~Filer(p), <1>10, <1>22 DEF GotInUse
<1>23. CASE MakeNull(p)
  BY ~Filer(p), <1>10, <1>23 DEF MakeNull
<1>24. CASE Opened(p)
  BY ~Filer(p), <1>10, <1>24 DEF Opened
<1>25. CASE OpenedFails(p)
  BY ~Filer(p), <1>10, <1>25 DEF OpenedFails
<1>26. CASE Direnter(p)
  BY ~Filer(p), <1>10, <1>26 DEF Direnter
<1>27. CASE Dirremove(p)
  BY ~Filer(p), <1>10, <1>27 DEF Dirremove
<1>28. CASE Close(p)
  BY ~Filer(p), <1>10, <1>28 DEF Close
<1>29. CASE Ifree(p)
  BY ~Filer(p), <1>10, <1>29 DEF Ifree
<1>30. CASE IfreeFails(p)
  BY ~Filer(p), <1>10, <1>30 DEF IfreeFails
<1>31. CASE IupdatFails(p)
  BY ~Filer(p), <1>10, <1>31 DEF IupdatFails
<1>32. CASE Bwrite(p)
  BY ~Filer(p), <1>10, <1>32 DEF Bwrite
<1>33. CASE NameiFound(p)
  BY ~Filer(p), <1>10, <1>33, <1>2, <1>6, <1>9 DEF NameiFound
<1>34. CASE NameiMake(p)
  BY ~Filer(p), <1>10, <1>34, <1>2, <1>6, <1>9 DEF NameiMake, NameiFree
<1>35. CASE NameiEnter(p)
  BY ~Filer(p), <1>10, <1>35, <1>2, <1>6, <1>9 DEF NameiEnter, NameiFree
<1>36. CASE GotOpen(p)
  BY ~Filer(p), <1>10, <1>36, <1>2, <1>8 DEF GotOpen
<1>37. CASE GotNull(p)
  BY ~Filer(p), <1>10, <1>37, <1>2, <1>8 DEF GotNull
<1>38. CASE Undir(p)
  BY ~Filer(p), <1>10, <1>38, <1>2, <1>8 DEF Undir
<1>39. CASE IalloccgNone(p)
  BY ~Filer(p), <1>10, <1>39, <1>2, <1>8 DEF IalloccgNone, NoInode
<1>40. CASE IalloccgFails(p)
  BY ~Filer(p), <1>10, <1>40, <1>2, <1>8 DEF IalloccgFails, NoInode
<1>41. CASE Ifreeino(p)
  BY ~Filer(p), <1>10, <1>41, <1>2, <1>8 DEF Ifreeino, NoInode
<1>42. CASE EnterFails(p)
  BY ~Filer(p), <1>10, <1>42, <1>2, <1>8 DEF EnterFails, DirenterFails
<1>43. CASE DirenterDone(p)
  BY ~Filer(p), <1>10, <1>43, <1>2, <1>8 DEF DirenterDone, Dirwrite
<1>44. CASE OpenedOld(p)
  BY ~Filer(p), <1>10, <1>44, <1>3, OpenedOldTable DEF OpenedOld, FileKept
<1>45. CASE IreleUnlinked(p)
  BY ~Filer(p), <1>10, <1>45, <1>3, IreleUnlinkedTable
  DEF IreleUnlinked, FileKept
<1>46. CASE Release(p)
  BY ~Filer(p), <1>10, <1>46, <1>3, ReleaseTable DEF Release, FileKept
<1>47. CASE Iupdat(p)
  BY ~Filer(p), <1>10, <1>47, <1>3, IupdatTable DEF Iupdat, FileKept
<1>48. CASE Granted(p)
  BY ~Filer(p), <1>10, <1>48, <1>3, <1>5, GrantedTable DEF Granted
<1>49. CASE Linked(p)
  BY ~Filer(p), <1>10, <1>49, <1>3, <1>5, LinkedTable DEF Linked
<1>50. CASE Iput(p)
  BY ~Filer(p), <1>10, <1>50, <1>3, <1>5, IputTable DEF Iput
<1>51. CASE IreleShared(p)
  BY ~Filer(p), <1>10, <1>51, <1>3, <1>5, IreleSharedTable DEF IreleShared
<1>52. CASE IreleLast(p)
  BY ~Filer(p), <1>10, <1>52, <1>3, <1>5, IreleLastTable DEF IreleLast
<1> QED
  BY Step(p), <1>11, <1>12, <1>13, <1>14, <1>15, <1>16, <1>17, <1>18, <1>19,
     <1>20, <1>21, <1>22, <1>23, <1>24, <1>25, <1>26, <1>27, <1>28, <1>29,
     <1>30, <1>31, <1>32, <1>33, <1>34, <1>35, <1>36, <1>37, <1>38, <1>39,
     <1>40, <1>41, <1>42, <1>43, <1>44, <1>45, <1>46, <1>47, <1>48, <1>49,
     <1>50, <1>51, <1>52
  DEF Step, Ialloccg, Filer

LEMMA DiskEffect ==
    ASSUME NEW p \in Procs, Step(p)
    PROVE  /\ entry' = entry \/ Direnter(p) \/ Dirremove(p)
           /\ dentry' = dentry \/ DirenterDone(p) \/ DirremoveDone(p)
           /\ dino' = dino \/ Iupdat(p)
           /\ sino' = sino \/ Bwrite(p)
           /\ iused' = iused \/ IalloccgTake(p) \/ Ifree(p) \/ Ifreeino(p)
           /\ failed \subseteq failed'
<1>1. \A k : Fails(k) => failed \subseteq failed'
  BY DEF Fails
<1>2. ASSUME UNCHANGED disk
      PROVE  entry' = entry /\ dentry' = dentry /\ dino' = dino /\ sino' = sino /\ iused' = iused
  BY <1>2 DEF disk
<1>3. ASSUME UNCHANGED env
      PROVE  failed \subseteq failed'
  BY <1>3 DEF env
<1>4. CASE NameiLocked(p) \/ CloseLocked(p) \/ IgetLocked(p)
  BY <1>2, <1>3, <1>4 DEF NameiLocked, CloseLocked, IgetLocked, SleepOn
<1>5. CASE Call(p)
  BY <1>2, <1>3, <1>5 DEF Call
<1>6. CASE CallClose(p)
  BY <1>2, <1>3, <1>6 DEF CallClose
<1>7. CASE Sync(p)
  BY <1>2, <1>3, <1>7 DEF Sync
<1>8. CASE NameiFound(p)
  BY <1>2, <1>3, <1>8 DEF NameiFound
<1>9. CASE NameiFails(p)
  BY <1>2, <1>3, <1>9 DEF NameiFails
<1>10. CASE IgetHit(p)
  BY <1>2, <1>3, <1>10 DEF IgetHit
<1>11. CASE IgetFull(p)
  BY <1>2, <1>3, <1>11 DEF IgetFull
<1>12. CASE IgetMiss(p)
  BY <1>2, <1>3, <1>12 DEF IgetMiss
<1>13. CASE Iread(p)
  BY <1>2, <1>3, <1>13 DEF Iread
<1>14. CASE NameiMake(p)
  BY <1>2, <1>3, <1>14 DEF NameiMake, NameiFree
<1>15. CASE NameiEnter(p)
  BY <1>2, <1>3, <1>15 DEF NameiEnter, NameiFree
<1>16. CASE NameiError(p)
  BY <1>2, <1>3, <1>16, <1>1 DEF NameiError
<1>17. CASE IreadFails(p)
  BY <1>2, <1>3, <1>17, <1>1 DEF IreadFails
<1>18. CASE DirremoveFails(p)
  BY <1>2, <1>3, <1>18, <1>1 DEF DirremoveFails
<1>19. CASE IfreeFails(p)
  BY <1>2, <1>3, <1>19, <1>1 DEF IfreeFails
<1>20. CASE IupdatFails(p)
  BY <1>2, <1>3, <1>20, <1>1 DEF IupdatFails
<1>21. CASE GotOpen(p)
  BY <1>2, <1>3, <1>21 DEF GotOpen
<1>22. CASE GotLink(p)
  BY <1>2, <1>3, <1>22 DEF GotLink
<1>23. CASE GotExisting(p)
  BY <1>2, <1>3, <1>23 DEF GotExisting
<1>24. CASE GotUnlink(p)
  BY <1>2, <1>3, <1>24 DEF GotUnlink
<1>25. CASE GotNew(p)
  BY <1>2, <1>3, <1>25 DEF GotNew
<1>26. CASE GotInUse(p)
  BY <1>2, <1>3, <1>26 DEF GotInUse
<1>27. CASE GotNull(p)
  BY <1>2, <1>3, <1>27 DEF GotNull
<1>28. CASE MakeNull(p)
  BY <1>2, <1>3, <1>28 DEF MakeNull
<1>29. CASE Opened(p)
  BY <1>2, <1>3, <1>29 DEF Opened
<1>30. CASE OpenedOld(p)
  BY <1>2, <1>3, <1>30 DEF OpenedOld
<1>31. CASE OpenedFails(p)
  BY <1>2, <1>3, <1>31 DEF OpenedFails
<1>32. CASE Granted(p)
  BY <1>2, <1>3, <1>32 DEF Granted
<1>33. CASE Linked(p)
  BY <1>2, <1>3, <1>33 DEF Linked
<1>34. CASE Out(p)
  BY <1>2, <1>3, <1>34 DEF Out
<1>35. CASE Undir(p)
  BY <1>2, <1>3, <1>35 DEF Undir
<1>36. CASE IalloccgTake(p)
  BY <1>2, <1>3, <1>36 DEF IalloccgTake
<1>37. CASE IalloccgNone(p)
  BY <1>2, <1>3, <1>37 DEF IalloccgNone
<1>38. CASE Direnter(p)
  BY <1>2, <1>3, <1>38 DEF Direnter
<1>39. CASE Dirremove(p)
  BY <1>2, <1>3, <1>39 DEF Dirremove
<1>40. CASE Iupdat(p)
  BY <1>2, <1>3, <1>40 DEF Iupdat
<1>41. CASE Bwrite(p)
  BY <1>2, <1>3, <1>41 DEF Bwrite
<1>42. CASE Ifreeino(p)
  BY <1>2, <1>3, <1>42, <1>1 DEF Ifreeino, FreeNumber
<1>43. CASE Ifree(p)
  BY <1>2, <1>3, <1>43, <1>1 DEF Ifree, FreeNumber
<1>44. CASE IalloccgFails(p)
  BY <1>2, <1>3, <1>44, <1>1 DEF IalloccgFails
<1>45. CASE MakeFails(p)
  BY <1>2, <1>3, <1>45, <1>1 DEF MakeFails, DirenterFails
<1>46. CASE EnterFails(p)
  BY <1>2, <1>3, <1>46, <1>1 DEF EnterFails, DirenterFails
<1>47. CASE DirenterDone(p)
  BY <1>2, <1>3, <1>47 DEF DirenterDone, Dirwrite
<1>48. CASE DirremoveDone(p)
  BY <1>2, <1>3, <1>48 DEF DirremoveDone, Dirwrite
<1>49. CASE Close(p)
  BY <1>2, <1>3, <1>49 DEF Close
<1>50. CASE Iput(p)
  BY <1>2, <1>3, <1>50 DEF Iput
<1>51. CASE IreleShared(p)
  BY <1>2, <1>3, <1>51 DEF IreleShared
<1>52. CASE IreleLast(p)
  BY <1>2, <1>3, <1>52 DEF IreleLast
<1>53. CASE IreleUnlinked(p)
  BY <1>2, <1>3, <1>53 DEF IreleUnlinked
<1>54. CASE Truncated(p)
  BY <1>2, <1>3, <1>54 DEF Truncated
<1>55. CASE Release(p)
  BY <1>2, <1>3, <1>55 DEF Release
<1> QED
  BY Step(p), <1>4, <1>5, <1>6, <1>7, <1>8, <1>9, <1>10, <1>11, <1>12, <1>13,
     <1>14, <1>15, <1>16, <1>17, <1>18, <1>19, <1>20, <1>21, <1>22, <1>23,
     <1>24, <1>25, <1>26, <1>27, <1>28, <1>29, <1>30, <1>31, <1>32, <1>33,
     <1>34, <1>35, <1>36, <1>37, <1>38, <1>39, <1>40, <1>41, <1>42, <1>43,
     <1>44, <1>45, <1>46, <1>47, <1>48, <1>49, <1>50, <1>51, <1>52, <1>53,
     <1>54, <1>55
  DEF Step, Ialloccg

\* Who owes a name for an inode has a reference to it.
LEMMA Owes ==
    ASSUME TypeOK, Frames, InodesOK, NEW p \in Procs, NEW t, t = Target(proc[p]),
           Owing(proc[p]) \/ OwingDisk(proc[p])
    PROVE  t \in Slots /\ t # None /\ Refs(p, t) /\ inode[t].ino \in Files /\ inode[t].hashed
<1>1. /\ Frame(proc[p]) /\ HandsOK(p) /\ None \notin Slots
      /\ \A s \in Slots : SlotOK(s)
  BY Assumed DEF Frames, InodesOK
<1>2. t # None /\ (t = proc[p].lp \/ (t = proc[p].ip /\ proc[p].op # "sync" /\ proc[p].ret # "null"))
  <2>1. CASE proc[p].op = "enter"
    <3>1. proc[p].lp # None
      BY <1>1, <2>1 DEF Owing, OwingDisk, Frame, PathOK, RetOK, Ireles
    <3> QED BY <2>1, <3>1 DEF Target
  <2>2. CASE proc[p].op # "enter"
    <3>1. \/ proc[p].pc \in {"direnter", "linked", "dirwrite"}
          \/ proc[p].pc \in {"iupdat", "bwrite"} /\ proc[p].then \in {"direnter", "linked"}
      BY <2>2 DEF Owing, OwingDisk
    <3>2. proc[p].op \in {"make", "link", "unlink"}
      BY <2>2 DEF Owing, OwingDisk
    <3>3. proc[p].ip # None /\ proc[p].ret = "user"
      BY <1>1, <2>2, <3>1 DEF Frame, RetOK, HandOK, Ireles
    <3> QED BY <2>2, <3>2, <3>3 DEF Target
  <2> QED BY <2>1, <2>2
<1>3. t \in Slots
  BY <1>2, Held
<1>4. Refers(proc[p], t)
  BY <1>2 DEF Refers
<1> QED BY <1>1, <1>2, <1>3, <1>4 DEF HandsOK, SlotOK, Refs

\* That inode stays the one of its file.
LEMMA TargetKept ==
    ASSUME CoreInv, NEW p \in Procs, Step(p), NEW q \in Procs, NEW t, t = Target(proc[q]),
           Owing(proc[q]) \/ OwingDisk(proc[q]) \/ (q # p /\ t # None)
    PROVE  inode'[t].ino = inode[t].ino /\ inode'[t].hashed = inode[t].hashed
<1>1. /\ TypeOK /\ Frames /\ DirsOK /\ LocksExact /\ InodesOK /\ CountsExact /\ FreeListExact
      /\ Frame(proc[p])
  BY DEF CoreInv, TableExact, Frames
<1>2. t \in Slots /\ Refs(q, t) /\ t # None
  BY <1>1, Owes, Held DEF Refs, Target
<1>3. CASE q # p
  BY <1>1, <1>2, <1>3, OthersKeep
<1>4. CASE q = p
  <2>1. inode[t].count \in Nat
    BY <1>1, <1>2 DEF TypeOK, Inode, Table
  <2>2. /\ inode[t].count >= 1
        /\ inode[t].count = 1 => (proc[p].ip = t => proc[p].lp # t)
    BY <1>1, <1>2, <1>4, <2>1, Counted
  <2>3. CASE IreadFails(p)
    <3>1. proc[p].pc = "iread" /\ inode[proc[p].ip].count = 1
      BY <1>1, <2>3 DEF IreadFails, At, InodesOK, HandsOK
    <3>2. proc[p].op = "enter"
      BY <1>1, <1>4, <3>1 DEF Owing, OwingDisk, Frame, OpsOK, Lookups
    <3>3. t # proc[p].ip
      BY <1>4, <2>2, <3>1, <3>2 DEF Target
    <3> QED BY <1>1, <1>2, <2>3, <3>3, IreadFailsTable DEF Elsewhere, Table
  <2>4. CASE IgetMiss(p)
    <3>1. Head(freelist) # t
      BY <1>1, <2>2, <2>4, HeadUnused DEF IgetMiss
    <3> QED BY <1>1, <1>2, <2>4, <3>1, IgetMissTable DEF Elsewhere, Table
  <2>5. CASE ~IreadFails(p) /\ ~IgetMiss(p)
    <3>1. CASE Filer(p)
      BY <1>1, <1>2, <2>5, <3>1, IreadTable, GotNewTable, GotLinkTable, MakeFailsTable,
         DirremoveDoneTable, DirremoveFailsTable, OutTable, TruncatedTable
      DEF Filer, Elsewhere, Table, SameFile
    <3>2. CASE ~Filer(p)
      BY <1>1, <1>2, <3>2, FilesEffect DEF FileKept
    <3> QED BY <3>1, <3>2
  <2> QED BY <2>3, <2>4, <2>5
<1> QED BY <1>3, <1>4

\* The five counts of debts change by what p owes before and after its step.
LEMMA Balances ==
    ASSUME CoreInv, NEW p \in Procs, Step(p), NEW s, NEW f
    PROVE  /\ Cardinality(Owed(s))' =
                Cardinality(Owed(s)) - Num(p \in Owed(s)) + Num((p \in Owed(s))')
           /\ Cardinality(OwedDisk(s))' =
                Cardinality(OwedDisk(s)) - Num(p \in OwedDisk(s)) + Num((p \in OwedDisk(s))')
           /\ Cardinality(OwedUpdated(f))' =
                Cardinality(OwedUpdated(f)) - Num(p \in OwedUpdated(f))
                  + Num((p \in OwedUpdated(f))')
           /\ Cardinality(OwedDiskUpdated(f))' =
                Cardinality(OwedDiskUpdated(f)) - Num(p \in OwedDiskUpdated(f))
                  + Num((p \in OwedDiskUpdated(f))')
           /\ Cardinality(OwedDiskWritten(f))' =
                Cardinality(OwedDiskWritten(f)) - Num(p \in OwedDiskWritten(f))
                  + Num((p \in OwedDiskWritten(f))')
           /\ Cardinality(Owed(s)) \in Nat /\ Cardinality(OwedDisk(s)) \in Nat
           /\ Cardinality(OwedUpdated(f)) \in Nat /\ Cardinality(OwedDiskUpdated(f)) \in Nat
           /\ Cardinality(OwedDiskWritten(f)) \in Nat
<1>1. IsFiniteSet(Procs)
  BY Assumed
<1>2. \A q \in Procs \ {p} : proc'[q] = proc[q]
  BY Alone DEF CoreInv
<1>3. \A q \in Procs \ {p} : Of(q, f)' <=> Of(q, f)
  BY <1>2, TargetKept DEF Of
<1>4. ASSUME NEW A, NEW B, A \in SUBSET Procs, B \in SUBSET Procs,
             \A q \in Procs \ {p} : q \in A <=> q \in B
      PROVE  /\ Cardinality(A) \in Nat
             /\ Cardinality(B) = Cardinality(A) - Num(p \in A) + Num(p \in B)
  BY <1>1, <1>4, Differ
<1>5. /\ \A q \in Procs \ {p} : q \in Owed(s) <=> (q \in Owed(s))'
      /\ \A q \in Procs \ {p} : q \in OwedDisk(s) <=> (q \in OwedDisk(s))'
  BY <1>2 DEF Owed, OwedDisk
<1>6. /\ \A q \in Procs \ {p} : q \in OwedUpdated(f) <=> (q \in OwedUpdated(f))'
      /\ \A q \in Procs \ {p} : q \in OwedDiskUpdated(f) <=> (q \in OwedDiskUpdated(f))'
      /\ \A q \in Procs \ {p} : q \in OwedDiskWritten(f) <=> (q \in OwedDiskWritten(f))'
  BY <1>2, <1>3 DEF OwedUpdated, OwedDiskUpdated, OwedDiskWritten
<1>7. /\ Owed(s) \in SUBSET Procs /\ Owed(s)' \in SUBSET Procs
      /\ OwedDisk(s) \in SUBSET Procs /\ OwedDisk(s)' \in SUBSET Procs
      /\ OwedUpdated(f) \in SUBSET Procs /\ OwedUpdated(f)' \in SUBSET Procs
      /\ OwedDiskUpdated(f) \in SUBSET Procs /\ OwedDiskUpdated(f)' \in SUBSET Procs
      /\ OwedDiskWritten(f) \in SUBSET Procs /\ OwedDiskWritten(f)' \in SUBSET Procs
  BY DEF Owed, OwedDisk, OwedUpdated, OwedDiskUpdated, OwedDiskWritten
<1>8. /\ Cardinality(Owed(s)) \in Nat
      /\ Cardinality(Owed(s))' =
           Cardinality(Owed(s)) - Num(p \in Owed(s)) + Num((p \in Owed(s))')
  BY <1>4, <1>5, <1>7
<1>9. /\ Cardinality(OwedDisk(s)) \in Nat
      /\ Cardinality(OwedDisk(s))' =
           Cardinality(OwedDisk(s)) - Num(p \in OwedDisk(s)) + Num((p \in OwedDisk(s))')
  BY <1>4, <1>5, <1>7
<1>10. /\ Cardinality(OwedUpdated(f)) \in Nat
       /\ Cardinality(OwedUpdated(f))' =
            Cardinality(OwedUpdated(f)) - Num(p \in OwedUpdated(f))
              + Num((p \in OwedUpdated(f))')
  BY <1>4, <1>6, <1>7
<1>11. /\ Cardinality(OwedDiskUpdated(f)) \in Nat
       /\ Cardinality(OwedDiskUpdated(f))' =
            Cardinality(OwedDiskUpdated(f)) - Num(p \in OwedDiskUpdated(f))
              + Num((p \in OwedDiskUpdated(f))')
  BY <1>4, <1>6, <1>7
<1>12. /\ Cardinality(OwedDiskWritten(f)) \in Nat
       /\ Cardinality(OwedDiskWritten(f))' =
            Cardinality(OwedDiskWritten(f)) - Num(p \in OwedDiskWritten(f))
              + Num((p \in OwedDiskWritten(f))')
  BY <1>4, <1>6, <1>7
<1> QED BY <1>8, <1>9, <1>10, <1>11, <1>12

\* The names of a file, in the buffer cache and on the disk.
LEMMA NamesMove ==
    ASSUME CoreInv, WorkOK, NEW p \in Procs, Step(p), NEW f \in Files,
           NEW t, t = Target(proc[p])
    PROVE  /\ Links(entry, f) \in Nat /\ Links(dentry, f) \in Nat
           /\ Direnter(p) =>
                Links(entry', f) = Links(entry, f) + Num(inode[t].ino = f)
           /\ Dirremove(p) =>
                Links(entry', f) = Links(entry, f) - Num(inode[t].ino = f)
           /\ ~Direnter(p) /\ ~Dirremove(p) => Links(entry', f) = Links(entry, f)
           /\ DirenterDone(p) =>
                Links(dentry', f) = Links(dentry, f) + Num(inode[t].ino = f)
           /\ DirremoveDone(p) =>
                Links(dentry', f) = Links(dentry, f) - Num(inode[t].ino = f)
           /\ ~DirenterDone(p) /\ ~DirremoveDone(p) => Links(dentry', f) = Links(dentry, f)
<1>1. /\ entry \in [Paths -> Inos] /\ dentry \in [Paths -> Inos] /\ Frame(proc[p])
      /\ NameOK(p) /\ None # f
  BY Assumed DEF CoreInv, TypeOK, Frames, WorkOK
<1>2. \A l : At(p, l) => proc[p].pc = l
  BY DEF At
<1>3. Links(entry, f) \in Nat /\ Links(dentry, f) \in Nat
  BY LinksType
<1>4. proc[p].at # None => proc[p].at \in Paths
  BY DirOf DEF CoreInv
<1>5. Num(FALSE) = 0 /\ Num(None = f) = 0
  BY <1>1 DEF Num
<1>10. ASSUME NEW a \in Paths, NEW i
       PROVE  /\ entry' = [entry EXCEPT ![a] = i] =>
                   Links(entry', f) = Links(entry, f) - Num(entry[a] = f) + Num(i = f)
              /\ dentry' = [dentry EXCEPT ![a] = i] =>
                   Links(dentry', f) = Links(dentry, f) - Num(dentry[a] = f) + Num(i = f)
  <2>1. ASSUME NEW d, NEW e, d \in [Paths -> Inos], e = [d EXCEPT ![a] = i]
        PROVE  Links(e, f) = Links(d, f) - Num(d[a] = f) + Num(i = f)
    <3>1. e[a] = i /\ \A b \in Paths \ {a} : e[b] = d[b]
      BY <2>1
    <3>2. Links(e, f) = Links(d, f) - Num(d[a] = f) + Num(e[a] = f)
      BY <3>1, LinksChange
    <3> QED BY <3>1, <3>2
  <2> QED BY <1>1, <2>1
<1>6. ASSUME Direnter(p)
      PROVE  Links(entry', f) = Links(entry, f) + Num(inode[t].ino = f)
  <2>1. proc[p].pc = "direnter" /\ entry' = [entry EXCEPT ![proc[p].at] = Entered(p)]
    BY <1>2, <1>6 DEF Direnter
  <2>2. proc[p].op \in {"make", "enter"} /\ proc[p].at # None
    BY <1>1, <2>1 DEF Frame, OpsOK, PathOK
  <2>3. Entered(p) = inode[t].ino
    BY <2>2 DEF Entered, Target
  <2>4. entry[proc[p].at] = None
    BY <1>1, <2>1 DEF NameOK, Vacant
  <2>5. Num(entry[proc[p].at] = f) = 0
    BY <1>5, <2>4
  <2>6. Links(entry', f) = Links(entry, f) - Num(entry[proc[p].at] = f) + Num(Entered(p) = f)
    BY <1>4, <1>10, <2>1, <2>2
  <2>7. Num(Entered(p) = f) = Num(inode[t].ino = f) /\ Num(inode[t].ino = f) \in Int
    BY <2>3 DEF Num
  <2> QED BY <1>3, <2>5, <2>6, <2>7
<1>7. ASSUME Dirremove(p)
      PROVE  Links(entry', f) = Links(entry, f) - Num(inode[t].ino = f)
  <2>1. proc[p].pc = "dirremove" /\ entry' = [entry EXCEPT ![proc[p].at] = None]
    BY <1>2, <1>7 DEF Dirremove
  <2>2. proc[p].op = "unlink" /\ proc[p].at # None
    BY <1>1, <2>1 DEF Frame, OpsOK, PathOK
  <2>3. entry[proc[p].at] = inode[t].ino
    BY <1>1, <2>1, <2>2 DEF NameOK, Target
  <2>4. Links(entry', f) = Links(entry, f) - Num(entry[proc[p].at] = f) + Num(None = f)
    BY <1>4, <1>10, <2>1, <2>2
  <2>5. Num(entry[proc[p].at] = f) = Num(inode[t].ino = f) /\ Num(inode[t].ino = f) \in Int
    BY <2>3 DEF Num
  <2> QED BY <1>3, <1>5, <2>4, <2>5
<1>8. ASSUME DirenterDone(p)
      PROVE  Links(dentry', f) = Links(dentry, f) + Num(inode[t].ino = f)
  <2>1. /\ proc[p].pc = "dirwrite" /\ proc[p].op \in {"make", "enter"}
        /\ dentry' = [dentry EXCEPT ![proc[p].at] = entry[proc[p].at]]
    BY <1>2, <1>8 DEF DirenterDone, Dirwrite
  <2>2. proc[p].at # None
    BY <1>1, <2>1 DEF Frame, PathOK
  <2>3. entry[proc[p].at] = inode[t].ino /\ dentry[proc[p].at] = None
    BY <1>1, <2>1 DEF NameOK, Target
  <2>4. Links(dentry', f) =
          Links(dentry, f) - Num(dentry[proc[p].at] = f) + Num(entry[proc[p].at] = f)
    BY <1>4, <1>10, <2>1, <2>2
  <2>5. Num(entry[proc[p].at] = f) = Num(inode[t].ino = f) /\ Num(inode[t].ino = f) \in Int
    BY <2>3 DEF Num
  <2>6. Num(dentry[proc[p].at] = f) = 0
    BY <1>5, <2>3
  <2> QED BY <1>3, <2>4, <2>5, <2>6
<1>9. ASSUME DirremoveDone(p)
      PROVE  Links(dentry', f) = Links(dentry, f) - Num(inode[t].ino = f)
  <2>1. /\ proc[p].pc = "dirwrite" /\ proc[p].op = "unlink"
        /\ dentry' = [dentry EXCEPT ![proc[p].at] = entry[proc[p].at]]
    BY <1>2, <1>9 DEF DirremoveDone, Dirwrite
  <2>2. proc[p].at # None
    BY <1>1, <2>1 DEF Frame, PathOK
  <2>3. entry[proc[p].at] = None /\ dentry[proc[p].at] = inode[t].ino
    BY <1>1, <2>1 DEF NameOK, Target
  <2>4. Links(dentry', f) =
          Links(dentry, f) - Num(dentry[proc[p].at] = f) + Num(entry[proc[p].at] = f)
    BY <1>4, <1>10, <2>1, <2>2
  <2>5. Num(dentry[proc[p].at] = f) = Num(inode[t].ino = f) /\ Num(inode[t].ino = f) \in Int
    BY <2>3 DEF Num
  <2>6. Num(entry[proc[p].at] = f) = 0
    BY <1>5, <2>3
  <2> QED BY <1>3, <2>4, <2>5, <2>6
<1> QED BY <1>3, <1>6, <1>7, <1>8, <1>9, DiskEffect

\* The disk's counts cover the same names and debts after a step, except where
\* the inode itself comes to the buffer cache or to the disk.
LEMMA DebtsBalance ==
    ASSUME CoreInv, WorkOK, NEW p \in Procs, Step(p), NEW f \in Files,
           NEW r, r = proc[p], NEW q, q = proc'[p], NEW t, t = Target(r)
    PROVE  /\ \/ Links(entry', f) + Cardinality(OwedUpdated(f))'
                    <= Links(entry, f) + Cardinality(OwedUpdated(f))
              \/ Iupdat(p) /\ inode[proc[p].ip].ino = f
           /\ \/ Links(dentry', f) + Cardinality(OwedDiskUpdated(f))'
                    <= Links(dentry, f) + Cardinality(OwedDiskUpdated(f))
              \/ Iupdat(p) /\ inode[proc[p].ip].ino = f
           /\ \/ Links(dentry', f) + Cardinality(OwedDiskWritten(f))'
                    <= Links(dentry, f) + Cardinality(OwedDiskWritten(f))
              \/ Bwrite(p) /\ inode[proc[p].ip].ino = f
<1> DEFINE U == p \in OwedUpdated(f)
           V == p \in OwedDiskUpdated(f)
           W == p \in OwedDiskWritten(f)
           UU == (p \in OwedUpdated(f))'
           VV == (p \in OwedDiskUpdated(f))'
           WW == (p \in OwedDiskWritten(f))'
<1>1. /\ TypeOK /\ Frames /\ InodesOK /\ Frame(r) /\ CalmOK(r)
      /\ proc \in [Procs -> Process] /\ r \in Process
  BY DEF CoreInv, WorkOK, Frames, TypeOK
<1>2. /\ Links(entry, f) \in Nat /\ Links(dentry, f) \in Nat
      /\ Direnter(p) => Links(entry', f) = Links(entry, f) + Num(inode[t].ino = f)
      /\ Dirremove(p) => Links(entry', f) = Links(entry, f) - Num(inode[t].ino = f)
      /\ ~Direnter(p) /\ ~Dirremove(p) => Links(entry', f) = Links(entry, f)
      /\ DirenterDone(p) => Links(dentry', f) = Links(dentry, f) + Num(inode[t].ino = f)
      /\ DirremoveDone(p) => Links(dentry', f) = Links(dentry, f) - Num(inode[t].ino = f)
      /\ ~DirenterDone(p) /\ ~DirremoveDone(p) => Links(dentry', f) = Links(dentry, f)
  BY NamesMove
<1>3. /\ Cardinality(OwedUpdated(f))' = Cardinality(OwedUpdated(f)) - Num(U) + Num(UU)
      /\ Cardinality(OwedDiskUpdated(f))' = Cardinality(OwedDiskUpdated(f)) - Num(V) + Num(VV)
      /\ Cardinality(OwedDiskWritten(f))' = Cardinality(OwedDiskWritten(f)) - Num(W) + Num(WW)
      /\ Cardinality(OwedUpdated(f)) \in Nat /\ Cardinality(OwedDiskUpdated(f)) \in Nat
      /\ Cardinality(OwedDiskWritten(f)) \in Nat
  BY Balances
<1>4. /\ U <=> Owing(r) /\ r.op # "unlink" /\ Updated(r) /\ Of(p, f)
      /\ V <=> OwingDisk(r) /\ Updated(r) /\ Of(p, f)
      /\ W <=> OwingDisk(r) /\ Written(r) /\ Of(p, f)
  BY DEF OwedUpdated, OwedDiskUpdated, OwedDiskWritten
<1>5. /\ UU <=> Owing(q) /\ q.op # "unlink" /\ Updated(q) /\ Of(p, f)'
      /\ VV <=> OwingDisk(q) /\ Updated(q) /\ Of(p, f)'
      /\ WW <=> OwingDisk(q) /\ Written(q) /\ Of(p, f)'
  BY DEF OwedUpdated, OwedDiskUpdated, OwedDiskWritten
<1>6. Of(p, f)' <=> Target(q) # None /\ inode'[Target(q)].ino = f
  BY DEF Of
<1>7. Owing(r) \/ OwingDisk(r) =>
        t # None /\ inode'[t].ino = inode[t].ino /\ (Of(p, f) <=> inode[t].ino = f)
  <2>1. ASSUME Owing(r) \/ OwingDisk(r)
        PROVE  inode'[t].ino = inode[t].ino
    BY <2>1, TargetKept
  <2> QED BY <1>1, <2>1, Owes DEF Of
<1>8. \A b \in BOOLEAN : Num(b) \in 0 .. 1 /\ (b => Num(b) = 1) /\ (~b => Num(b) = 0)
  BY DEF Num
<1>9. (inode[t].ino = f) \in BOOLEAN
  OBVIOUS
<1>10. /\ U \in BOOLEAN /\ V \in BOOLEAN /\ W \in BOOLEAN
       /\ UU \in BOOLEAN /\ VV \in BOOLEAN /\ WW \in BOOLEAN
  OBVIOUS
<1> HIDE DEF U, V, W, UU, VV, WW
<1>11. \A l : At(p, l) => r.pc = l
  BY DEF At
<1>12. ASSUME ~UU \/ U, ~VV \/ V, ~WW \/ W,
              ~Direnter(p), ~DirenterDone(p)
       PROVE  /\ Links(entry', f) + Cardinality(OwedUpdated(f))'
                    <= Links(entry, f) + Cardinality(OwedUpdated(f))
              /\ Links(dentry', f) + Cardinality(OwedDiskUpdated(f))'
                    <= Links(dentry, f) + Cardinality(OwedDiskUpdated(f))
              /\ Links(dentry', f) + Cardinality(OwedDiskWritten(f))'
                    <= Links(dentry, f) + Cardinality(OwedDiskWritten(f))
  <2>1. Num(UU) <= Num(U) /\ Num(VV) <= Num(V) /\ Num(WW) <= Num(W)
    BY <1>8, <1>10, <1>12
  <2>2. /\ Num(UU) \in 0 .. 1 /\ Num(U) \in 0 .. 1 /\ Num(VV) \in 0 .. 1
        /\ Num(V) \in 0 .. 1 /\ Num(WW) \in 0 .. 1 /\ Num(W) \in 0 .. 1
        /\ Num(inode[t].ino = f) \in 0 .. 1
    BY <1>8, <1>9, <1>10
  <2>3. Links(entry', f) \in Int /\ Links(entry', f) <= Links(entry, f)
    BY <1>2, <1>12, <2>2
  <2>4. Links(dentry', f) \in Int /\ Links(dentry', f) <= Links(dentry, f)
    BY <1>2, <1>12, <2>2
  <2>5. /\ Cardinality(OwedUpdated(f))' \in Int
        /\ Cardinality(OwedUpdated(f))' <= Cardinality(OwedUpdated(f))
        /\ Cardinality(OwedDiskUpdated(f))' \in Int
        /\ Cardinality(OwedDiskUpdated(f))' <= Cardinality(OwedDiskUpdated(f))
        /\ Cardinality(OwedDiskWritten(f))' \in Int
        /\ Cardinality(OwedDiskWritten(f))' <= Cardinality(OwedDiskWritten(f))
    BY <1>3, <2>1, <2>2
  <2> QED BY <1>2, <1>3, <2>3, <2>4, <2>5
<1>13. CASE GotNew(p) \/ GotLink(p)
  <2>1. ~UU /\ ~VV /\ ~WW
    BY <1>1, <1>5, <1>13, Debts
  <2>2. ~Direnter(p) /\ ~DirenterDone(p)
    BY <1>11, <1>13 DEF GotNew, GotLink, Direnter, DirenterDone, Dirwrite
  <2> QED BY <1>12, <2>1, <2>2
<1>14. CASE MakeFails(p) \/ Dirremove(p) \/ DirremoveDone(p) \/ Out(p)
  <2>1. ~UU /\ ~VV /\ ~WW
    BY <1>1, <1>5, <1>14, Debts
  <2>2. ~Direnter(p) /\ ~DirenterDone(p)
    <3>1. r.op = "unlink" \/ r.pc # "dirwrite"
      BY <1>11, <1>14 DEF MakeFails, DirenterFails, Dirremove, DirremoveDone, Dirwrite, Out
    <3>2. r.pc = "direnter" => MakeFails(p)
      BY <1>1, <1>11, <1>14 DEF Dirremove, DirremoveDone, Dirwrite, Out
    <3>3. MakeFails(p) => ~Direnter(p)
      <4>1. MakeFails(p) => q.pc = "irele"
        BY <1>1 DEF MakeFails, Go, Process
      <4>2. Direnter(p) => q.pc = "dirwrite"
        BY <1>1 DEF Direnter, Go, Process
      <4> QED BY <4>1, <4>2
    <3> QED BY <1>11, <3>1, <3>2, <3>3 DEF Direnter, DirenterDone, Dirwrite
  <2> QED BY <1>12, <2>1, <2>2
<1>15. CASE Direnter(p)
  <2>1. (U <=> inode[t].ino = f) /\ ~UU
    BY <1>1, <1>4, <1>5, <1>7, <1>15, Debts
  <2>2. (VV => V) /\ (WW => W)
    <3>1. /\ OwingDisk(r) /\ Updated(r) /\ Written(r) /\ Target(q) = t
      BY <1>1, <1>15, Debts
    <3>2. VV \/ WW => Of(p, f)
      BY <1>5, <1>6, <1>7, <3>1
    <3> QED BY <1>4, <3>1, <3>2
  <2>3. ~DirenterDone(p) /\ ~DirremoveDone(p)
    BY <1>11, <1>15 DEF Direnter, DirenterDone, DirremoveDone, Dirwrite
  <2>4. Num(U) = Num(inode[t].ino = f) /\ Num(UU) = 0 /\ Num(VV) <= Num(V) /\ Num(WW) <= Num(W)
    BY <1>8, <1>9, <1>10, <2>1, <2>2
  <2>5. /\ Num(U) \in 0 .. 1 /\ Num(V) \in 0 .. 1 /\ Num(W) \in 0 .. 1
        /\ Num(VV) \in 0 .. 1 /\ Num(WW) \in 0 .. 1
    BY <1>8, <1>10
  <2>6. Links(entry', f) = Links(entry, f) + Num(U) /\ Links(dentry', f) = Links(dentry, f)
    BY <1>2, <1>15, <2>3, <2>4
  <2> QED BY <1>2, <1>3, <2>4, <2>5, <2>6
<1>16. CASE DirenterDone(p)
  <2>1. (V <=> inode[t].ino = f) /\ (W <=> inode[t].ino = f) /\ ~U /\ ~UU /\ ~VV /\ ~WW
    BY <1>1, <1>4, <1>5, <1>7, <1>16, Debts
  <2>2. ~Direnter(p) /\ ~Dirremove(p) /\ ~DirremoveDone(p)
    BY <1>11, <1>16 DEF Direnter, DirenterDone, Dirremove, DirremoveDone, Dirwrite
  <2>4. /\ Num(V) = Num(inode[t].ino = f) /\ Num(W) = Num(inode[t].ino = f)
        /\ Num(U) = 0 /\ Num(UU) = 0 /\ Num(VV) = 0 /\ Num(WW) = 0
    BY <1>8, <1>9, <1>10, <2>1
  <2>5. Num(inode[t].ino = f) \in 0 .. 1
    BY <1>8, <1>9
  <2>6. /\ Links(entry', f) = Links(entry, f)
        /\ Links(dentry', f) = Links(dentry, f) + Num(inode[t].ino = f)
    BY <1>2, <1>16, <2>2
  <2> QED BY <1>2, <1>3, <2>4, <2>5, <2>6
<1>17. CASE ~Debtor(p)
  <2>1. /\ DebtSame(p) /\ WritesLess(p)
        /\ ~Direnter(p) /\ ~DirenterDone(p)
    BY <1>1, <1>17, Moves DEF Debtor
  <2>2. /\ Owing(q) => Owing(r) /\ (q.op = "unlink" <=> r.op = "unlink")
        /\ OwingDisk(q) => OwingDisk(r)
        /\ Owing(q) \/ OwingDisk(q) => (Of(p, f)' <=> Of(p, f))
    BY <1>6, <1>7, <2>1 DEF DebtSame
  <2>3. ASSUME Iupdat(p)
        PROVE  /\ r.pc = "iupdat" /\ q.err = r.err
               /\ q.pc \in {"bwrite", r.then} /\ q.then = r.then
    BY <1>1, <1>11, <2>3 DEF Iupdat, Go, Process
  <2>4. ASSUME Bwrite(p)
        PROVE  r.pc = "bwrite" /\ q.err = r.err /\ q.pc = r.then /\ q.then = r.then
    BY <1>1, <1>11, <2>4 DEF Bwrite, Go, Process
  <2>5. ASSUME OwingDisk(r) \/ (Owing(r) /\ r.op # "unlink"), ToDisk(r),
               r.pc \in {"iupdat", "bwrite"}, Of(p, f)
        PROVE  inode[proc[p].ip].ino = f
    <3>1. r.op # "enter"
      BY <1>1, <2>5 DEF Frame, ThenOK, ToDisk
    <3> QED BY <2>5, <3>1 DEF Of, Target
  <2>6. ASSUME UU \/ VV
        PROVE  Updated(q) /\ Of(p, f) /\ OwingDisk(r)
    <3>1. OwingDisk(r)
      BY <1>5, <2>2, <2>6 DEF OwingDisk
    <3> QED BY <1>5, <2>2, <2>6, <3>1
  <2>7. ASSUME UU \/ VV, ~Updated(r)
        PROVE  Iupdat(p) /\ inode[proc[p].ip].ino = f
    <3>1. Iupdat(p)
      BY <2>1, <2>6, <2>7 DEF WritesLess
    <3>2. ToDisk(r)
      BY <2>3, <2>6, <2>7, <3>1 DEF Updated
    <3> QED BY <2>3, <2>5, <2>6, <2>7, <3>1, <3>2
  <2>8. ASSUME WW, ~Written(r)
        PROVE  Bwrite(p) /\ inode[proc[p].ip].ino = f
    <3>1. Written(q) /\ Of(p, f) /\ OwingDisk(r)
      BY <1>5, <2>2, <2>8
    <3>2. Bwrite(p)
      BY <2>1, <2>8, <3>1 DEF WritesLess
    <3>3. ToDisk(r)
      BY <2>4, <2>8, <3>1, <3>2 DEF Updated, Written
    <3> QED BY <2>4, <2>5, <3>1, <3>2, <3>3
  <2>9. UU => U \/ (Iupdat(p) /\ inode[proc[p].ip].ino = f)
    BY <1>4, <1>5, <2>2, <2>7
  <2>10. VV => V \/ (Iupdat(p) /\ inode[proc[p].ip].ino = f)
    BY <1>4, <1>5, <2>2, <2>7
  <2>11. WW => W \/ (Bwrite(p) /\ inode[proc[p].ip].ino = f)
    BY <1>4, <1>5, <2>2, <2>8
  <2>12. Links(entry', f) = Links(entry, f) /\ Links(dentry', f) = Links(dentry, f)
    BY <1>2, <1>17 DEF Debtor
  <2>13. \/ Cardinality(OwedUpdated(f))' <= Cardinality(OwedUpdated(f))
         \/ Iupdat(p) /\ inode[proc[p].ip].ino = f
    <3>1. CASE UU => U
      <4>1. Num(UU) <= Num(U) /\ Num(UU) \in 0 .. 1 /\ Num(U) \in 0 .. 1
        BY <1>8, <1>10, <3>1
      <4> QED BY <1>3, <4>1
    <3> QED BY <2>9, <3>1
  <2>14. \/ Cardinality(OwedDiskUpdated(f))' <= Cardinality(OwedDiskUpdated(f))
         \/ Iupdat(p) /\ inode[proc[p].ip].ino = f
    <3>1. CASE VV => V
      <4>1. Num(VV) <= Num(V) /\ Num(VV) \in 0 .. 1 /\ Num(V) \in 0 .. 1
        BY <1>8, <1>10, <3>1
      <4> QED BY <1>3, <4>1
    <3> QED BY <2>10, <3>1
  <2>15. \/ Cardinality(OwedDiskWritten(f))' <= Cardinality(OwedDiskWritten(f))
         \/ Bwrite(p) /\ inode[proc[p].ip].ino = f
    <3>1. CASE WW => W
      <4>1. Num(WW) <= Num(W) /\ Num(WW) \in 0 .. 1 /\ Num(W) \in 0 .. 1
        BY <1>8, <1>10, <3>1
      <4> QED BY <1>3, <4>1
    <3> QED BY <2>11, <3>1
  <2>16. /\ Cardinality(OwedUpdated(f))' \in Int
         /\ Cardinality(OwedDiskUpdated(f))' \in Int
         /\ Cardinality(OwedDiskWritten(f))' \in Int
    BY <1>3, <1>8, <1>10
  <2>17. \/ Links(entry', f) + Cardinality(OwedUpdated(f))'
               <= Links(entry, f) + Cardinality(OwedUpdated(f))
         \/ Iupdat(p) /\ inode[proc[p].ip].ino = f
    BY <1>2, <1>3, <2>12, <2>13, <2>16
  <2>18. \/ Links(dentry', f) + Cardinality(OwedDiskUpdated(f))'
               <= Links(dentry, f) + Cardinality(OwedDiskUpdated(f))
         \/ Iupdat(p) /\ inode[proc[p].ip].ino = f
    BY <1>2, <1>3, <2>12, <2>14, <2>16
  <2>19. \/ Links(dentry', f) + Cardinality(OwedDiskWritten(f))'
               <= Links(dentry, f) + Cardinality(OwedDiskWritten(f))
         \/ Bwrite(p) /\ inode[proc[p].ip].ino = f
    BY <1>2, <1>3, <2>12, <2>15, <2>16
  <2> QED BY <2>17, <2>18, <2>19
<1> QED BY <1>13, <1>14, <1>15, <1>16, <1>17 DEF Debtor

\* Nobody reads an inode that p has locked for something else.
LEMMA NotRead ==
    ASSUME LocksExact, NEW p \in Procs, NEW s \in Slots, HasFile(p, s), proc[p].pc # "iread"
    PROVE  ~Reading(s)
<1> SUFFICES ASSUME NEW q \in Procs, proc[q].pc = "iread", proc[q].ip = s PROVE FALSE
  BY DEF Reading
<1>1. Has(p, s) /\ Has(q, s)
  BY DEF Has, HasFile
<1> QED BY <1>1 DEF LocksExact, LockExact, Table

\* Who owes a name of a file has its inode in core.
LEMMA OwedIsCached ==
    ASSUME CoreInv, NEW f \in Files, NEW s \in Slots, Found(s, f), NEW q \in Procs,
           Owing(proc[q]) \/ OwingDisk(proc[q])
    PROVE  Of(q, f) <=> Target(proc[q]) = s
<1>1. TypeOK /\ Frames /\ InodesOK /\ OneCopy
  BY DEF CoreInv, TableExact
<1> DEFINE t == Target(proc[q])
<1>2. t \in Slots /\ t # None /\ inode[t].hashed
  BY <1>1, Owes
<1> QED BY <1>1, <1>2 DEF Of, OneCopy, Found

\* The counts of the inodes in the buffer cache and on the disk.
LEMMA DiskCountsStep ==
    ASSUME CoreInv, WorkOK, LinksOK, NEW p \in Procs, Step(p), NEW f \in Files
    PROVE  DiskCounts(f)'
<1> DEFINE s == proc[p].ip
<1>1. /\ TypeOK /\ Frames /\ InodesOK /\ LocksExact /\ OneCopy /\ Frame(proc[p])
      /\ proc \in [Procs -> Process] /\ CalmOK(proc[p])
      /\ dino \in [Inos -> Dinode] /\ sino \in [Inos -> Dinode] /\ f \in Inos
  BY DEF CoreInv, TableExact, Frames, TypeOK, WorkOK, Inos
<1>2. DiskCounts(f) /\ \A t \in Slots : CoreCounts(t, f)
  BY DEF LinksOK
<1>3. \A l : At(p, l) => proc[p].pc = l
  BY DEF At
<1>4. /\ Links(entry, f) \in Nat /\ Links(dentry, f) \in Nat
      /\ Cardinality(OwedUpdated(f)) \in Nat /\ Cardinality(OwedDiskUpdated(f)) \in Nat
      /\ Cardinality(OwedDiskWritten(f)) \in Nat
  BY NamesMove, Balances
<1>5. dino[f].nlink \in Int /\ sino[f].nlink \in Int
  BY <1>1 DEF Dinode
<1>6. /\ Links(entry', f) \in Nat /\ Links(dentry', f) \in Nat
      /\ Cardinality(OwedUpdated(f))' \in Nat /\ Cardinality(OwedDiskUpdated(f))' \in Nat
      /\ Cardinality(OwedDiskWritten(f))' \in Nat
  <2>1. /\ OwedUpdated(f)' \in SUBSET Procs /\ OwedDiskUpdated(f)' \in SUBSET Procs
        /\ OwedDiskWritten(f)' \in SUBSET Procs
    BY DEF OwedUpdated, OwedDiskUpdated, OwedDiskWritten
  <2>2. \A A \in SUBSET Procs : Cardinality(A) \in Nat
    BY Fewer
  <2> QED BY <2>1, <2>2, LinksType
<1>7. Links(entry, f)' = Links(entry', f) /\ Links(dentry, f)' = Links(dentry', f)
  BY DEF Links
<1>8. /\ dino'[f] = dino[f] \/ Iupdat(p)
      /\ sino'[f] = sino[f] \/ Bwrite(p)
  BY DiskEffect
<1>9. ASSUME Iupdat(p) \/ Bwrite(p)
      PROVE  ~(Iupdat(p) /\ Bwrite(p)) /\ s \in Slots
  <2>1. proc[p].pc \in {"iupdat", "bwrite"} /\ ~(Iupdat(p) /\ Bwrite(p))
    BY <1>3, <1>9 DEF Iupdat, Bwrite
  <2>2. s # None
    BY <1>1, <2>1 DEF Frame, HandOK, Ireles
  <2> QED BY <1>1, <2>1, <2>2, Held
<1>10. ASSUME Iupdat(p)
       PROVE  /\ inode[s].ino = f =>
                   dino'[f].mode = inode[s].mode /\ dino'[f].nlink = inode[s].nlink
              /\ inode[s].ino # f => dino'[f] = dino[f]
  BY <1>1, <1>10 DEF Iupdat
<1>11. ASSUME Bwrite(p)
       PROVE  sino'[f] = IF inode[s].ino = f THEN dino[f] ELSE sino[f]
  BY <1>1, <1>11 DEF Bwrite
<1>12. CASE Iupdat(p) /\ inode[s].ino = f
  <2>1. HasFile(p, s) /\ proc[p].pc = "iupdat"
    BY <1>3, <1>12 DEF HasFile, Iupdat
  <2>2. ~Reading(s) /\ s \in Slots
    BY <1>1, <1>9, <1>12, <2>1, NotRead
  <2>3. Found(s, f)
    BY <1>1, <1>12, <2>2 DEF InodesOK, SlotOK, Found
  <2>4. CoreCounts(s, f) /\ Cached(s, f)
    BY <1>2, <2>2, <2>3 DEF Cached
  <2>5. \A q \in Procs \ {p} : proc'[q] = proc[q]
    BY <1>1, Alone
  <2>6. DebtSame(p)
    <3>1. ~Debtor(p)
      BY <1>3, <2>1 DEF Debtor, GotNew, GotLink, Direnter, MakeFails, DirenterFails,
         DirenterDone, Dirwrite, Dirremove, DirremoveDone, Out
    <3> QED BY <1>1, <3>1, Moves
  <2>7. ASSUME NEW q \in Procs, Owing(proc'[q]) \/ OwingDisk(proc'[q]), Of(q, f)'
        PROVE  /\ Owing(proc'[q]) => q \in Owed(s)
               /\ OwingDisk(proc'[q]) => q \in OwedDisk(s)
    <3>1. /\ Owing(proc'[q]) <=> Owing(proc[q])
          /\ OwingDisk(proc'[q]) <=> OwingDisk(proc[q])
          /\ Target(proc'[q]) = Target(proc[q])
      BY <2>5, <2>6, <2>7 DEF DebtSame
    <3>2. inode'[Target(proc[q])].ino = inode[Target(proc[q])].ino
      BY <2>7, <3>1, TargetKept
    <3>3. Of(q, f)
      BY <2>7, <3>1, <3>2 DEF Of
    <3>4. Target(proc[q]) = s
      BY <2>2, <2>3, <2>7, <3>1, <3>3, OwedIsCached
    <3> QED BY <3>1, <3>4 DEF Owed, OwedDisk
  <2>8. OwedUpdated(f)' \subseteq Owed(s) /\ OwedDiskUpdated(f)' \subseteq OwedDisk(s)
    BY <2>7 DEF OwedUpdated, OwedDiskUpdated
  <2>9. /\ Cardinality(OwedUpdated(f))' <= Cardinality(Owed(s))
        /\ Cardinality(OwedDiskUpdated(f))' <= Cardinality(OwedDisk(s))
        /\ Cardinality(Owed(s)) \in Nat /\ Cardinality(OwedDisk(s)) \in Nat
    <3>1. Owed(s) \in SUBSET Procs /\ OwedDisk(s) \in SUBSET Procs
      BY DEF Owed, OwedDisk
    <3> QED BY <2>8, <3>1, Fewer
  <2>10. Links(entry', f) = Links(entry, f) /\ Links(dentry', f) = Links(dentry, f)
    <3>1. ~Direnter(p) /\ ~Dirremove(p) /\ ~DirenterDone(p) /\ ~DirremoveDone(p)
      BY <1>3, <2>1 DEF Direnter, Dirremove, DirenterDone, DirremoveDone, Dirwrite
    <3> QED BY <3>1, NamesMove
  <2>11. /\ inode[s].nlink >= Links(entry, f) + Cardinality(Owed(s))
         /\ inode[s].nlink >= Links(dentry, f) + Cardinality(OwedDisk(s))
         /\ inode[s].nlink > 0 => inode[s].mode
    BY <2>4 DEF CoreCounts
  <2>12. inode[s].nlink \in Int
    BY <1>1, <2>2 DEF TypeOK, Inode, Table
  <2>13. /\ dino'[f].nlink >= Links(entry', f) + Cardinality(OwedUpdated(f))'
         /\ dino'[f].nlink >= Links(dentry', f) + Cardinality(OwedDiskUpdated(f))'
         /\ dino'[f].nlink > 0 => dino'[f].mode
    BY <1>4, <1>6, <1>10, <1>12, <2>9, <2>10, <2>11, <2>12
  <2>14. sino'[f] = sino[f]
    BY <1>8, <1>9, <1>12
  <2>15. Links(dentry', f) + Cardinality(OwedDiskWritten(f))'
           <= Links(dentry, f) + Cardinality(OwedDiskWritten(f))
    BY <1>9, <1>12, DebtsBalance
  <2>16. /\ sino'[f].nlink >= Links(dentry', f) + Cardinality(OwedDiskWritten(f))'
         /\ sino'[f].nlink > 0 => sino'[f].mode
    BY <1>2, <1>4, <1>5, <1>6, <2>14, <2>15 DEF DiskCounts
  <2> QED BY <1>7, <2>13, <2>16 DEF DiskCounts
<1>13. CASE ~(Iupdat(p) /\ inode[s].ino = f)
  <2>1. dino'[f] = dino[f]
    BY <1>8, <1>10, <1>13
  <2>2. /\ Links(entry', f) + Cardinality(OwedUpdated(f))'
             <= Links(entry, f) + Cardinality(OwedUpdated(f))
        /\ Links(dentry', f) + Cardinality(OwedDiskUpdated(f))'
             <= Links(dentry, f) + Cardinality(OwedDiskUpdated(f))
    BY <1>13, DebtsBalance
  <2>3. /\ dino'[f].nlink >= Links(entry', f) + Cardinality(OwedUpdated(f))'
        /\ dino'[f].nlink >= Links(dentry', f) + Cardinality(OwedDiskUpdated(f))'
        /\ dino'[f].nlink > 0 => dino'[f].mode
    BY <1>2, <1>4, <1>5, <1>6, <2>1, <2>2 DEF DiskCounts
  <2>4. /\ sino'[f].nlink >= Links(dentry', f) + Cardinality(OwedDiskWritten(f))'
        /\ sino'[f].nlink > 0 => sino'[f].mode
    <3>1. CASE Bwrite(p) /\ inode[s].ino = f
      <4>1. OwedDiskWritten(f)' \subseteq OwedDiskUpdated(f)'
        BY DEF OwedDiskWritten, OwedDiskUpdated, Written
      <4>2. Cardinality(OwedDiskWritten(f))' <= Cardinality(OwedDiskUpdated(f))'
        <5>1. OwedDiskUpdated(f)' \in SUBSET Procs
          BY DEF OwedDiskUpdated
        <5> QED BY <4>1, <5>1, Fewer
      <4>3. sino'[f] = dino'[f]
        BY <1>11, <2>1, <3>1
      <4>4. dino'[f].nlink \in Int
        BY <1>5, <2>1
      <4> QED BY <1>6, <2>3, <4>2, <4>3, <4>4
    <3>2. CASE ~(Bwrite(p) /\ inode[s].ino = f)
      <4>1. sino'[f] = sino[f]
        BY <1>8, <1>11, <3>2
      <4>2. Links(dentry', f) + Cardinality(OwedDiskWritten(f))'
              <= Links(dentry, f) + Cardinality(OwedDiskWritten(f))
        BY <3>2, DebtsBalance
      <4> QED BY <1>2, <1>4, <1>5, <1>6, <4>1, <4>2 DEF DiskCounts
    <3> QED BY <3>1, <3>2
  <2> QED BY <1>7, <2>3, <2>4 DEF DiskCounts
<1> QED BY <1>12, <1>13

\* Only iread's own two outcomes lead on from there.
LEMMA AtIread ==
    ASSUME NEW p \in Procs, Step(p), proc[p].pc = "iread"
    PROVE  Iread(p) \/ IreadFails(p)
<1>1. \A l : At(p, l) => proc[p].pc = l
  BY DEF At
<1> SUFFICES ASSUME ~Iread(p), ~IreadFails(p) PROVE FALSE
  OBVIOUS
<1>2. CASE Call(p)
  BY <1>1, <1>2 DEF Call
<1>3. CASE CallClose(p)
  BY <1>1, <1>3 DEF CallClose
<1>4. CASE Sync(p)
  BY <1>1, <1>4 DEF Sync
<1>5. CASE NameiLocked(p)
  BY <1>1, <1>5 DEF NameiLocked
<1>6. CASE NameiFound(p)
  BY <1>1, <1>6 DEF NameiFound
<1>7. CASE NameiFails(p)
  BY <1>1, <1>7 DEF NameiFails
<1>8. CASE NameiError(p)
  BY <1>1, <1>8 DEF NameiError
<1>9. CASE NameiMake(p)
  BY <1>1, <1>9 DEF NameiMake, NameiFree
<1>10. CASE NameiEnter(p)
  BY <1>1, <1>10 DEF NameiEnter, NameiFree
<1>11. CASE IgetLocked(p)
  BY <1>1, <1>11 DEF IgetLocked
<1>12. CASE IgetHit(p)
  BY <1>1, <1>12 DEF IgetHit
<1>13. CASE IgetFull(p)
  BY <1>1, <1>13 DEF IgetFull
<1>14. CASE IgetMiss(p)
  BY <1>1, <1>14 DEF IgetMiss
<1>15. CASE Iread(p)
  BY <1>1, <1>15 DEF Iread
<1>16. CASE IreadFails(p)
  BY <1>1, <1>16 DEF IreadFails
<1>17. CASE GotOpen(p)
  BY <1>1, <1>17 DEF GotOpen
<1>18. CASE GotLink(p)
  BY <1>1, <1>18 DEF GotLink
<1>19. CASE GotExisting(p)
  BY <1>1, <1>19 DEF GotExisting
<1>20. CASE GotUnlink(p)
  BY <1>1, <1>20 DEF GotUnlink
<1>21. CASE GotNew(p)
  BY <1>1, <1>21 DEF GotNew
<1>22. CASE GotInUse(p)
  BY <1>1, <1>22 DEF GotInUse
<1>23. CASE GotNull(p)
  BY <1>1, <1>23 DEF GotNull
<1>24. CASE MakeNull(p)
  BY <1>1, <1>24 DEF MakeNull
<1>25. CASE Opened(p)
  BY <1>1, <1>25 DEF Opened
<1>26. CASE OpenedOld(p)
  BY <1>1, <1>26 DEF OpenedOld
<1>27. CASE OpenedFails(p)
  BY <1>1, <1>27 DEF OpenedFails
<1>28. CASE Granted(p)
  BY <1>1, <1>28 DEF Granted
<1>29. CASE Linked(p)
  BY <1>1, <1>29 DEF Linked
<1>30. CASE Out(p)
  BY <1>1, <1>30 DEF Out
<1>31. CASE IalloccgTake(p)
  BY <1>1, <1>31 DEF IalloccgTake
<1>32. CASE IalloccgNone(p)
  BY <1>1, <1>32 DEF IalloccgNone
<1>33. CASE IalloccgFails(p)
  BY <1>1, <1>33 DEF IalloccgFails
<1>34. CASE Ifreeino(p)
  BY <1>1, <1>34 DEF Ifreeino
<1>35. CASE Direnter(p)
  BY <1>1, <1>35 DEF Direnter
<1>36. CASE MakeFails(p)
  BY <1>1, <1>36 DEF MakeFails, DirenterFails
<1>37. CASE EnterFails(p)
  BY <1>1, <1>37 DEF EnterFails, DirenterFails
<1>38. CASE DirenterDone(p)
  BY <1>1, <1>38 DEF DirenterDone, Dirwrite
<1>39. CASE DirremoveDone(p)
  BY <1>1, <1>39 DEF DirremoveDone, Dirwrite
<1>40. CASE Dirremove(p)
  BY <1>1, <1>40 DEF Dirremove
<1>41. CASE DirremoveFails(p)
  BY <1>1, <1>41 DEF DirremoveFails
<1>42. CASE Undir(p)
  BY <1>1, <1>42 DEF Undir
<1>43. CASE CloseLocked(p)
  BY <1>1, <1>43 DEF CloseLocked
<1>44. CASE Close(p)
  BY <1>1, <1>44 DEF Close
<1>45. CASE Iput(p)
  BY <1>1, <1>45 DEF Iput
<1>46. CASE IreleShared(p)
  BY <1>1, <1>46 DEF IreleShared
<1>47. CASE IreleLast(p)
  BY <1>1, <1>47 DEF IreleLast
<1>48. CASE IreleUnlinked(p)
  BY <1>1, <1>48 DEF IreleUnlinked
<1>49. CASE Truncated(p)
  BY <1>1, <1>49 DEF Truncated
<1>50. CASE Ifree(p)
  BY <1>1, <1>50 DEF Ifree
<1>51. CASE IfreeFails(p)
  BY <1>1, <1>51 DEF IfreeFails
<1>52. CASE Release(p)
  BY <1>1, <1>52 DEF Release
<1>53. CASE Iupdat(p)
  BY <1>1, <1>53 DEF Iupdat
<1>54. CASE IupdatFails(p)
  BY <1>1, <1>54 DEF IupdatFails
<1>55. CASE Bwrite(p)
  BY <1>1, <1>55 DEF Bwrite
<1> QED
  BY Step(p), <1>2, <1>3, <1>4, <1>5, <1>6, <1>7, <1>8, <1>9, <1>10, <1>11,
     <1>12, <1>13, <1>14, <1>15, <1>16, <1>17, <1>18, <1>19, <1>20, <1>21,
     <1>22, <1>23, <1>24, <1>25, <1>26, <1>27, <1>28, <1>29, <1>30, <1>31,
     <1>32, <1>33, <1>34, <1>35, <1>36, <1>37, <1>38, <1>39, <1>40, <1>41,
     <1>42, <1>43, <1>44, <1>45, <1>46, <1>47, <1>48, <1>49, <1>50, <1>51,
     <1>52, <1>53, <1>54, <1>55
  DEF Step, Ialloccg

\* The inode of a file stays so, unless it cannot be read or its slot is taken.
LEMMA NumberKept ==
    ASSUME CoreInv, NEW p \in Procs, Step(p), NEW s \in Slots,
           IreadFails(p) => proc[p].ip # s,
           IgetMiss(p) => Head(freelist) # s
    PROVE  inode'[s].ino = inode[s].ino /\ inode'[s].hashed = inode[s].hashed
<1>1. /\ TypeOK /\ Frames /\ DirsOK /\ LocksExact /\ CountsExact /\ InodesOK /\ s \in Table
  BY DEF CoreInv, TableExact, Table
<1>2. CASE IreadFails(p)
  BY <1>1, <1>2, IreadFailsTable DEF Elsewhere
<1>3. CASE IgetMiss(p)
  BY <1>1, <1>3, IgetMissTable DEF Elsewhere
<1>4. CASE Filer(p) /\ ~IreadFails(p) /\ ~IgetMiss(p)
  <2>1. CASE Iread(p) \/ GotNew(p)
    BY <1>1, <2>1, IreadTable, GotNewTable DEF Elsewhere
  <2>2. CASE GotLink(p)
    BY <1>1, <2>2, GotLinkTable DEF Elsewhere, SameFile
  <2>3. CASE MakeFails(p)
    BY <1>1, <2>3, MakeFailsTable DEF Elsewhere, SameFile
  <2>4. CASE DirremoveDone(p) \/ DirremoveFails(p)
    BY <1>1, <2>4, DirremoveDoneTable, DirremoveFailsTable DEF Elsewhere
  <2>5. CASE Out(p) \/ Truncated(p)
    BY <1>1, <2>5, OutTable, TruncatedTable DEF Elsewhere
  <2> QED BY <1>4, <2>1, <2>2, <2>3, <2>4, <2>5 DEF Filer
<1>5. CASE ~Filer(p)
  BY <1>1, <1>5, FilesEffect DEF FileKept
<1> QED BY <1>2, <1>3, <1>4, <1>5

\* A file that is in core after a step was there before, if it was not read.
LEMMA CachedKept ==
    ASSUME CoreInv, NEW p \in Procs, Step(p), NEW f \in Files, NEW s \in Slots,
           Cached(s, f)', ~(Iread(p) /\ proc[p].ip = s)
    PROVE  /\ Cached(s, f)
           /\ IreadFails(p) => proc[p].ip # s
           /\ IgetMiss(p) => Head(freelist) # s
<1>1. /\ TypeOK /\ Frames /\ DirsOK /\ LocksExact /\ CountsExact
      /\ proc \in [Procs -> Process]
      /\ \A q \in Procs \ {p} : proc'[q] = proc[q]
  BY Alone DEF CoreInv, TableExact, TypeOK
<1>2. /\ inode'[s].hashed /\ inode'[s].ino = f
      /\ \A q \in Procs : ~(proc'[q].pc = "iread" /\ proc'[q].ip = s)
  BY DEF Cached, Found, Reading
<1>3. ASSUME IreadFails(p)
      PROVE  proc[p].ip # s
  BY <1>1, <1>2, <1>3, IreadFailsTable DEF Table
<1>4. ASSUME IgetMiss(p)
      PROVE  Head(freelist) # s
  <2>1. proc'[p].ip = Head(freelist) /\ proc'[p].pc = "iread"
    BY <1>1, <1>4 DEF IgetMiss, Process
  <2> QED BY <1>2, <2>1
<1>5. inode[s].hashed /\ inode[s].ino = f
  BY <1>2, <1>3, <1>4, NumberKept
<1>6. ASSUME NEW q \in Procs, proc[q].pc = "iread", proc[q].ip = s
      PROVE  FALSE
  BY <1>1, <1>2, <1>3, <1>6, AtIread
<1> QED BY <1>3, <1>4, <1>5, <1>6 DEF Cached, Found, Reading

\* The link count that a step leaves in an inode, next to the one before.
LEMMA LinkCounts ==
    ASSUME CoreInv, WorkOK, NEW p \in Procs, Step(p), ~Torn', NEW s \in Slots,
           IgetMiss(p) => Head(freelist) # s,
           IreadFails(p) => proc[p].ip # s,
           Iread(p) => proc[p].ip # s
    PROVE  /\ GotNew(p) /\ proc[p].ip = s => inode'[s].nlink = 1 /\ inode'[s].mode
           /\ GotLink(p) /\ proc[p].ip = s =>
                inode'[s].nlink = inode[s].nlink + 1 /\ inode'[s].mode = inode[s].mode
           /\ MakeFails(p) /\ proc[p].ip = s => inode'[s].nlink = 0
           /\ DirremoveDone(p) /\ proc[p].ip = s =>
                inode'[s].nlink = inode[s].nlink - 1 /\ inode'[s].mode = inode[s].mode
           /\ Out(p) /\ proc[p].lp = s /\ proc[p].err =>
                inode'[s].nlink = inode[s].nlink - 1 /\ inode'[s].mode = inode[s].mode
           /\ Truncated(p) /\ proc[p].ip = s => inode'[s].nlink <= 0 /\ inode[s].nlink <= 0
           /\ \/ (GotNew(p) \/ GotLink(p) \/ MakeFails(p) \/ DirremoveDone(p)) /\ proc[p].ip = s
              \/ Out(p) /\ proc[p].lp = s /\ proc[p].err
              \/ inode'[s].nlink = inode[s].nlink
           /\ \/ (GotNew(p) \/ Truncated(p)) /\ proc[p].ip = s
              \/ inode'[s].mode = inode[s].mode
<1>1. /\ TypeOK /\ Frames /\ DirsOK /\ LocksExact /\ CountsExact /\ InodesOK /\ s \in Table
      /\ LastOK(p) /\ proc \in [Procs -> Process]
  BY DEF CoreInv, TableExact, Table, WorkOK, TypeOK
<1>2. \A l : At(p, l) => proc[p].pc = l
  BY DEF At
<1>3. ASSUME GotNew(p)
      PROVE  /\ proc[p].ip = s => inode'[s].nlink = 1 /\ inode'[s].mode
             /\ proc[p].ip # s => inode'[s].nlink = inode[s].nlink /\ inode'[s].mode = inode[s].mode
  BY <1>1, <1>3, GotNewTable DEF Elsewhere
<1>4. ASSUME GotLink(p)
      PROVE  /\ inode'[s].mode = inode[s].mode
             /\ inode'[s].nlink = IF proc[p].ip = s THEN inode[s].nlink + 1 ELSE inode[s].nlink
  BY <1>1, <1>4, GotLinkTable DEF Elsewhere, SameFile
<1>5. ASSUME MakeFails(p)
      PROVE  /\ inode'[s].mode = inode[s].mode
             /\ inode'[s].nlink = IF proc[p].ip = s THEN 0 ELSE inode[s].nlink
  BY <1>1, <1>5, MakeFailsTable DEF Elsewhere, SameFile
<1>6. ASSUME DirremoveDone(p)
      PROVE  /\ inode'[s].mode = inode[s].mode
             /\ inode'[s].nlink = IF proc[p].ip = s THEN inode[s].nlink - 1 ELSE inode[s].nlink
  BY <1>1, <1>6, DirremoveDoneTable DEF Elsewhere
<1>7. ASSUME Out(p)
      PROVE  /\ inode'[s].mode = inode[s].mode
             /\ inode'[s].nlink = IF proc[p].lp = s /\ proc[p].err
                                  THEN inode[s].nlink - 1 ELSE inode[s].nlink
  BY <1>1, <1>7, OutTable DEF Elsewhere
<1>8. ASSUME Truncated(p)
      PROVE  /\ inode'[s].nlink = inode[s].nlink
             /\ proc[p].ip = s => inode[s].nlink <= 0
             /\ proc[p].ip # s => inode'[s].mode = inode[s].mode
  <2>1. AtLast(proc[p])
    BY <1>2, <1>8 DEF Truncated, AtLast
  <2> QED BY <1>1, <1>8, <2>1, TruncatedTable DEF Elsewhere, LastOK
<1>9. ~DirremoveFails(p)
  BY DEF DirremoveFails, Fails, Torn
<1>10. ASSUME Iread(p) \/ IreadFails(p) \/ IgetMiss(p) \/ ~Filer(p)
       PROVE  inode'[s].nlink = inode[s].nlink /\ inode'[s].mode = inode[s].mode
  <2>1. CASE Iread(p)
    BY <1>1, <2>1, IreadTable DEF Elsewhere
  <2>2. CASE IreadFails(p)
    BY <1>1, <2>2, IreadFailsTable DEF Elsewhere
  <2>3. CASE IgetMiss(p)
    BY <1>1, <2>3, IgetMissTable DEF Elsewhere
  <2>4. CASE ~Filer(p)
    BY <1>1, <2>4, FilesEffect DEF FileKept
  <2> QED BY <1>10, <2>1, <2>2, <2>3, <2>4
<1>11. Filer(p) => \/ Iread(p) \/ IreadFails(p) \/ IgetMiss(p) \/ GotNew(p) \/ GotLink(p)
                   \/ MakeFails(p) \/ DirremoveDone(p) \/ Out(p) \/ Truncated(p)
  BY <1>9 DEF Filer
<1> QED BY <1>3, <1>4, <1>5, <1>6, <1>7, <1>8, <1>10, <1>11

\* A link more or less is counted together with its name, or with what is owed.
LEMMA CoreCountsKept ==
    ASSUME CoreInv, WorkOK, NEW p \in Procs, Step(p), ~Torn',
           NEW f \in Files, NEW s \in Slots, Cached(s, f), CoreCounts(s, f),
           ~(Iread(p) /\ proc[p].ip = s), IreadFails(p) => proc[p].ip # s,
           IgetMiss(p) => Head(freelist) # s,
           GotNew(p) \/ MakeFails(p) => proc[p].ip # s
    PROVE  /\ inode'[s].nlink >= Links(entry', f) + Cardinality(Owed(s))'
           /\ inode'[s].nlink >= Links(dentry', f) + Cardinality(OwedDisk(s))'
           /\ inode'[s].nlink > 0 => inode'[s].mode
<1> DEFINE n == inode[s].nlink      nn == inode'[s].nlink
           E == Links(entry, f)     EE == Links(entry', f)
           D == Links(dentry, f)    DD == Links(dentry', f)
           O == Cardinality(Owed(s))       OO == Cardinality(Owed(s))'
           P == Cardinality(OwedDisk(s))   PP == Cardinality(OwedDisk(s))'
           X == p \in Owed(s)       XX == (p \in Owed(s))'
           Y == p \in OwedDisk(s)   YY == (p \in OwedDisk(s))'
           r == proc[p]             q == proc'[p]
           t == Target(r)
<1>1. /\ TypeOK /\ Frames /\ InodesOK /\ OneCopy /\ CalmOK(r) /\ NameOK(p)
      /\ r \in Process /\ inode[s].hashed /\ inode[s].ino = f /\ Found(s, f) /\ Frame(r)
  BY DEF CoreInv, TableExact, WorkOK, Cached, Found, TypeOK, Frames
<1>2. /\ n >= E + O /\ n >= D + P /\ (n > 0 => inode[s].mode)
      /\ E \in Nat /\ D \in Nat /\ O \in Nat /\ P \in Nat /\ n \in Int
      /\ OO = O - Num(X) + Num(XX) /\ PP = P - Num(Y) + Num(YY)
  <2>1. n \in Int
    BY <1>1 DEF TypeOK, Inode, Table
  <2>2. E \in Nat /\ D \in Nat
    BY NamesMove
  <2> QED BY <2>1, <2>2, Balances DEF CoreCounts
<1>3. /\ X <=> Owing(r) /\ Target(r) = s
      /\ XX <=> Owing(q) /\ Target(q) = s
      /\ Y <=> OwingDisk(r) /\ Target(r) = s
      /\ YY <=> OwingDisk(q) /\ Target(q) = s
  BY DEF Owed, OwedDisk
<1>4. /\ Direnter(p) => EE = E + Num(inode[t].ino = f)
      /\ Dirremove(p) => EE = E - Num(inode[t].ino = f)
      /\ ~Direnter(p) /\ ~Dirremove(p) => EE = E
      /\ DirenterDone(p) => DD = D + Num(inode[t].ino = f)
      /\ DirremoveDone(p) => DD = D - Num(inode[t].ino = f)
      /\ ~DirenterDone(p) /\ ~DirremoveDone(p) => DD = D
  BY NamesMove
<1>5. /\ GotLink(p) /\ r.ip = s => nn = n + 1 /\ inode'[s].mode = inode[s].mode
      /\ DirremoveDone(p) /\ r.ip = s => nn = n - 1 /\ inode'[s].mode = inode[s].mode
      /\ Out(p) /\ r.lp = s /\ r.err => nn = n - 1 /\ inode'[s].mode = inode[s].mode
      /\ Truncated(p) /\ r.ip = s => nn <= 0 /\ n <= 0
      /\ \/ (GotLink(p) \/ DirremoveDone(p)) /\ r.ip = s
         \/ Out(p) /\ r.lp = s /\ r.err
         \/ nn = n
      /\ (Truncated(p) /\ r.ip = s) \/ inode'[s].mode = inode[s].mode
  BY LinkCounts
<1>6. \A l : At(p, l) => r.pc = l
  BY DEF At
<1>7. /\ Num(X) = (IF X THEN 1 ELSE 0) /\ Num(XX) = (IF XX THEN 1 ELSE 0)
      /\ Num(Y) = (IF Y THEN 1 ELSE 0) /\ Num(YY) = (IF YY THEN 1 ELSE 0)
  BY DEF Num
<1>8. /\ Num(inode[t].ino = f) = (IF inode[t].ino = f THEN 1 ELSE 0)
      /\ \A a \in Paths : entry[a] = f => E # 0
  BY LinksType DEF Num
<1> DEFINE Goal == nn >= EE + OO /\ nn >= DD + PP /\ (nn > 0 => inode'[s].mode)
<1> SUFFICES Goal
  OBVIOUS
<1>9. t \in Slots => (inode[t].ino = f <=> t = s)
  BY <1>1 DEF InodesOK, SlotOK, OneCopy
<1>10. r.ip # None => r.ip \in Slots
  BY <1>1, Held
<1>11. Owing(r) \/ OwingDisk(r) => t \in Slots
  BY <1>1, Owes
<1> HIDE DEF n, nn, E, EE, D, DD, O, OO, P, PP, X, XX, Y, YY
<1>12. CASE ~Debtor(p)
  <2>1. DebtSame(p)
    BY <1>1, <1>12, Moves
  <2>2. (X <=> XX) /\ (Y <=> YY)
    BY <1>3, <2>1 DEF DebtSame
  <2>3. OO = O /\ PP = P
    BY <1>2, <1>7, <2>2
  <2>4. EE = E /\ DD = D
    BY <1>4, <1>12 DEF Debtor
  <2>5. nn = n
    BY <1>5, <1>12 DEF Debtor
  <2>6. nn > 0 => inode'[s].mode
    BY <1>2, <1>5, <2>5
  <2> QED BY <1>2, <2>3, <2>4, <2>5, <2>6
<1>13. CASE GotNew(p)
  <2>1. r.pc = "got" /\ r.ip # s
    BY <1>6, <1>13 DEF GotNew
  <2>2. ~Owing(r) /\ ~OwingDisk(r) /\ Target(q) = r.ip
    BY <1>1, <1>13, Debts
  <2>3. ~X /\ ~Y /\ ~XX /\ ~YY
    BY <1>3, <2>1, <2>2
  <2>4. ~Direnter(p) /\ ~Dirremove(p) /\ ~DirenterDone(p) /\ ~DirremoveDone(p) /\ ~Out(p)
        /\ ~Truncated(p)
    BY <1>6, <2>1 DEF Direnter, Dirremove, DirenterDone, DirremoveDone, Dirwrite, Out, Truncated
  <2>5. EE = E /\ DD = D /\ nn = n /\ inode'[s].mode = inode[s].mode
    BY <1>4, <1>5, <2>1, <2>4
  <2>6. OO = O /\ PP = P
    BY <1>2, <1>7, <2>3
  <2> QED BY <1>2, <2>5, <2>6
<1>14. CASE GotLink(p)
  <2>1. r.pc = "got" /\ r.op = "link" /\ r.ip \in Slots
    BY <1>1, <1>6, <1>10, <1>14 DEF GotLink, Frame, HandOK
  <2>2. ~Owing(r) /\ ~OwingDisk(r) /\ Owing(q) /\ OwingDisk(q) /\ Target(q) = r.ip
    BY <1>1, <1>14, Debts
  <2>3. ~X /\ ~Y /\ (XX <=> r.ip = s) /\ (YY <=> r.ip = s)
    BY <1>3, <2>2
  <2>4. ~Direnter(p) /\ ~Dirremove(p) /\ ~DirenterDone(p) /\ ~DirremoveDone(p) /\ ~Out(p)
        /\ ~Truncated(p)
    BY <1>6, <2>1 DEF Direnter, Dirremove, DirenterDone, DirremoveDone, Dirwrite, Out, Truncated
  <2>5. EE = E /\ DD = D /\ inode'[s].mode = inode[s].mode
    BY <1>4, <1>5, <2>4
  <2>6. CASE r.ip = s
    <3>1. nn = n + 1 /\ OO = O + 1 /\ PP = P + 1
      BY <1>2, <1>5, <1>7, <1>14, <2>3, <2>6
    <3>2. entry[r.at] = f /\ r.at \in Paths
      <4>1. r.at # None
        BY <1>1, <2>1 DEF Frame, PathOK
      <4>2. r.at \in Paths
        BY <1>1, <4>1 DEF Process
      <4>3. inode[r.ip].ino = r.ino /\ entry[r.at] = r.ino
        BY <1>1, <2>1 DEF NameOK
      <4> QED BY <1>1, <2>6, <4>2, <4>3
    <3>3. E # 0
      BY <1>8, <3>2
    <3>4. inode[s].mode
      BY <1>2, <3>3
    <3> QED BY <1>2, <2>5, <3>1, <3>4
  <2>7. CASE r.ip # s
    <3>1. nn = n
      BY <1>5, <2>4, <2>7
    <3>2. OO = O /\ PP = P
      BY <1>2, <1>7, <2>3, <2>7
    <3> QED BY <1>2, <2>5, <3>1, <3>2
  <2> QED BY <2>6, <2>7
<1>15. CASE Direnter(p)
  <2> DEFINE b == IF t = s THEN 1 ELSE 0
  <2>1. Owing(r) /\ OwingDisk(r) /\ ~Owing(q) /\ OwingDisk(q) /\ Target(q) = t
    BY <1>1, <1>15, Debts
  <2>2. (X <=> t = s) /\ ~XX /\ (Y <=> t = s) /\ (YY <=> t = s) /\ (inode[t].ino = f <=> t = s)
    BY <1>3, <1>9, <1>11, <2>1
  <2>3. r.pc = "direnter"
    BY <1>6, <1>15 DEF Direnter
  <2>4. nn = n /\ DD = D /\ inode'[s].mode = inode[s].mode
    <3>1. ~DirenterDone(p) /\ ~DirremoveDone(p) /\ ~Out(p) /\ ~Truncated(p) /\ ~GotLink(p)
      BY <1>6, <2>3 DEF DirenterDone, DirremoveDone, Dirwrite, Out, Truncated, GotLink
    <3> QED BY <1>4, <1>5, <3>1
  <2>5. EE = E + b /\ OO = O - b /\ PP = P
    BY <1>2, <1>4, <1>7, <1>8, <1>15, <2>2
  <2> QED BY <1>2, <2>4, <2>5
<1>16. CASE MakeFails(p)
  <2>1. Target(r) = r.ip /\ ~Owing(q) /\ ~OwingDisk(q)
    BY <1>1, <1>16, Debts
  <2>2. ~X /\ ~Y /\ ~XX /\ ~YY
    BY <1>3, <1>16, <2>1
  <2>3. r.pc = "direnter"
    BY <1>6, <1>16 DEF MakeFails, DirenterFails
  <2>4. nn = n /\ DD = D /\ EE = E /\ inode'[s].mode = inode[s].mode
    <3>1. ~DirenterDone(p) /\ ~DirremoveDone(p) /\ ~Out(p) /\ ~Truncated(p) /\ ~GotLink(p)
          /\ ~Dirremove(p)
      BY <1>6, <2>3 DEF DirenterDone, DirremoveDone, Dirwrite, Out, Truncated, GotLink, Dirremove
    <3>2. ~Direnter(p)
      BY <1>16 DEF Direnter, MakeFails, DirenterFails, Fails, env
    <3> QED BY <1>4, <1>5, <3>1, <3>2
  <2>5. OO = O /\ PP = P
    BY <1>2, <1>7, <2>2
  <2> QED BY <1>2, <2>4, <2>5
<1>17. CASE DirenterDone(p)
  <2> DEFINE b == IF t = s THEN 1 ELSE 0
  <2>1. ~Owing(r) /\ OwingDisk(r) /\ ~Owing(q) /\ ~OwingDisk(q)
    BY <1>1, <1>17, Debts
  <2>2. ~X /\ ~XX /\ (Y <=> t = s) /\ ~YY /\ (inode[t].ino = f <=> t = s)
    BY <1>3, <1>9, <1>11, <2>1
  <2>3. r.pc = "dirwrite" /\ r.op # "unlink"
    BY <1>6, <1>17 DEF DirenterDone, Dirwrite
  <2>4. nn = n /\ EE = E /\ inode'[s].mode = inode[s].mode
    <3>1. ~Direnter(p) /\ ~DirremoveDone(p) /\ ~Out(p) /\ ~Truncated(p) /\ ~GotLink(p)
          /\ ~Dirremove(p)
      BY <1>6, <2>3 DEF Direnter, DirremoveDone, Dirwrite, Out, Truncated, GotLink, Dirremove
    <3> QED BY <1>4, <1>5, <3>1
  <2>5. DD = D + b /\ PP = P - b /\ OO = O
    BY <1>2, <1>4, <1>7, <1>8, <1>17, <2>2
  <2> QED BY <1>2, <2>4, <2>5
<1>18. CASE Dirremove(p)
  <2> DEFINE b == IF t = s THEN 1 ELSE 0
  <2>1. ~Owing(r) /\ ~OwingDisk(r) /\ Owing(q) /\ ~OwingDisk(q) /\ Target(q) = r.ip
    BY <1>1, <1>18, Debts
  <2>2. r.pc = "dirremove" /\ r.op = "unlink"
    BY <1>1, <1>6, <1>18 DEF Dirremove, Frame, OpsOK
  <2>3. t = r.ip /\ r.ip \in Slots
    BY <1>1, <1>10, <2>2 DEF Target, Frame, HandOK
  <2>4. ~X /\ (XX <=> t = s) /\ ~Y /\ ~YY /\ (inode[t].ino = f <=> t = s)
    BY <1>3, <1>9, <2>1, <2>3
  <2>5. nn = n /\ DD = D /\ inode'[s].mode = inode[s].mode
    <3>1. ~DirenterDone(p) /\ ~DirremoveDone(p) /\ ~Out(p) /\ ~Truncated(p) /\ ~GotLink(p)
      BY <1>6, <2>2 DEF DirenterDone, DirremoveDone, Dirwrite, Out, Truncated, GotLink
    <3> QED BY <1>4, <1>5, <3>1
  <2>6. EE = E - b /\ OO = O + b /\ PP = P
    BY <1>2, <1>4, <1>7, <1>8, <1>18, <2>4
  <2> QED BY <1>2, <2>5, <2>6
<1>19. CASE DirremoveDone(p)
  <2> DEFINE b == IF t = s THEN 1 ELSE 0
  <2>1. Owing(r) /\ ~OwingDisk(r) /\ t = r.ip /\ ~Owing(q) /\ ~OwingDisk(q)
    BY <1>1, <1>19, Debts
  <2>2. r.pc = "dirwrite" /\ r.op = "unlink"
    BY <1>6, <1>19 DEF DirremoveDone, Dirwrite
  <2>3. (X <=> t = s) /\ ~XX /\ ~Y /\ ~YY /\ (inode[t].ino = f <=> t = s)
    BY <1>3, <1>9, <1>11, <2>1
  <2>4. EE = E /\ inode'[s].mode = inode[s].mode
    <3>1. ~Direnter(p) /\ ~Dirremove(p) /\ ~Truncated(p)
      BY <1>6, <2>2 DEF Direnter, Dirremove, Truncated
    <3> QED BY <1>4, <1>5, <3>1
  <2>5. nn = n - b
    <3>1. ~Out(p) /\ ~GotLink(p)
      BY <1>6, <2>2 DEF Out, GotLink
    <3>2. (t = s => nn = n - 1) /\ (t # s => nn = n)
      BY <1>5, <1>19, <2>1, <3>1
    <3> QED BY <1>2, <3>2
  <2>6. DD = D - b /\ OO = O - b /\ PP = P
    BY <1>2, <1>4, <1>7, <1>8, <1>19, <2>3
  <2> QED BY <1>2, <2>4, <2>5, <2>6
<1>20. CASE Out(p)
  <2>1. (Owing(r) <=> r.err) /\ (OwingDisk(r) <=> r.err) /\ t = r.lp
        /\ ~Owing(q) /\ ~OwingDisk(q)
    BY <1>1, <1>20, Debts
  <2>2. r.pc = "out"
    BY <1>6, <1>20 DEF Out
  <2>3. EE = E /\ DD = D /\ inode'[s].mode = inode[s].mode
    <3>1. ~Direnter(p) /\ ~Dirremove(p) /\ ~Truncated(p) /\ ~DirenterDone(p) /\ ~DirremoveDone(p)
      BY <1>6, <2>2 DEF Direnter, Dirremove, Truncated, DirenterDone, DirremoveDone, Dirwrite
    <3> QED BY <1>4, <1>5, <3>1
  <2>4. CASE r.err /\ r.lp = s
    <3>1. X /\ Y /\ ~XX /\ ~YY
      BY <1>3, <2>1, <2>4
    <3>2. OO = O - 1 /\ PP = P - 1
      BY <1>2, <1>7, <3>1
    <3>3. nn = n - 1
      BY <1>5, <1>20, <2>4
    <3> QED BY <1>2, <2>3, <3>2, <3>3
  <2>5. CASE ~(r.err /\ r.lp = s)
    <3>1. ~X /\ ~Y /\ ~XX /\ ~YY
      BY <1>3, <2>1, <2>5
    <3>2. OO = O /\ PP = P
      BY <1>2, <1>7, <3>1
    <3>3. nn = n
      <4>1. ~GotLink(p) /\ ~DirremoveDone(p)
        BY <1>6, <2>2 DEF GotLink, DirremoveDone, Dirwrite
      <4> QED BY <1>5, <2>5, <4>1
    <3> QED BY <1>2, <2>3, <3>2, <3>3
  <2> QED BY <2>4, <2>5
<1> QED
  BY <1>12, <1>13, <1>14, <1>15, <1>16, <1>17, <1>18, <1>19, <1>20 DEF Debtor

\* The only reference to an inode: nobody else owes a name of it.
LEMMA SoleDebtor ==
    ASSUME CoreInv, NEW p \in Procs, NEW s \in Slots, Refs(p, s), inode[s].count = 1
    PROVE  Owed(s) \subseteq {p} /\ OwedDisk(s) \subseteq {p}
<1>1. TypeOK /\ Frames /\ InodesOK /\ CountsExact
  BY DEF CoreInv, TableExact
<1>2. \A q \in Procs \ {p} : ~Refs(q, s)
  BY <1>1, Counted
<1> QED BY <1>1, <1>2, Owes DEF Owed, OwedDisk

LEMMA CoreCountsStep ==
    ASSUME CoreInv, WorkOK, LinksOK, NumbersOK, ~Torn', NEW p \in Procs, Step(p),
           NEW f \in Files, NEW s \in Slots
    PROVE  CoreCounts(s, f)'
<1> SUFFICES ASSUME Cached(s, f)'
             PROVE  /\ inode'[s].nlink >= Links(entry', f) + Cardinality(Owed(s))'
                    /\ inode'[s].nlink >= Links(dentry', f) + Cardinality(OwedDisk(s))'
                    /\ inode'[s].nlink > 0 => inode'[s].mode
  BY DEF CoreCounts, Links
<1> DEFINE r == proc[p]
<1>1. /\ TypeOK /\ Frames /\ InodesOK /\ LocksExact /\ DirsOK /\ CountsExact /\ Frame(r)
      /\ CalmOK(r) /\ NameOK(p) /\ NumberOK(p) /\ HandsOK(p)
      /\ proc \in [Procs -> Process]
      /\ CoreCounts(s, f) /\ DiskCounts(f)
  BY DEF CoreInv, TableExact, WorkOK, NumbersOK, LinksOK, Frames, InodesOK, TypeOK
<1>2. /\ Links(entry, f) \in Nat /\ Links(dentry, f) \in Nat
      /\ Cardinality(Owed(s)) \in Nat /\ Cardinality(OwedDisk(s)) \in Nat
      /\ Cardinality(OwedUpdated(f)) \in Nat /\ Cardinality(OwedDiskUpdated(f)) \in Nat
  BY NamesMove, Balances
<1>3. \A l : At(p, l) => r.pc = l
  BY DEF At
<1>4. Cardinality({}) = 0
  BY FS_EmptySet
<1>5. r.ip = s => Refs(p, s)
  BY DEF Refs
<1>6. CASE Iread(p) /\ r.ip = s
  <2>1. r.pc = "iread" /\ inode[s].count = 1
    BY <1>1, <1>3, <1>6 DEF Iread, HandsOK
  <2>2. \A q \in Procs \ {p} : ~Refs(q, s) /\ proc'[q] = proc[q]
    BY <1>1, <1>5, <1>6, <2>1, Counted, Alone
  <2>3. r.lp # s
    BY <1>1, <1>5, <1>6, <2>1, Counted
  <2>4. proc'[p] = [r EXCEPT !.pc = "got"]
    BY <1>1, <1>6 DEF Iread, Go
  <2>5. ASSUME Owing(proc'[p]) \/ OwingDisk(proc'[p])
        PROVE  Target(proc'[p]) # s
    <3>1. r.op = "enter"
      BY <1>1, <2>4, <2>5 DEF Owing, OwingDisk, Process
    <3> QED BY <1>1, <2>3, <2>4, <3>1 DEF Target, Process
  <2>6. Owed(s)' = {} /\ OwedDisk(s)' = {}
    BY <1>1, <2>2, <2>5, Owes DEF Owed, OwedDisk
  <2>7. inode'[s].ino = f
    BY DEF Cached, Found
  <2>8. inode'[s].nlink = dino[f].nlink /\ inode'[s].mode = dino[f].mode
    BY ZenonT(60), <1>1, <1>6, <2>7, IreadTable
  <2>9. Links(entry', f) = Links(entry, f) /\ Links(dentry', f) = Links(dentry, f)
    BY <1>6 DEF Iread, disk
  <2>10. dino[f].nlink \in Int
    BY <1>1 DEF TypeOK, Dinode, Inos
  <2>11. /\ dino[f].nlink >= Links(entry, f) + Cardinality(OwedUpdated(f))
         /\ dino[f].nlink >= Links(dentry, f) + Cardinality(OwedDiskUpdated(f))
         /\ dino[f].nlink > 0 => dino[f].mode
    BY <1>1 DEF DiskCounts
  <2>12. Cardinality(Owed(s))' = 0 /\ Cardinality(OwedDisk(s))' = 0
    BY <1>4, <2>6
  <2> QED BY <1>2, <2>8, <2>9, <2>10, <2>11, <2>12
<1>7. CASE ~(Iread(p) /\ r.ip = s)
  <2>1. /\ Cached(s, f)
        /\ IreadFails(p) => proc[p].ip # s
        /\ IgetMiss(p) => Head(freelist) # s
    BY <1>7, CachedKept
  <2>2. CASE ~((GotNew(p) \/ MakeFails(p)) /\ r.ip = s)
    BY <1>1, <1>7, <2>1, <2>2, CoreCountsKept
  <2>3. inode[s].ino = f
    BY <2>1 DEF Cached, Found
  <2>4. \A g : Num(TRUE) = 1 /\ Num(FALSE) = 0
    BY DEF Num
  <2>5. /\ Cardinality(Owed(s))' =
             Cardinality(Owed(s)) - Num(p \in Owed(s)) + Num((p \in Owed(s))')
        /\ Cardinality(OwedDisk(s))' =
             Cardinality(OwedDisk(s)) - Num(p \in OwedDisk(s)) + Num((p \in OwedDisk(s))')
    BY Balances
  <2>6. CASE GotNew(p) /\ r.ip = s
    <3>1. r.pc = "got" /\ r.op = "make"
      BY <1>3, <2>6 DEF GotNew
    <3>2. r.ino = f /\ ~Named(f) /\ inode[s].count = 1
      BY <1>1, <2>3, <2>6, <3>1 DEF NumberOK, NameOK, Making, MakesFile
    <3>3. Links(entry, f) = 0 /\ Links(dentry, f) = 0
      BY <3>2, LinksType DEF Named
    <3>4. /\ ~Owing(r) /\ ~OwingDisk(r) /\ Owing(proc'[p]) /\ OwingDisk(proc'[p])
          /\ Target(proc'[p]) = s
      BY <1>1, <2>6, Debts
    <3>5. p \notin Owed(s) /\ p \notin OwedDisk(s) /\ (p \in Owed(s))' /\ (p \in OwedDisk(s))'
      BY <3>4 DEF Owed, OwedDisk
    <3>6. Owed(s) = {} /\ OwedDisk(s) = {}
      BY <1>5, <2>6, <3>2, <3>5, SoleDebtor
    <3>7. Cardinality(Owed(s)) = 0 /\ Cardinality(OwedDisk(s)) = 0
      BY <1>4, <3>6
    <3>8. /\ Num(p \in Owed(s)) = 0 /\ Num((p \in Owed(s))') = 1
          /\ Num(p \in OwedDisk(s)) = 0 /\ Num((p \in OwedDisk(s))') = 1
      BY <3>5 DEF Num
    <3>9. Cardinality(Owed(s))' = 1 /\ Cardinality(OwedDisk(s))' = 1
      BY <2>5, <3>7, <3>8
    <3>10. Links(entry', f) = Links(entry, f) /\ Links(dentry', f) = Links(dentry, f)
      BY <2>6 DEF GotNew, disk
    <3>11. inode'[s].nlink = 1 /\ inode'[s].mode
      BY <1>1, <2>6, GotNewTable
    <3> QED BY <3>3, <3>9, <3>10, <3>11
  <2>7. CASE MakeFails(p) /\ r.ip = s
    <3>1. r.op = "make" /\ Owing(r) /\ OwingDisk(r) /\ Target(r) = s
          /\ ~Owing(proc'[p]) /\ ~OwingDisk(proc'[p])
      BY <1>1, <2>7, Debts DEF MakeFails
    <3>2. inode[s].nlink = 1
      BY <1>1, <2>7, <3>1 DEF NumberOK
    <3>3. p \in Owed(s) /\ p \in OwedDisk(s) /\ ~(p \in Owed(s))' /\ ~(p \in OwedDisk(s))'
      BY <3>1 DEF Owed, OwedDisk
    <3>4. Cardinality(Owed(s)) # 0 /\ Cardinality(OwedDisk(s)) # 0
      <4>1. IsFiniteSet(Owed(s)) /\ IsFiniteSet(OwedDisk(s))
        BY Assumed, FS_Subset DEF Owed, OwedDisk
      <4> QED BY <3>3, <4>1, FS_EmptySet
    <3>5. /\ 1 >= Links(entry, f) + Cardinality(Owed(s))
          /\ 1 >= Links(dentry, f) + Cardinality(OwedDisk(s))
      BY <1>1, <2>1, <3>2 DEF CoreCounts
    <3>6. /\ Links(entry, f) = 0 /\ Cardinality(Owed(s)) = 1
          /\ Links(dentry, f) = 0 /\ Cardinality(OwedDisk(s)) = 1
      BY <1>2, <3>4, <3>5
    <3>7. /\ Num(p \in Owed(s)) = 1 /\ Num((p \in Owed(s))') = 0
          /\ Num(p \in OwedDisk(s)) = 1 /\ Num((p \in OwedDisk(s))') = 0
      BY <3>3 DEF Num
    <3>8. Cardinality(Owed(s))' = 0 /\ Cardinality(OwedDisk(s))' = 0
      BY <2>5, <3>6, <3>7
    <3>9. Links(entry', f) = Links(entry, f) /\ Links(dentry', f) = Links(dentry, f)
      BY <2>7 DEF MakeFails, DirenterFails, disk
    <3>10. inode'[s].nlink = 0
      BY <1>1, <2>7, MakeFailsTable
    <3> QED BY <3>6, <3>8, <3>9, <3>10
  <2> QED BY <2>2, <2>6, <2>7
<1> QED BY <1>6, <1>7

LEMMA AtDirwrite ==
    ASSUME NEW p \in Procs, Step(p), proc[p].pc = "dirwrite"
    PROVE  DirenterDone(p) \/ DirremoveDone(p)
<1>1. \A l : At(p, l) => proc[p].pc = l
  BY DEF At
<1> SUFFICES ASSUME ~DirenterDone(p), ~DirremoveDone(p) PROVE FALSE
  OBVIOUS
<1>2. CASE Call(p)
  BY <1>1, <1>2 DEF Call
<1>3. CASE CallClose(p)
  BY <1>1, <1>3 DEF CallClose
<1>4. CASE Sync(p)
  BY <1>1, <1>4 DEF Sync
<1>5. CASE NameiLocked(p)
  BY <1>1, <1>5 DEF NameiLocked
<1>6. CASE NameiFound(p)
  BY <1>1, <1>6 DEF NameiFound
<1>7. CASE NameiFails(p)
  BY <1>1, <1>7 DEF NameiFails
<1>8. CASE NameiError(p)
  BY <1>1, <1>8 DEF NameiError
<1>9. CASE NameiMake(p)
  BY <1>1, <1>9 DEF NameiMake, NameiFree
<1>10. CASE NameiEnter(p)
  BY <1>1, <1>10 DEF NameiEnter, NameiFree
<1>11. CASE IgetLocked(p)
  BY <1>1, <1>11 DEF IgetLocked
<1>12. CASE IgetHit(p)
  BY <1>1, <1>12 DEF IgetHit
<1>13. CASE IgetFull(p)
  BY <1>1, <1>13 DEF IgetFull
<1>14. CASE IgetMiss(p)
  BY <1>1, <1>14 DEF IgetMiss
<1>15. CASE Iread(p)
  BY <1>1, <1>15 DEF Iread
<1>16. CASE IreadFails(p)
  BY <1>1, <1>16 DEF IreadFails
<1>17. CASE GotOpen(p)
  BY <1>1, <1>17 DEF GotOpen
<1>18. CASE GotLink(p)
  BY <1>1, <1>18 DEF GotLink
<1>19. CASE GotExisting(p)
  BY <1>1, <1>19 DEF GotExisting
<1>20. CASE GotUnlink(p)
  BY <1>1, <1>20 DEF GotUnlink
<1>21. CASE GotNew(p)
  BY <1>1, <1>21 DEF GotNew
<1>22. CASE GotInUse(p)
  BY <1>1, <1>22 DEF GotInUse
<1>23. CASE GotNull(p)
  BY <1>1, <1>23 DEF GotNull
<1>24. CASE MakeNull(p)
  BY <1>1, <1>24 DEF MakeNull
<1>25. CASE Opened(p)
  BY <1>1, <1>25 DEF Opened
<1>26. CASE OpenedOld(p)
  BY <1>1, <1>26 DEF OpenedOld
<1>27. CASE OpenedFails(p)
  BY <1>1, <1>27 DEF OpenedFails
<1>28. CASE Granted(p)
  BY <1>1, <1>28 DEF Granted
<1>29. CASE Linked(p)
  BY <1>1, <1>29 DEF Linked
<1>30. CASE Out(p)
  BY <1>1, <1>30 DEF Out
<1>31. CASE IalloccgTake(p)
  BY <1>1, <1>31 DEF IalloccgTake
<1>32. CASE IalloccgNone(p)
  BY <1>1, <1>32 DEF IalloccgNone
<1>33. CASE IalloccgFails(p)
  BY <1>1, <1>33 DEF IalloccgFails
<1>34. CASE Ifreeino(p)
  BY <1>1, <1>34 DEF Ifreeino
<1>35. CASE Direnter(p)
  BY <1>1, <1>35 DEF Direnter
<1>36. CASE MakeFails(p)
  BY <1>1, <1>36 DEF MakeFails, DirenterFails
<1>37. CASE EnterFails(p)
  BY <1>1, <1>37 DEF EnterFails, DirenterFails
<1>38. CASE DirenterDone(p)
  BY <1>1, <1>38 DEF DirenterDone, Dirwrite
<1>39. CASE DirremoveDone(p)
  BY <1>1, <1>39 DEF DirremoveDone, Dirwrite
<1>40. CASE Dirremove(p)
  BY <1>1, <1>40 DEF Dirremove
<1>41. CASE DirremoveFails(p)
  BY <1>1, <1>41 DEF DirremoveFails
<1>42. CASE Undir(p)
  BY <1>1, <1>42 DEF Undir
<1>43. CASE CloseLocked(p)
  BY <1>1, <1>43 DEF CloseLocked
<1>44. CASE Close(p)
  BY <1>1, <1>44 DEF Close
<1>45. CASE Iput(p)
  BY <1>1, <1>45 DEF Iput
<1>46. CASE IreleShared(p)
  BY <1>1, <1>46 DEF IreleShared
<1>47. CASE IreleLast(p)
  BY <1>1, <1>47 DEF IreleLast
<1>48. CASE IreleUnlinked(p)
  BY <1>1, <1>48 DEF IreleUnlinked
<1>49. CASE Truncated(p)
  BY <1>1, <1>49 DEF Truncated
<1>50. CASE Ifree(p)
  BY <1>1, <1>50 DEF Ifree
<1>51. CASE IfreeFails(p)
  BY <1>1, <1>51 DEF IfreeFails
<1>52. CASE Release(p)
  BY <1>1, <1>52 DEF Release
<1>53. CASE Iupdat(p)
  BY <1>1, <1>53 DEF Iupdat
<1>54. CASE IupdatFails(p)
  BY <1>1, <1>54 DEF IupdatFails
<1>55. CASE Bwrite(p)
  BY <1>1, <1>55 DEF Bwrite
<1> QED
  BY Step(p), <1>2, <1>3, <1>4, <1>5, <1>6, <1>7, <1>8, <1>9, <1>10, <1>11,
     <1>12, <1>13, <1>14, <1>15, <1>16, <1>17, <1>18, <1>19, <1>20, <1>21,
     <1>22, <1>23, <1>24, <1>25, <1>26, <1>27, <1>28, <1>29, <1>30, <1>31,
     <1>32, <1>33, <1>34, <1>35, <1>36, <1>37, <1>38, <1>39, <1>40, <1>41,
     <1>42, <1>43, <1>44, <1>45, <1>46, <1>47, <1>48, <1>49, <1>50, <1>51,
     <1>52, <1>53, <1>54, <1>55
  DEF Step, Ialloccg

\* Where a step writes a directory, in the buffer cache or on the disk.
LEMMA EntriesMove ==
    ASSUME CoreInv, NEW p \in Procs, Step(p), NEW r, r = proc[p]
    PROVE  /\ \A a \in Paths : entry'[a] # entry[a] =>
                (Direnter(p) \/ Dirremove(p)) /\ a = r.at
           /\ \A a \in Paths : dentry'[a] # dentry[a] =>
                (DirenterDone(p) \/ DirremoveDone(p)) /\ a = r.at
           /\ Direnter(p) \/ Dirremove(p) =>
                /\ proc'[p] = [r EXCEPT !.pc = "dirwrite"]
                /\ r.pc \in {"direnter", "dirremove"}
           /\ DirenterDone(p) \/ DirremoveDone(p) =>
                dentry'[r.at] = entry[r.at] /\ entry' = entry /\ r.pc = "dirwrite"
           /\ \A a \in Paths : entry'[a] # entry[a] \/ dentry'[a] # dentry[a] =>
                LockDir(r) /\ a = r.at
           /\ LockDir(r) => r.at \in Paths
<1>1. /\ TypeOK /\ Frames /\ Frame(r) /\ r \in Process /\ proc \in [Procs -> Process]
      /\ entry \in [Paths -> Inos] /\ dentry \in [Paths -> Inos]
  BY DEF CoreInv, TypeOK, Frames
<1>2. \A l : At(p, l) => r.pc = l
  BY DEF At
<1>3. ASSUME Direnter(p) \/ Dirremove(p)
      PROVE  /\ proc'[p] = [r EXCEPT !.pc = "dirwrite"]
             /\ r.pc \in {"direnter", "dirremove"}
             /\ \A a \in Paths : entry'[a] # entry[a] => a = r.at
             /\ dentry' = dentry
  BY <1>1, <1>2, <1>3 DEF Direnter, Dirremove, Go
<1>4. r.pc \in {"direnter", "dirremove", "dirwrite"} => LockDir(r) /\ r.at \in Paths
  BY <1>1 DEF LockDir, DirPlaces, Frame, PathOK, OpsOK, Process
<1>5. ASSUME DirenterDone(p) \/ DirremoveDone(p)
      PROVE  /\ dentry'[r.at] = entry[r.at] /\ entry' = entry /\ r.pc = "dirwrite"
             /\ \A a \in Paths : dentry'[a] # dentry[a] => a = r.at
  <2>1. r.pc = "dirwrite"
    BY <1>2, <1>5 DEF DirenterDone, DirremoveDone, Dirwrite
  <2> QED BY <1>1, <1>4, <1>5, <2>1 DEF DirenterDone, DirremoveDone, Dirwrite
<1>6. /\ entry' = entry \/ Direnter(p) \/ Dirremove(p)
      /\ dentry' = dentry \/ DirenterDone(p) \/ DirremoveDone(p)
  BY DiskEffect
<1>7. LockDir(r) => r.at \in Paths
  BY <1>1 DEF LockDir, Process
<1> QED BY <1>3, <1>4, <1>5, <1>6, <1>7

\* A name in a directory that is not locked is on the disk as it is.
LEMMA UnlockedWritten ==
    ASSUME CoreInv, EntriesOK, NEW d \in Dirs, ~inode[d].locked, NEW a \in Paths, a[1] = d
    PROVE  dentry[a] = entry[a]
<1> SUFFICES ASSUME NEW q \in Procs, proc[q].pc = "dirwrite", proc[q].at = a PROVE FALSE
  BY DEF EntriesOK
<1>1. LockExact /\ d \in Table /\ a # None
  BY Assumed DEF CoreInv, LocksExact, Table
<1>2. HasDir(q, d)
  BY <1>1 DEF HasDir, Dir
<1> QED BY <1>1, <1>2 DEF LockExact, Has

\* The entry that another process works on is left alone.
LEMMA OthersEntry ==
    ASSUME CoreInv, NEW p \in Procs, Step(p), NEW q \in Procs \ {p}, LockDir(proc[q])
    PROVE  entry'[proc[q].at] = entry[proc[q].at] /\ dentry'[proc[q].at] = dentry[proc[q].at]
<1>1. /\ TypeOK /\ LockExact /\ proc[q] \in Process /\ proc[q].at \in Paths
  BY DEF CoreInv, LocksExact, TypeOK, LockDir, Process
<1>2. ASSUME LockDir(proc[p]), proc[q].at = proc[p].at
      PROVE  FALSE
  <2>1. Dir(p) \in Table /\ Dir(q) = Dir(p)
    BY <1>1, <1>2, DirOf DEF LockDir, Dir
  <2>2. HasBy(proc[p], Dir(p)) /\ HasBy(proc[q], Dir(p))
    BY <1>2, <2>1 DEF HasBy, Dir
  <2>3. Has(p, Dir(p)) /\ Has(q, Dir(p))
    BY <2>1, <2>2, Holds
  <2> QED BY <1>1, <2>1, <2>3 DEF LockExact
<1> QED BY ZenonT(60), <1>1, <1>2, EntriesMove

LEMMA EntriesStep ==
    ASSUME CoreInv, EntriesOK, NEW p \in Procs, Step(p)
    PROVE  EntriesOK'
<1> SUFFICES ASSUME NEW a \in Paths, entry'[a] # dentry'[a]
             PROVE  \E q \in Procs : proc'[q].pc = "dirwrite" /\ proc'[q].at = a
  BY DEF EntriesOK
<1>1. /\ \A q \in Procs \ {p} : proc'[q] = proc[q]
      /\ proc[p] \in Process
  BY Alone DEF CoreInv, TypeOK
<1>2. CASE entry[a] = dentry[a]
  <2>1. (Direnter(p) \/ Dirremove(p)) /\ a = proc[p].at
    BY <1>2, EntriesMove
  <2>2. proc'[p] = [proc[p] EXCEPT !.pc = "dirwrite"]
    BY <2>1, EntriesMove
  <2> QED BY <1>1, <2>1, <2>2 DEF Process
<1>3. CASE entry[a] # dentry[a]
  <2>1. PICK q \in Procs : proc[q].pc = "dirwrite" /\ proc[q].at = a
    BY <1>3 DEF EntriesOK
  <2>2. ASSUME q = p
        PROVE  FALSE
    <3>1. DirenterDone(p) \/ DirremoveDone(p)
      BY <2>1, <2>2, AtDirwrite
    <3>2. dentry'[proc[p].at] = entry[proc[p].at] /\ entry' = entry
      BY <3>1, EntriesMove
    <3> QED BY <2>1, <2>2, <3>2
  <2> QED BY <1>1, <2>1, <2>2
<1> QED BY <1>2, <1>3

\* What others know of their names stays so.
LEMMA OthersNames ==
    ASSUME CoreInv, WorkOK, ~Torn', NEW p \in Procs, Step(p), NEW q \in Procs \ {p}
    PROVE  NameOK(q)' /\ LastOK(q)'
<1> DEFINE r == proc[q]
<1>1. /\ TypeOK /\ Frames /\ DirsOK /\ LocksExact /\ InodesOK /\ CountsExact /\ FreeListExact
      /\ Frame(r) /\ r \in Process /\ NameOK(q) /\ LastOK(q)
      /\ proc'[q] = r /\ HandsOK(q)
  BY Alone DEF CoreInv, TableExact, WorkOK, Frames, TypeOK, InodesOK
<1>2. LockDir(r) => entry'[r.at] = entry[r.at] /\ dentry'[r.at] = dentry[r.at]
  BY OthersEntry
<1>3. r.ip # None => r.ip \in Slots /\ inode'[r.ip].ino = inode[r.ip].ino
  BY <1>1, Held, OthersKeep DEF Refs
<1>4. NameOK(q)'
  <2>1. r.pc \in {"iread", "got", "dirremove"} => inode'[r.ip].ino = r.ino
    BY <1>1, <1>3 DEF NameOK, Frame, HandOK
  <2>2. r.pc \in {"iget", "iread", "got", "dirremove", "dirwrite", "direnter"} => LockDir(r)
    BY <1>1 DEF LockDir, DirPlaces, Frame, OpsOK, PathOK, Lookups
  <2>3. Vacant(r) => LockDir(r)
    BY <1>1, <2>2 DEF Vacant, Owing, LockDir, DirPlaces, Frame, PathOK
  <2>4. r.op # "make" /\ r.pc \in {"iget", "iread", "got", "dirremove"} =>
              entry'[r.at] = r.ino /\ dentry'[r.at] = r.ino
    BY <1>1, <1>2, <2>2 DEF NameOK
  <2>5. r.pc = "dirwrite" /\ r.op = "unlink" =>
              entry'[r.at] = None /\ dentry'[r.at] = inode'[r.ip].ino
    BY <1>1, <1>2, <1>3, <2>2 DEF NameOK, Frame, HandOK
  <2>6. r.pc = "dirwrite" /\ r.op # "unlink" =>
              entry'[r.at] = inode'[Target(r)].ino /\ dentry'[r.at] = None
    <3>1. ASSUME r.pc = "dirwrite", r.op # "unlink" PROVE OwingDisk(r)
      BY <1>1, <3>1 DEF OwingDisk, Frame, OpsOK
    <3>2. OwingDisk(r) => inode'[Target(r)].ino = inode[Target(r)].ino
      BY TargetKept
    <3> QED BY <1>1, <1>2, <2>2, <3>1, <3>2 DEF NameOK
  <2>7. Vacant(r) => entry'[r.at] = None /\ dentry'[r.at] = None
    BY <1>1, <1>2, <2>3 DEF NameOK
  <2> HIDE DEF r
  <2> QED BY <1>1, <2>1, <2>4, <2>5, <2>6, <2>7 DEF NameOK
<1>5. LastOK(q)'
  <2> DEFINE s == r.ip
  <2>1. SUFFICES ASSUME AtLast(r)
                 PROVE  inode'[s].nlink = inode[s].nlink /\ inode'[s].mode = inode[s].mode
    <3>1. r.pc = "ifree" => AtLast(r)
      BY DEF AtLast
    <3> QED BY <1>1, <2>1, <3>1 DEF LastOK
  <2>2. Sole(r) /\ s # None
    BY <1>1, <2>1 DEF AtLast, Sole, Frame, HandOK, Ireles
  <2>3. s \in Slots /\ inode[s].count = 1 /\ Refs(q, s)
    BY <1>1, <1>3, <2>2 DEF HandsOK, Refs
  <2>4. ~Refs(p, s)
    BY <1>1, <2>3, Counted
  <2>5. IgetMiss(p) => Head(freelist) # s
    BY <1>1, <2>3, HeadUnused DEF IgetMiss
  <2>6. proc[p].ip # s /\ proc[p].lp # s
    BY <2>4 DEF Refs
  <2> QED BY <2>3, <2>5, <2>6, LinkCounts
<1> QED BY <1>4, <1>5

\* What a process knows of its name after its own step.
LEMMA OwnName ==
    ASSUME CoreInv, WorkOK, NEW p \in Procs, Step(p)
    PROVE  NameOK(p)'
<1> DEFINE r == proc[p]  q == proc'[p]
<1>1. /\ TypeOK /\ Frames /\ DirsOK /\ LocksExact /\ InodesOK /\ CountsExact /\ FreeListExact
      /\ Frame(r) /\ r \in Process /\ NameOK(p) /\ CalmOK(r) /\ EntriesOK
      /\ proc \in [Procs -> Process] /\ inode \in [Table -> Inode]
      /\ entry \in [Paths -> Inos] /\ dentry \in [Paths -> Inos]
  BY DEF CoreInv, TableExact, WorkOK, Frames, TypeOK
<1>2. \A l : At(p, l) => r.pc = l
  BY DEF At
<1>3. r.ip # None => r.ip \in Slots
  BY <1>1, Held
<1>4. CASE ~Namer(p)
  <2>1. NameKept(p)
    BY <1>1, <1>4, Moves
  <2>2. q.pc \in {"iread", "got", "dirremove"} => inode'[q.ip].ino = q.ino
    <3>1. SUFFICES ASSUME q.pc \in {"iread", "got", "dirremove"}
                   PROVE  inode'[r.ip].ino = inode[r.ip].ino
      BY <1>1, <2>1, <3>1 DEF NameKept, NameOK
    <3>2. r.ip \in Slots
      BY <1>1, <1>3, <2>1, <3>1 DEF NameKept, Frame, HandOK
    <3>3. ~IreadFails(p)
      BY <1>1, <3>1 DEF IreadFails, Process
    <3> QED BY <1>4, <3>2, <3>3, NumberKept DEF Namer
  <2>3. ASSUME r.pc # "dirwrite", r.at \in Paths
        PROVE  entry'[r.at] = entry[r.at] /\ dentry'[r.at] = dentry[r.at]
    BY <1>4, <2>3, EntriesMove DEF Namer
  <2>4. q.op # "make" /\ q.pc \in {"iget", "iread", "got", "dirremove"} =>
              entry'[q.at] = q.ino /\ dentry'[q.at] = q.ino
    <3>1. SUFFICES ASSUME q.op # "make", q.pc \in {"iget", "iread", "got", "dirremove"}
                   PROVE  r.pc # "dirwrite" /\ r.at \in Paths
      BY <1>1, <2>1, <2>3, <3>1 DEF NameKept, NameOK
    <3> QED BY <1>1, <2>1, <3>1 DEF NameKept, Frame, OpsOK, PathOK, Lookups, Process
  <2>5. Vacant(q) => entry'[q.at] = None /\ dentry'[q.at] = None
    <3>1. SUFFICES ASSUME Vacant(q)
                   PROVE  r.pc # "dirwrite" /\ r.at \in Paths
      BY <1>1, <2>1, <2>3, <3>1 DEF NameKept, NameOK
    <3>2. Vacant(r)
      BY <2>1, <3>1 DEF NameKept
    <3>3. r.pc # "dirwrite" /\ r.op \in {"make", "enter"}
      BY <1>1, <3>2 DEF Vacant, Owing, Frame, OpsOK, RetOK, Ireles
    <3> QED BY <1>1, <3>3 DEF Frame, PathOK, Process
  <2>6. q.pc # "dirwrite"
    BY <2>1 DEF NameKept
  <2> HIDE DEF q, r
  <2> QED BY <2>2, <2>4, <2>5, <2>6 DEF NameOK, q
<1>5. CASE NameiFound(p) \/ NameiMake(p) \/ NameiEnter(p)
  <2>1. /\ r.pc = "namei" /\ ~inode[Dir(p)].locked /\ r.at # None
        /\ r.op # "make" /\ r.ret = "user"
    BY <1>1, <1>2, <1>5 DEF NameiFound, NameiMake, NameiEnter, NameiFree, Frame, OpsOK,
       PathOK, RetOK, Lookups, Ireles
  <2>2. r.at \in Paths /\ Dir(p) \in Dirs /\ r.at[1] = Dir(p)
    BY <1>1, <2>1, DirOf DEF Dir
  <2>3. dentry[r.at] = entry[r.at]
    BY <1>1, <2>1, <2>2, UnlockedWritten
  <2>4. entry' = entry /\ dentry' = dentry
    BY <1>5 DEF NameiFound, NameiMake, NameiEnter, NameiFree, disk
  <2>5. CASE NameiFound(p)
    <3>1. q.pc = "iget" /\ q.op = r.op /\ q.at = r.at /\ q.ino = entry[r.at] /\ q.ret = r.ret
      BY <1>1, <2>5 DEF NameiFound, Process
    <3>2. ~Vacant(q)
      BY <2>1, <3>1 DEF Vacant
    <3> HIDE DEF q, r
    <3> QED BY <2>3, <2>4, <3>1, <3>2 DEF NameOK, q
  <2>6. CASE NameiMake(p) \/ NameiEnter(p)
    <3>1. q.pc \in {"ialloccg", "direnter"} /\ q.at = r.at /\ entry[r.at] = None
      BY <1>1, <2>6 DEF NameiMake, NameiEnter, NameiFree, Go, Process
    <3> HIDE DEF q, r
    <3> QED BY <2>3, <2>4, <3>1 DEF NameOK, q
  <2> QED BY <1>5, <2>5, <2>6
<1>6. CASE IgetHit(p) \/ IgetMiss(p)
  <2>1. /\ q.pc \in {"iread", "got"} /\ q.at = r.at /\ q.ino = r.ino /\ q.op = r.op
        /\ r.pc = "iget"
    <3>1. r.pc = "iget"
      BY <1>2, <1>6 DEF IgetHit, IgetMiss
    <3>2. \E s : \/ proc' = [proc EXCEPT ![p].ip = s, ![p].pc = "got"]
                 \/ proc' = [proc EXCEPT ![p].ip = s, ![p].pc = "iread"]
      BY <1>6 DEF IgetHit, IgetMiss
    <3> QED BY <1>1, <3>1, <3>2 DEF Process
  <2>2. entry' = entry /\ dentry' = dentry
    BY <1>6 DEF IgetHit, IgetMiss, disk
  <2>3. inode'[q.ip].ino = q.ino
    <3>1. CASE IgetHit(p)
      <4>1. PICK s \in Slots :
              /\ Found(s, r.ino)
              /\ proc' = [proc EXCEPT ![p].ip = s, ![p].pc = "got"]
              /\ inode' = [inode EXCEPT ![s].count = @ + 1, ![s].locked = TRUE]
        BY <3>1 DEF IgetHit
      <4>2. q.ip = s
        BY <1>1, <4>1 DEF Process
      <4>3. inode'[s].ino = inode[s].ino
        BY <1>1, <4>1 DEF Inode, Table
      <4> QED BY <2>1, <4>1, <4>2, <4>3 DEF Found
    <3>2. CASE IgetMiss(p)
      <4>1. q.ip = Head(freelist)
        BY <1>1, <3>2 DEF IgetMiss, Process
      <4>2. inode'[Head(freelist)].ino = r.ino
        BY <1>1, <3>2, IgetMissTable
      <4> QED BY <2>1, <4>1, <4>2
    <3> QED BY <1>6, <3>1, <3>2
  <2>4. q.op # "make" => entry[q.at] = q.ino /\ dentry[q.at] = q.ino
    BY <1>1, <2>1 DEF NameOK
  <2>5. Vacant(q) => entry[q.at] = None /\ dentry[q.at] = None
    <3>1. Vacant(q) => r.op = "make"
      BY <1>1, <2>1, <1>6 DEF Vacant, IgetHit, IgetMiss, Process, Frame, RetOK, Ireles
    <3>2. r.op = "make" => Vacant(r)
      BY <2>1 DEF Vacant
    <3> QED BY <1>1, <2>1, <3>1, <3>2 DEF NameOK
  <2>6. q.pc # "dirwrite"
    BY <2>1
  <2> HIDE DEF q, r
  <2> QED BY <2>2, <2>3, <2>4, <2>5, <2>6 DEF NameOK, q
<1>7. CASE Direnter(p) \/ Dirremove(p)
  <2>1. r.pc \in {"direnter", "dirremove"} /\ q = [r EXCEPT !.pc = "dirwrite"]
    BY <1>7, EntriesMove
  <2>2. q.pc = "dirwrite" /\ q.op = r.op /\ q.at = r.at /\ q.ip = r.ip /\ q.lp = r.lp
        /\ q.ret = r.ret /\ r.ret = "user"
    BY <1>1, <2>1 DEF Process, Frame, RetOK, Ireles
  <2>3. r.at \in Paths
    BY <1>1, <2>1 DEF Frame, OpsOK, PathOK, Process
  <2>4. ~Vacant(q)
    BY <2>2 DEF Vacant, Owing
  <2>5. inode' = inode /\ dentry' = dentry
    BY <1>7 DEF Direnter, Dirremove
  <2>6. CASE Direnter(p)
    <3>1. r.pc = "direnter" /\ r.op \in {"make", "enter"}
      BY <1>1, <1>2, <2>6 DEF Direnter, Frame, OpsOK
    <3>2. entry'[r.at] = inode[Target(r)].ino
      BY <1>1, <2>3, <2>6, <3>1 DEF Direnter, Entered, Target
    <3>3. dentry[r.at] = None
      BY <1>1, <3>1 DEF NameOK, Vacant
    <3>4. Target(q) = Target(r)
      BY <2>2 DEF Target
    <3>5. q.op # "unlink" /\ q.pc = "dirwrite"
      BY <2>2, <3>1
    <3> HIDE DEF q, r
    <3> QED BY <2>2, <2>4, <2>5, <3>2, <3>3, <3>4, <3>5 DEF NameOK, q
  <2>7. CASE Dirremove(p)
    <3>1. r.pc = "dirremove" /\ r.op = "unlink"
      BY <1>1, <1>2, <2>7 DEF Dirremove, Frame, OpsOK
    <3>2. entry'[r.at] = None
      BY <1>1, <2>3, <2>7 DEF Dirremove
    <3>3. dentry[r.at] = inode[r.ip].ino
      BY <1>1, <3>1 DEF NameOK
    <3>4. q.op = "unlink" /\ q.pc = "dirwrite"
      BY <2>2, <3>1
    <3> HIDE DEF q, r
    <3> QED BY <2>2, <2>4, <2>5, <3>2, <3>3, <3>4 DEF NameOK, q
  <2> QED BY <1>7, <2>6, <2>7
<1> QED BY <1>4, <1>5, <1>6, <1>7 DEF Namer

\* ... and of the inode that it gives up.
LEMMA OwnLast ==
    ASSUME CoreInv, WorkOK, ~Torn', NEW p \in Procs, Step(p)
    PROVE  LastOK(p)'
<1> DEFINE r == proc[p]  q == proc'[p]
<1>1. /\ TypeOK /\ Frames /\ DirsOK /\ LocksExact /\ InodesOK /\ CountsExact
      /\ Frame(r) /\ r \in Process /\ LastOK(p) /\ CalmOK(r)
      /\ proc \in [Procs -> Process] /\ inode \in [Table -> Inode]
  BY DEF CoreInv, TableExact, WorkOK, Frames, TypeOK
<1>2. \A l : At(p, l) => r.pc = l
  BY DEF At
<1>3. r.ip # None => r.ip \in Slots
  BY <1>1, Held
<1>4. CASE ~Laster(p)
  <2>1. LastKept(p)
    BY <1>1, <1>4, Moves
  <2>2. SUFFICES ASSUME AtLast(q)
                 PROVE  inode'[r.ip].nlink = inode[r.ip].nlink
    BY <1>1, <2>1, <2>2 DEF LastOK, LastKept
  <2>3. AtLast(r)
    BY <2>1, <2>2 DEF LastKept
  <2>4. r.pc \in {"iupdat", "bwrite", "truncated", "ifree"} /\ r.ip \in Slots
    BY <1>1, <1>3, <2>3 DEF AtLast, Frame, HandOK, Ireles
  <2>5. /\ ~IgetMiss(p) /\ ~IreadFails(p) /\ ~Iread(p) /\ ~GotNew(p) /\ ~GotLink(p)
        /\ ~MakeFails(p) /\ ~DirremoveDone(p) /\ ~Out(p)
    BY <1>2, <2>4 DEF IgetMiss, IreadFails, Iread, GotNew, GotLink, MakeFails, DirenterFails,
       DirremoveDone, Dirwrite, Out
  <2> QED BY <2>4, <2>5, LinkCounts
<1>5. CASE IreleUnlinked(p)
  <2>1. /\ q.pc = "iupdat" /\ q.ip = r.ip
    BY <1>1, <1>5 DEF IreleUnlinked, Process
  <2>2. inode'[r.ip].nlink = inode[r.ip].nlink /\ inode[r.ip].nlink <= 0
    BY <1>1, <1>5, IreleUnlinkedTable DEF IreleUnlinked
  <2> HIDE DEF q, r
  <2> QED BY <2>1, <2>2 DEF LastOK, q
<1>6. CASE Truncated(p)
  <2>1. /\ q.pc = "ifree" /\ q.ip = r.ip
    BY <1>1, <1>6 DEF Truncated, Go, Process
  <2>2. r.pc = "truncated"
    BY <1>2, <1>6 DEF Truncated
  <2>3. inode[r.ip].nlink <= 0
    BY <1>1, <2>2 DEF LastOK, AtLast
  <2>4. inode'[r.ip].nlink = inode[r.ip].nlink /\ ~inode'[r.ip].mode
    BY <1>1, <1>6, TruncatedTable
  <2> HIDE DEF q, r
  <2> QED BY <2>1, <2>3, <2>4 DEF LastOK, q
<1> QED BY <1>4, <1>5, <1>6 DEF Laster

LEMMA WorkStep ==
    ASSUME CoreInv, WorkOK, ~Torn', NEW p \in Procs, Step(p)
    PROVE  WorkOK'
<1>1. TypeOK /\ Frames /\ CalmOK(proc[p]) /\ EntriesOK
  BY DEF CoreInv, WorkOK
<1>2. EntriesOK'
  BY <1>1, EntriesStep
<1>3. \A q \in Procs : CalmOK(proc'[q])
  <2>1. \A q \in Procs \ {p} : CalmOK(proc'[q])
    BY <1>1, Alone DEF WorkOK
  <2> QED BY <1>1, <2>1, Moves
<1>4. \A q \in Procs : NameOK(q)' /\ LastOK(q)'
  <2>1. \A q \in Procs \ {p} : NameOK(q)' /\ LastOK(q)'
    BY OthersNames
  <2> QED BY <2>1, OwnName, OwnLast
<1> QED BY <1>2, <1>3, <1>4 DEF WorkOK

\* A process comes by a reference only so.
LEMMA RefersStep ==
    ASSUME TypeOK, Frames, NEW p \in Procs, Step(p), NEW s \in Slots, Refs(p, s)'
    PROVE  Refs(p, s) \/ ((IgetHit(p) \/ IgetMiss(p) \/ Sync(p)) /\ proc'[p].ip = s)
<1>1. /\ proc \in [Procs -> Process] /\ proc[p] \in Process /\ None \notin Slots
  BY Assumed DEF TypeOK
<1>2. proc'[p].ip = s \/ proc'[p].lp = s \/ proc'[p].fd = s
  BY DEF Refs
<1>3. CASE ~Changes(p)
  <2>1. Uses(proc'[p], s) = Uses(proc[p], s)
    BY <1>3, UsesKept
  <2> QED BY <1>2, <2>1 DEF Uses, Num, Refs
<1>4. CASE IreleShared(p) \/ Release(p)
  <2>1. Return(p)
    BY <1>4 DEF IreleShared, Release
  <2>2. \/ proc'[p] = InUser(proc[p].fd)
        \/ proc'[p] = [proc[p] EXCEPT !.ip = None, !.pc = proc[p].ret, !.ret = "user"]
    BY <1>1, <2>1 DEF Return
  <2>3. proc'[p].ip = None /\ proc'[p].lp \in {None, proc[p].lp} /\ proc'[p].fd = proc[p].fd
    BY ZenonT(60), <1>1, <2>2, UserHas DEF Process
  <2> QED BY <1>1, <1>2, <2>3 DEF Refs
<1>5. CASE IgetHit(p) \/ IgetMiss(p) \/ Sync(p)
  <2>1. proc'[p].lp = proc[p].lp /\ proc'[p].fd = proc[p].fd
    <3>1. CASE Sync(p)
      BY <1>1, <3>1 DEF Sync, Process
    <3>2. CASE IgetHit(p)
      <4>1. PICK t \in Slots : proc' = [proc EXCEPT ![p].ip = t, ![p].pc = "got"]
        BY <3>2 DEF IgetHit
      <4> QED BY <1>1, <4>1 DEF Process
    <3>3. CASE IgetMiss(p)
      <4>1. PICK t : proc' = [proc EXCEPT ![p].ip = t, ![p].pc = "iread"]
        BY <3>3 DEF IgetMiss
      <4> QED BY <1>1, <4>1 DEF Process
    <3> QED BY <1>5, <3>1, <3>2, <3>3
  <2> QED BY <1>2, <1>5, <2>1 DEF Refs
<1> QED BY <1>3, <1>4, <1>5 DEF Changes

\* At a place where the last reference goes, it is the only one.
LEMMA EndsAlone ==
    ASSUME CoreInv, NEW p \in Procs, Ending(proc[p]) \/ proc[p].pc = "ifree"
    PROVE  /\ proc[p].ip \in Slots /\ proc[p].ip # None /\ inode[proc[p].ip].count = 1
           /\ inode[proc[p].ip].locked
           /\ \A q \in Procs \ {p} : ~Refs(q, proc[p].ip)
           /\ proc[p].lp # proc[p].ip /\ proc[p].fd # proc[p].ip
<1>1. TypeOK /\ Frames /\ InodesOK /\ CountsExact /\ LocksExact /\ Frame(proc[p]) /\ HandsOK(p)
  BY DEF CoreInv, TableExact, Frames, InodesOK
<1>2. Sole(proc[p]) /\ proc[p].ip # None /\ LockFile(proc[p])
  BY <1>1 DEF Ending, Sole, Frame, HandOK, Ireles, LockFile, FilePlaces
<1>3. proc[p].ip \in Slots /\ proc[p].ip \in Table /\ inode[proc[p].ip].count = 1
  BY <1>1, <1>2, Held DEF HandsOK
<1>4. Refs(p, proc[p].ip)
  BY DEF Refs
<1>5. inode[proc[p].ip].count \in Nat
  BY <1>3
<1> QED BY <1>1, <1>2, <1>3, <1>4, <1>5, Counted, FileLocked

\* Somebody uses an inode that is not locked but counted.
LEMMA HasUser ==
    ASSUME CoreInv, NEW s \in Slots, ~inode[s].locked, inode[s].count # 0, inode[s].ino # s
    PROVE  \E q \in Procs : Uses1(q, s)
<1>1. CountsExact
  BY DEF CoreInv, TableExact
<1>2. \A S : S = {} => Cardinality(S) = 0
  BY FS_EmptySet
<1>3. PICK q \in Procs : Refs(q, s)
  <2>1. SUFFICES ASSUME \A q \in Procs : ~Refs(q, s) PROVE FALSE
    BY <2>1
  <2>2. /\ {q \in Procs : proc[q].ip = s} = {} /\ {q \in Procs : proc[q].lp = s} = {}
        /\ {q \in Procs : proc[q].fd = s} = {}
    BY <2>1 DEF Refs
  <2>3. /\ Cardinality({q \in Procs : proc[q].ip = s}) = 0
        /\ Cardinality({q \in Procs : proc[q].lp = s}) = 0
        /\ Cardinality({q \in Procs : proc[q].fd = s}) = 0
    BY <1>2, <2>2
  <2>4. inode[s].count = 0 + 0 + 0 + 0
    BY <1>1, <2>3 DEF CountsExact
  <2> QED BY <2>4
<1>4. ~Freed(q, s)
  BY EndsAlone DEF Freed
<1> QED BY <1>3, <1>4 DEF Uses1

\* What a process does at the places where its inode is written for the last time.
LEMMA AtEnd ==
    ASSUME NEW p \in Procs, Step(p), proc[p].pc \in {"iupdat", "bwrite", "release"}
    PROVE  Iupdat(p) \/ IupdatFails(p) \/ Bwrite(p) \/ Release(p)
<1>1. \A l : At(p, l) => proc[p].pc = l
  BY DEF At
<1> SUFFICES ASSUME ~Iupdat(p), ~IupdatFails(p), ~Bwrite(p), ~Release(p) PROVE FALSE
  OBVIOUS
<1>2. CASE Call(p)
  BY <1>1, <1>2 DEF Call
<1>3. CASE CallClose(p)
  BY <1>1, <1>3 DEF CallClose
<1>4. CASE Sync(p)
  BY <1>1, <1>4 DEF Sync
<1>5. CASE NameiLocked(p)
  BY <1>1, <1>5 DEF NameiLocked
<1>6. CASE NameiFound(p)
  BY <1>1, <1>6 DEF NameiFound
<1>7. CASE NameiFails(p)
  BY <1>1, <1>7 DEF NameiFails
<1>8. CASE NameiError(p)
  BY <1>1, <1>8 DEF NameiError
<1>9. CASE NameiMake(p)
  BY <1>1, <1>9 DEF NameiMake, NameiFree
<1>10. CASE NameiEnter(p)
  BY <1>1, <1>10 DEF NameiEnter, NameiFree
<1>11. CASE IgetLocked(p)
  BY <1>1, <1>11 DEF IgetLocked
<1>12. CASE IgetHit(p)
  BY <1>1, <1>12 DEF IgetHit
<1>13. CASE IgetFull(p)
  BY <1>1, <1>13 DEF IgetFull
<1>14. CASE IgetMiss(p)
  BY <1>1, <1>14 DEF IgetMiss
<1>15. CASE Iread(p)
  BY <1>1, <1>15 DEF Iread
<1>16. CASE IreadFails(p)
  BY <1>1, <1>16 DEF IreadFails
<1>17. CASE GotOpen(p)
  BY <1>1, <1>17 DEF GotOpen
<1>18. CASE GotLink(p)
  BY <1>1, <1>18 DEF GotLink
<1>19. CASE GotExisting(p)
  BY <1>1, <1>19 DEF GotExisting
<1>20. CASE GotUnlink(p)
  BY <1>1, <1>20 DEF GotUnlink
<1>21. CASE GotNew(p)
  BY <1>1, <1>21 DEF GotNew
<1>22. CASE GotInUse(p)
  BY <1>1, <1>22 DEF GotInUse
<1>23. CASE GotNull(p)
  BY <1>1, <1>23 DEF GotNull
<1>24. CASE MakeNull(p)
  BY <1>1, <1>24 DEF MakeNull
<1>25. CASE Opened(p)
  BY <1>1, <1>25 DEF Opened
<1>26. CASE OpenedOld(p)
  BY <1>1, <1>26 DEF OpenedOld
<1>27. CASE OpenedFails(p)
  BY <1>1, <1>27 DEF OpenedFails
<1>28. CASE Granted(p)
  BY <1>1, <1>28 DEF Granted
<1>29. CASE Linked(p)
  BY <1>1, <1>29 DEF Linked
<1>30. CASE Out(p)
  BY <1>1, <1>30 DEF Out
<1>31. CASE IalloccgTake(p)
  BY <1>1, <1>31 DEF IalloccgTake
<1>32. CASE IalloccgNone(p)
  BY <1>1, <1>32 DEF IalloccgNone
<1>33. CASE IalloccgFails(p)
  BY <1>1, <1>33 DEF IalloccgFails
<1>34. CASE Ifreeino(p)
  BY <1>1, <1>34 DEF Ifreeino
<1>35. CASE Direnter(p)
  BY <1>1, <1>35 DEF Direnter
<1>36. CASE MakeFails(p)
  BY <1>1, <1>36 DEF MakeFails, DirenterFails
<1>37. CASE EnterFails(p)
  BY <1>1, <1>37 DEF EnterFails, DirenterFails
<1>38. CASE DirenterDone(p)
  BY <1>1, <1>38 DEF DirenterDone, Dirwrite
<1>39. CASE DirremoveDone(p)
  BY <1>1, <1>39 DEF DirremoveDone, Dirwrite
<1>40. CASE Dirremove(p)
  BY <1>1, <1>40 DEF Dirremove
<1>41. CASE DirremoveFails(p)
  BY <1>1, <1>41 DEF DirremoveFails
<1>42. CASE Undir(p)
  BY <1>1, <1>42 DEF Undir
<1>43. CASE CloseLocked(p)
  BY <1>1, <1>43 DEF CloseLocked
<1>44. CASE Close(p)
  BY <1>1, <1>44 DEF Close
<1>45. CASE Iput(p)
  BY <1>1, <1>45 DEF Iput
<1>46. CASE IreleShared(p)
  BY <1>1, <1>46 DEF IreleShared
<1>47. CASE IreleLast(p)
  BY <1>1, <1>47 DEF IreleLast
<1>48. CASE IreleUnlinked(p)
  BY <1>1, <1>48 DEF IreleUnlinked
<1>49. CASE Truncated(p)
  BY <1>1, <1>49 DEF Truncated
<1>50. CASE Ifree(p)
  BY <1>1, <1>50 DEF Ifree
<1>51. CASE IfreeFails(p)
  BY <1>1, <1>51 DEF IfreeFails
<1>52. CASE Release(p)
  BY <1>1, <1>52 DEF Release
<1>53. CASE Iupdat(p)
  BY <1>1, <1>53 DEF Iupdat
<1>54. CASE IupdatFails(p)
  BY <1>1, <1>54 DEF IupdatFails
<1>55. CASE Bwrite(p)
  BY <1>1, <1>55 DEF Bwrite
<1> QED
  BY Step(p), <1>2, <1>3, <1>4, <1>5, <1>6, <1>7, <1>8, <1>9, <1>10, <1>11,
     <1>12, <1>13, <1>14, <1>15, <1>16, <1>17, <1>18, <1>19, <1>20, <1>21,
     <1>22, <1>23, <1>24, <1>25, <1>26, <1>27, <1>28, <1>29, <1>30, <1>31,
     <1>32, <1>33, <1>34, <1>35, <1>36, <1>37, <1>38, <1>39, <1>40, <1>41,
     <1>42, <1>43, <1>44, <1>45, <1>46, <1>47, <1>48, <1>49, <1>50, <1>51,
     <1>52, <1>53, <1>54, <1>55
  DEF Step, Ialloccg

\* What p uses after its step.
LEMMA OwnUse ==
    ASSUME CoreInv, WorkOK, ~Torn', NEW p \in Procs, Step(p), NEW s \in Slots, Uses1(p, s)'
    PROVE  /\ \/ Uses1(p, s) /\ inode'[s].ino \in {inode[s].ino, None}
              \/ (IgetHit(p) \/ IgetMiss(p)) /\ inode'[s].ino = proc[p].ino
              \/ /\ Sync(p) /\ ~inode[s].locked /\ inode[s].count # 0
                 /\ inode'[s].ino = inode[s].ino
           /\ Ifree(p) => s # proc[p].ip
<1> DEFINE r == proc[p]  q == proc'[p]
<1>1. /\ TypeOK /\ Frames /\ DirsOK /\ LocksExact /\ InodesOK /\ CountsExact /\ FreeListExact
      /\ Frame(r) /\ r \in Process /\ LastOK(p) /\ proc \in [Procs -> Process]
      /\ inode[s].count \in Nat /\ inode \in [Table -> Inode] /\ s \in Table
      /\ None \notin Slots
  BY Assumed DEF CoreInv, TableExact, WorkOK, Frames, TypeOK, Table, Inode
<1>2. \A l : At(p, l) => r.pc = l
  BY DEF At
<1>3. Refs(p, s)' /\ ~(q.ip = s /\ Ending(q) /\ inode'[s].nlink <= 0)
  BY DEF Uses1, Freed
<1>4. ASSUME Refs(p, s)
      PROVE  Uses1(p, s) /\ inode'[s].ino \in {inode[s].ino, None}
  <2>1. inode[s].count # 0
    BY <1>1, <1>4, Counted
  <2>2. IgetMiss(p) => Head(freelist) # s
    BY <1>1, <2>1, HeadUnused DEF IgetMiss
  <2>3. inode'[s].ino \in {inode[s].ino, None}
    <3>1. CASE IreadFails(p) /\ r.ip = s
      BY <1>1, <3>1, IreadFailsTable
    <3>2. CASE ~(IreadFails(p) /\ r.ip = s)
      BY <2>2, <3>2, NumberKept
    <3> QED BY <3>1, <3>2
  <2>4. ASSUME r.ip = s, Ending(r), inode[s].nlink <= 0
        PROVE  FALSE
    <3>1. r.pc \in {"iupdat", "bwrite", "release"} /\ r.lp # s /\ r.fd # s
      BY <2>4, EndsAlone DEF Ending
    <3>2. ~Iread(p) /\ ~IreadFails(p) /\ ~GotNew(p) /\ ~GotLink(p) /\ ~MakeFails(p)
          /\ ~DirremoveDone(p) /\ ~Out(p)
      BY <1>2, <3>1 DEF IreadFails, Iread, GotNew, GotLink, MakeFails, DirenterFails,
         DirremoveDone, Dirwrite, Out
    <3>3. inode'[s].nlink = inode[s].nlink
      BY <2>2, <3>2, LinkCounts
    <3>4. CASE Release(p)
      <4>1. \/ q = InUser(r.fd)
            \/ q = [r EXCEPT !.ip = None, !.pc = r.ret, !.ret = "user"]
        BY <1>1, <3>4 DEF Release, Return
      <4>2. q.ip = None /\ q.lp \in {None, r.lp} /\ q.fd = r.fd
        BY ZenonT(60), <1>1, <4>1, UserHas DEF Process
      <4> HIDE DEF q, r
      <4> QED BY <1>1, <1>3, <3>1, <4>2 DEF Refs, q
    <3>5. CASE Iupdat(p) \/ IupdatFails(p) \/ Bwrite(p)
      <4>1. q.ip = r.ip /\ q.then = r.then /\ q.pc \in {"bwrite", r.then} /\ r.then = "release"
        <5>1. r.pc \in {"iupdat", "bwrite"}
          BY <1>2, <3>5 DEF Iupdat, IupdatFails, Bwrite
        <5>2. r.then = "release"
          BY <2>4, <5>1 DEF Ending
        <5> QED BY <1>1, <3>5, <5>2 DEF Iupdat, IupdatFails, Bwrite, Go, Process
      <4>2. Ending(q)
        BY <4>1 DEF Ending
      <4> QED BY <1>3, <2>4, <3>3, <4>1, <4>2
    <3> QED BY <3>1, <3>4, <3>5, AtEnd
  <2> QED BY <1>4, <2>3, <2>4 DEF Uses1, Freed
<1>5. ASSUME ~Refs(p, s)
      PROVE  \/ (IgetHit(p) \/ IgetMiss(p)) /\ inode'[s].ino = proc[p].ino
             \/ /\ Sync(p) /\ ~inode[s].locked /\ inode[s].count # 0
                /\ inode'[s].ino = inode[s].ino
  <2>1. (IgetHit(p) \/ IgetMiss(p) \/ Sync(p)) /\ q.ip = s
    BY <1>1, <1>3, <1>5, RefersStep
  <2>2. CASE IgetHit(p)
    <3>1. PICK t \in Slots :
            /\ Found(t, r.ino)
            /\ proc' = [proc EXCEPT ![p].ip = t, ![p].pc = "got"]
            /\ inode' = [inode EXCEPT ![t].count = @ + 1, ![t].locked = TRUE]
      BY <2>2 DEF IgetHit
    <3>2. q.ip = t
      BY <1>1, <3>1 DEF Process
    <3>3. t = s
      BY <2>1, <3>2
    <3>4. SameFile(s)
      BY <1>1, <3>1, <3>3, AcquiredTable
    <3> QED BY <2>2, <3>3, <3>4, <3>1, <3>2 DEF SameFile, Found
  <2>3. CASE IgetMiss(p)
    <3>1. q.ip = Head(freelist)
      BY <1>1, <2>3 DEF IgetMiss, Process
    <3>2. inode'[Head(freelist)].ino = r.ino
      BY <1>1, <2>3, IgetMissTable
    <3>3. Head(freelist) = s
      BY <2>1, <3>1
    <3> QED BY <2>3, <3>2, <3>3
  <2>4. CASE Sync(p)
    <3>1. PICK t \in Slots :
            /\ ~inode[t].locked /\ inode[t].count > 0
            /\ inode' = [inode EXCEPT ![t].locked = TRUE, ![t].count = @ + 1]
            /\ proc' = [proc EXCEPT ![p] = [@ EXCEPT !.op = "sync", !.ip = t, !.then = "iput",
                                  !.pc = IF inode[t].dirty THEN "iupdat" ELSE "iput"]]
      BY <2>4 DEF Sync
    <3>2. q.ip = t
      BY <1>1, <3>1 DEF Process
    <3>3. t = s
      BY <2>1, <3>2
    <3>4. SameFile(s)
      BY <1>1, <3>1, <3>3, AcquiredTable
    <3>5. inode[s].count # 0
      BY <1>1, <3>1, <3>3
    <3> QED BY <2>4, <3>3, <3>4, <3>5, <3>1, <3>2 DEF SameFile
  <2> QED BY <2>1, <2>2, <2>3, <2>4
<1>6. ASSUME Ifree(p)
      PROVE  s # r.ip
  <2>1. r.pc = "ifree" /\ q = [r EXCEPT !.wait = FALSE, !.then = "release", !.pc = "iupdat"]
        /\ inode' = inode
    BY <1>1, <1>2, <1>6 DEF Ifree, ToIupdat
  <2>2. r.lp # r.ip /\ r.fd # r.ip /\ inode[r.ip].nlink <= 0
    BY <1>1, <2>1, EndsAlone DEF LastOK, AtLast
  <2>3. q.ip = r.ip /\ q.lp = r.lp /\ q.fd = r.fd /\ q.pc = "iupdat" /\ q.then = "release"
    BY <1>1, <2>1 DEF Process
  <2> HIDE DEF q
  <2> QED BY <1>3, <2>1, <2>2, <2>3 DEF Ending
<1> QED BY <1>4, <1>5, <1>6

\* What another process uses.
LEMMA OthersUse ==
    ASSUME CoreInv, WorkOK, ~Torn', NEW p \in Procs, Step(p), NEW q \in Procs \ {p},
           NEW s \in Slots, Uses1(q, s)'
    PROVE  Uses1(q, s) /\ inode'[s].ino = inode[s].ino
<1>1. /\ TypeOK /\ Frames /\ DirsOK /\ LocksExact /\ InodesOK /\ CountsExact /\ FreeListExact
      /\ proc'[q] = proc[q]
  BY Alone DEF CoreInv, TableExact
<1>2. Refs(q, s) /\ ~(proc[q].ip = s /\ Ending(proc[q]) /\ inode'[s].nlink <= 0)
  BY <1>1 DEF Uses1, Freed, Refs
<1>3. inode'[s].ino = inode[s].ino
  BY <1>1, <1>2, OthersKeep
<1>4. ASSUME proc[q].ip = s, Ending(proc[q])
      PROVE  inode'[s].nlink = inode[s].nlink
  <2>1. inode[s].count = 1 /\ ~Refs(p, s)
    BY <1>4, EndsAlone
  <2>2. proc[p].ip # s /\ proc[p].lp # s
    BY <2>1 DEF Refs
  <2>3. IgetMiss(p) => Head(freelist) # s
    BY <1>1, <2>1, HeadUnused DEF IgetMiss
  <2> QED BY <2>2, <2>3, LinkCounts
<1> QED BY <1>2, <1>3, <1>4 DEF Uses1, Freed

\* A name is new where it has been entered.
LEMMA NamedStep ==
    ASSUME CoreInv, WorkOK, NEW p \in Procs, Step(p), NEW f \in Files, Named(f)'
    PROVE  \/ Named(f)
           \/ /\ Direnter(p)
              /\ Target(proc[p]) \in Slots /\ Uses1(p, Target(proc[p]))
              /\ inode[Target(proc[p])].ino = f
<1> DEFINE r == proc[p]
<1>1. /\ TypeOK /\ Frames /\ InodesOK /\ Frame(r) /\ CalmOK(r) /\ None # f
      /\ entry \in [Paths -> Inos]
  BY Assumed DEF CoreInv, WorkOK, Frames, TypeOK
<1>2. \A l : At(p, l) => r.pc = l
  BY DEF At
<1>3. PICK a \in Paths : entry'[a] = f \/ dentry'[a] = f
  BY DEF Named
<1>4. CASE dentry'[a] = f /\ dentry'[a] # dentry[a]
  <2>1. (DirenterDone(p) \/ DirremoveDone(p)) /\ a = r.at
    BY <1>4, EntriesMove
  <2>2. dentry'[a] = entry[a]
    BY <2>1, EntriesMove
  <2> QED BY <1>4, <2>2 DEF Named
<1>5. CASE entry'[a] = f /\ entry'[a] # entry[a]
  <2>1. (Direnter(p) \/ Dirremove(p)) /\ a = r.at
    BY <1>5, EntriesMove
  <2>2. CASE Direnter(p)
    <3>1. r.pc = "direnter" /\ Owing(r)
      BY <1>1, <1>2, <2>2, Debts DEF Direnter
    <3>2. Target(r) \in Slots /\ Refs(p, Target(r))
      BY <1>1, <3>1, Owes
    <3>3. ~Freed(p, Target(r))
      BY <3>1 DEF Freed, Ending
    <3>4. r.op \in {"make", "enter"}
      BY <1>1, <3>1 DEF Frame, OpsOK
    <3>5. entry'[a] = inode[Target(r)].ino
      BY <1>1, <2>1, <2>2, <3>4 DEF Direnter, Entered, Target
    <3> QED BY <1>5, <2>2, <3>2, <3>3, <3>5 DEF Uses1
  <2>3. CASE Dirremove(p)
    BY <1>1, <1>5, <2>1, <2>3 DEF Dirremove
  <2> QED BY <2>1, <2>2, <2>3
<1> QED BY <1>3, <1>4, <1>5 DEF Named

\* The number that a step frees.
LEMMA IusedStep ==
    ASSUME NEW p \in Procs, Step(p), NEW f, f \in iused, f \notin iused'
    PROVE  \/ Ifree(p) /\ proc[p].pc = "ifree" /\ inode[proc[p].ip].ino = f
           \/ Ifreeino(p) /\ proc[p].pc = "ifreeino" /\ proc[p].ino = f
<1>1. CASE IalloccgTake(p)
  BY <1>1 DEF IalloccgTake
<1>2. CASE Ifree(p)
  BY <1>2 DEF Ifree, FreeNumber, At
<1>3. CASE Ifreeino(p)
  BY <1>3 DEF Ifreeino, FreeNumber, At
<1> QED BY <1>1, <1>2, <1>3, DiskEffect

\* The number that a process makes a file of is the one it has taken.
LEMMA MakingStep ==
    ASSUME CoreInv, WorkOK, NEW p \in Procs, Step(p), Making(proc'[p])
    PROVE  /\ \/ Making(proc[p]) /\ proc'[p].ino = proc[p].ino
              \/ /\ IalloccgTake(p) /\ proc'[p].ino \in Files
                 /\ proc'[p].ino \notin iused /\ proc'[p].ino \in iused'
           /\ ~Ifreeino(p) /\ ~Direnter(p)
<1> DEFINE r == proc[p]  q == proc'[p]
<1>1. /\ TypeOK /\ Frames /\ InodesOK /\ Frame(r) /\ CalmOK(r) /\ r \in Process
      /\ proc \in [Procs -> Process]
  BY DEF CoreInv, WorkOK, Frames, TypeOK
<1>2. \A l : At(p, l) => r.pc = l
  BY DEF At
<1>3. \A fd : q # InUser(fd)
  BY UserAt DEF Making
<1>4. ~Ifreeino(p)
  BY <1>1, <1>3 DEF Ifreeino, NoInode
<1>5. ~Direnter(p)
  <2>1. SUFFICES ASSUME Direnter(p) PROVE FALSE
    OBVIOUS
  <2>2. r.pc = "direnter" /\ q.pc = "dirwrite" /\ q.ret = r.ret
    BY <1>1, <1>2, <2>1 DEF Direnter, Go, Process
  <2>3. r.ret = "user"
    BY <1>1, <2>2 DEF Frame, RetOK, Ireles
  <2> QED BY <2>2, <2>3 DEF Making
<1>6. CASE ~Maker(p)
  BY <1>1, <1>4, <1>5, <1>6, Moves DEF MakeKept
<1>7. CASE IalloccgTake(p)
  <2>1. PICK i \in Inos \ iused :
          /\ iused' = iused \cup {i}
          /\ IF i = None THEN NoInode(p)
             ELSE proc' = [proc EXCEPT ![p].ino = i, ![p].pc = "iget"]
    BY <1>7 DEF IalloccgTake
  <2>2. i # None
    BY <1>1, <1>3, <2>1 DEF NoInode
  <2>3. q.ino = i
    BY <1>1, <2>1, <2>2 DEF Process
  <2>4. i \in Files
    BY <2>2 DEF Inos
  <2> QED BY <1>4, <1>5, <1>7, <2>1, <2>3, <2>4
<1>8. CASE GotNew(p)
  <2>1. r.pc = "got" /\ q.pc = "iupdat" /\ q.ret = r.ret
    BY <1>1, <1>2, <1>8 DEF GotNew, Process
  <2>2. r.ret = "user"
    BY <1>1, <2>1 DEF Frame, RetOK, Ireles
  <2> QED BY <2>1, <2>2 DEF Making
<1>9. CASE IgetHit(p)
  <2>1. PICK s : proc' = [proc EXCEPT ![p].ip = s, ![p].pc = "got"]
    BY <1>9 DEF IgetHit
  <2>2. r.pc = "iget" /\ q.op = r.op /\ q.ino = r.ino /\ q.ret = r.ret
    BY <1>1, <1>2, <1>9, <2>1 DEF IgetHit, Process
  <2> QED BY <1>4, <1>5, <2>2 DEF Making
<1>10. CASE Iread(p)
  <2>1. r.pc = "iread" /\ q.op = r.op /\ q.ino = r.ino /\ q.ret = r.ret
    BY <1>1, <1>2, <1>10 DEF Iread, Go, Process
  <2> QED BY <1>4, <1>5, <2>1 DEF Making
<1> QED BY <1>6, <1>7, <1>8, <1>9, <1>10 DEF Maker

\* The number of a file with names is not freed.
LEMMA NamedUsed ==
    ASSUME CoreInv, WorkOK, LinksOK, NumbersOK, NEW p \in Procs, Step(p),
           NEW f \in Files, Named(f)
    PROVE  f \in iused /\ f \in iused'
<1> DEFINE r == proc[p]  s == r.ip
<1>1. /\ TypeOK /\ Frames /\ InodesOK /\ LocksExact /\ LastOK(p) /\ NumberOK(p)
      /\ f \in iused /\ inode \in [Table -> Inode]
  BY DEF CoreInv, WorkOK, NumbersOK, TypeOK
<1>2. SUFFICES ASSUME f \notin iused' PROVE FALSE
  BY <1>1
<1>3. CASE Ifree(p) /\ r.pc = "ifree" /\ inode[s].ino = f
  <2>1. s \in Slots /\ s \in Table /\ HasFile(p, s)
    BY <1>3, EndsAlone DEF HasFile, Table
  <2>2. Cached(s, f)
    <3>1. inode[s].hashed
      BY <1>1, <1>3, <2>1 DEF InodesOK, SlotOK
    <3>2. ~Reading(s)
      BY <1>1, <1>3, <2>1, NotRead
    <3> QED BY <1>3, <3>1, <3>2 DEF Cached, Found
  <2>3. /\ inode[s].nlink >= Links(entry, f) + Cardinality(Owed(s))
        /\ inode[s].nlink >= Links(dentry, f) + Cardinality(OwedDisk(s))
    BY <2>1, <2>2 DEF LinksOK, CoreCounts
  <2>4. inode[s].nlink <= 0 /\ inode[s].nlink \in Int
    BY <1>1, <1>3, <2>1 DEF LastOK, AtLast, Inode
  <2>5. Cardinality(Owed(s)) \in Nat /\ Cardinality(OwedDisk(s)) \in Nat
    <3>1. Owed(s) \in SUBSET Procs /\ OwedDisk(s) \in SUBSET Procs
      BY DEF Owed, OwedDisk
    <3> QED BY <3>1, Fewer
  <2>6. Links(entry, f) \in Nat /\ Links(dentry, f) \in Nat
    BY LinksType
  <2>7. Links(entry, f) = 0 /\ Links(dentry, f) = 0
    BY <2>3, <2>4, <2>5, <2>6
  <2> QED BY <2>7, LinksType DEF Named
<1>4. CASE Ifreeino(p) /\ r.pc = "ifreeino" /\ r.ino = f
  <2>1. r.op = "make"
    BY <1>1, <1>4 DEF Frames, Frame, OpsOK
  <2> QED BY <1>1, <1>4, <2>1 DEF NumberOK, Making
<1> QED BY <1>1, <1>2, <1>3, <1>4, IusedStep

\* Nor is that of an inode that another process uses, or makes a file of.
LEMMA UsedByOthers ==
    ASSUME CoreInv, WorkOK, NumbersOK, NEW p \in Procs, Step(p), NEW q \in Procs \ {p}
    PROVE  /\ \A s \in Slots : Uses1(q, s) /\ inode[s].ino \in Files => inode[s].ino \in iused'
           /\ Making(proc[q]) => proc[q].ino \in iused'
<1>1. /\ TypeOK /\ Frames /\ InodesOK /\ OneCopy /\ NumberOK(p) /\ NumberOK(q)
      /\ OwnNumber(p, q) /\ OwnNumber(q, p)
  BY DEF CoreInv, TableExact, WorkOK, NumbersOK
<1>2. proc[p].pc = "ifree" =>
         /\ proc[p].ip \in Slots /\ ~Refs(q, proc[p].ip) /\ Uses1(p, proc[p].ip)
  BY EndsAlone DEF Uses1, Refs, Freed, Ending
<1>3. proc[p].pc = "ifreeino" => Making(proc[p])
  BY <1>1 DEF Frames, Frame, OpsOK, Making
<1>4. ASSUME NEW s \in Slots, Uses1(q, s), inode[s].ino \in Files, inode[s].ino \notin iused'
      PROVE  FALSE
  <2>1. inode[s].ino \in iused
    BY <1>1, <1>4 DEF NumberOK
  <2>2. CASE proc[p].pc = "ifree" /\ inode[proc[p].ip].ino = inode[s].ino
    <3>1. inode[s].hashed /\ inode[proc[p].ip].hashed
      BY <1>1, <1>2, <1>4, <2>2 DEF InodesOK, SlotOK
    <3>2. s = proc[p].ip
      BY <1>1, <1>2, <2>2, <3>1 DEF OneCopy
    <3> QED BY <1>2, <1>4, <2>2, <3>2 DEF Uses1
  <2>3. CASE proc[p].pc = "ifreeino" /\ proc[p].ino = inode[s].ino
    BY <1>1, <1>3, <1>4, <2>3 DEF OwnNumber
  <2> QED BY <1>4, <2>1, <2>2, <2>3, IusedStep
<1>5. ASSUME Making(proc[q]), proc[q].ino \notin iused'
      PROVE  FALSE
  <2>1. proc[q].ino \in iused
    BY <1>1, <1>5 DEF NumberOK
  <2>2. CASE proc[p].pc = "ifree" /\ inode[proc[p].ip].ino = proc[q].ino
    BY <1>1, <1>2, <1>5, <2>2 DEF OwnNumber
  <2>3. CASE proc[p].pc = "ifreeino" /\ proc[p].ino = proc[q].ino
    BY <1>1, <1>3, <1>5, <2>3 DEF OwnNumber
  <2> QED BY <1>5, <2>1, <2>2, <2>3, IusedStep
<1> QED BY <1>4, <1>5

\* What others have of their numbers stays so.
LEMMA OthersNumber ==
    ASSUME CoreInv, WorkOK, LinksOK, NumbersOK, ~Torn', NEW p \in Procs, Step(p),
           NEW q \in Procs \ {p}
    PROVE  NumberOK(q)'
<1> DEFINE r == proc[q]
<1>1. /\ TypeOK /\ Frames /\ DirsOK /\ LocksExact /\ InodesOK /\ CountsExact /\ FreeListExact
      /\ Frame(r) /\ proc'[q] = r /\ NumberOK(q) /\ OwnNumber(p, q)
  BY Alone DEF CoreInv, TableExact, Frames, NumbersOK
<1>2. ASSUME NEW s \in Slots, Uses1(q, s)', inode'[s].ino \in Files
      PROVE  inode'[s].ino \in iused'
  BY <1>2, OthersUse, UsedByOthers
<1>3. ASSUME Making(r)
      PROVE  /\ r.ino \in iused' \cap Files
             /\ \A a \in Paths : entry'[a] # r.ino /\ dentry'[a] # r.ino
  <2>1. r.ino \in Files /\ ~Named(r.ino)
    BY <1>1, <1>3 DEF NumberOK
  <2>2. ASSUME NEW f, f = r.ino, Named(f)'
        PROVE  FALSE
    BY <1>1, <1>3, <2>1, <2>2, NamedStep DEF OwnNumber
  <2> QED BY <1>3, <2>1, <2>2, UsedByOthers DEF Named
<1>4. ASSUME MakesFile(r)
      PROVE  /\ inode'[r.ip].count = 1
             /\ Owing(r) => inode'[r.ip].nlink = 1
  <2>1. r.op = "make" /\ r.pc \in {"got", "direnter", "iupdat", "bwrite"}
    BY <1>4 DEF MakesFile, Owing
  <2>2. r.ip # None
    BY <1>1, <2>1 DEF Frame, HandOK, Ireles
  <2>3. r.ip \in Slots /\ r.ip \in Table
    BY <1>1, <2>2, Held
  <2>4. inode[r.ip].count = 1 /\ inode[r.ip].locked /\ Refs(q, r.ip)
    <3>1. LockFile(r)
      BY <2>1, <2>2 DEF LockFile, FilePlaces
    <3> QED BY <1>1, <1>4, <2>3, <3>1, FileLocked DEF NumberOK, Refs
  <2>5. inode'[r.ip].count = 1
    BY <1>1, <2>3, <2>4, OthersKeep
  <2>6. ~Refs(p, r.ip)
    BY <1>1, <2>3, <2>4, Counted
  <2>7. inode'[r.ip].nlink = inode[r.ip].nlink
    <3>1. proc[p].ip # r.ip /\ proc[p].lp # r.ip
      BY <2>6 DEF Refs
    <3>2. IgetMiss(p) => Head(freelist) # r.ip
      BY <1>1, <2>4, HeadUnused DEF IgetMiss
    <3> QED BY <2>3, <3>1, <3>2, LinkCounts
  <2> QED BY <1>1, <2>1, <2>5, <2>7 DEF NumberOK
<1>5. r.op = "make" /\ Owing(r) => MakesFile(r)
  BY DEF MakesFile
<1> HIDE DEF r
<1> QED BY <1>1, <1>2, <1>3, <1>4, <1>5 DEF NumberOK, Named

\* The number that iget looks up is one that is named, or that is being made.
LEMMA LookedUp ==
    ASSUME CoreInv, WorkOK, NumbersOK, NEW p \in Procs, IgetHit(p) \/ IgetMiss(p),
           proc[p].ino \in Files
    PROVE  /\ proc[p].pc = "iget"
           /\ proc[p].op = "make" => Making(proc[p])
           /\ proc[p].op # "make" => Named(proc[p].ino)
<1> DEFINE r == proc[p]
<1>1. r.pc = "iget" /\ Frame(r) /\ NameOK(p)
  BY DEF IgetHit, IgetMiss, At, CoreInv, Frames, WorkOK
<1>2. r.op # "make" => entry[r.at] = r.ino
  BY <1>1 DEF NameOK
<1>3. r.at \in Paths
  <2>1. r.at # None
    BY <1>1 DEF Frame, OpsOK, PathOK, Lookups
  <2> QED BY <2>1, DirOf DEF CoreInv
<1> QED BY <1>1, <1>2, <1>3 DEF Making, Named

\* A process that makes a file, and has its inode not at hand yet, has no other.
LEMMA MakesAlone ==
    ASSUME CoreInv, NEW p \in Procs, proc[p].op = "make", proc[p].pc \in {"iget", "ifreeino"}
    PROVE  \A s \in Slots : ~Refs(p, s)
BY Assumed DEF CoreInv, Frames, Frame, PathOK, HandOK, Ireles, Opens, Refs

\* A slot that is not locked, with the number q makes a file of, is not q's.
LEMMA OthersSlot ==
    ASSUME CoreInv, NumbersOK, NEW q \in Procs, Making(proc[q]), NEW s \in Slots,
           ~inode[s].locked, inode[s].count # 0
    PROVE  inode[s].ino # proc[q].ino
<1> SUFFICES ASSUME inode[s].ino = proc[q].ino PROVE FALSE
  OBVIOUS
<1>1. /\ Frame(proc[q]) /\ LocksExact /\ InodesOK /\ NumberOK(q) /\ proc[q].ino \in Files
      /\ HandsOK(q)
  BY DEF CoreInv, Frames, NumbersOK, NumberOK, InodesOK
<1>2. inode[s].ino # s /\ inode[s].ino # None
  BY <1>1, Assumed
<1>3. PICK x \in Procs : Uses1(x, s)
  BY <1>2, HasUser
<1>4. x = q
  BY <1>3 DEF NumbersOK, OwnNumber
<1>5. proc[q].op = "make" /\ Refs(q, s)
  BY <1>3, <1>4 DEF Making, Uses1
<1>6. proc[q].ip = s /\ proc[q].ip # None
  BY <1>5, <1>1, Assumed DEF Refs, Frame, PathOK, Opens
<1>7. CASE proc[q].ret = "null"
  BY <1>1, <1>2, <1>6, <1>7 DEF HandsOK
<1>8. CASE proc[q].ret # "null"
  <2>1. proc[q].pc \in {"iread", "got"}
    BY <1>1, <1>6, <1>8 DEF Making, Frame, HandOK, Ireles
  <2>2. LockFile(proc[q]) /\ proc[q].ip \in Table
    BY <1>6, <2>1 DEF LockFile, FilePlaces, Table
  <2> QED BY <1>1, <1>6, <2>2, FileLocked
<1> QED BY <1>7, <1>8

\* What p has of its numbers after its own step.
LEMMA OwnNumbers ==
    ASSUME CoreInv, WorkOK, LinksOK, NumbersOK, ~Torn', NEW p \in Procs, Step(p)
    PROVE  NumberOK(p)'
<1> DEFINE r == proc[p]  q == proc'[p]
<1>1. /\ TypeOK /\ Frames /\ DirsOK /\ LocksExact /\ InodesOK /\ CountsExact /\ FreeListExact
      /\ OneCopy /\ Frame(r) /\ CalmOK(r) /\ NumberOK(p) /\ HandsOK(p)
      /\ proc \in [Procs -> Process] /\ inode \in [Table -> Inode] /\ r \in Process
  BY DEF CoreInv, TableExact, Frames, NumbersOK, WorkOK, InodesOK, TypeOK
<1>2. \A l : At(p, l) => r.pc = l
  BY DEF At
<1>3. ASSUME NEW s \in Slots, Uses1(p, s)', inode'[s].ino \in Files
      PROVE  inode'[s].ino \in iused'
  <2> DEFINE f == inode'[s].ino
  <2>1. CASE Uses1(p, s) /\ f = inode[s].ino
    <3>1. f \in iused
      BY <1>1, <1>3, <2>1 DEF NumberOK
    <3>2. SUFFICES ASSUME f \notin iused' PROVE FALSE
      OBVIOUS
    <3>3. CASE Ifree(p) /\ r.pc = "ifree" /\ inode[r.ip].ino = f
      <4>1. r.ip \in Slots
        BY <3>3, EndsAlone
      <4>2. inode[s].hashed /\ inode[r.ip].hashed
        BY <1>1, <1>3, <2>1, <3>3, <4>1 DEF InodesOK, SlotOK
      <4>3. s = r.ip
        BY <1>1, <2>1, <3>3, <4>1, <4>2 DEF OneCopy
      <4> QED BY <1>3, <3>3, <4>3, OwnUse
    <3>4. CASE Ifreeino(p) /\ r.pc = "ifreeino"
      <4>1. r.op = "make"
        BY <1>1, <3>4 DEF Frame, OpsOK
      <4> QED BY <2>1, <3>4, <4>1, MakesAlone DEF Uses1
    <3> QED BY <3>1, <3>2, <3>3, <3>4, IusedStep
  <2>2. CASE (IgetHit(p) \/ IgetMiss(p)) /\ f = r.ino
    <3>1. f \in iused
      <4>1. CASE r.op = "make"
        BY <1>1, <1>3, <2>2, <4>1, LookedUp DEF NumberOK
      <4>2. CASE r.op # "make"
        BY <1>3, <2>2, <4>2, LookedUp DEF NumbersOK
      <4> QED BY <4>1, <4>2
    <3>2. iused' = iused
      BY <2>2 DEF IgetHit, IgetMiss, disk
    <3> QED BY <3>1, <3>2
  <2>3. CASE Sync(p) /\ ~inode[s].locked /\ inode[s].count # 0 /\ f = inode[s].ino
    <3>1. inode[s].ino # s
      BY <1>3, <2>3, Assumed
    <3>2. PICK x \in Procs : Uses1(x, s)
      BY <2>3, <3>1, HasUser
    <3>3. f \in iused
      BY <1>3, <2>3, <3>2 DEF NumbersOK, NumberOK
    <3>4. iused' = iused
      BY <2>3 DEF Sync, disk
    <3> QED BY <3>3, <3>4
  <2>4. f # None
    BY <1>3, Assumed
  <2> QED BY <1>3, <2>1, <2>2, <2>3, <2>4, OwnUse
<1>4. ASSUME Making(q)
      PROVE  /\ q.ino \in iused' \cap Files
             /\ \A a \in Paths : entry'[a] # q.ino /\ dentry'[a] # q.ino
  <2>1. /\ q.ino \in Files /\ ~Named(q.ino)
    <3>1. CASE Making(r) /\ q.ino = r.ino
      BY <1>1, <3>1 DEF NumberOK
    <3>2. CASE q.ino \in Files /\ q.ino \notin iused
      BY <3>2 DEF NumbersOK
    <3> QED BY <1>4, <3>1, <3>2, MakingStep
  <2>2. q.ino \in iused'
    <3>1. CASE Making(r) /\ q.ino = r.ino
      <4>1. r.ino \in iused
        BY <1>1, <3>1 DEF NumberOK
      <4>2. SUFFICES ASSUME r.ino \notin iused' PROVE FALSE
        BY <3>1
      <4>3. Ifree(p) /\ r.pc = "ifree" /\ inode[r.ip].ino = r.ino
        BY <1>4, <4>1, <4>2, IusedStep, MakingStep
      <4>4. r.ret = "null"
        BY <3>1, <4>3 DEF Making
      <4> QED BY <1>1, <2>1, <3>1, <4>3, <4>4, Assumed DEF HandsOK
    <3>2. CASE q.ino \in iused'
      BY <3>2
    <3> QED BY <1>4, <3>1, <3>2, MakingStep
  <2>3. ASSUME NEW f, f = q.ino, Named(f)'
        PROVE  FALSE
    BY <1>4, <2>1, <2>3, NamedStep, MakingStep
  <2> QED BY <2>1, <2>2, <2>3 DEF Named
<1>5. ASSUME MakesFile(q)
      PROVE  inode'[q.ip].count = 1
  <2>1. CASE IgetHit(p)
    <3>1. PICK s \in Slots :
            /\ Found(s, r.ino) /\ ~inode[s].locked
            /\ proc' = [proc EXCEPT ![p].ip = s, ![p].pc = "got"]
            /\ inode' = [inode EXCEPT ![s].count = @ + 1, ![s].locked = TRUE]
      BY <2>1 DEF IgetHit
    <3>2. q.ip = s /\ q.op = r.op /\ r.pc = "iget" /\ s \in Table
      BY <1>1, <1>2, <2>1, <3>1 DEF IgetHit, Process, Table
    <3>3. Making(r)
      BY <1>5, <3>2 DEF MakesFile, Making
    <3>4. inode[s].count = 0
      BY <3>1, <3>3, OthersSlot DEF Found
    <3>5. inode'[s].count = inode[s].count + 1
      BY <1>1, <3>1, <3>2, AcquiredTable
    <3> QED BY <3>2, <3>4, <3>5
  <2>2. CASE IalloccgTake(p)
    <3>1. q = InUser(r.fd) \/ \E i \in Inos : q = [r EXCEPT !.ino = i, !.pc = "iget"]
      BY <1>1, <2>2 DEF IalloccgTake, NoInode
    <3>2. q.pc \in {"user", "iget"}
      BY <1>1, <3>1, UserAt DEF Process
    <3> HIDE DEF q
    <3> QED BY <1>5, <3>2 DEF MakesFile, Owing
  <2>3. CASE ~IgetHit(p) /\ ~IalloccgTake(p)
    <3>1. /\ r.pc \in {"got", "iread", "direnter", "iupdat", "bwrite"}
          /\ inode[r.ip].count = 1 /\ q.ip = r.ip /\ r.ip # None /\ ~IreadFails(p)
      <4>1. CASE GotNew(p)
        <5>1. q.ip = r.ip /\ r.pc = "got" /\ r.op = "make"
          BY <1>1, <1>2, <4>1 DEF GotNew, Process
        <5> QED BY <1>1, <1>2, <5>1 DEF NumberOK, MakesFile, Frame, HandOK, IreadFails
      <4>2. CASE Iread(p)
        <5>1. q.ip = r.ip /\ r.pc = "iread" /\ q.pc = "got"
          BY <1>1, <1>2, <4>2 DEF Iread, Go, Process
        <5>2. ~IreadFails(p)
          BY <1>1, <5>1 DEF IreadFails, Process
        <5> QED BY <1>1, <5>1, <5>2 DEF HandsOK, Frame, HandOK
      <4>3. CASE ~Maker(p)
        <5>1. MakesFile(r) /\ q.ip = r.ip
          BY <1>1, <1>5, <4>3, Moves DEF MakeKept
        <5>2. r.op = "make" /\ r.pc \in {"got", "direnter", "iupdat", "bwrite"}
          BY <5>1 DEF MakesFile, Owing
        <5>3. ~IreadFails(p)
          BY <1>2, <5>2 DEF IreadFails
        <5> QED BY <1>1, <5>1, <5>2, <5>3 DEF NumberOK, Frame, HandOK, Ireles
      <4> QED BY <2>3, <4>1, <4>2, <4>3 DEF Maker
    <3>2. r.ip \in Slots
      BY <1>1, <3>1, Held
    <3>3. ~Changes(p)
      BY <1>2, <3>1 DEF Changes, Sync, IgetHit, IgetMiss, IreleShared, Release
    <3>4. SlotsKept
      BY <1>1, <3>1, <3>3, SlotsStep
    <3> QED BY <3>1, <3>2, <3>4 DEF SlotsKept
  <2> QED BY <2>1, <2>2, <2>3
<1>6. ASSUME q.op = "make", Owing(q)
      PROVE  inode'[q.ip].nlink = 1
  <2>1. q.pc \in {"direnter", "iupdat", "bwrite"}
    BY <1>6 DEF Owing
  <2>2. CASE GotNew(p)
    <3>1. q.ip = r.ip
      BY <1>1, <2>2 DEF GotNew, Process
    <3> QED BY <1>1, <2>2, <3>1, GotNewTable
  <2>3. CASE ~Maker(p)
    <3>1. Owing(r) /\ q.ip = r.ip /\ MakesFile(r)
      <4>1. MakesFile(q)
        BY <1>6 DEF MakesFile
      <4> QED BY <1>1, <1>6, <2>3, <4>1, Moves DEF MakeKept
    <3>2. r.op = "make" /\ r.pc \in {"direnter", "iupdat", "bwrite"}
      BY <3>1 DEF MakesFile, Owing
    <3>3. r.ip # None /\ r.ip \in Slots
      BY <1>1, <3>2, Held DEF Frame, HandOK, Ireles
    <3>4. /\ ~IgetMiss(p) /\ ~IreadFails(p) /\ ~Iread(p) /\ ~GotNew(p) /\ ~GotLink(p)
          /\ ~DirremoveDone(p) /\ ~Out(p)
      BY <1>2, <3>2 DEF IgetMiss, IreadFails, Iread, GotNew, GotLink,
         DirremoveDone, Dirwrite, Out
    <3>5. ~MakeFails(p)
      BY <1>1, <1>6, Debts
    <3>6. inode'[r.ip].nlink = inode[r.ip].nlink
      BY <3>3, <3>4, <3>5, LinkCounts
    <3> QED BY <1>1, <3>1, <3>2, <3>6 DEF NumberOK
  <2>4. CASE IalloccgTake(p)
    <3>1. q = InUser(r.fd) \/ \E i \in Inos : q = [r EXCEPT !.ino = i, !.pc = "iget"]
      BY <1>1, <2>4 DEF IalloccgTake, NoInode
    <3> QED BY <1>1, <2>1, <3>1, UserAt DEF Process
  <2>5. CASE IgetHit(p) \/ Iread(p)
    <3>1. q.pc = "got"
      <4>1. CASE IgetHit(p)
        <5>1. PICK s : proc' = [proc EXCEPT ![p].ip = s, ![p].pc = "got"]
          BY <4>1 DEF IgetHit
        <5> QED BY <1>1, <5>1 DEF Process
      <4>2. CASE Iread(p)
        BY <1>1, <4>2 DEF Iread, Go, Process
      <4> QED BY <2>5, <4>1, <4>2
    <3> QED BY <2>1, <3>1
  <2> QED BY <2>2, <2>3, <2>4, <2>5 DEF Maker
<1> HIDE DEF q, r
<1> QED BY <1>3, <1>4, <1>5, <1>6 DEF NumberOK, Named, q

\* Each number has one maker, and nobody else uses it.
LEMMA OwnNumberStep ==
    ASSUME CoreInv, WorkOK, LinksOK, NumbersOK, ~Torn', NEW p \in Procs, Step(p),
           NEW x \in Procs, NEW y \in Procs, x # y
    PROVE  OwnNumber(x, y)'
<1> DEFINE X == proc[x]  Y == proc[y]
<1>1. /\ \A z \in Procs \ {p} : proc'[z] = proc[z]
      /\ \A z \in Procs : NumberOK(z)
      /\ \A z, w \in Procs : z # w => OwnNumber(z, w)
      /\ \A f \in Files : Named(f) => f \in iused
      /\ None \notin Files
  BY Alone, Assumed DEF CoreInv, NumbersOK
<1>2. SUFFICES ASSUME Making(proc'[y])
               PROVE  /\ Making(proc'[x]) => proc'[x].ino # proc'[y].ino
                      /\ \A s \in Slots : Uses1(x, s)' => inode'[s].ino # proc'[y].ino
  BY DEF OwnNumber
<1>3. \A z \in Procs : Making(proc[z]) => proc[z].ino \in iused \cap Files /\ ~Named(proc[z].ino)
  BY <1>1 DEF NumberOK
<1>4. CASE y # p
  <2>1. Making(Y) /\ proc'[y] = Y
    BY <1>1, <1>2, <1>4
  <2>2. CASE x # p
    <3>1. proc'[x] = X
      BY <1>1, <2>2
    <3>2. \A s \in Slots : Uses1(x, s)' => Uses1(x, s) /\ inode'[s].ino = inode[s].ino
      BY <2>2, OthersUse
    <3> QED BY <1>1, <2>1, <3>1, <3>2 DEF OwnNumber
  <2>3. CASE x = p
    <3>1. Making(proc'[p]) => proc'[p].ino # Y.ino
      BY <1>1, <1>3, <2>1, <2>3, MakingStep DEF OwnNumber
    <3>2. ASSUME NEW s \in Slots, Uses1(p, s)', inode'[s].ino = Y.ino
          PROVE  FALSE
      <4>1. Y.ino \in Files /\ ~Named(Y.ino)
        BY <1>3, <2>1
      <4>2. CASE Uses1(p, s) /\ inode'[s].ino = inode[s].ino
        BY <1>1, <2>1, <2>3, <3>2, <4>2 DEF OwnNumber
      <4>3. CASE (IgetHit(p) \/ IgetMiss(p)) /\ inode'[s].ino = proc[p].ino
        <5>1. Making(proc[p])
          BY <3>2, <4>1, <4>3, LookedUp
        <5> QED BY <1>1, <2>1, <2>3, <3>2, <4>3, <5>1 DEF OwnNumber
      <4>4. CASE /\ Sync(p) /\ ~inode[s].locked /\ inode[s].count # 0
                 /\ inode'[s].ino = inode[s].ino
        BY <2>1, <3>2, <4>4, OthersSlot
      <4> QED BY <1>1, <3>2, <4>1, <4>2, <4>3, <4>4, OwnUse
    <3> QED BY <2>1, <2>3, <3>1, <3>2
  <2> QED BY <2>2, <2>3
<1>5. CASE y = p
  <2>1. /\ proc'[x] = X
        /\ \A s \in Slots : Uses1(x, s)' => Uses1(x, s) /\ inode'[s].ino = inode[s].ino
    BY <1>1, <1>5, OthersUse
  <2>2. CASE Making(Y) /\ proc'[y].ino = Y.ino
    BY <1>1, <2>1, <2>2 DEF OwnNumber
  <2>3. CASE proc'[y].ino \in Files /\ proc'[y].ino \notin iused
    <3>1. Making(X) => X.ino # proc'[y].ino
      BY <1>3, <2>3
    <3>2. \A s \in Slots : Uses1(x, s) => inode[s].ino # proc'[y].ino
      BY <1>1, <2>3 DEF NumberOK
    <3> QED BY <2>1, <3>1, <3>2
  <2> QED BY <1>2, <1>5, <2>2, <2>3, MakingStep
<1> QED BY <1>4, <1>5

LEMMA NumbersStep ==
    ASSUME CoreInv, WorkOK, LinksOK, NumbersOK, ~Torn', NEW p \in Procs, Step(p)
    PROVE  NumbersOK'
<1>1. ASSUME NEW f \in Files, Named(f)'
      PROVE  f \in iused'
  <2>1. CASE Named(f)
    BY <2>1, NamedUsed
  <2>2. CASE /\ Direnter(p)
             /\ Target(proc[p]) \in Slots /\ Uses1(p, Target(proc[p]))
             /\ inode[Target(proc[p])].ino = f
    <3>1. f \in iused
      BY <2>2 DEF NumbersOK, NumberOK
    <3>2. iused' = iused
      BY <2>2 DEF Direnter
    <3> QED BY <3>1, <3>2
  <2> QED BY <1>1, <2>1, <2>2, NamedStep
<1>2. \A q \in Procs : NumberOK(q)'
  <2>1. \A q \in Procs \ {p} : NumberOK(q)'
    BY OthersNumber
  <2> QED BY <2>1, OwnNumbers
<1>3. \A x, y \in Procs : x # y => OwnNumber(x, y)'
  BY OwnNumberStep
<1> QED BY <1>1, <1>2, <1>3 DEF NumbersOK

LEMMA LinksStep ==
    ASSUME CoreInv, WorkOK, LinksOK, NumbersOK, ~Torn', NEW p \in Procs, Step(p)
    PROVE  LinksOK'
<1>1. \A f \in Files : DiskCounts(f)'
  BY DiskCountsStep
<1>2. \A f \in Files, s \in Slots : CoreCounts(s, f)'
  BY CoreCountsStep
<1> QED BY <1>1, <1>2 DEF LinksOK

\* A number becomes vague where it is freed, with its inode clear.
LEMMA VagueStep ==
    ASSUME CoreInv, WorkOK, NumbersOK, NEW p \in Procs, Step(p), NEW f \in Files, Vague(f)'
    PROVE  \/ Vague(f)
           \/ Ifree(p) /\ proc[p].pc = "ifree" /\ inode[proc[p].ip].ino = f
<1>1. \A q \in Procs \ {p} : proc'[q] = proc[q]
  BY Alone DEF CoreInv
<1>2. Frame(proc[p])
  BY DEF CoreInv, Frames
<1>3. CASE f \notin iused'
  <2>1. CASE f \in iused
    <3>1. CASE Ifreeino(p) /\ proc[p].pc = "ifreeino" /\ proc[p].ino = f
      <4>1. Making(proc[p])
        BY <1>2, <3>1 DEF Making, Frame, OpsOK
      <4> QED BY <3>1, <4>1 DEF Vague
    <3> QED BY <1>3, <2>1, <3>1, IusedStep
  <2> QED BY <2>1 DEF Vague
<1>4. ASSUME NEW q \in Procs, Making(proc'[q]), proc'[q].ino = f
      PROVE  Vague(f)
  <2>1. CASE q = p
    BY <1>4, <2>1, MakingStep DEF Vague
  <2>2. CASE q # p
    BY <1>1, <1>4, <2>2 DEF Vague
  <2> QED BY <2>1, <2>2
<1> QED BY <1>3, <1>4 DEF Vague

\* No number is lost while inodes can be read.
LEMMA NumbersFound ==
    ASSUME CoreInv, WorkOK, ClearOK, ~Torn', NEW p \in Procs, Step(p), ~IreadFails(p),
           NEW q \in Procs, NEW s \in Slots, Refs(q, s)'
    PROVE  inode'[s].ino # None
<1>1. /\ TypeOK /\ Frames /\ DirsOK /\ LocksExact /\ InodesOK /\ CountsExact /\ FreeListExact
      /\ Frame(proc[p]) /\ proc \in [Procs -> Process] /\ None \notin Slots
  BY Assumed DEF CoreInv, TableExact, Frames, TypeOK
<1>2. CASE q # p
  <2>1. proc'[q] = proc[q]
    BY <1>1, <1>2, Alone
  <2>2. Refs(q, s)
    BY <2>1 DEF Refs
  <2>3. inode'[s].ino = inode[s].ino
    BY <1>1, <1>2, <2>2, OthersKeep
  <2> QED BY <2>2, <2>3 DEF ClearOK
<1>3. CASE q = p /\ Refs(p, s)
  <2>1. inode[s].count # 0
    <3>1. inode[s].count \in Nat
      BY <1>1 DEF TypeOK, Table, Inode
    <3> QED BY <1>1, <1>3, <3>1, Counted
  <2>2. IgetMiss(p) => Head(freelist) # s
    BY <1>1, <2>1, HeadUnused DEF IgetMiss
  <2>3. inode'[s].ino = inode[s].ino
    BY <2>2, NumberKept
  <2> QED BY <1>3, <2>3 DEF ClearOK
<1>4. CASE q = p /\ ~Refs(p, s)
  <2>1. (IgetHit(p) \/ IgetMiss(p) \/ Sync(p)) /\ Refs(p, s)'
    BY <1>1, <1>4, RefersStep
  <2>2. ~Ending(proc'[p])
    <3>1. CASE IgetHit(p)
      <4>1. PICK t : proc' = [proc EXCEPT ![p].ip = t, ![p].pc = "got"]
        BY <3>1 DEF IgetHit
      <4>2. proc'[p].pc = "got"
        BY <1>1, <4>1 DEF Process
      <4> QED BY <4>2 DEF Ending
    <3>2. CASE IgetMiss(p)
      <4>1. proc'[p].pc = "iread"
        BY <1>1, <3>2 DEF IgetMiss, Process
      <4> QED BY <4>1 DEF Ending
    <3>3. CASE Sync(p)
      <4>1. proc'[p].pc \in {"iupdat", "iput"} /\ proc'[p].then = "iput"
        BY <1>1, <3>3 DEF Sync, Process
      <4> QED BY <4>1 DEF Ending
    <3> QED BY <2>1, <3>1, <3>2, <3>3
  <2>3. Uses1(p, s)'
    BY <2>1, <2>2 DEF Uses1, Freed
  <2>4. \/ (IgetHit(p) \/ IgetMiss(p)) /\ inode'[s].ino = proc[p].ino
        \/ /\ Sync(p) /\ ~inode[s].locked /\ inode[s].count # 0
           /\ inode'[s].ino = inode[s].ino
    BY <1>4, <2>3, OwnUse DEF Uses1
  <2>5. IgetHit(p) \/ IgetMiss(p) => proc[p].ino # None
    BY <1>1 DEF IgetHit, IgetMiss, At, Frame, PathOK
  <2>6. ASSUME ~inode[s].locked, inode[s].count # 0
        PROVE  inode[s].ino # None
    <3>1. CASE inode[s].ino = s
      BY <1>1, <3>1
    <3>2. CASE inode[s].ino # s
      BY <2>6, <3>2, HasUser DEF Uses1, ClearOK
    <3> QED BY <3>1, <3>2
  <2> QED BY <2>4, <2>5, <2>6
<1> QED BY <1>2, <1>3, <1>4

\* What has no file has no mode, in the buffer cache or, until then, in core.
LEMMA ClearStep ==
    ASSUME CoreInv, WorkOK, NumbersOK, ClearOK, ~Torn', NEW p \in Procs, Step(p),
           ~IreadFails(p), ~IupdatFails(p)
    PROVE  ClearOK'
<1> DEFINE r == proc[p]  t == r.ip
<1>1. /\ TypeOK /\ Frames /\ DirsOK /\ LocksExact /\ InodesOK /\ CountsExact /\ FreeListExact
      /\ OneCopy /\ Frame(r) /\ LastOK(p) /\ NameOK(p) /\ NumberOK(p) /\ CalmOK(r)
      /\ proc \in [Procs -> Process] /\ r \in Process
      /\ \A q \in Procs \ {p} : proc'[q] = proc[q]
  BY Alone DEF CoreInv, TableExact, Frames, TypeOK, WorkOK, NumbersOK
<1>2. \A l : At(p, l) => r.pc = l
  BY DEF At
<1>3. \A f \in Files : Vague(f) =>
          /\ dino[f].mode => \E q \in Procs : proc[q].ip # None /\ Clearing(q, f)
          /\ \A s \in Slots : Cached(s, f) => ~inode[s].mode
  BY DEF ClearOK
<1>4. ASSUME NEW f \in Files, Ifree(p), r.pc = "ifree", inode[t].ino = f
      PROVE  /\ t \in Slots /\ inode[t].hashed /\ ~inode[t].mode /\ inode' = inode
             /\ proc'[p].ip = t /\ proc'[p].pc = "iupdat" /\ proc'[p].then = "release"
             /\ t # None
  <2>1. t \in Slots /\ t # None
    BY <1>4, EndsAlone
  <2>2. inode[t].hashed /\ ~inode[t].mode
    BY <1>1, <1>4, <2>1 DEF InodesOK, SlotOK, LastOK
  <2>3. inode' = inode /\ proc' = [proc EXCEPT ![p].wait = FALSE, ![p].then = "release", ![p].pc = "iupdat"]
    BY <1>4 DEF Ifree, ToIupdat
  <2> QED BY <1>1, <2>1, <2>2, <2>3 DEF Process
<1>5. ASSUME NEW f \in Files, Vague(f)', dino'[f].mode
      PROVE  \E q \in Procs : proc'[q].ip # None /\ Clearing(q, f)'
  <2>1. CASE Ifree(p) /\ r.pc = "ifree" /\ inode[t].ino = f
    <3>1. Clearing(p, f)' /\ proc'[p].ip # None
      BY <1>4, <2>1 DEF Clearing, Found
    <3> QED BY <3>1
  <2>2. CASE Vague(f)
    <3>1. ASSUME Iupdat(p), inode[t].ino = f
          PROVE  FALSE
      <4>1. r.pc = "iupdat" /\ t \in Slots
        BY <1>1, <1>2, <3>1, IupdatTable DEF Iupdat
      <4>2. inode[t].hashed /\ ~Reading(t)
        BY <1>1, <3>1, <4>1, NotRead DEF InodesOK, SlotOK, HasFile
      <4>3. ~inode[t].mode
        BY <1>3, <2>2, <3>1, <4>1, <4>2 DEF Cached, Found
      <4>4. dino'[f].mode = inode[t].mode
        BY <1>1, <3>1 DEF Iupdat, TypeOK, Inos
      <4> QED BY <1>5, <4>3, <4>4
    <3>2. dino'[f] = dino[f]
      <4>1. dino' = dino \/ dino' = [dino EXCEPT ![inode[t].ino] =
                                       [mode |-> inode[t].mode, nlink |-> inode[t].nlink]]
        BY DiskEffect DEF Iupdat
      <4>2. inode[t].ino = f => dino' = dino
        BY <3>1, DiskEffect
      <4>3. dino \in [Inos -> Dinode] /\ f \in Inos
        BY <1>1 DEF TypeOK, Inos
      <4> QED BY <4>1, <4>2, <4>3
    <3>3. PICK q \in Procs : proc[q].ip # None /\ Clearing(q, f)
      BY <1>3, <1>5, <2>2, <3>2
    <3> DEFINE s == proc[q].ip
    <3>4. Ending(proc[q]) /\ Found(s, f) /\ proc[q].pc = "iupdat" /\ ~inode[s].mode
      BY <3>3 DEF Clearing, Ending
    <3>5. q # p
      BY <1>2, <3>1, <3>4, AtEnd DEF Iupdat, Bwrite, Release, Found
    <3>6. s \in Slots /\ inode[s].count = 1 /\ ~Refs(p, s) /\ Refs(q, s)
      BY <3>4, <3>5, EndsAlone DEF Refs
    <3>7. inode'[s].ino = inode[s].ino /\ inode'[s].hashed = inode[s].hashed
      BY <1>1, <3>5, <3>6, OthersKeep
    <3>8. inode'[s].mode = inode[s].mode
      <4>1. r.ip # s /\ r.lp # s
        BY <3>6 DEF Refs
      <4>2. IgetMiss(p) => Head(freelist) # s
        BY <1>1, <3>6, HeadUnused DEF IgetMiss
      <4> QED BY <3>6, <4>1, <4>2, LinkCounts
    <3>9. proc'[q] = proc[q]
      BY <1>1, <3>5
    <3> QED BY <3>3, <3>4, <3>7, <3>8, <3>9 DEF Clearing, Found
  <2> QED BY <1>5, <2>1, <2>2, VagueStep
<1>6. ASSUME NEW f \in Files, Vague(f)', NEW s \in Slots, Cached(s, f)', inode'[s].mode
      PROVE  FALSE
  <2>1. inode'[s].ino = f /\ inode'[s].hashed
    BY <1>6 DEF Cached, Found
  <2>2. CASE Iread(p) /\ t = s
    <3>1. r.pc = "iread" /\ inode[s].ino = f /\ inode[s].hashed
      <4>1. r.pc = "iread"
        BY <1>2, <2>2 DEF Iread
      <4>2. inode'[t].ino = inode[t].ino /\ inode'[t].hashed = inode[t].hashed
        BY <1>1, <2>2, IreadTable
      <4> QED BY <2>1, <2>2, <4>1, <4>2
    <3>2. dino[f].mode
      BY <1>1, <1>6, <2>2, <3>1, IreadTable
    <3>3. Vague(f)
      BY <1>6, <3>1, VagueStep
    <3>4. PICK q \in Procs : proc[q].ip # None /\ Clearing(q, f)
      BY <1>3, <3>2, <3>3
    <3>5. Ending(proc[q]) /\ Found(proc[q].ip, f) /\ q # p
      BY <3>1, <3>4 DEF Clearing, Ending
    <3>6. proc[q].ip \in Slots /\ ~Refs(p, proc[q].ip)
      BY <3>5, EndsAlone
    <3>7. proc[q].ip = s
      BY <1>1, <3>1, <3>5, <3>6 DEF OneCopy, Found
    <3> QED BY <2>2, <3>6, <3>7 DEF Refs
  <2>3. CASE ~(Iread(p) /\ t = s)
    <3>1. /\ Cached(s, f)
          /\ IgetMiss(p) => Head(freelist) # s
      BY <1>6, <2>3, CachedKept
    <3>2. inode[s].ino = f /\ inode[s].hashed
      BY <3>1 DEF Cached, Found
    <3>3. CASE Ifree(p) /\ r.pc = "ifree" /\ inode[t].ino = f
      <4>1. t = s
        BY <1>1, <1>4, <3>2, <3>3 DEF OneCopy
      <4> QED BY <1>4, <1>6, <3>3, <4>1
    <3>4. CASE Vague(f)
      <4>1. ~inode[s].mode
        BY <1>3, <3>1, <3>4
      <4>2. (GotNew(p) \/ Truncated(p)) /\ t = s
        BY <1>6, <2>3, <3>1, <4>1, LinkCounts
      <4>3. ~Truncated(p)
        BY <1>1, <1>6, <4>2, TruncatedTable
      <4>4. r.pc = "got" /\ r.op = "make" /\ proc'[p].pc = "iupdat" /\ proc'[p].ret = r.ret
        BY <1>1, <1>2, <4>2, <4>3 DEF GotNew, Process
      <4>5. r.ino = f /\ Making(r)
        BY <1>1, <3>2, <4>2, <4>4 DEF NameOK, Making
      <4>6. f \in iused /\ iused' = iused
        BY <1>1, <4>2, <4>3, <4>5 DEF NumberOK, GotNew, disk
      <4>7. PICK q \in Procs : Making(proc'[q]) /\ proc'[q].ino = f
        BY <1>6, <4>6 DEF Vague
      <4>8. ~Making(proc'[p])
        <5>1. r.ret = "user"
          BY <1>1, <4>4 DEF Frame, RetOK, Ireles
        <5> QED BY <4>4, <5>1 DEF Making
      <4>9. q # p /\ Making(proc[q]) /\ proc[q].ino = f
        BY <1>1, <4>7, <4>8
      <4> QED BY <4>5, <4>9 DEF NumbersOK, OwnNumber
    <3> QED BY <1>6, <3>3, <3>4, VagueStep
  <2> QED BY <2>2, <2>3
<1>7. \A q \in Procs, s \in Slots : Refs(q, s)' => inode'[s].ino # None
  BY NumbersFound
<1> QED BY <1>5, <1>6, <1>7 DEF ClearOK

------------------------------------------------------------------------------
(* The invariants. *)

LEMMA NameInit ==
    ASSUME Init
    PROVE  LinksOK /\ WorkOK /\ NumbersOK /\ ClearOK
<1>1. /\ \A p \in Procs : proc[p] = InUser(None)
      /\ \A a \in Paths : entry[a] = None /\ dentry[a] = None
      /\ \A f \in Files : dino[f] = EmptyDinode /\ sino[f] = EmptyDinode
      /\ None \notin Files /\ None \notin Slots /\ Files \cap Slots = {}
  BY Assumed DEF Init, Inos
<1>2. \A s \in Slots : inode[s].ino \in {s, None}
  <2>1. PICK S \in SUBSET Slots :
          inode = [s \in Table |-> IF s \in Dirs \cup S THEN InUse(s) ELSE Unused]
    BY DEF Init
  <2>2. \A s : InUse(s).ino = s /\ Unused.ino = None
    BY DEF InUse, Unused
  <2>3. \A s \in Slots : inode[s] = InUse(s) \/ inode[s] = Unused
    BY <2>1 DEF Table
  <2> QED BY <2>2, <2>3
<1>3. \A p \in Procs : /\ proc[p].pc = "user" /\ proc[p].op = "" /\ proc[p].ret = "user"
                       /\ ~proc[p].err
                       /\ proc[p].ip = None /\ proc[p].lp = None /\ proc[p].fd = None
  <2>1. PICK u : u = InUser(None)
    OBVIOUS
  <2>2. ~u.err
    BY <2>1 DEF InUser
  <2>3. u.op = "" /\ u.pc = "user" /\ u.ret = "user"
    BY <2>1, UserAt
  <2>4. u.ip = None /\ u.lp = None /\ u.fd = None
    BY <2>1, UserHas
  <2>5. \A p \in Procs : proc[p] = u
    BY <1>1, <2>1
  <2> QED BY <2>2, <2>3, <2>4, <2>5
<1>4. \A p \in Procs : ~Owing(proc[p]) /\ ~OwingDisk(proc[p]) /\ ~Making(proc[p])
                       /\ ~MakesFile(proc[p]) /\ ~AtLast(proc[p]) /\ ~Vacant(proc[p])
  BY <1>3 DEF Owing, OwingDisk, Making, MakesFile, AtLast, Vacant
<1>5. \A p \in Procs, s \in Slots : ~Refs(p, s)
  BY <1>1, <1>3 DEF Refs
<1>6. \A f \in Files : ~Named(f) /\ \A s \in Slots : ~Cached(s, f)
  BY <1>1, <1>2 DEF Named, Cached, Found
<1>7. LinksOK
  <2>1. ASSUME NEW f \in Files
        PROVE  DiskCounts(f)
    <3>1. OwedUpdated(f) = {} /\ OwedDiskUpdated(f) = {} /\ OwedDiskWritten(f) = {}
      BY <1>4 DEF OwedUpdated, OwedDiskUpdated, OwedDiskWritten
    <3>2. /\ Cardinality(OwedUpdated(f)) = 0 /\ Cardinality(OwedDiskUpdated(f)) = 0
          /\ Cardinality(OwedDiskWritten(f)) = 0
      BY <3>1, FS_EmptySet
    <3>3. Links(entry, f) = 0 /\ Links(dentry, f) = 0
      BY <1>6, LinksType DEF Named
    <3>4. dino[f].nlink = 0 /\ sino[f].nlink = 0
      BY <1>1 DEF EmptyDinode
    <3> QED BY <3>2, <3>3, <3>4 DEF DiskCounts
  <2> QED BY <1>6, <2>1 DEF LinksOK, CoreCounts
<1>8. WorkOK
  <2>1. EntriesOK
    BY <1>1 DEF EntriesOK
  <2>2. ASSUME NEW p \in Procs
        PROVE  CalmOK(proc[p]) /\ NameOK(p) /\ LastOK(p)
    BY <1>3, <1>4 DEF CalmOK, NameOK, LastOK
  <2> QED BY <2>1, <2>2 DEF WorkOK
<1>9. NumbersOK
  BY <1>4, <1>5, <1>6 DEF NumbersOK, NumberOK, OwnNumber, Uses1
<1>10. ClearOK
  BY <1>1, <1>5, <1>6 DEF ClearOK, EmptyDinode
<1> QED BY <1>7, <1>8, <1>9, <1>10

\* A delayed write of an inode, and no step at all.
LEMMA NameWriteback ==
    ASSUME TypeOK, UNCHANGED <<inode, entry, dentry, dino, iused, proc>>,
           \A f \in Files : sino'[f] \in {sino[f], dino[f]}
    PROVE  /\ LinksOK => LinksOK'
           /\ WorkOK => WorkOK'
           /\ NumbersOK => NumbersOK'
           /\ ClearOK => ClearOK'
<1>1. ASSUME NEW f \in Files, DiskCounts(f)
      PROVE  DiskCounts(f)'
  <2>1. OwedUpdated(f)' = OwedUpdated(f) /\ OwedDiskUpdated(f)' = OwedDiskUpdated(f)
        /\ OwedDiskWritten(f)' = OwedDiskWritten(f)
    BY DEF OwedUpdated, OwedDiskUpdated, OwedDiskWritten, Of
  <2>2. /\ Cardinality(OwedDiskWritten(f)) <= Cardinality(OwedDiskUpdated(f))
        /\ Cardinality(OwedDiskWritten(f)) \in Nat /\ Cardinality(OwedDiskUpdated(f)) \in Nat
    <3>1. OwedDiskUpdated(f) \in SUBSET Procs
      BY DEF OwedDiskUpdated
    <3>2. OwedDiskWritten(f) \in SUBSET OwedDiskUpdated(f)
      BY DEF OwedDiskWritten, OwedDiskUpdated, Written
    <3> QED BY <3>1, <3>2, Fewer
  <2>3. Links(entry', f) = Links(entry, f) /\ Links(dentry', f) = Links(dentry, f)
        /\ dino'[f] = dino[f] /\ Links(dentry, f) \in Nat
    BY LinksType
  <2>4. dino[f].nlink \in Int
    BY DEF TypeOK, Inos, Dinode
  <2>5. sino'[f] = sino[f] \/ sino'[f] = dino[f]
    OBVIOUS
  <2>6. /\ sino'[f].nlink >= Links(dentry, f) + Cardinality(OwedDiskWritten(f))
        /\ sino'[f].nlink > 0 => sino'[f].mode
    BY <1>1, <2>2, <2>3, <2>4, <2>5 DEF DiskCounts
  <2>7. Links(entry, f)' = Links(entry', f) /\ Links(dentry, f)' = Links(dentry', f)
    BY DEF Links
  <2> QED BY <1>1, <2>1, <2>3, <2>6, <2>7 DEF DiskCounts
<1>2. ASSUME NEW s, NEW f
      PROVE  CoreCounts(s, f)' <=> CoreCounts(s, f)
  BY DEF CoreCounts, Cached, Found, Reading, Owed, OwedDisk, Links
<1>3. LinksOK => LinksOK'
  BY <1>1, <1>2 DEF LinksOK
<1>4. WorkOK => WorkOK'
  BY DEF WorkOK, EntriesOK, NameOK, LastOK
<1>5. NumbersOK => NumbersOK'
  BY DEF NumbersOK, NumberOK, OwnNumber, Named, Uses1, Refs, Freed
<1>6. ClearOK => ClearOK'
  BY DEF ClearOK, Vague, Clearing, Found, Cached, Reading, Refs
<1> QED BY <1>3, <1>4, <1>5, <1>6

LEMMA NameStep ==
    ASSUME CoreInv, NameInv, [Next]_vars
    PROVE  NameInv' /\ failed \subseteq failed'
<1>1. CASE \E p \in Procs : Step(p)
  <2>1. PICK p \in Procs : Step(p)
    BY <1>1
  <2>2. failed \subseteq failed'
    BY <2>1, DiskEffect
  <2>3. SUFFICES ASSUME ~Torn' PROVE LinksOK' /\ WorkOK' /\ NumbersOK'
    BY <2>2 DEF NameInv
  <2>4. LinksOK /\ WorkOK /\ NumbersOK
    BY <2>2, <2>3 DEF NameInv, Torn
  <2> QED BY <2>1, <2>3, <2>4, LinksStep, WorkStep, NumbersStep
<1>2. CASE (\E i \in Inos : Writeback(i)) \/ UNCHANGED vars
  <2>1. /\ UNCHANGED <<inode, entry, dentry, dino, iused, proc>> /\ failed' = failed
        /\ TypeOK
    BY <1>2 DEF Writeback, vars, disk, env, CoreInv
  <2>2. \A f \in Files : sino'[f] \in {sino[f], dino[f]}
    BY <1>2, <2>1 DEF Writeback, vars, disk, TypeOK, Inos
  <2> QED BY <2>1, <2>2, NameWriteback DEF NameInv, Torn
<1> QED BY <1>1, <1>2 DEF Next

LEMMA ClearInvStep ==
    ASSUME CoreInv, NameInv, ClearInv, [Next]_vars
    PROVE  ClearInv'
<1>1. SUFFICES ASSUME failed' \cap {"iread", "iupdat", "dirremove"} = {}
               PROVE  ClearOK'
  BY DEF ClearInv
<1>2. failed \cap {"iread", "iupdat", "dirremove"} = {} /\ ~Torn /\ ~Torn'
  BY <1>1, NameStep DEF Torn
<1>3. ClearOK /\ WorkOK /\ NumbersOK
  BY <1>2 DEF ClearInv, NameInv
<1>4. CASE \E p \in Procs : Step(p)
  <2>1. PICK p \in Procs : Step(p)
    BY <1>4
  <2>2. ~IreadFails(p) /\ ~IupdatFails(p)
    BY <1>1 DEF IreadFails, IupdatFails, Fails
  <2> QED BY <1>2, <1>3, <2>1, <2>2, ClearStep
<1>5. CASE (\E i \in Inos : Writeback(i)) \/ UNCHANGED vars
  <2>1. /\ UNCHANGED <<inode, entry, dentry, dino, iused, proc>> /\ TypeOK
    BY <1>5 DEF Writeback, vars, disk, CoreInv
  <2>2. \A f \in Files : sino'[f] \in {sino[f], dino[f]}
    BY <1>5, <2>1 DEF Writeback, vars, disk, TypeOK, Inos
  <2> QED BY <1>3, <2>1, <2>2, NameWriteback
<1> QED BY <1>4, <1>5 DEF Next

\* Where the kernel stops.
LEMMA PanicsAt ==
    ASSUME NEW p \in Procs, Step(p), panicked' # panicked
    PROVE  GotInUse(p) \/ Ifree(p) \/ Ifreeino(p)
<1>1. \A k : Fails(k) => panicked' = panicked
  BY DEF Fails
<1>2. UNCHANGED env => panicked' = panicked
  BY DEF env
<1>3. CASE NameiLocked(p) \/ CloseLocked(p) \/ IgetLocked(p)
  BY <1>2, <1>3 DEF NameiLocked, CloseLocked, IgetLocked, SleepOn
<1>4. CASE Call(p)
  BY <1>1, <1>2, <1>4 DEF Call
<1>5. CASE CallClose(p)
  BY <1>1, <1>2, <1>5 DEF CallClose
<1>6. CASE Sync(p)
  BY <1>1, <1>2, <1>6 DEF Sync
<1>7. CASE NameiFound(p)
  BY <1>1, <1>2, <1>7 DEF NameiFound
<1>8. CASE NameiFails(p)
  BY <1>1, <1>2, <1>8 DEF NameiFails
<1>9. CASE IgetHit(p)
  BY <1>1, <1>2, <1>9 DEF IgetHit
<1>10. CASE IgetFull(p)
  BY <1>1, <1>2, <1>10 DEF IgetFull
<1>11. CASE IgetMiss(p)
  BY <1>1, <1>2, <1>11 DEF IgetMiss
<1>12. CASE Iread(p)
  BY <1>1, <1>2, <1>12 DEF Iread
<1>13. CASE NameiMake(p)
  BY <1>1, <1>2, <1>13 DEF NameiMake, NameiFree
<1>14. CASE NameiEnter(p)
  BY <1>1, <1>2, <1>14 DEF NameiEnter, NameiFree
<1>15. CASE NameiError(p)
  BY <1>1, <1>2, <1>15 DEF NameiError
<1>16. CASE IreadFails(p)
  BY <1>1, <1>2, <1>16 DEF IreadFails
<1>17. CASE DirremoveFails(p)
  BY <1>1, <1>2, <1>17 DEF DirremoveFails
<1>18. CASE IfreeFails(p)
  BY <1>1, <1>2, <1>18 DEF IfreeFails
<1>19. CASE IupdatFails(p)
  BY <1>1, <1>2, <1>19 DEF IupdatFails
<1>20. CASE GotOpen(p)
  BY <1>1, <1>2, <1>20 DEF GotOpen
<1>21. CASE GotLink(p)
  BY <1>1, <1>2, <1>21 DEF GotLink
<1>22. CASE GotExisting(p)
  BY <1>1, <1>2, <1>22 DEF GotExisting
<1>23. CASE GotUnlink(p)
  BY <1>1, <1>2, <1>23 DEF GotUnlink
<1>24. CASE GotNew(p)
  BY <1>1, <1>2, <1>24 DEF GotNew
<1>25. CASE GotInUse(p)
  BY <1>1, <1>2, <1>25 DEF GotInUse
<1>26. CASE GotNull(p)
  BY <1>1, <1>2, <1>26 DEF GotNull
<1>27. CASE MakeNull(p)
  BY <1>1, <1>2, <1>27 DEF MakeNull
<1>28. CASE Opened(p)
  BY <1>1, <1>2, <1>28 DEF Opened
<1>29. CASE OpenedOld(p)
  BY <1>1, <1>2, <1>29 DEF OpenedOld
<1>30. CASE OpenedFails(p)
  BY <1>1, <1>2, <1>30 DEF OpenedFails
<1>31. CASE Granted(p)
  BY <1>1, <1>2, <1>31 DEF Granted
<1>32. CASE Linked(p)
  BY <1>1, <1>2, <1>32 DEF Linked
<1>33. CASE Out(p)
  BY <1>1, <1>2, <1>33 DEF Out
<1>34. CASE Undir(p)
  BY <1>1, <1>2, <1>34 DEF Undir
<1>35. CASE IalloccgTake(p)
  BY <1>1, <1>2, <1>35 DEF IalloccgTake
<1>36. CASE IalloccgNone(p)
  BY <1>1, <1>2, <1>36 DEF IalloccgNone
<1>37. CASE Direnter(p)
  BY <1>1, <1>2, <1>37 DEF Direnter
<1>38. CASE Dirremove(p)
  BY <1>1, <1>2, <1>38 DEF Dirremove
<1>39. CASE Iupdat(p)
  BY <1>1, <1>2, <1>39 DEF Iupdat
<1>40. CASE Bwrite(p)
  BY <1>1, <1>2, <1>40 DEF Bwrite
<1>41. CASE Ifreeino(p)
  BY <1>1, <1>2, <1>41 DEF Ifreeino
<1>42. CASE Ifree(p)
  BY <1>1, <1>2, <1>42 DEF Ifree
<1>43. CASE IalloccgFails(p)
  BY <1>1, <1>2, <1>43 DEF IalloccgFails
<1>44. CASE MakeFails(p)
  BY <1>1, <1>2, <1>44 DEF MakeFails, DirenterFails
<1>45. CASE EnterFails(p)
  BY <1>1, <1>2, <1>45 DEF EnterFails, DirenterFails
<1>46. CASE DirenterDone(p)
  BY <1>1, <1>2, <1>46 DEF DirenterDone, Dirwrite
<1>47. CASE DirremoveDone(p)
  BY <1>1, <1>2, <1>47 DEF DirremoveDone, Dirwrite
<1>48. CASE Close(p)
  BY <1>1, <1>2, <1>48 DEF Close
<1>49. CASE Iput(p)
  BY <1>1, <1>2, <1>49 DEF Iput
<1>50. CASE IreleShared(p)
  BY <1>1, <1>2, <1>50 DEF IreleShared
<1>51. CASE IreleLast(p)
  BY <1>1, <1>2, <1>51 DEF IreleLast
<1>52. CASE IreleUnlinked(p)
  BY <1>1, <1>2, <1>52 DEF IreleUnlinked
<1>53. CASE Truncated(p)
  BY <1>1, <1>2, <1>53 DEF Truncated
<1>54. CASE Release(p)
  BY <1>1, <1>2, <1>54 DEF Release
<1> QED
  BY Step(p), <1>3, <1>4, <1>5, <1>6, <1>7, <1>8, <1>9, <1>10, <1>11, <1>12,
     <1>13, <1>14, <1>15, <1>16, <1>17, <1>18, <1>19, <1>20, <1>21, <1>22,
     <1>23, <1>24, <1>25, <1>26, <1>27, <1>28, <1>29, <1>30, <1>31, <1>32,
     <1>33, <1>34, <1>35, <1>36, <1>37, <1>38, <1>39, <1>40, <1>41, <1>42,
     <1>43, <1>44, <1>45, <1>46, <1>47, <1>48, <1>49, <1>50, <1>51, <1>52,
     <1>53, <1>54
  DEF Step, Ialloccg

\* Who has a file in core, and no hand in the last step of its removal, uses it.
LEMMA FileUsed ==
    ASSUME CoreInv, NEW p \in Procs, NEW s \in Slots, proc[p].fd = s \/ proc[p].lp = s
    PROVE  Uses1(p, s)
BY EndsAlone DEF Uses1, Refs, Freed

LEMMA FoundIsAlive ==
    ASSUME CoreInv, NameInv
    PROVE  FoundAlive
<1> SUFFICES ASSUME NEW p \in Procs, proc[p].pc = "got", proc[p].op # "make", ~Torn
             PROVE  inode[proc[p].ip].mode
  BY DEF FoundAlive
<1> DEFINE r == proc[p]  s == r.ip  f == inode[s].ino
<1>1. /\ TypeOK /\ Frames /\ Frame(r) /\ LocksExact /\ InodesOK /\ HandsOK(p)
      /\ LinksOK /\ NameOK(p)
  BY DEF CoreInv, Frames, InodesOK, NameInv, WorkOK
<1>2. s # None /\ r.op \in Lookups /\ r.ret = "user"
  BY <1>1 DEF Frame, HandOK, OpsOK, RetOK, Ireles
<1>3. s \in Slots /\ s \in Table
  BY <1>1, <1>2, Held
<1>4. f \in Files
  BY <1>1, <1>2, <1>3 DEF HandsOK, Refers, Lookups
<1>5. Cached(s, f)
  BY <1>1, <1>3, <1>4, NotRead DEF InodesOK, SlotOK, HasFile, Cached, Found
<1>6. r.at \in Paths
  BY <1>1, <1>2, DirOf DEF Frame, PathOK, Lookups
<1>7. entry[r.at] = f
  BY <1>1 DEF NameOK
<1>8. Links(entry, f) \in Nat /\ Links(entry, f) # 0
  BY <1>6, <1>7, LinksType
<1>9. Cardinality(Owed(s)) \in Nat
  BY Fewer DEF Owed
<1>10. inode[s].nlink >= Links(entry, f) + Cardinality(Owed(s))
       /\ (inode[s].nlink > 0 => inode[s].mode) /\ inode[s].nlink \in Int
  BY <1>1, <1>3, <1>4, <1>5 DEF LinksOK, CoreCounts, TypeOK, Inode
<1>11. inode[s].nlink > 0
  BY <1>8, <1>9, <1>10
<1> QED BY <1>10, <1>11

LEMMA NamesAreSafe ==
    ASSUME CoreInv, NameInv
    PROVE  NamesSafe
<1> SUFFICES ASSUME ~Torn, NEW f \in Files
             PROVE  /\ Links(entry, f) > 0 => f \in iused /\ Links(entry, f) <= Current(f)
                    /\ Links(dentry, f) > 0 => sino[f].mode /\ sino[f].nlink >= Links(dentry, f)
  BY DEF NamesSafe, NamesCounted, CrashSafe
<1>1. /\ LinksOK /\ NumbersOK /\ OneCopy /\ DiskCounts(f)
      /\ \A s \in Slots : CoreCounts(s, f) /\ inode[s].nlink \in Int
      /\ dino[f].nlink \in Int /\ sino[f].nlink \in Int
  BY DEF CoreInv, TableExact, NameInv, LinksOK, TypeOK, Inode, Table, Dinode, Inos
<1>2. Links(entry, f) \in Nat /\ Links(dentry, f) \in Nat
  BY LinksType
<1>3. /\ Cardinality(OwedUpdated(f)) \in Nat /\ Cardinality(OwedDiskWritten(f)) \in Nat
      /\ \A s : Cardinality(Owed(s)) \in Nat
  BY Fewer DEF OwedUpdated, OwedDiskWritten, Owed
<1>4. Links(entry, f) > 0 => f \in iused
  <2>1. SUFFICES ASSUME Links(entry, f) # 0 PROVE f \in iused
    BY <1>2
  <2>2. Named(f)
    BY <2>1, LinksType DEF Named
  <2> QED BY <1>1, <2>2 DEF NumbersOK
<1>5. Links(entry, f) <= Current(f)
  <2>1. CASE \E s \in Slots : Found(s, f) /\ ~Reading(s)
    <3>1. PICK s \in Slots : Found(s, f) /\ ~Reading(s)
      BY <2>1
    <3>2. (CHOOSE t \in Slots : Found(t, f)) = s
      BY <1>1, <3>1 DEF OneCopy, Found
    <3>3. Current(f) = inode[s].nlink
      BY <2>1, <3>2 DEF Current
    <3>4. inode[s].nlink >= Links(entry, f) + Cardinality(Owed(s))
      BY <1>1, <3>1 DEF CoreCounts, Cached
    <3> QED BY <1>1, <1>2, <1>3, <3>3, <3>4
  <2>2. CASE ~ \E s \in Slots : Found(s, f) /\ ~Reading(s)
    <3>1. Current(f) = dino[f].nlink
      BY <2>2 DEF Current
    <3>2. dino[f].nlink >= Links(entry, f) + Cardinality(OwedUpdated(f))
      BY <1>1 DEF DiskCounts
    <3> QED BY <1>1, <1>2, <1>3, <3>1, <3>2
  <2> QED BY <2>1, <2>2
<1>6. sino[f].nlink >= Links(dentry, f) + Cardinality(OwedDiskWritten(f))
      /\ (sino[f].nlink > 0 => sino[f].mode)
  BY <1>1 DEF DiskCounts
<1>7. Links(dentry, f) > 0 => sino[f].mode /\ sino[f].nlink >= Links(dentry, f)
  BY <1>1, <1>2, <1>3, <1>6
<1> QED BY <1>4, <1>5, <1>7

LEMMA NoPanicStep ==
    ASSUME CoreInv, NameInv, ClearInv, NoPanic, [Next]_vars
    PROVE  NoPanic'
<1>1. SUFFICES ASSUME panicked', failed' \cap {"iread", "iupdat", "dirremove"} = {}
               PROVE  FALSE
  BY DEF NoPanic
<1>2. failed \cap {"iread", "iupdat", "dirremove"} = {} /\ ~Torn
  BY <1>1, NameStep DEF Torn
<1>3. /\ ClearOK /\ WorkOK /\ NumbersOK /\ ~panicked
      /\ TypeOK /\ Frames /\ InodesOK /\ LocksExact /\ CountsExact
  BY <1>2 DEF ClearInv, NameInv, NoPanic, CoreInv, TableExact
<1>4. PICK p \in Procs : Step(p) /\ (GotInUse(p) \/ Ifree(p) \/ Ifreeino(p))
  <2>1. PICK p \in Procs : Step(p)
    BY <1>1, <1>3 DEF Next, Writeback, vars, env
  <2>2. GotInUse(p) \/ Ifree(p) \/ Ifreeino(p)
    BY <1>1, <1>3, <2>1, PanicsAt
  <2> QED BY <2>1, <2>2
<1> DEFINE r == proc[p]  s == r.ip  f == inode[s].ino
<1>5. Frame(r) /\ NumberOK(p) /\ HandsOK(p) /\ NameOK(p)
  BY <1>3 DEF Frames, NumbersOK, InodesOK, WorkOK
<1>6. CASE Ifree(p)
  <2>1. r.pc = "ifree" /\ panicked' = (f \notin iused)
    BY <1>6 DEF Ifree, FreeNumber, At
  <2>2. s \in Slots /\ inode[s].count = 1 /\ Refs(p, s)
    BY <2>1, EndsAlone DEF Refs
  <2>3. f # s
    BY <1>3, <2>2, Counted
  <2>4. f # None
    BY <1>3, <2>2 DEF ClearOK
  <2>5. f \in Files
    BY <1>3, <2>2, <2>3, <2>4 DEF InodesOK, SlotOK
  <2>6. Uses1(p, s)
    BY <2>1, <2>2 DEF Uses1, Freed, Ending
  <2>7. f \in iused
    BY <1>5, <2>2, <2>5, <2>6 DEF NumberOK
  <2> QED BY <1>1, <2>1, <2>7
<1>7. CASE Ifreeino(p)
  <2>1. r.pc = "ifreeino"
    BY <1>7 DEF Ifreeino, At
  <2>2. Making(r)
    BY <1>5, <2>1 DEF Making, Frame, OpsOK
  <2>3. r.ino \in iused
    BY <1>5, <2>2 DEF NumberOK
  <2>4. ~panicked'
    BY <1>3, <1>7, <2>3 DEF Ifreeino, FreeNumber, Fails
  <2> QED BY <1>1, <2>4
<1>8. CASE GotInUse(p)
  <2>1. r.pc = "got" /\ r.op = "make" /\ inode[s].mode
    BY <1>8 DEF GotInUse, At
  <2>2. f = r.ino /\ Making(r)
    BY <1>5, <2>1 DEF NameOK, Making
  <2>3. f \in Files /\ Vague(f)
    BY <1>5, <2>2 DEF NumberOK, Vague
  <2>4. s \in Slots /\ s \in Table
    BY <1>3, <1>5, <2>1, Held DEF Frame, HandOK
  <2>5. Cached(s, f)
    BY <1>3, <2>1, <2>3, <2>4, NotRead DEF InodesOK, SlotOK, HasFile, Cached, Found
  <2> QED BY <1>3, <2>1, <2>3, <2>4, <2>5 DEF ClearOK
<1> QED BY <1>4, <1>6, <1>7, <1>8

LEMMA FreedIsUnused ==
    ASSUME CoreInv, NameInv, [Next]_vars, NEW f \in Files, f \in iused, f \notin iused', ~Torn
    PROVE  /\ Links(entry, f) = 0
           /\ \A q \in Procs : proc[q].fd # None => inode[proc[q].fd].ino # f
<1>1. /\ LinksOK /\ WorkOK /\ NumbersOK
      /\ TypeOK /\ Frames /\ InodesOK /\ OneCopy
  BY DEF NameInv, CoreInv, TableExact
<1>2. PICK p \in Procs : Step(p)
  BY DEF Next, Writeback, vars, disk
<1>3. ~Named(f)
  BY <1>1, <1>2, NamedUsed
<1>4. Links(entry, f) = 0
  BY <1>3, LinksType DEF Named
<1>5. ASSUME NEW q \in Procs, proc[q].fd # None, inode[proc[q].fd].ino = f
      PROVE  FALSE
  <2> DEFINE s == proc[q].fd
  <2>1. s \in Slots /\ Uses1(q, s)
    BY <1>1, <1>5, Held, FileUsed
  <2>2. q = p
    BY <1>1, <1>2, <1>5, <2>1, UsedByOthers
  <2>3. CASE Ifree(p) /\ proc[p].pc = "ifree" /\ inode[proc[p].ip].ino = f
    <3>1. proc[p].ip \in Slots /\ proc[p].fd # proc[p].ip
      BY <2>3, EndsAlone
    <3>2. inode[s].hashed /\ inode[proc[p].ip].hashed
      BY <1>1, <1>5, <2>1, <2>3, <3>1 DEF InodesOK, SlotOK
    <3> QED BY <1>1, <1>5, <2>1, <2>2, <2>3, <3>1, <3>2 DEF OneCopy
  <2>4. CASE Ifreeino(p) /\ proc[p].pc = "ifreeino"
    <3>1. proc[p].op = "make"
      BY <1>1, <2>4 DEF Frames, Frame, OpsOK
    <3> QED BY <2>1, <2>2, <2>4, <3>1, MakesAlone DEF Uses1
  <2> QED BY <1>2, <2>3, <2>4, IusedStep
<1> QED BY <1>4, <1>5

LEMMA NamesHold == Spec => [](CoreInv /\ NameInv /\ ClearInv /\ NoPanic)
<1>1. Init => CoreInv /\ NameInv /\ ClearInv /\ NoPanic
  <2>1. Init => ~panicked
    BY DEF Init
  <2> QED BY <2>1, CoreInit, NameInit DEF NameInv, ClearInv, NoPanic
<1>2. CoreInv /\ NameInv /\ ClearInv /\ NoPanic /\ [Next]_vars
        => CoreInv' /\ NameInv' /\ ClearInv' /\ NoPanic'
  <2>1. CoreInv /\ [Next]_vars => CoreInv'
    BY CoreStep, CoreWriteback, CoreStutter DEF Next
  <2> QED BY <2>1, NameStep, ClearInvStep, NoPanicStep
<1> QED BY <1>1, <1>2, PTL DEF Spec

\* namei gets the inode before it unlocks the directory, so that the inode it
\* returns is that of a file that is still there (ufs_nami.c:435-436): nobody
\* removes it between the search of the directory and iget.
THEOREM FoundStaysAlive == Spec => []FoundAlive
<1>1. CoreInv /\ NameInv /\ ClearInv /\ NoPanic => FoundAlive
  BY FoundIsAlive
<1> QED BY <1>1, NamesHold, PTL

\* A link count is written before the name that it counts, and a name is gone
\* before the count of it is (ufs_syscalls.c:1061): the count of a file covers
\* its names, in core and, at any moment, on the disk.
THEOREM NamesStaySafe == Spec => []NamesSafe
<1>1. CoreInv /\ NameInv /\ ClearInv /\ NoPanic => NamesSafe
  BY NamesAreSafe
<1> QED BY <1>1, NamesHold, PTL

\* While inodes and directories can be read, ialloc never finds the inode of a
\* free number in use, and ifree never frees a free number (ufs_alloc.c:223, 849).
THEOREM NeverPanics == Spec => []NoPanic
<1>1. CoreInv /\ NameInv /\ ClearInv /\ NoPanic => NoPanic
  OBVIOUS
<1> QED BY <1>1, NamesHold, PTL

\* irele and ialloc free a number only when no directory names the file and no
\* process has it open.
THEOREM OnlyUnusedFreed == Spec => FreedUnused
<1> DEFINE A == \A f \in Files : f \in iused /\ f \notin iused' =>
                  \/ Torn
                  \/ /\ Links(entry, f) = 0
                     /\ \A p \in Procs : proc[p].fd # None => inode[proc[p].fd].ino # f
<1>1. (CoreInv /\ NameInv /\ ClearInv /\ NoPanic) /\ [Next]_vars => [A]_vars
  BY FreedIsUnused
<1>2. Spec => [][A]_vars
  BY <1>1, NamesHold, PTL DEF Spec
<1> QED BY <1>2 DEF FreedUnused

==============================================================================
