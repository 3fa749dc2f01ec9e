-------------------------- MODULE InodeCacheProofs --------------------------
(***************************************************************************)
(* What holds of the inode table for any number of processes, inodes,      *)
(* directories, names and files, any system calls and any reads that fail: *)
(* the types, one copy of a file in core, an exact free list, exact counts *)
(* and exact locks.                                                        *)
(*                                                                         *)
(* None of the three is inductive by itself: a count that is exact after   *)
(* irele needs that the process has the inode at hand at the label where   *)
(* it is, that its lock keeps others from the inode, and that an inode     *)
(* which leaves the hash chain is nobody's file. CoreInv puts them         *)
(* together with the frame of each process (what it has in its registers   *)
(* at each label, Frames), the inodes of files and free slots (InodesOK)   *)
(* and the directories (DirsOK).                                           *)
(*                                                                         *)
(* What a step does is said in lemmas about all actions: UsesKept and      *)
(* UsesChange (which references its process gains or loses), LockUse       *)
(* (which locks it takes and gives up, and for whom it calls wakeup),      *)
(* SlotsEffect (which slot it takes, fetches or gives back), DiskStep and  *)
(* ChanStep. The invariants are proved from these.                         *)
(***************************************************************************)
EXTENDS InodeCache, FiniteSetTheorems, SequenceTheorems, TLAPS

------------------------------------------------------------------------------
(* Where a process is, and what it has there. *)

Lookups == {"open", "creat", "link", "unlink", "enter", "make"}
Opens == {"open", "creat", "make"}
\* The places of irele, and of the calls it makes.
Ireles == {"irele", "iupdat", "bwrite", "truncated", "ifree", "release"}

\* The system calls that come to a place.
OpsOK(r) ==
    /\ r.pc = "user" <=> r.op = ""
    /\ r.pc = "close" => r.op = "close"
    /\ r.pc = "namei" => r.op \in Lookups \ {"make"}
    /\ r.pc \in {"iget", "iread", "got", "null"} => r.op \in Lookups
    /\ r.pc \in {"ialloccg", "ifreeino"} => r.op = "make"
    /\ r.pc = "direnter" => r.op \in {"make", "enter"}
    /\ r.pc \in {"dirremove", "undir"} => r.op = "unlink"
    /\ r.pc = "dirwrite" => r.op \in {"make", "enter", "unlink"}
    /\ r.pc \in {"opened", "granted"} => r.op \in Opens
    /\ r.pc = "linked" => r.op = "link"
    /\ r.pc = "out" => r.op = "enter"
    /\ r.pc = "iput" => r.op \in Opens \cup {"sync"}

\* Where iupdat returns to.
ThenOK(r) ==
    r.pc \in {"iupdat", "bwrite"} =>
       \/ r.then = "direnter" /\ r.op = "make"
       \/ r.then = "granted" /\ r.op = "creat"
       \/ r.then = "linked" /\ r.op = "link"
       \/ r.then = "iput" /\ r.op = "sync"
       \/ r.then \in {"truncated", "release"}

\* Where irele returns to.
RetOK(r) ==
    /\ r.ret # "user" => r.pc \in Ireles
    /\ r.ret # "user" /\ r.pc \in {"iupdat", "bwrite"} => r.then \in {"truncated", "release"}
    /\ r.ret = "null" => r.op \in Lookups
    /\ r.ret = "undir" => r.op = "unlink"
    /\ r.ret = "out" => r.op = "enter" /\ r.err
    /\ r.ret \in {"user", "null", "undir", "out"}

\* The places at which there is an inode at hand.
HandOK(r) ==
    r.ip # None <=> \/ r.pc \in Ireles \cup {"iread", "got", "opened", "granted", "linked",
                                            "dirremove", "iput"}
                    \/ r.pc \in {"direnter", "dirwrite"} /\ r.op # "enter"

\* The paths, link's first inode, and the open file.
PathOK(r) ==
    /\ r.at = None <=> r.op \in {"", "close", "sync"}
    /\ r.op = "link" => r.to # None
    /\ r.lp # None => r.op = "enter"
    /\ r.op = "enter" /\ r.lp = None => r.pc \in Ireles /\ r.ret = "user"
    /\ r.op = "enter" /\ r.pc \in Ireles /\ r.ret = "user" => r.lp = None
    /\ r.fd # None => r.op \notin Opens
    /\ r.pc = "close" => r.fd # None
    /\ r.pc \in {"iget", "iread", "null", "ifreeino"} \/ r.ret = "null" => r.ino # None

Frame(r) == OpsOK(r) /\ ThenOK(r) /\ RetOK(r) /\ HandOK(r) /\ PathOK(r)
Frames == \A p \in Procs : Frame(proc[p])

\* The inodes of files that processes refer to.
Refers(r, s) == r.lp = s \/ r.fd = s \/ (r.ip = s /\ r.op # "sync" /\ r.ret # "null")
\* irele is at work on the last reference.
Sole(r) ==
    \/ r.pc \in {"truncated", "ifree", "release"}
    \/ r.pc \in {"iupdat", "bwrite"} /\ r.then \in {"truncated", "release"}
HandsOK(p) ==
    /\ \A s \in Slots : Refers(proc[p], s) => inode[s].ino \in Files
    /\ proc[p].pc = "iread" =>
          inode[proc[p].ip].ino = proc[p].ino /\ inode[proc[p].ip].count = 1
    /\ Sole(proc[p]) => inode[proc[p].ip].count = 1
    /\ proc[p].ret = "null" =>
          inode[proc[p].ip].count = 1 /\ inode[proc[p].ip].ino = None
SlotOK(s) ==
    /\ inode[s].ino \in Files \cup {None, s}
    /\ inode[s].ino \in Files => inode[s].hashed
    /\ inode[s].ino = s => inode[s].nlink > 0
InodesOK == (\A p \in Procs : HandsOK(p)) /\ (\A s \in Slots : SlotOK(s))

\* The directories have one reference that stays, and one of who locks them.
DirsOK == \A d \in Dirs : inode[d].count = IF inode[d].locked THEN 2 ELSE 1

CoreInv == TypeOK /\ Frames /\ InodesOK /\ DirsOK /\ TableExact /\ LocksExact

------------------------------------------------------------------------------
(* The table, its free list and its locks. *)

LEMMA Assumed ==
    /\ Calls \in [Procs -> SUBSET SystemCalls]
    /\ None \notin Procs /\ None \notin Slots /\ None \notin Dirs /\ None \notin Files
    /\ None \notin Paths
    /\ Slots \cap Dirs = {} /\ Files \cap Slots = {} /\ Files \cap Dirs = {}
    /\ IsFiniteSet(Slots) /\ IsFiniteSet(Procs) /\ IsFiniteSet(Paths)
<1>1. IsFiniteSet(Paths)
  BY InodeCacheAssumption, FS_Product DEF InodeCacheAssumption, Paths
<1> QED
  BY <1>1, InodeCacheAssumption DEF InodeCacheAssumption, Paths

\* A path has a directory.
LEMMA DirOf ==
    ASSUME NEW p \in Procs, TypeOK, proc[p].at # None
    PROVE  proc[p].at \in Paths /\ Dir(p) \in Dirs /\ Dir(p) \in Table /\ Dir(p) \notin Slots
<1>1. proc[p].at \in Paths
  BY DEF TypeOK, Process
<1> QED
  BY <1>1, Assumed DEF Dir, Paths, Table

\* Two sets of processes that differ in one.
LEMMA OneMore ==
    ASSUME NEW A \in SUBSET Procs, NEW B \in SUBSET Procs, NEW p \in Procs,
           \A q \in Procs \ {p} : q \in A <=> q \in B
    PROVE  /\ IsFiniteSet(A) /\ Cardinality(A) \in Nat /\ Cardinality(B) \in Nat
           /\ (p \in A <=> p \in B) => Cardinality(B) = Cardinality(A)
           /\ p \in A /\ p \notin B => Cardinality(B) = Cardinality(A) - 1
           /\ p \notin A /\ p \in B => Cardinality(B) = Cardinality(A) + 1
<1>1. IsFiniteSet(A) /\ IsFiniteSet(B)
  BY Assumed, FS_Subset
<1>2. Cardinality(A) \in Nat /\ Cardinality(B) \in Nat
  BY <1>1, FS_CardinalityType
<1>3. (p \in A <=> p \in B) => A = B
  OBVIOUS
<1>4. p \in A /\ p \notin B => B = A \ {p}
  OBVIOUS
<1>5. p \notin A /\ p \in B => B = A \cup {p}
  OBVIOUS
<1>6. Cardinality(A \ {p}) = IF p \in A THEN Cardinality(A) - 1 ELSE Cardinality(A)
  BY <1>1, FS_RemoveElement
<1>7. Cardinality(A \cup {p}) = IF p \in A THEN Cardinality(A) ELSE Cardinality(A) + 1
  BY <1>1, FS_AddElement
<1> QED BY <1>1, <1>2, <1>3, <1>4, <1>5, <1>6, <1>7

\* The references of a register.
Hands(s) == {p \in Procs : proc[p].ip = s}
Firsts(s) == {p \in Procs : proc[p].lp = s}
OpenFiles(s) == {p \in Procs : proc[p].fd = s}
Refs(p, s) == proc[p].ip = s \/ proc[p].lp = s \/ proc[p].fd = s

\* Who refers to an inode is counted; and one reference leaves no other.
LEMMA Counted ==
    ASSUME CountsExact, NEW p \in Procs, NEW s \in Slots, Refs(p, s),
           inode[s].count \in Nat
    PROVE  /\ inode[s].count >= 1
           /\ inode[s].count = 1 =>
                /\ inode[s].ino # s
                /\ \A q \in Procs \ {p} : ~Refs(q, s)
                /\ proc[p].ip = s => proc[p].lp # s /\ proc[p].fd # s
                /\ proc[p].lp = s => proc[p].fd # s
<1> DEFINE A == Hands(s)  B == Firsts(s)  C == OpenFiles(s)
<1>1. /\ A \in SUBSET Procs /\ B \in SUBSET Procs /\ C \in SUBSET Procs
      /\ p \in A \/ p \in B \/ p \in C
  BY DEF Refs, Hands, Firsts, OpenFiles
<1>2. inode[s].count = (IF inode[s].ino = s THEN 1 ELSE 0)
                       + Cardinality(A) + Cardinality(B) + Cardinality(C)
  BY DEF CountsExact, Hands, Firsts, OpenFiles
<1>3. \A S \in SUBSET Procs : /\ Cardinality(S) \in Nat
                              /\ Cardinality(S) = 0 <=> S = {}
                              /\ Cardinality(S) = 1 <=> \E x : S = {x}
  BY Assumed, FS_Subset, FS_CardinalityType, FS_EmptySet, FS_Singleton
<1>4. \A q \in Procs : Refs(q, s) <=> (q \in A \/ q \in B \/ q \in C)
  BY DEF Refs, Hands, Firsts, OpenFiles
<1>5. /\ proc[p].ip = s <=> p \in A
      /\ proc[p].lp = s <=> p \in B
      /\ proc[p].fd = s <=> p \in C
  BY DEF Hands, Firsts, OpenFiles
<1> HIDE DEF A, B, C
<1>6. inode[s].count >= 1
  BY <1>1, <1>2, <1>3
<1>7. ASSUME inode[s].count = 1
      PROVE  /\ inode[s].ino # s
             /\ \/ (\E x : A = {x}) /\ B = {} /\ C = {}
                \/ A = {} /\ (\E x : B = {x}) /\ C = {}
                \/ A = {} /\ B = {} /\ \E x : C = {x}
  <2>1. PICK i \in Nat, j \in Nat, k \in Nat :
           i = Cardinality(A) /\ j = Cardinality(B) /\ k = Cardinality(C)
    BY <1>1, <1>3
  <2>2. i + j + k >= 1
    <3>1. i # 0 \/ j # 0 \/ k # 0
      BY <1>1, <1>3, <2>1
    <3> QED BY <3>1
  <2>3. inode[s].ino # s /\ i + j + k = 1
    BY <1>2, <1>7, <2>1, <2>2
  <2>4. \/ i = 1 /\ j = 0 /\ k = 0
        \/ i = 0 /\ j = 1 /\ k = 0
        \/ i = 0 /\ j = 0 /\ k = 1
    BY <2>3
  <2> QED BY <1>1, <1>3, <2>1, <2>3, <2>4
<1> QED BY <1>1, <1>4, <1>5, <1>6, <1>7

------------------------------------------------------------------------------
(* The steps of a process, and where they leave it. *)

\* The names of places and calls.
LEMMA Labels ==
    /\ "user" \in Places /\ "namei" \in Places /\ "close" \in Places
    /\ "iget" \in Places /\ "iread" \in Places /\ "ialloccg" \in Places
    /\ "ifreeino" \in Places /\ "iupdat" \in Places /\ "bwrite" \in Places
    /\ "truncated" \in Places /\ "ifree" \in Places /\ "direnter" \in Places
    /\ "dirremove" \in Places /\ "dirwrite" \in Places /\ "got" \in Places
    /\ "null" \in Places /\ "opened" \in Places /\ "granted" \in Places
    /\ "linked" \in Places /\ "out" \in Places /\ "iput" \in Places
    /\ "irele" \in Places /\ "release" \in Places /\ "undir" \in Places
    /\ "open" \in Ops /\ "creat" \in Ops /\ "link" \in Ops /\ "unlink" \in Ops
    /\ "close" \in Ops /\ "sync" \in Ops /\ "make" \in Ops /\ "enter" \in Ops
    /\ "" \in Ops
BY DEF Places, Sleeps, Passes, Ops, SystemCalls

\* A step of a process leaves the others where they are.
LEMMA Alone ==
    ASSUME TypeOK, Frames, NEW p \in Procs, Step(p)
    PROVE  /\ proc' \in [Procs -> Process]
           /\ \A q \in Procs \ {p} : proc'[q] = proc[q]
<1>1. /\ proc \in [Procs -> Process] /\ proc[p] \in Process /\ Frame(proc[p])
      /\ freelist \in Seq(Slots) /\ None \in Inos
  BY DEF TypeOK, Frames, Inos
<1>2. proc[p].at # None => proc[p].at \in Paths /\ entry[proc[p].at] \in Inos
  BY DirOf DEF TypeOK
<1>3. proc[p].pc = "namei" => proc[p].at # None
  BY <1>1 DEF Frame, OpsOK, PathOK, Lookups
<1>4. CASE Call(p)
  <2>1. PICK op \in Calls[p], a \in Paths, b \in Paths :
          /\ op \in {"open", "creat", "link", "unlink"}
          /\ proc' = [proc EXCEPT ![p] =
                       [@ EXCEPT !.op = op, !.at = a, !.to = b, !.pc = "namei"]]
    BY <1>4 DEF Call
  <2> QED BY <1>1, <2>1, Labels DEF Process
<1>5. CASE Sync(p)
  <2>1. PICK s \in Slots, l \in {"iupdat", "iput"} :
          proc' = [proc EXCEPT ![p] =
                     [@ EXCEPT !.op = "sync", !.ip = s, !.then = "iput", !.pc = l]]
    BY <1>5 DEF Sync
  <2> QED BY <1>1, <2>1, Labels DEF Process
<1>6. CASE IgetHit(p)
  <2>1. PICK s \in Slots : proc' = [proc EXCEPT ![p].ip = s, ![p].pc = "got"]
    BY <1>6 DEF IgetHit
  <2> QED BY <1>1, <2>1, Labels DEF Process
<1>7. CASE IgetMiss(p)
  <2>1. Head(freelist) \in Slots
    BY <1>1, <1>7 DEF IgetMiss
  <2> QED BY <1>1, <1>7, <2>1, Labels DEF IgetMiss, Process
<1>8. CASE IalloccgTake(p)
  <2>1. PICK i \in Inos : \/ proc' = [proc EXCEPT ![p].ino = i, ![p].pc = "iget"]
                         \/ proc' = [proc EXCEPT ![p] = InUser(@.fd)]
    BY <1>8 DEF IalloccgTake, NoInode
  <2>2. CASE proc' = [proc EXCEPT ![p].ino = i, ![p].pc = "iget"]
    BY <1>1, <2>2, Labels DEF Process
  <2>3. CASE proc' = [proc EXCEPT ![p] = InUser(@.fd)]
    BY <1>1, <2>3, Labels DEF Process, InUser
  <2> QED BY <2>1, <2>2, <2>3
<1>9. CASE CallClose(p)
  BY <1>1, Labels, <1>9 DEF CallClose, Go, InUser, Process
<1>10. CASE NameiLocked(p)
  BY <1>1, Labels, <1>10 DEF NameiLocked, SleepOn, Go, InUser, Process
<1>11. CASE CloseLocked(p)
  BY <1>1, Labels, <1>11 DEF CloseLocked, SleepOn, Go, InUser, Process
<1>12. CASE NameiFound(p)
  BY ZenonT(60), <1>1, Labels, <1>12, <1>2, <1>3 DEF NameiFound, At, Go, InUser, Process
<1>13. CASE NameiFails(p)
  BY <1>1, Labels, <1>13 DEF NameiFails, Go, InUser, Process
<1>14. CASE NameiError(p)
  BY <1>1, Labels, <1>14 DEF NameiError, Go, InUser, Process
<1>15. CASE NameiMake(p)
  BY <1>1, Labels, <1>15 DEF NameiMake, Go, InUser, Process
<1>16. CASE NameiEnter(p)
  BY <1>1, Labels, <1>16 DEF NameiEnter, Go, InUser, Process
<1>17. CASE IgetLocked(p)
  BY <1>1, Labels, <1>17 DEF IgetLocked, SleepOn, Go, InUser, Process
<1>18. CASE IgetFull(p)
  BY <1>1, Labels, <1>18 DEF IgetFull, Go, InUser, Process
<1>19. CASE Iread(p)
  BY <1>1, Labels, <1>19 DEF Iread, Go, InUser, Process
<1>20. CASE IreadFails(p)
  BY <1>1, Labels, <1>20 DEF IreadFails, Go, InUser, Process
<1>21. CASE GotOpen(p)
  BY <1>1, Labels, <1>21 DEF GotOpen, Go, InUser, Process
<1>22. CASE GotLink(p)
  BY <1>1, Labels, <1>22 DEF GotLink, Go, InUser, Process
<1>23. CASE GotExisting(p)
  BY <1>1, Labels, <1>23 DEF GotExisting, Go, InUser, Process
<1>24. CASE GotUnlink(p)
  BY <1>1, Labels, <1>24 DEF GotUnlink, Go, InUser, Process
<1>25. CASE GotNew(p)
  BY <1>1, Labels, <1>25 DEF GotNew, Go, InUser, Process
<1>26. CASE GotInUse(p)
  BY <1>1, Labels, <1>26 DEF GotInUse, Go, InUser, Process
<1>27. CASE GotNull(p)
  BY <1>1, Labels, <1>27 DEF GotNull, Go, InUser, Process
<1>28. CASE MakeNull(p)
  BY <1>1, Labels, <1>28 DEF MakeNull, Go, InUser, Process
<1>29. CASE Opened(p)
  BY <1>1, Labels, <1>29 DEF Opened, Go, InUser, Process
<1>30. CASE OpenedOld(p)
  BY <1>1, Labels, <1>30 DEF OpenedOld, Go, InUser, Process
<1>31. CASE OpenedFails(p)
  BY <1>1, Labels, <1>31 DEF OpenedFails, Go, InUser, Process
<1>32. CASE Granted(p)
  BY <1>1, Labels, <1>32 DEF Granted, Go, InUser, Process
<1>33. CASE Linked(p)
  BY <1>1, Labels, <1>33 DEF Linked, Go, InUser, Process
<1>34. CASE Out(p)
  BY <1>1, Labels, <1>34 DEF Out, Go, InUser, Process
<1>35. CASE IalloccgNone(p)
  BY <1>1, Labels, <1>35 DEF IalloccgNone, NoInode, Go, InUser, Process
<1>36. CASE IalloccgFails(p)
  BY <1>1, Labels, <1>36 DEF IalloccgFails, NoInode, Go, InUser, Process
<1>37. CASE Ifreeino(p)
  BY <1>1, Labels, <1>37 DEF Ifreeino, NoInode, Go, InUser, Process
<1>38. CASE Direnter(p)
  BY <1>1, Labels, <1>38 DEF Direnter, Go, InUser, Process
<1>39. CASE MakeFails(p)
  BY <1>1, Labels, <1>39 DEF MakeFails, Go, InUser, Process
<1>40. CASE EnterFails(p)
  BY <1>1, Labels, <1>40 DEF EnterFails, Go, InUser, Process
<1>41. CASE DirenterDone(p)
  BY <1>1, Labels, <1>41 DEF DirenterDone, Go, InUser, Process
<1>42. CASE Dirremove(p)
  BY <1>1, Labels, <1>42 DEF Dirremove, Go, InUser, Process
<1>43. CASE DirremoveFails(p)
  BY <1>1, Labels, <1>43 DEF DirremoveFails, Go, InUser, Process
<1>44. CASE DirremoveDone(p)
  BY <1>1, Labels, <1>44 DEF DirremoveDone, Go, InUser, Process
<1>45. CASE Undir(p)
  BY <1>1, Labels, <1>45 DEF Undir, Go, InUser, Process
<1>46. CASE Close(p)
  BY <1>1, Labels, <1>46 DEF Close, Go, InUser, Process
<1>47. CASE Iput(p)
  BY <1>1, Labels, <1>47 DEF Iput, Go, InUser, Process
<1>48. CASE IreleShared(p)
  BY <1>1, Labels, <1>48 DEF IreleShared, Return, Go, InUser, Process
<1>49. CASE IreleLast(p)
  BY <1>1, Labels, <1>49 DEF IreleLast, Go, InUser, Process
<1>50. CASE IreleUnlinked(p)
  BY <1>1, Labels, <1>50 DEF IreleUnlinked, Go, InUser, Process
<1>51. CASE Truncated(p)
  BY <1>1, Labels, <1>51 DEF Truncated, Go, InUser, Process
<1>52. CASE Ifree(p)
  BY <1>1, Labels, <1>52 DEF Ifree, ToIupdat, Go, InUser, Process
<1>53. CASE IfreeFails(p)
  BY <1>1, Labels, <1>53 DEF IfreeFails, ToIupdat, Go, InUser, Process
<1>54. CASE Release(p)
  BY <1>1, Labels, <1>54 DEF Release, Return, Go, InUser, Process
<1>55. CASE Iupdat(p)
  BY <1>1, Labels, <1>55 DEF Iupdat, Go, InUser, Process
<1>56. CASE IupdatFails(p)
  BY <1>1, Labels, <1>56 DEF IupdatFails, Go, InUser, Process
<1>57. CASE Bwrite(p)
  BY <1>1, Labels, <1>57 DEF Bwrite, Go, InUser, Process
<1> QED
  BY Step(p), <1>4, <1>5, <1>6, <1>7, <1>8, <1>9, <1>10, <1>11, <1>12, <1>13,
     <1>14, <1>15, <1>16, <1>17, <1>18, <1>19, <1>20, <1>21, <1>22, <1>23,
     <1>24, <1>25, <1>26, <1>27, <1>28, <1>29, <1>30, <1>31, <1>32, <1>33,
     <1>34, <1>35, <1>36, <1>37, <1>38, <1>39, <1>40, <1>41, <1>42, <1>43,
     <1>44, <1>45, <1>46, <1>47, <1>48, <1>49, <1>50, <1>51, <1>52, <1>53,
     <1>54, <1>55, <1>56, <1>57
  DEF Step, Ialloccg

LEMMA UserOK ==
    ASSUME NEW fd
    PROVE  Frame(InUser(fd))
<1> DEFINE r == InUser(fd)
<1>1. /\ r.pc = "user" /\ r.op = "" /\ r.at = None /\ r.ip = None /\ r.lp = None
      /\ r.err = FALSE /\ r.ret = "user"
  BY DEF InUser
<1> QED
  BY <1>1 DEF Frame, OpsOK, ThenOK, RetOK, HandOK, PathOK, Lookups, Opens, Ireles

\* Every place is reached with what it needs.
LEMMA FrameStep ==
    ASSUME TypeOK, Frames, NEW p \in Procs, Step(p)
    PROVE  Frame(proc'[p])
<1>1. /\ proc \in [Procs -> Process] /\ proc[p] \in Process /\ Frame(proc[p])
      /\ freelist \in Seq(Slots)
  BY DEF TypeOK, Frames
<1>2. proc[p].at # None => proc[p].at \in Paths /\ entry[proc[p].at] \in Inos
  BY DirOf DEF TypeOK
<1>3. \A l : At(p, l) => proc[p].pc = l
  BY DEF At
<1>4. None \notin Paths /\ None \notin Slots
  BY Assumed
<1>5. CASE Call(p)
  <2>1. PICK op \in Calls[p], a \in Paths, b \in Paths :
          /\ op \in {"open", "creat"} => proc[p].fd = None
          /\ op \in {"open", "creat", "link", "unlink"}
          /\ proc' = [proc EXCEPT ![p] = [@ EXCEPT !.op = op, !.at = a, !.to = b, !.pc = "namei"]]
    BY <1>5 DEF Call
  <2>2. proc[p].pc = "user"
    BY <1>3, <1>5 DEF Call
  <2>3. /\ proc'[p].pc = "namei" /\ proc'[p].op = op /\ proc'[p].at = a
        /\ proc'[p].to = b /\ proc'[p].ino = proc[p].ino /\ proc'[p].ip = proc[p].ip
        /\ proc'[p].lp = proc[p].lp /\ proc'[p].fd = proc[p].fd /\ proc'[p].err = proc[p].err
        /\ proc'[p].wait = proc[p].wait /\ proc'[p].then = proc[p].then /\ proc'[p].ret = proc[p].ret
    BY <1>1, <2>1 DEF Process
  <2>4. a # None /\ b # None
    BY <1>4
  <2>5. proc[p].ret = "user" /\ proc[p].ip = None /\ proc[p].lp = None
    BY <1>1, <2>2 DEF Frame, OpsOK, RetOK, HandOK, PathOK, Ireles
  <2> QED
    BY <2>1, <2>3, <2>4, <2>5
    DEF Frame, OpsOK, ThenOK, RetOK, HandOK, PathOK, Lookups, Opens, Ireles
<1>6. CASE Sync(p)
  <2>1. PICK s \in Slots, l \in {"iupdat", "iput"} :
          proc'[p] = [proc[p] EXCEPT !.op = "sync", !.ip = s, !.then = "iput", !.pc = l]
    BY <1>1, <1>6 DEF Sync
  <2>2. proc[p].pc = "user"
    BY <1>3, <1>6 DEF Sync
  <2>3. /\ proc'[p].pc = l /\ proc'[p].op = "sync" /\ proc'[p].at = proc[p].at
        /\ proc'[p].to = proc[p].to /\ proc'[p].ino = proc[p].ino /\ proc'[p].ip = s
        /\ proc'[p].lp = proc[p].lp /\ proc'[p].fd = proc[p].fd /\ proc'[p].err = proc[p].err
        /\ proc'[p].wait = proc[p].wait /\ proc'[p].then = "iput" /\ proc'[p].ret = proc[p].ret
    BY <1>1, <2>1 DEF Process
  <2>4. s # None
    BY <1>4
  <2>5. /\ proc[p].ret = "user" /\ proc[p].lp = None /\ proc[p].at = None
        /\ proc[p].op = ""
    BY <1>1, <2>2 DEF Frame, OpsOK, RetOK, HandOK, PathOK, Ireles
  <2> QED
    BY <2>1, <2>3, <2>4, <2>5
    DEF Frame, OpsOK, ThenOK, RetOK, HandOK, PathOK, Lookups, Opens, Ireles
<1>7. CASE IgetHit(p)
  <2>1. PICK s \in Slots :
          proc'[p] = [proc[p] EXCEPT !.ip = s, !.pc = "got"]
    BY <1>1, <1>7 DEF IgetHit
  <2>2. proc[p].pc = "iget"
    BY <1>3, <1>7 DEF IgetHit
  <2>3. /\ proc'[p].pc = "got" /\ proc'[p].op = proc[p].op /\ proc'[p].at = proc[p].at
        /\ proc'[p].to = proc[p].to /\ proc'[p].ino = proc[p].ino /\ proc'[p].ip = s
        /\ proc'[p].lp = proc[p].lp /\ proc'[p].fd = proc[p].fd /\ proc'[p].err = proc[p].err
        /\ proc'[p].wait = proc[p].wait /\ proc'[p].then = proc[p].then /\ proc'[p].ret = proc[p].ret
    BY <1>1, <2>1 DEF Process
  <2> QED
    BY <1>1, <1>4, <2>2, <2>3
    DEF Frame, OpsOK, ThenOK, RetOK, HandOK, PathOK, Lookups, Opens, Ireles
<1>8. CASE IgetMiss(p)
  <2>1. /\ Head(freelist) \in Slots
        /\ proc'[p] = [proc[p] EXCEPT !.ip = Head(freelist), !.pc = "iread"]
    BY <1>1, <1>8 DEF IgetMiss
  <2>2. proc[p].pc = "iget"
    BY <1>3, <1>8 DEF IgetMiss
  <2>3. /\ proc'[p].pc = "iread" /\ proc'[p].op = proc[p].op /\ proc'[p].at = proc[p].at
        /\ proc'[p].to = proc[p].to /\ proc'[p].ino = proc[p].ino /\ proc'[p].ip = Head(freelist)
        /\ proc'[p].lp = proc[p].lp /\ proc'[p].fd = proc[p].fd /\ proc'[p].err = proc[p].err
        /\ proc'[p].wait = proc[p].wait /\ proc'[p].then = proc[p].then /\ proc'[p].ret = proc[p].ret
    BY <1>1, <2>1 DEF Process
  <2> QED
    BY ZenonT(60), <1>1, <1>4, <2>1, <2>2, <2>3
    DEF Frame, OpsOK, ThenOK, RetOK, HandOK, PathOK, Lookups, Opens, Ireles
<1>9. CASE IreleShared(p)
  <2>1. proc'[p] = IF proc[p].ret = "user" THEN InUser(proc[p].fd)
                   ELSE [proc[p] EXCEPT !.ip = None, !.pc = proc[p].ret, !.ret = "user"]
    BY <1>1, <1>9 DEF IreleShared, Return
  <2>2. proc[p].pc = "irele"
    BY <1>3, <1>9 DEF IreleShared
  <2>4. CASE proc[p].ret = "user"
    BY UserOK, <2>1, <2>4
  <2>5. CASE proc[p].ret # "user"
    <3>1. /\ proc'[p].pc = proc[p].ret /\ proc'[p].op = proc[p].op /\ proc'[p].at = proc[p].at
          /\ proc'[p].to = proc[p].to /\ proc'[p].ino = proc[p].ino /\ proc'[p].ip = None
          /\ proc'[p].lp = proc[p].lp /\ proc'[p].fd = proc[p].fd /\ proc'[p].err = proc[p].err
          /\ proc'[p].wait = proc[p].wait /\ proc'[p].then = proc[p].then /\ proc'[p].ret = "user"
      BY <1>1, <2>1, <2>5 DEF Process
    <3> QED
      BY <1>1, <2>2, <2>5, <3>1
      DEF Frame, OpsOK, ThenOK, RetOK, HandOK, PathOK, Lookups, Opens, Ireles
  <2> QED BY <2>4, <2>5
<1>10. CASE Release(p)
  <2>1. proc'[p] = IF proc[p].ret = "user" THEN InUser(proc[p].fd)
                   ELSE [proc[p] EXCEPT !.ip = None, !.pc = proc[p].ret, !.ret = "user"]
    BY <1>1, <1>10 DEF Release, Return
  <2>2. proc[p].pc = "release"
    BY <1>3, <1>10 DEF Release
  <2>4. CASE proc[p].ret = "user"
    BY UserOK, <2>1, <2>4
  <2>5. CASE proc[p].ret # "user"
    <3>1. /\ proc'[p].pc = proc[p].ret /\ proc'[p].op = proc[p].op /\ proc'[p].at = proc[p].at
          /\ proc'[p].to = proc[p].to /\ proc'[p].ino = proc[p].ino /\ proc'[p].ip = None
          /\ proc'[p].lp = proc[p].lp /\ proc'[p].fd = proc[p].fd /\ proc'[p].err = proc[p].err
          /\ proc'[p].wait = proc[p].wait /\ proc'[p].then = proc[p].then /\ proc'[p].ret = "user"
      BY <1>1, <2>1, <2>5 DEF Process
    <3> QED
      BY <1>1, <2>2, <2>5, <3>1
      DEF Frame, OpsOK, ThenOK, RetOK, HandOK, PathOK, Lookups, Opens, Ireles
  <2> QED BY <2>4, <2>5
<1>11. CASE IreleLast(p)
  <2>1. PICK l \in {"iupdat", "release"} :
          proc'[p] = [proc[p] EXCEPT !.wait = FALSE, !.then = "release", !.pc = l]
    BY <1>1, <1>11 DEF IreleLast
  <2>2. proc[p].pc = "irele"
    BY <1>3, <1>11 DEF IreleLast
  <2> QED
    BY ZenonT(60), <1>1, <2>1, <2>2, <1>4
    DEF Process, InUser, Frame, OpsOK, ThenOK, RetOK, HandOK, PathOK, Lookups,
          Opens, Ireles
<1>12. CASE IreleUnlinked(p)
  <2>1. proc'[p] = [proc[p] EXCEPT !.wait = TRUE, !.then = "truncated", !.pc = "iupdat"]
    BY <1>1, <1>12 DEF IreleUnlinked
  <2>2. proc[p].pc = "irele"
    BY <1>3, <1>12 DEF IreleUnlinked
  <2> QED
    BY ZenonT(60), <1>1, <2>1, <2>2, <1>4
    DEF Process, InUser, Frame, OpsOK, ThenOK, RetOK, HandOK, PathOK, Lookups,
          Opens, Ireles
<1>13. CASE Truncated(p)
  <2>1. proc'[p] = [proc[p] EXCEPT !.pc = "ifree"]
    BY <1>1, <1>13 DEF Truncated, Go
  <2>2. proc[p].pc = "truncated"
    BY <1>3, <1>13 DEF Truncated
  <2> QED
    BY ZenonT(60), <1>1, <2>1, <2>2, <1>4
    DEF Process, InUser, Frame, OpsOK, ThenOK, RetOK, HandOK, PathOK, Lookups,
          Opens, Ireles
<1>14. CASE Ifree(p)
  <2>1. proc'[p] = [proc[p] EXCEPT !.wait = FALSE, !.then = "release", !.pc = "iupdat"]
    BY <1>1, <1>14 DEF Ifree, ToIupdat
  <2>2. proc[p].pc = "ifree"
    BY <1>3, <1>14 DEF Ifree
  <2> QED
    BY ZenonT(60), <1>1, <2>1, <2>2, <1>4
    DEF Process, InUser, Frame, OpsOK, ThenOK, RetOK, HandOK, PathOK, Lookups,
          Opens, Ireles
<1>15. CASE IfreeFails(p)
  <2>1. proc'[p] = [proc[p] EXCEPT !.wait = FALSE, !.then = "release", !.pc = "iupdat"]
    BY <1>1, <1>15 DEF IfreeFails, ToIupdat
  <2>2. proc[p].pc = "ifree"
    BY <1>3, <1>15 DEF IfreeFails
  <2> QED
    BY ZenonT(60), <1>1, <2>1, <2>2, <1>4
    DEF Process, InUser, Frame, OpsOK, ThenOK, RetOK, HandOK, PathOK, Lookups,
          Opens, Ireles
<1>16. CASE Iupdat(p)
  <2>1. \/ proc'[p] = [proc[p] EXCEPT !.pc = "bwrite"]
        \/ proc'[p] = [proc[p] EXCEPT !.pc = proc[p].then]
    BY <1>1, <1>16 DEF Iupdat, Go
  <2>2. proc[p].pc = "iupdat"
    BY <1>3, <1>16 DEF Iupdat
  <2>3. CASE proc'[p] = [proc[p] EXCEPT !.pc = "bwrite"]
    BY ZenonT(60), <1>1, <2>2, <2>3
    DEF Process, InUser, Frame, OpsOK, ThenOK, RetOK, HandOK, PathOK, Lookups,
          Opens, Ireles
  <2>4. CASE proc'[p] = [proc[p] EXCEPT !.pc = proc[p].then]
    BY ZenonT(60), <1>1, <2>2, <2>4
    DEF Process, InUser, Frame, OpsOK, ThenOK, RetOK, HandOK, PathOK, Lookups,
          Opens, Ireles
  <2> QED BY <2>1, <2>3, <2>4
<1>17. CASE IupdatFails(p)
  <2>1. proc'[p] = [proc[p] EXCEPT !.err = TRUE, !.pc = proc[p].then]
    BY <1>1, <1>17 DEF IupdatFails
  <2>2. proc[p].pc = "iupdat"
    BY <1>3, <1>17 DEF IupdatFails
  <2> QED
    BY ZenonT(60), <1>1, <2>1, <2>2, <1>4
    DEF Process, InUser, Frame, OpsOK, ThenOK, RetOK, HandOK, PathOK, Lookups,
          Opens, Ireles
<1>18. CASE Bwrite(p)
  <2>1. proc'[p] = [proc[p] EXCEPT !.pc = proc[p].then]
    BY <1>1, <1>18 DEF Bwrite, Go
  <2>2. proc[p].pc = "bwrite"
    BY <1>3, <1>18 DEF Bwrite
  <2> QED
    BY ZenonT(60), <1>1, <2>1, <2>2, <1>4
    DEF Process, InUser, Frame, OpsOK, ThenOK, RetOK, HandOK, PathOK, Lookups,
          Opens, Ireles
<1>19. CASE IalloccgTake(p)
  <2>1. PICK i \in Inos \ iused :
          \/ i # None /\ proc'[p] = [proc[p] EXCEPT !.ino = i, !.pc = "iget"]
          \/ proc'[p] = InUser(proc[p].fd)
    BY <1>1, <1>19 DEF IalloccgTake, NoInode
  <2>2. proc[p].pc = "ialloccg"
    BY <1>3, <1>19 DEF IalloccgTake
  <2>3. CASE i # None /\ proc'[p] = [proc[p] EXCEPT !.ino = i, !.pc = "iget"]
    BY ZenonT(60), <1>1, <2>2, <2>3
    DEF Process, InUser, Frame, OpsOK, ThenOK, RetOK, HandOK, PathOK, Lookups,
          Opens, Ireles
  <2>4. CASE proc'[p] = InUser(proc[p].fd)
    BY UserOK, <2>4
  <2> QED BY <2>1, <2>3, <2>4
<1>20. CASE NameiLocked(p) \/ CloseLocked(p) \/ IgetLocked(p) \/ GotInUse(p)
  BY <1>1, <1>20 DEF NameiLocked, CloseLocked, IgetLocked, GotInUse, SleepOn
<1>21. CASE CallClose(p)
  BY <1>1, <1>3, <1>21
  DEF CallClose, Process, Go, InUser, Frame, OpsOK, ThenOK, RetOK, HandOK,
      PathOK, Lookups, Opens, Ireles
<1>22. CASE NameiFound(p)
  BY <1>1, <1>3, <1>22, <1>2
  DEF NameiFound, Process, Go, InUser, Frame, OpsOK, ThenOK, RetOK, HandOK,
      PathOK, Lookups, Opens, Ireles
<1>23. CASE NameiFails(p)
  BY ZenonT(60), <1>1, <1>3, <1>23
  DEF NameiFails, Process, Go, InUser, Frame, OpsOK, ThenOK, RetOK, HandOK,
      PathOK, Lookups, Opens, Ireles
<1>24. CASE NameiError(p)
  BY <1>1, <1>3, <1>24
  DEF NameiError, Process, Go, InUser, Frame, OpsOK, ThenOK, RetOK, HandOK,
      PathOK, Lookups, Opens, Ireles
<1>25. CASE NameiMake(p)
  BY <1>1, <1>3, <1>25
  DEF NameiMake, NameiFree, Process, Go, InUser, Frame, OpsOK, ThenOK, RetOK,
      HandOK, PathOK, Lookups, Opens, Ireles
<1>26. CASE NameiEnter(p)
  BY ZenonT(60), <1>1, <1>3, <1>26
  DEF NameiEnter, NameiFree, Process, Go, InUser, Frame, OpsOK, ThenOK, RetOK,
      HandOK, PathOK, Lookups, Opens, Ireles
<1>27. CASE IgetFull(p)
  BY <1>1, <1>3, <1>27
  DEF IgetFull, Process, Go, InUser, Frame, OpsOK, ThenOK, RetOK, HandOK,
      PathOK, Lookups, Opens, Ireles
<1>28. CASE Iread(p)
  BY <1>1, <1>3, <1>28
  DEF Iread, Process, Go, InUser, Frame, OpsOK, ThenOK, RetOK, HandOK, PathOK,
      Lookups, Opens, Ireles
<1>29. CASE IreadFails(p)
  BY ZenonT(60), <1>1, <1>3, <1>29
  DEF IreadFails, Process, Go, InUser, Frame, OpsOK, ThenOK, RetOK, HandOK,
      PathOK, Lookups, Opens, Ireles
<1>30. CASE GotOpen(p)
  BY <1>1, <1>3, <1>30
  DEF GotOpen, Process, Go, InUser, Frame, OpsOK, ThenOK, RetOK, HandOK,
      PathOK, Lookups, Opens, Ireles
<1>31. CASE GotLink(p)
  BY <1>1, <1>3, <1>31
  DEF GotLink, Process, Go, InUser, Frame, OpsOK, ThenOK, RetOK, HandOK,
      PathOK, Lookups, Opens, Ireles
<1>32. CASE GotExisting(p)
  BY <1>1, <1>3, <1>32
  DEF GotExisting, Process, Go, InUser, Frame, OpsOK, ThenOK, RetOK, HandOK,
      PathOK, Lookups, Opens, Ireles
<1>33. CASE GotUnlink(p)
  BY <1>1, <1>3, <1>33
  DEF GotUnlink, Process, Go, InUser, Frame, OpsOK, ThenOK, RetOK, HandOK,
      PathOK, Lookups, Opens, Ireles
<1>34. CASE GotNew(p)
  BY <1>1, <1>3, <1>34
  DEF GotNew, Process, Go, InUser, Frame, OpsOK, ThenOK, RetOK, HandOK,
      PathOK, Lookups, Opens, Ireles
<1>35. CASE GotNull(p)
  BY <1>1, <1>3, <1>35
  DEF GotNull, Process, Go, InUser, Frame, OpsOK, ThenOK, RetOK, HandOK,
      PathOK, Lookups, Opens, Ireles
<1>36. CASE MakeNull(p)
  BY <1>1, <1>3, <1>36
  DEF MakeNull, Process, Go, InUser, Frame, OpsOK, ThenOK, RetOK, HandOK,
      PathOK, Lookups, Opens, Ireles
<1>37. CASE Opened(p)
  BY <1>1, <1>3, <1>37
  DEF Opened, Process, Go, InUser, Frame, OpsOK, ThenOK, RetOK, HandOK,
      PathOK, Lookups, Opens, Ireles
<1>38. CASE OpenedOld(p)
  BY <1>1, <1>3, <1>38
  DEF OpenedOld, Process, Go, InUser, Frame, OpsOK, ThenOK, RetOK, HandOK,
      PathOK, Lookups, Opens, Ireles
<1>39. CASE OpenedFails(p)
  BY <1>1, <1>3, <1>39
  DEF OpenedFails, Process, Go, InUser, Frame, OpsOK, ThenOK, RetOK, HandOK,
      PathOK, Lookups, Opens, Ireles
<1>40. CASE Granted(p)
  BY <1>1, <1>3, <1>40
  DEF Granted, Process, Go, InUser, Frame, OpsOK, ThenOK, RetOK, HandOK,
      PathOK, Lookups, Opens, Ireles
<1>41. CASE Linked(p)
  BY ZenonT(60), <1>1, <1>3, <1>41
  DEF Linked, Process, Go, InUser, Frame, OpsOK, ThenOK, RetOK, HandOK,
      PathOK, Lookups, Opens, Ireles
<1>42. CASE Out(p)
  BY <1>1, <1>3, <1>42
  DEF Out, Process, Go, InUser, Frame, OpsOK, ThenOK, RetOK, HandOK, PathOK,
      Lookups, Opens, Ireles
<1>43. CASE IalloccgNone(p)
  BY <1>1, <1>3, <1>43
  DEF IalloccgNone, NoInode, Process, Go, InUser, Frame, OpsOK, ThenOK, RetOK,
      HandOK, PathOK, Lookups, Opens, Ireles
<1>44. CASE IalloccgFails(p)
  BY <1>1, <1>3, <1>44
  DEF IalloccgFails, NoInode, Process, Go, InUser, Frame, OpsOK, ThenOK,
      RetOK, HandOK, PathOK, Lookups, Opens, Ireles
<1>45. CASE Ifreeino(p)
  BY <1>1, <1>3, <1>45
  DEF Ifreeino, NoInode, Process, Go, InUser, Frame, OpsOK, ThenOK, RetOK,
      HandOK, PathOK, Lookups, Opens, Ireles
<1>46. CASE Direnter(p)
  BY <1>1, <1>3, <1>46
  DEF Direnter, Process, Go, InUser, Frame, OpsOK, ThenOK, RetOK, HandOK,
      PathOK, Lookups, Opens, Ireles
<1>47. CASE MakeFails(p)
  BY <1>1, <1>3, <1>47
  DEF MakeFails, DirenterFails, Process, Go, InUser, Frame, OpsOK, ThenOK,
      RetOK, HandOK, PathOK, Lookups, Opens, Ireles
<1>48. CASE EnterFails(p)
  BY <1>1, <1>3, <1>48
  DEF EnterFails, DirenterFails, Process, Go, InUser, Frame, OpsOK, ThenOK,
      RetOK, HandOK, PathOK, Lookups, Opens, Ireles
<1>49. CASE DirenterDone(p)
  BY <1>1, <1>3, <1>49
  DEF DirenterDone, Dirwrite, Process, Go, InUser, Frame, OpsOK, ThenOK,
      RetOK, HandOK, PathOK, Lookups, Opens, Ireles
<1>50. CASE DirremoveDone(p)
  BY <1>1, <1>3, <1>50
  DEF DirremoveDone, Dirwrite, Process, Go, InUser, Frame, OpsOK, ThenOK,
      RetOK, HandOK, PathOK, Lookups, Opens, Ireles
<1>51. CASE Dirremove(p)
  BY <1>1, <1>3, <1>51
  DEF Dirremove, Process, Go, InUser, Frame, OpsOK, ThenOK, RetOK, HandOK,
      PathOK, Lookups, Opens, Ireles
<1>52. CASE DirremoveFails(p)
  BY <1>1, <1>3, <1>52
  DEF DirremoveFails, Process, Go, InUser, Frame, OpsOK, ThenOK, RetOK,
      HandOK, PathOK, Lookups, Opens, Ireles
<1>53. CASE Undir(p)
  BY <1>1, <1>3, <1>53
  DEF Undir, Process, Go, InUser, Frame, OpsOK, ThenOK, RetOK, HandOK, PathOK,
      Lookups, Opens, Ireles
<1>54. CASE Close(p)
  BY <1>1, <1>3, <1>54
  DEF Close, Process, Go, InUser, Frame, OpsOK, ThenOK, RetOK, HandOK, PathOK,
      Lookups, Opens, Ireles
<1>55. CASE Iput(p)
  BY <1>1, <1>3, <1>55
  DEF Iput, Process, Go, InUser, Frame, OpsOK, ThenOK, RetOK, HandOK, PathOK,
      Lookups, Opens, Ireles
<1> QED
  BY Step(p), <1>5, <1>6, <1>7, <1>8, <1>9, <1>10, <1>11, <1>12, <1>13, <1>14,
     <1>15, <1>16, <1>17, <1>18, <1>19, <1>20, <1>21, <1>22, <1>23, <1>24,
     <1>25, <1>26, <1>27, <1>28, <1>29, <1>30, <1>31, <1>32, <1>33, <1>34,
     <1>35, <1>36, <1>37, <1>38, <1>39, <1>40, <1>41, <1>42, <1>43, <1>44,
     <1>45, <1>46, <1>47, <1>48, <1>49, <1>50, <1>51, <1>52, <1>53, <1>54,
     <1>55
  DEF Step, Ialloccg

------------------------------------------------------------------------------
(* The table as a step leaves it. *)

LEMMA UnlockedType ==
    ASSUME NEW t \in [Table -> Inode], NEW S
    PROVE  Unlocked(t, S) \in [Table -> Inode]
<1>1. \A s \in Table : t[s] \in Inode
  OBVIOUS
<1>2. \A x \in Inode : [x EXCEPT !.locked = FALSE, !.want = FALSE] \in Inode
  BY DEF Inode
<1> QED
  BY <1>1, <1>2 DEF Unlocked

LEMMA PutType ==
    ASSUME NEW t \in [Table -> Inode], NEW d \in Table, t[d].count >= 1
    PROVE  Put(t, d) \in [Table -> Inode]
<1>1. Unlocked(t, {d}) \in [Table -> Inode]
  BY UnlockedType
<1>2. Unlocked(t, {d})[d] = [t[d] EXCEPT !.locked = FALSE, !.want = FALSE]
  BY DEF Unlocked
<1>3. Unlocked(t, {d})[d] \in Inode /\ t[d] \in Inode
  BY <1>1
<1>4. Unlocked(t, {d})[d].count = t[d].count /\ t[d].count \in Nat
  BY <1>2, <1>3 DEF Inode
<1>5. \A x \in Inode : x.count >= 1 => [x EXCEPT !.count = @ - 1] \in Inode
  BY DEF Inode
<1>6. [Unlocked(t, {d})[d] EXCEPT !.count = @ - 1] \in Inode
  BY <1>3, <1>4, <1>5
<1> QED
  BY <1>1, <1>6 DEF Put

\* Who has an inode locked, or at hand, has it in the table.
LEMMA Held ==
    ASSUME TypeOK, Frames, NEW p \in Procs
    PROVE  /\ proc[p].ip # None => proc[p].ip \in Slots /\ proc[p].ip \in Table
           /\ proc[p].lp # None => proc[p].lp \in Slots /\ proc[p].lp \in Table
           /\ proc[p].fd # None => proc[p].fd \in Slots /\ proc[p].fd \in Table
           /\ proc[p].ino \in Inos
BY DEF TypeOK, Process, Table

\* A process that has its directory locked has a reference to it.
LEMMA DirHeld ==
    ASSUME TypeOK, DirsOK, LocksExact, NEW p \in Procs, NEW d \in Dirs, HasDir(p, d)
    PROVE  inode[d].locked /\ inode[d].count = 2
<1>1. inode[d].locked
  BY DEF LocksExact, LockExact, Has, Table
<1> QED
  BY <1>1 DEF DirsOK

\* What a process has at hand where it is about to use it.
LEMMA AtHand ==
    ASSUME TypeOK, Frames, DirsOK, LocksExact, NEW p \in Procs
    PROVE  /\ proc[p].ip # None => proc[p].ip \in Slots /\ proc[p].ip \in Table
           /\ proc[p].lp # None => proc[p].lp \in Slots /\ proc[p].lp \in Table
           /\ proc[p].fd # None => proc[p].fd \in Slots /\ proc[p].fd \in Table
           /\ proc[p].pc \in {"iread", "iput", "irele", "truncated", "ifree", "release",
                              "iupdat", "bwrite", "got", "opened", "granted", "linked",
                              "dirremove"} => proc[p].ip # None
           /\ proc[p].op # "enter" /\ proc[p].pc \in {"direnter", "dirwrite"}
                => proc[p].ip # None
           /\ proc[p].op = "enter" /\ proc[p].pc \in {"direnter", "dirwrite", "out"}
                => proc[p].lp # None
           /\ proc[p].pc = "close" => proc[p].fd # None
           /\ proc[p].pc \in {"got", "null", "ialloccg", "ifreeino", "direnter", "dirwrite",
                              "undir"}
                => /\ Dir(p) \in Dirs /\ Dir(p) \in Table /\ Dir(p) \notin Slots
                   /\ inode[Dir(p)].locked /\ inode[Dir(p)].count = 2
           /\ proc[p].pc = "namei"
                => Dir(p) \in Dirs /\ Dir(p) \in Table /\ Dir(p) \notin Slots
<1>1. proc[p] \in Process /\ Frame(proc[p])
  BY DEF TypeOK, Frames
<1>2. /\ proc[p].ip # None => proc[p].ip \in Slots /\ proc[p].ip \in Table
      /\ proc[p].lp # None => proc[p].lp \in Slots /\ proc[p].lp \in Table
      /\ proc[p].fd # None => proc[p].fd \in Slots /\ proc[p].fd \in Table
  BY Held
<1>3. /\ proc[p].pc \in {"iread", "iput", "irele", "truncated", "ifree", "release",
                         "iupdat", "bwrite", "got", "opened", "granted", "linked",
                         "dirremove"} => proc[p].ip # None
      /\ proc[p].op # "enter" /\ proc[p].pc \in {"direnter", "dirwrite"}
           => proc[p].ip # None
  BY <1>1 DEF Frame, HandOK, Ireles
<1>4. /\ proc[p].op = "enter" /\ proc[p].pc \in {"direnter", "dirwrite", "out"}
           => proc[p].lp # None
      /\ proc[p].pc = "close" => proc[p].fd # None
  BY <1>1 DEF Frame, PathOK, Ireles
<1>5. proc[p].pc \in {"got", "null", "ialloccg", "ifreeino", "direnter", "dirwrite",
                      "undir", "namei"} => proc[p].at # None
  BY <1>1 DEF Frame, OpsOK, PathOK, Lookups
<1>6. proc[p].at # None => Dir(p) \in Dirs /\ Dir(p) \in Table /\ Dir(p) \notin Slots
  BY DirOf
<1>7. ASSUME proc[p].pc \in {"got", "null", "ialloccg", "ifreeino", "direnter", "dirwrite",
                             "undir"}
      PROVE  inode[Dir(p)].locked /\ inode[Dir(p)].count = 2
  <2>1. HasDir(p, Dir(p))
    BY <1>5, <1>7 DEF HasDir
  <2> QED
    BY <1>5, <1>6, <1>7, <2>1, DirHeld
<1> QED
  BY <1>2, <1>3, <1>4, <1>5, <1>6, <1>7

\* The other inodes, and what an inode has of the file.
Elsewhere(S) == \A t \in Table \ S : inode'[t] = inode[t]
SameFile(s) ==
    /\ inode'[s].ino = inode[s].ino /\ inode'[s].hashed = inode[s].hashed
    /\ inode'[s].mode = inode[s].mode /\ inode'[s].nlink = inode[s].nlink
    /\ inode'[s].dirty = inode[s].dirty

\* An inode keeps its type when a field is set.
LEMMA FieldsSet ==
    /\ \A x \in Inode, b \in BOOLEAN :
         /\ [x EXCEPT !.locked = b] \in Inode /\ [x EXCEPT !.want = b] \in Inode
         /\ [x EXCEPT !.mode = b] \in Inode /\ [x EXCEPT !.dirty = b] \in Inode
         /\ [x EXCEPT !.hashed = b] \in Inode
    /\ \A x \in Inode, n \in Int : [x EXCEPT !.nlink = n] \in Inode
    /\ \A x \in Inode, n \in Nat : [x EXCEPT !.count = n] \in Inode
    /\ \A x \in Inode, i \in Inos : [x EXCEPT !.ino = i] \in Inode
BY DEF Inode

\* ... and a table its type, when a field of one of its inodes is set.
LEMMA SlotSet ==
    ASSUME NEW t \in [Table -> Inode], NEW s \in Table
    PROVE  /\ \A b \in BOOLEAN :
                /\ [t EXCEPT ![s].locked = b] \in [Table -> Inode]
                /\ [t EXCEPT ![s].mode = b] \in [Table -> Inode]
                /\ [t EXCEPT ![s].dirty = b] \in [Table -> Inode]
                /\ [t EXCEPT ![s].hashed = b] \in [Table -> Inode]
           /\ \A n \in Int : [t EXCEPT ![s].nlink = n] \in [Table -> Inode]
           /\ \A n \in Nat : [t EXCEPT ![s].count = n] \in [Table -> Inode]
           /\ \A i \in Inos : [t EXCEPT ![s].ino = i] \in [Table -> Inode]
           /\ t[s].nlink \in Int /\ t[s].count \in Nat /\ t[s].dirty \in BOOLEAN
<1>1. t[s] \in Inode
  OBVIOUS
<1>2. \A x \in Inode : [t EXCEPT ![s] = x] \in [Table -> Inode]
  OBVIOUS
<1>3. t[s].nlink \in Int /\ t[s].count \in Nat /\ t[s].dirty \in BOOLEAN
  BY <1>1 DEF Inode
<1>4. ASSUME NEW b \in BOOLEAN
      PROVE  /\ [t EXCEPT ![s].locked = b] \in [Table -> Inode]
             /\ [t EXCEPT ![s].mode = b] \in [Table -> Inode]
             /\ [t EXCEPT ![s].dirty = b] \in [Table -> Inode]
             /\ [t EXCEPT ![s].hashed = b] \in [Table -> Inode]
  <2>1. /\ [t[s] EXCEPT !.locked = b] \in Inode /\ [t[s] EXCEPT !.mode = b] \in Inode
        /\ [t[s] EXCEPT !.dirty = b] \in Inode /\ [t[s] EXCEPT !.hashed = b] \in Inode
    BY <1>1, FieldsSet
  <2>2. [t EXCEPT ![s].locked = b] \in [Table -> Inode]
    BY <1>2, <2>1
  <2>3. [t EXCEPT ![s].mode = b] \in [Table -> Inode]
    BY <1>2, <2>1
  <2>4. [t EXCEPT ![s].dirty = b] \in [Table -> Inode]
    BY <1>2, <2>1
  <2>5. [t EXCEPT ![s].hashed = b] \in [Table -> Inode]
    BY <1>2, <2>1
  <2> QED BY <2>2, <2>3, <2>4, <2>5
<1>5. ASSUME NEW n \in Int
      PROVE  [t EXCEPT ![s].nlink = n] \in [Table -> Inode]
  <2>1. [t[s] EXCEPT !.nlink = n] \in Inode
    BY <1>1, FieldsSet
  <2> QED BY <1>2, <2>1
<1>6. ASSUME NEW n \in Nat
      PROVE  [t EXCEPT ![s].count = n] \in [Table -> Inode]
  <2>1. [t[s] EXCEPT !.count = n] \in Inode
    BY <1>1, FieldsSet
  <2> QED BY <1>2, <2>1
<1>7. ASSUME NEW i \in Inos
      PROVE  [t EXCEPT ![s].ino = i] \in [Table -> Inode]
  <2>1. [t[s] EXCEPT !.ino = i] \in Inode
    BY <1>1, FieldsSet
  <2> QED BY <1>2, <2>1
<1> QED BY <1>3, <1>4, <1>5, <1>6, <1>7

LEMMA MadeType ==
    \A x \in Inode : [x EXCEPT !.mode = TRUE, !.nlink = 1, !.dirty = TRUE] \in Inode
<1>1. \A y \in Inode : [y EXCEPT !.nlink = 1] \in Inode
  BY DEF Inode
<1> QED BY <1>1, FieldsSet

LEMMA FetchedType ==
    \A x \in Inode, i \in Inos :
       [x EXCEPT !.hashed = TRUE, !.ino = i, !.locked = TRUE, !.want = FALSE,
                 !.dirty = FALSE, !.count = @ + 1] \in Inode
<1>1. \A x \in Inode, i \in Inos :
         [x EXCEPT !.hashed = TRUE, !.ino = i, !.locked = TRUE, !.want = FALSE,
                   !.dirty = FALSE] \in Inode
  BY FieldsSet
<1>2. \A x \in Inode : x.count + 1 \in Nat
  BY DEF Inode
<1> QED BY <1>1, <1>2, FieldsSet

\* IUNLOCK and iput, of one inode or of both.
LEMMA UnlockedFields ==
    ASSUME NEW t \in [Table -> Inode], NEW s \in Table, NEW u, u = Unlocked(t, {s})
    PROVE  /\ u \in [Table -> Inode] /\ \A r \in Table \ {s} : u[r] = t[r]
           /\ u[s].ino = t[s].ino /\ u[s].hashed = t[s].hashed /\ u[s].mode = t[s].mode
           /\ u[s].nlink = t[s].nlink /\ u[s].dirty = t[s].dirty
           /\ u[s].count = t[s].count /\ ~u[s].locked /\ ~u[s].want
<1>1. \A x \in Inode : LET y == [x EXCEPT !.locked = FALSE, !.want = FALSE] IN
         /\ y.ino = x.ino /\ y.hashed = x.hashed /\ y.mode = x.mode
         /\ y.nlink = x.nlink /\ y.dirty = x.dirty /\ y.count = x.count
         /\ ~y.locked /\ ~y.want
  BY DEF Inode
<1>2. \A r \in Table : t[r] \in Inode
  OBVIOUS
<1>3. u \in [Table -> Inode]
  BY UnlockedType
<1> QED
  BY <1>1, <1>2, <1>3 DEF Unlocked

\* The same, as one fact of the table that the unlocking leaves.
UnlockedAs(v, t, s) ==
    /\ v \in [Table -> Inode] /\ \A r \in Table \ {s} : v[r] = t[r]
    /\ v[s].ino = t[s].ino /\ v[s].hashed = t[s].hashed /\ v[s].mode = t[s].mode
    /\ v[s].nlink = t[s].nlink /\ v[s].dirty = t[s].dirty
    /\ v[s].count = t[s].count /\ ~v[s].locked /\ ~v[s].want

LEMMA UnlockedKeeps ==
    ASSUME NEW t \in [Table -> Inode], NEW s \in Table
    PROVE  UnlockedAs(Unlocked(t, {s}), t, s)
<1> DEFINE v == Unlocked(t, {s})
<1>1. /\ v \in [Table -> Inode] /\ \A r \in Table \ {s} : v[r] = t[r]
      /\ v[s].ino = t[s].ino /\ v[s].hashed = t[s].hashed /\ v[s].mode = t[s].mode
      /\ v[s].nlink = t[s].nlink /\ v[s].dirty = t[s].dirty
      /\ v[s].count = t[s].count /\ ~v[s].locked /\ ~v[s].want
  BY UnlockedFields
<1> HIDE DEF v
<1>2. UnlockedAs(v, t, s)
  BY <1>1 DEF UnlockedAs
<1> QED BY <1>2 DEF v

LEMMA Put1 ==
    ASSUME NEW t \in [Table -> Inode], NEW d \in Table, NEW u, u = Put(t, d)
    PROVE  /\ \A r \in Table \ {d} : u[r] = t[r]
           /\ u[d].ino = t[d].ino /\ u[d].hashed = t[d].hashed /\ u[d].mode = t[d].mode
           /\ u[d].nlink = t[d].nlink /\ u[d].dirty = t[d].dirty
           /\ u[d].count = t[d].count - 1 /\ ~u[d].locked /\ ~u[d].want
<1> DEFINE v == Unlocked(t, {d})
<1>1. /\ v \in [Table -> Inode] /\ \A r \in Table \ {d} : v[r] = t[r]
      /\ v[d].ino = t[d].ino /\ v[d].hashed = t[d].hashed /\ v[d].mode = t[d].mode
      /\ v[d].nlink = t[d].nlink /\ v[d].dirty = t[d].dirty
      /\ v[d].count = t[d].count /\ ~v[d].locked /\ ~v[d].want
  BY UnlockedFields
<1>2. u = [v EXCEPT ![d].count = @ - 1]
  BY DEF Put
<1> HIDE DEF v
<1>3. \A r \in Table \ {d} : u[r] = t[r]
  BY <1>1, <1>2
<1>4. /\ u[d].ino = v[d].ino /\ u[d].hashed = v[d].hashed /\ u[d].mode = v[d].mode
      /\ u[d].nlink = v[d].nlink /\ u[d].dirty = v[d].dirty
      /\ u[d].count = v[d].count - 1 /\ u[d].locked = v[d].locked
      /\ u[d].want = v[d].want
  BY <1>1, <1>2 DEF Inode
<1> QED
  BY <1>1, <1>3, <1>4

LEMMA PutFields ==
    ASSUME NEW t \in [Table -> Inode], NEW d \in Table, NEW u, u = Put(t, d),
           t[d].count = 2
    PROVE  /\ u \in [Table -> Inode] /\ \A r \in Table \ {d} : u[r] = t[r]
           /\ u[d].ino = t[d].ino /\ u[d].hashed = t[d].hashed /\ u[d].mode = t[d].mode
           /\ u[d].nlink = t[d].nlink /\ u[d].dirty = t[d].dirty
           /\ u[d].count = 1 /\ ~u[d].locked /\ ~u[d].want
<1>1. u \in [Table -> Inode]
  BY PutType
<1> QED
  BY <1>1, Put1

LEMMA UnlockedPut1 ==
    ASSUME NEW t \in [Table -> Inode], NEW d \in Table, NEW s \in Table, s # d,
           NEW u, u = Unlocked(Put(t, d), {s})
    PROVE  /\ \A r \in Table \ {d, s} : u[r] = t[r]
           /\ u[d].ino = t[d].ino /\ u[d].hashed = t[d].hashed /\ u[d].mode = t[d].mode
           /\ u[d].nlink = t[d].nlink /\ u[d].dirty = t[d].dirty
           /\ u[d].count = t[d].count - 1 /\ ~u[d].locked /\ ~u[d].want
           /\ u[s].ino = t[s].ino /\ u[s].hashed = t[s].hashed /\ u[s].mode = t[s].mode
           /\ u[s].nlink = t[s].nlink /\ u[s].dirty = t[s].dirty
           /\ u[s].count = t[s].count /\ ~u[s].locked /\ ~u[s].want
<1> DEFINE v == Put(t, d)  x == Unlocked(t, {s})
<1>1. /\ \A r \in Table \ {d} : v[r] = t[r]
      /\ v[d].ino = t[d].ino /\ v[d].hashed = t[d].hashed /\ v[d].mode = t[d].mode
      /\ v[d].nlink = t[d].nlink /\ v[d].dirty = t[d].dirty
      /\ v[d].count = t[d].count - 1 /\ ~v[d].locked /\ ~v[d].want
  BY Put1
<1>2. /\ x[s].ino = t[s].ino /\ x[s].hashed = t[s].hashed /\ x[s].mode = t[s].mode
      /\ x[s].nlink = t[s].nlink /\ x[s].dirty = t[s].dirty
      /\ x[s].count = t[s].count /\ ~x[s].locked /\ ~x[s].want
  BY UnlockedFields
<1>3. x[s] = [t[s] EXCEPT !.locked = FALSE, !.want = FALSE]
  BY DEF Unlocked
<1>4. u = Unlocked(v, {s})
  OBVIOUS
<1> HIDE DEF v, x
<1>5. u[s] = x[s]
  BY <1>1, <1>3, <1>4 DEF Unlocked
<1>6. \A r \in Table \ {s} : u[r] = v[r]
  BY <1>4 DEF Unlocked
<1> QED
  BY <1>1, <1>2, <1>5, <1>6

LEMMA UnlockedPut ==
    ASSUME NEW t \in [Table -> Inode], NEW d \in Table, NEW s \in Table, s # d,
           NEW u, u = Unlocked(Put(t, d), {s}), t[d].count = 2
    PROVE  /\ u \in [Table -> Inode] /\ \A r \in Table \ {d, s} : u[r] = t[r]
           /\ u[d].ino = t[d].ino /\ u[d].hashed = t[d].hashed /\ u[d].mode = t[d].mode
           /\ u[d].nlink = t[d].nlink /\ u[d].dirty = t[d].dirty
           /\ u[d].count = 1 /\ ~u[d].locked /\ ~u[d].want
           /\ u[s].ino = t[s].ino /\ u[s].hashed = t[s].hashed /\ u[s].mode = t[s].mode
           /\ u[s].nlink = t[s].nlink /\ u[s].dirty = t[s].dirty
           /\ u[s].count = t[s].count /\ ~u[s].locked /\ ~u[s].want
<1>1. Put(t, d) \in [Table -> Inode]
  BY PutType
<1>2. u \in [Table -> Inode]
  BY <1>1, UnlockedType
<1>3. /\ \A r \in Table \ {d, s} : u[r] = t[r]
      /\ u[d].ino = t[d].ino /\ u[d].hashed = t[d].hashed /\ u[d].mode = t[d].mode
      /\ u[d].nlink = t[d].nlink /\ u[d].dirty = t[d].dirty
      /\ u[d].count = t[d].count - 1 /\ ~u[d].locked /\ ~u[d].want
      /\ u[s].ino = t[s].ino /\ u[s].hashed = t[s].hashed /\ u[s].mode = t[s].mode
      /\ u[s].nlink = t[s].nlink /\ u[s].dirty = t[s].dirty
      /\ u[s].count = t[s].count /\ ~u[s].locked /\ ~u[s].want
  BY UnlockedPut1
<1> QED
  BY <1>2, <1>3

LEMMA PutUnlocked ==
    ASSUME NEW t, NEW d, NEW s, s # d
    PROVE  Put(Unlocked(t, {s}), d) = Unlocked(Put(t, d), {s})
BY DEF Put, Unlocked

\* iread reads the inode.
LEMMA IreadTable ==
    ASSUME TypeOK, Frames, DirsOK, LocksExact, InodesOK, NEW p \in Procs, Iread(p),
           NEW s, s = proc[p].ip
    PROVE  /\ inode' \in [Table -> Inode] /\ Elsewhere({s}) /\ s \in Slots
           /\ inode'[s].ino = inode[s].ino /\ inode'[s].hashed = inode[s].hashed
           /\ inode'[s].mode = dino[inode[s].ino].mode
           /\ inode'[s].nlink = dino[inode[s].ino].nlink
           /\ inode'[s].dirty = inode[s].dirty /\ inode'[s].count = inode[s].count
           /\ inode'[s].locked = inode[s].locked /\ inode'[s].want = inode[s].want
<1>1. proc[p].pc = "iread" /\ inode' = [inode EXCEPT ![s].mode = dino[inode[s].ino].mode,
                     ![s].nlink = dino[inode[s].ino].nlink]
  BY DEF Iread, At
<1>2. s \in Slots /\ s \in Table
  BY <1>1, AtHand
<1>3. inode \in [Table -> Inode]
  BY DEF TypeOK
<1>4. dino[inode[s].ino].mode \in BOOLEAN /\ dino[inode[s].ino].nlink \in Int
  BY <1>1, <1>2, <1>3, Held DEF InodesOK, HandsOK, TypeOK, Dinode
<1>5. inode' \in [Table -> Inode]
  <2> DEFINE m == dino[inode[s].ino].mode
             n == dino[inode[s].ino].nlink
             v == [inode EXCEPT ![s].mode = m]
  <2>1. m \in BOOLEAN /\ n \in Int /\ inode' = [v EXCEPT ![s].nlink = n]
    BY <1>1, <1>4
  <2>2. PICK k \in BOOLEAN : k = m
    BY <2>1
  <2>3. v \in [Table -> Inode]
    <3>1. [inode EXCEPT ![s].mode = k] \in [Table -> Inode]
      BY <1>2, <1>3, SlotSet
    <3> QED BY <2>2, <3>1
  <2> HIDE DEF m, n, v
  <2>4. [v EXCEPT ![s].nlink = n] \in [Table -> Inode]
    BY <1>2, <2>1, <2>3, SlotSet
  <2> QED BY <2>1, <2>4
<1>6. Elsewhere({s})
  BY <1>1, <1>2, <1>3, <1>4 DEF Elsewhere
<1>7. /\ inode'[s].ino = inode[s].ino /\ inode'[s].hashed = inode[s].hashed
      /\ inode'[s].mode = dino[inode[s].ino].mode
      /\ inode'[s].nlink = dino[inode[s].ino].nlink
      /\ inode'[s].dirty = inode[s].dirty /\ inode'[s].count = inode[s].count
      /\ inode'[s].locked = inode[s].locked /\ inode'[s].want = inode[s].want
  <2> DEFINE m == dino[inode[s].ino].mode
             n == dino[inode[s].ino].nlink
             r == inode[s]
  <2>1. inode'[s] = [r EXCEPT !.mode = m, !.nlink = n]
    BY <1>1, <1>2, <1>3
  <2>2. r \in Inode
    BY <1>2, <1>3
  <2> HIDE DEF m, n, r
  <2>3. LET x == [r EXCEPT !.mode = m, !.nlink = n]
        IN /\ x.ino = r.ino /\ x.hashed = r.hashed /\ x.mode = m /\ x.nlink = n
           /\ x.dirty = r.dirty /\ x.count = r.count /\ x.locked = r.locked
           /\ x.want = r.want
    BY <2>2 DEF Inode
  <2> QED BY <2>1, <2>3 DEF m, n, r
<1> QED BY <1>2, <1>5, <1>6, <1>7

\* The inode could not be read.
LEMMA IreadFailsTable ==
    ASSUME TypeOK, Frames, DirsOK, LocksExact, CountsExact, NEW p \in Procs, IreadFails(p),
           NEW s, s = proc[p].ip
    PROVE  /\ inode' \in [Table -> Inode] /\ Elsewhere({s}) /\ s \in Slots
           /\ inode'[s].ino = None /\ ~inode'[s].hashed
           /\ inode'[s].mode = inode[s].mode /\ inode'[s].nlink = inode[s].nlink
           /\ inode'[s].dirty = inode[s].dirty /\ inode'[s].count = inode[s].count
           /\ ~inode'[s].locked /\ ~inode'[s].want
<1> DEFINE u == Unlocked(inode, {s})
<1>1. proc[p].pc = "iread" /\ inode' = [u EXCEPT ![s].hashed = FALSE, ![s].ino = None]
  BY DEF IreadFails, At
<1>2. s \in Slots /\ s \in Table
  BY <1>1, AtHand
<1>3. inode \in [Table -> Inode]
  BY DEF TypeOK
<1>4. None \in Inos
  BY <1>1, <1>2, <1>3, Assumed DEF Inos
<1>5. /\ u \in [Table -> Inode] /\ \A r \in Table \ {s} : u[r] = inode[r]
      /\ u[s].ino = inode[s].ino /\ u[s].hashed = inode[s].hashed
      /\ u[s].mode = inode[s].mode /\ u[s].nlink = inode[s].nlink
      /\ u[s].dirty = inode[s].dirty /\ u[s].count = inode[s].count
      /\ ~u[s].locked /\ ~u[s].want
  <2>1. UnlockedAs(u, inode, s)
    BY <1>2, <1>3, UnlockedKeeps
  <2> HIDE DEF u
  <2> QED BY <2>1 DEF UnlockedAs
<1> HIDE DEF u
<1>6. [u EXCEPT ![s].hashed = FALSE] \in [Table -> Inode]
  BY <1>2, <1>5, SlotSet
<1>7. inode' \in [Table -> Inode]
  <2> DEFINE v == [u EXCEPT ![s].hashed = FALSE]
  <2>1. inode' = [v EXCEPT ![s].ino = None]
    BY <1>1, <1>2, <1>5
  <2> HIDE DEF v
  <2>2. v \in [Table -> Inode]
    BY <1>6 DEF v
  <2> QED BY <1>2, <1>4, <2>1, <2>2, SlotSet
<1>8. Elsewhere({s})
  BY <1>1, <1>2, <1>3, <1>4, <1>5 DEF Elsewhere
<1>9. /\ inode'[s].ino = None /\ ~inode'[s].hashed
      /\ inode'[s].mode = inode[s].mode /\ inode'[s].nlink = inode[s].nlink
      /\ inode'[s].dirty = inode[s].dirty /\ inode'[s].count = inode[s].count
      /\ ~inode'[s].locked /\ ~inode'[s].want
  BY <1>1, <1>2, <1>3, <1>4, <1>5 DEF Inode, SameFile
<1> QED BY <1>2, <1>7, <1>8, <1>9

\* Another reference is left.
LEMMA IreleSharedTable ==
    ASSUME TypeOK, Frames, DirsOK, LocksExact, CountsExact, NEW p \in Procs, IreleShared(p),
           NEW s, s = proc[p].ip
    PROVE  /\ inode' \in [Table -> Inode] /\ Elsewhere({s}) /\ s \in Slots
           /\ SameFile(s) /\ inode'[s].count = inode[s].count - 1
           /\ inode'[s].locked = inode[s].locked /\ inode'[s].want = inode[s].want
<1>1. proc[p].pc = "irele" /\ inode' = [inode EXCEPT ![s].count = @ - 1]
  BY DEF IreleShared, At
<1>2. s \in Slots /\ s \in Table
  BY <1>1, AtHand
<1>3. inode \in [Table -> Inode]
  BY DEF TypeOK
<1>4. inode[s].count - 1 \in Nat
  BY <1>1, <1>2, <1>3, Counted DEF Refs, Inode, IreleShared
<1>5. inode' \in [Table -> Inode]
  BY <1>1, <1>2, <1>3, <1>4 DEF Inode
<1>6. Elsewhere({s})
  BY <1>1, <1>2, <1>3, <1>4 DEF Elsewhere
<1>7. /\ SameFile(s) /\ inode'[s].count = inode[s].count - 1
      /\ inode'[s].locked = inode[s].locked /\ inode'[s].want = inode[s].want
  BY <1>1, <1>2, <1>3, <1>4 DEF Inode, SameFile
<1> QED BY <1>2, <1>5, <1>6, <1>7

\* The last reference goes.
LEMMA IreleLastTable ==
    ASSUME TypeOK, Frames, DirsOK, LocksExact, NEW p \in Procs, IreleLast(p),
           NEW s, s = proc[p].ip
    PROVE  /\ inode' \in [Table -> Inode] /\ Elsewhere({s}) /\ s \in Slots
           /\ SameFile(s) /\ inode'[s].count = inode[s].count /\ inode'[s].locked
           /\ inode'[s].want = inode[s].want
<1>1. proc[p].pc = "irele" /\ inode' = [inode EXCEPT ![s].locked = TRUE]
  BY DEF IreleLast, At
<1>2. s \in Slots /\ s \in Table
  BY <1>1, AtHand
<1>3. inode \in [Table -> Inode]
  BY DEF TypeOK
<1>4. inode' \in [Table -> Inode]
  BY <1>1, <1>2, <1>3, SlotSet
<1>5. Elsewhere({s})
  BY <1>1, <1>2, <1>3 DEF Elsewhere
<1>6. /\ SameFile(s) /\ inode'[s].count = inode[s].count /\ inode'[s].locked
      /\ inode'[s].want = inode[s].want
  BY <1>1, <1>2, <1>3 DEF Inode, SameFile
<1> QED BY <1>2, <1>4, <1>5, <1>6

\* ... to a file without links.
LEMMA IreleUnlinkedTable ==
    ASSUME TypeOK, Frames, DirsOK, LocksExact, NEW p \in Procs, IreleUnlinked(p),
           NEW s, s = proc[p].ip
    PROVE  /\ inode' \in [Table -> Inode] /\ Elsewhere({s}) /\ s \in Slots
           /\ inode'[s].ino = inode[s].ino /\ inode'[s].hashed = inode[s].hashed
           /\ inode'[s].mode = inode[s].mode /\ inode'[s].nlink = inode[s].nlink
           /\ inode'[s].dirty /\ inode'[s].count = inode[s].count
           /\ inode'[s].locked /\ inode'[s].want = inode[s].want
<1>1. proc[p].pc = "irele" /\ inode' = [inode EXCEPT ![s].locked = TRUE, ![s].dirty = TRUE]
  BY DEF IreleUnlinked, At
<1>2. s \in Slots /\ s \in Table
  BY <1>1, AtHand
<1>3. inode \in [Table -> Inode]
  BY DEF TypeOK
<1>4. [inode EXCEPT ![s].locked = TRUE] \in [Table -> Inode]
  BY <1>2, <1>3 DEF Inode
<1>5. inode' \in [Table -> Inode]
  BY <1>1, <1>2, <1>3, <1>4 DEF Inode
<1>6. Elsewhere({s})
  BY <1>1, <1>2, <1>3 DEF Elsewhere
<1>7. /\ inode'[s].ino = inode[s].ino /\ inode'[s].hashed = inode[s].hashed
      /\ inode'[s].mode = inode[s].mode /\ inode'[s].nlink = inode[s].nlink
      /\ inode'[s].dirty /\ inode'[s].count = inode[s].count /\ inode'[s].locked
      /\ inode'[s].want = inode[s].want
  BY <1>1, <1>2, <1>3 DEF Inode, SameFile
<1> QED BY <1>2, <1>5, <1>6, <1>7

\* The file is gone.
LEMMA TruncatedTable ==
    ASSUME TypeOK, Frames, DirsOK, LocksExact, NEW p \in Procs, Truncated(p),
           NEW s, s = proc[p].ip
    PROVE  /\ inode' \in [Table -> Inode] /\ Elsewhere({s}) /\ s \in Slots
           /\ inode'[s].ino = inode[s].ino /\ inode'[s].hashed = inode[s].hashed
           /\ ~inode'[s].mode /\ inode'[s].nlink = inode[s].nlink
           /\ inode'[s].dirty /\ inode'[s].count = inode[s].count
           /\ inode'[s].locked = inode[s].locked /\ inode'[s].want = inode[s].want
<1>1. proc[p].pc = "truncated" /\ inode' = [inode EXCEPT ![s].mode = FALSE, ![s].dirty = TRUE]
  BY DEF Truncated, At
<1>2. s \in Slots /\ s \in Table
  BY <1>1, AtHand
<1>3. inode \in [Table -> Inode]
  BY DEF TypeOK
<1>4. [inode EXCEPT ![s].mode = FALSE] \in [Table -> Inode]
  BY <1>2, <1>3 DEF Inode
<1>5. inode' \in [Table -> Inode]
  BY <1>1, <1>2, <1>3, <1>4 DEF Inode
<1>6. Elsewhere({s})
  BY <1>1, <1>2, <1>3 DEF Elsewhere
<1>7. /\ inode'[s].ino = inode[s].ino /\ inode'[s].hashed = inode[s].hashed
      /\ ~inode'[s].mode /\ inode'[s].nlink = inode[s].nlink /\ inode'[s].dirty
      /\ inode'[s].count = inode[s].count /\ inode'[s].locked = inode[s].locked
      /\ inode'[s].want = inode[s].want
  BY <1>1, <1>2, <1>3 DEF Inode, SameFile
<1> QED BY <1>2, <1>5, <1>6, <1>7

\* The inode is released.
LEMMA ReleaseTable ==
    ASSUME TypeOK, Frames, DirsOK, LocksExact, CountsExact, NEW p \in Procs, Release(p),
           NEW s, s = proc[p].ip
    PROVE  /\ inode' \in [Table -> Inode] /\ Elsewhere({s}) /\ s \in Slots
           /\ inode'[s].ino = inode[s].ino /\ inode'[s].hashed = inode[s].hashed
           /\ inode'[s].mode = inode[s].mode /\ inode'[s].nlink = inode[s].nlink
           /\ ~inode'[s].dirty /\ inode'[s].count = inode[s].count - 1
           /\ ~inode'[s].locked /\ ~inode'[s].want
<1> DEFINE u == Unlocked(inode, {s})
<1>1. proc[p].pc = "release" /\ inode' = [u EXCEPT ![s].dirty = FALSE, ![s].count = @ - 1]
  BY DEF Release, At
<1>2. s \in Slots /\ s \in Table
  BY <1>1, AtHand
<1>3. inode \in [Table -> Inode]
  BY DEF TypeOK
<1>4. inode[s].count - 1 \in Nat
  BY <1>1, <1>2, <1>3, Counted DEF Refs, Inode
<1>5. /\ u \in [Table -> Inode] /\ \A r \in Table \ {s} : u[r] = inode[r]
      /\ u[s].ino = inode[s].ino /\ u[s].hashed = inode[s].hashed
      /\ u[s].mode = inode[s].mode /\ u[s].nlink = inode[s].nlink
      /\ u[s].dirty = inode[s].dirty /\ u[s].count = inode[s].count
      /\ ~u[s].locked /\ ~u[s].want
  <2>1. UnlockedAs(u, inode, s)
    BY <1>2, <1>3, UnlockedKeeps
  <2> HIDE DEF u
  <2> QED BY <2>1 DEF UnlockedAs
<1> HIDE DEF u
<1>6. [u EXCEPT ![s].dirty = FALSE] \in [Table -> Inode]
  BY <1>2, <1>5, SlotSet
<1>7. inode' \in [Table -> Inode]
  <2> DEFINE v == [u EXCEPT ![s].dirty = FALSE]
  <2>1. inode' = [v EXCEPT ![s].count = v[s].count - 1]
    BY <1>1, <1>2, <1>5
  <2> HIDE DEF v
  <2>2. v \in [Table -> Inode]
    BY <1>6 DEF v
  <2>3. v[s].count = inode[s].count
    BY <1>2, <1>5 DEF v
  <2>4. v[s].count - 1 \in Nat
    BY <1>4, <2>3
  <2> QED BY <1>2, <2>1, <2>2, <2>4, SlotSet
<1>8. Elsewhere({s})
  BY <1>1, <1>2, <1>3, <1>4, <1>5 DEF Elsewhere
<1>9. /\ inode'[s].ino = inode[s].ino /\ inode'[s].hashed = inode[s].hashed
      /\ inode'[s].mode = inode[s].mode /\ inode'[s].nlink = inode[s].nlink
      /\ ~inode'[s].dirty /\ inode'[s].count = inode[s].count - 1
      /\ ~inode'[s].locked /\ ~inode'[s].want
  BY <1>1, <1>2, <1>3, <1>4, <1>5 DEF Inode, SameFile
<1> QED BY <1>2, <1>7, <1>8, <1>9

\* The inode goes to its block.
LEMMA IupdatTable ==
    ASSUME TypeOK, Frames, DirsOK, LocksExact, NEW p \in Procs, Iupdat(p),
           NEW s, s = proc[p].ip
    PROVE  /\ inode' \in [Table -> Inode] /\ Elsewhere({s}) /\ s \in Slots
           /\ inode'[s].ino = inode[s].ino /\ inode'[s].hashed = inode[s].hashed
           /\ inode'[s].mode = inode[s].mode /\ inode'[s].nlink = inode[s].nlink
           /\ ~inode'[s].dirty /\ inode'[s].count = inode[s].count
           /\ inode'[s].locked = inode[s].locked /\ inode'[s].want = inode[s].want
<1>1. proc[p].pc = "iupdat" /\ inode' = [inode EXCEPT ![s].dirty = FALSE]
  BY DEF Iupdat, At
<1>2. s \in Slots /\ s \in Table
  BY <1>1, AtHand
<1>3. inode \in [Table -> Inode]
  BY DEF TypeOK
<1>4. inode' \in [Table -> Inode]
  BY <1>1, <1>2, <1>3, SlotSet
<1>5. Elsewhere({s})
  BY <1>1, <1>2, <1>3 DEF Elsewhere
<1>6. /\ inode'[s].ino = inode[s].ino /\ inode'[s].hashed = inode[s].hashed
      /\ inode'[s].mode = inode[s].mode /\ inode'[s].nlink = inode[s].nlink
      /\ ~inode'[s].dirty /\ inode'[s].count = inode[s].count
      /\ inode'[s].locked = inode[s].locked /\ inode'[s].want = inode[s].want
  BY <1>1, <1>2, <1>3 DEF Inode, SameFile
<1> QED BY <1>2, <1>4, <1>5, <1>6

\* An old file is truncated.
LEMMA OpenedOldTable ==
    ASSUME TypeOK, Frames, DirsOK, LocksExact, NEW p \in Procs, OpenedOld(p),
           NEW s, s = proc[p].ip
    PROVE  /\ inode' \in [Table -> Inode] /\ Elsewhere({s}) /\ s \in Slots
           /\ inode'[s].ino = inode[s].ino /\ inode'[s].hashed = inode[s].hashed
           /\ inode'[s].mode = inode[s].mode /\ inode'[s].nlink = inode[s].nlink
           /\ inode'[s].dirty /\ inode'[s].count = inode[s].count
           /\ inode'[s].locked = inode[s].locked /\ inode'[s].want = inode[s].want
<1>1. proc[p].pc = "opened" /\ inode' = [inode EXCEPT ![s].dirty = TRUE]
  BY DEF OpenedOld, At
<1>2. s \in Slots /\ s \in Table
  BY <1>1, AtHand
<1>3. inode \in [Table -> Inode]
  BY DEF TypeOK
<1>4. inode' \in [Table -> Inode]
  BY <1>1, <1>2, <1>3, SlotSet
<1>5. Elsewhere({s})
  BY <1>1, <1>2, <1>3 DEF Elsewhere
<1>6. /\ inode'[s].ino = inode[s].ino /\ inode'[s].hashed = inode[s].hashed
      /\ inode'[s].mode = inode[s].mode /\ inode'[s].nlink = inode[s].nlink
      /\ inode'[s].dirty /\ inode'[s].count = inode[s].count
      /\ inode'[s].locked = inode[s].locked /\ inode'[s].want = inode[s].want
  BY <1>1, <1>2, <1>3 DEF Inode, SameFile
<1> QED BY <1>2, <1>4, <1>5, <1>6

\* A new file.
LEMMA GotNewTable ==
    ASSUME TypeOK, Frames, DirsOK, LocksExact, NEW p \in Procs, GotNew(p),
           NEW s, s = proc[p].ip
    PROVE  /\ inode' \in [Table -> Inode] /\ Elsewhere({s}) /\ s \in Slots
           /\ inode'[s].ino = inode[s].ino /\ inode'[s].hashed = inode[s].hashed
           /\ inode'[s].mode /\ inode'[s].nlink = 1 /\ inode'[s].dirty
           /\ inode'[s].count = inode[s].count
           /\ inode'[s].locked = inode[s].locked /\ inode'[s].want = inode[s].want
<1>1. proc[p].pc = "got" /\ inode' = [inode EXCEPT ![s] = [@ EXCEPT !.mode = TRUE, !.nlink = 1, !.dirty = TRUE]]
  BY DEF GotNew, At
<1>2. s \in Slots /\ s \in Table
  BY <1>1, AtHand
<1>3. inode \in [Table -> Inode]
  BY DEF TypeOK
<1>4. \A x \in Inode : [x EXCEPT !.mode = TRUE, !.nlink = 1, !.dirty = TRUE] \in Inode
  BY MadeType
<1>5. inode' \in [Table -> Inode]
  BY <1>1, <1>2, <1>3, <1>4
<1>6. Elsewhere({s})
  BY <1>1, <1>2, <1>3 DEF Elsewhere
<1>7. /\ inode'[s].ino = inode[s].ino /\ inode'[s].hashed = inode[s].hashed
      /\ inode'[s].mode /\ inode'[s].nlink = 1 /\ inode'[s].dirty
      /\ inode'[s].count = inode[s].count /\ inode'[s].locked = inode[s].locked
      /\ inode'[s].want = inode[s].want
  BY <1>1, <1>2, <1>3 DEF Inode, SameFile
<1> QED BY <1>2, <1>5, <1>6, <1>7

\* The inode is unlocked.
LEMMA IputTable ==
    ASSUME TypeOK, Frames, DirsOK, LocksExact, NEW p \in Procs, Iput(p),
           NEW s, s = proc[p].ip
    PROVE  /\ inode' \in [Table -> Inode] /\ Elsewhere({s}) /\ s \in Slots
           /\ SameFile(s) /\ inode'[s].count = inode[s].count /\ ~inode'[s].locked
           /\ ~inode'[s].want
<1> DEFINE u == Unlocked(inode, {s})
<1>1. proc[p].pc = "iput" /\ inode' = u
  BY DEF Iput, At
<1>2. s \in Slots /\ s \in Table
  BY <1>1, AtHand
<1>3. inode \in [Table -> Inode]
  BY DEF TypeOK
<1>4. /\ u \in [Table -> Inode] /\ \A r \in Table \ {s} : u[r] = inode[r]
      /\ u[s].ino = inode[s].ino /\ u[s].hashed = inode[s].hashed
      /\ u[s].mode = inode[s].mode /\ u[s].nlink = inode[s].nlink
      /\ u[s].dirty = inode[s].dirty /\ u[s].count = inode[s].count
      /\ ~u[s].locked /\ ~u[s].want
  <2>1. UnlockedAs(u, inode, s)
    BY <1>2, <1>3, UnlockedKeeps
  <2> HIDE DEF u
  <2> QED BY <2>1 DEF UnlockedAs
<1> HIDE DEF u
<1>5. inode' \in [Table -> Inode]
  BY <1>1, <1>2, <1>3, <1>4 DEF Inode
<1>6. Elsewhere({s})
  BY <1>1, <1>2, <1>3, <1>4 DEF Elsewhere
<1>7. /\ SameFile(s) /\ inode'[s].count = inode[s].count /\ ~inode'[s].locked
      /\ ~inode'[s].want
  BY <1>1, <1>2, <1>3, <1>4 DEF Inode, SameFile
<1> QED BY <1>2, <1>5, <1>6, <1>7

\* The inode is unlocked.
LEMMA GrantedTable ==
    ASSUME TypeOK, Frames, DirsOK, LocksExact, NEW p \in Procs, Granted(p),
           NEW s, s = proc[p].ip
    PROVE  /\ inode' \in [Table -> Inode] /\ Elsewhere({s}) /\ s \in Slots
           /\ SameFile(s) /\ inode'[s].count = inode[s].count /\ ~inode'[s].locked
           /\ ~inode'[s].want
<1> DEFINE u == Unlocked(inode, {s})
<1>1. proc[p].pc = "granted" /\ inode' = u
  BY DEF Granted, At
<1>2. s \in Slots /\ s \in Table
  BY <1>1, AtHand
<1>3. inode \in [Table -> Inode]
  BY DEF TypeOK
<1>4. /\ u \in [Table -> Inode] /\ \A r \in Table \ {s} : u[r] = inode[r]
      /\ u[s].ino = inode[s].ino /\ u[s].hashed = inode[s].hashed
      /\ u[s].mode = inode[s].mode /\ u[s].nlink = inode[s].nlink
      /\ u[s].dirty = inode[s].dirty /\ u[s].count = inode[s].count
      /\ ~u[s].locked /\ ~u[s].want
  <2>1. UnlockedAs(u, inode, s)
    BY <1>2, <1>3, UnlockedKeeps
  <2> HIDE DEF u
  <2> QED BY <2>1 DEF UnlockedAs
<1> HIDE DEF u
<1>5. inode' \in [Table -> Inode]
  BY <1>1, <1>2, <1>3, <1>4 DEF Inode
<1>6. Elsewhere({s})
  BY <1>1, <1>2, <1>3, <1>4 DEF Elsewhere
<1>7. /\ SameFile(s) /\ inode'[s].count = inode[s].count /\ ~inode'[s].locked
      /\ ~inode'[s].want
  BY <1>1, <1>2, <1>3, <1>4 DEF Inode, SameFile
<1> QED BY <1>2, <1>5, <1>6, <1>7

\* The inode is unlocked.
LEMMA LinkedTable ==
    ASSUME TypeOK, Frames, DirsOK, LocksExact, NEW p \in Procs, Linked(p),
           NEW s, s = proc[p].ip
    PROVE  /\ inode' \in [Table -> Inode] /\ Elsewhere({s}) /\ s \in Slots
           /\ SameFile(s) /\ inode'[s].count = inode[s].count /\ ~inode'[s].locked
           /\ ~inode'[s].want
<1> DEFINE u == Unlocked(inode, {s})
<1>1. proc[p].pc = "linked" /\ inode' = u
  BY DEF Linked, At
<1>2. s \in Slots /\ s \in Table
  BY <1>1, AtHand
<1>3. inode \in [Table -> Inode]
  BY DEF TypeOK
<1>4. /\ u \in [Table -> Inode] /\ \A r \in Table \ {s} : u[r] = inode[r]
      /\ u[s].ino = inode[s].ino /\ u[s].hashed = inode[s].hashed
      /\ u[s].mode = inode[s].mode /\ u[s].nlink = inode[s].nlink
      /\ u[s].dirty = inode[s].dirty /\ u[s].count = inode[s].count
      /\ ~u[s].locked /\ ~u[s].want
  <2>1. UnlockedAs(u, inode, s)
    BY <1>2, <1>3, UnlockedKeeps
  <2> HIDE DEF u
  <2> QED BY <2>1 DEF UnlockedAs
<1> HIDE DEF u
<1>5. inode' \in [Table -> Inode]
  BY <1>1, <1>2, <1>3, <1>4 DEF Inode
<1>6. Elsewhere({s})
  BY <1>1, <1>2, <1>3, <1>4 DEF Elsewhere
<1>7. /\ SameFile(s) /\ inode'[s].count = inode[s].count /\ ~inode'[s].locked
      /\ ~inode'[s].want
  BY <1>1, <1>2, <1>3, <1>4 DEF Inode, SameFile
<1> QED BY <1>2, <1>5, <1>6, <1>7

\* The inode of a file, or of a directory, is locked and referred to.
LEMMA AcquiredTable ==
    ASSUME TypeOK, NEW s \in Table,
           inode' = [inode EXCEPT ![s].locked = TRUE, ![s].count = @ + 1]
              \/ inode' = [inode EXCEPT ![s].count = @ + 1, ![s].locked = TRUE]
    PROVE  /\ inode' \in [Table -> Inode] /\ Elsewhere({s})
           /\ SameFile(s) /\ inode'[s].count = inode[s].count + 1
           /\ inode'[s].locked /\ inode'[s].want = inode[s].want
<1>1. inode \in [Table -> Inode]
  BY DEF TypeOK
<1>2. CASE inode' = [inode EXCEPT ![s].locked = TRUE, ![s].count = @ + 1]
  <2> DEFINE v == [inode EXCEPT ![s].locked = TRUE]
  <2>1. v \in [Table -> Inode]
    BY <1>1, FieldsSet
  <2>2. inode' = [v EXCEPT ![s].count = @ + 1]
    BY <1>2
  <2> HIDE DEF v
  <2>3. inode' \in [Table -> Inode]
    BY <2>1, <2>2 DEF Inode
  <2>4. Elsewhere({s})
    BY <1>1, <1>2 DEF Elsewhere
  <2>5. /\ SameFile(s) /\ inode'[s].count = inode[s].count + 1
        /\ inode'[s].locked /\ inode'[s].want = inode[s].want
    BY <1>1, <1>2 DEF Inode, SameFile
  <2> QED BY <2>3, <2>4, <2>5
<1>3. CASE inode' = [inode EXCEPT ![s].count = @ + 1, ![s].locked = TRUE]
  <2> DEFINE v == [inode EXCEPT ![s].count = @ + 1]
  <2>1. v \in [Table -> Inode]
    BY <1>1 DEF Inode
  <2>2. inode' = [v EXCEPT ![s].locked = TRUE]
    BY <1>3
  <2> HIDE DEF v
  <2>3. inode' \in [Table -> Inode]
    BY <2>1, <2>2, SlotSet
  <2>4. Elsewhere({s})
    BY <1>1, <1>3 DEF Elsewhere
  <2>5. /\ SameFile(s) /\ inode'[s].count = inode[s].count + 1
        /\ inode'[s].locked /\ inode'[s].want = inode[s].want
    BY <1>1, <1>3 DEF Inode, SameFile
  <2> QED BY <2>3, <2>4, <2>5
<1> QED BY <1>2, <1>3

\* A process waits for an inode.
LEMMA SleepOnTable ==
    ASSUME TypeOK, NEW p \in Procs, NEW s \in Table, SleepOn(p, s)
    PROVE  /\ inode' \in [Table -> Inode] /\ Elsewhere({s})
           /\ SameFile(s) /\ inode'[s].count = inode[s].count
           /\ inode'[s].locked = inode[s].locked /\ inode'[s].want
<1>1. inode \in [Table -> Inode] /\ inode' = [inode EXCEPT ![s].want = TRUE]
  BY DEF TypeOK, SleepOn
<1>2. inode' \in [Table -> Inode]
  BY <1>1 DEF Inode
<1>3. Elsewhere({s})
  BY <1>1 DEF Elsewhere
<1>4. /\ SameFile(s) /\ inode'[s].count = inode[s].count
      /\ inode'[s].locked = inode[s].locked /\ inode'[s].want
  BY <1>1 DEF Inode, SameFile
<1> QED BY <1>2, <1>3, <1>4

\* iput of the directory.
LEMMA PutTable ==
    ASSUME TypeOK, Frames, DirsOK, LocksExact, NEW p \in Procs,
           proc[p].pc \in {"got", "null", "ialloccg", "ifreeino", "direnter", "dirwrite",
                           "undir"},
           NEW d, d = Dir(p), inode' = Put(inode, d)
    PROVE  /\ inode' \in [Table -> Inode] /\ Elsewhere({d}) /\ d \in Dirs
           /\ SameFile(d) /\ inode[d].count = 2 /\ inode'[d].count = 1
           /\ ~inode'[d].locked /\ ~inode'[d].want
<1>1. d \in Dirs /\ d \in Table /\ inode[d].count = 2
  BY AtHand
<1>2. inode \in [Table -> Inode]
  BY DEF TypeOK
<1>3. inode' \in [Table -> Inode]
  BY <1>1, <1>2, PutType
<1> QED
  BY <1>1, <1>2, <1>3, PutFields DEF SameFile, Elsewhere

\* link counts the new link.
LEMMA GotLinkTable ==
    ASSUME TypeOK, Frames, DirsOK, LocksExact, NEW p \in Procs, GotLink(p),
           NEW s, s = proc[p].ip, NEW d, d = Dir(p)
    PROVE  /\ inode' \in [Table -> Inode] /\ Elsewhere({s, d}) /\ s \in Slots
           /\ d \in Dirs
           /\ inode'[s].ino = inode[s].ino /\ inode'[s].hashed = inode[s].hashed
           /\ inode'[s].mode = inode[s].mode
           /\ inode'[s].nlink = inode[s].nlink + 1 /\ inode'[s].dirty
           /\ inode'[s].count = inode[s].count
           /\ inode'[s].locked = inode[s].locked /\ inode'[s].want = inode[s].want
           /\ SameFile(d) /\ inode'[d].count = 1 /\ ~inode'[d].locked
           /\ ~inode'[d].want
<1> DEFINE u == Put(inode, d)
<1>1. proc[p].pc = "got" /\ inode' = [u EXCEPT ![s].nlink = @ + 1, ![s].dirty = TRUE]
  BY DEF GotLink, At, Put, Unlocked
<1>2. s \in Slots /\ d \in Dirs /\ s \in Table /\ d \in Table /\ s # d /\ inode[d].count = 2
  BY <1>1, AtHand
<1>3. inode \in [Table -> Inode]
  BY DEF TypeOK
<1>4. /\ u \in [Table -> Inode] /\ \A r \in Table \ {d} : u[r] = inode[r]
      /\ u[d].ino = inode[d].ino /\ u[d].hashed = inode[d].hashed
      /\ u[d].mode = inode[d].mode /\ u[d].nlink = inode[d].nlink
      /\ u[d].dirty = inode[d].dirty /\ u[d].count = 1 /\ ~u[d].locked
      /\ ~u[d].want
  BY <1>2, <1>3, PutFields
<1> HIDE DEF u
<1>5. [u EXCEPT ![s].nlink = @ + 1] \in [Table -> Inode]
  <2>1. u[s].nlink + 1 \in Int
    BY <1>2, <1>4, SlotSet
  <2>2. [u EXCEPT ![s].nlink = @ + 1] = [u EXCEPT ![s].nlink = u[s].nlink + 1]
    OBVIOUS
  <2> QED BY <1>2, <1>4, <2>1, <2>2, SlotSet
<1>6. inode' \in [Table -> Inode]
  <2> DEFINE v == [u EXCEPT ![s].nlink = @ + 1]
  <2>1. inode' = [v EXCEPT ![s].dirty = TRUE]
    BY <1>1, <1>2, <1>4
  <2> HIDE DEF v
  <2>2. v \in [Table -> Inode]
    BY <1>5 DEF v
  <2> QED BY <1>2, <2>1, <2>2, SlotSet
<1>7. Elsewhere({s, d})
  BY <1>1, <1>2, <1>3, <1>4 DEF Elsewhere
<1>8. /\ inode'[s].ino = inode[s].ino /\ inode'[s].hashed = inode[s].hashed
      /\ inode'[s].mode = inode[s].mode /\ inode'[s].nlink = inode[s].nlink + 1
      /\ inode'[s].dirty /\ inode'[s].count = inode[s].count
      /\ inode'[s].locked = inode[s].locked /\ inode'[s].want = inode[s].want
  BY <1>1, <1>2, <1>3, <1>4 DEF Inode, SameFile
<1>9. /\ SameFile(d) /\ inode'[d].count = 1 /\ ~inode'[d].locked
      /\ ~inode'[d].want
  BY <1>1, <1>2, <1>3, <1>4 DEF Inode, SameFile
<1> QED BY <1>2, <1>6, <1>7, <1>8, <1>9

\* The name is gone.
LEMMA DirremoveDoneTable ==
    ASSUME TypeOK, Frames, DirsOK, LocksExact, NEW p \in Procs, DirremoveDone(p),
           NEW s, s = proc[p].ip
    PROVE  /\ inode' \in [Table -> Inode] /\ Elsewhere({s}) /\ s \in Slots
           /\ inode'[s].ino = inode[s].ino /\ inode'[s].hashed = inode[s].hashed
           /\ inode'[s].mode = inode[s].mode
           /\ inode'[s].nlink = inode[s].nlink - 1 /\ inode'[s].dirty
           /\ inode'[s].count = inode[s].count /\ ~inode'[s].locked
           /\ ~inode'[s].want
<1> DEFINE u == Unlocked(inode, {s})
<1>1. proc[p].pc = "dirwrite" /\ proc[p].op # "enter" /\ inode' = [u EXCEPT ![s].nlink = @ - 1, ![s].dirty = TRUE]
  BY DEF DirremoveDone, Dirwrite, At
<1>2. s \in Slots /\ s \in Table
  BY <1>1, AtHand
<1>3. inode \in [Table -> Inode]
  BY DEF TypeOK
<1>4. /\ u \in [Table -> Inode] /\ \A r \in Table \ {s} : u[r] = inode[r]
      /\ u[s].ino = inode[s].ino /\ u[s].hashed = inode[s].hashed
      /\ u[s].mode = inode[s].mode /\ u[s].nlink = inode[s].nlink
      /\ u[s].dirty = inode[s].dirty /\ u[s].count = inode[s].count
      /\ ~u[s].locked /\ ~u[s].want
  <2>1. UnlockedAs(u, inode, s)
    BY <1>2, <1>3, UnlockedKeeps
  <2> HIDE DEF u
  <2> QED BY <2>1 DEF UnlockedAs
<1> HIDE DEF u
<1>5. PICK n \in Int : n = u[s].nlink - 1
  BY <1>2, <1>4, SlotSet
<1>6. inode' \in [Table -> Inode]
  <2> DEFINE v == [u EXCEPT ![s].nlink = n]
  <2>1. inode' = [v EXCEPT ![s].dirty = TRUE]
    BY <1>1, <1>5
  <2>2. v \in [Table -> Inode]
    BY <1>2, <1>4, SlotSet
  <2> HIDE DEF v
  <2>3. [v EXCEPT ![s].dirty = TRUE] \in [Table -> Inode]
    BY <1>2, <2>2, SlotSet
  <2> QED BY <2>1, <2>3
<1>7. Elsewhere({s})
  BY <1>1, <1>2, <1>3, <1>4 DEF Elsewhere
<1>8. /\ inode'[s].ino = inode[s].ino /\ inode'[s].hashed = inode[s].hashed
      /\ inode'[s].mode = inode[s].mode /\ inode'[s].nlink = inode[s].nlink - 1
      /\ inode'[s].dirty /\ inode'[s].count = inode[s].count /\ ~inode'[s].locked
      /\ ~inode'[s].want
  BY <1>1, <1>2, <1>3, <1>4 DEF Inode, SameFile
<1> QED BY <1>2, <1>6, <1>7, <1>8

\* The second name of link exists.
LEMMA GotExistingTable ==
    ASSUME TypeOK, Frames, DirsOK, LocksExact, NEW p \in Procs, GotExisting(p),
           NEW s, s = proc[p].ip, NEW d, d = Dir(p)
    PROVE  /\ inode' \in [Table -> Inode] /\ Elsewhere({s, d}) /\ s \in Slots /\ d \in Dirs
           /\ SameFile(s) /\ inode'[s].count = inode[s].count
           /\ ~inode'[s].locked /\ ~inode'[s].want
           /\ SameFile(d) /\ inode'[d].count = 1 /\ ~inode'[d].locked /\ ~inode'[d].want
<1> DEFINE v == Put(inode, d)  u == Unlocked(v, {s})
<1>1. proc[p].pc = "got"
      /\ inode' = u
  BY DEF GotExisting, At
<1>2. s \in Slots /\ d \in Dirs /\ s \in Table /\ d \in Table /\ s # d /\ inode[d].count = 2
  BY <1>1, AtHand
<1>3. inode \in [Table -> Inode]
  BY DEF TypeOK
<1>4. /\ v \in [Table -> Inode] /\ \A r \in Table \ {d} : v[r] = inode[r]
      /\ v[d].ino = inode[d].ino /\ v[d].hashed = inode[d].hashed
      /\ v[d].mode = inode[d].mode /\ v[d].nlink = inode[d].nlink
      /\ v[d].dirty = inode[d].dirty
      /\ v[d].count = 1 /\ ~v[d].locked /\ ~v[d].want
  BY <1>2, <1>3, PutFields
<1> HIDE DEF v
<1>5. /\ u \in [Table -> Inode] /\ \A r \in Table \ {s} : u[r] = v[r]
      /\ u[s].ino = v[s].ino /\ u[s].hashed = v[s].hashed
      /\ u[s].mode = v[s].mode /\ u[s].nlink = v[s].nlink
      /\ u[s].dirty = v[s].dirty
      /\ u[s].count = v[s].count /\ ~u[s].locked /\ ~u[s].want
  <2>1. v \in [Table -> Inode]
    BY <1>4
  <2>2. s \in Table
    BY <1>2
  <2>3. UnlockedAs(u, v, s)
    BY <2>1, <2>2, UnlockedKeeps
  <2> HIDE DEF u
  <2> QED BY <2>3 DEF UnlockedAs
<1>6. inode' = u
  BY <1>1
<1> HIDE DEF u
<1>7. inode' \in [Table -> Inode] /\ Elsewhere({s, d})
  BY <1>2, <1>4, <1>5, <1>6 DEF Elsewhere
<1>8. SameFile(s) /\ inode'[s].count = inode[s].count /\ ~inode'[s].locked /\ ~inode'[s].want
  BY <1>2, <1>4, <1>5, <1>6 DEF SameFile
<1>9. SameFile(d) /\ inode'[d].count = 1 /\ ~inode'[d].locked /\ ~inode'[d].want
  BY <1>2, <1>4, <1>5, <1>6 DEF SameFile
<1> QED BY <1>2, <1>7, <1>8, <1>9

\* maknode deallocates its inode.
LEMMA MakeFailsTable ==
    ASSUME TypeOK, Frames, DirsOK, LocksExact, NEW p \in Procs, MakeFails(p),
           NEW s, s = proc[p].ip, NEW d, d = Dir(p)
    PROVE  /\ inode' \in [Table -> Inode] /\ Elsewhere({s, d}) /\ s \in Slots /\ d \in Dirs
           /\ inode'[s].ino = inode[s].ino /\ inode'[s].hashed = inode[s].hashed
           /\ inode'[s].mode = inode[s].mode /\ inode'[s].nlink = 0 /\ inode'[s].dirty
           /\ inode'[s].count = inode[s].count /\ ~inode'[s].locked /\ ~inode'[s].want
           /\ SameFile(d) /\ inode'[d].count = 1 /\ ~inode'[d].locked /\ ~inode'[d].want
<1> DEFINE v == Put(inode, d)  u == Unlocked(v, {s})
<1>1. proc[p].pc = "direnter" /\ proc[p].op # "enter"
      /\ inode' = [u EXCEPT ![s].nlink = 0, ![s].dirty = TRUE]
  BY DEF MakeFails, At, DirenterFails
<1>2. s \in Slots /\ d \in Dirs /\ s \in Table /\ d \in Table /\ s # d /\ inode[d].count = 2
  BY <1>1, AtHand
<1>3. inode \in [Table -> Inode]
  BY DEF TypeOK
<1>4. /\ v \in [Table -> Inode] /\ \A r \in Table \ {d} : v[r] = inode[r]
      /\ v[d].ino = inode[d].ino /\ v[d].hashed = inode[d].hashed
      /\ v[d].mode = inode[d].mode /\ v[d].nlink = inode[d].nlink
      /\ v[d].dirty = inode[d].dirty
      /\ v[d].count = 1 /\ ~v[d].locked /\ ~v[d].want
  BY <1>2, <1>3, PutFields
<1> HIDE DEF v
<1>5. /\ u \in [Table -> Inode] /\ \A r \in Table \ {s} : u[r] = v[r]
      /\ u[s].ino = v[s].ino /\ u[s].hashed = v[s].hashed
      /\ u[s].mode = v[s].mode /\ u[s].nlink = v[s].nlink
      /\ u[s].dirty = v[s].dirty
      /\ u[s].count = v[s].count /\ ~u[s].locked /\ ~u[s].want
  <2>1. v \in [Table -> Inode]
    BY <1>4
  <2>2. s \in Table
    BY <1>2
  <2>3. UnlockedAs(u, v, s)
    BY <2>1, <2>2, UnlockedKeeps
  <2> HIDE DEF u
  <2> QED BY <2>3 DEF UnlockedAs
<1>6. inode' = [u EXCEPT ![s].nlink = 0, ![s].dirty = TRUE]
  BY <1>1
<1> HIDE DEF u
<1>7. [u EXCEPT ![s].nlink = 0] \in [Table -> Inode]
  <2>1. 0 \in Int
    OBVIOUS
  <2> QED BY <1>2, <1>5, <2>1, SlotSet
<1>8. inode' \in [Table -> Inode]
  <2> DEFINE w == [u EXCEPT ![s].nlink = 0]
  <2>1. inode' = [w EXCEPT ![s].dirty = TRUE]
    BY <1>6
  <2> HIDE DEF w
  <2>2. w \in [Table -> Inode]
    BY <1>7 DEF w
  <2> QED BY <1>2, <2>1, <2>2, SlotSet
<1>9. \A r \in Table \ {s} : inode'[r] = u[r]
  BY <1>2, <1>5, <1>6
<1>10. Elsewhere({s, d})
  BY <1>4, <1>5, <1>9 DEF Elsewhere
<1>11. /\ inode'[s].ino = u[s].ino /\ inode'[s].hashed = u[s].hashed
       /\ inode'[s].mode = u[s].mode /\ inode'[s].nlink = 0 /\ inode'[s].dirty
       /\ inode'[s].count = u[s].count /\ ~inode'[s].locked /\ ~inode'[s].want
  BY <1>2, <1>5, <1>6 DEF Inode
<1>12. /\ inode'[s].ino = inode[s].ino /\ inode'[s].hashed = inode[s].hashed
       /\ inode'[s].mode = inode[s].mode /\ inode'[s].nlink = 0 /\ inode'[s].dirty
       /\ inode'[s].count = inode[s].count /\ ~inode'[s].locked /\ ~inode'[s].want
  BY <1>2, <1>4, <1>5, <1>11
<1>13. SameFile(d) /\ inode'[d].count = 1 /\ ~inode'[d].locked /\ ~inode'[d].want
  BY <1>2, <1>4, <1>5, <1>9 DEF SameFile
<1> QED BY <1>2, <1>8, <1>10, <1>12, <1>13

\* A file takes the slot at the head of the free list.
LEMMA IgetMissTable ==
    ASSUME TypeOK, Frames, NEW p \in Procs, IgetMiss(p), NEW s, s = Head(freelist)
    PROVE  /\ inode' \in [Table -> Inode] /\ Elsewhere({s}) /\ s \in Slots
           /\ inode'[s].ino = proc[p].ino /\ inode'[s].hashed
           /\ inode'[s].mode = inode[s].mode /\ inode'[s].nlink = inode[s].nlink
           /\ ~inode'[s].dirty /\ inode'[s].count = inode[s].count + 1
           /\ inode'[s].locked /\ ~inode'[s].want
<1> DEFINE i == proc[p].ino
           y == [inode[s] EXCEPT !.hashed = TRUE, !.ino = i, !.locked = TRUE,
                                 !.want = FALSE, !.dirty = FALSE,
                                 !.count = inode[s].count + 1]
<1>1. inode' = [inode EXCEPT ![s] = y]
  BY DEF IgetMiss
<1>2. s \in Slots /\ s \in Table /\ inode[s] \in Inode /\ inode \in [Table -> Inode]
  <2>1. freelist \in Seq(Slots) /\ freelist # <<>> /\ inode \in [Table -> Inode]
    BY DEF TypeOK, IgetMiss
  <2>2. s \in Slots
    BY <2>1
  <2> QED BY <2>1, <2>2 DEF Table
<1>3. y \in Inode
  BY <1>2, Held, FetchedType
<1>4. /\ y.ino = i /\ y.hashed /\ y.mode = inode[s].mode /\ y.nlink = inode[s].nlink
      /\ ~y.dirty /\ y.count = inode[s].count + 1 /\ y.locked /\ ~y.want
  BY <1>2 DEF Inode
<1>5. inode'[s] = y
  BY <1>1, <1>2
<1>6. Elsewhere({s}) /\ inode' = [r \in Table |-> inode'[r]]
  BY <1>1, <1>2 DEF Elsewhere
<1> HIDE DEF y
<1>7. inode' \in [Table -> Inode]
  BY <1>2, <1>3, <1>5, <1>6 DEF Elsewhere
<1> QED BY <1>2, <1>4, <1>5, <1>6, <1>7

\* The directory could not be read, and unlink may take the name for gone.
LEMMA DirremoveFailsTable ==
    ASSUME TypeOK, Frames, DirsOK, LocksExact, NEW p \in Procs, DirremoveFails(p),
           NEW s, s = proc[p].ip
    PROVE  /\ inode' \in [Table -> Inode] /\ Elsewhere({s}) /\ s \in Slots
           /\ inode'[s].ino = inode[s].ino /\ inode'[s].hashed = inode[s].hashed
           /\ inode'[s].mode = inode[s].mode /\ inode'[s].count = inode[s].count
           /\ ~inode'[s].locked /\ ~inode'[s].want
<1> DEFINE u == Unlocked(inode, {s})
<1>1. PICK n \in {0, 1} :
        inode' = [u EXCEPT ![s].nlink = @ - n, ![s].dirty = @ \/ n = 1]
  BY DEF DirremoveFails
<1>2. proc[p].pc = "dirremove"
  BY DEF DirremoveFails, At
<1>3. s \in Slots /\ s \in Table /\ inode \in [Table -> Inode]
  BY <1>2, AtHand DEF TypeOK
<1>4. /\ u \in [Table -> Inode] /\ \A r \in Table \ {s} : u[r] = inode[r]
      /\ u[s].ino = inode[s].ino /\ u[s].hashed = inode[s].hashed
      /\ u[s].mode = inode[s].mode /\ u[s].nlink = inode[s].nlink
      /\ u[s].dirty = inode[s].dirty /\ u[s].count = inode[s].count
      /\ ~u[s].locked /\ ~u[s].want
  <2>1. UnlockedAs(u, inode, s)
    BY <1>3, UnlockedKeeps
  <2> HIDE DEF u
  <2> QED BY <2>1 DEF UnlockedAs
<1> HIDE DEF u
<1>5. PICK k \in Int, d \in BOOLEAN : k = u[s].nlink - n /\ d = (u[s].dirty \/ n = 1)
  <2>1. u[s].nlink \in Int /\ n \in Int
    BY <1>3, <1>4, SlotSet
  <2>2. u[s].nlink - n \in Int
    BY <2>1
  <2>3. (u[s].dirty \/ n = 1) \in BOOLEAN
    OBVIOUS
  <2> QED BY <2>2, <2>3
<1>6. inode' \in [Table -> Inode]
  <2> DEFINE v == [u EXCEPT ![s].nlink = k]
  <2>1. inode' = [v EXCEPT ![s].dirty = d]
    BY <1>1, <1>5
  <2>2. v \in [Table -> Inode]
    BY <1>3, <1>4, SlotSet
  <2> HIDE DEF v
  <2>3. [v EXCEPT ![s].dirty = d] \in [Table -> Inode]
    BY <1>3, <2>2, SlotSet
  <2> QED BY <2>1, <2>3
<1>7. Elsewhere({s})
  BY <1>1, <1>3, <1>4 DEF Elsewhere
<1>8. /\ inode'[s].ino = inode[s].ino /\ inode'[s].hashed = inode[s].hashed
      /\ inode'[s].mode = inode[s].mode /\ inode'[s].count = inode[s].count
      /\ ~inode'[s].locked /\ ~inode'[s].want
  BY <1>1, <1>3, <1>4 DEF Inode
<1> QED BY <1>3, <1>6, <1>7, <1>8

\* link undoes its count if it failed.
LEMMA OutTable ==
    ASSUME TypeOK, Frames, DirsOK, LocksExact, NEW p \in Procs, Out(p),
           NEW s, s = proc[p].lp
    PROVE  /\ inode' \in [Table -> Inode] /\ Elsewhere({s}) /\ s \in Slots
           /\ inode'[s].ino = inode[s].ino /\ inode'[s].hashed = inode[s].hashed
           /\ inode'[s].mode = inode[s].mode /\ inode'[s].count = inode[s].count
           /\ inode'[s].nlink = IF proc[p].err THEN inode[s].nlink - 1 ELSE inode[s].nlink
           /\ inode'[s].locked = inode[s].locked /\ inode'[s].want = inode[s].want
<1>1. proc[p].pc = "out" /\ proc[p].op = "enter"
  BY DEF Out, At, Frames, Frame, OpsOK
<1>2. s \in Slots /\ s \in Table /\ inode \in [Table -> Inode]
  BY <1>1, AtHand DEF TypeOK
<1>3. CASE ~proc[p].err
  BY <1>2, <1>3 DEF Out, Elsewhere
<1>4. CASE proc[p].err
  <2>1. inode' = [inode EXCEPT ![s].nlink = @ - 1, ![s].dirty = TRUE]
    BY <1>4 DEF Out
  <2>2. [inode EXCEPT ![s].nlink = @ - 1] \in [Table -> Inode]
    <3>1. inode[s].nlink - 1 \in Int
      BY <1>2, SlotSet
    <3>2. [inode EXCEPT ![s].nlink = @ - 1]
            = [inode EXCEPT ![s].nlink = inode[s].nlink - 1]
      OBVIOUS
    <3> QED BY <1>2, <3>1, <3>2, SlotSet
  <2>3. inode' \in [Table -> Inode]
    <3> DEFINE v == [inode EXCEPT ![s].nlink = @ - 1]
    <3>1. inode' = [v EXCEPT ![s].dirty = TRUE]
      BY <1>2, <2>1
    <3> HIDE DEF v
    <3>2. v \in [Table -> Inode]
      BY <2>2 DEF v
    <3> QED BY <1>2, <3>1, <3>2, SlotSet
  <2>4. Elsewhere({s})
    BY <1>2, <2>1 DEF Elsewhere
  <2>5. /\ inode'[s].ino = inode[s].ino /\ inode'[s].hashed = inode[s].hashed
        /\ inode'[s].mode = inode[s].mode /\ inode'[s].count = inode[s].count
        /\ inode'[s].nlink = inode[s].nlink - 1
        /\ inode'[s].locked = inode[s].locked /\ inode'[s].want = inode[s].want
    BY <1>2, <2>1 DEF Inode
  <2> QED BY <1>2, <1>4, <2>3, <2>4, <2>5
<1> QED BY <1>3, <1>4

------------------------------------------------------------------------------
(* The references to a slot. *)

Num(b) == IF b THEN 1 ELSE 0
Uses(r, s) == Num(r.ip = s) + Num(r.lp = s) + Num(r.fd = s)

\* A process that is back from a system call.
LEMMA UserHas ==
    ASSUME NEW fd
    PROVE  /\ InUser(fd).ip = None /\ InUser(fd).lp = None /\ InUser(fd).fd = fd
           /\ InUser(fd).at = None
BY DEF InUser

LEMMA UserAt ==
    ASSUME NEW fd
    PROVE  /\ InUser(fd).op = "" /\ InUser(fd).pc = "user"
           /\ InUser(fd).ret = "user" /\ InUser(fd).then = "user"
BY DEF InUser

\* Only these steps come by a reference, or lose one.
Changes(p) == Sync(p) \/ IgetHit(p) \/ IgetMiss(p) \/ IreleShared(p) \/ Release(p)

\* The others at most move it from one place to another.
LEMMA UsesKept ==
    ASSUME TypeOK, Frames, NEW p \in Procs, Step(p), ~Changes(p)
    PROVE  \A s \in Slots : Uses(proc'[p], s) = Uses(proc[p], s)
<1>1. /\ proc \in [Procs -> Process] /\ proc[p] \in Process /\ Frame(proc[p])
      /\ freelist \in Seq(Slots)
  BY DEF TypeOK, Frames
<1>2. \A l : At(p, l) => proc[p].pc = l
  BY DEF At
<1>3. None \notin Paths /\ None \notin Slots
  BY Assumed
<1>4. CASE \/ IgetHit(p) \/ IgetMiss(p) \/ Sync(p) \/ IreleShared(p) \/ Release(p)
  BY <1>4 DEF Changes
<1>5. CASE Call(p)
  <2>1. PICK op \in Calls[p], a \in Paths, b \in Paths :
          proc' = [proc EXCEPT ![p] = [@ EXCEPT !.op = op, !.at = a, !.to = b, !.pc = "namei"]]
    BY <1>5 DEF Call
  <2>2. proc'[p].ip = proc[p].ip /\ proc'[p].lp = proc[p].lp /\ proc'[p].fd = proc[p].fd
    BY <1>1, <2>1 DEF Process
  <2> QED BY <2>2 DEF Uses
<1>6. CASE IalloccgTake(p)
  <2>1. PICK i \in Inos \ iused :
          \/ i # None /\ proc'[p] = [proc[p] EXCEPT !.ino = i, !.pc = "iget"]
          \/ proc'[p] = InUser(proc[p].fd)
    BY <1>1, <1>6 DEF IalloccgTake, NoInode
  <2>2. proc[p].pc = "ialloccg"
    BY <1>2, <1>6 DEF IalloccgTake
  <2>3. proc[p].ip = None /\ proc[p].lp = None
    BY <1>1, <2>2 DEF Frame, OpsOK, HandOK, PathOK, Ireles
  <2>4. CASE i # None /\ proc'[p] = [proc[p] EXCEPT !.ino = i, !.pc = "iget"]
    <3>1. proc'[p].ip = proc[p].ip /\ proc'[p].lp = proc[p].lp /\ proc'[p].fd = proc[p].fd
      BY <1>1, <2>4 DEF Process
    <3> QED BY <3>1 DEF Uses
  <2>5. CASE proc'[p] = InUser(proc[p].fd)
    <3>1. proc'[p].ip = None /\ proc'[p].lp = None /\ proc'[p].fd = proc[p].fd
      BY <2>5, UserHas
    <3> QED BY <2>3, <3>1 DEF Uses
  <2> QED BY <2>1, <2>4, <2>5
<1>7. CASE NameiLocked(p) \/ CloseLocked(p) \/ IgetLocked(p) \/ GotInUse(p)
  BY <1>1, <1>7 DEF NameiLocked, CloseLocked, IgetLocked, GotInUse, SleepOn, Uses
<1>8. CASE Granted(p)
  <2>1. proc[p].pc = "granted" /\ proc'[p] = InUser(proc[p].ip)
    BY <1>1, <1>2, <1>8 DEF Granted
  <2>2. proc[p].fd = None /\ proc[p].lp = None
    BY <1>1, <2>1 DEF Frame, OpsOK, PathOK, Opens, Ireles
  <2>3. proc'[p].ip = None /\ proc'[p].lp = None /\ proc'[p].fd = proc[p].ip
    BY <2>1, UserHas
  <2> QED BY <1>3, <2>2, <2>3 DEF Uses, Num
<1>9. CASE Linked(p)
  <2>1. /\ proc[p].pc = "linked"
        /\ proc'[p] = [proc[p] EXCEPT !.lp = proc[p].ip, !.ip = None, !.op = "enter",
                                      !.at = proc[p].to,
                                      !.pc = IF proc[p].err THEN "out" ELSE "namei"]
    BY <1>1, <1>2, <1>9 DEF Linked
  <2>2. proc[p].lp = None
    BY <1>1, <2>1 DEF Frame, OpsOK, PathOK
  <2>3. proc'[p].ip = None /\ proc'[p].lp = proc[p].ip /\ proc'[p].fd = proc[p].fd
    BY <1>1, <2>1 DEF Process
  <2> QED BY <1>3, <2>2, <2>3 DEF Uses, Num
<1>10. CASE Out(p)
  <2>1. /\ proc[p].pc = "out"
        /\ proc'[p] = [proc[p] EXCEPT !.ip = proc[p].lp, !.lp = None, !.pc = "irele",
                                      !.ret = "user"]
    BY <1>1, <1>2, <1>10 DEF Out
  <2>2. proc[p].ip = None
    BY <1>1, <2>1 DEF Frame, HandOK, Ireles
  <2>3. proc'[p].ip = proc[p].lp /\ proc'[p].lp = None /\ proc'[p].fd = proc[p].fd
    BY <1>1, <2>1 DEF Process
  <2> QED BY <1>3, <2>2, <2>3 DEF Uses, Num
<1>11. CASE Close(p)
  <2>1. /\ proc[p].pc = "close"
        /\ proc'[p] = [proc[p] EXCEPT !.ip = proc[p].fd, !.fd = None, !.pc = "irele"]
    BY <1>1, <1>2, <1>11 DEF Close
  <2>2. proc[p].ip = None
    BY <1>1, <2>1 DEF Frame, HandOK, Ireles
  <2>3. proc'[p].ip = proc[p].fd /\ proc'[p].lp = proc[p].lp /\ proc'[p].fd = None
    BY <1>1, <2>1 DEF Process
  <2> QED BY <1>3, <2>2, <2>3 DEF Uses, Num
<1>12. CASE CallClose(p)
  BY <1>1, <1>2, <1>3, <1>12
  DEF CallClose, Go, InUser, Process, Frame, OpsOK, HandOK, PathOK, Lookups,
      Opens, Ireles, Uses, Num
<1>13. CASE NameiFound(p)
  BY <1>1, <1>2, <1>3, <1>13
  DEF NameiFound, Go, InUser, Process, Frame, OpsOK, HandOK, PathOK, Lookups,
      Opens, Ireles, Uses, Num
<1>14. CASE NameiFails(p)
  BY ZenonT(60), <1>1, <1>2, <1>3, <1>14
  DEF NameiFails, Go, InUser, Process, Frame, OpsOK, HandOK, PathOK, Lookups,
      Opens, Ireles, Uses, Num
<1>15. CASE NameiError(p)
  BY <1>1, <1>2, <1>3, <1>15
  DEF NameiError, Go, InUser, Process, Frame, OpsOK, HandOK, PathOK, Lookups,
      Opens, Ireles, Uses, Num
<1>16. CASE NameiMake(p)
  BY <1>1, <1>2, <1>3, <1>16
  DEF NameiMake, Go, InUser, Process, Frame, OpsOK, HandOK, PathOK, Lookups,
      Opens, Ireles, Uses, Num
<1>17. CASE NameiEnter(p)
  BY <1>1, <1>2, <1>3, <1>17
  DEF NameiEnter, Go, InUser, Process, Frame, OpsOK, HandOK, PathOK, Lookups,
      Opens, Ireles, Uses, Num
<1>18. CASE IgetFull(p)
  BY <1>1, <1>2, <1>3, <1>18
  DEF IgetFull, Go, InUser, Process, Frame, OpsOK, HandOK, PathOK, Lookups,
      Opens, Ireles, Uses, Num
<1>19. CASE Iread(p)
  BY <1>1, <1>2, <1>3, <1>19
  DEF Iread, Go, InUser, Process, Frame, OpsOK, HandOK, PathOK, Lookups,
      Opens, Ireles, Uses, Num
<1>20. CASE IreadFails(p)
  BY <1>1, <1>2, <1>3, <1>20
  DEF IreadFails, Go, InUser, Process, Frame, OpsOK, HandOK, PathOK, Lookups,
      Opens, Ireles, Uses, Num
<1>21. CASE GotOpen(p)
  BY <1>1, <1>2, <1>3, <1>21
  DEF GotOpen, Go, InUser, Process, Frame, OpsOK, HandOK, PathOK, Lookups,
      Opens, Ireles, Uses, Num
<1>22. CASE GotLink(p)
  BY <1>1, <1>2, <1>3, <1>22
  DEF GotLink, Go, InUser, Process, Frame, OpsOK, HandOK, PathOK, Lookups,
      Opens, Ireles, Uses, Num
<1>23. CASE GotExisting(p)
  BY <1>1, <1>2, <1>3, <1>23
  DEF GotExisting, Go, InUser, Process, Frame, OpsOK, HandOK, PathOK, Lookups,
      Opens, Ireles, Uses, Num
<1>24. CASE GotUnlink(p)
  BY <1>1, <1>2, <1>3, <1>24
  DEF GotUnlink, Go, InUser, Process, Frame, OpsOK, HandOK, PathOK, Lookups,
      Opens, Ireles, Uses, Num
<1>25. CASE GotNew(p)
  BY <1>1, <1>2, <1>3, <1>25
  DEF GotNew, Go, InUser, Process, Frame, OpsOK, HandOK, PathOK, Lookups,
      Opens, Ireles, Uses, Num
<1>26. CASE GotNull(p)
  BY <1>1, <1>2, <1>3, <1>26
  DEF GotNull, Go, InUser, Process, Frame, OpsOK, HandOK, PathOK, Lookups,
      Opens, Ireles, Uses, Num
<1>27. CASE MakeNull(p)
  BY <1>1, <1>2, <1>3, <1>27
  DEF MakeNull, Go, InUser, Process, Frame, OpsOK, HandOK, PathOK, Lookups,
      Opens, Ireles, Uses, Num
<1>28. CASE Opened(p)
  BY <1>1, <1>2, <1>3, <1>28
  DEF Opened, Go, InUser, Process, Frame, OpsOK, HandOK, PathOK, Lookups,
      Opens, Ireles, Uses, Num
<1>29. CASE OpenedOld(p)
  BY <1>1, <1>2, <1>3, <1>29
  DEF OpenedOld, Go, InUser, Process, Frame, OpsOK, HandOK, PathOK, Lookups,
      Opens, Ireles, Uses, Num
<1>30. CASE OpenedFails(p)
  BY <1>1, <1>2, <1>3, <1>30
  DEF OpenedFails, Go, InUser, Process, Frame, OpsOK, HandOK, PathOK, Lookups,
      Opens, Ireles, Uses, Num
<1>31. CASE IalloccgNone(p)
  BY <1>1, <1>2, <1>3, <1>31
  DEF IalloccgNone, NoInode, Go, InUser, Process, Frame, OpsOK, HandOK,
      PathOK, Lookups, Opens, Ireles, Uses, Num
<1>32. CASE IalloccgFails(p)
  BY <1>1, <1>2, <1>3, <1>32
  DEF IalloccgFails, NoInode, Go, InUser, Process, Frame, OpsOK, HandOK,
      PathOK, Lookups, Opens, Ireles, Uses, Num
<1>33. CASE Ifreeino(p)
  BY <1>1, <1>2, <1>3, <1>33
  DEF Ifreeino, NoInode, Go, InUser, Process, Frame, OpsOK, HandOK, PathOK,
      Lookups, Opens, Ireles, Uses, Num
<1>34. CASE Direnter(p)
  BY <1>1, <1>2, <1>3, <1>34
  DEF Direnter, Go, InUser, Process, Frame, OpsOK, HandOK, PathOK, Lookups,
      Opens, Ireles, Uses, Num
<1>35. CASE MakeFails(p)
  BY <1>1, <1>2, <1>3, <1>35
  DEF MakeFails, Go, InUser, Process, Frame, OpsOK, HandOK, PathOK, Lookups,
      Opens, Ireles, Uses, Num
<1>36. CASE EnterFails(p)
  BY <1>1, <1>2, <1>3, <1>36
  DEF EnterFails, Go, InUser, Process, Frame, OpsOK, HandOK, PathOK, Lookups,
      Opens, Ireles, Uses, Num
<1>37. CASE DirenterDone(p)
  BY <1>1, <1>2, <1>3, <1>37
  DEF DirenterDone, Go, InUser, Process, Frame, OpsOK, HandOK, PathOK,
      Lookups, Opens, Ireles, Uses, Num
<1>38. CASE DirremoveDone(p)
  BY <1>1, <1>2, <1>3, <1>38
  DEF DirremoveDone, Go, InUser, Process, Frame, OpsOK, HandOK, PathOK,
      Lookups, Opens, Ireles, Uses, Num
<1>39. CASE Dirremove(p)
  BY <1>1, <1>2, <1>3, <1>39
  DEF Dirremove, Go, InUser, Process, Frame, OpsOK, HandOK, PathOK, Lookups,
      Opens, Ireles, Uses, Num
<1>40. CASE DirremoveFails(p)
  BY <1>1, <1>2, <1>3, <1>40
  DEF DirremoveFails, Go, InUser, Process, Frame, OpsOK, HandOK, PathOK,
      Lookups, Opens, Ireles, Uses, Num
<1>41. CASE Undir(p)
  BY <1>1, <1>2, <1>3, <1>41
  DEF Undir, Go, InUser, Process, Frame, OpsOK, HandOK, PathOK, Lookups,
      Opens, Ireles, Uses, Num
<1>42. CASE Iput(p)
  BY <1>1, <1>2, <1>3, <1>42
  DEF Iput, Go, InUser, Process, Frame, OpsOK, HandOK, PathOK, Lookups, Opens,
      Ireles, Uses, Num
<1>43. CASE IreleLast(p)
  BY <1>1, <1>2, <1>3, <1>43
  DEF IreleLast, Go, InUser, Process, Frame, OpsOK, HandOK, PathOK, Lookups,
      Opens, Ireles, Uses, Num
<1>44. CASE IreleUnlinked(p)
  BY <1>1, <1>2, <1>3, <1>44
  DEF IreleUnlinked, Go, InUser, Process, Frame, OpsOK, HandOK, PathOK,
      Lookups, Opens, Ireles, Uses, Num
<1>45. CASE Truncated(p)
  BY <1>1, <1>2, <1>3, <1>45
  DEF Truncated, Go, InUser, Process, Frame, OpsOK, HandOK, PathOK, Lookups,
      Opens, Ireles, Uses, Num
<1>46. CASE Ifree(p)
  BY <1>1, <1>2, <1>3, <1>46
  DEF Ifree, ToIupdat, Go, InUser, Process, Frame, OpsOK, HandOK, PathOK,
      Lookups, Opens, Ireles, Uses, Num
<1>47. CASE IfreeFails(p)
  BY <1>1, <1>2, <1>3, <1>47
  DEF IfreeFails, ToIupdat, Go, InUser, Process, Frame, OpsOK, HandOK, PathOK,
      Lookups, Opens, Ireles, Uses, Num
<1>48. CASE Iupdat(p)
  BY <1>1, <1>2, <1>3, <1>48
  DEF Iupdat, Go, InUser, Process, Frame, OpsOK, HandOK, PathOK, Lookups,
      Opens, Ireles, Uses, Num
<1>49. CASE IupdatFails(p)
  BY <1>1, <1>2, <1>3, <1>49
  DEF IupdatFails, Go, InUser, Process, Frame, OpsOK, HandOK, PathOK, Lookups,
      Opens, Ireles, Uses, Num
<1>50. CASE Bwrite(p)
  BY <1>1, <1>2, <1>3, <1>50
  DEF Bwrite, Go, InUser, Process, Frame, OpsOK, HandOK, PathOK, Lookups,
      Opens, Ireles, Uses, Num
<1> QED
  BY Step(p), <1>4, <1>5, <1>6, <1>7, <1>8, <1>9, <1>10, <1>11, <1>12, <1>13,
     <1>14, <1>15, <1>16, <1>17, <1>18, <1>19, <1>20, <1>21, <1>22, <1>23,
     <1>24, <1>25, <1>26, <1>27, <1>28, <1>29, <1>30, <1>31, <1>32, <1>33,
     <1>34, <1>35, <1>36, <1>37, <1>38, <1>39, <1>40, <1>41, <1>42, <1>43,
     <1>44, <1>45, <1>46, <1>47, <1>48, <1>49, <1>50
  DEF Step, Ialloccg

\* The count of a slot stays exact if it changes as the references of p do.
LEMMA Recount ==
    ASSUME TypeOK, CountsExact, NEW p \in Procs,
           \A q \in Procs \ {p} : proc'[q] = proc[q],
           NEW s \in Slots, inode[s].count \in Int, inode'[s].count \in Int,
           inode'[s].count - Num(inode'[s].ino = s) - Uses(proc'[p], s) =
             inode[s].count - Num(inode[s].ino = s) - Uses(proc[p], s)
    PROVE  inode'[s].count = (IF inode'[s].ino = s THEN 1 ELSE 0)
                             + Cardinality({q \in Procs : proc'[q].ip = s})
                             + Cardinality({q \in Procs : proc'[q].lp = s})
                             + Cardinality({q \in Procs : proc'[q].fd = s})
<1> DEFINE A == {q \in Procs : proc[q].ip = s}  A2 == {q \in Procs : proc'[q].ip = s}
           B == {q \in Procs : proc[q].lp = s}  B2 == {q \in Procs : proc'[q].lp = s}
           C == {q \in Procs : proc[q].fd = s}  C2 == {q \in Procs : proc'[q].fd = s}
<1>1. /\ A \in SUBSET Procs /\ A2 \in SUBSET Procs /\ \A q \in Procs \ {p} : q \in A <=> q \in A2
      /\ B \in SUBSET Procs /\ B2 \in SUBSET Procs /\ \A q \in Procs \ {p} : q \in B <=> q \in B2
      /\ C \in SUBSET Procs /\ C2 \in SUBSET Procs /\ \A q \in Procs \ {p} : q \in C <=> q \in C2
  OBVIOUS
<1>2. /\ p \in A <=> proc[p].ip = s
      /\ p \in A2 <=> proc'[p].ip = s
      /\ p \in B <=> proc[p].lp = s
      /\ p \in B2 <=> proc'[p].lp = s
      /\ p \in C <=> proc[p].fd = s
      /\ p \in C2 <=> proc'[p].fd = s
  OBVIOUS
<1>3. inode[s].count = (IF inode[s].ino = s THEN 1 ELSE 0)
                       + Cardinality(A) + Cardinality(B) + Cardinality(C)
  BY DEF CountsExact
<1> HIDE DEF A, A2, B, B2, C, C2
<1>4. /\ Cardinality(A) \in Nat /\ Cardinality(A2) \in Nat
      /\ Cardinality(A2) - Num(proc'[p].ip = s) = Cardinality(A) - Num(proc[p].ip = s)
  BY <1>1, <1>2, OneMore DEF Num
<1>5. /\ Cardinality(B) \in Nat /\ Cardinality(B2) \in Nat
      /\ Cardinality(B2) - Num(proc'[p].lp = s) = Cardinality(B) - Num(proc[p].lp = s)
  BY <1>1, <1>2, OneMore DEF Num
<1>6. /\ Cardinality(C) \in Nat /\ Cardinality(C2) \in Nat
      /\ Cardinality(C2) - Num(proc'[p].fd = s) = Cardinality(C) - Num(proc[p].fd = s)
  BY <1>1, <1>2, OneMore DEF Num
<1>7. inode'[s].count = (IF inode'[s].ino = s THEN 1 ELSE 0)
                        + Cardinality(A2) + Cardinality(B2) + Cardinality(C2)
  BY <1>3, <1>4, <1>5, <1>6 DEF Uses, Num
<1> QED
  BY <1>7 DEF A2, B2, C2

\* Steps after which every slot holds what it held, for as many.
SlotsKept ==
    /\ freelist' = freelist
    /\ \A s \in Slots : /\ inode'[s].count = inode[s].count
                        /\ inode'[s].ino = inode[s].ino
                        /\ inode'[s].hashed = inode[s].hashed

LEMMA ElsewhereKept ==
    ASSUME NEW s \in Table, Elsewhere({s}), freelist' = freelist,
           s \in Slots => /\ inode'[s].count = inode[s].count
                          /\ inode'[s].ino = inode[s].ino
                          /\ inode'[s].hashed = inode[s].hashed
    PROVE  SlotsKept
BY DEF SlotsKept, Elsewhere, Table

LEMMA ElsewhereKept2 ==
    ASSUME NEW s \in Slots, NEW d \in Dirs, Elsewhere({s, d}), freelist' = freelist,
           inode'[s].count = inode[s].count,
           inode'[s].ino = inode[s].ino,
           inode'[s].hashed = inode[s].hashed
    PROVE  SlotsKept
BY Assumed DEF SlotsKept, Elsewhere, Table

LEMMA SlotsStep ==
    ASSUME TypeOK, Frames, DirsOK, LocksExact, InodesOK, CountsExact, NEW p \in Procs, Step(p)
    PROVE  /\ inode' \in [Table -> Inode]
           /\ SlotsKept \/ Changes(p) \/ IreadFails(p)
<1>1. /\ inode \in [Table -> Inode] /\ Slots \subseteq Table /\ Dirs \subseteq Table
      /\ Slots \cap Dirs = {}
  BY Assumed DEF TypeOK, Table
<1>2. \A l : At(p, l) => proc[p].pc = l
  BY DEF At
<1>3. CASE inode' = inode /\ freelist' = freelist
  BY <1>1, <1>3 DEF SlotsKept
<1>4. ASSUME NEW d, d = Dir(p), inode' = Put(inode, d), freelist' = freelist,
             proc[p].pc \in {"got", "null", "ialloccg", "ifreeino", "direnter", "dirwrite",
                             "undir"}
      PROVE  inode' \in [Table -> Inode] /\ SlotsKept
  BY <1>1, <1>4, PutTable, ElsewhereKept
<1>5. ASSUME NEW d \in Dirs, freelist' = freelist,
             inode' = [inode EXCEPT ![d].locked = TRUE, ![d].count = @ + 1]
      PROVE  inode' \in [Table -> Inode] /\ SlotsKept
  BY <1>1, <1>5, AcquiredTable, ElsewhereKept
<1>6. ASSUME NEW s \in Table, SleepOn(p, s)
      PROVE  inode' \in [Table -> Inode] /\ SlotsKept
  <2>1. freelist' = freelist
    BY <1>6 DEF SleepOn
  <2> QED
    BY <1>1, <1>6, <2>1, SleepOnTable, ElsewhereKept DEF SameFile
<1>7. proc[p].pc \in {"namei", "got", "null", "ialloccg", "ifreeino", "direnter", "dirwrite",
                      "undir"} => Dir(p) \in Dirs
  BY AtHand
<1>8. CASE NameiLocked(p) \/ CloseLocked(p) \/ IgetLocked(p)
  <2>1. proc[p].pc = "close" => proc[p].fd \in Table
    BY AtHand
  <2>2. \E s \in Table : SleepOn(p, s)
    BY <1>1, <1>2, <1>7, <1>8, <2>1 DEF NameiLocked, CloseLocked, IgetLocked
  <2> QED BY <1>6, <2>2
<1>9. CASE NameiFound(p)
  BY <1>2, <1>5, <1>7, <1>9 DEF NameiFound
<1>10. CASE NameiMake(p) \/ NameiEnter(p)
  BY <1>2, <1>5, <1>7, <1>10 DEF NameiMake, NameiEnter, NameiFree
<1>11. CASE GotOpen(p) \/ GotNull(p) \/ Undir(p)
  BY <1>2, <1>4, <1>11 DEF GotOpen, GotNull, Undir
<1>12. CASE IalloccgNone(p) \/ IalloccgFails(p) \/ Ifreeino(p)
  BY <1>2, <1>4, <1>12 DEF IalloccgNone, IalloccgFails, Ifreeino, NoInode
<1>13. CASE EnterFails(p) \/ DirenterDone(p)
  BY <1>2, <1>4, <1>13 DEF EnterFails, DirenterFails, DirenterDone, Dirwrite
<1>14. CASE IalloccgTake(p)
  <2>1. freelist' = freelist /\ (inode' = inode \/ inode' = Put(inode, Dir(p)))
    BY <1>14 DEF IalloccgTake, NoInode
  <2>2. proc[p].pc = "ialloccg"
    BY <1>2, <1>14 DEF IalloccgTake
  <2> QED BY <1>3, <1>4, <2>1, <2>2
<1>15. CASE GotLink(p)
  <2>1. freelist' = freelist
    BY <1>15 DEF GotLink
  <2> QED BY <1>15, <2>1, GotLinkTable, ElsewhereKept2
<1>16. CASE GotExisting(p)
  <2>1. freelist' = freelist
    BY <1>16 DEF GotExisting
  <2> QED BY <1>16, <2>1, GotExistingTable, ElsewhereKept2 DEF SameFile
<1>17. CASE MakeFails(p)
  <2>1. freelist' = freelist
    BY <1>17 DEF MakeFails, DirenterFails
  <2> QED BY <1>17, <2>1, MakeFailsTable, ElsewhereKept2
<1>18. CASE IgetMiss(p)
  BY <1>18, IgetMissTable DEF Changes
<1>19. CASE IgetHit(p)
  <2>1. PICK s \in Slots : inode' = [inode EXCEPT ![s].count = @ + 1, ![s].locked = TRUE]
    BY <1>19 DEF IgetHit
  <2> QED BY <1>1, <1>19, <2>1, AcquiredTable DEF Changes
<1>20. CASE Sync(p)
  <2>1. PICK s \in Slots : inode' = [inode EXCEPT ![s].locked = TRUE, ![s].count = @ + 1]
    BY <1>20 DEF Sync
  <2> QED BY <1>1, <1>20, <2>1, AcquiredTable DEF Changes
<1>21. CASE IreleShared(p)
  BY <1>21, IreleSharedTable DEF Changes
<1>22. CASE Release(p)
  BY <1>22, ReleaseTable DEF Changes
<1>23. CASE IreadFails(p)
  BY <1>23, IreadFailsTable
<1>24. CASE Call(p)
  BY <1>3, <1>24 DEF Call
<1>25. CASE CallClose(p)
  BY <1>3, <1>25 DEF CallClose
<1>26. CASE NameiFails(p)
  BY <1>3, <1>26 DEF NameiFails
<1>27. CASE NameiError(p)
  BY <1>3, <1>27 DEF NameiError
<1>28. CASE IgetFull(p)
  BY <1>3, <1>28 DEF IgetFull
<1>29. CASE GotUnlink(p)
  BY <1>3, <1>29 DEF GotUnlink
<1>30. CASE GotInUse(p)
  BY <1>3, <1>30 DEF GotInUse
<1>31. CASE MakeNull(p)
  BY <1>3, <1>31 DEF MakeNull
<1>32. CASE Opened(p)
  BY <1>3, <1>32 DEF Opened
<1>33. CASE OpenedFails(p)
  BY <1>3, <1>33 DEF OpenedFails
<1>34. CASE Direnter(p)
  BY <1>3, <1>34 DEF Direnter
<1>35. CASE Dirremove(p)
  BY <1>3, <1>35 DEF Dirremove
<1>36. CASE Close(p)
  BY <1>3, <1>36 DEF Close
<1>37. CASE Ifree(p)
  BY <1>3, <1>37 DEF Ifree
<1>38. CASE IfreeFails(p)
  BY <1>3, <1>38 DEF IfreeFails
<1>39. CASE IupdatFails(p)
  BY <1>3, <1>39 DEF IupdatFails
<1>40. CASE Bwrite(p)
  BY <1>3, <1>40 DEF Bwrite
<1>41. CASE Iread(p)
  BY <1>3, <1>41, <1>1, IreadTable, ElsewhereKept DEF Iread
<1>42. CASE Iput(p)
  BY <1>3, <1>42, <1>1, IputTable, ElsewhereKept DEF Iput, SameFile
<1>43. CASE Granted(p)
  BY <1>3, <1>43, <1>1, GrantedTable, ElsewhereKept DEF Granted, SameFile
<1>44. CASE Linked(p)
  BY <1>3, <1>44, <1>1, LinkedTable, ElsewhereKept DEF Linked, SameFile
<1>45. CASE OpenedOld(p)
  BY <1>3, <1>45, <1>1, OpenedOldTable, ElsewhereKept DEF OpenedOld
<1>46. CASE GotNew(p)
  BY <1>3, <1>46, <1>1, GotNewTable, ElsewhereKept DEF GotNew
<1>47. CASE Out(p)
  BY <1>3, <1>47, <1>1, OutTable, ElsewhereKept DEF Out
<1>48. CASE DirremoveFails(p)
  BY <1>3, <1>48, <1>1, DirremoveFailsTable, ElsewhereKept DEF DirremoveFails
<1>49. CASE DirremoveDone(p)
  BY <1>3, <1>49, <1>1, DirremoveDoneTable, ElsewhereKept
  DEF DirremoveDone, Dirwrite
<1>50. CASE IreleLast(p)
  BY <1>3, <1>50, <1>1, IreleLastTable, ElsewhereKept DEF IreleLast, SameFile
<1>51. CASE IreleUnlinked(p)
  BY <1>3, <1>51, <1>1, IreleUnlinkedTable, ElsewhereKept DEF IreleUnlinked
<1>52. CASE Truncated(p)
  BY <1>3, <1>52, <1>1, TruncatedTable, ElsewhereKept DEF Truncated
<1>53. CASE Iupdat(p)
  BY <1>3, <1>53, <1>1, IupdatTable, ElsewhereKept DEF Iupdat
<1> QED
  BY Step(p), <1>8, <1>9, <1>10, <1>11, <1>12, <1>13, <1>14, <1>15, <1>16,
     <1>17, <1>18, <1>19, <1>20, <1>21, <1>22, <1>23, <1>24, <1>25, <1>26,
     <1>27, <1>28, <1>29, <1>30, <1>31, <1>32, <1>33, <1>34, <1>35, <1>36,
     <1>37, <1>38, <1>39, <1>40, <1>41, <1>42, <1>43, <1>44, <1>45, <1>46,
     <1>47, <1>48, <1>49, <1>50, <1>51, <1>52, <1>53
  DEF Step, Ialloccg

------------------------------------------------------------------------------
(* The free list. *)

Listed(f, s) == \E k \in DOMAIN f : f[k] = s
Once(f) == \A j, k \in DOMAIN f : f[j] = f[k] => j = k

LEMMA Removed ==
    ASSUME NEW f \in Seq(Slots), Once(f), NEW k \in DOMAIN f, NEW g, g = RemoveAt(f, k)
    PROVE  /\ g \in Seq(Slots) /\ Once(g)
           /\ \A t \in Slots : Listed(g, t) <=> Listed(f, t) /\ t # f[k]
<1>1. /\ Len(f) \in Nat /\ DOMAIN f = 1..Len(f) /\ k \in 1..Len(f)
      /\ \A i \in 1..Len(f) : f[i] \in Slots
  OBVIOUS
<1>2. /\ g \in Seq(Slots) /\ DOMAIN g = 1..(Len(f) - 1)
      /\ \A i \in 1..(Len(f) - 1) : g[i] = IF i < k THEN f[i] ELSE f[i + 1]
  <2> DEFINE a == SubSeq(f, 1, k - 1)  b == SubSeq(f, k + 1, Len(f))
  <2>1. /\ a \in Seq(Slots) /\ Len(a) = k - 1
        /\ \A i \in 1..(k - 1) : a[i] = f[i]
    BY <1>1
  <2>2. /\ b \in Seq(Slots) /\ Len(b) = Len(f) - k
        /\ \A i \in 1..(Len(f) - k) : b[i] = f[i + k]
    BY <1>1
  <2>3. g = a \o b
    BY DEF RemoveAt
  <2> HIDE DEF a, b
  <2>4. /\ g \in Seq(Slots) /\ Len(g) = Len(a) + Len(b)
        /\ \A i \in 1..(Len(a) + Len(b)) : g[i] = IF i <= Len(a) THEN a[i] ELSE b[i - Len(a)]
    <3>1. a \o b \in Seq(Slots) /\ Len(a \o b) = Len(a) + Len(b)
      BY <2>1, <2>2, ConcatProperties
    <3>2. \A i \in 1..(Len(a) + Len(b)) :
             (a \o b)[i] = IF i <= Len(a) THEN a[i] ELSE b[i - Len(a)]
      BY <2>1, <2>2, ConcatProperties
    <3> QED BY <2>3, <3>1, <3>2
  <2>5. DOMAIN g = 1..(Len(f) - 1)
    BY <1>1, <2>1, <2>2, <2>4
  <2>6. ASSUME NEW i \in 1..(Len(f) - 1)
        PROVE  g[i] = IF i < k THEN f[i] ELSE f[i + 1]
    <3>1. CASE i < k
      BY <1>1, <2>1, <2>2, <2>4, <3>1
    <3>2. CASE ~(i < k)
      <4>1. g[i] = b[i - (k - 1)]
        BY <1>1, <2>1, <2>2, <2>4, <3>2
      <4>2. b[i - (k - 1)] = f[i - (k - 1) + k]
        BY <1>1, <2>2, <3>2
      <4>3. i - (k - 1) + k = i + 1
        BY <1>1
      <4> QED BY <3>2, <4>1, <4>2, <4>3
    <3> QED BY <3>1, <3>2
  <2> QED BY <2>4, <2>5, <2>6
<1>3. ASSUME NEW i \in DOMAIN g, NEW j \in DOMAIN g, g[i] = g[j]
      PROVE  i = j
  <2>1. i \in 1..(Len(f) - 1) /\ j \in 1..(Len(f) - 1)
    BY <1>2
  <2> DEFINE x == IF i < k THEN i ELSE i + 1
             y == IF j < k THEN j ELSE j + 1
  <2>2. x \in 1..Len(f) /\ y \in 1..Len(f) /\ f[x] = f[y]
    BY <1>1, <1>2, <1>3, <2>1
  <2>3. x = y
    BY <1>1, <2>2 DEF Once
  <2> QED BY <1>1, <2>1, <2>3
<1>4. ASSUME NEW t \in Slots, Listed(g, t)
      PROVE  Listed(f, t) /\ t # f[k]
  <2>1. PICK i \in 1..(Len(f) - 1) : g[i] = t
    BY <1>1, <1>2, <1>4 DEF Listed
  <2> DEFINE x == IF i < k THEN i ELSE i + 1
  <2>2. x \in 1..Len(f) /\ x # k /\ f[x] = t
    BY <1>1, <1>2, <2>1
  <2> QED BY <1>1, <2>2 DEF Listed, Once
<1>5. ASSUME NEW t \in Slots, Listed(f, t), t # f[k]
      PROVE  Listed(g, t)
  <2>1. PICK i \in 1..Len(f) : f[i] = t
    BY <1>1, <1>5 DEF Listed
  <2>2. CASE i < k
    <3>1. i \in 1..(Len(f) - 1) /\ g[i] = t
      BY <1>1, <1>2, <2>1, <2>2
    <3> QED BY <1>1, <1>2, <3>1 DEF Listed
  <2>3. CASE i > k
    <3>1. i - 1 \in 1..(Len(f) - 1) /\ g[i - 1] = f[(i - 1) + 1]
      BY <1>1, <1>2, <2>1, <2>3
    <3>2. g[i - 1] = t
      BY <1>1, <2>1, <3>1
    <3> QED BY <1>1, <1>2, <3>1, <3>2 DEF Listed
  <2> QED BY <1>1, <1>5, <2>1, <2>2, <2>3
<1> QED BY <1>2, <1>3, <1>4, <1>5 DEF Once

LEMMA Beheaded ==
    ASSUME NEW f \in Seq(Slots), f # <<>>, Once(f), NEW g, g = Tail(f)
    PROVE  /\ g \in Seq(Slots) /\ Once(g) /\ Head(f) \in Slots /\ Listed(f, Head(f))
           /\ \A t \in Slots : Listed(g, t) <=> Listed(f, t) /\ t # Head(f)
<1>1. /\ Len(f) \in Nat /\ Len(f) > 0 /\ DOMAIN f = 1..Len(f)
      /\ \A i \in 1..Len(f) : f[i] \in Slots
      /\ Head(f) = f[1]
  OBVIOUS
<1>2. /\ g \in Seq(Slots) /\ Len(g) = Len(f) - 1 /\ DOMAIN g = 1..(Len(f) - 1)
      /\ \A i \in 1..(Len(f) - 1) : g[i] = f[i + 1]
  BY <1>1
<1>3. Once(g)
  BY <1>1, <1>2 DEF Once
<1>4. ASSUME NEW t \in Slots, Listed(g, t)
      PROVE  Listed(f, t) /\ t # f[1]
  <2>1. PICK i \in 1..(Len(f) - 1) : g[i] = t
    BY <1>2, <1>4 DEF Listed
  <2> QED BY <1>1, <1>2, <2>1 DEF Listed, Once
<1>5. ASSUME NEW t \in Slots, Listed(f, t), t # f[1]
      PROVE  Listed(g, t)
  <2>1. PICK i \in 1..Len(f) : f[i] = t
    BY <1>1, <1>5 DEF Listed
  <2>2. i - 1 \in 1..(Len(f) - 1) /\ g[i - 1] = f[(i - 1) + 1]
    BY <1>1, <1>2, <1>5, <2>1
  <2>3. g[i - 1] = t
    BY <1>1, <2>1, <2>2
  <2> QED BY <1>2, <2>2, <2>3 DEF Listed
<1>6. Head(f) \in Slots /\ Listed(f, Head(f))
  BY <1>1 DEF Listed
<1> QED BY <1>1, <1>2, <1>3, <1>4, <1>5, <1>6

LEMMA Appended ==
    ASSUME NEW f \in Seq(Slots), Once(f), NEW s \in Slots, ~Listed(f, s),
           NEW g, g = Append(f, s)
    PROVE  /\ g \in Seq(Slots) /\ Once(g)
           /\ \A t \in Slots : Listed(g, t) <=> Listed(f, t) \/ t = s
<1>1. /\ Len(f) \in Nat /\ DOMAIN f = 1..Len(f)
      /\ g \in Seq(Slots) /\ DOMAIN g = 1..(Len(f) + 1)
      /\ g[Len(f) + 1] = s
      /\ \A i \in 1..Len(f) : g[i] = f[i]
  OBVIOUS
<1>2. \A i \in 1..Len(f) : g[i] # s
  BY <1>1 DEF Listed
<1>3. ASSUME NEW j \in DOMAIN g, NEW k \in DOMAIN g, g[j] = g[k]
      PROVE  j = k
  <2>1. CASE j = Len(f) + 1 \/ k = Len(f) + 1
    BY <1>1, <1>2, <1>3, <2>1
  <2>2. CASE j # Len(f) + 1 /\ k # Len(f) + 1
    <3>1. j \in 1..Len(f) /\ k \in 1..Len(f)
      BY <1>1, <2>2
    <3> QED BY <1>1, <1>3, <3>1 DEF Once
  <2> QED BY <2>1, <2>2
<1>4. \A t \in Slots : Listed(g, t) <=> Listed(f, t) \/ t = s
  <2>1. \A t \in Slots : Listed(g, t) => Listed(f, t) \/ t = s
    BY <1>1 DEF Listed
  <2>2. \A t \in Slots : Listed(f, t) => Listed(g, t)
    BY <1>1 DEF Listed
  <2>3. Listed(g, s)
    BY <1>1 DEF Listed
  <2> QED BY <2>1, <2>2, <2>3
<1> QED BY <1>1, <1>3, <1>4 DEF Once

\* The free list in these words.
LEMMA FreeList ==
    FreeListExact <=> /\ \A s \in Slots : inode[s].count = 0 <=> Listed(freelist, s)
                      /\ Once(freelist)
BY DEF FreeListExact, Listed, Once

------------------------------------------------------------------------------
(* The table agrees with its users. *)

\* The steps that come by a reference, or lose one.
LEMMA UsesChange ==
    ASSUME TypeOK, Frames, NEW p \in Procs
    PROVE  /\ \A s \in Slots :
                (proc[p].ip = None /\ proc'[p].ip = s
                  /\ proc'[p].lp = proc[p].lp /\ proc'[p].fd = proc[p].fd)
                => \A t \in Slots :
                     Uses(proc'[p], t) = Uses(proc[p], t) + Num(t = s)
           /\ \A s \in Slots :
                (proc[p].ip = s /\ proc'[p].ip = None
                  /\ proc'[p].lp = proc[p].lp /\ proc'[p].fd = proc[p].fd)
                => \A t \in Slots :
                     Uses(proc'[p], t) = Uses(proc[p], t) - Num(t = s)
BY Assumed DEF Uses, Num, TypeOK, Process

LEMMA ReturnGives ==
    ASSUME TypeOK, Frames, NEW p \in Procs, proc[p].pc \in {"irele", "release"}, Return(p)
    PROVE  proc'[p].ip = None /\ proc'[p].lp = proc[p].lp /\ proc'[p].fd = proc[p].fd
<1>1. proc \in [Procs -> Process] /\ Frame(proc[p]) /\ proc[p] \in Process
  BY DEF TypeOK, Frames
<1>2. CASE proc[p].ret = "user"
  <2>1. proc'[p] = InUser(proc[p].fd)
    BY <1>1, <1>2 DEF Return
  <2>2. proc[p].lp = None
    BY <1>1, <1>2 DEF Frame, PathOK, Ireles
  <2> QED BY <2>1, <2>2, UserHas
<1>3. CASE proc[p].ret # "user"
  <2>1. proc'[p] = [proc[p] EXCEPT !.ip = None, !.pc = proc[p].ret, !.ret = "user"]
    BY <1>1, <1>3 DEF Return
  <2> QED BY <1>1, <2>1 DEF Process
<1> QED BY <1>2, <1>3

LEMMA TableKept ==
    ASSUME TypeOK, Frames, CountsExact, FreeListExact, OneCopy, NEW p \in Procs,
           Step(p), ~Changes(p), SlotsKept, inode' \in [Table -> Inode]
    PROVE  CountsExact' /\ FreeListExact' /\ OneCopy'
<1>1. ASSUME NEW s \in Slots
      PROVE  inode[s].count \in Int /\ inode'[s].count \in Int
  BY <1>1 DEF TypeOK, Inode, Table
<1>2. \A q \in Procs \ {p} : proc'[q] = proc[q]
  BY Alone
<1>3. ASSUME NEW s \in Slots
      PROVE  inode'[s].count = (IF inode'[s].ino = s THEN 1 ELSE 0)
                               + Cardinality({q \in Procs : proc'[q].ip = s})
                               + Cardinality({q \in Procs : proc'[q].lp = s})
                               + Cardinality({q \in Procs : proc'[q].fd = s})
  <2>1. Uses(proc'[p], s) = Uses(proc[p], s)
    BY UsesKept
  <2>2. inode'[s].count = inode[s].count /\ inode'[s].ino = inode[s].ino
    BY DEF SlotsKept
  <2> QED
    BY <1>1, <1>2, <2>1, <2>2, Recount
<1>4. CountsExact'
  BY <1>3 DEF CountsExact
<1>5. FreeListExact' /\ OneCopy'
  BY DEF SlotsKept, FreeListExact, OneCopy
<1> QED BY <1>4, <1>5

\* An inode is referred to once more, or once less.
LEMMA TableCounts ==
    ASSUME TypeOK, Frames, CountsExact, NEW p \in Procs, NEW s \in Slots, NEW n \in {1, -1},
           inode' \in [Table -> Inode], Elsewhere({s}),
           \A q \in Procs \ {p} : proc'[q] = proc[q],
           \A t \in Slots : Uses(proc'[p], t) = Uses(proc[p], t) + (IF t = s THEN n ELSE 0),
           inode'[s].count = inode[s].count + n,
           inode'[s].ino = s <=> inode[s].ino = s
    PROVE  CountsExact'
<1>1. ASSUME NEW t \in Slots
      PROVE  inode[t].count \in Int /\ inode'[t].count \in Int
  BY <1>1 DEF TypeOK, Inode, Table
<1>2. ASSUME NEW t \in Slots
      PROVE  inode'[t].count = (IF inode'[t].ino = t THEN 1 ELSE 0)
                               + Cardinality({q \in Procs : proc'[q].ip = t})
                               + Cardinality({q \in Procs : proc'[q].lp = t})
                               + Cardinality({q \in Procs : proc'[q].fd = t})
  <2> DEFINE x == Uses(proc[p], t)  y == Uses(proc'[p], t)
             m == Num(inode[t].ino = t)  k == Num(inode'[t].ino = t)
  <2>0. x \in Int /\ y \in Int /\ m \in Int /\ k \in Int
    BY DEF Uses, Num
  <2>1. CASE t = s
    <3>1. k = m
      BY <2>1 DEF Num
    <3>2. y = x + n /\ inode'[t].count = inode[t].count + n
      BY <2>1
    <3>3. inode'[t].count - k - y = inode[t].count - m - x
      <4> HIDE DEF x, y, m, k
      <4> QED BY <1>1, <2>0, <3>1, <3>2
    <3> QED
      BY <1>1, <3>3, Recount
  <2>2. CASE t # s
    <3>1. inode'[t] = inode[t]
      BY <2>2 DEF Elsewhere, Table
    <3>2. y = x
      <4> HIDE DEF y
      <4>1. y = x + 0
        BY <2>2 DEF y
      <4> HIDE DEF x
      <4> QED BY <2>0, <4>1
    <3> QED
      BY <1>1, <3>1, <3>2, Recount
  <2> QED BY <2>1, <2>2
<1> QED
  BY <1>2 DEF CountsExact

LEMMA TableStep ==
    ASSUME TypeOK, Frames, DirsOK, LocksExact, InodesOK, TableExact,
           NEW p \in Procs, Step(p)
    PROVE  CountsExact' /\ FreeListExact' /\ OneCopy' /\ freelist' \in Seq(Slots)
<1>1. /\ inode \in [Table -> Inode] /\ proc \in [Procs -> Process] /\ proc[p] \in Process
      /\ Frame(proc[p]) /\ freelist \in Seq(Slots) /\ Slots \subseteq Table
      /\ \A s \in Slots : inode[s].count \in Nat
      /\ None \notin Slots
  BY Assumed DEF TypeOK, Frames, Table, Inode
<1>2. CountsExact /\ FreeListExact /\ OneCopy
  BY DEF TableExact
<1>3. inode' \in [Table -> Inode] /\ \A s \in Slots : inode'[s].count \in Nat
  BY <1>2, <1>1, SlotsStep DEF Inode
<1>4. SlotsKept \/ Changes(p) \/ IreadFails(p)
  BY <1>2, SlotsStep
<1>5. proc' \in [Procs -> Process] /\ \A q \in Procs \ {p} : proc'[q] = proc[q]
  BY Alone
<1>6. /\ \A s \in Slots : inode[s].count = 0 <=> Listed(freelist, s)
      /\ Once(freelist)
  BY <1>2, FreeList
<1>7. ASSUME \A s \in Slots : inode'[s].count = 0 <=> Listed(freelist', s),
             Once(freelist')
      PROVE  FreeListExact'
  BY <1>7 DEF FreeListExact, Listed, Once
<1>8. \A l : At(p, l) => proc[p].pc = l
  BY DEF At
<1>9. \A s, t \in Slots : s # t /\ Elsewhere({s}) => inode'[t] = inode[t]
  BY <1>1 DEF Elsewhere
<1>10. ASSUME NEW s \in Slots, Elsewhere({s}), inode'[s].count = inode[s].count + 1,
              SameFile(s), proc[p].ip = None, proc'[p].ip = s,
              proc'[p].lp = proc[p].lp, proc'[p].fd = proc[p].fd,
              freelist' = IF inode[s].count = 0 THEN Unlink(s) ELSE freelist
       PROVE  CountsExact' /\ FreeListExact' /\ OneCopy' /\ freelist' \in Seq(Slots)
  <2>1. \A t \in Slots : Uses(proc'[p], t) = Uses(proc[p], t) + (IF t = s THEN 1 ELSE 0)
    BY <1>10, UsesChange DEF Num
  <2>2. CountsExact'
    BY <1>2, <1>3, <1>5, <1>10, <2>1, TableCounts DEF SameFile
  <2>3. OneCopy'
    BY <1>2, <1>9, <1>10 DEF OneCopy, SameFile
  <2>4. FreeListExact' /\ freelist' \in Seq(Slots)
    <3>1. CASE inode[s].count = 0
      <4>1. PICK k \in DOMAIN freelist : freelist[k] = s /\ freelist' = RemoveAt(freelist, k)
        BY <1>6, <1>10, <3>1 DEF Unlink, Listed
      <4>2. /\ freelist' \in Seq(Slots) /\ Once(freelist')
            /\ \A t \in Slots : Listed(freelist', t) <=> Listed(freelist, t) /\ t # s
        BY <1>1, <1>6, <4>1, Removed
      <4>3. inode'[s].count # 0
        BY <1>1, <1>10
      <4>4. \A t \in Slots : inode'[t].count = 0 <=> Listed(freelist', t)
        BY <1>6, <1>9, <1>10, <4>2, <4>3
      <4> QED BY <1>7, <4>2, <4>4
    <3>2. CASE inode[s].count # 0
      <4>1. freelist' = freelist
        BY <1>10, <3>2
      <4>2. \A t \in Slots : inode'[t].count = 0 <=> Listed(freelist', t)
        BY <1>1, <1>6, <1>9, <1>10, <3>2, <4>1
      <4>3. Once(freelist')
        BY <1>6, <4>1
      <4> QED BY <1>1, <1>7, <4>1, <4>2, <4>3
    <3> QED BY <3>1, <3>2
  <2> QED BY <2>2, <2>3, <2>4
<1>11. CASE SlotsKept /\ ~Changes(p)
  BY <1>1, <1>2, <1>3, <1>11, TableKept DEF SlotsKept
<1>12. CASE Sync(p)
  <2>1. PICK s \in Slots :
          /\ inode[s].count > 0
          /\ inode' = [inode EXCEPT ![s].locked = TRUE, ![s].count = @ + 1]
          /\ proc' = [proc EXCEPT ![p] = [@ EXCEPT !.op = "sync", !.ip = s, !.then = "iput",
                                    !.pc = IF inode[s].dirty THEN "iupdat" ELSE "iput"]]
    BY <1>12 DEF Sync
  <2>2. proc[p].pc = "user" /\ freelist' = freelist
    BY <1>8, <1>12 DEF Sync
  <2>3. proc[p].ip = None
    BY <1>1, <2>2 DEF Frame, HandOK, Ireles
  <2>4. proc'[p].ip = s /\ proc'[p].lp = proc[p].lp /\ proc'[p].fd = proc[p].fd
    BY <1>1, <2>1 DEF Process
  <2>5. Elsewhere({s}) /\ inode'[s].count = inode[s].count + 1 /\ SameFile(s)
    BY <1>1, <2>1, AcquiredTable
  <2>6. inode[s].count # 0
    BY <1>1, <2>1
  <2> QED BY <1>10, <2>2, <2>3, <2>4, <2>5, <2>6
<1>13. CASE IgetHit(p)
  <2>1. PICK s \in Slots :
          /\ freelist' = IF inode[s].count = 0 THEN Unlink(s) ELSE freelist
          /\ inode' = [inode EXCEPT ![s].count = @ + 1, ![s].locked = TRUE]
          /\ proc' = [proc EXCEPT ![p].ip = s, ![p].pc = "got"]
    BY <1>13 DEF IgetHit
  <2>2. proc[p].pc = "iget"
    BY <1>8, <1>13 DEF IgetHit
  <2>3. proc[p].ip = None
    BY <1>1, <2>2 DEF Frame, HandOK, Ireles
  <2>4. proc'[p].ip = s /\ proc'[p].lp = proc[p].lp /\ proc'[p].fd = proc[p].fd
    BY <1>1, <2>1 DEF Process
  <2>5. Elsewhere({s}) /\ inode'[s].count = inode[s].count + 1 /\ SameFile(s)
    BY <1>1, <2>1, AcquiredTable
  <2> QED BY <1>10, <2>1, <2>3, <2>4, <2>5
<1>14. CASE IgetMiss(p)
  <2> DEFINE s == Head(freelist)
  <2>1. /\ freelist # <<>> /\ freelist' = Tail(freelist)
        /\ proc' = [proc EXCEPT ![p].ip = s, ![p].pc = "iread"]
        /\ \A t \in Slots : ~Found(t, proc[p].ino)
    BY <1>14 DEF IgetMiss
  <2>2. /\ Elsewhere({s}) /\ s \in Slots /\ inode'[s].ino = proc[p].ino /\ inode'[s].hashed
        /\ inode'[s].count = inode[s].count + 1
    BY <1>14, IgetMissTable
  <2>3. /\ freelist' \in Seq(Slots) /\ Once(freelist') /\ Listed(freelist, s)
        /\ \A t \in Slots : Listed(freelist', t) <=> Listed(freelist, t) /\ t # s
    BY <1>1, <1>6, <2>1, Beheaded
  <2> HIDE DEF s
  <2>4. proc[p].pc = "iget"
    BY <1>8, <1>14 DEF IgetMiss
  <2>5. proc[p].ip = None /\ proc[p].ino \in Inos
    BY <1>1, <2>4 DEF Frame, HandOK, Ireles, Process
  <2>6. proc'[p].ip = s /\ proc'[p].lp = proc[p].lp /\ proc'[p].fd = proc[p].fd
    BY <1>1, <2>1 DEF Process
  <2>7. \A t \in Slots : Uses(proc'[p], t) = Uses(proc[p], t) + (IF t = s THEN 1 ELSE 0)
    BY <2>2, <2>5, <2>6, UsesChange DEF Num
  <2>8. inode[s].count = 0 /\ inode[s].ino # s
    <3>1. inode[s].count = 0
      BY <1>6, <2>2, <2>3
    <3>2. inode[s].count = (IF inode[s].ino = s THEN 1 ELSE 0) + Cardinality(Hands(s))
                           + Cardinality(Firsts(s)) + Cardinality(OpenFiles(s))
      BY <1>2, <2>2 DEF CountsExact, Hands, Firsts, OpenFiles
    <3>3. /\ Cardinality(Hands(s)) \in Nat /\ Cardinality(Firsts(s)) \in Nat
          /\ Cardinality(OpenFiles(s)) \in Nat
      <4>1. IsFiniteSet(Hands(s)) /\ IsFiniteSet(Firsts(s)) /\ IsFiniteSet(OpenFiles(s))
        BY Assumed, FS_Subset DEF Hands, Firsts, OpenFiles
      <4> QED BY <4>1, FS_CardinalityType
    <3> QED BY <3>1, <3>2, <3>3
  <2>9. inode'[s].ino # s
    BY <2>2, <2>5, Assumed DEF Inos
  <2>10. CountsExact'
    BY <1>2, <1>3, <1>5, <2>2, <2>7, <2>8, <2>9, TableCounts
  <2>11. OneCopy'
    BY <1>2, <1>9, <2>1, <2>2 DEF OneCopy, Found
  <2>12. \A t \in Slots : inode'[t].count = 0 <=> Listed(freelist', t)
    BY <1>1, <1>6, <1>9, <2>2, <2>3, <2>8
  <2> QED BY <1>7, <2>3, <2>10, <2>11, <2>12
<1>15. ASSUME NEW s \in Slots, s = proc[p].ip, proc[p].pc \in {"irele", "release"}, Return(p),
              Elsewhere({s}), inode'[s].count = inode[s].count - 1,
              inode'[s].ino = inode[s].ino, inode'[s].hashed = inode[s].hashed
       PROVE  CountsExact' /\ OneCopy'
  <2>1. \A t \in Slots : Uses(proc'[p], t) = Uses(proc[p], t) + (IF t = s THEN -1 ELSE 0)
    <3>1. \A t \in Slots : Uses(proc'[p], t) = Uses(proc[p], t) - Num(t = s)
      BY <1>15, ReturnGives, UsesChange
    <3>2. \A t \in Slots : Uses(proc[p], t) \in Int
      BY DEF Uses, Num
    <3>3. ASSUME NEW t \in Slots
          PROVE  Uses(proc'[p], t) = Uses(proc[p], t) + (IF t = s THEN -1 ELSE 0)
      <4>1. CASE t = s
        BY <3>1, <3>2, <4>1 DEF Num
      <4>2. CASE t # s
        BY <3>1, <3>2, <4>2 DEF Num
      <4> QED BY <4>1, <4>2
    <3> QED BY <3>3
  <2>2. inode'[s].count = inode[s].count + (-1)
    BY <1>1, <1>15
  <2>3. CountsExact'
    BY <1>2, <1>3, <1>5, <1>15, <2>1, <2>2, TableCounts
  <2>4. OneCopy'
    BY <1>2, <1>9, <1>15 DEF OneCopy
  <2> QED BY <2>3, <2>4
<1>16. CASE IreleShared(p)
  <2> DEFINE s == proc[p].ip
  <2>1. /\ proc[p].pc = "irele" /\ Return(p) /\ freelist' = freelist /\ inode[s].count # 1
    BY <1>8, <1>16 DEF IreleShared
  <2>2. /\ Elsewhere({s}) /\ s \in Slots /\ inode'[s].count = inode[s].count - 1 /\ SameFile(s)
    BY <1>2, <1>16, IreleSharedTable
  <2>3. inode[s].count >= 1
    BY <1>1, <1>2, <2>2, Counted DEF Refs
  <2> HIDE DEF s
  <2>4. s = proc[p].ip
    BY DEF s
  <2>5. CountsExact' /\ OneCopy'
    BY <1>15, <2>1, <2>2, <2>4 DEF SameFile
  <2>6. inode[s].count # 0 /\ inode'[s].count # 0
    BY <1>1, <2>1, <2>2, <2>3
  <2>7. \A t \in Slots : inode'[t].count = 0 <=> Listed(freelist', t)
    BY <1>6, <1>9, <2>1, <2>2, <2>6
  <2>8. Once(freelist')
    BY <1>6, <2>1
  <2> QED BY <1>1, <1>7, <2>1, <2>5, <2>7, <2>8
<1>17. CASE Release(p)
  <2> DEFINE s == proc[p].ip
  <2>1. /\ proc[p].pc = "release" /\ Return(p) /\ freelist' = Append(freelist, s)
    BY <1>8, <1>17 DEF Release
  <2>2. /\ Elsewhere({s}) /\ s \in Slots /\ inode'[s].count = inode[s].count - 1
        /\ inode'[s].ino = inode[s].ino /\ inode'[s].hashed = inode[s].hashed
    BY <1>2, <1>17, ReleaseTable
  <2>3. inode[s].count = 1
    BY <2>1 DEF InodesOK, HandsOK, Sole
  <2> HIDE DEF s
  <2>4. s = proc[p].ip
    BY DEF s
  <2>5. CountsExact' /\ OneCopy'
    BY <1>15, <2>1, <2>2, <2>4
  <2>6. ~Listed(freelist, s)
    BY <1>6, <2>2, <2>3
  <2>7. /\ freelist' \in Seq(Slots) /\ Once(freelist')
        /\ \A t \in Slots : Listed(freelist', t) <=> Listed(freelist, t) \/ t = s
    BY <1>1, <1>6, <2>1, <2>2, <2>6, Appended
  <2>8. \A t \in Slots : inode'[t].count = 0 <=> Listed(freelist', t)
    BY <1>1, <1>6, <1>9, <2>2, <2>3, <2>7
  <2> QED BY <1>7, <2>5, <2>7, <2>8
<1>18. CASE IreadFails(p)
  <2> DEFINE s == proc[p].ip
  <2>1. proc[p].pc = "iread" /\ freelist' = freelist
    BY <1>8, <1>18 DEF IreadFails
  <2>2. /\ Elsewhere({s}) /\ s \in Slots /\ inode'[s].count = inode[s].count
        /\ inode'[s].ino = None /\ ~inode'[s].hashed
    BY <1>2, <1>18, IreadFailsTable
  <2>3. inode[s].ino = proc[p].ino /\ proc[p].ino \in Inos
    BY <1>1, <2>1 DEF InodesOK, HandsOK, Process
  <2>4. ~Changes(p)
    BY <1>8, <2>1 DEF Changes, Sync, IgetHit, IgetMiss, IreleShared, Release
  <2> HIDE DEF s
  <2>5. inode[s].ino # s /\ inode'[s].ino # s
    BY <1>1, <2>2, <2>3, Assumed DEF Inos
  <2>6. ASSUME NEW t \in Slots
        PROVE  inode'[t].count = (IF inode'[t].ino = t THEN 1 ELSE 0)
                                 + Cardinality({q \in Procs : proc'[q].ip = t})
                                 + Cardinality({q \in Procs : proc'[q].lp = t})
                                 + Cardinality({q \in Procs : proc'[q].fd = t})
    <3>1. Uses(proc'[p], t) = Uses(proc[p], t)
      BY <2>4, UsesKept
    <3>2. /\ Num(inode'[t].ino = t) = Num(inode[t].ino = t)
          /\ inode'[t].count = inode[t].count
      BY <1>9, <2>2, <2>5 DEF Num
    <3>3. inode[t].count \in Int /\ inode'[t].count \in Int
      BY <1>1, <1>3
    <3> QED BY <1>2, <1>5, <3>1, <3>2, <3>3, Recount
  <2>7. CountsExact'
    BY <2>6 DEF CountsExact
  <2>8. OneCopy'
    BY <1>2, <1>9, <2>2 DEF OneCopy
  <2>9. \A t \in Slots : inode'[t].count = 0 <=> Listed(freelist', t)
    BY <1>6, <1>9, <2>1, <2>2
  <2>10. Once(freelist')
    BY <1>6, <2>1
  <2> QED BY <1>1, <1>7, <2>1, <2>7, <2>8, <2>9, <2>10
<1> QED
  BY <1>4, <1>11, <1>12, <1>13, <1>14, <1>16, <1>17, <1>18 DEF Changes

------------------------------------------------------------------------------
(* Who has what locked. *)

FilePlaces == {"got", "iread", "iupdat", "bwrite", "truncated", "ifree", "release",
               "opened", "granted", "linked", "direnter", "dirremove", "dirwrite", "iput"}
DirPlaces == {"iget", "iread", "got", "null", "ialloccg", "ifreeino", "direnter",
              "dirremove", "dirwrite", "undir"}

\* A process has its inode at hand locked; its directory.
LockFile(r) == r.ip # None /\ r.pc \in FilePlaces
LockDir(r) ==
    /\ r.at # None
    /\ \/ r.pc \in DirPlaces
       \/ r.op = "make" /\ r.pc \in {"iupdat", "bwrite"} /\ r.then = "direnter"
       \/ r.ret \in {"null", "undir"}

FileSame(p) ==
    /\ LockFile(proc'[p]) <=> LockFile(proc[p])
    /\ LockFile(proc[p]) => proc'[p].ip = proc[p].ip
DirSame(p) ==
    /\ LockDir(proc'[p]) <=> LockDir(proc[p])
    /\ LockDir(proc[p]) => proc'[p].at = proc[p].at
FileTaken(p) == ~LockFile(proc[p]) /\ LockFile(proc'[p])
FileGiven(p) == LockFile(proc[p]) /\ ~LockFile(proc'[p])
DirTaken(p) == ~LockDir(proc[p]) /\ LockDir(proc'[p]) /\ proc'[p].at = proc[p].at
DirGiven(p) == LockDir(proc[p]) /\ ~LockDir(proc'[p])

\* What each step does to the locks of the process that makes it.
LEMMA LockUse ==
    ASSUME TypeOK, Frames, NEW p \in Procs, Step(p)
    PROVE  /\ NameiFound(p) \/ NameiMake(p) \/ NameiEnter(p)
                => FileSame(p) /\ DirTaken(p)
           /\ (\/ GotOpen(p) \/ GotLink(p) \/ GotNull(p) \/ IalloccgNone(p) \/ IalloccgFails(p)
               \/ Ifreeino(p) \/ (IalloccgTake(p) /\ NoInode(p)) \/ EnterFails(p)
               \/ DirenterDone(p) \/ Undir(p))
                => FileSame(p) /\ DirGiven(p)
           /\ Sync(p) \/ IgetHit(p) \/ IgetMiss(p) \/ IreleLast(p) \/ IreleUnlinked(p)
                => FileTaken(p) /\ DirSame(p)
           /\ (\/ IreadFails(p) \/ Granted(p) \/ Linked(p) \/ DirremoveDone(p)
               \/ DirremoveFails(p) \/ Iput(p) \/ Release(p))
                => FileGiven(p) /\ DirSame(p)
           /\ GotExisting(p) \/ MakeFails(p) => FileGiven(p) /\ DirGiven(p)
           /\ (\/ Call(p) \/ CallClose(p) \/ NameiLocked(p) \/ CloseLocked(p) \/ IgetLocked(p)
               \/ GotInUse(p) \/ NameiFails(p) \/ NameiError(p) \/ IgetFull(p) \/ Iread(p)
               \/ GotUnlink(p) \/ GotNew(p) \/ MakeNull(p) \/ Opened(p) \/ OpenedOld(p)
               \/ OpenedFails(p) \/ Out(p) \/ Direnter(p) \/ Dirremove(p) \/ Close(p)
               \/ IreleShared(p) \/ Truncated(p) \/ Ifree(p) \/ IfreeFails(p) \/ Iupdat(p)
               \/ IupdatFails(p) \/ Bwrite(p) \/ (IalloccgTake(p) /\ ~NoInode(p)))
                => FileSame(p) /\ DirSame(p)
<1>1. /\ proc \in [Procs -> Process] /\ proc[p] \in Process /\ Frame(proc[p])
      /\ freelist \in Seq(Slots)
  BY DEF TypeOK, Frames
<1>2. \A l : At(p, l) => proc[p].pc = l
  BY DEF At
<1>3. None \notin Paths /\ None \notin Slots
  BY Assumed
<1>4. \A fd : /\ InUser(fd).ip = None /\ InUser(fd).at = None
              /\ ~LockFile(InUser(fd)) /\ ~LockDir(InUser(fd))
  BY UserHas DEF LockFile, LockDir
<1>5. ASSUME NameiFound(p)
      PROVE  FileSame(p) /\ DirTaken(p)
  <2>1. proc[p].pc = "namei"
    BY <1>2, <1>5 DEF NameiFound
  <2>2. proc[p].at # None /\ proc[p].ip = None /\ proc[p].ret = "user"
    BY <1>1, <2>1 DEF Frame, OpsOK, ThenOK, RetOK, HandOK, PathOK, Lookups, Opens, Ireles
  <2>3. proc'[p].pc = "iget" /\ proc'[p].at = proc[p].at /\ proc'[p].ip = None
    BY <1>1, <1>3, <2>1, <2>2, <1>5 DEF NameiFound, Go, Process
  <2>4. ~LockFile(proc[p])
    BY <2>1, <2>2, <2>3 DEF LockFile, FilePlaces
  <2>5. ~LockFile(proc'[p])
    BY <2>1, <2>2, <2>3 DEF LockFile, FilePlaces
  <2>6. ~LockDir(proc[p])
    BY <2>1, <2>2, <2>3 DEF LockDir, DirPlaces, Ireles, Opens
  <2>7. LockDir(proc'[p])
    BY <2>1, <2>2, <2>3 DEF LockDir, DirPlaces, Ireles, Opens
  <2> QED
    BY <2>1, <2>2, <2>3, <2>4, <2>5, <2>6, <2>7
    DEF FileSame, FileGiven, FileTaken, DirSame, DirGiven, DirTaken
<1>6. ASSUME NameiMake(p)
      PROVE  FileSame(p) /\ DirTaken(p)
  <2>1. proc[p].pc = "namei"
    BY <1>2, <1>6 DEF NameiMake, NameiFree
  <2>2. proc[p].at # None /\ proc[p].ip = None /\ proc[p].ret = "user"
    BY <1>1, <2>1 DEF Frame, OpsOK, ThenOK, RetOK, HandOK, PathOK, Lookups, Opens, Ireles
  <2>3. proc'[p].pc = "ialloccg" /\ proc'[p].at = proc[p].at /\ proc'[p].ip = None
    BY <1>1, <1>3, <2>1, <2>2, <1>6 DEF NameiMake, NameiFree, Go, Process
  <2>4. ~LockFile(proc[p])
    BY <2>1, <2>2, <2>3 DEF LockFile, FilePlaces
  <2>5. ~LockFile(proc'[p])
    BY <2>1, <2>2, <2>3 DEF LockFile, FilePlaces
  <2>6. ~LockDir(proc[p])
    BY <2>1, <2>2, <2>3 DEF LockDir, DirPlaces, Ireles, Opens
  <2>7. LockDir(proc'[p])
    BY <2>1, <2>2, <2>3 DEF LockDir, DirPlaces, Ireles, Opens
  <2> QED
    BY <2>1, <2>2, <2>3, <2>4, <2>5, <2>6, <2>7
    DEF FileSame, FileGiven, FileTaken, DirSame, DirGiven, DirTaken
<1>7. ASSUME NameiEnter(p)
      PROVE  FileSame(p) /\ DirTaken(p)
  <2>1. proc[p].pc = "namei"
    BY <1>2, <1>7 DEF NameiEnter, NameiFree
  <2>2. proc[p].at # None /\ proc[p].ip = None /\ proc[p].ret = "user"
    BY <1>1, <2>1 DEF Frame, OpsOK, ThenOK, RetOK, HandOK, PathOK, Lookups, Opens, Ireles
  <2>3. proc'[p].pc = "direnter" /\ proc'[p].at = proc[p].at /\ proc'[p].ip = None
    BY <1>1, <1>3, <2>1, <2>2, <1>7 DEF NameiEnter, NameiFree, Go, Process
  <2>4. ~LockFile(proc[p])
    BY <2>1, <2>2, <2>3 DEF LockFile, FilePlaces
  <2>5. ~LockFile(proc'[p])
    BY <2>1, <2>2, <2>3 DEF LockFile, FilePlaces
  <2>6. ~LockDir(proc[p])
    BY <2>1, <2>2, <2>3 DEF LockDir, DirPlaces, Ireles, Opens
  <2>7. LockDir(proc'[p])
    BY <2>1, <2>2, <2>3 DEF LockDir, DirPlaces, Ireles, Opens
  <2> QED
    BY <2>1, <2>2, <2>3, <2>4, <2>5, <2>6, <2>7
    DEF FileSame, FileGiven, FileTaken, DirSame, DirGiven, DirTaken
<1>8. ASSUME GotOpen(p)
      PROVE  FileSame(p) /\ DirGiven(p)
  <2>1. proc[p].pc = "got"
    BY <1>2, <1>8 DEF GotOpen
  <2>2. proc[p].at # None /\ proc[p].ip # None /\ proc[p].ret = "user"
    BY <1>1, <2>1 DEF Frame, OpsOK, ThenOK, RetOK, HandOK, PathOK, Lookups, Opens, Ireles
  <2>3. /\ proc'[p].pc = "opened" /\ proc'[p].ip = proc[p].ip
        /\ proc'[p].ret = "user"
    BY <1>1, <1>3, <2>1, <2>2, <1>8 DEF GotOpen, Go, Process
  <2>4. LockFile(proc[p])
    BY <2>1, <2>2, <2>3 DEF LockFile, FilePlaces
  <2>5. LockFile(proc'[p])
    BY <2>1, <2>2, <2>3 DEF LockFile, FilePlaces
  <2>6. LockDir(proc[p])
    BY <2>1, <2>2, <2>3 DEF LockDir, DirPlaces, Ireles, Opens
  <2>7. ~LockDir(proc'[p])
    BY <2>1, <2>2, <2>3 DEF LockDir, DirPlaces, Ireles, Opens
  <2> QED
    BY <2>1, <2>2, <2>3, <2>4, <2>5, <2>6, <2>7
    DEF FileSame, FileGiven, FileTaken, DirSame, DirGiven, DirTaken
<1>9. ASSUME GotLink(p)
      PROVE  FileSame(p) /\ DirGiven(p)
  <2>1. proc[p].pc = "got" /\ proc[p].op = "link"
    BY <1>2, <1>9 DEF GotLink
  <2>2. proc[p].at # None /\ proc[p].ip # None /\ proc[p].ret = "user"
    BY <1>1, <2>1 DEF Frame, OpsOK, ThenOK, RetOK, HandOK, PathOK, Lookups, Opens, Ireles
  <2>3. /\ proc'[p].pc = "iupdat" /\ proc'[p].then = "linked"
        /\ proc'[p].op = "link" /\ proc'[p].ip = proc[p].ip
        /\ proc'[p].ret = "user"
    BY <1>1, <1>3, <2>1, <2>2, <1>9 DEF GotLink, Go, Process
  <2>4. LockFile(proc[p])
    BY <2>1, <2>2, <2>3 DEF LockFile, FilePlaces
  <2>5. LockFile(proc'[p])
    BY <2>1, <2>2, <2>3 DEF LockFile, FilePlaces
  <2>6. LockDir(proc[p])
    BY <2>1, <2>2, <2>3 DEF LockDir, DirPlaces, Ireles, Opens
  <2>7. ~LockDir(proc'[p])
    BY <2>1, <2>2, <2>3 DEF LockDir, DirPlaces, Ireles, Opens
  <2> QED
    BY <2>1, <2>2, <2>3, <2>4, <2>5, <2>6, <2>7
    DEF FileSame, FileGiven, FileTaken, DirSame, DirGiven, DirTaken
<1>10. ASSUME GotNull(p)
       PROVE  FileSame(p) /\ DirGiven(p)
  <2>1. proc[p].pc = "null"
    BY <1>2, <1>10 DEF GotNull
  <2>2. proc[p].at # None /\ proc[p].ip = None /\ proc[p].ret = "user"
    BY <1>1, <2>1 DEF Frame, OpsOK, ThenOK, RetOK, HandOK, PathOK, Lookups, Opens, Ireles
  <2>3. ~LockFile(proc'[p]) /\ ~LockDir(proc'[p])
    BY <1>1, <1>3, <1>4, <2>1, <2>2, <1>10 DEF GotNull, Process, LockFile, LockDir, DirPlaces
  <2>4. ~LockFile(proc[p])
    BY <1>4, <2>1, <2>2, <2>3 DEF LockFile, FilePlaces
  <2>5. ~LockFile(proc'[p])
    BY <1>4, <2>1, <2>2, <2>3 DEF LockFile, FilePlaces
  <2>6. LockDir(proc[p])
    BY <1>4, <2>1, <2>2, <2>3 DEF LockDir, DirPlaces, Ireles, Opens
  <2>7. ~LockDir(proc'[p])
    BY <1>4, <2>1, <2>2, <2>3 DEF LockDir, DirPlaces, Ireles, Opens
  <2> QED
    BY <1>4, <2>1, <2>2, <2>3, <2>4, <2>5, <2>6, <2>7
    DEF FileSame, FileGiven, FileTaken, DirSame, DirGiven, DirTaken
<1>11. ASSUME IalloccgNone(p)
       PROVE  FileSame(p) /\ DirGiven(p)
  <2>1. proc[p].pc = "ialloccg"
    BY <1>2, <1>11 DEF IalloccgNone, NoInode
  <2>2. proc[p].at # None /\ proc[p].ip = None
    BY <1>1, <2>1 DEF Frame, OpsOK, ThenOK, RetOK, HandOK, PathOK, Lookups, Opens, Ireles
  <2>3. proc'[p] = InUser(proc[p].fd)
    BY <1>1, <2>1, <2>2, <1>11 DEF IalloccgNone, NoInode
  <2>4. ~LockFile(proc[p])
    BY <1>4, <2>1, <2>2, <2>3 DEF LockFile, FilePlaces
  <2>5. ~LockFile(proc'[p])
    BY <1>4, <2>1, <2>2, <2>3 DEF LockFile, FilePlaces
  <2>6. LockDir(proc[p])
    BY <1>4, <2>1, <2>2, <2>3 DEF LockDir, DirPlaces, Ireles, Opens
  <2>7. ~LockDir(proc'[p])
    BY <1>4, <2>1, <2>2, <2>3 DEF LockDir, DirPlaces, Ireles, Opens
  <2> QED
    BY <1>4, <2>1, <2>2, <2>3, <2>4, <2>5, <2>6, <2>7
    DEF FileSame, FileGiven, FileTaken, DirSame, DirGiven, DirTaken
<1>12. ASSUME IalloccgFails(p)
       PROVE  FileSame(p) /\ DirGiven(p)
  <2>1. proc[p].pc = "ialloccg"
    BY <1>2, <1>12 DEF IalloccgFails, NoInode
  <2>2. proc[p].at # None /\ proc[p].ip = None
    BY <1>1, <2>1 DEF Frame, OpsOK, ThenOK, RetOK, HandOK, PathOK, Lookups, Opens, Ireles
  <2>3. proc'[p] = InUser(proc[p].fd)
    BY <1>1, <2>1, <2>2, <1>12 DEF IalloccgFails, NoInode
  <2>4. ~LockFile(proc[p])
    BY <1>4, <2>1, <2>2, <2>3 DEF LockFile, FilePlaces
  <2>5. ~LockFile(proc'[p])
    BY <1>4, <2>1, <2>2, <2>3 DEF LockFile, FilePlaces
  <2>6. LockDir(proc[p])
    BY <1>4, <2>1, <2>2, <2>3 DEF LockDir, DirPlaces, Ireles, Opens
  <2>7. ~LockDir(proc'[p])
    BY <1>4, <2>1, <2>2, <2>3 DEF LockDir, DirPlaces, Ireles, Opens
  <2> QED
    BY <1>4, <2>1, <2>2, <2>3, <2>4, <2>5, <2>6, <2>7
    DEF FileSame, FileGiven, FileTaken, DirSame, DirGiven, DirTaken
<1>13. ASSUME Ifreeino(p)
       PROVE  FileSame(p) /\ DirGiven(p)
  <2>1. proc[p].pc = "ifreeino"
    BY <1>2, <1>13 DEF Ifreeino, NoInode
  <2>2. proc[p].at # None /\ proc[p].ip = None
    BY <1>1, <2>1 DEF Frame, OpsOK, ThenOK, RetOK, HandOK, PathOK, Lookups, Opens, Ireles
  <2>3. proc'[p] = InUser(proc[p].fd)
    BY <1>1, <2>1, <2>2, <1>13 DEF Ifreeino, NoInode
  <2>4. ~LockFile(proc[p])
    BY <1>4, <2>1, <2>2, <2>3 DEF LockFile, FilePlaces
  <2>5. ~LockFile(proc'[p])
    BY <1>4, <2>1, <2>2, <2>3 DEF LockFile, FilePlaces
  <2>6. LockDir(proc[p])
    BY <1>4, <2>1, <2>2, <2>3 DEF LockDir, DirPlaces, Ireles, Opens
  <2>7. ~LockDir(proc'[p])
    BY <1>4, <2>1, <2>2, <2>3 DEF LockDir, DirPlaces, Ireles, Opens
  <2> QED
    BY <1>4, <2>1, <2>2, <2>3, <2>4, <2>5, <2>6, <2>7
    DEF FileSame, FileGiven, FileTaken, DirSame, DirGiven, DirTaken
<1>14. ASSUME IalloccgTake(p), NoInode(p)
       PROVE  FileSame(p) /\ DirGiven(p)
  <2>1. proc[p].pc = "ialloccg"
    BY <1>2, <1>14 DEF IalloccgTake, NoInode
  <2>2. proc[p].at # None /\ proc[p].ip = None
    BY <1>1, <2>1 DEF Frame, OpsOK, ThenOK, RetOK, HandOK, PathOK, Lookups, Opens, Ireles
  <2>3. proc'[p] = InUser(proc[p].fd)
    BY <1>1, <2>1, <2>2, <1>14 DEF IalloccgTake, NoInode
  <2>4. ~LockFile(proc[p])
    BY <1>4, <2>1, <2>2, <2>3 DEF LockFile, FilePlaces
  <2>5. ~LockFile(proc'[p])
    BY <1>4, <2>1, <2>2, <2>3 DEF LockFile, FilePlaces
  <2>6. LockDir(proc[p])
    BY <1>4, <2>1, <2>2, <2>3 DEF LockDir, DirPlaces, Ireles, Opens
  <2>7. ~LockDir(proc'[p])
    BY <1>4, <2>1, <2>2, <2>3 DEF LockDir, DirPlaces, Ireles, Opens
  <2> QED
    BY <1>4, <2>1, <2>2, <2>3, <2>4, <2>5, <2>6, <2>7
    DEF FileSame, FileGiven, FileTaken, DirSame, DirGiven, DirTaken
<1>15. ASSUME EnterFails(p)
       PROVE  FileSame(p) /\ DirGiven(p)
  <2>1. proc[p].pc = "direnter" /\ proc[p].op = "enter"
    BY <1>2, <1>15 DEF EnterFails, DirenterFails
  <2>2. proc[p].at # None /\ proc[p].ip = None /\ proc[p].ret = "user"
    BY <1>1, <2>1 DEF Frame, OpsOK, ThenOK, RetOK, HandOK, PathOK, Lookups, Opens, Ireles
  <2>3. proc'[p].pc = "out" /\ proc'[p].ip = None /\ proc'[p].ret = "user"
    BY <1>1, <1>3, <2>1, <2>2, <1>15 DEF EnterFails, DirenterFails, Go, Process
  <2>4. ~LockFile(proc[p])
    BY <2>1, <2>2, <2>3 DEF LockFile, FilePlaces
  <2>5. ~LockFile(proc'[p])
    BY <2>1, <2>2, <2>3 DEF LockFile, FilePlaces
  <2>6. LockDir(proc[p])
    BY <2>1, <2>2, <2>3 DEF LockDir, DirPlaces, Ireles, Opens
  <2>7. ~LockDir(proc'[p])
    BY <2>1, <2>2, <2>3 DEF LockDir, DirPlaces, Ireles, Opens
  <2> QED
    BY <2>1, <2>2, <2>3, <2>4, <2>5, <2>6, <2>7
    DEF FileSame, FileGiven, FileTaken, DirSame, DirGiven, DirTaken
<1>16. ASSUME DirenterDone(p)
       PROVE  FileSame(p) /\ DirGiven(p)
  <2>1. proc[p].pc = "dirwrite" /\ proc[p].op \in {"make", "enter"}
    BY <1>2, <1>16 DEF DirenterDone, Dirwrite
  <2>2. /\ proc[p].at # None /\ (proc[p].ip = None <=> proc[p].op = "enter")
        /\ proc[p].ret = "user"
    BY <1>1, <2>1 DEF Frame, OpsOK, ThenOK, RetOK, HandOK, PathOK, Lookups, Opens, Ireles
  <2>3. /\ proc'[p].pc = (IF proc[p].op = "make" THEN "opened" ELSE "out")
        /\ proc'[p].ip = proc[p].ip /\ proc'[p].ret = "user"
    BY <1>1, <1>3, <2>1, <2>2, <1>16 DEF DirenterDone, Dirwrite, Go, Process
  <2>4. FileSame(p)
    BY <2>1, <2>2, <2>3 DEF FileSame, LockFile, FilePlaces
  <2>5. LockDir(proc[p])
    BY <2>1, <2>2, <2>3 DEF LockDir, DirPlaces, Ireles, Opens
  <2>6. ~LockDir(proc'[p])
    BY <2>1, <2>2, <2>3 DEF LockDir, DirPlaces, Ireles, Opens
  <2> QED
    BY <2>1, <2>2, <2>3, <2>4, <2>5, <2>6
    DEF FileSame, FileGiven, FileTaken, DirSame, DirGiven, DirTaken
<1>17. ASSUME Undir(p)
       PROVE  FileSame(p) /\ DirGiven(p)
  <2>1. proc[p].pc = "undir"
    BY <1>2, <1>17 DEF Undir
  <2>2. proc[p].at # None /\ proc[p].ip = None
    BY <1>1, <2>1 DEF Frame, OpsOK, ThenOK, RetOK, HandOK, PathOK, Lookups, Opens, Ireles
  <2>3. proc'[p] = InUser(proc[p].fd)
    BY <1>1, <2>1, <2>2, <1>17 DEF Undir
  <2>4. ~LockFile(proc[p])
    BY <1>4, <2>1, <2>2, <2>3 DEF LockFile, FilePlaces
  <2>5. ~LockFile(proc'[p])
    BY <1>4, <2>1, <2>2, <2>3 DEF LockFile, FilePlaces
  <2>6. LockDir(proc[p])
    BY <1>4, <2>1, <2>2, <2>3 DEF LockDir, DirPlaces, Ireles, Opens
  <2>7. ~LockDir(proc'[p])
    BY <1>4, <2>1, <2>2, <2>3 DEF LockDir, DirPlaces, Ireles, Opens
  <2> QED
    BY <1>4, <2>1, <2>2, <2>3, <2>4, <2>5, <2>6, <2>7
    DEF FileSame, FileGiven, FileTaken, DirSame, DirGiven, DirTaken
<1>18. ASSUME Sync(p)
       PROVE  FileTaken(p) /\ DirSame(p)
  <2>1. proc[p].pc = "user"
    BY <1>2, <1>18 DEF Sync
  <2>2. proc[p].at = None /\ proc[p].ip = None /\ proc[p].ret = "user"
    BY <1>1, <2>1 DEF Frame, OpsOK, ThenOK, RetOK, HandOK, PathOK, Lookups, Opens, Ireles
  <2>3. /\ proc'[p].pc \in {"iupdat", "iput"} /\ proc'[p].ip # None
        /\ proc'[p].at = None
    BY <1>1, <1>3, <2>1, <2>2, <1>18 DEF Sync, Go, Process
  <2>4. ~LockFile(proc[p])
    BY <2>1, <2>2, <2>3 DEF LockFile, FilePlaces
  <2>5. LockFile(proc'[p])
    BY <2>1, <2>2, <2>3 DEF LockFile, FilePlaces
  <2>6. ~LockDir(proc[p])
    BY <2>1, <2>2, <2>3 DEF LockDir, DirPlaces, Ireles, Opens
  <2>7. ~LockDir(proc'[p])
    BY <2>1, <2>2, <2>3 DEF LockDir, DirPlaces, Ireles, Opens
  <2> QED
    BY <2>1, <2>2, <2>3, <2>4, <2>5, <2>6, <2>7
    DEF FileSame, FileGiven, FileTaken, DirSame, DirGiven, DirTaken
<1>19. ASSUME IgetHit(p)
       PROVE  FileTaken(p) /\ DirSame(p)
  <2>1. proc[p].pc = "iget"
    BY <1>2, <1>19 DEF IgetHit
  <2>2. proc[p].at # None /\ proc[p].ip = None
    BY <1>1, <2>1 DEF Frame, OpsOK, ThenOK, RetOK, HandOK, PathOK, Lookups, Opens, Ireles
  <2>3. proc'[p].pc = "got" /\ proc'[p].ip # None /\ proc'[p].at = proc[p].at
    BY <1>1, <1>3, <2>1, <2>2, <1>19 DEF IgetHit, Go, Process
  <2>4. ~LockFile(proc[p])
    BY <2>1, <2>2, <2>3 DEF LockFile, FilePlaces
  <2>5. LockFile(proc'[p])
    BY <2>1, <2>2, <2>3 DEF LockFile, FilePlaces
  <2>6. LockDir(proc[p])
    BY <2>1, <2>2, <2>3 DEF LockDir, DirPlaces, Ireles, Opens
  <2>7. LockDir(proc'[p])
    BY <2>1, <2>2, <2>3 DEF LockDir, DirPlaces, Ireles, Opens
  <2> QED
    BY <2>1, <2>2, <2>3, <2>4, <2>5, <2>6, <2>7
    DEF FileSame, FileGiven, FileTaken, DirSame, DirGiven, DirTaken
<1>20. ASSUME IgetMiss(p)
       PROVE  FileTaken(p) /\ DirSame(p)
  <2>1. proc[p].pc = "iget"
    BY <1>2, <1>20 DEF IgetMiss
  <2>2. proc[p].at # None /\ proc[p].ip = None
    BY <1>1, <2>1 DEF Frame, OpsOK, ThenOK, RetOK, HandOK, PathOK, Lookups, Opens, Ireles
  <2>3. proc'[p].pc = "iread" /\ proc'[p].ip # None /\ proc'[p].at = proc[p].at
    BY <1>1, <1>3, <2>1, <2>2, <1>20 DEF IgetMiss, Go, Process
  <2>4. ~LockFile(proc[p])
    BY <2>1, <2>2, <2>3 DEF LockFile, FilePlaces
  <2>5. LockFile(proc'[p])
    BY <2>1, <2>2, <2>3 DEF LockFile, FilePlaces
  <2>6. LockDir(proc[p])
    BY <2>1, <2>2, <2>3 DEF LockDir, DirPlaces, Ireles, Opens
  <2>7. LockDir(proc'[p])
    BY <2>1, <2>2, <2>3 DEF LockDir, DirPlaces, Ireles, Opens
  <2> QED
    BY <2>1, <2>2, <2>3, <2>4, <2>5, <2>6, <2>7
    DEF FileSame, FileGiven, FileTaken, DirSame, DirGiven, DirTaken
<1>21. ASSUME IreleLast(p)
       PROVE  FileTaken(p) /\ DirSame(p)
  <2>1. proc[p].pc = "irele"
    BY <1>2, <1>21 DEF IreleLast
  <2>2. proc[p].ip # None
    BY <1>1, <2>1 DEF Frame, OpsOK, ThenOK, RetOK, HandOK, PathOK, Lookups, Opens, Ireles
  <2>3. /\ proc'[p].pc \in {"iupdat", "release"} /\ proc'[p].then = "release"
        /\ proc'[p].ip = proc[p].ip /\ proc'[p].at = proc[p].at
        /\ proc'[p].op = proc[p].op /\ proc'[p].ret = proc[p].ret
    BY <1>1, <1>3, <2>1, <2>2, <1>21 DEF IreleLast, Go, Process
  <2>4. ~LockFile(proc[p])
    BY <2>1, <2>2, <2>3 DEF LockFile, FilePlaces
  <2>5. LockFile(proc'[p])
    BY <2>1, <2>2, <2>3 DEF LockFile, FilePlaces
  <2>6. DirSame(p)
    BY <2>1, <2>2, <2>3 DEF DirSame, LockDir, DirPlaces, Ireles
  <2> QED
    BY <2>1, <2>2, <2>3, <2>4, <2>5, <2>6
    DEF FileSame, FileGiven, FileTaken, DirSame, DirGiven, DirTaken
<1>22. ASSUME IreleUnlinked(p)
       PROVE  FileTaken(p) /\ DirSame(p)
  <2>1. proc[p].pc = "irele"
    BY <1>2, <1>22 DEF IreleUnlinked
  <2>2. proc[p].ip # None
    BY <1>1, <2>1 DEF Frame, OpsOK, ThenOK, RetOK, HandOK, PathOK, Lookups, Opens, Ireles
  <2>3. /\ proc'[p].pc = "iupdat" /\ proc'[p].then = "truncated"
        /\ proc'[p].ip = proc[p].ip /\ proc'[p].at = proc[p].at
        /\ proc'[p].op = proc[p].op /\ proc'[p].ret = proc[p].ret
    BY <1>1, <1>3, <2>1, <2>2, <1>22 DEF IreleUnlinked, Go, Process
  <2>4. ~LockFile(proc[p])
    BY <2>1, <2>2, <2>3 DEF LockFile, FilePlaces
  <2>5. LockFile(proc'[p])
    BY <2>1, <2>2, <2>3 DEF LockFile, FilePlaces
  <2>6. DirSame(p)
    BY <2>1, <2>2, <2>3 DEF DirSame, LockDir, DirPlaces, Ireles
  <2> QED
    BY <2>1, <2>2, <2>3, <2>4, <2>5, <2>6
    DEF FileSame, FileGiven, FileTaken, DirSame, DirGiven, DirTaken
<1>23. ASSUME IreadFails(p)
       PROVE  FileGiven(p) /\ DirSame(p)
  <2>1. proc[p].pc = "iread"
    BY <1>2, <1>23 DEF IreadFails
  <2>2. proc[p].ip # None /\ proc[p].at # None
    BY <1>1, <2>1 DEF Frame, OpsOK, ThenOK, RetOK, HandOK, PathOK, Lookups, Opens, Ireles
  <2>3. proc'[p].pc = "irele" /\ proc'[p].ret = "null" /\ proc'[p].at = proc[p].at
    BY <1>1, <1>3, <2>1, <2>2, <1>23 DEF IreadFails, Go, Process
  <2>4. LockFile(proc[p])
    BY <2>1, <2>2, <2>3 DEF LockFile, FilePlaces
  <2>5. ~LockFile(proc'[p])
    BY <2>1, <2>2, <2>3 DEF LockFile, FilePlaces
  <2>6. LockDir(proc[p])
    BY <2>1, <2>2, <2>3 DEF LockDir, DirPlaces, Ireles, Opens
  <2>7. LockDir(proc'[p])
    BY <2>1, <2>2, <2>3 DEF LockDir, DirPlaces, Ireles, Opens
  <2> QED
    BY <2>1, <2>2, <2>3, <2>4, <2>5, <2>6, <2>7
    DEF FileSame, FileGiven, FileTaken, DirSame, DirGiven, DirTaken
<1>24. ASSUME Granted(p)
       PROVE  FileGiven(p) /\ DirSame(p)
  <2>1. proc[p].pc = "granted"
    BY <1>2, <1>24 DEF Granted
  <2>2. proc[p].ip # None /\ proc[p].ret = "user"
    BY <1>1, <2>1 DEF Frame, OpsOK, ThenOK, RetOK, HandOK, PathOK, Lookups, Opens, Ireles
  <2>3. proc'[p] = InUser(proc[p].ip)
    BY <1>1, <2>1, <2>2, <1>24 DEF Granted
  <2>4. LockFile(proc[p])
    BY <1>4, <2>1, <2>2, <2>3 DEF LockFile, FilePlaces
  <2>5. ~LockFile(proc'[p])
    BY <1>4, <2>1, <2>2, <2>3 DEF LockFile, FilePlaces
  <2>6. ~LockDir(proc[p])
    BY <1>4, <2>1, <2>2, <2>3 DEF LockDir, DirPlaces, Ireles, Opens
  <2>7. ~LockDir(proc'[p])
    BY <1>4, <2>1, <2>2, <2>3 DEF LockDir, DirPlaces, Ireles, Opens
  <2> QED
    BY <1>4, <2>1, <2>2, <2>3, <2>4, <2>5, <2>6, <2>7
    DEF FileSame, FileGiven, FileTaken, DirSame, DirGiven, DirTaken
<1>25. ASSUME Linked(p)
       PROVE  FileGiven(p) /\ DirSame(p)
  <2>1. proc[p].pc = "linked"
    BY <1>2, <1>25 DEF Linked
  <2>2. proc[p].ip # None /\ proc[p].ret = "user"
    BY <1>1, <2>1 DEF Frame, OpsOK, ThenOK, RetOK, HandOK, PathOK, Lookups, Opens, Ireles
  <2>3. /\ proc'[p].pc \in {"out", "namei"} /\ proc'[p].ip = None
        /\ proc'[p].ret = "user"
    BY <1>1, <1>3, <2>1, <2>2, <1>25 DEF Linked, Go, Process
  <2>4. LockFile(proc[p])
    BY <2>1, <2>2, <2>3 DEF LockFile, FilePlaces
  <2>5. ~LockFile(proc'[p])
    BY <2>1, <2>2, <2>3 DEF LockFile, FilePlaces
  <2>6. ~LockDir(proc[p])
    BY <2>1, <2>2, <2>3 DEF LockDir, DirPlaces, Ireles, Opens
  <2>7. ~LockDir(proc'[p])
    BY <2>1, <2>2, <2>3 DEF LockDir, DirPlaces, Ireles, Opens
  <2> QED
    BY <2>1, <2>2, <2>3, <2>4, <2>5, <2>6, <2>7
    DEF FileSame, FileGiven, FileTaken, DirSame, DirGiven, DirTaken
<1>26. ASSUME DirremoveDone(p)
       PROVE  FileGiven(p) /\ DirSame(p)
  <2>1. proc[p].pc = "dirwrite" /\ proc[p].op = "unlink"
    BY <1>2, <1>26 DEF DirremoveDone, Dirwrite
  <2>2. proc[p].ip # None /\ proc[p].at # None
    BY <1>1, <2>1 DEF Frame, OpsOK, ThenOK, RetOK, HandOK, PathOK, Lookups, Opens, Ireles
  <2>3. /\ proc'[p].pc = "irele" /\ proc'[p].ret = "undir"
        /\ proc'[p].at = proc[p].at
    BY <1>1, <1>3, <2>1, <2>2, <1>26 DEF DirremoveDone, Dirwrite, Go, Process
  <2>4. LockFile(proc[p])
    BY <2>1, <2>2, <2>3 DEF LockFile, FilePlaces
  <2>5. ~LockFile(proc'[p])
    BY <2>1, <2>2, <2>3 DEF LockFile, FilePlaces
  <2>6. LockDir(proc[p])
    BY <2>1, <2>2, <2>3 DEF LockDir, DirPlaces, Ireles, Opens
  <2>7. LockDir(proc'[p])
    BY <2>1, <2>2, <2>3 DEF LockDir, DirPlaces, Ireles, Opens
  <2> QED
    BY <2>1, <2>2, <2>3, <2>4, <2>5, <2>6, <2>7
    DEF FileSame, FileGiven, FileTaken, DirSame, DirGiven, DirTaken
<1>27. ASSUME DirremoveFails(p)
       PROVE  FileGiven(p) /\ DirSame(p)
  <2>1. proc[p].pc = "dirremove"
    BY <1>2, <1>27 DEF DirremoveFails
  <2>2. proc[p].ip # None /\ proc[p].at # None
    BY <1>1, <2>1 DEF Frame, OpsOK, ThenOK, RetOK, HandOK, PathOK, Lookups, Opens, Ireles
  <2>3. /\ proc'[p].pc = "irele" /\ proc'[p].ret = "undir"
        /\ proc'[p].at = proc[p].at
    BY <1>1, <1>3, <2>1, <2>2, <1>27 DEF DirremoveFails, Go, Process
  <2>4. LockFile(proc[p])
    BY <2>1, <2>2, <2>3 DEF LockFile, FilePlaces
  <2>5. ~LockFile(proc'[p])
    BY <2>1, <2>2, <2>3 DEF LockFile, FilePlaces
  <2>6. LockDir(proc[p])
    BY <2>1, <2>2, <2>3 DEF LockDir, DirPlaces, Ireles, Opens
  <2>7. LockDir(proc'[p])
    BY <2>1, <2>2, <2>3 DEF LockDir, DirPlaces, Ireles, Opens
  <2> QED
    BY <2>1, <2>2, <2>3, <2>4, <2>5, <2>6, <2>7
    DEF FileSame, FileGiven, FileTaken, DirSame, DirGiven, DirTaken
<1>28. ASSUME Iput(p)
       PROVE  FileGiven(p) /\ DirSame(p)
  <2>1. proc[p].pc = "iput"
    BY <1>2, <1>28 DEF Iput
  <2>2. proc[p].ip # None /\ proc[p].ret = "user"
    BY <1>1, <2>1 DEF Frame, OpsOK, ThenOK, RetOK, HandOK, PathOK, Lookups, Opens, Ireles
  <2>3. proc'[p].pc = "irele" /\ proc'[p].ret = "user"
    BY <1>1, <1>3, <2>1, <2>2, <1>28 DEF Iput, Go, Process
  <2>4. LockFile(proc[p])
    BY <2>1, <2>2, <2>3 DEF LockFile, FilePlaces
  <2>5. ~LockFile(proc'[p])
    BY <2>1, <2>2, <2>3 DEF LockFile, FilePlaces
  <2>6. ~LockDir(proc[p])
    BY <2>1, <2>2, <2>3 DEF LockDir, DirPlaces, Ireles, Opens
  <2>7. ~LockDir(proc'[p])
    BY <2>1, <2>2, <2>3 DEF LockDir, DirPlaces, Ireles, Opens
  <2> QED
    BY <2>1, <2>2, <2>3, <2>4, <2>5, <2>6, <2>7
    DEF FileSame, FileGiven, FileTaken, DirSame, DirGiven, DirTaken
<1>29. ASSUME Release(p)
       PROVE  FileGiven(p) /\ DirSame(p)
  <2>1. proc[p].pc = "release" /\ Return(p)
    BY <1>2, <1>29 DEF Release
  <2>2. proc[p].ip # None /\ proc[p].ret \in {"user", "null", "undir", "out"}
    BY <1>1, <2>1 DEF Frame, HandOK, RetOK, Ireles
  <2>3. LockFile(proc[p])
    BY <2>1, <2>2 DEF LockFile, FilePlaces
  <2>4. CASE proc[p].ret = "user"
    <3>1. proc'[p] = InUser(proc[p].fd)
      BY <1>1, <2>1, <2>4 DEF Return
    <3>2. ~LockDir(proc[p])
      BY <2>1, <2>4 DEF LockDir, DirPlaces
    <3>3. ~LockFile(proc'[p]) /\ ~LockDir(proc'[p])
      BY <1>4, <3>1
    <3> QED BY <2>3, <3>2, <3>3 DEF FileSame, FileGiven, DirSame
  <2>5. CASE proc[p].ret # "user"
    <3>1. /\ proc'[p].pc = proc[p].ret /\ proc'[p].ip = None /\ proc'[p].at = proc[p].at
          /\ proc'[p].op = proc[p].op /\ proc'[p].ret = "user"
      BY <1>1, <2>1, <2>5 DEF Return, Process
    <3>2. ~LockFile(proc'[p])
      BY <3>1 DEF LockFile
    <3>3. LockDir(proc'[p]) <=> LockDir(proc[p])
      BY <2>1, <2>2, <2>5, <3>1 DEF LockDir, DirPlaces
    <3> QED BY <2>3, <3>1, <3>2, <3>3 DEF FileSame, FileGiven, DirSame
  <2> QED BY <2>4, <2>5
<1>30. ASSUME GotExisting(p)
       PROVE  FileGiven(p) /\ DirGiven(p)
  <2>1. proc[p].pc = "got" /\ proc[p].op = "enter"
    BY <1>2, <1>30 DEF GotExisting
  <2>2. proc[p].ip # None /\ proc[p].at # None
    BY <1>1, <2>1 DEF Frame, OpsOK, ThenOK, RetOK, HandOK, PathOK, Lookups, Opens, Ireles
  <2>3. proc'[p].pc = "irele" /\ proc'[p].ret = "out"
    BY <1>1, <1>3, <2>1, <2>2, <1>30 DEF GotExisting, Go, Process
  <2>4. LockFile(proc[p])
    BY <2>1, <2>2, <2>3 DEF LockFile, FilePlaces
  <2>5. ~LockFile(proc'[p])
    BY <2>1, <2>2, <2>3 DEF LockFile, FilePlaces
  <2>6. LockDir(proc[p])
    BY <2>1, <2>2, <2>3 DEF LockDir, DirPlaces, Ireles, Opens
  <2>7. ~LockDir(proc'[p])
    BY <2>1, <2>2, <2>3 DEF LockDir, DirPlaces, Ireles, Opens
  <2> QED
    BY <2>1, <2>2, <2>3, <2>4, <2>5, <2>6, <2>7
    DEF FileSame, FileGiven, FileTaken, DirSame, DirGiven, DirTaken
<1>31. ASSUME MakeFails(p)
       PROVE  FileGiven(p) /\ DirGiven(p)
  <2>1. proc[p].pc = "direnter" /\ proc[p].op = "make"
    BY <1>2, <1>31 DEF MakeFails, DirenterFails
  <2>2. proc[p].ip # None /\ proc[p].at # None /\ proc[p].ret = "user"
    BY <1>1, <2>1 DEF Frame, OpsOK, ThenOK, RetOK, HandOK, PathOK, Lookups, Opens, Ireles
  <2>3. proc'[p].pc = "irele" /\ proc'[p].ret = "user"
    BY <1>1, <1>3, <2>1, <2>2, <1>31 DEF MakeFails, DirenterFails, Go, Process
  <2>4. LockFile(proc[p])
    BY <2>1, <2>2, <2>3 DEF LockFile, FilePlaces
  <2>5. ~LockFile(proc'[p])
    BY <2>1, <2>2, <2>3 DEF LockFile, FilePlaces
  <2>6. LockDir(proc[p])
    BY <2>1, <2>2, <2>3 DEF LockDir, DirPlaces, Ireles, Opens
  <2>7. ~LockDir(proc'[p])
    BY <2>1, <2>2, <2>3 DEF LockDir, DirPlaces, Ireles, Opens
  <2> QED
    BY <2>1, <2>2, <2>3, <2>4, <2>5, <2>6, <2>7
    DEF FileSame, FileGiven, FileTaken, DirSame, DirGiven, DirTaken
<1>32. ASSUME Call(p)
       PROVE  FileSame(p) /\ DirSame(p)
  <2>1. PICK op \in Calls[p], a \in Paths, b \in Paths :
          proc' = [proc EXCEPT ![p] = [@ EXCEPT !.op = op, !.at = a, !.to = b, !.pc = "namei"]]
    BY <1>32 DEF Call
  <2>2. proc[p].pc = "user"
    BY <1>2, <1>32 DEF Call
  <2>3. proc[p].ip = None /\ proc[p].ret = "user" /\ proc[p].at = None
    BY <1>1, <2>2 DEF Frame, OpsOK, RetOK, HandOK, PathOK, Ireles
  <2>4. proc'[p].pc = "namei" /\ proc'[p].ip = None /\ proc'[p].ret = "user"
    BY <1>1, <2>1, <2>3 DEF Process
  <2>5. ~LockFile(proc[p]) /\ ~LockFile(proc'[p]) /\ ~LockDir(proc[p])
    BY <2>3, <2>4 DEF LockFile, LockDir
  <2>6. ~LockDir(proc'[p])
    BY <2>4 DEF LockDir, DirPlaces
  <2> QED BY <2>5, <2>6 DEF FileSame, DirSame
<1>33. ASSUME CallClose(p)
       PROVE  FileSame(p) /\ DirSame(p)
  <2>1. proc[p].pc = "user"
    BY <1>2, <1>33 DEF CallClose
  <2>2. proc[p].at = None /\ proc[p].ip = None /\ proc[p].ret = "user"
    BY <1>1, <2>1 DEF Frame, OpsOK, ThenOK, RetOK, HandOK, PathOK, Lookups, Opens, Ireles
  <2>3. proc'[p].pc = "close" /\ proc'[p].ip = None /\ proc'[p].at = None
    BY <1>1, <1>3, <2>1, <2>2, <1>33 DEF CallClose, Go, Process
  <2>4. ~LockFile(proc[p])
    BY <2>1, <2>2, <2>3 DEF LockFile, FilePlaces
  <2>5. ~LockFile(proc'[p])
    BY <2>1, <2>2, <2>3 DEF LockFile, FilePlaces
  <2>6. ~LockDir(proc[p])
    BY <2>1, <2>2, <2>3 DEF LockDir, DirPlaces, Ireles, Opens
  <2>7. ~LockDir(proc'[p])
    BY <2>1, <2>2, <2>3 DEF LockDir, DirPlaces, Ireles, Opens
  <2> QED
    BY <2>1, <2>2, <2>3, <2>4, <2>5, <2>6, <2>7
    DEF FileSame, FileGiven, FileTaken, DirSame, DirGiven, DirTaken
<1>34. ASSUME NameiLocked(p) \/ CloseLocked(p) \/ IgetLocked(p) \/ GotInUse(p)
       PROVE  FileSame(p) /\ DirSame(p)
  <2>1. proc' = proc
    BY <1>34 DEF NameiLocked, CloseLocked, IgetLocked, GotInUse, SleepOn
  <2> QED BY <2>1 DEF FileSame, DirSame
<1>35. ASSUME NameiFails(p)
       PROVE  FileSame(p) /\ DirSame(p)
  <2>1. proc[p].pc = "namei"
    BY <1>2, <1>35 DEF NameiFails
  <2>2. proc[p].ip = None /\ proc[p].ret = "user"
    BY <1>1, <2>1 DEF Frame, OpsOK, ThenOK, RetOK, HandOK, PathOK, Lookups, Opens, Ireles
  <2>3. proc'[p] = InUser(proc[p].fd)
    BY <1>1, <2>1, <2>2, <1>35 DEF NameiFails
  <2>4. ~LockFile(proc[p])
    BY <1>4, <2>1, <2>2, <2>3 DEF LockFile, FilePlaces
  <2>5. ~LockFile(proc'[p])
    BY <1>4, <2>1, <2>2, <2>3 DEF LockFile, FilePlaces
  <2>6. ~LockDir(proc[p])
    BY <1>4, <2>1, <2>2, <2>3 DEF LockDir, DirPlaces, Ireles, Opens
  <2>7. ~LockDir(proc'[p])
    BY <1>4, <2>1, <2>2, <2>3 DEF LockDir, DirPlaces, Ireles, Opens
  <2> QED
    BY <1>4, <2>1, <2>2, <2>3, <2>4, <2>5, <2>6, <2>7
    DEF FileSame, FileGiven, FileTaken, DirSame, DirGiven, DirTaken
<1>36. ASSUME NameiError(p)
       PROVE  FileSame(p) /\ DirSame(p)
  <2>1. proc[p].pc = "namei"
    BY <1>2, <1>36 DEF NameiError
  <2>2. proc[p].ip = None /\ proc[p].ret = "user"
    BY <1>1, <2>1 DEF Frame, OpsOK, ThenOK, RetOK, HandOK, PathOK, Lookups, Opens, Ireles
  <2>3. ~LockFile(proc'[p]) /\ ~LockDir(proc'[p])
    BY <1>1, <1>3, <1>4, <2>1, <2>2, <1>36 DEF NameiError, Process, LockFile, LockDir, DirPlaces
  <2>4. ~LockFile(proc[p])
    BY <1>4, <2>1, <2>2, <2>3 DEF LockFile, FilePlaces
  <2>5. ~LockFile(proc'[p])
    BY <1>4, <2>1, <2>2, <2>3 DEF LockFile, FilePlaces
  <2>6. ~LockDir(proc[p])
    BY <1>4, <2>1, <2>2, <2>3 DEF LockDir, DirPlaces, Ireles, Opens
  <2>7. ~LockDir(proc'[p])
    BY <1>4, <2>1, <2>2, <2>3 DEF LockDir, DirPlaces, Ireles, Opens
  <2> QED
    BY <1>4, <2>1, <2>2, <2>3, <2>4, <2>5, <2>6, <2>7
    DEF FileSame, FileGiven, FileTaken, DirSame, DirGiven, DirTaken
<1>37. ASSUME IgetFull(p)
       PROVE  FileSame(p) /\ DirSame(p)
  <2>1. proc[p].pc = "iget"
    BY <1>2, <1>37 DEF IgetFull
  <2>2. proc[p].ip = None /\ proc[p].at # None
    BY <1>1, <2>1 DEF Frame, OpsOK, ThenOK, RetOK, HandOK, PathOK, Lookups, Opens, Ireles
  <2>3. proc'[p].pc = "null" /\ proc'[p].ip = None /\ proc'[p].at = proc[p].at
    BY <1>1, <1>3, <2>1, <2>2, <1>37 DEF IgetFull, Go, Process
  <2>4. ~LockFile(proc[p])
    BY <2>1, <2>2, <2>3 DEF LockFile, FilePlaces
  <2>5. ~LockFile(proc'[p])
    BY <2>1, <2>2, <2>3 DEF LockFile, FilePlaces
  <2>6. LockDir(proc[p])
    BY <2>1, <2>2, <2>3 DEF LockDir, DirPlaces, Ireles, Opens
  <2>7. LockDir(proc'[p])
    BY <2>1, <2>2, <2>3 DEF LockDir, DirPlaces, Ireles, Opens
  <2> QED
    BY <2>1, <2>2, <2>3, <2>4, <2>5, <2>6, <2>7
    DEF FileSame, FileGiven, FileTaken, DirSame, DirGiven, DirTaken
<1>38. ASSUME Iread(p)
       PROVE  FileSame(p) /\ DirSame(p)
  <2>1. proc[p].pc = "iread"
    BY <1>2, <1>38 DEF Iread
  <2>2. proc[p].ip # None /\ proc[p].at # None
    BY <1>1, <2>1 DEF Frame, OpsOK, ThenOK, RetOK, HandOK, PathOK, Lookups, Opens, Ireles
  <2>3. /\ proc'[p].pc = "got" /\ proc'[p].ip = proc[p].ip
        /\ proc'[p].at = proc[p].at
    BY <1>1, <1>3, <2>1, <2>2, <1>38 DEF Iread, Go, Process
  <2>4. LockFile(proc[p])
    BY <2>1, <2>2, <2>3 DEF LockFile, FilePlaces
  <2>5. LockFile(proc'[p])
    BY <2>1, <2>2, <2>3 DEF LockFile, FilePlaces
  <2>6. LockDir(proc[p])
    BY <2>1, <2>2, <2>3 DEF LockDir, DirPlaces, Ireles, Opens
  <2>7. LockDir(proc'[p])
    BY <2>1, <2>2, <2>3 DEF LockDir, DirPlaces, Ireles, Opens
  <2> QED
    BY <2>1, <2>2, <2>3, <2>4, <2>5, <2>6, <2>7
    DEF FileSame, FileGiven, FileTaken, DirSame, DirGiven, DirTaken
<1>39. ASSUME GotUnlink(p)
       PROVE  FileSame(p) /\ DirSame(p)
  <2>1. proc[p].pc = "got"
    BY <1>2, <1>39 DEF GotUnlink
  <2>2. proc[p].ip # None /\ proc[p].at # None
    BY <1>1, <2>1 DEF Frame, OpsOK, ThenOK, RetOK, HandOK, PathOK, Lookups, Opens, Ireles
  <2>3. /\ proc'[p].pc = "dirremove" /\ proc'[p].ip = proc[p].ip
        /\ proc'[p].at = proc[p].at
    BY <1>1, <1>3, <2>1, <2>2, <1>39 DEF GotUnlink, Go, Process
  <2>4. LockFile(proc[p])
    BY <2>1, <2>2, <2>3 DEF LockFile, FilePlaces
  <2>5. LockFile(proc'[p])
    BY <2>1, <2>2, <2>3 DEF LockFile, FilePlaces
  <2>6. LockDir(proc[p])
    BY <2>1, <2>2, <2>3 DEF LockDir, DirPlaces, Ireles, Opens
  <2>7. LockDir(proc'[p])
    BY <2>1, <2>2, <2>3 DEF LockDir, DirPlaces, Ireles, Opens
  <2> QED
    BY <2>1, <2>2, <2>3, <2>4, <2>5, <2>6, <2>7
    DEF FileSame, FileGiven, FileTaken, DirSame, DirGiven, DirTaken
<1>40. ASSUME GotNew(p)
       PROVE  FileSame(p) /\ DirSame(p)
  <2>1. proc[p].pc = "got" /\ proc[p].op = "make"
    BY <1>2, <1>40 DEF GotNew
  <2>2. proc[p].ip # None /\ proc[p].at # None
    BY <1>1, <2>1 DEF Frame, OpsOK, ThenOK, RetOK, HandOK, PathOK, Lookups, Opens, Ireles
  <2>3. /\ proc'[p].pc = "iupdat" /\ proc'[p].then = "direnter"
        /\ proc'[p].op = "make" /\ proc'[p].ip = proc[p].ip
        /\ proc'[p].at = proc[p].at
    BY <1>1, <1>3, <2>1, <2>2, <1>40 DEF GotNew, Go, Process
  <2>4. LockFile(proc[p])
    BY <2>1, <2>2, <2>3 DEF LockFile, FilePlaces
  <2>5. LockFile(proc'[p])
    BY <2>1, <2>2, <2>3 DEF LockFile, FilePlaces
  <2>6. LockDir(proc[p])
    BY <2>1, <2>2, <2>3 DEF LockDir, DirPlaces, Ireles, Opens
  <2>7. LockDir(proc'[p])
    BY <2>1, <2>2, <2>3 DEF LockDir, DirPlaces, Ireles, Opens
  <2> QED
    BY <2>1, <2>2, <2>3, <2>4, <2>5, <2>6, <2>7
    DEF FileSame, FileGiven, FileTaken, DirSame, DirGiven, DirTaken
<1>41. ASSUME MakeNull(p)
       PROVE  FileSame(p) /\ DirSame(p)
  <2>1. proc[p].pc = "null"
    BY <1>2, <1>41 DEF MakeNull
  <2>2. proc[p].ip = None /\ proc[p].at # None
    BY <1>1, <2>1 DEF Frame, OpsOK, ThenOK, RetOK, HandOK, PathOK, Lookups, Opens, Ireles
  <2>3. proc'[p].pc = "ifreeino" /\ proc'[p].ip = None /\ proc'[p].at = proc[p].at
    BY <1>1, <1>3, <2>1, <2>2, <1>41 DEF MakeNull, Go, Process
  <2>4. ~LockFile(proc[p])
    BY <2>1, <2>2, <2>3 DEF LockFile, FilePlaces
  <2>5. ~LockFile(proc'[p])
    BY <2>1, <2>2, <2>3 DEF LockFile, FilePlaces
  <2>6. LockDir(proc[p])
    BY <2>1, <2>2, <2>3 DEF LockDir, DirPlaces, Ireles, Opens
  <2>7. LockDir(proc'[p])
    BY <2>1, <2>2, <2>3 DEF LockDir, DirPlaces, Ireles, Opens
  <2> QED
    BY <2>1, <2>2, <2>3, <2>4, <2>5, <2>6, <2>7
    DEF FileSame, FileGiven, FileTaken, DirSame, DirGiven, DirTaken
<1>42. ASSUME Opened(p)
       PROVE  FileSame(p) /\ DirSame(p)
  <2>1. proc[p].pc = "opened"
    BY <1>2, <1>42 DEF Opened
  <2>2. proc[p].ip # None /\ proc[p].ret = "user"
    BY <1>1, <2>1 DEF Frame, OpsOK, ThenOK, RetOK, HandOK, PathOK, Lookups, Opens, Ireles
  <2>3. /\ proc'[p].pc = "granted" /\ proc'[p].ip = proc[p].ip
        /\ proc'[p].ret = "user"
    BY <1>1, <1>3, <2>1, <2>2, <1>42 DEF Opened, Go, Process
  <2>4. LockFile(proc[p])
    BY <2>1, <2>2, <2>3 DEF LockFile, FilePlaces
  <2>5. LockFile(proc'[p])
    BY <2>1, <2>2, <2>3 DEF LockFile, FilePlaces
  <2>6. ~LockDir(proc[p])
    BY <2>1, <2>2, <2>3 DEF LockDir, DirPlaces, Ireles, Opens
  <2>7. ~LockDir(proc'[p])
    BY <2>1, <2>2, <2>3 DEF LockDir, DirPlaces, Ireles, Opens
  <2> QED
    BY <2>1, <2>2, <2>3, <2>4, <2>5, <2>6, <2>7
    DEF FileSame, FileGiven, FileTaken, DirSame, DirGiven, DirTaken
<1>43. ASSUME OpenedOld(p)
       PROVE  FileSame(p) /\ DirSame(p)
  <2>1. proc[p].pc = "opened" /\ proc[p].op = "creat"
    BY <1>2, <1>43 DEF OpenedOld
  <2>2. proc[p].ip # None /\ proc[p].ret = "user"
    BY <1>1, <2>1 DEF Frame, OpsOK, ThenOK, RetOK, HandOK, PathOK, Lookups, Opens, Ireles
  <2>3. /\ proc'[p].pc = "iupdat" /\ proc'[p].op = "creat"
        /\ proc'[p].ip = proc[p].ip /\ proc'[p].ret = "user"
    BY <1>1, <1>3, <2>1, <2>2, <1>43 DEF OpenedOld, Go, Process
  <2>4. LockFile(proc[p])
    BY <2>1, <2>2, <2>3 DEF LockFile, FilePlaces
  <2>5. LockFile(proc'[p])
    BY <2>1, <2>2, <2>3 DEF LockFile, FilePlaces
  <2>6. ~LockDir(proc[p])
    BY <2>1, <2>2, <2>3 DEF LockDir, DirPlaces, Ireles, Opens
  <2>7. ~LockDir(proc'[p])
    BY <2>1, <2>2, <2>3 DEF LockDir, DirPlaces, Ireles, Opens
  <2> QED
    BY <2>1, <2>2, <2>3, <2>4, <2>5, <2>6, <2>7
    DEF FileSame, FileGiven, FileTaken, DirSame, DirGiven, DirTaken
<1>44. ASSUME OpenedFails(p)
       PROVE  FileSame(p) /\ DirSame(p)
  <2>1. proc[p].pc = "opened"
    BY <1>2, <1>44 DEF OpenedFails
  <2>2. proc[p].ip # None /\ proc[p].ret = "user"
    BY <1>1, <2>1 DEF Frame, OpsOK, ThenOK, RetOK, HandOK, PathOK, Lookups, Opens, Ireles
  <2>3. proc'[p].pc = "iput" /\ proc'[p].ip = proc[p].ip /\ proc'[p].ret = "user"
    BY <1>1, <1>3, <2>1, <2>2, <1>44 DEF OpenedFails, Go, Process
  <2>4. LockFile(proc[p])
    BY <2>1, <2>2, <2>3 DEF LockFile, FilePlaces
  <2>5. LockFile(proc'[p])
    BY <2>1, <2>2, <2>3 DEF LockFile, FilePlaces
  <2>6. ~LockDir(proc[p])
    BY <2>1, <2>2, <2>3 DEF LockDir, DirPlaces, Ireles, Opens
  <2>7. ~LockDir(proc'[p])
    BY <2>1, <2>2, <2>3 DEF LockDir, DirPlaces, Ireles, Opens
  <2> QED
    BY <2>1, <2>2, <2>3, <2>4, <2>5, <2>6, <2>7
    DEF FileSame, FileGiven, FileTaken, DirSame, DirGiven, DirTaken
<1>45. ASSUME Out(p)
       PROVE  FileSame(p) /\ DirSame(p)
  <2>1. proc[p].pc = "out"
    BY <1>2, <1>45 DEF Out
  <2>2. proc[p].ip = None /\ proc[p].ret = "user"
    BY <1>1, <2>1 DEF Frame, OpsOK, ThenOK, RetOK, HandOK, PathOK, Lookups, Opens, Ireles
  <2>3. proc'[p].pc = "irele" /\ proc'[p].ret = "user"
    BY <1>1, <1>3, <2>1, <2>2, <1>45 DEF Out, Go, Process
  <2>4. ~LockFile(proc[p])
    BY <2>1, <2>2, <2>3 DEF LockFile, FilePlaces
  <2>5. ~LockFile(proc'[p])
    BY <2>1, <2>2, <2>3 DEF LockFile, FilePlaces
  <2>6. ~LockDir(proc[p])
    BY <2>1, <2>2, <2>3 DEF LockDir, DirPlaces, Ireles, Opens
  <2>7. ~LockDir(proc'[p])
    BY <2>1, <2>2, <2>3 DEF LockDir, DirPlaces, Ireles, Opens
  <2> QED
    BY <2>1, <2>2, <2>3, <2>4, <2>5, <2>6, <2>7
    DEF FileSame, FileGiven, FileTaken, DirSame, DirGiven, DirTaken
<1>46. ASSUME Direnter(p)
       PROVE  FileSame(p) /\ DirSame(p)
  <2>1. proc[p].pc = "direnter"
    BY <1>2, <1>46 DEF Direnter
  <2>2. proc[p].at # None
    BY <1>1, <2>1 DEF Frame, OpsOK, ThenOK, RetOK, HandOK, PathOK, Lookups, Opens, Ireles
  <2>3. /\ proc'[p].pc = "dirwrite" /\ proc'[p].ip = proc[p].ip
        /\ proc'[p].at = proc[p].at
    BY <1>1, <1>3, <2>1, <2>2, <1>46 DEF Direnter, Go, Process
  <2>4. FileSame(p)
    BY <2>1, <2>2, <2>3 DEF FileSame, LockFile, FilePlaces
  <2>5. LockDir(proc[p])
    BY <2>1, <2>2, <2>3 DEF LockDir, DirPlaces, Ireles, Opens
  <2>6. LockDir(proc'[p])
    BY <2>1, <2>2, <2>3 DEF LockDir, DirPlaces, Ireles, Opens
  <2> QED
    BY <2>1, <2>2, <2>3, <2>4, <2>5, <2>6
    DEF FileSame, FileGiven, FileTaken, DirSame, DirGiven, DirTaken
<1>47. ASSUME Dirremove(p)
       PROVE  FileSame(p) /\ DirSame(p)
  <2>1. proc[p].pc = "dirremove"
    BY <1>2, <1>47 DEF Dirremove
  <2>2. proc[p].ip # None /\ proc[p].at # None
    BY <1>1, <2>1 DEF Frame, OpsOK, ThenOK, RetOK, HandOK, PathOK, Lookups, Opens, Ireles
  <2>3. /\ proc'[p].pc = "dirwrite" /\ proc'[p].ip = proc[p].ip
        /\ proc'[p].at = proc[p].at
    BY <1>1, <1>3, <2>1, <2>2, <1>47 DEF Dirremove, Go, Process
  <2>4. LockFile(proc[p])
    BY <2>1, <2>2, <2>3 DEF LockFile, FilePlaces
  <2>5. LockFile(proc'[p])
    BY <2>1, <2>2, <2>3 DEF LockFile, FilePlaces
  <2>6. LockDir(proc[p])
    BY <2>1, <2>2, <2>3 DEF LockDir, DirPlaces, Ireles, Opens
  <2>7. LockDir(proc'[p])
    BY <2>1, <2>2, <2>3 DEF LockDir, DirPlaces, Ireles, Opens
  <2> QED
    BY <2>1, <2>2, <2>3, <2>4, <2>5, <2>6, <2>7
    DEF FileSame, FileGiven, FileTaken, DirSame, DirGiven, DirTaken
<1>48. ASSUME Close(p)
       PROVE  FileSame(p) /\ DirSame(p)
  <2>1. proc[p].pc = "close"
    BY <1>2, <1>48 DEF Close
  <2>2. proc[p].ip = None /\ proc[p].ret = "user"
    BY <1>1, <2>1 DEF Frame, OpsOK, ThenOK, RetOK, HandOK, PathOK, Lookups, Opens, Ireles
  <2>3. proc'[p].pc = "irele" /\ proc'[p].ret = "user"
    BY <1>1, <1>3, <2>1, <2>2, <1>48 DEF Close, Go, Process
  <2>4. ~LockFile(proc[p])
    BY <2>1, <2>2, <2>3 DEF LockFile, FilePlaces
  <2>5. ~LockFile(proc'[p])
    BY <2>1, <2>2, <2>3 DEF LockFile, FilePlaces
  <2>6. ~LockDir(proc[p])
    BY <2>1, <2>2, <2>3 DEF LockDir, DirPlaces, Ireles, Opens
  <2>7. ~LockDir(proc'[p])
    BY <2>1, <2>2, <2>3 DEF LockDir, DirPlaces, Ireles, Opens
  <2> QED
    BY <2>1, <2>2, <2>3, <2>4, <2>5, <2>6, <2>7
    DEF FileSame, FileGiven, FileTaken, DirSame, DirGiven, DirTaken
<1>49. ASSUME IreleShared(p)
       PROVE  FileSame(p) /\ DirSame(p)
  <2>1. proc[p].pc = "irele" /\ Return(p)
    BY <1>2, <1>49 DEF IreleShared
  <2>2. proc[p].ip # None /\ proc[p].ret \in {"user", "null", "undir", "out"}
    BY <1>1, <2>1 DEF Frame, HandOK, RetOK, Ireles
  <2>3. ~LockFile(proc[p])
    BY <2>1, <2>2 DEF LockFile, FilePlaces
  <2>4. CASE proc[p].ret = "user"
    <3>1. proc'[p] = InUser(proc[p].fd)
      BY <1>1, <2>1, <2>4 DEF Return
    <3>2. ~LockDir(proc[p])
      BY <2>1, <2>4 DEF LockDir, DirPlaces
    <3>3. ~LockFile(proc'[p]) /\ ~LockDir(proc'[p])
      BY <1>4, <3>1
    <3> QED BY <2>3, <3>2, <3>3 DEF FileSame, FileGiven, DirSame
  <2>5. CASE proc[p].ret # "user"
    <3>1. /\ proc'[p].pc = proc[p].ret /\ proc'[p].ip = None /\ proc'[p].at = proc[p].at
          /\ proc'[p].op = proc[p].op /\ proc'[p].ret = "user"
      BY <1>1, <2>1, <2>5 DEF Return, Process
    <3>2. ~LockFile(proc'[p])
      BY <3>1 DEF LockFile
    <3>3. LockDir(proc'[p]) <=> LockDir(proc[p])
      BY <2>1, <2>2, <2>5, <3>1 DEF LockDir, DirPlaces
    <3> QED BY <2>3, <3>1, <3>2, <3>3 DEF FileSame, FileGiven, DirSame
  <2> QED BY <2>4, <2>5
<1>50. ASSUME Truncated(p)
       PROVE  FileSame(p) /\ DirSame(p)
  <2>1. proc[p].pc = "truncated"
    BY <1>2, <1>50 DEF Truncated
  <2>2. proc[p].ip # None
    BY <1>1, <2>1 DEF Frame, OpsOK, ThenOK, RetOK, HandOK, PathOK, Lookups, Opens, Ireles
  <2>3. /\ proc'[p].pc = "ifree" /\ proc'[p].ip = proc[p].ip
        /\ proc'[p].at = proc[p].at /\ proc'[p].op = proc[p].op
        /\ proc'[p].ret = proc[p].ret
    BY <1>1, <1>3, <2>1, <2>2, <1>50 DEF Truncated, Go, Process
  <2>4. LockFile(proc[p])
    BY <2>1, <2>2, <2>3 DEF LockFile, FilePlaces
  <2>5. LockFile(proc'[p])
    BY <2>1, <2>2, <2>3 DEF LockFile, FilePlaces
  <2>6. DirSame(p)
    BY <2>1, <2>2, <2>3 DEF DirSame, LockDir, DirPlaces, Ireles
  <2> QED
    BY <2>1, <2>2, <2>3, <2>4, <2>5, <2>6
    DEF FileSame, FileGiven, FileTaken, DirSame, DirGiven, DirTaken
<1>51. ASSUME Ifree(p)
       PROVE  FileSame(p) /\ DirSame(p)
  <2>1. proc[p].pc = "ifree"
    BY <1>2, <1>51 DEF Ifree, ToIupdat
  <2>2. proc[p].ip # None
    BY <1>1, <2>1 DEF Frame, OpsOK, ThenOK, RetOK, HandOK, PathOK, Lookups, Opens, Ireles
  <2>3. /\ proc'[p].pc = "iupdat" /\ proc'[p].then = "release"
        /\ proc'[p].ip = proc[p].ip /\ proc'[p].at = proc[p].at
        /\ proc'[p].op = proc[p].op /\ proc'[p].ret = proc[p].ret
    BY <1>1, <1>3, <2>1, <2>2, <1>51 DEF Ifree, ToIupdat, Go, Process
  <2>4. LockFile(proc[p])
    BY <2>1, <2>2, <2>3 DEF LockFile, FilePlaces
  <2>5. LockFile(proc'[p])
    BY <2>1, <2>2, <2>3 DEF LockFile, FilePlaces
  <2>6. DirSame(p)
    BY <2>1, <2>2, <2>3 DEF DirSame, LockDir, DirPlaces, Ireles
  <2> QED
    BY <2>1, <2>2, <2>3, <2>4, <2>5, <2>6
    DEF FileSame, FileGiven, FileTaken, DirSame, DirGiven, DirTaken
<1>52. ASSUME IfreeFails(p)
       PROVE  FileSame(p) /\ DirSame(p)
  <2>1. proc[p].pc = "ifree"
    BY <1>2, <1>52 DEF IfreeFails, ToIupdat
  <2>2. proc[p].ip # None
    BY <1>1, <2>1 DEF Frame, OpsOK, ThenOK, RetOK, HandOK, PathOK, Lookups, Opens, Ireles
  <2>3. /\ proc'[p].pc = "iupdat" /\ proc'[p].then = "release"
        /\ proc'[p].ip = proc[p].ip /\ proc'[p].at = proc[p].at
        /\ proc'[p].op = proc[p].op /\ proc'[p].ret = proc[p].ret
    BY <1>1, <1>3, <2>1, <2>2, <1>52 DEF IfreeFails, ToIupdat, Go, Process
  <2>4. LockFile(proc[p])
    BY <2>1, <2>2, <2>3 DEF LockFile, FilePlaces
  <2>5. LockFile(proc'[p])
    BY <2>1, <2>2, <2>3 DEF LockFile, FilePlaces
  <2>6. DirSame(p)
    BY <2>1, <2>2, <2>3 DEF DirSame, LockDir, DirPlaces, Ireles
  <2> QED
    BY <2>1, <2>2, <2>3, <2>4, <2>5, <2>6
    DEF FileSame, FileGiven, FileTaken, DirSame, DirGiven, DirTaken
<1>53. ASSUME Iupdat(p)
       PROVE  FileSame(p) /\ DirSame(p)
  <2>1. proc[p].pc = "iupdat"
    BY <1>2, <1>53 DEF Iupdat
  <2>2. proc[p].ip # None
    BY <1>1, <2>1 DEF Frame, OpsOK, ThenOK, RetOK, HandOK, PathOK, Lookups, Opens, Ireles
  <2>3. proc[p].then = "direnter" => proc[p].op = "make"
    BY <1>1, <2>1, <2>2 DEF Frame, OpsOK, ThenOK, RetOK, HandOK, PathOK, Lookups, Opens, Ireles
  <2>4. /\ proc[p].then \in {"direnter", "granted", "linked", "iput", "truncated", "release"}
    BY <1>1, <2>1, <2>2, <2>3 DEF Frame, OpsOK, ThenOK, RetOK, HandOK, PathOK, Lookups, Opens, Ireles
  <2>5. /\ (proc'[p].pc = "bwrite" \/ proc'[p].pc = proc[p].then)
        /\ proc'[p].then = proc[p].then /\ proc'[p].ip = proc[p].ip
        /\ proc'[p].at = proc[p].at /\ proc'[p].op = proc[p].op
        /\ proc'[p].ret = proc[p].ret
    BY <1>1, <1>3, <2>1, <2>2, <2>3, <2>4, <1>53 DEF Iupdat, Go, Process
  <2>6. LockFile(proc[p])
    BY <2>1, <2>2, <2>3, <2>4, <2>5 DEF LockFile, FilePlaces
  <2>7. LockFile(proc'[p])
    BY <2>1, <2>2, <2>3, <2>4, <2>5 DEF LockFile, FilePlaces
  <2>8. DirSame(p)
    BY <2>1, <2>2, <2>3, <2>4, <2>5 DEF DirSame, LockDir, DirPlaces, Ireles
  <2> QED
    BY <2>1, <2>2, <2>3, <2>4, <2>5, <2>6, <2>7, <2>8
    DEF FileSame, FileGiven, FileTaken, DirSame, DirGiven, DirTaken
<1>54. ASSUME IupdatFails(p)
       PROVE  FileSame(p) /\ DirSame(p)
  <2>1. proc[p].pc = "iupdat"
    BY <1>2, <1>54 DEF IupdatFails
  <2>2. proc[p].ip # None
    BY <1>1, <2>1 DEF Frame, OpsOK, ThenOK, RetOK, HandOK, PathOK, Lookups, Opens, Ireles
  <2>3. proc[p].then = "direnter" => proc[p].op = "make"
    BY <1>1, <2>1, <2>2 DEF Frame, OpsOK, ThenOK, RetOK, HandOK, PathOK, Lookups, Opens, Ireles
  <2>4. /\ proc[p].then \in {"direnter", "granted", "linked", "iput", "truncated", "release"}
    BY <1>1, <2>1, <2>2, <2>3 DEF Frame, OpsOK, ThenOK, RetOK, HandOK, PathOK, Lookups, Opens, Ireles
  <2>5. /\ proc'[p].pc = proc[p].then /\ proc'[p].then = proc[p].then
        /\ proc'[p].ip = proc[p].ip /\ proc'[p].at = proc[p].at
        /\ proc'[p].op = proc[p].op /\ proc'[p].ret = proc[p].ret
    BY <1>1, <1>3, <2>1, <2>2, <2>3, <2>4, <1>54 DEF IupdatFails, Go, Process
  <2>6. LockFile(proc[p])
    BY <2>1, <2>2, <2>3, <2>4, <2>5 DEF LockFile, FilePlaces
  <2>7. LockFile(proc'[p])
    BY <2>1, <2>2, <2>3, <2>4, <2>5 DEF LockFile, FilePlaces
  <2>8. DirSame(p)
    BY <2>1, <2>2, <2>3, <2>4, <2>5 DEF DirSame, LockDir, DirPlaces, Ireles
  <2> QED
    BY <2>1, <2>2, <2>3, <2>4, <2>5, <2>6, <2>7, <2>8
    DEF FileSame, FileGiven, FileTaken, DirSame, DirGiven, DirTaken
<1>55. ASSUME Bwrite(p)
       PROVE  FileSame(p) /\ DirSame(p)
  <2>1. proc[p].pc = "bwrite"
    BY <1>2, <1>55 DEF Bwrite
  <2>2. proc[p].ip # None
    BY <1>1, <2>1 DEF Frame, OpsOK, ThenOK, RetOK, HandOK, PathOK, Lookups, Opens, Ireles
  <2>3. proc[p].then = "direnter" => proc[p].op = "make"
    BY <1>1, <2>1, <2>2 DEF Frame, OpsOK, ThenOK, RetOK, HandOK, PathOK, Lookups, Opens, Ireles
  <2>4. /\ proc[p].then \in {"direnter", "granted", "linked", "iput", "truncated", "release"}
    BY <1>1, <2>1, <2>2, <2>3 DEF Frame, OpsOK, ThenOK, RetOK, HandOK, PathOK, Lookups, Opens, Ireles
  <2>5. /\ proc'[p].pc = proc[p].then /\ proc'[p].then = proc[p].then
        /\ proc'[p].ip = proc[p].ip /\ proc'[p].at = proc[p].at
        /\ proc'[p].op = proc[p].op /\ proc'[p].ret = proc[p].ret
    BY <1>1, <1>3, <2>1, <2>2, <2>3, <2>4, <1>55 DEF Bwrite, Go, Process
  <2>6. LockFile(proc[p])
    BY <2>1, <2>2, <2>3, <2>4, <2>5 DEF LockFile, FilePlaces
  <2>7. LockFile(proc'[p])
    BY <2>1, <2>2, <2>3, <2>4, <2>5 DEF LockFile, FilePlaces
  <2>8. DirSame(p)
    BY <2>1, <2>2, <2>3, <2>4, <2>5 DEF DirSame, LockDir, DirPlaces, Ireles
  <2> QED
    BY <2>1, <2>2, <2>3, <2>4, <2>5, <2>6, <2>7, <2>8
    DEF FileSame, FileGiven, FileTaken, DirSame, DirGiven, DirTaken
<1>56. ASSUME IalloccgTake(p), ~NoInode(p)
       PROVE  FileSame(p) /\ DirSame(p)
  <2>1. proc[p].pc = "ialloccg"
    BY <1>2, <1>56 DEF IalloccgTake
  <2>2. proc[p].ip = None /\ proc[p].at # None
    BY <1>1, <2>1 DEF Frame, OpsOK, ThenOK, RetOK, HandOK, PathOK, Lookups, Opens, Ireles
  <2>3. proc'[p].pc = "iget" /\ proc'[p].ip = None /\ proc'[p].at = proc[p].at
    BY <1>1, <1>3, <2>1, <2>2, <1>56 DEF IalloccgTake, Go, Process
  <2>4. ~LockFile(proc[p])
    BY <2>1, <2>2, <2>3 DEF LockFile, FilePlaces
  <2>5. ~LockFile(proc'[p])
    BY <2>1, <2>2, <2>3 DEF LockFile, FilePlaces
  <2>6. LockDir(proc[p])
    BY <2>1, <2>2, <2>3 DEF LockDir, DirPlaces, Ireles, Opens
  <2>7. LockDir(proc'[p])
    BY <2>1, <2>2, <2>3 DEF LockDir, DirPlaces, Ireles, Opens
  <2> QED
    BY <2>1, <2>2, <2>3, <2>4, <2>5, <2>6, <2>7
    DEF FileSame, FileGiven, FileTaken, DirSame, DirGiven, DirTaken
<1>57. NameiFound(p) \/ NameiMake(p) \/ NameiEnter(p)
           => FileSame(p) /\ DirTaken(p)
  BY <1>5, <1>6, <1>7
<1>58. (\/ GotOpen(p) \/ GotLink(p) \/ GotNull(p) \/ IalloccgNone(p) \/ IalloccgFails(p)
          \/ Ifreeino(p) \/ (IalloccgTake(p) /\ NoInode(p)) \/ EnterFails(p)
          \/ DirenterDone(p) \/ Undir(p))
           => FileSame(p) /\ DirGiven(p)
  BY <1>8, <1>9, <1>10, <1>11, <1>12, <1>13, <1>14, <1>15, <1>16, <1>17
<1>59. Sync(p) \/ IgetHit(p) \/ IgetMiss(p) \/ IreleLast(p) \/ IreleUnlinked(p)
           => FileTaken(p) /\ DirSame(p)
  BY <1>18, <1>19, <1>20, <1>21, <1>22
<1>60. (\/ IreadFails(p) \/ Granted(p) \/ Linked(p) \/ DirremoveDone(p)
          \/ DirremoveFails(p) \/ Iput(p) \/ Release(p))
           => FileGiven(p) /\ DirSame(p)
  BY <1>23, <1>24, <1>25, <1>26, <1>27, <1>28, <1>29
<1>61. GotExisting(p) \/ MakeFails(p) => FileGiven(p) /\ DirGiven(p)
  BY <1>30, <1>31
<1>62. (\/ Call(p) \/ CallClose(p) \/ NameiLocked(p) \/ CloseLocked(p) \/ IgetLocked(p)
          \/ GotInUse(p) \/ NameiFails(p) \/ NameiError(p) \/ IgetFull(p) \/ Iread(p)
          \/ GotUnlink(p) \/ GotNew(p) \/ MakeNull(p) \/ Opened(p) \/ OpenedOld(p)
          \/ OpenedFails(p) \/ Out(p) \/ Direnter(p) \/ Dirremove(p) \/ Close(p)
          \/ IreleShared(p) \/ Truncated(p) \/ Ifree(p) \/ IfreeFails(p) \/ Iupdat(p)
          \/ IupdatFails(p) \/ Bwrite(p) \/ (IalloccgTake(p) /\ ~NoInode(p)))
           => FileSame(p) /\ DirSame(p)
  BY <1>32, <1>33, <1>34, <1>35, <1>36, <1>37, <1>38, <1>39, <1>40, <1>41,
     <1>42, <1>43, <1>44, <1>45, <1>46, <1>47, <1>48, <1>49, <1>50, <1>51,
     <1>52, <1>53, <1>54, <1>55, <1>56
<1> QED BY <1>57, <1>58, <1>59, <1>60, <1>61, <1>62

\* A process has inode s locked, by what it is doing.
HasBy(r, s) == (LockFile(r) /\ r.ip = s) \/ (LockDir(r) /\ r.at[1] = s)

LEMMA Holds ==
    ASSUME NEW p \in Procs, NEW s \in Table
    PROVE  /\ Has(p, s) <=> HasBy(proc[p], s)
           /\ Has(p, s)' <=> HasBy(proc'[p], s)
<1>1. s # None
  BY Assumed DEF Table
<1> QED
  BY <1>1 DEF Has, HasFile, HasDir, HasBy, LockFile, LockDir, FilePlaces, DirPlaces, Dir

\* The locks outside S stay, and so do the requests for them.
LocksKept(S) ==
    \A t \in Table \ S : /\ inode'[t].locked = inode[t].locked
                         /\ inode[t].want => inode'[t].want

\* A step of p gives up the locks G, takes the locks T, and wakes who waits for
\* those of G or, having changed none, goes to sleep.
Effect(p, G, T) ==
    /\ \A s \in Table : HasBy(proc'[p], s) <=> (HasBy(proc[p], s) /\ s \notin G) \/ s \in T
    /\ \A s \in G : HasBy(proc[p], s) /\ ~inode'[s].locked
    /\ \A s \in T : ~inode[s].locked /\ inode'[s].locked
    /\ LocksKept(G \cup T)
    /\ \/ Wakeup(G)
       \/ \E s \in Table : G = {} /\ T = {} /\ SleepOn(p, s)

\* What a process has locked after giving up, or taking, one or both.
LEMMA Using ==
    ASSUME TypeOK, Frames, NEW p \in Procs
    PROVE  /\ FileSame(p) /\ DirSame(p) =>
                \A s \in Table : HasBy(proc'[p], s) <=> HasBy(proc[p], s)
           /\ FileTaken(p) /\ DirSame(p) =>
                \A s \in Table : HasBy(proc'[p], s) <=> HasBy(proc[p], s) \/ s = proc'[p].ip
           /\ FileGiven(p) /\ DirSame(p) =>
                /\ \A s \in Table : HasBy(proc'[p], s) <=> HasBy(proc[p], s) /\ s # proc[p].ip
                /\ HasBy(proc[p], proc[p].ip) /\ proc[p].ip \in Table
           /\ FileSame(p) /\ DirTaken(p) =>
                \A s \in Table : HasBy(proc'[p], s) <=> HasBy(proc[p], s) \/ s = Dir(p)
           /\ FileSame(p) /\ DirGiven(p) =>
                /\ \A s \in Table : HasBy(proc'[p], s) <=> HasBy(proc[p], s) /\ s # Dir(p)
                /\ HasBy(proc[p], Dir(p)) /\ Dir(p) \in Table
           /\ FileGiven(p) /\ DirGiven(p) =>
                /\ \A s \in Table : ~HasBy(proc'[p], s)
                /\ \A s \in Table : HasBy(proc[p], s) <=> s = proc[p].ip \/ s = Dir(p)
                /\ Dir(p) \in Table /\ proc[p].ip \in Table
<1>1. proc[p].ip # None => proc[p].ip \in Slots /\ proc[p].ip \in Table
  BY Held
<1>2. proc[p].at # None => Dir(p) \in Table /\ Dir(p) \notin Slots
  BY DirOf
<1>3. /\ LockFile(proc[p]) => proc[p].ip # None
      /\ LockDir(proc[p]) => proc[p].at # None
      /\ Dir(p) = proc[p].at[1]
  BY DEF LockFile, LockDir, Dir
<1>4. FileSame(p) /\ DirSame(p) =>
        \A s \in Table : HasBy(proc'[p], s) <=> HasBy(proc[p], s)
  BY DEF FileSame, DirSame, HasBy
<1>5. FileTaken(p) /\ DirSame(p) =>
        \A s \in Table : HasBy(proc'[p], s) <=> HasBy(proc[p], s) \/ s = proc'[p].ip
  BY DEF FileTaken, DirSame, HasBy
<1>6. FileGiven(p) /\ DirSame(p) =>
        /\ \A s \in Table : HasBy(proc'[p], s) <=> HasBy(proc[p], s) /\ s # proc[p].ip
        /\ HasBy(proc[p], proc[p].ip) /\ proc[p].ip \in Table
  BY <1>1, <1>2, <1>3 DEF FileGiven, DirSame, HasBy
<1>7. FileSame(p) /\ DirTaken(p) =>
        \A s \in Table : HasBy(proc'[p], s) <=> HasBy(proc[p], s) \/ s = Dir(p)
  BY <1>3 DEF FileSame, DirTaken, HasBy
<1>8. FileSame(p) /\ DirGiven(p) =>
        /\ \A s \in Table : HasBy(proc'[p], s) <=> HasBy(proc[p], s) /\ s # Dir(p)
        /\ HasBy(proc[p], Dir(p)) /\ Dir(p) \in Table
  BY <1>1, <1>2, <1>3 DEF FileSame, DirGiven, HasBy
<1>9. FileGiven(p) /\ DirGiven(p) =>
        /\ \A s \in Table : ~HasBy(proc'[p], s)
        /\ \A s \in Table : HasBy(proc[p], s) <=> s = proc[p].ip \/ s = Dir(p)
        /\ Dir(p) \in Table /\ proc[p].ip \in Table
  BY <1>1, <1>2, <1>3 DEF FileGiven, DirGiven, HasBy
<1> QED BY <1>4, <1>5, <1>6, <1>7, <1>8, <1>9

\* Who holds the only reference to an inode is the only one who can have it locked.
LEMMA OnlyHolder ==
    ASSUME TypeOK, Frames, CountsExact, LocksExact, NEW p \in Procs, proc[p].ip # None,
           ~LockFile(proc[p]), inode[proc[p].ip].count = 1
    PROVE  ~inode[proc[p].ip].locked
<1> DEFINE s == proc[p].ip
<1>1. s \in Slots /\ s \in Table /\ inode[s].count \in Nat
  BY Held DEF TypeOK, Inode
<1>2. \A q \in Procs \ {p} : ~Refs(q, s)
  BY <1>1, Counted DEF Refs
<1>3. ASSUME NEW q \in Procs, HasBy(proc[q], s)
      PROVE  FALSE
  <2>1. proc[q].at # None => Dir(q) \notin Slots
    BY DirOf
  <2>2. LockFile(proc[q]) /\ proc[q].ip = s
    BY <1>1, <1>3, <2>1 DEF HasBy, LockDir, Dir
  <2>3. q = p
    BY <1>2, <2>2 DEF Refs
  <2> QED BY <2>2, <2>3
<1>4. \A q \in Procs : ~Has(q, s)
  BY <1>1, <1>3, Holds
<1> QED
  BY <1>1, <1>4 DEF LocksExact, LockExact

\* Locks that are exact stay exact.
LEMMA EffectKeeps ==
    ASSUME TypeOK, LocksExact, NEW p \in Procs, NEW G \in SUBSET Table, NEW T \in SUBSET Table,
           Effect(p, G, T), G \cap T = {}, \A q \in Procs \ {p} : proc'[q] = proc[q],
           inode' \in [Table -> Inode]
    PROVE  LocksExact'
<1>1. \A q \in Procs, s \in Table : /\ Has(q, s) <=> HasBy(proc[q], s)
                                    /\ Has(q, s)' <=> HasBy(proc'[q], s)
  BY Holds
<1>2. \A q \in Procs \ {p}, s \in Table : HasBy(proc'[q], s) <=> HasBy(proc[q], s)
  OBVIOUS
<1>3. \A s \in Table : /\ inode[s].locked <=> \E q \in Procs : HasBy(proc[q], s)
                       /\ \A q, r \in Procs : HasBy(proc[q], s) /\ HasBy(proc[r], s) => q = r
  BY <1>1 DEF LocksExact, LockExact
<1>4. \A s \in Table : /\ HasBy(proc'[p], s) <=> (HasBy(proc[p], s) /\ s \notin G) \/ s \in T
                       /\ s \in G => HasBy(proc[p], s) /\ ~inode'[s].locked
                       /\ s \in T => ~inode[s].locked /\ inode'[s].locked
                       /\ s \notin G \cup T => inode'[s].locked = inode[s].locked
                       /\ s \notin G \cup T => (inode[s].want => inode'[s].want)
  BY DEF Effect, LocksKept
<1>5. ASSUME NEW s \in Table
      PROVE  /\ inode'[s].locked <=> \E q \in Procs : HasBy(proc'[q], s)
             /\ \A q, r \in Procs : HasBy(proc'[q], s) /\ HasBy(proc'[r], s) => q = r
  <2>1. CASE s \in G
    <3>1. ~inode'[s].locked /\ HasBy(proc[p], s) /\ s \notin T
      BY <1>4, <2>1
    <3>2. \A q \in Procs : ~HasBy(proc'[q], s)
      BY <1>2, <1>3, <1>4, <2>1, <3>1
    <3> QED BY <3>1, <3>2
  <2>2. CASE s \in T
    <3>1. inode'[s].locked /\ HasBy(proc'[p], s)
      BY <1>4, <2>2
    <3>2. \A q \in Procs \ {p} : ~HasBy(proc'[q], s)
      BY <1>2, <1>3, <1>4, <2>2
    <3> QED BY <3>1, <3>2
  <2>3. CASE s \notin G \cup T
    <3>1. \A q \in Procs : HasBy(proc'[q], s) <=> HasBy(proc[q], s)
      BY <1>2, <1>4, <2>3
    <3>2. inode'[s].locked = inode[s].locked
      BY <1>4, <2>3
    <3> QED BY <1>3, <3>1, <3>2
  <2> QED BY <2>1, <2>2, <2>3
<1>6. LockExact'
  BY <1>1, <1>5 DEF LockExact
<1>7. ASSUME NEW q \in Procs, chan'[q] # None
      PROVE  inode'[chan'[q]].locked /\ inode'[chan'[q]].want
  <2>1. chan \in [Procs -> Table \cup {None}]
    BY DEF TypeOK
  <2>2. CASE Wakeup(G)
    <3>1. chan'[q] = chan[q] /\ ~(chan[q] \in G /\ inode[chan[q]].want)
      BY <1>7, <2>2 DEF Wakeup
    <3>2. inode[chan[q]].locked /\ inode[chan[q]].want /\ chan[q] \in Table
      BY <1>7, <2>1, <3>1 DEF LocksExact, WillBeWoken
    <3> QED BY <1>4, <3>1, <3>2
  <2>3. CASE \E s \in Table : G = {} /\ T = {} /\ SleepOn(p, s)
    <3>1. PICK s \in Table : G = {} /\ T = {} /\ SleepOn(p, s)
      BY <2>3
    <3>2. inode[s].locked /\ chan' = [chan EXCEPT ![p] = s]
      BY <3>1 DEF SleepOn
    <3>3. inode'[s].want
      BY <3>1, SleepOnTable
    <3>4. CASE q = p
      <4>1. chan'[q] = s
        BY <2>1, <3>2, <3>4
      <4> QED BY <1>4, <3>1, <3>2, <3>3, <4>1
    <3>5. CASE q # p
      <4>1. chan'[q] = chan[q]
        BY <2>1, <3>2, <3>5
      <4>2. inode[chan[q]].locked /\ inode[chan[q]].want /\ chan[q] \in Table
        BY <1>7, <2>1, <4>1 DEF LocksExact, WillBeWoken
      <4> QED BY <1>4, <3>1, <4>1, <4>2
    <3> QED BY <3>4, <3>5
  <2> QED BY <2>2, <2>3 DEF Effect
<1> QED
  BY <1>6, <1>7 DEF LocksExact, WillBeWoken

\* The effect of a step, from what it does to p and to the table.
LEMMA SameEffect ==
    ASSUME TypeOK, Frames, NEW p \in Procs, FileSame(p), DirSame(p), LocksKept({}),
           chan' = chan \/ \E s \in Table : SleepOn(p, s)
    PROVE  Effect(p, {}, {})
<1>1. chan' = chan => Wakeup({})
  BY DEF Wakeup, TypeOK
<1> QED
  BY <1>1, Using DEF Effect

LEMMA TakenEffect ==
    ASSUME TypeOK, Frames, NEW p \in Procs, NEW s \in Table,
           (FileTaken(p) /\ DirSame(p) /\ s = proc'[p].ip)
             \/ (FileSame(p) /\ DirTaken(p) /\ s = Dir(p)),
           ~inode[s].locked, inode'[s].locked, LocksKept({s}), chan' = chan
    PROVE  Effect(p, {}, {s})
<1>1. Wakeup({})
  BY DEF Wakeup, TypeOK
<1> QED
  BY <1>1, Using DEF Effect

LEMMA GivenEffect ==
    ASSUME TypeOK, Frames, NEW p \in Procs, NEW s,
           (FileGiven(p) /\ DirSame(p) /\ s = proc[p].ip)
             \/ (FileSame(p) /\ DirGiven(p) /\ s = Dir(p)),
           ~inode'[s].locked, LocksKept({s}), Wakeup({s})
    PROVE  s \in Table /\ Effect(p, {s}, {})
<1>1. s \in Table /\ HasBy(proc[p], s)
  BY Using
<1>2. \A t \in Table : HasBy(proc'[p], t) <=> HasBy(proc[p], t) /\ t # s
  BY Using
<1> QED
  BY <1>1, <1>2 DEF Effect

LEMMA BothGivenEffect ==
    ASSUME TypeOK, Frames, NEW p \in Procs, FileGiven(p), DirGiven(p),
           NEW s, s = proc[p].ip, NEW d, d = Dir(p),
           ~inode'[s].locked, ~inode'[d].locked, LocksKept({s, d}), Wakeup({s, d})
    PROVE  s \in Table /\ d \in Table /\ Effect(p, {s, d}, {})
<1>1. s \in Table /\ d \in Table
  BY Using
<1>2. \A t \in Table : ~HasBy(proc'[p], t) /\ (HasBy(proc[p], t) <=> t = s \/ t = d)
  BY Using
<1> QED
  BY <1>1, <1>2 DEF Effect

\* Nothing changes but inode s, whose lock stays, or d, which is given up.
LEMMA KeptAt ==
    ASSUME NEW s \in Table, Elsewhere({s}), inode'[s].locked = inode[s].locked,
           inode[s].want => inode'[s].want
    PROVE  LocksKept({})
BY DEF Elsewhere, LocksKept

LEMMA KeptElse ==
    ASSUME NEW S, Elsewhere(S)
    PROVE  LocksKept(S)
BY DEF Elsewhere, LocksKept

LEMMA LockEffect ==
    ASSUME TypeOK, Frames, DirsOK, LocksExact, InodesOK, CountsExact, FreeListExact,
           NEW p \in Procs, Step(p)
    PROVE  \E G, T \in SUBSET Table : G \cap T = {} /\ Effect(p, G, T)
<1>1. /\ inode \in [Table -> Inode] /\ Slots \subseteq Table /\ Dirs \subseteq Table
      /\ Slots \cap Dirs = {}
  BY Assumed DEF TypeOK, Table
<1>2. \A l : At(p, l) => proc[p].pc = l
  BY DEF At
<1>3. proc[p].pc \in {"namei", "got", "null", "ialloccg", "ifreeino", "direnter", "dirwrite",
                      "undir"} => Dir(p) \in Dirs
  BY AtHand
<1>4. SUFFICES \/ Effect(p, {}, {})
               \/ \E s \in Table : Effect(p, {}, {s}) \/ Effect(p, {s}, {})
               \/ \E s, d \in Table : Effect(p, {s, d}, {})
  OBVIOUS
<1>5. CASE Sync(p)
  <2>1. PICK s \in Slots : /\ ~inode[s].locked
                           /\ inode' = [inode EXCEPT ![s].locked = TRUE, ![s].count = @ + 1]
                           /\ proc' = [proc EXCEPT ![p] =
                                [@ EXCEPT !.op = "sync", !.ip = s, !.then = "iput",
                                          !.pc = IF inode[s].dirty THEN "iupdat" ELSE "iput"]]
                           /\ chan' = chan
    BY <1>5 DEF Sync
  <2>2. proc'[p].ip = s
    BY <2>1 DEF TypeOK, Process
  <2>3. FileTaken(p) /\ DirSame(p)
    BY <1>5, LockUse
  <2>4. inode'[s].locked /\ LocksKept({s})
    BY <1>1, <2>1, AcquiredTable, KeptElse
  <2> QED BY <1>1, <2>1, <2>2, <2>3, <2>4, TakenEffect
<1>6. CASE IgetHit(p)
  <2>1. PICK s \in Slots : /\ ~inode[s].locked
                           /\ inode' = [inode EXCEPT ![s].count = @ + 1, ![s].locked = TRUE]
                           /\ proc' = [proc EXCEPT ![p].ip = s, ![p].pc = "got"]
    BY <1>6 DEF IgetHit
  <2>2. proc'[p].ip = s
    BY <2>1 DEF TypeOK, Process
  <2>3. FileTaken(p) /\ DirSame(p)
    BY <1>6, LockUse
  <2>4. inode'[s].locked /\ LocksKept({s})
    BY <1>1, <2>1, AcquiredTable, KeptElse
  <2>5. chan' = chan
    BY <1>6 DEF IgetHit
  <2> QED BY <1>1, <2>1, <2>2, <2>3, <2>4, <2>5, TakenEffect
<1>7. CASE IgetMiss(p)
  <2> DEFINE s == Head(freelist)
  <2>1. /\ s \in Slots /\ inode'[s].locked /\ LocksKept({s})
    BY <1>7, IgetMissTable, KeptElse
  <2>2. proc'[p].ip = s /\ chan' = chan /\ freelist # <<>>
    BY <1>7 DEF IgetMiss, TypeOK, Process
  <2>3. FileTaken(p) /\ DirSame(p)
    BY <1>7, LockUse
  <2>4. inode[s].count = 0
    <3>1. freelist \in Seq(Slots) /\ Once(freelist)
      BY FreeList DEF TypeOK
    <3>2. Listed(freelist, s)
      BY <2>2, <3>1, Beheaded
    <3> QED BY <2>1, <3>2, FreeList
  <2>5. ~inode[s].locked
    <3>1. ASSUME NEW q \in Procs, HasBy(proc[q], s)
          PROVE  FALSE
      <4>1. proc[q].at # None => Dir(q) \notin Slots
        BY DirOf
      <4>2. Refs(q, s)
        BY <2>1, <3>1, <4>1 DEF HasBy, LockDir, Dir, Refs
      <4>3. inode[s].count \in Nat
        BY <2>1, <1>1 DEF Inode
      <4>4. inode[s].count >= 1
        BY <2>1, <4>2, <4>3, Counted
      <4> QED BY <2>4, <4>4
    <3>2. \A q \in Procs : ~Has(q, s)
      BY <1>1, <2>1, <3>1, Holds
    <3> QED BY <1>1, <2>1, <3>2 DEF LocksExact, LockExact
  <2> HIDE DEF s
  <2> QED BY <1>1, <2>1, <2>2, <2>3, <2>5, TakenEffect
<1>8. CASE IreleLast(p) \/ IreleUnlinked(p)
  <2> DEFINE s == proc[p].ip
  <2>1. /\ s \in Slots /\ inode'[s].locked /\ LocksKept({s})
    BY <1>8, IreleLastTable, IreleUnlinkedTable, KeptElse
  <2>2. proc'[p].ip = s /\ chan' = chan /\ inode[s].count = 1
    BY <1>8 DEF IreleLast, IreleUnlinked, TypeOK, Process
  <2>3. FileTaken(p) /\ DirSame(p)
    BY <1>8, LockUse
  <2>4. ~inode[s].locked
    BY <2>1, <2>2, <2>3, OnlyHolder, Assumed DEF FileTaken
  <2> HIDE DEF s
  <2> QED BY <1>1, <2>1, <2>2, <2>3, <2>4, TakenEffect
<1>9. CASE NameiFound(p) \/ NameiMake(p) \/ NameiEnter(p)
  <2> DEFINE d == Dir(p)
  <2>1. /\ ~inode[d].locked /\ chan' = chan /\ proc[p].pc = "namei"
        /\ inode' = [inode EXCEPT ![d].locked = TRUE, ![d].count = @ + 1]
    BY <1>2, <1>9 DEF NameiFound, NameiMake, NameiEnter, NameiFree
  <2>2. d \in Table
    BY <1>1, <1>3, <2>1
  <2>3. FileSame(p) /\ DirTaken(p)
    BY <1>9, LockUse
  <2>4. inode'[d].locked /\ LocksKept({d})
    BY <2>1, <2>2, AcquiredTable, KeptElse
  <2> HIDE DEF d
  <2> QED BY <2>1, <2>2, <2>3, <2>4, TakenEffect DEF d
<1>10. ASSUME FileSame(p) /\ DirGiven(p), Wakeup({Dir(p)}), inode' = Put(inode, Dir(p)),
              proc[p].pc \in {"got", "null", "ialloccg", "ifreeino", "direnter", "dirwrite",
                              "undir"}
       PROVE  \E s \in Table : Effect(p, {s}, {})
  <2>1. ~inode'[Dir(p)].locked /\ LocksKept({Dir(p)})
    BY <1>10, PutTable, KeptElse
  <2> QED BY <1>10, <2>1, GivenEffect
<1>11. CASE GotOpen(p) \/ GotNull(p) \/ Undir(p)
  <2>1. FileSame(p) /\ DirGiven(p)
    BY <1>11, LockUse
  <2> QED BY <1>2, <1>10, <1>11, <2>1 DEF GotOpen, GotNull, Undir
<1>12. CASE IalloccgNone(p) \/ IalloccgFails(p) \/ Ifreeino(p) \/ (IalloccgTake(p) /\ NoInode(p))
  <2>1. FileSame(p) /\ DirGiven(p)
    BY <1>12, LockUse
  <2> QED
    BY <1>2, <1>10, <1>12, <2>1 DEF IalloccgNone, IalloccgFails, Ifreeino, IalloccgTake, NoInode
<1>13. CASE EnterFails(p) \/ DirenterDone(p)
  <2>1. FileSame(p) /\ DirGiven(p)
    BY <1>13, LockUse
  <2> QED
    BY <1>2, <1>10, <1>13, <2>1 DEF EnterFails, DirenterFails, DirenterDone, Dirwrite
<1>14. CASE GotLink(p)
  <2> DEFINE s == proc[p].ip
             d == Dir(p)
  <2>1. /\ Elsewhere({s, d}) /\ ~inode'[d].locked /\ d \in Dirs /\ s \in Slots
        /\ inode'[s].locked = inode[s].locked /\ inode'[s].want = inode[s].want
    BY <1>14, GotLinkTable
  <2>2. LocksKept({d})
    BY <2>1 DEF Elsewhere, LocksKept
  <2>3. Wakeup({d})
    BY <1>14 DEF GotLink
  <2>4. FileSame(p) /\ DirGiven(p)
    BY <1>14, LockUse
  <2> QED BY <2>1, <2>2, <2>3, <2>4, GivenEffect
<1>15. ASSUME FileGiven(p) /\ DirSame(p), Wakeup({proc[p].ip}),
              Elsewhere({proc[p].ip}), ~inode'[proc[p].ip].locked
       PROVE  \E s \in Table : Effect(p, {s}, {})
  BY <1>15, GivenEffect, KeptElse
<1>16. CASE IreadFails(p)
  BY <1>15, <1>16, IreadFailsTable, LockUse DEF IreadFails
<1>17. CASE Granted(p)
  BY <1>15, <1>17, GrantedTable, LockUse DEF Granted
<1>18. CASE Linked(p)
  BY <1>15, <1>18, LinkedTable, LockUse DEF Linked
<1>19. CASE DirremoveDone(p)
  BY <1>15, <1>19, DirremoveDoneTable, LockUse DEF DirremoveDone
<1>20. CASE DirremoveFails(p)
  BY <1>15, <1>20, DirremoveFailsTable, LockUse DEF DirremoveFails
<1>21. CASE Iput(p)
  BY <1>15, <1>21, IputTable, LockUse DEF Iput
<1>22. CASE Release(p)
  BY <1>15, <1>22, ReleaseTable, LockUse DEF Release
<1>23. CASE GotExisting(p)
  <2> DEFINE s == proc[p].ip
             d == Dir(p)
  <2>1. Elsewhere({s, d}) /\ ~inode'[d].locked /\ ~inode'[s].locked
    BY <1>23, GotExistingTable
  <2>2. LocksKept({s, d})
    BY <2>1, KeptElse
  <2>3. Wakeup({s, d})
    BY <1>23 DEF GotExisting
  <2>4. FileGiven(p) /\ DirGiven(p)
    BY <1>23, LockUse
  <2> QED BY <2>1, <2>2, <2>3, <2>4, BothGivenEffect
<1>24. CASE MakeFails(p)
  <2> DEFINE s == proc[p].ip
             d == Dir(p)
  <2>1. Elsewhere({s, d}) /\ ~inode'[d].locked /\ ~inode'[s].locked
    BY <1>24, MakeFailsTable
  <2>2. LocksKept({s, d})
    BY <2>1, KeptElse
  <2>3. Wakeup({d, s}) /\ {d, s} = {s, d}
    BY <1>24 DEF MakeFails
  <2>4. FileGiven(p) /\ DirGiven(p)
    BY <1>24, LockUse
  <2> HIDE DEF s, d
  <2>5. Wakeup({s, d})
    BY <2>3
  <2> QED BY <2>1, <2>2, <2>4, <2>5, BothGivenEffect DEF s, d
<1>25. ASSUME FileSame(p) /\ DirSame(p), chan' = chan, inode' = inode
       PROVE  Effect(p, {}, {})
  BY <1>25, SameEffect DEF LocksKept
<1>26. ASSUME FileSame(p) /\ DirSame(p), chan' = chan, NEW s \in Slots, Elsewhere({s}),
              inode'[s].locked = inode[s].locked, inode'[s].want = inode[s].want
       PROVE  Effect(p, {}, {})
  BY <1>1, <1>26, SameEffect, KeptAt
<1>27. CASE NameiLocked(p) \/ CloseLocked(p) \/ IgetLocked(p)
  <2>1. proc[p].pc = "close" => proc[p].fd \in Table
    BY AtHand
  <2>2. PICK s \in Table : SleepOn(p, s)
    BY <1>1, <1>2, <1>3, <1>27, <2>1 DEF NameiLocked, CloseLocked, IgetLocked
  <2>3. LocksKept({})
    BY <2>2, SleepOnTable, KeptAt
  <2>4. FileSame(p) /\ DirSame(p)
    BY <1>27, LockUse
  <2> QED BY <2>2, <2>3, <2>4, SameEffect
<1>28. CASE IalloccgTake(p) /\ ~NoInode(p)
  <2>1. FileSame(p) /\ DirSame(p)
    BY <1>28, LockUse
  <2>2. inode' = inode /\ chan' = chan
    BY <1>28 DEF IalloccgTake
  <2> QED BY <1>25, <2>1, <2>2
<1>29. CASE IalloccgTake(p)
  BY <1>12, <1>28, <1>29
<1>30. CASE Call(p)
  BY <1>25, LockUse, <1>30 DEF Call
<1>31. CASE CallClose(p)
  BY <1>25, LockUse, <1>31 DEF CallClose
<1>32. CASE NameiFails(p)
  BY <1>25, LockUse, <1>32 DEF NameiFails
<1>33. CASE NameiError(p)
  BY <1>25, LockUse, <1>33 DEF NameiError
<1>34. CASE IgetFull(p)
  BY <1>25, LockUse, <1>34 DEF IgetFull
<1>35. CASE GotUnlink(p)
  BY <1>25, LockUse, <1>35 DEF GotUnlink
<1>36. CASE GotInUse(p)
  BY <1>25, LockUse, <1>36 DEF GotInUse
<1>37. CASE MakeNull(p)
  BY <1>25, LockUse, <1>37 DEF MakeNull
<1>38. CASE Opened(p)
  BY <1>25, LockUse, <1>38 DEF Opened
<1>39. CASE OpenedFails(p)
  BY <1>25, LockUse, <1>39 DEF OpenedFails
<1>40. CASE Direnter(p)
  BY <1>25, LockUse, <1>40 DEF Direnter
<1>41. CASE Dirremove(p)
  BY <1>25, LockUse, <1>41 DEF Dirremove
<1>42. CASE Close(p)
  BY <1>25, LockUse, <1>42 DEF Close
<1>43. CASE Ifree(p)
  BY <1>25, LockUse, <1>43 DEF Ifree
<1>44. CASE IfreeFails(p)
  BY <1>25, LockUse, <1>44 DEF IfreeFails
<1>45. CASE IupdatFails(p)
  BY <1>25, LockUse, <1>45 DEF IupdatFails
<1>46. CASE Bwrite(p)
  BY <1>25, LockUse, <1>46 DEF Bwrite
<1>47. CASE Iread(p)
  BY <1>25, LockUse, <1>47, <1>26, IreadTable DEF Iread
<1>48. CASE OpenedOld(p)
  BY <1>25, LockUse, <1>48, <1>26, OpenedOldTable DEF OpenedOld
<1>49. CASE GotNew(p)
  BY <1>25, LockUse, <1>49, <1>26, GotNewTable DEF GotNew
<1>50. CASE Out(p)
  BY <1>25, LockUse, <1>50, <1>26, OutTable DEF Out
<1>51. CASE IreleShared(p)
  BY <1>25, LockUse, <1>51, <1>26, IreleSharedTable DEF IreleShared
<1>52. CASE Truncated(p)
  BY <1>25, LockUse, <1>52, <1>26, TruncatedTable DEF Truncated
<1>53. CASE Iupdat(p)
  BY <1>25, LockUse, <1>53, <1>26, IupdatTable DEF Iupdat
<1> QED
  BY Step(p), <1>5, <1>6, <1>7, <1>8, <1>9, <1>11, <1>12, <1>13, <1>14, <1>16,
     <1>17, <1>18, <1>19, <1>20, <1>21, <1>22, <1>23, <1>24, <1>27, <1>29,
     <1>30, <1>31, <1>32, <1>33, <1>34, <1>35, <1>36, <1>37, <1>38, <1>39,
     <1>40, <1>41, <1>42, <1>43, <1>44, <1>45, <1>46, <1>47, <1>48, <1>49,
     <1>50, <1>51, <1>52, <1>53
  DEF Step, Ialloccg

\* Every step keeps the locks exact, and nobody who sleeps is forgotten.
LEMMA LocksStep ==
    ASSUME TypeOK, Frames, DirsOK, LocksExact, InodesOK, TableExact, NEW p \in Procs, Step(p)
    PROVE  LocksExact'
<1>1. CountsExact /\ FreeListExact
  BY DEF TableExact
<1>2. PICK G \in SUBSET Table, T \in SUBSET Table : G \cap T = {} /\ Effect(p, G, T)
  BY <1>1, LockEffect
<1>3. \A q \in Procs \ {p} : proc'[q] = proc[q]
  BY Alone
<1>4. inode' \in [Table -> Inode]
  BY <1>1, SlotsStep
<1> QED BY <1>2, <1>3, <1>4, EffectKeeps

------------------------------------------------------------------------------
(* The directories. *)

\* A directory stays, is taken by a new user, or is put.
DirsKept ==
    \A d \in Dirs : \/ inode'[d].count = inode[d].count /\ inode'[d].locked = inode[d].locked
                    \/ inode'[d].count = 1 /\ ~inode'[d].locked
                    \/ /\ ~inode[d].locked /\ inode'[d].locked
                       /\ inode'[d].count = inode[d].count + 1

LEMMA DirsKeptOK ==
    ASSUME TypeOK, DirsOK, DirsKept
    PROVE  DirsOK'
<1>1. \A d \in Dirs : d \in Table /\ inode[d].count \in Nat /\ inode[d].locked \in BOOLEAN
  BY DEF TypeOK, Inode, Table
<1> QED BY <1>1 DEF DirsOK, DirsKept

LEMMA FilesOnly ==
    ASSUME NEW s \in Slots, Elsewhere({s})
    PROVE  DirsKept
BY Assumed DEF Elsewhere, DirsKept, Table

LEMMA DirsStep ==
    ASSUME TypeOK, Frames, DirsOK, LocksExact, InodesOK, CountsExact,
           NEW p \in Procs, Step(p)
    PROVE  DirsOK'
<1>1. /\ inode \in [Table -> Inode] /\ Slots \subseteq Table /\ Dirs \subseteq Table
      /\ Slots \cap Dirs = {}
  BY Assumed DEF TypeOK, Table
<1>2. \A l : At(p, l) => proc[p].pc = l
  BY DEF At
<1>3. proc[p].pc \in {"namei", "got", "null", "ialloccg", "ifreeino", "direnter", "dirwrite",
                      "undir"} => Dir(p) \in Dirs
  BY AtHand
<1>4. SUFFICES DirsKept
  BY DirsKeptOK
<1>5. ASSUME inode' = inode
      PROVE  DirsKept
  BY <1>5 DEF DirsKept
<1>6. ASSUME NEW d, d = Dir(p), inode' = Put(inode, d),
             proc[p].pc \in {"got", "null", "ialloccg", "ifreeino", "direnter", "dirwrite",
                             "undir"}
      PROVE  DirsKept
  <2>1. Elsewhere({d}) /\ inode'[d].count = 1 /\ ~inode'[d].locked
    BY <1>6, PutTable
  <2> QED BY <1>1, <2>1 DEF Elsewhere, DirsKept
<1>7. ASSUME NEW d \in Dirs, ~inode[d].locked,
             inode' = [inode EXCEPT ![d].locked = TRUE, ![d].count = @ + 1]
      PROVE  DirsKept
  <2>1. Elsewhere({d}) /\ inode'[d].count = inode[d].count + 1 /\ inode'[d].locked
    BY <1>1, <1>7, AcquiredTable
  <2> QED BY <1>1, <1>7, <2>1 DEF Elsewhere, DirsKept
<1>8. ASSUME NEW s \in Table, SleepOn(p, s)
      PROVE  DirsKept
  <2>1. /\ Elsewhere({s}) /\ inode'[s].count = inode[s].count
        /\ inode'[s].locked = inode[s].locked
    BY <1>8, SleepOnTable
  <2> QED BY <1>1, <2>1 DEF Elsewhere, DirsKept
<1>9. ASSUME NEW s \in Slots, NEW d \in Dirs, Elsewhere({s, d}), inode'[d].count = 1,
             ~inode'[d].locked
      PROVE  DirsKept
  BY <1>1, <1>9 DEF Elsewhere, DirsKept
<1>10. CASE NameiLocked(p) \/ CloseLocked(p) \/ IgetLocked(p)
  <2>1. proc[p].pc = "close" => proc[p].fd \in Table
    BY AtHand
  <2>2. PICK s \in Table : SleepOn(p, s)
    BY <1>1, <1>2, <1>3, <1>10, <2>1 DEF NameiLocked, CloseLocked, IgetLocked
  <2> QED BY <1>8, <2>2
<1>11. CASE NameiFound(p)
  BY <1>2, <1>3, <1>7, <1>11 DEF NameiFound
<1>12. CASE NameiMake(p) \/ NameiEnter(p)
  BY <1>2, <1>3, <1>7, <1>12 DEF NameiMake, NameiEnter, NameiFree
<1>13. CASE GotOpen(p) \/ GotNull(p) \/ Undir(p)
  BY <1>2, <1>6, <1>13 DEF GotOpen, GotNull, Undir
<1>14. CASE IalloccgNone(p) \/ IalloccgFails(p) \/ Ifreeino(p)
  BY <1>2, <1>6, <1>14 DEF IalloccgNone, IalloccgFails, Ifreeino, NoInode
<1>15. CASE EnterFails(p) \/ DirenterDone(p)
  BY <1>2, <1>6, <1>15 DEF EnterFails, DirenterFails, DirenterDone, Dirwrite
<1>16. CASE IalloccgTake(p)
  <2>1. inode' = inode \/ inode' = Put(inode, Dir(p))
    BY <1>16 DEF IalloccgTake, NoInode
  <2>2. proc[p].pc = "ialloccg"
    BY <1>2, <1>16 DEF IalloccgTake
  <2> QED BY <1>5, <1>6, <2>1, <2>2
<1>17. CASE GotLink(p)
  BY <1>9, <1>17, GotLinkTable
<1>18. CASE GotExisting(p)
  BY <1>9, <1>18, GotExistingTable
<1>19. CASE MakeFails(p)
  BY <1>9, <1>19, MakeFailsTable
<1>20. CASE IgetHit(p)
  <2>1. PICK s \in Slots : inode' = [inode EXCEPT ![s].count = @ + 1, ![s].locked = TRUE]
    BY <1>20 DEF IgetHit
  <2> QED BY <1>1, <2>1, AcquiredTable, FilesOnly
<1>21. CASE Sync(p)
  <2>1. PICK s \in Slots : inode' = [inode EXCEPT ![s].locked = TRUE, ![s].count = @ + 1]
    BY <1>21 DEF Sync
  <2> QED BY <1>1, <2>1, AcquiredTable, FilesOnly
<1>22. CASE Call(p)
  BY <1>5, <1>22 DEF Call
<1>23. CASE CallClose(p)
  BY <1>5, <1>23 DEF CallClose
<1>24. CASE NameiFails(p)
  BY <1>5, <1>24 DEF NameiFails
<1>25. CASE NameiError(p)
  BY <1>5, <1>25 DEF NameiError
<1>26. CASE IgetFull(p)
  BY <1>5, <1>26 DEF IgetFull
<1>27. CASE GotUnlink(p)
  BY <1>5, <1>27 DEF GotUnlink
<1>28. CASE GotInUse(p)
  BY <1>5, <1>28 DEF GotInUse
<1>29. CASE MakeNull(p)
  BY <1>5, <1>29 DEF MakeNull
<1>30. CASE Opened(p)
  BY <1>5, <1>30 DEF Opened
<1>31. CASE OpenedFails(p)
  BY <1>5, <1>31 DEF OpenedFails
<1>32. CASE Direnter(p)
  BY <1>5, <1>32 DEF Direnter
<1>33. CASE Dirremove(p)
  BY <1>5, <1>33 DEF Dirremove
<1>34. CASE Close(p)
  BY <1>5, <1>34 DEF Close
<1>35. CASE Ifree(p)
  BY <1>5, <1>35 DEF Ifree
<1>36. CASE IfreeFails(p)
  BY <1>5, <1>36 DEF IfreeFails
<1>37. CASE IupdatFails(p)
  BY <1>5, <1>37 DEF IupdatFails
<1>38. CASE Bwrite(p)
  BY <1>5, <1>38 DEF Bwrite
<1>39. CASE Iread(p)
  BY <1>5, <1>39, IreadTable, FilesOnly DEF Iread
<1>40. CASE IreadFails(p)
  BY <1>5, <1>40, IreadFailsTable, FilesOnly DEF IreadFails
<1>41. CASE IgetMiss(p)
  BY <1>5, <1>41, IgetMissTable, FilesOnly DEF IgetMiss
<1>42. CASE Iput(p)
  BY <1>5, <1>42, IputTable, FilesOnly DEF Iput
<1>43. CASE Granted(p)
  BY <1>5, <1>43, GrantedTable, FilesOnly DEF Granted
<1>44. CASE Linked(p)
  BY <1>5, <1>44, LinkedTable, FilesOnly DEF Linked
<1>45. CASE OpenedOld(p)
  BY <1>5, <1>45, OpenedOldTable, FilesOnly DEF OpenedOld
<1>46. CASE GotNew(p)
  BY <1>5, <1>46, GotNewTable, FilesOnly DEF GotNew
<1>47. CASE Out(p)
  BY <1>5, <1>47, OutTable, FilesOnly DEF Out
<1>48. CASE DirremoveFails(p)
  BY <1>5, <1>48, DirremoveFailsTable, FilesOnly DEF DirremoveFails
<1>49. CASE DirremoveDone(p)
  BY <1>5, <1>49, DirremoveDoneTable, FilesOnly DEF DirremoveDone
<1>50. CASE IreleLast(p)
  BY <1>5, <1>50, IreleLastTable, FilesOnly DEF IreleLast
<1>51. CASE IreleUnlinked(p)
  BY <1>5, <1>51, IreleUnlinkedTable, FilesOnly DEF IreleUnlinked
<1>52. CASE IreleShared(p)
  BY <1>5, <1>52, IreleSharedTable, FilesOnly DEF IreleShared
<1>53. CASE Release(p)
  BY <1>5, <1>53, ReleaseTable, FilesOnly DEF Release
<1>54. CASE Truncated(p)
  BY <1>5, <1>54, TruncatedTable, FilesOnly DEF Truncated
<1>55. CASE Iupdat(p)
  BY <1>5, <1>55, IupdatTable, FilesOnly DEF Iupdat
<1> QED
  BY Step(p), <1>10, <1>11, <1>12, <1>13, <1>14, <1>15, <1>16, <1>17, <1>18,
     <1>19, <1>20, <1>21, <1>22, <1>23, <1>24, <1>25, <1>26, <1>27, <1>28,
     <1>29, <1>30, <1>31, <1>32, <1>33, <1>34, <1>35, <1>36, <1>37, <1>38,
     <1>39, <1>40, <1>41, <1>42, <1>43, <1>44, <1>45, <1>46, <1>47, <1>48,
     <1>49, <1>50, <1>51, <1>52, <1>53, <1>54, <1>55
  DEF Step, Ialloccg

------------------------------------------------------------------------------
(* The inodes of files. *)

\* A step of p adds no reference to a file, and is not about to read an inode
\* or to finish with the last reference, if p was not before.
HandLess(p) ==
    /\ \A s \in Slots : Refers(proc'[p], s) => Refers(proc[p], s)
    /\ proc'[p].pc # "iread"
    /\ Sole(proc'[p]) => Sole(proc[p]) /\ proc'[p].ip = proc[p].ip
    /\ proc'[p].ret = "null" => proc[p].ret = "null" /\ proc'[p].ip = proc[p].ip

LEMMA HandUse ==
    ASSUME TypeOK, Frames, NEW p \in Procs, Step(p), ~Changes(p), ~IreadFails(p),
           ~IreleLast(p), ~IreleUnlinked(p)
    PROVE  HandLess(p)
<1>1. /\ proc \in [Procs -> Process] /\ proc[p] \in Process /\ Frame(proc[p])
      /\ None \notin Slots
  BY Assumed DEF TypeOK, Frames
<1>2. \A l : At(p, l) => proc[p].pc = l
  BY DEF At
<1>3. ASSUME NEW fd, proc'[p] = InUser(fd),
             \A s \in Slots : fd = s => Refers(proc[p], s)
      PROVE  HandLess(p)
  <2>1. /\ proc'[p].ip = None /\ proc'[p].lp = None /\ proc'[p].fd = fd
    BY <1>3, UserHas
  <2>2. proc'[p].pc = "user" /\ proc'[p].ret = "user"
    BY <1>3, UserAt
  <2> QED BY <1>1, <1>3, <2>1, <2>2 DEF HandLess, Refers, Sole
<1>4. CASE Call(p)
  <2>1. PICK op \in Calls[p], a \in Paths, b \in Paths :
          proc' = [proc EXCEPT ![p] = [@ EXCEPT !.op = op, !.at = a, !.to = b, !.pc = "namei"]]
    BY <1>4 DEF Call
  <2>2. proc[p].pc = "user"
    BY <1>2, <1>4 DEF Call
  <2>3. proc[p].ip = None /\ proc[p].ret = "user"
    BY <1>1, <2>2 DEF Frame, OpsOK, RetOK, HandOK, PathOK, Ireles
  <2>4. /\ proc'[p].pc = "namei" /\ proc'[p].ip = proc[p].ip /\ proc'[p].ret = "user"
        /\ proc'[p].lp = proc[p].lp /\ proc'[p].fd = proc[p].fd
    BY <1>1, <2>1, <2>3 DEF Process
  <2> QED BY <1>1, <2>3, <2>4 DEF HandLess, Refers, Sole
<1>5. ASSUME proc' = proc, proc[p].pc # "iread"
      PROVE  HandLess(p)
  BY <1>5 DEF HandLess
<1>6. CASE NameiLocked(p) \/ CloseLocked(p) \/ IgetLocked(p) \/ GotInUse(p)
  <2>1. proc' = proc
    BY <1>6 DEF NameiLocked, CloseLocked, IgetLocked, GotInUse, SleepOn
  <2>2. proc[p].pc # "iread"
    BY <1>2, <1>6 DEF NameiLocked, CloseLocked, IgetLocked, GotInUse
  <2> QED BY <1>5, <2>1, <2>2
<1>7. CASE CallClose(p)
  <2>1. proc[p].pc = "user"
    BY <1>2, <1>7 DEF CallClose
  <2>2. proc[p].ip = None /\ proc[p].ret = "user"
    BY <1>1, <2>1 DEF Frame, OpsOK, ThenOK, RetOK, HandOK, PathOK, Lookups, Opens, Ireles
  <2>3. /\ proc'[p].pc = "close" /\ proc'[p].ip = proc[p].ip
        /\ proc'[p].lp = proc[p].lp /\ proc'[p].fd = proc[p].fd
        /\ proc'[p].ret = proc[p].ret
    BY <1>1, <2>1, <2>2, <1>7 DEF CallClose, Go, Process
  <2> QED BY <1>1, <2>1, <2>2, <2>3 DEF HandLess, Refers, Sole
<1>8. CASE Close(p)
  <2>1. proc[p].pc = "close"
    BY <1>2, <1>8 DEF Close
  <2>2. proc[p].ip = None /\ proc[p].ret = "user" /\ proc[p].fd # None
    BY <1>1, <2>1 DEF Frame, OpsOK, ThenOK, RetOK, HandOK, PathOK, Lookups, Opens, Ireles
  <2>3. /\ proc'[p].pc = "irele" /\ proc'[p].ip = proc[p].fd
        /\ proc'[p].lp = proc[p].lp /\ proc'[p].fd = None
        /\ proc'[p].ret = proc[p].ret
    BY <1>1, <2>1, <2>2, <1>8 DEF Close, Go, Process
  <2> QED BY <1>1, <2>1, <2>2, <2>3 DEF HandLess, Refers, Sole
<1>9. CASE NameiFound(p)
  <2>1. proc[p].pc = "namei"
    BY <1>2, <1>9 DEF NameiFound
  <2>2. proc[p].ip = None /\ proc[p].ret = "user"
    BY <1>1, <2>1 DEF Frame, OpsOK, ThenOK, RetOK, HandOK, PathOK, Lookups, Opens, Ireles
  <2>3. /\ proc'[p].pc = "iget" /\ proc'[p].ip = proc[p].ip
        /\ proc'[p].lp = proc[p].lp /\ proc'[p].fd = proc[p].fd
        /\ proc'[p].ret = proc[p].ret
    BY <1>1, <2>1, <2>2, <1>9 DEF NameiFound, Go, Process
  <2> QED BY <1>1, <2>1, <2>2, <2>3 DEF HandLess, Refers, Sole
<1>10. CASE NameiMake(p)
  <2>1. proc[p].pc = "namei"
    BY <1>2, <1>10 DEF NameiMake, NameiFree
  <2>2. proc[p].ip = None /\ proc[p].ret = "user"
    BY <1>1, <2>1 DEF Frame, OpsOK, ThenOK, RetOK, HandOK, PathOK, Lookups, Opens, Ireles
  <2>3. /\ proc'[p].pc = "ialloccg" /\ proc'[p].ip = proc[p].ip
        /\ proc'[p].lp = proc[p].lp /\ proc'[p].fd = proc[p].fd
        /\ proc'[p].ret = proc[p].ret
    BY <1>1, <2>1, <2>2, <1>10 DEF NameiMake, NameiFree, Go, Process
  <2> QED BY <1>1, <2>1, <2>2, <2>3 DEF HandLess, Refers, Sole
<1>11. CASE NameiEnter(p)
  <2>1. proc[p].pc = "namei"
    BY <1>2, <1>11 DEF NameiEnter, NameiFree
  <2>2. proc[p].ip = None /\ proc[p].ret = "user"
    BY <1>1, <2>1 DEF Frame, OpsOK, ThenOK, RetOK, HandOK, PathOK, Lookups, Opens, Ireles
  <2>3. /\ proc'[p].pc = "direnter" /\ proc'[p].ip = proc[p].ip
        /\ proc'[p].lp = proc[p].lp /\ proc'[p].fd = proc[p].fd
        /\ proc'[p].ret = proc[p].ret
    BY <1>1, <2>1, <2>2, <1>11 DEF NameiEnter, NameiFree, Go, Process
  <2> QED BY <1>1, <2>1, <2>2, <2>3 DEF HandLess, Refers, Sole
<1>12. CASE NameiFails(p)
  <2>1. proc'[p] = InUser(proc[p].fd)
    BY <1>1, <1>12 DEF NameiFails
  <2> QED BY <1>3, <2>1 DEF Refers
<1>13. CASE IalloccgNone(p)
  <2>1. proc'[p] = InUser(proc[p].fd)
    BY <1>1, <1>13 DEF IalloccgNone, NoInode
  <2> QED BY <1>3, <2>1 DEF Refers
<1>14. CASE IalloccgFails(p)
  <2>1. proc'[p] = InUser(proc[p].fd)
    BY <1>1, <1>14 DEF IalloccgFails, NoInode
  <2> QED BY <1>3, <2>1 DEF Refers
<1>15. CASE Ifreeino(p)
  <2>1. proc'[p] = InUser(proc[p].fd)
    BY <1>1, <1>15 DEF Ifreeino, NoInode
  <2> QED BY <1>3, <2>1 DEF Refers
<1>16. CASE Undir(p)
  <2>1. proc'[p] = InUser(proc[p].fd)
    BY <1>1, <1>16 DEF Undir
  <2> QED BY <1>3, <2>1 DEF Refers
<1>17. CASE NameiError(p)
  <2>1. proc[p].pc = "namei"
    BY <1>2, <1>17 DEF NameiError
  <2>2. proc[p].ip = None /\ proc[p].ret = "user"
    BY <1>1, <2>1 DEF Frame, OpsOK, RetOK, HandOK, PathOK, Ireles
  <2>3. CASE proc' = [proc EXCEPT ![p].err = TRUE, ![p].pc = "out"]
    <3>1. /\ proc'[p].pc = "out" /\ proc'[p].ip = None /\ proc'[p].lp = proc[p].lp
          /\ proc'[p].fd = proc[p].fd /\ proc'[p].ret = "user"
      BY <1>1, <2>2, <2>3 DEF Process
    <3> QED BY <1>1, <2>2, <3>1 DEF HandLess, Refers, Sole
  <2>4. CASE proc' = [proc EXCEPT ![p] = InUser(@.fd)]
    <3>1. proc'[p] = InUser(proc[p].fd)
      BY <1>1, <2>4
    <3> QED BY <1>3, <3>1 DEF Refers
  <2> QED BY <2>3, <2>4, <1>17 DEF NameiError
<1>18. CASE GotNull(p)
  <2>1. proc[p].pc = "null"
    BY <1>2, <1>18 DEF GotNull
  <2>2. proc[p].ip = None /\ proc[p].ret = "user"
    BY <1>1, <2>1 DEF Frame, OpsOK, RetOK, HandOK, PathOK, Ireles
  <2>3. CASE proc' = [proc EXCEPT ![p].err = TRUE, ![p].pc = "out"]
    <3>1. /\ proc'[p].pc = "out" /\ proc'[p].ip = None /\ proc'[p].lp = proc[p].lp
          /\ proc'[p].fd = proc[p].fd /\ proc'[p].ret = "user"
      BY <1>1, <2>2, <2>3 DEF Process
    <3> QED BY <1>1, <2>2, <3>1 DEF HandLess, Refers, Sole
  <2>4. CASE proc' = [proc EXCEPT ![p] = InUser(@.fd)]
    <3>1. proc'[p] = InUser(proc[p].fd)
      BY <1>1, <2>4
    <3> QED BY <1>3, <3>1 DEF Refers
  <2> QED BY <2>3, <2>4, <1>18 DEF GotNull
<1>19. CASE IgetFull(p)
  <2>1. proc[p].pc = "iget"
    BY <1>2, <1>19 DEF IgetFull
  <2>2. /\ proc'[p].pc = "null" /\ proc'[p].ip = proc[p].ip
        /\ proc'[p].lp = proc[p].lp /\ proc'[p].fd = proc[p].fd
        /\ proc'[p].op = proc[p].op /\ proc'[p].ret = proc[p].ret
    BY <1>1, <2>1, <1>19 DEF IgetFull, Go, Process
  <2> QED BY <1>1, <2>1, <2>2 DEF HandLess, Refers, Sole
<1>20. CASE Iread(p)
  <2>1. proc[p].pc = "iread"
    BY <1>2, <1>20 DEF Iread
  <2>2. proc[p].ret = "user"
    BY <1>1, <2>1 DEF Frame, OpsOK, ThenOK, RetOK, HandOK, PathOK, Lookups, Opens, Ireles
  <2>3. /\ proc'[p].pc = "got" /\ proc'[p].ip = proc[p].ip
        /\ proc'[p].lp = proc[p].lp /\ proc'[p].fd = proc[p].fd
        /\ proc'[p].op = proc[p].op /\ proc'[p].ret = proc[p].ret
    BY <1>1, <2>1, <2>2, <1>20 DEF Iread, Go, Process
  <2> QED BY <1>1, <2>1, <2>2, <2>3 DEF HandLess, Refers, Sole
<1>21. CASE GotOpen(p)
  <2>1. proc[p].pc = "got"
    BY <1>2, <1>21 DEF GotOpen
  <2>2. proc[p].ret = "user"
    BY <1>1, <2>1 DEF Frame, OpsOK, ThenOK, RetOK, HandOK, PathOK, Lookups, Opens, Ireles
  <2>3. /\ proc'[p].pc = "opened" /\ proc'[p].ip = proc[p].ip
        /\ proc'[p].lp = proc[p].lp /\ proc'[p].fd = proc[p].fd
        /\ proc'[p].op = proc[p].op /\ proc'[p].ret = proc[p].ret
    BY <1>1, <2>1, <2>2, <1>21 DEF GotOpen, Go, Process
  <2> QED BY <1>1, <2>1, <2>2, <2>3 DEF HandLess, Refers, Sole
<1>22. CASE GotLink(p)
  <2>1. proc[p].pc = "got"
    BY <1>2, <1>22 DEF GotLink
  <2>2. proc[p].ret = "user"
    BY <1>1, <2>1 DEF Frame, OpsOK, ThenOK, RetOK, HandOK, PathOK, Lookups, Opens, Ireles
  <2>3. /\ proc'[p].pc = "iupdat" /\ proc'[p].then = "linked"
        /\ proc'[p].ip = proc[p].ip /\ proc'[p].lp = proc[p].lp
        /\ proc'[p].fd = proc[p].fd /\ proc'[p].op = proc[p].op
        /\ proc'[p].ret = proc[p].ret
    BY <1>1, <2>1, <2>2, <1>22 DEF GotLink, Go, Process
  <2> QED BY <1>1, <2>1, <2>2, <2>3 DEF HandLess, Refers, Sole
<1>23. CASE GotExisting(p)
  <2>1. proc[p].pc = "got" /\ proc[p].op = "enter"
    BY <1>2, <1>23 DEF GotExisting
  <2>2. proc[p].ret = "user"
    BY <1>1, <2>1 DEF Frame, OpsOK, ThenOK, RetOK, HandOK, PathOK, Lookups, Opens, Ireles
  <2>3. /\ proc'[p].pc = "irele" /\ proc'[p].ret = "out"
        /\ proc'[p].ip = proc[p].ip /\ proc'[p].lp = proc[p].lp
        /\ proc'[p].fd = proc[p].fd /\ proc'[p].op = proc[p].op
    BY <1>1, <2>1, <2>2, <1>23 DEF GotExisting, Go, Process
  <2> QED BY <1>1, <2>1, <2>2, <2>3 DEF HandLess, Refers, Sole
<1>24. CASE GotUnlink(p)
  <2>1. proc[p].pc = "got"
    BY <1>2, <1>24 DEF GotUnlink
  <2>2. /\ proc'[p].pc = "dirremove" /\ proc'[p].ip = proc[p].ip
        /\ proc'[p].lp = proc[p].lp /\ proc'[p].fd = proc[p].fd
        /\ proc'[p].op = proc[p].op /\ proc'[p].ret = proc[p].ret
    BY <1>1, <2>1, <1>24 DEF GotUnlink, Go, Process
  <2> QED BY <1>1, <2>1, <2>2 DEF HandLess, Refers, Sole
<1>25. CASE GotNew(p)
  <2>1. proc[p].pc = "got"
    BY <1>2, <1>25 DEF GotNew
  <2>2. /\ proc'[p].pc = "iupdat" /\ proc'[p].then = "direnter"
        /\ proc'[p].ip = proc[p].ip /\ proc'[p].lp = proc[p].lp
        /\ proc'[p].fd = proc[p].fd /\ proc'[p].op = proc[p].op
        /\ proc'[p].ret = proc[p].ret
    BY <1>1, <2>1, <1>25 DEF GotNew, Go, Process
  <2> QED BY <1>1, <2>1, <2>2 DEF HandLess, Refers, Sole
<1>26. CASE MakeNull(p)
  <2>1. proc[p].pc = "null"
    BY <1>2, <1>26 DEF MakeNull
  <2>2. /\ proc'[p].pc = "ifreeino" /\ proc'[p].ip = proc[p].ip
        /\ proc'[p].lp = proc[p].lp /\ proc'[p].fd = proc[p].fd
        /\ proc'[p].op = proc[p].op /\ proc'[p].ret = proc[p].ret
    BY <1>1, <2>1, <1>26 DEF MakeNull, Go, Process
  <2> QED BY <1>1, <2>1, <2>2 DEF HandLess, Refers, Sole
<1>27. CASE Opened(p)
  <2>1. proc[p].pc = "opened"
    BY <1>2, <1>27 DEF Opened
  <2>2. /\ proc'[p].pc = "granted" /\ proc'[p].ip = proc[p].ip
        /\ proc'[p].lp = proc[p].lp /\ proc'[p].fd = proc[p].fd
        /\ proc'[p].op = proc[p].op /\ proc'[p].ret = proc[p].ret
    BY <1>1, <2>1, <1>27 DEF Opened, Go, Process
  <2> QED BY <1>1, <2>1, <2>2 DEF HandLess, Refers, Sole
<1>28. CASE OpenedOld(p)
  <2>1. proc[p].pc = "opened"
    BY <1>2, <1>28 DEF OpenedOld
  <2>2. /\ proc'[p].pc = "iupdat" /\ proc'[p].then = "granted"
        /\ proc'[p].ip = proc[p].ip /\ proc'[p].lp = proc[p].lp
        /\ proc'[p].fd = proc[p].fd /\ proc'[p].op = proc[p].op
        /\ proc'[p].ret = proc[p].ret
    BY <1>1, <2>1, <1>28 DEF OpenedOld, Go, Process
  <2> QED BY <1>1, <2>1, <2>2 DEF HandLess, Refers, Sole
<1>29. CASE OpenedFails(p)
  <2>1. proc[p].pc = "opened"
    BY <1>2, <1>29 DEF OpenedFails
  <2>2. /\ proc'[p].pc = "iput" /\ proc'[p].ip = proc[p].ip
        /\ proc'[p].lp = proc[p].lp /\ proc'[p].fd = proc[p].fd
        /\ proc'[p].op = proc[p].op /\ proc'[p].ret = proc[p].ret
    BY <1>1, <2>1, <1>29 DEF OpenedFails, Go, Process
  <2> QED BY <1>1, <2>1, <2>2 DEF HandLess, Refers, Sole
<1>30. CASE Granted(p)
  <2>1. proc[p].pc = "granted" /\ proc'[p] = InUser(proc[p].ip)
    BY <1>1, <1>2, <1>30 DEF Granted
  <2>2. proc[p].op # "sync" /\ proc[p].ret # "null"
    BY <1>1, <2>1 DEF Frame, OpsOK, RetOK, Opens, Ireles
  <2> QED BY <1>3, <2>1, <2>2 DEF Refers
<1>31. CASE Linked(p)
  <2>1. proc[p].pc = "linked"
    BY <1>2, <1>31 DEF Linked
  <2>2. proc[p].op = "link" /\ proc[p].ret = "user" /\ proc[p].ip # None
    BY <1>1, <2>1 DEF Frame, OpsOK, ThenOK, RetOK, HandOK, PathOK, Lookups, Opens, Ireles
  <2>3. /\ proc'[p].pc \in {"out", "namei"} /\ proc'[p].ip = None
        /\ proc'[p].lp = proc[p].ip /\ proc'[p].fd = proc[p].fd
        /\ proc'[p].ret = proc[p].ret
    BY <1>1, <2>1, <2>2, <1>31 DEF Linked, Go, Process
  <2> QED BY <1>1, <2>1, <2>2, <2>3 DEF HandLess, Refers, Sole
<1>32. CASE Out(p)
  <2>1. proc[p].pc = "out"
    BY <1>2, <1>32 DEF Out
  <2>2. proc[p].lp # None
    BY <1>1, <2>1 DEF Frame, OpsOK, ThenOK, RetOK, HandOK, PathOK, Lookups, Opens, Ireles
  <2>3. /\ proc'[p].pc = "irele" /\ proc'[p].ip = proc[p].lp /\ proc'[p].lp = None
        /\ proc'[p].fd = proc[p].fd /\ proc'[p].ret = "user"
    BY <1>1, <2>1, <2>2, <1>32 DEF Out, Go, Process
  <2> QED BY <1>1, <2>1, <2>2, <2>3 DEF HandLess, Refers, Sole
<1>33. CASE IalloccgTake(p)
  <2>1. PICK i \in Inos : \/ proc' = [proc EXCEPT ![p].ino = i, ![p].pc = "iget"]
                         \/ proc' = [proc EXCEPT ![p] = InUser(@.fd)]
    BY <1>33 DEF IalloccgTake, NoInode
  <2>2. CASE proc' = [proc EXCEPT ![p].ino = i, ![p].pc = "iget"]
    <3>1. /\ proc'[p].pc = "iget" /\ proc'[p].ip = proc[p].ip /\ proc'[p].lp = proc[p].lp
          /\ proc'[p].fd = proc[p].fd /\ proc'[p].op = proc[p].op /\ proc'[p].ret = proc[p].ret
      BY <1>1, <2>2 DEF Process
    <3> QED BY <3>1 DEF HandLess, Refers, Sole
  <2>3. CASE proc' = [proc EXCEPT ![p] = InUser(@.fd)]
    <3>1. proc'[p] = InUser(proc[p].fd)
      BY <1>1, <2>3
    <3> QED BY <1>3, <3>1 DEF Refers
  <2> QED BY <2>1, <2>2, <2>3
<1>34. CASE Direnter(p)
  <2>1. proc[p].pc = "direnter"
    BY <1>2, <1>34 DEF Direnter
  <2>2. /\ proc'[p].pc = "dirwrite" /\ proc'[p].ip = proc[p].ip
        /\ proc'[p].lp = proc[p].lp /\ proc'[p].fd = proc[p].fd
        /\ proc'[p].op = proc[p].op /\ proc'[p].ret = proc[p].ret
    BY <1>1, <2>1, <1>34 DEF Direnter, Go, Process
  <2> QED BY <1>1, <2>1, <2>2 DEF HandLess, Refers, Sole
<1>35. CASE MakeFails(p)
  <2>1. proc[p].pc = "direnter"
    BY <1>2, <1>35 DEF MakeFails, DirenterFails
  <2>2. /\ proc'[p].pc = "irele" /\ proc'[p].ip = proc[p].ip
        /\ proc'[p].lp = proc[p].lp /\ proc'[p].fd = proc[p].fd
        /\ proc'[p].op = proc[p].op /\ proc'[p].ret = proc[p].ret
    BY <1>1, <2>1, <1>35 DEF MakeFails, DirenterFails, Go, Process
  <2> QED BY <1>1, <2>1, <2>2 DEF HandLess, Refers, Sole
<1>36. CASE EnterFails(p)
  <2>1. proc[p].pc = "direnter"
    BY <1>2, <1>36 DEF EnterFails, DirenterFails
  <2>2. /\ proc'[p].pc = "out" /\ proc'[p].ip = proc[p].ip
        /\ proc'[p].lp = proc[p].lp /\ proc'[p].fd = proc[p].fd
        /\ proc'[p].op = proc[p].op /\ proc'[p].ret = proc[p].ret
    BY <1>1, <2>1, <1>36 DEF EnterFails, DirenterFails, Go, Process
  <2> QED BY <1>1, <2>1, <2>2 DEF HandLess, Refers, Sole
<1>37. CASE DirenterDone(p)
  <2>1. proc[p].pc = "dirwrite"
    BY <1>2, <1>37 DEF DirenterDone, Dirwrite
  <2>2. /\ proc'[p].pc \in {"opened", "out"} /\ proc'[p].ip = proc[p].ip
        /\ proc'[p].lp = proc[p].lp /\ proc'[p].fd = proc[p].fd
        /\ proc'[p].op = proc[p].op /\ proc'[p].ret = proc[p].ret
    BY <1>1, <2>1, <1>37 DEF DirenterDone, Dirwrite, Go, Process
  <2> QED BY <1>1, <2>1, <2>2 DEF HandLess, Refers, Sole
<1>38. CASE Dirremove(p)
  <2>1. proc[p].pc = "dirremove"
    BY <1>2, <1>38 DEF Dirremove
  <2>2. /\ proc'[p].pc = "dirwrite" /\ proc'[p].ip = proc[p].ip
        /\ proc'[p].lp = proc[p].lp /\ proc'[p].fd = proc[p].fd
        /\ proc'[p].op = proc[p].op /\ proc'[p].ret = proc[p].ret
    BY <1>1, <2>1, <1>38 DEF Dirremove, Go, Process
  <2> QED BY <1>1, <2>1, <2>2 DEF HandLess, Refers, Sole
<1>39. CASE DirremoveFails(p)
  <2>1. proc[p].pc = "dirremove"
    BY <1>2, <1>39 DEF DirremoveFails
  <2>2. proc[p].ret = "user"
    BY <1>1, <2>1 DEF Frame, OpsOK, ThenOK, RetOK, HandOK, PathOK, Lookups, Opens, Ireles
  <2>3. /\ proc'[p].pc = "irele" /\ proc'[p].ret = "undir"
        /\ proc'[p].ip = proc[p].ip /\ proc'[p].lp = proc[p].lp
        /\ proc'[p].fd = proc[p].fd /\ proc'[p].op = proc[p].op
    BY <1>1, <2>1, <2>2, <1>39 DEF DirremoveFails, Go, Process
  <2> QED BY <1>1, <2>1, <2>2, <2>3 DEF HandLess, Refers, Sole
<1>40. CASE DirremoveDone(p)
  <2>1. proc[p].pc = "dirwrite"
    BY <1>2, <1>40 DEF DirremoveDone, Dirwrite
  <2>2. proc[p].ret = "user"
    BY <1>1, <2>1 DEF Frame, OpsOK, ThenOK, RetOK, HandOK, PathOK, Lookups, Opens, Ireles
  <2>3. /\ proc'[p].pc = "irele" /\ proc'[p].ret = "undir"
        /\ proc'[p].ip = proc[p].ip /\ proc'[p].lp = proc[p].lp
        /\ proc'[p].fd = proc[p].fd /\ proc'[p].op = proc[p].op
    BY <1>1, <2>1, <2>2, <1>40 DEF DirremoveDone, Dirwrite, Go, Process
  <2> QED BY <1>1, <2>1, <2>2, <2>3 DEF HandLess, Refers, Sole
<1>41. CASE Iput(p)
  <2>1. proc[p].pc = "iput"
    BY <1>2, <1>41 DEF Iput
  <2>2. /\ proc'[p].pc = "irele" /\ proc'[p].ip = proc[p].ip
        /\ proc'[p].lp = proc[p].lp /\ proc'[p].fd = proc[p].fd
        /\ proc'[p].op = proc[p].op /\ proc'[p].ret = proc[p].ret
    BY <1>1, <2>1, <1>41 DEF Iput, Go, Process
  <2> QED BY <1>1, <2>1, <2>2 DEF HandLess, Refers, Sole
<1>42. CASE Truncated(p)
  <2>1. proc[p].pc = "truncated"
    BY <1>2, <1>42 DEF Truncated
  <2>2. /\ proc'[p].pc = "ifree" /\ proc'[p].ip = proc[p].ip
        /\ proc'[p].lp = proc[p].lp /\ proc'[p].fd = proc[p].fd
        /\ proc'[p].op = proc[p].op /\ proc'[p].ret = proc[p].ret
    BY <1>1, <2>1, <1>42 DEF Truncated, Go, Process
  <2> QED BY <1>1, <2>1, <2>2 DEF HandLess, Refers, Sole
<1>43. CASE Ifree(p)
  <2>1. proc[p].pc = "ifree"
    BY <1>2, <1>43 DEF Ifree, ToIupdat
  <2>2. /\ proc'[p].pc = "iupdat" /\ proc'[p].ip = proc[p].ip
        /\ proc'[p].lp = proc[p].lp /\ proc'[p].fd = proc[p].fd
        /\ proc'[p].op = proc[p].op /\ proc'[p].ret = proc[p].ret
    BY <1>1, <2>1, <1>43 DEF Ifree, ToIupdat, Go, Process
  <2> QED BY <1>1, <2>1, <2>2 DEF HandLess, Refers, Sole
<1>44. CASE IfreeFails(p)
  <2>1. proc[p].pc = "ifree"
    BY <1>2, <1>44 DEF IfreeFails, ToIupdat
  <2>2. /\ proc'[p].pc = "iupdat" /\ proc'[p].ip = proc[p].ip
        /\ proc'[p].lp = proc[p].lp /\ proc'[p].fd = proc[p].fd
        /\ proc'[p].op = proc[p].op /\ proc'[p].ret = proc[p].ret
    BY <1>1, <2>1, <1>44 DEF IfreeFails, ToIupdat, Go, Process
  <2> QED BY <1>1, <2>1, <2>2 DEF HandLess, Refers, Sole
<1>45. CASE Iupdat(p)
  <2>1. proc[p].pc = "iupdat"
    BY <1>2, <1>45 DEF Iupdat
  <2>2. proc[p].then \in {"direnter", "granted", "linked", "iput", "truncated", "release"}
    BY <1>1, <2>1 DEF Frame, OpsOK, ThenOK, RetOK, HandOK, PathOK, Lookups, Opens, Ireles
  <2>3. /\ (proc'[p].pc = "bwrite" \/ proc'[p].pc = proc[p].then)
        /\ proc'[p].then = proc[p].then /\ proc'[p].ip = proc[p].ip
        /\ proc'[p].lp = proc[p].lp /\ proc'[p].fd = proc[p].fd
        /\ proc'[p].op = proc[p].op /\ proc'[p].ret = proc[p].ret
    BY <1>1, <2>1, <2>2, <1>45 DEF Iupdat, Go, Process
  <2> QED BY <1>1, <2>1, <2>2, <2>3 DEF HandLess, Refers, Sole
<1>46. CASE IupdatFails(p)
  <2>1. proc[p].pc = "iupdat"
    BY <1>2, <1>46 DEF IupdatFails
  <2>2. proc[p].then \in {"direnter", "granted", "linked", "iput", "truncated", "release"}
    BY <1>1, <2>1 DEF Frame, OpsOK, ThenOK, RetOK, HandOK, PathOK, Lookups, Opens, Ireles
  <2>3. /\ proc'[p].pc = proc[p].then /\ proc'[p].then = proc[p].then
        /\ proc'[p].ip = proc[p].ip /\ proc'[p].lp = proc[p].lp
        /\ proc'[p].fd = proc[p].fd /\ proc'[p].op = proc[p].op
        /\ proc'[p].ret = proc[p].ret
    BY <1>1, <2>1, <2>2, <1>46 DEF IupdatFails, Go, Process
  <2> QED BY <1>1, <2>1, <2>2, <2>3 DEF HandLess, Refers, Sole
<1>47. CASE Bwrite(p)
  <2>1. proc[p].pc = "bwrite"
    BY <1>2, <1>47 DEF Bwrite
  <2>2. proc[p].then \in {"direnter", "granted", "linked", "iput", "truncated", "release"}
    BY <1>1, <2>1 DEF Frame, OpsOK, ThenOK, RetOK, HandOK, PathOK, Lookups, Opens, Ireles
  <2>3. /\ proc'[p].pc = proc[p].then /\ proc'[p].then = proc[p].then
        /\ proc'[p].ip = proc[p].ip /\ proc'[p].lp = proc[p].lp
        /\ proc'[p].fd = proc[p].fd /\ proc'[p].op = proc[p].op
        /\ proc'[p].ret = proc[p].ret
    BY <1>1, <2>1, <2>2, <1>47 DEF Bwrite, Go, Process
  <2> QED BY <1>1, <2>1, <2>2, <2>3 DEF HandLess, Refers, Sole
<1> QED
  BY <1>4, <1>6, <1>7, <1>8, <1>9, <1>10, <1>11, <1>12, <1>13, <1>14, <1>15,
     <1>16, <1>17, <1>18, <1>19, <1>20, <1>21, <1>22, <1>23, <1>24, <1>25,
     <1>26, <1>27, <1>28, <1>29, <1>30, <1>31, <1>32, <1>33, <1>34, <1>35,
     <1>36, <1>37, <1>38, <1>39, <1>40, <1>41, <1>42, <1>43, <1>44, <1>45,
     <1>46, <1>47 DEF Step, Ialloccg, Changes

\* Every step is made by a process that nobody preempts.
LEMMA Sleeping ==
    ASSUME NEW p \in Procs, Step(p)
    PROVE  /\ \A q \in Procs \ {p} : proc[q].pc \in Sleeps
           /\ chan[p] = None /\ ~panicked
<1>1. SUFFICES \E l : At(p, l)
  BY DEF At
<1>2. CASE Call(p)
  BY <1>2 DEF Call
<1>3. CASE CallClose(p)
  BY <1>3 DEF CallClose
<1>4. CASE Sync(p)
  BY <1>4 DEF Sync
<1>5. CASE NameiLocked(p)
  BY <1>5 DEF NameiLocked
<1>6. CASE NameiFound(p)
  BY <1>6 DEF NameiFound
<1>7. CASE NameiFails(p)
  BY <1>7 DEF NameiFails
<1>8. CASE NameiError(p)
  BY <1>8 DEF NameiError
<1>9. CASE NameiMake(p)
  BY <1>9 DEF NameiMake, NameiFree
<1>10. CASE NameiEnter(p)
  BY <1>10 DEF NameiEnter, NameiFree
<1>11. CASE IgetLocked(p)
  BY <1>11 DEF IgetLocked
<1>12. CASE IgetHit(p)
  BY <1>12 DEF IgetHit
<1>13. CASE IgetFull(p)
  BY <1>13 DEF IgetFull
<1>14. CASE IgetMiss(p)
  BY <1>14 DEF IgetMiss
<1>15. CASE Iread(p)
  BY <1>15 DEF Iread
<1>16. CASE IreadFails(p)
  BY <1>16 DEF IreadFails
<1>17. CASE GotOpen(p)
  BY <1>17 DEF GotOpen
<1>18. CASE GotLink(p)
  BY <1>18 DEF GotLink
<1>19. CASE GotExisting(p)
  BY <1>19 DEF GotExisting
<1>20. CASE GotUnlink(p)
  BY <1>20 DEF GotUnlink
<1>21. CASE GotNew(p)
  BY <1>21 DEF GotNew
<1>22. CASE GotInUse(p)
  BY <1>22 DEF GotInUse
<1>23. CASE GotNull(p)
  BY <1>23 DEF GotNull
<1>24. CASE MakeNull(p)
  BY <1>24 DEF MakeNull
<1>25. CASE Opened(p)
  BY <1>25 DEF Opened
<1>26. CASE OpenedOld(p)
  BY <1>26 DEF OpenedOld
<1>27. CASE OpenedFails(p)
  BY <1>27 DEF OpenedFails
<1>28. CASE Granted(p)
  BY <1>28 DEF Granted
<1>29. CASE Linked(p)
  BY <1>29 DEF Linked
<1>30. CASE Out(p)
  BY <1>30 DEF Out
<1>31. CASE IalloccgTake(p)
  BY <1>31 DEF IalloccgTake
<1>32. CASE IalloccgNone(p)
  BY <1>32 DEF IalloccgNone
<1>33. CASE IalloccgFails(p)
  BY <1>33 DEF IalloccgFails
<1>34. CASE Ifreeino(p)
  BY <1>34 DEF Ifreeino
<1>35. CASE Direnter(p)
  BY <1>35 DEF Direnter
<1>36. CASE MakeFails(p)
  BY <1>36 DEF MakeFails, DirenterFails
<1>37. CASE EnterFails(p)
  BY <1>37 DEF EnterFails, DirenterFails
<1>38. CASE DirenterDone(p)
  BY <1>38 DEF DirenterDone, Dirwrite
<1>39. CASE Dirremove(p)
  BY <1>39 DEF Dirremove
<1>40. CASE DirremoveFails(p)
  BY <1>40 DEF DirremoveFails
<1>41. CASE DirremoveDone(p)
  BY <1>41 DEF DirremoveDone, Dirwrite
<1>42. CASE Undir(p)
  BY <1>42 DEF Undir
<1>43. CASE CloseLocked(p)
  BY <1>43 DEF CloseLocked
<1>44. CASE Close(p)
  BY <1>44 DEF Close
<1>45. CASE Iput(p)
  BY <1>45 DEF Iput
<1>46. CASE IreleShared(p)
  BY <1>46 DEF IreleShared
<1>47. CASE IreleLast(p)
  BY <1>47 DEF IreleLast
<1>48. CASE IreleUnlinked(p)
  BY <1>48 DEF IreleUnlinked
<1>49. CASE Truncated(p)
  BY <1>49 DEF Truncated
<1>50. CASE Ifree(p)
  BY <1>50 DEF Ifree
<1>51. CASE IfreeFails(p)
  BY <1>51 DEF IfreeFails
<1>52. CASE Release(p)
  BY <1>52 DEF Release
<1>53. CASE Iupdat(p)
  BY <1>53 DEF Iupdat
<1>54. CASE IupdatFails(p)
  BY <1>54 DEF IupdatFails
<1>55. CASE Bwrite(p)
  BY <1>55 DEF Bwrite
<1> QED
  BY Step(p), <1>2, <1>3, <1>4, <1>5, <1>6, <1>7, <1>8, <1>9, <1>10, <1>11,
     <1>12, <1>13, <1>14, <1>15, <1>16, <1>17, <1>18, <1>19, <1>20, <1>21,
     <1>22, <1>23, <1>24, <1>25, <1>26, <1>27, <1>28, <1>29, <1>30, <1>31,
     <1>32, <1>33, <1>34, <1>35, <1>36, <1>37, <1>38, <1>39, <1>40, <1>41,
     <1>42, <1>43, <1>44, <1>45, <1>46, <1>47, <1>48, <1>49, <1>50, <1>51,
     <1>52, <1>53, <1>54, <1>55
  DEF Step, Ialloccg

\* What a step does to the count, the number and the hash chain of the files' inodes:
\* nothing, or one inode is taken, fetched, lost or given back.
SlotSame(s) ==
    /\ inode'[s].count = inode[s].count /\ inode'[s].ino = inode[s].ino
    /\ inode'[s].hashed = inode[s].hashed
TakesSlot(p, s) ==
    /\ ~inode[s].locked /\ inode'[s].count = inode[s].count + 1
    /\ inode'[s].ino = inode[s].ino /\ inode'[s].hashed = inode[s].hashed
FetchesSlot(p, s) ==
    /\ proc[p].pc = "iget" /\ inode[s].count = 0 /\ inode'[s].count = 1
    /\ inode'[s].ino = proc[p].ino /\ inode'[s].hashed
LosesSlot(p, s) ==
    /\ s = proc[p].ip /\ inode[s].count = 1 /\ inode'[s].count = 1
    /\ inode'[s].ino = None /\ ~inode'[s].hashed
GivesSlot(p, s) ==
    /\ s = proc[p].ip /\ inode'[s].count = inode[s].count - 1
    /\ inode'[s].ino = inode[s].ino /\ inode'[s].hashed = inode[s].hashed
OneSlot(p, s) ==
    /\ \A t \in Slots \ {s} : SlotSame(t)
    /\ TakesSlot(p, s) \/ FetchesSlot(p, s) \/ LosesSlot(p, s) \/ GivesSlot(p, s)

LEMMA HeadUnused ==
    ASSUME TypeOK, FreeListExact, freelist # <<>>
    PROVE  Head(freelist) \in Slots /\ inode[Head(freelist)].count = 0
<1>1. freelist \in Seq(Slots) /\ Once(freelist)
  BY FreeList DEF TypeOK
<1>2. Head(freelist) \in Slots /\ Listed(freelist, Head(freelist))
  BY <1>1, Beheaded
<1> QED BY <1>2, FreeList

LEMMA SlotsEffect ==
    ASSUME TypeOK, Frames, DirsOK, LocksExact, InodesOK, CountsExact, FreeListExact,
           NEW p \in Procs, Step(p)
    PROVE  (\A s \in Slots : SlotSame(s)) \/ (\E s \in Slots : OneSlot(p, s))
<1>1. /\ inode \in [Table -> Inode] /\ Slots \subseteq Table
  BY DEF TypeOK, Table
<1>2. \A s : Elsewhere({s}) => \A t \in Slots \ {s} : SlotSame(t)
  BY <1>1 DEF Elsewhere, SlotSame
<1>3. CASE SlotsKept
  BY <1>3 DEF SlotsKept, SlotSame
<1>4. CASE Sync(p)
  <2>1. PICK s \in Slots : /\ ~inode[s].locked
                           /\ inode' = [inode EXCEPT ![s].locked = TRUE, ![s].count = @ + 1]
    BY <1>4 DEF Sync
  <2>2. Elsewhere({s}) /\ SameFile(s) /\ inode'[s].count = inode[s].count + 1
    BY <1>1, <2>1, AcquiredTable
  <2> QED BY <1>2, <2>1, <2>2 DEF OneSlot, TakesSlot, SameFile
<1>5. CASE IgetHit(p)
  <2>1. PICK s \in Slots : /\ ~inode[s].locked
                           /\ inode' = [inode EXCEPT ![s].count = @ + 1, ![s].locked = TRUE]
    BY <1>5 DEF IgetHit
  <2>2. Elsewhere({s}) /\ SameFile(s) /\ inode'[s].count = inode[s].count + 1
    BY <1>1, <2>1, AcquiredTable
  <2> QED BY <1>2, <2>1, <2>2 DEF OneSlot, TakesSlot, SameFile
<1>6. CASE IgetMiss(p)
  <2>1. freelist # <<>>
    BY <1>6 DEF IgetMiss
  <2>2. PICK s \in Slots : s = Head(freelist) /\ inode[s].count = 0
    BY <2>1, HeadUnused
  <2>3. /\ Elsewhere({s}) /\ inode'[s].ino = proc[p].ino /\ inode'[s].hashed
        /\ inode'[s].count = inode[s].count + 1
    BY <1>6, <2>2, IgetMissTable
  <2>4. FetchesSlot(p, s)
    BY <1>6, <2>2, <2>3 DEF FetchesSlot, IgetMiss, At
  <2> QED BY <1>2, <2>3, <2>4 DEF OneSlot
<1>7. CASE IreadFails(p)
  <2>1. PICK s \in Slots : s = proc[p].ip
    BY <1>7, IreadFailsTable
  <2>2. /\ Elsewhere({s}) /\ inode'[s].ino = None /\ ~inode'[s].hashed
        /\ inode'[s].count = inode[s].count
    BY <1>7, <2>1, IreadFailsTable
  <2>3. inode[s].count = 1
    BY <1>7, <2>1 DEF IreadFails, At, InodesOK, HandsOK
  <2> QED BY <1>2, <2>1, <2>2, <2>3 DEF OneSlot, LosesSlot
<1>8. CASE IreleShared(p) \/ Release(p)
  <2>1. PICK s \in Slots : s = proc[p].ip
    BY <1>8, IreleSharedTable, ReleaseTable
  <2>2. /\ Elsewhere({s}) /\ inode'[s].count = inode[s].count - 1
        /\ inode'[s].ino = inode[s].ino /\ inode'[s].hashed = inode[s].hashed
    BY <1>8, <2>1, IreleSharedTable, ReleaseTable DEF SameFile
  <2> QED BY <1>2, <2>1, <2>2 DEF OneSlot, GivesSlot
<1> QED
  BY <1>3, <1>4, <1>5, <1>6, <1>7, <1>8, SlotsStep DEF Changes

\* A step of one process leaves another its inodes, and the only reference.
LEMMA OthersKeep ==
    ASSUME TypeOK, Frames, DirsOK, LocksExact, InodesOK, CountsExact, FreeListExact,
           NEW p \in Procs, Step(p), NEW q \in Procs \ {p}, NEW s \in Slots, Refs(q, s)
    PROVE  /\ inode'[s].ino = inode[s].ino /\ inode'[s].hashed = inode[s].hashed
           /\ inode[s].count = 1 /\ inode[s].locked => inode'[s].count = 1
<1>1. inode[s].count \in Nat
  BY DEF TypeOK, Inode, Table
<1>2. /\ inode[s].count >= 1
      /\ inode[s].count = 1 => ~Refs(p, s)
  BY <1>1, Counted
<1>3. CASE \A t \in Slots : SlotSame(t)
  BY <1>3 DEF SlotSame
<1>4. CASE \E t \in Slots : OneSlot(p, t)
  <2>1. PICK t \in Slots : OneSlot(p, t)
    BY <1>4
  <2>2. CASE t # s
    BY <2>1, <2>2 DEF OneSlot, SlotSame
  <2>3. CASE t = s
    <3>1. CASE TakesSlot(p, s)
      BY <3>1 DEF TakesSlot
    <3>2. CASE FetchesSlot(p, s)
      BY <1>2, <3>2 DEF FetchesSlot
    <3>3. CASE LosesSlot(p, s)
      BY <1>2, <3>3 DEF LosesSlot, Refs
    <3>4. CASE GivesSlot(p, s)
      BY <1>2, <3>4 DEF GivesSlot, Refs
    <3> QED BY <2>1, <2>3, <3>1, <3>2, <3>3, <3>4 DEF OneSlot
  <2> QED BY <2>2, <2>3
<1> QED BY <1>3, <1>4, SlotsEffect

\* A process at a place where it has its inode locked.
LEMMA FileLocked ==
    ASSUME LocksExact, NEW q \in Procs, LockFile(proc[q]), proc[q].ip \in Table
    PROVE  inode[proc[q].ip].locked
<1>1. HasBy(proc[q], proc[q].ip)
  BY DEF HasBy
<1> QED
  BY <1>1, Holds DEF LocksExact, LockExact

LEMMA OthersHands ==
    ASSUME TypeOK, Frames, DirsOK, LocksExact, InodesOK, CountsExact, FreeListExact,
           NEW p \in Procs, Step(p), NEW q \in Procs \ {p}
    PROVE  HandsOK(q)'
<1>1. /\ proc'[q] = proc[q] /\ Frame(proc[q]) /\ proc[q].pc \in Sleeps /\ HandsOK(q)
  BY Alone, Sleeping DEF Frames, InodesOK
<1>2. proc[q].ip # None => proc[q].ip \in Slots /\ proc[q].ip \in Table
  BY Held
<1>3. \A s \in Slots : Refers(proc[q], s) => inode'[s].ino \in Files
  BY <1>1, OthersKeep DEF HandsOK, Refers, Refs
<1>4. proc[q].pc = "iread" \/ Sole(proc[q]) \/ proc[q].ret = "null"
        => /\ proc[q].ip # None /\ LockFile(proc[q])
           /\ inode[proc[q].ip].count = 1
  <2>1. proc[q].pc = "iread" => proc[q].ip # None
    BY <1>1 DEF Frame, HandOK
  <2>2. Sole(proc[q]) => proc[q].ip # None /\ proc[q].pc \in Ireles \ {"irele"}
    BY <1>1 DEF Frame, HandOK, Sole, Ireles
  <2>3. proc[q].ret = "null" => proc[q].ip # None /\ proc[q].pc \in Ireles \ {"irele"}
    BY <1>1 DEF Frame, HandOK, RetOK, Ireles, Sleeps
  <2> QED BY <1>1, <2>1, <2>2, <2>3 DEF LockFile, FilePlaces, Ireles, HandsOK
<1>5. proc[q].pc = "iread" \/ Sole(proc[q]) \/ proc[q].ret = "null"
        => /\ inode'[proc[q].ip].count = 1
           /\ inode'[proc[q].ip].ino = inode[proc[q].ip].ino
  BY <1>2, <1>4, FileLocked, OthersKeep DEF Refs
<1> QED BY <1>1, <1>3, <1>5 DEF HandsOK

\* ... and its own.
LEMMA OwnHands ==
    ASSUME TypeOK, Frames, DirsOK, LocksExact, InodesOK, CountsExact, FreeListExact,
           NEW p \in Procs, Step(p)
    PROVE  HandsOK(p)'
<1>1. /\ proc \in [Procs -> Process] /\ proc[p] \in Process /\ Frame(proc[p]) /\ HandsOK(p)
      /\ None \notin Slots /\ Slots \subseteq Table /\ inode \in [Table -> Inode]
  BY Assumed DEF TypeOK, Frames, InodesOK, Table
<1>2. \A l : At(p, l) => proc[p].pc = l
  BY DEF At
<1>3. proc[p].ip # None => proc[p].ip \in Slots /\ proc[p].ip \in Table
  BY Held
<1>4. CASE Sync(p)
  <2>1. PICK s \in Slots : /\ inode' = [inode EXCEPT ![s].locked = TRUE, ![s].count = @ + 1]
                           /\ proc' = [proc EXCEPT ![p] =
                                [@ EXCEPT !.op = "sync", !.ip = s, !.then = "iput",
                                          !.pc = IF inode[s].dirty THEN "iupdat" ELSE "iput"]]
    BY <1>4 DEF Sync
  <2>2. /\ proc'[p].op = "sync" /\ proc'[p].ip = s /\ proc'[p].then = "iput"
        /\ proc'[p].pc \in {"iupdat", "iput"} /\ proc'[p].lp = proc[p].lp
        /\ proc'[p].fd = proc[p].fd /\ proc'[p].ret = proc[p].ret
    BY <1>1, <2>1 DEF Process
  <2>3. proc[p].pc = "user" /\ proc[p].ret = "user"
    BY <1>1, <1>2, <1>4 DEF Sync, Frame, RetOK, Ireles
  <2>4. \A t \in Slots : inode'[t].ino = inode[t].ino
    BY <1>1, <2>1, AcquiredTable DEF SameFile, Elsewhere
  <2>5. \A t \in Slots : Refers(proc'[p], t) => Refers(proc[p], t)
    BY <2>2 DEF Refers
  <2> QED BY <1>1, <2>2, <2>3, <2>4, <2>5 DEF HandsOK, Sole
<1>5. CASE IgetHit(p)
  <2>1. PICK s \in Slots : /\ Found(s, proc[p].ino)
                           /\ inode' = [inode EXCEPT ![s].count = @ + 1, ![s].locked = TRUE]
                           /\ proc' = [proc EXCEPT ![p].ip = s, ![p].pc = "got"]
    BY <1>5 DEF IgetHit
  <2>2. /\ proc'[p].pc = "got" /\ proc'[p].ip = s /\ proc'[p].lp = proc[p].lp
        /\ proc'[p].fd = proc[p].fd /\ proc'[p].ret = proc[p].ret
    BY <1>1, <2>1 DEF Process
  <2>3. proc[p].pc = "iget" /\ proc[p].ret = "user" /\ proc[p].ino \in Files
    BY <1>1, <1>2, <1>5 DEF IgetHit, Frame, RetOK, PathOK, Ireles, Process, Inos
  <2>4. \A t \in Slots : inode'[t].ino = inode[t].ino
    BY <1>1, <2>1, AcquiredTable DEF SameFile, Elsewhere
  <2>5. inode[s].ino \in Files
    BY <2>1, <2>3 DEF Found
  <2>6. \A t \in Slots : Refers(proc'[p], t) => Refers(proc[p], t) \/ t = s
    BY <2>2 DEF Refers
  <2> QED BY <1>1, <2>2, <2>3, <2>4, <2>5, <2>6 DEF HandsOK, Sole
<1>6. CASE IgetMiss(p)
  <2>1. freelist # <<>>
    BY <1>6 DEF IgetMiss
  <2>2. PICK s \in Slots : s = Head(freelist) /\ inode[s].count = 0
    BY <2>1, HeadUnused
  <2>3. /\ Elsewhere({s}) /\ inode'[s].ino = proc[p].ino
        /\ inode'[s].count = inode[s].count + 1
    BY <1>6, <2>2, IgetMissTable
  <2>4. inode'[s].count = 1
    BY <2>2, <2>3
  <2>5. proc' = [proc EXCEPT ![p].ip = s, ![p].pc = "iread"]
    BY <1>6, <2>2 DEF IgetMiss
  <2>6. /\ proc'[p].pc = "iread" /\ proc'[p].ip = s /\ proc'[p].lp = proc[p].lp
        /\ proc'[p].fd = proc[p].fd /\ proc'[p].ret = proc[p].ret
        /\ proc'[p].ino = proc[p].ino
    BY <1>1, <2>5 DEF Process
  <2>7. proc[p].pc = "iget" /\ proc[p].ret = "user" /\ proc[p].ino \in Files
    BY <1>1, <1>2, <1>6 DEF IgetMiss, Frame, RetOK, PathOK, Ireles, Process, Inos
  <2>8. \A t \in Slots : Refers(proc'[p], t) => Refers(proc[p], t) \/ t = s
    BY <2>6 DEF Refers
  <2>9. \A t \in Slots \ {s} : inode'[t].ino = inode[t].ino
    BY <1>1, <2>3 DEF Elsewhere
  <2> QED BY <1>1, <2>3, <2>4, <2>6, <2>7, <2>8, <2>9 DEF HandsOK, Sole
<1>7. CASE IreadFails(p)
  <2>1. PICK s \in Slots : s = proc[p].ip
    BY <1>7, IreadFailsTable
  <2>2. /\ Elsewhere({s}) /\ inode'[s].ino = None /\ inode'[s].count = inode[s].count
    BY <1>7, <2>1, IreadFailsTable
  <2>3. proc[p].pc = "iread" /\ inode[s].count = 1
    BY <1>1, <1>2, <1>7, <2>1 DEF IreadFails, HandsOK
  <2>4. /\ proc'[p].pc = "irele" /\ proc'[p].ret = "null" /\ proc'[p].ip = s
        /\ proc'[p].lp = proc[p].lp /\ proc'[p].fd = proc[p].fd
    BY <1>1, <1>7, <2>1 DEF IreadFails, Process
  <2>5. inode[s].count \in Nat
    BY <1>1 DEF Inode
  <2>6. proc[p].lp # s /\ proc[p].fd # s
    BY <2>1, <2>3, <2>5, Counted DEF Refs
  <2>7. \A t \in Slots : Refers(proc'[p], t) => Refers(proc[p], t) /\ t # s
    BY <2>4, <2>6 DEF Refers
  <2>8. \A t \in Slots \ {s} : inode'[t].ino = inode[t].ino
    BY <1>1, <2>2 DEF Elsewhere
  <2> QED BY <1>1, <2>2, <2>3, <2>4, <2>7, <2>8 DEF HandsOK, Sole
<1>8. CASE IreleShared(p) \/ Release(p)
  <2>1. PICK s \in Slots : s = proc[p].ip
    BY <1>8, IreleSharedTable, ReleaseTable
  <2>2. Elsewhere({s}) /\ inode'[s].ino = inode[s].ino
    BY <1>8, <2>1, IreleSharedTable, ReleaseTable DEF SameFile
  <2>3. proc[p].pc \in {"irele", "release"} /\ Return(p)
    BY <1>2, <1>8 DEF IreleShared, Release
  <2>4. proc[p].ret \in {"user", "null", "undir", "out"}
    BY <1>1 DEF Frame, RetOK
  <2>5. /\ proc'[p].ip = None /\ proc'[p].lp = proc[p].lp /\ proc'[p].fd = proc[p].fd
    BY <2>3, ReturnGives
  <2>6. proc'[p].ret = "user" /\ proc'[p].pc \in {"user", "null", "undir", "out"}
    <3>1. CASE proc[p].ret = "user"
      <4>1. proc'[p] = InUser(proc[p].fd)
        BY <1>1, <2>3, <3>1 DEF Return
      <4> QED BY <4>1, UserAt
    <3>2. CASE proc[p].ret # "user"
      BY <1>1, <2>3, <2>4, <3>2 DEF Return, Process
    <3> QED BY <3>1, <3>2
  <2>7. \A t \in Slots : inode'[t].ino = inode[t].ino
    BY <1>1, <2>2 DEF Elsewhere
  <2>8. \A t \in Slots : Refers(proc'[p], t) => Refers(proc[p], t)
    BY <1>1, <2>5 DEF Refers
  <2> QED BY <1>1, <2>5, <2>6, <2>7, <2>8 DEF HandsOK, Sole
<1>9. CASE IreleLast(p) \/ IreleUnlinked(p)
  <2>1. PICK s \in Slots : s = proc[p].ip
    BY <1>9, IreleLastTable, IreleUnlinkedTable
  <2>2. Elsewhere({s}) /\ inode'[s].ino = inode[s].ino /\ inode'[s].count = inode[s].count
    BY <1>9, <2>1, IreleLastTable, IreleUnlinkedTable DEF SameFile
  <2>3. inode[s].count = 1
    BY <1>9, <2>1 DEF IreleLast, IreleUnlinked
  <2>4. /\ proc'[p].pc \in {"iupdat", "release"} /\ proc'[p].ip = s
        /\ proc'[p].lp = proc[p].lp /\ proc'[p].fd = proc[p].fd /\ proc'[p].op = proc[p].op
        /\ proc'[p].ret = proc[p].ret
    BY <1>1, <1>9, <2>1 DEF IreleLast, IreleUnlinked, Process
  <2>5. \A t \in Slots : inode'[t].ino = inode[t].ino
    BY <1>1, <2>2 DEF Elsewhere
  <2>6. \A t \in Slots : Refers(proc'[p], t) => Refers(proc[p], t)
    BY <2>1, <2>4 DEF Refers
  <2> QED BY <1>1, <2>1, <2>2, <2>3, <2>4, <2>5, <2>6 DEF HandsOK, Sole
<1>10. CASE ~Changes(p) /\ ~IreadFails(p) /\ ~IreleLast(p) /\ ~IreleUnlinked(p)
  <2>1. HandLess(p)
    BY <1>10, HandUse
  <2>2. SlotsKept
    BY <1>10, SlotsStep
  <2>3. Sole(proc[p]) \/ proc[p].ret = "null" => proc[p].ip # None
    BY <1>1 DEF Sole, Frame, RetOK, HandOK, Ireles
  <2> QED BY <1>1, <1>3, <2>1, <2>2, <2>3 DEF HandLess, SlotsKept, HandsOK
<1> QED
  BY <1>4, <1>5, <1>6, <1>7, <1>8, <1>9, <1>10 DEF Changes

LEMMA SlotsOK ==
    ASSUME TypeOK, Frames, DirsOK, LocksExact, InodesOK, CountsExact, FreeListExact,
           NEW p \in Procs, Step(p), NEW s \in Slots
    PROVE  SlotOK(s)'
<1>1. /\ proc \in [Procs -> Process] /\ proc[p] \in Process /\ Frame(proc[p]) /\ HandsOK(p)
      /\ SlotOK(s) /\ s \in Table /\ s \notin Files /\ s # None /\ s \notin Dirs
      /\ inode \in [Table -> Inode] /\ inode[s] \in Inode
      /\ Slots \subseteq Table /\ Dirs \subseteq Table
      /\ \A i \in Files : i # None /\ i # s
  BY Assumed DEF TypeOK, Frames, InodesOK, Table
<1>2. /\ inode'[s].ino \in Files \cup {None, s}
      /\ inode'[s].ino \in Files => inode'[s].hashed
      /\ inode'[s].ino = s => inode[s].ino = s
  <2>1. proc[p].pc = "iget" => proc[p].ino \in Files
    BY <1>1 DEF Frame, PathOK, Process, Inos
  <2>2. CASE \A t \in Slots : SlotSame(t)
    BY <1>1, <2>2 DEF SlotSame, SlotOK
  <2>3. CASE \E t \in Slots : OneSlot(p, t)
    BY <1>1, <2>1, <2>3
    DEF OneSlot, SlotSame, SlotOK, TakesSlot, LosesSlot, GivesSlot, FetchesSlot
  <2> QED BY <2>2, <2>3, SlotsEffect
\* The inode of another file system is not one that p has at hand.
<1>3. ASSUME inode[s].ino = s
      PROVE  inode'[s].nlink = inode[s].nlink
  <2>1. \A t : At(p, t) => proc[p].pc = t
    BY DEF At
  <2>2. ~Refers(proc[p], s)
    BY <1>1, <1>3 DEF HandsOK
  <2>3. proc[p].pc \in {"got", "direnter", "dirremove", "dirwrite"}
          => proc[p].ip # s
    BY <1>1, <2>2 DEF Frame, OpsOK, RetOK, Lookups, Ireles, Refers
  <2>4. proc[p].pc = "iread" => proc[p].ip # s
    BY <1>1, <1>3 DEF Frame, PathOK, HandsOK, Process, Inos
  <2>5. proc[p].lp # s
    BY <2>2 DEF Refers
  <2>6. \A t : t # s /\ Elsewhere({t}) => inode'[s] = inode[s]
    BY <1>1 DEF Elsewhere
  <2>7. \A t \in Table : Elsewhere({t}) /\ inode'[t].nlink = inode[t].nlink
          => inode'[s].nlink = inode[s].nlink
    BY <1>1 DEF Elsewhere
  <2>8. \A t, d : t # s /\ d # s /\ Elsewhere({t, d}) => inode'[s] = inode[s]
    BY <1>1 DEF Elsewhere
  <2>9. proc[p].pc \in {"namei", "got", "null", "ialloccg", "ifreeino", "direnter",
                        "dirwrite", "undir"} => Dir(p) \in Dirs
    BY AtHand
  <2>10. ASSUME NEW d, d = Dir(p), inode' = Put(inode, d),
                proc[p].pc \in {"got", "null", "ialloccg", "ifreeino", "direnter",
                                "dirwrite", "undir"}
         PROVE  inode'[s].nlink = inode[s].nlink
    BY <1>1, <2>6, <2>10, PutTable
  <2>11. ASSUME NEW t \in Table,
                \/ inode' = [inode EXCEPT ![t].locked = TRUE, ![t].count = @ + 1]
                \/ inode' = [inode EXCEPT ![t].count = @ + 1, ![t].locked = TRUE]
         PROVE  inode'[s].nlink = inode[s].nlink
    BY <2>7, <2>11, AcquiredTable DEF SameFile
  <2>12. CASE NameiLocked(p) \/ CloseLocked(p) \/ IgetLocked(p)
    <3>1. proc[p].pc = "close" => proc[p].fd \in Table
      BY AtHand
    <3>2. PICK t \in Table : SleepOn(p, t)
      BY <1>1, <2>1, <2>9, <2>12, <3>1 DEF NameiLocked, CloseLocked, IgetLocked
    <3> QED BY <2>7, <3>2, SleepOnTable DEF SameFile
  <2>13. CASE NameiFound(p)
    BY <1>1, <2>1, <2>9, <2>11, <2>13 DEF NameiFound
  <2>14. CASE NameiMake(p) \/ NameiEnter(p)
    BY <1>1, <2>1, <2>9, <2>11, <2>14 DEF NameiMake, NameiEnter, NameiFree
  <2>15. CASE GotOpen(p) \/ GotNull(p) \/ Undir(p)
    BY <2>1, <2>10, <2>15 DEF GotOpen, GotNull, Undir
  <2>16. CASE IalloccgNone(p) \/ IalloccgFails(p) \/ Ifreeino(p)
    BY <2>1, <2>10, <2>16 DEF IalloccgNone, IalloccgFails, Ifreeino, NoInode
  <2>17. CASE EnterFails(p) \/ DirenterDone(p)
    BY <2>1, <2>10, <2>17 DEF EnterFails, DirenterFails, DirenterDone, Dirwrite
  <2>18. CASE IalloccgTake(p)
    <3>1. inode' = inode \/ inode' = Put(inode, Dir(p))
      BY <2>18 DEF IalloccgTake, NoInode
    <3>2. proc[p].pc = "ialloccg"
      BY <2>1, <2>18 DEF IalloccgTake
    <3> QED BY <2>10, <3>1, <3>2
  <2>19. CASE GotLink(p)
    <3>1. proc[p].pc = "got"
      BY <2>1, <2>19 DEF GotLink
    <3>2. Elsewhere({proc[p].ip, Dir(p)}) /\ Dir(p) \in Dirs
      BY <2>19, GotLinkTable
    <3> QED BY <1>1, <2>3, <2>8, <3>1, <3>2
  <2>20. CASE GotExisting(p)
    <3>1. proc[p].pc = "got"
      BY <2>1, <2>20 DEF GotExisting
    <3> QED BY <1>1, <2>3, <2>8, <2>20, <3>1, GotExistingTable
  <2>21. CASE MakeFails(p)
    <3>1. proc[p].pc = "direnter"
      BY <2>1, <2>21 DEF MakeFails, DirenterFails
    <3> QED BY <1>1, <2>3, <2>8, <2>21, <3>1, MakeFailsTable
  <2>22. CASE IgetHit(p)
    <3>1. PICK t \in Slots : inode' = [inode EXCEPT ![t].count = @ + 1, ![t].locked = TRUE]
      BY <2>22 DEF IgetHit
    <3> QED BY <1>1, <2>11, <3>1
  <2>23. CASE Sync(p)
    <3>1. PICK t \in Slots : inode' = [inode EXCEPT ![t].locked = TRUE, ![t].count = @ + 1]
      BY <2>23 DEF Sync
    <3> QED BY <1>1, <2>11, <3>1
  <2>24. CASE DirremoveDone(p)
    <3>1. proc[p].pc = "dirwrite"
      BY <2>1, <2>24 DEF DirremoveDone, Dirwrite
    <3> QED BY <2>3, <2>6, <2>24, <3>1, DirremoveDoneTable
  <2>25. CASE Call(p)
    BY <2>25 DEF Call
  <2>26. CASE CallClose(p)
    BY <2>26 DEF CallClose
  <2>27. CASE NameiFails(p)
    BY <2>27 DEF NameiFails
  <2>28. CASE NameiError(p)
    BY <2>28 DEF NameiError
  <2>29. CASE IgetFull(p)
    BY <2>29 DEF IgetFull
  <2>30. CASE GotUnlink(p)
    BY <2>30 DEF GotUnlink
  <2>31. CASE GotInUse(p)
    BY <2>31 DEF GotInUse
  <2>32. CASE MakeNull(p)
    BY <2>32 DEF MakeNull
  <2>33. CASE Opened(p)
    BY <2>33 DEF Opened
  <2>34. CASE OpenedFails(p)
    BY <2>34 DEF OpenedFails
  <2>35. CASE Direnter(p)
    BY <2>35 DEF Direnter
  <2>36. CASE Dirremove(p)
    BY <2>36 DEF Dirremove
  <2>37. CASE Close(p)
    BY <2>37 DEF Close
  <2>38. CASE Ifree(p)
    BY <2>38 DEF Ifree
  <2>39. CASE IfreeFails(p)
    BY <2>39 DEF IfreeFails
  <2>40. CASE IupdatFails(p)
    BY <2>40 DEF IupdatFails
  <2>41. CASE Bwrite(p)
    BY <2>41 DEF Bwrite
  <2>42. CASE Iread(p)
    BY <2>42, <2>1, <2>4, <2>6, IreadTable DEF Iread
  <2>43. CASE GotNew(p)
    BY <2>43, <2>1, <2>3, <2>6, GotNewTable DEF GotNew
  <2>44. CASE DirremoveFails(p)
    BY <2>44, <2>1, <2>3, <2>6, DirremoveFailsTable DEF DirremoveFails
  <2>45. CASE IreadFails(p)
    BY <2>45, <1>1, <2>7, IreadFailsTable DEF IreadFails
  <2>46. CASE IgetMiss(p)
    BY <2>46, <1>1, <2>7, IgetMissTable DEF IgetMiss
  <2>47. CASE Iput(p)
    BY <2>47, <1>1, <2>7, IputTable DEF Iput, SameFile
  <2>48. CASE Granted(p)
    BY <2>48, <1>1, <2>7, GrantedTable DEF Granted, SameFile
  <2>49. CASE Linked(p)
    BY <2>49, <1>1, <2>7, LinkedTable DEF Linked, SameFile
  <2>50. CASE OpenedOld(p)
    BY <2>50, <1>1, <2>7, OpenedOldTable DEF OpenedOld
  <2>51. CASE Out(p)
    BY <2>51, <2>5, <2>6, OutTable DEF Out
  <2>52. CASE IreleLast(p)
    BY <2>52, <1>1, <2>7, IreleLastTable DEF IreleLast, SameFile
  <2>53. CASE IreleUnlinked(p)
    BY <2>53, <1>1, <2>7, IreleUnlinkedTable DEF IreleUnlinked
  <2>54. CASE IreleShared(p)
    BY <2>54, <1>1, <2>7, IreleSharedTable DEF IreleShared, SameFile
  <2>55. CASE Release(p)
    BY <2>55, <1>1, <2>7, ReleaseTable DEF Release
  <2>56. CASE Truncated(p)
    BY <2>56, <1>1, <2>7, TruncatedTable DEF Truncated
  <2>57. CASE Iupdat(p)
    BY <2>57, <1>1, <2>7, IupdatTable DEF Iupdat
  <2> QED
    BY Step(p), <2>12, <2>13, <2>14, <2>15, <2>16, <2>17, <2>18, <2>19, <2>20,
       <2>21, <2>22, <2>23, <2>24, <2>25, <2>26, <2>27, <2>28, <2>29, <2>30,
       <2>31, <2>32, <2>33, <2>34, <2>35, <2>36, <2>37, <2>38, <2>39, <2>40,
       <2>41, <2>42, <2>43, <2>44, <2>45, <2>46, <2>47, <2>48, <2>49, <2>50,
       <2>51, <2>52, <2>53, <2>54, <2>55, <2>56, <2>57
    DEF Step, Ialloccg
<1> QED BY <1>1, <1>2, <1>3 DEF SlotOK

LEMMA InodesStep ==
    ASSUME TypeOK, Frames, DirsOK, LocksExact, InodesOK, CountsExact, FreeListExact,
           NEW p \in Procs, Step(p)
    PROVE  InodesOK'
<1>1. \A q \in Procs : HandsOK(q)'
  <2>1. TAKE q \in Procs
  <2>2. CASE q = p
    BY <2>2, OwnHands
  <2>3. CASE q # p
    BY <2>3, OthersHands
  <2> QED BY <2>2, <2>3
<1>2. \A s \in Slots : SlotOK(s)'
  BY SlotsOK
<1> QED BY <1>1, <1>2 DEF InodesOK

------------------------------------------------------------------------------
(* The rest of the state, and the invariant. *)

\* The directories, the inodes of the disk and the bitmap keep their types.
DiskOK ==
    /\ entry \in [Paths -> Inos] /\ dentry \in [Paths -> Inos]
    /\ dino \in [Inos -> Dinode] /\ sino \in [Inos -> Dinode]
    /\ iused \subseteq Inos /\ failed \subseteq Reads
    /\ lost \in BOOLEAN /\ panicked \in BOOLEAN

LEMMA DiskStep ==
    ASSUME TypeOK, Frames, InodesOK, NEW p \in Procs, Step(p)
    PROVE  DiskOK'
<1>1. /\ entry \in [Paths -> Inos] /\ dentry \in [Paths -> Inos]
      /\ dino \in [Inos -> Dinode] /\ sino \in [Inos -> Dinode]
      /\ iused \subseteq Inos /\ failed \subseteq Reads
      /\ lost \in BOOLEAN /\ panicked \in BOOLEAN
      /\ Failing \subseteq Reads /\ None \in Inos
      /\ TRUE \in BOOLEAN /\ FALSE \in BOOLEAN
  BY InodeCacheAssumption DEF TypeOK, InodeCacheAssumption, Inos
<1>2. ASSUME NEW k, Fails(k)
      PROVE  failed' \subseteq Reads /\ panicked' = panicked
  BY <1>1, <1>2 DEF Fails
<1>3. ASSUME NEW i, FreeNumber(i)
      PROVE  iused' \subseteq Inos /\ failed' = failed /\ panicked' \in BOOLEAN
  BY <1>1, <1>3 DEF FreeNumber
<1>4. ASSUME UNCHANGED disk
      PROVE  /\ entry' = entry /\ dentry' = dentry /\ dino' = dino /\ sino' = sino
             /\ iused' = iused /\ lost' = lost
  BY <1>4 DEF disk
<1>5. ASSUME UNCHANGED env
      PROVE  failed' = failed /\ panicked' = panicked
  BY <1>5 DEF env
<1>6. ASSUME UNCHANGED disk, UNCHANGED env
      PROVE  DiskOK'
  BY <1>1, <1>4, <1>5, <1>6 DEF DiskOK
<1>7. ASSUME UNCHANGED disk, NEW k, Fails(k)
      PROVE  DiskOK'
  BY <1>1, <1>2, <1>4, <1>7 DEF DiskOK
<1>8. CASE Direnter(p)
  <2>1. /\ proc[p].pc = "direnter" /\ Frame(proc[p]) /\ HandsOK(p)
    BY <1>8 DEF Direnter, At, Frames, InodesOK
  <2>2. /\ proc[p].ret # "null" /\ proc[p].op \in {"make", "enter"}
        /\ proc[p].op = "make" => proc[p].ip # None
        /\ proc[p].op = "enter" => proc[p].lp # None
    BY <2>1 DEF Frame, OpsOK, RetOK, HandOK, PathOK, Ireles
  <2>3. /\ proc[p].ip # None => proc[p].ip \in Slots
        /\ proc[p].lp # None => proc[p].lp \in Slots
    BY Held
  <2>4. Entered(p) \in Inos
    BY <2>1, <2>2, <2>3 DEF Entered, HandsOK, Refers, Inos
  <2>5. entry' \in [Paths -> Inos]
    BY <1>1, <1>8, <2>4 DEF Direnter
  <2> QED BY <1>1, <1>5, <1>8, <2>5 DEF Direnter, DiskOK
<1>9. CASE Dirremove(p)
  <2>1. entry' \in [Paths -> Inos]
    BY <1>1, <1>9 DEF Dirremove
  <2> QED BY <1>1, <1>5, <1>9, <2>1 DEF Dirremove, DiskOK
<1>10. CASE DirenterDone(p) \/ DirremoveDone(p)
  <2>1. Dirwrite(p) /\ proc[p].pc = "dirwrite"
    BY <1>10 DEF DirenterDone, DirremoveDone, Dirwrite, At
  <2>2. Frame(proc[p])
    BY DEF Frames
  <2>3. proc[p].at # None
    BY <2>1, <2>2 DEF Frame, OpsOK, PathOK
  <2>4. entry[proc[p].at] \in Inos
    BY <1>1, <2>3, DirOf
  <2>5. dentry' \in [Paths -> Inos]
    BY <1>1, <2>1, <2>4 DEF Dirwrite
  <2> QED BY <1>1, <1>5, <2>1, <2>5 DEF Dirwrite, DiskOK
<1>11. CASE Iupdat(p)
  <2>1. proc[p].pc = "iupdat" /\ Frame(proc[p])
    BY <1>11 DEF Iupdat, At, Frames
  <2>2. proc[p].ip # None
    BY <2>1 DEF Frame, HandOK, Ireles
  <2>3. inode[proc[p].ip] \in Inode
    BY <2>2, Held DEF TypeOK
  <2>4. [mode |-> inode[proc[p].ip].mode, nlink |-> inode[proc[p].ip].nlink] \in Dinode
    BY <2>3 DEF Inode, Dinode
  <2>5. dino' \in [Inos -> Dinode]
    BY <1>1, <1>11, <2>4 DEF Iupdat
  <2> QED BY <1>1, <1>5, <1>11, <2>5 DEF Iupdat, DiskOK
<1>12. CASE Bwrite(p)
  <2> DEFINE i == inode[proc[p].ip].ino
  <2>1. sino' = [sino EXCEPT ![i] = dino[i]]
    BY <1>12 DEF Bwrite
  <2>2. i \in Inos => dino[i] \in Dinode
    BY <1>1
  <2> HIDE DEF i
  <2>3. sino' \in [Inos -> Dinode]
    BY <1>1, <2>1, <2>2
  <2> QED BY <1>1, <1>5, <1>12, <2>3 DEF Bwrite, DiskOK
<1>13. CASE Ifree(p)
  BY <1>1, <1>3, <1>13 DEF Ifree, DiskOK
<1>14. CASE Ifreeino(p)
  <2>1. /\ FreeNumber(proc[p].ino) \/ (Fails("ifree") /\ iused' = iused)
        /\ entry' = entry /\ dentry' = dentry /\ dino' = dino /\ sino' = sino
        /\ lost' = lost
    BY <1>14 DEF Ifreeino
  <2> QED BY <1>1, <1>2, <1>3, <2>1 DEF DiskOK
<1>15. CASE IalloccgNone(p)
  BY <1>1, <1>5, <1>15 DEF IalloccgNone, DiskOK
<1>16. CASE IalloccgTake(p)
  <2>1. /\ \E i \in Inos \ iused : iused' = iused \cup {i}
        /\ entry' = entry /\ dentry' = dentry /\ dino' = dino /\ sino' = sino
        /\ lost' = lost /\ UNCHANGED env
    BY <1>16 DEF IalloccgTake
  <2> QED BY <1>1, <1>5, <2>1 DEF DiskOK
<1>17. CASE GotInUse(p)
  BY <1>1, <1>4, <1>17 DEF GotInUse, DiskOK
<1>18. CASE MakeFails(p) \/ EnterFails(p)
  <2>1. DirenterFails(p)
    BY <1>18 DEF MakeFails, EnterFails
  <2> QED BY <1>6, <1>7, <2>1 DEF DirenterFails
<1>19. CASE Call(p)
  BY <1>6, <1>19 DEF Call
<1>20. CASE CallClose(p)
  BY <1>6, <1>20 DEF CallClose
<1>21. CASE Sync(p)
  BY <1>6, <1>21 DEF Sync
<1>22. CASE NameiLocked(p)
  BY <1>6, <1>22 DEF NameiLocked, SleepOn
<1>23. CASE CloseLocked(p)
  BY <1>6, <1>23 DEF CloseLocked, SleepOn
<1>24. CASE IgetLocked(p)
  BY <1>6, <1>24 DEF IgetLocked, SleepOn
<1>25. CASE NameiFound(p)
  BY <1>6, <1>25 DEF NameiFound
<1>26. CASE NameiFails(p)
  BY <1>6, <1>26 DEF NameiFails
<1>27. CASE NameiMake(p)
  BY <1>6, <1>27 DEF NameiMake, NameiFree
<1>28. CASE NameiEnter(p)
  BY <1>6, <1>28 DEF NameiEnter, NameiFree
<1>29. CASE IgetHit(p)
  BY <1>6, <1>29 DEF IgetHit
<1>30. CASE IgetFull(p)
  BY <1>6, <1>30 DEF IgetFull
<1>31. CASE IgetMiss(p)
  BY <1>6, <1>31 DEF IgetMiss
<1>32. CASE Iread(p)
  BY <1>6, <1>32 DEF Iread
<1>33. CASE GotOpen(p)
  BY <1>6, <1>33 DEF GotOpen
<1>34. CASE GotLink(p)
  BY <1>6, <1>34 DEF GotLink
<1>35. CASE GotExisting(p)
  BY <1>6, <1>35 DEF GotExisting
<1>36. CASE GotUnlink(p)
  BY <1>6, <1>36 DEF GotUnlink
<1>37. CASE GotNew(p)
  BY <1>6, <1>37 DEF GotNew
<1>38. CASE GotNull(p)
  BY <1>6, <1>38 DEF GotNull
<1>39. CASE MakeNull(p)
  BY <1>6, <1>39 DEF MakeNull
<1>40. CASE Opened(p)
  BY <1>6, <1>40 DEF Opened
<1>41. CASE OpenedOld(p)
  BY <1>6, <1>41 DEF OpenedOld
<1>42. CASE OpenedFails(p)
  BY <1>6, <1>42 DEF OpenedFails
<1>43. CASE Granted(p)
  BY <1>6, <1>43 DEF Granted
<1>44. CASE Linked(p)
  BY <1>6, <1>44 DEF Linked
<1>45. CASE Out(p)
  BY <1>6, <1>45 DEF Out
<1>46. CASE Undir(p)
  BY <1>6, <1>46 DEF Undir
<1>47. CASE Close(p)
  BY <1>6, <1>47 DEF Close
<1>48. CASE Iput(p)
  BY <1>6, <1>48 DEF Iput
<1>49. CASE IreleShared(p)
  BY <1>6, <1>49 DEF IreleShared
<1>50. CASE IreleLast(p)
  BY <1>6, <1>50 DEF IreleLast
<1>51. CASE IreleUnlinked(p)
  BY <1>6, <1>51 DEF IreleUnlinked
<1>52. CASE Truncated(p)
  BY <1>6, <1>52 DEF Truncated
<1>53. CASE Release(p)
  BY <1>6, <1>53 DEF Release
<1>54. CASE NameiError(p)
  BY <1>6, <1>54, <1>7 DEF NameiError
<1>55. CASE IreadFails(p)
  BY <1>6, <1>55, <1>7 DEF IreadFails
<1>56. CASE IalloccgFails(p)
  BY <1>6, <1>56, <1>7 DEF IalloccgFails
<1>57. CASE DirremoveFails(p)
  BY <1>6, <1>57, <1>7 DEF DirremoveFails
<1>58. CASE IfreeFails(p)
  BY <1>6, <1>58, <1>7 DEF IfreeFails
<1>59. CASE IupdatFails(p)
  BY <1>6, <1>59, <1>7 DEF IupdatFails
<1> QED
  BY Step(p), <1>8, <1>9, <1>10, <1>11, <1>12, <1>13, <1>14, <1>15, <1>16,
     <1>17, <1>18, <1>19, <1>20, <1>21, <1>22, <1>23, <1>24, <1>25, <1>26,
     <1>27, <1>28, <1>29, <1>30, <1>31, <1>32, <1>33, <1>34, <1>35, <1>36,
     <1>37, <1>38, <1>39, <1>40, <1>41, <1>42, <1>43, <1>44, <1>45, <1>46,
     <1>47, <1>48, <1>49, <1>50, <1>51, <1>52, <1>53, <1>54, <1>55, <1>56,
     <1>57, <1>58, <1>59
  DEF Step, Ialloccg

LEMMA ChanStep ==
    ASSUME TypeOK, Frames, DirsOK, LocksExact, InodesOK, CountsExact, FreeListExact,
           NEW p \in Procs, Step(p)
    PROVE  chan' \in [Procs -> Table \cup {None}]
<1>1. chan \in [Procs -> Table \cup {None}]
  BY DEF TypeOK
<1>2. (\E G : Wakeup(G)) \/ \E s \in Table : SleepOn(p, s)
  BY LockEffect DEF Effect
<1>3. ASSUME NEW G, Wakeup(G)
      PROVE  chan' \in [Procs -> Table \cup {None}]
  BY <1>1, <1>3 DEF Wakeup
<1>4. ASSUME NEW s \in Table, SleepOn(p, s)
      PROVE  chan' \in [Procs -> Table \cup {None}]
  BY <1>1, <1>4 DEF SleepOn
<1> QED BY <1>2, <1>3, <1>4

\* A step of a process keeps the invariant.
LEMMA CoreStep ==
    ASSUME CoreInv, NEW p \in Procs, Step(p)
    PROVE  CoreInv'
<1> USE DEF CoreInv
<1>1. CountsExact /\ FreeListExact /\ OneCopy
  BY DEF TableExact
<1>2. inode' \in [Table -> Inode]
  BY <1>1, SlotsStep
<1>3. TableExact' /\ freelist' \in Seq(Slots)
  BY TableStep DEF TableExact
<1>4. LocksExact'
  BY LocksStep
<1>5. DirsOK'
  BY <1>1, DirsStep
<1>6. InodesOK'
  BY <1>1, InodesStep
<1>7. proc' \in [Procs -> Process] /\ \A q \in Procs \ {p} : proc'[q] = proc[q]
  BY Alone
<1>8. Frames'
  BY <1>7, FrameStep DEF Frames
<1>9. TypeOK'
  BY <1>1, <1>2, <1>3, <1>7, DiskStep, ChanStep DEF TypeOK, DiskOK
<1> QED BY <1>3, <1>4, <1>5, <1>6, <1>8, <1>9

\* A delayed write touches the disk only.
LEMMA CoreWriteback ==
    ASSUME CoreInv, NEW i \in Inos, Writeback(i)
    PROVE  CoreInv'
<1>1. /\ inode' = inode /\ freelist' = freelist /\ entry' = entry /\ dino' = dino
      /\ iused' = iused /\ dentry' = dentry /\ lost' = lost /\ proc' = proc
      /\ chan' = chan /\ failed' = failed /\ panicked' = panicked
      /\ sino' = [sino EXCEPT ![i] = dino[i]]
  BY DEF Writeback, env
<1>2. TypeOK'
  BY <1>1 DEF CoreInv, TypeOK
<1>3. Frames' /\ InodesOK' /\ DirsOK'
  BY <1>1 DEF CoreInv, Frames, InodesOK, HandsOK, SlotOK, DirsOK
<1>4. TableExact' /\ LocksExact'
  BY <1>1 DEF CoreInv, TableExact, OneCopy, FreeListExact, CountsExact, LocksExact,
              LockExact, WillBeWoken, Has, HasFile, HasDir, Dir
<1> QED BY <1>2, <1>3, <1>4 DEF CoreInv

LEMMA CoreStutter ==
    ASSUME CoreInv, UNCHANGED vars
    PROVE  CoreInv'
<1>1. /\ inode' = inode /\ freelist' = freelist /\ entry' = entry /\ dino' = dino
      /\ iused' = iused /\ dentry' = dentry /\ lost' = lost /\ proc' = proc
      /\ chan' = chan /\ failed' = failed /\ panicked' = panicked /\ sino' = sino
  BY DEF vars, disk, env
<1>2. TypeOK'
  BY <1>1 DEF CoreInv, TypeOK
<1>3. Frames' /\ InodesOK' /\ DirsOK'
  BY <1>1 DEF CoreInv, Frames, InodesOK, HandsOK, SlotOK, DirsOK
<1>4. TableExact' /\ LocksExact'
  BY <1>1 DEF CoreInv, TableExact, OneCopy, FreeListExact, CountsExact, LocksExact,
              LockExact, WillBeWoken, Has, HasFile, HasDir, Dir
<1> QED BY <1>2, <1>3, <1>4 DEF CoreInv

\* The sequences of a finite set list each of its members, once.
LEMMA ListsAll ==
    ASSUME NEW S \in SUBSET Slots, NEW f \in SetToSeqs(S)
    PROVE  f \in Seq(Slots) /\ Once(f) /\ \A s \in Slots : Listed(f, s) <=> s \in S
<1> DEFINE n == Cardinality(S)
<1>1. IsFiniteSet(S) /\ n \in Nat
  BY Assumed, FS_Subset, FS_CardinalityType
<1>2. f \in [1..n -> S] /\ \A i, j \in 1..n : i # j => f[i] # f[j]
  BY DEF SetToSeqs
<1> HIDE DEF n
<1>3. IsFiniteSet(1..n) /\ Cardinality(1..n) = n
  BY <1>1, FS_Interval
<1>4. f \in Injection(1..n, S)
  BY <1>2 DEF Injection, IsInjective
<1>5. f \in Surjection(1..n, S)
  BY <1>1, <1>3, <1>4, FS_Injection DEF n
<1>6. f \in Seq(Slots) /\ DOMAIN f = 1..n
  BY <1>1, <1>2
<1>7. \A s \in S : \E k \in 1..n : f[k] = s
  BY <1>5 DEF Surjection
<1> QED BY <1>2, <1>6, <1>7 DEF Once, Listed

LEMMA CoreInit ==
    ASSUME Init
    PROVE  CoreInv
<1>1. PICK S \in SUBSET Slots :
        /\ inode = [s \in Table |-> IF s \in Dirs \cup S THEN InUse(s) ELSE Unused]
        /\ freelist \in SetToSeqs(Slots \ S)
  BY DEF Init
<1>2. /\ proc = [p \in Procs |-> InUser(None)] /\ chan = [p \in Procs |-> None]
  BY DEF Init
<1>3. \A s \in Table : /\ InUse(s) \in Inode /\ InUse(s).ino = s /\ InUse(s).count = 1
                       /\ ~InUse(s).locked /\ InUse(s).nlink = 2 /\ InUse(s).hashed
  <2>1. TAKE s \in Table
  <2>2. /\ InUse(s).ino = s /\ InUse(s).count = 1 /\ InUse(s).locked = FALSE
        /\ InUse(s).want = FALSE /\ InUse(s).mode = TRUE /\ InUse(s).nlink = 2
        /\ InUse(s).dirty = FALSE /\ InUse(s).hashed = TRUE
    BY DEF InUse, Unused
  <2>3. Unused \in Inode
    BY DEF Unused, Inode, Inos
  <2>4. /\ \A x \in Inode : [x EXCEPT !.nlink = 2] \in Inode
        /\ \A x \in Inode : [x EXCEPT !.count = 1] \in Inode
        /\ \A x \in Inode : [x EXCEPT !.ino = s] \in Inode
    BY DEF Inode
  <2>5. InUse(s) \in Inode
    BY <2>3, <2>4, FieldsSet DEF InUse
  <2> QED BY <2>2, <2>5
<1>4. /\ Unused \in Inode /\ Unused.ino = None /\ Unused.count = 0 /\ ~Unused.locked
      /\ ~Unused.hashed
  BY DEF Unused, Inode, Inos
<1>5. inode \in [Table -> Inode]
  BY <1>1, <1>3, <1>4
<1>6. \A s \in Slots : s \in Table /\ s \notin Dirs /\ s # None /\ s \notin Files
  BY Assumed DEF Table
<1>7. /\ \A s \in S : inode[s] = InUse(s)
      /\ \A s \in Slots \ S : inode[s] = Unused
      /\ \A d \in Dirs : inode[d] = InUse(d)
  BY <1>1, <1>6 DEF Table
<1>8. freelist \in Seq(Slots) /\ Once(freelist)
      /\ \A s \in Slots : Listed(freelist, s) <=> s \in Slots \ S
  BY <1>1, ListsAll
<1>9. \A p \in Procs : /\ proc[p].ip = None /\ proc[p].lp = None /\ proc[p].fd = None
                       /\ proc[p].at = None /\ proc[p].pc = "user" /\ proc[p].ret = "user"
                       /\ Frame(proc[p]) /\ proc[p] = InUser(None)
  BY <1>2, UserHas, UserAt, UserOK
<1>10. InUser(None) \in Process
  BY Labels DEF InUser, Process, Inos
<1>11. TypeOK
  <2>1. EmptyDinode \in Dinode
    BY DEF EmptyDinode, Dinode
  <2>2. DiskOK
    BY <2>1 DEF Init, DiskOK, Inos
  <2> QED BY <1>2, <1>5, <1>8, <1>10, <2>2 DEF TypeOK, DiskOK
<1>12. Frames
  BY <1>9 DEF Frames
<1>13. InodesOK
  <2>1. \A p \in Procs : HandsOK(p)
    BY <1>6, <1>9 DEF HandsOK, Refers, Sole
  <2>2. \A s \in S : SlotOK(s)
    BY <1>3, <1>6, <1>7 DEF SlotOK
  <2>3. \A s \in Slots \ S : SlotOK(s)
    BY <1>4, <1>6, <1>7, Assumed DEF SlotOK
  <2> QED BY <2>1, <2>2, <2>3 DEF InodesOK
<1>14. DirsOK
  BY <1>3, <1>7 DEF DirsOK, Table
<1>15. LocksExact
  <2>1. \A s \in Table : s # None /\ ~inode[s].locked
    BY <1>1, <1>3, <1>4, Assumed DEF Table
  <2>2. \A s \in Table, p \in Procs : ~Has(p, s)
    BY <1>9, <2>1 DEF Has, HasFile, HasDir
  <2>3. \A p \in Procs : chan[p] = None
    BY <1>2
  <2> QED BY <2>1, <2>2, <2>3 DEF LocksExact, LockExact, WillBeWoken
<1>16. OneCopy /\ FreeListExact
  <2>1. \A s \in Slots : /\ s \in S => /\ inode[s].hashed /\ inode[s].ino = s
                                        /\ inode[s].count = 1
                         /\ s \notin S => ~inode[s].hashed /\ inode[s].count = 0
    BY <1>3, <1>4, <1>6, <1>7
  <2>2. OneCopy
    BY <2>1 DEF OneCopy
  <2>3. FreeListExact
    BY <1>8, <2>1, FreeList
  <2> QED BY <2>2, <2>3
<1>17. CountsExact
  <2>1. \A s \in Slots : /\ {p \in Procs : proc[p].ip = s} = {}
                         /\ {p \in Procs : proc[p].lp = s} = {}
                         /\ {p \in Procs : proc[p].fd = s} = {}
    BY <1>6, <1>9
  <2>2. \A s \in Slots : inode[s].count = IF inode[s].ino = s THEN 1 ELSE 0
    BY <1>3, <1>4, <1>6, <1>7
  <2>3. Cardinality({}) = 0
    BY FS_EmptySet
  <2>4. \A s \in Slots : inode[s].count = (IF inode[s].ino = s THEN 1 ELSE 0) + 0 + 0 + 0
    BY <2>2
  <2> QED BY <2>1, <2>3, <2>4 DEF CountsExact
<1> QED BY <1>11, <1>12, <1>13, <1>14, <1>15, <1>16, <1>17 DEF CoreInv, TableExact

LEMMA CoreHolds == Spec => []CoreInv
<1>1. Init => CoreInv
  BY CoreInit
<1>2. CoreInv /\ [Next]_vars => CoreInv'
  BY CoreStep, CoreWriteback, CoreStutter DEF Next
<1> QED BY <1>1, <1>2, PTL DEF Spec

\* The table, the disk and the processes stay within their types: no count
\* drops below zero, and no process is left at a place that is not one.
THEOREM TypesHold == Spec => []TypeOK
<1>1. CoreInv => TypeOK
  BY DEF CoreInv
<1> QED BY <1>1, CoreHolds, PTL

\* iget, irele and sync keep the table exact, whoever sleeps in between: a file
\* has one inode in core, its count is the number of its users, and the free
\* list holds, once each, the inodes that nobody has.
THEOREM TableStaysExact == Spec => []TableExact
<1>1. CoreInv => TableExact
  BY DEF CoreInv
<1> QED BY <1>1, CoreHolds, PTL

\* An inode is locked by one process, which is at a place from which it unlocks
\* it; and whoever sleeps on an inode has set IWANT, so that this wakes it.
THEOREM LocksStayExact == Spec => []LocksExact
<1>1. CoreInv => LocksExact
  BY DEF CoreInv
<1> QED BY <1>1, CoreHolds, PTL

==============================================================================
