-------------------------------- MODULE Inode --------------------------------
(***************************************************************************)
(* In-core inodes and the names that lead to them: iget, iput, iupdat and  *)
(* maknode (sys/iget.c), ialloc and ifree (sys/alloc.c), namei             *)
(* (sys/nami.c), open, creat, link (sys/sys2.c), unlink (sys/sys4.c),      *)
(* close (sys/fio.c) and the part of update that writes inodes.            *)
(*                                                                         *)
(* One file system with one directory.  A process runs until it sleeps:    *)
(* for a lock, or for the buffer cache, which every read of a directory or *)
(* an inode and every write of them may do.  Labels in Running are places  *)
(* where a process has the processor.                                      *)
(***************************************************************************)
EXTENDS Integers, Sequences, SequencesExt, FiniteSets, FiniteSetsExt

CONSTANTS IProcs,     \* processes
          Names,      \* names in the directory
          NINODE,     \* size of the table; entry 1 is the directory's for good
          NInos,      \* the inodes of the volume are 1 .. NInos
          INOPB,      \* inodes per block of the i-list
          NICINOD,    \* size of the list of free inodes in the super block
          ICalls      \* the calls the processes make

ASSUME InodeConstants ==
    /\ NINODE \in Nat \ {0, 1} /\ NInos \in Nat \ {0, 1}
    /\ INOPB \in Nat \ {0} /\ NICINOD \in Nat \ {0}
    /\ IsFiniteSet(IProcs) /\ IsFiniteSet(Names)
    /\ ICalls \subseteq {"open", "creat", "link", "unlink", "pipe", "sync"}

Slots == 1 .. NINODE
Inos == 1 .. NInos
ROOT == 1             \* both the directory's number and its entry
Iblocks == 1 .. (NInos + INOPB - 1) \div INOPB

VARIABLES itab,       \* inode[NINODE]
          dino,       \* the i-list as the buffer cache has it
          dir,        \* the directory: name -> inode number, 0 if none
          sinode,     \* s_inode[0 .. s_ninode-1]
          silock,     \* s_ilock
          updlock,
          iu          \* what each process is doing: pc and locals

inodeVars == <<itab, dino, dir, sinode, silock, updlock, iu>>

FreeEntry == [num |-> 0, count |-> 0, lock |-> FALSE, want |-> FALSE,
              mode |-> 0, nlink |-> 0, chg |-> FALSE]

(* ino is u_dent.d_ino or the number sought, ip the entry held, tgt the    *)
(* target of link, pp whether u_pdir is held, ret where iget, iput and     *)
(* plock return to, wait the entry slept on, fd the open file's inode,     *)
(* wfd that of the write end of a pipe; lost is history: pipe has cleared  *)
(* IWANT while the process slept.                                          *)
Idle == [pc |-> "user", op |-> "none", name |-> "none", ino |-> 0, ip |-> 0,
         tgt |-> 0, pp |-> FALSE, ret |-> "none", wait |-> 0, adr |-> 0,
         err |-> FALSE, lost |-> FALSE, fd |-> 0, wfd |-> 0]

Running == {"iget", "plock", "named", "linkfail", "open1", "iputip", "putpp", "done",
            "ialloc", "ialoop", "iagot", "sync"}

HasCPU(p) == \A q \in IProcs \ {p} : iu[q].pc \notin Running

At(p, l) == iu[p].pc = l /\ HasCPU(p)

InodeInit ==
    /\ itab = [s \in Slots |-> IF s = ROOT
                 THEN [FreeEntry EXCEPT !.num = ROOT, !.count = 1, !.mode = 1, !.nlink = 1]
                 ELSE FreeEntry]
    /\ dino = [i \in Inos |-> [mode |-> IF i = ROOT THEN 1 ELSE 0,
                               nlink |-> IF i = ROOT THEN 1 ELSE 0]]
    /\ dir = [n \in Names |-> 0]
    /\ sinode = <<>> /\ silock = 0 /\ updlock = FALSE
    /\ iu = [p \in IProcs |-> Idle]

-----------------------------------------------------------------------------
(* The locking protocol.                                                   *)

(* wakeup(ip): whoever slept in iget searches again, whoever slept in      *)
(* plock tests the lock again.                                             *)
WakeI(v, s) ==
    [q \in IProcs |->
       IF v[q].pc = "iget_sleep" /\ v[q].wait = s THEN [v[q] EXCEPT !.pc = "iget_woken", !.wait = 0, !.lost = FALSE]
       ELSE IF v[q].pc = "plock_sleep" /\ v[q].wait = s THEN [v[q] EXCEPT !.pc = "plock_woken", !.wait = 0]
       ELSE v[q]]

Unlocked(e) == [e EXCEPT !.lock = FALSE, !.want = FALSE]

(* prele(s), after which the processes are at v.                           *)
PreleI(s, e, v) == /\ itab' = [itab EXCEPT ![s] = Unlocked(e)]
                   /\ iu' = IF e.want THEN WakeI(v, s) ELSE v

(* plock of the entry ip (or tgt) of p, then iput or what ret says.        *)
PlockI(p) ==
    LET s == iu[p].ip IN
    /\ At(p, "plock") \/ At(p, "plock_woken")
    /\ IF itab[s].lock
       THEN /\ itab' = [itab EXCEPT ![s].want = TRUE]
            /\ iu' = [iu EXCEPT ![p].pc = "plock_sleep", ![p].wait = s]
       ELSE /\ itab' = [itab EXCEPT ![s].lock = TRUE,
                          ![s].nlink = IF iu[p].op = "link" /\ ~iu[p].err THEN @ + 1 ELSE @,
                          ![s].chg = IF iu[p].op = "link" /\ ~iu[p].err THEN TRUE ELSE @]
            /\ iu' = [iu EXCEPT ![p].pc = "iputip"]
    /\ UNCHANGED <<dino, dir, sinode, silock, updlock>>

-----------------------------------------------------------------------------
(* The entry that has the number iget is to find.                          *)
Matches(p) == {s \in Slots : itab[s].num = iu[p].ino}

(* iget of iu[p].ino.  If it sleeps it must look for the number again.     *)
Bug_IgetSleepWakes(p, s) ==      \* mutant: it goes on with the entry it slept on
    /\ itab' = [itab EXCEPT ![s].want = TRUE]
    /\ iu' = [iu EXCEPT ![p].pc = "plock_sleep", ![p].wait = s, ![p].ip = s]

IgetSleepWakes(p, s) ==
    /\ itab' = [itab EXCEPT ![s].want = TRUE]
    /\ iu' = [iu EXCEPT ![p].pc = "iget_sleep", ![p].wait = s]

(* Entry s, or 0 and u_error.                                              *)
IgetReturns(p, s) == [iu EXCEPT ![p].ip = s, ![p].err = @ \/ s = 0, ![p].ino = 0,
                                ![p].ret = "none", ![p].pc = iu[p].ret]

Iget(p) ==
    LET found == Matches(p)
        unused == {s \in Slots : itab[s].count = 0} IN
    /\ At(p, "iget") \/ At(p, "iget_woken")
    /\ \/ \E s \in found :
            \/ itab[s].lock /\ IgetSleepWakes(p, s)
            \/ /\ ~itab[s].lock
               /\ itab' = [itab EXCEPT ![s].count = @ + 1, ![s].lock = TRUE]
               /\ iu' = IgetReturns(p, s)
       \/ /\ found = {} /\ unused # {}
          /\ LET s == Min(unused) IN
             /\ itab' = [itab EXCEPT ![s].num = iu[p].ino, ![s].lock = TRUE,
                           ![s].want = FALSE, ![s].chg = FALSE, ![s].count = @ + 1]
             /\ iu' = [iu EXCEPT ![p].ip = s, ![p].pc = "iread"]
       \/ /\ found = {} /\ unused = {}             \* Inode table overflow
          /\ iu' = IgetReturns(p, 0)
          /\ UNCHANGED itab
    /\ UNCHANGED <<dino, dir, sinode, silock, updlock>>

(* The inode has been read (iexpand), or could not be.                     *)
IgetRead(p) ==
    LET s == iu[p].ip
        d == dino[itab[s].num] IN
    /\ At(p, "iread")
    /\ \/ /\ itab' = [itab EXCEPT ![s].mode = d.mode, ![s].nlink = d.nlink]
          /\ iu' = IgetReturns(p, s)
       \/ PreleI(s, [FreeEntry EXCEPT !.want = itab[s].want], IgetReturns(p, 0))
    /\ UNCHANGED <<dino, dir, sinode, silock, updlock>>

-----------------------------------------------------------------------------
(* iput of iu[p].ip, whose lock p holds, with continuation l.  The last    *)
(* reference frees the inode if it has no link, and writes it back.        *)
IputTo(p, l) ==
    LET s == iu[p].ip
        e == itab[s]
        gone == [iu EXCEPT ![p].ip = 0, ![p].pc = l] IN
    \/ /\ e.count > 1
       /\ PreleI(s, [e EXCEPT !.count = @ - 1], gone)
    \/ /\ e.count = 1 /\ e.nlink > 0 /\ ~e.chg
       /\ PreleI(s, [FreeEntry EXCEPT !.want = e.want], gone)
    \/ /\ e.count = 1 /\ (e.nlink <= 0 \/ e.chg)
       /\ itab' = [itab EXCEPT ![s].lock = TRUE]
       /\ iu' = [iu EXCEPT ![p].ret = l,
                           ![p].pc = IF e.nlink <= 0 THEN "itrunc" ELSE "iupdat"]

IputIp(p) == /\ At(p, "iputip")
             /\ IputTo(p, IF iu[p].pp THEN "putpp" ELSE "done")
             /\ UNCHANGED <<dino, dir, sinode, silock, updlock>>

(* getfs finds "bad count" and empties the list.                           *)
Getfs(l) == IF Len(l) > NICINOD THEN <<>> ELSE l

(* itrunc has given the blocks back; ifree; then iupdat reads the i-list.  *)
Ifree(i) == LET l == Getfs(sinode) IN
            IF silock # 0 \/ Len(l) >= NICINOD THEN l ELSE Append(l, i)

IputFree(p) ==
    LET s == iu[p].ip IN
    /\ At(p, "itrunc")
    /\ itab' = [itab EXCEPT ![s].mode = 0, ![s].chg = TRUE]
    /\ sinode' = Ifree(itab[s].num)
    /\ iu' = [iu EXCEPT ![p].pc = "iupdat"]
    /\ UNCHANGED <<dino, dir, silock, updlock>>

Iupdat(s) == /\ dino' = [dino EXCEPT ![itab[s].num] =
                            [mode |-> itab[s].mode, nlink |-> itab[s].nlink]]
             /\ sinode' = Getfs(sinode)

IputWrite(p) ==
    LET s == iu[p].ip IN
    /\ At(p, "iupdat")
    /\ Iupdat(s)
    /\ PreleI(s, [FreeEntry EXCEPT !.want = itab[s].want],
              [iu EXCEPT ![p].ip = 0, ![p].ret = "none", ![p].pc = iu[p].ret])
    /\ UNCHANGED <<dir, silock, updlock>>

(* iput(u_pdir): the directory has another reference, so it never sleeps.  *)
PutDir(p, v) == PreleI(ROOT, [itab[ROOT] EXCEPT !.count = @ - 1],
                       [v EXCEPT ![p].pp = FALSE])

Return(v, p) == [v EXCEPT ![p] = [Idle EXCEPT !.fd = v[p].fd, !.wfd = v[p].wfd]]

(* The call ends, after iput(pp) if the directory is still held.           *)
Done(p) ==
    /\ At(p, "done") \/ At(p, "putpp")
    /\ IF iu[p].pp THEN PutDir(p, Return(iu, p))
       ELSE iu' = Return(iu, p) /\ UNCHANGED itab
    /\ UNCHANGED <<dino, dir, sinode, silock, updlock>>

-----------------------------------------------------------------------------
(* namei.                                                                  *)

ICall(p, o, n) ==
    /\ At(p, "user") /\ o \in ICalls \ {"pipe", "sync"}
    /\ (o \in {"open", "creat"} => iu[p].fd = 0)
    /\ iu' = [iu EXCEPT ![p].op = o, ![p].name = n, ![p].ino = ROOT,
                        ![p].ret = "dirread", ![p].pc = "iget"]
    /\ UNCHANGED <<itab, dino, dir, sinode, silock, updlock>>

(* Which flag namei was called with.                                       *)
Flag(p) == IF iu[p].op = "unlink" THEN 2
           ELSE IF iu[p].op = "creat" \/ (iu[p].op = "link" /\ iu[p].tgt # 0) THEN 1 ELSE 0

Found(p) == dir[iu[p].name] # 0

(* The component matched: the directory is released before its inode is    *)
(* sought.                                                                 *)
NameiFound(p) ==
    /\ At(p, "dirread") /\ Found(p) /\ Flag(p) # 2
    /\ PreleI(ROOT, [itab[ROOT] EXCEPT !.count = @ - 1],
              [iu EXCEPT ![p].ip = 0, ![p].ino = dir[iu[p].name],
                         ![p].name = "none", ![p].ret = "named", ![p].pc = "iget"])
    /\ UNCHANGED <<dino, dir, sinode, silock, updlock>>

(* It did not, or the directory may not be searched or written.                     *)
NameiFails(p) ==
    /\ At(p, "dirread")
    /\ PreleI(ROOT, [itab[ROOT] EXCEPT !.count = @ - 1],
              IF iu[p].tgt # 0
              THEN [iu EXCEPT ![p].ip = iu[p].tgt, ![p].tgt = 0, ![p].err = TRUE, ![p].pc = "plock"]
              ELSE Return(iu, p))
    /\ UNCHANGED <<dino, dir, sinode, silock, updlock>>

(* Flag 2: unlink keeps the directory locked while it gets the inode.      *)
NameiDelete(p) ==
    /\ At(p, "dirread") /\ Found(p) /\ Flag(p) = 2
    /\ iu' = [iu EXCEPT ![p].ip = 0, ![p].pp = TRUE, ![p].ino = dir[iu[p].name],
                        ![p].ret = "unlink", ![p].pc = "iget"]
    /\ UNCHANGED <<itab, dino, dir, sinode, silock, updlock>>

(* Flag 1 and no such name: u_pdir stays locked for wdir.                  *)
NameiCreate(p) ==
    /\ At(p, "dirread") /\ ~Found(p) /\ Flag(p) = 1
    /\ iu' = [iu EXCEPT ![p].pp = TRUE, ![p].ip = iu[p].tgt, ![p].tgt = 0,
                        ![p].pc = IF iu[p].op = "creat" THEN "ialloc" ELSE "wdir"]
    /\ UNCHANGED <<itab, dino, dir, sinode, silock, updlock>>

Bug_Gone(s) == FALSE      \* mutant: the inode is taken as it is found

(* The entry may have been removed while iget slept.                       *)
Gone(s) == itab[s].mode = 0

(* namei returns an inode; the caller releases it, opens it, or (link)     *)
(* unlocks it and looks for the second name.                               *)
Named(p) ==
    LET s == iu[p].ip IN
    /\ At(p, "named")
    /\ \/ /\ s = 0                                    \* iget failed
          /\ iu' = IF iu[p].tgt = 0 THEN [iu EXCEPT ![p].pc = "done"]
                   ELSE [iu EXCEPT ![p].ip = iu[p].tgt, ![p].tgt = 0, ![p].pc = "plock"]
          /\ UNCHANGED itab
       \/ /\ s # 0 /\ iu[p].tgt # 0                   \* link: EEXIST or ENOENT
          /\ IputTo(p, "linkfail")
       \/ /\ s # 0 /\ iu[p].tgt = 0                   \* ENOENT, or access fails
          /\ IputTo(p, "done")
       \/ /\ s # 0 /\ iu[p].tgt = 0 /\ ~Gone(s)
          /\ IF iu[p].op = "link"
             THEN \E m \in Names :
                  PreleI(s, itab[s], [iu EXCEPT ![p].tgt = s, ![p].ip = 0, ![p].name = m,
                                        ![p].ino = ROOT, ![p].ret = "dirread", ![p].pc = "iget"])
             ELSE /\ iu' = [iu EXCEPT ![p].pc = IF iu[p].op = "creat" THEN "ctrunc" ELSE "open1"]
                  /\ itab' = IF iu[p].op = "creat" THEN [itab EXCEPT ![s].chg = TRUE] ELSE itab
    /\ UNCHANGED <<dino, dir, sinode, silock, updlock>>

LinkFail(p) ==
    /\ At(p, "linkfail")
    /\ iu' = [iu EXCEPT ![p].ip = iu[p].tgt, ![p].tgt = 0, ![p].err = TRUE, ![p].pc = "plock"]
    /\ UNCHANGED <<itab, dino, dir, sinode, silock, updlock>>

(* open1 after itrunc: unlock, then falloc and openi succeed or not.       *)
Open1(p) ==
    LET s == iu[p].ip IN
    /\ At(p, "open1") \/ At(p, "ctrunc")
    /\ \/ PreleI(s, itab[s], Return([iu EXCEPT ![p].fd = s, ![p].ip = 0], p))
       \/ PreleI(s, itab[s], [iu EXCEPT ![p].pc = "plock"])
    /\ UNCHANGED <<dino, dir, sinode, silock, updlock>>

(* closef of the last reference to the file structure.                     *)
CloseI(p) ==
    /\ At(p, "user")
    /\ \/ /\ iu[p].fd # 0
          /\ iu' = [iu EXCEPT ![p].op = "close", ![p].ip = iu[p].fd, ![p].fd = 0, ![p].pc = "plock"]
       \/ /\ iu[p].wfd # 0
          /\ iu' = [iu EXCEPT ![p].op = "close", ![p].ip = iu[p].wfd, ![p].wfd = 0, ![p].pc = "plock"]
    /\ UNCHANGED <<itab, dino, dir, sinode, silock, updlock>>

-----------------------------------------------------------------------------
(* unlink, once it has the inode (or iget failed).                         *)
Unlink(p) ==
    LET s == iu[p].ip IN
    /\ At(p, "unlink")
    /\ \/ /\ s = 0
          /\ iu' = [iu EXCEPT ![p].pc = "putpp"]
          /\ UNCHANGED <<itab, dir>>
       \/ /\ s # 0                                    \* writei(pp)
          /\ dir' = [dir EXCEPT ![iu[p].name] = 0]
          /\ itab' = [itab EXCEPT ![s].nlink = @ - 1, ![s].chg = TRUE]
          /\ iu' = [iu EXCEPT ![p].name = "none", ![p].pc = "iputip"]
    /\ UNCHANGED <<dino, sinode, silock, updlock>>

(* wdir of creat (then the call goes on to open1) and of link (then to     *)
(* plock), or its failure.                                                 *)
Wdir(p) ==
    LET s == iu[p].ip IN
    /\ At(p, "wdir")
    /\ \/ /\ dir' = [dir EXCEPT ![iu[p].name] = itab[s].num]
          /\ PutDir(p, [iu EXCEPT ![p].name = "none", ![p].pc = IF iu[p].op = "link" THEN "plock" ELSE "open1"])
       \/ /\ UNCHANGED dir
          /\ IF iu[p].op = "link"
             THEN PutDir(p, [iu EXCEPT ![p].err = TRUE, ![p].pc = "plock"])
             ELSE /\ itab' = [itab EXCEPT ![s].nlink = 0,
                                          ![ROOT] = Unlocked([itab[ROOT] EXCEPT !.count = @ - 1])]
                  /\ LET v == [iu EXCEPT ![p].pp = FALSE, ![p].pc = "iputip"]
                     IN  iu' = IF itab[ROOT].want THEN WakeI(v, ROOT) ELSE v
    /\ UNCHANGED <<dino, sinode, silock, updlock>>

-----------------------------------------------------------------------------
(* ialloc, called by maknode with the directory locked.                    *)

WakeS(v) == [q \in IProcs |-> IF v[q].pc = "ialloc_sleep" THEN [v[q] EXCEPT !.pc = "ialloc_woken"] ELSE v[q]]

Ialloc(p) ==
    /\ At(p, "ialloc") \/ At(p, "ialloc_woken")
    /\ sinode' = IF iu[p].pc = "ialloc" THEN Getfs(sinode) ELSE sinode
    /\ iu' = [iu EXCEPT ![p].pc = IF silock # 0 THEN "ialloc_sleep" ELSE "ialoop"]
    /\ UNCHANGED <<itab, dino, dir, silock, updlock>>

(* loop: the next number from the list, or a search of the i-list.         *)
IallocLoop(p) ==
    /\ At(p, "ialoop")
    /\ IF sinode # <<>>
       THEN /\ sinode' = Front(sinode)
            /\ iu' = [iu EXCEPT ![p].ino = Last(sinode), ![p].ret = "iagot", ![p].pc = "iget"]
            /\ UNCHANGED silock
       ELSE /\ silock' = silock + 1
            /\ iu' = [iu EXCEPT ![p].adr = 1, ![p].pc = "iscan"]
            /\ UNCHANGED sinode
    /\ UNCHANGED <<itab, dino, dir, updlock>>

(* pipe calls ialloc without a directory.  Its assignment of i_flag, in    *)
(* place of prele, unlocks the inode; or falloc fails.                     *)
CallPipe(p) ==
    /\ At(p, "user") /\ "pipe" \in ICalls /\ iu[p].fd = 0 /\ iu[p].wfd = 0
    /\ iu' = [iu EXCEPT ![p].op = "pipe", ![p].pc = "ialloc"]
    /\ UNCHANGED <<itab, dino, dir, sinode, silock, updlock>>

PipeGot(p, s) ==
    \/ /\ itab' = [itab EXCEPT ![s] = [Unlocked(@) EXCEPT !.count = 2, !.mode = 1, !.chg = TRUE]]
       /\ iu' = Return([q \in IProcs |-> IF q = p THEN [iu[p] EXCEPT !.fd = s, !.wfd = s]
                                         ELSE [iu[q] EXCEPT !.lost = @ \/ iu[q].wait = s]], p)
    \/ IputTo(p, "done")

(* maknode: mode, one link, then wdir; or the inode was allocated after    *)
(* all; or there is none and iput(u_pdir).                                 *)
IallocGot(p) ==
    LET s == iu[p].ip IN
    /\ At(p, "iagot")
    /\ \/ /\ s = 0
          /\ iu' = [iu EXCEPT ![p].pc = "putpp"]
          /\ UNCHANGED itab
       \/ /\ s # 0 /\ itab[s].mode = 0 /\ iu[p].op = "pipe"
          /\ PipeGot(p, s)
       \/ /\ s # 0 /\ itab[s].mode = 0 /\ iu[p].op = "creat"
          /\ itab' = [itab EXCEPT ![s].mode = 1, ![s].nlink = 1, ![s].chg = TRUE]
          /\ iu' = [iu EXCEPT ![p].pc = "wdir"]
       \/ /\ s # 0 /\ itab[s].mode # 0
          /\ IputTo(p, "ialoop")
    /\ UNCHANGED <<dino, dir, sinode, silock, updlock>>

InCore(i) == \E s \in Slots : itab[s].num = i

(* The free inodes in block b of the i-list that are not in core.          *)
FreeIn(b) == {i \in Inos : /\ (b - 1) * INOPB < i /\ i <= b * INOPB
                           /\ dino[i].mode = 0 /\ ~InCore(i)}

(* One block of the i-list: the free inodes in it go to the list in order, *)
(* until it is full.                                                       *)
IallocScan(p) ==
    LET b == iu[p].adr
        free == FreeIn(b)
        room == IF NICINOD - Len(sinode) > 1 THEN NICINOD - Len(sinode) ELSE 1
        n == IF room < Cardinality(free) THEN room ELSE Cardinality(free)
        full == Len(sinode') >= NICINOD
        last == b = Max(Iblocks) \/ full IN
    /\ At(p, "iscan")
    /\ \/ \E l \in [1 .. n -> free] :
            /\ \A j, k \in 1 .. n : j < k => l[j] < l[k]
            /\ \A k \in 1 .. n, i \in free : i < l[k] => \E j \in 1 .. n : l[j] = i
            /\ sinode' = sinode \o l
       \/ sinode' = sinode                            \* the block cannot be read
    /\ IF ~last
       THEN /\ iu' = [iu EXCEPT ![p].adr = b + 1]
            /\ UNCHANGED silock
       ELSE /\ silock' = 0
            /\ iu' = WakeS([iu EXCEPT ![p].adr = 0,
                              ![p].pc = IF sinode' # <<>> THEN "ialoop" ELSE "putpp"])
    /\ UNCHANGED <<itab, dino, dir, updlock>>

-----------------------------------------------------------------------------
(* update: every inode in use that is not locked is written, if changed    *)
(* (otherwise iupdat does nothing and the lock is released at once).       *)
SyncI(p) ==
    /\ At(p, "user") /\ "sync" \in ICalls
    /\ ~updlock
    /\ updlock' = TRUE
    /\ iu' = [iu EXCEPT ![p].op = "sync", ![p].adr = 0, ![p].pc = "sync"]
    /\ UNCHANGED <<itab, dino, dir, sinode, silock>>

SyncNext(p) ==
    LET s == iu[p].adr + 1 IN
    /\ At(p, "sync")
    /\ \/ /\ s \in Slots /\ (itab[s].lock \/ itab[s].count = 0 \/ ~itab[s].chg)
          /\ iu' = [iu EXCEPT ![p].adr = s]
          /\ UNCHANGED <<itab, updlock>>
       \/ /\ s \in Slots /\ ~itab[s].lock /\ itab[s].count # 0 /\ itab[s].chg
          /\ itab' = [itab EXCEPT ![s].lock = TRUE, ![s].count = @ + 1]
          /\ iu' = [iu EXCEPT ![p].adr = s, ![p].ip = s, ![p].pc = "syncupdat"]
          /\ UNCHANGED updlock
       \/ /\ s \notin Slots
          /\ updlock' = FALSE
          /\ iu' = Return(iu, p)
          /\ UNCHANGED itab
    /\ UNCHANGED <<dino, dir, sinode, silock>>

SyncWrite(p) ==
    LET s == iu[p].ip
        e == [itab[s] EXCEPT !.chg = FALSE] IN
    /\ At(p, "syncupdat")
    /\ Iupdat(s)
    /\ \/ /\ e.count > 1
          /\ PreleI(s, [e EXCEPT !.count = @ - 1], [iu EXCEPT ![p].ip = 0, ![p].pc = "sync"])
       \/ /\ e.count = 1 /\ e.nlink > 0
          /\ PreleI(s, [FreeEntry EXCEPT !.want = e.want], [iu EXCEPT ![p].ip = 0, ![p].pc = "sync"])
       \/ /\ e.count = 1 /\ e.nlink <= 0
          /\ itab' = [itab EXCEPT ![s] = e]
          /\ iu' = [iu EXCEPT ![p].ret = "sync", ![p].pc = "itrunc"]
    /\ UNCHANGED <<dir, silock, updlock>>

InodeStep(p) ==
    \/ \E o \in ICalls, n \in Names : ICall(p, o, n)
    \/ PlockI(p) \/ Iget(p) \/ IgetRead(p) \/ IputIp(p) \/ IputFree(p) \/ IputWrite(p) \/ Done(p)
    \/ NameiFound(p) \/ NameiFails(p) \/ NameiDelete(p) \/ NameiCreate(p) \/ Named(p) \/ LinkFail(p)
    \/ Open1(p) \/ CloseI(p) \/ Unlink(p) \/ Wdir(p)
    \/ CallPipe(p) \/ Ialloc(p) \/ IallocLoop(p) \/ IallocGot(p) \/ IallocScan(p)
    \/ SyncI(p) \/ SyncNext(p) \/ SyncWrite(p)

InodeNext == \E p \in IProcs : InodeStep(p)

-----------------------------------------------------------------------------
(* Properties.                                                             *)

InodeTypeOK ==
    /\ itab \in [Slots -> [num : 0 .. NInos, count : Nat, lock : BOOLEAN, want : BOOLEAN,
                           mode : {0, 1}, nlink : Int, chg : BOOLEAN]]
    /\ dino \in [Inos -> [mode : {0, 1}, nlink : Int]]
    /\ dir \in [Names -> 0 .. NInos]
    /\ sinode \in Seq(Inos \ {ROOT})
    /\ silock \in Nat /\ updlock \in BOOLEAN
    /\ \A p \in IProcs : /\ iu[p].ip \in 0 .. NINODE /\ iu[p].tgt \in 0 .. NINODE
                          /\ iu[p].fd \in 0 .. NINODE /\ iu[p].ino \in 0 .. NInos

(* An inode has one entry in the table, also when several processes look   *)
(* for it while it is read, removed or reused (iget's search after sleep). *)
OneEntryPerInode ==
    \A s, t \in Slots : s # t /\ itab[s].count > 0 /\ itab[t].count > 0 => itab[s].num # itab[t].num

(* i_count is the number of references: the processes that work with the   *)
(* entry, the targets of links, open files, and for the root the kernel's. *)
References(s) ==
    Cardinality({p \in IProcs : iu[p].ip = s}) + Cardinality({p \in IProcs : iu[p].tgt = s})
    + Cardinality({p \in IProcs : iu[p].fd = s}) + Cardinality({p \in IProcs : iu[p].wfd = s})
    + (IF s = ROOT THEN 1 + Cardinality({p \in IProcs : iu[p].pp}) ELSE 0)

CountIsReferences == \A s \in Slots : itab[s].count = References(s)

(* Nobody sleeps on an entry that is not locked or not wanted, except in   *)
(* the one case below, and nobody sleeps for s_ilock that nobody holds:    *)
(* the wakeups of prele and ialloc.                                        *)
InodeSleepersWoken ==
    \A p \in IProcs :
        /\ iu[p].wait # 0 => iu[p].lost \/ (itab[iu[p].wait].lock /\ itab[iu[p].wait].want)
        /\ iu[p].pc = "ialloc_sleep" => silock > 0

(* "Honor the locking protocol" (iget.c:17): whoever waits for a locked    *)
(* inode is woken when it is unlocked, by pipe as by everybody else.       *)
LockingProtocol ==
    \A p \in IProcs : iu[p].wait # 0 => itab[iu[p].wait].lock /\ itab[iu[p].wait].want

(* "The algorithm keeps up to NICINOD spare I nodes in the super block"    *)
(* (alloc.c:134): the list never grows into the locks that follow it.      *)
FreeInodesFit == Len(sinode) <= NICINOD

(* What is on disk, or in core if it is there, of inode i.                 *)
Effective(i) == IF \E s \in Slots : itab[s].num = i /\ itab[s].count > 0
                   THEN LET s == CHOOSE s \in Slots : itab[s].num = i /\ itab[s].count > 0 IN
                        IF \E p \in IProcs : iu[p].pc = "iread" /\ iu[p].ip = s
                        THEN dino[i] ELSE [mode |-> itab[s].mode, nlink |-> itab[s].nlink]
                   ELSE dino[i]

(* A name, and a process that has the file open, always refers to an       *)
(* allocated inode, whatever is unlinked, freed and reused meanwhile.      *)
NamedIsAllocated ==
    /\ \A n \in Names : dir[n] # 0 => Effective(dir[n]).mode # 0
    /\ \A p \in IProcs : iu[p].fd # 0 => itab[iu[p].fd].mode # 0

(* When nobody is in a call the link count is the number of names: the     *)
(* races that the comment in link admits do not lose or invent a link.     *)
LinksAreNames ==
    (\A p \in IProcs : iu[p].pc = "user") =>
        \A i \in Inos \ {ROOT} :
            Effective(i).mode # 0 => Effective(i).nlink = Cardinality({n \in Names : dir[n] = i})

(* No sequence of opens, links, unlinks and failures in between gives an   *)
(* inode a second entry or loses a reference or a link, so it is freed     *)
(* when, and only when, nothing refers to it any more (iget, iput, link).  *)
CountsExact == OneEntryPerInode /\ CountIsReferences /\ LinksAreNames

InodeSpec == InodeInit /\ [][InodeNext]_inodeVars
=============================================================================
