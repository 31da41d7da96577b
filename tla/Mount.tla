-------------------------------- MODULE Mount --------------------------------
(***************************************************************************)
(* The mount table: smount, sumount and getmdev (sys/sys3.c), iget's step  *)
(* from a mounted-on inode to the root of the volume (sys/iget.c), namei's *)
(* step back through ".." (sys/nami.c), getfs and update (sys/alloc.c).    *)
(*                                                                         *)
(* Inodes are the directories of the root volume that one may mount on and *)
(* the roots of the other volumes.  Waiting for a lock is a state of its   *)
(* own that ends when the lock is free; that the wakeup comes is shown in  *)
(* Inode.  Entry 0 of the table is the root's and never changes.           *)
(***************************************************************************)
EXTENDS Integers, FiniteSets, FiniteSetsExt

CONSTANTS MProcs,
          Mounters,   \* the processes that mount and unmount
          Points,     \* directories of the root volume
          Devs,       \* other volumes, each named like its root inode
          NMOUNT

ASSUME MountConstants == /\ Mounters \subseteq MProcs /\ IsFiniteSet(MProcs) /\ NMOUNT \in Nat \ {0, 1}
                         /\ Points \cap Devs = {} /\ "none" \notin Points \cup Devs

Ents == 1 .. NMOUNT - 1
MInodes == Points \cup Devs
NoInode == "none"

VARIABLES mtab,       \* mount[]: m_dev, m_bufp, m_inodp, and s_fmod of the buffer
          mino,       \* the inodes: i_count, ILOCK, IMOUNT
          saved,      \* the super block on disk is the last one there was in core
          mpanic,     \* a panic of iget or getfs
          mu

mountVars == <<mtab, mino, saved, mpanic, mu>>

(* x: the inode sought or held, ret: where iget and iput return to, dev    *)
(* and ent: of mount and umount, file: an open file's inode.               *)
MIdle == [pc |-> "user", x |-> NoInode, ret |-> "none", dev |-> NoInode, ent |-> 0,
          file |-> NoInode]

MRunning == {"iget", "mount", "umount", "upd", "iput", "dots"}
MHasCPU(p) == \A q \in MProcs \ {p} : mu[q].pc \notin MRunning
MAt(p, l) == mu[p].pc = l /\ MHasCPU(p)

MountInit ==
    /\ mtab = [e \in Ents |-> [dev |-> NoInode, bufp |-> FALSE, inodp |-> NoInode, fmod |-> FALSE]]
    /\ mino = [x \in MInodes |-> [count |-> 0, lock |-> FALSE, imount |-> FALSE]]
    /\ saved = [d \in Devs |-> TRUE]
    /\ mpanic = "none"
    /\ mu = [p \in MProcs |-> MIdle]

MReturn(p) == [mu EXCEPT ![p] = [MIdle EXCEPT !.file = mu[p].file]]

-----------------------------------------------------------------------------
(* iget and iput.                                                          *)

Lookup(p, x, l) == [mu EXCEPT ![p].x = x, ![p].ret = l, ![p].pc = "iget"]

(* The first entry whose m_inodp is the inode, whether in use or not.      *)
MountedOn(x) == {e \in Ents : mtab[e].inodp = x}

MIget(p) ==
    LET x == mu[p].x IN
    /\ MAt(p, "iget") \/ MAt(p, "iget_woken")
    /\ \/ /\ mino[x].lock
          /\ mu' = [mu EXCEPT ![p].pc = "iget_sleep"]
          /\ UNCHANGED <<mino, mpanic>>
       \/ /\ ~mino[x].lock /\ mino[x].imount
          /\ IF MountedOn(x) = {}
             THEN mpanic' = "no imt" /\ mu' = MReturn(p)
             ELSE /\ mu' = [mu EXCEPT ![p].x = mtab[Min(MountedOn(x))].dev, ![p].pc = "iget"]
                  /\ UNCHANGED mpanic
          /\ UNCHANGED mino
       \/ /\ ~mino[x].lock /\ ~mino[x].imount
          /\ mino' = [mino EXCEPT ![x].count = @ + 1, ![x].lock = TRUE]
          /\ mu' = [mu EXCEPT ![p].pc = IF mino[x].count = 0 THEN "iread" ELSE mu[p].ret]
          /\ UNCHANGED mpanic
    /\ UNCHANGED <<mtab, saved>>

(* The inode was not in core and has been read.                            *)
MIread(p) ==
    /\ MAt(p, "iread")
    /\ mu' = [mu EXCEPT ![p].pc = mu[p].ret]
    /\ UNCHANGED <<mtab, mino, saved, mpanic>>

(* A lock that p sleeps for is free: iget searches again, plock takes it.  *)
MWake(p) ==
    /\ MHasCPU(p) /\ mu[p].pc \in {"iget_sleep", "plock"} /\ ~mino[mu[p].x].lock
    /\ mu' = [mu EXCEPT ![p].pc = IF mu[p].pc = "plock" THEN "iput" ELSE "iget_woken"]
    /\ mino' = IF mu[p].pc = "plock" THEN [mino EXCEPT ![mu[p].x].lock = TRUE] ELSE mino
    /\ UNCHANGED <<mtab, saved, mpanic>>

(* iput.  The last reference may be written first, and keeps i_number and  *)
(* the lock until then.                                                    *)
MIput(p) ==
    LET x == mu[p].x IN
    /\ \/ MAt(p, "iput") /\ mino[x].count > 1
       \/ MAt(p, "iupdat")
    /\ mino' = [mino EXCEPT ![x].count = @ - 1, ![x].lock = FALSE]
    /\ IF mu[p].ret = "umounted"
       THEN /\ mtab' = [mtab EXCEPT ![mu[p].ent].bufp = FALSE, ![mu[p].ent].fmod = FALSE]
            /\ mu' = MReturn(p)
       ELSE /\ mu' = IF mu[p].ret = "done" THEN MReturn(p)
                     ELSE [mu EXCEPT ![p].pc = mu[p].ret, ![p].x = NoInode]
            /\ UNCHANGED mtab
    /\ UNCHANGED <<saved, mpanic>>

MIputLast(p) ==
    /\ MAt(p, "iput") /\ mino[mu[p].x].count = 1
    /\ mu' = [mu EXCEPT ![p].pc = "iupdat"]
    /\ UNCHANGED <<mtab, mino, saved, mpanic>>

-----------------------------------------------------------------------------
(* Use of files.                                                           *)

MOpen(p, x) ==
    /\ MAt(p, "user") /\ mu[p].file = NoInode
    /\ mu' = Lookup(p, x, "opened")
    /\ UNCHANGED <<mtab, mino, saved, mpanic>>

MOpened(p) ==
    /\ MAt(p, "opened")
    /\ mino' = [mino EXCEPT ![mu[p].x].lock = FALSE]
    /\ mu' = [mu EXCEPT ![p] = [MIdle EXCEPT !.file = mu[p].x]]
    /\ UNCHANGED <<mtab, saved, mpanic>>

MClose(p) ==
    /\ MAt(p, "user") /\ mu[p].file # NoInode
    /\ mu' = [mu EXCEPT ![p] = [MIdle EXCEPT !.x = mu[p].file, !.ret = "done", !.pc = "plock"]]
    /\ UNCHANGED <<mtab, mino, saved, mpanic>>

Active(d) == {e \in Ents : mtab[e].bufp /\ mtab[e].dev = d}

(* A write to the open file: alloc or ifree through getfs.                 *)
MModify(p) ==
    LET d == mu[p].file IN
    /\ MAt(p, "user") /\ d \in Devs
    /\ IF Active(d) = {} THEN mpanic' = "no fs" /\ UNCHANGED <<mtab, saved>>
       ELSE /\ mtab' = [mtab EXCEPT ![Min(Active(d))].fmod = TRUE]
            /\ saved' = [saved EXCEPT ![d] = FALSE]
            /\ UNCHANGED mpanic
    /\ UNCHANGED <<mino, mu>>

(* namei of ".." in the root of a volume.                                  *)
MDotDot(p) ==
    /\ MAt(p, "user") /\ mu[p].file \in Devs
    /\ mu' = Lookup(p, mu[p].file, "dots")
    /\ UNCHANGED <<mtab, mino, saved, mpanic>>

(* iput of the root (the open file is another reference, so that it does   *)
(* not sleep), then the inode mounted on, which is sought, locked and here *)
(* put back.  An unmounted volume's ".." is its root itself.               *)
MDots(p) ==
    LET d == mu[p].x
        m == mtab[Min(Active(d))].inodp
        put == [mino EXCEPT ![d].count = @ - 1, ![d].lock = FALSE] IN
    /\ MAt(p, "dots")
    /\ IF Active(d) = {}
       THEN mu' = [mu EXCEPT ![p].ret = "done", ![p].pc = "iput"] /\ UNCHANGED mino
       ELSE /\ mino' = [put EXCEPT ![m].count = @ + 1]
            /\ mu' = [mu EXCEPT ![p].x = m, ![p].ret = "done", ![p].pc = "plock"]
    /\ UNCHANGED <<mtab, saved, mpanic>>

-----------------------------------------------------------------------------
(* smount, after getmdev has found device d.                               *)
CallMount(p, d, x) ==
    /\ MAt(p, "user") /\ p \in Mounters /\ mu[p].file = NoInode
    /\ mu' = [Lookup(p, x, "mount") EXCEPT ![p].dev = d]
    /\ UNCHANGED <<mtab, mino, saved, mpanic>>

(* The first free entry.                                                   *)
MountEntry == Min({e \in Ents : ~mtab[e].bufp})

Bug_MountBusy(p) ==      \* mutant: the device is mounted already
    mino[mu[p].x].count # 1 \/ \A e \in Ents : mtab[e].bufp

MountBusy(p) == \/ mino[mu[p].x].count # 1
                \/ Active(mu[p].dev) # {}
                \/ \A e \in Ents : mtab[e].bufp

SMount(p) ==
    /\ MAt(p, "mount")
    /\ mu' = IF MountBusy(p) THEN [mu EXCEPT ![p].ret = "done", ![p].pc = "iput"]
             ELSE [mu EXCEPT ![p].ent = MountEntry, ![p].pc = "mread"]
    /\ UNCHANGED <<mtab, mino, saved, mpanic>>

(* bread of the super block, or its failure.                               *)
SMountRead(p) ==
    /\ MAt(p, "mread")
    /\ \/ /\ mtab' = [mtab EXCEPT ![mu[p].ent].inodp = mu[p].x, ![mu[p].ent].dev = mu[p].dev]
          /\ mu' = [mu EXCEPT ![p].pc = "geteblk"]
       \/ /\ mu' = [mu EXCEPT ![p].ret = "done", ![p].pc = "iput"]
          /\ UNCHANGED mtab
    /\ UNCHANGED <<mino, saved, mpanic>>

SMountDone(p) ==
    /\ MAt(p, "geteblk")
    /\ mtab' = [mtab EXCEPT ![mu[p].ent].bufp = TRUE, ![mu[p].ent].fmod = FALSE]
    /\ mino' = [mino EXCEPT ![mu[p].x].imount = TRUE, ![mu[p].x].lock = FALSE]
    /\ mu' = MReturn(p)
    /\ UNCHANGED <<saved, mpanic>>

-----------------------------------------------------------------------------
(* update, called by sync and by sumount.  updlock: another one is under   *)
(* way and this one returns at once.                                       *)
Updating == \E q \in MProcs : mu[q].pc \in {"upd", "supd", "iupd"} \/ mu[q].ret = "updated"

CallSync(p) ==
    /\ MAt(p, "user") /\ mu[p].file = NoInode /\ ~Updating
    /\ mu' = [mu EXCEPT ![p].pc = "upd"]
    /\ UNCHANGED <<mtab, mino, saved, mpanic>>

CallUmount(p, d) ==
    /\ MAt(p, "user") /\ p \in Mounters /\ mu[p].file = NoInode
    /\ mu' = [mu EXCEPT ![p].dev = d, ![p].pc = IF Updating THEN "umount" ELSE "upd"]
    /\ UNCHANGED <<mtab, mino, saved, mpanic>>

Updated(p) == IF mu[p].dev = NoInode THEN MReturn(p)
              ELSE [mu EXCEPT ![p].pc = "umount", ![p].ent = 0, ![p].ret = "none", ![p].x = NoInode]

(* The next modified super block; then the inodes, of which one, in use    *)
(* and not locked, may have changed.                                       *)
UpdateNext(p) ==
    LET next == {e \in Ents : e > mu[p].ent /\ mtab[e].bufp /\ mtab[e].fmod} IN
    /\ MAt(p, "upd")
    /\ \/ /\ next # {}
          /\ mu' = [mu EXCEPT ![p].ent = Min(next), ![p].pc = "supd"]
          /\ UNCHANGED mino
       \/ /\ next = {}
          /\ mu' = Updated(p)
          /\ UNCHANGED mino
       \/ /\ next = {}
          /\ \E x \in MInodes :
             /\ mino[x].count > 0 /\ ~mino[x].lock
             /\ mino' = [mino EXCEPT ![x].count = @ + 1, ![x].lock = TRUE]
             /\ mu' = [mu EXCEPT ![p].x = x, ![p].ret = "updated", ![p].pc = "iupd"]
    /\ UNCHANGED <<mtab, saved, mpanic>>

(* getblk has found a buffer: the copy.  If the volume has been unmounted  *)
(* meanwhile, what is copied is a buffer that has been released.           *)
UpdateCopy(p) ==
    LET e == mu[p].ent IN
    /\ MAt(p, "supd")
    /\ IF mtab[e].bufp
       THEN /\ mtab' = [mtab EXCEPT ![e].fmod = FALSE]
            /\ saved' = [saved EXCEPT ![mtab[e].dev] = TRUE]
       ELSE /\ saved' = [saved EXCEPT ![mtab[e].dev] = FALSE]
            /\ UNCHANGED mtab
    /\ mu' = [mu EXCEPT ![p].pc = "upd"]
    /\ UNCHANGED <<mino, mpanic>>

UpdateInode(p) ==
    /\ MAt(p, "iupd")
    /\ mu' = [mu EXCEPT ![p].pc = "iput"]
    /\ UNCHANGED <<mtab, mino, saved, mpanic>>

UpdateDone(p) ==
    /\ MAt(p, "updated")
    /\ mu' = Updated(p)
    /\ UNCHANGED <<mtab, mino, saved, mpanic>>

-----------------------------------------------------------------------------
(* sumount.  With no inode of the volume in use, the inode mounted on is   *)
(* unmarked and released; only then is the entry free (MIput).             *)
InUse(d) == mino[d].count > 0

SUmount(p) ==
    LET d == mu[p].dev
        e == Min(Active(d))
        x == mtab[e].inodp IN
    /\ MAt(p, "umount")
    /\ \/ /\ Active(d) = {}                                   \* EINVAL
          /\ mu' = MReturn(p)
          /\ UNCHANGED mino
       \/ /\ Active(d) # {} /\ InUse(d)                       \* EBUSY
          /\ mu' = MReturn(p)
          /\ UNCHANGED mino
       \/ /\ Active(d) # {} /\ ~InUse(d)
          /\ mino' = [mino EXCEPT ![x].imount = FALSE]
          /\ mu' = [mu EXCEPT ![p].ent = e, ![p].x = x, ![p].ret = "umounted", ![p].pc = "plock"]
    /\ UNCHANGED <<mtab, saved, mpanic>>

MountStep(p) ==
    \/ MIget(p) \/ MIread(p) \/ MWake(p) \/ MIput(p) \/ MIputLast(p)
    \/ MOpened(p) \/ MClose(p) \/ MModify(p) \/ MDotDot(p) \/ MDots(p)
    \/ SMount(p) \/ SMountRead(p) \/ SMountDone(p) \/ SUmount(p)
    \/ CallSync(p) \/ UpdateNext(p) \/ UpdateCopy(p) \/ UpdateInode(p) \/ UpdateDone(p)
    \/ \E x \in Points : MOpen(p, x) \/ \E d \in Devs : CallMount(p, d, x)
    \/ \E d \in Devs : CallUmount(p, d)

MountNext == \E p \in MProcs : MountStep(p)

MountSpec == MountInit /\ [][MountNext]_mountVars

-----------------------------------------------------------------------------
(* Properties.                                                             *)

(* The mount table and the inodes agree: a marked inode is held and leads  *)
(* to one mounted volume, which iget finds in spite of what entries that   *)
(* are free again still say, and a volume is mounted once.                 *)
MountTableSound ==
    /\ mpanic # "no imt"
    /\ \A x \in MInodes : mino[x].imount =>
         /\ mino[x].count > 0
         /\ Cardinality({e \in Ents : mtab[e].bufp /\ mtab[e].inodp = x}) = 1
         /\ mtab[Min(MountedOn(x))].bufp
    /\ \A d \in Devs : Cardinality(Active(d)) <= 1

(* "Panic: no fs -- the device is not mounted.  This 'cannot happen'"      *)
(* (alloc.c:247): a volume is not unmounted while it is about to be used.  *)
NoFsCannotHappen == mpanic # "no fs"

(* "Panic: no imt -- if the mounted file system is not in the mount table. *)
(* 'cannot happen'" (iget.c:24), also if two processes mount.              *)
NoImtCannotHappen == mpanic # "no imt"

(* "update writes out everything modified" before a volume is unmounted    *)
(* (commentary.typ:2800): its super block on disk is then the last one.    *)
UnmountedIsSaved == \A d \in Devs : Active(d) = {} => saved[d]
=============================================================================
