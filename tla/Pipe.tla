-------------------------------- MODULE Pipe --------------------------------
(***************************************************************************)
(* Pipes, sys/pipe.c: a file without a name, of which readp and writep use *)
(* the beginning as a buffer.  Processes hold the inode lock while they    *)
(* move data (and may sleep in the buffer cache meanwhile), sleep at ip+2  *)
(* for data and at ip+1 for room, and must wake each other, also when an   *)
(* end is closed (closef of sys/fio.c).                                    *)
(*                                                                         *)
(* The kernel is not preempted: an action runs to the next place where the *)
(* code may sleep.  A process at "wloop" has the processor (writep goes    *)
(* from one chunk to the next), so nobody else moves.                      *)
(***************************************************************************)
EXTENDS Integers, Sequences, FiniteSets

CONSTANTS Procs,      \* they share both ends at first, as after fork
          Vals,       \* the bytes
          PIPSIZ, BSIZE,
          MaxCount,   \* the largest count of a read or write
          Faults      \* may a copy to or from the user fail?

ASSUME PipeConstants ==
    /\ Procs # {}
    /\ PIPSIZ \in Nat \ {0} /\ BSIZE \in Nat \ {0} /\ MaxCount \in Nat
    /\ Faults \in BOOLEAN

Offsets == 0 .. 2 * PIPSIZ - 2

VARIABLES
    size, file,     \* i_size and the contents of the file
    off,            \* f_offset of the file structure of the read end
    lock, want,     \* ILOCK, IWANT
    iread, iwrite,  \* IREAD, IWRITE in i_mode
    count,          \* i_count: the file structures that are left
    ropen, wopen,   \* who has the read end, the write end
    pc, op,         \* where a process is, in which call
    left,           \* u_count of a reader, the local c of a writer
    err,            \* u_error is set
    base, uoff, ucount, got,   \* the transfer of the process in readi or writei:
                    \* u_offset at the start and now, u_count, the bytes read
    out             \* what a read returned that has just ended

vars == <<size, file, off, lock, want, iread, iwrite, count, ropen, wopen,
          pc, op, left, err, base, uoff, ucount, got, out>>

inode == <<size, file, off>>
flags == <<lock, want, iread, iwrite>>
ends == <<count, ropen, wopen>>
transfer == <<base, uoff, ucount, got>>

Smaller(a, b) == IF a < b THEN a ELSE b

-----------------------------------------------------------------------------
(* pipe, and the forks that pass the descriptors on.                       *)
Fresh == /\ size = 0 /\ off = 0
         /\ lock = FALSE /\ want = FALSE /\ iread = FALSE /\ iwrite = FALSE
         /\ count = 2 /\ ropen = Procs /\ wopen = Procs

Init == /\ Fresh
        /\ \E v \in Vals : file = [i \in Offsets |-> v]
        /\ pc = [p \in Procs |-> "user"] /\ op = [p \in Procs |-> "none"]
        /\ left = [p \in Procs |-> 0] /\ err = [p \in Procs |-> FALSE]
        /\ base = 0 /\ uoff = 0 /\ ucount = 0 /\ got = <<>> /\ out = <<>>

(* The inode is used for another pipe, its blocks as they were left.       *)
NewPipe ==
    /\ count = 0
    /\ size' = 0 /\ off' = 0
    /\ lock' = FALSE /\ want' = FALSE /\ iread' = FALSE /\ iwrite' = FALSE
    /\ count' = 2 /\ ropen' = Procs /\ wopen' = Procs
    /\ out' = <<>>
    /\ UNCHANGED <<file, pc, op, left, err, transfer>>

-----------------------------------------------------------------------------
(* wakeup: the sleepers at places are ready and will go on at l.           *)
Wakeup(f, places, l) == [q \in Procs |-> IF f[q] \in places THEN l ELSE f[q]]

(* The sleepers at ip+1 or ip+2 look for a signal first, then loop back.   *)
Woken(f, places) == Wakeup(f, places, "woken")

Bug_Prele(f) == /\ lock' = FALSE
                /\ UNCHANGED want
                /\ pc' = f

(* prele, which leaves the processes at f otherwise.                       *)
Prele(f) == /\ lock' = FALSE
            /\ want' = FALSE
            /\ pc' = IF want THEN Wakeup(f, {"asleep_ip"}, "plock") ELSE f

(* The call ends; its locals and those of the transfer mean nothing more.  *)
Returns(p) == /\ op' = [op EXCEPT ![p] = "none"]
              /\ left' = [left EXCEPT ![p] = 0]
              /\ err' = [err EXCEPT ![p] = FALSE]

Ends == base' = 0 /\ uoff' = 0 /\ ucount' = 0 /\ got' = <<>>

HasCPU(p) == \A q \in Procs \ {p} : pc[q] # "wloop"

(* A process calls read or write.                                          *)
Call(p, o, n) ==
    /\ pc[p] = "user" /\ HasCPU(p)
    /\ p \in (IF o = "read" THEN ropen ELSE wopen)
    /\ op' = [op EXCEPT ![p] = o]
    /\ left' = [left EXCEPT ![p] = n]
    /\ err' = [err EXCEPT ![p] = FALSE]
    /\ pc' = [pc EXCEPT ![p] = "plock"]
    /\ out' = <<>>
    /\ UNCHANGED <<inode, flags, ends, transfer>>

(* plock finds the lock taken.                                             *)
Plock(p) ==
    /\ pc[p] \in {"plock", "woken"} /\ HasCPU(p) /\ lock
    /\ want' = TRUE
    /\ pc' = [pc EXCEPT ![p] = "asleep_ip"]
    /\ out' = <<>>
    /\ UNCHANGED <<inode, lock, iread, iwrite, ends, op, left, err, transfer>>

(* plock succeeds and the process goes on with call o.                     *)
Locks(p, o) == pc[p] \in {"plock", "woken", "wloop"} /\ HasCPU(p) /\ ~lock /\ op[p] = o

(* A signal ends a sleep at PPIPE, with the flags as they are.             *)
Signalled(p) ==
    /\ pc[p] \in {"asleep_r", "asleep_w"}
    /\ pc' = [pc EXCEPT ![p] = "woken"]
    /\ out' = <<>>
    /\ UNCHANGED <<inode, flags, ends, op, left, err, transfer>>

(* After such a sleep, however it ended, there may be a signal that is not *)
(* ignored: the call is abandoned.                                         *)
Interrupted(p) ==
    /\ pc[p] = "woken" /\ HasCPU(p)
    /\ pc' = [pc EXCEPT ![p] = "user"]
    /\ Returns(p)
    /\ out' = <<>>
    /\ UNCHANGED <<inode, flags, ends, transfer>>

-----------------------------------------------------------------------------
(* readp.                                                                  *)

(* Nothing in the pipe: the end if there is no writer, otherwise wait.     *)
ReadpEmpty(p) ==
    /\ Locks(p, "read") /\ size = 0
    /\ IF count < 2
       THEN /\ Prele([pc EXCEPT ![p] = "user"])
            /\ Returns(p)
            /\ UNCHANGED iread
       ELSE /\ Prele([pc EXCEPT ![p] = "asleep_r"])
            /\ iread' = TRUE
            /\ UNCHANGED <<op, left, err>>
    /\ out' = <<>>
    /\ UNCHANGED <<inode, iwrite, ends, transfer>>

Bug_ReadpStart(p) ==
    /\ Locks(p, "read") /\ size # 0
    /\ IF left[p] = 0
       THEN /\ Prele([pc EXCEPT ![p] = "user"])
            /\ Returns(p)
            /\ UNCHANGED transfer
       ELSE /\ lock' = TRUE
            /\ uoff' = 0
            /\ pc' = [pc EXCEPT ![p] = "io"]
            /\ UNCHANGED <<want, op, left, err, base, ucount, got>>
    /\ out' = <<>>
    /\ UNCHANGED <<inode, iread, iwrite, ends>>

(* Otherwise readi begins; it has nothing to do for a count of zero.       *)
ReadpStart(p) ==
    /\ Locks(p, "read") /\ size # 0
    /\ IF left[p] = 0
       THEN /\ Prele([pc EXCEPT ![p] = "user"])
            /\ Returns(p)
            /\ UNCHANGED transfer
       ELSE /\ lock' = TRUE
            /\ uoff' = off
            /\ pc' = [pc EXCEPT ![p] = "io"]
            /\ UNCHANGED <<want, op, left, err, base, ucount, got>>
    /\ out' = <<>>
    /\ UNCHANGED <<inode, iread, iwrite, ends>>

Bug_ReadpEnd(p, o) ==
    /\ off' = o
    /\ Prele([pc EXCEPT ![p] = "user"])
    /\ UNCHANGED <<size, iwrite>>

(* The rest of readp, after readi has moved u_offset to o: if the reader   *)
(* has caught up, the file starts again and writers have room.             *)
ReadpEnd(p, o) ==
    IF o = size
    THEN /\ off' = 0 /\ size' = 0 /\ iwrite' = FALSE
         /\ Prele([Woken(pc, IF iwrite THEN {"asleep_w"} ELSE {})
                     EXCEPT ![p] = "user"])
    ELSE /\ off' = o
         /\ Prele([pc EXCEPT ![p] = "user"])
         /\ UNCHANGED <<size, iwrite>>

(* readi: one block, or the part of it that is asked for and is there; a   *)
(* fault leaves it after m bytes.                                          *)
ReadiBlock(p, m) ==
    LET n == Smaller(BSIZE - (uoff % BSIZE), Smaller(left[p], size - uoff))
        s == got \o [i \in 1 .. m |-> file[uoff + i - 1]]
    IN
    /\ pc[p] = "io" /\ op[p] = "read" /\ HasCPU(p)
    /\ IF Faults THEN m <= n ELSE m = n
    /\ IF m = n /\ m # left[p] /\ uoff + m < size
       THEN /\ uoff' = uoff + m /\ got' = s
            /\ left' = [left EXCEPT ![p] = @ - m]
            /\ out' = <<>>
            /\ UNCHANGED <<size, off, lock, want, iwrite, pc, op, err, base, ucount>>
       ELSE /\ ReadpEnd(p, uoff + m)
            /\ out' = s
            /\ Returns(p) /\ Ends
    /\ UNCHANGED <<file, iread, ends>>

-----------------------------------------------------------------------------
(* writep.                                                                 *)

(* All is written, or there is no reader (EPIPE and a signal to oneself).  *)
WritepReturn(p) ==
    /\ Locks(p, "write") /\ (left[p] = 0 \/ count < 2)
    /\ Prele([pc EXCEPT ![p] = "user"])
    /\ Returns(p)
    /\ out' = <<>>
    /\ UNCHANGED <<inode, iread, iwrite, ends, transfer>>

Bug_WritepFull(p) ==
    /\ Locks(p, "write") /\ left[p] # 0 /\ count = 2 /\ size >= PIPSIZ
    /\ Prele([pc EXCEPT ![p] = "asleep_w"])
    /\ out' = <<>>
    /\ UNCHANGED <<inode, iread, iwrite, ends, op, left, err, transfer>>

(* The pipe is full: wait until the reader has caught up.                  *)
WritepFull(p) ==
    /\ Locks(p, "write") /\ left[p] # 0 /\ count = 2 /\ size >= PIPSIZ
    /\ iwrite' = TRUE
    /\ Prele([pc EXCEPT ![p] = "asleep_w"])
    /\ out' = <<>>
    /\ UNCHANGED <<inode, iread, ends, op, left, err, transfer>>

(* There is room for a chunk.                                              *)
Room == size < PIPSIZ

(* Write what is possible: at most PIPSIZ bytes at the end of the file.    *)
WritepStart(p) ==
    /\ Locks(p, "write") /\ left[p] # 0 /\ count = 2 /\ Room
    /\ lock' = TRUE
    /\ base' = size /\ uoff' = size
    /\ ucount' = Smaller(left[p], PIPSIZ)
    /\ left' = [left EXCEPT ![p] = @ - Smaller(@, PIPSIZ)]
    /\ pc' = [pc EXCEPT ![p] = "io"]
    /\ out' = <<>>
    /\ UNCHANGED <<inode, want, iread, iwrite, ends, op, err, got>>

Bug_WritepEnd(p) ==
    /\ Prele([pc EXCEPT ![p] = "wloop"])
    /\ UNCHANGED iread

(* The rest of writep, after writei: a reader that waits is woken, and the *)
(* loop begins again.                                                      *)
WritepEnd(p) ==
    /\ Prele([Woken(pc, IF iread THEN {"asleep_r"} ELSE {})
                EXCEPT ![p] = "wloop"])
    /\ iread' = FALSE

(* The file with the bytes b of the user at u_offset.                      *)
Copyin(b) == [i \in Offsets |->
    IF uoff <= i /\ i < uoff + Len(b) THEN b[i - uoff + 1] ELSE file[i]]

(* writei: one block of the chunk; after a fault, now or in an earlier     *)
(* chunk, there is no other.                                               *)
WriteiBlock(p, b) ==
    LET n == Smaller(BSIZE - (uoff % BSIZE), ucount)
        m == Len(b)
    IN
    /\ pc[p] = "io" /\ op[p] = "write" /\ HasCPU(p)
    /\ IF Faults THEN m <= n ELSE m = n
    /\ file' = Copyin(b)
    /\ size' = IF uoff + m > size THEN uoff + m ELSE size
    /\ err' = [err EXCEPT ![p] = @ \/ m < n]
    /\ IF ~err'[p] /\ ucount # m
       THEN /\ uoff' = uoff + m /\ ucount' = ucount - m
            /\ UNCHANGED <<lock, want, iread, pc, base, got>>
       ELSE WritepEnd(p) /\ Ends
    /\ out' = <<>>
    /\ UNCHANGED <<off, iwrite, ends, op, left>>

-----------------------------------------------------------------------------
(* closef: a file structure that others use loses one of them.             *)
CloseShared(p) ==
    /\ pc[p] = "user" /\ HasCPU(p)
    /\ \/ p \in ropen /\ ropen # {p} /\ ropen' = ropen \ {p} /\ UNCHANGED wopen
       \/ p \in wopen /\ wopen # {p} /\ wopen' = wopen \ {p} /\ UNCHANGED ropen
    /\ out' = <<>>
    /\ UNCHANGED <<inode, flags, count, pc, op, left, err, transfer>>

(* The last user of an end needs the lock.                                 *)
CloseLast(p) ==
    /\ pc[p] = "user" /\ HasCPU(p)
    /\ \/ ropen = {p} /\ op' = [op EXCEPT ![p] = "close_r"]
       \/ wopen = {p} /\ op' = [op EXCEPT ![p] = "close_w"]
    /\ pc' = [pc EXCEPT ![p] = "plock"]
    /\ out' = <<>>
    /\ UNCHANGED <<inode, flags, ends, left, err, transfer>>

Bug_Closef(p) ==
    /\ \/ Locks(p, "close_r") /\ ropen' = {} /\ UNCHANGED wopen
       \/ Locks(p, "close_w") /\ wopen' = {} /\ UNCHANGED ropen
    /\ count' = count - 1
    /\ Prele([pc EXCEPT ![p] = "user"])
    /\ Returns(p)
    /\ out' = <<>>
    /\ UNCHANGED <<inode, iread, iwrite, transfer>>

(* closef with the lock: everybody who waits looks again; iput drops the   *)
(* reference (and the file, with the last one) and unlocks.                *)
Closef(p) ==
    /\ \/ Locks(p, "close_r") /\ ropen' = {} /\ UNCHANGED wopen
       \/ Locks(p, "close_w") /\ wopen' = {} /\ UNCHANGED ropen
    /\ iread' = FALSE /\ iwrite' = FALSE
    /\ count' = count - 1
    /\ Prele([Woken(pc, {"asleep_r", "asleep_w"}) EXCEPT ![p] = "user"])
    /\ Returns(p)
    /\ out' = <<>>
    /\ UNCHANGED <<inode, transfer>>

-----------------------------------------------------------------------------
Bytes == UNION {[1 .. m -> Vals] : m \in 0 .. BSIZE}

Readp(p) == ReadpEmpty(p) \/ ReadpStart(p) \/ \E m \in 0 .. BSIZE : ReadiBlock(p, m)

Writep(p) == \/ WritepReturn(p) \/ WritepFull(p) \/ WritepStart(p)
             \/ \E b \in Bytes : WriteiBlock(p, b)

Next == \/ \E p \in Procs, o \in {"read", "write"}, n \in 0 .. MaxCount : Call(p, o, n)
        \/ \E p \in Procs : Plock(p) \/ Readp(p) \/ Writep(p)
        \/ \E p \in Procs : Signalled(p) \/ Interrupted(p)
        \/ \E p \in Procs : CloseShared(p) \/ CloseLast(p) \/ Closef(p)
        \/ NewPipe

Spec == Init /\ [][Next]_vars

(* A process that is not asleep gets on: in the kernel it runs to its next *)
(* sleep or its return, and the buffer cache answers.  Strong fairness,    *)
(* because somebody else may have the lock, or the processor, whenever it  *)
(* looks.  Nobody has to call read or write again.                         *)
Moves(p) == Plock(p) \/ Readp(p) \/ Writep(p) \/ Closef(p)

FairSpec == Spec /\ \A p \in Procs : SF_vars(Moves(p))

-----------------------------------------------------------------------------
(* Properties.                                                             *)

(* Types; the file never grows beyond 2 PIPSIZ - 1 bytes, and the reader   *)
(* is inside it.                                                           *)
TypeOK ==
    /\ size \in 0 .. 2 * PIPSIZ - 1 /\ off \in 0 .. 2 * PIPSIZ - 1
    /\ file \in [Offsets -> Vals]
    /\ lock \in BOOLEAN /\ want \in BOOLEAN
    /\ iread \in BOOLEAN /\ iwrite \in BOOLEAN
    /\ count \in 0 .. 2
    /\ ropen \in SUBSET Procs /\ wopen \in SUBSET Procs
    /\ pc \in [Procs -> {"user", "plock", "woken", "wloop", "io",
                         "asleep_ip", "asleep_r", "asleep_w"}]
    /\ op \in [Procs -> {"none", "read", "write", "close_r", "close_w"}]
    /\ left \in [Procs -> 0 .. MaxCount] /\ err \in [Procs -> BOOLEAN]
    /\ base \in 0 .. 2 * PIPSIZ - 1 /\ uoff \in 0 .. 2 * PIPSIZ - 1
    /\ ucount \in 0 .. PIPSIZ
    /\ got \in Seq(Vals) /\ out \in Seq(Vals)

Holders == {p \in Procs : pc[p] = "io"}
Writing == {p \in Holders : op[p] = "write"}

(* plock and prele: the lock is held exactly while one process is in readi *)
(* or writei, and whoever sleeps for it will be woken by that process.     *)
LockIsHeld ==
    /\ lock <=> Holders # {}
    /\ \A p, q \in Holders : p = q
    /\ (\E p \in Procs : pc[p] = "asleep_ip") => lock /\ want

(* readp against writep and closef: a reader sleeps only while the pipe is *)
(* empty and has a writer, or while a writer that will see IREAD is at     *)
(* work.                                                                   *)
ReaderWillWake ==
    (\E p \in Procs : pc[p] = "asleep_r") =>
        iread /\ count = 2 /\ (size # 0 => Writing # {})

(* writep against readp and closef: a writer sleeps only while the pipe is *)
(* full and has a reader that will see IWRITE when it catches up.          *)
WriterWillWake ==
    (\E p \in Procs : pc[p] = "asleep_w") => iwrite /\ count = 2 /\ size >= PIPSIZ

(* pipe's use of the file: an unread byte is between f_offset and i_size,  *)
(* the file restarts when there is none, and the ends that are counted are *)
(* the ends that somebody has.                                             *)
EndsMatch ==
    /\ off < size \/ (off = 0 /\ size = 0)
    /\ count = (IF ropen = {} THEN 0 ELSE 1) + (IF wopen = {} THEN 0 ELSE 1)
    /\ \A p \in Procs : pc[p] # "user" =>
         p \in (IF op[p] \in {"read", "close_r"} THEN ropen ELSE wopen)

(* A process that sleeps for the lock, or a reader for which there is data,  *)
(* or a writer for which there is room or no reader.                        *)
CanWake(p) ==
    \/ pc[p] = "asleep_ip"
    \/ pc[p] = "asleep_r" /\ (size # 0 \/ count < 2)
    \/ pc[p] = "asleep_w" /\ (size < PIPSIZ \/ count < 2)

(* Every sleep for the lock ends; a reader that sleeps leaves its sleep      *)
(* once there is data, a writer once there is room or no reader.            *)
SleepersWake ==
    \A p \in Procs : CanWake(p) ~> pc[p] \notin {"asleep_ip", "asleep_r", "asleep_w"}

(* A chunk that is being written is not yet in the pipe.                   *)
Fifo == INSTANCE PipeFifo WITH
          buf <- [i \in 1 .. (IF Writing = {} THEN size ELSE base) - off |->
                    file[off + i - 1]],
          ends <- count, last <- out

(* The pipe is a queue: each byte written is read once, in order, chunks   *)
(* of up to PIPSIZ bytes are not mixed, and nothing left over in the file  *)
(* is ever read.                                                           *)
ImplementsFifo == Fifo!Spec
=============================================================================
