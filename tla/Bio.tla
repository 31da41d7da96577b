-------------------------------- MODULE Bio --------------------------------
(***************************************************************************)
(* The block buffer cache of the kernel (usr/sys/dev/bio.c) over the disk   *)
(* driver's request queue (usr/sys/dev/virtio_blk.c; sd.c has the same      *)
(* strategy, start and interrupt routines).                                 *)
(*                                                                          *)
(* The kernel runs on one processor and is not preemptible: cur is the      *)
(* process running in the kernel, and another one runs only after it        *)
(* sleeps, returns to user mode, or (pc = "hold") may give up the           *)
(* processor with a buffer in its hands.  The disk interrupt, Rkintr,       *)
(* comes between any two actions; an action is therefore one region run     *)
(* with interrupts masked, or one access to shared data made without.       *)
(* Code that touches only a buffer the process owns, and that no interrupt  *)
(* routine reads or writes, is merged with the access next to it.           *)
(***************************************************************************)
EXTENDS Naturals, SequencesExt

CONSTANTS
    Procs,      \* processes
    Bufs,       \* buffer headers, buf[NBUF]
    Blocks,     \* block numbers of the one block device
    BadBlocks,  \* those past NRKBLK, which rkstrategy refuses
    FreeOrder,  \* the order in which binit releases the buffers
    Calls,      \* the entry points the processes use in an instance
    Vals,       \* contents of a block
    Zero,       \* what the disk and the buffers hold at first
    NODEV,      \* no association: b_dev == NODEV
    None,       \* a NULL pointer or wait channel
    BFreeList,  \* the wait channel &bfreelist
    MaxRetry,   \* how often rkintr restarts a failing transfer (10 in the code)
    Faulty,     \* may a transfer fail?
    UserFaults, \* may writei's copy from user space fault half way?
    SplitAge    \* is bwrite's "b_flags |= B_AGE" a load and a store?

ASSUME BioConstants ==
    /\ FreeOrder \in Seq(Bufs) /\ IsInjective(FreeOrder) /\ ToSet(FreeOrder) = Bufs
    /\ Zero \in Vals
    /\ BadBlocks \subseteq Blocks
    /\ NODEV \notin Blocks
    /\ None \notin Bufs /\ None \notin Procs /\ None \notin Blocks
    /\ BFreeList \notin Bufs /\ BFreeList # None
    /\ MaxRetry \in Nat
    /\ Faulty \in BOOLEAN /\ UserFaults \in BOOLEAN /\ SplitAge \in BOOLEAN

VARIABLES
    flags,      \* b_flags of each buffer
    blk,        \* (b_dev, b_blkno) of each buffer, or NODEV
    data,       \* what b_un.b_addr points at
    avail,      \* the available list, bfreelist.av_forw first
    fwanted,    \* bfreelist.b_flags & B_WANTED
    queue,      \* rktab.b_actf ... b_actl; b_active is queue # << >>
    errcnt,     \* rktab.b_errcnt
    disk,       \* the medium
    cur,        \* the process in the kernel, or None
    pc,         \* where each process is
    chan,       \* p_wchan of a sleeping process, or None
    op,         \* the routine a process is in, or "none"
    blkno,      \* its argument blkno
    rablkno,    \* its argument rablkno (breada)
    bp,         \* its buffer pointer
    held,       \* breada's first buffer while it works on the second
    reg         \* the register of a split read-modify-write

cache == <<flags, blk, avail, fwanted>>
frame == <<op, blkno, rablkno, bp>>
vars == <<flags, blk, data, avail, fwanted, queue, errcnt, disk,
          cur, pc, chan, op, blkno, rablkno, bp, held, reg>>

Flags == {"READ", "DONE", "ERROR", "BUSY", "WANTED", "AGE", "ASYNC", "DELWRI"}
Ops == {"none", "bread", "breada", "ra", "getblk", "geteblk", "bwrite", "bawrite", "bflush"}
Pcs == {"user", "getblk", "found", "got", "ra", "iowait", "hold", "age", "age2",
        "bflush"}

-----------------------------------------------------------------------------
(* binit: every buffer without association, released one after the other.   *)
Init ==
    /\ flags = [b \in Bufs |-> {}]
    /\ blk = [b \in Bufs |-> NODEV]
    /\ data = [b \in Bufs |-> Zero]
    /\ avail = FreeOrder
    /\ fwanted = FALSE
    /\ queue = << >>
    /\ errcnt = 0
    /\ disk = [n \in Blocks |-> Zero]
    /\ cur = None
    /\ pc = [p \in Procs |-> "user"]
    /\ chan = [p \in Procs |-> None]
    /\ op = [p \in Procs |-> "none"]
    /\ blkno = [p \in Procs |-> None]
    /\ rablkno = [p \in Procs |-> None]
    /\ bp = [p \in Procs |-> None]
    /\ held = [p \in Procs |-> None]
    /\ reg = [p \in Procs |-> {}]

-----------------------------------------------------------------------------
(* Operators named Bug_... are faulty forms of the definition that follows  *)
(* them.  No specification uses one: they show that the properties below    *)
(* can fail.                                                                *)

(* only one of the sleepers is woken *)
Bug_Wakeup(S) ==
    LET first == CHOOSE q \in Procs : chan[q] \in S
    IN [p \in Procs |-> IF chan[p] \in S /\ p = first THEN None ELSE chan[p]]

(* wakeup of every channel in S *)
Wakeup(S) == [p \in Procs |-> IF chan[p] \in S THEN None ELSE chan[p]]

(* brelse(b), entered with b_flags = f and the available list av. *)
Brelse(b, f, av) ==
    /\ chan' = Wakeup((IF "WANTED" \in f THEN {b} ELSE {})
                      \cup (IF fwanted THEN {BFreeList} ELSE {}))
    /\ fwanted' = FALSE
    /\ blk' = IF "ERROR" \in f THEN [blk EXCEPT ![b] = NODEV] ELSE blk
    /\ avail' = IF "AGE" \in f THEN <<b>> \o av ELSE Append(av, b)
    /\ flags' = [flags EXCEPT ![b] = f \ {"WANTED", "BUSY", "ASYNC", "AGE"}]

(* an asynchronous transfer does not release its buffer *)
Bug_Iodone(b, f, av) ==
    /\ flags' = [flags EXCEPT ![b] = (f \cup {"DONE"}) \ {"WANTED"}]
    /\ chan' = Wakeup({b})
    /\ avail' = av
    /\ UNCHANGED <<blk, fwanted>>

(* iodone(b): an asynchronous transfer ends by releasing the buffer, a      *)
(* synchronous one by waking everybody who sleeps on it.                    *)
Iodone(b, f, av) ==
    IF "ASYNC" \in f
    THEN Brelse(b, f \cup {"DONE"}, av)
    ELSE /\ flags' = [flags EXCEPT ![b] = (f \cup {"DONE"}) \ {"WANTED"}]
         /\ chan' = Wakeup({b})
         /\ avail' = av
         /\ UNCHANGED <<blk, fwanted>>

(* rkstrategy(b), with rkstart: refuse the block or queue the request. *)
Strategy(b, f, av) ==
    IF blk[b] \in BadBlocks
    THEN Iodone(b, f \cup {"ERROR"}, av) /\ UNCHANGED queue
    ELSE /\ queue' = Append(queue, b)
         /\ flags' = [flags EXCEPT ![b] = f]
         /\ avail' = av
         /\ UNCHANGED <<blk, fwanted, chan>>

(* B_READ is left set *)
Bug_StartWrite(b, f, av) ==
    Strategy(b, f \ {"DONE", "ERROR", "DELWRI", "AGE"}, av)

(* bwrite up to the call of the strategy routine. *)
StartWrite(b, f, av) ==
    Strategy(b, f \ {"READ", "DONE", "ERROR", "DELWRI", "AGE"}, av)

(* the first buffer is unlinked instead of b *)
Bug_Unlink(b) == Tail(avail)

(* notavail(b): the available list without b *)
Unlink(b) == RemoveAt(avail, CHOOSE i \in DOMAIN avail : avail[i] = b)

(* a busy buffer is overlooked *)
Bug_Incore(n) == \E b \in Bufs : blk[b] = n /\ "BUSY" \notin flags[b]

(* incore(n), and the outcome of getblk's search *)
Incore(n) == \E b \in Bufs : blk[b] = n

(* the delayed write of a buffer about to be reused is forgotten *)
Bug_IsDelayed(b) == FALSE

(* must the buffer be written before it is reused? *)
IsDelayed(b) == "DELWRI" \in flags[b]

(* sleep(c): give up the processor; run again at label l *)
Sleep(p, c, l) ==
    /\ chan' = [chan EXCEPT ![p] = c]
    /\ pc' = [pc EXCEPT ![p] = l]
    /\ cur' = None

(* go on at label l, without leaving the processor *)
Goto(p, l) == pc' = [pc EXCEPT ![p] = l] /\ cur' = p

(* return to the caller with the buffer bp[p]: another process may be given *)
(* the processor before the caller is done with it                          *)
Hold(p) == pc' = [pc EXCEPT ![p] = "hold"] /\ cur' = None

(* return with no buffer: the activation record is gone *)
Return(p) ==
    /\ pc' = [pc EXCEPT ![p] = "user"]
    /\ cur' = None
    /\ op' = [op EXCEPT ![p] = "none"]
    /\ blkno' = [blkno EXCEPT ![p] = None]
    /\ rablkno' = [rablkno EXCEPT ![p] = None]
    /\ bp' = [bp EXCEPT ![p] = None]

At(p, l) == pc[p] = l /\ chan[p] = None /\ cur \in {None, p}

-----------------------------------------------------------------------------
(* What a caller may ask for. *)

(* bread; getblk of a block to be overwritten; geteblk; bflush *)
Call(p) ==
    /\ At(p, "user")
    /\ \/ \E o \in Calls \cap {"bread", "getblk"}, n \in Blocks :
            /\ op' = [op EXCEPT ![p] = o]
            /\ blkno' = [blkno EXCEPT ![p] = n]
            /\ Goto(p, "getblk")
       \/ /\ "geteblk" \in Calls
          /\ op' = [op EXCEPT ![p] = "geteblk"]
          /\ blkno' = [blkno EXCEPT ![p] = NODEV]
          /\ Goto(p, "getblk")
       \/ /\ "bflush" \in Calls
          /\ op' = [op EXCEPT ![p] = "bflush"]
          /\ UNCHANGED blkno
          /\ Goto(p, "bflush")
    /\ UNCHANGED <<cache, data, queue, errcnt, disk, chan, rablkno, bp, held, reg>>

(* breada: is the first block in core? *)
Breada(p) ==
    /\ At(p, "user") /\ "breada" \in Calls
    /\ \E n \in Blocks, r \in Blocks \cup {None} :
          /\ op' = [op EXCEPT ![p] = "breada"]
          /\ blkno' = [blkno EXCEPT ![p] = n]
          /\ rablkno' = [rablkno EXCEPT ![p] = r]
          /\ IF Incore(n) THEN Goto(p, "ra") ELSE Goto(p, "getblk")
    /\ UNCHANGED <<cache, data, queue, errcnt, disk, chan, bp, held, reg>>

-----------------------------------------------------------------------------
(* getblk and geteblk *)
Want(p) == IF op[p] = "ra" THEN rablkno[p] ELSE blkno[p]

(* The search of the device list, made with interrupts enabled: it finds    *)
(* the buffer of the block.                                                 *)
Search(p) ==
    /\ At(p, "getblk") /\ op[p] # "geteblk"
    /\ \E b \in Bufs : blk[b] = Want(p) /\ bp' = [bp EXCEPT ![p] = b]
    /\ Goto(p, "found")
    /\ UNCHANGED <<cache, data, queue, errcnt, disk, chan, op, blkno, rablkno, held, reg>>

(* Interrupts masked: sleep if the buffer found is busy, else take it.      *)
Found(p) ==
    /\ At(p, "found")
    /\ IF "BUSY" \in flags[bp[p]]
       THEN /\ flags' = [flags EXCEPT ![bp[p]] = @ \cup {"WANTED"}]
            /\ Sleep(p, bp[p], "getblk")
            /\ bp' = [bp EXCEPT ![p] = None]
            /\ UNCHANGED avail
       ELSE /\ flags' = [flags EXCEPT ![bp[p]] = @ \cup {"BUSY"}]
            /\ avail' = Unlink(bp[p])
            /\ Goto(p, "got")
            /\ UNCHANGED <<chan, bp>>
    /\ UNCHANGED <<blk, fwanted, data, queue, errcnt, disk, op, blkno, rablkno, held, reg>>

(* The block is in no buffer (no interrupt can change that): take the       *)
(* oldest available one, after starting its delayed write if it has one.    *)
Take(p) ==
    /\ At(p, "getblk") /\ (op[p] = "geteblk" \/ ~Incore(Want(p)))
    /\ IF avail = << >>
       THEN /\ fwanted' = TRUE
            /\ Sleep(p, BFreeList, "getblk")
            /\ UNCHANGED <<flags, blk, avail, queue, bp>>
       ELSE LET b == Head(avail) IN
            /\ bp' = [bp EXCEPT ![p] = b]
            /\ IF IsDelayed(b)
               THEN /\ StartWrite(b, flags[b] \cup {"BUSY", "ASYNC"}, Tail(avail))
                    /\ Goto(p, "age")
               ELSE /\ flags' = [flags EXCEPT ![b] = {"BUSY"}]
                    /\ blk' = [blk EXCEPT ![b] = Want(p)]
                    /\ avail' = Tail(avail)
                    /\ Goto(p, "got")
                    /\ UNCHANGED <<fwanted, queue, chan>>
    /\ UNCHANGED <<data, errcnt, disk, op, blkno, rablkno, held, reg>>

-----------------------------------------------------------------------------
(* bread and breada after getblk; getblk and geteblk return to the caller. *)
Got(p) ==
    LET b == bp[p]
        cached == "DONE" \in flags[b]
    IN
    /\ At(p, "got")
    /\ \/ /\ op[p] \in {"getblk", "geteblk"} \/ (op[p] = "bread" /\ cached)
          /\ Hold(p)
          /\ UNCHANGED <<cache, queue, chan, held>>
       \/ /\ op[p] = "bread" /\ ~cached
          /\ Strategy(b, flags[b] \cup {"READ"}, avail)
          /\ Goto(p, "iowait")
          /\ UNCHANGED held
       \/ /\ op[p] = "breada"
          /\ IF cached THEN UNCHANGED <<cache, queue, chan>>
                       ELSE Strategy(b, flags[b] \cup {"READ"}, avail)
          /\ held' = [held EXCEPT ![p] = b]
          /\ Goto(p, "ra")
    /\ op[p] # "ra"
    /\ UNCHANGED <<data, errcnt, disk, frame, reg>>

(* The end of breada: bread the first block, or wait for it. *)
AfterRa(p) ==
    /\ op' = [op EXCEPT ![p] = "bread"]
    /\ IF held[p] = None THEN Goto(p, "getblk") ELSE Goto(p, "iowait")
    /\ bp' = [bp EXCEPT ![p] = held[p]]
    /\ held' = [held EXCEPT ![p] = None]
    /\ rablkno' = [rablkno EXCEPT ![p] = None]
    /\ UNCHANGED blkno

(* breada: is a read-ahead wanted, and its block not in core? *)
Ra(p) ==
    /\ At(p, "ra")
    /\ IF rablkno[p] = None \/ Incore(rablkno[p])
       THEN AfterRa(p)
       ELSE /\ op' = [op EXCEPT ![p] = "ra"]
            /\ Goto(p, "getblk")
            /\ UNCHANGED <<blkno, rablkno, bp, held>>
    /\ UNCHANGED <<cache, data, queue, errcnt, disk, chan, reg>>

(* breada with the read-ahead buffer: start the read, which nobody awaits *)
GotRa(p) ==
    LET b == bp[p] IN
    /\ At(p, "got") /\ op[p] = "ra"
    /\ IF "DONE" \in flags[b]
       THEN Brelse(b, flags[b], avail) /\ UNCHANGED queue
       ELSE Strategy(b, flags[b] \cup {"READ", "ASYNC"}, avail)
    /\ AfterRa(p)
    /\ UNCHANGED <<data, errcnt, disk, reg>>

(* iowait, and what follows it: bread returns, bwrite releases the buffer *)
Iowait(p) ==
    LET b == bp[p] IN
    /\ At(p, "iowait")
    /\ \/ /\ "DONE" \notin flags[b]
          /\ Sleep(p, b, "iowait")
          /\ UNCHANGED <<cache, frame>>
       \/ /\ "DONE" \in flags[b] /\ op[p] = "bread"
          /\ Hold(p)
          /\ UNCHANGED <<cache, chan, frame>>
       \/ /\ "DONE" \in flags[b] /\ op[p] = "bwrite"
          /\ Brelse(b, flags[b], avail)
          /\ Return(p)
    /\ UNCHANGED <<data, queue, errcnt, disk, held, reg>>

-----------------------------------------------------------------------------
(* What the owner of a buffer may do with it. *)

(* brelse.  A copy from user space that faults half way leaves writei's     *)
(* buffer partly overwritten, and writei releases it all the same.          *)
Release(p) ==
    /\ At(p, "hold")
    /\ Brelse(bp[p], flags[bp[p]], avail)
    /\ \/ UNCHANGED data
       \/ UserFaults /\ \E v \in Vals : data' = [data EXCEPT ![bp[p]] = v]
    /\ Return(p)
    /\ UNCHANGED <<queue, errcnt, disk, held, reg>>

(* The buffer may be written: it stands for a block (bdwrite and bwrite     *)
(* index bdevsw by b_dev), and callers give up one whose read failed.       *)
Writable(p) ==
    /\ op[p] # "geteblk" /\ blk[bp[p]] # NODEV
    /\ op[p] = "bread" => "ERROR" \notin flags[bp[p]]

(* the buffer is not marked as newer than the disk *)
Bug_Delayed(f) == f \cup {"DONE"}

(* the flags with which bdwrite releases a buffer *)
Delayed(f) == f \cup {"DELWRI", "DONE"}

(* bdwrite of new contents *)
Bdwrite(p) ==
    /\ At(p, "hold") /\ Writable(p)
    /\ \E v \in Vals : data' = [data EXCEPT ![bp[p]] = v]
    /\ Brelse(bp[p], Delayed(flags[bp[p]]), avail)
    /\ Return(p)
    /\ UNCHANGED <<queue, errcnt, disk, held, reg>>

(* bwrite of new contents: queue the write and wait for it *)
Bwrite(p) ==
    /\ At(p, "hold") /\ Writable(p)
    /\ \E v \in Vals : data' = [data EXCEPT ![bp[p]] = v]
    /\ StartWrite(bp[p], flags[bp[p]], avail)
    /\ op' = [op EXCEPT ![p] = "bwrite"]
    /\ Goto(p, "iowait")
    /\ UNCHANGED <<errcnt, disk, blkno, rablkno, bp, held, reg>>

(* bawrite of new contents: queue the write; a delayed write is aged *)
Bawrite(p) ==
    /\ At(p, "hold") /\ Writable(p)
    /\ \E v \in Vals : data' = [data EXCEPT ![bp[p]] = v]
    /\ StartWrite(bp[p], flags[bp[p]] \cup {"ASYNC"}, avail)
    /\ IF "DELWRI" \in flags[bp[p]]
       THEN /\ Goto(p, "age")
            /\ op' = [op EXCEPT ![p] = "bawrite"]
            /\ UNCHANGED <<blkno, rablkno, bp>>
       ELSE Return(p)
    /\ UNCHANGED <<errcnt, disk, held, reg>>

(* bflush, masked: the first delayed write on the available list is started *)
Bflush(p) ==
    /\ At(p, "bflush")
    /\ \/ \E i \in DOMAIN avail :
            LET b == avail[i] IN
            /\ "DELWRI" \in flags[b]
            /\ \A j \in 1..(i - 1) : "DELWRI" \notin flags[avail[j]]
            /\ StartWrite(b, flags[b] \cup {"BUSY", "ASYNC"}, Unlink(b))
            /\ bp' = [bp EXCEPT ![p] = b]
            /\ Goto(p, "age")
            /\ UNCHANGED <<op, blkno, rablkno>>
       \/ /\ \A b \in ToSet(avail) : "DELWRI" \notin flags[b]
          /\ Return(p)
          /\ UNCHANGED <<cache, queue, chan>>
    /\ UNCHANGED <<data, errcnt, disk, held, reg>>

(* where bwrite returns to after "b_flags |= B_AGE" *)
AgeReturn(p) ==
    IF op[p] = "bawrite"
    THEN Return(p)
    ELSE /\ Goto(p, IF op[p] = "bflush" THEN "bflush" ELSE "getblk")
         /\ bp' = [bp EXCEPT ![p] = None]
         /\ UNCHANGED <<op, blkno, rablkno>>

(* bwrite's "b_flags |= B_AGE", interrupts enabled and the buffer in the    *)
(* driver's hands, in one indivisible step ...                              *)
Age(p) ==
    /\ At(p, "age") /\ ~SplitAge
    /\ flags' = [flags EXCEPT ![bp[p]] = @ \cup {"AGE"}]
    /\ AgeReturn(p)
    /\ UNCHANGED <<blk, avail, fwanted, data, queue, errcnt, disk, chan, held, reg>>

(* ... or as the load and the store the ARM compiler makes of it. *)
AgeLoad(p) ==
    /\ At(p, "age") /\ SplitAge
    /\ reg' = [reg EXCEPT ![p] = flags[bp[p]]]
    /\ Goto(p, "age2")
    /\ UNCHANGED <<cache, data, queue, errcnt, disk, chan, frame, held>>

AgeStore(p) ==
    /\ At(p, "age2")
    /\ flags' = [flags EXCEPT ![bp[p]] = reg[p] \cup {"AGE"}]
    /\ reg' = [reg EXCEPT ![p] = {}]
    /\ AgeReturn(p)
    /\ UNCHANGED <<blk, avail, fwanted, data, queue, errcnt, disk, chan, held>>

-----------------------------------------------------------------------------
(* rkintr: the request at the head of the queue is finished ... *)
RkintrDone ==
    LET b == Head(queue) IN
    /\ queue # << >>
    /\ IF "READ" \in flags[b]
       THEN data' = [data EXCEPT ![b] = disk[blk[b]]] /\ UNCHANGED disk
       ELSE disk' = [disk EXCEPT ![blk[b]] = data[b]] /\ UNCHANGED data
    /\ errcnt' = 0
    /\ queue' = Tail(queue)
    /\ Iodone(b, flags[b], avail)
    /\ UNCHANGED <<cur, pc, frame, held, reg>>

(* is the transfer that failed started again? *)
Retry == errcnt < MaxRetry

(* the restart resets b_errcnt, and the transfer is never given up *)
Bug_RkintrError ==
    /\ Faulty /\ queue # << >>
    /\ errcnt' = (errcnt + 1) % (MaxRetry + 1)
    /\ UNCHANGED <<cache, queue, chan, data, disk, cur, pc, frame, held, reg>>

(* ... or failed: it is started again, and given up after MaxRetry times.   *)
RkintrError ==
    LET b == Head(queue) IN
    /\ Faulty /\ queue # << >>
    /\ IF Retry
       THEN /\ errcnt' = errcnt + 1
            /\ UNCHANGED <<cache, queue, chan>>
       ELSE /\ errcnt' = 0
            /\ queue' = Tail(queue)
            /\ Iodone(b, flags[b] \cup {"ERROR"}, avail)
    /\ UNCHANGED <<data, disk, cur, pc, frame, held, reg>>

Step(p) ==
    \/ Call(p) \/ Breada(p)
    \/ Search(p) \/ Found(p) \/ Take(p)
    \/ Got(p) \/ Ra(p) \/ GotRa(p) \/ Iowait(p)
    \/ Release(p) \/ Bdwrite(p) \/ Bwrite(p) \/ Bawrite(p)
    \/ Bflush(p) \/ Age(p) \/ AgeLoad(p) \/ AgeStore(p)

Next == RkintrDone \/ RkintrError \/ \E p \in Procs : Step(p)

Spec == Init /\ [][Next]_vars

-----------------------------------------------------------------------------
(* Every variable keeps the shape its C declaration gives it; in particular *)
(* the available list and the driver's queue hold buffers of the pool.      *)
TypeOK ==
    /\ flags \in [Bufs -> SUBSET Flags]
    /\ blk \in [Bufs -> Blocks \cup {NODEV}]
    /\ data \in [Bufs -> Vals]
    /\ avail \in Seq(Bufs)
    /\ fwanted \in BOOLEAN
    /\ queue \in Seq(Bufs)
    /\ errcnt \in 0..MaxRetry
    /\ disk \in [Blocks -> Vals]
    /\ cur \in Procs \cup {None}
    /\ pc \in [Procs -> Pcs]
    /\ chan \in [Procs -> Bufs \cup {BFreeList, None}]
    /\ op \in [Procs -> Ops]
    /\ blkno \in [Procs -> Blocks \cup {NODEV, None}]
    /\ rablkno \in [Procs -> Blocks \cup {None}]
    /\ bp \in [Procs -> Bufs \cup {None}]
    /\ held \in [Procs -> Bufs \cup {None}]
    /\ reg \in [Procs -> SUBSET Flags]

(* buf.h: "A buffer is on the available list ... if and only if it is not   *)
(* marked BUSY", and it is there once, whatever getblk, brelse, bflush and  *)
(* the disk interrupt did to the list.                                      *)
AvailIffNotBusy ==
    /\ IsInjective(avail)
    /\ \A b \in Bufs : b \in ToSet(avail) <=> "BUSY" \notin flags[b]

(* getblk never lets two buffers stand for the same block: two copies would *)
(* be read and written independently of each other.                         *)
OneBufferPerBlock ==
    \A b, c \in Bufs : blk[b] = blk[c] /\ blk[b] # NODEV => b = c

(* p answers for buffer b: it was returned to it by getblk and not released *)
Owns(p, b) ==
    \/ pc[p] \in {"got", "iowait", "hold"} /\ bp[p] = b
    \/ held[p] = b

(* A busy buffer has exactly one party that will release it: one process    *)
(* whose transfer, if any, is synchronous, or the driver, which has it      *)
(* queued once and marked ASYNC so that iodone releases it.  A buffer with  *)
(* none is lost to the pool for ever, one with two is corrupted.            *)
BusyHasOneOwner ==
    /\ IsInjective(queue)
    /\ \A b \in Bufs :
          /\ b \in ToSet(queue) => {"BUSY"} = flags[b] \cap {"BUSY", "DONE", "DELWRI"}
          /\ "BUSY" \in flags[b] =>
                IF "ASYNC" \in flags[b]
                THEN b \in ToSet(queue) /\ \A p \in Procs : ~Owns(p, b)
                ELSE \E p \in Procs :
                        /\ Owns(p, b)
                        /\ \A q \in Procs \ {p} : ~Owns(q, b)
          /\ "BUSY" \notin flags[b] => \A p \in Procs : ~Owns(p, b)

(* Nobody sleeps on an event that has already happened: a process waiting   *)
(* for a transfer in iowait sleeps on a buffer the driver still has, one    *)
(* waiting in getblk for a buffer sleeps on a busy buffer whose release     *)
(* will wake it, and one waiting for any buffer has left B_WANTED in        *)
(* bfreelist while the available list is empty.                             *)
NoLostWakeup ==
    \A p \in Procs :
        /\ chan[p] \in Bufs /\ pc[p] = "iowait" =>
              chan[p] = bp[p] /\ bp[p] \in ToSet(queue)
        /\ chan[p] \in Bufs /\ pc[p] # "iowait" =>
              /\ "BUSY" \in flags[chan[p]]
              /\ "WANTED" \in flags[chan[p]]
        /\ chan[p] = BFreeList => fwanted /\ avail = << >>

(* Somebody can always go on, a process or the disk: with more buffers than *)
(* processes that read ahead, breada's holding on to its first buffer while *)
(* it waits for a second one never leaves everybody asleep.                 *)
SomeoneRuns == queue # << >> \/ \E p \in Procs : chan[p] = None

(* The comment above getblk: "If the appropriate block is already           *)
(* associated, return it; otherwise search for the oldest non-busy buffer   *)
(* and reassign it": what the caller gets stands for the block asked for,   *)
(* unless the transfer it waited for failed.                                *)
GetblkReturnsBlock ==
    \A p \in Procs :
        pc[p] \in {"got", "hold"} /\ op[p] # "geteblk" => blk[bp[p]] = Want(p)

(* commentary: "B_DONE means that the contents are valid" and "B_DELWRI     *)
(* that the contents are newer than the disk": contents that are valid and  *)
(* not marked as newer are those of the disk.  Both a read hit and the      *)
(* silent reuse of a clean buffer rely on it.                               *)
CleanIsOnDisk ==
    \A b \in Bufs :
        /\ blk[b] # NODEV
        /\ flags[b] \cap {"DONE", "DELWRI", "ERROR"} = {"DONE"}
        => data[b] = disk[blk[b]]

(* A delayed write is never thrown away: a buffer marked DELWRI keeps its   *)
(* block and its contents until the write is with the driver, unless its    *)
(* owner releases it with newer contents.                                   *)
DelayedWriteKept ==
    [][\A b \in Bufs : "DELWRI" \in flags[b] /\ blk[b] \notin BadBlocks =>
          /\ blk'[b] = blk[b]
          /\ "DELWRI" \in flags'[b] \/ b \in ToSet(queue')]_vars

-----------------------------------------------------------------------------
(* The abstract block store: a block's value is in the buffer that stands   *)
(* for it when that buffer is valid or on its way to the disk, else on disk. *)
GoodBlocks == Blocks \ BadBlocks

Valid(b) == "DONE" \in flags[b] \/ (b \in ToSet(queue) /\ "READ" \notin flags[b])

StoreOf == [n \in GoodBlocks |->
    IF \E b \in Bufs : blk[b] = n /\ Valid(b)
    THEN data[CHOOSE b \in Bufs : blk[b] = n /\ Valid(b)]
    ELSE disk[n]]

LockOf == [n \in GoodBlocks |->
    IF \E p \in Procs : pc[p] = "hold" /\ blk[bp[p]] = n
    THEN CHOOSE p \in Procs : pc[p] = "hold" /\ blk[bp[p]] = n
    ELSE None]

SeenOf == [p \in Procs |->
    IF /\ pc[p] = "hold" /\ op[p] = "bread"
       /\ "ERROR" \notin flags[bp[p]] /\ blk[bp[p]] \in GoodBlocks
    THEN data[bp[p]] ELSE None]

Store == INSTANCE BlockStore WITH
    Blocks <- GoodBlocks, store <- StoreOf, lock <- LockOf, seen <- SeenOf

(* On a disk that does not fail the cache is a block store: at most one     *)
(* process has a block, bread shows the value last written through bwrite,  *)
(* bdwrite or bawrite whatever was evicted, aged, flushed or read ahead     *)
(* since, and nothing else changes a block.                                 *)
ImplementsBlockStore == Store!Spec

-----------------------------------------------------------------------------
(* The disk interrupts until its queue is empty.  A process that is ready   *)
(* gets to run: the run queue itself is last in, first out, but while a     *)
(* transfer is under way the ready processes run until each sleeps again.   *)
(* The owner of a buffer releases it in the end.  Nobody is obliged to ask  *)
(* for another block.                                                       *)
InKernel(p) ==
    \/ Search(p) \/ Found(p) \/ Take(p) \/ Got(p) \/ Ra(p) \/ GotRa(p) \/ Iowait(p)
    \/ Release(p) \/ Bdwrite(p) \/ Bwrite(p) \/ Bawrite(p)
    \/ Bflush(p) \/ Age(p) \/ AgeLoad(p) \/ AgeStore(p)

Fairness ==
    /\ WF_vars(RkintrDone \/ RkintrError)
    /\ \A p \in Procs : SF_vars(InKernel(p))

FairSpec == Spec /\ Fairness

(* Every sleep in the buffer cache ends: transfers finish or are given up   *)
(* after MaxRetry attempts, and every release wakes those who waited.       *)
SleepersWake == \A p \in Procs : chan[p] # None ~> chan[p] = None

=============================================================================
