------------------------------- MODULE Rawio -------------------------------
(***************************************************************************)
(* Transfers that bypass the buffer cache (dev/bio.c): swap and mapswap    *)
(* with the headers swbuf1 and swbuf2, and physio with the header of a raw *)
(* device and the one page physpg.  A header is guarded by B_BUSY and      *)
(* B_WANTED, the page by physbusy (1 in use, 2 wanted), and a header is    *)
(* slept on both by who waits for it and by who waits for its transfer.    *)
(***************************************************************************)
EXTENDS Integers, FiniteSets

CONSTANTS Swappers, Raws,   \* processes that swap, and that read or write a raw device
          RawDevs,          \* raw devices, each with a header of its own
          MaxPieces         \* runs of pages in a mapswap, pages in a physio

ASSUME RawioConstants ==
    /\ MaxPieces \in Nat \ {0}
    /\ Swappers \cap Raws = {}
    /\ RawDevs \cap {"swbuf1", "swbuf2", "physbusy", "none"} = {}

Headers == {"swbuf1", "swbuf2"} \cup RawDevs
PHYS == "physbusy"

VARIABLES hd,         \* b_flags of the headers
          queued,     \* headers the driver has in its queue
          physbusy,
          rp          \* the processes

rawVars == <<hd, queued, physbusy, rp>>

Flags0 == [busy |-> FALSE, wanted |-> FALSE, done |-> FALSE, error |-> FALSE]
Proc0 == [pc |-> "user", bp |-> "none", chan |-> "none", left |-> 0]

RawInit ==
    /\ hd = [h \in Headers |-> Flags0]
    /\ queued = {}
    /\ physbusy = 0
    /\ rp = [p \in Swappers \cup Raws |-> Proc0]

(* A process runs at pc when it is not asleep; wakeup(c).                  *)
Runs(p, pc) == rp[p].pc = pc /\ rp[p].chan = "none"
RawWoken(t, c) == [p \in DOMAIN t |-> IF t[p].chan = c THEN [t[p] EXCEPT !.chan = "none"] ELSE t[p]]

(* while (bp->b_flags&B_BUSY): B_WANTED and sleep, as long as it is busy.  *)
AwaitsHeader(p, h, pc) ==
    /\ hd[h].busy
    /\ hd' = [hd EXCEPT ![h].wanted = TRUE]
    /\ rp' = [rp EXCEPT ![p].pc = pc, ![p].bp = h, ![p].chan = h]
    /\ UNCHANGED <<queued, physbusy>>

(* The strategy routine is given the header; then sleep until B_DONE.      *)
Transfer(p, h) ==
    /\ hd' = [hd EXCEPT ![h] = [Flags0 EXCEPT !.busy = TRUE]]
    /\ queued' = queued \cup {h}
    /\ rp' = [rp EXCEPT ![p].pc = "io", ![p].bp = h, ![p].chan = h]

(* iodone of a synchronous transfer, from rkintr or rkstrategy.            *)
RawIodone(h) ==
    /\ h \in queued
    /\ queued' = queued \ {h}
    /\ \E e \in BOOLEAN :
          /\ e => h \in RawDevs      \* an error in swap is a panic
          /\ hd' = [hd EXCEPT ![h].done = TRUE, ![h].wanted = FALSE, ![h].error = e]
    /\ rp' = RawWoken(rp, h)
    /\ UNCHANGED physbusy

-----------------------------------------------------------------------------
(* mapswap of some runs of pages, each of them a swap: swbuf2 is taken     *)
(* when swbuf1 is busy and nobody wants swbuf2.                            *)
Mapswap(p) ==
    /\ Runs(p, "user")
    /\ \E n \in 1 .. MaxPieces : rp' = [rp EXCEPT ![p].pc = "swap", ![p].left = n]
    /\ UNCHANGED <<hd, queued, physbusy>>

Chosen == IF hd["swbuf1"].busy /\ ~hd["swbuf2"].wanted THEN "swbuf2" ELSE "swbuf1"

SwapCall(p) ==
    /\ Runs(p, "swap") \/ Runs(p, "getsw")
    /\ LET h == IF rp[p].pc = "swap" THEN Chosen ELSE rp[p].bp
       IN  \/ AwaitsHeader(p, h, "getsw")
           \/ ~hd[h].busy /\ Transfer(p, h) /\ UNCHANGED physbusy

(* The transfer is done: wake who wants the header and give it up.         *)
Bug_Wakes(t, h) == t      \* mutant: the wakeup of iodone is thought to be enough
Wakes(t, h) == IF hd[h].wanted THEN RawWoken(t, h) ELSE t

SwapEnds(p) ==
    /\ p \in Swappers /\ Runs(p, "io") /\ hd[rp[p].bp].done
    /\ LET h == rp[p].bp
           n == rp[p].left - 1
       IN  /\ rp' = Wakes([rp EXCEPT ![p] = IF n = 0 THEN Proc0
                                            ELSE [Proc0 EXCEPT !.pc = "swap", !.left = n]], h)
           /\ hd' = [hd EXCEPT ![h].busy = FALSE, ![h].wanted = FALSE]
    /\ UNCHANGED <<queued, physbusy>>

-----------------------------------------------------------------------------
(* physio: first the header, then the page; a bad address ends it at once. *)
Physio(p) ==
    /\ Runs(p, "user")
    /\ \E d \in RawDevs, n \in 1 .. MaxPieces :
          rp' = [rp EXCEPT ![p].pc = "getbp", ![p].bp = d, ![p].left = n]
    /\ UNCHANGED <<hd, queued, physbusy>>

PageTaken == physbusy # 0

(* Once the header is free the page is waited for, without the header.     *)
PhysBegins(p) ==
    /\ Runs(p, "getbp") \/ Runs(p, "getpage")
    /\ \/ rp[p].pc = "getbp" /\ AwaitsHeader(p, rp[p].bp, "getbp")
       \/ /\ (rp[p].pc = "getbp") => ~hd[rp[p].bp].busy
          /\ IF PageTaken
             THEN /\ physbusy' = 3
                  /\ rp' = [rp EXCEPT ![p].pc = "getpage", ![p].chan = PHYS]
                  /\ UNCHANGED hd
             ELSE /\ physbusy' = 1
                  /\ hd' = [hd EXCEPT ![rp[p].bp] = Flags0]
                  /\ rp' = [rp EXCEPT ![p].pc = "page"]
          /\ UNCHANGED queued

(* A page: copyin may fail, then the transfer.                             *)
PhysPage(p) ==
    /\ Runs(p, "page")
    /\ \/ Transfer(p, rp[p].bp)
       \/ rp' = [rp EXCEPT ![p].pc = "free"] /\ UNCHANGED <<hd, queued>>
    /\ UNCHANGED physbusy

(* After the transfer: an error, a short count or a failing copyout ends   *)
(* the loop, as does the end of the count.                                 *)
PhysPageDone(p) ==
    /\ p \in Raws /\ Runs(p, "io") /\ hd[rp[p].bp].done
    /\ \E bad \in BOOLEAN :
          rp' = [rp EXCEPT ![p].left = @ - 1,
                           ![p].pc = IF bad \/ hd[rp[p].bp].error \/ rp[p].left = 1 THEN "free"
                                     ELSE "page"]
    /\ UNCHANGED <<hd, queued, physbusy>>

PhysEnds(p) ==
    /\ Runs(p, "free")
    /\ LET h == rp[p].bp
           t == [rp EXCEPT ![p] = Proc0]
       IN  rp' = Wakes(IF physbusy > 1 THEN RawWoken(t, PHYS) ELSE t, h)
           /\ hd' = [hd EXCEPT ![h].busy = FALSE, ![h].wanted = FALSE]
    /\ physbusy' = 0
    /\ UNCHANGED queued

RawNext ==
    \/ \E h \in Headers : RawIodone(h)
    \/ \E p \in Swappers : Mapswap(p) \/ SwapCall(p) \/ SwapEnds(p)
    \/ \E p \in Raws : Physio(p) \/ PhysBegins(p) \/ PhysPage(p) \/ PhysPageDone(p) \/ PhysEnds(p)

RawSpec == RawInit /\ [][RawNext]_rawVars

-----------------------------------------------------------------------------
(* A header carries one transfer at a time and the page of physio serves   *)
(* one process at a time; and nobody sleeps for a header or for the page   *)
(* when no one is left to wake him (bio.c, swap and physio).               *)
HeadersShared ==
    LET using(h) == {p \in DOMAIN rp : rp[p].bp = h /\ rp[p].pc \in {"io", "page", "free"}}
        page == {p \in Raws : rp[p].pc \in {"io", "page", "free"}}
    IN  /\ \A h \in Headers : Cardinality(using(h)) <= 1
        /\ Cardinality(page) <= 1
        /\ \A p \in DOMAIN rp :
              /\ (rp[p].chan \in Headers /\ rp[p].pc # "io") => using(rp[p].chan) # {}
              /\ (rp[p].chan \in Headers /\ rp[p].pc = "io") => rp[p].chan \in queued
              /\ rp[p].chan = PHYS => page # {}
=============================================================================
