------------------------------- MODULE Blocks -------------------------------
(***************************************************************************)
(* The blocks of a volume: the free list of alloc and free (sys/alloc.c),  *)
(* with its first part in the super block and the rest chained through     *)
(* free blocks; bmap (sys/subr.c), which finds or allocates the block of a *)
(* file through up to three levels of indirection; itrunc and tloop        *)
(* (sys/iget.c), which give the blocks back; and update's super block.     *)
(*                                                                         *)
(* A process has locked the inode of its file (see Inode).  It may sleep   *)
(* wherever a block is read or a buffer is taken; elsewhere it keeps the   *)
(* processor.  Block contents are indirect addresses p, chain c and the    *)
(* file d whose data was written, 0 after clrbuf.                          *)
(***************************************************************************)
EXTENDS Integers, Sequences, SequencesExt, FiniteSets, FiniteSetsExt

CONSTANTS BProcs,
          FileSet,
          FSIZE,      \* the data blocks are 1 .. FSIZE (from s_isize on)
          NICFREE,    \* addresses in the super block
          NDIR,       \* direct addresses of an inode (NADDR - 3)
          NINDIR,     \* addresses in an indirect block
          Lbns,       \* logical blocks that are written
          BCalls      \* bound on the calls made

ASSUME BlocksConstants ==
    /\ FSIZE \in Nat /\ NICFREE \in Nat \ {0, 1}
    /\ NDIR \in Nat \ {0} /\ NINDIR \in Nat \ {0} /\ Lbns \subseteq Nat
    /\ BCalls \in Nat

Blks == 1 .. FSIZE
NADDR == NDIR + 3
ZeroPtrs == [i \in 0 .. NINDIR - 1 |-> 0]
Cleared == [p |-> ZeroPtrs, c |-> <<>>, d |-> 0]

VARIABLES sfree, sflock, sfmod,  \* s_free[0 .. s_nfree-1], s_flock, s_fmod
          dsuper,     \* the free list in the super block on disk
          blk,        \* the contents of the blocks
          iaddr,      \* i_addr of each file
          leak,       \* a read has failed and blocks are out of reach
          bcalls,     \* calls left
          bu          \* processes

blocksVars == <<sfree, sflock, sfmod, dsuper, blk, iaddr, leak, bcalls, bu>>

(* file, lbn: the arguments of bmap; d, cur: its depth and indirect block; *)
(* bno: the block of alloc or free; st: the frames of tloop.                *)
BIdle == [pc |-> "user", file |-> 0, lbn |-> 0, d |-> 0, cur |-> 0, bno |-> 0,
          st |-> <<>>]

BRunning == {"alloc", "free", "nospace", "got", "freed", "bmap", "itrunc"}
BHasCPU(p) == \A q \in BProcs \ {p} : bu[q].pc \notin BRunning
BAt(p, l) == bu[p].pc = l /\ BHasCPU(p)

(* A list of blocks b .. FSIZE as mkfs leaves it, freed one by one.        *)
FreeAll[b \in 0 .. FSIZE] ==
    IF b = 0 THEN [l |-> <<0>>, k |-> [x \in Blks |-> Cleared]]
    ELSE LET r == FreeAll[b - 1] IN
         IF Len(r.l) >= NICFREE
         THEN [l |-> <<b>>, k |-> [r.k EXCEPT ![b].c = r.l]]
         ELSE [l |-> Append(r.l, b), k |-> r.k]

BlocksInit ==
    /\ sfree = FreeAll[FSIZE].l /\ dsuper = FreeAll[FSIZE].l
    /\ sflock = FALSE /\ sfmod = FALSE
    /\ blk = FreeAll[FSIZE].k
    /\ iaddr = [f \in FileSet |-> [i \in 0 .. NADDR - 1 |-> 0]]
    /\ leak = FALSE /\ bcalls = BCalls
    /\ bu = [p \in BProcs |-> BIdle]

-----------------------------------------------------------------------------
(* alloc.                                                                  *)

WakeF(v) == [q \in BProcs |-> CASE v[q].pc = "alloc_sleep" -> [v[q] EXCEPT !.pc = "alloc_woken"]
                                [] v[q].pc = "free_sleep" -> [v[q] EXCEPT !.pc = "free_woken"]
                                [] OTHER -> v[q]]

Bug_AllocWaits == FALSE

AllocWaits == sflock

NoneFree == sfree # <<>> => Last(sfree) = 0

(* The last address of the list.  When it was the only one, the block it   *)
(* names holds the next part of the list, which is read first.             *)
Alloc(p) ==
    /\ BAt(p, "alloc") \/ BAt(p, "alloc_woken")
    /\ \/ /\ AllocWaits
          /\ bu' = [bu EXCEPT ![p].pc = "alloc_sleep"]
          /\ UNCHANGED <<sfree, sflock>>
       \/ /\ ~AllocWaits /\ NoneFree
          /\ sfree' = <<>>
          /\ bu' = [bu EXCEPT ![p].pc = "nospace"]
          /\ UNCHANGED sflock
       \/ /\ ~AllocWaits /\ ~NoneFree
          /\ sfree' = Front(sfree)
          /\ sflock' = (Len(sfree) = 1)
          /\ bu' = [bu EXCEPT ![p].bno = Last(sfree),
                              ![p].pc = IF Len(sfree) = 1 THEN "refill" ELSE "clear"]
    /\ UNCHANGED <<sfmod, dsuper, blk, iaddr, leak, bcalls>>

AllocRefill(p) ==
    /\ BAt(p, "refill")
    /\ \/ sfree' = blk[bu[p].bno].c /\ UNCHANGED leak
       \/ ~leak /\ UNCHANGED sfree /\ leak' = TRUE    \* B_ERROR, at most once
    /\ sflock' = FALSE
    /\ bu' = WakeF([bu EXCEPT ![p].pc = IF sfree' = <<>> THEN "nospace" ELSE "clear"])
    /\ UNCHANGED <<sfmod, dsuper, blk, iaddr, bcalls>>

Bug_AllocClear(p) ==
    /\ BAt(p, "clear")
    /\ blk' = [blk EXCEPT ![bu[p].bno] = Cleared]
    /\ bu' = [bu EXCEPT ![p].pc = "got"]
    /\ UNCHANGED <<sfree, sflock, sfmod, dsuper, iaddr, leak, bcalls>>

(* getblk, clrbuf.                                                         *)
AllocClear(p) ==
    /\ BAt(p, "clear")
    /\ blk' = [blk EXCEPT ![bu[p].bno] = Cleared]
    /\ sfmod' = TRUE
    /\ bu' = [bu EXCEPT ![p].pc = "got"]
    /\ UNCHANGED <<sfree, sflock, dsuper, iaddr, leak, bcalls>>

-----------------------------------------------------------------------------
(* free of bu[p].bno.  A full list moves into the block that is freed.     *)

Freed(l, b) == Append(IF l = <<>> THEN <<0>> ELSE l, b)

Free(p) ==
    /\ BAt(p, "free") \/ BAt(p, "free_woken")
    /\ sfmod' = TRUE
    /\ \/ /\ AllocWaits
          /\ bu' = [bu EXCEPT ![p].pc = "free_sleep"]
          /\ UNCHANGED <<sfree, sflock>>
       \/ /\ ~AllocWaits /\ Len(sfree) < NICFREE
          /\ sfree' = Freed(sfree, bu[p].bno)
          /\ bu' = [bu EXCEPT ![p].bno = 0, ![p].pc = "freed"]
          /\ UNCHANGED sflock
       \/ /\ ~AllocWaits /\ Len(sfree) >= NICFREE
          /\ sflock' = TRUE
          /\ bu' = [bu EXCEPT ![p].pc = "spill"]
          /\ UNCHANGED sfree
    /\ UNCHANGED <<dsuper, blk, iaddr, leak, bcalls>>

(* After getblk; then bwrite sleeps.                                       *)
FreeSpill(p) ==
    /\ BAt(p, "spill")
    /\ blk' = [blk EXCEPT ![bu[p].bno] = [Cleared EXCEPT !.c = sfree, !.d = "list"]]
    /\ sfree' = <<>>
    /\ bu' = [bu EXCEPT ![p].pc = "spilt"]
    /\ UNCHANGED <<sflock, sfmod, dsuper, iaddr, leak, bcalls>>

FreeSpilt(p) ==
    /\ BAt(p, "spilt")
    /\ sflock' = FALSE
    /\ sfree' = Append(sfree, bu[p].bno)
    /\ sfmod' = TRUE
    /\ bu' = WakeF([bu EXCEPT ![p].bno = 0, ![p].pc = "freed"])
    /\ UNCHANGED <<dsuper, blk, iaddr, leak, bcalls>>

-----------------------------------------------------------------------------
(* bmap.                                                                   *)

(* The addresses to follow for a logical block: the index in the inode and *)
(* in each indirect block; none if the file cannot be that large (EFBIG).  *)
Path(n) ==
    LET m == n - NDIR
        L1 == NINDIR  L2 == NINDIR * NINDIR  L3 == NINDIR * NINDIR * NINDIR IN
    CASE n < NDIR -> <<n>>
      [] m >= 0 /\ m < L1 -> <<NDIR, m>>
      [] m >= L1 /\ m - L1 < L2 ->
           <<NDIR + 1, (m - L1) \div NINDIR, (m - L1) % NINDIR>>
      [] m >= L1 + L2 /\ m - L1 - L2 < L3 ->
           LET k == m - L1 - L2 IN
           <<NDIR + 2, k \div L2, (k \div NINDIR) % NINDIR, k % NINDIR>>
      [] OTHER -> <<>>

(* writei of one block of a file that nobody else has locked.  Beyond the  *)
(* largest file (Path(n) empty, EFBIG) no block is allocated.              *)
Writei(p, f, n) ==
    /\ BAt(p, "user") /\ \A q \in BProcs : bu[q].file # f
    /\ Path(n) # <<>>
    /\ bu' = [bu EXCEPT ![p] = [BIdle EXCEPT !.pc = "bmap", !.file = f, !.lbn = n, !.d = 1]]
    /\ bcalls > 0 /\ bcalls' = bcalls - 1
    /\ UNCHANGED <<sfree, sflock, sfmod, dsuper, blk, iaddr, leak>>

(* The address at depth d of the path: nb, in the inode or in block cur.   *)
Address(p) == LET k == Path(bu[p].lbn)[bu[p].d] IN
              IF bu[p].d = 1 THEN iaddr[bu[p].file][k] ELSE blk[bu[p].cur].p[k]

(* Block b is at depth d: data is written to it at the end of the path,    *)
(* otherwise bmap goes on through it.                                      *)
Descend(p, b, ia, bl) ==
    /\ iaddr' = ia
    /\ IF bu[p].d = Len(Path(bu[p].lbn))
       THEN /\ blk' = [bl EXCEPT ![b].d = bu[p].file]
            /\ bu' = [bu EXCEPT ![p] = BIdle]
       ELSE /\ blk' = bl
            /\ bu' = [bu EXCEPT ![p].d = @ + 1, ![p].cur = b, ![p].bno = 0, ![p].pc = "iread"]

Bmap(p) ==
    /\ BAt(p, "bmap") \/ BAt(p, "iread")
    /\ \/ Address(p) # 0 /\ Descend(p, Address(p), iaddr, blk)
       \/ /\ Address(p) = 0
          /\ bu' = [bu EXCEPT ![p].pc = "alloc"]
          /\ UNCHANGED <<blk, iaddr>>
       \/ /\ bu[p].d > 1                              \* the indirect block cannot be read
          /\ bu' = [bu EXCEPT ![p] = BIdle]
          /\ UNCHANGED <<blk, iaddr>>
    /\ UNCHANGED <<sfree, sflock, sfmod, dsuper, leak, bcalls>>

(* The new block is put into the inode or into the indirect block.         *)
BmapGot(p) ==
    LET b == bu[p].bno
        k == Path(bu[p].lbn)[bu[p].d] IN
    /\ BAt(p, "got")
    /\ IF bu[p].d = 1 THEN Descend(p, b, [iaddr EXCEPT ![bu[p].file][k] = b], blk)
       ELSE Descend(p, b, iaddr, [blk EXCEPT ![bu[p].cur].p[k] = b])
    /\ UNCHANGED <<sfree, sflock, sfmod, dsuper, leak, bcalls>>

BmapNospace(p) ==
    /\ BAt(p, "nospace")
    /\ bu' = [bu EXCEPT ![p] = BIdle]
    /\ UNCHANGED <<sfree, sflock, sfmod, dsuper, blk, iaddr, leak, bcalls>>

-----------------------------------------------------------------------------
(* itrunc and tloop.                                                       *)

Itrunc(p, f) ==
    /\ BAt(p, "user") /\ \A q \in BProcs : bu[q].file # f
    /\ \E i \in 0 .. NADDR - 1 : iaddr[f][i] # 0
    /\ bu' = [bu EXCEPT ![p] = [BIdle EXCEPT !.pc = "itrunc", !.file = f]]
    /\ bcalls > 0 /\ bcalls' = bcalls - 1
    /\ UNCHANGED <<sfree, sflock, sfmod, dsuper, blk, iaddr, leak>>

(* A frame of tloop: the indirect block, the next index, the levels of     *)
(* indirect blocks from here on, and whether the block is still to be read *)
(* (bp == NULL): at first, and again after the blocks below it are freed.  *)
Frame(b, l) == [b |-> b, i |-> NINDIR - 1, l |-> l, unread |-> TRUE]

(* The next address of the inode, from the last to the first.              *)
ItruncNext(p) ==
    LET f == bu[p].file
        left == {i \in 0 .. NADDR - 1 : iaddr[f][i] # 0}
        i == Max(left)
        b == iaddr[f][i] IN
    /\ BAt(p, "itrunc") /\ bu[p].st = <<>>
    /\ \/ /\ left = {}
          /\ bu' = [bu EXCEPT ![p] = BIdle]
          /\ UNCHANGED iaddr
       \/ /\ left # {}
          /\ iaddr' = [iaddr EXCEPT ![f][i] = 0]
          /\ bu' = IF i < NDIR
                   THEN [bu EXCEPT ![p].bno = b, ![p].pc = "free"]
                   ELSE [bu EXCEPT ![p].st = <<Frame(b, i - NDIR + 1)>>, ![p].pc = "tread"]
    /\ UNCHANGED <<sfree, sflock, sfmod, dsuper, blk, leak, bcalls>>

(* tloop has read its block, or cannot: then it returns.                   *)
TloopRead(p) ==
    /\ BAt(p, "tread")
    /\ \/ /\ bu' = [bu EXCEPT ![p].st[Len(bu[p].st)].unread = FALSE, ![p].pc = "itrunc"]
          /\ UNCHANGED leak
       \/ /\ ~leak /\ leak' = TRUE
          /\ bu' = [bu EXCEPT ![p].st = Front(@), ![p].pc = "itrunc"]
    /\ UNCHANGED <<sfree, sflock, sfmod, dsuper, blk, iaddr, bcalls>>

(* It frees what the block points to, the last first.                      *)
TloopFree(p) ==
    LET t == Last(bu[p].st)
        left == {i \in 0 .. t.i : blk[t.b].p[i] # 0}
        nb == blk[t.b].p[Max(left)]
        st == Append(Front(bu[p].st), [t EXCEPT !.i = Max(left) - 1, !.unread = t.l > 1]) IN
    /\ BAt(p, "itrunc") /\ bu[p].st # <<>> /\ t.i >= 0
    /\ \/ /\ t.unread
          /\ bu' = [bu EXCEPT ![p].pc = "tread"]
       \/ /\ ~t.unread /\ left = {}
          /\ bu' = [bu EXCEPT ![p].st = Append(Front(@), [t EXCEPT !.i = -1])]
       \/ /\ ~t.unread /\ left # {} /\ t.l > 1
          /\ bu' = [bu EXCEPT ![p].st = Append(st, Frame(nb, t.l - 1)), ![p].pc = "tread"]
       \/ /\ ~t.unread /\ left # {} /\ t.l = 1
          /\ bu' = [bu EXCEPT ![p].st = st, ![p].bno = nb, ![p].pc = "free"]
    /\ UNCHANGED <<sfree, sflock, sfmod, dsuper, blk, iaddr, leak, bcalls>>

Bug_TloopEnd(p) ==
    /\ BAt(p, "itrunc") /\ bu[p].st # <<>> /\ Last(bu[p].st).i < 0
    /\ bu' = [bu EXCEPT ![p].st = Front(@)]
    /\ UNCHANGED <<sfree, sflock, sfmod, dsuper, blk, iaddr, leak, bcalls>>

(* Then the block itself.                                                  *)
TloopEnd(p) ==
    /\ BAt(p, "itrunc") /\ bu[p].st # <<>> /\ Last(bu[p].st).i < 0
    /\ bu' = [bu EXCEPT ![p].st = Front(@), ![p].bno = Last(bu[p].st).b, ![p].pc = "free"]
    /\ UNCHANGED <<sfree, sflock, sfmod, dsuper, blk, iaddr, leak, bcalls>>

FreeReturns(p) ==
    /\ BAt(p, "freed")
    /\ bu' = [bu EXCEPT ![p].pc = "itrunc"]
    /\ UNCHANGED <<sfree, sflock, sfmod, dsuper, blk, iaddr, leak, bcalls>>

(* update: a super block that has changed and is not locked is copied once *)
(* getblk has a buffer for it, when it may be locked after all.            *)
UpdateTest(p) ==
    /\ BAt(p, "user") /\ \A q \in BProcs : bu[q].pc # "update"      \* updlock
    /\ sfmod /\ ~sflock
    /\ bu' = [bu EXCEPT ![p].pc = "update"]
    /\ bcalls > 0 /\ bcalls' = bcalls - 1
    /\ UNCHANGED <<sfree, sflock, sfmod, dsuper, blk, iaddr, leak>>

UpdateSuper(p) ==
    /\ BAt(p, "update")
    /\ sfmod' = FALSE
    /\ dsuper' = sfree
    /\ bu' = [bu EXCEPT ![p] = BIdle]
    /\ UNCHANGED <<sfree, sflock, blk, iaddr, leak, bcalls>>

BlocksNext ==
    \E p \in BProcs :
       \/ Alloc(p) \/ AllocRefill(p) \/ AllocClear(p)
       \/ Free(p) \/ FreeSpill(p) \/ FreeSpilt(p) \/ FreeReturns(p)
       \/ Bmap(p) \/ BmapGot(p) \/ BmapNospace(p)
       \/ ItruncNext(p) \/ TloopRead(p) \/ TloopFree(p) \/ TloopEnd(p)
       \/ UpdateTest(p) \/ UpdateSuper(p)
       \/ \E f \in FileSet : Itrunc(p, f) \/ \E n \in Lbns : Writei(p, f, n)

BlocksSpec == BlocksInit /\ [][BlocksNext]_blocksVars

-----------------------------------------------------------------------------
(* Properties.                                                             *)

(* The blocks of the free list that starts with l: its addresses, and the  *)
(* list in the block that its first address names, and so on.              *)
Chain(l) ==
    LET part[n \in 0 .. FSIZE] ==
            IF n = 0 THEN l
            ELSE LET m == part[n - 1] IN
                 IF m = <<>> \/ Head(m) = 0 THEN <<>> ELSE blk[Head(m)].c
        nonzero(m) == SelectSeq(m, LAMBDA b : b # 0)
    IN  FlattenSeq([n \in 1 .. FSIZE + 1 |-> nonzero(part[n - 1])])

(* Block b of a file and the blocks it points to below l levels, from      *)
(* index i down.                                                           *)
Under[b \in 0 .. FSIZE, l \in 0 .. 3, i \in -1 .. NINDIR - 1] ==
    IF b = 0 THEN <<>>
    ELSE IF l = 0 \/ i < 0 THEN <<b>>
    ELSE Under[b, l, i - 1] \o Under[blk[b].p[i], l - 1, NINDIR - 1]

Level(i) == IF i < NDIR THEN 0 ELSE i - NDIR + 1

OfFile(f) == FlattenSeq([k \in 1 .. NADDR |-> Under[iaddr[f][k - 1], Level(k - 1), NINDIR - 1]])

(* What process p alone refers to: the block it allocates or frees, with   *)
(* the list in it while the super block's is moved, and what tloop is in.  *)
InHand(p) ==
    (IF bu[p].bno = 0 THEN <<>>
     ELSE <<bu[p].bno>> \o IF bu[p].pc \in {"refill", "spilt"} THEN Chain(blk[bu[p].bno].c) ELSE <<>>)
    \o FlattenSeq([k \in 1 .. Len(bu[p].st) |->
           LET t == bu[p].st[k] IN Under[t.b, t.l, t.i]])

Claims == Chain(sfree)
          \o FoldSet(LAMBDA f, s : OfFile(f) \o s, <<>>, FileSet)
          \o FoldSet(LAMBDA p, s : InHand(p) \o s, <<>>, BProcs)

(* At every moment each block is claimed once: by the free list, by one    *)
(* place in one file, or by a process in alloc, free or itrunc; and none   *)
(* is lost unless a read has failed.                                       *)
EveryBlockOnce ==
    /\ Cardinality(ToSet(Claims)) = Len(Claims)
    /\ ~leak => ToSet(Claims) = Blks

(* A block of a file holds that file's data or none, never what another    *)
(* file has left in it (clrbuf in alloc).                                  *)
OwnDataOnly ==
    \A f \in FileSet : (\A p \in BProcs : bu[p].file # f) =>
        \A b \in ToSet(OfFile(f)) : blk[b].d \in {0, f} /\ blk[b].c = <<>>

(* A free list that differs from the one on disk is marked for sync: once  *)
(* nobody is in a call and s_fmod is 0, both hold the same blocks.         *)
SuperSaved ==
    ~sfmod /\ ~leak /\ (\A p \in BProcs : bu[p].pc = "user") => Chain(dsuper) = Chain(sfree)
=============================================================================
