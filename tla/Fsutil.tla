-------------------------------- MODULE Fsutil -------------------------------
(* The programs that make and check a file system on its device: mkfs, which *)
(* builds one from a prototype; icheck, which accounts for every block and   *)
(* rebuilds the free list; dcheck, which counts links; ncheck, which names   *)
(* inodes; clri, which clears one; df, which counts the free blocks.         *)
EXTENDS Integers, Sequences, SequencesExt, FiniteSets

CONSTANTS
    FsNICFREE,  \* free blocks in the super block and in a link of the list
    FsNINDIR,   \* addresses in an indirect block
    FsNDIRECT,  \* entries in a block of a directory
    FsLADDR,    \* direct addresses of an inode (LADDR, NADDR - 3)
    FsINOPB,    \* inodes in a block
    FsMAXFN,    \* largest interleave (MAXFN)
    FsHSIZE,    \* entries of ncheck's hash table (HSIZE)
    FsProtos,   \* prototypes: directories, and files of so many blocks
    FsSizes,    \* pairs of the device's size and the number of inodes asked for
    FsRatios    \* pairs m, n of the interleave as the user gave them

VARIABLES
    fs,         \* the device: see MkMain
    fsProto,    \* history: the prototype it was made from
    fsLost,     \* history: inodes cleared since
    fsStage     \* "none", "made", "hurt" or "repaired"

fsVars == <<fs, fsProto, fsLost, fsStage>>

(* Names are the positive numbers, and . and .. these.                       *)
FsDot == -1
FsDotdot == -2

FsIota(n) == [i \in 1..n |-> i]
FsNADDR == FsLADDR + 3
FsZeros(n) == [i \in 1..n |-> 0]
FsFill(s, n) == s \o FsZeros(n - Len(s))
FsFrom(s, i, n) == SubSeq(s \o FsZeros(i + n), i, i + n - 1)

(* What a block holds: a link of the free list, addresses, entries of a      *)
(* directory, or the data of a file.                                         *)
FsBlock(k, n, a) == [k |-> k, n |-> n, a |-> a]

(* -------------------------------- mkfs ----------------------------------- *)
(* A full list is written to the block that is being freed.                  *)
MkBfree(s, bno) ==
    LET t == IF s.nfree >= FsNICFREE
             THEN [s EXCEPT !.blk[bno] = FsBlock("link", s.nfree, s.free), !.nfree = 0] ELSE s
    IN [t EXCEPT !.tfree = @ + 1, !.free[t.nfree + 1] = bno, !.nfree = @ + 1]

(* exit(1) when the list gives 0; s.got is the block.                        *)
MkAlloc(s) ==
    LET bno == s.free[s.nfree]
        t   == [s EXCEPT !.tfree = @ - 1, !.nfree = @ - 1, !.got = bno]
    IN IF s.exit \/ bno = 0 THEN [s EXCEPT !.exit = TRUE]
       ELSE IF t.nfree > 0 THEN t
       ELSE [t EXCEPT !.nfree = s.blk[bno].n, !.free = s.blk[bno].a]

(* The order of the blocks in a cylinder of f_n: steps of f_m, the next one  *)
(* when that has been used.                                                  *)
MkAdr(f_m, f_n) ==
    FoldLeft(LAMBDA a, j :
                 LET free == {k \in 0..f_n - 1 : (a.i + k) % f_n \notin a.flg}
                     i == (a.i + (CHOOSE k \in free : \A l \in free : k <= l)) % f_n
                 IN [i |-> (i + f_m) % f_n, flg |-> a.flg \cup {i}, adr |-> Append(a.adr, i + 1)],
             [i |-> 0, flg |-> {}, adr |-> <<>>], FsIota(f_n)).adr

Bug_MkOrder(s) ==
    LET d0  == s.fsize - 1
        adr == MkAdr(s.m, s.n)
    IN SelectSeq(FlattenSeq([k \in 1..d0 \div s.n |-> [i \in 1..s.n |-> d0 - (k - 1) * s.n - adr[i]]]),
                 LAMBDA f : f < s.fsize /\ f >= s.isize)

(* The blocks that bflist and makefree offer, in their order, from the first *)
(* multiple of the cylinder not below the last block down.                   *)
MkOrder(s) ==
    LET d0  == CHOOSE d \in s.fsize - 1..s.fsize + s.n : d % s.n = 0 /\ \A e \in s.fsize - 1..d - 1 : e % s.n # 0
        adr == MkAdr(s.m, s.n)
    IN SelectSeq(FlattenSeq([k \in 1..d0 \div s.n |-> [i \in 1..s.n |-> d0 - (k - 1) * s.n - adr[i]]]),
                 LAMBDA f : f < s.fsize /\ f >= s.isize)

FsNoInode == [mode |-> "none", nlink |-> 0, size |-> 0, addr |-> FsFill(<<>>, FsNADDR)]

(* iput with the blocks ib of the file: the indirect block is taken even when*)
(* the direct addresses are just enough.                                     *)
MkIndirect(s, k, ib) ==
    LET t == MkAlloc(s)
    IN IF t.exit THEN t
       ELSE [t EXCEPT !.blk[t.got] = FsBlock("ind", 0, FsFrom(ib, FsLADDR + k * FsNINDIR + 1, FsNINDIR))]

MkDouble(s, ib) ==
    LET t == MkAlloc(s)
        n == {i \in 1..FsNINDIR : Len(ib) > FsLADDR + i * FsNINDIR}
        u == FoldLeft(LAMBDA a, i : LET v == MkIndirect(a.s, i, ib)
                                    IN [s |-> v, dbl |-> Append(a.dbl, v.got)],
                      [s |-> t, dbl |-> <<>>], FsIota(Cardinality(n)))
    IN IF u.s.exit THEN u.s
       ELSE [u.s EXCEPT !.blk[t.got] = FsBlock("ind", 0, FsFill(u.dbl, FsNINDIR)), !.got = t.got]

MkIput(s, ino, in, ib) ==
    LET s0 == [s EXCEPT !.tinode = @ - 1]
        s1 == IF Len(ib) >= FsLADDR THEN MkIndirect(s0, 0, ib) ELSE s0
        s2 == IF Len(ib) > FsLADDR + FsNINDIR THEN MkDouble(s1, ib) ELSE s1
        direct == FsFrom(ib, 1, FsLADDR)
        single == IF Len(ib) >= FsLADDR THEN s1.got ELSE 0
        double == IF Len(ib) > FsLADDR + FsNINDIR THEN s2.got ELSE 0
    IN IF ino \notin DOMAIN s.inode THEN [s0 EXCEPT !.error = TRUE]
       ELSE IF s2.exit THEN s2
       ELSE [s2 EXCEPT !.inode[ino] = [in EXCEPT !.addr = direct \o <<single, double, 0>>]]

(* newblk: one more block of the file that is being made.                    *)
MkNewblk(r, db) ==
    LET t == MkAlloc(r.s)
    IN [r EXCEPT !.s = IF t.exit THEN t ELSE [t EXCEPT !.blk[t.got] = db], !.db = <<>>,
                 !.ib = Append(@, t.got)]

MkEntry(r, inum, name) ==
    LET db == Append(r.db, [ino |-> inum, name |-> name])
    IN IF Len(db) >= FsNDIRECT THEN MkNewblk(r, FsBlock("dir", 0, db)) ELSE [r EXCEPT !.db = db]

MkLast(r) == IF r.db # <<>> THEN MkNewblk(r, FsBlock("dir", 0, r.db)) ELSE r

RECURSIVE MkCfile(_, _, _)
(* cfile of prototype p under directory par (0 for the root).  A directory   *)
(* is written when its children have been; each that is one adds a link.     *)
MkCfile(s, p, par) ==
    LET ino  == s.ino + 1
        up   == IF par = 0 THEN ino ELSE par
        r0   == [s |-> [s EXCEPT !.ino = ino], db |-> <<>>, ib |-> <<>>]
        file == FoldLeft(LAMBDA r, i : MkNewblk(r, FsBlock("data", 0, <<>>)), r0, FsIota(p.blocks))
        dots == MkEntry(MkEntry(r0, ino, FsDot), up, FsDotdot)
        kids == FoldLeft(LAMBDA r, k :
                             LET e == MkEntry(r, r.s.ino + 1, k)
                             IN [e EXCEPT !.s = MkCfile(e.s, p.kids[k], ino)],
                         dots, FsIota(Len(p.kids)))
        r    == IF p.dir THEN MkLast(kids) ELSE file
        subs == Cardinality({k \in DOMAIN p.kids : p.kids[k].dir})
        in   == [FsNoInode EXCEPT !.mode = IF p.dir THEN "dir" ELSE "reg",
                                  !.size = IF p.dir THEN 2 + Len(p.kids) ELSE p.blocks,
                                  !.nlink = IF p.dir THEN 2 + subs ELSE 1]
    IN IF s.exit \/ r.s.exit THEN [s EXCEPT !.exit = TRUE] ELSE MkIput(r.s, ino, in, r.ib)

(* The counts and the interleave after main's tests, and the list of free    *)
(* blocks with inode 1, the file of bad blocks, which has none.              *)
MkMain(fsize, n, f_m, f_n, proto) ==
    LET isize == n \div FsINOPB + 3
        N == IF f_n <= 0 \/ f_n >= FsMAXFN THEN FsMAXFN ELSE f_n
        s0 == [fsize |-> fsize, isize |-> isize, m |-> IF f_m <= 0 \/ f_m > N THEN 3 ELSE f_m, n |-> N,
               nfree |-> 0, free |-> FsFill(<<>>, FsNICFREE), tfree |-> 0, tinode |-> (isize - 2) * FsINOPB,
               inode |-> [i \in 1..(isize - 2) * FsINOPB |-> FsNoInode],
               blk |-> [b \in 1..fsize - 1 |-> FsBlock("", 0, <<>>)], ino |-> 1, got |-> 0, exit |-> FALSE, error |-> FALSE]
        s1 == FoldLeft(MkBfree, MkBfree(s0, 0), MkOrder(s0))
        s2 == MkIput(s1, 1, [FsNoInode EXCEPT !.mode = "reg"], <<>>)
    IN IF isize >= fsize THEN [s0 EXCEPT !.exit = TRUE] ELSE MkCfile(s2, proto, 0)

(* ------------------------------- icheck ---------------------------------- *)
IcIn(s, b) == b >= s.isize /\ b < s.fsize
IcRead(s, b) == IF IcIn(s, b) /\ s.blk[b].k = "ind" THEN SelectSeq(s.blk[b].a, LAMBDA x : x # 0) ELSE <<>>

RECURSIVE IcTree(_, _, _)
(* What a chain of lev indirections claims; a bad address is not followed.   *)
IcTree(s, b, lev) ==
    IF b = 0 THEN <<>>
    ELSE <<b>> \o (IF lev = 0 \/ ~IcIn(s, b) THEN <<>>
                   ELSE FlattenSeq([i \in DOMAIN IcRead(s, b) |-> IcTree(s, IcRead(s, b)[i], lev - 1)]))

(* pass1: the claims of an inode, in the order in which they are made.       *)
IcPass1(s, in) ==
    IF in.mode \notin {"dir", "reg"} THEN <<>>
    ELSE FlattenSeq([i \in 1..FsNADDR |-> IcTree(s, in.addr[i], IF i <= FsLADDR THEN 0 ELSE i - FsLADDR)])

IcFiles(s) == FlattenSeq([i \in DOMAIN s.inode |-> IcPass1(s, s.inode[i])])

(* A block read as a link of the free list: whatever is not one gives zeros. *)
IcLink(s, b) ==
    IF IcIn(s, b) /\ s.blk[b].k = "link" THEN s.blk[b] ELSE FsBlock("", 0, FsFill(<<>>, FsNICFREE))

RECURSIVE IcFree(_, _, _, _)
(* The walk along the free list: it ends at 0, at an absurd count, after     *)
(* fsize blocks, or at a block that chk finds bad.                           *)
IcFree(s, n, free, out) ==
    LET b == free[n] IN
    IF Len(out) >= s.fsize \/ n <= 0 \/ n > FsNICFREE THEN out
    ELSE IF b = 0 THEN out
    ELSE IF ~IcIn(s, b) THEN Append(out, b)
    ELSE LET l == IcLink(s, b)
             m == IF n - 1 > 0 THEN n - 1 ELSE IF l.n < 0 \/ l.n > FsNICFREE THEN 0 ELSE l.n
         IN IF n = 1 /\ (l.n < 0 \/ l.n > FsNICFREE) THEN out
            ELSE IcFree(s, m, IF n > 1 THEN free ELSE l.a, Append(out, b))

Icheck(s) ==
    LET claims == IcFiles(s) \o IcFree(s, s.nfree, s.free, <<>>)
    IN [bad |-> {b \in Range(claims) : ~IcIn(s, b)},
        dup |-> {claims[i] : i \in {j \in DOMAIN claims : \E k \in 1..j - 1 : claims[k] = claims[j]}},
        missing |-> {b \in s.isize..s.fsize - 1 : b \notin Range(claims)}]

(* -s: every block that no file claimed goes into a new free list.           *)
IcMakefree(s) ==
    LET n == IF s.n <= 0 \/ s.n > FsMAXFN THEN FsMAXFN ELSE s.n
        t == [s EXCEPT !.n = n, !.m = IF s.m <= 0 \/ s.m > n THEN 3 ELSE s.m,
                       !.nfree = 0, !.tfree = 0, !.tinode = 0]
        used == Range(IcFiles(s))
    IN FoldLeft(MkBfree, MkBfree(t, 0), SelectSeq(MkOrder(t), LAMBDA f : f \notin used))

(* df: the blocks that its own walk counts.                                  *)
Df(s) == Len(SelectSeq(IcFree(s, s.nfree, s.free, <<>>), LAMBDA b : IcIn(s, b)))

(* ---------------------------- dcheck, ncheck ----------------------------- *)
FsBmap(s, in, i) ==
    IF i <= FsLADDR THEN in.addr[i]
    ELSE IF i - FsLADDR > FsNINDIR THEN 0
    ELSE FsFill(IcRead(s, in.addr[FsLADDR + 1]), FsNINDIR)[i - FsLADDR]

RECURSIVE FsEntries(_, _, _, _)
(* The entries of a directory up to its size or to a hole.                   *)
FsEntries(s, in, i, out) ==
    LET d == FsBmap(s, in, i) IN
    IF Len(out) >= in.size \/ d = 0 THEN IF in.size < Len(out) THEN SubSeq(out, 1, in.size) ELSE out
    ELSE FsEntries(s, in, i + 1, out \o s.blk[d].a)

FsDir(s, ino) == IF s.inode[ino].mode = "dir" THEN FsEntries(s, s.inode[ino], 1, <<>>) ELSE <<>>

(* The inodes that pass2 prints: entries and link count disagree.            *)
DcheckSays(s) ==
    LET all == FlattenSeq([i \in DOMAIN s.inode |-> FsDir(s, i)])
        ecount(i) == Cardinality({k \in DOMAIN all : all[k].ino = i /\ i > 1})
    IN {i \in DOMAIN s.inode :
            /\ ~(s.inode[i].mode = "none" /\ ecount(i) = 0)
            /\ ~(s.inode[i].nlink = ecount(i) /\ s.inode[i].nlink # 0)
            /\ ~(i < 2 /\ s.inode[i].nlink = 0 /\ ecount(i) = 0)}

NcDot(d) == d.name \in {FsDot, FsDotdot}

(* lookup in the open hash table: the entry of i, or 0.  A full table ends   *)
(* ncheck before a search could run round for ever.                          *)
NcEnter(tab, i) ==
    LET probe(k) == (i + k) % FsHSIZE
        k == CHOOSE k \in 0..FsHSIZE - 1 : tab[probe(k)].ino \in {0, i}
                 /\ \A l \in 0..k - 1 : tab[probe(l)].ino \notin {0, i}
    IN probe(k)

NcLookup(tab, i) == IF tab[NcEnter(tab, i)].ino = i THEN NcEnter(tab, i) ELSE -1

NcTable(s) ==
    LET dirs == SelectSeq(FsIota(Len(s.inode)), LAMBDA i : s.inode[i].mode = "dir")
        t0 == FoldLeft(LAMBDA t, i : [t EXCEPT ![NcEnter(t, i)].ino = i],
                       [h \in 0..FsHSIZE - 1 |-> [ino |-> 0, pino |-> 0, name |-> 0]], dirs)
    IN FoldLeft(LAMBDA t, i :
                    FoldLeft(LAMBDA u, d : IF NcLookup(u, d.ino) < 0 \/ NcDot(d) THEN u
                                           ELSE [u EXCEPT ![NcLookup(u, d.ino)].pino = i,
                                                          ![NcLookup(u, d.ino)].name = d.name],
                             t, FsDir(s, i)),
                t0, dirs)

RECURSIVE NcPname(_, _, _)
NcPname(tab, i, lev) ==
    IF i = 2 THEN <<>>
    ELSE IF NcLookup(tab, i) < 0 THEN <<-3>>
    ELSE IF lev > 10 THEN <<-4>>
    ELSE LET h == tab[NcLookup(tab, i)] IN Append(NcPname(tab, h.pino, lev + 1), h.name)

(* pass3: inode and path name of every entry but . and .. .                  *)
NcheckSays(s) ==
    LET tab == NcTable(s)
    IN UNION {{[ino |-> d.ino, path |-> Append(NcPname(tab, i, 0), d.name)] :
                   d \in {e \in Range(FsDir(s, i)) : e.ino # 0 /\ ~NcDot(e)}} : i \in DOMAIN s.inode}

(* ------------------------------ the device ------------------------------- *)
FsInit == fs = <<>> /\ fsProto = <<>> /\ fsLost = {} /\ fsStage = "none"

FsMkfs ==
    /\ fsStage = "none"
    /\ \E p \in FsProtos, z \in FsSizes, r \in FsRatios :
          fs' = MkMain(z[1], z[2], r[1], r[2], p) /\ fsProto' = p
    /\ fsStage' = "made"
    /\ UNCHANGED fsLost

(* The free list is damaged: a wrong entry, a wrong count, an overwritten    *)
(* link.                                                                     *)
FsHurt ==
    /\ fsStage = "made" /\ ~fs.exit /\ ~fs.error
    /\ \/ \E i \in 1..FsNICFREE, b \in 0..fs.fsize + 1 : fs' = [fs EXCEPT !.free[i] = b]
       \/ \E n \in -1..FsNICFREE + 1 : fs' = [fs EXCEPT !.nfree = n]
       \/ \E b \in {c \in fs.isize..fs.fsize - 1 : IcLink(fs, c).n > 0}, x \in {fs.isize - 1, fs.isize, fs.fsize} :
             fs' = [fs EXCEPT !.blk[b].a[1] = x]
    /\ fsStage' = "hurt"
    /\ UNCHANGED <<fsProto, fsLost>>

(* clri: the inode is zeroed, blocks and entries are left.                   *)
FsClri ==
    /\ fsStage \in {"made", "hurt"} /\ ~fs.exit /\ ~fs.error /\ fsLost = {}
    /\ \E i \in 3..fs.ino :
          /\ fs' = [fs EXCEPT !.inode[i] = FsNoInode]
          /\ fsLost' = fsLost \cup {i}
    /\ UNCHANGED <<fsProto, fsStage>>

FsIcheckS ==
    /\ fsStage \in {"made", "hurt"} /\ ~fs.exit /\ ~fs.error
    /\ fs' = IcMakefree(fs)
    /\ fsStage' = "repaired"
    /\ UNCHANGED <<fsProto, fsLost>>

FsNext == FsMkfs \/ FsHurt \/ FsClri \/ FsIcheckS

(* ------------------------------ properties ------------------------------- *)
RECURSIVE FsNames(_, _, _)
(* The names of prototype p whose inode is n: the number after it and the    *)
(* inode and path of everything below.                                       *)
FsNames(p, n, path) ==
    FoldLeft(LAMBDA a, k :
                 LET sub == FsNames(p.kids[k], a.next, Append(path, k))
                 IN [next |-> sub.next, names |-> a.names \cup sub.names
                        \cup {[ino |-> a.next, path |-> Append(path, k)]}],
             [next |-> n + 1, names |-> {}], FsIota(Len(p.kids)))

FsClean(s) ==
    /\ Icheck(s).bad = {} /\ Icheck(s).dup = {}
    /\ Icheck(s).missing = IF (s.fsize - 1) % s.n = 0 THEN {s.fsize - 1} ELSE {}

(* What mkfs makes, the checkers find in order: every block is in one file   *)
(* or once in the free list, links agree with entries, every name is the     *)
(* prototype's; an inode that was cleared is reported by dcheck unless its   *)
(* entries are too, and its blocks by icheck; and icheck -s makes good any   *)
(* damage to the free list, for every interleave.  The last block of the     *)
(* device is the exception: when its number is a multiple of the cylinder's  *)
(* size neither program ever frees it.                                       *)
FileSystemsAgree ==
    fsStage # "none" /\ ~fs.exit /\ ~fs.error =>
    /\ fsStage = "made" /\ fsLost = {} =>
           /\ FsClean(fs) /\ DcheckSays(fs) = {}
           /\ NcheckSays(fs) = FsNames(fsProto, 2, <<>>).names
           /\ fs.tfree = Df(fs) + 1
           /\ fs.tinode = Cardinality({i \in DOMAIN fs.inode : fs.inode[i].mode = "none"})
    /\ fsStage = "made" => \A i \in fsLost : i \in DcheckSays(fs) /\ Icheck(fs).dup = {}
    /\ fsStage = "repaired" => FsClean(fs) /\ fs.tfree = Df(fs) + 1

==============================================================================
