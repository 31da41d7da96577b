--------------------------------- MODULE Dump --------------------------------
(* dump and restor: incremental dumps of a file system by levels, on tapes   *)
(* of limited size, and the restoration of a chain of them on a new device.  *)
(* The device that is restored is one of Fsutil's, block by block; of the    *)
(* one that is dumped the model has what the files contain.                  *)
EXTENDS Fsutil

CONSTANTS
    DuInos,     \* inodes of files besides the root (2) and one directory (3)
    DuShapes,   \* what a file may look like: 1 where it has a block, 0 in holes
    DuLevels,   \* levels of dumps
    DuNTREC,    \* records that are written together (NTREC)
    DuCap,      \* groups of records that a tape takes
    DuSteps,    \* bound: changes and dumps
    DuDevice    \* the device to restore on: see Fsutil!MkMain

VARIABLES
    duFs,       \* the file system: mode, blocks, date of the last change, directory
    duClock,    \* time
    duDates,    \* /etc/ddate: date of the last dump of each level, 0 if none
    duDone,     \* dumps that were made
    duDev,      \* the device that is being restored
    duTodo,     \* dumps that are still to be restored
    duBad,      \* the group that cannot be read: volume and number
    duLeft

duVars == <<duFs, duClock, duDates, duDone, duDev, duTodo, duBad, duLeft>>

DuAll == {2, 3} \cup DuInos
DuFirst == [i \in DuAll |-> [mode |-> IF i <= 3 THEN "dir" ELSE "none", data |-> <<>>, mt |-> 1, up |-> 2]]

(* Contents of blocks: entries of a directory, or what was written when.     *)
DuEntries(f, i) ==
    SelectSeq([k \in 1..Cardinality(DuAll) |-> <<k + 1, k + 1>>],
              LAMBDA e : e[2] # 2 /\ f[e[2]].mode # "none" /\ f[e[2]].up = i)

DuData(f, i) == IF f[i].mode = "dir" THEN <<<<<<0, i>>>> \o DuEntries(f, i)>> ELSE f[i].data
DuHole == <<>>

(* --------------------------------- dump ---------------------------------- *)
Bug_DuMark(f, ddate) == {i \in DuAll : f[i].mode # "none" /\ f[i].mt > ddate}

(* mark: the files that changed since the earlier dump.                      *)
DuMark(f, ddate) == {i \in DuAll : f[i].mode # "none" /\ f[i].mt >= ddate}

(* add for one directory: dsrch stops at the first entry that is dumped.     *)
DuAdd(f, m, i) ==
    LET in == {e[2] : e \in Range(DuEntries(f, i))}
        dadded == in \cap m.nod # {}
        nsubdir == in \cap m.dir # {}
    IN IF i \notin m.dir \/ i \in m.nod THEN m
       ELSE IF dadded THEN [m EXCEPT !.nod = @ \cup {i}, !.nadded = TRUE]
       ELSE IF nsubdir THEN m ELSE [m EXCEPT !.dir = @ \ {i}]

RECURSIVE DuClose(_, _)
(* pass II until nothing is added: directories on the way to a dumped file.  *)
DuClose(f, m) ==
    LET n == FoldLeft(LAMBDA a, i : DuAdd(f, a, i), [m EXCEPT !.nadded = FALSE], <<2, 3>>)
    IN IF n.nadded THEN DuClose(f, n) ELSE n

DuRec(t, ino, x, flags) == [t |-> t, ino |-> ino, x |-> x, flags |-> flags, b |-> {}]

(* taprec, flusht and otape: full groups go to the tape, a full tape is      *)
(* changed, and every tape begins with a record of its own.                  *)
DuOtape(w) ==
    [w EXCEPT !.vols = Append(@, <<>>), !.n = 0, !.ntape = TRUE, !.buf = <<DuRec("tape", 0, <<>>, <<>>)>>]

DuTaprec(w, r) ==
    LET v == [w EXCEPT !.vols[Len(w.vols)] = @ \o Append(w.buf, r), !.buf = <<>>, !.n = @ + 1]
    IN IF Len(w.buf) + 1 < DuNTREC THEN [w EXCEPT !.buf = Append(@, r)]
       ELSE IF v.n > DuCap THEN DuOtape(v) ELSE v

DuTaprecs(w, rs) == FoldLeft(DuTaprec, w, rs)

(* A map and its header, unless it is empty.                                 *)
DuBitmap(w, t, map) ==
    IF map = {} THEN w
    ELSE DuTaprecs(w, <<DuRec(t, 0, <<>>, <<>>), [DuRec("data", 0, <<>>, <<>>) EXCEPT !.b = map]>>)

(* dmpspc: a header of type t says which of blocks from..from + n - 1 follow.*)
DuSpan(i, t, data, from, n) ==
    LET here  == [k \in 1..n |-> IF from + k - 1 <= Len(data) THEN data[from + k - 1] ELSE DuHole]
        flags == [k \in 1..n |-> here[k] # DuHole]
    IN <<DuRec(t, i, <<>>, flags)>>
       \o [k \in DOMAIN SelectSeq(here, LAMBDA c : c # DuHole) |->
              DuRec("data", i, SelectSeq(here, LAMBDA c : c # DuHole)[k], <<>>)]

(* icat and indir: an indirect block that is not there leaves nothing on the *)
(* tape, not even its place.                                                 *)
DuIndir(i, data) ==
    LET from(k) == FsLADDR + k * FsNINDIR + 1
        there(k) == \E j \in from(k)..from(k + 1) - 1 : j <= Len(data) /\ data[j] # DuHole
    IN FlattenSeq([k \in 1..FsNINDIR + 1 |->
                      IF there(k - 1) THEN DuSpan(i, "addr", data, from(k - 1), FsNINDIR) ELSE <<>>])

DuFile(f, i) ==
    LET in == [DuSpan(i, "inode", DuData(f, i), 1, FsLADDR) EXCEPT ![1].x = <<f[i].mode, Len(DuData(f, i))>>]
    IN in \o DuIndir(i, DuData(f, i))

(* dump of one inode; the first one of a tape is preceded by the map of what *)
(* is still to come.                                                         *)
DuDump(f, a, i) ==
    LET w == IF a.w.ntape THEN DuBitmap([a.w EXCEPT !.ntape = FALSE], "bits", a.nod) ELSE a.w
    IN [w |-> DuTaprecs(w, DuFile(f, i)), nod |-> a.nod \ {i}]

DuSeq(S) == SelectSeq([k \in 1..Cardinality(DuAll) |-> k + 1], LAMBDA i : i \in S)

(* main: the tapes of a dump of f of what changed since ddate.               *)
DuMain(f, ddate) ==
    LET clr == {i \in DuAll : f[i].mode # "none"}
        m   == DuClose(f, [dir |-> {2, 3}, nod |-> DuMark(f, ddate), nadded |-> FALSE])
        w0  == DuOtape([vols |-> <<>>, n |-> 0, ntape |-> FALSE, buf |-> <<>>])
        a0  == [w |-> DuBitmap(w0, "clri", clr), nod |-> m.nod]
        a1  == FoldLeft(LAMBDA a, i : DuDump(f, a, i), a0, DuSeq(m.dir))
        a2  == FoldLeft(LAMBDA a, i : DuDump(f, a, i), a1, DuSeq(a1.nod))
    IN DuTaprecs(a2.w, [k \in 1..DuNTREC |-> DuRec("end", 0, <<>>, <<>>)]).vols

(* getitime: the last dump of a lower level.                                 *)
DuGetitime(dates, level) ==
    LET lower == {dates[l] : l \in {k \in DuLevels : k < level}} \cup {0}
    IN CHOOSE d \in lower : \A e \in lower : e <= d

(* -------------------------------- restor --------------------------------- *)
(* Tapes as readtape delivers them: the volume record of the next tape is    *)
(* read and compared when it is mounted.  A group in bad gives zeros.        *)
RsTape(vols, bad) ==
    FlattenSeq([v \in DOMAIN vols |->
        LET rs == [k \in DOMAIN vols[v] |-> IF <<v, (k - 1) \div DuNTREC>> = bad
                                           THEN DuRec("data", 0, DuHole, <<>>) ELSE vols[v][k]]
        IN IF v = 1 \/ rs = <<>> THEN rs ELSE Tail(rs)])

(* gethead until there is a header.                                          *)
RsHead(T, p) == CHOOSE q \in p..Len(T) : T[q].t # "data" /\ \A k \in p..q - 1 : T[k].t = "data"

RECURSIVE RsNext(_, _)
RsNext(T, p) == LET q == RsHead(T, p) IN IF T[q].t = "addr" THEN RsNext(T, q + 1) ELSE q

RECURSIVE RsGetfile(_, _, _, _, _, _)
(* getfile: the blocks that follow header h from place p on, of size blocks  *)
(* of which the next is bn; and the header at which it stops.                *)
RsGetfile(T, h, p, size, bn, out) ==
    LET flags == T[h].flags
        n     == IF size < Len(flags) THEN size ELSE Len(flags)
        r     == FoldLeft(LAMBDA a, k :
                              IF flags[k] THEN [p |-> a.p + 1, out |-> Append(a.out, <<bn + k - 1, T[a.p].x>>)]
                              ELSE a,
                          [p |-> p, out |-> out], FsIota(n))
    IN IF Len(flags) > 0 /\ size <= Len(flags) THEN [next |-> RsNext(T, r.p), out |-> r.out]
       ELSE IF T[r.p].t = "data" THEN [next |-> RsNext(T, r.p + 1), out |-> r.out]
       ELSE IF T[r.p].t # "addr" THEN [next |-> r.p, out |-> r.out]
       ELSE RsGetfile(T, r.p, r.p + 1, size - Len(flags), bn + Len(flags), r.out)

RsBalloc(s) ==
    LET t == MkAlloc(s)
    IN [t EXCEPT !.tfree = s.tfree, !.blk[t.got] = FsBlock("ind", 0, FsFill(<<>>, FsNINDIR))]

RECURSIVE RsWalk(_, _, _, _)
(* bmap below an indirect block nb: lev more levels, bn counted from its     *)
(* first block.                                                              *)
RsWalk(s, nb, bn, lev) ==
    LET span == IF lev = 1 THEN 1 ELSE FsNINDIR
        i    == bn \div span + 1
        nnb  == s.blk[nb].a[i]
        t    == RsBalloc(s)
        u    == IF nnb # 0 THEN s ELSE [t EXCEPT !.blk[nb].a[i] = t.got]
    IN IF lev = 0 THEN [s |-> s, nb |-> nb]
       ELSE RsWalk(u, u.blk[nb].a[i], bn % span, lev - 1)

(* bmap for block bn (from 0) of the inode with addresses addr.              *)
RsBmap(s, addr, bn) ==
    LET j == IF bn < FsLADDR THEN bn + 1
             ELSE IF bn < FsLADDR + FsNINDIR THEN FsLADDR + 1 ELSE FsLADDR + 2
        base == IF j = FsLADDR + 2 THEN FsLADDR + FsNINDIR ELSE FsLADDR
        t == RsBalloc(s)
        u == IF addr[j] # 0 /\ j > FsLADDR THEN [s |-> s, addr |-> addr]
             ELSE [s |-> t, addr |-> [addr EXCEPT ![j] = t.got]]
        w == RsWalk(u.s, u.addr[j], bn - base, IF j <= FsLADDR THEN 0 ELSE j - FsLADDR)
    IN [s |-> w.s, addr |-> u.addr, nb |-> w.nb]

(* rstrfile for every block of the file.                                     *)
RsWrite(s, out) ==
    FoldLeft(LAMBDA a, x : LET m == RsBmap(a.s, a.addr, x[1])
                           IN [s |-> [m.s EXCEPT !.blk[m.nb] = FsBlock("data", 0, x[2])], addr |-> m.addr],
             [s |-> s, addr |-> FsFill(<<>>, FsNADDR)], out)

(* itrunc frees from the last address to the first, children before parents. *)
RsItrunc(s, in) == [FoldLeft(MkBfree, s, Reverse(IcPass1(s, in))) EXCEPT !.tfree = s.tfree]

RsClear(s, map) ==
    FoldLeft(LAMBDA t, i : IF i \in map \/ t.inode[i].mode = "none" THEN t
                           ELSE [RsItrunc(t, t.inode[i]) EXCEPT !.inode[i] = FsNoInode],
             s, FsIota(Len(s.inode)))

RsInode(s, T, h) ==
    LET g == RsGetfile(T, h, h + 1, T[h].x[2], 0, <<>>)
        i == T[h].ino
        w == RsWrite([RsItrunc(s, s.inode[i]) EXCEPT !.inode[i] = FsNoInode], g.out)
    IN [next |-> g.next,
        s |-> [w.s EXCEPT !.inode[i] = [FsNoInode EXCEPT !.mode = T[h].x[1], !.size = T[h].x[2], !.addr = w.addr]]]

RECURSIVE RsRun(_, _, _)
(* restor r: header after header until the end of the dump.                  *)
RsRun(s, T, h) ==
    CASE T[h].t = "end"   -> s
      [] T[h].t = "clri"  -> RsRun(RsClear(s, T[h + 1].b), T, RsHead(T, h + 2))
      [] T[h].t = "bits"  -> RsRun(s, T, RsHead(T, h + 2))
      [] T[h].t = "inode" -> LET r == RsInode(s, T, h) IN RsRun(r.s, T, r.next)
      [] OTHER            -> RsRun(s, T, RsHead(T, h + 1))

Restor(s, vols, bad) == LET T == RsTape(vols, bad) IN RsRun(s, T, RsHead(T, 2))

RECURSIVE RsPass1(_, _, _)
(* restor x: the directories, which come first, with the headers and maps    *)
(* between them.                                                             *)
RsPass1(T, h, tab) ==
    IF T[h].t \in {"bits", "clri"} THEN RsPass1(T, RsHead(T, h + 2), tab)
    ELSE IF T[h].t # "inode" \/ T[h].x[1] # "dir" THEN tab
    ELSE LET g == RsGetfile(T, h, h + 1, T[h].x[2], 0, <<>>)
         IN RsPass1(T, g.next, Append(tab, [ino |-> T[h].ino, ent |-> FlattenSeq([k \in DOMAIN g.out |-> g.out[k][2]])]))

(* search: the inode of a name in directory inum, 0 if there is none.        *)
RsSearch(tab, inum, name) ==
    LET d == {k \in DOMAIN tab : tab[k].ino = inum}
        e == IF d = {} THEN {} ELSE {x \in Range(tab[CHOOSE k \in d : TRUE].ent) : x[1] = name}
    IN IF e = {} THEN 0 ELSE (CHOOSE x \in e : TRUE)[2]

RsPsearch(tab, path) == FoldLeft(LAMBDA i, name : IF i = 0 THEN 0 ELSE RsSearch(tab, i, name), 2, path)

(* ------------------------- the system's life ----------------------------- *)
DuNowhere == <<0, 0>>
DuFresh == MkMain(DuDevice[1], DuDevice[2], DuDevice[3], DuDevice[4], [dir |-> TRUE, blocks |-> 0, kids |-> <<>>])

DuInit ==
    /\ duFs = DuFirst /\ duClock = 1 /\ duDates = [l \in DuLevels |-> 0] /\ duDone = <<>>
    /\ duDev = <<>> /\ duTodo = <<>> /\ duBad = DuNowhere /\ duLeft = DuSteps

(* A file is created, written, moved to the other directory or removed; the  *)
(* clock may or may not have moved on.                                       *)
DuTouch(i, in, t) ==
    LET f == [duFs EXCEPT ![i] = [in EXCEPT !.mt = t]]
        dirs == IF duFs[i].mode = in.mode /\ duFs[i].up = in.up THEN {} ELSE {duFs[i].up, in.up}
    IN duFs' = [j \in DuAll |-> IF j \in dirs THEN [f[j] EXCEPT !.mt = t] ELSE f[j]]

DuChange ==
    /\ duLeft > 0 /\ duLeft' = duLeft - 1
    /\ \E i \in DuInos, t \in {duClock, duClock + 1} :
          /\ duClock' = t
          /\ \/ \E s \in DuShapes, up \in {2, 3} :
                   /\ duFs[i].mode = "reg" => up = duFs[i].up
                   /\ DuTouch(i, [duFs[i] EXCEPT !.mode = "reg", !.up = up,
                          !.data = [k \in DOMAIN s |-> IF s[k] = 1 THEN <<<<0, t>>>> ELSE DuHole]], t)
             \/ /\ duFs[i].mode = "reg"
                /\ \/ DuTouch(i, [duFs[i] EXCEPT !.mode = "none", !.data = <<>>], t)
                   \/ duFs' = [duFs EXCEPT ![2].mt = t, ![3].mt = t, ![i].up = 5 - @]
    /\ UNCHANGED <<duDates, duDone, duDev, duTodo, duBad>>

DuDumpCmd ==
    /\ duLeft > 0 /\ duLeft' = duLeft - 1
    /\ \E l \in DuLevels :
          LET ddate == DuGetitime(duDates, l) IN
          /\ duDone' = Append(duDone, [level |-> l, ddate |-> ddate, date |-> duClock,
                                       fs |-> duFs, vols |-> DuMain(duFs, ddate)])
          /\ duDates' = [duDates EXCEPT ![l] = duClock]
    /\ UNCHANGED <<duFs, duClock, duDev, duTodo, duBad>>

RECURSIVE DuChain(_)
(* The dumps that have to be restored before and with dump number k.         *)
DuChain(k) ==
    LET d == duDone[k]
        older == {j \in 1..k - 1 : duDone[j].level < d.level /\ duDone[j].date = d.ddate}
    IN IF d.ddate = 0 THEN <<k>>
       ELSE Append(DuChain(CHOOSE j \in older : \A i \in older : i <= j), k)

DuLast == duDone[Len(duDone)]
DuEnds(v, g) == \E r \in 1..DuNTREC : DuLast.vols[v][g * DuNTREC + r].t = "end"

(* A new device is made for the last dump and those that it builds on; when  *)
(* it is the only one, one group of records besides a tape's first and the   *)
(* last of the dump may have gone bad.                                       *)
DuStart ==
    /\ duDone # <<>> /\ duDev = <<>> /\ duLeft = 0 /\ DuLast.fs = duFs /\ DuLast.date = duClock
    /\ duDev' = <<DuFresh>> /\ duTodo' = DuChain(Len(duDone))
    /\ \/ duBad' = DuNowhere
       \/ /\ DuLast.ddate = 0
          /\ \E v \in DOMAIN DuLast.vols : \E g \in 1..Len(DuLast.vols[v]) \div DuNTREC - 1 :
                ~DuEnds(v, g) /\ duBad' = <<v, g>>
    /\ UNCHANGED <<duFs, duClock, duDates, duDone, duLeft>>

DuRestor ==
    /\ duTodo # <<>>
    /\ duDev' = <<Restor(duDev[1], duDone[Head(duTodo)].vols, duBad)>> /\ duTodo' = Tail(duTodo)
    /\ UNCHANGED <<duFs, duClock, duDates, duDone, duBad, duLeft>>

DuNext == (duDev = <<>> /\ (DuChange \/ DuDumpCmd)) \/ DuStart \/ DuRestor

(* ------------------------------ properties ------------------------------- *)
(* What a restored inode contains, block by block.                           *)
RsBlock(s, in, bn) ==
    LET get(b) == IF b = 0 THEN DuHole ELSE s.blk[b].a
        ind(b, k) == IF b = 0 THEN 0 ELSE s.blk[b].a[k + 1]
        rest == bn - FsLADDR - FsNINDIR
    IN IF bn < FsLADDR THEN get(in.addr[bn + 1])
       ELSE IF rest < 0 THEN get(ind(in.addr[FsLADDR + 1], bn - FsLADDR))
       ELSE get(ind(ind(in.addr[FsLADDR + 2], rest \div FsNINDIR), rest % FsNINDIR))

RsData(s, i) == [k \in 1..s.inode[i].size |-> RsBlock(s, s.inode[i], k - 1)]

(* An indirect block is missing before one that is there.                    *)
DuRagged(data) ==
    LET span(k) == FsLADDR + (k - 1) * FsNINDIR + 1..FsLADDR + k * FsNINDIR
        there(k) == \E j \in span(k) \cap DOMAIN data : data[j] # DuHole
    IN \E k, l \in 1..FsNINDIR + 1 : k < l /\ ~there(k) /\ there(l)

RsAgrees(s, f, i) == s.inode[i].mode = f[i].mode /\ (f[i].mode # "none" => DuRagged(DuData(f, i)) \/ RsData(s, i) = DuData(f, i))

(* A dump of any level, restored after the dumps it builds on, gives back    *)
(* the file system as it was: files changed in the second of an earlier dump *)
(* too, moved, removed and their inodes used again, over any change of tape; *)
(* on the new device every block is in one file or in the free list, and     *)
(* restor x finds every name.  A group of records that cannot be read costs  *)
(* only the files that have a record in it.  A file is not given back when   *)
(* an indirect block is missing before one that is there.                    *)
RestoreIsDump ==
    duDev # <<>> /\ duTodo = <<>> =>
    LET s    == duDev[1]
        f    == DuLast.fs
        hurt == IF duBad = DuNowhere THEN {}
                ELSE {DuLast.vols[duBad[1]][duBad[2] * DuNTREC + r].ino : r \in 1..DuNTREC}
        T    == RsTape(DuLast.vols, DuNowhere)
        tab  == RsPass1(T, RsHead(T, 2), <<>>)
    IN /\ \A i \in DuAll \ hurt : RsAgrees(s, f, i)
       /\ FsClean(s)
       /\ DuLast.ddate = 0 => \A i \in DuInos : f[i].mode # "none" =>
              RsPsearch(tab, IF f[i].up = 2 THEN <<i>> ELSE <<3, i>>) = i

==============================================================================
