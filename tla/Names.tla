--------------------------------- MODULE Names --------------------------------
(* The programs that name files: mv, rm, cp, ln, mkdir and rmdir, each as the*)
(* sequence of system calls it makes on a tree of directories.  Any one call *)
(* may fail, and a signal may end the program between two of them.           *)
EXTENDS Integers, Sequences, SequencesExt, FiniteSets, TLC

CONSTANTS
    NaTrees,    \* trees to start from: [name |-> [ino, mount]], see NaStart
    NaMAXN      \* longest path that mv takes, in components (MAXN)

(* A path is a sequence of names and of slashes.  An inode is known by ten   *)
(* times its device plus its number.                                         *)
NaSl == "/"
NaROOTINO == 2
NaId(dev, num) == 10 * dev + num
NaDev(i) == i \div 10
NaNum(i) == i % 10
NaRoot == NaId(1, NaROOTINO)

NaLookup(s, name) == {k \in DOMAIN s : s[k].name = name /\ s[k].ino # 0}
NaFirst(S) == CHOOSE k \in S : \A l \in S : k <= l

(* ----------------------------- system calls ------------------------------ *)
(* W is the tree (ino, mount) and the process: its users and group, current  *)
(* directory, calls so far, which of them fails and before which a signal    *)
(* comes, whether it ignores signals; r and st are what the last call gave.  *)
NaStart(t, job) ==
    [ino |-> t.ino, mount |-> t.mount, uid |-> job.uid, ruid |-> job.uid, cdir |-> NaRoot, n |-> 0,
     fail |-> job.fail, kill |-> job.kill, ign |-> FALSE, dead |-> FALSE, r |-> 0, st |-> 0,
     tty |-> job.tty, yes |-> job.yes, errors |-> 0]

NaOk(W) == W.r >= 0
NaErr(W) == [W EXCEPT !.r = -1]

(* Entry to a call, at which a signal is taken.  A call that changes the     *)
(* tree or copies data may fail besides: no space, no inode, no process.     *)
NaAsk(W) ==
    LET dead == W.dead \/ (W.kill = W.n + 1 /\ ~W.ign)
    IN [W EXCEPT !.n = @ + 1, !.dead = dead, !.r = IF dead THEN -1 ELSE 0]
NaEnter(W) == IF W.fail = W.n + 1 THEN NaErr(NaAsk(W)) ELSE NaAsk(W)

NaSuser(W) == W.uid = 0

(* access: the class of bits that the user's and the group's numbers select. *)
NaMay(W, i, m) ==
    LET f == W.ino[i]
        class == IF W.uid = f.uid THEN 1 ELSE IF W.uid \in f.group THEN 2 ELSE 3
    IN W.uid = 0 \/ m \in f.mode[class]

(* iget crosses from a directory that is mounted on to the root of what is.  *)
NaIget(W, i) ==
    LET on == {d \in DOMAIN W.mount : W.mount[d] = i}
    IN IF on = {} THEN i ELSE NaId(CHOOSE d \in on : TRUE, NaROOTINO)

NaMissing == [err |-> TRUE, ip |-> 0, dp |-> 0, slot |-> 0]

RECURSIVE NaWalk(_, _, _, _)
(* namei from directory dp with components c; flag is 0 to find, 1 to create *)
(* and 2 to delete.  ip is 0 when a name to create is free in dp.            *)
NaWalk(W, dp, c, flag) ==
    IF c = <<>> THEN [err |-> FALSE, ip |-> dp, dp |-> 0, slot |-> 0]
    ELSE IF ~W.ino[dp].dir \/ ~NaMay(W, dp, "x") THEN NaMissing
    ELSE LET f    == NaLookup(W.ino[dp].ents, Head(c))
             last == Len(c) = 1
             slot == NaFirst(f)
             num  == W.ino[dp].ents[slot].ino
             dev  == NaDev(dp)
         IN IF f = {}
            THEN IF flag = 1 /\ last /\ NaMay(W, dp, "w")
                 THEN [err |-> FALSE, ip |-> 0, dp |-> dp, slot |-> 0] ELSE NaMissing
            ELSE IF flag = 2 /\ last
            THEN IF NaMay(W, dp, "w") THEN [err |-> FALSE, ip |-> 0, dp |-> dp, slot |-> slot] ELSE NaMissing
            ELSE IF num = NaROOTINO /\ NaNum(dp) = NaROOTINO /\ Head(c) = ".." /\ dev \in DOMAIN W.mount
            THEN NaWalk(W, W.mount[dev], c, flag)
            ELSE NaWalk(W, NaIget(W, NaId(dev, num)), Tail(c), flag)

Namei(W, path, flag) ==
    LET c == SelectSeq(path, LAMBDA x : x # NaSl)
        abs == path # <<>> /\ Head(path) = NaSl
    IN IF c = <<>> /\ flag # 0 THEN NaMissing ELSE NaWalk(W, IF abs THEN NaRoot ELSE W.cdir, c, flag)

NaBase(path) == Last(SelectSeq(path, LAMBDA x : x # NaSl))

(* wdir: the first free slot that namei saw, or the end of the directory.    *)
NaWdir(W, dp, name, num) ==
    LET e    == W.ino[dp].ents
        free == {k \in DOMAIN e : e[k].ino = 0}
        ent  == [name |-> name, ino |-> num]
    IN [W EXCEPT !.ino[dp].ents = IF free = {} THEN Append(e, ent) ELSE [e EXCEPT ![NaFirst(free)] = ent]]

NaStat(W, path) ==
    LET V == NaAsk(W)
        x == Namei(V, path, 0)
    IN IF ~NaOk(V) \/ x.err THEN NaErr(V) ELSE [V EXCEPT !.st = x.ip]

(* access(path, m) asks for the real user; "e" asks for the name alone.      *)
NaAccess(W, path, m) ==
    LET V == NaAsk(W)
        U == [V EXCEPT !.uid = W.ruid]
        x == Namei(U, path, 0)
    IN IF ~NaOk(V) \/ x.err THEN NaErr(V)
       ELSE IF m # "e" /\ ~NaMay(U, x.ip, m) THEN NaErr(V) ELSE V

NaOpen(W, path) ==
    LET V == NaAsk(W)
        x == Namei(V, path, 0)
    IN IF ~NaOk(V) \/ x.err THEN NaErr(V)
       ELSE IF ~NaMay(V, x.ip, "r") THEN NaErr(V) ELSE [V EXCEPT !.st = x.ip]

NaLink(W, from, to) ==
    LET V == NaEnter(W)
        x == Namei(V, from, 0)
        y == Namei(V, to, 1)
    IN IF ~NaOk(V) \/ x.err THEN NaErr(V)
       ELSE IF V.ino[x.ip].dir /\ ~NaSuser(V) THEN NaErr(V)
       ELSE IF y.err \/ y.ip # 0 \/ NaDev(y.dp) # NaDev(x.ip) THEN NaErr(V)
       ELSE [NaWdir(V, y.dp, NaBase(to), NaNum(x.ip)) EXCEPT !.ino[x.ip].nlink = @ + 1]

(* The slot is cleared; the entry of the mounted root is not followed.       *)
NaUnlink(W, path) ==
    LET V  == NaEnter(W)
        x  == Namei(V, path, 2)
        i  == NaId(NaDev(x.dp), V.ino[x.dp].ents[x.slot].ino)
        ip == IF i = x.dp THEN i ELSE NaIget(V, i)
    IN IF ~NaOk(V) \/ x.err THEN NaErr(V)
       ELSE IF (V.ino[ip].dir /\ ~NaSuser(V)) \/ NaDev(ip) # NaDev(x.dp) THEN NaErr(V)
       ELSE [V EXCEPT !.ino[x.dp].ents[x.slot].ino = 0, !.ino[ip].nlink = @ - 1]

(* maknode: a new inode of the directory's device, under the last name.      *)
NaMaknode(W, dp, path, dir, mode) ==
    LET num == NaFirst({k \in 3..9 : NaId(NaDev(dp), k) \notin DOMAIN W.ino})
        ip  == NaId(NaDev(dp), num)
        new == [dir |-> dir, uid |-> W.uid, group |-> {}, mode |-> mode, nlink |-> 1, ents |-> <<>>, data |-> <<>>]
    IN [NaWdir([W EXCEPT !.ino = (ip :> new) @@ @], dp, NaBase(path), num) EXCEPT !.st = ip]

NaMknod(W, path) ==
    LET V == NaEnter(W)
        x == Namei(V, path, 1)
        all == {"r", "w", "x"}
    IN IF ~NaOk(V) \/ ~NaSuser(V) \/ x.err \/ x.ip # 0 THEN NaErr(V)
       ELSE NaMaknode(V, x.dp, path, TRUE, <<all, all, all>>)

(* creat keeps an inode that exists, and truncates it.                       *)
NaCreat(W, path, mode) ==
    LET V == NaEnter(W)
        x == Namei(V, path, 1)
    IN IF ~NaOk(V) \/ x.err THEN NaErr(V)
       ELSE IF x.ip = 0 THEN NaMaknode(V, x.dp, path, FALSE, mode)
       ELSE IF ~NaMay(V, x.ip, "w") \/ V.ino[x.ip].dir THEN NaErr(V)
       ELSE [V EXCEPT !.st = x.ip, !.ino[x.ip].data = <<>>]

NaWrite(W, ip, blk) ==
    LET V == NaEnter(W) IN IF NaOk(V) THEN [V EXCEPT !.ino[ip].data = Append(@, blk)] ELSE V

NaChown(W, path, uid) ==
    LET V == NaEnter(W)
        x == Namei(V, path, 0)
    IN IF ~NaOk(V) \/ x.err \/ ~NaSuser(V) THEN NaErr(V) ELSE [V EXCEPT !.ino[x.ip].uid = uid]

(* --------------------------------- cp ------------------------------------ *)
NaFails(W) == [W EXCEPT !.errors = @ + 1]
NaDname(p) ==
    LET s == {k \in DOMAIN p : p[k] = NaSl /\ k < Len(p)}
    IN IF s = {} THEN p ELSE SubSeq(p, (CHOOSE k \in s : \A l \in s : l <= k) + 1, Len(p))
NaUnder(dir, p) == dir \o <<NaSl>> \o p
NaLastName(p) ==
    LET s == {k \in DOMAIN p : p[k] = NaSl}
    IN IF s = {} THEN p ELSE SubSeq(p, (CHOOSE k \in s : \A l \in s : l <= k) + 1, Len(p))

RECURSIVE CpBlocks(_, _, _, _)
(* The loop of reads and writes: an error in either leaves what was written. *)
CpBlocks(W, from, to, k) ==
    LET a == NaEnter(W)
        b == NaWrite(a, to, W.ino[from].data[k])
    IN IF ~NaOk(a) THEN NaFails(a)
       ELSE IF k > Len(W.ino[from].data) THEN a
       ELSE IF ~NaOk(b) THEN NaFails(b) ELSE CpBlocks(b, from, to, k + 1)

CpCopy(W, from, to) ==
    LET a  == NaOpen(W, from)
        b  == NaStat(a, to)
        t  == IF NaOk(b) /\ b.ino[b.st].dir THEN NaUnder(to, NaLastName(from)) ELSE to
        c  == NaStat(b, t)
        d  == NaCreat(c, t, c.ino[a.st].mode)
    IN IF ~NaOk(a) THEN NaFails(a)
       ELSE IF NaOk(c) /\ a.st = c.st THEN NaFails(c)
       ELSE IF ~NaOk(d) THEN NaFails(d) ELSE CpBlocks(d, a.st, d.st, 1)

(* Several files need a directory as the last argument.                      *)
NaEach(Op(_, _, _), W, args) ==
    FoldLeft(LAMBDA V, from : Op(V, from, Last(args)), W, Front(args))

CpMain(W, args) ==
    LET a == NaStat(W, Last(args))
    IN IF Len(args) < 2 THEN NaFails(W)
       ELSE IF Len(args) = 2 THEN CpCopy(W, args[1], args[2])
       ELSE IF ~NaOk(a) \/ ~a.ino[a.st].dir THEN NaFails(a) ELSE NaEach(CpCopy, a, args)

(* --------------------------------- ln ------------------------------------ *)
LnMain(W, f, args) ==
    LET np == NaLastName(args[1])
        to == IF Len(args) = 1 THEN np ELSE args[2]
        a  == NaStat(W, args[1])
        b  == NaStat(a, to)
        c  == NaLink(b, args[1], IF NaOk(b) /\ b.ino[b.st].dir THEN NaUnder(to, np) ELSE to)
    IN IF Len(args) \notin 1..2 THEN NaFails(W)
       ELSE IF ~NaOk(a) \/ (~f /\ a.ino[a.st].dir) THEN NaFails(a)
       ELSE IF ~NaOk(c) THEN NaFails(c) ELSE c

(* -------------------------------- mkdir ---------------------------------- *)
(* pname: what comes before the last slash, and a dot.                       *)
MkdirParent(d) ==
    LET s == {k \in DOMAIN d : d[k] = NaSl}
    IN (IF s = {} THEN <<>> ELSE SubSeq(d, 1, CHOOSE k \in s : \A l \in s : l <= k)) \o <<".">>

Bug_MkdirOne(W, d) ==
    LET pname == MkdirParent(d)
        a == NaAccess(W, pname, "w")
        b == NaMknod(a, d)
        c == NaLink(NaChown(b, d, W.ruid), d, NaUnder(d, <<".">>))
        e == NaLink(c, pname, NaUnder(d, <<"..">>))
    IN IF ~NaOk(a) THEN NaFails(a)
       ELSE IF ~NaOk(b) THEN NaFails(b)
       ELSE IF ~NaOk(c) THEN NaFails(NaUnlink(c, d))
       ELSE IF ~NaOk(e) THEN NaFails(NaUnlink(e, NaUnder(d, <<".">>)))
       ELSE e

(* A directory without its two links is taken away again.                    *)
MkdirOne(W, d) ==
    LET pname == MkdirParent(d)
        a == NaAccess(W, pname, "w")
        b == NaMknod(a, d)
        c == NaLink(NaChown(b, d, W.ruid), d, NaUnder(d, <<".">>))
        e == NaLink(c, pname, NaUnder(d, <<"..">>))
    IN IF ~NaOk(a) THEN NaFails(a)
       ELSE IF ~NaOk(b) THEN NaFails(b)
       ELSE IF ~NaOk(c) THEN NaFails(NaUnlink(c, d))
       ELSE IF ~NaOk(e) THEN NaFails(NaUnlink(NaUnlink(e, NaUnder(d, <<".">>)), d))
       ELSE e

(* The signals of the terminal, and SIGTERM, are ignored.                    *)
MkdirMain(W, args) ==
    IF args = <<>> THEN NaFails(W) ELSE FoldLeft(MkdirOne, [W EXCEPT !.uid = 0, !.ign = TRUE], args)

(* -------------------------------- rmdir ---------------------------------- *)
(* A missing . means that nothing but the name is left, a missing .. that an *)
(* earlier rmdir got that far: each unlink then fails without harm.          *)
RmdirUnl(W, d) ==
    LET a == NaUnlink(W, NaUnder(d, <<".">>))
        b == NaUnlink(a, d)
    IN IF NaOk(b) THEN b ELSE NaFails(b)

RmdirOne(W, d) ==
    LET a   == NaStat(W, d)
        b   == NaStat(a, <<>>)
        c   == NaOpen(b, d)
        dots == {".", ".."}
        e   == NaAccess(c, NaUnder(d, <<".">>), "e")
        f   == NaAccess(e, NaUnder(d, <<"..">>), "e")
        g   == NaAccess(f, NaUnder(d, <<"..">>), "w")
        no(V, path) == ~V.dead /\ Namei(V, path, 0).err
    IN IF ~NaOk(a) THEN NaFails(a)
       ELSE IF ~NaOk(b) \/ ~b.ino[a.st].dir \/ a.st = b.st THEN NaFails(b)
       ELSE IF ~NaOk(c) THEN NaFails(c)
       ELSE IF \E k \in DOMAIN c.ino[c.st].ents :
                  c.ino[c.st].ents[k].ino # 0 /\ c.ino[c.st].ents[k].name \notin dots THEN NaFails(c)
       ELSE IF d # <<>> /\ Last(d) \in dots THEN NaFails(c)
       ELSE IF ~NaOk(e) /\ no(e, NaUnder(d, <<".">>))
       THEN RmdirUnl(NaUnlink(e, NaUnder(d, <<"..">>)), d)
       ELSE IF ~NaOk(f) /\ no(f, NaUnder(d, <<"..">>)) THEN RmdirUnl(f, d)
       ELSE IF ~NaOk(g) THEN NaFails(g)
       ELSE RmdirUnl(NaUnlink(g, NaUnder(d, <<"..">>)), d)

RmdirMain(W, args) ==
    IF args = <<>> THEN NaFails(W) ELSE FoldLeft(RmdirOne, [W EXCEPT !.uid = 0], args)

(* --------------------------------- rm ------------------------------------ *)
RmDotname(p) == p \in {<<".">>, <<"..">>}

(* rmdir in a child, as the superuser; fork is tried until it works.         *)
RmRmdir(W, f, fl) ==
    LET V == RmdirMain([W EXCEPT !.errors = 0], <<f>>)
    IN IF RmDotname(f) \/ ("i" \in fl /\ ~W.yes) THEN W
       ELSE [V EXCEPT !.uid = W.uid, !.errors = W.errors + (IF V.errors # 0 THEN 1 ELSE 0)]

RECURSIVE RmArg(_, _, _, _)
RECURSIVE RmEntries(_, _, _, _, _)
(* The entries of a directory from slot k on: it is opened again after each, *)
(* and what cannot be opened again is read no further.                       *)
RmEntries(W, arg, fl, level, k) ==
    LET e == W.ino[W.st].ents
        a == RmArg(W, NaUnder(arg, <<e[k].name>>), fl, level + 1)
        b == NaOpen(a, arg)
    IN IF k > Len(e) THEN W
       ELSE IF e[k].ino = 0 \/ RmDotname(<<e[k].name>>) THEN RmEntries(W, arg, fl, level, k + 1)
       ELSE IF ~NaOk(b) THEN b ELSE RmEntries(b, arg, fl, level, k + 1)

RmDir(W, arg, fl, level) ==
    LET a == NaAccess(W, arg, "w")
        b == NaOpen(a, arg)
    IN IF "r" \notin fl THEN NaFails(W)
       ELSE IF ~NaOk(a) THEN NaFails(a)
       ELSE IF "i" \in fl /\ level # 0 /\ ~W.yes THEN a
       ELSE IF ~NaOk(b) THEN [NaFails(b) EXCEPT !.dead = TRUE]
       ELSE RmRmdir(RmEntries(b, arg, fl, level, 1), arg, fl)

(* A file that may not be written is removed only after an answer, unless -f.*)
RmArg(W, arg, fl, level) ==
    LET a == NaStat(W, arg)
        b == IF "i" \in fl \/ "f" \in fl THEN a ELSE NaAccess(a, arg, "w")
        c == NaUnlink(b, arg)
    IN IF ~NaOk(a) THEN IF "f" \in fl THEN a ELSE NaFails(a)
       ELSE IF a.ino[a.st].dir THEN RmDir(a, arg, fl, level)
       ELSE IF ("i" \in fl \/ ("f" \notin fl /\ ~NaOk(b))) /\ ~W.yes THEN b
       ELSE IF ~NaOk(c) /\ ("f" \notin fl \/ "i" \in fl) THEN NaFails(c) ELSE c

(* A standard input that is no terminal is as good as -f.                    *)
RmMain(W, fl, args) ==
    LET g == IF W.tty THEN fl ELSE fl \cup {"f"}
    IN FoldLeft(LAMBDA V, arg : IF arg = <<"..">> THEN V ELSE RmArg(V, arg, g, 0), W, args)

(* --------------------------------- mv ------------------------------------ *)
NaPname(p) ==
    LET s == {k \in DOMAIN p : p[k] = NaSl}
        q == CHOOSE k \in s : \A l \in s : l <= k
    IN IF s = {} THEN <<".">> ELSE IF q = 1 THEN <<NaSl>> ELSE SubSeq(p, 1, q - 1)

(* chkdot: no name in the path may be dot-dot.                               *)
MvChkdot(p) == \E k \in DOMAIN p : p[k] = ".."

RECURSIVE MvCheck(_, _, _)
(* check: from the new parent up to a root, the directory must not be met.   *)
MvCheck(W, path, dinode) ==
    LET a == NaStat(W, path)
    IN IF ~NaOk(a) \/ NaNum(a.st) = NaNum(dinode) \/ Len(path) > NaMAXN - 2 THEN NaErr(a)
       ELSE IF NaNum(a.st) = NaROOTINO THEN a ELSE MvCheck(a, NaUnder(path, <<"..">>), dinode)

(* cp in a child, when the name could not be linked; utime's result is not   *)
(* looked at.                                                                *)
MvCopy(W, s, t) ==
    LET a == NaEnter(W)
        c == CpMain([a EXCEPT !.errors = 0], <<s, t>>)
        e == NaEnter([c EXCEPT !.errors = W.errors])
    IN IF ~NaOk(a) THEN a ELSE IF c.errors # 0 THEN NaErr([c EXCEPT !.errors = W.errors])
       ELSE [e EXCEPT !.r = 0]

MvLink(W, s, t) ==
    LET a == NaLink(W, s, t)
        b == IF NaOk(a) THEN a ELSE MvCopy(a, s, t)
        c == NaUnlink(b, s)
    IN IF ~NaOk(b) THEN NaFails(b) ELSE IF NaOk(c) THEN c ELSE NaFails(c)

MvMove(W, s, t) ==
    LET a  == NaStat(W, s)
        b  == NaStat(a, t)
        t2 == IF b.ino[b.st].dir THEN NaUnder(t, NaDname(s)) ELSE t
        c  == NaStat(b, t2)
        d  == NaAccess(c, t2, "w")
        e  == NaUnlink(d, t2)
    IN IF ~NaOk(a) \/ a.ino[a.st].dir THEN NaFails(a)
       ELSE IF ~NaOk(b) THEN MvLink(b, s, t)
       ELSE IF ~NaOk(c) THEN MvLink(c, s, t2)
       ELSE IF c.ino[c.st].dir \/ c.st = a.st THEN NaFails(c)
       ELSE IF ~NaOk(d) /\ W.tty /\ ~W.yes THEN NaFails(d)
       ELSE IF ~NaOk(e) THEN NaFails(e) ELSE MvLink(e, s, t2)

(* The renaming itself, to another parent: signals are ignored and every     *)
(* error is undone.                                                          *)
MvReparent(W, s, t) ==
    LET dst == NaUnder(t, <<"..">>)
        a   == NaLink([W EXCEPT !.ign = TRUE], s, t)
        b   == NaUnlink(a, s)
        c   == NaUnlink(b, dst)
        d   == NaLink(c, NaPname(t), dst)
        back(V) == LET l == NaLink(V, t, s) IN IF NaOk(l) THEN NaUnlink(l, t) ELSE l
        e   == NaLink(d, NaPname(s), dst)
    IN IF ~NaOk(a) THEN NaFails(a)
       ELSE IF ~NaOk(b) THEN NaFails(NaUnlink(b, t))
       ELSE IF ~NaOk(c) THEN NaFails(back(c))
       ELSE IF NaOk(d) THEN d
       ELSE NaFails(IF NaOk(e) THEN back(e) ELSE e)

(* mvdir: the tests of both names, then a rename in place or to a new parent.*)
MvPlace(W, s, t) ==
    LET p  == NaDname(s)
        a  == NaStat(W, NaPname(s))
        b  == NaStat(a, NaPname(t))
        c  == NaAccess(b, NaPname(t), "w")
        d  == NaAccess(c, NaPname(s), "w")
        e  == NaAccess(d, s, "w")
        f  == NaStat(e, s)
        g  == MvCheck(f, NaPname(t), IF NaOk(f) THEN f.st ELSE a.st)
        h  == NaLink(e, s, t)
        k  == NaUnlink(h, s)
    IN IF s = t \/ p \in {<<".">>, <<"..">>, <<>>} \/ Last(p) = NaSl THEN NaFails(W)
       ELSE IF ~NaOk(a) THEN NaFails(a)
       ELSE IF ~NaOk(b) THEN NaFails(b)
       ELSE IF ~NaOk(c) THEN NaFails(c)
       ELSE IF ~NaOk(d) THEN NaFails(d)
       ELSE IF ~NaOk(e) \/ NaDev(a.st) # NaDev(b.st) THEN NaFails(e)
       ELSE IF a.st # b.st
       THEN IF MvChkdot(s) \/ MvChkdot(t) THEN NaFails(e)
            ELSE IF ~NaOk(g) THEN NaFails(g) ELSE MvReparent(g, s, t)
       ELSE IF ~NaOk(h) THEN NaFails(h) ELSE IF NaOk(k) THEN k ELSE NaFails(k)

MvDir(W, s, t) ==
    LET a == NaStat(W, t)
        t2 == NaUnder(t, NaDname(s))
        b == NaStat(a, t2)
    IN IF Len(s) >= NaMAXN \/ Len(t) >= NaMAXN THEN NaFails(W)
       ELSE IF ~NaOk(a) THEN MvPlace(a, s, t)
       ELSE IF ~a.ino[a.st].dir \/ Len(t2) > NaMAXN - 2 \/ NaOk(b) THEN NaFails(b)
       ELSE MvPlace(b, s, t2)

(* main is the superuser for directories only.                               *)
MvMain(W, args) ==
    LET a == NaStat([W EXCEPT !.uid = 0], args[1])
        b == [a EXCEPT !.uid = W.ruid]
        c == NaStat(b, Last(args))
    IN IF Len(args) < 2 THEN NaFails(W)
       ELSE IF ~NaOk(a) THEN NaFails(a)
       ELSE IF a.ino[a.st].dir THEN IF Len(args) = 2 THEN MvDir(a, args[1], args[2]) ELSE NaFails(a)
       ELSE IF Len(args) = 2 THEN MvMove(b, args[1], args[2])
       ELSE IF ~NaOk(c) \/ ~c.ino[c.st].dir THEN NaFails(c) ELSE NaEach(MvMove, c, args)

NaRun(W, job) ==
    CASE job.cmd = "mv"    -> MvMain(W, job.args)
      [] job.cmd = "rm"    -> RmMain(W, job.fl, job.args)
      [] job.cmd = "cp"    -> CpMain(W, job.args)
      [] job.cmd = "ln"    -> LnMain(W, "f" \in job.fl, job.args)
      [] job.cmd = "mkdir" -> MkdirMain(W, job.args)
      [] job.cmd = "rmdir" -> RmdirMain(W, job.args)

(* ------------------------------ properties ------------------------------- *)
(* Where every name of the tree leads: pairs of a path of names and an inode.*)
RECURSIVE NaNamesIn(_, _, _, _)
NaNamesIn(W, path, i, depth) ==
    LET e == W.ino[i].ents
        real == {k \in DOMAIN e : e[k].ino # 0 /\ e[k].name \notin {".", ".."}}
    IN {<<path, i>>} \cup
       (IF ~W.ino[i].dir \/ depth = 0 THEN {}
        ELSE UNION {NaNamesIn(W, Append(path, e[k].name), NaIget(W, NaId(NaDev(i), e[k].ino)), depth - 1) :
                        k \in real})

NaDepth == 6
NaNames(W) == NaNamesIn(W, <<>>, NaRoot, NaDepth)
NaPaths(W) == {x[1] : x \in NaNames(W)}
NaAt(W, path) == (CHOOSE x \in NaNames(W) : x[1] = path)[2]
NaAsked(W, i, name) == NaWalk([W EXCEPT !.uid = 0], i, <<name>>, 0)

(* Every directory leads to itself and back to the one that names it, and    *)
(* none is named by two directories, or below itself.                        *)
NaSoundBut(W, skip) ==
    \A x \in NaNames(W) :
        x[1] \notin skip /\ W.ino[x[2]].dir =>
            /\ ~NaAsked(W, x[2], ".").err /\ NaAsked(W, x[2], ".").ip = x[2]
            /\ ~NaAsked(W, x[2], "..").err
            /\ NaAsked(W, x[2], "..").ip = IF x[1] = <<>> THEN NaRoot ELSE NaAt(W, Front(x[1]))
            /\ Len(x[1]) < NaDepth

(* The name that a path gives, as names from the root; None if it has no     *)
(* parent.                                                                   *)
NaNone == <<"none">>
NaPlace(W, path) ==
    LET U == [W EXCEPT !.uid = 0]
        c == SelectSeq(path, LAMBDA x : x # NaSl)
        abs == path # <<>> /\ Head(path) = NaSl
        d == NaWalk(U, IF abs THEN NaRoot ELSE W.cdir, Front(c), 0)
    IN IF c = <<>> \/ d.err THEN NaNone
       ELSE IF Last(c) \in {".", ".."} \/ ~W.ino[d.ip].dir THEN NaNone
       ELSE Append((CHOOSE x \in NaNames(W) : x[2] = d.ip)[1], Last(c))

(* The place that two arguments give the second: a directory takes the name. *)
NaTarget(W, from, to) ==
    LET x == Namei([W EXCEPT !.uid = 0], to, 0)
    IN IF ~x.err /\ x.ip # 0 /\ W.ino[x.ip].dir THEN NaPlace(W, NaUnder(to, NaLastName(from))) ELSE NaPlace(W, to)

NaBelow(place, path) == Len(path) >= Len(place) /\ SubSeq(path, 1, Len(place)) = place
NaOutside(W, places) == {x \in NaNames(W) : \A p \in places : ~NaBelow(p, x[1])}
NaData(W, i) == <<W.ino[i].dir, W.ino[i].data>>

(* What the names outside some places lead to, and the data there, are kept. *)
NaKept(V, W, places) ==
    /\ NaOutside(V, places) = NaOutside(W, places)
    /\ \A x \in NaOutside(V, places) : NaData(V, x[2]) = NaData(W, x[2])

NaMoved(V, from, to) ==
    {IF NaBelow(from, x[1]) THEN <<to \o SubSeq(x[1], Len(from) + 1, Len(x[1])), x[2]>> ELSE x : x \in NaNames(V)}

(* The last test of mvdir's and the first of the others' correctness: what a *)
(* command left, V before and W after it.                                    *)
MvRight(V, W, job) ==
    LET s  == job.args[1]
        from == NaPlace(V, s)
        to == NaTarget(V, s, job.args[2])
        i  == NaAt(V, from)
    IN IF NaNone \in {from, to} \/ from \notin NaPaths(V) THEN NaNames(V) = NaNames(W)
       ELSE IF V.ino[i].dir
       THEN LET ways == {NaNames(V), NaMoved(V, from, to)}
            IN /\ NaNames(W) \in ways \cup (IF Front(from) = Front(to) THEN {UNION ways} ELSE {})
               /\ W.errors = 0 /\ ~W.dead => NaNames(W) = NaMoved(V, from, to) /\ ~NaBelow(from, to)
               /\ NaKept(V, W, {from, to}) /\ NaSoundBut(W, {})
       ELSE /\ NaKept(V, W, {from, to})
            /\ \E p \in {from, to} \cap NaPaths(W) : NaData(W, NaAt(W, p)) = NaData(V, i)
            /\ W.errors = 0 /\ ~W.dead => /\ NaPaths(W) = (NaPaths(V) \ {from}) \cup {to}
                                         /\ NaData(W, NaAt(W, to)) = NaData(V, i)
            /\ NaSoundBut(W, {})

CpRight(V, W, job) ==
    LET from == NaPlace(V, job.args[1])
        to   == NaTarget(V, job.args[1], job.args[2])
        same == {x[1] : x \in {y \in NaNames(V) : to \in NaPaths(V) /\ y[2] = NaAt(V, to)}}
    IN IF NaNone \in {from, to} THEN NaNames(V) = NaNames(W)
       ELSE /\ NaKept(V, W, same \cup {to})
            /\ W.errors = 0 /\ ~W.dead =>
                   /\ NaPaths(W) = NaPaths(V) \cup {to}
                   /\ NaData(W, NaAt(W, to)) = NaData(V, NaAt(V, from))
                   /\ same # {} => NaNames(W) = NaNames(V)

LnRight(V, W, job) ==
    LET from == NaPlace(V, job.args[1])
        to   == NaTarget(V, job.args[1], job.args[2])
    IN /\ NaKept(V, W, {to})
       /\ NaNames(W) = IF W.errors > 0 \/ W.dead THEN NaNames(V) ELSE NaNames(V) \cup {<<to, NaAt(V, from)>>}

MkdirRight(V, W, job) ==
    LET d == NaPlace(V, job.args[1])
    IN /\ NaKept(V, W, {d}) /\ NaSoundBut(W, {})
       /\ NaPaths(W) = IF W.errors > 0 THEN NaPaths(V) ELSE NaPaths(V) \cup {d}

(* An rmdir that an error or a signal cut short can be finished by another.  *)
RmdirRight(V, W, job) ==
    LET d == NaPlace(V, job.args[1])
        again == RmdirMain([W EXCEPT !.errors = 0, !.dead = FALSE, !.fail = 0, !.kill = 0], job.args)
    IN IF d = NaNone THEN NaNames(V) = NaNames(W)
       ELSE /\ NaKept(V, W, {d}) /\ NaSoundBut(W, {d})
            /\ W.errors = 0 /\ ~W.dead => d \notin NaPaths(W)
            /\ d \in NaPaths(W) => \/ NaSoundBut(W, {})
                                   \/ again.errors = 0 /\ NaPaths(again) = NaPaths(V) \ {d}

RmRight(V, W, job) ==
    LET d == NaPlace(V, job.args[1])
        x == Namei([V EXCEPT !.uid = 0], job.args[1], 0)
        e == IF d # NaNone \/ x.err THEN d ELSE (CHOOSE y \in NaNames(V) : y[2] = x.ip)[1]
    IN /\ NaKept(V, W, {e})
       /\ d # NaNone /\ W.errors = 0 /\ ~W.dead /\ W.yes /\ "f" \notin job.fl =>
              \A p \in NaPaths(W) : ~NaBelow(d, p)

(* The tree after each command is the one it was asked for or, after a call  *)
(* that failed or a signal, one in which nothing else has changed and what   *)
(* was being moved still has a name; links are counted.                      *)
NaRight(job) ==
    LET V == NaStart(NaTrees[job.tree], job)
        W == NaRun(V, job)
        count(i) == Cardinality({x \in UNION {{<<d, k>> : k \in DOMAIN W.ino[d].ents} : d \in DOMAIN W.ino} :
                                    NaId(NaDev(x[1]), W.ino[x[1]].ents[x[2]].ino) = i})
    IN /\ \A i \in DOMAIN W.ino : W.ino[i].nlink = count(i)
       /\ CASE job.cmd = "mv"    -> MvRight(V, W, job)
            [] job.cmd = "cp"    -> CpRight(V, W, job)
            [] job.cmd = "ln"    -> LnRight(V, W, job)
            [] job.cmd = "mkdir" -> MkdirRight(V, W, job)
            [] job.cmd = "rmdir" -> RmdirRight(V, W, job)
            [] job.cmd = "rm"    -> RmRight(V, W, job)

==============================================================================
