--------------------------------- MODULE Sort --------------------------------
(* The command sort: options and keys, the comparison of two lines, the      *)
(* sorted runs in temporary files and their merge SoN at a time.  A line is  *)
(* the sequence of its character codes without the newline.                  *)
EXTENDS Integers, Sequences, SequencesExt, FiniteSets

CONSTANTS
    SoN,       \* merge order (N)
    SoL,       \* room for a line in the merge (L)
    SoNF,      \* keys (NF)
    SoNlines,  \* lines of a run (nlines)
    SoNtext    \* characters of a run (ntext)

(* --------------------------- options and keys ---------------------------- *)
SoProto == [fold |-> FALSE, ignore |-> "zero", nflg |-> 0, rflg |-> 1,
            bflg |-> <<0, 0>>, m |-> <<0, -1>>, n |-> <<0, 0>>]

(* An option is <<letter, number>>; k is 1 for the start of a key, 2 for its *)
(* end.  c, m, t and r leave the comparison of whole lines in place.         *)
SoOption(o, q, k) ==
    LET f == o.fields[Len(o.fields)]
        With(g) == [o EXCEPT !.fields[Len(o.fields)] = g, !.keyed = TRUE]
    IN CASE q[1] = "b" -> With([f EXCEPT !.bflg[k] = @ + 1])
         [] q[1] = "d" -> With([f EXCEPT !.ignore = "dict"])
         [] q[1] = "f" -> With([f EXCEPT !.fold = TRUE])
         [] q[1] = "i" -> With([f EXCEPT !.ignore = "nonprint"])
         [] q[1] = "c" -> [o EXCEPT !.c = TRUE]
         [] q[1] = "m" -> [o EXCEPT !.mflg = TRUE]
         [] q[1] = "n" -> With([f EXCEPT !.nflg = @ + 1])
         [] q[1] = "t" -> [o EXCEPT !.tab = q[2]]
         [] q[1] = "r" -> [o EXCEPT !.fields[Len(o.fields)].rflg = -1]
         [] q[1] = "u" -> [With(f) EXCEPT !.u = TRUE]
         [] q[1] = "." -> [With([f EXCEPT !.m[k] = IF @ = -1 THEN 0 ELSE @]) EXCEPT !.dot = TRUE]
         [] q[1] = "num" -> With(IF o.dot THEN [f EXCEPT !.n[k] = q[2]] ELSE [f EXCEPT !.m[k] = q[2]])

SoField(o, s, k) == FoldLeft(LAMBDA p, q : SoOption(p, q, k), [o EXCEPT !.dot = FALSE], s)

(* One argument: -flags of the whole line or of the end of the last key, or  *)
(* +flags that start a key.                                                  *)
SoArgument(o, arg) ==
    IF arg.sign = "-" THEN SoField(o, arg.opts, IF Len(o.fields) > 1 THEN 2 ELSE 1)
    ELSE IF Len(o.fields) >= SoNF THEN [o EXCEPT !.bad = TRUE]
    ELSE SoField([o EXCEPT !.fields = Append(@, SoProto)], arg.opts, 1)

(* A key without flags of its own has those of the whole line.               *)
SoInherit(f, g) ==
    IF \A x \in {"fold", "ignore", "nflg", "rflg", "bflg"} : f[x] = SoProto[x]
    THEN [f EXCEPT !.fold = g.fold, !.ignore = g.ignore, !.nflg = g.nflg,
                   !.rflg = g.rflg, !.bflg = <<g.bflg[1], g.bflg[1]>>]
    ELSE f

SoOptions(args) ==
    LET o == FoldLeft(SoArgument,
                      [fields |-> <<SoProto>>, keyed |-> FALSE, c |-> FALSE, mflg |-> FALSE,
                       u |-> FALSE, tab |-> 0, dot |-> FALSE, bad |-> FALSE], args)
    IN [o EXCEPT !.fields = [k \in DOMAIN @ |-> IF k = 1 THEN @[1] ELSE SoInherit(@[k], @[1])]]

(* -------------------------- comparison ----------------------------------- *)
SoNL == 10
SoBlank == {9, 32}
SoDigit == 48..57
SoLetter(c) == c \in 65..90 \cup 97..122

SoChar(l, p) == IF p \in DOMAIN l THEN l[p] ELSE SoNL
SoUpTo(l, p, S) ==    \* first position from p on whose character is in S, or the end
    CHOOSE q \in p..Len(l) + 1 : /\ q = Len(l) + 1 \/ l[q] \in S
                                 /\ \A x \in p..q - 1 : l[x] \notin S
SoPast(l, p, S) == SoUpTo(l, p, 0..127 \ S)
SoLess(i, j) == IF i < j THEN i ELSE j
SoMost(S) == CHOOSE x \in S : \A y \in S : y <= x

SoDropped(f, c) ==
    \/ f.ignore = "dict" /\ c \notin SoBlank \cup SoDigit /\ ~SoLetter(c)
    \/ f.ignore = "nonprint" /\ (c < 32 \/ c = 127)
SoCode(f, c) == IF f.fold /\ c \in 97..122 THEN c - 32 ELSE c

RECURSIVE SoSkipFields(_, _, _, _)
SoSkipFields(l, p, i, tab) ==
    IF i = 0 THEN p
    ELSE SoSkipFields(l, IF tab # 0 THEN SoLess(SoUpTo(l, p, {tab}) + 1, Len(l) + 1)
                         ELSE SoUpTo(l, SoPast(l, p, SoBlank), SoBlank), i - 1, tab)

SoSkip(l, f, j, tab) ==
    LET p == SoSkipFields(l, 1, f.m[j], tab)
        q == IF f.bflg[j] > 0 THEN SoPast(l, p, SoBlank) ELSE p
    IN IF f.m[j] < 0 THEN Len(l) + 1 ELSE SoLess(q + f.n[j], Len(l) + 1)

(* Results as in the code: positive when the first line goes before.         *)
SoSign(i) == IF i > 0 THEN 1 ELSE IF i < 0 THEN -1 ELSE 0

SoDigits(l, p, e) == SubSeq(l, p, SoLess(SoPast(l, p, SoDigit), IF e > p THEN e ELSE p) - 1)
SoNonzero(d) == \E i \in DOMAIN d : d[i] # 48

(* Whole parts are compared from the right over their common length, what is *)
(* left of the longer one decides first; then the fractions from the left.   *)
SoNumeric(a, ka, b, kb, r) ==
    LET pa0 == SoPast(a, ka.p, SoBlank)
        pb0 == SoPast(b, kb.p, SoBlank)
        na == SoChar(a, pa0) = 45
        nb == SoChar(b, pb0) = 45
        pa == IF na THEN pa0 + 1 ELSE pa0
        pb == IF nb THEN pb0 + 1 ELSE pb0
        sa == IF na THEN -r ELSE r
        sb == IF nb THEN -r ELSE r
        da == SoDigits(a, pa, ka.e)
        db == SoDigits(b, pb, kb.e)
        com == IF sa = sb THEN SoLess(Len(da), Len(db)) ELSE 0
        Tail0(d) == SubSeq(d, Len(d) - com + 1, Len(d))
        Diff == {i \in 1..com : Tail0(da)[i] # Tail0(db)[i]}
        Top(S) == CHOOSE i \in S : \A x \in S : i <= x
        After(l, p) == IF SoChar(l, p) = 46 THEN p + 1 ELSE p
        fa == SoDigits(a, After(a, pa + Len(da)), ka.e)
        fb == SoDigits(b, After(b, pb + Len(db)), kb.e)
        fcom == IF sa = sb THEN SoLess(Len(fa), Len(fb)) ELSE 0
        FDiff == {i \in 1..fcom : fa[i] # fb[i]}
    IN CASE SoNonzero(SubSeq(da, 1, Len(da) - com)) -> -sa
         [] ~SoNonzero(SubSeq(da, 1, Len(da) - com)) /\ SoNonzero(SubSeq(db, 1, Len(db) - com)) -> sb
         [] OTHER ->
            IF Diff # {} THEN SoSign(Tail0(db)[Top(Diff)] - Tail0(da)[Top(Diff)]) * sa
            ELSE IF FDiff # {} THEN SoSign(fb[Top(FDiff)] - fa[Top(FDiff)]) * sa
            ELSE IF SoNonzero(SubSeq(fa, fcom + 1, Len(fa))) THEN -sa
            ELSE IF SoNonzero(SubSeq(fb, fcom + 1, Len(fb))) THEN sb ELSE 0

SoLex(x, y, r) ==
    LET n == SoLess(Len(x), Len(y))
        Diff == {i \in 1..n : x[i] # y[i]}
        d == CHOOSE i \in Diff : \A j \in Diff : i <= j
    IN IF Diff # {} THEN SoSign(y[d] - x[d]) * r ELSE SoSign(Len(y) - Len(x)) * r

SoKey(o, k, l) ==
    IF k = 1 THEN [p |-> 1, e |-> Len(l) + 1]
    ELSE [p |-> SoSkip(l, o.fields[k], 1, o.tab), e |-> SoSkip(l, o.fields[k], 2, o.tab)]

SoText(f, l, key) ==
    LET kept == SelectSeq(SubSeq(l, key.p, key.e - 1), LAMBDA c : ~SoDropped(f, c))
    IN [i \in 1..Len(kept) |-> SoCode(f, kept[i])]

SoByKey(o, k, a, b) ==
    LET f == o.fields[k]
    IN IF f.nflg > 0 THEN SoNumeric(a, SoKey(o, k, a), b, SoKey(o, k, b), f.rflg)
       ELSE SoLex(SoText(f, a, SoKey(o, k, a)), SoText(f, b, SoKey(o, k, b)), f.rflg)

SoCmpa(o, a, b) == SoLex(Append(a, SoNL), Append(b, SoNL), o.fields[1].rflg)

SoCmp(o, a, b) ==
    LET Keys == IF Len(o.fields) > 1 THEN 2..Len(o.fields) ELSE {1}
        Told == {k \in Keys : SoByKey(o, k, a, b) # 0}
        k == CHOOSE x \in Told : \A y \in Told : x <= y
    IN IF Told # {} THEN SoByKey(o, k, a, b)
       ELSE IF o.u THEN 0 ELSE SoCmpa(o, a, b)

SoCompare(o, a, b) == IF o.keyed THEN SoCmp(o, a, b) ELSE SoCmpa(o, a, b)

(* ---------------------- qsort on an array of lines ------------------------ *)
(* v[a..l-1] is split around the equals v[lp..hp]; with -u all but the first *)
(* of the equals are blanked.                                                *)
SoGone == <<0>>
SoSwap(v, i, j) == [v EXCEPT ![i] = v[j], ![j] = v[i]]
SoTurn(v, p, q, r) == [v EXCEPT ![p] = v[r], ![r] = v[q], ![q] = v[p]]

RECURSIVE SoPart(_, _, _)
SoPart(o, lines, s) ==
    LET C(i, j) == SoCompare(o, lines[s.v[i]], lines[s.v[j]])
        c == IF s.i < s.lp THEN C(s.i, s.lp) ELSE 1
        d == IF s.j > s.hp THEN C(s.hp, s.j) ELSE 0
    IN CASE c = 0 -> SoPart(o, lines, [s EXCEPT !.lp = @ - 1, !.v = SoSwap(@, s.i, s.lp - 1)])
         [] c < 0 -> SoPart(o, lines, [s EXCEPT !.i = @ + 1])
         [] c > 0 /\ s.j > s.hp /\ d = 0 ->
            SoPart(o, lines, [s EXCEPT !.hp = @ + 1, !.v = SoSwap(@, s.hp + 1, s.j)])
         [] c > 0 /\ s.j > s.hp /\ d > 0 /\ s.i = s.lp ->
            SoPart(o, lines, [s EXCEPT !.hp = @ + 1, !.v = SoTurn(@, s.i, s.hp + 1, s.j),
                                       !.lp = @ + 1, !.i = s.lp + 1])
         [] c > 0 /\ s.j > s.hp /\ d > 0 /\ s.i # s.lp ->
            SoPart(o, lines, [s EXCEPT !.v = SoSwap(@, s.i, s.j), !.j = @ - 1, !.i = @ + 1])
         [] c > 0 /\ s.j > s.hp /\ d < 0 -> SoPart(o, lines, [s EXCEPT !.j = @ - 1])
         [] c > 0 /\ s.j <= s.hp /\ s.i # s.lp ->
            SoPart(o, lines, [s EXCEPT !.lp = @ - 1, !.v = SoTurn(@, s.j, s.lp - 1, s.i),
                                       !.hp = @ - 1, !.j = s.hp - 1])
         [] OTHER -> s

(* q.v: places in q.lines, the array the pointers are in; q.lines the lines. *)
RECURSIVE SoQsort(_, _, _, _)
SoQsort(o, q, a, l) ==
    IF l - a <= 1 THEN q
    ELSE LET h == a + (l - a) \div 2
             s == SoPart(o, q.lines, [v |-> q.v, i |-> a, j |-> l - 1, lp |-> h, hp |-> h])
             Equals == {s.v[k] : k \in s.lp + 1..s.hp}
             r == [v |-> s.v, lines |-> IF o.u THEN [x \in DOMAIN q.lines |-> IF x \in Equals THEN SoGone
                                                                            ELSE q.lines[x]]
                                        ELSE q.lines]
         IN SoQsort(o, SoQsort(o, r, s.hp + 1, l), a, s.lp)

SoSorted(o, lines) ==
    LET q == SoQsort(o, [v |-> [i \in 1..Len(lines) |-> i], lines |-> lines], 1, Len(lines) + 1)
    IN SelectSeq([i \in 1..Len(lines) |-> q.lines[q.v[Len(lines) + 1 - i]]], LAMBDA x : x # SoGone)

(* ----------------------------- runs -------------------------------------- *)
RECURSIVE SoTake(_, _, _)
SoTake(rest, n, chars) ==
    IF n >= SoNlines \/ chars >= SoNtext THEN n
    ELSE IF n >= Len(rest) THEN n + 1
    ELSE SoTake(rest, n + 1, chars + Len(rest[n + 1]) + 1)

(* sort: the lines of the inputs one after the other; a run that the end of  *)
(* the input does not cut short is followed by another, which may be empty.  *)
RECURSIVE SoRuns(_, _)
SoRuns(o, rest) ==
    LET n == SoTake(rest, 0, 0)
    IN IF n > Len(rest) THEN <<SoSorted(o, rest)>>
       ELSE <<SoSorted(o, SubSeq(rest, 1, n))>> \o SoRuns(o, SubSeq(rest, n + 1, Len(rest)))

(* ----------------------------- merge ------------------------------------- *)
SoJunk == <<1>>
(* What rline keeps of a line that does not fit.                             *)
SoCut(l) == IF Len(l) >= SoL THEN SubSeq(l, 1, SoL - 1) ELSE l

(* m.l[k], m.rest[k]: line and remaining lines of the k-th input; m.v: the   *)
(* inputs in order, the next one last; m.l[m.p] holds the last line passed.  *)
SoEof(m, k) == m.rest[k] = <<>>
SoRline(m, k) ==
    IF SoEof(m, k) THEN m
    ELSE [m EXCEPT !.l[k] = SoCut(Head(m.rest[k])), !.rest[k] = Tail(@)]

RECURSIVE SoNoTwins(_, _)
SoNoTwins(o, m) ==
    LET n == Len(m.v)
        q == SoQsort(o, [v |-> m.v, lines |-> m.l], 1, n + 1)
        Twins == {k \in 1..n : q.lines[q.v[k]] = SoGone}
        Over == {q.v[k] : k \in {x \in Twins : SoEof(m, q.v[x])}}
        r == FoldSet(LAMBDA x, y : SoRline(y, q.v[x]), [m EXCEPT !.l = q.lines, !.v = q.v], Twins)
        next == [r EXCEPT !.v = SelectSeq(@, LAMBDA k : k \notin Over)]
    IN IF Twins = {} THEN next ELSE SoNoTwins(o, next)

Bug_SoSink(o, m) == m

SoSink(o, m) ==    \* the line read last moves down to its place
    LET RECURSIVE Down(_, _)
        Down(v, i) == IF i > 1 /\ SoCompare(o, m.l[v[i]], m.l[v[i - 1]]) < 0
                      THEN Down(SoSwap(v, i, i - 1), i - 1) ELSE v
    IN [m EXCEPT !.v = Down(@, Len(@))]

RECURSIVE SoNextLine(_, _)
SoNextLine(o, m) ==
    LET k == Last(m.v)
        over == SoEof(m, k)
        read == IF over THEN [m EXCEPT !.v = Front(@), !.mu = IF Len(m.v) = 2 THEN o.u ELSE @]
                ELSE SoRline(m, k)
        r == SoSink(o, read)
        j == SoCompare(o, r.l[Last(r.v)], r.l[r.p])
    IN CASE over /\ Len(m.v) = 1 -> read
         [] ~(over /\ Len(m.v) = 1) /\ ~read.mu -> r
         [] ~(over /\ Len(m.v) = 1) /\ read.mu /\ o.c ->
            [r EXCEPT !.bad = j > 0 \/ (o.u /\ j = 0)]
         [] ~(over /\ Len(m.v) = 1) /\ read.mu /\ ~o.c ->
            IF j = 0 THEN SoNextLine(o, r) ELSE r

RECURSIVE SoPour(_, _)
SoPour(o, m) ==
    IF m.v = <<>> \/ m.bad THEN m
    ELSE LET k == Last(m.v)
             show == ~o.c /\ (~o.u \/ m.mu \/ SoCompare(o, m.l[k], m.l[m.v[Len(m.v) - 1]]) # 0)
             put == IF show THEN [m EXCEPT !.out = Append(@, m.l[k])] ELSE m
         IN SoPour(o, SoNextLine(o, IF m.mu THEN [put EXCEPT !.l[m.p] = m.l[k]] ELSE put))

(* merge(a, b): what was in the line buffers before is still there.          *)
SoMerge(o, inputs, bufs) ==
    LET n == Len(inputs)
        m0 == [l |-> bufs, rest |-> inputs, p |-> n + 1, v |-> <<>>, mu |-> FALSE, out |-> <<>>,
               bad |-> FALSE]
        first == FoldLeft(LAMBDA m, k : IF SoEof(m, k) THEN m
                                        ELSE [SoRline(m, k) EXCEPT !.v = Append(@, k)],
                          m0, [k \in 1..n |-> k])
        m1 == SoNoTwins(o, first)
    IN SoPour(o, [m1 EXCEPT !.mu = (o.mflg /\ o.u) \/ o.c \/ (Len(m1.v) = 1 /\ o.u)])

(* ------------------------------ main -------------------------------------- *)
(* w.files: inputs and temporary files; w.temps: temporary files that exist. *)
SoNewfile(w) == [w EXCEPT !.temps = @ \cup {Len(w.files) + 1}]

SoUnsafe(o, job) ==
    /\ o.mflg /\ job.out > 0
    /\ job.out > Len(job.files) - SoN

RECURSIVE SoMerges(_, _, _, _)
SoMerges(o, job, w, a) ==
    LET nfiles == Len(w.files)
        more == a + SoN < nfiles \/ (SoUnsafe(o, job) /\ a < Len(job.files))
        i == IF more THEN SoLess(a + SoN, nfiles) ELSE nfiles
        kept == IF ~more /\ job.out > 0 THEN [w.files EXCEPT ![job.out] = <<>>] ELSE w.files
        made == IF more THEN SoNewfile(w) ELSE w
        m == SoMerge(o, SubSeq(kept, a + 1, i), w.bufs)
        after == [made EXCEPT !.bufs = m.l, !.bad = m.bad,
                              !.temps = IF m.bad THEN @ ELSE @ \ (a + 1..i),
                              !.files = IF more THEN Append(@, m.out) ELSE @,
                              !.out = IF more THEN @ ELSE m.out]
    IN IF ~more /\ a = nfiles THEN w
       ELSE IF ~more \/ m.bad THEN after
       ELSE SoMerges(o, job, after, i)

(* term removes the temporary files up to and including the next one.        *)
SoTerm(job, w) == [w EXCEPT !.temps = @ \ (Len(job.files) + 1..Len(w.files) + 1)]

SoRun(job) ==
    LET o == SoOptions(job.args)
        n == Len(job.files)
        w0 == [files |-> job.files, temps |-> {n + 1}, bad |-> FALSE, out |-> <<>>,
               bufs |-> [k \in 1..SoN + 1 |-> SoJunk]]
        runs == SoRuns(o, FlattenSeq(job.files))
        w1 == IF o.mflg \/ o.c THEN w0
              ELSE IF Len(runs) = 1 THEN [w0 EXCEPT !.out = runs[1]]
              ELSE [w0 EXCEPT !.files = @ \o runs, !.temps = n + 1..n + Len(runs)]
        refused == o.bad \/ (o.c /\ n > 1)
    IN IF refused THEN [w0 EXCEPT !.bad = TRUE, !.temps = {}]
       ELSE SoTerm(job, SoMerges(o, job, w1, IF o.mflg \/ o.c THEN 0 ELSE n))

------------------------------------------------------------------------------
(* The order that the options ask for, on the lines of the job.              *)
SoBefore(o, a, b) == SoCompare(o, a, b) >= 0

(* What is compared is an order: of two lines one goes first, whichever is   *)
(* named first, and three lines cannot go in a circle.                       *)
SoIsOrder(o, Lines) ==
    \A a, b \in Lines :
        /\ SoCompare(o, a, b) = -SoCompare(o, b, a)
        /\ \A c \in Lines : SoBefore(o, a, b) /\ SoBefore(o, b, c) => SoBefore(o, a, c)

SoCount(s, x) == Cardinality({i \in DOMAIN s : s[i] = x})

SoInOrder(o, s, strict) ==
    \A i \in 1..Len(s) - 1 : SoBefore(o, s[i], s[i + 1]) /\ (strict => SoCompare(o, s[i], s[i + 1]) # 0)

(* sort -u is what uniq makes of the sorted lines: one of each set of equals *)
(* is there.                                                                 *)
SoUniqAgrees(job, w) ==
    LET o == SoOptions(job.args)
    IN \A k \in DOMAIN job.files : \A i \in DOMAIN job.files[k] :
           \E j \in DOMAIN w.out : SoCompare(o, job.files[k][i], w.out[j]) = 0

(* merge compares the last line with what it never wrote: sort -u loses      *)
(* lines once there are temporary files.                                     *)
SoLoses(job) ==
    LET o == SoOptions(job.args)
    IN o.u /\ ~o.mflg /\ ~o.c /\ Len(SoRuns(o, FlattenSeq(job.files))) > 1

(* sort writes the lines of its inputs, each as often as it was there, in an *)
(* order in which no line goes before its predecessor; with -u one line of   *)
(* each set of equal ones; -c complains just when the file is not in order;  *)
(* and no temporary file is left, however many runs and merges there were.   *)
SoRight(job, w) ==
    LET o == SoOptions(job.args)
        all == FlattenSeq(job.files)
        Lines == {all[i] : i \in DOMAIN all}
        merges == \A k \in DOMAIN job.files : SoInOrder(o, job.files[k], FALSE)
    IN /\ w.temps = {}
       /\ o.bad \/ SoIsOrder(o, Lines)
       /\ CASE o.bad \/ (o.c /\ Len(job.files) > 1) -> w.bad
            [] ~o.bad /\ o.c /\ Len(job.files) = 1 -> w.bad = ~SoInOrder(o, all, o.u)
            [] ~o.bad /\ ~o.c /\ (~o.mflg \/ merges) ->
               /\ SoInOrder(o, w.out, o.u)
               /\ IF o.u THEN /\ \A i \in DOMAIN w.out : w.out[i] \in Lines
                              /\ SoLoses(job) \/ SoUniqAgrees(job, w)
                  ELSE Len(w.out) = Len(all) /\ \A x \in Lines : SoCount(w.out, x) = SoCount(all, x)
            [] OTHER -> TRUE

(* --------------------- qsort of the C library ---------------------------- *)
(* The same partition; the smaller part is sorted by a recursive call and    *)
(* the larger in its place, so that deep, the calls that are nested, stays   *)
(* small.                                                                    *)
RECURSIVE SoArray(_, _, _, _, _)
SoArray(o, lines, v, a, l) ==
    IF l - a <= 1 THEN [v |-> v, deep |-> 1]
    ELSE LET h == a + (l - a) \div 2
             s == SoPart(o, lines, [v |-> v, i |-> a, j |-> l - 1, lp |-> h, hp |-> h])
             up == s.lp - a >= l - s.hp
             call == IF up THEN SoArray(o, lines, s.v, s.hp + 1, l) ELSE SoArray(o, lines, s.v, a, s.lp)
             rest == IF up THEN SoArray(o, lines, call.v, a, s.lp) ELSE SoArray(o, lines, call.v, s.hp + 1, l)
         IN [v |-> rest.v, deep |-> IF call.deep + 1 > rest.deep THEN call.deep + 1 ELSE rest.deep]
SoArrayRun(lines) == SoArray(SoOptions(<<>>), lines, [i \in 1..Len(lines) |-> i], 1, Len(lines) + 1)

(* Every element is in the array once, no element is before a smaller one,   *)
(* and the calls that are nested are as many as halving allows.              *)
SoArrayRight(job) ==
    LET r == SoArrayRun(job.array)
        n == Len(job.array)
    IN /\ {r.v[i] : i \in 1..n} = 1..n
       /\ \A i, j \in 1..n : i < j => SoCompare(SoOptions(<<>>), job.array[r.v[i]], job.array[r.v[j]]) <= 0
       /\ 2 ^ (r.deep - 1) <= n + 1

==============================================================================
