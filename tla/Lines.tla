-------------------------------- MODULE Lines --------------------------------
(* The commands that go through one or two files line by line or character   *)
(* by character: uniq, comm, join, tsort, look, tail, split, tr, cmp and dd. *)
EXTENDS Sort

CONSTANTS
    LiLBIN,    \* bytes that tail keeps (LBIN)
    LiBIG      \* the numbers that dd refuses (BIG)

(* ------------------------------- uniq ------------------------------------ *)
(* skip: what is left of a line after the fields and letters to be ignored.  *)
LiSkip(job, l) ==
    SubSeq(l, SoLess(SoSkipFields(l, 1, job.fields, 0) + job.letters, Len(l) + 1), Len(l))
LiEqual(job, a, b) == LiSkip(job, a) = LiSkip(job, b)

(* pline: twins is what equal has counted since the last line was written.   *)
LiPline(job, s, l) ==
    [s EXCEPT !.twins = 0,
              !.out = IF (job.mode = "u" /\ s.twins > 0) \/ (job.mode = "d" /\ s.twins = 0) THEN @
                      ELSE Append(@, IF job.mode = "c" THEN <<s.linec, l>> ELSE <<0, l>>)]

(* The line that is held and the lines still to be read.                     *)
RECURSIVE LiUniq(_, _, _, _)
LiUniq(job, s, held, rest) ==
    LET t == [s EXCEPT !.linec = @ + 1]
    IN IF rest = <<>> THEN LiPline(job, t, held).out
       ELSE IF LiEqual(job, held, Head(rest))
            THEN LiUniq(job, [t EXCEPT !.twins = @ + 1], held, Tail(rest))
            ELSE LiUniq(job, [LiPline(job, t, held) EXCEPT !.linec = 0], Head(rest), Tail(rest))

LiUniqRun(job) ==
    IF job.file = <<>> THEN <<>>
    ELSE LiUniq(job, [linec |-> 0, twins |-> 0, out |-> <<>>], Head(job.file), Tail(job.file))

(* uniq writes the first line of each group of equal neighbours: every       *)
(* group, those of one line (-u), those of several (-d), or all with the     *)
(* number of their lines (-c).                                               *)
LiUniqRight(job) ==
    LET f == job.file
        First == {i \in DOMAIN f : i = 1 \/ ~LiEqual(job, f[i - 1], f[i])}
        Next(i) == CHOOSE j \in i + 1..Len(f) + 1 :
                       /\ j = Len(f) + 1 \/ j \in First
                       /\ \A x \in i + 1..j - 1 : x \notin First
        Shown == {i \in First : CASE job.mode = "u" -> Next(i) = i + 1
                                  [] job.mode = "d" -> Next(i) > i + 1
                                  [] OTHER -> TRUE}
        order == SelectSeq([i \in 1..Len(f) |-> i], LAMBDA i : i \in Shown)
    IN LiUniqRun(job) = [k \in 1..Len(order) |->
                            <<IF job.mode = "c" THEN Next(order[k]) - order[k] ELSE 0, f[order[k]]>>]

(* ------------------------------- comm ------------------------------------ *)
LiWr(job, out, n, l) == IF n \in job.hide THEN out ELSE Append(out, <<n, l>>)
LiCopy(job, out, n, f) == FoldLeft(LAMBDA o, l : LiWr(job, o, n, l), out, f)

RECURSIVE LiComm(_, _, _, _)
LiComm(job, out, a, b) ==
    CASE a = <<>> -> LiCopy(job, out, 2, b)
      [] a # <<>> /\ b = <<>> -> LiCopy(job, out, 1, a)
      [] a # <<>> /\ b # <<>> /\ Head(a) = Head(b) ->
         LiComm(job, LiWr(job, out, 3, Head(a)), Tail(a), Tail(b))
      [] a # <<>> /\ b # <<>> /\ SoLex(Head(a), Head(b), 1) > 0 ->
         LiComm(job, LiWr(job, out, 1, Head(a)), Tail(a), b)
      [] a # <<>> /\ b # <<>> /\ SoLex(Head(a), Head(b), 1) < 0 ->
         LiComm(job, LiWr(job, out, 2, Head(b)), a, Tail(b))

LiCommRun(job) == LiComm(job, <<>>, job.file, job.file2)

LiAscending(f) == \A i \in 1..Len(f) - 1 : SoLex(f[i], f[i + 1], 1) >= 0
LiLess(i, j) == SoLess(i, j)

(* comm on sorted files: a line that the first has m times and the second n  *)
(* times is written min(m, n) times in the third column and m - n or n - m   *)
(* times in the column of the file that has more, in order.                  *)
LiCommRight(job) ==
    LET a == job.file
        b == job.file2
        out == LiCommRun(job)
        Words == {a[i] : i \in DOMAIN a} \cup {b[i] : i \in DOMAIN b}
        Times(n, l) == IF n \in job.hide THEN 0
                       ELSE LET both == LiLess(SoCount(a, l), SoCount(b, l))
                            IN CASE n = 1 -> SoCount(a, l) - both
                                 [] n = 2 -> SoCount(b, l) - both
                                 [] n = 3 -> both
    IN LiAscending(a) /\ LiAscending(b) =>
          /\ LiAscending([i \in DOMAIN out |-> out[i][2]])
          /\ \A n \in 1..3, l \in Words : SoCount(out, <<n, l>>) = Times(n, l)

(* ------------------------------- join ------------------------------------ *)
(* Lines are sequences of fields; at1 and at2 are the lines held, n1 and n2  *)
(* say whether there is one; file 2 is read again from bot2 for each line of *)
(* file 1 with the same field, and from top2 when they are through.          *)
LiField(l, j) == IF j \in DOMAIN l THEN l[j] ELSE 0
LiWithout(l, j) == [i \in 1..Len(l) - 1 |-> IF i < j THEN l[i] ELSE l[i + 1]]
LiRest(l, j) == IF j \in DOMAIN l THEN LiWithout(l, j) ELSE l

LiN1(job, s) == s.at1 <= Len(job.file)
LiN2(job, s) == s.at2 <= Len(job.file2)
LiJoinCmp(job, s) == LiField(job.file[s.at1], job.j1) - LiField(job.file2[s.at2], job.j2)

LiOutput(job, s, on1, on2) ==
    LET l1 == IF on1 THEN job.file[s.at1] ELSE <<>>
        l2 == IF on2 THEN job.file2[s.at2] ELSE <<>>
        line == <<IF on1 THEN LiField(l1, job.j1) ELSE LiField(l2, job.j2)>>
                \o LiRest(l1, job.j1) \o LiRest(l2, job.j2)
    IN [s EXCEPT !.out = Append(@, line)]

LiGet1(s) == [s EXCEPT !.at1 = @ + 1]
LiGet2(s) == [s EXCEPT !.at2 = @ + 1]
LiSeek2(s, line) == [s EXCEPT !.at2 = line]

RECURSIVE LiRun2(_, _)
LiRun2(job, s) ==
    IF LiN2(job, s) /\ LiJoinCmp(job, s) = 0
    THEN LiRun2(job, LET t == LiOutput(job, s, TRUE, TRUE) IN [LiGet2(t) EXCEPT !.top2 = s.at2 + 1])
    ELSE s

RECURSIVE LiAgain(_, _)
LiAgain(job, s) ==
    LET both == LiN1(job, s) /\ LiN2(job, s)
    IN IF both /\ LiJoinCmp(job, s) = 0 THEN LiAgain(job, LiGet2(LiOutput(job, s, TRUE, TRUE)))
       ELSE IF (both /\ LiJoinCmp(job, s) < 0) \/ ~LiN2(job, s)
            THEN LiAgain(job, LiGet1(LiSeek2(s, s.bot2)))
            ELSE [LiSeek2(s, s.top2) EXCEPT !.bot2 = s.top2]

RECURSIVE LiJoin(_, _)
LiJoin(job, s) ==
    LET n1 == LiN1(job, s)
        n2 == LiN2(job, s)
        c == LiJoinCmp(job, s)
    IN IF ~(n1 /\ n2) /\ (job.a = {} \/ ~(n1 \/ n2)) THEN s.out
       ELSE IF ~n1 \/ (n2 /\ c > 0)
            THEN LET t == IF 2 \in job.a THEN LiOutput(job, s, FALSE, TRUE) ELSE s
                 IN LiJoin(job, [LiGet2(t) EXCEPT !.bot2 = s.at2 + 1])
       ELSE IF ~n2 \/ c < 0
            THEN LiJoin(job, LiGet1(IF 1 \in job.a THEN LiOutput(job, s, TRUE, FALSE) ELSE s))
       ELSE LET t == LiRun2(job, s) IN LiJoin(job, LiAgain(job, LiGet1(LiSeek2(t, t.bot2))))

LiJoinRun(job) == LiJoin(job, [at1 |-> 1, at2 |-> 1, bot2 |-> 1, top2 |-> 1, out |-> <<>>])

(* join on sorted files: one line for each pair of lines with the same       *)
(* field, and with -a one for each line of the file that is in no pair.      *)
LiJoinRight(job) ==
    LET a == job.file
        b == job.file2
        K1(i) == LiField(a[i], job.j1)
        K2(i) == LiField(b[i], job.j2)
        out == LiJoinRun(job)
        Pairs == {p \in (DOMAIN a) \X (DOMAIN b) : K1(p[1]) = K2(p[2])}
        Line(p) == <<K1(p[1])>> \o LiRest(a[p[1]], job.j1) \o LiRest(b[p[2]], job.j2)
        Lone1 == {i \in DOMAIN a : 1 \in job.a /\ \A p \in Pairs : p[1] # i}
        Lone2 == {i \in DOMAIN b : 2 \in job.a /\ \A p \in Pairs : p[2] # i}
        Want(l) == Cardinality({p \in Pairs : Line(p) = l})
                   + Cardinality({i \in Lone1 : <<K1(i)>> \o LiRest(a[i], job.j1) = l})
                   + Cardinality({i \in Lone2 : <<K2(i)>> \o LiRest(b[i], job.j2) = l})
        sorted == /\ \A i \in 1..Len(a) - 1 : K1(i) <= K1(i + 1)
                  /\ \A i \in 1..Len(b) - 1 : K2(i) <= K2(i + 1)
    IN sorted => /\ Len(out) = Cardinality(Pairs) + Cardinality(Lone1) + Cardinality(Lone2)
                 /\ \A k \in DOMAIN out : SoCount(out, out[k]) = Want(out[k])

(* ------------------------------- tsort ----------------------------------- *)
(* Nodes in order of appearance; the predecessors of a node, last one first. *)
LiIndex(nodes, x) == IF \E i \in DOMAIN nodes : nodes[i] = x THEN nodes ELSE Append(nodes, x)

LiGraph(pairs) ==
    FoldLeft(LAMBDA g, p :
                 LET nodes == LiIndex(LiIndex(g.nodes, p[1]), p[2])
                     old == [x \in {nodes[i] : i \in DOMAIN nodes} |->
                                IF x \in DOMAIN g.pred THEN g.pred[x] ELSE <<>>]
                 IN [nodes |-> nodes,
                     pred |-> IF p[1] = p[2] \/ \E i \in DOMAIN old[p[2]] : old[p[2]][i] = p[1] THEN old
                              ELSE [old EXCEPT ![p[2]] = <<p[1]>> \o @]],
             [nodes |-> <<>>, pred |-> [x \in {} |-> <<>>]], pairs)

(* findloop: back along the first live predecessor until a node is met again *)
RECURSIVE LiWalk(_, _, _, _)
LiWalk(g, live, seen, i) ==
    IF i \in seen THEN i
    ELSE LiWalk(g, live, seen \cup {i}, SelectSeq(g.pred[i], LAMBDA p : p \in live)[1])

RECURSIVE LiTsort(_, _, _)
LiTsort(g, live, out) ==
    LET Free == {i \in DOMAIN g.nodes : /\ g.nodes[i] \in live
                                        /\ \A k \in DOMAIN g.pred[g.nodes[i]] :
                                              g.pred[g.nodes[i]][k] \notin live}
        Live == {i \in DOMAIN g.nodes : g.nodes[i] \in live}
        Lowest(S) == CHOOSE i \in S : \A j \in S : i <= j
        next == IF Free # {} THEN g.nodes[Lowest(Free)]
                ELSE LiWalk(g, live, {}, g.nodes[Lowest(Live)])
    IN IF live = {} THEN out ELSE LiTsort(g, live \ {next}, Append(out, next))

LiTsortRun(job) ==
    LET g == LiGraph(job.pairs) IN LiTsort(g, {g.nodes[i] : i \in DOMAIN g.nodes}, <<>>)

RECURSIVE LiReach(_, _, _)
LiReach(pairs, S, n) ==
    IF n = 0 THEN S
    ELSE LiReach(pairs, S \cup {pairs[i][2] : i \in {k \in DOMAIN pairs : pairs[k][1] \in S
                                                                         /\ pairs[k][1] # pairs[k][2]}}, n - 1)

(* tsort writes every name once, and the first of a pair before the second   *)
(* unless there is a cycle: then a cycle is all that can be broken at first. *)
LiTsortRight(job) ==
    LET out == LiTsortRun(job)
        Names == {job.pairs[i][k] : i \in DOMAIN job.pairs, k \in 1..2}
        Place(x) == CHOOSE i \in DOMAIN out : out[i] = x
        After(x) == UNION {LiReach(job.pairs, {job.pairs[i][2]}, Cardinality(Names)) :
                              i \in {k \in DOMAIN job.pairs : job.pairs[k][1] = x
                                                              /\ job.pairs[k][2] # x}}
        Wrong == {x \in Names : \E i \in DOMAIN job.pairs :
                     job.pairs[i][2] = x /\ Place(job.pairs[i][1]) > Place(x)}
    IN /\ Len(out) = Cardinality(Names) /\ {out[i] : i \in DOMAIN out} = Names
       /\ \A x \in Wrong : x \in After(x)

(* -------------------------------- look ----------------------------------- *)
(* Words are separated by newlines (0); positions count from 0.              *)
LiText(words) == FlattenSeq([i \in DOMAIN words |-> Append(words[i], 0)])
LiEol(t, p) == CHOOSE q \in p..Len(t) : /\ t[q] = 0 /\ \A x \in p..q - 1 : t[x] # 0
LiWordAt(t, p) == SubSeq(t, p + 1, LiEol(t, p + 1) - 1)
LiWordOver(t, p) == LiEol(t, p + 1)
LiCanon(job, w) ==
    LET kept == IF job.dict THEN SelectSeq(w, LAMBDA c : SoLetter(c) \/ c \in SoDigit) ELSE w
    IN [i \in 1..Len(kept) |-> IF job.fold /\ kept[i] \in 65..90 THEN kept[i] + 32 ELSE kept[i]]

(* compare: -1 when the key is a true beginning of the word.                 *)
LiLook(job, key, w) ==
    IF key = w THEN 0 ELSE IF IsPrefix(key, w) THEN -1 ELSE -2 * SoLex(key, w, 1)

RECURSIVE LiHalve(_, _, _, _, _)
LiHalve(job, t, key, bot, top) ==
    LET half == (top + bot) \div 2
        mid == IF half >= Len(t) THEN half + 1 ELSE LiEol(t, half + 1)
        c == LiLook(job, key, LiCanon(job, LiWordAt(t, mid)))
    IN IF mid >= Len(t) THEN [bot |-> bot, top |-> top]
       ELSE IF c <= 0 THEN IF top <= mid THEN [bot |-> bot, top |-> top]
                           ELSE LiHalve(job, t, key, bot, mid)
       ELSE LiHalve(job, t, key, mid, top)

RECURSIVE LiFrom(_, _, _, _, _)
LiFrom(job, t, key, p, top) ==     \* up to the first word that fits
    LET c == LiLook(job, key, LiCanon(job, LiWordAt(t, p)))
    IN IF p >= top THEN p
       ELSE IF p >= Len(t) \/ c = -2 THEN Len(t)
       ELSE IF c <= 0 THEN p ELSE LiFrom(job, t, key, LiWordOver(t, p), top)

RECURSIVE LiWhile(_, _, _, _)
LiWhile(job, t, key, p) ==
    IF p < Len(t) /\ LiLook(job, key, LiCanon(job, LiWordAt(t, p))) \in {-1, 0}
    THEN <<LiWordAt(t, p)>> \o LiWhile(job, t, key, LiWordOver(t, p)) ELSE <<>>

LiLookRun(job) ==
    LET t == LiText(job.file)
        key == LiCanon(job, job.key)
        s == LiHalve(job, t, key, 0, Len(t))
    IN LiWhile(job, t, key, LiFrom(job, t, key, s.bot, s.top))

(* look finds, in a sorted list, all words that begin with the key.          *)
LiLookRight(job) ==
    LiAscending([i \in DOMAIN job.file |-> LiCanon(job, job.file[i])]) =>
       LiLookRun(job) = SelectSeq(job.file, LAMBDA w : IsPrefix(LiCanon(job, job.key), LiCanon(job, w)))

(* -------------------------------- tail ----------------------------------- *)
(* The last LiLBIN bytes in a circular buffer: data is what was read, i the  *)
(* place of the next byte, partial while the buffer has not been filled.     *)
LiBin(data) ==
    [i |-> Len(data) % LiLBIN, partial |-> Len(data) < LiLBIN,
     b |-> [k \in 0..LiLBIN - 1 |->
               LET Here == {x \in DOMAIN data : (x - 1) % LiLBIN = k}
               IN IF Here = {} THEN -1 ELSE data[CHOOSE x \in Here : \A y \in Here : y <= x]]]

LiSpan(s, from, to) ==     \* bytes after place from up to place to, around the end
    IF from < to THEN [k \in 1..to - from - 1 |-> s.b[from + k]]
    ELSE [k \in 1..LiLBIN - from - 1 |-> s.b[from + k]] \o [k \in 1..to |-> s.b[k - 1]]

(* Back from place k to the newline before, to the whole circle or to the    *)
(* beginning of what there is (-1).                                          *)
RECURSIVE LiBack(_, _)
LiBack(s, k) ==
    LET d == IF k - 1 < 0 THEN IF s.partial THEN -1 ELSE LiLBIN - 1 ELSE k - 1
    IN IF d = -1 \/ s.b[d] = SoNL \/ d = s.i THEN d ELSE LiBack(s, d)

RECURSIVE LiLinesBack(_, _, _, _)
LiLinesBack(s, k, j, n) ==
    LET d == LiBack(s, k)
    IN IF d = -1 \/ ~(j < n /\ d # s.i) THEN d ELSE LiLinesBack(s, d, j + 1, n)

LiFromFull(s) ==   \* the whole circle was seen: the first broken line goes
    LET RECURSIVE On(_)
        On(k) == LET d == (k + 1) % LiLBIN
                 IN IF s.b[d] = SoNL \/ d = s.i THEN d ELSE On(d)
    IN On(s.i)

(* -r: a newline is forced at the end, and the lines come out as they are    *)
(* met.                                                                      *)
RECURSIVE LiBackwards(_, _, _, _, _)
LiBackwards(s, lastnl, j, n, out) ==
    LET d == LiBack(s, lastnl)
        Line == IF d < lastnl THEN [x \in 1..lastnl - d |-> s.b[d + x]]
                ELSE [x \in 1..LiLBIN - d - 1 |-> s.b[d + x]] \o [x \in 1..lastnl + 1 |-> s.b[x - 1]]
        put == IF j > 0 THEN out \o Line ELSE out
    IN IF d = -1 THEN out \o [x \in 1..lastnl + 1 |-> s.b[x - 1]]
       ELSE IF j < n /\ d # s.i THEN LiBackwards(s, d, j + 1, n, put) ELSE put

LiForced(s) ==
    IF s.b[(s.i + LiLBIN - 1) % LiLBIN] = SoNL THEN s
    ELSE [b |-> [s.b EXCEPT ![s.i] = SoNL], i |-> (s.i + 1) % LiLBIN,
          partial |-> s.partial /\ s.i + 1 < LiLBIN]

LiTailRun(job) ==
    LET f == job.text
        n == IF job.unit = "r" /\ job.n = 0 THEN LiLBIN ELSE job.n
        keep == IF job.unit = "c" THEN n ELSE LiLBIN - 1
        data == IF ~job.piped /\ Len(f) > keep THEN SubSeq(f, Len(f) - keep + 1, Len(f)) ELSE f
        s == LiBin(data)
        at == IF job.unit = "c"
              THEN (IF n <= s.i THEN s.i - n ELSE IF s.partial THEN 0
                    ELSE IF n >= LiLBIN THEN s.i + 1 ELSE s.i - n + LiLBIN) - 1
              ELSE LET k == LiLinesBack(s, s.i, 0, n) IN IF k = s.i THEN LiFromFull(s) ELSE k
        Newlines == {i \in DOMAIN f : f[i] = SoNL}
    IN CASE job.unit = "+l" ->
            (IF Cardinality(Newlines) < n THEN <<>>
             ELSE LET after == CHOOSE i \in Newlines \cup {0} : Cardinality({x \in Newlines : x <= i}) = n
                  IN SubSeq(f, after + 1, Len(f)))
         [] job.unit \in {"c", "l", "r"} /\ n = 0 -> <<>>
         [] ~job.piped /\ job.unit = "c" /\ n > 0 -> data
         [] job.unit = "r" /\ n > 0 -> LET t == LiForced(s) IN LiBackwards(t, t.i, 0, n, <<>>)
         [] OTHER -> LiSpan(s, at, s.i)

RECURSIVE LiCut(_)
LiCut(f) ==      \* the lines of a text that ends in a newline
    IF f = <<>> THEN <<>>
    ELSE LET e == SoUpTo(f, 1, {SoNL}) IN <<SubSeq(f, 1, e)>> \o LiCut(SubSeq(f, e + 1, Len(f)))

(* tail -n writes the last n lines, or the last n characters, of a text that *)
(* fits in its buffer, tail -nr the same lines last first; of a longer text  *)
(* it writes the end, from a pipe without the line that is broken.           *)
LiTailRight(job) ==
    LET f == job.text
        lines == LiCut(f)
        n == IF job.unit = "r" /\ job.n = 0 THEN Len(lines) ELSE job.n
        last == SubSeq(lines, Len(lines) - SoLess(n, Len(lines)) + 1, Len(lines))
        out == LiTailRun(job)
    IN CASE job.unit = "+l" -> out = FlattenSeq(SubSeq(lines, job.n + 1, Len(lines)))
         [] job.unit = "c" /\ (job.n < LiLBIN \/ ~job.piped) ->
            out = SubSeq(f, Len(f) - SoLess(n, Len(f)) + 1, Len(f))
         [] job.unit = "l" -> IF Len(FlattenSeq(last)) < LiLBIN - 1 THEN out = FlattenSeq(last)
                              ELSE IF ~job.piped \/ Len(Last(lines)) >= LiLBIN THEN IsSuffix(out, f)
                              ELSE \E k \in 1..Len(lines) + 1 : out = FlattenSeq(SubSeq(lines, k, Len(lines)))
         [] job.unit = "r" -> Len(f) \in 1..LiLBIN - 2 => out = FlattenSeq(Reverse(last))
         [] OTHER -> IsSuffix(out, f) /\ Len(out) <= LiLBIN

(* -------------------------------- split ---------------------------------- *)
RECURSIVE LiSplit(_, _)
LiSplit(count, f) ==
    IF f = <<>> THEN <<>>
    ELSE <<SubSeq(f, 1, SoLess(count, Len(f)))>> \o LiSplit(count, SubSeq(f, count + 1, Len(f)))

LiSplitRun(job) == LiSplit(job.n, job.file)

(* The pieces of split put together again are the file, none is empty, and   *)
(* all but the last have the count that was asked for.                       *)
LiSplitRight(job) ==
    LET p == LiSplitRun(job)
    IN /\ FlattenSeq(p) = job.file
       /\ \A i \in DOMAIN p : p[i] # <<>> /\ (i < Len(p) => Len(p[i]) = job.n)

(* --------------------------------- tr ------------------------------------ *)
(* next: the characters a string stands for; a - after one makes a range,    *)
(* unless nothing or something lower follows.                                *)
RECURSIVE LiExpand(_, _)
LiExpand(s, last) ==
    IF s = <<>> THEN <<>>
    ELSE IF last = 0 \/ Head(s) # 45 THEN <<Head(s)>> \o LiExpand(Tail(s), Head(s))
    ELSE IF Len(s) = 1 THEN <<45>>
    ELSE IF s[2] < last THEN <<45>> \o LiExpand(SubSeq(s, 3, Len(s)), s[2] - 1)
    ELSE [k \in 1..s[2] - last |-> last + k] \o LiExpand(SubSeq(s, 3, Len(s)), 0)

LiCodes(job) ==
    LET s1 == LiExpand(job.s1, 0)
        from == IF job.c THEN SelectSeq([x \in 1..127 |-> x], LAMBDA x : \A i \in DOMAIN s1 : s1[i] # x)
                ELSE s1
        to == LiExpand(job.s2, 0)
        Sent(i) == IF to = <<>> THEN 0 ELSE to[SoLess(i, Len(to))]
        Of(x) == {i \in DOMAIN from : from[i] = x}
        last(x) == CHOOSE i \in Of(x) : \A j \in Of(x) : j <= i
    IN [code |-> [x \in 0..127 |->
                     IF Of(x) = {} THEN x
                     ELSE IF job.d THEN 0
                     ELSE IF Sent(last(x)) = 0 THEN x ELSE Sent(last(x))],
        squeez |-> {to[i] : i \in DOMAIN to} \cup {0}]

LiTrWith(job, c) ==
    FoldLeft(LAMBDA out, x : LET y == c.code[x]
                             IN IF x = 0 \/ y = 0 THEN out
                                ELSE IF job.s /\ out # <<>> /\ Last(out) = y /\ y \in c.squeez THEN out
                                ELSE Append(out, y),
             <<>>, job.text)
LiTrRun(job) == LiTrWith(job, LiCodes(job))

(* tr: what the first string does not name passes; with -d it is all that    *)
(* passes; with -s no character of the second string follows itself; and     *)
(* letters changed to capitals and back are the file again.                  *)
LiTrRight(job) ==
    LET out == LiTrRun(job)
        Named == {LiExpand(job.s1, 0)[i] : i \in DOMAIN LiExpand(job.s1, 0)}
        Hit(x) == IF job.c THEN x \notin Named ELSE x \in Named
        To == {LiExpand(job.s2, 0)[i] : i \in DOMAIN LiExpand(job.s2, 0)}
        back == [job EXCEPT !.s1 = job.s2, !.s2 = job.s1, !.text = out]
    IN /\ job.d => out = SelectSeq(job.text, LAMBDA x : ~Hit(x)) \/ job.s
       /\ ~job.d /\ ~job.s => /\ Len(out) = Len(job.text)
                              /\ \A i \in DOMAIN out : IF Hit(job.text[i]) /\ To # {} THEN out[i] \in To
                                                       ELSE out[i] = job.text[i]
       /\ job.s => \A i \in 1..Len(out) - 1 : out[i] = out[i + 1] => out[i] \notin To
       /\ (job.capitals /\ \A i \in DOMAIN job.text : job.text[i] \notin To) => LiTrRun(back) = job.text

(* --------------------------------- cmp ----------------------------------- *)
(* otoi: a leading 0 makes a number octal.                                   *)
RECURSIVE LiOtoi(_, _, _)
LiOtoi(s, base, v) ==
    IF s = <<>> \/ s[1] < 48 \/ s[1] > 57 THEN v ELSE LiOtoi(Tail(s), base, v * base + s[1] - 48)
LiSkipBytes(s) == LiOtoi(s, IF s # <<>> /\ s[1] = 48 THEN 8 ELSE 10, 0)

(* The loop: chr and line count, said is what is printed, e is eflg.         *)
RECURSIVE LiCmpLoop(_, _, _, _)
LiCmpLoop(lflg, f, g, s) ==
    LET c1  == IF f = <<>> THEN -1 ELSE f[1]
        c2  == IF g = <<>> THEN -1 ELSE g[1]
        chr == s.chr + 1
        Rest(x) == IF x = <<>> THEN x ELSE Tail(x)
    IN CASE c1 = c2 /\ c1 = -1 -> [rc |-> IF s.e THEN 1 ELSE 0, said |-> s.said]
         [] c1 = c2 -> LiCmpLoop(lflg, Rest(f), Rest(g), [s EXCEPT !.chr = chr, !.line = IF c1 = 10 THEN @ + 1 ELSE @])
         [] c1 # c2 /\ lflg = 0 -> [rc |-> 1, said |-> s.said]
         [] c1 # c2 /\ lflg # 0 /\ c1 = -1 -> [rc |-> 1, said |-> Append(s.said, <<"EOF", 1>>)]
         [] c1 # c2 /\ lflg # 0 /\ c2 = -1 -> [rc |-> 1, said |-> Append(s.said, <<"EOF", 2>>)]
         [] c1 # c2 /\ lflg = 1 /\ c1 # -1 /\ c2 # -1 -> [rc |-> 1, said |-> <<<<"differ", chr, s.line>>>>]
         [] OTHER -> LiCmpLoop(lflg, Rest(f), Rest(g), [s EXCEPT !.chr = chr, !.e = TRUE, !.said = Append(@, <<chr, c1, c2>>)])

(* job.skips are the third and fourth arguments, job.there the files that    *)
(* can be opened.                                                            *)
LiCmpRun(job) ==
    LET lflg == 1 - (IF job.s THEN 1 ELSE 0) + (IF job.l THEN 1 ELSE 0)
        Skip(k) == IF k \in DOMAIN job.skips THEN LiSkipBytes(job.skips[k]) ELSE 0
        Drop(f, n) == SubSeq(f, n + 1, Len(f))
        Bad == {k \in {1, 2} : k \notin job.there}
        Short == {k \in {1, 2} : Skip(k) > Len(job.files[k])}
        First(S) == IF 1 \in S THEN 1 ELSE 2
    IN CASE Bad # {} -> [rc |-> 2, said |-> IF lflg # 0 THEN <<<<"open", First(Bad)>>>> ELSE <<>>]
         [] Bad = {} /\ Short # {} -> [rc |-> 1, said |-> <<<<"EOF", First(Short)>>>>]
         [] OTHER -> LiCmpLoop(lflg, Drop(job.files[1], Skip(1)), Drop(job.files[2], Skip(2)),
                               [chr |-> 0, line |-> 1, e |-> FALSE, said |-> <<>>])

(* cmp succeeds on equal files and only on them, names the first byte that   *)
(* differs and its line or, with -l, every one of them, and says which file  *)
(* ends first.                                                               *)
LiCmpRight(job) ==
    LET r == LiCmpRun(job)
        n == [k \in {1, 2} |-> IF k \in DOMAIN job.skips THEN job.values[k] ELSE 0]
        f == [k \in {1, 2} |-> SubSeq(job.files[k], n[k] + 1, Len(job.files[k]))]
        common == SoLess(Len(f[1]), Len(f[2]))
        Diffs == {i \in 1..common : f[1][i] # f[2][i]}
        order == SelectSeq([i \in 1..common |-> i], LAMBDA i : i \in Diffs)
        eof == IF Len(f[1]) = Len(f[2]) THEN <<>> ELSE <<<<"EOF", IF Len(f[1]) < Len(f[2]) THEN 1 ELSE 2>>>>
    IN /\ job.there # {1, 2} => r.rc = 2
       /\ (job.there = {1, 2} /\ \A k \in {1, 2} : n[k] <= Len(job.files[k])) =>
            /\ (r.rc = 0) = (f[1] = f[2])
            /\ r.said = IF job.s /\ ~job.l THEN <<>>
                        ELSE IF job.l /\ ~job.s
                        THEN [i \in DOMAIN order |-> <<order[i], f[1][order[i]], f[2][order[i]]>>] \o eof
                        ELSE IF order # <<>>
                        THEN <<<<"differ", order[1], 1 + Cardinality({i \in 1..order[1] - 1 : f[1][i] = 10})>>>>
                        ELSE eof

(* ---------------------------------- dd ----------------------------------- *)
(* The tables for conv=ascii, ebcdic and ibm, from index 0.                  *)
LiEtoa == <<
    0, 1, 2, 3, 156, 9, 134, 127, 151, 141, 142, 11, 12, 13, 14, 15, 16, 17, 18, 19, 157, 133, 8,
    135, 24, 25, 146, 143, 28, 29, 30, 31, 128, 129, 130, 131, 132, 10, 23, 27, 136, 137, 138, 139, 140, 5,
    6, 7, 144, 145, 22, 147, 148, 149, 150, 4, 152, 153, 154, 155, 20, 21, 158, 26, 32, 160, 161, 162, 163,
    164, 165, 166, 167, 168, 91, 46, 60, 40, 43, 33, 38, 169, 170, 171, 172, 173, 174, 175, 176, 177, 93, 36,
    42, 41, 59, 94, 45, 47, 178, 179, 180, 181, 182, 183, 184, 185, 124, 44, 37, 95, 62, 63, 186, 187, 188,
    189, 190, 191, 192, 193, 194, 96, 58, 35, 64, 39, 61, 34, 195, 97, 98, 99, 100, 101, 102, 103, 104, 105,
    196, 197, 198, 199, 200, 201, 202, 106, 107, 108, 109, 110, 111, 112, 113, 114, 203, 204, 205, 206, 207, 208, 209,
    126, 115, 116, 117, 118, 119, 120, 121, 122, 210, 211, 212, 213, 214, 215, 216, 217, 218, 219, 220, 221, 222, 223,
    224, 225, 226, 227, 228, 229, 230, 231, 123, 65, 66, 67, 68, 69, 70, 71, 72, 73, 232, 233, 234, 235, 236,
    237, 125, 74, 75, 76, 77, 78, 79, 80, 81, 82, 238, 239, 240, 241, 242, 243, 92, 159, 83, 84, 85, 86,
    87, 88, 89, 90, 244, 245, 246, 247, 248, 249, 48, 49, 50, 51, 52, 53, 54, 55, 56, 57, 250, 251, 252,
    253, 254, 255>>
LiAtoe == <<
    0, 1, 2, 3, 55, 45, 46, 47, 22, 5, 37, 11, 12, 13, 14, 15, 16, 17, 18, 19, 60, 61, 50,
    38, 24, 25, 63, 39, 28, 29, 30, 31, 64, 79, 127, 123, 91, 108, 80, 125, 77, 93, 92, 78, 107, 96,
    75, 97, 240, 241, 242, 243, 244, 245, 246, 247, 248, 249, 122, 94, 76, 126, 110, 111, 124, 193, 194, 195, 196,
    197, 198, 199, 200, 201, 209, 210, 211, 212, 213, 214, 215, 216, 217, 226, 227, 228, 229, 230, 231, 232, 233, 74,
    224, 90, 95, 109, 121, 129, 130, 131, 132, 133, 134, 135, 136, 137, 145, 146, 147, 148, 149, 150, 151, 152, 153,
    162, 163, 164, 165, 166, 167, 168, 169, 192, 106, 208, 161, 7, 32, 33, 34, 35, 36, 21, 6, 23, 40, 41,
    42, 43, 44, 9, 10, 27, 48, 49, 26, 51, 52, 53, 54, 8, 56, 57, 58, 59, 4, 20, 62, 225, 65,
    66, 67, 68, 69, 70, 71, 72, 73, 81, 82, 83, 84, 85, 86, 87, 88, 89, 98, 99, 100, 101, 102, 103,
    104, 105, 112, 113, 114, 115, 116, 117, 118, 119, 120, 128, 138, 139, 140, 141, 142, 143, 144, 154, 155, 156, 157,
    158, 159, 160, 170, 171, 172, 173, 174, 175, 176, 177, 178, 179, 180, 181, 182, 183, 184, 185, 186, 187, 188, 189,
    190, 191, 202, 203, 204, 205, 206, 207, 218, 219, 220, 221, 222, 223, 234, 235, 236, 237, 238, 239, 250, 251, 252,
    253, 254, 255>>
LiAtoibm == [LiAtoe EXCEPT ![34] = 90, ![92] = 173, ![94] = 189, ![125] = 79]

(* number: digits, then k, w and b, then x or * and another number; other    *)
(* characters are passed over.  -1: out of range.                            *)
RECURSIVE LiDdNumber(_), LiDdDigits(_, _), LiDdUnits(_, _)
LiDdDigits(s, n) ==
    IF s # <<>> /\ s[1] \in 48..57 /\ n < LiBIG THEN LiDdDigits(Tail(s), n * 10 + s[1] - 48) ELSE <<s, n>>
LiDdUnits(s, n) ==
    IF n >= LiBIG THEN -1
    ELSE IF s = <<>> THEN n
    ELSE CASE s[1] = 107 -> LiDdUnits(Tail(s), n * 1024)
           [] s[1] = 119 -> LiDdUnits(Tail(s), n * 2)
           [] s[1] = 98 -> LiDdUnits(Tail(s), n * 512)
           [] s[1] \in {42, 120} -> LET m == LiDdNumber(Tail(s)) IN IF m = -1 \/ n * m >= LiBIG THEN -1 ELSE n * m
           [] OTHER -> LiDdUnits(Tail(s), n)
LiDdNumber(s) == LET d == LiDdDigits(s, 0) IN LiDdUnits(d[1], d[2])

(* What the arguments set; bs overrides ibs and obs, and without a           *)
(* conversion makes blocks pass from input to output as they are (fflag).    *)
LiDdOption(o, arg) ==
    CASE arg[1] = "conv" /\ arg[2] \in {"ebcdic", "ibm", "ascii"} -> [o EXCEPT !.conv = arg[2]]
      [] arg[1] = "conv" /\ arg[2] \in {"lcase", "ucase", "swab", "noerror", "sync"} -> [o EXCEPT !.cflag = @ \cup {arg[2]}]
      [] arg[1] \in {"ibs", "obs", "cbs", "bs", "skip", "seek", "count", "files"} -> [o EXCEPT ![arg[1]] = arg[2]]
      [] OTHER -> [o EXCEPT !.bad = TRUE]
LiDdOptions(args) ==
    LET zero == [ibs |-> 512, obs |-> 512, cbs |-> 0, bs |-> 0, skip |-> 0, seek |-> 0, count |-> 0, files |-> 1,
                 conv |-> "null", cflag |-> {}, bad |-> FALSE, fflag |-> FALSE]
        o == FoldLeft(LiDdOption, zero, args)
        c == IF o.conv = "null" /\ o.cflag \cap {"lcase", "ucase"} # {} THEN [o EXCEPT !.conv = "cnull"] ELSE o
        b == IF c.bs # 0 THEN [c EXCEPT !.ibs = c.bs, !.obs = c.bs, !.fflag = c.conv = "null"] ELSE c
    IN [b EXCEPT !.bad = b.bad \/ b.ibs = 0 \/ b.obs = 0]

(* flsh: write number failw fails.                                           *)
LiDdFlsh(job, o, s) ==
    IF s.obuf = <<>> \/ s.rc # -1 THEN s
    ELSE LET t == [s EXCEPT !.nofr = IF Len(s.obuf) = o.obs THEN @ + 1 ELSE @,
                            !.nopr = IF Len(s.obuf) = o.obs THEN @ ELSE @ + 1]
         IN IF t.nofr + t.nopr = job.failw THEN [t EXCEPT !.rc = 1]
            ELSE [t EXCEPT !.out = Append(@, s.obuf), !.obuf = <<>>]
LiDdTerm(job, o, s, rc) == LET t == LiDdFlsh(job, o, s) IN IF t.rc = -1 THEN [t EXCEPT !.rc = rc] ELSE t

(* null, and the conversions of one byte that end in it.                     *)
LiDdNull(job, o, s, c) ==
    LET t == [s EXCEPT !.obuf = Append(@, c)] IN IF Len(t.obuf) >= o.obs THEN LiDdFlsh(job, o, t) ELSE t
LiDdNulls(job, o, s, c, n) == FoldLeft(LAMBDA t, x : LiDdNull(job, o, t, x), s, [i \in 1..n |-> c])
LiDdCase(o, c) ==
    LET u == IF "ucase" \in o.cflag /\ c \in 97..122 THEN c - 32 ELSE c
    IN IF "lcase" \in o.cflag /\ u \in 65..90 THEN u + 32 ELSE u
LiDdAscii(job, o, s, cc) ==
    LET c == LiEtoa[cc + 1]
        t == IF c = 32 THEN [s EXCEPT !.nspace = @ + 1]
             ELSE [LiDdNull(job, o, LiDdNulls(job, o, s, 32, s.nspace), LiDdCase(o, c)) EXCEPT !.nspace = 0]
    IN IF o.cbs = 0 THEN LiDdNull(job, o, s, LiDdCase(o, c))
       ELSE IF t.cbc + 1 >= o.cbs THEN [LiDdNull(job, o, t, 10) EXCEPT !.cbc = 0, !.nspace = 0]
       ELSE [t EXCEPT !.cbc = @ + 1]
LiDdEbcdic(job, o, table, s, cc) ==
    LET c == table[LiDdCase(o, cc) + 1]
        cbc == s.cbc + 1
    IN IF o.cbs = 0 THEN LiDdNull(job, o, s, c)
       ELSE IF cc = 10 THEN [LiDdNulls(job, o, s, table[33], o.cbs - SoLess(o.cbs, s.cbc)) EXCEPT !.cbc = 0]
       ELSE LET t == [s EXCEPT !.cbc = cbc, !.ntrunc = IF s.cbc = o.cbs THEN @ + 1 ELSE @]
            IN IF cbc <= o.cbs THEN LiDdNull(job, o, t, c) ELSE t
LiDdConv(job, o, s, c) ==
    CASE s.rc # -1         -> s
      [] o.conv = "ascii"  -> LiDdAscii(job, o, s, c)
      [] o.conv = "ebcdic" -> LiDdEbcdic(job, o, LiAtoe, s, c)
      [] o.conv = "ibm"    -> LiDdEbcdic(job, o, LiAtoibm, s, c)
      [] OTHER             -> LiDdNull(job, o, s, IF o.conv = "cnull" THEN LiDdCase(o, c) ELSE c)

(* swab exchanges the bytes of an even number of pairs.                      *)
LiDdSwab(b, ibc) ==
    LET c == 2 * (ibc \div 4)
    IN [i \in DOMAIN b |-> IF i > 2 * c THEN b[i] ELSE IF i % 2 = 1 THEN b[i + 1] ELSE b[i - 1]]

(* A read of a record, of an end of file (<<>>) or, after some bytes, of an  *)
(* error.  The buffer keeps what was in it beyond the bytes that are read.   *)
LiDdRead(s) == IF s.reads = <<>> THEN [err |-> FALSE, data |-> <<>>] ELSE s.reads[1]
LiDdFill(buf, data) == [i \in DOMAIN buf |-> IF i <= Len(data) THEN data[i] ELSE buf[i]]
LiDdRest(s) == IF s.reads = <<>> THEN <<>> ELSE Tail(s.reads)

RECURSIVE LiDdLoop(_, _, _), LiDdSkip(_, _)
LiDdLoop(job, o, s) ==
    LET stop == o.count # 0 /\ s.nifr + s.nipr = o.count
        r    == LiDdRead(s)
        buf0 == IF o.cflag \cap {"noerror", "sync"} # {} THEN [i \in 1..o.ibs |-> 0] ELSE s.ibuf
        buf  == IF stop THEN s.ibuf ELSE LiDdFill(buf0, r.data)
        err  == ~stop /\ r.err
        Set  == {i \in 1..o.ibs : buf[i] # 0}
        ibc0 == IF stop THEN 0 ELSE IF err THEN (IF Set = {} THEN 0 ELSE SoMost(Set) - 1) ELSE Len(r.data)
        files == IF ibc0 = 0 THEN s.files - 1 ELSE s.files
        t    == [s EXCEPT !.ibuf = buf, !.reads = IF stop THEN @ ELSE LiDdRest(s), !.files = files]
        ibc  == IF ibc0 # o.ibs /\ "sync" \in o.cflag THEN o.ibs ELSE ibc0
        b    == IF "swab" \in o.cflag THEN LiDdSwab(buf, ibc) ELSE buf
        u    == [t EXCEPT !.ibuf = b, !.nipr = IF ibc0 # o.ibs THEN @ + 1 ELSE @, !.nifr = IF ibc0 = o.ibs THEN @ + 1 ELSE @]
        v    == IF o.fflag THEN LiDdFlsh(job, o, [u EXCEPT !.obuf = SubSeq(b, 1, ibc)])
                ELSE FoldLeft(LAMBDA x, c : LiDdConv(job, o, x, c), u, SubSeq(b, 1, ibc))
    IN IF err /\ "noerror" \notin o.cflag THEN LiDdTerm(job, o, t, 1)
       ELSE IF ibc0 = 0 /\ files <= 0 THEN LiDdTerm(job, o, t, 0)
       ELSE IF v.rc # -1 THEN v ELSE LiDdLoop(job, o, v)

LiDdSkip(reads, n) ==
    IF n = 0 \/ reads = <<>> THEN reads
    ELSE IF reads[1].err \/ reads[1].data = <<>> THEN Tail(reads) ELSE LiDdSkip(Tail(reads), n - 1)

LiDdRun(job) ==
    LET o == LiDdOptions(job.args)
        s == [reads |-> LiDdSkip(job.reads, o.skip), ibuf |-> [i \in 1..o.ibs |-> 0], files |-> o.files, obuf |-> <<>>,
              out |-> <<>>, nifr |-> 0, nipr |-> 0, nofr |-> 0, nopr |-> 0, ntrunc |-> 0, cbc |-> 0, nspace |-> 0, rc |-> -1]
    IN IF o.bad THEN [s EXCEPT !.rc = 1] ELSE LiDdLoop(job, o, s)

(* dd: without errors the output is the input, byte by byte, changed by the  *)
(* conversion and cut into blocks of obs bytes, of which only the last is    *)
(* shorter, or, with bs alone, into the records of the input; files, skip    *)
(* and count choose the records; the counts are those of the blocks; with    *)
(* sync a short record is filled up; with swab the pairs of a record of four *)
(* bytes or a multiple are exchanged; with noerror a record that cannot be   *)
(* read counts as the end of a file.  What a failing write leaves is a       *)
(* prefix of that.                                                           *)
LiDdRecords(job, o) ==
    LET in == LiDdSkip(job.reads, o.skip)
        Ends(k) == Cardinality({i \in 1..k : in[i].data = <<>>})
        kept == SelectSeq([i \in DOMAIN in |-> i], LAMBDA i : Ends(i) < o.files /\ in[i].data # <<>>)
        data == [i \in DOMAIN kept |-> in[kept[i]].data]
    IN IF o.count = 0 THEN data ELSE SubSeq(data, 1, SoLess(o.count, Len(data)))
LiDdCopyRight(job) ==
    LET r == LiDdRun(job)
        o == LiDdOptions(job.args)
        recs == LiDdRecords(job, o)
        Swapped(x) == IF "swab" \in o.cflag /\ Len(x) % 4 = 0
                      THEN [i \in DOMAIN x |-> x[IF i % 2 = 1 THEN i + 1 ELSE i - 1]] ELSE x
        padded == [i \in DOMAIN recs |-> IF "sync" \notin o.cflag THEN Swapped(recs[i])
                                         ELSE Swapped(recs[i] \o [k \in 1..o.ibs - Len(recs[i]) |-> 0])]
        whole == FlattenSeq(padded)
        done == FlattenSeq(r.out)
    IN /\ \A i \in DOMAIN done : i <= Len(whole) /\ done[i] = LiDdCase(o, whole[i])
       /\ (r.rc = 0) = (Len(done) = Len(whole))
       /\ r.rc = 1 => job.failw = Len(r.out) + 1
       /\ IF o.fflag THEN \A i \in DOMAIN r.out : r.out[i] = padded[i]
          ELSE \A i \in DOMAIN r.out : Len(r.out[i]) <= o.obs /\ (i < Len(r.out) => Len(r.out[i]) = o.obs)
       /\ r.rc = 0 => /\ r.nofr = Cardinality({i \in DOMAIN r.out : Len(r.out[i]) = o.obs})
                      /\ r.nofr + r.nopr = Len(r.out)
                      /\ o.files = 1 => r.nifr + r.nipr = Len(recs)

(* Lines that conv=ebcdic makes into cards of cbs bytes and conv=ascii into  *)
(* lines again are cut to cbs bytes and lose their blanks at the end, and    *)
(* the cut ones are counted.                                                 *)
LiDdCardsRight(job) ==
    LET to == LiDdRun([job EXCEPT !.args = <<<<"conv", "ebcdic">>>> \o @])
        back == LiDdRun([job EXCEPT !.args = <<<<"conv", "ascii">>>> \o @,
                                    !.reads = [i \in DOMAIN to.out |-> [err |-> FALSE, data |-> to.out[i]]]])
        cbs == LiDdOptions(job.args).cbs
        Cut(l) == SubSeq(l, 1, SoLess(cbs, Len(l)))
        Bare(l) == SubSeq(l, 1, SoMost({0} \cup {i \in DOMAIN l : l[i] # 32}))
    IN /\ FlattenSeq(back.out) = FlattenSeq([i \in DOMAIN job.lines |-> Bare(Cut(job.lines[i])) \o <<10>>])
       /\ Len(FlattenSeq(to.out)) = cbs * Len(job.lines)
       /\ to.ntrunc = Cardinality({i \in DOMAIN job.lines : Len(job.lines[i]) > cbs})

(* The tables for ASCII and EBCDIC undo each other; number is the product of *)
(* its factors, if that is in range.                                         *)
LiDdTables == \A c \in 0..255 : LiEtoa[LiAtoe[c + 1] + 1] = c /\ LiAtoe[LiEtoa[c + 1] + 1] = c
LiDdNumberRight(job) ==
    LET Unit(u) == CASE u = 107 -> 1024 [] u = 119 -> 2 [] OTHER -> 512
        value == FoldLeft(LAMBDA v, u : IF v >= LiBIG THEN v ELSE v * Unit(u), job.n, job.units)
        product == IF value >= LiBIG THEN value ELSE value * job.m
    IN LiDdNumber(job.digits \o job.units \o <<120>> \o job.digits2) = IF product >= LiBIG THEN -1 ELSE product

LiDdRight(job) ==
    CASE job.kind = "copy"   -> LiDdCopyRight(job)
      [] job.kind = "cards"  -> LiDdCardsRight(job)
      [] job.kind = "number" -> LiDdNumberRight(job) /\ LiDdTables

------------------------------------------------------------------------------
LiRight(job) ==
    CASE job.prog = "uniq" -> LiUniqRight(job)
      [] job.prog = "comm" -> LiCommRight(job)
      [] job.prog = "join" -> LiJoinRight(job)
      [] job.prog = "tsort" -> LiTsortRight(job)
      [] job.prog = "look" -> LiLookRight(job)
      [] job.prog = "tail" -> LiTailRight(job)
      [] job.prog = "split" -> LiSplitRight(job)
      [] job.prog = "tr" -> LiTrRight(job)
      [] job.prog = "cmp" -> LiCmpRight(job)
      [] job.prog = "dd" -> LiDdRight(job)
      [] job.prog = "qsort" -> SoArrayRight(job)
==============================================================================
