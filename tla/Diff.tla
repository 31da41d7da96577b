-------------------------------- MODULE Diff ---------------------------------
(* diff and diff3.  A line is <<text, blanks>>; readhash gives it a number,  *)
(* and two different lines may have the same one, as in the code.            *)
EXTENDS Integers, Sequences, SequencesExt, FiniteSets

CONSTANTS
    DiMod      \* numbers that readhash can give

DiUpto(n) == [i \in 1..n |-> i]

(* ------------------------- reading and pruning --------------------------- *)
DiReadhash(bflag, l) == ((IF bflag THEN l[1] ELSE l[1] + l[2]) % DiMod) + 1
DiPrepare(bflag, f) == [i \in 1..Len(f) |-> DiReadhash(bflag, f[i])]
DiSame(bflag, l, m) == l[1] = m[1] /\ (bflag \/ l[2] = m[2])

RECURSIVE DiPref(_, _, _)
DiPref(a, b, n) ==
    IF n < Len(a) /\ n < Len(b) /\ a[n + 1] = b[n + 1] THEN DiPref(a, b, n + 1) ELSE n

RECURSIVE DiSuff(_, _, _, _)
DiSuff(a, b, pref, n) ==
    IF n < Len(a) - pref /\ n < Len(b) - pref /\ a[Len(a) - n] = b[Len(b) - n]
    THEN DiSuff(a, b, pref, n + 1) ELSE n

(* ------------------------------ sorting ---------------------------------- *)
(* Shellsort of the lines between prefix and suffix, by number and place.    *)
DiGoesFirst(x, y) == y.value > x.value \/ (y.value = x.value /\ y.serial > x.serial)
DiSwap(a, i, j) == [a EXCEPT ![i] = a[j], ![j] = a[i]]

RECURSIVE DiSink(_, _, _)
DiSink(a, i, m) ==
    IF i <= 0 \/ DiGoesFirst(a[i], a[i + m]) THEN a ELSE DiSink(DiSwap(a, i, i + m), i - m, m)

RECURSIVE DiShell(_, _)
DiShell(a, m) ==
    IF m = 0 THEN a
    ELSE DiShell(FoldLeft(LAMBDA x, j : DiSink(x, j, m), a, DiUpto(Len(a) - m)), m \div 2)

RECURSIVE DiGap(_, _)
DiGap(n, j) == IF j > n THEN j \div 2 ELSE DiGap(n, 2 * j)

DiSort(values) ==
    LET n == Len(values)
    IN DiShell([i \in 1..n |-> [value |-> values[i], serial |-> i]],
               IF n = 0 THEN 0 ELSE DiGap(n, 1) - 1)

(* ----------------------------- equivalence ------------------------------- *)
(* For each line of a, where its class begins in b, or 0.                    *)
RECURSIVE DiClasses(_, _, _, _)
DiClasses(a, b, i, j) ==
    IF i > Len(a) THEN a
    ELSE IF j > Len(b) \/ a[i].value < b[j].value
         THEN DiClasses([a EXCEPT ![i].value = 0], b, i + 1, j)
    ELSE IF a[i].value = b[j].value THEN DiClasses([a EXCEPT ![i].value = j], b, i + 1, j)
    ELSE DiClasses(a, b, i, j + 1)

(* The members of the classes of b: the first of each class is negative.     *)
DiMember(b) ==
    Append([j \in 1..Len(b) |-> IF j > 1 /\ b[j - 1].value = b[j].value THEN b[j].serial
                                ELSE -b[j].serial], -1)

DiUnsort(a) ==
    [s \in 1..Len(a) |-> a[CHOOSE i \in 1..Len(a) : a[i].serial = s].value]

(* -------------------------------- stone ---------------------------------- *)
(* s.c[l + 1]: the best candidate of length l; s.cand: all candidates.       *)
DiK(s) == Len(s.c) - 1
DiY(s, l) == s.cand[s.c[l + 1]].y

RECURSIVE DiHalve(_, _, _, _)
DiHalve(s, y, i, j) ==
    LET l == (i + j) \div 2
    IN IF l <= i THEN l + 1
       ELSE IF DiY(s, l) > y THEN DiHalve(s, y, i, l)
       ELSE IF DiY(s, l) < y THEN DiHalve(s, y, l, j)
       ELSE l

DiSearch(s, y) == IF DiY(s, DiK(s)) < y THEN DiK(s) + 1 ELSE DiHalve(s, y, 0, DiK(s) + 1)

DiNewcand(s, l, x, y, pred) ==
    [s EXCEPT !.cand = Append(@, [x |-> x, y |-> y, pred |-> pred]),
              !.c = IF l + 1 > Len(@) THEN Append(@, Len(s.cand) + 1)
                    ELSE [@ EXCEPT ![l + 1] = Len(s.cand) + 1]]

(* All members of the class of line i, from j on; y is that at j.            *)
RECURSIVE DiTry(_, _, _, _, _, _, _)
DiTry(s, b, i, j, y, oldc, oldl) ==
    LET Again(t, c, l) == IF b[j + 1] > 0 THEN DiTry(t, b, i, j + 1, b[j + 1], c, l) ELSE t
        l == DiSearch(s, y)
        pred == IF l # oldl + 1 THEN s.c[l] ELSE oldc
    IN IF y <= s.cand[oldc].y THEN Again(s, oldc, oldl)
       ELSE IF l > DiK(s) THEN DiNewcand(s, l, i, y, pred)
       ELSE IF DiY(s, l) <= y THEN Again(s, pred, oldl)
       ELSE Again(DiNewcand(s, l, i, y, pred), s.c[l + 1], l)

DiStone(a, b) ==
    FoldLeft(LAMBDA s, i : IF a[i] = 0 THEN s ELSE DiTry(s, b, i, a[i], -b[a[i]], s.c[1], 0),
             [c |-> <<1>>, cand |-> <<[x |-> 0, y |-> 0, pred |-> 0]>>], DiUpto(Len(a)))

RECURSIVE DiUnravel(_, _, _, _)
DiUnravel(J, s, pref, p) ==
    IF s.cand[p].y = 0 THEN J
    ELSE DiUnravel([J EXCEPT ![s.cand[p].x + pref] = s.cand[p].y + pref], s, pref, s.cand[p].pred)

(* J: for each line of the first file the line of the second that it is.     *)
DiMatch(bflag, f1, f2) ==
    LET a == DiPrepare(bflag, f1)
        b == DiPrepare(bflag, f2)
        pref == DiPref(a, b, 0)
        suff == DiSuff(a, b, pref, 0)
        s1 == DiSort(SubSeq(a, pref + 1, Len(a) - suff))
        s2 == DiSort(SubSeq(b, pref + 1, Len(b) - suff))
        s == DiStone(DiUnsort(DiClasses(s1, s2, 1, 1)), DiMember(s2))
        J0 == [i \in 0..Len(a) + 1 |-> IF i <= pref THEN i
                                       ELSE IF i > Len(a) - suff THEN i + Len(b) - Len(a) ELSE 0]
    IN DiUnravel(J0, s, pref, s.c[Len(s.c)])

(* check: a match of two lines that only have the same number is undone.     *)
DiCheck(bflag, f1, f2, J) ==
    [i \in DOMAIN J |-> IF i \in 1..Len(f1) /\ J[i] # 0 /\ ~DiSame(bflag, f1[i], f2[J[i]]) THEN 0
                        ELSE J[i]]

(* ------------------------------- output ---------------------------------- *)
(* change: the range in the old file as it is printed, the command, the      *)
(* range in the new one, and the lines that are written.                     *)
DiRange(a, b) == <<IF a > b THEN b ELSE a, b>>
DiChange(f2, out, a, b, c, d) ==
    IF a > b /\ c > d THEN out
    ELSE Append(out, [op |-> IF a > b THEN "a" ELSE IF c > d THEN "d" ELSE "c",
                      old |-> DiRange(a, b), new |-> DiRange(c, d), lines |-> SubSeq(f2, c, d)])

RECURSIVE DiUp(_, _, _)
DiUp(J, m, i) == IF i <= m /\ J[i] = J[i - 1] + 1 THEN DiUp(J, m, i + 1) ELSE i
RECURSIVE DiGone(_, _, _)
DiGone(J, m, i) == IF i < m /\ J[i + 1] = 0 THEN DiGone(J, m, i + 1) ELSE i
RECURSIVE DiDown(_, _)
DiDown(J, i) == IF i >= 1 /\ J[i] = J[i + 1] - 1 /\ J[i] # 0 THEN DiDown(J, i - 1) ELSE i
RECURSIVE DiGoneDown(_, _)
DiGoneDown(J, i) == IF i > 1 /\ J[i - 1] = 0 THEN DiGoneDown(J, i - 1) ELSE i

RECURSIVE DiForward(_, _, _, _, _)
DiForward(f2, m, J, i, out) ==
    IF i > m THEN out
    ELSE LET i0 == DiUp(J, m, i)
             i1 == DiGone(J, m, i0 - 1)
             j1 == J[i1 + 1] - 1
         IN DiForward(f2, m, [J EXCEPT ![i1] = j1], i1 + 1,
                      DiChange(f2, out, i0, i1, J[i0 - 1] + 1, j1))

RECURSIVE DiBackward(_, _, _, _)
DiBackward(f2, J, i, out) ==
    IF i < 1 THEN out
    ELSE LET i0 == DiDown(J, i)
             i1 == DiGoneDown(J, i0 + 1)
             j1 == J[i1 - 1] + 1
         IN DiBackward(f2, [J EXCEPT ![i1] = j1], i1 - 1,
                       DiChange(f2, out, i1, i0, j1, J[i0 + 1] - 1))

DiOutput(opt, f1, f2, J) ==
    LET m == Len(f1)
        K == [J EXCEPT ![0] = 0, ![m + 1] = Len(f2) + 1]
    IN IF m = 0 THEN DiChange(f2, <<>>, 1, 0, 1, Len(f2))
       ELSE IF opt = "e" THEN DiBackward(f2, K, m, <<>>) ELSE DiForward(f2, m, K, 1, <<>>)

DiRun(bflag, opt, f1, f2) == DiOutput(opt, f1, f2, DiCheck(bflag, f1, f2, DiMatch(bflag, f1, f2)))

(* -------------------------------- diff3 ---------------------------------- *)
(* readin: a report of diff as pairs of half-open ranges [from, to).         *)
DiReadin(report) ==
    [i \in 1..Len(report) |->
        LET r == report[i]
            a == IF r.op = "a" THEN 1 ELSE 0
            c == IF r.op = "d" THEN 1 ELSE 0
        IN [old |-> [from |-> r.old[1] + a, to |-> r.old[2] + 1],
            new |-> [from |-> r.new[1] + c, to |-> r.new[2] + 1]]]

(* t: the reports still to be merged, the line last read of each file, the   *)
(* line numbers last known to correspond, the edits and what was printed.    *)
DiSkip(t, i, from) == [t EXCEPT !.cline[i] = IF @ < from - 1 THEN from - 1 ELSE @]

DiShow(t, i, r, how) ==
    LET at == DiSkip(t, i, r.from)
        done == IF how # "shown" THEN t ELSE DiSkip(at, i, r.to)
    IN [done EXCEPT !.last[i] = r.to,
                    !.out = Append(@, [file |-> i, from |-> r.from, to |-> r.to, how |-> how,
                                       lines |-> <<at.cline[i], done.cline[i]>>])]

DiKeep(t, i, r) ==
    LET delta == t.last[3] - t.last[i]
    IN DiShow(t, i, [from |-> r.from - delta, to |-> r.to - delta], "kept")

(* duplicate: the two ranges hold the same lines; the files are put back to  *)
(* where the ranges begin.                                                   *)
DiSameSize(r1, r2) == r1.to - r1.from = r2.to - r2.from
DiLookedAt(t, r1, r2) ==
    IF DiSameSize(r1, r2) THEN DiSkip(DiSkip(t, 1, r1.from), 2, r2.from) ELSE t
DiDuplicate(job, t, r1, r2) ==
    LET u == DiLookedAt(t, r1, r2)
    IN DiSameSize(r1, r2)
       /\ \A n \in 1..r1.to - r1.from : job.f1[u.cline[1] + n] = job.f2[u.cline[2] + n]

DiEflag(eflag, dup) == CASE eflag = "e" -> TRUE
                         [] eflag = "3" -> dup
                         [] eflag = "x" -> ~dup
DiEdit(t, eflag, d, dup) ==
    LET a == DiSkip(t, 3, d.new.from)
        b == DiSkip(a, 3, d.new.to)
    IN IF ~DiEflag(eflag, dup) THEN t
       ELSE [b EXCEPT !.de = Append(@, [old |-> d.old, new |-> <<a.cline[3], b.cline[3]>>])]

DiWiden(d, e) ==
    LET down == IF e.new.from < d.new.from THEN d.new.from - e.new.from ELSE 0
        up == IF e.new.to > d.new.to THEN e.new.to - d.new.to ELSE 0
    IN [old |-> [from |-> d.old.from - down, to |-> d.old.to + up],
        new |-> [from |-> d.new.from - down, to |-> d.new.to + up]]

DiJoined(ds) == <<[ds[2] EXCEPT !.old.from = ds[1].old.from, !.new.from = ds[1].new.from]>>
                \o SubSeq(ds, 3, Len(ds))

(* One round of merge for the first change of each report.                   *)
RECURSIVE DiMerge(_, _)
DiMerge(job, t) ==
    LET t1 == t.d1 # <<>>
        t2 == t.d2 # <<>>
        d1 == Head(t.d1)
        d2 == Head(t.d2)
        only1 == ~t2 \/ (t1 /\ d1.new.to < d2.new.from)
        only2 == ~t1 \/ (t2 /\ d2.new.to < d1.new.from)
        dup == DiDuplicate(job, t, d1.old, d2.old)
        d3 == IF d1.old.to > d1.old.from THEN d1 ELSE d2
        quiet == job.eflag # ""
        next1 == [t EXCEPT !.d1 = Tail(@)]
        next2 == [t EXCEPT !.d2 = Tail(@)]
    IN CASE ~(t1 \/ t2) -> t
         [] (t1 \/ t2) /\ only1 ->
            DiMerge(job, IF quiet THEN next1
                         ELSE DiShow(DiKeep(DiShow(next1, 1, d1.old, "shown"), 2, d1.new), 3, d1.new,
                                     "shown"))
         [] (t1 \/ t2) /\ ~only1 /\ only2 ->
            DiMerge(job, IF quiet THEN next2
                         ELSE DiShow(DiShow(DiKeep(next2, 1, d2.new), 2, d2.old, "shown"), 3, d2.new,
                                     "shown"))
         [] t1 /\ t2 /\ ~only1 /\ ~only2 ->
            IF Len(t.d1) > 1 /\ d1.new.to >= t.d1[2].new.from
            THEN DiMerge(job, [t EXCEPT !.d1 = DiJoined(@)])
            ELSE IF Len(t.d2) > 1 /\ d2.new.to >= t.d2[2].new.from
            THEN DiMerge(job, [t EXCEPT !.d2 = DiJoined(@)])
            ELSE IF d1.new = d2.new
            THEN LET both == [DiLookedAt(next1, d1.old, d2.old) EXCEPT !.d2 = Tail(@)]
                 IN DiMerge(job, IF quiet THEN DiEdit(both, job.eflag, d1, dup)
                                 ELSE DiShow(DiShow(DiShow(both, 1, d1.old, IF dup THEN "same" ELSE "shown"),
                                                    2, d2.old, "shown"), 3, d3.new, "shown"))
            ELSE DiMerge(job, [t EXCEPT !.d1[1] = DiWiden(d1, d2), !.d2[1] = DiWiden(d2, d1)])

DiDiff3(job) ==
    DiMerge(job, [d1 |-> DiReadin(DiRun(FALSE, "", job.f1, job.f3)),
                  d2 |-> DiReadin(DiRun(FALSE, "", job.f2, job.f3)),
                  cline |-> <<0, 0, 0>>, last |-> <<0, 0, 0>>, de |-> <<>>, out |-> <<>>])

(* edscript: the edits from the last to the first, and the lines of file 3.  *)
DiEdscript(job, de) ==
    Reverse([j \in 1..Len(de) |->
        [op |-> IF de[j].old.to <= de[j].old.from THEN "a" ELSE "c",
         old |-> IF de[j].old.to <= de[j].old.from THEN <<de[j].old.from - 1, de[j].old.from - 1>>
                 ELSE <<de[j].old.from, de[j].old.to - 1>>,
         lines |-> SubSeq(job.f3, de[j].new[1] + 1, de[j].new[2])]])

------------------------------------------------------------------------------
(* What ed makes of a file with one command of a script.                     *)
DiEdDoes(f, e) ==
    IF e.op = "a" THEN SubSeq(f, 1, e.old[1]) \o e.lines \o SubSeq(f, e.old[1] + 1, Len(f))
    ELSE SubSeq(f, 1, e.old[1] - 1) \o e.lines \o SubSeq(f, e.old[2] + 1, Len(f))
DiEd(f, script) == FoldLeft(DiEdDoes, f, script)

(* The length of a longest common subsequence of a and b, from i and j on.   *)
RECURSIVE DiLcs(_, _, _, _)
DiLcs(a, b, i, j) ==
    IF i > Len(a) \/ j > Len(b) THEN 0
    ELSE IF a[i] = b[j] THEN 1 + DiLcs(a, b, i + 1, j + 1)
    ELSE LET x == DiLcs(a, b, i + 1, j)
             y == DiLcs(a, b, i, j + 1)
         IN IF x > y THEN x ELSE y

DiSameFile(bflag, f, g) == Len(f) = Len(g) /\ \A i \in DOMAIN f : DiSame(bflag, f[i], g[i])
DiMatched(J, f) == {i \in DOMAIN f : J[i] # 0}

(* diff -e writes a script with which ed makes the second file of the first; *)
(* the other reports, carried out from the last change to the first, do the  *)
(* same; there is a report just when the files differ; and as many lines are *)
(* kept as can be, unless two different lines have the same number.          *)
DiDiffRight(job) ==
    LET b == job.bflag
        f1 == job.f1
        f2 == job.f2
        script == DiRun(b, job.opt, f1, f2)
        J == DiMatch(b, f1, f2)
        lucky == \A i \in DOMAIN f1, j \in DOMAIN f2 :
                    DiReadhash(b, f1[i]) = DiReadhash(b, f2[j]) => DiSame(b, f1[i], f2[j])
        Texts(f) == [i \in 1..Len(f) |-> DiReadhash(b, f[i])]
    IN /\ DiSameFile(b, f2, DiEd(f1, IF job.opt = "e" THEN script ELSE Reverse(script)))
       /\ (script = <<>>) = DiSameFile(b, f1, f2)
       /\ lucky => Cardinality(DiMatched(J, f1)) = DiLcs(Texts(f1), Texts(f2), 1, 1)

(* diff3 -e puts the changes from the second to the third file into the      *)
(* first: all of them when the first is the second, none when there are none *)
(* or the first has them already; -3 and -x share them out.  Without a flag  *)
(* the ranges shown are where the lines are read, a range that is kept holds *)
(* the lines of the third file, and one said to be the same those of the     *)
(* second.  No file is read past its end     *)
(* ("logic error").                                                          *)
DiDiff3Right(job) ==
    LET t == DiDiff3(job)
        r == DiEd(job.f1, DiEdscript(job, t.de))
        Edits(flag) == LET de == DiDiff3([job EXCEPT !.eflag = flag]).de IN {de[i] : i \in DOMAIN de}
        Of(i) == CASE i = 1 -> job.f1 [] i = 2 -> job.f2 [] i = 3 -> job.f3
    IN /\ \A i \in 1..3 : t.cline[i] <= Len(Of(i))
       /\ job.eflag = "e" =>
             /\ job.f1 = job.f2 => r = job.f3
             /\ job.f2 = job.f3 => r = job.f1
             /\ job.f1 = job.f3 => r = job.f1
             /\ Edits("e") = Edits("3") \cup Edits("x")
       /\ \A k \in DOMAIN t.out :
             LET o == t.out[k]
                 Other(i) == t.out[((k - 1) \div 3) * 3 + i]
                 Lines(e) == SubSeq(Of(e.file), e.from, e.to - 1)
             IN CASE o.how = "shown" -> o.lines = <<o.from - 1, o.to - 1>>
                  [] o.how = "kept" -> Lines(o) = Lines(Other(3))
                  [] o.how = "same" -> Lines(o) = Lines(Other(2))

DiRight(job) == IF job.prog = "diff" THEN DiDiffRight(job) ELSE DiDiff3Right(job)

==============================================================================
