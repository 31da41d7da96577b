--------------------------------- MODULE Sed ---------------------------------
(* sed: the script is compiled into a list of commands with the places they  *)
(* branch to; every line of the files goes through the list once.            *)
EXTENDS Regex

CONSTANTS
    SdPTRSIZE,  \* commands in a script
    SdDEPTH,    \* nested { }
    SdLBSIZE,   \* characters in the pattern space and the hold space
    SdABUFSIZE  \* texts waiting to be written after the line

(* ------------------------------- the script ------------------------------ *)
(* An address is a line number, the last line or a pattern; <<>> as pattern  *)
(* is the last one that was compiled.                                        *)
SdNone == [k |-> "none", n |-> 0, re |-> <<>>]
SdLine(n) == [k |-> "line", n |-> n, re |-> <<>>]
SdEnd == [k |-> "end", n |-> 0, re |-> <<>>]
SdRe(p) == [k |-> "re", n |-> 0, re |-> p]

SdCmd(c) == [c |-> c, ad1 |-> SdNone, ad2 |-> SdNone, neg |-> FALSE, re |-> <<>>, rhs |-> <<>>,
             text |-> <<>>, g |-> FALSE, p |-> 0, w |-> FALSE, lb |-> ""]

SdOneAddress == {"=", "a", "i", "r", "q"}

(* compile and address with an empty pattern: the one before.                *)
SdLast(s, p) == IF p = <<>> THEN s.op ELSE p
SdFilled(s, a) == IF a.k = "re" THEN [a EXCEPT !.re = SdLast(s, @)] ELSE a
SdAddress(s, a) ==
    LET p == SdLast(s, a.re)
        bad == a.k = "re" /\ (p = <<>> \/ RgSedCompile(p).err)
    IN IF a.k # "re" THEN s
       ELSE [s EXCEPT !.op = p, !.err = @ \/ bad]

(* fcomp: one command.  Brackets become branches around what is in them,     *)
(* labels the place of the next command.                                     *)
SdFcomp(s, cmd) ==
    LET s1 == SdAddress(s, cmd.ad1)
        s2 == SdAddress(s1, cmd.ad2)
        p == SdLast(s2, cmd.re)
        here == Len(s.ptr) + 1
        full == here >= SdPTRSIZE
        one == [cmd EXCEPT !.ad1 = SdFilled(s, @), !.ad2 = SdFilled(s1, @)]
        Put(r) == [s2 EXCEPT !.ptr = Append(@, r), !.err = @ \/ full]
        groups == RgSedCompile(p).nbra
    IN CASE s2.err -> s2
         [] ~s2.err /\ cmd.c = "{" ->
            IF Len(s.open) >= SdDEPTH THEN [s2 EXCEPT !.err = TRUE]
            ELSE [Put([one EXCEPT !.c = "b", !.neg = ~@]) EXCEPT !.open = Append(@, here)]
         [] ~s2.err /\ cmd.c = "}" ->
            IF cmd.ad1 # SdNone \/ s.open = <<>> THEN [s2 EXCEPT !.err = TRUE]
            ELSE [s2 EXCEPT !.open = Front(@), !.lb1 = [x \in DOMAIN @ \cup {Last(s.open)} |->
                                                          IF x = Last(s.open) THEN here ELSE @[x]]]
         [] ~s2.err /\ cmd.c = ":" ->
            IF cmd.ad1 # SdNone \/ cmd.lb \in DOMAIN s.labels THEN [s2 EXCEPT !.err = TRUE]
            ELSE [s2 EXCEPT !.labels = [x \in DOMAIN @ \cup {cmd.lb} |->
                                           IF x = cmd.lb THEN here ELSE @[x]]]
         [] ~s2.err /\ cmd.c = "s" ->
            IF RgSedCompile(p).err \/ \E i \in DOMAIN cmd.rhs : -cmd.rhs[i] > groups
            THEN [s2 EXCEPT !.err = TRUE]
            ELSE [Put([one EXCEPT !.re = p]) EXCEPT !.op = p]
         [] ~s2.err /\ cmd.c \in SdOneAddress /\ cmd.ad2 # SdNone -> [s2 EXCEPT !.err = TRUE]
         [] OTHER -> Put(one)

(* dechain and main: a label that is not there, or a { that is not closed.   *)
SdCompile(script) ==
    LET s == FoldLeft(SdFcomp, [ptr |-> <<>>, open |-> <<>>, labels |-> <<>>, lb1 |-> <<>>,
                                op |-> <<>>, err |-> FALSE], script)
        end == Len(s.ptr) + 1
        lost == \E i \in DOMAIN s.ptr :
                   s.ptr[i].c \in {"b", "t"} /\ i \notin DOMAIN s.lb1
                   /\ s.ptr[i].lb \notin DOMAIN s.labels \cup {""}
        Branch(i) == IF i \in DOMAIN s.lb1 THEN s.lb1[i]
                     ELSE IF s.ptr[i].c = "D" THEN 1
                     ELSE IF s.ptr[i].lb = "" THEN end ELSE s.labels[s.ptr[i].lb]
    IN [err |-> s.err \/ lost \/ s.open # <<>>, ptr |-> s.ptr,
        lb1 |-> [i \in DOMAIN s.ptr |-> IF lost THEN 0 ELSE Branch(i)]]

(* ------------------------------ substitute ------------------------------- *)
(* One replacement; & is the whole match, -n what bracket n matched.         *)
SdDosub(rhs, line, m) ==
    LET Piece(c) == CASE c = 38 -> SubSeq(line, m.from, m.to - 1)
                      [] c < 0 -> SubSeq(line, m.g.s[-c], m.g.e[-c] - 1)
                      [] OTHER -> <<c>>
        new == SubSeq(line, 1, m.from - 1) \o FlattenSeq([i \in 1..Len(rhs) |-> Piece(rhs[i])])
    IN [line |-> new \o SubSeq(line, m.to, Len(line)), loc2 |-> Len(new) + 1]

RECURSIVE SdGlobal(_, _, _)
SdGlobal(s, rhs, r) ==
    LET m == RgSedMatch(s, r.line, r.loc2)
    IN IF r.loc2 > Len(r.line) \/ s.circ \/ m.r # "yes" THEN r.line
       ELSE SdGlobal(s, rhs, SdDosub(rhs, r.line, m))

SdSubstitute(cmd, line) ==
    LET s == RgSedCompile(cmd.re)
        m == RgSedMatch(s, line, 0)
        once == SdDosub(cmd.rhs, line, m)
    IN IF m.r # "yes" THEN [done |-> FALSE, line |-> line]
       ELSE [done |-> TRUE, line |-> IF cmd.g THEN SdGlobal(s, cmd.rhs, once) ELSE once.line]

(* ------------------------------ the commands ------------------------------ *)
(* m: pattern and hold space, line number, lines and files still to be read, *)
(* output, texts that wait, the ranges that are open, and the flags.         *)
SdUpTo(s, n) == SubSeq(s, 1, IF Len(s) < n THEN Len(s) ELSE n)
SdFit(s) == SdUpTo(s, SdLBSIZE)
SdPrint(m, line) == [m EXCEPT !.out = Append(@, line)]
SdArout(m) == [m EXCEPT !.out = @ \o FlattenSeq(m.app), !.app = <<>>]
SdWait(m, text) == IF Len(m.app) >= SdABUFSIZE - 1 THEN m ELSE [m EXCEPT !.app = Append(@, text)]
SdFirstNL(s) == SelectInSeq(s, LAMBDA c : c = RgNL)

(* gline: the next line behind what is kept; dolflag when it is the last one *)
(* of the last file.                                                         *)
SdGline(m, keep) ==
    IF m.rest = <<>> THEN [m EXCEPT !.got = FALSE]
    ELSE [m EXCEPT !.pat = SdFit(keep \o Head(m.rest)), !.rest = Tail(@), !.lnum = @ + 1,
                   !.dol = Len(m.rest) = 1 /\ m.files = <<>>, !.got = TRUE]

(* n and N without a next line: tried again at the next file.                *)
SdNext(m, i, keep) ==
    LET r == SdGline(m, keep)
    IN IF r.got THEN r ELSE [r EXCEPT !.pat = keep, !.pending = i, !.del = TRUE]

SdYcom(cmd, pat) ==
    [k \in 1..Len(pat) |-> IF \E j \in DOMAIN cmd.re : cmd.re[j] = pat[k]
                           THEN cmd.rhs[CHOOSE j \in DOMAIN cmd.re : cmd.re[j] = pat[k]] ELSE pat[k]]

SdFirstLine(s) == IF SdFirstNL(s) = 0 THEN s ELSE SubSeq(s, 1, SdFirstNL(s) - 1)

(* s with its flags: p writes the pattern space, P its first line and is the *)
(* last thing done, w puts it in the file.                                   *)
SdSubCommand(m, cmd) ==
    LET sub == SdSubstitute(cmd, m.pat)
        s == [m EXCEPT !.pat = SdFit(sub.line), !.sflag = @ \/ sub.done]
        shown == IF sub.done /\ cmd.p > 0
                 THEN SdPrint(s, IF cmd.p = 1 THEN s.pat ELSE SdFirstLine(s.pat)) ELSE s
    IN IF sub.done /\ cmd.w /\ cmd.p # 2 THEN [shown EXCEPT !.file = Append(@, s.pat)] ELSE shown

SdCommand(m, i, cmd, nflag) ==
    LET nl == SdFirstNL(m.pat)
        shown == IF nflag THEN m ELSE SdPrint(m, m.pat)
    IN CASE cmd.c = "a" -> SdWait(m, <<cmd.text>>)
         [] cmd.c = "r" -> SdWait(m, cmd.text)
         [] cmd.c = "i" -> SdPrint(m, cmd.text)
         [] cmd.c = "c" ->
            [(IF i \notin m.inar \/ m.dol THEN SdPrint(m, cmd.text) ELSE m) EXCEPT !.del = TRUE]
         [] cmd.c = "d" -> [m EXCEPT !.del = TRUE]
         [] cmd.c = "D" -> IF nl = 0 THEN [m EXCEPT !.del = TRUE]
                           ELSE [m EXCEPT !.pat = SubSeq(@, nl + 1, Len(@)), !.jump = TRUE]
         [] cmd.c = "=" -> SdPrint(m, <<m.lnum>>)
         [] cmd.c = "g" -> [m EXCEPT !.pat = m.hold]
         [] cmd.c = "G" -> [m EXCEPT !.pat = SdFit(@ \o <<RgNL>> \o m.hold)]
         [] cmd.c = "h" -> [m EXCEPT !.hold = m.pat]
         [] cmd.c = "H" -> [m EXCEPT !.hold = SdFit(@ \o <<RgNL>> \o m.pat)]
         [] cmd.c = "x" -> [m EXCEPT !.pat = m.hold, !.hold = m.pat]
         [] cmd.c = "b" -> [m EXCEPT !.jump = TRUE]
         [] cmd.c = "t" -> IF m.sflag THEN [m EXCEPT !.sflag = FALSE, !.jump = TRUE] ELSE m
         [] cmd.c = "n" -> SdNext(SdArout(shown), i, IF m.rest = <<>> THEN m.pat ELSE <<>>)
         [] cmd.c = "N" -> SdNext(SdArout(m), i, SdFit(Append(m.pat, RgNL)))
         [] cmd.c \in {"p", "l"} -> SdPrint(m, m.pat)
         [] cmd.c = "P" -> SdPrint(m, SdFirstLine(m.pat))
         [] cmd.c = "q" -> [SdArout(shown) EXCEPT !.quit = TRUE]
         [] cmd.c = "w" -> [m EXCEPT !.file = Append(@, m.pat)]
         [] cmd.c = "y" -> [m EXCEPT !.pat = SdYcom(cmd, @)]
         [] cmd.c = "s" -> SdSubCommand(m, cmd)

(* --------------------------------- execute -------------------------------- *)
SdMatches(a, m) ==
    CASE a.k = "line" -> m.lnum = a.n
      [] a.k = "end" -> m.dol
      [] a.k = "re" -> RgMatch("sed", a.re, m.pat).r = "yes"

(* Whether command i is for this line, and what becomes of its range.        *)
SdSelect(m, i, cmd) ==
    LET two == cmd.ad2 # SdNone
        ends == cmd.ad2.k = "re" /\ SdMatches(cmd.ad2, m)
        Open(yes) == [yes |-> yes, inar |-> m.inar \cup {i}]
        Shut(yes) == [yes |-> yes, inar |-> m.inar \ {i}]
        Same(yes) == [yes |-> yes, inar |-> m.inar]
    IN IF cmd.ad1 = SdNone THEN Same(TRUE)
       ELSE IF i \in m.inar
       THEN CASE cmd.ad2.k = "end" -> Same(TRUE)
              [] cmd.ad2.k = "line" -> IF m.lnum > cmd.ad2.n THEN Shut(FALSE)
                                       ELSE IF m.lnum = cmd.ad2.n THEN Shut(TRUE) ELSE Same(TRUE)
              [] cmd.ad2.k = "re" -> IF ends THEN Shut(TRUE) ELSE Same(TRUE)
       ELSE IF ~SdMatches(cmd.ad1, m) THEN Same(FALSE)
       ELSE IF two /\ cmd.ad1.k # "end" THEN Open(TRUE) ELSE Same(TRUE)

(* The commands from i on for the line in the pattern space.                 *)
RECURSIVE SdCommands(_, _, _, _, _)
SdCommands(s, nflag, m, i, forced) ==
    LET cmd == s.ptr[i]
        sel == SdSelect(m, i, cmd)
        m1 == IF forced THEN m ELSE [m EXCEPT !.inar = sel.inar]
        r == SdCommand(m1, i, cmd, nflag)
    IN IF i > Len(s.ptr) THEN m
       ELSE IF ~forced /\ sel.yes = cmd.neg THEN SdCommands(s, nflag, m1, i + 1, FALSE)
       ELSE IF r.del \/ r.quit THEN r
       ELSE IF r.jump THEN SdCommands(s, nflag, [r EXCEPT !.jump = FALSE], s.lb1[i], FALSE)
       ELSE SdCommands(s, nflag, r, i + 1, FALSE)

SdFinish(m, nflag) ==
    IF m.quit THEN m
    ELSE [SdArout(IF nflag \/ m.del THEN m ELSE SdPrint(m, m.pat)) EXCEPT !.del = FALSE]

RECURSIVE SdExecute(_, _, _)
SdExecute(s, nflag, m) ==
    LET r == SdGline(m, <<>>)
    IN IF m.quit THEN m
       ELSE IF m.rest = <<>>
       THEN IF m.files = <<>> THEN m
            ELSE LET next == [m EXCEPT !.rest = Head(m.files), !.files = Tail(@), !.pending = 0]
                     went == SdCommands(s, nflag, next, m.pending, TRUE)
                 IN SdExecute(s, nflag, IF m.pending = 0 THEN next ELSE SdFinish(went, nflag))
       ELSE SdExecute(s, nflag, SdFinish(SdCommands(s, nflag, r, 1, FALSE), nflag))

SdRun(script, nflag, files) ==
    LET s == SdCompile(script)
    IN IF s.err THEN [out |-> <<>>, file |-> <<>>, status |-> 2]
       ELSE LET m == SdExecute(s, nflag,
                         [pat |-> <<>>, hold |-> <<>>, lnum |-> 0, rest |-> <<>>, files |-> files,
                          out |-> <<>>, file |-> <<>>, app |-> <<>>, inar |-> {}, dol |-> FALSE,
                          del |-> FALSE, jump |-> FALSE, sflag |-> FALSE, got |-> FALSE,
                          pending |-> 0, quit |-> FALSE])
            IN [out |-> m.out, file |-> m.file, status |-> 0]

------------------------------------------------------------------------------
(* Scripts whose effect can be said without sed, on characters a, b and x.   *)
SdA == 97
SdB == 98
SdX == 120
SdAt(a, cmd) == [cmd EXCEPT !.ad1 = a]
SdFrom(a, b, cmd) == [cmd EXCEPT !.ad1 = a, !.ad2 = b]
SdNot(cmd) == [cmd EXCEPT !.neg = TRUE]
SdGo(c, label) == [SdCmd(c) EXCEPT !.lb = label]
SdSub(re, rhs, g) == [SdCmd("s") EXCEPT !.re = re, !.rhs = rhs, !.g = g]
SdText(c, t) == [SdCmd(c) EXCEPT !.text = t]

SdScript(name) ==
    CASE name = "print" -> <<SdCmd("p")>>
      [] name = "reverse" -> <<SdAt(SdLine(1), SdNot(SdCmd("G"))), SdCmd("h"), SdAt(SdEnd, SdNot(SdCmd("d")))>>
      [] name = "window" -> <<SdAt(SdEnd, SdNot(SdCmd("N"))), SdCmd("P"), SdCmd("D")>>
      [] name = "odd" -> <<SdCmd("n"), SdCmd("d")>>
      [] name = "join" -> <<SdGo(":", "a"), SdAt(SdEnd, SdNot(SdCmd("N"))), SdAt(SdEnd, SdNot(SdGo("b", "a"))),
                            SdSub(<<RgEscape, RgN>>, <<SdX>>, TRUE)>>
      [] name = "hold" -> <<SdCmd("H"), SdAt(SdEnd, SdNot(SdCmd("d"))), SdCmd("x")>>
      [] name = "delete" -> <<SdAt(SdRe(<<SdA>>), SdNot(SdCmd("d")))>>
      [] name = "range" -> <<SdFrom(SdRe(<<SdA>>), SdRe(<<SdB>>), SdCmd("p"))>>
      [] name = "lines" -> <<SdFrom(SdLine(2), SdLine(3), SdCmd("d"))>>
      [] name = "block" -> <<SdAt(SdRe(<<SdA>>), SdCmd("{")), SdAt(SdRe(<<SdB>>), SdNot(SdCmd("{"))), SdCmd("p"),
                             SdCmd("}"), SdCmd("}")>>
      [] name = "again" -> <<SdGo(":", "a"), SdSub(<<SdA, SdB>>, <<SdB>>, FALSE), SdGo("t", "a")>>
      [] name = "mark" -> <<SdSub(<<SdA, RgStar, SdB>>, <<SdX, 38, SdX>>, TRUE)>>
      [] name = "swap" -> <<[SdCmd("y") EXCEPT !.re = <<SdA, SdB>>, !.rhs = <<SdB, SdA>>],
                            SdSub(<<RgEscape, RgOpen, RgDot, RgEscape, RgClose>>, <<-1>>, TRUE)>>
      [] name = "texts" -> <<SdText("a", <<SdX>>), SdText("i", <<SdX, SdX>>), SdText("r", << <<SdX>>, <<SdX>> >>)>>
      [] name = "change" -> <<SdFrom(SdLine(2), SdLine(3), SdText("c", <<SdX>>))>>
      [] name = "quit" -> <<SdAt(SdLine(2), SdCmd("q"))>>
      [] name = "save" -> <<SdAt(SdRe(<<SdB>>), SdCmd("w")), SdCmd("g")>>

SdHas(c, l) == \E i \in DOMAIN l : l[i] = c
SdPick(f, In(_)) == [k \in 1..Cardinality({i \in DOMAIN f : In(i)}) |->
                        f[CHOOSE i \in DOMAIN f : In(i) /\ Cardinality({j \in 1..i : In(j)}) = k]]
SdJoined(f, c) == FlattenSeq([i \in 1..Len(f) |-> IF i = 1 THEN f[i] ELSE <<c>> \o f[i]])
SdWithout(l, c) == SelectSeq(l, LAMBDA d : d # c)

(* A line is in a range if a line up to it starts one that no line between   *)
(* them ends; a line that ends a range starts none.                          *)
SdInRange(f, i) ==
    LET Starts[j \in 1..Len(f)] ==
            /\ SdHas(SdA, f[j])
            /\ \A k \in 1..j - 1 : Starts[k] => \E e \in k + 1..j - 1 : SdHas(SdB, f[e])
    IN \E j \in 1..i : Starts[j] /\ \A k \in j + 1..i - 1 : ~SdHas(SdB, f[k])

(* sed does with the lines of a file what the script says: -n p copies them, *)
(* G and h turn the file round, N, P and D move a window over it that loses  *)
(* no line, labels and t loop until there is nothing to replace, a range is  *)
(* open from its first to its last address, brackets nest, texts come before *)
(* and after their line; what s puts around a match can be taken off again.  *)
SdRight(job) ==
    LET f == job.file
        r == SdRun(SdScript(job.name), job.name \in {"print", "range", "block"}, <<f>>)
        out == r.out
        n == Len(f)
    IN /\ r.status = 0
       /\ CASE job.name \in {"print", "window"} -> out = f
            [] job.name = "reverse" ->
               out = IF n = 0 THEN <<>> ELSE <<SdFit(SdJoined(Reverse(f), RgNL))>>
            [] job.name = "odd" -> out = SdPick(f, LAMBDA i : i % 2 = 1)
            [] job.name = "join" -> out = IF n = 0 THEN <<>> ELSE <<SdFit(SdJoined(f, SdX))>>
            [] job.name = "hold" -> out = IF n = 0 THEN <<>> ELSE <<SdFit(<<RgNL>> \o SdJoined(f, RgNL))>>
            [] job.name = "delete" -> out = SdPick(f, LAMBDA i : SdHas(SdA, f[i]))
            [] job.name = "range" -> out = SdPick(f, LAMBDA i : SdInRange(f, i))
            [] job.name = "lines" -> out = SdPick(f, LAMBDA i : i \notin {2, 3})
            [] job.name = "block" -> out = SdPick(f, LAMBDA i : SdHas(SdA, f[i]) /\ ~SdHas(SdB, f[i]))
            [] job.name = "again" ->
               /\ Len(out) = n
               /\ \A i \in 1..n : ~RgIn(<<SdA, SdB>>, out[i]) /\ SdWithout(out[i], SdA) = SdWithout(f[i], SdA)
            [] job.name = "mark" ->
               /\ Len(out) = n
               /\ \A i \in 1..n : /\ SdWithout(out[i], SdX) = f[i]
                                 /\ SdHas(SdB, f[i]) = SdHas(SdX, out[i])
            [] job.name = "swap" ->
               out = [i \in 1..n |-> [k \in 1..Len(f[i]) |-> IF f[i][k] = SdA THEN SdB
                                                            ELSE IF f[i][k] = SdB THEN SdA ELSE f[i][k]]]
            [] job.name = "texts" ->
               out = FlattenSeq([i \in 1..n |-> << <<SdX, SdX>>, f[i], <<SdX>>, <<SdX>>, <<SdX>> >>])
            [] job.name = "change" ->
               out = SdUpTo(f, 1) \o (IF n >= 2 THEN << <<SdX>> >> ELSE <<>>) \o SubSeq(f, 4, n)
            [] job.name = "quit" -> out = SdUpTo(f, 2)
            [] job.name = "save" -> /\ r.file = SdPick(f, LAMBDA i : SdHas(SdB, f[i]))
                                    /\ out = [i \in 1..n |-> <<>>]

==============================================================================
