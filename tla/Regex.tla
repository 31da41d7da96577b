------------------------------- MODULE Regex ---------------------------------
(* The pattern matchers: the backtracking one that grep, ed, sed and expr    *)
(* each have a copy of, with the copies' differences; the automata of egrep  *)
(* and awk; and the words of fgrep.                                          *)
EXTENDS Integers, Sequences, SequencesExt, FiniteSets, FiniteSetsExt

CONSTANTS
    RgNBRA,    \* brackets \( \) in a pattern
    RgChars    \* characters that may be in a line

RgNL == 10
RgDollar == 36
RgOpen == 40
RgClose == 41
RgStar == 42
RgComma == 44
RgMinus == 45
RgDot == 46
RgZero == 48
RgLeft == 91
RgEscape == 92
RgRight == 93
RgHat == 94
RgN == 110
RgLeftBrace == 123
RgRightBrace == 125

RgAt(p, i) == IF i \in 1..Len(p) THEN p[i] ELSE 0
RgUpto(n) == [i \in 1..n |-> i]

(* ------------------------------- compile --------------------------------- *)
(* A class from its first character on; d is the program.  The copies agree  *)
(* on [a-c] and differ on what is before or after a '-'.                     *)
RECURSIVE RgMembers(_, _, _, _, _)
RgMembers(d, p, i, set, prev) ==
    LET c == RgAt(p, i)
        next == RgAt(p, i + 1)
        span == prev..next
        Then(j, s, last) == IF RgAt(p, j) = RgRight THEN [set |-> s, at |-> j + 1, err |-> FALSE]
                            ELSE RgMembers(d, p, j, s, last)
        literal == Then(i + 1, set \cup {c}, c)
    IN IF c = 0 THEN [set |-> set, at |-> i, err |-> TRUE]
       ELSE IF c # RgMinus \/ prev = 0 THEN literal
       ELSE CASE d \in {"grep", "sed", "awk"} /\ next = RgRight -> literal
              [] d = "egrep" /\ next = 0 -> literal
              [] d = "grep" /\ next # RgRight ->
                 Then(i + 2, set \cup span \cup {IF prev < next THEN next ELSE prev}, next)
              [] d = "sed" /\ next # RgRight -> Then(i + 1, set \cup span \cup {prev}, prev)
              [] (d = "egrep" /\ next # 0) \/ (d = "awk" /\ next # RgRight) ->
                 Then(i + 2, set \cup span, IF prev < next THEN next ELSE prev)
              [] d \in {"ed", "expr"} /\ next = RgRight ->
                 [set |-> set \cup {c}, at |-> i + 2, err |-> FALSE]
              [] d \in {"ed", "expr"} /\ next # RgRight ->
                 Then(i + 2, set \cup span \cup {next}, next)

(* A class after its '[': none contains the end of the line.                 *)
RgClass(d, p, i) ==
    LET neg == RgAt(p, i) = RgHat
        m == RgMembers(d, p, IF neg THEN i + 1 ELSE i, {}, 0)
    IN [m EXCEPT !.set = IF neg THEN RgChars \ @ ELSE @ \ {0}]

RgItem(op, arg) == [op |-> op, arg |-> arg, rep |-> "", low |-> 0, size |-> 0]

RgFail(s) == [s EXCEPT !.err = TRUE]
RgPut(s, n, item) == [s EXCEPT !.sp = @ + n, !.prog = Append(@, item)]

(* \( \) and \1: brackets are numbered as they open; ed alone lets \1 be     *)
(* used before its bracket is closed.                                        *)
RgBackslash(d, s, c) ==
    CASE c = RgOpen ->
         IF s.nbra >= RgNBRA THEN RgFail(s)
         ELSE [RgPut(s, 2, RgItem("BRA", {s.nbra + 1})) EXCEPT !.nbra = @ + 1,
                                                               !.open = Append(@, s.nbra + 1)]
      [] c = RgClose ->
         IF s.open = <<>> THEN RgFail(s)
         ELSE [RgPut(s, 2, RgItem("KET", {Last(s.open)})) EXCEPT !.open = Front(@),
                                                                 !.closed = @ + 1]
      [] c \in RgZero + 1..RgZero + 9 ->
         IF d = "ed" /\ c > RgZero + RgNBRA THEN RgPut(s, 2, RgItem("CHR", {c}))
         ELSE IF d # "ed" /\ c - RgZero > s.closed THEN RgFail(s)
         ELSE RgPut(s, 2, RgItem("BACK", {c - RgZero}))
      [] c \in {0, RgNL} -> RgFail(s)
      [] OTHER -> RgPut(s, 2, RgItem("CHR", {IF c = RgN /\ d \in {"sed", "expr"} THEN RgNL ELSE c}))

RECURSIVE RgNumber(_, _, _)
RgNumber(p, i, n) ==
    IF RgAt(p, i) \in RgZero..RgZero + 9 THEN RgNumber(p, i + 1, 10 * n + p[i] - RgZero)
    ELSE [n |-> n, at |-> i]

(* \{m\}, \{m,\} and \{m,n\} of expr; 20000 stands for no limit.             *)
RgBraces(s, p) ==
    LET m == RgNumber(p, s.sp + 2, 0)
        comma == RgAt(p, m.at) = RgComma
        n == IF ~comma THEN m
             ELSE IF RgAt(p, m.at + 1) = RgEscape THEN [n |-> 20000 + m.n, at |-> m.at + 1]
             ELSE RgNumber(p, m.at + 1, 0)
        ok == /\ m.at > s.sp + 2 /\ n.at > s.sp + 2 /\ m.n <= 255
              /\ (~comma \/ RgAt(p, m.at + 1) = RgEscape) \/ n.at > m.at + 1
              /\ RgAt(p, n.at) = RgEscape /\ RgAt(p, n.at + 1) = RgRightBrace
              /\ n.n >= m.n
              /\ s.prog[s.last].op \in {"CHR", "DOT", "CCL"} /\ s.prog[s.last].rep = ""
    IN IF ~ok THEN RgFail(s)
       ELSE [s EXCEPT !.sp = n.at + 2,
                      !.prog[s.last].rep = "rnge", !.prog[s.last].low = m.n,
                      !.prog[s.last].size = n.n - m.n]

(* s.last: the item that a '*' would repeat, 0 if there is none yet.         *)
RECURSIVE RgComp(_, _, _)
RgComp(d, p, s) ==
    LET c == RgAt(p, s.sp)
        next == RgAt(p, s.sp + 1)
        t == [s EXCEPT !.last = Len(s.prog) + 1]
        char(u) == RgPut(u, 1, RgItem("CHR", {c}))
        class == RgClass(d, p, s.sp + 1)
        starable == s.last # 0 /\ (d = "sed" \/ s.prog[s.last].op \notin {"BRA", "KET"})
    IN IF s.err THEN s
       ELSE IF c = 0 THEN IF s.open # <<>> /\ d # "grep" THEN RgFail(s) ELSE s
       ELSE RgComp(d, p,
           CASE c = RgDot -> RgPut(t, 1, RgItem("DOT", {}))
             [] c = RgStar ->
                IF ~starable THEN char(IF d = "expr" THEN t ELSE s)
                ELSE IF s.prog[s.last].op \in {"BRA", "KET"} THEN RgFail(s)
                ELSE [s EXCEPT !.sp = @ + 1, !.prog[s.last].rep = "star"]
             [] c = RgDollar -> IF next = 0 THEN RgPut(t, 1, RgItem("DOL", {})) ELSE char(t)
             [] c = RgLeft ->
                IF class.err THEN RgFail(s)
                ELSE [RgPut(t, 0, RgItem("CCL", class.set)) EXCEPT !.sp = class.at]
             [] c = RgEscape /\ d = "expr" /\ next = RgLeftBrace ->
                IF s.last = 0 THEN RgPut(t, 2, RgItem("CHR", {next})) ELSE RgBraces(s, p)
             [] c = RgEscape /\ ~(d = "expr" /\ next = RgLeftBrace) -> RgBackslash(d, t, next)
             [] OTHER -> IF c = RgNL /\ d # "grep" THEN RgFail(s) ELSE char(t))

RgCompile(d, p) ==
    LET circ == RgAt(p, 1) = RgHat
    IN RgComp(d, p, [sp |-> IF circ THEN 2 ELSE 1, circ |-> circ, prog |-> <<>>, last |-> 0,
                     open |-> <<>>, closed |-> 0, nbra |-> 0, err |-> FALSE])

(* grep -y: every small letter outside a class becomes a class of two.       *)
RgIsLower(c) == c \in 97..122
RECURSIVE RgFold(_, _, _)
RgFold(p, i, class) ==
    IF i > Len(p) THEN <<>>
    ELSE CASE p[i] = RgEscape /\ ~class -> SubSeq(p, i, i + 1) \o RgFold(p, i + 2, FALSE)
           [] RgIsLower(p[i]) /\ ~class ->
              <<RgLeft, p[i] - 32, p[i], RgRight>> \o RgFold(p, i + 1, FALSE)
           [] OTHER -> <<p[i]>> \o RgFold(p, i + 1, p[i] = RgLeft \/ (class /\ p[i] # RgRight))

(* ------------------------------- advance --------------------------------- *)
(* x: program, compiled pattern, line, and where the last match ended, which *)
(* the next one may not be at.  g: where the brackets began and ended.       *)
RgOne(item, c) == IF item.op = "DOT" THEN c # 0 ELSE c # 0 /\ c \in item.arg
RgNumberOf(item) == CHOOSE n \in item.arg : TRUE

RECURSIVE RgRun(_, _, _, _)
RgRun(x, item, lp, most) ==
    IF most > 0 /\ RgOne(item, RgAt(x.line, lp)) THEN 1 + RgRun(x, item, lp + 1, most - 1) ELSE 0

(* What \n matches at lp.  ed compares a character before it looks whether   *)
(* there is one to compare.                                                  *)
RgBackref(x, g, n, lp) ==
    LET ct == g.e[n] - g.s[n]
    IN IF x.d = "ed" /\ ct = 0 THEN RgAt(x.line, g.s[n]) = RgAt(x.line, lp)
       ELSE \A k \in 0..ct - 1 : RgAt(x.line, g.s[n] + k) = RgAt(x.line, lp + k)

RECURSIVE RgBackrefs(_, _, _, _)
RgBackrefs(x, g, n, lp) ==
    IF g.e[n] > g.s[n] /\ RgBackref(x, g, n, lp) THEN 1 + RgBackrefs(x, g, n, lp + g.e[n] - g.s[n])
    ELSE 0

RgNo(g) == [r |-> "no", at |-> 0, g |-> g]

RECURSIVE RgAdvance(_, _, _, _)
RECURSIVE RgLonger(_, _, _, _, _, _, _)
(* From the longest run to the shortest: ed, expr and sed give up where the  *)
(* last match ended.                                                         *)
RgLonger(x, ep, low, at, step, g, stops) ==
    LET r == RgAdvance(x, ep, at, g)
    IN IF at < low \/ (stops /\ at = x.locs) THEN RgNo(g)
       ELSE IF r.r # "no" THEN r
       ELSE RgLonger(x, ep, low, at - step, step, g, stops)

(* sed's star goes on without the test when the run is empty or when the     *)
(* next item is a character or \n.                                           *)
RgStops(x, ep, n) ==
    CASE x.d = "grep" -> FALSE
      [] x.d = "sed" -> n > 0 /\ ~(ep <= Len(x.prog) /\ x.prog[ep].op \in {"CHR", "BACK"}
                                   /\ x.prog[ep].rep = "")
      [] OTHER -> TRUE

RgAdvance(x, ep, lp, g) ==
    LET item == x.prog[ep]
        c == RgAt(x.line, lp)
        n == RgNumberOf(item)
        most == RgRun(x, item, lp, Len(x.line))
        low == RgRun(x, item, lp, item.low)
        more == RgRun(x, item, lp + low, item.size)
        unset == g.e[n] = 0
    IN IF ep > Len(x.prog)
       THEN IF x.d = "sed" /\ lp = x.locs THEN RgNo(g) ELSE [r |-> "yes", at |-> lp, g |-> g]
       ELSE IF item.rep = "star" /\ item.op # "BACK"
       THEN RgLonger(x, ep + 1, lp, lp + most, 1, g, RgStops(x, ep + 1, most))
       ELSE IF item.rep = "rnge"
       THEN IF low < item.low THEN RgNo(g)
            ELSE RgLonger(x, ep + 1, lp + low, lp + low + more, 1, g, TRUE)
       ELSE CASE item.op \in {"CHR", "DOT", "CCL"} ->
                 IF RgOne(item, c) THEN RgAdvance(x, ep + 1, lp + 1, g) ELSE RgNo(g)
              [] item.op = "DOL" -> IF c = 0 THEN RgAdvance(x, ep + 1, lp, g) ELSE RgNo(g)
              [] item.op = "BRA" -> RgAdvance(x, ep + 1, lp, [g EXCEPT !.s[n] = lp])
              [] item.op = "KET" -> RgAdvance(x, ep + 1, lp, [g EXCEPT !.e[n] = lp])
              [] item.op = "BACK" /\ unset ->
                 [RgNo(g) EXCEPT !.r = IF x.d = "ed" THEN "error" ELSE "no"]
              [] item.op = "BACK" /\ ~unset /\ item.rep = "" ->
                 IF RgBackref(x, g, n, lp) THEN RgAdvance(x, ep + 1, lp + g.e[n] - g.s[n], g)
                 ELSE RgNo(g)
              [] item.op = "BACK" /\ ~unset /\ item.rep = "star" ->
                 LET ct == g.e[n] - g.s[n]
                 IN IF ct > 0
                    THEN RgLonger(x, ep + 1, lp, lp + ct * RgBackrefs(x, g, n, lp), ct, g, FALSE)
                    ELSE IF x.d \in {"sed", "expr"} \/ ~RgBackref(x, g, n, lp)
                    THEN RgAdvance(x, ep + 1, lp, g)
                    ELSE [RgNo(g) EXCEPT !.r = "loops"]

(* execute, match, step: the first place from p on where the pattern fits.   *)
RgFresh == [s |-> [n \in 1..RgNBRA |-> 0], e |-> [n \in 1..RgNBRA |-> 0]]
RECURSIVE RgSearch(_, _, _)
RgSearch(x, p, circ) ==
    LET r == RgAdvance(x, 1, p, RgFresh)
    IN IF r.r # "no" \/ circ \/ p > Len(x.line) THEN [r |-> r.r, from |-> p, to |-> r.at, g |-> r.g]
       ELSE RgSearch(x, p + 1, circ)

RgX(d, s, line, locs) == [d |-> d, prog |-> s.prog, line |-> line, locs |-> locs]
RgFound(d, s, line, p, locs, circ) ==
    IF s.err THEN [r |-> "error", from |-> 0, to |-> 0, g |-> RgFresh]
    ELSE RgSearch(RgX(d, s, line, locs), p, circ)

(* The four copies: sed's s command goes on from where the last replacement  *)
(* ended, and the match of expr is at the beginning.                         *)
RgGrepCompile(p) == RgCompile("grep", p)
RgEdCompile(p) == RgCompile("ed", p)
RgSedCompile(p) == RgCompile("sed", p)
RgExprCompile(p) == RgCompile("expr", p)

RgGrepExecute(p, line) ==
    LET s == RgGrepCompile(p) IN RgFound("grep", s, line, 1, 0, s.circ)
RgEdExecute(p, line) == LET s == RgEdCompile(p) IN RgFound("ed", s, line, 1, 0, s.circ)
RgSedMatch(s, line, locs) ==
    RgFound("sed", s, line, IF locs = 0 THEN 1 ELSE locs, locs, s.circ /\ locs = 0)
RgExprStep(p, line, first) ==
    LET s == RgExprCompile(p) IN RgFound("expr", s, line, 1, 0, s.circ \/ first)
RgEmatch(p, line) == RgExprStep(p, line, TRUE)

RgMatch(d, p, line) ==
    CASE d = "grep" -> RgGrepExecute(p, line)
      [] d = "ed" -> RgEdExecute(p, line)
      [] d = "sed" -> RgSedMatch(RgSedCompile(p), line, 0)
      [] d = "expr" -> RgExprStep(p, line, FALSE)

(* ---------------------------- egrep and awk ------------------------------ *)
(* A pattern as the parser builds it: the nodes in the order in which they   *)
(* are entered, with the operands on a stack.  The first two are the .* that *)
(* goes before every pattern.                                                *)
RgEnter(t, e) ==
    LET n == Len(t.node) + 1
        k == CASE e.op \in {"CHAR", "DOT", "CCL", "NCCL"} -> 0
               [] e.op \in {"STAR", "PLUS", "QUEST", "FINAL"} -> 1
               [] e.op \in {"CAT", "OR"} -> 2
        args == SubSeq(t.stack, Len(t.stack) - k + 1, Len(t.stack))
        owned == [i \in DOMAIN t.node |-> IF \E j \in DOMAIN args : args[j] = i
                                         THEN [t.node[i] EXCEPT !.parent = n] ELSE t.node[i]]
    IN [node |-> Append(owned, [op |-> e.op, arg |-> e.arg, sons |-> args, parent |-> 0]),
        stack |-> Append(SubSeq(t.stack, 1, Len(t.stack) - k), n)]

RgOp(op) == [op |-> op, arg |-> {}]
RgTree(postfix) ==
    FoldLeft(RgEnter, [node |-> <<>>, stack |-> <<>>],
             <<RgOp("DOT"), RgOp("STAR")>> \o postfix \o <<RgOp("CAT"), RgOp("FINAL")>>).node

(* cstate, first: the places at which v may begin, and whether it may be     *)
(* nothing at all.                                                           *)
RECURSIVE RgFirst(_, _)
RgFirst(T, v) ==
    LET Son(i) == RgFirst(T, T[v].sons[i])
    IN CASE T[v].sons = <<>> -> [set |-> {v}, empty |-> FALSE]
         [] T[v].op \in {"STAR", "QUEST"} -> [Son(1) EXCEPT !.empty = TRUE]
         [] T[v].op \in {"PLUS", "FINAL"} -> Son(1)
         [] T[v].op = "CAT" ->
            IF ~Son(1).empty THEN Son(1)
            ELSE [set |-> Son(1).set \cup Son(2).set, empty |-> Son(2).empty]
         [] T[v].op = "OR" ->
            [set |-> Son(1).set \cup Son(2).set, empty |-> Son(1).empty \/ Son(2).empty]

(* follow: the places that may come after v; that of FINAL is the end.       *)
RECURSIVE RgFollow(_, _)
RgFollow(T, v) ==
    LET p == T[v].parent
    IN CASE T[p].op = "FINAL" -> {p}
         [] T[p].op \in {"STAR", "PLUS"} -> RgFirst(T, v).set \cup RgFollow(T, p)
         [] T[p].op \in {"OR", "QUEST"} -> RgFollow(T, p)
         [] T[p].op = "CAT" /\ v = T[p].sons[1] ->
            LET right == RgFirst(T, T[p].sons[2])
            IN right.set \cup (IF right.empty THEN RgFollow(T, p) ELSE {})
         [] T[p].op = "CAT" /\ v # T[p].sons[1] -> RgFollow(T, p)

(* nextstate: DOT and NCCL take every character, once the state has a        *)
(* transition for it at all (symbol, ssyms).                                 *)
RgTakes(T, i, c) ==
    CASE T[i].op = "CHAR" -> c \in T[i].arg
      [] T[i].op = "DOT" -> TRUE
      [] T[i].op = "CCL" -> c \in T[i].arg
      [] T[i].op = "NCCL" -> c \notin T[i].arg
      [] T[i].op = "FINAL" -> FALSE
RgSymbol(T, S, c, marks) ==
    \E i \in S : RgTakes(T, i, c) /\ (T[i].op \in {"DOT", "NCCL"} => c \notin marks)

RgInitstat(T) ==
    LET f == RgFirst(T, Len(T) - 1)
    IN (f.set \ {1}) \cup (IF f.empty THEN {Len(T)} ELSE {})
RgNext(T, S, c, marks) ==
    IF ~RgSymbol(T, S, c, marks) THEN RgInitstat(T)
    ELSE RgInitstat(T) \cup UNION {RgFollow(T, i) : i \in {j \in S : RgTakes(T, j, c)}}
RgOut(T, S) == Len(T) \in S

(* egrep: '^' and '$' are both the newline, a line is read after the one     *)
(* before it, and what is left when a match has been seen is skipped.        *)
RECURSIVE RgFeed(_, _, _, _)
RgFeed(T, S, text, marks) ==
    RgOut(T, S) \/ (text # <<>> /\ RgFeed(T, RgNext(T, S, Head(text), marks), Tail(text), marks))
RgEgrep(postfix, line) ==
    LET T == RgTree(postfix)
        S == RgInitstat(T)
    IN RgFeed(T, IF RgOut(T, S) THEN S ELSE RgNext(T, S, RgNL, {RgNL}), Append(line, RgNL), {RgNL})

(* awk: '^' is a character of its own, with which the automaton starts if it *)
(* can, '$' the end of the string; places that are in every state are left   *)
(* out of the others, which comes to the same states.                        *)
RgAwkHat == 127
RgAwkMarks == {RgAwkHat, 0}
RgAwkTree(postfix) == RgTree(postfix)
RgAwkCgotofn(T, S, c) == RgNext(T, S, c, RgAwkMarks)
RgAwk(postfix, line) ==
    LET T == RgAwkTree(postfix)
        S == RgInitstat(T)
        starts == ~RgOut(T, S) /\ RgSymbol(T, S, RgAwkHat, RgAwkMarks)
    IN RgFeed(T, IF starts THEN RgAwkCgotofn(T, S, RgAwkHat) ELSE S, Append(line, 0), RgAwkMarks)

(* -------------------------------- fgrep ---------------------------------- *)
(* A state: the character it takes, where that leads, the next state to try  *)
(* with the same beginning, where to go on when all fail, and whether a word *)
(* has been seen.                                                            *)
RgState == [inp |-> 0, nst |-> 0, link |-> 0, fail |-> 0, out |-> FALSE]

RECURSIVE RgChain(_, _, _)
RgChain(w, s, word) ==
    IF word = <<>> THEN [w EXCEPT ![s].out = TRUE]
    ELSE RgChain(Append([w EXCEPT ![s].inp = Head(word), ![s].nst = Len(w) + 1], RgState),
                 Len(w) + 1, Tail(word))

(* cgotofn for one word: along what is there already, and on from there.     *)
(* last: the word ends with the argument, not with a newline.                *)
RECURSIVE RgWord(_, _, _, _)
RgWord(w, s, word, last) ==
    CASE word = <<>> -> IF last THEN w ELSE [w EXCEPT ![s].out = TRUE]
      [] word # <<>> /\ w[s].inp = Head(word) -> RgWord(w, w[s].nst, Tail(word), last)
      [] word # <<>> /\ w[s].inp = 0 -> RgChain(w, s, word)
      [] word # <<>> /\ w[s].inp \notin {0, Head(word)} /\ w[s].link # 0 ->
         RgWord(w, w[s].link, word, last)
      [] word # <<>> /\ w[s].inp \notin {0, Head(word)} /\ w[s].link = 0 ->
         RgChain(Append([w EXCEPT ![s].link = Len(w) + 1], RgState), Len(w) + 1, word)

RgGotofn(words, xflag) ==
    FoldLeft(LAMBDA w, i : RgWord(w, 1, IF xflag THEN Append(words[i], RgNL) ELSE words[i],
                                  i = Len(words) /\ ~xflag),
             <<RgState>>, RgUpto(Len(words)))

(* cfail: the states in the order of their distance; state is the failure of *)
(* the state before, q and its links get the state that c leads to from it.  *)
RECURSIVE RgFind(_, _, _)
RgFind(w, t, c) == IF t = 0 \/ w[t].inp = c THEN t ELSE RgFind(w, w[t].link, c)

RECURSIVE RgSetFail(_, _, _)
RgSetFail(w, q, t) ==
    LET u == [w EXCEPT ![q].fail = w[t].nst, ![q].out = @ \/ w[w[t].nst].out]
    IN IF w[q].link = 0 THEN u ELSE RgSetFail(u, w[q].link, t)

RECURSIVE RgFailOf(_, _, _, _)
RgFailOf(w, q, state, c) ==
    LET t == RgFind(w, IF state = 0 THEN 1 ELSE state, c)
    IN IF t # 0 THEN RgSetFail(w, q, t)
       ELSE IF state # 0 THEN RgFailOf(w, q, w[state].fail, c) ELSE w

RECURSIVE RgQueue(_, _, _)
RgQueue(w, s, queue) ==
    LET taken == w[s].inp # 0
        u == IF taken THEN RgFailOf(w, w[s].nst, w[s].fail, w[s].inp) ELSE w
        q == IF taken THEN Append(queue, w[s].nst) ELSE queue
    IN IF w[s].link # 0 THEN RgQueue(u, w[s].link, q)
       ELSE IF q = <<>> THEN u
       ELSE RgQueue(u, Head(q), Tail(q))

RECURSIVE RgLinks(_, _)
RgLinks(w, s) == (IF w[s].inp # 0 THEN <<w[s].nst>> ELSE <<>>)
                 \o (IF w[s].link # 0 THEN RgLinks(w, w[s].link) ELSE <<>>)
RgCfail(w) ==
    LET first == RgLinks(w, 1)
    IN IF first = <<>> THEN w ELSE RgQueue(w, Head(first), Tail(first))

(* execute on one line: nstate and istate, with whether a failure was seen.  *)
RECURSIVE RgLastLink(_, _)
RgLastLink(w, t) == IF w[t].link = 0 THEN t ELSE RgLastLink(w, w[t].link)

RECURSIVE RgStep(_, _, _, _)
RgStep(w, c, ch, failed) ==
    LET back == RgFind(w, 1, ch)
    IN CASE w[c].inp = ch -> [c |-> w[c].nst, failed |-> failed]
         [] w[c].inp # ch /\ w[c].link # 0 -> RgStep(w, w[c].link, ch, failed)
         [] w[c].inp # ch /\ w[c].link = 0 /\ w[c].fail # 0 -> RgStep(w, w[c].fail, ch, TRUE)
         [] w[c].inp # ch /\ w[c].link = 0 /\ w[c].fail = 0 ->
            [c |-> IF back = 0 THEN RgLastLink(w, 1) ELSE w[back].nst, failed |-> TRUE]

RECURSIVE RgScan(_, _, _, _)
RgScan(w, c, text, failed) ==
    LET s == RgStep(w, c, Head(text), failed)
    IN IF text = <<>> THEN [out |-> FALSE, failed |-> failed]
       ELSE IF w[s.c].out THEN [out |-> TRUE, failed |-> s.failed]
       ELSE RgScan(w, s.c, Tail(text), s.failed)

(* Whether the line is selected.                                             *)
RgFgrep(words, flags, line) ==
    LET w == RgCfail(RgGotofn(words, "x" \in flags))
        s == RgScan(w, 1, Append(line, RgNL), FALSE)
        v == "v" \in flags
        x == "x" \in flags
        nomatch == (v /\ (~s.failed \/ ~x)) \/ (~v /\ x /\ s.failed)
    IN IF s.out THEN ~nomatch ELSE v

(* ------------------- what the three do with their lines ------------------- *)
(* execute and succeed: Selected says which lines are wanted (-v included).  *)
RgSucceed(flags, file, Selected(_)) ==
    LET wanted == SelectSeq(RgUpto(Len(file)), LAMBDA i : Selected(file[i]))
    IN [out |-> CASE flags \cap {"c", "l", "s"} = {} ->
                     [k \in 1..Len(wanted) |->
                         <<IF "n" \in flags THEN wanted[k] ELSE 0, file[wanted[k]]>>]
                  [] "c" \in flags -> << <<Len(wanted), <<>> >> >>
                  [] flags \cap {"l", "s"} # {} /\ "c" \notin flags -> <<>>,
        status |-> IF wanted = <<>> THEN 1 ELSE 0]

RgGrepRun(p, flags, file) ==
    LET q == IF "y" \in flags THEN RgFold(p, 1, FALSE) ELSE p
    IN IF RgGrepCompile(q).err THEN [out |-> <<>>, status |-> 2]
       ELSE RgSucceed(flags, file,
                      LAMBDA l : (RgMatch("grep", q, l).r = "yes") = ("v" \notin flags))
RgEgrepRun(t, flags, file) == RgSucceed(flags, file, LAMBDA l : RgEgrep(t, l) = ("v" \notin flags))
RgFgrepRun(words, flags, file) == RgSucceed(flags, file, LAMBDA l : RgFgrep(words, flags, l))

------------------------------------------------------------------------------
(* What a compiled pattern may match, with no order of trying: all places    *)
(* and brackets that are possible after each item.                           *)
RgRuns(x, item, lp, n) ==
    {k \in 0..n : \A j \in 0..k - 1 : RgOne(item, RgAt(x.line, lp + j))}

RgAfter(x, c, item) ==
    LET n == RgNumberOf(item)
        ct == c.g.e[n] - c.g.s[n]
        At(at) == [c EXCEPT !.at = at]
        left == Len(x.line) + 1 - c.at
        Same(at) == \A k \in 0..ct - 1 : RgAt(x.line, c.g.s[n] + k) = RgAt(x.line, at + k)
    IN CASE item.op \in {"CHR", "DOT", "CCL"} /\ item.rep = "" ->
            {At(c.at + k) : k \in RgRuns(x, item, c.at, left) \cap {1}}
         [] item.op \in {"CHR", "DOT", "CCL"} /\ item.rep = "star" ->
            {At(c.at + k) : k \in RgRuns(x, item, c.at, left)}
         [] item.rep = "rnge" ->
            {At(c.at + k) : k \in RgRuns(x, item, c.at, left) \cap (item.low..item.low + item.size)}
         [] item.op = "DOL" -> IF left = 0 THEN {c} ELSE {}
         [] item.op = "BRA" -> {[c EXCEPT !.g.s[n] = c.at]}
         [] item.op = "KET" -> {[c EXCEPT !.g.e[n] = c.at]}
         [] item.op = "BACK" /\ item.rep = "" -> IF Same(c.at) THEN {At(c.at + ct)} ELSE {}
         [] item.op = "BACK" /\ item.rep = "star" ->
            {At(c.at + k * ct) : k \in {m \in 0..left : \A j \in 0..m - 1 : Same(c.at + j * ct)}}

RgAll(x, p) ==
    FoldLeft(LAMBDA C, item : UNION {RgAfter(x, c, item) : c \in C},
             {[at |-> p, g |-> RgFresh]}, x.prog)

(* The matchers that try one way after another find a match where there is   *)
(* one, the first from the left, and report one that is; the brackets of a   *)
(* match that is reported are closed.  Patterns with an empty \( \) behind   *)
(* which grep never comes to an end are left out, \1 inside its own bracket, *)
(* and ed's \1, which is wrong for an empty bracket.                         *)
RgBacktrackRight(job) ==
    LET s == RgCompile(job.d, job.p)
        x == RgX(job.d, s, job.line, 0)
        m == RgMatch(job.d, job.p, job.line)
        starts == IF s.circ THEN {1} ELSE 1..Len(job.line) + 1
        Fit == {p \in starts : RgAll(x, p) # {}}
        Back == {k \in DOMAIN s.prog : s.prog[k].op = "BACK"}
        Closed(k) == \E j \in 1..k : s.prog[j].op = "KET" /\ s.prog[j].arg = s.prog[k].arg
        odd == Back # {} /\ (job.d = "ed" \/ \E k \in Back : ~Closed(k))
    IN \/ s.err \/ odd \/ m.r = "loops"
       \/ /\ (m.r = "yes") = (Fit # {})
          /\ Fit # {} => m.from = Min(Fit) /\ [at |-> m.to, g |-> m.g] \in RgAll(x, m.from)

(* What a tree matches: the ends of all that it fits, from the places of I.  *)
RgTakesIn(e, c) == CASE e.op = "CHAR" -> c \in e.arg
                     [] e.op = "CCL" -> c \in e.arg
                     [] e.op = "DOT" -> c # RgNL
                     [] e.op = "NCCL" -> c # RgNL /\ c \notin e.arg
RECURSIVE RgClosure(_, _, _, _)
RECURSIVE RgEnds(_, _, _, _)
RgClosure(T, v, s, I) ==
    LET J == I \cup RgEnds(T, v, s, I) IN IF J = I THEN I ELSE RgClosure(T, v, s, J)
RgEnds(T, v, s, I) ==
    LET Son(i) == T[v].sons[i]
    IN CASE T[v].sons = <<>> -> {i + 1 : i \in {j \in I : j <= Len(s) /\ RgTakesIn(T[v], s[j])}}
         [] T[v].op = "CAT" -> RgEnds(T, Son(2), s, RgEnds(T, Son(1), s, I))
         [] T[v].op = "OR" -> RgEnds(T, Son(1), s, I) \cup RgEnds(T, Son(2), s, I)
         [] T[v].op = "STAR" -> RgClosure(T, Son(1), s, I)
         [] T[v].op = "PLUS" -> RgClosure(T, Son(1), s, RgEnds(T, Son(1), s, I))
         [] T[v].op = "QUEST" -> I \cup RgEnds(T, Son(1), s, I)
RgFits(postfix, s) ==
    LET T == RgTree(postfix) IN RgEnds(T, T[Len(T) - 1].sons[2], s, 1..Len(s) + 1) # {}

(* The automata of egrep and awk accept the lines in which the pattern       *)
(* occurs, and grep too where it has the pattern (no |, +, ?, and * only     *)
(* behind one character).  A pattern with both '^' or '$' and '.' or [^] is  *)
(* left out: in a state with a transition for the newline '.' takes it too.  *)
RgAutomatonRight(job) ==
    LET Marked(c) == \E i \in DOMAIN job.t : job.t[i].op = "CHAR" /\ c \in job.t[i].arg
        wild == \E i \in DOMAIN job.t : job.t[i].op \in {"DOT", "NCCL"}
        text == <<RgNL>> \o job.line \o <<RgNL>>
        fits == RgFits(job.t, text)
    IN \/ wild /\ Marked(RgNL)
       \/ /\ RgEgrep(job.t, job.line) = fits
          /\ ~Marked(RgNL) => RgAwk(job.t, job.line) = fits
          /\ job.p # <<>> => (RgMatch("grep", job.p, job.line).r = "yes") = fits

(* fgrep selects the lines in which one of the words is, with -x those that  *)
(* are one of them, with -v the others; grep says the same of one word.  The *)
(* last word is forgotten if it is the beginning of an earlier one.          *)
RgIn(word, line) == \E i \in 0..Len(line) - Len(word) : SubSeq(line, i + 1, i + Len(word)) = word
RgFgrepRight(job) ==
    LET words == job.words
        x == "x" \in job.flags
        v == "v" \in job.flags
        forgotten == \E i \in 1..Len(words) - 1 : IsPrefix(words[Len(words)], words[i])
        Has(l) == \E i \in DOMAIN words : IF x THEN words[i] = l ELSE RgIn(words[i], l)
        wanted == SelectSeq(RgUpto(Len(job.file)), LAMBDA i : Has(job.file[i]) # v)
        run == RgFgrepRun(words, job.flags, job.file)
    IN \/ forgotten
       \/ /\ (run.status = 0) = (wanted # <<>>)
          /\ "c" \in job.flags => run.out[1][1] = Len(wanted)
          /\ "c" \notin job.flags => [k \in DOMAIN run.out |-> run.out[k][2]]
                                     = [k \in DOMAIN wanted |-> job.file[wanted[k]]]
          /\ Len(words) = 1 /\ ~x => RgGrepRun(words[1], job.flags, job.file) = run

RgAgree(job) == CASE job.prog = "match" -> RgBacktrackRight(job)
                   [] job.prog = "tree" -> RgAutomatonRight(job)
                   [] job.prog = "fgrep" -> RgFgrepRight(job)

==============================================================================
