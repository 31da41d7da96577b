--------------------------------- MODULE Sh ---------------------------------
(***************************************************************************)
(* The shell's execution of a tree: the substitution of parameters and     *)
(* commands (sh/macro.c), the splitting of words and the matching of file  *)
(* names (sh/service.c, sh/expand.c), the names and arguments (sh/name.c,  *)
(* sh/args.c), and the walk over the tree with its forks, loops, traps and *)
(* internal commands (sh/xec.c, sh/fault.c, sh/error.c).                   *)
(*                                                                         *)
(* A process of the shell is a record X: vars (the names), args (dolv),    *)
(* st (exitval), last (the value of $?), brk, loop, bcnt (execbrk,         *)
(* loopcnt, breakcnt), trap (trapcom; <<>> for an ignored signal), pend    *)
(* (the bits TRAPSET of trapflg), fd, file, pos (descriptors, the contents *)
(* of files and the offsets of readers), post (the status of the children  *)
(* in pwlist), zomb (that of the other children), e (errflg), forked,      *)
(* docs, and dead, set once the process has called exit or longjmp.  The   *)
(* children run one after the other; race says whether a child in the      *)
(* background ends before the next wait or after it.                       *)
(*                                                                         *)
(* Values are words: they may hold quoted characters (macro.c:128).        *)
(***************************************************************************)
EXTENDS Shparse, Integers, TLC

CONSTANT
    ShOrder,    \* the atoms in the order of their codes
    ShProcs     \* [name -> text]: the command files

ShOrd(c) == CHOOSE i \in 1..Len(ShOrder) : ShOrder[i] = c
ShNoVar == [v |-> <<>>, on |-> FALSE, exp |-> FALSE, ro |-> FALSE,
            env |-> <<>>, inenv |-> FALSE]

\* numbers of one digit, with and without a sign
ShItos(n) == CASE n = 0 -> "0" [] n = 1 -> "1" [] n = 2 -> "2" [] n = 3 -> "3"
               [] OTHER -> "9"
ShStoi(c) == CASE c = "1" -> 1 [] c = "2" -> 2 [] c = "3" -> 3 [] c = "9" -> 9
               [] OTHER -> 0

\* exitsh, in a shell that is not at a terminal or has forked: the process
\* ends; failed and error end it with status 1, sigchk with 3.
ShExitsh(X, n) == [X EXCEPT !.st = n, !.dead = TRUE]
ShFailed(X) == ShExitsh(X, 1)

ShVar(X, n) == IF n \in DOMAIN X.vars THEN X.vars[n] ELSE ShNoVar
ShSetVar(X, n, r) ==
    [X EXCEPT !.vars = [m \in DOMAIN X.vars \cup {n} |-> IF m = n THEN r ELSE X.vars[m]]]
ShSetFile(X, f, t) ==
    [X EXCEPT !.file = [g \in DOMAIN X.file \cup {f} |->
                           IF g = f THEN [t |-> t, p |-> 1] ELSE X.file[g]]]
ShWrite(X, f, t) ==
    IF f \notin DOMAIN X.file THEN X ELSE [X EXCEPT !.file[f].t = @ \o t]
\* the pipes of a process, and those of its children, are different files
ShPipe(use, X) == use \o ToString(X.depth)

\* assign and attrib
ShAssign(X, n, v) ==
    IF ShVar(X, n).ro THEN ShFailed(X)
    ELSE ShSetVar(X, n, [ShVar(X, n) EXCEPT !.v = v, !.on = TRUE])
ShAttrib(X, n, flag) ==
    ShSetVar(X, n, [ShVar(X, n) EXCEPT !.exp = @ \/ flag = "export",
                                       !.ro = @ \/ flag = "readonly"])

\* exname and setenv: an exported name takes its value to the environment,
\* the others fall back to the value they came with.
ShExname(X) ==
    [X EXCEPT !.vars = [n \in DOMAIN X.vars |->
        LET r == X.vars[n]
        IN IF r.exp THEN [r EXCEPT !.env = r.v, !.inenv = r.on]
           ELSE [r EXCEPT !.v = r.env, !.on = r.inenv]]]

ShIfs(X) == {ShVar(X, "IFS").v[i] : i \in 1..Len(ShVar(X, "IFS").v)}
ShCat(w) == FoldLeft(LAMBDA a, b : a \o b, <<>>, w)

(***************************************************************************)
(* gmatch: the pattern p, a word, against the atoms s.                     *)
(***************************************************************************)
RECURSIVE ShGmatch(_, _), ShBracket(_, _, _, _)
ShGmatch(s, p) ==
    IF p = <<>> THEN s = <<>>
    ELSE IF p[1] = ShBare("[") THEN s # <<>> /\ ShBracket(s, Tail(p), FALSE, "")
    ELSE IF p[1] = ShBare("?") THEN s # <<>> /\ ShGmatch(Tail(s), Tail(p))
    ELSE IF p[1] = ShBare("*")
    THEN Len(p) = 1 \/ \E k \in 1..Len(s) : ShGmatch(SubSeq(s, k, Len(s)), Tail(p))
    ELSE s # <<>> /\ s[1] = p[1][1] /\ ShGmatch(Tail(s), Tail(p))
ShBracket(s, p, ok, lc) ==
    IF p = <<>> THEN FALSE
    ELSE IF p[1] = ShBare("]") THEN ok /\ ShGmatch(Tail(s), Tail(p))
    ELSE IF p[1] = ShBare("-")
    THEN Len(p) > 1
         /\ ShBracket(s, SubSeq(p, 3, Len(p)),
                      ok \/ (lc # "" /\ ShOrd(lc) <= ShOrd(s[1])
                             /\ ShOrd(s[1]) <= ShOrd(p[2][1])), lc)
    ELSE ShBracket(s, Tail(p), ok \/ s[1] = p[1][1], p[1][1])

\* cf and gsort: file names in the order of their atoms
RECURSIVE ShBefore(_, _)
ShBefore(a, b) ==
    IF a = <<>> \/ b = <<>> THEN b # <<>>
    ELSE IF a[1] = b[1] THEN ShBefore(Tail(a), Tail(b))
    ELSE ShOrd(a[1]) < ShOrd(b[1])
ShGsort(S) ==
    CHOOSE q \in [1..Cardinality(S) -> S] :
        \A i, j \in 1..Cardinality(S) : i < j => ShBefore(q[i], q[j])

\* expand: the names of the directory that match the word, sorted; none if
\* no character of it is special or nothing matches.
ShExpand(X, w) ==
    LET special == \E i \in 1..Len(w) : w[i] \in {ShBare("*"), ShBare("?"), ShBare("[")}
        found == {f \in X.dir : /\ f[1] = "." => w[1][1] = "."
                                /\ ShGmatch(f, w)}
    IN IF special THEN ShGsort(found) ELSE <<>>

\* split: the fields of a substituted word between unquoted characters of
\* IFS, the empty ones dropped, each replaced by the file names it matches.
ShFields(w, ifs) ==
    LET step(a, c) == IF c \in ifs
                      THEN [a EXCEPT !.done = IF a.cur = <<>> THEN @ ELSE Append(@, a.cur),
                                     !.cur = <<>>]
                      ELSE [a EXCEPT !.cur = Append(@, c)]
        r == FoldLeft(step, [done |-> <<>>, cur |-> <<>>], w)
    IN IF r.cur = <<>> THEN r.done ELSE Append(r.done, r.cur)
ShSplit(X, w) ==
    LET f == ShFields(w, ShIfs(X))
        names(i) == ShExpand(X, f[i])
    IN ShCat([i \in 1..Len(f) |->
              IF names(i) = <<>> THEN <<f[i]>>
              ELSE [j \in 1..Len(names(i)) |-> ShPlain(names(i)[j])]])

\* fault: a signal reaches the shell; with no command for it the shell ends.
ShFault(X, s) == IF s \notin DOMAIN X.trap THEN ShExitsh(X, 3)
                 ELSE IF X.trap[s] = <<>> THEN X
                 ELSE [X EXCEPT !.pend = @ \cup {s}]

(***************************************************************************)
(* await: the children in pwlist and its argument are waited for; so are   *)
(* the others that have ended, or all of them for the command wait.  The   *)
(* status is the first that is not zero.  The signals sent to the shell of *)
(* the script by its children reach it here.                               *)
(***************************************************************************)
ShFirstBad(s) == FoldLeft(LAMBDA a, b : IF a = 0 THEN b ELSE a, 0, s)
ShAwait(X, own, all) ==
    LET others == all \/ X.race
        rc == ShFirstBad((IF others THEN X.zomb ELSE <<>>) \o X.post \o own)
        Y == [X EXCEPT !.zomb = IF others THEN <<>> ELSE @, !.post = <<>>,
                       !.st = rc, !.last = rc, !.sent = IF X.main THEN {} ELSE @]
        Z == FoldSet(LAMBDA i, U : IF U.dead THEN U ELSE ShFault(U, i), Y, X.sent)
    IN IF rc # 0 /\ X.e THEN ShExitsh(Y, rc)
       ELSE IF X.main THEN Z ELSE Y

RECURSIVE ShCopyto(_, _, _, _), ShExecute(_, _, _, _, _)

(***************************************************************************)
(* macro: a state m of the substitution holds the process, the place in    *)
(* the word, the characters produced, the bit quote, whether a " was met.  *)
(***************************************************************************)
ShM(X, p, out, q, qd) == [x |-> X, p |-> p, out |-> out, quote |-> q, quoted |-> qd]
ShAt(w, p) == IF p <= Len(w) THEN w[p] ELSE ShBare("eof")
ShPush(m, v) == [m EXCEPT !.out = @ \o [i \in 1..Len(v) |-> <<v[i][1], v[i][2] \/ m.quote>>]]

\* skipto: the end of the word of a ${ } that is not used.
RECURSIVE ShSkipto(_, _, _)
ShSkipto(w, p, end) ==
    LET c == ShAt(w, p)
    IN IF c = ShBare(end) \/ c = ShBare("eof") THEN p + 1
       ELSE IF c \in {ShBare("dq"), ShBare("bq")} THEN ShSkipto(w, ShSkipto(w, p + 1, c[1]), end)
       ELSE IF c = ShBare("$") /\ ShAt(w, p + 1) = ShBare("{")
       THEN ShSkipto(w, ShSkipto(w, p + 2, "}"), end)
       ELSE ShSkipto(w, IF c = ShBare("$") THEN p + 2 ELSE p + 1, end)

\* comsubst: the command runs in a child whose output is the pipe "sub"; the
\* newlines at the end of all that the word has produced so far are dropped.
RECURSIVE ShStripNl(_)
ShStripNl(w) == IF w # <<>> /\ w[Len(w)][1] = "nl"
                THEN ShStripNl(SubSeq(w, 1, Len(w) - 1)) ELSE w
ShComsubst(m, w) ==
    LET X == m.x
        ends == {i \in m.p..Len(w) : w[i] = ShBare("bq")}
        end == IF ends = {} THEN Len(w) + 1 ELSE CHOOSE i \in ends : \A j \in ends : i <= j
        text == ShTrim(SubSeq(w, m.p, end - 1))
        c == ShCmd(ShReader(text, 1, X.docs), {"eof"}, {"NL", "MT"})
        pipe == ShPipe("sub", X)
        Y == [ShSetFile(X, pipe, <<>>) EXCEPT !.docs = c[2].docs]
        Z == ShExecute(Y, ShMakefork({"POU"}, c[1], <<>>), FALSE, pipe, pipe)
        got == Z.file[pipe].t
    IN IF c[2].bad THEN [m EXCEPT !.x = ShExitsh(X, 2), !.p = end + 1]
       ELSE [ShPush([m EXCEPT !.x = ShAwait(Z, <<>>, FALSE)], ShPlain(got))
                EXCEPT !.out = ShStripNl(@), !.p = end + 1]

\* The value of a parameter named by the atom c: the arguments for * and @,
\* with the separators between them.
ShParam(X, c, quote) ==
    LET some(v) == [on |-> TRUE, v |-> v]
        sep == <<<<"sp", c = "*" /\ quote>>>>
        arg(k) == IF k = 0 THEN <<ShBare("sh")>> ELSE X.args[k]
    IN CASE c \in ShLetters -> [on |-> ShVar(X, c).on, v |-> ShVar(X, c).v]
         [] c \in {"*", "@"} ->
              IF X.args = <<>> THEN [on |-> FALSE, v |-> <<>>]
              ELSE some(ShCat([i \in 1..Len(X.args) |->
                   LET a == X.args[i]
                       v == [j \in 1..Len(a) |-> <<a[j][1], a[j][2] \/ quote>>]
                   IN IF i = 1 THEN v ELSE sep \o v]))
         [] c \in ShDigits -> IF ShStoi(c) <= Len(X.args) THEN some(arg(ShStoi(c)))
                              ELSE [on |-> FALSE, v |-> <<>>]
         [] c = "#" -> some(<<ShBare(ShItos(Len(X.args)))>>)
         [] OTHER -> some(<<ShBare(ShItos(X.last))>>)

\* getch at a $ that begins a substitution.
ShDollar(m, w) ==
    LET bra == ShAt(w, m.p + 1) = ShBare("{")
        p0 == IF bra THEN m.p + 2 ELSE m.p + 1
        c == ShAt(w, p0)[1]
        v == ShParam(m.x, c, m.quote)
        op == ShAt(w, p0 + 1)
        use == bra /\ op[1] # "}" /\ (~v.on) # (op[1] = "+")
        word == ShCopyto([m EXCEPT !.p = p0 + 2, !.out = <<>>], w, "}", TRUE)
        end == IF ~bra THEN p0 + 1
               ELSE IF op[1] = "}" THEN p0 + 2
               ELSE IF use THEN word.p ELSE ShSkipto(w, p0 + 2, "}")
        n == IF use THEN [word EXCEPT !.out = m.out \o @] ELSE m
        many == [m EXCEPT !.out = @ \o v.v]
        star == c \in {"*", "@"}
        r == IF v.on
             THEN IF bra /\ op[1] = "+" THEN n
                  ELSE IF star THEN many ELSE ShPush(m, v.v)
             ELSE IF bra /\ op[1] = "?" THEN [n EXCEPT !.x = ShFailed(@)]
             ELSE IF bra /\ op[1] = "=" /\ ~n.x.dead
             THEN [n EXCEPT !.x = IF c \in ShLetters THEN ShAssign(@, c, word.out)
                                  ELSE ShFailed(@)]
             ELSE n
    IN IF bra /\ (op[2] \/ op[1] \notin {"}", "=", "-", "+", "?"})
       THEN [m EXCEPT !.x = ShFailed(@)]
       ELSE [r EXCEPT !.p = end]

\* getch and copyto: up to the end of the word, or to the } of a ${ }.
ShCopyto(m, w, end, inner) ==
    LET d == ShAt(w, m.p)
        dol == ShAt(w, m.p + 1)
        special == ~dol[2] /\ dol[1] \in ShAlnum \cup {"*", "@", "{", "#", "?", "$", "!", "-"}
    IN IF m.x.dead THEN m
       ELSE IF d = ShBare("eof") THEN IF inner THEN [m EXCEPT !.x = ShFailed(@)] ELSE m
       ELSE IF inner /\ d = ShBare(end) THEN [m EXCEPT !.p = @ + 1]
       ELSE IF d = ShBare("$") /\ special THEN ShCopyto(ShDollar(m, w), w, end, inner)
       ELSE IF d = ShBare("bq")
            THEN ShCopyto(ShComsubst([m EXCEPT !.p = @ + 1], w), w, end, inner)
       ELSE IF d = ShBare("dq")
            THEN ShCopyto([m EXCEPT !.p = @ + 1, !.quote = ~@, !.quoted = TRUE], w, end, inner)
       ELSE ShCopyto([ShPush(m, <<d>>) EXCEPT !.p = @ + 1], w, end, inner)

\* A word that was quoted and is empty leaves one empty argument.
ShMacro(X, w) ==
    LET m == ShCopyto(ShM(X, 1, <<>>, FALSE, FALSE), w, "eof", FALSE)
    IN IF m.quoted /\ m.out = <<>> THEN <<m.x, <<<<"", TRUE>>>>>> ELSE <<m.x, m.out>>
ShMactrim(X, w) == LET m == ShMacro(X, w) IN <<m[1], ShPlain(ShTrim(m[2]))>>

\* getarg and scan: the arguments of a command; only the first keeps its
\* quoted characters, so that a quoted name is no internal command.
ShGetarg(X, words) ==
    LET step(a, w) == IF a[1].dead THEN a
                      ELSE LET m == ShMacro(a[1], w)
                           IN <<m[1], a[2] \o ShSplit(m[1], m[2])>>
    IN FoldLeft(step, <<X, <<>>>>, words)

\* setlist and setname
ShSetlist(X, set, exp) ==
    LET step(Y, w) ==
            LET m == ShMactrim(Y, w)
                v == m[2]
            IN IF Y.dead \/ m[1].dead THEN m[1]
               ELSE IF Len(v) < 2 \/ v[1][1] \notin ShLetters \/ v[2][1] # "="
               THEN ShFailed(m[1])
               ELSE ShAssign(IF exp THEN ShAttrib(m[1], v[1][1], "export") ELSE m[1],
                             v[1][1], SubSeq(v, 3, Len(v)))
    IN FoldLeft(step, X, set)

\* subst: a here document with its parameters and commands substituted, its
\* double quotes being ordinary characters.
ShSubst(X, doc) ==
    LET lit == [i \in 1..Len(doc.text) |->
                   IF doc.text[i] = ShBare("dq") THEN <<"dq", TRUE>> ELSE doc.text[i]]
        m == ShCopyto(ShM(X, 1, <<>>, FALSE, FALSE), lit, "eof", FALSE)
    IN IF doc.lit THEN <<X, ShTrim(doc.text)>> ELSE <<m.x, ShTrim(m.out)>>

\* initio: the redirections, in the order of the chain.
ShInitio(X, ios) ==
    LET step(Y, io) ==
            LET m == ShMactrim(Y, io[3])
                Z == m[1]
                f == IF m[2] = <<>> THEN "" ELSE m[2][1][1]
                d == ShSubst(Z, Z.docs[io[4]])
                doc == ShPipe("doc" \o ToString(io[4]), Z)
                to(U, g) == [U EXCEPT !.fd[io[2]] = g, !.ioset = @ \/ io[2] = "0"]
            IN CASE Y.dead \/ Z.dead \/ f = "" -> Z
                 [] io[1] = "<<" -> to(ShSetFile(d[1], doc, d[2]), doc)
                 [] io[1] = "&" -> IF f = "-" THEN [Z EXCEPT !.fd[io[2]] = ""]
                                   ELSE IF f \notin DOMAIN Z.fd THEN ShFailed(Z)
                                   ELSE to(Z, Z.fd[f])
                 [] io[1] = "<" -> IF f \in DOMAIN Z.file
                                   THEN to([Z EXCEPT !.file[f].p = 1], f) ELSE ShFailed(Z)
                 [] io[1] = ">>" /\ f \in DOMAIN Z.file -> to(Z, f)
                 [] OTHER -> to(ShSetFile(Z, f, <<>>), f)
    IN FoldLeft(step, X, ios)

\* readvar: a line of the input, cut at the characters of IFS while there are
\* more names than one.
ShReadvar(X, names) ==
    LET f == X.fd["0"]
        src == X.file[f]
        nl == ShFind(src.t, src.p, "nl")
        line == ShPlain(SubSeq(src.t, src.p, nl - 1))
        ifs == ShIfs(X)
        step(a, c) == IF a.left > 1 /\ c \in ifs
                      THEN [a EXCEPT !.left = @ - 1, !.vals = Append(@, <<>>)]
                      ELSE [a EXCEPT !.vals[Len(a.vals)] = Append(@, c)]
        r == FoldLeft(step, [left |-> Len(names), vals |-> <<<<>>>>], line).vals
        val(i) == IF i <= Len(r) THEN r[i] ELSE <<>>
        set(Y, i) == IF Y.dead THEN Y ELSE ShAssign(Y, names[i][1], val(i))
        Z == FoldLeft(set, X, [i \in 1..Len(names) |-> i])
    IN IF f \notin DOMAIN X.file THEN [X EXCEPT !.st = 1]
       ELSE [Z EXCEPT !.file[f].p = nl + 1,
                      !.st = IF Z.dead THEN @ ELSE IF nl > Len(src.t) THEN 1 ELSE 0]

\* oldsigs: a child keeps only the signals that are ignored.
ShOldsigs(X) ==
    LET kept == {i \in DOMAIN X.trap : X.trap[i] = <<>>}
    IN [X EXCEPT !.trap = [i \in kept |-> X.trap[i]], !.pend = {}]

\* execexp: a text is read whole and executed.
ShExecexp(X, text) ==
    LET c == ShParseAll(text, X.docs)
    IN IF c[2].bad THEN ShExitsh(X, 2)
       ELSE ShExecute([X EXCEPT !.docs = c[2].docs], c[1], FALSE, "", "")

\* chktrap: the commands of the signals that have arrived, the highest first;
\* the status is what it was before.
RECURSIVE ShChktrap(_)
ShChktrap(X) ==
    LET i == CHOOSE s \in X.pend : \A j \in X.pend : j <= s
        Y == [X EXCEPT !.pend = @ \ {i}]
        Z == ShExecexp(Y, X.trap[i])
    IN IF X.dead \/ X.pend = {} THEN X
       ELSE IF i \notin DOMAIN X.trap THEN ShChktrap(Y)
       ELSE IF Z.dead THEN Z
       ELSE ShChktrap([Z EXCEPT !.st = X.st, !.last = X.st])

\* done: the command of trap 0 runs once, at the end of the process.
ShDone(X) ==
    LET Y == [X EXCEPT !.dead = FALSE,
                       !.trap = [i \in DOMAIN X.trap \ {0} |-> X.trap[i]]]
    IN IF 0 \in DOMAIN X.trap THEN [ShExecexp(Y, X.trap[0]) EXCEPT !.dead = TRUE]
       ELSE [X EXCEPT !.dead = TRUE]

(***************************************************************************)
(* exfile: a script is read and executed line by line; at a terminal an    *)
(* error returns here.  main starts it with the loop counts at zero.       *)
(***************************************************************************)
RECURSIVE ShExfile(_, _, _)
ShExfile(X, text, p) ==
    LET c == ShParseLine(text, p, X.docs)
        Y == IF c[2].bad THEN ShExitsh(X, 2)
             ELSE ShExecute([X EXCEPT !.docs = c[2].docs], c[1], FALSE, "", "")
        next == IF c[2].bad THEN ShFind(text, p, "nl") + 1 ELSE c[2].p
        back == [Y EXCEPT !.dead = FALSE, !.loop = 0, !.bcnt = 0, !.last = Y.st]
    IN IF p > Len(text) THEN X
       ELSE IF Y.dead /\ (~Y.tty \/ Y.forked \/ Y.e) THEN Y
       ELSE ShExfile(IF Y.dead THEN back ELSE Y, text, next)

(***************************************************************************)
(* execa: the command as another program.  echo, cat, true, false, kill    *)
(* (a signal to the shell of the script) and env (the value of x in the    *)
(* environment) are all there is; a file that is no program is read as a   *)
(* script by this process, with its arguments and the exported names.      *)
(***************************************************************************)
ShExternal(X0, com) ==
    LET X == ShExname(X0)
        a == [i \in 1..Len(com) |-> ShTrim(com[i])]
        name == a[1][1]
        line == ShCat([i \in 1..Len(a) - 1 |->
                      IF i = 1 THEN a[2] ELSE <<"sp">> \o a[i + 1]]) \o <<"nl">>
        src == X.file[X.fd["0"]]
        env == IF ShVar(X, "x").on THEN ShTrim(ShVar(X, "x").v) ELSE <<>>
        ends(Y, n) == [Y EXCEPT !.st = n, !.dead = TRUE]
    IN IF a[1] = <<>> \/ X.dead THEN ShFailed(X)
       ELSE CASE name = "true" -> ends(X, 0)
              [] name = "false" -> ends(X, 1)
              [] name = "echo" -> ends(ShWrite(X, X.fd["1"], line), 0)
              [] name = "env" -> ends(ShWrite(X, X.fd["1"], env \o <<"nl">>), 0)
              [] name = "kill" -> ends([X EXCEPT !.sent = @ \cup {ShStoi(a[2][1])}], 0)
              [] name = "cat" ->
                   IF X.fd["0"] \notin DOMAIN X.file THEN ends(X, 1)
                   ELSE ends([ShWrite(X, X.fd["1"], SubSeq(src.t, src.p, Len(src.t)))
                                 EXCEPT !.file[X.fd["0"]].p = Len(src.t) + 1], 0)
              [] name \in DOMAIN ShProcs ->
                   ShDone(ShExfile([X EXCEPT !.args = Tail(com), !.e = FALSE, !.loop = 0,
                                       !.forked = FALSE, !.tty = FALSE,
                                       !.bcnt = 0, !.ioset = FALSE], ShProcs[name], 1))
              [] OTHER -> ShFailed(X)

ShInternal == {"read", "set", ":", "trap", "wait", "eval", ".", "readonly", "export",
               "break", "continue", "shift", "exit", "exec"}

\* trap: with a number first the signals are given back, else the command is
\* set for each of them, an empty one ignoring it.
ShTrap(X, a) ==
    LET clear == a[1] # <<>> /\ a[1][1] \in ShDigits
        nums == {ShStoi(a[i][1]) : i \in (IF clear THEN 1 ELSE 2)..Len(a)}
        keep == DOMAIN X.trap \ nums
    IN IF a = <<>> THEN X
       ELSE IF clear THEN [X EXCEPT !.trap = [i \in keep |-> X.trap[i]]]
       ELSE [X EXCEPT !.trap = [i \in keep \cup nums |->
                                  IF i \in nums THEN a[1] ELSE X.trap[i]]]

\* The internal commands: a is the arguments after the name, old the status
\* before the command.
ShDoInternal(X, name, a, io, old) ==
    LET joined == ShCat([i \in 1..Len(a) |-> IF i = 1 THEN a[1] ELSE <<"sp">> \o a[i]])
        attribs == FoldLeft(LAMBDA Y, n : ShAttrib(Y, n[1], name), X, a)
        Y == [ShInitio(X, io) EXCEPT !.ioset = FALSE]
        opt == a # <<>> /\ a[1] # <<>> /\ a[1][1] = "-"
        rest == IF opt THEN Tail(a) ELSE a
        S == IF opt THEN [X EXCEPT !.e = @ \/ "e" \in Range(a[1])] ELSE X
    IN CASE name = ":" -> X
         [] name = "exit" -> ShExitsh(X, IF a = <<>> THEN old ELSE ShStoi(a[1][1]))
         [] name = "continue" -> [X EXCEPT !.brk = -X.loop]
         [] name = "break" -> [X EXCEPT !.brk = X.loop,
                                 !.bcnt = IF X.loop # 0 /\ a # <<>> THEN ShStoi(a[1][1]) ELSE @]
         [] name = "trap" -> ShTrap(X, a)
         [] name = "exec" -> IF a = <<>> \/ Y.dead THEN Y
                             ELSE ShExternal(ShOldsigs([Y EXCEPT !.forked = TRUE]),
                                             [i \in 1..Len(a) |-> ShPlain(a[i])])
         [] name = "shift" -> IF X.args = <<>> THEN ShFailed(X)
                              ELSE [X EXCEPT !.args = Tail(@)]
         [] name = "wait" -> ShAwait(X, <<>>, TRUE)
         [] name = "read" -> ShReadvar(X, a)
         [] name = "set" -> IF rest = <<>> THEN S
                            ELSE [S EXCEPT !.args = [i \in 1..Len(rest) |-> ShPlain(rest[i])]]
         [] name = "eval" -> IF a = <<>> THEN X ELSE ShExecexp(X, joined)
         [] name = "." -> IF a = <<>> THEN X
                          ELSE IF a[1] # <<>> /\ a[1][1] \in DOMAIN ShProcs
                          THEN ShExecexp(X, ShProcs[a[1][1]]) ELSE ShFailed(X)
         [] OTHER -> attribs

(***************************************************************************)
(* TFORK: the child gets its signals, pipes and redirections and runs the  *)
(* subtree or the program to its end; the parent waits for it, or notes it *)
(* in pwlist if it writes into a pipe, or leaves it in the background.     *)
(* With execflg, in a process that has nothing left to do, there is no     *)
(* child.                                                                  *)
(***************************************************************************)
ShFork(X, t, com, execflg, pf1, pf2) ==
    LET flags == IF t[1] = "com" THEN {} ELSE t[2]
        same == execflg /\ flags \cap {"AMP", "POU"} = {}
        null == "INT" \in flags /\ ~X.ioset /\ "PIN" \notin flags
        born == [ShOldsigs(X) EXCEPT
                    !.forked = TRUE, !.main = FALSE, !.post = <<>>, !.zomb = <<>>,
                    !.depth = IF same THEN @ ELSE @ + 1,
                    !.ioset = @ \/ "PIN" \in flags,
                    !.fd["0"] = IF "PIN" \in flags THEN pf1 ELSE IF null THEN "null" ELSE @,
                    !.fd["1"] = IF "POU" \in flags THEN pf2 ELSE @]
        child == ShInitio(born, t[4])
        ran == IF child.dead THEN child
               ELSE IF t[1] = "fork" THEN ShExecute(child, t[3], TRUE, "", "")
               ELSE IF com = <<>> THEN child
               ELSE ShExternal(ShSetlist(child, t[3], TRUE), com)
        end == ShDone(ran)
        Y == [X EXCEPT !.file = end.file, !.docs = end.docs, !.sent = end.sent]
        Z == IF "AMP" \in flags THEN [Y EXCEPT !.zomb = Append(@, end.st)]
             ELSE IF "POU" \in flags THEN [Y EXCEPT !.post = Append(@, end.st)]
             ELSE ShAwait(Y, <<end.st>>, FALSE)
    IN IF same THEN end ELSE ShChktrap(Z)

\* TCOM: the words are substituted first; assignments belong to the shell
\* for an internal command or none at all.
ShCom(X, t, execflg, pf1, pf2, old) ==
    LET g == ShGetarg(X, t[2])
        com == g[2]
        name == com[1][1][1]
        internal == Len(com) > 0 /\ Len(com[1]) = 1 /\ ~com[1][1][2] /\ name \in ShInternal
        Y == IF com = <<>> \/ internal THEN ShSetlist(g[1], t[3], FALSE) ELSE g[1]
        a == [i \in 1..Len(com) - 1 |-> ShTrim(com[i + 1])]
        Z == ShDoInternal(Y, name, a, t[4], old)
    IN IF g[1].dead \/ Y.dead THEN Y
       ELSE IF internal
       THEN IF Z.dead THEN Z
            ELSE IF t[4] # <<>> /\ name \notin {":", "exec"} THEN ShFailed(Z)
            ELSE ShChktrap(Z)
       ELSE IF com = <<>> /\ t[4] = <<>> THEN Y
       ELSE ShFork(Y, t, com, execflg, pf1, pf2)

Bug_ShLoopEnd(X) == [X EXCEPT !.bcnt = 0, !.brk = 0, !.loop = @ - 1]

\* The end of a loop: break n leaves n - 1 loops more to be broken.
ShLoopEnd(X) == LET n == IF X.bcnt > 0 THEN X.bcnt - 1 ELSE 0
                IN [X EXCEPT !.bcnt = n, !.brk = n, !.loop = @ - 1]
ShContinued(X) == IF X.brk < 0 THEN [X EXCEPT !.brk = 0] ELSE X

RECURSIVE ShFor(_, _, _, _), ShWhile(_, _, _), ShCase(_, _, _, _)
ShFor(X, n, vals, body) ==
    IF X.dead THEN X
    ELSE IF vals = <<>> \/ X.brk # 0 THEN ShLoopEnd(X)
    ELSE LET Y == ShAssign(X, n, ShPlain(ShTrim(Head(vals))))
         IN ShFor(ShContinued(ShExecute(Y, body, FALSE, "", "")), n, Tail(vals), body)
ShWhile(X, t, i) ==
    LET C == ShExecute(X, t[2], FALSE, "", "")
        B == ShExecute(C, t[3], FALSE, "", "")
    IN IF X.dead THEN X
       ELSE IF X.brk # 0 THEN [ShLoopEnd(X) EXCEPT !.st = i]
       ELSE IF C.dead THEN C
       ELSE IF (C.st = 0) # (t[1] = "wh") THEN [ShLoopEnd(C) EXCEPT !.st = i]
       ELSE ShWhile(ShContinued(B), t, B.st)

\* case: the first pattern that matches, or is the same string.
ShCase(X, r, regs, k) ==
    IF X.dead \/ regs = <<>> THEN X
    ELSE IF k > Len(Head(regs)[1]) THEN ShCase(X, r, Tail(regs), 1)
    ELSE LET m == ShMacro(X, Head(regs)[1][k])
         IN IF ShGmatch(r, SelectSeq(m[2], LAMBDA c : c[1] # "")) \/ r = ShTrim(m[2])
            THEN ShExecute(m[1], Head(regs)[2], FALSE, "", "")
            ELSE ShCase(m[1], r, regs, k + 1)

ShIn(X) == [X EXCEPT !.loop = @ + 1]
ShTree(X, t, execflg, pf1, pf2, old) ==
    LET left == ShExecute(X, t[2], FALSE, "", "")
        right(Y) == IF Y.dead THEN Y ELSE ShExecute(Y, t[3], execflg, "", "")
        pipe == ShPipe("pipe", X)
        writer == ShExecute(ShSetFile(X, pipe, <<>>), t[2], FALSE, pf1, pipe)
        list == ShGetarg(X, t[3][2])
        word == ShMactrim(X, t[2])
    IN CASE t[1] = "com" -> ShCom(X, t, execflg, pf1, pf2, old)
         [] t[1] = "fork" -> ShFork(X, t, <<>>, execflg, pf1, pf2)
         [] t[1] = "par" -> ShDone(ShExecute(X, t[2], execflg, "", ""))
         [] t[1] = "fil" -> IF writer.dead THEN writer
                            ELSE ShExecute(writer, t[3], execflg, pipe, pf2)
         [] t[1] = "lst" -> right(left)
         [] t[1] = "and" -> IF left.dead \/ left.st # 0 THEN left ELSE right(left)
         [] t[1] = "orf" -> IF left.dead \/ left.st = 0 THEN left ELSE right(left)
         [] t[1] = "for" ->
              IF Len(t[2]) # 1 \/ t[2][1][1] \notin ShLetters THEN ShFailed(X)
              ELSE IF t[3] = ShNil THEN ShFor(ShIn(X), t[2][1][1], X.args, t[4])
              ELSE IF list[1].dead THEN list[1]
              ELSE ShFor(ShIn(list[1]), t[2][1][1], list[2], t[4])
         [] t[1] \in {"wh", "un"} -> ShWhile(ShIn(X), t, 0)
         [] t[1] = "if" -> IF left.dead THEN left
                           ELSE ShExecute(left, IF left.st = 0 THEN t[3] ELSE t[4],
                                          execflg, "", "")
         [] OTHER -> IF word[1].dead THEN word[1]
                     ELSE ShCase(word[1], ShTrim(word[2]), t[3], 1)

\* execute: nothing is done while a break is on its way out.
ShExecute(X, t, execflg, pf1, pf2) ==
    IF X.dead \/ t = ShNil \/ X.brk # 0 THEN X
    ELSE LET Y == ShTree([X EXCEPT !.st = 0], t, execflg, pf1, pf2, X.st)
         IN IF Y.dead THEN Y ELSE [Y EXCEPT !.last = Y.st]

\* A shell that begins to read a script.
ShStart(args, dir, input, race, tty) ==
    [vars |-> [n \in {"IFS"} |-> [ShNoVar EXCEPT !.v = ShPlain(<<"sp", "tab", "nl">>),
                                                !.on = TRUE]],
     args |-> [i \in 1..Len(args) |-> ShPlain(args[i])],
     st |-> 0, last |-> 0, brk |-> 0, loop |-> 0, bcnt |-> 0,
     trap |-> [i \in {} |-> <<>>], pend |-> {}, sent |-> {},
     fd |-> [d \in {"0", "1", "2"} |-> IF d = "0" THEN "stdin" ELSE "out"],
     file |-> [f \in {"stdin", "out", "null"} |->
                 [t |-> IF f = "stdin" THEN input ELSE <<>>, p |-> 1]],
     dir |-> dir, post |-> <<>>, zomb |-> <<>>, e |-> FALSE, forked |-> FALSE,
     main |-> TRUE, tty |-> tty, race |-> race, ioset |-> FALSE, docs |-> <<>>,
     depth |-> 0, dead |-> FALSE]

\* main: the script is run, and the command of trap 0 at its end.
ShMain(X, text) == ShDone(ShExfile(X, text, 1))
=============================================================================
