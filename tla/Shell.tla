------------------------------- MODULE Shell --------------------------------
(***************************************************************************)
(* What a script means, against what sh does with its text.  A program is  *)
(* a tuple whose first member names its construction; ShText prints it,    *)
(* ShMeans gives its meaning by cases, with breaks and exits as ways a     *)
(* command can complete rather than as the counters of the shell.          *)
(***************************************************************************)
EXTENDS Sh

\* Each program as a text.  A part that is not a single command is put in
\* braces where another operator follows or precedes it.
ShLeaf == {"true", "false", "echo", "break", "continue", "exit", "set", "cat", "kill"}
RECURSIVE ShText(_)
ShText(t) ==
    LET sp(w) == <<"sp">> \o w
        part(u) == IF u[1] \in ShLeaf THEN ShText(u)
                   ELSE <<"{", "sp">> \o ShText(u) \o <<";", "}">>
    IN CASE t[1] \in {"true", "false", "cat", "continue"} -> <<t[1]>>
         [] t[1] \in {"echo", "break", "exit", "kill"} -> <<t[1]>> \o sp(t[2])
         [] t[1] = "set" -> <<"x", "=">> \o t[2]
         [] t[1] = "and" -> part(t[2]) \o <<"&", "&">> \o part(t[3])
         [] t[1] = "or" -> part(t[2]) \o <<"|", "|", "nl">> \o part(t[3])
         [] t[1] = "pipe" -> part(t[2]) \o <<"|">> \o part(t[3])
         [] t[1] = "seq" -> ShText(t[2]) \o <<";">> \o ShText(t[3])
         [] t[1] = "sub" -> <<"(">> \o ShText(t[2]) \o <<")">>
         [] t[1] = "bg" -> part(t[2]) \o <<"&", "wait">>
         [] t[1] = "eval" -> <<"eval", "sp", "sq">> \o ShText(t[2]) \o <<"sq">>
         [] t[1] = "trap" -> <<"trap", "sp", "sq">> \o ShText(t[2]) \o <<"sq", "sp", "1">>
         [] t[1] = "if" -> <<"if">> \o sp(ShText(t[2])) \o <<"nl", "then">>
                           \o sp(ShText(t[3])) \o <<";", "else">> \o sp(ShText(t[4]))
                           \o <<"nl", "fi">>
         [] t[1] = "elif" -> <<"if">> \o sp(ShText(t[2])) \o <<";", "then", "sp", "true",
                              ";", "elif">> \o sp(ShText(t[3])) \o <<"nl", "then", "sp">>
                             \o ShText(t[4]) \o <<"nl", "fi">>
         [] t[1] = "for" -> <<"for", "sp", "x", "sp", "in", "sp", "a", "sp", "b", "nl", "do">>
                            \o sp(ShText(t[2])) \o <<"nl", "done">>
         [] t[1] = "args" -> <<"for", "sp", "x", "sp", "do">> \o sp(ShText(t[2])) \o <<";", "done">>
         [] t[1] = "reads" -> <<"while", "sp", "read", "sp", "x", "nl", "do">>
                              \o sp(ShText(t[2])) \o <<"nl", "done">>
         [] OTHER -> <<"case", "sp", "$", "x", "sp", "in", "nl", "a", "|", "b", ")">>
                     \o sp(ShText(t[2])) \o <<";", ";", "nl", "?", "*", ")">>
                     \o ShText(t[3]) \o <<"nl", "esac">>

(***************************************************************************)
(* The meaning.  s holds the output, the status, the value of x, the input *)
(* left and whether it is a pipe (else a command in the background has     *)
(* none), the command of signal 1 and whether it is sent, not yet taken; k *)
(* is how the command completed: "ok", "break", "continue" or "exit", n    *)
(* the number of loops to leave.  tail says that the command is the last   *)
(* of its process: a pipeline there leaves it to its reader.               *)
(***************************************************************************)
ShOk(s, n) == [s |-> [s EXCEPT !.st = n], k |-> "ok", n |-> 0]
ShLines(in) == ShFind(in, 1, "nl")

RECURSIVE ShMeans(_, _, _, _), ShMeansFor(_, _, _, _), ShMeansRead(_, _, _, _)

\* A command of its own process (the reader of a pipe finds $? at zero): what it prints, reads and sends stays, what
\* it sets does not, and its breaks and exits end only itself.
ShApart(t, s, d) ==
    LET r == ShMeans(t, [s EXCEPT !.main = FALSE, !.trap = ShNil], d, TRUE)
    IN [out |-> r.s.out, in |-> r.s.in, st |-> r.s.st, sent |-> r.s.sent]

\* A signal that has been sent is taken by the shell of the script as soon as
\* its own command has ended, and keeps the status.
ShTaken(s, n, d) ==
    LET r == ShMeans(s.trap, [s EXCEPT !.sent = FALSE, !.st = n], d, FALSE)
    IN IF ~s.sent \/ ~s.main THEN ShOk(s, n)
       ELSE IF s.trap = ShNil
       THEN [s |-> [s EXCEPT !.st = 3, !.sent = FALSE], k |-> "exit", n |-> 0]
       ELSE IF r.k = "exit" THEN r ELSE [r EXCEPT !.s.st = n]

ShMeans(t, s, d, tail) ==
    LET a == ShMeans(t[2], s, d, FALSE)
        b == ShMeans(t[3], a.s, d, tail)
        p == ShApart(t[2], s, d)
        sub == ShTaken([s EXCEPT !.out = p.out, !.in = p.in, !.sent = p.sent], p.st, d)
        bg == ShApart(t[2], IF s.piped THEN s ELSE [s EXCEPT !.in = <<>>], d)
        w == ShApart(t[2], [s EXCEPT !.out = <<>>], d)
        r == ShApart(t[3], [s EXCEPT !.in = w.out, !.sent = w.sent, !.st = 0,
                                     !.piped = TRUE], d)
        in == ShLines(s.in)
    IN CASE t[1] = "true" -> ShTaken(s, 0, d)
         [] t[1] = "false" -> ShTaken(s, 1, d)
         [] t[1] = "echo" ->
              ShTaken([s EXCEPT !.out = @ \o (IF t[2] = <<"$", "x">> THEN s.x
                                              ELSE IF t[2] = <<"$", "?">> THEN <<ShItos(s.st)>>
                                              ELSE t[2]) \o <<"nl">>], 0, d)
         [] t[1] = "cat" -> ShTaken([s EXCEPT !.out = @ \o s.in, !.in = <<>>], 0, d)
         [] t[1] = "kill" -> ShTaken([s EXCEPT !.sent = TRUE], 0, d)
         [] t[1] = "set" -> ShOk([s EXCEPT !.x = t[2]], 0)
         [] t[1] = "trap" -> ShOk([s EXCEPT !.trap = t[2]], 0)
         [] t[1] = "exit" -> [s |-> [s EXCEPT !.st = ShStoi(t[2][1])], k |-> "exit", n |-> 0]
         [] t[1] = "break" -> IF d = 0 THEN ShOk(s, 0)
                              ELSE [s |-> [s EXCEPT !.st = 0], k |-> "break",
                                    n |-> ShStoi(t[2][1])]
         [] t[1] = "continue" -> [s |-> [s EXCEPT !.st = 0],
                                  k |-> IF d = 0 THEN "ok" ELSE "continue", n |-> 0]
         [] t[1] = "and" -> IF a.k # "ok" \/ a.s.st # 0 THEN a ELSE b
         [] t[1] = "or" -> IF a.k # "ok" \/ a.s.st = 0 THEN a ELSE b
         [] t[1] = "seq" -> IF a.k # "ok" THEN a ELSE b
         [] t[1] = "sub" -> sub
         [] t[1] = "bg" -> ShTaken([s EXCEPT !.out = bg.out, !.sent = bg.sent,
                                            !.in = IF s.piped THEN bg.in ELSE @], bg.st, d)
         [] t[1] = "eval" -> a
         [] t[1] = "pipe" -> ShTaken([s EXCEPT !.out = r.out, !.in = w.in, !.sent = r.sent],
                                     IF w.st # 0 /\ ~tail THEN w.st ELSE r.st, d)
         [] t[1] = "if" -> IF a.k # "ok" THEN a
                           ELSE ShMeans(IF a.s.st = 0 THEN t[3] ELSE t[4], a.s, d, tail)
         [] t[1] = "elif" -> ShMeans(<<"if", t[2], <<"true">>,
                                       <<"if", t[3], t[4], <<"none">>>>>>, s, d, tail)
         [] t[1] = "none" -> ShOk(s, s.st)
         [] t[1] = "for" -> ShMeansFor(t[2], <<<<"a">>, <<"b">>>>, s, d + 1)
         [] t[1] = "args" -> IF s.args = <<>> THEN ShOk(s, 0)
                            ELSE ShMeansFor(t[2], s.args, s, d + 1)
         [] t[1] = "reads" -> ShMeansRead(t[2], s, d + 1, 0)
         [] OTHER -> IF s.x \in {<<"a">>, <<"b">>} THEN a
                     ELSE IF s.x # <<>> THEN ShMeans(t[3], s, d, FALSE) ELSE ShOk(s, 0)

\* How the body of a loop completed says what the loop does next.
ShAfter(r) == IF r.k = "continue" THEN "next"
              ELSE IF r.k = "break" THEN (IF r.n > 1 THEN "out" ELSE "end")
              ELSE IF r.k = "exit" THEN "out" ELSE "next"
ShLeave(r) == IF r.k = "break" THEN [r EXCEPT !.n = @ - 1] ELSE r
ShMeansFor(body, vals, s, d) ==
    LET r == ShMeans(body, [s EXCEPT !.x = Head(vals)], d, FALSE)
    IN IF vals = <<>> THEN [s |-> s, k |-> "ok", n |-> 0]
       ELSE IF ShAfter(r) = "next" THEN ShMeansFor(body, Tail(vals), r.s, d)
       ELSE IF ShAfter(r) = "end" THEN ShOk(r.s, r.s.st) ELSE ShLeave(r)
ShMeansRead(body, s, d, last) ==
    LET nl == ShLines(s.in)
        line == [s EXCEPT !.x = SubSeq(s.in, 1, nl - 1), !.in = SubSeq(s.in, nl + 1, Len(s.in))]
        r == ShMeans(body, [line EXCEPT !.st = 0], d, FALSE)
    IN IF nl > Len(s.in) THEN ShOk(line, last)
       ELSE IF ShAfter(r) = "next" THEN ShMeansRead(body, r.s, d, r.s.st)
       ELSE IF ShAfter(r) = "end" THEN ShOk(r.s, r.s.st) ELSE ShLeave(r)

\* A break of two loops with fewer around it is left out: sh then executes
\* nothing more of the script.
RECURSIVE ShBreaks(_, _)
ShBreaks(t, d) ==
    CASE t[1] = "break" -> ShStoi(t[2][1]) <= (IF d = 0 THEN 9 ELSE d)
      [] t[1] \in ShLeaf \cup {"none", "nil"} -> TRUE
      [] t[1] \in {"for", "args", "reads"} -> ShBreaks(t[2], d + 1)
      [] OTHER -> \A i \in 2..Len(t) : ShBreaks(t[i], d)

\* The script of a job run by sh prints what it means and ends with its
\* status.
ShRunRight(job) ==
    LET X == ShMain(ShStart(job.args, {}, job.input, FALSE, FALSE), ShText(job.t) \o <<"nl">>)
        m == ShMeans(job.t, [out |-> <<>>, st |-> 0, x |-> <<>>, in |-> job.input,
                             trap |-> ShNil, sent |-> FALSE, main |-> TRUE, piped |-> FALSE,
                             args |-> job.args], 0, FALSE)
    IN ShBreaks(job.t, 0) => X.file["out"].t = m.s.out /\ X.st = m.s.st

(***************************************************************************)
(* Words.  A word is a sequence of segments: literal atoms with each kind  *)
(* of quote, the parameter x in its forms, the arguments, and a command.   *)
(* ShSegText is the segment as written, ShSegMeans the characters it       *)
(* stands for, "brk" being the end of a field.                             *)
(***************************************************************************)
ShSegText(g) ==
    LET dq(w) == <<"dq">> \o w \o <<"dq">>
        sub == <<"bq", "echo", "sp", "a", "sp", "b", "bq">>
    IN CASE g[1] = "lit" -> <<g[2]>>
         [] g[1] = "dq" -> dq(<<g[2]>>)
         [] g[1] = "sq" -> <<"sq", g[2], "sq">>
         [] g[1] = "bs" -> <<"bs", g[2]>>
         [] g[1] = "x" -> IF g[2] = "dq" THEN dq(<<"$", "x">>) ELSE <<"$", "x">>
         [] g[1] = "all" -> IF g[3] = "dq" THEN dq(<<"$", g[2]>>) ELSE <<"$", g[2]>>
         [] g[1] = "sub" -> IF g[2] = "dq" THEN dq(sub) ELSE sub
         [] OTHER -> <<"$", "{", "x", g[1], g[2], "}">>

\* the characters of a value, cut at spaces where it is not quoted
ShCut(v, q) == [i \in 1..Len(v) |-> IF v[i] = "sp" /\ ~q THEN ShBare("brk") ELSE <<v[i], q>>]
ShSegMeans(g, x, on, args) ==
    LET q == g[Len(g)] = "dq"
        sep == IF g[2] = "*" /\ q THEN <<<<"sp", TRUE>>>> ELSE <<ShBare("brk")>>
        joined == ShCat([i \in 1..Len(args) |->
                        IF i = 1 THEN ShCut(args[1], q) ELSE sep \o ShCut(args[i], q)])
    IN CASE g[1] = "lit" -> ShCut(<<g[2]>>, FALSE)
         [] g[1] \in {"dq", "sq", "bs"} -> ShCut(<<g[2]>>, TRUE)
         [] g[1] = "x" -> ShCut(x, q)
         [] g[1] = "all" -> joined
         [] g[1] = "sub" -> ShCut(<<"a", "sp", "b">>, q)
         [] g[1] = "+" -> IF on THEN <<ShBare(g[2])>> ELSE <<>>
         [] OTHER -> IF on THEN ShCut(x, FALSE) ELSE <<ShBare(g[2])>>
ShHasQuote(g) == g[1] \in {"dq", "sq"} \/ (g[1] \in {"x", "all", "sub"} /\ g[Len(g)] = "dq")

\* Does the pattern, a word, stand for the name?  A run of stars is left out
\* of the comparison: gmatch does not let all of them be empty at the end.
RECURSIVE ShStands(_, _)
ShStands(p, s) ==
    IF p = <<>> THEN s = <<>>
    ELSE IF p[1] = ShBare("*") THEN \E k \in 1..Len(s) + 1 : ShStands(Tail(p), SubSeq(s, k, Len(s)))
    ELSE s # <<>> /\ (p[1] = ShBare("?") \/ p[1][1] = s[1]) /\ ShStands(Tail(p), Tail(s))

ShWordChars(t, x, on, args) ==
    LET given(i) == ~on /\ \E j \in 1..i - 1 : t[j][1] = "="   \* ${x=b} has set x
    IN ShCat([i \in 1..Len(t) |->
              ShSegMeans(t[i], IF given(i) THEN <<"b">> ELSE x, on \/ given(i), args)])
ShWordFields(t, chars, dir) ==
    LET f == ShFields(chars, {ShBare("brk")})
        quoted == \E i \in 1..Len(t) : ShHasQuote(t[i])
        names(w) == {n \in dir : (n[1] = "." => w[1][1] = ".") /\ ShStands(w, n)}
        wild(w) == \E i \in 1..Len(w) : w[i] \in {ShBare("*"), ShBare("?")}
        args1(w) == IF wild(w) /\ names(w) # {}
                    THEN SetToSortSeq(names(w), ShBefore) ELSE <<ShTrim(w)>>
    IN IF chars = <<>> THEN (IF quoted THEN <<<<>>>> ELSE <<>>)
       ELSE ShCat([i \in 1..Len(f) |-> args1(f[i])])

\* set a w leaves the fields of the word w as the arguments after the first.
ShWordRight(job) ==
    LET X0 == ShStart(job.args, job.dir, <<>>, FALSE, FALSE)
        X1 == IF job.on THEN ShAssign(X0, "x", ShPlain(job.x)) ELSE X0
        text == ShCat([i \in 1..Len(job.t) |-> ShSegText(job.t[i])])
        X == ShExecexp(X1, <<"set", "sp", "a", "sp">> \o text)
        chars == ShWordChars(job.t, job.x, job.on, job.args)
        want == <<<<"a">>>> \o ShWordFields(job.t, chars, job.dir)
        stars == \E i \in 1..Len(chars) - 1 : chars[i] = ShBare("*") /\ chars[i + 1] = ShBare("*")
    IN stars \/ (~X.dead /\ [i \in 1..Len(X.args) |-> ShTrim(X.args[i])] = want)

(***************************************************************************)
(* Two scripts that must print the same and end with the same status, with *)
(* the same arguments and input.                                           *)
(***************************************************************************)
ShSameRight(job) ==
    LET run(text) == ShMain(ShStart(job.args, {}, job.input, job.race, job.tty), text)
        X == run(job.t)
        Y == run(job.u)
    IN X.file["out"].t = Y.file["out"].t /\ X.st = Y.st
=============================================================================
