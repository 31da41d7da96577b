------------------------------ MODULE MCPrograms -----------------------------
(* The user programs for TLC.  part says which one a behaviour is about: ed, *)
(* dc, the file system programs, dump, init, malloc and stdio are machines   *)
(* that take their steps; sort, diff, the pattern matchers, sed, sh, mv,     *)
(* cron, date and the rest compute, and are given one job.                   *)
EXTENDS Ed, Dc, Dump, Lines, Diff, Sed, Shell, Names, Init, Arena, Stdio, Cron, Dates

CONSTANT Parts

VARIABLES
    part,
    job,    \* what a program that computes is given, <<>> for the machines
    ran     \* whether it has done it

machineVars == <<edVars, dcVars, fsVars, duVars, initVars, arVars, stVars>>
programVars == <<machineVars, part, job, ran>>

UpTo(S, n) == UNION {[1..k -> S] : k \in 0..n}
From1(S, n) == UNION {[1..k -> S] : k \in 1..n}

(* ------------------------------ ed, dc, mkfs ----------------------------- *)
EdFileB == << <<"b">>, <<"a", "b">> >>
EdLineAB == <<"a", "b">>

File(n) == [dir |-> FALSE, blocks |-> n, kids |-> <<>>]
Dir(k) == [dir |-> TRUE, blocks |-> 0, kids |-> k]
Protos == {Dir(<<>>), Dir(<<File(0), File(2), File(3)>>), Dir(<<File(7), File(9)>>),
           Dir(<<Dir(<<File(1), Dir(<<>>), File(5)>>), File(4), Dir(<<File(6)>>)>>),
           Dir(<<Dir(<<File(1), File(1), File(1), File(1), File(1)>>)>>)}
Sizes == {<<20, 6>>, <<30, 14>>, <<5, 10>>}
Ratios == {<<3, 500>>, <<1, 1>>, <<2, 4>>, <<3, 7>>, <<5, 5>>, <<0, 0>>}

Shapes == {<<>>, <<0, 1, 1, 0>>, <<1, 1, 0, 1, 1, 0, 1>>}
Device == <<40, 6, 3, 5>>

TtyLine(f, l) == [flag |-> f, line |-> l]
Ttys == {[there |-> TRUE, lines |-> <<TtyLine("1", "c"), TtyLine("1", "a")>>],
         [there |-> TRUE, lines |-> <<TtyLine("0", "c"), TtyLine("1", "a"), TtyLine("1", "b")>>],
         [there |-> TRUE, lines |-> <<TtyLine("1", "b"), TtyLine("1", "c"), TtyLine("1", "b")>>],
         [there |-> FALSE, lines |-> <<>>]}

Streams == {<<>>, <<1, 2, 3, 4, 5>>}

(* ----------------------------------- dc ---------------------------------- *)
Magnitudes == {0, 7, 10, 99, 100, 990, 4950, 9999, 10000, 123456}
CalcJobs ==
    \E x, y \in Magnitudes, sx, sy \in {1, -1}, kx, ky, k \in {0, 1, 2} :
       job = [x |-> sx * x, y |-> sy * y, kx |-> kx, ky |-> ky, k |-> k]

(* ---------------------------------- sort --------------------------------- *)
Opt(x) == <<x, 0>>
Num(n) == <<"num", n>>
Arg(s, x) == [sign |-> s, opts |-> x]
Letters(s) == <<Arg("-", [k \in DOMAIN s |-> Opt(s[k])])>>
Words == {<<97>>, <<97, 98>>, <<66>>, <<98>>}
Numbers == {<<49, 48>>, <<57>>, <<45, 49>>, <<32, 57, 46, 53>>, <<45, 48>>}
Keyed == {<<97, 32, 49, 48>>, <<98, 32, 57>>, <<97, 32, 57>>, <<98, 58, 98>>, <<97, 58, 45, 97>>}
KeyArgs == {<<Arg("+", <<Num(1)>>)>>,
            <<Arg("-", <<Opt("n")>>), Arg("+", <<Num(1)>>)>>,
            <<Arg("+", <<Num(1), Opt("n")>>), Arg("-", <<Num(2)>>), Arg("+", <<Num(0)>>), Arg("-", <<Num(1)>>)>>,
            <<Arg("-", << <<"t", 58>> >>), Arg("+", <<Num(1), Opt("."), Num(1), Opt("b")>>)>>,
            <<Arg("+", <<Num(0)>>), Arg("+", <<Num(0)>>), Arg("+", <<Num(0)>>), Arg("+", <<Num(0)>>)>>}
SortJob(args, files, out) == job = [args |-> args, files |-> files, out |-> out]
SortFiles == {<<>>, << <<97>> >>, << <<97>>, <<98>> >>, << <<97>>, <<97>> >>}

SortJobs ==
    \/ \E f \in UpTo(Words, 3), a \in {<<>>, <<"u">>, <<"r">>, <<"f">>, <<"f", "u", "r">>, <<"d">>, <<"m", "u">>,
                                       <<"c">>, <<"c", "u">>, <<"m">>} :
          SortJob(IF a = <<>> THEN <<>> ELSE Letters(a), <<f>>, 0)
    \/ \E f \in UpTo(Numbers, 3), a \in {<<"n">>, <<"n", "r">>, <<"n", "u">>} : SortJob(Letters(a), <<f>>, 0)
    \/ \E f \in UpTo(Keyed, 3), a \in KeyArgs : SortJob(a, <<f>>, 0)
    \/ \E f, g, h \in SortFiles, a \in {<<"m">>, <<"m", "u">>}, o \in 0..3 : SortJob(Letters(a), <<f, g, h>>, o)

(* sort -u of one file, without further options.                             *)
UniqueJobs == \E f \in UpTo({<<97>>, <<98>>, <<97, 98>>}, 5) : SortJob(Letters(<<"u">>), <<f>>, 0)

(* ---------- uniq, comm, join, tsort, look, tail, split, tr, cmp, dd ------ *)
Ascending(S, n) == {s \in UpTo(S, n) : LiAscending(s)}
Words3 == {<<97>>, <<97, 98>>, <<98>>}
Spaced == {<<97, 32, 97>>, <<98, 32, 97>>, <<98, 97>>, <<32, 98, 32, 98>>}
JoinFiles == {f \in UpTo({<<1, 7>>, <<2, 8>>, <<2, 9>>, <<3>>}, 3) : \A i \in 1..Len(f) - 1 : f[i][1] <= f[i + 1][1]}
Texts(n) == {s \in UpTo({97, 10}, n) : s = <<>> \/ s[Len(s)] = 10}

LineJobs ==
    \/ \E f \in UpTo(Spaced, 3), m \in {"", "u", "d", "c"}, x \in {<<0, 0>>, <<1, 0>>, <<0, 1>>} :
          job = [prog |-> "uniq", file |-> f, mode |-> m, fields |-> x[1], letters |-> x[2]]
    \/ \E f, g \in Ascending(Words3, 3), h \in {{}, {1, 2}} : job = [prog |-> "comm", file |-> f, file2 |-> g, hide |-> h]
    \/ \E f, g \in JoinFiles, a \in SUBSET {1, 2} :
          job = [prog |-> "join", file |-> f, file2 |-> g, j1 |-> 1, j2 |-> 1, a |-> a]
    \/ \E p \in UpTo({"a", "b", "c"} \X {"a", "b", "c"}, 3) : job = [prog |-> "tsort", pairs |-> p]
    \/ \E f \in Ascending(Words3 \cup {<<98, 97, 97, 97>>, <<66>>}, 3), b \in BOOLEAN,
          k \in {<<>>, <<97>>, <<98>>, <<98, 97>>, <<97, 98>>, <<99>>} :
          job = [prog |-> "look", file |-> f, key |-> k, dict |-> FALSE, fold |-> b]
    \/ \E t \in Texts(7), n \in 0..4, u \in {"c", "l", "r", "+l"}, b \in BOOLEAN :
          job = [prog |-> "tail", text |-> t, n |-> n, unit |-> u, piped |-> b]
    \/ \E f \in UpTo({1, 2}, 5), n \in 1..3 : job = [prog |-> "split", file |-> f, n |-> n]
    \/ \E t \in UpTo({65, 97, 98}, 3), x \in {<<97, 45, 99>>, <<98, 45, 97>>, <<97, 45>>, <<45, 97>>},
          y \in {<<>>, <<65, 45, 67>>, <<65>>}, c, d, s \in BOOLEAN :
          job = [prog |-> "tr", text |-> t, s1 |-> x, s2 |-> y, c |-> c, d |-> d, s |-> s,
                 capitals |-> x = <<97, 45, 99>> /\ y = <<65, 45, 67>> /\ ~c /\ ~d /\ ~s]
    \/ \E f, g \in UpTo({97, 98, 10}, 2), s, l \in BOOLEAN, t \in {{1, 2}, {1}},
          k \in {<<>>, << <<49>> >>, << <<48, 49>>, <<48, 49, 48>> >>} :
          /\ t = {1} => f = g
          /\ job = [prog |-> "cmp", files |-> <<f, g>>, s |-> s, l |-> l, there |-> t, skips |-> k, values |-> <<1, 8>>]
    \/ \E a \in UpTo({<<97>>, <<98>>, <<99>>, <<100>>}, 5) : job = [prog |-> "qsort", array |-> a]

(* dd: tapes of records and ends of files, one record that cannot be read.   *)
Record(d) == [err |-> FALSE, data |-> d]
Unread == [err |-> TRUE, data |-> <<>>]
Tape == {Record(<<>>), Record(<<97>>), Record(<<65, 98>>), Record(<<98, 97, 66>>)}
DdArgs == {<<>>} \cup {<<x>> : x \in {<<"files", 2>>, <<"skip", 1>>, <<"count", 2>>, <<"conv", "ucase">>, <<"conv", "lcase">>,
                                      <<"conv", "sync">>}}
DdSizes == {<< <<"bs", 3>> >>, << <<"ibs", 3>>, <<"obs", 2>> >>, << <<"ibs", 3>>, <<"obs", 4>> >>}
Cards == {<<>>, <<97>>, <<32, 97>>, <<97, 32>>, <<97, 98, 99>>, <<98, 99, 32, 97>>}
DdJob(k, args, reads, f, lines) ==
    job = [prog |-> "dd", kind |-> k, args |-> args, reads |-> reads, failw |-> f, lines |-> lines]
DdJobs ==
    \/ \E a \in DdArgs, z \in DdSizes, t \in UpTo(Tape, 3), f \in {0, 2} : DdJob("copy", z \o a, t, f, <<>>)
    \/ \E t, u \in UpTo(Tape, 1), n \in {1, 2} :
          DdJob("copy", << <<"ibs", 3>>, <<"conv", "noerror">>, <<"obs", 2>>, <<"files", n>> >>, t \o <<Unread>> \o u, 0, <<>>)
    \/ \E t \in UpTo({Record(<<1, 2, 3, 4>>), Record(<<5, 6>>), Record(<<5>>)}, 2), y \in {<<>>, << <<"conv", "sync">> >>} :
          DdJob("copy", << <<"ibs", 4>>, <<"conv", "swab">>, <<"obs", 3>> >> \o y, t, 0, <<>>)
    \/ \E l \in UpTo(Cards, 2), n \in 1..3 :
          DdJob("cards", << <<"cbs", n>>, <<"obs", 5>> >>, [i \in DOMAIN l |-> Record(l[i] \o <<10>>)], 0, l)
    \/ \E d \in {<<1, <<49>> >>, <<12, <<49, 50>> >>, <<4999, <<52, 57, 57, 57>> >>}, u \in UpTo({107, 119, 98}, 2),
          e \in {<<1, <<49>> >>, <<40, <<52, 48>> >>} :
          job = [prog |-> "dd", kind |-> "number", n |-> d[1], digits |-> d[2], units |-> u, m |-> e[1], digits2 |-> e[2]]

(* ------------------------------ date and cal ----------------------------- *)
TwoDigits(n) == <<48 + (n \div 10), 48 + (n % 10)>>
DayNumbers == {-700000, -146098, -146097, -1, 0, 59, 60, 365, 790, 1466, 1513, 1514, 1794, 1880, 10956, 11016, 11322,
               146096, 146097, 500000, 5953, 5955, 5960, 5961, 6142, 6143, 6145}
Dates4 == {TwoDigits(h) \o TwoDigits(m) : h \in {0, 2, 23, 24, 25}, m \in {30, 60}}
Dates10 == {TwoDigits(y) \o TwoDigits(mo) \o TwoDigits(d) \o TwoDigits(h) \o TwoDigits(30) \o s :
              y \in {0, 69, 86}, mo \in {2, 4, 10, 13}, d \in {26, 27, 29, 31}, h \in {1, 2}, s \in {<<>>, <<46, 53, 57>>}}
DateArgs == {<<>>, <<49>>, <<97, 49>>, <<57, 51, 48>>} \cup Dates4 \cup Dates10
Years == {1, 4, 100, 1751, 1752, 1753, 1799, 1800, 1801, 1900, 1999, 2000, 2001, 9999}
YearText(y) == TwoDigits(y \div 100) \o TwoDigits(y % 100)
DateJobs ==
    \/ \E d \in DayNumbers, s \in {0, 3600, 25200, 86399}, z \in {0, 300, -60}, b \in BOOLEAN :
          job = [prog |-> "clock", t |-> DaTime(d, s), zone |-> z, dst |-> b]
    \/ \E a \in DateArgs, n \in {<<6000, 9000>>, <<11016, 70000>>}, b, u, c \in BOOLEAN :
          job = [prog |-> "date", arg |-> a, now |-> DaTime(n[1], n[2]), zone |-> 300, dst |-> b, u |-> u, can |-> c, wtmp |-> b]
    \/ \E y \in Years : job = [prog |-> "cal", args |-> <<YearText(y)>>, good |-> TRUE]
    \/ \E m \in {2, 9, 12}, y \in Years : job = [prog |-> "cal", args |-> <<TwoDigits(m), YearText(y)>>, good |-> TRUE]
    \/ \E a \in {<<>>, << <<48>> >>, <<TwoDigits(13), YearText(2000)>>, << <<49, 97>> >>, << <<49, 48, 48, 48, 48>> >>} :
          job = [prog |-> "cal", args |-> a, good |-> FALSE]

(* ---------------------------- diff, patterns, sed ------------------------ *)
Lines3 == {<<1, 0>>, <<2, 0>>, <<3, 0>>}
Blanks == {<<1, 1>>, <<1, 2>>, <<2, 1>>}
DiffJobs ==
    \/ job \in [prog : {"diff"}, bflag : {FALSE}, opt : {"", "e"}, f1 : UpTo(Lines3, 3), f2 : UpTo(Lines3, 3)]
    \/ job \in [prog : {"diff"}, bflag : BOOLEAN, opt : {"", "e"}, f1 : UpTo(Blanks, 2), f2 : UpTo(Blanks, 3)]
    \/ job \in [prog : {"diff3"}, eflag : {"e", ""}, f1 : UpTo({<<1, 0>>, <<2, 0>>}, 3),
                f2 : UpTo({<<1, 0>>, <<2, 0>>}, 2), f3 : UpTo({<<1, 0>>, <<2, 0>>}, 3)]

Pieces == {<<97>>, <<98>>, <<RgDot>>, <<RgStar>>, <<RgDollar>>, <<RgLeft, 97, RgMinus, 98, RgRight>>,
           <<RgLeft, RgHat, 97, RgRight>>, <<RgEscape, RgOpen>>, <<RgEscape, RgClose>>, <<RgEscape, 49>>, <<RgHat>>}
Leaf(op, arg) == <<[op |-> op, arg |-> arg]>>
Leaves == {Leaf("CHAR", {97}), Leaf("CHAR", {98}), Leaf("DOT", {}), Leaf("NCCL", {97}), Leaf("CHAR", {10})}
Starred(T) == {Append(t, RgOp(o)) : t \in T, o \in {"STAR", "PLUS", "QUEST"}}
Paired(T, U) == {t \o u \o <<RgOp(o)>> : t \in T, u \in U, o \in {"CAT", "OR"}}
Trees1 == Leaves \cup Starred(Leaves) \cup Paired(Leaves, Leaves)
Trees2 == Trees1 \cup Paired(Trees1, {Leaf("CHAR", {97}), Leaf("DOT", {})}) \cup Starred(Trees1)
RegexJobs ==
    \/ \E s \in From1(Pieces, 3), d \in {"grep", "ed", "sed", "expr"}, l \in {<<>>, <<97>>, <<97, 98, 97>>, <<98, 98, 97, 97>>} :
          job = [prog |-> "match", d |-> d, p |-> FlattenSeq(s), line |-> l]
    \/ job \in [prog : {"tree"}, t : Trees2, p : {<<>>}, line : UpTo({97, 98}, 3)]
    \/ job \in [prog : {"fgrep"}, words : From1(From1({97, 98}, 3), 2), flags : {{}, {"v"}, {"x"}},
                file : {<<x>> : x \in UpTo({97, 98}, 4)}]

SedJobs ==
    job \in [name : {"print", "reverse", "window", "odd", "join", "hold", "delete", "range", "lines", "block", "again",
                     "mark", "swap", "texts", "change", "quit", "save"},
             file : UpTo({<<>>, <<SdA>>, <<SdB>>, <<SdA, SdB, SdA>>}, 3) \cup {<<x>> : x \in UpTo({SdA, SdB}, 5)}]

(* ----------------------------------- sh ---------------------------------- *)
ShellOrder == <<"sp", "*", "?", "-", ".", "0", "1", "2", "3", "9", "a", "b", "x">>
ShellProcs == [n \in {"proc"} |-> <<"echo", "sp", "$", "1", "nl", "env", "nl", "exit", "sp", "2", "nl">>]
Args2 == << <<"a">>, <<"b">> >>

(* Trees of commands, which Shell writes out as a script.                    *)
Short == {<<"true">>, <<"false">>, <<"echo", <<"$", "x">>>>, <<"break", <<"1">>>>, <<"kill", <<"1">>>>}
Commands == Short \cup {<<"echo", <<"$", "?">>>>, <<"break", <<"2">>>>, <<"continue">>, <<"exit", <<"2">>>>,
                        <<"set", <<"b">>>>, <<"cat">>}
Joined(S, R) == {<<o, a, b>> : o \in {"and", "or", "seq", "pipe"}, a \in S, b \in R}
Around(S) == {<<o, a>> : o \in {"sub", "bg", "eval", "for", "args", "reads"}, a \in S}
Nested == {x \in Around(Joined(Short, Commands)) : x[1] \in {"for", "reads", "sub"}}
Script(t) == job = [args |-> Args2, input |-> <<"a", "nl", "x", "nl">>, t |-> t]
ScriptJobs ==
    \/ \E t \in Joined(Commands, Commands) : Script(t)
    \/ \E t \in Around(Joined(Commands, Commands)) : Script(t)
    \/ \E a \in Around(Commands), b \in Short, o \in {"and", "or", "seq", "pipe"} : Script(<<o, a, b>>) \/ Script(<<o, b, a>>)
    \/ \E a, b \in Commands : Script(<<"case", a, b>>)
    \/ \E a, b, c \in Short, o \in {"if", "elif"} : Script(<<o, a, b, c>>)
    \/ \E t \in Around(Nested) : Script(t)
    \/ \E t \in Around(Joined(Short, Short)) \cup Around(Around(Commands)) :
          Script(<<"seq", <<"trap", <<"echo", <<"b">>>>>>, t>>)

Segments == {<<"lit", c>> : c \in {"a", "*", "?", "."}} \cup {<<k, c>> : k \in {"dq", "sq", "bs"}, c \in {"*", "sp", "$"}}
            \cup {<<"x", "">>, <<"x", "dq">>, <<"sub", "">>, <<"sub", "dq">>, <<"-", "a">>, <<"=", "b">>, <<"+", "b">>}
            \cup {<<"all", c, q>> : c \in {"*", "@"}, q \in {"", "dq"}}
Directory == {<<"a">>, <<"a", "b">>, <<".", "a">>, <<"b">>, <<"*">>}
ShWords == From1(Segments, 2) \cup {<< <<"lit", "a">>, b, c>> : b \in Segments, c \in {<<"x", "">>, <<"lit", "*">>, <<"dq", "sp">>}}
WordJobs ==
    \E t \in ShWords, a \in {<<>>, << <<"a">>, <<"a", "sp", "b">> >>, << <<>>, <<"b">> >>},
       x \in {<<>>, <<"a", "sp", "b">>, <<"sp">>, <<"*">>}, on \in BOOLEAN :
       (on \/ x = <<>>) /\ job = [args |-> a, t |-> t, x |-> x, on |-> on, dir |-> Directory]

(* Pairs of scripts that do the same.                                        *)
SameScripts == {
    << <<"echo", "sp", "a", ">", "y", "nl", "cat", "<", "y">>, <<"echo", "sp", "a">> >>,
    << <<"echo", "sp", "a", ">", "y", ";", "echo", "sp", "b", ">", ">", "y", ";", "cat", "<", "y">>,
       <<"echo", "sp", "a", ";", "echo", "sp", "b">> >>,
    << <<"x", "=", "b", "nl", "cat", "<", "<", "e", "nl", "a", "$", "x", "nl", "e", "nl">>, <<"echo", "sp", "a", "b">> >>,
    << <<"x", "=", "b", "nl", "cat", "<", "<", "bs", "e", "nl", "$", "x", "nl", "e", "nl">>,
       <<"echo", "sp", "sq", "$", "x", "sq">> >>,
    << <<"exec", "sp", "echo", "sp", "a", ";", "echo", "sp", "b">>, <<"echo", "sp", "a">> >>,
    << <<"(", "exec", ">", "y", ";", "echo", "sp", "a", ")", "nl", "cat", "<", "y">>, <<"echo", "sp", "a">> >>,
    << <<"x", "=", "b", "sp", "env", "nl", "env">>,
       <<"(", "x", "=", "b", ";", "export", "sp", "x", ";", "env", ")", ";", "env">> >>,
    << <<"x", "=", "b", "sp", "proc", "sp", "a">>, <<"echo", "sp", "a", ";", "echo", "sp", "b", ";", "exit", "sp", "2">> >>,
    << <<"x", "=", "b", "nl", "proc", "sp", "a">>, <<"echo", "sp", "a", ";", "env", ";", "exit", "sp", "2">> >>,
    << <<"trap", "sp", "sq", "echo", "sp", "b", "sq", "sp", "0", "nl", "echo", "sp", "a", ";", "exit", "sp", "0">>,
       <<"echo", "sp", "a", ";", "echo", "sp", "b">> >>,
    << <<".", "sp", "proc">>, <<"echo", "sp", "$", "1", ";", "env", ";", "exit", "sp", "2">> >>,
    << <<"set", "sp", "-", "e", ";", "false", ";", "echo", "sp", "a">>, <<"exit", "sp", "1">> >>,
    << <<"readonly", "sp", "x", "nl", "x", "=", "a", "nl", "echo", "sp", "a">>, <<"exit", "sp", "1">> >>,
    << <<"shift", "nl", "echo", "sp", "$", "1", "sp", "$", "#">>, <<"echo", "sp", "$", "2", "sp", "1">> >>,
    << <<"case", "sp", "a", "sp", "in", "sp", "[", "1", "-", "b", "]", ")", "sp", "echo", "sp", "a", ";", ";", "sp", "*", ")",
         "sp", "echo", "sp", "x", "nl", "esac">>, <<"echo", "sp", "a">> >>,
    << <<"read", "sp", "x", "sp", "y", ";", "echo", "sp", "$", "x", ";", "cat">>,
       <<"read", "sp", "x", ";", "echo", "sp", "$", "x", ";", "cat">> >>,
    << <<"if", "sp", "true", ";", "then", "sp", "echo", "sp", "a", ";", "fi", ">", "y", ";", "cat", "sp", "<", "y">>,
       <<"echo", "sp", "a">> >>,
    << <<"trap", "sp", "sq", "sq", "sp", "1", ";", "kill", "sp", "1", ";", "echo", "sp", "a">>, <<"echo", "sp", "a">> >>,
    << <<"trap", "sp", "sq", "echo", "sp", "b", "sq", "sp", "1", ";", "trap", "sp", "1", ";", "kill", "sp", "1", ";",
         "echo", "sp", "a">>, <<"exit", "sp", "3">> >>,
    << <<"x", "=", "bq", "false", "bq", "nl">>, <<"false">> >>,
    << <<"echo", "sp", "a", "sp", ">", "&", "-">>, <<"true">> >>,
    << <<"echo", "sp", "a", ";", ";">>, <<"exit", "sp", "2">> >>,
    << <<"dq", "exit", "dq", "sp", "2", "nl", "echo", "sp", "a">>, <<"echo", "sp", "a">> >>,
    << <<"$", "{", "x", "?", "a", "}", "nl", "echo", "sp", "a">>, <<"exit", "sp", "1">> >> }
SameJobs ==
    \E p \in SameScripts, r \in BOOLEAN :
       job = [args |-> Args2, t |-> p[1], u |-> p[2], input |-> <<"a", "nl", "b", "nl">>, race |-> r, tty |-> FALSE]

(* ------------------------ mv, cp, ln, rm, mkdir, rmdir ------------------- *)
Full == {"r", "w", "x"}
NodeDir(uid, mode, nlink, ents) ==
    [dir |-> TRUE, uid |-> uid, group |-> {}, mode |-> mode, nlink |-> nlink, ents |-> ents, data |-> <<>>]
NodeFile(uid, mode, nlink, data) ==
    [dir |-> FALSE, uid |-> uid, group |-> {}, mode |-> mode, nlink |-> nlink, ents |-> <<>>, data |-> data]
Ent(n, i) == [name |-> n, ino |-> i]
Open == <<Full, Full, Full>>
Own == <<Full, {"r", "x"}, {"r", "x"}>>
ReadOnly == <<{"r"}, {"r"}, {"r"}>>

(* / has directory a, with a file x, a hole and an empty directory b; the    *)
(* files f and g, the latter also a/x; and m, where a second device with a   *)
(* file h is mounted.                                                        *)
Tree == [ino |-> (12 :> NodeDir(0, Open, 4, <<Ent(".", 2), Ent("..", 2), Ent("a", 3), Ent("f", 4), Ent("g", 5), Ent("m", 7)>>))
              @@ (13 :> NodeDir(1, Own, 3, <<Ent(".", 3), Ent("..", 2), Ent("x", 5), Ent("q", 0), Ent("b", 6)>>))
              @@ (14 :> NodeFile(1, Own, 1, <<"u", "v">>))
              @@ (15 :> NodeFile(1, ReadOnly, 2, <<"w">>))
              @@ (16 :> NodeDir(1, Own, 2, <<Ent(".", 6), Ent("..", 3)>>))
              @@ (17 :> NodeDir(0, Open, 2, <<Ent(".", 7), Ent("..", 2)>>))
              @@ (22 :> NodeDir(0, Open, 2, <<Ent(".", 2), Ent("..", 2), Ent("h", 3)>>))
              @@ (23 :> NodeFile(1, Own, 1, <<"z">>)),
         mount |-> (2 :> 17)]
TreeTable == [t1 |-> Tree]
Directories == {<<"a">>, <<"a", "/", "b">>, <<"m">>, <<".">>, <<"a", "/">>, <<"a", "/", "b", "/", "..">>}
Paths == Directories \cup {<<"f">>, <<"g">>, <<"a", "/", "x">>, <<"a", "/", "b", "/", "c">>, <<"n">>, <<"m", "/", "h">>,
                           <<"/", "a", "/", "n">>, <<"m", "/", "n">>, <<"m", "/", "a">>}
Never == 99
Faults == {<<Never, Never>>} \cup {<<k, Never>> : k \in 1..16} \cup {<<Never, k>> : k \in 1..16}
NameJob(cmd, fl, args, uid, f, yes) ==
    job = [tree |-> "t1", cmd |-> cmd, fl |-> fl, args |-> args, uid |-> uid, fail |-> f[1], kill |-> f[2], tty |-> TRUE,
           yes |-> yes]
NameJobs ==
    \/ \E c \in {"mv", "cp", "ln"}, s, t \in Paths, u \in {0, 1, 2}, f \in Faults :
          /\ c # "mv" => s \notin Directories
          /\ u # 1 => f = <<Never, Never>>
          /\ NameJob(c, {}, <<s, t>>, u, f, TRUE)
    \/ \E c \in {"mkdir", "rmdir"}, s \in Paths, u \in {0, 1, 2}, f \in Faults : NameJob(c, {}, <<s>>, u, f, TRUE)
    \/ \E fl \in SUBSET {"r", "i", "f"}, s \in Paths, u \in {0, 1, 2}, f \in Faults, y \in BOOLEAN :
          (u # 1 => f = <<Never, Never>>) /\ NameJob("rm", fl, <<s>>, u, f, y)

(* ---------------------------------- cron --------------------------------- *)
CronField(k, ns) == [k |-> k, ns |-> ns]
AnyTime == CronField("any", <<>>)
CronFields == {AnyTime, CronField("list", <<0>>), CronField("list", <<5, 12, 0>>), CronField("list", <<12, 3>>),
               CronField("range", <<3, 12>>), CronField("bad", <<>>)}
CronLine(fields, sep, command, end) == [fields |-> fields, sep |-> sep, command |-> command, end |-> end]
EveryMinute == CronLine(<<AnyTime, AnyTime, AnyTime, AnyTime, AnyTime>>, 9, <<120>>, <<10>>)
CronLines == {CronLine(<<a, b, AnyTime, c, AnyTime>>, s, <<100, 37, 104>>, <<10>>) : a, b, c \in CronFields, s \in {9, 32}}
             \cup {CronLine(<<a, AnyTime, b, AnyTime>>, 32, <<120>>, <<10>>) : a, b \in CronFields}
             \cup {CronLine(<<AnyTime, AnyTime, a, AnyTime, b>>, 32, <<120, 32, 49>>, e) : a, b \in CronFields, e \in {<<10>>, <<>>}}
CronJobs ==
    \E l \in CronLines, n \in {<<0, 12, 3, 5, 0>>, <<12, 0, 12, 3, 3>>},
       f \in {<<>>, <<EveryMinute>>}, g \in BOOLEAN :
       /\ l.end = <<>> => ~g
       /\ job = [lines |-> f \o <<l>> \o (IF g THEN <<EveryMinute, l>> ELSE <<>>), now |-> n]

(* ------------------------------- specification --------------------------- *)
Jobs ==
    CASE part = "calc"    -> CalcJobs
      [] part = "sort"    -> SortJobs
      [] part = "unique"  -> UniqueJobs
      [] part = "lines"   -> LineJobs \/ DdJobs
      [] part = "dates"   -> DateJobs
      [] part = "diff"    -> DiffJobs
      [] part = "regex"   -> RegexJobs
      [] part = "sed"     -> SedJobs
      [] part = "sh"      -> ScriptJobs
      [] part = "shword"  -> WordJobs
      [] part = "shsame"  -> SameJobs
      [] part = "names"   -> NameJobs
      [] part = "cron"    -> CronJobs
      [] OTHER            -> job = <<>>

(* A machine that is not looked at has one of its initial states.            *)
ProgramsInit ==
    /\ part \in Parts /\ ran = FALSE /\ Jobs
    /\ EdInit /\ DcInit /\ FsInit /\ DuInit /\ ArenaInit
    /\ InitInit /\ (part # "init" => inTtys = CHOOSE f \in InFiles : TRUE)
    /\ StInit /\ (part # "stdio" => stFile = <<>>)

Run == job # <<>> /\ ~ran /\ ran' = TRUE /\ UNCHANGED machineVars

ProgramsNext ==
    /\ UNCHANGED <<part, job>>
    /\ \/ Run
       \/ /\ UNCHANGED ran
          /\ \/ part = "ed" /\ EdNext /\ UNCHANGED <<dcVars, fsVars, duVars, initVars, arVars, stVars>>
             \/ part = "dc" /\ DcNext /\ UNCHANGED <<edVars, fsVars, duVars, initVars, arVars, stVars>>
             \/ part = "fs" /\ FsNext /\ UNCHANGED <<edVars, dcVars, duVars, initVars, arVars, stVars>>
             \/ part = "dump" /\ DuNext /\ UNCHANGED <<edVars, dcVars, fsVars, initVars, arVars, stVars>>
             \/ part = "init" /\ InitNext /\ UNCHANGED <<edVars, dcVars, fsVars, duVars, arVars, stVars>>
             \/ part = "malloc" /\ ArenaNext /\ UNCHANGED <<edVars, dcVars, fsVars, duVars, initVars, stVars>>
             \/ part = "stdio" /\ StNext /\ UNCHANGED <<edVars, dcVars, fsVars, duVars, initVars, arVars>>

ProgramsSpec == ProgramsInit /\ [][ProgramsNext]_programVars

(* ------------------------------- properties ------------------------------ *)
(* ed: the table of lines, the temporary file behind it and the flag that    *)
(* guards unsaved changes never lose a line.                                 *)
EdKeepsLines == EdBufferRight /\ EdTableSound /\ EdChangesFlagged

(* The programs that compute give what their other definition gives: sort a  *)
(* sorted permutation of its input that merges agree with, diff a script     *)
(* that makes the second file out of the first and is as short as it can be, *)
(* the matchers of grep, ed, sed, expr, egrep, awk and fgrep the language of *)
(* the pattern, sed what its script means line by line, uniq, comm, join,    *)
(* tsort, look, tail, split, tr, cmp and dd their definitions over whole     *)
(* files, qsort a sorted array in few nested calls, cron the commands that   *)
(* are due, gmtime, localtime, date and cal the dates that the calendar's    *)
(* rules give, and dc exact arithmetic in blocks that are freed once.        *)
ToolsAgree ==
    [][/\ part = "sort" => SoRight(job, SoRun(job))
       /\ part = "lines" => LiRight(job)
       /\ part = "diff" => DiRight(job)
       /\ part = "regex" => RgAgree(job)
       /\ part = "sed" => SdRight(job)
       /\ part = "cron" => CrRight(job)
       /\ part = "calc" => DcRight(job)
       /\ part = "dates" => DaRight(job)
       /\ part = "dc" => DcBlocksOwned']_programVars

(* sh: what a script prints, leaves in its variables and returns is what its *)
(* tree of commands means, a word becomes the arguments that it should, and  *)
(* scripts that are written differently do the same, although it parses,     *)
(* expands, forks, waits and handles signals in an order of its own.         *)
ScriptsMeanWhatTheySay ==
    [][/\ part = "sh" => ShRunRight(job)
       /\ part = "shword" => ShWordRight(job)
       /\ part = "shsame" => ShSameRight(job)]_programVars

(* mv, cp, ln, rm, mkdir and rmdir, with any one system call failing or the  *)
(* program killed before it: no data that is not asked to go is lost, and    *)
(* the tree stays one.                                                       *)
FilesKept == [][part = "names" => NaRight(job)]_programVars

(* The test suite's fzsh, and the commentary: "sort -u must equal sort       *)
(* followed by uniq".                                                        *)
UniqueIsUniq == [][part = "unique" => SoUniqAgrees(job, SoRun(job))]_programVars

==============================================================================
