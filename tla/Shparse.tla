------------------------------ MODULE Shparse ------------------------------
(***************************************************************************)
(* The shell's reading of its input: the words of sh/word.c and the        *)
(* recursive descent of sh/cmd.c that makes the tree xec.c executes.       *)
(*                                                                         *)
(* A text is a sequence of atoms: "nl", "sp", "sq", "dq", "bq" and "bs"    *)
(* stand for the newline, the space, the three quotes and the backslash,   *)
(* the other atoms for the characters they spell, a whole name or reserved *)
(* word being one atom.  A word is a sequence of pairs <<atom, quoted>>,   *)
(* quoted being the bit QUOTE of the character.                            *)
(*                                                                         *)
(* A tree is a tuple that begins with the type of its node; <<"nil">> is   *)
(* the null pointer.  The reader's state is a record: the text and the     *)
(* place in it, the flag reserv, the last word read (val, arg, set, num:   *)
(* wdval, wdarg, wdset, wdnum, val being "" for an ordinary word), the     *)
(* here documents awaited and those read, and whether synbad was called.   *)
(***************************************************************************)
EXTENDS Naturals, Sequences, FiniteSets, SequencesExt

CONSTANT
    ShNames     \* the atoms that are made of letters (ctype.c, T_IDC)

ShReserved == {"in", "esac", "case", "for", "done", "if", "while", "do",
               "then", "else", "elif", "fi", "until", "{", "}"}
ShDigits == {"0", "1", "2", "3", "9"}
ShDip == {"|", "&", ";", "<", ">"}
ShMeta == ShDip \cup {"sp", "tab", "^", "(", ")", "nl", "eof"}
ShEscapes == {"bq", "bs", "$"}
ShDouble == [c \in ShDip |-> CASE c = "|" -> "||" [] c = "&" -> "&&"
                               [] c = ";" -> ";;" [] c = "<" -> "<<"
                               [] OTHER -> ">>"]

\* the letters and digits of an identifier (letter, alphanum)
ShLetters == ShNames \cup (ShReserved \ {"{", "}"})
ShAlnum == ShLetters \cup ShDigits

ShNil == <<"nil">>
ShBare(c) == <<c, FALSE>>
ShPlain(text) == [i \in 1..Len(text) |-> ShBare(text[i])]

\* readc: the atom at a place of the text, "eof" past its end.
ShReadc(in, p) == IF p <= Len(in) THEN in[p] ELSE "eof"

(***************************************************************************)
(* nextc: the next character with its backslashes undone, and the place    *)
(* after it.  Inside a quote a backslash only quotes that quote and the    *)
(* characters $, ` and \.                                                  *)
(***************************************************************************)
RECURSIVE ShNextc(_, _, _)
ShNextc(in, p, quote) ==
    LET d == ShReadc(in, p)
        c == ShReadc(in, p + 1)
    IN IF d # "bs" THEN <<ShBare(d), p + 1>>
       ELSE IF c = "nl" THEN ShNextc(in, p + 2, quote)
       ELSE IF quote # "" /\ c # quote /\ c \notin ShEscapes
            THEN <<ShBare(d), p + 1>>
       ELSE <<<<c, TRUE>>, p + 2>>

\* the place of the next atom c at or after p, or the end of the text
ShFind(in, p, c) ==
    LET at == {i \in p..Len(in) : in[i] = c}
    IN IF at = {} THEN Len(in) + 1 ELSE CHOOSE i \in at : \A j \in at : i <= j

\* The rest of a quoted string, its closing quote included.
RECURSIVE ShQuoted(_, _, _, _)
ShQuoted(in, p, d, w) ==
    LET n == ShNextc(in, p, d)
    IN IF n[1] = ShBare("eof") THEN <<w, n[2] - 1>>
       ELSE IF n[1] = ShBare(d) THEN <<Append(w, n[1]), n[2]>>
       ELSE ShQuoted(in, n[2], d, Append(w, n[1]))

(***************************************************************************)
(* The characters of a word, from p to the first metacharacter: those      *)
(* inside ' ' are quoted and put between two ", those inside " " and ` `   *)
(* are kept with their quotes for macro.c.  set notes an = that follows    *)
(* letters and digits only.                                                *)
(***************************************************************************)
RECURSIVE ShGather(_, _, _, _, _)
ShGather(in, p, w, alpha, set) ==
    LET n == ShNextc(in, p, "")
        c == n[1]
        end == ShFind(in, n[2], "sq")
        lit == [i \in 1..end - n[2] |-> <<in[n[2] + i - 1], TRUE>>]
        more == alpha /\ ~c[2] /\ c[1] \in ShAlnum
        eq == set \/ (c = ShBare("=") /\ alpha)
        q == ShQuoted(in, n[2], c[1], Append(w, c))
    IN IF ~c[2] /\ c[1] \in ShMeta THEN [w |-> w, p |-> p, set |-> set]
       ELSE IF c = ShBare("sq")
            THEN ShGather(in, end + 1,
                          w \o <<ShBare("dq")>> \o lit \o <<ShBare("dq")>>, alpha, set)
       ELSE IF c \in {ShBare("dq"), ShBare("bq")}
            THEN ShGather(in, q[2], q[1], more, eq)
       ELSE ShGather(in, n[2], Append(w, c), more, eq)

(***************************************************************************)
(* copy: the here documents awaited are read at the end of the line, each  *)
(* up to the line that is its end word; it is taken literally if a         *)
(* character of that word was quoted.                                      *)
(***************************************************************************)
ShTrim(w) == LET kept == SelectSeq(w, LAMBDA c : c[1] # "")
             IN [i \in 1..Len(kept) |-> kept[i][1]]
ShNoDq(w) == SelectSeq(w, LAMBDA c : c # ShBare("dq"))
RECURSIVE ShDocLine(_, _, _, _, _)
ShDocLine(in, p, q, lit, w) ==
    LET n == IF lit THEN <<ShBare(ShReadc(in, p)), p + 1>> ELSE ShNextc(in, p, q)
    IN IF n[1] \in {ShBare("nl"), ShBare("eof")} THEN <<w, n[2], n[1][1] = "eof">>
       ELSE ShDocLine(in, n[2], q, lit, Append(w, n[1]))
RECURSIVE ShDocument(_, _, _, _, _)
ShDocument(in, p, ends, lit, text) ==
    LET l == ShDocLine(in, p, IF ends = <<>> THEN "" ELSE ends[1], lit, <<>>)
    IN IF l[3] \/ l[1] = ShPlain(ends)
       THEN [p |-> l[2], doc |-> [text |-> text, lit |-> lit]]
       ELSE ShDocument(in, l[2], ends, lit, text \o l[1] \o <<ShBare("nl")>>)
RECURSIVE ShCopy(_)
ShCopy(S) ==
    IF S.pend = <<>> THEN S
    ELSE LET name == Head(S.pend)
             lit == \E i \in 1..Len(name) : name[i][2] \/ name[i] = ShBare("dq")
             d == ShDocument(S.in, S.p, ShTrim(ShNoDq(name)), lit, <<>>)
         IN ShCopy([S EXCEPT !.p = d.p, !.docs = Append(@, d.doc), !.pend = Tail(@)])

(***************************************************************************)
(* word: one word, operator or end of line; a reserved word is one only    *)
(* where the grammar asked for it by the flag reserv.                      *)
(***************************************************************************)
RECURSIVE ShSkipSpace(_, _)
ShSkipSpace(in, p) == LET n == ShNextc(in, p, "")
                      IN IF n[1] \in {ShBare("sp"), ShBare("tab")}
                         THEN ShSkipSpace(in, n[2]) ELSE p
RECURSIVE ShWord(_)
ShWord(S) ==
    LET p == ShSkipSpace(S.in, S.p)
        n == ShNextc(S.in, p, "")
        c == n[1][1]
        g == ShGather(S.in, p, <<>>, TRUE, FALSE)
        next == ShNextc(S.in, g.p, "")[1]
        two == ShNextc(S.in, n[2], "")
        T == [S EXCEPT !.res = FALSE, !.num = "", !.set = FALSE]
        eol == [T EXCEPT !.p = n[2], !.val = c]
    IN IF S.bad THEN S
       ELSE IF n[1][2] \/ c \notin ShMeta
       THEN IF Len(g.w) = 1 /\ ~g.w[1][2] /\ g.w[1][1] \in ShDigits
               /\ next \in {ShBare("<"), ShBare(">")}
            THEN [ShWord([T EXCEPT !.p = g.p]) EXCEPT !.num = g.w[1][1]]
            ELSE IF S.res /\ Len(g.w) = 1 /\ ~g.w[1][2] /\ g.w[1][1] \in ShReserved
            THEN [T EXCEPT !.p = g.p, !.val = g.w[1][1]]
            ELSE [T EXCEPT !.p = g.p, !.val = "", !.arg = g.w,
                     !.set = g.set /\ ~g.w[1][2] /\ g.w[1][1] \in ShLetters]
       ELSE IF c \in ShDip
       THEN IF two[1] = n[1] THEN [T EXCEPT !.p = two[2], !.val = ShDouble[c]]
            ELSE [T EXCEPT !.p = n[2], !.val = c]
       ELSE IF c \in {"nl", "eof"} THEN ShCopy(eol) ELSE eol

ShReserv(S) == [S EXCEPT !.res = TRUE]
RECURSIVE ShSkipnl(_)
ShSkipnl(S) == LET T == ShWord(ShReserv(S))
               IN IF T.val = "nl" THEN ShSkipnl(T) ELSE T

\* synbad ends the shell or the line: the reader goes no further.
ShSynbad(S) == [S EXCEPT !.bad = TRUE, !.val = "eof"]
ShChkword(S) == LET T == ShWord(S) IN IF T.val # "" THEN ShSynbad(T) ELSE T
ShChksym(S, syms) == IF S.val \in syms THEN S ELSE ShSynbad(S)

ShMakefork(flags, t, io) == <<"fork", flags, t, io>>
ShMakelist(type, l, r, S) ==
    IF l = ShNil \/ r = ShNil THEN <<ShNil, ShSynbad(S)>> ELSE <<<<type, l, r>>, S>>

(***************************************************************************)
(* inout: the redirections at this place, before those met earlier in the  *)
(* command.  Each is an operation, a descriptor, a word and, for a         *)
(* document, its number among those of the text.                           *)
(***************************************************************************)
RECURSIVE ShInout(_, _)
ShInout(S, last) ==
    LET c == ShReadc(S.in, S.p)
        move == S.val \in {"<", ">"} /\ c = "&"
        op == IF move THEN "&" ELSE S.val
        fd == IF S.num # "" THEN S.num ELSE IF S.val \in {">", ">>"} THEN "1" ELSE "0"
        T == ShChkword(IF move THEN [S EXCEPT !.p = @ + 1] ELSE S)
        doc == IF op = "<<" THEN Len(T.docs) + Len(T.pend) + 1 ELSE 0
        U == IF op = "<<" THEN [T EXCEPT !.pend = Append(@, T.arg)] ELSE T
        more == ShInout(ShWord(U), last)
    IN IF S.val \notin {"<", ">", "<<", ">>"} THEN <<last, S>>
       ELSE IF T.bad THEN <<last, T>>
       ELSE <<<< <<op, fd, T.arg, doc>> >> \o more[1], more[2]>>

\* The words of a simple command: assignments before the first word that is
\* not one, the last first; and the words.
RECURSIVE ShComArgs(_, _, _, _, _)
ShComArgs(S, flag, args, set, io) ==
    LET keep == S.set /\ args = <<>>
        T == ShWord(S)
        i == IF flag THEN ShInout(T, io) ELSE <<io, T>>
    IN IF S.bad \/ S.val # "" THEN <<<<"com", args, set, io>>, S>>
       ELSE IF keep THEN ShComArgs(i[2], flag, args, <<S.arg>> \o set, i[1])
       ELSE ShComArgs(i[2], flag, Append(args, S.arg), set, i[1])

RECURSIVE ShCmd(_, _, _), ShList(_, _), ShTerm(_, _), ShItem(_, _), ShSyncase(_, _)

\* cmd: a list of commands up to one of the symbols syms.
ShCmd(S, syms, flg) ==
    LET l == ShList(S, flg)
        i == l[1]
        T == IF l[2].val = "nl"
             THEN (IF "NL" \in flg THEN [l[2] EXCEPT !.val = ";"] ELSE l[2])
             ELSE IF i = ShNil /\ "MT" \notin flg THEN ShSynbad(l[2]) ELSE l[2]
        amp == T.val = "&"
        first == IF amp THEN ShMakefork({"INT", "PRS", "AMP"}, i, <<>>) ELSE i
        e == ShCmd(T, syms, flg \cup {"MT"})
    IN IF T.bad \/ (amp /\ i = ShNil) THEN <<ShNil, ShSynbad(T)>>
       ELSE IF T.val \in {"&", ";"}
       THEN IF e[2].bad \/ e[1] = ShNil THEN <<first, e[2]>>
            ELSE ShMakelist("lst", first, e[1], e[2])
       ELSE IF (T.val = "eof" /\ syms = {"nl"}) \/ syms = {} THEN <<i, T>>
       ELSE <<i, ShChksym(T, syms)>>

RECURSIVE ShListMore(_)
ShListMore(r) ==
    LET t == ShTerm(r[2], {"NL"})
    IN IF r[2].bad \/ r[1] = ShNil \/ r[2].val \notin {"&&", "||"} THEN r
       ELSE ShListMore(ShMakelist(IF r[2].val = "&&" THEN "and" ELSE "orf",
                                  r[1], t[1], t[2]))
ShList(S, flg) == ShListMore(ShTerm(S, flg))

ShTerm(S, flg) ==
    LET T == IF "NL" \in flg THEN ShSkipnl(S) ELSE ShWord(ShReserv(S))
        t == ShItem(T, TRUE)
        r == ShTerm(t[2], {"NL"})
    IN IF T.bad THEN <<ShNil, T>>
       ELSE IF t[1] # ShNil /\ ~t[2].bad /\ t[2].val \in {"^", "|"}
       THEN <<<<"fil", ShMakefork({"POU"}, t[1], <<>>),
                ShMakefork({"PIN", "PCL"}, r[1], <<>>)>>, r[2]>>
       ELSE t

\* The patterns of one arm of a case, the last first.
RECURSIVE ShPatterns(_, _)
ShPatterns(S, pats) ==
    LET T == ShWord(S)
    IN IF S.bad \/ S.val # "" \/ T.val \notin {")", "|"} THEN <<pats, ShSynbad(S)>>
       ELSE IF T.val = "|" THEN ShPatterns(ShWord(T), <<S.arg>> \o pats)
       ELSE <<<<S.arg>> \o pats, T>>
ShSyncase(S, esym) ==
    LET T == ShSkipnl(S)
        pats == ShPatterns(T, <<>>)
        com == ShCmd(pats[2], {}, {"NL", "MT"})
        rest == ShSyncase(com[2], esym)
        arm == <<pats[1], com[1]>>
    IN IF T.bad \/ T.val = esym THEN <<<<>>, T>>
       ELSE IF pats[2].bad \/ com[2].bad THEN <<<<>>, ShSynbad(com[2])>>
       ELSE IF com[2].val = ";;" THEN <<<<arm>> \o rest[1], rest[2]>>
       ELSE <<<<arm>>, ShChksym(com[2], {esym})>>

ShItemCase(S) ==
    LET w == ShChkword(S)
        k == ShChksym(ShSkipnl(w), {"in", "{"})
        regs == ShSyncase(k, IF k.val = "in" THEN "esac" ELSE "}")
    IN IF k.bad THEN <<ShNil, k>> ELSE <<<<"sw", w.arg, regs[1]>>, regs[2]>>

\* An elif is an if of its own as the else part; the word after its fi has
\* then been read, with its redirections.
ShItemIf(S) ==
    LET c == ShCmd(S, {"then"}, {"NL"})
        t == ShCmd(c[2], {"else", "fi", "elif"}, {"NL"})
        e == ShCmd(t[2], {"fi"}, {"NL"})
        f == ShItem([t[2] EXCEPT !.val = "if"], FALSE)
        else == IF t[2].val = "else" THEN e
                ELSE IF t[2].val = "elif" THEN f ELSE <<ShNil, t[2]>>
    IN IF c[2].bad \/ t[2].bad THEN <<ShNil, ShSynbad(t[2]), FALSE>>
       ELSE <<<<"if", c[1], t[1], else[1]>>, else[2], t[2].val = "elif">>

ShItemFor(S) ==
    LET name == ShChkword(S)
        in == ShSkipnl(name)
        list == ShItem(ShChkword(in), FALSE)
        after == IF in.val # "in" THEN in
                 ELSE IF list[2].val \in {"nl", ";"} THEN ShSkipnl(list[2])
                 ELSE ShSynbad(list[2])
        do == ShChksym(after, {"do", "{"})
        body == ShCmd(do, {IF do.val = "do" THEN "done" ELSE "}"}, {"NL"})
    IN IF name.bad \/ do.bad THEN <<ShNil, ShSynbad(do)>>
       ELSE <<<<"for", name.arg, IF in.val = "in" THEN list[1] ELSE ShNil, body[1]>>,
              body[2]>>

ShItemWhile(S) ==
    LET c == ShCmd(S, {"do"}, {"NL"})
        b == ShCmd(c[2], {"done"}, {"NL"})
    IN IF c[2].bad THEN c
       ELSE <<<<IF S.val = "while" THEN "wh" ELSE "un", c[1], b[1]>>, b[2]>>

\* item: one command, simple or compound, with its redirections.
ShItem(S, flag) ==
    LET i == IF flag THEN ShInout(S, <<>>) ELSE <<<<>>, S>>
        T == i[2]
        if == ShItemIf(T)
        par == ShCmd(T, {")"}, {"NL"})
        t == CASE T.val = "case" -> ShItemCase(T)
               [] T.val = "if" -> <<if[1], if[2]>>
               [] T.val = "for" -> ShItemFor(T)
               [] T.val \in {"while", "until"} -> ShItemWhile(T)
               [] T.val = "{" -> ShCmd(T, {"}"}, {"NL"})
               [] OTHER -> <<ShMakefork({}, <<"par", par[1]>>, <<>>), par[2]>>
        io == ShInout(ShWord(ShReserv(t[2])), i[1])
    IN IF T.bad THEN <<ShNil, T>>
       ELSE IF T.val \in {"case", "if", "for", "while", "until", "{", "("}
       THEN IF t[2].bad \/ (T.val = "if" /\ if[3]) THEN t
            ELSE IF io[1] = <<>> THEN <<t[1], io[2]>>
            ELSE <<ShMakefork({}, t[1], io[1]), io[2]>>
       ELSE IF T.val # "" /\ i[1] = <<>> THEN <<ShNil, T>>
       ELSE ShComArgs(T, flag, <<>>, <<>>, i[1])

ShReader(text, p, docs) ==
    [in |-> text, p |-> p, res |-> FALSE, val |-> "", arg |-> <<>>, set |-> FALSE,
     num |-> "", pend |-> <<>>, docs |-> docs, bad |-> FALSE]

\* One line of a script (exfile) and a whole text (execexp).
ShParseLine(text, p, docs) == ShCmd(ShReader(text, p, docs), {"nl"}, {"MT"})
ShParseAll(text, docs) == ShCmd(ShReader(text, 1, docs), {"nl"}, {"NL", "MT"})
=============================================================================
