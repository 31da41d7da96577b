--------------------------------- MODULE Cron ---------------------------------
(* cron: crontab is compiled into a list of codes, which is matched against  *)
(* the clock once a minute.                                                  *)
EXTENDS Integers, Sequences, SequencesExt

CONSTANT CrLISTS    \* bytes that the list grows by (LISTS)

(* Characters are their codes; the end of the file is -1.                    *)
CrEOF == -1
CrNL == 10
CrBlank(c) == c \in {9, 32}
CrStar == 42
CrComma == 44
CrMinus == 45
CrPercent == 37
CrDigit(c) == c \in 48..57

CrEXACT == 100
CrANY == 101
CrLIST == 102
CrRANGE == 103
CrEOS == 104

CrAt(text, k) == IF k > Len(text) THEN CrEOF ELSE text[k]

RECURSIVE CrNumber(_, _, _)
(* number: the digits from k on, which may be none; at is what follows.      *)
CrNumber(text, k, n) ==
    IF CrDigit(CrAt(text, k)) THEN CrNumber(text, k + 1, n * 10 + CrAt(text, k) - 48)
    ELSE [n |-> IF n >= 100 THEN -1 ELSE n, at |-> k]

RECURSIVE CrSkip(_, _)
CrSkip(text, k) == IF CrBlank(CrAt(text, k)) THEN CrSkip(text, k + 1) ELSE k

(* What a field gives: its codes and where it ends, or bad with the place of *)
(* the character last read.                                                  *)
CrBad(k) == [bad |-> TRUE, codes |-> <<>>, at |-> k]
CrGood(codes, k) == [bad |-> FALSE, codes |-> codes, at |-> k]

RECURSIVE CrMlist(_, _, _)
CrMlist(text, k, codes) ==
    LET m == CrNumber(text, k, 0)
        c == CrAt(text, m.at)
        d == Append(codes, m.n)
    IN IF m.n < 0 THEN CrBad(m.at - 1)
       ELSE IF c = CrComma THEN CrMlist(text, m.at + 1, d)
       ELSE IF CrBlank(c) THEN CrGood(Append(d, CrLIST), m.at + 1) ELSE CrBad(m.at)

CrMrange(text, k, n) ==
    LET m == CrNumber(text, k, 0)
    IN IF m.n < 0 THEN CrBad(m.at - 1)
       ELSE IF CrBlank(CrAt(text, m.at)) THEN CrGood(<<CrRANGE, n, m.n>>, m.at + 1) ELSE CrBad(m.at)

CrField(text, k) ==
    LET m == CrNumber(text, k, 0)
        c == CrAt(text, m.at)
    IN IF CrAt(text, k) = CrStar THEN CrGood(<<CrANY>>, k + 1)
       ELSE IF m.n < 0 THEN CrBad(m.at - 1)
       ELSE IF c = CrComma THEN CrMlist(text, m.at + 1, <<CrLIST, m.n>>)
       ELSE IF c = CrMinus THEN CrMrange(text, m.at + 1, m.n)
       ELSE IF CrBlank(c) THEN CrGood(<<CrEXACT, m.n>>, m.at + 1) ELSE CrBad(m.at)

RECURSIVE CrLineEnd(_, _)
CrLineEnd(text, k) == IF CrAt(text, k) \in {CrNL, CrEOF} THEN k ELSE CrLineEnd(text, k + 1)

RECURSIVE CrLine(_, _, _, _)
(* The five fields and the command; a line that is not all there, or whose   *)
(* newline is missing, is ignored from where it went wrong.                  *)
CrLine(text, k, i, codes) ==
    LET s == CrSkip(text, k)
        f == CrField(text, s)
        e == CrLineEnd(text, s)
        command == [j \in 1..e - s |-> IF text[s + j - 1] = CrPercent THEN CrNL ELSE text[s + j - 1]]
    IN IF CrAt(text, s) \in {CrEOF, CrNL} THEN CrBad(s)
       ELSE IF i = 5 THEN IF CrAt(text, e) = CrEOF THEN CrBad(e)
                          ELSE CrGood(codes \o command \o <<CrNL, 0>>, e + 1)
       ELSE IF f.bad THEN f ELSE CrLine(text, f.at, i + 1, codes \o f.codes)

RECURSIVE CrLoop(_, _, _, _)
(* init: room for the longest that a line should give is made before it is   *)
(* read; over notes a list that outgrew its room.                            *)
CrLoop(text, k, list, size) ==
    LET i    == 2 + CrLineEnd(text, k) - k
        room == IF Len(list) + i > size THEN size + i + CrLISTS ELSE size
        l    == CrLine(text, k, 0, <<>>)
        next == CrLineEnd(text, l.at)
        done == list \o <<CrEOS, CrEOS>>
    IN IF ~l.bad THEN IF Len(list \o l.codes) > room THEN [list |-> list, over |-> TRUE]
                      ELSE CrLoop(text, l.at, list \o l.codes, room)
       ELSE IF CrAt(text, next) = CrEOF THEN [list |-> done, over |-> Len(done) > room]
       ELSE CrLoop(text, next + 1, list, room)

CrInit(text) == CrLoop(text, 1, <<>>, CrLISTS)

RECURSIVE CrPast(_, _, _)
CrPast(list, p, c) == IF list[p] = c THEN p + 1 ELSE CrPast(list, p + 1, c)

(* cmp: whether the field at p has v, and where the next one is.             *)
CrCmp(list, p, v) ==
    LET end == CrPast(list, p + 1, CrLIST)
    IN CASE list[p] = CrEXACT -> [ok |-> list[p + 1] = v, at |-> p + 2]
         [] list[p] = CrANY   -> [ok |-> TRUE, at |-> p + 1]
         [] list[p] = CrLIST  -> [ok |-> \E j \in p + 1..end - 2 : list[j] = v, at |-> end]
         [] list[p] = CrRANGE -> [ok |-> list[p + 1] <= v /\ v <= list[p + 2], at |-> p + 3]
         [] OTHER             -> [ok |-> list[p] = v, at |-> p + 1]

RECURSIVE CrMinute(_, _, _)
(* The loop of main for one minute: the commands that are run, in order.     *)
CrMinute(list, p, now) ==
    LET f == FoldLeft(LAMBDA a, v : LET c == CrCmp(list, a.at, v) IN [ok |-> a.ok /\ c.ok, at |-> c.at],
                      [ok |-> TRUE, at |-> p], now)
        end == CrPast(list, f.at, 0)
    IN IF list[p] = CrEOS THEN <<>>
       ELSE (IF f.ok THEN <<SubSeq(list, f.at, end - 2)>> ELSE <<>>) \o CrMinute(list, end, now)

(* ------------------------------ properties ------------------------------- *)
(* A line as its writer means it: five fields, each "any" or the numbers it  *)
(* lists or the two ends of a range, and a command; ok is FALSE for one that *)
(* has a field too few, a number too large or no newline.                    *)
CrDigits(n) == IF n < 10 THEN <<48 + n>> ELSE <<48 + (n \div 10), 48 + (n % 10)>>
CrFieldText(f) ==
    CASE f.k = "any"   -> <<CrStar>>
      [] f.k = "range" -> CrDigits(f.ns[1]) \o <<CrMinus>> \o CrDigits(f.ns[2])
      [] f.k = "bad"   -> <<57, 57, 57>>
      [] OTHER -> Tail(FlattenSeq([j \in DOMAIN f.ns |-> <<CrComma>> \o CrDigits(f.ns[j])]))
CrText(lines) ==
    FlattenSeq([j \in DOMAIN lines |->
        FlattenSeq([m \in DOMAIN lines[j].fields |-> CrFieldText(lines[j].fields[m]) \o <<lines[j].sep>>])
        \o lines[j].command \o lines[j].end])
CrMeans(f, v) ==
    CASE f.k = "any"   -> TRUE
      [] f.k = "range" -> f.ns[1] <= v /\ v <= f.ns[2]
      [] f.k = "bad"   -> FALSE
      [] OTHER -> \E j \in DOMAIN f.ns : f.ns[j] = v
CrDue(l, now) == Len(l.fields) = 5 /\ l.end # <<>> /\ \A m \in 1..5 : CrMeans(l.fields[m], now[m])
CrCommand(l) == [j \in DOMAIN l.command |-> IF l.command[j] = CrPercent THEN CrNL ELSE l.command[j]] \o <<CrNL>>

(* Every minute exactly the commands of the lines that name it are run, in   *)
(* the order of the file, whatever lines are ignored before them, and the    *)
(* list stays inside the room that was made for it.                          *)
CrRight(job) ==
    LET c   == CrInit(CrText(job.lines))
        due == SelectSeq(job.lines, LAMBDA l : CrDue(l, job.now))
    IN ~c.over /\ CrMinute(c.list, 1, job.now) = [j \in DOMAIN due |-> CrCommand(due[j])]

==============================================================================
