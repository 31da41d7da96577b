---------------------------------- MODULE Ed ---------------------------------
(* The editor ed: the table of lines from zero to dol, whose entries are     *)
(* places in a temporary file and one mark bit, the temporary file behind    *)
(* two block buffers, and the commands that act on them.  A line is a short  *)
(* sequence of characters; a pattern is one literal character.               *)
EXTENDS Integers, Sequences, SequencesExt

CONSTANTS
    EdBlk,      \* characters in a block of the temporary file (512)
    EdLBSIZE,   \* longest line that join and substitute can make (LBSIZE)
    EdMaxLines, \* bound: no command that would make the buffer longer is given
    EdMaxText,  \* bound: blocks of the temporary file
    EdCmds,     \* bound: commands given
    EdTyped,    \* the line a user may type
    EdFile0     \* the lines of the file when ed starts

VARIABLES
    ed,     \* the editor: see EdInit
    edFile, \* the lines of the file whose name is savedfile
    edRef,  \* history: what the buffer should contain
    edGlob, \* the command list of a running global, "none" outside one
    edGoal, \* history: what the buffer should contain when the global ends
    edHoles,\* history: "undo", "write", "torn" once such a step was taken
    edLeft  \* commands that may still be given

edVars == <<ed, edFile, edRef, edGlob, edGoal, edHoles, edLeft>>

(* ----------------------- the temporary file ------------------------------ *)
EdBlank == [i \in 0..EdBlk - 1 |-> "?"]

(* The buffer that holds block b for reading or writing.                     *)
EdGetblock(t, b, iof) ==
    IF b = t.iblock THEN [t EXCEPT !.ichanged = @ \/ iof = "write"]
    ELSE IF b = t.oblock THEN t
    ELSE IF iof = "read"
    THEN [t EXCEPT !.disk = IF t.ichanged THEN [@ EXCEPT ![t.iblock] = t.ibuff] ELSE @,
                   !.ichanged = FALSE, !.iblock = b, !.ibuff = t.disk[b]]
    ELSE [t EXCEPT !.disk = IF t.oblock >= 0 THEN [@ EXCEPT ![t.oblock] = t.obuff] ELSE @,
                   !.oblock = b]

RECURSIVE EdGetline(_, _, _)
(* getline: the state after it, and the line that starts at place i.         *)
EdGetline(t, i, s) ==
    LET u == EdGetblock(t, i \div EdBlk, "read")
        c == (IF u.iblock = i \div EdBlk THEN u.ibuff ELSE u.obuff)[i % EdBlk]
    IN IF c = "nul" \/ i >= t.tline THEN [t |-> u, s |-> s]
       ELSE EdGetline(u, i + 1, Append(s, c))

(* putline's loop: the characters of s and the closing 0 from tline on.      *)
EdStore(t0, s) ==
    FoldLeft(LAMBDA t, k :
                 LET i == t.tline + k - 1
                     u == EdGetblock(t, i \div EdBlk, "write")
                     c == IF k > Len(s) THEN "nul" ELSE s[k]
                 IN IF u.iblock = i \div EdBlk
                    THEN [u EXCEPT !.ibuff[i % EdBlk] = c]
                    ELSE [u EXCEPT !.obuff[i % EdBlk] = c],
             t0, [k \in 1..Len(s) + 1 |-> k])

EdPutline(e, s) ==
    [e EXCEPT !.t = [EdStore(e.t, s) EXCEPT !.tline = @ + Len(s) + 1], !.fchange = TRUE]

(* --------------------------- the line table ------------------------------ *)
EdDol(e) == Len(e.zero)
EdLine(tl) == [tl |-> tl, mark |-> FALSE]

(* append: each line that f delivers is stored and shifted in after dot.     *)
EdAppend(e0, a, lines) ==
    FoldLeft(LAMBDA e, s :
                 [EdPutline(e, s) EXCEPT !.zero = InsertAt(@, e.dot + 1, EdLine(e.t.tline)),
                                         !.dot = @ + 1],
             [e0 EXCEPT !.dot = a], lines)

EdLeast(i, j) == IF i < j THEN i ELSE j

EdRdelete(e, a1, a2) ==
    LET z == SubSeq(e.zero, 1, a1 - 1) \o SubSeq(e.zero, a2 + 1, Len(e.zero))
    IN [e EXCEPT !.zero = z, !.dot = EdLeast(a1, Len(z)), !.fchange = TRUE]

(* gdelete keeps the unmarked lines; dot follows the last marked one but     *)
(* only if it is not the first.                                              *)
EdGdelete(e) ==
    LET marked == {i \in 1..EdDol(e) : e.zero[i].mark}
        last   == CHOOSE i \in marked : \A j \in marked : j <= i
        kept   == SelectSeq(e.zero, LAMBDA l : ~l.mark)
        before == SelectSeq(SubSeq(e.zero, 1, last), LAMBDA l : ~l.mark)
        dot    == IF \E i, j \in marked : i # j THEN Len(before) + 1 ELSE e.dot
    IN IF marked = {} THEN e
       ELSE [e EXCEPT !.zero = kept, !.dot = EdLeast(dot, Len(kept)), !.fchange = TRUE]

(* reverse exchanges the entries of [a1, a2) from both ends.                 *)
EdReverse(z, a1, a2) ==
    [i \in DOMAIN z |-> IF i \in a1..a2 - 1 THEN z[a1 + a2 - 1 - i] ELSE z[i]]

(* The text of lines a1 to a2, as a loop of getline delivers it.             *)
EdTexts(e, a1, a2) ==
    FoldLeft(LAMBDA r, i : LET g == EdGetline(r.t, e.zero[i].tl, <<>>)
                           IN [t |-> g.t, out |-> Append(r.out, g.s)],
             [t |-> e.t, out |-> <<>>], [i \in 1..a2 - a1 + 1 |-> a1 + i - 1])

Bug_EdRotated(e, a1, a2, adt) ==
    IF adt < a1
    THEN LET dot == adt + (a2 - a1) IN
         IF adt + 1 = a1 THEN [e EXCEPT !.dot = dot]
         ELSE [e EXCEPT !.dot = dot, !.fchange = TRUE,
                        !.zero = EdReverse(EdReverse(EdReverse(@, adt + 1, a1), a1, a2), adt + 1, a2)]
    ELSE [e EXCEPT !.dot = adt, !.fchange = TRUE,
                   !.zero = EdReverse(EdReverse(EdReverse(@, a1, a2), a2, adt), a1, adt)]

EdRotated(e, a1, a2, adt) ==
    IF adt < a1
    THEN LET dot == adt + (a2 - a1) IN
         IF adt + 1 = a1 THEN [e EXCEPT !.dot = dot]
         ELSE [e EXCEPT !.dot = dot, !.fchange = TRUE,
                        !.zero = EdReverse(EdReverse(EdReverse(@, adt + 1, a1), a1, a2), adt + 1, a2)]
    ELSE [e EXCEPT !.dot = adt, !.fchange = TRUE,
                   !.zero = EdReverse(EdReverse(EdReverse(@, a1, a2), a2, adt + 1), a1, adt + 1)]

EdFails(e) == [e EXCEPT !.failed = TRUE]

(* m and t.  A target inside the range is refused; what moves loses its mark *)
(* first.                                                                    *)
EdMove(e, a1, a2, adt) ==
    LET u == [e EXCEPT !.zero = [i \in DOMAIN @ |->
                  IF i \in a1..a2 THEN [@[i] EXCEPT !.mark = FALSE] ELSE @[i]]]
    IN IF adt \in a1..a2 THEN EdFails(u) ELSE EdRotated(u, a1, a2 + 1, adt)

EdCopy(e, a1, a2, adt) ==
    LET r == EdTexts(e, a1, a2)
        u == EdAppend([e EXCEPT !.t = r.t], EdDol(e), r.out)
    IN EdRotated(u, EdDol(e) + 1, EdDol(u) + 1, adt)

EdJoin(e, a1, a2) ==
    LET r == EdTexts(e, a1, a2)
        s == FlattenSeq(r.out)
        u == EdPutline([e EXCEPT !.t = r.t, !.zero[a1] = EdLine(e.t.tline)], s)
    IN IF Len(s) > EdLBSIZE THEN EdFails([e EXCEPT !.t = r.t])
       ELSE [IF a1 < a2 THEN EdRdelete(u, a1 + 1, a2) ELSE u EXCEPT !.dot = a1]

(* dosub, once or for every match: b is replaced by rhs.                     *)
EdDosub(s, rhs, gsubf) ==
    LET first == CHOOSE i \in DOMAIN s : s[i] = "b" /\ \A j \in 1..i - 1 : s[j] # "b"
    IN FlattenSeq([i \in DOMAIN s |-> IF s[i] = "b" /\ (gsubf \/ i = first) THEN rhs ELSE <<s[i]>>])

RECURSIVE EdSplit(_)
(* putline stops at a newline and leaves the rest in linebp for getsub.      *)
EdSplit(s) ==
    IF \E i \in DOMAIN s : s[i] = "nl"
    THEN LET i == CHOOSE i \in DOMAIN s : s[i] = "nl" /\ \A j \in 1..i - 1 : s[j] # "nl"
         IN <<SubSeq(s, 1, i - 1)>> \o EdSplit(SubSeq(s, i + 1, Len(s)))
    ELSE <<s>>

RECURSIVE EdSubstitute(_, _, _, _, _, _)
(* s: names that denote the line follow it; subnewa and subolda remember the *)
(* last replacement for u.                                                   *)
EdSubstitute(e, a1, a2, rhs, gsubf, done) ==
    IF a1 > a2 THEN IF done THEN e ELSE EdFails(e)
    ELSE LET g   == EdGetline(e.t, e.zero[a1].tl, <<>>)
             new == EdDosub(g.s, rhs, gsubf)
             ps  == EdSplit(new)
             tl  == e.t.tline
             old == e.zero[a1].tl
             u   == [EdPutline([e EXCEPT !.t = g.t], ps[1]) EXCEPT
                        !.name = IF @ = old THEN tl ELSE @,
                        !.subnewa = tl, !.subolda = old, !.zero[a1] = EdLine(tl)]
             v   == EdAppend(u, a1, Tail(ps))
         IN IF ~\E i \in DOMAIN g.s : g.s[i] = "b"
            THEN EdSubstitute([e EXCEPT !.t = g.t], a1 + 1, a2, rhs, gsubf, done)
            ELSE IF Len(new) > EdLBSIZE THEN EdFails([e EXCEPT !.t = g.t])
            ELSE EdSubstitute(v, a1 + Len(ps), a2 + Len(ps) - 1, rhs, gsubf, TRUE)

(* ----------------------- what a command should do ------------------------ *)
EdCut(s, a1, a2) == SubSeq(s, 1, a1 - 1) \o SubSeq(s, a2 + 1, Len(s))
EdPaste(s, a, x) == SubSeq(s, 1, a) \o x \o SubSeq(s, a + 1, Len(s))
EdHas(s) == \E i \in DOMAIN s : s[i] = "b"
EdSubsted(s, rhs, gsubf) == IF EdHas(s) THEN EdSplit(EdDosub(s, rhs, gsubf)) ELSE <<s>>

(* ------------------------------ the commands ----------------------------- *)
EdEmpty ==
    [zero |-> <<>>, dot |-> 0, name |-> -1, subnewa |-> -1, subolda |-> -1,
     fchange |-> FALSE, failed |-> FALSE,
     t |-> [tline |-> 0, iblock |-> -1, oblock |-> -1, ichanged |-> FALSE,
            ibuff |-> EdBlank, obuff |-> EdBlank, disk |-> [b \in 0..EdMaxText - 1 |-> EdBlank]]]

(* ed file: main's global command r has been done.                           *)
EdInit ==
    /\ ed = [EdAppend(EdEmpty, 0, EdFile0) EXCEPT !.fchange = FALSE]
    /\ edFile = EdFile0 /\ edRef = EdFile0 /\ edGlob = "none" /\ edGoal = <<>>
    /\ edHoles = {} /\ edLeft = EdCmds

(* A command of the terminal; the temporary file has room for what it does.  *)
EdCommand(e, ref) ==
    /\ edGlob = "none" /\ edLeft > 0 /\ edLeft' = edLeft - 1
    /\ EdDol(e) <= EdMaxLines /\ e.t.tline <= EdMaxText * EdBlk
    /\ ed' = [e EXCEPT !.failed = FALSE]
    /\ edRef' = IF e.failed THEN edRef ELSE ref
    /\ UNCHANGED <<edGlob, edGoal>>

EdKeeps == UNCHANGED <<edFile, edHoles>>

(* a and i: the lines typed before the "." or before an interrupt.           *)
EdAppendCmd ==
    \E a \in 0..EdDol(ed), n \in 0..2 :
        LET lines == [i \in 1..n |-> EdTyped] IN
        EdCommand(EdAppend(ed, a, lines), EdPaste(edRef, a, lines)) /\ EdKeeps

EdChange ==
    \E a1 \in 1..EdDol(ed) : \E a2 \in a1..EdDol(ed) :
        EdCommand(EdAppend(EdRdelete(ed, a1, a2), a1 - 1, <<EdTyped>>),
                  EdPaste(EdCut(edRef, a1, a2), a1 - 1, <<EdTyped>>)) /\ EdKeeps

EdDelete ==
    \E a1 \in 1..EdDol(ed) : \E a2 \in a1..EdDol(ed) :
        EdCommand(EdRdelete(ed, a1, a2), EdCut(edRef, a1, a2)) /\ EdKeeps

EdJoinCmd ==
    \E a1 \in 1..EdDol(ed) : \E a2 \in a1..EdDol(ed) :
        EdCommand(EdJoin(ed, a1, a2),
                  EdPaste(EdCut(edRef, a1, a2), a1 - 1, <<FlattenSeq(SubSeq(edRef, a1, a2))>>)) /\ EdKeeps

RECURSIVE EdSearch(_, _, _)
(* /b/ and ?b? look at every line from dot round to dot; zero never matches. *)
EdSearch(e, a1, step) ==
    LET n == EdDol(e)
        a == IF step = 1 THEN (IF a1 + 1 > n THEN 0 ELSE a1 + 1)
             ELSE IF a1 - 1 < 0 THEN n ELSE a1 - 1
        g == EdGetline(e.t, e.zero[a].tl, <<>>)
        u == IF a = 0 THEN e ELSE [e EXCEPT !.t = g.t]
    IN IF a # 0 /\ EdHas(g.s) THEN [e |-> u, a |-> a]
       ELSE IF a = e.dot THEN [e |-> EdFails(u), a |-> a]
       ELSE EdSearch(u, a, step)

(* An address: what it starts from and the sum of what is added to it.       *)
EdAddress(e, from, plus) ==
    LET r == CASE from = "." -> [e |-> e, a |-> e.dot]
               [] from = "$" -> [e |-> e, a |-> EdDol(e)]
               [] from = "'" -> [e |-> e, a |-> IF \E i \in 1..EdDol(e) : e.zero[i].tl = e.name
                                                THEN CHOOSE i \in 1..EdDol(e) : e.zero[i].tl = e.name
                                                ELSE EdDol(e) + 1]
               [] from = "/" -> EdSearch(e, e.dot, 1)
               [] from = "?" -> EdSearch(e, e.dot, -1)
    IN IF r.a + plus \in 1..EdDol(e) THEN [r EXCEPT !.a = @ + plus] ELSE [r EXCEPT !.e = EdFails(@)]

EdForms == {".", "$", "'", "/", "?"}

EdMarkCmd ==
    \E from \in EdForms, plus \in {-1, 0} :
        LET r == EdAddress(ed, from, plus) IN
        EdCommand(IF r.e.failed THEN r.e ELSE [r.e EXCEPT !.name = ed.zero[r.a].tl], edRef) /\ EdKeeps

(* p and a bare address: dot is the last line printed.                       *)
EdPrint ==
    \E from \in EdForms, plus \in {-1, 0} :
        LET r == EdAddress(ed, from, plus) IN
        EdCommand(IF r.e.failed THEN r.e
                  ELSE [r.e EXCEPT !.t = EdTexts(r.e, r.a, r.a).t, !.dot = r.a], edRef) /\ EdKeeps

EdMoveCmd ==
    \E a1 \in 1..EdDol(ed) : \E a2 \in a1..EdDol(ed), adt \in 0..EdDol(ed) :
        LET n == a2 - a1 + 1 IN
        EdCommand(EdMove(ed, a1, a2, adt),
                  EdPaste(EdCut(edRef, a1, a2), IF adt < a1 THEN adt ELSE adt - n, SubSeq(edRef, a1, a2)))
        /\ EdKeeps

EdCopyCmd ==
    \E a1 \in 1..EdDol(ed) : \E a2 \in a1..EdDol(ed), adt \in 0..EdDol(ed) :
        EdCommand(EdCopy(ed, a1, a2, adt), EdPaste(edRef, adt, SubSeq(edRef, a1, a2))) /\ EdKeeps

EdRhs == {<<"a">>, <<"nl">>}

EdSubstituteCmd ==
    \E a1 \in 1..EdDol(ed) : \E a2 \in a1..EdDol(ed), rhs \in EdRhs, gsubf \in BOOLEAN :
        EdCommand(EdSubstitute(ed, a1, a2, rhs, gsubf, FALSE),
                  FlattenSeq([i \in DOMAIN edRef |->
                     IF i \in a1..a2 THEN EdSubsted(edRef[i], rhs, gsubf) ELSE <<edRef[i]>>]))
        /\ EdKeeps

(* u puts the old line back and leaves fchange alone.                        *)
EdUndo ==
    \E a \in 1..EdDol(ed) :
        /\ ed.zero[a].tl = ed.subnewa
        /\ LET u == [ed EXCEPT !.zero[a] = EdLine(ed.subolda), !.dot = a] IN
           EdCommand(u, [edRef EXCEPT ![a] = EdGetline(ed.t, ed.subolda, <<>>).s])
        /\ edHoles' = edHoles \cup {"undo"}
        /\ UNCHANGED edFile

(* r, and e when it may: fchange is set from what was there before.          *)
EdRead ==
    \E a \in 0..EdDol(ed) :
        EdCommand([EdAppend(ed, a, edFile) EXCEPT !.fchange = EdDol(ed) # 0],
                  EdPaste(edRef, a, edFile)) /\ EdKeeps

EdFresh == [ed EXCEPT !.zero = <<>>, !.dot = 0, !.name = -1, !.subnewa = -1,
                      !.t = [@ EXCEPT !.tline = 0, !.iblock = -1, !.oblock = -1, !.ichanged = FALSE]]

EdEditWarns ==
    /\ ed.fchange
    /\ EdCommand([EdFails(ed) EXCEPT !.fchange = FALSE], edRef)
    /\ edHoles' = edHoles \cup {"warned"}
    /\ UNCHANGED edFile

EdEdit ==
    /\ ~ed.fchange
    /\ EdCommand([EdAppend(EdFresh, 0, edFile) EXCEPT !.fchange = FALSE], edFile)
    /\ edHoles' = {}
    /\ UNCHANGED edFile

(* w: the whole buffer or a part; a failure in the middle loses the rest.    *)
EdWrite ==
    \E a1 \in 1..EdDol(ed) : \E a2 \in a1..EdDol(ed), ok \in BOOLEAN :
        LET r   == EdTexts(ed, a1, a2)
            all == a1 = 1 /\ a2 = EdDol(ed)
        IN /\ EdCommand([ed EXCEPT !.t = r.t, !.fchange = @ /\ ~(ok /\ all)], edRef)
           /\ edFile' = IF ok THEN r.out ELSE SubSeq(r.out, 1, Len(r.out) - 1)
           /\ edHoles' = IF ok /\ all THEN edHoles \ {"undo", "write", "warned"}
                         ELSE edHoles \cup {"write"}

(* q: the first time with unsaved changes it only warns.                     *)
EdQuit ==
    /\ ed.fchange /\ EdDol(ed) # 0
    /\ EdCommand([EdFails(ed) EXCEPT !.fchange = FALSE], edRef)
    /\ edHoles' = edHoles \cup {"warned"}
    /\ UNCHANGED edFile

(* An interrupt inside putline: characters are stored, tline is not moved.   *)
EdTear ==
    /\ EdCommand([ed EXCEPT !.t = EdStore(ed.t, EdTyped), !.fchange = TRUE], edRef)
    /\ ed.t.tline + Len(EdTyped) + 1 <= EdMaxText * EdBlk
    /\ edHoles' = edHoles \cup (IF (ed.t.tline + Len(EdTyped)) \div EdBlk # ed.t.tline \div EdBlk
                                THEN {"torn"} ELSE {})
    /\ UNCHANGED edFile

(* g and v mark the lines; g/b/d is done at once.                            *)
EdMarked(e, k) ==
    LET r == EdTexts(e, 1, EdDol(e))
    IN [e EXCEPT !.t = r.t,
                 !.zero = [i \in DOMAIN @ |-> [@[i] EXCEPT !.mark = EdHas(r.out[i]) = k]]]

EdGlobalDelete ==
    \E k \in BOOLEAN :
        EdCommand(EdGdelete(EdMarked(ed, k)), SelectSeq(edRef, LAMBDA s : EdHas(s) # k)) /\ EdKeeps

(* What g with each command list leaves, for matching and other lines.       *)
EdGoalOf(c, k) ==
    LET In(s)  == EdHas(s) = k
        Out(s) == EdHas(s) # k
    IN CASE c = "m0" -> Reverse(SelectSeq(edRef, In)) \o SelectSeq(edRef, Out)
         [] c = "m$" -> SelectSeq(edRef, Out) \o SelectSeq(edRef, In)
         [] c = "t." -> FlattenSeq([i \in DOMAIN edRef |->
                            IF In(edRef[i]) THEN <<edRef[i], edRef[i]>> ELSE <<edRef[i]>>])
         [] c = "s"  -> FlattenSeq([i \in DOMAIN edRef |-> EdSubsted(edRef[i], <<"nl">>, TRUE)])

EdGlobal ==
    \E k \in BOOLEAN, c \in {"m0", "m$", "t.", "s"} :
        /\ edGlob = "none" /\ edLeft > 0 /\ edLeft' = edLeft - 1
        /\ c = "s" => k
        /\ EdDol(ed) > 0 /\ 2 * EdDol(ed) <= EdMaxLines
        /\ 2 * ed.t.tline <= EdMaxText * EdBlk
        /\ ed' = EdMarked(ed, k) /\ edGlob' = c /\ edGoal' = EdGoalOf(c, k)
        /\ UNCHANGED <<edFile, edRef, edHoles>>

(* The command list for the first line that still has its mark.              *)
EdGlobalStep ==
    LET marked == {i \in 1..EdDol(ed) : ed.zero[i].mark}
        a == CHOOSE i \in marked : \A j \in marked : i <= j
        e == [ed EXCEPT !.zero[a].mark = FALSE, !.dot = a]
        r == CASE edGlob = "m0" -> EdMove(e, a, a, 0)
               [] edGlob = "m$" -> EdMove(e, a, a, EdDol(e))
               [] edGlob = "t." -> EdCopy(e, a, a, a)
               [] edGlob = "s"  -> EdSubstitute(e, a, a, <<"nl">>, TRUE, TRUE)
    IN /\ edGlob # "none"
       /\ IF marked = {}
          THEN edGlob' = "none" /\ edRef' = edGoal /\ UNCHANGED ed
          ELSE /\ ed' = [r EXCEPT !.failed = FALSE]
               /\ IF r.failed
                  THEN edGlob' = "none" /\ edRef' = EdTexts(r, 1, EdDol(r)).out
                  ELSE UNCHANGED <<edGlob, edRef>>
       /\ UNCHANGED <<edFile, edGoal, edHoles, edLeft>>

(* SIGINT between two turns of the global: error() forgets the rest of it.   *)
EdInterrupt ==
    /\ edGlob # "none"
    /\ edGlob' = "none" /\ edRef' = EdTexts(ed, 1, EdDol(ed)).out
    /\ UNCHANGED <<ed, edFile, edGoal, edHoles, edLeft>>

EdNext == EdAppendCmd \/ EdChange \/ EdDelete \/ EdJoinCmd \/ EdMarkCmd \/ EdPrint \/ EdMoveCmd \/ EdCopyCmd
          \/ EdSubstituteCmd \/ EdUndo \/ EdRead \/ EdEditWarns \/ EdEdit \/ EdWrite \/ EdQuit \/ EdTear
          \/ EdGlobalDelete \/ EdGlobal \/ EdGlobalStep \/ EdInterrupt

(* ------------------------------ properties ------------------------------- *)
(* The buffer, read back through the two block buffers of the temporary      *)
(* file, is what the commands should have made of it: move by three          *)
(* reversals, copy through the end of the table, global by mark bits that    *)
(* travel with lines, substitutions that split lines.  Only an interrupt     *)
(* inside putline that had gone on to another block makes an exception.      *)
EdBufferRight ==
    edGlob = "none" /\ "torn" \notin edHoles => EdTexts(ed, 1, EdDol(ed)).out = edRef

(* dot is a line or zero, no two entries of the table are the same place of  *)
(* the temporary file, so that a name and u only find the line they mean.    *)
EdTableSound ==
    /\ ed.dot \in 0..EdDol(ed)
    /\ \A i, j \in 1..EdDol(ed) : ed.zero[i].tl = ed.zero[j].tl => i = j

(* q and e discard changes only after a warning, apart from the changes that *)
(* u makes after a write and those of a write that failed.                   *)
EdChangesFlagged ==
    edGlob = "none" /\ edHoles \cap {"undo", "write", "warned", "torn"} = {} /\ edRef # <<>> /\ edRef # edFile
    => ed.fchange

==============================================================================
