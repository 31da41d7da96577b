-------------------------------- MODULE Tty --------------------------------
(***************************************************************************)
(* The console: character lists (sys/prim.c), the line discipline          *)
(* (dev/tty.c) and its driver (dev/pl011.c), with processes that read,     *)
(* write and set modes in the top half and the interrupts of the receiver  *)
(* and the transmitter in the bottom half.                                 *)
(*                                                                         *)
(* Interrupts come between any two steps of the top half where the code    *)
(* has them enabled: in canon after each getc, and between the load and    *)
(* the store of t_delct--.  The flags are klopen's (ECHO, no TANDEM, LCASE *)
(* or delays); ioctl changes between cooked and CBREAK.                    *)
(***************************************************************************)
EXTENDS Integers, Sequences, SequencesExt, FiniteSets

CONSTANTS Readers, Writers,
          Classes,    \* of characters that are typed
          Typed,      \* bound on characters typed
          Written,    \* bound on characters written
          NCLIST, CBSIZE, TTYHOG, TTHIWAT, TTLOWAT, TTHOLDQ, CANBSIZ,
          TXFIFO      \* characters the transmitter takes before TXFF

ASSUME TtyConstants ==
    /\ {NCLIST, CBSIZE, TTYHOG, TTHIWAT, TTLOWAT, TTHOLDQ, CANBSIZ, TXFIFO} \subseteq Nat \ {0}
    /\ Typed \in Nat /\ Written \in Nat /\ CANBSIZ > 2

VARIABLES tp,         \* struct tty, the lists it uses and the device's registers
          top,        \* what each process is doing in the top half
          typed,      \* characters typed so far; the n-th carries the number n
          given       \* characters given to readers

ttyVars == <<tp, top, typed, given>>

Queues == {"raw", "can", "out", "hold"}
Delim == "delim"      \* 0377 in the raw queue
Empty == [cs |-> << >>, off |-> 0]

(* rx: the receiver's FIFO, masked: receive interrupts are off; tx: what   *)
(* the transmitter holds; onraw, onout: processes asleep on t_rawq, t_outq.*)
TtyInit ==
    /\ tp = [q |-> [n \in Queues |-> Empty], free |-> NCLIST, delct |-> 0, stop |-> FALSE,
             asleep |-> FALSE, cbreak |-> FALSE, rx |-> << >>, masked |-> FALSE, tx |-> 0,
             onraw |-> {}, onout |-> {}]
    /\ top = [p \in Readers \cup Writers |-> [pc |-> "user", buf |-> << >>, reg |-> 0]]
    /\ typed = 0
    /\ given = << >>

-----------------------------------------------------------------------------
(* prim.c: a list has its first character off places into a block.         *)

cc(t, n) == Len(t.q[n].cs)
BlocksOf(l) == IF l.cs = << >> THEN 0 ELSE (l.off + Len(l.cs) + CBSIZE - 1) \div CBSIZE

(* A block is needed for the first character and at each block's end.      *)
NeedsBlock(l) == l.cs = << >> \/ (l.off + Len(l.cs)) % CBSIZE = 0
PutFails(t, n) == NeedsBlock(t.q[n]) /\ t.free = 0

Put(t, n, c) ==
    IF PutFails(t, n) THEN t
    ELSE [t EXCEPT !.q[n].cs = Append(@, c), !.free = IF NeedsBlock(t.q[n]) THEN @ - 1 ELSE @]

(* getc gives a block back when it is used up or the list becomes empty.   *)
Bug_GiveBack(t, n) == cc(t, n) = 1      \* mutant: only the last block is freed
GiveBack(t, n) == cc(t, n) = 1 \/ (t.q[n].off + 1) % CBSIZE = 0

Get(t, n) ==
    LET l == t.q[n]
    IN  [t EXCEPT !.q[n] = IF Len(l.cs) = 1 THEN Empty
                           ELSE [cs |-> Tail(l.cs), off |-> (l.off + 1) % CBSIZE],
                  !.free = IF GiveBack(t, n) THEN @ + 1 ELSE @]

GetAll(t, n) == FoldLeft(LAMBDA u, c : Get(u, n), t, t.q[n].cs)
PutAll(t, n, s) == FoldLeft(LAMBDA u, c : Put(u, n, c), t, s)

-----------------------------------------------------------------------------
(* The bottom half of tty.c and pl011.c.                                   *)

(* klstart fills the transmitter; ttstart does so unless output is stopped.*)
Klstart(t) ==
    LET n == IF cc(t, "out") <= TXFIFO - t.tx THEN cc(t, "out") ELSE TXFIFO - t.tx
    IN  FoldLeft(LAMBDA u, i : [Get(u, "out") EXCEPT !.tx = @ + 1], t, [i \in 1 .. n |-> i])

Ttstart(t) == IF t.stop THEN t ELSE Klstart(t)

(* flushtty: all lists are emptied, sleepers woken, output unstopped.      *)
Flushtty(t) ==
    [GetAll(GetAll(GetAll(GetAll(t, "can"), "out"), "raw"), "hold")
        EXCEPT !.stop = FALSE, !.delct = 0, !.onraw = {}, !.onout = {}]

(* ttyoutput of a character without delay, EOT is not sent.                *)
Ttyoutput(t, c) == IF c = "eof" THEN t ELSE Put(t, "out", <<"x", 0>>)

(* The end of a line is marked with a delimiter when there is a block for  *)
(* it; the reader is woken even when there is not.                         *)
Ends(t, c) == t.cbreak \/ c[1] \in {"nl", "eof"}
Delimited(t, c) ==
    IF t.cbreak THEN t
    ELSE IF PutFails(t, "raw") THEN t
    ELSE [Put(t, "raw", <<Delim, c[2]>>) EXCEPT !.delct = @ + 1]

Echo(t, c) ==
    Ttstart(IF c[1] = "kill" /\ ~t.cbreak THEN Ttyoutput(Ttyoutput(t, c[1]), "nl")
            ELSE Ttyoutput(t, c[1]))

(* ttyinput; the signal that follows a flush is Proc's TtySignal.          *)
Ttyinput(t, c) ==
    IF c[1] = "start" THEN (IF t.stop THEN Ttstart([t EXCEPT !.stop = FALSE]) ELSE t)
    ELSE IF c[1] = "stop" THEN [t EXCEPT !.stop = TRUE]
    ELSE IF c[1] = "intr" \/ cc(t, "raw") > TTYHOG THEN Flushtty(t)
    ELSE LET u == Put(t, "raw", c)
         IN  Echo(IF Ends(t, c) THEN [Delimited(u, c) EXCEPT !.onraw = {}] ELSE u, c)

(* TTHOLD and ttyhold: what would not fit waits on t_holdq.                *)
TTHOLD(t) == cc(t, "raw") >= TTYHOG /\ (t.delct # 0 \/ t.cbreak)
Acts(c) == c[1] \in {"intr", "stop", "start"}

Bug_MustHold(t) == TTHOLD(t)      \* mutant: a new character overtakes the held ones
MustHold(t) == cc(t, "hold") # 0 \/ TTHOLD(t)

Ttyhold(t, c) ==
    LET u == IF t.stop /\ c[1] \notin {"stop", "start"} THEN Ttstart([t EXCEPT !.stop = FALSE])
             ELSE t
    IN  IF Acts(c) THEN Ttyinput(u, c)
        ELSE IF MustHold(u) THEN Put(u, "hold", c)
        ELSE Ttyinput(u, c)

Ttyunhold(t) ==
    FoldLeft(LAMBDA u, c : IF TTHOLD(u) \/ cc(u, "hold") = 0 THEN u ELSE Ttyinput(Get(u, "hold"), c),
             t, t.q["hold"].cs)

(* A key is pressed; the FIFO of the receiver has room.                    *)
Type(cl) ==
    /\ typed < Typed
    /\ typed' = typed + 1
    /\ tp' = [tp EXCEPT !.rx = Append(@, <<cl, typed + 1>>)]
    /\ UNCHANGED <<top, given>>

(* klrint takes a character, or masks its interrupts when t_holdq is full. *)
Klrint ==
    /\ tp.rx # << >> /\ ~tp.masked
    /\ tp' = IF cc(tp, "hold") >= TTHOLDQ THEN [tp EXCEPT !.masked = TRUE]
             ELSE Ttyhold([tp EXCEPT !.rx = Tail(@)], Head(tp.rx))
    /\ UNCHANGED <<top, typed, given>>

(* klxint: characters have been sent.                                      *)
Klxint ==
    /\ tp.tx > 0
    /\ \E sent \in 1 .. tp.tx :
          LET t == Ttstart([tp EXCEPT !.tx = @ - sent])
          IN  tp' = IF t.asleep /\ cc(t, "out") <= TTLOWAT THEN [t EXCEPT !.onout = {}] ELSE t
    /\ UNCHANGED <<top, typed, given>>

-----------------------------------------------------------------------------
(* Reading: klread and ttread, with canon.                                 *)

(* A process keeps the processor from these points on until it sleeps or   *)
(* returns; only interrupts come between.                                  *)
Running == {"read", "loop", "load", "store", "copy", "give", "writing"}
At(p, pc) == /\ top[p].pc = pc /\ p \notin tp.onraw \cup tp.onout
             /\ \A o \in DOMAIN top \ {p} : top[o].pc \notin Running
Goto(p, pc) == [top EXCEPT ![p].pc = pc]

Klread(r) ==
    /\ At(r, "user")
    /\ tp' = [Ttyunhold(tp) EXCEPT !.masked = FALSE]
    /\ top' = Goto(r, IF cc(tp', "can") # 0 THEN "give" ELSE "read")
    /\ UNCHANGED <<typed, given>>

Nothing(t) == IF t.cbreak THEN cc(t, "raw") = 0 ELSE t.delct = 0

CanonWaits(r) ==
    /\ At(r, "read") \/ At(r, "canon")
    /\ Nothing(tp)
    /\ tp' = [tp EXCEPT !.onraw = @ \cup {r}]
    /\ top' = Goto(r, "canon")
    /\ UNCHANGED <<typed, given>>

CanonStarts(r) ==
    /\ At(r, "read") \/ At(r, "canon")
    /\ ~Nothing(tp)
    /\ top' = [top EXCEPT ![r].pc = "loop", ![r].buf = << >>]
    /\ UNCHANGED <<tp, typed, given>>

(* One turn of canon's loop on the line so far.                            *)
Escaped(b) == b # << >> /\ Last(b)[1] = "bs"
Edit(b, c) ==
    IF tp.cbreak THEN Append(b, c)
    ELSE IF Escaped(b) /\ c[1] \in {"erase", "kill"} THEN Append(Front(b), <<"a", c[2]>>)
    ELSE CASE c[1] = "erase" -> IF b = << >> THEN b ELSE Front(b)
           [] c[1] = "kill" -> << >>
           [] c[1] = "eof" /\ ~Escaped(b) -> b
           [] OTHER -> Append(b, c)

CanonGets(r) ==
    /\ At(r, "loop")
    /\ IF cc(tp, "raw") = 0 THEN top' = Goto(r, "copy") /\ UNCHANGED tp
       ELSE LET c == Head(tp.q["raw"].cs)
                b == Edit(top[r].buf, c)
            IN  /\ tp' = Get(tp, "raw")
                /\ top' = IF c[1] = Delim /\ ~tp.cbreak THEN Goto(r, "load")
                          ELSE [top EXCEPT ![r].buf = b,
                                           ![r].pc = IF Len(b) + 2 >= CANBSIZ THEN "copy" ELSE "loop"]
    /\ UNCHANGED <<typed, given>>

(* t_delct--, with an interrupt between load and store or not; a char.     *)
Delct(d) == (d + 256) % 256

CanonLoads(r) ==
    /\ At(r, "load")
    /\ top' = [top EXCEPT ![r].pc = "store", ![r].reg = tp.delct]
    /\ UNCHANGED <<tp, typed, given>>

CanonStores(r) ==
    /\ At(r, "store")
    /\ top' = Goto(r, "copy")
    /\ tp' = [tp EXCEPT !.delct = Delct(top[r].reg - 1)]
    /\ UNCHANGED <<typed, given>>

(* The line goes to the canonical queue; an empty one is an end of file.   *)
CanonCopies(r) ==
    /\ At(r, "copy")
    /\ tp' = PutAll(tp, "can", top[r].buf)
    /\ top' = [top EXCEPT ![r].pc = IF top[r].buf = << >> THEN "user" ELSE "give", ![r].buf = << >>]
    /\ UNCHANGED <<typed, given>>

(* passc of one character; the caller may have asked for no more.          *)
Gives(r) ==
    /\ At(r, "give")
    /\ IF cc(tp, "can") = 0 THEN top' = Goto(r, "user") /\ UNCHANGED <<tp, given>>
       ELSE /\ tp' = Get(tp, "can")
            /\ given' = Append(given, Head(tp.q["can"].cs))
            /\ \E pc \in {"give", "user"} : top' = Goto(r, pc)
    /\ UNCHANGED typed

-----------------------------------------------------------------------------
(* Writing: ttwrite of a character at a time, and ioctl with wflushtty.    *)

Ttwrite(w) ==
    /\ At(w, "user") \/ At(w, "write") \/ At(w, "writing")
    /\ top[w].reg < Written
    /\ IF cc(tp, "out") > TTHIWAT
       THEN /\ tp' = [Ttstart(tp) EXCEPT !.asleep = TRUE, !.onout = @ \cup {w}]
            /\ top' = Goto(w, "write")
       ELSE /\ \E more \in BOOLEAN :
                  /\ tp' = IF more THEN Ttyoutput(tp, "a") ELSE Ttstart(Ttyoutput(tp, "a"))
                  /\ top' = [top EXCEPT ![w].pc = IF more THEN "writing" ELSE "user", ![w].reg = @ + 1]
    /\ UNCHANGED <<typed, given>>

TtwriteEnds(w) ==
    /\ At(w, "writing") /\ top[w].reg = Written
    /\ tp' = Ttstart(tp) /\ top' = Goto(w, "user")
    /\ UNCHANGED <<typed, given>>

(* TIOCSETP: wait for the output, flush, change the mode.                  *)
TiocSetp(w) ==
    /\ At(w, "user") \/ At(w, "wflush")
    /\ IF cc(tp, "out") # 0
       THEN /\ tp' = [Klstart(tp) EXCEPT !.asleep = TRUE, !.onout = @ \cup {w}]
            /\ top' = Goto(w, "wflush")
       ELSE /\ tp' = [Flushtty(tp) EXCEPT !.cbreak = ~@]
            /\ top' = Goto(w, "user")
    /\ UNCHANGED <<typed, given>>

TtyNext ==
    \/ \E cl \in Classes : Type(cl)
    \/ Klrint \/ Klxint
    \/ \E r \in Readers : \/ Klread(r) \/ CanonWaits(r) \/ CanonStarts(r) \/ CanonGets(r)
                          \/ CanonLoads(r) \/ CanonStores(r) \/ CanonCopies(r) \/ Gives(r)
    \/ \E w \in Writers : Ttwrite(w) \/ TtwriteEnds(w) \/ TiocSetp(w)

TtySpec == TtyInit /\ [][TtyNext]_ttyVars

-----------------------------------------------------------------------------
(* Every block is free or on one list (prim.c), and a process asleep for   *)
(* output is woken: output is stopped, or the transmitter has something    *)
(* and will interrupt.                                                     *)
OutputGoesOn ==
    /\ tp.free + BlocksOf(tp.q["raw"]) + BlocksOf(tp.q["can"]) + BlocksOf(tp.q["out"])
           + BlocksOf(tp.q["hold"]) = NCLIST
    /\ tp.onout # {} => (tp.stop \/ tp.tx > 0)

Ordered(s) == \A i, j \in DOMAIN s : i < j => s[i][2] <= s[j][2]

(* What was typed reaches the readers in the order in which it was typed,  *)
(* through the FIFO, t_holdq, the raw queue, canonb and the canonical      *)
(* queue, whatever is lost when there are no blocks or at a flush; and a   *)
(* reader does not sleep while input is held back (tty.c, ttyhold).        *)
InputInOrder ==
    /\ \A r \in Readers :
          Ordered(given \o tp.q["can"].cs \o top[r].buf \o tp.q["raw"].cs \o tp.q["hold"].cs \o tp.rx)
    /\ tp.onraw # {} => tp.q["hold"].cs = << >>

(* t_delct is the "number of delimiters in raw q" (h/tty.h:58) whenever    *)
(* canon is not about to decrement it.                                     *)
DelctExact ==
    (\A r \in Readers : top[r].pc \notin {"load", "store"})
        => tp.delct = Len(SelectSeq(tp.q["raw"].cs, LAMBDA c : c[1] = Delim))
=============================================================================
