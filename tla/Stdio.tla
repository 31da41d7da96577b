--------------------------------- MODULE Stdio --------------------------------
(* One stream of the standard I/O library: the buffer, its pointer and count *)
(* between a program that reads, writes and seeks and the file's own offset. *)
EXTENDS Integers, Sequences, SequencesExt

CONSTANTS
    StBUFSIZ,   \* bytes of a buffer (BUFSIZ)
    StTexts,    \* contents that the file may have, bytes above 0
    StBytes,    \* bytes that are written
    StMax,      \* bound: length of the file
    StOps,      \* bound: calls made
    StReuse     \* whether a stream with a static buffer is reused after reading

VARIABLES
    stFile,     \* contents of the file
    stPos,      \* offset of the descriptor
    stIo,       \* the _iobuf: ptr, cnt, base (whether there is a buffer), flag, buf
    stMode,     \* how the stream was opened, or "closed"
    stText,     \* history: what the program has made of the file
    stAt,       \* history: where the program is in it
    stTurn,     \* history: "get" or "put" since the last seek, else "any"
    stBack,     \* history: whether the last call was a getc that gave a byte
    stGot,      \* history: what the last call gave, and should have given
    stBad,      \* history: "yes" after a failed transfer, "past" once cleared
    stOps       \* history: calls made

stVars == <<stFile, stPos, stIo, stMode, stText, stAt, stTurn, stBack, stGot, stBad, stOps>>

StEOF == -1
StLeast(a, b) == IF a < b THEN a ELSE b
StReads == {"r", "r+", "w+", "a+", "in"}
StWrites == {"w", "a", "r+", "w+", "a+", "out", "tty"}
StSame == [got |-> 0, want |-> 0]

(* A byte string as it is after bytes have been put at an offset of it; what *)
(* was skipped is zero.                                                      *)
StPut(text, at, bytes) ==
    [k \in 1..(IF at + Len(bytes) > Len(text) THEN at + Len(bytes) ELSE Len(text)) |->
        IF k > at /\ k <= at + Len(bytes) THEN bytes[k - at] ELSE IF k <= Len(text) THEN text[k] ELSE 0]

StEmpty == [ptr |-> 0, cnt |-> 0, base |-> FALSE, flag |-> {}, buf |-> [k \in 0..StBUFSIZ - 1 |-> 0]]
StState == [io |-> stIo, file |-> stFile, pos |-> stPos, ret |-> 0, bad |-> FALSE]

StInit ==
    /\ stFile \in StTexts /\ stText = stFile
    /\ stPos = 0 /\ stAt = 0
    /\ stIo = StEmpty
    /\ stMode = "closed"
    /\ stTurn = "any" /\ stBack = FALSE /\ stGot = StSame /\ stBad = "no" /\ stOps = 0

StCall == stOps < StOps /\ stOps' = stOps + 1

StBecomes(s) ==
    /\ stIo' = s.io /\ stFile' = s.file /\ stPos' = s.pos
    /\ stBad' = IF s.bad THEN "yes" ELSE stBad

(* -------------------------------- system calls --------------------------- *)
(* write puts everything at the offset, or fails and puts nothing.           *)
StWrite(s, bytes, fails) ==
    IF fails /\ bytes # <<>> THEN [s EXCEPT !.bad = TRUE, !.io.flag = @ \cup {"ERR"}]
    ELSE IF bytes = <<>> THEN s
    ELSE [s EXCEPT !.file = StPut(@, s.pos, bytes), !.pos = @ + Len(bytes)]

StLseek(s, off, whence) ==
    [s EXCEPT !.pos = off + (CASE whence = 0 -> 0 [] whence = 1 -> s.pos [] whence = 2 -> Len(s.file))]

(* -------------------------------- the library ---------------------------- *)
StHeld(io) == [k \in 1..io.ptr |-> io.buf[k - 1]]

(* A stream without a buffer gets one; without memory for it the stream      *)
(* becomes unbuffered, and so does the standard output on a terminal.        *)
StBuffer(io, nomem) ==
    IF io.base THEN io
    ELSE IF stMode = "out" THEN [io EXCEPT !.base = TRUE, !.ptr = 0]
    ELSE IF stMode = "tty" \/ nomem \/ "NBF" \in io.flag THEN [io EXCEPT !.flag = @ \cup {"NBF"}]
    ELSE [io EXCEPT !.base = TRUE, !.flag = @ \cup {"MYBUF"}, !.ptr = 0]

(* _filbuf: short is how much less than it is asked for read gives.          *)
StFilbuf(s, short, fails, nomem) ==
    LET f    == IF "RW" \in s.io.flag THEN s.io.flag \cup {"READ"} ELSE s.io.flag
        io   == [StBuffer([s.io EXCEPT !.flag = f], nomem) EXCEPT !.base = TRUE, !.ptr = 0]
        asks == IF "NBF" \in io.flag THEN 1 ELSE StBUFSIZ
        left == IF s.pos >= Len(s.file) THEN 0 ELSE Len(s.file) - s.pos
        n    == IF left = 0 THEN 0 ELSE IF short THEN 1 ELSE StLeast(asks, left)
        end  == (f \cup {"EOF"}) \ (IF "RW" \in f THEN {"READ"} ELSE {})
    IN IF fails THEN [s EXCEPT !.io = [io EXCEPT !.cnt = 0, !.flag = @ \cup {"ERR"}], !.ret = StEOF, !.bad = TRUE]
       ELSE IF n = 0 THEN [s EXCEPT !.io = [io EXCEPT !.cnt = 0, !.flag = end \cup (@ \ f)], !.ret = StEOF]
       ELSE [s EXCEPT !.io = [io EXCEPT !.cnt = n - 1, !.ptr = 1,
                                        !.buf = [k \in DOMAIN @ |-> IF k < n THEN s.file[s.pos + k + 1] ELSE @[k]]],
                      !.pos = @ + n, !.ret = s.file[s.pos + 1]]

StGetc(s, short, fails, nomem) ==
    IF s.io.cnt - 1 >= 0
    THEN [s EXCEPT !.io.cnt = @ - 1, !.io.ptr = @ + 1, !.ret = s.io.buf[s.io.ptr]]
    ELSE StFilbuf(s, short, fails, nomem)

(* _flsbuf: what the buffer holds is written, and c is its first byte.       *)
StFlsbuf(s, c, fails, nomem) ==
    LET f  == IF "RW" \in s.io.flag THEN (s.io.flag \cup {"WRT"}) \ {"EOF"} ELSE s.io.flag
        io == IF "NBF" \in f THEN [s.io EXCEPT !.flag = f] ELSE StBuffer([s.io EXCEPT !.flag = f], nomem)
        u  == [s EXCEPT !.io = io]
        w  == StWrite(u, StHeld(io), fails)
    IN IF "NBF" \in io.flag THEN StWrite([u EXCEPT !.io.cnt = 0], <<c>>, fails)
       ELSE [w EXCEPT !.io.cnt = StBUFSIZ - 1, !.io.buf[0] = c, !.io.ptr = 1]

StPutc(s, c, fails, nomem) ==
    IF s.io.cnt - 1 >= 0
    THEN [s EXCEPT !.io.cnt = @ - 1, !.io.buf[s.io.ptr] = c, !.io.ptr = @ + 1]
    ELSE StFlsbuf(s, c, fails, nomem)

StFflush(s, fails) ==
    IF s.io.flag \cap {"NBF", "WRT"} = {"WRT"} /\ s.io.base /\ s.io.ptr > 0
    THEN StWrite([s EXCEPT !.io.ptr = 0, !.io.cnt = StBUFSIZ], StHeld(s.io), fails)
    ELSE s

StFclose(s, fails) ==
    LET u == StFflush(s, fails)
    IN [u EXCEPT !.io.base = @ /\ u.io.flag \cap {"MYBUF", "NBF"} = {}, !.io.flag = {}, !.io.cnt = 0]

StUngetc(s, c) ==
    LET io == IF "READ" \notin s.io.flag \/ s.io.ptr <= 0
              THEN IF s.io.ptr = 0 /\ s.io.cnt = 0 THEN [s.io EXCEPT !.ptr = 1] ELSE s.io
              ELSE s.io
    IN IF io.ptr = 0 THEN [s EXCEPT !.ret = -1]
       ELSE [s EXCEPT !.io = [io EXCEPT !.cnt = @ + 1, !.ptr = @ - 1, !.buf[io.ptr - 1] = c]]

Bug_StFseek(s0, off, whence, fails) ==
    LET s  == [s0 EXCEPT !.io.flag = @ \ {"EOF"}]
        io == s.io
        rw == "RW" \in io.flag
        w  == StFflush(s, fails)
    IN IF "READ" \in io.flag
       THEN StLseek([s EXCEPT !.io = [io EXCEPT !.cnt = 0, !.ptr = IF rw THEN 0 ELSE @,
                                                !.flag = IF rw THEN @ \ {"READ"} ELSE @]], off, whence)
       ELSE StLseek(IF rw THEN [w EXCEPT !.io.cnt = 0, !.io.flag = @ \ {"WRT"}, !.io.ptr = 0] ELSE w, off, whence)

(* Inside the buffer of a stream that is only read, the pointer is moved;    *)
(* otherwise the file is, and the buffer is empty.  A stream for both may    *)
(* then change direction.                                                    *)
StFseek(s0, off, whence, fails) ==
    LET s    == [s0 EXCEPT !.io.flag = @ \ {"EOF"}]
        io   == s.io
        rw   == "RW" \in io.flag
        near == whence < 2 /\ io.base /\ "NBF" \notin io.flag
        p    == IF whence = 0 THEN off + io.cnt - s.pos ELSE off
        to   == IF near /\ whence = 1 THEN off - io.cnt ELSE off
        w    == StFflush(s, fails)
    IN IF "READ" \in io.flag
       THEN IF near /\ ~rw /\ io.cnt > 0 /\ p <= io.cnt /\ p >= -io.ptr
            THEN [s EXCEPT !.io.ptr = @ + p, !.io.cnt = @ - p]
            ELSE StLseek([s EXCEPT !.io = [io EXCEPT !.cnt = 0, !.ptr = IF rw THEN 0 ELSE @,
                                                     !.flag = IF rw THEN @ \ {"READ"} ELSE @]], to, whence)
       ELSE StLseek(IF rw THEN [w EXCEPT !.io.cnt = 0, !.io.flag = @ \ {"WRT"}, !.io.ptr = 0] ELSE w, off, whence)

StFtell(s) ==
    s.pos + (IF "READ" \in s.io.flag THEN -s.io.cnt
             ELSE IF "WRT" \in s.io.flag /\ s.io.base /\ "NBF" \notin s.io.flag THEN s.io.ptr ELSE 0)

StRewind(s, fails) ==
    LET w == [StFflush(s, fails) EXCEPT !.pos = 0, !.io.cnt = 0, !.io.ptr = 0]
    IN [w EXCEPT !.io.flag = @ \ ({"ERR", "EOF"} \cup (IF "RW" \in @ THEN {"READ", "WRT"} ELSE {}))]

(* ------------------------------- the program ----------------------------- *)
(* fopen: the entry is set up for the descriptor; whatever buffer a static   *)
(* one has left, and its pointer, stay.  Mode a seeks to the end once.       *)
StOpen(mode) ==
    LET file == IF mode \in {"w", "w+"} THEN <<>> ELSE stFile
        flag == CASE mode \in {"r", "in"} -> {"READ"}
                  [] mode \in {"w", "a", "out", "tty"} -> {"WRT"}
                  [] OTHER -> {"RW"}
        pos  == IF mode \in {"a", "a+"} THEN Len(file) ELSE 0
    IN /\ StCall /\ stMode = "closed"
       /\ mode \in {"in", "out", "tty"} => stIo = StEmpty
       /\ StReuse \/ stIo.ptr = 0 \/ ~stIo.base \/ mode = "r"
       /\ stIo' = [stIo EXCEPT !.cnt = 0, !.flag = flag, !.base = @ \/ mode = "in"]
       /\ stFile' = file /\ stText' = file /\ stPos' = pos /\ stAt' = pos
       /\ stMode' = mode /\ stTurn' = "any" /\ stBack' = FALSE /\ stGot' = StSame /\ stBad' = "no"

CallGetc(short, fails, nomem) ==
    LET s    == StGetc(StState, short, fails, nomem)
        want == IF stAt < Len(stText) THEN stText[stAt + 1] ELSE StEOF
    IN /\ StCall /\ stMode \in StReads /\ stTurn # "put"
       /\ StBecomes(s)
       /\ stGot' = IF s.bad \/ stBad # "no" THEN StSame ELSE [got |-> s.ret, want |-> want]
       /\ stAt' = IF s.ret = StEOF THEN stAt ELSE stAt + 1
       /\ stTurn' = IF s.ret = StEOF THEN "any" ELSE "get"
       /\ stBack' = (s.ret # StEOF)
       /\ UNCHANGED <<stMode, stText>>

(* What was read last is put back.                                           *)
CallUngetc ==
    /\ StCall /\ stBack /\ stBad = "no" /\ stBack' = FALSE
    /\ StBecomes(StUngetc(StState, stText[stAt]))
    /\ stAt' = stAt - 1 /\ stGot' = StSame
    /\ UNCHANGED <<stMode, stText, stTurn>>

CallPutc(c, fails, nomem) ==
    /\ StCall /\ stMode \in StWrites /\ stTurn # "get" /\ stAt < StMax
    /\ StBecomes(StPutc(StState, c, fails, nomem))
    /\ stText' = StPut(stText, stAt, <<c>>)
    /\ stAt' = stAt + 1 /\ stTurn' = "put" /\ stBack' = FALSE /\ stGot' = StSame
    /\ UNCHANGED stMode

CallFflush(fails) ==
    LET s == StFflush(StState, fails)
    IN /\ StCall /\ stMode \in StWrites /\ stTurn = "put" /\ StBecomes(s)
       /\ stGot' = IF s.bad \/ stBad # "no" THEN StSame ELSE [got |-> s.file, want |-> stText]
       /\ stBack' = FALSE
       /\ UNCHANGED <<stMode, stText, stAt, stTurn>>

(* A relative seek on an unbuffered stream with a byte put back is left out, *)
(* and one that is relative to what could not be written.                    *)
CallFseek(to, whence, fails) ==
    LET from == CASE whence = 0 -> 0 [] whence = 1 -> stAt [] whence = 2 -> Len(stText)
    IN /\ StCall /\ stMode \notin {"closed", "tty"} /\ stBad = "no"
       /\ whence = 1 => ~("NBF" \in stIo.flag /\ stIo.cnt > 0)
       /\ fails => whence = 0
       /\ StBecomes(StFseek(StState, to - from, whence, fails))
       /\ stAt' = to /\ stTurn' = "any" /\ stBack' = FALSE /\ stGot' = StSame
       /\ UNCHANGED <<stMode, stText>>

CallFtell ==
    /\ StCall /\ stMode \notin {"closed", "tty"} /\ stBad = "no"
    /\ stGot' = [got |-> StFtell(StState), want |-> stAt] /\ stBack' = FALSE
    /\ UNCHANGED <<stFile, stPos, stIo, stMode, stText, stAt, stTurn, stBad>>

CallRewind(fails) ==
    LET s == StRewind(StState, fails)
    IN /\ StCall /\ stMode \notin {"closed", "tty"} /\ stBad = "no"
       /\ stIo' = s.io /\ stFile' = s.file /\ stPos' = s.pos
       /\ stBad' = IF s.bad THEN "past" ELSE stBad
       /\ stAt' = 0 /\ stTurn' = "any" /\ stBack' = FALSE /\ stGot' = StSame
       /\ UNCHANGED <<stMode, stText>>

(* setbuf, of a stream that has not been used: a buffer of the caller's, or  *)
(* none.                                                                     *)
CallSetbuf(buf) ==
    /\ StCall /\ stMode # "closed" /\ stTurn = "any" /\ stIo.cnt = 0 /\ stIo.ptr = 0 /\ "MYBUF" \notin stIo.flag
    /\ stIo' = [stIo EXCEPT !.base = buf, !.flag = (@ \ {"MYBUF", "NBF"}) \cup (IF buf THEN {} ELSE {"NBF"})]
    /\ stGot' = StSame /\ stBack' = FALSE
    /\ UNCHANGED <<stFile, stPos, stMode, stText, stAt, stTurn, stBad>>

(* fclose, which exit calls for every stream.                                *)
CallFclose(fails) ==
    LET s == StFclose(StState, fails)
    IN /\ stMode # "closed"
       /\ stIo' = s.io /\ stFile' = s.file /\ stPos' = 0
       /\ stGot' = IF s.bad \/ stBad # "no" THEN StSame ELSE [got |-> s.file, want |-> stText]
       /\ stBad' = "past" /\ stMode' = "closed" /\ stText' = s.file /\ stAt' = 0
       /\ stTurn' = "any" /\ stBack' = FALSE
       /\ UNCHANGED stOps

StNext ==
    \/ \E mode \in {"r", "w", "a", "r+", "w+", "a+", "in", "out", "tty"} : StOpen(mode)
    \/ \E short, nomem \in BOOLEAN, fails \in BOOLEAN : CallGetc(short, fails, nomem)
    \/ CallUngetc
    \/ \E c \in StBytes, fails \in BOOLEAN, nomem \in BOOLEAN : CallPutc(c, fails, nomem)
    \/ \E fails \in BOOLEAN : CallFflush(fails) \/ CallRewind(fails) \/ CallFclose(fails)
    \/ \E to \in 0..StMax, whence \in 0..2, fails \in BOOLEAN : CallFseek(to, whence, fails)
    \/ CallFtell
    \/ \E buf \in BOOLEAN : CallSetbuf(buf)

(* Whatever a program reads, writes, puts back and seeks, in buffers that    *)
(* end anywhere in between and with reads that give less than was asked for: *)
(* getc gives the byte that is next in the file as the program has made it,  *)
(* ftell is where it is, and after fflush and fclose the file is what was    *)
(* written.  A transfer that failed is seen in ferror until the stream is    *)
(* closed or rewound.                                                        *)
StreamsFaithful ==
    /\ stBad \in {"no", "past"} => stGot.got = stGot.want
    /\ stBad = "yes" => "ERR" \in stIo.flag

==============================================================================
