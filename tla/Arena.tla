--------------------------------- MODULE Arena --------------------------------
(* The storage allocator of the C library: malloc, free and realloc on an    *)
(* arena of words in which every block is preceded by a pointer to the next. *)
EXTENDS Integers, FiniteSets

CONSTANTS
    ArBlock,    \* words that the arena grows by (BLOCK / WORD)
    ArBreak,    \* first word that sbrk can give
    ArTop,      \* bound: no memory above this word
    ArWords,    \* sizes asked for, in words
    ArTags      \* contents: the blocks in use at a time

VARIABLES
    arMem,      \* the words: twice an address, plus one if busy, or data below 0
    arP,        \* allocp, where the search starts
    arT,        \* alloct, the last block
    arX,        \* allocx, the word that the last split overwrote
    arBrk,      \* the break
    arLive,     \* history: the blocks in use, with their size and content
    arFreed,    \* history: the block freed since the last call of malloc
    arFailed    \* history: whether malloc has returned 0

arVars == <<arMem, arP, arT, arX, arBrk, arLive, arFreed, arFailed>>

ArBusy(w) == w % 2 = 1
ArTo(w) == w \div 2
ArSet(a) == 2 * a + 1
ArAllocs == 1
ArNull == 0
ArMin(a, b) == IF a < b THEN a ELSE b

ArenaInit ==
    /\ arMem = [a \in 1..ArTop |-> 0]
    /\ arP = 0 /\ arT = 0 /\ arX = 0
    /\ arBrk = ArBreak
    /\ arLive = {}
    /\ arFreed = {}
    /\ arFailed = FALSE

RECURSIVE ArJoin(_, _)
(* Idle blocks that follow an idle one are joined to it.                     *)
ArJoin(mem, p) ==
    LET q == ArTo(mem[p]) IN IF ArBusy(mem[q]) THEN mem ELSE ArJoin([mem EXCEPT ![p] = mem[q]], p)

(* More memory: the old last block leads to it, busy when there is a gap.    *)
ArGrow(s, nw) ==
    LET n == ((nw + ArBlock) \div ArBlock) * ArBlock
        q == s.brk
        t == q + n - 1
    IN IF t > ArTop THEN [s EXCEPT !.null = TRUE]
       ELSE [s EXCEPT !.mem = [@ EXCEPT ![s.t] = IF q # s.t + 1 THEN ArSet(q) ELSE 2 * q,
                                        ![q] = 2 * t, ![t] = ArSet(ArAllocs)],
                      !.t = t, !.brk = q + n]

RECURSIVE ArSearch(_, _, _, _)
(* u is the arena with the idle blocks from p on joined.                     *)
ArNext(u, p, temp, nw) ==
    IF ~ArBusy(u.mem[p]) /\ ArTo(u.mem[p]) - p >= nw THEN [u EXCEPT !.p = p]
    ELSE IF ArTo(u.mem[p]) > p THEN ArSearch(u, ArTo(u.mem[p]), temp, nw)
    ELSE IF p # u.t \/ ArTo(u.mem[p]) # ArAllocs THEN [u EXCEPT !.null = TRUE]
    ELSE IF temp = 0 THEN ArSearch(u, ArAllocs, 1, nw) ELSE ArSearch(ArGrow(u, nw), ArAllocs, 0, nw)

(* Twice around from p, then around again in the memory that was got.        *)
ArSearch(s, p, temp, nw) ==
    IF s.null THEN s
    ELSE ArNext(IF ArBusy(s.mem[p]) THEN s ELSE [s EXCEPT !.mem = ArJoin(@, p)], p, temp, nw)

(* The block is split when it is larger; ret is what malloc returns.         *)
ArFound(f, nw) ==
    IF ArTo(f.mem[f.p]) > f.p + nw
    THEN [f EXCEPT !.x = f.mem[f.p + nw], !.mem = [@ EXCEPT ![f.p + nw] = f.mem[f.p], ![f.p] = ArSet(f.p + nw)],
                   !.p = f.p + nw, !.ret = f.p + 1]
    ELSE [f EXCEPT !.mem[f.p] = ArSet(f.p + nw), !.p = f.p + nw, !.ret = f.p + 1]

ArPlace(f, p, nw) == IF f.null THEN [f EXCEPT !.ret = ArNull, !.p = p, !.null = FALSE] ELSE ArFound(f, nw)

ArFirst(s) ==
    IF s.mem[1] # 0 THEN s
    ELSE [s EXCEPT !.mem = [@ EXCEPT ![1] = ArSet(2), ![2] = ArSet(1)], !.t = 2, !.p = 1]

ArWith(s, nw) == ArPlace(ArSearch(s, s.p, 0, nw), s.p, nw)
ArMalloc(s, nbytes) == ArWith(ArFirst(s), nbytes + 1)

ArFree(s, ap) == [s EXCEPT !.p = ap - 1, !.mem[ap - 1] = 2 * ArTo(s.mem[ap - 1])]

RECURSIVE ArCopy(_, _, _, _)
ArCopy(mem, t, p, n) == IF n = 0 THEN mem ELSE ArCopy([mem EXCEPT ![t] = mem[p]], t + 1, p + 1, n - 1)

Bug_ArMoved(f, p, onw, nw) ==
    IF f.ret \in {ArNull, p} THEN f ELSE [f EXCEPT !.mem = ArCopy(@, f.ret, p, ArMin(nw, onw))]

(* The old content is copied from the block that has been freed; where the   *)
(* new one ended inside it, the word that was overwritten is put back.       *)
ArMoved(f, p, onw, nw) ==
    IF f.ret \in {ArNull, p} THEN f
    ELSE IF f.ret < p /\ f.ret + nw >= p
    THEN [f EXCEPT !.mem = [ArCopy(@, f.ret, p, ArMin(nw, onw)) EXCEPT ![f.ret + (f.ret + nw - p)] = f.x]]
    ELSE [f EXCEPT !.mem = ArCopy(@, f.ret, p, ArMin(nw, onw))]

ArAgain(s, p, nw) == ArMoved(ArMalloc(s, nw), p, ArTo(s.mem[p - 1]) - p, nw)
ArRealloc(s, p, nw) == ArAgain(IF ArBusy(s.mem[p - 1]) THEN ArFree(s, p) ELSE s, p, nw)

(* ------------------------------- its callers ----------------------------- *)
ArState == [mem |-> arMem, p |-> arP, t |-> arT, x |-> arX, brk |-> arBrk, ret |-> 0, null |-> FALSE]
ArWord(v, i) == -(8 * v + i)

(* A caller writes all the words of the block that it got, and no others.    *)
ArWritten(mem, b) == [a \in 1..ArTop |-> IF a >= b.at /\ a < b.at + b.n THEN ArWord(b.v, a - b.at) ELSE mem[a]]

ArBecomes(s) == /\ arP' = s.p /\ arT' = s.t /\ arX' = s.x /\ arBrk' = s.brk
                /\ arFailed' = (arFailed \/ s.ret = ArNull)

CallMalloc(n, v) ==
    \E s \in {ArMalloc(ArState, n)} : LET b == [at |-> s.ret, n |-> n, v |-> v] IN
       /\ v \notin {c.v : c \in arLive}
       /\ ArBecomes(s) /\ arFreed' = {}
       /\ IF s.ret = ArNull THEN arMem' = s.mem /\ UNCHANGED arLive
          ELSE arMem' = ArWritten(s.mem, b) /\ arLive' = arLive \cup {b}

CallFree(b) ==
    \E s \in {[ArFree(ArState, b.at) EXCEPT !.ret = b.at]} :
       /\ ArBecomes(s) /\ arMem' = s.mem
       /\ arLive' = arLive \ {b} /\ arFreed' = {b}

(* Of a block in use, or of the one that was freed last.  What realloc kept  *)
(* is not written again; when it fails the block is gone.                    *)
CallRealloc(b, n) ==
    \E s \in {ArRealloc(ArState, b.at, n)} : LET c == [at |-> s.ret, n |-> n, v |-> b.v] IN
       /\ b \in arFreed => b.v \notin {d.v : d \in arLive}
       /\ ArBecomes(s) /\ arFreed' = {}
       /\ IF s.ret = ArNull THEN arMem' = s.mem /\ arLive' = arLive \ {b}
          ELSE /\ arMem' = [a \in 1..ArTop |-> IF a >= c.at + b.n /\ a < c.at + n THEN ArWord(b.v, a - c.at) ELSE s.mem[a]]
               /\ arLive' = (arLive \ {b}) \cup {c}

(* Another user of the break leaves a gap in the arena.                      *)
CallSbrk == arBrk < ArTop /\ arBrk' = arBrk + 1 /\ UNCHANGED <<arMem, arP, arT, arX, arLive, arFreed, arFailed>>

(* A program whose malloc has failed gives up.                               *)
ArenaNext ==
  /\ ~arFailed
  /\ \/ \E n \in ArWords, v \in ArTags : CallMalloc(n, v)
     \/ \E b \in arLive : CallFree(b)
     \/ \E b \in arLive \cup arFreed, n \in ArWords : CallRealloc(b, n)
     \/ CallSbrk

RECURSIVE ArChain(_)
ArChain(a) == {a} \cup (IF ArTo(arMem[a]) <= a THEN {} ELSE ArChain(ArTo(arMem[a])))

(* Every block in use has its content whole, as its caller or, across a      *)
(* realloc, the one before left it; its pointer is on the chain of blocks,   *)
(* which is in order and ends at alloct, and no other block reaches into it. *)
(* After a malloc that failed this need not hold: the search has joined the  *)
(* block that allocp points to with the one before it.                       *)
BlocksIntact ==
    arT # 0 /\ ~arFailed =>
        LET chain == ArChain(ArAllocs)
        IN /\ arT \in chain /\ ArTo(arMem[arT]) = ArAllocs /\ arP \in chain
           /\ \A b \in arLive :
                  /\ b.at - 1 \in chain /\ ArBusy(arMem[b.at - 1]) /\ b.at + b.n <= ArTo(arMem[b.at - 1])
                  /\ \A i \in 0..b.n - 1 : arMem[b.at + i] = ArWord(b.v, i)

==============================================================================
