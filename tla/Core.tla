-------------------------------- MODULE Core --------------------------------
(***************************************************************************)
(* Core, swap space and shared texts: the resource map of malloc and mfree *)
(* and the pages of mapalloc and mapfree (sys/malloc.c), xswap, xalloc,    *)
(* xfree and their helpers (sys/text.c), swapin, newproc, expand and the   *)
(* choice of sched (sys/slp.c), and what exec, fork, exit and break do     *)
(* with them (sys/sys1.c).                                                 *)
(*                                                                         *)
(* A step runs from one sleep to the next.  Sleeps are for the lock of a   *)
(* text, for a transfer to or from the swap device, and for the file that  *)
(* exec reads and keeps locked.  Pages are counted, swap space has         *)
(* addresses; the unit of both is a page.                                  *)
(***************************************************************************)
EXTENDS Integers, Sequences, SequencesExt, FiniteSets, FiniteSetsExt, Functions

CONSTANTS CProcs,     \* slots of proc[] but the swapper's
          Progs,      \* executable files, each with a text of one page
          Sticky,     \* those with ISVTX
          NTEXT,
          Pages,      \* pages of core for images and texts
          Swap,       \* pages of swap space
          NPM,        \* entries in a list page of a page map
          Sizes       \* p_size of images, USIZE included

ASSUME CoreConstants ==
    /\ Sticky \subseteq Progs /\ {NTEXT, Pages, Swap, NPM} \subseteq Nat \ {0}
    /\ Sizes \subseteq Nat \ {0, 1}

USIZE == 1
Texts == 1 .. NTEXT
TextSize == 1

VARIABLES swapmap,    \* swapmap[]: the extents with m_size # 0
          npgfree,
          text,       \* text[]
          cp,         \* proc[], and what each process is doing
          sched,      \* what the swapper is doing
          cpanic,     \* "out of swap space"
          short,      \* history: swapin found fewer pages than it had checked for
          stale       \* history: exec has attached to a text of another file

coreVars == <<swapmap, npgfree, text, cp, sched, cpanic, short, stale>>

NoText == [iptr |-> "none", count |-> 0, ccount |-> 0, lock |-> FALSE, load |-> FALSE,
           writ |-> FALSE, daddr |-> 0, pages |-> 0]

(* addr: swap address when not loaded; pages: of the image, its map and    *)
(* the u-area; text: p_textp; arg, new: the file and size of exec or       *)
(* break; xp: a text that is waited for, ret: where to go on after a swap. *)
NoProc == [live |-> FALSE, size |-> 0, loaded |-> FALSE, slock |-> FALSE, addr |-> 0,
           pages |-> 0, text |-> 0, pc |-> "user", arg |-> "none", new |-> 0, xp |-> 0,
           ret |-> "none"]

-----------------------------------------------------------------------------
(* malloc.c.                                                               *)

Fits(m, n) == {i \in DOMAIN m : m[i].size >= n}

(* First fit: the address of the space and the map without it.             *)
MallocAddr(m, n) == IF Fits(m, n) = {} THEN 0 ELSE m[Min(Fits(m, n))].addr

MallocMap(m, n) ==
    LET i == Min(Fits(m, n)) IN
    IF Fits(m, n) = {} THEN m
    ELSE IF m[i].size = n THEN RemoveAt(m, i)
    ELSE [m EXCEPT ![i] = [addr |-> @.addr + n, size |-> @.size - n]]

Bug_Mfree(m, n, a) ==
    LET i == Cardinality({j \in DOMAIN m : m[j].addr <= a}) + 1
        joinsL == i > 1 /\ m[i - 1].addr + m[i - 1].size = a
    IN  IF joinsL THEN [m EXCEPT ![i - 1].size = @ + n]
        ELSE IF i <= Len(m) THEN IF a + n = m[i].addr
             THEN [m EXCEPT ![i] = [addr |-> a, size |-> n]]
             ELSE InsertAt(m, i, [addr |-> a, size |-> n])
        ELSE Append(m, [addr |-> a, size |-> n])

(* The extent goes in before entry i and is joined with its neighbours.    *)
Mfree(m, n, a) ==
    LET i == Cardinality({j \in DOMAIN m : m[j].addr <= a}) + 1
        joinsL == i > 1 /\ m[i - 1].addr + m[i - 1].size = a
        joinsR == i <= Len(m) /\ a + n = m[i].addr
    IN  CASE joinsL /\ joinsR ->
               RemoveAt([m EXCEPT ![i - 1].size = @ + n + m[i].size], i)
          [] joinsL /\ ~joinsR -> [m EXCEPT ![i - 1].size = @ + n]
          [] ~joinsL /\ joinsR -> [m EXCEPT ![i] = [addr |-> @.addr - n, size |-> @.size + n]]
          [] OTHER -> IF n = 0 THEN m ELSE InsertAt(m, i, [addr |-> a, size |-> n])

(* Pages that growing a map from n0 to n1 entries takes.                   *)
ListPages(n) == (n + NPM - 1) \div NPM
Mapneed(n0, n1) ==
    IF n1 <= n0 THEN 0
    ELSE n1 - n0 + (IF n0 = 0 THEN 1 ELSE 0) + ListPages(n1) - ListPages(n0)

ImagePages(n) == USIZE + Mapneed(0, n - USIZE)
TextPages == Mapneed(0, TextSize)

CoreInit ==
    LET s == Min(Sizes) p1 == CHOOSE p \in CProcs : TRUE IN
    /\ swapmap = <<[addr |-> 1, size |-> Swap]>>
    /\ npgfree = Pages - ImagePages(s)
    /\ text = [t \in Texts |-> NoText]
    /\ cp = [p \in CProcs |-> IF p = p1 THEN [NoProc EXCEPT !.live = TRUE, !.size = s,
                                              !.loaded = TRUE, !.pages = ImagePages(s)]
                              ELSE NoProc]
    /\ sched = [pc |-> "idle", p |-> p1]
    /\ cpanic = FALSE /\ short = FALSE /\ stale = FALSE

Swapfits(n) == Fits(swapmap, n) # {}

Roomfor(p, n, tn) == \/ n <= cp[p].size
                     \/ Mapneed(cp[p].size - USIZE, n - USIZE) + tn <= npgfree
                     \/ Swapfits(n)

(* A panic, or a process whose image or text is not its own, ends it.      *)
Over == cpanic \/ short \/ stale

(* Labels at which a process keeps the processor.                          *)
CRunning == {"xfree", "exec_expand", "xalloc", "xlock", "xexpand", "xresumed", "exit"}

(* p can run: it is loaded, and no other process has the processor.        *)
CAt(p, l) == /\ cp[p].live /\ cp[p].loaded /\ cp[p].pc = l /\ ~Over
             /\ \A q \in CProcs \ {p} : cp[q].pc \notin CRunning
             /\ sched.pc # "in_alloc"

Keep == UNCHANGED <<cpanic, short, stale>>

-----------------------------------------------------------------------------
(* Texts.  The actions below change text t, the pages and the swap map     *)
(* together with process record r of p or of the swapper.                  *)

(* xccdec, when nobody has the text locked: the last loaded user's text is *)
(* written if need be ("xwrite", with the lock) and its pages are freed.   *)
XccdecWrites(t) == t # 0 /\ text[t].ccount = 1 /\ text[t].writ

Xccdec(t) ==
    IF t = 0 THEN UNCHANGED <<text, npgfree>>
    ELSE IF text[t].ccount # 1
    THEN text' = [text EXCEPT ![t].ccount = IF @ = 0 THEN 0 ELSE @ - 1] /\ UNCHANGED npgfree
    ELSE IF text[t].writ
    THEN text' = [text EXCEPT ![t].ccount = 0, ![t].writ = FALSE, ![t].lock = TRUE]
         /\ UNCHANGED npgfree
    ELSE text' = [text EXCEPT ![t].ccount = 0, ![t].pages = 0] /\ npgfree' = npgfree + text[t].pages

(* After the write: mapfree and xunlock.                                   *)
XccdecWritten(t) == /\ text' = [text EXCEPT ![t].pages = 0, ![t].lock = FALSE]
                    /\ npgfree' = npgfree + text[t].pages

Unlocked(t) == t # 0 => ~text[t].lock

-----------------------------------------------------------------------------
(* xswap of the running process, whose image is moved out so that it can   *)
(* grow, or so that there is core for its text; on return it goes on at    *)
(* ret once it is swapped in.  First malloc and xccdec.                    *)
SelfSwap(p, ret, size) ==
    LET a == MallocAddr(swapmap, size)
        t == cp[p].text IN
    IF a = 0
    THEN /\ cpanic' = TRUE
         /\ UNCHANGED <<swapmap, npgfree, text, cp, sched, short, stale>>
    ELSE /\ swapmap' = MallocMap(swapmap, size)
         /\ Xccdec(t)
         /\ cp' = [cp EXCEPT ![p].slock = TRUE, ![p].size = size, ![p].addr = a,
                             ![p].pc = IF XccdecWrites(t) THEN "xs_text" ELSE "xs_image",
                             ![p].ret = ret]
         /\ UNCHANGED <<sched, cpanic, short, stale>>

SelfSwapText(p) ==
    /\ CAt(p, "xs_text")
    /\ XccdecWritten(cp[p].text)
    /\ cp' = [cp EXCEPT ![p].pc = "xs_image"]
    /\ UNCHANGED <<swapmap, sched>> /\ Keep

(* The image has been written: its core is free.  xexpand then unlocks the *)
(* text.                                                                   *)
SelfSwapDone(p) ==
    /\ CAt(p, "xs_image")
    /\ npgfree' = npgfree + cp[p].pages
    /\ text' = IF cp[p].ret = "xresumed_in" THEN [text EXCEPT ![cp[p].text].lock = FALSE] ELSE text
    /\ cp' = [cp EXCEPT ![p].pages = 0, ![p].loaded = FALSE, ![p].slock = FALSE,
                        ![p].pc = cp[p].ret, ![p].ret = "none"]
    /\ UNCHANGED <<swapmap, sched>> /\ Keep

-----------------------------------------------------------------------------
(* break and the growth of an image: expand(n), then on to l, or to ls     *)
(* after a swap.                                                           *)
Expand(p, n, l, ls) ==
    LET need == Mapneed(cp[p].size - USIZE, n - USIZE)
        give == Mapneed(n - USIZE, cp[p].size - USIZE) IN
    \/ /\ n <= cp[p].size
       /\ npgfree' = npgfree + give
       /\ cp' = [cp EXCEPT ![p].size = n, ![p].pages = @ - give, ![p].pc = l]
       /\ UNCHANGED <<swapmap, text, sched>> /\ Keep
    \/ /\ n > cp[p].size /\ need <= npgfree
       /\ npgfree' = npgfree - need
       /\ cp' = [cp EXCEPT ![p].size = n, ![p].pages = @ + need, ![p].pc = l]
       /\ UNCHANGED <<swapmap, text, sched>> /\ Keep
    \/ /\ n > cp[p].size /\ need > npgfree
       /\ SelfSwap(p, ls, n)

Sbreak(p, n) ==
    /\ CAt(p, "user") /\ n # cp[p].size /\ Roomfor(p, n, 0) /\ Unlocked(cp[p].text)
    /\ Expand(p, n, "user", "user")

-----------------------------------------------------------------------------
(* exec.  The file is locked from namei to the end.                        *)
CallExec(p, f, n) ==
    /\ CAt(p, "user") /\ \A q \in CProcs : cp[q].arg # f
    /\ Roomfor(p, n, TextPages)
    /\ cp' = [cp EXCEPT ![p].arg = f, ![p].new = n, ![p].ret = "exec_expand", ![p].pc = "xfree"]
    /\ UNCHANGED <<swapmap, npgfree, text, sched>> /\ Keep

(* xfree, also for exit: the last user of a text that is not sticky frees  *)
(* it; otherwise xccdec.                                                   *)
Xfree(p) ==
    LET t == cp[p].text
        last == text[t].count = 1 /\ text[t].iptr \notin Sticky IN
    /\ CAt(p, "xfree") /\ Unlocked(t)
    /\ \/ /\ t = 0
          /\ cp' = [cp EXCEPT ![p].pc = cp[p].ret, ![p].ret = "none"]
          /\ UNCHANGED <<swapmap, npgfree, text>>
       \/ /\ t # 0 /\ last
          /\ swapmap' = Mfree(swapmap, TextSize, text[t].daddr)
          /\ npgfree' = npgfree + text[t].pages
          /\ text' = [text EXCEPT ![t] = [@ EXCEPT !.iptr = "none", !.count = 0, !.pages = 0]]
          /\ cp' = [cp EXCEPT ![p].text = 0, ![p].pc = cp[p].ret, ![p].ret = "none"]
       \/ /\ t # 0 /\ ~last
          /\ LET tx == [text[t] EXCEPT !.count = @ - 1] IN
             IF XccdecWrites(t)
             THEN /\ text' = [text EXCEPT ![t] = [tx EXCEPT !.ccount = 0, !.writ = FALSE, !.lock = TRUE]]
                  /\ cp' = [cp EXCEPT ![p].text = 0, ![p].xp = t, ![p].pc = "xf_write"]
                  /\ UNCHANGED npgfree
             ELSE /\ text' = [text EXCEPT ![t] =
                        IF tx.ccount = 1 THEN [tx EXCEPT !.ccount = 0, !.pages = 0]
                        ELSE [tx EXCEPT !.ccount = IF @ = 0 THEN 0 ELSE @ - 1]]
                  /\ npgfree' = IF tx.ccount = 1 THEN npgfree + tx.pages ELSE npgfree
                  /\ cp' = [cp EXCEPT ![p].text = 0, ![p].pc = cp[p].ret, ![p].ret = "none"]
          /\ UNCHANGED swapmap
    /\ UNCHANGED sched /\ Keep

XfreeWritten(p) ==
    /\ CAt(p, "xf_write")
    /\ XccdecWritten(cp[p].xp)
    /\ cp' = [cp EXCEPT ![p].xp = 0, ![p].pc = cp[p].ret, ![p].ret = "none"]
    /\ UNCHANGED <<swapmap, sched>> /\ Keep

(* The second test of roomfor, after which there is no way back; then      *)
(* expand.                                                                 *)
ExecExpand(p) ==
    /\ CAt(p, "exec_expand")
    /\ IF Roomfor(p, cp[p].new, TextPages) THEN Expand(p, cp[p].new, "xalloc", "xalloc_in")
       ELSE /\ cp' = [cp EXCEPT ![p].arg = "none", ![p].new = 0, ![p].ret = "exit", ![p].pc = "xfree"]
            /\ UNCHANGED <<swapmap, npgfree, text, sched>> /\ Keep

(* xalloc: the text of the file, or a new one; without room in the table   *)
(* the process is killed.                                                  *)
Xalloc(p) ==
    LET f == cp[p].arg
        found == {t \in Texts : text[t].iptr = f}
        unused == {t \in Texts : text[t].iptr = "none"}
        t == Min(unused)
        a == MallocAddr(swapmap, TextSize) IN
    /\ CAt(p, "xalloc") \/ CAt(p, "xalloc_in")
    /\ \/ /\ found # {}
          /\ cp' = [cp EXCEPT ![p].xp = Min(found), ![p].pc = "xlock"]
          /\ UNCHANGED <<swapmap, text, cpanic>>
       \/ /\ found = {} /\ unused = {}
          /\ cp' = [cp EXCEPT ![p].arg = "none", ![p].new = 0, ![p].ret = "exit", ![p].pc = "xfree"]
          /\ UNCHANGED <<swapmap, text, cpanic>>
       \/ /\ found = {} /\ unused # {} /\ a = 0
          /\ cpanic' = TRUE
          /\ UNCHANGED <<swapmap, text, cp>>
       \/ /\ found = {} /\ unused # {} /\ a # 0
          /\ swapmap' = MallocMap(swapmap, TextSize)
          /\ text' = [text EXCEPT ![t] = [NoText EXCEPT !.iptr = f, !.count = 1, !.lock = TRUE,
                                            !.load = TRUE, !.daddr = a]]
          /\ cp' = [cp EXCEPT ![p].text = t, ![p].pc = "xexpand"]
          /\ UNCHANGED cpanic
    /\ UNCHANGED <<npgfree, sched, short, stale>>

XallocSleeps(p) ==
    /\ CAt(p, "xlock") /\ text[cp[p].xp].lock
    /\ cp' = [cp EXCEPT ![p].pc = "xlock_sleep"]
    /\ UNCHANGED <<swapmap, npgfree, text, sched>> /\ Keep

(* xlock returns.  Nothing says that the text is still the file's.         *)
XallocLocked(p) ==
    LET t == cp[p].xp IN
    /\ CAt(p, "xlock") \/ CAt(p, "xlock_sleep")
    /\ ~text[t].lock
    /\ stale' = (stale \/ text[t].iptr # cp[p].arg)
    /\ IF text[t].ccount = 0
       THEN /\ text' = [text EXCEPT ![t].count = @ + 1, ![t].lock = TRUE]
            /\ cp' = [cp EXCEPT ![p].text = t, ![p].xp = 0, ![p].pc = "xexpand"]
       ELSE /\ text' = [text EXCEPT ![t].count = @ + 1, ![t].ccount = @ + 1]
            /\ cp' = [cp EXCEPT ![p].text = t, ![p].xp = 0, ![p].pc = "xresumed"]
    /\ UNCHANGED <<swapmap, npgfree, sched, cpanic, short>>

(* xexpand: core for the text, and its contents; or the process moves out. *)
Xexpand(p) ==
    LET t == cp[p].text IN
    /\ CAt(p, "xexpand")
    /\ \/ /\ TextPages <= npgfree
          /\ npgfree' = npgfree - TextPages
          /\ IF text[t].load
             THEN /\ text' = [text EXCEPT ![t].pages = TextPages, ![t].ccount = @ + 1, ![t].lock = FALSE]
                  /\ cp' = [cp EXCEPT ![p].pc = "xresumed"]
             ELSE /\ text' = [text EXCEPT ![t].pages = TextPages]
                  /\ cp' = [cp EXCEPT ![p].pc = "xread"]
          /\ UNCHANGED <<swapmap, sched>> /\ Keep
       \/ /\ TextPages > npgfree
          /\ SelfSwap(p, "xresumed_in", cp[p].size)

XexpandRead(p) ==
    LET t == cp[p].text IN
    /\ CAt(p, "xread")
    /\ text' = [text EXCEPT ![t].ccount = @ + 1, ![t].lock = FALSE]
    /\ cp' = [cp EXCEPT ![p].pc = "xresumed"]
    /\ UNCHANGED <<swapmap, npgfree, sched>> /\ Keep

(* The text is in core.  A new one is read from the file, with the process *)
(* locked in core (SLOCK); then the data, and exec returns.                *)
XallocResumed(p) ==
    LET t == cp[p].text IN
    /\ CAt(p, "xresumed") \/ CAt(p, "xresumed_in")
    /\ cp' = IF text[t].load THEN [cp EXCEPT ![p].slock = TRUE, ![p].pc = "readi"]
             ELSE [cp EXCEPT ![p].arg = "none", ![p].new = 0, ![p].pc = "user"]
    /\ UNCHANGED <<swapmap, npgfree, text, sched>> /\ Keep

XallocRead(p) ==
    /\ CAt(p, "readi")
    /\ text' = [text EXCEPT ![cp[p].text].load = FALSE, ![cp[p].text].writ = TRUE]
    /\ cp' = [cp EXCEPT ![p].slock = FALSE, ![p].arg = "none", ![p].new = 0, ![p].pc = "user"]
    /\ UNCHANGED <<swapmap, npgfree, sched>> /\ Keep

-----------------------------------------------------------------------------
(* fork and newproc, into the first free slot; exit.                       *)
CFork(p, c) ==
    LET r == cp[p]
        need == ImagePages(r.size) IN
    /\ CAt(p, "user") /\ ~cp[c].live /\ Swapfits(r.size) /\ need <= npgfree
    /\ npgfree' = npgfree - need
    /\ text' = IF r.text = 0 THEN text
               ELSE [text EXCEPT ![r.text].count = @ + 1, ![r.text].ccount = @ + 1]
    /\ cp' = [cp EXCEPT ![c] = [NoProc EXCEPT !.live = TRUE, !.size = r.size, !.loaded = TRUE,
                                  !.pages = need, !.text = r.text]]
    /\ UNCHANGED <<swapmap, sched>> /\ Keep

CallExit(p) ==
    /\ CAt(p, "user") /\ \E q \in CProcs \ {p} : cp[q].live
    /\ cp' = [cp EXCEPT ![p].ret = "exit", ![p].pc = "xfree"]
    /\ UNCHANGED <<swapmap, npgfree, text, sched>> /\ Keep

CExit(p) ==
    /\ CAt(p, "exit")
    /\ npgfree' = npgfree + cp[p].pages
    /\ cp' = [cp EXCEPT ![p] = NoProc]
    /\ UNCHANGED <<swapmap, text, sched>> /\ Keep

(* xrele or xumount: an unused text of file f leaves the table (xuntext).  *)
Xuntext(f) ==
    \E t \in Texts :
    /\ text[t].iptr = f /\ ~text[t].lock /\ text[t].count = 0 /\ ~Over
    /\ sched.pc # "in_alloc" /\ \A q \in CProcs : cp[q].pc \notin CRunning
    /\ swapmap' = Mfree(swapmap, TextSize, text[t].daddr)
    /\ text' = [text EXCEPT ![t].iptr = "none"]
    /\ UNCHANGED <<npgfree, cp, sched>> /\ Keep

-----------------------------------------------------------------------------
(* sched: a process that is out is brought in if there is core for it and  *)
(* its text; otherwise another is swapped out.  Ages are not modelled.     *)
SAt(l) == sched.pc = l /\ ~Over /\ \A q \in CProcs : cp[q].pc \notin CRunning

SwapinNeed(p) == ImagePages(cp[p].size)
                 + (IF cp[p].text # 0 /\ text[cp[p].text].ccount = 0 THEN TextPages ELSE 0)

(* The text is in core for one process more.                               *)
SwapinText(t) == [text EXCEPT ![t].ccount = @ + 1, ![t].lock = FALSE]

SchedIn(p) ==
    LET t == cp[p].text IN
    /\ SAt("idle") /\ cp[p].live /\ ~cp[p].loaded
    /\ Unlocked(t) /\ SwapinNeed(p) <= npgfree
    /\ \/ /\ t # 0 /\ text[t].ccount = 0
          /\ npgfree' = npgfree - TextPages
          /\ IF text[t].load
             THEN /\ text' = [SwapinText(t) EXCEPT ![t].pages = TextPages]
                  /\ sched' = [pc |-> "in_alloc", p |-> p]
             ELSE /\ text' = [text EXCEPT ![t].pages = TextPages, ![t].lock = TRUE]
                  /\ sched' = [pc |-> "in_text", p |-> p]
       \/ /\ t # 0 /\ text[t].ccount # 0
          /\ text' = SwapinText(t)
          /\ sched' = [pc |-> "in_alloc", p |-> p]
          /\ UNCHANGED npgfree
       \/ /\ t = 0
          /\ sched' = [pc |-> "in_alloc", p |-> p]
          /\ UNCHANGED <<text, npgfree>>
    /\ UNCHANGED <<swapmap, cp>> /\ Keep

SchedInText ==
    /\ SAt("in_text")
    /\ text' = SwapinText(cp[sched.p].text)
    /\ sched' = [sched EXCEPT !.pc = "in_alloc"]
    /\ UNCHANGED <<swapmap, npgfree, cp>> /\ Keep

(* pgalloc and mapalloc, whose results are not looked at.                  *)
SchedInAlloc ==
    LET p == sched.p
        need == ImagePages(cp[p].size) IN
    /\ SAt("in_alloc")
    /\ IF need <= npgfree
       THEN /\ npgfree' = npgfree - need
            /\ cp' = [cp EXCEPT ![p].pages = need]
            /\ UNCHANGED short
       ELSE /\ npgfree' = IF npgfree > 0 THEN npgfree - 1 ELSE 0
            /\ cp' = [cp EXCEPT ![p].pages = IF npgfree > 0 THEN 1 ELSE 0]
            /\ short' = TRUE
    /\ sched' = [sched EXCEPT !.pc = "in_image"]
    /\ UNCHANGED <<swapmap, text, cpanic, stale>>

SchedInDone ==
    LET p == sched.p IN
    /\ SAt("in_image")
    /\ swapmap' = Mfree(swapmap, cp[p].size, cp[p].addr)
    /\ cp' = [cp EXCEPT ![p].addr = 0, ![p].loaded = TRUE]
    /\ sched' = [sched EXCEPT !.pc = "idle"]
    /\ UNCHANGED <<npgfree, text>> /\ Keep

(* Somebody who is not locked, nor his text, and for whom there is room    *)
(* on the swap device: xswap.                                              *)
SchedOut(p) ==
    LET t == cp[p].text
        a == MallocAddr(swapmap, cp[p].size) IN
    /\ SAt("idle") /\ cp[p].live /\ cp[p].loaded /\ ~cp[p].slock /\ Unlocked(t)
    /\ Swapfits(cp[p].size)
    /\ \E q \in CProcs : cp[q].live /\ ~cp[q].loaded /\ SwapinNeed(q) > npgfree
    /\ swapmap' = MallocMap(swapmap, cp[p].size)
    /\ Xccdec(t)
    /\ cp' = [cp EXCEPT ![p].loaded = FALSE, ![p].slock = TRUE, ![p].addr = a]
    /\ sched' = [pc |-> IF XccdecWrites(t) THEN "out_text" ELSE "out_image", p |-> p]
    /\ Keep

SchedOutText ==
    /\ SAt("out_text")
    /\ XccdecWritten(cp[sched.p].text)
    /\ sched' = [sched EXCEPT !.pc = "out_image"]
    /\ UNCHANGED <<swapmap, cp>> /\ Keep

SchedOutDone ==
    LET p == sched.p IN
    /\ SAt("out_image")
    /\ npgfree' = npgfree + cp[p].pages
    /\ cp' = [cp EXCEPT ![p].pages = 0, ![p].slock = FALSE]
    /\ sched' = [sched EXCEPT !.pc = "idle"]
    /\ UNCHANGED <<swapmap, text>> /\ Keep

CoreNext ==
    \/ \E p \in CProcs :
         \/ SelfSwapText(p) \/ SelfSwapDone(p) \/ Xfree(p) \/ XfreeWritten(p)
         \/ ExecExpand(p) \/ Xalloc(p) \/ XallocSleeps(p) \/ XallocLocked(p) \/ Xexpand(p) \/ XexpandRead(p)
         \/ XallocResumed(p) \/ XallocRead(p) \/ CallExit(p) \/ CExit(p)
         \/ SchedIn(p) \/ SchedOut(p)
         \/ \E n \in Sizes : Sbreak(p, n) \/ \E f \in Progs : CallExec(p, f, n)
         \/ \E c \in CProcs : CFork(p, c)
    \/ \E f \in Progs : Xuntext(f)
    \/ SchedInText \/ SchedInAlloc \/ SchedInDone \/ SchedOutText \/ SchedOutDone

CoreSpec == CoreInit /\ [][CoreNext]_coreVars

-----------------------------------------------------------------------------
(* Properties.                                                             *)

Live == {p \in CProcs : cp[p].live}
Span(a, n) == a .. a + n - 1

(* The claims on swap space: extents of the map, images that are out or on *)
(* their way, and texts in the table.                                      *)
SwapClaims ==
    {<<"free", i, Span(swapmap[i].addr, swapmap[i].size)>> : i \in DOMAIN swapmap}
    \cup {<<"image", p, Span(cp[p].addr, cp[p].size)>> : p \in {q \in Live : cp[q].addr # 0}}
    \cup {<<"text", t, Span(text[t].daddr, TextSize)>> : t \in {u \in Texts : text[u].iptr # "none"}}

PagesConserved ==
    npgfree + FoldFunction(+, 0, [p \in CProcs |-> cp[p].pages])
            + FoldFunction(+, 0, [t \in Texts |-> text[t].pages]) = Pages

SwapConserved ==
    /\ UNION {c[3] : c \in SwapClaims} = 1 .. Swap
    /\ \A c, d \in SwapClaims : c # d => c[3] \cap d[3] = {}

(* x_count and x_ccount are the processes that use a text and those of     *)
(* them in core, so that nobody in user mode is without his text; and who  *)
(* runs never finds his own text locked.                                   *)
Users(t) == {p \in Live : cp[p].text = t}
InCore(t) == {p \in Users(t) : \/ cp[p].loaded /\ cp[p].pc \notin {"xexpand", "xread", "xs_text", "xs_image"}
                               \/ sched.p = p /\ sched.pc \in {"in_alloc", "in_image"}}
TextsCounted ==
    /\ \A p \in Live : cp[p].pc = "xfree" => Unlocked(cp[p].text)
    /\ \A t \in {u \in Texts : text[u].iptr # "none"} :
         /\ text[t].count = Cardinality(Users(t))
         /\ ~text[t].lock => /\ text[t].ccount = Cardinality(InCore(t))
                             /\ text[t].ccount > 0 <=> text[t].pages > 0

(* Pages of core and of swap space are neither lost nor given out twice,   *)
(* the map has no two extents that touch, and the counts of a text are     *)
(* those of its users, whatever the order in which images and texts come,  *)
(* grow, move out and go.                                                  *)
CoreConserved ==
    ~Over =>
       /\ PagesConserved /\ SwapConserved /\ TextsCounted
       /\ \A i \in 1 .. Len(swapmap) - 1 :
             swapmap[i].addr + swapmap[i].size < swapmap[i + 1].addr

(* "Allocate all the core it and its text need first, then read them"      *)
(* (slp.c:338).                                                            *)
SwapinHasCore == ~short

(* "Attach to a shared text segment" (text.c:78): the text that exec gets  *)
(* is that of its file.                                                    *)
TextIsTheFiles == ~stale
=============================================================================
