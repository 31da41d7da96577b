--------------------------------- MODULE Init ---------------------------------
(* Process 1: single-user shell, /etc/rc, then a getty on every line that    *)
(* /etc/ttys enables, each replaced when it dies.  SIGHUP takes it back to   *)
(* single-user operation, SIGINT makes it read the file again.               *)
EXTENDS Integers, Sequences, SequencesExt, FiniteSets

CONSTANTS
    InTABSIZ,   \* entries of itab (TABSIZ)
    InPids,     \* process numbers there are
    InFiles,    \* contents of /etc/ttys: [there, lines], lines of [flag, line]
    InEvents    \* bound: signals, alarms, orphans, edits and failing forks

VARIABLES
    inTtys,     \* /etc/ttys as it is now
    inTab,      \* itab: line and pid of every entry
    inPc,       \* where main is
    inWait,     \* the process that single or runcom waits for
    inProc,     \* the processes of init: what they are, and their state
    inUtmp,     \* lines of /etc/utmp with a user's name
    inEvents,   \* how many of those there have been
    inRead      \* history: the lines merge last found enabled, since the shutdown

initVars == <<inTtys, inTab, inPc, inWait, inProc, inUtmp, inEvents, inRead>>

InEvent == inEvents < InEvents /\ inEvents' = inEvents + 1

InSlots == 1..InTABSIZ
InEmpty == [line |-> "", pid |-> 0]
InNoProc == [is |-> "none", st |-> "none"]
InChildren(procs) == {p \in InPids : procs[p].st # "none"}
InZombies(procs) == {p \in InPids : procs[p].st = "zombie"}

InitInit ==
    /\ inTtys \in InFiles
    /\ inTab = [s \in InSlots |-> InEmpty]
    /\ inPc = "shutdown"
    /\ inWait = 0
    /\ inProc = [p \in InPids |-> InNoProc]
    /\ inUtmp = {}
    /\ inEvents = 0
    /\ inRead = {}

(* What merge, term, dfork and rmut change: the table, the processes, the    *)
(* file of users and the count of events.  fails holds the entries            *)
(* whose fork will fail; no number left is a failure too.                    *)
InState == [tab |-> inTab, proc |-> inProc, utmp |-> inUtmp, bad |-> inEvents]

InRmut(S, s) == [S EXCEPT !.utmp = @ \ {S.tab[s].line}]

InKilled(procs, P) == [p \in InPids |-> IF p \in P /\ procs[p].st = "run" THEN [procs[p] EXCEPT !.st = "dying"] ELSE procs[p]]

(* kill(-1) goes to every process.                                           *)
InKill(S, pid) ==
    [S EXCEPT !.proc = InKilled(@, IF pid = -1 THEN InPids ELSE {pid} \cap InPids)]

InTerm(S, s) ==
    LET T == IF S.tab[s].pid # 0 THEN InKill(InRmut(S, s), S.tab[s].pid) ELSE S
    IN [T EXCEPT !.tab[s] = InEmpty]

InFree(procs) == {p \in InPids : procs[p].st = "none"}
InNewPid(procs) == CHOOSE p \in InFree(procs) : \A q \in InFree(procs) : p <= q
InForked(procs, what) == [procs EXCEPT ![InNewPid(procs)] = [is |-> what, st |-> "run"]]

InDfork(S, s, fails) ==
    IF s \in fails \/ InFree(S.proc) = {}
    THEN [S EXCEPT !.tab[s].pid = -1, !.bad = @ + (IF s \in fails THEN 1 ELSE 0)]
    ELSE [S EXCEPT !.tab[s].pid = InNewPid(S.proc), !.proc = InForked(@, S.tab[s].line)]

Bug_InMergeLine(M, l) ==
    LET f == {s \in InSlots : M.tab[s].line \in {"", l.line}}
        p == CHOOSE s \in f : \A t \in f : s <= t
    IN IF l.flag = "0" \/ f = {} THEN M
       ELSE IF p < M.q THEN M
       ELSE [M EXCEPT !.tab = [@ EXCEPT ![p].line = M.tab[M.q].line, ![M.q].line = l.line], !.q = @ + 1]

(* One line of the file: its entry, or an empty one, changes places with the *)
(* first that has not been matched.  A line that occurs again is ignored.    *)
InMergeLine(M, l) ==
    LET f == {s \in InSlots : M.tab[s].line \in {"", l.line}}
        p == CHOOSE s \in f : \A t \in f : s <= t
    IN IF l.flag = "0" \/ f = {} THEN M
       ELSE IF p < M.q THEN M
       ELSE [M EXCEPT !.tab = [@ EXCEPT ![p] = M.tab[M.q], ![M.q] = [line |-> l.line, pid |-> M.tab[p].pid]],
                      !.q = @ + 1]

(* rline calls a line disabled when its terminal cannot be opened.           *)
InEnabled(file) == {l.line : l \in {m \in Range(file.lines) : m.flag # "0"}}

InIota == [s \in InSlots |-> s]
InMerge(S, fails) ==
    LET U == [S EXCEPT !.utmp = {}]
        M == FoldLeft(InMergeLine, [tab |-> S.tab, q |-> 1], inTtys.lines)
        T == FoldLeft(LAMBDA V, s : IF s >= M.q THEN InTerm(V, s) ELSE V, [U EXCEPT !.tab = M.tab], InIota)
    IN IF ~inTtys.there THEN U
       ELSE FoldLeft(LAMBDA V, s : IF V.tab[s].line # "" /\ V.tab[s].pid = 0 THEN InDfork(V, s, fails) ELSE V,
                     T, InIota)

InBecomes(S) ==
    /\ S.bad <= InEvents
    /\ inTab' = S.tab /\ inProc' = S.proc /\ inUtmp' = S.utmp /\ inEvents' = S.bad

(* --------------------------------- main ---------------------------------- *)
(* Every entry is ended, and every process killed.                           *)
InShutdown ==
    LET S == FoldLeft(InTerm, InState, InIota)
    IN /\ inPc = "shutdown"
       /\ InBecomes(InKill(S, -1))
       /\ inPc' = "killing"
       /\ inWait' = 0 /\ inRead' = {} /\ UNCHANGED inTtys

(* wait in shutdown: any child will do, and none at all ends the wait.       *)
InReapAll ==
    /\ inPc = "killing"
    /\ \/ \E p \in InZombies(inProc) : inProc' = [inProc EXCEPT ![p] = InNoProc] /\ inPc' = inPc
       \/ InChildren(inProc) = {} /\ inPc' = "watchdog" /\ UNCHANGED inProc
    /\ UNCHANGED <<inTtys, inTab, inWait, inUtmp, inEvents, inRead>>

(* The alarm, when something does not die: it starts again.                  *)
InAlarm ==
    /\ InEvent /\ inPc = "killing" /\ InChildren(inProc) # {}
    /\ inPc' = "shutdown"
    /\ UNCHANGED <<inTtys, inTab, inWait, inProc, inUtmp, inRead>>

InWatchdog ==
    /\ inPc = "watchdog"
    /\ \/ inProc' = InForked(inProc, "wdog") /\ UNCHANGED inEvents
       \/ InEvent /\ UNCHANGED inProc
    /\ inPc' = "single"
    /\ UNCHANGED <<inTtys, inTab, inWait, inUtmp, inRead>>

(* single and runcom fork, and wait for that child alone; a fork that failed *)
(* waits until there is no child at all.                                     *)
InStage(pc, what, next) ==
    /\ inPc = pc
    /\ \/ inProc' = InForked(inProc, what) /\ inWait' = InNewPid(inProc) /\ UNCHANGED inEvents
       \/ InEvent /\ inWait' = -1 /\ UNCHANGED inProc
    /\ inPc' = next
    /\ UNCHANGED <<inTtys, inTab, inUtmp, inRead>>

InStageWait(pc, next) ==
    /\ inPc = pc
    /\ \/ \E p \in InZombies(inProc) :
              /\ inProc' = [inProc EXCEPT ![p] = InNoProc]
              /\ IF p = inWait THEN inPc' = next /\ inWait' = 0 ELSE UNCHANGED <<inPc, inWait>>
       \/ InChildren(inProc) = {} /\ inWait = -1 /\ inPc' = next /\ inWait' = 0 /\ UNCHANGED inProc
    /\ UNCHANGED <<inTtys, inTab, inUtmp, inEvents, inRead>>

InRunMerge(S, fails) ==
    /\ InBecomes(InMerge(S, fails))
    /\ inRead' = IF inTtys.there THEN InEnabled(inTtys) ELSE inRead

InFirstMerge ==
    /\ inPc = "merge"
    /\ \E fails \in SUBSET InSlots : InRunMerge(InState, fails)
    /\ inPc' = "multiple"
    /\ UNCHANGED <<inTtys, inWait>>

(* The entry of the dead process, and every one whose fork failed before.    *)
InRespawn(pid, fails) ==
    FoldLeft(LAMBDA S, s : IF S.tab[s].pid \in {pid, -1} THEN InDfork(InRmut(S, s), s, fails) ELSE S,
             [InState EXCEPT !.proc[pid] = InNoProc], InIota)

(* multiple calls wait: a zombie comes back at once, and so does -1 when     *)
(* there are no children; otherwise init sleeps.                             *)
InMultiple ==
    /\ inPc \in {"multiple", "waiting"}
    /\ \/ /\ \E p \in InZombies(inProc), fails \in SUBSET InSlots : InBecomes(InRespawn(p, fails))
          /\ inPc' = "multiple"
       \/ /\ InChildren(inProc) = {}
          /\ inPc' = "shutdown"
          /\ UNCHANGED <<inTab, inProc, inUtmp, inEvents>>
       \/ /\ inPc = "multiple" /\ InChildren(inProc) # {} /\ InZombies(inProc) = {}
          /\ inPc' = "waiting"
          /\ UNCHANGED <<inTab, inProc, inUtmp, inEvents>>
    /\ UNCHANGED <<inTtys, inWait, inRead>>

(* The interrupt: merge runs as its handler.  A wait that was asleep then    *)
(* returns -1 with EINTR, and multiple returns.                              *)
InInterrupt ==
    /\ inPc \in {"multiple", "waiting"}
    /\ \E fails \in SUBSET InSlots : InRunMerge([InState EXCEPT !.bad = @ + 1], fails)
    /\ inPc' = IF inPc = "waiting" THEN "shutdown" ELSE inPc
    /\ UNCHANGED <<inTtys, inWait>>

(* The hangup: reset jumps back to the head of main.                         *)
InHangup ==
    /\ InEvent /\ inPc # "shutdown"
    /\ inPc' = "shutdown"
    /\ UNCHANGED <<inTtys, inTab, inWait, inProc, inUtmp, inRead>>

(* ---------------------------- the rest of the system --------------------- *)
(* A process ends by itself, or dies of the signal sooner or later; a user   *)
(* logs in; an orphan is handed to init; somebody edits /etc/ttys.           *)
InExits(p) ==
    /\ inProc[p].st \in {"run", "dying"}
    /\ inProc' = [inProc EXCEPT ![p].st = "zombie"]
    /\ UNCHANGED <<inTtys, inTab, inPc, inWait, inUtmp, inEvents, inRead>>

InLines == UNION {InEnabled(f) : f \in InFiles}

InLogin(p) ==
    /\ inProc[p].st = "run" /\ inProc[p].is \in InLines
    /\ inUtmp' = inUtmp \cup {inProc[p].is}
    /\ UNCHANGED <<inTtys, inTab, inPc, inWait, inProc, inEvents, inRead>>

InOrphan ==
    /\ InEvent /\ inPc \in {"multiple", "waiting"} /\ Cardinality(InFree(inProc)) > 1
    /\ \A p \in InPids : inProc[p].is # "orphan"
    /\ inProc' = InForked(inProc, "orphan")
    /\ UNCHANGED <<inTtys, inTab, inPc, inWait, inUtmp, inRead>>

InEdit ==
    /\ InEvent /\ inTtys' \in InFiles \ {inTtys}
    /\ UNCHANGED <<inTab, inPc, inWait, inProc, inUtmp, inRead>>

InitNext ==
    \/ InShutdown \/ InReapAll \/ InAlarm \/ InWatchdog
    \/ InStage("single", "shell", "shell") \/ InStageWait("shell", "runcom")
    \/ InStage("runcom", "rc", "rc") \/ InStageWait("rc", "merge")
    \/ InFirstMerge \/ InMultiple \/ InInterrupt \/ InHangup
    \/ \E p \in InPids : InExits(p) \/ InLogin(p)
    \/ InOrphan \/ InEdit

(* While init waits for its children and has none to collect, the table has  *)
(* exactly the lines that were enabled when it last read /etc/ttys, each     *)
(* with a process of its own that serves it, or with a fork to be tried      *)
(* again; no process that has not been killed serves a line without an entry;*)
(* and nobody is listed on a line that nobody serves.                        *)
LinesServed ==
    inPc = "waiting" /\ InZombies(inProc) = {} =>
        LET used == {s \in InSlots : inTab[s].line # ""}
        IN /\ {inTab[s].line : s \in used} = inRead
           /\ Cardinality(used) = Cardinality(inRead)
           /\ \A s \in used : \/ inTab[s].pid = -1
                              \/ inTab[s].pid \in InPids /\ inProc[inTab[s].pid].is = inTab[s].line
           /\ \A p \in InPids : inProc[p].st = "run" /\ inProc[p].is \in InLines =>
                                    \E s \in used : inTab[s].pid = p
           /\ \A l \in inUtmp : \E p \in InPids : inProc[p].is = l

==============================================================================
