-------------------------------- MODULE Proc --------------------------------
(***************************************************************************)
(* The life of processes: fork, exit and wait (sys/sys1.c), the numbers    *)
(* newproc gives (sys/slp.c), signals, tracing and stops (sys/sig.c), kill,*)
(* ssig, pause and setuid (sys/sys4.c) and the process group of a terminal *)
(* (ttyopen, ttyclose in dev/tty.c).                                       *)
(*                                                                         *)
(* A step runs from one sleep, swtch or return to user mode to the next.   *)
(* Slot 1 is process 1, which ignores signals and never exits; the swapper *)
(* is left out.                                                            *)
(***************************************************************************)
EXTENDS Integers, FiniteSets, FiniteSetsExt, Functions

CONSTANTS NPROC,      \* slots of proc[], the swapper's 0 not counted
          PIDMAX,     \* 30000 in newproc
          MAXUPRC,
          Sigs,       \* signal numbers
          Trees,      \* processes at the start: the parent of each slot, 0 for none, and STRC
          Pid0,       \* mpid at the start
          PCalls      \* bound on system calls and terminal signals

ASSUME ProcConstants ==
    /\ {NPROC, PIDMAX} \subseteq Nat \ {0} /\ MAXUPRC \in Nat
    /\ PIDMAX > 2 * NPROC /\ Sigs \subseteq Nat \ {0}
    /\ Trees \subseteq [parent : [1 .. NPROC -> 0 .. NPROC], traced : SUBSET (2 .. NPROC)]
    /\ \A tree \in Trees, s \in 2 .. NPROC :      \* each has a parent there
          tree.parent[s] = 0 \/ tree.parent[s] = 1 \/ tree.parent[tree.parent[s]] # 0
    /\ Pid0 \in NPROC .. PIDMAX - 1 /\ PCalls \in Nat

Slots == 1 .. NPROC
SIGKIL == 9
IPC == NPROC + 1      \* the address of ipc, slept on in ptrace
U == NPROC + 2        \* the address of u, slept on in pause
Dispositions == {"default", "ignore", "catch"}

VARIABLES pr,         \* proc[] and the part of each u-area that is used
          mpid,
          ipc,        \* ip_lock, ip_req
          tty,        \* a terminal: t_pgrp and the processes that have it open
          budget      \* calls that are left

procVars == <<pr, mpid, ipc, tty, budget>>

(* p_flag's STRC and SWTED are strc and swted; wchan: the slot whose       *)
(* address is slept on, IPC, U (pause) or 0; with: the slot            *)
(* ptrace has found; act: u_signal; rv: the argument of exit.              *)
NullProc == [stat |-> "null", pid |-> 0, ppid |-> 0, pgrp |-> 0, su |-> FALSE, sig |-> {},
             strc |-> FALSE, swted |-> FALSE, wchan |-> 0, pc |-> "none", with |-> 0,
             act |-> [s \in Sigs |-> "default"]]

(* A process numbered as its slot for each entry of a tree.                *)
ProcInit ==
    /\ \E tree \in Trees :
          pr = [s \in Slots |->
                   IF s # 1 /\ tree.parent[s] = 0 THEN NullProc
                   ELSE [NullProc EXCEPT !.stat = "run", !.pid = s, !.ppid = tree.parent[s],
                            !.su = TRUE, !.pc = "user", !.strc = s \in tree.traced,
                            !.act = [n \in Sigs |-> IF s = 1 THEN "ignore" ELSE "default"]]]
    /\ mpid = Pid0
    /\ ipc = [lock |-> 0, req |-> 0]
    /\ tty = [pgrp |-> 0, users |-> {}]
    /\ budget = PCalls

Exists(s) == pr[s].stat # "null"
HasPid(n) == {s \in Slots : pr[s].pid = n}
Children(s) == {c \in Slots : pr[c].ppid = pr[s].pid /\ Exists(c)}

(* wakeup(chan) on a process table: whoever sleeps there is runnable.      *)
Woken(t, chan) ==
    [s \in Slots |-> IF t[s].stat = "sleep" /\ t[s].wchan = chan
                     THEN [t[s] EXCEPT !.stat = "run", !.wchan = 0] ELSE t[s]]

Asleep(s, chan, pc) == [pr EXCEPT ![s].stat = "sleep", ![s].wchan = chan, ![s].pc = pc]

-----------------------------------------------------------------------------
(* Signals.                                                                *)

(* sleep at a priority above PZERO: wait and pause, not the ipc lock.      *)
Interruptible(r) == r.stat = "sleep" /\ r.wchan # IPC

Psignal(t, s, n) ==
    LET r == [t[s] EXCEPT !.sig = @ \cup {n}]
    IN  [t EXCEPT ![s] = IF Interruptible(r) THEN [r EXCEPT !.stat = "run", !.wchan = 0]
                         ELSE r]

PsignalAll(t, ss, n) == [s \in Slots |-> IF s \in ss THEN Psignal(t, s, n)[s] ELSE t[s]]

(* issig: the lowest signal that is not ignored, or the lowest at all when *)
(* traced; those below it that are ignored are dropped.                    *)
Heeded(r) == IF r.strc THEN r.sig ELSE {n \in r.sig : r.act[n] # "ignore"}
Issig(r) == Heeded(r) # {}
Kept(r) == {n \in r.sig : r.strc \/ (Issig(r) /\ n >= Min(Heeded(r)))}
Fsig(r) == IF r.sig = {} THEN 0 ELSE Min(r.sig)

(* signal(): a quit or interrupt from the terminal, to its group.          *)
TtySignal(n) ==
    /\ tty.pgrp # 0
    /\ pr' = PsignalAll(pr, {s \in Slots : pr[s].pgrp = tty.pgrp}, n)
    /\ UNCHANGED <<mpid, ipc, tty>>

-----------------------------------------------------------------------------
(* The system calls of a process in user mode with no signal to process.   *)

Calls(s) == budget > 0 /\ pr[s].stat = "run" /\ pr[s].pc = "user" /\ ~Issig(pr[s])

(* newproc: the next number that is no process's and no group's, from 1    *)
(* again after PIDMAX - 1.                                                 *)
Bug_Taken ==      \* mutant: zombies are not looked at
    UNION {{pr[s].pid, pr[s].pgrp} : s \in {q \in Slots : pr[q].stat # "zomb"}}
Taken == {pr[s].pid : s \in Slots} \cup {pr[s].pgrp : s \in Slots}
FreePids == (1 .. PIDMAX - 1) \ Taken
NewPid == LET above == {n \in FreePids : n > mpid}
          IN  Min(IF above # {} THEN above ELSE FreePids)

FreeSlots == {s \in Slots : ~Exists(s)}
SameUser(s) == {c \in Slots : Exists(c) /\ pr[c].su = pr[s].su}

(* Fork fails with EAGAIN without a slot, and for users when they have too *)
(* many processes or would take the last slot; the superuser is one user   *)
(* and all others are another.                                             *)
MayFork(s) ==
    /\ FreeSlots # {}
    /\ pr[s].su \/ (Min(FreeSlots) # NPROC /\ Cardinality(SameUser(s)) <= MAXUPRC)

Fork(s) ==
    /\ Calls(s) /\ MayFork(s)
    /\ LET c == Min(FreeSlots)
       IN  pr' = [pr EXCEPT ![c] = [@ EXCEPT !.stat = "run", !.strc = FALSE, !.swted = FALSE,
                                       !.su = pr[s].su, !.pgrp = pr[s].pgrp, !.pid = NewPid,
                                       !.ppid = pr[s].pid, !.pc = "user", !.act = pr[s].act]]
           /\ tty' = [tty EXCEPT !.users = IF s \in @ THEN @ \cup {c} ELSE @]
    /\ mpid' = NewPid
    /\ UNCHANGED ipc

Setuid(s) == s # 1 /\ Calls(s) /\ pr[s].su /\ pr' = [pr EXCEPT ![s].su = FALSE]
             /\ UNCHANGED <<mpid, ipc, tty>>

Ssig(s, n, d) ==
    /\ Calls(s) /\ n # SIGKIL /\ s # 1
    /\ pr' = [pr EXCEPT ![s].act[n] = d, ![s].sig = @ \ {n}]
    /\ UNCHANGED <<mpid, ipc, tty>>

(* kill: a = 0 reaches the caller's group (not processes 0 and 1), and a   *)
(* = -1 of the superuser every process; others only reach their own user's.*)
KillSet(s, a) ==
    {q \in Slots :
        /\ Exists(q)
        /\ (a \notin {0, -1}) => pr[q].pid = a
        /\ (a \in {0, -1}) => (q # 1 /\ ((a = -1 /\ pr[s].su) \/ pr[q].pgrp = pr[s].pgrp))
        /\ (a = -1) => pr[s].su
        /\ pr[s].su \/ ~pr[q].su}

Kill(s, a, n) ==
    /\ Calls(s)
    /\ pr' = PsignalAll(pr, KillSet(s, a), n)
    /\ UNCHANGED <<mpid, ipc, tty>>

Pause(s) == /\ s # 1 /\ Calls(s)
            /\ pr' = Asleep(s, U, "pause")
            /\ UNCHANGED <<mpid, ipc, tty>>

(* A sleep that a signal has ended returns to user mode through psig; one  *)
(* whose signal is ignored goes back to sleep (pause) or looks again.      *)
PauseGoesOn(s) ==
    /\ pr[s].stat = "run" /\ pr[s].pc = "pause"
    /\ pr' = IF Issig(pr[s]) THEN [pr EXCEPT ![s].pc = "user"]
             ELSE [Asleep(s, U, "pause") EXCEPT ![s].sig = Kept(pr[s])]
    /\ UNCHANGED <<mpid, ipc, tty>>

(* ttyopen: a process of no group starts the terminal's group or joins it. *)
TtyOpen(s) ==
    /\ Calls(s) /\ s # 1 /\ s \notin tty.users
    /\ LET g == IF pr[s].pgrp # 0 THEN tty.pgrp
                ELSE IF tty.pgrp = 0 THEN pr[s].pid ELSE tty.pgrp
       IN  /\ tty' = [pgrp |-> g, users |-> tty.users \cup {s}]
           /\ pr' = [pr EXCEPT ![s].pgrp = IF @ = 0 THEN g ELSE @]
    /\ UNCHANGED <<mpid, ipc>>

(* The last close of the terminal is ttyclose.                             *)
Closed(s) == LET us == tty.users \ {s}
             IN  [pgrp |-> IF s \in tty.users /\ us = {} THEN 0 ELSE tty.pgrp, users |-> us]

TtyClose(s) == /\ Calls(s) /\ s \in tty.users
               /\ tty' = Closed(s)
               /\ UNCHANGED <<pr, mpid, ipc>>

-----------------------------------------------------------------------------
(* exit: first signals are ignored and files closed, which may sleep; then *)
(* the image is given up, the children go to process 1 and the parent is   *)
(* told.                                                                   *)
ExitStarts(t, s) ==
    [t EXCEPT ![s].strc = FALSE, ![s].pc = "exit", ![s].act = [n \in Sigs |-> "ignore"]]

Rexit(s) == /\ s # 1 /\ Calls(s)
            /\ pr' = ExitStarts(pr, s) /\ tty' = Closed(s)
            /\ UNCHANGED <<mpid, ipc>>

(* Children pass to process 1, which is woken; stopped ones go on.         *)
Bug_Adopted(t, s) ==      \* mutant: process 1 is not told of the zombies it gets
    [c \in Slots |-> IF t[c].ppid # t[s].pid THEN t[c]
                     ELSE [t[c] EXCEPT !.ppid = 1, !.stat = IF @ = "stop" THEN "run" ELSE @]]

Adopted(t, s) ==
    LET kids == {c \in Slots : t[c].ppid = t[s].pid}
        u == [c \in Slots |->
                 IF c \notin kids THEN t[c]
                 ELSE [t[c] EXCEPT !.ppid = 1, !.stat = IF @ = "stop" THEN "run" ELSE @]]
    IN  IF kids = {} THEN t ELSE Woken(u, 1)

ExitZombie(s) ==
    /\ pr[s].stat = "run" /\ pr[s].pc = "exit"
    /\ LET t == Adopted([pr EXCEPT ![s].stat = "zomb"], s)
           parent == {q \in Slots : t[q].pid = t[s].ppid}
       IN  pr' = IF parent = {} THEN t ELSE Woken(t, Min(parent))
    /\ UNCHANGED <<mpid, ipc, tty>>

-----------------------------------------------------------------------------
(* wait: the first child in slot order that is a zombie or has stopped and *)
(* not been reported.                                                      *)
Reportable(s) ==
    {c \in Children(s) : pr[c].stat = "zomb" \/ (pr[c].stat = "stop" /\ ~pr[c].swted)}

(* The slot of a zombie is cleared; without children ECHILD.  The sleep at *)
(* PWAIT is not begun, and ends the call, with a signal to process.        *)
Interrupted(s) == pr[s].pc = "waitslp" /\ Issig(pr[s])

Wait(s) ==
    /\ Calls(s) \/ (pr[s].stat = "run" /\ pr[s].pc = "waitslp")
    /\ IF Reportable(s) # {} /\ ~Interrupted(s)
       THEN LET c == Min(Reportable(s))
            IN  pr' = [pr EXCEPT ![s].pc = "user",
                                 ![c] = IF @.stat = "zomb" THEN NullProc
                                        ELSE [@ EXCEPT !.swted = TRUE]]
       ELSE IF Children(s) = {} \/ Issig(pr[s]) THEN pr' = [pr EXCEPT ![s].pc = "user"]
       ELSE pr' = [Asleep(s, s, "waitslp") EXCEPT ![s].sig = Kept(pr[s])]
    /\ UNCHANGED <<mpid, ipc, tty>>

-----------------------------------------------------------------------------
(* Tracing.                                                                *)

PtraceMe(s) == /\ s # 1 /\ Calls(s)
               /\ pr' = [pr EXCEPT ![s].strc = TRUE]
               /\ UNCHANGED <<mpid, ipc, tty>>

IpcWaits == ipc.lock # 0

(* ptrace of a stopped child, ESRCH for others; the lock is slept for.     *)
(* Request 1 stands for the reads and writes, 7 and 8 go on and exit.      *)
Ptrace(s, c, req) ==
    /\ \/ Calls(s) /\ c \in Children(s) /\ pr[c].stat = "stop"
       \/ pr[s].stat = "run" /\ pr[s].pc = "ipclock" /\ c = pr[s].with
    /\ IF IpcWaits
       THEN pr' = [Asleep(s, IPC, "ipclock") EXCEPT ![s].with = c] /\ UNCHANGED ipc
       ELSE /\ ipc' = [lock |-> pr[c].pid, req |-> req]
            /\ pr' = [Asleep(s, IPC, "ipcreq") EXCEPT ![c].swted = FALSE, ![c].stat = "run",
                                                        ![s].with = c]
    /\ UNCHANGED <<mpid, tty>>

PtraceDone(s) ==
    /\ pr[s].stat = "run" /\ pr[s].pc = "ipcreq"
    /\ IF ipc.req > 0
       THEN pr' = Asleep(s, IPC, "ipcreq") /\ UNCHANGED ipc
       ELSE /\ pr' = Woken([pr EXCEPT ![s].pc = "user", ![s].with = 0], IPC)
            /\ ipc' = [lock |-> 0, req |-> 0]
    /\ UNCHANGED <<mpid, tty>>

(* stop's loop: wake the parent and stop, or exit when that is process 1.  *)
StopOrExit(t, s) ==
    LET parent == {q \in Slots : t[q].pid = t[s].ppid}
    IN  IF t[s].ppid # 1 /\ parent # {}
        THEN [Woken(t, Min(parent)) EXCEPT ![s].stat = "stop", ![s].pc = "stop"]
        ELSE ExitStarts(t, s)

(* psig after stop: the signal ends the process unless u_signal[n] is not  *)
(* 0; then it is reset (Sigs holds no SIGINS or SIGTRC) and the address    *)
(* called, the 1 of an ignored signal of a traced process too.             *)
Act(t, s) ==
    LET n == Fsig(t[s])
    IN  IF n = 0 THEN [t EXCEPT ![s].pc = "user"]
        ELSE IF t[s].act[n] # "default"
        THEN [t EXCEPT ![s].sig = @ \ {n}, ![s].act[n] = "default", ![s].pc = "user"]
        ELSE ExitStarts([t EXCEPT ![s].sig = @ \ {n}], s)

CloseIfExit(t, s) == tty' = IF t[s].pc = "exit" THEN Closed(s) ELSE tty

Psig(s) ==
    /\ pr[s].stat = "run" /\ pr[s].pc = "user" /\ s # 1 /\ Issig(pr[s])
    /\ LET r == [pr EXCEPT ![s].sig = Kept(pr[s])]
       IN  pr' = IF pr[s].strc THEN StopOrExit(r, s) ELSE Act(r, s)
    /\ CloseIfExit(pr', s)
    /\ UNCHANGED <<mpid, ipc>>

(* A stopped process that runs again: procxmt, then around or on.  A data  *)
(* request succeeds or fails (ip_req = -1).                                *)
Procxmt(s, ok, n) ==
    /\ pr[s].stat = "run" /\ pr[s].pc = "stop"
    /\ IF ipc.lock # pr[s].pid
       THEN pr' = StopOrExit(pr, s) /\ UNCHANGED ipc
       ELSE LET t == Woken(pr, IPC)
            IN  /\ ipc' = [ipc EXCEPT !.req = IF ~ok /\ ipc.req = 1 THEN -1 ELSE 0]
                /\ pr' = CASE ipc.req = 7 -> Act([t EXCEPT ![s].sig = n], s)
                           [] ipc.req = 8 -> ExitStarts(t, s)
                           [] OTHER -> StopOrExit(t, s)
    /\ CloseIfExit(pr', s)
    /\ UNCHANGED mpid

UserCall(s) ==
    \/ Fork(s) \/ Setuid(s) \/ Pause(s) \/ TtyOpen(s) \/ TtyClose(s) \/ Rexit(s) \/ PtraceMe(s)
    \/ \E n \in Sigs : \/ \E d \in Dispositions : Ssig(s, n, d)
                       \/ \E a \in {-1, 0} \cup {pr[q].pid : q \in Slots} : Kill(s, a, n)

(* Steps of a call that has begun, and what ends by itself.                *)
GoesOn(s) ==
    \/ PauseGoesOn(s) \/ ExitZombie(s) \/ PtraceDone(s) \/ Psig(s)
    \/ \E ok \in BOOLEAN, n \in {{}} \cup {{m} : m \in Sigs} : Procxmt(s, ok, n)

(* wait and ptrace begin a call or go on with one.                         *)
MayBegin(s) ==
    \/ Wait(s)
    \/ \E c \in Slots, req \in {1, 7, 8} : Ptrace(s, c, req)

ProcNext ==
    \/ \E n \in Sigs : budget > 0 /\ TtySignal(n) /\ budget' = budget - 1
    \/ \E s \in Slots :
          \/ UserCall(s) /\ budget' = budget - 1
          \/ GoesOn(s) /\ UNCHANGED budget
          \/ MayBegin(s) /\ budget' = budget - (IF pr[s].pc = "user" THEN 1 ELSE 0)

-----------------------------------------------------------------------------
(* Every process has a number of its own although newproc starts again at  *)
(* 1, and its parent is there to collect it: exactly one process has the   *)
(* number p_ppid, and it is no zombie (slp.c:497, sys1.c:362).             *)
FamilyTree ==
    \A p \in {s \in Slots : Exists(s)} :
        /\ \A q \in {s \in Slots : Exists(s)} : p # q => pr[p].pid # pr[q].pid
        /\ p # 1 => \E q \in Slots : /\ HasPid(pr[p].ppid) = {q}
                                     /\ pr[q].stat \notin {"null", "zomb"}

(* No process sleeps or stops for good while there is something for it: a  *)
(* process asleep in wait has children and none to report; one asleep on   *)
(* ipc waits for a lock that is held or for a child that will answer; no   *)
(* stopped process is process 1's, which would never let it go on (stop    *)
(* and exit see to that, sig.c:103 and sys1.c:360).                        *)
NobodyForgotten ==
    LET asleep(pc) == {s \in Slots : pr[s].stat = "sleep" /\ pr[s].pc = pc}
        holders == {s \in Slots : pr[s].pc = "ipcreq"}
    IN  /\ \A s \in asleep("waitslp") : Reportable(s) = {} /\ Children(s) # {}
        /\ \A s \in asleep("ipclock") : ipc.lock # 0
        /\ ipc.lock # 0 <=> holders # {}
        /\ Cardinality(holders) <= 1
        /\ \A s \in asleep("ipcreq") :
              LET c == pr[pr[s].with]
              IN  ipc.req > 0 /\ ipc.lock = c.pid /\ c.stat = "run" /\ c.pc = "stop"
        /\ \A s \in Slots : pr[s].stat = "stop" => pr[s].ppid # 1

ProcSpec == ProcInit /\ [][ProcNext]_procVars
=============================================================================
