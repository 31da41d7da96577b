------------------------------ MODULE RunQueue ------------------------------
(***************************************************************************)
(* The process queues of sys/slp.c: the run queue and the hashed sleep     *)
(* queues, all threaded through the one field p_link; sleep, wakeup,       *)
(* setrun, setrq, swtch and qswtch that move processes between them; the   *)
(* signals of sys/sig.c that interrupt a sleep; and the swapper, sched,    *)
(* which is called by setrun in the middle of somebody else's wakeup.      *)
(*                                                                         *)
(* An action is a region that an interrupt cannot split.  `cur' is the     *)
(* process that has the processor; None is swtch's search for the next.    *)
(* Interrupt routines may run between any two actions.                     *)
(***************************************************************************)
EXTENDS Naturals, Sequences, FiniteSets

CONSTANTS Users,      \* the processes but the swapper
          Swapper,    \* proc[0]
          None,
          Chans,      \* the channels of users and drivers
          Runout, Runin, Swbuf,   \* the channels of the swapper
          Buckets, Hash,          \* the index of a channel in slpque
          Sigs,       \* the signals sent, by what is done about them
          Core        \* how many images fit in core

Procs == Users \cup {Swapper}
AllChans == Chans \cup {Runout, Runin, Swbuf}

ASSUME RunQueueConstants ==
    /\ Swapper \notin Users /\ None \notin Procs \cup AllChans
    /\ Runout \notin Chans /\ Runin \notin Chans /\ Swbuf \notin Chans
    /\ Hash \in [AllChans -> Buckets]
    /\ Sigs \subseteq {"caught", "ignored"}
    /\ Core \in Nat \ {0}

(* The priorities of h/param.h, in their order.                            *)
PSWP == 0
PRIBIO == 1
PZERO == 2
PSLEP == 3
PUSER == 4

VARIABLES
    k,          \* p_stat, p_wchan, p_link of every process; runq, slpque, runout
    pri,        \* p_pri
    load,       \* the processes with SLOAD
    resident,   \* the processes whose image occupies core
    sig,        \* the pending signals, by what is done about them
    runin,      \* the swapper waits for core
    io,         \* the swapper's transfer: "idle", "busy", "done"
    cur,        \* u.u_procp, or None in the search loop of swtch
    switching,  \* cur is between the end of sleep's masked part and swtch
    pc, tgt, w  \* where a process is, and the locals p and w of setrun

vars == <<k, pri, load, resident, sig, runin, io, cur, switching, pc, tgt, w>>

-----------------------------------------------------------------------------
(* The lists.                                                              *)

RECURSIVE Walk(_, _, _)
Walk(link, p, n) == IF p = None \/ n = 0 THEN <<>>
                    ELSE <<p>> \o Walk(link, link[p], n - 1)

(* The processes from p along p_link; a cycle shows as a repetition.       *)
Chain(q, p) == Walk(q.link, p, Cardinality(Procs) + 1)

OnChain(q, p) == LET c == Chain(q, p) IN {c[i] : i \in DOMAIN c}

Bug_Setrq(q, p) == [q EXCEPT !.link[p] = q.runq, !.runq = p]

(* setrq: to the front of the run queue, unless it is there already        *)
(* (diagnostic `proc on q').                                               *)
Setrq(q, p) == IF p \in OnChain(q, q.runq) THEN q
               ELSE [q EXCEPT !.link[p] = q.runq, !.runq = p]

(* sleep, first half: to the front of the channel's bucket.                *)
Enqueue(q, p, chan) == LET h == Hash[chan] IN
    [q EXCEPT !.stat[p] = "SSLEEP", !.wchan[p] = chan,
              !.link[p] = q.slpque[h], !.slpque[h] = p]

RECURSIVE Wakeup(_, _)
RECURSIVE WakeupLoop(_, _, _, _)

(* setrun of a process with p_wchan zero: it calls wakeup again when the   *)
(* process must first be swapped in.                                       *)
Run(q, p) ==
    LET r == Setrq([q EXCEPT !.stat[p] = "SRUN"], p) IN
    IF r.runout /\ p \notin load
    THEN Wakeup([r EXCEPT !.runout = FALSE], Runout)
    ELSE r

Bug_WakeupLoop(q, chan, p, prev) ==
    CASE p = None -> q
      [] p # None /\ q.wchan[p] = chan ->
           LET sp == q.link[p]
               cut == IF prev = None THEN [q EXCEPT !.slpque[Hash[chan]] = sp]
                                     ELSE [q EXCEPT !.link[prev] = sp]
           IN Run([cut EXCEPT !.wchan[p] = None], p)
      [] OTHER -> WakeupLoop(q, chan, q.link[p], p)

(* The loop of wakeup, at process p with prev (the code's q) behind it.    *)
WakeupLoop(q, chan, p, prev) ==
    CASE p = None -> q
      [] p # None /\ q.wchan[p] = chan ->
           LET sp == q.link[p]
               cut == IF prev = None THEN [q EXCEPT !.slpque[Hash[chan]] = sp]
                                     ELSE [q EXCEPT !.link[prev] = sp]
           IN WakeupLoop(Run([cut EXCEPT !.wchan[p] = None], p), chan, sp, prev)
      [] OTHER -> WakeupLoop(q, chan, q.link[p], p)

Wakeup(q, chan) == WakeupLoop(q, chan, q.slpque[Hash[chan]], None)

(* setrun without an interruption, as an interrupt routine calls it.       *)
Setrun(q, p) == IF q.wchan[p] # None THEN Wakeup(q, q.wchan[p]) ELSE Run(q, p)

-----------------------------------------------------------------------------
(* The signals.  Only a signal's effect on a sleep matters: a caught one   *)
(* ends it, an ignored one is thrown away by issig.                        *)

(* issig: is there a signal to act on, and what it leaves pending.         *)
Issig(p) == "caught" \in sig[p]
AfterIssig(p) == IF Issig(p) THEN sig ELSE [sig EXCEPT ![p] = {}]

(* psignal's test: does the signal end t's sleep?                          *)
Disturbs(t) == k.stat[t] = "SSLEEP" /\ pri[t] > PZERO

(* The order in which the processes were made ready.                       *)
Lined(order) == [p \in Procs |->
    IF \E i \in 1 .. Len(order) - 1 : order[i] = p
    THEN order[(CHOOSE i \in 1 .. Len(order) - 1 : order[i] = p) + 1]
    ELSE None]

(* sched has just been called and the others wait to run; as many of them  *)
(* are loaded as core admits, the others were swapped out by expand.       *)
Init ==
    \E order \in {s \in [1 .. Cardinality(Users) -> Users] :
                    {s[i] : i \in DOMAIN s} = Users} :
      /\ k = [stat |-> [p \in Procs |-> "SRUN"],
              wchan |-> [p \in Procs |-> None],
              link |-> Lined(order), runq |-> order[1],
              slpque |-> [b \in Buckets |-> None], runout |-> FALSE]
      /\ resident = {order[i] : i \in {j \in DOMAIN order : j <= Core}}
      /\ load = resident \cup {Swapper}
      /\ pri = [p \in Procs |-> IF p = Swapper THEN PSWP ELSE PUSER]
      /\ sig = [p \in Users |-> {}]
      /\ runin = FALSE /\ io = "idle" /\ cur = Swapper /\ switching = FALSE
      /\ pc = [p \in Procs |-> IF p = Swapper THEN "sched" ELSE "run"]
      /\ tgt = [p \in Procs |-> None] /\ w = None

-----------------------------------------------------------------------------
(* A user process in the kernel.                                           *)

Runs(p, l) == cur = p /\ ~switching /\ pc[p] = l

Goto(p, l) == pc' = [pc EXCEPT ![p] = l]

Bug_Sleep(p, chan, pr) ==
    /\ Runs(p, "run")
    /\ pri' = [pri EXCEPT ![p] = pr]
    /\ k' = Enqueue(k, p, chan)
    /\ switching' = TRUE
    /\ Goto(p, "asleep")
    /\ UNCHANGED <<load, resident, sig, runin, io, cur, tgt, w>>

(* sleep up to intr_enable.  A pending signal takes an interruptible sleep *)
(* back, and the system call is abandoned through u_qsav.                  *)
Sleep(p, chan, pr) ==
    /\ Runs(p, "run")
    /\ pri' = [pri EXCEPT ![p] = pr]
    /\ sig' = IF pr > PZERO THEN AfterIssig(p) ELSE sig
    /\ IF pr > PZERO /\ Issig(p)
       THEN /\ k' = [k EXCEPT !.link[p] = k.slpque[Hash[chan]]]
            /\ UNCHANGED <<switching, pc>>
       ELSE /\ k' = Enqueue(k, p, chan)
            /\ switching' = TRUE
            /\ Goto(p, "asleep")
    /\ UNCHANGED <<load, resident, runin, io, cur, tgt, w>>

(* sleep from intr_enable into swtch: a process that may sleep for long    *)
(* lets the swapper look for core again.                                   *)
Swtch ==
    /\ cur # None /\ switching
    /\ IF pri[cur] > PZERO /\ runin
       THEN k' = Wakeup(k, Runin) /\ runin' = FALSE
       ELSE UNCHANGED <<k, runin>>
    /\ cur' = None /\ switching' = FALSE
    /\ UNCHANGED <<pri, load, resident, sig, io, pc, tgt, w>>

(* sleep after swtch has returned.                                         *)
Resume(p) ==
    /\ Runs(p, "asleep")
    /\ sig' = IF pri[p] > PZERO THEN AfterIssig(p) ELSE sig
    /\ Goto(p, "run")
    /\ UNCHANGED <<k, pri, load, resident, runin, io, cur, switching, tgt, w>>

(* setpri: the processor time that it weighs, up to a limit, is left out.  *)
Setpri(p) == PUSER

(* The end of trap: a caught signal is acted on, the user priority is set, *)
(* and if runrun is set - the clock does so every second - the process     *)
(* lines up again.                                                         *)
TrapReturn(p) ==
    /\ Runs(p, "run")
    /\ sig' = [sig EXCEPT ![p] = {}]
    /\ pri' = [pri EXCEPT ![p] = Setpri(p)]
    /\ UNCHANGED <<k, load, resident, runin, io, cur, switching, pc, tgt, w>>

Qswtch(p) ==
    /\ Runs(p, "run")
    /\ sig' = [sig EXCEPT ![p] = {}]
    /\ pri' = [pri EXCEPT ![p] = Setpri(p)]
    /\ k' = Setrq(k, p)
    /\ cur' = None
    /\ UNCHANGED <<load, resident, runin, io, switching, pc, tgt, w>>

(* psignal called by a process (kill): interrupts are enabled, so that the *)
(* target may be woken between the test, the reading of p_wchan, and the   *)
(* wakeup.                                                                 *)
Kill(p, t, s) ==
    /\ Runs(p, "run")
    /\ sig' = [sig EXCEPT ![t] = @ \cup {s}]
    /\ IF Disturbs(t)
       THEN Goto(p, "setrun") /\ tgt' = [tgt EXCEPT ![p] = t]
       ELSE UNCHANGED <<pc, tgt>>
    /\ UNCHANGED <<k, pri, load, resident, runin, io, cur, switching, w>>

(* setrun reads p_wchan once, because it may change under its hands.       *)
SetrunRead(p) ==
    /\ Runs(p, "setrun")
    /\ w' = k.wchan[tgt[p]]
    /\ IF w' = None
       THEN k' = Run(k, tgt[p]) /\ Goto(p, "run") /\ tgt' = [tgt EXCEPT ![p] = None]
       ELSE Goto(p, "wake") /\ UNCHANGED <<k, tgt>>
    /\ UNCHANGED <<pri, load, resident, sig, runin, io, cur, switching>>

SetrunWake(p) ==
    /\ Runs(p, "wake")
    /\ k' = Wakeup(k, w)
    /\ w' = None
    /\ Goto(p, "run")
    /\ tgt' = [tgt EXCEPT ![p] = None]
    /\ UNCHANGED <<pri, load, resident, sig, runin, io, cur, switching>>

-----------------------------------------------------------------------------
(* swtch: the first of the best among the loaded ones of the run queue.    *)

Candidates == {p \in OnChain(k, k.runq) : k.stat[p] = "SRUN" /\ p \in load}

Position(p) == LET c == Chain(k, k.runq) IN CHOOSE i \in DOMAIN c : c[i] = p

Better(p, r) == \/ pri[p] < pri[r]
                \/ pri[p] = pri[r] /\ Position(p) <= Position(r)

Dispatch ==
    /\ cur = None
    /\ \E p \in Candidates :
         /\ \A r \in Candidates : Better(p, r)
         /\ k' = IF k.runq = p THEN [k EXCEPT !.runq = k.link[p]]
                 ELSE [k EXCEPT !.link[Chain(k, k.runq)[Position(p) - 1]] = k.link[p]]
         /\ cur' = p
    /\ UNCHANGED <<pri, load, resident, sig, runin, io, switching, pc, tgt, w>>

-----------------------------------------------------------------------------
(* Interrupts.                                                             *)

(* A driver or another process wakes a channel.                            *)
WakeupOn(chan) ==
    /\ k' = Wakeup(k, chan)
    /\ UNCHANGED <<pri, load, resident, sig, runin, io, cur, switching, pc, tgt, w>>

(* psignal from the terminal's interrupt routine.                          *)
Interrupt(t, s) ==
    /\ sig' = [sig EXCEPT ![t] = @ \cup {s}]
    /\ k' = IF Disturbs(t) THEN Setrun(k, t) ELSE k
    /\ UNCHANGED <<pri, load, resident, runin, io, cur, switching, pc, tgt, w>>

Bug_Clock == UNCHANGED vars

(* The part of clock that runs once per second: it jabs the scheduler.     *)
(* The alarms it sends are Interrupt steps; nobody sleeps on &lbolt.       *)
Clock ==
    /\ k' = IF runin THEN Wakeup(k, Runin) ELSE k
    /\ runin' = FALSE
    /\ UNCHANGED <<pri, load, resident, sig, io, cur, switching, pc, tgt, w>>

(* iodone of the swapper's transfer.                                       *)
SwapDone ==
    /\ io = "busy"
    /\ io' = "done"
    /\ k' = Wakeup(k, Swbuf)
    /\ UNCHANGED <<pri, load, resident, sig, runin, cur, switching, pc, tgt, w>>

-----------------------------------------------------------------------------
(* The swapper.  Ages and sizes, which decide among the candidates, are    *)
(* left open; all images have the same size.                               *)

Waiting == {p \in Users : k.stat[p] = "SRUN" /\ p \notin load}

SwapperSleeps ==
    /\ pri' = [pri EXCEPT ![Swapper] = PSWP]
    /\ switching' = TRUE

(* sched: who wants to come in?                                            *)
Scan ==
    /\ Runs(Swapper, "sched")
    /\ IF Waiting = {}
       THEN /\ k' = [Enqueue(k, Swapper, Runout) EXCEPT !.runout = TRUE]
            /\ SwapperSleeps
            /\ UNCHANGED <<pc, tgt>>
       ELSE /\ \E p \in Waiting : tgt' = [tgt EXCEPT ![Swapper] = p]
            /\ Goto(Swapper, "swapin")
            /\ UNCHANGED <<k, pri, switching>>
    /\ UNCHANGED <<load, resident, sig, runin, io, cur, w>>

(* swapin takes the core before it reads.                                  *)
Swapin ==
    /\ Runs(Swapper, "swapin")
    /\ IF Cardinality(resident) < Core
       THEN /\ resident' = resident \cup {tgt[Swapper]}
            /\ io' = "busy"
            /\ Goto(Swapper, "reading")
       ELSE Goto(Swapper, "victim") /\ UNCHANGED <<resident, io>>
    /\ UNCHANGED <<k, pri, load, sig, runin, cur, switching, tgt, w>>

Loaded == Users \cap load
SleepsBadly == {p \in Loaded : k.stat[p] = "SSLEEP" /\ pri[p] >= PZERO}

(* sched: whom to swap out - one who sleeps at a bad priority, otherwise   *)
(* one who has been in core for long, otherwise nobody for now.            *)
Victim ==
    /\ Runs(Swapper, "victim")
    /\ \/ \E p \in IF SleepsBadly # {} THEN SleepsBadly ELSE Loaded :
            /\ load' = load \ {p}
            /\ tgt' = [tgt EXCEPT ![Swapper] = p]
            /\ io' = "busy"
            /\ Goto(Swapper, "writing")
            /\ UNCHANGED <<k, pri, runin, switching>>
       \/ /\ SleepsBadly = {}
          /\ runin' = TRUE
          /\ k' = Enqueue(k, Swapper, Runin)
          /\ SwapperSleeps
          /\ Goto(Swapper, "sched")
          /\ tgt' = [tgt EXCEPT ![Swapper] = None]
          /\ UNCHANGED <<load, io>>
    /\ UNCHANGED <<resident, sig, cur, w>>

(* swap: wait for the transfer; the test and the sleep are masked.         *)
SwapWait ==
    /\ \/ Runs(Swapper, "reading")
       \/ Runs(Swapper, "writing")
    /\ io # "done"
    /\ k' = Enqueue(k, Swapper, Swbuf)
    /\ SwapperSleeps
    /\ UNCHANGED <<load, resident, sig, runin, io, cur, pc, tgt, w>>

(* The end of swapin.                                                      *)
SwappedIn ==
    /\ Runs(Swapper, "reading") /\ io = "done"
    /\ load' = load \cup {tgt[Swapper]}
    /\ io' = "idle"
    /\ tgt' = [tgt EXCEPT ![Swapper] = None]
    /\ Goto(Swapper, "sched")
    /\ UNCHANGED <<k, pri, resident, sig, runin, cur, switching, w>>

(* The end of xswap: the core is free.                                     *)
SwappedOut ==
    /\ Runs(Swapper, "writing") /\ io = "done"
    /\ resident' = resident \ {tgt[Swapper]}
    /\ io' = "idle"
    /\ k' = IF k.runout THEN Wakeup([k EXCEPT !.runout = FALSE], Runout) ELSE k
    /\ tgt' = [tgt EXCEPT ![Swapper] = None]
    /\ Goto(Swapper, "sched")
    /\ UNCHANGED <<pri, load, sig, runin, cur, switching, w>>

SwapperStep == Scan \/ Swapin \/ Victim \/ SwapWait \/ SwappedIn \/ SwappedOut

Next ==
    \/ \E p \in Users, chan \in Chans, pr \in {PRIBIO, PSLEP} : Sleep(p, chan, pr)
    \/ \E p, t \in Users, s \in Sigs : Kill(p, t, s)
    \/ \E p \in Users : Resume(p) \/ TrapReturn(p) \/ Qswtch(p)
    \/ \E p \in Users : SetrunRead(p) \/ SetrunWake(p)
    \/ Swtch \/ Dispatch
    \/ \E chan \in Chans : WakeupOn(chan)
    \/ \E t \in Users, s \in Sigs : Interrupt(t, s)
    \/ Clock \/ SwapDone
    \/ SwapperStep

Spec == Init /\ [][Next]_vars

(* The disk answers and the clock ticks.  Nobody keeps the processor: a    *)
(* process in the kernel sleeps or comes to the end of trap, and there     *)
(* runrun, which the clock sets every second, makes it line up.            *)
Fairness ==
    /\ WF_vars(SwapDone) /\ WF_vars(Clock)
    /\ WF_vars(Swtch) /\ WF_vars(Dispatch) /\ WF_vars(SwapperStep)
    /\ WF_vars(\E p \in Users : Resume(p) \/ SetrunRead(p) \/ SetrunWake(p))
    /\ SF_vars(\E p \in Users : Qswtch(p))

FairSpec == Spec /\ Fairness

-----------------------------------------------------------------------------
(* Properties.                                                             *)

(* Every variable has its type: states, links and channels of processes,   *)
(* flags of the swapper, places in the code.                               *)
TypeOK ==
    /\ k \in [stat : [Procs -> {"SSLEEP", "SRUN"}],
              wchan : [Procs -> AllChans \cup {None}],
              link : [Procs -> Procs \cup {None}], runq : Procs \cup {None},
              slpque : [Buckets -> Procs \cup {None}], runout : BOOLEAN]
    /\ pri \in [Procs -> PSWP .. PUSER]
    /\ load \subseteq Procs /\ resident \subseteq Users
    /\ sig \in [Users -> SUBSET Sigs]
    /\ runin \in BOOLEAN /\ switching \in BOOLEAN
    /\ io \in {"idle", "busy", "done"}
    /\ cur \in Procs \cup {None}
    /\ pc \in [Procs -> {"run", "asleep", "setrun", "wake", "sched", "swapin",
                         "victim", "reading", "writing"}]
    /\ tgt \in [Procs -> Users \cup {None}]
    /\ w \in AllChans \cup {None}

Exactly(q, head, S) ==
    OnChain(q, head) = S /\ Len(Chain(q, head)) = Cardinality(S)

(* p_link serves two kinds of lists: the run queue holds, once each, the   *)
(* processes in SRUN that do not have the processor, and each bucket of    *)
(* slpque the processes asleep on its channels, whatever wakeups, signals  *)
(* and premature wakeups (between sleep's intr_enable and swtch) happened. *)
QueuesExact ==
    /\ Exactly(k, k.runq,
               {p \in Procs : k.stat[p] = "SRUN" /\ ~(p = cur /\ ~switching)})
    /\ \A b \in Buckets :
         Exactly(k, k.slpque[b],
                 {p \in Procs : k.stat[p] = "SSLEEP" /\ Hash[k.wchan[p]] = b})

(* psignal, issig and sleep: a process with a pending signal is not left   *)
(* in an interruptible sleep, even if the signal comes while it is falling *)
(* asleep, unless the sender is just about to wake it.                     *)
SignalEndsSleep ==
    \A t \in Users : Disturbs(t) /\ sig[t] # {} =>
        \E p \in Users : pc[p] \in {"setrun", "wake"} /\ tgt[p] = t

(* setrun, "arrange for it to be swapped in if necessary", with the clock  *)
(* and the disk: while a ready process is swapped out, the swapper gets to *)
(* run again and again.                                                    *)
SwapperGetsToRun == (Waiting # {}) ~> (cur = Swapper /\ ~switching)

SW == INSTANCE SleepWakeup WITH
        Chans <- AllChans, asleep <- k.wchan, running <- cur,
        ready <- OnChain(k, k.runq)

(* The lists implement the promise: wakeup(chan) makes ready exactly the   *)
(* processes asleep on chan (and the swapper, when one of them is swapped  *)
(* out), and the dispatcher sees every ready process.                      *)
ImplementsSleepWakeup == SW!Spec

(* setrun: a process that was made runnable can be found by swtch.         *)
RunnableIsQueued ==
    \A p \in Procs : k.stat[p] = "SRUN" /\ p # cur => p \in OnChain(k, k.runq)
=============================================================================
