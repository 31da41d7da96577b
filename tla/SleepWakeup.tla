---------------------------- MODULE SleepWakeup ----------------------------
(***************************************************************************)
(* What sleep, wakeup, setrun and swtch of sys/slp.c promise to the rest   *)
(* of the kernel, without the lists they keep: a process is running, ready *)
(* or asleep on a channel; a wakeup makes every process asleep on the      *)
(* channel ready, and nobody else; only a ready process is dispatched.     *)
(***************************************************************************)
CONSTANTS Procs, Chans, None

VARIABLES asleep,   \* the channel a process sleeps on, or None
          ready,    \* the processes the dispatcher can choose from
          running   \* the process that has the processor, or None

vars == <<asleep, ready, running>>

Init == /\ asleep = [p \in Procs |-> None]
        /\ running \in Procs
        /\ ready = Procs \ {running}

(* The running process goes to sleep; it has the processor until Leave, in *)
(* order that an interrupt may make it ready before it has left.           *)
Sleep(p, c) == /\ running = p /\ p \notin ready /\ asleep[p] = None
               /\ asleep' = [asleep EXCEPT ![p] = c]
               /\ UNCHANGED <<ready, running>>

(* It gives the processor up, asleep or ready again.                       *)
Leave(p) == /\ running = p
            /\ asleep[p] # None \/ p \in ready
            /\ running' = None
            /\ UNCHANGED <<asleep, ready>>

(* It gives the processor up and stays ready.                              *)
Yield(p) == /\ running = p /\ p \notin ready /\ asleep[p] = None
            /\ running' = None
            /\ ready' = ready \cup {p}
            /\ UNCHANGED asleep

Dispatch(p) == /\ running = None /\ p \in ready
               /\ running' = p
               /\ ready' = ready \ {p}
               /\ UNCHANGED asleep

(* Every sleeper on a channel of C, and nobody else; C has more than one   *)
(* member because waking a process may also call the swapper.              *)
Wakeup(C) == LET W == {p \in Procs : asleep[p] \in C} IN
             /\ asleep' = [p \in Procs |-> IF p \in W THEN None ELSE asleep[p]]
             /\ ready' = ready \cup W
             /\ UNCHANGED running

(* The two at once: a process that goes to sleep calls the swapper.        *)
LeaveAndWake(p, C) == LET W == {x \in Procs : asleep[x] \in C} IN
    /\ running = p
    /\ asleep[p] # None \/ p \in ready
    /\ running' = None
    /\ asleep' = [x \in Procs |-> IF x \in W THEN None ELSE asleep[x]]
    /\ ready' = ready \cup W

(* The channels somebody sleeps on: a wakeup of any other does nothing.    *)
Awaited == {asleep[p] : p \in Procs} \ {None}

Next == \/ \E p \in Procs, c \in Chans : Sleep(p, c)
        \/ \E p \in Procs : Leave(p) \/ Yield(p) \/ Dispatch(p)
        \/ \E C \in SUBSET Awaited : Wakeup(C)
        \/ \E p \in Procs, C \in SUBSET Awaited : LeaveAndWake(p, C)

Spec == Init /\ [][Next]_vars
=============================================================================
