------------------------------- MODULE Files -------------------------------
(***************************************************************************)
(* Open files: descriptors, the table file[] and the references it holds   *)
(* on inodes: falloc, ufalloc, getf and closef (sys/fio.c), open, creat    *)
(* and close (sys/sys2.c), dup (sys/sys3.c), pipe (sys/pipe.c), and what   *)
(* newproc and exit do with descriptors.                                   *)
(*                                                                         *)
(* closef may sleep: for the lock of the inode, and in the close routine   *)
(* of the terminal, where a signal ends the system call that closes.       *)
(***************************************************************************)
EXTENDS Integers, FiniteSets, FiniteSetsExt

CONSTANTS FProcs, NFILE, NOFILE,
          Plain,      \* ordinary files that are opened
          Pipes,      \* inodes that ialloc gives to pipes
          Ends        \* calls in which a signal may come: a subset of {"close", "dup"}

ASSUME FilesConstants == /\ {NFILE, NOFILE} \subseteq Nat \ {0} /\ IsFiniteSet(FProcs)
                         /\ Ends \subseteq {"close", "dup"}

TTY == "tty"
FInos == Plain \cup Pipes \cup {TTY}
Fds == 1 .. NOFILE
FileSlots == 1 .. NFILE

VARIABLES file,       \* file[]: f_count and f_inode
          ofile,      \* u_ofile of each process, 0 for NULL
          iref,       \* i_count of the inodes as far as files hold it
          ttystate,   \* ISOPEN in t_state
          fp          \* what each process is doing

fileVars == <<file, ofile, iref, ttystate, fp>>

NoFile == [count |-> 0, ino |-> "none"]
FIdle == [pc |-> "user", f |-> 0, ret |-> "none", to |-> 0, from |-> 0]

FilesInit ==
    /\ file = [f \in FileSlots |-> NoFile]
    /\ ofile = [p \in FProcs |-> [i \in Fds |-> 0]]
    /\ iref = [n \in FInos |-> 0]
    /\ ttystate = FALSE
    /\ fp = [p \in FProcs |-> IF p = CHOOSE q \in FProcs : TRUE THEN FIdle
                              ELSE [FIdle EXCEPT !.pc = "none"]]

InUser(p) == fp[p].pc = "user"

-----------------------------------------------------------------------------
FreeFds(o) == {i \in Fds : o[i] = 0}
FreeFiles(t) == {f \in FileSlots : t[f].count = 0}
Falloc(o, t) == FreeFds(o) # {} /\ FreeFiles(t) # {}

(* open and creat: namei has taken a reference, which is given back when   *)
(* there is no descriptor or file structure, or the device's open fails.   *)
Open(p, n) ==
    /\ InUser(p) /\ Falloc(ofile[p], file)
    /\ n \notin Pipes
    /\ LET i == Min(FreeFds(ofile[p]))
           f == Min(FreeFiles(file))
       IN  /\ file' = [file EXCEPT ![f] = [count |-> 1, ino |-> n]]
           /\ ofile' = [ofile EXCEPT ![p][i] = f]
    /\ iref' = [iref EXCEPT ![n] = @ + 1]
    /\ ttystate' = (ttystate \/ n = TTY)
    /\ UNCHANGED fp

(* pipe: two descriptors and two file structures or, when the second       *)
(* cannot be had, nothing: the first is given back.                        *)
Undone(t, f) == [t EXCEPT ![f] = NoFile]
Bug_PipeUndone(t, f) == t      \* mutant: the first file structure is kept
PipeUndone(t, f) == Undone(t, f)

PipeCall(p, n) ==
    /\ InUser(p) /\ n \in Pipes /\ iref[n] = 0
    /\ Falloc(ofile[p], file)
    /\ LET i == Min(FreeFds(ofile[p]))
           f == Min(FreeFiles(file))
           o == [ofile[p] EXCEPT ![i] = f]
           t == [file EXCEPT ![f] = [count |-> 1, ino |-> n]]
       IN  IF Falloc(o, t)
           THEN /\ file' = [t EXCEPT ![Min(FreeFiles(t))] = [count |-> 1, ino |-> n]]
                /\ ofile' = [ofile EXCEPT ![p] = [o EXCEPT ![Min(FreeFds(o))] = Min(FreeFiles(t))]]
                /\ iref' = [iref EXCEPT ![n] = 2]
           ELSE file' = PipeUndone(t, f) /\ UNCHANGED <<ofile, iref>>
    /\ UNCHANGED <<ttystate, fp>>

-----------------------------------------------------------------------------
(* When closef returns: close is over, dup has its descriptor to set, exit *)
(* goes on with the next one.                                              *)
After(p, t, o, c) ==
    CASE c.ret = "close" -> file' = t /\ ofile' = o /\ fp' = [fp EXCEPT ![p] = FIdle]
      [] c.ret = "dup" -> /\ file' = [t EXCEPT ![o[p][c.from]].count = @ + 1]
                          /\ ofile' = [o EXCEPT ![p][c.to] = o[p][c.from]]
                          /\ fp' = [fp EXCEPT ![p] = FIdle]
      [] c.ret = "exit" -> file' = t /\ ofile' = o /\ fp' = [fp EXCEPT ![p] = [FIdle EXCEPT !.pc = "exit"]]

(* closef: one of several references, or the last one after plock.         *)
Closef(p, o, c) ==
    IF file[c.f].count > 1 THEN After(p, [file EXCEPT ![c.f].count = @ - 1], o, c)
    ELSE fp' = [fp EXCEPT ![p] = c] /\ ofile' = o /\ UNCHANGED file

Closing(f, ret, from, to) == [pc |-> "plock", f |-> f, ret |-> ret, from |-> from, to |-> to]

Close(p, i) ==
    /\ InUser(p) /\ ofile[p][i] # 0
    /\ Closef(p, [ofile EXCEPT ![p][i] = 0], Closing(ofile[p][i], "close", 0, 0))
    /\ UNCHANGED <<iref, ttystate>>

(* The inode is locked: the file structure and the inode are given up; the *)
(* terminal is closed when no file is open on it any more.                 *)
OpenOn(t, n) == {f \in FileSlots : t[f].count > 0 /\ t[f].ino = n}

LastClose(p) ==
    /\ fp[p].pc = "plock"
    /\ LET n == file[fp[p].f].ino
           t == Undone(file, fp[p].f)
       IN  /\ iref' = [iref EXCEPT ![n] = @ - 1]
           /\ IF n = TTY /\ OpenOn(t, TTY) = {}
              THEN file' = t /\ fp' = [fp EXCEPT ![p].pc = "drain"] /\ UNCHANGED ofile
              ELSE After(p, t, ofile, fp[p])
    /\ UNCHANGED ttystate

(* ttyclose waits for output; then t_state is 0.                           *)
TtyDrained(p) ==
    /\ fp[p].pc = "drain"
    /\ ttystate' = FALSE
    /\ After(p, file, ofile, fp[p])
    /\ UNCHANGED iref

(* sleep at TTOPRI: a signal takes the process straight out of the call.   *)
Signalled(p) ==
    /\ fp[p].pc = "drain" /\ fp[p].ret \in Ends
    /\ fp' = [fp EXCEPT ![p] = FIdle]
    /\ UNCHANGED <<file, ofile, iref, ttystate>>

(* dup(fdes, fdes2): what fdes2 refers to is closed first.                 *)
Dup(p, i, j) ==
    /\ InUser(p) /\ ofile[p][i] # 0 /\ i # j
    /\ IF ofile[p][j] = 0
       THEN /\ file' = [file EXCEPT ![ofile[p][i]].count = @ + 1]
            /\ ofile' = [ofile EXCEPT ![p][j] = ofile[p][i]]
            /\ UNCHANGED fp
       ELSE Closef(p, ofile, Closing(ofile[p][j], "dup", i, j))
    /\ UNCHANGED <<iref, ttystate>>

-----------------------------------------------------------------------------
(* newproc: a reference more for every descriptor.                         *)
Uses(o, f) == Cardinality({i \in Fds : o[i] = f})

ForkFiles(p, q) ==
    /\ InUser(p) /\ fp[q].pc = "none"
    /\ file' = [f \in FileSlots |-> [file[f] EXCEPT !.count = @ + Uses(ofile[p], f)]]
    /\ ofile' = [ofile EXCEPT ![q] = ofile[p]]
    /\ fp' = [fp EXCEPT ![q] = FIdle]
    /\ UNCHANGED <<iref, ttystate>>

(* exit closes the descriptors in order.                                   *)
ExitFiles(p) ==
    /\ InUser(p) \/ fp[p].pc = "exit"
    /\ LET open == {i \in Fds : ofile[p][i] # 0}
       IN  IF open = {}
           THEN fp' = [fp EXCEPT ![p] = [FIdle EXCEPT !.pc = "none"]] /\ UNCHANGED <<file, ofile>>
           ELSE Closef(p, [ofile EXCEPT ![p][Min(open)] = 0], Closing(ofile[p][Min(open)], "exit", 0, 0))
    /\ UNCHANGED <<iref, ttystate>>

FilesNext ==
    \E p \in FProcs :
        \/ \E n \in FInos : Open(p, n) \/ PipeCall(p, n)
        \/ \E i \in Fds : Close(p, i)
        \/ \E i, j \in Fds : Dup(p, i, j)
        \/ LastClose(p) \/ TtyDrained(p) \/ Signalled(p)
        \/ \E q \in FProcs : ForkFiles(p, q)
        \/ ExitFiles(p)

FilesSpec == FilesInit /\ [][FilesNext]_fileVars

-----------------------------------------------------------------------------
(* The file structure that descriptor i of p refers to, and Held(p, 0) the *)
(* one whose last reference closef is about to give up.  A descriptor that *)
(* dup closes to set it again refers to nothing meanwhile.                 *)
Held(p, i) ==
    IF i = 0 THEN IF fp[p].pc = "plock" THEN fp[p].f ELSE 0
    ELSE IF fp[p].ret = "dup" /\ fp[p].to = i THEN 0 ELSE ofile[p][i]

Refs(f) == Cardinality({x \in FProcs \X (0 .. NOFILE) : Held(x[1], x[2]) = f})

(* f_count is the number of references to a file structure, and i_count is *)
(* the number of file structures in use for the inode: nothing is lost     *)
(* when pipe fails half-way or when processes close, dup, fork and exit at *)
(* the same time.                                                          *)
FilesCounted ==
    /\ \A f \in FileSlots : file[f].count = Refs(f)
    /\ \A n \in FInos : iref[n] = Cardinality(OpenOn(file, n))

(* "clean tp on last close" (dev/tty.c:97): a terminal on which a file is  *)
(* open is ISOPEN.                                                         *)
OpenTtyIsOpen == OpenOn(file, TTY) # {} => ttystate
=============================================================================
