----------------------------- MODULE ProcProofs ------------------------------
(***************************************************************************)
(* Of fork, exit, wait, signals and ptrace, with tables of any size: every *)
(* process has a number of its own and a parent that can collect it, and   *)
(* nobody sleeps or stops for good while there is something for it to do.  *)
(***************************************************************************)
EXTENDS Proc, FiniteSetTheorems, FunctionTheorems, NaturalsInduction, TLAPS

Stats == {"null", "run", "sleep", "stop", "zomb"}
Pcs == {"none", "user", "pause", "exit", "waitslp", "ipclock", "ipcreq", "stop"}

ProcRec == [stat : Stats, pid : Nat, ppid : Nat, pgrp : Nat, su : BOOLEAN, sig : SUBSET Sigs,
            strc : BOOLEAN, swted : BOOLEAN, wchan : Nat, pc : Pcs, with : Nat,
            act : [Sigs -> Dispositions]]

ProcTypeOK ==
    /\ pr \in [Slots -> ProcRec]
    /\ mpid \in Nat
    /\ ipc \in [lock : Nat, req : Int]

(* What the status of a process says of the rest of its entry.              *)
Entry(s, r) ==
    /\ r.stat = "null" => r.pid = 0 /\ r.ppid = 0 /\ r.pgrp = 0 /\ r.pc = "none"
    /\ r.stat # "null" => r.pid \in 1 .. PIDMAX - 1
    /\ r.stat = "zomb" => r.pc = "exit"
    /\ r.stat = "stop" => r.pc = "stop" /\ r.ppid # 1
    /\ r.stat = "sleep" => \/ r.pc = "waitslp" /\ r.wchan = s
                           \/ r.pc = "pause" /\ r.wchan = U
                           \/ r.pc \in {"ipclock", "ipcreq"} /\ r.wchan = IPC
    /\ r.pc \in {"waitslp", "pause", "ipclock", "ipcreq"} => r.stat \in {"run", "sleep"}
    /\ s = 1 => /\ r.stat \in {"run", "sleep"} /\ r.pid = 1
                /\ r.pc \in {"user", "waitslp", "ipclock", "ipcreq"}

Entries == \A s \in Slots : Entry(s, pr[s])

(* Numbers are different, and parents are alive.                            *)
Numbered == \A p, q \in Slots : Exists(p) /\ Exists(q) /\ pr[p].pid = pr[q].pid => p = q
Alive(q) == pr[q].stat \notin {"null", "zomb"}
Fathered == \A p \in Slots : Exists(p) /\ p # 1 =>
                \E q \in Slots : Alive(q) /\ pr[q].pid = pr[p].ppid

(* A process asleep in wait has children, none of them to report.           *)
WaitsFor(s, c) == Exists(c) /\ pr[c].ppid = pr[s].pid
Waiting ==
    \A s \in Slots : pr[s].stat = "sleep" /\ pr[s].pc = "waitslp" =>
        /\ \E c \in Slots : WaitsFor(s, c)
        /\ \A c \in Slots : WaitsFor(s, c) =>
              pr[c].stat # "zomb" /\ (pr[c].stat = "stop" => pr[c].swted)

(* The lock of ptrace is held by one process, which sleeps until the child  *)
(* it has let go on has answered; who waits for the lock has a stopped      *)
(* child that only itself can let go on.                                    *)
Tracing ==
    /\ \A s, q \in Slots : pr[s].pc = "ipcreq" /\ pr[q].pc = "ipcreq" => s = q
    /\ ipc.lock # 0 <=> \E s \in Slots : pr[s].pc = "ipcreq"
    /\ \A s \in Slots :
          /\ pr[s].pc = "ipclock" => /\ pr[s].with \in Slots
                                     /\ pr[pr[s].with].stat = "stop"
                                     /\ pr[pr[s].with].ppid = pr[s].pid
          /\ pr[s].pc = "ipclock" /\ pr[s].stat = "sleep" => ipc.lock # 0
          /\ pr[s].pc = "ipcreq" /\ pr[s].stat = "sleep" =>
                /\ ipc.req > 0 /\ pr[s].with \in Slots
                /\ ipc.lock = pr[pr[s].with].pid
                /\ pr[pr[s].with].stat = "run" /\ pr[pr[s].with].pc = "stop"
          /\ pr[s].pc = "ipcreq" /\ pr[s].stat = "run" => ipc.req <= 0

GroupOK == tty.pgrp \in Nat

ProcInv == ProcTypeOK /\ GroupOK /\ Entries /\ Numbered /\ Fathered /\ Waiting /\ Tracing

-----------------------------------------------------------------------------
(* Numbers. *)
LEMMA MinExists ==
    ASSUME NEW S \in SUBSET Nat, S # {}
    PROVE  Min(S) \in S /\ \A n \in S : Min(S) <= n
<1>1. PICK x \in S : \A y \in S : ~(<<y, x>> \in OpToRel(<, Nat))
  BY NatLessThanWellFounded, WFMin, Zenon
<1>2. PICK R : R = OpToRel(<, Nat)
  BY Zenon
<1>3. \A a, b \in Nat : a < b => <<a, b>> \in R
  BY <1>2, Zenon DEF OpToRel
<1>4. \A y \in S : x <= y
  <2>1. \A y \in S : ~(<<y, x>> \in R)
    BY <1>1, <1>2, Zenon
  <2> HIDE <1>1, <1>2
  <2>2. \A y \in S : ~(y < x)
    BY <1>3, <2>1
  <2> QED BY <2>2
<1> QED BY <1>4 DEF Min

LEMMA Consts ==
    /\ NPROC \in Nat /\ PIDMAX \in Nat /\ NPROC >= 1 /\ PIDMAX > 2 * NPROC
    /\ Slots = 1 .. NPROC /\ Slots \subseteq Nat /\ 1 \in Slots /\ 0 \notin Slots
    /\ IPC \in Nat /\ U \in Nat /\ IPC \notin Slots /\ U \notin Slots /\ IPC # U
    /\ 0 # IPC /\ 0 # U /\ Sigs \subseteq Nat
BY ProcConstants DEF Slots, IPC, U

(* A set that a function of a finite set covers is no larger.               *)
LEMMA Covered ==
    ASSUME NEW S, IsFiniteSet(S), NEW f, NEW T, T = {f[x] : x \in S}
    PROVE  IsFiniteSet(T) /\ Cardinality(T) <= Cardinality(S)
<1>1. PICK g : g = [x \in S |-> f[x]]
  OBVIOUS
<1>2. g \in [S -> T] /\ \A y \in T : \E x \in S : g[x] = y
  BY <1>1
<1>3. g \in Surjection(S, T)
  BY <1>2, Fun_IsSurj
<1> QED BY <1>3, FS_Surjection

(* There is a number left while there is a slot left: a slot takes two      *)
(* numbers at most, its process's and its group's.                          *)
LEMMA NumberLeft ==
    ASSUME ProcTypeOK, Entries, NEW c \in Slots, ~Exists(c)
    PROVE  NewPid \in 1 .. PIDMAX - 1 /\ NewPid \notin Taken
<1> DEFINE S == Slots \ {c}
           P == {[s \in Slots |-> pr[s].pid][x] : x \in S}
           G == {[s \in Slots |-> pr[s].pgrp][x] : x \in S}
<1>0. pr[c].pid = 0 /\ pr[c].pgrp = 0
  BY DEF Entries, Entry, Exists
<1>1. IsFiniteSet(S) /\ Cardinality(S) = NPROC - 1
  <2>1. IsFiniteSet(1 .. NPROC) /\ Cardinality(1 .. NPROC) = NPROC
    BY FS_Interval, Consts
  <2>2. IsFiniteSet(Slots) /\ Cardinality(Slots) = NPROC
    BY <2>1, Consts
  <2> QED BY <2>2, FS_RemoveElement, Consts
<1>2. IsFiniteSet(P) /\ Cardinality(P) <= Cardinality(S)
  <2> HIDE DEF S
  <2> QED BY <1>1, Covered
<1>3. IsFiniteSet(G) /\ Cardinality(G) <= Cardinality(S)
  <2> HIDE DEF S
  <2> QED BY <1>1, Covered
<1>4. \A n \in 1 .. PIDMAX - 1 : n \in Taken => n \in P \cup G
  <2>1. TAKE n \in 1 .. PIDMAX - 1
  <2>2. HAVE n \in Taken
  <2>3. PICK s \in Slots : n = pr[s].pid \/ n = pr[s].pgrp
    BY <2>2 DEF Taken
  <2>4. s # c
    BY <1>0, <2>1, <2>3, Consts
  <2> QED BY <2>3, <2>4
<1>5. IsFiniteSet(P \cup G) /\ Cardinality(P \cup G) < PIDMAX - 1
  <2> HIDE DEF P, G
  <2>1. /\ IsFiniteSet(P \cup G)
        /\ Cardinality(P \cup G) = Cardinality(P) + Cardinality(G) - Cardinality(P \cap G)
    BY <1>2, <1>3, FS_Union
  <2>2. IsFiniteSet(P \cap G)
    BY <1>2, FS_Intersection
  <2>3. Cardinality(P) \in Nat /\ Cardinality(G) \in Nat /\ Cardinality(P \cap G) \in Nat
    BY <1>2, <1>3, <2>2, FS_CardinalityType
  <2> QED BY <1>1, <1>2, <1>3, <2>1, <2>3, Consts
<1>6. IsFiniteSet(1 .. PIDMAX - 1) /\ Cardinality(1 .. PIDMAX - 1) = PIDMAX - 1
  <2>1. 1 \in Int /\ PIDMAX - 1 \in Int /\ ~(1 > PIDMAX - 1)
    BY Consts
  <2> QED BY <2>1, FS_Interval, Consts
<1>7. FreePids # {}
  <2>1. SUFFICES ASSUME FreePids = {} PROVE FALSE
    OBVIOUS
  <2>2. 1 .. PIDMAX - 1 \subseteq P \cup G
    BY <1>4, <2>1 DEF FreePids
  <2> HIDE DEF P, G
  <2>3. Cardinality(1 .. PIDMAX - 1) <= Cardinality(P \cup G)
    BY <1>5, <2>2, FS_Subset
  <2>4. Cardinality(P \cup G) \in Nat
    BY <1>5, FS_CardinalityType
  <2> QED BY <1>5, <1>6, <2>3, <2>4, Consts
<1>8. FreePids \in SUBSET Nat
  BY Consts DEF FreePids
<1> DEFINE above == {n \in FreePids : n > mpid}
<1>9. NewPid = Min(IF above # {} THEN above ELSE FreePids)
  BY DEF NewPid
<1>10. (IF above # {} THEN above ELSE FreePids) \in SUBSET FreePids
  OBVIOUS
<1>11. (IF above # {} THEN above ELSE FreePids) # {}
  BY <1>7
<1>12. NewPid \in FreePids
  <2> HIDE DEF above
  <2> QED BY <1>8, <1>9, <1>10, <1>11, MinExists
<1> QED BY <1>12 DEF FreePids

-----------------------------------------------------------------------------
(* What the operators on process tables do.                                 *)
Tables == [Slots -> ProcRec]

(* A process that at most a signal or a wakeup has reached.                 *)
Nudged(r, u) ==
    /\ u.pid = r.pid /\ u.ppid = r.ppid /\ u.pc = r.pc /\ u.with = r.with /\ u.swted = r.swted
    /\ r.stat = "null" => u.pgrp = r.pgrp
    /\ \/ u.stat = r.stat /\ u.wchan = r.wchan
       \/ r.stat = "sleep" /\ u.stat = "run"

LEMMA NudgedTwice ==
    ASSUME NEW r, NEW u, NEW v, Nudged(r, u), Nudged(u, v), r.stat = "null" => u.stat = "null"
    PROVE  Nudged(r, v)
BY DEF Nudged

LEMMA NudgedNot ==
    ASSUME NEW r
    PROVE  Nudged(r, r)
BY DEF Nudged

LEMMA WokenFacts ==
    ASSUME NEW t \in Tables, NEW chan
    PROVE  /\ Woken(t, chan) \in Tables
           /\ \A s \in Slots :
                 /\ Nudged(t[s], Woken(t, chan)[s])
                 /\ t[s].stat = "sleep" /\ t[s].wchan = chan => Woken(t, chan)[s].stat = "run"
                 /\ ~(t[s].stat = "sleep" /\ t[s].wchan = chan) => Woken(t, chan)[s] = t[s]
<1>1. Woken(t, chan) = [s \in Slots |-> IF t[s].stat = "sleep" /\ t[s].wchan = chan
                                        THEN [t[s] EXCEPT !.stat = "run", !.wchan = 0] ELSE t[s]]
  BY DEF Woken
<1>2. ASSUME NEW s \in Slots
      PROVE  LET u == [t[s] EXCEPT !.stat = "run", !.wchan = 0]
             IN  u \in ProcRec /\ u.stat = "run" /\ (t[s].stat = "sleep" => Nudged(t[s], u))
  BY DEF ProcRec, Stats, Nudged, Tables
<1> QED BY <1>1, <1>2, NudgedNot DEF Tables

LEMMA PsignalFacts ==
    ASSUME NEW t \in Tables, NEW ss, NEW n \in Sigs
    PROVE  /\ PsignalAll(t, ss, n) \in Tables
           /\ \A s \in Slots :
                 /\ Nudged(t[s], PsignalAll(t, ss, n)[s])
                 /\ t[s].wchan = IPC => PsignalAll(t, ss, n)[s].stat = t[s].stat
<1>1. PsignalAll(t, ss, n) = [s \in Slots |-> IF s \in ss THEN Psignal(t, s, n)[s] ELSE t[s]]
  BY DEF PsignalAll
<1>2. ASSUME NEW s \in Slots
      PROVE  /\ Psignal(t, s, n)[s] \in ProcRec
             /\ Nudged(t[s], Psignal(t, s, n)[s])
             /\ t[s].wchan = IPC => Psignal(t, s, n)[s].stat = t[s].stat
  <2>1. PICK r : r = [t[s] EXCEPT !.sig = @ \cup {n}]
    OBVIOUS
  <2>2. PICK u : u = [r EXCEPT !.stat = "run", !.wchan = 0]
    OBVIOUS
  <2>3. Psignal(t, s, n)[s] = IF Interruptible(r) THEN u ELSE r
    BY <2>1, <2>2 DEF Psignal, Tables
  <2>4. /\ t[s] \in ProcRec /\ r \in ProcRec
        /\ r.stat = t[s].stat /\ r.wchan = t[s].wchan /\ Nudged(t[s], r)
    BY <2>1 DEF Tables, ProcRec, Nudged
  <2>5. u \in ProcRec /\ u.stat = "run" /\ (r.stat = "sleep" => Nudged(t[s], u))
    BY <2>2, <2>4 DEF ProcRec, Stats, Nudged
  <2> QED BY <2>3, <2>4, <2>5 DEF Interruptible
<1> QED BY <1>1, <1>2, NudgedNot DEF Tables

LEMMA AsleepFacts ==
    ASSUME pr \in Tables, NEW s \in Slots, NEW chan \in Nat, NEW pc \in Pcs
    PROVE  /\ Asleep(s, chan, pc) \in Tables
           /\ \A q \in Slots : q # s => Asleep(s, chan, pc)[q] = pr[q]
           /\ LET u == Asleep(s, chan, pc)[s]
              IN  /\ u.stat = "sleep" /\ u.wchan = chan /\ u.pc = pc
                  /\ u.pid = pr[s].pid /\ u.ppid = pr[s].ppid /\ u.swted = pr[s].swted
                  /\ u.with = pr[s].with
<1>1. PICK r : r = [pr[s] EXCEPT !.stat = "sleep", !.wchan = chan, !.pc = pc]
  OBVIOUS
<1>2. r \in ProcRec
  BY <1>1 DEF Tables, ProcRec, Stats
<1>3. Asleep(s, chan, pc) = [pr EXCEPT ![s] = r]
  BY <1>1 DEF Asleep, Tables
<1>4. /\ r.stat = "sleep" /\ r.wchan = chan /\ r.pc = pc
      /\ r.pid = pr[s].pid /\ r.ppid = pr[s].ppid /\ r.swted = pr[s].swted /\ r.with = pr[s].with
  BY <1>1 DEF Tables, ProcRec
<1> QED BY <1>2, <1>3, <1>4 DEF Tables

(* The same process, on its way to be r.                                    *)
Becomes(t, u, s, st, l) ==
    /\ u \in Tables /\ u[s].stat = st /\ u[s].pc = l
    /\ u[s].pid = t[s].pid /\ u[s].ppid = t[s].ppid
    /\ \A q \in Slots : q # s => Nudged(t[q], u[q])

LEMMA ExitStartsFacts ==
    ASSUME NEW t \in Tables, NEW s \in Slots
    PROVE  /\ Becomes(t, ExitStarts(t, s), s, t[s].stat, "exit")
           /\ \A q \in Slots : q # s => ExitStarts(t, s)[q] = t[q]
<1>1. PICK a : a = [n \in Sigs |-> "ignore"]
  OBVIOUS
<1>2. a \in [Sigs -> Dispositions]
  BY <1>1 DEF Dispositions
<1>3. PICK r : r = [t[s] EXCEPT !.strc = FALSE, !.pc = "exit", !.act = a]
  OBVIOUS
<1>4. r \in ProcRec
  BY <1>2, <1>3, ZenonT(60) DEF Tables, ProcRec, Pcs
<1>5. r.stat = t[s].stat /\ r.pc = "exit" /\ r.pid = t[s].pid /\ r.ppid = t[s].ppid
  BY <1>3 DEF Tables, ProcRec
<1>6. ExitStarts(t, s) = [t EXCEPT ![s] = r]
  BY <1>1, <1>3 DEF ExitStarts, Tables
<1>7. PICK e : e = ExitStarts(t, s)
  OBVIOUS
<1>8. e \in Tables /\ e[s] = r /\ \A q \in Slots : q # s => e[q] = t[q]
  BY <1>4, <1>6, <1>7 DEF Tables
<1>9. \A q \in Slots : q # s => Nudged(t[q], e[q])
  BY <1>8, NudgedNot
<1> QED BY <1>5, <1>7, <1>8, <1>9 DEF Becomes

LEMMA KeptFacts ==
    ASSUME NEW r \in ProcRec
    PROVE  Kept(r) \in SUBSET Sigs
BY DEF Kept, ProcRec

LEMMA FsigFacts ==
    ASSUME NEW r \in ProcRec
    PROVE  Fsig(r) = 0 \/ Fsig(r) \in Sigs
<1>1. CASE r.sig = {}
  BY <1>1 DEF Fsig
<1>2. CASE r.sig # {}
  <2>1. r.sig \in SUBSET Nat /\ r.sig \subseteq Sigs
    BY Consts DEF ProcRec
  <2>2. Min(r.sig) \in r.sig
    BY <1>2, <2>1, MinExists
  <2> QED BY <1>2, <2>1, <2>2 DEF Fsig
<1> QED BY <1>1, <1>2

(* psig acts on a signal: back to user mode, or into exit.                  *)
LEMMA ActFacts ==
    ASSUME NEW t \in Tables, NEW s \in Slots
    PROVE  /\ \/ Becomes(t, Act(t, s), s, t[s].stat, "user")
              \/ Becomes(t, Act(t, s), s, t[s].stat, "exit")
           /\ \A q \in Slots : q # s => Act(t, s)[q] = t[q]
<1>0. PICK n : n = Fsig(t[s])
  OBVIOUS
<1>1. t[s] \in ProcRec /\ (n = 0 \/ n \in Sigs)
  BY <1>0, FsigFacts DEF Tables
<1>2. CASE n = 0
  <2>1. PICK r : r = [t[s] EXCEPT !.pc = "user"]
    OBVIOUS
  <2>2. r \in ProcRec /\ r.stat = t[s].stat /\ r.pc = "user" /\ r.pid = t[s].pid /\ r.ppid = t[s].ppid
    BY <1>1, <2>1 DEF ProcRec, Pcs
  <2>3. PICK e : e = Act(t, s)
    OBVIOUS
  <2>4. e = [t EXCEPT ![s] = r]
    BY <1>0, <1>2, <2>1, <2>3 DEF Act, Tables
  <2>5. e \in Tables /\ e[s] = r /\ \A q \in Slots : q # s => e[q] = t[q]
    BY <2>2, <2>4 DEF Tables
  <2>6. \A q \in Slots : q # s => Nudged(t[q], e[q])
    BY <2>5, NudgedNot
  <2> QED BY <2>2, <2>3, <2>5, <2>6 DEF Becomes
<1>3. CASE n # 0 /\ t[s].act[n] # "default"
  <2>0. PICK a : a = [t[s].act EXCEPT ![n] = "default"]
    OBVIOUS
  <2>1. PICK r : r = [t[s] EXCEPT !.sig = @ \ {n}, !.act = a, !.pc = "user"]
    OBVIOUS
  <2>2. a \in [Sigs -> Dispositions]
    BY <1>1, <2>0 DEF ProcRec, Dispositions
  <2>3. r \in ProcRec /\ r.stat = t[s].stat /\ r.pc = "user" /\ r.pid = t[s].pid /\ r.ppid = t[s].ppid
    BY <1>1, <2>1, <2>2 DEF ProcRec, Pcs
  <2>4. PICK e : e = Act(t, s)
    OBVIOUS
  <2>5. e = [t EXCEPT ![s].sig = @ \ {n}, ![s].act[n] = "default", ![s].pc = "user"]
    BY <1>0, <1>3, <2>4 DEF Act
  <2>6. e = [t EXCEPT ![s] = r]
    BY <1>1, <2>0, <2>1, <2>5 DEF Tables, ProcRec
  <2>7. e \in Tables /\ e[s] = r /\ \A q \in Slots : q # s => e[q] = t[q]
    BY <2>3, <2>6 DEF Tables
  <2>8. \A q \in Slots : q # s => Nudged(t[q], e[q])
    BY <2>7, NudgedNot
  <2> QED BY <2>3, <2>4, <2>7, <2>8 DEF Becomes
<1>4. CASE n # 0 /\ t[s].act[n] = "default"
  <2>1. PICK r : r = [t[s] EXCEPT !.sig = @ \ {n}]
    OBVIOUS
  <2>2. r \in ProcRec /\ r.stat = t[s].stat /\ r.pid = t[s].pid /\ r.ppid = t[s].ppid
    BY <1>1, <2>1 DEF ProcRec
  <2>3. PICK v : v = [t EXCEPT ![s] = r]
    OBVIOUS
  <2>4. v \in Tables /\ v[s] = r /\ \A q \in Slots : q # s => v[q] = t[q]
    BY <2>2, <2>3 DEF Tables
  <2>5. Act(t, s) = ExitStarts(v, s)
    BY <1>0, <1>1, <1>4, <2>1, <2>3 DEF Act, Tables
  <2>6. /\ Becomes(v, ExitStarts(v, s), s, v[s].stat, "exit")
        /\ \A q \in Slots : q # s => ExitStarts(v, s)[q] = v[q]
    BY <2>4, ExitStartsFacts
  <2> QED BY <2>2, <2>4, <2>5, <2>6 DEF Becomes
<1> QED BY <1>1, <1>2, <1>3, <1>4

(* stop: the parent is woken and the process stops, or it exits.            *)
LEMMA StopOrExitFacts ==
    ASSUME NEW t \in Tables, NEW s \in Slots
    PROVE  \/ /\ Becomes(t, StopOrExit(t, s), s, t[s].stat, "exit")
              /\ \A q \in Slots : q # s => StopOrExit(t, s)[q] = t[q]
           \/ /\ Becomes(t, StopOrExit(t, s), s, "stop", "stop")
              /\ t[s].ppid # 1
              /\ \E m \in Slots :
                    /\ t[m].pid = t[s].ppid
                    /\ \A q \in Slots : q # s =>
                          IF t[q].stat = "sleep" /\ t[q].wchan = m
                          THEN StopOrExit(t, s)[q].stat = "run"
                          ELSE StopOrExit(t, s)[q] = t[q]
<1>1. PICK parent : parent = {q \in Slots : t[q].pid = t[s].ppid}
  OBVIOUS
<1>2. CASE t[s].ppid # 1 /\ parent # {}
  <2>1. PICK m : m = Min(parent)
    OBVIOUS
  <2>2. m \in Slots /\ t[m].pid = t[s].ppid
    BY <1>1, <1>2, <2>1, MinExists, Consts
  <2>3. PICK w : w = Woken(t, m)
    OBVIOUS
  <2>4. PICK r : r = [w[s] EXCEPT !.stat = "stop", !.pc = "stop"]
    OBVIOUS
  <2>5. /\ w \in Tables
        /\ \A q \in Slots :
             /\ Nudged(t[q], w[q])
             /\ t[q].stat = "sleep" /\ t[q].wchan = m => w[q].stat = "run"
             /\ ~(t[q].stat = "sleep" /\ t[q].wchan = m) => w[q] = t[q]
    BY <2>3, WokenFacts
  <2>6. r \in ProcRec /\ r.stat = "stop" /\ r.pc = "stop" /\ r.pid = w[s].pid /\ r.ppid = w[s].ppid
    <3>1. w[s] \in ProcRec
      BY <2>5 DEF Tables
    <3> QED BY <2>4, <3>1 DEF ProcRec, Stats, Pcs
  <2>7. PICK e : e = StopOrExit(t, s)
    OBVIOUS
  <2>8. e = [w EXCEPT ![s] = r]
    BY <1>1, <1>2, <2>1, <2>3, <2>4, <2>5, <2>7 DEF StopOrExit, Tables
  <2>9. e \in Tables /\ e[s] = r /\ \A q \in Slots : q # s => e[q] = w[q]
    BY <2>5, <2>6, <2>8 DEF Tables
  <2>10. w[s].pid = t[s].pid /\ w[s].ppid = t[s].ppid
    BY <2>5 DEF Nudged
  <2>11. Becomes(t, e, s, "stop", "stop")
    BY <2>5, <2>6, <2>9, <2>10 DEF Becomes
  <2>12. \A q \in Slots : q # s => IF t[q].stat = "sleep" /\ t[q].wchan = m
                                   THEN e[q].stat = "run" ELSE e[q] = t[q]
    BY <2>5, <2>9
  <2> QED BY <1>2, <2>2, <2>7, <2>11, <2>12
<1>3. CASE ~(t[s].ppid # 1 /\ parent # {})
  <2>1. StopOrExit(t, s) = ExitStarts(t, s)
    BY <1>1, <1>3 DEF StopOrExit
  <2> QED BY <2>1, ExitStartsFacts
<1> QED BY <1>2, <1>3

-----------------------------------------------------------------------------
(* What keeps the parts of the invariant.                                   *)

(* No process is made, ends or is collected.                                *)
SameTree ==
    \A s \in Slots : /\ pr'[s].pid = pr[s].pid /\ pr'[s].ppid = pr[s].ppid
                     /\ pr'[s].stat = "null" <=> pr[s].stat = "null"
                     /\ pr'[s].stat = "zomb" <=> pr[s].stat = "zomb"

LEMMA TreeKept ==
    ASSUME ProcInv, SameTree
    PROVE  Numbered' /\ Fathered'
<1>1. Numbered'
  BY DEF ProcInv, Numbered, Exists, SameTree
<1>2. Fathered'
  <2>1. SUFFICES ASSUME NEW p \in Slots, pr'[p].stat # "null", p # 1
                 PROVE  \E q \in Slots : pr'[q].stat \notin {"null", "zomb"} /\ pr'[q].pid = pr'[p].ppid
    BY DEF Fathered, Exists, Alive
  <2>2. PICK q \in Slots : pr[q].stat \notin {"null", "zomb"} /\ pr[q].pid = pr[p].ppid
    BY <2>1 DEF ProcInv, Fathered, Exists, Alive, SameTree
  <2> QED BY <2>1, <2>2 DEF SameTree
<1> QED BY <1>1, <1>2

LEMMA NudgedEntry ==
    ASSUME NEW s \in Slots, Entry(s, pr[s]), Nudged(pr[s], pr'[s])
    PROVE  Entry(s, pr'[s])
BY DEF Entry, Nudged

LEMMA NudgedSame ==
    ASSUME NEW s \in Slots, Nudged(pr[s], pr'[s])
    PROVE  /\ pr'[s].pid = pr[s].pid /\ pr'[s].ppid = pr[s].ppid
           /\ pr'[s].pc = pr[s].pc /\ pr'[s].with = pr[s].with /\ pr'[s].swted = pr[s].swted
           /\ pr'[s].stat = "null" <=> pr[s].stat = "null"
           /\ pr'[s].stat = "zomb" <=> pr[s].stat = "zomb"
           /\ pr'[s].stat = "stop" <=> pr[s].stat = "stop"
           /\ pr[s].stat = "run" => pr'[s].stat = "run"
           /\ pr'[s].stat = "sleep" => pr[s].stat = "sleep"
BY DEF Nudged

(* No one that sleeps in wait gets a child to report.                       *)
AsleepInWait(r) == r.stat = "sleep" /\ r.pc = "waitslp"
ToReport(r) == r.stat = "zomb" \/ (r.stat = "stop" /\ ~r.swted)

LEMMA WaitingKept ==
    ASSUME ProcInv, SameTree,
           \A s \in Slots : AsleepInWait(pr'[s]) =>
               \/ /\ AsleepInWait(pr[s])
                  /\ \A c \in Slots : pr[c].ppid = pr[s].pid /\ ToReport(pr'[c]) => ToReport(pr[c])
               \/ /\ \E c \in Slots : pr[c].stat # "null" /\ pr[c].ppid = pr[s].pid
                  /\ \A c \in Slots : pr[c].ppid = pr[s].pid => ~ToReport(pr'[c])
    PROVE  Waiting'
<1>1. SUFFICES ASSUME NEW s \in Slots, AsleepInWait(pr'[s])
               PROVE  /\ \E c \in Slots : pr'[c].stat # "null" /\ pr'[c].ppid = pr'[s].pid
                      /\ \A c \in Slots : pr'[c].stat # "null" /\ pr'[c].ppid = pr'[s].pid
                                            => ~ToReport(pr'[c])
  BY DEF Waiting, WaitsFor, AsleepInWait, ToReport, Exists
<1>2. CASE /\ AsleepInWait(pr[s])
           /\ \A c \in Slots : pr[c].ppid = pr[s].pid /\ ToReport(pr'[c]) => ToReport(pr[c])
  <2>1. /\ \E c \in Slots : pr[c].stat # "null" /\ pr[c].ppid = pr[s].pid
        /\ \A c \in Slots : pr[c].stat # "null" /\ pr[c].ppid = pr[s].pid => ~ToReport(pr[c])
    BY <1>2 DEF ProcInv, Waiting, WaitsFor, AsleepInWait, ToReport, Exists
  <2> QED BY <1>2, <2>1 DEF SameTree
<1>3. CASE /\ \E c \in Slots : pr[c].stat # "null" /\ pr[c].ppid = pr[s].pid
           /\ \A c \in Slots : pr[c].ppid = pr[s].pid => ~ToReport(pr'[c])
  BY <1>3 DEF SameTree
<1> QED BY <1>1, <1>2, <1>3

(* Who has to do with the lock of ptrace goes on as it was: the lock is not *)
(* given up, and the request is answered or its child is still to answer.   *)
LEMMA TracingKept ==
    ASSUME ProcInv, SameTree, ipc'.lock = ipc.lock,
           \A q \in Slots : pr'[q].pc \in {"ipclock", "ipcreq"} \/ pr[q].pc \in {"ipclock", "ipcreq"} =>
               /\ pr'[q].pc = pr[q].pc /\ pr'[q].with = pr[q].with
               /\ pr'[q].stat = "sleep" => pr[q].stat = "sleep"
               /\ pr'[q].stat \in {"run", "sleep"},
           \A c \in Slots : pr[c].stat = "stop" => pr'[c].stat = "stop",
           \/ /\ ipc' = ipc
              /\ \A q \in Slots : pr[q].pc = "ipcreq" => pr'[q].stat = pr[q].stat
              /\ \A c \in Slots : pr[c].stat = "run" /\ pr[c].pc = "stop" /\ pr[c].pid = ipc.lock =>
                     pr'[c].stat = "run" /\ pr'[c].pc = "stop"
           \/ ipc'.req <= 0 /\ \A q \in Slots : pr'[q].pc = "ipcreq" => pr'[q].stat # "sleep"
    PROVE  Tracing'
<1>0. Tracing
  BY DEF ProcInv
<1>1. \A s, q \in Slots : pr'[s].pc = "ipcreq" /\ pr'[q].pc = "ipcreq" => s = q
  BY <1>0 DEF Tracing
<1>2. ipc'.lock # 0 <=> \E s \in Slots : pr'[s].pc = "ipcreq"
  BY <1>0 DEF Tracing
<1>3. ASSUME NEW s \in Slots, pr'[s].pc = "ipclock"
      PROVE  /\ pr'[s].with \in Slots
             /\ pr'[pr'[s].with].stat = "stop"
             /\ pr'[pr'[s].with].ppid = pr'[s].pid
             /\ pr'[s].stat = "sleep" => ipc'.lock # 0
  <2>1. pr[s].pc = "ipclock" /\ pr'[s].with = pr[s].with
    BY <1>3
  <2>2. pr[s].with \in Slots /\ pr[pr[s].with].stat = "stop" /\ pr[pr[s].with].ppid = pr[s].pid
        /\ (pr[s].stat = "sleep" => ipc.lock # 0)
    BY <1>0, <2>1 DEF Tracing
  <2> QED BY <1>3, <2>1, <2>2 DEF SameTree
<1>4. ASSUME NEW s \in Slots, pr'[s].pc = "ipcreq", pr'[s].stat = "sleep"
      PROVE  /\ ipc'.req > 0 /\ pr'[s].with \in Slots
             /\ ipc'.lock = pr'[pr'[s].with].pid
             /\ pr'[pr'[s].with].stat = "run" /\ pr'[pr'[s].with].pc = "stop"
  <2>1. pr[s].pc = "ipcreq" /\ pr[s].stat = "sleep" /\ pr'[s].with = pr[s].with
    BY <1>4
  <2>2. /\ ipc.req > 0 /\ pr[s].with \in Slots
        /\ ipc.lock = pr[pr[s].with].pid
        /\ pr[pr[s].with].stat = "run" /\ pr[pr[s].with].pc = "stop"
    BY <1>0, <2>1 DEF Tracing
  <2> QED BY <1>4, <2>1, <2>2 DEF SameTree
<1>5. ASSUME NEW s \in Slots, pr'[s].pc = "ipcreq", pr'[s].stat = "run"
      PROVE  ipc'.req <= 0
  <2>1. pr[s].pc = "ipcreq"
    BY <1>5
  <2> QED BY <1>0, <1>5, <2>1 DEF Tracing
<1> QED BY <1>1, <1>2, <1>3, <1>4, <1>5 DEF Tracing

(* Everybody is as he was but for signals and wakeups.                      *)
LEMMA NudgeStep ==
    ASSUME ProcInv, GroupOK', pr' \in Tables, mpid' = mpid, ipc' = ipc,
           \A q \in Slots : Nudged(pr[q], pr'[q]),
           \A q \in Slots : pr[q].wchan = IPC => pr'[q].stat = pr[q].stat
    PROVE  ProcInv'
<1>1. ProcTypeOK'
  BY DEF ProcInv, ProcTypeOK, Tables
<1>2. Entries'
  BY NudgedEntry DEF ProcInv, Entries
<1>3. SameTree
  BY NudgedSame DEF SameTree
<1>4. Waiting'
  <2>1. ASSUME NEW s \in Slots, AsleepInWait(pr'[s])
        PROVE  /\ AsleepInWait(pr[s])
               /\ \A c \in Slots : pr[c].ppid = pr[s].pid /\ ToReport(pr'[c]) => ToReport(pr[c])
    BY <2>1, NudgedSame DEF AsleepInWait, ToReport
  <2> QED BY <1>3, <2>1, WaitingKept
<1>5. Tracing'
  <2>1. \A q \in Slots : pr[q].pc \in {"ipclock", "ipcreq"} => pr[q].stat \in {"run", "sleep"}
            /\ (pr[q].stat = "sleep" => pr[q].wchan = IPC)
    BY DEF ProcInv, Entries, Entry
  <2>2. \A q \in Slots : pr[q].pc = "ipcreq" => pr'[q].stat = pr[q].stat
    BY <2>1, NudgedSame
  <2>3. \A q \in Slots : pr'[q].pc \in {"ipclock", "ipcreq"} \/ pr[q].pc \in {"ipclock", "ipcreq"} =>
               /\ pr'[q].pc = pr[q].pc /\ pr'[q].with = pr[q].with
               /\ pr'[q].stat = "sleep" => pr[q].stat = "sleep"
               /\ pr'[q].stat \in {"run", "sleep"}
    BY <2>1, NudgedSame DEF Nudged
  <2>4. \A c \in Slots : /\ pr[c].stat = "stop" => pr'[c].stat = "stop"
                         /\ pr[c].stat = "run" /\ pr[c].pc = "stop" => pr'[c].stat = "run" /\ pr'[c].pc = "stop"
    BY NudgedSame
  <2> QED BY <1>3, <2>2, <2>3, <2>4, TracingKept
<1> QED BY <1>1, <1>2, <1>3, <1>4, <1>5, TreeKept DEF ProcInv

(* s goes on with what it does, without ending; others are at most nudged.  *)
LEMMA ActorStep ==
    ASSUME ProcInv, GroupOK', NEW s \in Slots, pr[s].stat = "run",
           pr[s].pc \notin {"ipclock", "ipcreq"},
           pr' \in Tables, mpid' = mpid, ipc' \in [lock : Nat, req : Int],
           pr'[s].pid = pr[s].pid, pr'[s].ppid = pr[s].ppid,
           pr'[s].stat \in {"run", "sleep", "stop"}, pr'[s].pc \notin {"ipclock", "ipcreq"},
           Entry(s, pr'[s]),
           \A q \in Slots : q # s => Nudged(pr[q], pr'[q]),
           AsleepInWait(pr'[s]) =>
              /\ \E c \in Slots : pr[c].stat # "null" /\ pr[c].ppid = pr[s].pid
              /\ \A c \in Slots : pr[c].ppid = pr[s].pid => ~ToReport(pr'[c]),
           pr'[s].stat = "stop" => \A q \in Slots : pr[q].pid = pr[s].ppid => ~AsleepInWait(pr'[q]),
           ipc'.lock = ipc.lock,
           \/ /\ ipc' = ipc
              /\ \A q \in Slots : q # s /\ pr[q].wchan = IPC => pr'[q].stat = pr[q].stat
              /\ pr[s].pc = "stop" => pr[s].pid # ipc.lock
           \/ ipc'.req <= 0 /\ \A q \in Slots : pr'[q].pc = "ipcreq" => pr'[q].stat # "sleep"
    PROVE  ProcInv'
<1>1. ProcTypeOK'
  BY DEF ProcInv, ProcTypeOK, Tables
<1>2. Entries'
  <2>1. \A q \in Slots : q # s => Entry(q, pr'[q])
    BY NudgedEntry DEF ProcInv, Entries
  <2> QED BY <2>1 DEF Entries
<1>3. SameTree
  <2>1. \A q \in Slots : q # s =>
           /\ pr'[q].pid = pr[q].pid /\ pr'[q].ppid = pr[q].ppid
           /\ pr'[q].stat = "null" <=> pr[q].stat = "null"
           /\ pr'[q].stat = "zomb" <=> pr[q].stat = "zomb"
    BY NudgedSame
  <2> QED BY <2>1 DEF SameTree
<1>4. Waiting'
  <2>1. ASSUME NEW q \in Slots, AsleepInWait(pr'[q]), q # s
        PROVE  /\ AsleepInWait(pr[q])
               /\ \A c \in Slots : pr[c].ppid = pr[q].pid /\ ToReport(pr'[c]) => ToReport(pr[c])
    <3>1. AsleepInWait(pr[q])
      BY <2>1, NudgedSame DEF AsleepInWait
    <3>2. ASSUME NEW c \in Slots, pr[c].ppid = pr[q].pid, ToReport(pr'[c])
          PROVE  ToReport(pr[c])
      <4>1. CASE c = s
        BY <2>1, <3>2, <4>1 DEF ToReport
      <4>2. CASE c # s
        BY <3>2, <4>2, NudgedSame DEF ToReport
      <4> QED BY <4>1, <4>2
    <3> QED BY <3>1, <3>2
  <2>2. \A q \in Slots : AsleepInWait(pr'[q]) =>
               \/ /\ AsleepInWait(pr[q])
                  /\ \A c \in Slots : pr[c].ppid = pr[q].pid /\ ToReport(pr'[c]) => ToReport(pr[c])
               \/ /\ \E c \in Slots : pr[c].stat # "null" /\ pr[c].ppid = pr[q].pid
                  /\ \A c \in Slots : pr[c].ppid = pr[q].pid => ~ToReport(pr'[c])
    BY <2>1
  <2> QED BY <1>3, <2>2, WaitingKept
<1>5. Tracing'
  <2>1. \A q \in Slots : pr[q].pc \in {"ipclock", "ipcreq"} => pr[q].stat \in {"run", "sleep"}
            /\ (pr[q].stat = "sleep" => pr[q].wchan = IPC)
    BY DEF ProcInv, Entries, Entry
  <2>2. \A q \in Slots : pr'[q].pc \in {"ipclock", "ipcreq"} \/ pr[q].pc \in {"ipclock", "ipcreq"} =>
               /\ pr'[q].pc = pr[q].pc /\ pr'[q].with = pr[q].with
               /\ pr'[q].stat = "sleep" => pr[q].stat = "sleep"
               /\ pr'[q].stat \in {"run", "sleep"}
    <3>1. TAKE q \in Slots
    <3>2. CASE q = s
      BY <3>2
    <3>3. CASE q # s
      BY <2>1, <3>3, NudgedSame DEF Nudged
    <3> QED BY <3>2, <3>3
  <2>3. \A c \in Slots : pr[c].stat = "stop" => pr'[c].stat = "stop"
    BY NudgedSame
  <2>4. CASE /\ ipc' = ipc
             /\ \A q \in Slots : q # s /\ pr[q].wchan = IPC => pr'[q].stat = pr[q].stat
             /\ pr[s].pc = "stop" => pr[s].pid # ipc.lock
    <3>1. \A q \in Slots : pr[q].pc = "ipcreq" => pr'[q].stat = pr[q].stat
      BY <2>1, <2>4, NudgedSame
    <3>2. \A c \in Slots : pr[c].stat = "run" /\ pr[c].pc = "stop" /\ pr[c].pid = ipc.lock =>
                     pr'[c].stat = "run" /\ pr'[c].pc = "stop"
      BY <2>4, NudgedSame
    <3> QED BY <1>3, <2>2, <2>3, <2>4, <3>1, <3>2, TracingKept
  <2>5. CASE ipc'.req <= 0 /\ \A q \in Slots : pr'[q].pc = "ipcreq" => pr'[q].stat # "sleep"
    BY <1>3, <2>2, <2>3, <2>5, TracingKept
  <2> QED BY <2>4, <2>5
<1> QED BY <1>1, <1>2, <1>3, <1>4, <1>5, TreeKept DEF ProcInv

-----------------------------------------------------------------------------
(* The calls and what goes on by itself, one by one.                        *)

LEMMA Basics ==
    ASSUME ProcInv
    PROVE  /\ pr \in Tables /\ mpid \in Nat /\ ipc \in [lock : Nat, req : Int]
           /\ \A s \in Slots : pr[s] \in ProcRec /\ Entry(s, pr[s])
           /\ tty.pgrp \in Nat /\ (tty' = tty => GroupOK')
           /\ \A s \in Slots : Closed(s).pgrp \in Nat
BY DEF ProcInv, ProcTypeOK, Tables, Entries, GroupOK, Closed

LEMMA Signals_Step ==
    ASSUME ProcInv,
           \/ \E n \in Sigs : TtySignal(n)
           \/ \E s \in Slots, n \in Sigs : \E a \in {-1, 0} \cup {pr[q].pid : q \in Slots} : Kill(s, a, n)
    PROVE  ProcInv'
<1>1. \E ss, n : n \in Sigs /\ pr' = PsignalAll(pr, ss, n)
  <2>1. CASE \E n \in Sigs : TtySignal(n)
    BY <2>1, Zenon DEF TtySignal
  <2>2. CASE \E s \in Slots, n \in Sigs : \E a \in {-1, 0} \cup {pr[q].pid : q \in Slots} : Kill(s, a, n)
    <3>1. PICK s \in Slots, n \in Sigs, a \in {-1, 0} \cup {pr[q].pid : q \in Slots} : Kill(s, a, n)
      BY <2>2
    <3>2. pr' = PsignalAll(pr, KillSet(s, a), n)
      BY <3>1 DEF Kill
    <3> QED BY <3>2, Zenon
  <2> QED BY <2>1, <2>2
<1>0. PICK ss, n : n \in Sigs /\ pr' = PsignalAll(pr, ss, n)
  BY <1>1, Zenon
<1>2. UNCHANGED <<mpid, ipc, tty>>
  BY DEF TtySignal, Kill
<1>3. pr \in Tables /\ GroupOK'
  BY <1>2, Basics
<1>4. /\ pr' \in Tables
      /\ \A s \in Slots : Nudged(pr[s], pr'[s]) /\ (pr[s].wchan = IPC => pr'[s].stat = pr[s].stat)
  BY <1>0, <1>3, PsignalFacts
<1> QED BY <1>2, <1>3, <1>4, NudgeStep

(* Calls that change no more than u_signal, p_uid, STRC or the group.       *)
LEMMA Small_Step ==
    ASSUME ProcInv, NEW s \in Slots,
           \/ Setuid(s) \/ PtraceMe(s) \/ TtyOpen(s) \/ TtyClose(s)
           \/ \E n \in Sigs, d \in Dispositions : Ssig(s, n, d)
    PROVE  ProcInv'
<1>0. pr \in Tables /\ pr[s] \in ProcRec /\ tty.pgrp \in Nat
  BY Basics
<1>1. UNCHANGED <<mpid, ipc>>
  BY DEF Setuid, PtraceMe, TtyOpen, TtyClose, Ssig
<1>8. GroupOK'
  <2>1. CASE TtyOpen(s)
    <3>1. tty'.pgrp \in {tty.pgrp, pr[s].pid}
      BY <2>1 DEF TtyOpen
    <3> QED BY <1>0, <3>1 DEF GroupOK, ProcRec
  <2>2. CASE tty' = tty
    BY <1>0, <2>2 DEF GroupOK
  <2>3. CASE TtyClose(s)
    BY <2>3, Basics DEF TtyClose, GroupOK
  <2> QED BY <2>1, <2>2, <2>3 DEF Setuid, PtraceMe, Ssig
<1>2. SUFFICES \E r \in ProcRec : /\ pr' = [pr EXCEPT ![s] = r]
                                  /\ Nudged(pr[s], r) /\ r.stat = pr[s].stat
  <2>1. PICK r \in ProcRec : pr' = [pr EXCEPT ![s] = r] /\ Nudged(pr[s], r) /\ r.stat = pr[s].stat
    BY <1>2
  <2>2. pr' \in Tables /\ pr'[s] = r /\ \A q \in Slots : q # s => pr'[q] = pr[q]
    BY <1>0, <2>1 DEF Tables
  <2>3. \A q \in Slots : Nudged(pr[q], pr'[q]) /\ pr'[q].stat = pr[q].stat
    BY <2>1, <2>2, NudgedNot
  <2> QED BY <1>1, <1>8, <2>2, <2>3, NudgeStep
<1>3. CASE Setuid(s)
  <2>1. PICK r : r = [pr[s] EXCEPT !.su = FALSE]
    OBVIOUS
  <2>2. r \in ProcRec /\ Nudged(pr[s], r) /\ r.stat = pr[s].stat
    BY <1>0, <2>1 DEF ProcRec, Nudged
  <2>3. pr' = [pr EXCEPT ![s] = r]
    BY <1>0, <1>3, <2>1 DEF Setuid, Tables
  <2> QED BY <2>2, <2>3
<1>4. CASE PtraceMe(s)
  <2>1. PICK r : r = [pr[s] EXCEPT !.strc = TRUE]
    OBVIOUS
  <2>2. r \in ProcRec /\ Nudged(pr[s], r) /\ r.stat = pr[s].stat
    BY <1>0, <2>1 DEF ProcRec, Nudged
  <2>3. pr' = [pr EXCEPT ![s] = r]
    BY <1>0, <1>4, <2>1 DEF PtraceMe, Tables
  <2> QED BY <2>2, <2>3
<1>5. CASE TtyClose(s)
  <2>1. pr' = [pr EXCEPT ![s] = pr[s]]
    BY <1>0, <1>5 DEF TtyClose, Tables
  <2> QED BY <1>0, <2>1, NudgedNot
<1> DEFINE g == IF pr[s].pgrp # 0 THEN tty.pgrp ELSE IF tty.pgrp = 0 THEN pr[s].pid ELSE tty.pgrp
<1>6. CASE TtyOpen(s)
  <2>1. PICK h : h = IF pr[s].pgrp = 0 THEN g ELSE pr[s].pgrp
    OBVIOUS
  <2>2. PICK r : r = [pr[s] EXCEPT !.pgrp = h]
    OBVIOUS
  <2>3. pr[s].stat = "run"
    BY <1>6 DEF TtyOpen, Calls
  <2>4. h \in Nat
    BY <1>0, <2>1 DEF ProcRec
  <2>5. r \in ProcRec /\ Nudged(pr[s], r) /\ r.stat = pr[s].stat
    BY <1>0, <2>2, <2>3, <2>4 DEF ProcRec, Nudged
  <2>6. pr' = [pr EXCEPT ![s] = r]
    BY <1>0, <1>6, <2>1, <2>2 DEF TtyOpen, Tables
  <2> QED BY <2>5, <2>6
<1>7. ASSUME NEW n \in Sigs, NEW d \in Dispositions, Ssig(s, n, d)
      PROVE  \E r \in ProcRec : /\ pr' = [pr EXCEPT ![s] = r]
                                /\ Nudged(pr[s], r) /\ r.stat = pr[s].stat
  <2>0. PICK a : a = [pr[s].act EXCEPT ![n] = d]
    OBVIOUS
  <2>1. PICK r : r = [pr[s] EXCEPT !.act = a, !.sig = @ \ {n}]
    OBVIOUS
  <2>2. a \in [Sigs -> Dispositions]
    BY <1>0, <2>0 DEF ProcRec
  <2>3. r \in ProcRec /\ Nudged(pr[s], r) /\ r.stat = pr[s].stat
    BY <1>0, <2>1, <2>2 DEF ProcRec, Nudged
  <2>4. pr' = [pr EXCEPT ![s].act[n] = d, ![s].sig = @ \ {n}]
    BY <1>7 DEF Ssig
  <2>5. pr' = [pr EXCEPT ![s] = r]
    BY <1>0, <2>0, <2>1, <2>4 DEF Tables, ProcRec
  <2> QED BY <2>3, <2>5
<1> QED BY <1>3, <1>4, <1>5, <1>6, <1>7

(* The request of a trace is not disturbed, or it is answered.              *)
TraceGoesOn(t, s) ==
    /\ ipc'.lock = ipc.lock
    /\ \/ /\ ipc' = ipc
          /\ \A q \in Slots : q # s /\ pr[q].wchan = IPC => t[q] = pr[q]
          /\ pr[s].pc = "stop" => pr[s].pid # ipc.lock
       \/ ipc'.req <= 0 /\ \A q \in Slots : q # s /\ t[q].pc = "ipcreq" => t[q].stat # "sleep"

(* s, as it is in table t, goes back to user mode or begins to exit.        *)
LEMMA GoesTo ==
    ASSUME ProcInv, GroupOK', NEW s \in Slots, s # 1, pr[s].stat = "run",
           pr[s].pc \notin {"ipclock", "ipcreq"},
           NEW t \in Tables, t[s].stat = "run", t[s].pid = pr[s].pid, t[s].ppid = pr[s].ppid,
           \A q \in Slots : q # s => Nudged(pr[q], t[q]),
           NEW l \in {"user", "exit"}, Becomes(t, pr', s, "run", l),
           \A q \in Slots : q # s => pr'[q] = t[q],
           mpid' = mpid, ipc' \in [lock : Nat, req : Int], TraceGoesOn(t, s)
    PROVE  ProcInv'
<1>1. /\ pr' \in Tables /\ pr'[s].stat = "run" /\ pr'[s].pc = l
      /\ pr'[s].pid = pr[s].pid /\ pr'[s].ppid = pr[s].ppid
  BY DEF Becomes
<1>2. Entry(s, pr[s])
  BY Basics
<1>3. Entry(s, pr'[s])
  BY <1>1, <1>2 DEF Entry
<1>4. \A q \in Slots : q # s => Nudged(pr[q], pr'[q])
  OBVIOUS
<1>5. ~AsleepInWait(pr'[s]) /\ pr'[s].stat # "stop"
  BY <1>1 DEF AsleepInWait
<1>6. /\ ipc'.lock = ipc.lock
      /\ \/ /\ ipc' = ipc
            /\ \A q \in Slots : q # s /\ pr[q].wchan = IPC => pr'[q].stat = pr[q].stat
            /\ pr[s].pc = "stop" => pr[s].pid # ipc.lock
         \/ ipc'.req <= 0 /\ \A q \in Slots : pr'[q].pc = "ipcreq" => pr'[q].stat # "sleep"
  BY <1>1 DEF TraceGoesOn
<1> QED BY <1>1, <1>3, <1>4, <1>5, <1>6, ActorStep

LEMMA StopsOrExits ==
    ASSUME ProcInv, GroupOK', NEW s \in Slots, s # 1, pr[s].stat = "run",
           pr[s].pc \notin {"ipclock", "ipcreq"},
           NEW t \in Tables, t[s].stat = "run", t[s].pid = pr[s].pid, t[s].ppid = pr[s].ppid,
           \A q \in Slots : q # s => Nudged(pr[q], t[q]),
           pr' = StopOrExit(t, s),
           mpid' = mpid, ipc' \in [lock : Nat, req : Int], TraceGoesOn(t, s)
    PROVE  ProcInv'
<1>1. CASE /\ Becomes(t, pr', s, t[s].stat, "exit")
           /\ \A q \in Slots : q # s => pr'[q] = t[q]
  <2>1. Becomes(t, pr', s, "run", "exit")
    BY <1>1
  <2> QED BY <1>1, <2>1, GoesTo
<1>2. CASE /\ Becomes(t, pr', s, "stop", "stop") /\ t[s].ppid # 1
           /\ \E m \in Slots : /\ t[m].pid = t[s].ppid
                               /\ \A q \in Slots : q # s =>
                                     IF t[q].stat = "sleep" /\ t[q].wchan = m
                                     THEN pr'[q].stat = "run" ELSE pr'[q] = t[q]
  <2>1. PICK m \in Slots : /\ t[m].pid = t[s].ppid
                           /\ \A q \in Slots : q # s =>
                                 IF t[q].stat = "sleep" /\ t[q].wchan = m
                                 THEN pr'[q].stat = "run" ELSE pr'[q] = t[q]
    BY <1>2
  <2>2. /\ pr' \in Tables /\ pr'[s].stat = "stop" /\ pr'[s].pc = "stop"
        /\ pr'[s].pid = pr[s].pid /\ pr'[s].ppid = pr[s].ppid /\ pr[s].ppid # 1
        /\ \A q \in Slots : q # s => Nudged(t[q], pr'[q])
    BY <1>2 DEF Becomes
  <2>3. Entry(s, pr'[s])
    <3>1. Entry(s, pr[s])
      BY Basics
    <3> QED BY <2>2, <3>1 DEF Entry
  <2>4. \A q \in Slots : q # s => Nudged(pr[q], pr'[q])
    <3>1. \A q \in Slots : q # s => (pr[q].stat = "null" => t[q].stat = "null")
      BY DEF Nudged
    <3> QED BY <2>2, <3>1, NudgedTwice
  <2>5. ASSUME NEW q \in Slots, pr[q].pid = pr[s].ppid, AsleepInWait(pr'[q])
        PROVE  FALSE
    <3>1. q # s
      BY <2>2, <2>5 DEF AsleepInWait
    <3>2. pr[q].stat = "sleep" /\ pr[q].pc = "waitslp" /\ t[q].stat = "sleep" /\ t[q].wchan = pr[q].wchan
      BY <2>2, <2>4, <2>5, <3>1 DEF AsleepInWait, Nudged
    <3>3. Entry(q, pr[q]) /\ Entry(m, pr[m])
      BY Basics
    <3>4. pr[q].wchan = q /\ pr[q].pid # 0
      BY <3>2, <3>3, Consts DEF Entry
    <3>5. t[m].pid = pr[m].pid
      BY DEF Nudged
    <3>6. pr[m].pid = pr[q].pid
      BY <2>1, <2>5, <3>5
    <3>7. m = q
      BY <3>2, <3>3, <3>4, <3>6 DEF ProcInv, Numbered, Exists, Entry
    <3>8. pr'[q].stat = "run"
      BY <2>1, <3>1, <3>2, <3>4, <3>7
    <3> QED BY <2>5, <3>8 DEF AsleepInWait
  <2>6. /\ ipc'.lock = ipc.lock
        /\ \/ /\ ipc' = ipc
              /\ \A q \in Slots : q # s /\ pr[q].wchan = IPC => pr'[q].stat = pr[q].stat
              /\ pr[s].pc = "stop" => pr[s].pid # ipc.lock
           \/ ipc'.req <= 0 /\ \A q \in Slots : pr'[q].pc = "ipcreq" => pr'[q].stat # "sleep"
    <3>1. \A q \in Slots : q # s /\ pr[q].wchan = IPC /\ t[q] = pr[q] => pr'[q].stat = pr[q].stat
      BY <2>1, Consts
    <3>2. \A q \in Slots : q # s /\ t[q].stat # "sleep" => pr'[q].stat # "sleep"
      BY <2>2 DEF Nudged
    <3>3. \A q \in Slots : q # s /\ pr'[q].pc = "ipcreq" => t[q].pc = "ipcreq"
      BY <2>2 DEF Nudged
    <3> QED BY <2>2, <3>1, <3>2, <3>3 DEF TraceGoesOn
  <2>7. ~AsleepInWait(pr'[s]) /\ pr'[s].pc \notin {"ipclock", "ipcreq"}
    BY <2>2 DEF AsleepInWait
  <2> QED BY <2>2, <2>3, <2>4, <2>5, <2>6, <2>7, ActorStep
<1> QED BY <1>1, <1>2, StopOrExitFacts

LEMMA Psig_Step ==
    ASSUME ProcInv, NEW s \in Slots, Psig(s)
    PROVE  ProcInv'
<1>0. pr \in Tables /\ pr[s] \in ProcRec /\ ipc \in [lock : Nat, req : Int]
  BY Basics
<1>1. /\ pr[s].stat = "run" /\ pr[s].pc = "user" /\ s # 1 /\ UNCHANGED <<mpid, ipc>>
      /\ CloseIfExit(pr', s)
  BY DEF Psig
<1>2. GroupOK'
  BY <1>1, Basics DEF CloseIfExit, GroupOK
<1>3. PICK r : r = [pr[s] EXCEPT !.sig = Kept(pr[s])]
  OBVIOUS
<1>4. PICK t : t = [pr EXCEPT ![s] = r]
  OBVIOUS
<1>5. r \in ProcRec /\ r.stat = "run" /\ r.pid = pr[s].pid /\ r.ppid = pr[s].ppid
  <2>1. Kept(pr[s]) \in SUBSET Sigs
    BY <1>0, KeptFacts
  <2> QED BY <1>0, <1>1, <1>3, <2>1 DEF ProcRec
<1>6. t \in Tables /\ t[s] = r /\ \A q \in Slots : q # s => t[q] = pr[q]
  BY <1>0, <1>4, <1>5 DEF Tables
<1>7. t = [pr EXCEPT ![s].sig = Kept(pr[s])]
  BY <1>0, <1>3, <1>4 DEF Tables
<1>8. pr' = IF pr[s].strc THEN StopOrExit(t, s) ELSE Act(t, s)
  BY <1>7 DEF Psig
<1>9. TraceGoesOn(t, s)
  BY <1>1, <1>6 DEF TraceGoesOn
<1>10. \A q \in Slots : q # s => Nudged(pr[q], t[q])
  BY <1>6, NudgedNot
<1>11. ipc' \in [lock : Nat, req : Int] /\ pr[s].pc \notin {"ipclock", "ipcreq"} /\ mpid' = mpid
       /\ t[s].stat = "run" /\ t[s].pid = pr[s].pid /\ t[s].ppid = pr[s].ppid
  BY <1>0, <1>1, <1>5, <1>6
<1>12. CASE pr' = StopOrExit(t, s)
  BY <1>1, <1>2, <1>6, <1>9, <1>10, <1>11, <1>12, StopsOrExits
<1>13. CASE pr' = Act(t, s)
  <2>1. /\ Becomes(t, pr', s, "run", "user") \/ Becomes(t, pr', s, "run", "exit")
        /\ \A q \in Slots : q # s => pr'[q] = t[q]
    BY <1>6, <1>11, <1>13, ActFacts
  <2> QED BY <1>1, <1>2, <1>6, <1>9, <1>10, <1>11, <2>1, GoesTo
<1> QED BY <1>8, <1>12, <1>13

LEMMA Rexit_Step ==
    ASSUME ProcInv, NEW s \in Slots, Rexit(s)
    PROVE  ProcInv'
<1>0. pr \in Tables /\ pr[s] \in ProcRec /\ ipc \in [lock : Nat, req : Int]
  BY Basics
<1>1. /\ pr[s].stat = "run" /\ pr[s].pc = "user" /\ s # 1 /\ UNCHANGED <<mpid, ipc>>
      /\ pr' = ExitStarts(pr, s) /\ tty' = Closed(s)
  BY DEF Rexit, Calls
<1>2. GroupOK'
  BY <1>1, Basics DEF GroupOK
<1>3. /\ Becomes(pr, pr', s, "run", "exit")
      /\ \A q \in Slots : q # s => pr'[q] = pr[q]
  BY <1>0, <1>1, ExitStartsFacts
<1>4. TraceGoesOn(pr, s)
  BY <1>1 DEF TraceGoesOn
<1>5. \A q \in Slots : q # s => Nudged(pr[q], pr[q])
  BY NudgedNot
<1> QED BY <1>0, <1>1, <1>2, <1>3, <1>4, <1>5, GoesTo

LEMMA Procxmt_Step ==
    ASSUME ProcInv, NEW s \in Slots, NEW ok \in BOOLEAN, NEW n \in {{}} \cup {{m} : m \in Sigs},
           Procxmt(s, ok, n)
    PROVE  ProcInv'
<1>0. pr \in Tables /\ pr[s] \in ProcRec /\ ipc \in [lock : Nat, req : Int] /\ Entry(s, pr[s])
  BY Basics
<1>1. pr[s].stat = "run" /\ pr[s].pc = "stop" /\ mpid' = mpid /\ CloseIfExit(pr', s)
  BY DEF Procxmt
<1>2. s # 1 /\ pr[s].pc \notin {"ipclock", "ipcreq"}
  BY <1>0, <1>1 DEF Entry
<1>3. GroupOK'
  BY <1>1, Basics DEF CloseIfExit, GroupOK
<1>4. CASE ipc.lock # pr[s].pid
  <2>1. pr' = StopOrExit(pr, s) /\ ipc' = ipc
    BY <1>4 DEF Procxmt
  <2>2. TraceGoesOn(pr, s)
    BY <1>4, <2>1 DEF TraceGoesOn
  <2>3. \A q \in Slots : q # s => Nudged(pr[q], pr[q])
    BY NudgedNot
  <2>4. ipc' \in [lock : Nat, req : Int]
    BY <1>0, <2>1
  <2> QED BY <1>0, <1>1, <1>2, <1>3, <2>1, <2>2, <2>3, <2>4, StopsOrExits
<1>5. CASE ipc.lock = pr[s].pid
  <2>1. PICK t : t = Woken(pr, IPC)
    OBVIOUS
  <2>2. /\ t \in Tables
        /\ \A q \in Slots : /\ Nudged(pr[q], t[q])
                            /\ pr[q].stat = "sleep" /\ pr[q].wchan = IPC => t[q].stat = "run"
                            /\ ~(pr[q].stat = "sleep" /\ pr[q].wchan = IPC) => t[q] = pr[q]
    BY <1>0, <2>1, WokenFacts
  <2>3. t[s] = pr[s]
    BY <1>1, <2>2
  <2>4. /\ ipc' = [ipc EXCEPT !.req = IF ~ok /\ ipc.req = 1 THEN -1 ELSE 0]
        /\ pr' = CASE ipc.req = 7 -> Act([t EXCEPT ![s].sig = n], s)
                   [] ipc.req = 8 -> ExitStarts(t, s)
                   [] OTHER -> StopOrExit(t, s)
    BY <1>5, <2>1 DEF Procxmt
  <2>5. ipc' \in [lock : Nat, req : Int] /\ ipc'.lock = ipc.lock /\ ipc'.req <= 0
    BY <1>0, <2>4
  <2>6. ASSUME NEW q \in Slots, t[q].pc = "ipcreq"
        PROVE  t[q].stat # "sleep"
    <3>1. pr[q].pc = "ipcreq" /\ Entry(q, pr[q])
      BY <2>2, <2>6, Basics DEF Nudged
    <3>2. pr[q].stat = "sleep" => pr[q].wchan = IPC
      BY <3>1 DEF Entry
    <3> QED BY <2>2, <3>2
  <2>7. TraceGoesOn(t, s)
    BY <2>5, <2>6 DEF TraceGoesOn
  <2>8. \A q \in Slots : q # s => Nudged(pr[q], t[q])
    BY <2>2
  <2>9. CASE ipc.req = 7
    <3>1. PICK r : r = [t[s] EXCEPT !.sig = n]
      OBVIOUS
    <3>2. PICK v : v = [t EXCEPT ![s] = r]
      OBVIOUS
    <3>3. n \in SUBSET Sigs
      OBVIOUS
    <3>4. r \in ProcRec /\ r.stat = "run" /\ r.pid = pr[s].pid /\ r.ppid = pr[s].ppid
      BY <1>0, <1>1, <2>3, <3>1, <3>3 DEF ProcRec
    <3>5. v \in Tables /\ v[s] = r /\ \A q \in Slots : q # s => v[q] = t[q]
      BY <2>2, <3>2, <3>4 DEF Tables
    <3>6. v = [t EXCEPT ![s].sig = n]
      BY <2>2, <3>1, <3>2 DEF Tables
    <3>7. pr' = Act(v, s)
      BY <2>4, <2>9, <3>6
    <3>8. v[s].stat = "run"
      BY <3>4, <3>5
    <3>9. /\ Becomes(v, pr', s, "run", "user") \/ Becomes(v, pr', s, "run", "exit")
          /\ \A q \in Slots : q # s => pr'[q] = v[q]
      BY <3>5, <3>7, <3>8, ActFacts
    <3>10. TraceGoesOn(v, s) /\ \A q \in Slots : q # s => Nudged(pr[q], v[q])
      BY <2>7, <2>8, <3>5 DEF TraceGoesOn
    <3> QED BY <1>1, <1>2, <1>3, <2>5, <3>4, <3>5, <3>9, <3>10, GoesTo
  <2>10. CASE ipc.req = 8
    <3>1. pr' = ExitStarts(t, s)
      BY <2>4, <2>10
    <3>2. /\ Becomes(t, pr', s, "run", "exit")
          /\ \A q \in Slots : q # s => pr'[q] = t[q]
      BY <1>1, <2>2, <2>3, <3>1, ExitStartsFacts
    <3> QED BY <1>1, <1>2, <1>3, <2>2, <2>3, <2>5, <2>7, <2>8, <3>2, GoesTo
  <2>11. CASE ipc.req # 7 /\ ipc.req # 8
    <3>1. pr' = StopOrExit(t, s)
      BY <2>4, <2>11
    <3> QED BY <1>1, <1>2, <1>3, <2>2, <2>3, <2>5, <2>7, <2>8, <3>1, StopsOrExits
  <2> QED BY <2>9, <2>10, <2>11
<1> QED BY <1>4, <1>5

(* s alone changes, and sleeps or goes on outside of ptrace.                *)
LEMMA AloneStep ==
    ASSUME ProcInv, NEW s \in Slots, pr[s].stat = "run", UNCHANGED <<mpid, ipc, tty>>,
           pr[s].pc \in {"user", "pause", "waitslp"},
           NEW r \in ProcRec, pr' = [pr EXCEPT ![s] = r],
           r.pid = pr[s].pid, r.ppid = pr[s].ppid, r.swted = pr[s].swted,
           \/ r.stat = "run" /\ r.pc = "user"
           \/ r.stat = "sleep" /\ r.wchan = U /\ r.pc = "pause" /\ s # 1
           \/ /\ r.stat = "sleep" /\ r.wchan = s /\ r.pc = "waitslp"
              /\ Children(s) # {} /\ Reportable(s) = {}
    PROVE  ProcInv'
<1>0. pr \in Tables /\ ipc \in [lock : Nat, req : Int] /\ Entry(s, pr[s]) /\ GroupOK'
  BY Basics
<1>1. pr' \in Tables /\ pr'[s] = r /\ \A q \in Slots : q # s => pr'[q] = pr[q]
  BY <1>0 DEF Tables
<1>2. Entry(s, pr'[s])
  BY <1>0, <1>1 DEF Entry
<1>3. \A q \in Slots : q # s => Nudged(pr[q], pr'[q])
  BY <1>1, NudgedNot
<1>4. ASSUME AsleepInWait(pr'[s])
      PROVE  /\ \E c \in Slots : pr[c].stat # "null" /\ pr[c].ppid = pr[s].pid
             /\ \A c \in Slots : pr[c].ppid = pr[s].pid => ~ToReport(pr'[c])
  <2>1. Children(s) # {} /\ Reportable(s) = {} /\ r.stat = "sleep"
    BY <1>1, <1>4 DEF AsleepInWait
  <2>2. \E c \in Slots : pr[c].stat # "null" /\ pr[c].ppid = pr[s].pid
    BY <2>1 DEF Children, Exists
  <2>3. ASSUME NEW c \in Slots, pr[c].ppid = pr[s].pid
        PROVE  ~ToReport(pr'[c])
    <3>1. CASE c = s
      BY <1>1, <2>1, <3>1 DEF ToReport
    <3>2. CASE c # s
      BY <1>1, <2>1, <2>3, <3>2 DEF ToReport, Reportable, Children, Exists
    <3> QED BY <3>1, <3>2
  <2> QED BY <2>2, <2>3
<1>5. \A q \in Slots : q # s /\ pr[q].wchan = IPC => pr'[q].stat = pr[q].stat
  BY <1>1
<1>6. /\ pr'[s].pid = pr[s].pid /\ pr'[s].ppid = pr[s].ppid
      /\ pr'[s].stat \in {"run", "sleep", "stop"} /\ pr'[s].stat # "stop"
      /\ pr'[s].pc \notin {"ipclock", "ipcreq"} /\ pr[s].pc \notin {"ipclock", "ipcreq", "stop"}
  BY <1>1
<1>7. ipc' \in [lock : Nat, req : Int] /\ ipc' = ipc /\ mpid' = mpid
  BY <1>0
<1> QED BY <1>0, <1>1, <1>2, <1>3, <1>4, <1>5, <1>6, <1>7, ActorStep

LEMMA Pause_Step ==
    ASSUME ProcInv, NEW s \in Slots, Pause(s) \/ PauseGoesOn(s)
    PROVE  ProcInv'
<1>0. pr \in Tables /\ pr[s] \in ProcRec /\ Entry(s, pr[s])
  BY Basics
<1>1. /\ pr[s].stat = "run" /\ pr[s].pc \in {"user", "pause"} /\ UNCHANGED <<mpid, ipc, tty>>
      /\ s # 1
  BY <1>0 DEF Pause, PauseGoesOn, Calls, Entry
<1>2. PICK a : a = [pr[s] EXCEPT !.stat = "sleep", !.wchan = U, !.pc = "pause"]
  OBVIOUS
<1>3. /\ a \in ProcRec /\ a.stat = "sleep" /\ a.wchan = U /\ a.pc = "pause"
      /\ a.pid = pr[s].pid /\ a.ppid = pr[s].ppid /\ a.swted = pr[s].swted
  BY <1>0, <1>2, Consts DEF ProcRec, Stats, Pcs
<1>4. Asleep(s, U, "pause") = [pr EXCEPT ![s] = a]
  BY <1>0, <1>2 DEF Asleep, Tables
<1>5. CASE pr' = Asleep(s, U, "pause")
  BY <1>1, <1>3, <1>4, <1>5, AloneStep
<1>6. CASE pr' = [Asleep(s, U, "pause") EXCEPT ![s].sig = Kept(pr[s])]
  <2>1. PICK r : r = [a EXCEPT !.sig = Kept(pr[s])]
    OBVIOUS
  <2>2. Kept(pr[s]) \in SUBSET Sigs
    BY <1>0, KeptFacts
  <2>3. /\ r \in ProcRec /\ r.stat = "sleep" /\ r.wchan = U /\ r.pc = "pause"
        /\ r.pid = pr[s].pid /\ r.ppid = pr[s].ppid /\ r.swted = pr[s].swted
    BY <1>3, <2>1, <2>2 DEF ProcRec
  <2>4. pr' = [pr EXCEPT ![s] = r]
    BY <1>0, <1>3, <1>4, <1>6, <2>1 DEF Tables
  <2> QED BY <1>1, <2>3, <2>4, AloneStep
<1>7. CASE pr' = [pr EXCEPT ![s].pc = "user"]
  <2>1. PICK r : r = [pr[s] EXCEPT !.pc = "user"]
    OBVIOUS
  <2>2. /\ r \in ProcRec /\ r.stat = "run" /\ r.pc = "user"
        /\ r.pid = pr[s].pid /\ r.ppid = pr[s].ppid /\ r.swted = pr[s].swted
    BY <1>0, <1>1, <2>1 DEF ProcRec, Pcs
  <2>3. pr' = [pr EXCEPT ![s] = r]
    BY <1>0, <1>7, <2>1 DEF Tables
  <2> QED BY <1>1, <2>2, <2>3, AloneStep
<1> QED BY <1>5, <1>6, <1>7 DEF Pause, PauseGoesOn

LEMMA NullIsRec == NullProc \in ProcRec /\ NullProc.stat = "null" /\ NullProc.pid = 0
                   /\ NullProc.ppid = 0 /\ NullProc.pgrp = 0 /\ NullProc.pc = "none"
<1>1. PICK a : a = [s \in Sigs |-> "default"]
  OBVIOUS
<1>2. a \in [Sigs -> Dispositions]
  BY <1>1 DEF Dispositions
<1>3. NullProc = [stat |-> "null", pid |-> 0, ppid |-> 0, pgrp |-> 0, su |-> FALSE, sig |-> {},
                  strc |-> FALSE, swted |-> FALSE, wchan |-> 0, pc |-> "none", with |-> 0, act |-> a]
  BY <1>1 DEF NullProc
<1> QED BY <1>2, <1>3 DEF ProcRec, Stats, Pcs

(* wait collects a zombie.                                                  *)
LEMMA Collects ==
    ASSUME ProcInv, NEW s \in Slots, NEW c \in Slots, pr[s].stat = "run",
           pr[s].pc \in {"user", "waitslp"}, pr[c].stat = "zomb", pr[c].ppid = pr[s].pid,
           UNCHANGED <<mpid, ipc, tty>>, pr' \in Tables,
           pr'[s] = [pr[s] EXCEPT !.pc = "user"], pr'[c] = NullProc,
           \A q \in Slots : q # s /\ q # c => pr'[q] = pr[q]
    PROVE  ProcInv'
<1>0. /\ pr[s] \in ProcRec /\ GroupOK' /\ \A q \in Slots : Entry(q, pr[q])
      /\ Numbered /\ Fathered /\ Waiting /\ Tracing
  BY Basics DEF ProcInv
<1>1. /\ pr'[s].stat = "run" /\ pr'[s].pc = "user" /\ pr'[s].pid = pr[s].pid
      /\ pr'[s].ppid = pr[s].ppid /\ pr'[s].swted = pr[s].swted /\ s # c
  BY <1>0 DEF ProcRec
<1>2. pr'[c].stat = "null"
  BY NullIsRec
<1>3. \A q \in Slots : q # c => /\ pr'[q].pid = pr[q].pid /\ pr'[q].ppid = pr[q].ppid
                                /\ pr'[q].stat = pr[q].stat /\ pr'[q].swted = pr[q].swted
  BY <1>1
<1>4. ProcTypeOK'
  BY DEF ProcInv, ProcTypeOK, Tables
<1>5. Entries'
  <2>1. Entry(c, pr'[c])
    <3>1. c # 1
      BY <1>0 DEF Entry
    <3> QED BY <3>1, NullIsRec DEF Entry
  <2>2. Entry(s, pr'[s])
    BY <1>0, <1>1 DEF Entry
  <2> QED BY <1>0, <2>1, <2>2 DEF Entries
<1>6. Numbered'
  BY <1>0, <1>2, <1>3 DEF Numbered, Exists
<1>7. Fathered'
  <2>1. SUFFICES ASSUME NEW p \in Slots, pr'[p].stat # "null", p # 1
                 PROVE  \E q \in Slots : pr'[q].stat \notin {"null", "zomb"} /\ pr'[q].pid = pr'[p].ppid
    BY DEF Fathered, Exists, Alive
  <2>2. p # c /\ pr[p].stat # "null"
    BY <1>2, <1>3, <2>1
  <2>3. PICK q \in Slots : pr[q].stat \notin {"null", "zomb"} /\ pr[q].pid = pr[p].ppid
    BY <1>0, <2>1, <2>2 DEF Fathered, Exists, Alive
  <2> QED BY <1>3, <2>2, <2>3
<1>8. Waiting'
  <2>1. SUFFICES ASSUME NEW q \in Slots, pr'[q].stat = "sleep", pr'[q].pc = "waitslp"
                 PROVE  /\ \E x \in Slots : pr'[x].stat # "null" /\ pr'[x].ppid = pr'[q].pid
                        /\ \A x \in Slots : pr'[x].stat # "null" /\ pr'[x].ppid = pr'[q].pid =>
                              pr'[x].stat # "zomb" /\ (pr'[x].stat = "stop" => pr'[x].swted)
    BY DEF Waiting, WaitsFor, Exists
  <2>2. q # s /\ q # c /\ pr'[q] = pr[q]
    BY <1>1, <1>2, <2>1
  <2>3. pr[q].pid # pr[s].pid
    BY <1>0, <2>1, <2>2 DEF Numbered, Exists
  <2>4. /\ \E x \in Slots : pr[x].stat # "null" /\ pr[x].ppid = pr[q].pid
        /\ \A x \in Slots : pr[x].stat # "null" /\ pr[x].ppid = pr[q].pid =>
              pr[x].stat # "zomb" /\ (pr[x].stat = "stop" => pr[x].swted)
    BY <1>0, <2>1, <2>2 DEF Waiting, WaitsFor, Exists
  <2> QED BY <1>2, <1>3, <2>2, <2>3, <2>4
<1>9. Tracing'
  <2>1. \A q \in Slots : pr'[q].pc \in {"ipclock", "ipcreq"} \/ pr[q].pc \in {"ipclock", "ipcreq"} =>
           q # s /\ q # c /\ pr'[q] = pr[q]
    BY <1>0, <1>1, NullIsRec DEF Entry
  <2>2. \A q \in Slots : q # c => pr'[q].stat = pr[q].stat /\ (q # s => pr'[q].pc = pr[q].pc)
    BY <1>3
  <2> QED BY <1>0, <1>3, <2>1, <2>2 DEF Tracing
<1> QED BY <1>0, <1>4, <1>5, <1>6, <1>7, <1>8, <1>9 DEF ProcInv

(* wait reports a child that has stopped.                                   *)
LEMMA Reports ==
    ASSUME ProcInv, NEW s \in Slots, NEW c \in Slots, pr[s].stat = "run",
           pr[s].pc \in {"user", "waitslp"}, pr[c].stat = "stop",
           UNCHANGED <<mpid, ipc, tty>>, pr' \in Tables,
           pr'[s] = [pr[s] EXCEPT !.pc = "user"], pr'[c] = [pr[c] EXCEPT !.swted = TRUE],
           \A q \in Slots : q # s /\ q # c => pr'[q] = pr[q]
    PROVE  ProcInv'
<1>0. /\ pr[s] \in ProcRec /\ pr[c] \in ProcRec /\ GroupOK' /\ \A q \in Slots : Entry(q, pr[q])
      /\ ipc \in [lock : Nat, req : Int]
  BY Basics
<1>1. /\ pr'[s].stat = "run" /\ pr'[s].pc = "user" /\ pr'[s].pid = pr[s].pid
      /\ pr'[s].ppid = pr[s].ppid /\ pr'[s].swted = pr[s].swted /\ s # c
  BY <1>0 DEF ProcRec
<1>2. /\ pr'[c].stat = "stop" /\ pr'[c].pc = pr[c].pc /\ pr'[c].pid = pr[c].pid
      /\ pr'[c].ppid = pr[c].ppid /\ pr'[c].swted /\ pr'[c].with = pr[c].with
  BY <1>0 DEF ProcRec
<1>3. ProcTypeOK'
  BY DEF ProcInv, ProcTypeOK, Tables
<1>4. Entries'
  <2>1. Entry(c, pr'[c])
    BY <1>0, <1>2 DEF Entry
  <2>2. Entry(s, pr'[s])
    BY <1>0, <1>1 DEF Entry
  <2> QED BY <1>0, <2>1, <2>2 DEF Entries
<1>5. SameTree
  BY <1>1, <1>2 DEF SameTree
<1>6. Waiting'
  <2>1. \A q \in Slots : AsleepInWait(pr'[q]) => AsleepInWait(pr[q])
    BY <1>1, <1>2 DEF AsleepInWait
  <2>2. \A x \in Slots : ToReport(pr'[x]) => ToReport(pr[x])
    BY <1>1, <1>2 DEF ToReport
  <2> QED BY <1>5, <2>1, <2>2, WaitingKept
<1>7. Tracing'
  <2>1. \A q \in Slots : pr'[q].pc \in {"ipclock", "ipcreq"} \/ pr[q].pc \in {"ipclock", "ipcreq"} =>
           q # s /\ q # c /\ pr'[q] = pr[q] /\ pr[q].stat \in {"run", "sleep"}
    <3>1. TAKE q \in Slots
    <3>2. pr[c].pc = "stop"
      BY <1>0 DEF Entry
    <3>3. pr[q].pc \in {"ipclock", "ipcreq"} => pr[q].stat \in {"run", "sleep"}
      BY <1>0 DEF Entry
    <3>4. CASE q = s
      BY <1>1, <3>4
    <3>5. CASE q = c
      BY <1>2, <3>2, <3>5
    <3>6. CASE q # s /\ q # c
      BY <3>3, <3>6
    <3> QED BY <3>4, <3>5, <3>6
  <2>2. \A x \in Slots : /\ pr[x].stat = "stop" => pr'[x].stat = "stop"
                         /\ pr[x].stat = "run" /\ pr[x].pc = "stop" =>
                               pr'[x].stat = "run" /\ pr'[x].pc = "stop"
    BY <1>1, <1>2
  <2> QED BY <1>5, <2>1, <2>2, TracingKept
<1> QED BY <1>0, <1>3, <1>4, <1>5, <1>6, <1>7, TreeKept DEF ProcInv

LEMMA Wait_Step ==
    ASSUME ProcInv, NEW s \in Slots, Wait(s)
    PROVE  ProcInv'
<1>0. pr \in Tables /\ pr[s] \in ProcRec
  BY Basics
<1>1. /\ pr[s].stat = "run" /\ pr[s].pc \in {"user", "waitslp"} /\ UNCHANGED <<mpid, ipc, tty>>
  BY DEF Wait, Calls
<1>2. CASE Reportable(s) # {} /\ ~Interrupted(s)
  <2>1. PICK c : c = Min(Reportable(s))
    OBVIOUS
  <2>2. c \in Reportable(s)
    <3>1. Reportable(s) \in SUBSET Nat
      BY Consts DEF Reportable, Children
    <3> QED BY <1>2, <2>1, <3>1, MinExists
  <2>3. c \in Slots /\ pr[c].ppid = pr[s].pid /\ pr[c].stat \in {"zomb", "stop"} /\ c # s
    BY <1>1, <2>2 DEF Reportable, Children
  <2>4. pr' = [pr EXCEPT ![s].pc = "user", ![c] = IF @.stat = "zomb" THEN NullProc
                                                 ELSE [@ EXCEPT !.swted = TRUE]]
    BY <1>2, <2>1 DEF Wait
  <2>5. pr[c] \in ProcRec
    BY <2>3, Basics
  <2>6. PICK r : r = [pr[s] EXCEPT !.pc = "user"]
    OBVIOUS
  <2>7. PICK u : u = IF pr[c].stat = "zomb" THEN NullProc ELSE [pr[c] EXCEPT !.swted = TRUE]
    OBVIOUS
  <2>8. r \in ProcRec /\ u \in ProcRec
    <3>1. r \in ProcRec
      BY <1>0, <2>6 DEF ProcRec, Pcs
    <3>2. [pr[c] EXCEPT !.swted = TRUE] \in ProcRec
      BY <2>5 DEF ProcRec
    <3> QED BY <2>7, <3>1, <3>2, NullIsRec
  <2>9. pr' = [pr EXCEPT ![s] = r, ![c] = u]
    BY <1>0, <2>3, <2>4, <2>6, <2>7 DEF Tables
  <2>10. /\ pr' \in Tables /\ pr'[s] = r /\ pr'[c] = u
         /\ \A q \in Slots : q # s /\ q # c => pr'[q] = pr[q]
    BY <1>0, <2>3, <2>8, <2>9 DEF Tables
  <2>11. CASE pr[c].stat = "zomb"
    BY <1>1, <2>3, <2>6, <2>7, <2>10, <2>11, Collects
  <2>12. CASE pr[c].stat = "stop"
    BY <1>1, <2>3, <2>6, <2>7, <2>10, <2>12, Reports
  <2> QED BY <2>3, <2>11, <2>12
<1>3. CASE /\ ~(Reportable(s) # {} /\ ~Interrupted(s)) /\ (Children(s) = {} \/ Issig(pr[s]))
  <2>1. pr' = [pr EXCEPT ![s].pc = "user"]
    BY <1>3 DEF Wait
  <2>2. PICK r : r = [pr[s] EXCEPT !.pc = "user"]
    OBVIOUS
  <2>3. /\ r \in ProcRec /\ r.stat = "run" /\ r.pc = "user"
        /\ r.pid = pr[s].pid /\ r.ppid = pr[s].ppid /\ r.swted = pr[s].swted
    BY <1>0, <1>1, <2>2 DEF ProcRec, Pcs
  <2>4. pr' = [pr EXCEPT ![s] = r]
    BY <1>0, <2>1, <2>2 DEF Tables
  <2> QED BY <1>1, <2>3, <2>4, AloneStep
<1>4. CASE /\ ~(Reportable(s) # {} /\ ~Interrupted(s)) /\ ~(Children(s) = {} \/ Issig(pr[s]))
  <2>1. pr' = [Asleep(s, s, "waitslp") EXCEPT ![s].sig = Kept(pr[s])]
    BY <1>4 DEF Wait
  <2>2. Children(s) # {} /\ Reportable(s) = {}
    BY <1>4 DEF Interrupted
  <2>3. PICK a : a = [pr[s] EXCEPT !.stat = "sleep", !.wchan = s, !.pc = "waitslp"]
    OBVIOUS
  <2>4. /\ a \in ProcRec /\ a.stat = "sleep" /\ a.wchan = s /\ a.pc = "waitslp"
        /\ a.pid = pr[s].pid /\ a.ppid = pr[s].ppid /\ a.swted = pr[s].swted
    BY <1>0, <2>3, Consts DEF ProcRec, Stats, Pcs
  <2>5. Asleep(s, s, "waitslp") = [pr EXCEPT ![s] = a]
    BY <1>0, <2>3 DEF Asleep, Tables
  <2>6. PICK r : r = [a EXCEPT !.sig = Kept(pr[s])]
    OBVIOUS
  <2>7. Kept(pr[s]) \in SUBSET Sigs
    BY <1>0, KeptFacts
  <2>8. /\ r \in ProcRec /\ r.stat = "sleep" /\ r.wchan = s /\ r.pc = "waitslp"
        /\ r.pid = pr[s].pid /\ r.ppid = pr[s].ppid /\ r.swted = pr[s].swted
    BY <2>4, <2>6, <2>7 DEF ProcRec
  <2>9. pr' = [pr EXCEPT ![s] = r]
    BY <1>0, <2>1, <2>4, <2>5, <2>6 DEF Tables
  <2> QED BY <1>1, <2>2, <2>8, <2>9, AloneStep
<1> QED BY <1>2, <1>3, <1>4

(* ptrace sleeps for the lock, held by another.                             *)
LEMMA Ptrace_Step ==
    ASSUME ProcInv, NEW s \in Slots, NEW c \in Slots, NEW req \in {1, 7, 8}, Ptrace(s, c, req)
    PROVE  ProcInv'
<1>0. /\ pr \in Tables /\ pr[s] \in ProcRec /\ pr[c] \in ProcRec /\ ipc \in [lock : Nat, req : Int]
      /\ \A q \in Slots : Entry(q, pr[q])
      /\ Numbered /\ Fathered /\ Waiting /\ Tracing
  BY Basics DEF ProcInv
<1>1. UNCHANGED <<mpid, tty>> /\ GroupOK'
  BY Basics DEF Ptrace
<1>2. /\ pr[s].stat = "run" /\ pr[s].pc \in {"user", "ipclock"}
      /\ pr[c].stat = "stop" /\ pr[c].ppid = pr[s].pid /\ c # s
  BY <1>0 DEF Ptrace, Calls, Children, Tracing
<1>3. pr[c].pid # 0 /\ pr[c].pc = "stop"
  BY <1>0, <1>2, Consts DEF Entry
<1>4. CASE ipc.lock # 0
  <2>1. pr' = [Asleep(s, IPC, "ipclock") EXCEPT ![s].with = c] /\ ipc' = ipc
    BY <1>4 DEF Ptrace, IpcWaits
  <2>2. PICK r : r = [pr[s] EXCEPT !.stat = "sleep", !.wchan = IPC, !.pc = "ipclock", !.with = c]
    OBVIOUS
  <2>3. /\ r \in ProcRec /\ r.stat = "sleep" /\ r.wchan = IPC /\ r.pc = "ipclock" /\ r.with = c
        /\ r.pid = pr[s].pid /\ r.ppid = pr[s].ppid /\ r.swted = pr[s].swted
    BY <1>0, <2>2, Consts DEF ProcRec, Stats, Pcs
  <2>4. pr' = [pr EXCEPT ![s] = r]
    BY <1>0, <2>1, <2>2 DEF Asleep, Tables, ProcRec
  <2>5. pr' \in Tables /\ pr'[s] = r /\ \A q \in Slots : q # s => pr'[q] = pr[q]
    BY <1>0, <2>3, <2>4 DEF Tables
  <2>6. ProcTypeOK'
    BY <1>1, <2>1, <2>5 DEF ProcInv, ProcTypeOK, Tables
  <2>7. Entries'
    <3>1. Entry(s, pr[s])
      BY <1>0
    <3>2. Entry(s, pr'[s])
      BY <1>2, <2>3, <2>5, <3>1 DEF Entry
    <3> QED BY <1>0, <2>5, <3>2 DEF Entries
  <2>8. SameTree
    BY <1>2, <2>3, <2>5 DEF SameTree
  <2>9. Waiting'
    <3>1. \A q \in Slots : AsleepInWait(pr'[q]) => AsleepInWait(pr[q])
      BY <2>3, <2>5 DEF AsleepInWait
    <3>2. \A x \in Slots : ToReport(pr'[x]) => ToReport(pr[x])
      BY <2>3, <2>5 DEF ToReport
    <3> QED BY <2>8, <3>1, <3>2, WaitingKept
  <2>10. Tracing'
    <3>1. \A q \in Slots : pr'[q].pc = "ipcreq" <=> pr[q].pc = "ipcreq"
      BY <1>2, <2>3, <2>5
    <3>2. \A q \in Slots : pr[q].pc = "ipcreq" => q # s
      BY <1>2
    <3>3. \A q \in Slots : pr'[q].pid = pr[q].pid /\ pr'[q].ppid = pr[q].ppid
      BY <2>8 DEF SameTree
    <3>4. ASSUME NEW q \in Slots, pr'[q].pc = "ipclock"
          PROVE  /\ pr'[q].with \in Slots /\ pr'[pr'[q].with].stat = "stop"
                 /\ pr'[pr'[q].with].ppid = pr'[q].pid
      <4>1. CASE q = s
        BY <1>2, <2>3, <2>5, <4>1
      <4>2. CASE q # s
        <5>1. pr[q].with \in Slots /\ pr[pr[q].with].stat = "stop" /\ pr[pr[q].with].ppid = pr[q].pid
          BY <1>0, <2>5, <3>4, <4>2 DEF Tracing
        <5> QED BY <1>2, <2>5, <4>2, <5>1
      <4> QED BY <4>1, <4>2
    <3>5. ASSUME NEW q \in Slots, pr'[q].pc = "ipcreq"
          PROVE  /\ pr'[q].stat = "sleep" =>
                      /\ ipc'.req > 0 /\ pr'[q].with \in Slots
                      /\ ipc'.lock = pr'[pr'[q].with].pid
                      /\ pr'[pr'[q].with].stat = "run" /\ pr'[pr'[q].with].pc = "stop"
                 /\ pr'[q].stat = "run" => ipc'.req <= 0
      <4>1. pr[q].pc = "ipcreq" /\ q # s /\ pr'[q] = pr[q]
        BY <2>5, <3>1, <3>2, <3>5
      <4>2. /\ pr[q].stat = "sleep" =>
                      /\ ipc.req > 0 /\ pr[q].with \in Slots
                      /\ ipc.lock = pr[pr[q].with].pid
                      /\ pr[pr[q].with].stat = "run" /\ pr[pr[q].with].pc = "stop"
            /\ pr[q].stat = "run" => ipc.req <= 0
        BY <1>0, <4>1 DEF Tracing
      <4> QED BY <1>2, <2>1, <2>5, <4>1, <4>2
    <3>6. \A x, q \in Slots : pr'[x].pc = "ipcreq" /\ pr'[q].pc = "ipcreq" => x = q
      BY <1>0, <3>1 DEF Tracing
    <3>7. ipc'.lock # 0 <=> \E q \in Slots : pr'[q].pc = "ipcreq"
      BY <1>0, <2>1, <3>1 DEF Tracing
    <3>8. ipc'.lock # 0
      BY <1>4, <2>1
    <3> QED BY <3>4, <3>5, <3>6, <3>7, <3>8 DEF Tracing
  <2> QED BY <1>1, <2>6, <2>7, <2>8, <2>9, <2>10, TreeKept DEF ProcInv
<1>5. CASE ipc.lock = 0
  <2>1. /\ pr' = [Asleep(s, IPC, "ipcreq") EXCEPT ![c].swted = FALSE, ![c].stat = "run", ![s].with = c]
        /\ ipc' = [lock |-> pr[c].pid, req |-> req]
    BY <1>5 DEF Ptrace, IpcWaits
  <2>2. PICK r : r = [pr[s] EXCEPT !.stat = "sleep", !.wchan = IPC, !.pc = "ipcreq", !.with = c]
    OBVIOUS
  <2>3. /\ r \in ProcRec /\ r.stat = "sleep" /\ r.wchan = IPC /\ r.pc = "ipcreq" /\ r.with = c
        /\ r.pid = pr[s].pid /\ r.ppid = pr[s].ppid /\ r.swted = pr[s].swted
    BY <1>0, <2>2, Consts DEF ProcRec, Stats, Pcs
  <2>4. PICK u : u = [pr[c] EXCEPT !.swted = FALSE, !.stat = "run"]
    OBVIOUS
  <2>5. /\ u \in ProcRec /\ u.stat = "run" /\ u.pc = pr[c].pc
        /\ u.pid = pr[c].pid /\ u.ppid = pr[c].ppid /\ u.with = pr[c].with
    BY <1>0, <2>4 DEF ProcRec, Stats
  <2>6. PICK a : a = [pr[s] EXCEPT !.stat = "sleep", !.wchan = IPC, !.pc = "ipcreq"]
    OBVIOUS
  <2>7. /\ pr' \in Tables /\ pr'[s] = r /\ pr'[c] = u
        /\ \A q \in Slots : q # s /\ q # c => pr'[q] = pr[q]
    <3>1. PICK A : A = [pr EXCEPT ![s] = a]
      OBVIOUS
    <3>2. A = Asleep(s, IPC, "ipcreq")
      BY <1>0, <2>6, <3>1 DEF Asleep, Tables
    <3>3. a \in ProcRec
      BY <1>0, <2>6, Consts DEF ProcRec, Stats, Pcs
    <3>4. A \in Tables /\ A[s] = a /\ A[c] = pr[c] /\ \A q \in Slots : q # s => A[q] = pr[q]
      BY <1>0, <1>2, <3>1, <3>3 DEF Tables
    <3>5. r = [a EXCEPT !.with = c]
      BY <1>0, <2>2, <2>6 DEF ProcRec
    <3>6. pr' = [A EXCEPT ![c].swted = FALSE, ![c].stat = "run", ![s].with = c]
      BY <2>1, <3>2
    <3>7. pr' = [A EXCEPT ![c] = u, ![s] = r]
      BY <1>2, <2>4, <3>4, <3>5, <3>6 DEF Tables
    <3> QED BY <1>2, <2>3, <2>5, <3>4, <3>7 DEF Tables
  <2>8. ProcTypeOK'
    <3>1. pr[c].pid \in Nat /\ req \in Int
      BY <1>0 DEF ProcRec
    <3>2. ipc' \in [lock : Nat, req : Int]
      BY <2>1, <3>1
    <3> QED BY <1>1, <2>7, <3>2 DEF ProcInv, ProcTypeOK, Tables
  <2>9. Entries'
    <3>1. Entry(s, pr[s]) /\ Entry(c, pr[c])
      BY <1>0
    <3>2. Entry(s, pr'[s])
      BY <1>2, <2>3, <2>7, <3>1 DEF Entry
    <3>3. Entry(c, pr'[c])
      BY <1>2, <2>5, <2>7, <3>1 DEF Entry
    <3> QED BY <1>0, <2>7, <3>2, <3>3 DEF Entries
  <2>10. SameTree
    BY <1>2, <2>3, <2>5, <2>7 DEF SameTree
  <2>11. Waiting'
    <3>1. \A q \in Slots : AsleepInWait(pr'[q]) => AsleepInWait(pr[q])
      BY <2>3, <2>5, <2>7 DEF AsleepInWait
    <3>2. \A x \in Slots : ToReport(pr'[x]) => ToReport(pr[x])
      BY <2>3, <2>5, <2>7 DEF ToReport
    <3> QED BY <2>10, <3>1, <3>2, WaitingKept
  <2>12. Tracing'
    <3>1. \A q \in Slots : pr[q].pc # "ipcreq"
      BY <1>0, <1>5 DEF Tracing
    <3>2. \A q \in Slots : pr'[q].pc = "ipcreq" <=> q = s
      BY <1>3, <2>3, <2>5, <2>7, <3>1
    <3>3. ipc'.lock = pr[c].pid /\ ipc'.lock # 0 /\ ipc'.req > 0
      BY <1>3, <2>1
    <3>4. \A q \in Slots : pr'[q].pid = pr[q].pid /\ pr'[q].ppid = pr[q].ppid
      BY <2>10 DEF SameTree
    <3>5. ASSUME NEW q \in Slots, pr'[q].pc = "ipclock"
          PROVE  /\ pr'[q].with \in Slots /\ pr'[pr'[q].with].stat = "stop"
                 /\ pr'[pr'[q].with].ppid = pr'[q].pid
      <4>1. q # s /\ q # c /\ pr'[q] = pr[q]
        BY <1>3, <2>3, <2>5, <2>7, <3>5
      <4>2. pr[q].with \in Slots /\ pr[pr[q].with].stat = "stop" /\ pr[pr[q].with].ppid = pr[q].pid
        BY <1>0, <3>5, <4>1 DEF Tracing
      <4>3. pr[q].stat # "null" /\ pr[s].stat # "null"
        BY <1>0, <1>2, <3>5, <4>1 DEF Entry
      <4>4. pr[q].pid # pr[s].pid
        BY <1>0, <4>1, <4>3 DEF Numbered, Exists
      <4>5. pr[q].with # c /\ pr[q].with # s
        BY <1>2, <4>2, <4>4
      <4> QED BY <2>7, <4>1, <4>2, <4>5
    <3>6. /\ pr'[s].with = c /\ pr'[c].pid = pr[c].pid /\ pr'[c].stat = "run" /\ pr'[c].pc = "stop"
          /\ pr'[s].stat = "sleep"
      BY <1>3, <2>3, <2>5, <2>7
    <3> QED BY <3>2, <3>3, <3>5, <3>6 DEF Tracing
  <2> QED BY <1>1, <2>8, <2>9, <2>10, <2>11, <2>12, TreeKept DEF ProcInv
<1> QED BY <1>4, <1>5

LEMMA PtraceDone_Step ==
    ASSUME ProcInv, NEW s \in Slots, PtraceDone(s)
    PROVE  ProcInv'
<1>0. /\ pr \in Tables /\ pr[s] \in ProcRec /\ ipc \in [lock : Nat, req : Int]
      /\ \A q \in Slots : Entry(q, pr[q])
      /\ Numbered /\ Fathered /\ Waiting /\ Tracing
  BY Basics DEF ProcInv
<1>1. pr[s].stat = "run" /\ pr[s].pc = "ipcreq" /\ UNCHANGED <<mpid, tty>> /\ GroupOK'
  BY Basics DEF PtraceDone
<1>2. ~(ipc.req > 0)
  BY <1>0, <1>1 DEF Tracing
<1>3. /\ pr' = Woken([pr EXCEPT ![s].pc = "user", ![s].with = 0], IPC)
      /\ ipc' = [lock |-> 0, req |-> 0]
  BY <1>2 DEF PtraceDone
<1>4. PICK r : r = [pr[s] EXCEPT !.pc = "user", !.with = 0]
  OBVIOUS
<1>5. /\ r \in ProcRec /\ r.stat = "run" /\ r.pc = "user"
      /\ r.pid = pr[s].pid /\ r.ppid = pr[s].ppid /\ r.swted = pr[s].swted
  BY <1>0, <1>1, <1>4 DEF ProcRec, Pcs
<1>6. PICK t : t = [pr EXCEPT ![s] = r]
  OBVIOUS
<1>7. t \in Tables /\ t[s] = r /\ \A q \in Slots : q # s => t[q] = pr[q]
  BY <1>0, <1>5, <1>6 DEF Tables
<1>8. pr' = Woken(t, IPC)
  <2>1. t = [pr EXCEPT ![s].pc = "user", ![s].with = 0]
    BY <1>0, <1>4, <1>6 DEF Tables
  <2> QED BY <1>3, <2>1
<1>9. /\ pr' \in Tables
      /\ \A q \in Slots :
            /\ Nudged(t[q], pr'[q])
            /\ t[q].stat = "sleep" /\ t[q].wchan = IPC => pr'[q].stat = "run"
            /\ ~(t[q].stat = "sleep" /\ t[q].wchan = IPC) => pr'[q] = t[q]
  BY <1>7, <1>8, WokenFacts
<1>10. pr'[s] = r
  BY <1>5, <1>7, <1>9
<1>11. \A q \in Slots : q # s => Nudged(pr[q], pr'[q])
  BY <1>7, <1>9
<1>12. ProcTypeOK'
  <2>1. ipc' \in [lock : Nat, req : Int]
    BY <1>3
  <2> QED BY <1>1, <1>9, <2>1 DEF ProcInv, ProcTypeOK, Tables
<1>13. Entries'
  <2>1. \A q \in Slots : q # s => Entry(q, pr'[q])
    BY <1>0, <1>11, NudgedEntry
  <2>2. Entry(s, pr'[s])
    BY <1>0, <1>1, <1>5, <1>10 DEF Entry
  <2> QED BY <2>1, <2>2 DEF Entries
<1>14. SameTree
  <2>1. \A q \in Slots : q # s =>
           /\ pr'[q].pid = pr[q].pid /\ pr'[q].ppid = pr[q].ppid
           /\ pr'[q].stat = "null" <=> pr[q].stat = "null"
           /\ pr'[q].stat = "zomb" <=> pr[q].stat = "zomb"
    BY <1>11, NudgedSame
  <2> QED BY <1>1, <1>5, <1>10, <2>1 DEF SameTree
<1>15. Waiting'
  <2>1. \A q \in Slots : AsleepInWait(pr'[q]) => AsleepInWait(pr[q])
    BY <1>5, <1>10, <1>11, NudgedSame DEF AsleepInWait
  <2>2. \A x \in Slots : ToReport(pr'[x]) => ToReport(pr[x])
    BY <1>5, <1>10, <1>11, NudgedSame DEF ToReport
  <2> QED BY <1>14, <2>1, <2>2, WaitingKept
<1>16. Tracing'
  <2>1. \A q \in Slots : pr'[q].pc # "ipcreq"
    BY <1>0, <1>1, <1>5, <1>10, <1>11, NudgedSame DEF Tracing
  <2>2. ASSUME NEW q \in Slots, pr'[q].pc = "ipclock"
        PROVE  /\ pr'[q].with \in Slots /\ pr'[pr'[q].with].stat = "stop"
               /\ pr'[pr'[q].with].ppid = pr'[q].pid /\ pr'[q].stat # "sleep"
    <3>1. q # s
      BY <1>5, <1>10, <2>2
    <3>2. pr[q].pc = "ipclock" /\ pr'[q].with = pr[q].with /\ pr'[q].pid = pr[q].pid
      BY <1>11, <2>2, <3>1, NudgedSame
    <3>3. pr[q].with \in Slots /\ pr[pr[q].with].stat = "stop" /\ pr[pr[q].with].ppid = pr[q].pid
      BY <1>0, <3>2 DEF Tracing
    <3>4. pr'[pr[q].with].stat = "stop" /\ pr'[pr[q].with].ppid = pr[q].pid
      BY <1>1, <1>11, <3>3, NudgedSame
    <3>5. Entry(q, pr[q])
      BY <1>0
    <3>6. pr'[q].stat # "sleep"
      BY <1>7, <1>9, <3>1, <3>2, <3>5 DEF Entry
    <3> QED BY <3>2, <3>3, <3>4, <3>6
  <2>3. ipc'.lock = 0
    BY <1>3
  <2> QED BY <2>1, <2>2, <2>3 DEF Tracing
<1> QED BY <1>1, <1>12, <1>13, <1>14, <1>15, <1>16, TreeKept DEF ProcInv

LEMMA Fork_Step ==
    ASSUME ProcInv, NEW s \in Slots, Fork(s)
    PROVE  ProcInv'
<1>0. /\ pr \in Tables /\ pr[s] \in ProcRec /\ ipc \in [lock : Nat, req : Int]
      /\ \A q \in Slots : Entry(q, pr[q])
      /\ ProcTypeOK /\ Entries /\ Numbered /\ Fathered /\ Waiting /\ Tracing
      /\ tty.pgrp \in Nat
  BY Basics DEF ProcInv
<1>1. pr[s].stat = "run" /\ pr[s].pc = "user" /\ FreeSlots # {} /\ ipc' = ipc /\ mpid' = NewPid
  BY DEF Fork, Calls, MayFork
<1>2. PICK c : c = Min(FreeSlots)
  OBVIOUS
<1>3. c \in Slots /\ pr[c].stat = "null" /\ c # s
  <2>1. FreeSlots \in SUBSET Nat
    BY Consts DEF FreeSlots
  <2>2. c \in FreeSlots
    BY <1>1, <1>2, <2>1, MinExists
  <2> QED BY <1>1, <2>2 DEF FreeSlots, Exists
<1>4. NewPid \in 1 .. PIDMAX - 1 /\ NewPid \notin Taken
  BY <1>0, <1>3, NumberLeft DEF Exists
<1>5. NewPid \in Nat
  BY <1>4, Consts
<1>6. PICK r : r = [pr[c] EXCEPT !.stat = "run", !.strc = FALSE, !.swted = FALSE,
                       !.su = pr[s].su, !.pgrp = pr[s].pgrp, !.pid = NewPid,
                       !.ppid = pr[s].pid, !.pc = "user", !.act = pr[s].act]
  OBVIOUS
<1>7. /\ r \in ProcRec /\ r.stat = "run" /\ r.pid = NewPid /\ r.ppid = pr[s].pid /\ r.pc = "user"
  <2>1. pr[c] \in ProcRec
    BY <1>3, Basics
  <2>2. PICK n : n = NewPid
    OBVIOUS
  <2>3. /\ pr[s].su \in BOOLEAN /\ pr[s].pgrp \in Nat /\ pr[s].pid \in Nat
        /\ pr[s].act \in [Sigs -> Dispositions] /\ n \in Nat
    BY <1>0, <1>5, <2>2 DEF ProcRec
  <2>4. r = [pr[c] EXCEPT !.stat = "run", !.strc = FALSE, !.swted = FALSE,
                       !.su = pr[s].su, !.pgrp = pr[s].pgrp, !.pid = n,
                       !.ppid = pr[s].pid, !.pc = "user", !.act = pr[s].act]
    BY <1>6, <2>2
  <2>5. r \in ProcRec
    BY <2>1, <2>3, <2>4 DEF ProcRec, Stats, Pcs
  <2>6. r.stat = "run" /\ r.pid = n /\ r.ppid = pr[s].pid /\ r.pc = "user"
    BY <2>1, <2>4 DEF ProcRec
  <2> QED BY <2>2, <2>5, <2>6
<1>8. pr' = [pr EXCEPT ![c] = r]
  BY <1>2, <1>6 DEF Fork
<1>9. pr' \in Tables /\ pr'[c] = r /\ \A q \in Slots : q # c => pr'[q] = pr[q]
  BY <1>0, <1>3, <1>7, <1>8 DEF Tables
<1>10. GroupOK'
  <2>1. tty'.pgrp = tty.pgrp \/ tty' = tty
    BY DEF Fork
  <2> QED BY <1>0, <2>1 DEF GroupOK
<1>11. ProcTypeOK'
  BY <1>0, <1>1, <1>5, <1>9 DEF ProcTypeOK, Tables
<1>12. Entries'
  <2>1. c # 1
    BY <1>0, <1>3 DEF Entry
  <2>2. Entry(c, pr'[c])
    BY <1>4, <1>7, <1>9, <2>1 DEF Entry
  <2> QED BY <1>0, <1>9, <2>2 DEF Entries
<1>13. \A q \in Slots : pr[q].pid # NewPid
  BY <1>4 DEF Taken
<1>14. Numbered'
  BY <1>0, <1>7, <1>9, <1>13 DEF Numbered, Exists
<1>15. Fathered'
  <2>1. SUFFICES ASSUME NEW p \in Slots, pr'[p].stat # "null", p # 1
                 PROVE  \E q \in Slots : pr'[q].stat \notin {"null", "zomb"} /\ pr'[q].pid = pr'[p].ppid
    BY DEF Fathered, Exists, Alive
  <2>2. CASE p = c
    BY <1>1, <1>3, <1>7, <1>9, <2>2
  <2>3. CASE p # c
    <3>1. PICK q \in Slots : pr[q].stat \notin {"null", "zomb"} /\ pr[q].pid = pr[p].ppid
      BY <1>0, <1>9, <2>1, <2>3 DEF Fathered, Exists, Alive
    <3>2. q # c
      BY <1>3, <3>1
    <3> QED BY <1>9, <2>3, <3>1, <3>2
  <2> QED BY <2>2, <2>3
<1>16. Waiting'
  <2>1. SUFFICES ASSUME NEW q \in Slots, pr'[q].stat = "sleep", pr'[q].pc = "waitslp"
                 PROVE  /\ \E x \in Slots : pr'[x].stat # "null" /\ pr'[x].ppid = pr'[q].pid
                        /\ \A x \in Slots : pr'[x].stat # "null" /\ pr'[x].ppid = pr'[q].pid =>
                              pr'[x].stat # "zomb" /\ (pr'[x].stat = "stop" => pr'[x].swted)
    BY DEF Waiting, WaitsFor, Exists
  <2>2. q # c /\ pr'[q] = pr[q]
    BY <1>7, <1>9, <2>1
  <2>3. /\ \E x \in Slots : pr[x].stat # "null" /\ pr[x].ppid = pr[q].pid
        /\ \A x \in Slots : pr[x].stat # "null" /\ pr[x].ppid = pr[q].pid =>
              pr[x].stat # "zomb" /\ (pr[x].stat = "stop" => pr[x].swted)
    BY <1>0, <2>1, <2>2 DEF Waiting, WaitsFor, Exists
  <2> QED BY <1>3, <1>7, <1>9, <2>2, <2>3
<1>17. Tracing'
  <2>1. \A q \in Slots : pr'[q].pc \in {"ipclock", "ipcreq"} \/ pr[q].pc \in {"ipclock", "ipcreq"} =>
           q # c /\ pr'[q] = pr[q]
    BY <1>0, <1>3, <1>7, <1>9 DEF Entry
  <2>2. \A x \in Slots : pr[x].stat \in {"stop", "run"} => pr'[x] = pr[x]
    BY <1>3, <1>9
  <2> QED BY <1>0, <1>1, <2>1, <2>2 DEF Tracing
<1> QED BY <1>10, <1>11, <1>12, <1>14, <1>15, <1>16, <1>17 DEF ProcInv

(* exit's end: what becomes of the entries of a table t in which s has just *)
(* become a zombie, when its children pass to process 1.                    *)
Passed(t, u, s, q) ==
    /\ u[q].pid = t[q].pid /\ u[q].pc = t[q].pc /\ u[q].with = t[q].with /\ u[q].swted = t[q].swted
    /\ u[q].pgrp = t[q].pgrp
    /\ u[q].ppid = IF t[q].ppid = t[s].pid THEN 1 ELSE t[q].ppid
    /\ \/ u[q].stat = t[q].stat /\ u[q].wchan = t[q].wchan
       \/ t[q].stat = "sleep" /\ u[q].stat = "run"
       \/ t[q].stat = "stop" /\ u[q].stat = "run"
    /\ t[q].stat = "stop" /\ t[q].ppid = t[s].pid => u[q].stat = "run"
    /\ t[q].stat = "stop" /\ t[q].ppid # t[s].pid => u[q].stat = "stop"
    /\ t[q].wchan = IPC /\ t[q].stat = "sleep" => u[q].stat = "sleep"

LEMMA AdoptedFacts ==
    ASSUME NEW t \in Tables, NEW s \in Slots
    PROVE  /\ Adopted(t, s) \in Tables
           /\ \A q \in Slots : Passed(t, Adopted(t, s), s, q)
           /\ \A q, c \in Slots : t[c].ppid = t[s].pid /\ t[q].stat = "sleep" /\ t[q].wchan = 1
                  => Adopted(t, s)[q].stat = "run"
<1>1. PICK kids : kids = {c \in Slots : t[c].ppid = t[s].pid}
  OBVIOUS
<1>2. CASE kids = {}
  <2>1. Adopted(t, s) = t
    BY <1>1, <1>2 DEF Adopted
  <2>2. \A q \in Slots : t[q].ppid # t[s].pid
    BY <1>1, <1>2
  <2>3. \A q \in Slots : Passed(t, t, s, q)
    BY <2>2 DEF Passed
  <2> QED BY <2>1, <2>2, <2>3
<1>3. CASE kids # {}
  <2>1. PICK u : u = [c \in Slots |->
                         IF c \notin kids THEN t[c]
                         ELSE [t[c] EXCEPT !.ppid = 1, !.stat = IF @ = "stop" THEN "run" ELSE @]]
    OBVIOUS
  <2>2. PICK v : v = Woken(u, 1)
    OBVIOUS
  <2>3. Adopted(t, s) = v
    BY <1>1, <1>3, <2>1, <2>2 DEF Adopted
  <2>4. ASSUME NEW q \in Slots
        PROVE  /\ u[q] \in ProcRec /\ u[q].pid = t[q].pid /\ u[q].pc = t[q].pc /\ u[q].with = t[q].with
               /\ u[q].swted = t[q].swted /\ u[q].wchan = t[q].wchan /\ u[q].pgrp = t[q].pgrp
               /\ u[q].ppid = IF t[q].ppid = t[s].pid THEN 1 ELSE t[q].ppid
               /\ u[q].stat = IF t[q].ppid = t[s].pid /\ t[q].stat = "stop" THEN "run" ELSE t[q].stat
    <3>1. t[q] \in ProcRec
      BY DEF Tables
    <3>2. CASE q \in kids
      <4>1. PICK st : st = IF t[q].stat = "stop" THEN "run" ELSE t[q].stat
        OBVIOUS
      <4>2. u[q] = [t[q] EXCEPT !.ppid = 1, !.stat = st]
        BY <2>1, <3>1, <3>2, <4>1 DEF ProcRec
      <4>3. st \in Stats /\ t[q].ppid = t[s].pid
        BY <1>1, <3>1, <3>2, <4>1 DEF ProcRec, Stats
      <4>4. u[q].ppid = 1 /\ u[q].stat = st
        BY <3>1, <4>2 DEF ProcRec
      <4>6. u[q] \in ProcRec
        <5>1. [t[q] EXCEPT !.ppid = 1] \in ProcRec
          BY <3>1 DEF ProcRec
        <5>2. PICK w : w = [t[q] EXCEPT !.ppid = 1]
          OBVIOUS
        <5>3. u[q] = [w EXCEPT !.stat = st]
          BY <4>2, <5>2
        <5> QED BY <4>3, <5>1, <5>2, <5>3 DEF ProcRec
      <4>5. /\ u[q].pid = t[q].pid /\ u[q].pc = t[q].pc /\ u[q].with = t[q].with
            /\ u[q].swted = t[q].swted /\ u[q].wchan = t[q].wchan /\ u[q].pgrp = t[q].pgrp
        BY <3>1, <4>2 DEF ProcRec
      <4> QED BY <4>1, <4>3, <4>4, <4>5, <4>6
    <3>3. CASE q \notin kids
      BY <1>1, <2>1, <3>1, <3>3
    <3> QED BY <3>2, <3>3
  <2>5. u \in Tables
    <3>1. u = [c \in Slots |-> u[c]]
      BY <2>1
    <3> QED BY <2>4, <3>1 DEF Tables
  <2>6. /\ v \in Tables
        /\ \A q \in Slots : /\ Nudged(u[q], v[q])
                            /\ u[q].stat = "sleep" /\ u[q].wchan = 1 => v[q].stat = "run"
                            /\ ~(u[q].stat = "sleep" /\ u[q].wchan = 1) => v[q] = u[q]
    BY <2>2, <2>5, WokenFacts
  <2>7. v = [q \in Slots |-> IF u[q].stat = "sleep" /\ u[q].wchan = 1
                             THEN [u[q] EXCEPT !.stat = "run", !.wchan = 0] ELSE u[q]]
    BY <2>2 DEF Woken
  <2>8. \A q \in Slots : v[q].pgrp = u[q].pgrp
    BY <2>4, <2>7 DEF ProcRec
  <2>9. ASSUME NEW q \in Slots PROVE Passed(t, v, s, q)
    <3>1. CASE u[q].stat = "sleep" /\ u[q].wchan = 1
      BY <2>4, <2>6, <2>8, <3>1, Consts DEF Passed, Nudged
    <3>2. CASE ~(u[q].stat = "sleep" /\ u[q].wchan = 1)
      <4>1. v[q] = u[q]
        BY <2>6, <3>2
      <4> QED BY <2>4, <4>1 DEF Passed
    <3> QED BY <3>1, <3>2
  <2>10. \A q \in Slots : t[q].stat = "sleep" /\ t[q].wchan = 1 => v[q].stat = "run"
    BY <2>4, <2>6
  <2> QED BY <2>3, <2>6, <2>9, <2>10
<1> QED BY <1>2, <1>3

LEMMA ExitZombie_Step ==
    ASSUME ProcInv, NEW s \in Slots, ExitZombie(s)
    PROVE  ProcInv'
<1>0. /\ pr \in Tables /\ pr[s] \in ProcRec /\ ipc \in [lock : Nat, req : Int]
      /\ \A q \in Slots : Entry(q, pr[q])
      /\ Numbered /\ Fathered /\ Waiting /\ Tracing
  BY Basics DEF ProcInv
<1>1. pr[s].stat = "run" /\ pr[s].pc = "exit" /\ UNCHANGED <<mpid, ipc, tty>> /\ GroupOK'
  BY Basics DEF ExitZombie
<1>2. s # 1
  BY <1>0, <1>1 DEF Entry
<1>3. PICK z : z = [pr[s] EXCEPT !.stat = "zomb"]
  OBVIOUS
<1>4. /\ z \in ProcRec /\ z.stat = "zomb" /\ z.pc = "exit" /\ z.pid = pr[s].pid
      /\ z.ppid = pr[s].ppid /\ z.wchan = pr[s].wchan /\ z.swted = pr[s].swted
  BY <1>0, <1>1, <1>3 DEF ProcRec, Stats
<1>5. PICK t0 : t0 = [pr EXCEPT ![s] = z]
  OBVIOUS
<1>6. t0 \in Tables /\ t0[s] = z /\ \A q \in Slots : q # s => t0[q] = pr[q]
  BY <1>0, <1>4, <1>5 DEF Tables
<1>7. PICK t : t = Adopted(t0, s)
  OBVIOUS
<1>8. PICK parent : parent = {q \in Slots : t[q].pid = t[s].ppid}
  OBVIOUS
<1>9. pr' = IF parent = {} THEN t ELSE Woken(t, Min(parent))
  <2>1. t0 = [pr EXCEPT ![s].stat = "zomb"]
    BY <1>0, <1>3, <1>5 DEF Tables
  <2> QED BY <1>7, <1>8, <2>1 DEF ExitZombie
<1>10. /\ t \in Tables
       /\ \A q \in Slots : Passed(t0, t, s, q)
       /\ \A q, c \in Slots : t0[c].ppid = t0[s].pid /\ t0[q].stat = "sleep" /\ t0[q].wchan = 1
              => t[q].stat = "run"
  BY <1>6, <1>7, AdoptedFacts
<1>11. \A m : parent # {} /\ m = Min(parent) => m \in parent
  BY <1>8, MinExists, Consts
(* The end of the step, told from its beginning.                            *)
<1>12. /\ pr' \in Tables
       /\ \A q \in Slots : Nudged(t[q], pr'[q])
       /\ \A q \in Slots : t[q].wchan = IPC => pr'[q].stat = t[q].stat
       /\ \A q \in Slots : t[q].stat = "sleep" /\ t[q].wchan = q /\ parent = {q} => pr'[q].stat = "run"
  <2>1. CASE parent = {}
    BY <1>9, <1>10, <2>1, NudgedNot
  <2>2. CASE parent # {}
    <3>1. PICK m : m = Min(parent)
      OBVIOUS
    <3>2. m \in parent /\ m \in Slots
      BY <1>8, <1>11, <2>2, <3>1
    <3>3. pr' = Woken(t, m)
      BY <1>9, <2>2, <3>1
    <3>4. /\ pr' \in Tables
          /\ \A q \in Slots :
                /\ Nudged(t[q], pr'[q])
                /\ t[q].stat = "sleep" /\ t[q].wchan = m => pr'[q].stat = "run"
                /\ ~(t[q].stat = "sleep" /\ t[q].wchan = m) => pr'[q] = t[q]
      BY <1>10, <3>3, WokenFacts
    <3> QED BY <3>2, <3>4, Consts
  <2> QED BY <2>1, <2>2
<1> DEFINE Kid(q) == pr[q].ppid = pr[s].pid
<1>13. \A q \in Slots : /\ pr'[q].pid = pr[q].pid /\ pr'[q].pc = pr[q].pc
                        /\ pr'[q].swted = pr[q].swted
                        /\ pr'[q].ppid = IF Kid(q) THEN 1 ELSE pr[q].ppid
  <2>1. TAKE q \in Slots
  <2>2. Passed(t0, t, s, q) /\ Nudged(t[q], pr'[q])
    BY <1>10, <1>12
  <2>3. t0[q].pid = pr[q].pid /\ t0[q].pc = pr[q].pc /\ t0[q].ppid = pr[q].ppid
        /\ t0[q].swted = pr[q].swted /\ t0[s].pid = pr[s].pid
    BY <1>1, <1>4, <1>6
  <2> QED BY <2>2, <2>3 DEF Passed, Nudged
<1>14. pr'[s].stat = "zomb"
  BY <1>4, <1>6, <1>10, <1>12 DEF Passed, Nudged
<1>15. ASSUME NEW q \in Slots, q # s
       PROVE  /\ pr'[q].with = pr[q].with
              /\ pr'[q].stat = "null" <=> pr[q].stat = "null"
              /\ pr'[q].stat = "null" => pr'[q].pgrp = pr[q].pgrp
              /\ pr'[q].stat = "zomb" <=> pr[q].stat = "zomb"
              /\ pr'[q].stat = "stop" <=> pr[q].stat = "stop" /\ ~Kid(q)
              /\ pr[q].stat = "run" => pr'[q].stat = "run"
              /\ pr'[q].stat = "sleep" => pr[q].stat = "sleep" /\ pr'[q].wchan = pr[q].wchan
              /\ pr[q].stat = "sleep" => pr'[q].stat \in {"sleep", "run"}
              /\ pr[q].stat = "sleep" /\ pr[q].wchan = IPC => pr'[q].stat = "sleep"
  <2>1. Passed(t0, t, s, q) /\ Nudged(t[q], pr'[q]) /\ (t[q].wchan = IPC => pr'[q].stat = t[q].stat)
    BY <1>10, <1>12
  <2>2. t0[q] = pr[q] /\ t0[s].pid = pr[s].pid
    BY <1>4, <1>6, <1>15
  <2> QED BY <2>1, <2>2 DEF Passed, Nudged
<1>16. ASSUME NEW q \in Slots, NEW c \in Slots, Kid(c), pr'[q].stat = "sleep", pr[q].wchan = 1, q # s
       PROVE  FALSE
  <2>1. t0[c].ppid = t0[s].pid
    BY <1>4, <1>6, <1>16
  <2>2. t0[q].stat = "sleep" /\ t0[q].wchan = 1
    BY <1>6, <1>15, <1>16
  <2>3. t[q].stat = "run"
    BY <1>10, <2>1, <2>2
  <2> QED BY <1>12, <1>16, <2>3 DEF Nudged
<1>17. \A q \in Slots : pr[q].stat # "null" /\ q # s => pr[q].pid # pr[s].pid
  BY <1>0, <1>1 DEF Numbered, Exists
<1>18. /\ pr[1].stat \in {"run", "sleep"} /\ pr[1].pid = 1 /\ 1 \in Slots
       /\ pr'[1].stat \in {"run", "sleep"} /\ pr'[1].pid = 1
  <2>1. 1 \in Slots /\ pr[1].stat \in {"run", "sleep"} /\ pr[1].pid = 1
    BY <1>0, Consts DEF Entry
  <2> QED BY <1>2, <1>13, <1>15, <2>1
<1>19. ProcTypeOK'
  BY <1>0, <1>1, <1>12 DEF ProcInv, ProcTypeOK, Tables
<1>20. Entries'
  <2>1. Entry(s, pr'[s])
    <3>1. Entry(s, pr[s])
      BY <1>0
    <3> QED BY <1>1, <1>2, <1>13, <1>14, <3>1 DEF Entry
  <2>2. ASSUME NEW q \in Slots, q # s PROVE Entry(q, pr'[q])
    <3>1. Entry(q, pr[q]) /\ Entry(s, pr[s])
      BY <1>0
    <3>2. pr[q].stat = "null" => ~Kid(q)
      BY <1>1, <3>1, Consts DEF Entry
    <3>3. /\ pr'[q].pid = pr[q].pid /\ pr'[q].pc = pr[q].pc
          /\ pr'[q].ppid = IF Kid(q) THEN 1 ELSE pr[q].ppid
      BY <1>13
    <3> HIDE DEF Kid
    <3> QED BY <1>15, <2>2, <3>1, <3>2, <3>3 DEF Entry
  <2> QED BY <2>1, <2>2 DEF Entries
<1>21. Numbered'
  <2>1. \A q \in Slots : pr'[q].stat # "null" => pr[q].stat # "null"
    BY <1>1, <1>15
  <2> QED BY <1>0, <1>13, <2>1 DEF Numbered, Exists
<1>22. Fathered'
  <2>1. SUFFICES ASSUME NEW p \in Slots, pr'[p].stat # "null", p # 1
                 PROVE  \E q \in Slots : pr'[q].stat \notin {"null", "zomb"} /\ pr'[q].pid = pr'[p].ppid
    BY DEF Fathered, Exists, Alive
  <2>2. CASE Kid(p)
    BY <1>13, <1>18, <2>2
  <2>3. CASE ~Kid(p)
    <3>1. pr[p].stat # "null"
      BY <1>1, <1>15, <2>1
    <3>2. PICK q \in Slots : pr[q].stat \notin {"null", "zomb"} /\ pr[q].pid = pr[p].ppid
      BY <1>0, <2>1, <3>1 DEF Fathered, Exists, Alive
    <3>3. q # s
      BY <2>3, <3>2
    <3>4. pr'[q].stat \notin {"null", "zomb"} /\ pr'[q].pid = pr[p].ppid
      BY <1>13, <1>15, <3>2, <3>3
    <3> QED BY <1>13, <2>3, <3>4
  <2> QED BY <2>2, <2>3
<1>23. Waiting'
  <2>1. SUFFICES ASSUME NEW q \in Slots, pr'[q].stat = "sleep", pr'[q].pc = "waitslp"
                 PROVE  /\ \E x \in Slots : pr'[x].stat # "null" /\ pr'[x].ppid = pr'[q].pid
                        /\ \A x \in Slots : pr'[x].stat # "null" /\ pr'[x].ppid = pr'[q].pid =>
                              pr'[x].stat # "zomb" /\ (pr'[x].stat = "stop" => pr'[x].swted)
    BY DEF Waiting, WaitsFor, Exists
  <2>2. q # s
    BY <1>14, <2>1
  <2>3. pr[q].stat = "sleep" /\ pr[q].pc = "waitslp" /\ pr'[q].pid = pr[q].pid
    BY <1>13, <1>15, <2>1, <2>2
  <2>4. pr[q].wchan = q /\ pr[q].pid # 0 /\ pr[q].pid # pr[s].pid
    <3>1. Entry(q, pr[q])
      BY <1>0
    <3> QED BY <1>17, <2>2, <2>3, <3>1, Consts DEF Entry
  <2>5. /\ \E x \in Slots : pr[x].stat # "null" /\ pr[x].ppid = pr[q].pid
        /\ \A x \in Slots : pr[x].stat # "null" /\ pr[x].ppid = pr[q].pid =>
              pr[x].stat # "zomb" /\ (pr[x].stat = "stop" => pr[x].swted)
    BY <1>0, <2>3 DEF Waiting, WaitsFor, Exists
  <2>6. \E x \in Slots : pr'[x].stat # "null" /\ pr'[x].ppid = pr'[q].pid
    <3>1. PICK x \in Slots : pr[x].stat # "null" /\ pr[x].ppid = pr[q].pid
      BY <2>5
    <3>2. pr'[x].ppid = pr[q].pid
      BY <1>13, <2>4, <3>1
    <3>3. pr'[x].stat # "null"
      BY <1>14, <1>15, <3>1
    <3> QED BY <2>3, <3>2, <3>3
  <2>7. ASSUME NEW x \in Slots, pr'[x].stat # "null", pr'[x].ppid = pr'[q].pid
        PROVE  pr'[x].stat # "zomb" /\ (pr'[x].stat = "stop" => pr'[x].swted)
    <3>1. CASE Kid(x)
      <4>1. pr[q].pid = 1
        BY <1>13, <2>3, <2>7, <3>1
      <4>2. q = 1
        BY <1>0, <1>18, <2>3, <4>1 DEF Numbered, Exists
      <4> QED BY <1>16, <2>1, <2>2, <2>4, <3>1, <4>2
    <3>2. CASE ~Kid(x) /\ x = s
      <4>1. t[q].stat = "sleep" /\ t[q].wchan = q
        <5>1. Nudged(t[q], pr'[q]) /\ Passed(t0, t, s, q) /\ t0[q] = pr[q]
          BY <1>6, <1>10, <1>12, <2>2
        <5> QED BY <2>1, <2>3, <2>4, <5>1 DEF Nudged, Passed
      <4>2. \A y \in Slots : t[y].pid = pr[y].pid
        BY <1>12, <1>13 DEF Nudged
      <4>3. t[s].ppid = pr[q].pid
        BY <1>12, <2>3, <2>7, <3>2 DEF Nudged
      <4>4. \A y \in Slots : pr[y].pid = pr[q].pid => y = q
        BY <1>0, <2>3, <2>4 DEF Entry, Numbered, Exists
      <4>5. parent = {q}
        BY <1>8, <4>2, <4>3, <4>4
      <4> QED BY <1>12, <2>1, <4>1, <4>5
    <3>3. CASE ~Kid(x) /\ x # s
      <4>1. pr[x].ppid = pr[q].pid /\ pr[x].stat # "null" /\ pr'[x].swted = pr[x].swted
        BY <1>13, <1>15, <2>3, <2>7, <3>3
      <4> QED BY <1>15, <2>5, <3>3, <4>1
    <3> QED BY <3>1, <3>2, <3>3
  <2> QED BY <2>6, <2>7
<1>24. Tracing'
  <2>1. ASSUME NEW q \in Slots, pr'[q].pc \in {"ipclock", "ipcreq"}
        PROVE  /\ q # s /\ pr[q].pc = pr'[q].pc /\ pr'[q].with = pr[q].with /\ pr'[q].stat = pr[q].stat
    <3>1. q # s /\ pr[q].pc = pr'[q].pc
      BY <1>1, <1>13, <2>1
    <3>2. Entry(q, pr[q])
      BY <1>0
    <3>3. pr[q].stat \in {"run", "sleep"} /\ (pr[q].stat = "sleep" => pr[q].wchan = IPC)
      BY <2>1, <3>1, <3>2 DEF Entry
    <3> QED BY <1>15, <3>1, <3>3
  <2>2. \A q \in Slots : pr'[q].pc = pr[q].pc /\ pr'[q].pid = pr[q].pid
    BY <1>13
  <2>3. ASSUME NEW q \in Slots, pr'[q].pc = "ipclock"
        PROVE  /\ pr'[q].with \in Slots /\ pr'[pr'[q].with].stat = "stop"
               /\ pr'[pr'[q].with].ppid = pr'[q].pid
               /\ pr'[q].stat = "sleep" => ipc'.lock # 0
    <3>1. q # s /\ pr[q].pc = "ipclock" /\ pr'[q].with = pr[q].with /\ pr'[q].stat = pr[q].stat
      BY <2>1, <2>3
    <3>2. /\ pr[q].with \in Slots /\ pr[pr[q].with].stat = "stop" /\ pr[pr[q].with].ppid = pr[q].pid
          /\ pr[q].stat = "sleep" => ipc.lock # 0
      BY <1>0, <3>1 DEF Tracing
    <3>3. pr[q].stat # "null"
      BY <1>0, <3>1 DEF Entry
    <3>4. pr[q].with # s /\ ~Kid(pr[q].with)
      BY <1>1, <1>17, <3>1, <3>2, <3>3
    <3> QED BY <1>1, <1>13, <1>15, <3>1, <3>2, <3>4
  <2>4. ASSUME NEW q \in Slots, pr'[q].pc = "ipcreq"
        PROVE  /\ pr'[q].stat = "sleep" =>
                    /\ ipc'.req > 0 /\ pr'[q].with \in Slots
                    /\ ipc'.lock = pr'[pr'[q].with].pid
                    /\ pr'[pr'[q].with].stat = "run" /\ pr'[pr'[q].with].pc = "stop"
               /\ pr'[q].stat = "run" => ipc'.req <= 0
    <3>1. q # s /\ pr[q].pc = "ipcreq" /\ pr'[q].with = pr[q].with /\ pr'[q].stat = pr[q].stat
      BY <2>1, <2>4
    <3>2. /\ pr[q].stat = "sleep" =>
                    /\ ipc.req > 0 /\ pr[q].with \in Slots
                    /\ ipc.lock = pr[pr[q].with].pid
                    /\ pr[pr[q].with].stat = "run" /\ pr[pr[q].with].pc = "stop"
          /\ pr[q].stat = "run" => ipc.req <= 0
      BY <1>0, <3>1 DEF Tracing
    <3>3. ASSUME pr[q].stat = "sleep"
          PROVE  pr'[pr[q].with].stat = "run" /\ pr'[pr[q].with].pc = "stop"
                 /\ pr'[pr[q].with].pid = pr[pr[q].with].pid
      <4>1. pr[q].with \in Slots /\ pr[q].with # s
        BY <1>1, <3>2, <3>3
      <4> QED BY <1>13, <1>15, <3>2, <3>3, <4>1
    <3> QED BY <1>1, <3>1, <3>2, <3>3
  <2>5. \A x, q \in Slots : pr'[x].pc = "ipcreq" /\ pr'[q].pc = "ipcreq" => x = q
    BY <1>0, <2>2 DEF Tracing
  <2>6. ipc'.lock # 0 <=> \E q \in Slots : pr'[q].pc = "ipcreq"
    BY <1>0, <1>1, <2>2 DEF Tracing
  <2> QED BY <2>3, <2>4, <2>5, <2>6 DEF Tracing
<1> QED BY <1>1, <1>19, <1>20, <1>21, <1>22, <1>23, <1>24 DEF ProcInv

-----------------------------------------------------------------------------
LEMMA ProcInit_Inv ==
    ASSUME ProcInit
    PROVE  ProcInv
<1>1. PICK tree \in Trees :
         pr = [s \in Slots |->
                   IF s # 1 /\ tree.parent[s] = 0 THEN NullProc
                   ELSE [NullProc EXCEPT !.stat = "run", !.pid = s, !.ppid = tree.parent[s],
                            !.su = TRUE, !.pc = "user", !.strc = s \in tree.traced,
                            !.act = [n \in Sigs |-> IF s = 1 THEN "ignore" ELSE "default"]]]
  BY DEF ProcInit
<1>2. mpid = Pid0 /\ ipc = [lock |-> 0, req |-> 0] /\ tty = [pgrp |-> 0, users |-> {}]
  BY DEF ProcInit
<1>3. /\ tree.parent \in [Slots -> 0 .. NPROC]
      /\ \A s \in 2 .. NPROC :
            tree.parent[s] = 0 \/ tree.parent[s] = 1 \/ tree.parent[tree.parent[s]] # 0
  BY ProcConstants DEF Slots
<1>4. ASSUME NEW s \in Slots
      PROVE  /\ pr[s] \in ProcRec
             /\ s # 1 /\ tree.parent[s] = 0 => pr[s] = NullProc
             /\ ~(s # 1 /\ tree.parent[s] = 0) =>
                   /\ pr[s].stat = "run" /\ pr[s].pid = s /\ pr[s].ppid = tree.parent[s]
                   /\ pr[s].pc = "user"
  <2>1. CASE s # 1 /\ tree.parent[s] = 0
    BY <1>1, <2>1, NullIsRec
  <2>2. CASE ~(s # 1 /\ tree.parent[s] = 0)
    <3>1. PICK a : a = [n \in Sigs |-> IF s = 1 THEN "ignore" ELSE "default"]
      OBVIOUS
    <3>2. PICK b : b = (s \in tree.traced)
      OBVIOUS
    <3>3. PICK f : f = tree.parent[s]
      OBVIOUS
    <3>4. a \in [Sigs -> Dispositions] /\ b \in BOOLEAN /\ f \in Nat /\ s \in Nat
      BY <1>3, <3>1, <3>2, <3>3, Consts DEF Dispositions
    <3>5. pr[s] = [NullProc EXCEPT !.stat = "run", !.pid = s, !.ppid = f,
                            !.su = TRUE, !.pc = "user", !.strc = b, !.act = a]
      BY <1>1, <2>2, <3>1, <3>2, <3>3
    <3>6. NullProc \in ProcRec
      BY NullIsRec
    <3>7. pr[s] \in ProcRec
      BY <3>4, <3>5, <3>6, ZenonT(60) DEF ProcRec, Stats, Pcs
    <3>8. pr[s].stat = "run" /\ pr[s].pid = s /\ pr[s].ppid = f /\ pr[s].pc = "user"
      BY <3>5, <3>6 DEF ProcRec
    <3> QED BY <2>2, <3>3, <3>7, <3>8
  <2> QED BY <2>1, <2>2
<1>5. ProcTypeOK /\ GroupOK
  <2>1. pr = [s \in Slots |-> pr[s]]
    BY <1>1
  <2>2. pr \in [Slots -> ProcRec]
    BY <1>4, <2>1
  <2>3. mpid \in Nat
    BY <1>2, ProcConstants
  <2>4. ipc \in [lock : Nat, req : Int] /\ tty.pgrp \in Nat
    BY <1>2
  <2> QED BY <2>2, <2>3, <2>4 DEF ProcTypeOK, GroupOK
<1>6. Entries
  <2>1. SUFFICES ASSUME NEW s \in Slots PROVE Entry(s, pr[s])
    BY DEF Entries
  <2>2. CASE s # 1 /\ tree.parent[s] = 0
    BY <1>4, <2>2, NullIsRec DEF Entry
  <2>3. CASE ~(s # 1 /\ tree.parent[s] = 0)
    BY <1>4, <2>3, Consts DEF Entry
  <2> QED BY <2>2, <2>3
<1>7. \A s \in Slots : pr[s].stat \in {"null", "run"} /\ pr[s].pc \in {"none", "user"}
        /\ (pr[s].stat # "null" <=> ~(s # 1 /\ tree.parent[s] = 0))
  BY <1>4, NullIsRec
<1>8. Numbered
  BY <1>4, <1>7 DEF Numbered, Exists
<1>9. Fathered
  <2>1. SUFFICES ASSUME NEW p \in Slots, pr[p].stat # "null", p # 1
                 PROVE  \E q \in Slots : pr[q].stat \notin {"null", "zomb"} /\ pr[q].pid = pr[p].ppid
    BY DEF Fathered, Exists, Alive
  <2>2. tree.parent[p] # 0 /\ pr[p].ppid = tree.parent[p]
    BY <1>4, <1>7, <2>1
  <2>3. PICK q : q = tree.parent[p]
    OBVIOUS
  <2>4. q \in Slots /\ p \in 2 .. NPROC
    BY <1>3, <2>1, <2>2, <2>3, Consts
  <2>5. q = 1 \/ tree.parent[q] # 0
    BY <1>3, <2>2, <2>3, <2>4
  <2>6. pr[q].stat = "run" /\ pr[q].pid = q
    BY <1>4, <2>4, <2>5
  <2> QED BY <2>2, <2>3, <2>4, <2>6
<1>10. Waiting
  BY <1>7 DEF Waiting
<1>11. Tracing
  <2>1. \A s \in Slots : pr[s].pc # "ipcreq" /\ pr[s].pc # "ipclock"
    BY <1>7
  <2>2. ipc.lock = 0
    BY <1>2
  <2> QED BY <2>1, <2>2 DEF Tracing
<1> QED BY <1>5, <1>6, <1>8, <1>9, <1>10, <1>11 DEF ProcInv

LEMMA ProcNext_Inv ==
    ASSUME ProcInv, [ProcNext]_procVars
    PROVE  ProcInv'
<1>1. CASE \E n \in Sigs : TtySignal(n)
  BY <1>1, Signals_Step
<1>2. ASSUME NEW s \in Slots, UserCall(s)
      PROVE  ProcInv'
  BY <1>2, Fork_Step, Small_Step, Pause_Step, Rexit_Step, Signals_Step DEF UserCall
<1>3. ASSUME NEW s \in Slots, GoesOn(s)
      PROVE  ProcInv'
  BY <1>3, Pause_Step, ExitZombie_Step, PtraceDone_Step, Psig_Step, Procxmt_Step DEF GoesOn
<1>4. ASSUME NEW s \in Slots, MayBegin(s)
      PROVE  ProcInv'
  BY <1>4, Wait_Step, Ptrace_Step DEF MayBegin
<1>5. CASE UNCHANGED procVars
  BY <1>5 DEF procVars, ProcInv, ProcTypeOK, GroupOK, Entries, Entry, Numbered, Fathered, Waiting,
              Tracing, Exists, Alive, WaitsFor
<1> QED BY <1>1, <1>2, <1>3, <1>4, <1>5 DEF ProcNext

(* A set any two of whose elements are equal has at most one. *)
LEMMA AtMostOne ==
    ASSUME NEW S, \A x, y \in S : x = y
    PROVE  Cardinality(S) <= 1
<1>1. CASE S = {}
  BY <1>1, FS_EmptySet
<1>2. CASE S # {}
  <2>1. PICK x \in S : TRUE
    BY <1>2
  <2>2. S = {x}
    BY <2>1
  <2> QED BY <2>2, FS_Singleton
<1> QED BY <1>1, <1>2

LEMMA InvIsEnough ==
    ASSUME ProcInv
    PROVE  FamilyTree /\ NobodyForgotten
<1>0. \A s \in Slots : Entry(s, pr[s])
  BY Basics
<1>1. FamilyTree
  <2>1. SUFFICES ASSUME NEW p \in Slots, pr[p].stat # "null"
                 PROVE  /\ \A q \in Slots : pr[q].stat # "null" /\ p # q => pr[p].pid # pr[q].pid
                        /\ p # 1 => \E q \in Slots : /\ HasPid(pr[p].ppid) = {q}
                                                     /\ pr[q].stat \notin {"null", "zomb"}
    BY DEF FamilyTree, Exists
  <2>2. \A q \in Slots : pr[q].stat # "null" /\ p # q => pr[p].pid # pr[q].pid
    BY <2>1 DEF ProcInv, Numbered, Exists
  <2>3. ASSUME p # 1
        PROVE  \E q \in Slots : HasPid(pr[p].ppid) = {q} /\ pr[q].stat \notin {"null", "zomb"}
    <3>1. PICK q \in Slots : pr[q].stat \notin {"null", "zomb"} /\ pr[q].pid = pr[p].ppid
      BY <2>1, <2>3 DEF ProcInv, Fathered, Exists, Alive
    <3>2. pr[q].pid # 0
      BY <1>0, <3>1, Consts DEF Entry
    <3>3. \A x \in Slots : pr[x].pid = pr[q].pid => x = q
      BY <1>0, <3>1, <3>2 DEF ProcInv, Numbered, Exists, Entry
    <3> QED BY <3>1, <3>3 DEF HasPid
  <2> QED BY <2>2, <2>3
<1>2. NobodyForgotten
  <2> DEFINE asleep(pc) == {s \in Slots : pr[s].stat = "sleep" /\ pr[s].pc = pc}
             holders == {s \in Slots : pr[s].pc = "ipcreq"}
  <2>1. \A s \in asleep("waitslp") : Reportable(s) = {} /\ Children(s) # {}
    BY DEF ProcInv, Waiting, WaitsFor, Reportable, Children, Exists
  <2>2. \A s \in asleep("ipclock") : ipc.lock # 0
    BY DEF ProcInv, Tracing
  <2>3. ipc.lock # 0 <=> holders # {}
    BY DEF ProcInv, Tracing
  <2>4. Cardinality(holders) <= 1
    <3>1. \A x, y \in holders : x = y
      BY DEF ProcInv, Tracing
    <3> HIDE DEF holders
    <3> QED BY <3>1, AtMostOne
  <2>5. \A s \in asleep("ipcreq") : /\ ipc.req > 0 /\ ipc.lock = pr[pr[s].with].pid
                                    /\ pr[pr[s].with].stat = "run" /\ pr[pr[s].with].pc = "stop"
    BY DEF ProcInv, Tracing
  <2>6. \A s \in Slots : pr[s].stat = "stop" => pr[s].ppid # 1
    BY <1>0 DEF Entry
  <2> QED BY <2>1, <2>2, <2>3, <2>4, <2>5, <2>6 DEF NobodyForgotten
<1> QED BY <1>1, <1>2

(* With tables of any size and numbers that start again at 1: no two       *)
(* processes have the same number, and every process but the first has one *)
(* living parent (newproc, exit and wait).                                 *)
THEOREM ProcessesFormATree == ProcSpec => []FamilyTree
<1>1. ProcInit => ProcInv
  BY ProcInit_Inv
<1>2. ProcInv /\ [ProcNext]_procVars => ProcInv'
  BY ProcNext_Inv
<1>3. ProcInv => FamilyTree
  BY InvIsEnough
<1> QED BY <1>1, <1>2, <1>3, PTL DEF ProcSpec

(* Nobody sleeps in wait with a child to report or with none, the lock of  *)
(* ptrace has one holder, which sleeps only as long as its child has to    *)
(* answer, and a process that has stopped has a parent to let it go on     *)
(* (wait, exit, stop, ptrace and procxmt).                                  *)
THEOREM NobodyIsForgotten == ProcSpec => []NobodyForgotten
<1>1. ProcInit => ProcInv
  BY ProcInit_Inv
<1>2. ProcInv /\ [ProcNext]_procVars => ProcInv'
  BY ProcNext_Inv
<1>3. ProcInv => NobodyForgotten
  BY InvIsEnough
<1> QED BY <1>1, <1>2, <1>3, PTL DEF ProcSpec
=============================================================================
