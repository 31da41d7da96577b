----------------------------- MODULE PipeProofs -----------------------------
(***************************************************************************)
(* Proofs about Pipe for any number of processes, any PIPSIZ, BSIZE and    *)
(* counts, with and without faulting copies.                               *)
(***************************************************************************)
EXTENDS Pipe, SequenceTheorems, TLAPS

Places == {"user", "plock", "woken", "wloop", "io", "asleep_ip", "asleep_r", "asleep_w"}

(* Which call a process can be in at each place; the closer of an end is   *)
(* the only one who has it.                                                *)
PlaceInv == \A p \in Procs :
    /\ pc[p] # "user" => op[p] # "none"
    /\ pc[p] = "io" => op[p] \in {"read", "write"}
    /\ pc[p] = "asleep_r" => op[p] = "read"
    /\ pc[p] \in {"asleep_w", "wloop"} => op[p] = "write"
    /\ pc[p] # "user" /\ op[p] = "close_r" => ropen = {p}
    /\ pc[p] # "user" /\ op[p] = "close_w" => wopen = {p}

(* A reader in readi has a byte before it; a writer in writei is at the    *)
(* end of the file, and its chunk fits below 2 PIPSIZ.                     *)
TransferInv == \A p \in Procs : pc[p] = "io" =>
    /\ op[p] = "read" => off <= uoff /\ uoff < size
    /\ op[p] = "write" => count = 2 /\ uoff = size /\ uoff + ucount <= 2 * PIPSIZ - 1

IInv == /\ TypeOK /\ LockIsHeld /\ ReaderWillWake /\ WriterWillWake /\ EndsMatch
        /\ PlaceInv /\ TransferInv

-----------------------------------------------------------------------------
(* What prele does to the places when p alone has moved.                   *)
LEMMA PreleStay ==
    ASSUME pc \in [Procs -> Places], NEW p \in Procs,
           NEW v \in Places \ {"asleep_ip"}, Prele([pc EXCEPT ![p] = v])
    PROVE  /\ lock' = FALSE /\ want' = FALSE
           /\ pc' \in [Procs -> Places] /\ pc'[p] = v
           /\ \A q \in Procs \ {p} :
                pc'[q] = IF want /\ pc[q] = "asleep_ip" THEN "plock" ELSE pc[q]
BY DEF Prele, Woken, Wakeup, Places

(* The same after a wakeup of the sleepers at S.                           *)
LEMMA PreleWoken ==
    ASSUME pc \in [Procs -> Places], NEW p \in Procs, NEW S,
           S \subseteq {"asleep_r", "asleep_w"},
           NEW v \in Places \ {"asleep_ip"},
           Prele([Woken(pc, S) EXCEPT ![p] = v])
    PROVE  /\ lock' = FALSE /\ want' = FALSE
           /\ pc' \in [Procs -> Places] /\ pc'[p] = v
           /\ \A q \in Procs \ {p} :
                pc'[q] = IF pc[q] \in S THEN "woken"
                         ELSE IF want /\ pc[q] = "asleep_ip" THEN "plock" ELSE pc[q]
BY DEF Prele, Woken, Wakeup, Places

(* What the end of a call does to its locals.                              *)
LEMMA ReturnsEffect ==
    ASSUME TypeOK, NEW p \in Procs, Returns(p)
    PROVE  /\ op' \in [Procs -> {"none", "read", "write", "close_r", "close_w"}]
           /\ left' \in [Procs -> 0 .. MaxCount] /\ err' \in [Procs -> BOOLEAN]
           /\ op'[p] = "none" /\ \A q \in Procs \ {p} : op'[q] = op[q]
<1>1. 0 \in 0 .. MaxCount
  BY PipeConstants
<1>2. /\ op \in [Procs -> {"none", "read", "write", "close_r", "close_w"}]
      /\ left \in [Procs -> 0 .. MaxCount] /\ err \in [Procs -> BOOLEAN]
  BY DEF TypeOK
<1>3. left' \in [Procs -> 0 .. MaxCount]
  BY <1>1, <1>2 DEF Returns
<1>4. err' \in [Procs -> BOOLEAN]
  BY <1>2 DEF Returns
<1>5. /\ op' \in [Procs -> {"none", "read", "write", "close_r", "close_w"}]
      /\ op'[p] = "none" /\ \A q \in Procs \ {p} : op'[q] = op[q]
  BY <1>2 DEF Returns
<1> QED BY <1>3, <1>4, <1>5

(* The initial state. *)
LEMMA InitIInv == Init => IInv
<1> SUFFICES ASSUME Init PROVE IInv
  OBVIOUS
<1> USE PipeConstants DEF Init, Fresh
<1>1. TypeOK
  <2>1. PICK v \in Vals : file = [i \in Offsets |-> v]
    OBVIOUS
  <2>2. file \in [Offsets -> Vals]
    BY <2>1
  <2>3. got \in Seq(Vals) /\ out \in Seq(Vals)
    OBVIOUS
  <2>4. 2 * PIPSIZ - 1 \in Nat
    OBVIOUS
  <2>5. /\ size \in 0 .. 2 * PIPSIZ - 1 /\ off \in 0 .. 2 * PIPSIZ - 1
        /\ base \in 0 .. 2 * PIPSIZ - 1 /\ uoff \in 0 .. 2 * PIPSIZ - 1
        /\ ucount \in 0 .. PIPSIZ /\ count \in 0 .. 2
    BY <2>4
  <2>6. /\ left \in [Procs -> 0 .. MaxCount] /\ err \in [Procs -> BOOLEAN]
        /\ ropen \in SUBSET Procs /\ wopen \in SUBSET Procs
    OBVIOUS
  <2> QED BY <2>2, <2>3, <2>5, <2>6 DEF TypeOK
<1>2. LockIsHeld /\ ReaderWillWake /\ WriterWillWake
  BY DEF LockIsHeld, ReaderWillWake, WriterWillWake, Holders
<1>3. EndsMatch /\ PlaceInv /\ TransferInv
  BY DEF EndsMatch, PlaceInv, TransferInv
<1> QED BY <1>1, <1>2, <1>3 DEF IInv

(* A call begins. *)
LEMMA CallKeeps ==
    ASSUME IInv, NEW p \in Procs, NEW o \in {"read", "write"},
           NEW n \in 0 .. MaxCount, Call(p, o, n)
    PROVE  IInv'
<1> USE PipeConstants DEF Call, IInv, inode, flags, ends, transfer
<1>1. TypeOK'
  BY DEF TypeOK, Offsets
<1>2. Holders' = Holders /\ Writing' = Writing
  BY DEF TypeOK, Holders, Writing
<1>3. LockIsHeld' /\ ReaderWillWake' /\ WriterWillWake'
  BY <1>2 DEF TypeOK, LockIsHeld, ReaderWillWake, WriterWillWake
<1>4. EndsMatch'
  BY DEF TypeOK, EndsMatch
<1>5. PlaceInv'
  BY DEF TypeOK, PlaceInv
<1>6. TransferInv'
  BY DEF TypeOK, TransferInv
<1> QED BY <1>1, <1>3, <1>4, <1>5, <1>6 DEF IInv

(* A process waits for the lock. *)
LEMMA PlockKeeps ==
    ASSUME IInv, NEW p \in Procs, Plock(p)
    PROVE  IInv'
<1> USE PipeConstants DEF Plock, IInv, inode, flags, ends, transfer
<1>1. TypeOK'
  BY DEF TypeOK, Offsets
<1>2. Holders' = Holders /\ Writing' = Writing
  BY DEF TypeOK, Holders, Writing
<1>3. LockIsHeld' /\ ReaderWillWake' /\ WriterWillWake'
  BY <1>2 DEF TypeOK, LockIsHeld, ReaderWillWake, WriterWillWake
<1>4. EndsMatch'
  BY DEF TypeOK, EndsMatch
<1>5. PlaceInv'
  BY DEF TypeOK, PlaceInv
<1>6. TransferInv'
  BY DEF TypeOK, TransferInv
<1> QED BY <1>1, <1>3, <1>4, <1>5, <1>6 DEF IInv

(* A signal wakes a sleeper. *)
LEMMA SignalledKeeps ==
    ASSUME IInv, NEW p \in Procs, Signalled(p)
    PROVE  IInv'
<1> USE PipeConstants DEF Signalled, IInv, inode, flags, ends, transfer
<1>1. TypeOK'
  BY DEF TypeOK, Offsets
<1>2. Holders' = Holders /\ Writing' = Writing
  BY DEF TypeOK, Holders, Writing
<1>3. LockIsHeld' /\ ReaderWillWake' /\ WriterWillWake'
  BY <1>2 DEF TypeOK, LockIsHeld, ReaderWillWake, WriterWillWake
<1>4. EndsMatch'
  BY DEF TypeOK, EndsMatch
<1>5. PlaceInv'
  BY DEF TypeOK, PlaceInv
<1>6. TransferInv'
  BY DEF TypeOK, TransferInv
<1> QED BY <1>1, <1>3, <1>4, <1>5, <1>6 DEF IInv

(* A signal ends a call. *)
LEMMA InterruptedKeeps ==
    ASSUME IInv, NEW p \in Procs, Interrupted(p)
    PROVE  IInv'
<1> USE PipeConstants DEF Interrupted, Returns, IInv, inode, flags, ends, transfer
<1>1. TypeOK'
  BY DEF TypeOK, Offsets
<1>2. Holders' = Holders /\ Writing' = Writing
  BY DEF TypeOK, Holders, Writing
<1>3. LockIsHeld' /\ ReaderWillWake' /\ WriterWillWake'
  BY <1>2 DEF TypeOK, LockIsHeld, ReaderWillWake, WriterWillWake
<1>4. EndsMatch'
  BY DEF TypeOK, EndsMatch
<1>5. PlaceInv'
  BY DEF TypeOK, PlaceInv
<1>6. TransferInv'
  BY DEF TypeOK, TransferInv
<1> QED BY <1>1, <1>3, <1>4, <1>5, <1>6 DEF IInv

(* While the pipe is not locked nobody is in a transfer or waits for it,   *)
(* and nobody sleeps for data that is there.                               *)
LEMMA Unlocked ==
    ASSUME IInv, ~lock
    PROVE  /\ \A q \in Procs : pc[q] # "io" /\ pc[q] # "asleep_ip"
           /\ size # 0 => \A q \in Procs : pc[q] # "asleep_r"
BY DEF IInv, LockIsHeld, ReaderWillWake, Holders, Writing

(* Steps that take the lock and give it back without touching the file or  *)
(* the ends: p goes on at v, the flags iread and iwrite may be set.        *)
LEMMA BrieflyLocked ==
    ASSUME IInv, NEW p \in Procs, NEW v \in Places \ {"io", "asleep_ip", "plock"}, ~lock,
           pc[p] # "user",
           Prele([pc EXCEPT ![p] = v]),
           UNCHANGED <<inode, ends, transfer>>,
           out' = <<>>,
           iread' \in BOOLEAN, iread => iread',
           iwrite' \in BOOLEAN, iwrite => iwrite',
           v = "user" => Returns(p),
           v # "user" => UNCHANGED <<op, left, err>>,
           v = "asleep_r" => iread' /\ count = 2 /\ size = 0 /\ op[p] = "read",
           v = "asleep_w" => iwrite' /\ count = 2 /\ size >= PIPSIZ /\ op[p] = "write",
           v # "wloop"
    PROVE  IInv'
<1> USE PipeConstants DEF IInv, inode, ends, transfer
<1>0. pc \in [Procs -> Places]
  BY DEF TypeOK, Places
<1>1. /\ lock' = FALSE /\ want' = FALSE
      /\ pc' \in [Procs -> Places] /\ pc'[p] = v
      /\ \A q \in Procs \ {p} : pc'[q] = pc[q]
  BY <1>0, PreleStay, Unlocked
<1>2. /\ op' \in [Procs -> {"none", "read", "write", "close_r", "close_w"}]
      /\ left' \in [Procs -> 0 .. MaxCount] /\ err' \in [Procs -> BOOLEAN]
      /\ \A q \in Procs \ {p} : op'[q] = op[q]
      /\ v # "user" => op'[p] = op[p]
  <2>1. CASE v = "user"
    BY <2>1, ReturnsEffect
  <2>2. CASE v # "user"
    BY <2>2 DEF TypeOK
  <2> QED BY <2>1, <2>2
<1>3. TypeOK'
  <2>1. out' \in Seq(Vals)
    OBVIOUS
  <2> QED BY <1>1, <1>2, <2>1 DEF TypeOK, Places
<1>4. Holders' = {} /\ Holders = {}
  BY <1>1, Unlocked DEF Holders
<1>5. LockIsHeld'
  BY <1>1, <1>4, Unlocked DEF LockIsHeld
<1>6. ReaderWillWake'
  BY <1>1, <1>4, Unlocked DEF ReaderWillWake, Writing
<1>7. WriterWillWake'
  BY <1>1 DEF WriterWillWake
<1>8. EndsMatch'
  BY <1>1, <1>2 DEF EndsMatch
<1>9. PlaceInv'
  BY <1>1, <1>2 DEF PlaceInv, Places
<1>10. TransferInv'
  BY <1>1, Unlocked DEF TransferInv
<1> QED BY <1>3, <1>5, <1>6, <1>7, <1>8, <1>9, <1>10

(* A reader finds the pipe empty. *)
LEMMA ReadpEmptyKeeps ==
    ASSUME IInv, NEW p \in Procs, ReadpEmpty(p)
    PROVE  IInv'
<1> USE DEF ReadpEmpty, Locks
<1>1. pc[p] # "user" /\ ~lock /\ op[p] = "read" /\ UNCHANGED <<inode, ends, transfer>>
  OBVIOUS
<1>2. iread \in BOOLEAN /\ iwrite \in BOOLEAN /\ count \in 0 .. 2
  BY DEF IInv, TypeOK
<1>3. CASE count < 2
  BY <1>1, <1>2, <1>3, BrieflyLocked DEF Places
<1>4. CASE ~(count < 2)
  BY <1>1, <1>2, <1>4, BrieflyLocked DEF Places
<1> QED BY <1>3, <1>4

(* A writer is done, or finds no reader. *)
LEMMA WritepReturnKeeps ==
    ASSUME IInv, NEW p \in Procs, WritepReturn(p)
    PROVE  IInv'
<1>1. iread \in BOOLEAN /\ iwrite \in BOOLEAN /\ count \in 0 .. 2
  BY DEF IInv, TypeOK
<1> QED BY <1>1, BrieflyLocked DEF WritepReturn, Locks, Places

(* A writer finds the pipe full. *)
LEMMA WritepFullKeeps ==
    ASSUME IInv, NEW p \in Procs, WritepFull(p)
    PROVE  IInv'
<1>1. iread \in BOOLEAN /\ iwrite \in BOOLEAN /\ count \in 0 .. 2
  BY DEF IInv, TypeOK
<1> QED BY <1>1, BrieflyLocked DEF WritepFull, Locks, Places

(* Steps that take the lock and keep it. *)
LEMMA LockedKeeps ==
    ASSUME IInv, NEW p \in Procs, ~lock, lock' = TRUE, pc[p] # "user",
           pc' = [pc EXCEPT ![p] = "io"],
           UNCHANGED <<inode, want, iread, iwrite, ends, op, err, got>>,
           out' = <<>>,
           left' \in [Procs -> 0 .. MaxCount],
           base' \in 0 .. 2 * PIPSIZ - 1, uoff' \in 0 .. 2 * PIPSIZ - 1,
           ucount' \in 0 .. PIPSIZ,
           op[p] \in {"read", "write"},
           op[p] = "read" => size # 0 /\ off <= uoff' /\ uoff' < size,
           op[p] = "write" => count = 2 /\ uoff' = size
                              /\ uoff' + ucount' <= 2 * PIPSIZ - 1
    PROVE  IInv'
<1> USE PipeConstants DEF IInv, inode, ends
<1>1. TypeOK'
  <2>1. out' \in Seq(Vals)
    OBVIOUS
  <2> QED BY <2>1 DEF TypeOK
<1>2. pc'[p] = "io" /\ \A q \in Procs \ {p} : pc'[q] = pc[q]
  BY DEF TypeOK
<1>3. Holders' = {p} /\ (op[p] = "write" => Writing' = {p})
  BY <1>2, Unlocked DEF Holders, Writing
<1>4. LockIsHeld'
  BY <1>2, <1>3, Unlocked DEF LockIsHeld
<1>5. ReaderWillWake'
  BY <1>2, <1>3, Unlocked DEF ReaderWillWake
<1>6. WriterWillWake'
  BY <1>2 DEF WriterWillWake
<1>7. EndsMatch'
  BY <1>2 DEF EndsMatch
<1>8. PlaceInv'
  BY <1>2 DEF PlaceInv
<1>9. TransferInv'
  BY <1>2, Unlocked DEF TransferInv
<1> QED BY <1>1, <1>4, <1>5, <1>6, <1>7, <1>8, <1>9

(* A reader finds data. *)
LEMMA ReadpStartKeeps ==
    ASSUME IInv, NEW p \in Procs, ReadpStart(p)
    PROVE  IInv'
<1> USE DEF ReadpStart, Locks
<1>1. pc[p] # "user" /\ ~lock /\ op[p] = "read" /\ size # 0
      /\ UNCHANGED <<inode, iread, iwrite, ends>> /\ out' = <<>>
  OBVIOUS
<1>2. iread \in BOOLEAN /\ iwrite \in BOOLEAN /\ left \in [Procs -> 0 .. MaxCount]
      /\ base \in 0 .. 2 * PIPSIZ - 1 /\ off \in 0 .. 2 * PIPSIZ - 1
      /\ ucount \in 0 .. PIPSIZ
  BY DEF IInv, TypeOK
<1>3. CASE left[p] = 0
  BY <1>1, <1>2, <1>3, BrieflyLocked DEF Places
<1>4. CASE left[p] # 0
  <2>1. off <= off /\ off < size
    BY <1>1, <1>2, PipeConstants DEF IInv, EndsMatch
  <2> QED BY <1>1, <1>2, <1>4, <2>1, LockedKeeps
<1> QED BY <1>3, <1>4

(* A writer finds room. *)
LEMMA WritepStartKeeps ==
    ASSUME IInv, NEW p \in Procs, WritepStart(p)
    PROVE  IInv'
<1> USE PipeConstants DEF WritepStart, Locks, Room
<1>1. left \in [Procs -> 0 .. MaxCount] /\ size \in 0 .. 2 * PIPSIZ - 1
  BY DEF IInv, TypeOK
<1>2. left[p] \in 0 .. MaxCount
  BY <1>1
<1>3. /\ ucount' \in 0 .. PIPSIZ /\ ucount' <= PIPSIZ
      /\ left[p] - ucount' \in 0 .. MaxCount
  BY <1>2 DEF Smaller
<1>4. left' \in [Procs -> 0 .. MaxCount]
  BY <1>1, <1>3
<1>5. uoff' + ucount' <= 2 * PIPSIZ - 1
  BY <1>1, <1>3
<1> QED BY <1>1, <1>3, <1>4, <1>5, LockedKeeps

(* An end is closed that others have open. *)
LEMMA CloseSharedKeeps ==
    ASSUME IInv, NEW p \in Procs, CloseShared(p)
    PROVE  IInv'
<1> USE PipeConstants DEF CloseShared, IInv, inode, flags, transfer
<1>1. TypeOK'
  BY DEF TypeOK, Offsets
<1>2. Holders' = Holders /\ Writing' = Writing
  BY DEF TypeOK, Holders, Writing
<1>3. LockIsHeld' /\ ReaderWillWake' /\ WriterWillWake'
  BY <1>2 DEF TypeOK, LockIsHeld, ReaderWillWake, WriterWillWake
<1>4. EndsMatch'
  <2>1. (ropen' = {} <=> ropen = {}) /\ (wopen' = {} <=> wopen = {})
    OBVIOUS
  <2>2. \A q \in Procs : pc[q] # "user" =>
          (q \in ropen => q \in ropen') /\ (q \in wopen => q \in wopen')
    OBVIOUS
  <2>3. UNCHANGED <<size, off, count, pc, op>>
    OBVIOUS
  <2> HIDE DEF CloseShared
  <2> QED BY <2>1, <2>2, <2>3 DEF EndsMatch
<1>5. PlaceInv'
  BY DEF TypeOK, PlaceInv
<1>6. TransferInv'
  BY DEF TypeOK, TransferInv
<1> QED BY <1>1, <1>3, <1>4, <1>5, <1>6 DEF IInv

(* The last user of an end is about to close it. *)
LEMMA CloseLastKeeps ==
    ASSUME IInv, NEW p \in Procs, CloseLast(p)
    PROVE  IInv'
<1> USE PipeConstants DEF CloseLast, IInv, inode, flags, ends, transfer
<1>1. TypeOK'
  <2>1. /\ op' \in [Procs -> {"none", "read", "write", "close_r", "close_w"}]
        /\ pc' \in [Procs -> Places]
    BY DEF TypeOK, Places
  <2>2. out' \in Seq(Vals)
    OBVIOUS
  <2> QED BY <2>1, <2>2 DEF TypeOK, Offsets, Places
<1>2. Holders' = Holders /\ Writing' = Writing
  BY DEF TypeOK, Holders, Writing
<1>3. LockIsHeld' /\ ReaderWillWake' /\ WriterWillWake'
  BY <1>2 DEF TypeOK, LockIsHeld, ReaderWillWake, WriterWillWake
<1>4. EndsMatch'
  BY DEF TypeOK, EndsMatch
<1>5. PlaceInv'
  BY DEF TypeOK, PlaceInv
<1>6. TransferInv'
  BY DEF TypeOK, TransferInv
<1> QED BY <1>1, <1>3, <1>4, <1>5, <1>6 DEF IInv

(* A block is read; at the end of readi the pipe is unlocked and may start *)
(* again.                                                                  *)
LEMMA ReadiBlockKeeps ==
    ASSUME IInv, NEW p \in Procs, NEW m \in 0 .. BSIZE, ReadiBlock(p, m)
    PROVE  IInv'
<1> DEFINE s == got \o [i \in 1 .. m |-> file[uoff + i - 1]]
           more == m = Smaller(BSIZE - (uoff % BSIZE), Smaller(left[p], size - uoff))
                   /\ m # left[p] /\ uoff + m < size
<1>0. /\ pc[p] = "io" /\ op[p] = "read" /\ UNCHANGED <<file, iread, ends>>
      /\ more => /\ uoff' = uoff + m /\ got' = s
                 /\ left' = [left EXCEPT ![p] = @ - m]
                 /\ out' = <<>>
                 /\ UNCHANGED <<size, off, lock, want, iwrite, pc, op, err, base, ucount>>
      /\ ~more => ReadpEnd(p, uoff + m) /\ out' = s /\ Returns(p) /\ Ends
  BY DEF ReadiBlock
<1>1. TypeOK /\ off <= uoff /\ uoff < size /\ size # 0
  <2> HIDE DEF s, more
  <2>1. TypeOK /\ off <= uoff /\ uoff < size
    BY <1>0 DEF IInv, TransferInv
  <2>2. uoff \in Nat
    BY <2>1 DEF TypeOK
  <2> QED BY <2>1, <2>2
<1>2. m <= left[p] /\ uoff + m <= size
  <2>1. m <= Smaller(BSIZE - (uoff % BSIZE), Smaller(left[p], size - uoff))
    BY PipeConstants DEF ReadiBlock
  <2>2. /\ left[p] \in Int /\ size - uoff \in Int /\ BSIZE - (uoff % BSIZE) \in Int
    BY <1>1, PipeConstants DEF TypeOK
  <2> HIDE DEF more
  <2> QED BY <2>1, <2>2, <1>1 DEF Smaller, TypeOK
<1>3. s \in Seq(Vals)
  <2>1. \A i \in 1 .. m : file[uoff + i - 1] \in Vals
    BY <1>1, <1>2, PipeConstants DEF TypeOK, Offsets
  <2>2. [i \in 1 .. m |-> file[uoff + i - 1]] \in Seq(Vals)
    BY <2>1
  <2>3. got \in Seq(Vals)
    BY <1>1 DEF TypeOK
  <2> QED BY <2>2, <2>3
<1>4. Holders = {p} /\ Writing = {}
  BY <1>0 DEF IInv, LockIsHeld, Holders, Writing
<1>5. lock /\ \A q \in Procs : pc[q] # "asleep_r" /\ (q # p => pc[q] # "io")
  BY <1>0, <1>1, <1>4 DEF IInv, LockIsHeld, ReaderWillWake, Holders
<1> HIDE DEF s, more
<1>6. CASE more
  <2>1. TypeOK'
    <3>1. uoff' \in 0 .. 2 * PIPSIZ - 1
      <4>1. uoff' = uoff + m
        BY <1>0, <1>6
      <4> QED BY <4>1, <1>1, <1>2, PipeConstants DEF TypeOK
    <3>2. left' \in [Procs -> 0 .. MaxCount]
      <4>1. left' = [left EXCEPT ![p] = @ - m]
        BY <1>0, <1>6
      <4> QED BY <4>1, <1>1, <1>2, PipeConstants DEF TypeOK
    <3>3. out' \in Seq(Vals) /\ got' \in Seq(Vals)
      BY <1>0, <1>3, <1>6
    <3> QED BY <1>0, <1>1, <1>6, <3>1, <3>2, <3>3 DEF TypeOK, ends
  <2>2. Holders' = Holders /\ Writing' = Writing
    BY <1>0, <1>6 DEF Holders, Writing
  <2>3. LockIsHeld' /\ ReaderWillWake' /\ WriterWillWake'
    BY <1>0, <1>6, <2>2 DEF IInv, LockIsHeld, ReaderWillWake, WriterWillWake, ends
  <2>4. EndsMatch' /\ PlaceInv'
    BY <1>0, <1>6 DEF IInv, EndsMatch, PlaceInv, ends
  <2>5. TransferInv'
    BY <1>0, <1>1, <1>2, <1>5, <1>6 DEF TransferInv, TypeOK, more
  <2> QED BY <2>1, <2>3, <2>4, <2>5 DEF IInv
<1>7. CASE ~more
  <2> DEFINE S == IF uoff + m = size /\ iwrite THEN {"asleep_w"} ELSE {}
  <2>0. pc \in [Procs -> Places]
    BY <1>1 DEF TypeOK, Places
  <2>1. /\ lock' = FALSE /\ want' = FALSE
        /\ pc' \in [Procs -> Places] /\ pc'[p] = "user"
        /\ \A q \in Procs \ {p} :
             pc'[q] = IF pc[q] \in S THEN "woken"
                      ELSE IF want /\ pc[q] = "asleep_ip" THEN "plock" ELSE pc[q]
    <3>1. CASE uoff + m = size
      <4>1. Prele([Woken(pc, S) EXCEPT ![p] = "user"])
        BY <1>0, <1>7, <3>1 DEF ReadpEnd
      <4>2. S \subseteq {"asleep_r", "asleep_w"}
        OBVIOUS
      <4> HIDE DEF S
      <4> QED BY <2>0, <4>1, <4>2, PreleWoken DEF Places
    <3>2. CASE uoff + m # size
      <4>1. Prele([pc EXCEPT ![p] = "user"]) /\ S = {}
        BY <1>0, <1>7, <3>2 DEF ReadpEnd
      <4> HIDE DEF S
      <4> QED BY <2>0, <4>1, PreleStay DEF Places
    <3> QED BY <3>1, <3>2
  <2>2. /\ off' = IF uoff + m = size THEN 0 ELSE uoff + m
        /\ size' = IF uoff + m = size THEN 0 ELSE size
        /\ iwrite' = IF uoff + m = size THEN FALSE ELSE iwrite
        /\ base' = 0 /\ uoff' = 0 /\ ucount' = 0 /\ got' = <<>> /\ out' = s
    BY <1>0, <1>7 DEF ReadpEnd, Ends
  <2>3. /\ op' \in [Procs -> {"none", "read", "write", "close_r", "close_w"}]
        /\ left' \in [Procs -> 0 .. MaxCount] /\ err' \in [Procs -> BOOLEAN]
        /\ op'[p] = "none" /\ \A q \in Procs \ {p} : op'[q] = op[q]
    BY <1>0, <1>1, <1>7, ReturnsEffect
  <2>4. TypeOK'
    <3>1. got' \in Seq(Vals) /\ out' \in Seq(Vals)
      BY <1>3, <2>2
    <3>2. /\ off' \in 0 .. 2 * PIPSIZ - 1 /\ size' \in 0 .. 2 * PIPSIZ - 1
          /\ base' \in 0 .. 2 * PIPSIZ - 1 /\ uoff' \in 0 .. 2 * PIPSIZ - 1
          /\ ucount' \in 0 .. PIPSIZ
      BY <1>1, <1>2, <2>2, PipeConstants DEF TypeOK
    <3> QED BY <1>0, <1>1, <2>1, <2>2, <2>3, <3>1, <3>2 DEF TypeOK, Places, ends
  <2>5. \A q \in Procs : pc'[q] # "io" /\ pc'[q] # "asleep_ip" /\ pc'[q] # "asleep_r"
    BY <1>5, <2>1 DEF IInv, LockIsHeld
  <2>6. LockIsHeld' /\ ReaderWillWake'
    BY <2>1, <2>5 DEF LockIsHeld, ReaderWillWake, Holders
  <2>7. WriterWillWake'
    <3>1. CASE uoff + m = size
      BY <2>1, <3>1 DEF IInv, WriterWillWake
    <3>2. CASE uoff + m # size
      BY <1>0, <2>1, <2>2, <3>2 DEF IInv, WriterWillWake, ends
    <3> QED BY <3>1, <3>2
  <2>8. EndsMatch'
    <3>1. off' < size' \/ (off' = 0 /\ size' = 0)
      BY <1>1, <1>2, <2>2 DEF TypeOK
    <3>2. \A q \in Procs : pc'[q] # "user" => pc[q] # "user" /\ op'[q] = op[q]
      BY <2>1, <2>3
    <3> QED BY <1>0, <3>1, <3>2 DEF IInv, EndsMatch, ends
  <2>9. PlaceInv'
    <3>1. \A q \in Procs : pc'[q] # "user" =>
             /\ pc[q] # "user" /\ op'[q] = op[q]
             /\ pc'[q] = pc[q] \/ pc'[q] \in {"plock", "woken"}
      BY <2>1, <2>3
    <3> QED BY <1>0, <3>1 DEF IInv, PlaceInv, ends
  <2>10. TransferInv'
    BY <2>5 DEF TransferInv
  <2> QED BY <2>4, <2>6, <2>7, <2>8, <2>9, <2>10 DEF IInv
<1> QED BY <1>6, <1>7

(* A block is written at the end of the file; at the end of writei the     *)
(* pipe is unlocked, and a reader that sleeps is woken.                    *)
LEMMA WriteiBlockKeeps ==
    ASSUME IInv, NEW p \in Procs, NEW b \in Bytes, WriteiBlock(p, b)
    PROVE  IInv'
<1> DEFINE m == Len(b)
           more == ~err'[p] /\ ucount # m
<1>0. /\ pc[p] = "io" /\ op[p] = "write" /\ UNCHANGED <<off, iwrite, ends, op, left>>
      /\ file' = Copyin(b) /\ out' = <<>>
      /\ size' = IF uoff + m > size THEN uoff + m ELSE size
      /\ err' = [err EXCEPT ![p] = @ \/ m < Smaller(BSIZE - (uoff % BSIZE), ucount)]
      /\ more => /\ uoff' = uoff + m /\ ucount' = ucount - m
                 /\ UNCHANGED <<lock, want, iread, pc, base, got>>
      /\ ~more => WritepEnd(p) /\ Ends
  BY DEF WriteiBlock
<1>1. /\ TypeOK /\ count = 2 /\ uoff = size /\ uoff + ucount <= 2 * PIPSIZ - 1
  BY <1>0 DEF IInv, TransferInv
<1>2. /\ m \in Nat /\ b \in [1 .. m -> Vals]
  <2>1. PICK k \in 0 .. BSIZE : b \in [1 .. k -> Vals]
    BY DEF Bytes
  <2>2. Len(b) = k
    BY <2>1, PipeConstants
  <2> QED BY <2>1, <2>2, PipeConstants
<1>3. m <= ucount
  <2>1. m <= Smaller(BSIZE - (uoff % BSIZE), ucount)
    BY <1>2, PipeConstants DEF WriteiBlock
  <2>2. ucount \in Int /\ BSIZE - (uoff % BSIZE) \in Int
    BY <1>1, PipeConstants DEF TypeOK
  <2> HIDE DEF more, m
  <2> QED BY <2>1, <2>2, <1>2 DEF Smaller
<1>4. size' = uoff + m /\ size <= size' /\ size' \in 0 .. 2 * PIPSIZ - 1
  <2> HIDE DEF more, m
  <2> QED BY <1>0, <1>1, <1>2, <1>3, PipeConstants DEF TypeOK
<1>5. file' \in [Offsets -> Vals] /\ err' \in [Procs -> BOOLEAN]
  <2>1. \A i \in Offsets : uoff <= i /\ i < uoff + m => b[i - uoff + 1] \in Vals
    <3> HIDE DEF more, m
    <3> QED BY <1>1, <1>2, PipeConstants DEF TypeOK, Offsets
  <2>2. file' \in [Offsets -> Vals]
    BY <1>0, <1>1, <2>1 DEF TypeOK, Copyin
  <2>3. err' \in [Procs -> BOOLEAN]
    <3> DEFINE e == m < Smaller(BSIZE - (uoff % BSIZE), ucount)
    <3>1. err' = [err EXCEPT ![p] = @ \/ e] /\ err \in [Procs -> BOOLEAN]
      BY <1>0, <1>1 DEF TypeOK
    <3>2. e \in BOOLEAN
      OBVIOUS
    <3> HIDE DEF e
    <3> QED BY <3>1, <3>2, Zenon
  <2> QED BY <2>2, <2>3
<1>6. Holders = {p} /\ Writing = {p} /\ lock
  BY <1>0 DEF IInv, LockIsHeld, Holders, Writing
<1>7. \A q \in Procs \ {p} : pc[q] # "io"
  BY <1>6 DEF Holders
<1> HIDE DEF more, m
<1>8. CASE more
  <2>1. TypeOK'
    <3>1. uoff' \in 0 .. 2 * PIPSIZ - 1 /\ ucount' \in 0 .. PIPSIZ
      BY <1>0, <1>1, <1>2, <1>3, <1>4, <1>8, PipeConstants DEF TypeOK
    <3>2. out' \in Seq(Vals)
      BY <1>0
    <3> QED BY <1>0, <1>1, <1>4, <1>5, <1>8, <3>1, <3>2 DEF TypeOK, ends
  <2>2. Holders' = Holders /\ Writing' = Writing
    BY <1>0, <1>8 DEF Holders, Writing
  <2>3. LockIsHeld' /\ ReaderWillWake'
    BY <1>0, <1>6, <1>8, <2>2 DEF IInv, LockIsHeld, ReaderWillWake, ends
  <2>4. WriterWillWake'
    BY <1>0, <1>1, <1>4, <1>8, PipeConstants DEF IInv, WriterWillWake, TypeOK, ends
  <2>5. EndsMatch'
    <3>1. off' < size' \/ (off' = 0 /\ size' = 0)
      BY <1>0, <1>1, <1>2, <1>4 DEF IInv, EndsMatch, TypeOK
    <3> QED BY <1>0, <1>8, <3>1 DEF IInv, EndsMatch, ends
  <2>6. PlaceInv'
    BY <1>0, <1>8 DEF IInv, PlaceInv, ends
  <2>7. TransferInv'
    <3>1. uoff' = size' /\ uoff' + ucount' <= 2 * PIPSIZ - 1 /\ count' = 2
      BY <1>0, <1>1, <1>2, <1>3, <1>4, <1>8, PipeConstants DEF TypeOK, ends
    <3> QED BY <1>0, <1>7, <1>8, <3>1 DEF TransferInv
  <2> QED BY <2>1, <2>3, <2>4, <2>5, <2>6, <2>7 DEF IInv
<1>9. CASE ~more
  <2> DEFINE S == IF iread THEN {"asleep_r"} ELSE {}
  <2>0. pc \in [Procs -> Places]
    BY <1>1 DEF TypeOK, Places
  <2>1. /\ lock' = FALSE /\ want' = FALSE
        /\ pc' \in [Procs -> Places] /\ pc'[p] = "wloop"
        /\ \A q \in Procs \ {p} :
             pc'[q] = IF pc[q] \in S THEN "woken"
                      ELSE IF want /\ pc[q] = "asleep_ip" THEN "plock" ELSE pc[q]
    <3>1. Prele([Woken(pc, S) EXCEPT ![p] = "wloop"])
      BY <1>0, <1>9 DEF WritepEnd
    <3>2. S \subseteq {"asleep_r", "asleep_w"}
      OBVIOUS
    <3> HIDE DEF S
    <3> QED BY <2>0, <3>1, <3>2, PreleWoken DEF Places
  <2>2. iread' = FALSE /\ base' = 0 /\ uoff' = 0 /\ ucount' = 0 /\ got' = <<>>
    BY <1>0, <1>9 DEF WritepEnd, Ends
  <2>3. TypeOK'
    <3>1. got' \in Seq(Vals) /\ out' \in Seq(Vals)
      BY <1>0, <2>2
    <3>2. /\ base' \in 0 .. 2 * PIPSIZ - 1 /\ uoff' \in 0 .. 2 * PIPSIZ - 1
          /\ ucount' \in 0 .. PIPSIZ
      BY <2>2, PipeConstants
    <3> QED BY <1>0, <1>1, <1>4, <1>5, <2>1, <2>2, <3>1, <3>2 DEF TypeOK, Places, ends
  <2>4. \A q \in Procs : pc'[q] # "io" /\ pc'[q] # "asleep_ip" /\ pc'[q] # "asleep_r"
    BY <1>0, <1>7, <2>1 DEF IInv, LockIsHeld, ReaderWillWake
  <2>5. LockIsHeld' /\ ReaderWillWake'
    BY <2>1, <2>4 DEF LockIsHeld, ReaderWillWake, Holders
  <2>6. WriterWillWake'
    <3>1. (\E q \in Procs : pc'[q] = "asleep_w") => \E q \in Procs : pc[q] = "asleep_w"
      BY <2>1
    <3> QED BY <1>0, <1>1, <1>4, <3>1, PipeConstants DEF IInv, WriterWillWake, TypeOK, ends
  <2>7. EndsMatch'
    <3>1. off' < size' \/ (off' = 0 /\ size' = 0)
      BY <1>0, <1>1, <1>2, <1>4 DEF IInv, EndsMatch, TypeOK
    <3>2. \A q \in Procs : pc'[q] # "user" => pc[q] # "user" /\ op'[q] = op[q]
      BY <1>0, <2>1
    <3> QED BY <1>0, <3>1, <3>2 DEF IInv, EndsMatch, ends
  <2>8. PlaceInv'
    <3>1. \A q \in Procs : pc'[q] # "user" =>
             /\ pc[q] # "user" /\ op'[q] = op[q]
             /\ pc'[q] = pc[q] \/ pc'[q] \in {"plock", "woken"} \/ (q = p /\ pc'[q] = "wloop")
      BY <1>0, <2>1
    <3> QED BY <1>0, <3>1 DEF IInv, PlaceInv, ends
  <2>9. TransferInv'
    BY <2>4 DEF TransferInv
  <2> QED BY <2>3, <2>5, <2>6, <2>7, <2>8, <2>9 DEF IInv
<1> QED BY <1>8, <1>9

(* The last user of an end closes it: everybody who sleeps is woken.       *)
LEMMA ClosefKeeps ==
    ASSUME IInv, NEW p \in Procs, Closef(p)
    PROVE  IInv'
<1> DEFINE S == {"asleep_r", "asleep_w"}
<1>0. /\ pc[p] \in {"plock", "woken", "wloop"} /\ ~lock
      /\ iread' = FALSE /\ iwrite' = FALSE /\ count' = count - 1
      /\ Prele([Woken(pc, S) EXCEPT ![p] = "user"])
      /\ Returns(p) /\ out' = <<>> /\ UNCHANGED <<inode, transfer>>
      /\ \/ op[p] = "close_r" /\ ropen' = {} /\ wopen' = wopen
         \/ op[p] = "close_w" /\ wopen' = {} /\ ropen' = ropen
  BY DEF Closef, Locks
<1>1. /\ TypeOK
      /\ op[p] = "close_r" => ropen = {p}
      /\ op[p] = "close_w" => wopen = {p}
  BY <1>0 DEF IInv, PlaceInv
<1>2. pc \in [Procs -> Places]
  BY <1>1 DEF TypeOK, Places
<1>12. S \subseteq {"asleep_r", "asleep_w"}
  OBVIOUS
<1> HIDE DEF S
<1>3. /\ lock' = FALSE /\ want' = FALSE
      /\ pc' \in [Procs -> Places] /\ pc'[p] = "user"
      /\ \A q \in Procs \ {p} :
           pc'[q] = IF pc[q] \in S THEN "woken"
                    ELSE IF want /\ pc[q] = "asleep_ip" THEN "plock" ELSE pc[q]
  BY <1>0, <1>2, <1>12, PreleWoken DEF Places
<1>4. /\ op' \in [Procs -> {"none", "read", "write", "close_r", "close_w"}]
      /\ left' \in [Procs -> 0 .. MaxCount] /\ err' \in [Procs -> BOOLEAN]
      /\ op'[p] = "none" /\ \A q \in Procs \ {p} : op'[q] = op[q]
  BY <1>0, <1>1, ReturnsEffect
<1>5. count' = (IF ropen' = {} THEN 0 ELSE 1) + (IF wopen' = {} THEN 0 ELSE 1)
      /\ count' \in 0 .. 2
  <2>1. count = (IF ropen = {} THEN 0 ELSE 1) + (IF wopen = {} THEN 0 ELSE 1)
    BY DEF IInv, EndsMatch
  <2>2. CASE op[p] = "close_r"
    <3>1. ropen # {} /\ ropen' = {} /\ wopen' = wopen
      BY <1>0, <1>1, <2>2
    <3> QED BY <1>0, <2>1, <3>1
  <2>3. CASE op[p] = "close_w"
    <3>1. wopen # {} /\ wopen' = {} /\ ropen' = ropen
      BY <1>0, <1>1, <2>3
    <3> QED BY <1>0, <2>1, <3>1
  <2> QED BY <1>0, <2>2, <2>3
<1>6. TypeOK'
  <2>1. out' \in Seq(Vals)
    BY <1>0
  <2>2. ropen' \in SUBSET Procs /\ wopen' \in SUBSET Procs
    BY <1>0, <1>1 DEF TypeOK
  <2> QED BY <1>0, <1>1, <1>3, <1>4, <1>5, <2>1, <2>2 DEF TypeOK, Places, inode, transfer
<1>7. \A q \in Procs : pc'[q] \notin {"io", "asleep_ip", "asleep_r", "asleep_w"}
  BY <1>0, <1>3, Unlocked DEF S
<1>8. LockIsHeld' /\ ReaderWillWake' /\ WriterWillWake' /\ TransferInv'
  BY <1>3, <1>7 DEF LockIsHeld, ReaderWillWake, WriterWillWake, TransferInv, Holders
<1>9. \A q \in Procs : pc'[q] # "user" =>
        /\ q # p /\ pc[q] # "user" /\ op'[q] = op[q]
        /\ pc'[q] = pc[q] \/ pc'[q] \in {"plock", "woken"}
  BY <1>3, <1>4 DEF S
<1>10. EndsMatch'
  BY <1>0, <1>1, <1>5, <1>9 DEF IInv, EndsMatch, inode
<1>11. PlaceInv'
  BY <1>0, <1>1, <1>9 DEF IInv, PlaceInv, EndsMatch
<1> QED BY <1>6, <1>8, <1>10, <1>11 DEF IInv

(* The inode is used again: nobody can be in a call any more.              *)
LEMMA NewPipeKeeps == IInv /\ NewPipe => IInv'
<1> SUFFICES ASSUME IInv, NewPipe PROVE IInv'
  OBVIOUS
<1> USE PipeConstants DEF NewPipe, transfer
<1>1. ropen = {} /\ wopen = {}
  BY DEF IInv, EndsMatch
<1>2. \A q \in Procs : pc[q] = "user"
  BY <1>1 DEF IInv, EndsMatch
<1>3. TypeOK'
  <2>1. out' \in Seq(Vals)
    OBVIOUS
  <2>2. size' \in 0 .. 2 * PIPSIZ - 1 /\ off' \in 0 .. 2 * PIPSIZ - 1
    OBVIOUS
  <2>3. TypeOK /\ UNCHANGED <<file, pc, op, left, err, base, uoff, ucount, got>>
    BY DEF IInv
  <2> HIDE DEF NewPipe
  <2>4. /\ lock' \in BOOLEAN /\ want' \in BOOLEAN /\ iread' \in BOOLEAN
        /\ iwrite' \in BOOLEAN /\ count' \in 0 .. 2
        /\ ropen' \in SUBSET Procs /\ wopen' \in SUBSET Procs
    <3>1. /\ lock' = FALSE /\ want' = FALSE /\ iread' = FALSE /\ iwrite' = FALSE
          /\ count' = 2 /\ ropen' = Procs /\ wopen' = Procs
      BY DEF NewPipe
    <3>2. ropen' \in SUBSET Procs /\ wopen' \in SUBSET Procs
      BY <3>1, Zenon
    <3>3. count' \in 0 .. 2
      BY <3>1
    <3> QED BY <3>1, <3>2, <3>3, Zenon
  <2> QED BY <2>1, <2>2, <2>3, <2>4 DEF TypeOK, Offsets
<1>4. LockIsHeld' /\ ReaderWillWake' /\ WriterWillWake'
  BY <1>2 DEF LockIsHeld, ReaderWillWake, WriterWillWake, Holders
<1>5. EndsMatch' /\ PlaceInv' /\ TransferInv'
  BY <1>2 DEF EndsMatch, PlaceInv, TransferInv
<1> QED BY <1>3, <1>4, <1>5 DEF IInv

(* A step that changes nothing. *)
LEMMA StutterKeeps == IInv /\ UNCHANGED vars => IInv'
<1> SUFFICES ASSUME IInv, UNCHANGED vars PROVE IInv'
  OBVIOUS
<1> USE DEF IInv, vars
<1>1. TypeOK'
  BY DEF TypeOK, Offsets
<1>2. Holders' = Holders /\ Writing' = Writing
  BY DEF Holders, Writing
<1>3. LockIsHeld' /\ ReaderWillWake' /\ WriterWillWake'
  BY <1>2 DEF LockIsHeld, ReaderWillWake, WriterWillWake
<1>4. EndsMatch' /\ PlaceInv' /\ TransferInv'
  BY DEF EndsMatch, PlaceInv, TransferInv
<1> QED BY <1>1, <1>3, <1>4

(* Every step of readp, writep, closef and pipe keeps the invariant.       *)
LEMMA NextKeeps == IInv /\ [Next]_vars => IInv'
<1> SUFFICES ASSUME IInv, [Next]_vars PROVE IInv'
  OBVIOUS
<1>1. CASE \E p \in Procs, o \in {"read", "write"}, n \in 0 .. MaxCount : Call(p, o, n)
  BY <1>1, CallKeeps
<1>2. CASE \E p \in Procs : Plock(p) \/ Readp(p) \/ Writep(p)
  <2>1. PICK p \in Procs : Plock(p) \/ Readp(p) \/ Writep(p)
    BY <1>2
  <2>2. CASE Readp(p)
    BY <2>2, ReadpEmptyKeeps, ReadpStartKeeps, ReadiBlockKeeps DEF Readp
  <2>3. CASE Writep(p)
    BY <2>3, WritepReturnKeeps, WritepFullKeeps, WritepStartKeeps, WriteiBlockKeeps
    DEF Writep
  <2> QED BY <2>1, <2>2, <2>3, PlockKeeps
<1>6. CASE \E p \in Procs : Signalled(p) \/ Interrupted(p)
  BY <1>6, SignalledKeeps, InterruptedKeeps
<1>3. CASE \E p \in Procs : CloseShared(p) \/ CloseLast(p) \/ Closef(p)
  BY <1>3, CloseSharedKeeps, CloseLastKeeps, ClosefKeeps
<1>4. CASE NewPipe
  BY <1>4, NewPipeKeeps
<1>5. CASE UNCHANGED vars
  BY <1>5, StutterKeeps
<1> QED BY <1>1, <1>2, <1>3, <1>4, <1>5, <1>6 DEF Next

-----------------------------------------------------------------------------
(* readp, writep, closef and pipe together keep the inductive invariant.   *)
THEOREM InductiveInvariant == Spec => []IInv
BY InitIInv, NextKeeps, PTL DEF Spec

(* Types, and the bounds of the pipe's file: 2 PIPSIZ - 1 bytes is all     *)
(* that writep's test of i_size and its chunks of PIPSIZ bytes allow.      *)
THEOREM TypeCorrect == Spec => []TypeOK
<1>1. IInv => TypeOK
  BY DEF IInv
<1> QED BY <1>1, InductiveInvariant, PTL

(* plock and prele: one process at a time moves data, and none that sleeps *)
(* for the lock is forgotten.                                              *)
THEOREM LockCorrect == Spec => []LockIsHeld
<1>1. IInv => LockIsHeld
  BY DEF IInv
<1> QED BY <1>1, InductiveInvariant, PTL

(* readp cannot miss the wakeup of writep or closef.                       *)
THEOREM ReaderNotForgotten == Spec => []ReaderWillWake
<1>1. IInv => ReaderWillWake
  BY DEF IInv
<1> QED BY <1>1, InductiveInvariant, PTL

(* writep cannot miss the wakeup of readp or closef.                       *)
THEOREM WriterNotForgotten == Spec => []WriterWillWake
<1>1. IInv => WriterWillWake
  BY DEF IInv
<1> QED BY <1>1, InductiveInvariant, PTL

(* i_count, the holders of the ends and the two offsets agree.             *)
THEOREM EndsAgree == Spec => []EndsMatch
<1>1. IInv => EndsMatch
  BY DEF IInv
<1> QED BY <1>1, InductiveInvariant, PTL

-----------------------------------------------------------------------------
(***************************************************************************)
(* Pipe implements PipeFifo: readp and writep make a queue of bytes of the *)
(* pipe's file, for any number of processes, any PIPSIZ, BSIZE and counts, *)
(* with and without faulting copies.                                       *)
(***************************************************************************)

(* n bytes of f from offset o.                                             *)
Slice(f, o, n) == [i \in 1 .. n |-> f[o + i - 1]]

(* The bytes that are in the pipe.                                         *)
Buf == [i \in 1 .. (IF Writing = {} THEN size ELSE base) - off |-> file[off + i - 1]]

(* A reader in readi has what lies between f_offset and u_offset; a writer *)
(* in writei has a chunk of at most PIPSIZ bytes, begun where the file     *)
(* ended and while there was room.                                         *)
ChunkInv ==
    /\ Holders = {} => got = <<>>
    /\ \A p \in Holders :
         /\ op[p] = "read" => got = Slice(file, off, uoff - off)
         /\ op[p] = "write" =>
              /\ got = <<>>
              /\ off <= base /\ base <= uoff /\ base < PIPSIZ
              /\ uoff - base + ucount <= PIPSIZ

-----------------------------------------------------------------------------
(* A slice of the file is a sequence of bytes.                             *)
LEMMA SliceIsSeq ==
    ASSUME NEW f \in [Offsets -> Vals], NEW o \in Nat, NEW n \in Nat,
           o + n <= 2 * PIPSIZ - 1
    PROVE  /\ Slice(f, o, n) \in [1 .. n -> Vals]
           /\ Slice(f, o, n) \in Seq(Vals)
           /\ Len(Slice(f, o, n)) = n
           /\ \A i \in 1 .. n : Slice(f, o, n)[i] = f[o + i - 1]
<1>1. \A i \in 1 .. n : f[o + i - 1] \in Vals
  BY PipeConstants DEF Offsets
<1>2. Slice(f, o, n) \in [1 .. n -> Vals]
  BY <1>1 DEF Slice
<1>3. \A i \in 1 .. n : Slice(f, o, n)[i] = f[o + i - 1]
  BY DEF Slice
<1>4. Slice(f, o, n) \in Seq(Vals)
  BY <1>2
<1>5. Len(Slice(f, o, n)) = n
  BY <1>2
<1> QED BY <1>2, <1>3, <1>4, <1>5

(* Adjacent slices make one.                                               *)
LEMMA SliceConcat ==
    ASSUME NEW f \in [Offsets -> Vals], NEW o \in Nat, NEW n \in Nat, NEW m \in Nat,
           o + n + m <= 2 * PIPSIZ - 1
    PROVE  Slice(f, o, n) \o Slice(f, o + n, m) = Slice(f, o, n + m)
<1> DEFINE s == Slice(f, o, n)
           t == Slice(f, o + n, m)
           u == Slice(f, o, n + m)
<1>1. /\ s \in Seq(Vals) /\ Len(s) = n /\ \A i \in 1 .. n : s[i] = f[o + i - 1]
      /\ t \in Seq(Vals) /\ Len(t) = m /\ \A i \in 1 .. m : t[i] = f[o + n + i - 1]
      /\ u \in Seq(Vals) /\ Len(u) = n + m /\ \A i \in 1 .. n + m : u[i] = f[o + i - 1]
  <2>1. o + n <= 2 * PIPSIZ - 1 /\ o + n \in Nat /\ n + m \in Nat /\ o + (n + m) <= 2 * PIPSIZ - 1
    BY PipeConstants
  <2>2. s \in Seq(Vals) /\ Len(s) = n /\ \A i \in 1 .. n : s[i] = f[o + i - 1]
    BY <2>1, SliceIsSeq
  <2>3. t \in Seq(Vals) /\ Len(t) = m /\ \A i \in 1 .. m : t[i] = f[o + n + i - 1]
    BY <2>1, SliceIsSeq
  <2>4. u \in Seq(Vals) /\ Len(u) = n + m /\ \A i \in 1 .. n + m : u[i] = f[o + i - 1]
    BY <2>1, SliceIsSeq
  <2> QED BY <2>2, <2>3, <2>4
<1> HIDE DEF s, t, u
<1>2. /\ s \o t \in Seq(Vals) /\ Len(s \o t) = n + m
      /\ \A i \in 1 .. n + m : (s \o t)[i] = IF i <= n THEN s[i] ELSE t[i - n]
  BY <1>1, ConcatProperties
<1>3. ASSUME NEW i \in 1 .. n + m
      PROVE  (s \o t)[i] = u[i]
  <2>1. CASE i <= n
    <3>1. i \in 1 .. n /\ i \in 1 .. n + m
      BY <2>1
    <3>2. (s \o t)[i] = s[i]
      BY <1>2, <2>1, <3>1
    <3> QED BY <1>1, <3>1, <3>2
  <2>2. CASE ~(i <= n)
    <3>1. i - n \in 1 .. m /\ o + n + (i - n) - 1 = o + i - 1
      BY <2>2
    <3>2. (s \o t)[i] = t[i - n]
      BY <1>2, <2>2
    <3>3. t[i - n] = f[o + n + (i - n) - 1]
      BY <1>1, <3>1
    <3> QED BY <1>1, <3>1, <3>2, <3>3
  <2> QED BY <2>1, <2>2
<1>4. s \o t = u
  BY <1>1, <1>2, <1>3, SeqEqual
<1> QED BY <1>4 DEF s, t, u

(* The beginning and the rest of a slice.                                  *)
LEMMA SliceSplit ==
    ASSUME NEW f \in [Offsets -> Vals], NEW o \in Nat, NEW n \in Nat, NEW k \in 0 .. n,
           o + n <= 2 * PIPSIZ - 1
    PROVE  /\ SubSeq(Slice(f, o, n), 1, k) = Slice(f, o, k)
           /\ SubSeq(Slice(f, o, n), k + 1, n) = Slice(f, o + k, n - k)
<1> DEFINE s == Slice(f, o, n)
           t == Slice(f, o, k)
           u == Slice(f, o + k, n - k)
<1>1. /\ s \in Seq(Vals) /\ Len(s) = n /\ \A i \in 1 .. n : s[i] = f[o + i - 1] /\ s[i] \in Vals
      /\ t \in Seq(Vals) /\ Len(t) = k /\ \A i \in 1 .. k : t[i] = f[o + i - 1]
      /\ u \in Seq(Vals) /\ Len(u) = n - k /\ \A i \in 1 .. n - k : u[i] = f[o + k + i - 1]
  <2>1. /\ k \in Nat /\ o + k \in Nat /\ n - k \in Nat
        /\ o + k <= 2 * PIPSIZ - 1 /\ (o + k) + (n - k) <= 2 * PIPSIZ - 1
    BY PipeConstants
  <2>2. s \in Seq(Vals) /\ Len(s) = n /\ \A i \in 1 .. n : s[i] = f[o + i - 1] /\ s[i] \in Vals
    <3>1. s \in [1 .. n -> Vals]
      BY SliceIsSeq
    <3> HIDE DEF s
    <3>2. \A i \in 1 .. n : s[i] \in Vals
      BY <3>1
    <3> QED BY <3>2, SliceIsSeq DEF s
  <2>3. t \in Seq(Vals) /\ Len(t) = k /\ \A i \in 1 .. k : t[i] = f[o + i - 1]
    BY <2>1, SliceIsSeq
  <2>4. u \in Seq(Vals) /\ Len(u) = n - k /\ \A i \in 1 .. n - k : u[i] = f[o + k + i - 1]
    BY <2>1, SliceIsSeq
  <2> QED BY <2>2, <2>3, <2>4
<1> HIDE DEF s, t, u
<1>2. SubSeq(s, 1, k) = t
  <2> DEFINE w == SubSeq(s, 1, k)
  <2>1. w \in Seq(Vals) /\ Len(w) = k /\ \A i \in 1 .. k : w[i] = s[i]
    <3>1. \A i \in 1 .. k : s[i] \in Vals
      BY <1>1
    <3>3. 1 \in Int /\ k \in Int /\ k - 1 + 1 = k
      OBVIOUS
    <3>2. /\ w \in Seq(Vals)
          /\ Len(w) = IF 1 <= k THEN k - 1 + 1 ELSE 0
          /\ \A i \in 1 .. k - 1 + 1 : w[i] = s[1 + i - 1]
      BY ONLY <3>1, <3>3, SubSeqProperties
    <3> HIDE DEF w
    <3> QED BY <3>2, <3>3
  <2> HIDE DEF w
  <2>2. Len(w) = Len(t) /\ \A i \in 1 .. Len(w) : w[i] = t[i]
    <3>1. \A i \in 1 .. k : i \in 1 .. n
      OBVIOUS
    <3> QED BY <1>1, <2>1, <3>1
  <2>3. w = t
    BY <1>1, <2>1, <2>2, SeqEqual
  <2> QED BY <2>3 DEF w
<1>3. SubSeq(s, k + 1, n) = u
  <2> DEFINE w == SubSeq(s, k + 1, n)
  <2>1. w \in Seq(Vals) /\ Len(w) = n - k /\ \A i \in 1 .. n - k : w[i] = s[k + i]
    <3>1. \A i \in k + 1 .. n : s[i] \in Vals
      BY <1>1
    <3>3. k + 1 \in Int /\ n \in Int /\ k \in Int /\ k <= n
      OBVIOUS
    <3>2. /\ w \in Seq(Vals)
          /\ Len(w) = IF k + 1 <= n THEN n - (k + 1) + 1 ELSE 0
          /\ \A i \in 1 .. n - (k + 1) + 1 : w[i] = s[k + 1 + i - 1]
      BY ONLY <3>1, <3>3, SubSeqProperties
    <3> HIDE DEF w
    <3>4. Len(w) = n - k
      BY <3>2, <3>3
    <3>5. ASSUME NEW i \in 1 .. n - k PROVE w[i] = s[k + i]
      <4>1. i \in 1 .. n - (k + 1) + 1 /\ k + 1 + i - 1 = k + i
        BY <3>3
      <4> QED BY <3>2, <4>1
    <3> QED BY <3>2, <3>4, <3>5
  <2>2. ASSUME NEW i \in 1 .. n - k PROVE s[k + i] = u[i]
    <3>1. k + i \in 1 .. n /\ o + (k + i) - 1 = o + k + i - 1
      OBVIOUS
    <3> QED BY <1>1, <3>1, ZenonT(60)
  <2> HIDE DEF w
  <2>3. Len(w) = Len(u) /\ \A i \in 1 .. Len(w) : w[i] = u[i]
    BY <1>1, <2>1, <2>2
  <2>4. w = u
    BY <1>1, <2>1, <2>3, SeqEqual
  <2> QED BY <2>4 DEF w
<1> QED BY <1>2, <1>3 DEF s, t, u

-----------------------------------------------------------------------------
(* A step that the queue does not see.                                     *)
LEMMA QuietStep ==
    ASSUME Buf' = Buf, count' = count, out' = <<>>
    PROVE  Fifo!Next
BY DEF Buf, Fifo!Next, Fifo!Quiet

(* Nor one that leaves the file and the transfer alone.                    *)
LEMMA Untouched ==
    ASSUME ChunkInv, UNCHANGED <<inode, transfer, count>>, Holders' = Holders,
           \A p \in Holders : op'[p] = op[p], out' = <<>>
    PROVE  ChunkInv' /\ Fifo!Next
<1> USE DEF inode, transfer
<1>1. Writing' = Writing
  BY DEF Writing
<1>2. Buf' = Buf
  BY <1>1 DEF Buf
<1>3. ChunkInv'
  BY DEF ChunkInv, Slice
<1> QED BY <1>2, <1>3, QuietStep

(* While the pipe is not locked there is no transfer.                      *)
LEMMA Brief ==
    ASSUME IInv, ChunkInv, NEW p \in Procs, ~lock,
           NEW v \in Places \ {"io", "asleep_ip"}, Prele([pc EXCEPT ![p] = v]),
           UNCHANGED <<inode, transfer, count>>, out' = <<>>
    PROVE  ChunkInv' /\ Fifo!Next
<1>1. pc \in [Procs -> Places]
  BY DEF IInv, TypeOK, Places
<1>2. pc'[p] = v /\ \A q \in Procs \ {p} : pc'[q] = pc[q]
  BY <1>1, PreleStay, Unlocked
<1>3. Holders = {} /\ Holders' = {}
  BY <1>2, Unlocked DEF Holders
<1> QED BY <1>3, Untouched

(* The steps that move no byte.                                            *)
LEMMA NoBytes ==
    ASSUME IInv, ChunkInv, NEW p \in Procs,
           \/ \E o \in {"read", "write"}, n \in 0 .. MaxCount : Call(p, o, n)
           \/ Plock(p) \/ Signalled(p) \/ Interrupted(p)
           \/ CloseShared(p) \/ CloseLast(p)
    PROVE  ChunkInv' /\ Fifo!Next
<1> USE DEF ends, transfer
<1>0. pc \in [Procs -> Places] /\ op \in [Procs -> {"none", "read", "write", "close_r", "close_w"}]
  BY DEF IInv, TypeOK, Places
<1>1. /\ pc[p] # "io" /\ pc'[p] # "io"
      /\ \A q \in Procs \ {p} : pc'[q] = pc[q] /\ op'[q] = op[q]
      /\ UNCHANGED <<inode, transfer, count>> /\ out' = <<>>
  <2>1. CASE \E o \in {"read", "write"}, n \in 0 .. MaxCount : Call(p, o, n)
    BY <1>0, <2>1 DEF Call
  <2>2. CASE Plock(p)
    BY <1>0, <2>2 DEF Plock
  <2>3. CASE Signalled(p)
    BY <1>0, <2>3 DEF Signalled
  <2>4. CASE Interrupted(p)
    BY <1>0, <2>4 DEF Interrupted, Returns
  <2>5. CASE CloseShared(p)
    BY <1>0, <2>5 DEF CloseShared
  <2>6. CASE CloseLast(p)
    BY <1>0, <2>6 DEF CloseLast
  <2> QED BY <2>1, <2>2, <2>3, <2>4, <2>5, <2>6
<1>2. Holders' = Holders /\ \A q \in Holders : op'[q] = op[q]
  BY <1>1 DEF Holders
<1> QED BY <1>1, <1>2, Untouched

(* A reader or a writer looks at the pipe and does not start.              *)
LEMMA Looks ==
    ASSUME IInv, ChunkInv, NEW p \in Procs,
           \/ ReadpEmpty(p) \/ (ReadpStart(p) /\ left[p] = 0)
           \/ WritepReturn(p) \/ WritepFull(p)
    PROVE  ChunkInv' /\ Fifo!Next
<1> USE DEF ends, transfer, Locks, Places
<1>1. CASE ReadpEmpty(p)
  BY <1>1, Brief DEF ReadpEmpty
<1>2. CASE ReadpStart(p) /\ left[p] = 0
  BY <1>2, Brief DEF ReadpStart
<1>3. CASE WritepReturn(p)
  BY <1>3, Brief DEF WritepReturn
<1>4. CASE WritepFull(p)
  BY <1>4, Brief DEF WritepFull
<1> QED BY <1>1, <1>2, <1>3, <1>4

(* readi begins at f_offset.                                               *)
LEMMA ReadBegins ==
    ASSUME IInv, ChunkInv, NEW p \in Procs, ReadpStart(p), left[p] # 0
    PROVE  ChunkInv' /\ Fifo!Next
<1>1. /\ ~lock /\ op[p] = "read" /\ uoff' = off /\ pc' = [pc EXCEPT ![p] = "io"]
      /\ UNCHANGED <<op, base, ucount, got, inode, count>> /\ out' = <<>>
  BY DEF ReadpStart, Locks, ends
<1>2. Holders = {} /\ Writing = {} /\ Holders' = {p} /\ Writing' = {}
  BY <1>1, Unlocked DEF IInv, TypeOK, Holders, Writing
<1>3. Slice(file, off, off - off) = <<>>
  BY DEF IInv, TypeOK, Slice
<1>4. ChunkInv'
  BY <1>1, <1>2, <1>3 DEF ChunkInv, inode
<1>5. Buf' = Buf
  BY <1>1, <1>2 DEF Buf, inode
<1> QED BY <1>1, <1>4, <1>5, QuietStep

(* writei begins at the end of the file.                                   *)
LEMMA WriteBegins ==
    ASSUME IInv, ChunkInv, NEW p \in Procs, WritepStart(p)
    PROVE  ChunkInv' /\ Fifo!Next
<1>1. /\ ~lock /\ op[p] = "write" /\ size < PIPSIZ /\ base' = size /\ uoff' = size
      /\ ucount' = Smaller(left[p], PIPSIZ) /\ pc' = [pc EXCEPT ![p] = "io"]
      /\ UNCHANGED <<op, got, size, file, off, count>> /\ out' = <<>>
  BY DEF WritepStart, Locks, Room, ends, inode
<1>2. Holders = {} /\ Writing = {} /\ Holders' = {p} /\ Writing' = {p}
  BY <1>1, Unlocked DEF IInv, TypeOK, Holders, Writing
<1>3. off <= size /\ size - size + ucount' <= PIPSIZ
  BY <1>1, PipeConstants DEF IInv, EndsMatch, TypeOK, Smaller
<1>4. base' <= uoff'
  BY <1>1 DEF IInv, TypeOK
<1>5. ChunkInv'
  BY <1>1, <1>2, <1>3, <1>4 DEF ChunkInv
<1>6. Buf' = Buf
  BY <1>1, <1>2 DEF Buf
<1> QED BY <1>1, <1>5, <1>6, QuietStep

(* readi moves some bytes: the reader has them, or the call ends and they  *)
(* leave the queue.                                                        *)
LEMMA ReadStep ==
    ASSUME IInv, ChunkInv, NEW p \in Procs, NEW m \in 0 .. BSIZE, ReadiBlock(p, m)
    PROVE  ChunkInv' /\ Fifo!Next
<1> DEFINE s == got \o [i \in 1 .. m |-> file[uoff + i - 1]]
           more == m = Smaller(BSIZE - (uoff % BSIZE), Smaller(left[p], size - uoff))
                   /\ m # left[p] /\ uoff + m < size
<1>0. /\ pc[p] = "io" /\ op[p] = "read" /\ UNCHANGED <<file, count>>
      /\ more => /\ uoff' = uoff + m /\ got' = s /\ out' = <<>>
                 /\ UNCHANGED <<size, off, pc, op, base>>
      /\ ~more => ReadpEnd(p, uoff + m) /\ out' = s /\ Returns(p) /\ Ends
  BY DEF ReadiBlock, ends
<1>1. /\ size \in Nat /\ off \in Nat /\ uoff \in Nat /\ file \in [Offsets -> Vals] /\ m \in Nat
      /\ size <= 2 * PIPSIZ - 1 /\ off <= uoff /\ uoff < size
      /\ pc \in [Procs -> Places]
      /\ op \in [Procs -> {"none", "read", "write", "close_r", "close_w"}]
  <2> HIDE DEF s, more
  <2> QED BY <1>0, PipeConstants DEF IInv, TypeOK, TransferInv, Places
<1>2. uoff + m <= size
  <2>1. m <= Smaller(BSIZE - (uoff % BSIZE), Smaller(left[p], size - uoff))
    BY PipeConstants DEF ReadiBlock
  <2>2. /\ left[p] \in Int /\ size - uoff \in Int /\ BSIZE - (uoff % BSIZE) \in Int
    BY <1>1, PipeConstants DEF IInv, TypeOK
  <2> HIDE DEF more
  <2> QED BY <2>1, <2>2, <1>1 DEF Smaller
<1>3. Holders = {p} /\ Writing = {}
  BY <1>0 DEF IInv, LockIsHeld, Holders, Writing
<1>4. got = Slice(file, off, uoff - off)
  BY <1>0, <1>3 DEF ChunkInv
<1>5. s = Slice(file, off, uoff + m - off)
  <2>1. uoff - off \in Nat /\ off + (uoff - off) = uoff /\ uoff - off + m = uoff + m - off
        /\ off + (uoff - off) + m <= 2 * PIPSIZ - 1
    BY <1>1, <1>2, PipeConstants
  <2>2. Slice(file, off, uoff - off) \o Slice(file, uoff, m) = Slice(file, off, uoff + m - off)
    BY <1>1, <2>1, SliceConcat, SMTT(60)
  <2> QED BY <1>4, <2>2 DEF Slice
<1>6. Buf = Slice(file, off, size - off)
  BY <1>3 DEF Buf, Slice
<1> HIDE DEF s, more
<1>7. CASE more
  <2>1. Holders' = Holders /\ Writing' = Writing
    BY <1>0, <1>7 DEF Holders, Writing
  <2>2. Buf' = Buf
    BY <1>0, <1>7, <2>1 DEF Buf
  <2>3. ChunkInv'
    <3>1. got' = s /\ uoff' = uoff + m /\ off' = off /\ file' = file /\ op' = op
      BY <1>0, <1>7
    <3>2. got' = Slice(file', off', uoff' - off')
      BY <1>1, <1>5, <3>1
    <3> QED BY <1>0, <1>3, <2>1, <3>1, <3>2 DEF ChunkInv, Slice
  <2> QED BY <1>0, <1>7, <2>2, <2>3, QuietStep
<1>8. CASE ~more
  <2>1. Holders' = {}
    <3>1. \E S : /\ S \subseteq {"asleep_r", "asleep_w"}
                 /\ Prele([Woken(pc, S) EXCEPT ![p] = "user"])
      <4>1. CASE uoff + m = size
        BY <1>0, <1>8, <4>1 DEF ReadpEnd
      <4>2. CASE uoff + m # size
        <5>1. Woken(pc, {}) = pc
          BY <1>1 DEF Woken, Wakeup
        <5> QED BY <1>0, <1>8, <4>2, <5>1 DEF ReadpEnd
      <4> QED BY <4>1, <4>2
    <3>2. PICK S : /\ S \subseteq {"asleep_r", "asleep_w"}
                   /\ Prele([Woken(pc, S) EXCEPT ![p] = "user"])
      BY <3>1
    <3>3. pc'[p] = "user" /\ \A q \in Procs \ {p} : pc'[q] = "io" => pc[q] = "io"
      BY <1>1, <3>2, PreleWoken DEF Places
    <3> QED BY <1>3, <3>3 DEF Holders
  <2>2. Writing' = {}
    BY <2>1 DEF Writing
  <2>3. got' = <<>> /\ out' = s
    BY <1>0, <1>8 DEF Ends
  <2>4. ChunkInv'
    BY <2>1, <2>3 DEF ChunkInv
  <2> DEFINE n == uoff + m - off
  <2>5. n \in 0 .. size - off /\ size - off \in Nat /\ off + (size - off) <= 2 * PIPSIZ - 1
    BY <1>1, <1>2, PipeConstants
  <2>6. Len(Buf) = size - off
    BY <1>1, <1>6, <2>5, SliceIsSeq
  <2>7. SubSeq(Buf, 1, n) = s
    BY <1>1, <1>5, <1>6, <2>5, SliceSplit
  <2>8. SubSeq(Buf, n + 1, Len(Buf)) = Slice(file, off + n, size - off - n)
    <3> HIDE DEF n
    <3>1. SubSeq(Slice(file, off, size - off), n + 1, size - off)
            = Slice(file, off + n, size - off - n)
      BY <1>1, <2>5, SliceSplit
    <3> QED BY <1>6, <2>6, <3>1
  <2>9. Buf' = Slice(file, off + n, size - off - n)
    <3>1. off + n = uoff + m /\ size - off - n = size - (uoff + m)
      BY <1>1
    <3>2. CASE uoff + m = size
      <4>1. off' = 0 /\ size' = 0
        BY <1>0, <1>8, <3>2 DEF ReadpEnd
      <4>2. Buf' = <<>>
        BY <2>2, <4>1 DEF Buf
      <4>3. Slice(file, uoff + m, size - (uoff + m)) = <<>>
        BY <1>1, <3>2 DEF Slice
      <4> QED BY <3>1, <4>2, <4>3
    <3>3. CASE uoff + m # size
      <4>1. off' = uoff + m /\ size' = size
        BY <1>0, <1>8, <3>3 DEF ReadpEnd
      <4>2. Buf' = Slice(file, uoff + m, size - (uoff + m))
        BY <1>0, <2>2, <4>1 DEF Buf, Slice
      <4> QED BY <3>1, <4>2
    <3> QED BY <3>2, <3>3
  <2>10. n \in 0 .. Len(Buf) /\ out' = SubSeq(Buf, 1, n) /\ Buf' = SubSeq(Buf, n + 1, Len(Buf))
    BY <2>3, <2>5, <2>6, <2>7, <2>8, <2>9
  <2>11. Fifo!Next
    <3> HIDE DEF n
    <3> QED BY <1>0, <2>10 DEF Buf, Fifo!Next, Fifo!Read
  <2> QED BY <2>4, <2>11
<1> QED BY <1>7, <1>8

(* writei adds some bytes after u_offset: the queue has them all when the  *)
(* chunk is complete or the copy has failed.                               *)
LEMMA WriteStep ==
    ASSUME IInv, ChunkInv, NEW p \in Procs, NEW b \in Bytes, WriteiBlock(p, b)
    PROVE  ChunkInv' /\ Fifo!Next
<1> DEFINE m == Len(b)
           more == ~err'[p] /\ ucount # m
<1>0. /\ pc[p] = "io" /\ op[p] = "write" /\ UNCHANGED <<off, count, op>>
      /\ file' = Copyin(b) /\ out' = <<>>
      /\ size' = IF uoff + m > size THEN uoff + m ELSE size
      /\ more => /\ uoff' = uoff + m /\ ucount' = ucount - m
                 /\ UNCHANGED <<pc, base, got>>
      /\ ~more => WritepEnd(p) /\ Ends
  BY DEF WriteiBlock, ends
<1>1. Holders = {p} /\ Writing = {p}
  BY <1>0 DEF IInv, LockIsHeld, Holders, Writing
<1>2. /\ size \in Nat /\ off \in Nat /\ uoff \in Nat /\ base \in Nat /\ ucount \in Nat
      /\ file \in [Offsets -> Vals] /\ pc \in [Procs -> Places]
      /\ count = 2 /\ uoff = size /\ uoff + ucount <= 2 * PIPSIZ - 1
      /\ off <= base /\ base <= uoff /\ base < PIPSIZ
      /\ uoff - base + ucount <= PIPSIZ /\ got = <<>>
  <2> HIDE DEF more, m
  <2> QED BY <1>0, <1>1, PipeConstants DEF IInv, TypeOK, TransferInv, ChunkInv, Places
<1>3. m \in Nat /\ b \in [1 .. m -> Vals]
  <2>1. PICK k \in 0 .. BSIZE : b \in [1 .. k -> Vals]
    BY DEF Bytes
  <2>2. Len(b) = k
    BY <2>1, PipeConstants
  <2> QED BY <2>1, <2>2, PipeConstants
<1>4. m <= ucount
  <2>1. m <= Smaller(BSIZE - (uoff % BSIZE), ucount)
    BY <1>3, PipeConstants DEF WriteiBlock
  <2>2. ucount \in Int /\ BSIZE - (uoff % BSIZE) \in Int
    BY <1>2, PipeConstants
  <2> HIDE DEF more, m
  <2> QED BY <2>1, <2>2, <1>3 DEF Smaller
<1>5. file' \in [Offsets -> Vals]
  <2>1. \A i \in Offsets : uoff <= i /\ i < uoff + m => b[i - uoff + 1] \in Vals
    <3> HIDE DEF more, m
    <3> QED BY <1>2, <1>3, PipeConstants DEF Offsets
  <2> QED BY <1>0, <1>2, <2>1 DEF Copyin
<1> HIDE DEF more, m
<1>6. size' = uoff + m
  BY <1>0, <1>2, <1>3
<1>7. Slice(file', off, base - off) = Slice(file, off, base - off)
  <2>1. ASSUME NEW i \in 1 .. base - off
        PROVE  file'[off + i - 1] = file[off + i - 1]
    <3>1. off + i - 1 \in Offsets /\ ~(uoff <= off + i - 1)
      BY <1>2, PipeConstants DEF Offsets
    <3> QED BY <1>0, <3>1 DEF Copyin
  <2> QED BY <2>1 DEF Slice
<1>8. Buf = Slice(file, off, base - off)
  BY <1>1 DEF Buf, Slice
<1>9. CASE more
  <2>1. Holders' = Holders /\ Writing' = Writing
    BY <1>0, <1>9 DEF Holders, Writing
  <2>2. Buf' = Slice(file', off, base - off)
    BY <1>0, <1>1, <1>9, <2>1 DEF Buf, Slice
  <2>3. base <= uoff' /\ uoff' - base + ucount' <= PIPSIZ
    BY <1>0, <1>2, <1>3, <1>9, PipeConstants
  <2>4. ChunkInv'
    BY <1>0, <1>1, <1>2, <1>9, <2>1, <2>3 DEF ChunkInv
  <2> QED BY <1>0, <1>7, <1>8, <2>2, <2>4, QuietStep
<1>10. CASE ~more
  <2>1. Holders' = {}
    <3> DEFINE S == IF iread THEN {"asleep_r"} ELSE {}
    <3>1. Prele([Woken(pc, S) EXCEPT ![p] = "wloop"]) /\ S \subseteq {"asleep_r", "asleep_w"}
      BY <1>0, <1>10 DEF WritepEnd
    <3> HIDE DEF S
    <3>2. pc'[p] = "wloop" /\ \A q \in Procs \ {p} : pc'[q] = "io" => pc[q] = "io"
      BY <1>2, <3>1, PreleWoken DEF Places
    <3> QED BY <1>1, <3>2 DEF Holders
  <2>2. Writing' = {}
    BY <2>1 DEF Writing
  <2>3. ChunkInv'
    BY <1>0, <1>10, <2>1 DEF ChunkInv, Ends
  <2> DEFINE n == base - off
             k == uoff + m - base
             s == Slice(file', base, k)
  <2>4. /\ n \in Nat /\ k \in Nat /\ off + n = base /\ n + k = size' - off
        /\ off + n + k <= 2 * PIPSIZ - 1 /\ k <= PIPSIZ /\ n < PIPSIZ
    BY <1>2, <1>3, <1>4, <1>6, PipeConstants
  <2> HIDE DEF n, k
  <2>5. Buf' = Slice(file', off, n + k)
    BY <1>0, <2>2, <2>4 DEF Buf, Slice
  <2>6. Slice(file', off, n) \o s = Slice(file', off, n + k)
    <3>1. s = Slice(file', off + n, k)
      BY <2>4
    <3> HIDE DEF s
    <3>2. /\ file' \in [Offsets -> Vals] /\ off \in Nat /\ n \in Nat /\ k \in Nat
          /\ off + n + k <= 2 * PIPSIZ - 1
      BY <1>2, <1>5, <2>4
    <3>3. Slice(file', off, n) \o Slice(file', off + n, k) = Slice(file', off, n + k)
      BY <3>2, SliceConcat
    <3> QED BY <3>1, <3>3, Zenon
  <2>7. Buf = Slice(file', off, n) /\ Len(Buf) = n
    <3>1. Buf = Slice(file', off, n)
      BY <1>7, <1>8 DEF n
    <3>2. off + n <= 2 * PIPSIZ - 1
      BY <1>2, <2>4, PipeConstants
    <3> QED BY <1>2, <1>5, <2>4, <3>1, <3>2, SliceIsSeq
  <2>8. s \in Fifo!Strings(PIPSIZ)
    <3>1. base + k <= 2 * PIPSIZ - 1
      BY <2>4
    <3>2. s \in [1 .. k -> Vals]
      BY <1>2, <1>5, <2>4, <3>1, SliceIsSeq
    <3>3. k \in 0 .. PIPSIZ
      BY <2>4, PipeConstants
    <3> QED BY <3>2, <3>3 DEF Fifo!Strings
  <2> HIDE DEF s
  <2>9. count = 2 /\ Len(Buf) < PIPSIZ /\ Buf' = Buf \o s /\ out' = <<>> /\ count' = count
    BY <1>0, <1>2, <2>4, <2>5, <2>6, <2>7
  <2>10. Fifo!Next
    BY <2>8, <2>9 DEF Buf, Fifo!Next, Fifo!Write
  <2> QED BY <2>3, <2>10
<1> QED BY <1>9, <1>10

(* The last user of an end closes it.                                      *)
LEMMA CloseStep ==
    ASSUME IInv, ChunkInv, NEW p \in Procs, Closef(p)
    PROVE  ChunkInv' /\ Fifo!Next
<1> DEFINE S == {"asleep_r", "asleep_w"}
<1>0. /\ pc[p] \in {"plock", "woken", "wloop"} /\ ~lock /\ count' = count - 1
      /\ Prele([Woken(pc, S) EXCEPT ![p] = "user"])
      /\ out' = <<>> /\ UNCHANGED <<inode, transfer>>
      /\ op[p] = "close_r" \/ op[p] = "close_w"
  BY DEF Closef, Locks
<1>1. pc \in [Procs -> Places]
  BY DEF IInv, TypeOK, Places
<1>2. S \subseteq {"asleep_r", "asleep_w"}
  OBVIOUS
<1> HIDE DEF S
<1>3. pc'[p] = "user" /\ \A q \in Procs \ {p} : pc'[q] = "io" => pc[q] = "io"
  <2>1. /\ pc'[p] = "user"
        /\ \A q \in Procs \ {p} :
             pc'[q] = IF pc[q] \in S THEN "woken"
                      ELSE IF want /\ pc[q] = "asleep_ip" THEN "plock" ELSE pc[q]
    BY <1>0, <1>1, <1>2, PreleWoken DEF Places
  <2> QED BY <2>1
<1>4. Holders = {} /\ Holders' = {} /\ Writing = {} /\ Writing' = {}
  BY <1>0, <1>3, Unlocked DEF Holders, Writing
<1>5. ChunkInv'
  BY <1>0, <1>4 DEF ChunkInv, transfer
<1>6. Buf' = Buf
  BY <1>0, <1>4 DEF Buf, inode
<1>7. count > 0
  <2>1. ropen # {} \/ wopen # {}
    BY <1>0 DEF IInv, PlaceInv
  <2>2. count = (IF ropen = {} THEN 0 ELSE 1) + (IF wopen = {} THEN 0 ELSE 1)
    BY DEF IInv, EndsMatch
  <2> QED BY <2>1, <2>2
<1> QED BY <1>0, <1>5, <1>6, <1>7 DEF Buf, Fifo!Next, Fifo!Close

(* A new pipe is an empty queue.                                           *)
LEMMA OpenStep ==
    ASSUME IInv, ChunkInv, NewPipe
    PROVE  ChunkInv' /\ Fifo!Next
<1>1. \A q \in Procs : pc[q] = "user"
  BY DEF IInv, EndsMatch, NewPipe
<1>2. Holders = {} /\ Holders' = {} /\ Writing' = {}
  BY <1>1 DEF Holders, Writing, NewPipe
<1>3. ChunkInv'
  BY <1>2 DEF ChunkInv, NewPipe, transfer
<1>4. Buf' = <<>>
  BY <1>2 DEF Buf, NewPipe
<1> QED BY <1>3, <1>4 DEF Buf, NewPipe, Fifo!Next, Fifo!Open

(* Every step is a step of the queue.                                      *)
LEMMA StepSimulation ==
    IInv /\ ChunkInv /\ [Next]_vars => ChunkInv' /\ [Fifo!Next]_(Fifo!vars)
<1> SUFFICES ASSUME IInv, ChunkInv, [Next]_vars
             PROVE  ChunkInv' /\ [Fifo!Next]_(Fifo!vars)
  OBVIOUS
<1>1. CASE \E p \in Procs, o \in {"read", "write"}, n \in 0 .. MaxCount : Call(p, o, n)
  BY <1>1, NoBytes
<1>2. CASE \E p \in Procs : Plock(p) \/ Readp(p) \/ Writep(p)
  <2>1. PICK p \in Procs : Plock(p) \/ Readp(p) \/ Writep(p)
    BY <1>2
  <2>2. CASE Plock(p)
    BY <2>2, NoBytes
  <2>3. CASE Readp(p)
    BY <2>3, Looks, ReadBegins, ReadStep DEF Readp
  <2>4. CASE Writep(p)
    BY <2>4, Looks, WriteBegins, WriteStep DEF Writep
  <2> QED BY <2>1, <2>2, <2>3, <2>4
<1>3. CASE \E p \in Procs : Signalled(p) \/ Interrupted(p)
  BY <1>3, NoBytes
<1>4. CASE \E p \in Procs : CloseShared(p) \/ CloseLast(p) \/ Closef(p)
  BY <1>4, NoBytes, CloseStep
<1>5. CASE NewPipe
  BY <1>5, OpenStep
<1>6. CASE UNCHANGED vars
  <2>1. UNCHANGED Fifo!vars
    BY <1>6 DEF vars, Fifo!vars, Writing, Holders
  <2>2. ChunkInv'
    BY <1>6 DEF vars, ChunkInv, Holders, Slice
  <2> QED BY <2>1, <2>2
<1> QED BY <1>1, <1>2, <1>3, <1>4, <1>5, <1>6 DEF Next

(* A fresh pipe is an empty queue.                                         *)
LEMMA InitSimulation == Init => ChunkInv /\ Fifo!Init
<1> SUFFICES ASSUME Init PROVE ChunkInv /\ Fifo!Init
  OBVIOUS
<1>1. Holders = {} /\ Writing = {}
  BY DEF Init, Holders, Writing
<1>2. Buf = <<>>
  BY <1>1 DEF Init, Fresh, Buf
<1> QED BY <1>1, <1>2 DEF Init, Fresh, ChunkInv, Buf, Fifo!Init

(* readp, writep, closef and pipe make a queue: each byte written is read  *)
(* once, in order, chunks are not mixed, and what an earlier pipe left in  *)
(* the blocks of the file is never read.                                   *)
THEOREM PipeIsFifo == Spec => ImplementsFifo
<1>1. Spec => [](IInv /\ ChunkInv)
  <2>1. IInv /\ ChunkInv /\ [Next]_vars => (IInv /\ ChunkInv)'
    BY NextKeeps, StepSimulation
  <2>2. Init => IInv /\ ChunkInv
    BY InitIInv, InitSimulation
  <2> QED BY <2>1, <2>2, PTL DEF Spec
<1> QED BY <1>1, InitSimulation, StepSimulation, PTL DEF Spec, ImplementsFifo, Fifo!Spec

=============================================================================
