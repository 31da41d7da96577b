----------------------------- MODULE BioProofs -----------------------------
(***************************************************************************)
(* Proofs about Bio for any number of processes, buffers and blocks, on a   *)
(* disk that may fail, when "b_flags |= B_AGE" is indivisible.              *)
(***************************************************************************)
EXTENDS Bio, SequenceTheorems, TLAPS

Busy(b) == "BUSY" \in flags[b]

(* Where a process can be in each routine, and what its locals are there.   *)
Local(p) ==
    /\ pc[p] # "age2"
    /\ pc[p] \in {"found", "got", "iowait", "hold", "age"} => bp[p] \in Bufs
    /\ pc[p] \in {"found", "got"} => cur = p
    /\ pc[p] \in {"getblk", "found", "got"} =>
          op[p] \in {"bread", "breada", "ra", "getblk", "geteblk"}
    /\ pc[p] = "age" =>
          op[p] \in {"bread", "breada", "ra", "getblk", "geteblk", "bawrite", "bflush"}
    /\ pc[p] = "hold" => op[p] \in {"bread", "getblk", "geteblk"}
    /\ pc[p] = "ra" => op[p] = "breada"
    /\ pc[p] = "bflush" => op[p] = "bflush"
    /\ op[p] = "ra" => rablkno[p] \in Blocks
    /\ op[p] \in {"bread", "breada", "ra", "getblk"} => blkno[p] \in Blocks
    /\ op[p] = "geteblk" => blkno[p] = NODEV
    /\ held[p] # None =>
          \/ pc[p] = "ra"
          \/ op[p] = "ra" /\ pc[p] \in {"getblk", "found", "got", "age"}
    /\ op[p] = "ra" => pc[p] \in {"getblk", "found", "got", "age"}
    /\ chan[p] # None => pc[p] \in {"getblk", "iowait"}

LocalInv == \A p \in Procs : Local(p)

(* Who answers for a busy buffer. *)
OwnInv ==
    /\ \A p \in Procs, b \in Bufs : Owns(p, b) => Busy(b) /\ "ASYNC" \notin flags[b]
    /\ \A p, q \in Procs, b \in Bufs : Owns(p, b) /\ Owns(q, b) => p = q
    /\ \A p \in Procs : pc[p] = "got" => held[p] # bp[p]
    /\ \A b \in Bufs : Busy(b) /\ "ASYNC" \notin flags[b] => \E p \in Procs : Owns(p, b)
    /\ \A b \in Bufs : ~Busy(b) => "ASYNC" \notin flags[b]

(* What the driver has, and who waits for it. *)
QueueInv ==
    /\ IsInjective(queue)
    /\ \A b \in ToSet(queue) :
          /\ Busy(b) /\ "DONE" \notin flags[b] /\ "DELWRI" \notin flags[b]
          /\ blk[b] \in Blocks
          /\ \A p \in Procs : pc[p] \in {"got", "hold"} => bp[p] # b
    /\ \A b \in Bufs : "ASYNC" \in flags[b] => b \in ToSet(queue)
    /\ \A p \in Procs :
          /\ pc[p] = "iowait" /\ "DONE" \notin flags[bp[p]] => bp[p] \in ToSet(queue)
          /\ held[p] # None /\ "DONE" \notin flags[held[p]] => held[p] \in ToSet(queue)

(* Which buffers have a block: those with a delayed write, and those a read *)
(* is about to be started on; a released buffer with an error has none.     *)
AssocInv ==
    /\ \A b \in Bufs :
          /\ "DELWRI" \in flags[b] =>
                "DONE" \in flags[b] /\ "ERROR" \notin flags[b] /\ blk[b] \in Blocks
          /\ ~Busy(b) /\ "ERROR" \in flags[b] => blk[b] = NODEV
    /\ \A p \in Procs :
          /\ pc[p] = "found" => blk[bp[p]] \in Blocks \/ "DONE" \in flags[bp[p]]
          /\ pc[p] = "got" /\ op[p] # "geteblk" =>
                blk[bp[p]] \in Blocks \/ "DONE" \in flags[bp[p]]
          /\ pc[p] = "got" \/ (pc[p] = "hold" /\ op[p] = "getblk") =>
                ("ERROR" \in flags[bp[p]] => blk[bp[p]] = NODEV)

IInv == /\ TypeOK /\ LocalInv /\ AvailIffNotBusy /\ OneBufferPerBlock
        /\ OwnInv /\ QueueInv /\ AssocInv /\ NoLostWakeup

-----------------------------------------------------------------------------
(* Lists of buffers. *)

(* Appending a new element to a list without repetitions adds it to the set *)
(* of its elements and repeats nothing (brelse at the tail, rkstrategy).    *)
LEMMA AppendFacts ==
    ASSUME NEW S, NEW s \in Seq(S), NEW e \in S, IsInjective(s), e \notin ToSet(s)
    PROVE  /\ Append(s, e) \in Seq(S)
           /\ IsInjective(Append(s, e))
           /\ ToSet(Append(s, e)) = ToSet(s) \cup {e}
           /\ Append(s, e) # << >>
  <1> DEFINE t == Append(s, e)
  <1>1. t \in Seq(S) /\ Len(t) = Len(s) + 1 /\ t[Len(s) + 1] = e
        /\ \A i \in 1..Len(s) : t[i] = s[i]
    OBVIOUS
  <1>2. DOMAIN t = 1..(Len(s) + 1) /\ DOMAIN s = 1..Len(s) /\ Len(s) \in Nat
    BY <1>1
  <1>3. IsInjective(t)
    BY <1>1, <1>2 DEF IsInjective, ToSet
  <1>4. ToSet(t) = ToSet(s) \cup {e}
    BY <1>1, <1>2 DEF ToSet
  <1> QED BY <1>1, <1>3, <1>4

(* The same for an element put in front (brelse of an aged buffer). *)
LEMMA ConsFacts ==
    ASSUME NEW S, NEW s \in Seq(S), NEW e \in S, IsInjective(s), e \notin ToSet(s)
    PROVE  /\ <<e>> \o s \in Seq(S)
           /\ IsInjective(<<e>> \o s)
           /\ ToSet(<<e>> \o s) = ToSet(s) \cup {e}
           /\ <<e>> \o s # << >>
  <1> DEFINE t == <<e>> \o s
  <1>1. t \in Seq(S) /\ Len(t) = Len(s) + 1 /\ t[1] = e
        /\ \A i \in 2..(Len(s) + 1) : t[i] = s[i - 1]
    OBVIOUS
  <1>2. DOMAIN t = 1..(Len(s) + 1) /\ DOMAIN s = 1..Len(s) /\ Len(s) \in Nat
    BY <1>1
  <1>3. IsInjective(t)
    BY <1>1, <1>2 DEF IsInjective, ToSet
  <1>4. ToSet(t) = ToSet(s) \cup {e}
    <2>1. ASSUME NEW x \in ToSet(s) PROVE x \in ToSet(t)
      <3>1. PICK i \in 1..Len(s) : s[i] = x
        BY <1>2 DEF ToSet
      <3>2. i + 1 \in DOMAIN t /\ t[i + 1] = x
        BY <1>1, <1>2, <3>1
      <3> QED BY <3>2 DEF ToSet
    <2>2. e \in ToSet(t)
      BY <1>1, <1>2 DEF ToSet
    <2>3. ASSUME NEW x \in ToSet(t) PROVE x \in ToSet(s) \cup {e}
      <3>1. PICK i \in 1..(Len(s) + 1) : t[i] = x
        BY <1>2 DEF ToSet
      <3>2. CASE i = 1 BY <3>1, <3>2, <1>1
      <3>3. CASE i # 1
        <4>1. i \in 2..(Len(s) + 1) /\ i - 1 \in DOMAIN s BY <3>3, <1>2
        <4> QED BY <4>1, <3>1, <1>1 DEF ToSet
      <3> QED BY <3>2, <3>3
    <2> QED BY <2>1, <2>2, <2>3
  <1> QED BY <1>1, <1>3, <1>4

(* Taking the first element (getblk's oldest buffer, rkintr's request). *)
LEMMA TailFacts ==
    ASSUME NEW S, NEW s \in Seq(S), s # << >>, IsInjective(s)
    PROVE  /\ Tail(s) \in Seq(S) /\ Head(s) \in S
           /\ IsInjective(Tail(s))
           /\ Head(s) \in ToSet(s) /\ Head(s) \notin ToSet(Tail(s))
           /\ ToSet(Tail(s)) = ToSet(s) \ {Head(s)}
  <1> DEFINE t == Tail(s)
  <1>1. t \in Seq(S) /\ Head(s) = s[1] /\ Head(s) \in S /\ Len(s) \in Nat /\ Len(s) > 0
        /\ Len(t) = Len(s) - 1 /\ \A i \in 1..Len(t) : t[i] = s[i + 1]
    OBVIOUS
  <1>2. DOMAIN t = 1..(Len(s) - 1) /\ DOMAIN s = 1..Len(s)
    BY <1>1
  <1>3. IsInjective(t)
    BY <1>1, <1>2 DEF IsInjective
  <1>4. Head(s) \in ToSet(s)
    BY <1>1, <1>2 DEF ToSet
  <1>5. Head(s) \notin ToSet(t)
    BY <1>1, <1>2 DEF ToSet, IsInjective
  <1>6. ASSUME NEW x \in ToSet(s), x # Head(s) PROVE x \in ToSet(t)
    <2>1. PICK i \in 1..Len(s) : s[i] = x
      BY <1>2 DEF ToSet
    <2>2. i - 1 \in DOMAIN t /\ t[i - 1] = x
      BY <1>1, <1>2, <2>1, <1>6
    <2> QED BY <2>2 DEF ToSet
  <1>7. ToSet(t) \subseteq ToSet(s)
    BY <1>1, <1>2 DEF ToSet
  <1> QED BY <1>1, <1>3, <1>4, <1>5, <1>6, <1>7

(* Unlinking a buffer found anywhere on the available list (notavail). *)
LEMMA UnlinkFacts ==
    ASSUME NEW b \in Bufs, avail \in Seq(Bufs), IsInjective(avail), b \in ToSet(avail)
    PROVE  /\ Unlink(b) \in Seq(Bufs)
           /\ IsInjective(Unlink(b))
           /\ b \notin ToSet(Unlink(b))
           /\ ToSet(Unlink(b)) = ToSet(avail) \ {b}
  <1> DEFINE k == CHOOSE i \in DOMAIN avail : avail[i] = b
             t == RemoveAt(avail, k)
             n == Len(avail)
  <1>1. DOMAIN avail = 1..n /\ n \in Nat
    OBVIOUS
  <1>2. k \in 1..n /\ avail[k] = b
    BY <1>1 DEF ToSet
  <1> HIDE DEF k
  <1>3. /\ t \in Seq(Bufs) /\ Len(t) = n - 1
        /\ \A i \in 1..(n - 1) : i < k => t[i] = avail[i]
        /\ \A i \in 1..(n - 1) : i >= k => t[i] = avail[i + 1]
    <2>1. SubSeq(avail, 1, k - 1) \in Seq(Bufs) /\ Len(SubSeq(avail, 1, k - 1)) = k - 1
          /\ \A i \in 1..(k - 1) : SubSeq(avail, 1, k - 1)[i] = avail[i]
      BY <1>1, <1>2
    <2>2. SubSeq(avail, k + 1, n) \in Seq(Bufs) /\ Len(SubSeq(avail, k + 1, n)) = n - k
          /\ \A i \in 1..(n - k) : SubSeq(avail, k + 1, n)[i] = avail[(k + 1) + i - 1]
      <3>1. k + 1 \in 1..(n + 1) /\ n \in (k + 1 - 1)..n /\ n - (k + 1) + 1 = n - k
        BY <1>1, <1>2
      <3> QED BY <3>1, SubSeqProperties
    <2> DEFINE x == SubSeq(avail, 1, k - 1)
               y == SubSeq(avail, k + 1, n)
    <2>3. t = x \o y
      BY DEF RemoveAt
    <2> HIDE DEF x, y
    <2>4. x \in Seq(Bufs) /\ y \in Seq(Bufs) /\ Len(x) = k - 1 /\ Len(y) = n - k
      BY <2>1, <2>2 DEF x, y
    <2>5. x \o y \in Seq(Bufs) /\ Len(x \o y) = Len(x) + Len(y)
          /\ \A i \in 1..(Len(x) + Len(y)) : (x \o y)[i] = IF i <= Len(x) THEN x[i] ELSE y[i - Len(x)]
      BY <2>4, ConcatProperties
    <2>6. ASSUME NEW i \in 1..(n - 1), i < k PROVE t[i] = avail[i]
      <3>1. i \in 1..(k - 1) /\ i \in 1..(Len(x) + Len(y)) /\ i <= Len(x)
        BY <1>1, <1>2, <2>4, <2>6
      <3> QED BY <3>1, <2>1, <2>3, <2>5 DEF x
    <2>7. ASSUME NEW i \in 1..(n - 1), i >= k PROVE t[i] = avail[i + 1]
      <3>1. /\ i - (k - 1) \in 1..(n - k) /\ i \in 1..(Len(x) + Len(y)) /\ ~(i <= Len(x))
            /\ (k + 1) + (i - (k - 1)) - 1 = i + 1
        BY <1>1, <1>2, <2>4, <2>7
      <3>2. y[i - (k - 1)] = avail[i + 1]
        BY <3>1, <2>2 DEF y
      <3> QED BY <3>1, <3>2, <2>3, <2>4, <2>5
    <2>8. t \in Seq(Bufs) /\ Len(t) = n - 1
      BY <2>3, <2>4, <2>5, <1>1, <1>2
    <2> QED BY <2>6, <2>7, <2>8
  <1> HIDE DEF t
  <1>4. DOMAIN t = 1..(n - 1)
    BY <1>3
  <1>a. \A i \in 1..(n - 1) :
          \E j \in 1..n : j # k /\ t[i] = avail[j] /\ (IF i < k THEN j = i ELSE j = i + 1)
    <2>1. TAKE i \in 1..(n - 1)
    <2>2. CASE i < k
      <3>1. i \in 1..n /\ i # k /\ t[i] = avail[i] BY <2>2, <1>1, <1>2, <1>3
      <3> QED BY <3>1, <2>2
    <2>3. CASE ~(i < k)
      <3>1. i \in Int /\ k \in Int /\ i + 1 \in 1..n /\ i + 1 # k /\ i >= k BY <2>3, <1>1, <1>2
      <3>2. t[i] = avail[i + 1] BY <3>1, <1>3
      <3> QED BY <3>1, <3>2, <2>3
    <2> QED BY <2>2, <2>3
  <1>5. IsInjective(t)
    <2>1. SUFFICES ASSUME NEW i \in 1..(n - 1), NEW j \in 1..(n - 1), t[i] = t[j]
                   PROVE  i = j
      BY <1>4 DEF IsInjective
    <2>2. PICK u \in 1..n : u # k /\ t[i] = avail[u] /\ (IF i < k THEN u = i ELSE u = i + 1)
      BY <1>a
    <2>3. PICK v \in 1..n : v # k /\ t[j] = avail[v] /\ (IF j < k THEN v = j ELSE v = j + 1)
      BY <1>a
    <2>4. u = v
      BY <2>1, <2>2, <2>3, <1>1 DEF IsInjective
    <2> QED BY <2>2, <2>3, <2>4, <1>1, <1>2
  <1>6. b \notin ToSet(t)
    <2>1. SUFFICES ASSUME NEW i \in 1..(n - 1), t[i] = b PROVE FALSE
      BY <1>4 DEF ToSet
    <2>2. PICK u \in 1..n : u # k /\ t[i] = avail[u]
      BY <1>a
    <2> QED BY <2>1, <2>2, <1>1, <1>2 DEF IsInjective
  <1>7. ToSet(t) \subseteq ToSet(avail)
    BY <1>1, <1>a, <1>4 DEF ToSet
  <1>8. ASSUME NEW c \in ToSet(avail), c # b PROVE c \in ToSet(t)
    <2>1. PICK i \in 1..n : avail[i] = c
      BY <1>1 DEF ToSet
    <2>2. CASE i < k
      <3>1. i \in DOMAIN t /\ t[i] = c BY <2>1, <2>2, <1>1, <1>2, <1>3, <1>4
      <3> QED BY <3>1 DEF ToSet
    <2>3. CASE i > k
      <3>1. i - 1 \in DOMAIN t /\ t[i - 1] = c BY <2>1, <2>3, <1>1, <1>2, <1>3, <1>4
      <3> QED BY <3>1 DEF ToSet
    <2> QED BY <2>1, <2>2, <2>3, <1>2, <1>8, <1>1
  <1> QED BY <1>3, <1>5, <1>6, <1>7, <1>8 DEF Unlink, t, k

-----------------------------------------------------------------------------
(* What the helpers of the actions leave behind. *)

(* Only buffer b changes; the cache keeps its types. *)
OnlyBuf(b) ==
    /\ flags' \in [Bufs -> SUBSET Flags] /\ blk' \in [Bufs -> Blocks \cup {NODEV}]
    /\ avail' \in Seq(Bufs) /\ IsInjective(avail')
    /\ fwanted' \in BOOLEAN /\ chan' \in [Procs -> Bufs \cup {BFreeList, None}]
    /\ \A c \in Bufs : c # b => flags'[c] = flags[c] /\ blk'[c] = blk[c]
    /\ \A q \in Procs : chan'[q] \in {chan[q], None}

(* b is on the available list again *)
Released(b, f, av) ==
    /\ OnlyBuf(b)
    /\ ToSet(avail') = ToSet(av) \cup {b} /\ avail' # << >>
    /\ flags'[b] = f \ {"WANTED", "BUSY", "ASYNC", "AGE"}
    /\ blk'[b] = IF "ERROR" \in f THEN NODEV ELSE blk[b]
    /\ "WANTED" \in f => \A q \in Procs : chan'[q] # b
    /\ fwanted => \A q \in Procs : chan'[q] # BFreeList

(* b's synchronous transfer is over; its owner still has it *)
Completed(b, f, av) ==
    /\ OnlyBuf(b)
    /\ avail' = av /\ blk' = blk /\ fwanted' = fwanted
    /\ flags'[b] = (f \cup {"DONE"}) \ {"WANTED"}
    /\ \A q \in Procs : chan'[q] # b
    /\ \A q \in Procs : chan[q] # b => chan'[q] = chan[q]

(* b is with the driver *)
Queued(b, f, av) ==
    /\ OnlyBuf(b)
    /\ avail' = av /\ blk' = blk /\ fwanted' = fwanted /\ chan' = chan
    /\ flags'[b] = f
    /\ blk[b] \notin BadBlocks

LEMMA BrelseEffect ==
    ASSUME TypeOK, NEW b \in Bufs, NEW f \in SUBSET Flags, NEW av \in Seq(Bufs),
           IsInjective(av), b \notin ToSet(av), Brelse(b, f, av)
    PROVE  Released(b, f, av)
  <1>1. avail' \in Seq(Bufs) /\ IsInjective(avail') /\ avail' # << >>
        /\ ToSet(avail') = ToSet(av) \cup {b}
    <2>1. CASE "AGE" \in f
      BY <2>1, ConsFacts DEF Brelse
    <2>2. CASE "AGE" \notin f
      BY <2>2, AppendFacts DEF Brelse
    <2> QED BY <2>1, <2>2
  <1>2. flags' \in [Bufs -> SUBSET Flags] /\ blk' \in [Bufs -> Blocks \cup {NODEV}]
        /\ \A c \in Bufs : c # b => flags'[c] = flags[c] /\ blk'[c] = blk[c]
    BY DEF Brelse, TypeOK, Flags
  <1>3. flags'[b] = f \ {"WANTED", "BUSY", "ASYNC", "AGE"}
        /\ blk'[b] = IF "ERROR" \in f THEN NODEV ELSE blk[b]
    BY DEF Brelse, TypeOK
  <1>4. /\ chan' \in [Procs -> Bufs \cup {BFreeList, None}]
        /\ \A q \in Procs : chan'[q] \in {chan[q], None}
        /\ "WANTED" \in f => \A q \in Procs : chan'[q] # b
        /\ fwanted => \A q \in Procs : chan'[q] # BFreeList
        /\ fwanted' \in BOOLEAN
    BY BioConstants DEF Brelse, TypeOK, Wakeup
  <1> QED BY <1>1, <1>2, <1>3, <1>4 DEF Released, OnlyBuf

LEMMA IodoneEffect ==
    ASSUME TypeOK, NEW b \in Bufs, NEW f \in SUBSET Flags, NEW av \in Seq(Bufs),
           IsInjective(av), b \notin ToSet(av), Iodone(b, f, av)
    PROVE  \/ "ASYNC" \in f /\ Released(b, f \cup {"DONE"}, av)
           \/ "ASYNC" \notin f /\ Completed(b, f, av)
  <1>1. CASE "ASYNC" \in f
    <2>1. f \cup {"DONE"} \in SUBSET Flags
      BY DEF Flags
    <2> QED BY <1>1, <2>1, BrelseEffect DEF Iodone
  <1>2. CASE "ASYNC" \notin f
    <2>1. flags' \in [Bufs -> SUBSET Flags]
          /\ flags'[b] = (f \cup {"DONE"}) \ {"WANTED"}
          /\ \A c \in Bufs : c # b => flags'[c] = flags[c]
      <3>1. (f \cup {"DONE"}) \ {"WANTED"} \in SUBSET Flags
        BY DEF Flags
      <3>2. flags' = [flags EXCEPT ![b] = (f \cup {"DONE"}) \ {"WANTED"}]
        BY <1>2 DEF Iodone
      <3> QED BY <3>1, <3>2 DEF TypeOK
    <2>2. /\ chan' \in [Procs -> Bufs \cup {BFreeList, None}]
          /\ \A q \in Procs : chan'[q] \in {chan[q], None} /\ chan'[q] # b
          /\ \A q \in Procs : chan[q] # b => chan'[q] = chan[q]
      BY <1>2, BioConstants DEF Iodone, TypeOK, Wakeup
    <2> QED BY <1>2, <2>1, <2>2 DEF Iodone, Completed, OnlyBuf, TypeOK
  <1> QED BY <1>1, <1>2

(* The strategy routine queues the transfer, or refuses it at once and      *)
(* calls iodone on behalf of the caller.                                    *)
LEMMA StrategyEffect ==
    ASSUME TypeOK, NEW b \in Bufs, NEW f \in SUBSET Flags, NEW av \in Seq(Bufs),
           IsInjective(av), b \notin ToSet(av), IsInjective(queue), b \notin ToSet(queue),
           Strategy(b, f, av)
    PROVE  \/ /\ Queued(b, f, av)
              /\ queue' \in Seq(Bufs) /\ IsInjective(queue')
              /\ ToSet(queue') = ToSet(queue) \cup {b}
           \/ /\ queue' = queue /\ "ASYNC" \in f
              /\ Released(b, f \cup {"ERROR", "DONE"}, av)
           \/ /\ queue' = queue /\ "ASYNC" \notin f
              /\ Completed(b, f \cup {"ERROR"}, av)
  <1>1. CASE blk[b] \in BadBlocks
    <2>1. f \cup {"ERROR"} \in SUBSET Flags /\ (f \cup {"ERROR"}) \cup {"DONE"} = f \cup {"ERROR", "DONE"}
          /\ ("ASYNC" \in f \cup {"ERROR"} <=> "ASYNC" \in f)
      BY DEF Flags
    <2>2. Iodone(b, f \cup {"ERROR"}, av) /\ queue' = queue
      BY <1>1 DEF Strategy
    <2>3. \/ "ASYNC" \in f \cup {"ERROR"} /\ Released(b, (f \cup {"ERROR"}) \cup {"DONE"}, av)
          \/ "ASYNC" \notin f \cup {"ERROR"} /\ Completed(b, f \cup {"ERROR"}, av)
      BY <2>1, <2>2, IodoneEffect
    <2> QED BY <2>1, <2>2, <2>3
  <1>2. CASE blk[b] \notin BadBlocks
    <2>1. queue' \in Seq(Bufs) /\ IsInjective(queue')
          /\ ToSet(queue') = ToSet(queue) \cup {b}
      <3>1. queue' = Append(queue, b) /\ queue \in Seq(Bufs)
        BY <1>2 DEF Strategy, TypeOK
      <3> QED BY <3>1, AppendFacts
    <2>2. Queued(b, f, av)
      BY <1>2 DEF Strategy, Queued, OnlyBuf, TypeOK
    <2> QED BY <2>1, <2>2
  <1> QED BY <1>1, <1>2

-----------------------------------------------------------------------------
(* Every process but p keeps its place and its locals. *)
OthersKeep(p) ==
    \A q \in Procs : q # p =>
        /\ pc'[q] = pc[q] /\ op'[q] = op[q] /\ bp'[q] = bp[q] /\ held'[q] = held[q]
        /\ blkno'[q] = blkno[q] /\ rablkno'[q] = rablkno[q]

(* A step of p that touches no buffer and no request, and neither gains nor *)
(* gives up a buffer for p, keeps everything but the two parts of the       *)
(* invariant that speak of p's locals.                                      *)
LEMMA QuietStep ==
    ASSUME IInv, NEW p \in Procs, OthersKeep(p),
           UNCHANGED <<flags, blk, avail, fwanted, queue, chan>>,
           chan[p] = None, cur \in {None, p},
           held'[p] = held[p] \/ (held'[p] = None /\ pc'[p] = "iowait" /\ bp'[p] = held[p]),
           pc[p] \notin {"got", "iowait", "hold"},
           pc'[p] \notin {"got", "hold"},
           pc'[p] = "iowait" => held'[p] = None /\ held[p] # None /\ bp'[p] = held[p]
    PROVE  AvailIffNotBusy' /\ OneBufferPerBlock' /\ OwnInv' /\ QueueInv' /\ NoLostWakeup'
  <1> USE BioConstants
  <1>1. AvailIffNotBusy' /\ OneBufferPerBlock'
    BY DEF IInv, AvailIffNotBusy, OneBufferPerBlock
  <1>2. \A q \in Procs, b \in Bufs : Owns(q, b)' <=> Owns(q, b)
    BY DEF OthersKeep, Owns, IInv, TypeOK
  <1>3. OwnInv'
    BY <1>2 DEF IInv, OwnInv, Busy, OthersKeep
  <1>4. QueueInv'
    <2>1. ASSUME NEW q \in Procs, pc'[q] = "iowait", "DONE" \notin flags[bp'[q]]
          PROVE  bp'[q] \in ToSet(queue)
      BY <2>1 DEF IInv, QueueInv, OthersKeep
    <2>2. ASSUME NEW q \in Procs, held'[q] # None, "DONE" \notin flags[held'[q]]
          PROVE  held'[q] \in ToSet(queue)
      BY <2>2 DEF IInv, QueueInv, OthersKeep
    <2>3. \A b \in ToSet(queue) : \A q \in Procs : pc'[q] \in {"got", "hold"} => bp'[q] # b
      BY DEF IInv, QueueInv, OthersKeep
    <2> QED BY <2>1, <2>2, <2>3 DEF IInv, QueueInv, Busy
  <1>5. NoLostWakeup'
    BY DEF IInv, NoLostWakeup, OthersKeep, TypeOK
  <1> QED BY <1>1, <1>3, <1>4, <1>5

-----------------------------------------------------------------------------
(* One lemma per action: it preserves the inductive invariant. *)

LEMMA CallStep ==
    ASSUME IInv, NEW p \in Procs, Call(p)
    PROVE  IInv'
  <1> USE BioConstants
  <1>1. TypeOK
    BY DEF IInv
  <1>2. UNCHANGED <<flags, blk, avail, fwanted, data, queue, errcnt, disk, chan, rablkno, bp, held, reg>>
        /\ chan[p] = None /\ cur \in {None, p} /\ pc[p] = "user"
    BY DEF Call, cache, At
  <1>3. pc' \in [Procs -> Pcs] /\ cur' = p /\ pc'[p] \in {"getblk", "bflush"}
    BY <1>1 DEF Call, Goto, TypeOK, Pcs
  <1>4. op' \in [Procs -> Ops] /\ blkno' \in [Procs -> Blocks \cup {NODEV, None}]
    <2>1. op' \in [Procs -> Ops]
      BY <1>1 DEF Call, TypeOK, Ops
    <2>2. blkno' \in [Procs -> Blocks \cup {NODEV, None}]
      BY <1>1 DEF Call, TypeOK
    <2> QED BY <2>1, <2>2
  <1>5. TypeOK'
    BY <1>1, <1>2, <1>3, <1>4 DEF TypeOK
  <1>6. OthersKeep(p)
    BY <1>1, <1>2 DEF Call, Goto, OthersKeep, TypeOK
  <1>7. /\ pc'[p] = "getblk" => op'[p] \in {"bread", "getblk", "geteblk"}
        /\ pc'[p] = "bflush" => op'[p] = "bflush"
        /\ op'[p] \in {"bread", "getblk"} => blkno'[p] \in Blocks
        /\ op'[p] = "geteblk" => blkno'[p] = NODEV
        /\ op'[p] \in {"bread", "getblk", "geteblk", "bflush"}
    BY <1>1 DEF Call, Goto, TypeOK
  <1>8. LocalInv'
    BY <1>2, <1>3, <1>6, <1>7 DEF IInv, LocalInv, Local, OthersKeep
  <1>9. AssocInv'
    BY <1>2, <1>3, <1>6 DEF IInv, AssocInv, Busy, OthersKeep
  <1> QED BY <1>2, <1>3, <1>5, <1>6, <1>8, <1>9, QuietStep DEF IInv

LEMMA BreadaStep ==
    ASSUME IInv, NEW p \in Procs, Breada(p)
    PROVE  IInv'
  <1> USE BioConstants
  <1>1. TypeOK
    BY DEF IInv
  <1>2. UNCHANGED <<flags, blk, avail, fwanted, data, queue, errcnt, disk, chan, bp, held, reg>>
        /\ chan[p] = None /\ cur \in {None, p} /\ pc[p] = "user"
    BY DEF Breada, cache, At
  <1>3. pc' \in [Procs -> Pcs] /\ cur' = p /\ pc'[p] \in {"getblk", "ra"}
    <2>1. cur' = p /\ \E l \in {"getblk", "ra"} : pc' = [pc EXCEPT ![p] = l]
      BY DEF Breada, Goto
    <2> QED BY <1>1, <2>1 DEF TypeOK, Pcs
  <1>4. /\ op' \in [Procs -> Ops] /\ blkno' \in [Procs -> Blocks \cup {NODEV, None}]
        /\ rablkno' \in [Procs -> Blocks \cup {None}]
        /\ op'[p] = "breada" /\ blkno'[p] \in Blocks
    BY <1>1 DEF Breada, TypeOK, Ops
  <1>5. TypeOK'
    BY <1>1, <1>2, <1>3, <1>4 DEF TypeOK
  <1>6. OthersKeep(p)
    BY <1>1, <1>2 DEF Breada, Goto, OthersKeep, TypeOK
  <1>8. LocalInv'
    BY <1>2, <1>3, <1>4, <1>6 DEF IInv, LocalInv, Local, OthersKeep
  <1>9. AssocInv'
    BY <1>2, <1>3, <1>6 DEF IInv, AssocInv, Busy, OthersKeep
  <1> QED BY <1>2, <1>3, <1>5, <1>6, <1>8, <1>9, QuietStep DEF IInv

LEMMA SearchStep ==
    ASSUME IInv, NEW p \in Procs, Search(p)
    PROVE  IInv'
  <1> USE BioConstants
  <1>1. TypeOK
    BY DEF IInv
  <1>2. UNCHANGED <<flags, blk, avail, fwanted, data, queue, errcnt, disk, chan, op, blkno, rablkno, held, reg>>
        /\ chan[p] = None /\ cur \in {None, p} /\ pc[p] = "getblk" /\ op[p] # "geteblk"
    BY DEF Search, cache, At
  <1>3. pc' \in [Procs -> Pcs] /\ cur' = p /\ pc'[p] = "found"
    BY <1>1 DEF Search, Goto, TypeOK, Pcs
  <1>4. bp' \in [Procs -> Bufs \cup {None}] /\ bp'[p] \in Bufs /\ blk[bp'[p]] = Want(p)
    BY <1>1 DEF Search, TypeOK
  <1>5. TypeOK'
    BY <1>1, <1>2, <1>3, <1>4 DEF TypeOK
  <1>6. OthersKeep(p)
    BY <1>1, <1>2 DEF Search, Goto, OthersKeep, TypeOK
  <1>7. Want(p) \in Blocks
    BY <1>2 DEF IInv, LocalInv, Local, Want
  <1>8. LocalInv'
    BY <1>2, <1>3, <1>4, <1>6 DEF IInv, LocalInv, Local, OthersKeep
  <1>9. AssocInv'
    BY <1>2, <1>3, <1>4, <1>6, <1>7 DEF IInv, AssocInv, Busy, OthersKeep
  <1> QED BY <1>2, <1>3, <1>5, <1>6, <1>8, <1>9, QuietStep DEF IInv

LEMMA RaStep ==
    ASSUME IInv, NEW p \in Procs, Ra(p)
    PROVE  IInv'
  <1> USE BioConstants
  <1>1. TypeOK
    BY DEF IInv
  <1>2. UNCHANGED <<flags, blk, avail, fwanted, data, queue, errcnt, disk, chan, blkno, reg>>
        /\ chan[p] = None /\ cur \in {None, p} /\ pc[p] = "ra" /\ op[p] = "breada"
        /\ held[p] \in Bufs \cup {None} /\ blkno[p] \in Blocks
    BY <1>1 DEF Ra, AfterRa, cache, At, IInv, LocalInv, Local, TypeOK
  <1>3. pc' \in [Procs -> Pcs] /\ cur' = p
    BY <1>1 DEF Ra, AfterRa, Goto, TypeOK, Pcs
  <1>4. /\ op' \in [Procs -> Ops] /\ rablkno' \in [Procs -> Blocks \cup {None}]
        /\ bp' \in [Procs -> Bufs \cup {None}] /\ held' \in [Procs -> Bufs \cup {None}]
    <2>1. op' \in [Procs -> Ops]
      BY <1>1 DEF Ra, AfterRa, TypeOK, Ops
    <2>2. rablkno' \in [Procs -> Blocks \cup {None}]
      BY <1>1 DEF Ra, AfterRa, TypeOK
    <2>3. bp' \in [Procs -> Bufs \cup {None}]
      BY <1>1 DEF Ra, AfterRa, TypeOK
    <2>4. held' \in [Procs -> Bufs \cup {None}]
      BY <1>1 DEF Ra, AfterRa, TypeOK
    <2> QED BY <2>1, <2>2, <2>3, <2>4
  <1>5. TypeOK'
    BY <1>1, <1>2, <1>3, <1>4 DEF TypeOK
  <1>6. OthersKeep(p)
    BY <1>1, <1>2 DEF Ra, AfterRa, Goto, OthersKeep, TypeOK
  <1>7. \/ /\ op'[p] = "bread" /\ held'[p] = None
           /\ IF held[p] = None THEN pc'[p] = "getblk" ELSE pc'[p] = "iowait" /\ bp'[p] = held[p]
        \/ /\ op'[p] = "ra" /\ held'[p] = held[p] /\ pc'[p] = "getblk"
           /\ rablkno'[p] \in Blocks
    BY <1>1 DEF Ra, AfterRa, Goto, TypeOK
  <1>8. LocalInv'
    BY <1>2, <1>3, <1>6, <1>7 DEF IInv, LocalInv, Local, OthersKeep
  <1>9. AssocInv'
    BY <1>2, <1>3, <1>6, <1>7 DEF IInv, AssocInv, Busy, OthersKeep
  <1> QED BY <1>2, <1>3, <1>5, <1>6, <1>7, <1>8, <1>9, QuietStep DEF IInv

(* Setting AGE on a buffer the process has given away changes nothing the   *)
(* invariant speaks of, because it is done in one step.                     *)
LEMMA AgeStep ==
    ASSUME IInv, NEW p \in Procs, Age(p)
    PROVE  IInv'
  <1> USE BioConstants
  <1>1. TypeOK /\ pc[p] = "age" /\ bp[p] \in Bufs
    BY DEF IInv, Age, At, LocalInv, Local
  <1>2. UNCHANGED <<blk, avail, fwanted, data, queue, errcnt, disk, chan, held, reg>>
        /\ chan[p] = None /\ cur \in {None, p}
    BY DEF Age, At
  <1>3. pc' \in [Procs -> Pcs] /\ cur' \in {p, None} /\ pc'[p] \in {"user", "bflush", "getblk"}
        /\ (pc'[p] = "getblk" => op[p] \notin {"bawrite", "bflush"} /\ op'[p] = op[p])
    BY <1>1 DEF Age, AgeReturn, Return, Goto, TypeOK, Pcs
  <1>4. /\ op' \in [Procs -> Ops] /\ rablkno' \in [Procs -> Blocks \cup {None}]
        /\ bp' \in [Procs -> Bufs \cup {None}] /\ blkno' \in [Procs -> Blocks \cup {NODEV, None}]
        /\ \/ op'[p] = "none" /\ op[p] = "bawrite" /\ pc'[p] = "user"
           \/ op'[p] = op[p] /\ blkno' = blkno /\ rablkno' = rablkno
              /\ pc'[p] = IF op[p] = "bflush" THEN "bflush" ELSE "getblk"
    <2>1. CASE op[p] = "bawrite"
      <3>1. /\ op' = [op EXCEPT ![p] = "none"] /\ pc' = [pc EXCEPT ![p] = "user"]
            /\ rablkno' = [rablkno EXCEPT ![p] = None] /\ bp' = [bp EXCEPT ![p] = None]
            /\ blkno' = [blkno EXCEPT ![p] = None]
        BY <2>1 DEF Age, AgeReturn, Return
      <3> QED BY <2>1, <3>1, <1>1 DEF TypeOK, Ops
    <2>2. CASE op[p] # "bawrite"
      <3>1. /\ op' = op /\ rablkno' = rablkno /\ blkno' = blkno
            /\ bp' = bp \/ bp' = [bp EXCEPT ![p] = None]
            /\ pc' = [pc EXCEPT ![p] = IF op[p] = "bflush" THEN "bflush" ELSE "getblk"]
        BY <2>2, <1>1 DEF Age, AgeReturn, Goto
      <3> QED BY <3>1, <1>1 DEF TypeOK, Ops
    <2> QED BY <2>1, <2>2
  <1>5. /\ flags' \in [Bufs -> SUBSET Flags]
        /\ \A b \in Bufs, x \in Flags \ {"AGE"} : x \in flags'[b] <=> x \in flags[b]
    BY <1>1 DEF Age, TypeOK, Flags
  <1>6. OthersKeep(p)
    BY <1>1, <1>2 DEF Age, AgeReturn, Return, Goto, OthersKeep, TypeOK
  <1>7. TypeOK'
    BY <1>1, <1>2, <1>3, <1>4, <1>5 DEF TypeOK
  <1>8. \A b \in Bufs : /\ "BUSY" \in flags'[b] <=> "BUSY" \in flags[b]
                        /\ "DONE" \in flags'[b] <=> "DONE" \in flags[b]
                        /\ "ASYNC" \in flags'[b] <=> "ASYNC" \in flags[b]
                        /\ "ERROR" \in flags'[b] <=> "ERROR" \in flags[b]
                        /\ "WANTED" \in flags'[b] <=> "WANTED" \in flags[b]
                        /\ "DELWRI" \in flags'[b] <=> "DELWRI" \in flags[b]
    BY <1>5 DEF Flags
  <1>9. LocalInv'
    <2>1. ASSUME NEW q \in Procs, q # p PROVE Local(q)'
      BY <1>1, <1>2, <1>3, <1>6, <2>1 DEF IInv, LocalInv, Local, OthersKeep
    <2>2. Local(p)'
      BY <1>1, <1>2, <1>3, <1>4 DEF IInv, LocalInv, Local
    <2> QED BY <2>1, <2>2 DEF LocalInv
  <1>10. \A q \in Procs, b \in Bufs : Owns(q, b)' <=> Owns(q, b)
    BY <1>1, <1>2, <1>3, <1>6 DEF OthersKeep, Owns
  <1>11. AvailIffNotBusy' /\ OneBufferPerBlock'
    BY <1>2, <1>8 DEF IInv, AvailIffNotBusy, OneBufferPerBlock
  <1>12. OwnInv'
    BY <1>2, <1>3, <1>6, <1>8, <1>10 DEF IInv, OwnInv, Busy, OthersKeep
  <1>13. QueueInv'
    <2>1. \A b \in ToSet(queue) : b \in Bufs
      BY <1>1 DEF TypeOK, ToSet
    <2>2. ASSUME NEW q \in Procs, pc'[q] = "iowait", "DONE" \notin flags'[bp'[q]]
          PROVE  bp'[q] \in ToSet(queue)
      BY <1>3, <1>6, <1>8, <2>2 DEF IInv, QueueInv, LocalInv, Local, OthersKeep
    <2>3. ASSUME NEW q \in Procs, held'[q] # None, "DONE" \notin flags'[held'[q]]
          PROVE  held'[q] \in ToSet(queue)
      BY <1>1, <1>2, <1>8, <2>3 DEF IInv, QueueInv, TypeOK
    <2>4. \A b \in ToSet(queue) : \A q \in Procs : pc'[q] \in {"got", "hold"} => bp'[q] # b
      BY <1>3, <1>6 DEF IInv, QueueInv, OthersKeep
    <2> QED BY <1>2, <1>8, <2>1, <2>2, <2>3, <2>4 DEF IInv, QueueInv, Busy
  <1>14. AssocInv'
    BY <1>1, <1>2, <1>3, <1>6, <1>8 DEF IInv, AssocInv, Busy, OthersKeep, LocalInv, Local
  <1>15. NoLostWakeup'
    BY <1>2, <1>3, <1>6, <1>8 DEF IInv, NoLostWakeup, OthersKeep
  <1> QED BY <1>7, <1>9, <1>11, <1>12, <1>13, <1>14, <1>15 DEF IInv

-----------------------------------------------------------------------------
(* What an action of p does with a buffer b that is p's, or that p takes    *)
(* from the available list in the same step.  P stands for the parts of     *)
(* the invariant about buffers.                                             *)
BufInv ==
    AvailIffNotBusy /\ OneBufferPerBlock /\ OwnInv /\ QueueInv /\ AssocInv /\ NoLostWakeup

(* nobody but p, who is running, may answer for b *)
Mine(p, b) ==
    /\ chan[p] = None /\ cur \in {None, p}
    /\ OthersKeep(p)
    /\ b \notin ToSet(queue)
    /\ \A q \in Procs : q # p => ~Owns(q, b)
    /\ \A c \in Bufs : c # b => (Owns(p, c)' <=> Owns(p, c))
    /\ held'[p] \in {None, b, held[p]}
    /\ pc'[p] \notin {"found", "got", "hold"}
    /\ pc'[p] = "iowait" => held'[p] = None /\ bp'[p] \in {b, held[p]} \ {None}

(* p releases b. *)
LEMMA ReleasedKeeps ==
    ASSUME IInv, TypeOK', NEW p \in Procs, NEW b \in Bufs, NEW f \in SUBSET Flags, NEW av,
           Released(b, f, av), Mine(p, b), queue' = queue,
           ToSet(av) = ToSet(avail) \ {b},
           ~Owns(p, b)',
           "WANTED" \in flags[b] => "WANTED" \in f,
           "DELWRI" \in f => "DONE" \in f /\ "ERROR" \notin f /\ blk[b] \in Blocks
    PROVE  BufInv'
  <1> USE BioConstants
  <1>0. TypeOK /\ LocalInv /\ OwnInv /\ QueueInv
    BY DEF IInv
  <1>1. /\ "BUSY" \notin flags'[b] /\ "ASYNC" \notin flags'[b]
        /\ ("DELWRI" \in flags'[b] <=> "DELWRI" \in f)
        /\ ("DONE" \in flags'[b] <=> "DONE" \in f)
        /\ ("ERROR" \in flags'[b] <=> "ERROR" \in f)
        /\ blk'[b] = IF "ERROR" \in f THEN NODEV ELSE blk[b]
        /\ ToSet(avail') = ToSet(avail) \cup {b}
    BY DEF Released
  <1>2. \A c \in Bufs : c # b => flags'[c] = flags[c] /\ blk'[c] = blk[c]
    BY DEF Released, OnlyBuf
  <1>3. AvailIffNotBusy' /\ OneBufferPerBlock'
    BY <1>1, <1>2 DEF IInv, AvailIffNotBusy, OneBufferPerBlock, Released, OnlyBuf
  <1>4. \A q \in Procs, c \in Bufs : Owns(q, c)' <=> (Owns(q, c) /\ c # b)
    BY DEF Mine, OthersKeep, Owns
  <1>5. OwnInv'
    BY <1>1, <1>2, <1>4 DEF IInv, OwnInv, Busy, Mine, OthersKeep
  <1>6. QueueInv'
    <2>1. \A c \in ToSet(queue) : c \in Bufs /\ c # b
      BY <1>0 DEF TypeOK, ToSet, Mine
    <2>2. ASSUME NEW q \in Procs, pc'[q] = "iowait", "DONE" \notin flags'[bp'[q]]
          PROVE  bp'[q] \in ToSet(queue)
      <3>1. CASE q # p
        <4>1. bp[q] \in Bufs /\ bp[q] # b
          BY <2>2, <3>1, <1>0 DEF Mine, OthersKeep, LocalInv, Local, Owns
        <4> QED BY <4>1, <2>2, <3>1, <1>0, <1>2 DEF QueueInv, Mine, OthersKeep
      <3>2. CASE q = p
        <4>1. bp'[p] = held[p] /\ held[p] # None /\ held[p] \in Bufs /\ held[p] # b
          BY <2>2, <3>2, <1>0 DEF Mine, TypeOK, Owns
        <4> QED BY <4>1, <2>2, <3>2, <1>0, <1>2 DEF QueueInv
      <3> QED BY <3>1, <3>2
    <2>3. ASSUME NEW q \in Procs, held'[q] # None, "DONE" \notin flags'[held'[q]]
          PROVE  held'[q] \in ToSet(queue)
      <3>1. held'[q] = held[q] /\ held[q] \in Bufs /\ held[q] # b
        BY <2>3, <1>0 DEF Mine, OthersKeep, TypeOK, Owns
      <3> QED BY <3>1, <2>3, <1>0, <1>2 DEF QueueInv
    <2>4. \A c \in ToSet(queue) : \A q \in Procs : pc'[q] \in {"got", "hold"} => bp'[q] # c
      BY <1>0 DEF QueueInv, Mine, OthersKeep
    <2> QED BY <1>0, <1>1, <1>2, <2>1, <2>2, <2>3, <2>4 DEF QueueInv, Busy
  <1>7. AssocInv'
    <2>1. ASSUME NEW q \in Procs, pc'[q] \in {"found", "got", "hold"}
          PROVE  q # p /\ pc'[q] = "hold" /\ pc[q] = "hold" /\ bp'[q] = bp[q] /\ bp[q] \in Bufs /\ bp[q] # b /\ op'[q] = op[q]
      BY <2>1, <1>0 DEF Mine, OthersKeep, LocalInv, Local, Owns
    <2>3. ASSUME NEW q \in Procs, pc'[q] = "hold", op'[q] = "getblk", "ERROR" \in flags'[bp'[q]]
          PROVE  blk'[bp'[q]] = NODEV
      BY <2>1, <2>3, <1>1, <1>2 DEF IInv, AssocInv
    <2>4. \A c \in Bufs :
          /\ "DELWRI" \in flags'[c] =>
                "DONE" \in flags'[c] /\ "ERROR" \notin flags'[c] /\ blk'[c] \in Blocks
          /\ "BUSY" \notin flags'[c] /\ "ERROR" \in flags'[c] => blk'[c] = NODEV
      BY <1>1, <1>2 DEF IInv, AssocInv, Busy
    <2> QED BY <2>1, <2>3, <2>4 DEF AssocInv, Busy
  <1>8. NoLostWakeup'
    <2>1. SUFFICES ASSUME NEW q \in Procs
                   PROVE  /\ chan'[q] \in Bufs /\ pc'[q] = "iowait" =>
                                chan'[q] = bp'[q] /\ bp'[q] \in ToSet(queue')
                          /\ chan'[q] \in Bufs /\ pc'[q] # "iowait" =>
                                "BUSY" \in flags'[chan'[q]] /\ "WANTED" \in flags'[chan'[q]]
                          /\ chan'[q] = BFreeList => fwanted' /\ avail' = << >>
      BY DEF NoLostWakeup
    <2>2. chan'[q] \in {chan[q], None} /\ (chan'[q] # None => q # p /\ pc'[q] = pc[q] /\ bp'[q] = bp[q])
      BY DEF Released, OnlyBuf, Mine, OthersKeep
    <2>3. chan'[q] \in Bufs => chan'[q] # b
      BY <2>2 DEF Released, Mine, IInv, NoLostWakeup
    <2>4. chan'[q] # BFreeList
      BY <2>2 DEF Released, Mine, IInv, NoLostWakeup
    <2> QED BY <2>2, <2>3, <2>4, <1>2 DEF IInv, NoLostWakeup
  <1> QED BY <1>3, <1>5, <1>6, <1>7, <1>8 DEF BufInv

(* p starts a transfer on b. *)
LEMMA QueuedKeeps ==
    ASSUME IInv, TypeOK', NEW p \in Procs, NEW b \in Bufs, NEW f \in SUBSET Flags, NEW av,
           Queued(b, f, av), Mine(p, b), 
           IsInjective(queue'), ToSet(queue') = ToSet(queue) \cup {b},
           ToSet(av) = ToSet(avail) \ {b}, avail = << >> => av = << >>,
           "BUSY" \in f, "DONE" \notin f, "DELWRI" \notin f, blk[b] \in Blocks,
           "WANTED" \in flags[b] => "WANTED" \in f,
           "ASYNC" \in f => ~Owns(p, b)',
           "ASYNC" \notin f => Owns(p, b)'
    PROVE  BufInv'
  <1> USE BioConstants
  <1>0. TypeOK /\ LocalInv /\ OwnInv /\ QueueInv
    BY DEF IInv
  <1>1. flags'[b] = f /\ blk' = blk /\ fwanted' = fwanted /\ chan' = chan /\ avail' = av
        /\ IsInjective(avail')
    BY DEF Queued, OnlyBuf
  <1>2. \A c \in Bufs : c # b => flags'[c] = flags[c]
    BY DEF Queued, OnlyBuf
  <1>3. AvailIffNotBusy' /\ OneBufferPerBlock'
    BY <1>1, <1>2 DEF IInv, AvailIffNotBusy, OneBufferPerBlock
  <1>4. \A q \in Procs, c \in Bufs : Owns(q, c)' <=> IF c = b THEN q = p /\ "ASYNC" \notin f ELSE Owns(q, c)
    BY DEF Mine, OthersKeep, Owns
  <1>5. OwnInv'
    BY <1>1, <1>2, <1>4 DEF IInv, OwnInv, Busy, Mine, OthersKeep
  <1>6. QueueInv'
    <2>1. \A c \in ToSet(queue) : c \in Bufs /\ c # b
      BY <1>0 DEF TypeOK, ToSet, Mine
    <2>2. ASSUME NEW q \in Procs, pc'[q] = "iowait", "DONE" \notin flags'[bp'[q]]
          PROVE  bp'[q] \in ToSet(queue')
      <3>1. CASE q # p
        BY <2>2, <3>1, <1>0, <1>2 DEF QueueInv, Mine, OthersKeep, LocalInv, Local
      <3>2. CASE q = p
        BY <2>2, <3>2, <1>0, <1>2 DEF QueueInv, Mine, TypeOK
      <3> QED BY <3>1, <3>2
    <2>3. ASSUME NEW q \in Procs, held'[q] # None, "DONE" \notin flags'[held'[q]]
          PROVE  held'[q] \in ToSet(queue')
      BY <2>3, <1>0, <1>2 DEF QueueInv, Mine, OthersKeep, TypeOK
    <2>4. \A c \in ToSet(queue') : \A q \in Procs : pc'[q] \in {"got", "hold"} => bp'[q] # c
      BY <1>0 DEF QueueInv, Mine, OthersKeep, Owns
    <2> QED BY <1>0, <1>1, <1>2, <2>1, <2>2, <2>3, <2>4 DEF QueueInv, Busy
  <1>7. AssocInv'
    <2>1. ASSUME NEW q \in Procs, pc'[q] \in {"found", "got", "hold"}
          PROVE  q # p /\ pc'[q] = "hold" /\ pc[q] = "hold" /\ bp'[q] = bp[q] /\ bp[q] \in Bufs /\ bp[q] # b /\ op'[q] = op[q]
      BY <2>1, <1>0 DEF Mine, OthersKeep, LocalInv, Local, Owns
    <2>3. ASSUME NEW q \in Procs, pc'[q] = "hold", op'[q] = "getblk", "ERROR" \in flags'[bp'[q]]
          PROVE  blk'[bp'[q]] = NODEV
      BY <2>1, <2>3, <1>1, <1>2 DEF IInv, AssocInv
    <2>4. \A c \in Bufs :
          /\ "DELWRI" \in flags'[c] =>
                "DONE" \in flags'[c] /\ "ERROR" \notin flags'[c] /\ blk'[c] \in Blocks
          /\ "BUSY" \notin flags'[c] /\ "ERROR" \in flags'[c] => blk'[c] = NODEV
      BY <1>1, <1>2 DEF IInv, AssocInv, Busy
    <2> QED BY <2>1, <2>3, <2>4 DEF AssocInv, Busy
  <1>8. NoLostWakeup'
    BY <1>0, <1>1, <1>2 DEF IInv, NoLostWakeup, Mine, OthersKeep
  <1> QED BY <1>3, <1>5, <1>6, <1>7, <1>8 DEF BufInv

(* p's synchronous transfer on b is refused at once. *)
LEMMA CompletedKeeps ==
    ASSUME IInv, TypeOK', NEW p \in Procs, NEW b \in Bufs, NEW f \in SUBSET Flags,
           Completed(b, f, avail), Mine(p, b), queue' = queue,
           "BUSY" \in f, "ASYNC" \notin f, "DELWRI" \notin f, "BUSY" \in flags[b],
           Owns(p, b)'
    PROVE  BufInv'
  <1> USE BioConstants
  <1>0. TypeOK /\ LocalInv /\ OwnInv /\ QueueInv
    BY DEF IInv
  <1>1. /\ "BUSY" \in flags'[b] /\ "ASYNC" \notin flags'[b]
        /\ "DELWRI" \notin flags'[b] /\ "DONE" \in flags'[b]
        /\ blk' = blk /\ avail' = avail /\ fwanted' = fwanted
    BY DEF Completed
  <1>2. \A c \in Bufs : c # b => flags'[c] = flags[c]
    BY DEF Completed, OnlyBuf
  <1>3. AvailIffNotBusy' /\ OneBufferPerBlock'
    BY <1>1, <1>2 DEF IInv, AvailIffNotBusy, OneBufferPerBlock
  <1>4. \A q \in Procs, c \in Bufs : Owns(q, c)' <=> IF c = b THEN q = p ELSE Owns(q, c)
    BY DEF Mine, OthersKeep, Owns
  <1>5. OwnInv'
    BY <1>1, <1>2, <1>4 DEF IInv, OwnInv, Busy, Mine, OthersKeep
  <1>6. QueueInv'
    <2>1. \A c \in ToSet(queue) : c \in Bufs /\ c # b
      BY <1>0 DEF TypeOK, ToSet, Mine
    <2>2. ASSUME NEW q \in Procs, pc'[q] = "iowait", "DONE" \notin flags'[bp'[q]]
          PROVE  bp'[q] \in ToSet(queue)
      <3>1. CASE q # p
        BY <2>2, <3>1, <1>0, <1>1, <1>2 DEF QueueInv, Mine, OthersKeep, LocalInv, Local
      <3>2. CASE q = p
        BY <2>2, <3>2, <1>0, <1>1, <1>2 DEF QueueInv, Mine, TypeOK
      <3> QED BY <3>1, <3>2
    <2>3. ASSUME NEW q \in Procs, held'[q] # None, "DONE" \notin flags'[held'[q]]
          PROVE  held'[q] \in ToSet(queue)
      BY <2>3, <1>0, <1>1, <1>2 DEF QueueInv, Mine, OthersKeep, TypeOK
    <2>4. \A c \in ToSet(queue) : \A q \in Procs : pc'[q] \in {"got", "hold"} => bp'[q] # c
      BY <1>0 DEF QueueInv, Mine, OthersKeep, Owns
    <2> QED BY <1>0, <1>1, <1>2, <2>1, <2>2, <2>3, <2>4 DEF QueueInv, Busy
  <1>7. AssocInv'
    <2>1. ASSUME NEW q \in Procs, pc'[q] \in {"found", "got", "hold"}
          PROVE  q # p /\ pc'[q] = "hold" /\ pc[q] = "hold" /\ bp'[q] = bp[q] /\ bp[q] \in Bufs /\ bp[q] # b /\ op'[q] = op[q]
      BY <2>1, <1>0 DEF Mine, OthersKeep, LocalInv, Local, Owns
    <2>3. ASSUME NEW q \in Procs, pc'[q] = "hold", op'[q] = "getblk", "ERROR" \in flags'[bp'[q]]
          PROVE  blk'[bp'[q]] = NODEV
      BY <2>1, <2>3, <1>1, <1>2 DEF IInv, AssocInv
    <2>4. \A c \in Bufs :
          /\ "DELWRI" \in flags'[c] =>
                "DONE" \in flags'[c] /\ "ERROR" \notin flags'[c] /\ blk'[c] \in Blocks
          /\ "BUSY" \notin flags'[c] /\ "ERROR" \in flags'[c] => blk'[c] = NODEV
      BY <1>1, <1>2 DEF IInv, AssocInv, Busy
    <2> QED BY <2>1, <2>3, <2>4 DEF AssocInv, Busy
  <1>8. NoLostWakeup'
    <2>1. SUFFICES ASSUME NEW q \in Procs
                   PROVE  /\ chan'[q] \in Bufs /\ pc'[q] = "iowait" =>
                                chan'[q] = bp'[q] /\ bp'[q] \in ToSet(queue')
                          /\ chan'[q] \in Bufs /\ pc'[q] # "iowait" =>
                                "BUSY" \in flags'[chan'[q]] /\ "WANTED" \in flags'[chan'[q]]
                          /\ chan'[q] = BFreeList => fwanted' /\ avail' = << >>
      BY DEF NoLostWakeup
    <2>2. chan'[q] \in {chan[q], None} /\ chan'[q] # b
          /\ (chan'[q] # None => q # p /\ pc'[q] = pc[q] /\ bp'[q] = bp[q])
      BY DEF Completed, OnlyBuf, Mine, OthersKeep
    <2> QED BY <2>2, <1>1, <1>2 DEF IInv, NoLostWakeup
  <1> QED BY <1>3, <1>5, <1>6, <1>7, <1>8 DEF BufInv

(* p takes b from the available list. *)
LEMMA TakenKeeps ==
    ASSUME IInv, TypeOK', NEW p \in Procs, NEW b \in ToSet(avail),
           UNCHANGED <<queue, fwanted, chan>>, OthersKeep(p),
           chan[p] = None, cur \in {None, p}, pc[p] \in {"found", "getblk"},
           pc'[p] = "got", bp'[p] = b, held'[p] = held[p],
           ToSet(avail') = ToSet(avail) \ {b}, IsInjective(avail'),
           \A c \in Bufs : c # b => flags'[c] = flags[c] /\ blk'[c] = blk[c],
           "BUSY" \in flags'[b], "ASYNC" \notin flags'[b],
           "DELWRI" \in flags'[b] =>
              "DONE" \in flags'[b] /\ "ERROR" \notin flags'[b] /\ blk'[b] \in Blocks,
           "ERROR" \in flags'[b] => blk'[b] = NODEV,
           op'[p] # "geteblk" => blk'[b] \in Blocks \/ "DONE" \in flags'[b],
           blk'[b] \in {blk[b], NODEV} \/ \A c \in Bufs : blk[c] # blk'[b]
    PROVE  BufInv'
  <1> USE BioConstants
  <1>0. TypeOK /\ LocalInv /\ OwnInv /\ QueueInv
    BY DEF IInv
  <1>1. b \in Bufs /\ "BUSY" \notin flags[b] /\ b \notin ToSet(queue)
        /\ \A q \in Procs : ~Owns(q, b) /\ chan[q] # b
    <2>1. b \in Bufs
      BY <1>0 DEF TypeOK, ToSet
    <2>2. "BUSY" \notin flags[b]
      BY <2>1 DEF IInv, AvailIffNotBusy
    <2>3. b \notin ToSet(queue) /\ \A q \in Procs : ~Owns(q, b)
      BY <1>0, <2>1, <2>2 DEF OwnInv, QueueInv, Busy
    <2>4. ASSUME NEW q \in Procs PROVE chan[q] # b
      BY <2>1, <2>2, <2>3 DEF IInv, NoLostWakeup
    <2> QED BY <2>1, <2>2, <2>3, <2>4
  <1>2. avail # << >> /\ \A q \in Procs : chan[q] # BFreeList
    BY DEF IInv, NoLostWakeup, ToSet
  <1>3. AvailIffNotBusy' /\ OneBufferPerBlock'
    BY <1>1 DEF IInv, AvailIffNotBusy, OneBufferPerBlock
  <1>4. \A q \in Procs, c \in Bufs : Owns(q, c)' <=> IF c = b THEN q = p ELSE Owns(q, c)
    BY <1>1 DEF OthersKeep, Owns
  <1>5. OwnInv'
    BY <1>1, <1>4 DEF IInv, OwnInv, Busy, OthersKeep, Owns
  <1>6. QueueInv'
    <2>1. \A c \in ToSet(queue) : c \in Bufs /\ c # b
      BY <1>0, <1>1 DEF TypeOK, ToSet
    <2>2. ASSUME NEW q \in Procs, pc'[q] = "iowait", "DONE" \notin flags'[bp'[q]]
          PROVE  bp'[q] \in ToSet(queue)
      <3>1. q # p /\ pc[q] = "iowait" /\ bp'[q] = bp[q] /\ bp[q] \in Bufs /\ bp[q] # b
        BY <2>2, <1>0, <1>1 DEF OthersKeep, LocalInv, Local, Owns
      <3> QED BY <3>1, <2>2, <1>0 DEF QueueInv
    <2>3. ASSUME NEW q \in Procs, held'[q] # None, "DONE" \notin flags'[held'[q]]
          PROVE  held'[q] \in ToSet(queue)
      <3>1. held'[q] = held[q] /\ held[q] \in Bufs /\ held[q] # b
        BY <2>3, <1>0, <1>1 DEF OthersKeep, TypeOK, Owns
      <3> QED BY <3>1, <2>3, <1>0 DEF QueueInv
    <2>4. \A c \in ToSet(queue) : \A q \in Procs : pc'[q] \in {"got", "hold"} => bp'[q] # c
      BY <1>0, <1>1 DEF QueueInv, OthersKeep
    <2> QED BY <1>0, <1>1, <2>1, <2>2, <2>3, <2>4 DEF QueueInv, Busy
  <1>7. AssocInv'
    <2>1. ASSUME NEW q \in Procs, q # p, pc'[q] \in {"found", "got", "hold"}
          PROVE  pc[q] = "hold" /\ bp'[q] = bp[q] /\ bp[q] \in Bufs /\ bp[q] # b /\ op'[q] = op[q]
      BY <2>1, <1>0, <1>1 DEF OthersKeep, LocalInv, Local, Owns
    <2>2. ASSUME NEW q \in Procs, q # p, pc'[q] = "hold", op'[q] = "getblk", "ERROR" \in flags'[bp'[q]]
          PROVE  blk'[bp'[q]] = NODEV
      BY <2>1, <2>2, <1>1 DEF IInv, AssocInv
    <2>3. \A q \in Procs : q # p => pc'[q] \notin {"found", "got"}
      BY <2>1 DEF OthersKeep
    <2>4. \A c \in Bufs :
          /\ "DELWRI" \in flags'[c] =>
                "DONE" \in flags'[c] /\ "ERROR" \notin flags'[c] /\ blk'[c] \in Blocks
          /\ "BUSY" \notin flags'[c] /\ "ERROR" \in flags'[c] => blk'[c] = NODEV
      BY <1>1 DEF IInv, AssocInv, Busy
    <2> QED BY <2>2, <2>3, <2>4, <1>1 DEF AssocInv, Busy
  <1>8. NoLostWakeup'
    BY <1>0, <1>1, <1>2 DEF IInv, NoLostWakeup, OthersKeep
  <1> QED BY <1>3, <1>5, <1>6, <1>7, <1>8 DEF BufInv

-----------------------------------------------------------------------------
(* The types of what brelse and the strategy routine change. *)
CacheTypes ==
    /\ flags' \in [Bufs -> SUBSET Flags] /\ blk' \in [Bufs -> Blocks \cup {NODEV}]
    /\ avail' \in Seq(Bufs) /\ fwanted' \in BOOLEAN /\ queue' \in Seq(Bufs)
    /\ chan' \in [Procs -> Bufs \cup {BFreeList, None}]
    /\ \A q \in Procs : chan'[q] \in {chan[q], None}

(* Starting a transfer on a buffer that is p's, or that it takes from the   *)
(* available list, preserves the invariant on buffers.                      *)
LEMMA StrategyTypes ==
    ASSUME TypeOK, NEW b \in Bufs, NEW f \in SUBSET Flags, NEW av \in Seq(Bufs),
           IsInjective(av), b \notin ToSet(av), IsInjective(queue), b \notin ToSet(queue),
           Strategy(b, f, av)
    PROVE  CacheTypes
  BY StrategyEffect DEF TypeOK, CacheTypes, Queued, Released, Completed, OnlyBuf

LEMMA StrategyKeeps ==
    ASSUME IInv, TypeOK', NEW p \in Procs, NEW b \in Bufs, NEW f \in SUBSET Flags,
           NEW av \in Seq(Bufs), IsInjective(av), ToSet(av) = ToSet(avail) \ {b},
           avail = << >> => av = << >>,
           Strategy(b, f, av), Mine(p, b),
           "BUSY" \in f, "DONE" \notin f, "DELWRI" \notin f, blk[b] \in Blocks,
           "WANTED" \in flags[b] => "WANTED" \in f,
           "ASYNC" \in f => ~Owns(p, b)',
           "ASYNC" \notin f => Owns(p, b)' /\ av = avail /\ "BUSY" \in flags[b]
    PROVE  BufInv'
  <1>1. TypeOK /\ b \notin ToSet(av) /\ IsInjective(queue) /\ b \notin ToSet(queue)
    BY DEF IInv, QueueInv, Mine
  <1>2. \/ /\ Queued(b, f, av)
           /\ queue' \in Seq(Bufs) /\ IsInjective(queue')
           /\ ToSet(queue') = ToSet(queue) \cup {b}
        \/ /\ queue' = queue /\ "ASYNC" \in f
           /\ Released(b, f \cup {"ERROR", "DONE"}, av)
        \/ /\ queue' = queue /\ "ASYNC" \notin f
           /\ Completed(b, f \cup {"ERROR"}, av)
    BY <1>1, StrategyEffect
  <1>3. CASE Queued(b, f, av) /\ IsInjective(queue') /\ ToSet(queue') = ToSet(queue) \cup {b}
    BY <1>3, QueuedKeeps
  <1>4. CASE queue' = queue /\ "ASYNC" \in f /\ Released(b, f \cup {"ERROR", "DONE"}, av)
    <2>1. f \cup {"ERROR", "DONE"} \in SUBSET Flags
          /\ "DELWRI" \notin f \cup {"ERROR", "DONE"}
          /\ ("WANTED" \in f => "WANTED" \in f \cup {"ERROR", "DONE"})
      BY DEF Flags
    <2> QED BY <1>4, <2>1, ReleasedKeeps
  <1>5. CASE queue' = queue /\ "ASYNC" \notin f /\ Completed(b, f \cup {"ERROR"}, av)
    <2>1. f \cup {"ERROR"} \in SUBSET Flags /\ "BUSY" \in f \cup {"ERROR"}
          /\ "ASYNC" \notin f \cup {"ERROR"} /\ "DELWRI" \notin f \cup {"ERROR"}
      BY <1>5 DEF Flags
    <2>2. Completed(b, f \cup {"ERROR"}, avail)
      BY <1>5
    <2> QED BY <1>5, <2>1, <2>2, CompletedKeeps
  <1> QED BY <1>2, <1>3, <1>4, <1>5

(* A buffer in the hands of p, with no transfer under way. *)
LEMMA OwnedFacts ==
    ASSUME IInv, NEW p \in Procs, NEW b \in Bufs,
           bp[p] = b, pc[p] \in {"got", "hold"} \/ (pc[p] = "iowait" /\ "DONE" \in flags[b])
    PROVE  /\ "BUSY" \in flags[b] /\ "ASYNC" \notin flags[b]
           /\ b \notin ToSet(queue) /\ b \notin ToSet(avail) /\ ToSet(avail) = ToSet(avail) \ {b}
           /\ \A q \in Procs : q # p => ~Owns(q, b)
           /\ Owns(p, b)
  <1>1. Owns(p, b)
    BY DEF Owns
  <1>2. "BUSY" \in flags[b] /\ "ASYNC" \notin flags[b] /\ \A q \in Procs : q # p => ~Owns(q, b)
    BY <1>1 DEF IInv, OwnInv, Busy
  <1>3. b \notin ToSet(queue)
    BY DEF IInv, QueueInv
  <1>4. b \notin ToSet(avail)
    BY <1>2 DEF IInv, AvailIffNotBusy
  <1> QED BY <1>1, <1>2, <1>3, <1>4

(* Returning to the caller without a buffer. *)
LEMMA ReturnFacts ==
    ASSUME IInv, NEW p \in Procs, Return(p), held' = held,
           chan[p] = None, cur \in {None, p}, pc[p] \in {"hold", "iowait", "bflush"},
           \A q \in Procs : chan'[q] \in {chan[q], None}
    PROVE  /\ pc' \in [Procs -> Pcs] /\ cur' \in Procs \cup {None}
           /\ op' \in [Procs -> Ops] /\ bp' \in [Procs -> Bufs \cup {None}]
           /\ blkno' \in [Procs -> Blocks \cup {NODEV, None}]
           /\ rablkno' \in [Procs -> Blocks \cup {None}]
           /\ pc'[p] = "user" /\ held[p] = None
           /\ OthersKeep(p) /\ LocalInv'
  <1> USE BioConstants
  <1>1. TypeOK /\ LocalInv
    BY DEF IInv
  <1>2. /\ pc' = [pc EXCEPT ![p] = "user"] /\ op' = [op EXCEPT ![p] = "none"]
        /\ rablkno' = [rablkno EXCEPT ![p] = None] /\ bp' = [bp EXCEPT ![p] = None]
        /\ blkno' = [blkno EXCEPT ![p] = None] /\ cur' = None
    BY DEF Return
  <1>3. held[p] = None
    BY <1>1 DEF LocalInv, Local
  <1>4. /\ pc' \in [Procs -> Pcs] /\ cur' \in Procs \cup {None}
        /\ op' \in [Procs -> Ops] /\ bp' \in [Procs -> Bufs \cup {None}]
        /\ blkno' \in [Procs -> Blocks \cup {NODEV, None}]
        /\ rablkno' \in [Procs -> Blocks \cup {None}]
        /\ pc'[p] = "user" /\ op'[p] = "none"
    BY <1>1, <1>2 DEF TypeOK, Pcs, Ops
  <1>5. OthersKeep(p)
    BY <1>1, <1>2 DEF TypeOK, OthersKeep
  <1>6. LocalInv'
    BY <1>1, <1>2, <1>3, <1>4, <1>5 DEF LocalInv, Local, OthersKeep, TypeOK
  <1> QED BY <1>3, <1>4, <1>5, <1>6

-----------------------------------------------------------------------------
(* A caller gives up its buffer, with or without a delayed write. *)
LEMMA GiveUp ==
    ASSUME IInv, NEW p \in Procs, pc[p] \in {"hold", "iowait"}, chan[p] = None, cur \in {None, p},
           pc[p] = "iowait" => "DONE" \in flags[bp[p]],
           data' \in [Bufs -> Vals], UNCHANGED <<queue, errcnt, disk, held, reg>>,
           NEW f \in SUBSET Flags, Brelse(bp[p], f, avail), Return(p),
           "WANTED" \in flags[bp[p]] => "WANTED" \in f,
           "DELWRI" \in f => "DONE" \in f /\ "ERROR" \notin f /\ blk[bp[p]] \in Blocks
    PROVE  IInv'
  <1> USE BioConstants
  <1> DEFINE b == bp[p]
  <1>1. TypeOK /\ LocalInv /\ b \in Bufs /\ IsInjective(avail) /\ avail \in Seq(Bufs)
    BY DEF IInv, LocalInv, Local, AvailIffNotBusy, TypeOK
  <1> HIDE DEF b
  <1>2. /\ "BUSY" \in flags[b] /\ b \notin ToSet(queue) /\ b \notin ToSet(avail)
        /\ ToSet(avail) = ToSet(avail) \ {b}
        /\ \A q \in Procs : q # p => ~Owns(q, b)
    BY <1>1, OwnedFacts DEF b
  <1>3. Released(b, f, avail)
    BY <1>1, <1>2, BrelseEffect DEF b
  <1>4. /\ pc' \in [Procs -> Pcs] /\ cur' \in Procs \cup {None}
        /\ op' \in [Procs -> Ops] /\ bp' \in [Procs -> Bufs \cup {None}]
        /\ blkno' \in [Procs -> Blocks \cup {NODEV, None}]
        /\ rablkno' \in [Procs -> Blocks \cup {None}]
        /\ pc'[p] = "user" /\ held[p] = None
        /\ OthersKeep(p) /\ LocalInv'
    BY <1>3, ReturnFacts DEF Released, OnlyBuf
  <1>5. TypeOK'
    BY <1>1, <1>3, <1>4 DEF TypeOK, Released, OnlyBuf
  <1>6. \A c \in Bufs : ~Owns(p, c)' /\ (Owns(p, c) <=> c = b)
    BY <1>1, <1>4 DEF Owns, b
  <1>7. Mine(p, b)
    BY <1>1, <1>2, <1>4, <1>6 DEF Mine
  <1>8. ("WANTED" \in flags[b] => "WANTED" \in f)
        /\ ("DELWRI" \in f => "DONE" \in f /\ "ERROR" \notin f /\ blk[b] \in Blocks)
    BY DEF b
  <1>9. BufInv'
    BY <1>1, <1>2, <1>3, <1>5, <1>6, <1>7, <1>8, ReleasedKeeps
  <1> QED BY <1>4, <1>5, <1>9 DEF IInv, BufInv

LEMMA ReleaseStep ==
    ASSUME IInv, NEW p \in Procs, Release(p)
    PROVE  IInv'
  <1>1. bp[p] \in Bufs /\ pc[p] = "hold" /\ TypeOK /\ chan[p] = None /\ cur \in {None, p}
    BY DEF IInv, LocalInv, Local, Release, At
  <1>2. flags[bp[p]] \in SUBSET Flags /\ data' \in [Bufs -> Vals]
    BY <1>1 DEF TypeOK, Release
  <1>3. "DELWRI" \in flags[bp[p]] =>
            "DONE" \in flags[bp[p]] /\ "ERROR" \notin flags[bp[p]] /\ blk[bp[p]] \in Blocks
    BY <1>1 DEF IInv, AssocInv
  <1> QED BY <1>1, <1>2, <1>3, GiveUp DEF Release

LEMMA BdwriteStep ==
    ASSUME IInv, NEW p \in Procs, Bdwrite(p)
    PROVE  IInv'
  <1>1. bp[p] \in Bufs /\ pc[p] = "hold" /\ TypeOK /\ chan[p] = None /\ cur \in {None, p}
        /\ op[p] \in {"bread", "getblk", "geteblk"} /\ Writable(p)
    BY DEF IInv, LocalInv, Local, Bdwrite, At
  <1>2. flags[bp[p]] \cup {"DELWRI", "DONE"} \in SUBSET Flags /\ data' \in [Bufs -> Vals]
    BY <1>1 DEF TypeOK, Bdwrite, Flags
  <1>3. "ERROR" \notin flags[bp[p]] /\ blk[bp[p]] \in Blocks
    <2>1. blk[bp[p]] \in Blocks
      BY <1>1 DEF Writable, TypeOK
    <2> QED BY <1>1, <2>1, BioConstants DEF Writable, IInv, AssocInv
  <1>4. "DONE" \in flags[bp[p]] \cup {"DELWRI", "DONE"} /\ "ERROR" \notin flags[bp[p]] \cup {"DELWRI", "DONE"}
        /\ ("WANTED" \in flags[bp[p]] => "WANTED" \in flags[bp[p]] \cup {"DELWRI", "DONE"})
    BY <1>3
  <1> QED BY <1>1, <1>2, <1>3, <1>4, GiveUp DEF Bdwrite, Delayed

LEMMA FoundStep ==
    ASSUME IInv, NEW p \in Procs, Found(p)
    PROVE  IInv'
  <1> USE BioConstants
  <1> DEFINE b == bp[p]
  <1>1. /\ TypeOK /\ LocalInv /\ b \in Bufs /\ pc[p] = "found" /\ chan[p] = None
        /\ cur \in {None, p} /\ op[p] \in {"bread", "breada", "ra", "getblk", "geteblk"}
        /\ UNCHANGED <<blk, fwanted, data, queue, errcnt, disk, op, blkno, rablkno, held, reg>>
    BY DEF IInv, LocalInv, Local, Found, At
  <1> HIDE DEF b
  <1>2. CASE "BUSY" \in flags[b]
    <2>1. /\ flags' = [flags EXCEPT ![b] = @ \cup {"WANTED"}]
          /\ chan' = [chan EXCEPT ![p] = b] /\ pc' = [pc EXCEPT ![p] = "getblk"] /\ cur' = None
          /\ bp' = [bp EXCEPT ![p] = None] /\ avail' = avail
      BY <1>2 DEF Found, Sleep, b
    <2>2. TypeOK'
      BY <1>1, <2>1 DEF TypeOK, Flags, Pcs
    <2>3. OthersKeep(p) /\ pc'[p] = "getblk" /\ chan'[p] = b
          /\ \A q \in Procs : q # p => chan'[q] = chan[q]
      BY <1>1, <2>1 DEF TypeOK, OthersKeep
    <2>4. \A c \in Bufs : /\ "BUSY" \in flags'[c] <=> "BUSY" \in flags[c]
                          /\ "DONE" \in flags'[c] <=> "DONE" \in flags[c]
                          /\ "ASYNC" \in flags'[c] <=> "ASYNC" \in flags[c]
                          /\ "ERROR" \in flags'[c] <=> "ERROR" \in flags[c]
                          /\ "WANTED" \in flags'[c] <=> ("WANTED" \in flags[c] \/ c = b)
                          /\ "DELWRI" \in flags'[c] <=> "DELWRI" \in flags[c]
      BY <1>1, <2>1 DEF TypeOK
    <2>5. LocalInv'
      BY <1>1, <2>1, <2>3 DEF LocalInv, Local, OthersKeep
    <2>6. \A q \in Procs, c \in Bufs : Owns(q, c)' <=> Owns(q, c)
      BY <1>1, <2>3 DEF OthersKeep, Owns
    <2>7. AvailIffNotBusy' /\ OneBufferPerBlock'
      BY <1>1, <2>1, <2>4 DEF IInv, AvailIffNotBusy, OneBufferPerBlock
    <2>8. OwnInv'
      BY <1>1, <2>3, <2>4, <2>6 DEF IInv, OwnInv, Busy, OthersKeep
    <2>9. QueueInv'
      <3>1. \A c \in ToSet(queue) : c \in Bufs
        BY <1>1 DEF TypeOK, ToSet
      <3>2. ASSUME NEW q \in Procs, pc'[q] = "iowait", "DONE" \notin flags'[bp'[q]]
            PROVE  bp'[q] \in ToSet(queue)
        BY <1>1, <2>3, <2>4, <3>2 DEF IInv, QueueInv, LocalInv, Local, OthersKeep
      <3>3. ASSUME NEW q \in Procs, held'[q] # None, "DONE" \notin flags'[held'[q]]
            PROVE  held'[q] \in ToSet(queue)
        BY <1>1, <2>4, <3>3 DEF IInv, QueueInv, TypeOK
      <3>4. \A c \in ToSet(queue) : \A q \in Procs : pc'[q] \in {"got", "hold"} => bp'[q] # c
        BY <1>1, <2>3 DEF IInv, QueueInv, OthersKeep
      <3> QED BY <1>1, <2>4, <3>1, <3>2, <3>3, <3>4 DEF IInv, QueueInv, Busy
    <2>10. AssocInv'
      <3>1. \A q \in Procs : pc'[q] \in {"found", "got", "hold"} =>
                q # p /\ pc[q] = "hold" /\ bp'[q] = bp[q] /\ bp[q] \in Bufs
        BY <1>1, <2>3 DEF OthersKeep, LocalInv, Local
      <3> QED BY <1>1, <2>3, <2>4, <3>1 DEF IInv, AssocInv, Busy, OthersKeep
    <2>11. NoLostWakeup'
      BY <1>1, <1>2, <2>1, <2>3, <2>4 DEF IInv, NoLostWakeup, OthersKeep
    <2> QED BY <2>2, <2>5, <2>7, <2>8, <2>9, <2>10, <2>11 DEF IInv
  <1>3. CASE "BUSY" \notin flags[b]
    <2>1. /\ flags' = [flags EXCEPT ![b] = @ \cup {"BUSY"}]
          /\ avail' = Unlink(b) /\ pc' = [pc EXCEPT ![p] = "got"] /\ cur' = p
          /\ UNCHANGED <<chan, bp>>
      BY <1>3 DEF Found, Goto, b
    <2>2. b \in ToSet(avail) /\ IsInjective(avail) /\ "ASYNC" \notin flags[b]
          /\ ("ERROR" \in flags[b] => blk[b] = NODEV)
          /\ (blk[b] \in Blocks \/ "DONE" \in flags[b])
          /\ ("DELWRI" \in flags[b] =>
                "DONE" \in flags[b] /\ "ERROR" \notin flags[b] /\ blk[b] \in Blocks)
      BY <1>1, <1>3 DEF IInv, AvailIffNotBusy, OwnInv, AssocInv, Busy, b
    <2>3. Unlink(b) \in Seq(Bufs) /\ IsInjective(Unlink(b)) /\ ToSet(Unlink(b)) = ToSet(avail) \ {b}
      BY <1>1, <2>2, UnlinkFacts DEF TypeOK
    <2>4. TypeOK'
      BY <1>1, <2>1, <2>3 DEF TypeOK, Flags, Pcs
    <2>5. OthersKeep(p) /\ pc'[p] = "got" /\ bp'[p] = b
      BY <1>1, <2>1 DEF TypeOK, OthersKeep, b
    <2>6. LocalInv'
      BY <1>1, <2>1, <2>5 DEF LocalInv, Local, OthersKeep
    <2>7. /\ \A c \in Bufs : c # b => flags'[c] = flags[c] /\ blk'[c] = blk[c]
          /\ flags'[b] = flags[b] \cup {"BUSY"} /\ blk'[b] = blk[b]
      BY <1>1, <2>1 DEF TypeOK
    <2>8. BufInv'
      BY <1>1, <2>1, <2>2, <2>3, <2>4, <2>5, <2>7, TakenKeeps
    <2> QED BY <2>4, <2>6, <2>8 DEF IInv, BufInv
  <1> QED BY <1>2, <1>3

LEMMA IowaitStep ==
    ASSUME IInv, NEW p \in Procs, Iowait(p)
    PROVE  IInv'
  <1> USE BioConstants
  <1> DEFINE b == bp[p]
  <1>1. /\ TypeOK /\ LocalInv /\ b \in Bufs /\ pc[p] = "iowait" /\ chan[p] = None
        /\ cur \in {None, p} /\ held[p] = None
        /\ UNCHANGED <<data, queue, errcnt, disk, held, reg>>
    BY DEF IInv, LocalInv, Local, Iowait, At
  <1> HIDE DEF b
  <1>2. CASE "DONE" \notin flags[b] /\ Sleep(p, b, "iowait") /\ UNCHANGED <<cache, frame>>
    <2>1. /\ chan' = [chan EXCEPT ![p] = b] /\ pc' = [pc EXCEPT ![p] = "iowait"] /\ cur' = None
          /\ UNCHANGED <<flags, blk, avail, fwanted, op, blkno, rablkno, bp>>
      BY <1>2 DEF Sleep, cache, frame
    <2>2. pc' = pc
      BY <1>1, <2>1 DEF TypeOK
    <2>3. TypeOK'
      BY <1>1, <2>1, <2>2 DEF TypeOK
    <2>4. LocalInv'
      BY <1>1, <2>1, <2>2 DEF LocalInv, Local, TypeOK
    <2>5. AvailIffNotBusy' /\ OneBufferPerBlock' /\ OwnInv' /\ QueueInv' /\ AssocInv'
      BY <1>1, <2>1, <2>2 DEF IInv, AvailIffNotBusy, OneBufferPerBlock, OwnInv, Owns, QueueInv, AssocInv, Busy
    <2>6. NoLostWakeup'
      BY <1>1, <1>2, <2>1, <2>2 DEF IInv, NoLostWakeup, QueueInv, TypeOK, b
    <2> QED BY <2>3, <2>4, <2>5, <2>6 DEF IInv
  <1>3. CASE "DONE" \in flags[b] /\ op[p] = "bread" /\ Hold(p) /\ UNCHANGED <<cache, chan, frame>>
    <2>1. /\ pc' = [pc EXCEPT ![p] = "hold"] /\ cur' = None
          /\ UNCHANGED <<flags, blk, avail, fwanted, chan, op, blkno, rablkno, bp>>
      BY <1>3 DEF Hold, cache, frame
    <2>2. TypeOK'
      BY <1>1, <2>1 DEF TypeOK, Pcs
    <2>3. OthersKeep(p) /\ pc'[p] = "hold"
      BY <1>1, <2>1 DEF TypeOK, OthersKeep
    <2>4. LocalInv'
      BY <1>1, <1>3, <2>1, <2>3 DEF LocalInv, Local, OthersKeep
    <2>5. \A q \in Procs, c \in Bufs : Owns(q, c)' <=> Owns(q, c)
      BY <1>1, <2>1, <2>3 DEF OthersKeep, Owns
    <2>6. AvailIffNotBusy' /\ OneBufferPerBlock' /\ OwnInv'
      BY <1>1, <2>1, <2>3, <2>5 DEF IInv, AvailIffNotBusy, OneBufferPerBlock, OwnInv, Busy, OthersKeep
    <2>7. b \notin ToSet(queue)
      BY <1>1, <1>3, OwnedFacts DEF b
    <2>8. QueueInv' /\ AssocInv' /\ NoLostWakeup'
      BY <1>1, <1>3, <2>1, <2>3, <2>7 DEF IInv, QueueInv, AssocInv, NoLostWakeup, Busy, OthersKeep, b
    <2> QED BY <2>2, <2>4, <2>6, <2>8 DEF IInv
  <1>4. CASE "DONE" \in flags[b] /\ Brelse(b, flags[b], avail) /\ Return(p)
    <2>1. flags[b] \in SUBSET Flags /\ data' \in [Bufs -> Vals]
      BY <1>1 DEF TypeOK
    <2>2. "DELWRI" \in flags[b] => "DONE" \in flags[b] /\ "ERROR" \notin flags[b] /\ blk[b] \in Blocks
      BY <1>1 DEF IInv, AssocInv
    <2> QED BY <1>1, <1>4, <2>1, <2>2, GiveUp DEF b
  <1> QED BY <1>2, <1>3, <1>4 DEF Iowait, b

LEMMA GotStep ==
    ASSUME IInv, NEW p \in Procs, Got(p)
    PROVE  IInv'
  <1> USE BioConstants
  <1> DEFINE b == bp[p]
  <1>1. /\ TypeOK /\ LocalInv /\ b \in Bufs /\ pc[p] = "got" /\ chan[p] = None
        /\ cur \in {None, p} /\ held[p] = None /\ op[p] # "ra"
        /\ UNCHANGED <<data, errcnt, disk, op, blkno, rablkno, bp, reg>>
    BY DEF IInv, LocalInv, Local, Got, At, frame
  <1>2. /\ "BUSY" \in flags[b] /\ "ASYNC" \notin flags[b]
        /\ b \notin ToSet(queue) /\ b \notin ToSet(avail) /\ ToSet(avail) = ToSet(avail) \ {b}
        /\ \A q \in Procs : q # p => ~Owns(q, b)
    BY <1>1, OwnedFacts
  <1>3. \A c \in Bufs : Owns(p, c) <=> c = b
    BY <1>1 DEF Owns
  <1> HIDE DEF b
  <1>4. CASE /\ op[p] \in {"getblk", "geteblk"} \/ (op[p] = "bread" /\ "DONE" \in flags[b])
             /\ Hold(p) /\ UNCHANGED <<cache, queue, chan, held>>
    <2>1. /\ pc' = [pc EXCEPT ![p] = "hold"] /\ cur' = None
          /\ UNCHANGED <<flags, blk, avail, fwanted, queue, chan, held>>
      BY <1>4 DEF Hold, cache
    <2>2. TypeOK'
      BY <1>1, <2>1 DEF TypeOK, Pcs
    <2>3. OthersKeep(p) /\ pc'[p] = "hold"
      BY <1>1, <2>1 DEF TypeOK, OthersKeep
    <2>4. LocalInv'
      BY <1>1, <1>4, <2>1, <2>3 DEF LocalInv, Local, OthersKeep
    <2>5. \A q \in Procs, c \in Bufs : Owns(q, c)' <=> Owns(q, c)
      BY <1>1, <2>1, <2>3 DEF OthersKeep, Owns
    <2>6. AvailIffNotBusy' /\ OneBufferPerBlock' /\ OwnInv'
      BY <1>1, <2>1, <2>3, <2>5 DEF IInv, AvailIffNotBusy, OneBufferPerBlock, OwnInv, Busy, OthersKeep
    <2>8. QueueInv' /\ AssocInv' /\ NoLostWakeup'
      BY <1>1, <1>2, <1>4, <2>1, <2>3 DEF IInv, QueueInv, AssocInv, NoLostWakeup, Busy, OthersKeep, b
    <2> QED BY <2>2, <2>4, <2>6, <2>8 DEF IInv
  <1>5. CASE /\ op[p] \in {"bread", "breada"} /\ "DONE" \notin flags[b]
             /\ Strategy(b, flags[b] \cup {"READ"}, avail)
             /\ \/ op[p] = "bread" /\ Goto(p, "iowait") /\ UNCHANGED held
                \/ op[p] = "breada" /\ held' = [held EXCEPT ![p] = b] /\ Goto(p, "ra")
    <2> DEFINE f == flags[b] \cup {"READ"}
    <2>1. /\ f \in SUBSET Flags /\ avail \in Seq(Bufs) /\ IsInjective(avail) /\ IsInjective(queue)
          /\ "BUSY" \in f /\ "DONE" \notin f /\ "ASYNC" \notin f /\ "DELWRI" \notin f
          /\ blk[b] \in Blocks
          /\ ("WANTED" \in flags[b] => "WANTED" \in f)
      BY <1>1, <1>2, <1>5 DEF TypeOK, Flags, IInv, AvailIffNotBusy, QueueInv, AssocInv, b
    <2>2. CacheTypes
      BY <1>1, <1>2, <1>5, <2>1, StrategyTypes
    <2>3. /\ pc' \in [Procs -> Pcs] /\ cur' = p /\ held' \in [Procs -> Bufs \cup {None}]
          /\ \/ op[p] = "bread" /\ pc'[p] = "iowait" /\ held'[p] = None
             \/ op[p] = "breada" /\ pc'[p] = "ra" /\ held'[p] = b
      BY <1>1, <1>5 DEF TypeOK, Goto, Pcs
    <2>4. TypeOK'
      BY <1>1, <2>2, <2>3 DEF TypeOK, CacheTypes
    <2>5. OthersKeep(p)
      BY <1>1, <1>5 DEF TypeOK, OthersKeep, Goto
    <2>6. LocalInv'
      BY <1>1, <2>2, <2>3, <2>5 DEF LocalInv, Local, OthersKeep, CacheTypes, b
    <2>7. \A c \in Bufs : Owns(p, c)' <=> c = b
      BY <1>1, <2>3 DEF Owns, b
    <2>8. Mine(p, b)
      BY <1>1, <1>2, <1>3, <2>3, <2>5, <2>7 DEF Mine, b
    <2>9. BufInv'
      BY <1>1, <1>2, <1>5, <2>1, <2>4, <2>7, <2>8, StrategyKeeps
    <2> QED BY <2>4, <2>6, <2>9 DEF IInv, BufInv
  <1>6. CASE /\ op[p] = "breada" /\ "DONE" \in flags[b] /\ UNCHANGED <<cache, queue, chan>>
             /\ held' = [held EXCEPT ![p] = b] /\ Goto(p, "ra")
    <2>1. /\ pc' = [pc EXCEPT ![p] = "ra"] /\ cur' = p /\ held' = [held EXCEPT ![p] = b]
          /\ UNCHANGED <<flags, blk, avail, fwanted, queue, chan>>
      BY <1>6 DEF Goto, cache
    <2>2. TypeOK'
      BY <1>1, <2>1 DEF TypeOK, Pcs
    <2>3. OthersKeep(p) /\ pc'[p] = "ra" /\ held'[p] = b
      BY <1>1, <2>1 DEF TypeOK, OthersKeep
    <2>4. LocalInv'
      BY <1>1, <1>6, <2>1, <2>3 DEF LocalInv, Local, OthersKeep
    <2>5. \A q \in Procs, c \in Bufs : Owns(q, c)' <=> Owns(q, c)
      BY <1>1, <2>1, <2>3 DEF OthersKeep, Owns, b
    <2>6. AvailIffNotBusy' /\ OneBufferPerBlock' /\ OwnInv'
      BY <1>1, <2>1, <2>3, <2>5 DEF IInv, AvailIffNotBusy, OneBufferPerBlock, OwnInv, Busy, OthersKeep
    <2>8. QueueInv' /\ AssocInv' /\ NoLostWakeup'
      BY <1>1, <1>2, <1>6, <2>1, <2>3 DEF IInv, QueueInv, AssocInv, NoLostWakeup, Busy, OthersKeep, b
    <2> QED BY <2>2, <2>4, <2>6, <2>8 DEF IInv
  <1> QED BY <1>4, <1>5, <1>6 DEF Got, b

LEMMA GotRaStep ==
    ASSUME IInv, NEW p \in Procs, GotRa(p)
    PROVE  IInv'
  <1> USE BioConstants
  <1> DEFINE b == bp[p]
  <1>1. /\ TypeOK /\ LocalInv /\ b \in Bufs /\ pc[p] = "got" /\ chan[p] = None
        /\ cur \in {None, p} /\ op[p] = "ra" /\ held[p] # b /\ held[p] \in Bufs \cup {None}
        /\ UNCHANGED <<data, errcnt, disk, reg>>
        /\ avail \in Seq(Bufs) /\ IsInjective(avail) /\ IsInjective(queue)
    BY DEF IInv, LocalInv, Local, GotRa, At, OwnInv, TypeOK, AvailIffNotBusy, QueueInv
  <1>2. /\ "BUSY" \in flags[b] /\ "ASYNC" \notin flags[b]
        /\ b \notin ToSet(queue) /\ b \notin ToSet(avail) /\ ToSet(avail) = ToSet(avail) \ {b}
        /\ \A q \in Procs : q # p => ~Owns(q, b)
    BY <1>1, OwnedFacts
  <1>3. \A c \in Bufs : Owns(p, c) <=> c \in {b, held[p]}
    BY <1>1 DEF Owns
  <1> HIDE DEF b
  <1>4. /\ op' = [op EXCEPT ![p] = "bread"] /\ blkno' = blkno /\ cur' = p
        /\ pc' = [pc EXCEPT ![p] = IF held[p] = None THEN "getblk" ELSE "iowait"]
        /\ bp' = [bp EXCEPT ![p] = held[p]] /\ held' = [held EXCEPT ![p] = None]
        /\ rablkno' = [rablkno EXCEPT ![p] = None]
    BY DEF GotRa, AfterRa, Goto
  <1>5. /\ pc' \in [Procs -> Pcs] /\ op' \in [Procs -> Ops] /\ bp' \in [Procs -> Bufs \cup {None}]
        /\ held' \in [Procs -> Bufs \cup {None}] /\ rablkno' \in [Procs -> Blocks \cup {None}]
        /\ blkno' \in [Procs -> Blocks \cup {NODEV, None}]
        /\ pc'[p] = IF held[p] = None THEN "getblk" ELSE "iowait"
        /\ bp'[p] = held[p] /\ held'[p] = None /\ op'[p] = "bread" /\ cur' \in Procs \cup {None}
    BY <1>1, <1>4 DEF TypeOK, Pcs, Ops
  <1>6. OthersKeep(p)
    BY <1>1, <1>4 DEF TypeOK, OthersKeep
  <1>7. \A c \in Bufs : Owns(p, c)' <=> c = held[p]
    BY <1>1, <1>5 DEF Owns
  <1>8. Mine(p, b)
    BY <1>1, <1>2, <1>3, <1>5, <1>6, <1>7 DEF Mine
  <1>9. ASSUME \A q \in Procs : chan'[q] \in {chan[q], None}
        PROVE  LocalInv'
    <2>1. blkno[p] \in Blocks
      BY <1>1 DEF IInv, LocalInv, Local
    <2> QED BY <1>1, <1>4, <1>5, <1>6, <1>9, <2>1 DEF LocalInv, Local, OthersKeep
  <1>10. CASE "DONE" \in flags[b] /\ Brelse(b, flags[b], avail) /\ queue' = queue
    <2>1. flags[b] \in SUBSET Flags
      BY <1>1 DEF TypeOK
    <2>2. Released(b, flags[b], avail)
      BY <1>1, <1>2, <1>10, <2>1, BrelseEffect
    <2>3. TypeOK' /\ LocalInv'
      BY <1>1, <1>5, <1>9, <1>10, <2>2 DEF TypeOK, Released, OnlyBuf
    <2>4. "DELWRI" \in flags[b] => "DONE" \in flags[b] /\ "ERROR" \notin flags[b] /\ blk[b] \in Blocks
      BY <1>1 DEF IInv, AssocInv
    <2>5. BufInv'
      BY <1>1, <1>2, <1>7, <1>8, <1>10, <2>1, <2>2, <2>3, <2>4, ReleasedKeeps
    <2> QED BY <2>3, <2>5 DEF IInv, BufInv
  <1>11. CASE "DONE" \notin flags[b] /\ Strategy(b, flags[b] \cup {"READ", "ASYNC"}, avail)
    <2> DEFINE f == flags[b] \cup {"READ", "ASYNC"}
    <2>1. /\ f \in SUBSET Flags
          /\ "BUSY" \in f /\ "DONE" \notin f /\ "ASYNC" \in f /\ "DELWRI" \notin f
          /\ blk[b] \in Blocks
          /\ ("WANTED" \in flags[b] => "WANTED" \in f)
      BY <1>1, <1>2, <1>11 DEF TypeOK, Flags, IInv, AssocInv, b
    <2>2. CacheTypes
      BY <1>1, <1>2, <1>11, <2>1, StrategyTypes
    <2>3. TypeOK' /\ LocalInv'
      BY <1>1, <1>5, <1>9, <2>2 DEF TypeOK, CacheTypes
    <2>4. BufInv'
      BY <1>1, <1>2, <1>7, <1>8, <1>11, <2>1, <2>3, StrategyKeeps
    <2> QED BY <2>3, <2>4 DEF IInv, BufInv
  <1> QED BY <1>10, <1>11 DEF GotRa, b

(* The flags bwrite hands to the strategy routine. *)
LEMMA WriteFlags ==
    ASSUME NEW g \in SUBSET Flags, "BUSY" \in g
    PROVE  LET f == g \ {"READ", "DONE", "ERROR", "DELWRI", "AGE"} IN
           /\ f \in SUBSET Flags
           /\ "BUSY" \in f /\ "DONE" \notin f /\ "DELWRI" \notin f
           /\ ("WANTED" \in g <=> "WANTED" \in f) /\ ("ASYNC" \in g <=> "ASYNC" \in f)
  OBVIOUS

LEMMA BwriteStep ==
    ASSUME IInv, NEW p \in Procs, Bwrite(p)
    PROVE  IInv'
  <1> USE BioConstants
  <1> DEFINE b == bp[p]
             f == flags[b] \ {"READ", "DONE", "ERROR", "DELWRI", "AGE"}
  <1>1. /\ TypeOK /\ LocalInv /\ b \in Bufs /\ pc[p] = "hold" /\ chan[p] = None
        /\ cur \in {None, p} /\ held[p] = None /\ blk[b] \in Blocks
        /\ UNCHANGED <<errcnt, disk, blkno, rablkno, bp, held, reg>>
        /\ op' = [op EXCEPT ![p] = "bwrite"] /\ pc' = [pc EXCEPT ![p] = "iowait"] /\ cur' = p
        /\ avail \in Seq(Bufs) /\ IsInjective(avail) /\ IsInjective(queue)
        /\ flags[b] \in SUBSET Flags
    <2>1. TypeOK /\ LocalInv /\ IsInjective(avail) /\ IsInjective(queue)
      BY DEF IInv, AvailIffNotBusy, QueueInv
    <2>2. pc[p] = "hold" /\ chan[p] = None /\ cur \in {None, p}
      BY DEF Bwrite, At
    <2>3. b \in Bufs /\ held[p] = None
      BY <2>1, <2>2 DEF LocalInv, Local
    <2>4. blk[b] \in Blocks /\ flags[b] \in SUBSET Flags /\ avail \in Seq(Bufs)
      BY <2>1, <2>3 DEF Bwrite, Writable, TypeOK
    <2>5. /\ UNCHANGED <<errcnt, disk, blkno, rablkno, bp, held, reg>>
          /\ op' = [op EXCEPT ![p] = "bwrite"] /\ pc' = [pc EXCEPT ![p] = "iowait"] /\ cur' = p
      BY DEF Bwrite, Goto
    <2> QED BY <2>1, <2>2, <2>3, <2>4, <2>5
  <1>2. /\ "BUSY" \in flags[b] /\ "ASYNC" \notin flags[b]
        /\ b \notin ToSet(queue) /\ b \notin ToSet(avail) /\ ToSet(avail) = ToSet(avail) \ {b}
        /\ \A q \in Procs : q # p => ~Owns(q, b)
    BY <1>1, OwnedFacts
  <1>3. Strategy(b, f, avail) /\ data' \in [Bufs -> Vals]
    BY <1>1 DEF Bwrite, StartWrite, TypeOK
  <1>4. /\ f \in SUBSET Flags
        /\ "BUSY" \in f /\ "DONE" \notin f /\ "DELWRI" \notin f /\ "ASYNC" \notin f
        /\ ("WANTED" \in flags[b] => "WANTED" \in f)
    BY <1>1, <1>2, WriteFlags
  <1> HIDE DEF f
  <1>5. CacheTypes
    BY <1>1, <1>2, <1>3, <1>4, StrategyTypes
  <1>6. pc'[p] = "iowait" /\ op'[p] = "bwrite" /\ OthersKeep(p)
    BY <1>1 DEF TypeOK, OthersKeep
  <1>7. \A c \in Bufs : (Owns(p, c)' <=> c = b) /\ (Owns(p, c) <=> c = b)
    BY <1>1, <1>6 DEF Owns
  <1>8. bp'[p] = b
    BY <1>1
  <1> HIDE DEF b
  <1>9. TypeOK'
    BY <1>1, <1>3, <1>5 DEF TypeOK, CacheTypes, Pcs, Ops
  <1>10. LocalInv'
    BY <1>1, <1>5, <1>6 DEF LocalInv, Local, OthersKeep, CacheTypes, b
  <1>11. Mine(p, b)
    BY <1>1, <1>2, <1>6, <1>7, <1>8 DEF Mine
  <1>12. BufInv'
    BY <1>1, <1>2, <1>3, <1>4, <1>7, <1>9, <1>11, StrategyKeeps
  <1> QED BY <1>9, <1>10, <1>12 DEF IInv, BufInv

LEMMA BawriteStep ==
    ASSUME IInv, NEW p \in Procs, Bawrite(p)
    PROVE  IInv'
  <1> USE BioConstants
  <1> DEFINE b == bp[p]
             g == flags[b] \cup {"ASYNC"}
             f == g \ {"READ", "DONE", "ERROR", "DELWRI", "AGE"}
  <1>1. /\ TypeOK /\ LocalInv /\ b \in Bufs /\ pc[p] = "hold" /\ chan[p] = None
        /\ cur \in {None, p} /\ held[p] = None /\ blk[b] \in Blocks
        /\ UNCHANGED <<errcnt, disk, held, reg>>
        /\ avail \in Seq(Bufs) /\ IsInjective(avail) /\ IsInjective(queue)
        /\ g \in SUBSET Flags /\ op[p] \in {"bread", "getblk"}
    BY DEF IInv, LocalInv, Local, Bawrite, At, Writable, TypeOK, AvailIffNotBusy, QueueInv, Flags
  <1>2. /\ "BUSY" \in flags[b] /\ "ASYNC" \notin flags[b]
        /\ b \notin ToSet(queue) /\ b \notin ToSet(avail) /\ ToSet(avail) = ToSet(avail) \ {b}
        /\ \A q \in Procs : q # p => ~Owns(q, b)
    BY <1>1, OwnedFacts
  <1>3. Strategy(b, f, avail) /\ data' \in [Bufs -> Vals]
    BY <1>1 DEF Bawrite, StartWrite, TypeOK
  <1>4. /\ f \in SUBSET Flags
        /\ "BUSY" \in f /\ "DONE" \notin f /\ "DELWRI" \notin f /\ "ASYNC" \in f
        /\ ("WANTED" \in flags[b] => "WANTED" \in f)
    BY <1>1, <1>2, WriteFlags
  <1> HIDE DEF f, g
  <1>5. CacheTypes
    BY <1>1, <1>2, <1>3, <1>4, StrategyTypes
  <1>6. \/ /\ pc' = [pc EXCEPT ![p] = "age"] /\ cur' = p
           /\ op' = [op EXCEPT ![p] = "bawrite"] /\ UNCHANGED <<blkno, rablkno, bp>>
        \/ Return(p)
    BY DEF Bawrite, Goto
  <1>7. CASE Return(p)
    <2>1. /\ pc' \in [Procs -> Pcs] /\ cur' \in Procs \cup {None}
          /\ op' \in [Procs -> Ops] /\ bp' \in [Procs -> Bufs \cup {None}]
          /\ blkno' \in [Procs -> Blocks \cup {NODEV, None}]
          /\ rablkno' \in [Procs -> Blocks \cup {None}]
          /\ pc'[p] = "user" /\ held[p] = None
          /\ OthersKeep(p) /\ LocalInv'
      BY <1>1, <1>5, <1>7, ReturnFacts DEF CacheTypes
    <2>2. TypeOK'
      BY <1>1, <1>3, <1>5, <2>1 DEF TypeOK, CacheTypes
    <2>3. \A c \in Bufs : ~Owns(p, c)' /\ (Owns(p, c) <=> c = b)
      BY <1>1, <2>1 DEF Owns
    <2> HIDE DEF b
    <2>4. Mine(p, b)
      BY <1>1, <1>2, <2>1, <2>3 DEF Mine
    <2>5. BufInv'
      BY <1>1, <1>2, <1>3, <1>4, <2>2, <2>3, <2>4, StrategyKeeps
    <2> QED BY <2>1, <2>2, <2>5 DEF IInv, BufInv
  <1>8. CASE /\ pc' = [pc EXCEPT ![p] = "age"] /\ cur' = p
             /\ op' = [op EXCEPT ![p] = "bawrite"] /\ UNCHANGED <<blkno, rablkno, bp>>
    <2>1. pc'[p] = "age" /\ op'[p] = "bawrite" /\ OthersKeep(p)
      BY <1>1, <1>8 DEF TypeOK, OthersKeep
    <2>2. TypeOK'
      BY <1>1, <1>3, <1>5, <1>8 DEF TypeOK, CacheTypes, Pcs, Ops
    <2>3. \A c \in Bufs : ~Owns(p, c)' /\ (Owns(p, c) <=> c = b)
      BY <1>1, <2>1 DEF Owns
    <2>4. LocalInv'
      BY <1>1, <1>5, <1>8, <2>1 DEF LocalInv, Local, OthersKeep, CacheTypes
    <2> HIDE DEF b
    <2>5. Mine(p, b)
      BY <1>1, <1>2, <2>1, <2>3 DEF Mine
    <2>6. BufInv'
      BY <1>1, <1>2, <1>3, <1>4, <2>2, <2>3, <2>5, StrategyKeeps
    <2> QED BY <2>2, <2>4, <2>6 DEF IInv, BufInv
  <1> QED BY <1>6, <1>7, <1>8

(* getblk and bflush start the delayed write of a buffer they take from the *)
(* available list, and go on to age it.                                     *)
LEMMA PushOut ==
    ASSUME IInv, NEW p \in Procs, chan[p] = None, cur \in {None, p},
           pc[p] \in {"getblk", "bflush"},
           NEW b \in ToSet(avail), "DELWRI" \in flags[b],
           NEW av \in Seq(Bufs), IsInjective(av), ToSet(av) = ToSet(avail) \ {b},
           StartWrite(b, flags[b] \cup {"BUSY", "ASYNC"}, av),
           pc' = [pc EXCEPT ![p] = "age"], cur' = p, bp' = [bp EXCEPT ![p] = b],
           UNCHANGED <<data, errcnt, disk, op, blkno, rablkno, held, reg>>,
           pc[p] = "bflush" => op[p] = "bflush"
    PROVE  IInv'
  <1> USE BioConstants
  <1> DEFINE g == flags[b] \cup {"BUSY", "ASYNC"}
             f == g \ {"READ", "DONE", "ERROR", "DELWRI", "AGE"}
  <1>1. /\ TypeOK /\ LocalInv /\ b \in Bufs /\ IsInjective(queue)
    BY DEF IInv, TypeOK, ToSet, QueueInv
  <1>2. /\ "BUSY" \notin flags[b] /\ blk[b] \in Blocks /\ b \notin ToSet(av) /\ b \notin ToSet(queue)
        /\ \A q \in Procs : ~Owns(q, b)
    BY <1>1 DEF IInv, AvailIffNotBusy, AssocInv, QueueInv, OwnInv, Busy
  <1>3. /\ f \in SUBSET Flags
        /\ "BUSY" \in f /\ "DONE" \notin f /\ "DELWRI" \notin f /\ "ASYNC" \in f
        /\ ("WANTED" \in flags[b] => "WANTED" \in f)
    <2>1. g \in SUBSET Flags /\ "BUSY" \in g
      BY <1>1 DEF TypeOK, Flags
    <2> QED BY <2>1, WriteFlags
  <1>4. Strategy(b, f, av)
    BY DEF StartWrite
  <1> HIDE DEF f, g
  <1>5. CacheTypes
    BY <1>1, <1>2, <1>3, <1>4, StrategyTypes
  <1>6. pc'[p] = "age" /\ bp'[p] = b /\ OthersKeep(p)
    BY <1>1 DEF TypeOK, OthersKeep
  <1>7. TypeOK'
    BY <1>1, <1>5 DEF TypeOK, CacheTypes, Pcs
  <1>8. LocalInv'
    <2>1. op[p] \in {"bread", "breada", "ra", "getblk", "geteblk", "bawrite", "bflush"}
      BY <1>1 DEF LocalInv, Local
    <2>2. ASSUME NEW q \in Procs, q # p PROVE Local(q)'
      <3>1. /\ pc'[q] = pc[q] /\ op'[q] = op[q] /\ bp'[q] = bp[q] /\ held'[q] = held[q]
            /\ blkno'[q] = blkno[q] /\ rablkno'[q] = rablkno[q] /\ chan'[q] \in {chan[q], None}
        BY <1>5, <1>6, <2>2 DEF OthersKeep, CacheTypes
      <3>2. Local(q) /\ cur # q
        BY <1>1, <2>2 DEF LocalInv
      <3> HIDE BioConstants
      <3> QED BY <3>1, <3>2 DEF Local
    <2>3. Local(p)'
      <3>1. chan'[p] = None /\ UNCHANGED <<op, blkno, rablkno, held>>
        BY <1>5 DEF CacheTypes
      <3>2. held[p] # None => op[p] = "ra"
        BY <1>1 DEF LocalInv, Local
      <3> QED BY <1>1, <1>6, <2>1, <3>1, <3>2 DEF LocalInv, Local
    <2> QED BY <2>2, <2>3 DEF LocalInv
  <1>9. \A c \in Bufs : Owns(p, c)' <=> Owns(p, c)
    BY <1>6 DEF Owns
  <1>10. Mine(p, b) /\ ~Owns(p, b)' /\ avail # << >>
    BY <1>1, <1>2, <1>6, <1>9 DEF Mine, ToSet
  <1>11. BufInv'
    BY <1>1, <1>2, <1>3, <1>4, <1>7, <1>10, StrategyKeeps
  <1> QED BY <1>7, <1>8, <1>11 DEF IInv, BufInv

LEMMA BflushStep ==
    ASSUME IInv, NEW p \in Procs, Bflush(p)
    PROVE  IInv'
  <1> USE BioConstants
  <1>1. /\ TypeOK /\ LocalInv /\ pc[p] = "bflush" /\ chan[p] = None /\ cur \in {None, p}
        /\ UNCHANGED <<data, errcnt, disk, held, reg>> /\ op[p] = "bflush"
        /\ IsInjective(avail) /\ avail \in Seq(Bufs)
    BY DEF IInv, LocalInv, Local, Bflush, At, AvailIffNotBusy, TypeOK
  <1>2. ASSUME NEW i \in DOMAIN avail,
               "DELWRI" \in flags[avail[i]],
               StartWrite(avail[i], flags[avail[i]] \cup {"BUSY", "ASYNC"}, Unlink(avail[i])),
               bp' = [bp EXCEPT ![p] = avail[i]], Goto(p, "age"), UNCHANGED <<op, blkno, rablkno>>
        PROVE  IInv'
    <2>1. avail[i] \in ToSet(avail) /\ avail[i] \in Bufs
      BY <1>1 DEF ToSet
    <2>2. Unlink(avail[i]) \in Seq(Bufs) /\ IsInjective(Unlink(avail[i]))
          /\ ToSet(Unlink(avail[i])) = ToSet(avail) \ {avail[i]}
      BY <1>1, <2>1, UnlinkFacts
    <2> QED BY <1>1, <1>2, <2>1, <2>2, PushOut DEF Goto
  <1>3. CASE Return(p) /\ UNCHANGED <<cache, queue, chan>>
    <2>1. UNCHANGED <<flags, blk, avail, fwanted, queue, chan>>
      BY <1>3 DEF cache
    <2>2. /\ pc' \in [Procs -> Pcs] /\ cur' \in Procs \cup {None}
          /\ op' \in [Procs -> Ops] /\ bp' \in [Procs -> Bufs \cup {None}]
          /\ blkno' \in [Procs -> Blocks \cup {NODEV, None}]
          /\ rablkno' \in [Procs -> Blocks \cup {None}]
          /\ pc'[p] = "user" /\ held[p] = None
          /\ OthersKeep(p) /\ LocalInv'
      BY <1>1, <1>3, <2>1, ReturnFacts
    <2>3. TypeOK'
      BY <1>1, <2>1, <2>2 DEF TypeOK
    <2>4. AvailIffNotBusy' /\ OneBufferPerBlock' /\ OwnInv' /\ QueueInv' /\ NoLostWakeup'
      BY <1>1, <2>1, <2>2, QuietStep
    <2>5. AssocInv'
      BY <1>1, <2>1, <2>2 DEF IInv, AssocInv, Busy, OthersKeep
    <2> QED BY <2>2, <2>3, <2>4, <2>5 DEF IInv
  <1> QED BY <1>2, <1>3 DEF Bflush

LEMMA TakeStep ==
    ASSUME IInv, NEW p \in Procs, Take(p)
    PROVE  IInv'
  <1> USE BioConstants
  <1>1. /\ TypeOK /\ LocalInv /\ pc[p] = "getblk" /\ chan[p] = None /\ cur \in {None, p}
        /\ UNCHANGED <<data, errcnt, disk, op, blkno, rablkno, held, reg>>
        /\ op[p] \in {"bread", "breada", "ra", "getblk", "geteblk"}
        /\ IsInjective(avail) /\ avail \in Seq(Bufs)
    BY DEF IInv, LocalInv, Local, Take, At, AvailIffNotBusy, TypeOK
  <1>2. CASE avail = << >>
    <2>1. /\ fwanted' = TRUE /\ chan' = [chan EXCEPT ![p] = BFreeList] /\ cur' = None
          /\ pc' = [pc EXCEPT ![p] = "getblk"] /\ UNCHANGED <<flags, blk, avail, queue, bp>>
      BY <1>2 DEF Take, Sleep
    <2>2. pc' = pc
      BY <1>1, <2>1 DEF TypeOK
    <2>3. TypeOK'
      BY <1>1, <2>1, <2>2 DEF TypeOK
    <2>4. LocalInv'
      BY <1>1, <2>1, <2>2 DEF LocalInv, Local, TypeOK
    <2>5. AvailIffNotBusy' /\ OneBufferPerBlock' /\ OwnInv' /\ QueueInv' /\ AssocInv'
      BY <1>1, <2>1, <2>2 DEF IInv, AvailIffNotBusy, OneBufferPerBlock, OwnInv, Owns, QueueInv, AssocInv, Busy
    <2>6. NoLostWakeup'
      BY <1>1, <1>2, <2>1, <2>2 DEF IInv, NoLostWakeup, TypeOK
    <2> QED BY <2>3, <2>4, <2>5, <2>6 DEF IInv
  <1>3. CASE avail # << >>
    <2> DEFINE b == Head(avail)
    <2>1. /\ Tail(avail) \in Seq(Bufs) /\ b \in Bufs /\ b \in ToSet(avail)
          /\ IsInjective(Tail(avail)) /\ ToSet(Tail(avail)) = ToSet(avail) \ {b}
      BY <1>1, <1>3, TailFacts
    <2>2. bp' = [bp EXCEPT ![p] = b]
      BY <1>3 DEF Take
    <2>3. CASE "DELWRI" \in flags[b]
      <3>1. StartWrite(b, flags[b] \cup {"BUSY", "ASYNC"}, Tail(avail))
            /\ pc' = [pc EXCEPT ![p] = "age"] /\ cur' = p
        BY <1>3, <2>3 DEF Take, IsDelayed, Goto
      <3> QED BY <1>1, <2>1, <2>2, <2>3, <3>1, PushOut
    <2>4. CASE "DELWRI" \notin flags[b]
      <3>1. /\ flags' = [flags EXCEPT ![b] = {"BUSY"}] /\ blk' = [blk EXCEPT ![b] = Want(p)]
            /\ avail' = Tail(avail) /\ pc' = [pc EXCEPT ![p] = "got"] /\ cur' = p
            /\ UNCHANGED <<fwanted, queue, chan>>
        BY <1>3, <2>4 DEF Take, IsDelayed, Goto
      <3>2. /\ Want(p) \in Blocks \cup {NODEV} /\ (op[p] # "geteblk" => Want(p) \in Blocks)
            /\ (Want(p) = NODEV \/ \A c \in Bufs : blk[c] # Want(p))
        BY <1>1 DEF Take, Incore, Want, LocalInv, Local
      <3> HIDE DEF b
      <3>3. TypeOK'
        BY <1>1, <2>1, <2>2, <3>1, <3>2 DEF TypeOK, Pcs, Flags
      <3>4. OthersKeep(p) /\ pc'[p] = "got" /\ bp'[p] = b /\ held'[p] = held[p] /\ op'[p] = op[p]
        BY <1>1, <2>2, <3>1 DEF TypeOK, OthersKeep
      <3>5. LocalInv'
        BY <1>1, <2>1, <3>1, <3>4 DEF LocalInv, Local, OthersKeep
      <3>6. /\ \A c \in Bufs : c # b => flags'[c] = flags[c] /\ blk'[c] = blk[c]
            /\ flags'[b] = {"BUSY"} /\ blk'[b] = Want(p)
        BY <1>1, <2>1, <3>1 DEF TypeOK
      <3>7. /\ "BUSY" \in flags'[b] /\ "ASYNC" \notin flags'[b]
            /\ "DELWRI" \notin flags'[b] /\ "ERROR" \notin flags'[b]
            /\ (op'[p] # "geteblk" => blk'[b] \in Blocks)
            /\ (blk'[b] = NODEV \/ \A c \in Bufs : blk[c] # blk'[b])
        BY <3>2, <3>4, <3>6
      <3>8. ToSet(avail') = ToSet(avail) \ {b} /\ IsInjective(avail')
        BY <2>1, <3>1
      <3>9. BufInv'
        BY <1>1, <2>1, <3>1, <3>3, <3>4, <3>6, <3>7, <3>8, TakenKeeps
      <3> QED BY <3>3, <3>5, <3>9 DEF IInv, BufInv
    <2> QED BY <2>3, <2>4
  <1> QED BY <1>2, <1>3

-----------------------------------------------------------------------------
(* The disk interrupt ends the transfer at the head of the queue, whatever  *)
(* the processes are doing, and moves none of them.                         *)
LEMMA InterruptKeeps ==
    ASSUME IInv, queue # << >>, queue' = Tail(queue),
           NEW f, f \in {flags[Head(queue)], flags[Head(queue)] \cup {"ERROR"}},
           Iodone(Head(queue), f, avail),
           data' \in [Bufs -> Vals], disk' \in [Blocks -> Vals], errcnt' \in 0..MaxRetry,
           UNCHANGED <<cur, pc, op, blkno, rablkno, bp, held, reg>>
    PROVE  IInv'
  <1> USE BioConstants
  <1>1. PICK b \in Bufs : /\ b = Head(queue) /\ b \in ToSet(queue)
                          /\ queue' \in Seq(Bufs) /\ IsInjective(queue')
                          /\ ToSet(queue') = ToSet(queue) \ {b}
    <2>1. queue \in Seq(Bufs) /\ IsInjective(queue)
      BY DEF IInv, TypeOK, QueueInv
    <2> QED BY <2>1, TailFacts
  <1>2. /\ TypeOK /\ LocalInv /\ OwnInv /\ QueueInv
        /\ avail \in Seq(Bufs) /\ IsInjective(avail)
    BY DEF IInv, TypeOK, AvailIffNotBusy
  <1>a. \A c \in ToSet(queue) : c \in Bufs
    BY <1>2 DEF TypeOK, ToSet
  <1>3. /\ "BUSY" \in flags[b] /\ "DONE" \notin flags[b] /\ "DELWRI" \notin flags[b]
        /\ blk[b] \in Blocks /\ b \notin ToSet(avail)
        /\ \A q \in Procs : pc[q] \in {"got", "hold"} => bp[q] # b
    BY <1>1, <1>2 DEF QueueInv, Busy, IInv, AvailIffNotBusy
  <1>4. /\ f \in SUBSET Flags
        /\ "BUSY" \in f /\ "DONE" \notin f /\ "DELWRI" \notin f
        /\ ("ASYNC" \in f <=> "ASYNC" \in flags[b]) /\ ("WANTED" \in f <=> "WANTED" \in flags[b])
    <2>1. flags[b] \in SUBSET Flags /\ f \in {flags[b], flags[b] \cup {"ERROR"}}
      BY <1>1, <1>2 DEF TypeOK
    <2> QED BY <2>1, <1>3 DEF Flags
  <1>5. Iodone(b, f, avail)
    BY <1>1
  <1>6. \A q \in Procs, c \in Bufs : Owns(q, c)' <=> Owns(q, c)
    BY DEF Owns
  <1>7. ASSUME OnlyBuf(b) PROVE TypeOK' /\ LocalInv'
    <2>1. TypeOK'
      BY <1>1, <1>2, <1>7 DEF TypeOK, OnlyBuf
    <2>2. ASSUME NEW q \in Procs PROVE Local(q)'
      <3>1. Local(q) /\ chan'[q] \in {chan[q], None}
        BY <1>2, <1>7 DEF LocalInv, OnlyBuf
      <3> QED BY <3>1 DEF Local
    <2> QED BY <2>1, <2>2 DEF LocalInv
  <1>8. CASE "ASYNC" \in f
    <2>1. Released(b, f \cup {"DONE"}, avail)
      BY <1>2, <1>3, <1>4, <1>5, <1>8, IodoneEffect
    <2>2. TypeOK' /\ LocalInv'
      BY <1>7, <2>1 DEF Released
    <2>3. /\ "BUSY" \notin flags'[b] /\ "ASYNC" \notin flags'[b] /\ "DELWRI" \notin flags'[b]
          /\ "DONE" \in flags'[b]
          /\ ("ERROR" \in flags'[b] <=> "ERROR" \in f)
          /\ blk'[b] = IF "ERROR" \in f THEN NODEV ELSE blk[b]
          /\ ToSet(avail') = ToSet(avail) \cup {b} /\ IsInjective(avail')
          /\ \A c \in Bufs : c # b => flags'[c] = flags[c] /\ blk'[c] = blk[c]
      BY <1>4, <2>1 DEF Released, OnlyBuf
    <2>4. \A q \in Procs : ~Owns(q, b) /\ held[q] # b /\ (pc[q] = "iowait" => bp[q] # b)
      BY <1>2, <1>4, <1>8 DEF OwnInv, Owns
    <2>5. AvailIffNotBusy' /\ OneBufferPerBlock'
      BY <2>3 DEF IInv, AvailIffNotBusy, OneBufferPerBlock
    <2>6. OwnInv'
      BY <1>2, <1>6, <2>3, <2>4 DEF OwnInv, Busy
    <2>7. QueueInv'
      <3>1. \A c \in ToSet(queue') : c \in Bufs /\ c # b
        BY <1>1, <1>a
      <3>2. \A q \in Procs :
              /\ pc[q] = "iowait" /\ "DONE" \notin flags'[bp[q]] => bp[q] \in ToSet(queue')
              /\ held[q] # None /\ "DONE" \notin flags'[held[q]] => held[q] \in ToSet(queue')
        BY <1>1, <1>2, <2>3, <2>4 DEF QueueInv, LocalInv, Local, TypeOK
      <3> QED BY <1>1, <1>2, <2>3, <3>1, <3>2 DEF QueueInv, Busy
    <2>8. AssocInv'
      <3>1. \A q \in Procs : pc[q] \in {"found", "got", "hold"} => bp[q] \in Bufs
        BY <1>2 DEF LocalInv, Local
      <3> QED BY <1>3, <2>3, <3>1 DEF IInv, AssocInv, Busy
    <2>9. NoLostWakeup'
      <3>1. \A q \in Procs : /\ chan'[q] \in {chan[q], None} /\ chan'[q] # BFreeList
                             /\ chan'[q] \in Bufs => chan'[q] # b
        BY <1>4, <2>1, <2>4 DEF Released, OnlyBuf, IInv, NoLostWakeup
      <3> QED BY <1>1, <2>3, <2>4, <3>1 DEF IInv, NoLostWakeup
    <2> QED BY <2>2, <2>5, <2>6, <2>7, <2>8, <2>9 DEF IInv
  <1>9. CASE "ASYNC" \notin f
    <2>1. Completed(b, f, avail)
      BY <1>2, <1>3, <1>4, <1>5, <1>9, IodoneEffect
    <2>2. TypeOK' /\ LocalInv'
      BY <1>7, <2>1 DEF Completed
    <2>3. /\ "BUSY" \in flags'[b] /\ "ASYNC" \notin flags'[b] /\ "DELWRI" \notin flags'[b]
          /\ "DONE" \in flags'[b]
          /\ blk' = blk /\ avail' = avail /\ fwanted' = fwanted
          /\ \A c \in Bufs : c # b => flags'[c] = flags[c]
      BY <1>4, <1>9, <2>1 DEF Completed, OnlyBuf
    <2>5. AvailIffNotBusy' /\ OneBufferPerBlock'
      BY <1>3, <2>3 DEF IInv, AvailIffNotBusy, OneBufferPerBlock
    <2>6. OwnInv'
      BY <1>2, <1>3, <1>4, <1>6, <1>9, <2>3 DEF OwnInv, Busy
    <2>7. QueueInv'
      <3>1. \A c \in ToSet(queue') : c \in Bufs /\ c # b
        BY <1>1, <1>a
      <3>2. \A q \in Procs :
              /\ pc[q] = "iowait" /\ "DONE" \notin flags'[bp[q]] => bp[q] \in ToSet(queue')
              /\ held[q] # None /\ "DONE" \notin flags'[held[q]] => held[q] \in ToSet(queue')
        <4>1. \A q \in Procs : held[q] \in Bufs \cup {None} /\ (pc[q] = "iowait" => bp[q] \in Bufs)
          BY <1>2 DEF LocalInv, Local, TypeOK
        <4> QED BY <1>1, <1>2, <2>3, <4>1 DEF QueueInv
      <3> QED BY <1>1, <1>2, <2>3, <3>1, <3>2 DEF QueueInv, Busy
    <2>8. AssocInv'
      <3>1. \A q \in Procs : pc[q] \in {"found", "got", "hold"} => bp[q] \in Bufs
        BY <1>2 DEF LocalInv, Local
      <3> QED BY <1>3, <2>3, <3>1 DEF IInv, AssocInv, Busy
    <2>9. NoLostWakeup'
      <3>1. \A q \in Procs : chan'[q] # b /\ (chan'[q] # None => chan'[q] = chan[q])
        BY <2>1 DEF Completed, OnlyBuf
      <3> QED BY <1>1, <2>3, <3>1 DEF IInv, NoLostWakeup
    <2> QED BY <2>2, <2>5, <2>6, <2>7, <2>8, <2>9 DEF IInv
  <1> QED BY <1>8, <1>9

LEMMA RkintrDoneStep ==
    ASSUME IInv, RkintrDone
    PROVE  IInv'
  <1> DEFINE b == Head(queue)
  <1>1. queue # << >> /\ queue \in Seq(Bufs) /\ IsInjective(queue) /\ TypeOK
    BY DEF IInv, QueueInv, TypeOK, RkintrDone
  <1>2. b \in Bufs /\ b \in ToSet(queue)
    BY <1>1, TailFacts
  <1>3. blk[b] \in Blocks
    BY <1>2 DEF IInv, QueueInv
  <1>4. /\ \/ data' = [data EXCEPT ![b] = disk[blk[b]]] /\ disk' = disk
           \/ disk' = [disk EXCEPT ![blk[b]] = data[b]] /\ data' = data
        /\ errcnt' = 0 /\ queue' = Tail(queue) /\ Iodone(b, flags[b], avail)
        /\ UNCHANGED <<cur, pc, op, blkno, rablkno, bp, held, reg>>
    BY DEF RkintrDone, frame
  <1>5. data' \in [Bufs -> Vals] /\ disk' \in [Blocks -> Vals] /\ errcnt' \in 0..MaxRetry
    BY <1>1, <1>2, <1>3, <1>4, BioConstants DEF TypeOK
  <1> QED BY <1>1, <1>4, <1>5, InterruptKeeps

LEMMA RkintrErrorStep ==
    ASSUME IInv, RkintrError
    PROVE  IInv'
  <1> DEFINE b == Head(queue)
  <1>1. TypeOK /\ queue # << >>
        /\ UNCHANGED <<data, disk, cur, pc, op, blkno, rablkno, bp, held, reg>>
    BY DEF IInv, RkintrError, frame
  <1>2. CASE errcnt < MaxRetry
    <2>1. errcnt' \in 0..MaxRetry
      BY <1>1, <1>2, BioConstants DEF TypeOK, RkintrError, Retry
    <2>2. UNCHANGED <<flags, blk, avail, fwanted, queue, chan>>
      BY <1>2 DEF RkintrError, Retry, cache
    <2>3. TypeOK'
      BY <1>1, <2>1, <2>2 DEF TypeOK
    <2>4. LocalInv' /\ AvailIffNotBusy' /\ OneBufferPerBlock' /\ AssocInv' /\ NoLostWakeup'
      BY <1>1, <2>2 DEF IInv, LocalInv, Local, AvailIffNotBusy, OneBufferPerBlock, AssocInv, Busy, NoLostWakeup
    <2>5. OwnInv' /\ QueueInv'
      BY <1>1, <2>2 DEF IInv, OwnInv, Owns, QueueInv, Busy
    <2> QED BY <2>3, <2>4, <2>5 DEF IInv
  <1>3. CASE ~(errcnt < MaxRetry)
    <2>1. errcnt' = 0 /\ queue' = Tail(queue) /\ Iodone(b, flags[b] \cup {"ERROR"}, avail)
      BY <1>3 DEF RkintrError, Retry
    <2>2. data' \in [Bufs -> Vals] /\ disk' \in [Blocks -> Vals] /\ errcnt' \in 0..MaxRetry
      BY <1>1, <2>1, BioConstants DEF TypeOK
    <2> QED BY <1>1, <2>1, <2>2, InterruptKeeps
  <1> QED BY <1>2, <1>3

-----------------------------------------------------------------------------
(* What binit leaves satisfies the inductive invariant. *)
LEMMA InitIInv ==
    Init => IInv
  <1> USE BioConstants
  <1> SUFFICES ASSUME Init PROVE IInv
    OBVIOUS
  <1>1. TypeOK
    <2>1. /\ flags \in [Bufs -> SUBSET Flags] /\ blk \in [Bufs -> Blocks \cup {NODEV}]
          /\ data \in [Bufs -> Vals] /\ disk \in [Blocks -> Vals]
      BY DEF Init
    <2>2. avail \in Seq(Bufs)
      BY DEF Init
    <2>6. queue \in Seq(Bufs)
      <3>1. queue = << >>
        BY DEF Init
      <3> HIDE BioConstants
      <3> QED BY <3>1
    <2>7. fwanted \in BOOLEAN /\ cur \in Procs \cup {None}
      BY DEF Init
    <2>5. errcnt \in 0..MaxRetry
      BY DEF Init
    <2>3. pc \in [Procs -> Pcs] /\ op \in [Procs -> Ops]
      BY DEF Init, Pcs, Ops
    <2>4. /\ chan \in [Procs -> Bufs \cup {BFreeList, None}]
          /\ blkno \in [Procs -> Blocks \cup {NODEV, None}]
          /\ rablkno \in [Procs -> Blocks \cup {None}]
          /\ bp \in [Procs -> Bufs \cup {None}] /\ held \in [Procs -> Bufs \cup {None}]
          /\ reg \in [Procs -> SUBSET Flags]
      BY DEF Init
    <2> QED BY <2>1, <2>2, <2>3, <2>4, <2>5, <2>6, <2>7 DEF TypeOK
  <1>2. \A p \in Procs : pc[p] = "user" /\ op[p] = "none" /\ chan[p] = None /\ held[p] = None
    BY DEF Init
  <1>3. \A b \in Bufs : flags[b] = {} /\ blk[b] = NODEV
    BY DEF Init
  <1>4. ToSet(queue) = {} /\ IsInjective(queue)
    BY DEF Init, ToSet, IsInjective
  <1>5. IsInjective(avail) /\ ToSet(avail) = Bufs
    BY DEF Init
  <1>6. LocalInv
    BY <1>2 DEF LocalInv, Local
  <1>7. AvailIffNotBusy /\ OneBufferPerBlock /\ AssocInv
    BY <1>2, <1>3, <1>5 DEF AvailIffNotBusy, OneBufferPerBlock, AssocInv, Busy
  <1>8. OwnInv /\ QueueInv
    BY <1>2, <1>3, <1>4 DEF OwnInv, Owns, QueueInv, Busy
  <1>9. NoLostWakeup
    BY <1>2 DEF NoLostWakeup
  <1> QED BY <1>1, <1>6, <1>7, <1>8, <1>9 DEF IInv

(* One step of the system, whoever takes it, preserves the invariant. *)
LEMMA NextIInv ==
    ASSUME SplitAge = FALSE, IInv, [Next]_vars
    PROVE  IInv'
  <1>1. CASE UNCHANGED vars
    BY <1>1 DEF vars, IInv, TypeOK, LocalInv, Local, AvailIffNotBusy, OneBufferPerBlock, OwnInv,
                Owns, QueueInv, AssocInv, Busy, NoLostWakeup
  <1>2. CASE RkintrDone
    BY <1>2, RkintrDoneStep
  <1>3. CASE RkintrError
    BY <1>3, RkintrErrorStep
  <1>4. ASSUME NEW p \in Procs, Step(p) PROVE IInv'
    <2>1. ~AgeLoad(p)
      BY DEF AgeLoad
    <2>2. ~AgeStore(p)
      BY DEF AgeStore, At, IInv, LocalInv, Local
    <2> QED BY <1>4, <2>1, <2>2, CallStep, BreadaStep, SearchStep, FoundStep, TakeStep, GotStep,
               RaStep, GotRaStep, IowaitStep, ReleaseStep, BdwriteStep, BwriteStep,
               BawriteStep, BflushStep, AgeStep DEF Step
  <1> QED BY <1>1, <1>2, <1>3, <1>4 DEF Next

(* A busy buffer's only owner, from who owns it and what the driver has. *)
LEMMA OwnersFromIInv ==
    IInv => BusyHasOneOwner
  <1> SUFFICES ASSUME IInv PROVE BusyHasOneOwner
    OBVIOUS
  <1>1. IsInjective(queue)
    BY DEF IInv, QueueInv
  <1>2. ASSUME NEW b \in Bufs, b \in ToSet(queue)
        PROVE  {"BUSY"} = flags[b] \cap {"BUSY", "DONE", "DELWRI"}
    BY <1>2 DEF IInv, QueueInv, Busy
  <1>3. ASSUME NEW b \in Bufs, "BUSY" \in flags[b], "ASYNC" \in flags[b]
        PROVE  b \in ToSet(queue) /\ \A p \in Procs : ~Owns(p, b)
    BY <1>3 DEF IInv, QueueInv, OwnInv
  <1>4. ASSUME NEW b \in Bufs, "BUSY" \in flags[b], "ASYNC" \notin flags[b]
        PROVE  \E p \in Procs : Owns(p, b) /\ \A q \in Procs \ {p} : ~Owns(q, b)
    <2>1. PICK p \in Procs : Owns(p, b)
      BY <1>4 DEF IInv, OwnInv, Busy
    <2>2. \A q \in Procs \ {p} : ~Owns(q, b)
      BY <2>1 DEF IInv, OwnInv
    <2> QED BY <2>1, <2>2
  <1>5. ASSUME NEW b \in Bufs, "BUSY" \notin flags[b]
        PROVE  \A p \in Procs : ~Owns(p, b)
    BY <1>5 DEF IInv, OwnInv, Busy
  <1> QED BY <1>1, <1>2, <1>3, <1>4, <1>5 DEF BusyHasOneOwner

-----------------------------------------------------------------------------
(* If "b_flags |= B_AGE" of bwrite cannot be torn apart by an interrupt,    *)
(* every state of the buffer cache satisfies the inductive invariant, on a  *)
(* disk that may fail and with any mix of callers.                          *)
THEOREM InductiveInvariant ==
    ASSUME SplitAge = FALSE
    PROVE  Spec => []IInv
  <1>1. IInv /\ [Next]_vars => IInv'
    BY NextIInv
  <1> QED BY InitIInv, <1>1, PTL DEF Spec

(* The data structures of the cache keep their shapes: the available list   *)
(* and the driver's queue only ever hold buffers of the pool, and the       *)
(* retry counter of rkintr stays within its bound.                          *)
THEOREM TypeCorrect ==
    ASSUME SplitAge = FALSE
    PROVE  Spec => []TypeOK
  <1>1. IInv => TypeOK
    BY DEF IInv
  <1> QED BY InductiveInvariant, <1>1, PTL

(* buf.h: a buffer is on the available list, once, if and only if it is not *)
(* marked BUSY, whatever getblk, brelse, bflush and the interrupt do.       *)
THEOREM AvailableListCorrect ==
    ASSUME SplitAge = FALSE
    PROVE  Spec => []AvailIffNotBusy
  <1>1. IInv => AvailIffNotBusy
    BY DEF IInv
  <1> QED BY InductiveInvariant, <1>1, PTL

(* getblk never makes two buffers stand for one block, although it may      *)
(* sleep, or start a delayed write, between its search and its assignment.  *)
THEOREM NoDuplicateBlocks ==
    ASSUME SplitAge = FALSE
    PROVE  Spec => []OneBufferPerBlock
  <1>1. IInv => OneBufferPerBlock
    BY DEF IInv
  <1> QED BY InductiveInvariant, <1>1, PTL

(* Every buffer marked BUSY has exactly one party that will release it: the *)
(* process that got it from getblk, or iodone for an asynchronous transfer. *)
THEOREM BusyBuffersAreOwned ==
    ASSUME SplitAge = FALSE
    PROVE  Spec => []BusyHasOneOwner
  <1> QED BY InductiveInvariant, OwnersFromIInv, PTL

(* No wakeup of the buffer cache is lost: who sleeps in iowait or getblk    *)
(* sleeps on something that has still to happen and that will wake it.      *)
THEOREM WakeupsNotLost ==
    ASSUME SplitAge = FALSE
    PROVE  Spec => []NoLostWakeup
  <1>1. IInv => NoLostWakeup
    BY DEF IInv
  <1> QED BY InductiveInvariant, <1>1, PTL

-----------------------------------------------------------------------------
(***************************************************************************)
(* What the buffer cache does with the contents of blocks, for any number   *)
(* of processes, buffers and blocks, when "b_flags |= B_AGE" is indivisible: *)
(* a delayed write is not thrown away, a clean buffer is what the disk has, *)
(* and, on a disk that does not fail, Bio implements BlockStore.            *)
(***************************************************************************)

(* The flags that say what a buffer's contents are.                         *)
Mark(f) == f \cap {"READ", "DONE", "ERROR", "DELWRI"}

(* A step leaves buffer b as it is, as far as contents go.                  *)
Same(b) ==
    /\ Mark(flags'[b]) = Mark(flags[b])
    /\ blk'[b] = blk[b] /\ data'[b] = data[b]
    /\ b \in ToSet(queue') <=> b \in ToSet(queue)

Alone(b) == \A c \in Bufs : c # b => Same(c)

(* b leaves or stays outside the queue in the hands of processes.           *)
NotQueued(b) == b \notin ToSet(queue) /\ b \notin ToSet(queue')

(* Nothing happens to contents.                                             *)
Nothing == disk' = disk /\ \A b \in Bufs : Same(b)

(* brelse by the owner, after a copyin that may have failed.                *)
GivenUp(b) ==
    /\ Alone(b) /\ disk' = disk /\ NotQueued(b)
    /\ Mark(flags'[b]) = Mark(flags[b])
    /\ blk'[b] = IF "ERROR" \in flags[b] THEN NODEV ELSE blk[b]
    /\ "BUSY" \notin flags'[b]
    /\ data'[b] = data[b] \/ UserFaults

(* getblk gives the buffer to block n.                                      *)
Reused(b, n) ==
    /\ Alone(b) /\ disk' = disk /\ NotQueued(b)
    /\ "BUSY" \notin flags[b] /\ "DELWRI" \notin flags[b] /\ Mark(flags'[b]) = {}
    /\ blk'[b] = n /\ (n = NODEV \/ \A c \in Bufs : blk[c] # n)
    /\ data'[b] = data[b]

(* rkstrategy refuses the transfer.                                         *)
Refused(b) ==
    /\ blk[b] \in BadBlocks /\ NotQueued(b)
    /\ "ERROR" \in flags'[b]
    /\ blk'[b] = blk[b] \/ (blk'[b] = NODEV /\ "BUSY" \notin flags'[b])

(* A read is started.                                                       *)
ReadStarted(b) ==
    /\ Alone(b) /\ disk' = disk /\ data'[b] = data[b]
    /\ b \notin ToSet(queue) /\ flags[b] \cap {"DONE", "DELWRI"} = {}
    /\ \/ Refused(b)
       \/ /\ b \in ToSet(queue') /\ blk'[b] = blk[b]
          /\ Mark(flags'[b]) = Mark(flags[b]) \cup {"READ"}
          /\ blk[b] \in Blocks => "ERROR" \notin flags[b]

(* A write is started, or put off.                                          *)
WriteStarted(b) ==
    /\ Alone(b) /\ disk' = disk /\ b \notin ToSet(queue)
    /\ \/ Refused(b)
       \/ b \in ToSet(queue') /\ blk'[b] = blk[b] /\ Mark(flags'[b]) = {}
       \/ /\ NotQueued(b) /\ blk'[b] = blk[b]
          /\ {"DELWRI", "DONE"} \subseteq flags'[b] /\ "ERROR" \notin flags'[b]

(* A transfer ends, well or not.                                            *)
Ended(b) ==
    /\ Alone(b)
    /\ b \in ToSet(queue) /\ b \notin ToSet(queue') /\ "DONE" \in flags'[b]
    /\ "DELWRI" \notin flags'[b]
    /\ \/ blk'[b] = blk[b]
       \/ blk'[b] = NODEV /\ "BUSY" \notin flags'[b] /\ "ERROR" \in flags'[b]

TransferDone(b) ==
    /\ Ended(b) /\ Mark(flags'[b]) = Mark(flags[b]) \cup {"DONE"}
    /\ IF "READ" \in flags[b]
       THEN data'[b] = disk[blk[b]] /\ disk' = disk
       ELSE disk' = [disk EXCEPT ![blk[b]] = data[b]] /\ data'[b] = data[b]

TransferFailed(b) ==
    /\ Ended(b) /\ Faulty
    /\ "ERROR" \in flags'[b] /\ disk' = disk /\ data'[b] = data[b]

-----------------------------------------------------------------------------
(* What the actions do, in these terms.                                     *)

(* Steps that change at most BUSY, WANTED, AGE.                             *)
LEMMA NothingHappens ==
    ASSUME UNCHANGED <<blk, data, disk, queue>>,
           \A b \in Bufs : Mark(flags'[b]) = Mark(flags[b])
    PROVE  Nothing
BY DEF Nothing, Same

LEMMA StrategyContents ==
    ASSUME IInv, NEW b \in Bufs, NEW f \in SUBSET Flags, NEW av \in Seq(Bufs),
           IsInjective(av), b \notin ToSet(av), b \notin ToSet(queue), Strategy(b, f, av),
           \A c \in Bufs : c # b => data'[c] = data[c]
    PROVE  /\ Alone(b)
           /\ \/ Refused(b)
              \/ b \in ToSet(queue') /\ blk'[b] = blk[b] /\ flags'[b] = f
<1>1. TypeOK /\ IsInjective(queue)
  BY DEF IInv, QueueInv
<1>2. \/ /\ Queued(b, f, av)
         /\ ToSet(queue') = ToSet(queue) \cup {b}
      \/ /\ queue' = queue /\ "ASYNC" \in f
         /\ Released(b, f \cup {"ERROR", "DONE"}, av)
      \/ /\ queue' = queue /\ "ASYNC" \notin f
         /\ Completed(b, f \cup {"ERROR"}, av)
  BY <1>1, StrategyEffect
<1>3. CASE Queued(b, f, av) /\ ToSet(queue') = ToSet(queue) \cup {b}
  BY <1>3 DEF Queued, OnlyBuf, Alone, Same
<1>4. CASE queue' = queue /\ (Released(b, f \cup {"ERROR", "DONE"}, av) \/ Completed(b, f \cup {"ERROR"}, av))
  <2>1. /\ OnlyBuf(b) /\ "ERROR" \in flags'[b]
        /\ blk'[b] = blk[b] \/ (blk'[b] = NODEV /\ "BUSY" \notin flags'[b])
    BY <1>4 DEF Released, Completed
  <2>2. Alone(b)
    BY <1>4, <2>1 DEF OnlyBuf, Alone, Same
  <2>3. CASE blk[b] \in BadBlocks
    BY <1>4, <2>1, <2>2, <2>3 DEF Refused, NotQueued
  <2>4. CASE blk[b] \notin BadBlocks
    <3>1. queue' = Append(queue, b)
      BY <2>4 DEF Strategy
    <3>2. Len(queue') = Len(queue) + 1 /\ Len(queue) \in Nat
      BY <1>1, <3>1 DEF TypeOK
    <3> QED BY <1>4, <3>2
  <2> QED BY <2>3, <2>4
<1> QED BY <1>2, <1>3, <1>4

(* Steps of a process that only look or wait.                               *)
LEMMA LooksOn ==
    ASSUME IInv, NEW p \in Procs,
           Call(p) \/ Breada(p) \/ Search(p) \/ Found(p) \/ Ra(p) \/ Age(p)
    PROVE  Nothing
<1> USE DEF cache
<1>0. TypeOK /\ LocalInv
  BY DEF IInv
<1>1. CASE Call(p)
  BY <1>1, NothingHappens DEF Call
<1>2. CASE Breada(p)
  BY <1>2, NothingHappens DEF Breada
<1>3. CASE Search(p)
  BY <1>3, NothingHappens DEF Search
<1>4. CASE Found(p)
  <2>1. bp[p] \in Bufs
    BY <1>0, <1>4 DEF LocalInv, Local, Found, At
  <2>2. UNCHANGED <<blk, data, disk, queue>>
        /\ \E x \in {"WANTED", "BUSY"} : flags' = [flags EXCEPT ![bp[p]] = @ \cup {x}]
    BY <1>4 DEF Found
  <2> QED BY <1>0, <2>1, <2>2, NothingHappens DEF TypeOK, Mark
<1>5. CASE Ra(p)
  BY <1>5, NothingHappens DEF Ra
<1>6. CASE Age(p)
  <2>1. UNCHANGED <<blk, data, disk, queue>> /\ flags' = [flags EXCEPT ![bp[p]] = @ \cup {"AGE"}]
    BY <1>6 DEF Age
  <2>2. bp[p] \in Bufs
    BY <1>0, <1>6 DEF LocalInv, Local, Age, At
  <2> QED BY <1>0, <2>1, <2>2, NothingHappens DEF TypeOK, Mark
<1> QED BY <1>1, <1>2, <1>3, <1>4, <1>5, <1>6

(* The owner of b releases it with the flags f.                             *)
LEMMA BrelseContents ==
    ASSUME IInv, NEW p \in Procs, NEW b \in Bufs, bp[p] = b,
           pc[p] \in {"got", "hold"} \/ (pc[p] = "iowait" /\ "DONE" \in flags[b]),
           NEW f \in SUBSET Flags, Brelse(b, f, avail), queue' = queue,
           \A c \in Bufs : c # b => data'[c] = data[c]
    PROVE  /\ Alone(b) /\ NotQueued(b) /\ Mark(flags'[b]) = Mark(f)
           /\ blk'[b] = IF "ERROR" \in f THEN NODEV ELSE blk[b]
           /\ "BUSY" \notin flags'[b]
<1>1. b \notin ToSet(queue) /\ b \notin ToSet(avail)
  BY OwnedFacts
<1>2. TypeOK /\ avail \in Seq(Bufs) /\ IsInjective(avail)
  BY DEF IInv, TypeOK, AvailIffNotBusy
<1>3. Released(b, f, avail)
  BY <1>1, <1>2, BrelseEffect
<1>4. /\ OnlyBuf(b) /\ flags'[b] = f \ {"WANTED", "BUSY", "ASYNC", "AGE"}
      /\ blk'[b] = IF "ERROR" \in f THEN NODEV ELSE blk[b]
  BY <1>3 DEF Released
<1>5. Alone(b)
  BY <1>4 DEF OnlyBuf, Alone, Same
<1>6. Mark(flags'[b]) = Mark(f)
  BY <1>4 DEF Mark
<1> QED BY <1>1, <1>4, <1>5, <1>6 DEF NotQueued

LEMMA ReleaseContents ==
    ASSUME IInv, NEW p \in Procs, Release(p)
    PROVE  GivenUp(bp[p])
<1> DEFINE b == bp[p]
<1>1. TypeOK /\ b \in Bufs /\ pc[p] = "hold" /\ disk' = disk /\ queue' = queue
      /\ Brelse(b, flags[b], avail)
  BY DEF IInv, LocalInv, Local, Release, At
<1>2. flags[b] \in SUBSET Flags
  BY <1>1 DEF TypeOK
<1>3. /\ \A c \in Bufs : c # b => data'[c] = data[c]
      /\ data'[b] = data[b] \/ UserFaults
  BY <1>1 DEF Release, TypeOK
<1>4. /\ Alone(b) /\ NotQueued(b) /\ Mark(flags'[b]) = Mark(flags[b])
      /\ blk'[b] = IF "ERROR" \in flags[b] THEN NODEV ELSE blk[b]
      /\ "BUSY" \notin flags'[b]
  <2> HIDE DEF b
  <2>1. bp[p] = b
    BY DEF b
  <2> QED BY <1>1, <1>2, <1>3, <2>1, BrelseContents
<1> QED BY <1>1, <1>3, <1>4 DEF GivenUp

(* A buffer that its owner writes to, or takes to write it out.             *)
LEMMA WritableFacts ==
    ASSUME IInv, NEW p \in Procs, At(p, "hold"), Writable(p)
    PROVE  /\ TypeOK /\ bp[p] \in Bufs /\ pc[p] = "hold" /\ blk[bp[p]] \in Blocks
           /\ "ERROR" \notin flags[bp[p]] /\ flags[bp[p]] \in SUBSET Flags
           /\ avail \in Seq(Bufs) /\ IsInjective(avail)
           /\ bp[p] \notin ToSet(avail) /\ bp[p] \notin ToSet(queue)
<1>1. TypeOK /\ bp[p] \in Bufs /\ pc[p] = "hold" /\ op[p] \in {"bread", "getblk"}
      /\ avail \in Seq(Bufs) /\ IsInjective(avail)
  BY DEF IInv, LocalInv, Local, At, Writable, AvailIffNotBusy, TypeOK
<1>2. blk[bp[p]] \in Blocks /\ flags[bp[p]] \in SUBSET Flags
  BY <1>1 DEF TypeOK, Writable
<1>3. "ERROR" \notin flags[bp[p]]
  BY <1>1, <1>2, BioConstants DEF Writable, IInv, AssocInv
<1>4. bp[p] \notin ToSet(avail) /\ bp[p] \notin ToSet(queue)
  BY <1>1, OwnedFacts
<1> QED BY <1>1, <1>2, <1>3, <1>4

(* bdwrite, bwrite and bawrite.                                             *)
LEMMA WriteContents ==
    ASSUME IInv, NEW p \in Procs, Bdwrite(p) \/ Bwrite(p) \/ Bawrite(p)
    PROVE  WriteStarted(bp[p]) /\ \E v \in Vals : data' = [data EXCEPT ![bp[p]] = v]
<1> DEFINE b == bp[p]
<1>1. /\ TypeOK /\ b \in Bufs /\ pc[p] = "hold" /\ blk[b] \in Blocks
      /\ "ERROR" \notin flags[b] /\ flags[b] \in SUBSET Flags
      /\ avail \in Seq(Bufs) /\ IsInjective(avail)
      /\ b \notin ToSet(avail) /\ b \notin ToSet(queue)
  BY WritableFacts DEF Bdwrite, Bwrite, Bawrite
<1>2. disk' = disk /\ \E v \in Vals : data' = [data EXCEPT ![b] = v]
  BY DEF Bdwrite, Bwrite, Bawrite
<1>3. \A c \in Bufs : c # b => data'[c] = data[c]
  BY <1>1, <1>2 DEF TypeOK
<1>4. CASE Bdwrite(p)
  <2> DEFINE f == flags[b] \cup {"DELWRI", "DONE"}
  <2>1. f \in SUBSET Flags /\ "ERROR" \notin f /\ {"DELWRI", "DONE"} \subseteq Mark(f)
    BY <1>1 DEF Flags, Mark
  <2>2. Brelse(b, f, avail) /\ queue' = queue
    BY <1>4 DEF Bdwrite, Delayed
  <2> HIDE DEF f
  <2>3. /\ Alone(b) /\ NotQueued(b) /\ Mark(flags'[b]) = Mark(f) /\ blk'[b] = blk[b]
    <3> HIDE DEF b
    <3>1. bp[p] = b
      BY DEF b
    <3> QED BY <1>1, <1>3, <2>1, <2>2, <3>1, BrelseContents
  <2>4. {"DELWRI", "DONE"} \subseteq flags'[b] /\ "ERROR" \notin flags'[b]
    BY <2>1, <2>3 DEF Mark
  <2> QED BY <1>2, <2>3, <2>4 DEF WriteStarted, NotQueued
<1>5. CASE Bwrite(p) \/ Bawrite(p)
  <2>1. PICK g \in {flags[b], flags[b] \cup {"ASYNC"}} :
             Strategy(b, g \ {"READ", "DONE", "ERROR", "DELWRI", "AGE"}, avail)
    BY <1>5 DEF Bwrite, Bawrite, StartWrite
  <2> DEFINE f == g \ {"READ", "DONE", "ERROR", "DELWRI", "AGE"}
  <2>2. f \in SUBSET Flags /\ Mark(f) = {}
    BY <1>1 DEF Flags, Mark
  <2>3. Strategy(b, f, avail)
    BY <2>1
  <2> HIDE DEF f, b
  <2>4. /\ Alone(b)
        /\ \/ Refused(b)
           \/ b \in ToSet(queue') /\ blk'[b] = blk[b] /\ flags'[b] = f
    BY <1>1, <1>3, <2>2, <2>3, StrategyContents
  <2>5. WriteStarted(b)
    BY <1>1, <1>2, <2>2, <2>4 DEF WriteStarted
  <2> QED BY <1>2, <2>5 DEF b
<1> QED BY <1>2, <1>4, <1>5

(* getblk and bflush start a delayed write.                                 *)
LEMMA PushContents ==
    ASSUME IInv, NEW b \in ToSet(avail), "DELWRI" \in flags[b],
           NEW av \in Seq(Bufs), IsInjective(av), ToSet(av) = ToSet(avail) \ {b},
           StartWrite(b, flags[b] \cup {"BUSY", "ASYNC"}, av), data' = data, disk' = disk
    PROVE  b \in Bufs /\ WriteStarted(b)
<1> DEFINE f == (flags[b] \cup {"BUSY", "ASYNC"}) \ {"READ", "DONE", "ERROR", "DELWRI", "AGE"}
<1>1. TypeOK /\ b \in Bufs
  BY DEF IInv, TypeOK, ToSet
<1>2. b \notin ToSet(av) /\ b \notin ToSet(queue)
  BY <1>1 DEF IInv, AvailIffNotBusy, QueueInv, Busy
<1>3. f \in SUBSET Flags /\ Mark(f) = {} /\ Strategy(b, f, av)
  BY <1>1 DEF TypeOK, Flags, Mark, StartWrite
<1> HIDE DEF f
<1>4. /\ Alone(b)
      /\ \/ Refused(b)
         \/ b \in ToSet(queue') /\ blk'[b] = blk[b] /\ flags'[b] = f
  BY <1>1, <1>2, <1>3, StrategyContents
<1> QED BY <1>1, <1>2, <1>3, <1>4 DEF WriteStarted

LEMMA BflushContents ==
    ASSUME IInv, NEW p \in Procs, Bflush(p)
    PROVE  /\ data' = data
           /\ Nothing \/ \E b \in Bufs : "DELWRI" \in flags[b] /\ WriteStarted(b)
<1>1. avail \in Seq(Bufs) /\ IsInjective(avail) /\ data' = data /\ disk' = disk
  BY DEF IInv, TypeOK, AvailIffNotBusy, Bflush
<1>2. ASSUME NEW i \in DOMAIN avail, "DELWRI" \in flags[avail[i]],
             StartWrite(avail[i], flags[avail[i]] \cup {"BUSY", "ASYNC"}, Unlink(avail[i]))
      PROVE  avail[i] \in Bufs /\ WriteStarted(avail[i])
  <2>1. avail[i] \in ToSet(avail) /\ avail[i] \in Bufs
    BY <1>1 DEF ToSet
  <2>2. Unlink(avail[i]) \in Seq(Bufs) /\ IsInjective(Unlink(avail[i]))
        /\ ToSet(Unlink(avail[i])) = ToSet(avail) \ {avail[i]}
    BY <1>1, <2>1, UnlinkFacts
  <2> QED BY <1>1, <1>2, <2>1, <2>2, PushContents
<1>3. CASE UNCHANGED <<cache, queue, chan>>
  BY <1>1, <1>3, NothingHappens DEF cache
<1> QED BY <1>1, <1>2, <1>3 DEF Bflush

LEMMA TakeContents ==
    ASSUME IInv, NEW p \in Procs, Take(p)
    PROVE  /\ data' = data
           /\ \/ Nothing
              \/ \E b \in Bufs : "DELWRI" \in flags[b] /\ WriteStarted(b)
              \/ \E b \in Bufs : Reused(b, Want(p)) /\ "BUSY" \notin flags[b]
<1>1. /\ TypeOK /\ LocalInv /\ avail \in Seq(Bufs) /\ IsInjective(avail)
      /\ data' = data /\ disk' = disk
  BY DEF IInv, TypeOK, AvailIffNotBusy, Take
<1>2. CASE avail = << >>
  BY <1>1, <1>2, NothingHappens DEF Take
<1>3. CASE avail # << >>
  <2> DEFINE b == Head(avail)
  <2>1. /\ Tail(avail) \in Seq(Bufs) /\ b \in Bufs /\ b \in ToSet(avail)
        /\ IsInjective(Tail(avail)) /\ ToSet(Tail(avail)) = ToSet(avail) \ {b}
    BY <1>1, <1>3, TailFacts
  <2>2. CASE "DELWRI" \in flags[b]
    <3>1. StartWrite(b, flags[b] \cup {"BUSY", "ASYNC"}, Tail(avail))
      BY <1>3, <2>2 DEF Take, IsDelayed
    <3> HIDE DEF b
    <3>2. WriteStarted(b)
      BY <1>1, <2>1, <2>2, <3>1, PushContents
    <3> QED BY <1>1, <2>1, <2>2, <3>2
  <2>3. CASE "DELWRI" \notin flags[b]
    <3>1. /\ flags' = [flags EXCEPT ![b] = {"BUSY"}] /\ blk' = [blk EXCEPT ![b] = Want(p)]
          /\ queue' = queue
      BY <1>3, <2>3 DEF Take, IsDelayed
    <3>2. Want(p) = NODEV \/ \A c \in Bufs : blk[c] # Want(p)
      BY <1>1 DEF Take, Incore, Want, LocalInv, Local
    <3> HIDE DEF b
    <3>3. "BUSY" \notin flags[b] /\ b \notin ToSet(queue)
      BY <2>1 DEF IInv, AvailIffNotBusy, QueueInv, Busy
    <3>4. /\ \A c \in Bufs : c # b => flags'[c] = flags[c] /\ blk'[c] = blk[c]
          /\ flags'[b] = {"BUSY"} /\ blk'[b] = Want(p)
      BY <1>1, <2>1, <3>1 DEF TypeOK
    <3>5. Alone(b) /\ NotQueued(b) /\ Mark(flags'[b]) = {}
      BY <1>1, <3>1, <3>3, <3>4 DEF Alone, Same, NotQueued, Mark
    <3>6. Reused(b, Want(p))
      BY <1>1, <2>3, <3>2, <3>3, <3>4, <3>5 DEF Reused
    <3> QED BY <1>1, <2>1, <3>3, <3>6
  <2> QED BY <2>2, <2>3
<1> QED BY <1>2, <1>3

(* A read is started on the buffer that getblk has returned.                *)
LEMMA FetchContents ==
    ASSUME IInv, NEW p \in Procs, pc[p] = "got", "DONE" \notin flags[bp[p]],
           NEW f, f \in {flags[bp[p]] \cup {"READ"}, flags[bp[p]] \cup {"READ", "ASYNC"}},
           Strategy(bp[p], f, avail), data' = data, disk' = disk
    PROVE  ReadStarted(bp[p])
<1> DEFINE b == bp[p]
<1>1. /\ TypeOK /\ b \in Bufs /\ avail \in Seq(Bufs) /\ IsInjective(avail)
      /\ b \notin ToSet(avail) /\ b \notin ToSet(queue)
  BY OwnedFacts DEF IInv, LocalInv, Local, AvailIffNotBusy, TypeOK
<1>2. f \in SUBSET Flags /\ Mark(f) = Mark(flags[b]) \cup {"READ"}
  BY <1>1 DEF TypeOK, Flags, Mark
<1>3. "DELWRI" \notin flags[b] /\ (blk[b] \in Blocks => "ERROR" \notin flags[b])
  BY <1>1, BioConstants DEF IInv, AssocInv
<1> HIDE DEF b
<1>4. /\ Alone(b)
      /\ \/ Refused(b)
         \/ b \in ToSet(queue') /\ blk'[b] = blk[b] /\ flags'[b] = f
  BY <1>1, <1>2, StrategyContents DEF b
<1>5. "DONE" \notin flags[b]
  BY DEF b
<1>6. ReadStarted(b)
  BY <1>1, <1>2, <1>3, <1>4, <1>5 DEF ReadStarted
<1> QED BY <1>6 DEF b

LEMMA GotContents ==
    ASSUME IInv, NEW p \in Procs, Got(p)
    PROVE  /\ data' = data
           /\ \/ Nothing
              \/ ReadStarted(bp[p]) /\ bp[p] \in Bufs /\ op[p] \in {"bread", "breada"}
                 /\ pc'[p] \in {"iowait", "ra"}
<1>1. /\ TypeOK /\ pc[p] = "got" /\ bp[p] \in Bufs /\ data' = data /\ disk' = disk
  BY DEF IInv, LocalInv, Local, Got, At
<1>2. CASE UNCHANGED <<cache, queue, chan>>
  BY <1>1, <1>2, NothingHappens DEF cache
<1>3. CASE /\ "DONE" \notin flags[bp[p]] /\ Strategy(bp[p], flags[bp[p]] \cup {"READ"}, avail)
           /\ op[p] \in {"bread", "breada"} /\ (Goto(p, "iowait") \/ Goto(p, "ra"))
  <2>1. ReadStarted(bp[p])
    BY <1>1, <1>3, FetchContents
  <2>2. pc'[p] \in {"iowait", "ra"}
    BY <1>1, <1>3 DEF Goto, TypeOK
  <2> QED BY <1>1, <1>3, <2>1, <2>2
<1> QED BY <1>2, <1>3 DEF Got

LEMMA GotRaContents ==
    ASSUME IInv, NEW p \in Procs, GotRa(p)
    PROVE  /\ data' = data /\ bp[p] \in Bufs
           /\ GivenUp(bp[p]) \/ ReadStarted(bp[p])
<1>1. /\ TypeOK /\ pc[p] = "got" /\ bp[p] \in Bufs /\ data' = data /\ disk' = disk
  BY DEF IInv, LocalInv, Local, GotRa, At
<1>2. CASE "DONE" \in flags[bp[p]]
  <2>1. Brelse(bp[p], flags[bp[p]], avail) /\ queue' = queue
    BY <1>2 DEF GotRa
  <2>2. flags[bp[p]] \in SUBSET Flags /\ \A c \in Bufs : c # bp[p] => data'[c] = data[c]
    BY <1>1 DEF TypeOK
  <2>3. /\ Alone(bp[p]) /\ NotQueued(bp[p]) /\ Mark(flags'[bp[p]]) = Mark(flags[bp[p]])
        /\ blk'[bp[p]] = IF "ERROR" \in flags[bp[p]] THEN NODEV ELSE blk[bp[p]]
        /\ "BUSY" \notin flags'[bp[p]]
    BY <1>1, <2>1, <2>2, BrelseContents
  <2> QED BY <1>1, <2>3 DEF GivenUp
<1>3. CASE "DONE" \notin flags[bp[p]]
  <2>1. Strategy(bp[p], flags[bp[p]] \cup {"READ", "ASYNC"}, avail)
    BY <1>3 DEF GotRa
  <2> QED BY <1>1, <1>3, <2>1, FetchContents
<1> QED BY <1>2, <1>3

LEMMA IowaitContents ==
    ASSUME IInv, NEW p \in Procs, Iowait(p)
    PROVE  /\ data' = data /\ bp[p] \in Bufs
           /\ \/ Nothing
              \/ GivenUp(bp[p]) /\ pc'[p] = "user"
<1>1. /\ TypeOK /\ pc[p] = "iowait" /\ bp[p] \in Bufs /\ data' = data /\ disk' = disk
      /\ queue' = queue
  BY DEF IInv, LocalInv, Local, Iowait, At
<1>2. CASE UNCHANGED cache
  BY <1>1, <1>2, NothingHappens DEF cache
<1>3. CASE "DONE" \in flags[bp[p]] /\ Brelse(bp[p], flags[bp[p]], avail) /\ Return(p)
  <2>2. flags[bp[p]] \in SUBSET Flags /\ \A c \in Bufs : c # bp[p] => data'[c] = data[c]
    BY <1>1 DEF TypeOK
  <2>3. /\ Alone(bp[p]) /\ NotQueued(bp[p]) /\ Mark(flags'[bp[p]]) = Mark(flags[bp[p]])
        /\ blk'[bp[p]] = IF "ERROR" \in flags[bp[p]] THEN NODEV ELSE blk[bp[p]]
        /\ "BUSY" \notin flags'[bp[p]]
    BY <1>1, <1>3, <2>2, BrelseContents
  <2>4. pc'[p] = "user"
    BY <1>1, <1>3 DEF Return, TypeOK
  <2> QED BY <1>1, <2>3, <2>4 DEF GivenUp
<1> QED BY <1>2, <1>3 DEF Iowait

(* iodone in the interrupt routine.                                         *)
LEMMA IodoneContents ==
    ASSUME IInv, queue # << >>, queue' = Tail(queue),
           NEW f, f \in {flags[Head(queue)], flags[Head(queue)] \cup {"ERROR"}},
           Iodone(Head(queue), f, avail),
           \A c \in Bufs : c # Head(queue) => data'[c] = data[c]
    PROVE  /\ Head(queue) \in Bufs /\ Ended(Head(queue))
           /\ Mark(flags'[Head(queue)]) = Mark(f) \cup {"DONE"}
<1> DEFINE b == Head(queue)
<1>1. TypeOK /\ queue \in Seq(Bufs) /\ IsInjective(queue) /\ avail \in Seq(Bufs) /\ IsInjective(avail)
  BY DEF IInv, TypeOK, QueueInv, AvailIffNotBusy
<1>2. /\ b \in Bufs /\ b \in ToSet(queue) /\ b \notin ToSet(queue')
      /\ ToSet(queue') = ToSet(queue) \ {b}
  BY <1>1, TailFacts
<1>3. "BUSY" \in flags[b] /\ "DELWRI" \notin flags[b]
  BY <1>2 DEF IInv, QueueInv, Busy
<1>4. b \notin ToSet(avail) /\ f \in SUBSET Flags /\ "DELWRI" \notin f
  BY <1>1, <1>2, <1>3 DEF IInv, AvailIffNotBusy, TypeOK, Flags
<1>5. Iodone(b, f, avail) /\ \A c \in Bufs : c # b => data'[c] = data[c]
  OBVIOUS
<1> HIDE DEF b
<1>6. Released(b, f \cup {"DONE"}, avail) \/ Completed(b, f, avail)
  BY <1>1, <1>2, <1>4, <1>5, IodoneEffect
<1>7. /\ OnlyBuf(b)
      /\ \/ blk'[b] = blk[b]
         \/ blk'[b] = NODEV /\ "BUSY" \notin flags'[b] /\ "ERROR" \in flags'[b]
      /\ flags'[b] \in {(f \cup {"DONE"}) \ {"WANTED", "BUSY", "ASYNC", "AGE"}, (f \cup {"DONE"}) \ {"WANTED"}}
  BY <1>6 DEF Released, Completed
<1>8. Mark(flags'[b]) = Mark(f) \cup {"DONE"} /\ "DONE" \in flags'[b] /\ "DELWRI" \notin flags'[b]
  BY <1>4, <1>7 DEF Mark
<1>9. Alone(b)
  BY <1>2, <1>5, <1>7 DEF OnlyBuf, Alone, Same
<1>10. Ended(b)
  BY <1>2, <1>7, <1>8, <1>9 DEF Ended
<1> QED BY <1>2, <1>8, <1>10 DEF b

LEMMA DoneContents ==
    ASSUME IInv, RkintrDone
    PROVE  Head(queue) \in Bufs /\ TransferDone(Head(queue))
<1> DEFINE b == Head(queue)
<1>1. queue # << >> /\ queue' = Tail(queue) /\ Iodone(b, flags[b], avail)
      /\ IF "READ" \in flags[b]
         THEN data' = [data EXCEPT ![b] = disk[blk[b]]] /\ disk' = disk
         ELSE disk' = [disk EXCEPT ![blk[b]] = data[b]] /\ data' = data
  BY DEF RkintrDone
<1>2. TypeOK /\ b \in Bufs
  BY <1>1, TailFacts DEF IInv, TypeOK, QueueInv
<1>3. \A c \in Bufs : c # b => data'[c] = data[c]
  BY <1>1, <1>2 DEF TypeOK
<1>4. Ended(b) /\ Mark(flags'[b]) = Mark(flags[b]) \cup {"DONE"}
  BY <1>1, <1>3, IodoneContents
<1>5. IF "READ" \in flags[b]
      THEN data'[b] = disk[blk[b]] /\ disk' = disk
      ELSE disk' = [disk EXCEPT ![blk[b]] = data[b]] /\ data'[b] = data[b]
  BY <1>1, <1>2 DEF TypeOK
<1> QED BY <1>2, <1>4, <1>5 DEF TransferDone

LEMMA ErrorContents ==
    ASSUME IInv, RkintrError
    PROVE  Nothing \/ (Head(queue) \in Bufs /\ TransferFailed(Head(queue)))
<1>1. queue # << >> /\ Faulty /\ data' = data /\ disk' = disk
  BY DEF RkintrError
<1>2. CASE Retry
  BY <1>1, <1>2, NothingHappens DEF RkintrError, cache
<1>3. CASE ~Retry
  <2>1. queue' = Tail(queue) /\ Iodone(Head(queue), flags[Head(queue)] \cup {"ERROR"}, avail)
    BY <1>3 DEF RkintrError
  <2>2. /\ Head(queue) \in Bufs /\ Ended(Head(queue))
        /\ Mark(flags'[Head(queue)]) = Mark(flags[Head(queue)] \cup {"ERROR"}) \cup {"DONE"}
    BY <1>1, <2>1, IodoneContents
  <2>3. "ERROR" \in flags'[Head(queue)]
    BY <2>2 DEF Mark
  <2> QED BY <1>1, <2>2, <2>3 DEF TransferFailed
<1> QED BY <1>2, <1>3

-----------------------------------------------------------------------------
(* Every step is of one of these kinds.                                     *)
Pushed(b) == WriteStarted(b) /\ "DELWRI" \in flags[b] /\ data'[b] = data[b]

QuietKind ==
    \/ Nothing
    \/ \E b \in Bufs :
         \/ GivenUp(b) \/ ReadStarted(b) \/ TransferDone(b) \/ TransferFailed(b)
         \/ \E n \in Blocks \cup {NODEV} : Reused(b, n)
         \/ Pushed(b)

StepKind == QuietKind \/ \E b \in Bufs : WriteStarted(b)

Writes(p) == Bdwrite(p) \/ Bwrite(p) \/ Bawrite(p)

Other(p) == \/ Call(p) \/ Breada(p) \/ Search(p) \/ Found(p) \/ Take(p)
            \/ Got(p) \/ Ra(p) \/ GotRa(p) \/ Iowait(p)
            \/ Release(p) \/ Bflush(p) \/ Age(p)

LEMMA EveryOtherStep ==
    ASSUME IInv, UNCHANGED vars \/ RkintrDone \/ RkintrError \/ \E p \in Procs : Other(p)
    PROVE  QuietKind
<1>1. CASE UNCHANGED vars
  <2>1. Nothing
    BY <1>1, NothingHappens DEF vars
  <2> QED BY <2>1 DEF QuietKind
<1>2. CASE RkintrDone
  BY <1>2, DoneContents DEF QuietKind
<1>3. CASE RkintrError
  BY <1>3, ErrorContents DEF QuietKind
<1>4. ASSUME NEW p \in Procs, Other(p) PROVE QuietKind
  <2>2. CASE Call(p) \/ Breada(p) \/ Search(p) \/ Found(p) \/ Ra(p) \/ Age(p)
    BY <2>2, LooksOn DEF QuietKind
  <2>3. CASE Release(p)
    <3>1. bp[p] \in Bufs
      BY <2>3 DEF IInv, LocalInv, Local, Release, At
    <3> QED BY <2>3, <3>1, ReleaseContents DEF QuietKind
  <2>4. CASE Bflush(p)
    BY <2>4, BflushContents DEF QuietKind, Pushed
  <2>5. CASE Take(p)
    <3>1. Want(p) \in Blocks \cup {NODEV}
      BY <2>5, BioConstants DEF IInv, LocalInv, Local, Take, At, Want
    <3> QED BY <2>5, <3>1, TakeContents DEF QuietKind, Pushed
  <2>6. CASE Got(p)
    BY <2>6, GotContents DEF QuietKind
  <2>7. CASE GotRa(p)
    BY <2>7, GotRaContents DEF QuietKind
  <2>8. CASE Iowait(p)
    BY <2>8, IowaitContents DEF QuietKind
  <2> QED BY <1>4, <2>2, <2>3, <2>4, <2>5, <2>6, <2>7, <2>8 DEF Other
<1> QED BY <1>1, <1>2, <1>3, <1>4

LEMMA NextSplits ==
    ASSUME SplitAge = FALSE, IInv, [Next]_vars
    PROVE  \/ UNCHANGED vars \/ RkintrDone \/ RkintrError
           \/ \E p \in Procs : Other(p) \/ Writes(p)
<1>1. ASSUME NEW p \in Procs, Step(p) PROVE Other(p) \/ Writes(p)
  <2>1. ~AgeLoad(p) /\ ~AgeStore(p)
    BY DEF AgeLoad, AgeStore, At, IInv, LocalInv, Local
  <2> QED BY <1>1, <2>1 DEF Step, Other, Writes
<1> QED BY <1>1 DEF Next

LEMMA EveryStep ==
    ASSUME SplitAge = FALSE, IInv, [Next]_vars
    PROVE  StepKind
<1>1. ASSUME NEW p \in Procs, Writes(p) PROVE StepKind
  <2>1. bp[p] \in Bufs
    BY <1>1, WritableFacts DEF Writes, Bdwrite, Bwrite, Bawrite
  <2> QED BY <1>1, <2>1, WriteContents DEF StepKind, Writes
<1> QED BY <1>1, EveryOtherStep, NextSplits DEF StepKind

(* A delayed write is kept until it is with the driver, by a step of any    *)
(* kind.                                                                    *)
LEMMA DelayedStep ==
    ASSUME IInv, StepKind, NEW b \in Bufs, "DELWRI" \in flags[b], blk[b] \notin BadBlocks
    PROVE  blk'[b] = blk[b] /\ ("DELWRI" \in flags'[b] \/ b \in ToSet(queue'))
<1>1. "ERROR" \notin flags[b] /\ "DONE" \in flags[b] /\ b \notin ToSet(queue)
  BY DEF IInv, AssocInv, QueueInv
<1>2. CASE Same(b)
  BY <1>2 DEF Same, Mark
<1>3. CASE GivenUp(b)
  BY <1>1, <1>3 DEF GivenUp, Mark
<1>4. CASE \E n : Reused(b, n)
  BY <1>4 DEF Reused
<1>5. CASE ReadStarted(b)
  BY <1>1, <1>5 DEF ReadStarted
<1>6. CASE WriteStarted(b)
  BY <1>6 DEF WriteStarted, Refused
<1>7. CASE TransferDone(b) \/ TransferFailed(b)
  BY <1>1, <1>7 DEF TransferDone, TransferFailed, Ended
<1>8. ASSUME NEW c \in Bufs, Alone(c) PROVE c = b \/ Same(b)
  BY <1>8 DEF Alone
<1>9. CASE Nothing
  BY <1>2, <1>9 DEF Nothing
<1>10. ASSUME NEW c \in Bufs,
              \/ GivenUp(c) \/ ReadStarted(c) \/ TransferDone(c) \/ TransferFailed(c)
              \/ \E n \in Blocks \cup {NODEV} : Reused(c, n)
              \/ WriteStarted(c)
       PROVE  blk'[b] = blk[b] /\ ("DELWRI" \in flags'[b] \/ b \in ToSet(queue'))
  <2>1. Alone(c)
    BY <1>10 DEF GivenUp, ReadStarted, TransferDone, TransferFailed, Reused, WriteStarted, Ended
  <2> QED BY <1>2, <1>3, <1>4, <1>5, <1>6, <1>7, <1>8, <1>10, <2>1
<1> QED BY <1>9, <1>10 DEF StepKind, QuietKind, Pushed

(* getblk, bflush, bwrite and the interrupt never throw a delayed write     *)
(* away: a buffer marked DELWRI keeps its block until the driver has it.    *)
THEOREM DelayedWritesKept ==
    ASSUME SplitAge = FALSE
    PROVE  Spec => DelayedWriteKept
<1>1. IInv /\ [Next]_vars =>
        [\A b \in Bufs : "DELWRI" \in flags[b] /\ blk[b] \notin BadBlocks =>
          /\ blk'[b] = blk[b]
          /\ "DELWRI" \in flags'[b] \/ b \in ToSet(queue')]_vars
  BY EveryStep, DelayedStep
<1> QED BY <1>1, InductiveInvariant, PTL DEF Spec, DelayedWriteKept

-----------------------------------------------------------------------------
(* A step of any kind leaves the clean buffers clean.                       *)
LEMMA CleanStep ==
    ASSUME UserFaults = FALSE, IInv, CleanIsOnDisk, StepKind
    PROVE  CleanIsOnDisk'
<1> DEFINE Clean(b) == blk[b] # NODEV /\ flags[b] \cap {"DONE", "DELWRI", "ERROR"} = {"DONE"}
                       => data[b] = disk[blk[b]]
           CleanNow(b) == blk'[b] # NODEV /\ flags'[b] \cap {"DONE", "DELWRI", "ERROR"} = {"DONE"}
                       => data'[b] = disk'[blk'[b]]
<1>1. \A b \in Bufs : Clean(b)
  BY DEF CleanIsOnDisk
<1>2. SUFFICES \A b \in Bufs : CleanNow(b)
  BY DEF CleanIsOnDisk
<1>3. ASSUME NEW b \in Bufs, Same(b), disk' = disk PROVE CleanNow(b)
  BY <1>1, <1>3 DEF Same, Mark
<1>4. CASE Nothing
  BY <1>3, <1>4 DEF Nothing
<1>5. ASSUME NEW b \in Bufs,
             \/ GivenUp(b) \/ ReadStarted(b) \/ TransferFailed(b)
             \/ (\E n \in Blocks \cup {NODEV} : Reused(b, n))
             \/ WriteStarted(b)
      PROVE  \A c \in Bufs : CleanNow(c)
  <2>1. Alone(b) /\ disk' = disk
    BY <1>5 DEF GivenUp, ReadStarted, TransferFailed, Reused, WriteStarted, Ended
  <2>2. \A c \in Bufs : c # b => CleanNow(c)
    BY <1>3, <2>1 DEF Alone
  <2>3. CleanNow(b)
    <3>1. CASE GivenUp(b)
      BY <1>1, <3>1 DEF GivenUp, Mark
    <3>2. CASE ReadStarted(b)
      BY <3>2 DEF ReadStarted, Refused, Mark
    <3>3. CASE TransferFailed(b)
      BY <3>3 DEF TransferFailed
    <3>4. CASE \E n \in Blocks \cup {NODEV} : Reused(b, n)
      BY <3>4 DEF Reused, Mark
    <3>5. CASE WriteStarted(b)
      BY <3>5 DEF WriteStarted, Refused, Mark
    <3> QED BY <1>5, <3>1, <3>2, <3>3, <3>4, <3>5
  <2> QED BY <2>2, <2>3
<1>6. ASSUME NEW b \in Bufs, TransferDone(b)
      PROVE  \A c \in Bufs : CleanNow(c)
  <2>1. /\ Alone(b) /\ b \in ToSet(queue) /\ blk'[b] \in {blk[b], NODEV}
        /\ IF "READ" \in flags[b]
           THEN data'[b] = disk[blk[b]] /\ disk' = disk
           ELSE disk' = [disk EXCEPT ![blk[b]] = data[b]] /\ data'[b] = data[b]
    BY <1>6 DEF TransferDone, Ended
  <2>2. blk[b] \in Blocks /\ TypeOK
    BY <2>1 DEF IInv, QueueInv
  <2>3. CleanNow(b)
    BY <2>1, <2>2 DEF TypeOK
  <2>4. ASSUME NEW c \in Bufs, c # b PROVE CleanNow(c)
    <3>1. Same(c)
      BY <2>1, <2>4 DEF Alone
    <3>2. CASE disk' = disk
      BY <1>3, <3>1, <3>2
    <3>3. CASE disk' = [disk EXCEPT ![blk[b]] = data[b]]
      <4>1. blk[c] # NODEV => blk[c] # blk[b]
        BY <2>4 DEF IInv, OneBufferPerBlock
      <4>2. blk[c] \in Blocks \cup {NODEV}
        BY <2>2 DEF TypeOK
      <4>3. blk[c] # NODEV => disk'[blk[c]] = disk[blk[c]]
        BY <2>2, <3>3, <4>1, <4>2 DEF TypeOK
      <4> QED BY <1>1, <3>1, <4>3 DEF Same, Mark
    <3> QED BY <2>1, <3>2, <3>3
  <2> QED BY <2>3, <2>4
<1> QED BY <1>4, <1>5, <1>6 DEF StepKind, QuietKind, Pushed

(* The contents of a buffer that is valid and not marked as newer are those *)
(* of the disk, on a disk that may fail, as long as writei's copy from user *)
(* space does not fault half way.                                           *)
THEOREM CleanBuffersOnDisk ==
    ASSUME SplitAge = FALSE, UserFaults = FALSE
    PROVE  Spec => []CleanIsOnDisk
<1>1. Init => CleanIsOnDisk
  BY DEF Init, CleanIsOnDisk
<1>2. IInv /\ CleanIsOnDisk /\ [Next]_vars => CleanIsOnDisk'
  BY EveryStep, CleanStep
<1> QED BY <1>1, <1>2, InductiveInvariant, PTL DEF Spec

-----------------------------------------------------------------------------
(* A disk that does not fail reports no error but for the blocks past its   *)
(* end.                                                                     *)
GoodIsRead == \A b \in Bufs : blk[b] \in GoodBlocks => "ERROR" \notin flags[b]

LEMMA GoodStep ==
    ASSUME Faulty = FALSE, IInv, GoodIsRead, StepKind
    PROVE  GoodIsRead'
<1>1. SUFFICES ASSUME NEW b \in Bufs, blk'[b] \in GoodBlocks PROVE "ERROR" \notin flags'[b]
  BY DEF GoodIsRead, GoodBlocks
<1>2. NODEV \notin GoodBlocks /\ \A n \in BadBlocks : n \notin GoodBlocks
  BY BioConstants DEF GoodBlocks
<1>3. CASE Same(b)
  BY <1>1, <1>3 DEF Same, Mark, GoodIsRead
<1>4. CASE GivenUp(b)
  BY <1>1, <1>2, <1>4 DEF GivenUp, Mark
<1>5. CASE \E n : Reused(b, n)
  BY <1>5 DEF Reused, Mark
<1>6. CASE ReadStarted(b)
  BY <1>1, <1>2, <1>6 DEF ReadStarted, Refused, Mark, GoodIsRead
<1>7. CASE WriteStarted(b)
  BY <1>1, <1>2, <1>7 DEF WriteStarted, Refused, Mark
<1>8. CASE TransferDone(b)
  BY <1>1, <1>2, <1>8 DEF TransferDone, Ended, Mark, GoodIsRead
<1>9. CASE Nothing
  BY <1>3, <1>9 DEF Nothing
<1>10. ASSUME NEW c \in Bufs,
              \/ GivenUp(c) \/ ReadStarted(c) \/ TransferDone(c) \/ TransferFailed(c)
              \/ \E n \in Blocks \cup {NODEV} : Reused(c, n)
              \/ WriteStarted(c)
       PROVE  "ERROR" \notin flags'[b]
  <2>1. Alone(c) /\ ~TransferFailed(c)
    BY <1>10 DEF GivenUp, ReadStarted, TransferDone, TransferFailed, Reused, WriteStarted, Ended
  <2>2. c = b \/ Same(b)
    BY <2>1 DEF Alone
  <2> QED BY <1>3, <1>4, <1>5, <1>6, <1>7, <1>8, <1>10, <2>1, <2>2
<1> QED BY <1>9, <1>10 DEF StepKind, QuietKind, Pushed

-----------------------------------------------------------------------------
(* The value of a block: that of the one valid buffer that stands for it,   *)
(* or that of the disk.                                                     *)
Has(b, n) == blk[b] = n /\ Valid(b)

LEMMA StoreValue ==
    ASSUME IInv, NEW n \in GoodBlocks
    PROVE  /\ \A b \in Bufs : Has(b, n) => StoreOf[n] = data[b]
           /\ (\A b \in Bufs : ~Has(b, n)) => StoreOf[n] = disk[n]
<1>1. n # NODEV
  BY BioConstants DEF GoodBlocks
<1>2. ASSUME NEW b \in Bufs, Has(b, n) PROVE StoreOf[n] = data[b]
  <2>1. \A c \in Bufs : Has(c, n) => c = b
    BY <1>1, <1>2 DEF Has, IInv, OneBufferPerBlock
  <2>2. (CHOOSE c \in Bufs : blk[c] = n /\ Valid(c)) = b
    BY <1>2, <2>1 DEF Has
  <2> QED BY <1>2, <2>2 DEF StoreOf, Has
<1>3. (\A b \in Bufs : ~Has(b, n)) => StoreOf[n] = disk[n]
  BY DEF StoreOf, Has
<1> QED BY <1>2, <1>3

LEMMA StoreValueNext ==
    ASSUME IInv', NEW n \in GoodBlocks
    PROVE  /\ \A b \in Bufs : Has(b, n)' => StoreOf'[n] = data'[b]
           /\ (\A b \in Bufs : ~Has(b, n)') => StoreOf'[n] = disk'[n]
<1>1. n # NODEV /\ GoodBlocks' = GoodBlocks
  BY BioConstants DEF GoodBlocks
<1>2. ASSUME NEW b \in Bufs, Has(b, n)' PROVE StoreOf'[n] = data'[b]
  <2>1. \A c \in Bufs : Has(c, n)' => c = b
    BY <1>1, <1>2 DEF Has, IInv, OneBufferPerBlock
  <2>2. (CHOOSE c \in Bufs : blk'[c] = n /\ Valid(c)') = b
    BY <1>2, <2>1 DEF Has
  <2> QED BY <1>1, <1>2, <2>2 DEF StoreOf, Has
<1>3. (\A b \in Bufs : ~Has(b, n)') => StoreOf'[n] = disk'[n]
  BY <1>1 DEF StoreOf, Has
<1> QED BY <1>2, <1>3

(* Only a write changes a value: neither the reuse of a buffer, nor the end *)
(* of a transfer, nor a delayed write on its way out does.                  *)
LEMMA StoreKept ==
    ASSUME Faulty = FALSE, UserFaults = FALSE, IInv, IInv', GoodIsRead, CleanIsOnDisk, QuietKind
    PROVE  StoreOf' = StoreOf
<1>1. SUFFICES ASSUME NEW n \in GoodBlocks PROVE StoreOf'[n] = StoreOf[n]
  BY DEF StoreOf, GoodBlocks
<1>2. n # NODEV /\ n \notin BadBlocks /\ n \in Blocks
  BY BioConstants DEF GoodBlocks
<1>3. ASSUME NEW b \in Bufs, Same(b)
      PROVE  (Has(b, n)' <=> Has(b, n)) /\ data'[b] = data[b]
  BY <1>3 DEF Same, Mark, Has, Valid
<1>4. ASSUME disk'[n] = disk[n], \A b \in Bufs : Has(b, n)' <=> Has(b, n),
             \A b \in Bufs : Has(b, n) => data'[b] = data[b]
      PROVE  StoreOf'[n] = StoreOf[n]
  BY <1>4, StoreValue, StoreValueNext
<1>5. CASE Nothing
  BY <1>3, <1>4, <1>5 DEF Nothing
<1>6. ASSUME NEW b \in Bufs, Alone(b), disk'[n] = disk[n], Has(b, n)' <=> Has(b, n),
             Has(b, n) => data'[b] = data[b]
      PROVE  StoreOf'[n] = StoreOf[n]
  BY <1>3, <1>4, <1>6 DEF Alone
<1>7. ASSUME NEW b \in Bufs, GivenUp(b) PROVE StoreOf'[n] = StoreOf[n]
  <2>1. Has(b, n)' <=> Has(b, n)
    BY <1>2, <1>7 DEF GivenUp, NotQueued, Mark, Has, Valid, GoodIsRead
  <2> QED BY <1>6, <1>7, <2>1 DEF GivenUp
<1>8. ASSUME NEW b \in Bufs, ReadStarted(b) PROVE StoreOf'[n] = StoreOf[n]
  <2>1. Has(b, n)' <=> Has(b, n)
    BY <1>2, <1>8 DEF ReadStarted, Refused, NotQueued, Mark, Has, Valid
  <2> QED BY <1>6, <1>8, <2>1 DEF ReadStarted
<1>9. ASSUME NEW b \in Bufs, Pushed(b) PROVE StoreOf'[n] = StoreOf[n]
  <2>1. "DONE" \in flags[b]
    BY <1>9 DEF Pushed, IInv, AssocInv
  <2>2. Has(b, n)' <=> Has(b, n)
    BY <1>2, <1>9, <2>1 DEF Pushed, WriteStarted, Refused, NotQueued, Mark, Has, Valid
  <2> QED BY <1>6, <1>9, <2>2 DEF Pushed, WriteStarted
<1>10. ASSUME NEW b \in Bufs, NEW m \in Blocks \cup {NODEV}, Reused(b, m)
       PROVE  StoreOf'[n] = StoreOf[n]
  <2>1. Alone(b) /\ disk' = disk /\ ~Has(b, n)'
    BY <1>10 DEF Reused, NotQueued, Mark, Has, Valid
  <2>2. CASE ~Has(b, n)
    BY <1>6, <2>1, <2>2
  <2>3. CASE Has(b, n)
    <3>1. data[b] = disk[n]
      BY <1>2, <1>10, <2>3 DEF Reused, NotQueued, Has, Valid, CleanIsOnDisk, GoodIsRead
    <3>2. \A c \in Bufs : c # b => ~Has(c, n)
      BY <1>2, <2>3 DEF Has, IInv, OneBufferPerBlock
    <3>3. \A c \in Bufs : ~Has(c, n)'
      BY <1>3, <2>1, <3>2 DEF Alone
    <3>4. StoreOf'[n] = disk'[n]
      BY <3>3, StoreValueNext
    <3>5. StoreOf[n] = data[b]
      BY <2>3, StoreValue
    <3> QED BY <2>1, <3>1, <3>4, <3>5
  <2> QED BY <2>2, <2>3
<1>11. ASSUME NEW b \in Bufs, TransferDone(b) PROVE StoreOf'[n] = StoreOf[n]
  <2>1. /\ Alone(b) /\ b \in ToSet(queue) /\ b \notin ToSet(queue')
        /\ blk'[b] \in {blk[b], NODEV} /\ "DONE" \in flags'[b]
        /\ IF "READ" \in flags[b]
           THEN data'[b] = disk[blk[b]] /\ disk' = disk
           ELSE disk' = [disk EXCEPT ![blk[b]] = data[b]] /\ data'[b] = data[b]
    BY <1>11 DEF TransferDone, Ended
  <2>2. blk[b] \in Blocks /\ disk \in [Blocks -> Vals] /\ "DONE" \notin flags[b]
    BY <2>1 DEF IInv, QueueInv, TypeOK
  <2>3. CASE blk[b] # n
    <3>1. disk'[n] = disk[n] /\ ~Has(b, n) /\ ~Has(b, n)'
      BY <1>2, <2>1, <2>2, <2>3 DEF Has
    <3> QED BY <1>6, <2>1, <3>1
  <2>4. CASE blk[b] = n
    <3>1. \A c \in Bufs : c # b => ~Has(c, n)
      BY <1>2, <2>4 DEF Has, IInv, OneBufferPerBlock
    <3>2. \A c \in Bufs : c # b => ~Has(c, n)'
      BY <1>3, <2>1, <3>1 DEF Alone
    <3>3. Has(b, n) <=> "READ" \notin flags[b]
      BY <2>1, <2>2, <2>4 DEF Has, Valid
    <3>4. StoreOf[n] = IF "READ" \in flags[b] THEN disk[n] ELSE data[b]
      BY <3>1, <3>3, StoreValue
    <3>5. data'[b] = StoreOf[n] /\ disk'[n] = StoreOf[n]
      BY <1>2, <2>1, <2>2, <2>4, <3>4
    <3>6. StoreOf'[n] \in {data'[b], disk'[n]}
      BY <3>2, StoreValueNext
    <3> QED BY <3>5, <3>6
  <2> QED BY <2>3, <2>4
<1>12. \A b \in Bufs : ~TransferFailed(b)
  BY DEF TransferFailed
<1> QED BY <1>5, <1>7, <1>8, <1>9, <1>10, <1>11, <1>12 DEF QuietKind

(* A write of a good block changes its value and no other.                  *)
LEMMA StoreWritten ==
    ASSUME UserFaults = FALSE, IInv, IInv', GoodIsRead, NEW b \in Bufs, NEW v \in Vals,
           WriteStarted(b), data' = [data EXCEPT ![b] = v]
    PROVE  StoreOf' = IF blk[b] \in GoodBlocks THEN [StoreOf EXCEPT ![blk[b]] = v] ELSE StoreOf
<1>1. SUFFICES ASSUME NEW n \in GoodBlocks
               PROVE  StoreOf'[n] = IF blk[b] = n THEN v ELSE StoreOf[n]
  <2>1. /\ StoreOf = [n \in GoodBlocks |-> StoreOf[n]]
        /\ StoreOf' = [n \in GoodBlocks |-> StoreOf'[n]]
    BY DEF StoreOf, GoodBlocks
  <2> QED BY <2>1
<1>2. n # NODEV /\ n \notin BadBlocks
  BY BioConstants DEF GoodBlocks
<1>3. Alone(b) /\ disk' = disk /\ data'[b] = v
  BY DEF WriteStarted, IInv, TypeOK
<1>4. \A c \in Bufs : c # b => (Has(c, n)' <=> Has(c, n)) /\ data'[c] = data[c]
  BY <1>3 DEF Alone, Same, Mark, Has, Valid
<1>5. CASE blk[b] = n
  <2>1. Has(b, n)'
    BY <1>2, <1>5 DEF WriteStarted, Refused, Mark, Has, Valid
  <2> QED BY <1>3, <1>5, <2>1, StoreValueNext
<1>6. CASE blk[b] # n
  <2>1. ~Has(b, n) /\ ~Has(b, n)'
    BY <1>2, <1>6 DEF WriteStarted, Refused, Has
  <2>2. \A c \in Bufs : (Has(c, n)' <=> Has(c, n)) /\ (Has(c, n) => data'[c] = data[c])
    BY <1>4, <2>1
  <2> QED BY <1>3, <1>6, <2>2, StoreValue, StoreValueNext
<1> QED BY <1>5, <1>6

-----------------------------------------------------------------------------
(* Who has a block, and what it was shown.                                  *)
Holding(p, n) == pc[p] = "hold" /\ blk[bp[p]] = n

Showing(p) == /\ pc[p] = "hold" /\ op[p] = "bread"
              /\ "ERROR" \notin flags[bp[p]] /\ blk[bp[p]] \in GoodBlocks

(* One process at most has a buffer for a block.                            *)
LEMMA OneHolder ==
    ASSUME IInv, NEW n \in GoodBlocks, NEW p \in Procs, NEW q \in Procs,
           Holding(p, n), pc[q] \in {"got", "iowait", "hold"}, blk[bp[q]] = n
    PROVE  p = q
<1>1. n # NODEV
  BY BioConstants DEF GoodBlocks
<1>2. bp[p] \in Bufs /\ bp[q] \in Bufs
  BY DEF IInv, LocalInv, Local, Holding
<1>3. bp[p] = bp[q]
  BY <1>1, <1>2 DEF IInv, OneBufferPerBlock, Holding
<1> QED BY <1>2, <1>3 DEF IInv, OwnInv, Owns, Holding

LEMMA LockValue ==
    ASSUME IInv, NEW n \in GoodBlocks
    PROVE  /\ \A p \in Procs : Holding(p, n) => LockOf[n] = p
           /\ (\A p \in Procs : ~Holding(p, n)) => LockOf[n] = None
<1>1. ASSUME NEW p \in Procs, Holding(p, n) PROVE LockOf[n] = p
  <2>1. \A q \in Procs : Holding(q, n) => p = q
    BY <1>1, OneHolder DEF Holding
  <2>2. (CHOOSE q \in Procs : pc[q] = "hold" /\ blk[bp[q]] = n) = p
    BY <1>1, <2>1 DEF Holding
  <2> QED BY <1>1, <2>2 DEF LockOf, Holding
<1> QED BY <1>1 DEF LockOf, Holding

LEMMA LockValueNext ==
    ASSUME IInv', NEW n \in GoodBlocks
    PROVE  /\ \A p \in Procs : Holding(p, n)' => LockOf'[n] = p
           /\ (\A p \in Procs : ~Holding(p, n)') => LockOf'[n] = None
<1>0. n # NODEV /\ GoodBlocks' = GoodBlocks
  BY BioConstants DEF GoodBlocks
<1>1. ASSUME NEW p \in Procs, Holding(p, n)' PROVE LockOf'[n] = p
  <2>1. ASSUME NEW q \in Procs, Holding(q, n)' PROVE p = q
    <3>1. bp'[p] \in Bufs /\ bp'[q] \in Bufs
      BY <1>1, <2>1 DEF IInv, LocalInv, Local, Holding
    <3>2. bp'[p] = bp'[q]
      BY <1>0, <1>1, <2>1, <3>1 DEF IInv, OneBufferPerBlock, Holding
    <3> QED BY <1>1, <2>1, <3>1, <3>2 DEF IInv, OwnInv, Owns, Holding
  <2>2. (CHOOSE q \in Procs : pc'[q] = "hold" /\ blk'[bp'[q]] = n) = p
    BY <1>1, <2>1 DEF Holding
  <2> QED BY <1>0, <1>1, <2>2 DEF LockOf, Holding
<1> QED BY <1>0, <1>1 DEF LockOf, Holding

(* A process that has a buffer keeps it, and what it was shown, whatever    *)
(* the others and the interrupt do.                                         *)
LEMMA HolderKept ==
    ASSUME Faulty = FALSE, IInv, IInv', GoodIsRead, StepKind,
           NEW q \in Procs, pc[q] = "hold", pc'[q] = "hold", bp'[q] = bp[q]
    PROVE  \A n \in GoodBlocks : Holding(q, n)' <=> Holding(q, n)
<1>1. SUFFICES ASSUME NEW n \in GoodBlocks PROVE blk'[bp[q]] = n <=> blk[bp[q]] = n
  BY DEF Holding
<1>2. n # NODEV /\ n \notin BadBlocks
  BY BioConstants DEF GoodBlocks
<1> DEFINE b == bp[q]
<1>3. b \in Bufs /\ b \notin ToSet(queue) /\ b \notin ToSet(queue') /\ "BUSY" \in flags[b]
  <2>1. b \in Bufs
    BY DEF IInv, LocalInv, Local
  <2>2. b \notin ToSet(queue) /\ "BUSY" \in flags[b]
    BY <2>1 DEF IInv, QueueInv, OwnInv, Owns, Busy
  <2>3. b \notin ToSet(queue')
    BY <2>1 DEF IInv, QueueInv
  <2> QED BY <2>1, <2>2, <2>3
<1> HIDE DEF b
<1>4. SUFFICES blk'[b] = n <=> blk[b] = n
  BY DEF b
<1>5. CASE Same(b)
  BY <1>5 DEF Same
<1>6. CASE GivenUp(b)
  BY <1>1, <1>2, <1>3, <1>6 DEF GivenUp, GoodIsRead
<1>7. CASE ReadStarted(b) \/ WriteStarted(b)
  BY <1>2, <1>3, <1>7 DEF ReadStarted, WriteStarted, Refused
<1>8. ~TransferDone(b) /\ ~TransferFailed(b) /\ ~\E m \in Blocks \cup {NODEV} : Reused(b, m)
  BY <1>3 DEF TransferDone, TransferFailed, Ended, Reused
<1>9. CASE Nothing
  BY <1>3, <1>5, <1>9 DEF Nothing
<1>10. ASSUME NEW c \in Bufs,
              \/ GivenUp(c) \/ ReadStarted(c) \/ TransferDone(c) \/ TransferFailed(c)
              \/ \E m \in Blocks \cup {NODEV} : Reused(c, m)
              \/ WriteStarted(c)
       PROVE  blk'[b] = n <=> blk[b] = n
  <2>1. Alone(c)
    BY <1>10 DEF GivenUp, ReadStarted, TransferDone, TransferFailed, Reused, WriteStarted, Ended
  <2>2. c = b \/ Same(b)
    BY <1>3, <2>1 DEF Alone
  <2> QED BY <1>5, <1>6, <1>7, <1>8, <1>10, <2>2
<1> QED BY <1>9, <1>10 DEF StepKind, QuietKind, Pushed

(* A step in which process q neither gets nor gives up a buffer.            *)
Kept(q) ==
    /\ pc'[q] = "hold" <=> pc[q] = "hold"
    /\ pc[q] = "hold" => bp'[q] = bp[q] /\ op'[q] = op[q] /\ data'[bp[q]] = data[bp[q]]

(* What the refinement argument knows of a step of a fault-free cache.      *)
Sound == IInv /\ GoodIsRead /\ CleanIsOnDisk

LEMMA KeptSees ==
    ASSUME Faulty = FALSE, Sound, Sound', StepKind, NEW q \in Procs, Kept(q)
    PROVE  /\ \A n \in GoodBlocks : Holding(q, n)' <=> Holding(q, n)
           /\ SeenOf'[q] = SeenOf[q]
<1>1. CASE pc[q] # "hold"
  BY <1>1 DEF Kept, Holding, SeenOf
<1>2. CASE pc[q] = "hold"
  <2>1. pc'[q] = "hold" /\ bp'[q] = bp[q] /\ op'[q] = op[q] /\ data'[bp[q]] = data[bp[q]]
    BY <1>2 DEF Kept
  <2>2. \A n \in GoodBlocks : Holding(q, n)' <=> Holding(q, n)
    BY <1>2, <2>1, HolderKept DEF Sound
  <2>3. blk'[bp[q]] \in GoodBlocks <=> blk[bp[q]] \in GoodBlocks
    BY <1>2, <2>1, <2>2 DEF Holding
  <2>4. bp[q] \in Bufs
    BY <1>2 DEF Sound, IInv, LocalInv, Local
  <2>5. GoodBlocks' = GoodBlocks
    BY DEF GoodBlocks
  <2>6. Showing(q)' <=> Showing(q)
    BY <1>2, <2>1, <2>3, <2>4, <2>5 DEF Sound, GoodIsRead, Showing
  <2>7. SeenOf'[q] = IF Showing(q)' THEN data'[bp'[q]] ELSE None
    BY <2>5 DEF SeenOf, Showing
  <2>8. SeenOf[q] = IF Showing(q) THEN data[bp[q]] ELSE None
    BY DEF SeenOf, Showing
  <2> QED BY <2>1, <2>2, <2>6, <2>7, <2>8
<1> QED BY <1>1, <1>2

(* The shape of the mapped variables.                                       *)
LEMMA MappedFunctions ==
    /\ LockOf = [n \in GoodBlocks |-> LockOf[n]]
    /\ LockOf' = [n \in GoodBlocks |-> LockOf'[n]]
    /\ SeenOf = [p \in Procs |-> SeenOf[p]]
    /\ SeenOf' = [p \in Procs |-> SeenOf'[p]]
<1>1. LockOf = [n \in GoodBlocks |-> LockOf[n]]
  BY DEF LockOf
<1>2. LockOf' = [n \in GoodBlocks |-> LockOf'[n]]
  BY DEF LockOf, GoodBlocks
<1>3. SeenOf = [p \in Procs |-> SeenOf[p]]
  BY DEF SeenOf
<1>4. SeenOf' = [p \in Procs |-> SeenOf'[p]]
  BY DEF SeenOf
<1> QED BY <1>1, <1>2, <1>3, <1>4

LEMMA AllKept ==
    ASSUME Faulty = FALSE, Sound, Sound', StepKind, \A q \in Procs : Kept(q)
    PROVE  LockOf' = LockOf /\ SeenOf' = SeenOf
<1>1. \A q \in Procs : SeenOf'[q] = SeenOf[q]
  BY KeptSees
<1>2. \A n \in GoodBlocks : LockOf'[n] = LockOf[n]
  <2>1. TAKE n \in GoodBlocks
  <2>2. \A q \in Procs : Holding(q, n)' <=> Holding(q, n)
    BY KeptSees
  <2> QED BY <2>2, LockValue, LockValueNext DEF Sound
<1> QED BY <1>1, <1>2, MappedFunctions

(* brelse, bwrite, bdwrite and bawrite give up the block and what was seen. *)
LEMMA GivesUp ==
    ASSUME Faulty = FALSE, Sound, Sound', StepKind, NEW p \in Procs,
           pc[p] = "hold", pc'[p] # "hold", \A q \in Procs : q # p => Kept(q)
    PROVE  IF blk[bp[p]] \in GoodBlocks
           THEN /\ LockOf[blk[bp[p]]] = p
                /\ LockOf' = [LockOf EXCEPT ![blk[bp[p]]] = None]
                /\ SeenOf' = [SeenOf EXCEPT ![p] = None]
           ELSE LockOf' = LockOf /\ SeenOf' = SeenOf
<1>0. PICK m : m = blk[bp[p]]
  OBVIOUS
<1>1. \A q \in Procs : q # p => SeenOf'[q] = SeenOf[q]
  BY KeptSees
<1>2. SeenOf'[p] = None /\ (m \notin GoodBlocks => SeenOf[p] = None)
  BY <1>0 DEF SeenOf
<1>3. \A q \in Procs, n \in GoodBlocks : q # p => (Holding(q, n)' <=> Holding(q, n))
  BY KeptSees
<1>4. \A n \in GoodBlocks : ~Holding(p, n)' /\ (Holding(p, n) <=> n = m)
  BY <1>0 DEF Holding
<1>5. ASSUME NEW n \in GoodBlocks, n # m PROVE LockOf'[n] = LockOf[n]
  <2>1. \A q \in Procs : Holding(q, n)' <=> Holding(q, n)
    BY <1>3, <1>4, <1>5
  <2> QED BY <2>1, LockValue, LockValueNext DEF Sound
<1>6. CASE m \in GoodBlocks
  <2>1. LockOf[m] = p
    BY <1>4, <1>6, LockValue DEF Sound
  <2>2. \A q \in Procs : ~Holding(q, m)'
    <3>1. TAKE q \in Procs
    <3>2. CASE q = p
      BY <1>4, <1>6, <3>2
    <3>3. CASE q # p
      <4>1. ~Holding(q, m)
        BY <1>4, <1>6, <2>1, <3>3, LockValue DEF Sound
      <4> QED BY <1>3, <1>6, <3>3, <4>1
    <3> QED BY <3>2, <3>3
  <2>3. LockOf'[m] = None
    BY <1>6, <2>2, LockValueNext DEF Sound
  <2>4. LockOf' = [LockOf EXCEPT ![m] = None]
    BY <1>5, <1>6, <2>3, MappedFunctions
  <2>5. SeenOf' = [SeenOf EXCEPT ![p] = None]
    BY <1>1, <1>2, MappedFunctions
  <2> QED BY <1>0, <1>6, <2>1, <2>4, <2>5
<1>7. CASE m \notin GoodBlocks
  <2>1. LockOf' = LockOf
    BY <1>5, <1>7, MappedFunctions
  <2>2. SeenOf' = SeenOf
    BY <1>1, <1>2, <1>7, MappedFunctions
  <2> QED BY <1>0, <1>7, <2>1, <2>2
<1> QED BY <1>6, <1>7

(* bread and getblk return with the buffer of a block nobody else has; what *)
(* bread shows is the value of the block.                                   *)
LEMMA Gets ==
    ASSUME Faulty = FALSE, Sound, Sound', StepKind, NEW p \in Procs,
           UNCHANGED <<flags, blk, data, queue, disk>>,
           pc[p] \in {"got", "iowait"}, pc'[p] = "hold", bp'[p] = bp[p], op'[p] = op[p],
           op[p] = "bread" => "DONE" \in flags[bp[p]],
           \A q \in Procs : q # p => Kept(q)
    PROVE  IF blk[bp[p]] \in GoodBlocks
           THEN /\ LockOf[blk[bp[p]]] = None
                /\ LockOf' = [LockOf EXCEPT ![blk[bp[p]]] = p]
                /\ \/ SeenOf' = [SeenOf EXCEPT ![p] = StoreOf[blk[bp[p]]]]
                   \/ SeenOf' = SeenOf
           ELSE LockOf' = LockOf /\ SeenOf' = SeenOf
<1>0. PICK m : m = blk[bp[p]]
  OBVIOUS
<1>1. \A q \in Procs : q # p => SeenOf'[q] = SeenOf[q]
  BY KeptSees
<1>2. bp[p] \in Bufs
  BY DEF Sound, IInv, LocalInv, Local
<1>3. \A q \in Procs, n \in GoodBlocks : q # p => (Holding(q, n)' <=> Holding(q, n))
  BY KeptSees
<1>4. \A n \in GoodBlocks : ~Holding(p, n) /\ (Holding(p, n)' <=> n = m)
  BY <1>0 DEF Holding
<1>5. SeenOf[p] = None
  BY DEF SeenOf
<1>6. m \in GoodBlocks /\ op[p] = "bread" => StoreOf[m] = data[bp[p]]
  BY <1>0, <1>2, StoreValue DEF Has, Valid, Sound
<1>7. m \notin GoodBlocks \/ op[p] # "bread" => SeenOf'[p] = None
  BY <1>0 DEF SeenOf, GoodBlocks
<1>8. m \in GoodBlocks /\ op[p] = "bread" => SeenOf'[p] = data[bp[p]]
  BY <1>0, <1>2 DEF SeenOf, GoodBlocks, Sound, GoodIsRead
<1>9. \A q \in Procs : Holding(q, m) /\ m \in GoodBlocks => q = p
  BY <1>0, OneHolder DEF Sound
<1>10. ASSUME NEW n \in GoodBlocks, n # m PROVE LockOf'[n] = LockOf[n]
  <2>1. \A q \in Procs : Holding(q, n)' <=> Holding(q, n)
    BY <1>3, <1>4, <1>10
  <2> QED BY <2>1, LockValue, LockValueNext DEF Sound
<1>11. CASE m \in GoodBlocks
  <2>1. \A q \in Procs : ~Holding(q, m)
    BY <1>4, <1>9, <1>11
  <2>2. LockOf[m] = None
    BY <1>11, <2>1, LockValue DEF Sound
  <2>3. LockOf'[m] = p
    BY <1>4, <1>11, LockValueNext DEF Sound
  <2>4. LockOf' = [LockOf EXCEPT ![m] = p]
    BY <1>10, <1>11, <2>3, MappedFunctions
  <2>5. CASE op[p] = "bread"
    <3>1. SeenOf' = [SeenOf EXCEPT ![p] = StoreOf[m]]
      BY <1>1, <1>6, <1>8, <1>11, <2>5, MappedFunctions
    <3> QED BY <1>0, <1>11, <2>2, <2>4, <3>1
  <2>6. CASE op[p] # "bread"
    <3>1. SeenOf' = SeenOf
      BY <1>1, <1>5, <1>7, <2>6, MappedFunctions
    <3> QED BY <1>0, <1>11, <2>2, <2>4, <3>1
  <2> QED BY <2>5, <2>6
<1>12. CASE m \notin GoodBlocks
  <2>1. LockOf' = LockOf
    BY <1>10, <1>12, MappedFunctions
  <2>2. SeenOf' = SeenOf
    BY <1>1, <1>5, <1>7, <1>12, MappedFunctions
  <2> QED BY <1>0, <1>12, <2>1, <2>2
<1> QED BY <1>11, <1>12

-----------------------------------------------------------------------------
(* Every step of the cache is a step of the store, or changes nothing there. *)
Mapped == <<StoreOf, LockOf, SeenOf>>

StoreStep ==
    \/ UNCHANGED Mapped
    \/ \E p \in Procs, n \in GoodBlocks :
          \/ /\ LockOf[n] = None
             /\ LockOf' = [LockOf EXCEPT ![n] = p]
             /\ \/ SeenOf' = [SeenOf EXCEPT ![p] = StoreOf[n]]
                \/ SeenOf' = SeenOf
             /\ StoreOf' = StoreOf
          \/ /\ LockOf[n] = p
             /\ LockOf' = [LockOf EXCEPT ![n] = None]
             /\ SeenOf' = [SeenOf EXCEPT ![p] = None]
             /\ \/ StoreOf' = StoreOf
                \/ \E v \in Vals : StoreOf' = [StoreOf EXCEPT ![n] = v]

LEMMA SilentStep ==
    ASSUME Faulty = FALSE, UserFaults = FALSE, Sound, Sound', QuietKind,
           \A q \in Procs : Kept(q)
    PROVE  StoreStep
<1>1. StoreOf' = StoreOf
  BY StoreKept DEF Sound
<1>2. LockOf' = LockOf /\ SeenOf' = SeenOf
  BY AllKept DEF StepKind
<1> QED BY <1>1, <1>2 DEF StoreStep, Mapped

(* A step of p that changes the locals of p alone, and no contents.         *)
LEMMA OthersKept ==
    ASSUME IInv, NEW p \in Procs, data' = data, NEW l, pc' = [pc EXCEPT ![p] = l],
           \A q \in Procs : q # p => bp'[q] = bp[q] /\ op'[q] = op[q]
    PROVE  /\ \A q \in Procs : q # p => Kept(q)
           /\ pc[p] # "hold" /\ l # "hold" => Kept(p)
BY DEF IInv, TypeOK, Kept

LEMMA ReleaseSimulation ==
    ASSUME Faulty = FALSE, UserFaults = FALSE, Sound, Sound', NEW p \in Procs, Release(p)
    PROVE  StoreStep
<1>1. QuietKind /\ IInv
  BY EveryOtherStep DEF Sound, Other
<1>2. StoreOf' = StoreOf
  BY <1>1, StoreKept DEF Sound
<1>3. pc[p] = "hold" /\ data' = data /\ pc' = [pc EXCEPT ![p] = "user"]
      /\ \A q \in Procs : q # p => bp'[q] = bp[q] /\ op'[q] = op[q]
  BY <1>1 DEF Release, Return, At, IInv, TypeOK
<1>4. pc'[p] # "hold" /\ \A q \in Procs : q # p => Kept(q)
  <2>1. pc'[p] = "user"
    BY <1>1, <1>3 DEF IInv, TypeOK
  <2>2. \A q \in Procs : q # p => Kept(q)
    BY <1>1, <1>3, OthersKept
  <2> QED BY <2>1, <2>2
<1>5. IF blk[bp[p]] \in GoodBlocks
      THEN /\ LockOf[blk[bp[p]]] = p
           /\ LockOf' = [LockOf EXCEPT ![blk[bp[p]]] = None]
           /\ SeenOf' = [SeenOf EXCEPT ![p] = None]
      ELSE LockOf' = LockOf /\ SeenOf' = SeenOf
  BY <1>1, <1>3, <1>4, GivesUp DEF StepKind
<1> QED BY <1>2, <1>5 DEF StoreStep, Mapped

LEMMA WriteSimulation ==
    ASSUME Faulty = FALSE, UserFaults = FALSE, Sound, Sound', NEW p \in Procs, Writes(p)
    PROVE  StoreStep
<1>1. IInv /\ IInv' /\ GoodIsRead
  BY DEF Sound
<1>2. WriteStarted(bp[p]) /\ pc[p] = "hold" /\ bp[p] \in Bufs
  BY <1>1, WriteContents, WritableFacts DEF Writes, Bdwrite, Bwrite, Bawrite
<1>3. PICK v \in Vals : data' = [data EXCEPT ![bp[p]] = v]
  BY DEF Writes, Bdwrite, Bwrite, Bawrite
<1>4. StepKind
  BY <1>2 DEF StepKind
<1>5. StoreOf' = IF blk[bp[p]] \in GoodBlocks THEN [StoreOf EXCEPT ![blk[bp[p]]] = v] ELSE StoreOf
  BY <1>1, <1>2, <1>3, StoreWritten
<1>6. pc'[p] # "hold" /\ \A q \in Procs : q # p => pc'[q] = pc[q] /\ bp'[q] = bp[q] /\ op'[q] = op[q]
  BY <1>1 DEF Writes, Bdwrite, Bwrite, Bawrite, Return, Goto, IInv, TypeOK
<1>7. ASSUME NEW q \in Procs, q # p PROVE Kept(q)
  <2>1. pc[q] = "hold" => bp[q] \in Bufs /\ bp[q] # bp[p]
    BY <1>1, <1>2, <1>7 DEF IInv, LocalInv, Local, OwnInv, Owns
  <2>2. pc[q] = "hold" => data'[bp[q]] = data[bp[q]]
    BY <1>1, <1>2, <1>3, <2>1 DEF IInv, TypeOK
  <2> QED BY <1>6, <1>7, <2>2 DEF Kept
<1>8. IF blk[bp[p]] \in GoodBlocks
      THEN /\ LockOf[blk[bp[p]]] = p
           /\ LockOf' = [LockOf EXCEPT ![blk[bp[p]]] = None]
           /\ SeenOf' = [SeenOf EXCEPT ![p] = None]
      ELSE LockOf' = LockOf /\ SeenOf' = SeenOf
  BY <1>2, <1>4, <1>6, <1>7, GivesUp
<1> QED BY <1>5, <1>8 DEF StoreStep, Mapped

(* getblk, bread and iowait return to the caller.                           *)
LEMMA ReturnSimulation ==
    ASSUME Faulty = FALSE, UserFaults = FALSE, Sound, Sound', NEW p \in Procs,
           Got(p) \/ Iowait(p), Hold(p)
    PROVE  StoreStep
<1>1. QuietKind /\ IInv
  BY EveryOtherStep DEF Sound, Other
<1>2. StoreOf' = StoreOf
  BY <1>1, StoreKept DEF Sound
<1>3. /\ pc[p] \in {"got", "iowait"} /\ pc'[p] = "hold"
      /\ UNCHANGED <<flags, blk, data, queue, disk>> /\ UNCHANGED <<bp, op>>
      /\ op[p] = "bread" => "DONE" \in flags[bp[p]]
  <2>1. pc'[p] = "hold"
    BY <1>1 DEF Hold, IInv, TypeOK
  <2>2. CASE Got(p)
    BY <1>1, <2>1, <2>2 DEF Got, At, cache, frame, Goto, IInv, TypeOK
  <2>3. CASE Iowait(p)
    BY <1>1, <2>1, <2>3 DEF Iowait, At, cache, frame, Sleep, Return, IInv, TypeOK
  <2> QED BY <2>2, <2>3
<1>4. \A q \in Procs : q # p => Kept(q)
  BY <1>1, <1>3, OthersKept DEF Hold
<1>5. IF blk[bp[p]] \in GoodBlocks
      THEN /\ LockOf[blk[bp[p]]] = None
           /\ LockOf' = [LockOf EXCEPT ![blk[bp[p]]] = p]
           /\ \/ SeenOf' = [SeenOf EXCEPT ![p] = StoreOf[blk[bp[p]]]]
              \/ SeenOf' = SeenOf
      ELSE LockOf' = LockOf /\ SeenOf' = SeenOf
  BY <1>1, <1>3, <1>4, Gets DEF StepKind
<1> QED BY <1>2, <1>5 DEF StoreStep, Mapped

(* Everything else a process does.                                          *)
LEMMA WorkSimulation ==
    ASSUME Faulty = FALSE, UserFaults = FALSE, Sound, Sound', NEW p \in Procs,
           Other(p), ~Release(p), ~Hold(p)
    PROVE  StoreStep
<1>1. QuietKind /\ IInv
  BY EveryOtherStep DEF Sound
<1>2. \E l : /\ pc' = [pc EXCEPT ![p] = l] /\ l # "hold" /\ pc[p] # "hold" /\ data' = data
             /\ \A q \in Procs : q # p => bp'[q] = bp[q] /\ op'[q] = op[q]
  <2> USE <1>1 DEF IInv, TypeOK, At, Goto, Sleep, Return, frame
  <2>1. CASE Call(p) \/ Breada(p)
    BY <2>1 DEF Call, Breada
  <2>2. CASE Search(p) \/ Found(p)
    BY <2>2 DEF Search, Found
  <2>3. CASE Take(p)
    BY <2>3 DEF Take
  <2>4. CASE Got(p)
    BY <2>4 DEF Got
  <2>5. CASE Ra(p) \/ GotRa(p)
    BY <2>5 DEF Ra, GotRa, AfterRa
  <2>6. CASE Iowait(p)
    BY <2>6 DEF Iowait
  <2>7. CASE Bflush(p)
    BY <2>7 DEF Bflush
  <2>8. CASE Age(p)
    BY <2>8 DEF Age, AgeReturn
  <2> QED BY <2>1, <2>2, <2>3, <2>4, <2>5, <2>6, <2>7, <2>8 DEF Other
<1>3. \A q \in Procs : Kept(q)
  BY <1>1, <1>2, OthersKept
<1> QED BY <1>1, <1>3, SilentStep

LEMMA StepSimulation ==
    ASSUME SplitAge = FALSE, Faulty = FALSE, UserFaults = FALSE, Sound, Sound', [Next]_vars
    PROVE  StoreStep
<1>1. CASE UNCHANGED vars
  <2>1. QuietKind
    BY <1>1, EveryOtherStep DEF Sound
  <2>2. \A q \in Procs : Kept(q)
    BY <1>1 DEF Kept, vars
  <2> QED BY <2>1, <2>2, SilentStep
<1>2. CASE RkintrDone
  <2>1. QuietKind /\ IInv
    BY <1>2, EveryOtherStep DEF Sound
  <2>2. /\ pc' = pc /\ bp' = bp /\ op' = op /\ queue # << >>
        /\ data' = data \/ data' = [data EXCEPT ![Head(queue)] = disk[blk[Head(queue)]]]
    BY <1>2 DEF RkintrDone, frame
  <2>3. Head(queue) \in Bufs /\ Head(queue) \in ToSet(queue)
    BY <2>1, <2>2, TailFacts DEF IInv, TypeOK, QueueInv
  <2>4. ASSUME NEW q \in Procs PROVE Kept(q)
    <3>1. pc[q] = "hold" => bp[q] \in Bufs /\ bp[q] # Head(queue)
      BY <2>1, <2>3 DEF IInv, LocalInv, Local, QueueInv
    <3>2. pc[q] = "hold" => data'[bp[q]] = data[bp[q]]
      BY <2>1, <2>2, <2>3, <3>1 DEF IInv, TypeOK
    <3> QED BY <2>2, <3>2 DEF Kept
  <2> QED BY <2>1, <2>4, SilentStep
<1>3. ~RkintrError
  BY DEF RkintrError
<1>4. ASSUME NEW p \in Procs, Other(p) \/ Writes(p) PROVE StoreStep
  <2>1. ASSUME Other(p), Hold(p) PROVE StoreStep \/ Got(p) \/ Iowait(p)
    <3> SUFFICES ASSUME ~Got(p), ~Iowait(p) PROVE FALSE
      OBVIOUS
    <3>1. pc'[p] = "hold" /\ cur' = None /\ TypeOK
      BY <2>1 DEF Hold, Sound, IInv, TypeOK
    <3> QED BY <2>1, <3>1, BioConstants DEF Other, Call, Breada, Search, Found, Take, Ra, GotRa, AfterRa,
             Release, Bflush, Age, AgeReturn, Goto, Return, Sleep, TypeOK
  <2> QED BY <1>4, <2>1, ReleaseSimulation, WriteSimulation, ReturnSimulation, WorkSimulation
<1> QED BY <1>1, <1>2, <1>3, <1>4, NextSplits DEF Sound

LEMMA InitSimulation ==
    ASSUME Init
    PROVE  /\ StoreOf = [n \in GoodBlocks |-> Zero]
           /\ LockOf = [n \in GoodBlocks |-> None]
           /\ SeenOf = [p \in Procs |-> None]
<1>1. \A b \in Bufs : ~Valid(b)
  BY DEF Init, Valid, ToSet
<1>2. StoreOf = [n \in GoodBlocks |-> Zero]
  BY <1>1 DEF Init, StoreOf, GoodBlocks
<1>3. LockOf = [n \in GoodBlocks |-> None]
  BY DEF Init, LockOf
<1>4. SeenOf = [p \in Procs |-> None]
  BY DEF Init, SeenOf
<1> QED BY <1>2, <1>3, <1>4

(* With a disk that does not fail, and a copy from user space that does not *)
(* fault half way, bread, getblk, bwrite, bdwrite, bawrite and brelse, over *)
(* any pool of buffers, are a store of blocks: a block is one process's at  *)
(* a time, and bread shows what was last written.                           *)
THEOREM CacheIsBlockStore ==
    ASSUME SplitAge = FALSE, Faulty = FALSE, UserFaults = FALSE
    PROVE  Spec => ImplementsBlockStore
<1>1. Init => Store!Init
  BY InitSimulation DEF Store!Init
<1>2. Sound /\ Sound' /\ [Next]_vars => [Store!Next]_(Store!vars)
  <2>1. StoreStep => Store!Next \/ UNCHANGED Store!vars
    BY DEF StoreStep, Mapped, Store!Next, Store!Acquire, Store!Release, Store!Write, Store!vars
  <2> QED BY <2>1, StepSimulation
<1>3. Init => GoodIsRead
  BY DEF Init, GoodIsRead
<1>4. IInv /\ GoodIsRead /\ [Next]_vars => GoodIsRead'
  BY EveryStep, GoodStep
<1>5. IInv /\ GoodIsRead /\ CleanIsOnDisk => Sound
  BY DEF Sound
<1> QED BY <1>1, <1>2, <1>3, <1>4, <1>5, InductiveInvariant, CleanBuffersOnDisk, PTL
       DEF Spec, ImplementsBlockStore, Store!Spec

-----------------------------------------------------------------------------
(* What getblk returns.  A buffer found by the search is not yet the        *)
(* caller's: only the interrupt can come between, and as long as no         *)
(* transfer fails it does not take the buffer's block away.                 *)
QueueIsClean == \A b \in ToSet(queue) : "ERROR" \notin flags[b]

Asked(q) ==
    /\ pc[q] \in {"found", "got"} /\ op[q] # "geteblk" => blk[bp[q]] = Want(q)
    /\ pc[q] = "hold" /\ op[q] # "geteblk" => blk[bp[q]] = blkno[q]
    /\ pc[q] = "iowait" /\ op[q] = "bread" => blk[bp[q]] = blkno[q]
    /\ held[q] # None => blk[held[q]] = blkno[q]

AskedInv == QueueIsClean /\ \A q \in Procs : Asked(q)

LEMMA QueueStep ==
    ASSUME IInv, IInv', QueueIsClean, StepKind
    PROVE  QueueIsClean'
<1>1. SUFFICES ASSUME NEW b \in ToSet(queue') PROVE "ERROR" \notin flags'[b]
  BY DEF QueueIsClean
<1>2. b \in Bufs /\ blk'[b] \in Blocks
  BY DEF IInv, TypeOK, QueueInv, ToSet
<1>3. CASE Same(b)
  BY <1>3 DEF Same, Mark, QueueIsClean
<1>4. CASE ReadStarted(b)
  BY <1>2, <1>4 DEF ReadStarted, Refused, NotQueued, Mark
<1>5. CASE WriteStarted(b)
  BY <1>5 DEF WriteStarted, Refused, NotQueued, Mark
<1>6. /\ ~GivenUp(b) /\ ~TransferDone(b) /\ ~TransferFailed(b)
      /\ ~\E n \in Blocks \cup {NODEV} : Reused(b, n)
  BY DEF GivenUp, Reused, NotQueued, TransferDone, TransferFailed, Ended
<1>7. CASE Nothing
  BY <1>2, <1>3, <1>7 DEF Nothing
<1>8. ASSUME NEW c \in Bufs,
             \/ GivenUp(c) \/ ReadStarted(c) \/ TransferDone(c) \/ TransferFailed(c)
             \/ \E n \in Blocks \cup {NODEV} : Reused(c, n)
             \/ WriteStarted(c)
      PROVE  "ERROR" \notin flags'[b]
  <2>1. Alone(c)
    BY <1>8 DEF GivenUp, ReadStarted, TransferDone, TransferFailed, Reused, WriteStarted, Ended
  <2>2. c = b \/ Same(b)
    BY <1>2, <2>1 DEF Alone
  <2> QED BY <1>3, <1>4, <1>5, <1>6, <1>8, <2>2
<1> QED BY <1>7, <1>8 DEF StepKind, QuietKind, Pushed

(* A buffer that somebody owns before and after a step keeps its block.     *)
LEMMA OwnedKeepsBlock ==
    ASSUME IInv, StepKind, NEW b \in Bufs, "BUSY" \in flags[b], "BUSY" \in flags'[b]
    PROVE  blk'[b] = blk[b]
<1>1. CASE Same(b)
  BY <1>1 DEF Same
<1>2. CASE GivenUp(b) \/ ReadStarted(b) \/ WriteStarted(b)
  BY <1>2 DEF GivenUp, ReadStarted, WriteStarted, Refused
<1>3. CASE TransferDone(b) \/ TransferFailed(b)
  BY <1>3 DEF TransferDone, TransferFailed, Ended
<1>4. ~\E n \in Blocks \cup {NODEV} : Reused(b, n)
  BY DEF Reused
<1>5. CASE Nothing
  BY <1>1, <1>5 DEF Nothing
<1>6. ASSUME NEW c \in Bufs,
             \/ GivenUp(c) \/ ReadStarted(c) \/ TransferDone(c) \/ TransferFailed(c)
             \/ \E n \in Blocks \cup {NODEV} : Reused(c, n)
             \/ WriteStarted(c)
      PROVE  blk'[b] = blk[b]
  <2>1. Alone(c)
    BY <1>6 DEF GivenUp, ReadStarted, TransferDone, TransferFailed, Reused, WriteStarted, Ended
  <2>2. c = b \/ Same(b)
    BY <2>1 DEF Alone
  <2> QED BY <1>1, <1>2, <1>3, <1>4, <1>6, <2>2
<1> QED BY <1>5, <1>6 DEF StepKind, QuietKind, Pushed

(* No transfer ends by taking the buffer's block away.                      *)
LEMMA InterruptKeepsBlocks ==
    ASSUME IInv, QueueIsClean, RkintrDone
    PROVE  \A b \in Bufs : blk'[b] = blk[b]
<1> DEFINE c == Head(queue)
<1>1. c \in Bufs /\ TransferDone(c)
  BY DoneContents
<1> HIDE DEF c
<1>2. "ERROR" \notin flags[c] /\ Alone(c)
  BY <1>1 DEF TransferDone, Ended, QueueIsClean
<1>3. blk'[c] = blk[c]
  BY <1>1, <1>2 DEF TransferDone, Ended, Mark
<1> QED BY <1>2, <1>3 DEF Alone, Same

LEMMA OthersAsked ==
    ASSUME IInv, IInv', StepKind, NEW p \in Procs, cur \in {None, p},
           NEW q \in Procs, q # p, Asked(q),
           pc'[q] = pc[q], bp'[q] = bp[q], op'[q] = op[q], blkno'[q] = blkno[q],
           rablkno'[q] = rablkno[q], held'[q] = held[q]
    PROVE  Asked(q)'
<1>1. pc[q] \notin {"found", "got"}
  BY BioConstants DEF IInv, LocalInv, Local
<1>2. pc[q] \in {"hold", "iowait"} => blk'[bp[q]] = blk[bp[q]]
  <2>1. SUFFICES ASSUME pc[q] \in {"hold", "iowait"} PROVE blk'[bp[q]] = blk[bp[q]]
    OBVIOUS
  <2>2. bp[q] \in Bufs /\ "BUSY" \in flags[bp[q]]
    BY <2>1 DEF IInv, LocalInv, Local, OwnInv, Owns, Busy
  <2>3. "BUSY" \in flags'[bp[q]]
    BY <2>1, <2>2 DEF IInv, OwnInv, Owns, Busy
  <2> QED BY <2>2, <2>3, OwnedKeepsBlock
<1>3. held[q] # None => blk'[held[q]] = blk[held[q]]
  <2>1. SUFFICES ASSUME held[q] # None PROVE blk'[held[q]] = blk[held[q]]
    OBVIOUS
  <2>2. held[q] \in Bufs /\ "BUSY" \in flags[held[q]]
    BY <2>1 DEF IInv, TypeOK, OwnInv, Owns, Busy
  <2>3. "BUSY" \in flags'[held[q]]
    BY <2>1, <2>2 DEF IInv, OwnInv, Owns, Busy
  <2> QED BY <2>2, <2>3, OwnedKeepsBlock
<1> QED BY <1>1, <1>2, <1>3 DEF Asked

(* The same for what the acting process had, and still has.                 *)
LEMMA StillHas ==
    ASSUME IInv, IInv', StepKind, NEW p \in Procs, NEW b \in Bufs,
           Owns(p, b), Owns(p, b)'
    PROVE  blk'[b] = blk[b]
BY OwnedKeepsBlock DEF IInv, OwnInv, Busy

LEMMA FetchAsked ==
    ASSUME IInv, IInv', StepKind, NEW p \in Procs, Asked(p), Got(p)
    PROVE  Asked(p)'
<1>1. TypeOK /\ pc[p] = "got" /\ bp[p] \in Bufs /\ op[p] # "ra" /\ held[p] = None
      /\ UNCHANGED <<op, blkno, rablkno, bp>>
  BY DEF IInv, LocalInv, Local, Got, At, frame
<1>2. CASE pc'[p] \in {"hold", "iowait"} /\ held' = held
  <2>1. blk'[bp[p]] = blk[bp[p]]
    BY <1>1, <1>2, StillHas DEF Owns
  <2> QED BY <1>1, <1>2, <2>1 DEF Asked, Want
<1>3. CASE op[p] = "breada" /\ held'[p] = bp[p] /\ pc'[p] = "ra"
  <2>1. blk'[bp[p]] = blk[bp[p]]
    BY <1>1, <1>3, StillHas DEF Owns
  <2> QED BY <1>1, <1>3, <2>1 DEF Asked, Want
<1> QED BY <1>1, <1>2, <1>3 DEF Got, Hold, Goto, TypeOK

LEMMA AheadAsked ==
    ASSUME IInv, IInv', StepKind, NEW p \in Procs, Asked(p), Ra(p) \/ GotRa(p)
    PROVE  Asked(p)'
<1>1. TypeOK /\ pc[p] \in {"ra", "got"} /\ op[p] \in {"breada", "ra"} /\ TypeOK'
  BY DEF IInv, LocalInv, Local, Ra, GotRa, At
<1>2. CASE AfterRa(p)
  <2>1. /\ pc'[p] = IF held[p] = None THEN "getblk" ELSE "iowait"
        /\ bp'[p] = held[p] /\ held'[p] = None /\ blkno' = blkno
    BY <1>1, <1>2 DEF AfterRa, Goto, TypeOK
  <2>2. held[p] # None => blk'[held[p]] = blk[held[p]]
    BY <1>1, <2>1, StillHas DEF Owns, TypeOK
  <2> QED BY <2>1, <2>2 DEF Asked
<1>3. CASE pc'[p] = "getblk" /\ UNCHANGED <<blkno, held>>
  <2>2. held[p] # None => blk'[held[p]] = blk[held[p]]
    BY <1>1, <1>3, StillHas DEF Owns, TypeOK
  <2> QED BY <1>3, <2>2 DEF Asked
<1> QED BY <1>1, <1>2, <1>3 DEF Ra, GotRa, Goto, TypeOK

LEMMA SearchAsked ==
    ASSUME IInv, IInv', StepKind, NEW p \in Procs, Asked(p), Search(p) \/ Found(p) \/ Take(p)
    PROVE  Asked(p)'
<1>1. TypeOK /\ UNCHANGED <<op, blkno, rablkno, held>> /\ Want(p)' = Want(p)
      /\ pc[p] \in {"getblk", "found"}
  BY DEF IInv, Search, Found, Take, Want, At
<1>2. held[p] # None => blk'[held[p]] = blk[held[p]]
  BY <1>1, StillHas DEF Owns, TypeOK
<1>3. pc'[p] \in {"found", "got"} => blk'[bp'[p]] = Want(p) \/ op[p] = "geteblk"
  <2>1. CASE Search(p)
    BY <1>1, <2>1 DEF Search, TypeOK, cache
  <2>2. CASE Found(p)
    BY <1>1, <2>2 DEF Found, TypeOK, At, Sleep, Goto, Asked
  <2>3. CASE Take(p)
    <3>1. CASE avail = << >>
      BY <1>1, <2>3, <3>1 DEF Take, Sleep, TypeOK
    <3>2. CASE avail # << >>
      <4>1. Head(avail) \in Bufs
        BY <1>1, <3>2, TailFacts DEF IInv, AvailIffNotBusy, TypeOK
      <4> QED BY <1>1, <2>3, <3>2, <4>1 DEF Take, Goto, TypeOK
    <3> QED BY <3>1, <3>2
  <2> QED BY <2>1, <2>2, <2>3
<1>4. pc'[p] \in {"getblk", "found", "got", "age"}
  BY <1>1 DEF Search, Found, Take, Sleep, Goto, TypeOK
<1> QED BY <1>1, <1>2, <1>3, <1>4 DEF Asked, Want

LEMMA RestAsked ==
    ASSUME IInv, IInv', StepKind, NEW p \in Procs, Asked(p),
           \/ Call(p) \/ Breada(p) \/ Iowait(p) \/ Release(p) \/ Bflush(p) \/ Age(p)
           \/ Writes(p)
    PROVE  Asked(p)'
<1>1. TypeOK /\ held' = held /\ (held[p] # None => op[p] = "ra" /\ pc[p] = "age")
  BY DEF IInv, LocalInv, Local, Call, Breada, Iowait, Release, Bflush, Age, Writes, Bdwrite,
         Bwrite, Bawrite, At
<1>2. CASE Age(p)
  <2>1. pc'[p] \in {"user", "bflush", "getblk"} /\ (blkno' = blkno \/ op[p] = "bawrite")
    BY <1>1, <1>2 DEF Age, AgeReturn, Return, Goto, TypeOK
  <2>2. held[p] # None => blk'[held[p]] = blk[held[p]]
    BY <1>1, StillHas DEF Owns, TypeOK
  <2> QED BY <1>1, <2>1, <2>2 DEF Asked
<1>3. CASE Iowait(p)
  <2>1. pc[p] = "iowait" /\ bp[p] \in Bufs
    BY <1>3 DEF Iowait, At, IInv, LocalInv, Local
  <2>2. CASE pc'[p] \in {"iowait", "hold"} /\ UNCHANGED <<frame, blk>>
             /\ (pc'[p] = "hold" => op[p] = "bread")
    BY <1>1, <2>1, <2>2 DEF Asked, frame
  <2>3. CASE pc'[p] = "user"
    BY <1>1, <2>1, <2>3 DEF Asked
  <2> QED BY <1>1, <1>3, <2>2, <2>3 DEF Iowait, Sleep, Hold, Return, cache, TypeOK
<1>4. CASE \/ Call(p) \/ Breada(p) \/ Release(p) \/ Bflush(p) \/ Writes(p)
  <2>1. /\ held[p] = None /\ pc'[p] \notin {"found", "got", "hold"}
        /\ pc'[p] = "iowait" => op'[p] = "bwrite"
    <3> USE <1>1 DEF At, Return, Goto, TypeOK
    <3>1. CASE Call(p) \/ Breada(p)
      BY <3>1 DEF Call, Breada
    <3>2. CASE Release(p) \/ Bflush(p)
      BY <3>2 DEF Release, Bflush
    <3>3. CASE Bdwrite(p) \/ Bwrite(p) \/ Bawrite(p)
      BY <3>3 DEF Bdwrite, Bwrite, Bawrite
    <3> QED BY <1>4, <3>1, <3>2, <3>3 DEF Writes
  <2> QED BY <1>1, <2>1 DEF Asked
<1> QED BY <1>2, <1>3, <1>4

LEMMA AskedStep ==
    ASSUME SplitAge = FALSE, Faulty = FALSE, IInv, IInv', AskedInv, [Next]_vars
    PROVE  AskedInv'
<1>1. StepKind
  BY EveryStep
<1>2. QueueIsClean'
  BY <1>1, QueueStep DEF AskedInv
<1>3. CASE UNCHANGED vars
  BY <1>3 DEF vars, AskedInv, QueueIsClean, Asked, Want
<1>4. CASE RkintrDone
  <2>1. UNCHANGED <<pc, op, blkno, rablkno, bp, held>> /\ \A b \in Bufs : blk'[b] = blk[b]
    BY <1>4, InterruptKeepsBlocks DEF RkintrDone, frame, AskedInv
  <2>2. ASSUME NEW q \in Procs PROVE Asked(q)'
    <3>1. /\ Asked(q) /\ (pc[q] \in {"found", "got", "hold", "iowait"} => bp[q] \in Bufs)
          /\ (held[q] # None => held[q] \in Bufs)
      BY DEF AskedInv, IInv, LocalInv, Local, TypeOK
    <3> QED BY <2>1, <3>1 DEF Asked, Want
  <2> QED BY <1>2, <2>2 DEF AskedInv
<1>5. ~RkintrError
  BY DEF RkintrError
<1>6. ASSUME NEW p \in Procs, Other(p) \/ Writes(p) PROVE AskedInv'
  <2>1. Asked(p) /\ cur \in {None, p}
    <3>1. \E l : At(p, l)
      BY <1>6 DEF Other, Writes, Call, Breada, Search, Found, Take, Got, Ra, GotRa, Iowait,
                  Release, Bflush, Age, Bdwrite, Bwrite, Bawrite
    <3> QED BY <3>1 DEF AskedInv, At
  <2>2. Asked(p)'
    BY <1>1, <1>6, <2>1, FetchAsked, AheadAsked, SearchAsked, RestAsked DEF Other
  <2>3. ASSUME NEW q \in Procs, q # p PROVE Asked(q)'
    <3>1. /\ pc'[q] = pc[q] /\ bp'[q] = bp[q] /\ op'[q] = op[q] /\ blkno'[q] = blkno[q]
          /\ rablkno'[q] = rablkno[q] /\ held'[q] = held[q]
      <4> USE <2>3 DEF IInv, TypeOK, Goto, Sleep, Hold, Return, frame
      <4>1. CASE Call(p) \/ Breada(p)
        BY <4>1 DEF Call, Breada
      <4>2. CASE Search(p) \/ Found(p)
        BY <4>2 DEF Search, Found
      <4>3. CASE Take(p)
        BY <4>3 DEF Take
      <4>4. CASE Got(p)
        BY <4>4 DEF Got
      <4>5. CASE Ra(p) \/ GotRa(p)
        BY <4>5 DEF Ra, GotRa, AfterRa
      <4>6. CASE Iowait(p) \/ Release(p)
        BY <4>6 DEF Iowait, Release
      <4>7. CASE Bflush(p)
        BY <4>7, ZenonT(60) DEF Bflush
      <4>8. CASE Age(p)
        BY <4>8 DEF Age, AgeReturn
      <4>9. CASE Writes(p)
        BY <4>9 DEF Writes, Bdwrite, Bwrite, Bawrite
      <4> QED BY <1>6, <4>1, <4>2, <4>3, <4>4, <4>5, <4>6, <4>7, <4>8, <4>9 DEF Other
    <3>2. Asked(q)
      BY DEF AskedInv
    <3> QED BY <1>1, <2>1, <2>3, <3>1, <3>2, OthersAsked
  <2> QED BY <1>2, <2>2, <2>3 DEF AskedInv
<1> QED BY <1>3, <1>4, <1>5, <1>6, NextSplits

(* getblk, bread and breada return a buffer for the block asked for, though *)
(* getblk looks for it with interrupts enabled and may sleep between: on a  *)
(* disk that does not fail, for any numbers of processes and buffers.       *)
THEOREM GetblkKeepsItsPromise ==
    ASSUME SplitAge = FALSE, Faulty = FALSE
    PROVE  Spec => []GetblkReturnsBlock
<1>1. Init => AskedInv
  BY BioConstants DEF Init, AskedInv, QueueIsClean, Asked, ToSet
<1>2. IInv /\ IInv' /\ AskedInv /\ [Next]_vars => AskedInv'
  BY AskedStep
<1>3. IInv /\ AskedInv => GetblkReturnsBlock
  BY DEF IInv, LocalInv, Local, AskedInv, Asked, GetblkReturnsBlock, Want
<1> QED BY <1>1, <1>2, <1>3, InductiveInvariant, PTL DEF Spec

=============================================================================
