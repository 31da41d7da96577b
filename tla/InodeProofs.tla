------------------------------ MODULE InodeProofs ------------------------------
(***************************************************************************)
(* Proof that the counts of an inode are exact and that what has a name is *)
(* allocated, for any number of processes, names, inodes and entries of    *)
(* the table: see InodesCounted and NamesAllocated.                        *)
(***************************************************************************)
EXTENDS InodeInvariant

-----------------------------------------------------------------------------
(* Steps that change what the counts of links see.                         *)

(* Another entry, of which p changes at most the lock and its references.  *)
OtherSlot(e, e1, r, r1, t) == SlotStep(e, e1, r, r1, t) /\ SameCore(e, e1) /\ SameMarks(r, r1, t)

LEMMA OtherSame ==
    ASSUME InodeInv, NEW p \in IProcs, NEW r, NEW t \in Slots,
           StillSlot(iu[p], r, t), SameMarks(iu[p], r, t)
    PROVE  OtherSlot(itab[t], itab[t], iu[p], r, t)
<1>1. itab[t] \in EntryRec /\ Entry(itab[t]) /\ (t = ROOT => RootEntry(itab[t]))
  BY Here DEF Table
<1>2. itab[t].count = itab[t].count - Refs(iu[p], t) + Refs(r, t)
  <2>1. Refs(iu[p], t) \in Nat /\ itab[t].count \in Nat
    BY <1>1, RefsNone DEF EntryRec
  <2> QED BY <2>1 DEF StillSlot
<1> QED BY <1>1, <1>2 DEF OtherSlot, SlotStep, SameEntry, SameCore, StillSlot

SamePend(v, w, t) == AllMade(w, t) = AllMade(v, t) /\ AllLinked(w, t) = AllLinked(v, t) /\ (Reading(w, t) <=> Reading(v, t))

LEMMA OtherPending ==
    ASSUME iu \in [IProcs -> IuRec], NEW p \in IProcs, NEW r \in IuRec,
           NEW s, \A t \in Slots : t # s => SameMarks(iu[p], r, t)
    PROVE  \A t \in Slots : t # s => SamePend(iu, [iu EXCEPT ![p] = r], t)
<1>1. TAKE t \in Slots
<1>2. HAVE t # s
<1>3. SameMarks(iu[p], r, t)
  BY <1>2
<1>4. PICK w : w = [iu EXCEPT ![p] = r]
  OBVIOUS
<1>5. AllMade(w, t) = AllMade(iu, t) /\ AllLinked(w, t) = AllLinked(iu, t) /\ (Reading(w, t) <=> Reading(iu, t))
  BY <1>3, <1>4, SamePending, Zenon
<1> QED BY <1>4, <1>5, Zenon DEF SamePend

LEMMA Cleared ==
    ASSUME NEW x \in BOOLEAN
    PROVE  Unlocked([FreeEntry EXCEPT !.want = x]) = FreeEntry /\ FreeEntry \in EntryRec
<1> DEFINE f == [FreeEntry EXCEPT !.want = x]
           g == Unlocked(f)
<1>1. FreeEntry \in EntryRec
  BY Values DEF FreeEntry, EntryRec
<1>2. f \in EntryRec
  BY <1>1 DEF EntryRec
<1>3. f.num = 0 /\ f.count = 0 /\ f.mode = 0 /\ f.nlink = 0 /\ f.chg = FALSE
  BY DEF FreeEntry
<1> HIDE DEF f
<1>4. g \in EntryRec
  BY <1>2 DEF EntryRec, Unlocked
<1>5. /\ g.num = 0 /\ g.count = 0 /\ g.lock = FALSE /\ g.want = FALSE /\ g.mode = 0 /\ g.nlink = 0 /\ g.chg = FALSE
  BY <1>2, <1>3 DEF EntryRec, Unlocked
<1> HIDE DEF g
<1>6. /\ FreeEntry.num = 0 /\ FreeEntry.count = 0 /\ FreeEntry.lock = FALSE /\ FreeEntry.want = FALSE
      /\ FreeEntry.mode = 0 /\ FreeEntry.nlink = 0 /\ FreeEntry.chg = FALSE
  BY DEF FreeEntry
<1>7. g = FreeEntry
  BY <1>1, <1>4, <1>5, <1>6 DEF EntryRec
<1> QED BY <1>1, <1>7 DEF g, f

(* Process p goes to r and changes entry s, which is or becomes that of    *)
(* inode i: what has to be shown of them.                                  *)
EntryChange(tab1, dn1, dr1, p, r, w, s, i) ==
    /\ SlotStep(itab[s], tab1[s], iu[p], r, s)
    /\ \A t \in Slots : t # s => OtherSlot(itab[t], tab1[t], iu[p], r, t)
    /\ itab[s].num \in {0, i} /\ tab1[s].num \in {0, i} /\ i \in {itab[s].num, tab1[s].num}
    /\ itab[s].num = 0 => \A t \in Slots : itab[t].num # i
    /\ dr1 = dir \/ iu[p].pp
    /\ \A j \in FileInos : j # i => dn1[j] = dino[j] /\ SameNames(dir, dr1, j)
    /\ tab1[s].count > 0 /\ ~Reading(w, s) => Core(tab1, dn1, dr1, w, s)
    /\ (tab1[s].num = i => Reading(w, s)) => Disk(dn1, dr1, i)
    /\ Local(dr1, r) /\ Knows(tab1, dr1, r)

LEMMA EntryStep ==
    ASSUME InodeInv, NEW p \in IProcs, NEW s \in Entries, NEW i \in FileInos,
           NEW tab1 \in [Slots -> EntryRec], NEW dn1 \in [Inos -> DiskRec],
           NEW dr1 \in [Names -> FileInos \cup {0}], NEW r \in IuRec, NEW w, w = [iu EXCEPT ![p] = r],
           EntryChange(tab1, dn1, dr1, p, r, w, s, i)
    PROVE  Sound(tab1, dn1, dr1, w)
<1>0. /\ SlotStep(itab[s], tab1[s], iu[p], r, s)
      /\ \A t \in Slots : t # s => OtherSlot(itab[t], tab1[t], iu[p], r, t)
      /\ itab[s].num \in {0, i} /\ tab1[s].num \in {0, i} /\ i \in {itab[s].num, tab1[s].num}
      /\ itab[s].num = 0 => \A t \in Slots : itab[t].num # i
      /\ dr1 = dir \/ iu[p].pp
      /\ \A j \in FileInos : j # i => dn1[j] = dino[j] /\ SameNames(dir, dr1, j)
      /\ tab1[s].count > 0 /\ ~Reading(w, s) => Core(tab1, dn1, dr1, w, s)
      /\ (tab1[s].num = i => Reading(w, s)) => Disk(dn1, dr1, i)
      /\ Local(dr1, r) /\ Knows(tab1, dr1, r)
  BY Zenon DEF EntryChange
<1> USE <1>0
<1>1. s \in Slots /\ i # 0 /\ Table(itab) /\ Sound(itab, dino, dir, iu)
  BY Here, Consts DEF Entries, FileInos
<1>2. \A t \in Slots : t # s => tab1[t].num = itab[t].num
  BY DEF OtherSlot, SameCore
<1>3. OneNumber(tab1)
  <2>1. SUFFICES ASSUME NEW t \in Slots, NEW u \in Slots, t # u, tab1[t].num = tab1[u].num
                 PROVE  tab1[t].num = 0
    BY DEF OneNumber
  <2>2. CASE t # s /\ u # s
    BY <1>1, <1>2, <2>1, <2>2 DEF Table
  <2>3. CASE t = s
    BY <1>1, <1>2, <2>1, <2>3 DEF Table
  <2>4. CASE u = s
    BY <1>1, <1>2, <2>1, <2>4 DEF Table
  <2> QED BY <2>2, <2>3, <2>4
<1>4. \A t \in Slots : t # s => SameCore(itab[t], tab1[t]) /\ SameMarks(iu[p], r, t)
  BY DEF OtherSlot
<1>9. \A t \in Slots : t # s => /\ AllMade(w, t) = AllMade(iu, t) /\ AllLinked(w, t) = AllLinked(iu, t)
                                /\ Reading(w, t) <=> Reading(iu, t)
  <2>1. iu \in [IProcs -> IuRec]
    BY Here
  <2>2. \A t \in Slots : t # s => SameMarks(iu[p], r, t)
    BY <1>4
  <2>3. \A t \in Slots : t # s => SamePend(iu, [iu EXCEPT ![p] = r], t)
    BY <2>1, <2>2, OtherPending, ZenonT(60)
  <2> QED BY <2>3 DEF SamePend
<1>5. LinksAdd(tab1, dn1, dr1, w)
  <2>1. iu \in [IProcs -> IuRec] /\ itab \in [Slots -> EntryRec] /\ Table(itab) /\ LinksAdd(itab, dino, dir, iu)
    BY <1>1 DEF Sound, Types
  <2>2. ASSUME NEW t \in Slots, t # s
        PROVE  AllMade(w, t) = AllMade(iu, t) /\ AllLinked(w, t) = AllLinked(iu, t) /\ (Reading(w, t) <=> Reading(iu, t))
    BY <1>9, <2>2
  <2>3. ASSUME NEW t \in Entries, tab1[t].count > 0, ~Reading(w, t)
        PROVE  Core(tab1, dn1, dr1, w, t)
    <3>1. CASE t = s
      BY <2>3, <3>1
    <3>2. CASE t # s
      <4>1. t \in Slots /\ SameCore(itab[t], tab1[t])
        BY <1>4, <3>2 DEF Entries
      <4>2. itab[t].count > 0 /\ tab1[t].num = itab[t].num
        BY <2>3, <4>1 DEF SameCore
      <4>3. itab[t].num \in FileInos
        BY <2>1, <4>2, FileEntry
      <4>4. itab[t].num # i
        <5>1. CASE i = 0
          BY <4>3, <5>1, Consts DEF FileInos
        <5>2. CASE i # 0 /\ i = itab[s].num
          BY <1>1, <2>1, <3>2, <4>1, <5>2 DEF Table
        <5>3. CASE i # 0 /\ i = tab1[s].num
          BY <1>1, <1>3, <3>2, <4>1, <4>2, <5>3 DEF OneNumber
        <5> QED BY <5>1, <5>2, <5>3
      <4>5. dn1[itab[t].num] = dino[itab[t].num] /\ SameNames(dir, dr1, itab[t].num)
        BY <4>3, <4>4
      <4>6. NamesOf(dr1, itab[t].num) = NamesOf(dir, itab[t].num)
        BY <4>5, SameNamesOf
      <4>7. Core(itab, dino, dir, iu, t)
        BY <2>1, <2>2, <2>3, <3>2, <4>1, <4>2 DEF LinksAdd
      <4>8. AllMade(w, t) = AllMade(iu, t) /\ AllLinked(w, t) = AllLinked(iu, t)
        BY <2>2, <3>2, <4>1
      <4> QED BY <4>1, <4>2, <4>5, <4>6, <4>7, <4>8 DEF Core, SameCore, SameNames
    <3> QED BY <3>1, <3>2
  <2>4. ASSUME NEW j \in FileInos, \A t \in Slots : tab1[t].num = j => Reading(w, t)
        PROVE  Disk(dn1, dr1, j)
    <3>1. CASE j = i
      BY <1>1, <2>4, <3>1
    <3>2. CASE j # i
      <4>1. ASSUME NEW t \in Slots, itab[t].num = j
            PROVE  Reading(iu, t)
        <5>1. t # s
          BY <3>2, <4>1, Consts DEF FileInos
        <5>2. tab1[t].num = j
          BY <1>4, <4>1, <5>1 DEF SameCore
        <5> QED BY <2>2, <2>4, <4>1, <5>1, <5>2
      <4>2. Disk(dino, dir, j)
        BY <2>1, <4>1 DEF LinksAdd
      <4>3. dn1[j] = dino[j] /\ SameNames(dir, dr1, j)
        BY <3>2
      <4>4. NamesOf(dr1, j) = NamesOf(dir, j)
        BY <4>3, SameNamesOf
      <4> QED BY <4>2, <4>3, <4>4 DEF Disk, SameNames
    <3> QED BY <3>1, <3>2
  <2> QED BY <2>3, <2>4 DEF LinksAdd
<1>6. \A t \in Slots : SlotStep(itab[t], tab1[t], iu[p], r, t)
  BY DEF OtherSlot
<1> QED BY <1>1, <1>3, <1>5, <1>6, Step, ZenonT(60)

LEMMA NobodyReads ==
    ASSUME InodeInv, NEW p \in IProcs, NEW s \in Slots, Holds(iu[p], s) \/ ~itab[s].lock,
           NEW r, r.pc # "iread"
    PROVE  ~Reading([iu EXCEPT ![p] = r], s)
<1>1. SUFFICES ASSUME NEW q \in IProcs, [iu EXCEPT ![p] = r][q].pc = "iread", [iu EXCEPT ![p] = r][q].ip = s
               PROVE  FALSE
  BY DEF Reading
<1>2. q # p /\ iu[q].pc = "iread" /\ iu[q].ip = s
  BY <1>1, Here
<1>3. Holds(iu[q], s) /\ itab[s].lock
  BY <1>2, Here DEF Holds, Locked, Knows
<1> QED BY <1>2, <1>3, Here DEF Sound, Exclusive

LEMMA CoreHere ==
    ASSUME InodeInv, NEW p \in IProcs, NEW s \in Entries, Holds(iu[p], s) \/ ~itab[s].lock,
           iu[p].pc # "iread", itab[s].count > 0
    PROVE  Core(itab, dino, dir, iu, s)
<1>1. [iu EXCEPT ![p] = iu[p]] = iu /\ s \in Slots
  BY Here DEF Entries
<1>2. ~Reading(iu, s)
  BY <1>1, NobodyReads
<1> QED BY <1>2, Here DEF Sound, LinksAdd

(* An entry that is alone has no links that are being made.                *)
LEMMA NonePending ==
    ASSUME InodeInv, NEW p \in IProcs, NEW s \in Entries, iu[p].ip = s, itab[s].count = 1,
           Linked(iu[p]) # s, Made(iu[p]) # s
    PROVE  AllLinked(iu, s) = 0 /\ AllMade(iu, s) = 0
<1>1. s \in Slots /\ iu \in [IProcs -> IuRec]
  BY Here DEF Entries
<1>2. Refs(iu[p], s) >= 1
  <2>1. Refs(iu[p], s) \in Nat /\ Refs(iu[p], s) # 0
    BY RefsNone
  <2> QED BY <2>1
<1>3. \A q \in IProcs : q # p => iu[q].ip # s
  <2>1. TAKE q \in IProcs
  <2>2. HAVE q # p
  <2>3. Refs(iu[q], s) = 0
    BY <1>1, <1>2, <2>2, Here, Alone, SMTT(60)
  <2> QED BY <2>3, RefsNone
<1>4. AllLinked(iu, s) = One(Linked(iu[p]), s) /\ AllMade(iu, s) = One(Made(iu[p]), s)
  BY <1>1, <1>3, PendingAlone
<1> QED BY <1>4 DEF One

(* The entry stays the inode's.                                            *)
LEMMA Changed ==
    ASSUME InodeInv, NEW p \in IProcs, NEW s \in Entries, NEW e1 \in EntryRec, NEW r \in IuRec,
           itab' = [itab EXCEPT ![s] = e1], dino' \in [Inos -> DiskRec], dir' \in [Names -> FileInos \cup {0}],
           e1.num = itab[s].num, itab[s].count > 0, r.pc # "iread", Holds(iu[p], s) \/ ~itab[s].lock,
           SlotStep(itab[s], e1, iu[p], r, s),
           \A t \in Slots : t # s => StillSlot(iu[p], r, t) /\ SameMarks(iu[p], r, t),
           dir' = dir \/ iu[p].pp,
           \A j \in FileInos : j # e1.num => dino'[j] = dino[j] /\ SameNames(dir, dir', j),
           Core(itab', dino', dir', [iu EXCEPT ![p] = r], s),
           Local(dir', r), Knows(itab', dir', r)
    PROVE  Sound(itab', dino', dir', [iu EXCEPT ![p] = r])
<1> DEFINE w == [iu EXCEPT ![p] = r]
<1>1. s \in Slots /\ itab \in [Slots -> EntryRec] /\ Table(itab)
  BY Here DEF Entries
<1>2. itab' \in [Slots -> EntryRec] /\ itab'[s] = e1 /\ \A t \in Slots : t # s => itab'[t] = itab[t]
  BY <1>1
<1>3. e1.num \in FileInos
  BY <1>1, FileEntry
<1>4. \A t \in Slots : t # s => OtherSlot(itab[t], itab'[t], iu[p], r, t)
  BY <1>2, OtherSame
<1>5. ~Reading(w, s)
  BY <1>1, NobodyReads
<1>6. e1.num # 0
  BY <1>3, Consts DEF FileInos
<1>7. SlotStep(itab[s], itab'[s], iu[p], r, s)
  BY <1>2
<1>8. /\ itab[s].num \in {0, e1.num} /\ itab'[s].num \in {0, e1.num} /\ e1.num \in {itab[s].num, itab'[s].num}
      /\ itab[s].num = 0 => \A t \in Slots : itab[t].num # e1.num
      /\ itab'[s].count > 0 /\ ~Reading(w, s) => Core(itab', dino', dir', w, s)
      /\ (itab'[s].num = e1.num => Reading(w, s)) => Disk(dino', dir', e1.num)
  BY <1>2, <1>5, <1>6
<1>9. w = [iu EXCEPT ![p] = r] /\ Core(itab', dino', dir', w, s) /\ (dir' = dir \/ iu[p].pp)
      /\ dino' \in [Inos -> DiskRec] /\ dir' \in [Names -> FileInos \cup {0}]
      /\ Local(dir', r) /\ Knows(itab', dir', r)
  BY DEF w
<1> HIDE DEF w
<1>10. PICK i \in FileInos : i = e1.num
  BY <1>3
<1>11. \A j \in FileInos : j # i => dino'[j] = dino[j] /\ SameNames(dir, dir', j)
  BY <1>10
<1>12. /\ itab[s].num \in {0, i} /\ itab'[s].num \in {0, i} /\ i \in {itab[s].num, itab'[s].num}
       /\ itab[s].num = 0 => \A t \in Slots : itab[t].num # i
       /\ (itab'[s].num = i => Reading(w, s)) => Disk(dino', dir', i)
  BY <1>8, <1>10
<1>13. EntryChange(itab', dino', dir', p, r, w, s, i)
  BY <1>4, <1>7, <1>9, <1>11, <1>12, Zenon DEF EntryChange
<1>14. Sound(itab', dino', dir', w)
  BY <1>2, <1>9, <1>13, EntryStep, ZenonT(60)
<1> QED BY <1>9, <1>14

(* The last reference to the entry goes, and the entry is cleared.         *)
LEMMA Freed ==
    ASSUME InodeInv, NEW p \in IProcs, NEW s \in Entries, NEW r \in IuRec, NEW dn1 \in [Inos -> DiskRec],
           iu[p].ip = s, Holds(iu[p], s), itab[s].count = 1, Refs(r, s) = 0, ~Holds(r, s), r.pc # "iread",
           \A t \in Slots : t # s => StillSlot(iu[p], r, t),
           Linked(r) = 0, Made(r) = 0, Linked(iu[p]) \in {0, s}, Made(iu[p]) \in {0, s},
           \A j \in FileInos : j # itab[s].num => dn1[j] = dino[j],
           Disk(dn1, dir, itab[s].num),
           Local(dir, r), Knows(itab, dir, r),
           NEW x \in BOOLEAN, PreleI(s, [FreeEntry EXCEPT !.want = x], [iu EXCEPT ![p] = r])
    PROVE  Sound(itab', dn1, dir, iu')
<1> DEFINE w == [iu EXCEPT ![p] = r]
<1>1. s \in Slots /\ itab \in [Slots -> EntryRec] /\ Table(itab) /\ iu \in [IProcs -> IuRec] /\ s # ROOT
  BY Here DEF Entries
<1>2. itab' = [itab EXCEPT ![s] = FreeEntry] /\ FreeEntry \in EntryRec
  <2>1. Unlocked([FreeEntry EXCEPT !.want = x]) = FreeEntry
    BY Cleared
  <2>2. FreeEntry \in EntryRec
    BY Values DEF FreeEntry, EntryRec
  <2> QED BY <2>1, <2>2 DEF PreleI
<1>3. itab' \in [Slots -> EntryRec] /\ itab'[s] = FreeEntry /\ \A t \in Slots : t # s => itab'[t] = itab[t]
  BY <1>1, <1>2
<1>4. itab[s].num \in FileInos
  BY <1>1, FileEntry
<1>5. Refs(iu[p], s) = 1 /\ \A q \in IProcs : q # p => Refs(iu[q], s) = 0
  <2>1. Refs(iu[p], s) \in Nat /\ Refs(iu[p], s) # 0
    BY RefsNone
  <2>2. itab[s].count <= 1 /\ Refs(iu[p], s) >= 1
    BY <2>1
  <2> QED BY <1>1, <2>2, Here, Alone, SMTT(60)
<1>6. SlotStep(itab[s], itab'[s], iu[p], r, s)
  <2>1. Entry(FreeEntry) /\ FreeEntry.count = 0
    BY DEF Entry, FreeEntry
  <2> QED BY <1>1, <1>3, <1>5, <2>1 DEF SlotStep
<1>7. \A t \in Slots : t # s => SameMarks(iu[p], r, t)
  BY Consts DEF SameMarks, Reads
<1>8. \A t \in Slots : t # s => OtherSlot(itab[t], itab'[t], iu[p], r, t)
  BY <1>3, <1>7, OtherSame
<1>9. Knows(itab', dir, r)
  <2>1. /\ r.ip \in 0 .. NINODE /\ r.tgt \in 0 .. NINODE /\ r.fd \in 0 .. NINODE /\ r.wfd \in 0 .. NINODE
        /\ \A t \in 0 .. NINODE : t # 0 => t \in Slots
    BY Values DEF IuRec
  <2>2. r.ip # s /\ r.tgt # s /\ r.fd # s /\ r.wfd # s
    BY RefsNone
  <2>3. \A t \in Slots : Holds(r, t) => itab'[t].lock
    BY <1>3 DEF Knows
  <2>4. r.pc \in Frees \cup {"wdir", "open1", "ctrunc"} \cup Plocks => r.ip # 0
    BY DEF Local, Locked, Plocks, MayFail, Frees
  <2>5. \A t \in 0 .. NINODE : t # 0 /\ t # s => itab'[t] = itab[t]
    BY <1>3, <2>1
  <2> QED BY <2>1, <2>2, <2>3, <2>4, <2>5 DEF Knows, Frees
<1>10. /\ itab[s].num \in {0, itab[s].num} /\ itab'[s].num \in {0, itab[s].num}
       /\ itab[s].num \in {itab[s].num, itab'[s].num}
       /\ itab[s].num = 0 => \A t \in Slots : itab[t].num # itab[s].num
       /\ ~(itab'[s].count > 0)
  <2>1. FreeEntry.num = 0 /\ FreeEntry.count = 0
    BY DEF FreeEntry
  <2> QED BY <1>3, <1>4, <2>1, Consts DEF FileInos
<1>11. \A j \in FileInos : j # itab[s].num => dn1[j] = dino[j] /\ SameNames(dir, dir, j)
  BY DEF SameNames
<1>12. dir \in [Names -> FileInos \cup {0}]
  BY Here
<1>13. /\ itab'[s].count > 0 /\ ~Reading(w, s) => Core(itab', dn1, dir, w, s)
       /\ (itab'[s].num = itab[s].num => Reading(w, s)) => Disk(dn1, dir, itab[s].num)
  BY <1>10
<1> HIDE DEF w
<1>14. w = [iu EXCEPT ![p] = r]
  BY DEF w
<1>15. PICK i \in FileInos : i = itab[s].num
  BY <1>4
<1>16. \A j \in FileInos : j # i => dn1[j] = dino[j] /\ SameNames(dir, dir, j)
  BY <1>11, <1>15
<1>17. /\ itab[s].num \in {0, i} /\ itab'[s].num \in {0, i} /\ i \in {itab[s].num, itab'[s].num}
       /\ itab[s].num = 0 => \A t \in Slots : itab[t].num # i
       /\ (itab'[s].num = i => Reading(w, s)) => Disk(dn1, dir, i)
       /\ itab'[s].count > 0 /\ ~Reading(w, s) => Core(itab', dn1, dir, w, s)
       /\ Local(dir, r) /\ Knows(itab', dir, r) /\ (dir = dir \/ iu[p].pp)
  BY <1>9, <1>10, <1>13, <1>15
<1>18. EntryChange(itab', dn1, dir, p, r, w, s, i)
  BY <1>6, <1>8, <1>9, <1>13, <1>16, <1>17, Zenon DEF EntryChange
<1>19. Sound(itab', dn1, dir, w)
  BY <1>3, <1>12, <1>14, <1>18, EntryStep, ZenonT(60)
<1> QED BY <1>1, <1>14, <1>19, Prele
(* Parts of the actions Named and IallocGot.                               *)
NamedCreat(p) ==
    /\ At(p, "named") /\ iu[p].ip # 0 /\ iu[p].tgt = 0 /\ ~Gone(iu[p].ip) /\ iu[p].op = "creat"
    /\ UNCHANGED <<dino, dir, sinode>>
    /\ itab' = [itab EXCEPT ![iu[p].ip].chg = TRUE] /\ iu' = [iu EXCEPT ![p].pc = "ctrunc"]

PipeMade(p) ==
    /\ At(p, "iagot") /\ iu[p].ip # 0 /\ itab[iu[p].ip].mode = 0 /\ iu[p].op = "pipe" /\ UNCHANGED <<dino, dir, sinode>>
    /\ itab' = [itab EXCEPT ![iu[p].ip] = [Unlocked(@) EXCEPT !.count = 2, !.mode = 1, !.chg = TRUE]]
    /\ iu' = Return([q \in IProcs |-> IF q = p THEN [iu[p] EXCEPT !.fd = iu[p].ip, !.wfd = iu[p].ip]
                                       ELSE [iu[q] EXCEPT !.lost = @ \/ iu[q].wait = iu[p].ip]], p)

LEMMA PendingTypes ==
    ASSUME NEW dr, NEW i
    PROVE  NamesOf(dr, i) \in Nat /\ (NamesOf(dr, i) = 0 <=> \A n \in Names : dr[n] # i)
BY Consts, CountIsNat DEF NamesOf

LEMMA NamesMoved ==
    \A dr, d1, i : \A n \in Names :
        (\A m \in Names : m # n => d1[m] = dr[m])
            => NamesOf(d1, i) = NamesOf(dr, i) - One(dr[n], i) + One(d1[n], i)
<1>1. IsFiniteSet(Names)
  BY Consts
<1> SUFFICES ASSUME NEW dr, NEW d1, NEW i, NEW n \in Names, \A m \in Names : m # n => d1[m] = dr[m]
             PROVE  NamesOf(d1, i) = NamesOf(dr, i) - One(dr[n], i) + One(d1[n], i)
  OBVIOUS
<1> QED BY <1>1, Moved DEF NamesOf

LEMMA PlockInv3 ==
    ASSUME InodeInv, NEW p \in IProcs, PlockI(p), ~itab[iu[p].ip].lock, iu[p].op = "link", ~iu[p].err
    PROVE  InodeInv'
<1> DEFINE r0 == iu[p]
           s == r0.ip
           e == itab[s]
           e1 == [e EXCEPT !.lock = TRUE, !.nlink = e.nlink + 1, !.chg = TRUE]
           r == [r0 EXCEPT !.pc = "iputip"]
<1>1. /\ r0.pc \in {"plock", "plock_woken"} /\ ~e.lock /\ r0.op = "link" /\ r0.err = FALSE
      /\ UNCHANGED <<dino, dir, sinode>>
      /\ itab' = [itab EXCEPT ![s] = e1]
      /\ iu' = [iu EXCEPT ![p] = r]
  <2>1. r0.pc \in {"plock", "plock_woken"} /\ ~e.lock /\ UNCHANGED <<dino, dir, sinode>>
        /\ itab' = [itab EXCEPT ![s].lock = TRUE, ![s].nlink = @ + 1, ![s].chg = TRUE]
        /\ iu' = [iu EXCEPT ![p].pc = "iputip"]
    BY DEF PlockI, At
  <2>2. [itab EXCEPT ![s].lock = TRUE, ![s].nlink = @ + 1, ![s].chg = TRUE] = [itab EXCEPT ![s] = e1]
    BY Here
  <2> QED BY <2>1, <2>2, Here DEF IuRec
<1>2. r0 \in IuRec /\ Local(dir, r0) /\ Knows(itab, dir, r0)
  BY Here
<1>3. s \in Entries /\ s \in Slots /\ s # ROOT /\ s # 0 /\ e \in EntryRec /\ Entry(e) /\ itab \in [Slots -> EntryRec]
  <2>1. s \in Slots /\ s # ROOT /\ s # 0
    BY <1>1, <1>2, Values DEF IuRec, Local, Locked, Plocks, MayFail, Frees
  <2> QED BY <2>1, Here DEF Table, Entries
<1>4. r \in IuRec
  <2>1. "iputip" \in Pcs
    BY <1>1, <1>2, <1>3, Values, Consts DEF IuRec
  <2> QED BY <1>2, <2>1 DEF IuRec
<1>5. /\ r.pc = "iputip" /\ r.op = r0.op /\ r.name = r0.name /\ r.ino = r0.ino /\ r.ip = r0.ip /\ r.tgt = r0.tgt
      /\ r.pp = r0.pp /\ r.ret = r0.ret /\ r.err = r0.err /\ r.fd = r0.fd /\ r.wfd = r0.wfd
  BY <1>2 DEF IuRec
<1>6. e1 \in EntryRec
      /\ e1.num = e.num /\ e1.count = e.count /\ e1.lock = TRUE /\ e1.mode = e.mode /\ e1.nlink = e.nlink + 1 /\ e1.chg = TRUE
  <2>1. e \in EntryRec /\ e.nlink + 1 \in Int
    BY <1>1, <1>3 DEF EntryRec
  <2> QED BY <1>1, <2>1 DEF EntryRec, Unlocked
<1>7. itab' \in [Slots -> EntryRec] /\ itab'[s] = e1 /\ \A t \in Slots : t # s => itab'[t] = itab[t]
  <2>1. itab' = [itab EXCEPT ![s] = e1]
    BY <1>1
  <2> QED BY <1>3, <1>6, <2>1
<1>8. dino' \in [Inos -> DiskRec] /\ dir' \in [Names -> FileInos \cup {0}] /\ dino'[ROOT].mode = 1
      /\ sinode' \in Seq(FileInos)
  BY <1>1, Here
<1> HIDE DEF r, e1
<1>9. Local(dir', r)
  BY <1>1, <1>2, <1>3, <1>5, Consts, SMTT(60) DEF Local, Locked, Frees, Goal, Without, Igets, Iallocs, MayFail, Plocks
<1>12. \A t \in Slots : t # s => StillSlot(r0, r, t) /\ SameMarks(r0, r, t)
  BY <1>1, <1>2, <1>3, <1>5, Consts, SMTT(60) DEF StillSlot, SameMarks, Linked, Made, Reads, Refs, One, Holds, Pp, Local, Locked, Frees, Goal, Without, Igets, Iallocs, MayFail, Plocks
<1>10. Knows(itab', dir', r)
  <2>4. Holds(r, s) => e1.lock
    BY <1>1, <1>2, <1>3, <1>5, <1>6 DEF Knows, Holds, Local, Locked, Frees, Goal, Without, Igets, Iallocs, MayFail, Plocks
  <2>2. \A t \in Slots : Holds(r, t) => itab'[t].lock
    BY <1>2, <1>7, <1>12, <2>4 DEF StillSlot, Knows
  <2>3. /\ r.ip \in 0 .. NINODE /\ r.tgt \in 0 .. NINODE /\ r.fd \in 0 .. NINODE /\ r.wfd \in 0 .. NINODE
        /\ \A t \in 0 .. NINODE : t # 0 => t \in Slots
    BY <1>4, Values DEF IuRec
  <2> QED BY <1>1, <1>2, <1>3, <1>5, <1>6, <1>7, <2>2, <2>3, Consts, SMTT(60) DEF Knows, Local, Locked, Frees, Goal, Without, Igets, Iallocs, MayFail, Plocks
<1>11. e.count > 0 /\ (Holds(r0, s) \/ ~e.lock) /\ SlotStep(e, e1, r0, r, s)
  <2>1. e1.count = e.count - Refs(r0, s) + Refs(r, s)
    BY <1>1, <1>2, <1>3, <1>5, <1>6, Consts, SMTT(60) DEF EntryRec, Refs, One, Pp, Local, Locked, Frees, Goal, Without, Igets, Iallocs, MayFail, Plocks
  <2>2. ~e.lock \/ Holds(r0, s)
    BY <1>1, <1>2, <1>3 DEF Holds, Local, Locked, Frees, Goal, Without, Igets, Iallocs, MayFail, Plocks
  <2>3. e.count > 0 /\ e1.count > 0
    BY <1>1, <1>2, <1>3, <1>6, SMTT(30) DEF Knows, Entry, FreeEntry, EntryRec, Frees, Plocks
  <2>4. Entry(e1) /\ (e.mode # 0 /\ e1.mode = 0 => e.count = 1 /\ Refs(r0, s) >= 1)
    <3>1. Refs(r0, s) \in Nat /\ (r0.ip = s => Refs(r0, s) # 0)
      BY RefsNone
    <3> QED BY <1>1, <1>2, <1>3, <1>6, <2>3, <3>1 DEF Knows, Entry, EntryRec, Frees
  <2> QED BY <1>3, <2>1, <2>2, <2>3, <2>4 DEF SlotStep
<1>13. r.pc # "iread" /\ r0.pc # "iread"
  BY <1>1, <1>5, Consts DEF Local, Frees
<1>14. Core(itab', dino', dir', [iu EXCEPT ![p] = r], s)
  <2>1. Core(itab, dino, dir, iu, s)
    BY <1>3, <1>11, <1>13, CoreHere
  <2>2. /\ AllMade([iu EXCEPT ![p] = r], s) = AllMade(iu, s) - One(Made(r0), s) + One(Made(r), s)
        /\ AllLinked([iu EXCEPT ![p] = r], s) = AllLinked(iu, s) - One(Linked(r0), s) + One(Linked(r), s)
        /\ AllMade(iu, s) \in Nat /\ AllLinked(iu, s) \in Nat
    BY <1>4, Here, MadeMove, LinkedMove, Zenon
  <2>3. Made(r0) = 0 /\ Made(r) = 0 /\ Linked(r0) = s /\ Linked(r) = 0 /\ 0 # s
    BY <1>1, <1>3, <1>5 DEF Made, Linked, Plocks
  <2>4. NamesOf(dir, e.num) \in Nat /\ One(s, s) = 1 /\ One(0, s) = 0
    BY <2>3, PendingTypes DEF One
  <2>10. e1.nlink = NamesOf(dir', e1.num) + AllMade([iu EXCEPT ![p] = r], s) - AllLinked([iu EXCEPT ![p] = r], s)
    BY <1>1, <1>3, <1>6, <2>1, <2>2, <2>3, <2>4 DEF Core, EntryRec
  <2>11. \A n \in Names : dir'[n] = e1.num => e1.mode # 0
    BY <1>1, <1>6, <2>1, <2>2, <2>3, <2>4 DEF Core
  <2>12. ~e1.chg => dino'[e1.num].mode = e1.mode /\ dino'[e1.num].nlink = e1.nlink
    BY <1>1, <1>6, <2>1 DEF Core
  <2> QED BY <1>7, <2>10, <2>11, <2>12 DEF Core
<1>15. \A j \in FileInos : j # e1.num => dino'[j] = dino[j] /\ SameNames(dir, dir', j)
  BY <1>1 DEF SameNames
<1>16. dir' = dir \/ r0.pp
  BY <1>1
<1>17. Sound(itab', dino', dir', [iu EXCEPT ![p] = r])
  <2>1. e1.num = itab[s].num /\ itab' = [itab EXCEPT ![s] = e1] /\ e1 \in EntryRec /\ SlotStep(itab[s], e1, iu[p], r, s)
        /\ itab[s].count > 0 /\ (Holds(iu[p], s) \/ ~itab[s].lock)
        /\ \A t \in Slots : t # s => StillSlot(iu[p], r, t) /\ SameMarks(iu[p], r, t)
    BY <1>1, <1>6, <1>11, <1>12
  <2> QED BY <1>3, <1>4, <1>8, <1>9, <1>10, <1>13, <1>14, <1>15, <1>16, <2>1, Changed, ZenonT(60)
<1> QED BY <1>1, <1>8, <1>17 DEF InodeInv

LEMMA NamedInv4 ==
    ASSUME InodeInv, NEW p \in IProcs, NamedCreat(p)
    PROVE  InodeInv'
<1> DEFINE r0 == iu[p]
           s == r0.ip
           e == itab[s]
           e1 == [e EXCEPT !.chg = TRUE]
           r == [r0 EXCEPT !.pc = "ctrunc"]
<1>1. /\ r0.pc = "named" /\ r0.ip # 0 /\ r0.tgt = 0 /\ r0.op = "creat" /\ e.mode # 0
      /\ UNCHANGED <<dino, dir, sinode>>
      /\ itab' = [itab EXCEPT ![s] = e1]
      /\ iu' = [iu EXCEPT ![p] = r]
  BY DEF NamedCreat, At, Gone
<1>2. r0 \in IuRec /\ Local(dir, r0) /\ Knows(itab, dir, r0)
  BY Here
<1>3. s \in Entries /\ s \in Slots /\ s # ROOT /\ s # 0 /\ e \in EntryRec /\ Entry(e) /\ itab \in [Slots -> EntryRec]
  <2>1. s \in Slots /\ s # ROOT /\ s # 0
    BY <1>1, <1>2, Values DEF IuRec, Local, Locked, Plocks, MayFail, Frees
  <2> QED BY <2>1, Here DEF Table, Entries
<1>4. r \in IuRec
  <2>1. "ctrunc" \in Pcs
    BY <1>1, <1>2, <1>3, Values, Consts DEF IuRec
  <2> QED BY <1>2, <2>1 DEF IuRec
<1>5. /\ r.pc = "ctrunc" /\ r.op = r0.op /\ r.name = r0.name /\ r.ino = r0.ino /\ r.ip = r0.ip /\ r.tgt = r0.tgt
      /\ r.pp = r0.pp /\ r.ret = r0.ret /\ r.err = r0.err /\ r.fd = r0.fd /\ r.wfd = r0.wfd
  BY <1>2 DEF IuRec
<1>6. e1 \in EntryRec
      /\ e1.num = e.num /\ e1.count = e.count /\ e1.lock = e.lock /\ e1.mode = e.mode /\ e1.nlink = e.nlink /\ e1.chg = TRUE
  <2>1. e \in EntryRec
    BY <1>1, <1>3 DEF EntryRec
  <2> QED BY <1>1, <2>1 DEF EntryRec, Unlocked
<1>7. itab' \in [Slots -> EntryRec] /\ itab'[s] = e1 /\ \A t \in Slots : t # s => itab'[t] = itab[t]
  <2>1. itab' = [itab EXCEPT ![s] = e1]
    BY <1>1
  <2> QED BY <1>3, <1>6, <2>1
<1>8. dino' \in [Inos -> DiskRec] /\ dir' \in [Names -> FileInos \cup {0}] /\ dino'[ROOT].mode = 1
      /\ sinode' \in Seq(FileInos)
  BY <1>1, Here
<1> HIDE DEF r, e1
<1>9. Local(dir', r)
  BY <1>1, <1>2, <1>3, <1>5, Consts, SMTT(60) DEF Local, Locked, Frees, Goal, Without, Igets, Iallocs, MayFail, Plocks
<1>12. \A t \in Slots : t # s => StillSlot(r0, r, t) /\ SameMarks(r0, r, t)
  BY <1>1, <1>2, <1>3, <1>5, Consts, SMTT(60) DEF StillSlot, SameMarks, Linked, Made, Reads, Refs, One, Holds, Pp, Local, Locked, Frees, Goal, Without, Igets, Iallocs, MayFail, Plocks
<1>10. Knows(itab', dir', r)
  <2>4. Holds(r, s) => e1.lock
    BY <1>1, <1>2, <1>3, <1>5, <1>6 DEF Knows, Holds, Local, Locked, Frees, Goal, Without, Igets, Iallocs, MayFail, Plocks
  <2>2. \A t \in Slots : Holds(r, t) => itab'[t].lock
    BY <1>2, <1>7, <1>12, <2>4 DEF StillSlot, Knows
  <2>3. /\ r.ip \in 0 .. NINODE /\ r.tgt \in 0 .. NINODE /\ r.fd \in 0 .. NINODE /\ r.wfd \in 0 .. NINODE
        /\ \A t \in 0 .. NINODE : t # 0 => t \in Slots
    BY <1>4, Values DEF IuRec
  <2> QED BY <1>1, <1>2, <1>3, <1>5, <1>6, <1>7, <2>2, <2>3, Consts, SMTT(60) DEF Knows, Local, Locked, Frees, Goal, Without, Igets, Iallocs, MayFail, Plocks
<1>11. e.count > 0 /\ (Holds(r0, s) \/ ~e.lock) /\ SlotStep(e, e1, r0, r, s)
  <2>1. e1.count = e.count - Refs(r0, s) + Refs(r, s)
    BY <1>1, <1>2, <1>3, <1>5, <1>6, Consts, SMTT(60) DEF EntryRec, Refs, One, Pp, Local, Locked, Frees, Goal, Without, Igets, Iallocs, MayFail, Plocks
  <2>2. ~e.lock \/ Holds(r0, s)
    BY <1>1, <1>2, <1>3 DEF Holds, Local, Locked, Frees, Goal, Without, Igets, Iallocs, MayFail, Plocks
  <2>3. e.count > 0 /\ e1.count > 0
    BY <1>1, <1>2, <1>3, <1>6, SMTT(30) DEF Knows, Entry, FreeEntry, EntryRec, Frees, Plocks
  <2>4. Entry(e1) /\ (e.mode # 0 /\ e1.mode = 0 => e.count = 1 /\ Refs(r0, s) >= 1)
    <3>1. Refs(r0, s) \in Nat /\ (r0.ip = s => Refs(r0, s) # 0)
      BY RefsNone
    <3> QED BY <1>1, <1>2, <1>3, <1>6, <2>3, <3>1 DEF Knows, Entry, EntryRec, Frees
  <2> QED BY <1>3, <2>1, <2>2, <2>3, <2>4 DEF SlotStep
<1>13. r.pc # "iread" /\ r0.pc # "iread"
  BY <1>1, <1>5, Consts DEF Local, Frees
<1>14. Core(itab', dino', dir', [iu EXCEPT ![p] = r], s)
  <2>1. Core(itab, dino, dir, iu, s)
    BY <1>3, <1>11, <1>13, CoreHere
  <2>2. /\ AllMade([iu EXCEPT ![p] = r], s) = AllMade(iu, s) - One(Made(r0), s) + One(Made(r), s)
        /\ AllLinked([iu EXCEPT ![p] = r], s) = AllLinked(iu, s) - One(Linked(r0), s) + One(Linked(r), s)
        /\ AllMade(iu, s) \in Nat /\ AllLinked(iu, s) \in Nat
    BY <1>4, Here, MadeMove, LinkedMove, Zenon
  <2>3. Made(r0) = 0 /\ Made(r) = 0 /\ Linked(r0) = 0 /\ Linked(r) = 0 /\ 0 # s
    BY <1>1, <1>3, <1>5 DEF Made, Linked, Plocks
  <2>4. NamesOf(dir, e.num) \in Nat /\ One(0, s) = 0
    BY <2>3, PendingTypes DEF One
  <2>10. e1.nlink = NamesOf(dir', e1.num) + AllMade([iu EXCEPT ![p] = r], s) - AllLinked([iu EXCEPT ![p] = r], s)
    BY <1>1, <1>3, <1>6, <2>1, <2>2, <2>3, <2>4 DEF Core, EntryRec
  <2>11. \A n \in Names : dir'[n] = e1.num => e1.mode # 0
    BY <1>1, <1>6, <2>1, <2>2, <2>3, <2>4 DEF Core
  <2>12. ~e1.chg => dino'[e1.num].mode = e1.mode /\ dino'[e1.num].nlink = e1.nlink
    BY <1>1, <1>6, <2>1 DEF Core
  <2> QED BY <1>7, <2>10, <2>11, <2>12 DEF Core
<1>15. \A j \in FileInos : j # e1.num => dino'[j] = dino[j] /\ SameNames(dir, dir', j)
  BY <1>1 DEF SameNames
<1>16. dir' = dir \/ r0.pp
  BY <1>1
<1>17. Sound(itab', dino', dir', [iu EXCEPT ![p] = r])
  <2>1. e1.num = itab[s].num /\ itab' = [itab EXCEPT ![s] = e1] /\ e1 \in EntryRec /\ SlotStep(itab[s], e1, iu[p], r, s)
        /\ itab[s].count > 0 /\ (Holds(iu[p], s) \/ ~itab[s].lock)
        /\ \A t \in Slots : t # s => StillSlot(iu[p], r, t) /\ SameMarks(iu[p], r, t)
    BY <1>1, <1>6, <1>11, <1>12
  <2> QED BY <1>3, <1>4, <1>8, <1>9, <1>10, <1>13, <1>14, <1>15, <1>16, <2>1, Changed, ZenonT(60)
<1> QED BY <1>1, <1>8, <1>17 DEF InodeInv

LEMMA UnlinkInv2 ==
    ASSUME InodeInv, NEW p \in IProcs, Unlink(p), iu[p].ip # 0
    PROVE  InodeInv'
<1> DEFINE r0 == iu[p]
           s == r0.ip
           e == itab[s]
           e1 == [e EXCEPT !.nlink = e.nlink - 1, !.chg = TRUE]
           r == [r0 EXCEPT !.name = "none", !.pc = "iputip"]
<1>1. /\ r0.pc = "unlink" /\ s # 0 /\ UNCHANGED <<dino, sinode>>
      /\ dir' = [dir EXCEPT ![r0.name] = 0]
      /\ itab' = [itab EXCEPT ![s] = e1]
      /\ iu' = [iu EXCEPT ![p] = r]
  <2>1. r0.pc = "unlink" /\ s # 0 /\ UNCHANGED <<dino, sinode>> /\ dir' = [dir EXCEPT ![r0.name] = 0]
        /\ itab' = [itab EXCEPT ![s].nlink = @ - 1, ![s].chg = TRUE]
        /\ iu' = [iu EXCEPT ![p].name = "none", ![p].pc = "iputip"]
    BY DEF Unlink, At
  <2>2. [itab EXCEPT ![s].nlink = @ - 1, ![s].chg = TRUE] = [itab EXCEPT ![s] = e1]
    BY Here
  <2>3. [iu EXCEPT ![p].name = "none", ![p].pc = "iputip"] = [iu EXCEPT ![p] = r]
    BY Here
  <2> QED BY <2>1, <2>2, <2>3
<1>2. r0 \in IuRec /\ Local(dir, r0) /\ Knows(itab, dir, r0)
  BY Here
<1>3. s \in Entries /\ s \in Slots /\ s # ROOT /\ s # 0 /\ e \in EntryRec /\ Entry(e) /\ itab \in [Slots -> EntryRec]
  <2>1. s \in Slots /\ s # ROOT /\ s # 0
    BY <1>1, <1>2, Values DEF IuRec, Local, Locked, Plocks, MayFail, Frees
  <2> QED BY <2>1, Here DEF Table, Entries
<1>18. r0.name \in Names /\ dir[r0.name] = e.num /\ r0.pp /\ e.lock /\ e.count > 0
  <2>1. r0.name \in Names /\ dir[r0.name] = e.num /\ r0.pp
    BY <1>1, <1>2 DEF Local, Knows, Goal, Igets, Frees
  <2>2. Holds(r0, s)
    BY <1>1 DEF Holds, Locked
  <2>3. e.lock /\ e.count # 0
    BY <1>2, <1>3, <2>2 DEF Knows, Entry, FreeEntry
  <2> QED BY <1>3, <2>1, <2>3 DEF EntryRec
<1>4. r \in IuRec
  <2>1. "iputip" \in Pcs
    BY <1>1, <1>2, <1>3, <1>18, Values, Consts DEF IuRec
  <2> QED BY <1>2, <2>1 DEF IuRec
<1>5. /\ r.pc = "iputip" /\ r.op = r0.op /\ r.name = "none" /\ r.ino = r0.ino /\ r.ip = r0.ip /\ r.tgt = r0.tgt
      /\ r.pp = r0.pp /\ r.ret = r0.ret /\ r.err = r0.err /\ r.fd = r0.fd /\ r.wfd = r0.wfd
  BY <1>2 DEF IuRec
<1>6. e1 \in EntryRec
      /\ e1.num = e.num /\ e1.count = e.count /\ e1.lock = e.lock /\ e1.mode = e.mode /\ e1.nlink = e.nlink - 1 /\ e1.chg = TRUE
  <2>1. e \in EntryRec /\ e.nlink - 1 \in Int
    BY <1>1, <1>3, <1>18 DEF EntryRec
  <2> QED BY <1>1, <2>1 DEF EntryRec, Unlocked
<1>7. itab' \in [Slots -> EntryRec] /\ itab'[s] = e1 /\ \A t \in Slots : t # s => itab'[t] = itab[t]
  <2>1. itab' = [itab EXCEPT ![s] = e1]
    BY <1>1
  <2> QED BY <1>3, <1>6, <2>1
<1>8. dino' \in [Inos -> DiskRec] /\ dir' \in [Names -> FileInos \cup {0}] /\ dino'[ROOT].mode = 1
      /\ sinode' \in Seq(FileInos)
  BY <1>1, Here, Consts
<1> HIDE DEF r, e1
<1>9. Local(dir', r)
  BY <1>1, <1>2, <1>3, <1>5, <1>18, Consts, SMTT(60) DEF Local, Locked, Frees, Goal, Without, Igets, Iallocs, MayFail, Plocks
<1>12. \A t \in Slots : t # s => StillSlot(r0, r, t) /\ SameMarks(r0, r, t)
  BY <1>1, <1>2, <1>3, <1>5, <1>18, Consts, SMTT(60) DEF StillSlot, SameMarks, Linked, Made, Reads, Refs, One, Holds, Pp, Local, Locked, Frees, Goal, Without, Igets, Iallocs, MayFail, Plocks
<1>10. Knows(itab', dir', r)
  <2>4. Holds(r, s) => e1.lock
    BY <1>1, <1>2, <1>3, <1>5, <1>6, <1>18 DEF Knows, Holds, Local, Locked, Frees, Goal, Without, Igets, Iallocs, MayFail, Plocks
  <2>2. \A t \in Slots : Holds(r, t) => itab'[t].lock
    BY <1>2, <1>7, <1>12, <2>4 DEF StillSlot, Knows
  <2>3. /\ r.ip \in 0 .. NINODE /\ r.tgt \in 0 .. NINODE /\ r.fd \in 0 .. NINODE /\ r.wfd \in 0 .. NINODE
        /\ \A t \in 0 .. NINODE : t # 0 => t \in Slots
    BY <1>4, Values DEF IuRec
  <2> QED BY <1>1, <1>2, <1>3, <1>5, <1>6, <1>7, <1>18, <2>2, <2>3, Consts, SMTT(60) DEF Knows, Local, Locked, Frees, Goal, Without, Igets, Iallocs, MayFail, Plocks
<1>11. e.count > 0 /\ (Holds(r0, s) \/ ~e.lock) /\ SlotStep(e, e1, r0, r, s)
  <2>1. e1.count = e.count - Refs(r0, s) + Refs(r, s)
    BY <1>1, <1>2, <1>3, <1>5, <1>6, <1>18, Consts, SMTT(60) DEF EntryRec, Refs, One, Pp, Local, Locked, Frees, Goal, Without, Igets, Iallocs, MayFail, Plocks
  <2>2. ~e.lock \/ Holds(r0, s)
    BY <1>1, <1>2, <1>3, <1>18 DEF Holds, Local, Locked, Frees, Goal, Without, Igets, Iallocs, MayFail, Plocks
  <2>3. e.count > 0 /\ e1.count > 0
    BY <1>1, <1>2, <1>3, <1>6, <1>18, SMTT(30) DEF Knows, Entry, FreeEntry, EntryRec, Frees, Plocks
  <2>4. Entry(e1) /\ (e.mode # 0 /\ e1.mode = 0 => e.count = 1 /\ Refs(r0, s) >= 1)
    <3>1. Refs(r0, s) \in Nat /\ (r0.ip = s => Refs(r0, s) # 0)
      BY RefsNone
    <3> QED BY <1>1, <1>2, <1>3, <1>6, <1>18, <2>3, <3>1 DEF Knows, Entry, EntryRec, Frees
  <2> QED BY <1>3, <2>1, <2>2, <2>3, <2>4 DEF SlotStep
<1>13. r.pc # "iread" /\ r0.pc # "iread"
  BY <1>1, <1>5, Consts DEF Local, Frees
<1>14. Core(itab', dino', dir', [iu EXCEPT ![p] = r], s)
  <2>1. Core(itab, dino, dir, iu, s)
    BY <1>3, <1>11, <1>13, CoreHere
  <2>2. /\ AllMade([iu EXCEPT ![p] = r], s) = AllMade(iu, s) - One(Made(r0), s) + One(Made(r), s)
        /\ AllLinked([iu EXCEPT ![p] = r], s) = AllLinked(iu, s) - One(Linked(r0), s) + One(Linked(r), s)
        /\ AllMade(iu, s) \in Nat /\ AllLinked(iu, s) \in Nat
    BY <1>4, Here, MadeMove, LinkedMove, Zenon
  <2>3. Made(r0) = 0 /\ Made(r) = 0 /\ Linked(r0) = 0 /\ Linked(r) = 0 /\ 0 # s
    BY <1>1, <1>3, <1>5 DEF Made, Linked, Plocks
  <2>4. NamesOf(dir, e.num) \in Nat /\ NamesOf(dir', e.num) = NamesOf(dir, e.num) - 1 /\ One(0, s) = 0
    <3>1. 0 # e.num
      BY <1>3, <1>11 DEF Entry
    <3>2. NamesOf(dir', e.num) = NamesOf(dir, e.num) - One(dir[r0.name], e.num) + One(0, e.num)
      <4>1. dir \in [Names -> FileInos \cup {0}] /\ r0.name \in Names
        BY <1>18, Here
      <4>2. \A m \in Names : m # r0.name => dir'[m] = dir[m]
        BY <1>1, <4>1
      <4>3. dir'[r0.name] = 0
        BY <1>1, <4>1
      <4>4. NamesOf(dir', e.num) = NamesOf(dir, e.num) - One(dir[r0.name], e.num) + One(dir'[r0.name], e.num)
        BY <4>1, <4>2, NamesMoved
      <4> QED BY <4>3, <4>4
    <3> QED BY <1>18, <2>3, <3>1, <3>2, PendingTypes DEF One
  <2>5. \A n \in Names : dir'[n] = e.num => dir[n] = e.num
    <3>1. e.num # 0
      BY <1>3, <1>11 DEF Entry
    <3> QED BY <1>1, <1>18, <3>1, Here
  <2>10. e1.nlink = NamesOf(dir', e1.num) + AllMade([iu EXCEPT ![p] = r], s) - AllLinked([iu EXCEPT ![p] = r], s)
    BY <1>1, <1>3, <1>6, <2>1, <2>2, <2>3, <2>4, <2>5 DEF Core, EntryRec
  <2>11. \A n \in Names : dir'[n] = e1.num => e1.mode # 0
    BY <1>1, <1>6, <2>1, <2>2, <2>3, <2>4, <2>5 DEF Core
  <2>12. ~e1.chg => dino'[e1.num].mode = e1.mode /\ dino'[e1.num].nlink = e1.nlink
    BY <1>1, <1>6, <2>1 DEF Core
  <2> QED BY <1>7, <2>10, <2>11, <2>12 DEF Core
<1>15. \A j \in FileInos : j # e1.num => dino'[j] = dino[j] /\ SameNames(dir, dir', j)
  <2>1. \A n \in Names : n # r0.name => dir'[n] = dir[n]
    BY <1>1, Here
  <2>2. dir'[r0.name] = 0 /\ \A j \in FileInos : j # 0
    BY <1>1, <1>18, Here, Consts DEF FileInos
  <2> QED BY <1>1, <1>6, <1>18, <2>1, <2>2 DEF SameNames
<1>16. dir' = dir \/ r0.pp
  BY <1>18
<1>17. Sound(itab', dino', dir', [iu EXCEPT ![p] = r])
  <2>1. e1.num = itab[s].num /\ itab' = [itab EXCEPT ![s] = e1] /\ e1 \in EntryRec /\ SlotStep(itab[s], e1, iu[p], r, s)
        /\ itab[s].count > 0 /\ (Holds(iu[p], s) \/ ~itab[s].lock)
        /\ \A t \in Slots : t # s => StillSlot(iu[p], r, t) /\ SameMarks(iu[p], r, t)
    BY <1>1, <1>6, <1>11, <1>12
  <2> QED BY <1>3, <1>4, <1>8, <1>9, <1>10, <1>13, <1>14, <1>15, <1>16, <2>1, Changed, ZenonT(60)
<1> QED BY <1>1, <1>8, <1>17 DEF InodeInv

LEMMA IallocGotInv2 ==
    ASSUME InodeInv, NEW p \in IProcs, IallocGot(p), iu[p].ip # 0, itab[iu[p].ip].mode = 0, iu[p].op = "creat"
    PROVE  InodeInv'
<1> DEFINE r0 == iu[p]
           s == r0.ip
           e == itab[s]
           e1 == [e EXCEPT !.mode = 1, !.nlink = 1, !.chg = TRUE]
           r == [r0 EXCEPT !.pc = "wdir"]
<1>1. /\ r0.pc = "iagot" /\ s # 0 /\ e.mode = 0 /\ r0.op = "creat" /\ UNCHANGED <<dino, dir, sinode>>
      /\ itab' = [itab EXCEPT ![s] = e1]
      /\ iu' = [iu EXCEPT ![p] = r]
  <2>1. r0.pc = "iagot" /\ s # 0 /\ e.mode = 0 /\ r0.op = "creat" /\ UNCHANGED <<dino, dir, sinode>>
        /\ itab' = [itab EXCEPT ![s].mode = 1, ![s].nlink = 1, ![s].chg = TRUE]
        /\ iu' = [iu EXCEPT ![p].pc = "wdir"]
    BY DEF IallocGot, At
  <2>2. [itab EXCEPT ![s].mode = 1, ![s].nlink = 1, ![s].chg = TRUE] = [itab EXCEPT ![s] = e1]
    BY Here
  <2> QED BY <2>1, <2>2
<1>2. r0 \in IuRec /\ Local(dir, r0) /\ Knows(itab, dir, r0)
  BY Here
<1>3. s \in Entries /\ s \in Slots /\ s # ROOT /\ s # 0 /\ e \in EntryRec /\ Entry(e) /\ itab \in [Slots -> EntryRec]
  <2>1. s \in Slots /\ s # ROOT /\ s # 0
    BY <1>1, <1>2, Values DEF IuRec, Local, Locked, Plocks, MayFail, Frees
  <2> QED BY <2>1, Here DEF Table, Entries
<1>18. e.count = 1 /\ e.lock
  <2>1. Holds(r0, s) /\ Refs(r0, s) # 0
    BY <1>1, RefsNone DEF Holds, Locked
  <2>2. e.count # 0
    BY <1>2, <1>3, <2>1 DEF Knows, Entry, FreeEntry
  <2> QED BY <1>1, <1>3, <2>2 DEF Entry, EntryRec
<1>4. r \in IuRec
  <2>1. "wdir" \in Pcs
    BY <1>1, <1>2, <1>3, <1>18, Values, Consts DEF IuRec
  <2> QED BY <1>2, <2>1 DEF IuRec
<1>5. /\ r.pc = "wdir" /\ r.op = r0.op /\ r.name = r0.name /\ r.ino = r0.ino /\ r.ip = r0.ip /\ r.tgt = r0.tgt
      /\ r.pp = r0.pp /\ r.ret = r0.ret /\ r.err = r0.err /\ r.fd = r0.fd /\ r.wfd = r0.wfd
  BY <1>2 DEF IuRec
<1>6. e1 \in EntryRec
      /\ e1.num = e.num /\ e1.count = e.count /\ e1.lock = e.lock /\ e1.mode = 1 /\ e1.nlink = 1 /\ e1.chg = TRUE
  <2>1. e \in EntryRec /\ 1 \in {0, 1} /\ 1 \in Int
    BY <1>1, <1>3, <1>18 DEF EntryRec
  <2> QED BY <1>1, <2>1 DEF EntryRec, Unlocked
<1>7. itab' \in [Slots -> EntryRec] /\ itab'[s] = e1 /\ \A t \in Slots : t # s => itab'[t] = itab[t]
  <2>1. itab' = [itab EXCEPT ![s] = e1]
    BY <1>1
  <2> QED BY <1>3, <1>6, <2>1
<1>8. dino' \in [Inos -> DiskRec] /\ dir' \in [Names -> FileInos \cup {0}] /\ dino'[ROOT].mode = 1
      /\ sinode' \in Seq(FileInos)
  BY <1>1, Here
<1> HIDE DEF r, e1
<1>9. Local(dir', r)
  BY <1>1, <1>2, <1>3, <1>5, <1>18, Consts, SMTT(60) DEF Local, Locked, Frees, Goal, Without, Igets, Iallocs, MayFail, Plocks
<1>12. \A t \in Slots : t # s => StillSlot(r0, r, t) /\ SameMarks(r0, r, t)
  BY <1>1, <1>2, <1>3, <1>5, <1>18, Consts, SMTT(60) DEF StillSlot, SameMarks, Linked, Made, Reads, Refs, One, Holds, Pp, Local, Locked, Frees, Goal, Without, Igets, Iallocs, MayFail, Plocks
<1>10. Knows(itab', dir', r)
  <2>4. Holds(r, s) => e1.lock
    BY <1>1, <1>2, <1>3, <1>5, <1>6, <1>18 DEF Knows, Holds, Local, Locked, Frees, Goal, Without, Igets, Iallocs, MayFail, Plocks
  <2>2. \A t \in Slots : Holds(r, t) => itab'[t].lock
    BY <1>2, <1>7, <1>12, <2>4 DEF StillSlot, Knows
  <2>3. /\ r.ip \in 0 .. NINODE /\ r.tgt \in 0 .. NINODE /\ r.fd \in 0 .. NINODE /\ r.wfd \in 0 .. NINODE
        /\ \A t \in 0 .. NINODE : t # 0 => t \in Slots
    BY <1>4, Values DEF IuRec
  <2> QED BY <1>1, <1>2, <1>3, <1>5, <1>6, <1>7, <1>18, <2>2, <2>3, Consts, SMTT(60) DEF Knows, Local, Locked, Frees, Goal, Without, Igets, Iallocs, MayFail, Plocks
<1>11. e.count > 0 /\ (Holds(r0, s) \/ ~e.lock) /\ SlotStep(e, e1, r0, r, s)
  <2>1. e1.count = e.count - Refs(r0, s) + Refs(r, s)
    BY <1>1, <1>2, <1>3, <1>5, <1>6, <1>18, Consts, SMTT(60) DEF EntryRec, Refs, One, Pp, Local, Locked, Frees, Goal, Without, Igets, Iallocs, MayFail, Plocks
  <2>2. ~e.lock \/ Holds(r0, s)
    BY <1>1, <1>2, <1>3, <1>18 DEF Holds, Local, Locked, Frees, Goal, Without, Igets, Iallocs, MayFail, Plocks
  <2>3. e.count > 0 /\ e1.count > 0
    BY <1>1, <1>2, <1>3, <1>6, <1>18, SMTT(30) DEF Knows, Entry, FreeEntry, EntryRec, Frees, Plocks
  <2>4. Entry(e1) /\ (e.mode # 0 /\ e1.mode = 0 => e.count = 1 /\ Refs(r0, s) >= 1)
    <3>1. Refs(r0, s) \in Nat /\ (r0.ip = s => Refs(r0, s) # 0)
      BY RefsNone
    <3> QED BY <1>1, <1>2, <1>3, <1>6, <1>18, <2>3, <3>1 DEF Knows, Entry, EntryRec, Frees
  <2> QED BY <1>3, <2>1, <2>2, <2>3, <2>4 DEF SlotStep
<1>13. r.pc # "iread" /\ r0.pc # "iread"
  BY <1>1, <1>5, Consts DEF Local, Frees
<1>14. Core(itab', dino', dir', [iu EXCEPT ![p] = r], s)
  <2>1. Core(itab, dino, dir, iu, s)
    BY <1>3, <1>11, <1>13, CoreHere
  <2>2. /\ AllMade([iu EXCEPT ![p] = r], s) = AllMade(iu, s) - One(Made(r0), s) + One(Made(r), s)
        /\ AllLinked([iu EXCEPT ![p] = r], s) = AllLinked(iu, s) - One(Linked(r0), s) + One(Linked(r), s)
        /\ AllMade(iu, s) \in Nat /\ AllLinked(iu, s) \in Nat
    BY <1>4, Here, MadeMove, LinkedMove, Zenon
  <2>3. Made(r0) = 0 /\ Made(r) = s /\ Linked(r0) = 0 /\ Linked(r) = 0 /\ 0 # s
    BY <1>1, <1>3, <1>5 DEF Made, Linked, Plocks
  <2>4. NamesOf(dir, e.num) = 0
    BY <1>1, <2>1, PendingTypes DEF Core
  <2>5. AllLinked(iu, s) = 0 /\ AllMade(iu, s) = 0
    BY <1>3, <1>18, <2>3, NonePending
  <2>6. One(0, s) = 0 /\ One(s, s) = 1
    BY <2>3 DEF One
  <2>10. e1.nlink = NamesOf(dir', e1.num) + AllMade([iu EXCEPT ![p] = r], s) - AllLinked([iu EXCEPT ![p] = r], s)
    BY <1>1, <1>3, <1>6, <2>1, <2>2, <2>3, <2>4, <2>5, <2>6 DEF Core, EntryRec
  <2>11. \A n \in Names : dir'[n] = e1.num => e1.mode # 0
    BY <1>1, <1>6, <2>1, <2>2, <2>3, <2>4, <2>5, <2>6 DEF Core
  <2>12. ~e1.chg => dino'[e1.num].mode = e1.mode /\ dino'[e1.num].nlink = e1.nlink
    BY <1>1, <1>6, <2>1 DEF Core
  <2> QED BY <1>7, <2>10, <2>11, <2>12 DEF Core
<1>15. \A j \in FileInos : j # e1.num => dino'[j] = dino[j] /\ SameNames(dir, dir', j)
  BY <1>1 DEF SameNames
<1>16. dir' = dir \/ r0.pp
  BY <1>1
<1>17. Sound(itab', dino', dir', [iu EXCEPT ![p] = r])
  <2>1. e1.num = itab[s].num /\ itab' = [itab EXCEPT ![s] = e1] /\ e1 \in EntryRec /\ SlotStep(itab[s], e1, iu[p], r, s)
        /\ itab[s].count > 0 /\ (Holds(iu[p], s) \/ ~itab[s].lock)
        /\ \A t \in Slots : t # s => StillSlot(iu[p], r, t) /\ SameMarks(iu[p], r, t)
    BY <1>1, <1>6, <1>11, <1>12
  <2> QED BY <1>3, <1>4, <1>8, <1>9, <1>10, <1>13, <1>14, <1>15, <1>16, <2>1, Changed, ZenonT(60)
<1> QED BY <1>1, <1>8, <1>17 DEF InodeInv

LEMMA IputFreeInv ==
    ASSUME InodeInv, NEW p \in IProcs, IputFree(p)
    PROVE  InodeInv'
<1> DEFINE r0 == iu[p]
           s == r0.ip
           e == itab[s]
           e1 == [e EXCEPT !.mode = 0, !.chg = TRUE]
           r == [r0 EXCEPT !.pc = "iupdat"]
<1>1. /\ r0.pc = "itrunc" /\ UNCHANGED <<dino, dir>> /\ sinode' = Ifree(e.num)
      /\ itab' = [itab EXCEPT ![s] = e1]
      /\ iu' = [iu EXCEPT ![p] = r]
  <2>1. r0.pc = "itrunc" /\ UNCHANGED <<dino, dir>> /\ sinode' = Ifree(e.num)
        /\ itab' = [itab EXCEPT ![s].mode = 0, ![s].chg = TRUE] /\ iu' = [iu EXCEPT ![p].pc = "iupdat"]
    BY DEF IputFree, At
  <2>2. [itab EXCEPT ![s].mode = 0, ![s].chg = TRUE] = [itab EXCEPT ![s] = e1]
    BY Here
  <2> QED BY <2>1, <2>2, Here
<1>2. r0 \in IuRec /\ Local(dir, r0) /\ Knows(itab, dir, r0)
  BY Here
<1>3. s \in Entries /\ s \in Slots /\ s # ROOT /\ s # 0 /\ e \in EntryRec /\ Entry(e) /\ itab \in [Slots -> EntryRec]
  <2>1. s \in Slots /\ s # ROOT /\ s # 0
    BY <1>1, <1>2, Values DEF IuRec, Local, Locked, Plocks, MayFail, Frees
  <2> QED BY <2>1, Here DEF Table, Entries
<1>18. e.count = 1 /\ e.lock /\ e.nlink <= 0 /\ r0.tgt # s /\ r0.fd # s /\ r0.wfd # s
  <2>1. Holds(r0, s)
    BY <1>1 DEF Holds, Locked, Frees
  <2>2. e.count = 1 /\ e.lock /\ e.nlink <= 0
    BY <1>1, <1>2, <1>3, <2>1 DEF Knows, Frees
  <2>3. Refs(r0, s) \in Nat /\ Refs(r0, s) # 0
    BY RefsNone
  <2>4. itab[s].count <= 1 /\ Refs(iu[p], s) >= 1
    BY <2>2, <2>3
  <2>5. Refs(r0, s) = 1
    BY <1>3, <2>4, Here, Alone
  <2>6. r0.tgt # s /\ r0.fd # s /\ r0.wfd # s
    BY <1>3, <2>5, SMTT(30) DEF Refs, One
  <2> QED BY <2>2, <2>6
<1>4. r \in IuRec
  <2>1. "iupdat" \in Pcs
    BY <1>1, <1>2, <1>3, <1>18, Values, Consts DEF IuRec
  <2> QED BY <1>2, <2>1 DEF IuRec
<1>5. /\ r.pc = "iupdat" /\ r.op = r0.op /\ r.name = r0.name /\ r.ino = r0.ino /\ r.ip = r0.ip /\ r.tgt = r0.tgt
      /\ r.pp = r0.pp /\ r.ret = r0.ret /\ r.err = r0.err /\ r.fd = r0.fd /\ r.wfd = r0.wfd
  BY <1>2 DEF IuRec
<1>6. e1 \in EntryRec
      /\ e1.num = e.num /\ e1.count = e.count /\ e1.lock = e.lock /\ e1.mode = 0 /\ e1.nlink = e.nlink /\ e1.chg = TRUE
  <2>1. e \in EntryRec /\ 0 \in {0, 1}
    BY <1>1, <1>3, <1>18 DEF EntryRec
  <2> QED BY <1>1, <2>1 DEF EntryRec, Unlocked
<1>7. itab' \in [Slots -> EntryRec] /\ itab'[s] = e1 /\ \A t \in Slots : t # s => itab'[t] = itab[t]
  <2>1. itab' = [itab EXCEPT ![s] = e1]
    BY <1>1
  <2> QED BY <1>3, <1>6, <2>1
<1>8. dino' \in [Inos -> DiskRec] /\ dir' \in [Names -> FileInos \cup {0}] /\ dino'[ROOT].mode = 1
      /\ sinode' \in Seq(FileInos)
  <2>1. e.num \in FileInos
    BY <1>3, <1>18, Here, FileEntry
  <2>2. Getfs(sinode) \in Seq(FileInos)
    BY Here, GetfsType
  <2>3. sinode' \in Seq(FileInos)
    BY <1>1, <2>1, <2>2 DEF Ifree
  <2> QED BY <1>1, <2>3, Here
<1> HIDE DEF r, e1
<1>9. Local(dir', r)
  BY <1>1, <1>2, <1>3, <1>5, <1>18, Consts, SMTT(60) DEF Local, Locked, Frees, Goal, Without, Igets, Iallocs, MayFail, Plocks
<1>12. \A t \in Slots : t # s => StillSlot(r0, r, t) /\ SameMarks(r0, r, t)
  BY <1>1, <1>2, <1>3, <1>5, <1>18, Consts, SMTT(60) DEF StillSlot, SameMarks, Linked, Made, Reads, Refs, One, Holds, Pp, Local, Locked, Frees, Goal, Without, Igets, Iallocs, MayFail, Plocks
<1>10. Knows(itab', dir', r)
  <2>4. Holds(r, s) => e1.lock
    BY <1>1, <1>2, <1>3, <1>5, <1>6, <1>18 DEF Knows, Holds, Local, Locked, Frees, Goal, Without, Igets, Iallocs, MayFail, Plocks
  <2>2. \A t \in Slots : Holds(r, t) => itab'[t].lock
    BY <1>2, <1>7, <1>12, <2>4 DEF StillSlot, Knows
  <2>3. /\ r.ip \in 0 .. NINODE /\ r.tgt \in 0 .. NINODE /\ r.fd \in 0 .. NINODE /\ r.wfd \in 0 .. NINODE
        /\ \A t \in 0 .. NINODE : t # 0 => t \in Slots
    BY <1>4, Values DEF IuRec
  <2> QED BY <1>1, <1>2, <1>3, <1>5, <1>6, <1>7, <1>18, <2>2, <2>3, Consts, SMTT(60) DEF Knows, Local, Locked, Frees, Goal, Without, Igets, Iallocs, MayFail, Plocks
<1>11. e.count > 0 /\ (Holds(r0, s) \/ ~e.lock) /\ SlotStep(e, e1, r0, r, s)
  <2>1. e1.count = e.count - Refs(r0, s) + Refs(r, s)
    BY <1>1, <1>2, <1>3, <1>5, <1>6, <1>18, Consts, SMTT(60) DEF EntryRec, Refs, One, Pp, Local, Locked, Frees, Goal, Without, Igets, Iallocs, MayFail, Plocks
  <2>2. ~e.lock \/ Holds(r0, s)
    BY <1>1, <1>2, <1>3, <1>18 DEF Holds, Local, Locked, Frees, Goal, Without, Igets, Iallocs, MayFail, Plocks
  <2>3. e.count > 0 /\ e1.count > 0
    BY <1>1, <1>2, <1>3, <1>6, <1>18, SMTT(30) DEF Knows, Entry, FreeEntry, EntryRec, Frees, Plocks
  <2>4. Entry(e1) /\ (e.mode # 0 /\ e1.mode = 0 => e.count = 1 /\ Refs(r0, s) >= 1)
    <3>1. Refs(r0, s) \in Nat /\ (r0.ip = s => Refs(r0, s) # 0)
      BY RefsNone
    <3> QED BY <1>1, <1>2, <1>3, <1>6, <1>18, <2>3, <3>1 DEF Knows, Entry, EntryRec, Frees
  <2> QED BY <1>3, <2>1, <2>2, <2>3, <2>4 DEF SlotStep
<1>13. r.pc # "iread" /\ r0.pc # "iread"
  BY <1>1, <1>5, Consts DEF Local, Frees
<1>14. Core(itab', dino', dir', [iu EXCEPT ![p] = r], s)
  <2>1. Core(itab, dino, dir, iu, s)
    BY <1>3, <1>11, <1>13, CoreHere
  <2>2. /\ AllMade([iu EXCEPT ![p] = r], s) = AllMade(iu, s) - One(Made(r0), s) + One(Made(r), s)
        /\ AllLinked([iu EXCEPT ![p] = r], s) = AllLinked(iu, s) - One(Linked(r0), s) + One(Linked(r), s)
        /\ AllMade(iu, s) \in Nat /\ AllLinked(iu, s) \in Nat
    BY <1>4, Here, MadeMove, LinkedMove, Zenon
  <2>3. Made(r0) = 0 /\ Made(r) = 0 /\ Linked(r0) = 0 /\ Linked(r) = 0 /\ 0 # s
    BY <1>1, <1>3, <1>5 DEF Made, Linked, Plocks
  <2>5. AllLinked(iu, s) = 0 /\ AllMade(iu, s) = 0
    BY <1>3, <1>18, <2>3, NonePending
  <2>6. One(0, s) = 0
    BY <2>3 DEF One
  <2>4. NamesOf(dir, e.num) = 0
    <3>1. NamesOf(dir, e.num) \in Nat /\ e.nlink = NamesOf(dir, e.num) + 0 - 0
      BY <2>1, <2>5, PendingTypes DEF Core
    <3> QED BY <1>18, <3>1
  <2>7. \A n \in Names : dir[n] # e.num
    BY <2>4, PendingTypes
  <2>10. e1.nlink = NamesOf(dir', e1.num) + AllMade([iu EXCEPT ![p] = r], s) - AllLinked([iu EXCEPT ![p] = r], s)
    BY <1>1, <1>3, <1>6, <2>1, <2>2, <2>3, <2>4, <2>5, <2>6, <2>7 DEF Core, EntryRec
  <2>11. \A n \in Names : dir'[n] = e1.num => e1.mode # 0
    BY <1>1, <1>6, <2>1, <2>2, <2>3, <2>4, <2>5, <2>6, <2>7 DEF Core
  <2>12. ~e1.chg => dino'[e1.num].mode = e1.mode /\ dino'[e1.num].nlink = e1.nlink
    BY <1>1, <1>6, <2>1 DEF Core
  <2> QED BY <1>7, <2>10, <2>11, <2>12 DEF Core
<1>15. \A j \in FileInos : j # e1.num => dino'[j] = dino[j] /\ SameNames(dir, dir', j)
  BY <1>1 DEF SameNames
<1>16. dir' = dir \/ r0.pp
  BY <1>1
<1>17. Sound(itab', dino', dir', [iu EXCEPT ![p] = r])
  <2>1. e1.num = itab[s].num /\ itab' = [itab EXCEPT ![s] = e1] /\ e1 \in EntryRec /\ SlotStep(itab[s], e1, iu[p], r, s)
        /\ itab[s].count > 0 /\ (Holds(iu[p], s) \/ ~itab[s].lock)
        /\ \A t \in Slots : t # s => StillSlot(iu[p], r, t) /\ SameMarks(iu[p], r, t)
    BY <1>1, <1>6, <1>11, <1>12
  <2> QED BY <1>3, <1>4, <1>8, <1>9, <1>10, <1>13, <1>14, <1>15, <1>16, <2>1, Changed, ZenonT(60)
<1> QED BY <1>1, <1>8, <1>17 DEF InodeInv

LEMMA SyncWriteInv1 ==
    ASSUME InodeInv, NEW p \in IProcs, SyncWrite(p), itab[iu[p].ip].count > 1
    PROVE  InodeInv'
<1> DEFINE r0 == iu[p]
           s == r0.ip
           e == itab[s]
           e1 == Unlocked([[e EXCEPT !.chg = FALSE] EXCEPT !.count = @ - 1])
           r == [r0 EXCEPT !.ip = 0, !.pc = "sync"]
<1>1. /\ r0.pc = "syncupdat" /\ UNCHANGED dir /\ e.count > 1
      /\ dino' = [dino EXCEPT ![e.num] = [mode |-> e.mode, nlink |-> e.nlink]] /\ sinode' = Getfs(sinode)
      /\ itab' = [itab EXCEPT ![s] = e1]
      /\ PreleI(s, [[e EXCEPT !.chg = FALSE] EXCEPT !.count = @ - 1], [iu EXCEPT ![p] = r])
  <2>1. [iu EXCEPT ![p].ip = 0, ![p].pc = "sync"] = [iu EXCEPT ![p] = r]
    BY Here
  <2>2. /\ At(p, "syncupdat") /\ Iupdat(s) /\ UNCHANGED dir
        /\ PreleI(s, [[e EXCEPT !.chg = FALSE] EXCEPT !.count = @ - 1], [iu EXCEPT ![p] = r])
    BY <2>1 DEF SyncWrite
  <2> QED BY <2>2 DEF At, Iupdat, PreleI
<1>2. r0 \in IuRec /\ Local(dir, r0) /\ Knows(itab, dir, r0)
  BY Here
<1>3. s \in Entries /\ s \in Slots /\ s # ROOT /\ s # 0 /\ e \in EntryRec /\ Entry(e) /\ itab \in [Slots -> EntryRec]
  <2>1. s \in Slots /\ s # ROOT /\ s # 0
    BY <1>1, <1>2, Values DEF IuRec, Local, Locked, Plocks, MayFail, Frees
  <2> QED BY <2>1, Here DEF Table, Entries
<1>19. e.num \in FileInos /\ e.num # ROOT /\ dino'[e.num].mode = e.mode /\ dino'[e.num].nlink = e.nlink
       /\ \A j \in Inos : j # e.num => dino'[j] = dino[j]
  <2>1. e.num \in FileInos
    <3>1. e.count > 0
      BY <1>1, <1>3 DEF EntryRec
    <3> QED BY <1>3, <3>1, Here, FileEntry
  <2> QED BY <1>1, <2>1, Here DEF FileInos
<1>4. r \in IuRec
  <2>1. 0 \in 0 .. NINODE /\ "sync" \in Pcs
    BY <1>1, <1>2, <1>3, Values, Consts DEF IuRec
  <2> QED BY <1>2, <2>1 DEF IuRec
<1>5. /\ r.pc = "sync" /\ r.op = r0.op /\ r.name = r0.name /\ r.ino = r0.ino /\ r.ip = 0 /\ r.tgt = r0.tgt
      /\ r.pp = r0.pp /\ r.ret = r0.ret /\ r.err = r0.err /\ r.fd = r0.fd /\ r.wfd = r0.wfd
  BY <1>2 DEF IuRec
<1>6. e1 \in EntryRec
      /\ e1.num = e.num /\ e1.count = e.count - 1 /\ e1.lock = FALSE /\ e1.mode = e.mode /\ e1.nlink = e.nlink /\ e1.chg = FALSE
  <2>1. e \in EntryRec /\ e.count - 1 \in Nat
    BY <1>1, <1>3 DEF EntryRec
  <2> QED BY <1>1, <2>1 DEF EntryRec, Unlocked
<1>7. itab' \in [Slots -> EntryRec] /\ itab'[s] = e1 /\ \A t \in Slots : t # s => itab'[t] = itab[t]
  <2>1. itab' = [itab EXCEPT ![s] = e1]
    BY <1>1
  <2> QED BY <1>3, <1>6, <2>1
<1>8. dino' \in [Inos -> DiskRec] /\ dir' \in [Names -> FileInos \cup {0}] /\ dino'[ROOT].mode = 1
      /\ sinode' \in Seq(FileInos)
  <2>1. [mode |-> e.mode, nlink |-> e.nlink] \in DiskRec
    BY <1>3 DEF EntryRec, DiskRec
  <2>2. sinode' \in Seq(FileInos)
    BY <1>1, Here, GetfsType
  <2> QED BY <1>1, <1>19, <2>1, <2>2, Here, Consts DEF FileInos
<1> HIDE DEF r, e1
<1>9. Local(dir', r)
  BY <1>1, <1>2, <1>3, <1>5, Consts, SMTT(60) DEF Local, Locked, Frees, Goal, Without, Igets, Iallocs, MayFail, Plocks
<1>12. \A t \in Slots : t # s => StillSlot(r0, r, t) /\ SameMarks(r0, r, t)
  BY <1>1, <1>2, <1>3, <1>5, Consts, SMTT(60) DEF StillSlot, SameMarks, Linked, Made, Reads, Refs, One, Holds, Pp, Local, Locked, Frees, Goal, Without, Igets, Iallocs, MayFail, Plocks
<1>10. Knows(itab', dir', r)
  <2>4. Holds(r, s) => e1.lock
    BY <1>1, <1>2, <1>3, <1>5, <1>6 DEF Knows, Holds, Local, Locked, Frees, Goal, Without, Igets, Iallocs, MayFail, Plocks
  <2>2. \A t \in Slots : Holds(r, t) => itab'[t].lock
    BY <1>2, <1>7, <1>12, <2>4 DEF StillSlot, Knows
  <2>3. /\ r.ip \in 0 .. NINODE /\ r.tgt \in 0 .. NINODE /\ r.fd \in 0 .. NINODE /\ r.wfd \in 0 .. NINODE
        /\ \A t \in 0 .. NINODE : t # 0 => t \in Slots
    BY <1>4, Values DEF IuRec
  <2> QED BY <1>1, <1>2, <1>3, <1>5, <1>6, <1>7, <2>2, <2>3, Consts, SMTT(60) DEF Knows, Local, Locked, Frees, Goal, Without, Igets, Iallocs, MayFail, Plocks
<1>11. e.count > 0 /\ (Holds(r0, s) \/ ~e.lock) /\ SlotStep(e, e1, r0, r, s)
  <2>1. e1.count = e.count - Refs(r0, s) + Refs(r, s)
    BY <1>1, <1>2, <1>3, <1>5, <1>6, Consts, SMTT(60) DEF EntryRec, Refs, One, Pp, Local, Locked, Frees, Goal, Without, Igets, Iallocs, MayFail, Plocks
  <2>2. ~e.lock \/ Holds(r0, s)
    BY <1>1, <1>2, <1>3 DEF Holds, Local, Locked, Frees, Goal, Without, Igets, Iallocs, MayFail, Plocks
  <2>3. e.count > 0 /\ e1.count > 0
    BY <1>1, <1>2, <1>3, <1>6, SMTT(30) DEF Knows, Entry, FreeEntry, EntryRec, Frees, Plocks
  <2>4. Entry(e1) /\ (e.mode # 0 /\ e1.mode = 0 => e.count = 1 /\ Refs(r0, s) >= 1)
    <3>1. Refs(r0, s) \in Nat /\ (r0.ip = s => Refs(r0, s) # 0)
      BY RefsNone
    <3> QED BY <1>1, <1>2, <1>3, <1>6, <2>3, <3>1 DEF Knows, Entry, EntryRec, Frees
  <2> QED BY <1>3, <2>1, <2>2, <2>3, <2>4 DEF SlotStep
<1>13. r.pc # "iread" /\ r0.pc # "iread"
  BY <1>1, <1>5, Consts DEF Local, Frees
<1>14. Core(itab', dino', dir', [iu EXCEPT ![p] = r], s)
  <2>1. Core(itab, dino, dir, iu, s)
    BY <1>3, <1>11, <1>13, CoreHere
  <2>2. /\ AllMade([iu EXCEPT ![p] = r], s) = AllMade(iu, s) - One(Made(r0), s) + One(Made(r), s)
        /\ AllLinked([iu EXCEPT ![p] = r], s) = AllLinked(iu, s) - One(Linked(r0), s) + One(Linked(r), s)
        /\ AllMade(iu, s) \in Nat /\ AllLinked(iu, s) \in Nat
    BY <1>4, Here, MadeMove, LinkedMove, Zenon
  <2>3. Made(r0) = 0 /\ Made(r) = 0 /\ Linked(r0) = 0 /\ Linked(r) = 0 /\ 0 # s
    BY <1>1, <1>3, <1>5 DEF Made, Linked, Plocks
  <2>4. NamesOf(dir, e.num) \in Nat /\ One(0, s) = 0
    BY <2>3, PendingTypes DEF One
  <2>9. dir' = dir
    BY <1>1
  <2>10. e1.nlink = NamesOf(dir', e1.num) + AllMade([iu EXCEPT ![p] = r], s) - AllLinked([iu EXCEPT ![p] = r], s)
    BY <1>3, <1>6, <2>9, <2>1, <2>2, <2>3, <2>4 DEF Core, EntryRec
  <2>11. \A n \in Names : dir'[n] = e1.num => e1.mode # 0
    BY <1>1, <1>6, <2>1, <2>2, <2>3, <2>4 DEF Core
  <2>12. ~e1.chg => dino'[e1.num].mode = e1.mode /\ dino'[e1.num].nlink = e1.nlink
    BY <1>1, <1>6, <1>19, <2>1 DEF Core
  <2> QED BY <1>7, <2>10, <2>11, <2>12 DEF Core
<1>15. \A j \in FileInos : j # e1.num => dino'[j] = dino[j] /\ SameNames(dir, dir', j)
  BY <1>1, <1>6, <1>19 DEF SameNames, FileInos
<1>16. dir' = dir \/ r0.pp
  BY <1>1
<1>17. Sound(itab', dino', dir', [iu EXCEPT ![p] = r])
  <2>1. e1.num = itab[s].num /\ itab' = [itab EXCEPT ![s] = e1] /\ e1 \in EntryRec /\ SlotStep(itab[s], e1, iu[p], r, s)
        /\ itab[s].count > 0 /\ (Holds(iu[p], s) \/ ~itab[s].lock)
        /\ \A t \in Slots : t # s => StillSlot(iu[p], r, t) /\ SameMarks(iu[p], r, t)
    BY <1>1, <1>6, <1>11, <1>12
  <2> QED BY <1>3, <1>4, <1>8, <1>9, <1>10, <1>13, <1>14, <1>15, <1>16, <2>1, Changed, ZenonT(60)
<1>18. Sound(itab', dino', dir', iu')
  BY <1>1, <1>3, <1>17, Prele
<1> QED BY <1>8, <1>18 DEF InodeInv

LEMMA SyncWriteInv3 ==
    ASSUME InodeInv, NEW p \in IProcs, SyncWrite(p), itab[iu[p].ip].count = 1, itab[iu[p].ip].nlink <= 0
    PROVE  InodeInv'
<1> DEFINE r0 == iu[p]
           s == r0.ip
           e == itab[s]
           e1 == [e EXCEPT !.chg = FALSE]
           r == [r0 EXCEPT !.ret = "sync", !.pc = "itrunc"]
<1>1. /\ r0.pc = "syncupdat" /\ UNCHANGED dir /\ e.count = 1 /\ e.nlink <= 0
      /\ dino' = [dino EXCEPT ![e.num] = [mode |-> e.mode, nlink |-> e.nlink]] /\ sinode' = Getfs(sinode)
      /\ itab' = [itab EXCEPT ![s] = e1]
      /\ iu' = [iu EXCEPT ![p] = r]
  <2>1. [iu EXCEPT ![p].ret = "sync", ![p].pc = "itrunc"] = [iu EXCEPT ![p] = r]
    BY Here
  <2>2. /\ At(p, "syncupdat") /\ Iupdat(s) /\ UNCHANGED dir /\ itab' = [itab EXCEPT ![s] = e1]
        /\ iu' = [iu EXCEPT ![p].ret = "sync", ![p].pc = "itrunc"]
    <3>1. s \in Slots /\ e \in EntryRec
      BY Here, Values DEF SyncWrite, At, IuRec, Local, Locked, MayFail
    <3>2. e1.count = e.count /\ e1.nlink = e.nlink /\ ~(e1.count > 1) /\ ~(e1.nlink > 0)
      BY <3>1 DEF EntryRec
    <3> QED BY <3>2 DEF SyncWrite
  <2> QED BY <2>1, <2>2 DEF At, Iupdat
<1>2. r0 \in IuRec /\ Local(dir, r0) /\ Knows(itab, dir, r0)
  BY Here
<1>3. s \in Entries /\ s \in Slots /\ s # ROOT /\ s # 0 /\ e \in EntryRec /\ Entry(e) /\ itab \in [Slots -> EntryRec]
  <2>1. s \in Slots /\ s # ROOT /\ s # 0
    BY <1>1, <1>2, Values DEF IuRec, Local, Locked, Plocks, MayFail, Frees
  <2> QED BY <2>1, Here DEF Table, Entries
<1>19. e.num \in FileInos /\ e.num # ROOT /\ dino'[e.num].mode = e.mode /\ dino'[e.num].nlink = e.nlink
       /\ \A j \in Inos : j # e.num => dino'[j] = dino[j]
  <2>1. e.num \in FileInos
    <3>1. e.count > 0
      BY <1>1, <1>3 DEF EntryRec
    <3> QED BY <1>3, <3>1, Here, FileEntry
  <2> QED BY <1>1, <2>1, Here DEF FileInos
<1>4. r \in IuRec
  <2>1. "itrunc" \in Pcs
    BY <1>1, <1>2, <1>3, Values, Consts DEF IuRec
  <2> QED BY <1>2, <2>1 DEF IuRec
<1>5. /\ r.pc = "itrunc" /\ r.op = r0.op /\ r.name = r0.name /\ r.ino = r0.ino /\ r.ip = r0.ip /\ r.tgt = r0.tgt
      /\ r.pp = r0.pp /\ r.ret = "sync" /\ r.err = r0.err /\ r.fd = r0.fd /\ r.wfd = r0.wfd
  BY <1>2 DEF IuRec
<1>6. e1 \in EntryRec
      /\ e1.num = e.num /\ e1.count = e.count /\ e1.lock = e.lock /\ e1.mode = e.mode /\ e1.nlink = e.nlink /\ e1.chg = FALSE
  <2>1. e \in EntryRec
    BY <1>1, <1>3 DEF EntryRec
  <2> QED BY <1>1, <2>1 DEF EntryRec, Unlocked
<1>7. itab' \in [Slots -> EntryRec] /\ itab'[s] = e1 /\ \A t \in Slots : t # s => itab'[t] = itab[t]
  <2>1. itab' = [itab EXCEPT ![s] = e1]
    BY <1>1
  <2> QED BY <1>3, <1>6, <2>1
<1>8. dino' \in [Inos -> DiskRec] /\ dir' \in [Names -> FileInos \cup {0}] /\ dino'[ROOT].mode = 1
      /\ sinode' \in Seq(FileInos)
  <2>1. [mode |-> e.mode, nlink |-> e.nlink] \in DiskRec
    BY <1>3 DEF EntryRec, DiskRec
  <2>2. sinode' \in Seq(FileInos)
    BY <1>1, Here, GetfsType
  <2> QED BY <1>1, <1>19, <2>1, <2>2, Here, Consts DEF FileInos
<1> HIDE DEF r, e1
<1>9. Local(dir', r)
  BY <1>1, <1>2, <1>3, <1>5, Consts, SMTT(60) DEF Local, Locked, Frees, Goal, Without, Igets, Iallocs, MayFail, Plocks
<1>12. \A t \in Slots : t # s => StillSlot(r0, r, t) /\ SameMarks(r0, r, t)
  BY <1>1, <1>2, <1>3, <1>5, Consts, SMTT(60) DEF StillSlot, SameMarks, Linked, Made, Reads, Refs, One, Holds, Pp, Local, Locked, Frees, Goal, Without, Igets, Iallocs, MayFail, Plocks
<1>10. Knows(itab', dir', r)
  <2>4. Holds(r, s) => e1.lock
    BY <1>1, <1>2, <1>3, <1>5, <1>6 DEF Knows, Holds, Local, Locked, Frees, Goal, Without, Igets, Iallocs, MayFail, Plocks
  <2>2. \A t \in Slots : Holds(r, t) => itab'[t].lock
    BY <1>2, <1>7, <1>12, <2>4 DEF StillSlot, Knows
  <2>3. /\ r.ip \in 0 .. NINODE /\ r.tgt \in 0 .. NINODE /\ r.fd \in 0 .. NINODE /\ r.wfd \in 0 .. NINODE
        /\ \A t \in 0 .. NINODE : t # 0 => t \in Slots
    BY <1>4, Values DEF IuRec
  <2> QED BY <1>1, <1>2, <1>3, <1>5, <1>6, <1>7, <2>2, <2>3, Consts, SMTT(60) DEF Knows, Local, Locked, Frees, Goal, Without, Igets, Iallocs, MayFail, Plocks
<1>11. e.count > 0 /\ (Holds(r0, s) \/ ~e.lock) /\ SlotStep(e, e1, r0, r, s)
  <2>1. e1.count = e.count - Refs(r0, s) + Refs(r, s)
    BY <1>1, <1>2, <1>3, <1>5, <1>6, Consts, SMTT(60) DEF EntryRec, Refs, One, Pp, Local, Locked, Frees, Goal, Without, Igets, Iallocs, MayFail, Plocks
  <2>2. ~e.lock \/ Holds(r0, s)
    BY <1>1, <1>2, <1>3 DEF Holds, Local, Locked, Frees, Goal, Without, Igets, Iallocs, MayFail, Plocks
  <2>3. e.count > 0 /\ e1.count > 0
    BY <1>1, <1>2, <1>3, <1>6, SMTT(30) DEF Knows, Entry, FreeEntry, EntryRec, Frees, Plocks
  <2>4. Entry(e1) /\ (e.mode # 0 /\ e1.mode = 0 => e.count = 1 /\ Refs(r0, s) >= 1)
    <3>1. Refs(r0, s) \in Nat /\ (r0.ip = s => Refs(r0, s) # 0)
      BY RefsNone
    <3> QED BY <1>1, <1>2, <1>3, <1>6, <2>3, <3>1 DEF Knows, Entry, EntryRec, Frees
  <2> QED BY <1>3, <2>1, <2>2, <2>3, <2>4 DEF SlotStep
<1>13. r.pc # "iread" /\ r0.pc # "iread"
  BY <1>1, <1>5, Consts DEF Local, Frees
<1>14. Core(itab', dino', dir', [iu EXCEPT ![p] = r], s)
  <2>1. Core(itab, dino, dir, iu, s)
    BY <1>3, <1>11, <1>13, CoreHere
  <2>2. /\ AllMade([iu EXCEPT ![p] = r], s) = AllMade(iu, s) - One(Made(r0), s) + One(Made(r), s)
        /\ AllLinked([iu EXCEPT ![p] = r], s) = AllLinked(iu, s) - One(Linked(r0), s) + One(Linked(r), s)
        /\ AllMade(iu, s) \in Nat /\ AllLinked(iu, s) \in Nat
    BY <1>4, Here, MadeMove, LinkedMove, Zenon
  <2>3. Made(r0) = 0 /\ Made(r) = 0 /\ Linked(r0) = 0 /\ Linked(r) = 0 /\ 0 # s
    BY <1>1, <1>3, <1>5 DEF Made, Linked, Plocks
  <2>4. NamesOf(dir, e.num) \in Nat /\ One(0, s) = 0
    BY <2>3, PendingTypes DEF One
  <2>9. dir' = dir
    BY <1>1
  <2>10. e1.nlink = NamesOf(dir', e1.num) + AllMade([iu EXCEPT ![p] = r], s) - AllLinked([iu EXCEPT ![p] = r], s)
    BY <1>3, <1>6, <2>9, <2>1, <2>2, <2>3, <2>4 DEF Core, EntryRec
  <2>11. \A n \in Names : dir'[n] = e1.num => e1.mode # 0
    BY <1>1, <1>6, <2>1, <2>2, <2>3, <2>4 DEF Core
  <2>12. ~e1.chg => dino'[e1.num].mode = e1.mode /\ dino'[e1.num].nlink = e1.nlink
    BY <1>1, <1>6, <1>19, <2>1 DEF Core
  <2> QED BY <1>7, <2>10, <2>11, <2>12 DEF Core
<1>15. \A j \in FileInos : j # e1.num => dino'[j] = dino[j] /\ SameNames(dir, dir', j)
  BY <1>1, <1>6, <1>19 DEF SameNames, FileInos
<1>16. dir' = dir \/ r0.pp
  BY <1>1
<1>17. Sound(itab', dino', dir', [iu EXCEPT ![p] = r])
  <2>1. e1.num = itab[s].num /\ itab' = [itab EXCEPT ![s] = e1] /\ e1 \in EntryRec /\ SlotStep(itab[s], e1, iu[p], r, s)
        /\ itab[s].count > 0 /\ (Holds(iu[p], s) \/ ~itab[s].lock)
        /\ \A t \in Slots : t # s => StillSlot(iu[p], r, t) /\ SameMarks(iu[p], r, t)
    BY <1>1, <1>6, <1>11, <1>12
  <2> QED BY <1>3, <1>4, <1>8, <1>9, <1>10, <1>13, <1>14, <1>15, <1>16, <2>1, Changed, ZenonT(60)
<1> QED BY <1>1, <1>8, <1>17 DEF InodeInv

LEMMA PipeGotInv ==
    ASSUME InodeInv, NEW p \in IProcs, PipeMade(p)
    PROVE  InodeInv'
<1> DEFINE r0 == iu[p]
           s == r0.ip
           e == itab[s]
           e1 == [Unlocked(e) EXCEPT !.count = 2, !.mode = 1, !.chg = TRUE]
           r == [Idle EXCEPT !.fd = r0.ip, !.wfd = r0.ip]
<1>1. /\ r0.pc = "iagot" /\ s # 0 /\ e.mode = 0 /\ r0.op = "pipe" /\ UNCHANGED <<dino, dir, sinode>>
      /\ itab' = [itab EXCEPT ![s] = e1]
      /\ iu' = [q \in IProcs |-> IF q = p THEN r ELSE [iu[q] EXCEPT !.lost = iu[q].lost \/ iu[q].wait = s]]
  <2>1. PICK v : v = [q \in IProcs |-> IF q = p THEN [iu[p] EXCEPT !.fd = iu[p].ip, !.wfd = iu[p].ip]
                                    ELSE [iu[q] EXCEPT !.lost = @ \/ iu[q].wait = iu[p].ip]]
    OBVIOUS
  <2>2. /\ r0.pc = "iagot" /\ s # 0 /\ e.mode = 0 /\ r0.op = "pipe" /\ UNCHANGED <<dino, dir, sinode>>
        /\ itab' = [itab EXCEPT ![s] = e1] /\ iu' = Return(v, p)
    BY <2>1 DEF PipeMade, At
  <2>3. v[p].fd = s /\ v[p].wfd = s
    BY <2>1, Here DEF IuRec
  <2>4. iu' = [v EXCEPT ![p] = r]
    BY <2>2, <2>3 DEF Return
  <2>5. iu' = [q \in IProcs |-> IF q = p THEN r ELSE v[q]]
    BY <2>1, <2>4
  <2> QED BY <2>1, <2>2, <2>5
<1>2. r0 \in IuRec /\ Local(dir, r0) /\ Knows(itab, dir, r0)
  BY Here
<1>3. s \in Entries /\ s \in Slots /\ s # ROOT /\ s # 0 /\ e \in EntryRec /\ Entry(e) /\ itab \in [Slots -> EntryRec]
  <2>1. s \in Slots /\ s # ROOT /\ s # 0
    BY <1>1, <1>2, Values DEF IuRec, Local, Locked, Plocks, MayFail, Frees
  <2> QED BY <2>1, Here DEF Table, Entries
<1>18. e.count = 1 /\ e.lock
  <2>1. Holds(r0, s) /\ Refs(r0, s) # 0
    BY <1>1, RefsNone DEF Holds, Locked
  <2>2. e.count # 0
    BY <1>2, <1>3, <2>1 DEF Knows, Entry, FreeEntry
  <2> QED BY <1>1, <1>3, <2>2 DEF Entry, EntryRec
<1>4. r \in IuRec
  <2>1. r0.ip \in 0 .. NINODE /\ r0.ip \in 0 .. NINODE
    BY <1>1, <1>2, <1>3, <1>18, Values, Consts DEF IuRec
  <2> QED BY <2>1, Ended, ZenonT(60)
<1>5. /\ r.pc = "user" /\ r.op = "none" /\ r.name = "none" /\ r.ino = 0 /\ r.ip = 0 /\ r.tgt = 0
      /\ r.pp = FALSE /\ r.ret = "none" /\ r.err = FALSE /\ r.fd = r0.ip /\ r.wfd = r0.ip
  BY <1>2 DEF IuRec, Idle
<1>6. e1 \in EntryRec
      /\ e1.num = e.num /\ e1.count = 2 /\ e1.lock = FALSE /\ e1.mode = 1 /\ e1.nlink = e.nlink /\ e1.chg = TRUE
  <2>1. e \in EntryRec /\ 2 \in Nat /\ 1 \in {0, 1}
    BY <1>1, <1>3, <1>18 DEF EntryRec
  <2> QED BY <1>1, <2>1 DEF EntryRec, Unlocked
<1>7. itab' \in [Slots -> EntryRec] /\ itab'[s] = e1 /\ \A t \in Slots : t # s => itab'[t] = itab[t]
  <2>1. itab' = [itab EXCEPT ![s] = e1]
    BY <1>1
  <2> QED BY <1>3, <1>6, <2>1
<1>8. dino' \in [Inos -> DiskRec] /\ dir' \in [Names -> FileInos \cup {0}] /\ dino'[ROOT].mode = 1
      /\ sinode' \in Seq(FileInos)
  BY <1>1, Here
<1> HIDE DEF r, e1
<1>9. Local(dir', r)
  BY <1>1, <1>2, <1>3, <1>5, <1>18, Consts, SMTT(60) DEF Local, Locked, Frees, Goal, Without, Igets, Iallocs, MayFail, Plocks
<1>12. \A t \in Slots : t # s => StillSlot(r0, r, t) /\ SameMarks(r0, r, t)
  BY <1>1, <1>2, <1>3, <1>5, <1>18, Consts, SMTT(60) DEF StillSlot, SameMarks, Linked, Made, Reads, Refs, One, Holds, Pp, Local, Locked, Frees, Goal, Without, Igets, Iallocs, MayFail, Plocks
<1>10. Knows(itab', dir', r)
  <2>4. Holds(r, s) => e1.lock
    BY <1>1, <1>2, <1>3, <1>5, <1>6, <1>18 DEF Knows, Holds, Local, Locked, Frees, Goal, Without, Igets, Iallocs, MayFail, Plocks
  <2>2. \A t \in Slots : Holds(r, t) => itab'[t].lock
    BY <1>2, <1>7, <1>12, <2>4 DEF StillSlot, Knows
  <2>3. /\ r.ip \in 0 .. NINODE /\ r.tgt \in 0 .. NINODE /\ r.fd \in 0 .. NINODE /\ r.wfd \in 0 .. NINODE
        /\ \A t \in 0 .. NINODE : t # 0 => t \in Slots
    BY <1>4, Values DEF IuRec
  <2> QED BY <1>1, <1>2, <1>3, <1>5, <1>6, <1>7, <1>18, <2>2, <2>3, Consts, SMTT(60) DEF Knows, Local, Locked, Frees, Goal, Without, Igets, Iallocs, MayFail, Plocks
<1>11. e.count > 0 /\ (Holds(r0, s) \/ ~e.lock) /\ SlotStep(e, e1, r0, r, s)
  <2>1. e1.count = e.count - Refs(r0, s) + Refs(r, s)
    BY <1>1, <1>2, <1>3, <1>5, <1>6, <1>18, Consts, SMTT(60) DEF EntryRec, Refs, One, Pp, Local, Locked, Frees, Goal, Without, Igets, Iallocs, MayFail, Plocks
  <2>2. ~e.lock \/ Holds(r0, s)
    BY <1>1, <1>2, <1>3, <1>18 DEF Holds, Local, Locked, Frees, Goal, Without, Igets, Iallocs, MayFail, Plocks
  <2>3. e.count > 0 /\ e1.count > 0
    BY <1>1, <1>2, <1>3, <1>6, <1>18, SMTT(30) DEF Knows, Entry, FreeEntry, EntryRec, Frees, Plocks
  <2>4. Entry(e1) /\ (e.mode # 0 /\ e1.mode = 0 => e.count = 1 /\ Refs(r0, s) >= 1)
    <3>1. Refs(r0, s) \in Nat /\ (r0.ip = s => Refs(r0, s) # 0)
      BY RefsNone
    <3> QED BY <1>1, <1>2, <1>3, <1>6, <1>18, <2>3, <3>1 DEF Knows, Entry, EntryRec, Frees
  <2> QED BY <1>3, <2>1, <2>2, <2>3, <2>4 DEF SlotStep
<1>13. r.pc # "iread" /\ r0.pc # "iread"
  BY <1>1, <1>5, Consts DEF Local, Frees
<1>14. Core(itab', dino', dir', [iu EXCEPT ![p] = r], s)
  <2>1. Core(itab, dino, dir, iu, s)
    BY <1>3, <1>11, <1>13, CoreHere
  <2>2. /\ AllMade([iu EXCEPT ![p] = r], s) = AllMade(iu, s) - One(Made(r0), s) + One(Made(r), s)
        /\ AllLinked([iu EXCEPT ![p] = r], s) = AllLinked(iu, s) - One(Linked(r0), s) + One(Linked(r), s)
        /\ AllMade(iu, s) \in Nat /\ AllLinked(iu, s) \in Nat
    BY <1>4, Here, MadeMove, LinkedMove, Zenon
  <2>3. Made(r0) = 0 /\ Made(r) = 0 /\ Linked(r0) = 0 /\ Linked(r) = 0 /\ 0 # s
    BY <1>1, <1>3, <1>5 DEF Made, Linked, Plocks
  <2>4. NamesOf(dir, e.num) \in Nat /\ One(0, s) = 0
    BY <2>3, PendingTypes DEF One
  <2>10. e1.nlink = NamesOf(dir', e1.num) + AllMade([iu EXCEPT ![p] = r], s) - AllLinked([iu EXCEPT ![p] = r], s)
    BY <1>1, <1>3, <1>6, <2>1, <2>2, <2>3, <2>4 DEF Core, EntryRec
  <2>11. \A n \in Names : dir'[n] = e1.num => e1.mode # 0
    BY <1>1, <1>6, <2>1, <2>2, <2>3, <2>4 DEF Core
  <2>12. ~e1.chg => dino'[e1.num].mode = e1.mode /\ dino'[e1.num].nlink = e1.nlink
    BY <1>1, <1>6, <2>1 DEF Core
  <2> QED BY <1>7, <2>10, <2>11, <2>12 DEF Core
<1>15. \A j \in FileInos : j # e1.num => dino'[j] = dino[j] /\ SameNames(dir, dir', j)
  BY <1>1 DEF SameNames
<1>16. dir' = dir \/ r0.pp
  BY <1>1
<1>17. Sound(itab', dino', dir', [iu EXCEPT ![p] = r])
  <2>1. e1.num = itab[s].num /\ itab' = [itab EXCEPT ![s] = e1] /\ e1 \in EntryRec /\ SlotStep(itab[s], e1, iu[p], r, s)
        /\ itab[s].count > 0 /\ (Holds(iu[p], s) \/ ~itab[s].lock)
        /\ \A t \in Slots : t # s => StillSlot(iu[p], r, t) /\ SameMarks(iu[p], r, t)
    BY <1>1, <1>6, <1>11, <1>12
  <2> QED BY <1>3, <1>4, <1>8, <1>9, <1>10, <1>13, <1>14, <1>15, <1>16, <2>1, Changed, ZenonT(60)
<1>20. Sound(itab', dino', dir', iu')
  <2> DEFINE w == [iu EXCEPT ![p] = r]
  <2>1. w[p] = r /\ iu'[p] = r /\ \A q \in IProcs : q # p => w[q] = iu[q] /\ iu'[q] = [iu[q] EXCEPT !.lost = iu[q].lost \/ iu[q].wait = s]
    BY <1>1, Here
  <2>2. \A q \in IProcs : iu[q] \in IuRec
    BY Here
  <2>3. ASSUME NEW q \in IProcs
        PROVE  iu'[q] \in IuRec /\ WakeSame(w[q], iu'[q])
    <3>1. CASE q = p
      BY <1>4, <2>1, <3>1 DEF WakeSame
    <3>2. CASE q # p
      <4>1. PICK b \in BOOLEAN : b = (iu[q].lost \/ iu[q].wait = s)
        OBVIOUS
      <4>4. iu'[q] = [iu[q] EXCEPT !.lost = b] /\ iu[q] \in IuRec
        BY <2>1, <2>2, <3>2, <4>1
      <4>2. iu'[q] \in IuRec
        BY <4>4 DEF IuRec
      <4>3. WakeSame(iu[q], iu'[q])
        BY <4>4 DEF WakeSame, IuRec
      <4> QED BY <2>1, <3>2, <4>2, <4>3
    <3> QED BY <3>1, <3>2
  <2>4. iu' \in [IProcs -> IuRec]
    BY <1>1, <2>3
  <2>5. Sound(itab', dino', dir', w)
    BY <1>17
  <2> HIDE DEF w
  <2> QED BY <2>3, <2>4, <2>5, Woken, ZenonT(60)
<1> QED BY <1>8, <1>20 DEF InodeInv
LEMMA IgetReadInv2 ==
    ASSUME InodeInv, NEW p \in IProcs, IgetRead(p), iu[p].pc = "iread",
           PreleI(iu[p].ip, [FreeEntry EXCEPT !.want = itab[iu[p].ip].want], IgetReturns(p, 0))
    PROVE  InodeInv'
<1> DEFINE r0 == iu[p]
           s == r0.ip
           e == itab[s]
           r == [r0 EXCEPT !.ip = 0, !.err = TRUE, !.ino = 0, !.ret = "none", !.pc = r0.ret]
<1>1. /\ r0.pc = "iread" /\ UNCHANGED <<dino, dir, sinode>>
      /\ PreleI(s, [FreeEntry EXCEPT !.want = e.want], [iu EXCEPT ![p] = r])
  <2>1. IgetReturns(p, 0) = [iu EXCEPT ![p] = r]
    <3>1. (r0.err \/ 0 = 0) = TRUE
      OBVIOUS
    <3>2. IgetReturns(p, 0) = [iu EXCEPT ![p] = [r0 EXCEPT !.ip = 0, !.err = (r0.err \/ 0 = 0), !.ino = 0, !.ret = "none", !.pc = r0.ret]]
      BY Here DEF IgetReturns
    <3> QED BY <3>1, <3>2
  <2> QED BY <2>1 DEF IgetRead
<1>2. r0 \in IuRec /\ Local(dir, r0) /\ Knows(itab, dir, r0)
  BY Here
<1>3. s \in Entries /\ s \in Slots /\ s # ROOT /\ s # 0 /\ e \in EntryRec /\ Entry(e) /\ itab \in [Slots -> EntryRec]
  <2>1. s \in Slots /\ s # ROOT /\ s # 0
    BY <1>1, <1>2, Values DEF IuRec, Local, Locked, Plocks, MayFail, Frees
  <2> QED BY <2>1, Here DEF Table, Entries
<1>18. e.count = 1 /\ e.lock /\ Holds(r0, s) /\ e.num \in FileInos /\ r0.tgt # s /\ r0.fd # s /\ r0.wfd # s
  <2>1. Holds(r0, s)
    BY <1>1 DEF Holds, Locked, Frees
  <2>2. e.count = 1 /\ e.lock
    BY <1>1, <1>2, <1>3, <2>1 DEF Knows, Frees, Blank
  <2>3. Refs(r0, s) \in Nat /\ Refs(r0, s) # 0
    BY RefsNone
  <2>4. itab[s].count <= 1 /\ Refs(iu[p], s) >= 1
    BY <2>2, <2>3
  <2>5. Refs(r0, s) = 1
    BY <1>3, <2>4, Here, Alone
  <2>6. r0.tgt # s /\ r0.fd # s /\ r0.wfd # s
    BY <1>3, <2>5, SMTT(30) DEF Refs, One
  <2>7. e.num \in FileInos
    BY <1>3, <2>2, Here, FileEntry
  <2> QED BY <2>1, <2>2, <2>6, <2>7
<1>19. r0.ret \in {"named", "unlink", "iagot"} /\ itab[s].num = r0.ino
  <2>1. r0.ret \in {"dirread", "named", "unlink", "iagot"} /\ (r0.ret = "dirread" => r0.ino = ROOT) /\ e.num = r0.ino
    BY <1>1, <1>2 DEF Local, Knows, Blank
  <2> QED BY <1>18, <2>1 DEF FileInos
<1>4. r \in IuRec
  <2>1. 0 \in 0 .. NINODE /\ 0 \in 0 .. NInos /\ r0.ret \in Pcs
    BY <1>1, <1>2, <1>3, <1>19, Values, Consts DEF IuRec, Local, Frees, Igets
  <2> QED BY <1>2, <2>1 DEF IuRec
<1>5. /\ r.pc = r0.ret /\ r.op = r0.op /\ r.name = r0.name /\ r.ino = 0 /\ r.ip = 0 /\ r.tgt = r0.tgt
      /\ r.pp = r0.pp /\ r.ret = "none" /\ r.err = TRUE /\ r.fd = r0.fd /\ r.wfd = r0.wfd
  BY <1>2 DEF IuRec
<1>8. dino' \in [Inos -> DiskRec] /\ dino'[ROOT].mode = 1 /\ sinode' \in Seq(FileInos)
      /\ \A j \in FileInos : j # e.num => dino'[j] = dino[j]
  BY <1>1, Here
<1> HIDE DEF r
<1>9. Local(dir, r)
  BY <1>1, <1>2, <1>3, <1>5, <1>18, <1>19, Consts, SMTT(60) DEF Local, Locked, Frees, Goal, Without, Igets, Iallocs, MayFail, Plocks
<1>10. Knows(itab, dir, r)
  BY <1>1, <1>2, <1>3, <1>5, <1>18, <1>19, Consts, SMTT(60) DEF Knows, Holds, Local, Locked, Frees, Goal, Without, Igets, Iallocs, MayFail, Plocks
<1>11. Refs(r, s) = 0 /\ ~Holds(r, s) /\ r.pc # "iread"
  BY <1>1, <1>2, <1>3, <1>5, <1>18, <1>19, Consts, SMTT(60) DEF Refs, One, Holds, Local, Locked, Frees, Goal, Without, Igets, Iallocs, MayFail, Plocks
<1>12. \A t \in Slots : t # s => StillSlot(r0, r, t)
  BY <1>1, <1>2, <1>3, <1>5, <1>18, <1>19, Consts, SMTT(60) DEF StillSlot, Refs, One, Holds, Pp, Local, Locked, Frees, Goal, Without, Igets, Iallocs, MayFail, Plocks
<1>13. Linked(r) = 0 /\ Made(r) = 0 /\ Linked(r0) = 0 /\ Made(r0) = 0
  BY <1>1, <1>2, <1>3, <1>5, <1>18, <1>19 DEF Linked, Made, Local, Locked, Frees, Goal, Without, Igets, Iallocs, MayFail, Plocks
<1>14. Disk(dino', dir, e.num)
  <2>1. \A t \in Slots : itab[t].num = e.num => t = s
    BY <1>3, <1>18, Here, Consts DEF Table, FileInos
  <2>2. Reading(iu, s)
    BY <1>1 DEF Reading
  <2>3. \A t \in Slots : itab[t].num = e.num => Reading(iu, t)
    BY <2>1, <2>2
  <2>4. LinksAdd(itab, dino, dir, iu)
    BY Here DEF Sound
  <2> QED BY <1>1, <1>18, <2>3, <2>4 DEF LinksAdd
<1>15. e.want \in BOOLEAN
  BY <1>3 DEF EntryRec
<1>16. Sound(itab', dino', dir, iu')
  <2>1. iu[p].ip = s /\ Holds(iu[p], s) /\ itab[s].count = 1 /\ Linked(iu[p]) \in {0, s} /\ Made(iu[p]) \in {0, s}
    BY <1>13, <1>18
  <2>2. dir' = dir
    BY <1>1
  <2> HIDE DEF s, e
  <2> QED BY <1>1, <1>3, <1>4, <1>8, <1>9, <1>10, <1>11, <1>12, <1>13, <1>14, <1>15, <2>1, Freed, ZenonT(60) DEF e
<1> QED BY <1>1, <1>8, <1>16 DEF InodeInv

LEMMA IputInv2 ==
    ASSUME InodeInv, NEW p \in IProcs, itab[iu[p].ip].count = 1, itab[iu[p].ip].nlink > 0, ~itab[iu[p].ip].chg,
           NEW l, PutTo(iu[p], l), iu[p].ip # 0, UNCHANGED <<dino, dir, sinode>>,
           PreleI(iu[p].ip, [FreeEntry EXCEPT !.want = itab[iu[p].ip].want], [iu EXCEPT ![p].ip = 0, ![p].pc = l])
    PROVE  InodeInv'
<1> DEFINE r0 == iu[p]
           s == r0.ip
           e == itab[s]
           r == [r0 EXCEPT !.ip = 0, !.pc = l]
<1>1. /\ r0.pc \in {"iputip", "named", "iagot"} /\ s # 0 /\ e.count = 1 /\ PutTo(r0, l) /\ ~e.chg
      /\ l \in {"putpp", "done", "linkfail", "ialoop"}
      /\ UNCHANGED <<dino, dir, sinode>>
      /\ PreleI(s, [FreeEntry EXCEPT !.want = e.want], [iu EXCEPT ![p] = r])
  <2>1. [iu EXCEPT ![p].ip = 0, ![p].pc = l] = [iu EXCEPT ![p] = r]
    BY Here
  <2> QED BY <2>1 DEF PutTo
<1>2. r0 \in IuRec /\ Local(dir, r0) /\ Knows(itab, dir, r0)
  BY Here
<1>3. s \in Entries /\ s \in Slots /\ s # ROOT /\ s # 0 /\ e \in EntryRec /\ Entry(e) /\ itab \in [Slots -> EntryRec]
  <2>1. s \in Slots /\ s # ROOT /\ s # 0
    BY <1>1, <1>2, Values DEF IuRec, Local, Locked, Plocks, MayFail, Frees
  <2> QED BY <2>1, Here DEF Table, Entries
<1>18. e.count = 1 /\ e.lock /\ Holds(r0, s) /\ e.num \in FileInos /\ r0.tgt # s /\ r0.fd # s /\ r0.wfd # s
  <2>1. Holds(r0, s)
    BY <1>1 DEF Holds, Locked, Frees
  <2>2. e.count = 1 /\ e.lock
    BY <1>1, <1>2, <1>3, <2>1 DEF Knows, Frees, Blank
  <2>3. Refs(r0, s) \in Nat /\ Refs(r0, s) # 0
    BY RefsNone
  <2>4. itab[s].count <= 1 /\ Refs(iu[p], s) >= 1
    BY <2>2, <2>3
  <2>5. Refs(r0, s) = 1
    BY <1>3, <2>4, Here, Alone
  <2>6. r0.tgt # s /\ r0.fd # s /\ r0.wfd # s
    BY <1>3, <2>5, SMTT(30) DEF Refs, One
  <2>7. e.num \in FileInos
    BY <1>3, <2>2, Here, FileEntry
  <2> QED BY <2>1, <2>2, <2>6, <2>7
<1>4. r \in IuRec
  <2>1. 0 \in 0 .. NINODE /\ l \in Pcs
    BY <1>1, <1>2, <1>3, Values, Consts DEF IuRec, Local, Frees, Igets, PutTo
  <2> QED BY <1>2, <2>1 DEF IuRec
<1>5. /\ r.pc = l /\ r.op = r0.op /\ r.name = r0.name /\ r.ino = r0.ino /\ r.ip = 0 /\ r.tgt = r0.tgt
      /\ r.pp = r0.pp /\ r.ret = r0.ret /\ r.err = r0.err /\ r.fd = r0.fd /\ r.wfd = r0.wfd
  BY <1>2 DEF IuRec
<1>8. dino' \in [Inos -> DiskRec] /\ dino'[ROOT].mode = 1 /\ sinode' \in Seq(FileInos)
      /\ \A j \in FileInos : j # e.num => dino'[j] = dino[j]
  BY <1>1, Here
<1> HIDE DEF r
<1>9. Local(dir, r)
  BY <1>1, <1>2, <1>3, <1>5, <1>18, Consts, SMTT(60) DEF Local, Locked, Frees, Goal, Without, Igets, Iallocs, MayFail, Plocks, PutTo
<1>10. Knows(itab, dir, r)
  BY <1>1, <1>2, <1>3, <1>5, <1>18, Consts, SMTT(60) DEF Knows, Holds, Local, Locked, Frees, Goal, Without, Igets, Iallocs, MayFail, Plocks, PutTo
<1>11. Refs(r, s) = 0 /\ ~Holds(r, s) /\ r.pc # "iread"
  BY <1>1, <1>2, <1>3, <1>5, <1>18, Consts, SMTT(60) DEF Refs, One, Holds, Local, Locked, Frees, Goal, Without, Igets, Iallocs, MayFail, Plocks, PutTo
<1>12. \A t \in Slots : t # s => StillSlot(r0, r, t)
  BY <1>1, <1>2, <1>3, <1>5, <1>18, Consts, SMTT(60) DEF StillSlot, Refs, One, Holds, Pp, Local, Locked, Frees, Goal, Without, Igets, Iallocs, MayFail, Plocks, PutTo
<1>13. Linked(r) = 0 /\ Made(r) = 0 /\ Linked(r0) = 0 /\ Made(r0) = 0
  BY <1>1, <1>2, <1>3, <1>5, <1>18 DEF Linked, Made, Local, Locked, Frees, Goal, Without, Igets, Iallocs, MayFail, Plocks, PutTo
<1>14. Disk(dino', dir, e.num)
  <2>1. Core(itab, dino, dir, iu, s)
    BY <1>1, <1>3, <1>18, CoreHere
  <2>2. AllLinked(iu, s) = 0 /\ AllMade(iu, s) = 0
    BY <1>3, <1>13, <1>18, NonePending
  <2>3. NamesOf(dir, e.num) \in Nat
    BY PendingTypes
  <2>4. e.nlink = NamesOf(dir, e.num) /\ dino[e.num].nlink = e.nlink /\ dino[e.num].mode = e.mode
    BY <1>1, <2>1, <2>2, <2>3 DEF Core
  <2> QED BY <1>1, <2>1, <2>4 DEF Disk, Core
<1>15. e.want \in BOOLEAN
  BY <1>3 DEF EntryRec
<1>16. Sound(itab', dino', dir, iu')
  <2>1. iu[p].ip = s /\ Holds(iu[p], s) /\ itab[s].count = 1 /\ Linked(iu[p]) \in {0, s} /\ Made(iu[p]) \in {0, s}
    BY <1>13, <1>18
  <2>2. dir' = dir
    BY <1>1
  <2> HIDE DEF s, e
  <2> QED BY <1>1, <1>3, <1>4, <1>8, <1>9, <1>10, <1>11, <1>12, <1>13, <1>14, <1>15, <2>1, Freed, ZenonT(60) DEF e
<1> QED BY <1>1, <1>8, <1>16 DEF InodeInv

LEMMA IputWriteInv ==
    ASSUME InodeInv, NEW p \in IProcs, IputWrite(p)
    PROVE  InodeInv'
<1> DEFINE r0 == iu[p]
           s == r0.ip
           e == itab[s]
           r == [r0 EXCEPT !.ip = 0, !.ret = "none", !.pc = r0.ret]
<1>1. /\ r0.pc = "iupdat" /\ UNCHANGED dir /\ sinode' = Getfs(sinode)
      /\ dino' = [dino EXCEPT ![e.num] = [mode |-> e.mode, nlink |-> e.nlink]]
      /\ PreleI(s, [FreeEntry EXCEPT !.want = e.want], [iu EXCEPT ![p] = r])
  <2>1. [iu EXCEPT ![p].ip = 0, ![p].ret = "none", ![p].pc = iu[p].ret] = [iu EXCEPT ![p] = r]
    BY Here
  <2> QED BY <2>1 DEF IputWrite, At, Iupdat
<1>2. r0 \in IuRec /\ Local(dir, r0) /\ Knows(itab, dir, r0)
  BY Here
<1>3. s \in Entries /\ s \in Slots /\ s # ROOT /\ s # 0 /\ e \in EntryRec /\ Entry(e) /\ itab \in [Slots -> EntryRec]
  <2>1. s \in Slots /\ s # ROOT /\ s # 0
    BY <1>1, <1>2, Values DEF IuRec, Local, Locked, Plocks, MayFail, Frees
  <2> QED BY <2>1, Here DEF Table, Entries
<1>18. e.count = 1 /\ e.lock /\ Holds(r0, s) /\ e.num \in FileInos /\ r0.tgt # s /\ r0.fd # s /\ r0.wfd # s
  <2>1. Holds(r0, s)
    BY <1>1 DEF Holds, Locked, Frees
  <2>2. e.count = 1 /\ e.lock
    BY <1>1, <1>2, <1>3, <2>1 DEF Knows, Frees, Blank
  <2>3. Refs(r0, s) \in Nat /\ Refs(r0, s) # 0
    BY RefsNone
  <2>4. itab[s].count <= 1 /\ Refs(iu[p], s) >= 1
    BY <2>2, <2>3
  <2>5. Refs(r0, s) = 1
    BY <1>3, <2>4, Here, Alone
  <2>6. r0.tgt # s /\ r0.fd # s /\ r0.wfd # s
    BY <1>3, <2>5, SMTT(30) DEF Refs, One
  <2>7. e.num \in FileInos
    BY <1>3, <2>2, Here, FileEntry
  <2> QED BY <2>1, <2>2, <2>6, <2>7
<1>19. r0.ret \in {"putpp", "done", "linkfail", "ialoop", "sync"}
  BY <1>1, <1>2 DEF Local, Frees
<1>4. r \in IuRec
  <2>1. 0 \in 0 .. NINODE /\ r0.ret \in Pcs
    BY <1>1, <1>2, <1>3, <1>19, Values, Consts DEF IuRec, Local, Frees, Igets
  <2> QED BY <1>2, <2>1 DEF IuRec
<1>5. /\ r.pc = r0.ret /\ r.op = r0.op /\ r.name = r0.name /\ r.ino = r0.ino /\ r.ip = 0 /\ r.tgt = r0.tgt
      /\ r.pp = r0.pp /\ r.ret = "none" /\ r.err = r0.err /\ r.fd = r0.fd /\ r.wfd = r0.wfd
  BY <1>2 DEF IuRec
<1>8. dino' \in [Inos -> DiskRec] /\ dino'[ROOT].mode = 1 /\ sinode' \in Seq(FileInos)
      /\ \A j \in FileInos : j # e.num => dino'[j] = dino[j]
  <2>1. [mode |-> e.mode, nlink |-> e.nlink] \in DiskRec
    BY <1>3 DEF EntryRec, DiskRec
  <2>2. sinode' \in Seq(FileInos)
    BY <1>1, Here, GetfsType
  <2> QED BY <1>1, <1>18, <2>1, <2>2, Here, Consts DEF FileInos
<1> HIDE DEF r
<1>9. Local(dir, r)
  BY <1>1, <1>2, <1>3, <1>5, <1>18, <1>19, Consts, SMTT(60) DEF Local, Locked, Frees, Goal, Without, Igets, Iallocs, MayFail, Plocks
<1>10. Knows(itab, dir, r)
  BY <1>1, <1>2, <1>3, <1>5, <1>18, <1>19, Consts, SMTT(60) DEF Knows, Holds, Local, Locked, Frees, Goal, Without, Igets, Iallocs, MayFail, Plocks
<1>11. Refs(r, s) = 0 /\ ~Holds(r, s) /\ r.pc # "iread"
  BY <1>1, <1>2, <1>3, <1>5, <1>18, <1>19, Consts, SMTT(60) DEF Refs, One, Holds, Local, Locked, Frees, Goal, Without, Igets, Iallocs, MayFail, Plocks
<1>12. \A t \in Slots : t # s => StillSlot(r0, r, t)
  BY <1>1, <1>2, <1>3, <1>5, <1>18, <1>19, Consts, SMTT(60) DEF StillSlot, Refs, One, Holds, Pp, Local, Locked, Frees, Goal, Without, Igets, Iallocs, MayFail, Plocks
<1>13. Linked(r) = 0 /\ Made(r) = 0 /\ Linked(r0) = 0 /\ Made(r0) = 0
  BY <1>1, <1>2, <1>3, <1>5, <1>18, <1>19 DEF Linked, Made, Local, Locked, Frees, Goal, Without, Igets, Iallocs, MayFail, Plocks
<1>14. Disk(dino', dir, e.num)
  <2>1. Core(itab, dino, dir, iu, s)
    BY <1>1, <1>3, <1>18, CoreHere
  <2>2. AllLinked(iu, s) = 0 /\ AllMade(iu, s) = 0
    BY <1>3, <1>13, <1>18, NonePending
  <2>3. NamesOf(dir, e.num) \in Nat
    BY PendingTypes
  <2>4. e.nlink = NamesOf(dir, e.num) /\ \A n \in Names : dir[n] = e.num => e.mode # 0
    BY <2>1, <2>2, <2>3 DEF Core
  <2>5. dino'[e.num].nlink = e.nlink /\ dino'[e.num].mode = e.mode
    BY <1>1, <1>18, Here DEF FileInos
  <2> QED BY <2>4, <2>5 DEF Disk
<1>15. e.want \in BOOLEAN
  BY <1>3 DEF EntryRec
<1>16. Sound(itab', dino', dir, iu')
  <2>1. iu[p].ip = s /\ Holds(iu[p], s) /\ itab[s].count = 1 /\ Linked(iu[p]) \in {0, s} /\ Made(iu[p]) \in {0, s}
    BY <1>13, <1>18
  <2>2. dir' = dir
    BY <1>1
  <2> HIDE DEF s, e
  <2> QED BY <1>1, <1>3, <1>4, <1>8, <1>9, <1>10, <1>11, <1>12, <1>13, <1>14, <1>15, <2>1, Freed, ZenonT(60) DEF e
<1> QED BY <1>1, <1>8, <1>16 DEF InodeInv

LEMMA SyncWriteInv2 ==
    ASSUME InodeInv, NEW p \in IProcs, SyncWrite(p), itab[iu[p].ip].count = 1, itab[iu[p].ip].nlink > 0
    PROVE  InodeInv'
<1> DEFINE r0 == iu[p]
           s == r0.ip
           e == itab[s]
           r == [r0 EXCEPT !.ip = 0, !.pc = "sync"]
<1>1. /\ r0.pc = "syncupdat" /\ UNCHANGED dir /\ sinode' = Getfs(sinode) /\ e.count = 1
      /\ dino' = [dino EXCEPT ![e.num] = [mode |-> e.mode, nlink |-> e.nlink]]
      /\ PreleI(s, [FreeEntry EXCEPT !.want = e.want], [iu EXCEPT ![p] = r])
  <2>1. [iu EXCEPT ![p].ip = 0, ![p].pc = "sync"] = [iu EXCEPT ![p] = r]
    BY Here
  <2>3. s \in Slots /\ e \in EntryRec
    BY Here, Values DEF SyncWrite, At, IuRec, Local, Locked, MayFail
  <2> DEFINE f == [e EXCEPT !.chg = FALSE]
  <2>4. f.count = e.count /\ f.nlink = e.nlink /\ f.want = e.want /\ ~(f.count > 1) /\ ~(f.nlink <= 0)
    BY <2>3 DEF EntryRec
  <2>5. At(p, "syncupdat") /\ Iupdat(s) /\ UNCHANGED dir
        /\ \/ f.count > 1
           \/ f.nlink <= 0
           \/ PreleI(s, [FreeEntry EXCEPT !.want = f.want], [iu EXCEPT ![p].ip = 0, ![p].pc = "sync"])
    BY DEF SyncWrite
  <2> HIDE DEF f
  <2> QED BY <2>1, <2>4, <2>5 DEF At, Iupdat
<1>2. r0 \in IuRec /\ Local(dir, r0) /\ Knows(itab, dir, r0)
  BY Here
<1>3. s \in Entries /\ s \in Slots /\ s # ROOT /\ s # 0 /\ e \in EntryRec /\ Entry(e) /\ itab \in [Slots -> EntryRec]
  <2>1. s \in Slots /\ s # ROOT /\ s # 0
    BY <1>1, <1>2, Values DEF IuRec, Local, Locked, Plocks, MayFail, Frees
  <2> QED BY <2>1, Here DEF Table, Entries
<1>18. e.count = 1 /\ e.lock /\ Holds(r0, s) /\ e.num \in FileInos /\ r0.tgt # s /\ r0.fd # s /\ r0.wfd # s
  <2>1. Holds(r0, s)
    BY <1>1 DEF Holds, Locked, Frees
  <2>2. e.count = 1 /\ e.lock
    BY <1>1, <1>2, <1>3, <2>1 DEF Knows, Frees, Blank
  <2>3. Refs(r0, s) \in Nat /\ Refs(r0, s) # 0
    BY RefsNone
  <2>4. itab[s].count <= 1 /\ Refs(iu[p], s) >= 1
    BY <2>2, <2>3
  <2>5. Refs(r0, s) = 1
    BY <1>3, <2>4, Here, Alone
  <2>6. r0.tgt # s /\ r0.fd # s /\ r0.wfd # s
    BY <1>3, <2>5, SMTT(30) DEF Refs, One
  <2>7. e.num \in FileInos
    BY <1>3, <2>2, Here, FileEntry
  <2> QED BY <2>1, <2>2, <2>6, <2>7
<1>4. r \in IuRec
  <2>1. 0 \in 0 .. NINODE /\ "sync" \in Pcs
    BY <1>1, <1>2, <1>3, Values, Consts DEF IuRec, Local, Frees, Igets
  <2> QED BY <1>2, <2>1 DEF IuRec
<1>5. /\ r.pc = "sync" /\ r.op = r0.op /\ r.name = r0.name /\ r.ino = r0.ino /\ r.ip = 0 /\ r.tgt = r0.tgt
      /\ r.pp = r0.pp /\ r.ret = r0.ret /\ r.err = r0.err /\ r.fd = r0.fd /\ r.wfd = r0.wfd
  BY <1>2 DEF IuRec
<1>8. dino' \in [Inos -> DiskRec] /\ dino'[ROOT].mode = 1 /\ sinode' \in Seq(FileInos)
      /\ \A j \in FileInos : j # e.num => dino'[j] = dino[j]
  <2>1. [mode |-> e.mode, nlink |-> e.nlink] \in DiskRec
    BY <1>3 DEF EntryRec, DiskRec
  <2>2. sinode' \in Seq(FileInos)
    BY <1>1, Here, GetfsType
  <2> QED BY <1>1, <1>18, <2>1, <2>2, Here, Consts DEF FileInos
<1> HIDE DEF r
<1>9. Local(dir, r)
  BY <1>1, <1>2, <1>3, <1>5, <1>18, Consts, SMTT(60) DEF Local, Locked, Frees, Goal, Without, Igets, Iallocs, MayFail, Plocks
<1>10. Knows(itab, dir, r)
  BY <1>1, <1>2, <1>3, <1>5, <1>18, Consts, SMTT(60) DEF Knows, Holds, Local, Locked, Frees, Goal, Without, Igets, Iallocs, MayFail, Plocks
<1>11. Refs(r, s) = 0 /\ ~Holds(r, s) /\ r.pc # "iread"
  BY <1>1, <1>2, <1>3, <1>5, <1>18, Consts, SMTT(60) DEF Refs, One, Holds, Local, Locked, Frees, Goal, Without, Igets, Iallocs, MayFail, Plocks
<1>12. \A t \in Slots : t # s => StillSlot(r0, r, t)
  BY <1>1, <1>2, <1>3, <1>5, <1>18, Consts, SMTT(60) DEF StillSlot, Refs, One, Holds, Pp, Local, Locked, Frees, Goal, Without, Igets, Iallocs, MayFail, Plocks
<1>13. Linked(r) = 0 /\ Made(r) = 0 /\ Linked(r0) = 0 /\ Made(r0) = 0
  BY <1>1, <1>2, <1>3, <1>5, <1>18 DEF Linked, Made, Local, Locked, Frees, Goal, Without, Igets, Iallocs, MayFail, Plocks
<1>14. Disk(dino', dir, e.num)
  <2>1. Core(itab, dino, dir, iu, s)
    BY <1>1, <1>3, <1>18, CoreHere
  <2>2. AllLinked(iu, s) = 0 /\ AllMade(iu, s) = 0
    BY <1>3, <1>13, <1>18, NonePending
  <2>3. NamesOf(dir, e.num) \in Nat
    BY PendingTypes
  <2>4. e.nlink = NamesOf(dir, e.num) /\ \A n \in Names : dir[n] = e.num => e.mode # 0
    BY <2>1, <2>2, <2>3 DEF Core
  <2>5. dino'[e.num].nlink = e.nlink /\ dino'[e.num].mode = e.mode
    BY <1>1, <1>18, Here DEF FileInos
  <2> QED BY <2>4, <2>5 DEF Disk
<1>15. e.want \in BOOLEAN
  BY <1>3 DEF EntryRec
<1>16. Sound(itab', dino', dir, iu')
  <2>1. iu[p].ip = s /\ Holds(iu[p], s) /\ itab[s].count = 1 /\ Linked(iu[p]) \in {0, s} /\ Made(iu[p]) \in {0, s}
    BY <1>13, <1>18
  <2>2. dir' = dir
    BY <1>1
  <2> HIDE DEF s, e
  <2> QED BY <1>1, <1>3, <1>4, <1>8, <1>9, <1>10, <1>11, <1>12, <1>13, <1>14, <1>15, <2>1, Freed, ZenonT(60) DEF e
<1> QED BY <1>1, <1>8, <1>16 DEF InodeInv
LEMMA IputInv3 ==
    ASSUME InodeInv, NEW p \in IProcs, itab[iu[p].ip].count = 1, itab[iu[p].ip].lock,
           NEW l, PutTo(iu[p], l), iu[p].ip # 0, UNCHANGED <<itab, dino, dir, sinode>>,
           NEW g \in {"itrunc", "iupdat"}, g = "itrunc" => itab[iu[p].ip].nlink <= 0,
           iu' = [iu EXCEPT ![p].ret = l, ![p].pc = g]
    PROVE  InodeInv'
<1> DEFINE r0 == iu[p]
           r == [r0 EXCEPT !.ret = l, !.pc = g]
<1>1. /\ r0.pc \in {"iputip", "named", "iagot"} /\ PutTo(r0, l) /\ r0.ip # 0 /\ g \in {"itrunc", "iupdat"}
      /\ itab[r0.ip].count = 1 /\ (g = "itrunc" => itab[r0.ip].nlink <= 0)
      /\ l \in {"putpp", "done", "linkfail", "ialoop"}
      /\ iu' = [iu EXCEPT ![p] = r]
      /\ UNCHANGED <<itab, dino, dir, sinode>>
  BY Here DEF PutTo
<1>2. r0 \in IuRec /\ Local(dir, r0) /\ Knows(itab, dir, r0)
  BY Here
<1>3. r \in IuRec
  <2>1. g \in Pcs
    BY <1>1, <1>2, Values DEF IuRec
  <2> QED BY <1>1, <1>2, <2>1 DEF IuRec
<1>4. /\ r.pc = g /\ r.op = r0.op /\ r.name = r0.name /\ r.ino = r0.ino /\ r.ip = r0.ip /\ r.tgt = r0.tgt
      /\ r.pp = r0.pp /\ r.ret = l /\ r.err = r0.err /\ r.fd = r0.fd /\ r.wfd = r0.wfd
  BY <1>2 DEF IuRec
<1> HIDE DEF r
<1>5. Local(dir, r)
  BY <1>1, <1>2, <1>4, Consts, SMTT(60) DEF Local, Goal, Igets, Frees, Locked, Plocks, Without, MayFail, Iallocs, PutTo
<1>6. Knows(itab, dir, r)
  BY <1>1, <1>2, <1>4, Consts, SMTT(60) DEF Knows, Holds, Igets, Frees, Locked, Plocks, Local, Goal, Without, MayFail, PutTo, Iallocs
<1>7. SameLinks(r0, r)
  BY <1>1, <1>2, <1>4 DEF SameLinks, Linked, Made, Plocks, Local
<1>8. \A t \in Slots : StillSlot(r0, r, t)
  BY <1>1, <1>2, <1>4, Consts, SMTT(60) DEF StillSlot, Refs, One, Holds, Locked, Frees, Pp, Local, Goal, Without, Igets, Iallocs
<1>9. Sound(itab, dino, dir, [iu EXCEPT ![p] = r])
  BY <1>3, <1>5, <1>6, <1>7, <1>8, Here, Unmoved
<1> QED BY <1>1, <1>9, Here DEF InodeInv

LEMMA WakeSQuiet ==
    ASSUME NEW w \in [IProcs -> IuRec]
    PROVE  WakeS(w) \in [IProcs -> IuRec] /\ \A q \in IProcs : WakeSame(w[q], WakeS(w)[q])
<1>1. ASSUME NEW q \in IProcs
      PROVE  WakeS(w)[q] \in IuRec /\ WakeSame(w[q], WakeS(w)[q])
  <2>1. w[q] \in IuRec /\ "ialloc_woken" \in Pcs
    BY DEF Pcs, Without, Iallocs
  <2>2. CASE w[q].pc = "ialloc_sleep"
    <3>1. WakeS(w)[q] = [w[q] EXCEPT !.pc = "ialloc_woken"]
      BY <2>2 DEF WakeS
    <3> QED BY <2>1, <2>2, <3>1 DEF IuRec, WakeSame
  <2>3. CASE w[q].pc # "ialloc_sleep"
    <3>1. WakeS(w)[q] = w[q]
      BY <2>3 DEF WakeS
    <3> QED BY <2>1, <3>1 DEF WakeSame
  <2> QED BY <2>2, <2>3
<1>2. WakeS(w) = [q \in IProcs |-> WakeS(w)[q]]
  BY DEF WakeS
<1> QED BY <1>1, <1>2

LEMMA IallocScanInv2 ==
    ASSUME InodeInv, NEW p \in IProcs, IallocScan(p), NEW g \in {"ialoop", "putpp"},
           iu' = WakeS([iu EXCEPT ![p].adr = 0, ![p].pc = g])
    PROVE  InodeInv'
<1> DEFINE r0 == iu[p]
           r == [r0 EXCEPT !.adr = 0, !.pc = g]
<1>1. /\ r0.pc = "iscan" /\ g \in {"ialoop", "putpp"}
      /\ iu' = WakeS([iu EXCEPT ![p] = r])
      /\ UNCHANGED <<itab, dino, dir>>
  <2>1. [iu EXCEPT ![p].adr = 0, ![p].pc = g] = [iu EXCEPT ![p] = r]
    BY Here
  <2> QED BY <2>1 DEF IallocScan, At
<1>2. r0 \in IuRec /\ Local(dir, r0) /\ Knows(itab, dir, r0)
  BY Here
<1>3. r \in IuRec
  <2>1. 0 \in Nat /\ g \in Pcs
    BY <1>1, <1>2, Values DEF IuRec
  <2> QED BY <1>2, <2>1 DEF IuRec
<1>4. /\ r.pc = g /\ r.op = r0.op /\ r.name = r0.name /\ r.ino = r0.ino /\ r.ip = r0.ip /\ r.tgt = r0.tgt
      /\ r.pp = r0.pp /\ r.ret = r0.ret /\ r.err = r0.err /\ r.fd = r0.fd /\ r.wfd = r0.wfd
  BY <1>2 DEF IuRec
<1> HIDE DEF r
<1>5. Local(dir, r)
  BY <1>1, <1>2, <1>4, Consts, SMTT(60) DEF Local, Goal, Igets, Frees, Locked, Plocks, Without, MayFail, Iallocs
<1>6. Knows(itab, dir, r)
  BY <1>1, <1>2, <1>4, Consts, SMTT(60) DEF Knows, Holds, Igets, Frees, Locked, Plocks, Local, Goal, Without, MayFail
<1>7. SameLinks(r0, r)
  BY <1>1, <1>2, <1>4 DEF SameLinks, Linked, Made, Plocks, Local
<1>8. \A t \in Slots : StillSlot(r0, r, t)
  BY <1>1, <1>2, <1>4, Consts, SMTT(60) DEF StillSlot, Refs, One, Holds, Locked, Frees, Pp, Local, Goal, Without, Igets, Iallocs
<1>9. Sound(itab, dino, dir, [iu EXCEPT ![p] = r])
  BY <1>3, <1>5, <1>6, <1>7, <1>8, Here, Unmoved
<1>10. [iu EXCEPT ![p] = r] \in [IProcs -> IuRec]
  BY <1>3, Here
<1>11. Sound(itab, dino, dir, iu')
  BY <1>1, <1>9, <1>10, WakeSQuiet, Woken, ZenonT(60)
<1>20. sinode' \in Seq(FileInos)
  BY ScanType
<1> QED BY <1>1, <1>11, <1>20, Here DEF InodeInv

(* Parts of the actions Iget and IgetRead.                                 *)
IgetNew(p, s) ==
    /\ At(p, "iget") \/ At(p, "iget_woken")
    /\ Matches(p) = {} /\ itab[s].count = 0
    /\ itab' = [itab EXCEPT ![s].num = iu[p].ino, ![s].lock = TRUE,
                  ![s].want = FALSE, ![s].chg = FALSE, ![s].count = @ + 1]
    /\ iu' = [iu EXCEPT ![p].ip = s, ![p].pc = "iread"]
    /\ UNCHANGED <<dino, dir, sinode>>

IgetHas(p, s) ==
    /\ At(p, "iread") /\ s = iu[p].ip
    /\ itab' = [itab EXCEPT ![s].mode = dino[itab[s].num].mode, ![s].nlink = dino[itab[s].num].nlink]
    /\ iu' = IgetReturns(p, s)
    /\ UNCHANGED <<dino, dir, sinode>>

(* An entry that is not in use has no references.                          *)
LEMMA Unused ==
    ASSUME InodeInv, NEW p \in IProcs, NEW s \in Slots, itab[s].count = 0
    PROVE  Refs(iu[p], s) = 0 /\ itab[s] = FreeEntry /\ s # ROOT
<1>1. iu \in [IProcs -> IuRec] /\ AllRefs(iu, s) = 0
  BY Here DEF Sound, RefsAdd
<1> DEFINE z == [Idle EXCEPT !.fd = 0, !.wfd = 0]
<1>2. z \in IuRec /\ z.ip = 0 /\ z.tgt = 0 /\ z.fd = 0 /\ z.wfd = 0 /\ z.pp = FALSE
  <2>1. z \in IuRec
    BY Values, Ended
  <2> QED BY <2>1 DEF Idle
<1> HIDE DEF z
<1>3. Refs(z, s) = 0
  BY <1>2, Consts DEF Refs, One, Pp
<1>4. PICK v : v = [iu EXCEPT ![p] = z]
  OBVIOUS
<1>5. v \in [IProcs -> IuRec]
  BY <1>1, <1>2, <1>4
<1>6. AllRefs(v, s) = AllRefs(iu, s) - Refs(iu[p], s) + Refs(z, s) /\ Refs(iu[p], s) \in Nat
  BY <1>1, <1>2, <1>4, RefsMove
<1>7. AllRefs(v, s) \in Nat
  BY <1>2, <1>5, RefsMove
<1>8. itab[s] = FreeEntry
  BY Here DEF Table, Entry
<1>9. s # ROOT
  BY Here DEF Table, RootEntry
<1> QED BY <1>1, <1>3, <1>6, <1>7, <1>8, <1>9

LEMMA IgetInv4 ==
    ASSUME InodeInv, NEW p \in IProcs, NEW s \in Slots, IgetNew(p, s)
    PROVE  InodeInv'
<1> DEFINE r0 == iu[p]
           i == r0.ino
           e == itab[s]
           e1 == [e EXCEPT !.num = i, !.lock = TRUE, !.want = FALSE, !.chg = FALSE, !.count = e.count + 1]
           r == [r0 EXCEPT !.ip = s, !.pc = "iread"]
<1>1. /\ r0.pc \in {"iget", "iget_woken"} /\ UNCHANGED <<dino, dir, sinode>> /\ e.count = 0
      /\ \A t \in Slots : itab[t].num # i
      /\ itab' = [itab EXCEPT ![s] = e1]
      /\ iu' = [iu EXCEPT ![p] = r]
  BY Here DEF IgetNew, At, Matches
<1>2. r0 \in IuRec /\ Local(dir, r0) /\ Knows(itab, dir, r0) /\ r0.ip = 0 /\ r0.pc \in Without
  BY <1>1, Here DEF Local, Without, Igets
<1>3. s \in Entries /\ s \in Slots /\ s # ROOT /\ s # 0 /\ e = FreeEntry /\ Refs(r0, s) = 0
      /\ itab \in [Slots -> EntryRec] /\ e \in EntryRec
  BY <1>1, Unused, Here, Consts DEF Entries
<1>4. i \in FileInos /\ i # 0 /\ i \in 0 .. NInos /\ i # ROOT
  <2>1. i \in Inos
    BY <1>1, <1>2 DEF Local, Igets
  <2>2. i # ROOT
    BY <1>1, Here, Consts DEF Table, RootEntry
  <2> QED BY <2>1, <2>2, Consts DEF FileInos
<1>5. r \in IuRec
  <2>1. s \in 0 .. NINODE /\ "iread" \in Pcs
    BY <1>3, Values, Consts
  <2> QED BY <1>2, <2>1 DEF IuRec
<1>6. /\ r.pc = "iread" /\ r.op = r0.op /\ r.name = r0.name /\ r.ino = r0.ino /\ r.ip = s /\ r.tgt = r0.tgt
      /\ r.pp = r0.pp /\ r.ret = r0.ret /\ r.err = r0.err /\ r.fd = r0.fd /\ r.wfd = r0.wfd
  BY <1>2 DEF IuRec
<1>7. e1.num = i /\ e1.count = 1 /\ e1.lock = TRUE /\ e1.mode = 0 /\ e1.nlink = 0 /\ e1.chg = FALSE
  <2>1. e.mode = 0 /\ e.nlink = 0 /\ e.count = 0
    BY <1>3 DEF FreeEntry
  <2> QED BY <1>3, <2>1 DEF EntryRec
<1>8. e1 \in EntryRec
  <2>1. e.count + 1 \in Nat
    BY <1>1
  <2> QED BY <1>3, <1>4, <2>1 DEF EntryRec
<1>9. itab' \in [Slots -> EntryRec] /\ itab'[s] = e1 /\ \A t \in Slots : t # s => itab'[t] = itab[t]
  BY <1>1, <1>3, <1>8
<1> HIDE DEF r, e1
<1>10. Local(dir, r)
  BY <1>1, <1>2, <1>3, <1>4, <1>6, Consts, SMTT(60) DEF Local, Locked, Frees, Goal, Without, Igets, Iallocs, MayFail, Plocks
<1>11. r0.tgt # s /\ r0.fd # s /\ r0.wfd # s
  BY <1>3, RefsNone
<1>12. \A t \in Slots : t # s => StillSlot(r0, r, t)
  BY <1>1, <1>2, <1>3, <1>6, Consts, SMTT(60) DEF StillSlot, Refs, One, Holds, Pp, Local, Locked, Frees, Goal, Without, Igets, Iallocs, MayFail, Plocks
<1>13. \A t \in Slots : t # s => SameMarks(r0, r, t)
  BY <1>1, <1>2, <1>3, <1>6, Consts, SMTT(60) DEF SameMarks, Linked, Made, Reads, Plocks
<1>14. Knows(itab', dir, r)
  <2>1. \A t \in Slots : Holds(r, t) => itab'[t].lock
    BY <1>2, <1>7, <1>9, <1>12 DEF StillSlot, Knows
  <2>2. /\ r.tgt \in 0 .. NINODE /\ r.fd \in 0 .. NINODE /\ r.wfd \in 0 .. NINODE
        /\ \A t \in 0 .. NINODE : t # 0 => t \in Slots
    BY <1>5, Values DEF IuRec
  <2>3. Blank(itab'[r.ip], r.ino)
    BY <1>6, <1>7, <1>9 DEF Blank
  <2>4. r.pc \notin Frees \cup Plocks \cup {"wdir", "open1", "ctrunc", "unlink"}
    BY <1>6 DEF Frees, Plocks
  <2> QED BY <1>2, <1>6, <1>9, <1>11, <2>1, <2>2, <2>3, <2>4 DEF Knows, Frees
<1>15. SlotStep(itab[s], itab'[s], iu[p], r, s)
  <2>1. Refs(r, s) = 1
    BY <1>3, <1>6, <1>11 DEF Refs, One
  <2>2. e.lock = FALSE /\ e.mode = 0
    BY <1>3 DEF FreeEntry
  <2>3. Entry(e1)
    BY <1>4, <1>7 DEF Entry
  <2> QED BY <1>1, <1>3, <1>7, <1>9, <2>1, <2>2, <2>3 DEF SlotStep
<1>16. \A t \in Slots : t # s => OtherSlot(itab[t], itab'[t], iu[p], r, t)
  BY <1>9, <1>12, <1>13, OtherSame
<1>17. PICK w : w = [iu EXCEPT ![p] = r]
  OBVIOUS
<1>18. Reading(w, s)
  BY <1>6, <1>17, Here DEF Reading
<1>19. /\ itab[s].num \in {0, i} /\ itab'[s].num \in {0, i} /\ i \in {itab[s].num, itab'[s].num}
       /\ itab[s].num = 0 => \A t \in Slots : itab[t].num # i
  BY <1>1, <1>3, <1>7, <1>9 DEF FreeEntry
<1>20. Disk(dino, dir, i)
  BY <1>1, <1>4, Here DEF Sound, LinksAdd
<1>21. dino \in [Inos -> DiskRec] /\ dir \in [Names -> FileInos \cup {0}]
       /\ \A j \in FileInos : j # i => dino[j] = dino[j] /\ SameNames(dir, dir, j)
  BY Here DEF SameNames
<1>22. Sound(itab', dino, dir, w)
  <2> HIDE DEF i, e, r0
  <2>1. EntryChange(itab', dino, dir, p, r, w, s, i)
    BY <1>10, <1>14, <1>15, <1>16, <1>18, <1>19, <1>20, <1>21, Zenon DEF EntryChange
  <2> QED BY <1>3, <1>4, <1>5, <1>9, <1>17, <1>21, <2>1, EntryStep, ZenonT(60)
<1> QED BY <1>1, <1>17, <1>22, Here DEF InodeInv

LEMMA IgetReadInv1 ==
    ASSUME InodeInv, NEW p \in IProcs, NEW s, IgetHas(p, s)
    PROVE  InodeInv'
<1> DEFINE r0 == iu[p]
           e == itab[s]
           i == e.num
           d == dino[i]
           e1 == [e EXCEPT !.mode = d.mode, !.nlink = d.nlink]
           r == [r0 EXCEPT !.ip = s, !.err = r0.err, !.ino = 0, !.ret = "none", !.pc = r0.ret]
<1>1. r0.pc = "iread" /\ s = r0.ip /\ UNCHANGED <<dino, dir, sinode>>
  BY DEF IgetHas, At
<1>2. r0 \in IuRec /\ Local(dir, r0) /\ Knows(itab, dir, r0)
  BY Here
<1>3. s \in Entries /\ s \in Slots /\ s # ROOT /\ s # 0 /\ e \in EntryRec /\ itab \in [Slots -> EntryRec]
  <2>1. s \in Slots /\ s # ROOT /\ s # 0
    BY <1>1, <1>2, Values DEF IuRec, Local, Locked, MayFail
  <2> QED BY <2>1, Here DEF Entries
<1>4. Blank(e, r0.ino) /\ Holds(r0, s) /\ r0.tgt # s /\ r0.fd # s /\ r0.wfd # s
  <2>1. Blank(e, r0.ino) /\ Holds(r0, s)
    BY <1>1, <1>2 DEF Knows, Holds, Locked
  <2>2. Refs(r0, s) \in Nat /\ Refs(r0, s) # 0
    BY <1>1, RefsNone
  <2>3. itab[s].count <= 1 /\ Refs(iu[p], s) >= 1
    BY <2>1, <2>2 DEF Blank
  <2>4. Refs(r0, s) = 1
    BY <1>3, <2>3, Here, Alone
  <2>5. r0.tgt # s /\ r0.fd # s /\ r0.wfd # s
    BY <1>1, <1>3, <2>4, SMTT(30) DEF Refs, One
  <2> QED BY <2>1, <2>5
<1>5. i \in FileInos /\ i # 0 /\ d \in DiskRec /\ r0.ino = i
  <2>1. i \in FileInos
    BY <1>3, <1>4, Here, FileEntry DEF Blank
  <2> QED BY <1>4, <2>1, Here, Consts DEF FileInos, Blank
<1>6. r0.ret \in {"named", "unlink", "iagot"}
  <2>1. r0.ret \in {"dirread", "named", "unlink", "iagot"} /\ (r0.ret = "dirread" => r0.ino = ROOT)
    BY <1>1, <1>2 DEF Local
  <2> QED BY <1>5, <2>1 DEF FileInos
<1>7. r \in IuRec
  <2>1. r0.ret \in Pcs /\ 0 \in 0 .. NInos /\ s \in 0 .. NINODE /\ r0.err \in BOOLEAN
    BY <1>2, <1>3, <1>6, Values, Consts DEF IuRec
  <2> QED BY <1>2, <2>1 DEF IuRec
<1>8. /\ r.pc = r0.ret /\ r.op = r0.op /\ r.name = r0.name /\ r.ino = 0 /\ r.ip = s /\ r.tgt = r0.tgt
      /\ r.pp = r0.pp /\ r.ret = "none" /\ r.err = r0.err /\ r.fd = r0.fd /\ r.wfd = r0.wfd
  BY <1>2 DEF IuRec
<1>9. itab' = [itab EXCEPT ![s] = e1] /\ iu' = [iu EXCEPT ![p] = r]
  <2>1. itab' = [itab EXCEPT ![s] = e1]
    BY Here DEF IgetHas
  <2>2. PICK b : b = (r0.err \/ s = 0)
    OBVIOUS
  <2>3. b = r0.err
    BY <1>2, <1>3, <2>2 DEF IuRec
  <2>4. iu' = [iu EXCEPT ![p] = [r0 EXCEPT !.ip = s, !.err = b, !.ino = 0, !.ret = "none", !.pc = r0.ret]]
    BY <2>2, Here DEF IgetHas, IgetReturns
  <2> QED BY <2>1, <2>3, <2>4
<1>10. e1.num = i /\ e1.count = 1 /\ e1.lock /\ e1.mode = d.mode /\ e1.nlink = d.nlink /\ e1.chg = FALSE
  BY <1>3, <1>4 DEF EntryRec, Blank
<1>11. e1 \in EntryRec
  BY <1>3, <1>5 DEF EntryRec, DiskRec
<1>12. itab' \in [Slots -> EntryRec] /\ itab'[s] = e1 /\ \A t \in Slots : t # s => itab'[t] = itab[t]
  BY <1>3, <1>9, <1>11
<1> HIDE DEF r, e1
<1>13. Local(dir, r)
  BY <1>1, <1>2, <1>3, <1>5, <1>6, <1>8, Consts, SMTT(60) DEF Local, Locked, Frees, Goal, Without, Igets, Iallocs, MayFail, Plocks
<1>14. \A t \in Slots : t # s => StillSlot(r0, r, t)
  BY <1>1, <1>2, <1>3, <1>6, <1>8, Consts, SMTT(60) DEF StillSlot, Refs, One, Holds, Pp, Local, Locked, Frees, Goal, Without, Igets, Iallocs, MayFail, Plocks
<1>15. Linked(r0) = 0 /\ Made(r0) = 0 /\ Linked(r) = 0 /\ Made(r) = 0
  BY <1>1, <1>6, <1>8 DEF Linked, Made, Plocks
<1>16. \A t \in Slots : t # s => SameMarks(r0, r, t)
  BY <1>1, <1>6, <1>8, <1>15 DEF SameMarks, Reads
<1>17. Knows(itab', dir, r)
  <2>1. \A t \in Slots : Holds(r, t) => itab'[t].lock
    BY <1>2, <1>10, <1>12, <1>14 DEF StillSlot, Knows
  <2>2. /\ r.tgt \in 0 .. NINODE /\ r.fd \in 0 .. NINODE /\ r.wfd \in 0 .. NINODE
        /\ \A t \in 0 .. NINODE : t # 0 => t \in Slots
    BY <1>7, Values DEF IuRec
  <2>3. r.pc \notin Frees \cup Plocks \cup {"wdir", "open1", "ctrunc", "iread"}
    BY <1>6, <1>8 DEF Frees, Plocks
  <2>4. r.pc = "unlink" => dir[r.name] = itab'[r.ip].num
    BY <1>1, <1>2, <1>5, <1>8, <1>10, <1>12 DEF Local
  <2> QED BY <1>2, <1>4, <1>8, <1>12, <2>1, <2>2, <2>3, <2>4 DEF Knows, Frees
<1>18. SlotStep(itab[s], itab'[s], iu[p], r, s)
  <2>1. Refs(r, s) = Refs(r0, s) /\ Refs(r0, s) \in Nat
    BY <1>1, <1>8, RefsNone DEF Refs, Pp
  <2>2. Entry(e1)
    BY <1>5, <1>10 DEF Entry
  <2> QED BY <1>3, <1>4, <1>10, <1>12, <2>1, <2>2 DEF SlotStep, Blank
<1>19. \A t \in Slots : t # s => OtherSlot(itab[t], itab'[t], iu[p], r, t)
  BY <1>12, <1>14, <1>16, OtherSame
<1>20. PICK w : w = [iu EXCEPT ![p] = r]
  OBVIOUS
<1>21. Disk(dino, dir, i)
  <2>1. \A t \in Slots : itab[t].num = i => t = s
    BY <1>3, <1>5, Here DEF Table
  <2>2. Reading(iu, s)
    BY <1>1 DEF Reading
  <2>3. \A t \in Slots : itab[t].num = i => Reading(iu, t)
    BY <2>1, <2>2
  <2>4. LinksAdd(itab, dino, dir, iu)
    BY Here DEF Sound
  <2> QED BY <1>5, <2>3, <2>4 DEF LinksAdd
<1>22. Core(itab', dino, dir, w, s)
  <2>1. AllLinked(iu, s) = 0 /\ AllMade(iu, s) = 0
    BY <1>1, <1>3, <1>4, <1>15, NonePending DEF Blank
  <2>2. /\ AllMade([iu EXCEPT ![p] = r], s) = AllMade(iu, s) - One(Made(r0), s) + One(Made(r), s)
        /\ AllLinked([iu EXCEPT ![p] = r], s) = AllLinked(iu, s) - One(Linked(r0), s) + One(Linked(r), s)
    BY <1>7, Here, MadeMove, LinkedMove, Zenon
  <2>3. One(0, s) = 0 /\ NamesOf(dir, i) \in Nat
    BY <1>3, PendingTypes DEF One
  <2>4. AllMade(w, s) = 0 /\ AllLinked(w, s) = 0
    BY <1>15, <1>20, <2>1, <2>2, <2>3
  <2> QED BY <1>10, <1>12, <1>21, <2>3, <2>4 DEF Core, Disk
<1>23. /\ itab[s].num \in {0, i} /\ itab'[s].num \in {0, i} /\ i \in {itab[s].num, itab'[s].num}
       /\ itab[s].num = 0 => \A t \in Slots : itab[t].num # i
  BY <1>5, <1>10, <1>12
<1>24. dino \in [Inos -> DiskRec] /\ dir \in [Names -> FileInos \cup {0}]
       /\ \A j \in FileInos : j # i => dino[j] = dino[j] /\ SameNames(dir, dir, j)
  BY Here DEF SameNames
<1>25. Sound(itab', dino, dir, w)
  <2>1. i \in FileInos
    BY <1>5
  <2> HIDE DEF i, e, r0, d
  <2>2. EntryChange(itab', dino, dir, p, r, w, s, i)
    BY <1>13, <1>17, <1>18, <1>19, <1>21, <1>22, <1>23, <1>24, Zenon DEF EntryChange
  <2> QED BY <1>3, <1>7, <1>12, <1>20, <1>24, <2>1, <2>2, EntryStep, ZenonT(60)
<1> QED BY <1>1, <1>9, <1>20, <1>25, Here DEF InodeInv

(* Parts of the action Wdir.                                               *)
WdirPuts(p) ==
    /\ At(p, "wdir") /\ UNCHANGED <<dino, sinode>>
    /\ dir' = [dir EXCEPT ![iu[p].name] = itab[iu[p].ip].num]
    /\ PutDir(p, [iu EXCEPT ![p].name = "none", ![p].pc = IF iu[p].op = "link" THEN "plock" ELSE "open1"])

WdirFails(p) ==
    /\ At(p, "wdir") /\ UNCHANGED <<dino, dir, sinode>> /\ iu[p].op = "creat"
    /\ itab' = [itab EXCEPT ![iu[p].ip].nlink = 0, ![ROOT] = Unlocked([itab[ROOT] EXCEPT !.count = @ - 1])]
    /\ iu' \in {[iu EXCEPT ![p].pp = FALSE, ![p].pc = "iputip"],
                 WakeI([iu EXCEPT ![p].pp = FALSE, ![p].pc = "iputip"], ROOT)}

(* iput(u_pdir): what the process does to the entry of the directory.      *)
LEMMA RootPut ==
    ASSUME InodeInv, NEW p \in IProcs, iu[p].pp, NEW r,
           Refs(r, ROOT) = Refs(iu[p], ROOT) - 1, ~Holds(r, ROOT), SameMarks(iu[p], r, ROOT)
    PROVE  LET e1 == Unlocked([itab[ROOT] EXCEPT !.count = @ - 1]) IN
           e1 \in EntryRec /\ OtherSlot(itab[ROOT], e1, iu[p], r, ROOT)
<1> DEFINE e == itab[ROOT]
           e1 == Unlocked([itab[ROOT] EXCEPT !.count = @ - 1])
<1>1. ROOT \in Slots /\ e \in EntryRec /\ RootEntry(e)
  BY Here, Consts DEF Table
<1>2. Refs(iu[p], ROOT) \in Nat /\ Refs(iu[p], ROOT) >= 1 /\ Holds(iu[p], ROOT)
  <2>1. Refs(iu[p], ROOT) \in Nat
    BY RefsNone
  <2>2. Refs(iu[p], ROOT) # 0
    BY SMTT(30) DEF Refs, One, Pp
  <2> QED BY <2>1, <2>2 DEF Holds
<1>3. e.count >= 2 /\ e.count \in Nat /\ e.count - 1 \in Nat
  BY <1>1, <1>2, RootRefs DEF EntryRec
<1>4. e1.num = e.num /\ e1.count = e.count - 1 /\ e1.mode = e.mode /\ e1.nlink = e.nlink /\ e1.chg = e.chg
  BY <1>1, <1>3 DEF EntryRec, Unlocked
<1>5. e1 \in EntryRec
  BY <1>1, <1>3 DEF EntryRec, Unlocked
<1> HIDE DEF e1
<1>6. Entry(e1) /\ RootEntry(e1)
  BY <1>1, <1>3, <1>4, Consts DEF Entry, RootEntry
<1>7. SlotStep(e, e1, iu[p], r, ROOT)
  BY <1>1, <1>2, <1>3, <1>4, <1>6 DEF SlotStep, RootEntry
<1>8. SameCore(e, e1)
  BY <1>3, <1>4 DEF SameCore
<1> QED BY <1>5, <1>7, <1>8 DEF OtherSlot, e1

LEMMA WdirInv2 ==
    ASSUME InodeInv, NEW p \in IProcs, WdirPuts(p), iu[p].op = "creat"
    PROVE  InodeInv'
<1> DEFINE r0 == iu[p]
           s == r0.ip
           e == itab[s]
           i == e.num
           e1 == e
           root == Unlocked([itab[ROOT] EXCEPT !.count = @ - 1])
           r == [r0 EXCEPT !.name = "none", !.pc = "open1", !.pp = FALSE]
<1>1. /\ r0.pc = "wdir" /\ r0.op = "creat" /\ UNCHANGED <<dino, sinode>>
      /\ dir' = [dir EXCEPT ![r0.name] = i] /\ itab' = [itab EXCEPT ![ROOT] = root]
      /\ PreleI(ROOT, [itab[ROOT] EXCEPT !.count = @ - 1], [iu EXCEPT ![p] = r])
  <2>1. [[iu EXCEPT ![p].name = "none", ![p].pc = "open1"] EXCEPT ![p].pp = FALSE] = [iu EXCEPT ![p] = r]
    BY Here
  <2> QED BY <2>1 DEF WdirPuts, PutDir, PreleI, At
<1>2. r0 \in IuRec /\ Local(dir, r0) /\ Knows(itab, dir, r0)
  BY Here
<1>3. /\ s \in Entries /\ s \in Slots /\ s # ROOT /\ s # 0 /\ e \in EntryRec /\ Entry(e) /\ itab \in [Slots -> EntryRec]
      /\ ROOT \in Slots
  <2>1. s \in Slots /\ s # ROOT /\ s # 0
    BY <1>1, <1>2, Values DEF IuRec, Local, Locked, Plocks, MayFail, Frees
  <2> QED BY <2>1, Here, Consts DEF Table, Entries
<1>4. /\ r0.pp /\ r0.name \in Names /\ dir[r0.name] = 0 /\ r0.tgt = 0 /\ e.mode # 0
      /\ r0.op = "link" => r0.err = FALSE
  BY <1>1, <1>2 DEF IuRec, Local, Knows, Goal, Igets, Frees, Plocks
<1>5. i \in FileInos /\ i # 0 /\ e.count > 0
  <2>1. Refs(r0, s) # 0 /\ Refs(r0, s) \in Nat
    BY RefsNone
  <2>2. e.count > 0
    BY <1>3, <1>4 DEF Entry, FreeEntry, EntryRec
  <2>3. i \in FileInos
    BY <1>3, <2>2, Here, FileEntry
  <2> QED BY <2>2, <2>3, Consts DEF FileInos
<1>6. r \in IuRec
  BY <1>1, <1>2, Values DEF IuRec
<1>7. /\ r.pc = "open1" /\ r.op = r0.op /\ r.name = "none" /\ r.ino = r0.ino /\ r.ip = r0.ip /\ r.tgt = r0.tgt
      /\ r.pp = FALSE /\ r.ret = r0.ret /\ r.err = r0.err /\ r.fd = r0.fd /\ r.wfd = r0.wfd
  BY <1>2 DEF IuRec
<1>8. e1 \in EntryRec
      /\ e1.num = e.num /\ e1.count = e.count /\ e1.lock = e.lock /\ e1.mode = e.mode /\ e1.nlink = e.nlink /\ e1.chg = e.chg
  BY <1>3, <1>5 DEF EntryRec
<1> HIDE DEF r, e1
<1>9. Local(dir', r)
  BY <1>1, <1>2, <1>3, <1>4, <1>7, Consts, SMTT(60) DEF Local, Locked, Frees, Goal, Without, Igets, Iallocs, MayFail, Plocks
<1>10. \A t \in Slots : t \notin {s, ROOT} => StillSlot(r0, r, t)
  BY <1>1, <1>2, <1>3, <1>4, <1>7, Consts, SMTT(60) DEF StillSlot, Refs, One, Holds, Pp, Local, Locked, Frees, Goal, Without, Igets, Iallocs, MayFail, Plocks
<1>11. \A t \in Slots : t # s => SameMarks(r0, r, t)
  BY <1>1, <1>2, <1>3, <1>4, <1>7, Consts, SMTT(60) DEF SameMarks, Linked, Made, Reads, Plocks
<1>12. Refs(r, ROOT) = Refs(r0, ROOT) - 1 /\ ~Holds(r, ROOT)
  BY <1>1, <1>2, <1>3, <1>4, <1>7, Consts, SMTT(60) DEF Refs, One, Holds, Pp, Local, Locked, Frees, Goal, Without, Igets, Iallocs, MayFail, Plocks
<1>13. root \in EntryRec /\ OtherSlot(itab[ROOT], root, r0, r, ROOT)
  BY <1>3, <1>4, <1>11, <1>12, RootPut
<1> HIDE DEF root
<1>14. /\ itab' \in [Slots -> EntryRec] /\ itab'[s] = e1 /\ itab'[ROOT] = root
       /\ \A t \in Slots : t \notin {s, ROOT} => itab'[t] = itab[t]
  BY <1>1, <1>3, <1>8, <1>13 DEF e1
<1>15. \A t \in Slots : t # s => OtherSlot(itab[t], itab'[t], iu[p], r, t)
  <2>1. \A t \in Slots : t \notin {s, ROOT} => OtherSlot(itab[t], itab'[t], iu[p], r, t)
    BY <1>10, <1>11, <1>14, OtherSame
  <2> QED BY <1>13, <1>14, <2>1
<1>16. SlotStep(itab[s], itab'[s], iu[p], r, s)
  <2>1. Refs(r, s) = Refs(r0, s) /\ Refs(r0, s) \in Nat
    BY <1>3, <1>4, <1>7, RefsNone DEF Refs
  <2>2. Holds(r, s) => Holds(r0, s)
    BY <1>1, <1>3, <1>7 DEF Holds, Locked, Plocks, Frees
  <2>3. itab'[s] = e
    BY <1>14 DEF e1
  <2> QED BY <1>3, <2>1, <2>2, <2>3 DEF SlotStep, SameEntry, EntryRec
<1>17. Knows(itab', dir', r)
  <2>1. /\ r.ip \in 0 .. NINODE /\ r.tgt \in 0 .. NINODE /\ r.fd \in 0 .. NINODE /\ r.wfd \in 0 .. NINODE
        /\ \A t \in 0 .. NINODE : t # 0 => t \in Slots
    BY <1>6, Values DEF IuRec
  <2>2. \A t \in Slots : Holds(r, t) => t # ROOT /\ Holds(r0, t) /\ itab'[t].lock = itab[t].lock
    BY <1>1, <1>7, <1>8, <1>10, <1>12, <1>14 DEF StillSlot, Holds, Locked, Plocks, Frees
  <2>3. \A t \in Slots : Holds(r, t) => itab'[t].lock
    BY <1>2, <2>2 DEF Knows
  <2>4. \A t \in Slots : itab[t].mode # 0 => itab'[t].mode # 0
    BY <1>8, <1>13, <1>14 DEF OtherSlot, SameCore
  <2>5. r.ip = s /\ r.tgt = 0 /\ (r.fd # 0 => r.fd \in Slots) /\ (r.wfd # 0 => r.wfd \in Slots)
    BY <1>4, <1>7, <2>1
  <2>6. r.pc \notin Frees \cup {"iread", "wdir", "unlink"}
    BY <1>1, <1>7 DEF Frees
  <2>7. r.pc \in {"open1", "ctrunc", "wdir"} \cup Plocks => itab'[r.ip].mode # 0
    BY <1>1, <1>3, <1>4, <2>4, <2>5
  <2>8. (r.fd # 0 => itab'[r.fd].mode # 0) /\ (r.wfd # 0 => itab'[r.wfd].mode # 0)
    BY <1>2, <1>7, <2>4, <2>5 DEF Knows
  <2> QED BY <2>3, <2>5, <2>6, <2>7, <2>8 DEF Knows, Frees
<1>18. PICK w : w = [iu EXCEPT ![p] = r]
  OBVIOUS
<1>19. ~Reading(w, s) /\ ~Reading(iu, s)
  <2>1. ASSUME NEW q \in IProcs, iu[q].pc = "iread", iu[q].ip = s
        PROVE  FALSE
    <3>1. Blank(itab[s], iu[q].ino)
      BY <2>1, Here DEF Knows
    <3> QED BY <1>4, <3>1 DEF Blank
  <2>2. w[p].pc # "iread" /\ \A q \in IProcs : q # p => w[q] = iu[q]
    BY <1>1, <1>7, <1>18, Here
  <2> QED BY <2>1, <2>2 DEF Reading
<1>20. /\ AllMade(w, s) = AllMade(iu, s) - One(Made(r0), s) + One(Made(r), s)
       /\ AllLinked(w, s) = AllLinked(iu, s) - One(Linked(r0), s) + One(Linked(r), s)
       /\ AllMade(iu, s) \in Nat /\ AllLinked(iu, s) \in Nat
  BY <1>6, <1>18, Here, MadeMove, LinkedMove, Zenon
<1>21. Core(itab, dino, dir, iu, s)
  BY <1>3, <1>5, <1>19, Here DEF Sound, LinksAdd
<1>22. Core(itab', dino, dir', w, s)
  <2>1. \A m \in Names : m # r0.name => dir'[m] = dir[m]
    BY <1>1, <1>4, Here
  <2>2. dir'[r0.name] = i /\ dir[r0.name] = 0
    BY <1>1, <1>4, Here
  <2>3. NamesOf(dir', i) = NamesOf(dir, i) - One(dir[r0.name], i) + One(dir'[r0.name], i)
    <3>1. r0.name \in Names
      BY <1>4
    <3>2. PICK n, k : n = r0.name /\ k = i
      OBVIOUS
    <3>4. n \in Names /\ \A m \in Names : m # n => dir'[m] = dir[m]
      BY <2>1, <3>1, <3>2
    <3>3. NamesOf(dir', k) = NamesOf(dir, k) - One(dir[n], k) + One(dir'[n], k)
      BY <3>4, NamesMoved
    <3> QED BY <3>2, <3>3
  <2>4. NamesOf(dir', i) = NamesOf(dir, i) + 1 /\ NamesOf(dir, i) \in Nat
    BY <1>5, <2>2, <2>3, PendingTypes DEF One
  <2>5. One(0, s) = 0 /\ One(s, s) = 1
    BY <1>3 DEF One
  <2>6. Linked(r0) = 0 /\ Linked(r) = 0 /\ Made(r0) = s /\ Made(r) = 0
    BY <1>1, <1>3, <1>4, <1>7 DEF Made, Linked, Plocks
  <2>7. e.nlink = NamesOf(dir', i) + AllMade(w, s) - AllLinked(w, s)
    BY <1>20, <1>21, <2>4, <2>5, <2>6 DEF Core
  <2>8. ~e.chg => dino[i].mode = e.mode /\ dino[i].nlink = e.nlink
    BY <1>21 DEF Core
  <2> QED BY <1>4, <1>8, <1>14, <2>7, <2>8 DEF Core
<1>23. /\ itab[s].num \in {0, i} /\ itab'[s].num \in {0, i} /\ i \in {itab[s].num, itab'[s].num}
       /\ itab[s].num = 0 => \A t \in Slots : itab[t].num # i
       /\ (itab'[s].num = i => Reading(w, s)) => Disk(dino, dir', i)
  BY <1>5, <1>8, <1>14, <1>19
<1>24. dino \in [Inos -> DiskRec] /\ dir' \in [Names -> FileInos \cup {0}]
       /\ \A j \in FileInos : j # i => dino[j] = dino[j] /\ SameNames(dir, dir', j)
  <2>1. \A n \in Names : n # r0.name => dir'[n] = dir[n]
    BY <1>1, <1>4, Here
  <2>2. dir'[r0.name] = i /\ dir[r0.name] = 0 /\ \A j \in FileInos : j # 0
    BY <1>1, <1>4, Here, Consts DEF FileInos
  <2> QED BY <1>1, <1>4, <1>5, <2>1, <2>2, Here DEF SameNames
<1>25. Sound(itab', dino, dir', w)
  <2>1. i \in FileInos /\ iu[p].pp /\ Core(itab', dino, dir', w, s)
    BY <1>4, <1>5, <1>22
  <2> HIDE DEF i, e, s
  <2>2. EntryChange(itab', dino, dir', p, r, w, s, i)
    BY <1>9, <1>15, <1>16, <1>17, <1>23, <1>24, <2>1, Zenon DEF EntryChange
  <2> QED BY <1>3, <1>6, <1>9, <1>14, <1>18, <1>24, <2>1, <2>2, EntryStep, ZenonT(60)
<1>26. Sound(itab', dino, dir', iu')
  <2>1. PreleI(ROOT, [itab[ROOT] EXCEPT !.count = @ - 1], w)
    BY <1>1, <1>18
  <2> QED BY <1>3, <1>25, <2>1, Prele
<1> QED BY <1>1, <1>26, Here DEF InodeInv

LEMMA WdirInv4 ==
    ASSUME InodeInv, NEW p \in IProcs, WdirPuts(p), iu[p].op = "link"
    PROVE  InodeInv'
<1> DEFINE r0 == iu[p]
           s == r0.ip
           e == itab[s]
           i == e.num
           e1 == e
           root == Unlocked([itab[ROOT] EXCEPT !.count = @ - 1])
           r == [r0 EXCEPT !.name = "none", !.pc = "plock", !.pp = FALSE]
<1>1. /\ r0.pc = "wdir" /\ r0.op = "link" /\ UNCHANGED <<dino, sinode>>
      /\ dir' = [dir EXCEPT ![r0.name] = i] /\ itab' = [itab EXCEPT ![ROOT] = root]
      /\ PreleI(ROOT, [itab[ROOT] EXCEPT !.count = @ - 1], [iu EXCEPT ![p] = r])
  <2>1. [[iu EXCEPT ![p].name = "none", ![p].pc = "plock"] EXCEPT ![p].pp = FALSE] = [iu EXCEPT ![p] = r]
    BY Here
  <2> QED BY <2>1 DEF WdirPuts, PutDir, PreleI, At
<1>2. r0 \in IuRec /\ Local(dir, r0) /\ Knows(itab, dir, r0)
  BY Here
<1>3. /\ s \in Entries /\ s \in Slots /\ s # ROOT /\ s # 0 /\ e \in EntryRec /\ Entry(e) /\ itab \in [Slots -> EntryRec]
      /\ ROOT \in Slots
  <2>1. s \in Slots /\ s # ROOT /\ s # 0
    BY <1>1, <1>2, Values DEF IuRec, Local, Locked, Plocks, MayFail, Frees
  <2> QED BY <2>1, Here, Consts DEF Table, Entries
<1>4. /\ r0.pp /\ r0.name \in Names /\ dir[r0.name] = 0 /\ r0.tgt = 0 /\ e.mode # 0
      /\ r0.op = "link" => r0.err = FALSE
  BY <1>1, <1>2 DEF IuRec, Local, Knows, Goal, Igets, Frees, Plocks
<1>5. i \in FileInos /\ i # 0 /\ e.count > 0
  <2>1. Refs(r0, s) # 0 /\ Refs(r0, s) \in Nat
    BY RefsNone
  <2>2. e.count > 0
    BY <1>3, <1>4 DEF Entry, FreeEntry, EntryRec
  <2>3. i \in FileInos
    BY <1>3, <2>2, Here, FileEntry
  <2> QED BY <2>2, <2>3, Consts DEF FileInos
<1>6. r \in IuRec
  BY <1>1, <1>2, Values, ZenonT(60) DEF IuRec
<1>7. /\ r.pc = "plock" /\ r.op = r0.op /\ r.name = "none" /\ r.ino = r0.ino /\ r.ip = r0.ip /\ r.tgt = r0.tgt
      /\ r.pp = FALSE /\ r.ret = r0.ret /\ r.err = r0.err /\ r.fd = r0.fd /\ r.wfd = r0.wfd
  BY <1>2 DEF IuRec
<1>8. e1 \in EntryRec
      /\ e1.num = e.num /\ e1.count = e.count /\ e1.lock = e.lock /\ e1.mode = e.mode /\ e1.nlink = e.nlink /\ e1.chg = e.chg
  BY <1>3, <1>5 DEF EntryRec
<1> HIDE DEF r, e1
<1>9. Local(dir', r)
  BY <1>1, <1>2, <1>3, <1>4, <1>7, Consts, SMTT(60) DEF Local, Locked, Frees, Goal, Without, Igets, Iallocs, MayFail, Plocks
<1>10. \A t \in Slots : t \notin {s, ROOT} => StillSlot(r0, r, t)
  BY <1>1, <1>2, <1>3, <1>4, <1>7, Consts, SMTT(60) DEF StillSlot, Refs, One, Holds, Pp, Local, Locked, Frees, Goal, Without, Igets, Iallocs, MayFail, Plocks
<1>11. \A t \in Slots : t # s => SameMarks(r0, r, t)
  BY <1>1, <1>2, <1>3, <1>4, <1>7, Consts, SMTT(60) DEF SameMarks, Linked, Made, Reads, Plocks
<1>12. Refs(r, ROOT) = Refs(r0, ROOT) - 1 /\ ~Holds(r, ROOT)
  BY <1>1, <1>2, <1>3, <1>4, <1>7, Consts, SMTT(60) DEF Refs, One, Holds, Pp, Local, Locked, Frees, Goal, Without, Igets, Iallocs, MayFail, Plocks
<1>13. root \in EntryRec /\ OtherSlot(itab[ROOT], root, r0, r, ROOT)
  BY <1>3, <1>4, <1>11, <1>12, RootPut
<1> HIDE DEF root
<1>14. /\ itab' \in [Slots -> EntryRec] /\ itab'[s] = e1 /\ itab'[ROOT] = root
       /\ \A t \in Slots : t \notin {s, ROOT} => itab'[t] = itab[t]
  BY <1>1, <1>3, <1>8, <1>13 DEF e1
<1>15. \A t \in Slots : t # s => OtherSlot(itab[t], itab'[t], iu[p], r, t)
  <2>1. \A t \in Slots : t \notin {s, ROOT} => OtherSlot(itab[t], itab'[t], iu[p], r, t)
    BY <1>10, <1>11, <1>14, OtherSame
  <2> QED BY <1>13, <1>14, <2>1
<1>16. SlotStep(itab[s], itab'[s], iu[p], r, s)
  <2>1. Refs(r, s) = Refs(r0, s) /\ Refs(r0, s) \in Nat
    BY <1>3, <1>4, <1>7, RefsNone DEF Refs
  <2>2. Holds(r, s) => Holds(r0, s)
    BY <1>1, <1>3, <1>7 DEF Holds, Locked, Plocks, Frees
  <2>3. itab'[s] = e
    BY <1>14 DEF e1
  <2> QED BY <1>3, <2>1, <2>2, <2>3 DEF SlotStep, SameEntry, EntryRec
<1>17. Knows(itab', dir', r)
  <2>1. /\ r.ip \in 0 .. NINODE /\ r.tgt \in 0 .. NINODE /\ r.fd \in 0 .. NINODE /\ r.wfd \in 0 .. NINODE
        /\ \A t \in 0 .. NINODE : t # 0 => t \in Slots
    BY <1>6, Values DEF IuRec
  <2>2. \A t \in Slots : Holds(r, t) => t # ROOT /\ Holds(r0, t) /\ itab'[t].lock = itab[t].lock
    BY <1>1, <1>7, <1>8, <1>10, <1>12, <1>14 DEF StillSlot, Holds, Locked, Plocks, Frees
  <2>3. \A t \in Slots : Holds(r, t) => itab'[t].lock
    BY <1>2, <2>2 DEF Knows
  <2>4. \A t \in Slots : itab[t].mode # 0 => itab'[t].mode # 0
    BY <1>8, <1>13, <1>14 DEF OtherSlot, SameCore
  <2>5. r.ip = s /\ r.tgt = 0 /\ (r.fd # 0 => r.fd \in Slots) /\ (r.wfd # 0 => r.wfd \in Slots)
    BY <1>4, <1>7, <2>1
  <2>6. r.pc \notin Frees \cup {"iread", "wdir", "unlink"}
    BY <1>1, <1>7 DEF Frees
  <2>7. r.pc \in {"open1", "ctrunc", "wdir"} \cup Plocks => itab'[r.ip].mode # 0
    BY <1>1, <1>3, <1>4, <2>4, <2>5
  <2>8. (r.fd # 0 => itab'[r.fd].mode # 0) /\ (r.wfd # 0 => itab'[r.wfd].mode # 0)
    BY <1>2, <1>7, <2>4, <2>5 DEF Knows
  <2> QED BY <2>3, <2>5, <2>6, <2>7, <2>8 DEF Knows, Frees
<1>18. PICK w : w = [iu EXCEPT ![p] = r]
  OBVIOUS
<1>19. ~Reading(w, s) /\ ~Reading(iu, s)
  <2>1. ASSUME NEW q \in IProcs, iu[q].pc = "iread", iu[q].ip = s
        PROVE  FALSE
    <3>1. Blank(itab[s], iu[q].ino)
      BY <2>1, Here DEF Knows
    <3> QED BY <1>4, <3>1 DEF Blank
  <2>2. w[p].pc # "iread" /\ \A q \in IProcs : q # p => w[q] = iu[q]
    BY <1>1, <1>7, <1>18, Here
  <2> QED BY <2>1, <2>2 DEF Reading
<1>20. /\ AllMade(w, s) = AllMade(iu, s) - One(Made(r0), s) + One(Made(r), s)
       /\ AllLinked(w, s) = AllLinked(iu, s) - One(Linked(r0), s) + One(Linked(r), s)
       /\ AllMade(iu, s) \in Nat /\ AllLinked(iu, s) \in Nat
  BY <1>6, <1>18, Here, MadeMove, LinkedMove, Zenon
<1>21. Core(itab, dino, dir, iu, s)
  BY <1>3, <1>5, <1>19, Here DEF Sound, LinksAdd
<1>22. Core(itab', dino, dir', w, s)
  <2>1. \A m \in Names : m # r0.name => dir'[m] = dir[m]
    BY <1>1, <1>4, Here
  <2>2. dir'[r0.name] = i /\ dir[r0.name] = 0
    BY <1>1, <1>4, Here
  <2>3. NamesOf(dir', i) = NamesOf(dir, i) - One(dir[r0.name], i) + One(dir'[r0.name], i)
    <3>1. r0.name \in Names
      BY <1>4
    <3>2. PICK n, k : n = r0.name /\ k = i
      OBVIOUS
    <3>4. n \in Names /\ \A m \in Names : m # n => dir'[m] = dir[m]
      BY <2>1, <3>1, <3>2
    <3>3. NamesOf(dir', k) = NamesOf(dir, k) - One(dir[n], k) + One(dir'[n], k)
      BY <3>4, NamesMoved
    <3> QED BY <3>2, <3>3
  <2>4. NamesOf(dir', i) = NamesOf(dir, i) + 1 /\ NamesOf(dir, i) \in Nat
    BY <1>5, <2>2, <2>3, PendingTypes DEF One
  <2>5. One(0, s) = 0 /\ One(s, s) = 1
    BY <1>3 DEF One
  <2>6. Linked(r0) = 0 /\ Linked(r) = s /\ Made(r0) = 0 /\ Made(r) = 0
    BY <1>1, <1>3, <1>4, <1>7 DEF Made, Linked, Plocks
  <2>7. e.nlink = NamesOf(dir', i) + AllMade(w, s) - AllLinked(w, s)
    BY <1>20, <1>21, <2>4, <2>5, <2>6 DEF Core
  <2>8. ~e.chg => dino[i].mode = e.mode /\ dino[i].nlink = e.nlink
    BY <1>21 DEF Core
  <2> QED BY <1>4, <1>8, <1>14, <2>7, <2>8 DEF Core
<1>23. /\ itab[s].num \in {0, i} /\ itab'[s].num \in {0, i} /\ i \in {itab[s].num, itab'[s].num}
       /\ itab[s].num = 0 => \A t \in Slots : itab[t].num # i
       /\ (itab'[s].num = i => Reading(w, s)) => Disk(dino, dir', i)
  BY <1>5, <1>8, <1>14, <1>19
<1>24. dino \in [Inos -> DiskRec] /\ dir' \in [Names -> FileInos \cup {0}]
       /\ \A j \in FileInos : j # i => dino[j] = dino[j] /\ SameNames(dir, dir', j)
  <2>1. \A n \in Names : n # r0.name => dir'[n] = dir[n]
    BY <1>1, <1>4, Here
  <2>2. dir'[r0.name] = i /\ dir[r0.name] = 0 /\ \A j \in FileInos : j # 0
    BY <1>1, <1>4, Here, Consts DEF FileInos
  <2> QED BY <1>1, <1>4, <1>5, <2>1, <2>2, Here DEF SameNames
<1>25. Sound(itab', dino, dir', w)
  <2>1. i \in FileInos /\ iu[p].pp /\ Core(itab', dino, dir', w, s)
    BY <1>4, <1>5, <1>22
  <2> HIDE DEF i, e, s
  <2>2. EntryChange(itab', dino, dir', p, r, w, s, i)
    BY <1>9, <1>15, <1>16, <1>17, <1>23, <1>24, <2>1, Zenon DEF EntryChange
  <2> QED BY <1>3, <1>6, <1>9, <1>14, <1>18, <1>24, <2>1, <2>2, EntryStep, ZenonT(60)
<1>26. Sound(itab', dino, dir', iu')
  <2>1. PreleI(ROOT, [itab[ROOT] EXCEPT !.count = @ - 1], w)
    BY <1>1, <1>18
  <2> QED BY <1>3, <1>25, <2>1, Prele
<1> QED BY <1>1, <1>26, Here DEF InodeInv

LEMMA WdirInv3 ==
    ASSUME InodeInv, NEW p \in IProcs, WdirFails(p)
    PROVE  InodeInv'
<1> DEFINE r0 == iu[p]
           s == r0.ip
           e == itab[s]
           i == e.num
           e1 == [e EXCEPT !.nlink = 0]
           root == Unlocked([itab[ROOT] EXCEPT !.count = @ - 1])
           r == [r0 EXCEPT !.pp = FALSE, !.pc = "iputip"]
<1>1. /\ r0.pc = "wdir" /\ r0.op = "creat" /\ UNCHANGED <<dino, dir, sinode>>
      /\ itab' = [itab EXCEPT ![s] = e1, ![ROOT] = root]
      /\ iu' \in {[iu EXCEPT ![p] = r], WakeI([iu EXCEPT ![p] = r], ROOT)}
  <2>1. [iu EXCEPT ![p].pp = FALSE, ![p].pc = "iputip"] = [iu EXCEPT ![p] = r]
    BY Here
  <2>2. [itab EXCEPT ![s].nlink = 0, ![ROOT] = Unlocked([itab[ROOT] EXCEPT !.count = @ - 1])] = [itab EXCEPT ![s] = e1, ![ROOT] = root]
    <3>1. s # ROOT
      BY Here, Consts DEF WdirFails, At, Local
    <3> QED BY <3>1, Here
  <2> QED BY <2>1, <2>2 DEF WdirFails, At
<1>2. r0 \in IuRec /\ Local(dir, r0) /\ Knows(itab, dir, r0)
  BY Here
<1>3. /\ s \in Entries /\ s \in Slots /\ s # ROOT /\ s # 0 /\ e \in EntryRec /\ Entry(e) /\ itab \in [Slots -> EntryRec]
      /\ ROOT \in Slots
  <2>1. s \in Slots /\ s # ROOT /\ s # 0
    BY <1>1, <1>2, Values DEF IuRec, Local, Locked, Plocks, MayFail, Frees
  <2> QED BY <2>1, Here, Consts DEF Table, Entries
<1>4. /\ r0.pp /\ r0.name \in Names /\ dir[r0.name] = 0 /\ r0.tgt = 0 /\ e.mode # 0
      /\ r0.op = "link" => r0.err = FALSE
  BY <1>1, <1>2 DEF IuRec, Local, Knows, Goal, Igets, Frees, Plocks
<1>5. i \in FileInos /\ i # 0 /\ e.count > 0
  <2>1. Refs(r0, s) # 0 /\ Refs(r0, s) \in Nat
    BY RefsNone
  <2>2. e.count > 0
    BY <1>3, <1>4 DEF Entry, FreeEntry, EntryRec
  <2>3. i \in FileInos
    BY <1>3, <2>2, Here, FileEntry
  <2> QED BY <2>2, <2>3, Consts DEF FileInos
<1>27. e.count = 1 /\ e.nlink = 1 /\ e.chg
  BY <1>1, <1>2 DEF Knows
<1>6. r \in IuRec
  BY <1>1, <1>2, Values DEF IuRec
<1>7. /\ r.pc = "iputip" /\ r.op = r0.op /\ r.name = r0.name /\ r.ino = r0.ino /\ r.ip = r0.ip /\ r.tgt = r0.tgt
      /\ r.pp = FALSE /\ r.ret = r0.ret /\ r.err = r0.err /\ r.fd = r0.fd /\ r.wfd = r0.wfd
  BY <1>2 DEF IuRec
<1>8. e1 \in EntryRec
      /\ e1.num = e.num /\ e1.count = e.count /\ e1.lock = e.lock /\ e1.mode = e.mode /\ e1.nlink = 0 /\ e1.chg = e.chg
  BY <1>3, <1>5 DEF EntryRec
<1> HIDE DEF r, e1
<1>9. Local(dir', r)
  BY <1>1, <1>2, <1>3, <1>4, <1>7, Consts, SMTT(60) DEF Local, Locked, Frees, Goal, Without, Igets, Iallocs, MayFail, Plocks
<1>10. \A t \in Slots : t \notin {s, ROOT} => StillSlot(r0, r, t)
  BY <1>1, <1>2, <1>3, <1>4, <1>7, Consts, SMTT(60) DEF StillSlot, Refs, One, Holds, Pp, Local, Locked, Frees, Goal, Without, Igets, Iallocs, MayFail, Plocks
<1>11. \A t \in Slots : t # s => SameMarks(r0, r, t)
  BY <1>1, <1>2, <1>3, <1>4, <1>7, Consts, SMTT(60) DEF SameMarks, Linked, Made, Reads, Plocks
<1>12. Refs(r, ROOT) = Refs(r0, ROOT) - 1 /\ ~Holds(r, ROOT)
  BY <1>1, <1>2, <1>3, <1>4, <1>7, Consts, SMTT(60) DEF Refs, One, Holds, Pp, Local, Locked, Frees, Goal, Without, Igets, Iallocs, MayFail, Plocks
<1>13. root \in EntryRec /\ OtherSlot(itab[ROOT], root, r0, r, ROOT)
  BY <1>3, <1>4, <1>11, <1>12, RootPut
<1> HIDE DEF root
<1>14. /\ itab' \in [Slots -> EntryRec] /\ itab'[s] = e1 /\ itab'[ROOT] = root
       /\ \A t \in Slots : t \notin {s, ROOT} => itab'[t] = itab[t]
  BY <1>1, <1>3, <1>8, <1>13
<1>15. \A t \in Slots : t # s => OtherSlot(itab[t], itab'[t], iu[p], r, t)
  <2>1. \A t \in Slots : t \notin {s, ROOT} => OtherSlot(itab[t], itab'[t], iu[p], r, t)
    BY <1>10, <1>11, <1>14, OtherSame
  <2> QED BY <1>13, <1>14, <2>1
<1>16. SlotStep(itab[s], itab'[s], iu[p], r, s)
  <2>1. Refs(r, s) = Refs(r0, s) /\ Refs(r0, s) \in Nat
    BY <1>3, <1>4, <1>7, RefsNone DEF Refs
  <2>2. Holds(r0, s)
    BY <1>1 DEF Holds
  <2>3. Entry(e1)
    BY <1>3, <1>4, <1>5, <1>8, <1>27 DEF Entry
  <2> QED BY <1>3, <1>4, <1>8, <1>14, <1>27, <2>1, <2>2, <2>3 DEF SlotStep, EntryRec
<1>17. Knows(itab', dir', r)
  <2>1. /\ r.ip \in 0 .. NINODE /\ r.tgt \in 0 .. NINODE /\ r.fd \in 0 .. NINODE /\ r.wfd \in 0 .. NINODE
        /\ \A t \in 0 .. NINODE : t # 0 => t \in Slots
    BY <1>6, Values DEF IuRec
  <2>2. \A t \in Slots : Holds(r, t) => t # ROOT /\ Holds(r0, t) /\ itab'[t].lock = itab[t].lock
    BY <1>1, <1>7, <1>8, <1>10, <1>12, <1>14 DEF StillSlot, Holds, Locked, Plocks, Frees
  <2>3. \A t \in Slots : Holds(r, t) => itab'[t].lock
    BY <1>2, <2>2 DEF Knows
  <2>4. \A t \in Slots : itab[t].mode # 0 => itab'[t].mode # 0
    BY <1>8, <1>13, <1>14 DEF OtherSlot, SameCore
  <2>5. r.ip = s /\ r.tgt = 0 /\ (r.fd # 0 => r.fd \in Slots) /\ (r.wfd # 0 => r.wfd \in Slots)
    BY <1>4, <1>7, <2>1
  <2>6. r.pc \notin Frees \cup {"iread", "wdir", "unlink"}
    BY <1>1, <1>7 DEF Frees
  <2>7. r.pc \in {"open1", "ctrunc", "wdir"} \cup Plocks => itab'[r.ip].mode # 0
    BY <1>1, <1>3, <1>4, <2>4, <2>5
  <2>8. (r.fd # 0 => itab'[r.fd].mode # 0) /\ (r.wfd # 0 => itab'[r.wfd].mode # 0)
    BY <1>2, <1>7, <2>4, <2>5 DEF Knows
  <2> QED BY <2>3, <2>5, <2>6, <2>7, <2>8 DEF Knows, Frees
<1>18. PICK w : w = [iu EXCEPT ![p] = r]
  OBVIOUS
<1>19. ~Reading(w, s) /\ ~Reading(iu, s)
  <2>1. ASSUME NEW q \in IProcs, iu[q].pc = "iread", iu[q].ip = s
        PROVE  FALSE
    <3>1. Blank(itab[s], iu[q].ino)
      BY <2>1, Here DEF Knows
    <3> QED BY <1>4, <3>1 DEF Blank
  <2>2. w[p].pc # "iread" /\ \A q \in IProcs : q # p => w[q] = iu[q]
    BY <1>1, <1>7, <1>18, Here
  <2> QED BY <2>1, <2>2 DEF Reading
<1>20. /\ AllMade(w, s) = AllMade(iu, s) - One(Made(r0), s) + One(Made(r), s)
       /\ AllLinked(w, s) = AllLinked(iu, s) - One(Linked(r0), s) + One(Linked(r), s)
       /\ AllMade(iu, s) \in Nat /\ AllLinked(iu, s) \in Nat
  BY <1>6, <1>18, Here, MadeMove, LinkedMove, Zenon
<1>21. Core(itab, dino, dir, iu, s)
  BY <1>3, <1>5, <1>19, Here DEF Sound, LinksAdd
<1>22. Core(itab', dino, dir', w, s)
  <2>1. Linked(r0) = 0 /\ Linked(r) = 0 /\ Made(r0) = s /\ Made(r) = 0
    BY <1>1, <1>3, <1>4, <1>7 DEF Made, Linked, Plocks
  <2>2. One(0, s) = 0 /\ One(s, s) = 1
    BY <1>3 DEF One
  <2>3. AllLinked(iu, s) = 0 /\ AllMade(iu, s) = 1
    <3>1. Refs(r0, s) \in Nat /\ Refs(r0, s) # 0
      BY RefsNone
    <3>2. itab[s].count <= 1 /\ Refs(iu[p], s) >= 1
      BY <1>27, <3>1
    <3>3. \A q \in IProcs : q # p => iu[q].ip # s
      BY <1>3, <3>2, Here, Alone, RefsNone
    <3>4. iu \in [IProcs -> IuRec]
      BY Here
    <3>5. AllLinked(iu, s) = One(Linked(iu[p]), s) /\ AllMade(iu, s) = One(Made(iu[p]), s)
      BY <1>3, <3>3, <3>4, PendingAlone
    <3> QED BY <2>1, <2>2, <3>5
  <2>4. NamesOf(dir, i) = 0
    <3>1. NamesOf(dir, i) \in Nat /\ e.nlink = NamesOf(dir, i) + 1 - 0
      BY <1>21, <2>3, PendingTypes DEF Core
    <3> QED BY <1>27, <3>1
  <2>5. NamesOf(dir, i) = 0 /\ AllMade(w, s) = 0 /\ AllLinked(w, s) = 0
    BY <1>20, <2>1, <2>2, <2>3, <2>4
  <2>6. itab'[s].num = i /\ itab'[s].nlink = 0 /\ itab'[s].mode # 0 /\ itab'[s].chg /\ dir' = dir
    BY <1>1, <1>4, <1>8, <1>14, <1>27
  <2> QED BY <2>5, <2>6 DEF Core
<1>23. /\ itab[s].num \in {0, i} /\ itab'[s].num \in {0, i} /\ i \in {itab[s].num, itab'[s].num}
       /\ itab[s].num = 0 => \A t \in Slots : itab[t].num # i
       /\ (itab'[s].num = i => Reading(w, s)) => Disk(dino, dir', i)
  BY <1>5, <1>8, <1>14, <1>19
<1>24. dino \in [Inos -> DiskRec] /\ dir' \in [Names -> FileInos \cup {0}]
       /\ \A j \in FileInos : j # i => dino[j] = dino[j] /\ SameNames(dir, dir', j)
  BY <1>1, Here DEF SameNames
<1>25. Sound(itab', dino, dir', w)
  <2>1. i \in FileInos /\ iu[p].pp /\ Core(itab', dino, dir', w, s)
    BY <1>4, <1>5, <1>22
  <2> HIDE DEF i, e, s
  <2>2. EntryChange(itab', dino, dir', p, r, w, s, i)
    BY <1>9, <1>15, <1>16, <1>17, <1>23, <1>24, <2>1, Zenon DEF EntryChange
  <2> QED BY <1>3, <1>6, <1>9, <1>14, <1>18, <1>24, <2>1, <2>2, EntryStep, ZenonT(60)
<1>26. Sound(itab', dino, dir', iu')
  <2>1. CASE iu' = [iu EXCEPT ![p] = r]
    BY <1>18, <1>25, <2>1
  <2>2. CASE iu' = WakeI(w, ROOT)
    <3>1. w \in [IProcs -> IuRec]
      BY <1>6, <1>18, Here
    <3> QED BY <1>25, <2>2, <3>1, WakeIQuiet, Woken, ZenonT(60)
  <2> QED BY <1>1, <1>18, <2>1, <2>2
<1> QED BY <1>1, <1>26, Here DEF InodeInv

-----------------------------------------------------------------------------
(* The actions with several cases, and every step.                         *)

LEMMA NamedInv5 ==
    ASSUME InodeInv, NEW p \in IProcs, At(p, "named"), iu[p].ip # 0, iu[p].tgt = 0, ~Gone(iu[p].ip), iu[p].op = "open",
           UNCHANGED <<itab, dino, dir, sinode>>, iu' = [iu EXCEPT ![p].pc = "open1"]
    PROVE  InodeInv'
<1> DEFINE r0 == iu[p]
           r == [r0 EXCEPT !.pc = "open1"]
<1>1. /\ r0.pc = "named" /\ r0.ip # 0 /\ r0.tgt = 0 /\ r0.op = "open" /\ itab[r0.ip].mode # 0
      /\ iu' = [iu EXCEPT ![p] = r]
      /\ UNCHANGED <<itab, dino, dir, sinode>>
  BY Here DEF At, Gone
<1>2. r0 \in IuRec /\ Local(dir, r0) /\ Knows(itab, dir, r0)
  BY Here
<1>3. r \in IuRec
  <2>1. "open1" \in Pcs
    BY <1>1, <1>2, Values DEF IuRec
  <2> QED BY <1>2, <2>1 DEF IuRec
<1>4. /\ r.pc = "open1" /\ r.op = r0.op /\ r.name = r0.name /\ r.ino = r0.ino /\ r.ip = r0.ip /\ r.tgt = r0.tgt
      /\ r.pp = r0.pp /\ r.ret = r0.ret /\ r.err = r0.err /\ r.fd = r0.fd /\ r.wfd = r0.wfd
  BY <1>2 DEF IuRec
<1> HIDE DEF r
<1>5. Local(dir, r)
  BY <1>1, <1>2, <1>4, Consts, SMTT(60) DEF Local, Goal, Igets, Frees, Locked, Plocks, Without, MayFail, Iallocs
<1>6. Knows(itab, dir, r)
  BY <1>1, <1>2, <1>4, Consts, SMTT(60) DEF Knows, Holds, Igets, Frees, Locked, Plocks, Local, Goal, Without, MayFail
<1>7. SameLinks(r0, r)
  BY <1>1, <1>2, <1>4 DEF SameLinks, Linked, Made, Plocks, Local
<1>8. \A t \in Slots : StillSlot(r0, r, t)
  BY <1>1, <1>2, <1>4, Consts, SMTT(60) DEF StillSlot, Refs, One, Holds, Locked, Frees, Pp, Local, Goal, Without, Igets, Iallocs
<1>9. Sound(itab, dino, dir, [iu EXCEPT ![p] = r])
  BY <1>3, <1>5, <1>6, <1>7, <1>8, Here, Unmoved
<1> QED BY <1>1, <1>9, Here DEF InodeInv

(* Entry s is the first of those that are not in use.                      *)
LEMMA MinSlot ==
    ASSUME NEW S \in SUBSET Slots, S # {}
    PROVE  Min(S) \in S
<1>1. S \in SUBSET Nat
  BY DEF Slots
<1>2. PICK x \in S : \A y \in S : ~(<<y, x>> \in OpToRel(<, Nat))
  BY <1>1, NatLessThanWellFounded, WFMin, Zenon
<1>3. PICK R : R = OpToRel(<, Nat)
  BY Zenon
<1>4. \A a, b \in Nat : a < b => <<a, b>> \in R
  BY <1>3, Zenon DEF OpToRel
<1>5. \A y \in S : x <= y
  <2>1. \A y \in S : ~(<<y, x>> \in R)
    BY <1>2, <1>3, Zenon
  <2> HIDE <1>2, <1>3
  <2>2. \A y \in S : ~(y < x)
    BY <1>1, <1>4, <2>1
  <2> QED BY <1>1, <2>2
<1> QED BY <1>5 DEF Min

(* iput, wherever it is called with the entry locked.                      *)
LEMMA IputInv ==
    ASSUME InodeInv, NEW p \in IProcs, NEW l, PutTo(iu[p], l), iu[p].ip # 0,
           UNCHANGED <<dino, dir, sinode>>, IputTo(p, l)
    PROVE  InodeInv'
<1> DEFINE s == iu[p].ip
           e == itab[s]
<1>1. s \in Slots /\ e \in EntryRec /\ Holds(iu[p], s) /\ e.lock /\ Knows(itab, dir, iu[p])
  <2>1. s \in Slots
    BY Here, Values DEF IuRec
  <2>2. Holds(iu[p], s)
    <3>1. iu[p].pc \in {"iputip", "named", "iagot"}
      BY DEF PutTo
    <3> QED BY <3>1 DEF Holds, Locked
  <2> QED BY <2>1, <2>2, Here DEF Knows
<1>2. CASE e.count > 1 /\ PreleI(s, [e EXCEPT !.count = @ - 1], [iu EXCEPT ![p].ip = 0, ![p].pc = l])
  BY <1>2, IputInv1
<1>3. CASE /\ e.count = 1 /\ e.nlink > 0 /\ ~e.chg
           /\ PreleI(s, [FreeEntry EXCEPT !.want = e.want], [iu EXCEPT ![p].ip = 0, ![p].pc = l])
  BY <1>3, IputInv2
<1>4. CASE /\ e.count = 1 /\ (e.nlink <= 0 \/ e.chg)
           /\ itab' = [itab EXCEPT ![s].lock = TRUE]
           /\ iu' = [iu EXCEPT ![p].ret = l, ![p].pc = IF e.nlink <= 0 THEN "itrunc" ELSE "iupdat"]
  <2>1. itab' = itab
    <3>1. [e EXCEPT !.lock = TRUE] = e
      BY <1>1 DEF EntryRec
    <3> QED BY <1>1, <1>4, <3>1, Here
  <2>2. PICK g \in {"itrunc", "iupdat"} : g = IF e.nlink <= 0 THEN "itrunc" ELSE "iupdat"
    OBVIOUS
  <2>3. (g = "itrunc" => e.nlink <= 0) /\ iu' = [iu EXCEPT ![p].ret = l, ![p].pc = g]
    BY <1>4, <2>2
  <2> QED BY <1>1, <1>4, <2>1, <2>3, IputInv3
<1> QED BY <1>2, <1>3, <1>4 DEF IputTo

-----------------------------------------------------------------------------
(* Each action keeps the invariant.                                        *)
LEMMA PlockInv ==
    ASSUME InodeInv, NEW p \in IProcs, PlockI(p)
    PROVE  InodeInv'
<1>1. iu[p].err \in BOOLEAN
  BY Here DEF IuRec
<1> QED BY <1>1, PlockInv1, PlockInv2, PlockInv3

LEMMA IgetInv ==
    ASSUME InodeInv, NEW p \in IProcs, Iget(p)
    PROVE  InodeInv'
<1> DEFINE unused == {s \in Slots : itab[s].count = 0}
<1>1. (At(p, "iget") \/ At(p, "iget_woken")) /\ UNCHANGED <<dino, dir, sinode>>
  BY DEF Iget
<1>2. ASSUME NEW s \in Matches(p), itab[s].lock, IgetSleepWakes(p, s)
      PROVE  InodeInv'
  BY <1>1, <1>2, IgetInv2 DEF Matches
<1>3. ASSUME NEW s \in Matches(p), ~itab[s].lock,
             itab' = [itab EXCEPT ![s].count = @ + 1, ![s].lock = TRUE], iu' = IgetReturns(p, s)
      PROVE  InodeInv'
  BY <1>1, <1>3, IgetInv3, ZenonT(60) DEF Matches
<1>4. ASSUME NEW s, s = Min(unused), Matches(p) = {}, unused # {},
             itab' = [itab EXCEPT ![s].num = iu[p].ino, ![s].lock = TRUE,
                        ![s].want = FALSE, ![s].chg = FALSE, ![s].count = @ + 1],
             iu' = [iu EXCEPT ![p].ip = s, ![p].pc = "iread"]
      PROVE  InodeInv'
  <2>1. s \in Slots /\ itab[s].count = 0
    <3>1. unused \in SUBSET Slots
      OBVIOUS
    <3>2. s \in unused
      BY <1>4, <3>1, MinSlot
    <3> QED BY <3>2
  <2> QED BY <1>1, <1>4, <2>1, IgetInv4, ZenonT(60) DEF IgetNew
<1>5. ASSUME Matches(p) = {}, iu' = IgetReturns(p, 0), itab' = itab
      PROVE  InodeInv'
  BY <1>1, <1>5, IgetInv1
<1> QED BY <1>2, <1>3, <1>4, <1>5, Zenon DEF Iget

LEMMA IgetReadInv ==
    ASSUME InodeInv, NEW p \in IProcs, IgetRead(p)
    PROVE  InodeInv'
<1>1. CASE itab' = [itab EXCEPT ![iu[p].ip].mode = dino[itab[iu[p].ip].num].mode,
                                ![iu[p].ip].nlink = dino[itab[iu[p].ip].num].nlink]
           /\ iu' = IgetReturns(p, iu[p].ip)
  BY <1>1, IgetReadInv1, ZenonT(60) DEF IgetRead, IgetHas
<1>2. CASE PreleI(iu[p].ip, [FreeEntry EXCEPT !.want = itab[iu[p].ip].want], IgetReturns(p, 0))
  BY <1>2, IgetReadInv2, ZenonT(60) DEF IgetRead, At
<1> QED BY <1>1, <1>2 DEF IgetRead

LEMMA IputIpInv ==
    ASSUME InodeInv, NEW p \in IProcs, IputIp(p)
    PROVE  InodeInv'
<1>1. iu[p].pc = "iputip" /\ UNCHANGED <<dino, dir, sinode>> /\ IputTo(p, IF iu[p].pp THEN "putpp" ELSE "done")
  BY DEF IputIp, At
<1>2. iu[p].ip # 0 /\ iu[p].tgt = 0 /\ iu[p].pp \in BOOLEAN
  BY <1>1, Here DEF IuRec, Local, Locked, MayFail, Goal, Igets, Frees
<1>3. CASE iu[p].pp
  <2>1. PutTo(iu[p], "putpp") /\ IputTo(p, "putpp")
    BY <1>1, <1>3 DEF PutTo
  <2> QED BY <1>1, <1>2, <2>1, IputInv
<1>4. CASE ~iu[p].pp
  <2>1. PutTo(iu[p], "done") /\ IputTo(p, "done")
    BY <1>1, <1>2, <1>4 DEF PutTo
  <2> QED BY <1>1, <1>2, <2>1, IputInv
<1> QED BY <1>3, <1>4

LEMMA NamedInv ==
    ASSUME InodeInv, NEW p \in IProcs, Named(p)
    PROVE  InodeInv'
<1> DEFINE s == iu[p].ip
<1>1. At(p, "named") /\ iu[p].pc = "named" /\ UNCHANGED <<dino, dir, sinode>>
  BY DEF Named, At
<1>2. iu[p].tgt \in Nat /\ ~iu[p].pp /\ iu[p].op \in {"open", "creat", "link"}
  BY <1>1, Here DEF IuRec, Local, Goal, Igets, Frees, Iallocs
<1>3. CASE s = 0 /\ itab' = itab
           /\ iu' = IF iu[p].tgt = 0 THEN [iu EXCEPT ![p].pc = "done"]
                    ELSE [iu EXCEPT ![p].ip = iu[p].tgt, ![p].tgt = 0, ![p].pc = "plock"]
  BY <1>1, <1>3, NamedInv1, NamedInv2
<1>4. CASE s # 0 /\ iu[p].tgt # 0 /\ IputTo(p, "linkfail")
  <2>1. PutTo(iu[p], "linkfail")
    BY <1>1, <1>4 DEF PutTo
  <2> QED BY <1>1, <1>4, <2>1, IputInv
<1>5. CASE s # 0 /\ iu[p].tgt = 0 /\ IputTo(p, "done")
  <2>1. PutTo(iu[p], "done")
    BY <1>1, <1>2, <1>5 DEF PutTo
  <2> QED BY <1>1, <1>5, <2>1, IputInv
<1>6. CASE s # 0 /\ iu[p].tgt = 0 /\ ~Gone(s) /\ iu[p].op = "link"
           /\ \E m \in Names :
                  PreleI(s, itab[s], [iu EXCEPT ![p].tgt = s, ![p].ip = 0, ![p].name = m,
                                        ![p].ino = ROOT, ![p].ret = "dirread", ![p].pc = "iget"])
  BY <1>1, <1>6, NamedInv3, ZenonT(60)
<1>7. CASE s # 0 /\ iu[p].tgt = 0 /\ ~Gone(s) /\ iu[p].op = "creat"
           /\ iu' = [iu EXCEPT ![p].pc = "ctrunc"] /\ itab' = [itab EXCEPT ![s].chg = TRUE]
  BY <1>1, <1>7, NamedInv4 DEF NamedCreat
<1>8. CASE s # 0 /\ iu[p].tgt = 0 /\ ~Gone(s) /\ iu[p].op = "open"
           /\ iu' = [iu EXCEPT ![p].pc = "open1"] /\ itab' = itab
  BY <1>1, <1>8, NamedInv5
<1> QED BY <1>2, <1>3, <1>4, <1>5, <1>6, <1>7, <1>8, ZenonT(60) DEF Named

LEMMA OpenInv ==
    ASSUME InodeInv, NEW p \in IProcs, Open1(p)
    PROVE  InodeInv'
BY OpenInv1, OpenInv2, ZenonT(60) DEF Open1

LEMMA CloseInv ==
    ASSUME InodeInv, NEW p \in IProcs, CloseI(p)
    PROVE  InodeInv'
BY CloseInv1, CloseInv2, ZenonT(60) DEF CloseI

LEMMA UnlinkInv ==
    ASSUME InodeInv, NEW p \in IProcs, Unlink(p)
    PROVE  InodeInv'
<1>1. CASE iu[p].ip = 0
  BY <1>1, UnlinkInv1 DEF Unlink
<1> QED BY <1>1, UnlinkInv2

LEMMA WdirInv ==
    ASSUME InodeInv, NEW p \in IProcs, Wdir(p)
    PROVE  InodeInv'
<1>1. At(p, "wdir") /\ iu[p].pc = "wdir" /\ UNCHANGED <<dino, sinode>>
  BY DEF Wdir, At
<1>2. iu[p].op \in {"creat", "link"}
  BY <1>1, Here DEF Local
<1>3. CASE WdirPuts(p)
  BY <1>2, <1>3, WdirInv2, WdirInv4
<1>4. CASE dir' = dir /\ iu[p].op = "link" /\ PutDir(p, [iu EXCEPT ![p].err = TRUE, ![p].pc = "plock"])
  BY <1>1, <1>4, WdirInv1
<1>5. CASE WdirFails(p)
  BY <1>5, WdirInv3
<1>6. ASSUME dir' = dir, iu[p].op = "creat"
      PROVE  WdirFails(p) \/ WdirPuts(p)
  BY <1>1, <1>6 DEF Wdir, WdirFails, WdirPuts
<1> QED BY <1>1, <1>2, <1>3, <1>4, <1>5, <1>6 DEF Wdir, WdirPuts

LEMMA IallocGotInv ==
    ASSUME InodeInv, NEW p \in IProcs, IallocGot(p)
    PROVE  InodeInv'
<1> DEFINE s == iu[p].ip
<1>1. At(p, "iagot") /\ iu[p].pc = "iagot" /\ UNCHANGED <<dino, dir, sinode>>
  BY DEF IallocGot, At
<1>2. CASE s = 0
  BY <1>1, <1>2, IallocGotInv1 DEF IallocGot
<1>3. CASE s # 0 /\ itab[s].mode = 0 /\ iu[p].op = "pipe"
  <2>1. CASE PipeMade(p)
    BY <2>1, PipeGotInv
  <2>2. CASE IputTo(p, "done")
    <3>1. PutTo(iu[p], "done")
      BY <1>1, <1>3, Here DEF PutTo, Local, Goal, Igets, Frees, IuRec
    <3> QED BY <1>1, <1>3, <2>2, <3>1, IputInv
  <2> QED BY <1>1, <1>3, <2>1, <2>2 DEF IallocGot, PipeGot, PipeMade
<1>4. CASE s # 0 /\ itab[s].mode = 0 /\ iu[p].op = "creat"
  BY <1>4, IallocGotInv2
<1>5. CASE s # 0 /\ itab[s].mode # 0
  <2>1. PutTo(iu[p], "ialoop") /\ IputTo(p, "ialoop")
    BY <1>1, <1>5 DEF PutTo, IallocGot
  <2> QED BY <1>1, <1>5, <2>1, IputInv
<1> QED BY <1>2, <1>3, <1>4, <1>5 DEF IallocGot

LEMMA IallocScanInv ==
    ASSUME InodeInv, NEW p \in IProcs, IallocScan(p)
    PROVE  InodeInv'
<1>1. CASE iu' = [iu EXCEPT ![p].adr = iu[p].adr + 1]
  BY <1>1, IallocScanInv1
<1>2. PICK g \in {"ialoop", "putpp"} : g = IF sinode' # <<>> THEN "ialoop" ELSE "putpp"
  OBVIOUS
<1>3. CASE iu' = WakeS([iu EXCEPT ![p].adr = 0, ![p].pc = g])
  BY <1>3, IallocScanInv2
<1> QED BY <1>1, <1>2, <1>3 DEF IallocScan

LEMMA SyncNextInv ==
    ASSUME InodeInv, NEW p \in IProcs, SyncNext(p)
    PROVE  InodeInv'
<1> DEFINE s == iu[p].adr + 1
<1>1. At(p, "sync") /\ UNCHANGED <<dino, dir, sinode>>
  BY DEF SyncNext
<1>2. CASE s \in Slots /\ (itab[s].lock \/ itab[s].count = 0 \/ ~itab[s].chg)
  BY <1>1, <1>2, SyncNextInv1 DEF SyncNext
<1>3. CASE s \in Slots /\ ~(itab[s].lock \/ itab[s].count = 0 \/ ~itab[s].chg)
  BY <1>3, SyncNextInv2
<1>4. CASE s \notin Slots
  BY <1>1, <1>4, SyncNextInv3 DEF SyncNext
<1> QED BY <1>2, <1>3, <1>4

LEMMA SyncWriteInv ==
    ASSUME InodeInv, NEW p \in IProcs, SyncWrite(p)
    PROVE  InodeInv'
<1>1. itab[iu[p].ip] \in EntryRec
  BY Here, Values DEF SyncWrite, At, IuRec, Local, Locked, MayFail
<1>2. itab[iu[p].ip].count > 1 \/ itab[iu[p].ip].count = 1
  BY <1>1 DEF SyncWrite, EntryRec
<1>3. itab[iu[p].ip].nlink > 0 \/ itab[iu[p].ip].nlink <= 0
  BY <1>1 DEF EntryRec
<1> QED BY <1>2, <1>3, SyncWriteInv1, SyncWriteInv2, SyncWriteInv3

LEMMA InodeStepInv ==
    ASSUME InodeInv, NEW p \in IProcs, InodeStep(p)
    PROVE  InodeInv'
<1>1. CASE \E o \in ICalls, n \in Names : ICall(p, o, n)
  BY <1>1, ICallInv
<1>2. CASE PlockI(p) \/ Iget(p) \/ IgetRead(p) \/ IputIp(p) \/ IputFree(p) \/ IputWrite(p) \/ Done(p)
  BY <1>2, PlockInv, IgetInv, IgetReadInv, IputIpInv, IputFreeInv, IputWriteInv, DoneInv1, DoneInv2
<1>3. CASE \/ NameiFound(p) \/ NameiFails(p) \/ NameiDelete(p) \/ NameiCreate(p)
           \/ Named(p) \/ LinkFail(p)
  BY <1>3, NameiFoundInv, NameiFailsInv1, NameiFailsInv2, NameiDeleteInv, NameiCreateInv1, NameiCreateInv2,
     NamedInv, LinkFailInv
<1>4. CASE Open1(p) \/ CloseI(p) \/ Unlink(p) \/ Wdir(p)
  BY <1>4, OpenInv, CloseInv, UnlinkInv, WdirInv
<1>5. CASE CallPipe(p) \/ Ialloc(p) \/ IallocLoop(p) \/ IallocGot(p) \/ IallocScan(p)
  BY <1>5, CallPipeInv, IallocInv1, IallocInv2, IallocLoopInv1, IallocLoopInv2, IallocGotInv, IallocScanInv
<1>6. CASE SyncI(p) \/ SyncNext(p) \/ SyncWrite(p)
  BY <1>6, SyncIInv, SyncNextInv, SyncWriteInv
<1> QED BY <1>1, <1>2, <1>3, <1>4, <1>5, <1>6 DEF InodeStep

-----------------------------------------------------------------------------
(* The invariant holds.                                                    *)
LEMMA InodeInvNext ==
    ASSUME InodeInv, [InodeNext]_inodeVars
    PROVE  InodeInv'
<1>1. CASE InodeNext
  BY <1>1, InodeStepInv DEF InodeNext
<1>2. CASE UNCHANGED inodeVars
  <2>1. itab' = itab /\ dino' = dino /\ dir' = dir /\ sinode' = sinode /\ iu' = iu
    BY <1>2 DEF inodeVars
  <2> QED BY <2>1 DEF InodeInv
<1> QED BY <1>1, <1>2

LEMMA NoneCounts ==
    ASSUME NEW S, IsFiniteSet(S), NEW h, NEW y, \A x \in S : h[x] # y
    PROVE  Count(S, h, y) = 0
BY CountIsNat

(* In the beginning there is the root and nobody uses anything.            *)
LEMMA InodeInitInv ==
    ASSUME InodeInit
    PROVE  InodeInv
<1> DEFINE root == [FreeEntry EXCEPT !.num = ROOT, !.count = 1, !.mode = 1, !.nlink = 1]
<1>1. /\ \A s \in Slots : itab[s] = IF s = ROOT THEN root ELSE FreeEntry
      /\ \A i \in Inos : dino[i] = [mode |-> IF i = ROOT THEN 1 ELSE 0, nlink |-> IF i = ROOT THEN 1 ELSE 0]
      /\ \A n \in Names : dir[n] = 0
      /\ \A p \in IProcs : iu[p] = Idle
      /\ sinode = <<>>
  BY DEF InodeInit
<1>2. FreeEntry \in EntryRec /\ root \in EntryRec
  <2>1. 0 \in 0 .. NInos /\ ROOT \in 0 .. NInos /\ 0 \in Nat /\ 1 \in Nat /\ 0 \in Int /\ 1 \in Int
    BY Consts
  <2>2. FreeEntry \in EntryRec
    BY <2>1 DEF FreeEntry, EntryRec
  <2>3. root \in EntryRec
    BY <2>1, <2>2 DEF EntryRec
  <2> QED BY <2>2, <2>3
<1>3. /\ root.num = ROOT /\ root.count = 1 /\ root.mode = 1 /\ root.nlink = 1 /\ ~root.chg
      /\ FreeEntry.num = 0 /\ FreeEntry.count = 0
  BY DEF FreeEntry
<1>4. Idle \in IuRec
  <2>1. "user" \in Pcs /\ 0 \in 0 .. NINODE /\ 0 \in 0 .. NInos /\ 0 \in Nat
    BY Values
  <2> QED BY <2>1 DEF Idle, IuRec
<1> HIDE DEF root
<1>5. Types(itab, dino, dir, iu)
  <2>1. itab \in [Slots -> EntryRec]
    BY <1>2 DEF InodeInit, root
  <2>2. dino \in [Inos -> DiskRec]
    BY DEF InodeInit, DiskRec
  <2>3. dir \in [Names -> FileInos \cup {0}]
    BY DEF InodeInit
  <2>4. iu \in [IProcs -> IuRec]
    BY <1>4 DEF InodeInit
  <2> QED BY <2>1, <2>2, <2>3, <2>4 DEF Types
<1>6. /\ Idle.pc = "user" /\ Idle.op = "none" /\ Idle.ip = 0 /\ Idle.tgt = 0 /\ Idle.fd = 0 /\ Idle.wfd = 0
      /\ ~Idle.pp /\ ~Idle.err
  BY DEF Idle
<1> HIDE DEF Idle
<1>7. ASSUME NEW p \in IProcs
      PROVE  Local(dir, iu[p]) /\ Knows(itab, dir, iu[p])
  <2>1. iu[p] = Idle
    BY <1>1
  <2>2. Local(dir, iu[p])
    BY <1>6, <2>1, Consts, SMTT(60) DEF Local, Goal, Igets, Frees, Locked, Plocks, Without, MayFail, Iallocs
  <2>3. Knows(itab, dir, iu[p])
    BY <1>6, <2>1, Consts, SMTT(60) DEF Knows, Holds, Frees, Locked, Plocks
  <2> QED BY <2>2, <2>3
<1>8. Exclusive(iu)
  BY <1>1, <1>6, Consts DEF Exclusive, Holds
<1>9. Table(itab)
  BY <1>1, <1>3, Consts DEF Table, Entry, RootEntry
<1>10. RefsAdd(itab, iu)
  <2> SUFFICES ASSUME NEW s \in Slots
               PROVE  itab[s].count = AllRefs(iu, s)
    BY DEF RefsAdd
  <2>1. s # 0 /\ IsFiniteSet(IProcs)
    BY Consts
  <2>2. Count(IProcs, [p \in IProcs |-> iu[p].ip], s) = 0
    <3>1. \A q \in IProcs : [p \in IProcs |-> iu[p].ip][q] # s
      BY <1>1, <1>6, <2>1
    <3> QED BY <2>1, <3>1, NoneCounts
  <2>3. Count(IProcs, [p \in IProcs |-> iu[p].tgt], s) = 0
    <3>1. \A q \in IProcs : [p \in IProcs |-> iu[p].tgt][q] # s
      BY <1>1, <1>6, <2>1
    <3> QED BY <2>1, <3>1, NoneCounts
  <2>4. Count(IProcs, [p \in IProcs |-> iu[p].fd], s) = 0
    <3>1. \A q \in IProcs : [p \in IProcs |-> iu[p].fd][q] # s
      BY <1>1, <1>6, <2>1
    <3> QED BY <2>1, <3>1, NoneCounts
  <2>5. Count(IProcs, [p \in IProcs |-> iu[p].wfd], s) = 0
    <3>1. \A q \in IProcs : [p \in IProcs |-> iu[p].wfd][q] # s
      BY <1>1, <1>6, <2>1
    <3> QED BY <2>1, <3>1, NoneCounts
  <2>6. Count(IProcs, [p \in IProcs |-> Pp(iu[p])], 1) = 0
    <3>1. \A q \in IProcs : [p \in IProcs |-> Pp(iu[p])][q] # 1
      BY <1>1, <1>6 DEF Pp
    <3> QED BY <2>1, <3>1, NoneCounts
  <2> QED BY <1>1, <1>3, <2>2, <2>3, <2>4, <2>5, <2>6 DEF AllRefs
<1>11. LinksAdd(itab, dino, dir, iu)
  <2>1. \A s \in Entries : itab[s].count = 0
    BY <1>1, <1>3 DEF Entries
  <2>2. ASSUME NEW i \in FileInos
        PROVE  Disk(dino, dir, i)
    <3>1. i # 0 /\ i # ROOT /\ i \in Inos
      BY Consts DEF FileInos
    <3>2. NamesOf(dir, i) = 0
      <4>1. \A n \in Names : dir[n] # i
        BY <1>1, <3>1
      <4> QED BY <4>1, Consts, NoneCounts DEF NamesOf
    <3>3. dino[i].nlink = 0
      <4>1. dino[i] = [mode |-> IF i = ROOT THEN 1 ELSE 0, nlink |-> IF i = ROOT THEN 1 ELSE 0]
        BY <1>1, <3>1
      <4> QED BY <3>1, <4>1
    <3>4. \A n \in Names : dir[n] # i
      BY <1>1, <3>1
    <3> QED BY <3>2, <3>3, <3>4 DEF Disk
  <2> QED BY <2>1, <2>2 DEF LinksAdd
<1>12. dino[ROOT].mode = 1
  <2>1. ROOT \in Inos
    BY Consts
  <2> QED BY <2>1 DEF InodeInit
<1>13. sinode \in Seq(FileInos)
  BY <1>1
<1> QED BY <1>5, <1>7, <1>8, <1>9, <1>10, <1>11, <1>12, <1>13 DEF InodeInv, Sound

(* The inductive invariant holds in every reachable state.                 *)
THEOREM InodesSound == InodeSpec => []InodeInv
BY InodeInitInv, InodeInvNext, PTL DEF InodeSpec

-----------------------------------------------------------------------------
(* What the invariant says.                                                *)
LEMMA UniqueEntry ==
    ASSUME InodeInv, NEW s \in Slots, NEW t \in Slots, itab[s].num # 0, itab[s].num = itab[t].num
    PROVE  s = t
BY DEF InodeInv, Sound, Table

LEMMA InUse ==
    ASSUME InodeInv, NEW s \in Slots, itab[s].num # 0
    PROVE  itab[s].count > 0
<1>1. itab[s] \in EntryRec /\ Entry(itab[s])
  BY DEF InodeInv, Sound, Types, Table
<1>2. FreeEntry.num = 0
  BY DEF FreeEntry
<1> QED BY <1>1, <1>2 DEF Entry, EntryRec

(* The inode that counts: the entry that has been read, or the disk.       *)
LEMMA EffectiveIs ==
    ASSUME InodeInv, NEW i \in FileInos
    PROVE  \/ \E s \in Entries : /\ itab[s].num = i /\ itab[s].count > 0
                                 /\ Core(itab, dino, dir, iu, s) /\ ~Reading(iu, s)
                                 /\ Effective(i) = [mode |-> itab[s].mode, nlink |-> itab[s].nlink]
           \/ Effective(i) = dino[i] /\ Disk(dino, dir, i)
<1>1. i # 0 /\ i # ROOT /\ i \in Inos
  BY Consts DEF FileInos
<1>2. LinksAdd(itab, dino, dir, iu)
  BY DEF InodeInv, Sound
<1>3. CASE \E s \in Slots : itab[s].num = i /\ itab[s].count > 0
  <2>1. PICK s \in Slots : s = CHOOSE t \in Slots : itab[t].num = i /\ itab[t].count > 0
    BY <1>3
  <2>2. itab[s].num = i /\ itab[s].count > 0
    BY <1>3, <2>1
  <2>3. Effective(i) = IF Reading(iu, s) THEN dino[i] ELSE [mode |-> itab[s].mode, nlink |-> itab[s].nlink]
    BY <1>3, <2>1 DEF Effective, Reading
  <2>4. CASE Reading(iu, s)
    <3>1. \A t \in Slots : itab[t].num = i => t = s
      BY <1>1, <2>2, UniqueEntry
    <3>2. Disk(dino, dir, i)
      BY <1>2, <2>4, <3>1 DEF LinksAdd
    <3> QED BY <2>3, <2>4, <3>2
  <2>5. CASE ~Reading(iu, s)
    <3>1. s \in Entries
      <4>1. itab[ROOT].num = ROOT
        BY DEF InodeInv, Sound, Table, RootEntry
      <4> QED BY <1>1, <2>2, <4>1 DEF Entries
    <3>2. Core(itab, dino, dir, iu, s)
      BY <1>2, <2>2, <2>5, <3>1 DEF LinksAdd
    <3> QED BY <2>2, <2>3, <2>5, <3>1, <3>2
  <2> QED BY <2>4, <2>5
<1>4. CASE ~\E s \in Slots : itab[s].num = i /\ itab[s].count > 0
  <2>1. \A s \in Slots : itab[s].num # i
    BY <1>1, <1>4, InUse
  <2>2. Disk(dino, dir, i)
    BY <1>2, <2>1 DEF LinksAdd
  <2>3. Effective(i) = dino[i]
    BY <1>4 DEF Effective
  <2> QED BY <2>2, <2>3
<1> QED BY <1>3, <1>4

LEMMA ReferencesAre ==
    ASSUME InodeInv, NEW s \in Slots
    PROVE  itab[s].count = References(s)
<1>1. iu \in [IProcs -> IuRec] /\ itab[s].count = AllRefs(iu, s)
  BY DEF InodeInv, Sound, Types, RefsAdd
<1>2. Count(IProcs, [p \in IProcs |-> iu[p].ip], s) = Cardinality({p \in IProcs : iu[p].ip = s})
  <2>1. {p \in IProcs : [q \in IProcs |-> iu[q].ip][p] = s} = {p \in IProcs : iu[p].ip = s}
    OBVIOUS
  <2> QED BY <2>1 DEF Count
<1>3. Count(IProcs, [p \in IProcs |-> iu[p].tgt], s) = Cardinality({p \in IProcs : iu[p].tgt = s})
  <2>1. {p \in IProcs : [q \in IProcs |-> iu[q].tgt][p] = s} = {p \in IProcs : iu[p].tgt = s}
    OBVIOUS
  <2> QED BY <2>1 DEF Count
<1>4. Count(IProcs, [p \in IProcs |-> iu[p].fd], s) = Cardinality({p \in IProcs : iu[p].fd = s})
  <2>1. {p \in IProcs : [q \in IProcs |-> iu[q].fd][p] = s} = {p \in IProcs : iu[p].fd = s}
    OBVIOUS
  <2> QED BY <2>1 DEF Count
<1>5. Count(IProcs, [p \in IProcs |-> iu[p].wfd], s) = Cardinality({p \in IProcs : iu[p].wfd = s})
  <2>1. {p \in IProcs : [q \in IProcs |-> iu[q].wfd][p] = s} = {p \in IProcs : iu[p].wfd = s}
    OBVIOUS
  <2> QED BY <2>1 DEF Count
<1>6. Count(IProcs, [p \in IProcs |-> Pp(iu[p])], 1) = Cardinality({p \in IProcs : iu[p].pp})
  <2>1. {p \in IProcs : [q \in IProcs |-> Pp(iu[q])][p] = 1} = {p \in IProcs : iu[p].pp}
    BY DEF Pp
  <2> QED BY <2>1 DEF Count
<1> QED BY <1>1, <1>2, <1>3, <1>4, <1>5, <1>6 DEF AllRefs, References

LEMMA LinksAre ==
    ASSUME InodeInv, \A p \in IProcs : iu[p].pc = "user", NEW i \in FileInos
    PROVE  Effective(i).nlink = Cardinality({n \in Names : dir[n] = i})
<1>1. NamesOf(dir, i) = Cardinality({n \in Names : dir[n] = i}) /\ NamesOf(dir, i) \in Nat
  <2>1. NamesOf(dir, i) \in Nat
    BY Consts, CountIsNat DEF NamesOf
  <2> QED BY <2>1 DEF NamesOf, Count
<1>2. CASE Effective(i) = dino[i] /\ Disk(dino, dir, i)
  BY <1>1, <1>2 DEF Disk
<1>3. ASSUME NEW s \in Entries, itab[s].num = i, Core(itab, dino, dir, iu, s),
             Effective(i) = [mode |-> itab[s].mode, nlink |-> itab[s].nlink]
      PROVE  Effective(i).nlink = Cardinality({n \in Names : dir[n] = i})
  <2>1. s # 0 /\ IsFiniteSet(IProcs)
    BY Consts DEF Entries
  <2>2. AllMade(iu, s) = 0
    BY <2>1, CountIsNat DEF AllMade, Made
  <2>3. AllLinked(iu, s) = 0
    BY <2>1, CountIsNat DEF AllLinked, Linked, Plocks
  <2>4. itab[s].nlink = NamesOf(dir, i)
    BY <1>1, <1>3, <2>2, <2>3 DEF Core
  <2> QED BY <1>1, <1>3, <2>4
<1> QED BY <1>2, <1>3, EffectiveIs

LEMMA CountsHold ==
    ASSUME InodeInv
    PROVE  CountsExact
<1>1. OneEntryPerInode
  BY UniqueEntry DEF OneEntryPerInode, InodeInv, Sound, Table, Entry
<1>2. CountIsReferences
  BY ReferencesAre DEF CountIsReferences
<1>3. LinksAreNames
  BY LinksAre DEF LinksAreNames, FileInos
<1> QED BY <1>1, <1>2, <1>3 DEF CountsExact

LEMMA NamesHold ==
    ASSUME InodeInv
    PROVE  NamedIsAllocated
<1>1. ASSUME NEW n \in Names, dir[n] # 0
      PROVE  Effective(dir[n]).mode # 0
  <2>1. dir[n] \in FileInos
    BY <1>1 DEF InodeInv, Sound, Types
  <2>2. PICK i \in FileInos : i = dir[n]
    BY <2>1
  <2>3. CASE Effective(i) = dino[i] /\ Disk(dino, dir, i)
    BY <2>2, <2>3 DEF Disk
  <2>4. ASSUME NEW s \in Entries, itab[s].num = i, Core(itab, dino, dir, iu, s),
               Effective(i) = [mode |-> itab[s].mode, nlink |-> itab[s].nlink]
        PROVE  Effective(i).mode # 0
    BY <2>2, <2>4 DEF Core
  <2>5. Effective(i).mode # 0
    <3>1. \/ \E s \in Entries : /\ itab[s].num = i /\ Core(itab, dino, dir, iu, s)
                                 /\ Effective(i) = [mode |-> itab[s].mode, nlink |-> itab[s].nlink]
          \/ Effective(i) = dino[i] /\ Disk(dino, dir, i)
      BY EffectiveIs
    <3>2. CASE Effective(i) = dino[i] /\ Disk(dino, dir, i)
      BY <2>2, <2>3, <3>2
    <3>3. CASE \E s \in Entries : /\ itab[s].num = i /\ Core(itab, dino, dir, iu, s)
                                   /\ Effective(i) = [mode |-> itab[s].mode, nlink |-> itab[s].nlink]
      <4>1. PICK s \in Entries : /\ itab[s].num = i /\ Core(itab, dino, dir, iu, s)
                                 /\ Effective(i) = [mode |-> itab[s].mode, nlink |-> itab[s].nlink]
        BY <3>3
      <4> QED BY <2>4, <4>1
    <3> QED BY <3>1, <3>2, <3>3
  <2> QED BY <2>2, <2>5
<1>2. ASSUME NEW p \in IProcs, iu[p].fd # 0
      PROVE  itab[iu[p].fd].mode # 0
  BY <1>2 DEF InodeInv, Sound, Knows
<1> QED BY <1>1, <1>2 DEF NamedIsAllocated

(* iget, iput, link, unlink, creat, pipe and sync, in whatever order they  *)
(* run, wait and fail: an inode has one entry in the table, i_count is the *)
(* number of its references, so that iput frees it when and only when      *)
(* nothing refers to it, and no link is lost or invented.                  *)
THEOREM InodesCounted == InodeSpec => []CountsExact
BY InodesSound, CountsHold, PTL

(* A name, or an open file, never leads to an inode that has been freed,   *)
(* whoever unlinked it, and whether it was in core or has just been read.  *)
THEOREM NamesAllocated == InodeSpec => []NamedIsAllocated
BY InodesSound, NamesHold, PTL
=============================================================================
