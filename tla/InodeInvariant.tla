---------------------------- MODULE InodeInvariant ----------------------------
(***************************************************************************)
(* The inductive invariant of the in-core inodes, and that it is kept by   *)
(* the steps that change neither an entry's link count nor what the disk   *)
(* or the directory has; InodeProofs has the other steps and the theorems. *)
(*                                                                         *)
(* Three countings carry the proof.  i_count counts the references of the  *)
(* processes, so that the last of them is alone with the entry; i_nlink    *)
(* counts the names, but for the link or creat that has changed one of the *)
(* two and not yet the other; and the inode on disk has what the entry has *)
(* unless the entry is marked as changed.                                  *)
(***************************************************************************)
EXTENDS Inode, FiniteSetTheorems, NaturalsInduction, TLAPS

Igets == {"iget", "iget_sleep", "iget_woken"}
Plocks == {"plock", "plock_sleep", "plock_woken"}
Iallocs == {"ialloc", "ialloc_sleep", "ialloc_woken", "ialoop", "iscan", "iagot"}
Frees == {"itrunc", "iupdat"}

(* Where a process has the lock of its entry, if it has one, where it only *)
(* has a reference, and where it has none.                                 *)
Locked == {"iread", "dirread", "named", "open1", "ctrunc", "iputip", "unlink", "iagot", "syncupdat"} \cup Frees
MayFail == {"named", "unlink", "iagot"}
Without == {"user", "linkfail", "putpp", "done", "sync"} \cup Igets \cup (Iallocs \ {"iagot"})
Pcs == Locked \cup Plocks \cup Without \cup {"wdir"}

EntryRec == [num : 0 .. NInos, count : Nat, lock : BOOLEAN, want : BOOLEAN,
             mode : {0, 1}, nlink : Int, chg : BOOLEAN]
DiskRec == [mode : {0, 1}, nlink : Int]
IuRec == [pc : Pcs, op : {"none", "open", "creat", "link", "unlink", "close", "pipe", "sync"},
          name : Names \cup {"none"}, ino : 0 .. NInos, ip : 0 .. NINODE, tgt : 0 .. NINODE,
          pp : BOOLEAN, wait : 0 .. NINODE, adr : Nat, err : BOOLEAN, lost : BOOLEAN,
          ret : {"none", "dirread", "named", "unlink", "iagot", "putpp", "done", "linkfail", "ialoop", "sync"},
          fd : 0 .. NINODE, wfd : 0 .. NINODE]

FileInos == Inos \ {ROOT}
Entries == Slots \ {ROOT}

Types(tab, dn, dr, v) ==
    /\ tab \in [Slots -> EntryRec]
    /\ dn \in [Inos -> DiskRec]
    /\ dr \in [Names -> FileInos \cup {0}]
    /\ v \in [IProcs -> IuRec]

(* What a process is about to do, once iget or iput have returned.         *)
Goal(r) == IF r.pc \in Igets \cup {"iread"} \cup Frees THEN r.ret ELSE r.pc

(* Where a process is says what it holds, and what it knows of the         *)
(* directory it has locked.                                                *)
Local(dr, r) ==
    /\ r.pc \in Igets \cup {"iread"} =>
         /\ r.ret \in {"dirread", "named", "unlink", "iagot"}
         /\ r.ino \in Inos /\ (r.ino = ROOT <=> r.ret = "dirread")
    /\ r.pc \in Frees => r.ret \in {"putpp", "done", "linkfail", "ialoop", "sync"}
    /\ r.pc \in Without => r.ip = 0
    /\ r.pc \in Locked \cup Plocks \cup {"wdir"} => IF r.pc = "dirread" THEN r.ip = ROOT
                                               ELSE r.ip # ROOT /\ (r.pc \notin MayFail => r.ip # 0)
    /\ r.tgt # ROOT /\ r.fd # ROOT /\ r.wfd # ROOT
    /\ r.tgt # 0 => r.op = "link" /\ Goal(r) \in {"dirread", "named", "linkfail"}
    /\ Goal(r) = "linkfail" => r.tgt # 0
    /\ r.pp => r.op # "pipe" /\ Goal(r) \in {"unlink", "wdir", "iputip", "putpp"} \cup Iallocs
    /\ Goal(r) \in {"unlink", "wdir"} => r.pp /\ r.name \in Names
    /\ Goal(r) = "unlink" => r.op = "unlink"
    /\ Goal(r) \in Iallocs => /\ r.op \in {"creat", "pipe"}
                              /\ r.op = "creat" => r.pp /\ r.name \in Names /\ dr[r.name] = 0
    /\ r.pc = "wdir" => r.op \in {"creat", "link"} /\ dr[r.name] = 0
    /\ Goal(r) = "dirread" => r.op \in {"open", "creat", "link", "unlink"} /\ r.name \in Names
    /\ Goal(r) = "named" => r.op \in {"open", "creat", "link"}
    /\ r.pc \in {"open1", "ctrunc"} => r.op \in {"open", "creat"}
    /\ r.pc = "user" => r.op = "none" /\ ~r.err
    /\ r.op \in {"open", "creat", "pipe"} => r.fd = 0
    /\ r.op = "pipe" => r.wfd = 0
    /\ r.op = "link" /\ r.err => \/ Goal(r) \in Plocks \cup {"iputip", "linkfail", "done", "putpp"}
                                 \/ r.pc = "named" /\ r.ip = 0
    /\ r.pc = "named" /\ r.ip = 0 => r.err
    /\ r.pc \in Igets \cup {"iread"} /\ r.ret = "unlink" => dr[r.name] = r.ino

(* The locks of a process.                                                 *)
Holds(r, s) ==
    \/ r.ip = s /\ (r.pc \in Locked \/ (r.pc = "wdir" /\ r.op = "creat"))
    \/ s = ROOT /\ r.pp

(* The entry of inode i that has not been read yet.                        *)
Blank(e, i) == e.num = i /\ e.count = 1 /\ e.lock /\ e.mode = 0 /\ e.nlink = 0 /\ ~e.chg

(* What a process knows of the entries it refers to.                       *)
Knows(tab, dr, r) ==
    /\ \A s \in Slots : Holds(r, s) => tab[s].lock
    /\ r.pc = "iread" => Blank(tab[r.ip], r.ino)
    /\ r.pc \in Frees => tab[r.ip].count = 1
    /\ r.pc = "itrunc" => tab[r.ip].nlink <= 0
    /\ r.pc = "wdir" /\ r.op = "creat" => tab[r.ip].count = 1 /\ tab[r.ip].nlink = 1 /\ tab[r.ip].chg
    /\ r.pc \in {"open1", "ctrunc", "wdir"} \cup Plocks => tab[r.ip].mode # 0
    /\ r.tgt # 0 => tab[r.tgt].mode # 0
    /\ r.fd # 0 => tab[r.fd].mode # 0
    /\ r.wfd # 0 => tab[r.wfd].mode # 0
    /\ r.pc = "unlink" /\ r.ip # 0 => dr[r.name] = tab[r.ip].num

Exclusive(v) == \A p, q \in IProcs, s \in Slots : Holds(v[p], s) /\ Holds(v[q], s) => p = q

(* An entry that is not in use is clear; one whose inode is not allocated  *)
(* is in the hands of one process, which has it locked.                    *)
Entry(e) ==
    /\ e.count = 0 => e = FreeEntry
    /\ e.count > 0 => e.num # 0
    /\ e.count > 0 /\ e.mode = 0 => e.count = 1 /\ e.lock

RootEntry(e) == e.num = ROOT /\ e.mode = 1 /\ e.nlink = 1 /\ ~e.chg /\ e.count > 0

Table(tab) ==
    /\ \A s \in Slots : Entry(tab[s])
    /\ RootEntry(tab[ROOT])
    /\ \A s, t \in Slots : s # t /\ tab[s].num = tab[t].num => tab[s].num = 0

-----------------------------------------------------------------------------
(* The countings.                                                          *)
One(a, b) == IF a = b THEN 1 ELSE 0

Count(S, h, y) == Cardinality({x \in S : h[x] = y})

(* The references of one process, and of all.                              *)
Pp(r) == IF r.pp THEN 1 ELSE 0

Refs(r, s) == One(r.ip, s) + One(r.tgt, s) + One(r.fd, s) + One(r.wfd, s) + (IF s = ROOT THEN Pp(r) ELSE 0)

AllRefs(v, s) ==
    Count(IProcs, [p \in IProcs |-> v[p].ip], s) + Count(IProcs, [p \in IProcs |-> v[p].tgt], s)
    + Count(IProcs, [p \in IProcs |-> v[p].fd], s) + Count(IProcs, [p \in IProcs |-> v[p].wfd], s)
    + (IF s = ROOT THEN 1 + Count(IProcs, [p \in IProcs |-> Pp(v[p])], 1) ELSE 0)

RefsAdd(tab, v) == \A s \in Slots : tab[s].count = AllRefs(v, s)

(* The entry whose inode has got a name that i_nlink does not count yet,   *)
(* and the entry whose i_nlink counts a name it is to get.                 *)
Linked(r) == IF r.pc \in Plocks /\ r.op = "link" /\ ~r.err THEN r.ip ELSE 0
Made(r) == IF r.pc = "wdir" /\ r.op = "creat" THEN r.ip ELSE 0

AllLinked(v, s) == Count(IProcs, [p \in IProcs |-> Linked(v[p])], s)
AllMade(v, s) == Count(IProcs, [p \in IProcs |-> Made(v[p])], s)

NamesOf(dr, i) == Count(Names, dr, i)

Reading(v, s) == \E p \in IProcs : v[p].pc = "iread" /\ v[p].ip = s

(* The disk has the names of inode i right.                                *)
Disk(dn, dr, i) ==
    /\ dn[i].nlink = NamesOf(dr, i)
    /\ \A n \in Names : dr[n] = i => dn[i].mode # 0

(* The entry of an inode that has been read has, and so has the disk       *)
(* unless the entry has been changed.                                      *)
Core(tab, dn, dr, v, s) ==
    /\ tab[s].nlink = NamesOf(dr, tab[s].num) + AllMade(v, s) - AllLinked(v, s)
    /\ \A n \in Names : dr[n] = tab[s].num => tab[s].mode # 0
    /\ ~tab[s].chg => dn[tab[s].num].mode = tab[s].mode /\ dn[tab[s].num].nlink = tab[s].nlink

LinksAdd(tab, dn, dr, v) ==
    /\ \A s \in Entries : tab[s].count > 0 /\ ~Reading(v, s) => Core(tab, dn, dr, v, s)
    /\ \A i \in FileInos : (\A s \in Slots : tab[s].num = i => Reading(v, s)) => Disk(dn, dr, i)

Sound(tab, dn, dr, v) ==
    /\ Types(tab, dn, dr, v)
    /\ \A p \in IProcs : Local(dr, v[p]) /\ Knows(tab, dr, v[p])
    /\ Exclusive(v)
    /\ Table(tab)
    /\ RefsAdd(tab, v)
    /\ LinksAdd(tab, dn, dr, v)

(* The inductive invariant.                                                *)
InodeInv == Sound(itab, dino, dir, iu) /\ dino[ROOT].mode = 1 /\ sinode \in Seq(FileInos)

-----------------------------------------------------------------------------
(* Counting.                                                               *)
LEMMA Consts ==
    /\ NINODE \in Nat \ {0, 1} /\ NInos \in Nat \ {0, 1} /\ INOPB \in Nat /\ NICINOD \in Nat
    /\ IsFiniteSet(IProcs) /\ IsFiniteSet(Names)
    /\ ROOT = 1 /\ Slots = 1 .. NINODE /\ Inos = 1 .. NInos
    /\ ROOT \in Slots /\ ROOT \in Inos /\ 0 \notin Slots /\ 0 \notin Inos
    /\ Slots \subseteq 0 .. NINODE /\ Inos \subseteq 0 .. NInos
BY InodeConstants DEF ROOT, Slots, Inos

LEMMA CountIsNat ==
    ASSUME NEW S, IsFiniteSet(S), NEW h, NEW y
    PROVE  /\ IsFiniteSet({x \in S : h[x] = y}) /\ Count(S, h, y) \in Nat
           /\ Count(S, h, y) = 0 <=> \A x \in S : h[x] # y
<1>1. {x \in S : h[x] = y} \in SUBSET S
  OBVIOUS
<1>2. IsFiniteSet({x \in S : h[x] = y})
  BY <1>1, FS_Subset
<1>3. Count(S, h, y) \in Nat
  BY <1>2, FS_CardinalityType DEF Count
<1>4. Count(S, h, y) = 0 <=> {x \in S : h[x] = y} = {}
  BY <1>2, FS_EmptySet DEF Count
<1> QED BY <1>2, <1>3, <1>4

LEMMA OneType == \A a, b : One(a, b) \in {0, 1}
BY DEF One

(* One element that was mapped to h[z] is mapped to g[z] instead.          *)
LEMMA Moved ==
    ASSUME NEW S, IsFiniteSet(S), NEW h, NEW g, NEW z \in S, \A x \in S : x # z => g[x] = h[x], NEW y
    PROVE  Count(S, g, y) = Count(S, h, y) - One(h[z], y) + One(g[z], y)
<1>1. PICK R : R = {x \in S \ {z} : h[x] = y}
  OBVIOUS
<1>2. R \in SUBSET S /\ z \notin R /\ R = {x \in S \ {z} : g[x] = y}
  BY <1>1
<1>3. IsFiniteSet(R) /\ Cardinality(R) \in Nat /\ Cardinality(R \cup {z}) = Cardinality(R) + 1
  <2>1. IsFiniteSet(R)
    BY <1>2, FS_Subset
  <2> QED BY <1>2, <2>1, FS_CardinalityType, FS_AddElement
<1>4. Count(S, h, y) = Cardinality(R) + One(h[z], y)
  <2>1. CASE h[z] = y
    <3>1. {x \in S : h[x] = y} = R \cup {z}
      BY <1>1, <2>1
    <3> QED BY <1>3, <2>1, <3>1 DEF Count, One
  <2>2. CASE h[z] # y
    <3>1. {x \in S : h[x] = y} = R
      BY <1>1, <2>2
    <3> QED BY <1>3, <2>2, <3>1 DEF Count, One
  <2> QED BY <2>1, <2>2
<1>5. Count(S, g, y) = Cardinality(R) + One(g[z], y)
  <2>1. CASE g[z] = y
    <3>1. {x \in S : g[x] = y} = R \cup {z}
      BY <1>2, <2>1
    <3> QED BY <1>3, <2>1, <3>1 DEF Count, One
  <2>2. CASE g[z] # y
    <3>1. {x \in S : g[x] = y} = R
      BY <1>2, <2>2
    <3> QED BY <1>3, <2>2, <3>1 DEF Count, One
  <2> QED BY <2>1, <2>2
<1> QED BY <1>3, <1>4, <1>5 DEF One

(* Two different elements count at least as much as they do alone.         *)
LEMMA TwoCount ==
    ASSUME NEW S, IsFiniteSet(S), NEW h, NEW w \in S, NEW z \in S, w # z, NEW y
    PROVE  Count(S, h, y) >= One(h[w], y) + One(h[z], y)
<1>1. PICK R : R = {x \in S : h[x] = y}
  OBVIOUS
<1>2. IsFiniteSet(R) /\ Cardinality(R) = Count(S, h, y) /\ Cardinality(R) \in Nat
  BY <1>1, CountIsNat DEF Count
<1>3. One(h[w], y) = 1 => Cardinality(R) # 0
  BY <1>1, <1>2, FS_EmptySet DEF One
<1>4. One(h[z], y) = 1 => Cardinality(R) # 0
  BY <1>1, <1>2, FS_EmptySet DEF One
<1>5. ASSUME h[w] = y, h[z] = y
      PROVE  Cardinality(R) >= 2
  <2>1. IsFiniteSet(R \ {w}) /\ Cardinality(R \ {w}) = Cardinality(R) - 1
    BY <1>1, <1>2, <1>5, FS_RemoveElement
  <2>2. Cardinality(R \ {w}) \in Nat
    BY <2>1, FS_CardinalityType
  <2>3. Cardinality(R \ {w}) # 0
    <3>1. z \in R \ {w}
      BY <1>1, <1>5
    <3> QED BY <2>1, <3>1, FS_EmptySet
  <2> QED BY <1>2, <2>1, <2>2, <2>3
<1> QED BY <1>2, <1>3, <1>4, <1>5 DEF One

(* Process p goes from v[p] to r: what it adds to each count.              *)
LEMMA RefsMove ==
    ASSUME NEW v \in [IProcs -> IuRec], NEW p \in IProcs, NEW r \in IuRec, NEW s \in Slots
    PROVE  /\ AllRefs(v, s) \in Nat /\ Refs(v[p], s) \in Nat /\ Refs(r, s) \in Nat
           /\ AllRefs([v EXCEPT ![p] = r], s) = AllRefs(v, s) - Refs(v[p], s) + Refs(r, s)
<1> DEFINE w == [v EXCEPT ![p] = r]
<1>1. w[p] = r /\ \A q \in IProcs : q # p => w[q] = v[q]
  OBVIOUS
<1> HIDE DEF w
<1>2. IsFiniteSet(IProcs)
  BY Consts
<1> DEFINE ip(u) == [q \in IProcs |-> u[q].ip]
           tgt(u) == [q \in IProcs |-> u[q].tgt]
           fd(u) == [q \in IProcs |-> u[q].fd]
           wfd(u) == [q \in IProcs |-> u[q].wfd]
           pp(u) == [q \in IProcs |-> Pp(u[q])]
<1>3. Count(IProcs, ip(w), s) = Count(IProcs, ip(v), s) - One(v[p].ip, s) + One(r.ip, s)
  <2>1. \A q \in IProcs : q # p => ip(w)[q] = ip(v)[q]
    BY <1>1
  <2>2. ip(w)[p] = r.ip /\ ip(v)[p] = v[p].ip
    BY <1>1
  <2> HIDE DEF ip
  <2>3. Count(IProcs, ip(w), s) = Count(IProcs, ip(v), s) - One(ip(v)[p], s) + One(ip(w)[p], s)
    BY <1>2, <2>1, Moved
  <2> QED BY <2>2, <2>3
<1>4. Count(IProcs, tgt(w), s) = Count(IProcs, tgt(v), s) - One(v[p].tgt, s) + One(r.tgt, s)
  <2>1. \A q \in IProcs : q # p => tgt(w)[q] = tgt(v)[q]
    BY <1>1
  <2>2. tgt(w)[p] = r.tgt /\ tgt(v)[p] = v[p].tgt
    BY <1>1
  <2> HIDE DEF tgt
  <2>3. Count(IProcs, tgt(w), s) = Count(IProcs, tgt(v), s) - One(tgt(v)[p], s) + One(tgt(w)[p], s)
    BY <1>2, <2>1, Moved
  <2> QED BY <2>2, <2>3
<1>5. Count(IProcs, fd(w), s) = Count(IProcs, fd(v), s) - One(v[p].fd, s) + One(r.fd, s)
  <2>1. \A q \in IProcs : q # p => fd(w)[q] = fd(v)[q]
    BY <1>1
  <2>2. fd(w)[p] = r.fd /\ fd(v)[p] = v[p].fd
    BY <1>1
  <2> HIDE DEF fd
  <2>3. Count(IProcs, fd(w), s) = Count(IProcs, fd(v), s) - One(fd(v)[p], s) + One(fd(w)[p], s)
    BY <1>2, <2>1, Moved
  <2> QED BY <2>2, <2>3
<1>6. Count(IProcs, wfd(w), s) = Count(IProcs, wfd(v), s) - One(v[p].wfd, s) + One(r.wfd, s)
  <2>1. \A q \in IProcs : q # p => wfd(w)[q] = wfd(v)[q]
    BY <1>1
  <2>2. wfd(w)[p] = r.wfd /\ wfd(v)[p] = v[p].wfd
    BY <1>1
  <2> HIDE DEF wfd
  <2>3. Count(IProcs, wfd(w), s) = Count(IProcs, wfd(v), s) - One(wfd(v)[p], s) + One(wfd(w)[p], s)
    BY <1>2, <2>1, Moved
  <2> QED BY <2>2, <2>3
<1>7. Count(IProcs, pp(w), 1) = Count(IProcs, pp(v), 1) - Pp(v[p]) + Pp(r)
  <2>1. \A q \in IProcs : q # p => pp(w)[q] = pp(v)[q]
    BY <1>1
  <2>2. pp(w)[p] = Pp(r) /\ pp(v)[p] = Pp(v[p])
    BY <1>1
  <2> HIDE DEF pp
  <2>3. Count(IProcs, pp(w), 1) = Count(IProcs, pp(v), 1) - One(pp(v)[p], 1) + One(pp(w)[p], 1)
    BY <1>2, <2>1, Moved
  <2>4. \A x \in {0, 1} : One(x, 1) = x
    BY DEF One
  <2>5. One(Pp(r), 1) = Pp(r) /\ One(Pp(v[p]), 1) = Pp(v[p])
    BY <2>4 DEF Pp
  <2> QED BY <2>2, <2>3, <2>5
<1>8. \A h, y : Count(IProcs, h, y) \in Nat
  BY <1>2, CountIsNat
<1>9. Pp(v[p]) \in {0, 1} /\ Pp(r) \in {0, 1}
  BY DEF Pp
<1>11. /\ AllRefs(w, s) = Count(IProcs, ip(w), s) + Count(IProcs, tgt(w), s) + Count(IProcs, fd(w), s)
                          + Count(IProcs, wfd(w), s) + (IF s = ROOT THEN 1 + Count(IProcs, pp(w), 1) ELSE 0)
       /\ AllRefs(v, s) = Count(IProcs, ip(v), s) + Count(IProcs, tgt(v), s) + Count(IProcs, fd(v), s)
                          + Count(IProcs, wfd(v), s) + (IF s = ROOT THEN 1 + Count(IProcs, pp(v), 1) ELSE 0)
  BY Zenon DEF AllRefs
<1> HIDE DEF ip, tgt, fd, wfd, pp
<1>12. AllRefs(v, s) \in Nat
  BY <1>8, <1>11
<1>13. Refs(v[p], s) \in Nat /\ Refs(r, s) \in Nat
  BY DEF Refs, One, Pp
<1>14. AllRefs(w, s) = AllRefs(v, s) - Refs(v[p], s) + Refs(r, s)
  <2>1. CASE s = ROOT
    <3>1. /\ AllRefs(w, s) = Count(IProcs, ip(w), s) + Count(IProcs, tgt(w), s) + Count(IProcs, fd(w), s)
                             + Count(IProcs, wfd(w), s) + (1 + Count(IProcs, pp(w), 1))
          /\ AllRefs(v, s) = Count(IProcs, ip(v), s) + Count(IProcs, tgt(v), s) + Count(IProcs, fd(v), s)
                             + Count(IProcs, wfd(v), s) + (1 + Count(IProcs, pp(v), 1))
      BY <1>11, <2>1
    <3>2. /\ Refs(r, s) = One(r.ip, s) + One(r.tgt, s) + One(r.fd, s) + One(r.wfd, s) + Pp(r)
          /\ Refs(v[p], s) = One(v[p].ip, s) + One(v[p].tgt, s) + One(v[p].fd, s) + One(v[p].wfd, s) + Pp(v[p])
      BY <2>1 DEF Refs
    <3>3. /\ One(r.ip, s) \in Int /\ One(r.tgt, s) \in Int /\ One(r.fd, s) \in Int /\ One(r.wfd, s) \in Int
          /\ One(v[p].ip, s) \in Int /\ One(v[p].tgt, s) \in Int /\ One(v[p].fd, s) \in Int
          /\ One(v[p].wfd, s) \in Int /\ Pp(r) \in Int /\ Pp(v[p]) \in Int
      BY DEF One, Pp
    <3> QED BY <1>3, <1>4, <1>5, <1>6, <1>7, <1>8, <3>1, <3>2, <3>3
  <2>2. CASE s # ROOT
    BY <1>3, <1>4, <1>5, <1>6, <1>8, <1>11, <2>2, OneType DEF Refs
  <2> QED BY <2>1, <2>2
<1> QED BY <1>12, <1>13, <1>14 DEF w

(* Two processes together have no more references than there are.          *)
LEMMA RefsTwo ==
    ASSUME NEW v \in [IProcs -> IuRec], NEW p \in IProcs, NEW q \in IProcs, p # q, NEW s \in Slots
    PROVE  AllRefs(v, s) >= Refs(v[p], s) + Refs(v[q], s)
<1>2. IsFiniteSet(IProcs)
  BY Consts
<1> DEFINE ip == [x \in IProcs |-> v[x].ip]
           tgt == [x \in IProcs |-> v[x].tgt]
           fd == [x \in IProcs |-> v[x].fd]
           wfd == [x \in IProcs |-> v[x].wfd]
           pp == [x \in IProcs |-> Pp(v[x])]
<1>3. /\ ip[p] = v[p].ip /\ tgt[p] = v[p].tgt /\ fd[p] = v[p].fd /\ wfd[p] = v[p].wfd /\ pp[p] = Pp(v[p])
      /\ ip[q] = v[q].ip /\ tgt[q] = v[q].tgt /\ fd[q] = v[q].fd /\ wfd[q] = v[q].wfd /\ pp[q] = Pp(v[q])
  OBVIOUS
<1>4. AllRefs(v, s) = Count(IProcs, ip, s) + Count(IProcs, tgt, s) + Count(IProcs, fd, s)
                      + Count(IProcs, wfd, s) + (IF s = ROOT THEN 1 + Count(IProcs, pp, 1) ELSE 0)
  BY DEF AllRefs
<1>6. Pp(v[p]) \in {0, 1} /\ Pp(v[q]) \in {0, 1}
  BY DEF Pp
<1> HIDE DEF ip, tgt, fd, wfd, pp
<1>7. \A h, y : Count(IProcs, h, y) \in Nat /\ Count(IProcs, h, y) >= One(h[p], y) + One(h[q], y)
  BY <1>2, CountIsNat, TwoCount
<1>8. /\ Count(IProcs, ip, s) >= One(v[p].ip, s) + One(v[q].ip, s)
      /\ Count(IProcs, tgt, s) >= One(v[p].tgt, s) + One(v[q].tgt, s)
      /\ Count(IProcs, fd, s) >= One(v[p].fd, s) + One(v[q].fd, s)
      /\ Count(IProcs, wfd, s) >= One(v[p].wfd, s) + One(v[q].wfd, s)
      /\ Count(IProcs, pp, 1) >= Pp(v[p]) + Pp(v[q])
  <2>1. \A x \in {0, 1} : One(x, 1) = x
    BY DEF One
  <2>2. One(Pp(v[p]), 1) = Pp(v[p]) /\ One(Pp(v[q]), 1) = Pp(v[q])
    BY <2>1 DEF Pp
  <2> QED BY <1>3, <1>7, <2>2
<1>9. CASE s = ROOT
  BY <1>4, <1>6, <1>7, <1>8, <1>9, OneType DEF Refs
<1>10. CASE s # ROOT
  BY <1>4, <1>7, <1>8, <1>10, OneType DEF Refs
<1> QED BY <1>9, <1>10

LEMMA LinkedMove ==
    ASSUME NEW v \in [IProcs -> IuRec], NEW p \in IProcs, NEW r \in IuRec, NEW s
    PROVE  /\ AllLinked(v, s) \in Nat
           /\ AllLinked([v EXCEPT ![p] = r], s) = AllLinked(v, s) - One(Linked(v[p]), s) + One(Linked(r), s)
<1> DEFINE w == [v EXCEPT ![p] = r]
           h(u) == [q \in IProcs |-> Linked(u[q])]
<1>1. w[p] = r /\ \A q \in IProcs : q # p => w[q] = v[q]
  OBVIOUS
<1> HIDE DEF w
<1>2. \A q \in IProcs : q # p => h(w)[q] = h(v)[q]
  BY <1>1
<1>3. h(w)[p] = Linked(r) /\ h(v)[p] = Linked(v[p])
  BY <1>1
<1>4. AllLinked(w, s) = Count(IProcs, h(w), s) /\ AllLinked(v, s) = Count(IProcs, h(v), s)
  BY DEF AllLinked
<1> HIDE DEF h
<1>5. Count(IProcs, h(w), s) = Count(IProcs, h(v), s) - One(h(v)[p], s) + One(h(w)[p], s)
  BY <1>2, Consts, Moved
<1>6. Count(IProcs, h(v), s) \in Nat
  BY Consts, CountIsNat
<1> QED BY <1>3, <1>4, <1>5, <1>6 DEF w

LEMMA MadeMove ==
    ASSUME NEW v \in [IProcs -> IuRec], NEW p \in IProcs, NEW r \in IuRec, NEW s
    PROVE  /\ AllMade(v, s) \in Nat
           /\ AllMade([v EXCEPT ![p] = r], s) = AllMade(v, s) - One(Made(v[p]), s) + One(Made(r), s)
<1> DEFINE w == [v EXCEPT ![p] = r]
           h(u) == [q \in IProcs |-> Made(u[q])]
<1>1. w[p] = r /\ \A q \in IProcs : q # p => w[q] = v[q]
  OBVIOUS
<1> HIDE DEF w
<1>2. \A q \in IProcs : q # p => h(w)[q] = h(v)[q]
  BY <1>1
<1>3. h(w)[p] = Made(r) /\ h(v)[p] = Made(v[p])
  BY <1>1
<1>4. AllMade(w, s) = Count(IProcs, h(w), s) /\ AllMade(v, s) = Count(IProcs, h(v), s)
  BY DEF AllMade
<1> HIDE DEF h
<1>5. Count(IProcs, h(w), s) = Count(IProcs, h(v), s) - One(h(v)[p], s) + One(h(w)[p], s)
  BY <1>2, Consts, Moved
<1>6. Count(IProcs, h(v), s) \in Nat
  BY Consts, CountIsNat
<1> QED BY <1>3, <1>4, <1>5, <1>6 DEF w

(* Nobody but p has a link or a new inode at entry s.                      *)
LEMMA PendingAlone ==
    ASSUME NEW v \in [IProcs -> IuRec], NEW p \in IProcs, NEW s \in Slots,
           \A q \in IProcs : q # p => v[q].ip # s
    PROVE  AllLinked(v, s) = One(Linked(v[p]), s) /\ AllMade(v, s) = One(Made(v[p]), s)
<1> DEFINE r == [v[p] EXCEPT !.pc = "user"]
<1>1. r \in IuRec /\ r.pc = "user"
  <2>1. v[p] \in IuRec /\ "user" \in Pcs
    BY DEF Pcs, Without
  <2> QED BY <2>1 DEF IuRec
<1> HIDE DEF r
<1>2. PICK w : w = [v EXCEPT ![p] = r]
  OBVIOUS
<1>3. w[p] = r /\ \A q \in IProcs : q # p => w[q] = v[q]
  BY <1>2
<1>4. Linked(r) = 0 /\ Made(r) = 0
  BY <1>1 DEF Linked, Made, Plocks
<1>5. \A q \in IProcs : Linked(w[q]) # s /\ Made(w[q]) # s
  <2>1. 0 # s
    BY Consts
  <2> QED BY <1>3, <1>4, <2>1 DEF Linked, Made
<1>6. AllLinked(w, s) = 0 /\ AllMade(w, s) = 0
  <2>1. \A q \in IProcs : [x \in IProcs |-> Linked(w[x])][q] # s /\ [x \in IProcs |-> Made(w[x])][q] # s
    BY <1>5
  <2> QED BY <2>1, Consts, CountIsNat DEF AllLinked, AllMade
<1>7. 0 # s
  BY Consts
<1>8. AllLinked(w, s) = AllLinked(v, s) - One(Linked(v[p]), s) + One(0, s) /\ AllLinked(v, s) \in Nat
  <2>1. /\ AllLinked([v EXCEPT ![p] = r], s) = AllLinked(v, s) - One(Linked(v[p]), s) + One(Linked(r), s)
        /\ AllLinked(v, s) \in Nat
    BY <1>1, LinkedMove, Zenon
  <2> QED BY <1>2, <1>4, <2>1, Zenon
<1>9. AllMade(w, s) = AllMade(v, s) - One(Made(v[p]), s) + One(0, s) /\ AllMade(v, s) \in Nat
  <2>1. /\ AllMade([v EXCEPT ![p] = r], s) = AllMade(v, s) - One(Made(v[p]), s) + One(Made(r), s)
        /\ AllMade(v, s) \in Nat
    BY <1>1, MadeMove, Zenon
  <2> QED BY <1>2, <1>4, <2>1, Zenon
<1> QED BY <1>6, <1>7, <1>8, <1>9 DEF One

LEMMA RefsNone ==
    ASSUME NEW r, NEW s
    PROVE  /\ Refs(r, s) \in Nat
           /\ Refs(r, s) = 0 <=> r.ip # s /\ r.tgt # s /\ r.fd # s /\ r.wfd # s /\ ~(s = ROOT /\ r.pp)
BY DEF Refs, One, Pp

(* The only reference to an entry is that of a process that has one.       *)
LEMMA Alone ==
    ASSUME NEW tab, NEW dn, NEW dr, NEW v, Sound(tab, dn, dr, v), NEW p \in IProcs, NEW s \in Slots,
           tab[s].count <= 1, Refs(v[p], s) >= 1
    PROVE  Refs(v[p], s) = 1 /\ \A q \in IProcs : q # p => Refs(v[q], s) = 0
<1>1. v \in [IProcs -> IuRec] /\ tab[s].count = AllRefs(v, s)
  BY DEF Sound, Types, RefsAdd
<1>2. AllRefs(v, s) \in Nat /\ \A q \in IProcs : Refs(v[q], s) \in Nat
  <2>1. v[p] \in IuRec
    BY <1>1
  <2> QED BY <1>1, <2>1, RefsMove, RefsNone
<1>3. \A q \in IProcs : q # p => Refs(v[q], s) = 0
  <2>1. TAKE q \in IProcs
  <2>2. HAVE q # p
  <2>3. AllRefs(v, s) >= Refs(v[p], s) + Refs(v[q], s)
    BY <1>1, <2>2, RefsTwo
  <2> QED BY <1>1, <1>2, <2>3
<1>4. Refs(v[p], s) <= AllRefs(v, s)
  <2> DEFINE r == [v[p] EXCEPT !.ip = 0, !.tgt = 0, !.fd = 0, !.wfd = 0, !.pp = FALSE]
  <2>1. r \in IuRec
    <3>1. v[p] \in IuRec /\ 0 \in 0 .. NINODE
      BY <1>1, Consts
    <3> QED BY <3>1 DEF IuRec
  <2>2. Refs(r, s) = 0
    <3>1. r.ip = 0 /\ r.tgt = 0 /\ r.fd = 0 /\ r.wfd = 0 /\ r.pp = FALSE /\ 0 # s
      BY <1>1, Consts DEF IuRec
    <3> QED BY <3>1, RefsNone
  <2> HIDE DEF r
  <2>3. AllRefs([v EXCEPT ![p] = r], s) = AllRefs(v, s) - Refs(v[p], s) + Refs(r, s)
    BY <1>1, <2>1, RefsMove, Zenon
  <2>4. [v EXCEPT ![p] = r] \in [IProcs -> IuRec]
    BY <1>1, <2>1
  <2>5. AllRefs([v EXCEPT ![p] = r], s) \in Nat
    BY <2>1, <2>4, RefsMove, Zenon
  <2> QED BY <1>2, <2>2, <2>3, <2>5
<1> QED BY <1>1, <1>2, <1>3, <1>4

-----------------------------------------------------------------------------
(* Steps.                                                                  *)

SameEntry(e, e1) ==
    e1.num = e.num /\ e1.count = e.count /\ e1.lock = e.lock /\ e1.mode = e.mode /\ e1.nlink = e.nlink /\ e1.chg = e.chg

(* A process going from r to r1 may do this to entry s: it counts its      *)
(* references, changes only what it has locked or finds unlocked, and      *)
(* frees the inode only if it is alone with it.                            *)
SlotStep(e, e1, r, r1, s) ==
    /\ Entry(e1) /\ (s = ROOT => RootEntry(e1))
    /\ e1.count = e.count - Refs(r, s) + Refs(r1, s)
    /\ SameEntry(e, e1) \/ ~e.lock \/ Holds(r, s)
    /\ e.mode # 0 /\ e1.mode = 0 => e.count = 1 /\ Refs(r, s) >= 1
    /\ Holds(r1, s) => Holds(r, s) \/ ~e.lock

OneNumber(tab) == \A s, t \in Slots : s # t /\ tab[s].num = tab[t].num => tab[s].num = 0

(* What the other processes know stays true.                               *)
LEMMA OthersKnow ==
    ASSUME NEW tab, NEW dn, NEW dr, NEW v, Sound(tab, dn, dr, v), NEW p \in IProcs,
           NEW tab1 \in [Slots -> EntryRec], NEW dr1, NEW r,
           \A s \in Slots : SlotStep(tab[s], tab1[s], v[p], r, s),
           dr1 = dr \/ v[p].pp,
           NEW q \in IProcs, q # p
    PROVE  Local(dr1, v[q]) /\ Knows(tab1, dr1, v[q])
<1>1. v \in [IProcs -> IuRec] /\ Local(dr, v[q]) /\ Knows(tab, dr, v[q]) /\ tab \in [Slots -> EntryRec]
  BY DEF Sound, Types
<1>2. v[q].pp => dr1 = dr
  <2>1. v[p].pp /\ v[q].pp => Holds(v[p], ROOT) /\ Holds(v[q], ROOT)
    BY DEF Holds
  <2>2. ~(v[p].pp /\ v[q].pp)
    BY <2>1, Consts DEF Sound, Exclusive
  <2> QED BY <2>2
<1>3. Local(dr1, v[q])
  BY <1>1, <1>2 DEF Local, Goal, Iallocs, Igets, Frees
<1>4. \A s \in Slots : Holds(v[q], s) => SameEntry(tab[s], tab1[s])
  BY <1>1 DEF Sound, Exclusive, SlotStep, Knows
<1>5. \A s \in Slots : Refs(v[q], s) # 0 => (tab[s].mode # 0 => tab1[s].mode # 0)
  <2>1. TAKE s \in Slots
  <2>2. HAVE Refs(v[q], s) # 0
  <2>3. SUFFICES ASSUME tab[s].mode # 0, tab1[s].mode = 0
                 PROVE  FALSE
    OBVIOUS
  <2>4. tab[s].count = 1 /\ Refs(v[p], s) >= 1
    BY <2>3 DEF SlotStep
  <2> QED BY <2>2, <2>4, Alone
<1>6. /\ v[q].ip \in 0 .. NINODE /\ v[q].tgt \in 0 .. NINODE /\ v[q].fd \in 0 .. NINODE /\ v[q].wfd \in 0 .. NINODE
      /\ \A s \in 0 .. NINODE : s # 0 => s \in Slots
  <2>1. v[q] \in IuRec
    BY <1>1
  <2> QED BY <2>1, Consts DEF IuRec
<1>7. v[q].pc \in Locked \/ (v[q].pc = "wdir" /\ v[q].op = "creat") =>
        v[q].ip = 0 \/ (v[q].ip \in Slots /\ SameEntry(tab[v[q].ip], tab1[v[q].ip]))
  BY <1>4, <1>6 DEF Holds
<1>8. \A s \in 0 .. NINODE : s # 0 /\ (s = v[q].ip \/ s = v[q].tgt \/ s = v[q].fd \/ s = v[q].wfd)
        => (tab[s].mode # 0 => tab1[s].mode # 0)
  BY <1>5, <1>6, RefsNone
<1>9. \A s \in Slots : Holds(v[q], s) => tab1[s].lock
  BY <1>1, <1>4 DEF Knows, SameEntry
<1>10. v[q].pc = "iread" => Blank(tab1[v[q].ip], v[q].ino)
  <2>1. HAVE v[q].pc = "iread"
  <2>2. v[q].ip \in Slots /\ SameEntry(tab[v[q].ip], tab1[v[q].ip])
    BY <1>1, <1>6, <1>7, <2>1 DEF Local, Locked, MayFail
  <2>3. Blank(tab[v[q].ip], v[q].ino)
    BY <1>1, <2>1 DEF Knows
  <2> QED BY <2>2, <2>3 DEF SameEntry, Blank
<1>11. Knows(tab1, dr1, v[q])
  <2>1. v[q].pc \in Frees \cup {"wdir", "open1", "ctrunc"} \cup Plocks => v[q].ip # 0
    BY <1>1 DEF Local, Locked, Plocks, MayFail, Frees
  <2>2. v[q].pc \in Frees => tab1[v[q].ip].count = 1
    BY <1>1, <1>7, <2>1 DEF Knows, SameEntry, Locked
  <2>3. v[q].pc = "itrunc" => tab1[v[q].ip].nlink <= 0
    BY <1>1, <1>7, <2>1 DEF Knows, SameEntry, Locked, Frees
  <2>4. v[q].pc = "wdir" /\ v[q].op = "creat" =>
          tab1[v[q].ip].count = 1 /\ tab1[v[q].ip].nlink = 1 /\ tab1[v[q].ip].chg
    BY <1>1, <1>7, <2>1 DEF Knows, SameEntry
  <2>5. v[q].pc \in {"open1", "ctrunc", "wdir"} \cup Plocks => tab1[v[q].ip].mode # 0
    BY <1>1, <1>6, <1>8, <2>1 DEF Knows
  <2>6. /\ v[q].tgt # 0 => tab1[v[q].tgt].mode # 0
        /\ v[q].fd # 0 => tab1[v[q].fd].mode # 0
        /\ v[q].wfd # 0 => tab1[v[q].wfd].mode # 0
    BY <1>1, <1>6, <1>8 DEF Knows
  <2>7. v[q].pc = "unlink" /\ v[q].ip # 0 => dr1[v[q].name] = tab1[v[q].ip].num
    <3>1. HAVE v[q].pc = "unlink" /\ v[q].ip # 0
    <3>2. v[q].pp
      BY <1>1, <3>1 DEF Local, Goal, Igets, Frees
    <3>3. tab1[v[q].ip].num = tab[v[q].ip].num
      BY <1>7, <3>1 DEF SameEntry, Locked
    <3> QED BY <1>1, <1>2, <3>1, <3>2, <3>3 DEF Knows
  <2> QED BY <1>9, <1>10, <2>2, <2>3, <2>4, <2>5, <2>6, <2>7, Zenon DEF Knows
<1> QED BY <1>3, <1>11

LEMMA Step ==
    ASSUME NEW tab, NEW dn, NEW dr, NEW v, Sound(tab, dn, dr, v), NEW p \in IProcs,
           NEW tab1 \in [Slots -> EntryRec], NEW dn1 \in [Inos -> DiskRec],
           NEW dr1 \in [Names -> FileInos \cup {0}], NEW r \in IuRec,
           \A s \in Slots : SlotStep(tab[s], tab1[s], v[p], r, s),
           OneNumber(tab1), dr1 = dr \/ v[p].pp,
           Local(dr1, r), Knows(tab1, dr1, r),
           NEW w, w = [v EXCEPT ![p] = r], LinksAdd(tab1, dn1, dr1, w)
    PROVE  Sound(tab1, dn1, dr1, w)
<1>1. v \in [IProcs -> IuRec]
  BY DEF Sound, Types
<1>2. w \in [IProcs -> IuRec] /\ w[p] = r /\ \A q \in IProcs : q # p => w[q] = v[q]
  BY <1>1
<1>3. Types(tab1, dn1, dr1, w)
  BY <1>2 DEF Types
<1>4. ASSUME NEW q \in IProcs
      PROVE  Local(dr1, w[q]) /\ Knows(tab1, dr1, w[q])
  <2>1. CASE q = p
    BY <1>2, <2>1
  <2>2. CASE q # p
    <3>1. Local(dr1, v[q]) /\ Knows(tab1, dr1, v[q])
      BY <1>1, <2>2, OthersKnow, ZenonT(60)
    <3> QED BY <1>2, <2>2, <3>1
  <2> QED BY <2>1, <2>2
<1>5. Exclusive(w)
  <2>1. SUFFICES ASSUME NEW q \in IProcs, q # p, NEW s \in Slots, Holds(v[q], s), Holds(r, s)
                 PROVE  FALSE
    BY <1>2 DEF Sound, Exclusive
  <2>2. tab[s].lock /\ ~Holds(v[p], s)
    BY <2>1 DEF Sound, Exclusive, Knows
  <2> QED BY <2>1, <2>2 DEF SlotStep
<1>6. Table(tab1)
  BY Consts DEF Table, SlotStep, OneNumber
<1>7. RefsAdd(tab1, w)
  <2>1. SUFFICES ASSUME NEW s \in Slots
                 PROVE  tab1[s].count = AllRefs(w, s)
    BY DEF RefsAdd
  <2>2. AllRefs(w, s) = AllRefs(v, s) - Refs(v[p], s) + Refs(r, s)
    BY <1>1, RefsMove, Zenon
  <2> QED BY <2>1, <2>2 DEF SlotStep, Sound, RefsAdd
<1> QED BY <1>3, <1>4, <1>5, <1>6, <1>7 DEF Sound

-----------------------------------------------------------------------------
(* Links.  What the counting of links sees of an entry, of a process that  *)
(* goes from r to r1, and of inode i.                                      *)
SameCore(e, e1) == e1.num = e.num /\ e1.mode = e.mode /\ e1.nlink = e.nlink /\ e1.chg = e.chg
                   /\ (e1.count > 0 <=> e.count > 0)

Reads(r, s) == r.pc = "iread" /\ r.ip = s

SameMarks(r, r1, s) == /\ Linked(r1) = s <=> Linked(r) = s
                       /\ Made(r1) = s <=> Made(r) = s
                       /\ Reads(r1, s) <=> Reads(r, s)

SameNames(dr, dr1, i) == \A n \in Names : dr1[n] = i <=> dr[n] = i

LEMMA SameNamesOf ==
    ASSUME NEW dr, NEW dr1, NEW i, SameNames(dr, dr1, i)
    PROVE  NamesOf(dr1, i) = NamesOf(dr, i)
<1>1. {n \in Names : dr1[n] = i} = {n \in Names : dr[n] = i}
  BY DEF SameNames
<1> QED BY <1>1 DEF NamesOf, Count

LEMMA SamePending ==
    ASSUME NEW v \in [IProcs -> IuRec], NEW p \in IProcs, NEW r \in IuRec, NEW w, w = [v EXCEPT ![p] = r],
           NEW s, SameMarks(v[p], r, s)
    PROVE  AllMade(w, s) = AllMade(v, s) /\ AllLinked(w, s) = AllLinked(v, s) /\ (Reading(w, s) <=> Reading(v, s))
<1>1. w[p] = r /\ \A q \in IProcs : q # p => w[q] = v[q]
  OBVIOUS
<1>2. /\ AllMade(v, s) \in Nat
      /\ AllMade(w, s) = AllMade(v, s) - One(Made(v[p]), s) + One(Made(r), s)
  BY MadeMove, Zenon
<1>3. /\ AllLinked(v, s) \in Nat
      /\ AllLinked(w, s) = AllLinked(v, s) - One(Linked(v[p]), s) + One(Linked(r), s)
  BY LinkedMove, Zenon
<1>4. One(Made(r), s) = One(Made(v[p]), s) /\ One(Linked(r), s) = One(Linked(v[p]), s)
  BY DEF SameMarks, One
<1>5. Reading(w, s) <=> Reading(v, s)
  <2>1. \A q \in IProcs : Reads(w[q], s) <=> Reads(v[q], s)
    BY <1>1 DEF SameMarks
  <2> QED BY <2>1 DEF Reads, Reading
<1>6. One(Made(v[p]), s) \in Nat /\ One(Linked(v[p]), s) \in Nat
  BY DEF One
<1> QED BY <1>2, <1>3, <1>4, <1>5, <1>6

LEMMA FileEntry ==
    ASSUME NEW tab, tab \in [Slots -> EntryRec], Table(tab), NEW s \in Entries, tab[s].count > 0
    PROVE  tab[s].num \in FileInos
<1>1. tab[s] \in EntryRec /\ s \in Slots /\ s # ROOT
  BY DEF Entries
<1>2. tab[s].num # 0 /\ tab[ROOT].num = ROOT
  BY <1>1 DEF Table, Entry, RootEntry
<1>3. tab[s].num # ROOT
  BY <1>1, <1>2, Consts DEF Table
<1> QED BY <1>1, <1>2, <1>3, Consts DEF EntryRec, FileInos

(* Nothing changes that the counts see.                                    *)
LEMMA LinksKept ==
    ASSUME NEW tab, NEW dn, NEW dr, NEW v, Sound(tab, dn, dr, v), NEW p \in IProcs,
           NEW tab1 \in [Slots -> EntryRec], NEW r \in IuRec, NEW w, w = [v EXCEPT ![p] = r],
           \A t \in Slots : SameCore(tab[t], tab1[t]) /\ SameMarks(v[p], r, t)
    PROVE  LinksAdd(tab1, dn, dr, w) /\ OneNumber(tab1)
<1>1. v \in [IProcs -> IuRec] /\ tab \in [Slots -> EntryRec] /\ Table(tab) /\ LinksAdd(tab, dn, dr, v)
  BY DEF Sound, Types
<1>2. ASSUME NEW t \in Slots
      PROVE  AllMade(w, t) = AllMade(v, t) /\ AllLinked(w, t) = AllLinked(v, t) /\ (Reading(w, t) <=> Reading(v, t))
  <2>1. SameMarks(v[p], r, t)
    OBVIOUS
  <2> QED BY <1>1, <2>1, SamePending, Zenon
<1>3. ASSUME NEW t \in Entries, tab1[t].count > 0, ~Reading(w, t)
      PROVE  Core(tab1, dn, dr, w, t)
  <2>1. t \in Slots /\ SameCore(tab[t], tab1[t])
    BY DEF Entries
  <2>2. Core(tab, dn, dr, v, t)
    BY <1>1, <1>2, <1>3, <2>1 DEF LinksAdd, SameCore
  <2> QED BY <1>2, <2>1, <2>2 DEF Core, SameCore
<1>4. ASSUME NEW j \in FileInos, \A t \in Slots : tab1[t].num = j => Reading(w, t)
      PROVE  Disk(dn, dr, j)
  BY <1>1, <1>2, <1>4 DEF LinksAdd, SameCore
<1>5. OneNumber(tab1)
  BY <1>1 DEF OneNumber, Table, SameCore
<1> QED BY <1>3, <1>4, <1>5 DEF LinksAdd

(* A step that changes neither what the counts of links see nor, but for   *)
(* the lock and the references, entry s.                                   *)
SameLinks(r, r1) == Linked(r1) = Linked(r) /\ Made(r1) = Made(r) /\ r.pc # "iread" /\ r1.pc # "iread"

SameInode(e, e1) == e1.num = e.num /\ e1.mode = e.mode /\ e1.nlink = e.nlink /\ e1.chg = e.chg

TouchStep(e, e1, r, r1, s) ==
    /\ SameInode(e, e1) /\ e.count > 0 /\ e1.count > 0
    /\ e1.count = e.count - Refs(r, s) + Refs(r1, s)
    /\ SameEntry(e, e1) \/ ~e.lock \/ Holds(r, s)
    /\ e1.mode # 0 \/ (e1.count = 1 /\ e1.lock)
    /\ Holds(r1, s) => Holds(r, s) \/ ~e.lock

StillSlot(r, r1, t) == Refs(r1, t) = Refs(r, t) /\ (Holds(r1, t) => Holds(r, t))

LEMMA Touched ==
    ASSUME NEW tab, NEW dn, NEW dr, NEW v, Sound(tab, dn, dr, v), NEW p \in IProcs, NEW s \in Slots,
           NEW e1 \in EntryRec, NEW r \in IuRec,
           TouchStep(tab[s], e1, v[p], r, s), SameLinks(v[p], r),
           \A t \in Slots : t # s => StillSlot(v[p], r, t),
           NEW tab1, tab1 = [tab EXCEPT ![s] = e1], NEW w, w = [v EXCEPT ![p] = r],
           Local(dr, r), Knows(tab1, dr, r)
    PROVE  Sound(tab1, dn, dr, w)
<1>1. Types(tab, dn, dr, v) /\ Table(tab)
  BY DEF Sound
<1>2. tab1 \in [Slots -> EntryRec] /\ tab1[s] = e1 /\ \A t \in Slots : t # s => tab1[t] = tab[t]
  BY <1>1 DEF Types
<1>3. ASSUME NEW t \in Slots
      PROVE  SlotStep(tab[t], tab1[t], v[p], r, t)
  <2>1. Entry(tab[t]) /\ (t = ROOT => RootEntry(tab[t])) /\ tab[t] \in EntryRec
    BY <1>1 DEF Table, Types
  <2>2. CASE t = s
    <3>1. Entry(e1) /\ (t = ROOT => RootEntry(e1))
      BY <2>1, <2>2 DEF TouchStep, SameInode, Entry, RootEntry, EntryRec
    <3> QED BY <1>2, <2>2, <3>1 DEF TouchStep, SlotStep, SameInode
  <2>3. CASE t # s
    <3>1. tab1[t] = tab[t] /\ StillSlot(v[p], r, t)
      BY <1>2, <2>3
    <3>2. tab[t].count = tab[t].count - Refs(v[p], t) + Refs(r, t)
      <4>1. Refs(v[p], t) \in Nat /\ tab[t].count \in Nat
        BY <2>1, RefsNone DEF EntryRec
      <4> QED BY <3>1, <4>1 DEF StillSlot
    <3> QED BY <2>1, <3>1, <3>2 DEF SlotStep, SameEntry, StillSlot
  <2> QED BY <2>2, <2>3
<1>4. \A t \in Slots : SameCore(tab[t], tab1[t])
  BY <1>2 DEF SameCore, TouchStep, SameInode
<1>5. \A t \in Slots : SameMarks(v[p], r, t)
  BY DEF SameMarks, SameLinks, Reads
<1>6. LinksAdd(tab1, dn, dr, w) /\ OneNumber(tab1)
  BY <1>2, <1>4, <1>5, LinksKept, ZenonT(60)
<1>7. dn \in [Inos -> DiskRec] /\ dr \in [Names -> FileInos \cup {0}]
  BY <1>1 DEF Types
<1> QED BY <1>2, <1>3, <1>6, <1>7, Step, ZenonT(60)

LEMMA Unmoved ==
    ASSUME NEW tab, NEW dn, NEW dr, NEW v, Sound(tab, dn, dr, v), NEW p \in IProcs, NEW r \in IuRec,
           SameLinks(v[p], r), \A t \in Slots : StillSlot(v[p], r, t),
           NEW w, w = [v EXCEPT ![p] = r],
           Local(dr, r), Knows(tab, dr, r)
    PROVE  Sound(tab, dn, dr, w)
<1>1. Types(tab, dn, dr, v) /\ Table(tab)
  BY DEF Sound
<1>2. tab[ROOT] \in EntryRec /\ tab = [tab EXCEPT ![ROOT] = tab[ROOT]] /\ ROOT \in Slots
  BY <1>1, Consts DEF Types
<1>3. TouchStep(tab[ROOT], tab[ROOT], v[p], r, ROOT)
  <2>1. Refs(v[p], ROOT) \in Nat /\ tab[ROOT].count \in Nat /\ StillSlot(v[p], r, ROOT)
    BY <1>2, RefsNone DEF EntryRec
  <2>2. RootEntry(tab[ROOT])
    BY <1>1 DEF Table
  <2> QED BY <2>1, <2>2 DEF TouchStep, SameInode, SameEntry, StillSlot, RootEntry
<1> QED BY <1>2, <1>3, Touched, ZenonT(60)

(* Others are woken up.                                                    *)
WakeSame(r, r1) ==
    /\ r1.op = r.op /\ r1.name = r.name /\ r1.ino = r.ino /\ r1.ip = r.ip /\ r1.tgt = r.tgt /\ r1.pp = r.pp
    /\ r1.ret = r.ret /\ r1.err = r.err /\ r1.fd = r.fd /\ r1.wfd = r.wfd
    /\ r1.pc = r.pc \/ <<r.pc, r1.pc>> \in {<<"iget_sleep", "iget_woken">>, <<"plock_sleep", "plock_woken">>,
                                             <<"ialloc_sleep", "ialloc_woken">>}

LEMMA Woken ==
    ASSUME NEW tab, NEW dn, NEW dr, NEW v, Sound(tab, dn, dr, v), NEW w \in [IProcs -> IuRec],
           \A q \in IProcs : WakeSame(v[q], w[q])
    PROVE  Sound(tab, dn, dr, w)
<1>1. v \in [IProcs -> IuRec]
  BY DEF Sound, Types
<1>2. Types(tab, dn, dr, w)
  BY DEF Sound, Types
<1>4. ASSUME NEW q \in IProcs
      PROVE  /\ \A s : Holds(w[q], s) <=> Holds(v[q], s)
             /\ Linked(w[q]) = Linked(v[q]) /\ Made(w[q]) = Made(v[q])
             /\ Local(dr, w[q]) /\ Knows(tab, dr, w[q])
  <2>1. WakeSame(v[q], w[q]) /\ Local(dr, v[q]) /\ Knows(tab, dr, v[q])
    BY DEF Sound
  <2>2. CASE w[q].pc = v[q].pc
    BY <2>1, <2>2 DEF WakeSame, Holds, Linked, Made, Local, Knows, Goal
  <2>3. CASE v[q].pc = "iget_sleep" /\ w[q].pc = "iget_woken"
    BY <2>1, <2>3 DEF WakeSame, Holds, Linked, Made, Local, Knows, Goal, Locked, Plocks, Without, Igets, Iallocs, Frees, MayFail
  <2>4. CASE v[q].pc = "plock_sleep" /\ w[q].pc = "plock_woken"
    BY <2>1, <2>4 DEF WakeSame, Holds, Linked, Made, Local, Knows, Goal, Locked, Plocks, Without, Igets, Iallocs, Frees, MayFail
  <2>5. CASE v[q].pc = "ialloc_sleep" /\ w[q].pc = "ialloc_woken"
    BY <2>1, <2>5 DEF WakeSame, Holds, Linked, Made, Local, Knows, Goal, Locked, Plocks, Without, Igets, Iallocs, Frees, MayFail
  <2> QED BY <2>1, <2>2, <2>3, <2>4, <2>5 DEF WakeSame
<1>5. Exclusive(w)
  BY <1>4 DEF Sound, Exclusive
<1>6. RefsAdd(tab, w)
  <2>1. /\ [q \in IProcs |-> w[q].ip] = [q \in IProcs |-> v[q].ip]
        /\ [q \in IProcs |-> w[q].tgt] = [q \in IProcs |-> v[q].tgt]
        /\ [q \in IProcs |-> w[q].fd] = [q \in IProcs |-> v[q].fd]
        /\ [q \in IProcs |-> w[q].wfd] = [q \in IProcs |-> v[q].wfd]
        /\ [q \in IProcs |-> Pp(w[q])] = [q \in IProcs |-> Pp(v[q])]
    BY DEF WakeSame, Pp
  <2>2. \A s : AllRefs(w, s) = AllRefs(v, s)
    BY <2>1, Zenon DEF AllRefs
  <2> QED BY <2>2 DEF Sound, RefsAdd
<1>7. LinksAdd(tab, dn, dr, w)
  <2>1. /\ [q \in IProcs |-> Linked(w[q])] = [q \in IProcs |-> Linked(v[q])]
        /\ [q \in IProcs |-> Made(w[q])] = [q \in IProcs |-> Made(v[q])]
    BY <1>4
  <2>2. \A s : AllLinked(w, s) = AllLinked(v, s) /\ AllMade(w, s) = AllMade(v, s)
    BY <2>1, Zenon DEF AllLinked, AllMade
  <2>3. \A s : Reading(w, s) <=> Reading(v, s)
    BY DEF Reading, WakeSame
  <2>4. \A s : Core(tab, dn, dr, w, s) <=> Core(tab, dn, dr, v, s)
    BY <2>2 DEF Core
  <2> QED BY <2>3, <2>4 DEF Sound, LinksAdd
<1> QED BY <1>2, <1>4, <1>5, <1>6, <1>7 DEF Sound

LEMMA WakeIQuiet ==
    ASSUME NEW w \in [IProcs -> IuRec], NEW s
    PROVE  WakeI(w, s) \in [IProcs -> IuRec] /\ \A q \in IProcs : WakeSame(w[q], WakeI(w, s)[q])
<1>1. ASSUME NEW q \in IProcs
      PROVE  WakeI(w, s)[q] \in IuRec /\ WakeSame(w[q], WakeI(w, s)[q])
  <2>1. w[q] \in IuRec /\ "iget_woken" \in Pcs /\ "plock_woken" \in Pcs /\ 0 \in 0 .. NINODE
    BY Consts DEF Pcs, Without, Igets, Plocks
  <2>2. CASE w[q].pc = "iget_sleep" /\ w[q].wait = s
    <3>1. WakeI(w, s)[q] = [w[q] EXCEPT !.pc = "iget_woken", !.wait = 0, !.lost = FALSE]
      BY <2>2 DEF WakeI
    <3> QED BY <2>1, <2>2, <3>1, ZenonT(60) DEF IuRec, WakeSame
  <2>3. CASE w[q].pc = "plock_sleep" /\ w[q].wait = s
    <3>1. WakeI(w, s)[q] = [w[q] EXCEPT !.pc = "plock_woken", !.wait = 0]
      BY <2>3 DEF WakeI
    <3> QED BY <2>1, <2>3, <3>1, ZenonT(60) DEF IuRec, WakeSame
  <2>4. CASE ~(w[q].pc \in {"iget_sleep", "plock_sleep"} /\ w[q].wait = s)
    <3>1. WakeI(w, s)[q] = w[q]
      BY <2>4 DEF WakeI
    <3> QED BY <2>1, <3>1 DEF WakeSame
  <2> QED BY <2>2, <2>3, <2>4
<1>2. WakeI(w, s) = [q \in IProcs |-> WakeI(w, s)[q]]
  BY DEF WakeI
<1> QED BY <1>1, <1>2

(* prele: the entry is unlocked, and whoever waits for it is woken up.     *)
LEMMA Prele ==
    ASSUME NEW s \in Slots, NEW e, NEW w, NEW dn, NEW dr, PreleI(s, e, w), Sound(itab', dn, dr, w)
    PROVE  Sound(itab', dn, dr, iu')
<1>1. w \in [IProcs -> IuRec]
  BY DEF Sound, Types
<1>2. CASE iu' = w
  BY <1>2
<1>3. CASE iu' = WakeI(w, s)
  BY <1>1, <1>3, WakeIQuiet, Woken
<1> QED BY <1>2, <1>3 DEF PreleI

-----------------------------------------------------------------------------
(* The actions.                                                            *)
LEMMA Here ==
    ASSUME InodeInv, NEW p \in IProcs
    PROVE  /\ Sound(itab, dino, dir, iu) /\ dino[ROOT].mode = 1 /\ sinode \in Seq(FileInos)
           /\ itab \in [Slots -> EntryRec] /\ dino \in [Inos -> DiskRec]
           /\ dir \in [Names -> FileInos \cup {0}] /\ iu \in [IProcs -> IuRec] /\ iu[p] \in IuRec
           /\ Table(itab) /\ Local(dir, iu[p]) /\ Knows(itab, dir, iu[p])
BY DEF InodeInv, Sound, Types

LEMMA Values ==
    /\ Pcs = {"user", "linkfail", "putpp", "done", "sync", "iget", "iget_sleep", "iget_woken", "ialloc",
              "ialloc_sleep", "ialloc_woken", "ialoop", "iscan", "iagot", "plock", "plock_sleep", "plock_woken",
              "iread", "dirread", "named", "open1", "ctrunc", "iputip", "unlink", "syncupdat", "itrunc",
              "iupdat", "wdir"}
    /\ 0 \in 0 .. NINODE /\ 0 \in 0 .. NInos /\ ROOT \in 0 .. NINODE /\ ROOT \in 0 .. NInos
    /\ \A s \in 0 .. NINODE : s # 0 => s \in Slots
    /\ \A i \in 0 .. NInos : i # 0 => i \in Inos
<1>1. Pcs = {"user", "linkfail", "putpp", "done", "sync", "iget", "iget_sleep", "iget_woken", "ialloc",
              "ialloc_sleep", "ialloc_woken", "ialoop", "iscan", "iagot", "plock", "plock_sleep", "plock_woken",
              "iread", "dirread", "named", "open1", "ctrunc", "iputip", "unlink", "syncupdat", "itrunc",
              "iupdat", "wdir"}
  BY DEF Pcs, Locked, Plocks, Without, Igets, Iallocs, Frees
<1> QED BY <1>1, Consts

LEMMA ICallInv ==
    ASSUME InodeInv, NEW p \in IProcs, NEW o \in ICalls, NEW n \in Names, ICall(p, o, n)
    PROVE  InodeInv'
<1> DEFINE r0 == iu[p]
           r == [r0 EXCEPT !.op = o, !.name = n, !.ino = ROOT, !.ret = "dirread", !.pc = "iget"]
<1>1. /\ r0.pc = "user" /\ o \in {"open", "creat", "link", "unlink"} /\ (o \in {"open", "creat"} => r0.fd = 0)
      /\ iu' = [iu EXCEPT ![p] = r]
      /\ UNCHANGED <<itab, dino, dir, sinode, silock, updlock>>
  BY InodeConstants DEF ICall, At
<1>2. r0 \in IuRec /\ Local(dir, r0) /\ Knows(itab, dir, r0)
  BY Here
<1>3. r \in IuRec
  BY <1>1, <1>2, Values, ZenonT(60) DEF IuRec
<1>4. Local(dir, r)
  BY <1>1, <1>2, <1>3, Consts DEF IuRec, Local, Goal, Igets, Frees, Locked, Plocks, Without, MayFail, Iallocs
<1>5. Knows(itab, dir, r)
  BY <1>1, <1>2, <1>3, Consts DEF IuRec, Knows, Holds, Igets, Frees, Locked, Plocks
<1>6. SameLinks(r0, r)
  BY <1>1, <1>2 DEF IuRec, SameLinks, Linked, Made, Plocks
<1>7. \A t \in Slots : StillSlot(r0, r, t)
  BY <1>1, <1>2 DEF IuRec, StillSlot, Refs, Holds, Locked, Frees, Pp
<1> HIDE DEF r
<1>8. Sound(itab, dino, dir, iu')
  BY <1>1, <1>3, <1>4, <1>5, <1>6, <1>7, Here, Unmoved
<1> QED BY <1>1, <1>8 DEF InodeInv
LEMMA CallPipeInv ==
    ASSUME InodeInv, NEW p \in IProcs, CallPipe(p)
    PROVE  InodeInv'
<1> DEFINE r0 == iu[p]
           r == [r0 EXCEPT !.op = "pipe", !.pc = "ialloc"]
<1>1. /\ r0.pc = "user" /\ r0.fd = 0 /\ r0.wfd = 0
      /\ iu' = [iu EXCEPT ![p] = r]
      /\ UNCHANGED <<itab, dino, dir, sinode>>
  BY DEF CallPipe, At
<1>2. r0 \in IuRec /\ Local(dir, r0) /\ Knows(itab, dir, r0)
  BY Here
<1>3. r \in IuRec
  <2>1. "ialloc" \in Pcs
    BY <1>1, <1>2, Values DEF IuRec
  <2> QED BY <1>2, <2>1 DEF IuRec
<1>4. /\ r.pc = "ialloc" /\ r.op = "pipe" /\ r.name = r0.name /\ r.ino = r0.ino /\ r.ip = r0.ip /\ r.tgt = r0.tgt
      /\ r.pp = r0.pp /\ r.ret = r0.ret /\ r.err = r0.err /\ r.fd = r0.fd /\ r.wfd = r0.wfd
  BY <1>2 DEF IuRec
<1> HIDE DEF r
<1>5. Local(dir, r)
  BY <1>1, <1>2, <1>4, Consts, SMTT(60) DEF Local, Goal, Igets, Frees, Locked, Plocks, Without, MayFail, Iallocs
<1>6. Knows(itab, dir, r)
  BY <1>1, <1>2, <1>4, Consts, SMTT(60) DEF Knows, Holds, Igets, Frees, Locked, Plocks, Local, Goal, Without, MayFail
<1>7. SameLinks(r0, r)
  BY <1>1, <1>2, <1>4 DEF SameLinks, Linked, Made, Plocks, Local
<1>8. \A t \in Slots : StillSlot(r0, r, t)
  BY <1>1, <1>2, <1>4, Consts, SMTT(60) DEF StillSlot, Refs, One, Holds, Locked, Frees, Pp, Local, Goal, Without, Igets, Iallocs
<1>9. Sound(itab, dino, dir, [iu EXCEPT ![p] = r])
  BY <1>3, <1>5, <1>6, <1>7, <1>8, Here, Unmoved
<1> QED BY <1>1, <1>9, Here DEF InodeInv

LEMMA DoneInv1 ==
    ASSUME InodeInv, NEW p \in IProcs, Done(p), ~iu[p].pp
    PROVE  InodeInv'
<1> DEFINE r0 == iu[p]
           r == [Idle EXCEPT !.fd = r0.fd, !.wfd = r0.wfd]
<1>1. /\ r0.pc \in {"done", "putpp"} /\ r0.pp = FALSE
      /\ iu' = [iu EXCEPT ![p] = r]
      /\ UNCHANGED <<itab, dino, dir, sinode>>
  BY Here DEF Done, At, Return, IuRec
<1>2. r0 \in IuRec /\ Local(dir, r0) /\ Knows(itab, dir, r0)
  BY Here
<1>3. r \in IuRec
  <2>1. r0.fd \in 0 .. NINODE /\ r0.wfd \in 0 .. NINODE
    BY <1>1, <1>2, Values DEF IuRec
  <2> QED BY <1>2, <2>1, Values, ZenonT(60) DEF IuRec, Idle
<1>4. /\ r.pc = "user" /\ r.op = "none" /\ r.name = "none" /\ r.ino = 0 /\ r.ip = 0 /\ r.tgt = 0
      /\ r.pp = FALSE /\ r.ret = "none" /\ r.err = FALSE /\ r.fd = r0.fd /\ r.wfd = r0.wfd
  BY <1>2 DEF IuRec, Idle
<1> HIDE DEF r
<1>5. Local(dir, r)
  BY <1>1, <1>2, <1>4, Consts, SMTT(60) DEF Local, Goal, Igets, Frees, Locked, Plocks, Without, MayFail, Iallocs
<1>6. Knows(itab, dir, r)
  BY <1>1, <1>2, <1>4, Consts, SMTT(60) DEF Knows, Holds, Igets, Frees, Locked, Plocks, Local, Goal, Without, MayFail
<1>7. SameLinks(r0, r)
  BY <1>1, <1>2, <1>4 DEF SameLinks, Linked, Made, Plocks, Local
<1>8. \A t \in Slots : StillSlot(r0, r, t)
  BY <1>1, <1>2, <1>4, Consts, SMTT(60) DEF StillSlot, Refs, One, Holds, Locked, Frees, Pp, Local, Goal, Without, Igets, Iallocs
<1>9. Sound(itab, dino, dir, [iu EXCEPT ![p] = r])
  BY <1>3, <1>5, <1>6, <1>7, <1>8, Here, Unmoved
<1> QED BY <1>1, <1>9, Here DEF InodeInv

LEMMA NameiDeleteInv ==
    ASSUME InodeInv, NEW p \in IProcs, NameiDelete(p)
    PROVE  InodeInv'
<1> DEFINE r0 == iu[p]
           i == dir[r0.name]
           r == [r0 EXCEPT !.ip = 0, !.pp = TRUE, !.ino = i, !.ret = "unlink", !.pc = "iget"]
<1>1. /\ r0.pc = "dirread" /\ i # 0 /\ r0.op = "unlink"
      /\ iu' = [iu EXCEPT ![p] = r]
      /\ UNCHANGED <<itab, dino, dir, sinode>>
  <2>1. r0.pc = "dirread" /\ i # 0 /\ Flag(p) = 2
    BY DEF NameiDelete, At, Found
  <2>2. r0.op = "unlink"
    BY <2>1 DEF Flag
  <2>3. iu' = [iu EXCEPT ![p] = r] /\ UNCHANGED <<itab, dino, dir, sinode>>
    BY DEF NameiDelete
  <2> QED BY <2>1, <2>2, <2>3
<1>2. r0 \in IuRec /\ Local(dir, r0) /\ Knows(itab, dir, r0)
  BY Here
<1>10. i \in Inos /\ i # ROOT /\ i \in 0 .. NInos /\ dir[r0.name] = i
  <2>1. r0.name \in Names
    BY <1>1, <1>2 DEF Local, Goal, Igets, Frees
  <2> QED BY <1>1, <2>1, Here, Consts DEF FileInos
<1> HIDE DEF i
<1>3. r \in IuRec
  <2>1. 0 \in 0 .. NINODE /\ i \in 0 .. NInos /\ "iget" \in Pcs
    BY <1>1, <1>2, <1>10, Values DEF IuRec
  <2> QED BY <1>2, <2>1 DEF IuRec
<1>4. /\ r.pc = "iget" /\ r.op = r0.op /\ r.name = r0.name /\ r.ino = i /\ r.ip = 0 /\ r.tgt = r0.tgt
      /\ r.pp = TRUE /\ r.ret = "unlink" /\ r.err = r0.err /\ r.fd = r0.fd /\ r.wfd = r0.wfd
  BY <1>2 DEF IuRec
<1> HIDE DEF r
<1>5. Local(dir, r)
  BY <1>1, <1>2, <1>10, <1>4, Consts, SMTT(60) DEF Local, Goal, Igets, Frees, Locked, Plocks, Without, MayFail, Iallocs
<1>6. Knows(itab, dir, r)
  BY <1>1, <1>2, <1>10, <1>4, Consts, SMTT(60) DEF Knows, Holds, Igets, Frees, Locked, Plocks, Local, Goal, Without, MayFail
<1>7. SameLinks(r0, r)
  BY <1>1, <1>2, <1>10, <1>4 DEF SameLinks, Linked, Made, Plocks, Local
<1>8. \A t \in Slots : StillSlot(r0, r, t)
  BY <1>1, <1>2, <1>10, <1>4, Consts, SMTT(60) DEF StillSlot, Refs, One, Holds, Locked, Frees, Pp, Local, Goal, Without, Igets, Iallocs
<1>9. Sound(itab, dino, dir, [iu EXCEPT ![p] = r])
  BY <1>3, <1>5, <1>6, <1>7, <1>8, Here, Unmoved
<1> QED BY <1>1, <1>9, Here DEF InodeInv

LEMMA NameiCreateInv1 ==
    ASSUME InodeInv, NEW p \in IProcs, NameiCreate(p), iu[p].op = "creat"
    PROVE  InodeInv'
<1> DEFINE r0 == iu[p]
           r == [r0 EXCEPT !.pp = TRUE, !.ip = r0.tgt, !.tgt = 0, !.pc = "ialloc"]
<1>1. /\ r0.pc = "dirread" /\ dir[r0.name] = 0 /\ r0.op = "creat"
      /\ iu' = [iu EXCEPT ![p] = r]
      /\ UNCHANGED <<itab, dino, dir, sinode>>
  <2>1. r0.pc = "dirread" /\ dir[r0.name] = 0 /\ Flag(p) = 1
    BY DEF NameiCreate, At, Found
  <2>2. r0.op = "creat"
    BY <2>1 DEF Flag
  <2>3. iu' = [iu EXCEPT ![p] = r] /\ UNCHANGED <<itab, dino, dir, sinode>>
    BY DEF NameiCreate
  <2> QED BY <2>1, <2>2, <2>3
<1>2. r0 \in IuRec /\ Local(dir, r0) /\ Knows(itab, dir, r0)
  BY Here
<1>3. r \in IuRec
  <2>1. r0.tgt \in 0 .. NINODE /\ 0 \in 0 .. NINODE /\ "ialloc" \in Pcs
    BY <1>1, <1>2, Values DEF IuRec
  <2> QED BY <1>2, <2>1 DEF IuRec
<1>4. /\ r.pc = "ialloc" /\ r.op = r0.op /\ r.name = r0.name /\ r.ino = r0.ino /\ r.ip = r0.tgt /\ r.tgt = 0
      /\ r.pp = TRUE /\ r.ret = r0.ret /\ r.err = r0.err /\ r.fd = r0.fd /\ r.wfd = r0.wfd
  BY <1>2 DEF IuRec
<1> HIDE DEF r
<1>5. Local(dir, r)
  BY <1>1, <1>2, <1>4, Consts, SMTT(60) DEF Local, Goal, Igets, Frees, Locked, Plocks, Without, MayFail, Iallocs
<1>6. Knows(itab, dir, r)
  BY <1>1, <1>2, <1>4, Consts, SMTT(60) DEF Knows, Holds, Igets, Frees, Locked, Plocks, Local, Goal, Without, MayFail
<1>7. SameLinks(r0, r)
  BY <1>1, <1>2, <1>4 DEF SameLinks, Linked, Made, Plocks, Local
<1>8. \A t \in Slots : StillSlot(r0, r, t)
  BY <1>1, <1>2, <1>4, Consts, SMTT(60) DEF StillSlot, Refs, One, Holds, Locked, Frees, Pp, Local, Goal, Without, Igets, Iallocs
<1>9. Sound(itab, dino, dir, [iu EXCEPT ![p] = r])
  BY <1>3, <1>5, <1>6, <1>7, <1>8, Here, Unmoved
<1> QED BY <1>1, <1>9, Here DEF InodeInv

LEMMA NameiCreateInv2 ==
    ASSUME InodeInv, NEW p \in IProcs, NameiCreate(p), iu[p].op # "creat"
    PROVE  InodeInv'
<1> DEFINE r0 == iu[p]
           r == [r0 EXCEPT !.pp = TRUE, !.ip = r0.tgt, !.tgt = 0, !.pc = "wdir"]
<1>1. /\ r0.pc = "dirread" /\ dir[r0.name] = 0 /\ r0.op = "link" /\ r0.tgt # 0
      /\ iu' = [iu EXCEPT ![p] = r]
      /\ UNCHANGED <<itab, dino, dir, sinode>>
  <2>1. r0.pc = "dirread" /\ dir[r0.name] = 0 /\ Flag(p) = 1
    BY DEF NameiCreate, At, Found
  <2>2. r0.op = "link" /\ r0.tgt # 0
    BY <2>1 DEF Flag
  <2>3. iu' = [iu EXCEPT ![p] = r] /\ UNCHANGED <<itab, dino, dir, sinode>>
    BY DEF NameiCreate
  <2> QED BY <2>1, <2>2, <2>3
<1>2. r0 \in IuRec /\ Local(dir, r0) /\ Knows(itab, dir, r0)
  BY Here
<1>3. r \in IuRec
  <2>1. r0.tgt \in 0 .. NINODE /\ 0 \in 0 .. NINODE /\ "wdir" \in Pcs
    BY <1>1, <1>2, Values DEF IuRec
  <2> QED BY <1>2, <2>1 DEF IuRec
<1>4. /\ r.pc = "wdir" /\ r.op = r0.op /\ r.name = r0.name /\ r.ino = r0.ino /\ r.ip = r0.tgt /\ r.tgt = 0
      /\ r.pp = TRUE /\ r.ret = r0.ret /\ r.err = r0.err /\ r.fd = r0.fd /\ r.wfd = r0.wfd
  BY <1>2 DEF IuRec
<1> HIDE DEF r
<1>5. Local(dir, r)
  BY <1>1, <1>2, <1>4, Consts, SMTT(60) DEF Local, Goal, Igets, Frees, Locked, Plocks, Without, MayFail, Iallocs
<1>6. Knows(itab, dir, r)
  BY <1>1, <1>2, <1>4, Consts, SMTT(60) DEF Knows, Holds, Igets, Frees, Locked, Plocks, Local, Goal, Without, MayFail
<1>7. SameLinks(r0, r)
  BY <1>1, <1>2, <1>4 DEF SameLinks, Linked, Made, Plocks, Local
<1>8. \A t \in Slots : StillSlot(r0, r, t)
  BY <1>1, <1>2, <1>4, Consts, SMTT(60) DEF StillSlot, Refs, One, Holds, Locked, Frees, Pp, Local, Goal, Without, Igets, Iallocs
<1>9. Sound(itab, dino, dir, [iu EXCEPT ![p] = r])
  BY <1>3, <1>5, <1>6, <1>7, <1>8, Here, Unmoved
<1> QED BY <1>1, <1>9, Here DEF InodeInv

LEMMA LinkFailInv ==
    ASSUME InodeInv, NEW p \in IProcs, LinkFail(p)
    PROVE  InodeInv'
<1> DEFINE r0 == iu[p]
           r == [r0 EXCEPT !.ip = r0.tgt, !.tgt = 0, !.err = TRUE, !.pc = "plock"]
<1>1. /\ r0.pc = "linkfail"
      /\ iu' = [iu EXCEPT ![p] = r]
      /\ UNCHANGED <<itab, dino, dir, sinode>>
  BY DEF LinkFail, At
<1>2. r0 \in IuRec /\ Local(dir, r0) /\ Knows(itab, dir, r0)
  BY Here
<1>3. r \in IuRec
  <2>1. r0.tgt \in 0 .. NINODE /\ 0 \in 0 .. NINODE /\ "plock" \in Pcs
    BY <1>1, <1>2, Values DEF IuRec
  <2> QED BY <1>2, <2>1 DEF IuRec
<1>4. /\ r.pc = "plock" /\ r.op = r0.op /\ r.name = r0.name /\ r.ino = r0.ino /\ r.ip = r0.tgt /\ r.tgt = 0
      /\ r.pp = r0.pp /\ r.ret = r0.ret /\ r.err = TRUE /\ r.fd = r0.fd /\ r.wfd = r0.wfd
  BY <1>2 DEF IuRec
<1> HIDE DEF r
<1>5. Local(dir, r)
  BY <1>1, <1>2, <1>4, Consts, SMTT(60) DEF Local, Goal, Igets, Frees, Locked, Plocks, Without, MayFail, Iallocs
<1>6. Knows(itab, dir, r)
  BY <1>1, <1>2, <1>4, Consts, SMTT(60) DEF Knows, Holds, Igets, Frees, Locked, Plocks, Local, Goal, Without, MayFail
<1>7. SameLinks(r0, r)
  BY <1>1, <1>2, <1>4 DEF SameLinks, Linked, Made, Plocks, Local
<1>8. \A t \in Slots : StillSlot(r0, r, t)
  BY <1>1, <1>2, <1>4, Consts, SMTT(60) DEF StillSlot, Refs, One, Holds, Locked, Frees, Pp, Local, Goal, Without, Igets, Iallocs
<1>9. Sound(itab, dino, dir, [iu EXCEPT ![p] = r])
  BY <1>3, <1>5, <1>6, <1>7, <1>8, Here, Unmoved
<1> QED BY <1>1, <1>9, Here DEF InodeInv

LEMMA CloseInv1 ==
    ASSUME InodeInv, NEW p \in IProcs, At(p, "user"), iu[p].fd # 0, UNCHANGED <<itab, dino, dir, sinode>>,
           iu' = [iu EXCEPT ![p].op = "close", ![p].ip = iu[p].fd, ![p].fd = 0, ![p].pc = "plock"]
    PROVE  InodeInv'
<1> DEFINE r0 == iu[p]
           r == [r0 EXCEPT !.op = "close", !.ip = r0.fd, !.fd = 0, !.pc = "plock"]
<1>1. /\ r0.pc = "user" /\ r0.fd # 0
      /\ iu' = [iu EXCEPT ![p] = r]
      /\ UNCHANGED <<itab, dino, dir, sinode>>
  BY DEF At
<1>2. r0 \in IuRec /\ Local(dir, r0) /\ Knows(itab, dir, r0)
  BY Here
<1>3. r \in IuRec
  <2>1. r0.fd \in 0 .. NINODE /\ 0 \in 0 .. NINODE /\ "plock" \in Pcs
    BY <1>1, <1>2, Values DEF IuRec
  <2> QED BY <1>2, <2>1 DEF IuRec
<1>4. /\ r.pc = "plock" /\ r.op = "close" /\ r.name = r0.name /\ r.ino = r0.ino /\ r.ip = r0.fd /\ r.tgt = r0.tgt
      /\ r.pp = r0.pp /\ r.ret = r0.ret /\ r.err = r0.err /\ r.fd = 0 /\ r.wfd = r0.wfd
  BY <1>2 DEF IuRec
<1> HIDE DEF r
<1>5. Local(dir, r)
  BY <1>1, <1>2, <1>4, Consts, SMTT(60) DEF Local, Goal, Igets, Frees, Locked, Plocks, Without, MayFail, Iallocs
<1>6. Knows(itab, dir, r)
  BY <1>1, <1>2, <1>4, Consts, SMTT(60) DEF Knows, Holds, Igets, Frees, Locked, Plocks, Local, Goal, Without, MayFail
<1>7. SameLinks(r0, r)
  BY <1>1, <1>2, <1>4 DEF SameLinks, Linked, Made, Plocks, Local
<1>8. \A t \in Slots : StillSlot(r0, r, t)
  BY <1>1, <1>2, <1>4, Consts, SMTT(60) DEF StillSlot, Refs, One, Holds, Locked, Frees, Pp, Local, Goal, Without, Igets, Iallocs
<1>9. Sound(itab, dino, dir, [iu EXCEPT ![p] = r])
  BY <1>3, <1>5, <1>6, <1>7, <1>8, Here, Unmoved
<1> QED BY <1>1, <1>9, Here DEF InodeInv

LEMMA CloseInv2 ==
    ASSUME InodeInv, NEW p \in IProcs, At(p, "user"), iu[p].wfd # 0, UNCHANGED <<itab, dino, dir, sinode>>,
           iu' = [iu EXCEPT ![p].op = "close", ![p].ip = iu[p].wfd, ![p].wfd = 0, ![p].pc = "plock"]
    PROVE  InodeInv'
<1> DEFINE r0 == iu[p]
           r == [r0 EXCEPT !.op = "close", !.ip = r0.wfd, !.wfd = 0, !.pc = "plock"]
<1>1. /\ r0.pc = "user" /\ r0.wfd # 0
      /\ iu' = [iu EXCEPT ![p] = r]
      /\ UNCHANGED <<itab, dino, dir, sinode>>
  BY DEF At
<1>2. r0 \in IuRec /\ Local(dir, r0) /\ Knows(itab, dir, r0)
  BY Here
<1>3. r \in IuRec
  <2>1. r0.wfd \in 0 .. NINODE /\ 0 \in 0 .. NINODE /\ "plock" \in Pcs
    BY <1>1, <1>2, Values DEF IuRec
  <2> QED BY <1>2, <2>1 DEF IuRec
<1>4. /\ r.pc = "plock" /\ r.op = "close" /\ r.name = r0.name /\ r.ino = r0.ino /\ r.ip = r0.wfd /\ r.tgt = r0.tgt
      /\ r.pp = r0.pp /\ r.ret = r0.ret /\ r.err = r0.err /\ r.fd = r0.fd /\ r.wfd = 0
  BY <1>2 DEF IuRec
<1> HIDE DEF r
<1>5. Local(dir, r)
  BY <1>1, <1>2, <1>4, Consts, SMTT(60) DEF Local, Goal, Igets, Frees, Locked, Plocks, Without, MayFail, Iallocs
<1>6. Knows(itab, dir, r)
  BY <1>1, <1>2, <1>4, Consts, SMTT(60) DEF Knows, Holds, Igets, Frees, Locked, Plocks, Local, Goal, Without, MayFail
<1>7. SameLinks(r0, r)
  BY <1>1, <1>2, <1>4 DEF SameLinks, Linked, Made, Plocks, Local
<1>8. \A t \in Slots : StillSlot(r0, r, t)
  BY <1>1, <1>2, <1>4, Consts, SMTT(60) DEF StillSlot, Refs, One, Holds, Locked, Frees, Pp, Local, Goal, Without, Igets, Iallocs
<1>9. Sound(itab, dino, dir, [iu EXCEPT ![p] = r])
  BY <1>3, <1>5, <1>6, <1>7, <1>8, Here, Unmoved
<1> QED BY <1>1, <1>9, Here DEF InodeInv
LEMMA GetfsType ==
    ASSUME NEW l \in Seq(FileInos)
    PROVE  Getfs(l) \in Seq(FileInos)
BY DEF Getfs

LEMMA LastFront ==
    ASSUME NEW l \in Seq(FileInos), l # <<>>
    PROVE  Last(l) \in FileInos /\ Front(l) \in Seq(FileInos)
<1>1. Len(l) \in Nat \ {0}
  OBVIOUS
<1>2. l[Len(l)] \in FileInos
  BY <1>1
<1>3. SubSeq(l, 1, Len(l) - 1) \in Seq(FileInos)
  BY <1>1
<1> QED BY <1>2, <1>3 DEF Last, Front

LEMMA ScanType ==
    ASSUME InodeInv, NEW p \in IProcs, IallocScan(p)
    PROVE  sinode' \in Seq(FileInos)
<1>1. sinode \in Seq(FileInos) /\ dino[ROOT].mode = 1
  BY Here
<1>2. FreeIn(iu[p].adr) \subseteq FileInos
  BY <1>1 DEF FreeIn, FileInos
<1>3. ASSUME NEW n, NEW l \in [1 .. n -> FreeIn(iu[p].adr)], n \in Nat, sinode' = sinode \o l
      PROVE  sinode' \in Seq(FileInos)
  <2>1. l \in Seq(FileInos)
    BY <1>2, <1>3
  <2> QED BY <1>1, <1>3, <2>1
<1>4. IsFiniteSet(FreeIn(iu[p].adr)) /\ Cardinality(FreeIn(iu[p].adr)) \in Nat
  <2>1. IsFiniteSet(Inos)
    BY Consts, FS_Interval
  <2>2. FreeIn(iu[p].adr) \in SUBSET Inos
    BY DEF FreeIn
  <2>3. IsFiniteSet(FreeIn(iu[p].adr))
    BY <2>1, <2>2, FS_Subset
  <2> QED BY <2>3, FS_CardinalityType
<1>5. Len(sinode) \in Nat /\ NICINOD \in Nat
  BY <1>1, Consts
<1> DEFINE room == IF NICINOD - Len(sinode) > 1 THEN NICINOD - Len(sinode) ELSE 1
           c == Cardinality(FreeIn(iu[p].adr))
           n == IF room < c THEN room ELSE c
<1>6. n \in Nat
  BY <1>4, <1>5
<1>7. \/ \E l \in [1 .. n -> FreeIn(iu[p].adr)] : sinode' = sinode \o l
      \/ sinode' = sinode
  BY DEF IallocScan
<1> HIDE DEF n
<1> QED BY <1>1, <1>3, <1>6, <1>7

LEMMA IallocInv1 ==
    ASSUME InodeInv, NEW p \in IProcs, Ialloc(p), silock # 0
    PROVE  InodeInv'
<1> DEFINE r0 == iu[p]
           r == [r0 EXCEPT !.pc = "ialloc_sleep"]
<1>1. /\ r0.pc \in {"ialloc", "ialloc_woken"}
      /\ iu' = [iu EXCEPT ![p] = r]
      /\ UNCHANGED <<itab, dino, dir>>
  BY DEF Ialloc, At
<1>2. r0 \in IuRec /\ Local(dir, r0) /\ Knows(itab, dir, r0)
  BY Here
<1>3. r \in IuRec
  <2>1. "ialloc_sleep" \in Pcs
    BY <1>1, <1>2, Values DEF IuRec
  <2> QED BY <1>2, <2>1 DEF IuRec
<1>4. /\ r.pc = "ialloc_sleep" /\ r.op = r0.op /\ r.name = r0.name /\ r.ino = r0.ino /\ r.ip = r0.ip /\ r.tgt = r0.tgt
      /\ r.pp = r0.pp /\ r.ret = r0.ret /\ r.err = r0.err /\ r.fd = r0.fd /\ r.wfd = r0.wfd
  BY <1>2 DEF IuRec
<1> HIDE DEF r
<1>5. Local(dir, r)
  BY <1>1, <1>2, <1>4, Consts, SMTT(60) DEF Local, Goal, Igets, Frees, Locked, Plocks, Without, MayFail, Iallocs
<1>6. Knows(itab, dir, r)
  BY <1>1, <1>2, <1>4, Consts, SMTT(60) DEF Knows, Holds, Igets, Frees, Locked, Plocks, Local, Goal, Without, MayFail
<1>7. SameLinks(r0, r)
  BY <1>1, <1>2, <1>4 DEF SameLinks, Linked, Made, Plocks, Local
<1>8. \A t \in Slots : StillSlot(r0, r, t)
  BY <1>1, <1>2, <1>4, Consts, SMTT(60) DEF StillSlot, Refs, One, Holds, Locked, Frees, Pp, Local, Goal, Without, Igets, Iallocs
<1>9. Sound(itab, dino, dir, [iu EXCEPT ![p] = r])
  BY <1>3, <1>5, <1>6, <1>7, <1>8, Here, Unmoved
<1>20. sinode' \in Seq(FileInos)
  BY Here, GetfsType DEF Ialloc
<1> QED BY <1>1, <1>9, <1>20, Here DEF InodeInv

LEMMA IallocInv2 ==
    ASSUME InodeInv, NEW p \in IProcs, Ialloc(p), silock = 0
    PROVE  InodeInv'
<1> DEFINE r0 == iu[p]
           r == [r0 EXCEPT !.pc = "ialoop"]
<1>1. /\ r0.pc \in {"ialloc", "ialloc_woken"}
      /\ iu' = [iu EXCEPT ![p] = r]
      /\ UNCHANGED <<itab, dino, dir>>
  BY DEF Ialloc, At
<1>2. r0 \in IuRec /\ Local(dir, r0) /\ Knows(itab, dir, r0)
  BY Here
<1>3. r \in IuRec
  <2>1. "ialoop" \in Pcs
    BY <1>1, <1>2, Values DEF IuRec
  <2> QED BY <1>2, <2>1 DEF IuRec
<1>4. /\ r.pc = "ialoop" /\ r.op = r0.op /\ r.name = r0.name /\ r.ino = r0.ino /\ r.ip = r0.ip /\ r.tgt = r0.tgt
      /\ r.pp = r0.pp /\ r.ret = r0.ret /\ r.err = r0.err /\ r.fd = r0.fd /\ r.wfd = r0.wfd
  BY <1>2 DEF IuRec
<1> HIDE DEF r
<1>5. Local(dir, r)
  BY <1>1, <1>2, <1>4, Consts, SMTT(60) DEF Local, Goal, Igets, Frees, Locked, Plocks, Without, MayFail, Iallocs
<1>6. Knows(itab, dir, r)
  BY <1>1, <1>2, <1>4, Consts, SMTT(60) DEF Knows, Holds, Igets, Frees, Locked, Plocks, Local, Goal, Without, MayFail
<1>7. SameLinks(r0, r)
  BY <1>1, <1>2, <1>4 DEF SameLinks, Linked, Made, Plocks, Local
<1>8. \A t \in Slots : StillSlot(r0, r, t)
  BY <1>1, <1>2, <1>4, Consts, SMTT(60) DEF StillSlot, Refs, One, Holds, Locked, Frees, Pp, Local, Goal, Without, Igets, Iallocs
<1>9. Sound(itab, dino, dir, [iu EXCEPT ![p] = r])
  BY <1>3, <1>5, <1>6, <1>7, <1>8, Here, Unmoved
<1>20. sinode' \in Seq(FileInos)
  BY Here, GetfsType DEF Ialloc
<1> QED BY <1>1, <1>9, <1>20, Here DEF InodeInv

LEMMA IallocLoopInv1 ==
    ASSUME InodeInv, NEW p \in IProcs, IallocLoop(p), sinode # <<>>
    PROVE  InodeInv'
<1> DEFINE r0 == iu[p]
           i == Last(sinode)
           r == [r0 EXCEPT !.ino = i, !.ret = "iagot", !.pc = "iget"]
<1>1. /\ r0.pc = "ialoop"
      /\ iu' = [iu EXCEPT ![p] = r]
      /\ UNCHANGED <<itab, dino, dir>>
  BY DEF IallocLoop, At
<1>2. r0 \in IuRec /\ Local(dir, r0) /\ Knows(itab, dir, r0)
  BY Here
<1>10. i \in Inos /\ i # ROOT /\ i \in 0 .. NInos /\ Front(sinode) \in Seq(FileInos)
  <2>1. sinode \in Seq(FileInos)
    BY Here
  <2>2. i \in FileInos /\ Front(sinode) \in Seq(FileInos)
    BY <2>1, LastFront
  <2> QED BY <2>2, Consts DEF FileInos
<1> HIDE DEF i
<1>3. r \in IuRec
  <2>1. i \in 0 .. NInos /\ "iget" \in Pcs
    BY <1>1, <1>2, <1>10, Values DEF IuRec
  <2> QED BY <1>2, <2>1 DEF IuRec
<1>4. /\ r.pc = "iget" /\ r.op = r0.op /\ r.name = r0.name /\ r.ino = i /\ r.ip = r0.ip /\ r.tgt = r0.tgt
      /\ r.pp = r0.pp /\ r.ret = "iagot" /\ r.err = r0.err /\ r.fd = r0.fd /\ r.wfd = r0.wfd
  BY <1>2 DEF IuRec
<1> HIDE DEF r
<1>5. Local(dir, r)
  BY <1>1, <1>2, <1>10, <1>4, Consts, SMTT(60) DEF Local, Goal, Igets, Frees, Locked, Plocks, Without, MayFail, Iallocs
<1>6. Knows(itab, dir, r)
  BY <1>1, <1>2, <1>10, <1>4, Consts, SMTT(60) DEF Knows, Holds, Igets, Frees, Locked, Plocks, Local, Goal, Without, MayFail
<1>7. SameLinks(r0, r)
  BY <1>1, <1>2, <1>10, <1>4 DEF SameLinks, Linked, Made, Plocks, Local
<1>8. \A t \in Slots : StillSlot(r0, r, t)
  BY <1>1, <1>2, <1>10, <1>4, Consts, SMTT(60) DEF StillSlot, Refs, One, Holds, Locked, Frees, Pp, Local, Goal, Without, Igets, Iallocs
<1>9. Sound(itab, dino, dir, [iu EXCEPT ![p] = r])
  BY <1>3, <1>5, <1>6, <1>7, <1>8, Here, Unmoved
<1>20. sinode' = Front(sinode)
  BY DEF IallocLoop
<1> QED BY <1>1, <1>9, <1>10, <1>20, Here DEF InodeInv

LEMMA IallocLoopInv2 ==
    ASSUME InodeInv, NEW p \in IProcs, IallocLoop(p), sinode = <<>>
    PROVE  InodeInv'
<1> DEFINE r0 == iu[p]
           r == [r0 EXCEPT !.adr = 1, !.pc = "iscan"]
<1>1. /\ r0.pc = "ialoop"
      /\ iu' = [iu EXCEPT ![p] = r]
      /\ UNCHANGED <<itab, dino, dir, sinode>>
  BY DEF IallocLoop, At
<1>2. r0 \in IuRec /\ Local(dir, r0) /\ Knows(itab, dir, r0)
  BY Here
<1>3. r \in IuRec
  <2>1. 1 \in Nat /\ "iscan" \in Pcs
    BY <1>1, <1>2, Values DEF IuRec
  <2> QED BY <1>2, <2>1 DEF IuRec
<1>4. /\ r.pc = "iscan" /\ r.op = r0.op /\ r.name = r0.name /\ r.ino = r0.ino /\ r.ip = r0.ip /\ r.tgt = r0.tgt
      /\ r.pp = r0.pp /\ r.ret = r0.ret /\ r.err = r0.err /\ r.fd = r0.fd /\ r.wfd = r0.wfd
  BY <1>2 DEF IuRec
<1> HIDE DEF r
<1>5. Local(dir, r)
  BY <1>1, <1>2, <1>4, Consts, SMTT(60) DEF Local, Goal, Igets, Frees, Locked, Plocks, Without, MayFail, Iallocs
<1>6. Knows(itab, dir, r)
  BY <1>1, <1>2, <1>4, Consts, SMTT(60) DEF Knows, Holds, Igets, Frees, Locked, Plocks, Local, Goal, Without, MayFail
<1>7. SameLinks(r0, r)
  BY <1>1, <1>2, <1>4 DEF SameLinks, Linked, Made, Plocks, Local
<1>8. \A t \in Slots : StillSlot(r0, r, t)
  BY <1>1, <1>2, <1>4, Consts, SMTT(60) DEF StillSlot, Refs, One, Holds, Locked, Frees, Pp, Local, Goal, Without, Igets, Iallocs
<1>9. Sound(itab, dino, dir, [iu EXCEPT ![p] = r])
  BY <1>3, <1>5, <1>6, <1>7, <1>8, Here, Unmoved
<1> QED BY <1>1, <1>9, Here DEF InodeInv

LEMMA IallocScanInv1 ==
    ASSUME InodeInv, NEW p \in IProcs, IallocScan(p), iu' = [iu EXCEPT ![p].adr = iu[p].adr + 1]
    PROVE  InodeInv'
<1> DEFINE r0 == iu[p]
           r == [r0 EXCEPT !.adr = r0.adr + 1]
<1>1. /\ r0.pc = "iscan"
      /\ iu' = [iu EXCEPT ![p] = r]
      /\ UNCHANGED <<itab, dino, dir>>
  BY DEF IallocScan, At
<1>2. r0 \in IuRec /\ Local(dir, r0) /\ Knows(itab, dir, r0)
  BY Here
<1>3. r \in IuRec
  <2>1. r0.adr + 1 \in Nat
    BY <1>1, <1>2, Values DEF IuRec
  <2> QED BY <1>2, <2>1 DEF IuRec
<1>4. /\ r.pc = r0.pc /\ r.op = r0.op /\ r.name = r0.name /\ r.ino = r0.ino /\ r.ip = r0.ip /\ r.tgt = r0.tgt
      /\ r.pp = r0.pp /\ r.ret = r0.ret /\ r.err = r0.err /\ r.fd = r0.fd /\ r.wfd = r0.wfd
  BY <1>2 DEF IuRec
<1> HIDE DEF r
<1>5. Local(dir, r)
  BY <1>1, <1>2, <1>4, Consts, SMTT(60) DEF Local, Goal, Igets, Frees, Locked, Plocks, Without, MayFail, Iallocs
<1>6. Knows(itab, dir, r)
  BY <1>1, <1>2, <1>4, Consts, SMTT(60) DEF Knows, Holds, Igets, Frees, Locked, Plocks, Local, Goal, Without, MayFail
<1>7. SameLinks(r0, r)
  BY <1>1, <1>2, <1>4 DEF SameLinks, Linked, Made, Plocks, Local
<1>8. \A t \in Slots : StillSlot(r0, r, t)
  BY <1>1, <1>2, <1>4, Consts, SMTT(60) DEF StillSlot, Refs, One, Holds, Locked, Frees, Pp, Local, Goal, Without, Igets, Iallocs
<1>9. Sound(itab, dino, dir, [iu EXCEPT ![p] = r])
  BY <1>3, <1>5, <1>6, <1>7, <1>8, Here, Unmoved
<1>20. sinode' \in Seq(FileInos)
  BY ScanType
<1> QED BY <1>1, <1>9, <1>20, Here DEF InodeInv

LEMMA SyncIInv ==
    ASSUME InodeInv, NEW p \in IProcs, SyncI(p)
    PROVE  InodeInv'
<1> DEFINE r0 == iu[p]
           r == [r0 EXCEPT !.op = "sync", !.adr = 0, !.pc = "sync"]
<1>1. /\ r0.pc = "user"
      /\ iu' = [iu EXCEPT ![p] = r]
      /\ UNCHANGED <<itab, dino, dir, sinode>>
  BY DEF SyncI, At
<1>2. r0 \in IuRec /\ Local(dir, r0) /\ Knows(itab, dir, r0)
  BY Here
<1>3. r \in IuRec
  <2>1. 0 \in Nat /\ "sync" \in Pcs
    BY <1>1, <1>2, Values DEF IuRec
  <2> QED BY <1>2, <2>1 DEF IuRec
<1>4. /\ r.pc = "sync" /\ r.op = "sync" /\ r.name = r0.name /\ r.ino = r0.ino /\ r.ip = r0.ip /\ r.tgt = r0.tgt
      /\ r.pp = r0.pp /\ r.ret = r0.ret /\ r.err = r0.err /\ r.fd = r0.fd /\ r.wfd = r0.wfd
  BY <1>2 DEF IuRec
<1> HIDE DEF r
<1>5. Local(dir, r)
  BY <1>1, <1>2, <1>4, Consts, SMTT(60) DEF Local, Goal, Igets, Frees, Locked, Plocks, Without, MayFail, Iallocs
<1>6. Knows(itab, dir, r)
  BY <1>1, <1>2, <1>4, Consts, SMTT(60) DEF Knows, Holds, Igets, Frees, Locked, Plocks, Local, Goal, Without, MayFail
<1>7. SameLinks(r0, r)
  BY <1>1, <1>2, <1>4 DEF SameLinks, Linked, Made, Plocks, Local
<1>8. \A t \in Slots : StillSlot(r0, r, t)
  BY <1>1, <1>2, <1>4, Consts, SMTT(60) DEF StillSlot, Refs, One, Holds, Locked, Frees, Pp, Local, Goal, Without, Igets, Iallocs
<1>9. Sound(itab, dino, dir, [iu EXCEPT ![p] = r])
  BY <1>3, <1>5, <1>6, <1>7, <1>8, Here, Unmoved
<1> QED BY <1>1, <1>9, Here DEF InodeInv

LEMMA SyncNextInv1 ==
    ASSUME InodeInv, NEW p \in IProcs, At(p, "sync"), UNCHANGED <<itab, dino, dir, sinode>>,
           iu' = [iu EXCEPT ![p].adr = iu[p].adr + 1]
    PROVE  InodeInv'
<1> DEFINE r0 == iu[p]
           r == [r0 EXCEPT !.adr = r0.adr + 1]
<1>1. /\ r0.pc = "sync"
      /\ iu' = [iu EXCEPT ![p] = r]
      /\ UNCHANGED <<itab, dino, dir, sinode>>
  BY DEF At
<1>2. r0 \in IuRec /\ Local(dir, r0) /\ Knows(itab, dir, r0)
  BY Here
<1>3. r \in IuRec
  <2>1. r0.adr + 1 \in Nat
    BY <1>1, <1>2, Values DEF IuRec
  <2> QED BY <1>2, <2>1 DEF IuRec
<1>4. /\ r.pc = r0.pc /\ r.op = r0.op /\ r.name = r0.name /\ r.ino = r0.ino /\ r.ip = r0.ip /\ r.tgt = r0.tgt
      /\ r.pp = r0.pp /\ r.ret = r0.ret /\ r.err = r0.err /\ r.fd = r0.fd /\ r.wfd = r0.wfd
  BY <1>2 DEF IuRec
<1> HIDE DEF r
<1>5. Local(dir, r)
  BY <1>1, <1>2, <1>4, Consts, SMTT(60) DEF Local, Goal, Igets, Frees, Locked, Plocks, Without, MayFail, Iallocs
<1>6. Knows(itab, dir, r)
  BY <1>1, <1>2, <1>4, Consts, SMTT(60) DEF Knows, Holds, Igets, Frees, Locked, Plocks, Local, Goal, Without, MayFail
<1>7. SameLinks(r0, r)
  BY <1>1, <1>2, <1>4 DEF SameLinks, Linked, Made, Plocks, Local
<1>8. \A t \in Slots : StillSlot(r0, r, t)
  BY <1>1, <1>2, <1>4, Consts, SMTT(60) DEF StillSlot, Refs, One, Holds, Locked, Frees, Pp, Local, Goal, Without, Igets, Iallocs
<1>9. Sound(itab, dino, dir, [iu EXCEPT ![p] = r])
  BY <1>3, <1>5, <1>6, <1>7, <1>8, Here, Unmoved
<1> QED BY <1>1, <1>9, Here DEF InodeInv

LEMMA SyncNextInv3 ==
    ASSUME InodeInv, NEW p \in IProcs, At(p, "sync"), UNCHANGED <<itab, dino, dir, sinode>>, iu' = Return(iu, p)
    PROVE  InodeInv'
<1> DEFINE r0 == iu[p]
           r == [Idle EXCEPT !.fd = r0.fd, !.wfd = r0.wfd]
<1>1. /\ r0.pc = "sync"
      /\ iu' = [iu EXCEPT ![p] = r]
      /\ UNCHANGED <<itab, dino, dir, sinode>>
  BY DEF At, Return
<1>2. r0 \in IuRec /\ Local(dir, r0) /\ Knows(itab, dir, r0)
  BY Here
<1>3. r \in IuRec
  <2>1. r0.fd \in 0 .. NINODE /\ r0.wfd \in 0 .. NINODE
    BY <1>1, <1>2, Values DEF IuRec
  <2> QED BY <1>2, <2>1, Values, ZenonT(60) DEF IuRec, Idle
<1>4. /\ r.pc = "user" /\ r.op = "none" /\ r.name = "none" /\ r.ino = 0 /\ r.ip = 0 /\ r.tgt = 0
      /\ r.pp = FALSE /\ r.ret = "none" /\ r.err = FALSE /\ r.fd = r0.fd /\ r.wfd = r0.wfd
  BY <1>2 DEF IuRec, Idle
<1> HIDE DEF r
<1>5. Local(dir, r)
  BY <1>1, <1>2, <1>4, Consts, SMTT(60) DEF Local, Goal, Igets, Frees, Locked, Plocks, Without, MayFail, Iallocs
<1>6. Knows(itab, dir, r)
  BY <1>1, <1>2, <1>4, Consts, SMTT(60) DEF Knows, Holds, Igets, Frees, Locked, Plocks, Local, Goal, Without, MayFail
<1>7. SameLinks(r0, r)
  BY <1>1, <1>2, <1>4 DEF SameLinks, Linked, Made, Plocks, Local
<1>8. \A t \in Slots : StillSlot(r0, r, t)
  BY <1>1, <1>2, <1>4, Consts, SMTT(60) DEF StillSlot, Refs, One, Holds, Locked, Frees, Pp, Local, Goal, Without, Igets, Iallocs
<1>9. Sound(itab, dino, dir, [iu EXCEPT ![p] = r])
  BY <1>3, <1>5, <1>6, <1>7, <1>8, Here, Unmoved
<1> QED BY <1>1, <1>9, Here DEF InodeInv

LEMMA UnlinkInv1 ==
    ASSUME InodeInv, NEW p \in IProcs, At(p, "unlink"), iu[p].ip = 0, UNCHANGED <<itab, dino, dir, sinode>>,
           iu' = [iu EXCEPT ![p].pc = "putpp"]
    PROVE  InodeInv'
<1> DEFINE r0 == iu[p]
           r == [r0 EXCEPT !.pc = "putpp"]
<1>1. /\ r0.pc = "unlink" /\ r0.ip = 0
      /\ iu' = [iu EXCEPT ![p] = r]
      /\ UNCHANGED <<itab, dino, dir, sinode>>
  BY DEF At
<1>2. r0 \in IuRec /\ Local(dir, r0) /\ Knows(itab, dir, r0)
  BY Here
<1>3. r \in IuRec
  <2>1. "putpp" \in Pcs
    BY <1>1, <1>2, Values DEF IuRec
  <2> QED BY <1>2, <2>1 DEF IuRec
<1>4. /\ r.pc = "putpp" /\ r.op = r0.op /\ r.name = r0.name /\ r.ino = r0.ino /\ r.ip = r0.ip /\ r.tgt = r0.tgt
      /\ r.pp = r0.pp /\ r.ret = r0.ret /\ r.err = r0.err /\ r.fd = r0.fd /\ r.wfd = r0.wfd
  BY <1>2 DEF IuRec
<1> HIDE DEF r
<1>5. Local(dir, r)
  BY <1>1, <1>2, <1>4, Consts, SMTT(60) DEF Local, Goal, Igets, Frees, Locked, Plocks, Without, MayFail, Iallocs
<1>6. Knows(itab, dir, r)
  BY <1>1, <1>2, <1>4, Consts, SMTT(60) DEF Knows, Holds, Igets, Frees, Locked, Plocks, Local, Goal, Without, MayFail
<1>7. SameLinks(r0, r)
  BY <1>1, <1>2, <1>4 DEF SameLinks, Linked, Made, Plocks, Local
<1>8. \A t \in Slots : StillSlot(r0, r, t)
  BY <1>1, <1>2, <1>4, Consts, SMTT(60) DEF StillSlot, Refs, One, Holds, Locked, Frees, Pp, Local, Goal, Without, Igets, Iallocs
<1>9. Sound(itab, dino, dir, [iu EXCEPT ![p] = r])
  BY <1>3, <1>5, <1>6, <1>7, <1>8, Here, Unmoved
<1> QED BY <1>1, <1>9, Here DEF InodeInv

LEMMA IallocGotInv1 ==
    ASSUME InodeInv, NEW p \in IProcs, At(p, "iagot"), iu[p].ip = 0, UNCHANGED <<itab, dino, dir, sinode>>,
           iu' = [iu EXCEPT ![p].pc = "putpp"]
    PROVE  InodeInv'
<1> DEFINE r0 == iu[p]
           r == [r0 EXCEPT !.pc = "putpp"]
<1>1. /\ r0.pc = "iagot" /\ r0.ip = 0
      /\ iu' = [iu EXCEPT ![p] = r]
      /\ UNCHANGED <<itab, dino, dir, sinode>>
  BY DEF At
<1>2. r0 \in IuRec /\ Local(dir, r0) /\ Knows(itab, dir, r0)
  BY Here
<1>3. r \in IuRec
  <2>1. "putpp" \in Pcs
    BY <1>1, <1>2, Values DEF IuRec
  <2> QED BY <1>2, <2>1 DEF IuRec
<1>4. /\ r.pc = "putpp" /\ r.op = r0.op /\ r.name = r0.name /\ r.ino = r0.ino /\ r.ip = r0.ip /\ r.tgt = r0.tgt
      /\ r.pp = r0.pp /\ r.ret = r0.ret /\ r.err = r0.err /\ r.fd = r0.fd /\ r.wfd = r0.wfd
  BY <1>2 DEF IuRec
<1> HIDE DEF r
<1>5. Local(dir, r)
  BY <1>1, <1>2, <1>4, Consts, SMTT(60) DEF Local, Goal, Igets, Frees, Locked, Plocks, Without, MayFail, Iallocs
<1>6. Knows(itab, dir, r)
  BY <1>1, <1>2, <1>4, Consts, SMTT(60) DEF Knows, Holds, Igets, Frees, Locked, Plocks, Local, Goal, Without, MayFail
<1>7. SameLinks(r0, r)
  BY <1>1, <1>2, <1>4 DEF SameLinks, Linked, Made, Plocks, Local
<1>8. \A t \in Slots : StillSlot(r0, r, t)
  BY <1>1, <1>2, <1>4, Consts, SMTT(60) DEF StillSlot, Refs, One, Holds, Locked, Frees, Pp, Local, Goal, Without, Igets, Iallocs
<1>9. Sound(itab, dino, dir, [iu EXCEPT ![p] = r])
  BY <1>3, <1>5, <1>6, <1>7, <1>8, Here, Unmoved
<1> QED BY <1>1, <1>9, Here DEF InodeInv

LEMMA NamedInv1 ==
    ASSUME InodeInv, NEW p \in IProcs, At(p, "named"), iu[p].ip = 0, iu[p].tgt = 0, UNCHANGED <<itab, dino, dir, sinode>>,
           iu' = [iu EXCEPT ![p].pc = "done"]
    PROVE  InodeInv'
<1> DEFINE r0 == iu[p]
           r == [r0 EXCEPT !.pc = "done"]
<1>1. /\ r0.pc = "named" /\ r0.ip = 0 /\ r0.tgt = 0
      /\ iu' = [iu EXCEPT ![p] = r]
      /\ UNCHANGED <<itab, dino, dir, sinode>>
  BY DEF At
<1>2. r0 \in IuRec /\ Local(dir, r0) /\ Knows(itab, dir, r0)
  BY Here
<1>3. r \in IuRec
  <2>1. "done" \in Pcs
    BY <1>1, <1>2, Values DEF IuRec
  <2> QED BY <1>2, <2>1 DEF IuRec
<1>4. /\ r.pc = "done" /\ r.op = r0.op /\ r.name = r0.name /\ r.ino = r0.ino /\ r.ip = r0.ip /\ r.tgt = r0.tgt
      /\ r.pp = r0.pp /\ r.ret = r0.ret /\ r.err = r0.err /\ r.fd = r0.fd /\ r.wfd = r0.wfd
  BY <1>2 DEF IuRec
<1> HIDE DEF r
<1>5. Local(dir, r)
  BY <1>1, <1>2, <1>4, Consts, SMTT(60) DEF Local, Goal, Igets, Frees, Locked, Plocks, Without, MayFail, Iallocs
<1>6. Knows(itab, dir, r)
  BY <1>1, <1>2, <1>4, Consts, SMTT(60) DEF Knows, Holds, Igets, Frees, Locked, Plocks, Local, Goal, Without, MayFail
<1>7. SameLinks(r0, r)
  BY <1>1, <1>2, <1>4 DEF SameLinks, Linked, Made, Plocks, Local
<1>8. \A t \in Slots : StillSlot(r0, r, t)
  BY <1>1, <1>2, <1>4, Consts, SMTT(60) DEF StillSlot, Refs, One, Holds, Locked, Frees, Pp, Local, Goal, Without, Igets, Iallocs
<1>9. Sound(itab, dino, dir, [iu EXCEPT ![p] = r])
  BY <1>3, <1>5, <1>6, <1>7, <1>8, Here, Unmoved
<1> QED BY <1>1, <1>9, Here DEF InodeInv

LEMMA NamedInv2 ==
    ASSUME InodeInv, NEW p \in IProcs, At(p, "named"), iu[p].ip = 0, iu[p].tgt # 0, UNCHANGED <<itab, dino, dir, sinode>>,
           iu' = [iu EXCEPT ![p].ip = iu[p].tgt, ![p].tgt = 0, ![p].pc = "plock"]
    PROVE  InodeInv'
<1> DEFINE r0 == iu[p]
           r == [r0 EXCEPT !.ip = r0.tgt, !.tgt = 0, !.pc = "plock"]
<1>1. /\ r0.pc = "named" /\ r0.ip = 0 /\ r0.tgt # 0
      /\ iu' = [iu EXCEPT ![p] = r]
      /\ UNCHANGED <<itab, dino, dir, sinode>>
  BY DEF At
<1>2. r0 \in IuRec /\ Local(dir, r0) /\ Knows(itab, dir, r0)
  BY Here
<1>3. r \in IuRec
  <2>1. r0.tgt \in 0 .. NINODE /\ 0 \in 0 .. NINODE /\ "plock" \in Pcs
    BY <1>1, <1>2, Values DEF IuRec
  <2> QED BY <1>2, <2>1, ZenonT(60) DEF IuRec
<1>4. /\ r.pc = "plock" /\ r.op = r0.op /\ r.name = r0.name /\ r.ino = r0.ino /\ r.ip = r0.tgt /\ r.tgt = 0
      /\ r.pp = r0.pp /\ r.ret = r0.ret /\ r.err = r0.err /\ r.fd = r0.fd /\ r.wfd = r0.wfd
  BY <1>2 DEF IuRec
<1> HIDE DEF r
<1>5. Local(dir, r)
  BY <1>1, <1>2, <1>4, Consts, SMTT(60) DEF Local, Goal, Igets, Frees, Locked, Plocks, Without, MayFail, Iallocs
<1>6. Knows(itab, dir, r)
  BY <1>1, <1>2, <1>4, Consts, SMTT(60) DEF Knows, Holds, Igets, Frees, Locked, Plocks, Local, Goal, Without, MayFail
<1>7. SameLinks(r0, r)
  BY <1>1, <1>2, <1>4 DEF SameLinks, Linked, Made, Plocks, Local
<1>8. \A t \in Slots : StillSlot(r0, r, t)
  BY <1>1, <1>2, <1>4, Consts, SMTT(60) DEF StillSlot, Refs, One, Holds, Locked, Frees, Pp, Local, Goal, Without, Igets, Iallocs
<1>9. Sound(itab, dino, dir, [iu EXCEPT ![p] = r])
  BY <1>3, <1>5, <1>6, <1>7, <1>8, Here, Unmoved
<1> QED BY <1>1, <1>9, Here DEF InodeInv

LEMMA IgetInv1 ==
    ASSUME InodeInv, NEW p \in IProcs, At(p, "iget") \/ At(p, "iget_woken"), Matches(p) = {}, UNCHANGED <<itab, dino, dir, sinode>>,
           iu' = IgetReturns(p, 0)
    PROVE  InodeInv'
<1> DEFINE r0 == iu[p]
           r == [r0 EXCEPT !.ip = 0, !.err = TRUE, !.ino = 0, !.ret = "none", !.pc = r0.ret]
<1>1. /\ r0.pc \in {"iget", "iget_woken"}
      /\ iu' = [iu EXCEPT ![p] = r]
      /\ UNCHANGED <<itab, dino, dir, sinode>>
  BY DEF At, IgetReturns
<1>2. r0 \in IuRec /\ Local(dir, r0) /\ Knows(itab, dir, r0)
  BY Here
<1>10. r0.ret \in {"named", "unlink", "iagot"}
  <2>1. r0.ino # ROOT
    BY Here, Consts DEF Matches, Table, RootEntry
  <2> QED BY <1>1, <1>2, <2>1 DEF Local, Igets
<1>3. r \in IuRec
  <2>1. 0 \in 0 .. NINODE /\ 0 \in 0 .. NInos /\ r0.ret \in Pcs
    BY <1>1, <1>2, <1>10, Values DEF IuRec
  <2> QED BY <1>2, <2>1 DEF IuRec
<1>4. /\ r.pc = r0.ret /\ r.op = r0.op /\ r.name = r0.name /\ r.ino = 0 /\ r.ip = 0 /\ r.tgt = r0.tgt
      /\ r.pp = r0.pp /\ r.ret = "none" /\ r.err = TRUE /\ r.fd = r0.fd /\ r.wfd = r0.wfd
  BY <1>2 DEF IuRec
<1> HIDE DEF r
<1>5. Local(dir, r)
  BY <1>1, <1>2, <1>10, <1>4, Consts, SMTT(60) DEF Local, Goal, Igets, Frees, Locked, Plocks, Without, MayFail, Iallocs
<1>6. Knows(itab, dir, r)
  BY <1>1, <1>2, <1>10, <1>4, Consts, SMTT(60) DEF Knows, Holds, Igets, Frees, Locked, Plocks, Local, Goal, Without, MayFail
<1>7. SameLinks(r0, r)
  BY <1>1, <1>2, <1>10, <1>4 DEF SameLinks, Linked, Made, Plocks, Local
<1>8. \A t \in Slots : StillSlot(r0, r, t)
  BY <1>1, <1>2, <1>10, <1>4, Consts, SMTT(60) DEF StillSlot, Refs, One, Holds, Locked, Frees, Pp, Local, Goal, Without, Igets, Iallocs
<1>9. Sound(itab, dino, dir, [iu EXCEPT ![p] = r])
  BY <1>3, <1>5, <1>6, <1>7, <1>8, Here, Unmoved
<1> QED BY <1>1, <1>9, Here DEF InodeInv
(* The kernel has a reference of its own to the root.                      *)
LEMMA RootRefs ==
    ASSUME InodeInv, NEW p \in IProcs
    PROVE  itab[ROOT].count >= 1 + Refs(iu[p], ROOT)
<1>1. iu \in [IProcs -> IuRec] /\ iu[p] \in IuRec /\ ROOT \in Slots
  BY Here, Consts
<1> DEFINE r == [iu[p] EXCEPT !.ip = 0, !.tgt = 0, !.fd = 0, !.wfd = 0, !.pp = FALSE]
           w == [iu EXCEPT ![p] = r]
<1>2. r \in IuRec
  BY <1>1, Values, ZenonT(60) DEF IuRec
<1>3. Refs(r, ROOT) = 0
  <2>1. r.ip = 0 /\ r.tgt = 0 /\ r.fd = 0 /\ r.wfd = 0 /\ r.pp = FALSE /\ 0 # ROOT
    BY <1>1, Consts DEF IuRec
  <2> QED BY <2>1, RefsNone
<1> HIDE DEF r
<1>4. AllRefs(w, ROOT) = AllRefs(iu, ROOT) - Refs(iu[p], ROOT) + Refs(r, ROOT)
  BY <1>1, <1>2, RefsMove, Zenon
<1>5. AllRefs(iu, ROOT) \in Nat /\ Refs(iu[p], ROOT) \in Nat
  BY <1>1, RefsMove, RefsNone
<1> HIDE DEF w
<1>6. AllRefs(w, ROOT) >= 1
  <2>1. \A h, y : Count(IProcs, h, y) \in Nat
    BY Consts, CountIsNat
  <2> QED BY <2>1 DEF AllRefs
<1>7. itab[ROOT].count = AllRefs(iu, ROOT)
  BY <1>1, Here DEF Sound, RefsAdd
<1> QED BY <1>3, <1>4, <1>5, <1>6, <1>7

LEMMA PlockInv1 ==
    ASSUME InodeInv, NEW p \in IProcs, PlockI(p), itab[iu[p].ip].lock
    PROVE  InodeInv'
<1> DEFINE r0 == iu[p]
           s == r0.ip
           e == itab[s]
           e1 == [e EXCEPT !.want = TRUE]
           r == [r0 EXCEPT !.pc = "plock_sleep", !.wait = s]
<1>1. /\ r0.pc \in {"plock", "plock_woken"} /\ e.lock
      /\ itab' = [itab EXCEPT ![s] = e1] /\ UNCHANGED <<dino, dir, sinode>>
      /\ iu' = [iu EXCEPT ![p] = r]
  BY DEF PlockI, At
<1>2. r0 \in IuRec /\ Local(dir, r0) /\ Knows(itab, dir, r0)
  BY Here
<1>3. s \in Slots /\ e \in EntryRec /\ Entry(e) /\ (s = ROOT => RootEntry(e)) /\ itab \in [Slots -> EntryRec]
  <2>1. s \in Slots
    BY <1>1, <1>2, Values DEF IuRec, Local, Locked, Plocks, MayFail
  <2> QED BY <2>1, Here DEF Table
<1>15. e.mode # 0 /\ e.count > 0
  BY <1>1, <1>2, <1>3 DEF Knows, Plocks, Entry, FreeEntry, EntryRec
<1>4. r \in IuRec
  <2>1. "plock_sleep" \in Pcs /\ s \in 0 .. NINODE
    BY <1>1, <1>2, <1>3, <1>15, Values, Consts DEF IuRec
  <2> QED BY <1>2, <2>1 DEF IuRec
<1>5. /\ r.pc = "plock_sleep" /\ r.op = r0.op /\ r.name = r0.name /\ r.ino = r0.ino /\ r.ip = r0.ip /\ r.tgt = r0.tgt
      /\ r.pp = r0.pp /\ r.ret = r0.ret /\ r.err = r0.err /\ r.fd = r0.fd /\ r.wfd = r0.wfd
  BY <1>2 DEF IuRec
<1>6. e1 \in EntryRec
      /\ e1.num = e.num /\ e1.count = e.count /\ e1.lock = e.lock /\ e1.mode = e.mode /\ e1.nlink = e.nlink /\ e1.chg = e.chg
  BY <1>1, <1>3, <1>15 DEF EntryRec, Unlocked
<1>7. itab'[s] = e1 /\ \A t \in Slots : t # s => itab'[t] = itab[t]
  BY <1>1, <1>3
<1> HIDE DEF r, e1
<1>8. Local(dir, r)
  BY <1>1, <1>2, <1>3, <1>5, <1>15, Consts, SMTT(60) DEF Local, Goal, Igets, Frees, Locked, Plocks, Without, MayFail, Iallocs
<1>9. TouchStep(e, e1, r0, r, s)
  <2>1. e1.count = e.count - Refs(r0, s) + Refs(r, s)
    BY <1>1, <1>2, <1>3, <1>5, <1>6, <1>15, Consts, SMTT(60) DEF EntryRec, Refs, One, Pp, Local, Without, Locked, Goal, Frees, Igets, Plocks, MayFail, Iallocs
  <2>2. SameEntry(e, e1) \/ ~e.lock \/ Holds(r0, s)
    BY <1>1, <1>6 DEF SameEntry, Holds, Locked, Frees
  <2>3. Holds(r, s) => Holds(r0, s) \/ ~e.lock
    BY <1>1, <1>2, <1>3, <1>5, <1>15, Consts DEF Holds, Locked, Frees, Local, Goal, Igets, Without
  <2> QED BY <1>1, <1>2, <1>3, <1>6, <1>15, <2>1, <2>2, <2>3 DEF TouchStep, SameInode, EntryRec, Entry, RootEntry, Knows, Plocks
<1>10. SameLinks(r0, r)
  BY <1>1, <1>2, <1>5, <1>15 DEF SameLinks, Linked, Made, Plocks, Local
<1>11. \A t \in Slots : t # s => StillSlot(r0, r, t)
  BY <1>1, <1>2, <1>3, <1>5, <1>15, Consts, SMTT(60) DEF StillSlot, Refs, One, Holds, Locked, Frees, Pp, Local, Goal, Without, Igets, Iallocs
<1>12. Knows(itab', dir, r)
  <2>1. \A t \in Slots : itab'[t].mode = itab[t].mode /\ itab'[t].num = itab[t].num
                        /\ itab'[t].nlink = itab[t].nlink /\ itab'[t].chg = itab[t].chg
    BY <1>6, <1>7
  <2>2. \A t \in Slots : Holds(r, t) => itab'[t].lock
    BY <1>1, <1>2, <1>3, <1>5, <1>6, <1>7, <1>15, Consts DEF Knows, Holds, Locked, Frees, Local, Goal, Igets, Without, Iallocs
  <2>3. /\ r.ip \in 0 .. NINODE /\ r.tgt \in 0 .. NINODE /\ r.fd \in 0 .. NINODE /\ r.wfd \in 0 .. NINODE
        /\ \A t \in 0 .. NINODE : t # 0 => t \in Slots
    BY <1>4, Values DEF IuRec
  <2> QED BY <1>1, <1>2, <1>3, <1>5, <1>6, <1>7, <1>15, <2>1, <2>2, <2>3, Consts, SMTT(60) DEF Knows, Locked, Frees, Local, Goal, Igets, Plocks, Without, MayFail, Iallocs
<1>13. Sound(itab', dino, dir, [iu EXCEPT ![p] = r])
  BY <1>1, <1>3, <1>4, <1>6, <1>8, <1>9, <1>10, <1>11, <1>12, Here, Touched
<1> QED BY <1>1, <1>13, Here DEF InodeInv

LEMMA PlockInv2 ==
    ASSUME InodeInv, NEW p \in IProcs, PlockI(p), ~itab[iu[p].ip].lock, ~(iu[p].op = "link" /\ ~iu[p].err)
    PROVE  InodeInv'
<1> DEFINE r0 == iu[p]
           s == r0.ip
           e == itab[s]
           e1 == [e EXCEPT !.lock = TRUE]
           r == [r0 EXCEPT !.pc = "iputip"]
<1>1. /\ r0.pc \in {"plock", "plock_woken"} /\ ~e.lock /\ ~(r0.op = "link" /\ ~r0.err)
      /\ itab' = [itab EXCEPT ![s] = e1] /\ UNCHANGED <<dino, dir, sinode>>
      /\ iu' = [iu EXCEPT ![p] = r]
  BY Here DEF PlockI, At
<1>2. r0 \in IuRec /\ Local(dir, r0) /\ Knows(itab, dir, r0)
  BY Here
<1>3. s \in Slots /\ e \in EntryRec /\ Entry(e) /\ (s = ROOT => RootEntry(e)) /\ itab \in [Slots -> EntryRec]
  <2>1. s \in Slots
    BY <1>1, <1>2, Values DEF IuRec, Local, Locked, Plocks, MayFail
  <2> QED BY <2>1, Here DEF Table
<1>15. e.mode # 0 /\ e.count > 0
  BY <1>1, <1>2, <1>3 DEF Knows, Plocks, Entry, FreeEntry, EntryRec
<1>4. r \in IuRec
  <2>1. "iputip" \in Pcs
    BY <1>1, <1>2, <1>3, <1>15, Values, Consts DEF IuRec
  <2> QED BY <1>2, <2>1 DEF IuRec
<1>5. /\ r.pc = "iputip" /\ r.op = r0.op /\ r.name = r0.name /\ r.ino = r0.ino /\ r.ip = r0.ip /\ r.tgt = r0.tgt
      /\ r.pp = r0.pp /\ r.ret = r0.ret /\ r.err = r0.err /\ r.fd = r0.fd /\ r.wfd = r0.wfd
  BY <1>2 DEF IuRec
<1>6. e1 \in EntryRec
      /\ e1.num = e.num /\ e1.count = e.count /\ e1.lock = TRUE /\ e1.mode = e.mode /\ e1.nlink = e.nlink /\ e1.chg = e.chg
  BY <1>1, <1>3, <1>15 DEF EntryRec, Unlocked
<1>7. itab'[s] = e1 /\ \A t \in Slots : t # s => itab'[t] = itab[t]
  BY <1>1, <1>3
<1> HIDE DEF r, e1
<1>8. Local(dir, r)
  BY <1>1, <1>2, <1>3, <1>5, <1>15, Consts, SMTT(60) DEF Local, Goal, Igets, Frees, Locked, Plocks, Without, MayFail, Iallocs
<1>9. TouchStep(e, e1, r0, r, s)
  <2>1. e1.count = e.count - Refs(r0, s) + Refs(r, s)
    BY <1>1, <1>2, <1>3, <1>5, <1>6, <1>15, Consts, SMTT(60) DEF EntryRec, Refs, One, Pp, Local, Without, Locked, Goal, Frees, Igets, Plocks, MayFail, Iallocs
  <2>2. SameEntry(e, e1) \/ ~e.lock \/ Holds(r0, s)
    BY <1>1, <1>6 DEF SameEntry, Holds, Locked, Frees
  <2>3. Holds(r, s) => Holds(r0, s) \/ ~e.lock
    BY <1>1, <1>2, <1>3, <1>5, <1>15, Consts DEF Holds, Locked, Frees, Local, Goal, Igets, Without
  <2> QED BY <1>1, <1>2, <1>3, <1>6, <1>15, <2>1, <2>2, <2>3 DEF TouchStep, SameInode, EntryRec, Entry, RootEntry, Knows, Plocks
<1>10. SameLinks(r0, r)
  BY <1>1, <1>2, <1>5, <1>15 DEF SameLinks, Linked, Made, Plocks, Local
<1>11. \A t \in Slots : t # s => StillSlot(r0, r, t)
  BY <1>1, <1>2, <1>3, <1>5, <1>15, Consts, SMTT(60) DEF StillSlot, Refs, One, Holds, Locked, Frees, Pp, Local, Goal, Without, Igets, Iallocs
<1>12. Knows(itab', dir, r)
  <2>1. \A t \in Slots : itab'[t].mode = itab[t].mode /\ itab'[t].num = itab[t].num
                        /\ itab'[t].nlink = itab[t].nlink /\ itab'[t].chg = itab[t].chg
    BY <1>6, <1>7
  <2>2. \A t \in Slots : Holds(r, t) => itab'[t].lock
    BY <1>1, <1>2, <1>3, <1>5, <1>6, <1>7, <1>15, Consts DEF Knows, Holds, Locked, Frees, Local, Goal, Igets, Without, Iallocs
  <2>3. /\ r.ip \in 0 .. NINODE /\ r.tgt \in 0 .. NINODE /\ r.fd \in 0 .. NINODE /\ r.wfd \in 0 .. NINODE
        /\ \A t \in 0 .. NINODE : t # 0 => t \in Slots
    BY <1>4, Values DEF IuRec
  <2> QED BY <1>1, <1>2, <1>3, <1>5, <1>6, <1>7, <1>15, <2>1, <2>2, <2>3, Consts, SMTT(60) DEF Knows, Locked, Frees, Local, Goal, Igets, Plocks, Without, MayFail, Iallocs
<1>13. Sound(itab', dino, dir, [iu EXCEPT ![p] = r])
  BY <1>1, <1>3, <1>4, <1>6, <1>8, <1>9, <1>10, <1>11, <1>12, Here, Touched
<1> QED BY <1>1, <1>13, Here DEF InodeInv

LEMMA IgetInv2 ==
    ASSUME InodeInv, NEW p \in IProcs, NEW s \in Slots, s \in Matches(p), itab[s].lock, IgetSleepWakes(p, s), At(p, "iget") \/ At(p, "iget_woken"),
           UNCHANGED <<dino, dir, sinode>>
    PROVE  InodeInv'
<1> DEFINE r0 == iu[p]
           e == itab[s]
           e1 == [e EXCEPT !.want = TRUE]
           r == [r0 EXCEPT !.pc = "iget_sleep", !.wait = s]
<1>1. /\ r0.pc \in {"iget", "iget_woken"} /\ e.lock /\ e.num = r0.ino
      /\ itab' = [itab EXCEPT ![s] = e1] /\ UNCHANGED <<dino, dir, sinode>>
      /\ iu' = [iu EXCEPT ![p] = r]
  BY DEF IgetSleepWakes, At, Matches
<1>2. r0 \in IuRec /\ Local(dir, r0) /\ Knows(itab, dir, r0)
  BY Here
<1>3. s \in Slots /\ e \in EntryRec /\ Entry(e) /\ (s = ROOT => RootEntry(e)) /\ itab \in [Slots -> EntryRec]
  <2>1. s \in Slots
    OBVIOUS
  <2> QED BY <2>1, Here DEF Table
<1>15. e.count > 0
  BY <1>1, <1>2, <1>3, Consts DEF Entry, FreeEntry, Local, Igets, EntryRec
<1>4. r \in IuRec
  <2>1. "iget_sleep" \in Pcs /\ s \in 0 .. NINODE
    BY <1>1, <1>2, <1>3, <1>15, Values, Consts DEF IuRec
  <2> QED BY <1>2, <2>1 DEF IuRec
<1>5. /\ r.pc = "iget_sleep" /\ r.op = r0.op /\ r.name = r0.name /\ r.ino = r0.ino /\ r.ip = r0.ip /\ r.tgt = r0.tgt
      /\ r.pp = r0.pp /\ r.ret = r0.ret /\ r.err = r0.err /\ r.fd = r0.fd /\ r.wfd = r0.wfd
  BY <1>2 DEF IuRec
<1>6. e1 \in EntryRec
      /\ e1.num = e.num /\ e1.count = e.count /\ e1.lock = e.lock /\ e1.mode = e.mode /\ e1.nlink = e.nlink /\ e1.chg = e.chg
  BY <1>1, <1>3, <1>15 DEF EntryRec, Unlocked
<1>7. itab'[s] = e1 /\ \A t \in Slots : t # s => itab'[t] = itab[t]
  BY <1>1, <1>3
<1> HIDE DEF r, e1
<1>8. Local(dir, r)
  BY <1>1, <1>2, <1>3, <1>5, <1>15, Consts, SMTT(60) DEF Local, Goal, Igets, Frees, Locked, Plocks, Without, MayFail, Iallocs
<1>9. TouchStep(e, e1, r0, r, s)
  <2>1. e1.count = e.count - Refs(r0, s) + Refs(r, s)
    BY <1>1, <1>2, <1>3, <1>5, <1>6, <1>15, Consts, SMTT(60) DEF EntryRec, Refs, One, Pp, Local, Without, Locked, Goal, Frees, Igets, Plocks, MayFail, Iallocs
  <2>2. SameEntry(e, e1) \/ ~e.lock \/ Holds(r0, s)
    BY <1>1, <1>6 DEF SameEntry, Holds, Locked, Frees
  <2>3. Holds(r, s) => Holds(r0, s) \/ ~e.lock
    BY <1>1, <1>2, <1>3, <1>5, <1>15, Consts DEF Holds, Locked, Frees, Local, Goal, Igets, Without
  <2> QED BY <1>1, <1>2, <1>3, <1>6, <1>15, <2>1, <2>2, <2>3 DEF TouchStep, SameInode, EntryRec, Entry, RootEntry, Knows, Plocks
<1>10. SameLinks(r0, r)
  BY <1>1, <1>2, <1>5, <1>15 DEF SameLinks, Linked, Made, Plocks, Local
<1>11. \A t \in Slots : t # s => StillSlot(r0, r, t)
  BY <1>1, <1>2, <1>3, <1>5, <1>15, Consts, SMTT(60) DEF StillSlot, Refs, One, Holds, Locked, Frees, Pp, Local, Goal, Without, Igets, Iallocs
<1>12. Knows(itab', dir, r)
  <2>1. \A t \in Slots : itab'[t].mode = itab[t].mode /\ itab'[t].num = itab[t].num
                        /\ itab'[t].nlink = itab[t].nlink /\ itab'[t].chg = itab[t].chg
    BY <1>6, <1>7
  <2>2. \A t \in Slots : Holds(r, t) => itab'[t].lock
    BY <1>1, <1>2, <1>3, <1>5, <1>6, <1>7, <1>15, Consts DEF Knows, Holds, Locked, Frees, Local, Goal, Igets, Without, Iallocs
  <2>3. /\ r.ip \in 0 .. NINODE /\ r.tgt \in 0 .. NINODE /\ r.fd \in 0 .. NINODE /\ r.wfd \in 0 .. NINODE
        /\ \A t \in 0 .. NINODE : t # 0 => t \in Slots
    BY <1>4, Values DEF IuRec
  <2> QED BY <1>1, <1>2, <1>3, <1>5, <1>6, <1>7, <1>15, <2>1, <2>2, <2>3, Consts, SMTT(60) DEF Knows, Locked, Frees, Local, Goal, Igets, Plocks, Without, MayFail, Iallocs
<1>13. Sound(itab', dino, dir, [iu EXCEPT ![p] = r])
  BY <1>1, <1>3, <1>4, <1>6, <1>8, <1>9, <1>10, <1>11, <1>12, Here, Touched
<1> QED BY <1>1, <1>13, Here DEF InodeInv
(* A process at the end of its call.                                       *)
LEMMA Ended ==
    ASSUME NEW a \in 0 .. NINODE, NEW b \in 0 .. NINODE
    PROVE  /\ [Idle EXCEPT !.fd = a, !.wfd = b] \in IuRec
           /\ [[Idle EXCEPT !.fd = a, !.wfd = b] EXCEPT !.pp = FALSE] \in IuRec
<1>1. Idle \in IuRec
  <2>1. "user" \in Pcs /\ 0 \in 0 .. NINODE /\ 0 \in 0 .. NInos /\ 0 \in Nat
    BY Values
  <2> QED BY <2>1 DEF Idle, IuRec
<1> QED BY <1>1 DEF IuRec

(* Process p, which has entry s locked, gives up the lock and perhaps a    *)
(* reference.                                                              *)
LEMMA Released ==
    ASSUME InodeInv, NEW p \in IProcs, NEW s \in Slots, NEW n \in Nat, NEW r \in IuRec,
           Holds(iu[p], s), ~Holds(r, s), itab[s].mode # 0,
           n > 0, n = itab[s].count - Refs(iu[p], s) + Refs(r, s),
           SameLinks(iu[p], r), \A t \in Slots : t # s => StillSlot(iu[p], r, t),
           Local(dir, r), Knows(itab, dir, r), UNCHANGED <<dino, dir, sinode>>,
           NEW e, e = [itab[s] EXCEPT !.count = n], PreleI(s, e, [iu EXCEPT ![p] = r])
    PROVE  InodeInv'
<1> DEFINE e1 == Unlocked(e)
<1>1. itab \in [Slots -> EntryRec] /\ itab[s] \in EntryRec /\ Entry(itab[s]) /\ (s = ROOT => RootEntry(itab[s]))
  BY Here DEF Table
<1>2. e1 \in EntryRec /\ SameInode(itab[s], e1) /\ e1.count = n
  BY <1>1 DEF EntryRec, Unlocked, SameInode
<1> HIDE DEF e1
<1>3. itab' = [itab EXCEPT ![s] = e1]
  BY DEF PreleI, e1
<1>4. itab'[s] = e1 /\ \A t \in Slots : t # s => itab'[t] = itab[t]
  BY <1>1, <1>3
<1>5. TouchStep(itab[s], e1, iu[p], r, s)
  <2>1. itab[s].count > 0
    BY <1>1 DEF Entry, FreeEntry, EntryRec
  <2> QED BY <1>2, <2>1 DEF TouchStep, SameInode
<1>6. Knows(itab', dir, r)
  <2>1. /\ r.ip \in 0 .. NINODE /\ r.tgt \in 0 .. NINODE /\ r.fd \in 0 .. NINODE /\ r.wfd \in 0 .. NINODE
        /\ \A t \in 0 .. NINODE : t # 0 => t \in Slots
    BY Values DEF IuRec
  <2>2. \A t \in Slots : SameInode(itab[t], itab'[t])
    BY <1>2, <1>4 DEF SameInode
  <2>3. \A t \in Slots : Holds(r, t) => itab'[t] = itab[t]
    BY <1>4
  <2>4. r.pc \in Frees \/ (r.pc = "wdir" /\ r.op = "creat") => r.ip \in Slots /\ Holds(r, r.ip)
    BY <2>1 DEF Local, Holds, Locked, Frees, MayFail
  <2>5. r.pc \in {"open1", "ctrunc", "wdir"} \cup Plocks => r.ip \in Slots
    BY <2>1 DEF Local, Locked, Frees, MayFail, Plocks
  <2>6. r.pc # "iread"
    BY DEF SameLinks
  <2>7. /\ r.pc \in Frees => itab'[r.ip].count = 1
        /\ r.pc = "itrunc" => itab'[r.ip].nlink <= 0
        /\ r.pc = "wdir" /\ r.op = "creat" => itab'[r.ip].count = 1 /\ itab'[r.ip].nlink = 1 /\ itab'[r.ip].chg
    BY <2>3, <2>4 DEF Knows, Frees
  <2>8. /\ r.pc \in {"open1", "ctrunc", "wdir"} \cup Plocks => itab'[r.ip].mode # 0
        /\ r.tgt # 0 => itab'[r.tgt].mode # 0
        /\ r.fd # 0 => itab'[r.fd].mode # 0
        /\ r.wfd # 0 => itab'[r.wfd].mode # 0
        /\ r.pc = "unlink" /\ r.ip # 0 => dir[r.name] = itab'[r.ip].num
    BY <2>1, <2>2, <2>5 DEF Knows, SameInode
  <2>9. \A t \in Slots : Holds(r, t) => itab'[t].lock
    BY <2>3 DEF Knows
  <2> QED BY <2>6, <2>7, <2>8, <2>9 DEF Knows
<1>7. Sound(itab', dino, dir, [iu EXCEPT ![p] = r])
  BY <1>2, <1>3, <1>5, <1>6, Here, Touched
<1>8. Sound(itab', dino, dir, iu')
  BY <1>7, Prele
<1> QED BY <1>8, Here DEF InodeInv

LEMMA DoneInv2 ==
    ASSUME InodeInv, NEW p \in IProcs, Done(p), iu[p].pp
    PROVE  InodeInv'
<1> DEFINE r0 == iu[p]
           s == ROOT
           n == itab[s].count - 1
           r == [[Idle EXCEPT !.fd = r0.fd, !.wfd = r0.wfd] EXCEPT !.pp = FALSE]
<1>1. /\ r0.pc \in {"done", "putpp"} /\ r0.pp
      /\ UNCHANGED <<dino, dir, sinode>>
      /\ PreleI(s, [itab[s] EXCEPT !.count = n], [iu EXCEPT ![p] = r])
  <2>1. r0.pc \in {"done", "putpp"} /\ r0.pp /\ UNCHANGED <<dino, dir, sinode>> /\ PutDir(p, Return(iu, p))
    BY DEF Done, At
  <2>2. [Return(iu, p) EXCEPT ![p].pp = FALSE] = [iu EXCEPT ![p] = r]
    <3>1. Return(iu, p) = [iu EXCEPT ![p] = [Idle EXCEPT !.fd = r0.fd, !.wfd = r0.wfd]]
      BY DEF Return
    <3> QED BY <3>1, Here
  <2> QED BY <2>1, <2>2 DEF PutDir
<1>2. r0 \in IuRec /\ Local(dir, r0) /\ Knows(itab, dir, r0)
  BY Here
<1>3. s \in Slots /\ itab[s] \in EntryRec /\ Entry(itab[s])
  <2>1. s \in Slots
    BY <1>1, <1>2, Values, Consts DEF IuRec, Local, Locked, Plocks, MayFail
  <2> QED BY <2>1, Here DEF Table
<1>4. r \in IuRec
  <2>1. r0.fd \in 0 .. NINODE /\ r0.wfd \in 0 .. NINODE
    BY <1>1, <1>2, <1>3, Values, Consts DEF IuRec
  <2> QED BY <2>1, Ended, ZenonT(60)
<1>5. /\ r.pc = "user" /\ r.op = "none" /\ r.name = "none" /\ r.ino = 0 /\ r.ip = 0 /\ r.tgt = 0
      /\ r.pp = FALSE /\ r.ret = "none" /\ r.err = FALSE /\ r.fd = r0.fd /\ r.wfd = r0.wfd
  BY <1>2 DEF IuRec, Idle
<1> HIDE DEF r
<1>6. Local(dir, r)
  BY <1>1, <1>2, <1>5, Consts, SMTT(60) DEF Local, Goal, Igets, Frees, Locked, Plocks, Without, MayFail, Iallocs
<1>7. Knows(itab, dir, r)
  BY <1>1, <1>2, <1>5, Consts, SMTT(60) DEF Knows, Holds, Igets, Frees, Locked, Plocks, Local, Goal, Without, MayFail, Iallocs
<1>8. SameLinks(r0, r)
  BY <1>1, <1>2, <1>5 DEF SameLinks, Linked, Made, Plocks, Local
<1>9. \A t \in Slots : t # s => StillSlot(r0, r, t)
  BY <1>1, <1>2, <1>3, <1>5, Consts, SMTT(60) DEF StillSlot, Refs, One, Holds, Locked, Frees, Pp, Local, Goal, Without, Igets, Iallocs
<1>10. Holds(r0, s) /\ ~Holds(r, s)
  BY <1>1, <1>2, <1>3, <1>5, Consts DEF Holds, Locked, Frees, Local, Goal, Igets, Iallocs, Without, Plocks, MayFail
<1>11. itab[s].mode # 0
  BY Here, Consts DEF Table, RootEntry
<1>12. n \in Nat /\ n > 0 /\ n = itab[s].count - Refs(r0, s) + Refs(r, s)
  <2>1. Refs(r0, s) = 1 /\ Refs(r, s) = 0
    BY <1>1, <1>2, <1>3, <1>5, Consts, SMTT(60) DEF Refs, One, Pp, Local, Goal, Without, Locked, Frees, Igets, Iallocs
  <2>2. itab[s].count >= 2 /\ itab[s].count \in Nat
    BY <1>3, <2>1, RootRefs DEF EntryRec
  <2> QED BY <2>1, <2>2
<1> HIDE DEF n
<1> QED BY <1>1, <1>3, <1>4, <1>6, <1>7, <1>8, <1>9, <1>10, <1>11, <1>12, Released

LEMMA NameiFoundInv ==
    ASSUME InodeInv, NEW p \in IProcs, NameiFound(p)
    PROVE  InodeInv'
<1> DEFINE r0 == iu[p]
           s == ROOT
           n == itab[s].count - 1
           i == dir[r0.name]
           r == [r0 EXCEPT !.ip = 0, !.ino = i, !.name = "none", !.ret = "named", !.pc = "iget"]
<1>1. /\ r0.pc = "dirread" /\ i # 0 /\ Flag(p) # 2
      /\ UNCHANGED <<dino, dir, sinode>>
      /\ PreleI(s, [itab[s] EXCEPT !.count = n], [iu EXCEPT ![p] = r])
  <2>1. [iu EXCEPT ![p].ip = 0, ![p].ino = i, ![p].name = "none", ![p].ret = "named", ![p].pc = "iget"] = [iu EXCEPT ![p] = r]
    BY Here
  <2> QED BY <2>1 DEF NameiFound, At, Found
<1>2. r0 \in IuRec /\ Local(dir, r0) /\ Knows(itab, dir, r0)
  BY Here
<1>3. s \in Slots /\ itab[s] \in EntryRec /\ Entry(itab[s])
  <2>1. s \in Slots
    BY <1>1, <1>2, Values, Consts DEF IuRec, Local, Locked, Plocks, MayFail
  <2> QED BY <2>1, Here DEF Table
<1>13. i \in Inos /\ i # ROOT /\ i \in 0 .. NInos /\ r0.op \in {"open", "creat", "link"}
  <2>1. r0.name \in Names /\ r0.op \in {"open", "creat", "link", "unlink"}
    BY <1>1, <1>2 DEF Local, Goal, Igets, Frees
  <2>2. r0.op # "unlink"
    BY <1>1 DEF Flag
  <2> QED BY <1>1, <2>1, <2>2, Here, Consts DEF FileInos
<1> HIDE DEF i
<1>4. r \in IuRec
  <2>1. 0 \in 0 .. NINODE /\ i \in 0 .. NInos /\ "iget" \in Pcs
    BY <1>1, <1>2, <1>3, <1>13, Values, Consts DEF IuRec
  <2> QED BY <1>2, <2>1 DEF IuRec
<1>5. /\ r.pc = "iget" /\ r.op = r0.op /\ r.name = "none" /\ r.ino = i /\ r.ip = 0 /\ r.tgt = r0.tgt
      /\ r.pp = r0.pp /\ r.ret = "named" /\ r.err = r0.err /\ r.fd = r0.fd /\ r.wfd = r0.wfd
  BY <1>2 DEF IuRec
<1> HIDE DEF r
<1>6. Local(dir, r)
  BY <1>1, <1>2, <1>5, <1>13, Consts, SMTT(60) DEF Local, Goal, Igets, Frees, Locked, Plocks, Without, MayFail, Iallocs
<1>7. Knows(itab, dir, r)
  BY <1>1, <1>2, <1>5, <1>13, Consts, SMTT(60) DEF Knows, Holds, Igets, Frees, Locked, Plocks, Local, Goal, Without, MayFail, Iallocs
<1>8. SameLinks(r0, r)
  BY <1>1, <1>2, <1>5, <1>13 DEF SameLinks, Linked, Made, Plocks, Local
<1>9. \A t \in Slots : t # s => StillSlot(r0, r, t)
  BY <1>1, <1>2, <1>3, <1>5, <1>13, Consts, SMTT(60) DEF StillSlot, Refs, One, Holds, Locked, Frees, Pp, Local, Goal, Without, Igets, Iallocs
<1>10. Holds(r0, s) /\ ~Holds(r, s)
  BY <1>1, <1>2, <1>3, <1>5, <1>13, Consts DEF Holds, Locked, Frees, Local, Goal, Igets, Iallocs, Without, Plocks, MayFail
<1>11. itab[s].mode # 0
  BY Here, Consts DEF Table, RootEntry
<1>12. n \in Nat /\ n > 0 /\ n = itab[s].count - Refs(r0, s) + Refs(r, s)
  <2>1. Refs(r0, s) = 1 /\ Refs(r, s) = 0
    BY <1>1, <1>2, <1>3, <1>5, <1>13, Consts, SMTT(60) DEF Refs, One, Pp, Local, Goal, Without, Locked, Frees, Igets, Iallocs
  <2>2. itab[s].count >= 2 /\ itab[s].count \in Nat
    BY <1>3, <2>1, RootRefs DEF EntryRec
  <2> QED BY <2>1, <2>2
<1> HIDE DEF n
<1> QED BY <1>1, <1>3, <1>4, <1>6, <1>7, <1>8, <1>9, <1>10, <1>11, <1>12, Released

LEMMA NameiFailsInv1 ==
    ASSUME InodeInv, NEW p \in IProcs, NameiFails(p), iu[p].tgt # 0
    PROVE  InodeInv'
<1> DEFINE r0 == iu[p]
           s == ROOT
           n == itab[s].count - 1
           r == [r0 EXCEPT !.ip = r0.tgt, !.tgt = 0, !.err = TRUE, !.pc = "plock"]
<1>1. /\ r0.pc = "dirread" /\ r0.tgt # 0
      /\ UNCHANGED <<dino, dir, sinode>>
      /\ PreleI(s, [itab[s] EXCEPT !.count = n], [iu EXCEPT ![p] = r])
  <2>1. [iu EXCEPT ![p].ip = iu[p].tgt, ![p].tgt = 0, ![p].err = TRUE, ![p].pc = "plock"] = [iu EXCEPT ![p] = r]
    BY Here
  <2> QED BY <2>1 DEF NameiFails, At
<1>2. r0 \in IuRec /\ Local(dir, r0) /\ Knows(itab, dir, r0)
  BY Here
<1>3. s \in Slots /\ itab[s] \in EntryRec /\ Entry(itab[s])
  <2>1. s \in Slots
    BY <1>1, <1>2, Values, Consts DEF IuRec, Local, Locked, Plocks, MayFail
  <2> QED BY <2>1, Here DEF Table
<1>4. r \in IuRec
  <2>1. r0.tgt \in 0 .. NINODE /\ 0 \in 0 .. NINODE /\ "plock" \in Pcs
    BY <1>1, <1>2, <1>3, Values, Consts DEF IuRec
  <2> QED BY <1>2, <2>1 DEF IuRec
<1>5. /\ r.pc = "plock" /\ r.op = r0.op /\ r.name = r0.name /\ r.ino = r0.ino /\ r.ip = r0.tgt /\ r.tgt = 0
      /\ r.pp = r0.pp /\ r.ret = r0.ret /\ r.err = TRUE /\ r.fd = r0.fd /\ r.wfd = r0.wfd
  BY <1>2 DEF IuRec
<1> HIDE DEF r
<1>6. Local(dir, r)
  BY <1>1, <1>2, <1>5, Consts, SMTT(60) DEF Local, Goal, Igets, Frees, Locked, Plocks, Without, MayFail, Iallocs
<1>7. Knows(itab, dir, r)
  BY <1>1, <1>2, <1>5, Consts, SMTT(60) DEF Knows, Holds, Igets, Frees, Locked, Plocks, Local, Goal, Without, MayFail, Iallocs
<1>8. SameLinks(r0, r)
  BY <1>1, <1>2, <1>5 DEF SameLinks, Linked, Made, Plocks, Local
<1>9. \A t \in Slots : t # s => StillSlot(r0, r, t)
  BY <1>1, <1>2, <1>3, <1>5, Consts, SMTT(60) DEF StillSlot, Refs, One, Holds, Locked, Frees, Pp, Local, Goal, Without, Igets, Iallocs
<1>10. Holds(r0, s) /\ ~Holds(r, s)
  BY <1>1, <1>2, <1>3, <1>5, Consts DEF Holds, Locked, Frees, Local, Goal, Igets, Iallocs, Without, Plocks, MayFail
<1>11. itab[s].mode # 0
  BY Here, Consts DEF Table, RootEntry
<1>12. n \in Nat /\ n > 0 /\ n = itab[s].count - Refs(r0, s) + Refs(r, s)
  <2>1. Refs(r0, s) = 1 /\ Refs(r, s) = 0
    BY <1>1, <1>2, <1>3, <1>5, Consts, SMTT(60) DEF Refs, One, Pp, Local, Goal, Without, Locked, Frees, Igets, Iallocs
  <2>2. itab[s].count >= 2 /\ itab[s].count \in Nat
    BY <1>3, <2>1, RootRefs DEF EntryRec
  <2> QED BY <2>1, <2>2
<1> HIDE DEF n
<1> QED BY <1>1, <1>3, <1>4, <1>6, <1>7, <1>8, <1>9, <1>10, <1>11, <1>12, Released

LEMMA NameiFailsInv2 ==
    ASSUME InodeInv, NEW p \in IProcs, NameiFails(p), iu[p].tgt = 0
    PROVE  InodeInv'
<1> DEFINE r0 == iu[p]
           s == ROOT
           n == itab[s].count - 1
           r == [Idle EXCEPT !.fd = r0.fd, !.wfd = r0.wfd]
<1>1. /\ r0.pc = "dirread" /\ r0.tgt = 0
      /\ UNCHANGED <<dino, dir, sinode>>
      /\ PreleI(s, [itab[s] EXCEPT !.count = n], [iu EXCEPT ![p] = r])
  <2>1. Return(iu, p) = [iu EXCEPT ![p] = r]
    BY DEF Return
  <2> QED BY <2>1 DEF NameiFails, At
<1>2. r0 \in IuRec /\ Local(dir, r0) /\ Knows(itab, dir, r0)
  BY Here
<1>3. s \in Slots /\ itab[s] \in EntryRec /\ Entry(itab[s])
  <2>1. s \in Slots
    BY <1>1, <1>2, Values, Consts DEF IuRec, Local, Locked, Plocks, MayFail
  <2> QED BY <2>1, Here DEF Table
<1>4. r \in IuRec
  <2>1. r0.fd \in 0 .. NINODE /\ r0.wfd \in 0 .. NINODE
    BY <1>1, <1>2, <1>3, Values, Consts DEF IuRec
  <2> QED BY <2>1, Ended, ZenonT(60)
<1>5. /\ r.pc = "user" /\ r.op = "none" /\ r.name = "none" /\ r.ino = 0 /\ r.ip = 0 /\ r.tgt = 0
      /\ r.pp = FALSE /\ r.ret = "none" /\ r.err = FALSE /\ r.fd = r0.fd /\ r.wfd = r0.wfd
  BY <1>2 DEF IuRec, Idle
<1> HIDE DEF r
<1>6. Local(dir, r)
  BY <1>1, <1>2, <1>5, Consts, SMTT(60) DEF Local, Goal, Igets, Frees, Locked, Plocks, Without, MayFail, Iallocs
<1>7. Knows(itab, dir, r)
  BY <1>1, <1>2, <1>5, Consts, SMTT(60) DEF Knows, Holds, Igets, Frees, Locked, Plocks, Local, Goal, Without, MayFail, Iallocs
<1>8. SameLinks(r0, r)
  BY <1>1, <1>2, <1>5 DEF SameLinks, Linked, Made, Plocks, Local
<1>9. \A t \in Slots : t # s => StillSlot(r0, r, t)
  BY <1>1, <1>2, <1>3, <1>5, Consts, SMTT(60) DEF StillSlot, Refs, One, Holds, Locked, Frees, Pp, Local, Goal, Without, Igets, Iallocs
<1>10. Holds(r0, s) /\ ~Holds(r, s)
  BY <1>1, <1>2, <1>3, <1>5, Consts DEF Holds, Locked, Frees, Local, Goal, Igets, Iallocs, Without, Plocks, MayFail
<1>11. itab[s].mode # 0
  BY Here, Consts DEF Table, RootEntry
<1>12. n \in Nat /\ n > 0 /\ n = itab[s].count - Refs(r0, s) + Refs(r, s)
  <2>1. Refs(r0, s) = 1 /\ Refs(r, s) = 0
    BY <1>1, <1>2, <1>3, <1>5, Consts, SMTT(60) DEF Refs, One, Pp, Local, Goal, Without, Locked, Frees, Igets, Iallocs
  <2>2. itab[s].count >= 2 /\ itab[s].count \in Nat
    BY <1>3, <2>1, RootRefs DEF EntryRec
  <2> QED BY <2>1, <2>2
<1> HIDE DEF n
<1> QED BY <1>1, <1>3, <1>4, <1>6, <1>7, <1>8, <1>9, <1>10, <1>11, <1>12, Released

LEMMA WdirInv1 ==
    ASSUME InodeInv, NEW p \in IProcs, At(p, "wdir"), iu[p].op = "link", UNCHANGED <<dino, dir, sinode>>,
           PutDir(p, [iu EXCEPT ![p].err = TRUE, ![p].pc = "plock"])
    PROVE  InodeInv'
<1> DEFINE r0 == iu[p]
           s == ROOT
           n == itab[s].count - 1
           r == [r0 EXCEPT !.pp = FALSE, !.err = TRUE, !.pc = "plock"]
<1>1. /\ r0.pc = "wdir" /\ r0.op = "link" /\ r0.pp
      /\ UNCHANGED <<dino, dir, sinode>>
      /\ PreleI(s, [itab[s] EXCEPT !.count = n], [iu EXCEPT ![p] = r])
  <2>1. r0.pc = "wdir" /\ r0.op = "link" /\ r0.pp
    BY Here DEF At, Local, Goal, Igets, Frees
  <2>2. [[iu EXCEPT ![p].err = TRUE, ![p].pc = "plock"] EXCEPT ![p].pp = FALSE] = [iu EXCEPT ![p] = r]
    BY Here DEF IuRec
  <2> QED BY <2>1, <2>2 DEF PutDir
<1>2. r0 \in IuRec /\ Local(dir, r0) /\ Knows(itab, dir, r0)
  BY Here
<1>3. s \in Slots /\ itab[s] \in EntryRec /\ Entry(itab[s])
  <2>1. s \in Slots
    BY <1>1, <1>2, Values, Consts DEF IuRec, Local, Locked, Plocks, MayFail
  <2> QED BY <2>1, Here DEF Table
<1>4. r \in IuRec
  <2>1. "plock" \in Pcs
    BY <1>1, <1>2, <1>3, Values, Consts DEF IuRec
  <2> QED BY <1>2, <2>1 DEF IuRec
<1>5. /\ r.pc = "plock" /\ r.op = r0.op /\ r.name = r0.name /\ r.ino = r0.ino /\ r.ip = r0.ip /\ r.tgt = r0.tgt
      /\ r.pp = FALSE /\ r.ret = r0.ret /\ r.err = TRUE /\ r.fd = r0.fd /\ r.wfd = r0.wfd
  BY <1>2 DEF IuRec
<1> HIDE DEF r
<1>6. Local(dir, r)
  BY <1>1, <1>2, <1>5, Consts, SMTT(60) DEF Local, Goal, Igets, Frees, Locked, Plocks, Without, MayFail, Iallocs
<1>7. Knows(itab, dir, r)
  BY <1>1, <1>2, <1>5, Consts, SMTT(60) DEF Knows, Holds, Igets, Frees, Locked, Plocks, Local, Goal, Without, MayFail, Iallocs
<1>8. SameLinks(r0, r)
  BY <1>1, <1>2, <1>5 DEF SameLinks, Linked, Made, Plocks, Local
<1>9. \A t \in Slots : t # s => StillSlot(r0, r, t)
  BY <1>1, <1>2, <1>3, <1>5, Consts, SMTT(60) DEF StillSlot, Refs, One, Holds, Locked, Frees, Pp, Local, Goal, Without, Igets, Iallocs
<1>10. Holds(r0, s) /\ ~Holds(r, s)
  BY <1>1, <1>2, <1>3, <1>5, Consts DEF Holds, Locked, Frees, Local, Goal, Igets, Iallocs, Without, Plocks, MayFail
<1>11. itab[s].mode # 0
  BY Here, Consts DEF Table, RootEntry
<1>12. n \in Nat /\ n > 0 /\ n = itab[s].count - Refs(r0, s) + Refs(r, s)
  <2>1. Refs(r0, s) = 1 /\ Refs(r, s) = 0
    BY <1>1, <1>2, <1>3, <1>5, Consts, SMTT(60) DEF Refs, One, Pp, Local, Goal, Without, Locked, Frees, Igets, Iallocs
  <2>2. itab[s].count >= 2 /\ itab[s].count \in Nat
    BY <1>3, <2>1, RootRefs DEF EntryRec
  <2> QED BY <2>1, <2>2
<1> HIDE DEF n
<1> QED BY <1>1, <1>3, <1>4, <1>6, <1>7, <1>8, <1>9, <1>10, <1>11, <1>12, Released

LEMMA NamedInv3 ==
    ASSUME InodeInv, NEW p \in IProcs, At(p, "named"), iu[p].ip # 0, iu[p].tgt = 0, ~Gone(iu[p].ip), iu[p].op = "link",
           UNCHANGED <<dino, dir, sinode>>, NEW m \in Names,
           PreleI(iu[p].ip, itab[iu[p].ip],
                  [iu EXCEPT ![p].tgt = iu[p].ip, ![p].ip = 0, ![p].name = m,
                             ![p].ino = ROOT, ![p].ret = "dirread", ![p].pc = "iget"])
    PROVE  InodeInv'
<1> DEFINE r0 == iu[p]
           s == r0.ip
           n == itab[s].count
           r == [r0 EXCEPT !.tgt = r0.ip, !.ip = 0, !.name = m, !.ino = ROOT, !.ret = "dirread", !.pc = "iget"]
<1>1. /\ r0.pc = "named" /\ s # 0 /\ r0.tgt = 0 /\ r0.op = "link" /\ itab[s].mode # 0
      /\ UNCHANGED <<dino, dir, sinode>>
      /\ PreleI(s, [itab[s] EXCEPT !.count = n], [iu EXCEPT ![p] = r])
  <2>1. [iu EXCEPT ![p].tgt = iu[p].ip, ![p].ip = 0, ![p].name = m,
                   ![p].ino = ROOT, ![p].ret = "dirread", ![p].pc = "iget"] = [iu EXCEPT ![p] = r]
    BY Here
  <2>9. itab[s] = [itab[s] EXCEPT !.count = n]
    <3>1. s \in Slots
      BY Here, Values DEF IuRec, Local, Locked, Plocks, MayFail, At
    <3> QED BY <3>1, Here DEF EntryRec
  <2> QED BY <2>1, <2>9 DEF At, Gone
<1>2. r0 \in IuRec /\ Local(dir, r0) /\ Knows(itab, dir, r0)
  BY Here
<1>3. s \in Slots /\ itab[s] \in EntryRec /\ Entry(itab[s])
  <2>1. s \in Slots
    BY <1>1, <1>2, Values, Consts DEF IuRec, Local, Locked, Plocks, MayFail
  <2> QED BY <2>1, Here DEF Table
<1>4. r \in IuRec
  <2>1. r0.ip \in 0 .. NINODE /\ 0 \in 0 .. NINODE /\ m \in Names \cup {"none"} /\ ROOT \in 0 .. NInos /\ "iget" \in Pcs
    BY <1>1, <1>2, <1>3, Values, Consts DEF IuRec
  <2> QED BY <1>2, <2>1, ZenonT(60) DEF IuRec
<1>5. /\ r.pc = "iget" /\ r.op = r0.op /\ r.name = m /\ r.ino = ROOT /\ r.ip = 0 /\ r.tgt = r0.ip
      /\ r.pp = r0.pp /\ r.ret = "dirread" /\ r.err = r0.err /\ r.fd = r0.fd /\ r.wfd = r0.wfd
  BY <1>2 DEF IuRec
<1> HIDE DEF r
<1>6. Local(dir, r)
  BY <1>1, <1>2, <1>5, Consts, SMTT(60) DEF Local, Goal, Igets, Frees, Locked, Plocks, Without, MayFail, Iallocs
<1>7. Knows(itab, dir, r)
  BY <1>1, <1>2, <1>5, Consts, SMTT(60) DEF Knows, Holds, Igets, Frees, Locked, Plocks, Local, Goal, Without, MayFail, Iallocs
<1>8. SameLinks(r0, r)
  BY <1>1, <1>2, <1>5 DEF SameLinks, Linked, Made, Plocks, Local
<1>9. \A t \in Slots : t # s => StillSlot(r0, r, t)
  BY <1>1, <1>2, <1>3, <1>5, Consts, SMTT(60) DEF StillSlot, Refs, One, Holds, Locked, Frees, Pp, Local, Goal, Without, Igets, Iallocs
<1>10. Holds(r0, s) /\ ~Holds(r, s)
  BY <1>1, <1>2, <1>3, <1>5, Consts DEF Holds, Locked, Frees, Local, Goal, Igets, Iallocs, Without, Plocks, MayFail
<1>11. itab[s].mode # 0
  BY <1>1
<1>12. n \in Nat /\ n > 0 /\ n = itab[s].count - Refs(r0, s) + Refs(r, s)
  <2>1. Refs(r, s) = Refs(r0, s) /\ Refs(r0, s) \in Nat
    BY <1>1, <1>2, <1>3, <1>5, Consts, SMTT(60) DEF Refs, One, Pp, Local, Goal, Without, Locked, Frees, Igets, Iallocs
  <2>2. itab[s].count \in Nat /\ itab[s].count > 0
    BY <1>3, <1>11 DEF EntryRec, Entry, FreeEntry
  <2> QED BY <2>1, <2>2
<1> HIDE DEF n
<1> QED BY <1>1, <1>3, <1>4, <1>6, <1>7, <1>8, <1>9, <1>10, <1>11, <1>12, Released

LEMMA OpenInv1 ==
    ASSUME InodeInv, NEW p \in IProcs, At(p, "open1") \/ At(p, "ctrunc"), UNCHANGED <<dino, dir, sinode>>,
           PreleI(iu[p].ip, itab[iu[p].ip], Return([iu EXCEPT ![p].fd = iu[p].ip, ![p].ip = 0], p))
    PROVE  InodeInv'
<1> DEFINE r0 == iu[p]
           s == r0.ip
           n == itab[s].count
           r == [Idle EXCEPT !.fd = r0.ip, !.wfd = r0.wfd]
<1>1. /\ r0.pc \in {"open1", "ctrunc"}
      /\ UNCHANGED <<dino, dir, sinode>>
      /\ PreleI(s, [itab[s] EXCEPT !.count = n], [iu EXCEPT ![p] = r])
  <2>1. Return([iu EXCEPT ![p].fd = iu[p].ip, ![p].ip = 0], p) = [iu EXCEPT ![p] = r]
    BY Here DEF Return, IuRec
  <2>9. itab[s] = [itab[s] EXCEPT !.count = n]
    <3>1. s \in Slots
      BY Here, Values DEF IuRec, Local, Locked, Plocks, MayFail, At
    <3> QED BY <3>1, Here DEF EntryRec
  <2> QED BY <2>1, <2>9 DEF At
<1>2. r0 \in IuRec /\ Local(dir, r0) /\ Knows(itab, dir, r0)
  BY Here
<1>3. s \in Slots /\ itab[s] \in EntryRec /\ Entry(itab[s])
  <2>1. s \in Slots
    BY <1>1, <1>2, Values, Consts DEF IuRec, Local, Locked, Plocks, MayFail
  <2> QED BY <2>1, Here DEF Table
<1>4. r \in IuRec
  <2>1. r0.ip \in 0 .. NINODE /\ r0.wfd \in 0 .. NINODE
    BY <1>1, <1>2, <1>3, Values, Consts DEF IuRec
  <2> QED BY <2>1, Ended, ZenonT(60)
<1>5. /\ r.pc = "user" /\ r.op = "none" /\ r.name = "none" /\ r.ino = 0 /\ r.ip = 0 /\ r.tgt = 0
      /\ r.pp = FALSE /\ r.ret = "none" /\ r.err = FALSE /\ r.fd = r0.ip /\ r.wfd = r0.wfd
  BY <1>2 DEF IuRec, Idle
<1> HIDE DEF r
<1>6. Local(dir, r)
  BY <1>1, <1>2, <1>5, Consts, SMTT(60) DEF Local, Goal, Igets, Frees, Locked, Plocks, Without, MayFail, Iallocs
<1>7. Knows(itab, dir, r)
  BY <1>1, <1>2, <1>5, Consts, SMTT(60) DEF Knows, Holds, Igets, Frees, Locked, Plocks, Local, Goal, Without, MayFail, Iallocs
<1>8. SameLinks(r0, r)
  BY <1>1, <1>2, <1>5 DEF SameLinks, Linked, Made, Plocks, Local
<1>9. \A t \in Slots : t # s => StillSlot(r0, r, t)
  BY <1>1, <1>2, <1>3, <1>5, Consts, SMTT(60) DEF StillSlot, Refs, One, Holds, Locked, Frees, Pp, Local, Goal, Without, Igets, Iallocs
<1>10. Holds(r0, s) /\ ~Holds(r, s)
  BY <1>1, <1>2, <1>3, <1>5, Consts DEF Holds, Locked, Frees, Local, Goal, Igets, Iallocs, Without, Plocks, MayFail
<1>11. itab[s].mode # 0
  BY <1>1, <1>2 DEF Knows
<1>12. n \in Nat /\ n > 0 /\ n = itab[s].count - Refs(r0, s) + Refs(r, s)
  <2>1. Refs(r, s) = Refs(r0, s) /\ Refs(r0, s) \in Nat
    BY <1>1, <1>2, <1>3, <1>5, Consts, SMTT(60) DEF Refs, One, Pp, Local, Goal, Without, Locked, Frees, Igets, Iallocs
  <2>2. itab[s].count \in Nat /\ itab[s].count > 0
    BY <1>3, <1>11 DEF EntryRec, Entry, FreeEntry
  <2> QED BY <2>1, <2>2
<1> HIDE DEF n
<1> QED BY <1>1, <1>3, <1>4, <1>6, <1>7, <1>8, <1>9, <1>10, <1>11, <1>12, Released

LEMMA OpenInv2 ==
    ASSUME InodeInv, NEW p \in IProcs, At(p, "open1") \/ At(p, "ctrunc"), UNCHANGED <<dino, dir, sinode>>,
           PreleI(iu[p].ip, itab[iu[p].ip], [iu EXCEPT ![p].pc = "plock"])
    PROVE  InodeInv'
<1> DEFINE r0 == iu[p]
           s == r0.ip
           n == itab[s].count
           r == [r0 EXCEPT !.pc = "plock"]
<1>1. /\ r0.pc \in {"open1", "ctrunc"}
      /\ UNCHANGED <<dino, dir, sinode>>
      /\ PreleI(s, [itab[s] EXCEPT !.count = n], [iu EXCEPT ![p] = r])
  <2>9. itab[s] = [itab[s] EXCEPT !.count = n]
    <3>1. s \in Slots
      BY Here, Values DEF IuRec, Local, Locked, Plocks, MayFail, At
    <3> QED BY <3>1, Here DEF EntryRec
  <2> QED BY <2>9 DEF At
<1>2. r0 \in IuRec /\ Local(dir, r0) /\ Knows(itab, dir, r0)
  BY Here
<1>3. s \in Slots /\ itab[s] \in EntryRec /\ Entry(itab[s])
  <2>1. s \in Slots
    BY <1>1, <1>2, Values, Consts DEF IuRec, Local, Locked, Plocks, MayFail
  <2> QED BY <2>1, Here DEF Table
<1>4. r \in IuRec
  <2>1. "plock" \in Pcs
    BY <1>1, <1>2, <1>3, Values, Consts DEF IuRec
  <2> QED BY <1>2, <2>1 DEF IuRec
<1>5. /\ r.pc = "plock" /\ r.op = r0.op /\ r.name = r0.name /\ r.ino = r0.ino /\ r.ip = r0.ip /\ r.tgt = r0.tgt
      /\ r.pp = r0.pp /\ r.ret = r0.ret /\ r.err = r0.err /\ r.fd = r0.fd /\ r.wfd = r0.wfd
  BY <1>2 DEF IuRec
<1> HIDE DEF r
<1>6. Local(dir, r)
  BY <1>1, <1>2, <1>5, Consts, SMTT(60) DEF Local, Goal, Igets, Frees, Locked, Plocks, Without, MayFail, Iallocs
<1>7. Knows(itab, dir, r)
  BY <1>1, <1>2, <1>5, Consts, SMTT(60) DEF Knows, Holds, Igets, Frees, Locked, Plocks, Local, Goal, Without, MayFail, Iallocs
<1>8. SameLinks(r0, r)
  BY <1>1, <1>2, <1>5 DEF SameLinks, Linked, Made, Plocks, Local
<1>9. \A t \in Slots : t # s => StillSlot(r0, r, t)
  BY <1>1, <1>2, <1>3, <1>5, Consts, SMTT(60) DEF StillSlot, Refs, One, Holds, Locked, Frees, Pp, Local, Goal, Without, Igets, Iallocs
<1>10. Holds(r0, s) /\ ~Holds(r, s)
  BY <1>1, <1>2, <1>3, <1>5, Consts DEF Holds, Locked, Frees, Local, Goal, Igets, Iallocs, Without, Plocks, MayFail
<1>11. itab[s].mode # 0
  BY <1>1, <1>2 DEF Knows
<1>12. n \in Nat /\ n > 0 /\ n = itab[s].count - Refs(r0, s) + Refs(r, s)
  <2>1. Refs(r, s) = Refs(r0, s) /\ Refs(r0, s) \in Nat
    BY <1>1, <1>2, <1>3, <1>5, Consts, SMTT(60) DEF Refs, One, Pp, Local, Goal, Without, Locked, Frees, Igets, Iallocs
  <2>2. itab[s].count \in Nat /\ itab[s].count > 0
    BY <1>3, <1>11 DEF EntryRec, Entry, FreeEntry
  <2> QED BY <2>1, <2>2
<1> HIDE DEF n
<1> QED BY <1>1, <1>3, <1>4, <1>6, <1>7, <1>8, <1>9, <1>10, <1>11, <1>12, Released

(* Where iput may return to.                                               *)
PutTo(r, l) ==
    \/ l = "putpp" /\ r.pc = "iputip" /\ r.pp
    \/ l = "done" /\ ~r.pp /\ r.tgt = 0 /\ (r.pc \in {"iputip", "named"} \/ (r.pc = "iagot" /\ r.op = "pipe"))
    \/ l = "linkfail" /\ r.pc = "named" /\ r.tgt # 0
    \/ l = "ialoop" /\ r.pc = "iagot"

LEMMA IputInv1 ==
    ASSUME InodeInv, NEW p \in IProcs, itab[iu[p].ip].count > 1,
           NEW l, PutTo(iu[p], l), iu[p].ip # 0, UNCHANGED <<dino, dir, sinode>>,
           PreleI(iu[p].ip, [itab[iu[p].ip] EXCEPT !.count = @ - 1], [iu EXCEPT ![p].ip = 0, ![p].pc = l])
    PROVE  InodeInv'
<1> DEFINE r0 == iu[p]
           s == r0.ip
           n == itab[s].count - 1
           r == [r0 EXCEPT !.ip = 0, !.pc = l]
<1>1. /\ r0.pc \in {"iputip", "named", "iagot"} /\ s # 0 /\ itab[s].count > 1 /\ PutTo(r0, l)
      /\ l \in {"putpp", "done", "linkfail", "ialoop"}
      /\ UNCHANGED <<dino, dir, sinode>>
      /\ PreleI(s, [itab[s] EXCEPT !.count = n], [iu EXCEPT ![p] = r])
  <2>1. [iu EXCEPT ![p].ip = 0, ![p].pc = l] = [iu EXCEPT ![p] = r]
    BY Here
  <2> QED BY <2>1 DEF PutTo
<1>2. r0 \in IuRec /\ Local(dir, r0) /\ Knows(itab, dir, r0)
  BY Here
<1>3. s \in Slots /\ itab[s] \in EntryRec /\ Entry(itab[s])
  <2>1. s \in Slots
    BY <1>1, <1>2, Values, Consts DEF IuRec, Local, Locked, Plocks, MayFail
  <2> QED BY <2>1, Here DEF Table
<1>4. r \in IuRec
  <2>1. 0 \in 0 .. NINODE /\ l \in Pcs
    BY <1>1, <1>2, <1>3, Values, Consts DEF IuRec, PutTo
  <2> QED BY <1>2, <2>1 DEF IuRec
<1>5. /\ r.pc = l /\ r.op = r0.op /\ r.name = r0.name /\ r.ino = r0.ino /\ r.ip = 0 /\ r.tgt = r0.tgt
      /\ r.pp = r0.pp /\ r.ret = r0.ret /\ r.err = r0.err /\ r.fd = r0.fd /\ r.wfd = r0.wfd
  BY <1>2 DEF IuRec
<1> HIDE DEF r
<1>6. Local(dir, r)
  BY <1>1, <1>2, <1>5, Consts, SMTT(60) DEF Local, Goal, Igets, Frees, Locked, Plocks, Without, MayFail, Iallocs, PutTo
<1>7. Knows(itab, dir, r)
  BY <1>1, <1>2, <1>5, Consts, SMTT(60) DEF Knows, Holds, Igets, Frees, Locked, Plocks, Local, Goal, Without, MayFail, Iallocs, PutTo
<1>8. SameLinks(r0, r)
  BY <1>1, <1>2, <1>5 DEF SameLinks, Linked, Made, Plocks, Local, PutTo
<1>9. \A t \in Slots : t # s => StillSlot(r0, r, t)
  BY <1>1, <1>2, <1>3, <1>5, Consts, SMTT(60) DEF StillSlot, Refs, One, Holds, Locked, Frees, Pp, Local, Goal, Without, Igets, Iallocs, PutTo
<1>10. Holds(r0, s) /\ ~Holds(r, s)
  BY <1>1, <1>2, <1>3, <1>5, Consts DEF Holds, Locked, Frees, Local, Goal, Igets, Iallocs, Without, Plocks, MayFail, PutTo
<1>11. itab[s].mode # 0
  BY <1>1, <1>3 DEF Entry, EntryRec
<1>12. n \in Nat /\ n > 0 /\ n = itab[s].count - Refs(r0, s) + Refs(r, s)
  <2>1. Refs(r0, s) = 1 + Refs(r, s) /\ Refs(r, s) \in Nat
    BY <1>1, <1>2, <1>3, <1>5, Consts, SMTT(60) DEF Refs, One, Pp, Local, Goal, Without, Locked, Frees, Igets, Iallocs
  <2>2. itab[s].count \in Nat
    BY <1>3 DEF EntryRec
  <2> QED BY <1>1, <2>1, <2>2
<1> HIDE DEF n
<1> QED BY <1>1, <1>3, <1>4, <1>6, <1>7, <1>8, <1>9, <1>10, <1>11, <1>12, Released
LEMMA IgetInv3 ==
    ASSUME InodeInv, NEW p \in IProcs, NEW s \in Slots, s \in Matches(p), ~itab[s].lock, At(p, "iget") \/ At(p, "iget_woken"),
           itab' = [itab EXCEPT ![s].count = @ + 1, ![s].lock = TRUE], iu' = IgetReturns(p, s),
           UNCHANGED <<dino, dir, sinode>>
    PROVE  InodeInv'
<1> DEFINE r0 == iu[p]
           e == itab[s]
           e1 == [e EXCEPT !.count = e.count + 1, !.lock = TRUE]
           r == [r0 EXCEPT !.ip = s, !.err = (r0.err \/ s = 0), !.ino = 0, !.ret = "none", !.pc = r0.ret]
<1>1. /\ r0.pc \in {"iget", "iget_woken"} /\ ~e.lock /\ e.num = r0.ino
      /\ itab' = [itab EXCEPT ![s] = e1] /\ UNCHANGED <<dino, dir, sinode>>
      /\ iu' = [iu EXCEPT ![p] = r]
  BY Here DEF IgetReturns, At, Matches
<1>2. r0 \in IuRec /\ Local(dir, r0) /\ Knows(itab, dir, r0)
  BY Here
<1>3. s \in Slots /\ e \in EntryRec /\ Entry(e) /\ (s = ROOT => RootEntry(e)) /\ itab \in [Slots -> EntryRec]
  <2>1. s \in Slots
    OBVIOUS
  <2> QED BY <2>1, Here DEF Table
<1>15. /\ r0.ret \in {"dirread", "named", "unlink", "iagot"} /\ (s = ROOT <=> r0.ret = "dirread")
       /\ e.count > 0 /\ e.mode # 0 /\ r0.ip = 0 /\ s # 0
  <2>1. r0.ret \in {"dirread", "named", "unlink", "iagot"} /\ r0.ip = 0 /\ r0.ino # 0
        /\ (r0.ino = ROOT <=> r0.ret = "dirread")
    BY <1>1, <1>2, Consts DEF Local, Igets, Without
  <2>2. e.count > 0 /\ e.mode # 0
    BY <1>1, <1>3, <2>1 DEF Entry, FreeEntry, EntryRec
  <2>3. s = ROOT <=> e.num = ROOT
    BY Here, Consts DEF Table, RootEntry
  <2> QED BY <1>1, <1>3, <2>1, <2>2, <2>3, Consts
<1>4. r \in IuRec
  <2>1. s \in 0 .. NINODE /\ (r0.err \/ s = 0) \in BOOLEAN /\ 0 \in 0 .. NInos /\ r0.ret \in Pcs
    BY <1>1, <1>2, <1>3, <1>15, Values, Consts DEF IuRec
  <2> QED BY <1>2, <2>1 DEF IuRec
<1>5. /\ r.pc = r0.ret /\ r.op = r0.op /\ r.name = r0.name /\ r.ino = 0 /\ r.ip = s /\ r.tgt = r0.tgt
      /\ r.pp = r0.pp /\ r.ret = "none" /\ (r.err <=> r0.err) /\ r.fd = r0.fd /\ r.wfd = r0.wfd
  BY <1>2, <1>15 DEF IuRec
<1>6. e1 \in EntryRec
      /\ e1.num = e.num /\ e1.count = e.count + 1 /\ e1.lock = TRUE /\ e1.mode = e.mode /\ e1.nlink = e.nlink /\ e1.chg = e.chg
  BY <1>1, <1>3, <1>15 DEF EntryRec, Unlocked
<1>7. itab'[s] = e1 /\ \A t \in Slots : t # s => itab'[t] = itab[t]
  BY <1>1, <1>3
<1> HIDE DEF r, e1
<1>8. Local(dir, r)
  BY <1>1, <1>2, <1>3, <1>5, <1>15, Consts, SMTT(60) DEF Local, Goal, Igets, Frees, Locked, Plocks, Without, MayFail, Iallocs
<1>9. TouchStep(e, e1, r0, r, s)
  <2>1. e1.count = e.count - Refs(r0, s) + Refs(r, s)
    BY <1>1, <1>2, <1>3, <1>5, <1>6, <1>15, Consts, SMTT(60) DEF EntryRec, Refs, One, Pp, Local, Without, Locked, Goal, Frees, Igets, Plocks, MayFail, Iallocs
  <2>2. SameEntry(e, e1) \/ ~e.lock \/ Holds(r0, s)
    BY <1>1, <1>6 DEF SameEntry, Holds, Locked, Frees
  <2>3. Holds(r, s) => Holds(r0, s) \/ ~e.lock
    BY <1>1, <1>2, <1>3, <1>5, <1>15, Consts DEF Holds, Locked, Frees, Local, Goal, Igets, Without
  <2> QED BY <1>1, <1>2, <1>3, <1>6, <1>15, <2>1, <2>2, <2>3 DEF TouchStep, SameInode, EntryRec, Entry, RootEntry, Knows, Plocks
<1>10. SameLinks(r0, r)
  BY <1>1, <1>2, <1>5, <1>15 DEF SameLinks, Linked, Made, Plocks, Local
<1>11. \A t \in Slots : t # s => StillSlot(r0, r, t)
  BY <1>1, <1>2, <1>3, <1>5, <1>15, Consts, SMTT(60) DEF StillSlot, Refs, One, Holds, Locked, Frees, Pp, Local, Goal, Without, Igets, Iallocs
<1>12. Knows(itab', dir, r)
  <2>1. \A t \in Slots : itab'[t].mode = itab[t].mode /\ itab'[t].num = itab[t].num
                        /\ itab'[t].nlink = itab[t].nlink /\ itab'[t].chg = itab[t].chg
    BY <1>6, <1>7
  <2>2. \A t \in Slots : Holds(r, t) => itab'[t].lock
    BY <1>1, <1>2, <1>3, <1>5, <1>6, <1>7, <1>15, Consts DEF Knows, Holds, Locked, Frees, Local, Goal, Igets, Without, Iallocs
  <2>3. /\ r.ip \in 0 .. NINODE /\ r.tgt \in 0 .. NINODE /\ r.fd \in 0 .. NINODE /\ r.wfd \in 0 .. NINODE
        /\ \A t \in 0 .. NINODE : t # 0 => t \in Slots
    BY <1>4, Values DEF IuRec
  <2> QED BY <1>1, <1>2, <1>3, <1>5, <1>6, <1>7, <1>15, <2>1, <2>2, <2>3, Consts, SMTT(60) DEF Knows, Locked, Frees, Local, Goal, Igets, Plocks, Without, MayFail, Iallocs
<1>13. Sound(itab', dino, dir, [iu EXCEPT ![p] = r])
  <2>1. s \in Slots /\ e1 \in EntryRec /\ itab' = [itab EXCEPT ![s] = e1] /\ Sound(itab, dino, dir, iu)
    BY <1>1, <1>3, <1>6, Here
  <2>2. TouchStep(itab[s], e1, iu[p], r, s) /\ SameLinks(iu[p], r) /\ \A t \in Slots : t # s => StillSlot(iu[p], r, t)
    BY <1>9, <1>10, <1>11
  <2> QED BY <1>4, <1>8, <1>12, <2>1, <2>2, Touched
<1> QED BY <1>1, <1>13, Here DEF InodeInv

LEMMA SyncNextInv2 ==
    ASSUME InodeInv, NEW p \in IProcs, SyncNext(p), NEW s \in Slots, s = iu[p].adr + 1,
           ~(itab[s].lock \/ itab[s].count = 0 \/ ~itab[s].chg)
    PROVE  InodeInv'
<1> DEFINE r0 == iu[p]
           e == itab[s]
           e1 == [e EXCEPT !.lock = TRUE, !.count = e.count + 1]
           r == [r0 EXCEPT !.adr = s, !.ip = s, !.pc = "syncupdat"]
<1>1. /\ r0.pc = "sync" /\ ~e.lock /\ e.count # 0 /\ e.chg
      /\ itab' = [itab EXCEPT ![s] = e1] /\ UNCHANGED <<dino, dir, sinode>>
      /\ iu' = [iu EXCEPT ![p] = r]
  <2>1. r0.pc = "sync" /\ ~e.lock /\ e.count # 0 /\ e.chg /\ UNCHANGED <<dino, dir, sinode>>
        /\ itab' = [itab EXCEPT ![s].lock = TRUE, ![s].count = @ + 1]
        /\ iu' = [iu EXCEPT ![p].adr = s, ![p].ip = s, ![p].pc = "syncupdat"]
    BY DEF SyncNext, At
  <2>2. [itab EXCEPT ![s].lock = TRUE, ![s].count = @ + 1] = [itab EXCEPT ![s] = e1]
    BY Here
  <2>3. [iu EXCEPT ![p].adr = s, ![p].ip = s, ![p].pc = "syncupdat"] = [iu EXCEPT ![p] = r]
    BY Here
  <2> QED BY <2>1, <2>2, <2>3
<1>2. r0 \in IuRec /\ Local(dir, r0) /\ Knows(itab, dir, r0)
  BY Here
<1>3. s \in Slots /\ e \in EntryRec /\ Entry(e) /\ (s = ROOT => RootEntry(e)) /\ itab \in [Slots -> EntryRec]
  <2>1. s \in Slots
    OBVIOUS
  <2> QED BY <2>1, Here DEF Table
<1>15. e.mode # 0 /\ e.count > 0 /\ s # ROOT /\ s # 0
  BY <1>1, <1>3, Consts DEF Entry, RootEntry, EntryRec
<1>4. r \in IuRec
  <2>1. s \in Nat /\ s \in 0 .. NINODE /\ "syncupdat" \in Pcs
    BY <1>1, <1>2, <1>3, <1>15, Values, Consts DEF IuRec
  <2> QED BY <1>2, <2>1 DEF IuRec
<1>5. /\ r.pc = "syncupdat" /\ r.op = r0.op /\ r.name = r0.name /\ r.ino = r0.ino /\ r.ip = s /\ r.tgt = r0.tgt
      /\ r.pp = r0.pp /\ r.ret = r0.ret /\ r.err = r0.err /\ r.fd = r0.fd /\ r.wfd = r0.wfd
  BY <1>2 DEF IuRec
<1>6. e1 \in EntryRec
      /\ e1.num = e.num /\ e1.count = e.count + 1 /\ e1.lock = TRUE /\ e1.mode = e.mode /\ e1.nlink = e.nlink /\ e1.chg = e.chg
  <2>1. e.count + 1 \in Nat /\ e \in EntryRec
    BY <1>3 DEF EntryRec
  <2> QED BY <2>1 DEF EntryRec
<1>7. itab'[s] = e1 /\ \A t \in Slots : t # s => itab'[t] = itab[t]
  BY <1>1, <1>3
<1> HIDE DEF r, e1
<1>8. Local(dir, r)
  BY <1>1, <1>2, <1>3, <1>5, <1>15, Consts, SMTT(60) DEF Local, Goal, Igets, Frees, Locked, Plocks, Without, MayFail, Iallocs
<1>9. TouchStep(e, e1, r0, r, s)
  <2>1. e1.count = e.count - Refs(r0, s) + Refs(r, s)
    <3>1. r0.ip = 0
      BY <1>1, <1>2 DEF Local, Without
    <3>2. Refs(r0, s) = One(r0.tgt, s) + One(r0.fd, s) + One(r0.wfd, s)
      BY <1>15, <3>1, OneType DEF Refs, One
    <3>3. Refs(r, s) = 1 + One(r0.tgt, s) + One(r0.fd, s) + One(r0.wfd, s)
      BY <1>5, <1>15 DEF Refs, One
    <3>4. e.count \in Nat /\ Refs(r0, s) \in Nat
      BY <1>3, <3>2, OneType DEF EntryRec
    <3> QED BY <1>6, <3>2, <3>3, <3>4, OneType
  <2>2. SameEntry(e, e1) \/ ~e.lock \/ Holds(r0, s)
    BY <1>1, <1>6 DEF SameEntry, Holds, Locked, Frees
  <2>3. Holds(r, s) => Holds(r0, s) \/ ~e.lock
    BY <1>1, <1>2, <1>3, <1>5, <1>15, Consts DEF Holds, Locked, Frees, Local, Goal, Igets, Without
  <2> QED BY <1>1, <1>2, <1>3, <1>6, <1>15, <2>1, <2>2, <2>3 DEF TouchStep, SameInode, EntryRec, Entry, RootEntry, Knows, Plocks
<1>10. SameLinks(r0, r)
  BY <1>1, <1>2, <1>5, <1>15 DEF SameLinks, Linked, Made, Plocks, Local
<1>11. \A t \in Slots : t # s => StillSlot(r0, r, t)
  BY <1>1, <1>2, <1>3, <1>5, <1>15, Consts, SMTT(60) DEF StillSlot, Refs, One, Holds, Locked, Frees, Pp, Local, Goal, Without, Igets, Iallocs
<1>12. Knows(itab', dir, r)
  <2>1. \A t \in Slots : itab'[t].mode = itab[t].mode /\ itab'[t].num = itab[t].num
                        /\ itab'[t].nlink = itab[t].nlink /\ itab'[t].chg = itab[t].chg
    BY <1>6, <1>7
  <2>2. \A t \in Slots : Holds(r, t) => itab'[t].lock
    BY <1>1, <1>2, <1>3, <1>5, <1>6, <1>7, <1>15, Consts DEF Knows, Holds, Locked, Frees, Local, Goal, Igets, Without, Iallocs
  <2>3. /\ r.ip \in 0 .. NINODE /\ r.tgt \in 0 .. NINODE /\ r.fd \in 0 .. NINODE /\ r.wfd \in 0 .. NINODE
        /\ \A t \in 0 .. NINODE : t # 0 => t \in Slots
    BY <1>4, Values DEF IuRec
  <2> QED BY <1>2, <1>5, <2>1, <2>2, <2>3 DEF Knows, Frees, Plocks
<1>13. Sound(itab', dino, dir, [iu EXCEPT ![p] = r])
  <2>1. s \in Slots /\ e1 \in EntryRec /\ itab' = [itab EXCEPT ![s] = e1] /\ Sound(itab, dino, dir, iu)
    BY <1>1, <1>3, <1>6, Here
  <2>2. TouchStep(itab[s], e1, iu[p], r, s) /\ SameLinks(iu[p], r) /\ \A t \in Slots : t # s => StillSlot(iu[p], r, t)
    BY <1>9, <1>10, <1>11
  <2> QED BY <1>4, <1>8, <1>12, <2>1, <2>2, Touched
<1> QED BY <1>1, <1>13, Here DEF InodeInv
=============================================================================
