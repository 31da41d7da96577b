---------------------------- MODULE MountProofs ----------------------------
(***************************************************************************)
(* Proof that the mount table and the inodes agree, for any number of      *)
(* volumes, directories and processes, of which at most one mounts and     *)
(* unmounts: see MountTableSound.                                          *)
(*                                                                         *)
(* A mounted-on inode stays in core because i_count counts the reference   *)
(* that smount keeps in the table, so that the invariant has to count them *)
(* all: what system calls hold, open files and entries of the table.       *)
(***************************************************************************)
EXTENDS Mount, FiniteSetTheorems, NaturalsInduction, TLAPS

OneMounter == \A p, q \in Mounters : p = q

InodeOrNot == MInodes \cup {NoInode}

Seeking == {"iget", "iget_sleep", "iget_woken"}
Holding == {"iread", "opened", "dots", "mount", "mread", "geteblk", "iupd", "plock", "iput", "iupdat"}
Outside == {"user", "upd", "supd", "umount"}

EntryRec == [dev : Devs \cup {NoInode}, bufp : BOOLEAN, inodp : InodeOrNot, fmod : BOOLEAN]
InodeRec == [count : Nat, lock : BOOLEAN, imount : BOOLEAN]
MuRec == [pc : Seeking \cup Holding \cup Outside \cup {"updated"}, x : InodeOrNot,
          ret : {"none", "opened", "dots", "mount", "done", "updated", "umounted"},
          dev : Devs \cup {NoInode}, ent : 0 .. NMOUNT - 1, file : InodeOrNot]

MTypes(tab, ino, c) ==
    /\ tab \in [Ents -> EntryRec]
    /\ ino \in [MInodes -> InodeRec]
    /\ c \in [MProcs -> MuRec]

(* Where a process is says where iget and iput return to, and who mounts.  *)
Local(p, r) ==
    /\ r.pc \in Seeking \cup Holding => r.x \in MInodes
    /\ r.pc \in Seeking \cup {"iread"} => r.ret \in {"opened", "dots", "mount"}
    /\ r.pc \in {"opened", "dots", "mount", "updated"} => r.ret = r.pc
    /\ r.pc \in {"mread", "geteblk"} => r.ret = "mount"
    /\ r.pc = "iupd" => r.ret = "updated"
    /\ r.pc \in {"plock", "iput", "iupdat"} => r.ret \in {"done", "updated", "umounted"}
    /\ r.pc \in Outside => r.ret = "none"
    /\ r.ret \in {"mount", "umounted"} \/ r.pc = "umount" => r.dev \in Devs
    /\ r.dev # NoInode => p \in Mounters
    /\ r.ret = "opened" => r.file = NoInode

(* smount has found the first free entry, and no volume is mounted on the  *)
(* inode; sumount's entry is in use until iput has released the inode.     *)
Mounting(tab, r) ==
    /\ r.ret = "umounted" => r.ent \in Ents /\ tab[r.ent].bufp /\ tab[r.ent].inodp = r.x
    /\ r.pc \in {"mread", "geteblk"} =>
         /\ r.ent \in Ents /\ ~tab[r.ent].bufp
         /\ \A e \in Ents : /\ e < r.ent => tab[e].bufp
                            /\ tab[e].bufp => tab[e].inodp # r.x /\ tab[e].dev # r.dev
    /\ r.pc = "geteblk" => tab[r.ent].inodp = r.x /\ tab[r.ent].dev = r.dev

(* Mounted volumes have one entry each, and are on different inodes.       *)
Table(tab) ==
    \A e \in Ents : tab[e].bufp =>
        /\ tab[e].dev \in Devs /\ tab[e].inodp \in MInodes
        /\ \A f \in Ents \ {e} : tab[f].bufp => tab[f].dev # tab[e].dev /\ tab[f].inodp # tab[e].inodp

(* An inode is marked only if an entry in use leads from it, before any    *)
(* free one that still does, and nobody is about to give it up.            *)
LeadsFrom(tab, c, e, y) ==
    /\ tab[e].bufp /\ tab[e].inodp = y
    /\ \A f \in Ents : f < e => tab[f].inodp # y
    /\ \A p \in MProcs : c[p].ret = "umounted" => c[p].ent # e

Marked(tab, ino, c) == \A y \in MInodes : ino[y].imount => \E e \in Ents : LeadsFrom(tab, c, e, y)

(* Who holds a reference: a process by the inode of a call (1) and by an   *)
(* open file (2), and an entry in use (3).                                 *)
Places == (MProcs \X {1, 2}) \cup (Ents \X {3})

CallHolds(r) == IF r.pc \in Holding /\ r.ret # "umounted" THEN r.x ELSE NoInode
EntryHolds(t) == IF t.bufp THEN t.inodp ELSE NoInode

HoldsOf(tab, c) ==
    [z \in Places |-> IF z[2] = 1 THEN CallHolds(c[z[1]])
                      ELSE IF z[2] = 2 THEN c[z[1]].file ELSE EntryHolds(tab[z[1]])]

Count(h, y) == Cardinality({z \in Places : h[z] = y})

RefsAdd(tab, ino, c) == \A y \in MInodes : ino[y].count = Count(HoldsOf(tab, c), y)

Sound(tab, ino, c) ==
    /\ MTypes(tab, ino, c)
    /\ \A p \in MProcs : Local(p, c[p]) /\ Mounting(tab, c[p])
    /\ Table(tab)
    /\ Marked(tab, ino, c)
    /\ RefsAdd(tab, ino, c)

(* The inductive invariant.                                                *)
MountInv == Sound(mtab, mino, mu) /\ mpanic # "no imt"

-----------------------------------------------------------------------------
(* Counting.                                                               *)
LEMMA MinExists ==
    ASSUME NEW S \in SUBSET Nat, S # {}
    PROVE  Min(S) \in S /\ \A n \in S : Min(S) <= n
<1>1. PICK x \in S : \A y \in S : ~(<<y, x>> \in OpToRel(<, Nat))
  BY NatLessThanWellFounded, WFMin, Zenon
<1>2. PICK R : R = OpToRel(<, Nat)
  BY Zenon
<1>3. \A a, b \in Nat : a < b => <<a, b>> \in R
  BY <1>2, Zenon DEF OpToRel
<1>4. \A y \in S : x <= y
  <2>1. \A y \in S : ~(<<y, x>> \in R)
    BY <1>1, <1>2, Zenon
  <2> HIDE <1>1, <1>2
  <2>2. \A y \in S : ~(y < x)
    BY <1>3, <2>1
  <2> QED BY <2>2
<1> QED BY <1>4 DEF Min

LEMMA AtMostOne ==
    ASSUME NEW S, \A x, y \in S : x = y
    PROVE  Cardinality(S) <= 1
<1>1. CASE S = {}
  BY <1>1, FS_EmptySet
<1>2. CASE S # {}
  <2>1. PICK x \in S : TRUE
    BY <1>2
  <2>2. S = {x}
    BY <2>1
  <2> QED BY <2>2, FS_Singleton
<1> QED BY <1>1, <1>2

LEMMA Consts ==
    /\ NMOUNT \in Nat /\ Ents = 1 .. NMOUNT - 1 /\ Ents \subseteq Nat /\ Ents \subseteq 0 .. NMOUNT - 1
    /\ NoInode \notin MInodes /\ NoInode \notin Devs /\ Devs \subseteq MInodes /\ Points \subseteq MInodes
    /\ IsFiniteSet(Places) /\ Mounters \subseteq MProcs
<1>1. NMOUNT \in Nat \ {0, 1} /\ IsFiniteSet(MProcs) /\ Mounters \subseteq MProcs
      /\ "none" \notin Points \cup Devs
  BY MountConstants
<1>2. /\ Ents = 1 .. NMOUNT - 1 /\ Ents \subseteq Nat /\ Ents \subseteq 0 .. NMOUNT - 1
  BY <1>1 DEF Ents
<1>3. IsFiniteSet(Ents)
  BY <1>1, FS_Interval DEF Ents
<1>4. IsFiniteSet({3}) /\ IsFiniteSet({1, 2})
  <2>1. IsFiniteSet({1}) /\ IsFiniteSet({3})
    BY FS_Singleton
  <2>2. {1, 2} = {1} \cup {2}
    OBVIOUS
  <2> QED BY <2>1, <2>2, FS_AddElement
<1>5. IsFiniteSet(MProcs \X {1, 2}) /\ IsFiniteSet(Ents \X {3})
  BY <1>1, <1>3, <1>4, FS_Product
<1>6. IsFiniteSet(Places)
  BY <1>5, FS_Union DEF Places
<1> QED BY <1>1, <1>2, <1>6 DEF MInodes, NoInode

LEMMA CountIsFinite ==
    ASSUME NEW h, NEW y
    PROVE  /\ IsFiniteSet({z \in Places : h[z] = y}) /\ Count(h, y) \in Nat
           /\ Count(h, y) = 0 <=> \A z \in Places : h[z] # y
<1>1. {z \in Places : h[z] = y} \in SUBSET Places
  OBVIOUS
<1>2. IsFiniteSet({z \in Places : h[z] = y})
  BY <1>1, Consts, FS_Subset
<1>3. Count(h, y) \in Nat
  BY <1>2, FS_CardinalityType DEF Count
<1>4. Count(h, y) = 0 <=> {z \in Places : h[z] = y} = {}
  BY <1>2, FS_EmptySet DEF Count
<1> QED BY <1>2, <1>3, <1>4

One(a, b) == IF a = b THEN 1 ELSE 0

(* Other places than w and z hold what they held.                          *)
SameBut(w, z, h, g) == \A v \in Places : v # w /\ v # z => g[v] = h[v]

(* One place that held h[z] holds g[z] instead.                            *)
LEMMA Moved ==
    ASSUME NEW h, NEW g, NEW z \in Places, SameBut(z, z, h, g), NEW y
    PROVE  Count(g, y) = Count(h, y) - One(h[z], y) + One(g[z], y)
<1>1. PICK R : R = {x \in Places \ {z} : h[x] = y}
  OBVIOUS
<1>2. R \in SUBSET Places /\ z \notin R /\ R = {x \in Places \ {z} : g[x] = y}
  BY <1>1 DEF SameBut
<1>3. IsFiniteSet(R) /\ Cardinality(R) \in Nat /\ Cardinality(R \cup {z}) = Cardinality(R) + 1
  <2>1. IsFiniteSet(R)
    BY <1>2, Consts, FS_Subset
  <2> QED BY <1>2, <2>1, FS_CardinalityType, FS_AddElement
<1>4. Count(h, y) = Cardinality(R) + One(h[z], y)
  <2>1. CASE h[z] = y
    <3>1. {x \in Places : h[x] = y} = R \cup {z}
      BY <1>1, <2>1
    <3> QED BY <1>3, <2>1, <3>1 DEF Count, One
  <2>2. CASE h[z] # y
    <3>1. {x \in Places : h[x] = y} = R
      BY <1>1, <2>2
    <3> QED BY <1>3, <2>2, <3>1 DEF Count, One
  <2> QED BY <2>1, <2>2
<1>5. Count(g, y) = Cardinality(R) + One(g[z], y)
  <2>1. CASE g[z] = y
    <3>1. {x \in Places : g[x] = y} = R \cup {z}
      BY <1>2, <2>1
    <3> QED BY <1>3, <2>1, <3>1 DEF Count, One
  <2>2. CASE g[z] # y
    <3>1. {x \in Places : g[x] = y} = R
      BY <1>2, <2>2
    <3> QED BY <1>3, <2>2, <3>1 DEF Count, One
  <2> QED BY <2>1, <2>2
<1> QED BY <1>3, <1>4, <1>5 DEF One

LEMMA MovedTwo ==
    ASSUME NEW h, NEW g, NEW w \in Places, NEW z \in Places, w # z, SameBut(w, z, h, g), NEW y
    PROVE  Count(g, y) = (Count(h, y) - (One(h[w], y) + One(h[z], y))) + (One(g[w], y) + One(g[z], y))
<1>1. PICK m : m = [x \in Places |-> IF x = w THEN g[w] ELSE h[x]]
  OBVIOUS
<1>2. SameBut(w, w, h, m) /\ m[w] = g[w] /\ m[z] = h[z]
  BY <1>1 DEF SameBut
<1>3. SameBut(z, z, m, g)
  BY <1>1 DEF SameBut
<1>4. Count(m, y) = Count(h, y) - One(h[w], y) + One(m[w], y)
  BY <1>2, Moved
<1>5. Count(g, y) = Count(m, y) - One(m[z], y) + One(g[z], y)
  BY <1>3, Moved
<1>6. Count(h, y) \in Nat /\ Count(g, y) \in Nat /\ Count(m, y) \in Nat
  BY CountIsFinite
<1> QED BY <1>2, <1>4, <1>5, <1>6 DEF One

(* Two places that hold the same inode count twice.                        *)
LEMMA TwoCount ==
    ASSUME NEW h, NEW w \in Places, NEW z \in Places, w # z, NEW y, h[w] = y, h[z] = y
    PROVE  Count(h, y) >= 2
<1>1. PICK R : R = {x \in Places : h[x] = y}
  OBVIOUS
<1>2. IsFiniteSet(R) /\ w \in R /\ z \in R
  BY <1>1, CountIsFinite
<1>3. IsFiniteSet(R \ {w}) /\ Cardinality(R \ {w}) = Cardinality(R) - 1
  BY <1>2, FS_RemoveElement
<1>4. Cardinality(R) \in Nat /\ Cardinality(R \ {w}) \in Nat
  BY <1>2, <1>3, FS_CardinalityType
<1>5. Cardinality(R \ {w}) # 0
  BY <1>2, <1>3, FS_EmptySet
<1> QED BY <1>1, <1>3, <1>4, <1>5 DEF Count

-----------------------------------------------------------------------------
(* The tables say the same of every entry, but of e.                       *)
SameEntry(t, t1) == t1.bufp = t.bufp /\ t1.inodp = t.inodp /\ t1.dev = t.dev
SameTable(tab, tab1) == \A e \in Ents : SameEntry(tab[e], tab1[e])
SameTableBut(e, tab, tab1) == \A f \in Ents : f # e => SameEntry(tab[f], tab1[f])

OthersSame(p, c, c1) == \A q \in MProcs : q # p => c1[q] = c[q]

(* What a process holds.                                                   *)
Given(r, y) == One(CallHolds(r), y) + One(r.file, y)

LEMMA GivenType == \A r, y : Given(r, y) \in Nat /\ One(r, y) \in Nat
BY DEF Given, One

LEMMA Back == \A n, g \in Nat : n = (n - g) + g /\ n + 1 = (n - g) + (g + 1) /\ n - 1 = (n - (g + 1)) + g
OBVIOUS

ProcCount(tab, tab1, c, c1, p, y) ==
    Count(HoldsOf(tab1, c1), y) = (Count(HoldsOf(tab, c), y) - Given(c[p], y)) + Given(c1[p], y)

LEMMA ProcCounts ==
    ASSUME NEW tab, NEW tab1, NEW c, NEW c1, NEW p \in MProcs, NEW y,
           OthersSame(p, c, c1),
           SameTable(tab, tab1)
    PROVE  ProcCount(tab, tab1, c, c1, p, y)
<1>1. PICK h : h = HoldsOf(tab, c)
  OBVIOUS
<1>2. PICK g : g = HoldsOf(tab1, c1)
  OBVIOUS
<1>3. PICK w : w = <<p, 1>>
  OBVIOUS
<1>4. PICK z : z = <<p, 2>>
  OBVIOUS
<1>5. w \in Places /\ z \in Places /\ w # z
  BY <1>3, <1>4 DEF Places
<1>6. h[w] = CallHolds(c[p]) /\ h[z] = c[p].file /\ g[w] = CallHolds(c1[p]) /\ g[z] = c1[p].file
  BY <1>1, <1>2, <1>3, <1>4, <1>5 DEF HoldsOf
<1>7. SameBut(w, z, h, g)
  <2>1. SUFFICES ASSUME NEW v \in Places, v # w, v # z
                 PROVE  g[v] = h[v]
    BY DEF SameBut
  <2>2. CASE v \in MProcs \X {1, 2}
    <3>1. PICK q \in MProcs, i \in {1, 2} : v = <<q, i>>
      BY <2>2
    <3>2. q # p
      BY <2>1, <3>1, <1>3, <1>4
    <3>3. c1[q] = c[q]
      BY <3>2 DEF OthersSame
    <3> QED BY <1>1, <1>2, <2>1, <3>1, <3>3 DEF HoldsOf
  <2>3. CASE v \in Ents \X {3}
    <3>1. PICK e \in Ents : v = <<e, 3>>
      BY <2>3
    <3>2. EntryHolds(tab1[e]) = EntryHolds(tab[e])
      BY DEF SameTable, SameEntry, EntryHolds
    <3> QED BY <1>1, <1>2, <2>1, <3>1, <3>2 DEF HoldsOf
  <2> QED BY <2>1, <2>2, <2>3 DEF Places
<1>8. Count(g, y) = (Count(h, y) - (One(h[w], y) + One(h[z], y))) + (One(g[w], y) + One(g[z], y))
  BY <1>5, <1>7, MovedTwo, SMTT(30)
<1> QED BY <1>1, <1>2, <1>6, <1>8 DEF Given, ProcCount

EntryCount(tab, tab1, c, c1, p, e, y) ==
    Count(HoldsOf(tab1, c1), y) =
      (Count(HoldsOf(tab, c), y) - (One(CallHolds(c[p]), y) + One(EntryHolds(tab[e]), y)))
      + (One(CallHolds(c1[p]), y) + One(EntryHolds(tab1[e]), y))

LEMMA EntryCounts ==
    ASSUME NEW tab, NEW tab1, NEW c, NEW c1, NEW p \in MProcs, NEW e \in Ents, NEW y,
           OthersSame(p, c, c1),
           c1[p].file = c[p].file,
           SameTableBut(e, tab, tab1)
    PROVE  EntryCount(tab, tab1, c, c1, p, e, y)
<1>1. PICK h : h = HoldsOf(tab, c)
  OBVIOUS
<1>2. PICK g : g = HoldsOf(tab1, c1)
  OBVIOUS
<1>3. PICK w : w = <<p, 1>>
  OBVIOUS
<1>4. PICK z : z = <<e, 3>>
  OBVIOUS
<1>5. w \in Places /\ z \in Places /\ w # z
  BY <1>3, <1>4 DEF Places
<1>6. h[w] = CallHolds(c[p]) /\ h[z] = EntryHolds(tab[e])
      /\ g[w] = CallHolds(c1[p]) /\ g[z] = EntryHolds(tab1[e])
  BY <1>1, <1>2, <1>3, <1>4, <1>5 DEF HoldsOf
<1>7. SameBut(w, z, h, g)
  <2>1. SUFFICES ASSUME NEW v \in Places, v # w, v # z
                 PROVE  g[v] = h[v]
    BY DEF SameBut
  <2>2. CASE v \in MProcs \X {1, 2}
    <3>1. PICK q \in MProcs, i \in {1, 2} : v = <<q, i>>
      BY <2>2
    <3>2. CASE q # p
      <4>1. c1[q] = c[q]
        BY <3>2 DEF OthersSame
      <4> QED BY <1>1, <1>2, <2>1, <3>1, <4>1 DEF HoldsOf
    <3>3. CASE q = p
      <4>1. i = 2
        BY <2>1, <3>1, <3>3, <1>3
      <4> QED BY <1>1, <1>2, <2>1, <3>1, <3>3, <4>1 DEF HoldsOf
    <3> QED BY <3>2, <3>3
  <2>3. CASE v \in Ents \X {3}
    <3>1. PICK f \in Ents : v = <<f, 3>>
      BY <2>3
    <3>2. f # e
      BY <2>1, <3>1, <1>4
    <3>3. EntryHolds(tab1[f]) = EntryHolds(tab[f])
      BY <3>2 DEF SameTableBut, SameEntry, EntryHolds
    <3> QED BY <1>1, <1>2, <2>1, <3>1, <3>3 DEF HoldsOf
  <2> QED BY <2>1, <2>2, <2>3 DEF Places
<1>8. Count(g, y) = (Count(h, y) - (One(h[w], y) + One(h[z], y))) + (One(g[w], y) + One(g[z], y))
  BY <1>5, <1>7, MovedTwo, SMTT(30)
<1> QED BY <1>1, <1>2, <1>6, <1>8 DEF EntryCount

-----------------------------------------------------------------------------
(* Steps.                                                                  *)

(* Nobody else is in smount or sumount when the table changes.             *)
LEMMA Step ==
    ASSUME OneMounter, NEW tab, NEW ino, NEW c, Sound(tab, ino, c), NEW p \in MProcs,
           NEW tab1 \in [Ents -> EntryRec], NEW ino1 \in [MInodes -> InodeRec], NEW r \in MuRec,
           NEW c1, c1 = [c EXCEPT ![p] = r], SameTable(tab, tab1) \/ p \in Mounters,
           Local(p, r), Mounting(tab1, r), Table(tab1), Marked(tab1, ino1, c1), RefsAdd(tab1, ino1, c1)
    PROVE  Sound(tab1, ino1, c1)
<1>1. c \in [MProcs -> MuRec]
  BY DEF Sound, MTypes
<1>2. c1 \in [MProcs -> MuRec] /\ c1[p] = r /\ \A q \in MProcs : q # p => c1[q] = c[q]
  BY <1>1
<1>3. MTypes(tab1, ino1, c1)
  BY <1>2 DEF MTypes
<1>4. ASSUME NEW q \in MProcs
      PROVE  Local(q, c1[q]) /\ Mounting(tab1, c1[q])
  <2>1. CASE q = p
    BY <1>2, <2>1
  <2>2. CASE q # p
    <3>1. c1[q] = c[q] /\ Local(q, c[q]) /\ Mounting(tab, c[q])
      BY <1>2, <2>2 DEF Sound
    <3>2. CASE SameTable(tab, tab1)
      <4>1. c[q].ret = "umounted" => c[q].ent \in Ents
        BY <3>1 DEF Mounting
      <4>2. c[q].pc = "geteblk" => c[q].ent \in Ents
        BY <3>1 DEF Mounting
      <4>3. Mounting(tab1, c[q])
        BY <3>1, <3>2, <4>1, <4>2 DEF Mounting, SameTable, SameEntry
      <4> QED BY <3>1, <4>3
    <3>3. CASE p \in Mounters
      <4>1. q \notin Mounters
        BY <2>2, <3>3 DEF OneMounter
      <4>2. c[q].dev = NoInode /\ NoInode \notin Devs
        BY <3>1, <4>1, Consts DEF Local
      <4>3. c[q].ret # "umounted" /\ c[q].pc \notin {"mread", "geteblk"}
        BY <3>1, <4>2 DEF Local
      <4>4. Mounting(tab1, c[q])
        BY <4>3 DEF Mounting
      <4> QED BY <3>1, <4>4
    <3> QED BY <3>2, <3>3
  <2> QED BY <2>1, <2>2
<1> QED BY <1>3, <1>4 DEF Sound

(* The references are moved between inodes as process p says.              *)
Recounted(ino, ino1, r, r1) == \A y \in MInodes : ino1[y].count = (ino[y].count - Given(r, y)) + Given(r1, y)
NotMarked(ino, ino1) == \A y \in MInodes : ino1[y].imount => ino[y].imount

(* A step that leaves the table as it is and marks no inode.               *)
LEMMA QuietStep ==
    ASSUME OneMounter, NEW tab, NEW ino, NEW c, Sound(tab, ino, c), NEW p \in MProcs,
           NEW tab1 \in [Ents -> EntryRec], NEW ino1 \in [MInodes -> InodeRec], NEW r \in MuRec,
           NEW c1, c1 = [c EXCEPT ![p] = r], SameTable(tab, tab1),
           Local(p, r), Mounting(tab, r),
           r.ret = "umounted" => c[p].ret = "umounted" /\ c[p].ent = r.ent,
           NotMarked(ino, ino1), Recounted(ino, ino1, c[p], r)
    PROVE  Sound(tab1, ino1, c1)
<1>1. c \in [MProcs -> MuRec]
  BY DEF Sound, MTypes
<1>2. c1 \in [MProcs -> MuRec] /\ c1[p] = r /\ \A q \in MProcs : q # p => c1[q] = c[q]
  BY <1>1
<1>3. Mounting(tab1, r)
  <2>1. r.ret = "umounted" => r.ent \in Ents
    BY DEF Mounting
  <2>2. r.pc = "geteblk" => r.ent \in Ents
    BY DEF Mounting
  <2> QED BY <2>1, <2>2 DEF Mounting, SameTable, SameEntry
<1>4. Table(tab1)
  BY DEF Sound, Table, SameTable, SameEntry
<1>5. Marked(tab1, ino1, c1)
  <2>1. SUFFICES ASSUME NEW y \in MInodes, ino1[y].imount
                 PROVE  \E e \in Ents : LeadsFrom(tab1, c1, e, y)
    BY DEF Marked
  <2>2. PICK e \in Ents : LeadsFrom(tab, c, e, y)
    BY <2>1 DEF NotMarked, Sound, Marked
  <2>3. \A q \in MProcs : c1[q].ret = "umounted" => c1[q].ent # e
    BY <1>2, <2>2 DEF LeadsFrom
  <2>4. LeadsFrom(tab1, c1, e, y)
    BY <2>2, <2>3 DEF LeadsFrom, SameTable, SameEntry
  <2> QED BY <2>4
<1>6. RefsAdd(tab1, ino1, c1)
  <2>1. SUFFICES ASSUME NEW y \in MInodes
                 PROVE  ino1[y].count = Count(HoldsOf(tab1, c1), y)
    BY DEF RefsAdd
  <2>0. OthersSame(p, c, c1)
    BY <1>2 DEF OthersSame
  <2>2. Count(HoldsOf(tab1, c1), y) = (Count(HoldsOf(tab, c), y) - Given(c[p], y)) + Given(c1[p], y)
    <3>1. ProcCount(tab, tab1, c, c1, p, y)
      BY <2>0, ProcCounts
    <3> QED BY <3>1 DEF ProcCount
  <2>3. ino[y].count = Count(HoldsOf(tab, c), y)
    BY DEF Sound, RefsAdd
  <2> QED BY <1>2, <2>2, <2>3 DEF Recounted
<1> QED BY <1>3, <1>4, <1>5, <1>6, Step

LEMMA Facts ==
    ASSUME MountInv, NEW p \in MProcs
    PROVE  /\ mu \in [MProcs -> MuRec] /\ mu[p] \in MuRec /\ mtab \in [Ents -> EntryRec]
           /\ mino \in [MInodes -> InodeRec] /\ Local(p, mu[p]) /\ Mounting(mtab, mu[p])
           /\ mpanic # "no imt"
BY DEF MountInv, Sound, MTypes

SameInodes(ino, ino1) ==
    \A y \in MInodes : ino1[y].count = ino[y].count /\ (ino1[y].imount => ino[y].imount)

(* A step that moves no reference either.                                  *)
LEMMA StillStep ==
    ASSUME OneMounter, MountInv, NEW p \in MProcs, NEW r \in MuRec, mu' = [mu EXCEPT ![p] = r],
           mtab' \in [Ents -> EntryRec], SameTable(mtab, mtab'),
           mino' \in [MInodes -> InodeRec], SameInodes(mino, mino'), mpanic' # "no imt",
           Local(p, r), Mounting(mtab, r), r.ret = "umounted" => mu[p].ret = "umounted" /\ mu[p].ent = r.ent,
           CallHolds(r) = CallHolds(mu[p]), r.file = mu[p].file
    PROVE  MountInv'
<1>1. NotMarked(mino, mino')
  BY DEF NotMarked, SameInodes
<1>2. Recounted(mino, mino', mu[p], r)
  <2>1. SUFFICES ASSUME NEW y \in MInodes
                 PROVE  mino'[y].count = (mino[y].count - Given(mu[p], y)) + Given(r, y)
    BY DEF Recounted
  <2>2. Given(r, y) = Given(mu[p], y) /\ Given(mu[p], y) \in Nat
    <3>1. Given(r, y) = Given(mu[p], y)
      BY DEF Given
    <3> QED BY <3>1, GivenType
  <2>3. mino'[y].count = mino[y].count /\ mino[y].count \in Nat
    BY Facts DEF SameInodes, InodeRec
  <2>4. PICK n \in Nat : n = mino[y].count
    BY <2>3
  <2>5. PICK g \in Nat : g = Given(mu[p], y)
    BY <2>2
  <2>6. n = (n - g) + g
    BY Back
  <2> QED BY <2>2, <2>3, <2>4, <2>5, <2>6
<1>3. Sound(mtab, mino, mu)
  BY DEF MountInv
<1>4. Sound(mtab', mino', mu')
  BY <1>1, <1>2, <1>3, QuietStep
<1> QED BY <1>4 DEF MountInv

LEMMA Same ==
    /\ \A tab : SameTable(tab, tab)
    /\ \A ino : SameInodes(ino, ino) /\ NotMarked(ino, ino)
BY DEF SameTable, SameEntry, SameInodes, NotMarked

(* Where only a process changes.                                           *)
LEMMA OwnStep ==
    ASSUME OneMounter, MountInv, NEW p \in MProcs, NEW r \in MuRec, mu' = [mu EXCEPT ![p] = r],
           UNCHANGED <<mtab, mino, mpanic>>,
           Local(p, r), Mounting(mtab, r), r.ret = "umounted" => mu[p].ret = "umounted" /\ mu[p].ent = r.ent,
           CallHolds(r) = CallHolds(mu[p]), r.file = mu[p].file
    PROVE  MountInv'
<1>1. mtab' \in [Ents -> EntryRec] /\ mino' \in [MInodes -> InodeRec] /\ mpanic' # "no imt"
  BY Facts
<1>2. SameTable(mtab, mtab') /\ SameInodes(mino, mino')
  BY Same
<1> QED BY <1>1, <1>2, StillStep

LEMMA Read_Step ==
    ASSUME OneMounter, MountInv, NEW p \in MProcs,
           MIread(p) \/ MIputLast(p) \/ UpdateInode(p)
    PROVE  MountInv'
<1> USE Facts
<1>1. CASE MIread(p)
  <2>1. PICK r : r = [mu[p] EXCEPT !.pc = mu[p].ret]
    OBVIOUS
  <2>2. mu[p].pc = "iread" /\ mu' = [mu EXCEPT ![p] = r] /\ UNCHANGED <<mtab, mino, mpanic>>
    BY <1>1, <2>1 DEF MIread, MAt
  <2>3. mu[p].ret \in {"opened", "dots", "mount"} /\ mu[p].x \in MInodes
    BY <2>2 DEF Local, Seeking, Holding
  <2>4. r \in MuRec /\ r.pc = mu[p].ret /\ r.x = mu[p].x /\ r.ret = mu[p].ret /\ r.dev = mu[p].dev
        /\ r.ent = mu[p].ent /\ r.file = mu[p].file
    BY <2>1, <2>3 DEF MuRec, Holding
  <2>5. Local(p, r) /\ Mounting(mtab, r)
    BY <2>2, <2>3, <2>4 DEF Local, Mounting, Seeking, Holding, Outside
  <2>6. CallHolds(r) = CallHolds(mu[p])
    BY <2>2, <2>3, <2>4 DEF CallHolds, Holding
  <2> QED BY <2>2, <2>3, <2>4, <2>5, <2>6, OwnStep
<1>2. CASE MIputLast(p)
  <2>1. PICK r : r = [mu[p] EXCEPT !.pc = "iupdat"]
    OBVIOUS
  <2>2. mu[p].pc = "iput" /\ mu' = [mu EXCEPT ![p] = r] /\ UNCHANGED <<mtab, mino, mpanic>>
    BY <1>2, <2>1 DEF MIputLast, MAt
  <2>4. r \in MuRec /\ r.pc = "iupdat" /\ r.x = mu[p].x /\ r.ret = mu[p].ret /\ r.dev = mu[p].dev
        /\ r.ent = mu[p].ent /\ r.file = mu[p].file
    BY <2>1 DEF MuRec, Holding
  <2>5. Local(p, r) /\ Mounting(mtab, r)
    BY <2>2, <2>4 DEF Local, Mounting, Seeking, Holding, Outside
  <2>6. CallHolds(r) = CallHolds(mu[p])
    BY <2>2, <2>4 DEF CallHolds, Holding
  <2> QED BY <2>2, <2>4, <2>5, <2>6, OwnStep
<1>3. CASE UpdateInode(p)
  <2>1. PICK r : r = [mu[p] EXCEPT !.pc = "iput"]
    OBVIOUS
  <2>2. mu[p].pc = "iupd" /\ mu' = [mu EXCEPT ![p] = r] /\ UNCHANGED <<mtab, mino, mpanic>>
    BY <1>3, <2>1 DEF UpdateInode, MAt
  <2>4. r \in MuRec /\ r.pc = "iput" /\ r.x = mu[p].x /\ r.ret = mu[p].ret /\ r.dev = mu[p].dev
        /\ r.ent = mu[p].ent /\ r.file = mu[p].file
    BY <2>1 DEF MuRec, Holding
  <2>5. Local(p, r) /\ Mounting(mtab, r)
    BY <2>2, <2>4 DEF Local, Mounting, Seeking, Holding, Outside
  <2>6. CallHolds(r) = CallHolds(mu[p])
    BY <2>2, <2>4 DEF CallHolds, Holding
  <2> QED BY <2>2, <2>4, <2>5, <2>6, OwnStep
<1> QED BY <1>1, <1>2, <1>3

LEMMA ZeroEntry == 0 \in 0 .. NMOUNT - 1
BY MountConstants

LEMMA IdleRec ==
    ASSUME NEW f \in InodeOrNot, NEW p \in MProcs, NEW tab, NEW r, r = [MIdle EXCEPT !.file = f]
    PROVE  /\ r \in MuRec /\ r.file = f /\ CallHolds(r) = NoInode /\ r.ret = "none"
           /\ Local(p, r) /\ Mounting(tab, r)
<1>1. 0 \in 0 .. NMOUNT - 1 /\ NoInode \in InodeOrNot
  BY ZeroEntry DEF InodeOrNot
<1>2. r = [pc |-> "user", x |-> NoInode, ret |-> "none", dev |-> NoInode, ent |-> 0, file |-> f]
  BY DEF MIdle
<1>3. r \in MuRec
  <2>1. "user" \in Seeking \cup Holding \cup Outside \cup {"updated"}
    BY DEF Outside
  <2>2. PICK E : E = 0 .. NMOUNT - 1
    OBVIOUS
  <2>3. PICK n \in E : n = 0
    BY <1>1, <2>2
  <2>4. NoInode \in Devs \cup {NoInode}
    OBVIOUS
  <2>5. [pc |-> "user", x |-> NoInode, ret |-> "none", dev |-> NoInode, ent |-> n, file |-> f] \in
          [pc : Seeking \cup Holding \cup Outside \cup {"updated"}, x : InodeOrNot,
           ret : {"none", "opened", "dots", "mount", "done", "updated", "umounted"},
           dev : Devs \cup {NoInode}, ent : E, file : InodeOrNot]
    BY <1>1, <2>1, <2>3, <2>4, Zenon
  <2> QED BY <1>2, <2>2, <2>3, <2>5, Zenon DEF MuRec
<1> QED BY <1>2, <1>3 DEF CallHolds, Local, Mounting, Seeking, Holding, Outside

(* A call that holds nothing returns.                                      *)
LEMMA ReturnStep ==
    ASSUME OneMounter, MountInv, NEW p \in MProcs, mu' = MReturn(p), UNCHANGED <<mtab, mino, mpanic>>,
           CallHolds(mu[p]) = NoInode
    PROVE  MountInv'
<1>1. PICK r : r = [MIdle EXCEPT !.file = mu[p].file]
  OBVIOUS
<1>2. mu' = [mu EXCEPT ![p] = r]
  BY <1>1 DEF MReturn
<1>3. mu[p].file \in InodeOrNot
  BY Facts DEF MuRec
<1>4. /\ r \in MuRec /\ r.file = mu[p].file /\ CallHolds(r) = NoInode /\ r.ret = "none"
      /\ Local(p, r) /\ Mounting(mtab, r)
  BY <1>1, <1>3, IdleRec
<1> QED BY <1>2, <1>4, OwnStep

LEMMA Begin_Step ==
    ASSUME OneMounter, MountInv, NEW p \in MProcs,
           \/ MDotDot(p) \/ CallSync(p)
           \/ \E x \in Points : MOpen(p, x) \/ \E d \in Devs : CallMount(p, d, x)
           \/ \E d \in Devs : CallUmount(p, d)
    PROVE  MountInv'
<1> USE Facts
<1>1. CASE MDotDot(p) \/ \E x \in Points : MOpen(p, x) \/ \E d \in Devs : CallMount(p, d, x)
  <2>1. \E x \in MInodes, l \in {"opened", "dots", "mount"}, d \in Devs \cup {NoInode} :
           /\ mu[p].pc = "user" /\ UNCHANGED <<mtab, mino, mpanic>>
           /\ mu' = [mu EXCEPT ![p] = [mu[p] EXCEPT !.x = x, !.ret = l, !.pc = "iget", !.dev = d]]
           /\ l = "opened" => mu[p].file = NoInode
           /\ l = "mount" => d \in Devs
           /\ d # NoInode => p \in Mounters
    <3>1. CASE MDotDot(p)
      <4>1. mu[p].file \in MInodes /\ mu[p].dev \in Devs \cup {NoInode} /\ (mu[p].dev # NoInode => p \in Mounters)
        BY <3>1, Consts DEF MDotDot, MuRec, Local
      <4>2. mu' = [mu EXCEPT ![p] = [mu[p] EXCEPT !.x = mu[p].file, !.ret = "dots", !.pc = "iget",
                                                  !.dev = mu[p].dev]]
        BY <3>1 DEF MDotDot, Lookup, MuRec
      <4> QED BY <3>1, <4>1, <4>2 DEF MDotDot, MAt
    <3>2. CASE \E x \in Points : MOpen(p, x)
      <4>1. PICK x \in Points : MOpen(p, x)
        BY <3>2
      <4>2. x \in MInodes /\ mu[p].dev \in Devs \cup {NoInode} /\ (mu[p].dev # NoInode => p \in Mounters)
        BY Consts DEF MuRec, Local
      <4>3. mu' = [mu EXCEPT ![p] = [mu[p] EXCEPT !.x = x, !.ret = "opened", !.pc = "iget", !.dev = mu[p].dev]]
        BY <4>1 DEF MOpen, Lookup, MuRec
      <4> QED BY <4>1, <4>2, <4>3 DEF MOpen, MAt
    <3>3. CASE \E x \in Points, d \in Devs : CallMount(p, d, x)
      <4>1. PICK x \in Points, d \in Devs : CallMount(p, d, x)
        BY <3>3
      <4>2. x \in MInodes
        BY Consts
      <4>3. mu' = [mu EXCEPT ![p] = [mu[p] EXCEPT !.x = x, !.ret = "mount", !.pc = "iget", !.dev = d]]
        BY <4>1 DEF CallMount, Lookup, MuRec
      <4> QED BY <4>1, <4>2, <4>3 DEF CallMount, MAt
    <3> QED BY <1>1, <3>1, <3>2, <3>3
  <2>2. PICK x \in MInodes, l \in {"opened", "dots", "mount"}, d \in Devs \cup {NoInode} :
           /\ mu[p].pc = "user" /\ UNCHANGED <<mtab, mino, mpanic>>
           /\ mu' = [mu EXCEPT ![p] = [mu[p] EXCEPT !.x = x, !.ret = l, !.pc = "iget", !.dev = d]]
           /\ l = "opened" => mu[p].file = NoInode
           /\ l = "mount" => d \in Devs
           /\ d # NoInode => p \in Mounters
    BY <2>1
  <2>3. PICK r : r = [mu[p] EXCEPT !.x = x, !.ret = l, !.pc = "iget", !.dev = d]
    OBVIOUS
  <2>4. r \in MuRec /\ r.pc = "iget" /\ r.x = x /\ r.ret = l /\ r.dev = d /\ r.file = mu[p].file
    BY <2>3 DEF MuRec, Seeking, InodeOrNot
  <2>5. Local(p, r) /\ Mounting(mtab, r)
    BY <2>2, <2>4 DEF Local, Mounting, Seeking, Holding, Outside
  <2>6. CallHolds(r) = CallHolds(mu[p])
    BY <2>2, <2>4 DEF CallHolds, Holding
  <2> QED BY <2>2, <2>3, <2>4, <2>5, <2>6, OwnStep
<1>2. CASE CallSync(p)
  <2>1. PICK r : r = [mu[p] EXCEPT !.pc = "upd"]
    OBVIOUS
  <2>2. mu[p].pc = "user" /\ mu' = [mu EXCEPT ![p] = r] /\ UNCHANGED <<mtab, mino, mpanic>>
    BY <1>2, <2>1 DEF CallSync, MAt
  <2>4. r \in MuRec /\ r.pc = "upd" /\ r.x = mu[p].x /\ r.ret = mu[p].ret /\ r.dev = mu[p].dev
        /\ r.ent = mu[p].ent /\ r.file = mu[p].file
    BY <2>1 DEF MuRec, Outside
  <2>5. Local(p, r) /\ Mounting(mtab, r)
    BY <2>2, <2>4 DEF Local, Mounting, Seeking, Holding, Outside
  <2>6. CallHolds(r) = CallHolds(mu[p])
    BY <2>2, <2>4 DEF CallHolds, Holding
  <2> QED BY <2>2, <2>4, <2>5, <2>6, OwnStep
<1>3. CASE \E d \in Devs : CallUmount(p, d)
  <2>0. PICK d \in Devs : CallUmount(p, d)
    BY <1>3
  <2>1. PICK l \in {"umount", "upd"} : mu' = [mu EXCEPT ![p] = [mu[p] EXCEPT !.dev = d, !.pc = l]]
    BY <2>0 DEF CallUmount
  <2>2. PICK r : r = [mu[p] EXCEPT !.dev = d, !.pc = l]
    OBVIOUS
  <2>3. mu[p].pc = "user" /\ UNCHANGED <<mtab, mino, mpanic>> /\ p \in Mounters
    BY <2>0 DEF CallUmount, MAt
  <2>4. r \in MuRec /\ r.pc = l /\ r.x = mu[p].x /\ r.ret = mu[p].ret /\ r.dev = d
        /\ r.ent = mu[p].ent /\ r.file = mu[p].file
    BY <2>2 DEF MuRec, Outside
  <2>5. Local(p, r) /\ Mounting(mtab, r)
    BY <2>3, <2>4 DEF Local, Mounting, Seeking, Holding, Outside
  <2>6. CallHolds(r) = CallHolds(mu[p])
    BY <2>3, <2>4 DEF CallHolds, Holding
  <2> QED BY <2>1, <2>2, <2>3, <2>4, <2>5, <2>6, OwnStep
<1> QED BY <1>1, <1>2, <1>3

(* update ends: sync returns, sumount goes on.                             *)
LEMMA UpdatedStep ==
    ASSUME OneMounter, MountInv, NEW p \in MProcs, mu' = Updated(p), UNCHANGED <<mtab, mino, mpanic>>,
           mu[p].pc \in {"upd", "updated"}
    PROVE  MountInv'
<1> USE Facts
<1>1. CallHolds(mu[p]) = NoInode
  BY DEF CallHolds, Holding
<1>2. CASE mu[p].dev = NoInode
  BY <1>1, <1>2, ReturnStep DEF Updated
<1>3. CASE mu[p].dev # NoInode
  <2>1. PICK r : r = [mu[p] EXCEPT !.pc = "umount", !.ent = 0, !.ret = "none", !.x = NoInode]
    OBVIOUS
  <2>2. mu' = [mu EXCEPT ![p] = r]
    BY <1>3, <2>1 DEF Updated
  <2>3. 0 \in 0 .. NMOUNT - 1
    BY ZeroEntry
  <2>4. r \in MuRec /\ r.pc = "umount" /\ r.ret = "none" /\ r.dev = mu[p].dev /\ r.file = mu[p].file
    BY <2>1, <2>3 DEF MuRec, Outside, InodeOrNot
  <2>5. mu[p].dev \in Devs
    BY <1>3 DEF MuRec
  <2>6. Local(p, r) /\ Mounting(mtab, r)
    BY <2>4, <2>5 DEF Local, Mounting, Seeking, Holding, Outside
  <2>7. CallHolds(r) = CallHolds(mu[p])
    BY <1>1, <2>4 DEF CallHolds, Holding
  <2> QED BY <2>2, <2>4, <2>6, <2>7, OwnStep
<1> QED BY <1>2, <1>3

(* A reference to x is counted or given up.                                *)
GivenElse(x, r, r1) == \A y \in MInodes : y # x => Given(r1, y) = Given(r, y)

Taking(x, n, n1, r, r1) == GivenElse(x, r, r1) /\ n1 = (n - Given(r, x)) + Given(r1, x)

LEMMA Takes ==
    ASSUME NEW x \in MInodes, NEW n \in Nat, NEW n1, n1 = n + 1, NEW r, NEW r1,
           r1.file = r.file, CallHolds(r) = NoInode, CallHolds(r1) = x
    PROVE  Taking(x, n, n1, r, r1)
<1>1. GivenElse(x, r, r1)
  BY Consts DEF GivenElse, Given, One
<1>2. One(CallHolds(r1), x) = 1 /\ One(CallHolds(r), x) = 0
  BY Consts DEF One
<1>3. PICK k \in Nat : k = One(r.file, x)
  BY GivenType
<1>4. Given(r1, x) = 1 + k /\ Given(r, x) = 0 + k
  BY <1>2, <1>3 DEF Given
<1> QED BY <1>1, <1>4 DEF Taking

LEMMA Gives ==
    ASSUME NEW x \in MInodes, NEW n \in Nat, NEW n1, n1 = n - 1, NEW r, NEW r1,
           r1.file = r.file, CallHolds(r) = x, CallHolds(r1) = NoInode
    PROVE  Taking(x, n, n1, r, r1)
<1>1. GivenElse(x, r, r1)
  BY Consts DEF GivenElse, Given, One
<1>2. One(CallHolds(r1), x) = 0 /\ One(CallHolds(r), x) = 1
  BY Consts DEF One
<1>3. PICK k \in Nat : k = One(r.file, x)
  BY GivenType
<1>4. Given(r1, x) = 0 + k /\ Given(r, x) = 1 + k
  BY <1>2, <1>3 DEF Given
<1> QED BY <1>1, <1>4 DEF Taking

LEMMA IncRec ==
    ASSUME NEW i \in InodeRec, NEW t, t = [i EXCEPT !.count = @ + 1, !.lock = TRUE]
    PROVE  t \in InodeRec /\ t.count = i.count + 1 /\ t.imount = i.imount /\ i.count \in Nat
<1>1. i.count \in Nat /\ i.count + 1 \in Nat
  BY DEF InodeRec
<1> QED BY <1>1 DEF InodeRec

LEMMA DecRec ==
    ASSUME NEW i \in InodeRec, i.count > 0, NEW t, t = [i EXCEPT !.count = @ - 1, !.lock = FALSE]
    PROVE  t \in InodeRec /\ t.count = i.count - 1 /\ t.imount = i.imount /\ i.count \in Nat
<1>1. i.count \in Nat /\ i.count - 1 \in Nat
  BY DEF InodeRec
<1> QED BY <1>1 DEF InodeRec

LEMMA Bump ==
    ASSUME MountInv, NEW x \in MInodes, NEW t \in InodeRec, NEW ino1, ino1 = [mino EXCEPT ![x] = t],
           t.imount = mino[x].imount, NEW r, NEW r1,
           GivenElse(x, r, r1),
           t.count = (mino[x].count - Given(r, x)) + Given(r1, x)
    PROVE  ino1 \in [MInodes -> InodeRec] /\ NotMarked(mino, ino1) /\ Recounted(mino, ino1, r, r1)
<1>1. mino \in [MInodes -> InodeRec]
  BY DEF MountInv, Sound, MTypes
<1>2. ino1 \in [MInodes -> InodeRec] /\ ino1[x] = t /\ \A y \in MInodes : y # x => ino1[y] = mino[y]
  BY <1>1
<1>3. NotMarked(mino, ino1)
  BY <1>2 DEF NotMarked
<1>4. ASSUME NEW y \in MInodes
      PROVE  ino1[y].count = (mino[y].count - Given(r, y)) + Given(r1, y)
  <2>1. CASE y = x
    BY <1>2, <2>1
  <2>2. CASE y # x
    <3>1. PICK n \in Nat : n = mino[y].count
      BY <1>1 DEF InodeRec
    <3>2. PICK g \in Nat : g = Given(r, y)
      BY GivenType
    <3>3. n = (n - g) + g
      BY Back
    <3> QED BY <1>2, <2>2, <3>1, <3>2, <3>3 DEF GivenElse
  <2> QED BY <2>1, <2>2
<1> QED BY <1>2, <1>3, <1>4 DEF Recounted

(* With QuietStep.                                                         *)
LEMMA CountStep ==
    ASSUME OneMounter, MountInv, NEW p \in MProcs, NEW r \in MuRec, mu' = [mu EXCEPT ![p] = r],
           mino' \in [MInodes -> InodeRec], NotMarked(mino, mino'), Recounted(mino, mino', mu[p], r),
           UNCHANGED <<mtab, mpanic>>,
           Local(p, r), Mounting(mtab, r), r.ret = "umounted" => mu[p].ret = "umounted" /\ mu[p].ent = r.ent
    PROVE  MountInv'
<1>1. Sound(mtab, mino, mu) /\ mtab' \in [Ents -> EntryRec] /\ SameTable(mtab, mtab')
  BY Facts, Same DEF MountInv
<1>2. Sound(mtab', mino', mu')
  BY <1>1, QuietStep
<1> QED BY <1>2 DEF MountInv

(* A marked inode leads to a mounted volume.                               *)
LEMMA MarkedLeads ==
    ASSUME MountInv, NEW x \in MInodes, mino[x].imount
    PROVE  /\ MountedOn(x) # {} /\ Min(MountedOn(x)) \in Ents
           /\ mtab[Min(MountedOn(x))].bufp /\ mtab[Min(MountedOn(x))].inodp = x
           /\ mtab[Min(MountedOn(x))].dev \in Devs
<1>1. PICK e \in Ents : LeadsFrom(mtab, mu, e, x)
  BY DEF MountInv, Sound, Marked
<1>2. e \in MountedOn(x) /\ MountedOn(x) \subseteq Ents
  BY <1>1 DEF LeadsFrom, MountedOn
<1>3. MountedOn(x) \in SUBSET Nat /\ MountedOn(x) # {}
  BY <1>2, Consts
<1>4. PICK n : n = Min(MountedOn(x))
  OBVIOUS
<1>5. n \in MountedOn(x) /\ n <= e
  BY <1>2, <1>3, <1>4, MinExists
<1>6. n \in Ents /\ mtab[n].inodp = x
  BY <1>5 DEF MountedOn
<1>7. ~(n < e)
  BY <1>1, <1>6 DEF LeadsFrom
<1>8. n = e
  BY <1>5, <1>6, <1>7, Consts
<1>9. mtab[e].bufp
  BY <1>1 DEF LeadsFrom
<1>10. mtab[e].dev \in Devs
  BY <1>9 DEF MountInv, Sound, Table
<1> QED BY <1>3, <1>4, <1>6, <1>8, <1>9, <1>10

LEMMA MIget_Step ==
    ASSUME OneMounter, MountInv, NEW p \in MProcs, MIget(p)
    PROVE  MountInv'
<1> USE Facts
<1>1. mu[p].pc \in Seeking /\ UNCHANGED mtab
  BY DEF MIget, MAt, Seeking
<1>2. mu[p].x \in MInodes /\ mu[p].ret \in {"opened", "dots", "mount"}
  BY <1>1 DEF Local
<1>3. CallHolds(mu[p]) = NoInode
  BY <1>1 DEF CallHolds, Holding, Seeking
<1>4. CASE mino[mu[p].x].lock
  <2>1. PICK r : r = [mu[p] EXCEPT !.pc = "iget_sleep"]
    OBVIOUS
  <2>2. mu' = [mu EXCEPT ![p] = r] /\ UNCHANGED <<mtab, mino, mpanic>>
    BY <1>4, <2>1 DEF MIget
  <2>3. r \in MuRec /\ r.pc = "iget_sleep" /\ r.x = mu[p].x /\ r.ret = mu[p].ret /\ r.dev = mu[p].dev
        /\ r.ent = mu[p].ent /\ r.file = mu[p].file
    BY <2>1 DEF MuRec, Seeking
  <2>4. Local(p, r) /\ Mounting(mtab, r)
    BY <1>1, <1>2, <2>3 DEF Local, Mounting, Seeking, Holding, Outside
  <2>5. CallHolds(r) = CallHolds(mu[p])
    BY <1>3, <2>3 DEF CallHolds, Holding
  <2> QED BY <1>2, <2>2, <2>3, <2>4, <2>5, OwnStep
<1>5. CASE ~mino[mu[p].x].lock /\ mino[mu[p].x].imount
  <2>0. MountedOn(mu[p].x) # {}
    BY <1>2, <1>5, MarkedLeads
  <2>1. PICK d : d = mtab[Min(MountedOn(mu[p].x))].dev
    OBVIOUS
  <2>2. d \in Devs /\ d \in MInodes
    BY <1>2, <1>5, <2>1, MarkedLeads, Consts
  <2>3. PICK r : r = [mu[p] EXCEPT !.x = d, !.pc = "iget"]
    OBVIOUS
  <2>4. mu' = [mu EXCEPT ![p] = r] /\ UNCHANGED <<mtab, mino, mpanic>>
    BY <1>5, <2>0, <2>1, <2>3 DEF MIget
  <2>5. r \in MuRec /\ r.pc = "iget" /\ r.x = d /\ r.ret = mu[p].ret /\ r.dev = mu[p].dev
        /\ r.ent = mu[p].ent /\ r.file = mu[p].file
    BY <2>2, <2>3 DEF MuRec, Seeking, InodeOrNot
  <2>6. Local(p, r) /\ Mounting(mtab, r)
    BY <1>1, <1>2, <2>2, <2>5 DEF Local, Mounting, Seeking, Holding, Outside
  <2>7. CallHolds(r) = CallHolds(mu[p])
    BY <1>3, <2>5 DEF CallHolds, Holding
  <2> QED BY <1>2, <2>4, <2>5, <2>6, <2>7, OwnStep
<1>6. CASE ~mino[mu[p].x].lock /\ ~mino[mu[p].x].imount
  <2>1. PICK x : x = mu[p].x
    OBVIOUS
  <2>2. PICK t : t = [mino[x] EXCEPT !.count = @ + 1, !.lock = TRUE]
    OBVIOUS
  <2>3. PICK l \in {"iread", mu[p].ret} : l = IF mino[x].count = 0 THEN "iread" ELSE mu[p].ret
    OBVIOUS
  <2>4. PICK r : r = [mu[p] EXCEPT !.pc = l]
    OBVIOUS
  <2>5. mu' = [mu EXCEPT ![p] = r] /\ mino' = [mino EXCEPT ![x] = t] /\ UNCHANGED <<mtab, mpanic>>
    BY <1>2, <1>6, <2>1, <2>2, <2>3, <2>4 DEF MIget
  <2>6. mino[x] \in InodeRec
    BY <1>2, <2>1
  <2>7. t \in InodeRec /\ t.count = mino[x].count + 1 /\ t.imount = mino[x].imount /\ mino[x].count \in Nat
    BY <2>2, <2>6, IncRec
  <2>8. r \in MuRec /\ r.pc = l /\ r.x = x /\ r.ret = mu[p].ret /\ r.dev = mu[p].dev
        /\ r.ent = mu[p].ent /\ r.file = mu[p].file
    BY <1>2, <2>1, <2>3, <2>4 DEF MuRec, Holding
  <2>9. Local(p, r) /\ Mounting(mtab, r)
    BY <1>1, <1>2, <2>1, <2>3, <2>8 DEF Local, Mounting, Seeking, Holding, Outside
  <2>10. CallHolds(r) = x
    BY <1>2, <2>3, <2>8 DEF CallHolds, Holding
  <2>11. Taking(x, mino[x].count, t.count, mu[p], r)
    BY <1>2, <1>3, <2>1, <2>7, <2>8, <2>10, Takes
  <2>14. mino' \in [MInodes -> InodeRec] /\ NotMarked(mino, mino') /\ Recounted(mino, mino', mu[p], r)
    BY <1>2, <2>1, <2>5, <2>7, <2>11, Bump DEF Taking
  <2> QED BY <1>2, <2>5, <2>8, <2>9, <2>14, CountStep
<1> QED BY <1>4, <1>5, <1>6

(* An inode that somebody holds is counted; one that two hold, twice.      *)
LEMMA HeldIsCounted ==
    ASSUME MountInv, NEW p \in MProcs, NEW x \in MInodes, CallHolds(mu[p]) = x \/ mu[p].file = x
    PROVE  mino[x].count > 0
<1>1. PICK h : h = HoldsOf(mtab, mu)
  OBVIOUS
<1>2. mino[x].count = Count(h, x) /\ Count(h, x) \in Nat
  BY <1>1, CountIsFinite DEF MountInv, Sound, RefsAdd
<1>3. \E z \in Places : h[z] = x
  <2>1. <<p, 1>> \in Places /\ <<p, 2>> \in Places /\ h[<<p, 1>>] = CallHolds(mu[p]) /\ h[<<p, 2>>] = mu[p].file
    BY <1>1 DEF HoldsOf, Places
  <2> QED BY <2>1
<1>4. Count(h, x) # 0
  BY <1>3, CountIsFinite
<1> QED BY <1>2, <1>4

LEMMA EntryIsCounted ==
    ASSUME MountInv, NEW e \in Ents, NEW x \in MInodes, EntryHolds(mtab[e]) = x
    PROVE  /\ mino[x].count > 0
           /\ \A p \in MProcs : CallHolds(mu[p]) = x => mino[x].count # 1
<1>1. PICK h : h = HoldsOf(mtab, mu)
  OBVIOUS
<1>2. mino[x].count = Count(h, x) /\ Count(h, x) \in Nat
  BY <1>1, CountIsFinite DEF MountInv, Sound, RefsAdd
<1>3. PICK z : z = <<e, 3>>
  OBVIOUS
<1>4. z \in Places /\ h[z] = x
  BY <1>1, <1>3 DEF HoldsOf, Places
<1>5. Count(h, x) # 0
  BY <1>4, CountIsFinite
<1>6. ASSUME NEW p \in MProcs, CallHolds(mu[p]) = x
      PROVE  mino[x].count # 1
  <2>1. PICK w : w = <<p, 1>>
    OBVIOUS
  <2>2. w \in Places /\ h[w] = x /\ w # z
    BY <1>1, <1>3, <1>6, <2>1 DEF HoldsOf, Places
  <2>3. Count(h, x) >= 2
    BY <1>4, <2>2, TwoCount
  <2> QED BY <1>2, <2>3
<1> QED BY <1>2, <1>5, <1>6

LEMMA MWake_Step ==
    ASSUME OneMounter, MountInv, NEW p \in MProcs, MWake(p)
    PROVE  MountInv'
<1> USE Facts
<1>1. mu[p].pc \in {"iget_sleep", "plock"} /\ UNCHANGED <<mtab, mpanic>>
  BY DEF MWake
<1>2. CASE mu[p].pc = "plock"
  <2>1. PICK r : r = [mu[p] EXCEPT !.pc = "iput"]
    OBVIOUS
  <2>2. mu' = [mu EXCEPT ![p] = r] /\ mino' = [mino EXCEPT ![mu[p].x].lock = TRUE]
    BY <1>2, <2>1 DEF MWake
  <2>3. mu[p].x \in MInodes
    BY <1>2 DEF Local, Holding
  <2>4. mino' \in [MInodes -> InodeRec] /\ SameInodes(mino, mino')
    BY <2>2, <2>3 DEF InodeRec, SameInodes
  <2>5. r \in MuRec /\ r.pc = "iput" /\ r.x = mu[p].x /\ r.ret = mu[p].ret /\ r.dev = mu[p].dev
        /\ r.ent = mu[p].ent /\ r.file = mu[p].file
    BY <2>1 DEF MuRec, Holding
  <2>6. Local(p, r) /\ Mounting(mtab, r)
    BY <1>2, <2>5 DEF Local, Mounting, Seeking, Holding, Outside
  <2>7. CallHolds(r) = CallHolds(mu[p])
    BY <1>2, <2>5 DEF CallHolds, Holding
  <2>8. mtab' \in [Ents -> EntryRec] /\ SameTable(mtab, mtab') /\ mpanic' # "no imt"
    BY <1>1, Same
  <2> QED BY <2>2, <2>4, <2>5, <2>6, <2>7, <2>8, StillStep
<1>3. CASE mu[p].pc = "iget_sleep"
  <2>1. PICK r : r = [mu[p] EXCEPT !.pc = "iget_woken"]
    OBVIOUS
  <2>2. mu' = [mu EXCEPT ![p] = r] /\ UNCHANGED <<mtab, mino, mpanic>>
    BY <1>3, <2>1 DEF MWake
  <2>5. r \in MuRec /\ r.pc = "iget_woken" /\ r.x = mu[p].x /\ r.ret = mu[p].ret /\ r.dev = mu[p].dev
        /\ r.ent = mu[p].ent /\ r.file = mu[p].file
    BY <2>1 DEF MuRec, Seeking
  <2>6. Local(p, r) /\ Mounting(mtab, r)
    BY <1>3, <2>5 DEF Local, Mounting, Seeking, Holding, Outside
  <2>7. CallHolds(r) = CallHolds(mu[p])
    BY <1>3, <2>5 DEF CallHolds, Holding
  <2> QED BY <2>2, <2>5, <2>6, <2>7, OwnStep
<1> QED BY <1>1, <1>2, <1>3

(* s_fmod alone changes.                                                   *)
LEMMA Fmod ==
    ASSUME NEW tab \in [Ents -> EntryRec], NEW e, NEW b \in BOOLEAN, NEW tab1,
           tab1 = [tab EXCEPT ![e].fmod = b]
    PROVE  tab1 \in [Ents -> EntryRec] /\ SameTable(tab, tab1)
BY DEF EntryRec, SameTable, SameEntry

LEMMA MModify_Step ==
    ASSUME OneMounter, MountInv, NEW p \in MProcs, MModify(p)
    PROVE  MountInv'
<1> USE Facts
<1>1. mu' = [mu EXCEPT ![p] = mu[p]] /\ mino' = mino /\ mpanic' # "no imt"
  BY DEF MModify
<1>2. mtab' \in [Ents -> EntryRec] /\ SameTable(mtab, mtab')
  <2>1. CASE Active(mu[p].file) = {}
    BY <2>1, Same DEF MModify
  <2>2. CASE Active(mu[p].file) # {}
    BY <2>2, Fmod DEF MModify
  <2> QED BY <2>1, <2>2
<1>3. mino' \in [MInodes -> InodeRec] /\ SameInodes(mino, mino')
  BY <1>1, Same
<1> QED BY <1>1, <1>2, <1>3, StillStep

LEMMA UpdateCopy_Step ==
    ASSUME OneMounter, MountInv, NEW p \in MProcs, UpdateCopy(p)
    PROVE  MountInv'
<1> USE Facts
<1>1. PICK r : r = [mu[p] EXCEPT !.pc = "upd"]
  OBVIOUS
<1>2. mu[p].pc = "supd" /\ mu' = [mu EXCEPT ![p] = r] /\ mino' = mino /\ mpanic' # "no imt"
  BY <1>1 DEF UpdateCopy, MAt
<1>3. mtab' \in [Ents -> EntryRec] /\ SameTable(mtab, mtab')
  <2>1. CASE ~mtab[mu[p].ent].bufp
    BY <2>1, Same DEF UpdateCopy
  <2>2. CASE mtab[mu[p].ent].bufp
    BY <2>2, Fmod DEF UpdateCopy
  <2> QED BY <2>1, <2>2
<1>4. mino' \in [MInodes -> InodeRec] /\ SameInodes(mino, mino')
  BY <1>2, Same
<1>5. r \in MuRec /\ r.pc = "upd" /\ r.x = mu[p].x /\ r.ret = mu[p].ret /\ r.dev = mu[p].dev
      /\ r.ent = mu[p].ent /\ r.file = mu[p].file
  BY <1>1 DEF MuRec, Outside
<1>6. Local(p, r) /\ Mounting(mtab, r)
  BY <1>2, <1>5 DEF Local, Mounting, Seeking, Holding, Outside
<1>7. CallHolds(r) = CallHolds(mu[p])
  BY <1>2, <1>5 DEF CallHolds, Holding
<1> QED BY <1>2, <1>3, <1>4, <1>5, <1>6, <1>7, StillStep

LEMMA MIput_Step ==
    ASSUME OneMounter, MountInv, NEW p \in MProcs, MIput(p), mu[p].ret # "umounted"
    PROVE  MountInv'
<1> USE Facts
<1>1. mu[p].pc \in {"iput", "iupdat"} /\ UNCHANGED <<mtab, mpanic>>
  BY DEF MIput, MAt
<1>2. PICK x : x = mu[p].x
  OBVIOUS
<1>3. x \in MInodes /\ mu[p].ret \in {"done", "updated"} /\ CallHolds(mu[p]) = x
  BY <1>1, <1>2 DEF Local, CallHolds, Holding
<1>4. mino[x] \in InodeRec /\ mino[x].count > 0
  BY <1>3, HeldIsCounted
<1>5. PICK t : t = [mino[x] EXCEPT !.count = @ - 1, !.lock = FALSE]
  OBVIOUS
<1>6. mino' = [mino EXCEPT ![x] = t]
  BY <1>2, <1>3, <1>5 DEF MIput
<1>7. t \in InodeRec /\ t.count = mino[x].count - 1 /\ t.imount = mino[x].imount /\ mino[x].count \in Nat
  BY <1>4, <1>5, DecRec
<1>8. \E r \in MuRec : /\ mu' = [mu EXCEPT ![p] = r] /\ r.file = mu[p].file /\ CallHolds(r) = NoInode
                       /\ r.ret # "umounted" /\ Local(p, r) /\ Mounting(mtab, r)
  <2>1. CASE mu[p].ret = "done"
    <3>1. PICK r : r = [MIdle EXCEPT !.file = mu[p].file]
      OBVIOUS
    <3>2. mu' = [mu EXCEPT ![p] = r]
      BY <2>1, <3>1 DEF MReturn, MIput
    <3>3. mu[p].file \in InodeOrNot
      BY DEF MuRec
    <3>4. /\ r \in MuRec /\ r.file = mu[p].file /\ CallHolds(r) = NoInode /\ r.ret = "none"
          /\ Local(p, r) /\ Mounting(mtab, r)
      BY <3>1, <3>3, IdleRec, ZenonT(60)
    <3> QED BY <3>2, <3>4
  <2>2. CASE mu[p].ret = "updated"
    <3>1. PICK r : r = [mu[p] EXCEPT !.pc = "updated", !.x = NoInode]
      OBVIOUS
    <3>2. mu' = [mu EXCEPT ![p] = r]
      BY <2>2, <3>1 DEF MIput
    <3>3. r \in MuRec /\ r.pc = "updated" /\ r.x = NoInode /\ r.ret = "updated" /\ r.dev = mu[p].dev
          /\ r.ent = mu[p].ent /\ r.file = mu[p].file
      BY <2>2, <3>1 DEF MuRec, InodeOrNot
    <3>4. Local(p, r) /\ Mounting(mtab, r) /\ CallHolds(r) = NoInode
      BY <3>3 DEF Local, Mounting, CallHolds, Seeking, Holding, Outside
    <3> QED BY <3>2, <3>3, <3>4
  <2> QED BY <1>3, <2>1, <2>2
<1>9. PICK r \in MuRec : /\ mu' = [mu EXCEPT ![p] = r] /\ r.file = mu[p].file /\ CallHolds(r) = NoInode
                         /\ r.ret # "umounted" /\ Local(p, r) /\ Mounting(mtab, r)
  BY <1>8
<1>10. Taking(x, mino[x].count, t.count, mu[p], r)
  BY <1>3, <1>7, <1>9, Gives
<1>11. mino' \in [MInodes -> InodeRec] /\ NotMarked(mino, mino') /\ Recounted(mino, mino', mu[p], r)
  BY <1>3, <1>6, <1>7, <1>10, Bump DEF Taking
<1> QED BY <1>1, <1>9, <1>11, CountStep

(* open and close move a reference between the call and the file.          *)
LEMMA Turned == \A j, k \in Nat : j + k = k + j
OBVIOUS

LEMMA Files_Step ==
    ASSUME OneMounter, MountInv, NEW p \in MProcs, MOpened(p) \/ MClose(p)
    PROVE  MountInv'
<1> USE Facts
<1>0. UNCHANGED <<mtab, mpanic>>
  BY DEF MOpened, MClose
<1>1. mino' \in [MInodes -> InodeRec] /\ SameInodes(mino, mino')
  <2>1. CASE MOpened(p)
    <3>1. mu[p].x \in MInodes /\ mino' = [mino EXCEPT ![mu[p].x].lock = FALSE]
      BY <2>1 DEF MOpened, MAt, Local, Holding
    <3> QED BY <3>1 DEF InodeRec, SameInodes
  <2>2. CASE MClose(p)
    BY <2>2, Same DEF MClose
  <2> QED BY <2>1, <2>2
<1>2. \E r \in MuRec : /\ mu' = [mu EXCEPT ![p] = r] /\ r.ret # "umounted" /\ Local(p, r) /\ Mounting(mtab, r)
                       /\ r.file = CallHolds(mu[p]) /\ CallHolds(r) = mu[p].file
  <2>1. CASE MOpened(p)
    <3>1. PICK r : r = [MIdle EXCEPT !.file = mu[p].x]
      OBVIOUS
    <3>2. mu' = [mu EXCEPT ![p] = r] /\ mu[p].pc = "opened"
      BY <2>1, <3>1 DEF MOpened, MAt
    <3>3. mu[p].x \in InodeOrNot /\ CallHolds(mu[p]) = mu[p].x /\ mu[p].file = NoInode
      BY <3>2 DEF MuRec, Local, CallHolds, Holding
    <3>4. /\ r \in MuRec /\ r.file = mu[p].x /\ CallHolds(r) = NoInode /\ r.ret = "none"
          /\ Local(p, r) /\ Mounting(mtab, r)
      BY <3>1, <3>3, IdleRec
    <3> QED BY <3>2, <3>3, <3>4
  <2>2. CASE MClose(p)
    <3>1. PICK f : f = mu[p].file
      OBVIOUS
    <3>2. PICK r : r = [MIdle EXCEPT !.x = f, !.ret = "done", !.pc = "plock"]
      OBVIOUS
    <3>3. mu' = [mu EXCEPT ![p] = r] /\ mu[p].pc = "user" /\ f # NoInode /\ f \in InodeOrNot
      BY <2>2, <3>1, <3>2 DEF MClose, MAt, MuRec
    <3>4. PICK i : i = [MIdle EXCEPT !.file = NoInode]
      OBVIOUS
    <3>5. i \in MuRec /\ i = MIdle /\ MIdle.file = NoInode /\ MIdle.dev = NoInode
      BY <3>4, IdleRec DEF MIdle, InodeOrNot
    <3>6. r \in MuRec /\ r.pc = "plock" /\ r.x = f /\ r.ret = "done" /\ r.dev = NoInode /\ r.file = NoInode
      BY <3>2, <3>3, <3>5 DEF MuRec, Holding
    <3>7. f \in MInodes /\ CallHolds(mu[p]) = NoInode
      BY <3>3 DEF InodeOrNot, CallHolds, Holding
    <3>8. Local(p, r) /\ Mounting(mtab, r) /\ CallHolds(r) = f
      BY <3>6, <3>7 DEF Local, Mounting, CallHolds, Seeking, Holding, Outside
    <3> QED BY <3>1, <3>3, <3>6, <3>7, <3>8
  <2> QED BY <2>1, <2>2
<1>3. PICK r \in MuRec : /\ mu' = [mu EXCEPT ![p] = r] /\ r.ret # "umounted" /\ Local(p, r) /\ Mounting(mtab, r)
                         /\ r.file = CallHolds(mu[p]) /\ CallHolds(r) = mu[p].file
  BY <1>2
<1>4. Recounted(mino, mino', mu[p], r)
  <2>1. SUFFICES ASSUME NEW y \in MInodes
                 PROVE  mino'[y].count = (mino[y].count - Given(mu[p], y)) + Given(r, y)
    BY DEF Recounted
  <2>2. Given(r, y) = Given(mu[p], y)
    <3>1. PICK j \in Nat : j = One(mu[p].file, y)
      BY GivenType
    <3>2. PICK k \in Nat : k = One(CallHolds(mu[p]), y)
      BY GivenType
    <3>3. j + k = k + j
      BY Turned
    <3> QED BY <1>3, <3>1, <3>2, <3>3 DEF Given
  <2>3. mino'[y].count = mino[y].count /\ mino[y].count \in Nat
    BY <1>1 DEF SameInodes, InodeRec
  <2>4. PICK n \in Nat : n = mino[y].count
    BY <2>3
  <2>5. PICK g \in Nat : g = Given(mu[p], y)
    BY GivenType
  <2>6. n = (n - g) + g
    BY Back
  <2> QED BY <2>2, <2>3, <2>4, <2>5, <2>6
<1>5. NotMarked(mino, mino')
  BY <1>1 DEF NotMarked, SameInodes
<1> QED BY <1>0, <1>1, <1>3, <1>4, <1>5, CountStep

LEMMA ActiveFirst ==
    ASSUME MountInv, NEW d, Active(d) # {}
    PROVE  /\ Min(Active(d)) \in Ents /\ mtab[Min(Active(d))].bufp /\ mtab[Min(Active(d))].dev = d
           /\ mtab[Min(Active(d))].inodp \in MInodes
<1>1. Active(d) \in SUBSET Nat
  BY Consts DEF Active
<1>2. Min(Active(d)) \in Active(d)
  BY <1>1, MinExists
<1>3. Min(Active(d)) \in Ents /\ mtab[Min(Active(d))].bufp /\ mtab[Min(Active(d))].dev = d
  BY <1>2 DEF Active
<1>4. mtab[Min(Active(d))].inodp \in MInodes
  BY <1>3 DEF MountInv, Sound, Table
<1> QED BY <1>3, <1>4

LEMMA NotBoth == \A e, f \in Nat : ~(e <= f /\ f < e)
OBVIOUS

LEMMA Exchange == \A n \in Int, a, b, k \in Nat : (n - a) + b = (n - (a + k)) + (b + k)
OBVIOUS

(* A call gives d up and takes m.                                          *)
Drops(d, ino, i) == i = [ino EXCEPT ![d].count = @ - 1, ![d].lock = FALSE]
Adds(m, i, ino1) == ino1 = [i EXCEPT ![m].count = @ + 1]

LEMMA Swapped ==
    ASSUME MountInv, NEW d \in MInodes, NEW m \in MInodes, mino[d].count > 0, NEW r, NEW r1,
           CallHolds(r) = d, CallHolds(r1) = m, r1.file = r.file,
           NEW i, Drops(d, mino, i), NEW ino1, Adds(m, i, ino1)
    PROVE  ino1 \in [MInodes -> InodeRec] /\ NotMarked(mino, ino1) /\ Recounted(mino, ino1, r, r1)
<1>1. mino \in [MInodes -> InodeRec] /\ mino[d] \in InodeRec
  BY DEF MountInv, Sound, MTypes
<1>2. PICK t : t = [mino[d] EXCEPT !.count = @ - 1, !.lock = FALSE]
  OBVIOUS
<1>3. t \in InodeRec /\ t.count = mino[d].count - 1 /\ t.imount = mino[d].imount
  BY <1>1, <1>2, DecRec
<1>4. i = [mino EXCEPT ![d] = t]
  BY <1>1, <1>2 DEF Drops
<1>5. i \in [MInodes -> InodeRec] /\ i[d] = t /\ \A y \in MInodes : y # d => i[y] = mino[y]
  BY <1>1, <1>3, <1>4
<1>6. PICK u : u = [i[m] EXCEPT !.count = @ + 1]
  OBVIOUS
<1>7. u \in InodeRec /\ u.count = i[m].count + 1 /\ u.imount = i[m].imount
  <2>1. i[m] \in InodeRec /\ i[m].count \in Nat /\ i[m].count + 1 \in Nat
    BY <1>5 DEF InodeRec
  <2> QED BY <1>6, <2>1 DEF InodeRec
<1>8. ino1 = [i EXCEPT ![m] = u]
  BY <1>5, <1>6 DEF Adds
<1>9. ino1 \in [MInodes -> InodeRec] /\ ino1[m] = u /\ \A y \in MInodes : y # m => ino1[y] = i[y]
  BY <1>5, <1>7, <1>8
<1>10. NotMarked(mino, ino1)
  BY <1>3, <1>5, <1>7, <1>9 DEF NotMarked
<1>11. ASSUME NEW y \in MInodes
       PROVE  ino1[y].count = (mino[y].count - Given(r, y)) + Given(r1, y)
  <2>1. PICK n \in Nat : n = mino[y].count
    BY <1>1 DEF InodeRec
  <2>2. i[y].count = n - One(d, y)
    <3>1. CASE y = d
      BY <1>3, <1>5, <2>1, <3>1 DEF One
    <3>2. CASE y # d
      <4>1. i[y].count = n /\ One(d, y) = 0
        BY <1>5, <2>1, <3>2 DEF One
      <4> QED BY <4>1
    <3> QED BY <3>1, <3>2
  <2>3. ino1[y].count = i[y].count + One(m, y)
    <3>1. CASE y = m
      BY <1>7, <1>9, <3>1 DEF One
    <3>2. CASE y # m
      <4>1. ino1[y].count = i[y].count /\ One(m, y) = 0 /\ i[y].count \in Nat
        BY <1>5, <1>9, <3>2 DEF One, InodeRec
      <4> QED BY <4>1
    <3> QED BY <3>1, <3>2
  <2>4. PICK k \in Nat : k = One(r.file, y)
    BY GivenType
  <2>5. PICK a \in Nat : a = One(d, y)
    BY GivenType
  <2>6. PICK b \in Nat : b = One(m, y)
    BY GivenType
  <2>7. Given(r, y) = a + k /\ Given(r1, y) = b + k
    BY <2>4, <2>5, <2>6 DEF Given
  <2>8. (n - a) + b = (n - (a + k)) + (b + k)
    BY Exchange
  <2> QED BY <2>1, <2>2, <2>3, <2>5, <2>6, <2>7, <2>8
<1> QED BY <1>9, <1>10, <1>11 DEF Recounted

LEMMA MDots_Step ==
    ASSUME OneMounter, MountInv, NEW p \in MProcs, MDots(p)
    PROVE  MountInv'
<1> USE Facts
<1>0. mu[p].pc = "dots" /\ UNCHANGED <<mtab, mpanic>>
  BY DEF MDots, MAt
<1>1. PICK d : d = mu[p].x
  OBVIOUS
<1>2. d \in MInodes /\ mu[p].ret = "dots" /\ CallHolds(mu[p]) = d
  BY <1>0, <1>1 DEF Local, Holding, CallHolds
<1>3. CASE Active(d) = {}
  <2>1. PICK r : r = [mu[p] EXCEPT !.ret = "done", !.pc = "iput"]
    OBVIOUS
  <2>2. mu' = [mu EXCEPT ![p] = r] /\ UNCHANGED <<mtab, mino, mpanic>>
    BY <1>0, <1>1, <1>3, <2>1 DEF MDots
  <2>3. r \in MuRec /\ r.pc = "iput" /\ r.x = d /\ r.ret = "done" /\ r.dev = mu[p].dev /\ r.file = mu[p].file
    BY <1>1, <2>1 DEF MuRec, Holding
  <2>4. Local(p, r) /\ Mounting(mtab, r) /\ CallHolds(r) = d
    BY <1>2, <2>3 DEF Local, Mounting, CallHolds, Seeking, Holding, Outside
  <2> QED BY <1>2, <2>2, <2>3, <2>4, OwnStep
<1>4. CASE Active(d) # {}
  <2>0. PICK m : m = mtab[Min(Active(d))].inodp
    OBVIOUS
  <2>1. PICK r : r = [mu[p] EXCEPT !.x = m, !.ret = "done", !.pc = "plock"]
    OBVIOUS
  <2>i. PICK i : i = [mino EXCEPT ![d].count = @ - 1, ![d].lock = FALSE]
    OBVIOUS
  <2>2. mu' = [mu EXCEPT ![p] = r] /\ mino' = [i EXCEPT ![m].count = @ + 1]
    BY <1>1, <1>4, <2>0, <2>1, <2>i DEF MDots
  <2>3. m \in MInodes
    BY <1>4, <2>0, ActiveFirst
  <2>4. r \in MuRec /\ r.pc = "plock" /\ r.x = m /\ r.ret = "done" /\ r.dev = mu[p].dev /\ r.file = mu[p].file
    BY <2>1, <2>3 DEF MuRec, Holding, InodeOrNot
  <2>5. Local(p, r) /\ Mounting(mtab, r) /\ CallHolds(r) = m
    BY <2>3, <2>4 DEF Local, Mounting, CallHolds, Seeking, Holding, Outside
  <2>6. mino[d].count > 0
    BY <1>2, HeldIsCounted
  <2>7. mino' \in [MInodes -> InodeRec] /\ NotMarked(mino, mino') /\ Recounted(mino, mino', mu[p], r)
    <3>1. Drops(d, mino, i) /\ Adds(m, i, mino')
      BY <2>i, <2>2 DEF Drops, Adds
    <3> QED BY <1>2, <2>3, <2>4, <2>5, <2>6, <3>1, Swapped
  <2> QED BY <1>0, <2>2, <2>4, <2>5, <2>7, CountStep
<1> QED BY <1>3, <1>4

LEMMA SMount_Step ==
    ASSUME OneMounter, MountInv, NEW p \in MProcs, SMount(p)
    PROVE  MountInv'
<1> USE Facts
<1>0. mu[p].pc = "mount" /\ UNCHANGED <<mtab, mino, mpanic>>
  BY DEF SMount, MAt
<1>1. PICK x : x = mu[p].x
  OBVIOUS
<1>2. x \in MInodes /\ mu[p].ret = "mount" /\ CallHolds(mu[p]) = x
  BY <1>0, <1>1 DEF Local, Holding, CallHolds
<1>3. CASE MountBusy(p)
  <2>1. PICK r : r = [mu[p] EXCEPT !.ret = "done", !.pc = "iput"]
    OBVIOUS
  <2>2. mu' = [mu EXCEPT ![p] = r]
    BY <1>3, <2>1 DEF SMount
  <2>3. r \in MuRec /\ r.pc = "iput" /\ r.x = x /\ r.ret = "done" /\ r.dev = mu[p].dev /\ r.file = mu[p].file
    BY <1>1, <2>1 DEF MuRec, Holding
  <2>4. Local(p, r) /\ Mounting(mtab, r) /\ CallHolds(r) = x
    BY <1>2, <2>3 DEF Local, Mounting, CallHolds, Seeking, Holding, Outside
  <2> QED BY <1>0, <1>2, <2>2, <2>3, <2>4, OwnStep
<1>4. CASE ~MountBusy(p)
  <2>0. PICK e : e = MountEntry
    OBVIOUS
  <2>1. PICK r : r = [mu[p] EXCEPT !.ent = e, !.pc = "mread"]
    OBVIOUS
  <2>2. mu' = [mu EXCEPT ![p] = r]
    BY <1>4, <2>0, <2>1 DEF SMount
  <2>3. mino[x].count = 1 /\ Active(mu[p].dev) = {} /\ \E f \in Ents : ~mtab[f].bufp
    BY <1>1, <1>4 DEF MountBusy
  <2>4. e \in Ents /\ ~mtab[e].bufp /\ \A f \in Ents : f < e => mtab[f].bufp
    <3>1. PICK S : S = {f \in Ents : ~mtab[f].bufp}
      OBVIOUS
    <3>2. S \in SUBSET Nat /\ S # {} /\ S \subseteq Ents
      BY <2>3, <3>1, Consts
    <3>3. e \in S /\ \A n \in S : e <= n
      BY <2>0, <3>1, <3>2, MinExists DEF MountEntry
    <3>4. ASSUME NEW f \in Ents, f < e, ~mtab[f].bufp PROVE FALSE
      <4>1. f \in S /\ e \in Nat /\ f \in Nat
        BY <3>1, <3>2, <3>3, <3>4
      <4>2. e <= f
        BY <3>3, <4>1
      <4> QED BY <3>4, <4>1, <4>2, NotBoth
    <3> QED BY <3>1, <3>3, <3>4
  <2>5. \A f \in Ents : mtab[f].bufp => mtab[f].inodp # x /\ mtab[f].dev # mu[p].dev
    <3>1. ASSUME NEW f \in Ents, mtab[f].bufp
          PROVE  mtab[f].inodp # x /\ mtab[f].dev # mu[p].dev
      <4>1. mtab[f].dev # mu[p].dev
        BY <2>3, <3>1 DEF Active
      <4>2. EntryHolds(mtab[f]) = mtab[f].inodp
        BY <3>1 DEF EntryHolds
      <4>3. EntryHolds(mtab[f]) = x => mino[x].count # 1
        BY <1>2, EntryIsCounted
      <4> QED BY <2>3, <4>1, <4>2, <4>3
    <3> QED BY <3>1
  <2>6. r \in MuRec /\ r.pc = "mread" /\ r.x = x /\ r.ret = "mount" /\ r.dev = mu[p].dev
        /\ r.ent = e /\ r.file = mu[p].file
    <3>1. e \in 0 .. NMOUNT - 1
      BY <2>4, Consts
    <3> QED BY <1>1, <1>2, <2>1, <3>1 DEF MuRec, Holding
  <2>7. Local(p, r) /\ CallHolds(r) = x
    BY <1>2, <2>6 DEF Local, CallHolds, Seeking, Holding, Outside
  <2>8. Mounting(mtab, r)
    BY <2>4, <2>5, <2>6 DEF Mounting
  <2> QED BY <1>0, <1>2, <2>2, <2>6, <2>7, <2>8, OwnStep
<1> QED BY <1>3, <1>4

LEMMA UpdateNext_Step ==
    ASSUME OneMounter, MountInv, NEW p \in MProcs, UpdateNext(p)
    PROVE  MountInv'
<1> USE Facts
<1>0. mu[p].pc = "upd" /\ UNCHANGED <<mtab, mpanic>>
  BY DEF UpdateNext, MAt
<1>1. CallHolds(mu[p]) = NoInode /\ mu[p].ret = "none"
  BY <1>0 DEF CallHolds, Holding, Local, Outside
<1>2. PICK S : S = {e \in Ents : e > mu[p].ent /\ mtab[e].bufp /\ mtab[e].fmod}
  OBVIOUS
<1>3. CASE S # {} /\ mu' = [mu EXCEPT ![p].ent = Min(S), ![p].pc = "supd"] /\ UNCHANGED mino
  <2>1. Min(S) \in 0 .. NMOUNT - 1
    <3>1. S \in SUBSET Nat /\ S \subseteq Ents
      BY <1>2, Consts
    <3>2. Min(S) \in S
      BY <1>3, <3>1, MinExists
    <3> QED BY <3>1, <3>2, Consts
  <2>2. PICK e \in 0 .. NMOUNT - 1 : e = Min(S)
    BY <2>1
  <2>3. PICK r : r = [mu[p] EXCEPT !.ent = e, !.pc = "supd"]
    OBVIOUS
  <2>4. mu' = [mu EXCEPT ![p] = r] /\ UNCHANGED <<mtab, mino, mpanic>>
    BY <1>0, <1>3, <2>2, <2>3
  <2>5. r \in MuRec /\ r.pc = "supd" /\ r.x = mu[p].x /\ r.ret = "none" /\ r.dev = mu[p].dev
        /\ r.file = mu[p].file
    BY <1>1, <2>2, <2>3 DEF MuRec, Outside
  <2>6. Local(p, r) /\ Mounting(mtab, r) /\ CallHolds(r) = NoInode
    BY <2>5 DEF Local, Mounting, CallHolds, Seeking, Holding, Outside
  <2> QED BY <1>1, <2>4, <2>5, <2>6, OwnStep
<1>4. CASE mu' = Updated(p) /\ UNCHANGED mino
  BY <1>0, <1>4, UpdatedStep
<1>5. CASE \E x \in MInodes :
             /\ mino[x].count > 0 /\ ~mino[x].lock
             /\ mino' = [mino EXCEPT ![x].count = @ + 1, ![x].lock = TRUE]
             /\ mu' = [mu EXCEPT ![p].x = x, ![p].ret = "updated", ![p].pc = "iupd"]
  <2>1. PICK x \in MInodes : /\ mino' = [mino EXCEPT ![x].count = @ + 1, ![x].lock = TRUE]
                             /\ mu' = [mu EXCEPT ![p].x = x, ![p].ret = "updated", ![p].pc = "iupd"]
    BY <1>5
  <2>2. PICK r : r = [mu[p] EXCEPT !.x = x, !.ret = "updated", !.pc = "iupd"]
    OBVIOUS
  <2>3. PICK t : t = [mino[x] EXCEPT !.count = @ + 1, !.lock = TRUE]
    OBVIOUS
  <2>4. mu' = [mu EXCEPT ![p] = r] /\ mino' = [mino EXCEPT ![x] = t]
    BY <2>1, <2>2, <2>3
  <2>5. mino[x] \in InodeRec
    OBVIOUS
  <2>6. t \in InodeRec /\ t.count = mino[x].count + 1 /\ t.imount = mino[x].imount /\ mino[x].count \in Nat
    BY <2>3, <2>5, IncRec
  <2>7. r \in MuRec /\ r.pc = "iupd" /\ r.x = x /\ r.ret = "updated" /\ r.dev = mu[p].dev
        /\ r.file = mu[p].file
    BY <2>2 DEF MuRec, Holding, InodeOrNot
  <2>8. Local(p, r) /\ Mounting(mtab, r) /\ CallHolds(r) = x
    BY <2>7 DEF Local, Mounting, CallHolds, Seeking, Holding, Outside
  <2>9. Taking(x, mino[x].count, t.count, mu[p], r)
    BY <1>1, <2>6, <2>7, <2>8, Takes
  <2>10. mino' \in [MInodes -> InodeRec] /\ NotMarked(mino, mino') /\ Recounted(mino, mino', mu[p], r)
    BY <2>4, <2>6, <2>9, Bump DEF Taking
  <2> QED BY <1>0, <2>4, <2>7, <2>8, <2>10, CountStep
<1> QED BY <1>2, <1>3, <1>4, <1>5 DEF UpdateNext

SameCalls(c, c1) == \A q \in MProcs : CallHolds(c1[q]) = CallHolds(c[q]) /\ c1[q].file = c[q].file
SameEntries(tab, tab1) == \A f \in Ents : EntryHolds(tab1[f]) = EntryHolds(tab[f])

LEMMA SameHolds ==
    ASSUME NEW tab, NEW tab1, NEW c, NEW c1, SameCalls(c, c1), SameEntries(tab, tab1)
    PROVE  HoldsOf(tab1, c1) = HoldsOf(tab, c)
<1>1. ASSUME NEW z \in Places
      PROVE  HoldsOf(tab1, c1)[z] = HoldsOf(tab, c)[z]
  <2>1. CASE z \in MProcs \X {1, 2}
    <3>1. PICK q \in MProcs, i \in {1, 2} : z = <<q, i>>
      BY <2>1
    <3> QED BY <1>1, <3>1 DEF HoldsOf, SameCalls
  <2>2. CASE z \in Ents \X {3}
    <3>1. PICK e \in Ents : z = <<e, 3>>
      BY <2>2
    <3> QED BY <1>1, <3>1 DEF HoldsOf, SameEntries
  <2> QED BY <1>1, <2>1, <2>2 DEF Places
<1>2. HoldsOf(tab1, c1) = [z \in Places |-> HoldsOf(tab1, c1)[z]]
      /\ HoldsOf(tab, c) = [z \in Places |-> HoldsOf(tab, c)[z]]
  BY DEF HoldsOf
<1> QED BY <1>1, <1>2

LEMMA SMountRead_Step ==
    ASSUME OneMounter, MountInv, NEW p \in MProcs, SMountRead(p)
    PROVE  MountInv'
<1> USE Facts
<1>0. mu[p].pc = "mread" /\ UNCHANGED <<mino, mpanic>>
  BY DEF SMountRead, MAt
<1>1. PICK x : x = mu[p].x
  OBVIOUS
<1>2. x \in MInodes /\ mu[p].ret = "mount" /\ CallHolds(mu[p]) = x /\ mu[p].dev \in Devs /\ p \in Mounters
  <2>1. mu[p].dev \in Devs /\ mu[p].dev # NoInode
    BY <1>0, Consts DEF Local
  <2> QED BY <1>0, <1>1, <2>1 DEF Local, Holding, CallHolds
<1>3. CASE mu' = [mu EXCEPT ![p].ret = "done", ![p].pc = "iput"] /\ UNCHANGED mtab
  <2>1. PICK r : r = [mu[p] EXCEPT !.ret = "done", !.pc = "iput"]
    OBVIOUS
  <2>2. mu' = [mu EXCEPT ![p] = r]
    BY <1>3, <2>1
  <2>3. r \in MuRec /\ r.pc = "iput" /\ r.x = x /\ r.ret = "done" /\ r.dev = mu[p].dev /\ r.file = mu[p].file
    BY <1>1, <2>1 DEF MuRec, Holding
  <2>4. Local(p, r) /\ Mounting(mtab, r) /\ CallHolds(r) = x
    BY <1>2, <2>3 DEF Local, Mounting, CallHolds, Seeking, Holding, Outside
  <2> QED BY <1>0, <1>2, <1>3, <2>2, <2>3, <2>4, OwnStep
<1>4. CASE /\ mtab' = [mtab EXCEPT ![mu[p].ent].inodp = mu[p].x, ![mu[p].ent].dev = mu[p].dev]
           /\ mu' = [mu EXCEPT ![p].pc = "geteblk"]
  <2>1. PICK e : e = mu[p].ent
    OBVIOUS
  <2>2. e \in Ents /\ ~mtab[e].bufp
    BY <1>0, <2>1 DEF Mounting
  <2>3. \A f \in Ents : (f < e => mtab[f].bufp) /\ (mtab[f].bufp => mtab[f].inodp # x /\ mtab[f].dev # mu[p].dev)
    BY <1>0, <1>1, <2>1 DEF Mounting
  <2>4. PICK t : t = [mtab[e] EXCEPT !.inodp = x, !.dev = mu[p].dev]
    OBVIOUS
  <2>5. t \in EntryRec /\ t.bufp = mtab[e].bufp /\ t.inodp = x /\ t.dev = mu[p].dev
    BY <1>2, <2>2, <2>4 DEF EntryRec, InodeOrNot
  <2>6. PICK tab : tab = [mtab EXCEPT ![e] = t]
    OBVIOUS
  <2>7. mtab' = tab
    BY <1>1, <1>4, <2>1, <2>2, <2>4, <2>6
  <2>8. tab \in [Ents -> EntryRec] /\ tab[e] = t /\ \A f \in Ents : f # e => tab[f] = mtab[f]
    BY <2>2, <2>5, <2>6
  <2>9. PICK r : r = [mu[p] EXCEPT !.pc = "geteblk"]
    OBVIOUS
  <2>10. mu' = [mu EXCEPT ![p] = r]
    BY <1>4, <2>9
  <2>11. r \in MuRec /\ r.pc = "geteblk" /\ r.x = x /\ r.ret = "mount" /\ r.dev = mu[p].dev
         /\ r.ent = e /\ r.file = mu[p].file
    BY <1>1, <1>2, <2>1, <2>9 DEF MuRec, Holding
  <2>12. Local(p, r) /\ CallHolds(r) = x
    BY <1>2, <2>11 DEF Local, CallHolds, Seeking, Holding, Outside
  <2>13. Mounting(tab, r)
    BY <2>2, <2>3, <2>5, <2>8, <2>11 DEF Mounting
  <2>14. Table(tab)
    <3>1. Table(mtab)
      BY DEF MountInv, Sound
    <3>2. ASSUME NEW f \in Ents, tab[f].bufp
          PROVE  f # e /\ tab[f] = mtab[f]
      BY <2>2, <2>5, <2>8, <3>2
    <3> QED BY <3>1, <3>2 DEF Table
  <2>15. mu' \in [MProcs -> MuRec] /\ mu'[p] = r /\ \A q \in MProcs : q # p => mu'[q] = mu[q]
    BY <2>10, <2>11
  <2>16. Marked(tab, mino, mu')
    <3>1. SUFFICES ASSUME NEW y \in MInodes, mino[y].imount
                   PROVE  \E f \in Ents : LeadsFrom(tab, mu', f, y)
      BY DEF Marked
    <3>2. PICK f \in Ents : LeadsFrom(mtab, mu, f, y)
      BY <3>1 DEF MountInv, Sound, Marked
    <3>3. f # e /\ y # x
      BY <2>2, <2>3, <3>2 DEF LeadsFrom
    <3>4. tab[f].bufp /\ tab[f].inodp = y
      BY <2>8, <3>2, <3>3 DEF LeadsFrom
    <3>5. \A g \in Ents : g < f => tab[g].inodp # y
      BY <2>5, <2>8, <3>2, <3>3 DEF LeadsFrom
    <3>6. \A q \in MProcs : mu'[q].ret = "umounted" => mu'[q].ent # f
      BY <2>11, <2>15, <3>2 DEF LeadsFrom
    <3> QED BY <3>4, <3>5, <3>6 DEF LeadsFrom
  <2>17. RefsAdd(tab, mino, mu')
    <3>1. SUFFICES ASSUME NEW y \in MInodes
                   PROVE  mino[y].count = Count(HoldsOf(tab, mu'), y)
      BY DEF RefsAdd
    <3>2. HoldsOf(tab, mu') = HoldsOf(mtab, mu)
      <4>1. \A q \in MProcs : CallHolds(mu'[q]) = CallHolds(mu[q]) /\ mu'[q].file = mu[q].file
        BY <1>2, <2>11, <2>12, <2>15
      <4>2. \A f \in Ents : EntryHolds(tab[f]) = EntryHolds(mtab[f])
        BY <2>2, <2>5, <2>8 DEF EntryHolds
      <4>3. SameCalls(mu, mu') /\ SameEntries(mtab, tab)
        BY <4>1, <4>2 DEF SameCalls, SameEntries
      <4> QED BY <4>3, SameHolds, ZenonT(80)
    <3> QED BY <3>2 DEF MountInv, Sound, RefsAdd
  <2>18. Sound(mtab, mino, mu)
    BY DEF MountInv
  <2>19. Sound(tab, mino, mu')
    BY <1>2, <2>8, <2>10, <2>11, <2>12, <2>13, <2>14, <2>16, <2>17, <2>18, Step
  <2> QED BY <1>0, <2>7, <2>19 DEF MountInv
<1> QED BY <1>3, <1>4 DEF SMountRead

LEMMA Back0 == \A n, a \in Nat : n = (n - (a + 0)) + a /\ n - a = (n - (0 + a)) + 0
OBVIOUS

Reentered(ino, ino1, x, a, b) ==
    \A y \in MInodes : ino1[y].count = (ino[y].count - (One(x, y) + One(a, y))) + One(b, y)

(* The entry e changes and p, the mounter, returns.                        *)
LEMMA EntryRefs ==
    ASSUME MountInv, NEW p \in MProcs, NEW e \in Ents, NEW tab1, NEW ino1, NEW c1,
           OthersSame(p, mu, c1), c1[p].file = mu[p].file, SameTableBut(e, mtab, tab1),
           CallHolds(c1[p]) = NoInode,
           Reentered(mino, ino1, CallHolds(mu[p]), EntryHolds(mtab[e]), EntryHolds(tab1[e]))
    PROVE  RefsAdd(tab1, ino1, c1)
<1>1. SUFFICES ASSUME NEW y \in MInodes
               PROVE  ino1[y].count = Count(HoldsOf(tab1, c1), y)
  BY DEF RefsAdd
<1>2. EntryCount(mtab, tab1, mu, c1, p, e, y)
  BY EntryCounts
<1>3. mino[y].count = Count(HoldsOf(mtab, mu), y)
  BY DEF MountInv, Sound, RefsAdd
<1>4. One(CallHolds(c1[p]), y) = 0
  BY Consts DEF One
<1>5. PICK b \in Nat : b = One(EntryHolds(tab1[e]), y)
  BY GivenType
<1>6. 0 + b = b
  OBVIOUS
<1> QED BY <1>2, <1>3, <1>4, <1>5, <1>6 DEF EntryCount, Reentered

LEMMA SMountDone_Step ==
    ASSUME OneMounter, MountInv, NEW p \in MProcs, SMountDone(p)
    PROVE  MountInv'
<1> USE Facts
<1>0. mu[p].pc = "geteblk" /\ UNCHANGED mpanic
  BY DEF SMountDone, MAt
<1>1. PICK x : x = mu[p].x
  OBVIOUS
<1>2. x \in MInodes /\ mu[p].ret = "mount" /\ CallHolds(mu[p]) = x /\ mu[p].dev \in Devs /\ p \in Mounters
  <2>1. mu[p].dev \in Devs /\ mu[p].dev # NoInode
    BY <1>0, Consts DEF Local
  <2> QED BY <1>0, <1>1, <2>1 DEF Local, Holding, CallHolds
<1>3. PICK e : e = mu[p].ent
  OBVIOUS
<1>4. /\ e \in Ents /\ ~mtab[e].bufp /\ mtab[e].inodp = x /\ mtab[e].dev = mu[p].dev
      /\ \A f \in Ents : (f < e => mtab[f].bufp) /\ (mtab[f].bufp => mtab[f].inodp # x /\ mtab[f].dev # mu[p].dev)
  BY <1>0, <1>1, <1>3 DEF Mounting
<1>5. PICK t : t = [mtab[e] EXCEPT !.bufp = TRUE, !.fmod = FALSE]
  OBVIOUS
<1>6. t \in EntryRec /\ t.bufp /\ t.inodp = x /\ t.dev = mu[p].dev
  BY <1>4, <1>5 DEF EntryRec
<1>7. PICK tab : tab = [mtab EXCEPT ![e] = t]
  OBVIOUS
<1>8. PICK u : u = [mino[x] EXCEPT !.imount = TRUE, !.lock = FALSE]
  OBVIOUS
<1>9. PICK ino : ino = [mino EXCEPT ![x] = u]
  OBVIOUS
<1>10. PICK r : r = [MIdle EXCEPT !.file = mu[p].file]
  OBVIOUS
<1>11. mtab' = tab
  BY <1>3, <1>4, <1>5, <1>7 DEF SMountDone
<1>12. mino' = ino
  BY <1>1, <1>2, <1>8, <1>9 DEF SMountDone
<1>13. mu' = [mu EXCEPT ![p] = r]
  BY <1>10 DEF SMountDone, MReturn
<1>14. tab \in [Ents -> EntryRec] /\ tab[e] = t /\ \A f \in Ents : f # e => tab[f] = mtab[f]
  BY <1>4, <1>6, <1>7
<1>15. u \in InodeRec /\ u.count = mino[x].count
  <2>1. mino[x] \in InodeRec
    BY <1>2
  <2> QED BY <1>8, <2>1 DEF InodeRec
<1>16. ino \in [MInodes -> InodeRec] /\ ino[x] = u /\ \A y \in MInodes : y # x => ino[y] = mino[y]
  BY <1>2, <1>9, <1>15
<1>17. /\ r \in MuRec /\ r.file = mu[p].file /\ CallHolds(r) = NoInode /\ r.ret = "none"
       /\ Local(p, r) /\ Mounting(tab, r)
  <2>1. mu[p].file \in InodeOrNot
    BY DEF MuRec
  <2> QED BY <1>10, <2>1, IdleRec, ZenonT(60)
<1>18. mu' \in [MProcs -> MuRec] /\ mu'[p] = r /\ \A q \in MProcs : q # p => mu'[q] = mu[q]
  BY <1>13, <1>17
<1>19. Table(tab)
  <2>1. Table(mtab)
    BY DEF MountInv, Sound
  <2>2. ASSUME NEW f \in Ents, tab[f].bufp, f # e
        PROVE  /\ tab[f].dev \in Devs /\ tab[f].inodp \in MInodes
               /\ tab[f].dev # tab[e].dev /\ tab[f].inodp # tab[e].inodp
               /\ \A g \in Ents \ {f} : g # e /\ tab[g].bufp => tab[g].dev # tab[f].dev /\ tab[g].inodp # tab[f].inodp
    <3>1. tab[f] = mtab[f] /\ \A g \in Ents : g # e => tab[g] = mtab[g]
      BY <1>14, <2>2
    <3>2. mtab[f].bufp /\ mtab[f].dev \in Devs /\ mtab[f].inodp \in MInodes
      BY <2>1, <2>2, <3>1 DEF Table
    <3>3. tab[f].dev # tab[e].dev /\ tab[f].inodp # tab[e].inodp
      BY <1>4, <1>6, <1>14, <2>2, <3>1, <3>2
    <3>4. \A g \in Ents \ {f} : mtab[g].bufp => mtab[g].dev # mtab[f].dev /\ mtab[g].inodp # mtab[f].inodp
      BY <2>1, <2>2, <3>2 DEF Table
    <3>5. \A g \in Ents \ {f} : g # e /\ tab[g].bufp => tab[g].dev # tab[f].dev /\ tab[g].inodp # tab[f].inodp
      BY <3>1, <3>4
    <3> QED BY <3>1, <3>2, <3>3, <3>5
  <2>3. tab[e].dev \in Devs /\ tab[e].inodp \in MInodes
    BY <1>2, <1>6, <1>14
  <2> QED BY <2>2, <2>3 DEF Table
<1>20. Marked(tab, ino, mu')
  <2>1. SUFFICES ASSUME NEW y \in MInodes, ino[y].imount
                 PROVE  \E f \in Ents : LeadsFrom(tab, mu', f, y)
    BY DEF Marked
  <2>2. CASE y = x
    <3>1. tab[e].bufp /\ tab[e].inodp = y
      BY <1>6, <1>14, <2>2
    <3>2. \A f \in Ents : f < e => tab[f].inodp # y
      <4>1. ASSUME NEW f \in Ents, f < e PROVE tab[f].inodp # y
        <5>1. f # e
          BY <1>4, <4>1, Consts
        <5> QED BY <1>4, <1>14, <2>2, <4>1, <5>1
      <4> QED BY <4>1
    <3>3. \A q \in MProcs : mu'[q].ret = "umounted" => mu'[q].ent # e
      <4>1. ASSUME NEW q \in MProcs, q # p PROVE mu'[q].ret # "umounted"
        <5>1. q \notin Mounters /\ Local(q, mu[q]) /\ NoInode \notin Devs
          BY <1>2, <4>1, Consts DEF OneMounter
        <5>2. mu[q].ret # "umounted"
          BY <5>1 DEF Local
        <5> QED BY <1>18, <4>1, <5>2
      <4> QED BY <1>17, <1>18, <4>1
    <3> QED BY <1>4, <3>1, <3>2, <3>3 DEF LeadsFrom
  <2>3. CASE y # x
    <3>1. PICK f \in Ents : LeadsFrom(mtab, mu, f, y)
      BY <1>16, <2>1, <2>3 DEF MountInv, Sound, Marked
    <3>2. f # e
      BY <1>4, <3>1 DEF LeadsFrom
    <3>3. tab[f].bufp /\ tab[f].inodp = y
      BY <1>14, <3>1, <3>2 DEF LeadsFrom
    <3>4. \A g \in Ents : g < f => tab[g].inodp # y
      BY <1>6, <1>14, <2>3, <3>1 DEF LeadsFrom
    <3>5. \A q \in MProcs : mu'[q].ret = "umounted" => mu'[q].ent # f
      BY <1>17, <1>18, <3>1 DEF LeadsFrom
    <3> QED BY <3>3, <3>4, <3>5 DEF LeadsFrom
  <2> QED BY <2>2, <2>3
<1>21. RefsAdd(tab, ino, mu')
  <2>1. OthersSame(p, mu, mu') /\ SameTableBut(e, mtab, tab)
    BY <1>14, <1>18 DEF OthersSame, SameTableBut, SameEntry
  <2>2. EntryHolds(mtab[e]) = NoInode /\ EntryHolds(tab[e]) = x
    BY <1>4, <1>6, <1>14 DEF EntryHolds
  <2>3. ASSUME NEW y \in MInodes
        PROVE  ino[y].count = (mino[y].count - (One(CallHolds(mu[p]), y) + One(EntryHolds(mtab[e]), y)))
                              + One(EntryHolds(tab[e]), y)
    <3>1. PICK n \in Nat : n = mino[y].count
      BY DEF InodeRec
    <3>2. PICK a \in Nat : a = One(x, y)
      BY GivenType
    <3>3. One(NoInode, y) = 0
      BY Consts DEF One
    <3>4. n = (n - (a + 0)) + a
      BY Back0
    <3>5. ino[y].count = n
      BY <1>15, <1>16, <3>1
    <3> QED BY <1>2, <2>2, <3>1, <3>2, <3>3, <3>4, <3>5
  <2>4. mu'[p].file = mu[p].file /\ CallHolds(mu'[p]) = NoInode
    BY <1>17, <1>18
  <2>5. Reentered(mino, ino, CallHolds(mu[p]), EntryHolds(mtab[e]), EntryHolds(tab[e]))
    BY <2>3 DEF Reentered
  <2> QED BY <1>4, <2>1, <2>4, <2>5, EntryRefs
<1>22. Sound(mtab, mino, mu)
  BY DEF MountInv
<1>23. Sound(tab, ino, mu')
  BY <1>2, <1>13, <1>14, <1>16, <1>17, <1>19, <1>20, <1>21, <1>22, Step
<1> QED BY <1>0, <1>11, <1>12, <1>23 DEF MountInv

LEMMA Minus0 == \A n \in Nat : n - 0 = n
OBVIOUS

LEMMA MIputUmount_Step ==
    ASSUME OneMounter, MountInv, NEW p \in MProcs, MIput(p), mu[p].ret = "umounted"
    PROVE  MountInv'
<1> USE Facts
<1>0. mu[p].pc \in {"iput", "iupdat"} /\ UNCHANGED mpanic
  BY DEF MIput, MAt
<1>1. PICK x : x = mu[p].x
  OBVIOUS
<1>2. x \in MInodes /\ CallHolds(mu[p]) = NoInode /\ p \in Mounters
  <2>1. mu[p].dev \in Devs /\ mu[p].dev # NoInode
    BY <1>0, Consts DEF Local
  <2> QED BY <1>0, <1>1, <2>1 DEF Local, Holding, CallHolds
<1>3. PICK e : e = mu[p].ent
  OBVIOUS
<1>4. e \in Ents /\ mtab[e].bufp /\ mtab[e].inodp = x
  BY <1>1, <1>3 DEF Mounting
<1>5. PICK t : t = [mtab[e] EXCEPT !.bufp = FALSE, !.fmod = FALSE]
  OBVIOUS
<1>6. t \in EntryRec /\ ~t.bufp /\ t.inodp = x
  BY <1>4, <1>5 DEF EntryRec
<1>7. PICK tab : tab = [mtab EXCEPT ![e] = t]
  OBVIOUS
<1>8. PICK u : u = [mino[x] EXCEPT !.count = @ - 1, !.lock = FALSE]
  OBVIOUS
<1>9. PICK ino : ino = [mino EXCEPT ![x] = u]
  OBVIOUS
<1>10. PICK r : r = [MIdle EXCEPT !.file = mu[p].file]
  OBVIOUS
<1>11. mtab' = tab
  BY <1>3, <1>4, <1>5, <1>7 DEF MIput
<1>12. mino' = ino
  BY <1>1, <1>2, <1>8, <1>9 DEF MIput
<1>13. mu' = [mu EXCEPT ![p] = r]
  BY <1>10 DEF MIput, MReturn
<1>14. tab \in [Ents -> EntryRec] /\ tab[e] = t /\ \A f \in Ents : f # e => tab[f] = mtab[f]
  BY <1>4, <1>6, <1>7
<1>15. EntryHolds(mtab[e]) = x /\ EntryHolds(tab[e]) = NoInode
  BY <1>4, <1>6, <1>14 DEF EntryHolds
<1>16. u \in InodeRec /\ u.count = mino[x].count - 1 /\ u.imount = mino[x].imount /\ mino[x].count \in Nat
  <2>1. mino[x] \in InodeRec /\ mino[x].count > 0
    BY <1>2, <1>4, <1>15, EntryIsCounted
  <2> QED BY <1>8, <2>1, DecRec
<1>17. ino \in [MInodes -> InodeRec] /\ ino[x] = u /\ \A y \in MInodes : y # x => ino[y] = mino[y]
  BY <1>2, <1>9, <1>16
<1>18. /\ r \in MuRec /\ r.file = mu[p].file /\ CallHolds(r) = NoInode /\ r.ret = "none"
       /\ Local(p, r) /\ Mounting(tab, r)
  <2>1. mu[p].file \in InodeOrNot
    BY DEF MuRec
  <2> QED BY <1>10, <2>1, IdleRec, ZenonT(60)
<1>19. mu' \in [MProcs -> MuRec] /\ mu'[p] = r /\ \A q \in MProcs : q # p => mu'[q] = mu[q]
  BY <1>13, <1>18
<1>20. Table(tab)
  <2>1. Table(mtab)
    BY DEF MountInv, Sound
  <2>2. ASSUME NEW f \in Ents, tab[f].bufp
        PROVE  f # e /\ tab[f] = mtab[f]
    BY <1>4, <1>6, <1>14, <2>2
  <2> QED BY <2>1, <2>2, ZenonT(60) DEF Table
<1>21. Marked(tab, ino, mu')
  <2>1. SUFFICES ASSUME NEW y \in MInodes, ino[y].imount
                 PROVE  \E f \in Ents : LeadsFrom(tab, mu', f, y)
    BY DEF Marked
  <2>2. mino[y].imount
    BY <1>16, <1>17, <2>1
  <2>3. PICK f \in Ents : LeadsFrom(mtab, mu, f, y)
    BY <2>2 DEF MountInv, Sound, Marked
  <2>4. f # e
    BY <1>3, <2>3 DEF LeadsFrom
  <2>5. tab[f].bufp /\ tab[f].inodp = y
    BY <1>14, <2>3, <2>4 DEF LeadsFrom
  <2>6. \A g \in Ents : g < f => tab[g].inodp # y
    <3>1. \A g \in Ents : tab[g].inodp = mtab[g].inodp
      BY <1>4, <1>6, <1>14
    <3> QED BY <2>3, <3>1 DEF LeadsFrom
  <2>7. \A q \in MProcs : mu'[q].ret = "umounted" => mu'[q].ent # f
    BY <1>18, <1>19, <2>3 DEF LeadsFrom
  <2> QED BY <2>5, <2>6, <2>7 DEF LeadsFrom
<1>22. RefsAdd(tab, ino, mu')
  <2>1. OthersSame(p, mu, mu') /\ SameTableBut(e, mtab, tab)
    BY <1>14, <1>19 DEF OthersSame, SameTableBut, SameEntry
  <2>2. ASSUME NEW y \in MInodes
        PROVE  ino[y].count = (mino[y].count - (One(CallHolds(mu[p]), y) + One(EntryHolds(mtab[e]), y)))
                              + One(EntryHolds(tab[e]), y)
    <3>1. PICK n \in Nat : n = mino[y].count
      BY DEF InodeRec
    <3>2. PICK a \in Nat : a = One(x, y)
      BY GivenType
    <3>3. One(NoInode, y) = 0
      BY Consts DEF One
    <3>4. n - a = (n - (0 + a)) + 0
      BY Back0
    <3>5. ino[y].count = n - a
      <4>1. CASE y = x
        BY <1>16, <1>17, <3>1, <3>2, <4>1 DEF One
      <4>2. CASE y # x
        <5>1. a = 0 /\ ino[y].count = n
          BY <1>17, <3>1, <3>2, <4>2 DEF One
        <5>2. n - 0 = n
          BY Minus0
        <5> QED BY <5>1, <5>2
      <4> QED BY <4>1, <4>2
    <3> QED BY <1>2, <1>15, <3>1, <3>2, <3>3, <3>4, <3>5
  <2>3. mu'[p].file = mu[p].file /\ CallHolds(mu'[p]) = NoInode
    BY <1>18, <1>19
  <2>4. Reentered(mino, ino, CallHolds(mu[p]), EntryHolds(mtab[e]), EntryHolds(tab[e]))
    BY <2>2 DEF Reentered
  <2> QED BY <1>4, <2>1, <2>3, <2>4, EntryRefs
<1>23. Sound(mtab, mino, mu)
  BY DEF MountInv
<1>24. Sound(tab, ino, mu')
  BY <1>2, <1>13, <1>14, <1>17, <1>18, <1>20, <1>21, <1>22, <1>23, Step
<1> QED BY <1>0, <1>11, <1>12, <1>24 DEF MountInv

LEMMA SUmount_Step ==
    ASSUME OneMounter, MountInv, NEW p \in MProcs, SUmount(p)
    PROVE  MountInv'
<1> USE Facts
<1>0. mu[p].pc = "umount" /\ UNCHANGED <<mtab, mpanic>>
  BY DEF SUmount, MAt
<1>1. CallHolds(mu[p]) = NoInode /\ mu[p].dev \in Devs /\ p \in Mounters
  <2>1. mu[p].dev \in Devs /\ mu[p].dev # NoInode
    BY <1>0, Consts DEF Local
  <2> QED BY <1>0, <2>1 DEF Local, Holding, CallHolds
<1>2. CASE mu' = MReturn(p) /\ UNCHANGED mino
  BY <1>0, <1>1, <1>2, ReturnStep
<1>3. PICK d : d = mu[p].dev
  OBVIOUS
<1>4. PICK e : e = Min(Active(d))
  OBVIOUS
<1>5. PICK x : x = mtab[e].inodp
  OBVIOUS
<1>6. CASE /\ Active(d) # {}
           /\ mino' = [mino EXCEPT ![x].imount = FALSE]
           /\ mu' = [mu EXCEPT ![p].ent = e, ![p].x = x, ![p].ret = "umounted", ![p].pc = "plock"]
  <2>1. e \in Ents /\ mtab[e].bufp /\ x \in MInodes
    BY <1>4, <1>5, <1>6, ActiveFirst
  <2>2. PICK r : r = [mu[p] EXCEPT !.ent = e, !.x = x, !.ret = "umounted", !.pc = "plock"]
    OBVIOUS
  <2>3. mu' = [mu EXCEPT ![p] = r]
    BY <1>6, <2>2
  <2>4. r \in MuRec /\ r.pc = "plock" /\ r.x = x /\ r.ret = "umounted" /\ r.dev = mu[p].dev
        /\ r.ent = e /\ r.file = mu[p].file
    <3>1. e \in 0 .. NMOUNT - 1
      BY <2>1, Consts
    <3> QED BY <2>1, <2>2, <3>1 DEF MuRec, Holding, InodeOrNot
  <2>5. Local(p, r) /\ CallHolds(r) = NoInode
    BY <1>1, <2>1, <2>4 DEF Local, CallHolds, Seeking, Holding, Outside
  <2>6. Mounting(mtab, r)
    BY <1>5, <2>1, <2>4 DEF Mounting
  <2>7. PICK ino : ino = [mino EXCEPT ![x].imount = FALSE]
    OBVIOUS
  <2>8. /\ ino \in [MInodes -> InodeRec] /\ ~ino[x].imount
        /\ \A y \in MInodes : ino[y].count = mino[y].count /\ (y # x => ino[y] = mino[y])
    BY <2>1, <2>7 DEF InodeRec
  <2>9. mu' \in [MProcs -> MuRec] /\ mu'[p] = r /\ \A q \in MProcs : q # p => mu'[q] = mu[q]
    BY <2>3, <2>4
  <2>10. Marked(mtab, ino, mu')
    <3>1. SUFFICES ASSUME NEW y \in MInodes, ino[y].imount
                   PROVE  \E f \in Ents : LeadsFrom(mtab, mu', f, y)
      BY DEF Marked
    <3>2. y # x /\ mino[y].imount
      BY <2>8, <3>1
    <3>3. PICK f \in Ents : LeadsFrom(mtab, mu, f, y)
      BY <3>2 DEF MountInv, Sound, Marked
    <3>4. f # e
      BY <1>5, <3>2, <3>3 DEF LeadsFrom
    <3>5. \A q \in MProcs : mu'[q].ret = "umounted" => mu'[q].ent # f
      BY <2>4, <2>9, <3>3, <3>4 DEF LeadsFrom
    <3> QED BY <3>3, <3>5 DEF LeadsFrom
  <2>11. RefsAdd(mtab, ino, mu')
    <3>1. SameCalls(mu, mu') /\ SameEntries(mtab, mtab)
      BY <1>1, <2>4, <2>5, <2>9 DEF SameCalls, SameEntries
    <3>2. HoldsOf(mtab, mu') = HoldsOf(mtab, mu)
      BY <3>1, SameHolds, ZenonT(60)
    <3> QED BY <2>8, <3>2 DEF MountInv, Sound, RefsAdd
  <2>12. Sound(mtab, mino, mu) /\ Table(mtab)
    BY DEF MountInv, Sound
  <2>13. Sound(mtab, ino, mu')
    BY <1>1, <2>3, <2>4, <2>5, <2>6, <2>8, <2>10, <2>11, <2>12, Step
  <2> QED BY <1>0, <1>6, <2>7, <2>13 DEF MountInv
<1> QED BY <1>2, <1>3, <1>4, <1>5, <1>6 DEF SUmount

-----------------------------------------------------------------------------
LEMMA Init_Inv == MountInit => MountInv
<1> SUFFICES ASSUME MountInit
             PROVE  MountInv
  OBVIOUS
<1>1. PICK r : r = [MIdle EXCEPT !.file = NoInode]
  OBVIOUS
<1>2. r = MIdle
  BY <1>1 DEF MIdle
<1>3. NoInode \in InodeOrNot
  BY DEF InodeOrNot
<1>4. ASSUME NEW p \in MProcs
      PROVE  /\ r \in MuRec /\ r.file = NoInode /\ CallHolds(r) = NoInode /\ r.ret = "none"
             /\ Local(p, r) /\ Mounting(mtab, r) /\ mu[p] = r
  BY <1>1, <1>2, <1>3, IdleRec DEF MountInit
<1>5. MTypes(mtab, mino, mu)
  <2>1. mtab \in [Ents -> EntryRec]
    BY <1>3 DEF MountInit, EntryRec
  <2>2. mino \in [MInodes -> InodeRec]
    <3>1. 0 \in Nat
      OBVIOUS
    <3> QED BY <3>1 DEF MountInit, InodeRec
  <2>3. mu \in [MProcs -> MuRec]
    BY <1>2, <1>4 DEF MountInit
  <2> QED BY <2>1, <2>2, <2>3 DEF MTypes
<1>6. \A p \in MProcs : Local(p, mu[p]) /\ Mounting(mtab, mu[p])
  BY <1>4
<1>7. Table(mtab)
  BY DEF MountInit, Table
<1>8. Marked(mtab, mino, mu)
  BY DEF MountInit, Marked
<1>9. RefsAdd(mtab, mino, mu)
  <2>1. SUFFICES ASSUME NEW y \in MInodes
                 PROVE  mino[y].count = Count(HoldsOf(mtab, mu), y)
    BY DEF RefsAdd
  <2>2. mino[y].count = 0
    BY DEF MountInit
  <2>3. PICK h : h = HoldsOf(mtab, mu)
    OBVIOUS
  <2>4. ASSUME NEW z \in Places PROVE h[z] = NoInode
    <3>1. CASE z \in MProcs \X {1, 2}
      <4>1. PICK q \in MProcs, i \in {1, 2} : z = <<q, i>>
        BY <3>1
      <4>2. CallHolds(mu[q]) = NoInode /\ mu[q].file = NoInode
        BY <1>4
      <4> QED BY <2>3, <2>4, <4>1, <4>2 DEF HoldsOf
    <3>2. CASE z \in Ents \X {3}
      <4>1. PICK e \in Ents : z = <<e, 3>>
        BY <3>2
      <4>2. EntryHolds(mtab[e]) = NoInode
        BY DEF MountInit, EntryHolds
      <4> QED BY <2>3, <2>4, <4>1, <4>2 DEF HoldsOf
    <3> QED BY <2>4, <3>1, <3>2 DEF Places
  <2>5. \A z \in Places : h[z] # y
    BY <2>4, Consts
  <2>6. Count(h, y) = 0
    BY <2>5, CountIsFinite
  <2> QED BY <2>2, <2>3, <2>6
<1>10. mpanic # "no imt"
  BY DEF MountInit
<1> QED BY <1>5, <1>6, <1>7, <1>8, <1>9, <1>10 DEF MountInv, Sound

LEMMA Next_Inv == OneMounter /\ MountInv /\ [MountNext]_mountVars => MountInv'
<1> SUFFICES ASSUME OneMounter, MountInv, [MountNext]_mountVars
             PROVE  MountInv'
  OBVIOUS
<1>1. CASE UNCHANGED mountVars
  BY <1>1 DEF mountVars, MountInv
<1>2. CASE \E p \in MProcs : MountStep(p)
  <2>0. PICK p \in MProcs : MountStep(p)
    BY <1>2
  <2>1. CASE MIget(p)
    BY <2>1, MIget_Step
  <2>2. CASE MIread(p) \/ MIputLast(p) \/ UpdateInode(p)
    BY <2>2, Read_Step
  <2>3. CASE MWake(p)
    BY <2>3, MWake_Step
  <2>4. CASE MIput(p)
    BY <2>4, MIput_Step, MIputUmount_Step
  <2>5. CASE MOpened(p) \/ MClose(p)
    BY <2>5, Files_Step
  <2>6. CASE MModify(p)
    BY <2>6, MModify_Step
  <2>7. CASE MDots(p)
    BY <2>7, MDots_Step
  <2>8. CASE SMount(p)
    BY <2>8, SMount_Step
  <2>9. CASE SMountRead(p)
    BY <2>9, SMountRead_Step
  <2>10. CASE SMountDone(p)
    BY <2>10, SMountDone_Step
  <2>11. CASE SUmount(p)
    BY <2>11, SUmount_Step
  <2>12. CASE UpdateNext(p)
    BY <2>12, UpdateNext_Step
  <2>13. CASE UpdateCopy(p)
    BY <2>13, UpdateCopy_Step
  <2>14. CASE UpdateDone(p)
    <3>1. mu[p].pc = "updated" /\ mu' = Updated(p) /\ UNCHANGED <<mtab, mino, mpanic>>
      BY <2>14 DEF UpdateDone, MAt
    <3> QED BY <3>1, UpdatedStep
  <2>15. CASE \/ MDotDot(p) \/ CallSync(p)
              \/ \E x \in Points : MOpen(p, x) \/ \E d \in Devs : CallMount(p, d, x)
              \/ \E d \in Devs : CallUmount(p, d)
    BY <2>15, Begin_Step
  <2> QED BY <2>0, <2>1, <2>2, <2>3, <2>4, <2>5, <2>6, <2>7, <2>8, <2>9, <2>10, <2>11, <2>12, <2>13,
             <2>14, <2>15 DEF MountStep
<1> QED BY <1>1, <1>2 DEF MountNext

LEMMA Inv_Sound == MountInv => MountTableSound
<1> SUFFICES ASSUME MountInv
             PROVE  MountTableSound
  OBVIOUS
<1>1. mpanic # "no imt" /\ Table(mtab)
  BY DEF MountInv, Sound
<1>2. ASSUME NEW x \in MInodes, mino[x].imount
      PROVE  /\ mino[x].count > 0
             /\ Cardinality({e \in Ents : mtab[e].bufp /\ mtab[e].inodp = x}) = 1
             /\ mtab[Min(MountedOn(x))].bufp
  <2>1. PICK n : n = Min(MountedOn(x))
    OBVIOUS
  <2>2. n \in Ents /\ mtab[n].bufp /\ mtab[n].inodp = x
    BY <1>2, <2>1, MarkedLeads
  <2>3. EntryHolds(mtab[n]) = x
    BY <2>2 DEF EntryHolds
  <2>4. mino[x].count > 0
    BY <2>2, <2>3, EntryIsCounted
  <2>5. {e \in Ents : mtab[e].bufp /\ mtab[e].inodp = x} = {n}
    BY <1>1, <2>2 DEF Table
  <2>6. Cardinality({n}) = 1
    BY FS_Singleton
  <2> QED BY <2>1, <2>2, <2>4, <2>5, <2>6
<1>3. ASSUME NEW d \in Devs
      PROVE  Cardinality(Active(d)) <= 1
  <2>1. \A e, f \in Active(d) : e = f
    BY <1>1 DEF Active, Table
  <2> QED BY <2>1, AtMostOne
<1> QED BY <1>1, <1>2, <1>3 DEF MountTableSound

(* The mount table and the inodes agree although namei, sync, smount and   *)
(* sumount all sleep between looking at the one and changing the other     *)
(* (sys3.c, iget.c), for a table of any size and any number of volumes,    *)
(* directories and users, as long as one process does all the mounting.    *)
(* With two, TLC finds that both may take the same entry of the table.     *)
THEOREM MountTableAgrees == OneMounter /\ MountSpec => []MountTableSound
<1>1. OneMounter => (MountInv /\ [MountNext]_mountVars => MountInv')
  BY Next_Inv
<1>2. CASE OneMounter
  <2>1. MountInv /\ [MountNext]_mountVars => MountInv'
    BY <1>1, <1>2
  <2> QED BY <2>1, Init_Inv, Inv_Sound, PTL DEF MountSpec
<1>3. CASE ~OneMounter
  BY <1>3
<1> QED BY <1>2, <1>3
=============================================================================
