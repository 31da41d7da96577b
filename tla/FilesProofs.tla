---------------------------- MODULE FilesProofs ----------------------------
(***************************************************************************)
(* Proof that f_count and i_count count what refers to file structures and *)
(* inodes, for any number of processes, descriptors and file structures,   *)
(* when a signal may end close but not dup: see FilesCounted.              *)
(*                                                                         *)
(* The invariant is a predicate of the values of the variables, so that it *)
(* also holds of the states half way through an action: close, dup and     *)
(* exit first give up a reference, then do what After says.                *)
(***************************************************************************)
EXTENDS Files, FiniteSetTheorems, FunctionTheorems, NaturalsInduction, TLAPS

Places == FProcs \X (0 .. NOFILE)

(* Held, of the descriptors o and the processes c.                         *)
Hold(o, c, p, i) ==
    IF i = 0 THEN IF c[p].pc = "plock" THEN c[p].f ELSE 0
    ELSE IF c[p].ret = "dup" /\ c[p].to = i THEN 0 ELSE o[p][i]

HoldsOf(o, c) == [x \in Places |-> Hold(o, c, x[1], x[2])]

Count(h, f) == Cardinality({x \in Places : h[x] = f})

FileRec == [count : Nat, ino : FInos \cup {"none"}]
DoRec == [pc : {"user", "exit", "none", "plock", "drain"}, f : 0 .. NFILE,
          ret : {"none", "close", "dup", "exit"}, to : 0 .. NOFILE, from : 0 .. NOFILE]

FTypes(t, o, ir, c) ==
    /\ t \in [FileSlots -> FileRec]
    /\ o \in [FProcs -> [Fds -> 0 .. NFILE]]
    /\ ir \in [FInos -> Nat]
    /\ c \in [FProcs -> DoRec]

(* What a process in the middle of a call still has.                       *)
Midway(t, o, c) ==
    \A p \in FProcs :
        /\ c[p].pc \in {"user", "exit", "none"} <=> c[p].ret = "none"
        /\ c[p].pc = "none" => \A i \in Fds : o[p][i] = 0
        /\ c[p].ret = "dup" => /\ {c[p].from, c[p].to} \subseteq Fds
                               /\ c[p].from # c[p].to /\ o[p][c[p].from] # 0
        /\ c[p].pc = "plock" => c[p].f # 0 /\ t[c[p].f].count = 1

FilesHaveInodes(t) == \A f \in FileSlots : t[f].count > 0 => t[f].ino \in FInos

FilesAdd(t, o, c) == \A f \in FileSlots : t[f].count = Count(HoldsOf(o, c), f)

InodesAdd(t, ir) == \A n \in FInos : ir[n] = Cardinality(OpenOn(t, n))

Accounts(t, o, ir, c) ==
    /\ FTypes(t, o, ir, c)
    /\ Midway(t, o, c)
    /\ FilesHaveInodes(t)
    /\ FilesAdd(t, o, c)
    /\ InodesAdd(t, ir)

(* The inductive invariant.                                                *)
FilesInv == Accounts(file, ofile, iref, fp)

-----------------------------------------------------------------------------
(* Counting.                                                               *)
LEMMA MinExists ==
    ASSUME NEW S \in SUBSET Nat, S # {}
    PROVE  Min(S) \in S
<1>1. PICK x \in S : \A y \in S : ~(<<y, x>> \in OpToRel(<, Nat))
  BY NatLessThanWellFounded, WFMin, Zenon
<1>2. PICK R : R = OpToRel(<, Nat)
  BY Zenon
<1>3. \A a, b \in Nat : a < b => <<a, b>> \in R
  BY <1>2, Zenon DEF OpToRel
<1>4. \A y \in S : x <= y
  <2>1. \A y \in S : ~(<<y, x>> \in R)
    BY <1>1, <1>2, Zenon
  <2> HIDE <1>1, <1>2
  <2>2. \A y \in S : ~(y < x)
    BY <1>3, <2>1
  <2> QED BY <2>2
<1> QED BY <1>4 DEF Min

LEMMA Consts ==
    /\ NFILE \in Nat \ {0} /\ NOFILE \in Nat \ {0} /\ Fds = 1 .. NOFILE /\ FileSlots = 1 .. NFILE
    /\ IsFiniteSet(FProcs) /\ IsFiniteSet(Fds) /\ IsFiniteSet(FileSlots) /\ IsFiniteSet(Places)
<1>1. NFILE \in Nat \ {0} /\ NOFILE \in Nat \ {0} /\ IsFiniteSet(FProcs)
  BY FilesConstants
<1>2. IsFiniteSet(1 .. NOFILE) /\ IsFiniteSet(1 .. NFILE) /\ IsFiniteSet(0 .. NOFILE)
  BY <1>1, FS_Interval
<1>3. IsFiniteSet(FProcs \X (0 .. NOFILE))
  BY <1>1, <1>2, FS_Product
<1> QED BY <1>1, <1>2, <1>3 DEF Fds, FileSlots, Places

LEMMA CountIsFinite ==
    ASSUME NEW h, NEW f
    PROVE  /\ IsFiniteSet({x \in Places : h[x] = f}) /\ Count(h, f) \in Nat
           /\ Count(h, f) = 0 <=> \A x \in Places : h[x] # f
<1>1. {x \in Places : h[x] = f} \in SUBSET Places
  OBVIOUS
<1>2. IsFiniteSet({x \in Places : h[x] = f})
  BY <1>1, Consts, FS_Subset
<1>3. Count(h, f) \in Nat
  BY <1>2, FS_CardinalityType DEF Count
<1>4. Count(h, f) = 0 <=> {x \in Places : h[x] = f} = {}
  BY <1>2, FS_EmptySet DEF Count
<1> QED BY <1>2, <1>3, <1>4

One(a, b) == IF a = b THEN 1 ELSE 0

SameBut(x, h, g) == \A y \in Places \ {x} : g[y] = h[y]

(* One place that held h[x] holds g[x] instead.                            *)
LEMMA Moved ==
    ASSUME NEW h, NEW g, NEW x \in Places, SameBut(x, h, g), NEW f
    PROVE  Count(g, f) = Count(h, f) - One(h[x], f) + One(g[x], f)
<1>1. PICK R : R = {y \in Places \ {x} : h[y] = f}
  OBVIOUS
<1>2. R \in SUBSET Places /\ x \notin R /\ R = {y \in Places \ {x} : g[y] = f}
  BY <1>1 DEF SameBut
<1>3. IsFiniteSet(R) /\ Cardinality(R) \in Nat /\ Cardinality(R \cup {x}) = Cardinality(R) + 1
  <2>1. IsFiniteSet(R)
    BY <1>2, Consts, FS_Subset
  <2> QED BY <1>2, <2>1, FS_CardinalityType, FS_AddElement
<1>4. Count(h, f) = Cardinality(R) + One(h[x], f)
  <2>1. CASE h[x] = f
    <3>1. {y \in Places : h[y] = f} = R \cup {x}
      BY <1>1, <2>1
    <3> QED BY <1>3, <2>1, <3>1 DEF Count, One
  <2>2. CASE h[x] # f
    <3>1. {y \in Places : h[y] = f} = R
      BY <1>1, <2>2
    <3> QED BY <1>3, <2>2, <3>1 DEF Count, One
  <2> QED BY <2>1, <2>2
<1>5. Count(g, f) = Cardinality(R) + One(g[x], f)
  <2>1. CASE g[x] = f
    <3>1. {y \in Places : g[y] = f} = R \cup {x}
      BY <1>2, <2>1
    <3> QED BY <1>3, <2>1, <3>1 DEF Count, One
  <2>2. CASE g[x] # f
    <3>1. {y \in Places : g[y] = f} = R
      BY <1>2, <2>2
    <3> QED BY <1>3, <2>2, <3>1 DEF Count, One
  <2> QED BY <2>1, <2>2
<1> QED BY <1>3, <1>4, <1>5 DEF One

(* Two places that hold the same file count twice.                         *)
LEMMA TwoCount ==
    ASSUME NEW h, NEW x \in Places, NEW y \in Places, x # y, h[x] = h[y]
    PROVE  Count(h, h[x]) >= 2
<1>1. PICK R : R = {z \in Places : h[z] = h[x]}
  OBVIOUS
<1>2. IsFiniteSet(R) /\ x \in R /\ y \in R
  BY <1>1, CountIsFinite
<1>3. IsFiniteSet(R \ {x}) /\ Cardinality(R \ {x}) = Cardinality(R) - 1
  BY <1>2, FS_RemoveElement
<1>4. Cardinality(R) \in Nat /\ Cardinality(R \ {x}) \in Nat
  BY <1>2, <1>3, FS_CardinalityType
<1>5. Cardinality(R \ {x}) # 0
  BY <1>2, <1>3, FS_EmptySet
<1> QED BY <1>1, <1>3, <1>4, <1>5 DEF Count

LEMMA HoldAt ==
    ASSUME NEW o, NEW c, NEW p \in FProcs, NEW i \in 0 .. NOFILE
    PROVE  <<p, i>> \in Places /\ HoldsOf(o, c)[<<p, i>>] = Hold(o, c, p, i)
BY DEF HoldsOf, Places

(* Only p takes a step.                                                    *)
Alone(p, o, c, o1, c1) == \A q \in FProcs \ {p} : o1[q] = o[q] /\ c1[q] = c[q]

(* Of what p holds, at most what the places in K hold changes.             *)
HoldsBut(K, p, o, c, o1, c1) == \A j \in (0 .. NOFILE) \ K : Hold(o1, c1, p, j) = Hold(o, c, p, j)

(* A process gives up, takes or changes what one place holds.              *)
LEMMA OneMove ==
    ASSUME NEW o, NEW c, NEW o1, NEW c1, NEW p \in FProcs, NEW k \in 0 .. NOFILE,
           Alone(p, o, c, o1, c1), HoldsBut({k}, p, o, c, o1, c1), NEW f
    PROVE  Count(HoldsOf(o1, c1), f) = Count(HoldsOf(o, c), f)
              - One(Hold(o, c, p, k), f) + One(Hold(o1, c1, p, k), f)
<1>1. PICK h : h = HoldsOf(o, c)
  OBVIOUS
<1>2. PICK g : g = HoldsOf(o1, c1)
  OBVIOUS
<1>3. PICK x : x = <<p, k>>
  OBVIOUS
<1>4. x \in Places /\ h[x] = Hold(o, c, p, k) /\ g[x] = Hold(o1, c1, p, k)
  BY <1>1, <1>2, <1>3, HoldAt
<1>5. SameBut(x, h, g)
  <2>1. SUFFICES ASSUME NEW y \in Places \ {x} PROVE g[y] = h[y]
    BY DEF SameBut
  <2>2. PICK q \in FProcs, j \in 0 .. NOFILE : y = <<q, j>>
    BY DEF Places
  <2>3. Hold(o1, c1, q, j) = Hold(o, c, q, j)
    <3>1. CASE q = p
      <4>1. j # k
        BY <1>3, <2>1, <2>2, <3>1
      <4> QED BY <3>1, <4>1 DEF HoldsBut
    <3>2. CASE q # p
      BY <3>2 DEF Alone, Hold
    <3> QED BY <3>1, <3>2
  <2>4. HoldsOf(o, c)[<<q, j>>] = Hold(o, c, q, j) /\ HoldsOf(o1, c1)[<<q, j>>] = Hold(o1, c1, q, j)
    BY HoldAt
  <2> QED BY <1>1, <1>2, <2>2, <2>3, <2>4
<1>6. Count(g, f) = Count(h, f) - One(h[x], f) + One(g[x], f)
  BY <1>4, <1>5, Moved
<1> QED BY <1>1, <1>2, <1>4, <1>6

(* What one place held, another of the same process holds.                 *)
LEMMA Handed ==
    ASSUME NEW o, NEW c, NEW o1, NEW c1, NEW p \in FProcs,
           NEW k \in 0 .. NOFILE, NEW l \in 0 .. NOFILE, k # l,
           Alone(p, o, c, o1, c1), HoldsBut({k, l}, p, o, c, o1, c1),
           Hold(o, c, p, l) = 0, Hold(o1, c1, p, k) = 0,
           Hold(o1, c1, p, l) = Hold(o, c, p, k),
           NEW f
    PROVE  Count(HoldsOf(o1, c1), f) = Count(HoldsOf(o, c), f)
<1>1. PICK h : h = HoldsOf(o, c)
  OBVIOUS
<1>2. PICK g : g = HoldsOf(o1, c1)
  OBVIOUS
<1>3. PICK x : x = <<p, k>>
  OBVIOUS
<1>4. PICK z : z = <<p, l>>
  OBVIOUS
<1>5. /\ x \in Places /\ z \in Places /\ x # z
      /\ h[x] = Hold(o, c, p, k) /\ g[x] = 0 /\ h[z] = 0 /\ g[z] = Hold(o, c, p, k)
  <2>1. h[x] = Hold(o, c, p, k) /\ g[x] = Hold(o1, c1, p, k) /\ x \in Places
    BY <1>1, <1>2, <1>3, HoldAt
  <2>2. h[z] = Hold(o, c, p, l) /\ g[z] = Hold(o1, c1, p, l) /\ z \in Places
    BY <1>1, <1>2, <1>4, HoldAt
  <2>3. x # z
    BY <1>3, <1>4
  <2> QED BY <2>1, <2>2, <2>3
<1>6. PICK m : m = [y \in Places |-> IF y = x THEN 0 ELSE h[y]]
  OBVIOUS
<1>7. SameBut(x, h, m) /\ m[x] = 0 /\ m[z] = 0
  BY <1>5, <1>6 DEF SameBut
<1>8. SameBut(z, m, g)
  <2>1. SUFFICES ASSUME NEW y \in Places \ {z} PROVE g[y] = m[y]
    BY DEF SameBut
  <2>2. PICK q \in FProcs, j \in 0 .. NOFILE : y = <<q, j>>
    BY DEF Places
  <2>3. CASE y = x
    BY <1>5, <1>7, <2>3
  <2>4. CASE y # x
    <3>1. Hold(o1, c1, q, j) = Hold(o, c, q, j)
      <4>1. CASE q = p
        <5>1. j \notin {k, l}
          BY <1>3, <1>4, <2>1, <2>2, <2>4, <4>1
        <5> QED BY <4>1, <5>1 DEF HoldsBut
      <4>2. CASE q # p
        BY <4>2 DEF Alone, Hold
      <4> QED BY <4>1, <4>2
    <3>2. HoldsOf(o, c)[<<q, j>>] = Hold(o, c, q, j) /\ HoldsOf(o1, c1)[<<q, j>>] = Hold(o1, c1, q, j)
      BY HoldAt
    <3>3. m[y] = h[y]
      BY <1>6, <2>4
    <3> QED BY <1>1, <1>2, <2>2, <3>1, <3>2, <3>3
  <2> QED BY <2>3, <2>4
<1>9. Count(m, f) = Count(h, f) - One(h[x], f) + One(m[x], f)
  BY <1>5, <1>7, Moved
<1>10. Count(g, f) = Count(m, f) - One(m[z], f) + One(g[z], f)
  BY <1>5, <1>8, Moved
<1>11. Count(h, f) \in Nat /\ Count(g, f) \in Nat /\ Count(m, f) \in Nat
  BY CountIsFinite
<1> QED BY <1>1, <1>2, <1>5, <1>7, <1>9, <1>10, <1>11 DEF One

(* A file structure that is held is in use, and twice if twice.            *)
LEMMA HeldIsCounted ==
    ASSUME NEW t, NEW o, NEW c, FilesAdd(t, o, c), NEW p \in FProcs, NEW i \in 0 .. NOFILE,
           NEW f \in FileSlots, Hold(o, c, p, i) = f
    PROVE  t[f].count \in Nat \ {0}
<1>1. PICK x : x = <<p, i>>
  OBVIOUS
<1>2. x \in Places /\ HoldsOf(o, c)[x] = f
  BY <1>1, HoldAt
<1>3. t[f].count = Count(HoldsOf(o, c), f)
  BY DEF FilesAdd
<1> QED BY <1>2, <1>3, CountIsFinite, ZenonT(60)

LEMMA HeldTwice ==
    ASSUME NEW t, NEW o, NEW c, FilesAdd(t, o, c), NEW p \in FProcs, NEW i \in 0 .. NOFILE,
           NEW q \in FProcs, NEW j \in 0 .. NOFILE, p # q \/ i # j,
           NEW f \in FileSlots, Hold(o, c, p, i) = f, Hold(o, c, q, j) = f
    PROVE  t[f].count >= 2
<1>1. PICK x : x = <<p, i>>
  OBVIOUS
<1>2. PICK y : y = <<q, j>>
  OBVIOUS
<1>3. x \in Places /\ y \in Places /\ x # y
  BY <1>1, <1>2 DEF Places
<1>4. PICK h : h = HoldsOf(o, c)
  OBVIOUS
<1>5. h[x] = f /\ h[y] = f
  BY <1>1, <1>2, <1>4, HoldAt
<1>6. t[f].count = Count(h, f)
  BY <1>4 DEF FilesAdd
<1> QED BY <1>3, <1>5, <1>6, TwoCount

-----------------------------------------------------------------------------
(* Inodes and the file structures that are in use for them.                *)
LEMMA OpenOnFinite ==
    ASSUME NEW t, NEW n
    PROVE  IsFiniteSet(OpenOn(t, n)) /\ Cardinality(OpenOn(t, n)) \in Nat
<1>1. OpenOn(t, n) \in SUBSET FileSlots
  BY DEF OpenOn
<1>2. IsFiniteSet(OpenOn(t, n))
  BY <1>1, Consts, FS_Subset
<1> QED BY <1>2, FS_CardinalityType

SameUse(t, u) ==
    \A f \in FileSlots : (u[f].count > 0 <=> t[f].count > 0) /\ (t[f].count > 0 => u[f].ino = t[f].ino)

LEMMA InodesSame ==
    ASSUME NEW t, NEW u, NEW ir, InodesAdd(t, ir), SameUse(t, u)
    PROVE  InodesAdd(u, ir)
<1>1. \A n \in FInos : OpenOn(u, n) = OpenOn(t, n)
  BY DEF OpenOn, SameUse
<1> QED BY <1>1 DEF InodesAdd

OnlyAt(f, t, u) == \A g \in FileSlots \ {f} : u[g] = t[g]

LEMMA InodesOneMore ==
    ASSUME NEW t, NEW u, NEW ir, ir \in [FInos -> Nat], InodesAdd(t, ir), NEW n \in FInos, NEW f \in FileSlots,
           ~(t[f].count > 0), u[f].count > 0, u[f].ino = n,
           OnlyAt(f, t, u)
    PROVE  InodesAdd(u, [ir EXCEPT ![n] = @ + 1])
<1>1. OpenOn(u, n) = OpenOn(t, n) \cup {f} /\ f \notin OpenOn(t, n)
  BY DEF OpenOn, OnlyAt
<1>2. Cardinality(OpenOn(u, n)) = Cardinality(OpenOn(t, n)) + 1
  BY <1>1, OpenOnFinite, FS_AddElement
<1>3. \A m \in FInos \ {n} : OpenOn(u, m) = OpenOn(t, m)
  BY DEF OpenOn, OnlyAt
<1> QED BY <1>2, <1>3 DEF InodesAdd

LEMMA InodesOneLess ==
    ASSUME NEW t, NEW u, NEW ir, ir \in [FInos -> Nat], InodesAdd(t, ir), NEW n \in FInos, NEW f \in FileSlots,
           t[f].count > 0, t[f].ino = n, ~(u[f].count > 0),
           OnlyAt(f, t, u)
    PROVE  InodesAdd(u, [ir EXCEPT ![n] = @ - 1]) /\ ir[n] > 0
<1>1. OpenOn(u, n) = OpenOn(t, n) \ {f} /\ f \in OpenOn(t, n)
  BY DEF OpenOn, OnlyAt
<1>2. Cardinality(OpenOn(u, n)) = Cardinality(OpenOn(t, n)) - 1
  <2>1. IsFiniteSet(OpenOn(t, n))
    BY OpenOnFinite
  <2> QED BY <1>1, <2>1, FS_RemoveElement
<1>3. \A m \in FInos \ {n} : OpenOn(u, m) = OpenOn(t, m)
  BY DEF OpenOn, OnlyAt
<1>4. Cardinality(OpenOn(u, n)) \in Nat /\ Cardinality(OpenOn(t, n)) \in Nat
  BY OpenOnFinite
<1>5. ir[n] > 0
  BY <1>2, <1>4 DEF InodesAdd
<1> QED BY <1>2, <1>3, <1>5 DEF InodesAdd

-----------------------------------------------------------------------------
(* A reference is given up: descriptor i of p, which refers to f, is        *)
(* cleared, or is the one that dup closes.                                 *)
GivesUp(o, o1, p, i, r) ==
    \/ o1 = [o EXCEPT ![p] = [o[p] EXCEPT ![i] = 0]] /\ r.ret \in {"close", "exit"}
    \/ o1 = o /\ r.ret = "dup" /\ r.to = i /\ r.from \in Fds /\ r.from # i /\ o[p][r.from] # 0

GivenUpFacts(t, o, c, o1, c1, p, i, r) ==
    /\ o[p][i] \in FileSlots /\ t[o[p][i]].count \in Nat \ {0}
    /\ o1 \in [FProcs -> [Fds -> 0 .. NFILE]] /\ c1 \in [FProcs -> DoRec] /\ c1[p] = r
    /\ Alone(p, o, c, o1, c1) /\ HoldsBut({i, 0}, p, o, c, o1, c1)
    /\ Hold(o, c, p, i) = o[p][i] /\ Hold(o1, c1, p, i) = 0 /\ Hold(o, c, p, 0) = 0
    /\ r.ret = "dup" => /\ {r.from, r.to} \subseteq Fds
                        /\ r.from # r.to /\ o1[p][r.from] # 0

LEMMA GivenUp ==
    ASSUME NEW t, NEW o, NEW ir, NEW c, Accounts(t, o, ir, c), NEW p \in FProcs, NEW i \in Fds,
           o[p][i] # 0, c[p].ret = "none", NEW o1, NEW r \in DoRec, GivesUp(o, o1, p, i, r),
           NEW c1, c1 = [c EXCEPT ![p] = r]
    PROVE  GivenUpFacts(t, o, c, o1, c1, p, i, r)
<1>1. /\ o \in [FProcs -> [Fds -> 0 .. NFILE]] /\ c \in [FProcs -> DoRec]
      /\ c[p].pc \in {"user", "exit", "none"} /\ FilesAdd(t, o, c)
  BY DEF Accounts, FTypes, Midway
<1>2. o[p] \in [Fds -> 0 .. NFILE] /\ o[p][i] \in 0 .. NFILE
  BY <1>1
<1>3. o[p][i] \in FileSlots /\ 0 \notin Fds /\ \A j \in Fds : j \in 0 .. NOFILE
  BY <1>2, Consts
<1>4. /\ o1 \in [FProcs -> [Fds -> 0 .. NFILE]] /\ \A q \in FProcs \ {p} : o1[q] = o[q]
      /\ \A j \in Fds \ {i} : o1[p][j] = o[p][j]
      /\ r.ret # "dup" => o1[p][i] = 0
  <2>1. CASE o1 = [o EXCEPT ![p] = [o[p] EXCEPT ![i] = 0]]
    <3>1. PICK v : v = [o[p] EXCEPT ![i] = 0]
      OBVIOUS
    <3>2. v \in [Fds -> 0 .. NFILE] /\ v[i] = 0 /\ \A j \in Fds \ {i} : v[j] = o[p][j]
      BY <1>2, <3>1, Consts
    <3>3. o1 = [o EXCEPT ![p] = v]
      BY <2>1, <3>1
    <3> QED BY <1>1, <3>2, <3>3
  <2>2. CASE o1 = o /\ r.ret = "dup"
    BY <1>1, <2>2
  <2> QED BY <2>1, <2>2 DEF GivesUp
<1>5. c1 \in [FProcs -> DoRec] /\ c1[p] = r /\ \A q \in FProcs \ {p} : c1[q] = c[q]
  BY <1>1
<1>6. Alone(p, o, c, o1, c1)
  BY <1>4, <1>5 DEF Alone
<1>7. HoldsBut({i, 0}, p, o, c, o1, c1)
  <2>1. SUFFICES ASSUME NEW j \in (0 .. NOFILE) \ {i, 0}
                 PROVE  Hold(o1, c1, p, j) = Hold(o, c, p, j)
    BY DEF HoldsBut
  <2>2. j \in Fds \ {i} /\ j # 0
    BY <2>1, Consts
  <2>3. Hold(o, c, p, j) = o[p][j]
    BY <2>2 DEF Hold
  <2>4. Hold(o1, c1, p, j) = o1[p][j]
    BY <1>5, <2>2 DEF Hold, GivesUp
  <2> QED BY <1>4, <2>2, <2>3, <2>4
<1>8. Hold(o, c, p, i) = o[p][i] /\ Hold(o, c, p, 0) = 0
  BY <1>1, <1>3 DEF Hold
<1>9. Hold(o1, c1, p, i) = 0
  BY <1>3, <1>4, <1>5 DEF Hold, GivesUp
<1>10. t[o[p][i]].count \in Nat \ {0}
  BY <1>1, <1>3, <1>8, HeldIsCounted
<1>11. r.ret = "dup" => /\ {r.from, r.to} \subseteq Fds
                        /\ r.from # r.to /\ o1[p][r.from] # 0
  BY DEF GivesUp
<1> QED BY <1>3, <1>4, <1>5, <1>6, <1>7, <1>8, <1>9, <1>10, <1>11 DEF GivenUpFacts

(* It was the last: the process is about to give up the file structure.    *)
LEMMA GivesUpLast ==
    ASSUME NEW t, NEW o, NEW ir, NEW c, Accounts(t, o, ir, c), NEW p \in FProcs, NEW i \in Fds,
           o[p][i] # 0, c[p].ret = "none", NEW o1, NEW r \in DoRec, GivesUp(o, o1, p, i, r),
           NEW c1, c1 = [c EXCEPT ![p] = r],
           r.pc = "plock", r.f = o[p][i], ~(t[o[p][i]].count > 1)
    PROVE  Accounts(t, o1, ir, c1)
<1>1. GivenUpFacts(t, o, c, o1, c1, p, i, r)
  BY GivenUp
<1>2. t[o[p][i]].count = 1 /\ r.ret \in {"close", "dup", "exit"}
  <2>1. t[o[p][i]].count \in Nat \ {0}
    BY <1>1 DEF GivenUpFacts
  <2>2. r.ret \in {"close", "dup", "exit"}
    BY DEF GivesUp
  <2> QED BY <2>1, <2>2
<1>3. Hold(o1, c1, p, 0) = o[p][i]
  BY <1>1 DEF Hold, GivenUpFacts
<1>4. FilesAdd(t, o1, c1)
  <2>1. i \in 0 .. NOFILE /\ 0 \in 0 .. NOFILE /\ i # 0
    BY Consts
  <2>2. /\ Alone(p, o, c, o1, c1) /\ HoldsBut({i, 0}, p, o, c, o1, c1)
        /\ Hold(o, c, p, 0) = 0 /\ Hold(o1, c1, p, i) = 0
        /\ Hold(o1, c1, p, 0) = Hold(o, c, p, i)
    BY <1>1, <1>3 DEF GivenUpFacts
  <2>3. \A f : Count(HoldsOf(o1, c1), f) = Count(HoldsOf(o, c), f)
    BY <2>1, <2>2, Handed
  <2> QED BY <2>3 DEF FilesAdd, Accounts
<1>5. Midway(t, o1, c1)
  <2> SUFFICES ASSUME NEW q \in FProcs
               PROVE  /\ c1[q].pc \in {"user", "exit", "none"} <=> c1[q].ret = "none"
                      /\ c1[q].pc = "none" => \A k \in Fds : o1[q][k] = 0
                      /\ c1[q].ret = "dup" => /\ {c1[q].from, c1[q].to} \subseteq Fds
                                              /\ c1[q].from # c1[q].to /\ o1[q][c1[q].from] # 0
                      /\ c1[q].pc = "plock" => c1[q].f # 0 /\ t[c1[q].f].count = 1
    BY DEF Midway
  <2>1. CASE q = p
    BY <1>1, <1>2, <2>1 DEF GivenUpFacts
  <2>2. CASE q # p
    BY <1>1, <2>2 DEF Accounts, Midway, GivenUpFacts, Alone
  <2> QED BY <2>1, <2>2
<1> QED BY <1>1, <1>4, <1>5 DEF Accounts, FTypes, GivenUpFacts

(* The count of one file structure changes.                                *)
Recounted(t, u, f, n) ==
    /\ u \in [FileSlots -> FileRec] /\ u[f].count = n /\ u[f].ino = t[f].ino
    /\ \A g \in FileSlots \ {f} : u[g] = t[g]

LEMMA Recount ==
    ASSUME NEW t \in [FileSlots -> FileRec], NEW f \in FileSlots, NEW n \in Nat, NEW u,
           u = [t EXCEPT ![f] = [t[f] EXCEPT !.count = n]]
    PROVE  Recounted(t, u, f, n)
<1>1. PICK v : v = [t[f] EXCEPT !.count = n]
  OBVIOUS
<1>2. v.count = n /\ v.ino = t[f].ino /\ v \in FileRec
  BY <1>1 DEF FileRec
<1>3. u = [t EXCEPT ![f] = v]
  BY <1>1
<1> QED BY <1>2, <1>3 DEF Recounted

(* It was one of several: f_count is one less.                             *)
LEMMA GivesUpOne ==
    ASSUME NEW t, NEW o, NEW ir, NEW c, Accounts(t, o, ir, c), NEW p \in FProcs, NEW i \in Fds,
           o[p][i] # 0, c[p].ret = "none", NEW o1, NEW r \in DoRec, GivesUp(o, o1, p, i, r),
           NEW c1, c1 = [c EXCEPT ![p] = r], NEW u, NEW f, f = o[p][i],
           r.pc = "drain", t[f].count > 1, Recounted(t, u, f, t[f].count - 1)
    PROVE  Accounts(u, o1, ir, c1)
<1>1. GivenUpFacts(t, o, c, o1, c1, p, i, r)
  BY GivenUp
<1>2. f \in FileSlots /\ t \in [FileSlots -> FileRec] /\ t[f].count \in Nat
  BY <1>1 DEF Accounts, FTypes, GivenUpFacts
<1>3. Hold(o1, c1, p, 0) = 0
  BY <1>1 DEF Hold, GivenUpFacts
<1>4. FilesAdd(u, o1, c1)
  <2>1. i \in 0 .. NOFILE /\ HoldsBut({i}, p, o, c, o1, c1)
    <3>1. i \in 0 .. NOFILE
      BY Consts
    <3>2. Hold(o1, c1, p, 0) = Hold(o, c, p, 0) /\ HoldsBut({i, 0}, p, o, c, o1, c1)
      BY <1>1, <1>3 DEF GivenUpFacts
    <3> QED BY <3>1, <3>2 DEF HoldsBut
  <2>2. \A g : Count(HoldsOf(o1, c1), g) = Count(HoldsOf(o, c), g) - One(f, g) + One(0, g)
    <3>1. TAKE g
    <3>2. Count(HoldsOf(o1, c1), g) = Count(HoldsOf(o, c), g)
              - One(Hold(o, c, p, i), g) + One(Hold(o1, c1, p, i), g)
      BY <1>1, <2>1, OneMove DEF GivenUpFacts
    <3> QED BY <1>1, <3>2 DEF GivenUpFacts
  <2>3. \A g \in FileSlots : g # 0 /\ t[g].count = Count(HoldsOf(o, c), g) /\ t[g].count \in Nat
    BY <1>2, Consts DEF Accounts, FilesAdd, FileRec
  <2>4. \A g \in FileSlots : u[g].count = Count(HoldsOf(o1, c1), g)
    <3>1. TAKE g \in FileSlots
    <3>2. CASE g = f
      <4>1. u[g].count = t[g].count - 1
        BY <3>2 DEF Recounted
      <4>2. One(f, g) = 1 /\ One(0, g) = 0
        BY <2>3, <3>2 DEF One
      <4>3. Count(HoldsOf(o1, c1), g) = t[g].count - 1 + 0
        BY <2>2, <2>3, <4>2
      <4> QED BY <2>3, <4>1, <4>3
    <3>3. CASE g # f
      <4>1. u[g].count = t[g].count
        BY <3>3 DEF Recounted
      <4>2. One(f, g) = 0 /\ One(0, g) = 0
        BY <2>3, <3>3 DEF One
      <4>3. Count(HoldsOf(o1, c1), g) = t[g].count - 0 + 0
        BY <2>2, <2>3, <4>2
      <4> QED BY <2>3, <4>1, <4>3
    <3> QED BY <3>2, <3>3
  <2> QED BY <2>4 DEF FilesAdd
<1>5. Midway(u, o1, c1)
  <2> SUFFICES ASSUME NEW q \in FProcs
               PROVE  /\ c1[q].pc \in {"user", "exit", "none"} <=> c1[q].ret = "none"
                      /\ c1[q].pc = "none" => \A k \in Fds : o1[q][k] = 0
                      /\ c1[q].ret = "dup" => /\ {c1[q].from, c1[q].to} \subseteq Fds
                                              /\ c1[q].from # c1[q].to /\ o1[q][c1[q].from] # 0
                      /\ c1[q].pc = "plock" => c1[q].f # 0 /\ u[c1[q].f].count = 1
    BY DEF Midway
  <2>1. CASE q = p
    BY <1>1, <2>1 DEF GivesUp, GivenUpFacts
  <2>2. CASE q # p
    <3>1. c1[q] \in DoRec /\ c1[q] = c[q] /\ o1[q] = o[q]
      BY <1>1, <2>2 DEF GivenUpFacts, Alone
    <3>2. c1[q].pc = "plock" => c1[q].f # 0 /\ t[c1[q].f].count = 1 /\ c1[q].f \in 0 .. NFILE
      BY <3>1 DEF Accounts, Midway, DoRec
    <3>3. c1[q].pc = "plock" => c1[q].f \in FileSlots \ {f}
      BY <1>2, <3>2, Consts
    <3> QED BY <3>1, <3>2, <3>3 DEF Accounts, Midway, Recounted
  <2> QED BY <2>1, <2>2
<1>6. FilesHaveInodes(u) /\ InodesAdd(u, ir)
  <2>1. \A g \in FileSlots : (u[g].count > 0 <=> t[g].count > 0) /\ u[g].ino = t[g].ino
    BY <1>2 DEF Recounted
  <2>2. InodesAdd(u, ir)
    <3>1. SameUse(t, u) /\ InodesAdd(t, ir)
      BY <2>1 DEF SameUse, Accounts
    <3> QED BY <3>1, InodesSame
  <2> QED BY <2>1, <2>2 DEF Accounts, FilesHaveInodes
<1> QED BY <1>1, <1>4, <1>5, <1>6 DEF Accounts, FTypes, GivenUpFacts, Recounted

-----------------------------------------------------------------------------
(* A process that gives up the last reference is alone with it.            *)
LEMMA LastIsAlone ==
    ASSUME NEW t, NEW o, NEW ir, NEW c, Accounts(t, o, ir, c), NEW q \in FProcs, c[q].pc = "plock"
    PROVE  /\ c[q].f \in FileSlots /\ t[c[q].f].count = 1 /\ Hold(o, c, q, 0) = c[q].f
           /\ \A p \in FProcs, i \in 0 .. NOFILE : Hold(o, c, p, i) = c[q].f => p = q /\ i = 0
<1>1. c[q] \in DoRec /\ c[q].f # 0 /\ t[c[q].f].count = 1 /\ FilesAdd(t, o, c)
  BY DEF Accounts, FTypes, Midway
<1>2. c[q].f \in FileSlots /\ 0 \in 0 .. NOFILE
  BY <1>1, Consts DEF DoRec
<1>3. Hold(o, c, q, 0) = c[q].f
  BY DEF Hold
<1>4. ASSUME NEW p \in FProcs, NEW i \in 0 .. NOFILE, Hold(o, c, p, i) = c[q].f, ~(p = q /\ i = 0)
      PROVE  FALSE
  <2>1. PICK f \in FileSlots : f = c[q].f
    BY <1>2
  <2>2. p # q \/ i # 0
    BY <1>4
  <2>3. t[f].count >= 2
    BY <1>1, <1>2, <1>3, <1>4, <2>1, <2>2, HeldTwice
  <2> QED BY <1>1, <2>1, <2>3
<1> QED BY <1>1, <1>2, <1>3, <1>4

(* Where p is.                                                             *)
AtHand(p, o, c) ==
    /\ c[p].pc \in {"user", "exit", "none"} <=> c[p].ret = "none"
    /\ c[p].pc = "none" => \A i \in Fds : o[p][i] = 0
    /\ c[p].ret = "dup" => /\ {c[p].from, c[p].to} \subseteq Fds
                           /\ c[p].from # c[p].to /\ o[p][c[p].from] # 0
    /\ c[p].pc # "plock"

OthersLast(p, c, u) == \A q \in FProcs \ {p} : c[q].pc = "plock" => u[c[q].f].count = 1

(* The other processes are where they were.                                *)
LEMMA OthersMidway ==
    ASSUME NEW t, NEW o, NEW c, NEW u, NEW o1, NEW c1, NEW p \in FProcs,
           Midway(t, o, c), Alone(p, o, c, o1, c1),
           AtHand(p, o1, c1), OthersLast(p, c, u)
    PROVE  Midway(u, o1, c1)
<1> SUFFICES ASSUME NEW q \in FProcs
             PROVE  /\ c1[q].pc \in {"user", "exit", "none"} <=> c1[q].ret = "none"
                    /\ c1[q].pc = "none" => \A k \in Fds : o1[q][k] = 0
                    /\ c1[q].ret = "dup" => /\ {c1[q].from, c1[q].to} \subseteq Fds
                                            /\ c1[q].from # c1[q].to /\ o1[q][c1[q].from] # 0
                    /\ c1[q].pc = "plock" => c1[q].f # 0 /\ u[c1[q].f].count = 1
  BY DEF Midway
<1>1. CASE q = p
  BY <1>1 DEF AtHand
<1>2. CASE q # p
  BY <1>2 DEF Midway, Alone, OthersLast
<1> QED BY <1>1, <1>2

(* The counts follow what one place holds.                                 *)
Follows(p, k, t, o, c, u, o1, c1) ==
    \A g \in FileSlots : u[g].count = t[g].count - One(Hold(o, c, p, k), g) + One(Hold(o1, c1, p, k), g)

LEMMA CountsFollow ==
    ASSUME NEW t, NEW o, NEW c, NEW u, NEW o1, NEW c1, NEW p \in FProcs, NEW k \in 0 .. NOFILE,
           FilesAdd(t, o, c), Alone(p, o, c, o1, c1), HoldsBut({k}, p, o, c, o1, c1),
           Follows(p, k, t, o, c, u, o1, c1)
    PROVE  FilesAdd(u, o1, c1)
<1>1. \A g : Count(HoldsOf(o1, c1), g) = Count(HoldsOf(o, c), g)
                - One(Hold(o, c, p, k), g) + One(Hold(o1, c1, p, k), g)
  BY OneMove
<1> QED BY <1>1 DEF FilesAdd, Follows

(* closef gives up the file structure and the inode.                       *)
LEMMA LastGone ==
    ASSUME NEW t, NEW o, NEW ir, NEW c, Accounts(t, o, ir, c), NEW p \in FProcs, c[p].pc = "plock",
           NEW n, n = t[c[p].f].ino, NEW u, u = Undone(t, c[p].f),
           NEW c1, c1 = [c EXCEPT ![p] = [c[p] EXCEPT !.pc = "drain"]]
    PROVE  Accounts(u, o, [ir EXCEPT ![n] = @ - 1], c1) /\ n \in FInos
<1>1. PICK f \in FileSlots : f = c[p].f
  BY LastIsAlone
<1>2. /\ t \in [FileSlots -> FileRec] /\ c \in [FProcs -> DoRec] /\ ir \in [FInos -> Nat]
      /\ o \in [FProcs -> [Fds -> 0 .. NFILE]]
      /\ Midway(t, o, c) /\ FilesAdd(t, o, c) /\ InodesAdd(t, ir) /\ FilesHaveInodes(t)
  BY DEF Accounts, FTypes
<1>3. /\ t[f].count = 1 /\ Hold(o, c, p, 0) = f /\ f # 0
      /\ \A q \in FProcs \ {p} : c[q].pc = "plock" => c[q].f \in FileSlots \ {f} /\ t[c[q].f].count = 1
  <2>1. t[f].count = 1 /\ Hold(o, c, p, 0) = f
    BY <1>1, LastIsAlone
  <2>2. ASSUME NEW q \in FProcs \ {p}, c[q].pc = "plock"
        PROVE  c[q].f \in FileSlots \ {f} /\ t[c[q].f].count = 1
    <3>1. c[q].f \in FileSlots /\ t[c[q].f].count = 1 /\ Hold(o, c, q, 0) = c[q].f
      BY <2>2, LastIsAlone
    <3>2. 0 \in 0 .. NOFILE
      BY Consts
    <3>3. c[q].f # f
      BY <1>1, <2>2, <3>1, <3>2, LastIsAlone
    <3> QED BY <3>1, <3>3
  <2> QED BY <2>1, <2>2, Consts
<1>4. /\ u \in [FileSlots -> FileRec] /\ u[f].count = 0 /\ \A g \in FileSlots \ {f} : u[g] = t[g]
  <2>1. NoFile \in FileRec /\ NoFile.count = 0
    BY DEF NoFile, FileRec
  <2>2. u = [t EXCEPT ![f] = NoFile]
    BY <1>1 DEF Undone
  <2> QED BY <1>2, <2>1, <2>2
<1>5. c[p] \in DoRec /\ c[p].ret # "none"
  BY <1>2 DEF Midway
<1>6. PICK r : r = [c[p] EXCEPT !.pc = "drain"]
  OBVIOUS
<1>7. r \in DoRec /\ r.pc = "drain" /\ r.ret = c[p].ret /\ r.to = c[p].to /\ r.from = c[p].from
  BY <1>5, <1>6 DEF DoRec
<1>8. c1 \in [FProcs -> DoRec] /\ c1[p] = r /\ \A q \in FProcs \ {p} : c1[q] = c[q]
  BY <1>2, <1>6, <1>7
<1>9. Alone(p, o, c, o, c1)
  BY <1>8 DEF Alone
<1>10. HoldsBut({0}, p, o, c, o, c1) /\ Hold(o, c1, p, 0) = 0
  BY <1>7, <1>8 DEF HoldsBut, Hold
<1>11. FilesAdd(u, o, c1)
  <2>1. 0 \in 0 .. NOFILE
    BY Consts
  <2>2. Follows(p, 0, t, o, c, u, o, c1)
    <3>1. SUFFICES ASSUME NEW g \in FileSlots
                   PROVE  u[g].count = t[g].count - One(Hold(o, c, p, 0), g) + One(Hold(o, c1, p, 0), g)
      BY DEF Follows
    <3>2. t[g].count \in Nat /\ g # 0
      BY <1>2, Consts DEF FileRec
    <3>3. One(Hold(o, c1, p, 0), g) = 0 /\ One(Hold(o, c, p, 0), g) = IF g = f THEN 1 ELSE 0
      BY <1>3, <1>10, <3>2 DEF One
    <3> QED BY <1>3, <1>4, <3>2, <3>3
  <2>3. FilesAdd(t, o, c) /\ HoldsBut({0}, p, o, c, o, c1)
    BY <1>2, <1>10
  <2> QED BY <1>9, <2>1, <2>2, <2>3, CountsFollow
<1>12. Midway(u, o, c1)
  <2>1. OthersLast(p, c, u)
    BY <1>3, <1>4 DEF OthersLast
  <2>2. AtHand(p, o, c1)
    BY <1>2, <1>5, <1>7, <1>8 DEF Midway, AtHand
  <2> QED BY <1>2, <1>9, <2>1, <2>2, OthersMidway
<1>13. FilesHaveInodes(u) /\ n \in FInos
  <2>1. t[f].count > 0 /\ n = t[f].ino
    BY <1>1, <1>3
  <2>2. n \in FInos
    BY <1>2, <2>1 DEF FilesHaveInodes
  <2>3. \A g \in FileSlots : u[g].count > 0 => g # f
    BY <1>4
  <2> QED BY <1>2, <1>4, <2>2, <2>3 DEF FilesHaveInodes
<1>14. PICK ir1 : ir1 = [ir EXCEPT ![n] = @ - 1]
  OBVIOUS
<1>15. InodesAdd(u, ir1) /\ ir[n] > 0
  <2>1. t[f].count > 0 /\ t[f].ino = n /\ ~(u[f].count > 0) /\ OnlyAt(f, t, u)
    BY <1>1, <1>3, <1>4 DEF OnlyAt
  <2> QED BY <1>2, <1>13, <1>14, <2>1, InodesOneLess
<1>16. ir1 \in [FInos -> Nat]
  BY <1>2, <1>13, <1>14, <1>15
<1>17. Accounts(u, o, ir1, c1)
  BY <1>2, <1>4, <1>8, <1>11, <1>12, <1>13, <1>15, <1>16 DEF Accounts, FTypes
<1> QED BY <1>13, <1>14, <1>17

(* closef returns to close or exit; or a process has exited.               *)
LEMMA CallOver ==
    ASSUME NEW t, NEW o, NEW ir, NEW c, Accounts(t, o, ir, c), NEW p \in FProcs, c[p].pc # "plock",
           c[p].ret # "dup", NEW r \in DoRec, r.ret = "none", r.pc \in {"user", "exit", "none"},
           r.pc = "none" => \A i \in Fds : o[p][i] = 0,
           NEW c1, c1 = [c EXCEPT ![p] = r]
    PROVE  Accounts(t, o, ir, c1)
<1>1. /\ t \in [FileSlots -> FileRec] /\ c \in [FProcs -> DoRec]
      /\ Midway(t, o, c) /\ FilesAdd(t, o, c)
  BY DEF Accounts, FTypes
<1>2. c1 \in [FProcs -> DoRec] /\ c1[p] = r /\ \A q \in FProcs \ {p} : c1[q] = c[q]
  BY <1>1
<1>3. Alone(p, o, c, o, c1)
  BY <1>2 DEF Alone
<1>4. \A j \in 0 .. NOFILE : Hold(o, c1, p, j) = Hold(o, c, p, j)
  BY <1>2 DEF Hold
<1>5. FilesAdd(t, o, c1)
  <2>1. 0 \in 0 .. NOFILE /\ HoldsBut({0}, p, o, c, o, c1)
    <3>1. 0 \in 0 .. NOFILE
      BY Consts
    <3> QED BY <1>4, <3>1 DEF HoldsBut
  <2>2. Follows(p, 0, t, o, c, t, o, c1)
    <3>1. SUFFICES ASSUME NEW g \in FileSlots
                   PROVE  t[g].count = t[g].count - One(Hold(o, c, p, 0), g) + One(Hold(o, c1, p, 0), g)
      BY DEF Follows
    <3>2. t[g].count \in Nat /\ Hold(o, c1, p, 0) = Hold(o, c, p, 0)
      BY <1>1, <1>4, <2>1 DEF FileRec
    <3> QED BY <3>2 DEF One
  <2> QED BY <1>1, <1>3, <2>1, <2>2, CountsFollow
<1>6. Midway(t, o, c1)
  <2>1. OthersLast(p, c, t) /\ AtHand(p, o, c1)
    BY <1>1, <1>2 DEF Midway, OthersLast, AtHand
  <2> QED BY <1>1, <1>3, <2>1, OthersMidway
<1> QED BY <1>2, <1>5, <1>6 DEF Accounts, FTypes

(* A descriptor of p that referred to nothing refers to f, whose count is   *)
(* one more.                                                               *)
LEMMA Refers ==
    ASSUME NEW t, NEW o, NEW ir, NEW c, Accounts(t, o, ir, c), NEW p \in FProcs, c[p].pc # "plock",
           NEW j \in Fds, Hold(o, c, p, j) = 0, c[p].ret = "dup" => c[p].to = j,
           NEW f \in FileSlots, NEW o1, o1 = [o EXCEPT ![p] = [o[p] EXCEPT ![j] = f]],
           NEW r \in DoRec, r.pc = "user", r.ret = "none", NEW c1, c1 = [c EXCEPT ![p] = r],
           NEW u, u \in [FileSlots -> FileRec], u[f].count = t[f].count + 1, OnlyAt(f, t, u),
           OthersLast(p, c, u)
    PROVE  /\ o1 \in [FProcs -> [Fds -> 0 .. NFILE]] /\ c1 \in [FProcs -> DoRec]
           /\ Midway(u, o1, c1) /\ FilesAdd(u, o1, c1)
<1>1. /\ t \in [FileSlots -> FileRec] /\ c \in [FProcs -> DoRec]
      /\ o \in [FProcs -> [Fds -> 0 .. NFILE]] /\ Midway(t, o, c) /\ FilesAdd(t, o, c)
  BY DEF Accounts, FTypes
<1>2. f \in 0 .. NFILE /\ f # 0 /\ j # 0 /\ j \in 0 .. NOFILE /\ 0 \notin FileSlots
  BY Consts
<1>3. PICK v : v = [o[p] EXCEPT ![j] = f]
  OBVIOUS
<1>4. v \in [Fds -> 0 .. NFILE] /\ v[j] = f /\ \A i \in Fds \ {j} : v[i] = o[p][i]
  BY <1>1, <1>2, <1>3
<1>5. o1 \in [FProcs -> [Fds -> 0 .. NFILE]] /\ o1[p] = v /\ \A q \in FProcs \ {p} : o1[q] = o[q]
  BY <1>1, <1>3, <1>4
<1>6. c1 \in [FProcs -> DoRec] /\ c1[p] = r /\ \A q \in FProcs \ {p} : c1[q] = c[q]
  BY <1>1
<1>7. Alone(p, o, c, o1, c1)
  BY <1>5, <1>6 DEF Alone
<1>8. Hold(o1, c1, p, j) = f
  BY <1>2, <1>4, <1>5, <1>6 DEF Hold
<1>9. HoldsBut({j}, p, o, c, o1, c1)
  <2>1. SUFFICES ASSUME NEW i \in (0 .. NOFILE) \ {j}
                 PROVE  Hold(o1, c1, p, i) = Hold(o, c, p, i)
    BY DEF HoldsBut
  <2>2. CASE i = 0
    BY <1>6, <2>2 DEF Hold
  <2>3. CASE i # 0
    <3>1. i \in Fds \ {j}
      BY <2>1, <2>3, Consts
    <3>2. Hold(o, c, p, i) = o[p][i]
      BY <2>3, <3>1 DEF Hold
    <3>3. Hold(o1, c1, p, i) = v[i]
      BY <1>5, <1>6, <2>3 DEF Hold
    <3> QED BY <1>4, <3>1, <3>2, <3>3
  <2> QED BY <2>2, <2>3
<1>10. Follows(p, j, t, o, c, u, o1, c1)
  <2>1. SUFFICES ASSUME NEW g \in FileSlots
                 PROVE  u[g].count = t[g].count - One(Hold(o, c, p, j), g) + One(Hold(o1, c1, p, j), g)
    BY DEF Follows
  <2>2. t[g].count \in Nat /\ g # 0
    BY <1>1, <1>2 DEF FileRec
  <2>3. One(Hold(o, c, p, j), g) = 0 /\ One(Hold(o1, c1, p, j), g) = IF g = f THEN 1 ELSE 0
    BY <1>8, <2>2 DEF One
  <2> QED BY <2>2, <2>3 DEF OnlyAt
<1>11. FilesAdd(u, o1, c1)
  BY <1>1, <1>2, <1>7, <1>9, <1>10, CountsFollow
<1>12. Midway(u, o1, c1)
  <2>1. AtHand(p, o1, c1)
    BY <1>6 DEF AtHand
  <2> QED BY <1>1, <1>7, <2>1, OthersMidway
<1> QED BY <1>5, <1>6, <1>11, <1>12

(* dup: descriptor j refers to what i refers to.                           *)
LEMMA RefersToo ==
    ASSUME NEW t, NEW o, NEW ir, NEW c, Accounts(t, o, ir, c), NEW p \in FProcs, c[p].pc # "plock",
           NEW i \in Fds, NEW j \in Fds, i # j, o[p][i] # 0,
           Hold(o, c, p, j) = 0, c[p].ret = "dup" => c[p].to = j,
           NEW f, f = o[p][i], NEW o1, o1 = [o EXCEPT ![p] = [o[p] EXCEPT ![j] = f]],
           NEW r \in DoRec, r.pc = "user", r.ret = "none", NEW c1, c1 = [c EXCEPT ![p] = r],
           NEW u, u = [t EXCEPT ![f] = [t[f] EXCEPT !.count = t[f].count + 1]]
    PROVE  Accounts(u, o1, ir, c1)
<1>1. t \in [FileSlots -> FileRec] /\ o \in [FProcs -> [Fds -> 0 .. NFILE]] /\ FilesAdd(t, o, c)
  BY DEF Accounts, FTypes
<1>2. f \in FileSlots /\ i # 0 /\ i \in 0 .. NOFILE /\ 0 \in 0 .. NOFILE
  BY <1>1, Consts
<1>3. Hold(o, c, p, i) = f
  BY <1>2 DEF Hold
<1>4. t[f].count \in Nat \ {0}
  BY <1>1, <1>2, <1>3, HeldIsCounted
<1>5. Recounted(t, u, f, t[f].count + 1)
  <2>1. PICK n \in Nat : n = t[f].count + 1
    BY <1>4
  <2>2. Recounted(t, u, f, n)
    BY <1>1, <1>2, <2>1, Recount
  <2> QED BY <2>1, <2>2
<1>6. u \in [FileSlots -> FileRec] /\ u[f].count = t[f].count + 1 /\ u[f].ino = t[f].ino /\ OnlyAt(f, t, u)
  BY <1>5 DEF Recounted, OnlyAt
<1>7. OthersLast(p, c, u)
  <2>1. SUFFICES ASSUME NEW q \in FProcs \ {p}, c[q].pc = "plock" PROVE u[c[q].f].count = 1
    BY DEF OthersLast
  <2>2. c[q].f \in FileSlots /\ t[c[q].f].count = 1 /\ c[q].f # f
    BY <1>2, <1>3, <2>1, LastIsAlone
  <2> QED BY <1>6, <2>2 DEF OnlyAt
<1>8. /\ o1 \in [FProcs -> [Fds -> 0 .. NFILE]] /\ c1 \in [FProcs -> DoRec]
      /\ Midway(u, o1, c1) /\ FilesAdd(u, o1, c1)
  BY <1>2, <1>6, <1>7, Refers, ZenonT(60)
<1>9. FilesHaveInodes(u) /\ InodesAdd(u, ir)
  <2>1. \A g \in FileSlots : (u[g].count > 0 <=> t[g].count > 0) /\ u[g].ino = t[g].ino
    BY <1>4, <1>6 DEF OnlyAt
  <2>2. InodesAdd(u, ir)
    <3>1. SameUse(t, u) /\ InodesAdd(t, ir)
      BY <2>1 DEF SameUse, Accounts
    <3> QED BY <3>1, InodesSame
  <2> QED BY <2>1, <2>2 DEF Accounts, FilesHaveInodes
<1> QED BY <1>6, <1>8, <1>9 DEF Accounts, FTypes

(* open and pipe: a free descriptor refers to a free file structure.       *)
LEMMA Opened ==
    ASSUME NEW t, NEW o, NEW ir, NEW c, Accounts(t, o, ir, c), NEW p \in FProcs, c[p].pc = "user",
           NEW j \in Fds, o[p][j] = 0, NEW f \in FileSlots, t[f].count = 0, NEW n \in FInos,
           NEW o1, o1 = [o EXCEPT ![p] = [o[p] EXCEPT ![j] = f]],
           NEW u, u = [t EXCEPT ![f] = [count |-> 1, ino |-> n]]
    PROVE  Accounts(u, o1, [ir EXCEPT ![n] = @ + 1], c)
<1>1. /\ t \in [FileSlots -> FileRec] /\ c \in [FProcs -> DoRec] /\ ir \in [FInos -> Nat]
      /\ c[p].ret = "none" /\ InodesAdd(t, ir) /\ FilesHaveInodes(t)
  BY DEF Accounts, FTypes, Midway
<1>2. PICK v : v = [count |-> 1, ino |-> n]
  OBVIOUS
<1>3. v \in FileRec /\ v.count = 1 /\ v.ino = n
  BY <1>2 DEF FileRec
<1>4. /\ u \in [FileSlots -> FileRec] /\ u[f] = v /\ u[f].count = t[f].count + 1 /\ OnlyAt(f, t, u)
  BY <1>1, <1>2, <1>3 DEF OnlyAt
<1>5. OthersLast(p, c, u)
  <2>1. SUFFICES ASSUME NEW q \in FProcs \ {p}, c[q].pc = "plock" PROVE u[c[q].f].count = 1
    BY DEF OthersLast
  <2>2. c[q].f \in FileSlots /\ t[c[q].f].count = 1
    BY <2>1, LastIsAlone
  <2> QED BY <1>4, <2>2 DEF OnlyAt
<1>6. Hold(o, c, p, j) = 0
  BY <1>1, Consts DEF Hold
<1>7. PICK r : r = c[p]
  OBVIOUS
<1>8. r \in DoRec /\ r.pc = "user" /\ r.ret = "none" /\ c = [c EXCEPT ![p] = r]
  BY <1>1, <1>7
<1>9. /\ o1 \in [FProcs -> [Fds -> 0 .. NFILE]]
      /\ Midway(u, o1, c) /\ FilesAdd(u, o1, c)
  <2>1. PICK c1 : c1 = [c EXCEPT ![p] = r]
    OBVIOUS
  <2>2. c[p].pc # "plock" /\ (c[p].ret = "dup" => c[p].to = j)
    BY <1>1
  <2>4. /\ r \in DoRec /\ r.pc = "user" /\ r.ret = "none"
        /\ u \in [FileSlots -> FileRec] /\ u[f].count = t[f].count + 1 /\ OnlyAt(f, t, u)
    BY <1>4, <1>8
  <2>3. /\ o1 \in [FProcs -> [Fds -> 0 .. NFILE]]
        /\ Midway(u, o1, c1) /\ FilesAdd(u, o1, c1)
    BY <1>5, <1>6, <2>1, <2>2, <2>4, Refers
  <2> QED BY <1>8, <2>1, <2>3
<1>10. FilesHaveInodes(u)
  BY <1>1, <1>3, <1>4 DEF FilesHaveInodes, OnlyAt
<1>11. PICK ir1 : ir1 = [ir EXCEPT ![n] = @ + 1]
  OBVIOUS
<1>12. InodesAdd(u, ir1)
  <2>1. ~(t[f].count > 0) /\ u[f].count > 0 /\ u[f].ino = n
    BY <1>3, <1>4
  <2> QED BY <1>1, <1>4, <1>11, <2>1, InodesOneMore
<1>13. ir1 \in [FInos -> Nat]
  BY <1>1, <1>11
<1>14. Accounts(u, o1, ir1, c)
  BY <1>1, <1>4, <1>9, <1>10, <1>12, <1>13 DEF Accounts, FTypes
<1> QED BY <1>11, <1>14

(* pipe gives the first file structure back.                               *)
LEMMA GivenBack ==
    ASSUME NEW t, NEW o, NEW ir, NEW c, Accounts(t, o, ir, c), NEW f \in FileSlots, t[f].count = 0,
           NEW u, u = [t EXCEPT ![f] = NoFile]
    PROVE  Accounts(u, o, ir, c)
<1>1. /\ t \in [FileSlots -> FileRec] /\ Midway(t, o, c) /\ FilesAdd(t, o, c)
      /\ InodesAdd(t, ir) /\ FilesHaveInodes(t)
  BY DEF Accounts, FTypes
<1>2. NoFile \in FileRec /\ NoFile.count = 0
  BY DEF NoFile, FileRec
<1>3. /\ u \in [FileSlots -> FileRec] /\ u[f].count = 0 /\ \A g \in FileSlots \ {f} : u[g] = t[g]
  BY <1>1, <1>2
<1>4. FilesAdd(u, o, c) /\ FilesHaveInodes(u)
  BY <1>1, <1>3 DEF FilesAdd, FilesHaveInodes
<1>5. InodesAdd(u, ir)
  <2>1. SameUse(t, u)
    BY <1>3 DEF SameUse
  <2> QED BY <1>1, <2>1, InodesSame
<1>6. Midway(u, o, c)
  <2>1. \A q \in FProcs : c[q].pc = "plock" => c[q].f # 0 /\ u[c[q].f].count = 1
    <3>1. SUFFICES ASSUME NEW q \in FProcs, c[q].pc = "plock" PROVE c[q].f # 0 /\ u[c[q].f].count = 1
      OBVIOUS
    <3>2. c[q].f \in FileSlots /\ t[c[q].f].count = 1 /\ c[q].f # 0
      BY <1>1, <3>1, LastIsAlone DEF Midway
    <3> QED BY <1>3, <3>2
  <2> QED BY <1>1, <2>1 DEF Midway
<1> QED BY <1>3, <1>4, <1>5, <1>6 DEF Accounts, FTypes

-----------------------------------------------------------------------------
(* fork: the child's descriptors refer to what the parent's refer to.      *)
Bare(q, o, c) == \A i \in 0 .. NOFILE : Hold(o, c, q, i) = 0
Copies(q, o, c, d) == Hold(o, c, q, 0) = 0 /\ \A i \in Fds : Hold(o, c, q, i) = d[i]

LEMMA ChildCounts ==
    ASSUME NEW o, NEW c, NEW o1, NEW c1, NEW q \in FProcs, NEW d,
           Alone(q, o, c, o1, c1), Bare(q, o, c), Copies(q, o1, c1, d), NEW f \in FileSlots
    PROVE  Count(HoldsOf(o1, c1), f) = Count(HoldsOf(o, c), f) + Uses(d, f)
<1>1. PICK A : A = {x \in Places : HoldsOf(o, c)[x] = f}
  OBVIOUS
<1>2. PICK S : S = {i \in Fds : d[i] = f}
  OBVIOUS
<1>3. PICK T : T = {<<q, i>> : i \in S}
  OBVIOUS
<1>4. IsFiniteSet(S) /\ Cardinality(S) = Uses(d, f)
  <2>1. S \in SUBSET Fds
    BY <1>2
  <2> QED BY <1>2, <2>1, Consts, FS_Subset DEF Uses
<1>5. IsFiniteSet(T) /\ Cardinality(T) = Cardinality(S)
  <2>1. PICK b : b = [i \in S |-> <<q, i>>]
    OBVIOUS
  <2>2. b \in [S -> T] /\ \A i, j \in S : b[i] = b[j] => i = j
    BY <1>3, <2>1
  <2>3. \A x \in T : \E i \in S : b[i] = x
    BY <1>3, <2>1
  <2>4. b \in Bijection(S, T)
    BY <2>2, <2>3, Fun_IsBij
  <2> QED BY <1>4, <2>4, FS_Bijection DEF ExistsBijection
<1>6. 0 \in 0 .. NOFILE /\ f # 0 /\ Fds \subseteq 0 .. NOFILE /\ \A i \in 0 .. NOFILE : i = 0 \/ i \in Fds
  BY Consts
<1>7. {x \in Places : HoldsOf(o1, c1)[x] = f} = A \cup T
  <2>1. ASSUME NEW r \in FProcs, NEW i \in 0 .. NOFILE
        PROVE  HoldsOf(o1, c1)[<<r, i>>] = f <=> <<r, i>> \in A \cup T
    <3>1. <<r, i>> \in Places /\ HoldsOf(o, c)[<<r, i>>] = Hold(o, c, r, i)
      BY HoldAt
    <3>2. HoldsOf(o1, c1)[<<r, i>>] = Hold(o1, c1, r, i)
      BY HoldAt
    <3>3. <<r, i>> \in A <=> Hold(o, c, r, i) = f
      BY <1>1, <3>1
    <3>4. CASE r = q
      <4>1. <<r, i>> \notin A
        BY <1>6, <3>3, <3>4 DEF Bare
      <4>2. <<r, i>> \in T <=> i \in S
        BY <1>3, <3>4
      <4> QED BY <1>2, <1>6, <3>2, <3>4, <4>1, <4>2 DEF Copies
    <3>5. CASE r # q
      <4>1. <<r, i>> \notin T
        BY <1>3, <3>5
      <4>2. Hold(o1, c1, r, i) = Hold(o, c, r, i)
        BY <3>5 DEF Alone, Hold
      <4> QED BY <3>2, <3>3, <4>1, <4>2
    <3> QED BY <3>4, <3>5
  <2>2. \A x \in Places : \E r \in FProcs, i \in 0 .. NOFILE : x = <<r, i>>
    BY DEF Places
  <2>3. \A x \in Places : HoldsOf(o1, c1)[x] = f <=> x \in A \cup T
    BY <2>1, <2>2
  <2>4. A \cup T \subseteq Places
    BY <1>1, <1>2, <1>3, <1>6 DEF Places
  <2> QED BY <2>3, <2>4
<1>8. A \cap T = {}
  <2>1. ASSUME NEW i \in S PROVE <<q, i>> \notin A
    <3>1. HoldsOf(o, c)[<<q, i>>] = Hold(o, c, q, i) /\ i \in 0 .. NOFILE
      BY <1>2, <1>6, HoldAt
    <3> QED BY <1>1, <1>6, <3>1 DEF Bare
  <2> QED BY <1>3, <2>1
<1>9. IsFiniteSet(A) /\ Cardinality(A) = Count(HoldsOf(o, c), f) /\ Cardinality(A) \in Nat
  <2>1. PICK h : h = HoldsOf(o, c)
    OBVIOUS
  <2>2. IsFiniteSet({x \in Places : h[x] = f}) /\ Count(h, f) \in Nat
    BY CountIsFinite
  <2> QED BY <1>1, <2>1, <2>2 DEF Count
<1>10. Cardinality(A \cup T) = Cardinality(A) + Cardinality(T) - Cardinality(A \cap T)
  BY <1>5, <1>9, FS_Union
<1>11. Cardinality(T) \in Nat /\ Cardinality(A \cap T) = 0
  BY <1>5, <1>8, FS_CardinalityType, FS_EmptySet
<1>12. Count(HoldsOf(o1, c1), f) = Cardinality(A \cup T)
  BY <1>7 DEF Count
<1> QED BY <1>4, <1>5, <1>9, <1>10, <1>11, <1>12

LEMMA Forked ==
    ASSUME NEW t, NEW o, NEW ir, NEW c, Accounts(t, o, ir, c), NEW p \in FProcs, c[p].pc = "user",
           NEW q \in FProcs, c[q].pc = "none",
           NEW u, u = [f \in FileSlots |-> [t[f] EXCEPT !.count = @ + Uses(o[p], f)]],
           NEW o1, o1 = [o EXCEPT ![q] = o[p]], NEW c1, c1 = [c EXCEPT ![q] = FIdle]
    PROVE  Accounts(u, o1, ir, c1)
<1>1. /\ t \in [FileSlots -> FileRec] /\ c \in [FProcs -> DoRec]
      /\ o \in [FProcs -> [Fds -> 0 .. NFILE]] /\ ir \in [FInos -> Nat]
      /\ Midway(t, o, c) /\ FilesAdd(t, o, c) /\ InodesAdd(t, ir) /\ FilesHaveInodes(t)
  BY DEF Accounts, FTypes
<1>2. p # q /\ c[p].ret = "none" /\ c[q].ret = "none" /\ \A i \in Fds : o[q][i] = 0
  BY <1>1 DEF Midway
<1>3. FIdle \in DoRec /\ FIdle.pc = "user" /\ FIdle.ret = "none"
  BY Consts DEF FIdle, DoRec
<1>4. /\ o1 \in [FProcs -> [Fds -> 0 .. NFILE]] /\ o1[q] = o[p]
      /\ c1 \in [FProcs -> DoRec] /\ c1[q] = FIdle /\ Alone(q, o, c, o1, c1)
  BY <1>1, <1>3 DEF Alone
<1>5. \A f \in FileSlots : Uses(o[p], f) \in Nat /\ (Uses(o[p], f) > 0 => \E i \in Fds : o[p][i] = f)
  <2>1. TAKE f \in FileSlots
  <2>2. PICK S : S = {i \in Fds : o[p][i] = f}
    OBVIOUS
  <2>3. IsFiniteSet(S)
    BY <2>2, Consts, FS_Subset
  <2>4. Cardinality(S) \in Nat /\ (Cardinality(S) = 0 <=> S = {})
    BY <2>3, FS_CardinalityType, FS_EmptySet
  <2> QED BY <2>2, <2>4 DEF Uses
<1>6. ASSUME NEW f \in FileSlots
      PROVE  /\ u[f] \in FileRec /\ u[f].count = t[f].count + Uses(o[p], f) /\ u[f].ino = t[f].ino
             /\ Uses(o[p], f) > 0 => t[f].count > 0
  <2>1. u[f] = [t[f] EXCEPT !.count = t[f].count + Uses(o[p], f)] /\ t[f] \in FileRec
    BY <1>1
  <2>2. PICK k \in Nat : k = t[f].count + Uses(o[p], f)
    BY <1>5, <2>1 DEF FileRec
  <2>3. u[f] \in FileRec /\ u[f].count = k /\ u[f].ino = t[f].ino
    BY <2>1, <2>2 DEF FileRec
  <2>4. ASSUME Uses(o[p], f) > 0
        PROVE  t[f].count > 0
    <3>1. PICK i \in Fds : o[p][i] = f
      BY <1>5, <2>4
    <3>2. i \in 0 .. NOFILE /\ Hold(o, c, p, i) = f
      BY <1>2, <3>1, Consts DEF Hold
    <3>3. t[f].count \in Nat \ {0}
      BY <1>1, <3>2, HeldIsCounted
    <3> QED BY <3>3
  <2> QED BY <2>2, <2>3, <2>4
<1>7. u \in [FileSlots -> FileRec]
  <2>1. u = [f \in FileSlots |-> u[f]]
    OBVIOUS
  <2> QED BY <1>6, <2>1
<1>8. FilesAdd(u, o1, c1)
  <2>1. PICK d : d = o[p]
    OBVIOUS
  <2>2. Bare(q, o, c)
    BY <1>2, Consts DEF Hold, Bare
  <2>3. Copies(q, o1, c1, d)
    BY <1>3, <1>4, <2>1, Consts DEF Hold, Copies
  <2>4. \A f \in FileSlots : Count(HoldsOf(o1, c1), f) = Count(HoldsOf(o, c), f) + Uses(d, f)
    BY <1>4, <2>2, <2>3, ChildCounts
  <2> QED BY <1>1, <1>6, <2>1, <2>4 DEF FilesAdd
<1>9. Midway(u, o1, c1)
  <2>1. OthersLast(q, c, u)
    <3>1. SUFFICES ASSUME NEW r \in FProcs \ {q}, c[r].pc = "plock" PROVE u[c[r].f].count = 1
      BY DEF OthersLast
    <3>2. c[r].f \in FileSlots /\ t[c[r].f].count = 1 /\ r # p
      BY <3>1, LastIsAlone
    <3>3. ASSUME NEW i \in Fds, o[p][i] = c[r].f
          PROVE  FALSE
      <4>1. i \in 0 .. NOFILE /\ Hold(o, c, p, i) = c[r].f
        BY <1>2, <3>3, Consts DEF Hold
      <4> QED BY <3>1, <3>2, <4>1, LastIsAlone
    <3>4. Uses(o[p], c[r].f) = 0
      BY <1>5, <3>2, <3>3
    <3> QED BY <1>6, <3>2, <3>4
  <2>2. AtHand(q, o1, c1)
    BY <1>3, <1>4 DEF AtHand
  <2> QED BY <1>1, <1>4, <2>1, <2>2, OthersMidway
<1>10. FilesHaveInodes(u) /\ InodesAdd(u, ir)
  <2>1. SameUse(t, u)
    <3>1. \A f \in FileSlots : t[f].count \in Nat
      BY <1>1 DEF FileRec
    <3> QED BY <1>5, <1>6, <3>1 DEF SameUse
  <2>2. InodesAdd(u, ir)
    BY <1>1, <2>1, InodesSame
  <2> QED BY <1>1, <1>6, <2>1, <2>2 DEF FilesHaveInodes, SameUse
<1> QED BY <1>1, <1>4, <1>7, <1>8, <1>9, <1>10 DEF Accounts, FTypes

-----------------------------------------------------------------------------
(* What closef's callers do when it returns.                               *)
LEMMA ClosefReturns ==
    ASSUME NEW t, NEW o, NEW ir, NEW c, Accounts(t, o, ir, c), NEW p \in FProcs, c[p].pc = "drain",
           NEW d, d.ret = c[p].ret, d.from = c[p].from, d.to = c[p].to,
           fp \in [FProcs -> DoRec], Alone(p, o, fp, o, c), After(p, t, o, d)
    PROVE  Accounts(file', ofile', ir, fp')
<1>1. /\ c \in [FProcs -> DoRec] /\ o \in [FProcs -> [Fds -> 0 .. NFILE]] /\ t \in [FileSlots -> FileRec]
      /\ Midway(t, o, c)
  BY DEF Accounts, FTypes
<1>2. c[p].ret \in {"close", "dup", "exit"}
  BY <1>1 DEF Midway, DoRec
<1>3. \A r : [c EXCEPT ![p] = r] = [fp EXCEPT ![p] = r]
  BY <1>1 DEF Alone
<1>4. FIdle \in DoRec /\ FIdle.pc = "user" /\ FIdle.ret = "none"
  BY Consts DEF FIdle, DoRec
<1>5. CASE c[p].ret \in {"close", "exit"}
  <2>1. PICK r : r = IF c[p].ret = "close" THEN FIdle ELSE [FIdle EXCEPT !.pc = "exit"]
    OBVIOUS
  <2>2. r \in DoRec /\ r.ret = "none" /\ r.pc \in {"user", "exit"}
    BY <1>4, <2>1 DEF FIdle, DoRec
  <2>3. file' = t /\ ofile' = o /\ fp' = [fp EXCEPT ![p] = r]
    BY <1>5, <2>1 DEF After
  <2>4. fp' = [c EXCEPT ![p] = r]
    BY <1>3, <2>3
  <2>5. Accounts(t, o, ir, fp')
    BY <1>5, <2>2, <2>4, CallOver
  <2> QED BY <2>3, <2>5
<1>6. CASE c[p].ret = "dup"
  <2>1. PICK i : i = c[p].from
    OBVIOUS
  <2>2. PICK j : j = c[p].to
    OBVIOUS
  <2>3. i \in Fds /\ j \in Fds /\ i # j /\ o[p][i] # 0
    BY <1>1, <1>6, <2>1, <2>2 DEF Midway
  <2>4. PICK f : f = o[p][i]
    OBVIOUS
  <2>5. f \in FileSlots /\ t[f] \in FileRec
    BY <1>1, <2>3, <2>4, Consts
  <2>6. Hold(o, c, p, j) = 0 /\ (c[p].ret = "dup" => c[p].to = j) /\ c[p].pc # "plock"
    BY <1>6, <2>2, <2>3, Consts DEF Hold
  <2>7. file' = [t EXCEPT ![f] = [t[f] EXCEPT !.count = t[f].count + 1]]
    BY <1>6, <2>1, <2>4 DEF After
  <2>8. ofile' = [o EXCEPT ![p] = [o[p] EXCEPT ![j] = f]]
    BY <1>6, <2>1, <2>2, <2>4 DEF After
  <2>9. fp' = [c EXCEPT ![p] = FIdle]
    BY <1>3, <1>6 DEF After
  <2> QED BY <1>4, <2>3, <2>4, <2>6, <2>7, <2>8, <2>9, RefersToo
<1> QED BY <1>2, <1>5, <1>6

(* closef, called with descriptor i of p cleared, or by dup.               *)
LEMMA ClosefKeeps ==
    ASSUME FilesInv, NEW p \in FProcs, NEW i \in Fds, ofile[p][i] # 0, fp[p].ret = "none",
           NEW o1, NEW d \in DoRec, d.pc = "plock", d.f = ofile[p][i], GivesUp(ofile, o1, p, i, d),
           Closef(p, o1, d), UNCHANGED iref
    PROVE  FilesInv'
<1>1. /\ Accounts(file, ofile, iref, fp) /\ file \in [FileSlots -> FileRec] /\ fp \in [FProcs -> DoRec]
      /\ ofile \in [FProcs -> [Fds -> 0 .. NFILE]]
  BY DEF FilesInv, Accounts, FTypes
<1>2. PICK f : f = ofile[p][i]
  OBVIOUS
<1>3. f \in FileSlots /\ file[f].count \in Nat /\ file[f] \in FileRec
  BY <1>1, <1>2, Consts DEF FileRec
<1>4. CASE file[f].count > 1
  <2>1. PICK r : r = [d EXCEPT !.pc = "drain"]
    OBVIOUS
  <2>2. /\ r \in DoRec /\ r.pc = "drain" /\ r.ret = d.ret /\ r.from = d.from /\ r.to = d.to
    BY <2>1 DEF DoRec
  <2>3. GivesUp(ofile, o1, p, i, r)
    BY <2>2 DEF GivesUp
  <2>4. PICK c1 : c1 = [fp EXCEPT ![p] = r]
    OBVIOUS
  <2>5. PICK u : u = [file EXCEPT ![f] = [file[f] EXCEPT !.count = file[f].count - 1]]
    OBVIOUS
  <2>6. Recounted(file, u, f, file[f].count - 1)
    <3>1. PICK n \in Nat : n = file[f].count - 1
      BY <1>3, <1>4
    <3>2. Recounted(file, u, f, n)
      BY <1>1, <1>3, <2>5, <3>1, Recount
    <3> QED BY <3>1, <3>2
  <2>7. Accounts(u, o1, iref, c1)
    <3>1. Accounts(file, ofile, iref, fp) /\ r \in DoRec /\ r.pc = "drain"
      BY <1>1, <2>2
    <3> QED BY <1>2, <1>4, <2>3, <2>4, <2>6, <3>1, GivesUpOne
  <2>8. After(p, u, o1, d)
    BY <1>2, <1>4, <2>5 DEF Closef
  <2>9. c1[p] = r /\ Alone(p, o1, fp, o1, c1)
    BY <1>1, <2>4 DEF Alone
  <2>10. c1[p].pc = "drain" /\ d.ret = c1[p].ret /\ d.from = c1[p].from /\ d.to = c1[p].to
    BY <2>2, <2>9
  <2>11. Accounts(file', ofile', iref, fp')
    BY <1>1, <2>7, <2>8, <2>9, <2>10, ClosefReturns
  <2> QED BY <2>11 DEF FilesInv
<1>5. CASE ~(file[f].count > 1)
  <2>1. fp' = [fp EXCEPT ![p] = d] /\ ofile' = o1 /\ file' = file
    BY <1>2, <1>5 DEF Closef
  <2>2. Accounts(file, o1, iref, fp')
    BY <1>1, <1>2, <1>5, <2>1, GivesUpLast
  <2> QED BY <2>1, <2>2 DEF FilesInv
<1> QED BY <1>4, <1>5

LEMMA CloseKeeps ==
    ASSUME FilesInv, NEW p \in FProcs, NEW i \in Fds, Close(p, i)
    PROVE  FilesInv'
<1>1. fp[p].ret = "none" /\ ofile[p] \in [Fds -> 0 .. NFILE] /\ ofile[p][i] \in 0 .. NFILE
  BY DEF Close, InUser, FilesInv, Accounts, Midway, FTypes
<1>2. PICK d : d = Closing(ofile[p][i], "close", 0, 0)
  OBVIOUS
<1>3. d \in DoRec /\ d.pc = "plock" /\ d.f = ofile[p][i] /\ d.ret = "close"
  BY <1>1, <1>2, Consts DEF Closing, DoRec
<1>4. PICK o1 : o1 = [ofile EXCEPT ![p] = [ofile[p] EXCEPT ![i] = 0]]
  OBVIOUS
<1>5. Closef(p, o1, d) /\ UNCHANGED iref /\ ofile[p][i] # 0
  BY <1>2, <1>4 DEF Close
<1>6. GivesUp(ofile, o1, p, i, d)
  BY <1>3, <1>4 DEF GivesUp
<1> QED BY <1>1, <1>3, <1>5, <1>6, ClosefKeeps

LEMMA ExitKeeps ==
    ASSUME FilesInv, NEW p \in FProcs, ExitFiles(p)
    PROVE  FilesInv'
<1>1. /\ fp[p].ret = "none" /\ fp[p].pc \in {"user", "exit"} /\ ofile[p] \in [Fds -> 0 .. NFILE]
      /\ Accounts(file, ofile, iref, fp)
  BY DEF ExitFiles, InUser, FilesInv, Accounts, Midway, FTypes
<1>2. PICK open : open = {i \in Fds : ofile[p][i] # 0}
  OBVIOUS
<1>3. CASE open = {}
  <2>1. PICK r : r = [FIdle EXCEPT !.pc = "none"]
    OBVIOUS
  <2>2. r \in DoRec /\ r.ret = "none" /\ r.pc = "none"
    BY <2>1, Consts DEF FIdle, DoRec
  <2>3. fp' = [fp EXCEPT ![p] = r] /\ UNCHANGED <<file, ofile, iref>>
    BY <1>2, <1>3, <2>1 DEF ExitFiles
  <2>4. \A i \in Fds : ofile[p][i] = 0
    BY <1>2, <1>3
  <2>5. Accounts(file, ofile, iref, fp')
    BY <1>1, <2>2, <2>3, <2>4, CallOver
  <2> QED BY <2>3, <2>5 DEF FilesInv
<1>4. CASE open # {}
  <2>1. PICK i : i = Min(open)
    OBVIOUS
  <2>2. open \in SUBSET Nat
    BY <1>2, Consts
  <2>3. i \in Fds /\ ofile[p][i] # 0 /\ ofile[p][i] \in 0 .. NFILE
    BY <1>1, <1>2, <1>4, <2>1, <2>2, MinExists
  <2>4. PICK d : d = Closing(ofile[p][i], "exit", 0, 0)
    OBVIOUS
  <2>5. d \in DoRec /\ d.pc = "plock" /\ d.f = ofile[p][i] /\ d.ret = "exit"
    BY <2>3, <2>4, Consts DEF Closing, DoRec
  <2>6. PICK o1 : o1 = [ofile EXCEPT ![p] = [ofile[p] EXCEPT ![i] = 0]]
    OBVIOUS
  <2>7. Closef(p, o1, d) /\ UNCHANGED iref
    BY <1>2, <1>4, <2>1, <2>4, <2>6 DEF ExitFiles
  <2>8. GivesUp(ofile, o1, p, i, d)
    BY <2>5, <2>6 DEF GivesUp
  <2> QED BY <1>1, <2>3, <2>5, <2>7, <2>8, ClosefKeeps
<1> QED BY <1>3, <1>4

LEMMA DupKeeps ==
    ASSUME FilesInv, NEW p \in FProcs, NEW i \in Fds, NEW j \in Fds, Dup(p, i, j)
    PROVE  FilesInv'
<1>1. /\ fp[p].ret = "none" /\ fp[p].pc = "user" /\ ofile[p] \in [Fds -> 0 .. NFILE]
      /\ ofile \in [FProcs -> [Fds -> 0 .. NFILE]]
      /\ Accounts(file, ofile, iref, fp) /\ ofile[p][j] \in 0 .. NFILE /\ fp \in [FProcs -> DoRec]
  BY DEF Dup, InUser, FilesInv, Accounts, Midway, FTypes
<1>2. ofile[p][i] # 0 /\ i # j /\ UNCHANGED iref
  BY DEF Dup
<1>3. CASE ofile[p][j] = 0
  <2>1. PICK f : f = ofile[p][i]
    OBVIOUS
  <2>2. PICK r : r = fp[p]
    OBVIOUS
  <2>3. r \in DoRec /\ r.pc = "user" /\ r.ret = "none"
    BY <1>1, <2>2
  <2>4. /\ file' = [file EXCEPT ![f] = [file[f] EXCEPT !.count = file[f].count + 1]]
        /\ ofile' = [ofile EXCEPT ![p] = [ofile[p] EXCEPT ![j] = f]]
        /\ fp' = fp
    BY <1>3, <2>1 DEF Dup
  <2>5. PICK c1 : c1 = [fp EXCEPT ![p] = r]
    OBVIOUS
  <2>6. c1 = fp
    BY <1>1, <2>2, <2>5
  <2>7. Hold(ofile, fp, p, j) = 0 /\ fp[p].pc # "plock" /\ (fp[p].ret = "dup" => fp[p].to = j)
    BY <1>1, <1>3, Consts DEF Hold
  <2>8. Accounts(file, ofile, iref, fp)
    BY <1>1
  <2>9. Accounts(file', ofile', iref, c1)
    BY <1>2, <2>1, <2>3, <2>4, <2>5, <2>7, <2>8, RefersToo
  <2> QED BY <1>2, <2>4, <2>6, <2>9 DEF FilesInv
<1>4. CASE ofile[p][j] # 0
  <2>1. PICK d : d = Closing(ofile[p][j], "dup", i, j)
    OBVIOUS
  <2>2. /\ d \in DoRec /\ d.pc = "plock" /\ d.f = ofile[p][j] /\ d.ret = "dup"
        /\ d.from = i /\ d.to = j
    BY <1>1, <2>1, Consts DEF Closing, DoRec
  <2>3. PICK o1 : o1 = ofile
    OBVIOUS
  <2>4. Closef(p, o1, d)
    BY <1>4, <2>1, <2>3 DEF Dup
  <2>5. GivesUp(ofile, o1, p, j, d)
    BY <1>2, <2>2, <2>3 DEF GivesUp
  <2> QED BY <1>1, <1>2, <1>4, <2>2, <2>4, <2>5, ClosefKeeps
<1> QED BY <1>3, <1>4

LEMMA LastCloseKeeps ==
    ASSUME FilesInv, NEW p \in FProcs, LastClose(p)
    PROVE  FilesInv'
<1>1. Accounts(file, ofile, iref, fp) /\ fp \in [FProcs -> DoRec] /\ fp[p].pc = "plock"
  BY DEF LastClose, FilesInv, Accounts, FTypes
<1>2. PICK n : n = file[fp[p].f].ino
  OBVIOUS
<1>3. PICK u : u = Undone(file, fp[p].f)
  OBVIOUS
<1>4. PICK c1 : c1 = [fp EXCEPT ![p] = [fp[p] EXCEPT !.pc = "drain"]]
  OBVIOUS
<1>5. PICK ir1 : ir1 = [iref EXCEPT ![n] = @ - 1]
  OBVIOUS
<1>6. Accounts(u, ofile, ir1, c1)
  <2>1. Accounts(u, ofile, [iref EXCEPT ![n] = @ - 1], c1)
    BY <1>1, <1>2, <1>3, <1>4, LastGone
  <2> QED BY <1>5, <2>1
<1>7. iref' = ir1
  BY <1>2, <1>5 DEF LastClose
<1>8. CASE n = TTY /\ OpenOn(u, TTY) = {}
  <2>1. file' = u /\ fp' = c1 /\ ofile' = ofile
    BY <1>2, <1>3, <1>4, <1>8 DEF LastClose
  <2> QED BY <1>6, <1>7, <2>1 DEF FilesInv
<1>9. CASE ~(n = TTY /\ OpenOn(u, TTY) = {})
  <2>1. After(p, u, ofile, fp[p])
    BY <1>2, <1>3, <1>9 DEF LastClose
  <2>2. PICK d : d = fp[p]
    OBVIOUS
  <2>3. /\ c1[p].pc = "drain" /\ d.ret = c1[p].ret /\ d.from = c1[p].from /\ d.to = c1[p].to
        /\ Alone(p, ofile, fp, ofile, c1)
    <3>1. PICK r : r = [fp[p] EXCEPT !.pc = "drain"]
      OBVIOUS
    <3>2. fp[p] \in DoRec /\ c1 = [fp EXCEPT ![p] = r]
      BY <1>1, <1>4, <3>1
    <3>3. r.pc = "drain" /\ r.ret = d.ret /\ r.from = d.from /\ r.to = d.to
      BY <2>2, <3>1, <3>2 DEF DoRec
    <3> QED BY <1>1, <3>2, <3>3 DEF Alone
  <2>4. After(p, u, ofile, d) /\ fp \in [FProcs -> DoRec]
    BY <1>1, <2>1, <2>2
  <2>5. Accounts(file', ofile', ir1, fp')
    BY <1>6, <2>3, <2>4, ClosefReturns
  <2> QED BY <1>7, <2>5 DEF FilesInv
<1> QED BY <1>8, <1>9

LEMMA DrainKeeps ==
    ASSUME FilesInv, NEW p \in FProcs, TtyDrained(p) \/ Signalled(p), "dup" \notin Ends
    PROVE  FilesInv'
<1>1. Accounts(file, ofile, iref, fp) /\ fp \in [FProcs -> DoRec] /\ fp[p].pc = "drain" /\ iref' = iref
  BY DEF TtyDrained, Signalled, FilesInv, Accounts, FTypes
<1>2. CASE TtyDrained(p)
  <2>1. PICK d : d = fp[p]
    OBVIOUS
  <2>2. After(p, file, ofile, d) /\ Alone(p, ofile, fp, ofile, fp)
    BY <1>2, <2>1 DEF TtyDrained, Alone
  <2>3. Accounts(file', ofile', iref, fp')
    BY <1>1, <2>1, <2>2, ClosefReturns
  <2> QED BY <1>1, <2>3 DEF FilesInv
<1>3. CASE Signalled(p)
  <2>1. fp[p].ret # "dup" /\ fp' = [fp EXCEPT ![p] = FIdle] /\ UNCHANGED <<file, ofile, iref>>
    BY <1>3 DEF Signalled
  <2>2. FIdle \in DoRec /\ FIdle.pc = "user" /\ FIdle.ret = "none"
    BY Consts DEF FIdle, DoRec
  <2>3. Accounts(file, ofile, iref, fp')
    BY <1>1, <2>1, <2>2, CallOver
  <2> QED BY <2>1, <2>3 DEF FilesInv
<1> QED BY <1>2, <1>3

LEMMA ForkKeeps ==
    ASSUME FilesInv, NEW p \in FProcs, NEW q \in FProcs, ForkFiles(p, q)
    PROVE  FilesInv'
<1>1. Accounts(file, ofile, iref, fp) /\ fp[p].pc = "user" /\ fp[q].pc = "none" /\ iref' = iref
  BY DEF ForkFiles, InUser, FilesInv
<1>2. /\ file' = [f \in FileSlots |-> [file[f] EXCEPT !.count = @ + Uses(ofile[p], f)]]
      /\ ofile' = [ofile EXCEPT ![q] = ofile[p]] /\ fp' = [fp EXCEPT ![q] = FIdle]
  BY DEF ForkFiles
<1>3. Accounts(file', ofile', iref, fp')
  BY <1>1, <1>2, Forked
<1> QED BY <1>1, <1>3 DEF FilesInv

(* falloc's descriptor and file structure.                                 *)
LEMMA Fallocated ==
    ASSUME NEW d, NEW t, Falloc(d, t)
    PROVE  /\ Min(FreeFds(d)) \in Fds /\ d[Min(FreeFds(d))] = 0
           /\ Min(FreeFiles(t)) \in FileSlots /\ t[Min(FreeFiles(t))].count = 0
<1>1. PICK A : A = FreeFds(d)
  OBVIOUS
<1>2. PICK B : B = FreeFiles(t)
  OBVIOUS
<1>3. A \in SUBSET Nat /\ B \in SUBSET Nat /\ A # {} /\ B # {}
  BY <1>1, <1>2, Consts DEF FreeFds, FreeFiles, Falloc
<1>4. Min(A) \in A /\ Min(B) \in B
  BY <1>3, MinExists
<1> QED BY <1>1, <1>2, <1>4 DEF FreeFds, FreeFiles

LEMMA OpenKeeps ==
    ASSUME FilesInv, NEW p \in FProcs, NEW n \in FInos, Open(p, n)
    PROVE  FilesInv'
<1>1. /\ Accounts(file, ofile, iref, fp) /\ fp[p].pc = "user" /\ fp' = fp
      /\ iref' = [iref EXCEPT ![n] = @ + 1]
  BY DEF Open, InUser, FilesInv
<1>2. PICK i : i = Min(FreeFds(ofile[p]))
  OBVIOUS
<1>3. PICK f : f = Min(FreeFiles(file))
  OBVIOUS
<1>4. i \in Fds /\ ofile[p][i] = 0 /\ f \in FileSlots /\ file[f].count = 0
  BY <1>2, <1>3, Fallocated DEF Open
<1>5. /\ file' = [file EXCEPT ![f] = [count |-> 1, ino |-> n]]
      /\ ofile' = [ofile EXCEPT ![p] = [ofile[p] EXCEPT ![i] = f]]
  BY <1>2, <1>3 DEF Open
<1>6. Accounts(file', ofile', [iref EXCEPT ![n] = @ + 1], fp)
  BY <1>1, <1>4, <1>5, Opened
<1> QED BY <1>1, <1>6 DEF FilesInv

LEMMA PipeKeeps ==
    ASSUME FilesInv, NEW p \in FProcs, NEW n \in FInos, PipeCall(p, n)
    PROVE  FilesInv'
<1>1. /\ Accounts(file, ofile, iref, fp) /\ fp[p].pc = "user" /\ fp' = fp /\ iref[n] = 0
      /\ iref \in [FInos -> Nat] /\ ofile \in [FProcs -> [Fds -> 0 .. NFILE]]
      /\ file \in [FileSlots -> FileRec]
  BY DEF PipeCall, InUser, FilesInv, Accounts, FTypes
<1>2. PICK i : i = Min(FreeFds(ofile[p]))
  OBVIOUS
<1>3. PICK f : f = Min(FreeFiles(file))
  OBVIOUS
<1>4. i \in Fds /\ ofile[p][i] = 0 /\ f \in FileSlots /\ file[f].count = 0
  BY <1>2, <1>3, Fallocated DEF PipeCall
<1>5. PICK d : d = [ofile[p] EXCEPT ![i] = f]
  OBVIOUS
<1>6. PICK t : t = [file EXCEPT ![f] = [count |-> 1, ino |-> n]]
  OBVIOUS
<1>7. CASE Falloc(d, t)
  <2>1. PICK o1 : o1 = [ofile EXCEPT ![p] = [ofile[p] EXCEPT ![i] = f]]
    OBVIOUS
  <2>2. PICK ir1 : ir1 = [iref EXCEPT ![n] = @ + 1]
    OBVIOUS
  <2>3. Accounts(t, o1, ir1, fp)
    <3>1. Accounts(t, o1, [iref EXCEPT ![n] = @ + 1], fp)
      BY <1>1, <1>4, <1>6, <2>1, Opened
    <3> QED BY <2>2, <3>1
  <2>4. PICK j : j = Min(FreeFds(d))
    OBVIOUS
  <2>5. PICK g : g = Min(FreeFiles(t))
    OBVIOUS
  <2>6. j \in Fds /\ d[j] = 0 /\ g \in FileSlots /\ t[g].count = 0
    BY <1>7, <2>4, <2>5, Fallocated
  <2>7. o1[p] = d
    BY <1>1, <1>5, <2>1
  <2>8. file' = [t EXCEPT ![g] = [count |-> 1, ino |-> n]] /\ iref' = [iref EXCEPT ![n] = 2]
    BY <1>2, <1>3, <1>5, <1>6, <1>7, <2>5 DEF PipeCall
  <2>9. ofile' = [ofile EXCEPT ![p] = [d EXCEPT ![j] = g]]
    BY <1>2, <1>3, <1>5, <1>6, <1>7, <2>4, <2>5 DEF PipeCall
  <2>10. ofile' = [o1 EXCEPT ![p] = [o1[p] EXCEPT ![j] = g]]
    BY <1>1, <2>1, <2>7, <2>9
  <2>11. Accounts(file', ofile', [ir1 EXCEPT ![n] = @ + 1], fp)
    BY <1>1, <2>3, <2>6, <2>7, <2>8, <2>10, Opened
  <2>12. [ir1 EXCEPT ![n] = @ + 1] = iref'
    BY <1>1, <2>2, <2>8
  <2> QED BY <1>1, <2>11, <2>12 DEF FilesInv
<1>8. CASE ~Falloc(d, t)
  <2>1. file' = [t EXCEPT ![f] = NoFile] /\ UNCHANGED <<ofile, iref>>
    BY <1>2, <1>3, <1>5, <1>6, <1>8 DEF PipeCall, PipeUndone, Undone
  <2>2. file' = [file EXCEPT ![f] = NoFile]
    BY <1>1, <1>6, <2>1
  <2>3. Accounts(file', ofile, iref, fp)
    BY <1>1, <1>4, <2>2, GivenBack
  <2> QED BY <1>1, <2>1, <2>3 DEF FilesInv
<1> QED BY <1>7, <1>8

LEMMA FilesInit_Inv ==
    ASSUME FilesInit
    PROVE  FilesInv
<1>1. NoFile \in FileRec /\ NoFile.count = 0 /\ FIdle \in DoRec /\ FIdle.pc = "user" /\ FIdle.ret = "none"
  BY Consts DEF NoFile, FileRec, FIdle, DoRec
<1>2. PICK r : r = [FIdle EXCEPT !.pc = "none"]
  OBVIOUS
<1>3. r \in DoRec /\ r.pc = "none" /\ r.ret = "none"
  BY <1>2, Consts DEF FIdle, DoRec
<1>4. \A p \in FProcs : fp[p] \in {FIdle, r}
  BY <1>2 DEF FilesInit
<1>5. FTypes(file, ofile, iref, fp)
  <2>1. fp \in [FProcs -> DoRec]
    <3>1. fp = [p \in FProcs |-> fp[p]]
      BY DEF FilesInit
    <3> QED BY <1>1, <1>3, <1>4, <3>1
  <2>2. file \in [FileSlots -> FileRec] /\ iref \in [FInos -> Nat]
    BY <1>1 DEF FilesInit
  <2>3. ofile \in [FProcs -> [Fds -> 0 .. NFILE]]
    BY Consts DEF FilesInit
  <2> QED BY <2>1, <2>2, <2>3 DEF FTypes
<1>6. Midway(file, ofile, fp)
  <2>1. \A p \in FProcs : fp[p].pc \in {"user", "none"} /\ fp[p].ret = "none"
    BY <1>1, <1>3, <1>4
  <2>2. \A p \in FProcs : \A i \in Fds : ofile[p][i] = 0
    BY DEF FilesInit
  <2> QED BY <2>1, <2>2 DEF Midway
<1>7. \A f \in FileSlots : file[f].count = 0
  BY <1>1 DEF FilesInit
<1>8. FilesHaveInodes(file)
  BY <1>7 DEF FilesHaveInodes
<1>9. InodesAdd(file, iref)
  <2>1. \A n \in FInos : OpenOn(file, n) = {} /\ iref[n] = 0
    BY <1>7 DEF OpenOn, FilesInit
  <2> QED BY <2>1, FS_EmptySet DEF InodesAdd
<1>10. FilesAdd(file, ofile, fp)
  <2>1. ASSUME NEW f \in FileSlots
        PROVE  Count(HoldsOf(ofile, fp), f) = 0
    <3>1. PICK h : h = HoldsOf(ofile, fp)
      OBVIOUS
    <3>2. ASSUME NEW x \in Places PROVE h[x] # f
      <4>1. PICK p \in FProcs, i \in 0 .. NOFILE : x = <<p, i>>
        BY DEF Places
      <4>2. HoldsOf(ofile, fp)[<<p, i>>] = Hold(ofile, fp, p, i)
        BY HoldAt
      <4>3. Hold(ofile, fp, p, i) = 0
        <5>1. fp[p].pc # "plock" /\ fp[p].ret # "dup"
          BY <1>1, <1>3, <1>4
        <5>2. i = 0 \/ i \in Fds
          BY Consts
        <5> QED BY <5>1, <5>2 DEF Hold, FilesInit
      <4> QED BY <3>1, <4>1, <4>2, <4>3, Consts
    <3>3. Count(h, f) = 0
      BY <3>2, CountIsFinite
    <3> QED BY <3>1, <3>3
  <2> QED BY <1>7, <2>1 DEF FilesAdd
<1> QED BY <1>5, <1>6, <1>8, <1>9, <1>10 DEF FilesInv, Accounts

LEMMA FilesNext_Inv ==
    ASSUME FilesInv, [FilesNext]_fileVars, "dup" \notin Ends
    PROVE  FilesInv'
<1>1. CASE FilesNext
  <2>1. PICK p \in FProcs :
            \/ \E n \in FInos : Open(p, n) \/ PipeCall(p, n)
            \/ \E i \in Fds : Close(p, i)
            \/ \E i, j \in Fds : Dup(p, i, j)
            \/ LastClose(p) \/ TtyDrained(p) \/ Signalled(p)
            \/ \E q \in FProcs : ForkFiles(p, q)
            \/ ExitFiles(p)
    BY <1>1, Zenon DEF FilesNext
  <2>2. CASE \E n \in FInos : Open(p, n) \/ PipeCall(p, n)
    BY <2>2, OpenKeeps, PipeKeeps
  <2>3. CASE \E i \in Fds : Close(p, i)
    BY <2>3, CloseKeeps
  <2>4. CASE \E i, j \in Fds : Dup(p, i, j)
    BY <2>4, DupKeeps
  <2>5. CASE LastClose(p)
    BY <2>5, LastCloseKeeps
  <2>6. CASE TtyDrained(p) \/ Signalled(p)
    BY <2>6, DrainKeeps
  <2>7. CASE \E q \in FProcs : ForkFiles(p, q)
    BY <2>7, ForkKeeps
  <2>8. CASE ExitFiles(p)
    BY <2>8, ExitKeeps
  <2> QED BY <2>1, <2>2, <2>3, <2>4, <2>5, <2>6, <2>7, <2>8
<1>2. CASE UNCHANGED fileVars
  BY <1>2 DEF fileVars, FilesInv
<1> QED BY <1>1, <1>2

LEMMA InvIsEnough ==
    ASSUME FilesInv
    PROVE  FilesCounted
<1>1. \A f \in FileSlots : Count(HoldsOf(ofile, fp), f) = Refs(f)
  <2>1. TAKE f \in FileSlots
  <2>2. \A x \in Places : HoldsOf(ofile, fp)[x] = Held(x[1], x[2])
    BY DEF HoldsOf, Hold, Held
  <2>3. {x \in Places : HoldsOf(ofile, fp)[x] = f} = {x \in Places : Held(x[1], x[2]) = f}
    BY <2>2
  <2> QED BY <2>3 DEF Count, Refs, Places
<1> QED BY <1>1 DEF FilesInv, Accounts, FilesAdd, InodesAdd, FilesCounted

(* If a signal ends only close, f_count is the number of references to a   *)
(* file structure and i_count the number of file structures for an inode,  *)
(* whatever any number of processes open, dup, close, fork and exit, and   *)
(* also when pipe fails half-way (falloc, closef, open1, dup, pipe, exit). *)
THEOREM ReferencesAreCounted == ("dup" \notin Ends) /\ FilesSpec => []FilesCounted
<1>1. ASSUME "dup" \notin Ends
      PROVE  FilesSpec => []FilesCounted
  <2>1. FilesInit => FilesInv
    BY FilesInit_Inv
  <2>2. FilesInv /\ [FilesNext]_fileVars => FilesInv'
    BY <1>1, FilesNext_Inv
  <2>3. FilesInv => FilesCounted
    BY InvIsEnough
  <2> QED BY <2>1, <2>2, <2>3, PTL DEF FilesSpec
<1> QED BY <1>1
=============================================================================
