----------------------------- MODULE RawioProofs -----------------------------
(***************************************************************************)
(* swap and physio share their headers and the page without mixing two     *)
(* transfers and without losing a wakeup, for any number of processes and  *)
(* raw devices, on a disk that may fail.                                    *)
(***************************************************************************)
EXTENDS Rawio, FiniteSetTheorems, TLAPS

SwapHeaders == {"swbuf1", "swbuf2"}
RawProcs == Swappers \cup Raws

Flag == [busy : BOOLEAN, wanted : BOOLEAN, done : BOOLEAN, error : BOOLEAN]
Places == {"user", "swap", "getsw", "io", "getbp", "getpage", "page", "free"}

RawTypeOK ==
    /\ hd \in [Headers -> Flag]
    /\ queued \subseteq Headers
    /\ physbusy \in {0, 1, 3}
    /\ rp \in [RawProcs -> [pc : Places, bp : Headers \cup {"none"},
                            chan : Headers \cup {PHYS, "none"}, left : Int]]

(* Where a process can be, which header it has to do with there, and what  *)
(* it may sleep on.                                                         *)
SwapLocal(r) ==
    /\ r.pc \in {"user", "swap", "getsw", "io"}
    /\ r.pc \in {"getsw", "io"} => r.bp \in SwapHeaders /\ r.chan \in {"none", r.bp}
    /\ r.pc \in {"user", "swap"} => r.chan = "none"

PhysLocal(r) ==
    /\ r.pc \in {"user", "getbp", "getpage", "page", "io", "free"}
    /\ r.pc # "user" => r.bp \in RawDevs
    /\ r.pc \in {"user", "page", "free"} => r.chan = "none"
    /\ r.pc \in {"getbp", "io"} => r.chan \in {"none", r.bp}
    /\ r.pc = "getpage" => r.chan \in {"none", PHYS}

RawLocal == /\ \A p \in Swappers : SwapLocal(rp[p])
            /\ \A p \in Raws : PhysLocal(rp[p])

Uses(r) == r.pc \in {"io", "page", "free"}

(* One process uses a header, and one of physio's the page; a busy header   *)
(* is used by somebody, and one in the queue by somebody who is in his      *)
(* transfer.  physio has its header marked busy only once the transfer has  *)
(* begun, so that the page is what keeps two of them apart before.          *)
OneUser ==
    /\ \A p, q \in RawProcs : Uses(rp[p]) /\ Uses(rp[q]) /\ rp[p].bp = rp[q].bp => p = q
    /\ \A p, q \in Raws : Uses(rp[p]) /\ Uses(rp[q]) => p = q
    /\ physbusy # 0 <=> \E p \in Raws : Uses(rp[p])
    /\ \A h \in Headers : hd[h].busy => \E p \in RawProcs : Uses(rp[p]) /\ rp[p].bp = h
    /\ \A p \in Swappers : rp[p].pc = "io" => hd[rp[p].bp].busy
    /\ \A h \in queued : /\ ~hd[h].done /\ hd[h].busy
                         /\ \E p \in RawProcs : rp[p].pc = "io" /\ rp[p].bp = h

(* Who sleeps will be woken.  A second piece of a physio clears B_WANTED,   *)
(* but the end of its transfer wakes everybody on the header.               *)
WillWake ==
    /\ \A p \in RawProcs : rp[p].pc = "io" /\ rp[p].chan # "none" => rp[p].bp \in queued
    /\ \A p \in RawProcs : rp[p].pc \in {"getsw", "getbp"} /\ rp[p].chan # "none" =>
          hd[rp[p].bp].busy /\ (hd[rp[p].bp].wanted \/ rp[p].bp \in queued)
    /\ \A p \in Raws : rp[p].pc = "getpage" /\ rp[p].chan # "none" => physbusy = 3

RawInv == RawTypeOK /\ RawLocal /\ OneUser /\ WillWake

-----------------------------------------------------------------------------
(* A set of at most one element. *)
LEMMA AtMostOne ==
    ASSUME NEW S, \A x, y \in S : x = y
    PROVE  Cardinality(S) <= 1
<1>1. CASE S = {}
  BY <1>1, FS_EmptySet
<1>2. CASE S # {}
  <2>1. PICK x \in S : TRUE
    BY <1>2
  <2>2. S = {x}
    BY <2>1
  <2> QED BY <2>2, FS_Singleton
<1> QED BY <1>1, <1>2

(* RawInv is what the property promises, and more. *)
LEMMA InvIsEnough ==
    ASSUME RawInv
    PROVE  HeadersShared
<1>0. DOMAIN rp = RawProcs /\ Raws \subseteq RawProcs
  BY DEF RawInv, RawTypeOK, RawProcs
<1> DEFINE using(h) == {p \in DOMAIN rp : rp[p].bp = h /\ rp[p].pc \in {"io", "page", "free"}}
           page == {p \in Raws : rp[p].pc \in {"io", "page", "free"}}
<1>1. \A h \in Headers : Cardinality(using(h)) <= 1
  <2>1. TAKE h \in Headers
  <2>2. \A x, y \in using(h) : x = y
    BY <1>0 DEF RawInv, OneUser, Uses
  <2> HIDE DEF using
  <2> QED BY <2>2, AtMostOne
<1>2. Cardinality(page) <= 1
  <2>1. \A x, y \in page : x = y
    BY DEF RawInv, OneUser, Uses
  <2> HIDE DEF page
  <2> QED BY <2>1, AtMostOne
<1>3. ASSUME NEW p \in RawProcs
      PROVE  /\ (rp[p].chan \in Headers /\ rp[p].pc # "io") => using(rp[p].chan) # {}
             /\ (rp[p].chan \in Headers /\ rp[p].pc = "io") => rp[p].chan \in queued
             /\ rp[p].chan = PHYS => page # {}
  <2>1. SwapLocal(rp[p]) \/ PhysLocal(rp[p])
    BY DEF RawInv, RawLocal, RawProcs
  <2>2. PHYS \notin Headers /\ "none" \notin Headers /\ PHYS # "none" /\ RawDevs \subseteq Headers
        /\ SwapHeaders \subseteq Headers
    BY RawioConstants DEF PHYS, Headers, SwapHeaders
  <2>3. CASE rp[p].chan \in Headers /\ rp[p].pc = "io"
    <3>1. rp[p].chan = rp[p].bp
      BY <2>1, <2>2, <2>3 DEF SwapLocal, PhysLocal
    <3> QED BY <2>2, <2>3, <3>1 DEF RawInv, WillWake
  <2>4. CASE rp[p].chan \in Headers /\ rp[p].pc # "io"
    <3>1. rp[p].chan = rp[p].bp /\ rp[p].pc \in {"getsw", "getbp"}
      BY <2>1, <2>2, <2>4 DEF SwapLocal, PhysLocal
    <3>2. hd[rp[p].chan].busy
      BY <2>2, <2>4, <3>1 DEF RawInv, WillWake
    <3>3. \E q \in RawProcs : Uses(rp[q]) /\ rp[q].bp = rp[p].chan
      BY <2>4, <3>2 DEF RawInv, OneUser
    <3> QED BY <1>0, <2>2, <2>4, <3>3 DEF Uses
  <2>5. CASE rp[p].chan = PHYS
    <3>1. rp[p].pc = "getpage"
      BY <2>1, <2>2, <2>5 DEF SwapLocal, PhysLocal
    <3>2. p \in Raws
      BY <3>1 DEF RawInv, RawLocal, RawProcs, SwapLocal
    <3>3. physbusy = 3
      BY <2>2, <2>5, <3>1, <3>2 DEF RawInv, WillWake
    <3> QED BY <2>2, <2>5, <3>3 DEF RawInv, OneUser, Uses
  <2> QED BY <2>3, <2>4, <2>5
<1> QED BY <1>0, <1>1, <1>2, <1>3 DEF HeadersShared

-----------------------------------------------------------------------------
(* What the steps do to the processes.                                      *)
Rec == [pc : Places, bp : Headers \cup {"none"}, chan : Headers \cup {PHYS, "none"}, left : Int]

(* The names of headers, and the two kinds of processes, are apart.         *)
LEMMA Names ==
    /\ Headers = SwapHeaders \cup RawDevs
    /\ SwapHeaders \cap RawDevs = {}
    /\ "none" \notin Headers /\ PHYS \notin Headers /\ PHYS # "none"
    /\ RawProcs = Swappers \cup Raws /\ Swappers \cap Raws = {}
BY RawioConstants DEF Headers, SwapHeaders, PHYS, RawProcs

LEMMA WokenFacts ==
    ASSUME NEW t \in [RawProcs -> Rec], NEW c
    PROVE  /\ RawWoken(t, c) \in [RawProcs -> Rec]
           /\ \A q \in RawProcs :
                /\ RawWoken(t, c)[q].pc = t[q].pc /\ RawWoken(t, c)[q].bp = t[q].bp
                /\ RawWoken(t, c)[q].chan = IF t[q].chan = c THEN "none" ELSE t[q].chan
<1>1. RawWoken(t, c) = [q \in RawProcs |-> IF t[q].chan = c THEN [t[q] EXCEPT !.chan = "none"] ELSE t[q]]
  BY DEF RawWoken
<1>2. \A q \in RawProcs : [t[q] EXCEPT !.chan = "none"] \in Rec
  BY DEF Rec
<1>3. ASSUME NEW q \in RawProcs
      PROVE  /\ [t[q] EXCEPT !.chan = "none"].pc = t[q].pc
             /\ [t[q] EXCEPT !.chan = "none"].bp = t[q].bp
             /\ [t[q] EXCEPT !.chan = "none"].chan = "none"
  BY DEF Rec
<1> QED BY <1>1, <1>2, <1>3

(* Everybody but p is where it was, asleep or woken.                        *)
Bystander(q) == /\ rp'[q].pc = rp[q].pc /\ rp'[q].bp = rp[q].bp
                /\ rp'[q].chan \in {rp[q].chan, "none"}

LEMMA BystandersLocal ==
    ASSUME RawInv, NEW q \in RawProcs, Bystander(q)
    PROVE  /\ q \in Swappers => SwapLocal(rp'[q])
           /\ q \in Raws => PhysLocal(rp'[q])
           /\ Uses(rp'[q]) <=> Uses(rp[q])
BY DEF RawInv, RawLocal, SwapLocal, PhysLocal, Bystander, Uses

(* A step that leaves the users of headers as they are.                     *)
LEMMA SameUsers ==
    ASSUME RawInv, queued' = queued, physbusy' = physbusy,
           \A q \in RawProcs : Uses(rp'[q]) <=> Uses(rp[q]),
           \A q \in RawProcs : Uses(rp[q]) => rp'[q].pc = rp[q].pc /\ rp'[q].bp = rp[q].bp,
           \A g \in Headers : hd'[g].busy = hd[g].busy /\ hd'[g].done = hd[g].done
    PROVE  OneUser'
<1>0. OneUser /\ RawTypeOK /\ RawLocal
  BY DEF RawInv
<1>1. \A p, q \in RawProcs : Uses(rp'[p]) /\ Uses(rp'[q]) /\ rp'[p].bp = rp'[q].bp => p = q
  BY <1>0 DEF OneUser
<1>2. \A p, q \in Raws : Uses(rp'[p]) /\ Uses(rp'[q]) => p = q
  BY <1>0, Names DEF OneUser
<1>3. physbusy' # 0 <=> \E p \in Raws : Uses(rp'[p])
  BY <1>0, Names DEF OneUser
<1>4. \A h \in Headers : hd'[h].busy => \E p \in RawProcs : Uses(rp'[p]) /\ rp'[p].bp = h
  BY <1>0 DEF OneUser
<1>5. \A p \in Swappers : rp'[p].pc = "io" => hd'[rp'[p].bp].busy
  <2>1. TAKE p \in Swappers
  <2>2. rp'[p].pc = "io" => rp[p].pc = "io" /\ rp'[p].bp = rp[p].bp /\ rp[p].bp \in Headers
    BY <1>0, Names DEF Uses, RawLocal, SwapLocal
  <2> QED BY <1>0, <2>2 DEF OneUser
<1>6. ASSUME NEW h \in queued'
      PROVE  /\ ~hd'[h].done /\ hd'[h].busy
             /\ \E p \in RawProcs : rp'[p].pc = "io" /\ rp'[p].bp = h
  <2>1. h \in queued /\ h \in Headers
    BY <1>0 DEF RawTypeOK
  <2>2. PICK p \in RawProcs : rp[p].pc = "io" /\ rp[p].bp = h
    BY <1>0, <2>1 DEF OneUser
  <2>3. rp'[p].pc = "io" /\ rp'[p].bp = h
    BY <2>2 DEF Uses
  <2> QED BY <1>0, <2>1, <2>3 DEF OneUser
<1> QED BY <1>1, <1>2, <1>3, <1>4, <1>5, <1>6 DEF OneUser

(* RawInv', given what a step does, part by part.                           *)
LEMMA Mapswap_Step ==
    ASSUME RawInv, NEW p \in Swappers, Mapswap(p)
    PROVE  RawInv'
<1>0. /\ RawTypeOK /\ RawLocal /\ OneUser /\ WillWake
      /\ rp \in [RawProcs -> Rec] /\ p \in RawProcs
  BY Names DEF RawInv, RawTypeOK, Rec
<1>1. PICK n \in 1 .. MaxPieces : rp' = [rp EXCEPT ![p].pc = "swap", ![p].left = n]
  BY DEF Mapswap
<1>2. UNCHANGED <<hd, queued, physbusy>> /\ rp[p].pc = "user" /\ rp[p].chan = "none"
  BY DEF Mapswap, Runs
<1>3. rp'[p].pc = "swap" /\ rp'[p].chan = "none" /\ rp'[p].bp = rp[p].bp
      /\ rp' \in [RawProcs -> Rec] /\ \A q \in RawProcs : q # p => rp'[q] = rp[q]
  <2>1. n \in Int
    BY RawioConstants
  <2>2. [rp[p] EXCEPT !.pc = "swap", !.left = n] \in Rec
    BY <1>0, <2>1, Names, ZenonT(60) DEF Rec, Places
  <2>3. rp' = [rp EXCEPT ![p] = [rp[p] EXCEPT !.pc = "swap", !.left = n]]
    BY <1>0, <1>1
  <2>4. rp'[p] = [rp[p] EXCEPT !.pc = "swap", !.left = n]
    BY <1>0, <2>3
  <2>5. rp' \in [RawProcs -> Rec] /\ \A q \in RawProcs : q # p => rp'[q] = rp[q]
    BY <1>0, <2>2, <2>3
  <2>6. rp[p] \in Rec
    BY <1>0
  <2> QED BY <1>2, <2>4, <2>5, <2>6 DEF Rec
<1>4. RawTypeOK'
  BY <1>0, <1>2, <1>3 DEF RawTypeOK, Rec
<1>5. \A q \in RawProcs : Uses(rp'[q]) <=> Uses(rp[q])
  BY <1>2, <1>3 DEF Uses
<1>6. RawLocal'
  BY <1>0, <1>2, <1>3, Names DEF RawLocal, SwapLocal
<1>7. OneUser'
  <2>1. \A q \in RawProcs : Uses(rp[q]) => rp'[q].pc = rp[q].pc /\ rp'[q].bp = rp[q].bp
    BY <1>2, <1>3 DEF Uses
  <2> QED BY <1>2, <1>5, <2>1, SameUsers
<1>8. WillWake'
  BY <1>0, <1>2, <1>3, Names DEF WillWake
<1> QED BY <1>4, <1>6, <1>7, <1>8 DEF RawInv

LEMMA Physio_Step ==
    ASSUME RawInv, NEW p \in Raws, Physio(p)
    PROVE  RawInv'
<1>0. /\ RawTypeOK /\ RawLocal /\ OneUser /\ WillWake
      /\ rp \in [RawProcs -> Rec] /\ p \in RawProcs
  BY Names DEF RawInv, RawTypeOK, Rec
<1>1. PICK d \in RawDevs, n \in 1 .. MaxPieces :
         rp' = [rp EXCEPT ![p].pc = "getbp", ![p].bp = d, ![p].left = n]
  BY DEF Physio
<1>2. UNCHANGED <<hd, queued, physbusy>> /\ rp[p].pc = "user" /\ rp[p].chan = "none"
  BY DEF Physio, Runs
<1>3. rp'[p].pc = "getbp" /\ rp'[p].chan = "none" /\ rp'[p].bp = d
      /\ rp' \in [RawProcs -> Rec] /\ \A q \in RawProcs : q # p => rp'[q] = rp[q]
  <2>1. n \in Int
    BY RawioConstants
  <2>2. [rp[p] EXCEPT !.pc = "getbp", !.bp = d, !.left = n] \in Rec
    BY <1>0, <2>1, Names DEF Rec, Places
  <2>3. rp' = [rp EXCEPT ![p] = [rp[p] EXCEPT !.pc = "getbp", !.bp = d, !.left = n]]
    BY <1>0, <1>1
  <2>4. rp'[p] = [rp[p] EXCEPT !.pc = "getbp", !.bp = d, !.left = n]
    BY <1>0, <2>3
  <2>5. rp' \in [RawProcs -> Rec] /\ \A q \in RawProcs : q # p => rp'[q] = rp[q]
    BY <1>0, <2>2, <2>3
  <2>6. rp[p] \in Rec
    BY <1>0
  <2> QED BY <1>2, <2>4, <2>5, <2>6 DEF Rec
<1>4. RawTypeOK'
  BY <1>0, <1>2, <1>3 DEF RawTypeOK, Rec
<1>5. \A q \in RawProcs : Uses(rp'[q]) <=> Uses(rp[q])
  BY <1>2, <1>3 DEF Uses
<1>6. RawLocal'
  BY <1>0, <1>2, <1>3, Names DEF RawLocal, PhysLocal
<1>7. OneUser'
  <2>1. \A q \in RawProcs : Uses(rp[q]) => rp'[q].pc = rp[q].pc /\ rp'[q].bp = rp[q].bp
    BY <1>2, <1>3 DEF Uses
  <2> QED BY <1>2, <1>5, <2>1, SameUsers
<1>8. WillWake'
  BY <1>0, <1>2, <1>3, Names DEF WillWake
<1> QED BY <1>4, <1>6, <1>7, <1>8 DEF RawInv

(* p goes to sleep for a busy header, having marked it wanted.              *)
LEMMA Awaits_Step ==
    ASSUME RawInv, NEW p \in RawProcs, NEW h \in Headers, NEW l \in {"getsw", "getbp"},
           ~Uses(rp[p]), AwaitsHeader(p, h, l),
           p \in Swappers => l = "getsw" /\ h \in SwapHeaders,
           p \in Raws => l = "getbp" /\ h \in RawDevs
    PROVE  RawInv'
<1>0. /\ RawTypeOK /\ RawLocal /\ OneUser /\ WillWake
      /\ rp \in [RawProcs -> Rec] /\ hd \in [Headers -> Flag]
  BY Names DEF RawInv, RawTypeOK, Rec
<1>1. /\ hd[h].busy /\ UNCHANGED <<queued, physbusy>>
      /\ hd' = [hd EXCEPT ![h].wanted = TRUE]
      /\ rp' = [rp EXCEPT ![p].pc = l, ![p].bp = h, ![p].chan = h]
  BY DEF AwaitsHeader
<1>2. /\ rp'[p].pc = l /\ rp'[p].chan = h /\ rp'[p].bp = h
      /\ rp' \in [RawProcs -> Rec] /\ \A q \in RawProcs : q # p => rp'[q] = rp[q]
  BY <1>0, <1>1, ZenonT(60) DEF Rec, Places
<1>3. /\ hd' \in [Headers -> Flag] /\ hd'[h].wanted
      /\ \A g \in Headers : /\ hd'[g].busy = hd[g].busy /\ hd'[g].done = hd[g].done
                            /\ hd[g].wanted => hd'[g].wanted
  BY <1>0, <1>1 DEF Flag
<1>4. RawTypeOK'
  BY <1>0, <1>1, <1>2, <1>3 DEF RawTypeOK, Rec
<1>5. \A q \in RawProcs : Uses(rp'[q]) <=> Uses(rp[q])
  BY <1>2 DEF Uses
<1>6. RawLocal'
  BY <1>0, <1>2, Names DEF RawLocal, SwapLocal, PhysLocal
<1>7. OneUser'
  <2>1. \A q \in RawProcs : Uses(rp[q]) => rp'[q].pc = rp[q].pc /\ rp'[q].bp = rp[q].bp
    BY <1>2
  <2> QED BY <1>1, <1>3, <1>5, <2>1, SameUsers
<1>8. WillWake'
  <2>1. \A q \in RawProcs : rp[q].pc \in {"getsw", "getbp"} => rp[q].bp \in Headers
    BY <1>0, Names DEF RawLocal, SwapLocal, PhysLocal
  <2>2. \A q \in RawProcs : rp'[q].pc = "io" /\ rp'[q].chan # "none" => rp'[q].bp \in queued'
    BY <1>0, <1>1, <1>2 DEF WillWake
  <2>3. ASSUME NEW q \in RawProcs, rp'[q].pc \in {"getsw", "getbp"}, rp'[q].chan # "none"
        PROVE  hd'[rp'[q].bp].busy /\ (hd'[rp'[q].bp].wanted \/ rp'[q].bp \in queued')
    <3>1. CASE q = p
      BY <1>1, <1>2, <1>3, <3>1
    <3>2. CASE q # p
      <4>1. rp'[q] = rp[q] /\ rp[q].bp \in Headers
        BY <1>2, <2>1, <2>3, <3>2
      <4>2. hd[rp[q].bp].busy /\ (hd[rp[q].bp].wanted \/ rp[q].bp \in queued)
        BY <1>0, <2>3, <4>1 DEF WillWake
      <4> QED BY <1>1, <1>3, <4>1, <4>2
    <3> QED BY <3>1, <3>2
  <2>4. \A q \in Raws : rp'[q].pc = "getpage" /\ rp'[q].chan # "none" => physbusy' = 3
    BY <1>0, <1>1, <1>2, Names DEF WillWake
  <2> QED BY <2>2, <2>3, <2>4 DEF WillWake
<1> QED BY <1>4, <1>6, <1>7, <1>8 DEF RawInv

LEMMA Parts ==
    ASSUME RawInv
    PROVE  /\ RawTypeOK /\ RawLocal /\ OneUser /\ WillWake
           /\ rp \in [RawProcs -> Rec] /\ hd \in [Headers -> Flag] /\ queued \subseteq Headers
           /\ \A q \in RawProcs : Uses(rp[q]) => rp[q].bp \in Headers
           /\ \A q \in Swappers : Uses(rp[q]) <=> rp[q].pc = "io"
           /\ \A q \in RawProcs : rp[q].pc = "io" => Uses(rp[q])
           /\ \A q \in RawProcs : rp[q].pc \in {"getsw", "getbp"} => rp[q].bp \in Headers
BY Names DEF RawInv, RawTypeOK, Rec, RawLocal, SwapLocal, PhysLocal, Uses

(* The transfer of a header begins: of one that nobody uses, or of p's own. *)
LEMMA Transfer_Step ==
    ASSUME RawInv, NEW p \in RawProcs, NEW h \in Headers, Transfer(p, h), physbusy' = physbusy,
           p \in Swappers => h \in SwapHeaders /\ ~hd[h].busy /\ ~Uses(rp[p]),
           p \in Raws => h \in RawDevs /\ rp[p].bp = h /\ rp[p].pc = "page"
    PROVE  RawInv'
<1>0. /\ RawTypeOK /\ RawLocal /\ OneUser /\ WillWake
      /\ rp \in [RawProcs -> Rec] /\ hd \in [Headers -> Flag] /\ queued \subseteq Headers
      /\ \A q \in RawProcs : Uses(rp[q]) => rp[q].bp \in Headers
      /\ \A q \in Swappers : Uses(rp[q]) <=> rp[q].pc = "io"
      /\ \A q \in RawProcs : rp[q].pc = "io" => Uses(rp[q])
      /\ \A q \in RawProcs : rp[q].pc \in {"getsw", "getbp"} => rp[q].bp \in Headers
  BY Parts
<1>1. /\ hd' = [hd EXCEPT ![h] = [Flags0 EXCEPT !.busy = TRUE]]
      /\ queued' = queued \cup {h}
      /\ rp' = [rp EXCEPT ![p].pc = "io", ![p].bp = h, ![p].chan = h]
  BY DEF Transfer
<1>2. /\ rp'[p].pc = "io" /\ rp'[p].chan = h /\ rp'[p].bp = h
      /\ rp' \in [RawProcs -> Rec] /\ \A q \in RawProcs : q # p => rp'[q] = rp[q]
  <2>1. [rp[p] EXCEPT !.pc = "io", !.bp = h, !.chan = h] \in Rec
    BY <1>0 DEF Rec, Places
  <2>2. rp' = [rp EXCEPT ![p] = [rp[p] EXCEPT !.pc = "io", !.bp = h, !.chan = h]]
    BY <1>0, <1>1
  <2>3. rp'[p] = [rp[p] EXCEPT !.pc = "io", !.bp = h, !.chan = h]
    BY <1>0, <2>2
  <2>4. rp' \in [RawProcs -> Rec] /\ \A q \in RawProcs : q # p => rp'[q] = rp[q]
    BY <1>0, <2>1, <2>2
  <2> QED BY <1>0, <2>3, <2>4 DEF Rec
<1>3. /\ hd' \in [Headers -> Flag] /\ hd'[h].busy /\ ~hd'[h].done
      /\ \A g \in Headers : g # h => hd'[g] = hd[g]
  BY <1>0, <1>1 DEF Flag, Flags0
<1>4. RawTypeOK'
  BY <1>0, <1>1, <1>2, <1>3 DEF RawTypeOK, Rec
<1>5. RawLocal'
  BY <1>0, <1>2, Names DEF RawLocal, SwapLocal, PhysLocal
<1>6. Uses(rp'[p]) /\ \A q \in RawProcs : q # p => (Uses(rp'[q]) <=> Uses(rp[q]))
  BY <1>2 DEF Uses
<1>7. \A q \in RawProcs : q # p /\ Uses(rp[q]) => rp[q].bp # h
  <2>1. CASE p \in Swappers
    <3>1. TAKE q \in RawProcs
    <3>2. CASE q \in Swappers
      BY <1>0, <2>1, <3>2 DEF OneUser
    <3>3. CASE q \in Raws
      BY <1>0, <2>1, <3>3, Names DEF RawLocal, PhysLocal, Uses
    <3> QED BY <3>2, <3>3, Names
  <2>2. CASE p \in Raws
    BY <1>0, <2>2 DEF OneUser, Uses
  <2> QED BY <2>1, <2>2, Names
<1>8. h \notin queued
  <2>1. CASE p \in Swappers
    BY <1>0, <2>1 DEF OneUser
  <2>2. CASE p \in Raws
    BY <1>0, <1>7, <2>2 DEF OneUser
  <2> QED BY <2>1, <2>2, Names
<1>9. OneUser'
  <2>1. \A x, y \in RawProcs : Uses(rp'[x]) /\ Uses(rp'[y]) /\ rp'[x].bp = rp'[y].bp => x = y
    BY <1>0, <1>2, <1>6, <1>7 DEF OneUser
  <2>2. \A x \in Raws : Uses(rp'[x]) <=> Uses(rp[x])
    BY <1>2, <1>6, Names DEF Uses
  <2>3. \A x, y \in Raws : Uses(rp'[x]) /\ Uses(rp'[y]) => x = y
    BY <1>0, <2>2 DEF OneUser
  <2>4. physbusy' # 0 <=> \E x \in Raws : Uses(rp'[x])
    BY <1>0, <2>2 DEF OneUser
  <2>5. ASSUME NEW g \in Headers, hd'[g].busy
        PROVE  \E x \in RawProcs : Uses(rp'[x]) /\ rp'[x].bp = g
    <3>1. CASE g = h
      BY <1>2, <1>6, <3>1
    <3>2. CASE g # h
      <4>1. PICK x \in RawProcs : Uses(rp[x]) /\ rp[x].bp = g
        BY <1>0, <1>3, <2>5, <3>2 DEF OneUser
      <4>2. x # p
        BY <3>2, <4>1, Names
      <4> QED BY <1>2, <1>6, <4>1, <4>2
    <3> QED BY <3>1, <3>2
  <2>6. \A x \in Swappers : rp'[x].pc = "io" => hd'[rp'[x].bp].busy
    BY <1>0, <1>2, <1>3, <1>7, Names DEF OneUser
  <2>7. ASSUME NEW g \in queued'
        PROVE  ~hd'[g].done /\ hd'[g].busy /\ \E x \in RawProcs : rp'[x].pc = "io" /\ rp'[x].bp = g
    <3>1. CASE g = h
      BY <1>2, <1>3, <3>1
    <3>2. CASE g # h
      <4>1. g \in queued /\ g \in Headers
        BY <1>0, <1>1, <3>2
      <4>2. PICK x \in RawProcs : rp[x].pc = "io" /\ rp[x].bp = g
        BY <1>0, <4>1 DEF OneUser
      <4>3. x # p
        BY <1>0, <3>2, <4>2, Names
      <4>4. rp'[x].pc = "io" /\ rp'[x].bp = g
        BY <1>2, <4>2, <4>3
      <4> QED BY <1>0, <1>3, <3>2, <4>1, <4>4 DEF OneUser
    <3> QED BY <3>1, <3>2
  <2> QED BY <2>1, <2>3, <2>4, <2>5, <2>6, <2>7 DEF OneUser
<1>10. WillWake'
  <2>1. \A q \in RawProcs : rp'[q].pc = "io" /\ rp'[q].chan # "none" => rp'[q].bp \in queued'
    BY <1>0, <1>1, <1>2 DEF WillWake
  <2>2. ASSUME NEW q \in RawProcs, rp'[q].pc \in {"getsw", "getbp"}, rp'[q].chan # "none"
        PROVE  hd'[rp'[q].bp].busy /\ (hd'[rp'[q].bp].wanted \/ rp'[q].bp \in queued')
    <3>1. q # p /\ rp'[q] = rp[q]
      BY <1>2, <2>2
    <3>2. hd[rp[q].bp].busy /\ (hd[rp[q].bp].wanted \/ rp[q].bp \in queued) /\ rp[q].bp \in Headers
      BY <1>0, <2>2, <3>1 DEF WillWake
    <3> QED BY <1>1, <1>3, <3>1, <3>2
  <2>3. \A q \in Raws : rp'[q].pc = "getpage" /\ rp'[q].chan # "none" => physbusy' = 3
    BY <1>0, <1>2, Names DEF WillWake
  <2> QED BY <2>1, <2>2, <2>3 DEF WillWake
<1> QED BY <1>4, <1>5, <1>9, <1>10 DEF RawInv

LEMMA SwapCall_Step ==
    ASSUME RawInv, NEW p \in Swappers, SwapCall(p)
    PROVE  RawInv'
<1>1. PICK h : /\ h = IF rp[p].pc = "swap" THEN Chosen ELSE rp[p].bp
               /\ \/ AwaitsHeader(p, h, "getsw")
                  \/ ~hd[h].busy /\ Transfer(p, h) /\ UNCHANGED physbusy
  BY DEF SwapCall
<1>2. rp[p].pc \in {"swap", "getsw"}
  BY DEF SwapCall, Runs
<1>3. h \in SwapHeaders /\ h \in Headers /\ ~Uses(rp[p]) /\ p \in RawProcs /\ p \notin Raws
  BY <1>1, <1>2, Names DEF Chosen, SwapHeaders, RawInv, RawLocal, SwapLocal, Uses
<1> QED BY <1>1, <1>3, Awaits_Step, Transfer_Step

LEMMA PhysPage_Step ==
    ASSUME RawInv, NEW p \in Raws, PhysPage(p)
    PROVE  RawInv'
<1>0. /\ RawTypeOK /\ RawLocal /\ OneUser /\ WillWake
      /\ rp \in [RawProcs -> Rec] /\ hd \in [Headers -> Flag]
  BY Parts
<1>1. rp[p].pc = "page" /\ rp[p].bp \in RawDevs /\ rp[p].bp \in Headers /\ p \in RawProcs
      /\ p \notin Swappers /\ rp[p].chan = "none" /\ physbusy' = physbusy
  BY <1>0, Names DEF PhysPage, Runs, RawLocal, PhysLocal
<1>2. CASE Transfer(p, rp[p].bp)
  BY <1>1, <1>2, Transfer_Step
<1>3. CASE rp' = [rp EXCEPT ![p].pc = "free"] /\ UNCHANGED <<hd, queued>>
  <2>1. /\ rp'[p].pc = "free" /\ rp'[p].chan = "none" /\ rp'[p].bp = rp[p].bp
        /\ rp' \in [RawProcs -> Rec] /\ \A q \in RawProcs : q # p => rp'[q] = rp[q]
    BY <1>0, <1>1, <1>3 DEF Rec, Places
  <2>2. RawTypeOK'
    BY <1>0, <1>1, <1>3, <2>1 DEF RawTypeOK, Rec
  <2>3. RawLocal'
    BY <1>0, <1>1, <2>1, Names DEF RawLocal, PhysLocal
  <2>4. OneUser'
    <3>1. \A q \in RawProcs : (Uses(rp'[q]) <=> Uses(rp[q])) /\ rp'[q].bp = rp[q].bp
          /\ (rp'[q].pc = "io" <=> rp[q].pc = "io")
      BY <1>1, <2>1 DEF Uses
    <3> QED BY <1>0, <1>1, <1>3, <3>1, Names DEF OneUser
  <2>5. WillWake'
    BY <1>0, <1>1, <1>3, <2>1, Names DEF WillWake
  <2> QED BY <2>2, <2>3, <2>4, <2>5 DEF RawInv
<1> QED BY <1>2, <1>3 DEF PhysPage

LEMMA PhysPageDone_Step ==
    ASSUME RawInv, NEW p \in Raws, PhysPageDone(p)
    PROVE  RawInv'
<1>0. /\ RawTypeOK /\ RawLocal /\ OneUser /\ WillWake
      /\ rp \in [RawProcs -> Rec] /\ hd \in [Headers -> Flag] /\ queued \subseteq Headers
  BY Parts
<1>1. /\ rp[p].pc = "io" /\ rp[p].bp \in RawDevs /\ p \in RawProcs /\ rp[p].chan = "none"
      /\ hd[rp[p].bp].done /\ UNCHANGED <<hd, queued, physbusy>>
  BY <1>0, Names DEF PhysPageDone, Runs, RawLocal, PhysLocal
<1>2. PICK l \in {"free", "page"} : rp' = [rp EXCEPT ![p].left = @ - 1, ![p].pc = l]
  BY DEF PhysPageDone
<1>3. /\ rp'[p].pc = l /\ rp'[p].chan = "none" /\ rp'[p].bp = rp[p].bp
      /\ rp' \in [RawProcs -> Rec] /\ \A q \in RawProcs : q # p => rp'[q] = rp[q]
  <2>1. rp[p] \in Rec /\ rp[p].left - 1 \in Int
    BY <1>0, <1>1 DEF Rec
  <2>2. [rp[p] EXCEPT !.left = rp[p].left - 1, !.pc = l] \in Rec
    BY <2>1 DEF Rec, Places
  <2>3. rp' = [rp EXCEPT ![p] = [rp[p] EXCEPT !.left = rp[p].left - 1, !.pc = l]]
    BY <1>0, <1>1, <1>2
  <2>4. rp'[p] = [rp[p] EXCEPT !.left = rp[p].left - 1, !.pc = l]
    BY <1>0, <1>1, <2>3
  <2>5. rp' \in [RawProcs -> Rec] /\ \A q \in RawProcs : q # p => rp'[q] = rp[q]
    BY <1>0, <2>2, <2>3
  <2> QED BY <1>1, <2>1, <2>4, <2>5 DEF Rec
<1>4. RawTypeOK'
  BY <1>0, <1>1, <1>3 DEF RawTypeOK, Rec
<1>5. RawLocal'
  BY <1>0, <1>1, <1>3, Names DEF RawLocal, PhysLocal
<1>6. OneUser'
  <2>1. \A q \in RawProcs : (Uses(rp'[q]) <=> Uses(rp[q])) /\ rp'[q].bp = rp[q].bp
        /\ (q # p => (rp'[q].pc = "io" <=> rp[q].pc = "io"))
    BY <1>1, <1>3 DEF Uses
  <2>2. rp[p].bp \notin queued
    BY <1>0, <1>1 DEF OneUser
  <2> QED BY <1>0, <1>1, <2>1, <2>2, Names DEF OneUser
<1>7. WillWake'
  BY <1>0, <1>1, <1>3, Names DEF WillWake
<1> QED BY <1>4, <1>5, <1>6, <1>7 DEF RawInv

(* The end of a transfer wakes everybody on the header.                     *)
LEMMA RawIodone_Step ==
    ASSUME RawInv, NEW h \in Headers, RawIodone(h)
    PROVE  RawInv'
<1>0. /\ RawTypeOK /\ RawLocal /\ OneUser /\ WillWake
      /\ rp \in [RawProcs -> Rec] /\ hd \in [Headers -> Flag] /\ queued \subseteq Headers
      /\ \A q \in RawProcs : rp[q].pc = "io" => Uses(rp[q])
      /\ \A q \in RawProcs : rp[q].pc \in {"getsw", "getbp"} => rp[q].bp \in Headers
  BY Parts
<1>1. PICK e \in BOOLEAN : hd' = [hd EXCEPT ![h].done = TRUE, ![h].wanted = FALSE, ![h].error = e]
  BY DEF RawIodone
<1>2. h \in queued /\ queued' = queued \ {h} /\ rp' = RawWoken(rp, h) /\ physbusy' = physbusy
  BY DEF RawIodone
<1>3. /\ hd' \in [Headers -> Flag]
      /\ \A g \in Headers : hd'[g].busy = hd[g].busy /\ (g # h => hd'[g] = hd[g])
  BY <1>0, <1>1, ZenonT(60) DEF Flag
<1>4. /\ rp' \in [RawProcs -> Rec]
      /\ \A q \in RawProcs : /\ rp'[q].pc = rp[q].pc /\ rp'[q].bp = rp[q].bp
                             /\ rp'[q].chan = IF rp[q].chan = h THEN "none" ELSE rp[q].chan
  BY <1>0, <1>2, WokenFacts
<1>5. RawTypeOK'
  BY <1>0, <1>2, <1>3, <1>4 DEF RawTypeOK, Rec
<1>6. \A q \in RawProcs : Bystander(q)
  BY <1>4 DEF Bystander
<1>7. RawLocal'
  BY <1>6, BystandersLocal, Names DEF RawLocal
<1>8. \A q \in RawProcs : Uses(rp'[q]) <=> Uses(rp[q])
  BY <1>6, BystandersLocal
<1>9. OneUser'
  <2>1. \A x, y \in RawProcs : Uses(rp'[x]) /\ Uses(rp'[y]) /\ rp'[x].bp = rp'[y].bp => x = y
    BY <1>0, <1>4, <1>8 DEF OneUser
  <2>2. \A x, y \in Raws : Uses(rp'[x]) /\ Uses(rp'[y]) => x = y
    BY <1>0, <1>8, Names DEF OneUser
  <2>3. physbusy' # 0 <=> \E x \in Raws : Uses(rp'[x])
    BY <1>0, <1>2, <1>8, Names DEF OneUser
  <2>4. \A g \in Headers : hd'[g].busy => \E x \in RawProcs : Uses(rp'[x]) /\ rp'[x].bp = g
    BY <1>0, <1>3, <1>4, <1>8 DEF OneUser
  <2>5. \A x \in Swappers : rp'[x].pc = "io" => hd'[rp'[x].bp].busy
    <3>1. \A x \in Swappers : rp[x].pc = "io" => rp[x].bp \in Headers
      BY <1>0, Names DEF RawLocal, SwapLocal
    <3> QED BY <1>0, <1>3, <1>4, <3>1, Names DEF OneUser
  <2>6. \A g \in queued' : /\ ~hd'[g].done /\ hd'[g].busy
                           /\ \E x \in RawProcs : rp'[x].pc = "io" /\ rp'[x].bp = g
    BY <1>0, <1>2, <1>3, <1>4 DEF OneUser
  <2> QED BY <2>1, <2>2, <2>3, <2>4, <2>5, <2>6 DEF OneUser
<1>10. WillWake'
  <2>1. \A q \in RawProcs : rp'[q].pc \in {"io", "getsw", "getbp"} /\ rp'[q].chan # "none"
            => rp[q].chan # "none" /\ rp[q].bp # h
    <3>1. TAKE q \in RawProcs
    <3>2. rp[q].pc \in {"io", "getsw", "getbp"} => rp[q].chan \in {"none", rp[q].bp}
      BY <1>0, Names DEF RawLocal, SwapLocal, PhysLocal
    <3> QED BY <1>4, <3>2
  <2>2. \A q \in RawProcs : rp'[q].pc = "io" /\ rp'[q].chan # "none" => rp'[q].bp \in queued'
    BY <1>0, <1>2, <1>4, <2>1 DEF WillWake
  <2>3. \A q \in RawProcs : rp'[q].pc \in {"getsw", "getbp"} /\ rp'[q].chan # "none" =>
           hd'[rp'[q].bp].busy /\ (hd'[rp'[q].bp].wanted \/ rp'[q].bp \in queued')
    BY <1>0, <1>2, <1>3, <1>4, <2>1 DEF WillWake
  <2>4. \A q \in Raws : rp'[q].pc = "getpage" /\ rp'[q].chan # "none" => physbusy' = 3
    BY <1>0, <1>2, <1>4, Names DEF WillWake
  <2> QED BY <2>2, <2>3, <2>4 DEF WillWake
<1> QED BY <1>5, <1>7, <1>9, <1>10 DEF RawInv

(* A user p of header h is through with it: the header is free, everybody   *)
(* who slept for it has been woken.                                         *)
LEMMA GivenBack ==
    ASSUME RawInv, NEW p \in RawProcs, NEW h \in Headers, Uses(rp[p]), rp[p].bp = h,
           h \notin queued, queued' = queued,
           rp' \in [RawProcs -> Rec], hd' = [hd EXCEPT ![h].busy = FALSE, ![h].wanted = FALSE],
           ~Uses(rp'[p]), rp'[p].chan = "none",
           p \in Swappers => SwapLocal(rp'[p]) /\ physbusy' = physbusy,
           p \in Raws => PhysLocal(rp'[p]) /\ physbusy' = 0
                         /\ \A q \in Raws : rp'[q].pc = "getpage" => rp'[q].chan = "none",
           \A q \in RawProcs : q # p => Bystander(q)
                                        /\ (rp[q].chan = h /\ hd[h].wanted => rp'[q].chan = "none")
    PROVE  RawInv'
<1>0. /\ RawTypeOK /\ RawLocal /\ OneUser /\ WillWake
      /\ rp \in [RawProcs -> Rec] /\ hd \in [Headers -> Flag] /\ queued \subseteq Headers
      /\ \A q \in RawProcs : Uses(rp[q]) => rp[q].bp \in Headers
      /\ \A q \in RawProcs : rp[q].pc = "io" => Uses(rp[q])
      /\ \A q \in RawProcs : rp[q].pc \in {"getsw", "getbp"} => rp[q].bp \in Headers
  BY Parts
<1>1. /\ hd' \in [Headers -> Flag] /\ ~hd'[h].busy
      /\ \A g \in Headers : g # h => hd'[g] = hd[g]
  BY <1>0, ZenonT(60) DEF Flag
<1>2. RawTypeOK'
  <2>1. physbusy' \in {0, 1, 3}
    BY <1>0, Names DEF RawTypeOK
  <2> QED BY <1>0, <1>1, <2>1 DEF RawTypeOK, Rec
<1>3. \A q \in RawProcs : q # p => /\ rp'[q].pc = rp[q].pc /\ rp'[q].bp = rp[q].bp
                                   /\ rp'[q].chan \in {rp[q].chan, "none"}
  BY DEF Bystander
<1>4. \A q \in RawProcs : q # p => (Uses(rp'[q]) <=> Uses(rp[q]))
  BY BystandersLocal
<1>5. RawLocal'
  BY BystandersLocal, Names DEF RawLocal
<1>6. \A q \in RawProcs : q # p /\ Uses(rp[q]) => rp[q].bp # h
  BY <1>0 DEF OneUser
<1>7. OneUser'
  <2>1. \A x, y \in RawProcs : Uses(rp'[x]) /\ Uses(rp'[y]) /\ rp'[x].bp = rp'[y].bp => x = y
    BY <1>0, <1>3, <1>4 DEF OneUser
  <2>2. \A x, y \in Raws : Uses(rp'[x]) /\ Uses(rp'[y]) => x = y
    BY <1>0, <1>4, Names DEF OneUser
  <2>3. physbusy' # 0 <=> \E x \in Raws : Uses(rp'[x])
    <3>1. CASE p \in Swappers
      BY <1>0, <1>4, <3>1, Names DEF OneUser
    <3>2. CASE p \in Raws
      BY <1>0, <1>4, <3>2, Names DEF OneUser
    <3> QED BY <3>1, <3>2, Names
  <2>4. ASSUME NEW g \in Headers, hd'[g].busy
        PROVE  \E x \in RawProcs : Uses(rp'[x]) /\ rp'[x].bp = g
    <3>1. g # h /\ hd[g].busy
      BY <1>1, <2>4
    <3>2. PICK x \in RawProcs : Uses(rp[x]) /\ rp[x].bp = g
      BY <1>0, <3>1 DEF OneUser
    <3>3. x # p
      BY <3>1, <3>2
    <3> QED BY <1>3, <1>4, <3>2, <3>3
  <2>5. ASSUME NEW x \in Swappers, rp'[x].pc = "io"
        PROVE  hd'[rp'[x].bp].busy
    <3>1. x # p /\ x \in RawProcs
      BY <2>5, Names DEF Uses
    <3>2. rp[x].pc = "io" /\ Uses(rp[x]) /\ rp'[x].bp = rp[x].bp
      BY <1>0, <1>3, <2>5, <3>1
    <3> QED BY <1>0, <1>1, <1>6, <3>1, <3>2 DEF OneUser
  <2>6. ASSUME NEW g \in queued'
        PROVE  ~hd'[g].done /\ hd'[g].busy /\ \E x \in RawProcs : rp'[x].pc = "io" /\ rp'[x].bp = g
    <3>1. g \in queued /\ g \in Headers /\ g # h
      BY <1>0
    <3>2. PICK x \in RawProcs : rp[x].pc = "io" /\ rp[x].bp = g
      BY <1>0, <3>1 DEF OneUser
    <3>3. rp'[x].pc = "io" /\ rp'[x].bp = g
      BY <1>3, <3>1, <3>2
    <3> QED BY <1>0, <1>1, <3>1, <3>3 DEF OneUser
  <2> QED BY <2>1, <2>2, <2>3, <2>4, <2>5, <2>6 DEF OneUser
<1>8. WillWake'
  <2>1. ASSUME NEW q \in RawProcs, rp'[q].pc = "io", rp'[q].chan # "none"
        PROVE  rp'[q].bp \in queued'
    <3>1. q # p
      BY <2>1
    <3> QED BY <1>0, <1>3, <2>1, <3>1 DEF WillWake
  <2>2. ASSUME NEW q \in RawProcs, rp'[q].pc \in {"getsw", "getbp"}, rp'[q].chan # "none"
        PROVE  hd'[rp'[q].bp].busy /\ (hd'[rp'[q].bp].wanted \/ rp'[q].bp \in queued')
    <3>1. /\ q # p /\ rp[q].pc \in {"getsw", "getbp"} /\ rp[q].chan # "none"
          /\ rp'[q].bp = rp[q].bp /\ rp'[q].chan = rp[q].chan
      BY <1>3, <2>2
    <3>2. hd[rp[q].bp].busy /\ (hd[rp[q].bp].wanted \/ rp[q].bp \in queued) /\ rp[q].bp \in Headers
      BY <1>0, <3>1 DEF WillWake
    <3>3. rp[q].chan = rp[q].bp
      BY <1>0, <3>1, Names DEF RawLocal, SwapLocal, PhysLocal
    <3>4. rp[q].bp # h
      BY <2>2, <3>1, <3>2, <3>3
    <3> QED BY <1>1, <3>1, <3>2, <3>4
  <2>3. ASSUME NEW q \in Raws, rp'[q].pc = "getpage", rp'[q].chan # "none"
        PROVE  physbusy' = 3
    <3>1. p \notin Raws /\ p \in Swappers /\ q \in RawProcs /\ q # p
      BY <2>3, Names
    <3> QED BY <1>0, <1>3, <2>3, <3>1 DEF WillWake
  <2> QED BY <2>1, <2>2, <2>3 DEF WillWake
<1> QED BY <1>2, <1>5, <1>7, <1>8 DEF RawInv

LEMMA WakesFacts ==
    ASSUME NEW t \in [RawProcs -> Rec], NEW h
    PROVE  /\ Wakes(t, h) \in [RawProcs -> Rec]
           /\ \A q \in RawProcs :
                /\ Wakes(t, h)[q].pc = t[q].pc /\ Wakes(t, h)[q].bp = t[q].bp
                /\ Wakes(t, h)[q].chan \in {t[q].chan, "none"}
                /\ t[q].chan = h /\ hd[h].wanted => Wakes(t, h)[q].chan = "none"
<1>1. CASE hd[h].wanted
  BY <1>1, WokenFacts DEF Wakes
<1>2. CASE ~hd[h].wanted
  BY <1>2 DEF Wakes
<1> QED BY <1>1, <1>2

LEMMA SwapEnds_Step ==
    ASSUME RawInv, NEW p \in Swappers, SwapEnds(p)
    PROVE  RawInv'
<1>0. /\ RawTypeOK /\ RawLocal /\ OneUser /\ WillWake
      /\ rp \in [RawProcs -> Rec] /\ hd \in [Headers -> Flag] /\ p \in RawProcs /\ p \notin Raws
  BY Parts, Names
<1>1. PICK h : h = rp[p].bp
  OBVIOUS
<1>2. PICK r : r = IF rp[p].left - 1 = 0 THEN Proc0
                   ELSE [Proc0 EXCEPT !.pc = "swap", !.left = rp[p].left - 1]
  OBVIOUS
<1>3. /\ rp[p].pc = "io" /\ rp[p].chan = "none" /\ hd[h].done /\ UNCHANGED <<queued, physbusy>>
      /\ rp' = Wakes([rp EXCEPT ![p] = r], h)
      /\ hd' = [hd EXCEPT ![h].busy = FALSE, ![h].wanted = FALSE]
  BY <1>1, <1>2 DEF SwapEnds, Runs
<1>4. h \in Headers /\ Uses(rp[p]) /\ h \notin queued
  BY <1>0, <1>1, <1>3, Names DEF RawLocal, SwapLocal, Uses, OneUser
<1>5. r \in Rec /\ r.pc \in {"user", "swap"} /\ r.chan = "none"
  <2>1. rp[p].left - 1 \in Int
    BY <1>0 DEF Rec
  <2>2. CASE rp[p].left - 1 = 0
    BY <1>2, <2>2, Names DEF Rec, Places, Proc0
  <2>3. CASE rp[p].left - 1 # 0
    <3>1. PICK n \in Int : n = rp[p].left - 1
      BY <2>1
    <3>2. r = [Proc0 EXCEPT !.pc = "swap", !.left = n]
      BY <1>2, <2>3, <3>1
    <3>3. Proc0 \in Rec
      BY DEF Proc0, Rec, Places
    <3>4. r \in Rec /\ r.pc = "swap" /\ r.chan = Proc0.chan
      BY <3>2, <3>3 DEF Rec, Places
    <3>5. Proc0.chan = "none"
      BY DEF Proc0
    <3> QED BY <3>4, <3>5
  <2> QED BY <2>2, <2>3
<1>6. PICK t : t = [rp EXCEPT ![p] = r]
  OBVIOUS
<1>7. t \in [RawProcs -> Rec] /\ t[p] = r /\ \A q \in RawProcs : q # p => t[q] = rp[q]
  BY <1>0, <1>5, <1>6
<1>8. /\ rp' \in [RawProcs -> Rec]
      /\ \A q \in RawProcs :
            /\ rp'[q].pc = t[q].pc /\ rp'[q].bp = t[q].bp
            /\ rp'[q].chan \in {t[q].chan, "none"}
            /\ t[q].chan = h /\ hd[h].wanted => rp'[q].chan = "none"
  <2>1. rp' = Wakes(t, h)
    BY <1>3, <1>6
  <2>2. /\ Wakes(t, h) \in [RawProcs -> Rec]
        /\ \A q \in RawProcs :
            /\ Wakes(t, h)[q].pc = t[q].pc /\ Wakes(t, h)[q].bp = t[q].bp
            /\ Wakes(t, h)[q].chan \in {t[q].chan, "none"}
            /\ t[q].chan = h /\ hd[h].wanted => Wakes(t, h)[q].chan = "none"
    BY <1>7, WakesFacts
  <2> QED BY <2>1, <2>2
<1>9. ~Uses(rp'[p]) /\ rp'[p].chan = "none" /\ SwapLocal(rp'[p])
  BY <1>0, <1>5, <1>7, <1>8 DEF Uses, SwapLocal
<1>10. \A q \in RawProcs : q # p => Bystander(q)
                                    /\ (rp[q].chan = h /\ hd[h].wanted => rp'[q].chan = "none")
  BY <1>7, <1>8 DEF Bystander
<1> QED BY <1>0, <1>1, <1>3, <1>4, <1>8, <1>9, <1>10, GivenBack, ZenonT(60)

LEMMA PhysEnds_Step ==
    ASSUME RawInv, NEW p \in Raws, PhysEnds(p)
    PROVE  RawInv'
<1>0. /\ RawTypeOK /\ RawLocal /\ OneUser /\ WillWake
      /\ rp \in [RawProcs -> Rec] /\ hd \in [Headers -> Flag] /\ p \in RawProcs /\ p \notin Swappers
  BY Parts, Names
<1>1. PICK h : h = rp[p].bp
  OBVIOUS
<1>2. PICK t : t = [rp EXCEPT ![p] = Proc0]
  OBVIOUS
<1>3. PICK u : u = IF physbusy > 1 THEN RawWoken(t, PHYS) ELSE t
  OBVIOUS
<1>4. /\ rp[p].pc = "free" /\ rp[p].chan = "none" /\ queued' = queued /\ physbusy' = 0
      /\ rp' = Wakes(u, h)
      /\ hd' = [hd EXCEPT ![h].busy = FALSE, ![h].wanted = FALSE]
  BY <1>1, <1>2, <1>3 DEF PhysEnds, Runs
<1>5. h \in Headers /\ Uses(rp[p])
  BY <1>0, <1>1, <1>4, Names DEF RawLocal, PhysLocal, Uses
<1>6. h \notin queued
  <2>1. SUFFICES ASSUME h \in queued PROVE FALSE
    OBVIOUS
  <2>2. PICK x \in RawProcs : rp[x].pc = "io" /\ rp[x].bp = h
    BY <1>0, <2>1 DEF OneUser
  <2>3. x = p
    BY <1>0, <1>1, <1>5, <2>2 DEF OneUser, Uses
  <2> QED BY <1>4, <2>2, <2>3
<1>7. Proc0 \in Rec /\ Proc0.pc = "user" /\ Proc0.chan = "none"
  BY DEF Proc0, Rec, Places
<1>8. t \in [RawProcs -> Rec] /\ t[p] = Proc0 /\ \A q \in RawProcs : q # p => t[q] = rp[q]
  BY <1>0, <1>2, <1>7
<1>9. /\ u \in [RawProcs -> Rec]
      /\ \A q \in RawProcs : /\ u[q].pc = t[q].pc /\ u[q].bp = t[q].bp
                             /\ u[q].chan \in {t[q].chan, "none"}
                             /\ physbusy > 1 /\ t[q].chan = PHYS => u[q].chan = "none"
                             /\ t[q].chan # PHYS => u[q].chan = t[q].chan
  <2>1. CASE physbusy > 1
    BY <1>3, <1>8, <2>1, WokenFacts
  <2>2. CASE ~(physbusy > 1)
    BY <1>3, <1>8, <2>2
  <2> QED BY <2>1, <2>2
<1>10. /\ rp' \in [RawProcs -> Rec]
       /\ \A q \in RawProcs :
            /\ rp'[q].pc = u[q].pc /\ rp'[q].bp = u[q].bp
            /\ rp'[q].chan \in {u[q].chan, "none"}
            /\ u[q].chan = h /\ hd[h].wanted => rp'[q].chan = "none"
  BY <1>4, <1>9, WakesFacts
<1>11. ~Uses(rp'[p]) /\ rp'[p].chan = "none" /\ PhysLocal(rp'[p])
  <2>1. u[p].pc = "user" /\ u[p].chan = "none"
    BY <1>0, <1>7, <1>8, <1>9
  <2>2. rp'[p].pc = "user" /\ rp'[p].chan = "none"
    BY <1>0, <1>10, <2>1
  <2> QED BY <2>2 DEF Uses, PhysLocal
<1>12. ASSUME NEW q \in RawProcs, q # p
       PROVE  Bystander(q) /\ (rp[q].chan = h /\ hd[h].wanted => rp'[q].chan = "none")
  BY <1>5, <1>8, <1>9, <1>10, <1>12, Names DEF Bystander
<1>13. ASSUME NEW q \in Raws, rp'[q].pc = "getpage"
       PROVE  rp'[q].chan = "none"
  <2>1. q \in RawProcs /\ q # p
    BY <1>7, <1>8, <1>9, <1>10, <1>13, Names
  <2>2. rp[q].pc = "getpage" /\ t[q].chan = rp[q].chan
    BY <1>8, <1>9, <1>10, <1>13, <2>1
  <2>3. CASE rp[q].chan = "none"
    BY <1>9, <1>10, <2>1, <2>2, <2>3
  <2>4. CASE rp[q].chan # "none"
    <3>1. rp[q].chan = PHYS /\ physbusy = 3
      BY <1>0, <2>2, <2>4 DEF RawLocal, PhysLocal, WillWake
    <3> QED BY <1>9, <1>10, <2>1, <2>2, <3>1
  <2> QED BY <2>3, <2>4
<1> QED BY <1>0, <1>1, <1>4, <1>5, <1>6, <1>10, <1>11, <1>12, <1>13, GivenBack, ZenonT(60)

LEMMA PhysBegins_Step ==
    ASSUME RawInv, NEW p \in Raws, PhysBegins(p)
    PROVE  RawInv'
<1>0. /\ RawTypeOK /\ RawLocal /\ OneUser /\ WillWake
      /\ rp \in [RawProcs -> Rec] /\ hd \in [Headers -> Flag] /\ queued \subseteq Headers
      /\ p \in RawProcs /\ p \notin Swappers
      /\ \A q \in RawProcs : rp[q].pc = "io" => Uses(rp[q])
      /\ \A q \in RawProcs : rp[q].pc \in {"getsw", "getbp"} => rp[q].bp \in Headers
  BY Parts, Names
<1>1. PICK h : h = rp[p].bp
  OBVIOUS
<1>2. rp[p].pc \in {"getbp", "getpage"} /\ rp[p].chan = "none"
  BY DEF PhysBegins, Runs
<1>3. h \in RawDevs /\ h \in Headers /\ ~Uses(rp[p])
  BY <1>0, <1>1, <1>2, Names DEF RawLocal, PhysLocal, Uses
<1>4. CASE rp[p].pc = "getbp" /\ AwaitsHeader(p, rp[p].bp, "getbp")
  BY <1>0, <1>1, <1>3, <1>4, Awaits_Step
<1>5. CASE /\ PageTaken /\ physbusy' = 3 /\ UNCHANGED <<hd, queued>>
           /\ rp' = [rp EXCEPT ![p].pc = "getpage", ![p].chan = PHYS]
  <2>1. /\ rp'[p].pc = "getpage" /\ rp'[p].chan = PHYS /\ rp'[p].bp = rp[p].bp
        /\ rp' \in [RawProcs -> Rec] /\ \A q \in RawProcs : q # p => rp'[q] = rp[q]
    <3>1. rp[p] \in Rec
      BY <1>0
    <3>2. [rp[p] EXCEPT !.pc = "getpage", !.chan = PHYS] \in Rec
      BY <3>1 DEF Rec, Places
    <3>3. rp' = [rp EXCEPT ![p] = [rp[p] EXCEPT !.pc = "getpage", !.chan = PHYS]]
      BY <1>0, <1>5
    <3>4. rp'[p] = [rp[p] EXCEPT !.pc = "getpage", !.chan = PHYS]
      BY <1>0, <3>3
    <3>5. rp' \in [RawProcs -> Rec] /\ \A q \in RawProcs : q # p => rp'[q] = rp[q]
      BY <1>0, <3>2, <3>3
    <3> QED BY <3>1, <3>4, <3>5 DEF Rec
  <2>2. RawTypeOK'
    BY <1>0, <1>5, <2>1 DEF RawTypeOK, Rec
  <2>3. RawLocal'
    BY <1>0, <1>1, <1>3, <2>1, Names DEF RawLocal, PhysLocal
  <2>4. OneUser'
    <3>1. \A q \in RawProcs : (Uses(rp'[q]) <=> Uses(rp[q])) /\ rp'[q].bp = rp[q].bp
          /\ (rp'[q].pc = "io" <=> rp[q].pc = "io")
      BY <1>2, <1>3, <2>1 DEF Uses
    <3>2. physbusy' # 0 /\ physbusy # 0
      BY <1>5 DEF PageTaken
    <3> QED BY <1>0, <1>5, <3>1, <3>2, Names DEF OneUser
  <2>5. WillWake'
    BY <1>0, <1>5, <2>1, Names DEF WillWake
  <2> QED BY <2>2, <2>3, <2>4, <2>5 DEF RawInv
<1>6. CASE /\ ~PageTaken /\ physbusy' = 1 /\ UNCHANGED queued
           /\ hd' = [hd EXCEPT ![rp[p].bp] = Flags0]
           /\ rp' = [rp EXCEPT ![p].pc = "page"]
  <2>1. /\ rp'[p].pc = "page" /\ rp'[p].chan = "none" /\ rp'[p].bp = h
        /\ rp' \in [RawProcs -> Rec] /\ \A q \in RawProcs : q # p => rp'[q] = rp[q]
    BY <1>0, <1>1, <1>2, <1>6 DEF Rec, Places
  <2>2. hd' \in [Headers -> Flag] /\ ~hd'[h].busy /\ \A g \in Headers : g # h => hd'[g] = hd[g]
    BY <1>0, <1>1, <1>3, <1>6 DEF Flag, Flags0
  <2>3. \A q \in Raws : ~Uses(rp[q])
    BY <1>0, <1>6 DEF OneUser, PageTaken
  <2>4. \A q \in RawProcs : Uses(rp[q]) => q \in Swappers /\ rp[q].bp # h
    BY <1>0, <1>3, <2>3, Names DEF RawLocal, SwapLocal, Uses
  <2>5. ~hd[h].busy /\ h \notin queued
    BY <1>0, <1>3, <2>4 DEF OneUser
  <2>6. Uses(rp'[p]) /\ \A q \in RawProcs : q # p => (Uses(rp'[q]) <=> Uses(rp[q]))
    BY <2>1 DEF Uses
  <2>7. RawTypeOK'
    BY <1>0, <1>6, <2>1, <2>2 DEF RawTypeOK, Rec
  <2>8. RawLocal'
    BY <1>0, <1>1, <1>3, <2>1, Names DEF RawLocal, PhysLocal
  <2>9. OneUser'
    <3>1. \A x, y \in RawProcs : Uses(rp'[x]) /\ Uses(rp'[y]) /\ rp'[x].bp = rp'[y].bp => x = y
      BY <1>0, <2>1, <2>4, <2>6 DEF OneUser
    <3>2. \A x, y \in Raws : Uses(rp'[x]) /\ Uses(rp'[y]) => x = y
      BY <2>3, <2>6, Names
    <3>3. physbusy' # 0 <=> \E x \in Raws : Uses(rp'[x])
      BY <1>6, <2>6
    <3>4. ASSUME NEW g \in Headers, hd'[g].busy
          PROVE  \E x \in RawProcs : Uses(rp'[x]) /\ rp'[x].bp = g
      <4>1. g # h /\ hd[g].busy
        BY <2>2, <3>4
      <4>2. PICK x \in RawProcs : Uses(rp[x]) /\ rp[x].bp = g
        BY <1>0, <4>1 DEF OneUser
      <4>3. x # p
        BY <1>3, <4>2
      <4> QED BY <2>1, <2>6, <4>2, <4>3
    <3>5. ASSUME NEW x \in Swappers, rp'[x].pc = "io"
          PROVE  hd'[rp'[x].bp].busy
      <4>1. x # p /\ x \in RawProcs /\ rp'[x] = rp[x]
        BY <1>0, <2>1, Names
      <4>2. rp[x].bp # h /\ rp[x].bp \in Headers
        BY <1>0, <2>4, <3>5, <4>1, Names DEF RawLocal, SwapLocal
      <4> QED BY <1>0, <2>2, <3>5, <4>1, <4>2 DEF OneUser
    <3>6. ASSUME NEW g \in queued'
          PROVE  ~hd'[g].done /\ hd'[g].busy /\ \E x \in RawProcs : rp'[x].pc = "io" /\ rp'[x].bp = g
      <4>1. g \in queued /\ g \in Headers /\ g # h
        BY <1>0, <1>6, <2>5
      <4>2. PICK x \in RawProcs : rp[x].pc = "io" /\ rp[x].bp = g
        BY <1>0, <4>1 DEF OneUser
      <4>3. rp'[x].pc = "io" /\ rp'[x].bp = g
        BY <1>2, <2>1, <4>2
      <4> QED BY <1>0, <2>2, <4>1, <4>3 DEF OneUser
    <3> QED BY <3>1, <3>2, <3>3, <3>4, <3>5, <3>6 DEF OneUser
  <2>10. WillWake'
    <3>1. \A q \in RawProcs : rp'[q].pc = "io" /\ rp'[q].chan # "none" => rp'[q].bp \in queued'
      BY <1>0, <1>6, <2>1 DEF WillWake
    <3>2. ASSUME NEW q \in RawProcs, rp'[q].pc \in {"getsw", "getbp"}, rp'[q].chan # "none"
          PROVE  hd'[rp'[q].bp].busy /\ (hd'[rp'[q].bp].wanted \/ rp'[q].bp \in queued')
      <4>1. q # p /\ rp'[q] = rp[q]
        BY <2>1, <3>2
      <4>2. hd[rp[q].bp].busy /\ (hd[rp[q].bp].wanted \/ rp[q].bp \in queued) /\ rp[q].bp \in Headers
        BY <1>0, <3>2, <4>1 DEF WillWake
      <4> QED BY <1>6, <2>2, <2>5, <4>1, <4>2
    <3>3. \A q \in Raws : rp'[q].pc = "getpage" /\ rp'[q].chan # "none" => physbusy' = 3
      <4>1. \A q \in Raws : rp[q].pc = "getpage" => rp[q].chan = "none"
        BY <1>0, <1>6 DEF WillWake, PageTaken
      <4> QED BY <2>1, <4>1, Names
    <3> QED BY <3>1, <3>2, <3>3 DEF WillWake
  <2> QED BY <2>7, <2>8, <2>9, <2>10 DEF RawInv
<1> QED BY <1>4, <1>5, <1>6 DEF PhysBegins

-----------------------------------------------------------------------------
LEMMA RawInit_Inv ==
    ASSUME RawInit
    PROVE  RawInv
<1>1. /\ \A h \in Headers : hd[h] = Flags0
      /\ \A p \in RawProcs : rp[p] = Proc0
      /\ queued = {} /\ physbusy = 0
  BY DEF RawInit, RawProcs
<1>2. Flags0 \in Flag /\ Flags0.busy = FALSE /\ Flags0.done = FALSE
  BY DEF Flags0, Flag
<1>3. Proc0 \in Rec /\ Proc0.pc = "user" /\ Proc0.chan = "none"
  BY DEF Proc0, Rec, Places
<1>4. RawTypeOK
  BY <1>2, <1>3 DEF RawInit, RawTypeOK, RawProcs, Rec
<1>5. RawLocal
  BY <1>1, <1>3, Names DEF RawLocal, SwapLocal, PhysLocal
<1>6. \A p \in RawProcs : ~Uses(rp[p])
  BY <1>1, <1>3 DEF Uses
<1>7. OneUser
  BY <1>1, <1>2, <1>3, <1>6, Names DEF OneUser
<1>8. WillWake
  BY <1>1, <1>3, Names DEF WillWake
<1> QED BY <1>4, <1>5, <1>7, <1>8 DEF RawInv

LEMMA RawNext_Inv ==
    ASSUME RawInv, [RawNext]_rawVars
    PROVE  RawInv'
<1>1. CASE \E h \in Headers : RawIodone(h)
  BY <1>1, RawIodone_Step
<1>2. CASE \E p \in Swappers : Mapswap(p) \/ SwapCall(p) \/ SwapEnds(p)
  BY <1>2, Mapswap_Step, SwapCall_Step, SwapEnds_Step
<1>3. CASE \E p \in Raws : Physio(p) \/ PhysBegins(p) \/ PhysPage(p) \/ PhysPageDone(p) \/ PhysEnds(p)
  BY <1>3, Physio_Step, PhysBegins_Step, PhysPage_Step, PhysPageDone_Step, PhysEnds_Step
<1>4. CASE UNCHANGED rawVars
  BY <1>4 DEF rawVars, RawInv, RawTypeOK, RawLocal, OneUser, WillWake
<1> QED BY <1>1, <1>2, <1>3, <1>4 DEF RawNext

(* Of any number of processes that swap or read and write raw devices, no  *)
(* two have the same header or the page at a time, and none sleeps for a    *)
(* header or the page that no one is left to give up (bio.c, swap, physio   *)
(* and iodone), whatever errors the disk returns.                           *)
THEOREM HeadersAreShared == RawSpec => []HeadersShared
<1>1. RawInit => RawInv
  BY RawInit_Inv
<1>2. RawInv /\ [RawNext]_rawVars => RawInv'
  BY RawNext_Inv
<1>3. RawInv => HeadersShared
  BY InvIsEnough
<1> QED BY <1>1, <1>2, <1>3, PTL DEF RawSpec
=============================================================================
