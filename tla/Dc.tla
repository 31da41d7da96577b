---------------------------------- MODULE Dc ---------------------------------
(* The desk calculator dc: numbers as digits of radix 100, least significant *)
(* first, a negative one ending in -1 (hundreds' complement); the four       *)
(* operations, square root, powers and output bases on them; the scale that  *)
(* each number carries; and the blocks that stack, registers and arrays own. *)
EXTENDS Integers, Sequences, SequencesExt, FiniteSets

CONSTANTS
    DcSTKSZ,   \* entries of the stack (STKSZ)
    DcBlocks,  \* blocks that can be live
    DcMoves    \* bound: commands of the stack machine

VARIABLES
    dcStack,   \* blocks on the stack, top last
    dcReg,     \* blocks saved in a register, top last
    dcArr,     \* blocks in an array, 0 where there is none
    dcLive,    \* blocks that are allocated
    dcHole,    \* history: an array store found the stack empty
    dcLeft

dcVars == <<dcStack, dcReg, dcArr, dcLive, dcHole, dcLeft>>

(* --------------------------- numbers ------------------------------------- *)
DcAt(d, i) == IF i \in DOMAIN d THEN d[i] ELSE 0
DcIota(n) == [i \in 1..n |-> i]
DcBigger(i, j) == IF i > j THEN i ELSE j

DcTrim(d) ==
    IF \E i \in DOMAIN d : d[i] # 0
    THEN SubSeq(d, 1, CHOOSE i \in DOMAIN d : d[i] # 0 /\ \A j \in i + 1..Len(d) : d[j] = 0)
    ELSE <<>>

(* chsign: complement, then one leading 99 before the -1 or one 0 goes.      *)
DcChsign(d) ==
    LET r == FoldLeft(LAMBDA a, x : LET c == 100 - x - a.carry
                                    IN IF c >= 100 THEN [carry |-> 0, out |-> Append(a.out, c - 100)]
                                       ELSE [carry |-> 1, out |-> Append(a.out, c)],
                      [carry |-> 0, out |-> <<>>], d)
        n == Len(r.out)
    IN IF r.carry = 1
       THEN IF r.out[n] = 99 THEN SubSeq(r.out, 1, n - 1) \o <<-1>> ELSE r.out \o <<-1>>
       ELSE IF n > 0 /\ r.out[n] = 0 THEN SubSeq(r.out, 1, n - 1) ELSE r.out

(* add: leading zeros are removed; of the 99s before a -1 all but the lowest *)
(* digit of the number.                                                      *)
DcAdd(a1, a2) ==
    LET r == FoldLeft(LAMBDA a, i :
                          LET n == DcAt(a1, i) + DcAt(a2, i) + a.carry
                              c == IF n >= 100 THEN 1 ELSE IF n < 0 THEN -1 ELSE 0
                          IN [carry |-> c, out |-> Append(a.out, n - 100 * c)],
                      [carry |-> 0, out |-> <<>>], DcIota(DcBigger(Len(a1), Len(a2))))
        p == DcTrim(IF r.carry # 0 THEN Append(r.out, r.carry) ELSE r.out)
        n == Len(p)
        Low == {i \in 1..n - 1 : p[i] # 99}
        top == IF Low = {} THEN 1 ELSE CHOOSE i \in Low : \A j \in Low : j <= i
    IN IF n > 0 /\ p[n] = -1 THEN SubSeq(p, 1, top) \o <<-1>> ELSE p

DcNegative(d) == Len(d) > 0 /\ d[Len(d)] < 0

(* mult: one row for each digit of q, on the absolute values.                *)
DcMult(p, q) ==
    LET mp == IF DcNegative(p) THEN DcChsign(p) ELSE p
        mq == IF DcNegative(q) THEN DcChsign(q) ELSE q
        Set(d, i, x) == IF i > Len(d) THEN Append(d, x) ELSE [d EXCEPT ![i] = x]
        Row(mr, o) ==
            LET s == FoldLeft(LAMBDA a, j :
                                  LET t == mp[j] * mq[o] + a.carry + DcAt(a.mr, o + j - 1)
                                  IN [carry |-> t \div 100, mr |-> Set(a.mr, o + j - 1, t % 100)],
                              [carry |-> 0, mr |-> mr], DcIota(Len(mp)))
            IN IF s.carry = 0 THEN s.mr
               ELSE Set(s.mr, o + Len(mp), DcAt(s.mr, o + Len(mp)) + s.carry)
        mr == FoldLeft(Row, <<>>, DcIota(Len(mq)))
    IN IF DcNegative(p) # DcNegative(q) THEN DcChsign(mr) ELSE mr

(* div on absolute values.  A digit of the quotient is estimated from three  *)
(* digits of the dividend and two or three of the divisor; the estimate is   *)
(* low, and may leave a digit above 99 for the next place, but for the last  *)
(* place it is high, and corrected by one.                                   *)
DcDigit(divd, divr, offset) ==
    LET m     == Len(divr)
        magic == divr[m] < 10
        c2    == divr[m] * 100 + DcAt(divr, m - 1)
        c     == IF magic THEN ((c2 * 100 + DcAt(divr, m - 2)) * 2) \div 25 ELSE c2
        n     == Len(divd)
        td    == (divd[n] * 100 + DcAt(divd, n - 1)) * 100 + DcAt(divd, n - 2)
        t     == IF offset = 0 THEN td + 1 ELSE td
    IN (IF magic THEN 8 * t ELSE t) \div (IF offset = 0 THEN c ELSE c + 1)

(* dividend minus dig times divisor from place offset on, with the borrow.   *)
DcLess(divd, divr, dig, offset) ==
    LET prod == FoldLeft(LAMBDA a, x : LET d == x * dig + a.carry
                                       IN [carry |-> d \div 100, out |-> Append(a.out, d % 100)],
                         [carry |-> 0, out |-> <<>>], divr)
        xyz  == Append(prod.out, prod.carry)
    IN FoldLeft(LAMBDA a, i :
                    LET d == divd[i] - DcAt(xyz, i - offset) - a.carry
                    IN [carry |-> IF d < 0 THEN 1 ELSE 0,
                        out |-> [a.out EXCEPT ![i] = IF d < 0 THEN d + 100 ELSE d]],
                [carry |-> 0, out |-> divd], [i \in 1..Len(divd) - offset |-> offset + i])

(* Digits of the quotient that came out above 99.                            *)
DcCarries(p) ==
    LET q == FoldLeft(LAMBDA a, x : LET d == x + a.carry
                                    IN IF d >= 100 THEN [carry |-> 1, out |-> Append(a.out, d - 100)]
                                       ELSE [carry |-> 0, out |-> Append(a.out, d)],
                      [carry |-> 0, out |-> <<>>], p)
    IN IF q.carry = 1 THEN Append(q.out, 1) ELSE q.out

DcDivide(divd0, divr) ==
    LET top == Len(divd0) - Len(divr)
        Step(a, i) ==
            LET offset == top + 1 - i
                dig    == DcDigit(a.divd, divr, offset)
                s      == DcLess(a.divd, divr, dig, offset)
            IN [carry |-> s.carry, dig |-> dig, p |-> [a.p EXCEPT ![offset + 1] = dig],
                divd |-> IF offset > 0 THEN SubSeq(s.out, 1, Len(s.out) - 1) ELSE s.out]
        r == FoldLeft(Step, [carry |-> 0, dig |-> 0, p |-> [i \in 1..top + 1 |-> 0],
                             divd |-> Append(divd0, 0)], DcIota(top + 1))
        u == IF r.carry = 0 THEN r
             ELSE [r EXCEPT !.p[1] = r.dig - 1, !.divd = DcAdd(divr, Append(r.divd, -1))]
    IN IF top < 0 THEN [p |-> <<>>, rem |-> divd0]
       ELSE [p |-> DcTrim(DcCarries(u.p)), rem |-> DcTrim(u.divd)]

DcDiv(ddivd, ddivr) ==
    LET Abs(d) == IF DcNegative(d) THEN DcChsign(d) ELSE d
        r == DcDivide(Abs(ddivd), Abs(ddivr))
    IN IF Len(ddivr) = 0 THEN [p |-> <<>>, rem |-> <<>>]
       ELSE [p   |-> IF DcNegative(ddivd) # DcNegative(ddivr) THEN DcChsign(r.p) ELSE r.p,
             rem |-> IF DcNegative(ddivd) THEN DcChsign(r.rem) ELSE r.rem]

DcTen == <<10>>
DcTwo == <<2>>

(* ct decimal zeros below p; n decimal digits of p removed.                  *)
DcAdd0(p, ct) ==
    LET q == [i \in 1..ct \div 2 |-> 0] \o p
    IN IF ct % 2 = 1 THEN DcMult(DcTen, q) ELSE q

DcRemovc(p, n) ==
    LET q == SubSeq(p, n \div 2 + 1, Len(p))
    IN IF n % 2 = 1 THEN DcDiv(q, DcTen).p ELSE q

RECURSIVE DcNewton(_, _)
DcNewton(p, r) ==
    LET q == DcDiv(DcAdd(DcDiv(p, r).p, r), DcTwo).p
    IN IF DcNegative(DcAdd(DcChsign(r), q)) THEN DcNewton(p, q) ELSE r

(* sqrt: the first guess is one more than the root of the leading digits.    *)
DcSqrt(p) ==
    LET n == Len(p)
        c == IF n % 2 = 1 THEN p[n] ELSE p[n] * 100 + DcAt(p, n - 1)
        g == (CHOOSE r \in 0..100 : r * r <= c /\ (r + 1) * (r + 1) > c) + 1
        z == [i \in 1..(n + 1) \div 2 - 1 |-> 0]
    IN DcNewton(p, IF g >= 100 THEN z \o <<g - 100, 1>> ELSE z \o <<g>>)

RECURSIVE DcPower(_, _, _)
DcPower(p, e, r) ==
    LET h == DcDiv(e, DcTwo)
    IN IF Len(e) = 0 THEN r
       ELSE DcPower(DcMult(p, p), h.p, IF h.rem # <<>> THEN DcMult(p, r) ELSE r)

DcExp(base, ex) == DcPower(base, ex, <<1>>)

RECURSIVE DcOut(_, _)
(* print in another base: remainders, the last one first.                    *)
DcOut(p, base) ==
    IF Len(p) = 0 THEN <<>>
    ELSE LET q == DcDiv(p, base) IN Append(DcOut(q.p, base), DcAt(q.rem, 1))

RECURSIVE DcReadin(_, _, _)
(* readin: digits ds of the input base, most significant first.              *)
DcReadin(ds, inbas, p) ==
    IF ds = <<>> THEN p
    ELSE DcReadin(Tail(ds), inbas, DcAdd(IF ds[1] = 0 THEN <<>> ELSE <<ds[1]>>, DcMult(p, inbas)))

(* ------------------- commands on numbers with scales --------------------- *)
DcPlus(x, y) ==
    LET sk == DcBigger(x.k, y.k)
    IN [d |-> DcAdd(DcAdd0(x.d, sk - x.k), DcAdd0(y.d, sk - y.k)), k |-> sk]

DcTimes(x, y, k) ==
    LET savk == x.k + y.k
        sk   == DcBigger(DcBigger(x.k, y.k), k)
        p    == DcMult(x.d, y.d)
    IN IF savk > k /\ savk > x.k /\ savk > y.k
       THEN [d |-> DcRemovc(p, savk - sk), k |-> sk] ELSE [d |-> p, k |-> savk]

(* removr keeps the digits it removes for the remainder; past the end of the *)
(* number sgetc delivers EOF, which is -1.                                   *)
DcRemovr(p, n) ==
    LET low == [i \in 1..n \div 2 |-> IF i \in DOMAIN p THEN p[i] ELSE -1]
        r   == SubSeq(p, n \div 2 + 1, Len(p))
        s   == DcDiv(r, DcTen)
    IN IF n % 2 = 0 THEN [r |-> r, irem |-> low]
       ELSE [r |-> s.p, irem |-> low \o (IF s.rem = <<>> THEN <<>> ELSE <<s.rem[1]>>)]

(* / and %: dscale brings the dividend to scale k + skr.                     *)
DcOver(x, y, k) ==
    LET c == k - x.k + y.k
        r == DcRemovr(x.d, -c)
        q == DcDiv(IF c < 0 THEN r.r ELSE DcAdd0(x.d, c), y.d)
    IN [quot |-> [d |-> q.p, k |-> k],
        rem  |-> IF c >= 0 THEN [d |-> q.rem, k |-> y.k + k]
                 ELSE [d |-> DcAdd(DcAdd0(q.rem, -c), r.irem), k |-> x.k]]

DcRoot(x, k) ==
    LET n == IF k < x.k THEN x.k ELSE 2 * k - x.k
    IN [d |-> DcSqrt(DcAdd0(x.d, n)), k |-> DcBigger(k, x.k)]

(* ----------------------- the blocks of the machine ----------------------- *)
DcFree == DcBlocks \ dcLive
DcNew == CHOOSE b \in DcFree : TRUE

DcInit ==
    /\ dcStack = <<>> /\ dcReg = <<>> /\ dcArr = <<0, 0>>
    /\ dcLive = {} /\ dcHole = FALSE /\ dcLeft = DcMoves

DcMachine == dcLeft > 0 /\ dcLeft' = dcLeft - 1 /\ DcFree # {}
DcPop == SubSeq(dcStack, 1, Len(dcStack) - 1)
DcTop == dcStack[Len(dcStack)]

(* pushp: a full stack refuses the block, which is then nobody's.            *)
DcPush(s, b) == IF Len(s) = DcSTKSZ THEN s ELSE Append(s, b)

DcNumber ==
    /\ DcMachine
    /\ dcStack' = DcPush(dcStack, DcNew) /\ dcLive' = dcLive \cup {DcNew}
    /\ UNCHANGED <<dcReg, dcArr, dcHole>>

(* A binary operator: eqk or dscale pops two, and pushes back a lonely one.  *)
DcBinop ==
    /\ DcMachine /\ Len(dcStack) > 1
    /\ dcStack' = Append(SubSeq(dcStack, 1, Len(dcStack) - 2), DcNew)
    /\ dcLive' = (dcLive \ {DcTop, dcStack[Len(dcStack) - 1]}) \cup {DcNew}
    /\ UNCHANGED <<dcReg, dcArr, dcHole>>

DcDup ==
    /\ DcMachine /\ dcStack # <<>>
    /\ dcStack' = DcPush(dcStack, DcNew) /\ dcLive' = dcLive \cup {DcNew}
    /\ UNCHANGED <<dcReg, dcArr, dcHole>>

DcClear ==
    /\ DcMachine
    /\ dcStack' = <<>> /\ dcLive' = dcLive \ Range(dcStack)
    /\ UNCHANGED <<dcReg, dcArr, dcHole>>

(* s releases the register's value; S keeps it below the new one.            *)
DcSave ==
    /\ DcMachine /\ dcStack # <<>>
    /\ dcStack' = DcPop
    /\ IF dcReg = <<>> THEN dcReg' = <<DcTop>> /\ UNCHANGED dcLive
       ELSE /\ dcReg' = [dcReg EXCEPT ![Len(dcReg)] = DcTop]
            /\ dcLive' = dcLive \ {dcReg[Len(dcReg)]}
    /\ UNCHANGED <<dcArr, dcHole>>

DcSaveStack ==
    /\ DcMachine /\ dcStack # <<>>
    /\ dcStack' = DcPop /\ dcReg' = Append(dcReg, DcTop)
    /\ UNCHANGED <<dcArr, dcLive, dcHole>>

(* l pushes a copy, or a new zero; L moves the block itself.                 *)
DcLoad ==
    /\ DcMachine
    /\ dcStack' = DcPush(dcStack, DcNew) /\ dcLive' = dcLive \cup {DcNew}
    /\ UNCHANGED <<dcReg, dcArr, dcHole>>

DcLoadStack ==
    /\ DcMachine /\ dcReg # <<>>
    /\ dcStack' = DcPush(dcStack, dcReg[Len(dcReg)])
    /\ dcReg' = SubSeq(dcReg, 1, Len(dcReg) - 1)
    /\ UNCHANGED <<dcArr, dcLive, dcHole>>

(* : pops the index, releases the old element, and only then pops the value. *)
DcStore(i) ==
    /\ DcMachine /\ dcStack # <<>>
    /\ LET rest == DcPop
           freed == {DcTop, dcArr[i]} \ {0}
       IN IF rest = <<>>
          THEN /\ dcStack' = rest /\ dcLive' = dcLive \ freed
               /\ dcHole' = (dcHole \/ dcArr[i] # 0)
               /\ UNCHANGED dcArr
          ELSE /\ dcStack' = SubSeq(rest, 1, Len(rest) - 1)
               /\ dcArr' = [dcArr EXCEPT ![i] = rest[Len(rest)]]
               /\ dcLive' = dcLive \ freed
               /\ UNCHANGED dcHole
    /\ UNCHANGED dcReg

DcFetch(i) ==
    /\ DcMachine /\ dcStack # <<>>
    /\ dcStack' = Append(DcPop, DcNew) /\ dcLive' = (dcLive \ {DcTop}) \cup {DcNew}
    /\ UNCHANGED <<dcReg, dcArr, dcHole>>

DcNext ==
    \/ DcNumber \/ DcBinop \/ DcDup \/ DcClear \/ DcSave \/ DcSaveStack
    \/ DcLoad \/ DcLoadStack \/ \E i \in 1..2 : DcStore(i) \/ DcFetch(i)

(* ------------------------------ properties ------------------------------- *)
RECURSIVE DcValue(_)
DcValue(d) == IF d = <<>> THEN 0 ELSE d[1] + 100 * DcValue(Tail(d))

RECURSIVE DcDigits(_)
DcDigits(v) == IF v = 0 THEN <<>> ELSE <<v % 100>> \o DcDigits(v \div 100)

DcRep(v) == IF v >= 0 THEN DcDigits(v) ELSE DcChsign(DcDigits(-v))
DcTenTo(n) == 10 ^ n
DcAbs(v) == IF v < 0 THEN -v ELSE v
DcTrunc(a, b) == IF (a < 0) = (b < 0) THEN DcAbs(a) \div DcAbs(b) ELSE -(DcAbs(a) \div DcAbs(b))
DcFits(v, n) == DcAbs(v) < 20000000 \div DcTenTo(n)

RECURSIVE DcPoly(_, _)
DcPoly(ds, b) == IF ds = <<>> THEN 0 ELSE ds[Len(ds)] + b * DcPoly(SubSeq(ds, 1, Len(ds) - 1), b)

(* dc's arithmetic on radix-100 digits is the arithmetic of integers: sums   *)
(* and products of any sign, quotients truncated towards zero with the       *)
(* remainder that belongs to them, integer square roots and powers, numbers  *)
(* written in and read from another base.  With scales, a sum is exact, a    *)
(* product loses less than one unit of the scale that is kept, and a         *)
(* dividend that is not negative, and not shorter than what is cut off it,   *)
(* is quotient times divisor plus remainder.  The job is two integers, their *)
(* scales and the scale k that is to be kept.                                *)
DcRight(job) ==
    LET x == [d |-> DcRep(job.x), k |-> job.kx]
        y == [d |-> DcRep(job.y), k |-> job.ky]
        k == job.k
        sk == DcBigger(x.k, y.k)
        sum == DcPlus(x, y)
        prod == DcTimes(x, y, k)
        q == DcDiv(x.d, y.d)
        over == DcOver(x, y, k)
        e == (job.y % 3) + 1
        base == (IF DcAbs(job.x) < 100 THEN 2 ELSE 8) + job.k + (DcAbs(job.y) % 13)
        root == DcRoot(x, k)
    IN /\ DcValue(x.d) = job.x
       /\ DcValue(sum.d) = job.x * DcTenTo(sk - x.k) + job.y * DcTenTo(sk - y.k)
       /\ DcFits(job.x, 1) /\ DcAbs(job.y) < 1000 =>
              DcAbs(DcValue(prod.d) * DcTenTo(x.k + y.k - prod.k) - job.x * job.y) < DcTenTo(x.k + y.k - prod.k)
       /\ job.y # 0 =>
              /\ DcValue(q.p) = DcTrunc(job.x, job.y)
              /\ DcValue(q.rem) = job.x - DcTrunc(job.x, job.y) * job.y
       /\ job.y # 0 /\ job.x >= 0 /\ 2 * Len(x.d) >= x.k - k - y.k /\ DcFits(job.x, k + y.k) =>
              DcValue(over.rem.d) * DcTenTo(k + y.k + x.k - over.rem.k)
              = job.x * DcTenTo(k + y.k) - DcValue(over.quot.d) * job.y * DcTenTo(x.k)
       /\ job.x > 0 /\ DcFits(job.x, 2 * k) =>
              LET v == job.x * DcTenTo(IF k < x.k THEN x.k ELSE 2 * k - x.k)
                  r == DcValue(root.d)
              IN r * r <= v /\ (r + 1) * (r + 1) > v
       /\ DcAbs(job.x) < 1000 => DcValue(DcExp(x.d, <<e>>)) = job.x ^ e
       /\ job.x > 0 => LET ds == DcOut(x.d, <<base>>)
                         IN DcPoly(ds, base) = job.x /\ DcValue(DcReadin(ds, <<base>>, <<>>)) = job.x

(* Every block that the stack, a register or an array holds is allocated,    *)
(* and held once: nothing is released twice or used after its release.  Only *)
(* a ':' that finds no value after it has released the old element makes an  *)
(* exception.                                                                *)
DcBlocksOwned ==
    LET held == dcStack \o dcReg \o SelectSeq(dcArr, LAMBDA b : b # 0)
    IN ~dcHole => Range(held) \subseteq dcLive /\ Cardinality(Range(held)) = Len(held)

==============================================================================
