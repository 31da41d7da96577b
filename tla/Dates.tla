-------------------------------- MODULE Dates --------------------------------
(* Times and calendars: ctime.c of the C library, date and cal.  A time is   *)
(* what a time_t is, kept as a day number and the second of that day so that *)
(* its 64 bits fit: [day, sec] stands for 86400 * day + sec.                 *)
EXTENDS Integers, Sequences, SequencesExt, FiniteSets

(* -------------------------------- ctime.c -------------------------------- *)
DaDmsize == <<31, 28, 31, 30, 31, 30, 31, 31, 30, 31, 30, 31>>

(* C divides towards zero.                                                   *)
DaQuot(a, b) == IF a >= 0 THEN a \div b ELSE -((-a) \div b)
DaRem(a, b) == a - b * DaQuot(a, b)

DaTime(day, sec) == [day |-> day + (sec \div 86400), sec |-> sec % 86400]
DaPlus(t, n) == DaTime(t.day, t.sec + n)

dysize(y) == IF y % 4 = 0 /\ (y % 100 # 0 \/ y % 400 = 0) THEN 366 ELSE 365

(* The loops over years, from 1970 up or down, and over months.              *)
RECURSIVE DaYear(_, _), DaYearBack(_, _), DaMonth(_, _, _)
DaYear(y, day) == IF day >= dysize(y) THEN DaYear(y + 1, day - dysize(y)) ELSE <<y, day>>
DaYearBack(y, day) == IF day < 0 THEN DaYearBack(y - 1, day + dysize(y - 1)) ELSE <<y, day>>
DaMonth(size, m, d) == IF d >= size[m + 1] THEN DaMonth(size, m + 1, d - size[m + 1]) ELSE <<m, d>>

(* The quotient and remainder of *tim by 86400, made non-negative.           *)
DaBreak(t) ==
    LET neg == t.day < 0 /\ t.sec > 0
        hms == IF neg THEN t.sec - 86400 ELSE t.sec
        day == IF neg THEN t.day + 1 ELSE t.day
    IN  IF hms < 0 THEN <<day - 1, hms + 86400>> ELSE <<day, hms>>

gmtime(t) ==
    LET b   == DaBreak(t)
        cyc == DaQuot(b[1], 146097)
        day == DaRem(b[1], 146097)
        y   == IF day >= 0 THEN DaYear(1970, day) ELSE DaYearBack(1970, day)
        md  == DaMonth(IF dysize(y[1]) = 366 THEN [DaDmsize EXCEPT ![2] = 29] ELSE DaDmsize, 0, y[2])
    IN  [sec |-> b[2] % 60, min |-> (b[2] \div 60) % 60, hour |-> b[2] \div 3600,
         mday |-> md[2] + 1, mon |-> md[1], wday |-> (day + 7340036) % 7,
         year |-> ((y[1] + DaRem(cyc, 25) * 400 + 10000) % 10000) - 1900,
         yday |-> y[2], isdst |-> 0]

sunday(tm, d0) ==
    LET d == IF d0 >= 58 THEN d0 + dysize(tm.year + 1900) - 365 ELSE d0
    IN  d - ((d - tm.yday + tm.wday + 700) % 7)

(* daytab, and the last Sundays of April and October in other years.         *)
DaDaytab(year) == CASE year = 74 -> <<5, 333>> [] year = 75 -> <<58, 303>> [] OTHER -> <<119, 303>>

(* zone is timeb's minutes west of Greenwich, dst its dstflag.               *)
localtime(t, zone, dst) ==
    LET copyt == DaPlus(t, -60 * zone)
        ct    == gmtime(copyt)
        begin == sunday(ct, DaDaytab(ct.year)[1])
        end   == sunday(ct, DaDaytab(ct.year)[2])
    IN  IF /\ dst
           /\ ct.yday > begin \/ (ct.yday = begin /\ ct.hour >= 2)
           /\ ct.yday < end \/ (ct.yday = end /\ ct.hour < 1)
        THEN [gmtime(DaPlus(copyt, 3600)) EXCEPT !.isdst = 1]
        ELSE ct

(* ------------------------ the calendar, from its rules ------------------- *)
(* Julian day number of a date of the Gregorian (or Julian) calendar.        *)
DaJulianDay(y, m, d, gregorian) ==
    LET a == (14 - m) \div 12
        yy == y + 4800 - a
        s  == d + ((153 * (m + 12 * a - 3) + 2) \div 5) + 365 * yy + (yy \div 4)
    IN  IF gregorian THEN s - (yy \div 100) + (yy \div 400) - 32045 ELSE s - 32083
DaEpoch == DaJulianDay(1970, 1, 1, TRUE)

(* The day number of a broken-down time is the day that it came from, its    *)
(* week day and day of the year fit, and the time of day is the seconds.     *)
DaBroken(tm, t) ==
    LET jd == DaJulianDay(tm.year + 1900, tm.mon + 1, tm.mday, TRUE)
    IN  /\ jd - DaEpoch = t.day
        /\ tm.hour * 3600 + tm.min * 60 + tm.sec = t.sec /\ tm.min < 60 /\ tm.sec < 60
        /\ tm.wday = (jd + 1) % 7
        /\ tm.yday = jd - DaJulianDay(tm.year + 1900, 1, 1, TRUE)
        /\ tm.mon \in 0..11 /\ tm.mday \in 1..31

(* Daylight time runs from 2 o'clock on its first Sunday to 2 o'clock, by    *)
(* that time, on its last: the last Sundays of April and October; in 1974    *)
(* from January 6, until November; in 1975 from February.                    *)
DaLastSunday(y, m) ==
    LET last == DaJulianDay(IF m = 12 THEN y + 1 ELSE y, IF m = 12 THEN 1 ELSE m + 1, 1, TRUE) - 1
    IN  last - ((last + 1) % 7)
DaSummer(y) ==
    LET from == CASE y = 1974 -> DaJulianDay(1974, 1, 6, TRUE) [] y = 1975 -> DaLastSunday(y, 2) [] OTHER -> DaLastSunday(y, 4)
        to   == DaLastSunday(y, IF y = 1974 THEN 11 ELSE 10)
    IN  <<DaTime(from - DaEpoch, 7200), DaTime(to - DaEpoch, 3600)>>
DaBefore(s, t) == s.day < t.day \/ (s.day = t.day /\ s.sec < t.sec)
DaIsSummer(t, y) == ~DaBefore(t, DaSummer(y)[1]) /\ DaBefore(t, DaSummer(y)[2])

DaClockRight(job) ==
    LET std == DaPlus(job.t, -60 * job.zone)
        tm  == localtime(job.t, job.zone, job.dst)
    IN  /\ DaBroken(gmtime(job.t), job.t)
        /\ DaBroken(tm, DaPlus(std, 3600 * tm.isdst))
        /\ (tm.isdst = 1) = (job.dst /\ DaIsSummer(std, gmtime(std).year + 1900))

(* ---------------------------------- date --------------------------------- *)
(* gp on the reversed argument: the value and what is left.                  *)
gp(sp, dfault) ==
    IF sp = <<>> THEN <<dfault, sp>>
    ELSE LET c == sp[1] - 48
             d == IF Len(sp) > 1 THEN sp[2] - 48 ELSE 0
         IN  <<IF c < 0 \/ c > 9 \/ d < 0 \/ d > 9 THEN -1 ELSE c + 10 * d, SubSeq(sp, 3, Len(sp))>>

RECURSIVE DaDaysTo(_, _)
DaDaysTo(i, year) == IF i < year THEN dysize(i) + DaDaysTo(i + 1, year) ELSE 0

DaFields(arg, L) ==
    LET a == gp(Reverse(arg), -1)
        dot == a[2] # <<>> /\ a[2][1] = 46
        b == IF dot THEN gp(Tail(a[2]), -1) ELSE a
        h == gp(b[2], -1)
        d == gp(h[2], L.mday)
        m == gp(d[2], L.mon + 1)
        y == gp(m[2], L.year)
    IN  [sec |-> IF dot THEN a[1] ELSE 0, min |-> b[1], hour |-> h[1], mday |-> d[1], mon |-> m[1], year |-> y[1], rest |-> y[2]]

(* gtime: the time that the argument asks for, as if in Greenwich, or <<>>.  *)
gtime(arg, L) ==
    LET f    == DaFields(arg, L)
        day  == IF f.hour = 24 THEN f.mday + 1 ELSE f.mday
        hour == IF f.hour = 24 THEN 0 ELSE f.hour
        year == 1900 + (IF f.year < 70 THEN f.year + 100 ELSE f.year)
    IN  IF \/ f.rest # <<>> \/ f.year < 0 \/ f.mon \notin 1..12 \/ f.mday \notin 1..31
           \/ f.min \notin 0..59 \/ f.sec \notin 0..59 \/ hour \notin 0..23
        THEN <<>>
        ELSE DaTime(DaDaysTo(1970, year) + (IF dysize(year) = 366 /\ f.mon >= 3 THEN 1 ELSE 0)
                      + FoldLeft(+, 0, SubSeq(DaDmsize, 1, f.mon - 1)) + day - 1,
                    3600 * hour + 60 * f.min + f.sec)

(* What date leaves in the clock and in wtmp, what time it prints and its    *)
(* exit status.  can: stime is allowed; wtmp: the file opens.                *)
DaDateRun(job) ==
    LET L    == localtime(job.now, job.zone, job.dst)
        asks == job.arg # <<>>
        gt   == gtime(job.arg, L)
        bad  == asks /\ gt = <<>>
        gmt  == IF job.u THEN gt ELSE DaPlus(gt, 60 * job.zone)
        fix  == IF ~job.u /\ localtime(gmt, job.zone, job.dst).isdst = 1 THEN DaPlus(gmt, -3600) ELSE gmt
        set  == asks /\ job.can
        clock == IF set THEN fix ELSE job.now
        timbuf == IF asks /\ ~job.can THEN fix ELSE clock
    IN  IF bad THEN [clock |-> job.now, wtmp |-> <<>>, shown |-> <<>>, rc |-> 1]
        ELSE [clock |-> clock, wtmp |-> IF set /\ job.wtmp THEN <<job.now, clock>> ELSE <<>>,
              shown |-> IF job.u THEN gmtime(timbuf) ELSE localtime(timbuf, job.zone, job.dst),
              rc |-> IF asks /\ ~job.can THEN 1 ELSE 0]

(* A date that is accepted is shown again as it was given, with what was     *)
(* left out taken from the local date, unless there is no such day (April    *)
(* 31) or hour (the one that daylight time leaves out); one that is refused, *)
(* or may not be set, leaves the clock and wtmp alone.                       *)
DaDigits(n) == <<48 + (n \div 10), 48 + (n % 10)>>
DaShown(tm) == DaDigits(tm.year % 100) \o DaDigits(tm.mon + 1) \o DaDigits(tm.mday) \o DaDigits(tm.hour)
               \o DaDigits(tm.min) \o <<46>> \o DaDigits(tm.sec)
DaPadded(arg) ==
    LET a == IF Len(arg) > 3 /\ arg[Len(arg) - 2] = 46 THEN arg ELSE arg \o <<46, 48, 48>>
    IN  IF Len(a) % 2 = 0 THEN <<48>> \o a ELSE a
DaNumber(arg, i) == 10 * (arg[i] - 48) + arg[i + 1] - 48
DaExists(arg, job) ==
    LET y == 1900 + DaNumber(arg, 1) + (IF arg[1] < 55 THEN 100 ELSE 0)
        m == DaNumber(arg, 3)
        d == DaNumber(arg, 5)
        h == DaNumber(arg, 7)
        first(mm) == DaJulianDay(IF mm = 13 THEN y + 1 ELSE y, IF mm = 13 THEN 1 ELSE mm, 1, TRUE)
        t == DaTime(first(m) + d - 1 - DaEpoch, 3600 * h)
    IN  /\ m \in 1..12 /\ h < 24 /\ DaNumber(arg, 9) < 60 /\ DaNumber(arg, 12) < 60
        /\ d \in 1..first(m + 1) - first(m)
        /\ (job.dst /\ ~job.u) => DaBefore(t, DaSummer(y)[1]) \/ ~DaBefore(t, DaPlus(DaSummer(y)[1], 3600))
DaDateRight(job) ==
    LET r    == DaDateRun(job)
        arg  == DaPadded(job.arg)
        full == SubSeq(DaShown(localtime(job.now, job.zone, job.dst)), 1, 13 - Len(arg)) \o arg
    IN  /\ r.rc = 1 \/ job.arg = <<>> => r.clock = job.now /\ r.wtmp = <<>>
        /\ job.arg # <<>> /\ r.rc = 0 =>
             /\ r.wtmp = IF job.wtmp THEN <<job.now, r.clock>> ELSE <<>>
             /\ DaExists(full, job) => DaShown(r.shown) = full
        /\ Len(arg) >= 7 /\ job.can /\ DaExists(full, job) => r.rc = 0

(* ----------------------------------- cal --------------------------------- *)
(* jan1: the week day of the first of January.                               *)
jan1(yr) ==
    LET a == 4 + yr + ((yr + 3) \div 4)
        b == IF yr > 1800 THEN a - ((yr - 1701) \div 100) + ((yr - 1601) \div 400) ELSE a
    IN  (IF yr > 1752 THEN b + 3 ELSE b) % 7

DaMon(y) ==
    LET mon == <<31, 29, 31, 30, 31, 30, 31, 31, 30, 31, 30, 31>>
    IN  CASE (jan1(y + 1) + 7 - jan1(y)) % 7 = 1 -> [mon EXCEPT ![2] = 28]
          [] (jan1(y + 1) + 7 - jan1(y)) % 7 = 2 -> mon
          [] OTHER -> [mon EXCEPT ![9] = 19]

(* The loop of cal over the days of month m: what is written, as triples of  *)
(* row, column and day.                                                      *)
RECURSIVE DaGrid(_, _, _, _, _)
DaGrid(i, last, row, d, grid) ==
    IF i > last THEN grid
    ELSE LET skip == i = 3 /\ last = 19
             day  == IF skip THEN i + 11 ELSE i
         IN  DaGrid(day + 1, IF skip THEN last + 11 ELSE last, IF d = 6 THEN row + 1 ELSE row, (d + 1) % 7,
                    grid \cup {<<row, d, day>>})
cal(m, y) ==
    LET mon == DaMon(y)
    IN  DaGrid(1, mon[m], 0, (jan1(y) + FoldLeft(+, 0, SubSeq(mon, 1, m - 1))) % 7, {})

RECURSIVE DaCalNumber(_, _)
DaCalNumber(s, n) ==
    IF s = <<>> THEN n
    ELSE IF s[1] < 48 \/ s[1] > 57 \/ n > 9999 THEN 0 ELSE DaCalNumber(Tail(s), 10 * n + s[1] - 48)

(* The months that cal prints for its arguments.                             *)
DaCalRun(args) ==
    LET n == [k \in DOMAIN args |-> DaCalNumber(args[k], 0)]
    IN  CASE Len(args) = 0 -> "usage"
          [] Len(args) = 1 -> IF n[1] \in 1..9999 THEN [m \in 1..12 |-> cal(m, n[1])] ELSE "bad"
          [] OTHER         -> IF n[1] \in 1..12 /\ n[2] \in 1..9999 THEN <<cal(n[1], n[2])>> ELSE "bad"

(* Every day of the month once, under its week day and in a row of its week, *)
(* in six rows; September 1752 goes from the 2nd, Julian, to the 14th.       *)
DaCalRef(m, y) ==
    LET gregorian(d) == <<y, m, d>> \in {<<1752, 9, k>> : k \in 14..30} \/ y > 1752 \/ (y = 1752 /\ m > 9)
        jd(d)  == DaJulianDay(y, m, d, gregorian(d))
        valid(d) == /\ y # 1752 \/ m # 9 \/ d \notin 3..13
                    /\ d <= 28 \/ m \in {1, 3, 5, 7, 8, 10, 12} \/ (d <= 30 /\ m # 2)
                       \/ (m = 2 /\ d = 29 /\ y % 4 = 0 /\ (y <= 1752 \/ y % 100 # 0 \/ y % 400 = 0))
    IN  {<<((jd(d) + 1) \div 7) - ((jd(1) + 1) \div 7), (jd(d) + 1) % 7, d>> : d \in {k \in 1..31 : valid(k)}}
DaCalRight(job) ==
    LET r == DaCalRun(job.args)
        v == [k \in DOMAIN job.args |-> FoldLeft(LAMBDA n, c : 10 * n + c - 48, 0, job.args[k])]
    IN  IF job.good
        THEN /\ r = IF Len(v) = 1 THEN [m \in 1..12 |-> DaCalRef(m, v[1])] ELSE <<DaCalRef(v[1], v[2])>>
             /\ \A k \in DOMAIN r : \A x \in r[k] : x[1] < 6
        ELSE r \in {"usage", "bad"}

DaRight(job) ==
    CASE job.prog = "clock" -> DaClockRight(job)
      [] job.prog = "date"  -> DaDateRight(job)
      [] job.prog = "cal"   -> DaCalRight(job)

==============================================================================
