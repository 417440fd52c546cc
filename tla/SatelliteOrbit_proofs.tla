----------------------- MODULE SatelliteOrbit_proofs -----------------------
(***************************************************************************)
(* The clock of the satellites and the animation, for every time zone,     *)
(* every frame length and every sequence of frames up to 2098, before jday *)
(* counts a day that JavaScript's Date does not have; where the calendars  *)
(* agree; and how a ring of any number of satellites is spread over its    *)
(* orbit.                                                                  *)
(***************************************************************************)
EXTENDS SatelliteOrbit, FiniteSetTheorems, TLAPS

-----------------------------------------------------------------------------
(* jday counts the days: the day after a date has the next number.          *)
ValidDate(d) ==
  /\ d \in Dates
  /\ 2018 <= d.year /\ d.year <= 2099
  /\ d.day <= Lengths(IsLeapYear(d.year))[d.mon]

LEMMA LastYearFacts == LastYear \in Int /\ 2018 <= LastYear /\ LastYear <= 2098
BY OrbitAssumption, SMT

LEMMA LeapYears ==
  ASSUME NEW y \in Int, 2018 <= y, y <= 2099
  PROVE  IsLeapYear(y) <=> y % 4 = 0
<1>1. y % 100 # 0
  BY SMT
<1> QED BY <1>1, SMT DEF IsLeapYear

(* Within a month, and from the end of one to the next.                     *)
LEMMA JdayWithinMonth ==
  ASSUME NEW y \in Int, NEW m \in 1 .. 12, NEW d \in Int
  PROVE  Jday(Date(y, m, d + 1)) = Jday(Date(y, m, d)) + 1
BY SMT DEF Jday, Date

LEMMA JdayOfDay ==
  ASSUME NEW y \in Int, NEW m \in 1 .. 12, NEW d \in Int
  PROVE  Jday(Date(y, m, d)) = Jday(Date(y, m, 1)) + d - 1
<1> DEFINE a == 367 * y
           b == (7 * (y + (m + 9) \div 12)) \div 4
           c == (275 * m) \div 9
<1>1. a \in Int /\ b \in Int /\ c \in Int
  BY SMT
<1>2. \A k : Jday(Date(y, m, k)) = a - b + c + k + 1721013
  BY DEF Jday, Date
<1> HIDE DEF a, b, c
<1>3. a - b + c + d + 1721013 = (a - b + c + 1 + 1721013) + d - 1
  BY <1>1, SMT
<1> QED BY <1>2, <1>3

LEMMA JdayNextMonth ==
  ASSUME NEW y \in Int, 2018 <= y, y <= 2099, NEW m \in 1 .. 11
  PROVE  Jday(Date(y, m + 1, 1)) = Jday(Date(y, m, Lengths(IsLeapYear(y))[m])) + 1
<1> DEFINE J(k, d) == Jday(Date(y, k, d))
           Late(k, d) == 367 * y - (7 * (y + 1)) \div 4 + (275 * k) \div 9 + d + 1721013
<1>0. ASSUME NEW k \in 3 .. 12, NEW d \in Int
      PROVE  J(k, d) = Late(k, d)
  <2>1. (k + 9) \div 12 = 1
    BY SMT
  <2> QED BY <2>1, SMT DEF Jday, Date
<1>1. \A d \in Int :
        /\ J(1, d) = 367 * y - (7 * y) \div 4 + 30 + d + 1721013
        /\ J(2, d) = 367 * y - (7 * y) \div 4 + 61 + d + 1721013
  <2>2. (1 + 9) \div 12 = 0 /\ (2 + 9) \div 12 = 0 /\ (275 * 1) \div 9 = 30 /\ (275 * 2) \div 9 = 61
    BY SMT
  <2>3. \A k \in 1 .. 12, d \in Int :
          J(k, d) = 367 * y - (7 * (y + (k + 9) \div 12)) \div 4 + (275 * k) \div 9 + d + 1721013
    BY SMT DEF Jday, Date
  <2> QED BY <2>2, <2>3, SMT
<1> HIDE DEF J, Late
<1>2. CASE m = 1
  BY <1>1, <1>2, SMT DEF J, Lengths
<1>3. CASE m = 2
  <2>1. (7 * (y + 1)) \div 4 = (7 * y) \div 4 + (IF y % 4 = 0 THEN 1 ELSE 2)
    BY SMT
  <2>2. (275 * 3) \div 9 = 91
    BY SMT
  <2>3. J(3, 1) = 367 * y - (7 * (y + 1)) \div 4 + 91 + 1 + 1721013
    BY <1>0, <2>2, SMT DEF Late
  <2> DEFINE len == IF y % 4 = 0 THEN 29 ELSE 28
  <2>4. Lengths(IsLeapYear(y))[2] = len
    BY LeapYears, SMT DEF Lengths
  <2>5. len \in Int /\ (7 * (y + 1)) \div 4 = (7 * y) \div 4 + 30 - len
    BY <2>1, SMT
  <2> HIDE DEF len
  <2>6. J(2, len) = 367 * y - (7 * y) \div 4 + 61 + len + 1721013
    BY <1>1, <2>5, SMT
  <2>7. (7 * y) \div 4 \in Int
    BY SMT
  <2>8. J(3, 1) = J(2, len) + 1
    BY <2>3, <2>5, <2>6, <2>7, SMT
  <2> QED BY <1>3, <2>4, <2>8, SMT DEF J
<1>4. CASE m \in 3 .. 11
  <2>1. \A l \in BOOLEAN :
          Lengths(l)[m] \in Int /\ (275 * (m + 1)) \div 9 + 1 = (275 * m) \div 9 + Lengths(l)[m] + 1
    BY <1>4, SMT DEF Lengths
  <2>2. IsLeapYear(y) \in BOOLEAN
    BY SMT DEF IsLeapYear
  <2> DEFINE len == Lengths(IsLeapYear(y))[m]
  <2>3. len \in Int /\ (275 * (m + 1)) \div 9 + 1 = (275 * m) \div 9 + len + 1
    BY <2>1, <2>2, SMT
  <2> HIDE DEF len
  <2>4. m \in 3 .. 12 /\ m + 1 \in 3 .. 12
    BY <1>4, SMT
  <2>5. J(m, len) = Late(m, len) /\ J(m + 1, 1) = Late(m + 1, 1)
    BY <1>0, <2>3, <2>4, SMT
  <2>6. (7 * (y + 1)) \div 4 \in Int /\ (275 * m) \div 9 \in Int /\ (275 * (m + 1)) \div 9 \in Int
    BY <1>4, SMT
  <2>7. Late(m + 1, 1) = Late(m, len) + 1
    BY <2>3, <2>6, SMT DEF Late
  <2> QED BY <2>5, <2>7, SMT DEF J, len
<1> QED BY <1>2, <1>3, <1>4, SMT

LEMMA JdayNextYear ==
  ASSUME NEW y \in Int
  PROVE  Jday(Date(y + 1, 1, 1)) = Jday(Date(y, 12, 31)) + 1
<1>1. (7 * (y + 1 + (1 + 9) \div 12)) \div 4 = (7 * (y + (12 + 9) \div 12)) \div 4
  BY SMT
<1>2. (275 * 1) \div 9 = 30 /\ (275 * 12) \div 9 = 366
  BY SMT
<1> QED BY <1>1, <1>2, SMT DEF Jday, Date

LEMMA JdayNextDay ==
  ASSUME NEW d, ValidDate(d), d.year <= 2098
  PROVE  ValidDate(NextDay(d)) /\ Jday(NextDay(d)) = Jday(d) + 1
<1> DEFINE len == Lengths(IsLeapYear(d.year))
<1>1. /\ d.year \in Int /\ 2018 <= d.year /\ d.year <= 2098 /\ d.mon \in 1 .. 12 /\ d.day \in 1 .. 31
      /\ d = Date(d.year, d.mon, d.day) /\ d.day <= len[d.mon]
  BY SMT DEF ValidDate, Dates, Date
<1>2. \A l \in BOOLEAN, m \in 1 .. 12 : Lengths(l)[m] \in 28 .. 31 /\ Lengths(l)[12] = 31
  BY SMT DEF Lengths
<1>3. IsLeapYear(d.year) \in BOOLEAN
  BY SMT DEF IsLeapYear
<1>4. len[d.mon] \in 28 .. 31 /\ len[12] = 31
  BY <1>1, <1>2, <1>3, SMT
<1>5. CASE d.day < len[d.mon]
  <2>1. NextDay(d) = Date(d.year, d.mon, d.day + 1)
    <3>1. [d EXCEPT !.day = d.day + 1] = Date(d.year, d.mon, d.day + 1)
      BY <1>1, SMT DEF ValidDate, Dates, Date
    <3>2. ~(d.day >= len[d.mon])
      BY <1>1, <1>4, <1>5, SMT
    <3> QED BY <1>5, <3>1, <3>2, SMT DEF NextDay
  <2>2. Jday(Date(d.year, d.mon, d.day + 1)) = Jday(Date(d.year, d.mon, d.day)) + 1
    <3> DEFINE y == d.year
               m == d.mon
               k == d.day
    <3>1. y \in Int /\ m \in 1 .. 12 /\ k \in Int
      BY <1>1, SMT
    <3> HIDE DEF y, m, k
    <3>2. Jday(Date(y, m, k + 1)) = Jday(Date(y, m, k)) + 1
      BY <3>1, JdayWithinMonth
    <3> QED BY <3>2 DEF y, m, k
  <2>3. ValidDate(Date(d.year, d.mon, d.day + 1))
    BY <1>1, <1>4, <1>5, SMT DEF ValidDate, Dates, Date
  <2> QED BY <1>1, <2>1, <2>2, <2>3, SMT
<1>6. CASE d.day >= len[d.mon] /\ d.mon < 12
  <2>1. NextDay(d) = Date(d.year, d.mon + 1, 1)
    BY <1>1, <1>4, <1>6, SMT DEF NextDay
  <2>2. d.day = len[d.mon] /\ d.mon \in 1 .. 11 /\ d.year \in Int /\ 2018 <= d.year /\ d.year <= 2099
    BY <1>1, <1>4, <1>6, SMT
  <2>3. Jday(Date(d.year, d.mon + 1, 1)) = Jday(Date(d.year, d.mon, len[d.mon])) + 1
    <3> DEFINE y == d.year
               m == d.mon
    <3>1. y \in Int /\ 2018 <= y /\ y <= 2099 /\ m \in 1 .. 11
      BY <2>2, SMT
    <3> HIDE DEF y, m
    <3>2. Jday(Date(y, m + 1, 1)) = Jday(Date(y, m, Lengths(IsLeapYear(y))[m])) + 1
      BY <3>1, JdayNextMonth
    <3> QED BY <3>2, SMT DEF y, m
  <2>4. ValidDate(Date(d.year, d.mon + 1, 1))
    <3>1. d.mon + 1 \in 1 .. 12
      BY <2>2, SMT
    <3>2. 1 <= Lengths(IsLeapYear(d.year))[d.mon + 1]
      BY <1>2, <1>3, <3>1, SMT
    <3> QED BY <2>2, <3>1, <3>2, SMT DEF ValidDate, Dates, Date
  <2>5. d = Date(d.year, d.mon, len[d.mon])
    BY <1>1, <2>2, SMT
  <2> QED BY <2>1, <2>3, <2>4, <2>5, SMT
<1>7. CASE d.day >= len[d.mon] /\ ~(d.mon < 12)
  <2>1. NextDay(d) = Date(d.year + 1, 1, 1)
    BY <1>1, <1>4, <1>7, SMT DEF NextDay
  <2>2. d.day = 31 /\ d.mon = 12
    BY <1>1, <1>4, <1>7, SMT
  <2>3. Jday(Date(d.year + 1, 1, 1)) = Jday(Date(d.year, 12, 31)) + 1
    BY <1>1, JdayNextYear, SMT
  <2>4. ValidDate(Date(d.year + 1, 1, 1))
    <3>1. IsLeapYear(d.year + 1) \in BOOLEAN
      BY SMT DEF IsLeapYear
    <3>2. 1 <= Lengths(IsLeapYear(d.year + 1))[1]
      BY <1>2, <3>1, SMT
    <3> QED BY <1>1, <3>2, SMT DEF ValidDate, Dates, Date
  <2>5. d = Date(d.year, 12, 31)
    BY <1>1, <2>2, SMT
  <2> QED BY <2>1, <2>3, <2>4, <2>5, SMT
<1> QED BY <1>1, <1>4, <1>5, <1>6, <1>7, SMT

LEMMA JdayIsInt == ASSUME NEW d, ValidDate(d) PROVE Jday(d) \in Int
BY SMT DEF ValidDate, Dates, Jday

-----------------------------------------------------------------------------
(* Local time and back.  A time that was made from a local time is not in   *)
(* the second round of the hour that comes twice.                           *)
D == DaySeconds

LEMMA DayFacts == D \in Int /\ D = 86400 /\ D > 0
BY SMT DEF D, DaySeconds

FirstRound(z, t) == \A x \in z.summers : t < x.to \/ x.to + z.saves <= t

LEMMA ZoneFacts ==
  ASSUME NEW z \in Zones
  PROVE  /\ z.offset \in Int /\ z.saves \in Nat /\ z.saves < D
         /\ -D < z.offset /\ z.offset + z.saves < D
         /\ IsFiniteSet(z.summers)
         /\ \A x \in z.summers : x.from \in Int /\ x.to \in Int /\ x.from + D <= x.to
         /\ \A x, y \in z.summers : x # y => x.to + D <= y.from \/ y.to + D <= x.from
BY ZoneAssumption DEF D

LEMMA UTCFacts ==
  ASSUME NEW z \in Zones, NEW local \in Int
  PROVE  LET u == UTC(z, local) IN
         /\ u \in Int /\ FirstRound(z, u)
         /\ \/ u = local - z.offset /\ ~ InSummer(z, u - z.saves)
            \/ u = local - z.offset - z.saves /\ InSummer(z, u)
<1> DEFINE u == UTC(z, local)
           a == local - z.offset
           b == a - z.saves
<1>1. a \in Int /\ b \in Int
  BY ZoneFacts
<1>2. u = IF InSummer(z, b) THEN b ELSE a
  BY DEF UTC
<1> HIDE DEF a, u
<1>3. CASE InSummer(z, b)
  <2>1. PICK x \in z.summers : x.from <= b /\ b < x.to
    BY <1>3 DEF InSummer
  <2>2. ASSUME NEW y \in z.summers PROVE b < y.to \/ y.to + z.saves <= b
    <3>1. CASE y = x
      BY <2>1, <3>1
    <3>2. CASE y # x
      <4>1. x.to + D <= y.from \/ y.to + D <= x.from
        BY <3>2, ZoneFacts
      <4>2. /\ x.from \in Int /\ x.to \in Int /\ y.from \in Int /\ y.to \in Int
            /\ y.from + D <= y.to /\ z.saves \in Int /\ z.saves < D
        BY ZoneFacts
      <4> HIDE DEF b
      <4> QED BY <1>1, <2>1, <4>1, <4>2, DayFacts
    <3> QED BY <3>1, <3>2
  <2>3. FirstRound(z, b)
    BY <2>2 DEF FirstRound
  <2> QED BY <1>1, <1>2, <1>3, <2>3 DEF a, u
<1>4. CASE ~ InSummer(z, b)
  <2>1. ASSUME NEW y \in z.summers PROVE a < y.to \/ y.to + z.saves <= a
    <3>1. ~ (y.from <= a - z.saves /\ a - z.saves < y.to)
      BY <1>4 DEF InSummer
    <3>2. y.from \in Int /\ y.to \in Int /\ y.from + D <= y.to /\ z.saves \in Int /\ z.saves < D
      BY ZoneFacts
    <3> QED BY <1>1, <3>1, <3>2, DayFacts
  <2>2. FirstRound(z, a)
    BY <2>1 DEF FirstRound
  <2> QED BY <1>1, <1>2, <1>4, <2>2 DEF a, u
<1> QED BY <1>3, <1>4 DEF u

LEMMA StartedFacts ==
  ASSUME NEW z \in Zones
  PROVE  UTC(z, 0) \in Int /\ -D < UTC(z, 0) /\ UTC(z, 0) < D /\ FirstRound(z, UTC(z, 0))
<1> DEFINE u == UTC(z, 0)
<1>1. u \in Int /\ FirstRound(z, u) /\ (u = 0 - z.offset \/ u = 0 - z.offset - z.saves)
  BY UTCFacts
<1>2. /\ z.offset \in Int /\ z.saves \in Nat
      /\ -D < z.offset /\ z.offset + z.saves < D
  BY ZoneFacts
<1> HIDE DEF u
<1>3. -D < u /\ u < D
  BY <1>1, <1>2, DayFacts
<1> QED BY <1>1, <1>3 DEF u

(* What whole seconds added to a local time add to the time: less by what   *)
(* summer saves where one begins, more where one ends.                      *)
EndsUnder(z, t, u) == {x \in z.summers : t < x.to /\ x.to <= u}
BeginsUnder(z, t, u) == {x \in z.summers : t < x.from /\ x.from <= u}

LEMMA LocalStep ==
  ASSUME NEW z \in Zones, NEW t \in Int, FirstRound(z, t),
         NEW q \in Int, 0 <= q, q <= D
  PROVE  LET u == UTC(z, LocalTime(z, t) + q) IN
         /\ u \in Int /\ t <= u /\ u < t + 2 * D /\ FirstRound(z, u)
         /\ \/ u = t + q /\ EndsUnder(z, t, u) = {}
            \/ u = t + q - z.saves /\ EndsUnder(z, t, u) = {} /\ BeginsUnder(z, t, u) # {}
            \/ u = t + q + z.saves /\ \E x : EndsUnder(z, t, u) = {x}
<1> DEFINE s == z.saves
           local == LocalTime(z, t) + q
           u == UTC(z, local)
<1>1. /\ z.offset \in Int /\ s \in Int /\ 0 <= s /\ s < D
      /\ \A x \in z.summers : x.from \in Int /\ x.to \in Int /\ x.from + D <= x.to
      /\ \A x, y \in z.summers : x # y => x.to + D <= y.from \/ y.to + D <= x.from
  BY ZoneFacts
<1>2. LocalTime(z, t) = t + z.offset + (IF InSummer(z, t) THEN s ELSE 0)
  BY DEF LocalTime
<1>3. local \in Int /\ local - z.offset = t + q + (IF InSummer(z, t) THEN s ELSE 0)
  BY <1>1, <1>2
<1> HIDE DEF local
<1>4. /\ u \in Int /\ FirstRound(z, u)
      /\ \/ u = local - z.offset /\ ~ InSummer(z, u - s)
         \/ u = local - z.offset - s /\ InSummer(z, u)
  BY <1>3, UTCFacts
<1> HIDE DEF u, s
<1>5. CASE ~ InSummer(z, t) /\ u = local - z.offset /\ ~ InSummer(z, u - s)
  <2>1. u = t + q
    BY <1>3, <1>5
  <2>2. ASSUME NEW x \in z.summers, t < x.to, x.to <= u PROVE FALSE
    <3>1. ~ (x.from <= t)
      BY <1>5, <2>2 DEF InSummer
    <3>2. x.from \in Int /\ x.to \in Int /\ x.from + D <= x.to
      BY <1>1
    <3> QED BY <2>1, <2>2, <3>1, <3>2, DayFacts
  <2>3. EndsUnder(z, t, u) = {}
    BY <2>2 DEF EndsUnder
  <2>4. t <= u /\ u < t + 2 * D
    BY <2>1, DayFacts
  <2> QED BY <1>4, <2>1, <2>3, <2>4 DEF u, local, s
<1>6. CASE ~ InSummer(z, t) /\ u = local - z.offset - s /\ InSummer(z, u)
  <2>1. u = t + q - s
    BY <1>1, <1>3, <1>6
  <2>2. PICK x \in z.summers : x.from <= u /\ u < x.to
    BY <1>6 DEF InSummer
  <2>3. x.from \in Int /\ x.to \in Int /\ x.from + D <= x.to
    BY <1>1
  <2>4. t < x.from
    <3>1. t < x.from \/ x.to <= t
      BY <1>6, <2>3 DEF InSummer
    <3>2. t < x.to \/ x.to + s <= t
      BY DEF FirstRound, s
    <3> QED BY <1>1, <2>1, <2>2, <2>3, <3>1, <3>2, DayFacts
  <2>5. ASSUME NEW y \in z.summers, t < y.to, y.to <= u PROVE FALSE
    <3>1. ~ (y.from <= t)
      BY <1>6, <2>5 DEF InSummer
    <3>2. y.from \in Int /\ y.to \in Int /\ y.from + D <= y.to
      BY <1>1
    <3> QED BY <1>1, <2>1, <2>5, <3>1, <3>2, DayFacts
  <2>6. EndsUnder(z, t, u) = {}
    BY <2>5 DEF EndsUnder
  <2>7. x \in BeginsUnder(z, t, u)
    BY <2>2, <2>4 DEF BeginsUnder
  <2>8. t <= u /\ u < t + 2 * D
    BY <1>1, <2>1, <2>2, <2>3, <2>4, DayFacts
  <2> QED BY <1>4, <2>1, <2>6, <2>7, <2>8 DEF u, local, s
<1>7. CASE InSummer(z, t) /\ u = local - z.offset /\ ~ InSummer(z, u - s)
  <2>1. u = t + q + s
    BY <1>1, <1>3, <1>7
  <2>2. PICK x \in z.summers : x.from <= t /\ t < x.to
    BY <1>7 DEF InSummer
  <2>3. x.from \in Int /\ x.to \in Int
    BY <1>1
  <2>4. x.to <= u
    <3>1. ~ (x.from <= u - s /\ u - s < x.to)
      BY <1>7 DEF InSummer
    <3> QED BY <1>1, <2>1, <2>2, <2>3, <3>1
  <2>5. ASSUME NEW y \in z.summers, t < y.to, y.to <= u, y # x PROVE FALSE
    <3>1. x.to + D <= y.from \/ y.to + D <= x.from
      BY <1>1, <2>5
    <3>2. y.from \in Int /\ y.to \in Int /\ y.from + D <= y.to
      BY <1>1
    <3> QED BY <1>1, <2>1, <2>2, <2>3, <2>5, <3>1, <3>2, DayFacts
  <2>6. EndsUnder(z, t, u) = {x}
    BY <2>2, <2>4, <2>5 DEF EndsUnder
  <2>7. t <= u /\ u < t + 2 * D
    BY <1>1, <2>1, DayFacts
  <2> QED BY <1>4, <2>1, <2>6, <2>7 DEF u, local, s
<1>8. CASE InSummer(z, t) /\ u = local - z.offset - s /\ InSummer(z, u)
  <2>1. u = t + q
    BY <1>1, <1>3, <1>8
  <2>2. PICK x \in z.summers : x.from <= t /\ t < x.to
    BY <1>8 DEF InSummer
  <2>3. PICK y \in z.summers : y.from <= u /\ u < y.to
    BY <1>8 DEF InSummer
  <2>4. /\ x.from \in Int /\ x.to \in Int /\ y.from \in Int /\ y.to \in Int
        /\ x.from + D <= x.to /\ y.from + D <= y.to
    BY <1>1
  <2>5. x = y
    <3>1. x # y => x.to + D <= y.from \/ y.to + D <= x.from
      BY <1>1
    <3> QED BY <2>1, <2>2, <2>3, <2>4, <3>1, DayFacts
  <2>6. ASSUME NEW w \in z.summers, t < w.to, w.to <= u PROVE FALSE
    <3>1. w # x
      <4>1. u \in Int /\ u < x.to
        BY <1>4, <2>3, <2>5
      <4>2. x.to \in Int /\ w.to <= u
        BY <2>4, <2>6
      <4> HIDE DEF u
      <4> QED BY <4>1, <4>2
    <3>2. x.to + D <= w.from \/ w.to + D <= x.from
      BY <1>1, <3>1
    <3>3. w.from \in Int /\ w.to \in Int /\ w.from + D <= w.to
      BY <1>1
    <3> QED BY <1>4, <2>2, <2>3, <2>4, <2>5, <2>6, <3>2, <3>3, DayFacts
  <2>7. EndsUnder(z, t, u) = {}
    BY <2>6 DEF EndsUnder
  <2>8. t <= u /\ u < t + 2 * D
    BY <2>1, DayFacts
  <2> QED BY <1>4, <2>1, <2>7, <2>8 DEF u, local, s
<1>9. InSummer(z, t) \/ ~ InSummer(z, t)
  OBVIOUS
<1> QED BY <1>4, <1>5, <1>6, <1>7, <1>8, <1>9

-----------------------------------------------------------------------------
(* The clock.                                                               *)
Within(n, k) == n \in Int /\ 0 <= n /\ n < k

ClockInv ==
  /\ zone \in Zones
  /\ time \in Int /\ Started <= time /\ FirstRound(zone, time)
  /\ ValidDate(date) /\ Jday(date) - Jday(Start) = time \div D
  /\ sec = time % D
  /\ ran.days \in Int /\ Within(ran.ms, DayMillis)
  /\ parts \in Nat
  /\ ClockFollowsAnimation

LEMMA Thousand ==
  ASSUME NEW n \in Int
  PROVE  n \div 1000 \in Int /\ Within(n % 1000, 1000) /\ n = 1000 * (n \div 1000) + (n % 1000)
BY SMT DEF Within

LEMMA Day ==
  ASSUME NEW n \in Int
  PROVE  n \div D \in Int /\ Within(n % D, D) /\ n = D * (n \div D) + (n % D)
BY SMT DEF Within, D, DaySeconds

LEMMA Millis ==
  ASSUME NEW n \in Int
  PROVE  /\ n \div DayMillis \in Int /\ Within(n % DayMillis, DayMillis)
         /\ n = DayMillis * (n \div DayMillis) + (n % DayMillis)
BY SMT DEF Within, DayMillis

(* A frame carries whole seconds to the clock and milliseconds to the       *)
(* animation; between them they lose less than one second.                  *)
LEMMA FrameCarries ==
  ASSUME NEW delta \in Int, 0 < delta, delta <= DayMillis,
         NEW ms, Within(ms, DayMillis)
  PROVE  /\ delta \div 1000 \in Int /\ 0 <= delta \div 1000 /\ delta \div 1000 <= D
         /\ (ms + delta) \div DayMillis \in Int /\ Within((ms + delta) % DayMillis, DayMillis)
         /\ \E lost \in {0, 1} :
              /\ ((ms + delta) % DayMillis) \div 1000 =
                   ms \div 1000 + delta \div 1000 + lost - 86400 * ((ms + delta) \div DayMillis)
              /\ delta = DayMillis => lost = 0
<1> DEFINE q == delta \div 1000  dr == delta % 1000
           m == ms \div 1000     mr == ms % 1000
           e == (ms + delta) \div DayMillis  n == (ms + delta) % DayMillis
           k == n \div 1000  kr == n % 1000
           lost == k - m - q + 86400 * e
<1>1. ms \in Int /\ 0 <= ms /\ ms < DayMillis /\ DayMillis \in Int
  BY SMT DEF Within, DayMillis
<1>2. q \in Int /\ dr \in Int /\ 0 <= dr /\ dr < 1000 /\ delta = 1000 * q + dr
  BY Thousand, SMT DEF Within
<1>3. m \in Int /\ mr \in Int /\ 0 <= mr /\ mr < 1000 /\ ms = 1000 * m + mr
  BY <1>1, Thousand, SMT DEF Within
<1>4. e \in Int /\ n \in Int /\ 0 <= n /\ n < DayMillis /\ ms + delta = DayMillis * e + n
  <2>1. ms + delta \in Int
    BY <1>1, SMT
  <2> QED BY <2>1, Millis, SMT DEF Within
<1>5. k \in Int /\ kr \in Int /\ 0 <= kr /\ kr < 1000 /\ n = 1000 * k + kr
  BY <1>4, Thousand, SMT DEF Within
<1> HIDE DEF q, dr, m, mr, e, n, k, kr
<1>6. 0 <= q /\ q <= D
  BY <1>2, DayFacts, SMT DEF DayMillis
<1>7. lost \in {0, 1}
  BY <1>2, <1>3, <1>4, <1>5, SMT DEF DayMillis
<1>8. delta = DayMillis => lost = 0
  BY <1>2, <1>3, <1>4, <1>5, SMT DEF DayMillis
<1>9. k = m + q + lost - 86400 * e
  BY <1>2, <1>3, <1>4, <1>5, SMT
<1> HIDE DEF lost
<1> QED BY <1>2, <1>4, <1>6, <1>7, <1>8, <1>9, SMT DEF q, m, e, n, k, Within

LEMMA StartFacts == ValidDate(Start) /\ ValidDate(Date(2018, 1, 31)) /\ Jday(Start) = Jday(Date(2018, 1, 31)) + 1
<1>1. IsLeapYear(2018) \in BOOLEAN
  BY SMT DEF IsLeapYear
<1>2. 1 <= Lengths(IsLeapYear(2018))[2] /\ 31 <= Lengths(IsLeapYear(2018))[1]
  BY <1>1, SMT DEF Lengths
<1>3. ValidDate(Start) /\ ValidDate(Date(2018, 1, 31))
  BY <1>2, SMT DEF ValidDate, Dates, Start, Date
<1>4. Jday(Date(2018, 2, 1)) = Jday(Date(2018, 1, 31)) + 1
  BY SMT DEF Jday, Date
<1> QED BY <1>3, <1>4 DEF Start

LEMMA Recombined ==
  ASSUME NEW t \in Int
  PROVE  (t \div D) * D + (t % D) = t
BY Day, DayFacts DEF Within

LEMMA Multiples ==
  ASSUME NEW s \in Nat, NEW a \in Nat, NEW b \in Nat
  PROVE  /\ s * a \in Nat
         /\ b = a + 1 => s * b = s * a + s
         /\ a <= b => s * a <= s * b
<1>1. s * a \in Nat /\ s * b \in Nat
  OBVIOUS
<1>2. b = a + 1 => s * b = s * a + s
  OBVIOUS
<1>3. ASSUME a <= b PROVE s * a <= s * b
  <2>1. s * (b - a) >= 0
    BY <1>3, SMT
  <2> QED BY <2>1, SMT
<1> QED BY <1>1, <1>2, <1>3

LEMMA ClockInit == Init => ClockInv
<1> SUFFICES ASSUME Init PROVE ClockInv
  OBVIOUS
<1>1. /\ zone \in Zones /\ time = Started /\ parts = 0 /\ ran.days = 0 /\ ran.ms = 0
      /\ date = (IF time < 0 THEN Date(2018, 1, 31) ELSE Start) /\ sec = time % D
  BY DEF Init, D
<1>2. time \in Int /\ -D < time /\ time < D /\ FirstRound(zone, time)
  BY <1>1, StartedFacts DEF Started
<1>3. time \div D = IF time < 0 THEN -1 ELSE 0
  BY <1>2, SMT DEF D, DaySeconds
<1>4. Jday(Start) \in Int /\ Jday(Date(2018, 1, 31)) \in Int
  BY StartFacts, JdayIsInt
<1>5. ValidDate(date) /\ Jday(date) - Jday(Start) = time \div D
  <2>1. CASE time < 0
    <3>1. date = Date(2018, 1, 31) /\ time \div D = -1
      BY <1>1, <1>3, <2>1
    <3>2. Jday(date) - Jday(Start) = -1
      BY <1>4, <3>1, StartFacts
    <3> QED BY <3>1, <3>2, StartFacts
  <2>2. CASE ~ (time < 0)
    <3>1. date = Start /\ time \div D = 0
      BY <1>1, <1>3, <2>2
    <3> QED BY <1>4, <3>1, StartFacts
  <2> QED BY <2>1, <2>2
<1>6. Clock = time
  BY <1>1, <1>2, <1>5, Recombined DEF Clock, D
<1>7. Begun = {} /\ Ended = {}
  <2>1. \A x \in zone.summers : x.from \in Int /\ x.to \in Int
    BY <1>1, ZoneFacts
  <2> QED BY <1>1, <1>2, <2>1 DEF Begun, Ended
<1>8. Cardinality(Begun) = 0 /\ Cardinality(Ended) = 0
  BY <1>7, FS_EmptySet
<1>9. ran.days * D + ran.ms \div 1000 = 0
  BY <1>1, DayFacts, SMT
<1>10. zone.saves * 0 = 0 /\ zone.saves \in Nat
  BY <1>1, ZoneFacts
<1>11. ClockFollowsAnimation
  BY <1>1, <1>2, <1>6, <1>8, <1>9, <1>10 DEF ClockFollowsAnimation, D
<1>12. Within(ran.ms, DayMillis)
  BY <1>1, SMT DEF Within, DayMillis
<1> QED BY <1>1, <1>2, <1>5, <1>11, <1>12 DEF ClockInv

(* The calendar keeps up with the time.                                     *)
LEMMA DateFollows ==
  ASSUME ClockInv, date.year < LastYear, NEW t \in Int, time <= t, t < time + 2 * D, SetTime(t)
  PROVE  /\ time' = t /\ sec' = t % D
         /\ ValidDate(date') /\ Jday(date') - Jday(Start) = t \div D
<1> DEFINE days == t \div D - time \div D
<1>1. time \in Int /\ ValidDate(date) /\ Jday(date) - Jday(Start) = time \div D
  BY DEF ClockInv
<1>2. time' = t /\ sec' = t % D
  BY DEF SetTime, D
<1>3. date' = CASE days = 1 -> NextDay(date) [] days = 2 -> NextDay(NextDay(date)) [] OTHER -> date
  BY DEF SetTime, D
<1>4. t \div D \in Int /\ time \div D \in Int
  BY <1>1, Day
<1>5. days \in {0, 1, 2}
  <2> DEFINE a == time \div D  b == t \div D  ar == time % D  br == t % D
  <2>1. a \in Int /\ ar \in Int /\ 0 <= ar /\ ar < 86400 /\ time = 86400 * a + ar
    BY <1>1, Day, DayFacts DEF Within
  <2>2. b \in Int /\ br \in Int /\ 0 <= br /\ br < 86400 /\ t = 86400 * b + br
    BY Day, DayFacts DEF Within
  <2> HIDE DEF a, b, ar, br
  <2>3. time <= t /\ t < time + 172800
    BY DayFacts
  <2>4. b - a \in {0, 1, 2}
    BY <2>1, <2>2, <2>3, SMT
  <2> QED BY <2>4 DEF a, b
<1>6. date.year \in Int /\ date.year <= 2097
  BY <1>1, LastYearFacts, SMT DEF ValidDate, Dates
<1>7. ValidDate(NextDay(date)) /\ Jday(NextDay(date)) = Jday(date) + 1
  BY <1>1, <1>6, JdayNextDay, SMT
<1>8. NextDay(date).year <= 2098
  <2>1. NextDay(date).year \in {date.year, date.year + 1}
    BY <1>1, SMT DEF NextDay, Date, ValidDate, Dates
  <2> QED BY <1>6, <2>1, SMT
<1> DEFINE d == NextDay(date)
<1>9. ValidDate(NextDay(d)) /\ Jday(NextDay(d)) = Jday(d) + 1
  <2> HIDE DEF d
  <2> QED BY <1>7, <1>8, JdayNextDay DEF d
<1>10. Jday(date) \in Int /\ Jday(Start) \in Int
  BY <1>1, StartFacts, JdayIsInt
<1>11. ValidDate(date') /\ Jday(date') = Jday(date) + days
  <2>1. CASE days = 0
    BY <1>1, <1>3, <1>10, <2>1
  <2>2. CASE days = 1
    BY <1>3, <1>7, <2>2
  <2>3. CASE days = 2
    BY <1>3, <1>7, <1>9, <1>10, <2>3
  <2> HIDE DEF days
  <2> QED BY <1>5, <2>1, <2>2, <2>3
<1>12. Jday(date') - Jday(Start) = t \div D
  BY <1>1, <1>4, <1>10, <1>11
<1> QED BY <1>2, <1>11, <1>12

(* The summers that end and begin under a frame are counted.                *)
LEMMA SummersCounted ==
  ASSUME ClockInv, NEW u \in Int, time <= u, time' = u, zone' = zone
  PROVE  /\ Cardinality(Ended) \in Nat /\ Cardinality(Ended') \in Nat
         /\ Cardinality(Begun) \in Nat /\ Cardinality(Begun') \in Nat
         /\ EndsUnder(zone, time, u) = {} => Cardinality(Ended') = Cardinality(Ended)
         /\ (\E x : EndsUnder(zone, time, u) = {x}) => Cardinality(Ended') = Cardinality(Ended) + 1
         /\ Cardinality(Begun) <= Cardinality(Begun')
         /\ BeginsUnder(zone, time, u) # {} => Cardinality(Begun) + 1 <= Cardinality(Begun')
<1>1. zone \in Zones /\ time \in Int /\ Started \in Int /\ Started <= time
  BY StartedFacts DEF ClockInv, Started
<1>2. /\ IsFiniteSet(zone.summers)
      /\ \A x \in zone.summers : x.from \in Int /\ x.to \in Int
  BY <1>1, ZoneFacts
<1>3. Started' = Started
  BY DEF Started, UTC, InSummer
<1>4. /\ Ended' = {x \in zone.summers : Started < x.to /\ x.to <= u}
      /\ Begun' = {x \in zone.summers : Started < x.from /\ x.from <= u}
  BY <1>3 DEF Ended, Begun
<1>5. Ended' = Ended \cup EndsUnder(zone, time, u)
  BY <1>1, <1>2, <1>4 DEF Ended, EndsUnder
<1>6. \A x \in EndsUnder(zone, time, u) : x \notin Ended
  BY <1>1, <1>2 DEF Ended, EndsUnder
<1>7. Begun \subseteq Begun' /\ \A x \in BeginsUnder(zone, time, u) : x \in Begun' /\ x \notin Begun
  BY <1>1, <1>2, <1>4 DEF Begun, BeginsUnder
<1>8. Ended \in SUBSET zone.summers /\ Begun' \in SUBSET zone.summers
  BY <1>4 DEF Ended
<1>9. IsFiniteSet(Ended) /\ IsFiniteSet(Begun') /\ IsFiniteSet(Begun)
  <2>1. IsFiniteSet(Ended) /\ IsFiniteSet(Begun')
    BY <1>2, <1>8, FS_Subset
  <2> QED BY <1>7, <2>1, FS_Subset
<1>10. Cardinality(Begun) \in Nat /\ Cardinality(Begun') \in Nat /\ Cardinality(Ended) \in Nat
  BY <1>9, FS_CardinalityType
<1>11. EndsUnder(zone, time, u) = {} => Cardinality(Ended') = Cardinality(Ended)
  BY <1>5
<1>12. ASSUME NEW x, EndsUnder(zone, time, u) = {x} PROVE Cardinality(Ended') = Cardinality(Ended) + 1
  <2>1. Ended' = Ended \cup {x} /\ x \notin Ended
    BY <1>5, <1>6, <1>12
  <2> QED BY <1>9, <2>1, FS_AddElement
<1>13. Cardinality(Begun) <= Cardinality(Begun')
  BY <1>7, <1>9, FS_Subset
<1>14. ASSUME BeginsUnder(zone, time, u) # {} PROVE Cardinality(Begun) + 1 <= Cardinality(Begun')
  <2>1. PICK x : x \in Begun' /\ x \notin Begun
    BY <1>7, <1>14
  <2>2. Begun \cup {x} \in SUBSET Begun'
    BY <1>7, <2>1
  <2>3. Cardinality(Begun \cup {x}) = Cardinality(Begun) + 1
    BY <1>9, <2>1, FS_AddElement
  <2> QED BY <1>9, <2>2, <2>3, FS_Subset
<1>15. Cardinality(Ended') \in Nat
  <2>1. Ended' \in SUBSET zone.summers
    BY <1>4
  <2> QED BY <1>2, <2>1, FS_Subset, FS_CardinalityType
<1> QED BY <1>10, <1>11, <1>12, <1>13, <1>14, <1>15

(* What a frame does to the difference between animation and clock.         *)
LEMMA OwedKept ==
  ASSUME NEW s \in Nat, NEW e1 \in Nat, NEW e2 \in Nat, NEW b1 \in Nat, NEW b2 \in Nat,
         NEW p1 \in Nat, NEW p2 \in Nat, NEW lost \in {0, 1}, NEW behind \in Int, NEW after \in Int,
         p2 = p1 + 1 \/ (p2 = p1 /\ lost = 0), b1 <= b2,
         0 <= behind + s * e1, behind + s * e1 <= p1 + s * b1,
         \/ e2 = e1 /\ after = behind + lost
         \/ e2 = e1 /\ after = behind + lost + s /\ b1 + 1 <= b2
         \/ e2 = e1 + 1 /\ after = behind + lost - s
  PROVE  0 <= after + s * e2 /\ after + s * e2 <= p2 + s * b2
<1>1. s * e1 \in Nat /\ s * b1 \in Nat /\ s * b2 \in Nat /\ s * b1 <= s * b2
  BY Multiples
<1>2. e2 = e1 + 1 => s * e2 = s * e1 + s
  BY Multiples
<1>3. b1 + 1 <= b2 => s * b1 + s <= s * b2
  <2> DEFINE c == b1 + 1
  <2>1. c \in Nat /\ s * c = s * b1 + s
    BY Multiples
  <2> HIDE DEF c
  <2>2. c <= b2 => s * c <= s * b2
    BY <2>1, Multiples
  <2> QED BY <2>1, <2>2 DEF c
<1> DEFINE x == s * e1  y == s * b1  z == s * b2  w == s * e2
<1>4. /\ x \in Nat /\ y \in Nat /\ z \in Nat /\ y <= z
      /\ 0 <= behind + x /\ behind + x <= p1 + y
      /\ \/ w = x /\ after = behind + lost
         \/ w = x /\ after = behind + lost + s /\ y + s <= z
         \/ w = x + s /\ after = behind + lost - s
  BY <1>1, <1>2, <1>3
<1> HIDE DEF x, y, z, w
<1>5. 0 <= after + w /\ after + w <= p2 + z
  BY <1>4, SMT
<1> QED BY <1>5 DEF w, z

LEMMA ClockStep ==
  ASSUME ClockInv, NEW delta \in Deltas, Propagate(delta)
  PROVE  ClockInv' /\ Clock' >= Clock
<1> DEFINE q == delta \div 1000
           e == (ran.ms + delta) \div DayMillis
           u == UTC(zone, LocalTime(zone, time) + q)
           m == ran.ms \div 1000
           n == ((ran.ms + delta) % DayMillis) \div 1000
<1>1. delta \in Int /\ 0 < delta /\ delta <= DayMillis
  <2>1. DayMillis \in Int
    BY SMT DEF DayMillis
  <2>2. delta \in 1 .. DayMillis
    BY OrbitAssumption, SMT
  <2> QED BY <2>1, <2>2, SMT
<1>2. /\ zone \in Zones /\ time \in Int /\ Started <= time /\ FirstRound(zone, time)
      /\ Jday(date) - Jday(Start) = time \div D /\ sec = time % D
      /\ ran.days \in Int /\ Within(ran.ms, DayMillis) /\ ran.ms \in Int /\ parts \in Nat
  BY DEF ClockInv, Within
<1>3. /\ q \in Int /\ 0 <= q /\ q <= D
      /\ e \in Int /\ Within((ran.ms + delta) % DayMillis, DayMillis)
  BY <1>1, <1>2, FrameCarries
<1>4. PICK lost \in {0, 1} :
        /\ n = m + q + lost - 86400 * e
        /\ delta = DayMillis => lost = 0
  BY <1>1, <1>2, FrameCarries
<1>5. /\ u \in Int /\ time <= u /\ u < time + 2 * D /\ FirstRound(zone, u)
      /\ \/ u = time + q /\ EndsUnder(zone, time, u) = {}
         \/ u = time + q - zone.saves /\ EndsUnder(zone, time, u) = {} /\ BeginsUnder(zone, time, u) # {}
         \/ u = time + q + zone.saves /\ \E x : EndsUnder(zone, time, u) = {x}
  <2> HIDE DEF q
  <2> QED BY <1>2, <1>3, LocalStep, ZenonT(30)
<1>6. /\ date.year < LastYear /\ SetTime(u) /\ zone' = zone
      /\ ran'.days = ran.days + e /\ ran'.ms = (ran.ms + delta) % DayMillis
      /\ parts' = IF delta < DayMillis THEN parts + 1 ELSE parts
  BY DEF Propagate, SetSeconds
<1> HIDE DEF q, e, u
<1>7. /\ time' = u /\ sec' = u % D
      /\ ValidDate(date') /\ Jday(date') - Jday(Start) = u \div D
  BY <1>5, <1>6, DateFollows
<1>8. Clock = time /\ Clock' = u
  <2>1. /\ Clock = (Jday(date) - Jday(Start)) * D + sec
        /\ Clock' = (Jday(date') - Jday(Start)) * D + sec'
    BY DEF Clock, D
  <2> QED BY <1>2, <1>5, <1>7, <2>1, Recombined
<1>9. Started' = Started /\ Started \in Int
  <2>1. Started' = Started
    BY <1>6 DEF Started, UTC, InSummer
  <2> QED BY <1>2, <2>1, StartedFacts DEF Started
<1> DEFINE e1 == Cardinality(Ended)  e2 == Cardinality(Ended)'
           b1 == Cardinality(Begun)  b2 == Cardinality(Begun)'
           s == zone.saves
<1>10. /\ e1 \in Nat /\ e2 \in Nat /\ b1 \in Nat /\ b2 \in Nat /\ b1 <= b2 /\ s \in Nat
       /\ EndsUnder(zone, time, u) = {} => e2 = e1
       /\ (\E x : EndsUnder(zone, time, u) = {x}) => e2 = e1 + 1
       /\ BeginsUnder(zone, time, u) # {} => b1 + 1 <= b2
  BY <1>2, <1>5, <1>6, <1>7, SummersCounted, ZoneFacts
<1> DEFINE behind == (ran.days * D + m) - (time - Started)
           after == (ran'.days * D + n) - (u - Started)
<1>11. /\ ClockFollowsAnimation <=> 0 <= behind + s * e1 /\ behind + s * e1 <= parts + s * b1
       /\ ClockFollowsAnimation' <=> 0 <= after + s * e2 /\ after + s * e2 <= parts' + s * b2
  <2>1. ran'.ms \div 1000 = n
    BY <1>6
  <2> QED BY <1>6, <1>8, <1>9, <2>1 DEF ClockFollowsAnimation, D
<1>12. m \in Int /\ n \in Int
  BY <1>2, <1>3, Thousand DEF Within
<1> HIDE DEF m, n, e1, e2, b1, b2, s
<1>13. behind \in Int /\ after \in Int /\ after = behind + q + lost - (u - time)
  <2>1. ran'.days * D + n = (ran.days * D + m) + q + lost
    BY <1>2, <1>3, <1>4, <1>6, <1>12, DayFacts
  <2> DEFINE a == ran.days * D + m
             b == ran'.days * D + n
  <2>2. a \in Int /\ b = a + q + lost
    BY <1>2, <1>12, <2>1, DayFacts
  <2>3. behind = a - (time - Started) /\ after = b - (u - Started)
    OBVIOUS
  <2> HIDE DEF a, b, behind, after
  <2> QED BY <1>2, <1>3, <1>5, <1>9, <2>2, <2>3
<1> HIDE DEF behind, after
<1>14. /\ parts' \in Nat
       /\ parts' = parts + 1 \/ (parts' = parts /\ lost = 0)
  <2>1. DayMillis \in Int
    BY SMT DEF DayMillis
  <2> QED BY <1>1, <1>2, <1>4, <1>6, <2>1
<1>15. \/ e2 = e1 /\ after = behind + lost
       \/ e2 = e1 /\ after = behind + lost + s /\ b1 + 1 <= b2
       \/ e2 = e1 + 1 /\ after = behind + lost - s
  <2>1. CASE u = time + q /\ EndsUnder(zone, time, u) = {}
    BY <1>2, <1>3, <1>10, <1>13, <2>1
  <2>2. CASE u = time + q - zone.saves /\ EndsUnder(zone, time, u) = {} /\ BeginsUnder(zone, time, u) # {}
    BY <1>2, <1>3, <1>10, <1>13, <2>2 DEF s
  <2>3. CASE u = time + q + zone.saves /\ \E x : EndsUnder(zone, time, u) = {x}
    <3>1. e2 = e1 + 1
      BY <1>10, <2>3
    <3>2. u = time + q + s
      BY <2>3 DEF s
    <3> QED BY <1>2, <1>3, <1>10, <1>13, <3>1, <3>2
  <2> QED BY <1>5, <2>1, <2>2, <2>3
<1>16. 0 <= behind + s * e1 /\ behind + s * e1 <= parts + s * b1
  BY <1>11 DEF ClockInv
<1>17. 0 <= after + s * e2 /\ after + s * e2 <= parts' + s * b2
  <2>1. parts \in Nat
    BY <1>2
  <2> DEFINE p == parts
             r == parts'
  <2>2. /\ p \in Nat /\ r \in Nat /\ (r = p + 1 \/ (r = p /\ lost = 0))
        /\ behind + s * e1 <= p + s * b1
    BY <1>14, <1>16, <2>1
  <2> HIDE DEF p, r
  <2>3. 0 <= after + s * e2 /\ after + s * e2 <= r + s * b2
    BY <1>10, <1>13, <1>15, <1>16, <2>2, OwedKept
  <2> QED BY <2>3 DEF r
<1>18. ClockFollowsAnimation'
  BY <1>11, <1>17
<1>19. ran'.days \in Int /\ Within(ran'.ms, DayMillis)
  BY <1>2, <1>3, <1>6
<1>20. Clock' >= Clock
  BY <1>2, <1>5, <1>8
<1>21. Started <= u
  BY <1>2, <1>5, <1>9
<1> QED
  <2>1. ClockInv' <=>
          /\ zone' \in Zones
          /\ time' \in Int /\ Started' <= time' /\ FirstRound(zone', time')
          /\ ValidDate(date') /\ Jday(date') - Jday(Start) = time' \div D
          /\ sec' = time' % D
          /\ ran'.days \in Int /\ Within(ran'.ms, DayMillis)
          /\ parts' \in Nat
          /\ ClockFollowsAnimation'
    BY DEF ClockInv, ValidDate
  <2> QED BY <1>2, <1>5, <1>6, <1>7, <1>9, <1>14, <1>18, <1>19, <1>20, <1>21, <2>1

LEMMA ClockStutter ==
  ASSUME UNCHANGED vars
  PROVE  (ClockInv => ClockInv') /\ Clock' = Clock
BY DEF vars, ClockInv, ClockFollowsAnimation, Clock, Begun, Ended, Started, UTC, InSummer,
       FirstRound, ValidDate, Within

LEMMA ClockNext == ClockInv /\ [Next]_vars => ClockInv'
BY ClockStep, ClockStutter DEF Next

(* Whatever the time zone and the frames, until 2098 the satellites' clock  *)
(* is the time the animation has run for, less under a second for each      *)
(* frame that was shorter than a day, and but for the hours that setSeconds *)
(* gains and loses where the clocks of the zone change (setSeconds, and     *)
(* jday across the ends of months and years).                               *)
THEOREM ClockIsFaithful == Spec => []ClockFollowsAnimation
<1>1. ClockInv => ClockFollowsAnimation
  BY DEF ClockInv
<1> QED BY <1>1, ClockInit, ClockNext, PTL DEF Spec

(* No frame turns the clock of the satellites back (setSeconds in local     *)
(* time, of which jday reads the UTC fields).                               *)
THEOREM NoTurningBack == Spec => ClockNeverTurnsBack
<1> DEFINE A == Clock' >= Clock
<1>1. ClockInv /\ [Next]_vars => [A]_vars
  BY ClockStep DEF Next
<1>2. ClockNeverTurnsBack <=> [][A]_vars
  BY DEF ClockNeverTurnsBack
<1> QED
  <2> HIDE DEF A
  <2> QED BY <1>1, <1>2, ClockInit, ClockNext, PTL DEF Spec

-----------------------------------------------------------------------------
(* The calendars.  The months as days2mdhms counts them.                    *)
Starts(leap) ==
  <<0, 31, IF leap THEN 60 ELSE 59, IF leap THEN 91 ELSE 90, IF leap THEN 121 ELSE 120,
    IF leap THEN 152 ELSE 151, IF leap THEN 182 ELSE 181, IF leap THEN 213 ELSE 212,
    IF leap THEN 244 ELSE 243, IF leap THEN 274 ELSE 273, IF leap THEN 305 ELSE 304,
    IF leap THEN 335 ELSE 334>>

LEMMA BeforeIsStart ==
  ASSUME NEW year \in Int, NEW mon \in 1 .. 12
  PROVE  Before(year, mon) = Starts(year % 4 = 0)[mon]
<1> DEFINE leap == year % 4 = 0
           len == Lengths(leap)
           Def(f) == [i \in 1 .. 12 |-> IF i = 1 THEN 0 ELSE f[i - 1] + len[i - 1]]
           sum == CHOOSE f : f = Def(f)
           start == [i \in 1 .. 12 |-> Starts(leap)[i]]
<1>1. start = Def(start)
  <2>1. \A l \in BOOLEAN, i \in 1 .. 12 :
          Starts(l)[i] = IF i = 1 THEN 0 ELSE Starts(l)[i - 1] + Lengths(l)[i - 1]
    BY SMT DEF Starts, Lengths
  <2>2. leap \in BOOLEAN
    BY SMT
  <2> HIDE DEF leap
  <2> QED BY <2>1, <2>2, SMT
<1>2. sum = Def(sum)
  <2> HIDE DEF Def, start
  <2> QED BY <1>1
<1>3. sum[mon] = start[mon]
  <2> HIDE DEF sum
  <2> DEFINE Same(i) == sum[i] = start[i]
  <2>1. sum[1] = start[1]
    BY <1>1, <1>2, SMT
  <2>2. ASSUME NEW i \in 2 .. 12, Same(i - 1) PROVE Same(i)
    BY <1>1, <1>2, <2>2, SMT
  <2> HIDE DEF Same
  <2>3. Same(1)
    BY <2>1 DEF Same
  <2>4. Same(2) /\ Same(3) /\ Same(4) /\ Same(5)
    BY <2>2, <2>3, SMT
  <2>5. Same(6) /\ Same(7) /\ Same(8) /\ Same(9)
    BY <2>2, <2>4, SMT
  <2>6. Same(10) /\ Same(11) /\ Same(12)
    BY <2>2, <2>5, SMT
  <2> QED BY <2>3, <2>4, <2>5, <2>6, SMT DEF Same
<1> QED BY <1>3 DEF Before, Lmonth

MonthEnd(leap, mon) == Starts(leap)[mon] + Lengths(leap)[mon]

(* The month that days2mdhms stops at. *)
IsMonthOf(leap, mon, dayofyr) ==
  /\ mon = 12 \/ dayofyr <= MonthEnd(leap, mon)
  /\ \A j \in 1 .. mon - 1 : dayofyr > MonthEnd(leap, j)

LEMMA MonthEndIsInt ==
  ASSUME NEW leap \in BOOLEAN, NEW mon \in 1 .. 12
  PROVE  MonthEnd(leap, mon) \in Int /\ Starts(leap)[mon] \in Int
BY SMT DEF MonthEnd, Starts, Lengths

LEMMA Days2mdhmsIs ==
  ASSUME NEW year \in Int, NEW dayofyr \in Int, NEW mon \in 1 .. 12,
         IsMonthOf(year % 4 = 0, mon, dayofyr)
  PROVE  Days2mdhms(year, dayofyr) = Date(year, mon, dayofyr - Starts(year % 4 = 0)[mon])
<1> DEFINE leap == year % 4 = 0
           Ends(i) == Before(year, i) + Lmonth(year)[i]
           Stops(m) == /\ m = 12 \/ dayofyr <= Ends(m)
                       /\ \A j \in 1 .. m - 1 : dayofyr > Ends(j)
           stop == CHOOSE m \in 1 .. 12 : Stops(m)
<1>1. \A i \in 1 .. 12 : Ends(i) = MonthEnd(leap, i)
  BY BeforeIsStart DEF MonthEnd, Lmonth
<1>2. \A m \in 1 .. 12 : Stops(m) <=> IsMonthOf(leap, m, dayofyr)
  <2>1. \A m \in 1 .. 12 : \A j \in 1 .. m - 1 : j \in 1 .. 12
    BY SMT
  <2> QED BY <1>1, <2>1 DEF IsMonthOf
<1>3. \A i \in 1 .. 12 : MonthEnd(leap, i) \in Int
  BY MonthEndIsInt
<1>4. ASSUME NEW m \in 1 .. 12, IsMonthOf(leap, m, dayofyr) PROVE m = mon
  <2>1. ASSUME NEW a \in 1 .. 12, NEW b \in 1 .. 12, a < b,
               IsMonthOf(leap, a, dayofyr), IsMonthOf(leap, b, dayofyr)
        PROVE  FALSE
    <3>1. a # 12 /\ a \in 1 .. b - 1 /\ MonthEnd(leap, a) \in Int
      BY <1>3, <2>1, SMT
    <3>2. dayofyr <= MonthEnd(leap, a) /\ dayofyr > MonthEnd(leap, a)
      BY <2>1, <3>1 DEF IsMonthOf
    <3> QED BY <3>1, <3>2, SMT
  <2>2. m < mon \/ m = mon \/ mon < m
    BY SMT
  <2> QED BY <1>4, <2>1, <2>2
<1>5. Days2mdhms(year, dayofyr) = Date(year, stop, dayofyr - Before(year, stop))
  BY DEF Days2mdhms
<1> HIDE DEF Ends
<1>6. stop = mon
  <2> HIDE DEF Stops
  <2> QED BY <1>2, <1>4
<1> QED BY <1>5, <1>6, BeforeIsStart

(* A date is the day of its year that jday counts to, and   *)
(* both ways back, days2mdhms and invjday, give the date again.             *)
LEMMA StartsAddUp ==
  ASSUME NEW l \in BOOLEAN, NEW k \in 1 .. 11
  PROVE  /\ Lengths(l)[k] \in Int /\ Starts(l)[k] \in Int
         /\ Starts(l)[k + 1] = Starts(l)[k] + Lengths(l)[k]
<1>1. CASE k \in 1 .. 4
  BY <1>1, SMT DEF Lengths, Starts
<1>2. CASE k \in 5 .. 8
  BY <1>2, SMT DEF Lengths, Starts
<1>3. CASE k \in 9 .. 11
  BY <1>3, SMT DEF Lengths, Starts
<1> QED BY <1>1, <1>2, <1>3, SMT

LEMMA MonthStart ==
  ASSUME NEW y \in Int, 2018 <= y, y <= 2099, NEW leap \in BOOLEAN, IsLeapYear(y) = leap,
         NEW m \in 1 .. 12
  PROVE  Jday(Date(y, m, 1)) = Jday(Date(y, 1, 1)) + Starts(leap)[m]
<1> DEFINE J(k) == Jday(Date(y, k, 1))
           S(k) == Starts(leap)[k]
           Counted(k) == J(k) = J(1) + S(k)
<1>3. \A k \in 1 .. 12 : J(k) \in Int
  BY SMT DEF Jday, Date
<1>4. ASSUME NEW k \in 1 .. 11, Counted(k) PROVE Counted(k + 1)
  <2> DEFINE len == Lengths(leap)[k]
  <2>1. len \in Int /\ S(k) \in Int /\ S(k + 1) = S(k) + len
    BY StartsAddUp
  <2>2. J(k + 1) = Jday(Date(y, k, len)) + 1
    <3>1. Jday(Date(y, k + 1, 1)) = Jday(Date(y, k, Lengths(IsLeapYear(y))[k])) + 1
      BY JdayNextMonth
    <3> DEFINE next == Jday(Date(y, k + 1, 1))
    <3> HIDE DEF next
    <3> QED BY <3>1 DEF next
  <2>3. Jday(Date(y, k, len)) = J(k) + len - 1
    <3>1. y \in Int /\ k \in 1 .. 12
      BY SMT
    <3> HIDE DEF len
    <3>2. len \in Int
      BY <2>1
    <3>3. Jday(Date(y, k, len)) = Jday(Date(y, k, 1)) + len - 1
      BY <3>1, <3>2, JdayOfDay
    <3> QED BY <3>3
  <2>4. J(k) \in Int /\ J(1) \in Int
    BY <1>3, SMT
  <2> HIDE DEF J, S, len
  <2> QED BY <1>4, <2>1, <2>2, <2>3, <2>4, SMT
<1>5. Counted(1)
  <2>1. S(1) = 0
    BY DEF Starts
  <2>2. J(1) \in Int
    BY <1>3, SMT
  <2> HIDE DEF J, S
  <2> QED BY <2>1, <2>2, SMT
<1> HIDE DEF Counted
<1>6. Counted(2) /\ Counted(3) /\ Counted(4) /\ Counted(5)
  BY <1>4, <1>5, SMT
<1>7. Counted(6) /\ Counted(7) /\ Counted(8) /\ Counted(9)
  BY <1>4, <1>6, SMT
<1>8. Counted(10) /\ Counted(11) /\ Counted(12)
  BY <1>4, <1>7, SMT
<1> QED BY <1>5, <1>6, <1>7, <1>8, SMT DEF Counted

LEMMA DayInNormalYear ==
  ASSUME NEW k \in 1 .. 12, NEW day \in 1 .. 31, day <= Lengths(FALSE)[k]
  PROVE  Starts(FALSE)[k] + day \in 1 .. 365
<1> DEFINE start == Starts(FALSE)[k]
           len == Lengths(FALSE)[k]
<1>1. start \in 0 .. 365 /\ len \in 0 .. 31 /\ start + len <= 365
  BY SMT DEF Starts, Lengths
<1>2. day <= len
  OBVIOUS
<1> HIDE DEF start, len
<1>3. start + day \in 1 .. 365
  BY <1>1, <1>2, SMT
<1> QED BY <1>3, Zenon DEF start

(* A day of a month of either kind of year. *)
LEMMA DayInMonth ==
  ASSUME NEW l \in BOOLEAN, NEW k \in 1 .. 12, NEW day \in 1 .. 31,
         day <= Lengths(l)[k]
  PROVE  /\ Starts(l)[k] + day \in 1 .. 366
         /\ IsMonthOf(l, k, Starts(l)[k] + day)
<1>1. /\ Starts(l)[k] \in 0 .. 335 /\ Lengths(l)[k] \in 28 .. 31
      /\ MonthEnd(l, k) = Starts(l)[k] + Lengths(l)[k]
      /\ MonthEnd(l, k) \in 1 .. 366
  <2>1. CASE k \in 1 .. 6
    BY <2>1, SMT DEF MonthEnd, Starts, Lengths
  <2>2. CASE k \in 7 .. 12
    BY <2>2, SMT DEF MonthEnd, Starts, Lengths
  <2> QED BY <2>1, <2>2, SMT
<1>2. ASSUME NEW j \in 1 .. k - 1
      PROVE  MonthEnd(l, j) \in Int /\ MonthEnd(l, j) <= Starts(l)[k]
  <2>1. j \in 1 .. 12
    BY SMT
  <2>2. MonthEnd(l, j) \in Int
    BY <2>1, MonthEndIsInt
  <2>3. CASE k \in 1 .. 6
    BY <2>3, SMT DEF MonthEnd, Starts, Lengths
  <2>4. CASE k \in 7 .. 9
    BY <2>4, SMT DEF MonthEnd, Starts, Lengths
  <2>5. CASE k \in 10 .. 12
    BY <2>5, SMT DEF MonthEnd, Starts, Lengths
  <2> QED BY <2>2, <2>3, <2>4, <2>5, SMT
<1> DEFINE start == Starts(l)[k]
           end == MonthEnd(l, k)
           n == start + day
<1>3. n \in 1 .. 366 /\ n <= end
  <2>1. start \in Int /\ end \in 1 .. 366 /\ start >= 0 /\ start + day <= end
    <3> DEFINE len == Lengths(l)[k]
    <3>1. start \in 0 .. 335 /\ len \in Int /\ end = start + len /\ end \in 1 .. 366 /\ day <= len
      BY <1>1, SMT
    <3> HIDE DEF start, end, len
    <3> QED BY <3>1, SMT
  <2> HIDE DEF start, end
  <2> QED BY <2>1, SMT
<1>4. ASSUME NEW j \in 1 .. k - 1 PROVE n > MonthEnd(l, j)
  <2> DEFINE e == MonthEnd(l, j)
  <2>1. e \in Int /\ e <= start /\ start \in Int
    BY <1>1, <1>2, SMT
  <2> HIDE DEF start, e
  <2>2. start + day > e
    BY <2>1, SMT
  <2> QED BY <2>2 DEF e
<1> QED BY <1>3, <1>4 DEF IsMonthOf

LEMMA DayOfYear ==
  ASSUME NEW d, ValidDate(d)
  PROVE  LET dayofyr == Jday(d) - Jday(Date(d.year, 1, 1)) + 1
         IN  /\ dayofyr = Starts(d.year % 4 = 0)[d.mon] + d.day
             /\ dayofyr \in 1 .. 366
             /\ dayofyr = 366 => d.year % 4 = 0
             /\ Days2mdhms(d.year, dayofyr) = d
<1> DEFINE y == d.year
           m == d.mon
           leap == y % 4 = 0
           dayofyr == Jday(d) - Jday(Date(y, 1, 1)) + 1
<1>1. y \in Int /\ 2018 <= y /\ y <= 2099 /\ m \in 1 .. 12 /\ d.day \in 1 .. 31 /\ d = Date(y, m, d.day)
  BY SMT DEF ValidDate, Dates, Date
<1>2. leap \in BOOLEAN /\ IsLeapYear(y) = leap /\ d.day <= Lengths(leap)[m]
  <2>1. IsLeapYear(y) \in BOOLEAN
    BY DEF IsLeapYear
  <2>2. IsLeapYear(y) = leap
    BY <1>1, <2>1, LeapYears
  <2> QED BY <2>1, <2>2 DEF ValidDate
<1>3. dayofyr = Starts(leap)[m] + d.day
  <2>1. Jday(Date(y, m, d.day)) = Jday(Date(y, m, 1)) + d.day - 1
    <3>1. y \in Int /\ d.day \in Int
      BY <1>1, SMT
    <3> HIDE DEF y, m
    <3> QED BY <1>1, <3>1, JdayOfDay
  <2>2. Jday(Date(y, m, 1)) = Jday(Date(y, 1, 1)) + Starts(leap)[m]
    <3>1. IsLeapYear(y) = leap
      BY <1>2
    <3> HIDE DEF leap, y, m
    <3>2. y \in Int /\ 2018 <= y /\ y <= 2099 /\ m \in 1 .. 12 /\ leap \in BOOLEAN
      BY <1>1, <1>2
    <3> QED BY <3>1, <3>2, MonthStart, SMTT(30)
  <2>3. Jday(Date(y, 1, 1)) \in Int /\ Starts(leap)[m] \in Int
    <3>1. Jday(Date(y, 1, 1)) \in Int
      BY <1>1, SMT DEF Jday, Date
    <3> HIDE DEF leap
    <3>2. Starts(leap)[m] \in Int
      BY <1>1, <1>2, MonthEndIsInt
    <3> QED BY <3>1, <3>2
  <2> DEFINE first == Jday(Date(y, 1, 1))
             start == Starts(leap)[m]
             day == d.day
  <2>4. Jday(d) = first + start + day - 1
    <3>1. Jday(d) = Jday(Date(y, m, d.day))
      BY <1>1
    <3> HIDE DEF first, start
    <3> QED BY <1>1, <2>1, <2>2, <2>3, <3>1, SMT DEF first, start
  <2>5. day \in Int
    BY <1>1
  <2> HIDE DEF first, start, day
  <2>6. Jday(d) - first + 1 = start + day
    BY <2>3, <2>4, <2>5, SMT DEF first, start
  <2> QED BY <2>6 DEF first, start, day
<1>5. /\ dayofyr \in 1 .. 366
      /\ dayofyr = 366 => leap
      /\ IsMonthOf(leap, m, dayofyr)
  <2> DEFINE day == d.day
             start == Starts(leap)[m] + day
  <2>1. leap \in BOOLEAN /\ m \in 1 .. 12 /\ day \in 1 .. 31 /\ day <= Lengths(leap)[m]
    BY <1>1, <1>2
  <2>2. dayofyr = start
    BY <1>3
  <2>3. start \in 1 .. 366 /\ (start = 366 => leap = TRUE) /\ IsMonthOf(leap, m, start)
    <3> HIDE DEF leap, m, day
    <3>1. /\ Starts(leap)[m] + day \in 1 .. 366
          /\ IsMonthOf(leap, m, Starts(leap)[m] + day)
      BY <2>1, DayInMonth, ZenonT(30)
    <3>2. Starts(leap)[m] + day \in 1 .. 366
      BY <3>1, Zenon
    <3>3. Starts(leap)[m] + day = 366 => leap = TRUE
      <4>1. CASE leap = TRUE
        BY <4>1
      <4>2. CASE leap = FALSE
        <5>1. day <= Lengths(FALSE)[m]
          BY <2>1, <4>2
        <5>2. Starts(FALSE)[m] + day \in 1 .. 365
          BY <2>1, <5>1, DayInNormalYear, Zenon
        <5>3. Starts(leap)[m] + day \in 1 .. 365
          BY <4>2, <5>2, Zenon
        <5> DEFINE n == Starts(leap)[m] + day
        <5> HIDE DEF n
        <5>4. n # 366
          BY <5>3, SMT DEF n
        <5> QED BY <5>4 DEF n
      <4> QED BY <2>1, <4>1, <4>2, Zenon
    <3>4. IsMonthOf(leap, m, Starts(leap)[m] + day)
      BY <3>1, Zenon
    <3> QED BY <3>2, <3>3, <3>4
  <2> HIDE DEF dayofyr, leap, m, start
  <2> QED BY <2>2, <2>3
<1>6. Days2mdhms(y, dayofyr) = d
  <2>1. y \in Int /\ dayofyr \in Int /\ Starts(leap)[m] \in Int /\ d.day \in Int
    <3> HIDE DEF dayofyr, leap
    <3>1. Starts(leap)[m] \in Int
      BY <1>1, <1>2, MonthEndIsInt
    <3> QED BY <1>1, <1>5, <3>1, SMT
  <2>2. Days2mdhms(y, dayofyr) = Date(y, m, dayofyr - Starts(leap)[m])
    <3>1. y \in Int /\ m \in 1 .. 12 /\ IsMonthOf(y % 4 = 0, m, dayofyr)
      BY <1>1, <1>5, <2>1
    <3> HIDE DEF dayofyr, y, m
    <3>2. Days2mdhms(y, dayofyr) = Date(y, m, dayofyr - Starts(y % 4 = 0)[m])
      BY <2>1, <3>1, Days2mdhmsIs, Zenon
    <3> QED BY <3>2
  <2>3. dayofyr - Starts(leap)[m] = d.day
    <3> HIDE DEF dayofyr
    <3> QED BY <1>3, <2>1, SMT
  <2> QED BY <1>1, <2>2, <2>3
<1> QED BY <1>3, <1>5, <1>6

(* The first day of a year. *)
LEMMA NewYear ==
  ASSUME NEW n \in 118 .. 199
  PROVE  Jday(Date(1900 + n, 1, 1)) = 2415020 + n * 365 + (n - 1) \div 4
<1>1. Jday(Date(1900 + n, 1, 1))
        = 367 * (1900 + n) - (7 * (1900 + n)) \div 4 + 30 + 1 + 1721013
  <2>1. (1 + 9) \div 12 = 0 /\ (275 * 1) \div 9 = 30
    BY SMT
  <2> QED BY <2>1, SMT DEF Jday, Date
<1>2. (7 * (1900 + n)) \div 4 = 3325 + 2 * n - ((n - 1) \div 4) - 1
  BY SMT
<1> QED BY <1>1, <1>2, SMT

LEMMA InvjdayIs ==
  ASSUME NEW d, ValidDate(d), NEW s, Within(s, 86400)
  PROVE  Invjday(Jday(d), s) = d
<1> DEFINE n == d.year - 1900
           r == (n - 1) % 4
           q == (n - 1) \div 4
           dayofyr == Jday(d) - Jday(Date(d.year, 1, 1)) + 1
           temp == Jday(d) - 2415019
           c == (4 * s) \div 86400
           guess == 1900 + (4 * temp + c) \div 1461
           DayOf(year) == temp - ((year - 1900) * 365 + (year - 1901) \div 4)
           year == IF DayOf(guess) < 1 THEN guess - 1 ELSE guess
<1>1. n \in 118 .. 199 /\ d.year \in Int /\ d.year = 1900 + n
  BY SMT DEF ValidDate, Dates
<1>2. /\ dayofyr \in 1 .. 366 /\ (dayofyr = 366 => d.year % 4 = 0)
      /\ Days2mdhms(d.year, dayofyr) = d
  BY DayOfYear
<1>3. n - 1 = 4 * q + r /\ r \in 0 .. 3 /\ q \in Int /\ (r = 3 <=> d.year % 4 = 0)
  <2> HIDE DEF n
  <2>1. n - 1 = 4 * q + r /\ r \in 0 .. 3 /\ q \in Int
    BY <1>1, SMT
  <2>2. r = 3 <=> (1900 + n) % 4 = 0
    BY <1>1, SMT
  <2> QED BY <1>1, <2>1, <2>2
<1>4. c \in 0 .. 3
  BY SMT DEF Within
<1>5. temp = n * 365 + q + dayofyr
  <2>1. Jday(Date(d.year, 1, 1)) = 2415020 + n * 365 + q
    BY <1>1, NewYear
  <2>2. Jday(d) \in Int
    BY JdayIsInt
  <2> QED BY <1>1, <1>3, <2>1, <2>2, SMT
<1>6. DayOf(d.year) = dayofyr
  <2>1. (d.year - 1901) \div 4 = q
    BY <1>1, SMT
  <2> HIDE DEF temp, n, q, dayofyr
  <2>2. d.year - 1900 = n
    BY <1>1, SMT
  <2> QED BY <1>1, <1>2, <1>3, <1>5, <2>1, <2>2, SMT
<1> DEFINE over == 4 * dayofyr + c - 1 - r
<1>7. (4 * temp + c) \div 1461 = n + over \div 1461 /\ over \in Int
  <2> HIDE DEF temp, n, q, r, c, dayofyr
  <2>1. 4 * temp + c = 1461 * n + over /\ over \in Int
    BY <1>1, <1>2, <1>3, <1>4, <1>5, SMT
  <2> HIDE DEF over
  <2> QED BY <1>1, <2>1, SMT
<1>8. over \in 0 .. 1466
  <2> HIDE DEF n, q, r, c, dayofyr
  <2> QED BY <1>2, <1>3, <1>4, SMT
<1>9. CASE over < 1461
  <2>1. guess = d.year
    <3>1. over \div 1461 = 0
      <4> HIDE DEF over
      <4> QED BY <1>8, <1>9, SMT
    <3> HIDE DEF over, temp, c, n
    <3> QED BY <1>1, <1>7, <3>1, SMT
  <2>2. year = d.year
    <3> HIDE DEF guess, dayofyr, DayOf
    <3> QED BY <1>2, <1>6, <2>1, SMT
  <2> HIDE DEF year, DayOf
  <2>3. Invjday(Jday(d), s) = Days2mdhms(year, DayOf(year))
    BY DEF Invjday, year, DayOf
  <2> QED BY <1>2, <1>6, <2>2, <2>3
<1>10. CASE over >= 1461
  <2>1. guess = d.year + 1
    <3>1. over \div 1461 = 1
      <4> HIDE DEF over
      <4> QED BY <1>8, <1>10, SMT
    <3> HIDE DEF over, temp, c, n
    <3> QED BY <1>1, <1>7, <3>1, SMT
  <2>2. DayOf(d.year + 1) < 1
    <3>1. ((d.year + 1) - 1901) \div 4 = (IF r = 3 THEN q + 1 ELSE q)
      BY <1>1, SMT
    <3>2. (d.year + 1) - 1900 = n + 1
      BY <1>1, SMT
    <3> HIDE DEF temp, n, q, r, c, dayofyr
    <3>3. dayofyr >= 365 /\ (r # 3 => dayofyr = 365)
      BY <1>2, <1>3, <1>4, <1>10, SMT
    <3>4. temp - ((n + 1) * 365 + (IF r = 3 THEN q + 1 ELSE q)) < 1
      BY <1>1, <1>2, <1>3, <1>5, <3>3, SMT
    <3>5. DayOf(d.year + 1)
            = temp - (((d.year + 1) - 1900) * 365 + ((d.year + 1) - 1901) \div 4)
      OBVIOUS
    <3>6. DayOf(d.year + 1) = temp - ((n + 1) * 365 + (IF r = 3 THEN q + 1 ELSE q))
      BY <3>1, <3>2, <3>5
    <3> HIDE DEF DayOf
    <3> QED BY <3>4, <3>6
  <2>3. year = d.year
    <3> HIDE DEF guess, DayOf
    <3> QED BY <1>1, <2>1, <2>2, SMT
  <2> HIDE DEF year, DayOf
  <2>4. Invjday(Jday(d), s) = Days2mdhms(year, DayOf(year))
    BY DEF Invjday, year, DayOf
  <2> QED BY <1>2, <1>6, <2>3, <2>4
<1> QED
  <2> HIDE DEF over
  <2> QED BY <1>7, <1>9, <1>10, SMT

(* Whatever day the clock has reached, invjday gives the date of its julian *)
(* date back, at any second of the day, and element lines of that day have  *)
(* it as their epoch.                                                       *)
THEOREM CalendarsMeet == Spec => []CalendarsAgree
<1>1. ClockInv => CalendarsAgree
  <2> SUFFICES ASSUME ClockInv PROVE CalendarsAgree
    OBVIOUS
  <2> DEFINE y == date.year
             dayofyr == Jday(date) - Jday(Date(y, 1, 1)) + 1
  <2>1. ValidDate(date) /\ Within(sec, 86400) /\ y \in Int /\ 2018 <= y /\ y <= 2099
    <3>1. ValidDate(date) /\ Within(sec, D)
      BY Day DEF ClockInv
    <3> QED BY <3>1, DayFacts, SMT DEF ValidDate, Dates
  <2>2. Invjday(Jday(date), sec) = date
    BY <2>1, InvjdayIs
  <2>3. Days2mdhms(y, dayofyr) = date
    BY <2>1, DayOfYear
  <2>4. y <= 2056 => Epoch(y % 100, dayofyr, sec).jd = Jday(date)
    <3> HIDE DEF dayofyr
    <3>1. y <= 2056 => y % 100 < 57 /\ (y % 100) + 2000 = y
      BY <2>1, SMT
    <3> QED BY <2>3, <3>1 DEF Epoch
  <2> QED BY <2>2, <2>3, <2>4 DEF CalendarsAgree
<1> QED BY <1>1, ClockInit, ClockNext, PTL DEF Spec

-----------------------------------------------------------------------------
(* Rings.  Division by the number of satellites.                            *)
LEMMA Product ==
  ASSUME NEW n \in Nat \ {0}, NEW k \in Int
  PROVE  (k >= 2 => n * k >= 2 * n) /\ (k <= -1 => n * k <= -n)
<1>1. ASSUME k >= 2 PROVE n * k >= 2 * n
  <2>1. n * (k - 2) >= 0
    BY <1>1, SMT
  <2> QED BY <2>1, SMT
<1>2. ASSUME k <= -1 PROVE n * k <= -n
  <2>1. n * (-1 - k) >= 0
    BY <1>2, SMT
  <2> QED BY <2>1, SMT
<1> QED BY <1>1, <1>2

LEMMA Quotient ==
  ASSUME NEW n \in Nat \ {0}, NEW a \in Nat
  PROVE  /\ a \div n \in Nat /\ (a % n) \in Nat /\ (a % n) < n
         /\ a = n * (a \div n) + (a % n)
<1>1. (a % n) \in 0 .. n - 1
  BY SMT
<1>2. a = n * (a \div n) + (a % n)
  BY SMT
<1>3. a \div n \in Int
  BY SMT
<1> DEFINE q == a \div n
<1>4. ~(q <= -1)
  <2>1. q <= -1 => n * q <= -n
    BY <1>3, Product
  <2> HIDE DEF q
  <2> QED BY <1>1, <1>2, <1>3, <2>1, SMT DEF q
<1> QED BY <1>1, <1>2, <1>3, <1>4, SMT

LEMMA QuotientOfSum ==
  ASSUME NEW n \in Nat \ {0}, NEW a \in Nat, NEW b \in Nat
  PROVE  (a + b) \div n - (a \div n + b \div n) \in {0, 1}
<1> DEFINE p == a \div n
           q == b \div n
           r == (a + b) \div n
           k == r - (p + q)
<1>1. /\ p \in Nat /\ (a % n) \in Nat /\ (a % n) < n /\ a = n * p + (a % n)
      /\ q \in Nat /\ (b % n) \in Nat /\ (b % n) < n /\ b = n * q + (b % n)
  BY Quotient
<1>2. r \in Nat /\ ((a + b) % n) \in Nat /\ ((a + b) % n) < n /\ a + b = n * r + ((a + b) % n)
  <2>1. a + b \in Nat
    OBVIOUS
  <2> QED BY <2>1, Quotient
<1> HIDE DEF p, q, r
<1>3. n * k = n * r - (n * p + n * q) /\ k \in Int
  BY <1>1, <1>2, SMT
<1>4. n * k < 2 * n /\ n * k > -n
  BY <1>1, <1>2, <1>3, SMT
<1>5. ~(k >= 2) /\ ~(k <= -1)
  BY <1>3, <1>4, Product, SMT
<1>6. k \in {0, 1}
  BY <1>3, <1>5, SMT
<1> QED BY <1>6 DEF k, p, q, r

LEMMA QuotientBelow ==
  ASSUME NEW n \in Nat \ {0}, NEW a \in Nat
  PROVE  a \div n <= a
<1> DEFINE q == a \div n
<1>1. q \in Nat /\ (a % n) \in Nat /\ a = n * q + (a % n)
  BY Quotient
<1> HIDE DEF q
<1>2. (n - 1) * q >= 0
  BY <1>1, SMT
<1> QED BY <1>1, <1>2, SMT DEF q

LEMMA QuotientOfMultiple ==
  ASSUME NEW n \in Nat \ {0}, NEW a \in Nat
  PROVE  (n * a) \div n = a
<1> DEFINE q == (n * a) \div n
           r == (n * a) % n
           k == q - a
<1>1. n * a \in Nat
  BY SMT
<1>2. q \in Nat /\ r \in Nat /\ r < n /\ n * a = n * q + r
  BY <1>1, Quotient
<1> HIDE DEF q, r
<1>3. n * k = -r /\ k \in Int
  BY <1>2, SMT
<1>4. ~(k <= -1)
  BY <1>2, <1>3, Product, SMT
<1>5. ~(k >= 1)
  <2> SUFFICES ASSUME k >= 1 PROVE FALSE
    OBVIOUS
  <2>1. n * k >= 0 /\ n * (k - 1) >= 0
    BY <1>3, SMT
  <2> QED BY <1>2, <1>3, <2>1, SMT
<1> QED BY <1>2, <1>3, <1>4, <1>5, SMT DEF q

(* Two times that are close are close in parts.                             *)
LEMMA PartsClose ==
  ASSUME NEW n \in Nat \ {0}, NEW a \in Nat, NEW b \in Nat, a <= b
  PROVE  b \div n - a \div n \in 0 .. (b - a) + 1
<1> DEFINE c == b - a
<1>1. c \in Nat /\ a + c = b
  OBVIOUS
<1> HIDE DEF c
<1>2. b \div n - (a \div n + c \div n) \in {0, 1}
  BY <1>1, QuotientOfSum
<1>3. c \div n \in Nat /\ c \div n <= c /\ a \div n \in Nat /\ b \div n \in Nat
  BY <1>1, Quotient, QuotientBelow
<1>4. \A x, y, z \in Nat : z - (x + y) \in {0, 1} /\ y <= c => z - x \in 0 .. c + 1
  BY <1>1, SMT
<1> QED BY <1>2, <1>3, <1>4 DEF c

(* What is left of a number near 0 on a circle.                             *)
LEMMA NearOnCircle ==
  ASSUME NEW turn \in Nat \ {0}, NEW e \in Nat, e < turn, NEW x \in Int, NEW off,
         -e <= x /\ x <= e, off = x % turn \/ off = (x - turn) % turn
  PROVE  off <= e \/ turn - off <= e
<1>1. \A y \in 0 .. turn - 1 : y % turn = y
  BY SMT
<1>2. x % turn = (IF x >= 0 THEN x ELSE x + turn)
  BY SMT
<1>3. (x - turn) % turn = x % turn
  BY SMT
<1> QED BY <1>2, <1>3, SMT

(* What satellite i + 1 of n launched over a time L lags behind satellite i, *)
(* over an equal part of the turn.                                          *)
Lag(n, L, turn, i) == (((i % n) * L) \div n - ((i - 1) * L) \div n) - turn \div n

(* A launch time L is a turn, but for e; a lag is none on the circle, but   *)
(* for e.                                                                   *)
NearlyTurn(L, turn, e) ==
  \/ L <= turn /\ (turn - L) + 2 <= e
  \/ turn <= L /\ (L - turn) + 2 <= e

NearlyNone(X, turn, e) == \E x \in Int : -e <= x /\ x <= e /\ (X = x \/ X = x - turn)

(* Launched over a time L of n equal parts that is nearly a turn, the       *)
(* satellites are nearly an equal part of the turn apart.                   *)
LEMMA Apart ==
  ASSUME NEW n \in Nat \ {0}, NEW L \in Nat, NEW turn \in Nat, NEW e \in Nat,
         NearlyTurn(L, turn, e), NEW i \in 1 .. n
  PROVE  NearlyNone(Lag(n, L, turn, i), turn, e)
<1> DEFINE X == Lag(n, L, turn, i)
           l == L \div n
           t == turn \div n
           s == ((i - 1) * L) \div n
<1>1. l \in Nat /\ t \in Nat
  BY Quotient
<1>2. (i - 1) * L \in Nat /\ s \in Nat
  <2>1. (i - 1) * L \in Nat
    BY SMT
  <2> QED BY <2>1, Quotient
<1>3. \/ L <= turn /\ t - l \in 0 .. (turn - L) + 1
      \/ turn <= L /\ l - t \in 0 .. (L - turn) + 1
  BY PartsClose DEF NearlyTurn
<1>4. (i * L) \div n - (s + l) \in {0, 1}
  <2> DEFINE a == (i - 1) * L
  <2>1. a \in Nat /\ a + L = i * L
    BY <1>2, SMT
  <2> HIDE DEF a
  <2>2. (a + L) \div n - (a \div n + L \div n) \in {0, 1}
    BY <2>1, QuotientOfSum
  <2> QED BY <2>1, <2>2 DEF a
<1> DEFINE c == (i * L) \div n - (s + l)
           dev == (l + c) - t
<1> HIDE DEF X, l, t, s
<1>5. c \in {0, 1} /\ c \in Int
  BY <1>4
<1> HIDE DEF c
<1>6. /\ dev \in Int /\ -e <= dev /\ dev <= e
      /\ dev + (turn - L) \in Int /\ -e <= dev + (turn - L) /\ dev + (turn - L) <= e
  BY <1>1, <1>3, <1>5, SMT DEF NearlyTurn
<1>7. CASE i < n
  <2>1. i % n = i
    BY <1>7, SMT
  <2>2. (i * L) \div n = (s + l) + c
    <3>1. i * L \in Nat
      BY SMT
    <3>2. (i * L) \div n \in Nat
      BY <3>1, Quotient
    <3> QED BY <1>1, <1>2, <3>2, SMT DEF c
  <2>3. X = dev
    <3>1. X = (((s + l) + c) - s) - t
      BY <2>1, <2>2 DEF X, s, t, Lag
    <3> QED BY <1>1, <1>2, <1>5, <3>1, SMT
  <2> QED BY <1>6, <2>3 DEF X, NearlyNone
<1>8. CASE i = n
  <2>1. i % n = 0
    BY <1>8, SMT
  <2>2. (0 * L) \div n = 0
    <3>1. 0 * L = n * 0
      BY SMT
    <3> QED BY <3>1, QuotientOfMultiple
  <2>3. (i * L) \div n = L
    BY <1>8, QuotientOfMultiple
  <2>4. L = (s + l) + c
    BY <1>1, <1>2, <2>3, SMT DEF c
  <2>5. X = (0 - s) - t
    BY <2>1, <2>2 DEF X, s, t, Lag
  <2>6. X = (dev + (turn - L)) - turn
    BY <1>1, <1>2, <1>5, <2>4, <2>5, SMT
  <2> QED BY <1>6, <2>6 DEF X, NearlyNone
<1> QED BY <1>7, <1>8

(* The table of ring.js fits the motion that is read, period by period.     *)
Turn(no) == 6 * (144000000 \div no)

(* A launch period of L and a turn that differ by a hundredth of the turn.  *)
Near(L, turn) ==
  /\ L \in Nat /\ turn \in Nat \ {0}
  /\ \/ L <= turn /\ 100 * (turn - L + 2) <= turn
     \/ turn <= L /\ 100 * (L - turn + 2) <= turn

LEMMA NearFits ==
  ASSUME NEW L, NEW turn, Near(L, turn)
  PROVE  /\ L \in Nat /\ turn \in Nat \ {0} /\ turn \div 100 \in Nat /\ turn \div 100 < turn
         /\ \/ L <= turn /\ (turn - L) + 2 <= turn \div 100
            \/ turn <= L /\ (L - turn) + 2 <= turn \div 100
BY SMTT(30) DEF Near

LEMMA TableFits ==
  ASSUME NEW r, r.period \in 900 .. 1000, Listed(r.period),
         NEW turn, turn = Turn(ReadMotion(7, Motion(r.period))),
         NEW L, L = LaunchOffset(r) * 60
  PROVE  /\ L \in Nat /\ turn \in Nat \ {0} /\ turn \div 100 \in Nat /\ turn \div 100 < turn
         /\ \/ L <= turn /\ (turn - L) + 2 <= turn \div 100
            \/ turn <= L /\ (L - turn) + 2 <= turn \div 100
<1>1. r.period \in {900, 910, 920, 930, 940, 950, 960, 970, 980, 990, 1000}
  <2> DEFINE k == r.period
  <2>1. k \in 900 .. 1000 /\ k % 10 = 0
    BY DEF Listed
  <2> HIDE DEF k
  <2>2. k \in {900, 910, 920, 930, 940, 950, 960, 970, 980, 990, 1000}
    BY <2>1, SMT
  <2> QED BY <2>2 DEF k
<1>2. ReadMotion(7, Motion(r.period)) = (144000000 \div r.period) % 100000
  BY SMT DEF ReadMotion, Column, Motion
<1>3. L = Table[(r.period - 890) \div 10] * 60
  BY DEF LaunchOffset
<1>4. ASSUME NEW no \in Nat \ {0}, NEW q \in Nat, (144000000 \div r.period) % 100000 = no, 144000000 \div no = q
      PROVE  turn = 6 * q
  BY <1>2, <1>4 DEF Turn
<1>5. r.period = 900 => Near(L, turn)
  <2> SUFFICES ASSUME r.period = 900 PROVE Near(L, turn)
    OBVIOUS
  <2>1. (900 - 890) \div 10 = 1 /\ Table[1] = 240
    BY SMT DEF Table
  <2>2. 144000000 \div 900 = 160000 /\ 160000 % 100000 = 60000 /\ 144000000 \div 60000 = 2400
    BY SMT
  <2>3. L = 14400 /\ turn = 14400
    BY <1>3, <1>4, <2>1, <2>2
  <2>4. Near(14400, 14400)
    BY SMT DEF Near
  <2> QED BY <2>3, <2>4, SMT
<1>6. r.period = 910 => Near(L, turn)
  <2> SUFFICES ASSUME r.period = 910 PROVE Near(L, turn)
    OBVIOUS
  <2>1. (910 - 890) \div 10 = 2 /\ Table[2] = 249
    BY SMT DEF Table
  <2>2. 144000000 \div 910 = 158241 /\ 158241 % 100000 = 58241 /\ 144000000 \div 58241 = 2472
    BY SMT
  <2>3. L = 14940 /\ turn = 14832
    BY <1>3, <1>4, <2>1, <2>2
  <2>4. Near(14940, 14832)
    BY SMT DEF Near
  <2> QED BY <2>3, <2>4, SMT
<1>7. r.period = 920 => Near(L, turn)
  <2> SUFFICES ASSUME r.period = 920 PROVE Near(L, turn)
    OBVIOUS
  <2>1. (920 - 890) \div 10 = 3 /\ Table[3] = 257
    BY SMT DEF Table
  <2>2. 144000000 \div 920 = 156521 /\ 156521 % 100000 = 56521 /\ 144000000 \div 56521 = 2547
    BY SMT
  <2>3. L = 15420 /\ turn = 15282
    BY <1>3, <1>4, <2>1, <2>2
  <2>4. Near(15420, 15282)
    BY SMT DEF Near
  <2> QED BY <2>3, <2>4, SMT
<1>8. r.period = 930 => Near(L, turn)
  <2> SUFFICES ASSUME r.period = 930 PROVE Near(L, turn)
    OBVIOUS
  <2>1. (930 - 890) \div 10 = 4 /\ Table[4] = 263
    BY SMT DEF Table
  <2>2. 144000000 \div 930 = 154838 /\ 154838 % 100000 = 54838 /\ 144000000 \div 54838 = 2625
    BY SMT
  <2>3. L = 15780 /\ turn = 15750
    BY <1>3, <1>4, <2>1, <2>2
  <2>4. Near(15780, 15750)
    BY SMT DEF Near
  <2> QED BY <2>3, <2>4, SMT
<1>9. r.period = 940 => Near(L, turn)
  <2> SUFFICES ASSUME r.period = 940 PROVE Near(L, turn)
    OBVIOUS
  <2>1. (940 - 890) \div 10 = 5 /\ Table[5] = 270
    BY SMT DEF Table
  <2>2. 144000000 \div 940 = 153191 /\ 153191 % 100000 = 53191 /\ 144000000 \div 53191 = 2707
    BY SMT
  <2>3. L = 16200 /\ turn = 16242
    BY <1>3, <1>4, <2>1, <2>2
  <2>4. Near(16200, 16242)
    BY SMT DEF Near
  <2> QED BY <2>3, <2>4, SMT
<1>10. r.period = 950 => Near(L, turn)
  <2> SUFFICES ASSUME r.period = 950 PROVE Near(L, turn)
    OBVIOUS
  <2>1. (950 - 890) \div 10 = 6 /\ Table[6] = 278
    BY SMT DEF Table
  <2>2. 144000000 \div 950 = 151578 /\ 151578 % 100000 = 51578 /\ 144000000 \div 51578 = 2791
    BY SMT
  <2>3. L = 16680 /\ turn = 16746
    BY <1>3, <1>4, <2>1, <2>2
  <2>4. Near(16680, 16746)
    BY SMT DEF Near
  <2> QED BY <2>3, <2>4, SMT
<1>11. r.period = 960 => Near(L, turn)
  <2> SUFFICES ASSUME r.period = 960 PROVE Near(L, turn)
    OBVIOUS
  <2>1. (960 - 890) \div 10 = 7 /\ Table[7] = 287
    BY SMT DEF Table
  <2>2. 144000000 \div 960 = 150000 /\ 150000 % 100000 = 50000 /\ 144000000 \div 50000 = 2880
    BY SMT
  <2>3. L = 17220 /\ turn = 17280
    BY <1>3, <1>4, <2>1, <2>2
  <2>4. Near(17220, 17280)
    BY SMT DEF Near
  <2> QED BY <2>3, <2>4, SMT
<1>12. r.period = 970 => Near(L, turn)
  <2> SUFFICES ASSUME r.period = 970 PROVE Near(L, turn)
    OBVIOUS
  <2>1. (970 - 890) \div 10 = 8 /\ Table[8] = 296
    BY SMT DEF Table
  <2>2. 144000000 \div 970 = 148453 /\ 148453 % 100000 = 48453 /\ 144000000 \div 48453 = 2971
    BY SMT
  <2>3. L = 17760 /\ turn = 17826
    BY <1>3, <1>4, <2>1, <2>2
  <2>4. Near(17760, 17826)
    BY SMT DEF Near
  <2> QED BY <2>3, <2>4, SMT
<1>13. r.period = 980 => Near(L, turn)
  <2> SUFFICES ASSUME r.period = 980 PROVE Near(L, turn)
    OBVIOUS
  <2>1. (980 - 890) \div 10 = 9 /\ Table[9] = 304
    BY SMT DEF Table
  <2>2. 144000000 \div 980 = 146938 /\ 146938 % 100000 = 46938 /\ 144000000 \div 46938 = 3067
    BY SMT
  <2>3. L = 18240 /\ turn = 18402
    BY <1>3, <1>4, <2>1, <2>2
  <2>4. Near(18240, 18402)
    BY SMT DEF Near
  <2> QED BY <2>3, <2>4, SMT
<1>14. r.period = 990 => Near(L, turn)
  <2> SUFFICES ASSUME r.period = 990 PROVE Near(L, turn)
    OBVIOUS
  <2>1. (990 - 890) \div 10 = 10 /\ Table[10] = 315
    BY SMT DEF Table
  <2>2. 144000000 \div 990 = 145454 /\ 145454 % 100000 = 45454 /\ 144000000 \div 45454 = 3168
    BY SMT
  <2>3. L = 18900 /\ turn = 19008
    BY <1>3, <1>4, <2>1, <2>2
  <2>4. Near(18900, 19008)
    BY SMT DEF Near
  <2> QED BY <2>3, <2>4, SMT
<1>15. r.period = 1000 => Near(L, turn)
  <2> SUFFICES ASSUME r.period = 1000 PROVE Near(L, turn)
    OBVIOUS
  <2>1. (1000 - 890) \div 10 = 11 /\ Table[11] = 326
    BY SMT DEF Table
  <2>2. 144000000 \div 1000 = 144000 /\ 144000 % 100000 = 44000 /\ 144000000 \div 44000 = 3272
    BY SMT
  <2>3. L = 19560 /\ turn = 19632
    BY <1>3, <1>4, <2>1, <2>2
  <2>4. Near(19560, 19632)
    BY SMT DEF Near
  <2> QED BY <2>3, <2>4, SMT
<1>16. Near(L, turn)
  BY <1>1, <1>5, <1>6, <1>7, <1>8, <1>9, <1>10, <1>11, <1>12, <1>13, <1>14, <1>15, SMT
<1> QED BY <1>16, NearFits

RingInv == ring \in Rings /\ satrecs = Ring(ring)

LEMMA RingNext == RingInv /\ [Next]_vars => RingInv'
BY DEF RingInv, Next, Propagate, vars, Ring

(* Whatever the number of satellites and the inclination, as long as it is  *)
(* not below one degree: those of a period that ring.js has a launch time   *)
(* for are spread evenly over the orbit that twoline2satrec reads (Ring,    *)
(* whose table fits the motion without its first digit).                    *)
THEOREM RingsAreEven == Spec => []RingIsEven
<1>1. ASSUME RingInv PROVE RingIsEven
  <2> SUFFICES ASSUME Listed(ring.period), ring.inclination >= 10, NEW i \in 1 .. ring.number,
                      NEW turn, turn = Turn(satrecs[i].no),
                      NEW next, next = (i % ring.number) + 1,
                      NEW off,
                      off = (satrecs[next].epoch.sec - satrecs[i].epoch.sec - turn \div ring.number) % turn
               PROVE  off <= turn \div 100 \/ turn - off <= turn \div 100
    BY DEF RingIsEven, Turn
  <2> DEFINE n == ring.number
             T == LaunchOffset(ring)
             L == T * 60
             no == ReadMotion(7, Motion(ring.period))
  <2>1. ring \in Rings /\ satrecs = Ring(ring)
    BY <1>1 DEF RingInv
  <2>2. ring.period \in 900 .. 1000 /\ n \in Nat \ {0} /\ ring.inclination \in Int
    BY <2>1, OrbitAssumption
  <2>3. ASSUME NEW k \in 1 .. n PROVE satrecs[k].no = no /\ satrecs[k].epoch.sec = ((k - 1) * L) \div n
    <3>1. satrecs[k] = Satellite(ring, k - 1)
      BY <2>1 DEF Ring
    <3>2. Width(ring.inclination) = 7
      BY <2>2, SMT DEF Width
    <3>3. satrecs[k].no = no /\ satrecs[k].epoch.sec = ((k - 1) * T * 60) \div n
      BY <3>1, <3>2 DEF Satellite, Twoline2satrec, Epoch
    <3>4. T \in Int
      <4>1. (ring.period - 890) \div 10 \in 1 .. 11
        BY <2>2, SMT
      <4>2. \A m \in 1 .. 11 : Table[m] \in Int
        BY SMT DEF Table
      <4> QED BY <4>1, <4>2 DEF LaunchOffset
    <3> HIDE DEF T
    <3>5. (k - 1) * T * 60 = (k - 1) * (T * 60)
      BY <3>4, SMT
    <3> QED BY <3>3, <3>5
  <2>4. turn = Turn(no)
    BY <2>3
  <2>5. /\ L \in Nat /\ turn \in Nat \ {0} /\ turn \div 100 \in Nat /\ turn \div 100 < turn
        /\ \/ L <= turn /\ (turn - L) + 2 <= turn \div 100
           \/ turn <= L /\ (L - turn) + 2 <= turn \div 100
    BY <2>2, <2>4, TableFits
  <2>6. next \in 1 .. n /\ next - 1 = i % n
    BY <2>2, SMT
  <2>7. /\ satrecs[i].epoch.sec = ((i - 1) * L) \div n
        /\ satrecs[next].epoch.sec = ((i % n) * L) \div n
    BY <2>3, <2>6
  <2> DEFINE e == turn \div 100
             X == Lag(n, L, turn, i)
  <2>8. off = X % turn
    BY <2>7 DEF Lag
  <2>9. NearlyNone(X, turn, e)
    <3>1. n \in Nat \ {0} /\ L \in Nat /\ turn \in Nat /\ e \in Nat /\ i \in 1 .. n
      BY <2>2, <2>5
    <3>2. NearlyTurn(L, turn, e)
      BY <2>5 DEF NearlyTurn
    <3> HIDE DEF n, L, e
    <3> QED BY <3>1, <3>2, Apart
  <2> HIDE DEF n, L, X
  <2>10. PICK x \in Int : -e <= x /\ x <= e /\ (X = x \/ X = x - turn)
    BY <2>9 DEF NearlyNone
  <2>11. off = x % turn \/ off = (x - turn) % turn
    BY <2>8, <2>10, Zenon
  <2>12. turn \in Nat \ {0} /\ e \in Nat /\ e < turn
    BY <2>5
  <2> HIDE DEF e
  <2>13. off <= e \/ turn - off <= e
    BY <2>10, <2>11, <2>12, NearOnCircle, ZenonT(30)
  <2> QED BY <2>13 DEF e
<1>2. Init => RingInv
  BY DEF Init, RingInv
<1> QED BY <1>1, <1>2, RingNext, PTL DEF Spec
=============================================================================
