------------------------------ MODULE Calendar ------------------------------
(***************************************************************************)
(* Days and dates.  First JavaScript's Date, the Gregorian calendar and    *)
(* the clocks of a time zone; then the three conversions of                *)
(* satellite.js/lib/ext.js, for which every fourth year is a leap year.  A *)
(* date is [year, mon, day]; the time of the day is kept apart from it, in *)
(* seconds.  A time zone is [offset, saves, summers]: its clocks are       *)
(* "offset" seconds ahead of UTC, and "saves" more in each of its summers, *)
(* intervals [from, to) of UTC.                                            *)
(***************************************************************************)
EXTENDS Integers

Dates == [year : Int, mon : 1 .. 12, day : 1 .. 31]
Date(year, mon, day) == [year |-> year, mon |-> mon, day |-> day]

Lengths(leap) ==
  <<31, IF leap THEN 29 ELSE 28, 31, 30, 31, 30, 31, 31, 30, 31, 30, 31>>

(* Date *)
IsLeapYear(year) == (year % 4 = 0 /\ year % 100 # 0) \/ year % 400 = 0

NextDay(date) ==
  CASE date.day < Lengths(IsLeapYear(date.year))[date.mon] -> [date EXCEPT !.day = @ + 1]
    [] date.day >= Lengths(IsLeapYear(date.year))[date.mon] /\ date.mon < 12 ->
         Date(date.year, date.mon + 1, 1)
    [] OTHER -> Date(date.year + 1, 1, 1)

InSummer(zone, t) == \E summer \in zone.summers : summer.from <= t /\ t < summer.to

LocalTime(zone, t) == t + zone.offset + IF InSummer(zone, t) THEN zone.saves ELSE 0

(* Seeded fault: the rule of older editions of the language, by which the   *)
(* hour that the clocks skip in spring reads as the one before it.          *)
OldUTC(zone, local) ==
  LET t == local - zone.offset IN
  IF InSummer(zone, t) THEN t - zone.saves ELSE t

(* The time of a local time: of the hour that comes twice in autumn the     *)
(* first, and in the one skipped in spring the clocks are not yet changed.  *)
UTC(zone, local) ==
  LET t == local - zone.offset IN
  IF InSummer(zone, t - zone.saves) THEN t - zone.saves ELSE t

-----------------------------------------------------------------------------
Lmonth(year) == Lengths(year % 4 = 0)

(* The days of a year before a month, the sum that days2mdhms runs up.      *)
Before(year, mon) ==
  LET sum[i \in 1 .. 12] == IF i = 1 THEN 0 ELSE sum[i - 1] + Lmonth(year)[i - 1]
  IN sum[mon]

(* Seeded fault: the last day of a month is taken for one of the next. *)
Days2mdhmsEarly(year, dayofyr) ==
  LET Ends(i) == Before(year, i) + Lmonth(year)[i]
      mon == CHOOSE i \in 1 .. 12 :
               /\ i = 12 \/ dayofyr < Ends(i)
               /\ \A j \in 1 .. i - 1 : dayofyr >= Ends(j)
  IN Date(year, mon, dayofyr - Before(year, mon))

(* Month and day of a day of the year.  Day 0, with which the lines of the  *)
(* globe's satellites begin, counts as day 0 of January.                    *)
Days2mdhms(year, dayofyr) ==
  LET Ends(i) == Before(year, i) + Lmonth(year)[i]
      mon == CHOOSE i \in 1 .. 12 :
               /\ i = 12 \/ dayofyr <= Ends(i)
               /\ \A j \in 1 .. i - 1 : dayofyr > Ends(j)
  IN Date(year, mon, dayofyr - Before(year, mon))

(* Seeded fault: the leap day comes at the end of February, not after it. *)
JdayInFebruary(date) ==
  367 * date.year - (7 * (date.year + (date.mon + 10) \div 12)) \div 4
    + (275 * date.mon) \div 9 + date.day + 1721013

(* The julian date, less the half day at which a day begins.                *)
Jday(date) ==
  367 * date.year - (7 * (date.year + (date.mon + 9) \div 12)) \div 4
    + (275 * date.mon) \div 9 + date.day + 1721013

(* The date at some second of a day.  The year is one of 365.25 days, which *)
(* late on a 31st of December has begun too early.                          *)
Invjday(jd, sec) ==
  LET temp == jd - 2415019
      guess == 1900 + (4 * temp + (4 * sec) \div 86400) \div 1461
      DayOf(year) == temp - ((year - 1900) * 365 + (year - 1901) \div 4)
      year == IF DayOf(guess) < 1 THEN guess - 1 ELSE guess
  IN Days2mdhms(year, DayOf(year))
=============================================================================
