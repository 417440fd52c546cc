--------------------------- MODULE SatelliteOrbit ---------------------------
(***************************************************************************)
(* The satellites that move over the globe before a simulation is run: a   *)
(* ring of them (globe.js/ring.js, globe.js/satellite.js) as the           *)
(* propagator reads the element lines written for it, and the clock that   *)
(* the page's frames advance.  Every satellite has a clock of its own, a   *)
(* Date, and all are advanced alike: the model keeps one.  The page sets   *)
(* it in local time, in the time zone of the browser, and the propagator   *)
(* reads its fields in UTC.                                                *)
(***************************************************************************)
EXTENDS Propagator, Sequences, FiniteSets

CONSTANTS
  Rings,        (* inclination and period in tenths, number of satellites    *)
  Zones,        (* time zones, the times of which count from Start           *)
  Deltas,       (* milliseconds, scaled, that a frame advances the clock by  *)
  LastYear,     (* bound on the year                                         *)
  MaxParts      (* bound on the frames of less than a day                    *)

DaySeconds == 86400
DayMillis == 86400000

ASSUME OrbitAssumption ==
  /\ \A ring \in Rings :
       /\ ring.inclination \in Nat \ {0} /\ ring.period \in 900 .. 1000
       /\ ring.number \in Nat \ {0}
  /\ Deltas \subseteq 1 .. DayMillis
  /\ LastYear \in 2018 .. 2098
  /\ MaxParts \in Nat

(* Summers and the rest of a year last longer than a day. *)
ASSUME ZoneAssumption ==
  \A zone \in Zones :
    /\ zone.offset \in Int /\ zone.saves \in Nat
    /\ -DaySeconds < zone.offset /\ zone.offset + zone.saves < DaySeconds
    /\ zone.saves < DaySeconds
    /\ IsFiniteSet(zone.summers)
    /\ \A x \in zone.summers :
         /\ x.from \in Int /\ x.to \in Int /\ x.from + DaySeconds <= x.to
         /\ \A y \in zone.summers \ {x} :
              x.to + DaySeconds <= y.from \/ y.to + DaySeconds <= x.from

VARIABLES
  ring,         (* what the satellites were made for                         *)
  satrecs,      (* the records of the propagator, in the order of launch     *)
  zone,         (* the time zone of the browser                              *)
  time,         (* the satellites' Date, in seconds since Start in UTC       *)
  date, sec,    (* its UTC fields: the date, and second of the day           *)
  ran,          (* days and milliseconds the animation has run for           *)
  parts         (* frames of less than a day so far                          *)

vars == <<ring, satrecs, zone, time, date, sec, ran, parts>>

-----------------------------------------------------------------------------
(* The minutes over which a ring is launched, by period, as ring.js has     *)
(* them; a period without an entry makes the launch offset NaN, of which    *)
(* the epoch reads as 0.                                                    *)
Table == <<240, 249, 257, 263, 270, 278, 287, 296, 304, 315, 326>>
Listed(period) == period % 10 = 0
LaunchOffset(r) == IF Listed(r.period) THEN Table[(r.period - 890) \div 10] ELSE 0

(* Columns that toPrecision(6) gives an inclination; below one degree the   *)
(* leading 0 does not count.                                                *)
Width(inclination) == IF inclination < 10 THEN 8 ELSE 7

Motion(period) == 144000000 \div period

(* Day 0 of the year 2000, and the offset into it.                          *)
Satellite(r, i) ==
  Twoline2satrec(Width(r.inclination), Motion(r.period),
                 Epoch(0, 0, (i * LaunchOffset(r) * 60) \div r.number))

Ring(r) == [i \in 1 .. r.number |-> Satellite(r, i - 1)]

(* The clock starts at local midnight, which is on this day or the one      *)
(* before it.                                                               *)
Start == Date(2018, 2, 1)
Started == UTC(zone, 0)

Init ==
  /\ ring \in Rings
  /\ satrecs = Ring(ring)
  /\ zone \in Zones
  /\ time = Started
  /\ date = IF time < 0 THEN Date(2018, 1, 31) ELSE Start
  /\ sec = time % DaySeconds
  /\ ran = [days |-> 0, ms |-> 0]
  /\ parts = 0

(* The UTC fields of the time t; a frame passes midnight twice at most.     *)
SetTime(t) ==
  LET days == t \div DaySeconds - time \div DaySeconds IN
  /\ time' = t
  /\ date' = CASE days = 1 -> NextDay(date)
               [] days = 2 -> NextDay(NextDay(date))
               [] OTHER -> date
  /\ sec' = t % DaySeconds

(* setSeconds takes the whole seconds; what a frame has over them is lost.  *)
SetSeconds(delta) == SetTime(UTC(zone, LocalTime(zone, time) + delta \div 1000))

(* One frame: globe.propagate has every satellite update its clock.         *)
Propagate(delta) ==
  /\ date.year < LastYear
  /\ delta < DayMillis => parts < MaxParts
  /\ SetSeconds(delta)
  /\ ran' = [days |-> ran.days + (ran.ms + delta) \div DayMillis,
             ms |-> (ran.ms + delta) % DayMillis]
  /\ parts' = IF delta < DayMillis THEN parts + 1 ELSE parts
  /\ UNCHANGED <<ring, satrecs, zone>>

Next == \E delta \in Deltas : Propagate(delta)

Spec == Init /\ [][Next]_vars

-----------------------------------------------------------------------------
(* The satellites of a ring are spread evenly over their orbit, the one     *)
(* that the propagator reads: from each to the next, and from the last back *)
(* to the first, it is an equal part of a turn, to within a hundredth of a  *)
(* turn, either way round.  The table of ring.js has to match what          *)
(* twoline2satrec makes of the motion.  Not so for periods that are not     *)
(* listed and for inclinations below one degree.                            *)
RingIsEven ==
  Listed(ring.period) /\ ring.inclination >= 10 =>
    \A i \in 1 .. ring.number :
      LET turn == 6 * (144000000 \div satrecs[i].no)
          next == (i % ring.number) + 1
          off == (satrecs[next].epoch.sec - satrecs[i].epoch.sec - turn \div ring.number) % turn
      IN off <= turn \div 100 \/ turn - off <= turn \div 100

(* The time that the propagator is asked for, as jday counts days.          *)
Clock == (Jday(date) - Jday(Start)) * DaySeconds + sec

(* The summers that have begun, and that have ended, under the animation.   *)
Begun == {summer \in zone.summers : Started < summer.from /\ summer.from <= time}
Ended == {summer \in zone.summers : Started < summer.to /\ summer.to <= time}

(* The time since the start, as the propagator counts it, is the time the   *)
(* animation has run for, less under a second for each frame that was not   *)
(* of whole seconds; across months, leap years and years.  Local time costs *)
(* it the hour of every summer: it gains that hour when the summer ends,    *)
(* and has lost it at most once for every summer that began.                *)
ClockFollowsAnimation ==
  LET behind == (ran.days * DaySeconds + ran.ms \div 1000) - (Clock - Started)
      owed == behind + zone.saves * Cardinality(Ended)
  IN 0 <= owed /\ owed <= parts + zone.saves * Cardinality(Begun)

(* The satellites never move backwards, not where the clocks of the time    *)
(* zone are set back, nor where a frame ends in the hour that they skip.    *)
ClockNeverTurnsBack == [][Clock' >= Clock]_vars

(* invjday gives the date of a julian date back, and element lines with the *)
(* day of the year of a date have it as their epoch.                        *)
CalendarsAgree ==
  LET dayofyr == Jday(date) - Jday(Date(date.year, 1, 1)) + 1 IN
  /\ Invjday(Jday(date), sec) = date
  /\ Days2mdhms(date.year, dayofyr) = date
  /\ date.year <= 2056 => Epoch(date.year % 100, dayofyr, sec).jd = Jday(date)
=============================================================================
