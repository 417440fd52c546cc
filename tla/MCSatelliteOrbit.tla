-------------------------- MODULE MCSatelliteOrbit --------------------------
(***************************************************************************)
(* Every period of the table of ring.js, a ring of one satellite and one   *)
(* of many, a period that is not in the table, an inclination below one    *)
(* degree; and time zones west and east of UTC, with summers of the north, *)
(* with summers of the south, which the start falls in, and with none.     *)
(***************************************************************************)
EXTENDS SatelliteOrbit

MCRings ==
  {[inclination |-> 450, period |-> p, number |-> 3] : p \in {900, 930, 960, 980, 990, 1000}}
    \cup {[inclination |-> 900, period |-> p, number |-> 4] : p \in {910, 920, 940, 950, 970}}
    \cup {[inclination |-> 600, period |-> 950, number |-> 1],
          [inclination |-> 600, period |-> 980, number |-> 40]}
    \cup {[inclination |-> 5, period |-> 950, number |-> 3],
          [inclination |-> 1200, period |-> 955, number |-> 3]}

Hour == 3600

(* An hour of UTC, by the days since the start. *)
At(day, hour) == day * DaySeconds + hour * Hour
Summer(from, to) == [from |-> from, to |-> to]

Greenwich == [offset |-> 0, saves |-> 0, summers |-> {}]
Kolkata == [offset |-> 5 * Hour + 1800, saves |-> 0, summers |-> {}]

(* 11 March to 4 November 2018, 10 March to 3 November 2019, and so on. *)
Toronto ==
  [offset |-> -5 * Hour, saves |-> Hour,
   summers |-> {Summer(At(38, 7), At(276, 6)), Summer(At(402, 7), At(640, 6)),
                Summer(At(766, 7), At(1004, 6))}]

(* 1 October 2017 to 1 April 2018, 7 October 2018 to 7 April 2019, and so on. *)
Sydney ==
  [offset |-> 10 * Hour, saves |-> Hour,
   summers |-> {Summer(At(-124, 16), At(58, 16)), Summer(At(247, 16), At(429, 16)),
                Summer(At(611, 16), At(793, 16)), Summer(At(975, 16), At(1157, 16))}]

MCZones == {Greenwich, Kolkata, Toronto, Sydney}
=============================================================================
