-------------------------- MODULE ForwardingTables --------------------------
(***************************************************************************)
(* The static network (stations and links) and the routing tables of the   *)
(* satellites, as operators.  Manager builds the stations with the ids     *)
(* 1, 2, ... (ground stations first, then satellites) and one link for     *)
(* every ground station and satellite and for every two satellites.        *)
(*                                                                         *)
(* The routing table of a satellite maps the id of a destination ground    *)
(* station to a link.  Every write of Manager and GroundStation touches    *)
(* one destination only, so the tables are handled column by column: a     *)
(* column is the entry of every satellite for one destination.             *)
(***************************************************************************)
EXTENDS Integers, Sequences, FiniteSets

CONSTANTS
  NumGround,    (* number of ground stations *)
  NumSat        (* number of satellites      *)

(* Without a satellite setupGroundStationUplinks fails on its first call. *)
ASSUME NetworkAssumption ==
  /\ NumGround \in Nat
  /\ NumSat \in Nat \ {0}

Ground  == 1 .. NumGround
Sat     == NumGround + 1 .. NumGround + NumSat
Station == Ground \cup Sat

NoSat  == 0           \* GroundStation.connectedSat before the first uplink
NoLink == <<0, 0>>    \* no entry in a routing table

(* Seeded fault: a link is named in the order it is travelled. *)
LinkOfTravel(x, y) == <<x, y>>

(* A link is <<stationA, stationB>>; stationA is the one created first, the *)
(* ground station when there is one.                                        *)
Link == {l \in Station \X Sat : l[1] < l[2]}

LinkOf(x, y) == IF x < y THEN <<x, y>> ELSE <<y, x>>

(* SmartDuplexLink.otherStation: stationA also for a station that is no end *)
(* of the link.                                                             *)
OtherStation(l, st) == IF l[1] = st THEN l[2] ELSE l[1]

(* One direction of a link: the queue toA or toB, by the receiving station. *)
Channel == {c \in Link \X Station : c[2] = c[1][1] \/ c[2] = c[1][2]}

Sender == {p \in Ground \X Ground : p[1] # p[2]}

Sources(d) == Ground \ {d}

-----------------------------------------------------------------------------
(* What Manager.route returns: a path that visits no station twice, never   *)
(* through a ground station, given here by the satellites it visits.  The   *)
(* search itself is module RouteSearch.                                     *)
Walk ==
  {w \in UNION {[1 .. n -> Sat] : n \in 1 .. NumSat} :
     \A i, j \in DOMAIN w : w[i] = w[j] => i = j}

WalkTo(b) == {w \in Walk : w[Len(w)] = b}

PathLinks(w) == [i \in 1 .. Len(w) - 1 |-> LinkOf(w[i], w[i + 1])]

(* s forwards along w: it is on w and not its last satellite. *)
ForwardsOn(w, s) == \E i \in 1 .. Len(w) - 1 : w[i] = s

NextOn(w, s) == w[1 + CHOOSE i \in 1 .. Len(w) - 1 : w[i] = s]

-----------------------------------------------------------------------------
(* Seeded faults: the satellite that d leaves forgets its route to d; the   *)
(* satellite that d joins keeps an older route.                             *)
SetSatLinkForgets(col, d, old, new) ==
  [s \in Sat |-> IF s = new THEN <<d, new>> ELSE IF s = old THEN NoLink ELSE col[s]]

SetSatLinkIfAbsent(col, d, old, new) ==
  [s \in Sat |-> IF s = old \/ (s = new /\ col[s] = NoLink) THEN <<d, new>> ELSE col[s]]

(* Seeded fault: only the satellite that d leaves gets the new uplink. *)
SetSatLinkOldOnly(col, d, old, new) ==
  [s \in Sat |-> IF s = old THEN <<d, new>> ELSE col[s]]

(* GroundStation.setSatLink for destination d: the satellite d leaves and   *)
(* the one it joins both get the new uplink as their route to d.            *)
SetSatLink(col, d, old, new) ==
  [s \in Sat |-> IF s = new \/ s = old THEN <<d, new>> ELSE col[s]]

(* The senders of "walk" whose path makes s write its entry. *)
Writers(walk, s) == {g \in DOMAIN walk : ForwardsOn(walk[g], s)}

LastWriter(walk, order, s) ==
  CHOOSE g \in Writers(walk, s) :
    \A h \in Writers(walk, s) : order[h] <= order[g]

(* The loop over paths.keySet() for the senders to one destination: walk[g] *)
(* is the path from ground station g and order[g] the place of that sender  *)
(* in the iteration.  The last sender through s decides its entry.          *)
PopulateRoutes(col, walk, order) ==
  [s \in Sat |->
     IF Writers(walk, s) = {}
     THEN col[s]
     ELSE LinkOf(s, NextOn(walk[LastWriter(walk, order, s)], s))]

(* What one call of updateSattelitePositions does to the column of d. *)
Reroute(col, d, old, new, walk, order) ==
  PopulateRoutes(SetSatLink(col, d, old, new), walk, order)

(* The orders in which the hash map can yield the senders to d. *)
IterationOrders(d) ==
  {o \in [Sources(d) -> 1 .. Cardinality(Sources(d))] :
     \A g, h \in Sources(d) : o[g] = o[h] => g = h}

-----------------------------------------------------------------------------
(* The station a satellite hands a packet to. *)
NextHop(col, s) == OtherStation(col[s], s)

(* Every satellite that knows a route to d hands the packet to d or to a    *)
(* satellite that knows one too: never to a station that drops it, never to *)
(* another ground station.                                                  *)
NoDeadEnd(col, d) ==
  \A s \in Sat : col[s] # NoLink =>
    \/ NextHop(col, s) = d
    \/ NextHop(col, s) \in Sat /\ col[NextHop(col, s)] # NoLink

(* There is no set of satellites a packet for d can be kept in forever. *)
NoCycle(col) ==
  \A C \in SUBSET Sat : C # {} =>
    \E s \in C : col[s] = NoLink \/ NextHop(col, s) \notin C
=============================================================================
