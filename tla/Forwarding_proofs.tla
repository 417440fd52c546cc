-------------------------- MODULE Forwarding_proofs --------------------------
(***************************************************************************)
(* One packet under way while the tables change, for any number of ground  *)
(* stations, satellites and updates: the tables have no loop to keep it    *)
(* in, it is never dropped, and every hop leaves fewer stations ahead.     *)
(***************************************************************************)
EXTENDS Forwarding, ForwardingTables_proofs

-----------------------------------------------------------------------------
(* The inductive invariant.  What an update relies on is that the entries   *)
(* it leaves in place, of updates before it, lead on and not around.  What  *)
(* the packet relies on is that an uplink and a hop lead to a satellite     *)
(* that has an entry, and that no update takes one away.                    *)
ColumnInv ==
  /\ column \in [Sat -> Entries]
  /\ NoDeadEnd(column, Dest)
  /\ NoCycle(column)

PacketInv ==
  /\ at \in Ground \cup Sat
  /\ at \in Sat => column[at] # NoLink
  /\ \A g \in Sources(Dest) : uplink[g] = NoSat \/ (uplink[g] \in Sat /\ column[uplink[g]] # NoLink)
  /\ ~ lost

LEMMA PacketInit == Init => ColumnInv /\ PacketInv
<1> SUFFICES ASSUME Init PROVE ColumnInv /\ PacketInv
  OBVIOUS
<1>1. \A s \in Sat : column[s] = NoLink
  BY DEF Init
<1>2. column \in [Sat -> Entries]
  BY DEF Init, Entries
<1>3. NoDeadEnd(column, Dest) /\ NoCycle(column)
  BY <1>1 DEF NoDeadEnd, NoCycle
<1>4. at \in Ground /\ \A g \in Sources(Dest) : uplink[g] = NoSat
  BY DEF Init, Sources
<1>5. at \notin Sat
  BY <1>4, StationFacts
<1>6. ~ lost
  BY DEF Init
<1> QED BY <1>2, <1>3, <1>4, <1>5, <1>6 DEF ColumnInv, PacketInv

LEMMA UpdateKeepsPacket ==
  ASSUME ColumnInv, PacketInv, Update
  PROVE  ColumnInv' /\ PacketInv'
<1>1. PICK best \in [Ground -> Sat], order \in IterationOrders(Dest) :
      \E walk \in [Sources(Dest) -> WalkTo(best[Dest])] :
        /\ \A g \in Sources(Dest) : walk[g][1] = best[g]
        /\ uplink' = best
        /\ column' = Reroute(column, Dest, uplink[Dest], best[Dest], walk, order)
  BY DEF Update
<1>2. PICK walk \in [Sources(Dest) -> WalkTo(best[Dest])] :
        /\ \A g \in Sources(Dest) : walk[g][1] = best[g]
        /\ uplink' = best
        /\ column' = Reroute(column, Dest, uplink[Dest], best[Dest], walk, order)
  BY <1>1
<1>3. Dest \in Ground /\ best[Dest] \in Sat
  BY ForwardingAssumption
<1>4. walk \in [Sources(Dest) -> Walk] /\ \A g \in Sources(Dest) : walk[g] \in WalkTo(best[Dest])
  BY DEF WalkTo
<1> DEFINE old == uplink[Dest]
           new == best[Dest]
<1> HIDE DEF old, new
<1>5. column' \in [Sat -> Entries] /\ NoDeadEnd(column', Dest) /\ NoCycle(column')
  <2>1. column \in [Sat -> Entries] /\ NoDeadEnd(column, Dest) /\ NoCycle(column)
    BY DEF ColumnInv
  <2> QED BY <1>2, <1>3, <1>4, <2>1, RerouteKeeps DEF old, new
<1>6. /\ \A s \in Sat : column[s] # NoLink => column'[s] # NoLink
      /\ \A g \in Sources(Dest) : walk[g][1] \in Sat /\ column'[walk[g][1]] # NoLink
  <2>1. column \in [Sat -> Entries] /\ NoDeadEnd(column, Dest) /\ NoCycle(column)
    BY DEF ColumnInv
  <2> DEFINE c == Reroute(column, Dest, old, new, walk, order)
  <2>2. \A s \in Sat : column[s] # NoLink => c[s] # NoLink
    BY <1>3, <1>4, <2>1, RerouteFills DEF new
  <2>3. \A g \in Sources(Dest) : walk[g][1] \in Sat /\ c[walk[g][1]] # NoLink
    BY <1>3, <1>4, <2>1, RerouteFills DEF new
  <2>4. column' = c
    BY <1>2 DEF old, new
  <2> HIDE DEF c
  <2> QED BY <2>2, <2>3, <2>4
<1>7. ColumnInv'
  BY <1>5 DEF ColumnInv, NoDeadEnd, NoCycle, NextHop
<1>8. \A g \in Sources(Dest) : uplink'[g] \in Sat /\ column'[uplink'[g]] # NoLink
  BY <1>2, <1>6
<1>9. UNCHANGED <<at, lost>>
  BY DEF Update
<1> QED BY <1>6, <1>7, <1>8, <1>9 DEF PacketInv

(* A hop is to Dest or to a satellite that knows the way.                   *)
LEMMA HopKeepsPacket ==
  ASSUME ColumnInv, PacketInv, SendUp \/ Forward
  PROVE  ColumnInv' /\ PacketInv'
<1>1. UNCHANGED <<uplink, column>>
  BY DEF SendUp, Forward
<1>2. ColumnInv'
  BY <1>1 DEF ColumnInv, NoDeadEnd, NoCycle, NextHop
<1>3. CASE SendUp
  <2>1. at' = uplink[at] /\ uplink[at] # NoSat /\ at \in Sources(Dest) /\ lost' = lost
    BY <1>3 DEF SendUp
  <2>2. at' \in Sat /\ column[at'] # NoLink
    BY <2>1 DEF PacketInv
  <2> QED BY <1>1, <1>2, <2>1, <2>2 DEF PacketInv
<1>4. CASE Forward
  <2>1. at \in Sat /\ column[at] # NoLink /\ lost' = (column[at] = NoLink) /\ (~ lost' => at' = NextHop(column, at))
    BY <1>4 DEF Forward, PacketInv
  <2>2. ~ lost' /\ at' = NextHop(column, at)
    BY <2>1
  <2>3. at' = Dest \/ (at' \in Sat /\ column[at'] # NoLink)
    BY <2>1, <2>2 DEF ColumnInv, NoDeadEnd
  <2>4. Dest \in Ground /\ Dest \notin Sat
    BY ForwardingAssumption, StationFacts
  <2> QED BY <1>1, <1>2, <2>2, <2>3, <2>4 DEF PacketInv
<1> QED BY <1>3, <1>4

LEMMA PacketNext == ColumnInv /\ PacketInv /\ [Next]_vars => ColumnInv' /\ PacketInv'
<1> SUFFICES ASSUME ColumnInv, PacketInv, [Next]_vars PROVE ColumnInv' /\ PacketInv'
  OBVIOUS
<1>1. CASE UNCHANGED vars
  BY <1>1 DEF vars, ColumnInv, PacketInv, NoDeadEnd, NoCycle, NextHop
<1> QED BY <1>1, UpdateKeepsPacket, HopKeepsPacket DEF Next

(* The column of Dest never has a loop for the packet to go round in,       *)
(* however the paths of several senders and updates lie over each other     *)
(* (Manager.updateSattelitePositions never clears a table).                 *)
THEOREM ColumnHasNoLoop == Spec => []NoForwardingLoop
<1>1. ColumnInv => NoForwardingLoop
  BY DEF ColumnInv, NoForwardingLoop
<1> QED BY <1>1, PacketInit, PacketNext, PTL DEF Spec

(* No station drops the packet (Station.send, Manager.dropPacket): a        *)
(* satellite without a route is never handed it, wherever among its hops    *)
(* the updates come.                                                        *)
THEOREM PacketIsNeverLost == Spec => []~lost
<1>1. PacketInv => ~ lost
  BY DEF PacketInv
<1> QED BY <1>1, PacketInit, PacketNext, PTL DEF Spec

-----------------------------------------------------------------------------
(* What delivery rests on.  The stations ahead of one are those that its    *)
(* entry, and the entries from there on, lead to.                           *)
Closed(col, C) == \A x \in C : x \in Sat /\ col[x] # NoLink => NextHop(col, x) \in C

Ahead(col, x) == {y \in Station : \A C \in SUBSET Station : x \in C /\ Closed(col, C) => y \in C}

LEMMA AheadFacts ==
  ASSUME NEW col, NoDeadEnd(col, Dest), NEW x \in Station
  PROVE  /\ Ahead(col, x) \in SUBSET Station /\ x \in Ahead(col, x)
         /\ Closed(col, Ahead(col, x))
         /\ \A C \in SUBSET Station : x \in C /\ Closed(col, C) => Ahead(col, x) \subseteq C
<1>1. ASSUME NEW y \in Ahead(col, x), y \in Sat, col[y] # NoLink
      PROVE  NextHop(col, y) \in Ahead(col, x)
  <2>1. NextHop(col, y) \in Station
    BY <1>1, ForwardingAssumption DEF NoDeadEnd, Station
  <2>2. ASSUME NEW C \in SUBSET Station, x \in C, Closed(col, C) PROVE NextHop(col, y) \in C
    <3>1. y \in C
      BY <2>2 DEF Ahead
    <3> QED BY <1>1, <2>2, <3>1 DEF Closed
  <2> QED BY <2>1, <2>2 DEF Ahead
<1>2. Closed(col, Ahead(col, x))
  BY <1>1 DEF Closed
<1> QED BY <1>2 DEF Ahead

LEMMA NothingAhead ==
  ASSUME NEW col, NoDeadEnd(col, Dest), NEW x \in Station, ~ (x \in Sat /\ col[x] # NoLink)
  PROVE  Ahead(col, x) = {x}
<1>1. Closed(col, {x}) /\ {x} \in SUBSET Station
  BY DEF Closed
<1> QED BY <1>1, AheadFacts

LEMMA NextAhead ==
  ASSUME NEW col, NoDeadEnd(col, Dest), NEW x \in Sat, col[x] # NoLink
  PROVE  /\ NextHop(col, x) \in Station
         /\ Ahead(col, NextHop(col, x)) \subseteq Ahead(col, x)
         /\ Ahead(col, x) \subseteq {x} \cup Ahead(col, NextHop(col, x))
<1> DEFINE y == NextHop(col, x)
<1>1. x \in Station /\ y \in Station
  BY ForwardingAssumption DEF NoDeadEnd, Station
<1> HIDE DEF y
<1>2. Ahead(col, y) \subseteq Ahead(col, x)
  <2>1. Ahead(col, x) \in SUBSET Station /\ x \in Ahead(col, x) /\ Closed(col, Ahead(col, x))
    BY <1>1, AheadFacts
  <2>2. y \in Ahead(col, x)
    BY <2>1 DEF Closed, y
  <2> QED BY <1>1, <2>1, <2>2, AheadFacts
<1>3. Ahead(col, x) \subseteq {x} \cup Ahead(col, y)
  <2> DEFINE C == {x} \cup Ahead(col, y)
  <2>1. Ahead(col, y) \in SUBSET Station /\ y \in Ahead(col, y) /\ Closed(col, Ahead(col, y))
    BY <1>1, AheadFacts
  <2>2. C \in SUBSET Station /\ x \in C
    BY <1>1, <2>1
  <2>3. Closed(col, C)
    <3>1. ASSUME NEW z \in C, z \in Sat, col[z] # NoLink PROVE NextHop(col, z) \in C
      BY <2>1, <3>1 DEF Closed, y
    <3> HIDE DEF C
    <3> QED BY <3>1 DEF Closed
  <2> HIDE DEF C
  <2>4. Ahead(col, x) \subseteq C
    BY <1>1, <2>2, <2>3, AheadFacts
  <2> QED BY <2>4 DEF C
<1> QED BY <1>1, <1>2, <1>3 DEF y

(* Where nothing goes round, a station is not ahead of the next one: those  *)
(* from the next one back to it would be a loop.                            *)
LEMMA NotBehind ==
  ASSUME NEW col, NoDeadEnd(col, Dest), NoCycle(col), NEW x \in Sat, col[x] # NoLink
  PROVE  x \notin Ahead(col, NextHop(col, x))
<1> DEFINE y == NextHop(col, x)
           C == {z \in Sat \cap Ahead(col, y) : x \in Ahead(col, z)}
<1>1. x \in Station /\ y \in Station /\ \A z \in Sat : z \in Station
  BY NextAhead DEF Station
<1> HIDE DEF y
<1> SUFFICES ASSUME x \in Ahead(col, y) PROVE FALSE
  BY DEF y
<1>2. x \in C
  BY <1>1, AheadFacts
<1>3. ASSUME NEW z \in C PROVE col[z] # NoLink /\ NextHop(col, z) \in C
  <2>1. z \in Sat /\ z \in Station /\ z \in Ahead(col, y) /\ x \in Ahead(col, z)
    BY <1>1
  <2>2. col[z] # NoLink
    <3> SUFFICES ASSUME col[z] = NoLink PROVE FALSE
      OBVIOUS
    <3>1. x = z
      BY <2>1, NothingAhead
    <3> QED BY <3>1
  <2> DEFINE n == NextHop(col, z)
  <2>3. n \in Station /\ Ahead(col, z) \subseteq {z} \cup Ahead(col, n)
    BY <2>1, <2>2, NextAhead
  <2>4. n \in Ahead(col, y)
    <3>1. Closed(col, Ahead(col, y))
      BY <1>1, AheadFacts
    <3> QED BY <2>1, <2>2, <3>1 DEF Closed
  <2>5. x \in Ahead(col, n)
    <3>1. CASE x = z
      BY <3>1 DEF y
    <3>2. CASE x # z
      BY <2>1, <2>3, <3>2
    <3> QED BY <3>1, <3>2
  <2> HIDE DEF n
  <2>6. n \in Sat
    <3> SUFFICES ASSUME n \notin Sat PROVE FALSE
      OBVIOUS
    <3>1. x = n
      BY <2>3, <2>5, NothingAhead
    <3> QED BY <3>1
  <2> QED BY <2>2, <2>4, <2>5, <2>6 DEF n
<1>4. C \in SUBSET Sat /\ C # {}
  BY <1>2
<1> HIDE DEF C
<1> QED BY <1>3, <1>4 DEF NoCycle

(* A hop leaves behind the station it leaves and adds none to those ahead:  *)
(* between two updates the packet comes to no station twice and is at Dest  *)
(* after as many hops as there are satellites, at the latest, whatever the  *)
(* tables were built up from.                                               *)
HopsAdvance == [][Forward => Ahead(column, at') \subseteq Ahead(column, at) \ {at}]_vars

THEOREM HopsOnlyAdvance == Spec => HopsAdvance
<1>1. ASSUME ColumnInv, PacketInv, Forward
      PROVE  Ahead(column, at') \subseteq Ahead(column, at) \ {at}
  <2>1. at \in Sat /\ column[at] # NoLink
    BY <1>1 DEF Forward, PacketInv
  <2>2. at' = NextHop(column, at)
    BY <1>1, <2>1 DEF Forward
  <2>3. NoDeadEnd(column, Dest) /\ NoCycle(column)
    BY <1>1 DEF ColumnInv
  <2>4. Ahead(column, NextHop(column, at)) \subseteq Ahead(column, at)
    BY <2>1, <2>3, NextAhead
  <2>5. at \notin Ahead(column, NextHop(column, at))
    BY <2>1, <2>3, NotBehind
  <2> QED BY <2>2, <2>4, <2>5
<1>2. ColumnInv /\ PacketInv /\ [Next]_vars => [Forward => Ahead(column, at') \subseteq Ahead(column, at) \ {at}]_vars
  BY <1>1
<1> QED BY <1>2, PacketInit, PacketNext, PTL DEF Spec, HopsAdvance
=============================================================================
