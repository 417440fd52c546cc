----------------------------- MODULE Forwarding -----------------------------
(***************************************************************************)
(* One packet on its way to ground station Dest while the satellites move  *)
(* and Manager.updateSattelitePositions rewrites the routing tables under  *)
(* it.  Tables are overwritten and never cleared: entries of earlier       *)
(* updates stay in use.  Queues, delays and damage are abstracted here     *)
(* (module SatelliteNetwork has them).                                     *)
(***************************************************************************)
EXTENDS ForwardingTables

CONSTANTS
  Dest,         (* the destination the packet is addressed to *)
  MaxUpdates    (* bound: calls of updateSattelitePositions   *)

ASSUME ForwardingAssumption ==
  /\ Dest \in Ground
  /\ MaxUpdates \in Nat

VARIABLES
  uplink,       (* connectedSat of every ground station               *)
  column,       (* the entry of every satellite for Dest              *)
  at,           (* the station that holds the packet                  *)
  lost,         (* a station without a route has dropped the packet   *)
  updates       (* updates so far                                     *)

vars == <<uplink, column, at, lost, updates>>

Init ==
  /\ uplink = [g \in Ground |-> NoSat]
  /\ column = [s \in Sat |-> NoLink]
  /\ at \in Sources(Dest)
  /\ lost = FALSE
  /\ updates = 0

(* setupGroundStationUplinks picks the nearest satellite of every ground    *)
(* station, route a path for every sender; both can be anything.            *)
Update ==
  /\ updates < MaxUpdates
  /\ updates' = updates + 1
  /\ \E best \in [Ground -> Sat], order \in IterationOrders(Dest) :
     \E walk \in [Sources(Dest) -> WalkTo(best[Dest])] :
       /\ \A g \in Sources(Dest) : walk[g][1] = best[g]
       /\ uplink' = best
       /\ column' = Reroute(column, Dest, uplink[Dest], best[Dest], walk, order)
  /\ UNCHANGED <<at, lost>>

(* Station.send at a ground station other than Dest: getRout is overridden  *)
(* and returns the uplink whatever the destination.                         *)
SendUp ==
  /\ at \in Sources(Dest)
  /\ uplink[at] # NoSat
  /\ at' = uplink[at]
  /\ UNCHANGED <<uplink, column, lost, updates>>

(* Station.send at a satellite: on with a route, dropPacket without one. *)
Forward ==
  /\ at \in Sat
  /\ ~lost
  /\ lost' = (column[at] = NoLink)
  /\ at' = IF lost' THEN at ELSE NextHop(column, at)
  /\ UNCHANGED <<uplink, column, updates>>

Next == Update \/ SendUp \/ Forward

Spec == Init /\ [][Next]_vars

(* The simulator executes the pending hop of a packet sooner or later, and  *)
(* a packet is created after the first update only.                         *)
FairSpec == Spec /\ WF_vars(SendUp \/ Forward)
                 /\ WF_vars(updates = 0 /\ Update)

-----------------------------------------------------------------------------
(* However the paths of several senders and of several updates overwrite    *)
(* each other, the tables never contain a forwarding loop.                  *)
NoForwardingLoop == NoCycle(column)

(* Wherever the packet is when the tables change under it, it reaches Dest  *)
(* once the tables stop changing.                                           *)
EventuallyDelivered == <>(at = Dest)
=============================================================================
