-------------------------- MODULE SatelliteNetwork --------------------------
(***************************************************************************)
(* One simulation of core.Manager on the event simulator: the agenda of    *)
(* jns.Simulator, the packet sources, the queues of the duplex links, the  *)
(* periodic re-routing, and the accounting that becomes the output.        *)
(*                                                                         *)
(* Every action is one iteration of Simulator.run: it takes the first      *)
(* command of the agenda, sets the clock and executes the command.  Times  *)
(* are natural numbers; the random gaps between packets, the delays of a   *)
(* hop (distance and length), the corruption of a packet, the positions of *)
(* the satellites and with them the uplinks and paths are chosen freely.   *)
(***************************************************************************)
EXTENDS ForwardingTables, EventQueue

CONSTANTS
  EndTime,      (* endTimeInMinutes, in units of the model             *)
  DeltaT,       (* interval between two updates                        *)
  Gaps,         (* time between two packets of a sender (exponential)  *)
  Delays,       (* time on a link: distance / c + length / bandwidth   *)
  Lossy         (* whether some link has a bit error rate above 0      *)

(* Exponential gaps and the delay of a hop are positive; deltaT is taken    *)
(* from the request as it is and the program ends only if it is positive.   *)
ASSUME TimingAssumption ==
  /\ EndTime \in Nat
  /\ DeltaT \in Nat \ {0}
  /\ Gaps \subseteq Nat \ {0}
  /\ Delays \subseteq Nat \ {0}
  /\ Lossy \in BOOLEAN

VARIABLES
  now,          (* Simulator.m_time and Manager.simTime                     *)
  agenda,       (* Simulator.m_commands, in order of execution              *)
  phase,        (* "running", "stopped" (m_finished), "done" (run returned) *)
  uplink,       (* GroundStation.connectedSat                               *)
  table,        (* Station.routingTable: table[d][s] is the entry of s for d *)
  paths,        (* Manager.paths: the satellites of each sender's path      *)
  queue,        (* toA and toB of every link                                *)
  tally,        (* the counting maps of Manager, per sender                 *)
  delays,       (* Manager.packetDelays                                     *)
  newest,       (* Manager.lastGoodPackets                                  *)
  lastUpdate,   (* Manager.lastSatUpdateSimTime                             *)
  events        (* Manager.events                                           *)

netVars  == <<uplink, table, paths>>
bookVars == <<tally, delays, newest>>
vars == <<now, agenda, phase, netVars, queue, bookVars, lastUpdate, events>>

-----------------------------------------------------------------------------
Packet == [sender : Sender, born : Nat]

Operation ==
  {<<"update">>, <<"stop">>}
    \cup ({"create"} \X Sender) \cup ({"send"} \X Channel)

Command == [time : Nat, op : Operation]

At(t, o) == [time |-> t, op |-> o]

Field == {"created", "good", "late", "damaged", "dropped"}

(* No entry in a counting map reads as 0, no entry in packetDelays as an    *)
(* empty list.                                                              *)
NoCounts == [s \in Sender |-> [f \in Field |-> 0]]
NoDelays == [s \in Sender |-> <<>>]

TypeOK ==
  /\ now \in Nat
  /\ agenda \in Seq(Command)
  /\ phase \in {"running", "stopped", "done"}
  /\ uplink \in [Ground -> Sat \cup {NoSat}]
  /\ table \in [Ground -> [Sat -> Link \cup {NoLink}]]
  /\ paths = <<>> \/ paths \in [Sender -> Walk]
  /\ queue \in [Channel -> Seq(Packet)]
  /\ tally \in [Sender -> [Field -> Nat]]
  /\ delays \in [Sender -> Seq(Nat)]
  /\ newest \in [Sender -> Nat \cup {-1}]
  /\ lastUpdate \in Nat

-----------------------------------------------------------------------------
(* The constructor schedules the first update, the stop command and then    *)
(* the first packet of every sender, in the order of a hash map: among      *)
(* commands of equal time only the creations can come in any order.         *)
FirstTime(o, gap) ==
  CASE o = <<"update">> -> 0
    [] o = <<"stop">>   -> EndTime
    [] OTHER            -> gap[o[2]]

InitialOps == {<<"update">>, <<"stop">>} \cup ({"create"} \X Sender)

InitialAgendas ==
  {a \in {[i \in DOMAIN f |-> At(FirstTime(f[i], gap), f[i])] :
            f \in {g \in [1 .. Cardinality(InitialOps) -> InitialOps] :
                     \A i, j \in DOMAIN g : g[i] = g[j] => i = j},
            gap \in [Sender -> Gaps]} :
     /\ Ordered(a)
     /\ a[1].op = <<"update">>
     /\ \A i, j \in DOMAIN a :
          a[i].op = <<"stop">> /\ a[j].time = EndTime /\ j < i
            => a[j].op = <<"update">>}

Init ==
  /\ now = 0
  /\ agenda \in InitialAgendas
  /\ phase = "running"
  /\ uplink = [g \in Ground |-> NoSat]
  /\ table = [d \in Ground |-> [s \in Sat |-> NoLink]]
  /\ paths = <<>>
  /\ queue = [c \in Channel |-> <<>>]
  /\ tally = NoCounts
  /\ delays = NoDelays
  /\ newest = [s \in Sender |-> -1]
  /\ lastUpdate = 0
  /\ events = <<>>

-----------------------------------------------------------------------------
(* Station.send: what becomes of packet p at station st.                    *)
Dest(p) == p.sender[2]

(* getRout; a ground station always answers with its uplink. *)
RouteAt(st, d) ==
  IF st \in Sat THEN table[d][st]
  ELSE IF uplink[st] = NoSat THEN NoLink ELSE <<st, uplink[st]>>

Arrived(st, p)   == st = Dest(p)
Unroutable(st, p) == ~Arrived(st, p) /\ RouteAt(st, Dest(p)) = NoLink
Forwarded(st, p) == ~Arrived(st, p) /\ RouteAt(st, Dest(p)) # NoLink

ChannelFrom(st, p) ==
  LET l == RouteAt(st, Dest(p)) IN <<l, OtherStation(l, st)>>

(* Seeded fault: sendTo schedules whatever the length of the queue. *)
AgendaAfterSendAlways(a, q, st, p, t) ==
  IF Forwarded(st, p) THEN Push(a, At(t, <<"send", ChannelFrom(st, p)>>)) ELSE a

(* SmartDuplexLink.sendTo: append, and schedule the transmission if the     *)
(* queue was empty.                                                         *)
QueueAfterSend(q, st, p) ==
  IF Forwarded(st, p) THEN [q EXCEPT ![ChannelFrom(st, p)] = Append(@, p)] ELSE q

AgendaAfterSend(a, q, st, p, t) ==
  IF Forwarded(st, p) /\ q[ChannelFrom(st, p)] = <<>>
  THEN Push(a, At(t, <<"send", ChannelFrom(st, p)>>))
  ELSE a

Count(tl, s, f) == [tl EXCEPT ![s] = [tl[s] EXCEPT ![f] = tl[s][f] + 1]]

(* gotPacket and dropPacket.  A packet is late if a packet of its sender    *)
(* created no earlier has been delivered.                                   *)
InOrder(p) == newest[p.sender] < p.born

FateAt(st, p) ==
  IF Unroutable(st, p) THEN "dropped" ELSE IF InOrder(p) THEN "good" ELSE "late"

(* Seeded fault: a late packet counts as good too. *)
TallyAfterSendTwice(tl, st, p) ==
  IF Forwarded(st, p) THEN tl
  ELSE IF FateAt(st, p) = "late" THEN Count(Count(tl, p.sender, "late"), p.sender, "good")
  ELSE Count(tl, p.sender, FateAt(st, p))

TallyAfterSend(tl, st, p) ==
  IF Forwarded(st, p) THEN tl ELSE Count(tl, p.sender, FateAt(st, p))

DelaysAfterSend(st, p, t) ==
  IF Arrived(st, p)
  THEN [delays EXCEPT ![p.sender] = Append(@, t - p.born)]
  ELSE delays

(* Seeded fault: lastGoodPackets keeps the time of the delivery. *)
NewestAfterSendArrival(st, p) ==
  IF Arrived(st, p) /\ InOrder(p)
  THEN [newest EXCEPT ![p.sender] = now']
  ELSE newest

NewestAfterSend(st, p) ==
  IF Arrived(st, p) /\ InOrder(p)
  THEN [newest EXCEPT ![p.sender] = p.born]
  ELSE newest

-----------------------------------------------------------------------------
(* Simulator.run takes the command o off the agenda and sets the clock. *)
Take(o) ==
  /\ phase = "running"
  /\ agenda # <<>>
  /\ Peek(agenda).op = o
  /\ now' = Peek(agenda).time

(* AutoPacketSender.createEvent: one packet of sender s, then the next      *)
(* creation.                                                                *)
CreatePacket(s) ==
  /\ Take(<<"create", s>>)
  /\ \E gap \in Gaps, delay \in Delays :
       LET p == [sender |-> s, born |-> now']
           a == AgendaAfterSend(Pop(agenda), queue, s[1], p, now' + delay)
       IN /\ queue' = QueueAfterSend(queue, s[1], p)
          /\ agenda' = Push(a, At(now' + gap, <<"create", s>>))
          /\ tally' = TallyAfterSend(Count(tally, s, "created"), s[1], p)
          /\ delays' = DelaysAfterSend(s[1], p, now')
          /\ newest' = NewestAfterSend(s[1], p)
  /\ UNCHANGED <<phase, netVars, lastUpdate, events>>

(* PacketSendEvent schedules the next transmission of its queue. *)
ScheduleNext(a, q, c, t) ==
  IF q[c] # <<>> THEN Push(a, At(t, <<"send", c>>)) ELSE a

(* Seeded fault: a corrupted packet is not counted. *)
DamagePacketUncounted(c) ==
  /\ Lossy
  /\ Take(<<"send", c>>)
  /\ queue' = [queue EXCEPT ![c] = Tail(@)]
  /\ \E delay \in Delays :
       agenda' = ScheduleNext(Pop(agenda), queue', c, now' + delay)
  /\ UNCHANGED <<phase, netVars, bookVars, lastUpdate, events>>

(* PacketSendEvent.execute, the packet is corrupted on the link. *)
DamagePacket(c) ==
  /\ Lossy
  /\ Take(<<"send", c>>)
  /\ queue' = [queue EXCEPT ![c] = Tail(@)]
  /\ \E delay \in Delays :
       agenda' = ScheduleNext(Pop(agenda), queue', c, now' + delay)
  /\ tally' = Count(tally, Head(queue[c]).sender, "damaged")
  /\ UNCHANGED <<phase, netVars, delays, newest, lastUpdate, events>>

(* PacketSendEvent.execute, the packet reaches the station at the end. *)
PassPacket(c) ==
  /\ Take(<<"send", c>>)
  /\ \E onward, delay \in Delays :
       LET p == Head(queue[c])
           q == [queue EXCEPT ![c] = Tail(@)]
           a == AgendaAfterSend(Pop(agenda), q, c[2], p, now' + onward)
       IN /\ queue' = QueueAfterSend(q, c[2], p)
          /\ agenda' = ScheduleNext(a, queue', c, now' + delay)
          /\ tally' = TallyAfterSend(tally, c[2], p)
          /\ delays' = DelaysAfterSend(c[2], p, now')
          /\ newest' = NewestAfterSend(c[2], p)
  /\ UNCHANGED <<phase, netVars, lastUpdate, events>>

-----------------------------------------------------------------------------
(* The ids written for a path: the source, its satellite, and then, link by *)
(* link, the other station, counting from the SOURCE.                       *)
RecordedIds(s) ==
  LET links == PathLinks(paths[s])
      tx[i \in 0 .. Len(links)] ==
        IF i = 0 THEN s[1] ELSE OtherStation(links[i], tx[i - 1])
  IN <<s[1], uplink[s[1]]>> \o [i \in 1 .. Len(links) |-> tx[i]]

(* What the geometry decides: the nearest satellite of every ground station *)
(* and the path of every sender; and the iteration order of the hash map.   *)
Routing ==
  {r \in [best  : [Ground -> Sat],
          walk  : [Sender -> Walk],
          order : [Ground -> UNION {IterationOrders(d) : d \in Ground}]] :
     /\ \A s \in Sender : /\ r.walk[s][1] = r.best[s[1]]
                          /\ r.walk[s] \in WalkTo(r.best[s[2]])
     /\ \A d \in Ground : r.order[d] \in IterationOrders(d)}

EventData(t) ==
  [start |-> lastUpdate, end |-> t,
   paths |-> [s \in DOMAIN paths |->
                [ids |-> RecordedIds(s), counts |-> tally[s], delays |-> delays[s]]]]

(* Seeded fault: the start of the next period is not moved. *)
RecordPeriodAgain(t) ==
  /\ events' = Append(events, EventData(t))
  /\ tally' = NoCounts
  /\ delays' = NoDelays
  /\ UNCHANGED lastUpdate

(* The first half of Manager.updateSattelitePositions: write the event of   *)
(* the period that ends at t and clear the maps.                            *)
RecordPeriod(t) ==
  /\ events' = Append(events, EventData(t))
  /\ tally' = NoCounts
  /\ delays' = NoDelays
  /\ lastUpdate' = t

(* The second half: move the satellites, choose uplinks and paths, write    *)
(* them into the routing tables.                                            *)
RerouteAll ==
  \E r \in Routing :
    /\ uplink' = r.best
    /\ paths' = r.walk
    /\ table' = [d \in Ground |->
         Reroute(table[d], d, uplink[d], r.best[d],
                 [g \in Sources(d) |-> r.walk[<<g, d>>]], r.order[d])]

UpdateSatellitePositions(t) ==
  /\ RecordPeriod(t)
  /\ RerouteAll
  /\ UNCHANGED <<queue, newest>>

(* UpdateSatellitePosition.execute. *)
Update ==
  /\ Take(<<"update">>)
  /\ UpdateSatellitePositions(now')
  /\ agenda' = Push(Pop(agenda), At(now' + DeltaT, <<"update">>))
  /\ UNCHANGED phase

(* StopCommand.execute. *)
Stop ==
  /\ Take(<<"stop">>)
  /\ phase' = "stopped"
  /\ agenda' = Pop(agenda)
  /\ UNCHANGED <<netVars, queue, bookVars, lastUpdate, events>>

(* Seeded fault: the loop ends with an empty agenda only. *)
FinishDrained ==
  /\ phase # "done"
  /\ agenda = <<>>
  /\ phase' = "done"
  /\ UpdateSatellitePositions(now)
  /\ UNCHANGED <<now, agenda>>

(* Manager.run behind sim.run(): one more update, then the output. *)
Finish ==
  /\ phase # "done"
  /\ phase = "running" => agenda = <<>>
  /\ phase' = "done"
  /\ UpdateSatellitePositions(now)
  /\ UNCHANGED <<now, agenda>>

Next ==
  \/ \E s \in Sender : CreatePacket(s)
  \/ \E c \in Channel : DamagePacket(c) \/ PassPacket(c)
  \/ Update
  \/ Stop
  \/ Finish

Spec == Init /\ [][Next]_vars

(* One thread runs the loop; nothing it does blocks. *)
FairSpec == Spec /\ WF_vars(Next)

-----------------------------------------------------------------------------
Flying == UNION {{queue[c][i] : i \in DOMAIN queue[c]} : c \in Channel}

(* The counts of the closed periods of s, summed. *)
ClosedBook(s) ==
  LET counts(e) == IF s \in DOMAIN e.paths THEN e.paths[s].counts ELSE NoCounts[s]
      sum[i \in 0 .. Len(events)] ==
        IF i = 0 THEN NoCounts[s]
        ELSE [f \in Field |-> sum[i - 1][f] + counts(events[i])[f]]
  IN sum[Len(events)]

(* A link direction transmits one packet at a time: its queue is non-empty  *)
(* exactly if one transmission of it is pending, and never two are.  The    *)
(* code has no flag for this; it follows from sendTo scheduling on size 1   *)
(* and execute rescheduling on non-empty, across forwards of one event into *)
(* other queues.                                                            *)
OneTransmissionPerBusyQueue ==
  \A c \in Channel :
    Cardinality(PendingAt(agenda, <<"send", c>>)) = IF queue[c] = <<>> THEN 0 ELSE 1

(* The agenda is in temporal order and holds nothing that is past.          *)
NothingInThePast ==
  /\ Ordered(agenda)
  /\ \A i \in DOMAIN agenda : agenda[i].time >= now

(* The reported periods follow one another without gap or overlap, and when *)
(* the run is done they cover the simulated time up to EndTime.             *)
PeriodsTile ==
  /\ \A i \in DOMAIN events :
       events[i].start = IF i = 1 THEN 0 ELSE events[i - 1].end
  /\ lastUpdate = IF events = <<>> THEN 0 ELSE events[Len(events)].end
  /\ phase = "done" => lastUpdate = EndTime
  /\ \A i \in DOMAIN events : i > 1 => DOMAIN events[i].paths = Sender

(* Packets of one sender overtake each other only if a re-routing moved the *)
(* sender to another path: as long as the first routing stands every packet *)
(* is delivered in order.                                                   *)
InOrderUntilReroute ==
  Len(events) = 1 => \A s \in Sender : tally[s]["late"] = 0

(* No packet is ever dropped for want of a route, although the tables are   *)
(* rewritten under the packets in flight and the drop count is reset with   *)
(* every period.                                                            *)
NeverDropped == \A s \in Sender : tally[s]["dropped"] = 0

(* Whatever the hash map order and however many updates old, the entry of a *)
(* satellite leads to the destination or to a satellite with an entry.      *)
RoutesLeadOn == \A d \in Ground : NoDeadEnd(table[d], d)

(* No set of satellites passes the packets for d around among themselves.   *)
NoForwardingLoop == \A d \in Ground : NoCycle(table[d])

(* PathData says of the recorded station ids that they are "in order from   *)
(* source to destination, the ids of each point in the journey": from each  *)
(* to the next there is a link.                                             *)
RecordedPathIsJourney ==
  \A i \in DOMAIN events : \A s \in DOMAIN events[i].paths :
    LET ids == events[i].paths[s].ids
    IN \A k \in 1 .. Len(ids) - 1 : LinkOf(ids[k], ids[k + 1]) \in Link

(* The counts of the output are those of a packet ledger: every step        *)
(* creates one packet, ends one packet with one fate, closes a period, or   *)
(* changes nothing in the books.                                            *)
Ledger == INSTANCE PacketLedger
  WITH Senders <- Sender, Stamps <- 0 .. EndTime, flying <- Flying,
       period  <- tally,
       archive <- [s \in Sender |-> ClosedBook(s)]

LedgerSpec == Ledger!Spec

(* At any time, in the middle of a period and across the periods that have  *)
(* been reported, the packets created by a sender are those that ended with *)
(* one of the four fates and those in some queue.                           *)
Balanced == Ledger!Balanced

(* A run always ends: the updates and the sources reschedule themselves     *)
(* forever, and the stop command still gets its turn.                       *)
Termination == <>(phase = "done")
=============================================================================
