# A TLA+ model of SatelliteSimulator

SatelliteSimulator is a web page in which a user lays out satellite
constellations and ground stations, and a Java server that simulates packets
between the ground stations over the satellites. These modules specify the part
of it that has state and order: the simulation itself, its routing, its
accounting, the server that runs simulations for browsers, the page with its
forms, its runs and its playback, the clock and the satellites of its globe, and
the go-back-n agents of the simulator library. TLC checks the
specifications on small instances, TLAPS proves nearly all of the safety
properties for every size.

Line numbers are those of the files under `src/`; `M` stands for
`src/core/Manager.java`.

## 1. The system

| part | state | operations | talks to |
|---|---|---|---|
| event kernel: `jns/Simulator`, `jns/util/PriorityQueue`, `jns/command/*` | singleton instance, clock, list of pending commands, `m_finished` | `schedule`, `run`, `StopCommand.execute`, `push`, `peek`, `pop` | executes the commands of all other parts |
| manager: `core/Manager`, `core/UpdateSatellitePosition` | stations, links, senders, paths, counting maps, times, events | constructor, `run`, `setTime`, `updateSattelitePositions`, `createPacket`, `damagedPacket`, `dropPacket`, `gotPacket` | scheduled by the kernel; called by stations, links, sources |
| stations: `core/Station`, `core/GroundStation`, `core/Satellite` | routing table, label and path of the search, uplink | `send`, `addRoute`, `getRout`, `setSatLink`, `updateLength` | links, manager |
| links: `core/SmartDuplexLink`, `core/SmartLink` | two packet queues, two dated directions | `sendTo`, `PacketSendEvent.execute`, `setDate`, `getDelay`, `getError` | kernel, stations, manager |
| route search: `Manager.route` | sorted list of stations, labels, paths | one search per sender and update | stations, links |
| sources: `core/AutoPacketSender` | rate | `createEvent` | kernel, ground station, manager |
| output: `data/*` | events with paths, counts, delays, positions | written by the manager | server |
| server: `server/Server` | `lastOutput`, `manager_lock` | `SimulateHandler`, `CheckHandler`, `MainHandler`, one thread per simulation | manager, pages |
| page, configuration: `script.js`, `globe.js/globe.js` | constellation, ground stations, settings, cards, layers of the globe | handlers of cards, library, canvas; `configure`, `applyGroundStations` | globe; posted by Run |
| page, runs: `webservice.js`, `script.js` | loading flag, pending requests and timers, output, step, chart, interval, frames | `postWithData`, `waitForSimulationToFinish`, `outputResults`, `outputStep`, playback | server, globe |
| globe satellites: `globe.js/ring.js`, `satellite.js`, library `satellite.js/lib` | element records, clock | `twoline2satrec`, `sgp4init`, `propagate`, `update` | moved by the frames of the page |
| geometry: `core/Earth`, `R3`, `RoutingUtil` | none | distance, line of sight, loss, delay | links, manager |
| JNS stack: `jns/element/*`, `jns/util/RoutingTable` | nodes, IP handlers, interfaces, queues | unused by the satellite simulation | kernel |
| JNS agents: `jns/agent/*` | windows and timers of go-back-n | unused by the satellite simulation | JNS stack |
| dynamic scheduler: `jns/dynamic/*` | RMI object | remote scheduling by other threads | kernel |

What is hard here:

* *Order of events.* Everything in a simulation is an event of one thread, but
  events schedule events while they execute, at times that depend on random
  gaps and on the geometry. A busy link has no flag: that it transmits one
  packet at a time follows from `sendTo` scheduling on size 1
  (`SmartDuplexLink.java:134`) and `execute` rescheduling on non-empty (186).
* *State that is stale when used.* Routing tables are overwritten by every
  update under the packets in flight and never cleared.
* *Accounting over moving borders.* The counting maps are replaced at every
  update while packets are in flight.
* *Handlers that share a page.* A dozen handlers write the same configuration
  through positions that were current when a card was built, each must apply it
  to the globe itself, and requests, timers, frames and the playback's interval
  come in between in any order.
* *Numbers at their edges.* Element lines are read by columns that their writer
  does not keep, three calendars meet, a clock of whole seconds is advanced by
  fractions, and it is set in local time and read in UTC.
* *Packets that are never sent twice.* The go-back-n agents have windows and
  acknowledgements and no retransmission.
* *Threads and failure in the server.* Simulations share the singleton kernel,
  the station counter and the last output; `/check` reads without the lock; an
  exception ends a thread between two of its steps.

What makes each part correct:

* kernel: commands execute in temporal order, equal times in the order they
  were scheduled; the run ends;
* routing: an entry leads to its destination or to a satellite with an entry;
  no loops; no packet is dropped; each reaches its destination once the tables
  rest;
* links: exactly one transmission pending per busy direction, packets in order
  as long as the route stays;
* search: returns a walk over satellites, the best one when both directions of
  the links are equally good, and ends;
* accounting: every packet is counted once as created and once with its fate;
  the reported periods tile the simulated time; the recorded ids are the journey;
* server: a running simulation owns the singleton; each accepted simulation is
  run; a page that is told "done" sees its own output;
* page: what is shown on cards and globe is what is posted, and stays so; one
  conversation with the server at a time, which goes on or ends; the playback moves by one
  interval, and step, layers and chart agree;
* globe satellites: rings are even, the clock follows the animation and never
  turns back, in every time zone;
* agents: data arrives in order and once, what is acknowledged was received.

## 2. The modules

| module | what it is | code |
|---|---|---|
| `EventQueue` | `push`, `peek`, `pop` as operators on the sequence of pending commands | `PriorityQueue.java` |
| `ForwardingTables` | stations, links, walks, and what one update does to the table entries for one destination | `M:86-185, 338-400`, `GroundStation.java:77-84`, `Station.java:83-100` |
| `Forwarding` | one packet against tables that are rewritten under it | the same, queues abstracted |
| `SatelliteNetwork` | a whole simulation: agenda, sources, queues, damage, re-routing, accounting | `Manager`, `AutoPacketSender`, `SmartDuplexLink`, `Station`, `Simulator.run` |
| `PacketLedger` | abstract: what the packet counts promise | `PathData.java:8-14` |
| `RouteSearch` | the search for one path | `M:403-451`, `Station.java:32-44` |
| `SimulationServer` | server threads, lock, singleton, last output, pages | `Server.java`, `script.js:544-595`, `webservice.js:32-77` |
| `PageConfiguration` | the forms: constellation, ground stations, settings, their cards and the globe | `script.js:1-535`, `globe.js/globe.js` |
| `PageResults` | post, checks, output, chart, playback, animation frames | `script.js:517-806`, `webservice.js` |
| `WebPage` (`MCWebPage`) | the whole page: the two joined by Run, with the properties | `script.js` |
| `PageRun` | abstract: one run as the page promises it | `webservice.js:28-80` |
| `Calendar` | Date with local time and UTC, `jday`, `days2mdhms`, `invjday` | `satellite.js/lib/ext.js` |
| `Propagator` | reading of element lines: mean motion and epoch | `satellite.js/lib/io.js` |
| `SatelliteOrbit` (`MCSatelliteOrbit`) | rings of satellites, and their clock under the animation in a time zone | `globe.js/ring.js`, `globe.js/satellite.js` |
| `GoBackN` | two agents, what is on the wire between them, losses | `jns/agent/SimpleGoBackN*.java` |
| `ForwardingTables_proofs`, `Forwarding_proofs`, `SatelliteNetwork_proofs`, `RouteSearch_proofs`, `SimulationServer_proofs`, `WebPage_proofs`, `SatelliteOrbit_proofs`, `GoBackN_proofs` | proofs | |

`Forwarding` and `SatelliteNetwork` compose with `ForwardingTables`;
`SatelliteNetwork` also with `EventQueue`. `RouteSearch` shares the network of
`ForwardingTables` and establishes what `Walk` takes for granted of the paths.
`SatelliteNetwork` instantiates `PacketLedger` with a refinement mapping, and
`WebPage`, which EXTENDS `PageConfiguration` and `PageResults`, instantiates
`PageRun`. `SatelliteOrbit` EXTENDS `Propagator`, which EXTENDS `Calendar`.

### SatelliteNetwork

One action is one iteration of `Simulator.run`: take the first command, set the
clock, execute it entirely.

| action | command | code |
|---|---|---|
| `CreatePacket(s)` | `AutoPacketCreate` | count, `Station.send` at the source, schedule the next creation |
| `DamagePacket(c)`, `PassPacket(c)` | `PacketSendEvent` of direction `c` | take the head, count it damaged or hand it to `Station.send` at the far end, reschedule |
| `Update` | `UpdateSatellitePosition` | record the period, clear, move, uplinks, paths, tables, reschedule |
| `Stop` | `StopCommand` | leave the loop |
| `Finish` | behind `sim.run()` in `Manager.run` | the final update |

`Station.send` is the group `Arrived`, `Unroutable`, `Forwarded` with
`QueueAfterSend`, `AgendaAfterSend`, `TallyAfterSend`, `DelaysAfterSend`,
`NewestAfterSend`. Times are natural numbers. What the geometry and the random
generators decide is chosen freely: gaps, delays of a hop (any element of
`Delays` for every hop, so also the delays of a direction whose date is never
moved, `SmartDuplexLink.java:118-119`), damage, uplinks, paths, and the order in
which a `HashMap` yields the senders. A path is any sequence of distinct
satellites between the two uplinks: `RouteSearch` shows that the search returns
one. Satellite positions, rings and date strings of the output are left out.

The tables are handled per destination (`table[d]` is a *column*), because every
write touches one destination. `SetSatLink` contains a detail of the code that
matters: a ground station that changes its uplink makes the satellite it
*leaves* route to it over a link that the satellite is no end of;
`otherStation` answers `stationA` for it, which is the ground station. So the
old satellite goes on delivering.

Ids: `Sender` is the pair of source and destination. The code numbers senders
in an unspecified order; the number is only a key. In the code a packet carries
"id:time" as text and parses it back; ids and doubles survive that exactly.

### RouteSearch

The label of a station is the product of survival probabilities; the model uses
losses on a logarithmic scale, sums capped at `Lost` (a product that is or
underflows to 0). Every direction of a link has its own loss, since the ends
transmit differently and one direction keeps the geometry of the first instant.
`LossSeenBy` is the call `link.getError(link.otherStation(this))` as it stands:
for a link of the path that does not touch the labelled station the direction is
the one towards `stationA`.

### SimulationServer

A browser (`client`) posts once and polls; the post starts a `thread` that goes
blocked, building, constructing, running, publishing, exited, or dies. A step
is what happens between two points at which another thread can see or change
something: taking the lock, `hasInstance`, the rest of the constructor, `run`,
the publication with the release of the lock. `/check` reads `lastOutput` twice
(221 and 223) and the model splits it there. `HttpServer` with
`setExecutor(null)` handles one exchange at a time: `checking` is the exchange
that is open between the two reads. With `MayFail` requests may not parse,
answers may be lost, and the constructor and the run may throw at any point.

### WebPage

An action is one event handler or callback, run to its end as the browser does.
`PageConfiguration` keeps, beside the configuration, what each card shows: cards
are rebuilt whole from the configuration (`applyPreset`, `applyGroundStations`)
and in between the handlers write through the `data-i` a card was built with. A
text is a number in tenths, the empty text (which JavaScript takes for 0) or a
word. Ground stations are objects in a heap (`objects`), listed by reference:
a preset of the library that is clicked again is the same object listed twice,
and both cards write to it. A name is a text with the numbers appended to it,
`taken` is `groundStationNames`. A label of a radio button finds the first
element of its id, so that `ChooseType` may act on the first card.

`PageResults` counts pending requests, timers, frames and intervals; their
callbacks are the actions. An output is its events, an event the packet counts
of its paths, which may be none. `phase`, the refinement mapping to `PageRun`,
reads the phase of a run off the counters.

### SatelliteOrbit

One action, `Propagate(delta)`, is one frame of the animation. Of a satellite's
record the model keeps the mean motion as `twoline2satrec` reads it by columns,
and the epoch. What the orbit theory computes for a time is left out.

The clock is a JavaScript Date. `satellite.js:13` and `:101` set it in the local
time of the browser, `ext.js:124-128` reads its fields in UTC. `time` is the
instant, in seconds since the start of 2018-02-01 in UTC; `date` and `sec` are
its UTC fields. A time zone is an offset, what its clocks are moved by in
summer, and its summers as intervals of UTC: `LocalTime` and `UTC` are the two
conversions, and `SetSeconds` goes through both, as `setSeconds` does. In the
hour that comes twice a local time is the first of the two, and in the hour that
is skipped it is read with the offset before the change; this is how the language
has defined `Date` since its 2018 edition. `OldUTC`, the rule of editions
before that, is the seeded fault of `ClockNeverTurnsBack`: with it frames can end
earlier than they began.

### GoBackN

Two agents with the connection states, windows and arrays of
`SimpleGoBackNAgent`, on one port or on two. The service below keeps the order
of packets and may lose any (`Lose`). It says READY_TO_SEND twice for every
packet that the node sends, of whichever agent (`SimplexInterface.java:193` and
again when the link is free, `IPHandler.indicate`,
`SimpleGoBackN.java:102-104`), with delays between: `ReadyToSend` may come at
any time, and `MaxUpdates` bounds how many updates it can pile up. Data packets
carry their sequence number; the `SYN`, `FIN` and `ACK` packets carry the next
one and the number acknowledged. `Receive` takes the first packet on the wire
through the `switch` of `indicate`; a packet for which the state has no branch
is ignored.

## 3. The runs

| run | instance | what it shows |
|---|---|---|
| `network` | 2 ground stations, 2 satellites, 4 time units, update every 2, hops of 1 or 2, lossy | types, one transmission per busy queue, refinement of the ledger with damage |
| `overtaking` | 7 time units, three re-routings | nothing dropped, routes lead on, no loops, periods tile, temporal order, every packet counted once with late packets (`Balanced`), termination |
| `in_order` | one routing for the whole run, hops of 1 or 2 | no packet is late before the first re-routing |
| `forwarding` | 3 ground stations, 3 satellites, 3 updates | dead ends and loops with two senders' paths overwriting each other, delivery |
| `route` | 1 ground station, 4 satellites, three losses with equal directions or two per direction | the search returns a walk, every iteration makes progress, and with equal directions a station that has left the list keeps its label and the path is a best one |
| `page` | 3 edits, Run before or after the first, any failure, 3 outputs | cards, globe and posted configuration agree; names differ; one conversation, one interval, matching chart; a run ends or is polled for; the animation ends |
| `orbit` | every period of the table, rings of 1, 3, 4 and 40; four time zones; days to 2021 with up to 2 shorter frames | rings are even, the clock follows the animation and never turns back, calendars agree |
| `gobackn` | window 2, 4 packets, 4 calls, 1 loss, ports equal or not | order, acknowledgement, window, arrival |
| `server` | 3 browsers, anything may fail | the singleton belongs to the running simulation, a failure is final, everybody is served unless something failed, and comes to rest once there is an output |
| `journey` | as `network` | violated: recorded station ids, see below |
| `server_already` | 2 browsers | violated: "already running" |
| `server_done` | 2 browsers | violated: "done" |

Bounds. Two ground stations give two senders with opposite paths, and two
satellites give the four combinations of equal and different uplinks and paths
of one and two satellites: packets meet on a satellite that no longer has the
uplink, queues of length two appear when an uplink takes 2 units and a packet
comes every unit, and a packet that took the slow route is overtaken by the
next. Loops and dead ends through foreign entries need a third satellite and a
second sender to the same destination: `forwarding` has both, with three
updates, one more than a stale entry needs to be used by a path two updates
later. The gap between packets is the time unit; other gaps only
stretch a run. The search is checked on all loss assignments of four satellites
with equal directions, where a best path can have three hops and a label can
improve twice, and on all assignments of two losses to single directions.

`page`: closing a card and writing on one that has moved up takes two edits, a
name that collides takes three (rename, add, rename back), each from the library
presets of one and two elements and the three listed stations. Every field has
one typed text that is at or beyond a boundary of its test, and arrow keys add
more. One edit before a run is enough for what Run does with the configuration,
since all handlers look at the same `disabled`; the edits after Run are tried and
must find nothing enabled. `Patience` 15 makes the checks get rarer at the
second one. The outputs are one with paths, one without paths in the first event
that is shown, and one of a single step. `orbit` runs day by day to the end of a leap
year; `MaxParts` allows two frames of 16 ms, 1.7 s, a second less than two hours
or half a second less than a day at any point, which is where the clock drops
fractions. The time zones are Greenwich, Kolkata (half an hour off, no summer),
Toronto and Sydney (west and east of UTC, one starting in winter and one in
summer). Toronto's clocks change at 2 o'clock and the days begin at midnight, so
that two frames of two hours end in the hour that is skipped and in the one that
comes twice. `gobackn`: four packets are two more than the window; four calls make
a connection in each role and end it from both sides; one loss hits any packet of
it.

In every run `CHECK_DEADLOCK FALSE` is set because the systems stop: a
simulation ends, a packet arrives, a search returns, all pages have been
served; a page has no edits left, the agents no calls.

Fairness. `SatelliteNetwork` assumes weak fairness of `Next`: one thread runs a
loop in which nothing blocks (the wait at `Simulator.java:169-175` is only
reached with an empty list, which the loop condition has excluded; no other
thread removes commands). `Forwarding` assumes that a pending hop is executed and that
the first update happens: the agenda guarantees both. `SimulationServer`
assumes that every thread that can run does, that the server gets round to a
check, and that a page's timer fires. `WebPage` assumes that the browser calls
back for every request, answered or failed, and fires timers and frames (weak
fairness of `Answers` and `Frame`). It assumes nothing of what the server
answers. A server whose simulation threw (`Server.java:176-188`), or that
accepted a request it could not parse (192), may answer "not done" for ever, and
then the page polls for ever: `RunEnds` says that nothing else keeps the spinner
on. `EveryPostServed` is the server's side: each page gets its output if nothing
fails, and comes to rest in any case once any simulation has ended. Nothing is assumed of the
user. `GoBackN` assumes weak fairness of updates and receipts, which are commands the
simulator executes; no fairness of READY_TO_SEND, of the user, or against loss.

### Disagreements between code and text

* `journey`: `PathData.java:5` promises ids "in order from source to
  destination". The walk at `M:244-249` starts at the source ground station,
  which is no end of the first inter-satellite link, and `otherStation` answers
  `stationA`: for a path over a and b (a created first) the ids are source, a,
  a. The destination ground station is never recorded.
* `server_already`: `M:67` prints "A simulation is already running" when the
  singleton is set. An exception in a simulation leaves it set for good
  (`clearInstance` is only called at `M:206`).
* `server_done`: `Server.java:221` answers "done" with whatever output there is.
  A second page, or the same page reloaded, is handed the output of an earlier
  simulation at its first check.

Not a run of its own: `Station.IPcounter` is never reset, so that
`numberOfStations` of a second simulation counts the stations of both and its
ids continue those of the first, whereas `OutputData.java:6` says "in the range
[1, max]". The counter is in the server model.

## 4. The proofs

The theorems hold for every value of the constants that the named assumptions
allow: of the simulation, any number of ground stations and at least one
satellite (`NetworkAssumption`), any duration, positive gaps, delays and
interval (`TimingAssumption`); of the search, any losses up to `Lost`
(`SearchAssumption`); of the server, any number of browsers
(`ServerAssumption`, `FinitelyManyClients`); of the page, any texts, names,
outputs, patience and length of a session (`ConfigurationAssumption`,
`ResultsAssumption`, `RunAssumption`); of the globe, rings of 90 to 100 minutes and
frames of up to a day (`OrbitAssumption`), in any time zone less than a day from
UTC whose summers and the times between them last a day at least
(`ZoneAssumption`); of the agents,
any window, ports, calls and losses (`GoBackNAssumption`).

### The network

* `ForwardingTables_proofs`: one update of a column keeps `NoDeadEnd` and
  `NoCycle`, whatever uplinks, walks and iteration order it uses
  (`RerouteKeeps`). For dead ends: what an update writes points to the next
  satellite of some path, which has an entry because it writes too or is the
  new uplink. For loops: take a set of satellites that pass a packet among
  themselves; if one of them was written by the update, take the written one
  whose path leaves it last, otherwise the set was a loop before.
* `Forwarding_proofs`, about the abstract packet: `ColumnHasNoLoop` from it, and
  two theorems that no run has as a property. `PacketIsNeverLost`: an uplink and a hop only
  lead to satellites with an entry (`PacketInv`), and no update takes an entry
  away (`RerouteFills`).
  `HopsOnlyAdvance` is the variant behind `EventuallyDelivered`: the stations
  ahead of the packet, those that the entries lead to from where it is, get fewer
  with every hop (`Ahead`), since a station that is ahead of its own next one
  would close a loop (`NotBehind`).
* `SatelliteNetwork_proofs`: `RoutesAlwaysLeadOn` and `LoopFreedom` from it.
  Their part of the invariant (`RoutesInv`) is inductive alone, since only
  `RerouteAll` writes the tables.
* `TypeCorrect`, `TemporalOrder`, `OneTransmission`, from what `Push` and `Pop`
  do to an ordered queue: order, earliest time, and how often a given operation
  is pending (`PushFacts`, `PopFacts`).
  `OneTransmissionPerBusyQueue` is not inductive by itself: an event that
  transmits on `c` works between two schedulings, so the invariant is stated
  with a set of channels set aside (`Busy(a, q, E)`): `Pop` takes `c` out
  (`TakeFacts`), `sendTo` on another channel keeps `Busy(_, _, {c})`
  (`SendKeeps`; the channel is another one because a station never sends to
  itself, `ChannelFromFacts`, which needs the typing of the tables), and the
  rescheduling puts `c` back (`ScheduleNextKeeps`). The typing of the delays
  needs that no packet in a queue was created later than the clock
  (`QueuesTyped`), which needs the temporal order.
* `NothingDropped`: the first update comes before any transmission (it is
  scheduled first, at time 0), and behind it every uplink and every waiting or
  arriving packet is at a station with an entry for its destination (`Served`),
  because an update removes no entry and fills the first satellite of every path
  (`RerouteFills`) and no entry leads to a dead end.
* `PeriodsCover`: while the simulation runs its stop command is pending at the
  end of the duration (`StopAtEnd`), so that the last period is closed there and
  nowhere else.
* `OrderKept`: while the first routing stands no packet is late. Tables without
  dead ends and loops give each sender one way to its destination (`WayExists`),
  which visits no station twice (`WayIsStraight`). `OrderInv` says that, before
  the first update, the queues are empty, and that, as long as there has been one
  routing, the packets of a sender are only on its way and lined up along it
  (`InLine`): the nearer the destination, the older. All of them are newer than
  the newest one that was delivered (`Undelivered`), and the one pending creation
  is newer still (`CreatesNewer`). A transmission moves the head of one queue to
  the tail of the next one of the way, behind everything older.

### The accounting

* `SatelliteNetwork_proofs`, its last part: `KeepsLedger`, that a simulation
  implements `PacketLedger`, step by step (`LedgerStep`). A creation, a transmission that
  ends with a fate, a transmission that does not, an update and the end each map
  to a step of the ledger or a stutter. That a packet ends once needs that all
  packets in queues are distinct (`Distinct`), which needs that the pending
  creations of a sender are later than its packets (`CreationsAhead`).
* The archive of the ledger is a sum over the recorded events, a recursive
  function. That it exists would be an induction over data; instead `LedgerInv`
  carries from event to event that exactly one function sums the events so far
  (`HasSum`), and appending an event extends it (`SumGrows`).
* `BooksBalance`: over all periods, created = good + late + damaged + dropped +
  in some queue, for each sender. `BalanceInv` adds that the packets on their way
  are finitely many, so that they can be counted.

### The search

* `RouteSearch_proofs`, on one invariant (`SearchInv`): the label of a station
  is what `updateLength` computes for the path it holds; paths are trails over
  distinct satellites from the source, so the path returned is a walk
  (`RouteFound`); the frontier is ordered by label; while the search runs
  something is awaited in it.
* `RouteBest`: where the two directions of each link are equally good, every
  satellite is `Settled`: when it has a label and does not wait in the frontier,
  it has told its neighbours, none of which has a greater label than over it.
  Everything still in the frontier has a label no less than the destination's
  when the search ends, so no walk to the destination loses less.
  Without equal directions it does not hold, as TLC finds at once.
* `LabelsAreFinal`: with equal directions a station that has left the list is
  never labelled anew. The head of the list has the least label in it
  (`HeadIsLeast`), and what is told from it is no less (`NoneBelowHead`); a
  station outside the list has a label no greater than the head's, since it was
  told from a head before it (`Settled`). The loop over the links of the head
  keeps this from link to link (`BeyondKept`).
* `IterationsAdvance`: each iteration lowers the sum of the labels, or keeps it and
  shortens the list, or ends the search. It is the variant that termination
  rests on.
* The loops of `route` are recursive functions over positions of a list. The
  proofs do not use induction over data: that such a function exists and unfolds
  is a least-element argument on a partial one (`Iteration`).

### Server, page, globe, agents

* `SimulationServer_proofs`: `SingletonSafe` from the lock discipline (only the
  owner of the lock is between building and publishing, and behind
  `hasInstance` the singleton is unset or its own), and `FailureIsFinal`.
  `ServerTyped` needs that the station counter is bounded by the number of
  simulations that were constructed (`CountInv`), hence finitely many browsers.
* `WebPage_proofs`. `RunKeepsPromise` is a refinement: `OneConversation` (exactly
  one request or timer is pending while the page loads, none otherwise, and Run
  stays clickable meanwhile) makes every step one of `PageRun` or a stutter.
  `PlaybackHasOneTicker` needs that `intervalID` is set exactly while the page
  plays. `PostStaysShown` needs that behind a post the inputs are disabled.
  `NamesStayApart` is inductive only with the numbers: each object's unique name
  is its name with some number up to the count of that name, and no two objects
  of a name have the same one (`NumberedBut`), also objects that are no longer
  listed. `GlobeFollows` needs the types of cards and lists, so that a handler
  writes to the element its card was built for. `CardsFollow` is two invariants,
  one for the cards of elements and one for those of stations (`ElementInv`,
  `ShowInv`): a handler on a card writes to the element at its `data-i`, and
  whatever shifts positions rebuilds the cards. `LibraryStaysItself`: every
  change of an element also takes the name of the preset away. `PageTyped`
  collects the bounds of counters (`BoundsInv`) and of what is pending
  (`RequestInv`). `ChartIsOfGlobe`: nothing is drawn as long as Run is there, and
  Run goes with the first output (`ChartInv`), so that there is one chart and it
  is of the output that is played; however it is moved, the playback stays among
  its events (`StepsAreEvents`). The bars are folds over sequences. That the sum
  of an event is a natural number (`PacketsAreNatural`) is a least-element
  argument on the function over sets of positions that the fold is defined by: one
  exists, built from smaller sets, and there is only one. The axis holds the bars
  because bars that there are have a lowest and a highest.
* `SatelliteOrbit_proofs`: `ClockIsFaithful`, on an invariant (`ClockInv`) that
  ties the clock to the date and says how far it is behind the animation. `jday`
  gives the day after a date the next number, across months and years up to 2099
  (`JdayWithinMonth`, `JdayNextMonth` and the year's end), so that the clock is
  the time (`DateFollows`). A frame adds its whole seconds to the *local* time:
  `LocalStep` says that this is what it adds to the time, or less by what summer
  saves when a summer begins under the frame, or more when one ends. Hence what
  the clock is behind, with the hours of the summers that ended, is bounded by the
  frames that were not of whole seconds and the summers that began (`OwedKept`,
  `SummersCounted`). It rests on the time never being in the second round of the
  hour that comes twice (`FirstRound`), which holds of every time made from a
  local one (`UTCFacts`). `NoTurningBack` comes from the same step.
  `CalendarsMeet`: `invjday` takes `jday` back,
  and `days2mdhms` takes the day of the year to its month and day, on all dates
  of the clock and for the epochs of two digits up to 2056. `RingsAreEven`: the
  launches of a ring of n satellites come at the multiples of an n-th of the
  launch time, rounded down. Neighbours are an n-th of it apart but for one
  (`QuotientOfSum`), the last and the first as well on the circle; and the table
  of `ring.js` has for each of its eleven periods a launch time within a hundredth
  of the turn that the propagator reads from the column (`TableFits`).
* `GoBackN_proofs`: `DataInOrder`. The invariant numbers the send array (its
  packets are the consecutive last ones), and says of each direction that what is
  received, then what is on the wire, is increasing and below what the window
  has reached. `AcknowledgedArrived`: what a side has given up
  (`GivenUp`) its peer has received, and what acknowledgements on the wire say
  is true (`PromiseInv`). An acknowledgement of an earlier connection would break
  it, so it needs which states both ends can be in and which `SYN`, `FIN` and
  `ACK` can be on the wire meanwhile: `TalkInv`, which is `Closing` (nobody opens
  anew in front of a `FIN`) and `Shaking` (at most one handshake under way, and
  no acknowledgement from before it). `WindowCounts`: until anything is lost or
  closed (`Live`) the numbers from what is given up to what the window has reached
  are in flight, each once: the lower ones as acknowledgements on their way back,
  the others as data (`Window`, `Carries`), in the order they were sent. So the
  position in the window, which is their number, is the cardinality of the two
  sets, and at most the window. While the peer is not connected yet, the wire to
  it is led by the end of the handshake (`Led`), so that no data can overtake it
  and be ignored.

### Only model-checked

* Liveness: termination, `EventuallyDelivered`, `WindowArrives`,
  `EveryPostServed`, the ends of runs and animation. With fairness, and so
  `ENABLED`, it is out of the prover's reach. `IterationsAdvance` is what the
  termination of the search needs of its steps, `HopsOnlyAdvance` what delivery
  needs of the hops.

Every invariant, action property and refinement of the runs is stated by a theorem.
No module declares a RECURSIVE operator.

## 5. Not modelled

* Geometry (`Earth`, `R3`, `RoutingUtil`, `Satellite`) and the orbit theory of
  `satellite.js` (`sgp4`, its initialization, `dspace`, `dscom`, `dpper`, the
  transforms): floating point functions. The integrator of `dspace` has a memory,
  but `sgp4` works on a copy of the record (`sgp4.js:117`), so that nothing of a
  call is left for the next one, and the satellites of the page are not in
  resonance. The models quantify over the results, or have no need of them.
* `Server.MainHandler`; panels, resizing and drawing of the page; traces, test
  programs, Python stubs.
* The JNS protocol stack (`jns/element`) below the agents: the simulation of
  satellites bypasses it, and `GoBackN` keeps of it order and loss.
* The dynamic scheduler (`jns/dynamic`): RMI calls that nothing starts.
* A request with an interval of 0 makes the update reschedule itself for ever
  (`UpdateSatellitePosition.java:16`); `TimingAssumption` excludes it. Two
  ground stations of one name (`M:90`) and an empty constellation
  (`GroundStation.java:82`; in the server model it is one way to throw) are
  excluded too.

## 6. What the models say about the code

Behaviour that is in the models, that no text of the repository contradicts, or
only in passing, and that a maintainer may want to know:

* Page. A typed name can equal the *unique* name of another station (type
  "Ottawa2"): `NamesDiffer` is about stations of one name. A preset listed twice
  is one object with one unique name, and the card that is not written to goes
  stale. The label of a radio button on a later card changes the first card, and
  the element with it, which `CardsShowModel` cannot tell from a click on that
  card. `CardsShowModel` is about cards, not about the fields of the simulation
  settings. Any key pressed in a field that leaves its text as it is renames a
  preset to Custom. The page accepts what the server rejects: numbers of
  rings with fractions (`Server.java:131-132`), empty coordinates, apostrophes (`Server.java:105`).
  Each edit rebuilds the rings with their clock at 2018-02-01.
* Rings. An inclination below one degree is written in 8 columns, the mean motion
  is read with both digits, and the ring bunches; so does one whose period is not
  a whole minute, which has no entry in the table of `ring.js`. `RingIsEven`
  states the rest.
* Clock. `setSeconds` drops fractions: with less than a second per frame the
  satellites' clock stands still. It works on local time: at the end of every
  summer the clock of the satellites, which should be UTC, jumps ahead by an hour.
  At the start it is held back an hour, unless a frame ends in the hour that is
  skipped. Even without summers the animation starts at local midnight, which is
  another instant in each time zone. `jday` counts 2100 as a leap year although
  `ext.js` gives 1900 to 2100 as its range, hence `LastYear`.
* Agents. Data beyond the window is sent only if the service happens to say
  READY_TO_SEND later. A side that closes second stays in `LAST_ACK`, since
  `FIN_WAIT2` does not acknowledge; `TIME_WAIT` never returns to `CLOSED`, which
  the comment at `SimpleGoBackNAgent.java:83-84` announces. Two agents that
  connect to each other at once both stay in `SYN_RECVD`. Data is addressed to
  the sender's own port number: on different ports all of it is lost.

## 7. What could follow

* A model of `PriorityQueue` on its pointers would implement `EventQueue`. The IP
  stack and the dynamic scheduler are worth a module once the program uses them.
