---------------------- MODULE SatelliteNetwork_proofs ----------------------
(***************************************************************************)
(* Invariants of a simulation, for any number of ground stations and       *)
(* satellites, any duration and any timing of the packets: behind lemmas   *)
(* about the priority queue those of the routing tables, then those of the *)
(* agenda and the queues of the links, then that no packet is dropped,     *)
(* that the periods tile and that packets stay in order; in the end, that a *)
(* simulation keeps the books of PacketLedger: every command creates one   *)
(* packet, ends one with one fate, closes the period, or changes nothing   *)
(* in the books, so that the counts of the output balance at any time.     *)
(***************************************************************************)
EXTENDS SatelliteNetwork, ForwardingTables_proofs

-----------------------------------------------------------------------------
(* What push and pop do to a queue of commands, whatever the commands are.  *)

(* Command operation o is nowhere, or exactly once, in q. *)
Never(q, o) == \A i \in 1 .. Len(q) : q[i].op # o

Once(q, o) ==
  \E i \in 1 .. Len(q) :
    q[i].op = o /\ \A j \in 1 .. Len(q) : q[j].op = o => j = i

NotBefore(q, t) == \A i \in 1 .. Len(q) : q[i].time >= t

(* A command that is known to have a time. *)
Timed(S) == \A c \in S : c.time \in Nat

(* Where an ordered queue splits into commands up to t and later ones. *)
LEMMA SplitExists ==
  ASSUME NEW S, Timed(S), NEW q \in Seq(S), Ordered(q), NEW t \in Nat
  PROVE  \E k \in 1 .. Len(q) + 1 :
           /\ \A i \in 1 .. Len(q) : i >= k => q[i].time > t
           /\ k > 1 => q[k - 1].time <= t
<1> DEFINE Early == {i \in 1 .. Len(q) : q[i].time <= t}
<1>0. \A i \in 1 .. Len(q) : q[i].time \in Nat
  BY DEF Timed
<1>1. CASE Early = {}
  <2>1. \A i \in 1 .. Len(q) : q[i].time > t
    BY <1>0, <1>1
  <2>2. 1 \in 1 .. Len(q) + 1
    OBVIOUS
  <2> QED BY <2>1, <2>2
<1>2. CASE Early # {}
  <2>1. Early \in SUBSET (0 .. Len(q)) /\ Len(q) \in Nat
    OBVIOUS
  <2>2. PICK m \in Early : \A i \in Early : i <= m
    <3> HIDE DEF Early
    <3> QED BY <1>2, <2>1, LargestNatural
  <2>3. m + 1 \in 1 .. Len(q) + 1 /\ q[m].time <= t
    OBVIOUS
  <2>4. ASSUME NEW i \in 1 .. Len(q), i >= m + 1 PROVE q[i].time > t
    BY <1>0, <2>2, <2>4
  <2>5. (m + 1) - 1 = m
    BY <2>1
  <2> HIDE DEF Early
  <2> QED BY <2>3, <2>4, <2>5
<1> QED BY <1>1, <1>2

LEMMA InsertPositionFacts ==
  ASSUME NEW S, Timed(S), NEW q \in Seq(S), Ordered(q), NEW t \in Nat
  PROVE  LET k == InsertPosition(q, t) IN
           /\ k \in 1 .. Len(q) + 1
           /\ \A i \in 1 .. Len(q) : i >= k => q[i].time > t
           /\ \A i \in 1 .. Len(q) : i < k => q[i].time <= t
<1> DEFINE k == InsertPosition(q, t)
<1>1. /\ k \in 1 .. Len(q) + 1
      /\ \A i \in 1 .. Len(q) : i >= k => q[i].time > t
      /\ k > 1 => q[k - 1].time <= t
  BY SplitExists DEF InsertPosition
<1>2. ASSUME NEW i \in 1 .. Len(q), i < k PROVE q[i].time <= t
  <2> HIDE DEF k
  <2>1. q[i].time \in Nat /\ k - 1 \in 1 .. Len(q)
    BY <1>1, <1>2 DEF Timed
  <2>2. q[k - 1].time \in Nat /\ q[k - 1].time <= t
    BY <1>1, <1>2, <2>1 DEF Timed
  <2>3. i = k - 1 \/ q[i].time <= q[k - 1].time
    BY <1>1, <1>2, <2>1 DEF Ordered
  <2> QED BY <2>1, <2>2, <2>3
<1> QED BY <1>1, <1>2

(* r is q with c put in at position k. *)
InsertedAt(r, q, k, c) ==
  \A i \in 1 .. Len(q) + 1 :
    r[i] = IF i < k THEN q[i] ELSE IF i = k THEN c ELSE q[i - 1]

(* The queue after push: c at one place, the others around it in order. *)
LEMMA PushShape ==
  ASSUME NEW S, Timed(S), NEW q \in Seq(S), Ordered(q), NEW c \in S
  PROVE  /\ Push(q, c) \in Seq(S)
         /\ Len(Push(q, c)) = Len(q) + 1
         /\ Ordered(Push(q, c))
         /\ \E k \in 1 .. Len(q) + 1 : InsertedAt(Push(q, c), q, k, c)
<1> DEFINE k == InsertPosition(q, c.time)
           r == Push(q, c)
<1>1. /\ k \in 1 .. Len(q) + 1
      /\ \A i \in 1 .. Len(q) : i >= k => q[i].time > c.time
      /\ \A i \in 1 .. Len(q) : i < k => q[i].time <= c.time
  BY InsertPositionFacts DEF Timed
<1>2. r = [i \in 1 .. Len(q) + 1 |->
             IF i < k THEN q[i] ELSE IF i = k THEN c ELSE q[i - 1]]
  BY DEF Push, InsertAtPosition
<1> HIDE DEF k, r
<1>3. r \in Seq(S) /\ Len(r) = Len(q) + 1
  <2>1. \A i \in 1 .. Len(q) + 1 : r[i] \in S
    BY <1>1, <1>2
  <2> QED BY <1>2, <2>1
<1>4. ASSUME NEW i \in 1 .. Len(r), NEW j \in 1 .. Len(r), i < j
      PROVE  r[i].time <= r[j].time
  <2>1. \A n \in 1 .. Len(q) : q[n].time \in Nat
    BY DEF Timed
  <2>2. c.time \in Nat
    BY DEF Timed
  <2>3. CASE j < k
    <3>1. i \in 1 .. Len(q) /\ j \in 1 .. Len(q) /\ r[i] = q[i] /\ r[j] = q[j]
      BY <1>1, <1>2, <1>3, <1>4, <2>3
    <3> QED BY <1>4, <3>1 DEF Ordered
  <2>4. CASE j = k
    <3>1. i \in 1 .. Len(q) /\ r[i] = q[i] /\ r[j] = c
      BY <1>1, <1>2, <1>3, <1>4, <2>4
    <3> QED BY <1>1, <1>4, <2>4, <3>1
  <2>5. CASE j > k
    <3>1. j - 1 \in 1 .. Len(q) /\ r[j] = q[j - 1]
      BY <1>1, <1>2, <1>3, <2>5
    <3>2. CASE i < k
      <4>1. i \in 1 .. Len(q) /\ r[i] = q[i]
        BY <1>1, <1>2, <1>3, <3>2
      <4> QED BY <1>1, <2>5, <3>1, <3>2, <4>1 DEF Ordered
    <3>3. CASE i = k
      <4>1. r[i] = c /\ q[j - 1].time > c.time
        BY <1>1, <1>2, <1>3, <2>5, <3>1, <3>3
      <4> QED BY <2>1, <2>2, <3>1, <4>1
    <3>4. CASE i > k
      <4>1. i - 1 \in 1 .. Len(q) /\ r[i] = q[i - 1]
        BY <1>1, <1>2, <1>3, <3>4
      <4> QED BY <1>4, <3>1, <4>1 DEF Ordered
    <3> QED BY <1>1, <3>2, <3>3, <3>4
  <2> QED BY <1>1, <1>3, <2>3, <2>4, <2>5
<1>5. Ordered(r)
  BY <1>4 DEF Ordered
<1>6. InsertedAt(r, q, k, c)
  BY <1>2 DEF InsertedAt
<1> QED BY <1>1, <1>3, <1>5, <1>6 DEF r

(* push keeps the order and adds exactly the command c. *)
LEMMA PushFacts ==
  ASSUME NEW S, Timed(S), NEW q \in Seq(S), Ordered(q), NEW c \in S,
         NEW r, r = Push(q, c)
  PROVE  /\ r \in Seq(S) /\ r # <<>> /\ Ordered(r)
         /\ \A t \in Nat : NotBefore(q, t) /\ c.time >= t => NotBefore(r, t)
         /\ Never(q, c.op) => Once(r, c.op)
         /\ \A o : o # c.op => (Never(q, o) => Never(r, o)) /\ (Once(q, o) => Once(r, o))
<1>1. /\ r \in Seq(S) /\ Len(r) = Len(q) + 1 /\ Ordered(r)
  BY PushShape
<1>2. PICK k \in 1 .. Len(q) + 1 : InsertedAt(r, q, k, c)
  BY PushShape
<1>3. \A i \in 1 .. Len(r) :
        \/ i = k /\ r[i] = c
        \/ i < k /\ i \in 1 .. Len(q) /\ r[i] = q[i]
        \/ i > k /\ i - 1 \in 1 .. Len(q) /\ r[i] = q[i - 1]
  BY <1>1, <1>2 DEF InsertedAt
<1>4. ASSUME NEW t \in Nat, NotBefore(q, t), c.time >= t PROVE NotBefore(r, t)
  BY <1>3, <1>4 DEF NotBefore
<1>5. ASSUME Never(q, c.op) PROVE Once(r, c.op)
  <2>1. k \in 1 .. Len(r) /\ r[k].op = c.op
    BY <1>1, <1>2 DEF InsertedAt
  <2>2. \A j \in 1 .. Len(r) : r[j].op = c.op => j = k
    BY <1>3, <1>5 DEF Never
  <2> QED BY <2>1, <2>2 DEF Once
<1>6. ASSUME NEW o, o # c.op, Never(q, o) PROVE Never(r, o)
  BY <1>3, <1>6 DEF Never
<1>7. ASSUME NEW o, o # c.op, Once(q, o) PROVE Once(r, o)
  <2>1. PICK i \in 1 .. Len(q) : q[i].op = o /\ \A j \in 1 .. Len(q) : q[j].op = o => j = i
    BY <1>7 DEF Once
  <2> DEFINE m == IF i < k THEN i ELSE i + 1
  <2>2. m \in 1 .. Len(r) /\ r[m] = q[i]
    BY <1>1, <1>2 DEF InsertedAt
  <2>3. ASSUME NEW j \in 1 .. Len(r), r[j].op = o PROVE j = m
    BY <1>3, <1>7, <2>1, <2>3, SMTT(30)
  <2> QED BY <2>1, <2>2, <2>3 DEF Once
<1>8. r # <<>>
  BY <1>1
<1> QED BY <1>1, <1>4, <1>5, <1>6, <1>7, <1>8

(* pop removes exactly the first command. *)
LEMMA PopFacts ==
  ASSUME NEW S, Timed(S), NEW q \in Seq(S), q # <<>>, Ordered(q)
  PROVE  /\ Peek(q) \in S
         /\ Pop(q) \in Seq(S) /\ Ordered(Pop(q))
         /\ NotBefore(Pop(q), Peek(q).time)
         /\ Once(q, Peek(q).op) => Never(Pop(q), Peek(q).op)
         /\ \A o : Never(q, o) => Never(Pop(q), o) /\ Peek(q).op # o
         /\ \A o : o # Peek(q).op => (Once(q, o) => Once(Pop(q), o))
<1> DEFINE r == Pop(q)
<1>1. /\ r \in Seq(S) /\ Len(q) >= 1 /\ Len(r) = Len(q) - 1
      /\ \A i \in 1 .. Len(r) : i + 1 \in 1 .. Len(q) /\ r[i] = q[i + 1]
      /\ Peek(q) = q[1] /\ 1 \in 1 .. Len(q) /\ q[1] \in S
  BY DEF Pop, Peek
<1> HIDE DEF r
<1>2. Ordered(r)
  <2>1. \A i, j \in 1 .. Len(r) : i < j => q[i + 1].time <= q[j + 1].time
    BY <1>1 DEF Ordered
  <2> QED BY <1>1, <2>1 DEF Ordered
<1>3. NotBefore(r, q[1].time)
  <2>1. ASSUME NEW i \in 1 .. Len(r) PROVE r[i].time >= q[1].time
    <3>1. q[1].time <= q[i + 1].time
      BY <1>1 DEF Ordered
    <3>2. q[1].time \in Nat /\ q[i + 1].time \in Nat
      BY <1>1 DEF Timed
    <3> QED BY <1>1, <3>1, <3>2
  <2> QED BY <2>1 DEF NotBefore
<1>4. ASSUME Once(q, q[1].op) PROVE Never(r, q[1].op)
  <2>1. PICK i \in 1 .. Len(q) : \A j \in 1 .. Len(q) : q[j].op = q[1].op => j = i
    BY <1>4 DEF Once
  <2>2. ASSUME NEW j \in 1 .. Len(r), r[j].op = q[1].op PROVE FALSE
    <3>1. j + 1 = i /\ i = 1
      BY <1>1, <2>1, <2>2
    <3> QED BY <1>1, <3>1
  <2> QED BY <2>2 DEF Never
<1>5. ASSUME NEW o, Never(q, o) PROVE Never(r, o) /\ q[1].op # o
  BY <1>1, <1>5 DEF Never
<1>6. ASSUME NEW o, o # q[1].op, Once(q, o) PROVE Once(r, o)
  <2>1. PICK i \in 1 .. Len(q) : q[i].op = o /\ \A j \in 1 .. Len(q) : q[j].op = o => j = i
    BY <1>6 DEF Once
  <2>2. i # 1
    BY <1>6, <2>1
  <2>3. i - 1 \in 1 .. Len(r) /\ r[i - 1] = q[i]
    BY <1>1, <2>2
  <2>4. ASSUME NEW j \in 1 .. Len(r), r[j].op = o PROVE j = i - 1
    BY <1>1, <2>1, <2>4
  <2> QED BY <2>1, <2>3, <2>4 DEF Once
<1> QED BY <1>1, <1>2, <1>3, <1>4, <1>5, <1>6 DEF r

(* Push brings in nothing but the new command.                              *)
LEMMA PushElements ==
  ASSUME NEW S, Timed(S), NEW q \in Seq(S), Ordered(q), NEW c \in S,
         NEW r, r = Push(q, c)
  PROVE  \A i \in 1 .. Len(r) : r[i] = c \/ \E j \in 1 .. Len(q) : r[i] = q[j]
<1>1. Len(r) = Len(q) + 1 /\ Len(q) \in Nat
  BY PushShape
<1>2. PICK k \in 1 .. Len(q) + 1 : InsertedAt(r, q, k, c)
  BY PushShape
<1>3. ASSUME NEW i \in 1 .. Len(r)
      PROVE  r[i] = c \/ \E j \in 1 .. Len(q) : r[i] = q[j]
  <2>1. CASE i < k
    <3>1. i \in 1 .. Len(q)
      BY <1>1, <2>1
    <3> QED BY <1>1, <1>2, <2>1, <3>1 DEF InsertedAt
  <2>2. CASE i = k
    BY <1>1, <1>2, <2>2 DEF InsertedAt
  <2>3. CASE i > k
    <3>1. i - 1 \in 1 .. Len(q)
      BY <1>1, <2>3
    <3> QED BY <1>1, <1>2, <2>3, <3>1 DEF InsertedAt
  <2> QED BY <1>1, <2>1, <2>2, <2>3
<1> QED BY <1>3

-----------------------------------------------------------------------------
(* The routing tables.  Only RerouteAll writes them, so their part of the   *)
(* invariant is inductive on its own.                                       *)
RoutesTyped ==
  /\ uplink \in [Ground -> Sat \cup {NoSat}]
  /\ table \in [Ground -> [Sat -> Entries]]
  /\ paths = <<>> \/ paths \in [Sender -> Walk]

RoutesInv == RoutesTyped /\ RoutesLeadOn /\ NoForwardingLoop

LEMMA RoutesInit == Init => RoutesInv
<1> SUFFICES ASSUME Init PROVE RoutesInv
  OBVIOUS
<1>1. RoutesTyped
  BY DEF Init, RoutesTyped, Entries
<1>2. \A d \in Ground : \A s \in Sat : table[d][s] = NoLink
  BY DEF Init
<1>3. RoutesLeadOn
  BY <1>2 DEF RoutesLeadOn, NoDeadEnd
<1>4. NoForwardingLoop
  BY <1>2 DEF NoForwardingLoop, NoCycle
<1> QED BY <1>1, <1>3, <1>4 DEF RoutesInv

LEMMA RoutingFacts ==
  ASSUME NEW r \in Routing
  PROVE  /\ r.best \in [Ground -> Sat]
         /\ r.walk \in [Sender -> Walk]
         /\ \A s \in Sender : /\ r.walk[s][1] = r.best[s[1]]
                              /\ r.walk[s] \in WalkTo(r.best[s[2]])
         /\ \A d \in Ground : r.order[d] \in IterationOrders(d)
BY DEF Routing

LEMMA SenderTo ==
  ASSUME NEW d \in Ground, NEW g \in Sources(d)
  PROVE  /\ g \in Ground /\ <<g, d>> \in Sender
         /\ <<g, d>>[1] = g /\ <<g, d>>[2] = d
BY DEF Sources, Sender

LEMMA RerouteAllKeeps ==
  ASSUME RoutesInv, RerouteAll
  PROVE  RoutesInv'
<1>1. PICK r \in Routing :
        /\ uplink' = r.best
        /\ paths' = r.walk
        /\ table' = [d \in Ground |->
             Reroute(table[d], d, uplink[d], r.best[d],
                     [g \in Sources(d) |-> r.walk[<<g, d>>]], r.order[d])]
  BY DEF RerouteAll
<1>2. ASSUME NEW d \in Ground
      PROVE  table'[d] \in [Sat -> Entries] /\ NoDeadEnd(table'[d], d) /\ NoCycle(table'[d])
  <2> DEFINE walk == [g \in Sources(d) |-> r.walk[<<g, d>>]]
  <2>1. walk \in [Sources(d) -> Walk]
    BY RoutingFacts, SenderTo
  <2>2. \A g \in Sources(d) : walk[g] \in WalkTo(r.best[d])
    BY RoutingFacts, SenderTo
  <2>3. table[d] \in [Sat -> Entries] /\ NoDeadEnd(table[d], d) /\ NoCycle(table[d])
    BY DEF RoutesInv, RoutesTyped, RoutesLeadOn, NoForwardingLoop
  <2>4. r.best[d] \in Sat /\ r.order[d] \in IterationOrders(d)
    BY RoutingFacts
  <2>5. table'[d] = Reroute(table[d], d, uplink[d], r.best[d], walk, r.order[d])
    BY <1>1
  <2> DEFINE col == table[d]
             old == uplink[d]
             new == r.best[d]
             order == r.order[d]
  <2>6. table'[d] = Reroute(col, d, old, new, walk, order)
    BY <2>5
  <2>7. NoDeadEnd(col, d) /\ NoCycle(col) /\ col \in [Sat -> Entries]
    BY <2>3
  <2>8. new \in Sat /\ order \in IterationOrders(d)
    BY <2>4
  <2>9. \A g \in Sources(d) : walk[g] \in WalkTo(new)
    BY <2>2
  <2> HIDE DEF walk, col, old, new, order
  <2>10. LET c == Reroute(col, d, old, new, walk, order)
         IN c \in [Sat -> Entries] /\ NoDeadEnd(c, d) /\ NoCycle(c)
    BY <2>1, <2>7, <2>8, <2>9, RerouteKeeps
  <2> QED BY <2>6, <2>10
<1>3. table' \in [Ground -> [Sat -> Entries]]
  BY <1>1, <1>2
<1>4. RoutesTyped'
  BY <1>1, <1>3, RoutingFacts DEF RoutesTyped
<1> QED BY <1>2, <1>4 DEF RoutesInv, RoutesLeadOn, NoForwardingLoop

LEMMA RoutesStep == RoutesInv /\ [Next]_vars => RoutesInv'
<1> SUFFICES ASSUME RoutesInv, [Next]_vars PROVE RoutesInv'
  OBVIOUS
<1> USE DEF RoutesInv, RoutesTyped, RoutesLeadOn, NoForwardingLoop, netVars
<1>1. ASSUME NEW s \in Sender, CreatePacket(s) PROVE RoutesInv'
  BY <1>1 DEF CreatePacket
<1>2. ASSUME NEW c \in Channel, DamagePacket(c) PROVE RoutesInv'
  BY <1>2 DEF DamagePacket
<1>3. ASSUME NEW c \in Channel, PassPacket(c) PROVE RoutesInv'
  BY <1>3 DEF PassPacket
<1>4. CASE Update
  BY <1>4, RerouteAllKeeps DEF Update, UpdateSatellitePositions
<1>5. CASE Stop
  BY <1>5 DEF Stop
<1>6. CASE Finish
  BY <1>6, RerouteAllKeeps DEF Finish, UpdateSatellitePositions
<1>7. CASE UNCHANGED vars
  BY <1>7 DEF vars
<1> QED BY <1>1, <1>2, <1>3, <1>4, <1>5, <1>6, <1>7 DEF Next

(* At any moment of a simulation every table entry, however many updates    *)
(* old, leads to its destination or to a satellite that has an entry.       *)
THEOREM RoutesAlwaysLeadOn == Spec => []RoutesLeadOn
<1>1. RoutesInv => RoutesLeadOn
  BY DEF RoutesInv
<1> QED BY <1>1, RoutesInit, RoutesStep, PTL DEF Spec

(* The tables of the satellites never contain a forwarding loop.            *)
THEOREM LoopFreedom == Spec => []NoForwardingLoop
<1>1. RoutesInv => NoForwardingLoop
  BY DEF RoutesInv
<1> QED BY <1>1, RoutesInit, RoutesStep, PTL DEF Spec

-----------------------------------------------------------------------------
(* The agenda and the queues: temporal order, and exactly one pending       *)
(* transmission for every queue that holds a packet.                        *)
SendOp(c) == <<"send", c>>

(* Packets created up to t. *)
PacketUpTo(t) == [sender : Sender, born : 0 .. t]

AgendaInv(a, t) == a \in Seq(Command) /\ Ordered(a) /\ NotBefore(a, t)

QueuesTyped(q, t) == q \in [Channel -> Seq(PacketUpTo(t))]

(* The busy channels outside E, and they only, have one transmission        *)
(* pending; those in E have none.                                           *)
Busy(a, q, E) ==
  \A c \in Channel :
    IF c \in E \/ q[c] = <<>> THEN Never(a, SendOp(c)) ELSE Once(a, SendOp(c))

LEMMA CommandsTimed == Timed(Command)
BY DEF Timed, Command

LEMMA AtFacts ==
  ASSUME NEW t \in Nat, NEW o \in Operation
  PROVE  At(t, o) \in Command /\ At(t, o).time = t /\ At(t, o).op = o
BY DEF At, Command

LEMMA SendOpFacts ==
  ASSUME NEW c \in Channel
  PROVE  /\ SendOp(c) \in Operation
         /\ \A d \in Channel : d # c => SendOp(d) # SendOp(c)
         /\ SendOp(c) # <<"update">> /\ SendOp(c) # <<"stop">>
         /\ \A s : SendOp(c) # <<"create", s>>
BY DEF SendOp, Operation

LEMMA PushAgenda ==
  ASSUME NEW t \in Nat, NEW a, AgendaInv(a, t), NEW u \in Nat, u >= t,
         NEW o \in Operation, NEW b, b = Push(a, At(u, o))
  PROVE  /\ AgendaInv(b, t) /\ b # <<>>
         /\ Never(a, o) => Once(b, o)
         /\ \A x : x # o => (Never(a, x) => Never(b, x)) /\ (Once(a, x) => Once(b, x))
<1>1. At(u, o) \in Command /\ At(u, o).time = u /\ At(u, o).op = o
  BY AtFacts
<1> DEFINE c == At(u, o)
<1>2. c \in Command /\ c.time = u /\ c.op = o /\ b = Push(a, c)
  BY <1>1
<1>3. a \in Seq(Command) /\ Ordered(a) /\ NotBefore(a, t)
  BY DEF AgendaInv
<1> HIDE DEF c
<1>4. Timed(Command)
  BY CommandsTimed
<1>5. /\ b \in Seq(Command) /\ b # <<>> /\ Ordered(b)
      /\ \A v \in Nat : NotBefore(a, v) /\ c.time >= v => NotBefore(b, v)
      /\ Never(a, c.op) => Once(b, c.op)
      /\ \A x : x # c.op => (Never(a, x) => Never(b, x)) /\ (Once(a, x) => Once(b, x))
  BY <1>2, <1>3, <1>4, PushFacts
<1>6. NotBefore(b, t)
  BY <1>2, <1>3, <1>5
<1>7. AgendaInv(b, t)
  BY <1>5, <1>6 DEF AgendaInv
<1>8. Never(a, o) => Once(b, o)
  BY <1>2, <1>5
<1>9. \A x : x # o => (Never(a, x) => Never(b, x)) /\ (Once(a, x) => Once(b, x))
  BY <1>2, <1>5
<1> QED BY <1>5, <1>7, <1>8, <1>9

-----------------------------------------------------------------------------
(* Links and channels. *)
LEMMA ChannelFacts ==
  ASSUME NEW l \in Link, NEW st \in Station
  PROVE  /\ <<l, OtherStation(l, st)>> \in Channel
         /\ OtherStation(l, st) # st
         /\ OtherStation(l, st) \in Station
BY NetworkAssumption DEF Link, Channel, OtherStation, Station, Sat, Ground

LEMMA UplinkIsLink ==
  ASSUME NEW g \in Ground, NEW s \in Sat
  PROVE  <<g, s>> \in Link
BY NetworkAssumption DEF Link, Station, Sat, Ground

LEMMA RouteFacts ==
  ASSUME RoutesTyped, NEW st \in Station, NEW d \in Ground, RouteAt(st, d) # NoLink
  PROVE  RouteAt(st, d) \in Link
<1>1. CASE st \in Sat
  BY <1>1 DEF RouteAt, RoutesTyped, Entries
<1>2. CASE st \notin Sat
  BY <1>2, UplinkIsLink DEF RouteAt, RoutesTyped, Station
<1> QED BY <1>1, <1>2

(* Station.send enqueues on a link of st, towards another station. *)
LEMMA ChannelFromFacts ==
  ASSUME RoutesTyped, NEW st \in Station, NEW p, p.sender \in Sender, Forwarded(st, p)
  PROVE  ChannelFrom(st, p) \in Channel /\ ChannelFrom(st, p)[2] # st
<1>1. Dest(p) \in Ground
  BY DEF Dest, Sender
<1>2. RouteAt(st, Dest(p)) \in Link
  BY <1>1, RouteFacts DEF Forwarded
<1> QED BY <1>2, ChannelFacts DEF ChannelFrom

-----------------------------------------------------------------------------
(* SmartDuplexLink.sendTo as part of an event that has set E aside. *)
LEMMA SendKeeps ==
  ASSUME RoutesTyped, NEW t \in Nat, NEW a, NEW q, NEW E,
         AgendaInv(a, t), QueuesTyped(q, t), Busy(a, q, E),
         NEW st \in Station, NEW p \in PacketUpTo(t), NEW u \in Nat, u >= t,
         Forwarded(st, p) => ChannelFrom(st, p) \notin E,
         NEW a2, a2 = AgendaAfterSend(a, q, st, p, u),
         NEW q2, q2 = QueueAfterSend(q, st, p)
  PROVE  AgendaInv(a2, t) /\ QueuesTyped(q2, t) /\ Busy(a2, q2, E)
<1>0. p.sender \in Sender
  BY DEF PacketUpTo
<1>1. CASE ~Forwarded(st, p)
  BY <1>1 DEF AgendaAfterSend, QueueAfterSend
<1>2. CASE Forwarded(st, p)
  <2> DEFINE c == ChannelFrom(st, p)
  <2>1. c \in Channel /\ c \notin E
    BY <1>0, <1>2, ChannelFromFacts
  <2>2. q2 = [q EXCEPT ![c] = Append(@, p)]
    BY <1>2 DEF QueueAfterSend
  <2>3. a2 = IF q[c] = <<>> THEN Push(a, At(u, SendOp(c))) ELSE a
    BY <1>2 DEF AgendaAfterSend, SendOp
  <2> HIDE DEF c
  <2>4. QueuesTyped(q2, t) /\ q2[c] # <<>> /\ \A d \in Channel : d # c => q2[d] = q[d]
    BY <2>1, <2>2, SMTT(30) DEF QueuesTyped
  <2>5. CASE q[c] # <<>>
    <3>1. a2 = a
      BY <2>3, <2>5
    <3> QED BY <2>1, <2>4, <2>5, <3>1 DEF Busy
  <2>6. CASE q[c] = <<>>
    <3>1. a2 = Push(a, At(u, SendOp(c)))
      BY <2>3, <2>6
    <3>2. Never(a, SendOp(c))
      BY <2>1, <2>6 DEF Busy
    <3>3. /\ AgendaInv(a2, t) /\ Once(a2, SendOp(c))
          /\ \A x : x # SendOp(c) => (Never(a, x) => Never(a2, x)) /\ (Once(a, x) => Once(a2, x))
      BY <2>1, <3>1, <3>2, PushAgenda, SendOpFacts
    <3>4. ASSUME NEW d \in Channel, d # c
          PROVE  IF d \in E \/ q2[d] = <<>> THEN Never(a2, SendOp(d)) ELSE Once(a2, SendOp(d))
      <4>1. SendOp(d) # SendOp(c)
        BY <2>1, <3>4, SendOpFacts
      <4>2. IF d \in E \/ q[d] = <<>> THEN Never(a, SendOp(d)) ELSE Once(a, SendOp(d))
        BY DEF Busy
      <4> QED BY <2>4, <3>3, <3>4, <4>1, <4>2
    <3> QED BY <2>1, <2>4, <3>3, <3>4 DEF Busy
  <2> QED BY <2>5, <2>6
<1> QED BY <1>1, <1>2

(* PacketSendEvent reschedules its channel if a packet is left. *)
LEMMA ScheduleNextKeeps ==
  ASSUME NEW t \in Nat, NEW a, NEW q, NEW c \in Channel,
         AgendaInv(a, t), Busy(a, q, {c}), NEW u \in Nat, u >= t,
         NEW a2, a2 = ScheduleNext(a, q, c, u)
  PROVE  AgendaInv(a2, t) /\ Busy(a2, q, {})
<1>0. Never(a, SendOp(c))
  BY DEF Busy
<1>1. CASE q[c] = <<>>
  <2>1. a2 = a
    BY <1>1 DEF ScheduleNext
  <2> QED BY <1>1, <2>1 DEF Busy
<1>2. CASE q[c] # <<>>
  <2>1. a2 = Push(a, At(u, SendOp(c)))
    BY <1>2 DEF ScheduleNext, SendOp
  <2>2. /\ AgendaInv(a2, t) /\ Once(a2, SendOp(c))
        /\ \A x : x # SendOp(c) => (Never(a, x) => Never(a2, x)) /\ (Once(a, x) => Once(a2, x))
    BY <1>0, <2>1, PushAgenda, SendOpFacts
  <2>3. ASSUME NEW d \in Channel, d # c
        PROVE  IF q[d] = <<>> THEN Never(a2, SendOp(d)) ELSE Once(a2, SendOp(d))
    <3>1. SendOp(d) # SendOp(c)
      BY <2>3, SendOpFacts
    <3>2. IF q[d] = <<>> THEN Never(a, SendOp(d)) ELSE Once(a, SendOp(d))
      BY <2>3 DEF Busy
    <3> QED BY <2>2, <3>1, <3>2
  <2> QED BY <1>2, <2>2, <2>3 DEF Busy
<1> QED BY <1>1, <1>2

-----------------------------------------------------------------------------
(* Simulator.run takes the first command: the clock moves on, and a         *)
(* transmission that is taken is no longer pending.                         *)
LEMMA TakeFacts ==
  ASSUME now \in Nat, AgendaInv(agenda, now), QueuesTyped(queue, now),
         Busy(agenda, queue, {}), NEW o, Take(o)
  PROVE  /\ now' \in Nat /\ now' >= now
         /\ AgendaInv(Pop(agenda), now')
         /\ QueuesTyped(queue, now')
         /\ (\A c \in Channel : o # SendOp(c)) => Busy(Pop(agenda), queue, {})
         /\ \A c \in Channel : o = SendOp(c) =>
              queue[c] # <<>> /\ Busy(Pop(agenda), queue, {c})
<1>1. agenda \in Seq(Command) /\ agenda # <<>> /\ Ordered(agenda) /\ NotBefore(agenda, now)
  BY DEF AgendaInv, Take
<1>2. /\ Peek(agenda) \in Command /\ Peek(agenda).op = o /\ now' = Peek(agenda).time
      /\ Peek(agenda) = agenda[1] /\ 1 \in 1 .. Len(agenda)
  BY <1>1, CommandsTimed, PopFacts DEF Take, Peek
<1>3. /\ Pop(agenda) \in Seq(Command) /\ Ordered(Pop(agenda)) /\ NotBefore(Pop(agenda), now')
      /\ Once(agenda, o) => Never(Pop(agenda), o)
      /\ \A x : Never(agenda, x) => Never(Pop(agenda), x) /\ o # x
      /\ \A x : x # o => (Once(agenda, x) => Once(Pop(agenda), x))
  BY <1>1, <1>2, CommandsTimed, PopFacts
<1>4. now' \in Nat /\ now' >= now
  BY <1>1, <1>2 DEF NotBefore, Command
<1>5. QueuesTyped(queue, now')
  <2>1. PacketUpTo(now) \subseteq PacketUpTo(now')
    BY <1>4 DEF PacketUpTo
  <2>2. \A q \in Seq(PacketUpTo(now)) : q \in Seq(PacketUpTo(now'))
    BY <2>1
  <2> QED BY <2>2 DEF QueuesTyped
<1>6. ASSUME NEW d \in Channel, o # SendOp(d)
      PROVE  IF queue[d] = <<>> THEN Never(Pop(agenda), SendOp(d))
                                ELSE Once(Pop(agenda), SendOp(d))
  BY <1>3, <1>6 DEF Busy
<1>7. ASSUME NEW c \in Channel, o = SendOp(c)
      PROVE  queue[c] # <<>> /\ Busy(Pop(agenda), queue, {c})
  <2>1. queue[c] # <<>> /\ Never(Pop(agenda), SendOp(c))
    BY <1>3, <1>7 DEF Busy
  <2>2. \A d \in Channel : d # c => o # SendOp(d)
    BY <1>7, SendOpFacts
  <2> QED BY <1>6, <2>1, <2>2 DEF Busy
<1>8. AgendaInv(Pop(agenda), now')
  BY <1>3 DEF AgendaInv
<1> QED BY <1>4, <1>5, <1>6, <1>7, <1>8 DEF Busy

(* A command that is no transmission leaves the pending ones alone. *)
LEMMA PushOther ==
  ASSUME NEW t \in Nat, NEW a, NEW q, AgendaInv(a, t), Busy(a, q, {}),
         NEW u \in Nat, u >= t, NEW o \in Operation,
         \A c \in Channel : o # SendOp(c),
         NEW b, b = Push(a, At(u, o))
  PROVE  AgendaInv(b, t) /\ Busy(b, q, {})
BY PushAgenda DEF Busy

(* The packet at the head of a queue is taken out. *)
LEMMA TailKeeps ==
  ASSUME NEW t \in Nat, NEW q, QueuesTyped(q, t), NEW c \in Channel, q[c] # <<>>,
         NEW a, Busy(a, q, {c}),
         NEW r, r = [q EXCEPT ![c] = Tail(@)]
  PROVE  /\ Head(q[c]) \in PacketUpTo(t)
         /\ QueuesTyped(r, t) /\ Busy(a, r, {c})
<1>1. q[c] \in Seq(PacketUpTo(t))
  BY DEF QueuesTyped
<1>2. \A d \in Channel : d # c => r[d] = q[d]
  BY DEF QueuesTyped
<1> QED BY <1>1, <1>2 DEF QueuesTyped, Busy

-----------------------------------------------------------------------------
(* The accounting. *)
TallyTyped == tally \in [Sender -> [Field -> Nat]]
DelaysTyped == delays \in [Sender -> Seq(Nat)]
NewestTyped == newest \in [Sender -> Nat \cup {-1}]
BooksTyped == TallyTyped /\ DelaysTyped /\ NewestTyped

LEMMA CountTyped ==
  ASSUME NEW tl \in [Sender -> [Field -> Nat]], NEW s \in Sender, NEW f \in Field
  PROVE  Count(tl, s, f) \in [Sender -> [Field -> Nat]]
BY DEF Count

LEMMA AccountsTyped ==
  ASSUME BooksTyped, NEW tl \in [Sender -> [Field -> Nat]], NEW t \in Nat,
         NEW p \in PacketUpTo(t), NEW st
  PROVE  /\ TallyAfterSend(tl, st, p) \in [Sender -> [Field -> Nat]]
         /\ DelaysAfterSend(st, p, t) \in [Sender -> Seq(Nat)]
         /\ NewestAfterSend(st, p) \in [Sender -> Nat \cup {-1}]
<1>1. p.sender \in Sender /\ p.born \in Nat /\ t - p.born \in Nat
  BY DEF PacketUpTo
<1>2. FateAt(st, p) \in Field
  BY DEF FateAt, Field
<1>3. TallyAfterSend(tl, st, p) \in [Sender -> [Field -> Nat]]
  BY <1>1, <1>2, CountTyped DEF TallyAfterSend
<1>4. DelaysAfterSend(st, p, t) \in [Sender -> Seq(Nat)]
  BY <1>1 DEF DelaysAfterSend, BooksTyped, DelaysTyped
<1>5. NewestAfterSend(st, p) \in [Sender -> Nat \cup {-1}]
  BY <1>1 DEF NewestAfterSend, BooksTyped, NewestTyped
<1> QED BY <1>3, <1>4, <1>5

-----------------------------------------------------------------------------
(* The inductive invariant. *)
QueuesInv ==
  /\ now \in Nat
  /\ AgendaInv(agenda, now)
  /\ QueuesTyped(queue, now)
  /\ Busy(agenda, queue, {})

NetInv ==
  /\ RoutesInv
  /\ QueuesInv
  /\ BooksTyped
  /\ phase \in {"running", "stopped", "done"}
  /\ lastUpdate \in Nat

LEMMA OperationFacts ==
  /\ <<"update">> \in Operation /\ <<"stop">> \in Operation
  /\ \A s \in Sender : <<"create", s>> \in Operation
BY DEF Operation

LEMMA InitialOpsFinite == IsFiniteSet(InitialOps)
<1>1. IsFiniteSet(Ground) /\ IsFiniteSet({"create"}) /\ IsFiniteSet({<<"update">>})
  <2>1. 1 \in Int /\ NumGround \in Int
    BY NetworkAssumption
  <2>2. IsFiniteSet(Ground)
    BY <2>1, FS_Interval DEF Ground
  <2>3. IsFiniteSet({"create"}) /\ IsFiniteSet({<<"update">>})
    BY FS_Singleton
  <2> QED BY <2>2, <2>3
<1>2. IsFiniteSet(Ground \X Ground)
  BY <1>1, FS_Product
<1>3. IsFiniteSet(Sender)
  BY <1>2, FS_Subset DEF Sender
<1>4. IsFiniteSet({"create"} \X Sender)
  BY <1>1, <1>3, FS_Product
<1>5. IsFiniteSet({<<"update">>, <<"stop">>})
  <2>1. {<<"update">>, <<"stop">>} = {<<"update">>} \cup {<<"stop">>}
    OBVIOUS
  <2> QED BY <1>1, <2>1, FS_AddElement, ZenonT(30)
<1> QED BY <1>4, <1>5, FS_Union DEF InitialOps

LEMMA NetInit == Init => NetInv
<1> SUFFICES ASSUME Init PROVE NetInv
  OBVIOUS
<1>1. RoutesInv
  BY RoutesInit
<1>2. Ordered(agenda) /\ agenda \in Seq(Command)
      /\ \A i \in 1 .. Len(agenda) : agenda[i].op \in InitialOps
  <2> DEFINE N == Cardinality(InitialOps)
  <2>1. PICK f \in [1 .. N -> InitialOps], gap \in [Sender -> Gaps] :
          agenda = [i \in DOMAIN f |-> At(FirstTime(f[i], gap), f[i])]
    BY SMTT(30) DEF Init, InitialAgendas
  <2>2. N \in Nat
    BY InitialOpsFinite, FS_CardinalityType
  <2>3. ASSUME NEW i \in 1 .. N PROVE agenda[i] \in Command /\ agenda[i].op \in InitialOps
    <3>1. f[i] \in InitialOps /\ f[i] \in Operation
      BY DEF InitialOps, Operation
    <3>2. FirstTime(f[i], gap) \in Nat
      BY <3>1, TimingAssumption DEF FirstTime, InitialOps
    <3>3. agenda[i] = At(FirstTime(f[i], gap), f[i])
      BY <2>1
    <3> QED BY <3>1, <3>2, <3>3, AtFacts
  <2> HIDE DEF N
  <2>4. agenda \in Seq(Command) /\ Len(agenda) = N
    BY <2>1, <2>2, <2>3
  <2>5. Ordered(agenda)
    BY DEF Init, InitialAgendas
  <2> QED BY <2>3, <2>4, <2>5
<1>3. QueuesInv
  <2>1. now = 0 /\ queue = [c \in Channel |-> <<>>]
    BY DEF Init
  <2>2. AgendaInv(agenda, now)
    <3>1. \A i \in 1 .. Len(agenda) : agenda[i] \in Command
      BY <1>2
    <3>2. NotBefore(agenda, 0)
      BY <3>1 DEF NotBefore, Command
    <3> QED BY <1>2, <2>1, <3>2 DEF AgendaInv
  <2>3. ASSUME NEW c \in Channel PROVE Never(agenda, SendOp(c))
    BY <1>2, SendOpFacts DEF Never, InitialOps
  <2> QED BY <2>1, <2>2, <2>3 DEF QueuesInv, QueuesTyped, Busy
<1>4. BooksTyped
  BY DEF Init, BooksTyped, TallyTyped, DelaysTyped, NewestTyped, NoCounts, NoDelays
<1> QED BY <1>1, <1>3, <1>4 DEF NetInv, Init

-----------------------------------------------------------------------------
(* Every action preserves the invariant. *)
LEMMA TimingFacts ==
  /\ DeltaT \in Nat
  /\ \A gap \in Gaps : gap \in Nat
  /\ \A delay \in Delays : delay \in Nat
BY TimingAssumption

LEMMA Later ==
  ASSUME NEW t \in Nat, NEW d \in Nat
  PROVE  t + d \in Nat /\ t + d >= t
OBVIOUS

LEMMA CreatePacketKeeps ==
  ASSUME NetInv, NEW s \in Sender, CreatePacket(s)
  PROVE  QueuesInv' /\ BooksTyped'
<1> DEFINE o == <<"create", s>>
           p == [sender |-> s, born |-> now']
<1>1. Take(o)
  BY DEF CreatePacket
<1>2. PICK gap \in Gaps, delay \in Delays :
        LET a == AgendaAfterSend(Pop(agenda), queue, s[1], p, now' + delay)
        IN /\ queue' = QueueAfterSend(queue, s[1], p)
           /\ agenda' = Push(a, At(now' + gap, o))
           /\ tally' = TallyAfterSend(Count(tally, s, "created"), s[1], p)
           /\ delays' = DelaysAfterSend(s[1], p, now')
           /\ newest' = NewestAfterSend(s[1], p)
  BY DEF CreatePacket
<1> DEFINE a == AgendaAfterSend(Pop(agenda), queue, s[1], p, now' + delay)
<1>3. \A c \in Channel : o # SendOp(c)
  BY SendOpFacts
<1>4. /\ now' \in Nat
      /\ AgendaInv(Pop(agenda), now')
      /\ QueuesTyped(queue, now')
      /\ Busy(Pop(agenda), queue, {})
  BY <1>1, <1>3, TakeFacts DEF NetInv, QueuesInv
<1>5. s[1] \in Station /\ p \in PacketUpTo(now')
  BY <1>4 DEF Sender, Station, PacketUpTo
<1>6. /\ now' + delay \in Nat /\ now' + delay >= now'
      /\ now' + gap \in Nat /\ now' + gap >= now'
  BY <1>4, Later, TimingFacts
<1>7. o \in Operation
  BY OperationFacts
<1>8. queue' = QueueAfterSend(queue, s[1], p) /\ agenda' = Push(a, At(now' + gap, o))
  BY <1>2
<1>9. AgendaInv(a, now') /\ QueuesTyped(queue', now') /\ Busy(a, queue', {})
  <2> HIDE DEF p, o
  <2> QED BY <1>4, <1>5, <1>6, <1>8, SendKeeps DEF NetInv, RoutesInv
<1>10. AgendaInv(agenda', now') /\ Busy(agenda', queue', {})
  <2> HIDE DEF a, p, o
  <2> QED BY <1>3, <1>4, <1>6, <1>7, <1>8, <1>9, PushOther
<1>11. BooksTyped'
  <2>1. Count(tally, s, "created") \in [Sender -> [Field -> Nat]]
    BY CountTyped DEF NetInv, BooksTyped, TallyTyped, Field
  <2>2. /\ tally' = TallyAfterSend(Count(tally, s, "created"), s[1], p)
        /\ delays' = DelaysAfterSend(s[1], p, now')
        /\ newest' = NewestAfterSend(s[1], p)
    BY <1>2
  <2> HIDE DEF p
  <2>3. /\ tally' \in [Sender -> [Field -> Nat]]
        /\ delays' \in [Sender -> Seq(Nat)]
        /\ newest' \in [Sender -> Nat \cup {-1}]
    BY <1>4, <1>5, <2>1, <2>2, AccountsTyped DEF NetInv
  <2> QED BY <2>3 DEF BooksTyped, TallyTyped, DelaysTyped, NewestTyped
<1> QED BY <1>4, <1>9, <1>10, <1>11 DEF QueuesInv

(* What both outcomes of a transmission start from. *)
LEMMA TransmitFacts ==
  ASSUME NetInv, NEW c \in Channel, Take(SendOp(c)),
         NEW q, q = [queue EXCEPT ![c] = Tail(@)]
  PROVE  /\ now' \in Nat
         /\ AgendaInv(Pop(agenda), now')
         /\ Head(queue[c]) \in PacketUpTo(now')
         /\ QueuesTyped(q, now')
         /\ Busy(Pop(agenda), q, {c})
<1>1. /\ now' \in Nat
      /\ AgendaInv(Pop(agenda), now')
      /\ QueuesTyped(queue, now')
      /\ queue[c] # <<>> /\ Busy(Pop(agenda), queue, {c})
  BY TakeFacts DEF NetInv, QueuesInv
<1> QED BY <1>1, TailKeeps

LEMMA DamagePacketKeeps ==
  ASSUME NetInv, NEW c \in Channel, DamagePacket(c)
  PROVE  QueuesInv' /\ BooksTyped'
<1>1. Take(SendOp(c)) /\ queue' = [queue EXCEPT ![c] = Tail(@)]
  BY DEF DamagePacket, SendOp
<1>2. PICK delay \in Delays : agenda' = ScheduleNext(Pop(agenda), queue', c, now' + delay)
  BY DEF DamagePacket
<1>3. /\ now' \in Nat
      /\ AgendaInv(Pop(agenda), now')
      /\ Head(queue[c]) \in PacketUpTo(now')
      /\ QueuesTyped(queue', now')
      /\ Busy(Pop(agenda), queue', {c})
  BY <1>1, TransmitFacts
<1>4. now' + delay \in Nat /\ now' + delay >= now'
  BY <1>3, Later, TimingFacts
<1>5. AgendaInv(agenda', now') /\ Busy(agenda', queue', {})
  BY <1>2, <1>3, <1>4, ScheduleNextKeeps
<1>6. tally' \in [Sender -> [Field -> Nat]]
  <2>1. Head(queue[c]).sender \in Sender /\ "damaged" \in Field
    BY <1>3 DEF PacketUpTo, Field
  <2> QED BY <2>1, CountTyped DEF DamagePacket, NetInv, BooksTyped, TallyTyped
<1>7. BooksTyped'
  BY <1>6 DEF DamagePacket, NetInv, BooksTyped, TallyTyped, DelaysTyped, NewestTyped
<1> QED BY <1>3, <1>5, <1>7 DEF QueuesInv

LEMMA PassPacketKeeps ==
  ASSUME NetInv, NEW c \in Channel, PassPacket(c)
  PROVE  QueuesInv' /\ BooksTyped'
<1> DEFINE p == Head(queue[c])
           q == [queue EXCEPT ![c] = Tail(@)]
<1>1. Take(SendOp(c))
  BY DEF PassPacket, SendOp
<1>2. PICK onward \in Delays, delay \in Delays :
        LET a == AgendaAfterSend(Pop(agenda), q, c[2], p, now' + onward)
        IN /\ queue' = QueueAfterSend(q, c[2], p)
           /\ agenda' = ScheduleNext(a, queue', c, now' + delay)
           /\ tally' = TallyAfterSend(tally, c[2], p)
           /\ delays' = DelaysAfterSend(c[2], p, now')
           /\ newest' = NewestAfterSend(c[2], p)
  BY DEF PassPacket
<1> DEFINE a == AgendaAfterSend(Pop(agenda), q, c[2], p, now' + onward)
<1>3. queue' = QueueAfterSend(q, c[2], p) /\ agenda' = ScheduleNext(a, queue', c, now' + delay)
  BY <1>2
<1>4. /\ now' \in Nat
      /\ AgendaInv(Pop(agenda), now')
      /\ p \in PacketUpTo(now')
      /\ QueuesTyped(q, now')
      /\ Busy(Pop(agenda), q, {c})
  BY <1>1, TransmitFacts
<1>5. c[2] \in Station
  BY DEF Channel
<1>6. /\ now' + onward \in Nat /\ now' + onward >= now'
      /\ now' + delay \in Nat /\ now' + delay >= now'
  BY <1>4, Later, TimingFacts
<1>7. RoutesTyped
  BY DEF NetInv, RoutesInv
<1> HIDE DEF p, q, a
<1>8. Forwarded(c[2], p) => ChannelFrom(c[2], p) \notin {c}
  <2>1. p.sender \in Sender
    BY <1>4 DEF PacketUpTo
  <2> QED BY <1>5, <1>7, <2>1, ChannelFromFacts
<1>9. AgendaInv(a, now') /\ QueuesTyped(queue', now') /\ Busy(a, queue', {c})
  BY <1>3, <1>4, <1>5, <1>6, <1>7, <1>8, SendKeeps DEF a
<1>10. AgendaInv(agenda', now') /\ Busy(agenda', queue', {})
  BY <1>3, <1>4, <1>6, <1>9, ScheduleNextKeeps
<1>11. BooksTyped'
  <2>1. /\ tally' = TallyAfterSend(tally, c[2], p)
        /\ delays' = DelaysAfterSend(c[2], p, now')
        /\ newest' = NewestAfterSend(c[2], p)
    BY <1>2 DEF p
  <2>2. /\ tally' \in [Sender -> [Field -> Nat]]
        /\ delays' \in [Sender -> Seq(Nat)]
        /\ newest' \in [Sender -> Nat \cup {-1}]
    BY <1>4, <2>1, AccountsTyped DEF NetInv, BooksTyped, TallyTyped
  <2> QED BY <2>2 DEF BooksTyped, TallyTyped, DelaysTyped, NewestTyped
<1> QED BY <1>4, <1>9, <1>10, <1>11 DEF QueuesInv

(* Closing a period clears the maps. *)
LEMMA RecordPeriodKeeps ==
  ASSUME BooksTyped, NEW t \in Nat, UpdateSatellitePositions(t)
  PROVE  BooksTyped' /\ lastUpdate' \in Nat /\ queue' = queue
BY DEF UpdateSatellitePositions, RecordPeriod, BooksTyped, TallyTyped, DelaysTyped,
       NewestTyped, NoCounts, NoDelays

LEMMA UpdateKeeps ==
  ASSUME NetInv, Update
  PROVE  QueuesInv' /\ BooksTyped' /\ lastUpdate' \in Nat
<1>1. Take(<<"update">>) /\ \A c \in Channel : <<"update">> # SendOp(c)
  BY SendOpFacts DEF Update
<1>2. /\ now' \in Nat
      /\ AgendaInv(Pop(agenda), now')
      /\ QueuesTyped(queue, now')
      /\ Busy(Pop(agenda), queue, {})
  BY <1>1, TakeFacts DEF NetInv, QueuesInv
<1>3. BooksTyped' /\ lastUpdate' \in Nat /\ queue' = queue
  BY <1>2, RecordPeriodKeeps DEF Update, NetInv
<1>4. now' + DeltaT \in Nat /\ now' + DeltaT >= now'
  BY <1>2, Later, TimingFacts
<1>5. agenda' = Push(Pop(agenda), At(now' + DeltaT, <<"update">>))
  BY DEF Update
<1>6. AgendaInv(agenda', now') /\ Busy(agenda', queue, {})
  BY <1>1, <1>2, <1>4, <1>5, OperationFacts, PushOther
<1> QED BY <1>2, <1>3, <1>6 DEF QueuesInv

LEMMA StopKeeps ==
  ASSUME NetInv, Stop
  PROVE  QueuesInv' /\ BooksTyped'
<1>1. Take(<<"stop">>) /\ \A c \in Channel : <<"stop">> # SendOp(c)
  BY SendOpFacts DEF Stop
<1>2. /\ now' \in Nat
      /\ AgendaInv(Pop(agenda), now')
      /\ QueuesTyped(queue, now')
      /\ Busy(Pop(agenda), queue, {})
  BY <1>1, TakeFacts DEF NetInv, QueuesInv
<1> QED BY <1>2 DEF Stop, QueuesInv, NetInv, BooksTyped, TallyTyped, DelaysTyped,
                   NewestTyped, bookVars

LEMMA NetStep == NetInv /\ [Next]_vars => NetInv'
<1> SUFFICES ASSUME NetInv, [Next]_vars PROVE NetInv'
  OBVIOUS
<1>0. RoutesInv'
  BY RoutesStep DEF NetInv
<1>1. ASSUME NEW s \in Sender, CreatePacket(s) PROVE NetInv'
  <2>1. phase' = phase /\ lastUpdate' = lastUpdate
    BY <1>1 DEF CreatePacket
  <2> QED BY <1>0, <1>1, <2>1, CreatePacketKeeps DEF NetInv
<1>2. ASSUME NEW c \in Channel, DamagePacket(c) PROVE NetInv'
  <2>1. phase' = phase /\ lastUpdate' = lastUpdate
    BY <1>2 DEF DamagePacket
  <2> QED BY <1>0, <1>2, <2>1, DamagePacketKeeps DEF NetInv
<1>3. ASSUME NEW c \in Channel, PassPacket(c) PROVE NetInv'
  <2>1. phase' = phase /\ lastUpdate' = lastUpdate
    BY <1>3 DEF PassPacket
  <2> QED BY <1>0, <1>3, <2>1, PassPacketKeeps DEF NetInv
<1>4. CASE Update
  <2>1. phase' = phase
    BY <1>4 DEF Update
  <2> QED BY <1>0, <1>4, <2>1, UpdateKeeps DEF NetInv
<1>5. CASE Stop
  <2>1. phase' = "stopped" /\ lastUpdate' = lastUpdate
    BY <1>5 DEF Stop
  <2> QED BY <1>0, <1>5, <2>1, StopKeeps DEF NetInv
<1>6. CASE Finish
  <2>1. phase' = "done" /\ now' = now /\ agenda' = agenda
        /\ UpdateSatellitePositions(now)
    BY <1>6 DEF Finish
  <2>2. BooksTyped' /\ lastUpdate' \in Nat /\ queue' = queue
    BY <2>1, RecordPeriodKeeps DEF NetInv, QueuesInv
  <2>3. QueuesInv'
    BY <2>1, <2>2 DEF NetInv, QueuesInv
  <2> QED BY <1>0, <2>1, <2>2, <2>3 DEF NetInv
<1>7. CASE UNCHANGED vars
  BY <1>0, <1>7 DEF vars, NetInv, QueuesInv, BooksTyped, TallyTyped, DelaysTyped,
                    NewestTyped, bookVars
<1> QED BY <1>1, <1>2, <1>3, <1>4, <1>5, <1>6, <1>7 DEF Next

-----------------------------------------------------------------------------
(* The type of every variable. *)
THEOREM TypeCorrect == Spec => []TypeOK
<1>1. NetInv => TypeOK
  <2> SUFFICES ASSUME NetInv PROVE TypeOK
    OBVIOUS
  <2>1. queue \in [Channel -> Seq(Packet)]
    <3>1. PacketUpTo(now) \subseteq Packet
      BY DEF NetInv, QueuesInv, PacketUpTo, Packet
    <3>2. \A q \in Seq(PacketUpTo(now)) : q \in Seq(Packet)
      BY <3>1
    <3> QED BY <3>2 DEF NetInv, QueuesInv, QueuesTyped
  <2> QED BY <2>1 DEF TypeOK, NetInv, RoutesInv, RoutesTyped, Entries, QueuesInv,
                     AgendaInv, BooksTyped, TallyTyped, DelaysTyped, NewestTyped
<1> QED BY <1>1, NetInit, NetStep, PTL DEF Spec

(* Simulator.run: the clock never runs backwards past a pending command,    *)
(* whatever events schedule while they execute.                             *)
THEOREM TemporalOrder == Spec => []NothingInThePast
<1>1. NetInv => NothingInThePast
  <2> SUFFICES ASSUME NetInv PROVE NothingInThePast
    OBVIOUS
  <2>1. agenda \in Seq(Command) /\ Ordered(agenda) /\ NotBefore(agenda, now)
    BY DEF NetInv, QueuesInv, AgendaInv
  <2> QED BY <2>1 DEF NothingInThePast, NotBefore
<1> QED BY <1>1, NetInit, NetStep, PTL DEF Spec

(* SmartDuplexLink: a direction of a link has a transmission pending        *)
(* exactly if its queue holds a packet, and never two.                      *)
THEOREM OneTransmission == Spec => []OneTransmissionPerBusyQueue
<1>1. NetInv => OneTransmissionPerBusyQueue
  <2> SUFFICES ASSUME NetInv, NEW c \in Channel
               PROVE  Cardinality(PendingAt(agenda, <<"send", c>>))
                        = IF queue[c] = <<>> THEN 0 ELSE 1
    BY DEF OneTransmissionPerBusyQueue
  <2>1. CASE queue[c] = <<>>
    <3>1. Never(agenda, <<"send", c>>)
      BY <2>1 DEF NetInv, QueuesInv, Busy, SendOp
    <3>2. PendingAt(agenda, <<"send", c>>) = {}
      BY <3>1 DEF Never, PendingAt
    <3> QED BY <2>1, <3>2, FS_EmptySet
  <2>2. CASE queue[c] # <<>>
    <3>1. Once(agenda, <<"send", c>>)
      BY <2>2 DEF NetInv, QueuesInv, Busy, SendOp
    <3>2. PICK i \in 1 .. Len(agenda) :
            /\ agenda[i].op = <<"send", c>>
            /\ \A j \in 1 .. Len(agenda) : agenda[j].op = <<"send", c>> => j = i
      BY <3>1 DEF Once
    <3>3. PendingAt(agenda, <<"send", c>>) = {i}
      BY <3>2 DEF PendingAt
    <3> QED BY <2>2, <3>3, FS_Singleton
  <2> QED BY <2>1, <2>2
<1> QED BY <1>1, NetInit, NetStep, PTL DEF Spec

-----------------------------------------------------------------------------
(* No packet is dropped.  Before the first update nothing happens; from     *)
(* then on every uplink leads to a satellite with an entry for every other  *)
(* ground station, and every packet on its way to a satellite finds an      *)
(* entry there: the tables have no dead ends and an update removes none.    *)
Fresh == phase = "running" /\ agenda # <<>> /\ agenda[1].op = <<"update">>

Uplinked ==
  \A g \in Ground :
    /\ uplink[g] \in Sat
    /\ \A d \in Ground : d # g => table[d][uplink[g]] # NoLink

Served(q) ==
  \A c \in Channel : c[2] \in Sat =>
    \A i \in 1 .. Len(q[c]) : table[Dest(q[c][i])][c[2]] # NoLink

ServedInv == NetInv /\ (Fresh \/ Uplinked) /\ Served(queue) /\ NeverDropped

LEMMA InitialFresh == Init => Fresh
<1> SUFFICES ASSUME Init PROVE Fresh
  OBVIOUS
<1>1. agenda[1].op = <<"update">>
  BY DEF Init, InitialAgendas
<1>2. PICK f \in [1 .. Cardinality(InitialOps) -> InitialOps] :
        DOMAIN agenda = 1 .. Cardinality(InitialOps)
  BY DEF Init, InitialAgendas
<1>3. Cardinality(InitialOps) \in Nat
  BY InitialOpsFinite, FS_CardinalityType
<1>4. InitialOps # {}
  BY DEF InitialOps
<1>5. Cardinality(InitialOps) # 0
  BY <1>4, InitialOpsFinite, FS_EmptySet
<1>6. agenda # <<>>
  BY <1>2, <1>3, <1>5
<1> QED BY <1>1, <1>6 DEF Fresh, Init

LEMMA ServedInit == Init => ServedInv
<1> SUFFICES ASSUME Init PROVE ServedInv
  OBVIOUS
<1>1. NetInv
  BY NetInit
<1>2. Served(queue)
  BY DEF Init, Served
<1>3. NeverDropped
  BY DEF Init, NeverDropped, NoCounts, Field
<1>4. Fresh
  BY InitialFresh
<1> QED BY <1>1, <1>2, <1>3, <1>4 DEF ServedInv

(* Station.send at a station that has a route: the packet is not dropped,   *)
(* and it finds an entry where it goes.                                     *)
LEMMA SendServes ==
  ASSUME RoutesInv, Uplinked, NEW t, NEW q, QueuesTyped(q, t), Served(q),
         NEW st \in Station, NEW p \in PacketUpTo(t),
         st \in Sat => table[Dest(p)][st] # NoLink,
         NEW r, r = QueueAfterSend(q, st, p)
  PROVE  Served(r) /\ ~Unroutable(st, p)
<1>0. p.sender \in Sender
  BY DEF PacketUpTo
<1>1. Dest(p) \in Ground
  BY <1>0 DEF Dest, Sender
<1>2. ~Unroutable(st, p)
  <2>1. CASE st \in Sat
    BY <2>1 DEF Unroutable, RouteAt
  <2>2. CASE st \notin Sat
    <3>1. st \in Ground /\ uplink[st] \in Sat
      BY <2>2 DEF Station, Uplinked
    <3>2. uplink[st] # NoSat /\ <<st, uplink[st]>> # NoLink
      BY <3>1, StationFacts DEF NoSat, NoLink
    <3> QED BY <2>2, <3>2 DEF Unroutable, RouteAt
  <2> QED BY <2>1, <2>2
<1>3. CASE ~Forwarded(st, p)
  BY <1>2, <1>3 DEF QueueAfterSend
<1>4. CASE Forwarded(st, p)
  <2> DEFINE c == ChannelFrom(st, p)
  <2>1. c \in Channel
    BY <1>0, <1>4, ChannelFromFacts DEF RoutesInv
  <2>2. r = [q EXCEPT ![c] = Append(@, p)]
    BY <1>4 DEF QueueAfterSend
  <2>3. c[2] \in Sat => table[Dest(p)][c[2]] # NoLink
    <3>1. c[2] = OtherStation(RouteAt(st, Dest(p)), st)
      BY DEF ChannelFrom
    <3>2. CASE st \in Sat
      <4>1. RouteAt(st, Dest(p)) = table[Dest(p)][st]
        BY <3>2 DEF RouteAt
      <4>2. \/ NextHop(table[Dest(p)], st) = Dest(p)
            \/ table[Dest(p)][NextHop(table[Dest(p)], st)] # NoLink
        BY <1>1, <3>2 DEF RoutesInv, RoutesLeadOn, NoDeadEnd
      <4>3. Dest(p) \notin Sat
        BY <1>1, StationFacts
      <4> QED BY <3>1, <4>1, <4>2, <4>3 DEF NextHop
    <3>3. CASE st \notin Sat
      <4>1. st \in Ground /\ uplink[st] \in Sat /\ uplink[st] # NoSat
        BY <3>3, StationFacts DEF Station, Uplinked, NoSat
      <4>2. RouteAt(st, Dest(p)) = <<st, uplink[st]>>
        BY <3>3, <4>1 DEF RouteAt
      <4>3. c[2] = uplink[st]
        BY <3>1, <4>2 DEF OtherStation
      <4>4. Dest(p) # st
        BY <1>4 DEF Forwarded, Arrived
      <4> QED BY <1>1, <4>1, <4>3, <4>4 DEF Uplinked
    <3> QED BY <3>2, <3>3
  <2> HIDE DEF c
  <2>4. q[c] \in Seq(PacketUpTo(t)) /\ c \in DOMAIN q
    BY <2>1 DEF QueuesTyped
  <2>5. r[c] = Append(q[c], p) /\ \A d \in Channel : d # c => r[d] = q[d]
    BY <2>1, <2>2, <2>4 DEF QueuesTyped
  <2>6. \A i \in 1 .. Len(r[c]) :
          (i \in 1 .. Len(q[c]) /\ r[c][i] = q[c][i]) \/ r[c][i] = p
    BY <2>4, <2>5
  <2>7. ASSUME NEW d \in Channel, d[2] \in Sat, NEW i \in 1 .. Len(r[d])
        PROVE  table[Dest(r[d][i])][d[2]] # NoLink
    <3>1. CASE d = c
      BY <2>3, <2>6, <2>7, <3>1 DEF Served
    <3>2. CASE d # c
      BY <2>5, <2>7, <3>2 DEF Served
    <3> QED BY <3>1, <3>2
  <2> QED BY <1>2, <2>7 DEF Served
<1> QED BY <1>3, <1>4

(* Only an unroutable packet is counted as dropped.                         *)
LEMMA CountsNoDrop ==
  ASSUME NEW tl \in [Sender -> [Field -> Nat]], \A s \in Sender : tl[s]["dropped"] = 0,
         NEW st, NEW p, p.sender \in Sender, ~Unroutable(st, p)
  PROVE  \A s \in Sender : TallyAfterSend(tl, st, p)[s]["dropped"] = 0
<1>1. FateAt(st, p) \in {"good", "late"}
  BY DEF FateAt
<1>2. \A f \in {"good", "late"} : \A s \in Sender : Count(tl, p.sender, f)[s]["dropped"] = 0
  BY DEF Count, Field
<1> QED BY <1>1, <1>2 DEF TallyAfterSend

(* Re-routing serves the uplinks it chooses and the packets on their way.   *)
LEMMA RerouteServes ==
  ASSUME RoutesInv, RerouteAll, NEW t, QueuesTyped(queue, t), Served(queue),
         queue' = queue
  PROVE  Uplinked' /\ Served(queue)'
<1>1. PICK r \in Routing :
        /\ uplink' = r.best
        /\ table' = [d \in Ground |->
             Reroute(table[d], d, uplink[d], r.best[d],
                     [g \in Sources(d) |-> r.walk[<<g, d>>]], r.order[d])]
  BY DEF RerouteAll
<1>2. ASSUME NEW d \in Ground
      PROVE  /\ \A s \in Sat : table[d][s] # NoLink => table'[d][s] # NoLink
             /\ \A g \in Ground : g # d => uplink'[g] \in Sat /\ table'[d][uplink'[g]] # NoLink
  <2> DEFINE walk == [g \in Sources(d) |-> r.walk[<<g, d>>]]
             col == table[d]
             old == uplink[d]
             new == r.best[d]
             order == r.order[d]
  <2>1. walk \in [Sources(d) -> Walk]
    BY RoutingFacts, SenderTo
  <2>2. \A g \in Sources(d) : walk[g] \in WalkTo(new)
    BY RoutingFacts, SenderTo
  <2>10. \A g \in Sources(d) : walk[g][1] = r.best[g]
    BY RoutingFacts, SenderTo
  <2>3. col \in [Sat -> Entries] /\ NoDeadEnd(col, d) /\ NoCycle(col)
    BY DEF RoutesInv, RoutesTyped, RoutesLeadOn, NoForwardingLoop
  <2>4. new \in Sat /\ order \in IterationOrders(d)
    BY RoutingFacts
  <2>5. table'[d] = Reroute(col, d, old, new, walk, order)
    BY <1>1
  <2>6. \A g \in Ground : g # d => g \in Sources(d)
    BY DEF Sources
  <2> HIDE DEF walk, col, old, new, order
  <2>7. LET c == Reroute(col, d, old, new, walk, order)
        IN /\ \A s \in Sat : col[s] # NoLink => c[s] # NoLink
           /\ \A g \in Sources(d) : walk[g][1] \in Sat /\ c[walk[g][1]] # NoLink
    BY <2>1, <2>2, <2>3, <2>4, RerouteFills
  <2>8. \A s \in Sat : table[d][s] # NoLink => table'[d][s] # NoLink
    BY <2>5, <2>7 DEF col
  <2>9. ASSUME NEW g \in Ground, g # d
        PROVE  uplink'[g] \in Sat /\ table'[d][uplink'[g]] # NoLink
    <3>1. walk[g][1] \in Sat /\ table'[d][walk[g][1]] # NoLink
      BY <2>5, <2>6, <2>7, <2>9
    <3> QED BY <1>1, <2>6, <2>9, <2>10, <3>1
  <2> QED BY <2>8, <2>9
<1>3. Uplinked'
  <2>1. \A g \in Ground : uplink'[g] \in Sat
    BY <1>1, RoutingFacts
  <2> QED BY <1>2, <2>1 DEF Uplinked
<1>4. Served(queue)'
  <2> SUFFICES ASSUME NEW c \in Channel, c[2] \in Sat, NEW i \in 1 .. Len(queue[c])
               PROVE  table'[Dest(queue[c][i])][c[2]] # NoLink
    BY DEF Served
  <2>1. queue[c] \in Seq(PacketUpTo(t))
    BY DEF QueuesTyped
  <2>2. queue[c][i] \in PacketUpTo(t)
    BY <2>1
  <2>3. Dest(queue[c][i]) \in Ground
    BY <2>2 DEF PacketUpTo, Dest, Sender
  <2>4. table[Dest(queue[c][i])][c[2]] # NoLink
    BY DEF Served
  <2> QED BY <1>2, <2>3, <2>4
<1> QED BY <1>3, <1>4

(* A command other than an update is only taken behind the first update.    *)
LEMMA NotFresh ==
  ASSUME ServedInv, NEW o, Take(o), o # <<"update">>
  PROVE  Uplinked
BY DEF ServedInv, Fresh, Take, Peek

LEMMA UplinkedStays ==
  ASSUME UNCHANGED netVars
  PROVE  /\ Uplinked => Uplinked'
         /\ \A q : Served(q) => Served(q)'
BY DEF netVars, Uplinked, Served

LEMMA CreatePacketServes ==
  ASSUME ServedInv, NEW s \in Sender, CreatePacket(s)
  PROVE  Uplinked' /\ Served(queue)' /\ NeverDropped'
<1> DEFINE p == [sender |-> s, born |-> now']
           o == <<"create", s>>
           tl == Count(tally, s, "created")
<1>1. Take(o) /\ o # <<"update">> /\ (\A c \in Channel : o # SendOp(c)) /\ UNCHANGED netVars
  BY SendOpFacts DEF CreatePacket
<1>2. Uplinked /\ NetInv /\ RoutesInv /\ Served(queue)
  <2> HIDE DEF o
  <2> QED BY <1>1, NotFresh DEF ServedInv, NetInv
<1>3. now' \in Nat /\ QueuesTyped(queue, now')
  <2> HIDE DEF o
  <2> QED BY <1>1, <1>2, TakeFacts DEF NetInv, QueuesInv
<1>4. queue' = QueueAfterSend(queue, s[1], p) /\ tally' = TallyAfterSend(tl, s[1], p)
  BY DEF CreatePacket
<1>5. s[1] \in Station /\ p \in PacketUpTo(now') /\ p.sender \in Sender /\ s[1] \notin Sat
  <2>1. s[1] \in Ground
    BY DEF Sender
  <2>2. s[1] \in Station /\ s[1] \notin Sat
    BY <2>1, StationFacts DEF Station
  <2>3. p \in PacketUpTo(now') /\ p.sender \in Sender
    BY <1>3 DEF PacketUpTo
  <2> QED BY <2>2, <2>3
<1>6. tl \in [Sender -> [Field -> Nat]] /\ \A x \in Sender : tl[x]["dropped"] = 0
  BY <1>2 DEF ServedInv, NeverDropped, NetInv, BooksTyped, TallyTyped, Count, Field
<1> HIDE DEF p, tl
<1>7. Served(queue') /\ ~Unroutable(s[1], p)
  BY <1>2, <1>3, <1>4, <1>5, SendServes
<1>8. \A x \in Sender : tally'[x]["dropped"] = 0
  BY <1>4, <1>5, <1>6, <1>7, CountsNoDrop
<1>9. Uplinked' /\ Served(queue)'
  BY <1>1, <1>2, <1>7 DEF netVars, Uplinked, Served
<1> QED BY <1>8, <1>9 DEF NeverDropped

LEMMA TailServes ==
  ASSUME NEW t, QueuesTyped(queue, t), Served(queue), NEW c \in Channel, queue[c] # <<>>,
         NEW q, q = [queue EXCEPT ![c] = Tail(@)]
  PROVE  /\ Served(q)
         /\ c[2] \in Sat => table[Dest(Head(queue[c]))][c[2]] # NoLink
<1>1. queue[c] \in Seq(PacketUpTo(t)) /\ Len(queue[c]) \in Nat /\ Len(queue[c]) # 0
  BY DEF QueuesTyped
<1>2. q[c] = Tail(queue[c]) /\ \A d \in Channel : d # c => q[d] = queue[d]
  BY DEF QueuesTyped
<1>3. \A i \in 1 .. Len(q[c]) : i + 1 \in 1 .. Len(queue[c]) /\ q[c][i] = queue[c][i + 1]
  <2> DEFINE s == queue[c]
             S == PacketUpTo(t)
  <2>1. s \in Seq(S) /\ s # <<>> /\ q[c] = Tail(s)
    BY <1>1, <1>2
  <2> HIDE DEF s, S
  <2>2. \A i \in 1 .. Len(Tail(s)) : i + 1 \in 1 .. Len(s) /\ Tail(s)[i] = s[i + 1]
    BY <2>1
  <2> QED BY <2>1, <2>2 DEF s
<1>4. Head(queue[c]) = queue[c][1] /\ 1 \in 1 .. Len(queue[c])
  BY <1>1
<1>5. c[2] \in Sat => \A i \in 1 .. Len(queue[c]) : table[Dest(queue[c][i])][c[2]] # NoLink
  BY DEF Served
<1>6. ASSUME NEW d \in Channel, d[2] \in Sat, NEW i \in 1 .. Len(q[d])
      PROVE  table[Dest(q[d][i])][d[2]] # NoLink
  <2>1. CASE d = c
    BY <1>3, <1>5, <1>6, <2>1
  <2>2. CASE d # c
    BY <1>2, <1>6, <2>2 DEF Served
  <2> QED BY <2>1, <2>2
<1>7. Served(q)
  BY <1>6 DEF Served
<1> QED BY <1>4, <1>5, <1>7

LEMMA DamagePacketServes ==
  ASSUME ServedInv, NEW c \in Channel, DamagePacket(c)
  PROVE  Uplinked' /\ Served(queue)' /\ NeverDropped'
<1>1. /\ Take(SendOp(c)) /\ SendOp(c) # <<"update">> /\ UNCHANGED netVars
      /\ queue' = [queue EXCEPT ![c] = Tail(@)]
      /\ tally' = Count(tally, Head(queue[c]).sender, "damaged")
  BY SendOpFacts DEF DamagePacket, SendOp
<1>2. Uplinked /\ NetInv /\ Served(queue)
  BY <1>1, NotFresh DEF ServedInv
<1>3. QueuesTyped(queue, now') /\ queue[c] # <<>>
  BY <1>1, <1>2, TakeFacts DEF NetInv, QueuesInv
<1>4. Served(queue')
  BY <1>1, <1>2, <1>3, TailServes
<1>5. Head(queue[c]).sender \in Sender
  BY <1>1, <1>2, TransmitFacts DEF PacketUpTo
<1>6. \A x \in Sender : tally'[x]["dropped"] = 0
  BY <1>1, <1>2, <1>5 DEF ServedInv, NeverDropped, NetInv, BooksTyped, TallyTyped, Count, Field
<1>7. Uplinked' /\ Served(queue)'
  BY <1>1, <1>2, <1>4 DEF netVars, Uplinked, Served
<1> QED BY <1>6, <1>7 DEF NeverDropped

LEMMA PassPacketServes ==
  ASSUME ServedInv, NEW c \in Channel, PassPacket(c)
  PROVE  Uplinked' /\ Served(queue)' /\ NeverDropped'
<1> DEFINE p == Head(queue[c])
           q == [queue EXCEPT ![c] = Tail(@)]
<1>1. /\ Take(SendOp(c)) /\ SendOp(c) # <<"update">> /\ UNCHANGED netVars
      /\ queue' = QueueAfterSend(q, c[2], p)
      /\ tally' = TallyAfterSend(tally, c[2], p)
  BY SendOpFacts DEF PassPacket, SendOp
<1>2. Uplinked /\ NetInv /\ RoutesInv /\ Served(queue)
  BY <1>1, NotFresh DEF ServedInv, NetInv
<1>3. QueuesTyped(queue, now') /\ queue[c] # <<>>
  BY <1>1, <1>2, TakeFacts DEF NetInv, QueuesInv
<1>4. p \in PacketUpTo(now') /\ p.sender \in Sender /\ QueuesTyped(q, now')
  BY <1>1, <1>2, TransmitFacts DEF PacketUpTo
<1>5. c[2] \in Station
  BY DEF Channel
<1> HIDE DEF q
<1>6. Served(q) /\ (c[2] \in Sat => table[Dest(p)][c[2]] # NoLink)
  BY <1>2, <1>3, TailServes DEF q
<1> HIDE DEF p
<1>7. Served(queue') /\ ~Unroutable(c[2], p)
  BY <1>1, <1>2, <1>4, <1>5, <1>6, SendServes
<1>8. \A x \in Sender : tally'[x]["dropped"] = 0
  BY <1>1, <1>2, <1>4, <1>7, CountsNoDrop DEF ServedInv, NeverDropped, NetInv, BooksTyped, TallyTyped
<1>9. Uplinked' /\ Served(queue)'
  BY <1>1, <1>2, <1>7 DEF netVars, Uplinked, Served
<1> QED BY <1>8, <1>9 DEF NeverDropped

LEMMA UpdateServes ==
  ASSUME ServedInv, NEW t, UpdateSatellitePositions(t)
  PROVE  Uplinked' /\ Served(queue)' /\ NeverDropped'
<1>1. RoutesInv /\ QueuesTyped(queue, now) /\ Served(queue)
  BY DEF ServedInv, NetInv, QueuesInv
<1>2. RerouteAll /\ queue' = queue /\ tally' = NoCounts
  BY DEF UpdateSatellitePositions, RecordPeriod
<1>3. Uplinked' /\ Served(queue)'
  BY <1>1, <1>2, RerouteServes
<1>4. NeverDropped'
  BY <1>2 DEF NeverDropped, NoCounts, Field
<1> QED BY <1>3, <1>4

LEMMA ServedStep == ServedInv /\ [Next]_vars => ServedInv'
<1> SUFFICES ASSUME ServedInv, [Next]_vars PROVE ServedInv'
  OBVIOUS
<1>0. NetInv'
  BY NetStep DEF ServedInv
<1> DEFINE Goal == Uplinked' /\ Served(queue)' /\ NeverDropped'
<1>1. ASSUME NEW s \in Sender, CreatePacket(s) PROVE Goal
  BY <1>1, CreatePacketServes
<1>2. ASSUME NEW c \in Channel, DamagePacket(c) PROVE Goal
  BY <1>2, DamagePacketServes
<1>3. ASSUME NEW c \in Channel, PassPacket(c) PROVE Goal
  BY <1>3, PassPacketServes
<1>4. CASE Update
  <2>1. UpdateSatellitePositions(now')
    BY <1>4 DEF Update
  <2> QED BY <1>0, <2>1, UpdateServes DEF ServedInv
<1>5. CASE Stop
  <2>1. Take(<<"stop">>) /\ UNCHANGED <<netVars, queue, tally>>
    BY <1>5 DEF Stop, bookVars
  <2>2. Uplinked
    BY <2>1, NotFresh
  <2>3. Uplinked' /\ Served(queue)' /\ NeverDropped'
    BY <2>1, <2>2 DEF ServedInv, netVars, Uplinked, Served, NeverDropped
  <2> QED BY <1>0, <2>3 DEF ServedInv
<1>6. CASE Finish
  <2>1. UpdateSatellitePositions(now)
    BY <1>6 DEF Finish
  <2> QED BY <1>0, <2>1, UpdateServes DEF ServedInv
<1>7. CASE UNCHANGED vars
  BY <1>0, <1>7 DEF vars, netVars, bookVars, ServedInv, Fresh, Uplinked, Served, NeverDropped
<1> QED BY <1>0, <1>1, <1>2, <1>3, <1>4, <1>5, <1>6, <1>7 DEF Next, ServedInv

(* Station.send never drops a packet, however often the tables are          *)
(* rewritten while it is on its way.                                        *)
THEOREM NothingDropped == Spec => []NeverDropped
<1>1. ServedInv => NeverDropped
  BY DEF ServedInv
<1> QED BY <1>1, ServedInit, ServedStep, PTL DEF Spec

-----------------------------------------------------------------------------
(* The reported periods.  While the loop runs the stop command is pending,  *)
(* at EndTime: no event takes another one for it or schedules a second. So  *)
(* the loop ends at EndTime, and the update behind it closes the last       *)
(* period there.                                                            *)
StopAtEnd(a) ==
  /\ Once(a, <<"stop">>)
  /\ \A i \in 1 .. Len(a) : a[i].op = <<"stop">> => a[i].time = EndTime

PeriodsInv ==
  /\ NetInv
  /\ phase = "running" => StopAtEnd(agenda)
  /\ phase = "stopped" => now = EndTime
  /\ \E S : events \in Seq(S)
  /\ events # <<>> => DOMAIN paths = Sender
  /\ PeriodsTile

(* The first commands are the first operations, each of them once.          *)
LEMMA InitialOnce ==
  ASSUME Init, NEW o \in InitialOps
  PROVE  /\ Once(agenda, o)
         /\ \A i \in 1 .. Len(agenda) :
              agenda[i].op = o /\ o = <<"stop">> => agenda[i].time = EndTime
<1> DEFINE N == Cardinality(InitialOps)
<1>1. PICK f \in [1 .. N -> InitialOps], gap \in [Sender -> Gaps] :
        /\ \A i, j \in DOMAIN f : f[i] = f[j] => i = j
        /\ agenda = [i \in DOMAIN f |-> At(FirstTime(f[i], gap), f[i])]
  BY DEF Init, InitialAgendas
<1>2. N \in Nat
  BY InitialOpsFinite, FS_CardinalityType
<1>3. \A i \in 1 .. N : agenda[i].op = f[i] /\ agenda[i].time = FirstTime(f[i], gap)
  BY <1>1 DEF At
<1>4. DOMAIN agenda = 1 .. N
  BY <1>1
<1>5. Len(agenda) = N
  <2>1. agenda \in Seq(Command)
    BY NetInit DEF NetInv, QueuesInv, AgendaInv
  <2> QED BY <1>2, <1>4, <2>1
<1>6. \E i \in 1 .. N : f[i] = o
  <2> SUFFICES ASSUME \A i \in 1 .. N : f[i] # o PROVE FALSE
    OBVIOUS
  <2> DEFINE Others == InitialOps \ {o}
  <2>1. IsFiniteSet(Others) /\ Cardinality(Others) = N - 1
    BY <1>2, InitialOpsFinite, FS_RemoveElement
  <2>2. IsFiniteSet(1 .. N) /\ Cardinality(1 .. N) = N
    BY <1>2, FS_Interval
  <2>3. f \in [1 .. N -> Others]
    OBVIOUS
  <2>4. \E i, j \in 1 .. N : i # j /\ f[i] = f[j]
    <3>1. Cardinality(Others) < Cardinality(1 .. N)
      BY <1>2, <2>1, <2>2
    <3> HIDE DEF Others, N
    <3> QED BY <2>1, <2>2, <2>3, <3>1, FS_PigeonHole
  <2> QED BY <1>1, <2>4
<1>7. \A i \in 1 .. N : f[i] = o /\ o = <<"stop">> => agenda[i].time = EndTime
  BY <1>3 DEF FirstTime
<1>8. \A i, j \in 1 .. N : f[i] = f[j] => i = j
  BY <1>1
<1> HIDE DEF N
<1>9. Once(agenda, o)
  BY <1>3, <1>5, <1>6, <1>8 DEF Once
<1> QED BY <1>3, <1>5, <1>7, <1>9

LEMMA InitialStop == Init => StopAtEnd(agenda)
<1>1. <<"stop">> \in InitialOps
  BY DEF InitialOps
<1> QED BY <1>1, InitialOnce DEF StopAtEnd

LEMMA PeriodsInit == Init => PeriodsInv
<1> SUFFICES ASSUME Init PROVE PeriodsInv
  OBVIOUS
<1>1. events = <<>> /\ phase = "running" /\ lastUpdate = 0
  BY DEF Init
<1>2. events \in Seq({}) /\ DOMAIN events = {}
  BY <1>1
<1>3. PeriodsTile
  BY <1>1, <1>2 DEF PeriodsTile
<1> QED BY <1>1, <1>2, <1>3, NetInit, InitialStop DEF PeriodsInv

(* Scheduling something else.                                               *)
LEMMA PushKeepsStop ==
  ASSUME NEW t \in Nat, NEW a, AgendaInv(a, t), StopAtEnd(a), NEW u \in Nat, u >= t,
         NEW o \in Operation, o # <<"stop">>, NEW b, b = Push(a, At(u, o))
  PROVE  AgendaInv(b, t) /\ StopAtEnd(b)
<1>1. AgendaInv(b, t) /\ Once(b, <<"stop">>)
  BY PushAgenda DEF StopAtEnd
<1> DEFINE c == At(u, o)
<1>2. c \in Command /\ c.op = o
  BY AtFacts
<1>3. a \in Seq(Command) /\ Ordered(a) /\ Timed(Command) /\ b = Push(a, c)
  BY CommandsTimed DEF AgendaInv
<1> HIDE DEF c
<1>4. \A i \in 1 .. Len(b) : b[i] = c \/ \E j \in 1 .. Len(a) : b[i] = a[j]
  BY <1>2, <1>3, PushElements
<1> QED BY <1>1, <1>2, <1>4 DEF StopAtEnd

LEMMA SendKeepsStop ==
  ASSUME RoutesTyped, NEW t \in Nat, NEW a, AgendaInv(a, t), StopAtEnd(a), NEW q,
         NEW st \in Station, NEW p, p.sender \in Sender, NEW u \in Nat, u >= t,
         NEW b, b = AgendaAfterSend(a, q, st, p, u)
  PROVE  AgendaInv(b, t) /\ StopAtEnd(b)
<1>1. CASE Forwarded(st, p) /\ q[ChannelFrom(st, p)] = <<>>
  <2>1. ChannelFrom(st, p) \in Channel
    BY <1>1, ChannelFromFacts
  <2>2. b = Push(a, At(u, SendOp(ChannelFrom(st, p))))
    BY <1>1 DEF AgendaAfterSend, SendOp
  <2> QED BY <2>1, <2>2, SendOpFacts, PushKeepsStop
<1>2. CASE ~(Forwarded(st, p) /\ q[ChannelFrom(st, p)] = <<>>)
  BY <1>2 DEF AgendaAfterSend
<1> QED BY <1>1, <1>2

LEMMA NextKeepsStop ==
  ASSUME NEW t \in Nat, NEW a, AgendaInv(a, t), StopAtEnd(a), NEW q,
         NEW c \in Channel, NEW u \in Nat, u >= t, NEW b, b = ScheduleNext(a, q, c, u)
  PROVE  StopAtEnd(b)
<1>1. CASE q[c] # <<>>
  <2>1. b = Push(a, At(u, SendOp(c)))
    BY <1>1 DEF ScheduleNext, SendOp
  <2> QED BY <2>1, SendOpFacts, PushKeepsStop
<1>2. CASE q[c] = <<>>
  BY <1>2 DEF ScheduleNext
<1> QED BY <1>1, <1>2

(* Taking a command: either it is the one that stops the loop, at EndTime,  *)
(* or the stop command stays.                                               *)
LEMMA TakeKeepsStop ==
  ASSUME PeriodsInv, NEW o, Take(o)
  PROVE  /\ now' \in Nat /\ AgendaInv(Pop(agenda), now')
         /\ \A d \in Delays \cup Gaps \cup {DeltaT} : now' + d \in Nat /\ now' + d >= now'
         /\ o # <<"stop">> => StopAtEnd(Pop(agenda))
         /\ o = <<"stop">> => now' = EndTime
<1>1. now' \in Nat /\ AgendaInv(Pop(agenda), now')
  BY TakeFacts DEF PeriodsInv, NetInv, QueuesInv
<1>2. \A d \in Delays \cup Gaps \cup {DeltaT} : now' + d \in Nat /\ now' + d >= now'
  BY <1>1, Later, TimingFacts
<1>3. /\ agenda \in Seq(Command) /\ agenda # <<>> /\ Ordered(agenda) /\ StopAtEnd(agenda)
      /\ Peek(agenda).op = o /\ now' = Peek(agenda).time /\ Timed(Command)
  BY CommandsTimed DEF PeriodsInv, NetInv, QueuesInv, AgendaInv, Take
<1>4. 1 \in 1 .. Len(agenda) /\ Peek(agenda) = agenda[1]
  BY <1>3 DEF Peek
<1>5. CASE o = <<"stop">>
  BY <1>1, <1>2, <1>3, <1>4, <1>5 DEF StopAtEnd
<1>6. CASE o # <<"stop">>
  <2>1. Once(Pop(agenda), <<"stop">>)
    BY <1>3, <1>6, PopFacts DEF StopAtEnd
  <2>2. \A i \in 1 .. Len(Pop(agenda)) :
          i + 1 \in 1 .. Len(agenda) /\ Pop(agenda)[i] = agenda[i + 1]
    BY <1>3 DEF Pop
  <2>3. StopAtEnd(Pop(agenda))
    BY <1>3, <2>1, <2>2 DEF StopAtEnd
  <2> QED BY <1>1, <1>2, <1>6, <2>3
<1> QED BY <1>5, <1>6

(* A period is appended where the last one ended.                           *)
LEMMA PeriodAppended ==
  ASSUME PeriodsInv, NEW t, UpdateSatellitePositions(t), phase' = "done" => t = EndTime
  PROVE  /\ \E S : events' \in Seq(S)
         /\ events' # <<>> /\ DOMAIN paths' = Sender
         /\ PeriodsTile'
<1> DEFINE e == EventData(t)
<1>1. events' = Append(events, e) /\ lastUpdate' = t /\ RerouteAll
  BY DEF UpdateSatellitePositions, RecordPeriod
<1>2. e.start = lastUpdate /\ e.end = t /\ DOMAIN e.paths = DOMAIN paths
  BY DEF EventData
<1> HIDE DEF e
<1>3. PICK S : events \in Seq(S)
  BY DEF PeriodsInv
<1>4. /\ Len(events) \in Nat /\ DOMAIN events = 1 .. Len(events)
      /\ events' \in Seq(S \cup {e}) /\ Len(events') = Len(events) + 1
      /\ DOMAIN events' = 1 .. Len(events) + 1
      /\ events'[Len(events) + 1] = e /\ \A i \in 1 .. Len(events) : events'[i] = events[i]
  <2>1. events \in Seq(S \cup {e}) /\ e \in S \cup {e}
    BY <1>3
  <2> QED BY <1>1, <2>1
<1>5. DOMAIN paths' = Sender
  <2>1. PICK r \in Routing : paths' = r.walk
    BY <1>1 DEF RerouteAll
  <2> QED BY <2>1, RoutingFacts
<1>6. ASSUME NEW i \in 1 .. Len(events) + 1
      PROVE  /\ events'[i].start = IF i = 1 THEN 0 ELSE events'[i - 1].end
             /\ i > 1 => DOMAIN events'[i].paths = Sender
  <2>1. CASE i \in 1 .. Len(events)
    <3>1. events'[i] = events[i] /\ (i > 1 => events'[i - 1] = events[i - 1])
      BY <1>4, <2>1
    <3> QED BY <1>4, <2>1, <3>1 DEF PeriodsInv, PeriodsTile
  <2>2. CASE i = Len(events) + 1
    <3>1. events'[i].start = lastUpdate /\ DOMAIN events'[i].paths = DOMAIN paths
      BY <1>2, <1>4, <2>2
    <3>2. CASE Len(events) = 0
      <4>1. i = 1 /\ events = <<>>
        BY <1>3, <2>2, <3>2
      <4> QED BY <3>1, <4>1 DEF PeriodsInv, PeriodsTile
    <3>3. CASE Len(events) # 0
      <4>1. events # <<>> /\ i # 1 /\ i - 1 = Len(events) /\ i - 1 \in 1 .. Len(events)
        BY <1>4, <2>2, <3>3
      <4>2. lastUpdate = events[i - 1].end /\ events'[i - 1] = events[i - 1]
        BY <1>4, <4>1 DEF PeriodsInv, PeriodsTile
      <4> QED BY <3>1, <4>1, <4>2 DEF PeriodsInv
    <3> QED BY <1>4, <3>2, <3>3
  <2> QED BY <1>4, <2>1, <2>2
<1>7. lastUpdate' = events'[Len(events')].end /\ events' # <<>>
  BY <1>1, <1>2, <1>4
<1> QED BY <1>1, <1>4, <1>5, <1>6, <1>7 DEF PeriodsTile

LEMMA PeriodsStep == PeriodsInv /\ [Next]_vars => PeriodsInv'
<1> SUFFICES ASSUME PeriodsInv, [Next]_vars PROVE PeriodsInv'
  OBVIOUS
<1>0. NetInv' /\ RoutesTyped
  BY NetStep DEF PeriodsInv, NetInv, RoutesInv
<1> DEFINE Closed == UNCHANGED <<paths, lastUpdate, events>>
<1>1. ASSUME NEW s \in Sender, CreatePacket(s) PROVE PeriodsInv'
  <2> DEFINE p == [sender |-> s, born |-> now']
  <2>1. Take(<<"create", s>>) /\ <<"create", s>> # <<"stop">> /\ phase' = phase /\ Closed
    BY <1>1 DEF CreatePacket, netVars
  <2>2. PICK gap \in Gaps, delay \in Delays :
          agenda' = Push(AgendaAfterSend(Pop(agenda), queue, s[1], p, now' + delay),
                         At(now' + gap, <<"create", s>>))
    BY <1>1 DEF CreatePacket
  <2>3. s[1] \in Station /\ p.sender \in Sender /\ <<"create", s>> \in Operation
    BY OperationFacts DEF Sender, Station
  <2> HIDE DEF p
  <2>4. StopAtEnd(agenda')
    <3> DEFINE a == AgendaAfterSend(Pop(agenda), queue, s[1], p, now' + delay)
    <3>1. /\ now' \in Nat /\ AgendaInv(Pop(agenda), now') /\ StopAtEnd(Pop(agenda))
          /\ now' + delay \in Nat /\ now' + delay >= now'
          /\ now' + gap \in Nat /\ now' + gap >= now'
      BY <2>1, TakeKeepsStop
    <3>2. AgendaInv(a, now') /\ StopAtEnd(a)
      BY <1>0, <2>3, <3>1, SendKeepsStop
    <3>3. agenda' = Push(a, At(now' + gap, <<"create", s>>))
      BY <2>2
    <3> HIDE DEF a
    <3> QED BY <2>1, <2>3, <3>1, <3>2, <3>3, PushKeepsStop
  <2> QED BY <1>0, <2>1, <2>4 DEF PeriodsInv, PeriodsTile, Take
<1>2. ASSUME NEW c \in Channel, DamagePacket(c) PROVE PeriodsInv'
  <2>1. Take(<<"send", c>>) /\ <<"send", c>> # <<"stop">> /\ phase' = phase /\ Closed
    BY <1>2 DEF DamagePacket, netVars
  <2>2. PICK delay \in Delays : agenda' = ScheduleNext(Pop(agenda), queue', c, now' + delay)
    BY <1>2 DEF DamagePacket
  <2>3. StopAtEnd(agenda')
    <3>1. /\ now' \in Nat /\ AgendaInv(Pop(agenda), now') /\ StopAtEnd(Pop(agenda))
          /\ now' + delay \in Nat /\ now' + delay >= now'
      BY <2>1, TakeKeepsStop
    <3> QED BY <2>2, <3>1, NextKeepsStop
  <2> QED BY <1>0, <2>1, <2>3 DEF PeriodsInv, PeriodsTile, Take
<1>3. ASSUME NEW c \in Channel, PassPacket(c) PROVE PeriodsInv'
  <2> DEFINE p == Head(queue[c])
             q == [queue EXCEPT ![c] = Tail(@)]
  <2>1. Take(<<"send", c>>) /\ <<"send", c>> # <<"stop">> /\ phase' = phase /\ Closed
    BY <1>3 DEF PassPacket, netVars
  <2>2. PICK onward \in Delays, delay \in Delays :
          agenda' = ScheduleNext(AgendaAfterSend(Pop(agenda), q, c[2], p, now' + onward),
                                 queue', c, now' + delay)
    BY <1>3 DEF PassPacket
  <2>3. c[2] \in Station /\ p.sender \in Sender
    <3>1. p \in PacketUpTo(now')
      BY <2>1, TransmitFacts DEF PeriodsInv, SendOp
    <3> QED BY <3>1 DEF Channel, PacketUpTo
  <2> HIDE DEF p, q
  <2>4. StopAtEnd(agenda')
    <3> DEFINE a == AgendaAfterSend(Pop(agenda), q, c[2], p, now' + onward)
    <3>1. /\ now' \in Nat /\ AgendaInv(Pop(agenda), now') /\ StopAtEnd(Pop(agenda))
          /\ now' + onward \in Nat /\ now' + onward >= now'
          /\ now' + delay \in Nat /\ now' + delay >= now'
      BY <2>1, TakeKeepsStop
    <3>2. AgendaInv(a, now') /\ StopAtEnd(a)
      BY <1>0, <2>3, <3>1, SendKeepsStop
    <3>3. agenda' = ScheduleNext(a, queue', c, now' + delay)
      BY <2>2
    <3> HIDE DEF a
    <3> QED BY <3>1, <3>2, <3>3, NextKeepsStop
  <2> QED BY <1>0, <2>1, <2>4 DEF PeriodsInv, PeriodsTile, Take
<1>4. CASE Update
  <2>1. /\ Take(<<"update">>) /\ <<"update">> # <<"stop">> /\ <<"update">> \in Operation
        /\ phase' = phase /\ phase = "running" /\ UpdateSatellitePositions(now')
        /\ agenda' = Push(Pop(agenda), At(now' + DeltaT, <<"update">>))
    BY <1>4, OperationFacts DEF Update, Take
  <2>2. /\ now' \in Nat /\ AgendaInv(Pop(agenda), now') /\ StopAtEnd(Pop(agenda))
        /\ now' + DeltaT \in Nat /\ now' + DeltaT >= now'
    BY <2>1, TakeKeepsStop
  <2>3. StopAtEnd(agenda')
    BY <2>1, <2>2, PushKeepsStop
  <2>4. (\E S : events' \in Seq(S)) /\ DOMAIN paths' = Sender /\ PeriodsTile'
    BY <2>1, PeriodAppended
  <2> QED BY <1>0, <2>1, <2>3, <2>4 DEF PeriodsInv
<1>5. CASE Stop
  <2>1. Take(<<"stop">>) /\ phase' = "stopped" /\ Closed
    BY <1>5 DEF Stop, netVars
  <2>2. now' = EndTime
    BY <2>1, TakeKeepsStop
  <2> QED BY <1>0, <2>1, <2>2 DEF PeriodsInv, PeriodsTile
<1>6. CASE Finish
  <2>1. phase # "done" /\ phase' = "done" /\ UpdateSatellitePositions(now)
        /\ (phase = "running" => agenda = <<>>)
    BY <1>6 DEF Finish
  <2>2. phase # "running"
    <3>1. ASSUME agenda = <<>> PROVE ~StopAtEnd(agenda)
      BY <3>1 DEF StopAtEnd, Once
    <3> QED BY <2>1, <3>1 DEF PeriodsInv
  <2>3. now = EndTime
    BY <2>1, <2>2 DEF PeriodsInv, NetInv
  <2>4. (\E S : events' \in Seq(S)) /\ DOMAIN paths' = Sender /\ PeriodsTile'
    BY <2>1, <2>3, PeriodAppended
  <2> QED BY <1>0, <2>1, <2>4 DEF PeriodsInv
<1>7. CASE UNCHANGED vars
  BY <1>0, <1>7 DEF vars, netVars, PeriodsInv, PeriodsTile
<1> QED BY <1>1, <1>2, <1>3, <1>4, <1>5, <1>6, <1>7 DEF Next

(* updateSattelitePositions: the events of the output follow one another    *)
(* without gap or overlap, and those of a finished simulation end at        *)
(* endTimeInMinutes.                                                        *)
THEOREM PeriodsCover == Spec => []PeriodsTile
<1>1. PeriodsInv => PeriodsTile
  BY DEF PeriodsInv
<1> QED BY <1>1, PeriodsInit, PeriodsStep, PTL DEF Spec

-----------------------------------------------------------------------------
(* Packets stay in order while the first routing stands.  The tables then   *)
(* give every sender one way to its destination: channel n leaves the       *)
(* sender, channel 0 enters the destination.  Its packets are lined up      *)
(* along that way, what is nearer to the destination is older.              *)
Onward(d, x) == <<table[d][x], NextHop(table[d], x)>>

IsTrail(w, n, d) ==
  /\ w[0][2] = d
  /\ \A k \in 1 .. n : /\ w[k][2] \in Sat /\ table[d][w[k][2]] # NoLink
                       /\ w[k - 1] = Onward(d, w[k][2])

IsWay(w, n, s) ==
  /\ IsTrail(w, n, s[2])
  /\ w[n] = <<<<s[1], uplink[s[1]]>>, uplink[s[1]]>>

LEMMA OnwardIsChannel ==
  ASSUME RoutesInv, NEW d \in Ground, NEW x \in Sat, table[d][x] # NoLink
  PROVE  Onward(d, x) \in Channel
<1>1. table[d][x] \in Link /\ x \in Station
  BY DEF RoutesInv, RoutesTyped, Entries, Station
<1> QED BY <1>1, ChannelFacts DEF Onward, NextHop

(* Satellites with an entry from which no trail leads to d would pass the   *)
(* packets for d around among themselves.                                   *)
LEMMA TrailExists ==
  ASSUME RoutesInv, NEW d \in Ground, NEW x \in Sat, table[d][x] # NoLink
  PROVE  \E n \in Nat : \E w \in [0 .. n -> Channel] : IsTrail(w, n, d) /\ w[n] = Onward(d, x)
<1> DEFINE Good(y) == \E n \in Nat : \E w \in [0 .. n -> Channel] : IsTrail(w, n, d) /\ w[n] = Onward(d, y)
           C == {y \in Sat : table[d][y] # NoLink /\ ~Good(y)}
<1>1. ASSUME NEW y \in C PROVE NextHop(table[d], y) \in C
  <2>1. y \in Sat /\ table[d][y] # NoLink /\ Onward(d, y) \in Channel
        /\ Onward(d, y)[2] = NextHop(table[d], y)
    BY OnwardIsChannel DEF Onward
  <2>2. CASE NextHop(table[d], y) = d
    <3> DEFINE w == [k \in 0 .. 0 |-> Onward(d, y)]
    <3>1. w \in [0 .. 0 -> Channel] /\ w[0] = Onward(d, y)
      BY <2>1
    <3>2. IsTrail(w, 0, d)
      BY <2>1, <2>2, <3>1 DEF IsTrail
    <3>3. Good(y)
      <4> HIDE DEF w
      <4> QED BY <3>1, <3>2
    <3> QED BY <3>3
  <2>3. CASE NextHop(table[d], y) \in Sat /\ table[d][NextHop(table[d], y)] # NoLink
           /\ Good(NextHop(table[d], y))
    <3> DEFINE z == NextHop(table[d], y)
    <3>0. PICK n \in Nat : \E v \in [0 .. n -> Channel] : IsTrail(v, n, d) /\ v[n] = Onward(d, z)
      BY <2>3
    <3>1. PICK v \in [0 .. n -> Channel] : IsTrail(v, n, d) /\ v[n] = Onward(d, z)
      BY <3>0
    <3> DEFINE w == [k \in 0 .. n + 1 |-> IF k <= n THEN v[k] ELSE Onward(d, y)]
    <3>2. /\ w \in [0 .. n + 1 -> Channel] /\ n + 1 \in Nat /\ w[n + 1] = Onward(d, y)
          /\ w[n] = Onward(d, z) /\ w[0] = v[0]
          /\ \A k \in 1 .. n : w[k] = v[k] /\ w[k - 1] = v[k - 1]
      <4>1. \A k \in 1 .. n : k - 1 \in 0 .. n + 1 /\ k - 1 <= n
        BY <3>1
      <4>2. w \in [0 .. n + 1 -> Channel]
        BY <2>1
      <4>3. n + 1 \in Nat /\ w[n + 1] = Onward(d, y) /\ w[n] = Onward(d, z) /\ w[0] = v[0]
        BY <3>1
      <4>4. \A k \in 1 .. n : w[k] = v[k] /\ w[k - 1] = v[k - 1]
        BY <4>1
      <4> QED BY <4>2, <4>3, <4>4
    <3>3. w[n + 1][2] = z
      BY <2>1, <3>2
    <3> HIDE DEF w
    <3>4. ASSUME NEW k \in 1 .. n + 1
          PROVE  w[k][2] \in Sat /\ table[d][w[k][2]] # NoLink /\ w[k - 1] = Onward(d, w[k][2])
      <4>1. CASE k \in 1 .. n
        BY <3>1, <3>2, <4>1 DEF IsTrail
      <4>2. CASE k = n + 1
        <5>1. k - 1 = n
          BY <4>2
        <5> QED BY <2>3, <3>2, <3>3, <4>2, <5>1
      <4> QED BY <4>1, <4>2
    <3>5. IsTrail(w, n + 1, d)
      BY <3>1, <3>2, <3>4 DEF IsTrail
    <3>6. Good(y)
      BY <3>2, <3>5
    <3> QED BY <3>6
  <2>4. \/ NextHop(table[d], y) = d
        \/ NextHop(table[d], y) \in Sat /\ table[d][NextHop(table[d], y)] # NoLink
    BY <2>1 DEF RoutesInv, RoutesLeadOn, NoDeadEnd
  <2> QED BY <2>2, <2>3, <2>4
<1>2. C = {}
  <2>1. \A y \in C : table[d][y] # NoLink
    OBVIOUS
  <2>2. C \in SUBSET Sat
    OBVIOUS
  <2> HIDE DEF C
  <2> QED BY <1>1, <2>1, <2>2 DEF RoutesInv, NoForwardingLoop, NoCycle
<1> QED BY <1>2

LEMMA WayExists ==
  ASSUME RoutesInv, Uplinked, NEW s \in Sender
  PROVE  \E n \in Nat : \E w \in [0 .. n -> Channel] : IsWay(w, n, s)
<1> DEFINE d == s[2]
           u == uplink[s[1]]
           last == <<<<s[1], u>>, u>>
<1>1. d \in Ground /\ s[1] \in Ground /\ u \in Sat /\ table[d][u] # NoLink
  BY DEF Sender, Uplinked
<1>2. last \in Channel /\ last[2] = u
  BY <1>1, UplinkIsLink DEF Channel, Station
<1>0. PICK n \in Nat : \E v \in [0 .. n -> Channel] : IsTrail(v, n, d) /\ v[n] = Onward(d, u)
  BY <1>1, TrailExists
<1>3. PICK v \in [0 .. n -> Channel] : IsTrail(v, n, d) /\ v[n] = Onward(d, u)
  BY <1>0
<1> HIDE DEF last
<1> DEFINE w == [k \in 0 .. n + 1 |-> IF k <= n THEN v[k] ELSE last]
<1>4. /\ w \in [0 .. n + 1 -> Channel] /\ n + 1 \in Nat /\ w[n + 1] = last
      /\ w[n] = Onward(d, u) /\ w[0] = v[0]
      /\ \A k \in 1 .. n : w[k] = v[k] /\ w[k - 1] = v[k - 1]
  <2>1. \A k \in 1 .. n : k - 1 \in 0 .. n + 1 /\ k - 1 <= n
    BY <1>3
  <2>2. w \in [0 .. n + 1 -> Channel]
    BY <1>2
  <2>3. n + 1 \in Nat /\ w[n + 1] = last /\ w[n] = Onward(d, u) /\ w[0] = v[0]
    BY <1>3
  <2>4. \A k \in 1 .. n : w[k] = v[k] /\ w[k - 1] = v[k - 1]
    BY <2>1
  <2> QED BY <2>2, <2>3, <2>4
<1> HIDE DEF w
<1>5. ASSUME NEW k \in 1 .. n + 1
      PROVE  w[k][2] \in Sat /\ table[d][w[k][2]] # NoLink /\ w[k - 1] = Onward(d, w[k][2])
  <2>1. CASE k \in 1 .. n
    BY <1>3, <1>4, <2>1 DEF IsTrail
  <2>2. CASE k = n + 1
    <3>1. k - 1 = n
      BY <2>2
    <3> QED BY <1>1, <1>2, <1>4, <2>2, <3>1
  <2> QED BY <2>1, <2>2
<1>6. IsTrail(w, n + 1, d)
  BY <1>3, <1>4, <1>5 DEF IsTrail
<1>7. IsWay(w, n + 1, s)
  BY <1>4, <1>6 DEF IsWay, last
<1> QED BY <1>4, <1>7

(* No station is on a way twice: the stations between would be a loop.      *)
LEMMA WayIsStraight ==
  ASSUME RoutesInv, NEW d \in Ground, NEW n \in Nat, NEW w \in [0 .. n -> Channel], IsTrail(w, n, d),
         NEW i \in 0 .. n, NEW j \in 0 .. n, w[i][2] = w[j][2]
  PROVE  i = j
<1>1. ASSUME NEW a \in 0 .. n, NEW b \in 0 .. n, w[a][2] = w[b][2], a < b PROVE FALSE
  <2> DEFINE C == {w[k][2] : k \in a + 1 .. b}
  <2>1. \A k \in a + 1 .. b : k \in 1 .. n /\ k - 1 \in a .. b
    BY <1>1
  <2>2. C \in SUBSET Sat /\ C # {}
    <3>1. b \in a + 1 .. b
      BY <1>1
    <3>2. \A k \in a + 1 .. b : w[k][2] \in Sat
      BY <2>1 DEF IsTrail
    <3> QED BY <3>1, <3>2
  <2>3. ASSUME NEW k \in a + 1 .. b
        PROVE  table[d][w[k][2]] # NoLink /\ NextHop(table[d], w[k][2]) \in C
    <3>1. table[d][w[k][2]] # NoLink /\ w[k - 1] = Onward(d, w[k][2])
      BY <2>1 DEF IsTrail
    <3>2. NextHop(table[d], w[k][2]) = w[k - 1][2]
      BY <3>1 DEF Onward
    <3>3. k - 1 = a \/ k - 1 \in a + 1 .. b
      BY <1>1
    <3>4. w[k - 1][2] \in C
      BY <1>1, <3>3
    <3> QED BY <3>1, <3>2, <3>4
  <2>4. \A y \in C : table[d][y] # NoLink /\ NextHop(table[d], y) \in C
    BY <2>3
  <2> HIDE DEF C
  <2> QED BY <2>2, <2>4 DEF RoutesInv, NoForwardingLoop, NoCycle
<1>2. ~(i < j) /\ ~(j < i)
  BY <1>1
<1> QED BY <1>2
-----------------------------------------------------------------------------
(* The packets of s are on the way w, the older the nearer to its end.      *)
InLine(q, w, n, s) ==
  /\ \A c \in Channel : \A i \in 1 .. Len(q[c]) : q[c][i].sender = s => \E k \in 0 .. n : c = w[k]
  /\ \A k, l \in 0 .. n : \A i \in 1 .. Len(q[w[k]]), j \in 1 .. Len(q[w[l]]) :
       /\ q[w[k]][i].sender = s /\ q[w[l]][j].sender = s
       /\ k < l \/ (k = l /\ i < j)
       => q[w[k]][i].born < q[w[l]][j].born

(* A packet born at t fits in behind the packets of s up to channel m.      *)
FitsBehind(q, w, n, s, m, t) ==
  \A l \in 0 .. n : \A j \in 1 .. Len(q[w[l]]) :
    q[w[l]][j].sender = s => IF l <= m THEN q[w[l]][j].born < t ELSE t < q[w[l]][j].born

Dequeued(q, c) == [q EXCEPT ![c] = Tail(@)]
Enqueued(q, c, p) == [q EXCEPT ![c] = Append(@, p)]

LEMMA TailShape ==
  ASSUME NEW t, NEW q, QueuesTyped(q, t), NEW c \in Channel, q[c] # <<>>,
         NEW r, r = Dequeued(q, c)
  PROVE  /\ 1 \in 1 .. Len(q[c]) /\ Head(q[c]) = q[c][1]
         /\ \A i \in 1 .. Len(r[c]) : i + 1 \in 1 .. Len(q[c]) /\ r[c][i] = q[c][i + 1]
         /\ \A d \in Channel : d # c => r[d] = q[d]
<1> DEFINE x == q[c]
           S == PacketUpTo(t)
<1>1. x \in Seq(S) /\ x # <<>> /\ r[c] = Tail(x) /\ \A d \in Channel : d # c => r[d] = q[d]
  BY DEF QueuesTyped, Dequeued
<1> HIDE DEF x, S
<1>2. 1 \in 1 .. Len(x) /\ Head(x) = x[1]
      /\ \A i \in 1 .. Len(Tail(x)) : i + 1 \in 1 .. Len(x) /\ Tail(x)[i] = x[i + 1]
  BY <1>1
<1> QED BY <1>1, <1>2 DEF x

LEMMA AppendShape ==
  ASSUME NEW t, NEW q, QueuesTyped(q, t), NEW c \in Channel, NEW p \in PacketUpTo(t)
  PROVE  LET r == Enqueued(q, c, p) IN
         /\ Len(q[c]) \in Nat /\ Len(r[c]) = Len(q[c]) + 1 /\ r[c][Len(q[c]) + 1] = p
         /\ \A i \in 1 .. Len(q[c]) : r[c][i] = q[c][i]
         /\ \A d \in Channel : d # c => r[d] = q[d]
<1> DEFINE r == Enqueued(q, c, p)
           x == q[c]
           S == PacketUpTo(t)
<1>1. x \in Seq(S) /\ p \in S /\ r[c] = Append(x, p) /\ \A d \in Channel : d # c => r[d] = q[d]
  BY DEF QueuesTyped, Enqueued
<1> HIDE DEF x, S
<1>2. /\ Len(x) \in Nat /\ Len(Append(x, p)) = Len(x) + 1 /\ Append(x, p)[Len(x) + 1] = p
      /\ \A i \in 1 .. Len(x) : Append(x, p)[i] = x[i]
  BY <1>1
<1> QED BY <1>1, <1>2 DEF x

LEMMA BornIsNumber ==
  ASSUME NEW t, NEW q, QueuesTyped(q, t), NEW c \in Channel, NEW i \in 1 .. Len(q[c])
  PROVE  q[c][i].born \in Nat /\ q[c][i].sender \in Sender
<1>1. q[c] \in Seq(PacketUpTo(t))
  BY DEF QueuesTyped
<1>2. q[c][i] \in PacketUpTo(t)
  BY <1>1
<1> QED BY <1>2 DEF PacketUpTo

(* The oldest of a queue leaves: the others stay in line, and what left     *)
(* fits in where it goes.                                                   *)
LEMMA TailInLine ==
  ASSUME NEW t, NEW q, QueuesTyped(q, t), NEW s, NEW n \in Nat, NEW w \in [0 .. n -> Channel],
         InLine(q, w, n, s), NEW c \in Channel, q[c] # <<>>,
         NEW r, r = Dequeued(q, c)
  PROVE  /\ InLine(r, w, n, s)
         /\ \A k \in 0 .. n : c = w[k] /\ Head(q[c]).sender = s =>
              FitsBehind(r, w, n, s, k - 1, Head(q[c]).born)
<1>1. /\ 1 \in 1 .. Len(q[c]) /\ Head(q[c]) = q[c][1]
      /\ \A i \in 1 .. Len(r[c]) : i + 1 \in 1 .. Len(q[c]) /\ r[c][i] = q[c][i + 1]
      /\ \A d \in Channel : d # c => r[d] = q[d]
  BY TailShape
<1> DEFINE off(d) == IF d = c THEN 1 ELSE 0
<1>2. ASSUME NEW d \in Channel, NEW i \in 1 .. Len(r[d])
      PROVE  i + off(d) \in 1 .. Len(q[d]) /\ r[d][i] = q[d][i + off(d)]
  BY <1>1
<1>3. \A k \in 0 .. n : w[k] \in Channel
  OBVIOUS
<1>4. \A d \in Channel : off(d) \in {0, 1}
  OBVIOUS
<1>5. ASSUME NEW d \in Channel, NEW i \in 1 .. Len(r[d]), r[d][i].sender = s
      PROVE  \E k \in 0 .. n : d = w[k]
  BY <1>2, <1>5 DEF InLine
<1>6. ASSUME NEW k \in 0 .. n, NEW l \in 0 .. n, NEW i \in 1 .. Len(r[w[k]]), NEW j \in 1 .. Len(r[w[l]]),
             r[w[k]][i].sender = s, r[w[l]][j].sender = s, k < l \/ (k = l /\ i < j)
      PROVE  r[w[k]][i].born < r[w[l]][j].born
  <2> DEFINE a == i + off(w[k])
             b == j + off(w[l])
  <2>1. a \in 1 .. Len(q[w[k]]) /\ r[w[k]][i] = q[w[k]][a]
    BY <1>2, <1>3
  <2>2. b \in 1 .. Len(q[w[l]]) /\ r[w[l]][j] = q[w[l]][b]
    BY <1>2, <1>3
  <2>3. k < l \/ (k = l /\ a < b)
    BY <1>3, <1>4, <1>6
  <2> HIDE DEF a, b, off
  <2>4. q[w[k]][a].born < q[w[l]][b].born
    BY <1>6, <2>1, <2>2, <2>3, Zenon DEF InLine
  <2> QED BY <2>1, <2>2, <2>4
<1>7. InLine(r, w, n, s)
  BY <1>5, <1>6 DEF InLine
<1>8. ASSUME NEW k \in 0 .. n, c = w[k], Head(q[c]).sender = s,
             NEW l \in 0 .. n, NEW j \in 1 .. Len(r[w[l]]), r[w[l]][j].sender = s
      PROVE  IF l <= k - 1 THEN r[w[l]][j].born < Head(q[c]).born ELSE Head(q[c]).born < r[w[l]][j].born
  <2> DEFINE b == j + off(w[l])
             h == Head(q[c]).born
             x == r[w[l]][j].born
  <2> SUFFICES IF l <= k - 1 THEN x < h ELSE h < x
    OBVIOUS
  <2>1. b \in 1 .. Len(q[w[l]]) /\ r[w[l]][j] = q[w[l]][b]
    BY <1>2, <1>3
  <2>2. l = k => 1 < b
    BY <1>8
  <2> HIDE DEF b, off
  <2>3. h = q[w[k]][1].born /\ x = q[w[l]][b].born
    BY <1>1, <1>8, <2>1
  <2>4. q[w[k]][1].sender = s /\ 1 \in 1 .. Len(q[w[k]]) /\ q[w[l]][b].sender = s
    BY <1>1, <1>8, <2>1
  <2> HIDE DEF h, x
  <2>5. CASE l <= k - 1
    <3>1. l < k
      BY <2>5
    <3>2. q[w[l]][b].born < q[w[k]][1].born
      BY <2>1, <2>4, <3>1, Zenon DEF InLine
    <3> QED BY <2>3, <2>5, <3>2, Zenon
  <2>6. CASE ~(l <= k - 1)
    <3>1. k < l \/ (k = l /\ 1 < b)
      BY <2>2, <2>6
    <3>2. q[w[k]][1].born < q[w[l]][b].born
      BY <2>1, <2>4, <3>1, Zenon DEF InLine
    <3> QED BY <2>3, <2>6, <3>2, Zenon
  <2> QED BY <2>5, <2>6
<1> QED BY <1>7, <1>8 DEF FitsBehind

(* A packet joins the queue of a channel.                                   *)
LEMMA AppendInLine ==
  ASSUME NEW t, NEW q, QueuesTyped(q, t), NEW s, NEW n \in Nat, NEW w \in [0 .. n -> Channel],
         \A i, j \in 0 .. n : w[i] = w[j] => i = j,
         InLine(q, w, n, s), NEW m \in 0 .. n, NEW p \in PacketUpTo(t), p.sender = s,
         FitsBehind(q, w, n, s, m, p.born),
         NEW r, r = Enqueued(q, w[m], p)
  PROVE  InLine(r, w, n, s)
<1> DEFINE c == w[m]
           e == Len(q[c]) + 1
<1>1. /\ c \in Channel /\ Len(q[c]) \in Nat /\ Len(r[c]) = e /\ r[c][e] = p
      /\ \A i \in 1 .. Len(q[c]) : r[c][i] = q[c][i]
      /\ \A d \in Channel : d # c => r[d] = q[d]
  <2>1. c \in Channel /\ r = Enqueued(q, c, p)
    OBVIOUS
  <2> HIDE DEF c
  <2> QED BY <2>1, AppendShape
<1>2. ASSUME NEW k \in 0 .. n, NEW i \in 1 .. Len(r[w[k]])
      PROVE  \/ i \in 1 .. Len(q[w[k]]) /\ r[w[k]][i] = q[w[k]][i]
             \/ k = m /\ i = e /\ r[w[k]][i] = p
  <2>1. CASE w[k] # c
    BY <1>1, <2>1
  <2>2. CASE w[k] = c
    <3>1. k = m
      BY <2>2
    <3>2. i \in 1 .. Len(q[c]) \/ i = e
      BY <1>1, <2>2
    <3> QED BY <1>1, <2>2, <3>1, <3>2
  <2> QED BY <2>1, <2>2
<1>3. ASSUME NEW d \in Channel, NEW i \in 1 .. Len(r[d]), r[d][i].sender = s
      PROVE  \E k \in 0 .. n : d = w[k]
  <2>1. CASE d = c
    BY <2>1
  <2>2. CASE d # c
    <3>1. r[d] = q[d]
      BY <1>1, <2>2
    <3>2. i \in 1 .. Len(q[d]) /\ q[d][i].sender = s
      BY <1>3, <3>1
    <3> QED BY <3>2, Zenon DEF InLine
  <2> QED BY <2>1, <2>2
<1>4. ASSUME NEW k \in 0 .. n, NEW l \in 0 .. n, NEW i \in 1 .. Len(r[w[k]]), NEW j \in 1 .. Len(r[w[l]]),
             r[w[k]][i].sender = s, r[w[l]][j].sender = s, k < l \/ (k = l /\ i < j)
      PROVE  r[w[k]][i].born < r[w[l]][j].born
  <2> DEFINE Old(a, b) == b \in 1 .. Len(q[w[a]]) /\ r[w[a]][b] = q[w[a]][b]
             New(a, b) == a = m /\ b = e /\ r[w[a]][b] = p
  <2>1. (Old(k, i) \/ New(k, i)) /\ (Old(l, j) \/ New(l, j))
    BY <1>2
  <2>2. CASE Old(k, i) /\ Old(l, j)
    <3>1. /\ i \in 1 .. Len(q[w[k]]) /\ q[w[k]][i].sender = s
          /\ j \in 1 .. Len(q[w[l]]) /\ q[w[l]][j].sender = s
      BY <1>4, <2>2
    <3>2. q[w[k]][i].born < q[w[l]][j].born
      BY <1>4, <3>1, Zenon DEF InLine
    <3> QED BY <2>2, <3>2
  <2>3. CASE Old(k, i) /\ New(l, j)
    <3>1. k <= m
      BY <1>4, <2>3
    <3> QED BY <1>4, <2>3, <3>1 DEF FitsBehind
  <2>4. CASE New(k, i) /\ Old(l, j)
    <3>1. ~(l <= m)
      <4>1. l = m => j < e
        BY <1>1, <2>4
      <4> QED BY <1>1, <1>4, <2>4, <4>1
    <3> QED BY <1>4, <2>4, <3>1 DEF FitsBehind
  <2>5. CASE New(k, i) /\ New(l, j)
    BY <1>1, <1>4, <2>5
  <2> QED BY <2>1, <2>2, <2>3, <2>4, <2>5
<1> QED BY <1>3, <1>4 DEF InLine

(* A packet of somebody else does.                                          *)
LEMMA OtherInLine ==
  ASSUME NEW t, NEW q, QueuesTyped(q, t), NEW s, NEW n \in Nat, NEW w \in [0 .. n -> Channel],
         InLine(q, w, n, s), NEW c \in Channel, NEW p \in PacketUpTo(t), p.sender # s,
         NEW r, r = Enqueued(q, c, p)
  PROVE  InLine(r, w, n, s)
<1>1. /\ Len(q[c]) \in Nat /\ Len(r[c]) = Len(q[c]) + 1 /\ r[c][Len(q[c]) + 1] = p
      /\ \A i \in 1 .. Len(q[c]) : r[c][i] = q[c][i]
      /\ \A d \in Channel : d # c => r[d] = q[d]
  BY AppendShape
<1>2. ASSUME NEW d \in Channel, NEW i \in 1 .. Len(r[d]), r[d][i].sender = s
      PROVE  i \in 1 .. Len(q[d]) /\ r[d][i] = q[d][i]
  <2>1. CASE d # c
    BY <1>1, <2>1
  <2>2. CASE d = c
    <3>1. i \in 1 .. Len(q[c]) \/ i = Len(q[c]) + 1
      BY <1>1, <2>2
    <3> QED BY <1>1, <1>2, <2>2, <3>1
  <2> QED BY <2>1, <2>2
<1>3. \A k \in 0 .. n : w[k] \in Channel
  OBVIOUS
<1>4. ASSUME NEW k \in 0 .. n, NEW l \in 0 .. n, NEW i \in 1 .. Len(r[w[k]]), NEW j \in 1 .. Len(r[w[l]]),
             r[w[k]][i].sender = s, r[w[l]][j].sender = s, k < l \/ (k = l /\ i < j)
      PROVE  r[w[k]][i].born < r[w[l]][j].born
  <2>1. i \in 1 .. Len(q[w[k]]) /\ r[w[k]][i] = q[w[k]][i]
    BY <1>2, <1>3, <1>4
  <2>2. j \in 1 .. Len(q[w[l]]) /\ r[w[l]][j] = q[w[l]][j]
    BY <1>2, <1>3, <1>4
  <2>3. q[w[k]][i].sender = s /\ q[w[l]][j].sender = s
    BY <1>4, <2>1, <2>2
  <2>4. q[w[k]][i].born < q[w[l]][j].born
    BY <1>4, <2>1, <2>2, <2>3, Zenon DEF InLine
  <2> QED BY <2>1, <2>2, <2>4
<1>5. ASSUME NEW d \in Channel, NEW i \in 1 .. Len(r[d]), r[d][i].sender = s
      PROVE  \E k \in 0 .. n : d = w[k]
  <2>1. i \in 1 .. Len(q[d]) /\ q[d][i].sender = s
    BY <1>2, <1>5
  <2> QED BY <2>1, Zenon DEF InLine
<1> QED BY <1>4, <1>5, SMTT(30) DEF InLine
-----------------------------------------------------------------------------
(* Every sender has one creation pending, and it comes later than all of    *)
(* its packets and than the newest that was delivered.                      *)
CreateOp(s) == <<"create", s>>

NewerThanAll(q, nw, s, t) ==
  nw < t /\ \A c \in Channel : \A i \in 1 .. Len(q[c]) : q[c][i].sender = s => q[c][i].born < t

CreatesNewer(a, q, nw, s) ==
  \A i \in 1 .. Len(a) : a[i].op = CreateOp(s) => NewerThanAll(q, nw, s, a[i].time)

(* From agenda a to agenda b no creation of s comes or goes.                *)
KeepsCreates(b, a, s) ==
  /\ Once(a, CreateOp(s)) => Once(b, CreateOp(s))
  /\ Never(a, CreateOp(s)) => Never(b, CreateOp(s))
  /\ \A i \in 1 .. Len(b) : b[i].op = CreateOp(s) => \E j \in 1 .. Len(a) : b[i] = a[j]

LEMMA CreateOpFacts ==
  /\ \A s \in Sender : CreateOp(s) \in Operation
  /\ \A s, x : CreateOp(s) = CreateOp(x) => s = x
  /\ \A s : \A c \in Channel : CreateOp(s) # SendOp(c)
  /\ \A s : CreateOp(s) # <<"update">> /\ CreateOp(s) # <<"stop">>
<1>1. \A s, x : CreateOp(s) = CreateOp(x) => s = x
  BY DEF CreateOp
<1>2. \A s : CreateOp(s) # <<"update">> /\ CreateOp(s) # <<"stop">>
  BY DEF CreateOp
<1> QED BY <1>1, <1>2, OperationFacts, SendOpFacts DEF CreateOp

LEMMA KeepsTwice ==
  ASSUME NEW a, NEW b, NEW c, NEW s, KeepsCreates(b, a, s), KeepsCreates(c, b, s)
  PROVE  KeepsCreates(c, a, s)
<1>1. ASSUME NEW i \in 1 .. Len(c), c[i].op = CreateOp(s)
      PROVE  \E j \in 1 .. Len(a) : c[i] = a[j]
  <2>1. PICK k \in 1 .. Len(b) : c[i] = b[k]
    BY <1>1 DEF KeepsCreates
  <2>2. b[k].op = CreateOp(s)
    BY <1>1, <2>1
  <2>3. PICK j \in 1 .. Len(a) : b[k] = a[j]
    BY <2>2 DEF KeepsCreates
  <2> QED BY <2>1, <2>3
<1> QED BY <1>1 DEF KeepsCreates

LEMMA PushKeepsCreates ==
  ASSUME NEW t \in Nat, NEW a, AgendaInv(a, t), NEW u \in Nat, u >= t,
         NEW o \in Operation, NEW s, o # CreateOp(s), NEW b, b = Push(a, At(u, o))
  PROVE  AgendaInv(b, t) /\ KeepsCreates(b, a, s)
<1>1. /\ AgendaInv(b, t) /\ Never(a, CreateOp(s)) => Never(b, CreateOp(s))
      /\ Once(a, CreateOp(s)) => Once(b, CreateOp(s))
  BY PushAgenda
<1> DEFINE c == At(u, o)
<1>2. c \in Command /\ c.op = o
  BY AtFacts
<1>3. a \in Seq(Command) /\ Ordered(a) /\ Timed(Command) /\ b = Push(a, c)
  BY CommandsTimed DEF AgendaInv
<1> HIDE DEF c
<1>4. \A i \in 1 .. Len(b) : b[i] = c \/ \E j \in 1 .. Len(a) : b[i] = a[j]
  BY <1>2, <1>3, PushElements
<1>5. AgendaInv(b, t)
  BY PushAgenda
<1> QED BY <1>1, <1>2, <1>4, <1>5 DEF KeepsCreates

LEMMA SendKeepsCreates ==
  ASSUME RoutesTyped, NEW t \in Nat, NEW a, AgendaInv(a, t), NEW q,
         NEW st \in Station, NEW p, p.sender \in Sender, NEW u \in Nat, u >= t,
         NEW b, b = AgendaAfterSend(a, q, st, p, u), NEW s
  PROVE  AgendaInv(b, t) /\ KeepsCreates(b, a, s)
<1>1. CASE Forwarded(st, p) /\ q[ChannelFrom(st, p)] = <<>>
  <2>1. ChannelFrom(st, p) \in Channel
    BY <1>1, ChannelFromFacts
  <2>2. b = Push(a, At(u, SendOp(ChannelFrom(st, p))))
    BY <1>1 DEF AgendaAfterSend, SendOp
  <2> QED BY <2>1, <2>2, SendOpFacts, CreateOpFacts, PushKeepsCreates
<1>2. CASE ~(Forwarded(st, p) /\ q[ChannelFrom(st, p)] = <<>>)
  BY <1>2 DEF AgendaAfterSend, KeepsCreates
<1> QED BY <1>1, <1>2

LEMMA NextKeepsCreates ==
  ASSUME NEW t \in Nat, NEW a, AgendaInv(a, t), NEW q, NEW c \in Channel, NEW u \in Nat, u >= t,
         NEW b, b = ScheduleNext(a, q, c, u), NEW s
  PROVE  KeepsCreates(b, a, s)
<1>1. CASE q[c] # <<>>
  <2>1. b = Push(a, At(u, SendOp(c)))
    BY <1>1 DEF ScheduleNext, SendOp
  <2> QED BY <2>1, SendOpFacts, CreateOpFacts, PushKeepsCreates
<1>2. CASE q[c] = <<>>
  BY <1>2 DEF ScheduleNext, KeepsCreates
<1> QED BY <1>1, <1>2

LEMMA TakeKeepsCreates ==
  ASSUME NetInv, NEW o, Take(o), NEW s
  PROVE  /\ now' \in Nat /\ AgendaInv(Pop(agenda), now')
         /\ \A d \in Delays \cup Gaps \cup {DeltaT} : now' + d \in Nat /\ now' + d >= now'
         /\ o # CreateOp(s) => KeepsCreates(Pop(agenda), agenda, s)
         /\ o = CreateOp(s) /\ Once(agenda, o) => Never(Pop(agenda), o)
         /\ 1 \in 1 .. Len(agenda) /\ agenda[1].op = o /\ agenda[1].time = now'
<1>1. now' \in Nat /\ AgendaInv(Pop(agenda), now')
  BY TakeFacts DEF NetInv, QueuesInv
<1>2. \A d \in Delays \cup Gaps \cup {DeltaT} : now' + d \in Nat /\ now' + d >= now'
  BY <1>1, Later, TimingFacts
<1>3. /\ agenda \in Seq(Command) /\ agenda # <<>> /\ Ordered(agenda)
      /\ Peek(agenda).op = o /\ now' = Peek(agenda).time /\ Timed(Command)
  BY CommandsTimed DEF NetInv, QueuesInv, AgendaInv, Take
<1>4. 1 \in 1 .. Len(agenda) /\ Peek(agenda) = agenda[1]
  BY <1>3 DEF Peek
<1>5. /\ Once(agenda, o) => Never(Pop(agenda), o)
      /\ \A x : Never(agenda, x) => Never(Pop(agenda), x)
      /\ \A x : x # o => (Once(agenda, x) => Once(Pop(agenda), x))
  BY <1>3, PopFacts
<1>6. \A i \in 1 .. Len(Pop(agenda)) :
        i + 1 \in 1 .. Len(agenda) /\ Pop(agenda)[i] = agenda[i + 1]
  BY <1>3 DEF Pop
<1>7. o # CreateOp(s) => KeepsCreates(Pop(agenda), agenda, s)
  BY <1>5, <1>6 DEF KeepsCreates
<1> QED BY <1>1, <1>2, <1>3, <1>4, <1>5, <1>7

(* A packet of s in r is one that was in q.                                 *)
Among(r, q, s) ==
  \A c \in Channel : \A i \in 1 .. Len(r[c]) : r[c][i].sender = s =>
    \E d \in Channel : \E j \in 1 .. Len(q[d]) : r[c][i] = q[d][j]

LEMMA DequeuedAmong ==
  ASSUME NEW t, NEW q, QueuesTyped(q, t), NEW c \in Channel, q[c] # <<>>, NEW s
  PROVE  Among(Dequeued(q, c), q, s) /\ Head(q[c]) = q[c][1] /\ 1 \in 1 .. Len(q[c])
<1> DEFINE r == Dequeued(q, c)
<1>1. /\ 1 \in 1 .. Len(q[c]) /\ Head(q[c]) = q[c][1]
      /\ \A i \in 1 .. Len(r[c]) : i + 1 \in 1 .. Len(q[c]) /\ r[c][i] = q[c][i + 1]
      /\ \A d \in Channel : d # c => r[d] = q[d]
  BY TailShape
<1> HIDE DEF r
<1>2. Among(r, q, s)
  <2> SUFFICES ASSUME NEW d \in Channel, NEW i \in 1 .. Len(r[d])
               PROVE  \E e \in Channel : \E j \in 1 .. Len(q[e]) : r[d][i] = q[e][j]
    BY DEF Among
  <2>1. CASE d = c
    BY <1>1, <2>1
  <2>2. CASE d # c
    BY <1>1, <2>2
  <2> QED BY <2>1, <2>2
<1> QED BY <1>1, <1>2 DEF r

LEMMA EnqueuedAmong ==
  ASSUME NEW t, NEW q, QueuesTyped(q, t), NEW c \in Channel, NEW p \in PacketUpTo(t),
         NEW q0, NEW s, Among(q, q0, s),
         p.sender = s => \E d \in Channel : \E j \in 1 .. Len(q0[d]) : p = q0[d][j]
  PROVE  Among(Enqueued(q, c, p), q0, s)
<1> DEFINE r == Enqueued(q, c, p)
<1>1. /\ Len(q[c]) \in Nat /\ Len(r[c]) = Len(q[c]) + 1 /\ r[c][Len(q[c]) + 1] = p
      /\ \A i \in 1 .. Len(q[c]) : r[c][i] = q[c][i]
      /\ \A d \in Channel : d # c => r[d] = q[d]
  BY AppendShape
<1> HIDE DEF r
<1>2. ASSUME NEW d \in Channel, NEW i \in 1 .. Len(r[d])
      PROVE  (i \in 1 .. Len(q[d]) /\ r[d][i] = q[d][i]) \/ r[d][i] = p
  <2>1. CASE d # c
    BY <1>1, <2>1
  <2>2. CASE d = c
    <3>1. i \in 1 .. Len(q[c]) \/ i = Len(q[c]) + 1
      BY <1>1, <2>2
    <3> QED BY <1>1, <2>2, <3>1
  <2> QED BY <2>1, <2>2
<1>3. Among(r, q0, s)
  BY <1>2 DEF Among
<1> QED BY <1>3 DEF r

LEMMA NewerAmong ==
  ASSUME NEW r, NEW q, NEW s, Among(r, q, s), NEW nw, NEW t, NewerThanAll(q, nw, s, t), NEW nx, nx < t
  PROVE  NewerThanAll(r, nx, s, t)
BY DEF Among, NewerThanAll

LEMMA CreatesStayNewer ==
  ASSUME NEW a, NEW b, NEW s, KeepsCreates(b, a, s), NEW q, NEW r, Among(r, q, s), NEW nw, NEW nx,
         CreatesNewer(a, q, nw, s), \A t : NewerThanAll(q, nw, s, t) => nx < t
  PROVE  CreatesNewer(b, r, nx, s)
<1> SUFFICES ASSUME NEW i \in 1 .. Len(b), b[i].op = CreateOp(s)
             PROVE  NewerThanAll(r, nx, s, b[i].time)
  BY DEF CreatesNewer
<1>1. PICK j \in 1 .. Len(a) : b[i] = a[j]
  BY DEF KeepsCreates
<1>2. NewerThanAll(q, nw, s, b[i].time)
  BY <1>1 DEF CreatesNewer
<1> QED BY <1>2, NewerAmong
-----------------------------------------------------------------------------
(* What holds for a sender while the first routing stands: one creation is  *)
(* pending, its packets are lined up along its way, and none of them is as  *)
(* old as the newest that was delivered.                                    *)
Undelivered(q, nw, s) ==
  \A c \in Channel : \A i \in 1 .. Len(q[c]) : q[c][i].sender = s => nw < q[c][i].born

Orderly(a, q, nw, s) ==
  /\ Once(a, CreateOp(s)) /\ CreatesNewer(a, q, nw, s)
  /\ Undelivered(q, nw, s)
  /\ \E n \in Nat : \E w \in [0 .. n -> Channel] : IsWay(w, n, s) /\ InLine(q, w, n, s)

Untouched ==
  /\ Fresh /\ \A c \in Channel : queue[c] = <<>>
  /\ \A s \in Sender : newest[s] = -1 /\ Once(agenda, CreateOp(s))

OrderInv ==
  /\ ServedInv /\ \E S : events \in Seq(S)
  /\ events = <<>> => Untouched
  /\ Len(events) = 1 =>
       \A s \in Sender : Orderly(agenda, queue, newest[s], s) /\ tally[s]["late"] = 0

LEMMA OrderInit == Init => OrderInv
<1> SUFFICES ASSUME Init PROVE OrderInv
  OBVIOUS
<1>1. ServedInv /\ Fresh
  BY ServedInit, InitialFresh
<1>2. events = <<>> /\ Len(<<>>) # 1 /\ events \in Seq({})
  BY DEF Init
<1>3. ASSUME NEW s \in Sender PROVE newest[s] = -1 /\ Once(agenda, CreateOp(s))
  <2>1. CreateOp(s) \in InitialOps
    BY DEF CreateOp, InitialOps
  <2> QED BY <2>1, InitialOnce DEF Init
<1>4. \A c \in Channel : queue[c] = <<>>
  BY DEF Init
<1> QED BY <1>1, <1>2, <1>3, <1>4 DEF OrderInv, Untouched

(* Station.send follows the way of the sender.                              *)
LEMMA WayForwards ==
  ASSUME RoutesInv, Uplinked, NEW s \in Sender, NEW n \in Nat, NEW w \in [0 .. n -> Channel],
         IsWay(w, n, s), NEW p, p.sender = s
  PROVE  /\ Arrived(w[0][2], p)
         /\ \A k \in 1 .. n : Forwarded(w[k][2], p) /\ ChannelFrom(w[k][2], p) = w[k - 1]
         /\ Forwarded(s[1], p) /\ ChannelFrom(s[1], p) = w[n]
<1> DEFINE d == s[2]
           u == uplink[s[1]]
<1>1. /\ d \in Ground /\ s[1] \in Ground /\ s[1] # d /\ u \in Sat /\ u # NoSat
      /\ s[1] \notin Sat /\ d \notin Sat /\ Dest(p) = d /\ u # 0
  BY StationFacts DEF Sender, Uplinked, NoSat, Dest
<1>2. Arrived(w[0][2], p)
  BY <1>1 DEF IsWay, IsTrail, Arrived
<1>3. ASSUME NEW k \in 1 .. n
      PROVE  Forwarded(w[k][2], p) /\ ChannelFrom(w[k][2], p) = w[k - 1]
  <2>1. w[k][2] \in Sat /\ table[d][w[k][2]] # NoLink /\ w[k - 1] = Onward(d, w[k][2])
    BY DEF IsWay, IsTrail
  <2>2. RouteAt(w[k][2], d) = table[d][w[k][2]] /\ w[k][2] # d
    BY <1>1, <2>1 DEF RouteAt
  <2> QED BY <1>1, <2>1, <2>2 DEF Forwarded, Arrived, ChannelFrom, Onward, NextHop
<1>4. RouteAt(s[1], d) = <<s[1], u>> /\ <<s[1], u>> # NoLink
  BY <1>1 DEF RouteAt, NoLink
<1>5. OtherStation(<<s[1], u>>, s[1]) = u
  BY DEF OtherStation
<1>6. Forwarded(s[1], p) /\ ChannelFrom(s[1], p) = w[n]
  BY <1>1, <1>4, <1>5 DEF Forwarded, Arrived, ChannelFrom, IsWay
<1> QED BY <1>2, <1>3, <1>6

(* A sender none of whose packets or commands is touched.                   *)
LEMMA OthersStay ==
  ASSUME NEW a, NEW q, NEW nw, NEW x, Orderly(a, q, nw, x), NEW b, NEW r,
         KeepsCreates(b, a, x), Among(r, q, x),
         \A n \in Nat : \A w \in [0 .. n -> Channel] : InLine(q, w, n, x) => InLine(r, w, n, x)
  PROVE  Orderly(b, r, nw, x)
<1>1. CreatesNewer(b, r, nw, x)
  <2>1. CreatesNewer(a, q, nw, x) /\ \A t : NewerThanAll(q, nw, x, t) => nw < t
    BY DEF Orderly, NewerThanAll
  <2> QED BY <2>1, CreatesStayNewer
<1>2. Undelivered(r, nw, x)
  <2>1. ASSUME NEW c \in Channel, NEW i \in 1 .. Len(r[c]), r[c][i].sender = x
        PROVE  nw < r[c][i].born
    <3>1. PICK d \in Channel : \E j \in 1 .. Len(q[d]) : r[c][i] = q[d][j]
      BY <2>1 DEF Among
    <3> QED BY <2>1, <3>1 DEF Orderly, Undelivered
  <2> QED BY <2>1 DEF Undelivered
<1>3. Once(b, CreateOp(x))
  BY DEF Orderly, KeepsCreates
<1>4. \E n \in Nat : \E w \in [0 .. n -> Channel] : IsWay(w, n, x) /\ InLine(r, w, n, x)
  BY DEF Orderly
<1> QED BY <1>1, <1>2, <1>3, <1>4 DEF Orderly

(* The tables stay: what holds of the new state under them holds behind     *)
(* the step.                                                                *)
LEMMA OrderlyStays ==
  ASSUME UNCHANGED netVars, NEW s, Orderly(agenda', queue', newest'[s], s)
  PROVE  Orderly(agenda, queue, newest[s], s)'
<1>1. \A n \in Nat : \A w \in [0 .. n -> Channel] : IsWay(w, n, s) => IsWay(w, n, s)'
  BY ZenonT(30) DEF netVars, IsWay, IsTrail, Onward
<1> QED BY <1>1 DEF Orderly

-----------------------------------------------------------------------------
(* A transmission that is taken leaves the creations alone.                 *)
LEMMA SendIsNoCreate ==
  ASSUME NetInv, NEW c \in Channel, Take(SendOp(c)), NEW s
  PROVE  /\ now' \in Nat /\ AgendaInv(Pop(agenda), now')
         /\ \A d \in Delays : now' + d \in Nat /\ now' + d >= now'
         /\ KeepsCreates(Pop(agenda), agenda, s)
<1> DEFINE o == SendOp(c)
<1>1. Take(o) /\ o # CreateOp(s)
  BY CreateOpFacts
<1> HIDE DEF o
<1> QED BY <1>1, TakeKeepsCreates

LEMMA DamageKeepsOrder ==
  ASSUME OrderInv, Uplinked, Len(events) = 1, NEW c \in Channel, DamagePacket(c), NEW x \in Sender
  PROVE  Orderly(agenda', queue', newest'[x], x) /\ tally'[x]["late"] = 0
<1> DEFINE r == Dequeued(queue, c)
<1>1. /\ Take(SendOp(c)) /\ queue' = r /\ newest' = newest
      /\ tally' = Count(tally, Head(queue[c]).sender, "damaged")
  BY DEF DamagePacket, SendOp, Dequeued
<1>2. NetInv /\ Orderly(agenda, queue, newest[x], x) /\ tally[x]["late"] = 0
  BY DEF OrderInv, ServedInv
<1>3. QueuesTyped(queue, now') /\ queue[c] # <<>>
  BY <1>1, <1>2, TakeFacts DEF NetInv, QueuesInv
<1>4. PICK delay \in Delays : agenda' = ScheduleNext(Pop(agenda), queue', c, now' + delay)
  BY DEF DamagePacket
<1>5. KeepsCreates(agenda', agenda, x)
  <2>1. /\ now' \in Nat /\ AgendaInv(Pop(agenda), now') /\ KeepsCreates(Pop(agenda), agenda, x)
        /\ now' + delay \in Nat /\ now' + delay >= now'
    BY <1>1, <1>2, SendIsNoCreate
  <2>2. KeepsCreates(agenda', Pop(agenda), x)
    BY <1>4, <2>1, NextKeepsCreates
  <2> QED BY <2>1, <2>2, KeepsTwice
<1>6. Among(r, queue, x)
  BY <1>3, DequeuedAmong
<1>7. \A n \in Nat : \A w \in [0 .. n -> Channel] : InLine(queue, w, n, x) => InLine(r, w, n, x)
  BY <1>3, TailInLine
<1>8. tally'[x]["late"] = 0
  <2>1. Head(queue[c]).sender \in Sender
    BY <1>1, <1>2, TransmitFacts DEF PacketUpTo
  <2> QED BY <1>1, <1>2, <2>1 DEF NetInv, BooksTyped, TallyTyped, Count, Field
<1> HIDE DEF r
<1>9. Orderly(agenda', r, newest[x], x)
  BY <1>2, <1>5, <1>6, <1>7, OthersStay
<1> QED BY <1>1, <1>8, <1>9

LEMMA PassAgenda ==
  ASSUME NetInv, NEW c \in Channel, PassPacket(c), NEW x
  PROVE  KeepsCreates(agenda', agenda, x)
<1> DEFINE p == Head(queue[c])
           q == [queue EXCEPT ![c] = Tail(@)]
<1>1. Take(SendOp(c))
  BY DEF PassPacket, SendOp
<1>2. PICK onward \in Delays, delay \in Delays :
        agenda' = ScheduleNext(AgendaAfterSend(Pop(agenda), q, c[2], p, now' + onward),
                               queue', c, now' + delay)
  BY DEF PassPacket
<1>3. c[2] \in Station /\ p.sender \in Sender /\ RoutesTyped
  <2>1. p \in PacketUpTo(now')
    BY <1>1, TransmitFacts
  <2> QED BY <2>1 DEF Channel, PacketUpTo, NetInv, RoutesInv
<1> DEFINE a == AgendaAfterSend(Pop(agenda), q, c[2], p, now' + onward)
<1>4. /\ now' \in Nat /\ AgendaInv(Pop(agenda), now') /\ KeepsCreates(Pop(agenda), agenda, x)
      /\ now' + onward \in Nat /\ now' + onward >= now'
      /\ now' + delay \in Nat /\ now' + delay >= now'
  BY <1>1, SendIsNoCreate
<1>5. agenda' = ScheduleNext(a, queue', c, now' + delay)
  BY <1>2
<1> HIDE DEF p, q
<1>6. AgendaInv(a, now') /\ KeepsCreates(a, Pop(agenda), x)
  BY <1>3, <1>4, SendKeepsCreates
<1> HIDE DEF a
<1>7. KeepsCreates(agenda', a, x)
  BY <1>4, <1>5, <1>6, NextKeepsCreates
<1>8. KeepsCreates(a, agenda, x)
  BY <1>4, <1>6, KeepsTwice
<1> QED BY <1>7, <1>8, KeepsTwice

(* The head of a queue arrives or goes on: how the queues and the books     *)
(* change for its sender s, who is orderly.                                 *)
LEMMA HeadOnItsWay ==
  ASSUME RoutesInv, Uplinked, NEW t, NEW q0, QueuesTyped(q0, t), NEW c \in Channel, q0[c] # <<>>,
         NEW p, p = Head(q0[c]), NEW s \in Sender, s = p.sender,
         NEW n \in Nat, NEW w \in [0 .. n -> Channel], IsWay(w, n, s), InLine(q0, w, n, s),
         NEW q, q = Dequeued(q0, c), NEW r, r = QueueAfterSend(q, c[2], p)
  PROVE  \/ /\ Arrived(c[2], p) /\ r = q /\ InLine(r, w, n, s) /\ Undelivered(r, p.born, s)
         \/ Forwarded(c[2], p) /\ InLine(r, w, n, s)
<1>1. 1 \in 1 .. Len(q0[c]) /\ p = q0[c][1] /\ p \in PacketUpTo(t) /\ QueuesTyped(q, t)
  <2>1. q0[c] \in Seq(PacketUpTo(t)) /\ q = [q0 EXCEPT ![c] = Tail(@)]
    BY DEF QueuesTyped, Dequeued
  <2>2. QueuesTyped(q, t)
    BY <2>1 DEF QueuesTyped
  <2>3. 1 \in 1 .. Len(q0[c]) /\ p = q0[c][1]
    BY TailShape
  <2>4. p \in PacketUpTo(t)
    BY <2>1, <2>3
  <2> QED BY <2>2, <2>3, <2>4
<1>2. PICK k \in 0 .. n : c = w[k]
  BY <1>1 DEF InLine
<1>3. InLine(q, w, n, s) /\ FitsBehind(q, w, n, s, k - 1, p.born)
  BY <1>2, TailInLine
<1>4. CASE k = 0
  <2>1. Arrived(c[2], p)
    BY <1>2, <1>4, WayForwards
  <2>2. r = q
    BY <2>1 DEF QueueAfterSend, Forwarded
  <2>3. ASSUME NEW e \in Channel, NEW i \in 1 .. Len(q[e]), q[e][i].sender = s
        PROVE  p.born < q[e][i].born
    <3>1. PICK l \in 0 .. n : e = w[l]
      BY <1>3, <2>3 DEF InLine
    <3>2. ~(l <= k - 1)
      BY <1>4
    <3> QED BY <1>3, <2>3, <3>1, <3>2 DEF FitsBehind
  <2> QED BY <1>3, <2>1, <2>2, <2>3 DEF Undelivered
<1>5. CASE k \in 1 .. n
  <2>1. Forwarded(c[2], p) /\ ChannelFrom(c[2], p) = w[k - 1]
    <3>1. Forwarded(w[k][2], p) /\ ChannelFrom(w[k][2], p) = w[k - 1]
      <4>1. \A h \in 1 .. n : Forwarded(w[h][2], p) /\ ChannelFrom(w[h][2], p) = w[h - 1]
        BY WayForwards
      <4> QED BY <1>5, <4>1
    <3> QED BY <1>2, <3>1
  <2>2. r = Enqueued(q, w[k - 1], p) /\ k - 1 \in 0 .. n
    <3>1. r = [q EXCEPT ![ChannelFrom(c[2], p)] = Append(@, p)]
      BY <2>1 DEF QueueAfterSend
    <3>2. r = [q EXCEPT ![w[k - 1]] = Append(@, p)]
      BY <2>1, <3>1, Zenon
    <3>3. k - 1 \in 0 .. n
      BY <1>5
    <3> QED BY <3>2, <3>3, Zenon DEF Enqueued
  <2> DEFINE m == k - 1
  <2>3. m \in 0 .. n /\ r = Enqueued(q, w[m], p) /\ FitsBehind(q, w, n, s, m, p.born)
    BY <1>3, <2>2
  <2>4. \A i, j \in 0 .. n : w[i] = w[j] => i = j
    <3>1. IsTrail(w, n, s[2]) /\ s[2] \in Ground
      BY DEF IsWay, Sender
    <3> QED BY <3>1, WayIsStraight
  <2> HIDE DEF m
  <2>5. InLine(r, w, n, s)
    BY <1>1, <1>3, <2>3, <2>4, AppendInLine
  <2> QED BY <2>1, <2>5
<1> QED BY <1>4, <1>5

(* The queues behind a transmission, for a sender of no concern.            *)
LEMMA PassAmong ==
  ASSUME RoutesTyped, NEW t, NEW q0, QueuesTyped(q0, t), NEW c \in Channel, q0[c] # <<>>,
         NEW p, p = Head(q0[c]), NEW x,
         NEW q, q = Dequeued(q0, c), NEW r, r = QueueAfterSend(q, c[2], p)
  PROVE  /\ Among(r, q0, x)
         /\ p.sender # x =>
              \A n \in Nat : \A w \in [0 .. n -> Channel] : InLine(q0, w, n, x) => InLine(r, w, n, x)
<1>1. 1 \in 1 .. Len(q0[c]) /\ p = q0[c][1] /\ Among(q, q0, x)
  BY DequeuedAmong
<1>2. p \in PacketUpTo(t) /\ QueuesTyped(q, t)
  <2>1. q0[c] \in Seq(PacketUpTo(t)) /\ q = [q0 EXCEPT ![c] = Tail(@)]
    BY DEF QueuesTyped, Dequeued
  <2> QED BY <1>1, <2>1 DEF QueuesTyped
<1>3. \A n \in Nat : \A w \in [0 .. n -> Channel] : InLine(q0, w, n, x) => InLine(q, w, n, x)
  BY TailInLine
<1>4. CASE ~Forwarded(c[2], p)
  BY <1>1, <1>3, <1>4 DEF QueueAfterSend
<1>5. CASE Forwarded(c[2], p)
  <2> DEFINE d == ChannelFrom(c[2], p)
  <2>1. d \in Channel
    BY <1>2, <1>5, ChannelFromFacts DEF PacketUpTo, Channel
  <2>2. r = [q EXCEPT ![d] = Append(@, p)]
    BY <1>5 DEF QueueAfterSend
  <2>3. r = Enqueued(q, d, p)
    BY <2>2 DEF Enqueued
  <2> HIDE DEF d
  <2>4. Among(r, q0, x)
    <3>1. \E e \in Channel : \E j \in 1 .. Len(q0[e]) : p = q0[e][j]
      BY <1>1
    <3> QED BY <1>1, <1>2, <2>1, <2>3, <3>1, EnqueuedAmong
  <2>5. ASSUME p.sender # x, NEW n \in Nat, NEW w \in [0 .. n -> Channel], InLine(q, w, n, x)
        PROVE  InLine(r, w, n, x)
    BY <1>2, <2>1, <2>3, <2>5, OtherInLine
  <2> QED BY <1>3, <2>4, <2>5
<1> QED BY <1>4, <1>5

LEMMA PassKeepsOrder ==
  ASSUME OrderInv, Uplinked, Len(events) = 1, NEW c \in Channel, PassPacket(c), NEW x \in Sender
  PROVE  Orderly(agenda', queue', newest'[x], x) /\ tally'[x]["late"] = 0
<1> DEFINE p == Head(queue[c])
           q == Dequeued(queue, c)
           st == c[2]
<1>1. /\ Take(SendOp(c)) /\ queue' = QueueAfterSend(q, st, p)
      /\ tally' = TallyAfterSend(tally, st, p) /\ newest' = NewestAfterSend(st, p)
  BY DEF PassPacket, SendOp, Dequeued
<1>2. /\ NetInv /\ RoutesInv /\ RoutesTyped
      /\ Orderly(agenda, queue, newest[x], x) /\ tally[x]["late"] = 0
  BY DEF OrderInv, ServedInv, NetInv, RoutesInv
<1>3. QueuesTyped(queue, now') /\ queue[c] # <<>>
  BY <1>1, <1>2, TakeFacts DEF NetInv, QueuesInv
<1>4. KeepsCreates(agenda', agenda, x)
  BY <1>2, PassAgenda
<1>5. /\ p.sender \in Sender /\ p.born \in Nat
      /\ 1 \in 1 .. Len(queue[c]) /\ p = queue[c][1]
  <2>1. p \in PacketUpTo(now')
    BY <1>1, <1>2, TransmitFacts
  <2>2. 1 \in 1 .. Len(queue[c]) /\ p = queue[c][1]
    BY <1>3, DequeuedAmong
  <2> QED BY <2>1, <2>2 DEF PacketUpTo
<1>6. /\ tally \in [Sender -> [Field -> Nat]] /\ newest \in [Sender -> Nat \cup {-1}]
      /\ "late" \in Field /\ "good" \in Field
  BY <1>2 DEF NetInv, BooksTyped, TallyTyped, NewestTyped, Field
<1>10. p = Head(queue[c]) /\ q = Dequeued(queue, c) /\ queue' = QueueAfterSend(q, c[2], p)
  BY <1>1
<1> HIDE DEF p, q, st
<1>7. /\ Among(queue', queue, x)
      /\ p.sender # x =>
           \A n \in Nat : \A w \in [0 .. n -> Channel] : InLine(queue, w, n, x) => InLine(queue', w, n, x)
  <2> DEFINE r == queue'
             t == now'
  <2>1. QueuesTyped(queue, t) /\ r = QueueAfterSend(q, c[2], p)
    BY <1>3, <1>10
  <2> HIDE DEF r, t
  <2>2. Among(r, queue, x)
    BY <1>2, <1>3, <1>10, <2>1, PassAmong
  <2>3. p.sender # x =>
           \A n \in Nat : \A w \in [0 .. n -> Channel] : InLine(queue, w, n, x) => InLine(r, w, n, x)
    BY <1>2, <1>3, <1>10, <2>1, PassAmong
  <2> QED BY <2>2, <2>3 DEF r
<1>8. CASE p.sender # x
  <2>1. newest'[x] = newest[x]
    BY <1>1, <1>5, <1>6, <1>8 DEF NewestAfterSend
  <2>2. tally'[x] = tally[x]
    BY <1>1, <1>5, <1>6, <1>8 DEF TallyAfterSend, Count
  <2>3. Orderly(agenda', queue', newest[x], x)
    BY <1>2, <1>4, <1>7, <1>8, OthersStay
  <2> QED BY <1>2, <2>1, <2>2, <2>3
<1>9. CASE p.sender = x
  <2>1. PICK n \in Nat : \E w \in [0 .. n -> Channel] : IsWay(w, n, x) /\ InLine(queue, w, n, x)
    BY <1>2 DEF Orderly
  <2>2. PICK w \in [0 .. n -> Channel] : IsWay(w, n, x) /\ InLine(queue, w, n, x)
    BY <2>1
  <2>3. \/ /\ Arrived(st, p) /\ queue' = q /\ InLine(queue', w, n, x)
           /\ Undelivered(queue', p.born, x)
        \/ Forwarded(st, p) /\ InLine(queue', w, n, x)
    BY <1>1, <1>2, <1>3, <1>9, <2>2, HeadOnItsWay DEF p, q, st
  <2>4. CASE Forwarded(st, p)
    <3>1. ~Arrived(st, p) /\ newest' = newest /\ tally' = tally
      BY <1>1, <2>4 DEF Forwarded, NewestAfterSend, TallyAfterSend
    <3>2. InLine(queue', w, n, x)
      BY <2>3
    <3>3. CreatesNewer(agenda', queue', newest[x], x)
      <4>1. CreatesNewer(agenda, queue, newest[x], x)
            /\ \A t : NewerThanAll(queue, newest[x], x, t) => newest[x] < t
        BY <1>2 DEF Orderly, NewerThanAll
      <4> QED BY <1>4, <1>7, <4>1, CreatesStayNewer
    <3>4. Undelivered(queue', newest[x], x)
      <4>1. ASSUME NEW e \in Channel, NEW i \in 1 .. Len(queue'[e]), queue'[e][i].sender = x
            PROVE  newest[x] < queue'[e][i].born
        <5>1. PICK d \in Channel : \E j \in 1 .. Len(queue[d]) : queue'[e][i] = queue[d][j]
          BY <1>7, <4>1 DEF Among
        <5> QED BY <1>2, <4>1, <5>1 DEF Orderly, Undelivered
      <4> QED BY <4>1 DEF Undelivered
    <3>5. Once(agenda', CreateOp(x))
      BY <1>2, <1>4 DEF Orderly, KeepsCreates
    <3>6. Orderly(agenda', queue', newest[x], x)
      BY <2>2, <3>2, <3>3, <3>4, <3>5 DEF Orderly
    <3> QED BY <1>2, <3>1, <3>6
  <2>5. CASE Arrived(st, p) /\ ~Forwarded(st, p)
    <3>1. newest[x] < p.born
      BY <1>2, <1>5, <1>9 DEF Orderly, Undelivered
    <3>2. InOrder(p) /\ ~Unroutable(st, p)
      BY <1>9, <2>5, <3>1 DEF InOrder, Unroutable
    <3>3. newest'[x] = p.born
      BY <1>1, <1>6, <1>9, <2>5, <3>2 DEF NewestAfterSend
    <3>4. tally'[x]["late"] = 0
      <4>1. tally' = Count(tally, x, "good")
        BY <1>1, <1>9, <2>5, <3>2 DEF TallyAfterSend, FateAt
      <4> QED BY <1>2, <1>6, <4>1 DEF Count
    <3>5. InLine(queue', w, n, x) /\ Undelivered(queue', p.born, x)
      BY <2>3, <2>5
    <3>6. CreatesNewer(agenda', queue', p.born, x)
      <4>1. CreatesNewer(agenda, queue, newest[x], x)
        BY <1>2 DEF Orderly
      <4>2. \A t : NewerThanAll(queue, newest[x], x, t) => p.born < t
        BY <1>5, <1>9 DEF NewerThanAll
      <4> DEFINE b == p.born
      <4>3. \A t : NewerThanAll(queue, newest[x], x, t) => b < t
        BY <4>2
      <4> HIDE DEF b
      <4>4. CreatesNewer(agenda', queue', b, x)
        BY <1>4, <1>7, <4>1, <4>3, CreatesStayNewer
      <4> QED BY <4>4 DEF b
    <3>7. Once(agenda', CreateOp(x))
      BY <1>2, <1>4 DEF Orderly, KeepsCreates
    <3>8. Orderly(agenda', queue', p.born, x)
      BY <2>2, <3>5, <3>6, <3>7 DEF Orderly
    <3> QED BY <3>3, <3>4, <3>8
  <2> QED BY <2>3, <2>4, <2>5
<1> QED BY <1>8, <1>9

(* A new packet joins the queue of the uplink behind all the others of its  *)
(* sender, and the next creation comes later.                               *)
LEMMA CreateAgenda ==
  ASSUME NetInv, NEW s \in Sender, CreatePacket(s), Once(agenda, CreateOp(s))
  PROVE  /\ \A x : x # s => KeepsCreates(agenda', agenda, x)
         /\ Once(agenda', CreateOp(s))
         /\ \A i \in 1 .. Len(agenda') : agenda'[i].op = CreateOp(s) => agenda'[i].time > now'
<1> DEFINE o == CreateOp(s)
           p == [sender |-> s, born |-> now']
<1>1. Take(o) /\ o \in Operation
  BY CreateOpFacts DEF CreatePacket, CreateOp
<1>2. PICK gap \in Gaps, delay \in Delays :
        agenda' = Push(AgendaAfterSend(Pop(agenda), queue, s[1], p, now' + delay), At(now' + gap, o))
  BY DEF CreatePacket, CreateOp
<1>3. s[1] \in Station /\ p.sender \in Sender /\ RoutesTyped
  BY DEF Sender, Station, NetInv, RoutesInv
<1>4. gap \in Nat /\ gap # 0
  BY TimingAssumption
<1> DEFINE a == AgendaAfterSend(Pop(agenda), queue, s[1], p, now' + delay)
           u == now' + gap
<1>5. agenda' = Push(a, At(u, o))
  BY <1>2
<1>6. /\ now' \in Nat /\ AgendaInv(Pop(agenda), now') /\ Never(Pop(agenda), o)
      /\ \A x : o # CreateOp(x) => KeepsCreates(Pop(agenda), agenda, x)
      /\ now' + delay \in Nat /\ now' + delay >= now'
  <2> HIDE DEF o
  <2> QED BY <1>1, TakeKeepsCreates DEF o
<1>7. u \in Nat /\ u > now' /\ u >= now'
  <2>1. \A m, k \in Nat : k # 0 => m + k \in Nat /\ m + k > m /\ m + k >= m
    OBVIOUS
  <2>2. now' \in Nat
    BY <1>6
  <2> QED BY <1>4, <2>1, <2>2
<1> HIDE DEF p, u
<1>8. AgendaInv(a, now') /\ \A x : KeepsCreates(a, Pop(agenda), x)
  BY <1>3, <1>6, SendKeepsCreates
<1> HIDE DEF a, o
<1>9. Never(a, o)
  BY <1>6, <1>8 DEF KeepsCreates, o
<1>10. Once(agenda', o)
  BY <1>1, <1>5, <1>6, <1>7, <1>8, <1>9, PushAgenda
<1>11. ASSUME NEW x, x # s PROVE KeepsCreates(agenda', agenda, x)
  <2>1. o # CreateOp(x)
    BY <1>11, CreateOpFacts DEF o
  <2>2. KeepsCreates(agenda', a, x)
    BY <1>1, <1>5, <1>6, <1>7, <1>8, <2>1, PushKeepsCreates
  <2>3. KeepsCreates(a, agenda, x)
    BY <1>6, <1>8, <2>1, KeepsTwice
  <2> QED BY <2>2, <2>3, KeepsTwice
<1>12. ASSUME NEW i \in 1 .. Len(agenda'), agenda'[i].op = o PROVE agenda'[i].time > now'
  <2> DEFINE c == At(u, o)
  <2>1. c \in Command /\ c.time = u
    BY <1>1, <1>7, AtFacts
  <2>2. a \in Seq(Command) /\ Ordered(a) /\ Timed(Command) /\ agenda' = Push(a, c)
    BY <1>5, <1>8, CommandsTimed DEF AgendaInv
  <2> HIDE DEF c
  <2>3. agenda'[i] = c \/ \E j \in 1 .. Len(a) : agenda'[i] = a[j]
    BY <2>1, <2>2, PushElements
  <2> QED BY <1>7, <1>9, <1>12, <2>1, <2>3 DEF Never
<1> QED BY <1>10, <1>11, <1>12 DEF o

LEMMA CreateKeepsOrder ==
  ASSUME OrderInv, Uplinked, Len(events) = 1, NEW s \in Sender, CreatePacket(s), NEW x \in Sender
  PROVE  Orderly(agenda', queue', newest'[x], x) /\ tally'[x]["late"] = 0
<1> DEFINE o == CreateOp(s)
           p == [sender |-> s, born |-> now']
           t == now'
<1>1. /\ Take(o) /\ queue' = QueueAfterSend(queue, s[1], p)
      /\ tally' = TallyAfterSend(Count(tally, s, "created"), s[1], p)
      /\ newest' = NewestAfterSend(s[1], p)
  BY DEF CreatePacket, CreateOp
<1>2. /\ NetInv /\ RoutesInv
      /\ \A y \in Sender : Orderly(agenda, queue, newest[y], y) /\ tally[y]["late"] = 0
  BY DEF OrderInv, ServedInv, NetInv
<1>3. /\ \A y : y # s => KeepsCreates(agenda', agenda, y)
      /\ Once(agenda', o)
      /\ \A i \in 1 .. Len(agenda') : agenda'[i].op = o => agenda'[i].time > t
  BY <1>2, CreateAgenda DEF Orderly
<1>4. t \in Nat /\ QueuesTyped(queue, t) /\ QueuesTyped(queue', t) /\ newest[x] \in Nat \cup {-1}
      /\ agenda' \in Seq(Command) /\ 1 \in 1 .. Len(agenda) /\ agenda[1].op = o /\ agenda[1].time = t
  <2>1. QueuesInv'
    BY <1>2, CreatePacketKeeps
  <2>2. t \in Nat /\ QueuesTyped(queue', t) /\ agenda' \in Seq(Command)
    BY <2>1 DEF QueuesInv, AgendaInv
  <2> HIDE DEF o
  <2>3. QueuesTyped(queue, t)
    BY <1>1, <1>2, TakeFacts DEF NetInv, QueuesInv
  <2>4. 1 \in 1 .. Len(agenda) /\ agenda[1].op = o /\ agenda[1].time = t
    BY <1>1, <1>2, TakeKeepsCreates
  <2>5. newest[x] \in Nat \cup {-1}
    BY <1>2 DEF NetInv, BooksTyped, NewestTyped
  <2> QED BY <2>2, <2>3, <2>4, <2>5
<1>5. p \in PacketUpTo(t) /\ p.sender = s /\ p.born = t
  BY <1>4 DEF PacketUpTo
<1> HIDE DEF p, t, o
<1>6. PICK n \in Nat : \E w \in [0 .. n -> Channel] : IsWay(w, n, s) /\ InLine(queue, w, n, s)
  BY <1>2 DEF Orderly
<1>7. PICK w \in [0 .. n -> Channel] : IsWay(w, n, s) /\ InLine(queue, w, n, s)
  BY <1>6
<1>8. Forwarded(s[1], p) /\ ChannelFrom(s[1], p) = w[n]
  BY <1>2, <1>5, <1>7, WayForwards
<1>9. /\ queue' = Enqueued(queue, w[n], p) /\ newest' = newest
      /\ tally' = Count(tally, s, "created")
  <2>1. queue' = [queue EXCEPT ![ChannelFrom(s[1], p)] = Append(@, p)]
    BY <1>1, <1>8 DEF QueueAfterSend
  <2>2. queue' = [queue EXCEPT ![w[n]] = Append(@, p)]
    BY <1>8, <2>1, Zenon
  <2> QED BY <1>1, <1>8, <2>2 DEF Enqueued, NewestAfterSend, TallyAfterSend, Forwarded
<1>10. tally'[x]["late"] = 0
  BY <1>2, <1>9 DEF NetInv, BooksTyped, TallyTyped, Count, Field
<1> DEFINE c == w[n]
           r == queue'
<1>11. c \in Channel /\ r = Enqueued(queue, c, p) /\ QueuesTyped(r, t)
  BY <1>4, <1>9
<1>12. CASE x # s
  <2> HIDE DEF c, r
  <2>1. Among(queue, queue, x)
    BY DEF Among
  <2>2. Among(Enqueued(queue, c, p), queue, x)
    BY <1>4, <1>5, <1>11, <1>12, <2>1, EnqueuedAmong
  <2>3. \A m \in Nat : \A v \in [0 .. m -> Channel] : InLine(queue, v, m, x) => InLine(r, v, m, x)
    BY <1>4, <1>5, <1>11, <1>12, OtherInLine
  <2>4. Among(r, queue, x) /\ KeepsCreates(agenda', agenda, x)
    BY <1>3, <1>11, <1>12, <2>2
  <2>5. Orderly(agenda', r, newest[x], x)
    BY <1>2, <2>3, <2>4, OthersStay
  <2> QED BY <1>9, <1>10, <2>5 DEF r
<1>13. CASE x = s
  <2>1. NewerThanAll(queue, newest[x], x, t)
    BY <1>2, <1>4, <1>13 DEF Orderly, CreatesNewer, o
  <2>2. FitsBehind(queue, w, n, x, n, p.born)
    BY <1>5, <2>1 DEF FitsBehind, NewerThanAll
  <2>3. InLine(r, w, n, x)
    <3>1. \A i, j \in 0 .. n : w[i] = w[j] => i = j
      <4>1. IsTrail(w, n, s[2]) /\ s[2] \in Ground
        BY <1>7 DEF IsWay, Sender
      <4> QED BY <1>2, <4>1, WayIsStraight
    <3>2. n \in 0 .. n /\ r = Enqueued(queue, w[n], p)
      BY <1>9
    <3> HIDE DEF r
    <3> QED BY <1>4, <1>5, <1>7, <1>13, <2>2, <3>1, <3>2, AppendInLine
  <2>4. Undelivered(r, newest[x], x)
    <3> HIDE DEF c, r
    <3>1. /\ Len(queue[c]) \in Nat /\ Len(r[c]) = Len(queue[c]) + 1 /\ r[c][Len(queue[c]) + 1] = p
          /\ \A i \in 1 .. Len(queue[c]) : r[c][i] = queue[c][i]
          /\ \A d \in Channel : d # c => r[d] = queue[d]
      BY <1>4, <1>5, <1>11, AppendShape, SMTT(30)
    <3>2. newest[x] < p.born
      BY <1>5, <2>1 DEF NewerThanAll
    <3>3. ASSUME NEW d \in Channel, NEW i \in 1 .. Len(r[d]), r[d][i].sender = x
          PROVE  newest[x] < r[d][i].born
      <4>1. CASE d # c
        BY <1>2, <3>1, <3>3, <4>1 DEF Orderly, Undelivered
      <4>2. CASE d = c
        <5>1. i \in 1 .. Len(queue[c]) \/ i = Len(queue[c]) + 1
          BY <3>1, <4>2
        <5> QED BY <1>2, <1>11, <3>1, <3>2, <3>3, <4>2, <5>1, Zenon DEF Orderly, Undelivered
      <4> QED BY <4>1, <4>2
    <3> QED BY <3>3 DEF Undelivered
  <2>5. CreatesNewer(agenda', r, newest[x], x)
    <3>1. ASSUME NEW i \in 1 .. Len(agenda'), agenda'[i].op = CreateOp(x)
          PROVE  NewerThanAll(r, newest[x], x, agenda'[i].time)
      <4> DEFINE z == agenda'[i].time
      <4>1. z \in Nat /\ z > t
        <5>1. agenda'[i] \in Command
          BY <1>4
        <5>2. z \in Nat
          BY <5>1 DEF Command
        <5>3. z > t
          BY <1>3, <1>13, <3>1 DEF o
        <5> QED BY <5>2, <5>3
      <4>2. newest[x] < t
        BY <2>1 DEF NewerThanAll
      <4> HIDE DEF z, r, c
      <4>3. newest[x] < z
        BY <1>4, <4>1, <4>2
      <4>4. ASSUME NEW d \in Channel, NEW j \in 1 .. Len(r[d]) PROVE r[d][j].born < z
        <5>1. r[d] \in Seq(PacketUpTo(t))
          BY <1>11 DEF QueuesTyped
        <5>2. r[d][j] \in PacketUpTo(t)
          BY <5>1
        <5>3. r[d][j].born \in 0 .. t
          BY <5>2 DEF PacketUpTo
        <5>4. \A b \in 0 .. t : b < z
          BY <1>4, <4>1
        <5> QED BY <5>3, <5>4
      <4>5. NewerThanAll(r, newest[x], x, z)
        BY <4>3, <4>4 DEF NewerThanAll
      <4> QED BY <4>5 DEF z
    <3> QED BY <3>1 DEF CreatesNewer
  <2>6. Orderly(agenda', r, newest[x], x)
    BY <1>3, <1>7, <1>13, <2>3, <2>4, <2>5 DEF Orderly, o
  <2> QED BY <1>9, <1>10, <2>6
<1> QED BY <1>12, <1>13

(* The first update finds nothing on its way and leads every sender to its  *)
(* destination.                                                             *)
LEMMA FirstUpdateOrders ==
  ASSUME OrderInv, events = <<>>, Update, NEW s \in Sender
  PROVE  Orderly(agenda, queue, newest[s], s)' /\ tally'[s]["late"] = 0
<1>1. ServedInv' /\ NetInv'
  BY ServedStep DEF OrderInv, ServedInv, Next
<1>2. Uplinked' /\ RoutesInv'
  <2>1. UpdateSatellitePositions(now')
    BY DEF Update
  <2> QED BY <1>1, <2>1, UpdateServes DEF OrderInv, NetInv
<1>3. /\ Take(<<"update">>) /\ queue' = queue /\ newest' = newest /\ tally' = NoCounts
      /\ agenda' = Push(Pop(agenda), At(now' + DeltaT, <<"update">>))
  BY DEF Update, UpdateSatellitePositions, RecordPeriod
<1>4. /\ \A c \in Channel : queue'[c] = <<>>
      /\ newest'[s] = -1 /\ Once(agenda, CreateOp(s)) /\ NetInv
  BY <1>3 DEF OrderInv, Untouched, ServedInv
<1>5. Once(agenda', CreateOp(s))
  <2> DEFINE o == <<"update">>
  <2>1. Take(o) /\ o # CreateOp(s) /\ o \in Operation
    BY <1>3, CreateOpFacts, OperationFacts
  <2> HIDE DEF o
  <2>2. /\ now' \in Nat /\ AgendaInv(Pop(agenda), now')
        /\ now' + DeltaT \in Nat /\ now' + DeltaT >= now'
        /\ KeepsCreates(Pop(agenda), agenda, s)
    BY <1>4, <2>1, TakeKeepsCreates
  <2>3. KeepsCreates(agenda', Pop(agenda), s)
    BY <1>3, <2>1, <2>2, PushKeepsCreates DEF o
  <2> QED BY <1>4, <2>2, <2>3 DEF KeepsCreates
<1>6. CreatesNewer(agenda', queue', newest'[s], s)
  <2>1. ASSUME NEW i \in 1 .. Len(agenda') PROVE NewerThanAll(queue', newest'[s], s, agenda'[i].time)
    <3>1. agenda' \in Seq(Command)
      BY <1>1 DEF NetInv, QueuesInv, AgendaInv
    <3>4. agenda'[i] \in Command
      BY <3>1
    <3>2. agenda'[i].time \in Nat
      BY <3>4 DEF Command
    <3>3. newest'[s] < agenda'[i].time
      BY <1>4, <3>2
    <3> QED BY <1>4, <3>3 DEF NewerThanAll
  <2> QED BY <2>1 DEF CreatesNewer
<1>7. Undelivered(queue', newest'[s], s) /\ \A n : \A w \in [0 .. n -> Channel] : InLine(queue', w, n, s)
  <2>1. \A c \in Channel : 1 .. Len(queue'[c]) = {}
    BY <1>4
  <2>2. Undelivered(queue', newest'[s], s)
    BY <2>1 DEF Undelivered
  <2>3. ASSUME NEW n, NEW w \in [0 .. n -> Channel] PROVE InLine(queue', w, n, s)
    <3>1. \A k \in 0 .. n : w[k] \in Channel
      OBVIOUS
    <3>2. \A k \in 0 .. n : 1 .. Len(queue'[w[k]]) = {}
      BY <2>1, <3>1
    <3> QED BY <2>1, <3>2 DEF InLine
  <2> QED BY <2>2, <2>3
<1>8. (\E n \in Nat : \E w \in [0 .. n -> Channel] : IsWay(w, n, s))'
  BY <1>2, WayExists, PTL
<1>9. Orderly(agenda, queue, newest[s], s)'
  BY <1>5, <1>6, <1>7, <1>8 DEF Orderly
<1>10. tally'[s]["late"] = 0
  BY <1>3 DEF NoCounts, Field
<1> QED BY <1>9, <1>10

LEMMA OrderStep == OrderInv /\ [Next]_vars => OrderInv'
<1> SUFFICES ASSUME OrderInv, [Next]_vars PROVE OrderInv'
  OBVIOUS
<1>0. ServedInv' /\ ServedInv /\ NetInv
  BY ServedStep DEF OrderInv, ServedInv
<1> DEFINE Kept == \A x \in Sender : Orderly(agenda', queue', newest'[x], x) /\ tally'[x]["late"] = 0
(* Packets move only behind the first update, and only while the routing    *)
(* stands is there anything to keep.                                        *)
<1>1. ASSUME NEW o, Take(o), o # <<"update">>, UNCHANGED <<netVars, events>>,
             Uplinked /\ Len(events) = 1 => Kept
      PROVE  OrderInv'
  <2>1. Uplinked
    BY <1>0, <1>1, NotFresh
  <2>2. events # <<>>
    BY <1>1 DEF OrderInv, Untouched, Fresh, Take, Peek
  <2>3. ASSUME Len(events) = 1, NEW x \in Sender
        PROVE  Orderly(agenda, queue, newest[x], x)' /\ tally'[x]["late"] = 0
    BY <1>1, <2>1, <2>3, OrderlyStays
  <2>4. events' = events
    BY <1>1
  <2> QED BY <1>0, <2>2, <2>3, <2>4 DEF OrderInv
(* A closed period is the first, or the routing has been replaced.          *)
<1>2. ASSUME NEW t, UpdateSatellitePositions(t), events = <<>> => Update
      PROVE  OrderInv'
  <2>1. events' = Append(events, EventData(t))
    BY <1>2 DEF UpdateSatellitePositions, RecordPeriod
  <2> DEFINE e == EventData(t)
  <2>2. PICK S : events \in Seq(S)
    BY DEF OrderInv
  <2>3. events \in Seq(S \cup {e}) /\ e \in S \cup {e} /\ events' = Append(events, e)
    BY <2>1, <2>2
  <2> HIDE DEF e
  <2>4. events' \in Seq(S \cup {e}) /\ Len(events') = Len(events) + 1 /\ Len(events) \in Nat
        /\ events' # <<>>
    BY <2>3
  <2>5. ASSUME Len(events') = 1, NEW x \in Sender
        PROVE  Orderly(agenda, queue, newest[x], x)' /\ tally'[x]["late"] = 0
    <3>1. events = <<>>
      BY <2>2, <2>4, <2>5
    <3> QED BY <1>2, <3>1, FirstUpdateOrders
  <2> QED BY <1>0, <2>4, <2>5 DEF OrderInv
<1>3. ASSUME NEW s \in Sender, CreatePacket(s) PROVE OrderInv'
  <2>1. Take(CreateOp(s)) /\ CreateOp(s) # <<"update">> /\ UNCHANGED <<netVars, events>>
    BY <1>3, CreateOpFacts DEF CreatePacket, CreateOp
  <2>2. Uplinked /\ Len(events) = 1 => Kept
    BY <1>3, CreateKeepsOrder
  <2> QED BY <1>1, <2>1, <2>2
<1>4. ASSUME NEW c \in Channel, DamagePacket(c) PROVE OrderInv'
  <2>1. Take(SendOp(c)) /\ SendOp(c) # <<"update">> /\ UNCHANGED <<netVars, events>>
    BY <1>4, SendOpFacts DEF DamagePacket, SendOp
  <2>2. Uplinked /\ Len(events) = 1 => Kept
    BY <1>4, DamageKeepsOrder
  <2> QED BY <1>1, <2>1, <2>2
<1>5. ASSUME NEW c \in Channel, PassPacket(c) PROVE OrderInv'
  <2>1. Take(SendOp(c)) /\ SendOp(c) # <<"update">> /\ UNCHANGED <<netVars, events>>
    BY <1>5, SendOpFacts DEF PassPacket, SendOp
  <2>2. Uplinked /\ Len(events) = 1 => Kept
    BY <1>5, PassKeepsOrder
  <2> QED BY <1>1, <2>1, <2>2
<1>6. CASE Update
  BY <1>2, <1>6 DEF Update
<1>7. CASE Stop
  <2>1. Take(<<"stop">>) /\ <<"stop">> # <<"update">> /\ UNCHANGED <<netVars, events>>
    BY <1>7 DEF Stop
  <2>2. queue' = queue /\ newest' = newest /\ tally' = tally /\ agenda' = Pop(agenda)
    BY <1>7 DEF Stop, bookVars
  <2>3. ASSUME Len(events) = 1, NEW x \in Sender
        PROVE  Orderly(agenda', queue', newest'[x], x) /\ tally'[x]["late"] = 0
    <3>1. Orderly(agenda, queue, newest[x], x) /\ tally[x]["late"] = 0
      BY <2>3 DEF OrderInv
    <3> DEFINE o == <<"stop">>
    <3>2. Take(o) /\ o # CreateOp(x)
      BY <2>1, CreateOpFacts
    <3> HIDE DEF o
    <3>3. KeepsCreates(Pop(agenda), agenda, x)
      BY <1>0, <3>2, TakeKeepsCreates
    <3>4. Among(queue, queue, x)
      BY DEF Among
    <3>5. Orderly(Pop(agenda), queue, newest[x], x)
      BY <3>1, <3>3, <3>4, OthersStay
    <3> QED BY <2>2, <3>1, <3>5
  <2> QED BY <1>1, <2>1, <2>3
<1>8. CASE Finish
  <2>1. events # <<>> \/ phase # "running"
    BY <1>8 DEF Finish, OrderInv, Untouched, Fresh
  <2>2. events # <<>>
    BY <2>1 DEF OrderInv, Untouched, Fresh
  <2> QED BY <1>2, <1>8, <2>2 DEF Finish
<1>9. CASE UNCHANGED vars
  <2>1. UNCHANGED netVars /\ agenda' = agenda /\ queue' = queue /\ newest' = newest
        /\ tally' = tally /\ events' = events /\ phase' = phase
    BY <1>9 DEF vars, netVars, bookVars
  <2>2. Untouched => Untouched'
    BY <2>1 DEF Untouched, Fresh
  <2>3. ASSUME NEW x \in Sender, Orderly(agenda, queue, newest[x], x)
        PROVE  Orderly(agenda, queue, newest[x], x)'
    BY <2>1, <2>3, OrderlyStays
  <2> QED BY <1>0, <2>1, <2>2, <2>3 DEF OrderInv
<1> QED BY <1>3, <1>4, <1>5, <1>6, <1>7, <1>8, <1>9 DEF Next

(* Manager's check for late packets (a packet created before the newest one *)
(* delivered): while the first routing stands no packet of any sender is    *)
(* late, for any number of stations and any timing of the queues.           *)
THEOREM OrderKept == Spec => []InOrderUntilReroute
<1>1. OrderInv => InOrderUntilReroute
  BY DEF OrderInv, InOrderUntilReroute
<1> QED BY <1>1, OrderInit, OrderStep, PTL DEF Spec

-----------------------------------------------------------------------------
(* The counts of the closed periods, summed.  That the sum of so many       *)
(* events exists, and only one, is carried from event to event.             *)
CountsOf(e, s) == IF s \in DOMAIN e.paths THEN e.paths[s].counts ELSE NoCounts[s]

IsSum(sum, es, s) ==
  sum = [i \in 0 .. Len(es) |->
           IF i = 0 THEN NoCounts[s]
           ELSE [f \in Field |-> sum[i - 1][f] + CountsOf(es[i], s)[f]]]

HasSum(es, s) == \E sum : IsSum(sum, es, s) /\ \A other : IsSum(other, es, s) => other = sum

SumOf(es, s) == (CHOOSE sum : IsSum(sum, es, s))[Len(es)]

LEMMA ClosedBookIsSum == \A s : ClosedBook(s) = SumOf(events, s)
BY DEF ClosedBook, SumOf, IsSum, CountsOf

LEMMA SumOfNone == 
  ASSUME NEW s
  PROVE  HasSum(<<>>, s) /\ SumOf(<<>>, s) = NoCounts[s]
<1> DEFINE zero == [i \in {0} |-> NoCounts[s]]
<1>1. \A sum : IsSum(sum, <<>>, s) <=> sum = zero
  <2> SUFFICES ASSUME NEW sum PROVE IsSum(sum, <<>>, s) <=> sum = zero
    OBVIOUS
  <2>1. 0 .. Len(<<>>) = {0}
    BY SMT
  <2>2. [i \in {0} |-> IF i = 0 THEN NoCounts[s]
           ELSE [f \in Field |-> sum[i - 1][f] + CountsOf(<<>>[i], s)[f]]] = zero
    OBVIOUS
  <2> QED BY <2>1, <2>2 DEF IsSum
<1>2. IsSum(zero, <<>>, s)
  BY <1>1
<1>3. (CHOOSE sum : IsSum(sum, <<>>, s)) = zero
  BY <1>1, <1>2
<1>4. Len(<<>>) = 0
  BY SMT
<1> QED BY <1>1, <1>2, <1>3, <1>4 DEF HasSum, SumOf

LEMMA SumGrows ==
  ASSUME NEW S, NEW es \in Seq(S), NEW e \in S, NEW s, HasSum(es, s)
  PROVE  /\ HasSum(Append(es, e), s)
         /\ SumOf(Append(es, e), s)
              = [f \in Field |-> SumOf(es, s)[f] + CountsOf(e, s)[f]]
<1> DEFINE n == Len(es)
           more == Append(es, e)
<1>1. n \in Nat /\ Len(more) = n + 1 /\ more[n + 1] = e /\ \A i \in 1 .. n : more[i] = es[i]
  OBVIOUS
<1>2. PICK sum : IsSum(sum, es, s) /\ \A other : IsSum(other, es, s) => other = sum
  BY DEF HasSum
<1>3. (CHOOSE x : IsSum(x, es, s)) = sum
  BY <1>2
<1> DEFINE next == [f \in Field |-> sum[n][f] + CountsOf(e, s)[f]]
           grown == [i \in 0 .. n + 1 |-> IF i = n + 1 THEN next ELSE sum[i]]
           Value(x, l, i) == IF i = 0 THEN NoCounts[s]
                             ELSE [f \in Field |-> x[i - 1][f] + CountsOf(l[i], s)[f]]
<1>4. \A x, l : IsSum(x, l, s) <=> x = [i \in 0 .. Len(l) |-> Value(x, l, i)]
  BY DEF IsSum
<1>5. \A i \in 0 .. n : sum[i] = Value(sum, es, i)
  BY <1>2, <1>4
<1>6. \A x, y : \A i \in 0 .. n :
        (\A j \in 0 .. n : x[j] = y[j]) => Value(x, more, i) = Value(y, es, i)
  <2> SUFFICES ASSUME NEW x, NEW y, NEW i \in 0 .. n, \A j \in 0 .. n : x[j] = y[j]
               PROVE  Value(x, more, i) = Value(y, es, i)
    OBVIOUS
  <2>1. CASE i = 0
    BY <2>1
  <2>2. CASE i # 0
    <3>1. i - 1 \in 0 .. n /\ i \in 1 .. n
      BY <1>1, <2>2, SMT
    <3>2. x[i - 1] = y[i - 1] /\ more[i] = es[i]
      BY <1>1, <3>1
    <3> HIDE DEF n, more
    <3> QED BY <2>2, <3>2
  <2> QED BY <2>1, <2>2
<1>7. n + 1 \in 0 .. n + 1 /\ n + 1 # 0 /\ (n + 1) - 1 = n /\ n \in 0 .. n /\ n # n + 1
  BY <1>1, SMT
<1>8. \A i \in 0 .. n : i \in 0 .. n + 1 /\ i # n + 1
  BY <1>1, SMT
<1>9. \A i \in 0 .. n + 1 : i \in 0 .. n \/ i = n + 1
  BY <1>1, SMT
<1>10. grown[n + 1] = next
  <2> DEFINE m == n + 1
  <2> HIDE DEF n, next
  <2>1. m \in 0 .. m
    BY <1>7
  <2> HIDE DEF m
  <2>2. [i \in 0 .. m |-> IF i = m THEN next ELSE sum[i]][m] = next
    BY <2>1, SMT
  <2> QED BY <2>2 DEF m
<1>11. IsSum(grown, more, s)
  <2>1. \A j \in 0 .. n : grown[j] = sum[j]
    BY <1>8
  <2>2. \A i \in 0 .. n : grown[i] = Value(grown, more, i)
    <3> HIDE DEF grown, Value, more, n
    <3> SUFFICES ASSUME NEW i \in 0 .. n PROVE grown[i] = Value(grown, more, i)
      OBVIOUS
    <3>1. Value(grown, more, i) = Value(sum, es, i)
      BY <1>6, <2>1, Zenon
    <3> QED BY <1>5, <2>1, <3>1, Zenon
  <2>3. grown[n + 1] = next /\ grown[n] = sum[n]
    <3> HIDE DEF grown, n, next
    <3> QED BY <1>7, <1>10, <2>1, Zenon
  <2>4. Value(grown, more, n + 1) = next
    <3> HIDE DEF grown, n, more
    <3>1. grown[(n + 1) - 1] = sum[n] /\ more[n + 1] = e
      BY <1>1, <1>7, <2>3, Zenon
    <3> QED BY <1>7, <3>1, Zenon
  <2>5. \A i \in 0 .. n + 1 : grown[i] = Value(grown, more, i)
    <3> HIDE DEF grown, Value, more, next
    <3> QED BY <1>9, <2>2, <2>3, <2>4
  <2>6. grown = [i \in 0 .. n + 1 |-> grown[i]]
    OBVIOUS
  <2>7. grown = [i \in 0 .. Len(more) |-> Value(grown, more, i)]
    <3> HIDE DEF grown, Value, more
    <3> QED BY <1>1, <2>5, <2>6
  <2> HIDE DEF grown, Value, more
  <2> QED BY <1>4, <2>7
<1>12. ASSUME NEW x, IsSum(x, more, s) PROVE x = grown
  <2> DEFINE y == [i \in 0 .. n |-> x[i]]
  <2>1. x = [i \in 0 .. n + 1 |-> Value(x, more, i)]
    <3>1. x = [i \in 0 .. Len(more) |-> Value(x, more, i)]
      <4> HIDE DEF Value, more
      <4> QED BY <1>4, <1>12
    <3>2. Len(more) = n + 1
      BY <1>1
    <3> HIDE DEF Value, more
    <3> QED BY <3>1, <3>2
  <2>2. \A i \in 0 .. n + 1 : x[i] = Value(x, more, i)
    <3> HIDE DEF Value, more
    <3> QED BY <2>1
  <2>3. \A i \in 0 .. n : x[i] = Value(y, es, i)
    <3>1. \A i \in 0 .. n : x[i] = y[i]
      OBVIOUS
    <3> HIDE DEF Value, more, n, y
    <3> SUFFICES ASSUME NEW i \in 0 .. n PROVE x[i] = Value(y, es, i)
      OBVIOUS
    <3>2. Value(x, more, i) = Value(y, es, i)
      BY <1>6, <3>1, Zenon
    <3> QED BY <1>8, <2>2, <3>2, Zenon
  <2>4. y = [i \in 0 .. n |-> Value(y, es, i)]
    <3> HIDE DEF Value
    <3> QED BY <2>3
  <2>5. y = sum
    <3> HIDE DEF Value, y
    <3>1. IsSum(y, es, s)
      BY <1>4, <2>4, Zenon
    <3> QED BY <1>2, <3>1, Zenon
  <2>6. \A i \in 0 .. n : x[i] = sum[i]
    BY <2>5
  <2>7. x[n + 1] = next
    <3>1. x[n + 1] = Value(x, more, n + 1)
      <4> HIDE DEF Value, more, n
      <4> DEFINE m == n + 1
      <4>1. m \in 0 .. m
        BY <1>7 DEF m
      <4> HIDE DEF m
      <4> QED BY <2>2, <4>1, Zenon DEF m
    <3>2. Value(x, more, n + 1) = next
      <4> HIDE DEF n, more
      <4>1. x[(n + 1) - 1] = sum[n] /\ more[n + 1] = e
        BY <1>1, <1>7, <2>6, Zenon
      <4> QED BY <1>7, <4>1, Zenon
    <3> HIDE DEF Value, more, n, next
    <3> QED BY <3>1, <3>2, Zenon
  <2>8. x = [i \in 0 .. n + 1 |-> x[i]]
    <3> HIDE DEF Value, more
    <3> QED BY <2>1
  <2> HIDE DEF next, Value, more
  <2> QED BY <1>9, <2>6, <2>7, <2>8
<1>13. (CHOOSE x : IsSum(x, more, s)) = grown
  <2> HIDE DEF grown, more
  <2>1. \A x : IsSum(x, more, s) => x = grown
    BY <1>12, Zenon
  <2>2. IsSum(CHOOSE x : IsSum(x, more, s), more, s)
    <3>1. \E x : IsSum(x, more, s)
      BY <1>11, Zenon
    <3> QED BY <3>1, Zenon
  <2> QED BY <2>1, <2>2, Zenon
<1>14. SumOf(more, s) = next
  <2>1. grown[n + 1] = next
    BY <1>10, Zenon
  <2>2. Len(more) = n + 1
    BY <1>1
  <2> HIDE DEF grown, more, n, next
  <2> QED BY <1>13, <2>1, <2>2, Zenon DEF SumOf
<1>15. SumOf(es, s) = sum[n]
  BY <1>3 DEF SumOf
<1> QED
  <2> HIDE DEF grown, more, n
  <2>1. HasSum(more, s)
    BY <1>11, <1>12 DEF HasSum
  <2> QED BY <2>1, <1>14, <1>15 DEF more

-----------------------------------------------------------------------------
(* The packets in the queues.  No packet is in two places.                  *)
FlyingIn(q) == UNION {{q[c][i] : i \in DOMAIN q[c]} : c \in Channel}

Distinct(q) ==
  \A c, d \in Channel : \A i \in 1 .. Len(q[c]), j \in 1 .. Len(q[d]) :
    q[c][i] = q[d][j] => c = d /\ i = j

Held(q, p) == \E c \in Channel : \E i \in 1 .. Len(q[c]) : q[c][i] = p

LEMMA FlyingIs ==
  ASSUME NEW t, NEW q, QueuesTyped(q, t)
  PROVE  \A p : p \in FlyingIn(q) <=> Held(q, p)
<1>1. \A c \in Channel : DOMAIN q[c] = 1 .. Len(q[c])
  BY DEF QueuesTyped
<1>2. SUFFICES ASSUME NEW p
      PROVE  p \in FlyingIn(q) <=> Held(q, p)
  OBVIOUS
<1>3. p \in FlyingIn(q) <=> \E c \in Channel : p \in {q[c][i] : i \in DOMAIN q[c]}
  BY Zenon DEF FlyingIn
<1>4. \A c \in Channel :
        p \in {q[c][i] : i \in DOMAIN q[c]} <=> \E i \in DOMAIN q[c] : q[c][i] = p
  OBVIOUS
<1> QED BY <1>1, <1>3, <1>4, Zenon DEF Held

LEMMA FlyingTyped ==
  ASSUME NEW t, NEW q, QueuesTyped(q, t)
  PROVE  FlyingIn(q) \subseteq PacketUpTo(t)
<1>1. \A c \in Channel : \A i \in 1 .. Len(q[c]) : q[c][i] \in PacketUpTo(t)
  BY DEF QueuesTyped
<1> QED BY <1>1, FlyingIs DEF Held

(* A packet is sent: it is on its way.                                      *)
LEMMA AppendFlies ==
  ASSUME NEW t, NEW q, QueuesTyped(q, t), Distinct(q), NEW p \in PacketUpTo(t),
         p \notin FlyingIn(q), NEW c \in Channel,
         NEW r, r = [q EXCEPT ![c] = Append(@, p)]
  PROVE  Distinct(r) /\ FlyingIn(r) = FlyingIn(q) \cup {p}
<1> DEFINE n == Len(q[c])
<1>1. q[c] \in Seq(PacketUpTo(t)) /\ c \in DOMAIN q
  BY DEF QueuesTyped
<1>2. /\ n \in Nat /\ Len(r[c]) = n + 1 /\ r[c][n + 1] = p
      /\ \A i \in 1 .. n : r[c][i] = q[c][i]
      /\ \A d \in Channel : d # c => r[d] = q[d]
  BY <1>1 DEF QueuesTyped
<1>3. QueuesTyped(r, t)
  BY <1>1 DEF QueuesTyped
<1> HIDE DEF n
<1>4. \A i : i \in 1 .. n + 1 <=> i \in 1 .. n \/ i = n + 1
  BY <1>2, SMT
<1>5. \A d \in Channel : \A i \in 1 .. Len(r[d]) :
        \/ i \in 1 .. Len(q[d]) /\ r[d][i] = q[d][i] /\ r[d][i] # p
        \/ d = c /\ i = n + 1 /\ r[d][i] = p
  <2>1. \A d \in Channel : \A i \in 1 .. Len(q[d]) : q[d][i] # p
    BY FlyingIs DEF Held
  <2> QED BY <1>2, <1>4, <2>1 DEF n
<1>6. Distinct(r)
  <2> SUFFICES ASSUME NEW d \in Channel, NEW e \in Channel, NEW i \in 1 .. Len(r[d]),
                      NEW j \in 1 .. Len(r[e]), r[d][i] = r[e][j]
               PROVE  d = e /\ i = j
    BY DEF Distinct
  <2>1. CASE r[d][i] = p
    BY <1>5, <2>1
  <2>2. CASE r[d][i] # p
    <3>1. i \in 1 .. Len(q[d]) /\ r[d][i] = q[d][i]
      BY <1>5, <2>2
    <3>2. j \in 1 .. Len(q[e]) /\ r[e][j] = q[e][j]
      BY <1>5, <2>2
    <3> QED BY <3>1, <3>2 DEF Distinct
  <2> QED BY <2>1, <2>2
<1>10. \A x : x \in FlyingIn(q) <=> Held(q, x)
  BY FlyingIs
<1>11. \A x : x \in FlyingIn(r) <=> Held(r, x)
  BY <1>3, FlyingIs
<1>7. \A x : x \in FlyingIn(r) => x \in FlyingIn(q) \cup {p}
  <2> SUFFICES ASSUME NEW d \in Channel, NEW i \in 1 .. Len(r[d])
               PROVE  r[d][i] \in FlyingIn(q) \cup {p}
    BY <1>11 DEF Held
  <2>1. CASE r[d][i] = p
    BY <2>1
  <2>2. CASE r[d][i] # p
    <3>1. i \in 1 .. Len(q[d]) /\ r[d][i] = q[d][i]
      BY <1>5, <2>2
    <3>2. Held(q, r[d][i])
      BY <3>1, Zenon DEF Held
    <3> QED BY <1>10, <3>2
  <2> QED BY <2>1, <2>2
<1>8. \A x \in FlyingIn(q) : x \in FlyingIn(r)
  <2> SUFFICES ASSUME NEW x \in FlyingIn(q) PROVE x \in FlyingIn(r)
    OBVIOUS
  <2> PICK d \in Channel : \E i \in 1 .. Len(q[d]) : q[d][i] = x
    BY <1>10 DEF Held
  <2> PICK i \in 1 .. Len(q[d]) : q[d][i] = x
    OBVIOUS
  <2>1. i \in 1 .. Len(r[d]) /\ r[d][i] = q[d][i]
    BY <1>2, <1>4 DEF n
  <2>2. Held(r, x)
    BY <2>1 DEF Held
  <2> QED BY <1>11, <2>2
<1>9. p \in FlyingIn(r)
  <2>1. n + 1 \in 1 .. Len(r[c]) /\ r[c][n + 1] = p
    BY <1>2, <1>4
  <2>2. Held(r, p)
    BY <2>1, Zenon DEF Held
  <2> QED BY <1>11, <2>2
<1> QED BY <1>6, <1>7, <1>8, <1>9, Zenon

(* The packet at the head of a queue is taken out: it is on its way no more. *)
LEMMA TailLands ==
  ASSUME NEW t, NEW q, QueuesTyped(q, t), Distinct(q), NEW c \in Channel, q[c] # <<>>,
         NEW r, r = [q EXCEPT ![c] = Tail(@)]
  PROVE  /\ Head(q[c]) \in FlyingIn(q) /\ Distinct(r)
         /\ FlyingIn(r) = FlyingIn(q) \ {Head(q[c])}
<1> DEFINE n == Len(q[c])
           p == Head(q[c])
<1>1. q[c] \in Seq(PacketUpTo(t)) /\ c \in DOMAIN q
  BY DEF QueuesTyped
<1>2. /\ n \in Nat /\ n >= 1 /\ Len(r[c]) = n - 1 /\ p = q[c][1]
      /\ \A i \in 1 .. n - 1 : r[c][i] = q[c][i + 1]
      /\ \A d \in Channel : d # c => r[d] = q[d]
  BY <1>1 DEF QueuesTyped
<1>3. QueuesTyped(r, t)
  BY <1>1 DEF QueuesTyped
<1> HIDE DEF n, p
<1>4. /\ 1 \in 1 .. n
      /\ \A i \in 1 .. n - 1 : i + 1 \in 1 .. n /\ i + 1 # 1
      /\ \A i \in 1 .. n : i # 1 => i - 1 \in 1 .. n - 1 /\ (i - 1) + 1 = i
      /\ \A i, j \in 1 .. n - 1 : i + 1 = j + 1 => i = j
  BY <1>2, SMT
<1> DEFINE At0(d, i) == IF d = c THEN i + 1 ELSE i
<1>5. \A d \in Channel : \A i \in 1 .. Len(r[d]) :
        /\ At0(d, i) \in 1 .. Len(q[d]) /\ r[d][i] = q[d][At0(d, i)]
        /\ d = c => At0(d, i) # 1
        /\ \A j \in 1 .. Len(r[d]) : At0(d, i) = At0(d, j) => i = j
  BY <1>2, <1>4 DEF n
<1> HIDE DEF At0
<1>6. Distinct(r)
  <2> SUFFICES ASSUME NEW d \in Channel, NEW e \in Channel, NEW i \in 1 .. Len(r[d]),
                      NEW j \in 1 .. Len(r[e]), r[d][i] = r[e][j]
               PROVE  d = e /\ i = j
    BY DEF Distinct
  <2>1. /\ At0(d, i) \in 1 .. Len(q[d]) /\ r[d][i] = q[d][At0(d, i)]
        /\ At0(e, j) \in 1 .. Len(q[e]) /\ r[e][j] = q[e][At0(e, j)]
    BY <1>5, Zenon
  <2> DEFINE a == At0(d, i)
             b == At0(e, j)
  <2>2. d = e /\ a = b
    <3>1. a \in 1 .. Len(q[d]) /\ b \in 1 .. Len(q[e]) /\ q[d][a] = q[e][b]
      BY <2>1
    <3> HIDE DEF a, b
    <3> QED BY <3>1 DEF Distinct
  <2>3. j \in 1 .. Len(r[d]) /\ At0(d, i) = At0(d, j)
    BY <2>2
  <2> QED BY <1>5, <2>2, <2>3
<1>10. \A x : x \in FlyingIn(q) <=> Held(q, x)
  BY FlyingIs
<1>11. \A x : x \in FlyingIn(r) <=> Held(r, x)
  BY <1>3, FlyingIs
<1>7. p \in FlyingIn(q)
  <2>1. 1 \in 1 .. Len(q[c]) /\ q[c][1] = p
    BY <1>2, <1>4 DEF n
  <2>2. Held(q, p)
    BY <2>1, Zenon DEF Held
  <2> QED BY <1>10, <2>2
<1>8. \A x \in FlyingIn(r) : x \in FlyingIn(q) \ {p}
  <2> SUFFICES ASSUME NEW d \in Channel, NEW i \in 1 .. Len(r[d])
               PROVE  r[d][i] \in FlyingIn(q) \ {p}
    BY <1>11 DEF Held
  <2>1. r[d][i] \in FlyingIn(q)
    <3>1. Held(q, r[d][i])
      BY <1>5 DEF Held
    <3> QED BY <1>10, <3>1
  <2>2. r[d][i] # p
    BY <1>2, <1>4, <1>5 DEF Distinct, n
  <2> QED BY <2>1, <2>2
<1>9. \A x \in FlyingIn(q) \ {p} : x \in FlyingIn(r)
  <2> SUFFICES ASSUME NEW x \in FlyingIn(q), x # p PROVE Held(r, x)
    BY <1>11
  <2> PICK d \in Channel : \E i \in 1 .. Len(q[d]) : q[d][i] = x
    BY <1>10 DEF Held
  <2> PICK i \in 1 .. Len(q[d]) : q[d][i] = x
    OBVIOUS
  <2>1. CASE d = c
    <3>1. i # 1 /\ i \in 1 .. n
      BY <1>2, <2>1 DEF n
    <3>2. i - 1 \in 1 .. n - 1 /\ (i - 1) + 1 = i
      BY <1>4, <3>1
    <3>3. r[c][i - 1] = q[c][i]
      BY <1>2, <3>2
    <3>4. i - 1 \in 1 .. Len(r[d]) /\ r[d][i - 1] = q[d][i]
      BY <1>2, <2>1, <3>2, <3>3
    <3> QED BY <3>4 DEF Held
  <2>2. CASE d # c
    <3>1. i \in 1 .. Len(r[d]) /\ r[d][i] = q[d][i]
      BY <1>2, <2>2
    <3> QED BY <3>1 DEF Held
  <2> QED BY <2>1, <2>2
<1> QED BY <1>6, <1>7, <1>8, <1>9 DEF p

-----------------------------------------------------------------------------
(* One creation of every sender is pending, at a time behind the creation   *)
(* of every packet of it that is on its way.                                *)

Ahead(a, s, F) ==
  /\ Once(a, CreateOp(s))
  /\ \A i \in 1 .. Len(a) : a[i].op = CreateOp(s) =>
       \A p \in F : p.sender = s => p.born < a[i].time

(* Scheduling something else.                                               *)
LEMMA PushAhead ==
  ASSUME NEW t \in Nat, NEW a, AgendaInv(a, t), NEW u \in Nat, u >= t,
         NEW o \in Operation, NEW b, b = Push(a, At(u, o)),
         NEW s, o # CreateOp(s), NEW F, Ahead(a, s, F)
  PROVE  AgendaInv(b, t) /\ Ahead(b, s, F)
<1>1. AgendaInv(b, t) /\ Once(b, CreateOp(s))
  BY PushAgenda DEF Ahead
<1> DEFINE c == At(u, o)
<1>2. c \in Command /\ c.op = o
  BY AtFacts
<1>3. a \in Seq(Command) /\ Ordered(a) /\ Timed(Command) /\ b = Push(a, c)
  BY CommandsTimed DEF AgendaInv
<1> HIDE DEF c
<1>4. \A i \in 1 .. Len(b) : b[i] = c \/ \E j \in 1 .. Len(a) : b[i] = a[j]
  BY <1>2, <1>3, PushElements
<1> QED BY <1>1, <1>2, <1>4 DEF Ahead

(* The next creation is scheduled behind the one that is executing.         *)
LEMMA PushCreation ==
  ASSUME NEW t \in Nat, NEW a, AgendaInv(a, t), NEW u \in Nat, u > t,
         NEW s \in Sender, NEW b, b = Push(a, At(u, CreateOp(s))),
         Never(a, CreateOp(s)), NEW F, F \subseteq PacketUpTo(t)
  PROVE  AgendaInv(b, t) /\ Ahead(b, s, F)
<1> DEFINE c == At(u, CreateOp(s))
<1>0. CreateOp(s) \in Operation
  BY CreateOpFacts
<1>1. AgendaInv(b, t) /\ Once(b, CreateOp(s))
  BY <1>0, PushAgenda
<1>2. c \in Command /\ c.op = CreateOp(s) /\ c.time = u
  BY <1>0, AtFacts
<1>3. a \in Seq(Command) /\ Ordered(a) /\ Timed(Command) /\ b = Push(a, c)
  BY CommandsTimed DEF AgendaInv
<1> HIDE DEF c
<1>4. \A i \in 1 .. Len(b) : b[i] = c \/ \E j \in 1 .. Len(a) : b[i] = a[j]
  BY <1>2, <1>3, PushElements
<1>5. \A i \in 1 .. Len(b) : b[i].op = CreateOp(s) => b[i].time = u
  BY <1>2, <1>4 DEF Never
<1>6. \A p \in F : p.born < u
  BY DEF PacketUpTo
<1> QED BY <1>1, <1>5, <1>6 DEF Ahead

LEMMA SendAhead ==
  ASSUME RoutesTyped, NEW t \in Nat, NEW a, AgendaInv(a, t), NEW q,
         NEW st \in Station, NEW p, p.sender \in Sender, NEW u \in Nat, u >= t,
         NEW b, b = AgendaAfterSend(a, q, st, p, u)
  PROVE  /\ AgendaInv(b, t)
         /\ \A s \in Sender : \A F : Ahead(a, s, F) => Ahead(b, s, F)
         /\ \A s \in Sender : Never(a, CreateOp(s)) => Never(b, CreateOp(s))
<1>1. CASE Forwarded(st, p) /\ q[ChannelFrom(st, p)] = <<>>
  <2> DEFINE o == SendOp(ChannelFrom(st, p))
  <2>1. ChannelFrom(st, p) \in Channel
    BY <1>1, ChannelFromFacts
  <2>2. b = Push(a, At(u, o))
    BY <1>1 DEF AgendaAfterSend, SendOp
  <2>3. o \in Operation /\ \A s \in Sender : o # CreateOp(s)
    BY <2>1, SendOpFacts, CreateOpFacts
  <2> HIDE DEF o
  <2>4. AgendaInv(b, t) /\ \A s \in Sender : Never(a, CreateOp(s)) => Never(b, CreateOp(s))
    BY <2>2, <2>3, PushAgenda
  <2>5. \A s \in Sender : \A F : Ahead(a, s, F) => Ahead(b, s, F)
    BY <2>2, <2>3, PushAhead
  <2> QED BY <2>4, <2>5
<1>2. CASE ~(Forwarded(st, p) /\ q[ChannelFrom(st, p)] = <<>>)
  BY <1>2 DEF AgendaAfterSend
<1> QED BY <1>1, <1>2

LEMMA NextAhead ==
  ASSUME NEW t \in Nat, NEW a, AgendaInv(a, t), NEW q,
         NEW c \in Channel, NEW u \in Nat, u >= t, NEW b, b = ScheduleNext(a, q, c, u)
  PROVE  \A s \in Sender : \A F : Ahead(a, s, F) => Ahead(b, s, F)
<1>1. CASE q[c] # <<>>
  <2>1. b = Push(a, At(u, SendOp(c)))
    BY <1>1 DEF ScheduleNext, SendOp
  <2>2. SendOp(c) \in Operation /\ \A s \in Sender : SendOp(c) # CreateOp(s)
    BY SendOpFacts, CreateOpFacts
  <2> QED BY <2>1, <2>2, PushAhead
<1>2. CASE q[c] = <<>>
  BY <1>2 DEF ScheduleNext
<1> QED BY <1>1, <1>2

LEMMA FewerAhead ==
  ASSUME NEW a, NEW s, NEW F, Ahead(a, s, F), NEW G, G \subseteq F
  PROVE  Ahead(a, s, G)
BY DEF Ahead

(* Taking a command leaves the creations of the other senders; the one that *)
(* is taken is later than what is on its way.                               *)
LEMMA TakeAhead ==
  ASSUME now \in Nat, AgendaInv(agenda, now), NEW o, Take(o)
  PROVE  /\ \A s \in Sender : \A F : o # CreateOp(s) /\ Ahead(agenda, s, F) => Ahead(Pop(agenda), s, F)
         /\ \A s \in Sender : \A F : o = CreateOp(s) /\ Ahead(agenda, s, F) =>
              /\ Never(Pop(agenda), o)
              /\ \A p \in F : p.sender = s => p.born < now'
<1>1. /\ agenda \in Seq(Command) /\ agenda # <<>> /\ Ordered(agenda) /\ Timed(Command)
      /\ Peek(agenda).op = o /\ now' = Peek(agenda).time
  BY CommandsTimed DEF AgendaInv, Take
<1>2. /\ 1 \in 1 .. Len(agenda) /\ Peek(agenda) = agenda[1]
      /\ \A i \in 1 .. Len(Pop(agenda)) :
           i + 1 \in 1 .. Len(agenda) /\ Pop(agenda)[i] = agenda[i + 1]
  BY <1>1 DEF Peek, Pop
<1>3. ASSUME NEW s \in Sender, NEW F, o # CreateOp(s), Ahead(agenda, s, F)
      PROVE  Ahead(Pop(agenda), s, F)
  <2>1. Once(Pop(agenda), CreateOp(s))
    BY <1>1, <1>3, PopFacts DEF Ahead
  <2> QED BY <1>2, <1>3, <2>1 DEF Ahead
<1>4. ASSUME NEW s \in Sender, NEW F, o = CreateOp(s), Ahead(agenda, s, F)
      PROVE  Never(Pop(agenda), o) /\ \A p \in F : p.sender = s => p.born < now'
  <2>1. Never(Pop(agenda), o)
    BY <1>1, <1>4, PopFacts DEF Ahead
  <2> QED BY <1>1, <1>2, <1>4, <2>1 DEF Ahead
<1> QED BY <1>3, <1>4

-----------------------------------------------------------------------------
(* The invariant of the books.  Nothing is recorded before the first        *)
(* update, which is the first command of all.                               *)
CreationsAhead == \A s \in Sender : Ahead(agenda, s, Flying)

LedgerInv ==
  /\ ServedInv
  /\ PeriodsInv
  /\ Distinct(queue)
  /\ phase = "running" => CreationsAhead
  /\ events = <<>> => Fresh /\ tally = NoCounts
  /\ \A s \in Sender : HasSum(events, s)

LEMMA FlyingNow == Flying = FlyingIn(queue)
BY DEF Flying, FlyingIn

LEMMA LedgerInit == Init => LedgerInv /\ Ledger!Init
<1> SUFFICES ASSUME Init PROVE LedgerInv /\ Ledger!Init
  OBVIOUS
<1>1. ServedInv /\ PeriodsInv
  BY ServedInit, PeriodsInit
<1>2. events = <<>> /\ tally = NoCounts /\ queue = [c \in Channel |-> <<>>]
  BY DEF Init
<1>3. Flying = {}
  <2>1. \A c \in Channel : DOMAIN queue[c] = {}
    BY <1>2
  <2> QED BY <2>1 DEF Flying
<1>4. Distinct(queue)
  BY <1>2 DEF Distinct
<1>5. CreationsAhead
  <2>1. \A s \in Sender : CreateOp(s) \in InitialOps
    BY DEF InitialOps, CreateOp
  <2>2. \A s \in Sender : Once(agenda, CreateOp(s))
    BY <2>1, InitialOnce
  <2> QED BY <1>3, <2>2 DEF CreationsAhead, Ahead
<1>6. Fresh
  BY InitialFresh
<1>7. \A s \in Sender : HasSum(events, s) /\ ClosedBook(s) = NoCounts[s]
  BY <1>2, SumOfNone, ClosedBookIsSum
<1>8. Ledger!Init
  <2>1. [s \in Sender |-> ClosedBook(s)] = NoCounts
    BY <1>7 DEF NoCounts
  <2>2. Ledger!NoCounts = NoCounts
    BY DEF Ledger!NoCounts, Ledger!Field, Ledger!Fate, NoCounts, Field
  <2> QED BY <1>2, <1>3, <2>1, <2>2 DEF Ledger!Init
<1> QED BY <1>1, <1>2, <1>4, <1>5, <1>6, <1>7, <1>8 DEF LedgerInv

(* The books of a step that records nothing.                                *)
LEMMA NothingClosed ==
  ASSUME LedgerInv, NEW o, Take(o), o # <<"update">>, UNCHANGED events
  PROVE  /\ (events = <<>> => Fresh /\ tally = NoCounts)'
         /\ (\A s \in Sender : HasSum(events, s))'
         /\ UNCHANGED [s \in Sender |-> ClosedBook(s)]
<1>1. events # <<>>
  BY DEF LedgerInv, Fresh, Take, Peek
<1>2. \A s : ClosedBook(s)' = ClosedBook(s)
  BY DEF ClosedBook
<1> QED BY <1>1, <1>2 DEF LedgerInv

LEMMA CountIs ==
  ASSUME NEW tl \in [Sender -> [Field -> Nat]], NEW s \in Sender, NEW f \in Field
  PROVE  Count(tl, s, f) = [tl EXCEPT ![s][f] = @ + 1]
BY DEF Count

LEMMA CountBooked ==
  ASSUME NetInv, NEW s \in Sender, NEW f \in Field
  PROVE  Count(tally, s, f) = [tally EXCEPT ![s][f] = @ + 1]
BY CountIs DEF NetInv, BooksTyped, TallyTyped

(* No command is taken behind the stop command.                             *)
LEMMA ClockWithin ==
  ASSUME PeriodsInv, NEW o, Take(o)
  PROVE  now' <= EndTime
<1>1. /\ agenda \in Seq(Command) /\ agenda # <<>> /\ Ordered(agenda) /\ StopAtEnd(agenda)
      /\ now' = agenda[1].time
  BY DEF PeriodsInv, NetInv, QueuesInv, AgendaInv, Take, Peek
<1>2. PICK i \in 1 .. Len(agenda) : agenda[i].time = EndTime
  BY <1>1 DEF StopAtEnd, Once
<1>3. 1 \in 1 .. Len(agenda) /\ agenda[1].time \in Nat
  <2>1. 1 \in 1 .. Len(agenda) /\ agenda[1] \in Command
    BY <1>1
  <2> QED BY <2>1 DEF Command
<1>4. CASE i = 1
  BY <1>1, <1>2, <1>3, <1>4
<1>5. CASE i # 1
  BY <1>1, <1>2, <1>3, <1>5 DEF Ordered
<1> QED BY <1>4, <1>5

(* CreatePacket creates a packet in the ledger: it is not one of those that *)
(* are on their way, and it is not dropped at once.                         *)
LEMMA CreatePacketBooked ==
  ASSUME LedgerInv, NEW s \in Sender, CreatePacket(s)
  PROVE  /\ Distinct(queue') /\ (phase = "running" => CreationsAhead)'
         /\ \E p \in Ledger!Packets : Ledger!Create(p)
<1> DEFINE p == [sender |-> s, born |-> now']
           o == CreateOp(s)
           t == now'
           tl == Count(tally, s, "created")
<1>1. /\ Take(o) /\ o # <<"update">> /\ o # <<"stop">> /\ UNCHANGED <<netVars, events>>
      /\ \A c \in Channel : o # SendOp(c)
      /\ o \in Operation
  BY CreateOpFacts DEF CreatePacket, CreateOp
<1>2. PICK gap \in Gaps, delay \in Delays :
        /\ agenda' = Push(AgendaAfterSend(Pop(agenda), queue, s[1], p, now' + delay), At(now' + gap, o))
        /\ queue' = QueueAfterSend(queue, s[1], p)
        /\ tally' = TallyAfterSend(tl, s[1], p)
  BY DEF CreatePacket, CreateOp
<1>3. /\ Uplinked /\ NetInv /\ RoutesInv /\ RoutesTyped /\ Served(queue) /\ phase = "running"
      /\ PeriodsInv /\ Distinct(queue)
  <2> HIDE DEF o
  <2>1. Uplinked
    BY <1>1, NotFresh DEF LedgerInv
  <2> QED BY <1>1, <2>1 DEF LedgerInv, ServedInv, NetInv, RoutesInv, Take
<1>4. /\ t \in Nat /\ QueuesTyped(queue, t) /\ AgendaInv(Pop(agenda), t)
  <2> HIDE DEF o
  <2> QED BY <1>1, <1>3, TakeFacts DEF NetInv, QueuesInv
<1>5. /\ t + delay \in Nat /\ t + delay >= t /\ t + gap \in Nat /\ t + gap > t
  <2>1. gap \in Nat /\ gap > 0 /\ delay \in Nat
    BY TimingAssumption
  <2> HIDE DEF t
  <2> QED BY <1>4, <2>1
<1>6. s[1] \in Station /\ p \in PacketUpTo(t) /\ p.sender = s /\ p.born = t /\ s[1] \notin Sat
  <2>1. s[1] \in Ground
    BY DEF Sender
  <2>2. s[1] \in Station /\ s[1] \notin Sat
    BY <2>1, StationFacts DEF Station
  <2>3. p \in PacketUpTo(t)
    BY <1>4 DEF PacketUpTo
  <2> QED BY <2>2, <2>3
<1>7. ~Unroutable(s[1], p) /\ ~Arrived(s[1], p)
  <2>1. s[1] # s[2]
    BY DEF Sender
  <2>2. ~Arrived(s[1], p)
    BY <2>1 DEF Arrived, Dest
  <2> HIDE DEF p, t
  <2>3. ~Unroutable(s[1], p)
    BY <1>2, <1>3, <1>4, <1>6, SendServes
  <2> QED BY <2>2, <2>3
<1>8. Forwarded(s[1], p)
  BY <1>7 DEF Unroutable, Forwarded
<1> DEFINE c == ChannelFrom(s[1], p)
<1>9. c \in Channel /\ queue' = [queue EXCEPT ![c] = Append(@, p)] /\ tally' = tl
  <2>1. queue' = [queue EXCEPT ![c] = Append(@, p)] /\ tally' = tl
    BY <1>2, <1>8 DEF QueueAfterSend, TallyAfterSend
  <2>2. c \in Channel
    <3> HIDE DEF p
    <3> QED BY <1>3, <1>6, <1>8, ChannelFromFacts
  <2> QED BY <2>1, <2>2
<1> HIDE DEF p, c, tl, o, t
<1>10. /\ Never(Pop(agenda), o)
       /\ \A x \in Flying : x.sender = s => x.born < t
       /\ \A r \in Sender : r # s => Ahead(Pop(agenda), r, Flying)
  <2>1. now \in Nat /\ AgendaInv(agenda, now) /\ \A r \in Sender : Ahead(agenda, r, Flying)
    BY <1>3 DEF NetInv, QueuesInv, LedgerInv, CreationsAhead
  <2>2. Never(Pop(agenda), o) /\ \A x \in Flying : x.sender = s => x.born < t
    BY <1>1, <2>1, TakeAhead DEF o, t
  <2>3. ASSUME NEW r \in Sender, r # s PROVE Ahead(Pop(agenda), r, Flying)
    <3>1. o # CreateOp(r)
      BY <2>3, CreateOpFacts DEF o
    <3> QED BY <1>1, <2>1, <3>1, TakeAhead
  <2> QED BY <2>2, <2>3
<1>11. p \notin FlyingIn(queue)
  <2>1. \A x \in Flying : x # p
    BY <1>4, <1>6, <1>10
  <2> QED BY <2>1, FlyingNow
<1>12. Distinct(queue') /\ FlyingIn(queue') = FlyingIn(queue) \cup {p}
  <2> DEFINE after == queue'
  <2>1. QueuesTyped(queue, t) /\ Distinct(queue)
    BY <1>3, <1>4 DEF LedgerInv
  <2>2. p \in PacketUpTo(t) /\ after = [queue EXCEPT ![c] = Append(@, p)]
    BY <1>6, <1>9
  <2> HIDE DEF after
  <2>3. Distinct(after) /\ FlyingIn(after) = FlyingIn(queue) \cup {p}
    BY <1>9, <1>11, <2>1, <2>2, AppendFlies, ZenonT(30)
  <2> QED BY <2>3 DEF after
<1>13. Flying' = Flying \cup {p}
  <2>1. Flying' = FlyingIn(queue')
    BY DEF Flying, FlyingIn
  <2> QED BY <1>12, <2>1, FlyingNow
<1>14. CreationsAhead'
  <2> DEFINE a == AgendaAfterSend(Pop(agenda), queue, s[1], p, t + delay)
  <2>1. p.sender \in Sender
    BY <1>6
  <2>2. /\ AgendaInv(a, t) /\ Never(a, o)
        /\ \A r \in Sender : r # s => Ahead(a, r, Flying)
    <3>1. a = AgendaAfterSend(Pop(agenda), queue, s[1], p, t + delay)
      OBVIOUS
    <3> DEFINE u == t + delay
               st == s[1]
    <3>0. u \in Nat /\ u >= t /\ st \in Station /\ a = AgendaAfterSend(Pop(agenda), queue, st, p, u)
      BY <1>5, <1>6, <3>1
    <3> HIDE DEF a, u, st
    <3>2. /\ AgendaInv(a, t)
          /\ \A r \in Sender : \A F : Ahead(Pop(agenda), r, F) => Ahead(a, r, F)
          /\ \A r \in Sender : Never(Pop(agenda), CreateOp(r)) => Never(a, CreateOp(r))
      <4> DEFINE rest == Pop(agenda)
      <4>1. RoutesTyped /\ t \in Nat /\ AgendaInv(rest, t) /\ a = AgendaAfterSend(rest, queue, st, p, u)
        BY <1>3, <1>4, <3>0
      <4> HIDE DEF rest
      <4>2. /\ AgendaInv(a, t)
            /\ \A r \in Sender : \A F : Ahead(rest, r, F) => Ahead(a, r, F)
            /\ \A r \in Sender : Never(rest, CreateOp(r)) => Never(a, CreateOp(r))
        BY <2>1, <3>0, <4>1, SendAhead
      <4> QED BY <4>2 DEF rest
    <3> QED BY <1>10, <3>2 DEF o
  <2>3. agenda' = Push(a, At(t + gap, o))
    BY <1>2 DEF t
  <2> HIDE DEF a
  <2>4. Flying' \subseteq PacketUpTo(t)
    BY <1>4, <1>6, <1>13, FlyingTyped, FlyingNow
  <2>5. Ahead(agenda', s, Flying')
    BY <1>4, <1>5, <2>2, <2>3, <2>4, PushCreation, Zenon DEF o
  <2>6. ASSUME NEW r \in Sender, r # s PROVE Ahead(agenda', r, Flying')
    <3>1. o # CreateOp(r)
      BY <2>6, CreateOpFacts DEF o
    <3>2. t + gap >= t
      BY <1>4, <1>5
    <3>3. Ahead(agenda', r, Flying)
      BY <1>1, <1>4, <1>5, <2>2, <2>3, <2>6, <3>1, <3>2, PushAhead
    <3> QED BY <1>6, <1>13, <2>6, <3>3 DEF Ahead
  <2> QED BY <2>5, <2>6 DEF CreationsAhead
<1>15. p \in Ledger!Packets
  <2>1. t <= EndTime
    BY <1>1, <1>3, ClockWithin DEF t
  <2> QED BY <1>4, <1>6, <2>1 DEF Ledger!Packets, PacketUpTo
<1>16. Ledger!Create(p)
  <2>1. tally' = [tally EXCEPT ![s]["created"] = @ + 1]
    <3>1. tally' = Count(tally, s, "created") /\ "created" \in Field
      BY <1>9 DEF tl, Field
    <3> QED BY <1>3, <3>1, CountBooked
  <2>2. UNCHANGED [r \in Sender |-> ClosedBook(r)]
    BY <1>1, NothingClosed
  <2> QED BY <1>6, <1>11, <1>13, <2>1, <2>2, FlyingNow DEF Ledger!Create
<1> QED BY <1>12, <1>14, <1>15, <1>16
(* What both outcomes of a transmission start from.                         *)
LEMMA TransmitBooked ==
  ASSUME LedgerInv, NEW c \in Channel, Take(SendOp(c)), UNCHANGED events,
         NEW q, q = [queue EXCEPT ![c] = Tail(@)]
  PROVE  /\ NetInv /\ RoutesTyped /\ phase = "running"
         /\ now' \in Nat /\ AgendaInv(Pop(agenda), now') /\ QueuesTyped(q, now')
         /\ Head(queue[c]) \in PacketUpTo(now') /\ Head(queue[c]) \in Flying
         /\ Distinct(q) /\ FlyingIn(q) = Flying \ {Head(queue[c])}
         /\ \A s \in Sender : Ahead(Pop(agenda), s, Flying)
         /\ UNCHANGED [s \in Sender |-> ClosedBook(s)]
<1> DEFINE o == SendOp(c)
<1>1. /\ Take(o) /\ o # <<"update">> /\ \A s \in Sender : o # CreateOp(s)
  BY SendOpFacts, CreateOpFacts
<1>2. NetInv /\ RoutesTyped /\ phase = "running" /\ Distinct(queue)
  BY DEF LedgerInv, ServedInv, NetInv, RoutesInv, Take
<1>3. /\ now' \in Nat /\ QueuesTyped(queue, now') /\ queue[c] # <<>>
  BY <1>2, TakeFacts DEF NetInv, QueuesInv
<1>4. /\ AgendaInv(Pop(agenda), now') /\ QueuesTyped(q, now')
      /\ Head(queue[c]) \in PacketUpTo(now')
  BY <1>2, TransmitFacts
<1>5. /\ Head(queue[c]) \in FlyingIn(queue) /\ Distinct(q)
      /\ FlyingIn(q) = FlyingIn(queue) \ {Head(queue[c])}
  BY <1>2, <1>3, TailLands
<1>6. UNCHANGED [s \in Sender |-> ClosedBook(s)]
  BY <1>1, NothingClosed
<1>7. \A s \in Sender : Ahead(Pop(agenda), s, Flying)
  <2>1. now \in Nat /\ AgendaInv(agenda, now) /\ \A s \in Sender : Ahead(agenda, s, Flying)
    BY <1>2 DEF NetInv, QueuesInv, LedgerInv, CreationsAhead
  <2> HIDE DEF o
  <2> QED BY <1>1, <2>1, TakeAhead
<1> QED BY <1>2, <1>3, <1>4, <1>5, <1>6, <1>7, FlyingNow

(* A corrupted packet ends as damaged.                                      *)
LEMMA DamagePacketBooked ==
  ASSUME LedgerInv, NEW c \in Channel, DamagePacket(c)
  PROVE  /\ Distinct(queue') /\ (phase = "running" => CreationsAhead)'
         /\ \E p \in Flying : Ledger!End(p, "damaged")
<1> DEFINE p == Head(queue[c])
           t == now'
<1>1. /\ Take(SendOp(c)) /\ queue' = [queue EXCEPT ![c] = Tail(@)] /\ UNCHANGED events
      /\ tally' = Count(tally, p.sender, "damaged")
  BY DEF DamagePacket, SendOp
<1>2. PICK delay \in Delays : agenda' = ScheduleNext(Pop(agenda), queue', c, t + delay)
  BY DEF DamagePacket
<1>3. /\ NetInv /\ RoutesTyped /\ phase = "running"
      /\ t \in Nat /\ AgendaInv(Pop(agenda), t) /\ QueuesTyped(queue', t)
      /\ p \in PacketUpTo(t) /\ p \in Flying
      /\ Distinct(queue') /\ FlyingIn(queue') = Flying \ {p}
      /\ \A s \in Sender : Ahead(Pop(agenda), s, Flying)
      /\ UNCHANGED [s \in Sender |-> ClosedBook(s)]
  BY <1>1, TransmitBooked
<1> HIDE DEF p, t
<1>4. t + delay \in Nat /\ t + delay >= t
  BY <1>3, Later, TimingFacts
<1>5. Flying' = Flying \ {p}
  BY <1>3 DEF Flying, FlyingIn
<1>6. \A s \in Sender : Ahead(agenda', s, Flying)
  <2> DEFINE u == t + delay
  <2> HIDE DEF u
  <2> QED BY <1>2, <1>3, <1>4, NextAhead DEF u
<1>7. CreationsAhead'
  BY <1>5, <1>6, FewerAhead DEF CreationsAhead
<1>8. Ledger!End(p, "damaged")
  <2>1. p.sender \in Sender
    BY <1>3 DEF PacketUpTo
  <2>2. tally' = [tally EXCEPT ![p.sender]["damaged"] = @ + 1]
    <3>1. tally' = Count(tally, p.sender, "damaged") /\ "damaged" \in Field
      BY <1>1 DEF Field
    <3> QED BY <1>3, <2>1, <3>1, CountBooked
  <2> QED BY <1>3, <1>5, <2>2 DEF Ledger!End
<1> QED BY <1>3, <1>7, <1>8

(* A packet that is passed on ends at its destination, and otherwise stays  *)
(* on its way.                                                              *)
LEMMA PassPacketBooked ==
  ASSUME LedgerInv, NEW c \in Channel, PassPacket(c)
  PROVE  /\ Distinct(queue') /\ (phase = "running" => CreationsAhead)'
         /\ \/ \E p \in Flying, fate \in Ledger!Fate : Ledger!End(p, fate)
            \/ UNCHANGED Ledger!vars
<1> DEFINE p == Head(queue[c])
           q == [queue EXCEPT ![c] = Tail(@)]
           t == now'
           st == c[2]
<1>1. Take(SendOp(c)) /\ UNCHANGED events
  BY DEF PassPacket, SendOp
<1>2. PICK onward \in Delays, delay \in Delays :
        /\ queue' = QueueAfterSend(q, st, p)
        /\ agenda' = ScheduleNext(AgendaAfterSend(Pop(agenda), q, st, p, t + onward),
                                  queue', c, t + delay)
        /\ tally' = TallyAfterSend(tally, st, p)
  BY DEF PassPacket
<1>3. /\ NetInv /\ RoutesTyped /\ phase = "running"
      /\ t \in Nat /\ AgendaInv(Pop(agenda), t) /\ QueuesTyped(q, t)
      /\ p \in PacketUpTo(t) /\ p \in Flying
      /\ Distinct(q) /\ FlyingIn(q) = Flying \ {p}
      /\ \A s \in Sender : Ahead(Pop(agenda), s, Flying)
      /\ UNCHANGED [s \in Sender |-> ClosedBook(s)]
  BY <1>1, TransmitBooked, Zenon
<1>4. st \in Station /\ p.sender \in Sender
  BY <1>3 DEF Channel, PacketUpTo
<1> DEFINE u == t + onward
           v == t + delay
           a == AgendaAfterSend(Pop(agenda), q, st, p, u)
<1>5. u \in Nat /\ u >= t /\ v \in Nat /\ v >= t
  BY <1>3, Later, TimingFacts
<1>6. a = AgendaAfterSend(Pop(agenda), q, st, p, u) /\ agenda' = ScheduleNext(a, queue', c, v)
  BY <1>2
<1> HIDE DEF p, q, t, st, u, v, a
<1>7. AgendaInv(a, t) /\ \A s \in Sender : Ahead(a, s, Flying)
  <2>1. /\ AgendaInv(a, t)
        /\ \A s \in Sender : \A F : Ahead(Pop(agenda), s, F) => Ahead(a, s, F)
    BY <1>3, <1>4, <1>5, <1>6, SendAhead
  <2> QED BY <1>3, <2>1
<1>8. \A s \in Sender : Ahead(agenda', s, Flying)
  <2>1. \A s \in Sender : \A F : Ahead(a, s, F) => Ahead(agenda', s, F)
    BY <1>3, <1>5, <1>6, <1>7, NextAhead
  <2> QED BY <1>7, <2>1
<1>9. Flying' = FlyingIn(queue')
  BY DEF Flying, FlyingIn
<1>10. CASE Forwarded(st, p)
  <2> DEFINE d == ChannelFrom(st, p)
  <2>1. queue' = [q EXCEPT ![d] = Append(@, p)] /\ tally' = tally
    BY <1>2, <1>10 DEF QueueAfterSend, TallyAfterSend
  <2>2. d \in Channel
    BY <1>3, <1>4, <1>10, ChannelFromFacts
  <2>3. p \notin FlyingIn(q)
    BY <1>3
  <2> HIDE DEF d
  <2>4. Distinct(queue') /\ FlyingIn(queue') = FlyingIn(q) \cup {p}
    BY <1>3, <2>1, <2>2, <2>3, AppendFlies, ZenonT(30)
  <2>5. Flying' = Flying
    BY <1>3, <1>9, <2>4
  <2>6. UNCHANGED Ledger!vars
    BY <1>3, <2>1, <2>5 DEF Ledger!vars
  <2> QED BY <1>8, <2>4, <2>5, <2>6 DEF CreationsAhead
<1>11. CASE ~Forwarded(st, p)
  <2> DEFINE fate == FateAt(st, p)
  <2>1. queue' = q /\ tally' = Count(tally, p.sender, fate)
    BY <1>2, <1>11 DEF QueueAfterSend, TallyAfterSend
  <2>2. fate \in Ledger!Fate /\ fate \in Field
    BY DEF FateAt, Ledger!Fate, Field
  <2> HIDE DEF fate
  <2>3. Flying' = Flying \ {p}
    BY <1>3, <1>9, <2>1
  <2>4. tally' = [tally EXCEPT ![p.sender][fate] = @ + 1]
    <3>1. tally \in [Sender -> [Field -> Nat]]
      BY <1>3 DEF NetInv, BooksTyped, TallyTyped
    <3>2. Count(tally, p.sender, fate) = [tally EXCEPT ![p.sender][fate] = @ + 1]
      <4> DEFINE s == p.sender
      <4>1. s \in Sender
        BY <1>4
      <4> HIDE DEF s
      <4>2. Count(tally, s, fate) = [tally EXCEPT ![s][fate] = @ + 1]
        BY <2>2, <3>1, <4>1, CountIs
      <4> QED BY <4>2 DEF s
    <3> QED BY <2>1, <3>2
  <2>5. Ledger!End(p, fate)
    BY <1>3, <2>3, <2>4 DEF Ledger!End
  <2>6. CreationsAhead'
    BY <1>8, <2>3, FewerAhead DEF CreationsAhead
  <2> QED BY <1>3, <2>1, <2>2, <2>5, <2>6
<1> QED BY <1>10, <1>11
(* An update closes the period: its counts join those of the events.        *)
LEMMA PeriodBooked ==
  ASSUME LedgerInv, NEW t, UpdateSatellitePositions(t)
  PROVE  /\ queue' = queue /\ events' # <<>> /\ Flying' = Flying
         /\ (\A s \in Sender : HasSum(events, s))'
         /\ Ledger!ClosePeriod
<1> DEFINE e == EventData(t)
<1>1. events' = Append(events, e) /\ tally' = NoCounts /\ queue' = queue
  BY DEF UpdateSatellitePositions, RecordPeriod
<1>2. PICK S0 : events \in Seq(S0)
  BY DEF LedgerInv, PeriodsInv
<1> DEFINE S == S0 \cup {e}
<1>3. events \in Seq(S) /\ e \in S
  BY <1>2
<1>4. \A s \in Sender : CountsOf(e, s) = tally[s]
  <2> SUFFICES ASSUME NEW s \in Sender PROVE CountsOf(e, s) = tally[s]
    OBVIOUS
  <2>1. /\ DOMAIN e.paths = DOMAIN paths
        /\ s \in DOMAIN paths => e.paths[s].counts = tally[s]
    BY DEF EventData
  <2>2. CASE events = <<>>
    <3>1. tally[s] = NoCounts[s]
      BY <2>2 DEF LedgerInv
    <3> HIDE DEF e
    <3> QED BY <2>1, <3>1 DEF CountsOf
  <2>3. CASE events # <<>>
    <3>1. s \in DOMAIN paths
      BY <2>3 DEF LedgerInv, PeriodsInv
    <3> HIDE DEF e
    <3> QED BY <2>1, <3>1 DEF CountsOf
  <2> QED BY <2>2, <2>3
<1> HIDE DEF e, S
<1>5. \A s \in Sender :
        /\ HasSum(events', s)
        /\ SumOf(events', s) = [f \in Field |-> SumOf(events, s)[f] + tally[s][f]]
  <2> SUFFICES ASSUME NEW s \in Sender
               PROVE  /\ HasSum(events', s)
                      /\ SumOf(events', s) = [f \in Field |-> SumOf(events, s)[f] + tally[s][f]]
    OBVIOUS
  <2>1. HasSum(events, s)
    BY DEF LedgerInv
  <2>2. /\ HasSum(Append(events, e), s)
        /\ SumOf(Append(events, e), s)
             = [f \in Field |-> SumOf(events, s)[f] + CountsOf(e, s)[f]]
    BY <1>3, <2>1, SumGrows
  <2> QED BY <1>1, <1>4, <2>2
<1>6. \A s : ClosedBook(s) = SumOf(events, s) /\ ClosedBook(s)' = SumOf(events', s)
  <2>1. \A s : ClosedBook(s)' = SumOf(events', s)
    BY DEF ClosedBook, SumOf, IsSum, CountsOf
  <2> QED BY <2>1, ClosedBookIsSum
<1>7. Flying' = Flying
  BY <1>1 DEF Flying
<1>8. Ledger!ClosePeriod
  <2>1. [s \in Sender |-> ClosedBook(s)]'
          = [s \in Sender |-> [f \in Field |-> ClosedBook(s)[f] + tally[s][f]]]
    BY <1>5, <1>6
  <2>2. Ledger!NoCounts = NoCounts /\ Ledger!Field = Field
    BY DEF Ledger!NoCounts, Ledger!Field, Ledger!Fate, NoCounts, Field
  <2>3. \A s \in Sender : [r \in Sender |-> ClosedBook(r)][s] = ClosedBook(s)
    OBVIOUS
  <2> QED BY <1>1, <1>7, <2>1, <2>2, <2>3 DEF Ledger!ClosePeriod
<1>9. events' # <<>>
  BY <1>1, <1>3
<1> QED BY <1>1, <1>5, <1>7, <1>8, <1>9

(* Update leaves the creations as they are.                                 *)
LEMMA UpdateBooked ==
  ASSUME LedgerInv, Update
  PROVE  Distinct(queue') /\ (phase = "running" => CreationsAhead)' /\ Ledger!ClosePeriod
<1> DEFINE o == <<"update">>
           t == now'
           u == t + DeltaT
<1>1. /\ Take(o) /\ UpdateSatellitePositions(t) /\ agenda' = Push(Pop(agenda), At(u, o))
      /\ o \in Operation /\ \A s \in Sender : o # CreateOp(s)
  BY CreateOpFacts, OperationFacts DEF Update
<1>2. /\ NetInv /\ Distinct(queue) /\ now \in Nat /\ AgendaInv(agenda, now)
      /\ \A s \in Sender : Ahead(agenda, s, Flying)
  BY <1>1 DEF LedgerInv, ServedInv, NetInv, QueuesInv, CreationsAhead, Take
<1>3. queue' = queue /\ Flying' = Flying /\ Ledger!ClosePeriod
  BY <1>1, PeriodBooked
<1>4. t \in Nat /\ AgendaInv(Pop(agenda), t)
  BY <1>1, <1>2, TakeFacts DEF NetInv, QueuesInv
<1>5. u \in Nat /\ u >= t
  BY <1>4, Later, TimingFacts
<1>6. \A s \in Sender : Ahead(Pop(agenda), s, Flying)
  <2> HIDE DEF o
  <2> QED BY <1>1, <1>2, TakeAhead
<1> HIDE DEF o, t, u
<1>7. \A s \in Sender : Ahead(agenda', s, Flying)
  BY <1>1, <1>4, <1>5, <1>6, PushAhead
<1> QED BY <1>2, <1>3, <1>7 DEF CreationsAhead
LEMMA LedgerStep == LedgerInv /\ [Next]_vars => LedgerInv' /\ [Ledger!Next]_(Ledger!vars)
<1> SUFFICES ASSUME LedgerInv, [Next]_vars
             PROVE  LedgerInv' /\ [Ledger!Next]_(Ledger!vars)
  OBVIOUS
<1>0. ServedInv' /\ PeriodsInv'
  BY ServedStep, PeriodsStep DEF LedgerInv
<1> DEFINE Opened == events = <<>> => Fresh /\ tally = NoCounts
           Sums == \A s \in Sender : HasSum(events, s)
<1>1. ASSUME NEW s \in Sender, CreatePacket(s)
      PROVE  LedgerInv' /\ [Ledger!Next]_(Ledger!vars)
  <2>1. Take(CreateOp(s)) /\ CreateOp(s) # <<"update">> /\ UNCHANGED events
    BY <1>1, CreateOpFacts DEF CreatePacket, CreateOp
  <2>2. Opened' /\ Sums'
    BY <2>1, NothingClosed
  <2>3. /\ Distinct(queue') /\ (phase = "running" => CreationsAhead)'
        /\ \E p \in Ledger!Packets : Ledger!Create(p)
    BY <1>1, CreatePacketBooked
  <2>4. Ledger!Next
    BY <2>3 DEF Ledger!Next
  <2> QED BY <1>0, <2>2, <2>3, <2>4 DEF LedgerInv
<1>2. ASSUME NEW c \in Channel, DamagePacket(c)
      PROVE  LedgerInv' /\ [Ledger!Next]_(Ledger!vars)
  <2>1. Take(SendOp(c)) /\ SendOp(c) # <<"update">> /\ UNCHANGED events
    BY <1>2, SendOpFacts DEF DamagePacket, SendOp
  <2>2. Opened' /\ Sums'
    BY <2>1, NothingClosed
  <2>3. /\ Distinct(queue') /\ (phase = "running" => CreationsAhead)'
        /\ \E p \in Flying : Ledger!End(p, "damaged")
    BY <1>2, DamagePacketBooked
  <2>4. Ledger!Next
    BY <2>3 DEF Ledger!Next, Ledger!Fate
  <2> QED BY <1>0, <2>2, <2>3, <2>4 DEF LedgerInv
<1>3. ASSUME NEW c \in Channel, PassPacket(c)
      PROVE  LedgerInv' /\ [Ledger!Next]_(Ledger!vars)
  <2>1. Take(SendOp(c)) /\ SendOp(c) # <<"update">> /\ UNCHANGED events
    BY <1>3, SendOpFacts DEF PassPacket, SendOp
  <2>2. Opened' /\ Sums'
    BY <2>1, NothingClosed
  <2>3. /\ Distinct(queue') /\ (phase = "running" => CreationsAhead)'
        /\ \/ \E p \in Flying, fate \in Ledger!Fate : Ledger!End(p, fate)
           \/ UNCHANGED Ledger!vars
    BY <1>3, PassPacketBooked
  <2>4. [Ledger!Next]_(Ledger!vars)
    BY <2>3 DEF Ledger!Next
  <2> QED BY <1>0, <2>2, <2>3, <2>4 DEF LedgerInv
<1>4. CASE Update
  <2>1. Distinct(queue') /\ (phase = "running" => CreationsAhead)' /\ Ledger!ClosePeriod
    BY <1>4, UpdateBooked
  <2>2. events' # <<>> /\ Sums'
    BY <1>4, PeriodBooked DEF Update
  <2> QED BY <1>0, <2>1, <2>2 DEF LedgerInv, Ledger!Next
<1>5. CASE Stop
  <2>1. Take(<<"stop">>) /\ <<"stop">> # <<"update">> /\ UNCHANGED <<queue, tally, events>>
        /\ phase' = "stopped"
    BY <1>5 DEF Stop, bookVars
  <2>2. Opened' /\ Sums' /\ UNCHANGED [s \in Sender |-> ClosedBook(s)]
    BY <2>1, NothingClosed
  <2>3. UNCHANGED Ledger!vars
    BY <2>1, <2>2 DEF Ledger!vars, Flying
  <2> QED BY <1>0, <2>1, <2>2, <2>3 DEF LedgerInv
<1>6. CASE Finish
  <2>1. UpdateSatellitePositions(now) /\ phase' = "done"
    BY <1>6 DEF Finish
  <2>2. queue' = queue /\ events' # <<>> /\ Sums' /\ Ledger!ClosePeriod
    BY <2>1, PeriodBooked
  <2> QED BY <1>0, <2>1, <2>2 DEF LedgerInv, Ledger!Next
<1>7. CASE UNCHANGED vars
  <2>1. UNCHANGED <<queue, tally, events, phase, agenda>>
    BY <1>7 DEF vars, bookVars
  <2>2. \A s : ClosedBook(s)' = ClosedBook(s)
    BY <2>1 DEF ClosedBook
  <2>3. UNCHANGED Ledger!vars
    BY <2>1, <2>2 DEF Ledger!vars, Flying
  <2>4. Flying' = Flying
    BY <2>1 DEF Flying
  <2>5. Opened' /\ Sums' /\ Distinct(queue') /\ (phase = "running" => CreationsAhead)'
    BY <2>1, <2>4 DEF LedgerInv, Fresh, CreationsAhead
  <2> QED BY <1>0, <2>3, <2>5 DEF LedgerInv
<1> QED BY <1>1, <1>2, <1>3, <1>4, <1>5, <1>6, <1>7 DEF Next

(* data.PathData: every packet that is created ends with one of the four    *)
(* fates, counted once, in the period in which it ends, however packets,    *)
(* corruption and re-routing interleave; nothing else touches the counts.   *)
THEOREM KeepsLedger == Spec => LedgerSpec
<1>1. Spec => Ledger!Init /\ [][Ledger!Next]_(Ledger!vars)
  BY LedgerInit, LedgerStep, PTL DEF Spec
<1> QED BY <1>1, PTL DEF LedgerSpec, Ledger!Spec
-----------------------------------------------------------------------------
(* The ledger balances: what a step of it does to the counts it does to the *)
(* packets on their way.                                                    *)
Mine(F, s) == {p \in F : p.sender = s}

Archive == [s \in Sender |-> ClosedBook(s)]

BalanceInv ==
  /\ IsFiniteSet(Flying)
  /\ tally \in [Sender -> [Field -> Nat]]
  /\ Archive \in [Sender -> [Field -> Nat]]
  /\ Balanced

BalancedFor(s) ==
  Archive[s]["created"] + tally[s]["created"]
    = (Archive[s]["good"] + tally[s]["good"]) + (Archive[s]["late"] + tally[s]["late"])
      + (Archive[s]["damaged"] + tally[s]["damaged"])
      + (Archive[s]["dropped"] + tally[s]["dropped"]) + Cardinality(Mine(Flying, s))

LEMMA BalancedIs == Balanced <=> \A s \in Sender : BalancedFor(s)
<1>1. \A s \in Sender : \A f : Ledger!Total(s, f) = Archive[s][f] + tally[s][f]
  BY DEF Ledger!Total, Archive
<1>2. \A s : Mine(Flying, s) = {p \in Flying : p.sender = s}
  BY DEF Mine
<1>3. Balanced <=>
        \A s \in Sender :
          Ledger!Total(s, "created")
            = Ledger!Total(s, "good") + Ledger!Total(s, "late") + Ledger!Total(s, "damaged")
              + Ledger!Total(s, "dropped") + Cardinality({p \in Flying : p.sender = s})
  <2>1. \A S : Ledger!Cardinality(S) = Cardinality(S)
    BY DEF Ledger!Cardinality, Cardinality
  <2> QED BY <2>1 DEF Balanced, Ledger!Balanced
<1>4. Balanced <=>
        \A s \in Sender :
          Ledger!Total(s, "created")
            = Ledger!Total(s, "good") + Ledger!Total(s, "late") + Ledger!Total(s, "damaged")
              + Ledger!Total(s, "dropped") + Cardinality(Mine(Flying, s))
  BY <1>2, <1>3
<1> QED BY <1>1, <1>4 DEF BalancedFor

LEMMA MineFinite ==
  ASSUME NEW F, IsFiniteSet(F), NEW s
  PROVE  IsFiniteSet(Mine(F, s)) /\ Cardinality(Mine(F, s)) \in Nat
<1>1. Mine(F, s) \subseteq F
  BY DEF Mine
<1> QED BY <1>1, FS_Subset, FS_CardinalityType

LEMMA CreateBalances ==
  ASSUME BalanceInv, NEW p \in Ledger!Packets, Ledger!Create(p)
  PROVE  BalanceInv'
<1>1. /\ p \notin Flying /\ Flying' = Flying \cup {p} /\ Archive' = Archive
      /\ tally' = [tally EXCEPT ![p.sender]["created"] = @ + 1]
  BY DEF Ledger!Create, Archive
<1>2. p.sender \in Sender
  BY DEF Ledger!Packets
<1>3. IsFiniteSet(Flying')
  BY <1>1, FS_AddElement DEF BalanceInv
<1>4. tally' \in [Sender -> [Field -> Nat]]
  <2> DEFINE r == p.sender
  <2> HIDE DEF r
  <2> QED BY <1>1, <1>2 DEF BalanceInv, Field, r
<1>5. ASSUME NEW s \in Sender
      PROVE  /\ tally'[s]["created"] = IF s = p.sender THEN tally[s]["created"] + 1
                                                      ELSE tally[s]["created"]
             /\ \A f \in Ledger!Fate : tally'[s][f] = tally[s][f]
             /\ Cardinality(Mine(Flying', s))
                  = IF s = p.sender THEN Cardinality(Mine(Flying, s)) + 1
                                    ELSE Cardinality(Mine(Flying, s))
  <2> DEFINE r == p.sender
  <2>1. tally' = [tally EXCEPT ![r]["created"] = @ + 1] /\ r \in Sender
    BY <1>1, <1>2
  <2> HIDE DEF r
  <2>2. /\ tally'[s]["created"] = IF s = r THEN tally[s]["created"] + 1
                                           ELSE tally[s]["created"]
        /\ \A f \in Ledger!Fate : tally'[s][f] = tally[s][f]
    BY <2>1 DEF BalanceInv, Field, Ledger!Fate
  <2>3. CASE s = r
    <3>1. Mine(Flying', s) = Mine(Flying, s) \cup {p} /\ p \notin Mine(Flying, s)
      BY <1>1, <2>3 DEF Mine, r
    <3>2. Cardinality(Mine(Flying', s)) = Cardinality(Mine(Flying, s)) + 1
      BY <3>1, MineFinite, FS_AddElement DEF BalanceInv
    <3> QED BY <2>2, <2>3, <3>2 DEF r
  <2>4. CASE s # r
    <3>1. Mine(Flying', s) = Mine(Flying, s)
      BY <1>1, <2>4 DEF Mine, r
    <3> QED BY <2>2, <2>4, <3>1 DEF r
  <2> QED BY <2>3, <2>4
<1>6. ASSUME NEW s \in Sender PROVE BalancedFor(s)'
  <2> DEFINE T(f) == Archive[s][f] + tally[s][f]
             n == Cardinality(Mine(Flying, s))
  <2>1. T("created") = T("good") + T("late") + T("damaged") + T("dropped") + n
    BY BalancedIs DEF BalanceInv, BalancedFor
  <2>2. /\ \A f \in Field : Archive[s][f] \in Nat /\ tally[s][f] \in Nat
        /\ n \in Nat
    BY MineFinite DEF BalanceInv
  <2>3. \A f \in Ledger!Fate : Archive'[s][f] + tally'[s][f] = T(f)
    BY <1>1, <1>5
  <2>4. \A f \in {"good", "late", "damaged", "dropped"} : f \in Ledger!Fate /\ f \in Field
    BY DEF Ledger!Fate, Field
  <2>5. Archive'[s]["created"] + tally'[s]["created"]
          = (IF s = p.sender THEN T("created") + 1 ELSE T("created"))
    <3>1. Archive[s]["created"] \in Nat /\ tally[s]["created"] \in Nat
      BY <2>2 DEF Field
    <3> QED BY <1>1, <1>5, <3>1
  <2>6. \A f \in Field : T(f) \in Nat
    BY <2>2
  <2>7. "created" \in Field
    BY DEF Field
  <2> HIDE DEF T, n
  <2> QED BY <1>5, <2>1, <2>2, <2>3, <2>4, <2>5, <2>6, <2>7 DEF n, BalancedFor
<1>7. Balanced'
  <2>1. (\A s \in Sender : BalancedFor(s))'
    BY <1>6
  <2> QED BY <2>1, BalancedIs, PTL
<1> QED BY <1>1, <1>3, <1>4, <1>7 DEF BalanceInv
LEMMA EndBalances ==
  ASSUME BalanceInv, NEW p \in Flying, p.sender \in Sender, NEW fate \in Ledger!Fate,
         Ledger!End(p, fate)
  PROVE  BalanceInv'
<1>1. /\ Flying' = Flying \ {p} /\ Archive' = Archive
      /\ tally' = [tally EXCEPT ![p.sender][fate] = @ + 1]
  BY DEF Ledger!End, Archive
<1>2. IsFiniteSet(Flying')
  BY <1>1, FS_RemoveElement DEF BalanceInv
<1>3. fate \in Field /\ fate # "created"
  BY DEF Ledger!Fate, Field
<1>4. tally' \in [Sender -> [Field -> Nat]]
  <2> DEFINE r == p.sender
  <2> HIDE DEF r
  <2> QED BY <1>1, <1>3 DEF BalanceInv, r
<1>5. ASSUME NEW s \in Sender
      PROVE  /\ \A f \in Field : tally'[s][f] = IF s = p.sender /\ f = fate THEN tally[s][f] + 1
                                                                         ELSE tally[s][f]
             /\ Cardinality(Mine(Flying', s))
                  = IF s = p.sender THEN Cardinality(Mine(Flying, s)) - 1
                                    ELSE Cardinality(Mine(Flying, s))
  <2> DEFINE r == p.sender
  <2>1. tally' = [tally EXCEPT ![r][fate] = @ + 1] /\ r \in Sender
    BY <1>1
  <2> HIDE DEF r
  <2>2. \A f \in Field : tally'[s][f] = IF s = r /\ f = fate THEN tally[s][f] + 1
                                                          ELSE tally[s][f]
    BY <1>3, <2>1 DEF BalanceInv
  <2>3. CASE s = r
    <3>1. Mine(Flying', s) = Mine(Flying, s) \ {p} /\ p \in Mine(Flying, s)
      BY <1>1, <2>3 DEF Mine, r
    <3>2. Cardinality(Mine(Flying', s)) = Cardinality(Mine(Flying, s)) - 1
      <4>1. IsFiniteSet(Mine(Flying, s))
        BY MineFinite DEF BalanceInv
      <4> QED BY <3>1, <4>1, FS_RemoveElement, ZenonT(30)
    <3> QED BY <2>2, <2>3, <3>2 DEF r
  <2>4. CASE s # r
    <3>1. Mine(Flying', s) = Mine(Flying, s)
      BY <1>1, <2>4 DEF Mine, r
    <3> QED BY <2>2, <2>4, <3>1 DEF r
  <2> QED BY <2>3, <2>4
<1>6. ASSUME NEW s \in Sender PROVE BalancedFor(s)'
  <2> DEFINE T(f) == Archive[s][f] + tally[s][f]
             U(f) == Archive'[s][f] + tally'[s][f]
             n == Cardinality(Mine(Flying, s))
             m == Cardinality(Mine(Flying', s))
  <2>1. T("created") = T("good") + T("late") + T("damaged") + T("dropped") + n
    BY BalancedIs DEF BalanceInv, BalancedFor
  <2>2. \A f \in Field : Archive[s][f] \in Nat /\ tally[s][f] \in Nat /\ T(f) \in Nat
    BY DEF BalanceInv
  <2>3. \A f \in Field : U(f) = IF s = p.sender /\ f = fate THEN T(f) + 1 ELSE T(f)
    BY <1>1, <1>5, <2>2
  <2>4. n \in Nat /\ m = IF s = p.sender THEN n - 1 ELSE n
    BY <1>5, MineFinite DEF BalanceInv
  <2>5. \A f \in {"created", "good", "late", "damaged", "dropped"} : f \in Field
    BY DEF Field
  <2>6. fate \in {"good", "late", "damaged", "dropped"}
    BY DEF Ledger!Fate
  <2>7. U("created") = U("good") + U("late") + U("damaged") + U("dropped") + m
    <3> HIDE DEF T, U, n, m
    <3>1. T("created") \in Nat /\ T("good") \in Nat /\ T("late") \in Nat
          /\ T("damaged") \in Nat /\ T("dropped") \in Nat
      BY <2>2, <2>5
    <3>2. U("created") = T("created")
      BY <1>3, <2>3, <2>5
    <3>3. CASE s # p.sender
      <4>1. \A f \in Field : U(f) = T(f)
        BY <2>3, <3>3
      <4>2. m = n
        BY <2>4, <3>3
      <4> QED BY <2>1, <2>5, <4>1, <4>2
    <3>4. CASE s = p.sender
      <4>1. /\ U(fate) = T(fate) + 1
            /\ \A f \in Field : f # fate => U(f) = T(f)
        BY <1>3, <2>3, <3>4
      <4>2. m = n - 1
        BY <2>4, <3>4
      <4>3. CASE fate = "good"
        BY <2>1, <2>4, <2>5, <3>1, <3>2, <4>1, <4>2, <4>3
      <4>4. CASE fate = "late"
        BY <2>1, <2>4, <2>5, <3>1, <3>2, <4>1, <4>2, <4>4
      <4>5. CASE fate = "damaged"
        BY <2>1, <2>4, <2>5, <3>1, <3>2, <4>1, <4>2, <4>5
      <4>6. CASE fate = "dropped"
        BY <2>1, <2>4, <2>5, <3>1, <3>2, <4>1, <4>2, <4>6
      <4> QED BY <2>6, <4>3, <4>4, <4>5, <4>6
    <3> QED BY <3>3, <3>4
  <2> QED BY <2>7 DEF BalancedFor
<1>7. Balanced'
  <2>1. (\A s \in Sender : BalancedFor(s))'
    BY <1>6
  <2> QED BY <2>1, BalancedIs, PTL
<1> QED BY <1>1, <1>2, <1>4, <1>7 DEF BalanceInv

LEMMA CloseBalances ==
  ASSUME BalanceInv, Ledger!ClosePeriod
  PROVE  BalanceInv'
<1>1. /\ Flying' = Flying /\ tally' = NoCounts
      /\ Archive' = [s \in Sender |-> [f \in Field |-> Archive[s][f] + tally[s][f]]]
  BY DEF Ledger!ClosePeriod, Archive, Ledger!NoCounts, Ledger!Field, Ledger!Fate,
         NoCounts, Field
<1>2. /\ Archive \in [Sender -> [Field -> Nat]] /\ tally \in [Sender -> [Field -> Nat]]
  BY DEF BalanceInv
<1>3. /\ Archive' \in [Sender -> [Field -> Nat]] /\ tally' \in [Sender -> [Field -> Nat]]
  <2>1. Archive' \in [Sender -> [Field -> Nat]]
    BY <1>1, <1>2
  <2>2. tally' \in [Sender -> [Field -> Nat]]
    BY <1>1 DEF NoCounts
  <2> QED BY <2>1, <2>2
<1>4. ASSUME NEW s \in Sender, NEW f \in Field
      PROVE  Archive'[s][f] + tally'[s][f] = Archive[s][f] + tally[s][f]
  <2>1. tally'[s][f] = 0 /\ Archive'[s][f] = Archive[s][f] + tally[s][f]
    BY <1>1 DEF NoCounts
  <2>2. Archive[s][f] \in Nat /\ tally[s][f] \in Nat
    BY <1>2
  <2> QED BY <2>1, <2>2
<1>5. ASSUME NEW s \in Sender PROVE BalancedFor(s)'
  <2>1. BalancedFor(s)
    BY BalancedIs DEF BalanceInv
  <2>2. \A f \in {"created", "good", "late", "damaged", "dropped"} : f \in Field
    BY DEF Field
  <2>3. \A f \in {"created", "good", "late", "damaged", "dropped"} :
          Archive'[s][f] + tally'[s][f] = Archive[s][f] + tally[s][f]
    BY <1>4, <2>2
  <2> QED BY <1>1, <2>1, <2>3 DEF BalancedFor
<1>6. Balanced'
  <2>1. (\A s \in Sender : BalancedFor(s))'
    BY <1>5
  <2> QED BY <2>1, BalancedIs, PTL
<1> QED BY <1>1, <1>3, <1>6 DEF BalanceInv
LEMMA BalanceInit == Init => BalanceInv
<1> SUFFICES ASSUME Init PROVE BalanceInv
  OBVIOUS
<1>1. Flying = {} /\ tally = NoCounts /\ Archive = NoCounts
  BY LedgerInit DEF Ledger!Init, Archive, Ledger!NoCounts, Ledger!Field, Ledger!Fate,
                   NoCounts, Field
<1>2. IsFiniteSet(Flying)
  BY <1>1, FS_EmptySet
<1>3. NoCounts \in [Sender -> [Field -> Nat]]
  BY DEF NoCounts
<1>4. \A s \in Sender : BalancedFor(s)
  <2> SUFFICES ASSUME NEW s \in Sender PROVE BalancedFor(s)
    OBVIOUS
  <2>1. Mine(Flying, s) = {}
    BY <1>1 DEF Mine
  <2>2. Cardinality(Mine(Flying, s)) = 0
    BY <2>1, FS_EmptySet
  <2>3. \A f \in {"created", "good", "late", "damaged", "dropped"} :
          Archive[s][f] = 0 /\ tally[s][f] = 0
    BY <1>1 DEF NoCounts, Field
  <2> QED BY <2>2, <2>3 DEF BalancedFor
<1> QED BY <1>1, <1>2, <1>3, <1>4, BalancedIs DEF BalanceInv

LEMMA BalanceStep == LedgerInv /\ BalanceInv /\ [Next]_vars => BalanceInv'
<1> SUFFICES ASSUME LedgerInv, BalanceInv, [Next]_vars PROVE BalanceInv'
  OBVIOUS
<1>1. [Ledger!Next]_(Ledger!vars)
  BY LedgerStep
<1>2. ASSUME NEW p \in Ledger!Packets, Ledger!Create(p) PROVE BalanceInv'
  BY <1>2, CreateBalances
<1>3. ASSUME NEW p \in Flying, NEW fate \in Ledger!Fate, Ledger!End(p, fate) PROVE BalanceInv'
  <2>1. QueuesTyped(queue, now)
    BY DEF LedgerInv, ServedInv, NetInv, QueuesInv
  <2>2. p.sender \in Sender
    BY <2>1, FlyingTyped, FlyingNow DEF PacketUpTo
  <2> QED BY <1>3, <2>2, EndBalances
<1>4. CASE Ledger!ClosePeriod
  BY <1>4, CloseBalances
<1>5. CASE UNCHANGED Ledger!vars
  <2>1. Flying' = Flying /\ tally' = tally /\ Archive' = Archive
    BY <1>5 DEF Ledger!vars, Archive
  <2>2. \A s : BalancedFor(s)' <=> BalancedFor(s)
    BY <2>1 DEF BalancedFor
  <2>3. (\A s \in Sender : BalancedFor(s))'
    BY <2>2, BalancedIs DEF BalanceInv
  <2>4. Balanced'
    BY <2>3, BalancedIs, PTL
  <2> QED BY <2>1, <2>4 DEF BalanceInv
<1> QED BY <1>1, <1>2, <1>3, <1>4, <1>5 DEF Ledger!Next

(* OutputData: at any time, in the middle of a period too, the packets of a *)
(* sender that were created are those that were counted with one of the     *)
(* fates and those in the queues.                                           *)
THEOREM BooksBalance == Spec => []Balanced
<1>1. Init => LedgerInv /\ BalanceInv
  BY LedgerInit, BalanceInit
<1>2. LedgerInv /\ BalanceInv /\ [Next]_vars => (LedgerInv /\ BalanceInv)'
  BY LedgerStep, BalanceStep
<1>3. BalanceInv => Balanced
  BY DEF BalanceInv
<1> QED BY <1>1, <1>2, <1>3, PTL DEF Spec
=============================================================================
