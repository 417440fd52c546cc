--------------------------- MODULE GoBackN_proofs ---------------------------
(***************************************************************************)
(* What an agent receives is in order, and what it has given up was        *)
(* received, whatever the size of the window and whatever is lost,         *)
(* connected and disconnected.                                             *)
(***************************************************************************)
EXTENDS GoBackN, SequenceTheorems, FiniteSetTheorems, TLAPS

Packet == [flags : {"SYN", "SYN+ACK", "ACK", "FIN", "none"}, seq : Nat, ack : Nat, port : {1, 2}]

IsData(p) == p.flags = "none"

-----------------------------------------------------------------------------
(* One direction: the packets on the wire, those received, and the number   *)
(* below which packets have been transmitted.                               *)
InOrder(w, r, upto) ==
  /\ \A i \in 1 .. Len(w) : IsData(w[i]) => w[i].seq < upto
  /\ \A i, j \in 1 .. Len(w) : i < j /\ IsData(w[i]) /\ IsData(w[j]) => w[i].seq < w[j].seq
  /\ \A i \in 1 .. Len(r) : r[i] < upto
  /\ \A i, j \in 1 .. Len(r) : i < j => r[i] < r[j]
  /\ \A i \in 1 .. Len(r), j \in 1 .. Len(w) : IsData(w[j]) => r[i] < w[j].seq

Direction(w, r, upto) ==
  w \in Seq(Packet) /\ r \in Seq(Nat) /\ upto \in Nat /\ InOrder(w, r, upto)

LEMMA DirectionTypes ==
  ASSUME NEW w, NEW r, NEW upto, Direction(w, r, upto)
  PROVE  /\ w \in Seq(Packet) /\ r \in Seq(Nat) /\ upto \in Nat
         /\ Len(w) \in Nat /\ \A i \in 1 .. Len(w) : w[i] \in Packet /\ w[i].seq \in Nat
         /\ Len(r) \in Nat /\ \A i \in 1 .. Len(r) : r[i] \in Nat
<1>1. w \in Seq(Packet) /\ r \in Seq(Nat) /\ upto \in Nat
  BY DEF Direction
<1>2. \A i \in 1 .. Len(w) : w[i] \in Packet
  BY <1>1, ElementOfSeq
<1>3. \A p \in Packet : p.seq \in Nat
  BY DEF Packet
<1>4. \A i \in 1 .. Len(r) : r[i] \in Nat
  BY <1>1, ElementOfSeq
<1> QED BY <1>1, <1>2, <1>3, <1>4

(* A packet that carries no data changes nothing of the order.              *)
LEMMA AddControl ==
  ASSUME NEW w, NEW r, NEW upto, Direction(w, r, upto), NEW p \in Packet, ~IsData(p)
  PROVE  Direction(Append(w, p), r, upto)
<1> DEFINE v == Append(w, p)
<1>1. /\ w \in Seq(Packet) /\ v \in Seq(Packet) /\ Len(w) \in Nat /\ Len(v) = Len(w) + 1
      /\ v[Len(w) + 1] = p /\ \A i \in 1 .. Len(w) : v[i] = w[i]
  BY DEF Direction
<1>2. \A i \in 1 .. Len(v) : IsData(v[i]) => i \in 1 .. Len(w) /\ v[i] = w[i]
  BY <1>1
<1> HIDE DEF v
<1> QED BY <1>1, <1>2, SMTT(30) DEF Direction, InOrder

LEMMA AddData ==
  ASSUME NEW w, NEW r, NEW upto, Direction(w, r, upto),
         NEW p \in Packet, IsData(p), p.seq = upto
  PROVE  Direction(Append(w, p), r, upto + 1)
<1> DEFINE v == Append(w, p)
<1>1. /\ w \in Seq(Packet) /\ r \in Seq(Nat) /\ upto \in Nat
      /\ Len(w) \in Nat /\ \A i \in 1 .. Len(w) : w[i] \in Packet /\ w[i].seq \in Nat
      /\ Len(r) \in Nat /\ \A i \in 1 .. Len(r) : r[i] \in Nat
  BY DirectionTypes
<1>2. v \in Seq(Packet) /\ Len(v) = Len(w) + 1 /\ v[Len(w) + 1] = p /\ \A i \in 1 .. Len(w) : v[i] = w[i]
  BY <1>1, AppendProperties
<1> HIDE DEF v
<1>3. \A i \in 1 .. Len(v) : (i = Len(w) + 1 /\ v[i] = p) \/ (i \in 1 .. Len(w) /\ v[i] = w[i])
  BY <1>1, <1>2
<1>4. InOrder(w, r, upto)
  BY DEF Direction
<1>5. \A i \in 1 .. Len(v) : IsData(v[i]) => v[i].seq < upto + 1
  <2> SUFFICES ASSUME NEW i \in 1 .. Len(v), IsData(v[i]) PROVE v[i].seq < upto + 1
    OBVIOUS
  <2>1. CASE v[i] = p
    BY <1>1, <2>1
  <2>2. CASE i \in 1 .. Len(w) /\ v[i] = w[i]
    BY <1>1, <1>4, <2>2 DEF InOrder
  <2> QED BY <1>3, <2>1, <2>2
<1>6. ASSUME NEW i \in 1 .. Len(v), NEW j \in 1 .. Len(v), i < j, IsData(v[i]), IsData(v[j])
      PROVE  v[i].seq < v[j].seq
  <2>1. i \in 1 .. Len(w) /\ v[i] = w[i]
    BY <1>1, <1>2, <1>3, <1>6
  <2>2. CASE v[j] = p
    BY <1>4, <1>6, <2>1, <2>2 DEF InOrder
  <2>3. CASE j \in 1 .. Len(w) /\ v[j] = w[j]
    BY <1>4, <1>6, <2>1, <2>3 DEF InOrder
  <2> QED BY <1>3, <2>2, <2>3
<1>7. \A i \in 1 .. Len(r) : r[i] < upto + 1
  BY <1>1, <1>4 DEF InOrder
<1>8. ASSUME NEW i \in 1 .. Len(r), NEW j \in 1 .. Len(v), IsData(v[j])
      PROVE  r[i] < v[j].seq
  <2>1. CASE v[j] = p
    BY <1>4, <2>1 DEF InOrder
  <2>2. CASE j \in 1 .. Len(w) /\ v[j] = w[j]
    BY <1>4, <1>8, <2>2 DEF InOrder
  <2> QED BY <1>3, <2>1, <2>2
<1>9. InOrder(v, r, upto + 1)
  BY <1>4, <1>5, <1>6, <1>7, <1>8 DEF InOrder
<1> QED BY <1>1, <1>2, <1>9 DEF Direction, v

LEMMA TailFacts ==
  ASSUME NEW w \in Seq(Packet), w # <<>>
  PROVE  /\ Tail(w) \in Seq(Packet) /\ Head(w) \in Packet /\ Head(w) = w[1]
         /\ Len(Tail(w)) \in Nat /\ 1 \in 1 .. Len(w)
         /\ \A i \in 1 .. Len(Tail(w)) : Tail(w)[i] = w[i + 1] /\ i + 1 \in 1 .. Len(w)
<1>1. Len(w) \in Nat /\ Len(w) # 0
  BY EmptySeq, LenProperties
<1>2. /\ Tail(w) \in Seq(Packet) /\ Head(w) \in Packet /\ Len(Tail(w)) = Len(w) - 1
      /\ \A i \in 1 .. Len(Tail(w)) : Tail(w)[i] = w[i + 1]
  BY HeadTailProperties
<1>3. Head(w) = w[1]
  OBVIOUS
<1> QED BY <1>1, <1>2, <1>3

LEMMA TakeFirst ==
  ASSUME NEW w, NEW r, NEW upto, Direction(w, r, upto), w # <<>>
  PROVE  Direction(Tail(w), r, upto)
<1> DEFINE v == Tail(w)
<1>1. /\ v \in Seq(Packet) /\ Len(v) \in Nat
      /\ \A i \in 1 .. Len(v) : v[i] = w[i + 1] /\ i + 1 \in 1 .. Len(w)
  BY TailFacts DEF Direction
<1> HIDE DEF v
<1>2. \A i, j \in 1 .. Len(v) : i < j => i + 1 < j + 1
  BY <1>1
<1> QED BY <1>1, <1>2 DEF Direction, InOrder, v

LEMMA Deliver ==
  ASSUME NEW w, NEW r, NEW upto, Direction(w, r, upto), w # <<>>, IsData(Head(w))
  PROVE  Direction(Tail(w), Append(r, Head(w).seq), upto)
<1> DEFINE p == Head(w)
           v == Tail(w)
           s == Append(r, p.seq)
<1>1. /\ v \in Seq(Packet) /\ Len(v) \in Nat /\ p \in Packet /\ p = w[1] /\ 1 \in 1 .. Len(w)
      /\ \A i \in 1 .. Len(v) : v[i] = w[i + 1] /\ i + 1 \in 1 .. Len(w)
  BY TailFacts DEF Direction
<1>2. Direction(v, r, upto) /\ r \in Seq(Nat) /\ Len(r) \in Nat /\ upto \in Nat /\ p.seq \in Nat
  BY <1>1, TakeFirst, DirectionTypes DEF Packet
<1>3. InOrder(w, r, upto) /\ InOrder(v, r, upto)
  BY <1>2 DEF Direction
<1>4. IsData(p)
  OBVIOUS
<1> HIDE DEF v, p
<1>5. p.seq < upto /\ \A i \in 1 .. Len(r) : r[i] < p.seq
  BY <1>1, <1>3, <1>4 DEF InOrder
<1>6. ASSUME NEW j \in 1 .. Len(v), IsData(v[j]) PROVE p.seq < v[j].seq
  <2>1. 1 < j + 1 /\ j + 1 \in 1 .. Len(w) /\ v[j] = w[j + 1]
    BY <1>1
  <2> QED BY <1>1, <1>3, <1>4, <1>6, <2>1 DEF InOrder
<1>7. s \in Seq(Nat) /\ Len(s) = Len(r) + 1 /\ s[Len(r) + 1] = p.seq /\ \A i \in 1 .. Len(r) : s[i] = r[i]
  BY <1>2, AppendProperties
<1> HIDE DEF s
<1>8. \A i \in 1 .. Len(s) : (i = Len(r) + 1 /\ s[i] = p.seq) \/ (i \in 1 .. Len(r) /\ s[i] = r[i])
  BY <1>2, <1>7, SMTT(30)
<1>9. \A i \in 1 .. Len(s) : s[i] < upto
  BY <1>3, <1>5, <1>8 DEF InOrder
<1>10. ASSUME NEW i \in 1 .. Len(s), NEW j \in 1 .. Len(s), i < j PROVE s[i] < s[j]
  <2>1. i \in 1 .. Len(r) /\ s[i] = r[i]
    <3>1. i # Len(r) + 1
      BY <1>2, <1>7, <1>10
    <3> QED BY <1>8, <3>1
  <2>2. CASE s[j] = p.seq
    BY <1>5, <2>1, <2>2
  <2>3. CASE j \in 1 .. Len(r) /\ s[j] = r[j]
    BY <1>3, <1>10, <2>1, <2>3 DEF InOrder
  <2> QED BY <1>8, <2>2, <2>3
<1>11. ASSUME NEW i \in 1 .. Len(s), NEW j \in 1 .. Len(v), IsData(v[j]) PROVE s[i] < v[j].seq
  <2>1. CASE s[i] = p.seq
    BY <1>6, <1>11, <2>1
  <2>2. CASE i \in 1 .. Len(r) /\ s[i] = r[i]
    BY <1>3, <1>11, <2>2 DEF InOrder
  <2> QED BY <1>8, <2>1, <2>2
<1>12. InOrder(v, s, upto)
  BY <1>3, <1>9, <1>10, <1>11 DEF InOrder
<1> QED BY <1>1, <1>2, <1>7, <1>12 DEF Direction, p, v, s

LEMMA More ==
  ASSUME NEW w, NEW r, NEW upto, Direction(w, r, upto)
  PROVE  Direction(w, r, upto + 1)
<1>1. /\ w \in Seq(Packet) /\ r \in Seq(Nat) /\ upto \in Nat
      /\ \A i \in 1 .. Len(w) : w[i].seq \in Nat
      /\ \A i \in 1 .. Len(r) : r[i] \in Nat
  BY DirectionTypes
<1>2. InOrder(w, r, upto)
  BY DEF Direction
<1>3. \A i \in 1 .. Len(w) : IsData(w[i]) => w[i].seq < upto + 1
  BY <1>1, <1>2 DEF InOrder
<1>4. \A i \in 1 .. Len(r) : r[i] < upto + 1
  BY <1>1, <1>2 DEF InOrder
<1> QED BY <1>1, <1>2, <1>3, <1>4 DEF Direction, InOrder

-----------------------------------------------------------------------------
(* A sender: what waits in its array are the last packets it has numbered,  *)
(* and the window has come to the upto-th.                                  *)
Upto(a, sd, wp) == sd - Len(a) + wp

Numbered(a, sd, wp) ==
  /\ a \in Seq(Nat) /\ sd \in Nat /\ wp \in Nat
  /\ wp <= Len(a) /\ Len(a) <= sd
  /\ \A i \in 1 .. Len(a) : a[i] = sd - Len(a) + i - 1

LEMMA AddNumber ==
  ASSUME NEW a, NEW sd, NEW wp, Numbered(a, sd, wp)
  PROVE  Numbered(Append(a, sd), sd + 1, wp) /\ Upto(Append(a, sd), sd + 1, wp) = Upto(a, sd, wp)
<1> DEFINE b == Append(a, sd)
<1>1. a \in Seq(Nat) /\ sd \in Nat /\ wp \in Nat /\ Len(a) \in Nat
  BY LenProperties DEF Numbered
<1>2. b \in Seq(Nat) /\ Len(b) = Len(a) + 1 /\ b[Len(a) + 1] = sd /\ \A i \in 1 .. Len(a) : b[i] = a[i]
  BY <1>1, AppendProperties
<1> HIDE DEF b
<1>3. ASSUME NEW i \in 1 .. Len(b) PROVE b[i] = sd + 1 - Len(b) + i - 1
  <2>1. CASE i = Len(a) + 1
    BY <1>1, <1>2, <2>1
  <2>2. CASE i \in 1 .. Len(a)
    BY <1>1, <1>2, <2>2 DEF Numbered
  <2> QED BY <1>1, <1>2, <2>1, <2>2
<1> QED BY <1>1, <1>2, <1>3 DEF Numbered, Upto, b

(* An acknowledgement may come when the window is at the start.             *)
LEMMA RemoveNumber ==
  ASSUME NEW a, NEW sd, NEW wp, Numbered(a, sd, wp), a # <<>>,
         NEW k, k = IF wp > 0 THEN wp - 1 ELSE wp
  PROVE  /\ Numbered(Tail(a), sd, k)
         /\ Upto(Tail(a), sd, k) \in {Upto(a, sd, wp), Upto(a, sd, wp) + 1}
<1> DEFINE b == Tail(a)
<1>1. a \in Seq(Nat) /\ sd \in Nat /\ wp \in Nat /\ Len(a) \in Nat \ {0} /\ wp <= Len(a) /\ Len(a) <= sd
  BY EmptySeq DEF Numbered
<1>2. b \in Seq(Nat) /\ Len(b) = Len(a) - 1 /\ \A i \in 1 .. Len(b) : b[i] = a[i + 1]
  BY <1>1, HeadTailProperties
<1> HIDE DEF b
<1>3. ASSUME NEW i \in 1 .. Len(b) PROVE b[i] = sd - Len(b) + i - 1
  <2>1. i + 1 \in 1 .. Len(a) /\ b[i] = a[i + 1]
    BY <1>1, <1>2
  <2> QED BY <1>1, <1>2, <2>1 DEF Numbered
<1>4. k \in Nat /\ k <= Len(b) /\ Len(b) <= sd
  BY <1>1, <1>2
<1> QED BY <1>1, <1>2, <1>3, <1>4 DEF Numbered, Upto, b

LEMMA UptoIsNat ==
  ASSUME NEW a, NEW sd, NEW wp, Numbered(a, sd, wp)
  PROVE  Upto(a, sd, wp) \in Nat /\ Upto(a, sd, wp) <= sd
<1>1. Len(a) \in Nat
  BY LenProperties DEF Numbered
<1> QED BY <1>1 DEF Numbered, Upto

(* The next packet of the window, and the counts when the window moves.     *)
LEMMA NextNumber ==
  ASSUME NEW a, NEW sd, NEW wp, Numbered(a, sd, wp), wp + 1 \in 1 .. Len(a)
  PROVE  a[wp + 1] = Upto(a, sd, wp)
<1>1. Len(a) \in Nat /\ sd \in Nat /\ wp \in Nat
  BY LenProperties DEF Numbered
<1>2. a[wp + 1] = sd - Len(a) + (wp + 1) - 1
  BY DEF Numbered
<1>3. \A l \in Nat : sd - l + (wp + 1) - 1 = sd - l + wp
  BY <1>1
<1> QED BY <1>1, <1>2, <1>3 DEF Upto

LEMMA UptoMoves ==
  ASSUME NEW a, Len(a) \in Nat, NEW sd \in Nat, NEW wp \in Nat
  PROVE  Upto(a, sd, wp + 1) = Upto(a, sd, wp) + 1
<1>1. \A l \in Nat : sd - l + (wp + 1) = (sd - l + wp) + 1
  OBVIOUS
<1> QED BY <1>1 DEF Upto

LEMMA UptoStays ==
  ASSUME NEW a, Len(a) \in Nat, NEW b, Len(b) = Len(a) - 1, NEW sd \in Nat, NEW wp \in Nat
  PROVE  Upto(b, sd, wp - 1) = Upto(a, sd, wp) /\ sd - Len(b) = (sd - Len(a)) + 1
<1>1. \A l \in Nat : sd - (l - 1) + (wp - 1) = sd - l + wp /\ sd - (l - 1) = (sd - l) + 1
  OBVIOUS
<1> QED BY <1>1 DEF Upto

-----------------------------------------------------------------------------
UptoOf(n) == Upto(sendArray[n], seqData[n], windowPos[n])

Functions ==
  /\ port \in [Agents -> {1, 2}]
  /\ seqData \in [Agents -> Nat] /\ windowPos \in [Agents -> Nat]
  /\ sendArray \in [Agents -> Seq(Nat)] /\ recvArray \in [Agents -> Seq(Nat)]
  /\ wire \in [Agents -> Seq(Packet)]

SenderInv(n) == Numbered(sendArray[n], seqData[n], windowPos[n])
WireInv(n) == Direction(wire[n], recvArray[n], UptoOf(Peer(n)))

OrderInv == Functions /\ \A n \in Agents : SenderInv(n) /\ WireInv(n)

LEMMA Peers == \A n \in Agents : Peer(n) \in Agents /\ Peer(n) # n /\ Peer(Peer(n)) = n
  BY DEF Agents, Peer

LEMMA RoomFacts ==
  ASSUME Functions, NEW n \in Agents, HasRoom(n)
  PROVE  /\ sendArray[n] \in Seq(Nat) /\ Len(sendArray[n]) \in Nat
         /\ seqData[n] \in Nat /\ windowPos[n] \in Nat /\ windowPos[n] < Len(sendArray[n])
         /\ windowPos[n] + 1 \in 1 .. Len(sendArray[n])
<1>1. sendArray[n] \in Seq(Nat) /\ seqData[n] \in Nat /\ windowPos[n] \in Nat
  BY DEF Functions
<1>2. Len(sendArray[n]) \in Nat
  BY <1>1, LenProperties
<1>3. windowPos[n] < Len(sendArray[n])
  BY DEF HasRoom
<1> QED BY <1>1, <1>2, <1>3

LEMMA OrderInit == Init => OrderInv
<1> SUFFICES ASSUME Init PROVE OrderInv
  OBVIOUS
<1>1. Functions
  BY DEF Init, Functions, Each, Agents
<1>2. ASSUME NEW n \in Agents PROVE SenderInv(n) /\ WireInv(n)
  <2>1. /\ sendArray[n] = <<>> /\ seqData[n] = 0 /\ windowPos[n] = 0
        /\ wire[n] = <<>> /\ recvArray[n] = <<>> /\ UptoOf(Peer(n)) = 0
    BY Peers DEF Init, Each, UptoOf, Upto
  <2> QED BY <2>1 DEF SenderInv, WireInv, Numbered, Direction, InOrder
<1> QED BY <1>1, <1>2 DEF OrderInv

(* What all but four steps do to a wire.                                    *)
Quiet(w, v) ==
  \/ v = w
  \/ \E p \in Packet : ~IsData(p) /\ v = Append(w, p)
  \/ w # <<>> /\ v = Tail(w)

LEMMA QuietKeeps ==
  ASSUME NEW w, NEW v, NEW r, NEW upto, Direction(w, r, upto), Quiet(w, v)
  PROVE  Direction(v, r, upto)
  BY AddControl, TakeFirst DEF Quiet

LEMMA QuietStep ==
  ASSUME OrderInv, UNCHANGED <<port, seqData, sendArray, recvArray, windowPos>>,
         DOMAIN wire' = Agents, wire' = [m \in Agents |-> wire'[m]],
         \A m \in Agents : Quiet(wire[m], wire'[m])
  PROVE  OrderInv'
<1>1. ASSUME NEW m \in Agents PROVE SenderInv(m)' /\ WireInv(m)'
  <2>1. SenderInv(m) /\ WireInv(m) /\ Quiet(wire[m], wire'[m])
    BY DEF OrderInv
  <2>2. Direction(wire'[m], recvArray[m], UptoOf(Peer(m)))
    BY <2>1, QuietKeeps DEF WireInv
  <2> QED BY <2>1, <2>2 DEF SenderInv, WireInv, UptoOf
<1>2. \A m \in Agents : wire'[m] \in Seq(Packet)
  BY <1>1 DEF WireInv, Direction
<1>3. Functions'
  BY <1>2 DEF OrderInv, Functions
<1> QED BY <1>1, <1>3 DEF OrderInv

LEMMA PacketFacts ==
  ASSUME Functions, NEW n \in Agents
  PROVE  /\ \A f \in {"SYN", "SYN+ACK", "ACK", "FIN"}, k \in Nat :
              Control(n, f, k) \in Packet /\ ~IsData(Control(n, f, k))
         /\ \A k \in Nat : Data(n, k) \in Packet /\ IsData(Data(n, k)) /\ Data(n, k).seq = k
<1>1. port[n] \in {1, 2} /\ port[Peer(n)] \in {1, 2} /\ seqData[n] \in Nat
  BY Peers DEF Functions
<1> QED BY <1>1 DEF Control, Data, Packet, IsData

LEMMA TransmitQuiet ==
  ASSUME Functions, NEW n \in Agents, NEW p \in Packet, ~IsData(p), Transmit(n, p)
  PROVE  /\ wire' = [m \in Agents |-> wire'[m]] /\ DOMAIN wire' = Agents
         /\ \A m \in Agents : Quiet(wire[m], wire'[m])
  BY Peers DEF Functions, Transmit, Quiet

LEMMA TakeQuiet ==
  ASSUME Functions, NEW n \in Agents, wire[n] # <<>>, Take(n)
  PROVE  /\ wire' = [m \in Agents |-> wire'[m]] /\ DOMAIN wire' = Agents
         /\ \A m \in Agents : Quiet(wire[m], wire'[m])
         /\ wire'[n] = Tail(wire[n]) /\ wire'[Peer(n)] = wire[Peer(n)]
  BY Peers DEF Functions, Take, Quiet

LEMMA ReplyQuiet ==
  ASSUME Functions, NEW n \in Agents, wire[n] # <<>>, NEW p \in Packet, ~IsData(p), Reply(n, p)
  PROVE  /\ wire' = [m \in Agents |-> wire'[m]] /\ DOMAIN wire' = Agents
         /\ \A m \in Agents : Quiet(wire[m], wire'[m])
         /\ wire'[n] = Tail(wire[n]) /\ wire'[Peer(n)] = Append(wire[Peer(n)], p)
<1>1. \A m \in Agents : m = n \/ m = Peer(n)
  BY DEF Agents, Peer
<1>2. wire'[n] = Tail(wire[n]) /\ wire'[Peer(n)] = Append(wire[Peer(n)], p)
  BY Peers DEF Functions, Reply
<1>3. \A m \in Agents : Quiet(wire[m], wire'[m])
  BY <1>1, <1>2 DEF Quiet
<1>4. wire' = [m \in Agents |-> wire'[m]] /\ DOMAIN wire' = Agents
  BY DEF Functions, Reply
<1> QED BY <1>2, <1>3, <1>4

(* The packet at hand when an agent receives.                               *)
Received(n, p) == wire[n] # <<>> /\ p = Head(wire[n]) /\ p \in Packet /\ p.seq \in Nat

LEMMA HeadIsPacket ==
  ASSUME Functions, NEW n \in Agents, wire[n] # <<>>
  PROVE  Received(n, Head(wire[n]))
  BY TailFacts DEF Functions, Received, Packet

-----------------------------------------------------------------------------
LEMMA CallKeeps ==
  ASSUME OrderInv, NEW n \in Agents, Connect(n) \/ Listen(n) \/ Disconnect(n)
  PROVE  OrderInv'
<1>1. Functions /\ UNCHANGED <<port, seqData, sendArray, recvArray, windowPos>>
  BY DEF OrderInv, Connect, Listen, Disconnect, Called, dataVars
<1>2. CASE UNCHANGED wire
  BY <1>1, <1>2, QuietStep DEF Functions, Quiet
<1>3. ASSUME NEW f \in {"SYN", "SYN+ACK", "ACK", "FIN"}, Transmit(n, Control(n, f, 0)) PROVE OrderInv'
  <2>1. Control(n, f, 0) \in Packet /\ ~IsData(Control(n, f, 0))
    BY <1>1, PacketFacts
  <2> QED BY <1>1, <1>3, <2>1, TransmitQuiet, QuietStep
<1>4. UNCHANGED wire \/ Transmit(n, Control(n, "SYN", 0)) \/ Transmit(n, Control(n, "FIN", 0))
  BY DEF Connect, Listen, Disconnect
<1> QED BY <1>2, <1>3, <1>4

LEMMA SendKeeps ==
  ASSUME OrderInv, NEW n \in Agents, Send(n)
  PROVE  OrderInv'
<1>1. Functions
  BY DEF OrderInv
<1>2. /\ sendArray' = [sendArray EXCEPT ![n] = Append(sendArray[n], seqData[n])]
      /\ seqData' = [seqData EXCEPT ![n] = seqData[n] + 1]
      /\ UNCHANGED <<port, recvArray, windowPos, wire>>
  BY DEF Send
<1>3. \A m \in Agents : m # n => sendArray'[m] = sendArray[m] /\ seqData'[m] = seqData[m]
  BY <1>1, <1>2 DEF Functions
<1>4. sendArray'[n] = Append(sendArray[n], seqData[n]) /\ seqData'[n] = seqData[n] + 1
  BY <1>1, <1>2 DEF Functions
<1>5. ASSUME NEW m \in Agents PROVE SenderInv(m)' /\ UptoOf(m)' = UptoOf(m)
  <2>1. SenderInv(m)
    BY DEF OrderInv
  <2>2. CASE m = n
    BY <1>2, <1>4, <2>1, <2>2, AddNumber DEF SenderInv, UptoOf
  <2>3. CASE m # n
    BY <1>2, <1>3, <2>1, <2>3 DEF SenderInv, UptoOf
  <2> QED BY <2>2, <2>3
<1>6. \A m \in Agents : WireInv(m)'
  BY <1>2, <1>5, Peers DEF OrderInv, WireInv
<1>7. Functions'
  <2>1. Append(sendArray[n], seqData[n]) \in Seq(Nat) /\ seqData[n] + 1 \in Nat
    BY <1>1, AppendProperties DEF Functions
  <2> QED BY <1>1, <1>2, <2>1 DEF Functions
<1> QED BY <1>5, <1>6, <1>7 DEF OrderInv

LEMMA UpdateKeeps ==
  ASSUME OrderInv, NEW n \in Agents, Update(n)
  PROVE  OrderInv'
<1>1. Functions /\ UNCHANGED <<port, seqData, sendArray, recvArray>>
  BY DEF OrderInv, Update
<1>2. CASE UNCHANGED <<wire, windowPos>>
  BY <1>1, <1>2, QuietStep DEF Functions, Quiet
<1>3. CASE /\ HasRoom(n)
           /\ Transmit(n, Data(n, sendArray[n][windowPos[n] + 1]))
           /\ windowPos' = [windowPos EXCEPT ![n] = windowPos[n] + 1]
  <2> DEFINE p == Data(n, sendArray[n][windowPos[n] + 1])
             k == Peer(n)
  <2>1. SenderInv(n) /\ SenderInv(k) /\ WireInv(k) /\ WireInv(n) /\ k \in Agents /\ k # n /\ Peer(k) = n
    BY Peers DEF OrderInv
  <2>2. Len(sendArray[n]) \in Nat /\ windowPos[n] \in Nat /\ windowPos[n] < Len(sendArray[n])
    BY <1>1, <1>3, RoomFacts
  <2>3. sendArray[n][windowPos[n] + 1] = UptoOf(n) /\ UptoOf(n) \in Nat
    <3>1. UptoOf(n) \in Nat
      BY <2>1, UptoIsNat DEF SenderInv, UptoOf
    <3>2. windowPos[n] + 1 \in 1 .. Len(sendArray[n])
      BY <2>2
    <3> QED BY <2>1, <3>1, <3>2, NextNumber DEF SenderInv, UptoOf
  <2>4. p \in Packet /\ IsData(p) /\ p.seq = UptoOf(n)
    BY <1>1, <2>3, PacketFacts
  <2>5. windowPos'[n] = windowPos[n] + 1 /\ windowPos'[k] = windowPos[k] /\ windowPos' \in [Agents -> Nat]
    <3>1. windowPos' = [windowPos EXCEPT ![n] = windowPos[n] + 1] /\ windowPos \in [Agents -> Nat]
      BY <1>1, <1>3 DEF Functions
    <3>2. windowPos[n] + 1 \in Nat
      BY <2>2
    <3> HIDE DEF k, p
    <3> QED BY <2>1, <3>1, <3>2
  <2> HIDE DEF k
  <2>6. wire'[k] = Append(wire[k], p) /\ wire'[n] = wire[n]
    BY <1>1, <1>3, <2>1 DEF Functions, Transmit, k
  <2>7. SenderInv(n)' /\ SenderInv(k)'
    BY <1>1, <2>1, <2>2, <2>5 DEF SenderInv, Numbered
  <2>8. UptoOf(n)' = UptoOf(n) + 1 /\ UptoOf(k)' = UptoOf(k)
    <3>1. seqData[n] \in Nat /\ UNCHANGED <<seqData, sendArray>>
      BY <1>1 DEF Functions
    <3>2. UptoOf(n)' = Upto(sendArray[n], seqData[n], windowPos[n] + 1)
      BY <2>5, <3>1 DEF UptoOf
    <3>3. UptoOf(n)' = UptoOf(n) + 1
      BY <2>2, <3>1, <3>2, UptoMoves DEF UptoOf
    <3>4. UptoOf(k)' = UptoOf(k)
      BY <2>5, <3>1 DEF UptoOf
    <3> QED BY <3>3, <3>4
  <2>9. Direction(wire'[k], recvArray[k], UptoOf(n) + 1)
    BY <2>1, <2>4, <2>6, AddData DEF WireInv
  <2>10. WireInv(k)' /\ WireInv(n)'
    <3>1. Peer(n) = k
      BY DEF k
    <3> QED BY <1>1, <2>1, <2>6, <2>8, <2>9, <3>1 DEF WireInv
  <2>11. \A m \in Agents : m = n \/ m = k
    BY DEF Agents, Peer, k
  <2>12. Functions'
    <3>1. \A m \in Agents : wire'[m] \in Seq(Packet)
      BY <2>10, <2>11 DEF WireInv, Direction
    <3>2. wire' = [m \in Agents |-> wire'[m]]
      BY <1>1, <1>3 DEF Functions, Transmit
    <3> QED BY <1>1, <2>5, <3>1, <3>2 DEF Functions
  <2> QED BY <2>7, <2>10, <2>11, <2>12 DEF OrderInv
<1>4. UNCHANGED <<wire, windowPos>> \/ (/\ HasRoom(n)
           /\ Transmit(n, Data(n, sendArray[n][windowPos[n] + 1]))
           /\ windowPos' = [windowPos EXCEPT ![n] = windowPos[n] + 1])
  BY DEF Update
<1> QED BY <1>2, <1>3, <1>4

LEMMA ControlKeeps ==
  ASSUME OrderInv, NEW n \in Agents, wire[n] # <<>>,
         Opens(n, Head(wire[n])) \/ Closes(n, Head(wire[n])) \/ (Take(n) /\ UNCHANGED dataVars),
         UNCHANGED port
  PROVE  OrderInv'
<1> DEFINE p == Head(wire[n])
<1>1. Functions /\ UNCHANGED <<port, seqData, sendArray, recvArray, windowPos>>
  BY DEF OrderInv, Opens, Closes, dataVars
<1>2. p.seq \in Nat /\ 0 \in Nat
  BY <1>1, HeadIsPacket DEF Received
<1>3. CASE Take(n)
  BY <1>1, <1>3, TakeQuiet, QuietStep
<1>4. ASSUME NEW f \in {"SYN", "SYN+ACK", "ACK", "FIN"}, NEW k \in {p.seq, 0}, Reply(n, Control(n, f, k))
      PROVE  OrderInv'
  <2>1. Control(n, f, k) \in Packet /\ ~IsData(Control(n, f, k))
    BY <1>1, <1>2, PacketFacts
  <2> QED BY <1>1, <1>4, <2>1, ReplyQuiet, QuietStep
<1>5. \/ Take(n)
      \/ \E f \in {"SYN", "SYN+ACK", "ACK", "FIN"}, k \in {p.seq, 0} : Reply(n, Control(n, f, k))
  BY DEF Opens, Closes
<1> QED BY <1>3, <1>4, <1>5

LEMMA AcknowledgementKeeps ==
  ASSUME OrderInv, NEW n \in Agents, wire[n] # <<>>, Acknowledged(n, Head(wire[n])), UNCHANGED port
  PROVE  OrderInv'
<1> DEFINE k == Peer(n)
<1>1. Functions /\ UNCHANGED <<port, seqData, recvArray>> /\ sendArray[n] # <<>> /\ Take(n)
  BY DEF OrderInv, Acknowledged, Acknowledges
<1>2. /\ SenderInv(n) /\ SenderInv(k) /\ WireInv(n) /\ WireInv(k)
      /\ k \in Agents /\ k # n /\ Peer(k) = n /\ Peer(n) = k
  BY Peers DEF OrderInv
<1> DEFINE wp == IF windowPos[n] > 0 THEN windowPos[n] - 1 ELSE windowPos[n]
<1> HIDE DEF k
<1>3. /\ sendArray' = [sendArray EXCEPT ![n] = Tail(sendArray[n])]
      /\ windowPos' = [windowPos EXCEPT ![n] = wp]
  BY DEF Acknowledged
<1>4. /\ sendArray'[n] = Tail(sendArray[n]) /\ sendArray'[k] = sendArray[k]
      /\ windowPos'[n] = wp /\ windowPos'[k] = windowPos[k]
  BY <1>1, <1>2, <1>3 DEF Functions
<1>5. /\ Numbered(Tail(sendArray[n]), seqData[n], wp)
      /\ Upto(Tail(sendArray[n]), seqData[n], wp) \in {UptoOf(n), UptoOf(n) + 1}
  BY <1>1, <1>2, RemoveNumber DEF SenderInv, UptoOf
<1>6. SenderInv(n)' /\ SenderInv(k)' /\ UptoOf(n)' \in {UptoOf(n), UptoOf(n) + 1} /\ UptoOf(k)' = UptoOf(k)
  BY <1>1, <1>2, <1>4, <1>5 DEF SenderInv, UptoOf
<1>7. wire'[n] = Tail(wire[n]) /\ wire'[k] = wire[k] /\ wire' = [m \in Agents |-> wire'[m]]
  BY <1>1, TakeQuiet DEF k
<1>8. WireInv(n)'
  BY <1>1, <1>2, <1>6, <1>7, TakeFirst DEF WireInv
<1>9. WireInv(k)'
  BY <1>1, <1>2, <1>6, <1>7, More DEF WireInv
<1>10. \A m \in Agents : m = n \/ m = k
  BY DEF Agents, Peer, k
<1>11. Functions'
  <2>1. \A m \in Agents : wire'[m] \in Seq(Packet)
    BY <1>8, <1>9, <1>10 DEF WireInv, Direction
  <2>2. Tail(sendArray[n]) \in Seq(Nat) /\ wp \in Nat
    BY <1>5 DEF Numbered
  <2> QED BY <1>1, <1>3, <1>7, <2>1, <2>2 DEF Functions
<1> QED BY <1>6, <1>8, <1>9, <1>10, <1>11 DEF OrderInv

LEMMA GetsKeeps ==
  ASSUME OrderInv, NEW n \in Agents, wire[n] # <<>>, Gets(n, Head(wire[n])), UNCHANGED port
  PROVE  OrderInv'
<1> DEFINE k == Peer(n)
           p == Head(wire[n])
           answer == Control(n, "ACK", p.seq)
<1>1. /\ Functions /\ UNCHANGED <<port, seqData, sendArray, windowPos>>
      /\ IsData(p) /\ Reply(n, answer)
      /\ recvArray' = [recvArray EXCEPT ![n] = Append(recvArray[n], p.seq)]
  BY DEF OrderInv, Gets, IsData
<1>2. /\ SenderInv(n) /\ SenderInv(k) /\ WireInv(n) /\ WireInv(k)
      /\ k \in Agents /\ k # n /\ Peer(k) = n /\ Peer(n) = k
  BY Peers DEF OrderInv
<1>3. answer \in Packet /\ ~IsData(answer)
  BY <1>1, HeadIsPacket, PacketFacts DEF Received
<1> HIDE DEF answer
<1>4. /\ wire'[n] = Tail(wire[n]) /\ wire'[k] = Append(wire[k], answer)
      /\ wire' = [m \in Agents |-> wire'[m]]
  BY <1>1, <1>3, ReplyQuiet
<1> HIDE DEF k
<1>5. recvArray'[n] = Append(recvArray[n], p.seq) /\ recvArray'[k] = recvArray[k]
  BY <1>1, <1>2 DEF Functions
<1>6. SenderInv(n)' /\ SenderInv(k)' /\ UptoOf(n)' = UptoOf(n) /\ UptoOf(k)' = UptoOf(k)
  BY <1>1, <1>2 DEF SenderInv, UptoOf
<1>7. WireInv(n)'
  <2>1. Direction(Tail(wire[n]), Append(recvArray[n], p.seq), UptoOf(k))
    BY <1>1, <1>2, Deliver DEF WireInv
  <2> QED BY <1>2, <1>4, <1>5, <1>6, <2>1 DEF WireInv
<1>8. WireInv(k)'
  <2>1. Direction(Append(wire[k], answer), recvArray[k], UptoOf(n))
    BY <1>2, <1>3, AddControl DEF WireInv
  <2> QED BY <1>2, <1>4, <1>5, <1>6, <2>1 DEF WireInv
<1>9. \A m \in Agents : m = n \/ m = k
  BY DEF Agents, Peer, k
<1>10. Functions'
  <2>1. \A m \in Agents : wire'[m] \in Seq(Packet) /\ recvArray'[m] \in Seq(Nat)
    BY <1>7, <1>8, <1>9 DEF WireInv, Direction
  <2> QED BY <1>1, <1>4, <2>1 DEF Functions
<1> QED BY <1>6, <1>7, <1>8, <1>9, <1>10 DEF OrderInv

LEMMA OrderStep == OrderInv /\ [Next]_vars => OrderInv'
<1>1. ASSUME OrderInv, UNCHANGED vars PROVE OrderInv'
  <2>1. OrderInv' <=> OrderInv
    BY <1>1 DEF vars, dataVars, OrderInv, Functions, SenderInv, WireInv, UptoOf
  <2> QED BY <1>1, <2>1
<1>2. ASSUME OrderInv, NEW n \in Agents, ReadyToSend(n) PROVE OrderInv'
  <2>1. Functions /\ UNCHANGED <<port, seqData, sendArray, recvArray, windowPos, wire>>
    BY <1>2 DEF OrderInv, ReadyToSend
  <2> QED BY <1>2, <2>1, QuietStep DEF Functions, Quiet
<1>3. ASSUME OrderInv, NEW n \in Agents, Receive(n) PROVE OrderInv'
  <2>1. wire[n] # <<>> /\ UNCHANGED port
    BY <1>3 DEF Receive
  <2>2. \/ Opens(n, Head(wire[n])) \/ Closes(n, Head(wire[n]))
        \/ Acknowledged(n, Head(wire[n])) \/ Gets(n, Head(wire[n]))
        \/ Take(n) /\ UNCHANGED dataVars
    BY <1>3 DEF Receive, Exchanges, Ignores
  <2> QED BY <1>3, <2>1, <2>2, ControlKeeps, AcknowledgementKeeps, GetsKeeps
<1>4. ASSUME OrderInv, NEW n \in Agents, Lose(n) PROVE OrderInv'
  BY <1>4, ControlKeeps DEF Lose
<1> QED BY <1>1, <1>2, <1>3, <1>4, CallKeeps, SendKeeps, UpdateKeeps DEF Next

(* Whatever the size of the window, whenever the agents connect and         *)
(* disconnect and whatever is lost: an agent receives packets of its peer   *)
(* in their order and none of them twice (indicate, which accepts any       *)
(* packet that carries data).                                               *)
THEOREM DataInOrder == Spec => []ReceivedInOrder
<1>1. ASSUME OrderInv PROVE ReceivedInOrder
  <2>1. ASSUME NEW n \in Agents, NEW i \in DOMAIN recvArray[n]
        PROVE  /\ recvArray[n][i] < seqData[Peer(n)]
               /\ i > 1 => recvArray[n][i - 1] < recvArray[n][i]
    <3> DEFINE u == UptoOf(Peer(n))
    <3>1. WireInv(n) /\ Peer(n) \in Agents /\ SenderInv(Peer(n))
      BY <1>1, Peers DEF OrderInv
    <3>2. u \in Nat /\ u <= seqData[Peer(n)]
      BY <3>1, UptoIsNat DEF SenderInv, UptoOf
    <3>3. seqData[Peer(n)] \in Nat
      BY <1>1, <3>1 DEF OrderInv, Functions
    <3> HIDE DEF u
    <3>4. /\ Len(recvArray[n]) \in Nat /\ i \in 1 .. Len(recvArray[n])
          /\ \A j \in 1 .. Len(recvArray[n]) : recvArray[n][j] \in Nat
      BY <2>1, <3>1, DirectionTypes, LenProperties DEF WireInv
    <3>5. \A j \in 1 .. Len(recvArray[n]) : recvArray[n][j] < u
      BY <3>1 DEF WireInv, Direction, InOrder, u
    <3>6. \A j, l \in 1 .. Len(recvArray[n]) : j < l => recvArray[n][j] < recvArray[n][l]
      BY <3>1 DEF WireInv, Direction, InOrder
    <3>7. recvArray[n][i] < seqData[Peer(n)]
      <4>1. recvArray[n][i] \in Nat /\ recvArray[n][i] < u
        BY <3>4, <3>5
      <4> QED BY <3>2, <3>3, <4>1
    <3>8. ASSUME i > 1 PROVE recvArray[n][i - 1] < recvArray[n][i]
      <4>1. i - 1 \in 1 .. Len(recvArray[n]) /\ i - 1 < i
        BY <3>4, <3>8
      <4> QED BY <3>4, <3>6, <4>1
    <3> QED BY <3>7, <3>8
  <2> QED BY <2>1 DEF ReceivedInOrder
<1> QED BY <1>1, OrderInit, OrderStep, PTL DEF Spec

-----------------------------------------------------------------------------
(* What the flags of the packets on a wire say of it.                       *)
Flags == {"SYN", "SYN+ACK", "ACK", "FIN", "none"}

Has(w, f) == \E i \in 1 .. Len(w) : w[i].flags = f
AtMostOne(w, f) == \A i, j \in 1 .. Len(w) : w[i].flags = f /\ w[j].flags = f => i = j
NoneOpensBehindFin(w) ==
  \A i, j \in 1 .. Len(w) :
    i < j /\ w[i].flags = "FIN" => w[j].flags # "SYN" /\ w[j].flags # "SYN+ACK"

Less(v, w) ==
  /\ \A f \in Flags : (Has(v, f) => Has(w, f)) /\ (AtMostOne(w, f) => AtMostOne(v, f))
  /\ NoneOpensBehindFin(w) => NoneOpensBehindFin(v)

(* v is w without its first packet, which has flags f.                      *)
Taken(w, v, f) ==
  /\ Less(v, w)
  /\ f \in Flags /\ Has(w, f)
  /\ AtMostOne(w, f) => ~Has(v, f)
  /\ f = "FIN" /\ NoneOpensBehindFin(w) => ~Has(v, "SYN") /\ ~Has(v, "SYN+ACK")

(* v is w with a packet of flags f behind it.                               *)
Added(w, v, f) ==
  /\ f \in Flags
  /\ \A g \in Flags : Has(v, g) <=> Has(w, g) \/ g = f
  /\ \A g \in Flags : AtMostOne(w, g) /\ (g = f => ~Has(w, g)) => AtMostOne(v, g)
  /\ NoneOpensBehindFin(w) /\ (f \in {"SYN", "SYN+ACK"} => ~Has(w, "FIN")) => NoneOpensBehindFin(v)

LEMMA TailIsTaken ==
  ASSUME NEW w \in Seq(Packet), w # <<>>
  PROVE  Taken(w, Tail(w), Head(w).flags)
<1> DEFINE v == Tail(w)
           p == Head(w)
<1>1. /\ v \in Seq(Packet) /\ Len(v) \in Nat /\ p \in Packet /\ p = w[1] /\ 1 \in 1 .. Len(w)
      /\ \A i \in 1 .. Len(v) : v[i] = w[i + 1] /\ i + 1 \in 1 .. Len(w)
  BY TailFacts
<1>2. Len(w) \in Nat /\ p.flags \in Flags
  BY <1>1, LenProperties DEF Packet, Flags
<1> HIDE DEF v, p
<1>3. \A i, j \in 1 .. Len(v) : (i + 1 = j + 1 => i = j) /\ (i < j => i + 1 < j + 1) /\ 1 < i + 1
  BY <1>1
<1>4. ASSUME NEW f \in Flags
      PROVE  /\ Has(v, f) => Has(w, f)
             /\ AtMostOne(w, f) => AtMostOne(v, f)
             /\ AtMostOne(w, f) /\ f = p.flags => ~Has(v, f)
  <2>1. Has(v, f) => Has(w, f)
    BY <1>1 DEF Has
  <2>2. AtMostOne(w, f) => AtMostOne(v, f)
    BY <1>1, <1>3 DEF AtMostOne
  <2>3. AtMostOne(w, f) /\ f = p.flags => ~Has(v, f)
    BY <1>1, <1>3 DEF AtMostOne, Has
  <2> QED BY <2>1, <2>2, <2>3
<1>5. NoneOpensBehindFin(w) => NoneOpensBehindFin(v)
  <2> SUFFICES ASSUME NoneOpensBehindFin(w), NEW i \in 1 .. Len(v), NEW j \in 1 .. Len(v),
                      i < j, v[i].flags = "FIN"
               PROVE  v[j].flags # "SYN" /\ v[j].flags # "SYN+ACK"
    BY DEF NoneOpensBehindFin
  <2>1. /\ i + 1 \in 1 .. Len(w) /\ j + 1 \in 1 .. Len(w) /\ i + 1 < j + 1
        /\ v[i] = w[i + 1] /\ v[j] = w[j + 1]
    BY <1>1, <1>3
  <2> QED BY <2>1, Zenon DEF NoneOpensBehindFin
<1>6. Has(w, p.flags)
  BY <1>1 DEF Has
<1>7. p.flags = "FIN" /\ NoneOpensBehindFin(w) => ~Has(v, "SYN") /\ ~Has(v, "SYN+ACK")
  BY <1>1, <1>3, Zenon DEF NoneOpensBehindFin, Has
<1>8. Taken(w, v, p.flags)
  BY <1>2, <1>4, <1>5, <1>6, <1>7 DEF Taken, Less
<1> QED BY <1>8 DEF v, p

LEMMA AppendIsAdded ==
  ASSUME NEW w \in Seq(Packet), NEW p \in Packet
  PROVE  Added(w, Append(w, p), p.flags)
<1> DEFINE v == Append(w, p)
           n == Len(w)
<1>1. n \in Nat /\ v \in Seq(Packet) /\ Len(v) = n + 1 /\ v[n + 1] = p /\ \A i \in 1 .. n : v[i] = w[i]
  BY AppendProperties, LenProperties
<1>2. p.flags \in Flags
  BY DEF Packet, Flags
<1>3. \A i \in 1 .. n : i \in 1 .. Len(w)
  OBVIOUS
<1> HIDE DEF v
<1>4. /\ \A i \in 1 .. n : i \in 1 .. Len(v) /\ n + 1 \in 1 .. Len(v)
      /\ n + 1 \in 1 .. Len(v)
      /\ \A i \in 1 .. Len(v) : i \in 1 .. n \/ i = n + 1
      /\ \A i, j \in 1 .. Len(v) : i < j => i \in 1 .. n
  BY <1>1
<1>5. ASSUME NEW g \in Flags PROVE Has(v, g) <=> Has(w, g) \/ g = p.flags
  BY <1>1, <1>4 DEF Has
<1>6. ASSUME NEW g \in Flags, AtMostOne(w, g), g = p.flags => ~Has(w, g)
      PROVE  AtMostOne(v, g)
  <2> SUFFICES ASSUME NEW i \in 1 .. Len(v), NEW j \in 1 .. Len(v), v[i].flags = g, v[j].flags = g
               PROVE  i = j
    BY DEF AtMostOne
  <2>1. CASE i \in 1 .. n /\ j \in 1 .. n
    BY <1>1, <1>6, <2>1 DEF AtMostOne
  <2>2. CASE i \in 1 .. n /\ j = n + 1
    BY <1>1, <1>6, <2>2 DEF Has
  <2>3. CASE i = n + 1 /\ j \in 1 .. n
    BY <1>1, <1>6, <2>3 DEF Has
  <2> QED BY <1>4, <2>1, <2>2, <2>3
<1>7. ASSUME NoneOpensBehindFin(w), p.flags \in {"SYN", "SYN+ACK"} => ~Has(w, "FIN")
      PROVE  NoneOpensBehindFin(v)
  <2> SUFFICES ASSUME NEW i \in 1 .. Len(v), NEW j \in 1 .. Len(v), i < j, v[i].flags = "FIN"
               PROVE  v[j].flags # "SYN" /\ v[j].flags # "SYN+ACK"
    BY DEF NoneOpensBehindFin
  <2>1. i \in 1 .. n /\ v[i] = w[i]
    BY <1>1, <1>4
  <2>2. CASE j \in 1 .. n
    BY <1>1, <1>7, <2>1, <2>2 DEF NoneOpensBehindFin
  <2>3. CASE j = n + 1
    BY <1>1, <1>7, <2>1, <2>3 DEF Has
  <2> QED BY <1>4, <2>2, <2>3
<1>8. Added(w, v, p.flags)
  BY <1>2, <1>5, <1>6, <1>7 DEF Added
<1> QED BY <1>8 DEF v

-----------------------------------------------------------------------------
(* An end of the conversation: the agent is in state s and its peer in t,   *)
(* v are the packets on their way to the agent and w those to its peer, and *)
(* c says whether the agent has numbered any data.                          *)
Fresh(s) == s \in {"CLOSED", "LISTEN", "SYN_SENT"}
Gone(s) == s \in {"FIN_WAIT1", "FIN_WAIT2", "CLOSING", "TIME_WAIT"}
Opening(v) == Has(v, "SYN") \/ Has(v, "SYN+ACK")

(* Only who has seen the FIN of a peer that will not come back closes.      *)
Closing(s, t, v, w) ==
  /\ s \in {"CLOSE_WAIT", "LAST_ACK"} => Gone(t) /\ ~Opening(v)
  /\ Has(w, "FIN") => Gone(s) \/ (Gone(t) /\ (s = "LAST_ACK" \/ Fresh(s)) /\ ~Opening(v))
  /\ ~Gone(s) => NoneOpensBehindFin(v)

(* A handshake has one SYN+ACK, and what is answered with ACK comes after.  *)
Shaking(s, t, v, w) ==
  /\ AtMostOne(v, "SYN+ACK")
  /\ Has(w, "SYN+ACK") => Gone(s) \/ (s = "SYN_RECVD" /\ ~Has(v, "ACK"))
  /\ Has(v, "SYN") /\ Fresh(s) => ~Has(v, "ACK")
  /\ Has(v, "SYN+ACK") /\ (Fresh(s) \/ s = "SYN_RECVD") => ~Has(v, "ACK")
  /\ Has(v, "ACK") /\ Fresh(t) => Gone(s)
  /\ s = "ESTABLISHED" => ~Fresh(t) /\ ~Has(v, "SYN+ACK")
  /\ s = "SYN_RECVD" => AtMostOne(v, "ACK")

EndInv(s, t, v, w, c) ==
  /\ Closing(s, t, v, w) /\ Shaking(s, t, v, w)
  /\ c /\ (Fresh(s) \/ s = "SYN_RECVD") => Gone(t)

BothInv(s, t, v, w, c, d) == EndInv(s, t, v, w, c) /\ EndInv(t, s, w, v, d)

(* What an agent does with a packet of flags f: to its state, and the flags *)
(* of its answer.                                                           *)
Answers ==
  {<<"LISTEN", "SYN", "SYN_RECVD", "SYN+ACK">>, <<"SYN_SENT", "SYN", "SYN_RECVD", "SYN+ACK">>,
   <<"SYN_SENT", "SYN+ACK", "ESTABLISHED", "ACK">>,
   <<"ESTABLISHED", "none", "ESTABLISHED", "ACK">>, <<"ESTABLISHED", "FIN", "CLOSE_WAIT", "ACK">>,
   <<"FIN_WAIT1", "FIN", "CLOSING", "ACK">>}

Absorbs ==
  {<<"SYN_RECVD", "ACK", "ESTABLISHED">>, <<"LAST_ACK", "ACK", "CLOSED">>,
   <<"FIN_WAIT1", "ACK", "FIN_WAIT2">>, <<"FIN_WAIT2", "FIN", "TIME_WAIT">>,
   <<"CLOSING", "ACK", "TIME_WAIT">>}

LEMMA NoneIsAtMostOne == \A v, f : ~Has(v, f) => AtMostOne(v, f)
  BY DEF Has, AtMostOne

LEMMA AnswerKeeps ==
  ASSUME NEW s, NEW t, NEW v, NEW w, NEW c \in BOOLEAN, NEW d \in BOOLEAN, BothInv(s, t, v, w, c, d),
         NEW f, NEW to, NEW g, <<s, f, to, g>> \in Answers, f = "none" => d,
         NEW v1, NEW w1, Taken(v, v1, f), Added(w, w1, g)
  PROVE  BothInv(to, t, v1, w1, c, d)
<1>0. \/ s \in {"LISTEN", "SYN_SENT"} /\ f = "SYN" /\ to = "SYN_RECVD" /\ g = "SYN+ACK"
      \/ s = "SYN_SENT" /\ f = "SYN+ACK" /\ to = "ESTABLISHED" /\ g = "ACK"
      \/ s = "ESTABLISHED" /\ f = "none" /\ to = "ESTABLISHED" /\ g = "ACK"
      \/ s = "ESTABLISHED" /\ f = "FIN" /\ to = "CLOSE_WAIT" /\ g = "ACK"
      \/ s = "FIN_WAIT1" /\ f = "FIN" /\ to = "CLOSING" /\ g = "ACK"
  BY DEF Answers
<1> USE DEF BothInv, EndInv, Closing, Shaking, Fresh, Gone, Opening, Taken, Less, Added, Flags
<1>1. CASE s \in {"LISTEN", "SYN_SENT"} /\ f = "SYN" /\ to = "SYN_RECVD" /\ g = "SYN+ACK"
  <2>1. Fresh(s) /\ ~Gone(s) /\ s # "SYN_RECVD" /\ s # "LAST_ACK" /\ Has(v, "SYN")
    BY <1>1
  <2>2. ~Has(w, "SYN+ACK") /\ ~Has(w, "FIN") /\ ~Has(v, "ACK") /\ (Has(w, "ACK") => Gone(t))
    BY <2>1
  <2>3. Closing(to, t, v1, w1)
    BY <1>1, <2>1, <2>2
  <2>4. Closing(t, to, w1, v1)
    BY <1>1, <2>1, <2>2
  <2>5. Shaking(to, t, v1, w1)
    <3>1. ~Has(v1, "ACK") /\ AtMostOne(v1, "ACK")
      BY <2>2, NoneIsAtMostOne
    <3> QED BY <1>1, <2>1, <2>2, <3>1
  <2>6. Shaking(t, to, w1, v1)
    BY <1>1, <2>1, <2>2
  <2> QED BY <1>1, <2>3, <2>4, <2>5, <2>6
<1>2. CASE s = "SYN_SENT" /\ f = "SYN+ACK" /\ to = "ESTABLISHED" /\ g = "ACK"
  BY <1>2
<1>3. CASE s = "ESTABLISHED" /\ f = "none" /\ to = "ESTABLISHED" /\ g = "ACK"
  BY <1>3
<1>4. CASE s = "ESTABLISHED" /\ f = "FIN" /\ to = "CLOSE_WAIT" /\ g = "ACK"
  BY <1>4
<1>5. CASE s = "FIN_WAIT1" /\ f = "FIN" /\ to = "CLOSING" /\ g = "ACK"
  BY <1>5
<1> HIDE DEF BothInv, EndInv, Closing, Shaking, Fresh, Gone, Opening, Taken, Less, Added, Flags
<1> QED BY <1>0, <1>1, <1>2, <1>3, <1>4, <1>5

(* In CLOSE_WAIT whatever comes is answered with FIN.                       *)
LEMMA LastAnswerKeeps ==
  ASSUME NEW t, NEW v, NEW w, NEW c \in BOOLEAN, NEW d \in BOOLEAN,
         BothInv("CLOSE_WAIT", t, v, w, c, d),
         NEW v1, NEW w1, Less(v1, v), Added(w, w1, "FIN")
  PROVE  BothInv("LAST_ACK", t, v1, w1, c, d)
  BY DEF BothInv, EndInv, Closing, Shaking, Fresh, Gone, Opening, Less, Added, Flags

LEMMA AbsorbKeeps ==
  ASSUME NEW s, NEW t, NEW v, NEW w, NEW c \in BOOLEAN, NEW d \in BOOLEAN, BothInv(s, t, v, w, c, d),
         NEW f, NEW to, <<s, f, to>> \in Absorbs,
         NEW v1, Taken(v, v1, f)
  PROVE  BothInv(to, t, v1, w, c, d)
<1> USE DEF BothInv, EndInv, Closing, Shaking, Fresh, Gone, Opening, Taken, Less, Flags
<1>1. CASE s = "SYN_RECVD" /\ f = "ACK" /\ to = "ESTABLISHED"
  BY <1>1
<1>2. CASE s = "LAST_ACK" /\ f = "ACK" /\ to = "CLOSED"
  BY <1>2
<1>3. CASE s = "FIN_WAIT1" /\ f = "ACK" /\ to = "FIN_WAIT2"
  BY <1>3
<1>4. CASE s = "FIN_WAIT2" /\ f = "FIN" /\ to = "TIME_WAIT"
  BY <1>4
<1>5. CASE s = "CLOSING" /\ f = "ACK" /\ to = "TIME_WAIT"
  BY <1>5
<1> QED BY <1>1, <1>2, <1>3, <1>4, <1>5 DEF Absorbs

(* A packet that is lost, or that nobody wants.                             *)
LEMMA LossKeeps ==
  ASSUME NEW s, NEW t, NEW v, NEW w, NEW c \in BOOLEAN, NEW d \in BOOLEAN, BothInv(s, t, v, w, c, d),
         NEW v1, Less(v1, v)
  PROVE  BothInv(s, t, v1, w, c, d)
  BY DEF BothInv, EndInv, Closing, Shaking, Fresh, Gone, Opening, Less, Flags

(* What an agent does of its own: the flags of the packet it transmits.     *)
LEMMA CallsKeep ==
  ASSUME NEW s, NEW t, NEW v, NEW w, NEW c \in BOOLEAN, NEW d \in BOOLEAN, BothInv(s, t, v, w, c, d)
  PROVE  /\ s = "CLOSED" => BothInv("LISTEN", t, v, w, c, d)
         /\ s \in {"LISTEN", "SYN_SENT"} => BothInv("CLOSED", t, v, w, c, d)
         /\ s = "ESTABLISHED" => BothInv(s, t, v, w, TRUE, d)
  BY DEF BothInv, EndInv, Closing, Shaking, Fresh, Gone, Opening, Flags

LEMMA TransmissionsKeep ==
  ASSUME NEW s, NEW t, NEW v, NEW w, NEW c \in BOOLEAN, NEW d \in BOOLEAN, BothInv(s, t, v, w, c, d),
         NEW f, NEW w1, Added(w, w1, f)
  PROVE  /\ s = "CLOSED" /\ f = "SYN" => BothInv("SYN_SENT", t, v, w1, c, d)
         /\ s = "CLOSE_WAIT" /\ f = "FIN" => BothInv("LAST_ACK", t, v, w1, c, d)
         /\ s \in {"ESTABLISHED", "SYN_RECVD"} /\ f = "FIN" => BothInv("FIN_WAIT1", t, v, w1, c, d)
         /\ f = "none" => BothInv(s, t, v, w1, c, d)
<1> USE DEF BothInv, EndInv, Closing, Shaking, Fresh, Gone, Opening, Added, Flags
<1>1. s = "CLOSED" /\ f = "SYN" => BothInv("SYN_SENT", t, v, w1, c, d)
  OBVIOUS
<1>2. s = "CLOSE_WAIT" /\ f = "FIN" => BothInv("LAST_ACK", t, v, w1, c, d)
  OBVIOUS
<1>3. s \in {"ESTABLISHED", "SYN_RECVD"} /\ f = "FIN" => BothInv("FIN_WAIT1", t, v, w1, c, d)
  OBVIOUS
<1>4. f = "none" => BothInv(s, t, v, w1, c, d)
  OBVIOUS
<1> QED BY <1>1, <1>2, <1>3, <1>4

-----------------------------------------------------------------------------
States ==
  {"CLOSED", "LISTEN", "SYN_SENT", "SYN_RECVD", "ESTABLISHED", "CLOSE_WAIT", "LAST_ACK",
   "FIN_WAIT1", "FIN_WAIT2", "CLOSING", "TIME_WAIT"}

EndOf(n) == EndInv(state[n], state[Peer(n)], wire[n], wire[Peer(n)], seqData[n] > 0)

TalkInv == state \in [Agents -> States] /\ \A n \in Agents : EndOf(n)

Both(n) ==
  BothInv(state[n], state[Peer(n)], wire[n], wire[Peer(n)], seqData[n] > 0, seqData[Peer(n)] > 0)

LEMMA TalkIsBoth ==
  ASSUME NEW n \in Agents
  PROVE  (\A m \in Agents : EndOf(m)) <=> Both(n)
<1>1. Peer(n) \in Agents /\ Peer(Peer(n)) = n /\ \A m \in Agents : m = n \/ m = Peer(n)
  BY Peers DEF Agents, Peer
<1>2. Both(n) <=> EndOf(n) /\ EndOf(Peer(n))
  BY <1>1 DEF Both, BothInv, EndOf
<1> QED BY <1>1, <1>2

LEMMA TalkInit == Init => TalkInv
<1> SUFFICES ASSUME Init PROVE TalkInv
  OBVIOUS
<1>1. state \in [Agents -> States]
  BY DEF Init, Each, States
<1>2. ASSUME NEW n \in Agents PROVE EndOf(n)
  <2>1. /\ state[n] = "CLOSED" /\ state[Peer(n)] = "CLOSED" /\ ~(seqData[n] > 0)
        /\ wire[n] = <<>> /\ wire[Peer(n)] = <<>>
    BY Peers DEF Init, Each
  <2>2. \A f : ~Has(<<>>, f) /\ AtMostOne(<<>>, f)
    BY DEF Has, AtMostOne
  <2>3. NoneOpensBehindFin(<<>>)
    BY DEF NoneOpensBehindFin
  <2> QED BY <2>1, <2>2, <2>3 DEF EndOf, EndInv, Closing, Shaking, Fresh, Gone, Opening
<1> QED BY <1>1, <1>2 DEF TalkInv

(* What an agent does with the packet at the head of its wire.              *)
Answered(n, p) ==
  \E f \in Flags, to \in States, g \in Flags, ack \in {p.seq, 0} :
    /\ <<state[n], f, to, g>> \in Answers /\ p.flags = f
    /\ state' = [state EXCEPT ![n] = to] /\ Reply(n, Control(n, g, ack))
    /\ g = "ACK" => f \in {"SYN+ACK", "FIN"} \/ (ack = p.seq /\ Gets(n, p))

Absorbed(n, p) ==
  \E to \in States :
    <<state[n], p.flags, to>> \in Absorbs /\ state' = [state EXCEPT ![n] = to] /\ Take(n)

LEMMA ReceiveCases ==
  ASSUME TalkInv, NEW n \in Agents, Receive(n), NEW p, p = Head(wire[n])
  PROVE  /\ wire[n] # <<>> /\ UNCHANGED <<seqData, port>>
         /\ \/ Answered(n, p)
            \/ state[n] = "CLOSE_WAIT" /\ GoTo(n, "LAST_ACK") /\ Reply(n, Control(n, "FIN", 0))
            \/ Absorbed(n, p)
            \/ UNCHANGED state /\ Take(n)
<1>1. wire[n] # <<>> /\ UNCHANGED port
  BY DEF Receive
<1>2. UNCHANGED seqData
  BY DEF Receive, Opens, Exchanges, Acknowledged, Gets, Closes, Ignores, dataVars
<1>3. Opens(n, p) \/ Exchanges(n, p) \/ Closes(n, p) \/ Ignores(n, p)
  BY DEF Receive
<1>4. ASSUME NEW s \in States, state[n] = s, NEW f \in Flags, p.flags = f, NEW to \in States, NEW g \in Flags,
             NEW ack \in {p.seq, 0},
             <<s, f, to, g>> \in Answers, GoTo(n, to), Reply(n, Control(n, g, ack)),
             g = "ACK" => f \in {"SYN+ACK", "FIN"} \/ (ack = p.seq /\ Gets(n, p))
      PROVE  Answered(n, p)
  BY <1>4 DEF Answered, GoTo
<1>5. ASSUME NEW to \in States, <<state[n], p.flags, to>> \in Absorbs, GoTo(n, to), Take(n)
      PROVE  Absorbed(n, p)
  BY <1>5 DEF Absorbed, GoTo
<1>6. CASE Opens(n, p)
  <2>1. CASE /\ state[n] \in {"LISTEN", "SYN_SENT"} /\ p.flags = "SYN" /\ GoTo(n, "SYN_RECVD")
             /\ Reply(n, Control(n, "SYN+ACK", p.seq))
    <3>1. Answered(n, p)
      <4>1. <<state[n], "SYN", "SYN_RECVD", "SYN+ACK">> \in Answers /\ state[n] \in States
        BY <2>1 DEF Answers, States
      <4>2. {"SYN", "SYN+ACK"} \subseteq Flags /\ "SYN_RECVD" \in States
        BY DEF Flags, States
      <4> QED BY <2>1, <1>4, <4>1, <4>2
    <3> QED BY <1>1, <1>2, <3>1
  <2>2. CASE /\ state[n] = "SYN_SENT" /\ p.flags = "SYN+ACK" /\ GoTo(n, "ESTABLISHED")
             /\ Reply(n, Control(n, "ACK", p.seq))
    <3>1. Answered(n, p)
      BY <2>2, <1>4 DEF States, Flags, Answers
    <3> QED BY <1>1, <1>2, <3>1
  <2>3. CASE state[n] = "SYN_RECVD" /\ p.flags = "ACK" /\ GoTo(n, "ESTABLISHED") /\ Take(n)
    <3>1. Absorbed(n, p)
      BY <2>3, <1>5 DEF States, Absorbs
    <3> QED BY <1>1, <1>2, <3>1
  <2> QED BY <1>6, <2>1, <2>2, <2>3 DEF Opens
<1>7. CASE Exchanges(n, p)
  <2>1. CASE Acknowledged(n, p)
    BY <1>1, <1>2, <1>7, <2>1 DEF Exchanges, Acknowledged
  <2>2. CASE Gets(n, p)
    <3>1. state[n] = "ESTABLISHED" /\ UNCHANGED state /\ p.flags = "none" /\ Reply(n, Control(n, "ACK", p.seq))
      BY <1>7, <2>2 DEF Exchanges, Gets
    <3>2. GoTo(n, "ESTABLISHED")
      BY <3>1 DEF GoTo, TalkInv
    <3>3. Answered(n, p)
      BY <2>2, <3>1, <3>2, <1>4 DEF States, Flags, Answers
    <3> QED BY <1>1, <1>2, <3>3
  <2> QED BY <1>7, <2>1, <2>2 DEF Exchanges
<1>8. CASE Closes(n, p)
  <2>1. CASE /\ state[n] = "ESTABLISHED" /\ p.flags = "FIN" /\ GoTo(n, "CLOSE_WAIT")
             /\ Reply(n, Control(n, "ACK", 0))
    <3>1. Answered(n, p)
      BY <2>1, <1>4 DEF States, Flags, Answers
    <3> QED BY <1>1, <1>2, <3>1
  <2>2. CASE /\ state[n] = "FIN_WAIT1" /\ p.flags = "FIN" /\ GoTo(n, "CLOSING")
             /\ Reply(n, Control(n, "ACK", p.seq))
    <3>1. Answered(n, p)
      BY <2>2, <1>4 DEF States, Flags, Answers
    <3> QED BY <1>1, <1>2, <3>1
  <2>3. \A s, f, to : <<s, f, to>> \in Absorbs /\ to \in States /\ state[n] = s /\ p.flags = f
          /\ GoTo(n, to) /\ Take(n) => Absorbed(n, p)
    BY <1>5
  <2>4. CASE \/ state[n] = "LAST_ACK" /\ p.flags = "ACK" /\ GoTo(n, "CLOSED") /\ Take(n)
             \/ state[n] = "FIN_WAIT1" /\ p.flags = "ACK" /\ GoTo(n, "FIN_WAIT2") /\ Take(n)
             \/ state[n] = "FIN_WAIT2" /\ p.flags = "FIN" /\ GoTo(n, "TIME_WAIT") /\ Take(n)
             \/ state[n] = "CLOSING" /\ p.flags = "ACK" /\ GoTo(n, "TIME_WAIT") /\ Take(n)
    <3>1. /\ <<"LAST_ACK", "ACK", "CLOSED">> \in Absorbs /\ <<"FIN_WAIT1", "ACK", "FIN_WAIT2">> \in Absorbs
          /\ <<"FIN_WAIT2", "FIN", "TIME_WAIT">> \in Absorbs /\ <<"CLOSING", "ACK", "TIME_WAIT">> \in Absorbs
          /\ {"CLOSED", "FIN_WAIT2", "TIME_WAIT"} \subseteq States
      BY DEF Absorbs, States
    <3>2. Absorbed(n, p)
      BY <2>4, <2>3, <3>1
    <3> QED BY <1>1, <1>2, <3>2
  <2>5. CASE state[n] = "CLOSE_WAIT" /\ GoTo(n, "LAST_ACK") /\ Reply(n, Control(n, "FIN", 0))
    BY <1>1, <1>2, <2>5
  <2> QED BY <1>8, <2>1, <2>2, <2>4, <2>5 DEF Closes
<1>9. CASE Ignores(n, p)
  BY <1>1, <1>2, <1>9 DEF Ignores
<1> QED BY <1>3, <1>6, <1>7, <1>8, <1>9

LEMMA TransmitAdds ==
  ASSUME Functions, NEW n \in Agents, NEW p \in Packet, Transmit(n, p)
  PROVE  /\ wire'[n] = wire[n] /\ wire'[Peer(n)] = Append(wire[Peer(n)], p)
         /\ Added(wire[Peer(n)], wire'[Peer(n)], p.flags)
<1>1. wire[Peer(n)] \in Seq(Packet) /\ Peer(n) # n /\ Peer(n) \in Agents
  BY Peers DEF Functions
<1>2. wire'[n] = wire[n] /\ wire'[Peer(n)] = Append(wire[Peer(n)], p)
  BY <1>1 DEF Functions, Transmit
<1> QED BY <1>1, <1>2, AppendIsAdded

LEMMA TakeTakes ==
  ASSUME Functions, NEW n \in Agents, wire[n] # <<>>, Take(n)
  PROVE  /\ wire'[n] = Tail(wire[n]) /\ wire'[Peer(n)] = wire[Peer(n)]
         /\ Taken(wire[n], wire'[n], Head(wire[n]).flags)
<1>1. wire[n] \in Seq(Packet)
  BY DEF Functions
<1> QED BY <1>1, TakeQuiet, TailIsTaken

LEMMA ReplyTakesAndAdds ==
  ASSUME Functions, NEW n \in Agents, wire[n] # <<>>, NEW p \in Packet, Reply(n, p)
  PROVE  /\ wire'[n] = Tail(wire[n]) /\ wire'[Peer(n)] = Append(wire[Peer(n)], p)
         /\ Taken(wire[n], wire'[n], Head(wire[n]).flags)
         /\ Added(wire[Peer(n)], wire'[Peer(n)], p.flags)
<1>1. wire[n] \in Seq(Packet) /\ wire[Peer(n)] \in Seq(Packet) /\ Peer(n) # n /\ Peer(n) \in Agents
  BY Peers DEF Functions
<1>2. wire'[n] = Tail(wire[n]) /\ wire'[Peer(n)] = Append(wire[Peer(n)], p)
  BY <1>1 DEF Functions, Reply
<1> QED BY <1>1, <1>2, TailIsTaken, AppendIsAdded

(* Data comes only from an agent that has numbered some.                    *)
LEMMA DataIsNumbered ==
  ASSUME OrderInv, NEW n \in Agents, wire[n] # <<>>, Head(wire[n]).flags = "none"
  PROVE  seqData[Peer(n)] > 0 /\ Head(wire[n]).seq < seqData[Peer(n)]
<1> DEFINE k == Peer(n)
           u == UptoOf(k)
<1>1. WireInv(n) /\ SenderInv(k) /\ Functions /\ k \in Agents
  BY Peers DEF OrderInv
<1>2. Head(wire[n]) = wire[n][1] /\ 1 \in 1 .. Len(wire[n]) /\ Head(wire[n]).seq \in Nat
  BY <1>1, TailFacts DEF Functions, Packet
<1>3. Head(wire[n]).seq < u
  BY <1>1, <1>2 DEF WireInv, Direction, InOrder, IsData
<1>4. u \in Nat /\ u <= seqData[k] /\ seqData[k] \in Nat
  BY <1>1, UptoIsNat DEF SenderInv, UptoOf, Functions
<1> HIDE DEF u, k
<1> QED BY <1>2, <1>3, <1>4 DEF k

LEMMA StatesMove ==
  ASSUME TalkInv, NEW n \in Agents, NEW to \in States, state' = [state EXCEPT ![n] = to]
  PROVE  state'[n] = to /\ state'[Peer(n)] = state[Peer(n)] /\ state' \in [Agents -> States]
  BY Peers DEF TalkInv

LEMMA CallTalks ==
  ASSUME OrderInv, TalkInv, NEW n \in Agents, Connect(n) \/ Listen(n) \/ Disconnect(n)
  PROVE  TalkInv'
<1> DEFINE k == Peer(n)
           c == seqData[n] > 0
           d == seqData[k] > 0
<1>1. Functions /\ UNCHANGED seqData /\ k \in Agents
  BY Peers DEF OrderInv, Connect, Listen, Disconnect, Called, dataVars
<1>2. BothInv(state[n], state[k], wire[n], wire[k], c, d) /\ c \in BOOLEAN /\ d \in BOOLEAN
  BY TalkIsBoth DEF TalkInv, Both
<1>3. \A f \in {"SYN", "FIN"} : Control(n, f, 0) \in Packet /\ Control(n, f, 0).flags = f
  BY <1>1, PacketFacts DEF Control
<1>4. ASSUME NEW to \in States, GoTo(n, to), BothInv(to, state[k], wire'[n], wire'[k], c, d)
      PROVE  TalkInv'
  <2>1. state'[n] = to /\ state'[k] = state[k] /\ state' \in [Agents -> States]
    BY <1>4, StatesMove DEF GoTo
  <2>2. Both(n)'
    BY <1>1, <1>4, <2>1 DEF Both
  <2>3. (\A m \in Agents : EndOf(m))'
    BY <2>2, TalkIsBoth, PTL
  <2> QED BY <2>1, <2>3 DEF TalkInv
<1>5. ASSUME NEW f \in {"SYN", "FIN"}, Transmit(n, Control(n, f, 0))
      PROVE  wire'[n] = wire[n] /\ Added(wire[k], wire'[k], f)
  BY <1>1, <1>3, <1>5, TransmitAdds
<1>6. {"SYN_SENT", "LISTEN", "CLOSED", "LAST_ACK", "FIN_WAIT1"} \subseteq States
  BY DEF States
<1> HIDE DEF c, d
<1>7. CASE Connect(n)
  <2>1. state[n] = "CLOSED" /\ GoTo(n, "SYN_SENT") /\ Transmit(n, Control(n, "SYN", 0))
    BY <1>7 DEF Connect
  <2> QED BY <1>2, <1>4, <1>5, <1>6, <2>1, TransmissionsKeep
<1>8. CASE Listen(n)
  <2>1. state[n] = "CLOSED" /\ GoTo(n, "LISTEN") /\ UNCHANGED wire
    BY <1>8 DEF Listen
  <2>2. BothInv("LISTEN", state[k], wire[n], wire[k], c, d)
    BY <1>2, <2>1, CallsKeep, ZenonT(30)
  <2> QED BY <1>4, <1>6, <2>1, <2>2
<1>9. CASE Disconnect(n)
  <2>1. CASE state[n] \in {"LISTEN", "SYN_SENT"} /\ GoTo(n, "CLOSED") /\ UNCHANGED wire
    <3>1. BothInv("CLOSED", state[k], wire[n], wire[k], c, d)
      BY <1>2, <2>1, CallsKeep, ZenonT(30)
    <3> QED BY <1>4, <1>6, <2>1, <3>1
  <2>2. CASE state[n] = "CLOSE_WAIT" /\ GoTo(n, "LAST_ACK") /\ Transmit(n, Control(n, "FIN", 0))
    BY <1>2, <1>4, <1>5, <1>6, <2>2, TransmissionsKeep
  <2>3. CASE /\ state[n] \in {"ESTABLISHED", "SYN_RECVD"} /\ GoTo(n, "FIN_WAIT1")
             /\ Transmit(n, Control(n, "FIN", 0))
    BY <1>2, <1>4, <1>5, <1>6, <2>3, TransmissionsKeep
  <2> QED BY <1>9, <2>1, <2>2, <2>3 DEF Disconnect
<1> QED BY <1>7, <1>8, <1>9

LEMMA SendTalks ==
  ASSUME OrderInv, TalkInv, NEW n \in Agents, Send(n)
  PROVE  TalkInv'
<1>1. Functions /\ UNCHANGED <<state, wire>> /\ state[n] = "ESTABLISHED" /\ Peer(n) # n /\ Peer(n) \in Agents
  BY Peers DEF OrderInv, Send
<1>2. seqData'[n] = seqData[n] + 1 /\ seqData'[Peer(n)] = seqData[Peer(n)] /\ seqData[n] \in Nat
  BY <1>1 DEF Functions, Send
<1> DEFINE c == seqData[n] > 0
           d == seqData[Peer(n)] > 0
<1>3. seqData'[n] > 0 /\ (seqData'[Peer(n)] > 0) = d
  BY <1>2
<1>4. BothInv(state[n], state[Peer(n)], wire[n], wire[Peer(n)], c, d) /\ c \in BOOLEAN /\ d \in BOOLEAN
  BY TalkIsBoth DEF TalkInv, Both
<1> HIDE DEF c, d
<1>5. BothInv(state[n], state[Peer(n)], wire[n], wire[Peer(n)], TRUE, d)
  BY <1>1, <1>4, CallsKeep
<1>6. Both(n)'
  BY <1>1, <1>3, <1>5 DEF Both
<1>7. (\A m \in Agents : EndOf(m))'
  BY <1>6, TalkIsBoth, PTL
<1> QED BY <1>1, <1>7 DEF TalkInv

LEMMA UpdateTalks ==
  ASSUME OrderInv, TalkInv, NEW n \in Agents, Update(n)
  PROVE  TalkInv'
<1>1. Functions /\ UNCHANGED <<state, seqData>> /\ Peer(n) \in Agents
  BY Peers DEF OrderInv, Update
<1> DEFINE c == seqData[n] > 0
           d == seqData[Peer(n)] > 0
<1>2. BothInv(state[n], state[Peer(n)], wire[n], wire[Peer(n)], c, d) /\ c \in BOOLEAN /\ d \in BOOLEAN
  BY TalkIsBoth DEF TalkInv, Both
<1>3. CASE UNCHANGED wire
  BY <1>1, <1>3 DEF TalkInv, EndOf
<1> DEFINE p == Data(n, sendArray[n][windowPos[n] + 1])
<1>4. CASE HasRoom(n) /\ Transmit(n, p)
  <2>1. sendArray[n] \in Seq(Nat) /\ windowPos[n] + 1 \in 1 .. Len(sendArray[n])
    BY <1>1, <1>4, RoomFacts
  <2>2. p \in Packet /\ p.flags = "none"
    BY <1>1, <2>1, ElementOfSeq, PacketFacts DEF IsData
  <2> HIDE DEF p
  <2>3. wire'[n] = wire[n] /\ Added(wire[Peer(n)], wire'[Peer(n)], "none")
    BY <1>1, <1>4, <2>2, TransmitAdds
  <2> HIDE DEF c, d
  <2>4. BothInv(state[n], state[Peer(n)], wire[n], wire'[Peer(n)], c, d)
    BY <1>2, <2>3, TransmissionsKeep
  <2>5. Both(n)'
    BY <1>1, <2>3, <2>4 DEF Both, c, d
  <2>6. (\A m \in Agents : EndOf(m))'
    BY <2>5, TalkIsBoth, PTL
  <2> QED BY <1>1, <2>6 DEF TalkInv
<1> QED BY <1>3, <1>4 DEF Update

LEMMA ReceiveTalks ==
  ASSUME OrderInv, TalkInv, NEW n \in Agents, Receive(n)
  PROVE  TalkInv'
<1> DEFINE k == Peer(n)
           p == Head(wire[n])
           c == seqData[n] > 0
           d == seqData[k] > 0
<1>1. Functions /\ k \in Agents /\ Peer(k) = n
  BY Peers DEF OrderInv
<1>2. BothInv(state[n], state[k], wire[n], wire[k], c, d) /\ c \in BOOLEAN /\ d \in BOOLEAN
  BY TalkIsBoth DEF TalkInv, Both
<1>3. /\ wire[n] # <<>> /\ UNCHANGED <<seqData, port>>
      /\ \/ Answered(n, p)
         \/ state[n] = "CLOSE_WAIT" /\ GoTo(n, "LAST_ACK") /\ Reply(n, Control(n, "FIN", 0))
         \/ Absorbed(n, p)
         \/ UNCHANGED state /\ Take(n)
  BY ReceiveCases
<1>4. p.seq \in Nat /\ 0 \in Nat /\ p.flags \in Flags
  BY <1>1, <1>3, HeadIsPacket DEF Received, Packet, Flags
<1>5. p.flags = "none" => d
  BY <1>3, DataIsNumbered
<1>6. ASSUME NEW to \in States, state' = [state EXCEPT ![n] = to],
             BothInv(to, state[k], wire'[n], wire'[k], c, d)
      PROVE  TalkInv'
  <2>1. state'[n] = to /\ state'[k] = state[k] /\ state' \in [Agents -> States]
    BY <1>6, StatesMove
  <2>2. Both(n)'
    BY <1>3, <1>6, <2>1 DEF Both
  <2>3. (\A m \in Agents : EndOf(m))'
    BY <2>2, TalkIsBoth, PTL
  <2> QED BY <2>1, <2>3 DEF TalkInv
<1>7. ASSUME NEW g \in {"SYN", "SYN+ACK", "ACK", "FIN"}, NEW ack \in {p.seq, 0}, Reply(n, Control(n, g, ack))
      PROVE  Taken(wire[n], wire'[n], p.flags) /\ Added(wire[k], wire'[k], g)
  <2>1. Control(n, g, ack) \in Packet /\ Control(n, g, ack).flags = g
    BY <1>1, <1>4, PacketFacts DEF Control
  <2> QED BY <1>1, <1>3, <1>7, <2>1, ReplyTakesAndAdds
<1>8. Take(n) => Taken(wire[n], wire'[n], p.flags) /\ wire'[k] = wire[k]
  BY <1>1, <1>3, TakeTakes
<1>9. \A v, w, f : Taken(w, v, f) => Less(v, w)
  BY DEF Taken
<1> HIDE DEF c, d, p
<1>10. CASE Answered(n, p)
  <2>1. PICK f \in Flags, to \in States, g \in Flags, ack \in {p.seq, 0} :
          /\ <<state[n], f, to, g>> \in Answers /\ p.flags = f
          /\ state' = [state EXCEPT ![n] = to] /\ Reply(n, Control(n, g, ack))
    BY <1>10 DEF Answered
  <2>2. g \in {"SYN", "SYN+ACK", "ACK", "FIN"}
    BY <2>1 DEF Answers
  <2>3. Taken(wire[n], wire'[n], f) /\ Added(wire[k], wire'[k], g)
    BY <1>7, <2>1, <2>2
  <2>4. BothInv(to, state[k], wire'[n], wire'[k], c, d)
    BY <1>2, <1>5, <2>1, <2>3, AnswerKeeps
  <2> QED BY <1>6, <2>1, <2>4
<1>11. CASE state[n] = "CLOSE_WAIT" /\ GoTo(n, "LAST_ACK") /\ Reply(n, Control(n, "FIN", 0))
  <2>1. Less(wire'[n], wire[n]) /\ Added(wire[k], wire'[k], "FIN")
    BY <1>7, <1>9, <1>11
  <2>2. BothInv("LAST_ACK", state[k], wire'[n], wire'[k], c, d)
    BY <1>2, <1>11, <2>1, LastAnswerKeeps
  <2> QED BY <1>6, <1>11, <2>2 DEF GoTo, States
<1>12. CASE Absorbed(n, p)
  <2>1. PICK to \in States :
          <<state[n], p.flags, to>> \in Absorbs /\ state' = [state EXCEPT ![n] = to] /\ Take(n)
    BY <1>12 DEF Absorbed
  <2>2. BothInv(to, state[k], wire'[n], wire'[k], c, d)
    BY <1>2, <1>8, <2>1, AbsorbKeeps
  <2> QED BY <1>6, <2>1, <2>2
<1>13. CASE UNCHANGED state /\ Take(n)
  <2>1. BothInv(state[n], state[k], wire'[n], wire'[k], c, d)
    BY <1>2, <1>8, <1>9, <1>13, LossKeeps
  <2>2. state' = [state EXCEPT ![n] = state[n]] /\ state[n] \in States
    BY <1>13 DEF TalkInv
  <2> QED BY <1>6, <2>1, <2>2
<1> QED BY <1>3, <1>10, <1>11, <1>12, <1>13

LEMMA LoseTalks ==
  ASSUME OrderInv, TalkInv, NEW n \in Agents, Lose(n)
  PROVE  TalkInv'
<1>1. /\ Functions /\ Peer(n) \in Agents /\ UNCHANGED <<state, seqData>>
      /\ wire[n] # <<>> /\ Take(n)
  BY Peers DEF OrderInv, Lose, dataVars
<1>2. Less(wire'[n], wire[n]) /\ wire'[Peer(n)] = wire[Peer(n)]
  BY <1>1, TakeTakes DEF Taken
<1> DEFINE c == seqData[n] > 0
           d == seqData[Peer(n)] > 0
<1>3. BothInv(state[n], state[Peer(n)], wire[n], wire[Peer(n)], c, d) /\ c \in BOOLEAN /\ d \in BOOLEAN
  BY TalkIsBoth DEF TalkInv, Both
<1> HIDE DEF c, d
<1>4. BothInv(state[n], state[Peer(n)], wire'[n], wire[Peer(n)], c, d)
  BY <1>2, <1>3, LossKeeps
<1>5. Both(n)'
  BY <1>1, <1>2, <1>4 DEF Both, c, d
<1>6. (\A m \in Agents : EndOf(m))'
  BY <1>5, TalkIsBoth, PTL
<1> QED BY <1>1, <1>6 DEF TalkInv

LEMMA TalkStep == OrderInv /\ TalkInv /\ [Next]_vars => TalkInv'
<1>1. ASSUME TalkInv, UNCHANGED <<state, wire, seqData>> PROVE TalkInv'
  BY <1>1 DEF TalkInv, EndOf
<1>2. ASSUME NEW n \in Agents, ReadyToSend(n) PROVE UNCHANGED <<state, wire, seqData>>
  BY <1>2 DEF ReadyToSend
<1>3. UNCHANGED vars => UNCHANGED <<state, wire, seqData>>
  BY DEF vars, dataVars
<1> QED BY <1>1, <1>2, <1>3, CallTalks, SendTalks, UpdateTalks, ReceiveTalks, LoseTalks DEF Next

-----------------------------------------------------------------------------
(* What is acknowledged has been received: the numbers of which an agent    *)
(* has removed the packets, and, while it is connected, those on their way. *)
In(k, r) == \E i \in 1 .. Len(r) : r[i] = k
AcksHold(w, r) == \A i \in 1 .. Len(w) : w[i].flags = "ACK" => In(w[i].ack, r)

GivenUp(n) == seqData[n] - Len(sendArray[n])

PromisesOf(n) ==
  /\ \A k \in Nat : k < GivenUp(n) => In(k, recvArray[Peer(n)])
  /\ state[n] = "ESTABLISHED" => AcksHold(wire[n], recvArray[Peer(n)])

PromiseInv == \A n \in Agents : PromisesOf(n)

LEMMA InGrows ==
  ASSUME NEW r \in Seq(Nat), NEW e \in Nat
  PROVE  In(e, Append(r, e)) /\ \A k : In(k, r) => In(k, Append(r, e))
<1> DEFINE s == Append(r, e)
<1>1. /\ Len(r) \in Nat /\ Len(s) = Len(r) + 1 /\ s[Len(r) + 1] = e
      /\ \A i \in 1 .. Len(r) : s[i] = r[i]
  BY AppendProperties, LenProperties
<1> HIDE DEF s
<1>2. Len(r) + 1 \in 1 .. Len(s) /\ \A i \in 1 .. Len(r) : i \in 1 .. Len(s)
  BY <1>1
<1>3. In(e, s) /\ \A k : In(k, r) => In(k, s)
  BY <1>1, <1>2 DEF In
<1> QED BY <1>3 DEF s

LEMMA AcksTail ==
  ASSUME NEW w \in Seq(Packet), w # <<>>, NEW r, AcksHold(w, r)
  PROVE  AcksHold(Tail(w), r) /\ (Head(w).flags = "ACK" => In(Head(w).ack, r))
  BY TailFacts DEF AcksHold

LEMMA AcksAppend ==
  ASSUME NEW w \in Seq(Packet), NEW p \in Packet, NEW r, AcksHold(w, r), p.flags = "ACK" => In(p.ack, r)
  PROVE  AcksHold(Append(w, p), r)
<1> DEFINE v == Append(w, p)
<1>1. Len(w) \in Nat /\ Len(v) = Len(w) + 1 /\ v[Len(w) + 1] = p /\ \A i \in 1 .. Len(w) : v[i] = w[i]
  BY AppendProperties, LenProperties
<1> HIDE DEF v
<1>2. \A i \in 1 .. Len(v) : i \in 1 .. Len(w) \/ i = Len(w) + 1
  BY <1>1
<1>3. AcksHold(v, r)
  BY <1>1, <1>2 DEF AcksHold
<1> QED BY <1>3 DEF v

LEMMA NoAcks == \A w, r : ~Has(w, "ACK") => AcksHold(w, r)
  BY DEF Has, AcksHold

LEMMA PromiseInit == Init => PromiseInv
<1> SUFFICES ASSUME Init, NEW n \in Agents PROVE PromisesOf(n)
  BY DEF PromiseInv
<1>1. state[n] = "CLOSED" /\ seqData[n] = 0 /\ sendArray[n] = <<>>
  BY DEF Init, Each
<1>2. GivenUp(n) = 0
  <2>1. Len(sendArray[n]) = 0 /\ seqData[n] = 0
    BY <1>1
  <2> QED BY <2>1 DEF GivenUp
<1> QED BY <1>1, <1>2 DEF PromisesOf

(* A step that moves no data keeps the promises if no agent is connected by *)
(* it with acknowledgements on their way and none is sent to a connected    *)
(* agent.                                                                   *)
LEMMA SilentKeepsPromises ==
  ASSUME PromiseInv, UNCHANGED <<recvArray>>, \A m \in Agents : GivenUp(m)' = GivenUp(m),
         \A m \in Agents : state'[m] = "ESTABLISHED" /\ state[m] # "ESTABLISHED" => ~Has(wire'[m], "ACK"),
         \A m \in Agents : state'[m] = "ESTABLISHED" /\ state[m] = "ESTABLISHED"
           => (AcksHold(wire[m], recvArray[Peer(m)]) => AcksHold(wire'[m], recvArray[Peer(m)]))
  PROVE  PromiseInv'
<1> SUFFICES ASSUME NEW m \in Agents PROVE PromisesOf(m)'
  BY DEF PromiseInv
<1>1. PromisesOf(m)
  BY DEF PromiseInv
<1>2. ASSUME state'[m] = "ESTABLISHED" PROVE AcksHold(wire'[m], recvArray[Peer(m)])
  BY <1>1, <1>2, NoAcks DEF PromisesOf
<1> QED BY <1>1, <1>2 DEF PromisesOf

LEMMA CallPromises ==
  ASSUME OrderInv, TalkInv, PromiseInv, NEW n \in Agents, Connect(n) \/ Listen(n) \/ Disconnect(n)
  PROVE  PromiseInv'
<1>1. Functions /\ UNCHANGED <<seqData, sendArray, recvArray>> /\ Peer(n) \in Agents
  BY Peers DEF OrderInv, Connect, Listen, Disconnect, Called, dataVars
<1>2. \A m \in Agents : m = n \/ m = Peer(n)
  BY DEF Agents, Peer
<1>3. state'[n] # "ESTABLISHED" /\ state'[Peer(n)] = state[Peer(n)]
  <2>1. \E to \in States \ {"ESTABLISHED"} : state' = [state EXCEPT ![n] = to]
    BY DEF Connect, Listen, Disconnect, GoTo, States
  <2> QED BY <2>1, StatesMove
<1>4. UNCHANGED wire \/ \E f \in {"SYN", "FIN"} : Transmit(n, Control(n, f, 0))
  BY DEF Connect, Listen, Disconnect
<1>5. ASSUME NEW r, AcksHold(wire[Peer(n)], r) PROVE AcksHold(wire'[Peer(n)], r)
  <2>1. CASE UNCHANGED wire
    BY <1>5, <2>1
  <2>2. ASSUME NEW f \in {"SYN", "FIN"}, Transmit(n, Control(n, f, 0)) PROVE AcksHold(wire'[Peer(n)], r)
    <3>1. Control(n, f, 0) \in Packet /\ Control(n, f, 0).flags # "ACK"
      BY <1>1, PacketFacts DEF Control
    <3>2. wire'[Peer(n)] = Append(wire[Peer(n)], Control(n, f, 0)) /\ wire[Peer(n)] \in Seq(Packet)
      BY <1>1, <2>2, <3>1, TransmitAdds DEF Functions
    <3> QED BY <1>5, <3>1, <3>2, AcksAppend
  <2> QED BY <1>4, <2>1, <2>2
<1>6. \A m \in Agents : GivenUp(m)' = GivenUp(m)
  BY <1>1 DEF GivenUp
<1> QED BY <1>1, <1>2, <1>3, <1>5, <1>6, SilentKeepsPromises

LEMMA SendPromises ==
  ASSUME OrderInv, PromiseInv, NEW n \in Agents, Send(n)
  PROVE  PromiseInv'
<1>1. Functions /\ UNCHANGED <<state, recvArray, wire>>
  BY DEF OrderInv, Send
<1>2. ASSUME NEW m \in Agents PROVE GivenUp(m)' = GivenUp(m)
  <2>1. sendArray[m] \in Seq(Nat) /\ Len(sendArray[m]) \in Nat /\ seqData[m] \in Nat
    BY <1>1, LenProperties DEF Functions
  <2>2. CASE m # n
    BY <1>1, <2>2 DEF Send, Functions, GivenUp
  <2>3. CASE m = n
    <3>1. sendArray'[m] = Append(sendArray[m], seqData[m]) /\ seqData'[m] = seqData[m] + 1
      BY <1>1, <2>3 DEF Send, Functions
    <3>2. Len(sendArray'[m]) = Len(sendArray[m]) + 1
      BY <2>1, <3>1, AppendProperties
    <3> QED BY <2>1, <3>1, <3>2 DEF GivenUp
  <2> QED BY <2>2, <2>3
<1> QED BY <1>1, <1>2, SilentKeepsPromises

LEMMA UpdatePromises ==
  ASSUME OrderInv, PromiseInv, NEW n \in Agents, Update(n)
  PROVE  PromiseInv'
<1>1. Functions /\ UNCHANGED <<state, seqData, sendArray, recvArray>> /\ Peer(n) \in Agents
  BY Peers DEF OrderInv, Update
<1>2. \A m \in Agents : GivenUp(m)' = GivenUp(m)
  BY <1>1 DEF GivenUp
<1>3. CASE UNCHANGED wire
  BY <1>1, <1>2, <1>3, SilentKeepsPromises
<1> DEFINE p == Data(n, sendArray[n][windowPos[n] + 1])
<1>4. CASE HasRoom(n) /\ Transmit(n, p)
  <2>1. sendArray[n] \in Seq(Nat) /\ windowPos[n] + 1 \in 1 .. Len(sendArray[n])
    BY <1>1, <1>4, RoomFacts
  <2>2. p \in Packet /\ p.flags = "none"
    BY <1>1, <2>1, ElementOfSeq, PacketFacts DEF IsData
  <2> HIDE DEF p
  <2>3. wire'[n] = wire[n] /\ wire'[Peer(n)] = Append(wire[Peer(n)], p) /\ wire[Peer(n)] \in Seq(Packet)
    BY <1>1, <1>4, <2>2, TransmitAdds DEF Functions
  <2>4. \A m \in Agents : m = n \/ m = Peer(n)
    BY DEF Agents, Peer
  <2>5. ASSUME NEW m \in Agents, NEW r, AcksHold(wire[m], r) PROVE AcksHold(wire'[m], r)
    BY <2>2, <2>3, <2>4, <2>5, AcksAppend, Zenon
  <2> QED BY <1>1, <1>2, <2>5, SilentKeepsPromises
<1> QED BY <1>3, <1>4 DEF Update

LEMMA AcknowledgementPromises ==
  ASSUME OrderInv, PromiseInv, NEW n \in Agents, wire[n] # <<>>,
         state[n] = "ESTABLISHED", UNCHANGED state, Acknowledged(n, Head(wire[n]))
  PROVE  PromiseInv'
<1> DEFINE k == Peer(n)
           p == Head(wire[n])
<1>1. /\ Functions /\ UNCHANGED <<seqData, recvArray>> /\ k \in Agents /\ k # n /\ Peer(k) = n
      /\ Take(n) /\ p.flags = "ACK" /\ sendArray[n] # <<>> /\ p.ack = Head(sendArray[n])
      /\ sendArray' = [sendArray EXCEPT ![n] = Tail(sendArray[n])]
  BY Peers DEF OrderInv, Acknowledged, Acknowledges
<1>2. SenderInv(n) /\ PromisesOf(n) /\ PromisesOf(k) /\ wire[n] \in Seq(Packet)
  BY <1>1 DEF OrderInv, PromiseInv, Functions
<1>3. wire'[n] = Tail(wire[n]) /\ wire'[k] = wire[k]
  BY <1>1, TakeTakes
<1>4. In(p.ack, recvArray[k]) /\ AcksHold(wire'[n], recvArray[k])
  BY <1>2, <1>3, AcksTail, <1>1 DEF PromisesOf
<1> HIDE DEF k, p
<1>5. sendArray'[n] = Tail(sendArray[n]) /\ sendArray'[k] = sendArray[k]
  BY <1>1 DEF Functions
<1>6. GivenUp(n) \in Nat /\ p.ack = GivenUp(n) /\ GivenUp(n)' = GivenUp(n) + 1 /\ GivenUp(k)' = GivenUp(k)
  <2>1. sendArray[n] \in Seq(Nat) /\ seqData[n] \in Nat /\ Len(sendArray[n]) \in Nat \ {0}
    BY <1>1, EmptySeq, LenProperties DEF Functions
  <2>2. Len(sendArray[n]) <= seqData[n] /\ Head(sendArray[n]) = seqData[n] - Len(sendArray[n])
    <3>1. Head(sendArray[n]) = sendArray[n][1] /\ 1 \in 1 .. Len(sendArray[n])
      BY <2>1
    <3> QED BY <1>2, <2>1, <3>1 DEF SenderInv, Numbered
  <2>3. Len(sendArray'[n]) = Len(sendArray[n]) - 1
    BY <1>1, <1>5, <2>1, HeadTailProperties
  <2> QED BY <1>1, <1>5, <2>1, <2>2, <2>3 DEF GivenUp
<1>7. ASSUME NEW q \in Nat, q < GivenUp(n) + 1 PROVE In(q, recvArray[k])
  <2>1. CASE q < GivenUp(n)
    BY <1>2, <2>1 DEF PromisesOf, k
  <2>2. CASE q = GivenUp(n)
    BY <1>4, <1>6, <2>2
  <2> QED BY <1>6, <1>7, <2>1, <2>2
<1>8. PromisesOf(n)'
  BY <1>1, <1>4, <1>6, <1>7 DEF PromisesOf, k
<1>9. PromisesOf(k)'
  BY <1>1, <1>2, <1>3, <1>6 DEF PromisesOf
<1>10. \A m \in Agents : m = n \/ m = k
  BY DEF Agents, Peer, k
<1> QED BY <1>8, <1>9, <1>10 DEF PromiseInv

LEMMA GetsPromises ==
  ASSUME OrderInv, PromiseInv, NEW n \in Agents, wire[n] # <<>>,
         state[n] = "ESTABLISHED", UNCHANGED state, Gets(n, Head(wire[n]))
  PROVE  PromiseInv'
<1> DEFINE k == Peer(n)
           p == Head(wire[n])
           answer == Control(n, "ACK", p.seq)
<1>1. /\ Functions /\ UNCHANGED <<seqData, sendArray>> /\ k \in Agents /\ k # n /\ Peer(k) = n
      /\ Reply(n, answer)
      /\ recvArray' = [recvArray EXCEPT ![n] = Append(recvArray[n], p.seq)]
  BY Peers DEF OrderInv, Gets
<1>2. p.seq \in Nat /\ answer \in Packet /\ answer.ack = p.seq /\ answer.flags = "ACK"
  BY <1>1, HeadIsPacket, PacketFacts DEF Received, Control
<1>3. wire'[n] = Tail(wire[n]) /\ wire'[k] = Append(wire[k], answer)
  BY <1>1, <1>2, ReplyTakesAndAdds
<1>4. wire[n] \in Seq(Packet) /\ wire[k] \in Seq(Packet) /\ recvArray[n] \in Seq(Nat)
  BY <1>1 DEF Functions
<1>5. recvArray'[n] = Append(recvArray[n], p.seq) /\ recvArray'[k] = recvArray[k]
  BY <1>1 DEF Functions
<1>6. PromisesOf(n) /\ PromisesOf(k) /\ GivenUp(n)' = GivenUp(n) /\ GivenUp(k)' = GivenUp(k)
  BY <1>1 DEF PromiseInv, GivenUp
<1> DEFINE r == recvArray[n]
           s == recvArray'[n]
<1>7. In(p.seq, s) /\ \A q : In(q, r) => In(q, s)
  BY <1>2, <1>4, <1>5, InGrows
<1> HIDE DEF answer, p
<1>8. PromisesOf(n)'
  <2>1. state[n] = "ESTABLISHED" => AcksHold(wire'[n], recvArray[k])
    BY <1>3, <1>4, <1>6, AcksTail DEF PromisesOf
  <2> QED BY <1>1, <1>5, <1>6, <2>1 DEF PromisesOf
<1>9. PromisesOf(k)'
  <2>1. ASSUME state[k] = "ESTABLISHED" PROVE AcksHold(wire'[k], s)
    <3>1. AcksHold(wire[k], r)
      BY <1>1, <1>6, <2>1 DEF PromisesOf
    <3>2. AcksHold(wire[k], s)
      BY <1>7, <3>1 DEF AcksHold
    <3> QED BY <1>2, <1>3, <1>4, <1>7, <3>2, AcksAppend
  <2>2. \A q \in Nat : q < GivenUp(k) => In(q, s)
    BY <1>1, <1>6, <1>7 DEF PromisesOf
  <2> QED BY <1>1, <1>6, <2>1, <2>2 DEF PromisesOf
<1>10. \A m \in Agents : m = n \/ m = k
  BY DEF Agents, Peer
<1> QED BY <1>8, <1>9, <1>10 DEF PromiseInv

(* A packet that is only taken off the wire.                                *)
LEMMA TakePromises ==
  ASSUME OrderInv, TalkInv, PromiseInv, NEW n \in Agents, wire[n] # <<>>, Take(n),
         UNCHANGED <<seqData, sendArray, recvArray>>, UNCHANGED state \/ Absorbed(n, Head(wire[n]))
  PROVE  PromiseInv'
<1> DEFINE k == Peer(n)
           p == Head(wire[n])
<1>1. Functions /\ wire[n] \in Seq(Packet) /\ \A m \in Agents : m = n \/ m = k
  BY DEF OrderInv, Functions, Agents, Peer
<1>2. wire'[n] = Tail(wire[n]) /\ wire'[k] = wire[k] /\ Taken(wire[n], wire'[n], p.flags)
  BY <1>1, TakeTakes
<1>3. \A r : AcksHold(wire[n], r) => AcksHold(wire'[n], r)
  BY <1>1, <1>2, AcksTail
<1>4. state'[k] = state[k] /\ (state'[n] = "ESTABLISHED" /\ state[n] # "ESTABLISHED" => ~Has(wire'[n], "ACK"))
  <2>1. CASE UNCHANGED state
    BY <2>1
  <2>2. CASE Absorbed(n, p)
    <3>1. PICK to \in States : <<state[n], p.flags, to>> \in Absorbs /\ state' = [state EXCEPT ![n] = to]
      BY <2>2 DEF Absorbed
    <3>2. state'[n] = to /\ state'[k] = state[k]
      BY <3>1, StatesMove
    <3>3. to = "ESTABLISHED" => state[n] = "SYN_RECVD" /\ p.flags = "ACK"
      BY <3>1 DEF Absorbs
    <3>4. state[n] = "SYN_RECVD" => AtMostOne(wire[n], "ACK")
      BY DEF TalkInv, EndOf, EndInv, Shaking
    <3> QED BY <1>2, <3>2, <3>3, <3>4 DEF Taken
  <2> QED BY <2>1, <2>2
<1>5. \A m \in Agents : GivenUp(m)' = GivenUp(m)
  BY DEF GivenUp
<1> HIDE DEF k
<1> QED BY <1>1, <1>2, <1>3, <1>4, <1>5, SilentKeepsPromises

(* A packet that is answered, no data having come.                          *)
LEMMA AnswerPromises ==
  ASSUME OrderInv, TalkInv, PromiseInv, NEW n \in Agents, wire[n] # <<>>,
         UNCHANGED <<seqData, sendArray, recvArray>>,
         NEW g \in {"SYN+ACK", "ACK", "FIN"}, NEW ack \in Nat, Reply(n, Control(n, g, ack)),
         NEW to \in States, state' = [state EXCEPT ![n] = to],
         to = "ESTABLISHED" => state[n] = "SYN_SENT" /\ Head(wire[n]).flags = "SYN+ACK",
         g = "ACK" => \/ state[n] = "SYN_SENT"
                      \/ Head(wire[n]).flags = "FIN"
  PROVE  PromiseInv'
<1> DEFINE k == Peer(n)
           p == Head(wire[n])
           answer == Control(n, g, ack)
<1>1. /\ Functions /\ wire[n] \in Seq(Packet) /\ wire[k] \in Seq(Packet)
      /\ k \in Agents /\ Peer(k) = n /\ \A m \in Agents : m = n \/ m = k
  BY Peers DEF OrderInv, Functions, Agents, Peer
<1>2. answer \in Packet /\ answer.flags = g
  BY <1>1, PacketFacts DEF Control
<1>3. /\ wire'[n] = Tail(wire[n]) /\ wire'[k] = Append(wire[k], answer)
      /\ Taken(wire[n], wire'[n], p.flags)
  BY <1>1, <1>2, ReplyTakesAndAdds
<1> HIDE DEF answer
<1>4. state'[n] = to /\ state'[k] = state[k]
  BY StatesMove
<1>5. EndOf(n) /\ EndOf(k)
  BY <1>1 DEF TalkInv
<1>6. to = "ESTABLISHED" => ~Has(wire'[n], "ACK")
  BY <1>3, <1>5 DEF EndOf, EndInv, Shaking, Fresh, Taken, Less, Flags
<1>7. to = "ESTABLISHED" => state[n] # "ESTABLISHED"
  OBVIOUS
<1>8. state[k] = "ESTABLISHED" => g # "ACK"
  <2>1. ASSUME state[k] = "ESTABLISHED" PROVE ~Fresh(state[n]) /\ ~Has(wire[n], "FIN")
    BY <1>1, <1>5, <2>1 DEF EndOf, EndInv, Shaking, Closing, Fresh, Gone
  <2> QED BY <1>3, <2>1 DEF Fresh, Taken
<1>9. ASSUME state[k] = "ESTABLISHED", NEW r, AcksHold(wire[k], r) PROVE AcksHold(wire'[k], r)
  BY <1>1, <1>2, <1>3, <1>8, <1>9, AcksAppend
<1>10. \A m \in Agents : GivenUp(m)' = GivenUp(m)
  BY DEF GivenUp
<1> HIDE DEF k, p
<1> QED BY <1>1, <1>4, <1>6, <1>7, <1>9, <1>10, SilentKeepsPromises

LEMMA ReceivePromises ==
  ASSUME OrderInv, TalkInv, PromiseInv, NEW n \in Agents, Receive(n)
  PROVE  PromiseInv'
<1> DEFINE p == Head(wire[n])
<1>1. /\ wire[n] # <<>> /\ UNCHANGED seqData
      /\ \/ Answered(n, p)
         \/ state[n] = "CLOSE_WAIT" /\ GoTo(n, "LAST_ACK") /\ Reply(n, Control(n, "FIN", 0))
         \/ Absorbed(n, p)
         \/ UNCHANGED state /\ Take(n)
  BY ReceiveCases
<1>2. /\ Functions /\ p.seq \in Nat /\ 0 \in Nat
  BY <1>1, HeadIsPacket DEF Received, OrderInv
<1>3. CASE Exchanges(n, p)
  BY <1>1, <1>3, AcknowledgementPromises, GetsPromises DEF Exchanges
<1>4. CASE UNCHANGED dataVars
  <2>1. UNCHANGED <<seqData, sendArray, recvArray>>
    BY <1>4 DEF dataVars
  <2>2. ~Gets(n, p)
    <3>1. recvArray[n] \in Seq(Nat) /\ Len(recvArray[n]) \in Nat
      BY <1>2, LenProperties DEF Functions
    <3>2. Len(Append(recvArray[n], p.seq)) = Len(recvArray[n]) + 1
      BY <1>2, <3>1, AppendProperties
    <3>3. Gets(n, p) => recvArray'[n] = Append(recvArray[n], p.seq)
      BY <1>2 DEF Gets, Functions
    <3> QED BY <2>1, <3>1, <3>2, <3>3
  <2>3. CASE Answered(n, p)
    <3>1. PICK f \in Flags, to \in States, g \in Flags, ack \in {p.seq, 0} :
            /\ <<state[n], f, to, g>> \in Answers /\ p.flags = f
            /\ state' = [state EXCEPT ![n] = to] /\ Reply(n, Control(n, g, ack))
            /\ g = "ACK" => f \in {"SYN+ACK", "FIN"}
      BY <2>2, <2>3, ZenonT(30) DEF Answered
    <3>2. /\ g \in {"SYN+ACK", "ACK", "FIN"} /\ ack \in Nat
          /\ to = "ESTABLISHED" /\ f # "none" => state[n] = "SYN_SENT" /\ p.flags = "SYN+ACK"
          /\ f = "none" => g = "ACK"
          /\ f = "SYN+ACK" => state[n] = "SYN_SENT"
      BY <1>2, <3>1 DEF Answers
    <3>3. /\ to = "ESTABLISHED" => state[n] = "SYN_SENT" /\ p.flags = "SYN+ACK"
          /\ g = "ACK" => state[n] = "SYN_SENT" \/ p.flags = "FIN"
      BY <3>1, <3>2
    <3> QED BY <1>1, <2>1, <3>1, <3>2, <3>3, AnswerPromises
  <2>4. CASE state[n] = "CLOSE_WAIT" /\ GoTo(n, "LAST_ACK") /\ Reply(n, Control(n, "FIN", 0))
    BY <1>1, <1>2, <2>1, <2>4, AnswerPromises, Zenon DEF GoTo, States
  <2>5. CASE Absorbed(n, p)
    BY <1>1, <2>1, <2>5, TakePromises DEF Absorbed
  <2>6. CASE UNCHANGED state /\ Take(n)
    BY <1>1, <2>1, <2>6, TakePromises
  <2> QED BY <1>1, <2>3, <2>4, <2>5, <2>6
<1>5. Exchanges(n, p) \/ UNCHANGED dataVars
  BY DEF Receive, Opens, Closes, Ignores
<1> QED BY <1>3, <1>4, <1>5

LEMMA PromiseStep == OrderInv /\ TalkInv /\ PromiseInv /\ [Next]_vars => PromiseInv'
<1>1. ASSUME PromiseInv, UNCHANGED <<state, wire, seqData, sendArray, recvArray>> PROVE PromiseInv'
  BY <1>1 DEF PromiseInv, PromisesOf, GivenUp
<1>2. ASSUME NEW n \in Agents, ReadyToSend(n) PROVE UNCHANGED <<state, wire, seqData, sendArray, recvArray>>
  BY <1>2 DEF ReadyToSend
<1>3. UNCHANGED vars => UNCHANGED <<state, wire, seqData, sendArray, recvArray>>
  BY DEF vars, dataVars
<1>4. ASSUME OrderInv, TalkInv, PromiseInv, NEW n \in Agents, Lose(n) PROVE PromiseInv'
  BY <1>4, TakePromises DEF Lose, dataVars
<1> QED BY <1>1, <1>2, <1>3, <1>4, CallPromises, SendPromises, UpdatePromises, ReceivePromises DEF Next

(* Whatever the size of the window, whenever the agents connect and         *)
(* disconnect and whatever is lost: a packet that an agent has removed from *)
(* its array, because the acknowledgement of its number came, is one that   *)
(* the peer has received (indicate, which looks at the first packet of the  *)
(* array only, and never at the connection that an acknowledgement is of).  *)
THEOREM AcknowledgedArrived == Spec => []AcknowledgedWasReceived
<1>1. ASSUME OrderInv, PromiseInv PROVE AcknowledgedWasReceived
  <2> SUFFICES ASSUME NEW n \in Agents, NEW seq \in 0 .. seqData[n] - 1, seq \notin ToSet(sendArray[n])
               PROVE  seq \in ToSet(recvArray[Peer(n)])
    BY DEF AcknowledgedWasReceived
  <2>1. /\ sendArray[n] \in Seq(Nat) /\ seqData[n] \in Nat /\ Len(sendArray[n]) \in Nat
        /\ recvArray[Peer(n)] \in Seq(Nat)
    BY <1>1, Peers, LenProperties DEF OrderInv, Functions
  <2>2. SenderInv(n) /\ PromisesOf(n)
    BY <1>1 DEF OrderInv, PromiseInv
  <2>3. seq < GivenUp(n)
    <3> SUFFICES ASSUME ~(seq < GivenUp(n)) PROVE FALSE
      OBVIOUS
    <3> DEFINE i == seq - GivenUp(n) + 1
    <3>1. GivenUp(n) = seqData[n] - Len(sendArray[n]) /\ seq \in Nat /\ seq < seqData[n]
      BY <2>1 DEF GivenUp
    <3>2. i \in 1 .. Len(sendArray[n]) /\ seqData[n] - Len(sendArray[n]) + i - 1 = seq
      BY <2>1, <3>1, SMTT(30)
    <3> HIDE DEF i
    <3>3. sendArray[n][i] = seqData[n] - Len(sendArray[n]) + i - 1
      BY <2>2, <3>2 DEF SenderInv, Numbered
    <3>4. sendArray[n][i] = seq /\ i \in DOMAIN sendArray[n]
      BY <2>1, <3>2, <3>3, LenProperties
    <3> QED BY <3>4 DEF ToSet
  <2>4. In(seq, recvArray[Peer(n)])
    BY <2>1, <2>2, <2>3 DEF PromisesOf
  <2>5. DOMAIN recvArray[Peer(n)] = 1 .. Len(recvArray[Peer(n)])
    BY <2>1, LenProperties
  <2> QED BY <2>4, <2>5 DEF In, ToSet
<1> QED BY <1>1, OrderInit, OrderStep, TalkInit, TalkStep, PromiseInit, PromiseStep, PTL DEF Spec
-----------------------------------------------------------------------------
(* The window.  What a connected agent has transmitted and not given up is  *)
(* on the wire, once: the first numbers in acknowledgements on their way    *)
(* back, the others still as data.                                          *)
Number(p) == IF p.flags = "ACK" THEN p.ack ELSE p.seq

(* The packets of flags f on a wire are numbered a, a + 1, ... , b - 1.     *)
Carries(w, f, a, b) ==
  /\ a \in Nat /\ b \in Nat /\ a <= b
  /\ \A i \in 1 .. Len(w) : w[i].flags = f => a <= Number(w[i]) /\ Number(w[i]) < b
  /\ \A k \in Nat : a <= k /\ k < b => \E i \in 1 .. Len(w) : w[i].flags = f /\ Number(w[i]) = k
  /\ \A i, j \in 1 .. Len(w) :
       i < j /\ w[i].flags = f /\ w[j].flags = f => Number(w[i]) < Number(w[j])

(* No data comes ahead of an acknowledgement.                               *)
Led(w) == \E i \in 1 .. Len(w) : w[i].flags = "ACK" /\ \A j \in 1 .. i : w[j].flags # "none"

LEMMA NumberIsNat == \A p \in Packet : Number(p) \in Nat
  BY DEF Number, Packet

LEMMA CarriesMore ==
  ASSUME NEW w \in Seq(Packet), NEW p \in Packet, NEW f, NEW a, NEW b, Carries(w, f, a, b)
  PROVE  /\ p.flags # f => Carries(Append(w, p), f, a, b)
         /\ p.flags = f /\ Number(p) = b => Carries(Append(w, p), f, a, b + 1)
<1> DEFINE v == Append(w, p)
           n == Len(w)
<1>1. n \in Nat /\ Len(v) = n + 1 /\ v[n + 1] = p /\ \A i \in 1 .. n : v[i] = w[i]
  BY AppendProperties, LenProperties
<1>2. \A i \in 1 .. Len(w) : Number(w[i]) \in Nat
  BY ElementOfSeq, NumberIsNat
<1> HIDE DEF v
<1>3. /\ \A i \in 1 .. n : i \in 1 .. Len(v)
      /\ n + 1 \in 1 .. Len(v)
      /\ \A i \in 1 .. Len(v) : i \in 1 .. n \/ i = n + 1
      /\ \A i, j \in 1 .. Len(v) : i < j => i \in 1 .. n
  BY <1>1
<1>4. ASSUME p.flags # f PROVE Carries(v, f, a, b)
  <2>1. \A i \in 1 .. Len(v) : v[i].flags = f => i \in 1 .. n /\ v[i] = w[i]
    BY <1>1, <1>3, <1>4
  <2>2. \A k \in Nat : a <= k /\ k < b => \E i \in 1 .. Len(v) : v[i].flags = f /\ Number(v[i]) = k
    BY <1>1, <1>3 DEF Carries
  <2> QED BY <1>1, <2>1, <2>2 DEF Carries
<1>5. ASSUME p.flags = f, Number(p) = b PROVE Carries(v, f, a, b + 1)
  <2>1. a \in Nat /\ b \in Nat /\ a <= b
    BY DEF Carries
  <2>2. ASSUME NEW i \in 1 .. Len(v), v[i].flags = f PROVE a <= Number(v[i]) /\ Number(v[i]) < b + 1
    <3>1. CASE i \in 1 .. n
      <4>1. a <= Number(w[i]) /\ Number(w[i]) < b /\ v[i] = w[i]
        BY <1>1, <2>2, <3>1 DEF Carries
      <4> QED BY <1>2, <2>1, <3>1, <4>1
    <3>2. CASE i = n + 1
      BY <1>1, <1>5, <2>1, <3>2
    <3> QED BY <1>3, <3>1, <3>2
  <2>3. ASSUME NEW k \in Nat, a <= k, k < b + 1
        PROVE  \E i \in 1 .. Len(v) : v[i].flags = f /\ Number(v[i]) = k
    <3>1. CASE k < b
      BY <1>1, <1>3, <2>3, <3>1 DEF Carries
    <3>2. CASE k = b
      BY <1>1, <1>3, <1>5, <3>2
    <3> QED BY <2>1, <2>3, <3>1, <3>2
  <2>4. ASSUME NEW i \in 1 .. Len(v), NEW j \in 1 .. Len(v), i < j, v[i].flags = f, v[j].flags = f
        PROVE  Number(v[i]) < Number(v[j])
    <3>1. i \in 1 .. n /\ v[i] = w[i] /\ Number(v[i]) < b
      BY <1>1, <1>3, <2>4 DEF Carries
    <3>2. CASE j = n + 1
      BY <1>1, <1>5, <3>1, <3>2
    <3>3. CASE j \in 1 .. n
      BY <1>1, <2>4, <3>1, <3>3, Zenon DEF Carries
    <3> QED BY <1>3, <3>2, <3>3
  <2>5. b + 1 \in Nat /\ a <= b + 1
    BY <2>1
  <2> QED BY <2>1, <2>2, <2>3, <2>4, <2>5 DEF Carries
<1> QED BY <1>4, <1>5 DEF v

LEMMA CarriesLess ==
  ASSUME NEW w \in Seq(Packet), w # <<>>, NEW f, NEW a, NEW b, Carries(w, f, a, b)
  PROVE  /\ Head(w).flags # f => Carries(Tail(w), f, a, b)
         /\ Head(w).flags = f => Number(Head(w)) = a /\ a < b /\ Carries(Tail(w), f, a + 1, b)
<1> DEFINE v == Tail(w)
           p == Head(w)
<1>1. /\ v \in Seq(Packet) /\ Len(v) \in Nat /\ p \in Packet /\ p = w[1] /\ 1 \in 1 .. Len(w)
      /\ \A i \in 1 .. Len(v) : v[i] = w[i + 1] /\ i + 1 \in 1 .. Len(w)
  BY TailFacts
<1>2. Len(w) \in Nat /\ Len(v) = Len(w) - 1
  BY HeadTailProperties, LenProperties
<1>3. \A i \in 1 .. Len(w) : Number(w[i]) \in Nat
  BY ElementOfSeq, NumberIsNat
<1> HIDE DEF v, p
<1>4. \A i \in 1 .. Len(w) : i = 1 \/ (i - 1 \in 1 .. Len(v) /\ v[i - 1] = w[i])
  <2> TAKE i \in 1 .. Len(w)
  <2>1. i # 1 => i - 1 \in 1 .. Len(v) /\ (i - 1) + 1 = i
    BY <1>2
  <2> QED BY <1>1, <2>1
<1>5. \A i, j \in 1 .. Len(v) : i < j => i + 1 < j + 1
  BY <1>1
<1>6. a \in Nat /\ b \in Nat /\ a <= b
  BY DEF Carries
<1>7. ASSUME p.flags # f PROVE Carries(v, f, a, b)
  <2>1. ASSUME NEW k \in Nat, a <= k, k < b PROVE \E i \in 1 .. Len(v) : v[i].flags = f /\ Number(v[i]) = k
    <3>1. PICK i \in 1 .. Len(w) : w[i].flags = f /\ Number(w[i]) = k
      BY <2>1 DEF Carries
    <3> QED BY <1>1, <1>4, <1>7, <3>1
  <2>2. ASSUME NEW i \in 1 .. Len(v), v[i].flags = f PROVE a <= Number(v[i]) /\ Number(v[i]) < b
    <3>1. i + 1 \in 1 .. Len(w) /\ v[i] = w[i + 1]
      BY <1>1
    <3> QED BY <2>2, <3>1, Zenon DEF Carries
  <2>3. ASSUME NEW i \in 1 .. Len(v), NEW j \in 1 .. Len(v), i < j, v[i].flags = f, v[j].flags = f
        PROVE  Number(v[i]) < Number(v[j])
    <3>1. /\ i + 1 \in 1 .. Len(w) /\ j + 1 \in 1 .. Len(w) /\ i + 1 < j + 1
          /\ v[i] = w[i + 1] /\ v[j] = w[j + 1]
      BY <1>1, <1>5, <2>3
    <3> QED BY <2>3, <3>1, Zenon DEF Carries
  <2> QED BY <1>6, <2>1, <2>2, <2>3 DEF Carries
<1>8. ASSUME p.flags = f PROVE Number(p) = a /\ a < b /\ Carries(v, f, a + 1, b)
  <2>1. Number(p) \in Nat /\ a <= Number(p) /\ Number(p) < b
    BY <1>1, <1>3, <1>8 DEF Carries
  <2>2. a < b
    BY <1>6, <2>1
  <2>3. PICK i \in 1 .. Len(w) : w[i].flags = f /\ Number(w[i]) = a
    BY <1>6, <2>2 DEF Carries
  <2>4. i = 1
    <3> SUFFICES ASSUME i # 1 PROVE FALSE
      OBVIOUS
    <3>1. 1 < i
      BY <1>2
    <3>2. Number(w[1]) < Number(w[i])
      BY <1>1, <1>8, <2>3, <3>1 DEF Carries
    <3> QED BY <1>1, <1>6, <2>1, <2>3, <3>2
  <2>5. Number(p) = a
    BY <1>1, <2>3, <2>4
  <2>6. ASSUME NEW j \in 1 .. Len(v), v[j].flags = f PROVE a + 1 <= Number(v[j]) /\ Number(v[j]) < b
    <3>1. 1 < j + 1 /\ j + 1 \in 1 .. Len(w) /\ v[j] = w[j + 1] /\ Number(w[j + 1]) \in Nat
      BY <1>1, <1>3
    <3>2. Number(w[1]) < Number(w[j + 1]) /\ Number(w[j + 1]) < b
      BY <1>1, <1>8, <2>6, <3>1, Zenon DEF Carries
    <3> QED BY <1>1, <1>6, <2>5, <3>1, <3>2
  <2>7. ASSUME NEW k \in Nat, a + 1 <= k, k < b
        PROVE  \E j \in 1 .. Len(v) : v[j].flags = f /\ Number(v[j]) = k
    <3>1. PICK j \in 1 .. Len(w) : w[j].flags = f /\ Number(w[j]) = k
      BY <1>6, <2>7 DEF Carries
    <3>2. j # 1
      BY <1>1, <1>6, <2>5, <2>7, <3>1
    <3> QED BY <1>4, <3>1, <3>2
  <2>8. ASSUME NEW k \in 1 .. Len(v), NEW j \in 1 .. Len(v), k < j, v[k].flags = f, v[j].flags = f
        PROVE  Number(v[k]) < Number(v[j])
    <3>1. /\ k + 1 \in 1 .. Len(w) /\ j + 1 \in 1 .. Len(w) /\ k + 1 < j + 1
          /\ v[k] = w[k + 1] /\ v[j] = w[j + 1]
      BY <1>1, <1>5, <2>8
    <3> QED BY <2>8, <3>1 DEF Carries
  <2>9. a + 1 \in Nat /\ a + 1 <= b
    BY <1>6, <2>2
  <2> QED BY <1>6, <2>2, <2>5, <2>6, <2>7, <2>8, <2>9 DEF Carries
<1> QED BY <1>7, <1>8 DEF v, p

LEMMA CarriesNone ==
  ASSUME NEW w, NEW f, ~Has(w, f), NEW a \in Nat
  PROVE  Carries(w, f, a, a)
  BY DEF Has, Carries

(* So many packets are on the wire.                                         *)
LEMMA CarriesCounted ==
  ASSUME NEW w \in Seq(Packet), NEW f, NEW a, NEW b, Carries(w, f, a, b)
  PROVE  Cardinality({i \in DOMAIN w : w[i].flags = f}) = b - a
<1> DEFINE S == {i \in 1 .. Len(w) : w[i].flags = f}
           T == a .. b - 1
           num == [i \in S |-> Number(w[i])]
<1>1. Len(w) \in Nat /\ DOMAIN w = 1 .. Len(w) /\ \A i \in 1 .. Len(w) : Number(w[i]) \in Nat
  BY ElementOfSeq, LenProperties, NumberIsNat
<1>2. a \in Nat /\ b \in Nat /\ a <= b
  BY DEF Carries
<1>3. IsFiniteSet(1 .. Len(w))
  BY <1>1, FS_Interval
<1>4. IsFiniteSet(S)
  BY <1>3, FS_Subset
<1>5. num \in [S -> T]
  <2> SUFFICES ASSUME NEW i \in S PROVE Number(w[i]) \in T
    OBVIOUS
  <2>1. i \in 1 .. Len(w) /\ w[i].flags = f
    OBVIOUS
  <2>2. a <= Number(w[i]) /\ Number(w[i]) < b /\ Number(w[i]) \in Nat
    BY <1>1, <2>1 DEF Carries
  <2> QED BY <1>2, <2>2
<1>6. ASSUME NEW i \in S, NEW j \in S, i # j PROVE num[i] # num[j]
  <2>1. i \in 1 .. Len(w) /\ j \in 1 .. Len(w) /\ Number(w[i]) \in Nat /\ Number(w[j]) \in Nat
    BY <1>1
  <2>2. i < j \/ j < i
    BY <1>1, <1>6, <2>1
  <2>3. Number(w[i]) < Number(w[j]) \/ Number(w[j]) < Number(w[i])
    BY <2>1, <2>2 DEF Carries
  <2> QED BY <2>1, <2>3
<1>7. ASSUME NEW k \in T PROVE \E i \in S : num[i] = k
  <2>1. k \in Nat /\ a <= k /\ k < b
    BY <1>2
  <2>2. PICK i \in 1 .. Len(w) : w[i].flags = f /\ Number(w[i]) = k
    BY <2>1 DEF Carries
  <2>3. i \in S /\ num[i] = k
    BY <2>2
  <2> QED BY <2>3
<1> HIDE DEF num, S, T
<1>8. num \in Bijection(S, T)
  <2>1. num \in Injection(S, T)
    BY <1>5, <1>6 DEF Injection, IsInjective
  <2>2. num \in Surjection(S, T)
    BY <1>5, <1>7 DEF Surjection
  <2> QED BY <2>1, <2>2 DEF Bijection
<1>9. Cardinality(T) = Cardinality(S)
  BY <1>4, <1>8, FS_Bijection DEF ExistsBijection
<1>10. Cardinality(T) = b - a
  <2>1. Cardinality(a .. b - 1) = IF a > b - 1 THEN 0 ELSE (b - 1) - a + 1
    BY <1>2, FS_Interval
  <2> QED BY <1>2, <2>1 DEF T
<1> QED BY <1>1, <1>9, <1>10 DEF S

LEMMA LedMore ==
  ASSUME NEW w \in Seq(Packet), NEW p \in Packet
  PROVE  /\ Led(w) => Led(Append(w, p))
         /\ ~Has(w, "none") /\ p.flags = "ACK" => Led(Append(w, p))
<1> DEFINE v == Append(w, p)
           n == Len(w)
<1>1. n \in Nat /\ Len(v) = n + 1 /\ v[n + 1] = p /\ \A i \in 1 .. n : v[i] = w[i]
  BY AppendProperties, LenProperties
<1> HIDE DEF v
<1>2. Led(w) => Led(v)
  BY <1>1 DEF Led
<1>3. ASSUME ~Has(w, "none"), p.flags = "ACK" PROVE Led(v)
  <2>1. n + 1 \in 1 .. Len(v) /\ \A i \in 1 .. n + 1 : i \in 1 .. n \/ i = n + 1
    BY <1>1
  <2> QED BY <1>1, <1>3, <2>1 DEF Has, Led
<1> QED BY <1>2, <1>3 DEF v

LEMMA LedLess ==
  ASSUME NEW w \in Seq(Packet), w # <<>>, Led(w)
  PROVE  Head(w).flags # "none" /\ (Head(w).flags # "ACK" => Led(Tail(w)))
<1> DEFINE v == Tail(w)
           p == Head(w)
<1>1. /\ Len(v) \in Nat /\ p = w[1] /\ 1 \in 1 .. Len(w)
      /\ \A i \in 1 .. Len(v) : v[i] = w[i + 1] /\ i + 1 \in 1 .. Len(w)
  BY TailFacts
<1>2. Len(w) \in Nat /\ Len(v) = Len(w) - 1
  BY HeadTailProperties, LenProperties
<1> HIDE DEF v, p
<1>3. PICK i \in 1 .. Len(w) : w[i].flags = "ACK" /\ \A j \in 1 .. i : w[j].flags # "none"
  BY DEF Led
<1>4. p.flags # "none"
  BY <1>1, <1>3
<1>5. ASSUME p.flags # "ACK" PROVE Led(v)
  <2>1. i # 1
    BY <1>1, <1>3, <1>5
  <2>2. i - 1 \in 1 .. Len(v) /\ (i - 1) + 1 = i
    BY <1>2, <2>1
  <2>3. v[i - 1].flags = "ACK"
    BY <1>1, <1>3, <2>2
  <2>4. \A j \in 1 .. i - 1 : j \in 1 .. Len(v) /\ j + 1 \in 1 .. i
    BY <1>2, <2>2
  <2>5. \A j \in 1 .. i - 1 : v[j].flags # "none"
    BY <1>1, <1>3, <2>4
  <2> QED BY <2>2, <2>3, <2>5 DEF Led
<1> QED BY <1>4, <1>5 DEF v, p

(* As long as nothing was lost, the ports are one and nobody has closed.    *)
Live == port[1] = port[2] /\ lost = 0 /\ \A n \in Agents : ~Gone(state[n])

(* An agent in state s with the numbers g .. u - 1 in its window, its peer  *)
(* in state t, v on the way to it and w on the way to the peer.             *)
Window(s, t, v, w, g, u) ==
  /\ Has(v, "ACK") => t = "ESTABLISHED"
  /\ s = "ESTABLISHED" =>
       /\ \E m : Carries(v, "ACK", g, m) /\ Carries(w, "none", m, u)
       /\ t = "ESTABLISHED" \/ Led(w)

WindowOf(n) ==
  Window(state[n], state[Peer(n)], wire[n], wire[Peer(n)], GivenUp(n), UptoOf(n))

WindowInv ==
  /\ lost \in Nat /\ \A n \in Agents : windowPos[n] <= WindowSize
  /\ Live => \A n \in Agents :
       WindowOf(n) /\ \A i \in 1 .. Len(wire[n]) : wire[n][i].port = port[n]

LEMMA WindowInit == Init => WindowInv
<1> SUFFICES ASSUME Init PROVE WindowInv
  OBVIOUS
<1>1. lost = 0 /\ \A n \in Agents : windowPos[n] = 0 /\ wire[n] = <<>> /\ state[n] = "CLOSED"
  BY DEF Init, Each
<1>2. \A n \in Agents : WindowOf(n)
  BY <1>1, Peers DEF WindowOf, Window, Has
<1>3. 0 <= WindowSize
  BY GoBackNAssumption
<1> QED BY <1>1, <1>2, <1>3 DEF WindowInv

(* What the conversation is like meanwhile.                                 *)
LEMMA LiveFacts ==
  ASSUME OrderInv, TalkInv, Live, NEW n \in Agents
  PROVE  /\ state[n] \in {"CLOSED", "LISTEN", "SYN_SENT", "SYN_RECVD", "ESTABLISHED"}
         /\ ~Has(wire[n], "FIN")
         /\ state[n] = "ESTABLISHED" => state[Peer(n)] \in {"SYN_RECVD", "ESTABLISHED"}
         /\ state[n] # "ESTABLISHED" =>
              seqData[n] = 0 /\ UptoOf(n) = 0 /\ GivenUp(n) = 0 /\ sendArray[n] = <<>>
         /\ UptoOf(n) = 0 => ~Has(wire[Peer(n)], "none")
<1> DEFINE k == Peer(n)
<1>1. /\ k \in Agents /\ Peer(k) = n /\ EndOf(n) /\ EndOf(k) /\ state[n] \in States /\ state[k] \in States
      /\ ~Gone(state[n]) /\ ~Gone(state[k])
  BY Peers DEF TalkInv, Live
<1>2. state[n] \notin {"CLOSE_WAIT", "LAST_ACK"} /\ state[k] \notin {"CLOSE_WAIT", "LAST_ACK"}
  BY <1>1 DEF EndOf, EndInv, Closing
<1>3. /\ state[n] \in {"CLOSED", "LISTEN", "SYN_SENT", "SYN_RECVD", "ESTABLISHED"}
      /\ state[k] \in {"CLOSED", "LISTEN", "SYN_SENT", "SYN_RECVD", "ESTABLISHED"}
  BY <1>1, <1>2 DEF States, Gone
<1>4. ~Has(wire[n], "FIN")
  BY <1>1 DEF EndOf, EndInv, Closing
<1>5. state[n] = "ESTABLISHED" => state[k] \in {"SYN_RECVD", "ESTABLISHED"}
  BY <1>1, <1>3 DEF EndOf, EndInv, Shaking, Fresh
<1>6. /\ SenderInv(n) /\ WireInv(k) /\ sendArray[n] \in Seq(Nat) /\ seqData[n] \in Nat
      /\ Len(sendArray[n]) \in Nat /\ windowPos[n] \in Nat
  BY <1>1, LenProperties DEF OrderInv, Functions
<1>7. ASSUME state[n] # "ESTABLISHED"
      PROVE  seqData[n] = 0 /\ UptoOf(n) = 0 /\ GivenUp(n) = 0 /\ sendArray[n] = <<>>
  <2>1. ~(seqData[n] > 0)
    BY <1>1, <1>3, <1>7 DEF EndOf, EndInv, Fresh
  <2>2. seqData[n] = 0 /\ Len(sendArray[n]) = 0 /\ windowPos[n] = 0
    BY <1>6, <2>1 DEF SenderInv, Numbered
  <2> QED BY <1>6, <2>2, EmptySeq DEF UptoOf, Upto, GivenUp
<1>8. ASSUME UptoOf(n) = 0 PROVE ~Has(wire[k], "none")
  <2> SUFFICES ASSUME NEW i \in 1 .. Len(wire[k]), wire[k][i].flags = "none" PROVE FALSE
    BY DEF Has
  <2>1. wire[k][i].seq < 0 /\ wire[k][i].seq \in Nat
    BY <1>1, <1>6, <1>8, DirectionTypes DEF WireInv, Direction, InOrder, IsData
  <2> QED BY <2>1
<1> QED BY <1>3, <1>4, <1>5, <1>7, <1>8

LEMMA GivenUpIsNat ==
  ASSUME OrderInv, NEW n \in Agents
  PROVE  GivenUp(n) \in Nat /\ UptoOf(n) \in Nat /\ UptoOf(n) = GivenUp(n) + windowPos[n]
         /\ windowPos[n] \in Nat /\ windowPos[n] <= Len(sendArray[n])
<1>1. /\ SenderInv(n) /\ sendArray[n] \in Seq(Nat) /\ seqData[n] \in Nat
      /\ Len(sendArray[n]) \in Nat /\ windowPos[n] \in Nat
  BY LenProperties DEF OrderInv, Functions
<1>2. windowPos[n] <= Len(sendArray[n]) /\ Len(sendArray[n]) <= seqData[n]
  BY <1>1 DEF SenderInv, Numbered
<1> QED BY <1>1, <1>2 DEF GivenUp, UptoOf, Upto

(* Who has closed does not come back.                                       *)
LEMMA GoneStays ==
  ASSUME TalkInv, [Next]_vars, NEW m \in Agents, Gone(state[m])
  PROVE  Gone(state'[m])
<1> DEFINE s == state[m]
<1>1. ASSUME NEW n \in Agents, NEW to \in States, GoTo(n, to), Gone(state[n]) => Gone(to)
      PROVE  Gone(state'[m])
  BY <1>1 DEF GoTo, TalkInv
<1>2. UNCHANGED state => Gone(state'[m])
  OBVIOUS
<1>3. ASSUME NEW n \in Agents, Connect(n) \/ Listen(n) \/ Disconnect(n) PROVE Gone(state'[m])
  <2>1. \/ UNCHANGED state
        \/ \E to \in States : GoTo(n, to) /\ (Gone(state[n]) => Gone(to))
    BY <1>3 DEF Connect, Listen, Disconnect, Gone, States
  <2> QED BY <1>1, <1>2, <2>1
<1>4. ASSUME NEW n \in Agents, Receive(n) PROVE Gone(state'[m])
  <2> DEFINE p == Head(wire[n])
  <2>1. Opens(n, p) \/ Exchanges(n, p) \/ Closes(n, p) \/ Ignores(n, p)
    BY <1>4 DEF Receive
  <2>2. CASE Opens(n, p)
    <3>1. \E to \in States : GoTo(n, to) /\ ~Gone(state[n])
      BY <2>2 DEF Opens, Gone, States
    <3> QED BY <1>1, <3>1
  <2>3. CASE Closes(n, p)
    <3>1. \E to \in States : GoTo(n, to) /\ (Gone(state[n]) => Gone(to))
      BY <2>3 DEF Closes, Gone, States
    <3> QED BY <1>1, <3>1
  <2>4. CASE Exchanges(n, p) \/ Ignores(n, p)
    BY <1>2, <2>4 DEF Exchanges, Ignores
  <2> QED BY <2>1, <2>2, <2>3, <2>4
<1>5. ASSUME NEW n \in Agents, Send(n) \/ Update(n) \/ ReadyToSend(n) \/ Lose(n) PROVE UNCHANGED state
  BY <1>5 DEF Send, Update, ReadyToSend, Lose
<1> QED BY <1>2, <1>3, <1>4, <1>5 DEF Next, vars

LEMMA LiveBefore ==
  ASSUME TalkInv, lost \in Nat, [Next]_vars, Live'
  PROVE  Live /\ UNCHANGED <<port, lost>>
<1>1. UNCHANGED port
  BY DEF Next, vars, Connect, Listen, Disconnect, Called, Send, Update, ReadyToSend, Receive, Lose
<1>2. lost' = lost \/ lost' = lost + 1
  BY DEF Next, vars, Connect, Listen, Disconnect, Called, Send, Update, ReadyToSend, Receive, Lose
<1>3. lost = 0 /\ UNCHANGED lost
  BY <1>2 DEF Live
<1>4. \A m \in Agents : ~Gone(state[m])
  BY GoneStays DEF Live
<1> QED BY <1>1, <1>3, <1>4 DEF Live

-----------------------------------------------------------------------------
(* Both directions of a conversation: n is in state s and its peer in t, v  *)
(* are the packets on their way to n and w those to its peer, n's window is *)
(* g .. u - 1 and its peer's h .. x - 1.                                    *)
Windows(s, t, v, w, g, u, h, x) == Window(s, t, v, w, g, u) /\ Window(t, s, w, v, h, x)

(* v is w with a packet p behind it, v is w without its first packet p.     *)
More1(w, v, p) == w \in Seq(Packet) /\ p \in Packet /\ v = Append(w, p)
Less1(w, v, p) == w \in Seq(Packet) /\ w # <<>> /\ v = Tail(w) /\ p = Head(w)

LEMMA HasMore ==
  ASSUME NEW w, NEW v, NEW p, More1(w, v, p), NEW f \in Flags
  PROVE  Has(v, f) <=> Has(w, f) \/ p.flags = f
  BY AppendIsAdded DEF More1, Added

LEMMA HasLess ==
  ASSUME NEW w, NEW v, NEW p, Less1(w, v, p), NEW f \in Flags
  PROVE  (Has(v, f) => Has(w, f)) /\ Has(w, p.flags)
  BY TailIsTaken DEF Less1, Taken, Less

(* While neither is connected there are no acknowledgements.                *)
LEMMA WindowsUnconnected ==
  ASSUME NEW s, NEW t, NEW v, NEW w, NEW g, NEW u, NEW h, NEW x, Windows(s, t, v, w, g, u, h, x),
         s # "ESTABLISHED", t # "ESTABLISHED",
         NEW s1, s1 # "ESTABLISHED", NEW v1, NEW w1,
         Has(v1, "ACK") => Has(v, "ACK"), Has(w1, "ACK") => Has(w, "ACK")
  PROVE  Windows(s1, t, v1, w1, g, u, h, x)
  BY DEF Windows, Window

(* The next number is transmitted.                                          *)
LEMMA WindowsTransmit ==
  ASSUME NEW s, NEW t, NEW v, NEW w, NEW g, NEW u, NEW h, NEW x, Windows(s, t, v, w, g, u, h, x),
         s = "ESTABLISHED", NEW w1, NEW p, More1(w, w1, p), p.flags = "none", p.seq = u
  PROVE  Windows(s, t, v, w1, g, u + 1, h, x)
<1>1. (Has(w1, "ACK") => Has(w, "ACK")) /\ Number(p) = u
  BY HasMore DEF Flags, Number
<1>2. PICK m : Carries(v, "ACK", g, m) /\ Carries(w, "none", m, u)
  BY DEF Windows, Window
<1>3. Carries(w1, "none", m, u + 1)
  BY <1>1, <1>2, CarriesMore DEF More1
<1>4. Led(w) => Led(w1)
  BY LedMore DEF More1
<1>5. Window(s, t, v, w1, g, u + 1)
  BY <1>2, <1>3, <1>4 DEF Windows, Window
<1>6. \A a, b : Carries(w, "ACK", a, b) => Carries(w1, "ACK", a, b)
  BY CarriesMore DEF More1
<1>7. Window(t, s, w1, v, h, x)
  BY <1>1, <1>6 DEF Windows, Window
<1> QED BY <1>5, <1>7 DEF Windows

(* Data comes and is acknowledged.                                          *)
LEMMA WindowsGet ==
  ASSUME NEW s, NEW t, NEW v, NEW w, NEW g, NEW u, NEW h, NEW x, Windows(s, t, v, w, g, u, h, x),
         s = "ESTABLISHED", t = "ESTABLISHED",
         NEW v1, NEW p, Less1(v, v1, p), p.flags = "none",
         NEW w1, NEW q, More1(w, w1, q), q.flags = "ACK", q.ack = p.seq
  PROVE  Windows(s, t, v1, w1, g, u, h, x)
<1>1. Number(p) = p.seq /\ Number(q) = p.seq
  BY DEF Number
<1>2. PICK m : Carries(v, "ACK", g, m) /\ Carries(w, "none", m, u)
  BY DEF Windows, Window
<1>3. Carries(v1, "ACK", g, m)
  BY <1>2, CarriesLess DEF Less1
<1>4. Carries(w1, "none", m, u)
  BY <1>2, CarriesMore DEF More1
<1>5. PICK l : Carries(w, "ACK", h, l) /\ Carries(v, "none", l, x)
  BY DEF Windows, Window
<1>6. p.seq = l /\ Carries(v1, "none", l + 1, x)
  BY <1>1, <1>5, CarriesLess DEF Less1
<1>7. Carries(w1, "ACK", h, l + 1)
  BY <1>1, <1>5, <1>6, CarriesMore DEF More1
<1>8. Window(s, t, v1, w1, g, u)
  BY <1>3, <1>4 DEF Window
<1>9. Window(t, s, w1, v1, h, x)
  BY <1>6, <1>7 DEF Window
<1> QED BY <1>8, <1>9 DEF Windows

(* An acknowledgement comes: it is of the first packet.                     *)
LEMMA WindowsAcknowledged ==
  ASSUME NEW s, NEW t, NEW v, NEW w, NEW g, NEW u, NEW h, NEW x, Windows(s, t, v, w, g, u, h, x),
         s = "ESTABLISHED", NEW v1, NEW p, Less1(v, v1, p), p.flags = "ACK"
  PROVE  p.ack = g /\ g < u /\ Windows(s, t, v1, w, g + 1, u, h, x)
<1>1. Number(p) = p.ack /\ t = "ESTABLISHED" /\ (Has(v1, "ACK") => Has(v, "ACK"))
  BY HasLess DEF Number, Windows, Window, Flags
<1>2. PICK m : Carries(v, "ACK", g, m) /\ Carries(w, "none", m, u)
  BY DEF Windows, Window
<1>3. p.ack = g /\ g < m /\ Carries(v1, "ACK", g + 1, m)
  BY <1>1, <1>2, CarriesLess DEF Less1
<1>4. g < u
  BY <1>2, <1>3 DEF Carries
<1>5. \A a, b : Carries(v, "none", a, b) => Carries(v1, "none", a, b)
  BY CarriesLess DEF Less1
<1>6. Window(s, t, v1, w, g + 1, u)
  BY <1>1, <1>2, <1>3 DEF Window
<1>7. Window(t, s, w, v1, h, x)
  BY <1>1, <1>5 DEF Windows, Window
<1> QED BY <1>3, <1>4, <1>6, <1>7 DEF Windows

(* A packet that a connected agent, or one about to be, does not want.      *)
LEMMA WindowsIgnore ==
  ASSUME NEW s, NEW t, NEW v, NEW w, NEW g, NEW u, NEW h, NEW x, Windows(s, t, v, w, g, u, h, x),
         NEW v1, NEW p, Less1(v, v1, p), p.flags # "ACK",
         s = "ESTABLISHED" => p.flags # "none"
  PROVE  Windows(s, t, v1, w, g, u, h, x)
<1>1. Has(v1, "ACK") => Has(v, "ACK")
  BY HasLess DEF Flags
<1>2. \A a, b : Carries(v, "ACK", a, b) => Carries(v1, "ACK", a, b)
  BY CarriesLess DEF Less1
<1>3. Window(s, t, v1, w, g, u)
  BY <1>1, <1>2 DEF Windows, Window
<1>4. Led(v) => p.flags # "none" /\ Led(v1)
  BY LedLess DEF Less1
<1>5. p.flags # "none" => \A a, b : Carries(v, "none", a, b) => Carries(v1, "none", a, b)
  BY CarriesLess DEF Less1
<1>6. Window(t, s, w, v1, h, x)
  BY <1>4, <1>5 DEF Windows, Window
<1> QED BY <1>3, <1>6 DEF Windows

(* SYN+ACK comes to the end that called: nothing has been sent.             *)
LEMMA WindowsOpen ==
  ASSUME NEW s, NEW t, NEW v, NEW w, NEW h, NEW x, Windows(s, t, v, w, 0, 0, h, x),
         s # "ESTABLISHED", t # "ESTABLISHED", ~Has(w, "none"),
         NEW v1, NEW p, Less1(v, v1, p), NEW w1, NEW q, More1(w, w1, q), q.flags = "ACK"
  PROVE  Windows("ESTABLISHED", t, v1, w1, 0, 0, h, x)
<1>1. ~Has(v1, "ACK") /\ ~Has(w1, "none")
  BY HasLess, HasMore DEF Windows, Window, Flags
<1>2. Carries(v1, "ACK", 0, 0) /\ Carries(w1, "none", 0, 0)
  BY <1>1, CarriesNone
<1>3. Led(w1)
  BY LedMore DEF More1
<1>4. Window("ESTABLISHED", t, v1, w1, 0, 0)
  BY <1>1, <1>2, <1>3 DEF Window
<1>5. Window(t, "ESTABLISHED", w1, v1, h, x)
  BY DEF Window
<1> QED BY <1>4, <1>5 DEF Windows

(* The acknowledgement of the SYN+ACK comes to the other end.               *)
LEMMA WindowsOpened ==
  ASSUME NEW s, NEW t, NEW v, NEW w, NEW h, NEW x, Windows(s, t, v, w, 0, 0, h, x),
         s # "ESTABLISHED", ~Has(w, "none"), AtMostOne(v, "ACK"),
         NEW v1, NEW p, Less1(v, v1, p), p.flags = "ACK"
  PROVE  Windows("ESTABLISHED", t, v1, w, 0, 0, h, x)
<1>1. ~Has(v1, "ACK") /\ Has(v, "ACK") /\ t = "ESTABLISHED"
  BY TailIsTaken DEF Less1, Taken, Flags, Windows, Window
<1>2. Carries(v1, "ACK", 0, 0) /\ Carries(w, "none", 0, 0)
  BY <1>1, CarriesNone
<1>3. \A a, b : Carries(v, "none", a, b) => Carries(v1, "none", a, b)
  BY CarriesLess DEF Less1
<1>4. Window("ESTABLISHED", t, v1, w, 0, 0)
  BY <1>1, <1>2 DEF Window
<1>5. Window(t, "ESTABLISHED", w, v1, h, x)
  BY <1>1, <1>3 DEF Windows, Window
<1> QED BY <1>4, <1>5 DEF Windows

-----------------------------------------------------------------------------
WindowsOf(n) ==
  Windows(state[n], state[Peer(n)], wire[n], wire[Peer(n)],
          GivenUp(n), UptoOf(n), GivenUp(Peer(n)), UptoOf(Peer(n)))

OnPort == \A n \in Agents : \A i \in 1 .. Len(wire[n]) : wire[n][i].port = port[n]

(* What is known of n before a step of a live conversation.                 *)
LEMMA LiveWindows ==
  ASSUME WindowInv, Live, NEW n \in Agents
  PROVE  OnPort /\ WindowsOf(n)
<1>1. Peer(n) \in Agents /\ Peer(Peer(n)) = n
  BY Peers
<1> QED BY <1>1 DEF WindowInv, OnPort, WindowsOf, WindowOf, Windows

(* What has to be shown of a step of n.                                     *)
LEMMA WindowsTogether ==
  ASSUME NEW n \in Agents, lost' \in Nat, \A m \in Agents : windowPos'[m] <= WindowSize,
         Live' => OnPort' /\ WindowsOf(n)'
  PROVE  WindowInv'
<1>1. /\ Peer(n) \in Agents /\ Peer(Peer(n)) = n
      /\ \A m \in Agents : m = n \/ m = Peer(n)
  BY Peers DEF Agents, Peer
<1>2. WindowsOf(n)' => \A m \in Agents : WindowOf(m)'
  BY <1>1 DEF WindowsOf, WindowOf, Windows
<1> QED BY <1>2 DEF WindowInv, OnPort

LEMMA PortMore ==
  ASSUME NEW w \in Seq(Packet), NEW p \in Packet, NEW q, p.port = q, \A i \in 1 .. Len(w) : w[i].port = q
  PROVE  \A i \in 1 .. Len(Append(w, p)) : Append(w, p)[i].port = q
<1> DEFINE v == Append(w, p)
<1>1. Len(w) \in Nat /\ Len(v) = Len(w) + 1 /\ v[Len(w) + 1] = p /\ \A i \in 1 .. Len(w) : v[i] = w[i]
  BY AppendProperties, LenProperties
<1> HIDE DEF v
<1>2. \A i \in 1 .. Len(v) : i \in 1 .. Len(w) \/ i = Len(w) + 1
  BY <1>1
<1>3. \A i \in 1 .. Len(v) : v[i].port = q
  BY <1>1, <1>2
<1> QED BY <1>3 DEF v

LEMMA PortLess ==
  ASSUME NEW w \in Seq(Packet), w # <<>>, NEW q, \A i \in 1 .. Len(w) : w[i].port = q
  PROVE  Head(w).port = q /\ \A i \in 1 .. Len(Tail(w)) : Tail(w)[i].port = q
  BY TailFacts

(* What a step does to the wires, while both have the same port.            *)
LEMMA LiveTransmit ==
  ASSUME OrderInv, OnPort, port[1] = port[2], NEW n \in Agents, NEW p \in Packet, p.port \in {port[1], port[2]},
         UNCHANGED port, Transmit(n, p)
  PROVE  OnPort' /\ wire'[n] = wire[n] /\ More1(wire[Peer(n)], wire'[Peer(n)], p)
<1>1. /\ Functions /\ wire[Peer(n)] \in Seq(Packet) /\ Peer(n) \in Agents
      /\ \A m \in Agents : (m = n \/ m = Peer(n)) /\ port[m] = port[1]
  BY Peers DEF OrderInv, Functions, Agents, Peer
<1>2. wire'[n] = wire[n] /\ wire'[Peer(n)] = Append(wire[Peer(n)], p)
  BY <1>1, TransmitAdds
<1>3. \A m \in Agents : \A i \in 1 .. Len(wire[m]) : wire[m][i].port = port[1]
  BY <1>1 DEF OnPort
<1>4. \A i \in 1 .. Len(wire'[Peer(n)]) : wire'[Peer(n)][i].port = port[1]
  <2> DEFINE w == wire[Peer(n)]
             q == port[1]
  <2>1. w \in Seq(Packet) /\ p.port = q /\ \A i \in 1 .. Len(w) : w[i].port = q
    BY <1>1, <1>3
  <2> HIDE DEF w, q
  <2>2. \A i \in 1 .. Len(Append(w, p)) : Append(w, p)[i].port = q
    BY <2>1, PortMore
  <2> QED BY <1>2, <2>2 DEF w, q
<1>5. ASSUME NEW m \in Agents PROVE \A i \in 1 .. Len(wire'[m]) : wire'[m][i].port = port'[m]
  <2>1. port'[m] = port[1]
    BY <1>1
  <2>2. CASE m = n
    BY <1>2, <1>3, <2>1, <2>2
  <2>3. CASE m = Peer(n)
    BY <1>4, <2>1, <2>3
  <2> QED BY <1>1, <2>2, <2>3
<1> QED BY <1>1, <1>2, <1>5 DEF OnPort, More1

LEMMA LiveTake ==
  ASSUME OrderInv, OnPort, NEW n \in Agents, wire[n] # <<>>, UNCHANGED port, Take(n)
  PROVE  OnPort' /\ wire'[Peer(n)] = wire[Peer(n)] /\ Less1(wire[n], wire'[n], Head(wire[n]))
<1>1. Functions /\ wire[n] \in Seq(Packet) /\ \A m \in Agents : m = n \/ m = Peer(n)
  BY DEF OrderInv, Functions, Agents, Peer
<1>2. wire'[n] = Tail(wire[n]) /\ wire'[Peer(n)] = wire[Peer(n)]
  BY <1>1, TakeTakes
<1>3. \A i \in 1 .. Len(wire'[n]) : wire'[n][i].port = port[n]
  BY <1>1, <1>2, PortLess DEF OnPort
<1>4. ASSUME NEW m \in Agents PROVE \A i \in 1 .. Len(wire'[m]) : wire'[m][i].port = port'[m]
  <2>1. CASE m = n
    BY <1>3, <2>1
  <2>2. CASE m = Peer(n)
    BY <1>2, <2>2 DEF OnPort
  <2> QED BY <1>1, <2>1, <2>2
<1>5. OnPort'
  BY <1>4 DEF OnPort
<1> QED BY <1>1, <1>2, <1>5 DEF Less1

LEMMA LiveReply ==
  ASSUME OrderInv, OnPort, port[1] = port[2], NEW n \in Agents, wire[n] # <<>>,
         NEW p \in Packet, p.port \in {port[1], port[2]}, UNCHANGED port, Reply(n, p)
  PROVE  /\ OnPort' /\ Less1(wire[n], wire'[n], Head(wire[n]))
         /\ More1(wire[Peer(n)], wire'[Peer(n)], p)
<1>1. /\ Functions /\ wire[n] \in Seq(Packet) /\ wire[Peer(n)] \in Seq(Packet) /\ Peer(n) \in Agents
      /\ \A m \in Agents : (m = n \/ m = Peer(n)) /\ port[m] = port[1]
  BY Peers DEF OrderInv, Functions, Agents, Peer
<1>2. wire'[n] = Tail(wire[n]) /\ wire'[Peer(n)] = Append(wire[Peer(n)], p)
  BY <1>1, ReplyTakesAndAdds
<1>3. \A m \in Agents : \A i \in 1 .. Len(wire[m]) : wire[m][i].port = port[1]
  BY <1>1 DEF OnPort
<1>4. \A i \in 1 .. Len(wire'[n]) : wire'[n][i].port = port[1]
  BY <1>1, <1>2, <1>3, PortLess
<1>5. \A i \in 1 .. Len(wire'[Peer(n)]) : wire'[Peer(n)][i].port = port[1]
  BY <1>1, <1>2, <1>3, PortMore
<1>6. \A m \in Agents : \A i \in 1 .. Len(wire'[m]) : wire'[m][i].port = port'[m]
  BY <1>1, <1>4, <1>5
<1> QED BY <1>1, <1>2, <1>6 DEF OnPort, Less1, More1

LEMMA ControlPort ==
  ASSUME OrderInv, NEW n \in Agents, NEW f \in {"SYN", "SYN+ACK", "ACK", "FIN"}, NEW k \in Nat
  PROVE  /\ Control(n, f, k) \in Packet /\ Control(n, f, k).flags = f /\ Control(n, f, k).ack = k
         /\ Control(n, f, k).port \in {port[1], port[2]}
<1>1. Functions /\ Peer(n) \in {1, 2}
  BY Peers DEF OrderInv, Agents
<1> QED BY <1>1, PacketFacts DEF Control

LEMMA CallWindows ==
  ASSUME OrderInv, TalkInv, WindowInv, Live, Live', UNCHANGED port,
         NEW n \in Agents, Connect(n) \/ Listen(n) \/ Disconnect(n)
  PROVE  OnPort' /\ WindowsOf(n)'
<1> DEFINE k == Peer(n)
<1>1. OnPort /\ WindowsOf(n) /\ k \in Agents /\ k # n /\ Peer(k) = n
  BY LiveWindows, Peers
<1>2. UNCHANGED <<seqData, sendArray, windowPos>>
  BY DEF Connect, Listen, Disconnect, Called, dataVars
<1>3. \E to \in States :
        /\ GoTo(n, to)
        /\ state[n] \in {"CLOSED", "LISTEN", "SYN_SENT", "CLOSE_WAIT"} \/ Gone(to)
        /\ to # "ESTABLISHED"
        /\ UNCHANGED wire \/ \E f \in {"SYN", "FIN"} : Transmit(n, Control(n, f, 0))
  BY DEF Connect, Listen, Disconnect, States, Gone
<1>4. PICK to \in States :
        /\ state'[n] = to /\ state'[k] = state[k] /\ to # "ESTABLISHED"
        /\ state[n] \in {"CLOSED", "LISTEN", "SYN_SENT", "CLOSE_WAIT"} \/ Gone(to)
  BY <1>3, StatesMove DEF GoTo
<1>5. ~Gone(to)
  BY <1>4 DEF Live
<1>6. state[n] # "ESTABLISHED" /\ state[n] # "SYN_RECVD" /\ state[k] # "ESTABLISHED"
  <2>1. state[n] \in {"CLOSED", "LISTEN", "SYN_SENT"}
    BY <1>4, <1>5, LiveFacts
  <2>2. state[k] = "ESTABLISHED" => state[n] \in {"SYN_RECVD", "ESTABLISHED"}
    BY <1>1, LiveFacts
  <2> QED BY <2>1, <2>2
<1>7. OnPort' /\ (Has(wire'[n], "ACK") => Has(wire[n], "ACK")) /\ (Has(wire'[k], "ACK") => Has(wire[k], "ACK"))
  <2>1. CASE UNCHANGED wire
    BY <1>1, <2>1 DEF OnPort
  <2>2. ASSUME NEW f \in {"SYN", "FIN"}, Transmit(n, Control(n, f, 0)) PROVE <1>7!:
    <3> DEFINE p == Control(n, f, 0)
    <3>1. p \in Packet /\ p.flags = f /\ p.port \in {port[1], port[2]}
      BY ControlPort
    <3> HIDE DEF p
    <3>2. OnPort' /\ wire'[n] = wire[n] /\ More1(wire[k], wire'[k], p)
      BY <1>1, <2>2, <3>1, LiveTransmit DEF Live, p
    <3> QED BY <3>1, <3>2, HasMore DEF Flags
  <2> QED BY <1>3, <2>1, <2>2
<1>8. GivenUp(n)' = GivenUp(n) /\ UptoOf(n)' = UptoOf(n) /\ GivenUp(k)' = GivenUp(k) /\ UptoOf(k)' = UptoOf(k)
  BY <1>2 DEF GivenUp, UptoOf
<1> QED BY <1>1, <1>4, <1>6, <1>7, <1>8, WindowsUnconnected DEF WindowsOf

(* A packet more in the array is behind the window.                         *)
LEMMA SendCounts ==
  ASSUME OrderInv, NEW n \in Agents, Send(n), NEW m \in Agents
  PROVE  GivenUp(m)' = GivenUp(m) /\ UptoOf(m)' = UptoOf(m)
<1>1. Functions /\ SenderInv(m) /\ UNCHANGED windowPos
  BY DEF OrderInv, Send
<1>2. sendArray[m] \in Seq(Nat) /\ Len(sendArray[m]) \in Nat /\ seqData[m] \in Nat
  BY <1>1, LenProperties DEF Functions
<1>3. CASE m # n
  BY <1>1, <1>3 DEF Send, Functions, GivenUp, UptoOf
<1>4. CASE m = n
  <2>1. sendArray'[m] = Append(sendArray[m], seqData[m]) /\ seqData'[m] = seqData[m] + 1
    BY <1>1, <1>4 DEF Send, Functions
  <2>2. Len(sendArray'[m]) = Len(sendArray[m]) + 1
    BY <1>2, <2>1, AppendProperties
  <2>3. GivenUp(m)' = GivenUp(m)
    BY <1>2, <2>1, <2>2 DEF GivenUp
  <2> QED BY <1>1, <2>1, <2>3, AddNumber DEF SenderInv, UptoOf
<1> QED BY <1>3, <1>4

LEMMA UpdateWindows ==
  ASSUME OrderInv, TalkInv, WindowInv, Live, UNCHANGED port, NEW n \in Agents, Update(n)
  PROVE  OnPort' /\ WindowsOf(n)'
<1> DEFINE k == Peer(n)
           p == Data(n, sendArray[n][windowPos[n] + 1])
<1>1. /\ OnPort /\ WindowsOf(n) /\ k \in Agents /\ k # n /\ Peer(k) = n
      /\ Functions /\ SenderInv(n) /\ UNCHANGED <<state, seqData, sendArray>>
  BY LiveWindows, Peers DEF OrderInv, Update
<1>2. CASE UNCHANGED <<wire, windowPos>>
  BY <1>1, <1>2 DEF OnPort, WindowsOf, UptoOf, GivenUp
<1>3. CASE HasRoom(n) /\ Transmit(n, p) /\ windowPos' = [windowPos EXCEPT ![n] = windowPos[n] + 1]
  <2>1. /\ sendArray[n] \in Seq(Nat) /\ Len(sendArray[n]) \in Nat /\ seqData[n] \in Nat /\ windowPos[n] \in Nat
        /\ windowPos[n] + 1 \in 1 .. Len(sendArray[n])
    BY <1>1, <1>3, RoomFacts
  <2>2. p.seq = UptoOf(n) /\ p \in Packet /\ p.flags = "none" /\ p.port = port[n]
    <3>1. UptoOf(n) \in Nat
      BY <1>1, UptoIsNat DEF SenderInv, UptoOf
    <3>2. sendArray[n][windowPos[n] + 1] = UptoOf(n)
      BY <1>1, <2>1, NextNumber DEF SenderInv, UptoOf
    <3> QED BY <1>1, <3>1, <3>2, PacketFacts DEF IsData, Data
  <2>3. state[n] = "ESTABLISHED"
    <3>1. sendArray[n] # <<>>
      BY <2>1
    <3> QED BY <3>1, LiveFacts
  <2>4. windowPos'[n] = windowPos[n] + 1 /\ windowPos'[k] = windowPos[k]
    BY <1>1, <1>3 DEF Functions
  <2> HIDE DEF k
  <2>5. UptoOf(n)' = UptoOf(n) + 1 /\ UptoOf(k)' = UptoOf(k) /\ GivenUp(n)' = GivenUp(n) /\ GivenUp(k)' = GivenUp(k)
    <3>1. UptoOf(n)' = Upto(sendArray[n], seqData[n], windowPos[n] + 1)
      BY <1>1, <2>4 DEF UptoOf
    <3>2. UptoOf(n)' = UptoOf(n) + 1
      BY <2>1, <3>1, UptoMoves DEF UptoOf
    <3>3. UptoOf(k)' = UptoOf(k)
      BY <1>1, <2>4 DEF UptoOf
    <3>4. GivenUp(n)' = GivenUp(n) /\ GivenUp(k)' = GivenUp(k)
      BY <1>1 DEF GivenUp
    <3> QED BY <3>2, <3>3, <3>4
  <2> HIDE DEF p
  <2>6. OnPort' /\ wire'[n] = wire[n] /\ More1(wire[k], wire'[k], p)
    <3>1. p.port \in {port[1], port[2]}
      BY <2>2 DEF Agents
    <3> QED BY <1>1, <1>3, <2>2, <3>1, LiveTransmit DEF Live, k
  <2>7. k = Peer(n)
    BY DEF k
  <2> DEFINE s == state[n]
             t == state[k]
             g == GivenUp(n)
             u == UptoOf(n)
             h == GivenUp(k)
             x == UptoOf(k)
  <2>8. Windows(s, t, wire[n], wire[k], g, u, h, x)
    BY <1>1, <2>7 DEF WindowsOf
  <2>9. Windows(s, t, wire[n], wire'[k], g, u + 1, h, x)
    <3> HIDE DEF t, g, u, h, x
    <3>1. p.seq = u
      BY <2>2 DEF u
    <3> QED BY <2>2, <2>3, <2>6, <2>8, <3>1, WindowsTransmit
  <2> QED BY <1>1, <2>5, <2>6, <2>7, <2>9 DEF WindowsOf
<1> QED BY <1>2, <1>3 DEF Update

(* A packet comes, while both are live.                                     *)
Comes(n, k, p) ==
  /\ k = Peer(n) /\ k \in Agents /\ k # n /\ n = Peer(k)
  /\ OrderInv /\ TalkInv /\ Live /\ OnPort /\ WindowsOf(n)
  /\ wire[n] # <<>> /\ p = Head(wire[n]) /\ p \in Packet /\ p.port = port[n] /\ p.seq \in Nat /\ p.flags \in Flags
  /\ Has(wire[n], p.flags)
  /\ Windows(state[n], state[k], wire[n], wire[k], GivenUp(n), UptoOf(n), GivenUp(k), UptoOf(k))

LEMMA ComesNow ==
  ASSUME OrderInv, TalkInv, WindowInv, Live, NEW n \in Agents, wire[n] # <<>>
  PROVE  Comes(n, Peer(n), Head(wire[n]))
<1>1. OnPort /\ WindowsOf(n) /\ Peer(n) \in Agents /\ Peer(n) # n /\ Peer(Peer(n)) = n
  BY LiveWindows, Peers
<1>2. wire[n] \in Seq(Packet)
  BY DEF OrderInv, Functions
<1>3. /\ Head(wire[n]) \in Packet /\ Head(wire[n]) = wire[n][1] /\ 1 \in 1 .. Len(wire[n])
      /\ Has(wire[n], Head(wire[n]).flags)
  BY <1>2, TailFacts, TailIsTaken DEF Taken
<1>4. Head(wire[n]).port = port[n]
  BY <1>1, <1>3 DEF OnPort
<1> QED BY <1>1, <1>3, <1>4 DEF Comes, WindowsOf, Packet, Flags

LEMMA SameCounts ==
  ASSUME UNCHANGED <<seqData, sendArray, windowPos>>, NEW n \in Agents
  PROVE  GivenUp(n)' = GivenUp(n) /\ UptoOf(n)' = UptoOf(n)
  BY DEF GivenUp, UptoOf

LEMMA OpensWindows ==
  ASSUME NEW n \in Agents, NEW k, NEW p, Comes(n, k, p), UNCHANGED port, Opens(n, p)
  PROVE  OnPort' /\ WindowsOf(n)'
<1> DEFINE g == GivenUp(n)
           u == UptoOf(n)
           h == GivenUp(k)
           x == UptoOf(k)
<1>1. /\ k \in Agents /\ k = Peer(n) /\ g' = g /\ u' = u /\ h' = h /\ x' = x
  BY SameCounts DEF Comes, Opens, dataVars
<1>2. /\ state[n] \in {"LISTEN", "SYN_SENT", "SYN_RECVD"} => g = 0 /\ u = 0 /\ ~Has(wire[k], "none")
      /\ state[k] = "ESTABLISHED" => state[n] \in {"SYN_RECVD", "ESTABLISHED"}
  BY LiveFacts DEF Comes
<1>3. Windows(state[n], state[k], wire[n], wire[k], g, u, h, x)
  BY DEF Comes
<1>4. \A f \in {"SYN+ACK", "ACK"} :
        /\ Control(n, f, p.seq) \in Packet /\ Control(n, f, p.seq).flags = f
        /\ Control(n, f, p.seq).port \in {port[1], port[2]}
  BY ControlPort DEF Comes
<1>5. ASSUME NEW f \in {"SYN+ACK", "ACK"}, Reply(n, Control(n, f, p.seq))
      PROVE  OnPort' /\ Less1(wire[n], wire'[n], p) /\ More1(wire[k], wire'[k], Control(n, f, p.seq))
  BY <1>4, <1>5, LiveReply DEF Comes, Live
<1>6. ASSUME NEW to \in States, GoTo(n, to), OnPort',
             Windows(to, state[k], wire'[n], wire'[k], g, u, h, x)
      PROVE  OnPort' /\ WindowsOf(n)'
  <2>1. state'[n] = to /\ state'[k] = state[k]
    BY <1>6, StatesMove DEF GoTo, Comes
  <2> QED BY <1>1, <1>6, <2>1 DEF WindowsOf
<1> HIDE DEF g, u, h, x
<1>7. {"SYN_RECVD", "ESTABLISHED"} \subseteq States
  BY DEF States
<1>8. CASE /\ state[n] \in {"LISTEN", "SYN_SENT"} /\ GoTo(n, "SYN_RECVD")
           /\ Reply(n, Control(n, "SYN+ACK", p.seq))
  <2> DEFINE q == Control(n, "SYN+ACK", p.seq)
  <2>1. /\ OnPort' /\ Less1(wire[n], wire'[n], p) /\ More1(wire[k], wire'[k], q) /\ q.flags = "SYN+ACK"
    BY <1>4, <1>5, <1>8
  <2> HIDE DEF q
  <2>2. (Has(wire'[n], "ACK") => Has(wire[n], "ACK")) /\ (Has(wire'[k], "ACK") => Has(wire[k], "ACK"))
    BY <2>1, HasMore, HasLess DEF Flags
  <2>3. state[n] # "ESTABLISHED" /\ state[k] # "ESTABLISHED"
    BY <1>2, <1>8
  <2>4. Windows("SYN_RECVD", state[k], wire'[n], wire'[k], g, u, h, x)
    BY <1>3, <2>2, <2>3, WindowsUnconnected
  <2> QED BY <1>6, <1>7, <1>8, <2>1, <2>4
<1>9. CASE /\ state[n] = "SYN_SENT" /\ GoTo(n, "ESTABLISHED") /\ Reply(n, Control(n, "ACK", p.seq))
  <2> DEFINE q == Control(n, "ACK", p.seq)
  <2>1. OnPort' /\ Less1(wire[n], wire'[n], p) /\ More1(wire[k], wire'[k], q) /\ q.flags = "ACK"
    BY <1>4, <1>5, <1>9
  <2> HIDE DEF q
  <2>2. g = 0 /\ u = 0 /\ ~Has(wire[k], "none") /\ state[k] # "ESTABLISHED"
    BY <1>2, <1>9
  <2>3. Windows("ESTABLISHED", state[k], wire'[n], wire'[k], g, u, h, x)
    BY <1>3, <1>9, <2>1, <2>2, WindowsOpen
  <2> QED BY <1>6, <1>7, <1>9, <2>1, <2>3
<1>10. CASE state[n] = "SYN_RECVD" /\ p.flags = "ACK" /\ GoTo(n, "ESTABLISHED") /\ Take(n)
  <2>1. OnPort' /\ wire'[k] = wire[k] /\ Less1(wire[n], wire'[n], p)
    BY <1>1, <1>10, LiveTake DEF Comes
  <2>2. AtMostOne(wire[n], "ACK")
    BY <1>10 DEF Comes, TalkInv, EndOf, EndInv, Shaking
  <2>3. g = 0 /\ u = 0 /\ ~Has(wire[k], "none")
    BY <1>2, <1>10
  <2>4. Windows("ESTABLISHED", state[k], wire'[n], wire'[k], g, u, h, x)
    BY <1>3, <1>10, <2>1, <2>2, <2>3, WindowsOpened
  <2> QED BY <1>6, <1>7, <1>10, <2>1, <2>4
<1> QED BY <1>8, <1>9, <1>10 DEF Opens

LEMMA AcknowledgedWindows ==
  ASSUME NEW n \in Agents, NEW k, NEW p, Comes(n, k, p), UNCHANGED port,
         state[n] = "ESTABLISHED", UNCHANGED state, Acknowledged(n, p)
  PROVE  OnPort' /\ WindowsOf(n)'
<1> DEFINE g == GivenUp(n)
           u == UptoOf(n)
           h == GivenUp(k)
           x == UptoOf(k)
           s == state[n]
           t == state[k]
<1>1. Windows(s, t, wire[n], wire[k], g, u, h, x) /\ s = "ESTABLISHED" /\ p.flags = "ACK"
  BY DEF Comes, Acknowledged, Acknowledges
<1>2. OnPort' /\ wire'[k] = wire[k] /\ Less1(wire[n], wire'[n], p)
  BY LiveTake DEF Comes, Acknowledged
<1>3. g < u /\ Windows(s, t, wire'[n], wire[k], g + 1, u, h, x)
  <2> HIDE DEF g, u, h, x, s, t
  <2> QED BY <1>1, <1>2, WindowsAcknowledged
<1>4. /\ k \in Agents /\ k # n /\ k = Peer(n) /\ sendArray[n] \in Seq(Nat) /\ seqData[n] \in Nat
      /\ Len(sendArray[n]) \in Nat \ {0} /\ windowPos[n] \in Nat
      /\ windowPos \in [Agents -> Nat] /\ sendArray \in [Agents -> Seq(Nat)]
  BY EmptySeq, LenProperties DEF Comes, OrderInv, Functions, Acknowledged, Acknowledges
<1>5. windowPos[n] > 0
  BY <1>3, <1>4 DEF GivenUp, UptoOf, Upto
<1>6. /\ sendArray'[n] = Tail(sendArray[n]) /\ sendArray'[k] = sendArray[k] /\ UNCHANGED seqData
      /\ windowPos'[n] = windowPos[n] - 1 /\ windowPos'[k] = windowPos[k]
  BY <1>4, <1>5 DEF Acknowledged
<1>7. Len(sendArray'[n]) = Len(sendArray[n]) - 1
  <2>1. sendArray[n] # <<>>
    BY DEF Acknowledged, Acknowledges
  <2> QED BY <1>4, <1>6, <2>1, HeadTailProperties
<1>8. GivenUp(n)' = g + 1 /\ UptoOf(n)' = u
  <2> DEFINE a == sendArray'[n]
             b == windowPos[n] - 1
  <2>1. GivenUp(n)' = seqData[n] - Len(a) /\ UptoOf(n)' = Upto(a, seqData[n], b)
    BY <1>6 DEF GivenUp, UptoOf
  <2>2. Len(a) = Len(sendArray[n]) - 1 /\ Len(sendArray[n]) \in Nat
    BY <1>4, <1>7
  <2> HIDE DEF a
  <2>3. /\ Upto(a, seqData[n], windowPos[n] - 1) = Upto(sendArray[n], seqData[n], windowPos[n])
        /\ seqData[n] - Len(a) = (seqData[n] - Len(sendArray[n])) + 1
    <3>1. seqData[n] \in Nat /\ windowPos[n] \in Nat
      BY <1>4
    <3> DEFINE old == sendArray[n]
               sd == seqData[n]
               wp == windowPos[n]
    <3> HIDE DEF old, sd, wp
    <3>2. Upto(a, sd, wp - 1) = Upto(old, sd, wp) /\ sd - Len(a) = (sd - Len(old)) + 1
      <4>1. Len(old) \in Nat /\ Len(a) = Len(old) - 1 /\ sd \in Nat /\ wp \in Nat
        BY <2>2, <3>1 DEF old, sd, wp
      <4> QED BY <4>1, UptoStays
    <3> QED BY <3>2, Zenon DEF old, sd, wp
  <2> QED BY <2>1, <2>3 DEF GivenUp, UptoOf
<1>9. GivenUp(k)' = h /\ UptoOf(k)' = x
  BY <1>6 DEF GivenUp, UptoOf
<1> QED BY <1>2, <1>3, <1>4, <1>8, <1>9 DEF WindowsOf

LEMMA GetsWindows ==
  ASSUME NEW n \in Agents, NEW k, NEW p, Comes(n, k, p), UNCHANGED port,
         state[n] = "ESTABLISHED", UNCHANGED state, Gets(n, p)
  PROVE  OnPort' /\ WindowsOf(n)'
<1> DEFINE g == GivenUp(n)
           u == UptoOf(n)
           h == GivenUp(k)
           x == UptoOf(k)
           q == Control(n, "ACK", p.seq)
<1>1. Windows(state[n], state[k], wire[n], wire[k], g, u, h, x) /\ p.flags = "none"
  BY DEF Comes, Gets
<1>2. q \in Packet /\ q.flags = "ACK" /\ q.ack = p.seq /\ q.port \in {port[1], port[2]}
  BY ControlPort DEF Comes
<1>3. OnPort' /\ Less1(wire[n], wire'[n], p) /\ More1(wire[k], wire'[k], q)
  BY <1>2, LiveReply DEF Comes, Live, Gets
<1>4. /\ k \in Agents /\ k = Peer(n) /\ g' = g /\ u' = u /\ h' = h /\ x' = x
  BY SameCounts DEF Comes, Gets
<1>5. state[k] = "ESTABLISHED"
  <2>1. Has(wire[Peer(k)], "none")
    BY <1>1 DEF Comes
  <2> QED BY <1>4, <2>1, LiveFacts DEF Comes
<1>6. Windows(state[n], state[k], wire'[n], wire'[k], g, u, h, x)
  <2> HIDE DEF g, u, h, x, q
  <2> QED BY <1>1, <1>2, <1>3, <1>5, WindowsGet
<1> QED BY <1>3, <1>4, <1>6 DEF WindowsOf

LEMMA IgnoresWindows ==
  ASSUME NEW n \in Agents, NEW k, NEW p, Comes(n, k, p), UNCHANGED port, Ignores(n, p)
  PROVE  OnPort' /\ WindowsOf(n)'
<1> DEFINE g == GivenUp(n)
           u == UptoOf(n)
           h == GivenUp(k)
           x == UptoOf(k)
           s == state[n]
           t == state[k]
<1>1. Windows(s, t, wire[n], wire[k], g, u, h, x) /\ ~Handled(n, p) /\ UNCHANGED state
  BY DEF Comes, Ignores
<1>2. OnPort' /\ wire'[k] = wire[k] /\ Less1(wire[n], wire'[n], p)
  BY LiveTake DEF Comes, Ignores
<1>3. /\ k \in Agents /\ k = Peer(n) /\ g' = g /\ u' = u /\ h' = h /\ x' = x
  BY SameCounts DEF Comes, Ignores, dataVars
<1>4. s = "ESTABLISHED" => p.flags # "none"
  BY <1>1 DEF Handled
<1>5. p.flags # "ACK"
  <2> SUFFICES ASSUME p.flags = "ACK" PROVE FALSE
    OBVIOUS
  <2>1. t = "ESTABLISHED"
    BY <1>1 DEF Comes, Windows, Window
  <2>2. s \in {"SYN_RECVD", "ESTABLISHED"} /\ k \in Agents /\ Peer(k) = n
    BY <2>1, LiveFacts DEF Comes
  <2>3. s # "SYN_RECVD"
    BY <1>1 DEF Handled
  <2>4. s = "ESTABLISHED" /\ ~Acknowledges(n, p)
    BY <1>1, <2>2, <2>3 DEF Handled
  <2>5. p.ack = g /\ g < u
    <3> HIDE DEF g, u, h, x, t
    <3> QED BY <1>1, <1>2, <2>4, WindowsAcknowledged
  <2>6. /\ sendArray[n] \in Seq(Nat) /\ seqData[n] \in Nat /\ Len(sendArray[n]) \in Nat
        /\ windowPos[n] \in Nat /\ SenderInv(n)
    BY LenProperties DEF Comes, OrderInv, Functions
  <2>7. windowPos[n] > 0 /\ windowPos[n] <= Len(sendArray[n])
    BY <2>5, <2>6 DEF GivenUp, UptoOf, Upto, SenderInv, Numbered
  <2>8. 1 \in 1 .. Len(sendArray[n]) /\ sendArray[n] # <<>>
    BY <2>6, <2>7
  <2>9. Head(sendArray[n]) = seqData[n] - Len(sendArray[n])
    BY <2>6, <2>8 DEF SenderInv, Numbered
  <2> QED BY <2>4, <2>5, <2>8, <2>9 DEF Acknowledges, GivenUp
<1>6. Windows(s, t, wire'[n], wire[k], g, u, h, x)
  <2> HIDE DEF g, u, h, x, s, t
  <2> QED BY <1>1, <1>2, <1>4, <1>5, WindowsIgnore
<1> QED BY <1>1, <1>2, <1>3, <1>6 DEF WindowsOf

LEMMA ReceiveWindows ==
  ASSUME OrderInv, TalkInv, WindowInv, Live, UNCHANGED port, NEW n \in Agents, Receive(n)
  PROVE  OnPort' /\ WindowsOf(n)'
<1> DEFINE p == Head(wire[n])
<1>1. Comes(n, Peer(n), p)
  BY ComesNow DEF Receive
<1>2. Opens(n, p) \/ Exchanges(n, p) \/ Closes(n, p) \/ Ignores(n, p)
  BY DEF Receive
<1>3. ~Closes(n, p)
  <2>1. /\ state[n] \in {"CLOSED", "LISTEN", "SYN_SENT", "SYN_RECVD", "ESTABLISHED"}
        /\ ~Has(wire[n], "FIN")
    BY LiveFacts
  <2>2. p.flags # "FIN"
    BY <1>1, <2>1 DEF Comes
  <2> QED BY <2>1, <2>2 DEF Closes
<1>4. CASE Exchanges(n, p)
  BY <1>1, <1>4, AcknowledgedWindows, GetsWindows DEF Exchanges
<1> QED BY <1>1, <1>2, <1>3, <1>4, OpensWindows, IgnoresWindows

LEMMA RoomStep ==
  ASSUME OrderInv, [Next]_vars, \A m \in Agents : windowPos[m] <= WindowSize, NEW m \in Agents
  PROVE  windowPos'[m] <= WindowSize
<1>1. windowPos \in [Agents -> Nat] /\ WindowSize \in Nat
  BY GoBackNAssumption DEF OrderInv, Functions
<1>2. ASSUME NEW n \in Agents, Update(n) PROVE windowPos'[m] <= WindowSize
  BY <1>1, <1>2 DEF Update, HasRoom
<1>3. ASSUME NEW n \in Agents, Receive(n) PROVE windowPos'[m] <= WindowSize
  <2> DEFINE p == Head(wire[n])
  <2>1. CASE UNCHANGED windowPos
    BY <2>1
  <2>2. CASE Acknowledged(n, p)
    BY <1>1, <2>2 DEF Acknowledged
  <2> QED BY <1>3, <2>1, <2>2 DEF Receive, Opens, Exchanges, Gets, Closes, Ignores, dataVars
<1>4. \/ UNCHANGED windowPos
      \/ \E n \in Agents : Update(n) \/ Receive(n)
  BY DEF Next, vars, dataVars, Connect, Listen, Disconnect, Called, Send, ReadyToSend, Lose
<1> QED BY <1>2, <1>3, <1>4

LEMMA WindowStep == OrderInv /\ TalkInv /\ WindowInv /\ [Next]_vars => WindowInv'
<1> SUFFICES ASSUME OrderInv, TalkInv, WindowInv, [Next]_vars PROVE WindowInv'
  OBVIOUS
<1>1. lost' \in Nat
  <2>1. lost \in Nat
    BY DEF WindowInv
  <2>2. lost' = lost \/ lost' = lost + 1
    BY DEF Next, vars, Connect, Listen, Disconnect, Called, Send, Update, ReadyToSend, Receive, Lose
  <2> QED BY <2>1, <2>2
<1>2. \A m \in Agents : windowPos'[m] <= WindowSize
  BY RoomStep DEF WindowInv
<1>3. Live' => Live /\ UNCHANGED <<port, lost>>
  BY LiveBefore DEF WindowInv
<1>4. ASSUME NEW n \in Agents, Live' => OnPort' /\ WindowsOf(n)' PROVE WindowInv'
  BY <1>1, <1>2, <1>4, WindowsTogether
<1>5. ASSUME UNCHANGED <<state, port, wire, seqData, sendArray, windowPos>>, Live' PROVE OnPort' /\ WindowsOf(1)'
  BY <1>3, <1>5, LiveWindows DEF OnPort, WindowsOf, GivenUp, UptoOf, Agents
<1>6. ASSUME NEW n \in Agents, ReadyToSend(n) PROVE UNCHANGED <<state, port, wire, seqData, sendArray, windowPos>>
  BY <1>6 DEF ReadyToSend
<1>7. UNCHANGED vars => UNCHANGED <<state, port, wire, seqData, sendArray, windowPos>>
  BY DEF vars, dataVars
<1>8. ASSUME NEW n \in Agents, Connect(n) \/ Listen(n) \/ Disconnect(n) PROVE WindowInv'
  BY <1>3, <1>4, <1>8, CallWindows
<1>9. ASSUME NEW n \in Agents, Send(n) PROVE WindowInv'
  <2>1. ASSUME Live' PROVE OnPort' /\ WindowsOf(n)'
    <3>1. OnPort /\ WindowsOf(n) /\ Peer(n) \in Agents /\ UNCHANGED <<state, port, wire>>
      BY <1>3, <1>9, <2>1, LiveWindows, Peers DEF Send
    <3>2. \A m \in Agents : GivenUp(m)' = GivenUp(m) /\ UptoOf(m)' = UptoOf(m)
      BY <1>9, SendCounts
    <3> QED BY <3>1, <3>2 DEF OnPort, WindowsOf
  <2> QED BY <1>4, <2>1
<1>10. ASSUME NEW n \in Agents, Update(n) PROVE WindowInv'
  BY <1>3, <1>4, <1>10, UpdateWindows
<1>11. ASSUME NEW n \in Agents, Receive(n) PROVE WindowInv'
  BY <1>3, <1>4, <1>11, ReceiveWindows
<1>12. ASSUME NEW n \in Agents, Lose(n) PROVE WindowInv'
  <2>1. ~Live'
    <3>1. lost \in Nat /\ lost' = lost + 1
      BY <1>12 DEF WindowInv, Lose
    <3> QED BY <3>1 DEF Live
  <2> QED BY <1>4, <1>12, <2>1
<1>13. 1 \in Agents
  BY DEF Agents
<1> QED BY <1>4, <1>5, <1>6, <1>7, <1>8, <1>9, <1>10, <1>11, <1>12, <1>13 DEF Next

(* Whatever the size of the window and however often the agents connected   *)
(* before: while both are connected to each other and nothing was lost,     *)
(* what m_window_pos counts is exactly the data and the acknowledgements on *)
(* their way, so that the check of it in the update command bounds what is  *)
(* in flight (update and indicate, which count up and down at two ends of a *)
(* round trip).                                                             *)
THEOREM WindowCounts == Spec => []WindowCountsFlight
<1>1. ASSUME OrderInv, TalkInv, WindowInv PROVE WindowCountsFlight
  <2> SUFFICES ASSUME Connected, lost = 0, NEW n \in Agents
               PROVE  windowPos[n] = InFlight(n) /\ InFlight(n) <= WindowSize
    BY DEF WindowCountsFlight
  <2>1. Live
    BY DEF Connected, Live, Gone
  <2> DEFINE k == Peer(n)
             g == GivenUp(n)
             u == UptoOf(n)
             v == wire[n]
             w == wire[k]
  <2>2. k \in Agents /\ v \in Seq(Packet) /\ w \in Seq(Packet)
    BY <1>1, Peers DEF OrderInv, Functions
  <2>3. Window(state[n], state[k], v, w, g, u)
    BY <1>1, <2>1 DEF WindowInv, WindowOf
  <2>4. PICK m : Carries(v, "ACK", g, m) /\ Carries(w, "none", m, u)
    BY <2>3 DEF Window, Connected
  <2>5. /\ sendArray[n] \in Seq(Nat) /\ seqData[n] \in Nat /\ Len(sendArray[n]) \in Nat
        /\ windowPos[n] \in Nat /\ SenderInv(n) /\ windowPos[n] <= WindowSize
    BY <1>1, LenProperties DEF OrderInv, Functions, WindowInv
  <2>6. /\ g \in Nat /\ u \in Nat /\ m \in Nat /\ g <= m /\ m <= u
        /\ u = g + windowPos[n] /\ g = seqData[n] - Len(sendArray[n])
        /\ windowPos[n] <= Len(sendArray[n])
    BY <1>1, <2>4, GivenUpIsNat DEF Carries, GivenUp
  <2>7. ASSUME NEW i \in DOMAIN v, v[i].flags = "ACK" PROVE v[i].ack \in ToSet(sendArray[n])
    <3> DEFINE a == v[i].ack
               j == a - g + 1
    <3>1. i \in 1 .. Len(v) /\ v[i] \in Packet /\ Number(v[i]) = a
      BY <2>2, <2>7, ElementOfSeq, LenProperties DEF Number
    <3>2. a \in Nat /\ g <= a /\ a < m
      BY <2>4, <2>7, <3>1 DEF Carries, Packet
    <3> HIDE DEF a, g
    <3>3. j \in 1 .. Len(sendArray[n]) /\ g + j - 1 = a
      <4>1. \A e, b, c, d, l \in Nat : b <= e /\ e < c /\ c <= b + d /\ d <= l
              => (e - b) + 1 \in 1 .. l /\ b + (((e - b) + 1) - 1) = e
        OBVIOUS
      <4>2. m <= g + windowPos[n]
        BY <2>6
      <4> QED BY <2>5, <2>6, <3>2, <4>1, <4>2, ZenonT(30)
    <3> HIDE DEF j
    <3>4. sendArray[n][j] = seqData[n] - Len(sendArray[n]) + j - 1
      BY <2>5, <3>3 DEF SenderInv, Numbered
    <3>5. sendArray[n][j] = a /\ j \in DOMAIN sendArray[n]
      BY <2>5, <2>6, <3>2, <3>3, <3>4, LenProperties
    <3>6. a \in ToSet(sendArray[n])
      BY <3>5 DEF ToSet
    <3> QED BY <3>6 DEF a
  <2>8. {i \in DOMAIN v : v[i].flags = "ACK" /\ v[i].ack \in ToSet(sendArray[n])} = {i \in DOMAIN v : v[i].flags = "ACK"}
    BY <2>7
  <2>9. /\ Cardinality({i \in DOMAIN v : v[i].flags = "ACK"}) = m - g
        /\ Cardinality({i \in DOMAIN w : w[i].flags = "none"}) = u - m
    BY <2>2, <2>4, CarriesCounted
  <2>10. InFlight(n) = (u - m) + (m - g)
    BY <2>8, <2>9 DEF InFlight
  <2>11. \A a, b, c, d \in Nat : d = a + c => (d - b) + (b - a) = c
    OBVIOUS
  <2>12. InFlight(n) = windowPos[n]
    BY <2>5, <2>6, <2>10, <2>11
  <2> QED BY <2>5, <2>12
<1> QED BY <1>1, OrderInit, OrderStep, TalkInit, TalkStep, WindowInit, WindowStep, PTL DEF Spec

=============================================================================
