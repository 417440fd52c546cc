------------------------------- MODULE GoBackN -------------------------------
(***************************************************************************)
(* Two SimpleGoBackNAgents: TCP's connection states and a window of        *)
(* numbered packets, over a service that keeps the order of packets and    *)
(* may lose them.  Whoever sends data is identified with its sequence      *)
(* number.  Nothing is ever sent twice: what sends data is an update, one  *)
(* scheduled by each send, and more of them when the service below says    *)
(* that it is ready.  It says so to every agent of a node, twice for each  *)
(* packet that the node sends, of whichever agent: here, at any time.      *)
(***************************************************************************)
EXTENDS Integers, Sequences, FiniteSets, SequencesExt

CONSTANTS
  WindowSize,   (* m_window_size                                             *)
  MaxData,      (* bound on the data sent by both agents together             *)
  MaxCalls,     (* bound on connects, listens and disconnects                *)
  MaxUpdates,   (* bound on the updates up to which more of them are asked   *)
  MaxLost       (* bound on the packets lost                                 *)

ASSUME GoBackNAssumption ==
  /\ WindowSize \in Nat \ {0} /\ MaxData \in Nat
  /\ MaxCalls \in Nat /\ MaxUpdates \in Nat /\ MaxLost \in Nat

VARIABLES
  state,        (* m_state                                                   *)
  port,         (* m_local_port                                              *)
  seqData,      (* m_seq_data                                                *)
  sendArray, recvArray,  (* sequence numbers of the packets in them          *)
  windowPos,    (* m_window_pos                                              *)
  updates,      (* SGNUpdateCommands scheduled                               *)
  wire,         (* packets on their way to an agent                          *)
  calls, lost

dataVars == <<seqData, sendArray, recvArray, windowPos, updates>>
vars == <<state, port, dataVars, wire, calls, lost>>

Agents == {1, 2}
Peer(n) == 3 - n

-----------------------------------------------------------------------------
(* A control packet carries the next sequence number and goes to the port   *)
(* of the peer, as connect was told it or as a SYN came from it.            *)
Control(n, flags, ack) ==
  [flags |-> flags, seq |-> seqData[n], ack |-> ack, port |-> port[Peer(n)]]

(* Data goes to the port of the same number as the sender's.                *)
Data(n, seq) == [flags |-> "none", seq |-> seq, ack |-> 0, port |-> port[n]]

Transmit(n, packet) == wire' = [wire EXCEPT ![Peer(n)] = Append(@, packet)]

Take(n) == wire' = [wire EXCEPT ![n] = Tail(@)]

Reply(n, packet) ==
  wire' = [wire EXCEPT ![n] = Tail(@), ![Peer(n)] = Append(@, packet)]

GoTo(n, to) == state' = [state EXCEPT ![n] = to]

Each(x) == [n \in Agents |-> x]

(* Both agents on one port, as the multiplexers of two nodes have them, or  *)
(* on two.                                                                  *)
Init ==
  /\ state = Each("CLOSED")
  /\ port \in {<<1, 1>>, <<1, 2>>}
  /\ seqData = Each(0) /\ sendArray = Each(<<>>) /\ recvArray = Each(<<>>)
  /\ windowPos = Each(0) /\ updates = Each(0)
  /\ wire = Each(<<>>) /\ calls = 0 /\ lost = 0

-----------------------------------------------------------------------------
Called == calls < MaxCalls /\ calls' = calls + 1 /\ UNCHANGED <<port, dataVars, lost>>

Connect(n) ==
  /\ Called
  /\ state[n] = "CLOSED" /\ GoTo(n, "SYN_SENT")
  /\ Transmit(n, Control(n, "SYN", 0))

Listen(n) ==
  /\ Called
  /\ state[n] = "CLOSED" /\ GoTo(n, "LISTEN")
  /\ UNCHANGED wire

Disconnect(n) ==
  /\ Called
  /\ \/ /\ state[n] \in {"LISTEN", "SYN_SENT"}
        /\ GoTo(n, "CLOSED")
        /\ UNCHANGED wire
     \/ /\ state[n] = "CLOSE_WAIT"
        /\ GoTo(n, "LAST_ACK")
        /\ Transmit(n, Control(n, "FIN", 0))
     \/ /\ state[n] \in {"ESTABLISHED", "SYN_RECVD"}
        /\ GoTo(n, "FIN_WAIT1")
        /\ Transmit(n, Control(n, "FIN", 0))

(* Seeded fault: nothing is scheduled.                                      *)
SendUnscheduled(n) ==
  /\ seqData[1] + seqData[2] < MaxData
  /\ state[n] = "ESTABLISHED"
  /\ sendArray' = [sendArray EXCEPT ![n] = Append(@, seqData[n])]
  /\ seqData' = [seqData EXCEPT ![n] = @ + 1]
  /\ UNCHANGED <<state, port, recvArray, windowPos, updates, wire, calls, lost>>

Send(n) ==
  /\ seqData[1] + seqData[2] < MaxData
  /\ state[n] = "ESTABLISHED"
  /\ sendArray' = [sendArray EXCEPT ![n] = Append(@, seqData[n])]
  /\ seqData' = [seqData EXCEPT ![n] = @ + 1]
  /\ updates' = [updates EXCEPT ![n] = @ + 1]
  /\ UNCHANGED <<state, port, recvArray, windowPos, wire, calls, lost>>

-----------------------------------------------------------------------------
HasRoom(n) == windowPos[n] < WindowSize /\ windowPos[n] < Len(sendArray[n])

Update(n) ==
  /\ updates[n] > 0
  /\ updates' = [updates EXCEPT ![n] = @ - 1]
  /\ \/ /\ HasRoom(n)
        /\ Transmit(n, Data(n, sendArray[n][windowPos[n] + 1]))
        /\ windowPos' = [windowPos EXCEPT ![n] = @ + 1]
     \/ ~HasRoom(n) /\ UNCHANGED <<wire, windowPos>>
  /\ UNCHANGED <<state, port, seqData, sendArray, recvArray, calls, lost>>

(* indicate(READY_TO_SEND)                                                  *)
ReadyToSend(n) ==
  /\ updates[n] < MaxUpdates
  /\ HasRoom(n)
  /\ updates' = [updates EXCEPT ![n] = @ + 1]
  /\ UNCHANGED <<state, port, seqData, sendArray, recvArray, windowPos, wire, calls, lost>>

(* indicate(PACKET_AVAILABLE), by the state of the agent.                   *)
Opens(n, p) ==
  /\ UNCHANGED dataVars
  /\ \/ /\ state[n] = "LISTEN" /\ p.flags = "SYN" /\ GoTo(n, "SYN_RECVD")
        /\ Reply(n, Control(n, "SYN+ACK", p.seq))
     \/ /\ state[n] = "SYN_SENT" /\ p.flags = "SYN" /\ GoTo(n, "SYN_RECVD")
        /\ Reply(n, Control(n, "SYN+ACK", p.seq))
     \/ /\ state[n] = "SYN_SENT" /\ p.flags = "SYN+ACK" /\ GoTo(n, "ESTABLISHED")
        /\ Reply(n, Control(n, "ACK", p.seq))
     \/ /\ state[n] = "SYN_RECVD" /\ p.flags = "ACK" /\ GoTo(n, "ESTABLISHED")
        /\ Take(n)

(* Seeded fault: any acknowledgement removes the first packet.              *)
AcknowledgesAny(n, p) == p.flags = "ACK" /\ sendArray[n] # <<>>

Acknowledges(n, p) ==
  p.flags = "ACK" /\ sendArray[n] # <<>> /\ p.ack = Head(sendArray[n])

(* Seeded fault: the packet stays at the head.                              *)
AcknowledgedKeeps(n, p) ==
  /\ Acknowledges(n, p)
  /\ Take(n)
  /\ windowPos' = [windowPos EXCEPT ![n] = IF @ > 0 THEN @ - 1 ELSE @]
  /\ UNCHANGED <<seqData, sendArray, recvArray, updates>>

(* Seeded fault: the window does not move.                                  *)
AcknowledgedUnmoved(n, p) ==
  /\ Acknowledges(n, p)
  /\ Take(n)
  /\ sendArray' = [sendArray EXCEPT ![n] = Tail(@)]
  /\ UNCHANGED <<seqData, recvArray, windowPos, updates>>

Acknowledged(n, p) ==
  /\ Acknowledges(n, p)
  /\ Take(n)
  /\ sendArray' = [sendArray EXCEPT ![n] = Tail(@)]
  /\ windowPos' = [windowPos EXCEPT ![n] = IF @ > 0 THEN @ - 1 ELSE @]
  /\ UNCHANGED <<seqData, recvArray, updates>>

Gets(n, p) ==
  /\ p.flags = "none"
  /\ Reply(n, Control(n, "ACK", p.seq))
  /\ recvArray' = [recvArray EXCEPT ![n] = Append(@, p.seq)]
  /\ UNCHANGED <<seqData, sendArray, windowPos, updates>>

Exchanges(n, p) ==
  /\ state[n] = "ESTABLISHED" /\ UNCHANGED state
  /\ Acknowledged(n, p) \/ Gets(n, p)

(* In CLOSE_WAIT any packet has the agent send its own FIN.                 *)
Closes(n, p) ==
  /\ UNCHANGED dataVars
  /\ \/ /\ state[n] = "ESTABLISHED" /\ p.flags = "FIN" /\ GoTo(n, "CLOSE_WAIT")
        /\ Reply(n, Control(n, "ACK", 0))
     \/ /\ state[n] = "CLOSE_WAIT" /\ GoTo(n, "LAST_ACK")
        /\ Reply(n, Control(n, "FIN", 0))
     \/ /\ state[n] = "LAST_ACK" /\ p.flags = "ACK" /\ GoTo(n, "CLOSED") /\ Take(n)
     \/ /\ state[n] = "FIN_WAIT1" /\ p.flags = "FIN" /\ GoTo(n, "CLOSING")
        /\ Reply(n, Control(n, "ACK", p.seq))
     \/ /\ state[n] = "FIN_WAIT1" /\ p.flags = "ACK" /\ GoTo(n, "FIN_WAIT2") /\ Take(n)
     \/ /\ state[n] = "FIN_WAIT2" /\ p.flags = "FIN" /\ GoTo(n, "TIME_WAIT") /\ Take(n)
     \/ /\ state[n] = "CLOSING" /\ p.flags = "ACK" /\ GoTo(n, "TIME_WAIT") /\ Take(n)

(* The states and flags that have a branch.                                 *)
Handled(n, p) ==
  CASE state[n] = "LISTEN" -> p.flags = "SYN"
    [] state[n] = "SYN_SENT" -> p.flags \in {"SYN", "SYN+ACK"}
    [] state[n] \in {"SYN_RECVD", "LAST_ACK", "CLOSING"} -> p.flags = "ACK"
    [] state[n] = "ESTABLISHED" -> p.flags \in {"FIN", "none"} \/ Acknowledges(n, p)
    [] state[n] = "CLOSE_WAIT" -> TRUE
    [] state[n] = "FIN_WAIT1" -> p.flags \in {"FIN", "ACK"}
    [] state[n] = "FIN_WAIT2" -> p.flags = "FIN"
    [] OTHER -> FALSE

(* No agent listens at the port, or the agent has no branch for the packet. *)
Ignores(n, p) ==
  /\ p.port # port[n] \/ ~Handled(n, p)
  /\ Take(n)
  /\ UNCHANGED <<state, dataVars>>

Receive(n) ==
  /\ wire[n] # <<>>
  /\ LET p == Head(wire[n]) IN
     \/ p.port = port[n] /\ (Opens(n, p) \/ Exchanges(n, p) \/ Closes(n, p))
     \/ Ignores(n, p)
  /\ UNCHANGED <<port, calls, lost>>

(* A packet is corrupted on a link, or a buffer is full.                    *)
Lose(n) ==
  /\ lost < MaxLost /\ lost' = lost + 1
  /\ wire[n] # <<>> /\ Take(n)
  /\ UNCHANGED <<state, port, dataVars, calls>>

Next ==
  \E n \in Agents :
    \/ Connect(n) \/ Listen(n) \/ Disconnect(n) \/ Send(n)
    \/ Update(n) \/ ReadyToSend(n) \/ Receive(n) \/ Lose(n)

Spec == Init /\ [][Next]_vars

(* The simulator executes every command that is scheduled.                  *)
FairSpec == Spec /\ WF_vars(\E n \in Agents : Update(n) \/ Receive(n))

-----------------------------------------------------------------------------
(* What an agent has received are the packets of its peer in their order,   *)
(* none of them twice.                                                      *)
ReceivedInOrder ==
  \A n \in Agents : \A i \in DOMAIN recvArray[n] :
    /\ recvArray[n][i] < seqData[Peer(n)]
    /\ i > 1 => recvArray[n][i - 1] < recvArray[n][i]

(* A packet that the sender has given up is one the peer has received, also *)
(* when packets have been lost.                                             *)
AcknowledgedWasReceived ==
  \A n \in Agents : \A seq \in 0 .. seqData[n] - 1 :
    seq \notin ToSet(sendArray[n]) => seq \in ToSet(recvArray[Peer(n)])

(* While both ends are connected and nothing was lost, the window counts    *)
(* the packets on their way and the acknowledgements on their way back, and *)
(* they are never more than fit in it.                                      *)
Connected == port[1] = port[2] /\ \A n \in Agents : state[n] = "ESTABLISHED"

InFlight(n) ==
  Cardinality({i \in DOMAIN wire[Peer(n)] : wire[Peer(n)][i].flags = "none"})
    + Cardinality({i \in DOMAIN wire[n] :
                     wire[n][i].flags = "ACK" /\ wire[n][i].ack \in ToSet(sendArray[n])})

WindowCountsFlight ==
  Connected /\ lost = 0 =>
    \A n \in Agents : windowPos[n] = InFlight(n) /\ InFlight(n) <= WindowSize

(* What the window has room for from the start arrives, as long as both     *)
(* ends stay connected and nothing is lost.                                 *)
Missing(n) ==
  {seq \in 0 .. WindowSize - 1 : seq < seqData[n] /\ seq \notin ToSet(recvArray[Peer(n)])}

WindowArrives ==
  []<>(Connected /\ lost = 0 => \A n \in Agents : Missing(n) = {})
=============================================================================
