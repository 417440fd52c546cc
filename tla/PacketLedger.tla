---------------------------- MODULE PacketLedger ----------------------------
(***************************************************************************)
(* What the packet counts of a simulation promise, independent of queues,  *)
(* commands and routes: data.PathData says that "a packet that stopped     *)
(* flying in this period is recording in exactly one of these 4 counts".   *)
(* A packet is created, flies, and ends with one fate; from time to time   *)
(* the period is closed and its counts are archived.                       *)
(***************************************************************************)
EXTENDS Integers, FiniteSets

CONSTANTS
  Senders,      (* packet senders                                   *)
  Stamps        (* creation times; with the sender they name packets *)

VARIABLES
  flying,       (* packets created and not ended        *)
  period,       (* counts of the open period            *)
  archive       (* counts of the closed periods, summed *)

vars == <<flying, period, archive>>

Fate  == {"good", "late", "damaged", "dropped"}
Field == Fate \cup {"created"}

Packets == [sender : Senders, born : Stamps]

NoCounts == [s \in Senders |-> [f \in Field |-> 0]]

Init ==
  /\ flying = {}
  /\ period = NoCounts
  /\ archive = NoCounts

Create(p) ==
  /\ p \notin flying
  /\ flying' = flying \cup {p}
  /\ period' = [period EXCEPT ![p.sender]["created"] = @ + 1]
  /\ UNCHANGED archive

End(p, fate) ==
  /\ p \in flying
  /\ flying' = flying \ {p}
  /\ period' = [period EXCEPT ![p.sender][fate] = @ + 1]
  /\ UNCHANGED archive

ClosePeriod ==
  /\ archive' = [s \in Senders |-> [f \in Field |-> archive[s][f] + period[s][f]]]
  /\ period' = NoCounts
  /\ UNCHANGED flying

Next ==
  \/ \E p \in Packets : Create(p)
  \/ \E p \in flying, fate \in Fate : End(p, fate)
  \/ ClosePeriod

Spec == Init /\ [][Next]_vars

-----------------------------------------------------------------------------
Total(s, f) == archive[s][f] + period[s][f]

(* Created packets are the ended ones and the flying ones, for every sender *)
(* and at any time, in the middle of a period too.                          *)
Balanced ==
  \A s \in Senders :
    Total(s, "created")
      = Total(s, "good") + Total(s, "late") + Total(s, "damaged")
        + Total(s, "dropped") + Cardinality({p \in flying : p.sender = s})
=============================================================================
