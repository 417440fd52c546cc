----------------------------- MODULE EventQueue -----------------------------
(***************************************************************************)
(* The priority queue of the discrete event simulator                      *)
(* (jns.util.PriorityQueue), as operators on the sequence of the pending   *)
(* commands in the order in which peek/pop return them: element 1 is the   *)
(* item at m_last, the next command to execute.                            *)
(***************************************************************************)
EXTENDS Integers, Sequences

(* Seeded fault: push only appends. *)
InsertPositionLast(q, t) == Len(q) + 1

(***************************************************************************)
(* push walks from m_first (the latest command) while the priority of the  *)
(* item is greater than the new one and links the new item there.  In      *)
(* execution order that is the position behind the last command that is    *)
(* not later than t, so commands of equal time stay in FIFO order.         *)
(***************************************************************************)
InsertPosition(q, t) ==
    CHOOSE k \in 1 .. Len(q) + 1 :
        /\ \A i \in 1 .. Len(q) : i >= k => q[i].time > t
        /\ k > 1 => q[k - 1].time <= t

InsertAtPosition(q, k, c) ==
    [i \in 1 .. Len(q) + 1 |->
        IF i < k THEN q[i] ELSE IF i = k THEN c ELSE q[i - 1]]

Push(q, c) == InsertAtPosition(q, InsertPosition(q, c.time), c)

Peek(q) == q[1]

Pop(q) == Tail(q)

(* The commands of q execute in the order of their times. *)
Ordered(q) == \A i, j \in 1 .. Len(q) : i < j => q[i].time <= q[j].time

(* The positions of q at which command operation o is pending. *)
PendingAt(q, o) == {i \in 1 .. Len(q) : q[i].op = o}
=============================================================================
