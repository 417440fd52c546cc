----------------------- MODULE SimulationServer_proofs -----------------------
(***************************************************************************)
(* The singleton Simulator under manager_lock, for any number of browsers. *)
(***************************************************************************)
EXTENDS SimulationServer, FiniteSetTheorems, TLAPS

(* The states of a thread inside the synchronized block. *)
Inside == {"building", "constructing", "running", "publishing"}

(* The owner of the lock is the one thread inside, and the singleton belongs *)
(* to it from getInstance to clearInstance; in between there is none.        *)
LockInv ==
  /\ thread \in [Clients -> Inside \cup {"none", "blocked", "exited", "dead"}]
  /\ client \in [Clients -> {"idle", "asking", "waiting", "done", "stopped"}]
  /\ \A c \in Clients : client[c] = "idle" => thread[c] = "none"
  /\ \A c \in Clients : thread[c] \in Inside <=> lock = c
  /\ \A c \in Clients : thread[c] = "running" => instance = c
  /\ \A c \in Clients : thread[c] \in {"constructing", "publishing"} => instance = None

LEMMA LockInit == Init => LockInv
BY ServerAssumption DEF Init, LockInv, Inside

LEMMA LockStep == LockInv /\ [Next]_vars => LockInv'
<1> SUFFICES ASSUME LockInv, [Next]_vars PROVE LockInv'
  OBVIOUS
<1> USE ServerAssumption DEF LockInv, Inside, serverVars
<1>1. ASSUME NEW c \in Clients, Enter(c) PROVE LockInv'
  BY <1>1 DEF Enter, Become
<1>2. ASSUME NEW c \in Clients, HasInstance(c) PROVE LockInv'
  BY <1>2 DEF HasInstance, Become, Die
<1>3. ASSUME NEW c \in Clients, Construct(c) PROVE LockInv'
  BY <1>3 DEF Construct, Become
<1>4. ASSUME NEW c \in Clients, ConstructThrows(c) PROVE LockInv'
  BY <1>4 DEF ConstructThrows, Become, Die
<1>5. ASSUME NEW c \in Clients, Run(c) PROVE LockInv'
  BY <1>5 DEF Run, Become
<1>6. ASSUME NEW c \in Clients, RunThrows(c) PROVE LockInv'
  BY <1>6 DEF RunThrows, Become, Die
<1>7. ASSUME NEW c \in Clients, Publish(c) PROVE LockInv'
  BY <1>7 DEF Publish, Become
<1>8. ASSUME NEW c \in Clients, Post(c) PROVE LockInv'
  <2>1. \E t \in {"blocked", "none"}, k \in {"asking", "done"} :
          /\ thread' = [thread EXCEPT ![c] = t]
          /\ client' = [client EXCEPT ![c] = k]
    <3>1. thread[c] = "none"
      BY <1>8 DEF Post
    <3> QED BY <1>8, <3>1 DEF Post
  <2>2. thread[c] = "none" /\ UNCHANGED <<lock, instance>>
    BY <1>8 DEF Post
  <2> QED BY <2>1, <2>2
<1>9. ASSUME NEW c \in Clients, CheckReads(c) \/ CheckAnswers(c) \/ AskAgain(c)
      PROVE LockInv'
  BY <1>9 DEF CheckReads, CheckAnswers, AskAgain
<1>10. CASE UNCHANGED vars
  BY <1>10 DEF vars
<1> QED
  BY <1>1, <1>2, <1>3, <1>4, <1>5, <1>6, <1>7, <1>8, <1>9, <1>10
     DEF Next, Thread, Page

(* While a simulation runs the singleton Simulator is its own.              *)
THEOREM SingletonSafe == Spec => []SingletonIsMine
<1>1. LockInv => SingletonIsMine
  BY DEF LockInv, Inside, SingletonIsMine
<1> QED BY <1>1, LockInit, LockStep, PTL DEF Spec

(* A simulation that died with the singleton in place blocks all later ones *)
(* at the first line of their constructor, however many they are.           *)
THEOREM FailureIsFinal == Spec => []NoneRunsAfterFailure
<1>1. LockInv => NoneRunsAfterFailure
  BY ServerAssumption DEF LockInv, Inside, NoneRunsAfterFailure
<1> QED BY <1>1, LockInit, LockStep, PTL DEF Spec

-----------------------------------------------------------------------------
(* The threads that may have counted stations.  Each has counted those of   *)
(* one simulation at most, which bounds Station.IPcounter.                  *)
Counted(th) == {c \in Clients : th[c] \in {"running", "publishing", "exited", "dead"}}

CountInv ==
  /\ ipCounter \in Nat
  /\ ipCounter <= Size * Cardinality(Counted(thread))

LEMMA CountedFacts ==
  ASSUME NEW th
  PROVE  /\ IsFiniteSet(Counted(th)) /\ Cardinality(Counted(th)) \in Nat
         /\ Cardinality(Clients) \in Nat /\ Cardinality(Counted(th)) <= Cardinality(Clients)
BY FinitelyManyClients, FS_Subset, FS_CardinalityType DEF Counted

(* A thread more has counted.                                               *)
LEMMA OneMoreCounted ==
  ASSUME NEW th, NEW c \in Clients, c \notin Counted(th), NEW new,
         Counted(new) = Counted(th) \cup {c},
         NEW n \in Nat, n <= Size * Cardinality(Counted(th)), NEW k \in 0 .. Size
  PROVE  n + k \in Nat /\ n + k <= Size * Cardinality(Counted(new))
<1> DEFINE m == Cardinality(Counted(th))
<1>1. Cardinality(Counted(new)) = m + 1 /\ m \in Nat /\ Size \in Nat
  BY CountedFacts, FS_AddElement, ServerAssumption
<1> HIDE DEF m
<1>2. Size * (m + 1) = Size * m + Size /\ Size * m \in Nat
  BY <1>1
<1> DEFINE p == Size * m
<1> HIDE DEF p
<1>3. n <= p /\ p \in Nat /\ Size * (m + 1) = p + Size
  BY <1>2 DEF p, m
<1>4. n + k <= p + Size
  BY <1>1, <1>3
<1> QED BY <1>1, <1>3, <1>4

LEMMA CountInit == Init => CountInv
<1> SUFFICES ASSUME Init PROVE CountInv
  OBVIOUS
<1>1. Counted(thread) = {} /\ ipCounter = 0
  BY DEF Init, Counted
<1> QED BY <1>1, FS_EmptySet, ServerAssumption DEF CountInv

LEMMA CountStep == LockInv /\ CountInv /\ [Next]_vars => CountInv'
<1> SUFFICES ASSUME LockInv, CountInv, [Next]_vars PROVE CountInv'
  OBVIOUS
<1>1. thread \in [Clients -> Inside \cup {"none", "blocked", "exited", "dead"}]
  BY DEF LockInv
<1>2. ASSUME ipCounter' = ipCounter, Counted(thread') = Counted(thread) PROVE CountInv'
  BY <1>2 DEF CountInv
<1>3. ASSUME NEW c \in Clients, thread[c] \in {"building", "constructing"},
             NEW t \in {"running", "dead"}, Become(c, t),
             NEW k \in 0 .. Size, ipCounter' = ipCounter + k
      PROVE  CountInv'
  <2>1. c \notin Counted(thread)
    BY <1>3 DEF Counted
  <2>2. Counted(thread') = Counted(thread) \cup {c}
    BY <1>1, <1>3 DEF Counted, Become
  <2>3. /\ ipCounter + k \in Nat
        /\ ipCounter + k <= Size * Cardinality(Counted(thread'))
    BY <2>1, <2>2, OneMoreCounted DEF CountInv
  <2> QED BY <1>3, <2>3 DEF CountInv
<1>4. 0 \in 0 .. Size /\ Size \in 0 .. Size /\ ipCounter \in Nat
  BY ServerAssumption DEF CountInv
<1>5. ASSUME NEW c \in Clients, HasInstance(c) PROVE CountInv'
  <2>1. CASE Become(c, "constructing")
    <3>1. Counted(thread') = Counted(thread) /\ ipCounter' = ipCounter
      BY <1>1, <1>5, <2>1 DEF HasInstance, Become, Counted
    <3> QED BY <1>2, <3>1
  <2>2. CASE Become(c, "dead")
    <3>1. ipCounter' = ipCounter + 0 /\ thread[c] = "building"
      BY <1>4, <1>5 DEF HasInstance
    <3> QED BY <1>3, <1>4, <2>2, <3>1
  <2> QED BY <1>5, <2>1, <2>2 DEF HasInstance, Die
<1>6. ASSUME NEW c \in Clients, Construct(c) PROVE CountInv'
  <2>1. thread[c] = "constructing" /\ Become(c, "running") /\ ipCounter' = ipCounter + Size
    BY <1>6 DEF Construct
  <2> QED BY <1>3, <1>4, <2>1
<1>7. ASSUME NEW c \in Clients, ConstructThrows(c) PROVE CountInv'
  <2>1. thread[c] = "constructing" /\ Become(c, "dead")
    BY <1>7 DEF ConstructThrows, Die
  <2>2. \E k \in 0 .. Size : ipCounter' = ipCounter + k
    <3>1. ipCounter' = ipCounter \/ \E k \in 0 .. Size : ipCounter' = ipCounter + k
      BY <1>7 DEF ConstructThrows
    <3>2. ipCounter + 0 = ipCounter
      BY <1>4
    <3> QED BY <1>4, <3>1, <3>2
  <2> QED BY <1>3, <2>1, <2>2
<1>8. ASSUME NEW c \in Clients, Enter(c) \/ Run(c) \/ RunThrows(c) \/ Publish(c) \/ Post(c)
      PROVE  CountInv'
  <2>1. ipCounter' = ipCounter
    BY <1>8 DEF Enter, Run, RunThrows, Publish, Post, serverVars
  <2>2. \E t : /\ thread' = [thread EXCEPT ![c] = t]
               /\ (t \in {"running", "publishing", "exited", "dead"} <=> c \in Counted(thread))
    <3>1. CASE Post(c)
      <4>1. thread[c] = "none"
        BY <3>1 DEF Post, LockInv
      <4>2. PICK t \in {"blocked", "none"} : thread' = [thread EXCEPT ![c] = t]
        BY <3>1, <4>1 DEF Post
      <4> QED BY <4>1, <4>2 DEF Counted
    <3>2. CASE Enter(c) \/ Run(c) \/ RunThrows(c) \/ Publish(c)
      BY <3>2 DEF Enter, Run, RunThrows, Publish, Become, Die, Counted
    <3> QED BY <1>8, <3>1, <3>2
  <2>3. Counted(thread') = Counted(thread)
    BY <1>1, <2>2 DEF Counted
  <2> QED BY <1>2, <2>1, <2>3
<1>9. ASSUME NEW c \in Clients, CheckReads(c) \/ CheckAnswers(c) \/ AskAgain(c)
      PROVE CountInv'
  <2>1. ipCounter' = ipCounter /\ thread' = thread
    BY <1>9 DEF CheckReads, CheckAnswers, AskAgain, serverVars
  <2> QED BY <1>2, <2>1
<1>10. CASE UNCHANGED vars
  <2>1. ipCounter' = ipCounter /\ thread' = thread
    BY <1>10 DEF vars, serverVars
  <2> QED BY <1>2, <2>1
<1> QED
  BY <1>5, <1>6, <1>7, <1>8, <1>9, <1>10 DEF Next, Thread, Page

(* The types of what no thread shares.                                      *)
OutputInv ==
  /\ shown \in [Clients -> Clients \cup {None, "testOutput"}]
  /\ lock \in Clients \cup {None}
  /\ instance \in Clients \cup {None}
  /\ lastOutput = NoOutput \/ lastOutput \in [of : Clients, stations : Nat]
  /\ checking \in Clients \cup {None}

LEMMA OutputInit == Init => OutputInv
BY DEF Init, OutputInv

LEMMA OutputStep == OutputInv /\ CountInv /\ [Next]_vars => OutputInv'
<1> SUFFICES ASSUME OutputInv, CountInv, [Next]_vars PROVE OutputInv'
  OBVIOUS
<1> USE DEF OutputInv, serverVars
<1>1. ASSUME NEW c \in Clients, Thread(c) PROVE OutputInv'
  <2>1. CASE Publish(c)
    <3>1. [of |-> c, stations |-> ipCounter] \in [of : Clients, stations : Nat]
      BY DEF CountInv
    <3> QED BY <2>1, <3>1 DEF Publish
  <2>2. CASE Enter(c) \/ HasInstance(c)
    BY <2>2 DEF Enter, HasInstance, Die
  <2>3. CASE Construct(c) \/ ConstructThrows(c)
    BY <2>3 DEF Construct, ConstructThrows, Die
  <2>4. CASE Run(c) \/ RunThrows(c)
    BY <2>4 DEF Run, RunThrows, Die
  <2> QED BY <1>1, <2>1, <2>2, <2>3, <2>4 DEF Thread
<1>2. ASSUME NEW c \in Clients, Post(c) PROVE OutputInv'
  <2>1. shown' \in [Clients -> Clients \cup {None, "testOutput"}]
    <3>1. \E answered \in BOOLEAN : shown' = [shown EXCEPT ![c] = IF answered THEN @ ELSE "testOutput"]
      BY <1>2 DEF Post, Success
    <3> QED BY <3>1
  <2>2. UNCHANGED <<lock, instance, lastOutput, checking>>
    BY <1>2 DEF Post
  <2> QED BY <2>1, <2>2
<1>3. ASSUME NEW c \in Clients, CheckAnswers(c) PROVE OutputInv'
  <2>1. lastOutput.of \in Clients \cup {None}
    BY DEF NoOutput
  <2>2. shown' \in [Clients -> Clients \cup {None, "testOutput"}]
    <3>1. \E answered \in BOOLEAN : shown' = [shown EXCEPT ![c] = IF answered THEN lastOutput.of ELSE @]
      BY <1>3 DEF CheckAnswers, Success
    <3> QED BY <2>1, <3>1
  <2>3. UNCHANGED <<lock, instance, lastOutput>> /\ checking' = None
    BY <1>3 DEF CheckAnswers
  <2> QED BY <2>2, <2>3
<1>4. ASSUME NEW c \in Clients, CheckReads(c) \/ AskAgain(c) PROVE OutputInv'
  BY <1>4 DEF CheckReads, AskAgain
<1>5. CASE UNCHANGED vars
  BY <1>5 DEF vars
<1> QED BY <1>1, <1>2, <1>3, <1>4, <1>5 DEF Next, Page

(* Every variable keeps its type, and the static counter of stations (which *)
(* clearInstance does not reset) never exceeds what all posts together ask  *)
(* for, whatever fails on the way.                                          *)
THEOREM ServerTyped == Spec => []TypeOK
<1>1. ASSUME LockInv, CountInv, OutputInv PROVE TypeOK
  <2>1. ipCounter \in 0 .. Size * Cardinality(Clients)
    <3> DEFINE m == Cardinality(Counted(thread))
               n == Cardinality(Clients)
    <3>1. m \in Nat /\ n \in Nat /\ m <= n
      BY CountedFacts
    <3>2. ipCounter \in Nat /\ ipCounter <= Size * m
      BY <1>1 DEF CountInv
    <3> HIDE DEF m, n
    <3>3. Size * m <= Size * n /\ Size * m \in Nat /\ Size * n \in Nat
      <4>1. PICK d \in Nat : n = m + d
        <5>1. n - m \in Nat /\ n = m + (n - m)
          BY <3>1
        <5> QED BY <5>1
      <4>2. Size * n = Size * m + Size * d /\ Size * d \in Nat /\ Size * m \in Nat
        BY <3>1, <4>1, ServerAssumption
      <4> QED BY <4>2
    <3>4. ipCounter \in 0 .. Size * n
      BY <3>2, <3>3
    <3> QED BY <3>4 DEF n
  <2> QED BY <1>1, <2>1 DEF LockInv, OutputInv, TypeOK, Inside
<1>2. Init => LockInv /\ CountInv /\ OutputInv
  BY LockInit, CountInit, OutputInit
<1>3. LockInv /\ CountInv /\ OutputInv /\ [Next]_vars => (LockInv /\ CountInv /\ OutputInv)'
  BY LockStep, CountStep, OutputStep
<1> QED BY <1>1, <1>2, <1>3, PTL DEF Spec
=============================================================================
