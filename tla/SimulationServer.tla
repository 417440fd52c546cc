-------------------------- MODULE SimulationServer --------------------------
(***************************************************************************)
(* server.Server and the browsers that use it.  A browser posts one        *)
(* simulation and then asks /check until the answer is done.  The HTTP     *)
(* server handles one exchange at a time; every accepted post starts a     *)
(* thread that builds and runs a Manager under manager_lock.  The threads  *)
(* share the singleton Simulator, the station counter and lastOutput, and  *)
(* /check reads lastOutput without the lock.                               *)
(***************************************************************************)
EXTENDS Integers, FiniteSets

CONSTANTS
  Clients,      (* browsers; each posts one simulation, named by the client *)
  Size,         (* stations of one simulation                               *)
  MayFail       (* requests can be bad, simulations throw, answers be lost  *)

None == "none"

ASSUME ServerAssumption ==
  /\ None \notin Clients
  /\ Size \in Nat \ {0}
  /\ MayFail \in BOOLEAN

ASSUME FinitelyManyClients == IsFiniteSet(Clients)

VARIABLES
  client,       (* what the page of each browser is doing                    *)
  shown,        (* the simulation whose output the page shows                *)
  thread,       (* the thread of each simulation                             *)
  lock,         (* owner of manager_lock                                     *)
  instance,     (* the simulation that set itself as manager of m_instance   *)
  ipCounter,    (* Station.IPcounter                                         *)
  lastOutput,   (* the simulation and the numberOfStations of the output     *)
  checking      (* the exchange the server has open between its two reads    *)
                (* of lastOutput                                             *)

serverVars == <<lock, instance, ipCounter, lastOutput>>
vars == <<client, shown, thread, serverVars, checking>>

NoOutput == [of |-> None, stations |-> 0]

TypeOK ==
  /\ client \in [Clients -> {"idle", "asking", "waiting", "done", "stopped"}]
  /\ shown \in [Clients -> Clients \cup {None, "testOutput"}]
  /\ thread \in [Clients -> {"none", "blocked", "building", "constructing",
                             "running", "publishing", "exited", "dead"}]
  /\ lock \in Clients \cup {None}
  /\ instance \in Clients \cup {None}
  /\ ipCounter \in 0 .. Size * Cardinality(Clients)
  /\ lastOutput = NoOutput \/ lastOutput \in [of : Clients, stations : Nat]
  /\ checking \in Clients \cup {None}

Init ==
  /\ client = [c \in Clients |-> "idle"]
  /\ shown = [c \in Clients |-> None]
  /\ thread = [c \in Clients |-> "none"]
  /\ lock = None
  /\ instance = None
  /\ ipCounter = 0
  /\ lastOutput = NoOutput
  /\ checking = None

(* Something that always succeeds in a model without failures. *)
Success == IF MayFail THEN BOOLEAN ELSE {TRUE}

-----------------------------------------------------------------------------
(* SimulateHandler and the callbacks of postWithData.  A request that is    *)
(* empty or does not parse is answered like any other; if the answer does   *)
(* not arrive the page shows its built-in test output.                      *)
Post(c) ==
  /\ client[c] = "idle" /\ checking = None
  /\ \E parsed, answered \in Success :
       /\ thread' = [thread EXCEPT ![c] = IF parsed THEN "blocked" ELSE @]
       /\ client' = [client EXCEPT ![c] = IF answered THEN "asking" ELSE "done"]
       /\ shown' = [shown EXCEPT ![c] = IF answered THEN @ ELSE "testOutput"]
  /\ UNCHANGED <<serverVars, checking>>

(* CheckHandler, the test for null.  A page that is told to wait asks again *)
(* after timeBetweenChecksInSeconds; one whose request fails stops asking.  *)
CheckReads(c) ==
  /\ client[c] = "asking" /\ checking = None
  /\ \/ /\ lastOutput = NoOutput
        /\ \E answered \in Success :
             client' = [client EXCEPT ![c] = IF answered THEN "waiting" ELSE "stopped"]
        /\ UNCHANGED checking
     \/ /\ lastOutput # NoOutput
        /\ checking' = c /\ UNCHANGED client
  /\ UNCHANGED <<shown, thread, serverVars>>

(* CheckHandler, toJson(lastOutput).                                        *)
CheckAnswers(c) ==
  /\ checking = c
  /\ checking' = None
  /\ \E answered \in Success :
       /\ client' = [client EXCEPT ![c] = IF answered THEN "done" ELSE "stopped"]
       /\ shown' = [shown EXCEPT ![c] = IF answered THEN lastOutput.of ELSE @]
  /\ UNCHANGED <<thread, serverVars>>

AskAgain(c) ==
  /\ client[c] = "waiting"
  /\ client' = [client EXCEPT ![c] = "asking"]
  /\ UNCHANGED <<shown, thread, serverVars, checking>>

-----------------------------------------------------------------------------
Become(c, state) == thread' = [thread EXCEPT ![c] = state]

(* An exception ends the thread and the synchronized block. *)
Die(c) == Become(c, "dead") /\ lock' = None

(* Seeded fault: the thread does not take manager_lock. *)
EnterUnlocked(c) ==
  /\ thread[c] = "blocked"
  /\ lock' = c
  /\ Become(c, "building")
  /\ UNCHANGED <<client, shown, instance, ipCounter, lastOutput, checking>>

Enter(c) ==
  /\ thread[c] = "blocked" /\ lock = None
  /\ lock' = c
  /\ Become(c, "building")
  /\ UNCHANGED <<client, shown, instance, ipCounter, lastOutput, checking>>

(* Seeded fault: the constructor does not look for an instance. *)
HasInstanceIgnored(c) ==
  /\ thread[c] = "building"
  /\ Become(c, "constructing")
  /\ UNCHANGED <<client, shown, lock, instance, ipCounter, lastOutput, checking>>

(* The constructor of Manager begins with hasInstance.  If there is one it  *)
(* returns an empty Manager, whose run fails on sim = null.                 *)
HasInstance(c) ==
  /\ thread[c] = "building"
  /\ IF instance = None
     THEN Become(c, "constructing") /\ UNCHANGED lock
     ELSE Die(c)
  /\ UNCHANGED <<client, shown, instance, ipCounter, lastOutput, checking>>

(* Seeded fault: every station is counted twice. *)
ConstructTwice(c) ==
  /\ thread[c] = "constructing"
  /\ instance' = c
  /\ ipCounter' = ipCounter + 2 * Size
  /\ Become(c, "running")
  /\ UNCHANGED <<client, shown, lock, lastOutput, checking>>

(* The rest of the constructor: getInstance, setManager, the stations. *)
Construct(c) ==
  /\ thread[c] = "constructing"
  /\ instance' = c
  /\ ipCounter' = ipCounter + Size
  /\ Become(c, "running")
  /\ UNCHANGED <<client, shown, lock, lastOutput, checking>>

(* It throws: on the start time before there is an instance, on a station   *)
(* or an orbit after it.                                                    *)
ConstructThrows(c) ==
  /\ MayFail
  /\ thread[c] = "constructing"
  /\ \/ UNCHANGED <<instance, ipCounter>>
     \/ /\ instance' = c
        /\ \E n \in 0 .. Size : ipCounter' = ipCounter + n
  /\ Die(c)
  /\ UNCHANGED <<client, shown, lastOutput, checking>>

(* Manager.run to its end, clearInstance. *)
Run(c) ==
  /\ thread[c] = "running"
  /\ instance' = None
  /\ Become(c, "publishing")
  /\ UNCHANGED <<client, shown, lock, ipCounter, lastOutput, checking>>

(* It throws, as the first update does without a satellite. *)
RunThrows(c) ==
  /\ MayFail
  /\ thread[c] = "running"
  /\ Die(c)
  /\ UNCHANGED <<client, shown, instance, ipCounter, lastOutput, checking>>

(* Seeded fault: the lock is kept. *)
PublishLocked(c) ==
  /\ thread[c] = "publishing"
  /\ lastOutput' = [of |-> c, stations |-> ipCounter]
  /\ Become(c, "exited")
  /\ UNCHANGED <<client, shown, lock, instance, ipCounter, checking>>

(* lastOutput = manager.output(), and the end of the synchronized block.    *)
(* Nobody counts stations between the constructor and this.                 *)
Publish(c) ==
  /\ thread[c] = "publishing"
  /\ lastOutput' = [of |-> c, stations |-> ipCounter]
  /\ lock' = None
  /\ Become(c, "exited")
  /\ UNCHANGED <<client, shown, instance, ipCounter, checking>>

Thread(c) ==
  \/ Enter(c) \/ HasInstance(c) \/ Construct(c) \/ ConstructThrows(c)
  \/ Run(c) \/ RunThrows(c) \/ Publish(c)

Page(c) == Post(c) \/ CheckReads(c) \/ CheckAnswers(c) \/ AskAgain(c)

Next == \E c \in Clients : Thread(c) \/ Page(c)

Spec == Init /\ [][Next]_vars

(* The scheduler runs every thread, the server gets round to every request, *)
(* and a page that waits keeps its timer.                                   *)
FairSpec ==
  /\ Spec
  /\ \A c \in Clients : WF_vars(Thread(c))
  /\ \A c \in Clients : WF_vars(CheckReads(c) \/ CheckAnswers(c) \/ AskAgain(c))

-----------------------------------------------------------------------------
(* Commands, links and stations reach their Manager through the singleton   *)
(* Simulator: while a simulation runs, the singleton is its own.            *)
SingletonIsMine ==
  \A c \in Clients : thread[c] = "running" => instance = c /\ lock = c

(* An instance that a failed simulation has left behind is for ever: no     *)
(* simulation gets past the first line of its constructor again.            *)
NoneRunsAfterFailure ==
  \A c \in Clients :
    thread[c] = "dead" /\ instance = c =>
      \A d \in Clients : thread[d] \notin {"constructing", "running", "publishing"}

(* Every page that has posted gets an output and its simulation is run,     *)
(* however the threads compete for the lock, unless something fails: the    *)
(* page's own request or checks, or a simulation.  Behind a failure too,    *)
(* also of a request that was answered and not parsed, every page comes to  *)
(* rest once any simulation has ended.                                      *)
EveryPostServed ==
  \A c \in Clients :
    /\ client[c] = "asking" ~>
         \/ client[c] = "done" /\ thread[c] = "exited"
         \/ client[c] = "stopped" \/ thread[c] = "none"
         \/ \E d \in Clients : thread[d] = "dead"
    /\ lastOutput # NoOutput /\ client[c] = "asking" ~> client[c] \in {"done", "stopped"}

(* Manager says "A simulation is already running" when hasInstance holds.   *)
AlreadyRunning ==
  \A c \in Clients :
    thread[c] = "building" /\ instance # None =>
      \E d \in Clients \ {c} : thread[d] = "running"

(* /check answers the "Web app checking if simulation is done...": a page   *)
(* that is told so has had its simulation done.                             *)
DoneMeansDone ==
  \A c \in Clients : shown[c] \in Clients => thread[c] = "exited"
=============================================================================
