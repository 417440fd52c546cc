---------------------------- MODULE RouteSearch ----------------------------
(***************************************************************************)
(* Manager.route, the search for the path of one packet sender, and        *)
(* Station.updateLength, which labels the stations.  A label is the        *)
(* probability that a packet of mean size survives the path; here it is a  *)
(* loss on a logarithmic scale (0: certain to survive, Lost: certain not   *)
(* to), so that products become sums and "greater" becomes "less".         *)
(*                                                                         *)
(* A direction of a link has a loss of its own: the two ends transmit      *)
(* differently, and SmartDuplexLink.setDate moves the date of a_b only.    *)
(* updateLength asks every link of the path for the direction towards      *)
(* link.otherStation(this), which for a link that does not touch the       *)
(* labelled station is stationA.                                           *)
(***************************************************************************)
EXTENDS ForwardingTables

CONSTANTS
  Lost,         (* the loss of a link that corrupts every packet; a product *)
                (* that underflows to 0 counts as Lost too                  *)
  Loss,         (* losses of a link between satellites that is equally good *)
                (* in both directions                                       *)
  SkewedLoss,   (* losses of a direction, where the directions disagree     *)
  GroundLoss    (* losses of the links to ground stations                   *)

ASSUME SearchAssumption ==
  /\ Lost \in Nat
  /\ Loss \cup SkewedLoss \cup GroundLoss \subseteq 0 .. Lost

Unlabelled == Lost + 1    \* cSuccessChange is null

VARIABLES
  source, dest,    (* the two satellites                                  *)
  loss,            (* getError of every direction                         *)
  label,           (* cSuccessChange of every station                     *)
  path,            (* path of every station                               *)
  frontier,        (* the list "queue" of route, with its duplicates      *)
  outcome          (* "searching", "found" (the path of dest is returned) *)
                   (* or "null"                                           *)

problem == <<source, dest, loss>>
vars == <<problem, label, path, frontier, outcome>>

-----------------------------------------------------------------------------
(* link.getError(link.otherStation(this)). *)
LossSeenBy(l, st) == loss[<<l, OtherStation(l, st)>>]

Capped(n) == IF n > Lost THEN Lost ELSE n

(* The product in Station.updateLength. *)
PathLoss(p, st) ==
  LET total[i \in 0 .. Len(p)] ==
        IF i = 0 THEN 0 ELSE total[i - 1] + LossSeenBy(p[i], st)
  IN Capped(total[Len(p)])

(* Station.links of a satellite, in the order of their creation. *)
LinksOf(st) ==
  [k \in 1 .. NumGround + NumSat - 1 |-> LinkOf(IF k < st THEN k ELSE k + 1, st)]

Relabelled(s, st, p) ==
  [label    |-> [s.label EXCEPT ![st] = PathLoss(p, st)],
   path     |-> [s.path EXCEPT ![st] = p],
   frontier |-> Append(s.frontier, st)]

(* Seeded fault: updateLength accepts a path that is no better. *)
UpdateLengthNotWorse(s, st, p) ==
  IF PathLoss(p, st) <= s.label[st] THEN Relabelled(s, st, p) ELSE s

(* Station.updateLength with the path p, and queue.add if it accepts. *)
UpdateLength(s, st, p) ==
  IF PathLoss(p, st) < s.label[st] THEN Relabelled(s, st, p) ELSE s

(* The loop over point.getLinks(), point being the head of the frontier. *)
Explored(point) ==
  LET links == LinksOf(point)
      step(s, l) == UpdateLength(s, OtherStation(l, point), Append(s.path[point], l))
      after[k \in 0 .. Len(links)] ==
        IF k = 0
        THEN [label |-> label, path |-> path, frontier |-> Tail(frontier)]
        ELSE step(after[k - 1], links[k])
  IN after[Len(links)]

(* Seeded fault: the list is left as it is, first come, first served. *)
SortedByArrival(lab, q) == q

(* Collections.sort, a stable sort. *)
SortedBy(lab, q) ==
  LET rank(i) == 1 + Cardinality({j \in DOMAIN q :
                       lab[q[j]] < lab[q[i]] \/ (lab[q[j]] = lab[q[i]] /\ j < i)})
  IN [k \in DOMAIN q |-> q[CHOOSE i \in DOMAIN q : rank(i) = k]]

-----------------------------------------------------------------------------
SatLink == {l \in Link : l[1] \in Sat}    \* between two satellites

SatChannel == {c \in Channel : c[1] \in SatLink}

(* A loss per link, and a loss per direction. *)
EqualLosses ==
  {[c \in Channel |-> IF c \in SatChannel THEN f[c[1]] ELSE g] :
     f \in [SatLink -> Loss], g \in GroundLoss}

SkewedLosses ==
  {[c \in Channel |-> IF c \in SatChannel THEN f[c] ELSE g] :
     f \in [SatChannel -> SkewedLoss], g \in GroundLoss}

Init ==
  /\ source \in Sat
  /\ dest \in Sat
  /\ loss \in EqualLosses \cup SkewedLosses
  /\ label = [st \in Station |-> IF st = source THEN 0 ELSE Unlabelled]
  /\ path = [st \in Station |-> <<>>]
  /\ frontier = <<source>>
  /\ outcome = "searching"

(* Seeded fault: the search stops as soon as dest has a label. *)
SearchingUntilLabelled == outcome = "searching" /\ frontier # <<>> /\ path[dest] = <<>>

(* The condition of the while loop. *)
Searching == outcome = "searching" /\ frontier # <<>> /\ Head(frontier) # dest

(* Seeded fault: a ground station relays. *)
ExpandAny ==
  /\ Searching
  /\ LET e == Explored(Head(frontier))
     IN /\ label' = e.label
        /\ path' = e.path
        /\ frontier' = SortedBy(e.label, e.frontier)
  /\ UNCHANGED <<problem, outcome>>

(* An iteration at a satellite. *)
Expand ==
  /\ Searching
  /\ Head(frontier) \in Sat
  /\ LET e == Explored(Head(frontier))
     IN /\ label' = e.label
        /\ path' = e.path
        /\ frontier' = SortedBy(e.label, e.frontier)
  /\ UNCHANGED <<problem, outcome>>

(* An iteration at a ground station, which never relays. *)
Skip ==
  /\ Searching
  /\ Head(frontier) \in Ground
  /\ frontier' = Tail(frontier)
  /\ UNCHANGED <<problem, label, path, outcome>>

Return ==
  /\ outcome = "searching"
  /\ ~Searching
  /\ outcome' = IF frontier = <<>> THEN "null" ELSE "found"
  /\ UNCHANGED <<problem, label, path, frontier>>

Next == Expand \/ Skip \/ Return

Spec == Init /\ [][Next]_vars

-----------------------------------------------------------------------------
(* What module SatelliteNetwork takes for granted: route always returns a   *)
(* path, it leads from source to dest over satellites only and visits none  *)
(* twice, even if every link is lost and the directions disagree.           *)
RouteIsWalk ==
  outcome # "searching" =>
    /\ outcome = "found"
    /\ \E w \in Walk : w[1] = source /\ w \in WalkTo(dest) /\ path[dest] = PathLinks(w)

(* Where the directions of every link are equally good, no path over        *)
(* satellites loses less.                                                   *)
RouteIsBest ==
  outcome = "found" /\ loss \in EqualLosses =>
    \A w \in WalkTo(dest) :
      w[1] = source => PathLoss(path[dest], dest) <= PathLoss(PathLinks(w), dest)

(* Where they are, what a station has been given is final once it has left  *)
(* the list, in which it may stand several times: no path found later is    *)
(* accepted for it, so that the paths other stations were given through it  *)
(* stay the ones of their labels.                                           *)
HasLeft(st) == label[st] # Unlabelled /\ \A i \in DOMAIN frontier : frontier[i] # st

LabelsBecomeFinal ==
  [][\A st \in Station :
       loss \in EqualLosses /\ HasLeft(st) => UNCHANGED <<label[st], path[st]>>]_vars

(* The search cannot go on for ever, whatever the losses: an iteration      *)
(* improves a label, or else it only consumes the frontier.                 *)
LabelSum ==
  LET sum[st \in 0 .. NumGround + NumSat] ==
        IF st = 0 THEN 0 ELSE sum[st - 1] + label[st]
  IN sum[NumGround + NumSat]

SearchAdvances ==
  [][\/ outcome' # outcome
     \/ LabelSum' < LabelSum
     \/ LabelSum' = LabelSum /\ Len(frontier') < Len(frontier)]_vars
=============================================================================
