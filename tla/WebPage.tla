------------------------------- MODULE WebPage -------------------------------
(***************************************************************************)
(* The page: PageConfiguration and PageResults joined by the Run button,   *)
(* which posts the configuration and disables its inputs.                  *)
(***************************************************************************)
EXTENDS PageConfiguration, PageResults

CONSTANT
  RunWithin     (* bound on the edits before a run                           *)

ASSUME RunAssumption == RunWithin \in Nat

VARIABLE
  posted        (* what the last post held                                   *)

vars == <<configurationVars, resultVars, posted>>

(* The body of the post.                                                    *)
Configuration ==
  [constellations |-> preset,
   groundStations |-> [i \in DOMAIN listed |-> objects[listed[i]]],
   simulation |-> settings]

Nothing == [constellations |-> "none"]

Init == InitConfiguration /\ InitResults /\ posted = Nothing

(* disableInputs, then postWithData.                                        *)
ClickRun ==
  /\ edits <= RunWithin
  /\ disabled' = TRUE
  /\ PostRun
  /\ posted' = IF posts' > posts THEN Configuration ELSE posted
  /\ UNCHANGED <<elementVars, stationVars, settingVars, globe, edits>>

Next ==
  \/ Configures /\ UNCHANGED <<resultVars, posted>>
  \/ ClickRun
  \/ Results /\ UNCHANGED <<configurationVars, posted>>

Spec == Init /\ [][Next]_vars

(* The browser calls back for every request, answered or failed, and fires  *)
(* timers and frames.  Nothing is said of what the server answers.          *)
FairSpec ==
  /\ Spec
  /\ WF_vars(Answers /\ UNCHANGED <<configurationVars, posted>>)
  /\ WF_vars(Frame /\ UNCHANGED <<configurationVars, posted>>)

-----------------------------------------------------------------------------
Element_ ==
  [numRings : Texts, numSatellitesPerRing : Texts, inclination : Texts,
   orbitalPeriod : Texts, color : Colors, type : Types]

Object == [name : AllNames, uniqueName : AllNames, lat : Texts, lon : Texts, color : Colors]

Flag == {0, 1}

TypeOK ==
  /\ preset.elements \in Seq(Element_)
  /\ objects \in Seq(Object)
  /\ listed \in Seq(DOMAIN objects)
  /\ \A c \in ToSet(cards) : c.i \in DOMAIN preset.elements
  /\ \A c \in ToSet(stationCards) : c.i \in DOMAIN listed
  /\ \A n \in DOMAIN taken : taken[n] \in 0 .. Len(objects) + MaxEdits
  /\ disabled \in BOOLEAN /\ edits \in 0 .. MaxEdits
  /\ button \in BOOLEAN /\ loading \in BOOLEAN
  /\ posts \in Flag /\ checks \in Flag /\ timers \in Flag
  /\ wait \in {10, 60} /\ waited \in -10 .. Patience + 10 /\ failed \in Flag
  /\ output \in Outputs \cup {<<>>}
  /\ tickers \in Flag /\ frames \in Flag /\ results \in Flag

(* Two ground stations of one name go by different uniqueNames              *)
(* (addGroundStation, changeGroundStationName), whatever is added, renamed  *)
(* and removed in between: the server keys its stations by them.            *)
NamesDiffer ==
  \A o, p \in ToSet(listed) :
    o # p /\ objects[o].name = objects[p].name =>
      objects[o].uniqueName # objects[p].uniqueName

(* A field that is not marked invalid shows what a run would be posted,     *)
(* also on cards that have moved up.  A station that is listed twice has    *)
(* two cards and only one of them is written to.                            *)
CardsShowModel ==
  /\ Len(cards) = Len(preset.elements)
  /\ \A c \in DOMAIN cards :
       LET e == preset.elements[c] IN
       /\ \A f \in ElementFields \ cards[c].invalid : cards[c].text[f] = e[f]
       /\ cards[c].type = e.type /\ cards[c].color = e.color
  /\ Len(stationCards) = Len(listed)
  /\ \A c \in DOMAIN stationCards :
       LET o == objects[listed[c]] IN
       (\A d \in DOMAIN listed \ {c} : listed[d] # listed[c]) =>
         /\ \A f \in StationFields \ stationCards[c].invalid : stationCards[c].text[f] = o[f]
         /\ "name" \in stationCards[c].invalid \/ stationCards[c].name = o.name
         /\ stationCards[c].color = o.color

(* The globe shows the configuration as it is: no handler changes it        *)
(* without applying it.                                                     *)
GlobeShowsConfiguration ==
  globe = [rings |-> Configure(preset.elements), stations |-> Placemarks(objects, listed)]

(* A constellation that is posted under a name of the library is that one.  *)
PresetNamesItself ==
  \A p \in DOMAIN Library :
    preset.name = Library[p].name => preset.elements = Library[p].elements

(* What the page shows while a run is made and its output looked at is what *)
(* was posted.                                                              *)
PostedIsShown == posted # Nothing => posted = Configuration

(* While stepNumber n is displayed the globe has the paths of event n, and  *)
(* the n-th bar of the chart, drawn once, is their packets and within the   *)
(* axis.                                                                    *)
ChartMatchesGlobe ==
  menu =>
    /\ Len(charts) = 1
    /\ stepNumber \in DOMAIN charts[1].y
    /\ charts[1].y[stepNumber] = Packets(layers)
    /\ charts[1].min <= Packets(layers) /\ Packets(layers) <= charts[1].max

(* One interval moves the playback, and only while it says so.              *)
OneTicker == tickers = IF playing THEN 1 ELSE 0

(* The page keeps the promise of a run.                                     *)
phase ==
  CASE posts > 0 -> "posting"
    [] checks > 0 -> "checking"
    [] timers > 0 -> "waiting"
    [] OTHER -> IF button THEN "idle" ELSE "done"

Run == INSTANCE PageRun WITH spinner <- loading

KeepsPromise == Run!Spec

(* The spinner never stays on for nothing: a run ends in an output, or Run  *)
(* can be clicked again, unless the server answers check after check that   *)
(* it is not done.  It may, for ever: behind a simulation that threw, or a  *)
(* request that did not parse, there may be no output to come.              *)
RunEnds == (loading ~> ~loading) \/ []<>(timers > 0)

(* The animation ends with the first output; otherwise it would go on       *)
(* moving placemarks that are no longer on the globe.                       *)
AnimationEnds == output # <<>> ~> [](frames = 0)
=============================================================================
