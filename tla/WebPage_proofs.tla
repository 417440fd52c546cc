--------------------------- MODULE WebPage_proofs ---------------------------
(***************************************************************************)
(* Proofs about the page, for every set of texts, names and outputs and    *)
(* every length of a session:                                              *)
(*                                                                         *)
(*   RunKeepsPromise      a run is one conversation with the server        *)
(*   PlaybackHasOneTicker the playback is moved by one interval            *)
(*   PostStaysShown       what was posted is what the page goes on showing *)
(*   GlobeFollows         no handler forgets to apply the configuration    *)
(*   NamesStayApart       stations of one name have different uniqueNames  *)
(*   LibraryStaysItself   only a preset of the library goes by its name    *)
(*   CardsFollow          the cards show the configuration                 *)
(*   PageTyped            the page stays well formed                       *)
(*   ChartIsOfGlobe       the chart says what the globe shows              *)
(***************************************************************************)
EXTENDS WebPage, SequenceTheorems, FiniteSetTheorems, WellFoundedInduction, TLAPS

-----------------------------------------------------------------------------
(* The conversation.  At most one request or timer is pending, exactly as   *)
(* long as the page is loading, and Run stays on the page meanwhile.        *)
Pending == posts + checks + timers

OneConversation ==
  /\ posts \in Nat /\ checks \in Nat /\ timers \in Nat /\ results \in Nat
  /\ button \in BOOLEAN /\ loading \in BOOLEAN
  /\ loading => Pending = 1 /\ button
  /\ ~loading => Pending = 0

PromiseVars == <<phase, loading, results>>

(* What the handlers of the run and the playback leave alone together.      *)
ConversationVars == <<button, loading, posts, checks, timers, results>>

LEMMA ConversationInit == Init => OneConversation /\ Run!Init
<1> SUFFICES ASSUME Init PROVE OneConversation /\ Run!Init
  OBVIOUS
<1>1. posts = 0 /\ checks = 0 /\ timers = 0 /\ results = 0 /\ button = TRUE /\ loading = FALSE /\ ~loading
  BY DEF Init, InitResults
<1>2. phase = "idle"
  BY <1>1 DEF phase
<1>3. button \in BOOLEAN /\ loading \in BOOLEAN
  BY <1>1
<1> QED BY <1>1, <1>2, <1>3 DEF OneConversation, Pending, Run!Init

LEMMA ConversationStutters ==
  ASSUME OneConversation, UNCHANGED ConversationVars
  PROVE  OneConversation' /\ UNCHANGED PromiseVars
  BY DEF OneConversation, Pending, ConversationVars, PromiseVars, phase

(* The run, one step at a time: each keeps to one conversation, and is a    *)
(* step that PageRun allows.                                                *)
LEMMA PostRunConverses ==
  ASSUME OneConversation, PostRun
  PROVE  OneConversation' /\ (Run!Next \/ UNCHANGED PromiseVars)
<1>1. CASE loading
  BY <1>1 DEF OneConversation, Pending, PostRun, shownVars, PromiseVars, phase
<1>2. CASE ~loading
  <2>1. posts' = 1 /\ checks' = 0 /\ timers' = 0 /\ loading' = TRUE /\ UNCHANGED <<button, results>>
    BY <1>2 DEF OneConversation, Pending, PostRun, shownVars
  <2>2. phase = "idle" /\ phase' = "posting"
    BY <1>2, <2>1 DEF OneConversation, Pending, PostRun, phase
  <2> QED BY <2>1, <2>2 DEF OneConversation, Pending, PostRun, Run!Next, Run!Talks, Run!Turn
<1> QED BY <1>1, <1>2 DEF OneConversation

LEMMA AnswersConverse ==
  ASSUME OneConversation, Answers
  PROVE  OneConversation' /\ Run!Next
<1>1. CASE PostDone
  <2>1. loading /\ posts = 1 /\ checks = 0 /\ timers = 0
    BY <1>1 DEF OneConversation, Pending, PostDone
  <2>2. posts' = 0 /\ checks' = 1 /\ timers' = 0 /\ loading' = TRUE /\ UNCHANGED <<button, results>>
    BY <1>1, <2>1 DEF PostDone, WaitForSimulationToFinish, shownVars
  <2>3. phase = "posting" /\ phase' = "checking"
    BY <2>1, <2>2 DEF phase
  <2> QED BY <2>1, <2>2, <2>3 DEF OneConversation, Pending, Run!Next, Run!Talks, Run!Turn
<1>2. CASE PostFails
  <2>1. loading /\ posts = 1 /\ checks = 0 /\ timers = 0
    BY <1>2 DEF OneConversation, Pending, PostFails
  <2>2. posts' = 0 /\ checks' = 0 /\ timers' = 0 /\ loading' = FALSE /\ ~loading'
        /\ button' = FALSE /\ results' = results + 1
    BY <1>2, <2>1 DEF PostFails, OutputResults
  <2>3. phase = "posting" /\ phase' = "done"
    BY <2>1, <2>2 DEF phase
  <2>4. loading' \in BOOLEAN /\ button' \in BOOLEAN
    BY <2>2
  <2> QED BY <2>1, <2>2, <2>3, <2>4 DEF OneConversation, Pending, Run!Next, Run!Shows, Run!Turn
<1>3. CASE CheckNotDone
  <2>1. loading /\ posts = 0 /\ checks = 1 /\ timers = 0
    BY <1>3 DEF OneConversation, Pending, CheckNotDone
  <2>2. posts' = 0 /\ checks' = 0 /\ timers' = 1 /\ loading' = TRUE /\ UNCHANGED <<button, results>>
    BY <1>3, <2>1 DEF CheckNotDone, shownVars
  <2>3. phase = "checking" /\ phase' = "waiting"
    BY <2>1, <2>2 DEF phase
  <2> QED BY <2>1, <2>2, <2>3 DEF OneConversation, Pending, Run!Next, Run!Talks, Run!Turn
<1>4. CASE CheckFails
  <2>1. loading /\ button /\ posts = 0 /\ checks = 1 /\ timers = 0
    BY <1>4 DEF OneConversation, Pending, CheckFails
  <2>2. posts' = 0 /\ checks' = 0 /\ timers' = 0 /\ loading' = FALSE /\ ~loading'
        /\ UNCHANGED <<button, results>>
    BY <1>4, <2>1 DEF CheckFails, shownVars
  <2>3. phase = "checking" /\ phase' = "idle"
    BY <2>1, <2>2 DEF phase
  <2>4. loading' \in BOOLEAN /\ button' \in BOOLEAN
    BY <2>2 DEF OneConversation
  <2> QED BY <2>1, <2>2, <2>3, <2>4 DEF OneConversation, Pending, Run!Next, Run!GivesUp, Run!Turn
<1>5. CASE CheckAgain
  <2>1. loading /\ posts = 0 /\ checks = 0 /\ timers = 1
    BY <1>5 DEF OneConversation, Pending, CheckAgain
  <2>2. posts' = 0 /\ checks' = 1 /\ timers' = 0 /\ loading' = TRUE /\ UNCHANGED <<button, results>>
    BY <1>5, <2>1 DEF CheckAgain, WaitForSimulationToFinish, shownVars
  <2>3. phase = "waiting" /\ phase' = "checking"
    BY <2>1, <2>2 DEF phase
  <2> QED BY <2>1, <2>2, <2>3 DEF OneConversation, Pending, Run!Next, Run!Talks, Run!Turn
<1>6. ASSUME NEW out \in Outputs, CheckDone(out)
      PROVE  OneConversation' /\ Run!Next
  <2>1. loading /\ posts = 0 /\ checks = 1 /\ timers = 0
    BY <1>6 DEF OneConversation, Pending, CheckDone
  <2>2. posts' = 0 /\ checks' = 0 /\ timers' = 0 /\ loading' = FALSE /\ ~loading'
        /\ button' = FALSE /\ results' = results + 1
    BY <1>6, <2>1 DEF CheckDone, OutputResults
  <2>3. phase = "checking" /\ phase' = "done"
    BY <2>1, <2>2 DEF phase
  <2>4. loading' \in BOOLEAN /\ button' \in BOOLEAN
    BY <2>2
  <2> QED BY <2>1, <2>2, <2>3, <2>4 DEF OneConversation, Pending, Run!Next, Run!Shows, Run!Turn
<1> QED BY <1>1, <1>2, <1>3, <1>4, <1>5, <1>6 DEF Answers

LEMMA PlaybackIsSilent == Playback \/ Frame => UNCHANGED ConversationVars
  BY DEF Playback, Prev, NextStep, Play, Tick, ViewStats, CloseStats, Frame, PlaybackUnchanged,
         ConversationVars, requestVars, shownVars

LEMMA ConversationStep ==
  ASSUME OneConversation, [Next]_vars
  PROVE  OneConversation' /\ [Run!Next]_PromiseVars
<1>1. CASE UNCHANGED <<resultVars, posted>>
  <2>1. UNCHANGED ConversationVars
    BY <1>1 DEF resultVars, requestVars, shownVars, ConversationVars
  <2> QED BY <2>1, ConversationStutters
<1>2. CASE ClickRun
  BY <1>2, PostRunConverses DEF ClickRun
<1>3. CASE Results
  BY <1>3, AnswersConverse, PlaybackIsSilent, ConversationStutters DEF Results
<1> QED BY <1>1, <1>2, <1>3 DEF Next, vars

(* The page and the server have one conversation per run: it is posted      *)
(* once, checks and timeouts alternate, and it ends in one output or, if a  *)
(* check fails, where it began (clickRun, waitForSimulationToFinish and     *)
(* WebService implement PageRun).                                           *)
THEOREM RunKeepsPromise == Spec => KeepsPromise
<1>1. Spec => []OneConversation
  <2>1. Init => OneConversation
    BY ConversationInit
  <2>2. OneConversation /\ [Next]_vars => OneConversation'
    BY ConversationStep
  <2> QED BY <2>1, <2>2, PTL DEF Spec
<1>2. Init => Run!Init
  BY ConversationInit
<1>3. OneConversation /\ [Next]_vars => [Run!Next]_<<phase, loading, results>>
  BY ConversationStep DEF PromiseVars
<1> QED BY <1>1, <1>2, <1>3, PTL DEF Spec, KeepsPromise, Run!Spec

-----------------------------------------------------------------------------
(* The playback.  intervalID is set exactly while the page says it plays.   *)
TickerInv == playing \in BOOLEAN /\ interval = playing /\ OneTicker

LEMMA TickerInit == Init => TickerInv
<1> SUFFICES ASSUME Init PROVE TickerInv
  OBVIOUS
<1>1. playing = FALSE /\ interval = FALSE /\ tickers = 0
  BY DEF Init, InitResults
<1>2. playing \in BOOLEAN /\ interval = playing
  BY <1>1
<1> QED BY <1>1, <1>2 DEF TickerInv, OneTicker

LEMMA TickerStutters == TickerInv /\ UNCHANGED playVars => TickerInv'
  BY DEF TickerInv, OneTicker, playVars

LEMMA StopPlayingStops == TickerInv /\ StopPlaying => TickerInv'
<1> SUFFICES ASSUME TickerInv, StopPlaying PROVE TickerInv'
  OBVIOUS
<1>1. playing' = FALSE /\ interval' = FALSE
  BY DEF StopPlaying
<1>2. tickers' = 0
  BY DEF StopPlaying, TickerInv, OneTicker
<1>3. playing' \in BOOLEAN /\ interval' = playing'
  BY <1>1
<1> QED BY <1>1, <1>2, <1>3 DEF TickerInv, OneTicker

LEMMA TickerStep == TickerInv /\ [Next]_vars => TickerInv'
<1> SUFFICES ASSUME TickerInv, [Next]_vars PROVE TickerInv'
  OBVIOUS
<1>1. CASE UNCHANGED <<resultVars, posted>>
  BY <1>1, TickerStutters DEF resultVars
<1>2. CASE ClickRun
  BY <1>2, TickerStutters DEF ClickRun, PostRun
<1>3. CASE Answers
  BY <1>3, TickerStutters DEF Answers, PostDone, PostFails, CheckDone, CheckNotDone, CheckFails,
                              CheckAgain
<1>4. CASE Prev \/ NextStep
  BY <1>4, StopPlayingStops DEF Prev, NextStep
<1>5. CASE Play
  <2>1. CASE playing
    BY <1>5, <2>1, StopPlayingStops DEF Play
  <2>2. CASE ~playing
    <3>1. playing' = TRUE /\ interval' = TRUE
      BY <1>5, <2>2 DEF Play
    <3>2. tickers' = 1
      BY <1>5, <2>2 DEF Play, TickerInv, OneTicker
    <3>3. playing' \in BOOLEAN /\ interval' = playing'
      BY <3>1
    <3> QED BY <3>1, <3>2, <3>3 DEF TickerInv, OneTicker
  <2> QED BY <2>1, <2>2
<1>6. CASE Tick \/ ViewStats \/ CloseStats \/ Frame
  BY <1>6, TickerStutters DEF Tick, ViewStats, CloseStats, Frame
<1> QED BY <1>1, <1>2, <1>3, <1>4, <1>5, <1>6 DEF Next, vars, Results, Playback

(* However Prev, Next, Play and the interval follow each other, one         *)
(* interval moves the playback, and none once it has been stopped           *)
(* (stopPlaying).                                                           *)
THEOREM PlaybackHasOneTicker == Spec => []OneTicker
<1>1. TickerInv => OneTicker
  BY DEF TickerInv
<1> QED BY TickerInit, TickerStep, <1>1, PTL DEF Spec

-----------------------------------------------------------------------------
(* What was posted.  A page that has posted is disabled, and every handler  *)
(* that changes the configuration is.                                       *)
PostedInv == posted # Nothing => disabled /\ posted = Configuration

ConfigurationParts == <<preset, objects, listed, settings>>

(* What the handlers of a kind have in common, whichever of them it is.     *)
LEMMA ElementsEdit == ChangeElements => EditElements
<1> SUFFICES ASSUME ChangeElements PROVE EditElements
  OBVIOUS
<1>1. ASSUME NEW p, ChoosePreset(p) PROVE EditElements
  BY <1>1 DEF ChoosePreset
<1>2. CASE AddElement
  BY <1>2 DEF AddElement
<1>3. ASSUME NEW c, CloseElement(c) PROVE EditElements
  BY <1>3 DEF CloseElement
<1>4. ASSUME NEW c, NEW f, NEW text, TypeInElement(c, f, text) PROVE EditElements
  BY <1>4 DEF TypeInElement
<1>5. ASSUME NEW c, NEW type, ChooseType(c, type) PROVE EditElements
  BY <1>5 DEF ChooseType
<1>6. ASSUME NEW c, NEW color, ChooseColor(c, color) PROVE EditElements
  BY <1>6 DEF ChooseColor
<1> QED BY <1>1, <1>2, <1>3, <1>4, <1>5, <1>6, Zenon DEF ChangeElements

StationsAreEdited ==
  /\ EditStations
  /\ ~disabled
  /\ UNCHANGED taken \/ \E n : Count(n)

LEMMA StationsEdit == ChangeStations => StationsAreEdited
<1> SUFFICES ASSUME ChangeStations PROVE StationsAreEdited
  OBVIOUS
<1>1. ASSUME NEW os, NEW o, AddGroundStation(os, o) PROVE \E n : Count(n)
  BY <1>1, Zenon DEF AddGroundStation
<1>2. ASSUME NEW o, AddPresetStation(o) PROVE StationsAreEdited
  BY <1>1, <1>2, Zenon DEF AddPresetStation, StationsAreEdited, Enabled
<1>3. CASE AddCustomStation
  BY <1>1, <1>3, Zenon DEF AddCustomStation, StationsAreEdited, Enabled
<1>4. ASSUME NEW lat, NEW lon, ClickGlobe(lat, lon) PROVE StationsAreEdited
  BY <1>1, <1>4, Zenon DEF ClickGlobe, StationsAreEdited
<1>5. ASSUME NEW c, CloseStation(c) PROVE StationsAreEdited
  BY <1>5, Zenon DEF CloseStation, StationsAreEdited, Enabled
<1>6. ASSUME NEW c, NEW name, TypeName(c, name) PROVE StationsAreEdited
  <2>1. UNCHANGED taken \/ Count(name)
    BY <1>6, Zenon DEF TypeName, ChangeGroundStationName
  <2> QED BY <1>6, <2>1, Zenon DEF TypeName, StationsAreEdited, Enabled
<1>7. ASSUME NEW c, NEW f, NEW text, TypeCoordinate(c, f, text) PROVE StationsAreEdited
  BY <1>7 DEF TypeCoordinate, StationsAreEdited, Enabled
<1>8. ASSUME NEW c, NEW color, ChooseTraffic(c, color) PROVE StationsAreEdited
  BY <1>8 DEF ChooseTraffic, StationsAreEdited, Enabled
<1> QED BY <1>2, <1>3, <1>4, <1>5, <1>6, <1>7, <1>8, SMT DEF ChangeStations

LEMMA SettingsEdit ==
  ChangeSettings => Edit /\ Enabled /\ UNCHANGED <<elementVars, stationVars, globe>>
  BY DEF ChangeSettings, TypeSetting

LEMMA DisabledKeepsAll == Configures => ~disabled
  BY ElementsEdit, StationsEdit, SettingsEdit
     DEF Configures, EditElements, Enabled, StationsAreEdited

LEMMA PostedStutters ==
  ASSUME PostedInv, UNCHANGED <<posted, disabled>>, UNCHANGED ConfigurationParts
  PROVE  PostedInv'
<1>1. Configuration' = Configuration
  BY DEF Configuration, ConfigurationParts
<1> QED BY <1>1 DEF PostedInv, Nothing

LEMMA PostedStep == PostedInv /\ [Next]_vars => PostedInv'
<1> SUFFICES ASSUME PostedInv, [Next]_vars PROVE PostedInv'
  OBVIOUS
<1>1. CASE Configures /\ UNCHANGED posted
  BY <1>1, DisabledKeepsAll DEF PostedInv, Nothing
<1>2. CASE ClickRun
  <2>1. UNCHANGED ConfigurationParts /\ disabled' = TRUE
    BY <1>2 DEF ClickRun, ConfigurationParts, elementVars, stationVars, settingVars
  <2>2. Configuration' = Configuration
    BY <2>1 DEF Configuration, ConfigurationParts
  <2>3. posted' = Configuration \/ posted' = posted
    BY <1>2 DEF ClickRun
  <2> QED BY <2>1, <2>2, <2>3 DEF PostedInv, Nothing
<1>3. CASE UNCHANGED <<configurationVars, posted>>
  <2>1. UNCHANGED ConfigurationParts /\ UNCHANGED <<posted, disabled>>
    BY <1>3 DEF configurationVars, ConfigurationParts, elementVars, stationVars, settingVars
  <2> QED BY <2>1, PostedStutters
<1> QED BY <1>1, <1>2, <1>3 DEF Next, vars

(* The cards, the globe and the settings keep showing the configuration     *)
(* that the results belong to: after clickRun no handler changes it, the    *)
(* one of the globe included, which no style disables (handleClick).        *)
THEOREM PostStaysShown == Spec => []PostedIsShown
<1>1. Init => PostedInv
  BY DEF Init, PostedInv
<1>2. PostedInv => PostedIsShown
  BY DEF PostedInv, PostedIsShown
<1> QED BY <1>1, <1>2, PostedStep, PTL DEF Spec

-----------------------------------------------------------------------------
(* The stations.  Their objects and cards are well formed, and every name   *)
(* an object has is counted.                                                *)
CardOfStation ==
  [i : Nat, name : AllNames, text : [StationFields -> Texts],
   invalid : SUBSET (StationFields \cup {"name"}), color : Colors]

ListOf(os, list) == list \in Seq(DOMAIN os)

CardsOf(cs, list) == cs \in Seq(CardOfStation) /\ \A c \in DOMAIN cs : cs[c].i \in DOMAIN list

NamedIn(os, tk) == \A o \in DOMAIN os : os[o].name \in DOMAIN tk

StationTypes ==
  /\ objects \in Seq(Object)
  /\ DOMAIN StationPresets \subseteq DOMAIN objects
  /\ ListOf(objects, listed)
  /\ CardsOf(stationCards, listed)
  /\ taken \in [DOMAIN taken -> Nat]
  /\ TypedNames \cup {Name("Custom")} \subseteq DOMAIN taken
  /\ DOMAIN taken \subseteq AllNames
  /\ NamedIn(objects, taken)

(* The objects other than x hold numbers of their names that have been      *)
(* given, no two the same.                                                  *)
NumberedBut(os, tk, x) ==
  /\ \A o \in DOMAIN os \ {x} :
       \E k \in 1 .. tk[os[o].name] : os[o].uniqueName = UniqueName(os[o].name, k)
  /\ \A o, p \in DOMAIN os \ {x} :
       o # p /\ os[o].name = os[p].name => os[o].uniqueName # os[p].uniqueName

StationInv == StationTypes /\ NumberedBut(objects, taken, 0)

LEMMA SeqUpdated ==
  ASSUME NEW S, NEW seq \in Seq(S), NEW i, NEW x \in S
  PROVE  /\ [seq EXCEPT ![i] = x] \in Seq(S)
         /\ DOMAIN [seq EXCEPT ![i] = x] = DOMAIN seq
<1> DEFINE new == [seq EXCEPT ![i] = x]
<1>1. Len(seq) \in Nat /\ DOMAIN seq = 1 .. Len(seq) /\ \A j \in 1 .. Len(seq) : seq[j] \in S
  OBVIOUS
<1>2. DOMAIN new = 1 .. Len(seq) /\ \A j \in 1 .. Len(seq) : new[j] \in S
  BY <1>1
<1>3. new = [j \in 1 .. Len(seq) |-> new[j]]
  BY <1>1
<1> HIDE DEF new
<1>4. new \in Seq(S)
  BY <1>1, <1>2, <1>3
<1> QED BY <1>1, <1>2, <1>4 DEF new

LEMMA SameDomainSameLength ==
  ASSUME NEW S, NEW T, NEW s \in Seq(S), NEW t \in Seq(T), DOMAIN s = DOMAIN t
  PROVE  Len(s) = Len(t)
<1>1. /\ DOMAIN s = 1 .. Len(s) /\ Len(s) \in Nat
      /\ DOMAIN t = 1 .. Len(t) /\ Len(t) \in Nat
  OBVIOUS
<1>2. \A m, n \in Nat : 1 .. m = 1 .. n => m = n
  <2> SUFFICES ASSUME NEW m \in Nat, NEW n \in Nat, 1 .. m = 1 .. n PROVE m = n
    OBVIOUS
  <2>1. (m > 0 => m \in 1 .. n) /\ (n > 0 => n \in 1 .. m)
    OBVIOUS
  <2> QED BY <2>1
<1> QED BY <1>1, <1>2, Zenon

LEMMA SteppedIsText ==
  ASSUME NEW text \in Texts
  PROVE  Stepped(text) \subseteq Texts
<1>1. ParseInt(text) \in Texts
  BY DEF ParseInt, Texts, Number, Word
<1>2. Word \in Texts /\ \A n \in Int : Number(n) \in Texts
  BY DEF Texts, Number, Word
<1>3. ParseInt(text).tenths \in Int
  BY <1>1 DEF Texts
<1>4. \A by \in {-10, 10} : ParseInt(text).tenths + by \in Int
  BY <1>3
<1> QED BY <1>2, <1>4 DEF Stepped

LEMMA InputIsText ==
  ASSUME NEW f \in StationFields \cup ElementFields, NEW text \in Texts
  PROVE  InputOf(f, text) \subseteq Texts
<1>1. Typed[f] \subseteq Texts
  BY ConfigurationAssumption
<1> QED BY <1>1, SteppedIsText DEF InputOf

LEMMA UniqueNameIsName ==
  ASSUME NEW n \in AllNames, NEW k \in Nat
  PROVE  UniqueName(n, k) \in AllNames
BY DEF UniqueName, Suffixed, AllNames

LEMMA UniqueNameDiffers ==
  ASSUME NEW n \in AllNames, NEW j \in Nat, NEW k \in Nat, j # k
  PROVE  UniqueName(n, j) # UniqueName(n, k)
<1>1. n.digits \in Seq(Nat)
  BY DEF AllNames
<1>2. Append(n.digits, j) # Append(n.digits, k)
  BY <1>1
<1>3. \A i \in Nat : Append(n.digits, i) # n.digits
  BY <1>1
<1>4. Suffixed(n, j) # Suffixed(n, k)
  BY <1>2 DEF Suffixed
<1>5. \A i \in Nat : Suffixed(n, i) # n
  BY <1>3 DEF Suffixed
<1> QED BY <1>4, <1>5 DEF UniqueName

(* The object x gets the next number of its name.                           *)
Numbered(os, tk, x) ==
  [os EXCEPT ![x] = [@ EXCEPT !.uniqueName = UniqueName(os[x].name, tk[os[x].name] + 1)]]

Counted(tk, n) == [tk EXCEPT ![n] = @ + 1]

LEMMA Renumbered ==
  ASSUME NEW os \in Seq(Object), NEW tk, tk \in [DOMAIN tk -> Nat], DOMAIN tk \subseteq AllNames,
         NEW x \in DOMAIN os, NamedIn(os, tk), NumberedBut(os, tk, x)
  PROVE  /\ Numbered(os, tk, x) \in Seq(Object) /\ DOMAIN Numbered(os, tk, x) = DOMAIN os
         /\ DOMAIN Counted(tk, os[x].name) = DOMAIN tk
         /\ Counted(tk, os[x].name) \in [DOMAIN tk -> Nat]
         /\ NamedIn(Numbered(os, tk, x), Counted(tk, os[x].name))
         /\ NumberedBut(Numbered(os, tk, x), Counted(tk, os[x].name), 0)
<1> DEFINE names == DOMAIN tk
           new == Numbered(os, tk, x)
           tk2 == Counted(tk, os[x].name)
           n == os[x].name
           k == tk[n] + 1
           Obj == [os[x] EXCEPT !.uniqueName = UniqueName(n, k)]
<1>1. os[x] \in Object /\ n \in names /\ n \in AllNames /\ tk[n] \in Nat /\ k \in Nat /\ k >= 1
  <2>1. os[x] \in Object
    OBVIOUS
  <2>2. n \in names
    BY DEF NamedIn
  <2>3. tk[n] \in Nat
    BY <2>2
  <2> QED BY <2>1, <2>2, <2>3
<1>2. UniqueName(n, k) \in AllNames
  BY <1>1, UniqueNameIsName
<1>3. Obj \in Object /\ Obj.name = n /\ Obj.uniqueName = UniqueName(n, k)
  BY <1>1, <1>2 DEF Object
<1>4. /\ new \in Seq(Object) /\ DOMAIN new = DOMAIN os /\ new[x] = Obj
      /\ \A o \in DOMAIN os \ {x} : new[o] = os[o]
  BY <1>3 DEF Numbered
<1>5. /\ tk2 \in [names -> Nat] /\ DOMAIN tk2 = names /\ tk2[n] = k
      /\ \A m \in names \ {n} : tk2[m] = tk[m]
  BY <1>1 DEF Counted
<1>6. \A o \in DOMAIN os : new[o].name = os[o].name /\ os[o].name \in names /\ tk[os[o].name] \in Nat
  BY <1>3, <1>4 DEF NamedIn
<1>7. NamedIn(new, tk2)
  BY <1>4, <1>5, <1>6 DEF NamedIn
<1> HIDE DEF n, k, Obj, new, tk2
<1>8. \A o \in DOMAIN new : \E i \in 1 .. tk2[new[o].name] : new[o].uniqueName = UniqueName(new[o].name, i)
  <2> TAKE o \in DOMAIN new
  <2>1. CASE o = x
    <3>1. new[o].name = n /\ new[o].uniqueName = UniqueName(n, k)
      BY <2>1, <1>3, <1>4
    <3>2. k \in 1 .. tk2[n]
      BY <1>1, <1>5
    <3> QED BY <3>1, <3>2
  <2>2. CASE o # x
    <3>1. PICK i \in 1 .. tk[os[o].name] : os[o].uniqueName = UniqueName(os[o].name, i)
      BY <2>2, <1>4 DEF NumberedBut
    <3>2. i \in 1 .. tk2[os[o].name]
      <4>1. os[o].name \in names /\ tk[os[o].name] \in Nat
        BY <1>4, <1>6
      <4>2. tk2[os[o].name] \in {tk[os[o].name], tk[os[o].name] + 1}
        BY <4>1, <1>5 DEF k
      <4> QED BY <3>1, <4>1, <4>2
    <3> QED BY <2>2, <3>1, <3>2, <1>4
  <2> QED BY <2>1, <2>2
<1>9. ASSUME NEW o \in DOMAIN new, o # x, new[o].name = n
      PROVE  new[o].uniqueName # UniqueName(n, k)
  <2>1. new[o] = os[o] /\ os[o].name = n
    BY <1>9, <1>4
  <2>2. PICK i \in 1 .. tk[n] : os[o].uniqueName = UniqueName(n, i)
    BY <1>9, <1>4, <2>1 DEF NumberedBut
  <2>3. i \in Nat /\ i # k
    BY <1>1, <2>2 DEF k
  <2>4. UniqueName(n, i) # UniqueName(n, k)
    BY <1>1, <2>3, UniqueNameDiffers
  <2> QED BY <2>1, <2>2, <2>4
<1>10. \A o, p \in DOMAIN new :
         o # p /\ new[o].name = new[p].name => new[o].uniqueName # new[p].uniqueName
  <2> TAKE o, p \in DOMAIN new
  <2> HAVE o # p /\ new[o].name = new[p].name
  <2>1. CASE o = x
    BY <2>1, <1>3, <1>4, <1>9
  <2>2. CASE p = x
    BY <2>2, <1>3, <1>4, <1>9
  <2>3. CASE o # x /\ p # x
    BY <2>3, <1>4 DEF NumberedBut
  <2> QED BY <2>1, <2>2, <2>3
<1>11. NumberedBut(new, tk2, 0)
  BY <1>8, <1>10 DEF NumberedBut
<1> QED BY <1>4, <1>5, <1>7, <1>11 DEF new, tk2

LEMMA CardsAreBuilt ==
  ASSUME NEW os \in Seq(Object), NEW list, ListOf(os, list)
  PROVE  CardsOf([i \in DOMAIN list |-> StationCard(os[list[i]], i)], list)
<1> DEFINE cs == [i \in DOMAIN list |-> StationCard(os[list[i]], i)]
<1>0. list \in Seq(DOMAIN os) /\ Len(list) \in Nat /\ DOMAIN list = 1 .. Len(list)
  BY DEF ListOf
<1>1. \A i \in DOMAIN list : i \in Nat /\ os[list[i]] \in Object
  <2> TAKE i \in DOMAIN list
  <2>1. list[i] \in DOMAIN os /\ i \in Nat
    BY <1>0 DEF ListOf
  <2>2. \A o \in DOMAIN os : os[o] \in Object
    OBVIOUS
  <2> QED BY <2>1, <2>2
<1>2. ASSUME NEW o \in Object, NEW i \in Nat
      PROVE  StationCard(o, i) \in CardOfStation /\ StationCard(o, i).i = i
  <2>1. o.name \in AllNames /\ o.color \in Colors /\ o.lat \in Texts /\ o.lon \in Texts
    BY DEF Object
  <2>2. \A f \in StationFields : o[f] \in Texts
    BY <2>1 DEF StationFields
  <2>3. [f \in StationFields |-> o[f]] \in [StationFields -> Texts]
    BY <2>2
  <2> QED BY <2>1, <2>3 DEF StationCard, CardOfStation
<1>3. DOMAIN cs = DOMAIN list /\ \A i \in DOMAIN cs : cs[i] \in CardOfStation /\ cs[i].i = i
  BY <1>1, <1>2
<1>4. cs \in Seq(CardOfStation)
  <2>1. cs = [i \in 1 .. Len(list) |-> cs[i]]
    BY <1>0
  <2> HIDE DEF cs
  <2> QED BY <1>0, <1>3, <2>1
<1> QED BY <1>3, <1>4 DEF CardsOf

LEMMA ListShrinks ==
  ASSUME NEW os, NEW list, ListOf(os, list), NEW i \in DOMAIN list
  PROVE  ListOf(os, RemoveAt(list, i))
<1>1. list \in Seq(DOMAIN os) /\ i \in 1 .. Len(list) /\ Len(list) \in Nat
  BY DEF ListOf
<1>2. SubSeq(list, 1, i - 1) \in Seq(DOMAIN os)
  <2>1. \A d \in 1 .. i - 1 : list[d] \in DOMAIN os
    BY <1>1
  <2> QED BY <1>1, <2>1, SubSeqProperties
<1>3. SubSeq(list, i + 1, Len(list)) \in Seq(DOMAIN os)
  <2>1. \A d \in i + 1 .. Len(list) : list[d] \in DOMAIN os
    BY <1>1
  <2> QED BY <1>1, <2>1, SubSeqProperties
<1> QED BY <1>2, <1>3, ConcatProperties DEF ListOf, RemoveAt

LEMMA ListGrows ==
  ASSUME NEW os, NEW list, ListOf(os, list), NEW o \in DOMAIN os
  PROVE  ListOf(os, Append(list, o))
BY DEF ListOf

(* The list and its cards after applyGroundStations.                        *)
LEMMA StationsAreApplied ==
  ASSUME NEW os, NEW list, ApplyGroundStations(os, list),
         os \in Seq(Object), ListOf(os, list), DOMAIN objects \subseteq DOMAIN os,
         StationTypes, DOMAIN taken' = DOMAIN taken, taken' \in [DOMAIN taken -> Nat],
         NamedIn(os, taken'), NumberedBut(os, taken', 0)
  PROVE  StationInv'
<1>1. objects' = os /\ listed' = list
  BY DEF ApplyGroundStations
<1>2. CardsOf(stationCards', list)
  BY CardsAreBuilt DEF ApplyGroundStations
<1> QED BY <1>1, <1>2 DEF StationInv, StationTypes

LEMMA AddedStation ==
  ASSUME StationTypes, NEW os \in Seq(Object), NEW o \in DOMAIN os,
         AddGroundStation(os, o), DOMAIN objects \subseteq DOMAIN os,
         ListOf(os, listed), NamedIn(os, taken), NumberedBut(os, taken, o)
  PROVE  StationInv'
<1> DEFINE new == Numbered(os, taken, o)
<1>1. taken' = Counted(taken, os[o].name)
  BY DEF AddGroundStation, Count, Counted
<1>2. ApplyGroundStations(new, Append(listed, o))
  BY DEF AddGroundStation, Numbered, NextUniqueName
<1>3. taken \in [DOMAIN taken -> Nat] /\ DOMAIN taken \subseteq AllNames
  BY DEF StationTypes
<1>4. /\ new \in Seq(Object) /\ DOMAIN new = DOMAIN os
      /\ taken' \in [DOMAIN taken -> Nat] /\ DOMAIN taken' = DOMAIN taken
      /\ NamedIn(new, taken') /\ NumberedBut(new, taken', 0)
  BY <1>1, <1>3, Renumbered
<1> HIDE DEF new
<1>5. ListOf(new, Append(listed, o))
  BY <1>4, ListGrows DEF ListOf
<1> QED BY <1>2, <1>4, <1>5, StationsAreApplied

(* changeGroundStationName is the numbering of an object with a new name.   *)
LEMMA RenamedStation ==
  ASSUME StationTypes, NumberedBut(objects, taken, 0),
         NEW o \in DOMAIN objects, NEW name \in DOMAIN taken,
         ChangeGroundStationName(o, name)
  PROVE  /\ objects' \in Seq(Object) /\ DOMAIN objects' = DOMAIN objects
         /\ taken' \in [DOMAIN taken -> Nat] /\ DOMAIN taken' = DOMAIN taken
         /\ NamedIn(objects', taken') /\ NumberedBut(objects', taken', 0)
         /\ \A p \in DOMAIN objects : /\ objects'[p].lat = objects[p].lat
                                      /\ objects'[p].lon = objects[p].lon
                                      /\ objects'[p].color = objects[p].color
<1> DEFINE Obj == [objects[o] EXCEPT !.name = name]
           os == [objects EXCEPT ![o] = Obj]
           Num == [objects[o] EXCEPT !.name = name, !.uniqueName = NextUniqueName(name)]
<1>1. taken \in [DOMAIN taken -> Nat] /\ DOMAIN taken \subseteq AllNames /\ name \in AllNames
      /\ objects \in Seq(Object) /\ objects[o] \in Object
  BY DEF StationTypes
<1>2. Obj \in Object /\ Obj.name = name
  BY <1>1 DEF Object
<1>3. /\ os \in Seq(Object) /\ DOMAIN os = DOMAIN objects /\ os[o] = Obj
      /\ \A p \in DOMAIN objects \ {o} : os[p] = objects[p]
  BY <1>1, <1>2
<1>4. objects' = [objects EXCEPT ![o] = Num] /\ taken' = Counted(taken, name)
  BY DEF ChangeGroundStationName, Count, Counted
<1>5. Num = [Obj EXCEPT !.uniqueName = NextUniqueName(name)]
  BY <1>1 DEF Object
<1>6. Num.lat = objects[o].lat /\ Num.lon = objects[o].lon /\ Num.color = objects[o].color
  BY <1>1 DEF Object
<1> HIDE DEF Obj, Num
<1>7. objects' = Numbered(os, taken, o)
  <2>1. [os EXCEPT ![o] = Num] = [objects EXCEPT ![o] = Num]
    BY <1>1
  <2>2. Numbered(os, taken, o) = [os EXCEPT ![o] = Num]
    BY <1>2, <1>3, <1>5 DEF Numbered, NextUniqueName
  <2> QED BY <1>4, <2>1, <2>2
<1> HIDE DEF os
<1>8. NamedIn(os, taken)
  BY <1>2, <1>3 DEF NamedIn, StationTypes
<1>9. NumberedBut(os, taken, o)
  <2>1. DOMAIN os \ {o} = DOMAIN objects \ {o} /\ DOMAIN os \ {o} \subseteq DOMAIN objects \ {0}
    BY <1>1, <1>3
  <2> QED BY <1>3, <2>1 DEF NumberedBut
<1>10. \A p \in DOMAIN objects : /\ objects'[p].lat = objects[p].lat
                                 /\ objects'[p].lon = objects[p].lon
                                 /\ objects'[p].color = objects[p].color
  BY <1>1, <1>4, <1>6
<1>11. os[o].name = name
  BY <1>2, <1>3
<1>12. /\ Numbered(os, taken, o) \in Seq(Object) /\ DOMAIN Numbered(os, taken, o) = DOMAIN os
       /\ DOMAIN Counted(taken, name) = DOMAIN taken
       /\ Counted(taken, name) \in [DOMAIN taken -> Nat]
       /\ NamedIn(Numbered(os, taken, o), Counted(taken, name))
       /\ NumberedBut(Numbered(os, taken, o), Counted(taken, name), 0)
  BY <1>1, <1>3, <1>8, <1>9, <1>11, Renumbered
<1> QED BY <1>3, <1>4, <1>7, <1>10, <1>12

(* A field of a station that is no name.                                    *)
LEMMA WrittenStation ==
  ASSUME StationTypes, NumberedBut(objects, taken, 0),
         NEW o \in DOMAIN objects, NEW f \in {"lat", "lon", "color"}, NEW value,
         value \in IF f = "color" THEN Colors ELSE Texts,
         objects' = [objects EXCEPT ![o] = [@ EXCEPT ![f] = value]], UNCHANGED taken
  PROVE  /\ objects' \in Seq(Object) /\ DOMAIN objects' = DOMAIN objects
         /\ NamedIn(objects', taken') /\ NumberedBut(objects', taken', 0)
<1> DEFINE Obj == [objects[o] EXCEPT ![f] = value]
<1>1. objects \in Seq(Object) /\ objects[o] \in Object
  BY DEF StationTypes
<1>2. Obj \in Object /\ Obj.name = objects[o].name /\ Obj.uniqueName = objects[o].uniqueName
  BY <1>1 DEF Object
<1> HIDE DEF Obj
<1>3. objects' = [objects EXCEPT ![o] = Obj]
  BY DEF Obj
<1>4. objects' \in Seq(Object) /\ DOMAIN objects' = DOMAIN objects
  <2>1. /\ [objects EXCEPT ![o] = Obj] \in Seq(Object)
        /\ DOMAIN [objects EXCEPT ![o] = Obj] = DOMAIN objects
    BY <1>1, <1>2, SeqUpdated, Zenon
  <2> QED BY <1>3, <2>1
<1>5. \A p \in DOMAIN objects : /\ objects'[p].name = objects[p].name
                                /\ objects'[p].uniqueName = objects[p].uniqueName
  BY <1>1, <1>2, <1>3
<1> QED BY <1>4, <1>5 DEF NamedIn, NumberedBut, StationTypes

LEMMA StationInit == Init => StationInv
<1> SUFFICES ASSUME Init PROVE StationInv
  OBVIOUS
<1> DEFINE Names == TypedNames \cup {Name("Custom")} \cup {o.name : o \in ToSet(objects)}
<1>1. objects = StationPresets /\ listed = <<1, 2, 3>>
  BY DEF Init, InitConfiguration
<1>2. /\ {"Ottawa", "Toronto", "London", "Custom"} \subseteq Bases
      /\ {"red", "yellow", "green"} \subseteq Colors
      /\ TypedNames \subseteq AllNames
  BY ConfigurationAssumption
<1>3. \A b \in Bases : Name(b) \in AllNames
  BY DEF Name, AllNames
<1>4. \A n \in Int : Number(n) \in Texts
  BY DEF Number, Texts
<1>5. ASSUME NEW b \in Bases, NEW lat \in Int, NEW lon \in Int, NEW color \in Colors
      PROVE  Station(Name(b), Name(b), lat, lon, color) \in Object
  BY <1>3, <1>4 DEF Station, Object
<1>6. objects \in Seq(Object) /\ DOMAIN objects = 1 .. 3
  BY <1>1, <1>2, <1>5 DEF StationPresets
<1>7. \A o \in 1 .. 3 : objects[o].uniqueName = objects[o].name
  BY <1>1 DEF StationPresets, Station
<1>8. \A o, p \in 1 .. 3 : o # p => objects[o].name # objects[p].name
  BY <1>1 DEF StationPresets, Station, Name
<1>9. ToSet(objects) = {objects[1], objects[2], objects[3]}
  BY <1>6 DEF ToSet
<1>10. taken = [n \in Names |-> IF \E o \in ToSet(objects) : o.name = n THEN 1 ELSE 0]
  BY DEF Init, InitConfiguration
<1>11. \A o \in 1 .. 3 : objects[o] \in ToSet(objects) /\ objects[o] \in Object
  <2>1. \A o \in 1 .. 3 : o = 1 \/ o = 2 \/ o = 3
    OBVIOUS
  <2>2. \A o \in 1 .. 3 : objects[o] \in ToSet(objects)
    BY <1>9, <2>1
  <2>3. \A o \in 1 .. 3 : objects[o] \in Object
    BY <1>6, SMTT(30)
  <2> QED BY <2>2, <2>3
<1>12. \A o \in 1 .. 3 : objects[o].name \in Names /\ taken[objects[o].name] = 1
  BY <1>10, <1>11
<1>13. taken \in [Names -> Nat] /\ DOMAIN taken = Names
  BY <1>10
<1>14. Names \subseteq AllNames
  <2>1. \A o \in ToSet(objects) : o.name \in AllNames
    BY <1>9, <1>11 DEF Object
  <2> QED BY <1>2, <1>3, <2>1
<1> HIDE DEF Names
<1>15. ListOf(objects, listed)
  BY <1>1, <1>6 DEF ListOf
<1>16. CardsOf(stationCards, listed)
  <2>1. stationCards = [i \in DOMAIN listed |-> StationCard(objects[listed[i]], i)]
    BY <1>1 DEF Init, InitConfiguration
  <2> QED BY <2>1, <1>6, <1>15, CardsAreBuilt
<1>17. NamedIn(objects, taken)
  BY <1>6, <1>12, <1>13 DEF NamedIn
<1>18. NumberedBut(objects, taken, 0)
  BY <1>6, <1>7, <1>8, <1>12 DEF NumberedBut, UniqueName
<1>19. DOMAIN StationPresets \subseteq DOMAIN objects /\ TypedNames \cup {Name("Custom")} \subseteq DOMAIN taken
  BY <1>1, <1>13 DEF Names
<1> QED BY <1>6, <1>13, <1>14, <1>15, <1>16, <1>17, <1>18, <1>19 DEF StationInv, StationTypes

(* What a card that is typed in keeps.                                      *)
LEMMA CardWritten ==
  ASSUME NEW list, NEW cs, CardsOf(cs, list), NEW c \in DOMAIN cs,
         NEW new \in CardOfStation, new.i = cs[c].i
  PROVE  CardsOf([cs EXCEPT ![c] = new], list)
<1>1. [cs EXCEPT ![c] = new] \in Seq(CardOfStation) /\ DOMAIN [cs EXCEPT ![c] = new] = DOMAIN cs
  BY SeqUpdated, Zenon DEF CardsOf
<1>2. \A d \in DOMAIN cs : [cs EXCEPT ![c] = new][d].i = cs[d].i
  OBVIOUS
<1> QED BY <1>1, <1>2 DEF CardsOf

(* The two shapes of a step that keeps the list.                            *)
LEMMA ListIsKept ==
  ASSUME StationTypes, UNCHANGED listed, CardsOf(stationCards', listed),
         objects' \in Seq(Object), DOMAIN objects' = DOMAIN objects,
         taken' \in [DOMAIN taken -> Nat], DOMAIN taken' = DOMAIN taken,
         NamedIn(objects', taken'), NumberedBut(objects', taken', 0)
  PROVE  StationInv'
BY DEF StationInv, StationTypes, ListOf

LEMMA StationStutters == StationInv /\ UNCHANGED stationVars => StationInv'
  BY DEF StationInv, StationTypes, stationVars

LEMMA StationStep == StationInv /\ ChangeStations => StationInv'
<1> SUFFICES ASSUME StationInv, ChangeStations PROVE StationInv'
  OBVIOUS
<1>0. /\ StationTypes /\ NumberedBut(objects, taken, 0)
      /\ objects \in Seq(Object) /\ ListOf(objects, listed) /\ CardsOf(stationCards, listed)
      /\ taken \in [DOMAIN taken -> Nat] /\ NamedIn(objects, taken)
      /\ DOMAIN objects = 1 .. Len(objects) /\ Len(objects) \in Nat
  BY DEF StationInv, StationTypes
<1>1. ASSUME NEW o \in DOMAIN StationPresets, AddPresetStation(o)
      PROVE  StationInv'
  <2>1. o \in DOMAIN objects /\ AddGroundStation(objects, o)
    BY <1>1, <1>0 DEF AddPresetStation, StationTypes
  <2>2. NumberedBut(objects, taken, o)
    BY <1>0 DEF NumberedBut
  <2> QED BY <1>0, <2>1, <2>2, AddedStation
<1>2. ASSUME NEW lat \in Int, NEW lon \in Int,
             AddGroundStation(Append(objects, Custom(lat, lon)), Len(objects) + 1)
      PROVE  StationInv'
  <2> DEFINE new == Custom(lat, lon)
             os == Append(objects, new)
             x == Len(objects) + 1
  <2>1. new \in Object /\ new.name = Name("Custom")
    <3>1. Name("Custom") \in AllNames /\ "yellow" \in Colors
      <4>1. "Custom" \in Bases /\ "yellow" \in Colors
        BY ConfigurationAssumption
      <4> QED BY <4>1 DEF Name, AllNames
    <3>2. Number(lat) \in Texts /\ Number(lon) \in Texts
      BY DEF Number, Texts
    <3> QED BY <3>1, <3>2 DEF Custom, Station, Object
  <2> HIDE DEF new
  <2>2. /\ os \in Seq(Object) /\ x \in DOMAIN os /\ os[x] = new
        /\ DOMAIN os = DOMAIN objects \cup {x}
        /\ \A o \in DOMAIN objects : os[o] = objects[o]
    BY <1>0, <2>1
  <2>3. DOMAIN os \ {x} = DOMAIN objects \ {0}
    BY <1>0, <2>2
  <2> HIDE DEF os, x
  <2>4. NumberedBut(os, taken, x)
    BY <1>0, <2>2, <2>3, ZenonT(30) DEF NumberedBut
  <2>5. NamedIn(os, taken)
    BY <1>0, <2>1, <2>2 DEF NamedIn, StationTypes
  <2>6. ListOf(os, listed)
    BY <1>0, <2>2, SMTT(30) DEF ListOf
  <2>7. AddGroundStation(os, x)
    BY <1>2 DEF os, x, new
  <2> QED BY <1>0, <2>2, <2>4, <2>5, <2>6, <2>7, AddedStation
<1>3. CASE AddCustomStation
  BY <1>2, <1>3 DEF AddCustomStation
<1>4. CASE ClickGlobe(300, 600)
  BY <1>2, <1>4 DEF ClickGlobe
<1>5. ASSUME NEW c \in DOMAIN stationCards, CloseStation(c)
      PROVE  StationInv'
  <2>1. stationCards[c].i \in DOMAIN listed
    BY <1>0 DEF CardsOf
  <2>2. ListOf(objects, RemoveAt(listed, stationCards[c].i))
    BY <1>0, <2>1, ListShrinks
  <2>3. /\ ApplyGroundStations(objects, RemoveAt(listed, stationCards[c].i))
        /\ taken' = taken
    BY <1>5 DEF CloseStation
  <2> QED BY <1>0, <2>2, <2>3, StationsAreApplied
<1>6. ASSUME NEW c \in DOMAIN stationCards
      PROVE  Target(c) \in DOMAIN objects /\ stationCards[c] \in CardOfStation
  BY <1>0 DEF Target, CardsOf, ListOf
<1>7. ASSUME NEW c \in DOMAIN stationCards, NEW name \in TypedNames, TypeName(c, name)
      PROVE  StationInv'
  <2>1. name \in AllNames /\ name \in DOMAIN taken
    BY ConfigurationAssumption, <1>0 DEF StationTypes
  <2> DEFINE new(inv) == [stationCards[c] EXCEPT !.name = name, !.invalid = inv]
  <2>2. \A inv \in SUBSET (StationFields \cup {"name"}) :
          new(inv) \in CardOfStation /\ new(inv).i = stationCards[c].i
    BY <1>6, <2>1 DEF CardOfStation
  <2>3. \E inv \in SUBSET (StationFields \cup {"name"}) :
          stationCards' = [stationCards EXCEPT ![c] = new(inv)]
    <3>1. /\ stationCards[c].invalid \ {"name"} \in SUBSET (StationFields \cup {"name"})
          /\ stationCards[c].invalid \cup {"name"} \in SUBSET (StationFields \cup {"name"})
      BY <1>6 DEF CardOfStation
    <3> QED BY <1>7, <3>1, ZenonT(30) DEF TypeName
  <2> HIDE DEF new
  <2>4. CardsOf(stationCards', listed)
    <3>1. PICK inv \in SUBSET (StationFields \cup {"name"}) :
            stationCards' = [stationCards EXCEPT ![c] = new(inv)]
      BY <2>3
    <3>2. new(inv) \in CardOfStation /\ new(inv).i = stationCards[c].i
      BY <2>2
    <3>3. CardsOf([stationCards EXCEPT ![c] = new(inv)], listed)
      BY <1>0, <3>2, CardWritten
    <3> QED BY <3>1, <3>3
  <2>5. CASE name # Name("")
    BY <1>0, <1>6, <1>7, <2>1, <2>4, <2>5, RenamedStation, ListIsKept DEF TypeName
  <2>6. CASE name = Name("")
    BY <1>0, <1>7, <2>4, <2>6, ListIsKept DEF TypeName
  <2> QED BY <2>5, <2>6
<1>8. ASSUME NEW c \in DOMAIN stationCards, NEW f \in StationFields,
             NEW text \in InputOf(f, stationCards[c].text[f]), TypeCoordinate(c, f, text)
      PROVE  StationInv'
  <2>1. text \in Texts
    <3>1. stationCards[c].text[f] \in Texts
      BY <1>6 DEF CardOfStation
    <3> QED BY <3>1, InputIsText
  <2> DEFINE texts == [stationCards[c].text EXCEPT ![f] = text]
             new(inv) == [stationCards[c] EXCEPT !.text = texts, !.invalid = inv]
  <2>2. texts \in [StationFields -> Texts]
    BY <1>6, <2>1 DEF CardOfStation
  <2>3. \A inv \in SUBSET (StationFields \cup {"name"}) :
          new(inv) \in CardOfStation /\ new(inv).i = stationCards[c].i
    BY <1>6, <2>2 DEF CardOfStation
  <2>4. \E inv \in SUBSET (StationFields \cup {"name"}) :
          stationCards' = [stationCards EXCEPT ![c] = new(inv)]
    <3>1. /\ stationCards[c].invalid \ {f} \in SUBSET (StationFields \cup {"name"})
          /\ stationCards[c].invalid \cup {f} \in SUBSET (StationFields \cup {"name"})
      BY <1>6 DEF CardOfStation
    <3> QED BY <1>8, <3>1 DEF TypeCoordinate
  <2> HIDE DEF new
  <2>5. CardsOf(stationCards', listed)
    <3>1. PICK inv \in SUBSET (StationFields \cup {"name"}) :
            stationCards' = [stationCards EXCEPT ![c] = new(inv)]
      BY <2>4
    <3>2. new(inv) \in CardOfStation /\ new(inv).i = stationCards[c].i
      BY <2>3
    <3>3. CardsOf([stationCards EXCEPT ![c] = new(inv)], listed)
      BY <1>0, <3>2, CardWritten
    <3> QED BY <3>1, <3>3
  <2>6. CASE Valid(f, text)
    <3>1. objects' = [objects EXCEPT ![Target(c)] = [@ EXCEPT ![f] = text]]
      BY <1>8, <2>6 DEF TypeCoordinate, WriteStation
    <3>2. f \in {"lat", "lon", "color"} /\ text \in (IF f = "color" THEN Colors ELSE Texts)
      BY <2>1 DEF StationFields
    <3>3. UNCHANGED <<taken, listed>>
      BY <1>8 DEF TypeCoordinate
    <3> QED BY <1>0, <1>6, <2>5, <3>1, <3>2, <3>3, WrittenStation, ListIsKept
  <2>7. CASE ~Valid(f, text)
    BY <1>0, <1>8, <2>5, <2>7, ListIsKept DEF TypeCoordinate
  <2> QED BY <2>6, <2>7
<1>9. ASSUME NEW c \in DOMAIN stationCards, NEW color \in {"red", "yellow", "green"},
             ChooseTraffic(c, color)
      PROVE  StationInv'
  <2>1. color \in Colors
    BY ConfigurationAssumption
  <2> DEFINE new == [stationCards[c] EXCEPT !.color = color]
  <2>2. new \in CardOfStation /\ new.i = stationCards[c].i
    BY <1>6, <2>1 DEF CardOfStation
  <2>3. stationCards' = [stationCards EXCEPT ![c] = new]
    BY <1>9 DEF ChooseTraffic
  <2> HIDE DEF new
  <2>4. CardsOf(stationCards', listed)
    <3>1. CardsOf([stationCards EXCEPT ![c] = new], listed)
      BY <1>0, <2>2, CardWritten
    <3> QED BY <2>3, <3>1
  <2>5. objects' = [objects EXCEPT ![Target(c)] = [@ EXCEPT !["color"] = color]]
    BY <1>9 DEF ChooseTraffic, WriteStation
  <2>6. UNCHANGED <<taken, listed>>
    BY <1>9 DEF ChooseTraffic
  <2> QED BY <1>0, <1>6, <2>1, <2>4, <2>5, <2>6, WrittenStation, ListIsKept
<1> QED BY <1>1, <1>3, <1>4, <1>5, <1>7, <1>8, <1>9 DEF ChangeStations

LEMMA StationNext == StationInv /\ [Next]_vars => StationInv'
<1> SUFFICES ASSUME StationInv, [Next]_vars PROVE StationInv'
  OBVIOUS
<1>1. CASE ChangeStations
  BY <1>1, StationStep
<1>2. CASE ChangeElements \/ ChangeSettings
  BY <1>2, ElementsEdit, SettingsEdit, StationStutters DEF EditElements
<1>3. CASE ClickRun
  BY <1>3, StationStutters DEF ClickRun
<1>4. CASE UNCHANGED configurationVars
  BY <1>4, StationStutters DEF configurationVars
<1> QED BY <1>1, <1>2, <1>3, <1>4 DEF Next, vars, Configures

(* Whatever is added, renamed, added again and removed, two stations of one *)
(* name go by different uniqueNames (addGroundStation and                   *)
(* changeGroundStationName number the names and never give a number twice). *)
THEOREM NamesStayApart == Spec => []NamesDiffer
<1>1. StationInv => NamesDiffer
  <2> SUFFICES ASSUME StationInv PROVE NamesDiffer
    OBVIOUS
  <2>1. \A o \in ToSet(listed) : o \in DOMAIN objects \ {0}
    <3>1. listed \in Seq(DOMAIN objects) /\ DOMAIN objects = 1 .. Len(objects)
      BY DEF StationInv, StationTypes, ListOf
    <3> QED BY <3>1 DEF ToSet
  <2> QED BY <2>1 DEF NamesDiffer, StationInv, NumberedBut
<1> QED BY <1>1, StationInit, StationNext, PTL DEF Spec

-----------------------------------------------------------------------------
(* The globe.                                                               *)
GlobeInv == GlobeShowsConfiguration

(* What is drawn for one part does not disturb the other.                   *)
LEMMA ElementsDrawn ==
  ASSUME GlobeInv, DrawElements(preset'.elements), UNCHANGED stationVars
  PROVE  GlobeInv'
<1>1. globe' = [rings |-> Configure(preset'.elements), stations |-> globe.stations]
  BY DEF GlobeInv, GlobeShowsConfiguration, DrawElements
<1>2. globe.stations = Placemarks(objects, listed)
  BY DEF GlobeInv, GlobeShowsConfiguration
<1> QED BY <1>1, <1>2 DEF GlobeInv, GlobeShowsConfiguration, stationVars

LEMMA StationsDrawn ==
  ASSUME GlobeInv, DrawStations(objects', listed'), UNCHANGED preset
  PROVE  GlobeInv'
<1>1. globe' = [rings |-> globe.rings, stations |-> Placemarks(objects', listed')]
  BY DEF GlobeInv, GlobeShowsConfiguration, DrawStations
<1>2. globe.rings = Configure(preset.elements)
  BY DEF GlobeInv, GlobeShowsConfiguration
<1> QED BY <1>1, <1>2 DEF GlobeInv, GlobeShowsConfiguration

LEMMA GlobeStutters == GlobeInv /\ UNCHANGED <<globe, preset, stationVars>> => GlobeInv'
  BY DEF GlobeInv, GlobeShowsConfiguration, stationVars

LEMMA GlobeAfterElements == GlobeInv /\ ChangeElements => GlobeInv'
<1> SUFFICES ASSUME GlobeInv, ChangeElements PROVE GlobeInv'
  OBVIOUS
<1>1. UNCHANGED stationVars
  BY ElementsEdit DEF EditElements
<1>2. ASSUME NEW p, ApplyPreset(p) PROVE GlobeInv'
  BY <1>1, <1>2, ElementsDrawn DEF ApplyPreset
<1>3. ASSUME NEW c, NEW f, NEW value, WriteElement(c, f, value) PROVE GlobeInv'
  <2>1. DrawElements(preset'.elements)
    BY <1>3 DEF WriteElement
  <2> QED BY <1>1, <2>1, ElementsDrawn
<1>4. ASSUME NEW c, NEW f, NEW text, TypeInElement(c, f, text) PROVE GlobeInv'
  BY <1>1, <1>3, <1>4, GlobeStutters DEF TypeInElement
<1>5. ASSUME NEW c, NEW type, ChooseType(c, type) PROVE GlobeInv'
  BY <1>3, <1>5 DEF ChooseType
<1>6. ASSUME NEW c, NEW color, ChooseColor(c, color) PROVE GlobeInv'
  BY <1>3, <1>6 DEF ChooseColor
<1>7. ASSUME NEW p, ChoosePreset(p) PROVE GlobeInv'
  BY <1>2, <1>7 DEF ChoosePreset
<1>8. CASE AddElement
  BY <1>2, <1>8 DEF AddElement
<1>9. ASSUME NEW c, CloseElement(c) PROVE GlobeInv'
  BY <1>2, <1>9 DEF CloseElement
<1> QED BY <1>4, <1>5, <1>6, <1>7, <1>8, <1>9 DEF ChangeElements

LEMMA GlobeAfterStations == StationInv /\ GlobeInv /\ ChangeStations => GlobeInv'
<1> SUFFICES ASSUME StationInv, GlobeInv, ChangeStations PROVE GlobeInv'
  OBVIOUS
<1>1. UNCHANGED elementVars
  BY StationsEdit DEF StationsAreEdited, EditStations
<1>2. preset' = preset
  BY <1>1 DEF elementVars
<1>3. ASSUME NEW os, NEW list, ApplyGroundStations(os, list) PROVE GlobeInv'
  BY <1>2, <1>3, StationsDrawn DEF ApplyGroundStations
<1>4. ASSUME NEW c, NEW f, NEW value, WriteStation(c, f, value), UNCHANGED listed PROVE GlobeInv'
  <2>1. DrawStations(objects', listed')
    BY <1>4 DEF WriteStation
  <2> QED BY <1>2, <2>1, StationsDrawn
<1>5. CASE \E o \in DOMAIN StationPresets : AddPresetStation(o)
  BY <1>3, <1>5 DEF AddPresetStation, AddGroundStation
<1>6. CASE AddCustomStation
  BY <1>3, <1>6 DEF AddCustomStation, AddGroundStation
<1>7. CASE ClickGlobe(300, 600)
  BY <1>3, <1>7 DEF ClickGlobe, AddGroundStation
<1>8. ASSUME NEW c, CloseStation(c) PROVE GlobeInv'
  BY <1>3, <1>8 DEF CloseStation
<1>9. ASSUME NEW c \in DOMAIN stationCards, NEW name \in TypedNames, TypeName(c, name)
      PROVE  GlobeInv'
  <2>1. UNCHANGED <<listed, globe>>
    BY <1>9 DEF TypeName
  <2>2. \A o \in DOMAIN objects : /\ objects'[o].lat = objects[o].lat
                                 /\ objects'[o].lon = objects[o].lon
                                 /\ objects'[o].color = objects[o].color
    <3>1. CASE name # Name("")
      <4>1. Target(c) \in DOMAIN objects /\ name \in DOMAIN taken
        BY DEF StationInv, StationTypes, CardsOf, ListOf, Target
      <4> QED BY <1>9, <3>1, <4>1, RenamedStation DEF TypeName, StationInv
    <3>2. CASE name = Name("")
      BY <1>9, <3>2 DEF TypeName
    <3> QED BY <3>1, <3>2
  <2>3. \A i \in DOMAIN listed : listed[i] \in DOMAIN objects
    BY DEF StationInv, StationTypes, ListOf
  <2>4. Placemarks(objects', listed') = Placemarks(objects, listed)
    BY <2>1, <2>2, <2>3 DEF Placemarks
  <2> QED BY <1>2, <2>1, <2>4 DEF GlobeInv, GlobeShowsConfiguration
<1>10. ASSUME NEW c, NEW f, NEW text, TypeCoordinate(c, f, text) PROVE GlobeInv'
  <2>1. CASE Valid(f, text)
    BY <1>4, <1>10, <2>1 DEF TypeCoordinate
  <2>2. CASE ~Valid(f, text)
    BY <1>2, <1>10, <2>2 DEF TypeCoordinate, GlobeInv, GlobeShowsConfiguration
  <2> QED BY <2>1, <2>2
<1>11. ASSUME NEW c, NEW color, ChooseTraffic(c, color) PROVE GlobeInv'
  BY <1>4, <1>11 DEF ChooseTraffic
<1> QED BY <1>5, <1>6, <1>7, <1>8, <1>9, <1>10, <1>11 DEF ChangeStations

LEMMA GlobeNext == StationInv /\ GlobeInv /\ [Next]_vars => GlobeInv'
<1> SUFFICES ASSUME StationInv, GlobeInv, [Next]_vars PROVE GlobeInv'
  OBVIOUS
<1>1. CASE ChangeSettings
  BY <1>1, GlobeStutters DEF ChangeSettings, TypeSetting, elementVars
<1>2. CASE ClickRun
  BY <1>2, GlobeStutters DEF ClickRun, elementVars
<1>3. CASE UNCHANGED configurationVars
  BY <1>3, GlobeStutters DEF configurationVars, elementVars
<1> QED BY <1>1, <1>2, <1>3, GlobeAfterElements, GlobeAfterStations DEF Next, vars, Configures

(* The globe is given every change of the constellation and of the stations *)
(* as it happens, by whichever of the handlers (applyPreset,                *)
(* applyGroundStations, registerInputs, registerGSInputs).                 *)
THEOREM GlobeFollows == Spec => []GlobeShowsConfiguration
<1>1. Init => GlobeInv
  BY DEF Init, InitConfiguration, GlobeInv, GlobeShowsConfiguration
<1>2. GlobeInv => GlobeShowsConfiguration
  BY DEF GlobeInv
<1>3. StationInv /\ GlobeInv /\ [Next]_vars => (StationInv /\ GlobeInv)'
  BY StationNext, GlobeNext
<1> QED BY <1>1, <1>2, <1>3, StationInit, PTL DEF Spec

-----------------------------------------------------------------------------
(* The constellation and its cards.  Card c was built for element c and,    *)
(* but for the fields marked invalid, shows it.                             *)
CardOfElement ==
  [i : Nat, text : [ElementFields -> Texts], invalid : SUBSET ElementFields,
   type : Types, color : Colors]

ShowsElement(card, e) ==
  /\ \A f \in ElementFields \ card.invalid : card.text[f] = e[f]
  /\ card.type = e.type /\ card.color = e.color

ElementCardsShow(cs, es) ==
  /\ cs \in Seq(CardOfElement) /\ Len(cs) = Len(es)
  /\ \A c \in DOMAIN cs : cs[c].i = c /\ ShowsElement(cs[c], es[c])

ElementInv ==
  /\ preset.elements \in Seq(Element_)
  /\ ElementCardsShow(cards, preset.elements)
  /\ PresetNamesItself

LEMMA ElementIsElement ==
  ASSUME NEW r \in Int, NEW k \in Int, NEW i \in Int,
         NEW color \in {"red", "yellow", "green", "blue"}, NEW type \in Types
  PROVE  Element(r, k, i, color, type) \in Element_
<1>1. \A n \in Int : Number(n) \in Texts
  BY DEF Number, Texts
<1>2. color \in Colors
  BY ConfigurationAssumption
<1> QED BY <1>1, <1>2 DEF Element, Element_

LEMMA LibraryFacts ==
  ASSUME NEW p \in DOMAIN Library
  PROVE  Library[p].elements \in Seq(Element_) /\ Library[p].name # "Custom"
         /\ \A q \in DOMAIN Library : Library[q].name = Library[p].name => q = p
<1>1. p \in {"iridium", "telesat"} /\ DOMAIN Library = {"iridium", "telesat"}
  BY DEF Library
<1>2. /\ Element(100, 200, 900, "red", "single") \in Element_
      /\ Element(200, 200, 500, "red", "double") \in Element_
      /\ Element(50, 100, 800, "blue", "double") \in Element_
  BY ElementIsElement DEF Types
<1>3. /\ Library["iridium"].elements = <<Element(100, 200, 900, "red", "single")>>
      /\ Library["telesat"].elements =
           <<Element(200, 200, 500, "red", "double"), Element(50, 100, 800, "blue", "double")>>
  BY DEF Library
<1>4. Library["iridium"].name = "Iridium-like" /\ Library["telesat"].name = "Telesat-like"
  BY DEF Library
<1>5. Library[p].elements \in Seq(Element_)
  <2> DEFINE x == Element(100, 200, 900, "red", "single")
             y == Element(200, 200, 500, "red", "double")
             z == Element(50, 100, 800, "blue", "double")
  <2>1. /\ Library["iridium"].elements = <<x>> /\ Library["telesat"].elements = <<y, z>>
        /\ x \in Element_ /\ y \in Element_ /\ z \in Element_
    BY <1>2, <1>3
  <2> HIDE DEF x, y, z
  <2>2. <<x>> \in Seq(Element_) /\ <<y, z>> \in Seq(Element_)
    BY <2>1
  <2> QED BY <1>1, <2>1, <2>2
<1> QED BY <1>1, <1>4, <1>5

LEMMA ElementCardsAreBuilt ==
  ASSUME NEW es \in Seq(Element_)
  PROVE  ElementCardsShow(ElementCards(es), es)
<1> DEFINE cs == ElementCards(es)
<1>1. Len(es) \in Nat /\ DOMAIN es = 1 .. Len(es) /\ \A i \in 1 .. Len(es) : es[i] \in Element_
  OBVIOUS
<1>2. ASSUME NEW e \in Element_, NEW i \in Nat
      PROVE  /\ ElementCard(e, i) \in CardOfElement /\ ElementCard(e, i).i = i
             /\ ShowsElement(ElementCard(e, i), e)
  <2>1. \A f \in ElementFields : e[f] \in Texts
    BY DEF ElementFields, Element_
  <2>2. [f \in ElementFields |-> e[f]] \in [ElementFields -> Texts]
    BY <2>1
  <2>3. e.type \in Types /\ e.color \in Colors
    BY DEF Element_
  <2>4. ElementCard(e, i) \in CardOfElement
    BY <2>2, <2>3 DEF ElementCard, CardOfElement
  <2>5. ShowsElement(ElementCard(e, i), e)
    BY DEF ElementCard, ShowsElement
  <2> QED BY <2>4, <2>5 DEF ElementCard
<1>3. DOMAIN cs = 1 .. Len(es) /\ \A i \in 1 .. Len(es) : cs[i] = ElementCard(es[i], i)
  BY <1>1 DEF ElementCards
<1>4. cs = [i \in 1 .. Len(es) |-> cs[i]]
  BY <1>1 DEF ElementCards
<1> HIDE DEF cs
<1>5. \A i \in 1 .. Len(es) : cs[i] \in CardOfElement /\ cs[i].i = i /\ ShowsElement(cs[i], es[i])
  BY <1>1, <1>2, <1>3
<1>6. cs \in Seq(CardOfElement) /\ Len(cs) = Len(es)
  BY <1>1, <1>4, <1>5
<1>7. ElementCardsShow(cs, es)
  BY <1>3, <1>5, <1>6 DEF ElementCardsShow
<1> QED BY <1>7 DEF cs

LEMMA PresetIsApplied ==
  ASSUME NEW p, ApplyPreset(p), p.elements \in Seq(Element_),
         \A q \in DOMAIN Library : p.name = Library[q].name => p.elements = Library[q].elements
  PROVE  ElementInv'
<1>1. preset' = p /\ cards' = ElementCards(p.elements)
  BY DEF ApplyPreset
<1>2. ElementCardsShow(cards', p.elements)
  BY <1>1, ElementCardsAreBuilt
<1> QED BY <1>1, <1>2 DEF ElementInv, PresetNamesItself

(* A handler writes to a card and to the element it was built for.          *)
LEMMA ElementIsWritten ==
  ASSUME ElementInv, NEW c \in DOMAIN cards, NEW e \in Element_,
         NEW card \in CardOfElement, card.i = c, ShowsElement(card, e),
         cards' = [cards EXCEPT ![c] = card],
         preset' = [name |-> "Custom", elements |-> [preset.elements EXCEPT ![c] = e]]
  PROVE  ElementInv'
<1> DEFINE es == preset.elements
<1>1. /\ es \in Seq(Element_) /\ cards \in Seq(CardOfElement) /\ Len(cards) = Len(es) /\ Len(es) \in Nat
      /\ DOMAIN cards = 1 .. Len(es) /\ DOMAIN es = 1 .. Len(es)
  BY DEF ElementInv, ElementCardsShow
<1>2. preset'.elements = [es EXCEPT ![c] = e] /\ preset'.name = "Custom"
  OBVIOUS
<1> HIDE DEF es
<1>3. preset'.elements \in Seq(Element_) /\ DOMAIN preset'.elements = DOMAIN es
  <2>1. [es EXCEPT ![c] = e] \in Seq(Element_) /\ DOMAIN [es EXCEPT ![c] = e] = DOMAIN es
    BY <1>1, SeqUpdated, Zenon
  <2> QED BY <1>2, <2>1
<1>4. cards' \in Seq(CardOfElement) /\ DOMAIN cards' = DOMAIN cards
  <2>1. /\ [cards EXCEPT ![c] = card] \in Seq(CardOfElement)
        /\ DOMAIN [cards EXCEPT ![c] = card] = DOMAIN cards
    BY <1>1, SeqUpdated, Zenon
  <2> QED BY <2>1
<1>5. Len(cards') = Len(preset'.elements)
  BY <1>1, <1>3, <1>4, SameDomainSameLength
<1>6. ASSUME NEW d \in DOMAIN cards'
      PROVE  cards'[d].i = d /\ ShowsElement(cards'[d], preset'.elements[d])
  <2>1. CASE d = c
    BY <1>1, <1>2, <2>1
  <2>2. CASE d # c
    <3>1. cards'[d] = cards[d] /\ preset'.elements[d] = es[d] /\ d \in DOMAIN cards
      BY <1>1, <1>2, <1>4, <1>6, <2>2
    <3> QED BY <3>1 DEF ElementInv, ElementCardsShow, es
  <2> QED BY <2>1, <2>2
<1>7. PresetNamesItself'
  BY <1>2, LibraryFacts DEF PresetNamesItself
<1> QED BY <1>3, <1>4, <1>5, <1>6, <1>7 DEF ElementInv, ElementCardsShow

(* A field that is marked invalid is written to the card only.              *)
LEMMA ElementCardIsWritten ==
  ASSUME ElementInv, NEW c \in DOMAIN cards, NEW card \in CardOfElement, card.i = c,
         ShowsElement(card, preset.elements[c]),
         cards' = [cards EXCEPT ![c] = card], preset' = preset
  PROVE  ElementInv'
<1>1. cards \in Seq(CardOfElement)
  BY DEF ElementInv, ElementCardsShow
<1>2. cards' \in Seq(CardOfElement) /\ DOMAIN cards' = DOMAIN cards
  <2>1. /\ [cards EXCEPT ![c] = card] \in Seq(CardOfElement)
        /\ DOMAIN [cards EXCEPT ![c] = card] = DOMAIN cards
    BY <1>1, SeqUpdated, Zenon
  <2> QED BY <2>1
<1>3. Len(cards') = Len(cards)
  BY <1>1, <1>2, SameDomainSameLength
<1>4. \A d \in DOMAIN cards : cards'[d] = IF d = c THEN card ELSE cards[d]
  BY <1>1
<1>5. ElementCardsShow(cards', preset'.elements)
  BY <1>2, <1>3, <1>4 DEF ElementInv, ElementCardsShow
<1> QED BY <1>5 DEF ElementInv, PresetNamesItself

LEMMA ElementsStep == ElementInv /\ ChangeElements => ElementInv'
<1> SUFFICES ASSUME ElementInv, ChangeElements PROVE ElementInv'
  OBVIOUS
<1> DEFINE es == preset.elements
<1>1. /\ es \in Seq(Element_) /\ cards \in Seq(CardOfElement) /\ Len(cards) = Len(es) /\ Len(es) \in Nat
      /\ DOMAIN cards = 1 .. Len(es) /\ DOMAIN es = 1 .. Len(es)
  BY DEF ElementInv, ElementCardsShow
<1>2. ASSUME NEW c \in DOMAIN cards
      PROVE  /\ cards[c] \in CardOfElement /\ es[c] \in Element_ /\ cards[c].i = c
             /\ ShowsElement(cards[c], es[c])
  BY <1>1 DEF ElementInv, ElementCardsShow
<1> HIDE DEF es
<1>3. ASSUME NEW c \in DOMAIN cards, NEW f, NEW value, WriteElement(c, f, value)
      PROVE  preset' = [name |-> "Custom", elements |-> [preset.elements EXCEPT ![c] = [es[c] EXCEPT ![f] = value]]]
  BY <1>2, <1>3 DEF WriteElement, es
<1>4. ASSUME NEW p \in DOMAIN Library, ChoosePreset(p) PROVE ElementInv'
  BY <1>4, LibraryFacts, PresetIsApplied DEF ChoosePreset
<1>5. ASSUME NEW elements \in Seq(Element_), ApplyPreset([name |-> "Custom", elements |-> elements])
      PROVE  ElementInv'
  BY <1>5, LibraryFacts, PresetIsApplied
<1>6. CASE AddElement
  <2> DEFINE e == Element(10, 100, 900, "red", "single")
  <2>1. e \in Element_
    BY ElementIsElement DEF Types
  <2>2. ApplyPreset([name |-> "Custom", elements |-> Append(es, e)])
    BY <1>6 DEF AddElement, es
  <2> HIDE DEF e
  <2>3. Append(es, e) \in Seq(Element_)
    BY <1>1, <2>1
  <2> QED BY <1>5, <2>2, <2>3
<1>7. ASSUME NEW c \in DOMAIN cards, CloseElement(c) PROVE ElementInv'
  <2>1. ApplyPreset([name |-> "Custom", elements |-> RemoveAt(es, c)])
    BY <1>2, <1>7 DEF CloseElement, es
  <2>2. RemoveAt(es, c) \in Seq(Element_)
    <3>1. c \in 1 .. Len(es)
      BY <1>1
    <3>2. SubSeq(es, 1, c - 1) \in Seq(Element_)
      <4>1. \A d \in 1 .. c - 1 : es[d] \in Element_
        BY <1>1, <3>1
      <4> QED BY <1>1, <3>1, <4>1, SubSeqProperties
    <3>3. SubSeq(es, c + 1, Len(es)) \in Seq(Element_)
      <4>1. \A d \in c + 1 .. Len(es) : es[d] \in Element_
        BY <1>1, <3>1
      <4> QED BY <1>1, <3>1, <4>1, SubSeqProperties
    <3> QED BY <3>2, <3>3, ConcatProperties DEF RemoveAt
  <2> QED BY <1>5, <2>1, <2>2
<1>8. ASSUME NEW c \in DOMAIN cards, NEW f \in ElementFields,
             NEW text \in InputOf(f, cards[c].text[f]), TypeInElement(c, f, text)
      PROVE  ElementInv'
  <2>1. text \in Texts
    <3>1. cards[c].text[f] \in Texts
      BY <1>2 DEF CardOfElement
    <3> QED BY <3>1, InputIsText
  <2> DEFINE texts == [cards[c].text EXCEPT ![f] = text]
             card(inv) == [cards[c] EXCEPT !.text = texts, !.invalid = inv]
             e == [es[c] EXCEPT ![f] = text]
  <2>2. texts \in [ElementFields -> Texts] /\ texts[f] = text
        /\ \A g \in ElementFields \ {f} : texts[g] = cards[c].text[g]
    BY <1>2, <2>1 DEF CardOfElement
  <2> HIDE DEF texts
  <2>3. ASSUME NEW inv \in SUBSET ElementFields
        PROVE  /\ card(inv) \in CardOfElement /\ card(inv).i = c /\ card(inv).invalid = inv
               /\ card(inv).text = texts /\ card(inv).type = cards[c].type
               /\ card(inv).color = cards[c].color
    <3>1. cards[c] \in CardOfElement
      BY <1>2
    <3>2. card(inv).i = c /\ card(inv).type = cards[c].type /\ card(inv).color = cards[c].color
      BY <1>2, <3>1 DEF CardOfElement
    <3>3. card(inv).invalid = inv
      BY <3>1 DEF CardOfElement
    <3>4. card(inv).text = texts
      BY <3>1 DEF CardOfElement
    <3>5. card(inv) \in CardOfElement
      BY <3>1, <2>2 DEF CardOfElement
    <3> QED BY <3>2, <3>3, <3>4, <3>5
  <2>4. /\ e \in Element_ /\ e[f] = text /\ e.type = es[c].type /\ e.color = es[c].color
        /\ \A g \in ElementFields \ {f} : e[g] = es[c][g]
    BY <1>2, <2>1 DEF Element_, ElementFields
  <2>5. /\ cards[c].invalid \ {f} \in SUBSET ElementFields
        /\ cards[c].invalid \cup {f} \in SUBSET ElementFields
    BY <1>2 DEF CardOfElement
  <2>6. CASE Valid(f, text)
    <3> DEFINE inv == cards[c].invalid \ {f}
    <3>1. cards' = [cards EXCEPT ![c] = card(inv)]
      BY <1>8, <2>6 DEF TypeInElement, texts
    <3>2. preset' = [name |-> "Custom", elements |-> [preset.elements EXCEPT ![c] = e]]
      BY <1>3, <1>8, <2>6 DEF TypeInElement
    <3> HIDE DEF card, e
    <3>3. ShowsElement(card(inv), e)
      BY <1>2, <2>2, <2>3, <2>4, <2>5 DEF ShowsElement
    <3> HIDE DEF inv
    <3>4. card(inv) \in CardOfElement /\ card(inv).i = c
      BY <2>3, <2>5 DEF inv
    <3> QED BY <2>4, <3>1, <3>2, <3>3, <3>4, ElementIsWritten
  <2>7. CASE ~Valid(f, text)
    <3> DEFINE inv == cards[c].invalid \cup {f}
    <3>1. cards' = [cards EXCEPT ![c] = card(inv)] /\ preset' = preset
      BY <1>8, <2>7 DEF TypeInElement, texts
    <3> HIDE DEF card, e
    <3>2. ShowsElement(card(inv), es[c])
      BY <1>2, <2>2, <2>3, <2>5 DEF ShowsElement
    <3> HIDE DEF inv
    <3>3. card(inv) \in CardOfElement /\ card(inv).i = c
      BY <2>3, <2>5 DEF inv
    <3> QED BY <1>1, <3>1, <3>2, <3>3, ElementCardIsWritten DEF es
  <2> QED BY <2>6, <2>7
<1>9. ASSUME NEW c \in DOMAIN cards, NEW type \in Types, ChooseType(c, type) PROVE ElementInv'
  <2>1. PICK d \in {c, 1} : cards' = [cards EXCEPT ![d].type = type] /\ WriteElement(d, "type", type)
    BY <1>9 DEF ChooseType
  <2>2. d \in DOMAIN cards
    BY <1>1, <2>1
  <2> DEFINE card == [cards[d] EXCEPT !.type = type]
             e == [es[d] EXCEPT !["type"] = type]
  <2>3. /\ card \in CardOfElement /\ card.i = d /\ card.text = cards[d].text
        /\ card.invalid = cards[d].invalid /\ card.type = type /\ card.color = cards[d].color
    BY <1>2, <2>2 DEF CardOfElement
  <2>4. e \in Element_ /\ e.type = type /\ e.color = es[d].color /\ \A g \in ElementFields : e[g] = es[d][g]
    BY <1>2, <2>2 DEF Element_, ElementFields
  <2>5. cards' = [cards EXCEPT ![d] = card]
    BY <2>1
  <2>6. preset' = [name |-> "Custom", elements |-> [preset.elements EXCEPT ![d] = e]]
    BY <1>3, <2>1, <2>2
  <2> HIDE DEF card, e
  <2>7. ShowsElement(card, e)
    BY <1>2, <2>2, <2>3, <2>4 DEF ShowsElement
  <2> QED BY <2>2, <2>3, <2>4, <2>5, <2>6, <2>7, ElementIsWritten
<1>10. ASSUME NEW c \in DOMAIN cards, NEW color \in Colors, ChooseColor(c, color) PROVE ElementInv'
  <2> DEFINE card == [cards[c] EXCEPT !.color = color]
             e == [es[c] EXCEPT !["color"] = color]
  <2>1. /\ card \in CardOfElement /\ card.i = c /\ card.text = cards[c].text
        /\ card.invalid = cards[c].invalid /\ card.type = cards[c].type /\ card.color = color
    BY <1>2 DEF CardOfElement
  <2>2. e \in Element_ /\ e.type = es[c].type /\ e.color = color /\ \A g \in ElementFields : e[g] = es[c][g]
    BY <1>2 DEF Element_, ElementFields
  <2>3. cards' = [cards EXCEPT ![c] = card]
    BY <1>10 DEF ChooseColor
  <2>4. preset' = [name |-> "Custom", elements |-> [preset.elements EXCEPT ![c] = e]]
    BY <1>3, <1>10 DEF ChooseColor
  <2> HIDE DEF card, e
  <2>5. ShowsElement(card, e)
    BY <1>2, <2>1, <2>2 DEF ShowsElement
  <2> QED BY <2>1, <2>2, <2>3, <2>4, <2>5, ElementIsWritten
<1> QED BY <1>4, <1>6, <1>7, <1>8, <1>9, <1>10 DEF ChangeElements

LEMMA ElementInit == Init => ElementInv
<1> SUFFICES ASSUME Init PROVE ElementInv
  OBVIOUS
<1>1. preset = Library["iridium"] /\ cards = ElementCards(preset.elements) /\ "iridium" \in DOMAIN Library
  BY DEF Init, InitConfiguration, Library
<1>2. preset.elements \in Seq(Element_)
  BY <1>1, LibraryFacts
<1>3. PresetNamesItself
  <2> SUFFICES ASSUME NEW p \in DOMAIN Library, preset.name = Library[p].name
               PROVE  preset.elements = Library[p].elements
    BY DEF PresetNamesItself
  <2>1. p = "iridium"
    BY <1>1, LibraryFacts
  <2> QED BY <1>1, <2>1
<1> QED BY <1>1, <1>2, <1>3, ElementCardsAreBuilt DEF ElementInv

LEMMA ElementNext == ElementInv /\ [Next]_vars => ElementInv'
<1> SUFFICES ASSUME ElementInv, [Next]_vars PROVE ElementInv'
  OBVIOUS
<1>1. CASE ChangeElements
  BY <1>1, ElementsStep
<1>2. CASE UNCHANGED <<preset, cards>>
  BY <1>2 DEF ElementInv, PresetNamesItself
<1>3. ChangeStations => UNCHANGED <<preset, cards>>
  BY StationsEdit DEF StationsAreEdited, EditStations, elementVars
<1>4. ChangeSettings \/ ClickRun \/ UNCHANGED configurationVars => UNCHANGED <<preset, cards>>
  BY DEF ChangeSettings, TypeSetting, ClickRun, configurationVars, elementVars
<1> QED BY <1>1, <1>2, <1>3, <1>4 DEF Next, vars, Configures

(* A constellation under a name of the library is the one of the library:   *)
(* every handler that changes it names it Custom (registerInputs,           *)
(* addElement, the close buttons).                                          *)
THEOREM LibraryStaysItself == Spec => []PresetNamesItself
<1>1. ElementInv => PresetNamesItself
  BY DEF ElementInv
<1> QED BY <1>1, ElementInit, ElementNext, PTL DEF Spec

-----------------------------------------------------------------------------
(* The cards of the stations.  What is written through the position of a    *)
(* card lands in the object that it shows; another card of the same object  *)
(* goes stale, but a card whose object is listed once does not.             *)
ShowsStation(card, o) ==
  /\ \A f \in StationFields \ card.invalid : card.text[f] = o[f]
  /\ "name" \in card.invalid \/ card.name = o.name
  /\ card.color = o.color

ListedOnce(list, c) == \A d \in DOMAIN list \ {c} : list[d] # list[c]

StationCardsShow(cs, os, list) ==
  /\ Len(cs) = Len(list)
  /\ \A c \in DOMAIN cs :
       cs[c].i = c /\ (ListedOnce(list, c) => ShowsStation(cs[c], os[list[c]]))

ShowInv == StationCardsShow(stationCards, objects, listed)

LEMMA StationCardsAreBuilt ==
  ASSUME NEW os, NEW list, ListOf(os, list)
  PROVE  StationCardsShow([i \in DOMAIN list |-> StationCard(os[list[i]], i)], os, list)
<1> DEFINE cs == [i \in DOMAIN list |-> StationCard(os[list[i]], i)]
<1>1. list \in Seq(DOMAIN os) /\ DOMAIN list = 1 .. Len(list) /\ Len(list) \in Nat
  BY DEF ListOf
<1>2. DOMAIN cs = 1 .. Len(list) /\ \A c \in 1 .. Len(list) : cs[c] = StationCard(os[list[c]], c)
  BY <1>1
<1>3. Len(cs) = Len(list)
  BY <1>1
<1> HIDE DEF cs
<1>4. \A o, c : StationCard(o, c).i = c /\ ShowsStation(StationCard(o, c), o)
  BY DEF StationCard, ShowsStation
<1>5. StationCardsShow(cs, os, list)
  BY <1>2, <1>3, <1>4 DEF StationCardsShow
<1> QED BY <1>5 DEF cs

LEMMA AppliedStationsShow ==
  ASSUME NEW os, NEW list, ListOf(os, list), ApplyGroundStations(os, list)
  PROVE  ShowInv'
<1>1. objects' = os /\ listed' = list
  BY DEF ApplyGroundStations
<1>2. StationCardsShow(stationCards', os, list)
  BY StationCardsAreBuilt DEF ApplyGroundStations
<1> QED BY <1>1, <1>2 DEF ShowInv

(* A handler writes to a card and to the object it shows.                   *)
LEMMA WrittenStationShows ==
  ASSUME StationInv, ShowInv, NEW c \in DOMAIN stationCards, NEW card \in CardOfStation, card.i = c, NEW o,
         ShowsStation(stationCards[c], objects[Target(c)]) => ShowsStation(card, o),
         stationCards' = [stationCards EXCEPT ![c] = card],
         objects' = [objects EXCEPT ![Target(c)] = o], UNCHANGED listed
  PROVE  ShowInv'
<1>1. /\ stationCards \in Seq(CardOfStation) /\ listed \in Seq(DOMAIN objects)
      /\ Len(stationCards) = Len(listed) /\ stationCards[c].i = c
      /\ DOMAIN stationCards = 1 .. Len(listed) /\ DOMAIN listed = 1 .. Len(listed)
  BY DEF StationInv, StationTypes, ListOf, CardsOf, ShowInv, StationCardsShow
<1>2. Target(c) = listed[c] /\ \A d \in DOMAIN listed : listed[d] \in DOMAIN objects
  BY <1>1 DEF Target
<1>3. stationCards' \in Seq(CardOfStation) /\ DOMAIN stationCards' = DOMAIN stationCards
  <2>1. /\ [stationCards EXCEPT ![c] = card] \in Seq(CardOfStation)
        /\ DOMAIN [stationCards EXCEPT ![c] = card] = DOMAIN stationCards
    BY <1>1, SeqUpdated, Zenon
  <2> QED BY <2>1
<1>4. Len(stationCards') = Len(listed)
  BY <1>1, <1>3, SameDomainSameLength
<1>5. ASSUME NEW d \in DOMAIN stationCards
      PROVE  stationCards'[d].i = d /\ (ListedOnce(listed, d) => ShowsStation(stationCards'[d], objects'[listed[d]]))
  <2>1. CASE d = c
    <3>1. stationCards'[d] = card /\ objects'[listed[d]] = o
      BY <1>1, <1>2, <2>1
    <3>2. ListedOnce(listed, c) => ShowsStation(stationCards[c], objects[listed[c]])
      BY DEF ShowInv, StationCardsShow
    <3> QED BY <1>2, <2>1, <3>1, <3>2
  <2>2. CASE d # c
    <3>1. stationCards'[d] = stationCards[d]
      BY <1>1, <2>2
    <3>2. ListedOnce(listed, d) => listed[d] # listed[c]
      BY <1>1, <2>2 DEF ListedOnce
    <3>3. listed[d] # listed[c] => objects'[listed[d]] = objects[listed[d]]
      BY <1>1, <1>2
    <3> QED BY <3>1, <3>2, <3>3 DEF ShowInv, StationCardsShow
  <2> QED BY <2>1, <2>2
<1> QED BY <1>3, <1>4, <1>5 DEF ShowInv, StationCardsShow

LEMMA StationsShowStep == StationInv /\ ShowInv /\ ChangeStations => ShowInv'
<1> SUFFICES ASSUME StationInv, ShowInv, ChangeStations PROVE ShowInv'
  OBVIOUS
<1>1. StationInv'
  BY StationStep
<1>2. ASSUME NEW os, NEW list, ApplyGroundStations(os, list) PROVE ShowInv'
  <2>1. objects' = os /\ listed' = list
    BY <1>2 DEF ApplyGroundStations
  <2>2. ListOf(os, list)
    BY <1>1, <2>1 DEF StationInv, StationTypes
  <2> QED BY <1>2, <2>2, AppliedStationsShow
<1>3. ASSUME NEW o \in DOMAIN StationPresets, AddPresetStation(o) PROVE ShowInv'
  BY <1>2, <1>3 DEF AddPresetStation, AddGroundStation
<1>4. CASE AddCustomStation \/ ClickGlobe(300, 600)
  BY <1>2, <1>4 DEF AddCustomStation, ClickGlobe, AddGroundStation
<1>5. ASSUME NEW c \in DOMAIN stationCards, CloseStation(c) PROVE ShowInv'
  BY <1>2, <1>5 DEF CloseStation
<1>6. ASSUME NEW c \in DOMAIN stationCards
      PROVE  /\ Target(c) \in DOMAIN objects /\ objects[Target(c)] \in Object
             /\ stationCards[c] \in CardOfStation /\ stationCards[c].i = c
             /\ stationCards[c].invalid \in SUBSET (StationFields \cup {"name"})
             /\ stationCards[c].text \in [StationFields -> Texts]
             /\ [objects EXCEPT ![Target(c)] = objects[Target(c)]] = objects
  <2>1. objects \in Seq(Object) /\ stationCards \in Seq(CardOfStation) /\ stationCards[c].i \in DOMAIN listed
        /\ listed \in Seq(DOMAIN objects)
    BY DEF StationInv, StationTypes, CardsOf, ListOf
  <2>2. Target(c) \in DOMAIN objects
    BY <2>1 DEF Target
  <2>3. stationCards[c] \in CardOfStation /\ objects[Target(c)] \in Object
    BY <2>1, <2>2
  <2>4. [objects EXCEPT ![Target(c)] = objects[Target(c)]] = objects
    BY <2>1
  <2>5. stationCards[c].i = c
    BY DEF ShowInv, StationCardsShow
  <2> QED BY <2>2, <2>3, <2>4, <2>5 DEF CardOfStation
<1> DEFINE Fields == StationFields \cup {"name"}
<1>10. ASSUME NEW k \in CardOfStation, NEW name \in AllNames, NEW inv \in SUBSET Fields
       PROVE  [k EXCEPT !.name = name, !.invalid = inv] \in CardOfStation
  BY <1>10 DEF CardOfStation
<1>11. ASSUME NEW k \in CardOfStation, NEW texts \in [StationFields -> Texts], NEW inv \in SUBSET Fields
       PROVE  [k EXCEPT !.text = texts, !.invalid = inv] \in CardOfStation
  BY <1>11 DEF CardOfStation
<1>12. ASSUME NEW c \in DOMAIN stationCards PROVE stationCards[c] \in CardOfStation
  BY <1>6
<1>7. ASSUME NEW c \in DOMAIN stationCards, NEW name \in TypedNames, TypeName(c, name)
      PROVE  ShowInv'
  <2> DEFINE card(inv) == [stationCards[c] EXCEPT !.name = name, !.invalid = inv]
             o == objects[Target(c)]
  <2>1. name \in AllNames /\ UNCHANGED listed
    BY <1>7, ConfigurationAssumption DEF TypeName
  <2>2. ASSUME NEW inv \in SUBSET (StationFields \cup {"name"})
        PROVE  /\ card(inv) \in CardOfStation /\ card(inv).i = c /\ card(inv).invalid = inv
               /\ card(inv).name = name /\ card(inv).text = stationCards[c].text
               /\ card(inv).color = stationCards[c].color
    <3>1. card(inv).i = c /\ card(inv).name = name /\ card(inv).color = stationCards[c].color
      BY <1>6 DEF CardOfStation
    <3>2. card(inv).invalid = inv
      BY <1>6 DEF CardOfStation
    <3>3. card(inv).text = stationCards[c].text
      BY <1>6 DEF CardOfStation
    <3>4. card(inv) \in CardOfStation
      BY <1>10, <1>12, <2>1, <2>2
    <3> QED BY <3>1, <3>2, <3>3, <3>4
  <2>3. CASE name # Name("")
    <3> DEFINE inv == stationCards[c].invalid \ {"name"}
               new == [o EXCEPT !.name = name, !.uniqueName = NextUniqueName(name)]
    <3>1. stationCards' = [stationCards EXCEPT ![c] = card(inv)]
      BY <1>7, <2>3 DEF TypeName
    <3>2. objects' = [objects EXCEPT ![Target(c)] = new]
      BY <1>7, <2>3 DEF TypeName, ChangeGroundStationName
    <3>3. new.name = name /\ new.color = o.color /\ \A f \in StationFields : new[f] = o[f]
      BY <1>6 DEF Object, StationFields
    <3>4. inv \in SUBSET (StationFields \cup {"name"})
      BY <1>6
    <3> HIDE DEF card, new, o
    <3>5. ShowsStation(stationCards[c], o) => ShowsStation(card(inv), new)
      <4>1. "name" \notin StationFields
        BY DEF StationFields
      <4> QED BY <2>2, <3>3, <3>4, <4>1 DEF ShowsStation
    <3>6. card(inv) \in CardOfStation /\ card(inv).i = c
      BY <2>2, <3>4
    <3> HIDE DEF inv
    <3> QED BY <2>1, <3>1, <3>2, <3>5, <3>6, WrittenStationShows DEF o
  <2>4. CASE name = Name("")
    <3> DEFINE inv == stationCards[c].invalid \cup {"name"}
    <3>1. stationCards' = [stationCards EXCEPT ![c] = card(inv)] /\ objects' = objects
      BY <1>7, <2>4 DEF TypeName
    <3>2. objects' = [objects EXCEPT ![Target(c)] = o]
      BY <1>6, <3>1
    <3>3. inv \in SUBSET (StationFields \cup {"name"})
      BY <1>6
    <3> HIDE DEF card, o
    <3>4. ShowsStation(stationCards[c], o) => ShowsStation(card(inv), o)
      BY <2>2, <3>3 DEF ShowsStation
    <3>5. card(inv) \in CardOfStation /\ card(inv).i = c
      BY <2>2, <3>3
    <3> HIDE DEF inv
    <3> QED BY <2>1, <3>1, <3>2, <3>4, <3>5, WrittenStationShows DEF o
  <2> QED BY <2>3, <2>4
<1>8. ASSUME NEW c \in DOMAIN stationCards, NEW f \in StationFields,
             NEW text \in InputOf(f, stationCards[c].text[f]), TypeCoordinate(c, f, text)
      PROVE  ShowInv'
  <2>1. text \in Texts /\ UNCHANGED listed
    <3>1. stationCards[c].text[f] \in Texts
      BY <1>6
    <3>2. text \in Texts
      BY <3>1, InputIsText
    <3> QED BY <1>8, <3>2 DEF TypeCoordinate
  <2> DEFINE texts == [stationCards[c].text EXCEPT ![f] = text]
             card(inv) == [stationCards[c] EXCEPT !.text = texts, !.invalid = inv]
             o == objects[Target(c)]
  <2>2. texts \in [StationFields -> Texts] /\ texts[f] = text
        /\ \A g \in StationFields \ {f} : texts[g] = stationCards[c].text[g]
    BY <1>6, <2>1
  <2> HIDE DEF texts
  <2>3. ASSUME NEW inv \in SUBSET (StationFields \cup {"name"})
        PROVE  /\ card(inv) \in CardOfStation /\ card(inv).i = c /\ card(inv).invalid = inv
               /\ card(inv).name = stationCards[c].name /\ card(inv).text = texts
               /\ card(inv).color = stationCards[c].color
    <3>1. card(inv).i = c /\ card(inv).name = stationCards[c].name /\ card(inv).color = stationCards[c].color
      BY <1>6 DEF CardOfStation
    <3>2. card(inv).invalid = inv
      BY <1>6 DEF CardOfStation
    <3>3. card(inv).text = texts
      BY <1>6 DEF CardOfStation
    <3>4. card(inv) \in CardOfStation
      BY <1>11, <1>12, <2>2, <2>3
    <3> QED BY <3>1, <3>2, <3>3, <3>4
  <2>4. f # "name" /\ f # "color"
    BY DEF StationFields
  <2>5. CASE Valid(f, text)
    <3> DEFINE inv == stationCards[c].invalid \ {f}
               new == [o EXCEPT ![f] = text]
    <3>1. stationCards' = [stationCards EXCEPT ![c] = card(inv)]
      BY <1>8, <2>5 DEF TypeCoordinate, texts
    <3>2. objects' = [objects EXCEPT ![Target(c)] = new]
      BY <1>8, <2>5 DEF TypeCoordinate, WriteStation
    <3>3. /\ new.name = o.name /\ new.color = o.color /\ new[f] = text
          /\ \A g \in StationFields \ {f} : new[g] = o[g]
      BY <1>6 DEF Object, StationFields
    <3>4. inv \in SUBSET (StationFields \cup {"name"})
      BY <1>6
    <3> HIDE DEF card, new, o
    <3>5. ShowsStation(stationCards[c], o) => ShowsStation(card(inv), new)
      BY <2>2, <2>3, <2>4, <3>3, <3>4 DEF ShowsStation
    <3>6. card(inv) \in CardOfStation /\ card(inv).i = c
      BY <2>3, <3>4
    <3> HIDE DEF inv
    <3> QED BY <2>1, <3>1, <3>2, <3>5, <3>6, WrittenStationShows DEF o
  <2>6. CASE ~Valid(f, text)
    <3> DEFINE inv == stationCards[c].invalid \cup {f}
    <3>1. stationCards' = [stationCards EXCEPT ![c] = card(inv)] /\ objects' = objects
      BY <1>8, <2>6 DEF TypeCoordinate, texts
    <3>2. objects' = [objects EXCEPT ![Target(c)] = o]
      BY <1>6, <3>1
    <3>3. inv \in SUBSET (StationFields \cup {"name"})
      BY <1>6
    <3> HIDE DEF card, o
    <3>4. ShowsStation(stationCards[c], o) => ShowsStation(card(inv), o)
      BY <2>2, <2>3, <2>4, <3>3 DEF ShowsStation
    <3>5. card(inv) \in CardOfStation /\ card(inv).i = c
      BY <2>3, <3>3
    <3> HIDE DEF inv
    <3> QED BY <2>1, <3>1, <3>2, <3>4, <3>5, WrittenStationShows DEF o
  <2> QED BY <2>5, <2>6
<1>9. ASSUME NEW c \in DOMAIN stationCards, NEW color \in {"red", "yellow", "green"}, ChooseTraffic(c, color)
      PROVE  ShowInv'
  <2> DEFINE card == [stationCards[c] EXCEPT !.color = color]
             o == objects[Target(c)]
             new == [o EXCEPT !["color"] = color]
  <2>1. color \in Colors /\ UNCHANGED listed
    BY <1>9, ConfigurationAssumption DEF ChooseTraffic
  <2>2. card.i = c /\ card.color = color /\ card.name = stationCards[c].name
    BY <1>6 DEF CardOfStation
  <2>3. card.invalid = stationCards[c].invalid
    BY <1>6 DEF CardOfStation
  <2>4. card.text = stationCards[c].text
    BY <1>6 DEF CardOfStation
  <2>5. card \in CardOfStation
    BY <1>6, <2>1 DEF CardOfStation
  <2>6. stationCards' = [stationCards EXCEPT ![c] = card]
    BY <1>9 DEF ChooseTraffic
  <2>7. objects' = [objects EXCEPT ![Target(c)] = new]
    BY <1>9 DEF ChooseTraffic, WriteStation
  <2>8. new.name = o.name /\ new.color = color /\ \A f \in StationFields : new[f] = o[f]
    BY <1>6 DEF Object, StationFields
  <2> HIDE DEF card, new, o
  <2>9. ShowsStation(stationCards[c], o) => ShowsStation(card, new)
    BY <2>2, <2>3, <2>4, <2>8 DEF ShowsStation
  <2> QED BY <2>1, <2>2, <2>5, <2>6, <2>7, <2>9, WrittenStationShows DEF o
<1> QED BY <1>3, <1>4, <1>5, <1>7, <1>8, <1>9 DEF ChangeStations

LEMMA ShowInit == Init => ShowInv
<1> SUFFICES ASSUME Init PROVE ShowInv
  OBVIOUS
<1>1. StationInv
  BY StationInit
<1>2. listed = <<1, 2, 3>> /\ stationCards = [i \in DOMAIN listed |-> StationCard(objects[listed[i]], i)]
  BY DEF Init, InitConfiguration
<1> QED BY <1>1, <1>2, StationCardsAreBuilt DEF ShowInv, StationInv, StationTypes

LEMMA ShowNext == StationInv /\ ShowInv /\ [Next]_vars => ShowInv'
<1> SUFFICES ASSUME StationInv, ShowInv, [Next]_vars PROVE ShowInv'
  OBVIOUS
<1>1. CASE ChangeStations
  BY <1>1, StationsShowStep
<1>2. CASE UNCHANGED stationVars
  BY <1>2 DEF ShowInv, stationVars
<1>3. ChangeElements \/ ChangeSettings => UNCHANGED stationVars
  BY ElementsEdit, SettingsEdit DEF EditElements
<1>4. ClickRun \/ UNCHANGED configurationVars => UNCHANGED stationVars
  BY DEF ClickRun, configurationVars
<1> QED BY <1>1, <1>2, <1>3, <1>4 DEF Next, vars, Configures

(* What is not marked invalid on a card is what a run would be posted, also *)
(* after cards have been closed, moved up and edited: the handlers write    *)
(* through data-i, and the cards are rebuilt whenever positions change      *)
(* (applyPreset, applyGroundStations, registerInputs, registerGSInputs).    *)
THEOREM CardsFollow == Spec => []CardsShowModel
<1>1. ASSUME ElementInv, StationInv, ShowInv PROVE CardsShowModel
  <2>1. /\ Len(cards) = Len(preset.elements)
        /\ \A c \in DOMAIN cards :
             LET e == preset.elements[c] IN
             /\ \A f \in ElementFields \ cards[c].invalid : cards[c].text[f] = e[f]
             /\ cards[c].type = e.type /\ cards[c].color = e.color
    BY <1>1 DEF ElementInv, ElementCardsShow, ShowsElement
  <2>2. ASSUME NEW c \in DOMAIN stationCards, \A d \in DOMAIN listed \ {c} : listed[d] # listed[c]
        PROVE  ShowsStation(stationCards[c], objects[listed[c]])
    BY <1>1, <2>2 DEF ShowInv, StationCardsShow, ListedOnce
  <2>3. Len(stationCards) = Len(listed)
    BY <1>1 DEF ShowInv, StationCardsShow
  <2> QED BY <2>1, <2>2, <2>3 DEF CardsShowModel, ShowsStation
<1> QED BY <1>1, ElementInit, ElementNext, StationInit, StationNext, ShowInit, ShowNext, PTL DEF Spec

-----------------------------------------------------------------------------
(* The types of the rest.  Every edit counts a name at most once.           *)
BoundsInv ==
  /\ edits \in 0 .. MaxEdits /\ disabled \in BOOLEAN
  /\ \A n \in DOMAIN taken : taken[n] <= edits + 1

(* Until an output is shown nothing has failed and the button is there.     *)
(* The rare checks begin when patience has run out.                         *)
RequestInv ==
  /\ wait \in {10, 60} /\ waited \in -10 .. Patience + 10 /\ (wait = 60 => waited > Patience)
  /\ failed \in Flag /\ results \in Flag /\ (button => failed = 0 /\ results = 0)
  /\ output \in Outputs \cup {<<>>} /\ frames \in Flag

LEMMA BoundsInit == Init => BoundsInv
<1> SUFFICES ASSUME Init PROVE BoundsInv
  OBVIOUS
<1>1. edits = 0 /\ disabled = FALSE /\ \A n \in DOMAIN taken : taken[n] = 0 \/ taken[n] = 1
  BY DEF Init, InitConfiguration
<1>2. \A n \in DOMAIN taken : taken[n] <= edits + 1
  <2> SUFFICES ASSUME NEW n \in DOMAIN taken PROVE taken[n] <= 1
    BY <1>1
  <2> QED BY <1>1
<1>3. edits \in 0 .. MaxEdits
  <2>1. MaxEdits \in Nat
    BY ConfigurationAssumption
  <2> QED BY <1>1, <2>1
<1> QED BY <1>1, <1>2, <1>3 DEF BoundsInv

LEMMA ConfiguresEdits == Configures => Edit /\ (UNCHANGED taken \/ \E n : Count(n))
<1>1. ChangeElements => Edit /\ UNCHANGED taken
  BY ElementsEdit DEF EditElements, stationVars
<1>2. ChangeSettings => Edit /\ UNCHANGED taken
  BY SettingsEdit DEF stationVars
<1>3. ChangeStations => Edit /\ (UNCHANGED taken \/ \E n : Count(n))
  BY StationsEdit DEF StationsAreEdited, EditStations
<1> QED BY <1>1, <1>2, <1>3 DEF Configures

LEMMA BoundsNext == StationInv /\ BoundsInv /\ [Next]_vars => BoundsInv'
<1> SUFFICES ASSUME StationInv, BoundsInv, [Next]_vars PROVE BoundsInv'
  OBVIOUS
<1>1. taken \in [DOMAIN taken -> Nat] /\ edits \in Nat /\ MaxEdits \in Nat
  <2>1. taken \in [DOMAIN taken -> Nat]
    BY DEF StationInv, StationTypes
  <2>2. MaxEdits \in Nat
    BY ConfigurationAssumption
  <2> QED BY <2>1, <2>2 DEF BoundsInv
<1>2. CASE Configures
  <2>1. edits < MaxEdits /\ edits' = edits + 1 /\ disabled' = disabled
    BY <1>2, ConfiguresEdits DEF Edit
  <2>2. \A n \in DOMAIN taken' : n \in DOMAIN taken /\ taken'[n] <= taken[n] + 1
    <3>1. CASE UNCHANGED taken
      BY <1>1, <3>1
    <3>2. ASSUME NEW m, Count(m) PROVE \A n \in DOMAIN taken' : n \in DOMAIN taken /\ taken'[n] <= taken[n] + 1
      BY <1>1, <3>2 DEF Count
    <3> QED BY <1>2, <3>1, <3>2, ConfiguresEdits
  <2>3. edits' \in 0 .. MaxEdits
    BY <1>1, <2>1
  <2>4. ASSUME NEW n \in DOMAIN taken' PROVE taken'[n] <= edits' + 1
    <3>1. n \in DOMAIN taken /\ taken[n] \in Nat
      BY <1>1, <2>2
    <3>2. taken[n] <= edits + 1 /\ taken'[n] <= taken[n] + 1
      BY <2>2, <3>1 DEF BoundsInv
    <3>3. taken'[n] \in Nat
      <4>1. CASE UNCHANGED taken
        BY <3>1, <4>1
      <4>2. ASSUME NEW m, Count(m) PROVE taken'[n] \in Nat
        BY <1>1, <3>1, <4>2 DEF Count
      <4> QED BY <1>2, <4>1, <4>2, ConfiguresEdits
    <3> DEFINE k == taken'[n]
               l == taken[n]
    <3>4. k \in Nat /\ l \in Nat /\ l <= edits + 1 /\ k <= l + 1
      BY <3>1, <3>2, <3>3
    <3> HIDE DEF k, l
    <3>5. k <= edits' + 1
      BY <1>1, <2>1, <3>4
    <3> QED BY <3>5 DEF k
  <2> QED BY <2>1, <2>3, <2>4 DEF BoundsInv
<1>3. CASE ClickRun
  BY <1>3 DEF ClickRun, stationVars, BoundsInv
<1>4. CASE UNCHANGED configurationVars
  BY <1>4 DEF configurationVars, stationVars, BoundsInv
<1> QED BY <1>2, <1>3, <1>4 DEF Next, vars

LEMMA RequestInit == Init => RequestInv
  BY ResultsAssumption DEF Init, InitResults, RequestInv, Flag

LEMMA RequestStutters ==
  RequestInv /\ UNCHANGED <<button, wait, waited, failed, results, output, frames>> => RequestInv'
  BY DEF RequestInv

(* A check comes later by the time between two.                             *)
LEMMA WaitIsBounded ==
  RequestInv /\ WaitForSimulationToFinish =>
    wait' \in {10, 60} /\ waited' \in -10 .. Patience + 10 /\ (wait' = 60 => waited' > Patience)
  BY ResultsAssumption DEF RequestInv, WaitForSimulationToFinish

(* An output is shown once: the button goes with it.                        *)
LEMMA ShownIsFirst ==
  ASSUME RequestInv, button, button' = FALSE, NEW out \in Outputs, OutputResults(out),
         failed' = failed \/ failed' = failed + 1, UNCHANGED <<wait, waited, frames>>
  PROVE  RequestInv'
  BY DEF RequestInv, OutputResults, Flag

LEMMA RequestNext == OneConversation /\ RequestInv /\ [Next]_vars => RequestInv'
<1> SUFFICES ASSUME OneConversation, RequestInv, [Next]_vars PROVE RequestInv'
  OBVIOUS
<1>1. CASE Configures /\ UNCHANGED resultVars
  BY <1>1, RequestStutters DEF resultVars, requestVars, shownVars
<1>2. CASE ClickRun
  BY <1>2, RequestStutters DEF ClickRun, PostRun, shownVars
<1>3. CASE PostDone \/ CheckAgain
  <2>1. WaitForSimulationToFinish /\ UNCHANGED <<button, failed, results, output, frames>>
    BY <1>3 DEF PostDone, CheckAgain, shownVars
  <2> QED BY <2>1, WaitIsBounded DEF RequestInv
<1>4. posts > 0 \/ checks > 0 => button
  BY DEF OneConversation, Pending
<1>5. CASE PostFails
  BY <1>4, <1>5, ShownIsFirst, ResultsAssumption DEF PostFails
<1>6. ASSUME NEW out \in Outputs, CheckDone(out) PROVE RequestInv'
  BY <1>4, <1>6, ShownIsFirst DEF CheckDone
<1>7. CASE CheckNotDone \/ CheckFails
  BY <1>7, RequestStutters DEF CheckNotDone, CheckFails, shownVars
<1>8. CASE Playback
  BY <1>8, RequestStutters
     DEF Playback, Prev, NextStep, Play, Tick, ViewStats, CloseStats, PlaybackUnchanged, requestVars, shownVars
<1>9. CASE Frame
  BY <1>9 DEF Frame, RequestInv, Flag, requestVars, shownVars
<1>10. CASE UNCHANGED vars
  BY <1>10, RequestStutters DEF vars, resultVars, requestVars, shownVars
<1> QED BY <1>1, <1>2, <1>3, <1>5, <1>6, <1>7, <1>8, <1>9, <1>10 DEF Next, Results, Answers

(* The page stays well formed: every card knows a position that exists, a   *)
(* request, a timer, a frame and an interval are pending at most once each, *)
(* a run fails or shows an output at most once, and what has been waited    *)
(* stays within patience and a step of it, where the checks get rare.       *)
THEOREM PageTyped == Spec => []TypeOK
<1>1. ASSUME ElementInv, StationInv, OneConversation, TickerInv, BoundsInv, RequestInv PROVE TypeOK
  <2>1. preset.elements \in Seq(Element_) /\ \A c \in ToSet(cards) : c.i \in DOMAIN preset.elements
    <3>1. preset.elements \in Seq(Element_)
      BY <1>1 DEF ElementInv
    <3>2. ASSUME NEW c \in DOMAIN cards PROVE cards[c].i \in DOMAIN preset.elements
      BY <1>1 DEF ElementInv, ElementCardsShow
    <3> QED BY <3>1, <3>2 DEF ToSet
  <2>2. objects \in Seq(Object) /\ listed \in Seq(DOMAIN objects)
        /\ \A c \in ToSet(stationCards) : c.i \in DOMAIN listed
    BY <1>1 DEF StationInv, StationTypes, ListOf, CardsOf, ToSet
  <2>3. ASSUME NEW n \in DOMAIN taken PROVE taken[n] \in 0 .. Len(objects) + MaxEdits
    <3>1. DOMAIN StationPresets = 1 .. 3 /\ DOMAIN objects = 1 .. Len(objects) /\ Len(objects) \in Nat
      BY <2>2 DEF StationPresets
    <3>2. 1 \in DOMAIN objects
      BY <1>1, <3>1 DEF StationInv, StationTypes
    <3>3. Len(objects) >= 1
      BY <3>1, <3>2
    <3>4. taken[n] \in Nat /\ taken[n] <= edits + 1 /\ edits \in Nat /\ edits <= MaxEdits /\ MaxEdits \in Nat
      <4>1. taken \in [DOMAIN taken -> Nat]
        BY <1>1 DEF StationInv, StationTypes
      <4>2. MaxEdits \in Nat
        BY ConfigurationAssumption
      <4>3. edits \in 0 .. MaxEdits /\ taken[n] <= edits + 1
        BY <1>1 DEF BoundsInv
      <4> QED BY <4>1, <4>2, <4>3
    <3> DEFINE k == taken[n]
    <3> HIDE DEF k
    <3>5. k \in 0 .. Len(objects) + MaxEdits
      BY <3>1, <3>3, <3>4 DEF k
    <3> QED BY <3>5 DEF k
  <2>4. posts \in Flag /\ checks \in Flag /\ timers \in Flag /\ button \in BOOLEAN /\ loading \in BOOLEAN
    BY <1>1 DEF OneConversation, Pending, Flag
  <2>5. tickers \in Flag
    BY <1>1 DEF TickerInv, OneTicker, Flag
  <2>6. /\ wait \in {10, 60} /\ waited \in -10 .. Patience + 10 /\ failed \in Flag
        /\ output \in Outputs \cup {<<>>} /\ frames \in Flag /\ results \in Flag
    BY <1>1 DEF RequestInv
  <2>7. disabled \in BOOLEAN /\ edits \in 0 .. MaxEdits
    BY <1>1 DEF BoundsInv
  <2> QED BY <2>1, <2>2, <2>3, <2>4, <2>5, <2>6, <2>7 DEF TypeOK
<1>2. Init => OneConversation
  BY ConversationInit
<1>3. OneConversation /\ [Next]_vars => OneConversation'
  BY ConversationStep
<1> QED BY <1>1, <1>2, <1>3, ElementInit, ElementNext, StationInit, StationNext, TickerInit, TickerStep,
           BoundsInit, BoundsNext, RequestInit, RequestNext, PTL DEF Spec

-----------------------------------------------------------------------------
(* The chart.  A sum of naturals is one: FoldSeq is a function on the sets  *)
(* of positions that is chosen by its equation, so what has to be shown is  *)
(* that one solves it (built set by set, smallest first) and that only one  *)
(* does.                                                                    *)
Leading(S) == CHOOSE x \in S : TRUE

SumFrom(h, event, S) == IF S = {} THEN 0 ELSE event[Leading(S)] + h[S \ {Leading(S)}]

Small(D, k) == {S \in SUBSET D : Cardinality(S) <= k}

Sums(event, k) ==
  {h \in [Small(DOMAIN event, k) -> Nat] :
     \A S \in Small(DOMAIN event, k) : h[S] = SumFrom(h, event, S)}

(* A non-empty set of naturals has a least element.                         *)
LEMMA LeastNatural ==
  ASSUME NEW S \in SUBSET Nat, S # {}
  PROVE  \E m \in S : \A k \in S : m <= k
<1> DEFINE R == OpToRel(<, Nat)
<1>1. IsWellFoundedOn(R, Nat)
  BY NatLessThanWellFounded
<1>2. PICK m \in S : \A k \in S : ~ (<<k, m>> \in R)
  <2> HIDE DEF R
  <2> QED BY <1>1, WFMin
<1>3. \A k \in S : ~ (k < m)
  BY <1>2 DEF OpToRel
<1> QED BY <1>3

LEMMA WithoutLeading ==
  ASSUME NEW D, IsFiniteSet(D), NEW S \in SUBSET D
  PROVE  /\ IsFiniteSet(S) /\ Cardinality(S) \in Nat /\ Cardinality(S) <= Cardinality(D)
         /\ Cardinality(S) = 0 <=> S = {}
         /\ S # {} => /\ Leading(S) \in S /\ S \ {Leading(S)} \in SUBSET D
                      /\ Cardinality(S \ {Leading(S)}) = Cardinality(S) - 1
<1>1. IsFiniteSet(S) /\ Cardinality(S) <= Cardinality(D)
  BY FS_Subset
<1>2. Cardinality(S) \in Nat /\ (Cardinality(S) = 0 <=> S = {})
  BY <1>1, FS_CardinalityType, FS_EmptySet
<1>3. ASSUME S # {} PROVE Leading(S) \in S
  BY <1>3 DEF Leading
<1>4. ASSUME S # {} PROVE Cardinality(S \ {Leading(S)}) = Cardinality(S) - 1
  BY <1>1, <1>3, <1>4, FS_RemoveElement
<1> QED BY <1>1, <1>2, <1>3, <1>4

LEMMA SumsExist ==
  ASSUME NEW event \in Seq(Nat), NEW k \in Nat
  PROVE  Sums(event, k) # {}
<1> DEFINE D == DOMAIN event
           T == {j \in Nat : Sums(event, j) = {}}
<1>1. IsFiniteSet(D) /\ \A x \in D : event[x] \in Nat
  BY FS_Interval
<1>2. SUFFICES ASSUME T # {} PROVE FALSE
  OBVIOUS
<1>3. PICK m \in T : \A j \in T : m <= j
  <2>1. T \in SUBSET Nat
    OBVIOUS
  <2> HIDE DEF T
  <2> QED BY <1>2, <2>1, LeastNatural
<1>4. m \in Nat /\ Sums(event, m) = {}
  BY <1>3
<1>5. m # 0
  <2> SUFFICES ASSUME m = 0 PROVE FALSE
    OBVIOUS
  <2> DEFINE h == [S \in Small(D, 0) |-> 0]
  <2>1. ASSUME NEW S \in Small(D, 0) PROVE S = {}
    <3>1. S \in SUBSET D /\ Cardinality(S) <= 0
      BY DEF Small
    <3>2. Cardinality(S) \in Nat /\ (Cardinality(S) = 0 <=> S = {})
      BY <1>1, <3>1, WithoutLeading
    <3> QED BY <3>1, <3>2
  <2>2. h \in [Small(D, 0) -> Nat]
    OBVIOUS
  <2>3. ASSUME NEW S \in Small(D, 0) PROVE h[S] = SumFrom(h, event, S)
    BY <2>1, <2>3 DEF SumFrom
  <2> HIDE DEF h
  <2>4. h \in Sums(event, 0)
    BY <2>2, <2>3 DEF Sums
  <2> QED BY <1>4, <2>4
<1>6. m - 1 \in Nat /\ m - 1 \notin T
  <2>1. m - 1 \in Nat /\ ~ (m <= m - 1)
    BY <1>4, <1>5
  <2> QED BY <1>3, <2>1
<1>7. PICK h \in Sums(event, m - 1) : TRUE
  BY <1>6
<1>8. /\ h \in [Small(D, m - 1) -> Nat]
      /\ \A S \in Small(D, m - 1) : h[S] = SumFrom(h, event, S)
  BY <1>7 DEF Sums
<1> DEFINE g == [S \in Small(D, m) |-> SumFrom(h, event, S)]
<1>9. ASSUME NEW S \in Small(D, m), S # {}
      PROVE  Leading(S) \in D /\ S \ {Leading(S)} \in Small(D, m - 1) /\ S \ {Leading(S)} \in Small(D, m)
  <2>1. S \in SUBSET D /\ Cardinality(S) <= m
    BY DEF Small
  <2>2. /\ Cardinality(S) \in Nat /\ Leading(S) \in S /\ S \ {Leading(S)} \in SUBSET D
        /\ Cardinality(S \ {Leading(S)}) = Cardinality(S) - 1
    BY <1>1, <1>9, <2>1, WithoutLeading
  <2>3. Cardinality(S \ {Leading(S)}) <= m - 1 /\ Cardinality(S \ {Leading(S)}) <= m
    BY <1>4, <2>1, <2>2
  <2> QED BY <2>1, <2>2, <2>3 DEF Small
<1>10. ASSUME NEW S \in Small(D, m) PROVE SumFrom(h, event, S) \in Nat
  <2>1. CASE S = {}
    BY <2>1 DEF SumFrom
  <2>2. CASE S # {}
    <3>1. event[Leading(S)] \in Nat /\ h[S \ {Leading(S)}] \in Nat
      BY <1>1, <1>8, <1>9, <2>2
    <3> QED BY <2>2, <3>1 DEF SumFrom
  <2> QED BY <2>1, <2>2
<1>11. ASSUME NEW S \in Small(D, m), S # {} PROVE g[S \ {Leading(S)}] = h[S \ {Leading(S)}]
  BY <1>8, <1>9, <1>11
<1>12. g \in [Small(D, m) -> Nat]
  BY <1>10
<1>13. ASSUME NEW S \in Small(D, m) PROVE g[S] = SumFrom(g, event, S)
  <2>1. g[S] = SumFrom(h, event, S)
    OBVIOUS
  <2> HIDE DEF g
  <2> QED BY <1>11, <2>1 DEF SumFrom
<1> HIDE DEF g
<1>14. g \in Sums(event, m)
  BY <1>12, <1>13 DEF Sums
<1> QED BY <1>4, <1>14

LEMMA PacketsAreNatural ==
  ASSUME NEW event \in Seq(Nat)
  PROVE  Packets(event) \in Nat
<1> DEFINE D == DOMAIN event
           Solves(f) == f = [S \in SUBSET D |-> SumFrom(f, event, S)]
           sum == CHOOSE f : Solves(f)
           n == Cardinality(D)
<1>1. Packets(event) = sum[D]
  <2> DEFINE iter[S \in SUBSET DOMAIN event] ==
               IF S = {} THEN 0 ELSE event[CHOOSE x \in S : TRUE] + iter[S \ {CHOOSE x \in S : TRUE}]
  <2>1. Packets(event) = iter[DOMAIN event]
    BY DEF Packets, FoldSeq, FoldFunction, FoldFunctionOnSet, MapThenFoldSet
  <2>2. sum = iter
    BY DEF SumFrom, Leading
  <2> QED BY <2>1, <2>2
<1>2. IsFiniteSet(D) /\ n \in Nat
  BY FS_Interval, FS_CardinalityType
<1>3. PICK h \in Sums(event, n) : TRUE
  BY <1>2, SumsExist
<1>4. Small(D, n) = SUBSET D
  <2>1. ASSUME NEW S \in SUBSET D PROVE Cardinality(S) <= n
    BY <1>2, WithoutLeading
  <2> QED BY <2>1 DEF Small
<1>5. h \in [SUBSET D -> Nat] /\ \A S \in SUBSET D : h[S] = SumFrom(h, event, S)
  BY <1>3, <1>4 DEF Sums
<1>6. Solves(h)
  BY <1>5
<1>7. Solves(sum)
  <2> HIDE DEF Solves
  <2> QED BY <1>6
<1>8. \A S \in SUBSET D : sum[S] = SumFrom(sum, event, S)
  <2> HIDE DEF sum
  <2> QED BY <1>7
<1> HIDE DEF sum
<1> DEFINE B == {j \in Nat : \E S \in SUBSET D : Cardinality(S) = j /\ sum[S] # h[S]}
<1>9. B = {}
  <2> SUFFICES ASSUME B # {} PROVE FALSE
    OBVIOUS
  <2>1. PICK m \in B : \A j \in B : m <= j
    <3>1. B \in SUBSET Nat
      OBVIOUS
    <3> HIDE DEF B
    <3> QED BY <3>1, LeastNatural
  <2>2. PICK S \in SUBSET D : Cardinality(S) = m /\ sum[S] # h[S]
    BY <2>1
  <2>3. S # {}
    BY <1>5, <1>8, <2>2 DEF SumFrom
  <2> DEFINE R == S \ {Leading(S)}
  <2>4. R \in SUBSET D /\ Cardinality(R) = m - 1 /\ m \in Nat /\ m # 0
    BY <1>2, <2>2, <2>3, WithoutLeading
  <2>5. sum[R] # h[R]
    <3>1. sum[S] = event[Leading(S)] + sum[R] /\ h[S] = event[Leading(S)] + h[R]
      BY <1>5, <1>8, <2>3 DEF SumFrom
    <3> HIDE DEF R
    <3> QED BY <2>2, <3>1
  <2> HIDE DEF R
  <2>6. m - 1 \in B
    BY <2>4, <2>5
  <2>7. m <= m - 1
    BY <2>1, <2>6
  <2> QED BY <2>4, <2>7
<1>10. sum[D] = h[D]
  <2>1. D \in SUBSET D
    OBVIOUS
  <2> QED BY <1>2, <1>9, <2>1
<1> QED BY <1>1, <1>5, <1>10

(* The axis: bars that there are have a lowest and a highest.               *)
LEMMA HighestOfFunction ==
  ASSUME NEW n \in Nat \ {0}, NEW f \in [1 .. n -> Nat]
  PROVE  \E i \in 1 .. n : \A j \in 1 .. n : f[j] <= f[i]
<1> DEFINE Good(k) == \E i \in 1 .. k : \A j \in 1 .. k : f[j] <= f[i]
           T == {k \in 1 .. n : ~ Good(k)}
<1>1. SUFFICES ASSUME T # {} PROVE FALSE
  <2>1. n \in 1 .. n
    OBVIOUS
  <2> QED BY <2>1
<1>2. PICK m \in T : \A k \in T : m <= k
  <2>1. T \in SUBSET Nat
    OBVIOUS
  <2> HIDE DEF T
  <2> QED BY <1>1, <2>1, LeastNatural
<1>3. m \in 1 .. n /\ ~ Good(m)
  BY <1>2
<1>4. m # 1
  BY <1>3
<1>5. m - 1 \in 1 .. n /\ m - 1 \notin T
  <2>1. m - 1 \in 1 .. n /\ ~ (m <= m - 1)
    BY <1>3, <1>4
  <2> QED BY <1>2, <2>1
<1>6. Good(m - 1)
  BY <1>5
<1>7. PICK i \in 1 .. m - 1 : \A j \in 1 .. m - 1 : f[j] <= f[i]
  BY <1>6
<1>8. \A j \in 1 .. m : f[j] \in Nat /\ (j = m \/ f[j] <= f[i])
  <2>1. \A j \in 1 .. m : j \in 1 .. n /\ (j = m \/ j \in 1 .. m - 1)
    BY <1>3
  <2> QED BY <1>7, <2>1
<1>9. i \in 1 .. m /\ m \in 1 .. m
  BY <1>3
<1> DEFINE p == IF f[i] <= f[m] THEN m ELSE i
<1>10. p \in 1 .. m /\ f[p] \in Nat /\ f[i] <= f[p] /\ f[m] <= f[p] /\ f[i] \in Nat
  BY <1>8, <1>9
<1> HIDE DEF p, T, Good
<1>11. ASSUME NEW j \in 1 .. m PROVE f[j] <= f[p]
  BY <1>8, <1>10, SMTT(30)
<1>12. Good(m)
  BY <1>10, <1>11 DEF Good
<1> QED BY <1>3, <1>12

LEMMA HighestExists ==
  ASSUME NEW bars \in Seq(Nat), bars # <<>>
  PROVE  /\ Highest(bars) \in Nat
         /\ \A n \in 1 .. Len(bars) : bars[n] <= Highest(bars)
<1>1. Len(bars) \in Nat /\ Len(bars) # 0 /\ DOMAIN bars = 1 .. Len(bars)
      /\ bars \in [1 .. Len(bars) -> Nat]
      /\ \A i \in 1 .. Len(bars) : bars[i] \in Nat
  BY EmptySeq
<1>2. PICK i \in 1 .. Len(bars) : \A j \in 1 .. Len(bars) : bars[j] <= bars[i]
  BY <1>1, HighestOfFunction
<1>3. bars[i] \in ToSet(bars) /\ \A z \in ToSet(bars) : bars[i] >= z
  BY <1>1, <1>2 DEF ToSet
<1>4. Highest(bars) \in ToSet(bars) /\ \A z \in ToSet(bars) : Highest(bars) >= z
  BY <1>3 DEF Highest
<1> QED BY <1>1, <1>4 DEF ToSet

LEMMA LowestExists ==
  ASSUME NEW bars \in Seq(Nat), bars # <<>>
  PROVE  /\ Lowest(bars) \in Nat
         /\ \A n \in 1 .. Len(bars) : Lowest(bars) <= bars[n]
<1>1. Len(bars) \in Nat /\ Len(bars) # 0 /\ DOMAIN bars = 1 .. Len(bars)
      /\ \A i \in 1 .. Len(bars) : bars[i] \in Nat
  BY EmptySeq
<1>2. ToSet(bars) \in SUBSET Nat /\ ToSet(bars) # {}
  BY <1>1 DEF ToSet
<1>3. PICK y \in ToSet(bars) : \A z \in ToSet(bars) : y <= z
  BY <1>2, LeastNatural
<1>4. Lowest(bars) \in ToSet(bars) /\ \A z \in ToSet(bars) : Lowest(bars) <= z
  BY <1>3 DEF Lowest
<1> QED BY <1>1, <1>2, <1>4 DEF ToSet

(* Every bar is drawn within the axis.                                      *)
LEMMA BarsFit ==
  ASSUME NEW out \in Outputs, NEW n \in 1 .. LastStep(out)
  PROVE  /\ n \in DOMAIN Chart(Bars(out)).y
         /\ Chart(Bars(out)).y[n] = Packets(Event(out, n))
         /\ Chart(Bars(out)).min <= Packets(Event(out, n))
         /\ Packets(Event(out, n)) <= Chart(Bars(out)).max
<1> DEFINE bars == Bars(out)
           m == LastStep(out)
<1>1. out \in Seq(Seq(Nat)) /\ Len(out) \in Nat /\ Len(out) >= 2 /\ m \in Nat /\ m >= 1
  BY ResultsAssumption, SMTT(30) DEF LastStep
<1>2. bars = [k \in 1 .. m |-> Packets(Event(out, k))]
  BY DEF Bars
<1>3. ASSUME NEW k \in 1 .. m PROVE Packets(Event(out, k)) \in Nat
  <2>1. k + 1 \in 1 .. Len(out)
    BY <1>1 DEF LastStep
  <2>2. Event(out, k) \in Seq(Nat)
    BY <1>1, <2>1 DEF Event
  <2> QED BY <2>2, PacketsAreNatural
<1> HIDE DEF m
<1>4. bars \in Seq(Nat) /\ Len(bars) = m /\ bars # <<>>
  <2>1. bars \in [1 .. m -> Nat]
    BY <1>2, <1>3
  <2> HIDE DEF bars
  <2>2. bars \in Seq(Nat)
    BY <1>1, <2>1
  <2>3. DOMAIN bars = 1 .. m
    BY <2>1
  <2>4. Len(bars) = m
    BY <1>1, <2>2, <2>3, LenProperties
  <2>5. bars # <<>>
    BY <1>1, <2>4, EmptySeq
  <2> QED BY <2>2, <2>4, <2>5
<1>5. bars[n] = Packets(Event(out, n)) /\ n \in 1 .. m
  BY <1>2 DEF m
<1> DEFINE lo == Lowest(bars)
           hi == Highest(bars)
           b == bars[n]
<1>6. DOMAIN Chart(bars).y = 1 .. m /\ Chart(bars).y[n] = b
      /\ Chart(bars).min = lo - Margin(bars) /\ Chart(bars).max = hi + Margin(bars)
      /\ Margin(bars) = ((hi - lo) + 5) \div 10
  BY <1>2 DEF Chart, Margin
<1> HIDE DEF bars
<1>7. lo \in Nat /\ hi \in Nat /\ b \in Nat /\ lo <= b /\ b <= hi
  <2>1. b \in Nat
    BY <1>3, <1>5
  <2>2. lo \in Nat /\ lo <= b
    BY <1>4, <1>5, LowestExists
  <2>3. hi \in Nat /\ b <= hi
    BY <1>4, <1>5, HighestExists
  <2> QED BY <2>1, <2>2, <2>3
<1> HIDE DEF lo, hi
<1>8. Margin(bars) \in Nat
  <2>1. (hi - lo) + 5 \in Nat
    BY <1>7
  <2> QED BY <1>6, <2>1
<1> DEFINE a == Margin(bars)
<1>9. lo - a <= b /\ b <= hi + a
  <2> HIDE DEF a, b
  <2>1. a \in Nat
    BY <1>8 DEF a
  <2> QED BY <1>7, <2>1
<1> QED BY <1>5, <1>6, <1>9 DEF bars

(* The inductive invariant.  As long as Run can be clicked nothing is drawn *)
(* yet; that the chart is drawn once is due to Run going with the first     *)
(* output, of which there is one since a run is one conversation.           *)
Displays(out) ==
  /\ stepNumber \in 1 .. LastStep(out)
  /\ layers = Event(out, stepNumber)
  /\ charts = <<Chart(Bars(out))>>

ChartInv ==
  /\ stepNumber \in Int
  /\ button => charts = <<>> /\ ~ menu
  /\ menu => output \in Outputs /\ Displays(output)

LEMMA ChartInit == Init => ChartInv
  BY DEF Init, InitResults, ChartInv

LEMMA ChartStutters ==
  ASSUME ChartInv, UNCHANGED <<output, stepNumber, layers, charts, menu>>,
         button' = button \/ button' = FALSE
  PROVE  ChartInv'
  BY DEF ChartInv, Displays

(* Whichever way it is moved, the playback stays among the events.          *)
LEMMA StepsAreEvents ==
  ASSUME NEW out \in Outputs \cup {<<>>}, NEW n \in Int
  PROVE  /\ Step(out, n) \in Int
         /\ out \in Outputs => Step(out, n) \in 1 .. LastStep(out)
<1>1. LastStep(out) \in Int /\ (out \in Outputs => LastStep(out) >= 1)
  BY ResultsAssumption DEF LastStep
<1> QED BY <1>1 DEF Step

LEMMA OutputIsDrawn ==
  ASSUME ChartInv, button, button' = FALSE, NEW out \in Outputs, OutputResults(out)
  PROVE  ChartInv'
<1>1. stepNumber' \in 1 .. LastStep(out) /\ stepNumber' \in Int /\ layers' = Event(out, stepNumber')
  <2>1. stepNumber + 1 \in Int
    BY DEF ChartInv
  <2>2. Step(out, stepNumber + 1) \in Int /\ Step(out, stepNumber + 1) \in 1 .. LastStep(out)
    BY <2>1, StepsAreEvents
  <2> QED BY <2>2 DEF OutputResults, OutputStep
<1>2. CASE Event(out, 1) = <<>>
  BY <1>1, <1>2 DEF ChartInv, OutputResults
<1>3. CASE Event(out, 1) # <<>>
  <2>1. charts' = <<Chart(Bars(out))>> /\ output' = out
    BY <1>3 DEF ChartInv, OutputResults
  <2> QED BY <1>1, <2>1 DEF ChartInv, Displays
<1> QED BY <1>2, <1>3

LEMMA PlaybackIsDrawn ==
  ASSUME ChartInv, output \in Outputs \cup {<<>>}, PlaybackUnchanged,
         OutputStep(output, -1) \/ OutputStep(output, 1) \/ UNCHANGED <<stepNumber, layers>>
  PROVE  ChartInv'
<1>1. UNCHANGED <<button, output, charts, menu>>
  BY DEF PlaybackUnchanged, requestVars
<1>2. ASSUME NEW d \in {-1, 1}, OutputStep(output, d)
      PROVE  stepNumber' \in Int /\ (output \in Outputs => stepNumber' \in 1 .. LastStep(output))
  <2>1. stepNumber + d \in Int
    BY DEF ChartInv
  <2> DEFINE k == stepNumber + d
  <2> HIDE DEF k
  <2>2. Step(output, k) \in Int /\ (output \in Outputs => Step(output, k) \in 1 .. LastStep(output))
    BY <2>1, StepsAreEvents DEF k
  <2>3. stepNumber' = Step(output, k)
    BY <1>2 DEF OutputStep, k
  <2> QED BY <2>2, <2>3
<1>3. ASSUME NEW d \in {-1, 1}, OutputStep(output, d), menu PROVE Displays(output)'
  <2>1. output \in Outputs /\ stepNumber \in 1 .. LastStep(output) /\ charts = <<Chart(Bars(output))>>
    BY <1>3 DEF ChartInv, Displays
  <2>2. stepNumber' \in 1 .. LastStep(output)
    BY <1>3, <1>2, <2>1
  <2> QED BY <1>1, <1>3, <2>1, <2>2 DEF OutputStep, Displays
<1>4. CASE UNCHANGED <<stepNumber, layers>>
  BY <1>1, <1>4, ChartStutters
<1>5. ASSUME NEW d \in {-1, 1}, OutputStep(output, d) PROVE ChartInv'
  BY <1>1, <1>3, <1>5, <1>2 DEF ChartInv
<1> QED BY <1>4, <1>5

LEMMA ChartNext == OneConversation /\ RequestInv /\ ChartInv /\ [Next]_vars => ChartInv'
<1> SUFFICES ASSUME OneConversation, RequestInv, ChartInv, [Next]_vars PROVE ChartInv'
  OBVIOUS
<1>1. CASE UNCHANGED resultVars
  BY <1>1, ChartStutters DEF resultVars, requestVars, shownVars
<1>2. CASE ClickRun
  BY <1>2, ChartStutters DEF ClickRun, PostRun, shownVars
<1>3. CASE PostDone \/ CheckAgain \/ CheckNotDone \/ CheckFails
  BY <1>3, ChartStutters DEF PostDone, CheckAgain, CheckNotDone, CheckFails, shownVars
<1>4. posts > 0 \/ checks > 0 => button
  BY DEF OneConversation, Pending
<1>5. CASE PostFails
  BY <1>4, <1>5, OutputIsDrawn, ResultsAssumption DEF PostFails
<1>6. ASSUME NEW out \in Outputs, CheckDone(out) PROVE ChartInv'
  BY <1>4, <1>6, OutputIsDrawn DEF CheckDone
<1>7. CASE Prev \/ NextStep \/ Play \/ Tick
  BY <1>7, PlaybackIsDrawn DEF RequestInv, Prev, NextStep, Play, Tick
<1>8. CASE ViewStats \/ CloseStats \/ Frame
  BY <1>8, ChartStutters DEF ViewStats, CloseStats, Frame, requestVars, shownVars
<1> QED BY <1>1, <1>2, <1>3, <1>5, <1>6, <1>7, <1>8 DEF Next, Results, Answers, Playback, vars

(* The bar of the step that the globe shows is the packets of its paths,    *)
(* and is drawn within the axis of the one chart there is (getData,         *)
(* makeCharts, outputStep).                                                 *)
THEOREM ChartIsOfGlobe == Spec => []ChartMatchesGlobe
<1>1. ASSUME ChartInv PROVE ChartMatchesGlobe
  <2> SUFFICES ASSUME menu PROVE ChartMatchesGlobe
    BY DEF ChartMatchesGlobe
  <2>1. output \in Outputs /\ Displays(output)
    BY <1>1 DEF ChartInv
  <2>2. /\ stepNumber \in 1 .. LastStep(output) /\ Packets(layers) = Packets(Event(output, stepNumber))
        /\ Len(charts) = 1 /\ charts[1] = Chart(Bars(output))
    BY <2>1 DEF Displays
  <2> QED BY <2>1, <2>2, BarsFit DEF ChartMatchesGlobe
<1>2. Init => OneConversation
  BY ConversationInit
<1>3. OneConversation /\ [Next]_vars => OneConversation'
  BY ConversationStep
<1> QED BY <1>1, <1>2, <1>3, RequestInit, RequestNext, ChartInit, ChartNext, PTL DEF Spec
=============================================================================
