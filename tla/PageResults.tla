----------------------------- MODULE PageResults -----------------------------
(***************************************************************************)
(* The rest of the page: script.js from the animation on and WebService:   *)
(* the run that is posted, the checks that wait for it, the output that is *)
(* shown, its playback and its charts.  Requests, timers and frames are    *)
(* counted while they are pending; their callbacks are the actions.        *)
(***************************************************************************)
EXTENDS Integers, Sequences, SequencesExt

CONSTANTS
  Outputs,      (* outputs that the server may answer with                   *)
  TestOutput,   (* the output built into the page                            *)
  Patience,     (* seconds of checks before they get rarer; 300 in the code  *)
  MayFail       (* requests may fail                                         *)

(* An output is its events in order, an event the packet count of each of   *)
(* its paths.  An event is output before the first path is known and one    *)
(* when the run is over, so there are two (Manager.run).  A run with one    *)
(* ground station has no paths at all.                                      *)
ASSUME ResultsAssumption ==
  /\ \A out \in Outputs : out \in Seq(Seq(Nat)) /\ Len(out) >= 2
  /\ TestOutput \in Outputs /\ TestOutput[2] # <<>>
  /\ Patience \in Nat
  /\ MayFail \in BOOLEAN

VARIABLES
  button,       (* #button-run is there                                      *)
  loading,      (* the flag and the spinner of webservice.js                 *)
  posts, checks, timers,   (* requests and timeouts pending                  *)
  wait, waited, (* timeBetweenChecksInSeconds, totalTimeWaitingInSeconds     *)
  failed,       (* how often "failed" was appended to the title              *)
  output,       (* output, <<>> while undefined                              *)
  stepNumber,
  layers,       (* the event in the layers of the globe, <<>> while they     *)
                (* hold the configured constellation                         *)
  charts,       (* the bars of #stats                                        *)
  menu,         (* the simulation menu is expanded                           *)
  statsOpen,
  playing, interval, tickers, (* the playback: flag, intervalID is set,      *)
                              (* intervals that are not cleared              *)
  go, frames,   (* the animation: flag, frames requested                     *)
  results       (* history: how often an output was shown                    *)

requestVars == <<button, loading, posts, checks, timers, wait, waited, failed>>
shownVars == <<output, stepNumber, layers, charts, menu, results>>
playVars == <<playing, interval, tickers>>
resultVars == <<requestVars, shownVars, statsOpen, playVars, go, frames>>

InitResults ==
  /\ button = TRUE /\ loading = FALSE
  /\ posts = 0 /\ checks = 0 /\ timers = 0
  /\ wait = 10 /\ waited = -10 /\ failed = 0
  /\ output = <<>> /\ stepNumber = 0 /\ layers = <<>> /\ charts = <<>>
  /\ menu = FALSE /\ statsOpen = FALSE
  /\ playing = FALSE /\ interval = FALSE /\ tickers = 0
  /\ go = TRUE /\ frames = 1 /\ results = 0

-----------------------------------------------------------------------------
(* Seeded fault: the next frame is asked for in any case. *)
FrameAlways ==
  /\ frames > 0
  /\ UNCHANGED resultVars

(* The frame moves the satellites and asks for the next one.                *)
Frame ==
  /\ frames > 0
  /\ frames' = IF go THEN frames ELSE frames - 1
  /\ UNCHANGED <<requestVars, shownVars, statsOpen, playVars, go>>

-----------------------------------------------------------------------------
(* events[n] of JavaScript, which counts from 0.                            *)
Event(out, n) == out[n + 1]
LastStep(out) == Len(out) - 1

(* outputStep: round and round from 1 to the last event.                    *)
Step(out, n) == IF n > LastStep(out) THEN 1 ELSE IF n < 1 THEN LastStep(out) ELSE n

OutputStep(out, increment) ==
  /\ stepNumber' = Step(out, stepNumber + increment)
  /\ layers' = Event(out, stepNumber')

(* getData: a bar per event from 1 on, the sum over the paths of the event. *)
Packets(event) == FoldSeq(LAMBDA n, sum : n + sum, 0, event)

(* Seeded fault: the bars begin with event 0. *)
BarsFromFirst(out) == [n \in 1 .. Len(out) |-> Packets(out[n])]

Bars(out) == [n \in 1 .. LastStep(out) |-> Packets(Event(out, n))]

(* makeCharts: the ends of the axis, a tenth of the spread beyond the bars. *)
Lowest(bars) == CHOOSE y \in ToSet(bars) : \A z \in ToSet(bars) : y <= z
Highest(bars) == CHOOSE y \in ToSet(bars) : \A z \in ToSet(bars) : y >= z
Margin(bars) == (Highest(bars) - Lowest(bars) + 5) \div 10

Chart(bars) ==
  [y |-> bars, min |-> Lowest(bars) - Margin(bars), max |-> Highest(bars) + Margin(bars)]

(* outputResults.  getData throws on an event without paths; the menu then  *)
(* stays as it is.                                                          *)
OutputResults(out) ==
  /\ go' = FALSE
  /\ output' = out
  /\ results' = results + 1
  /\ OutputStep(out, 1)
  /\ IF Event(out, 1) = <<>>
     THEN UNCHANGED <<charts, menu>>
     ELSE charts' = Append(charts, Chart(Bars(out))) /\ menu' = TRUE

-----------------------------------------------------------------------------
(* Seeded fault: postWithData does not look at loading. *)
PostRunAlways ==
  /\ button
  /\ loading' = TRUE /\ posts' = posts + 1
  /\ UNCHANGED <<button, checks, timers, wait, waited, failed,
                 shownVars, statsOpen, playVars, go, frames>>

(* A click on Run that posts, as long as nothing is loading.                *)
PostRun ==
  /\ button
  /\ IF loading THEN UNCHANGED <<loading, posts>>
                ELSE loading' = TRUE /\ posts' = posts + 1
  /\ UNCHANGED <<button, checks, timers, wait, waited, failed,
                 shownVars, statsOpen, playVars, go, frames>>

(* waitForSimulationToFinish: the next check is sent.  What has been waited *)
(* only matters up to Patience.                                             *)
WaitForSimulationToFinish ==
  /\ waited' = IF waited > Patience THEN waited ELSE waited + wait
  /\ wait' = IF waited + wait > Patience THEN 60 ELSE wait
  /\ loading' = TRUE
  /\ checks' = checks + 1

(* The server has taken the post.                                           *)
PostDone ==
  /\ posts > 0
  /\ posts' = posts - 1
  /\ WaitForSimulationToFinish
  /\ UNCHANGED <<button, timers, failed, shownVars, statsOpen, playVars, go, frames>>

(* It has not: the page shows what it has.                                  *)
PostFails ==
  /\ MayFail
  /\ posts > 0
  /\ posts' = posts - 1
  /\ loading' = FALSE
  /\ button' = FALSE
  /\ OutputResults(TestOutput)
  /\ failed' = failed + 1
  /\ UNCHANGED <<checks, timers, wait, waited, statsOpen, playVars, frames>>

(* Seeded fault: the button stays. *)
CheckDoneButtonStays(out) ==
  /\ checks > 0
  /\ checks' = checks - 1
  /\ loading' = FALSE
  /\ OutputResults(out)
  /\ UNCHANGED <<button, posts, timers, wait, waited, failed, statsOpen, playVars, frames>>

CheckDone(out) ==
  /\ checks > 0
  /\ checks' = checks - 1
  /\ loading' = FALSE
  /\ button' = FALSE
  /\ OutputResults(out)
  /\ UNCHANGED <<posts, timers, wait, waited, failed, statsOpen, playVars, frames>>

CheckNotDone ==
  /\ checks > 0
  /\ checks' = checks - 1
  /\ loading' = TRUE
  /\ timers' = timers + 1
  /\ UNCHANGED <<button, posts, wait, waited, failed, shownVars, statsOpen, playVars, go, frames>>

(* Seeded fault: the spinner is left on. *)
CheckFailsLoading ==
  /\ MayFail
  /\ checks > 0
  /\ checks' = checks - 1
  /\ UNCHANGED <<button, loading, posts, timers, wait, waited, failed,
                 shownVars, statsOpen, playVars, go, frames>>

(* Nobody asks any more.                                                    *)
CheckFails ==
  /\ MayFail
  /\ checks > 0
  /\ checks' = checks - 1
  /\ loading' = FALSE
  /\ UNCHANGED <<button, posts, timers, wait, waited, failed,
                 shownVars, statsOpen, playVars, go, frames>>

CheckAgain ==
  /\ timers > 0
  /\ timers' = timers - 1
  /\ WaitForSimulationToFinish
  /\ UNCHANGED <<button, posts, failed, shownVars, statsOpen, playVars, go, frames>>

-----------------------------------------------------------------------------
(* The result buttons show when the output does.                            *)
Shown == output # <<>>

PlaybackUnchanged == UNCHANGED <<requestVars, output, charts, menu, results, go, frames>>

(* Seeded fault: the interval is forgotten, not cleared. *)
StopPlayingForgets ==
  /\ statsOpen' = FALSE
  /\ playing' = FALSE /\ interval' = FALSE
  /\ UNCHANGED tickers

StopPlaying ==
  /\ statsOpen' = FALSE
  /\ playing' = FALSE
  /\ interval' = FALSE
  /\ tickers' = IF interval THEN tickers - 1 ELSE tickers

Prev == Shown /\ StopPlaying /\ OutputStep(output, -1) /\ PlaybackUnchanged

NextStep == Shown /\ StopPlaying /\ OutputStep(output, 1) /\ PlaybackUnchanged

Play ==
  /\ Shown
  /\ IF playing
     THEN StopPlaying
     ELSE /\ statsOpen' = FALSE
          /\ playing' = TRUE
          /\ interval' = TRUE
          /\ tickers' = IF interval THEN tickers ELSE tickers + 1
  /\ PlaybackUnchanged
  /\ UNCHANGED <<stepNumber, layers>>

Tick ==
  /\ tickers > 0
  /\ OutputStep(output, 1)
  /\ PlaybackUnchanged
  /\ UNCHANGED <<statsOpen, playVars>>

ViewStats ==
  /\ menu
  /\ statsOpen' = TRUE
  /\ UNCHANGED <<requestVars, shownVars, playVars, go, frames>>

CloseStats ==
  /\ statsOpen
  /\ statsOpen' = FALSE
  /\ UNCHANGED <<requestVars, shownVars, playVars, go, frames>>

Answers ==
  \/ PostDone \/ PostFails \/ CheckNotDone \/ CheckFails \/ CheckAgain
  \/ \E out \in Outputs : CheckDone(out)

Playback == Prev \/ NextStep \/ Play \/ Tick \/ ViewStats \/ CloseStats

(* What happens without the configuration taking part.                      *)
Results == Answers \/ Playback \/ Frame
=============================================================================
