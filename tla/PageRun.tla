------------------------------- MODULE PageRun -------------------------------
(***************************************************************************)
(* What the page promises of a run: one conversation with the server at a  *)
(* time, the spinner on exactly as long as it lasts, and one output, after *)
(* which there is no other run.  Only a check without an answer leads back *)
(* to the start.                                                           *)
(***************************************************************************)
EXTENDS Naturals

VARIABLES phase, spinner, results

Init == phase = "idle" /\ spinner = FALSE /\ results = 0

Turn(from, to) == phase = from /\ phase' = to

Talks(from, to) == Turn(from, to) /\ spinner' = TRUE /\ UNCHANGED results
Shows(from) == Turn(from, "done") /\ spinner' = FALSE /\ results' = results + 1
GivesUp == Turn("checking", "idle") /\ spinner' = FALSE /\ UNCHANGED results

Next ==
  \/ Talks("idle", "posting")
  \/ Talks("posting", "checking")
  \/ Talks("checking", "waiting")
  \/ Talks("waiting", "checking")
  \/ Shows("posting")
  \/ Shows("checking")
  \/ GivesUp

Spec == Init /\ [][Next]_<<phase, spinner, results>>
=============================================================================
