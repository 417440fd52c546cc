------------------------------ MODULE MCWebPage ------------------------------
(* Texts, names and outputs for TLC.                                        *)
EXTENDS WebPage

MCTyped ==
  [numRings |-> {Number(25)}, numSatellitesPerRing |-> {Word},
   inclination |-> {Number(3600)}, orbitalPeriod |-> {Number(955)},
   lat |-> {Empty}, lon |-> {Number(1801)},
   timeScale |-> {Number(0)}, duration |-> {Empty}, interval |-> {Number(5)}]

MCBases == {"Ottawa", "Toronto", "London", "Custom", ""}

MCTypedNames == {Name("Ottawa"), Name("Custom"), Suffixed(Name("Custom"), 2), Name("")}

MCTestOutput == << <<>>, <<1, 2>>, <<2, 0>>, <<4, 9>> >>

(* With paths, without any, and without a step to go to.                    *)
MCOutputs == {MCTestOutput, << <<0>>, <<2>> >>, << <<>>, <<>>, <<>> >>}
=============================================================================
