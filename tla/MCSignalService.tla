--------------------------- MODULE MCSignalService ---------------------------
(***************************************************************************)
(* The first file holds a good signal, one the domain check refuses and    *)
(* one the risk gate refuses; the second file is invalid.                  *)
(***************************************************************************)
EXTENDS SignalService

MCSignals     == {"good", "short", "poor"}
MCSignalIds   == {"i1", "i2"}
MCIdOf        == [s \in MCSignals |-> IF s = "good" THEN "i1" ELSE "i2"]
MCContent     == <<<<"good", "short", "poor">>, <<>>>>
MCRunModes    == {"live"}
MCDomainBad   == {"short"}
MCRiskRefused == {"poor"}
=============================================================================
