--------------------------- MODULE MCOrderExecutor ---------------------------
(***************************************************************************)
(* Three order ids under two signal ids: s1 and s2 carry the same          *)
(* signal_id with different contents.                                      *)
(***************************************************************************)
EXTENDS OrderExecutor

MCSignals   == {"s1", "s2", "s3"}
MCSignalIds == {"i1", "i2"}
MCRunModes  == {"offline", "paper"}
MCIdOf      == [s \in MCSignals |-> IF s = "s3" THEN "i2" ELSE "i1"]
=============================================================================
