-------------------------- MODULE MCRecordingSession --------------------------
(* RecordingSession with one rate on a stopped clock, so that every name  *)
(* but the first collides.                                                 *)
EXTENDS RecordingSession

MCRates == {1}
MCTimes == {0}
MCBlockSizes == {1, 2}
=============================================================================
