------------------------ MODULE MCRecordingTransport ------------------------
(* RecordingTransport with the constants of the model-checking runs.       *)
EXTENDS RecordingTransport

MCRates == {44, 48}
MCSeqMod == 2^16
=============================================================================
