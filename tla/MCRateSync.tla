----------------------------- MODULE MCRateSync -----------------------------
(* RateSync with the constants of the model-checking runs.                 *)
EXTENDS RateSync

MCRates == {44, 48}
=============================================================================
