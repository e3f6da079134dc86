-------------------------- MODULE MCBackendLifecycle --------------------------
(* BackendLifecycle with the constants of the model-checking runs.         *)
EXTENDS BackendLifecycle

MCStreams == {"capture", "playback"}
=============================================================================
