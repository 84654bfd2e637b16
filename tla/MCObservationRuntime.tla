------------------------ MODULE MCObservationRuntime ------------------------
(* ObservationRuntime on a small instance. *)
EXTENDS ObservationRuntime
=============================================================================
