----------------------- MODULE MCObservationModelEngine -----------------------
(* ObservationModelEngine with each local IP under the given prefixes.     *)
EXTENDS ObservationModelEngine, TLC

CONSTANTS LocalIps, Prefixes

MCCidrs == LocalIps \X Prefixes
MCSymmetry == Permutations(Ifaces) \cup Permutations(Ports) \cup Permutations(LldpIds)
=============================================================================
