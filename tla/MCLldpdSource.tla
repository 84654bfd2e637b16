--------------------------- MODULE MCLldpdSource ---------------------------
(* One interface with two neighbours that come and go.  The neighbours are *)
(* interchangeable.                                                         *)
EXTENDS LldpdSource, TLC

PeerSymmetry == Permutations(Peers)

=============================================================================
