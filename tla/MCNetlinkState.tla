--------------------------- MODULE MCNetlinkState ---------------------------
(* NetlinkState for TLC: indexes, names, MACs and bridge tables are        *)
(* interchangeable.                                                        *)
EXTENDS NetlinkState, TLC

MCFdbBits == {[local |-> FALSE, permanent |-> FALSE],
              [local |-> TRUE,  permanent |-> TRUE]}

MCSymmetry == Permutations(Indexes) \cup Permutations(Names)
              \cup Permutations(Macs) \cup Permutations(Fdbs)

=============================================================================
