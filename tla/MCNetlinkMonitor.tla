-------------------------- MODULE MCNetlinkMonitor --------------------------
(* NetlinkMonitor for TLC: the values of a fact are interchangeable.       *)
EXTENDS NetlinkMonitor
=============================================================================
