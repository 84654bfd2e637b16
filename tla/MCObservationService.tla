------------------------ MODULE MCObservationService ------------------------
(* ObservationService for TLC.                                             *)
EXTENDS ObservationService

CONSTANTS e1, c1, loc, t1, t2

MCKeyOrder == <<e1, loc, c1>>
MCTransportOrder == <<t1, t2>>

=============================================================================
