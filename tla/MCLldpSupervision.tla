--------------------------- MODULE MCLldpSupervision ---------------------------
(* LldpSupervision in units of the 10 s supervision period.                *)
EXTENDS LldpSupervision
=============================================================================
