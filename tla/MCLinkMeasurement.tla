------------------------- MODULE MCLinkMeasurement -------------------------
(* Two stations whose beacons are half an interval apart.                   *)
EXTENDS LinkMeasurement

CONSTANTS a, b

MCOffset == [s \in {a, b} |-> IF s = a THEN 0 ELSE 1]
=============================================================================
