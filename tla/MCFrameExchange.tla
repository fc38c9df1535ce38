--------------------------- MODULE MCFrameExchange ---------------------------
(* Model checking of FrameExchange between two stations.  The times keep   *)
(* the order of the configuration: SIFS (16 us) < preamble of the reply    *)
(* (36 us) < timeout (46 us) < end of the reply (60 us), and SIFS < PSDU   *)
(* of the reply (24 us).                                                   *)
EXTENDS FrameExchange

ShortThenLong  == [n \in MSDUs |-> IF n = 1 THEN "short" ELSE "long"]
ShortThenEqual == [n \in MSDUs |-> IF n = 1 THEN "short" ELSE "equal"]
(* One station sends as much as allowed, the other one MSDU.               *)
First    == CHOOSE s \in Stations : TRUE
OneBack  == [s \in Stations |-> IF s = First THEN MaxFrames ELSE 1]

=============================================================================
