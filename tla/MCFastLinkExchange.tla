------------------------- MODULE MCFastLinkExchange -------------------------
(* Two stations with two antennas each that exchange frames, and a foreign
   station both may hear.  The second training field may be missed, and two
   streams are worth it at the better SINR only.                            *)
EXTENDS FastLinkExchange, TLC

MCSymmetry == Permutations(Stations)
MCAntennas == [s \in Stations |-> 2]
MCTrainings == {[k \in 1..n |-> 1] : n \in 1..2}
MCModeFor == [m \in (1..2) \X {1, 2} \X {1} |->
                IF m[1] = 1 THEN m[2] ELSE IF m[2] = 1 THEN Slowest ELSE 3]
=============================================================================
