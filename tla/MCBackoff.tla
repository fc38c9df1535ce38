------------------------------ MODULE MCBackoff ------------------------------
(* Model checking of Backoff with times of a few ticks in the order of the *)
(* standard (1 us < slot < AIFS < EIFS) and a window that is doubled,      *)
(* doubled and cut off.                                                    *)
EXTENDS Backoff

(* The loop of transmissionRequest computes what the standard says of the  *)
(* window: one less than CwMin + 1 doubled for every retransmission, cut   *)
(* off at the maximum.                                                     *)
ASSUME WindowDoubles ==
    \A n \in 1..MaxTransmissions :
        Window[n] = Least((CwMin + 1) * 2 ^ (n - 1) - 1, CwMax)

=============================================================================
