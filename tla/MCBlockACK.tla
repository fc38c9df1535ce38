----------------------------- MODULE MCBlockACK -----------------------------
(* Model checking of BlockACK with two receivers and a window that three   *)
(* short MSDUs, or a short and a long one, fill.                           *)
EXTENDS BlockACK

CONSTANTS r1, r2

(* Three MSDUs in a row, one of them long, then one for the other.         *)
MCTo   == [n \in MSDUs |-> IF n = 4 THEN r2 ELSE r1]
MCSize == [n \in MSDUs |-> IF n = 3 THEN 2 ELSE 1]

=============================================================================
