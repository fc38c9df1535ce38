----------------------- MODULE MCFrameSynchronization -----------------------
(* Model checking of FrameSynchronization: three overlapping transmitters, *)
(* frames of different lengths, and a level of the SINR on each side of    *)
(* every threshold.                                                        *)
EXTENDS FrameSynchronization, TLC

MCSinrs == 0..4
Symmetry == Permutations(Peers)

=============================================================================
