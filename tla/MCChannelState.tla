--------------------------- MODULE MCChannelState ---------------------------
(* Model checking of ChannelState with one or two peers and short times.   *)
EXTENDS ChannelState

(* Reservations of no length, shorter than, equal to and longer than SIFS. *)
MCDurations == 0..4

=============================================================================
