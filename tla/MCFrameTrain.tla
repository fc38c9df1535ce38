---------------------------- MODULE MCFrameTrain ----------------------------
(* Two receivers, so that a container ends for another one; one training
   field, so that the frame comes later than its preamble alone tells.      *)
EXTENDS FrameTrain
=============================================================================
