--------------------------- MODULE MCSignalingHub ---------------------------
(* Instances of SignalingHub for TLC: see the .cfg files. *)
EXTENDS SignalingHub
=============================================================================
