----------------------------- MODULE MCDstScript -----------------------------
(* Instances of DstScript for TLC. *)
EXTENDS DstScript

CONSTANTS s1, s2
=============================================================================
