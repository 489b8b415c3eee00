---------------------------- MODULE MCContentHash ----------------------------
(* Instances of ContentHash for TLC.                                       *)
EXTENDS ContentHash

CONSTANTS u1, u2, u3, s1, s2
=============================================================================
