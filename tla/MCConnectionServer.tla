------------------------- MODULE MCConnectionServer -------------------------
(* Instances of ConnectionServer for TLC.                                   *)
EXTENDS ConnectionServer

CONSTANTS w1, w2
=============================================================================
