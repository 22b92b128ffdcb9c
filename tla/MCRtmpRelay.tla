---------------------------- MODULE MCRtmpRelay ----------------------------
(* Instances of RtmpRelay for TLC.                                          *)
EXTENDS RtmpRelay, TLC

Symmetry == Permutations(Client)
=============================================================================
