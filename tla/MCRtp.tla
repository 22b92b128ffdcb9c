------------------------------- MODULE MCRtp -------------------------------
(* Frames that fit a packet, fill it, and need two, the second one not full; a  *)
(* NAL type the receiver skips; and a single byte, which it refuses.            *)
EXTENDS Rtp

MCFrame == [len : {2, 4}, type : {"known"}] \union [len : {1, 2}, type : {"other"}]
=============================================================================
