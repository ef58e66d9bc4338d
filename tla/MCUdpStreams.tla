---------------------------- MODULE MCUdpStreams ----------------------------
(* Two clients after each other, sessions of two or three UDP streams.      *)
EXTENDS UdpStreams
=============================================================================
