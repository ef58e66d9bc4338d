--------------------------- MODULE MCChannelTest ---------------------------
(* A small instance of ChannelTest for TLC: one stream carries a chunk; the *)
(* end marker is all there is of any other.                                 *)
EXTENDS ChannelTest

OneChunk == [i \in Streams |-> IF i = 1 THEN Chunk ELSE 0]
=============================================================================
