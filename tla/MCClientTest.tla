----------------------------- MODULE MCClientTest -----------------------------
(* Both directions and both kinds of channel, with a small high-water mark.    *)
EXTENDS ClientTest
=============================================================================
