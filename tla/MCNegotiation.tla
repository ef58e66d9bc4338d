--------------------------- MODULE MCNegotiation ---------------------------
(* A small instance of Negotiation for TLC. *)
EXTENDS Negotiation
=============================================================================
