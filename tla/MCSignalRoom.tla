---------------------------- MODULE MCSignalRoom ----------------------------
(* A small instance of SignalRoom for TLC. *)
EXTENDS SignalRoom
=============================================================================
