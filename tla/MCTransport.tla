---------------------------- MODULE MCTransport ----------------------------
(* Two parts of the transports of packages/netsu that share no state, on     *)
(* small instances.  A UDP sender: every request and every ceiling up to a   *)
(* small maximal length, and a few datagrams of one of these senders, with   *)
(* stalls beyond the burst cap.  A byte pipe: a few bytes in chunks of every *)
(* size, empty ones included.                                                *)
EXTENDS UdpSender, BytePipe

CONSTANTS
    SendRequest,    \* the loop is explored for this request only
    SendCeiling     \* and on a steady host with this ceiling

TransportInit == Init /\ PipeInit

\* Neither reads or writes what the other does, so each is explored while the other
\* rests, the pipe beside one of the calls of the probe.
TransportNext ==
    \/ PipeInit /\ Next /\ UNCHANGED pipeVars
    \/ /\ Init /\ requested = SendRequest /\ steady /\ ceiling = SendCeiling
       /\ PipeNext /\ UNCHANGED vars

TransportSpec == TransportInit /\ [][TransportNext]_<<vars, pipeVars>>

\* The loop of one host.  Time matters only to a sender with a rate, of which at most one
\* datagram at a time is under way; all the ways in which sends and arrivals mix are left
\* to a sender without.
Bounds ==
    /\ pc # "probing" /\ result # Unavailable =>
         requested = SendRequest /\ steady /\ ceiling = SendCeiling /\ result = SendCeiling
    /\ IF limited THEN Len(sends) + Cardinality(wire) <= 1 ELSE now = 0
=============================================================================
