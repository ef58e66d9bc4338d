----------------------------- MODULE UdpSender -----------------------------
(***************************************************************************)
(* #runUdpSender of packages/netsu, client and server, with the receiver:  *)
(* the probe for the length of the datagrams (UdpProbe), then the loop of  *)
(* gate() (Pacer) and send() (UdpTransfer).  The test may end at any time, *)
(* also while the probe still runs.  A byte takes one unit of time.        *)
(***************************************************************************)
EXTENDS UdpProbe, UdpTransfer

vars == <<probeVars, pacerVars, transferVars>>

Init == ProbeInit /\ PacerInit /\ TransferInit

Probing == ProbeNext /\ UNCHANGED <<pacerVars, transferVars>>

\* The probe has returned a length.  One that could not run returns what was asked for.
Start ==
    /\ probe \in {"done", "untested"} /\ result # Unavailable
    /\ Begin(result)
    /\ UNCHANGED <<probeVars, transferVars>>

\* The probe says that no datagram can be sent: the stream counts as failed.
GiveUp ==
    /\ probe = "done" /\ result = Unavailable
    /\ Refuse
    /\ UNCHANGED <<probeVars, transferVars>>

Transfer == TransferNext /\ UNCHANGED probeVars

Next == Probing \/ Start \/ GiveUp \/ Transfer

Spec == Init /\ [][Next]_vars
=============================================================================
