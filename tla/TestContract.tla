---------------------------- MODULE TestContract ----------------------------
(***************************************************************************)
(* What a netsu server promises of its single test slot: one control       *)
(* connection holds it at a time; data connections join while the test is  *)
(* being set up, and only those of the holder's client; a test is set up,  *)
(* run and reported in that order; it may be given up at any time.         *)
(***************************************************************************)
CONSTANTS Conns, None

VARIABLES holder, phase, members

vars == <<holder, phase, members>>

Init == holder = None /\ phase = "idle" /\ members = {}

Begin(k) ==
    /\ holder = None
    /\ holder' = k
    /\ phase' = "setup"
    /\ members' = {}

\* The connection that completes the set starts the test.
Join(k) ==
    /\ phase \in {"setup", "failing"}
    /\ k[1] = holder[1] /\ k # holder /\ k \notin members
    /\ members' = members \cup {k}
    /\ phase' = phase \/ (phase = "setup" /\ phase' = "running")
    /\ UNCHANGED holder

Report ==
    /\ phase = "running"
    /\ phase' = "reporting"
    /\ UNCHANGED <<holder, members>>

GiveUp ==
    /\ phase \in {"setup", "running", "reporting"}
    /\ phase' = "failing"
    /\ UNCHANGED <<holder, members>>

\* The slot is given back by a test that was reported or given up, with all its
\* connections.
Release ==
    /\ phase \in {"reporting", "failing"}
    /\ holder' = None
    /\ phase' = "idle"
    /\ members' = {}

Next ==
    \/ \E k \in Conns : Begin(k) \/ Join(k)
    \/ Report
    \/ GiveUp
    \/ Release

Spec == Init /\ [][Next]_vars
=============================================================================
