---------------------------- MODULE RoomContract ----------------------------
(***************************************************************************)
(* What a signaling room promises its users: it is created once and closed *)
(* once, each role has at most one holder at a time, and one offer and then*)
(* one answer are relayed, each to a holder of the other role.             *)
(***************************************************************************)
CONSTANTS Sockets, NoSocket

VARIABLES phase, holder, negotiation

vars == <<phase, holder, negotiation>>

Roles == {"listener", "joiner"}
Nobody == [r \in Roles |-> NoSocket]

Init == phase = "none" /\ holder = Nobody /\ negotiation = "idle"

Create ==
    /\ phase = "none"
    /\ phase' = "open"
    /\ UNCHANGED <<holder, negotiation>>

\* A socket takes a free role and gives up the one it held, if any.
Hold(role, s) ==
    /\ phase = "open"
    /\ holder[role] = NoSocket
    /\ holder' = [r \in Roles |-> IF r = role THEN s
                                  ELSE IF holder[r] = s THEN NoSocket ELSE holder[r]]
    /\ UNCHANGED <<phase, negotiation>>

Release(R) ==
    /\ phase = "open"
    /\ holder' = [r \in Roles |-> IF r \in R THEN NoSocket ELSE holder[r]]
    /\ UNCHANGED <<phase, negotiation>>

Offer ==
    /\ phase = "open" /\ negotiation = "idle" /\ holder["listener"] # NoSocket
    /\ negotiation' = "offered"
    /\ UNCHANGED <<phase, holder>>

Answer ==
    /\ phase = "open" /\ negotiation = "offered" /\ holder["joiner"] # NoSocket
    /\ negotiation' = "answered"
    /\ UNCHANGED <<phase, holder>>

Close ==
    /\ phase = "open"
    /\ phase' = "closed"
    /\ holder' = Nobody
    /\ UNCHANGED negotiation

Next ==
    \/ Create \/ Offer \/ Answer \/ Close
    \/ \E r \in Roles, s \in Sockets : Hold(r, s)
    \/ \E R \in SUBSET Roles : Release(R)

Spec == Init /\ [][Next]_vars
=============================================================================
