------------------------------ MODULE UdpProbe ------------------------------
(***************************************************************************)
(* probeMaxUdpSendLen of packages/netsu: before it sends, a UDP sender     *)
(* looks for the largest datagram that this host lets it send, by a binary *)
(* search with real sends on a private socket.  Every step is what runs    *)
(* until the next send reports back.  On a steady host the sends that      *)
(* succeed are those up to ceiling; on another one any send may fail.      *)
(***************************************************************************)
EXTENDS Integers

CONSTANTS
    HeaderSize,    \* UDP_HEADER_SIZE
    MaxLen         \* MAX_LEN, the bound on requested

ASSUME ProbeAssumption ==
    /\ HeaderSize \in Nat \ {0} /\ MaxLen \in Nat /\ HeaderSize <= MaxLen

VARIABLES
    requested,  \* the argument
    steady,     \* whether the sends that succeed are those up to ceiling
    ceiling,    \* the largest datagram a steady host sends
    probe,      \* the await that probeMaxUdpSendLen is at, or "done"
    lo, hi,     \* the bounds of the search
    result,     \* what it returned
    confirmed   \* the lengths of the sends that succeeded

probeVars == <<requested, steady, ceiling, probe, lo, hi, result, confirmed>>

\* UDP_SEND_UNAVAILABLE; no length is negative.
Unavailable == -1

ProbeInit ==
    /\ requested \in 0..MaxLen
    /\ steady \in BOOLEAN /\ ceiling \in 0..(MaxLen + 1)
    /\ probe = "called"
    /\ lo = 0 /\ hi = 0 /\ result = 0
    /\ confirmed = {}

Return(r) == probe' = "done" /\ result' = r

\* canSend(n) resolves with ok.
CanSend(n, ok) ==
    /\ ok \in BOOLEAN
    /\ steady => ok = (n <= ceiling)
    /\ confirmed' = IF ok THEN confirmed \cup {n} ELSE confirmed

\* The checks before the first await.
Call ==
    /\ probe = "called"
    /\ \/ requested < HeaderSize /\ Return(Unavailable)
       \/ requested = HeaderSize /\ Return(HeaderSize)
       \/ requested > HeaderSize /\ probe' = "setup" /\ result' = result
    /\ UNCHANGED <<requested, steady, ceiling, lo, hi, confirmed>>

\* The private socket is bound and connected to itself, or that fails.
Setup ==
    /\ probe = "setup"
    /\ \/ probe' = "whole" /\ result' = result
       \/ probe' = "untested" /\ result' = requested
    /\ UNCHANGED <<requested, steady, ceiling, lo, hi, confirmed>>

TryWhole ==
    /\ probe = "whole"
    /\ \E ok \in BOOLEAN :
         /\ CanSend(requested, ok)
         /\ IF ok THEN Return(requested) ELSE probe' = "floor" /\ result' = result
    /\ UNCHANGED <<requested, steady, ceiling, lo, hi>>

TryFloor ==
    /\ probe = "floor"
    /\ \E ok \in BOOLEAN :
         /\ CanSend(HeaderSize, ok)
         /\ IF ok THEN probe' = "search" /\ lo' = HeaderSize /\ hi' = requested /\ result' = result
                  ELSE Return(Unavailable) /\ UNCHANGED <<lo, hi>>
    /\ UNCHANGED <<requested, steady, ceiling>>

\* Mutant: the loop ends a step early.
SearchedEarly ==
    /\ probe = "search" /\ hi - lo <= 2
    /\ Return(lo)
    /\ UNCHANGED <<requested, steady, ceiling, lo, hi, confirmed>>

\* One round of the loop.
Halve ==
    /\ probe = "search" /\ hi - lo > 1
    /\ LET mid == (lo + hi) \div 2 IN
       \E ok \in BOOLEAN :
         /\ CanSend(mid, ok)
         /\ IF ok THEN lo' = mid /\ hi' = hi ELSE lo' = lo /\ hi' = mid
    /\ UNCHANGED <<requested, steady, ceiling, probe, result>>

Searched ==
    /\ probe = "search" /\ hi - lo <= 1
    /\ Return(lo)
    /\ UNCHANGED <<requested, steady, ceiling, lo, hi, confirmed>>

ProbeNext == Call \/ Setup \/ TryWhole \/ TryFloor \/ Halve \/ Searched

-----------------------------------------------------------------------------
ProbePlaces == {"called", "setup", "whole", "floor", "search", "done", "untested"}

ProbeTypeOK ==
    /\ requested \in 0..MaxLen
    /\ steady \in BOOLEAN /\ ceiling \in 0..(MaxLen + 1)
    /\ probe \in ProbePlaces
    /\ lo \in 0..MaxLen /\ hi \in 0..MaxLen
    /\ result \in (HeaderSize..MaxLen) \cup {Unavailable, 0}
    /\ confirmed \subseteq 0..MaxLen

\* On a steady host a request for more than the bare header is answered with exactly the
\* largest datagram of at most the requested length, or with UDP_SEND_UNAVAILABLE when not
\* even a header can be sent; a shorter request is refused.  A request for just the header
\* is left out: it is answered without a send, on a host that cannot send it too.
ProbeExact ==
    probe = "done" /\ steady /\ requested # HeaderSize =>
        result = IF requested < HeaderSize \/ ceiling < HeaderSize THEN Unavailable
                 ELSE IF requested <= ceiling THEN requested ELSE ceiling

\* What a returned length rests on, on every host: a send of that length that succeeded,
\* except for a request for the bare header and for a probe whose socket could not be set
\* up, which are answered with the request itself before anything was sent.
TestedOrWaived ==
    probe \in {"done", "untested"} /\ result # Unavailable =>
        /\ result \in HeaderSize..requested
        /\ IF probe = "untested" \/ requested = HeaderSize
             THEN result = requested /\ confirmed = {}
             ELSE result \in confirmed

\* What the comment of probeMaxUdpSendLen says of every call: it returns
\* UDP_SEND_UNAVAILABLE, and no length it has not tested, when the probe runs on a host
\* that cannot send even a bare header.
UnavailableIsSaid ==
    probe = "done" /\ steady /\ ceiling < HeaderSize => result = Unavailable
=============================================================================
