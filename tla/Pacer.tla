-------------------------------- MODULE Pacer --------------------------------
(***************************************************************************)
(* The pacing of a UDP sender of packages/netsu: the loop of #runUdpSender *)
(* calls gate() before each datagram, and gate() waits for as long as the  *)
(* stream is ahead of its rate.  The unit of time is the time one bit takes*)
(* at the rate, so that bits and times compare.  The clock moves between   *)
(* any two steps, which includes stalls of the event loop.                 *)
(***************************************************************************)
EXTENDS Integers

CONSTANTS
    BurstCap,   \* #burstCapMs
    Slack,      \* one millisecond: below it gate() only yields, and delay() truncates
    MaxTime,    \* bound on the clock
    MaxBits     \* bound on what is sent

ASSUME PacerAssumption ==
    /\ BurstCap \in Nat /\ Slack \in Nat
    /\ MaxTime \in Nat /\ MaxBits \in Nat

VARIABLES
    limited,    \* whether the rate is above zero
    bits,       \* bits of a datagram, 0 before the loop is entered
    now,        \* Date.now(), counted from where the loop is entered
    startMs,    \* #startMs
    bitsSent,   \* #bitsSent
    running,    \* the #running of the session
    pc,         \* the sender: "probing", "loop", "gate" or "stopped"
    wake,       \* when gate() may return
    log         \* the datagrams sent: when, and with how many bits up to them

pacerVars == <<limited, bits, now, startMs, bitsSent, running, pc, wake, log>>

PacerInit ==
    /\ limited \in BOOLEAN /\ bits = 0
    /\ now = 0 /\ startMs = 0 /\ bitsSent = 0
    /\ running = TRUE /\ pc = "probing" /\ wake = 0
    /\ log = {}

\* The length of the datagrams is known: the pacer is made and the loop entered.
Begin(len) ==
    /\ pc = "probing"
    /\ pc' = "loop" /\ bits' = len
    /\ UNCHANGED <<limited, now, startMs, bitsSent, running, wake, log>>

\* No datagram can be sent.
Refuse ==
    /\ pc = "probing"
    /\ pc' = "stopped"
    /\ UNCHANGED <<limited, bits, now, startMs, bitsSent, running, wake, log>>

\* Mutant: the virtual start is never pulled.
PulledNever(ideal) == startMs

\* A sender too far behind its schedule has the virtual start pulled forward.
Pulled(ideal) ==
    IF now - startMs - ideal > BurstCap THEN now - ideal - BurstCap ELSE startMs

\* The part of gate() before its await.
Gate ==
    /\ pc = "loop" /\ running /\ bitsSent + bits <= MaxBits
    /\ pc' = "gate"
    /\ bitsSent' = bitsSent + bits
    /\ startMs' = IF limited THEN Pulled(bitsSent') ELSE startMs
    /\ LET aheadMs == bitsSent' - (now - startMs') IN
       wake' = IF limited /\ aheadMs > Slack THEN now + aheadMs - Slack ELSE now
    /\ UNCHANGED <<limited, bits, now, running, log>>

\* gate() returns and, if the test still runs, a datagram is sent.
Send ==
    /\ pc = "gate" /\ now >= wake
    /\ IF running
         THEN pc' = "loop" /\ log' = log \cup {[at |-> now, bits |-> bitsSent]}
         ELSE pc' = "stopped" /\ log' = log
    /\ UNCHANGED <<limited, bits, now, startMs, bitsSent, running, wake>>

Leave ==
    /\ pc = "loop" /\ ~running
    /\ pc' = "stopped"
    /\ UNCHANGED <<limited, bits, now, startMs, bitsSent, running, wake, log>>

\* The test ends.
Stop ==
    /\ running
    /\ running' = FALSE
    /\ UNCHANGED <<limited, bits, now, startMs, bitsSent, pc, wake, log>>

Tick ==
    /\ pc \in {"loop", "gate"} /\ now < MaxTime
    /\ now' = now + 1
    /\ UNCHANGED <<limited, bits, startMs, bitsSent, running, pc, wake, log>>

PacerNext == Refuse \/ (\E len \in Nat \ {0} : Begin(len)) \/ Gate \/ Send \/ Leave \/ Stop \/ Tick

-----------------------------------------------------------------------------
PacerTypeOK ==
    /\ limited \in BOOLEAN /\ bits \in Nat
    /\ now \in Nat /\ startMs \in Nat /\ bitsSent \in Nat
    /\ running \in BOOLEAN
    /\ pc \in {"probing", "loop", "gate", "stopped"}
    /\ wake \in Nat
    /\ log \subseteq [at : Nat, bits : Nat]

BurstBounded ==
    limited => \A d, e \in log : d.bits < e.bits =>
        e.bits - d.bits <= e.at - d.at + BurstCap + Slack + bits

NeverAhead == limited => \A e \in log : e.bits <= e.at + Slack

\* A paced stream is never ahead of its rate by more than a millisecond's worth, and
\* whatever stalls there were, no stretch of time carries more than its share of bits, the
\* burst the cap allows, that millisecond's worth and one datagram.
RateKept == NeverAhead /\ BurstBounded
=============================================================================
