---------------------------- MODULE UdpTransfer ----------------------------
(***************************************************************************)
(* One UDP stream of packages/netsu while data flows: the send loop with   *)
(* its pool of buffers, the network, and the receiver's loss accounting up *)
(* to the results it reports.  send() does not copy: the header that leaves*)
(* is what the buffer holds when the system takes it.  Lengths count in    *)
(* datagrams; jitter is left out.                                          *)
(***************************************************************************)
EXTENDS Pacer, Sequences, FiniteSets

CONSTANT MaxDuplicates    \* bound on the datagrams that arrive again

ASSUME TransferAssumption == MaxDuplicates \in Nat

VARIABLES
    packets,    \* counters.packets, equal to pcount
    bytes,      \* counters.bytes of the sender
    errors,     \* counters.errors of the sender
    free,       \* #free of the pool, a stack of buffers
    header,     \* buffer -> the pcount its header holds; its domain is what was allocated
    sends,      \* sends without their callback yet: [buf, stamp, state]
    wire,       \* pcounts of the datagrams under way
    rx,         \* the receiver's tracker: [received, maxSeq, outOfOrder]
    seen,       \* the pcounts that were received
    report      \* what the receiver has reported, a set of at most one report

counters == <<packets, bytes, errors>>
sender == <<counters, free, header, sends>>
receiver == <<rx, seen, report>>
transferVars == <<sender, wire, receiver>>

MaxOf(a, b) == IF a > b THEN a ELSE b

TransferInit ==
    /\ packets = 0 /\ bytes = 0 /\ errors = 0
    /\ free = <<>> /\ header = <<>> /\ sends = <<>>
    /\ wire = {}
    /\ rx = [received |-> 0, maxSeq |-> 0, outOfOrder |-> 0]
    /\ seen = {}
    /\ report = {}

\* Mutant: the buffer is released when send() returns, not when it calls back.
SendOneReleases ==
    /\ running /\ Send
    /\ LET buf == IF free = <<>> THEN Len(header) + 1 ELSE free[Len(free)] IN
       /\ free' = (IF free = <<>> THEN <<>> ELSE SubSeq(free, 1, Len(free) - 1)) \o <<buf>>
       /\ header' = IF free = <<>> THEN Append(header, packets + 1)
                                   ELSE [header EXCEPT ![buf] = packets + 1]
       /\ sends' = Append(sends, [buf |-> buf, stamp |-> packets + 1, state |-> "queued"])
    /\ packets' = packets + 1
    /\ UNCHANGED <<bytes, errors, wire, receiver>>

\* A round of the loop after gate(): acquire, stamp, send.
SendOne ==
    /\ running /\ Send
    /\ LET buf == IF free = <<>> THEN Len(header) + 1 ELSE free[Len(free)] IN
       /\ free' = IF free = <<>> THEN <<>> ELSE SubSeq(free, 1, Len(free) - 1)
       /\ header' = IF free = <<>> THEN Append(header, packets + 1)
                                   ELSE [header EXCEPT ![buf] = packets + 1]
       /\ sends' = Append(sends, [buf |-> buf, stamp |-> packets + 1, state |-> "queued"])
    /\ packets' = packets + 1
    /\ UNCHANGED <<bytes, errors, wire, receiver>>

\* The system takes the first datagram that waits, or refuses it.
Take(i) ==
    /\ sends[i].state = "queued" /\ \A j \in 1..(i - 1) : sends[j].state # "queued"
    /\ \/ /\ running
          /\ wire' = wire \cup {header[sends[i].buf]}
          /\ sends' = [sends EXCEPT ![i].state = "left"]
       \/ /\ wire' = wire
          /\ sends' = [sends EXCEPT ![i].state = "refused"]
    /\ UNCHANGED <<pacerVars, counters, free, header, receiver>>

\* The callback of send().
Callback ==
    /\ sends # <<>> /\ Head(sends).state # "queued"
    /\ sends' = Tail(sends)
    /\ free' = Append(free, Head(sends).buf)
    /\ IF Head(sends).state = "refused"
         THEN errors' = errors + 1 /\ bytes' = bytes
         ELSE bytes' = bytes + 1 /\ errors' = errors
    /\ UNCHANGED <<pacerVars, packets, header, wire, receiver>>

\* The test ends: #running is cleared and the stream closed in one go, which cancels
\* what still waits.
End == Stop /\ UNCHANGED transferVars

\* The sender waits, and leaves its loop when the test has ended.
Wait == (Gate \/ Tick \/ Leave \/ (~running /\ Send)) /\ UNCHANGED transferVars

\* Mutant: a late datagram is taken for the newest.
OnPacketLast(p) ==
    [received |-> rx.received + 1, maxSeq |-> p, outOfOrder |-> rx.outOfOrder]

\* JitterTracker.onPacket.
OnPacket(p) ==
    [received |-> rx.received + 1,
     maxSeq |-> MaxOf(p, rx.maxSeq),
     outOfOrder |-> IF p > rx.maxSeq THEN rx.outOfOrder ELSE rx.outOfOrder + 1]

\* A datagram arrives.  One that a client receives after it has reported changes no
\* report.
Deliver(p) ==
    /\ report = {}
    /\ rx' = OnPacket(p)
    /\ seen' = seen \cup {p}
    /\ wire' \in {wire \ {p}} \cup IF rx.received - Cardinality(seen) < MaxDuplicates THEN {wire} ELSE {}
    /\ UNCHANGED <<pacerVars, sender, report>>

Lose(p) ==
    /\ wire' = wire \ {p}
    /\ UNCHANGED <<pacerVars, sender, receiver>>

\* finalize() and the encoding of the results, in one go, once the test has ended.
Finalize ==
    /\ ~running /\ report = {}
    /\ report' = {[packets |-> rx.maxSeq, errors |-> MaxOf(0, rx.maxSeq - rx.received),
                   bytes |-> rx.received, seen |-> seen]}
    /\ UNCHANGED <<pacerVars, sender, wire, rx, seen>>

TransferNext ==
    \/ Wait \/ SendOne \/ Callback \/ End \/ Finalize
    \/ \E i \in 1..Len(sends) : Take(i)
    \/ \E p \in wire : Deliver(p) \/ Lose(p)

-----------------------------------------------------------------------------
\* Every attempt is credited as sent, counted as an error or still waits, once; every
\* buffer is free or belongs to one send that waits; and no header is overwritten while
\* its datagram waits for the system.
Accounted ==
    /\ bytes + errors + Len(sends) = packets
    /\ Len(free) + Len(sends) = Len(header)
    /\ \A i \in 1..Len(sends) :
          sends[i].state = "queued" => header[sends[i].buf] = sends[i].stamp

\* The losses reported are the datagrams below the highest one that did not arrive:
\* exactly these when none is duplicated, and never more.
LossReal ==
    \A r \in report :
        LET missing == Cardinality((1..r.packets) \ r.seen) IN
        /\ r.errors <= missing
        /\ r.bytes = Cardinality(r.seen) => r.errors = missing
=============================================================================
