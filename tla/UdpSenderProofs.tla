--------------------------- MODULE UdpSenderProofs ---------------------------
(* The probe of a UDP sender is exact where it tests, its bursts are bounded,*)
(* its sends are accounted for and the losses it reports are real, for every *)
(* request, ceiling, header size, rate, cap, slack, pool and length of run.  *)
EXTENDS UdpSender, FiniteSetTheorems, TLAPS

-----------------------------------------------------------------------------
(* The probe.                                                                *)

\* The search brackets the ceiling: lo was sent, hi was not and cannot be.
Bracket ==
    probe = "search" =>
        /\ HeaderSize <= lo /\ lo < hi /\ hi <= requested
        /\ lo \in confirmed
        /\ steady => lo <= ceiling /\ ceiling < hi

\* Where the probe is tells what the request and the whole send were like.
Progress ==
    /\ probe \in {"setup", "whole", "floor", "search", "untested"} => requested > HeaderSize
    /\ probe = "floor" /\ steady => ceiling < requested
    /\ probe \in {"called", "setup", "whole", "untested"} => confirmed = {}

ProbeInv == ProbeTypeOK /\ Bracket /\ Progress /\ ProbeExact /\ TestedOrWaived

\* The assumption on the constants, for citing by name.
LEMMA ProbeConstants ==
    HeaderSize \in Nat /\ HeaderSize > 0 /\ MaxLen \in Nat /\ HeaderSize <= MaxLen
  BY ProbeAssumption

\* The midpoint of a gap of more than one lies strictly inside it.
LEMMA Midpoint ==
    ASSUME NEW a \in Nat, NEW b \in Nat, b - a > 1
    PROVE  /\ (a + b) \div 2 \in Nat
           /\ a < (a + b) \div 2 /\ (a + b) \div 2 < b
  OBVIOUS

\* The probe starts outside the search.
LEMMA ProbeInitial == ProbeInit => ProbeInv
  BY ProbeConstants DEF ProbeInit, ProbeInv, ProbeTypeOK, ProbePlaces, Bracket, Progress, ProbeExact, TestedOrWaived, Unavailable

\* Every round of the loop keeps the bracket, every other step enters or leaves it.
LEMMA ProbeInductive == ProbeInv /\ [ProbeNext]_probeVars => ProbeInv'
<1> SUFFICES ASSUME ProbeInv, [ProbeNext]_probeVars PROVE ProbeInv'
  OBVIOUS
<1> USE ProbeConstants DEF ProbeInv, ProbeTypeOK, ProbePlaces, Unavailable
<1>1. CASE Call
  BY <1>1 DEF Call, Return, Bracket, Progress, ProbeExact, TestedOrWaived
<1>2. CASE Setup
  BY <1>2 DEF Setup, Bracket, Progress, ProbeExact, TestedOrWaived
<1>3. CASE TryWhole
  <2>1. PICK ok \in BOOLEAN :
          /\ CanSend(requested, ok)
          /\ IF ok THEN Return(requested) ELSE probe' = "floor" /\ result' = result
    BY <1>3 DEF TryWhole
  <2>2. UNCHANGED <<requested, steady, ceiling, lo, hi>> /\ probe = "whole"
    BY <1>3 DEF TryWhole
  <2>3. CASE ok
    <3>1. probe' = "done" /\ result' = requested /\ confirmed' = confirmed \cup {requested}
      BY <2>1, <2>3 DEF CanSend, Return
    <3>2. steady => requested <= ceiling
      BY <2>1, <2>3 DEF CanSend
    <3> QED BY <3>1, <3>2, <2>2 DEF Bracket, Progress, ProbeExact, TestedOrWaived
  <2>4. CASE ~ok
    BY <2>1, <2>2, <2>4 DEF CanSend, Return, Bracket, Progress, ProbeExact, TestedOrWaived
  <2> QED BY <2>3, <2>4
<1>4. CASE TryFloor
  <2>1. PICK ok \in BOOLEAN :
          /\ CanSend(HeaderSize, ok)
          /\ IF ok THEN probe' = "search" /\ lo' = HeaderSize /\ hi' = requested /\ result' = result
                   ELSE Return(Unavailable) /\ UNCHANGED <<lo, hi>>
    BY <1>4 DEF TryFloor
  <2>2. UNCHANGED <<requested, steady, ceiling>> /\ probe = "floor"
    BY <1>4 DEF TryFloor
  <2>3. CASE ok
    <3>1. /\ probe' = "search" /\ lo' = HeaderSize /\ hi' = requested /\ result' = result
          /\ confirmed' = confirmed \cup {HeaderSize}
      BY <2>1, <2>3 DEF CanSend
    <3>2. steady => HeaderSize <= ceiling
      BY <2>1, <2>3 DEF CanSend
    <3> QED BY <3>1, <3>2, <2>2 DEF Bracket, Progress, ProbeExact, TestedOrWaived
  <2>4. CASE ~ok
    BY <2>1, <2>2, <2>4 DEF CanSend, Return, Bracket, Progress, ProbeExact, TestedOrWaived
  <2> QED BY <2>3, <2>4
<1>5. CASE Halve
  <2> DEFINE mid == (lo + hi) \div 2
  <2>1. PICK ok \in BOOLEAN :
          /\ CanSend(mid, ok)
          /\ IF ok THEN lo' = mid /\ hi' = hi ELSE lo' = lo /\ hi' = mid
    BY <1>5 DEF Halve
  <2>2. UNCHANGED <<requested, steady, ceiling, probe, result>> /\ probe = "search" /\ hi - lo > 1
    BY <1>5 DEF Halve
  <2>3. mid \in Nat /\ lo < mid /\ mid < hi
    BY <2>2, Midpoint
  <2> HIDE DEF mid
  <2>4. CASE ok
    <3>1. lo' = mid /\ hi' = hi /\ confirmed' = confirmed \cup {mid}
      BY <2>1, <2>4 DEF CanSend
    <3>2. steady => mid <= ceiling
      BY <2>1, <2>4 DEF CanSend
    <3> QED BY <3>1, <3>2, <2>2, <2>3 DEF Bracket, Progress, ProbeExact, TestedOrWaived
  <2>5. CASE ~ok
    BY <2>1, <2>2, <2>3, <2>5 DEF CanSend, Bracket, Progress, ProbeExact, TestedOrWaived
  <2> QED BY <2>4, <2>5
<1>6. CASE Searched
  BY <1>6 DEF Searched, Return, Bracket, Progress, ProbeExact, TestedOrWaived
<1>7. CASE UNCHANGED probeVars
  BY <1>7 DEF probeVars, Bracket, Progress, ProbeExact, TestedOrWaived
<1> QED BY <1>1, <1>2, <1>3, <1>4, <1>5, <1>6, <1>7 DEF ProbeNext

-----------------------------------------------------------------------------
(* The pacer.                                                                *)

\* Sends are in the past, and gate() has counted the bits of the next one.
Past ==
    \A e \in log : e.at <= now /\ e.bits <= bitsSent /\ (pc = "gate" => e.bits < bitsSent)

\* Before the loop is entered nothing was sent.
Fresh == pc = "probing" => log = {} /\ bitsSent = 0

\* A datagram in the loop has bits.
Sized == pc \in {"loop", "gate"} => bits > 0

\* gate() returns no earlier than the schedule less the slack.
OnSchedule == limited /\ pc = "gate" => wake >= startMs + bitsSent - Slack

\* Once gate() has run after a send, the virtual start is at most the cap and one
\* datagram behind that send.
Backlog ==
    limited => \A e \in log : e.bits < bitsSent => startMs >= e.at - e.bits - bits - BurstCap

PacerInv == PacerTypeOK /\ Past /\ Fresh /\ Sized /\ OnSchedule /\ Backlog /\ BurstBounded /\ NeverAhead

\* The assumption on the constants, for citing by name.
LEMMA PacerConstants ==
    /\ BurstCap \in Nat /\ Slack \in Nat
    /\ MaxTime \in Nat /\ MaxBits \in Nat
  BY PacerAssumption

\* The virtual start is only pulled forward, to no less than the cap behind now.
LEMMA PullForward ==
    ASSUME PacerTypeOK, NEW ideal \in Nat
    PROVE  /\ Pulled(ideal) \in Nat
           /\ Pulled(ideal) >= startMs
           /\ Pulled(ideal) >= now - ideal - BurstCap
  BY PacerConstants DEF PacerTypeOK, Pulled

\* The pacer starts with nothing sent.
LEMMA PacerInitial == PacerInit => PacerInv
  BY PacerConstants DEF PacerInit, PacerInv, PacerTypeOK, Past, Fresh, Sized, OnSchedule, Backlog, BurstBounded, NeverAhead

\* gate() keeps the invariant: it counts a datagram and may pull the start.
LEMMA GateStep == PacerInv /\ Gate => PacerInv'
<1> SUFFICES ASSUME PacerInv, Gate PROVE PacerInv'
  OBVIOUS
<1> USE PacerConstants
<1>1. PacerTypeOK /\ bits > 0 /\ bitsSent' = bitsSent + bits /\ bitsSent' \in Nat /\ UNCHANGED <<limited, bits, now, running, log>> /\ pc' = "gate"
  BY DEF PacerInv, PacerTypeOK, Sized, Gate
<1>2. startMs' \in Nat /\ startMs' >= startMs
  BY <1>1, PullForward DEF Gate, PacerTypeOK
<1>3. limited => startMs' >= now - bitsSent' - BurstCap
  BY <1>1, PullForward DEF Gate
<1>4. wake' \in Nat /\ (limited => wake' >= startMs' + bitsSent' - Slack)
  BY <1>1, <1>2 DEF Gate, PacerTypeOK
<1>5. PacerTypeOK'
  BY <1>1, <1>2, <1>4 DEF PacerTypeOK
<1>6. Past' /\ Fresh' /\ Sized'
  BY <1>1 DEF PacerInv, Past, Fresh, Sized, PacerTypeOK, Gate
<1>7. OnSchedule'
  BY <1>1, <1>4 DEF OnSchedule
<1>8. Backlog'
  <2> SUFFICES ASSUME limited, NEW e \in log
               PROVE  startMs' >= e.at - e.bits - bits - BurstCap
    BY <1>1 DEF Backlog
  <2>1. e.at \in Nat /\ e.bits \in Nat /\ e.at <= now /\ e.bits <= bitsSent
    BY DEF PacerInv, Past, PacerTypeOK
  <2>2. CASE e.bits < bitsSent
    <3>1. startMs >= e.at - e.bits - bits - BurstCap
      BY <2>2 DEF PacerInv, Backlog
    <3> QED BY <3>1, <2>1, <1>1, <1>2 DEF PacerTypeOK
  <2>3. CASE e.bits = bitsSent
    BY <2>1, <2>3, <1>1, <1>2, <1>3 DEF PacerTypeOK
  <2> QED BY <2>1, <2>2, <2>3, <1>1 DEF PacerTypeOK
<1>9. BurstBounded' /\ NeverAhead'
  BY <1>1 DEF PacerInv, BurstBounded, NeverAhead
<1> QED BY <1>5, <1>6, <1>7, <1>8, <1>9 DEF PacerInv

\* A send that gate() let through keeps the invariant: this is where the bound on
\* bursts follows from the schedule and the backlog.
LEMMA SendStep == PacerInv /\ Send => PacerInv'
<1> SUFFICES ASSUME PacerInv, Send PROVE PacerInv'
  OBVIOUS
<1> USE PacerConstants
<1>1. PacerTypeOK /\ UNCHANGED <<limited, bits, now, startMs, bitsSent, running, wake>> /\ pc = "gate" /\ now >= wake
  BY DEF PacerInv, Send
<1>2. CASE ~running
  <2>1. pc' = "stopped" /\ log' = log
    BY <1>2 DEF Send
  <2> QED BY <2>1, <1>1 DEF PacerInv, PacerTypeOK, Past, Fresh, Sized, OnSchedule, Backlog, BurstBounded, NeverAhead
<1>3. CASE running
  <2> DEFINE n == [at |-> now, bits |-> bitsSent]
  <2>1. pc' = "loop" /\ log' = log \cup {n}
    BY <1>3 DEF Send
  <2>2. n \in [at : Nat, bits : Nat] /\ n.at = now /\ n.bits = bitsSent
    BY <1>1 DEF PacerTypeOK
  <2> HIDE DEF n
  <2>3. \A e \in log : /\ e.at \in Nat /\ e.bits \in Nat /\ e.at <= now /\ e.bits < bitsSent
    BY <1>1 DEF PacerInv, PacerTypeOK, Past
  <2>4. PacerTypeOK'
    BY <1>1, <2>1, <2>2 DEF PacerTypeOK
  <2>5. Past' /\ Fresh' /\ Sized' /\ OnSchedule'
    BY <1>1, <2>1, <2>2, <2>3 DEF PacerInv, Past, Fresh, Sized, OnSchedule, PacerTypeOK
  <2>6. Backlog'
    BY <1>1, <2>1, <2>2 DEF PacerInv, Backlog, PacerTypeOK
  <2>7. limited => now >= startMs + bitsSent - Slack
    BY <1>1 DEF PacerInv, OnSchedule, PacerTypeOK
  <2>8. NeverAhead'
    BY <1>1, <2>1, <2>2, <2>7 DEF PacerInv, NeverAhead, PacerTypeOK
  <2>9. BurstBounded'
    <3> SUFFICES ASSUME limited, NEW d \in log', NEW e \in log', d.bits < e.bits
                 PROVE  e.bits - d.bits <= e.at - d.at + BurstCap + Slack + bits
      BY <1>1 DEF BurstBounded
    <3>1. CASE d \in log /\ e \in log
      BY <3>1 DEF PacerInv, BurstBounded
    <3>2. CASE d \in log /\ e = n
      <4>1. startMs >= d.at - d.bits - bits - BurstCap
        BY <3>2, <2>3 DEF PacerInv, Backlog
      <4> QED BY <4>1, <3>2, <2>2, <2>3, <2>7, <1>1 DEF PacerTypeOK
    <3>3. d # n
      BY <2>1, <2>2, <2>3, <1>1 DEF PacerTypeOK
    <3> QED BY <3>1, <3>2, <3>3, <2>1
  <2> QED BY <2>4, <2>5, <2>6, <2>8, <2>9 DEF PacerInv
<1> QED BY <1>2, <1>3

\* Every step keeps the invariant.
LEMMA PacerInductive == PacerInv /\ [PacerNext]_pacerVars => PacerInv'
<1> SUFFICES ASSUME PacerInv, [PacerNext]_pacerVars PROVE PacerInv'
  OBVIOUS
<1> USE PacerConstants
<1>1. CASE Gate
  BY <1>1, GateStep
<1>2. CASE Send
  BY <1>2, SendStep
<1>3. CASE Leave
  BY <1>3 DEF Leave, PacerInv, PacerTypeOK, Past, Fresh, Sized, OnSchedule, Backlog, BurstBounded, NeverAhead
<1>4. CASE Stop
  BY <1>4 DEF Stop, PacerInv, PacerTypeOK, Past, Fresh, Sized, OnSchedule, Backlog, BurstBounded, NeverAhead
<1>5. CASE Tick
  BY <1>5 DEF Tick, PacerInv, PacerTypeOK, Past, Fresh, Sized, OnSchedule, Backlog, BurstBounded, NeverAhead
<1>6. CASE UNCHANGED pacerVars
  BY <1>6 DEF pacerVars, PacerInv, PacerTypeOK, Past, Fresh, Sized, OnSchedule, Backlog, BurstBounded, NeverAhead
<1>7. CASE Refuse
  BY <1>7 DEF Refuse, PacerInv, PacerTypeOK, Past, Fresh, Sized, OnSchedule, Backlog, BurstBounded, NeverAhead
<1>8. CASE \E len \in Nat \ {0} : Begin(len)
  BY <1>8 DEF Begin, PacerInv, PacerTypeOK, Past, Fresh, Sized, OnSchedule, Backlog, BurstBounded, NeverAhead
<1> QED BY <1>1, <1>2, <1>3, <1>4, <1>5, <1>6, <1>7, <1>8 DEF PacerNext

-----------------------------------------------------------------------------
(* The sender.                                                               *)

\* Every step of the sender is a step of its probe, or leaves the probe alone.
LEMMA ProbeSteps == [Next]_vars => [ProbeNext]_probeVars
  BY DEF Next, vars, Probing, Start, GiveUp, Transfer

\* The length that the loop is entered with is positive.
LEMMA LengthPositive ==
    ASSUME ProbeInv, probe \in {"done", "untested"}, result # Unavailable
    PROVE  result \in Nat \ {0}
  BY ProbeConstants DEF ProbeInv, ProbeTypeOK, Progress, TestedOrWaived, Unavailable

\* Every step of the sender is a step of its pacer, or leaves the pacer alone.
LEMMA PacerSteps == ProbeInv /\ [Next]_vars => [PacerNext]_pacerVars
<1> SUFFICES ASSUME ProbeInv, [Next]_vars PROVE [PacerNext]_pacerVars
  OBVIOUS
<1>1. CASE Start
  BY <1>1, LengthPositive DEF Start, PacerNext
<1>2. CASE Transfer
  BY <1>2 DEF Transfer, TransferNext, Wait, SendOne, Callback, End, Finalize, Take, Deliver, Lose, PacerNext
<1>3. CASE Probing \/ GiveUp \/ UNCHANGED vars
  BY <1>3 DEF Probing, GiveUp, vars, PacerNext
<1> QED BY <1>1, <1>2, <1>3 DEF Next

\* Probe and pacer keep their invariants together.
LEMMA Invariants == Spec => [](ProbeInv /\ PacerInv)
<1>1. Init => ProbeInv /\ PacerInv
  BY ProbeInitial, PacerInitial DEF Init
<1>2. ProbeInv /\ PacerInv /\ [Next]_vars => (ProbeInv /\ PacerInv)'
  BY ProbeSteps, PacerSteps, ProbeInductive, PacerInductive
<1> QED BY <1>1, <1>2, PTL DEF Spec

\* On a steady host probeMaxUdpSendLen answers every request but that for the bare header
\* with the largest length that can be sent and is not above it, or refuses it.
THEOREM ProbeIsExact == Spec => []ProbeExact
  BY Invariants, PTL DEF ProbeInv

\* On every host a length it returns was sent, but for the two cases in which it returns
\* the request untested: a bare header, and a socket that could not be set up.
THEOREM LengthsTestedOrWaived == Spec => []TestedOrWaived
  BY Invariants, PTL DEF ProbeInv

\* The stream never runs ahead of its rate by more than a millisecond, and no stretch of
\* time carries a larger burst than the cap allows.
THEOREM RateIsKept == Spec => []RateKept
  BY Invariants, PTL DEF PacerInv, RateKept

-----------------------------------------------------------------------------
(* The transfer.                                                             *)

Pending == [buf : Nat, stamp : Nat, state : {"queued", "left", "refused"}]

SenderTypeOK ==
    /\ packets \in Nat /\ bytes \in Nat /\ errors \in Nat
    /\ free \in Seq(Nat) /\ header \in Seq(Nat \ {0}) /\ sends \in Seq(Pending)

\* A buffer that was allocated is in the pool or in one send, in one place.
Pooled ==
    /\ \A i \in 1..Len(free) : free[i] \in 1..Len(header)
    /\ \A i \in 1..Len(sends) : sends[i].buf \in 1..Len(header)
    /\ \A i, j \in 1..Len(free) : free[i] = free[j] => i = j
    /\ \A i, j \in 1..Len(sends) : sends[i].buf = sends[j].buf => i = j
    /\ \A i \in 1..Len(free), j \in 1..Len(sends) : free[i] # sends[j].buf

SenderInv == SenderTypeOK /\ Pooled /\ Accounted

\* The counts of the invariant, for citing apart from what it says of single buffers.
LEMMA Counts ==
    ASSUME SenderInv
    PROVE  /\ packets \in Nat /\ bytes \in Nat /\ errors \in Nat
           /\ Len(free) \in Nat /\ Len(sends) \in Nat /\ Len(header) \in Nat
           /\ bytes + errors + Len(sends) = packets
           /\ Len(free) + Len(sends) = Len(header)
<1>1. /\ packets \in Nat /\ bytes \in Nat /\ errors \in Nat
      /\ Len(free) \in Nat /\ Len(sends) \in Nat /\ Len(header) \in Nat
  BY DEF SenderInv, SenderTypeOK
<1>2. /\ bytes + errors + Len(sends) = packets
      /\ Len(free) + Len(sends) = Len(header)
  BY Zenon DEF SenderInv, Accounted
<1> QED BY <1>1, <1>2

\* Popping a stack leaves the elements below the top.
LEMMA Popped ==
    ASSUME NEW s \in Seq(Nat), Len(s) \in Nat \ {0}
    PROVE  /\ SubSeq(s, 1, Len(s) - 1) \in Seq(Nat)
           /\ Len(SubSeq(s, 1, Len(s) - 1)) = Len(s) - 1
           /\ \A i \in 1..(Len(s) - 1) : SubSeq(s, 1, Len(s) - 1)[i] = s[i]
<1> DEFINE n == Len(s) - 1
<1>1. n \in Nat /\ \A i \in 1..n : s[i] \in Nat
  OBVIOUS
<1> HIDE DEF n
<1>2. SubSeq(s, 1, n) = [i \in 1..n |-> s[i]]
  BY <1>1
<1>3. [i \in 1..n |-> s[i]] \in Seq(Nat) /\ Len([i \in 1..n |-> s[i]]) = n
  BY <1>1
<1> QED BY <1>2, <1>3, Zenon DEF n

\* Nothing was allocated or sent at first.
LEMMA SenderInitial == TransferInit => SenderInv
  BY DEF TransferInit, SenderInv, SenderTypeOK, Pooled, Accounted

\* A datagram is stamped into a buffer of the pool, or a new one: none that waits.
LEMMA SendOneStep == SenderInv /\ SendOne => SenderInv'
<1> SUFFICES ASSUME SenderInv, SendOne PROVE SenderInv'
  OBVIOUS
<1> DEFINE buf == IF free = <<>> THEN Len(header) + 1 ELSE free[Len(free)]
           new == [buf |-> buf, stamp |-> packets + 1, state |-> "queued"]
<1>1. /\ packets \in Nat /\ bytes \in Nat /\ errors \in Nat
      /\ free \in Seq(Nat) /\ header \in Seq(Nat \ {0}) /\ sends \in Seq(Pending)
      /\ Pooled /\ Accounted
  BY DEF SenderInv, SenderTypeOK
<1>2. /\ sends' = Append(sends, new) /\ packets' = packets + 1
      /\ UNCHANGED <<bytes, errors>>
  BY DEF SendOne
<1>3. buf \in Nat /\ buf \in 1..(Len(header) + 1)
  BY <1>1 DEF Pooled
<1>4. new \in Pending /\ new.buf = buf /\ new.stamp = packets + 1
  BY <1>1, <1>3 DEF Pending
<1>5. /\ free' \in Seq(Nat) /\ header' \in Seq(Nat \ {0})
      /\ Len(header') = IF free = <<>> THEN Len(header) + 1 ELSE Len(header)
      /\ Len(free') = IF free = <<>> THEN 0 ELSE Len(free) - 1
      /\ \A i \in 1..Len(free') : i \in 1..Len(free) /\ free'[i] = free[i] /\ free[i] # buf
      /\ \A b \in 1..Len(header) : b # buf => header'[b] = header[b]
      /\ header'[buf] = packets + 1 /\ buf \in 1..Len(header')
  <2>1. CASE free = <<>>
    <3>1. free' = <<>> /\ header' = Append(header, packets + 1) /\ buf = Len(header) + 1
      BY <2>1 DEF SendOne
    <3> QED BY <1>1, <2>1, <3>1
  <2>2. CASE free # <<>>
    <3>1. /\ free' = SubSeq(free, 1, Len(free) - 1)
          /\ header' = [header EXCEPT ![buf] = packets + 1] /\ buf = free[Len(free)]
      BY <2>2 DEF SendOne
    <3>2. Len(free) \in Nat \ {0}
      BY <1>1, <2>2
    <3>3. buf \in 1..Len(header) /\ \A i \in 1..(Len(free) - 1) : free[i] # buf
      BY <1>1, <3>1, <3>2 DEF Pooled
    <3>4. /\ free' \in Seq(Nat) /\ Len(free') = Len(free) - 1
          /\ \A i \in 1..(Len(free) - 1) : free'[i] = free[i]
      BY <1>1, <3>1, <3>2, Popped
    <3> HIDE DEF buf
    <3>5. /\ header' \in Seq(Nat \ {0}) /\ Len(header') = Len(header)
          /\ \A b \in 1..Len(header) : b # buf => header'[b] = header[b]
          /\ header'[buf] = packets + 1
      BY <1>1, <3>1, <3>3
    <3> QED BY <2>2, <3>2, <3>3, <3>4, <3>5
  <2> QED BY <2>1, <2>2
<1>6. \A i \in 1..Len(sends) : sends[i].buf # buf /\ sends[i].buf \in 1..Len(header)
  <2>1. \A i \in 1..Len(sends) : sends[i].buf \in 1..Len(header)
    BY <1>1 DEF Pooled
  <2>2. CASE free = <<>>
    BY <2>1, <2>2, Counts
  <2>3. CASE free # <<>>
    <3>1. Len(free) \in 1..Len(free) /\ buf = free[Len(free)]
      BY <1>1, <2>3
    <3> HIDE DEF buf
    <3> QED BY <1>1, <2>1, <3>1 DEF Pooled
  <2> QED BY <2>2, <2>3
<1> HIDE DEF buf, new
<1>7. /\ sends' \in Seq(Pending) /\ Len(sends') = Len(sends) + 1
      /\ \A i \in 1..Len(sends) : sends'[i] = sends[i]
      /\ sends'[Len(sends) + 1] = new
  BY <1>1, <1>2, <1>4
<1>8. SenderTypeOK'
  BY <1>1, <1>2, <1>5, <1>7 DEF SenderTypeOK
<1>9. Len(sends) \in Nat /\ Len(header) \in Nat /\ Len(free) \in Nat
  BY Counts
<1>10. Pooled'
  <2>1. \A i \in 1..Len(sends') : sends'[i].buf = IF i = Len(sends) + 1 THEN buf ELSE sends[i].buf
    BY <1>4, <1>7, <1>9
  <2>2. \A i \in 1..Len(sends') : i # Len(sends) + 1 => i \in 1..Len(sends)
    BY <1>7, <1>9
  <2>3. \A i \in 1..Len(sends') : sends'[i].buf \in 1..Len(header')
    <3>1. 1..Len(header) \subseteq 1..Len(header')
      BY <1>5, <1>9
    <3> QED BY <1>5, <1>6, <2>1, <2>2, <3>1, Zenon
  <2>4. \A i \in 1..Len(free') : free'[i] \in 1..Len(header')
    <3>1. 1..Len(header) \subseteq 1..Len(header')
      BY <1>5, <1>9
    <3> QED BY <1>1, <1>5, <3>1, Zenon DEF Pooled
  <2>5. \A i, j \in 1..Len(free') : free'[i] = free'[j] => i = j
    BY <1>1, <1>5, Zenon DEF Pooled
  <2>6. \A i, j \in 1..Len(sends') : sends'[i].buf = sends'[j].buf => i = j
    BY <1>1, <1>6, <2>1, <2>2 DEF Pooled
  <2>7. \A i \in 1..Len(free'), j \in 1..Len(sends') : free'[i] # sends'[j].buf
    <3> TAKE i \in 1..Len(free'), j \in 1..Len(sends')
    <3>1. i \in 1..Len(free) /\ free'[i] = free[i] /\ free[i] # buf
      BY <1>5
    <3>2. CASE j = Len(sends) + 1
      BY <2>1, <3>1, <3>2, Zenon
    <3>3. CASE j # Len(sends) + 1
      <4>1. j \in 1..Len(sends) /\ sends'[j].buf = sends[j].buf
        BY <2>1, <2>2, <3>3, Zenon
      <4> QED BY <1>1, <3>1, <4>1, Zenon DEF Pooled
    <3> QED BY <3>2, <3>3
  <2> QED BY <2>3, <2>4, <2>5, <2>6, <2>7 DEF Pooled
<1>11. Accounted'
  <2>1. bytes' + errors' + Len(sends') = packets'
    <3>1. packets' = packets + 1 /\ bytes' = bytes /\ errors' = errors
      BY <1>2
    <3>2. Len(sends') = Len(sends) + 1
      BY <1>7
    <3> QED BY <3>1, <3>2, Counts
  <2>2. Len(free') + Len(sends') = Len(header')
    <3>1. free = <<>> => Len(free) = 0
      OBVIOUS
    <3>2. /\ Len(sends') = Len(sends) + 1
          /\ Len(header') = IF free = <<>> THEN Len(header) + 1 ELSE Len(header)
          /\ Len(free') = IF free = <<>> THEN 0 ELSE Len(free) - 1
      BY <1>5, <1>7, Zenon
    <3>3. /\ Len(free) \in Nat /\ Len(sends) \in Nat /\ Len(header) \in Nat
          /\ Len(free) + Len(sends) = Len(header)
      BY Counts
    <3>4. CASE free = <<>>
      BY <3>1, <3>2, <3>3, <3>4
    <3>5. CASE free # <<>>
      BY <3>2, <3>3, <3>5
    <3> QED BY <3>4, <3>5
  <2>3. ASSUME NEW i \in 1..Len(sends'), sends'[i].state = "queued"
        PROVE  header'[sends'[i].buf] = sends'[i].stamp
    <3>1. CASE i = Len(sends) + 1
      BY <3>1, <1>4, <1>5, <1>7
    <3>2. CASE i # Len(sends) + 1
      <4>1. i \in 1..Len(sends) /\ sends'[i] = sends[i]
        BY <3>2, <1>7, <1>9
      <4>2. header[sends[i].buf] = sends[i].stamp
        BY <4>1, <2>3, <1>1 DEF Accounted
      <4> QED BY <4>1, <4>2, <1>5, <1>6
    <3> QED BY <3>1, <3>2
  <2> QED BY <2>1, <2>2, <2>3 DEF Accounted
<1> QED BY <1>8, <1>10, <1>11 DEF SenderInv

\* Taking or refusing a datagram only marks its send.
LEMMA TakeStep == ASSUME SenderInv, NEW i \in 1..Len(sends), Take(i) PROVE SenderInv'
<1>1. /\ UNCHANGED <<packets, bytes, errors, free, header>>
      /\ \E s \in {"left", "refused"} : sends' = [sends EXCEPT ![i].state = s]
  BY DEF Take, counters
<1>2. sends \in Seq(Pending) /\ SenderTypeOK /\ Pooled /\ Accounted
  BY DEF SenderInv, SenderTypeOK
<1>3. /\ sends' \in Seq(Pending) /\ Len(sends') = Len(sends)
      /\ \A j \in 1..Len(sends) : /\ sends'[j].buf = sends[j].buf
                                  /\ sends'[j].state = "queued" => sends'[j] = sends[j]
  <2>1. PICK s \in {"left", "refused"} : sends' = [sends EXCEPT ![i].state = s]
    BY <1>1
  <2>2. \A j \in 1..Len(sends) : sends[j] \in Pending
    BY <1>2
  <2> DEFINE marked == [sends[i] EXCEPT !.state = s]
  <2>3. marked \in Pending /\ marked.buf = sends[i].buf /\ marked.state # "queued"
    BY <2>2 DEF Pending
  <2>4. sends' = [sends EXCEPT ![i] = marked]
    BY <2>1
  <2> HIDE DEF marked
  <2>5. sends' \in Seq(Pending) /\ Len(sends') = Len(sends)
    BY <1>2, <2>3, <2>4
  <2>6. \A j \in 1..Len(sends) : sends'[j] = IF j = i THEN marked ELSE sends[j]
    BY <1>2, <2>4
  <2> QED BY <2>3, <2>5, <2>6
<1>4. SenderTypeOK' /\ Pooled'
  BY <1>1, <1>2, <1>3 DEF SenderTypeOK, Pooled
<1>5. Accounted'
  BY <1>1, <1>2, <1>3 DEF Accounted
<1> QED BY <1>4, <1>5 DEF SenderInv

\* A callback credits or charges the first send and gives its buffer back.
LEMMA CallbackStep == SenderInv /\ Callback => SenderInv'
<1> SUFFICES ASSUME SenderInv, Callback PROVE SenderInv'
  OBVIOUS
<1>1. /\ packets \in Nat /\ bytes \in Nat /\ errors \in Nat
      /\ free \in Seq(Nat) /\ header \in Seq(Nat \ {0}) /\ sends \in Seq(Pending)
      /\ Pooled /\ Accounted
  BY DEF SenderInv, SenderTypeOK
<1>2. /\ sends # <<>> /\ sends' = Tail(sends) /\ free' = Append(free, Head(sends).buf)
      /\ UNCHANGED <<packets, header>>
      /\ \/ errors' = errors + 1 /\ bytes' = bytes
         \/ bytes' = bytes + 1 /\ errors' = errors
  BY DEF Callback
<1>3. /\ Len(sends) \in Nat \ {0} /\ Len(free) \in Nat
      /\ sends' \in Seq(Pending) /\ Len(sends') = Len(sends) - 1
      /\ \A i \in 1..Len(sends') : i + 1 \in 1..Len(sends) /\ sends'[i] = sends[i + 1]
      /\ Head(sends) = sends[1] /\ sends[1] \in Pending
  BY <1>1, <1>2
<1>4. sends[1].buf \in Nat
  BY <1>3 DEF Pending
<1>5. /\ free' \in Seq(Nat) /\ Len(free') = Len(free) + 1
      /\ \A i \in 1..Len(free) : free'[i] = free[i]
      /\ free'[Len(free) + 1] = sends[1].buf
  BY <1>1, <1>2, <1>3, <1>4
<1>6. SenderTypeOK'
  BY <1>1, <1>2, <1>3, <1>5 DEF SenderTypeOK
<1>7. Pooled'
  <2>1. \A i \in 1..Len(free') : i # Len(free) + 1 => i \in 1..Len(free) /\ free'[i] = free[i]
    BY <1>3, <1>5
  <2> DEFINE b == sends[1].buf
  <2>a. b \in 1..Len(header) /\ \A i \in 1..Len(free) : free[i] # b
    <3>1. 1 \in 1..Len(sends)
      BY <1>3
    <3> QED BY <1>1, <3>1, Zenon DEF Pooled
  <2>b. free'[Len(free) + 1] = b
    BY <1>5
  <2> HIDE DEF b
  <2>2. \A i \in 1..Len(free') : free'[i] \in 1..Len(header)
    BY <1>1, <2>a, <2>b, <2>1, Zenon DEF Pooled
  <2>3. \A i \in 1..Len(sends') : sends'[i].buf \in 1..Len(header)
    BY <1>1, <1>3 DEF Pooled
  <2>4. \A i, j \in 1..Len(free') : free'[i] = free'[j] => i = j
    BY <1>1, <2>a, <2>b, <2>1, Zenon DEF Pooled
  <2>5. \A i, j \in 1..Len(sends') : sends'[i].buf = sends'[j].buf => i = j
    <3> TAKE i, j \in 1..Len(sends')
    <3> HAVE sends'[i].buf = sends'[j].buf
    <3>1. /\ i + 1 \in 1..Len(sends) /\ sends'[i] = sends[i + 1]
          /\ j + 1 \in 1..Len(sends) /\ sends'[j] = sends[j + 1]
      BY <1>3, Zenon
    <3>2. \A k, l \in 1..Len(sends) : sends[k].buf = sends[l].buf => k = l
      BY <1>1, Zenon DEF Pooled
    <3>3. i + 1 = j + 1
      BY <3>1, <3>2, Zenon
    <3> QED BY <3>3
  <2>6. \A i \in 1..Len(free'), j \in 1..Len(sends') : free'[i] # sends'[j].buf
    <3> TAKE i \in 1..Len(free'), j \in 1..Len(sends')
    <3>1. CASE i = Len(free) + 1
      <4>1. j + 1 \in 1..Len(sends) /\ j + 1 # 1 /\ sends'[j] = sends[j + 1]
        BY <1>3
      <4> QED BY <4>1, <3>1, <1>1, <1>3, <1>5 DEF Pooled
    <3>2. CASE i # Len(free) + 1
      <4>1. i \in 1..Len(free) /\ free'[i] = free[i]
        BY <3>2, <2>1
      <4>2. j + 1 \in 1..Len(sends) /\ sends'[j] = sends[j + 1]
        BY <1>3, Zenon
      <4>3. free[i] # sends[j + 1].buf
        BY <1>1, <4>1, <4>2, Zenon DEF Pooled
      <4> QED BY <4>1, <4>2, <4>3
    <3> QED BY <3>1, <3>2
  <2> QED BY <1>2, <2>2, <2>3, <2>4, <2>5, <2>6 DEF Pooled
<1>8. Accounted'
  <2>1. bytes' + errors' + Len(sends') = packets'
    <3>1. /\ packets' = packets /\ Len(sends') = Len(sends) - 1
          /\ \/ errors' = errors + 1 /\ bytes' = bytes
             \/ bytes' = bytes + 1 /\ errors' = errors
      BY <1>2, <1>3, Zenon
    <3> QED BY <3>1, Counts
  <2>2. Len(free') + Len(sends') = Len(header') /\ header' = header
    BY <1>2, <1>3, <1>5, Counts
  <2>3. \A i \in 1..Len(sends') : sends'[i].state = "queued" => header[sends'[i].buf] = sends'[i].stamp
    BY <1>1, <1>3 DEF Accounted
  <2> QED BY <2>1, <2>2, <2>3 DEF Accounted
<1> QED BY <1>6, <1>7, <1>8 DEF SenderInv

\* Every step keeps the sender's books.
LEMMA SenderInductive == SenderInv /\ [Next]_vars => SenderInv'
<1> SUFFICES ASSUME SenderInv, [Next]_vars PROVE SenderInv'
  OBVIOUS
<1>1. CASE UNCHANGED sender
  BY <1>1 DEF sender, counters, SenderInv, SenderTypeOK, Pooled, Accounted
<1>2. CASE SendOne \/ Callback \/ \E i \in 1..Len(sends) : Take(i)
  BY <1>2, SendOneStep, CallbackStep, TakeStep
<1>3. UNCHANGED sender \/ SendOne \/ Callback \/ \E i \in 1..Len(sends) : Take(i)
  BY DEF Next, vars, Probing, Start, GiveUp, Transfer, TransferNext, Wait, End, Finalize, Deliver,
         Lose, transferVars
<1> QED BY <1>1, <1>2, <1>3

\* Every attempt is counted once, the pool neither leaks nor shares a buffer, and no header
\* is overwritten before its datagram left, for any number of sends under way.
THEOREM SendsAreAccounted == Spec => []Accounted
<1>1. Init => SenderInv
  BY SenderInitial DEF Init
<1>2. SenderInv => Accounted
  BY DEF SenderInv
<1> QED BY <1>1, <1>2, SenderInductive, PTL DEF Spec

\* The receiver has seen numbers up to the highest one, each arrival counted.
ReceiverInv ==
    /\ wire \subseteq Nat \ {0}
    /\ rx \in [received : Nat, maxSeq : Nat, outOfOrder : Nat]
    /\ seen \subseteq 1..rx.maxSeq
    /\ Cardinality(seen) <= rx.received
    /\ LossReal

\* Below a number, what was not seen is what remains of it.
LEMMA Missing ==
    ASSUME NEW n \in Nat, NEW S \in SUBSET (1..n)
    PROVE  /\ IsFiniteSet(S) /\ Cardinality(S) \in Nat /\ Cardinality(S) <= n
           /\ Cardinality((1..n) \ S) = n - Cardinality(S)
<1> DEFINE T == (1..n) \ S
<1>1. IsFiniteSet(1..n) /\ Cardinality(1..n) = n
  BY FS_Interval
<1>2. IsFiniteSet(S) /\ IsFiniteSet(T) /\ Cardinality(S) <= Cardinality(1..n)
  BY <1>1, FS_Subset
<1>3. Cardinality(S) \in Nat /\ Cardinality(T) \in Nat
  BY <1>2, FS_CardinalityType
<1>4. Cardinality(S \cup T) = Cardinality(S) + Cardinality(T) - Cardinality(S \cap T)
  BY <1>2, FS_Union
<1>5. S \cup T = 1..n /\ S \cap T = {}
  OBVIOUS
<1>6. Cardinality({}) = 0
  BY FS_EmptySet
<1> HIDE DEF T
<1>7. n = Cardinality(S) + Cardinality(T) - 0
  BY <1>1, <1>4, <1>5, <1>6
<1>8. Cardinality(T) = n - Cardinality(S) /\ Cardinality(S) <= n
  BY <1>1, <1>2, <1>3, <1>7
<1> QED BY <1>2, <1>3, <1>8 DEF T

\* Nothing has arrived at first.
LEMMA ReceiverInitial == TransferInit => ReceiverInv
  BY FS_EmptySet DEF TransferInit, ReceiverInv, LossReal

\* An arrival raises the count by one and the set by at most one.
LEMMA DeliverStep == ASSUME ReceiverInv, NEW p \in wire, Deliver(p) PROVE ReceiverInv'
<1>1. /\ wire \subseteq Nat \ {0} /\ rx \in [received : Nat, maxSeq : Nat, outOfOrder : Nat]
      /\ seen \subseteq 1..rx.maxSeq /\ Cardinality(seen) <= rx.received /\ LossReal
  BY DEF ReceiverInv
<1>2. rx' = OnPacket(p) /\ seen' = seen \cup {p} /\ wire' \subseteq wire /\ report' = report
  BY DEF Deliver
<1>3. p \in Nat \ {0} /\ rx.received \in Nat /\ rx.maxSeq \in Nat /\ rx.outOfOrder \in Nat
  BY <1>1
<1>4. /\ rx' \in [received : Nat, maxSeq : Nat, outOfOrder : Nat]
      /\ rx'.received = rx.received + 1
      /\ rx'.maxSeq >= rx.maxSeq /\ rx'.maxSeq >= p /\ rx'.maxSeq \in Nat
  BY <1>2, <1>3 DEF OnPacket, MaxOf
<1>5. seen' \subseteq 1..rx'.maxSeq
  BY <1>1, <1>2, <1>3, <1>4
<1>6. IsFiniteSet(seen) /\ Cardinality(seen) \in Nat
  BY <1>1, <1>3, Missing
<1>7. Cardinality(seen') <= Cardinality(seen) + 1 /\ Cardinality(seen') \in Nat
  <2>1. Cardinality(seen \cup {p}) = IF p \in seen THEN Cardinality(seen) ELSE Cardinality(seen) + 1
    BY <1>6, FS_AddElement, Zenon
  <2>2. \/ Cardinality(seen \cup {p}) = Cardinality(seen)
        \/ Cardinality(seen \cup {p}) = Cardinality(seen) + 1
    BY <2>1, Zenon
  <2>3. \/ Cardinality(seen') = Cardinality(seen)
        \/ Cardinality(seen') = Cardinality(seen) + 1
    BY <1>2, <2>2, Zenon
  <2> QED BY <1>6, <2>3
<1>8. Cardinality(seen') <= rx'.received
  BY <1>1, <1>3, <1>4, <1>6, <1>7
<1>9. LossReal'
  BY <1>1, <1>2 DEF LossReal
<1> QED BY <1>1, <1>2, <1>4, <1>5, <1>8, <1>9 DEF ReceiverInv

\* The report is made from the tracker's numbers at once.
LEMMA FinalizeStep == ReceiverInv /\ Finalize => ReceiverInv'
<1> SUFFICES ASSUME ReceiverInv, Finalize PROVE ReceiverInv'
  OBVIOUS
<1>1. /\ rx \in [received : Nat, maxSeq : Nat, outOfOrder : Nat]
      /\ seen \subseteq 1..rx.maxSeq /\ Cardinality(seen) <= rx.received
  BY DEF ReceiverInv
<1>2. UNCHANGED <<wire, rx, seen>>
  BY DEF Finalize
<1> DEFINE r == [packets |-> rx.maxSeq, errors |-> MaxOf(0, rx.maxSeq - rx.received),
                 bytes |-> rx.received, seen |-> seen]
<1>3. report' = {r}
  BY DEF Finalize
<1>4. rx.maxSeq \in Nat /\ rx.received \in Nat
  BY <1>1
<1>5. /\ Cardinality(seen) \in Nat /\ Cardinality(seen) <= rx.maxSeq
      /\ Cardinality((1..rx.maxSeq) \ seen) = rx.maxSeq - Cardinality(seen)
  BY <1>1, <1>4, Missing
<1>6. /\ r.packets = rx.maxSeq /\ r.bytes = rx.received /\ r.seen = seen
      /\ r.errors = MaxOf(0, rx.maxSeq - rx.received)
  OBVIOUS
<1>7. /\ MaxOf(0, rx.maxSeq - rx.received) <= rx.maxSeq - Cardinality(seen)
      /\ rx.received = Cardinality(seen) =>
           MaxOf(0, rx.maxSeq - rx.received) = rx.maxSeq - Cardinality(seen)
  BY <1>1, <1>4, <1>5 DEF MaxOf
<1> HIDE DEF r
<1>8. LossReal'
  BY <1>3, <1>5, <1>6, <1>7 DEF LossReal
<1> QED BY <1>2, <1>8 DEF ReceiverInv

\* Every step keeps the receiver's books.  What leaves is a header, and headers are positive.
LEMMA ReceiverInductive == SenderInv /\ ReceiverInv /\ [Next]_vars => ReceiverInv'
<1> SUFFICES ASSUME SenderInv, ReceiverInv, [Next]_vars PROVE ReceiverInv'
  OBVIOUS
<1>1. CASE UNCHANGED receiver /\ wire' \subseteq Nat \ {0}
  BY <1>1 DEF receiver, ReceiverInv, LossReal
<1>2. CASE Finalize \/ \E p \in wire : Deliver(p)
  BY <1>2, FinalizeStep, DeliverStep
<1>3. CASE UNCHANGED <<wire, receiver>>
  <2>1. UNCHANGED receiver /\ wire' = wire /\ wire \subseteq Nat \ {0}
    BY <1>3 DEF ReceiverInv
  <2> QED BY <1>1, <2>1
<1>4. CASE \E p \in wire : Lose(p)
  BY <1>1, <1>4 DEF Lose, ReceiverInv
<1>5. ASSUME NEW i \in 1..Len(sends), Take(i) PROVE ReceiverInv'
  <2>1. header[sends[i].buf] \in Nat \ {0}
    <3>1. sends[i].buf \in 1..Len(header) /\ header \in Seq(Nat \ {0})
      BY DEF SenderInv, Pooled, SenderTypeOK
    <3> QED BY <3>1
  <2>2. UNCHANGED receiver /\ (wire' = wire \/ wire' = wire \cup {header[sends[i].buf]})
    BY <1>5 DEF Take
  <2> QED BY <1>1, <2>1, <2>2 DEF ReceiverInv
<1>6. UNCHANGED <<wire, receiver>> \/ TransferNext
  BY DEF Next, vars, Probing, Start, GiveUp, Transfer, transferVars
<1>7. CASE TransferNext
  <2>1. CASE Wait \/ SendOne \/ Callback \/ End
    BY <1>3, <2>1 DEF Wait, SendOne, Callback, End, transferVars
  <2> QED BY <1>2, <1>4, <1>5, <1>7, <2>1 DEF TransferNext
<1> QED BY <1>3, <1>6, <1>7

\* The losses a receiver reports are datagrams that really did not arrive, whatever the
\* network loses, repeats and reorders.
THEOREM LossesAreReal == Spec => []LossReal
<1>1. Init => SenderInv /\ ReceiverInv
  BY SenderInitial, ReceiverInitial DEF Init
<1>2. SenderInv /\ ReceiverInv /\ [Next]_vars => (SenderInv /\ ReceiverInv)'
  BY SenderInductive, ReceiverInductive
<1>3. ReceiverInv => LossReal
  BY DEF ReceiverInv
<1> QED BY <1>1, <1>2, <1>3, PTL DEF Spec
=============================================================================
