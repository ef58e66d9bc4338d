-------------------------- MODULE ChannelTestProofs --------------------------
(***************************************************************************)
(* Proofs about ChannelTest, for every set of streams, every chunk size,   *)
(* buffer and queue limit: NothingMissing and NothingAfterMarker.          *)
(*                                                                         *)
(* Sound keeps the books of one stream; Accounts carries what they say     *)
(* across the control channel, to the message that lets the client report. *)
(***************************************************************************)
EXTENDS ChannelTest, TLAPS

Messages ==
    {"cookie", "params", "TEST_END", "results", "IPERF_DONE", "PARAM_EXCHANGE",
     "CREATE_STREAMS", "TEST_START", "TEST_RUNNING", "EXCHANGE_RESULTS",
     "DISPLAY_RESULTS", "SERVER_ERROR"}

TypeOK ==
    /\ kind \in {"browser", "rust", "quic"}
    /\ dir \in {"forward", "reverse"}
    /\ toC \in Seq(Messages) /\ toS \in Seq(Messages)
    /\ link \in {"up", "down"}
    /\ stage \in [Streams -> Nat] /\ put \in [Streams -> Nat] /\ sent \in [Streams -> Nat]
    /\ late \in [Streams -> Nat] /\ buf \in [Streams -> Nat] /\ wire \in [Streams -> Nat]
    /\ inq \in [Streams -> Nat] /\ recv \in [Streams -> Nat] /\ report \in [Streams -> Nat]
    /\ loop \in [Streams -> {"running", "stopped"}]
    /\ marker \in [Streams -> {"none", "buffer", "wire", "read"}]
    /\ queue \in [Streams -> {"open", "closed", "error"}]
    /\ task \in [Streams -> {"running", "eof", "error"}]

In(m, q) == \E k \in 1..Len(q) : q[k] = m

\* The sender's counter s lags behind the p pieces put by the part of the chunk that its
\* stage st says has been put.
Lags(st, p, s) == st <= Chunk + 1 /\ p = s + (IF st = 0 THEN 0 ELSE Chunk + 1 - st)

Counted(i) == Lags(stage[i], put[i], sent[i])

\* All that was put is somewhere.
Adds(p, b, w, q, r) == p = b + w + q + r

Whole(i) == Adds(put[i], buf[i], wire[i], inq[i], recv[i])

\* Nothing invents a piece, whatever is dropped.
AtMost(i) == buf[i] + wire[i] + inq[i] + recv[i] <= put[i]

\* The sender is done with its chunks.
Joined(i) == loop[i] = "stopped" /\ stage[i] = 0

\* No marker will be sent any more; only here may a chunk be left half written.
Cut == link = "down" \/ SendingSide \in {"teardown", "failed"}

\* The sender's side of a stream.
SenderSound(i) ==
    /\ Counted(i)
    /\ late[i] = 0
    /\ WebRtc /\ loop[i] = "stopped" => stage[i] = 0 \/ Cut
    /\ WebRtc /\ marker[i] # "none" => \A j \in Streams : Joined(j)

\* The channel and the receiver's side of it.
ReceiverSound(i) ==
    /\ marker[i] \in {"wire", "read"} => buf[i] = 0
    /\ marker[i] = "read" => wire[i] = 0
    /\ queue[i] = "closed" => marker[i] = "read" \/ link = "down"
    /\ AtMost(i)
    /\ queue[i] = "open" \/ (queue[i] = "closed" /\ marker[i] = "read") => Whole(i)
    /\ BrowserReceives => queue[i] = "open" /\ inq[i] = 0 /\ task[i] # "error"
    /\ ~BrowserReceives /\ marker[i] = "read" => queue[i] # "open"
    /\ task[i] = "eof" /\ ~BrowserReceives => queue[i] = "closed" /\ inq[i] = 0
    /\ task[i] = "eof" /\ BrowserReceives => marker[i] = "read"

\* The receiver has seen everything up to the marker.
Complete(i) == task[i] = "eof" /\ marker[i] = "read"

Tallied(i) ==
    IF Reverse
    THEN /\ marker[i] # "none"
         /\ task[i] = "error" \/ Complete(i)
         /\ report[i] <= put[i] /\ put[i] <= report[i] + Chunk
         /\ WebRtc => report[i] = put[i]
    ELSE Complete(i) /\ report[i] = recv[i]

Past == {"results", "done", "closing", "ok"}

\* What a side knows of the streams when it has got, or is about to get, a message.
Accounts ==
    /\ Reverse /\ sv \in Past => MarkersSent
    /\ ~Reverse /\ sv \in Past /\ link = "up" => \A i \in Streams : Complete(i)
    /\ Reverse /\ In("results", toS) => \A i \in Streams : task[i] = "error" \/ Complete(i)
    /\ In("DISPLAY_RESULTS", toC) \/ cl \in Reporting => \A i \in Streams : Tallied(i)

IInv ==
    /\ TypeOK
    /\ \A i \in Streams : SenderSound(i) /\ ReceiverSound(i)
    /\ Accounts

-----------------------------------------------------------------------------
\* The assumption on the constants, in the form the provers use.
LEMMA Constants == Chunk \in Nat \ {0} /\ HighWatermark \in Nat /\ QueueLimit \in Nat
  BY ChannelAssumption

\* The counter, when a chunk is begun, a piece put and a chunk counted, and how far it lags.
LEMMA LagSteps ==
  \A st, p, s \in Nat :
     Lags(st, p, s) =>
        /\ st = 0 => Lags(Chunk + 1, p, s)
        /\ st > 1 => Lags(st - 1, p + 1, s)
        /\ st = 1 => Lags(0, p, s + Chunk)
        /\ s <= p /\ p <= s + Chunk /\ (st = 0 => s = p)
  BY SMTT(30), Constants DEF Lags

\* The sum of the pieces, when one is put, sent, counted by the browser or queued.
LEMMA SumSteps ==
  \A p, b, w, q, r \in Nat :
     Adds(p, b, w, q, r) =>
        /\ Adds(p + 1, b + 1, w, q, r)
        /\ Adds(p, b - 1, w + 1, q, r)
        /\ Adds(p, b, w - 1, q, r + 1)
        /\ Adds(p, b, w - 1, q + 1, r)
        /\ Adds(p, b, w, 0, r + q)
  BY SMTT(30) DEF Adds

\* With nothing on its way everything put has been received.
LEMMA AllReceived == \A p, r \in Nat : Adds(p, 0, 0, 0, r) => r = p
  BY SMTT(30) DEF Adds

\* The same for a sum that has lost pieces, and when one more is dropped.
LEMMA BoundSteps ==
  \A p, b, w, q, r \in Nat :
     b + w + q + r <= p =>
        /\ (b + 1) + w + q + r <= p + 1
        /\ (b - 1) + (w + 1) + q + r <= p
        /\ b + (w - 1) + q + (r + 1) <= p
        /\ b + (w - 1) + (q + 1) + r <= p
        /\ b + w + 0 + (r + q) <= p
        /\ b + (w - 1) + q + r <= p
        /\ r <= p
  BY SMTT(30)

\* A message of a queue's tail was in the queue: a read adds none.
LEMMA InTail ==
  ASSUME NEW q \in Seq(Messages), NEW m, q # <<>>, In(m, Tail(q))
  PROVE  In(m, q)
  BY DEF In

\* What was lost with a connection adds no message.
LEMMA InPrefix ==
  ASSUME NEW q \in Seq(Messages), NEW m, NEW k \in 0..Len(q), In(m, SubSeq(q, 1, k))
  PROVE  In(m, q)
  BY DEF In

\* A write adds only what is written.
LEMMA InConcat ==
  ASSUME NEW q \in Seq(Messages), NEW r \in Seq(Messages), NEW m, In(m, q \o r)
  PROVE  In(m, q) \/ In(m, r)
  BY DEF In

\* The message at the head is in the queue.
LEMMA InHead ==
  ASSUME NEW q \in Seq(Messages), q # <<>>
  PROVE  In(Head(q), q)
  BY DEF In

\* The lists of messages that are written: only one of the client's holds its
\* results, and only one of the server's lets the client report.
LEMMA Written ==
  /\ <<>> \in Seq(Messages) /\ <<"params">> \in Seq(Messages)
  /\ <<"results">> \in Seq(Messages) /\ <<"IPERF_DONE">> \in Seq(Messages)
  /\ <<"TEST_END">> \in Seq(Messages) /\ <<"PARAM_EXCHANGE">> \in Seq(Messages)
  /\ <<"CREATE_STREAMS">> \in Seq(Messages)
  /\ <<"TEST_START", "TEST_RUNNING">> \in Seq(Messages)
  /\ <<"EXCHANGE_RESULTS">> \in Seq(Messages)
  /\ <<"results", "DISPLAY_RESULTS">> \in Seq(Messages)
  /\ <<"SERVER_ERROR">> \in Seq(Messages)
  BY DEF Messages

\* None of the client's other messages is its results.
LEMMA WrittenByClient ==
  /\ ~In("results", <<>>) /\ ~In("results", <<"params">>)
  /\ ~In("results", <<"IPERF_DONE">>) /\ ~In("results", <<"TEST_END">>)
  BY DEF In

\* None of the server's other messages lets the client report.
LEMMA WrittenByServer ==
  /\ ~In("DISPLAY_RESULTS", <<>>) /\ ~In("DISPLAY_RESULTS", <<"PARAM_EXCHANGE">>)
  /\ ~In("DISPLAY_RESULTS", <<"CREATE_STREAMS">>)
  /\ ~In("DISPLAY_RESULTS", <<"TEST_START", "TEST_RUNNING">>)
  /\ ~In("DISPLAY_RESULTS", <<"EXCHANGE_RESULTS">>)
  /\ ~In("DISPLAY_RESULTS", <<"IPERF_DONE">>) /\ ~In("DISPLAY_RESULTS", <<"SERVER_ERROR">>)
  BY DEF In

-----------------------------------------------------------------------------
(* What the actions do to the control channel. *)

\* A connection that ends adds no message, whatever it loses.
LEMMA ArrivesQuiet ==
  ASSUME NEW q \in Seq(Messages), NEW r \in Arrives(q)
  PROVE  r \in Seq(Messages) /\ \A m : In(m, r) => In(m, q)
<1>1. CASE r = q
  BY <1>1
<1>2. ASSUME NEW k \in 0..Len(q), r = SubSeq(q, 1, k)
      PROVE  r \in Seq(Messages) /\ \A m : In(m, r) => In(m, q)
  BY <1>2, InPrefix
<1> QED  BY <1>1, <1>2 DEF Arrives

\* A client that reads a message and writes others.
LEMMA TakesAdds ==
  ASSUME TypeOK, toC # <<>>, NEW next, NEW ms \in Seq(Messages), Takes(next, ms)
  PROVE  /\ toC' \in Seq(Messages) /\ toS' \in Seq(Messages) /\ link' = link /\ cl' = next
         /\ \A m : In(m, toC') => In(m, toC)
         /\ \A m : In(m, toS') => In(m, toS) \/ (link = "up" /\ In(m, ms))
<1>1. toC' = Tail(toC) /\ link' = link /\ cl' = next
  BY DEF Takes
<1>2. toC' \in Seq(Messages)
  BY <1>1 DEF TypeOK
<1>3. \A m : In(m, toC') => In(m, toC)
  BY <1>1, InTail DEF TypeOK
<1>4. CASE link = "up" /\ sv # "teardown"
  <2>1. toS' = toS \o ms
    BY <1>4 DEF Takes, ToServer
  <2>2. toS' \in Seq(Messages)
    BY <2>1 DEF TypeOK
  <2> QED  BY <1>1, <1>2, <1>3, <1>4, <2>1, <2>2, InConcat DEF TypeOK
<1>5. CASE ~(link = "up" /\ sv # "teardown")
  <2>1. toS' = toS
    BY <1>5 DEF Takes, ToServer
  <2> QED  BY <1>1, <1>2, <1>3, <2>1 DEF TypeOK
<1> QED  BY <1>4, <1>5

\* A client that only writes.
LEMMA ToServerAdds ==
  ASSUME TypeOK, NEW ms \in Seq(Messages), ToServer(ms)
  PROVE  /\ toS' \in Seq(Messages)
         /\ \A m : In(m, toS') => In(m, toS) \/ (link = "up" /\ In(m, ms))
<1>1. CASE link = "up" /\ sv # "teardown"
  <2>1. toS' = toS \o ms
    BY <1>1 DEF ToServer
  <2>2. toS' \in Seq(Messages) /\ \A m : In(m, toS') => In(m, toS) \/ In(m, ms)
    BY <2>1, InConcat DEF TypeOK
  <2> QED  BY <1>1, <2>2
<1>2. CASE ~(link = "up" /\ sv # "teardown")
  BY <1>2 DEF ToServer, TypeOK
<1> QED  BY <1>1, <1>2

\* A server that writes.
LEMMA ToClientAdds ==
  ASSUME TypeOK, NEW ms \in Seq(Messages), ToClient(ms)
  PROVE  /\ toC' \in Seq(Messages)
         /\ \A m : In(m, toC') => In(m, toC) \/ (link = "up" /\ In(m, ms))
<1>1. CASE link = "up" /\ cl # "teardown"
  <2>1. toC' = toC \o ms
    BY <1>1 DEF ToClient
  <2>2. toC' \in Seq(Messages) /\ \A m : In(m, toC') => In(m, toC) \/ In(m, ms)
    BY <2>1, InConcat DEF TypeOK
  <2> QED  BY <1>1, <2>2
<1>2. CASE ~(link = "up" /\ cl # "teardown")
  BY <1>2 DEF ToClient, TypeOK
<1> QED  BY <1>1, <1>2

\* The error of the server tells the client nothing but that.
LEMMA ServerErrsQuiet ==
  ASSUME TypeOK, ServerErrs
  PROVE  /\ toC' \in Seq(Messages) /\ toS' \in Seq(Messages) /\ link' = link /\ sv' = "teardown"
         /\ In("DISPLAY_RESULTS", toC') => In("DISPLAY_RESULTS", toC)
         /\ In("results", toS') => In("results", toS)
<1> DEFINE ms == IF sv = "cookie" THEN <<>> ELSE <<"SERVER_ERROR">>
<1>1. ms \in Seq(Messages) /\ ~In("DISPLAY_RESULTS", ms)
  BY Written, WrittenByServer
<1>2. ToClient(ms) /\ toS' = <<>> /\ link' = link /\ sv' = "teardown"
  BY DEF ServerErrs
<1> HIDE DEF ms
<1>3. toC' \in Seq(Messages) /\ (In("DISPLAY_RESULTS", toC') => In("DISPLAY_RESULTS", toC))
  BY ZenonT(30), <1>1, <1>2, ToClientAdds
<1>4. toS' \in Seq(Messages) /\ ~In("results", toS')
  BY <1>2, Written, WrittenByClient
<1> QED  BY <1>2, <1>3, <1>4

\* A client that ends.
LEMMA ClientEndsQuiet ==
  ASSUME TypeOK, NEW verdict, ClientEnds(verdict)
  PROVE  /\ toC' \in Seq(Messages) /\ toS' \in Seq(Messages) /\ link' = "down" /\ cl' = verdict
         /\ In("DISPLAY_RESULTS", toC') => In("DISPLAY_RESULTS", toC)
         /\ In("results", toS') => In("results", toS)
<1>1. toC' = <<>> /\ toS' \in Arrives(toS) /\ link' = "down" /\ cl' = verdict
      /\ toS \in Seq(Messages)
  BY DEF ClientEnds, TypeOK
<1>2. toC' \in Seq(Messages) /\ ~In("DISPLAY_RESULTS", toC')
  BY <1>1, Written, WrittenByServer
<1> QED  BY ZenonT(30), <1>1, <1>2, ArrivesQuiet

\* A client that gives up.
LEMMA ClientErrsQuiet ==
  ASSUME TypeOK, ClientErrs
  PROVE  /\ toC' \in Seq(Messages) /\ toS' \in Seq(Messages) /\ link' \in {link, "down"}
         /\ cl' \in {"teardown", "failed"}
         /\ In("DISPLAY_RESULTS", toC') => In("DISPLAY_RESULTS", toC)
         /\ In("results", toS') => In("results", toS)
<1>1. CASE kind = "browser"
  BY <1>1, ClientEndsQuiet DEF ClientErrs
<1>2. CASE kind # "browser"
  <2>1. toC' = <<>> /\ toS' = toS /\ link' = link /\ cl' = "teardown" /\ toS \in Seq(Messages)
    BY <1>2 DEF ClientErrs, TypeOK
  <2>2. toC' \in Seq(Messages) /\ ~In("DISPLAY_RESULTS", toC')
    BY <2>1, Written, WrittenByServer
  <2> QED  BY <2>1, <2>2
<1> QED  BY <1>1, <1>2

-----------------------------------------------------------------------------
(* The steps of client and server: they leave the streams alone. *)

\* A client that has given up never goes back.
LEMMA ClientPlaces ==
  ASSUME ClientStep
  PROVE  /\ sv' = sv /\ dir' = dir /\ link' \in {link, "down"}
         /\ cl \in {"teardown", "failed"} => cl' = "failed"
<1>1. CASE ReadState
  BY ZenonT(30), <1>1 DEF ReadState, setup, Takes, ClientErrs, ClientEnds
<1>2. CASE PayloadsOpen
  BY ZenonT(30), <1>2 DEF PayloadsOpen, setup
<1>3. CASE Deadline
  BY ZenonT(30), <1>3 DEF Deadline, setup
<1>4. CASE ClientStopped
  BY ZenonT(30), <1>4 DEF ClientStopped, setup
<1>5. CASE ClientDrained
  BY ZenonT(30), <1>5 DEF ClientDrained, setup
<1>6. CASE ReadResults
  BY ZenonT(30), <1>6 DEF ReadResults, setup, Takes, ClientErrs, ClientEnds
<1>7. CASE ReadAck
  BY ZenonT(30), <1>7 DEF ReadAck, setup, ClientErrs, ClientEnds
<1>8. CASE QuicCloses
  BY ZenonT(30), <1>8 DEF QuicCloses, setup, ClientEnds
<1>9. CASE ClientFails
  BY ZenonT(30), <1>9 DEF ClientFails, setup, ClientErrs, ClientEnds, ClientEnded
<1>10. CASE ClientTornDown
  BY ZenonT(30), <1>10 DEF ClientTornDown, setup, ClientEnds
<1> QED  BY <1>1, <1>2, <1>3, <1>4, <1>5, <1>6, <1>7, <1>8, <1>9, <1>10 DEF ClientStep

\* Nor does a server.
LEMMA ServerPlaces ==
  ASSUME ServerStep
  PROVE  /\ cl' = cl /\ dir' = dir /\ link' \in {link, "down"}
         /\ sv \in {"teardown", "failed"} => sv' = "failed"
<1>1. CASE ReadCookie
  BY ZenonT(30), <1>1 DEF ReadCookie, setup, Answers
<1>2. CASE ReadParams
  BY ZenonT(30), <1>2 DEF ReadParams, setup, Answers
<1>3. CASE CollectStreams
  BY ZenonT(30), <1>3 DEF CollectStreams, setup
<1>4. CASE ReadTestEnd
  BY ZenonT(30), <1>4 DEF ReadTestEnd, setup, Answers
<1>5. CASE ServerDrained
  BY ZenonT(30), <1>5 DEF ServerDrained, setup, ServerErrs
<1>6. CASE ReadClientResults
  BY ZenonT(30), <1>6 DEF ReadClientResults, setup, Answers
<1>7. CASE ReadDone
  BY ZenonT(30), <1>7 DEF ReadDone, setup, Answers
<1>8. CASE PeerClosed
  BY ZenonT(30), <1>8 DEF PeerClosed, setup
<1>9. CASE ServerFails
  BY ZenonT(30), <1>9 DEF ServerFails, setup, ServerErrs, ServerEnded
<1>10. CASE ServerTornDown
  BY ZenonT(30), <1>10 DEF ServerTornDown, setup
<1> QED  BY <1>1, <1>2, <1>3, <1>4, <1>5, <1>6, <1>7, <1>8, <1>9, <1>10 DEF ServerStep

\* So where no marker is sent any more none will be.
LEMMA CutStays ==
  ASSUME ClientStep \/ ServerStep \/ LinkLost
  PROVE  Cut => Cut'
<1>1. CASE ClientStep
  BY <1>1, ClientPlaces DEF Cut, SendingSide, Reverse
<1>2. CASE ServerStep
  BY <1>2, ServerPlaces DEF Cut, SendingSide, Reverse
<1>3. CASE LinkLost
  BY <1>3 DEF Cut, LinkLost
<1> QED  BY <1>1, <1>2, <1>3

\* What a failure does to the senders: a timer that fires aborts them all.
LoopKept == loop' = loop \/ (Cut' /\ \A i \in Streams : loop'[i] = "stopped")

\* Types and books do not depend on where client and server are.
LEMMA StreamsKept ==
  ASSUME IInv, UNCHANGED <<setup, stage, put, sent, late, transit, receiver>>,
         loop' \in [Streams -> {"running", "stopped"}], LoopKept, Cut => Cut',
         toC' \in Seq(Messages), toS' \in Seq(Messages), link' \in {link, "down"},
         report' \in [Streams -> Nat]
  PROVE  /\ TypeOK'
         /\ \A i \in Streams : SenderSound(i)' /\ ReceiverSound(i)'
         /\ Reverse' = Reverse /\ WebRtc' = WebRtc /\ MarkersSent' = MarkersSent
         /\ \A i \in Streams : Complete(i)' = Complete(i)
<1>1. TypeOK'
  BY DEF IInv, TypeOK, setup, transit, receiver
<1>2. ASSUME NEW i \in Streams  PROVE SenderSound(i)'
  <2>0. SenderSound(i) /\ UNCHANGED <<kind, stage, put, sent, late, marker>>
    BY DEF IInv, setup, transit
  <2>1. \A j \in Streams : loop[j] = "stopped" => loop'[j] = "stopped"
    BY DEF LoopKept
  <2>2. Counted(i)' /\ WebRtc' = WebRtc /\ \A j \in Streams : Joined(j) => Joined(j)'
    BY ZenonT(30), <2>0, <2>1 DEF SenderSound, Counted, Lags, WebRtc, Joined
  <2>3. WebRtc /\ loop'[i] = "stopped" => stage'[i] = 0 \/ Cut'
    BY ZenonT(30), <2>0 DEF SenderSound, LoopKept
  <2> QED  BY ZenonT(30), <2>0, <2>2, <2>3 DEF SenderSound
<1>3. \A i \in Streams : ReceiverSound(i)'
  BY DEF IInv, ReceiverSound, Whole, Adds, AtMost, BrowserReceives, Reverse, setup, transit, receiver
<1>4. /\ Reverse' = Reverse /\ WebRtc' = WebRtc /\ MarkersSent' = MarkersSent
      /\ \A i \in Streams : Complete(i)' = Complete(i)
  BY DEF Reverse, WebRtc, MarkersSent, Complete, setup, transit, receiver
<1> QED  BY <1>1, <1>2, <1>3, <1>4

\* A step that brings no news about the streams.
LEMMA QuietAbort ==
  ASSUME IInv, UNCHANGED <<setup, stage, put, sent, late, transit, receiver, report>>,
         loop' \in [Streams -> {"running", "stopped"}], LoopKept, Cut => Cut',
         toC' \in Seq(Messages), toS' \in Seq(Messages), link' \in {link, "down"},
         sv' \in Past => sv \in Past,
         Reverse /\ In("results", toS') => In("results", toS),
         In("DISPLAY_RESULTS", toC') => In("DISPLAY_RESULTS", toC),
         cl' \in Reporting => cl \in Reporting \/ In("DISPLAY_RESULTS", toC)
  PROVE  IInv'
<1>1. report' \in [Streams -> Nat] /\ UNCHANGED <<setup, stage, put, sent, late, transit, receiver>>
  BY DEF IInv, TypeOK
<1>2. /\ TypeOK'
      /\ \A i \in Streams : SenderSound(i)' /\ ReceiverSound(i)'
      /\ Reverse' = Reverse /\ WebRtc' = WebRtc /\ MarkersSent' = MarkersSent
      /\ \A i \in Streams : Complete(i)' = Complete(i)
  BY <1>1, StreamsKept
<1>3. \A i \in Streams : Tallied(i)' = Tallied(i)
  BY ZenonT(30), <1>2 DEF Tallied, transit, receiver
<1>4. task' = task
  BY DEF receiver
<1>5. Accounts'
  BY <1>2, <1>3, <1>4 DEF IInv, Accounts
<1> QED  BY <1>2, <1>5 DEF IInv

\* The same when no sender is touched.
LEMMA QuietControl ==
  ASSUME IInv, UNCHANGED <<setup, sender, transit, receiver, report>>, Cut => Cut',
         toC' \in Seq(Messages), toS' \in Seq(Messages), link' \in {link, "down"},
         sv' \in Past => sv \in Past,
         Reverse /\ In("results", toS') => In("results", toS),
         In("DISPLAY_RESULTS", toC') => In("DISPLAY_RESULTS", toC),
         cl' \in Reporting => cl \in Reporting \/ In("DISPLAY_RESULTS", toC)
  PROVE  IInv'
<1>1. /\ UNCHANGED <<setup, stage, put, sent, late, transit, receiver, report>> /\ LoopKept
      /\ loop' \in [Streams -> {"running", "stopped"}]
  BY DEF sender, LoopKept, IInv, TypeOK
<1> QED  BY <1>1, QuietAbort

\* An abort that comes with the end of the sending side.
LEMMA AbortKept ==
  ASSUME AbortSenders, Cut'
  PROVE  /\ LoopKept /\ UNCHANGED <<stage, put, sent, late>>
         /\ loop' \in [Streams -> {"running", "stopped"}]
  BY DEF AbortSenders, LoopKept

\* The client's steps, but for the end of its drain, bring no news.
LEMMA ClientQuiet ==
  ASSUME IInv,
         ReadState \/ PayloadsOpen \/ Deadline \/ ClientStopped \/ ReadResults
            \/ ReadAck \/ QuicCloses \/ ClientFails \/ ClientTornDown
  PROVE  IInv'
<1> USE DEF Reporting
<1>0. TypeOK /\ toC \in Seq(Messages) /\ toS \in Seq(Messages)
  BY DEF IInv, TypeOK
<1>c. Cut => Cut'
  BY CutStays DEF ClientStep
<1>1. CASE ReadState
  <2> DEFINE m == Head(toC)
  <2>0. toC # <<>> /\ In(m, toC) /\ cl = "reading" /\ sv' = sv
        /\ UNCHANGED <<setup, sender, transit, receiver, report>>
    BY <1>0, <1>1, InHead DEF ReadState
  <2>1. CASE m = "EXCHANGE_RESULTS" /\ ~Reverse /\ Takes("results", <<"results">>)
    <3>1. /\ toC' \in Seq(Messages) /\ toS' \in Seq(Messages) /\ link' = link /\ cl' = "results"
          /\ In("DISPLAY_RESULTS", toC') => In("DISPLAY_RESULTS", toC)
      BY ZenonT(30), <1>0, <2>0, <2>1, TakesAdds, Written
    <3> QED  BY <2>0, <2>1, <3>1, <1>c, QuietControl
  <2>2. CASE m = "DISPLAY_RESULTS"
             /\ Takes(IF WebRtc THEN "ack" ELSE "closing", <<"IPERF_DONE">>)
    <3>1. toC' \in Seq(Messages) /\ toS' \in Seq(Messages) /\ link' = link
      BY ZenonT(30), <1>0, <2>0, <2>2, TakesAdds, Written
    <3>2. In("DISPLAY_RESULTS", toC') => In("DISPLAY_RESULTS", toC)
      BY <1>0, <2>0, <2>2, TakesAdds, Written
    <3>3. In("results", toS') => In("results", toS)
      BY ZenonT(30), <1>0, <2>0, <2>2, TakesAdds, Written, WrittenByClient
    <3> QED  BY <2>0, <2>2, <3>1, <3>2, <3>3, <1>c, QuietControl
  <2>3. CASE Takes("reading", <<"params">>)
    BY ZenonT(30), <1>0, <2>0, <2>3, TakesAdds, Written, WrittenByClient, <1>c, QuietControl
  <2>4. ASSUME NEW next \in {"opening", "reading", "running", "draining"}, Takes(next, <<>>)
        PROVE  IInv'
    BY ZenonT(30), <1>0, <2>0, <2>4, TakesAdds, Written, WrittenByClient, <1>c, QuietControl
  <2>5. CASE ClientErrs
    BY <1>0, <2>0, <2>5, ClientErrsQuiet, <1>c, QuietControl
  <2> QED  BY <1>1, <2>1, <2>2, <2>3, <2>4, <2>5 DEF ReadState
<1>2. CASE PayloadsOpen
  BY <1>0, <1>2, <1>c, QuietControl DEF PayloadsOpen
<1>3. CASE Deadline
  <2>1. CASE WebRtc /\ ~Reverse
    BY ZenonT(30), <1>0, <1>3, <2>1, ToServerAdds, Written, WrittenByClient, <1>c, QuietControl DEF Deadline
  <2>2. CASE ~(WebRtc /\ ~Reverse)
    BY ZenonT(30), <1>0, <1>3, <2>2, ToServerAdds, Written, WrittenByClient, <1>c, QuietControl DEF Deadline
  <2> QED  BY <2>1, <2>2
<1>4. CASE ClientStopped
  <2>1. CASE WebRtc
    BY ZenonT(30), <1>0, <1>4, <2>1, ToServerAdds, Written, WrittenByClient, <1>c, QuietControl DEF ClientStopped
  <2>2. CASE ~WebRtc
    BY ZenonT(30), <1>0, <1>4, <2>2, ToServerAdds, Written, WrittenByClient, <1>c, QuietControl DEF ClientStopped
  <2> QED  BY <2>1, <2>2
<1>5. CASE ReadResults
  <2>1. CASE Takes("reading", <<>>)
    <3>1. toC # <<>> /\ sv' = sv /\ UNCHANGED <<setup, sender, transit, receiver, report>>
      BY <1>5 DEF ReadResults
    <3>2. /\ toC' \in Seq(Messages) /\ toS' \in Seq(Messages) /\ link' = link /\ cl' = "reading"
          /\ In("DISPLAY_RESULTS", toC') => In("DISPLAY_RESULTS", toC)
          /\ In("results", toS') => In("results", toS)
      BY ZenonT(30), <1>0, <2>1, <3>1, TakesAdds, Written, WrittenByClient
    <3> QED  BY <3>1, <3>2, <1>c, QuietControl
  <2>2. CASE ClientErrs
    BY <1>0, <1>5, <2>2, ClientErrsQuiet, <1>c, QuietControl DEF ReadResults
  <2> QED  BY <1>5, <2>1, <2>2 DEF ReadResults
<1>6. CASE ReadAck
  <2>0. cl = "ack" /\ sv' = sv /\ UNCHANGED <<setup, sender, transit, receiver, report>>
    BY <1>6 DEF ReadAck
  <2>1. ASSUME NEW verdict, ClientEnds(verdict)  PROVE IInv'
    BY <1>0, <2>0, <2>1, ClientEndsQuiet, <1>c, QuietControl
  <2>2. CASE ClientErrs
    BY <1>0, <2>0, <2>2, ClientErrsQuiet, <1>c, QuietControl
  <2> QED  BY <1>6, <2>1, <2>2 DEF ReadAck
<1>7. CASE QuicCloses
  BY <1>0, <1>7, ClientEndsQuiet, <1>c, QuietControl DEF QuicCloses
<1>8. CASE ClientFails
  <2>1. ClientErrs /\ sv' = sv /\ UNCHANGED <<setup, transit, receiver, report>>
    BY <1>8 DEF ClientFails
  <2>2. CASE UNCHANGED sender
    BY <1>0, <2>1, <2>2, ClientErrsQuiet, <1>c, QuietControl
  <2>3. CASE ~Reverse /\ AbortSenders
    <3>1. Cut'
      BY <2>1, <2>3, ClientErrsQuiet, <1>0 DEF Cut, SendingSide, Reverse, setup
    <3> QED  BY <1>0, <2>1, <2>3, <3>1, AbortKept, ClientErrsQuiet, <1>c, QuietAbort
  <2> QED  BY <1>8, <2>2, <2>3 DEF ClientFails
<1>9. CASE ClientTornDown
  <2>1. ClientEnds("failed") /\ sv' = sv /\ UNCHANGED <<setup, transit, receiver, report>>
    BY <1>9 DEF ClientTornDown
  <2>2. CASE UNCHANGED sender
    BY <1>0, <2>1, <2>2, ClientEndsQuiet, <1>c, QuietControl
  <2>3. CASE AbortSenders
    BY <1>0, <2>1, <2>3, AbortKept, ClientEndsQuiet, <1>c, QuietAbort DEF Cut
  <2> QED  BY <1>9, <2>2, <2>3 DEF ClientTornDown
<1> QED  BY <1>1, <1>2, <1>3, <1>4, <1>5, <1>6, <1>7, <1>8, <1>9

\* What the drain of a receiving client has seen goes into its results.
LEMMA ClientDrainedKeeps ==
  ASSUME IInv, ClientDrained
  PROVE  IInv'
<1>0. /\ UNCHANGED <<setup, sender, transit, receiver, report>> /\ sv' = sv /\ link' = link
      /\ toC' = toC /\ cl' = "results" /\ ReceiversDone /\ ToServer(<<"results">>) /\ TypeOK
  BY DEF ClientDrained, IInv
<1>c. (Cut => Cut') /\ LoopKept /\ UNCHANGED <<setup, stage, put, sent, late, transit, receiver>>
      /\ loop' \in [Streams -> {"running", "stopped"}]
  BY <1>0, CutStays DEF ClientStep, LoopKept, sender, TypeOK
<1>1. toS' \in Seq(Messages) /\ (In("results", toS') => In("results", toS) \/ link = "up")
  BY ZenonT(30), <1>0, ToServerAdds, Written
<1>2. toC' \in Seq(Messages) /\ report' \in [Streams -> Nat]
  BY <1>0 DEF TypeOK
<1>3. /\ TypeOK'
      /\ \A i \in Streams : SenderSound(i)' /\ ReceiverSound(i)'
      /\ Reverse' = Reverse /\ WebRtc' = WebRtc /\ MarkersSent' = MarkersSent
      /\ \A i \in Streams : Complete(i)' = Complete(i)
  BY <1>0, <1>1, <1>2, <1>c, StreamsKept
<1>4. \A i \in Streams : Tallied(i)' = Tallied(i)
  BY ZenonT(30), <1>0, <1>3 DEF Tallied, sender, transit, receiver
<1>5. link = "up" => \A i \in Streams : task[i] = "error" \/ Complete(i)
  BY <1>0 DEF IInv, TypeOK, ReceiverSound, ReceiversDone, Complete
<1>6. task' = task
  BY <1>0 DEF receiver
<1>7. Accounts'
  BY <1>0, <1>1, <1>3, <1>4, <1>5, <1>6 DEF IInv, Accounts, Reporting
<1> QED  BY <1>3, <1>7 DEF IInv

\* A server that reads a message and answers it.
LEMMA AnswersAdds ==
  ASSUME TypeOK, NEW from, NEW m, NEW next, NEW ms \in Seq(Messages), Answers(from, m, next, ms)
  PROVE  /\ toC' \in Seq(Messages) /\ toS' \in Seq(Messages) /\ link' = link /\ cl' = cl
         /\ sv = from /\ sv' = next /\ In(m, toS)
         /\ UNCHANGED <<setup, sender, transit, receiver>>
         /\ \A n : In(n, toS') => In(n, toS)
         /\ \A n : In(n, toC') => In(n, toC) \/ (link = "up" /\ In(n, ms))
<1>1. /\ sv = from /\ toS # <<>> /\ Head(toS) = m /\ sv' = next /\ toS' = Tail(toS)
      /\ ToClient(ms) /\ link' = link /\ cl' = cl /\ UNCHANGED <<setup, sender, transit, receiver>>
  BY DEF Answers
<1>2. toS \in Seq(Messages)
  BY DEF TypeOK
<1>3. toS' \in Seq(Messages) /\ In(m, toS)
  BY <1>1, <1>2, InHead
<1>4. \A n : In(n, toS') => In(n, toS)
  BY <1>1, <1>2, InTail
<1>5. toC' \in Seq(Messages) /\ \A n : In(n, toC') => In(n, toC) \/ (link = "up" /\ In(n, ms))
  BY <1>1, ToClientAdds
<1> QED  BY <1>1, <1>3, <1>4, <1>5

\* Such an answer brings no news, unless it lets the client report.
LEMMA AnswersQuiet ==
  ASSUME IInv, NEW from, NEW m, NEW next, NEW ms \in Seq(Messages),
         Answers(from, m, next, ms), report' = report,
         ~In("DISPLAY_RESULTS", ms), next \in Past => from \in Past, Cut => Cut'
  PROVE  IInv'
<1>1. /\ toC' \in Seq(Messages) /\ toS' \in Seq(Messages) /\ link' = link /\ cl' = cl
      /\ sv = from /\ sv' = next
      /\ UNCHANGED <<setup, sender, transit, receiver>>
      /\ In("results", toS') => In("results", toS)
      /\ In("DISPLAY_RESULTS", toC') => In("DISPLAY_RESULTS", toC)
  BY AnswersAdds DEF IInv
<1> QED  BY <1>1, QuietControl

\* The server's steps up to the drain and after the results bring no news, nor does
\* the loss of the connection.
LEMMA ServerQuiet ==
  ASSUME IInv,
         ReadCookie \/ ReadParams \/ CollectStreams \/ ReadTestEnd \/ ReadDone
            \/ PeerClosed \/ ServerFails \/ ServerTornDown \/ LinkLost
  PROVE  IInv'
<1> USE DEF Past
<1>0. TypeOK /\ toC \in Seq(Messages) /\ toS \in Seq(Messages)
  BY DEF IInv, TypeOK
<1>c. Cut => Cut'
  BY CutStays DEF ServerStep
<1>1. CASE ReadCookie
  <2>1. Answers("cookie", "cookie", "params", <<"PARAM_EXCHANGE">>) /\ report' = report
    BY <1>1 DEF ReadCookie
  <2> QED  BY ZenonT(30), <2>1, <1>c, AnswersQuiet, Written, WrittenByServer
<1>2. CASE ReadParams
  <2>1. Answers("params", "params", "streams", <<"CREATE_STREAMS">>) /\ report' = report
    BY <1>2 DEF ReadParams
  <2> QED  BY ZenonT(30), <2>1, <1>c, AnswersQuiet, Written, WrittenByServer
<1>3. CASE ReadTestEnd
  <2>1. Answers("running", "TEST_END", "draining", <<>>) /\ report' = report
    BY <1>3 DEF ReadTestEnd
  <2> QED  BY ZenonT(30), <2>1, <1>c, AnswersQuiet, Written, WrittenByServer
<1>4. CASE CollectStreams
  BY ZenonT(30), <1>0, <1>4, ToClientAdds, Written, WrittenByServer, <1>c, QuietControl DEF CollectStreams
<1>5. CASE ReadDone
  <2>1. CASE WebRtc
    <3>1. Answers("done", "IPERF_DONE", "closing", <<"IPERF_DONE">>) /\ report' = report
      BY <1>5, <2>1 DEF ReadDone
    <3> QED  BY ZenonT(30), <3>1, <1>c, AnswersQuiet, Written, WrittenByServer
  <2>2. CASE ~WebRtc
    <3>1. Answers("done", "IPERF_DONE", "ok", <<>>) /\ report' = report
      BY <1>5, <2>2 DEF ReadDone
    <3> QED  BY ZenonT(30), <3>1, <1>c, AnswersQuiet, Written, WrittenByServer
  <2> QED  BY <2>1, <2>2
<1>6. CASE PeerClosed
  BY <1>0, <1>6, <1>c, QuietControl DEF PeerClosed
<1>7. CASE ServerFails
  <2>1. ServerErrs /\ cl' = cl /\ UNCHANGED <<setup, transit, receiver, report>>
    BY <1>7 DEF ServerFails
  <2>2. CASE UNCHANGED sender
    BY <1>0, <2>1, <2>2, ServerErrsQuiet, <1>c, QuietControl
  <2>3. CASE Reverse /\ AbortSenders
    <3>1. Cut'
      BY <1>0, <2>1, <2>3, ServerErrsQuiet DEF Cut, SendingSide, Reverse, setup
    <3> QED  BY <1>0, <2>1, <2>3, <3>1, AbortKept, ServerErrsQuiet, <1>c, QuietAbort
  <2> QED  BY <1>7, <2>2, <2>3 DEF ServerFails
<1>8. CASE LinkLost
  <2>1. link' = "down" /\ toC' \in Arrives(toC) /\ toS' \in Arrives(toS) /\ cl' = cl /\ sv' = sv
        /\ UNCHANGED <<setup, sender, transit, receiver, report>>
    BY <1>8 DEF LinkLost
  <2> QED  BY <1>0, <2>1, ArrivesQuiet, <1>c, QuietControl
<1>9. CASE ServerTornDown
  <2>1. link' = "down" /\ toC' \in Arrives(toC) /\ toS' = toS /\ cl' = cl /\ sv' = "failed"
        /\ UNCHANGED <<setup, transit, receiver, report>>
    BY <1>9 DEF ServerTornDown
  <2>2. CASE UNCHANGED sender
    BY <1>0, <2>1, <2>2, ArrivesQuiet, <1>c, QuietControl
  <2>3. CASE AbortSenders
    BY <1>0, <2>1, <2>3, ArrivesQuiet, AbortKept, <1>c, QuietAbort DEF Cut
  <2> QED  BY <1>9, <2>2, <2>3 DEF ServerTornDown
<1> QED  BY <1>1, <1>2, <1>3, <1>4, <1>5, <1>6, <1>7, <1>8, <1>9

\* What the drain of the server has seen is what it asks the results on.
LEMMA ServerDrainedKeeps ==
  ASSUME IInv, ServerDrained
  PROVE  IInv'
<1>0. /\ UNCHANGED <<setup, sender, transit, receiver, report>> /\ cl' = cl /\ TypeOK
      /\ (IF Reverse THEN MarkersSent ELSE ReceiversDone)
  BY DEF ServerDrained, IInv
<1>c. (Cut => Cut') /\ LoopKept /\ UNCHANGED <<setup, stage, put, sent, late, transit, receiver>>
      /\ loop' \in [Streams -> {"running", "stopped"}]
  BY <1>0, CutStays DEF ServerStep, LoopKept, sender, TypeOK
<1>1. CASE ~Reverse /\ \E i \in Streams : task[i] = "error"
  <2>1. ServerErrs
    BY <1>1 DEF ServerDrained
  <2> QED  BY <1>0, <1>c, <2>1, ServerErrsQuiet, QuietControl DEF Past
<1>2. CASE Reverse \/ \A i \in Streams : task[i] # "error"
  <2>0. sv' = "results" /\ ToClient(<<"EXCHANGE_RESULTS">>) /\ toS' = toS /\ link' = link
    BY <1>2 DEF ServerDrained
  <2>1. toC' \in Seq(Messages) /\ (In("DISPLAY_RESULTS", toC') => In("DISPLAY_RESULTS", toC))
    BY ZenonT(30), <1>0, <2>0, ToClientAdds, Written, WrittenByServer
  <2>2. toS' \in Seq(Messages) /\ report' \in [Streams -> Nat]
    BY <1>0, <2>0 DEF TypeOK
  <2>3. /\ TypeOK'
        /\ \A i \in Streams : SenderSound(i)' /\ ReceiverSound(i)'
        /\ Reverse' = Reverse /\ WebRtc' = WebRtc /\ MarkersSent' = MarkersSent
        /\ \A i \in Streams : Complete(i)' = Complete(i)
    BY <1>0, <1>c, <2>0, <2>1, <2>2, StreamsKept
  <2>4. \A i \in Streams : Tallied(i)' = Tallied(i)
    BY ZenonT(30), <1>0, <2>3 DEF Tallied, sender, transit, receiver
  <2>5. ~Reverse /\ link = "up" => \A i \in Streams : Complete(i)
    BY SMTT(30), <1>0, <1>2 DEF IInv, TypeOK, ReceiverSound, ReceiversDone, Complete
  <2>6. task' = task
    BY <1>0 DEF receiver
  <2>7. Accounts'
    BY <1>0, <2>0, <2>1, <2>3, <2>4, <2>5, <2>6 DEF IInv, Accounts
  <2> QED  BY <2>3, <2>7 DEF IInv
<1> QED  BY <1>1, <1>2

\* The server's counters, taken when both drains are over.
LEMMA ReadClientResultsKeeps ==
  ASSUME IInv, ReadClientResults
  PROVE  IInv'
<1>0. Answers("results", "results", "done", <<"results", "DISPLAY_RESULTS">>)
      /\ report' = (IF Reverse THEN sent ELSE recv) /\ TypeOK
  BY DEF ReadClientResults, IInv
<1>1. /\ toC' \in Seq(Messages) /\ toS' \in Seq(Messages) /\ link' = link /\ cl' = cl
      /\ sv = "results" /\ sv' = "done" /\ In("results", toS)
      /\ UNCHANGED <<setup, sender, transit, receiver>>
      /\ In("results", toS') => In("results", toS)
      /\ In("DISPLAY_RESULTS", toC') => In("DISPLAY_RESULTS", toC) \/ link = "up"
  BY ZenonT(30), <1>0, AnswersAdds, Written
<1>2. report' \in [Streams -> Nat]
  BY <1>0 DEF TypeOK
<1>c. (Cut => Cut') /\ LoopKept /\ UNCHANGED <<setup, stage, put, sent, late, transit, receiver>>
      /\ loop' \in [Streams -> {"running", "stopped"}]
  BY <1>0, <1>1, CutStays DEF ServerStep, LoopKept, sender, TypeOK
<1>3. /\ TypeOK'
      /\ \A i \in Streams : SenderSound(i)' /\ ReceiverSound(i)'
      /\ Reverse' = Reverse /\ WebRtc' = WebRtc /\ MarkersSent' = MarkersSent
      /\ \A i \in Streams : Complete(i)' = Complete(i)
  BY <1>1, <1>2, <1>c, StreamsKept
<1>4. /\ Reverse => \A i \in Streams : marker[i] # "none" /\ (task[i] = "error" \/ Complete(i))
      /\ ~Reverse /\ link = "up" => \A i \in Streams : Complete(i)
  BY <1>1 DEF IInv, Accounts, Past, MarkersSent
<1>5. ASSUME NEW i \in Streams, Reverse
      PROVE  sent[i] <= put[i] /\ put[i] <= sent[i] + Chunk /\ (WebRtc => sent[i] = put[i])
  <2>1. SenderSound(i) /\ stage[i] \in Nat /\ put[i] \in Nat /\ sent[i] \in Nat
    BY <1>0 DEF IInv, TypeOK
  <2>2. WebRtc => stage[i] = 0
    BY ZenonT(30), <1>4, <1>5, <2>1 DEF SenderSound, Joined
  <2> QED  BY ZenonT(30), <2>1, <2>2, LagSteps DEF SenderSound, Counted
<1>6. UNCHANGED <<task, marker, put, recv, sent>>
  BY <1>1 DEF sender, transit, receiver
<1>7. Reverse => \A i \in Streams : Tallied(i)'
  BY SMTT(30), <1>0, <1>3, <1>4, <1>5, <1>6 DEF Tallied
<1>8. ~Reverse /\ (In("DISPLAY_RESULTS", toC') \/ cl' \in Reporting) =>
          \A i \in Streams : Tallied(i)'
  BY SMTT(30), <1>0, <1>1, <1>3, <1>4, <1>6 DEF IInv, Accounts, Tallied
<1>9. Accounts'
  BY ZenonT(30), <1>1, <1>3, <1>4, <1>6, <1>7, <1>8 DEF IInv, Accounts, Past
<1> QED  BY <1>3, <1>9 DEF IInv

-----------------------------------------------------------------------------
(* The steps of a stream: they leave client and server alone. *)

\* What is known of a stream stays known: a marker is never taken back and ends what
\* is put, a failure is never taken back, and what is complete gets nothing more.
Stable(i) ==
    /\ marker[i] # "none" => marker'[i] # "none" /\ put'[i] = put[i]
    /\ task[i] = "error" => task'[i] = "error"
    /\ Complete(i) => task'[i] = "eof" /\ marker'[i] = "read" /\ recv'[i] = recv[i]

\* So the books are all that a stream's step has to keep.
LEMMA StreamStep ==
  ASSUME IInv, UNCHANGED <<kind, dir, cl, sv, toC, toS, link, report>>, TypeOK',
         \A i \in Streams : SenderSound(i)' /\ ReceiverSound(i)' /\ Stable(i)
  PROVE  IInv'
<1>1. Reverse' = Reverse /\ WebRtc' = WebRtc
  BY DEF Reverse, WebRtc
<1>2. \A i \in Streams : Complete(i) => Complete(i)' /\ recv'[i] = recv[i]
  BY DEF Stable, Complete
<1>3. MarkersSent => MarkersSent'
  BY SMTT(30) DEF MarkersSent, Stable
<1>4. \A i \in Streams : Tallied(i) => Tallied(i)'
  BY <1>1, <1>2 DEF Tallied, Stable
<1>5. \A i \in Streams : task[i] = "error" \/ Complete(i) => task'[i] = "error" \/ Complete(i)'
  BY <1>2 DEF Stable
<1>6. In("results", toS') = In("results", toS)
      /\ In("DISPLAY_RESULTS", toC') = In("DISPLAY_RESULTS", toC)
  BY SMTT(30)
<1>7. Accounts'
  BY <1>1, <1>2, <1>3, <1>4, <1>5, <1>6 DEF IInv, Accounts
<1> QED  BY <1>7 DEF IInv

\* One stream's entry of f becomes v.
Moved(f, g, i, v, S) ==
    /\ g \in [Streams -> S] /\ g[i] = v
    /\ \A j \in Streams : j # i => g[j] = f[j]

\* An EXCEPT moves one entry.
LEMMA Update ==
  ASSUME NEW S, NEW f \in [Streams -> S], NEW i \in Streams, NEW v \in S
  PROVE  Moved(f, [f EXCEPT ![i] = v], i, v, S)
  BY DEF Moved

\* The entries stay natural numbers.
LEMMA NatSteps ==
  \A n \in Nat :
     n + 1 \in Nat /\ (n > 0 \/ n > 1 => n - 1 \in Nat /\ n # 0) /\ \A m \in Nat : n + m \in Nat
  BY SMTT(30)

\* A stream that a step does not touch.
Same(j) ==
    /\ stage'[j] = stage[j] /\ put'[j] = put[j] /\ sent'[j] = sent[j] /\ loop'[j] = loop[j]
    /\ late'[j] = late[j] /\ marker'[j] = marker[j] /\ buf'[j] = buf[j] /\ wire'[j] = wire[j]
    /\ inq'[j] = inq[j] /\ queue'[j] = queue[j] /\ recv'[j] = recv[j] /\ task'[j] = task[j]

\* A step of one stream has only that stream's books to keep.
LEMMA OneStream ==
  ASSUME IInv, NEW i \in Streams, UNCHANGED <<kind, dir, cl, sv, toC, toS, link, report>>, TypeOK',
         \A j \in Streams : j # i => Same(j),
         Joined(i) => Joined(i)',
         SenderSound(i)', ReceiverSound(i)', Stable(i)
  PROVE  IInv'
<1>1. WebRtc' = WebRtc /\ BrowserReceives' = BrowserReceives /\ Cut' = Cut
  BY DEF WebRtc, BrowserReceives, Reverse, Cut, SendingSide
<1>2. \A j \in Streams : Joined(j) => Joined(j)'
  BY ZenonT(30) DEF Same, Joined
<1>3. ASSUME NEW j \in Streams, j # i
      PROVE  SenderSound(j)' /\ ReceiverSound(j)' /\ Stable(j)
  <2>0. SenderSound(j) /\ ReceiverSound(j) /\ Same(j)
    BY <1>3 DEF IInv
  <2>1. /\ Counted(j)' = Counted(j) /\ Whole(j)' = Whole(j) /\ AtMost(j)' = AtMost(j)
        /\ Joined(j)' = Joined(j)
    BY ZenonT(30), <2>0 DEF Same, Counted, Lags, Whole, Adds, AtMost, Joined
  <2>2. SenderSound(j)'
    BY ZenonT(30), <1>1, <1>2, <2>0, <2>1 DEF Same, SenderSound
  <2>3. ReceiverSound(j)'
    BY ZenonT(30), <1>1, <2>0, <2>1 DEF Same, ReceiverSound
  <2>4. Stable(j)
    BY ZenonT(30), <2>0 DEF Same, Stable, Complete
  <2> QED  BY <2>2, <2>3, <2>4
<1> QED  BY <1>3, StreamStep

\* What is known of the entries of a stream.
LEMMA Entries ==
  ASSUME IInv, NEW i \in Streams
  PROVE  /\ stage[i] \in Nat /\ put[i] \in Nat /\ sent[i] \in Nat /\ buf[i] \in Nat
         /\ wire[i] \in Nat /\ inq[i] \in Nat /\ recv[i] \in Nat /\ Chunk \in Nat \ {0}
         /\ SenderSound(i) /\ ReceiverSound(i)
  BY Constants DEF IInv, TypeOK

\* A chunk is begun only by a sender that has not been stopped.
LEMMA BeginChunkKeeps ==
  ASSUME IInv, NEW i \in Streams, BeginChunk(i)
  PROVE  IInv'
<1> USE DEF setup, sender, transit, receiver
<1>0. TypeOK /\ UNCHANGED <<kind, dir, cl, sv, toC, toS, link, report>>
  BY ZenonT(30) DEF BeginChunk, IInv
<1>k. WebRtc' = WebRtc /\ BrowserReceives' = BrowserReceives /\ Cut' = Cut
  BY ZenonT(30), <1>0 DEF WebRtc, BrowserReceives, Reverse, Cut, SendingSide
<1>e. /\ stage[i] \in Nat /\ put[i] \in Nat /\ sent[i] \in Nat /\ buf[i] \in Nat
      /\ wire[i] \in Nat /\ inq[i] \in Nat /\ recv[i] \in Nat /\ Chunk \in Nat \ {0}
      /\ SenderSound(i) /\ ReceiverSound(i)
  BY ZenonT(30), Entries
<1>1. /\ stage' = [stage EXCEPT ![i] = Chunk + 1]
      /\ stage[i] = 0 /\ loop[i] = "running"
      /\ UNCHANGED <<put, sent, loop, late, marker, buf, wire, inq, queue, recv, task>>
  BY DEF BeginChunk
<1>g. stage[i] = 0 /\ loop[i] = "running"
  BY <1>1
<1>n. Chunk + 1 \in Nat
  BY ZenonT(30), <1>g, <1>e, NatSteps
<1>m1. Moved(stage, stage', i, Chunk + 1, Nat)
  BY ZenonT(30), <1>0, <1>1, <1>n, Update DEF TypeOK
<1>t. TypeOK'
  BY ZenonT(30), <1>0, <1>1, <1>m1 DEF TypeOK, Moved
<1>o. \A j \in Streams : j # i => Same(j)
  BY ZenonT(30), <1>1, <1>m1 DEF Same, Moved
<1>v. /\ stage'[i] = Chunk + 1
     /\ put'[i] = put[i] /\ sent'[i] = sent[i] /\ buf'[i] = buf[i] /\ wire'[i] = wire[i] /\ inq'[i] = inq[i] /\ recv'[i] = recv[i]
  BY ZenonT(30), <1>1, <1>m1 DEF Moved
<1>c. Counted(i)'
  <2>1. Lags(Chunk + 1, put[i], sent[i])
    BY ZenonT(30), <1>e, <1>g, LagSteps DEF Counted, SenderSound
  <2> QED  BY ZenonT(30), <1>v, <2>1 DEF Counted, Lags
<1>j. \A j \in Streams : Joined(j) => Joined(j)'
  BY ZenonT(30), <1>e, <1>1, <1>v, <1>o DEF Joined, Same
<1>s. SenderSound(i)'
  BY ZenonT(30), <1>e, <1>k, <1>1, <1>v, <1>c, <1>j DEF SenderSound
<1>w. Whole(i)' = Whole(i) /\ AtMost(i)' = AtMost(i)
  BY ZenonT(30), <1>1 DEF Whole, Adds, AtMost
<1>r. ReceiverSound(i)'
  BY ZenonT(30), <1>0, <1>e, <1>k, <1>1, <1>v, <1>w DEF ReceiverSound
<1>b. Stable(i)
  BY ZenonT(30), <1>1, <1>v DEF Stable, Complete
<1> QED  BY ZenonT(30), <1>0, <1>1, <1>v, <1>t, <1>o, <1>s, <1>r, <1>b, <1>j, OneStream

\* A piece goes into the buffer: no marker is out while a sender still runs.
LEMMA SendPieceKeeps ==
  ASSUME IInv, NEW i \in Streams, SendPiece(i)
  PROVE  IInv'
<1> USE DEF setup, sender, transit, receiver
<1>0. TypeOK /\ UNCHANGED <<kind, dir, cl, sv, toC, toS, link, report>>
  BY ZenonT(30) DEF SendPiece, IInv
<1>k. WebRtc' = WebRtc /\ BrowserReceives' = BrowserReceives /\ Cut' = Cut
  BY ZenonT(30), <1>0 DEF WebRtc, BrowserReceives, Reverse, Cut, SendingSide
<1>e. /\ stage[i] \in Nat /\ put[i] \in Nat /\ sent[i] \in Nat /\ buf[i] \in Nat
      /\ wire[i] \in Nat /\ inq[i] \in Nat /\ recv[i] \in Nat /\ Chunk \in Nat \ {0}
      /\ SenderSound(i) /\ ReceiverSound(i)
  BY ZenonT(30), Entries
<1>p. loop[i] = "running" /\ stage[i] > 1 /\ (WebRtc \/ marker[i] = "none")
  BY ZenonT(30) DEF SendPiece
<1>q. marker[i] = "none"
  BY ZenonT(30), <1>e, <1>p DEF SenderSound, Joined
<1>h. marker[i] = "none" /\ loop[i] = "running" /\ stage[i] > 1
  BY <1>p, <1>q
<1>1. /\ stage' = [stage EXCEPT ![i] = stage[i] - 1] /\ put' = [put EXCEPT ![i] = put[i] + 1]
      /\ buf' = [buf EXCEPT ![i] = buf[i] + 1]
      /\ marker[i] = "none" /\ loop[i] = "running" /\ stage[i] > 1
      /\ UNCHANGED <<sent, loop, late, marker, wire, inq, queue, recv, task>>
  BY <1>h DEF SendPiece
<1>g. marker[i] = "none" /\ loop[i] = "running" /\ stage[i] > 1
  BY <1>1
<1>n. stage[i] - 1 \in Nat /\ put[i] + 1 \in Nat /\ buf[i] + 1 \in Nat
  BY ZenonT(30), <1>g, <1>e, NatSteps
<1>m1. Moved(stage, stage', i, stage[i] - 1, Nat)
  BY ZenonT(30), <1>0, <1>1, <1>n, Update DEF TypeOK
<1>m2. Moved(put, put', i, put[i] + 1, Nat)
  BY ZenonT(30), <1>0, <1>1, <1>n, Update DEF TypeOK
<1>m3. Moved(buf, buf', i, buf[i] + 1, Nat)
  BY ZenonT(30), <1>0, <1>1, <1>n, Update DEF TypeOK
<1>t. TypeOK'
  BY ZenonT(30), <1>0, <1>1, <1>m1, <1>m2, <1>m3 DEF TypeOK, Moved
<1>o. \A j \in Streams : j # i => Same(j)
  BY ZenonT(30), <1>1, <1>m1, <1>m2, <1>m3 DEF Same, Moved
<1>v. /\ stage'[i] = stage[i] - 1 /\ put'[i] = put[i] + 1 /\ buf'[i] = buf[i] + 1
     /\ sent'[i] = sent[i] /\ wire'[i] = wire[i] /\ inq'[i] = inq[i] /\ recv'[i] = recv[i]
  BY ZenonT(30), <1>1, <1>m1, <1>m2, <1>m3 DEF Moved
<1>c. Counted(i)'
  <2>1. Lags(stage[i] - 1, put[i] + 1, sent[i])
    BY ZenonT(30), <1>e, <1>g, LagSteps DEF Counted, SenderSound
  <2> QED  BY ZenonT(30), <1>v, <2>1 DEF Counted, Lags
<1>j. \A j \in Streams : Joined(j) => Joined(j)'
  BY ZenonT(30), <1>e, <1>1, <1>v, <1>o DEF Joined, Same
<1>s. SenderSound(i)'
  BY ZenonT(30), <1>e, <1>k, <1>1, <1>v, <1>c, <1>j DEF SenderSound
<1>w. (Whole(i) => Whole(i)') /\ (AtMost(i) => AtMost(i)')
  <2>1. Whole(i) => Adds(put[i] + 1, buf[i] + 1, wire[i], inq[i], recv[i])
    BY ZenonT(30), <1>e, SumSteps DEF Whole
  <2>2. AtMost(i) => (buf[i] + 1) + wire[i] + inq[i] + recv[i] <= (put[i] + 1)
    BY ZenonT(30), <1>e, BoundSteps DEF AtMost
  <2> QED  BY ZenonT(30), <1>v, <2>1, <2>2 DEF Whole, Adds, AtMost
<1>r. ReceiverSound(i)'
  BY ZenonT(30), <1>0, <1>e, <1>k, <1>1, <1>v, <1>w DEF ReceiverSound
<1>b. Stable(i)
  BY ZenonT(30), <1>1, <1>v DEF Stable, Complete
<1> QED  BY ZenonT(30), <1>0, <1>1, <1>v, <1>t, <1>o, <1>s, <1>r, <1>b, <1>j, OneStream

\* The counter catches up with the pieces of the chunk.
LEMMA CountChunkKeeps ==
  ASSUME IInv, NEW i \in Streams, CountChunk(i)
  PROVE  IInv'
<1> USE DEF setup, sender, transit, receiver
<1>0. TypeOK /\ UNCHANGED <<kind, dir, cl, sv, toC, toS, link, report>>
  BY ZenonT(30) DEF CountChunk, IInv
<1>k. WebRtc' = WebRtc /\ BrowserReceives' = BrowserReceives /\ Cut' = Cut
  BY ZenonT(30), <1>0 DEF WebRtc, BrowserReceives, Reverse, Cut, SendingSide
<1>e. /\ stage[i] \in Nat /\ put[i] \in Nat /\ sent[i] \in Nat /\ buf[i] \in Nat
      /\ wire[i] \in Nat /\ inq[i] \in Nat /\ recv[i] \in Nat /\ Chunk \in Nat \ {0}
      /\ SenderSound(i) /\ ReceiverSound(i)
  BY ZenonT(30), Entries
<1>1. /\ stage' = [stage EXCEPT ![i] = 0] /\ sent' = [sent EXCEPT ![i] = sent[i] + Chunk]
      /\ stage[i] = 1
      /\ UNCHANGED <<put, loop, late, marker, buf, wire, inq, queue, recv, task>>
  BY DEF CountChunk
<1>g. stage[i] = 1
  BY <1>1
<1>n. sent[i] + Chunk \in Nat
  BY ZenonT(30), <1>g, <1>e, NatSteps
<1>m1. Moved(stage, stage', i, 0, Nat)
  BY ZenonT(30), <1>0, <1>1, <1>n, Update DEF TypeOK
<1>m2. Moved(sent, sent', i, sent[i] + Chunk, Nat)
  BY ZenonT(30), <1>0, <1>1, <1>n, Update DEF TypeOK
<1>t. TypeOK'
  BY ZenonT(30), <1>0, <1>1, <1>m1, <1>m2 DEF TypeOK, Moved
<1>o. \A j \in Streams : j # i => Same(j)
  BY ZenonT(30), <1>1, <1>m1, <1>m2 DEF Same, Moved
<1>v. /\ stage'[i] = 0 /\ sent'[i] = sent[i] + Chunk
     /\ put'[i] = put[i] /\ buf'[i] = buf[i] /\ wire'[i] = wire[i] /\ inq'[i] = inq[i] /\ recv'[i] = recv[i]
  BY ZenonT(30), <1>1, <1>m1, <1>m2 DEF Moved
<1>c. Counted(i)'
  <2>1. Lags(0, put[i], sent[i] + Chunk)
    BY ZenonT(30), <1>e, <1>g, LagSteps DEF Counted, SenderSound
  <2> QED  BY ZenonT(30), <1>v, <2>1 DEF Counted, Lags
<1>j. \A j \in Streams : Joined(j) => Joined(j)'
  BY ZenonT(30), <1>e, <1>1, <1>v, <1>o DEF Joined, Same
<1>s. SenderSound(i)'
  BY ZenonT(30), <1>e, <1>k, <1>1, <1>v, <1>c, <1>j DEF SenderSound
<1>w. Whole(i)' = Whole(i) /\ AtMost(i)' = AtMost(i)
  BY ZenonT(30), <1>1 DEF Whole, Adds, AtMost
<1>r. ReceiverSound(i)'
  BY ZenonT(30), <1>0, <1>e, <1>k, <1>1, <1>v, <1>w DEF ReceiverSound
<1>b. Stable(i)
  BY ZenonT(30), <1>1, <1>v DEF Stable, Complete
<1> QED  BY ZenonT(30), <1>0, <1>1, <1>v, <1>t, <1>o, <1>s, <1>r, <1>b, <1>j, OneStream

\* On WebRTC a sender stops only when its counter agrees with what it put.
LEMMA StopSenderKeeps ==
  ASSUME IInv, NEW i \in Streams, StopSender(i)
  PROVE  IInv'
<1> USE DEF setup, sender, transit, receiver
<1>0. TypeOK /\ UNCHANGED <<kind, dir, cl, sv, toC, toS, link, report>>
  BY ZenonT(30) DEF StopSender, IInv
<1>k. WebRtc' = WebRtc /\ BrowserReceives' = BrowserReceives /\ Cut' = Cut
  BY ZenonT(30), <1>0 DEF WebRtc, BrowserReceives, Reverse, Cut, SendingSide
<1>e. /\ stage[i] \in Nat /\ put[i] \in Nat /\ sent[i] \in Nat /\ buf[i] \in Nat
      /\ wire[i] \in Nat /\ inq[i] \in Nat /\ recv[i] \in Nat /\ Chunk \in Nat \ {0}
      /\ SenderSound(i) /\ ReceiverSound(i)
  BY ZenonT(30), Entries
<1>l. loop[i] = "running" /\ (WebRtc /\ marker[i] # "none" => \A j \in Streams : Joined(j))
  BY <1>e DEF StopSender, SenderSound
<1>1. /\ loop' = [loop EXCEPT ![i] = "stopped"]
      /\ (WebRtc => stage[i] = 0)
      /\ UNCHANGED <<stage, put, sent, late, marker, buf, wire, inq, queue, recv, task>>
  BY DEF StopSender, MayStop
<1>g. (WebRtc => stage[i] = 0)
  BY <1>1
<1>m1. Moved(loop, loop', i, "stopped", {"running", "stopped"})
  BY ZenonT(30), <1>0, <1>1, Update DEF TypeOK
<1>t. TypeOK'
  BY ZenonT(30), <1>0, <1>1, <1>m1 DEF TypeOK, Moved
<1>o. \A j \in Streams : j # i => Same(j)
  BY ZenonT(30), <1>1, <1>m1 DEF Same, Moved
<1>v. /\ loop'[i] = "stopped"
     /\ stage'[i] = stage[i] /\ put'[i] = put[i] /\ sent'[i] = sent[i] /\ buf'[i] = buf[i] /\ wire'[i] = wire[i] /\ inq'[i] = inq[i] /\ recv'[i] = recv[i]
  BY ZenonT(30), <1>1, <1>m1 DEF Moved
<1>c. Counted(i)'
  BY ZenonT(30), <1>e, <1>1 DEF Counted, Lags, SenderSound
<1>j. \A j \in Streams : Joined(j) => Joined(j)'
  BY ZenonT(30), <1>e, <1>1, <1>v, <1>o DEF Joined, Same
<1>s. SenderSound(i)'
  BY ZenonT(30), <1>e, <1>k, <1>1, <1>v, <1>c, <1>l, <1>j DEF SenderSound
<1>w. Whole(i)' = Whole(i) /\ AtMost(i)' = AtMost(i)
  BY ZenonT(30), <1>1 DEF Whole, Adds, AtMost
<1>r. ReceiverSound(i)'
  BY ZenonT(30), <1>0, <1>e, <1>k, <1>1, <1>v, <1>w DEF ReceiverSound
<1>b. Stable(i)
  BY ZenonT(30), <1>1, <1>v DEF Stable, Complete
<1> QED  BY ZenonT(30), <1>0, <1>1, <1>v, <1>t, <1>o, <1>s, <1>r, <1>b, <1>j, OneStream

\* A sender fails only where no marker will be sent.
LEMMA SendFailsKeeps ==
  ASSUME IInv, NEW i \in Streams, SendFails(i)
  PROVE  IInv'
<1> USE DEF setup, sender, transit, receiver
<1>0. TypeOK /\ UNCHANGED <<kind, dir, cl, sv, toC, toS, link, report>>
  BY ZenonT(30) DEF SendFails, IInv
<1>k. WebRtc' = WebRtc /\ BrowserReceives' = BrowserReceives /\ Cut' = Cut
  BY ZenonT(30), <1>0 DEF WebRtc, BrowserReceives, Reverse, Cut, SendingSide
<1>e. /\ stage[i] \in Nat /\ put[i] \in Nat /\ sent[i] \in Nat /\ buf[i] \in Nat
      /\ wire[i] \in Nat /\ inq[i] \in Nat /\ recv[i] \in Nat /\ Chunk \in Nat \ {0}
      /\ SenderSound(i) /\ ReceiverSound(i)
  BY ZenonT(30), Entries
<1>l. loop[i] = "running" /\ (WebRtc /\ marker[i] # "none" => \A j \in Streams : Joined(j))
  BY <1>e DEF SendFails, SenderSound
<1>1. /\ loop' = [loop EXCEPT ![i] = "stopped"]
      /\ link = "down"
      /\ UNCHANGED <<stage, put, sent, late, marker, buf, wire, inq, queue, recv, task>>
  BY DEF SendFails
<1>g. link = "down"
  BY <1>1
<1>m1. Moved(loop, loop', i, "stopped", {"running", "stopped"})
  BY ZenonT(30), <1>0, <1>1, Update DEF TypeOK
<1>t. TypeOK'
  BY ZenonT(30), <1>0, <1>1, <1>m1 DEF TypeOK, Moved
<1>o. \A j \in Streams : j # i => Same(j)
  BY ZenonT(30), <1>1, <1>m1 DEF Same, Moved
<1>v. /\ loop'[i] = "stopped"
     /\ stage'[i] = stage[i] /\ put'[i] = put[i] /\ sent'[i] = sent[i] /\ buf'[i] = buf[i] /\ wire'[i] = wire[i] /\ inq'[i] = inq[i] /\ recv'[i] = recv[i]
  BY ZenonT(30), <1>1, <1>m1 DEF Moved
<1>z. Cut
  BY <1>g DEF Cut
<1>c. Counted(i)'
  BY ZenonT(30), <1>e, <1>1 DEF Counted, Lags, SenderSound
<1>j. \A j \in Streams : Joined(j) => Joined(j)'
  BY ZenonT(30), <1>e, <1>1, <1>v, <1>o DEF Joined, Same
<1>s. SenderSound(i)'
  BY ZenonT(30), <1>e, <1>k, <1>1, <1>v, <1>c, <1>l, <1>z, <1>j DEF SenderSound
<1>w. Whole(i)' = Whole(i) /\ AtMost(i)' = AtMost(i)
  BY ZenonT(30), <1>1 DEF Whole, Adds, AtMost
<1>r. ReceiverSound(i)'
  BY ZenonT(30), <1>0, <1>e, <1>k, <1>1, <1>v, <1>w DEF ReceiverSound
<1>b. Stable(i)
  BY ZenonT(30), <1>1, <1>v DEF Stable, Complete
<1> QED  BY ZenonT(30), <1>0, <1>1, <1>v, <1>t, <1>o, <1>s, <1>r, <1>b, <1>j, OneStream

\* On WebRTC the marker follows the end of every sender.
LEMMA EndMarkerKeeps ==
  ASSUME IInv, NEW i \in Streams, EndMarker(i)
  PROVE  IInv'
<1> USE DEF setup, sender, transit, receiver
<1>0. TypeOK /\ UNCHANGED <<kind, dir, cl, sv, toC, toS, link, report>>
  BY ZenonT(30) DEF EndMarker, IInv
<1>k. WebRtc' = WebRtc /\ BrowserReceives' = BrowserReceives /\ Cut' = Cut
  BY ZenonT(30), <1>0 DEF WebRtc, BrowserReceives, Reverse, Cut, SendingSide
<1>e. /\ stage[i] \in Nat /\ put[i] \in Nat /\ sent[i] \in Nat /\ buf[i] \in Nat
      /\ wire[i] \in Nat /\ inq[i] \in Nat /\ recv[i] \in Nat /\ Chunk \in Nat \ {0}
      /\ SenderSound(i) /\ ReceiverSound(i)
  BY ZenonT(30), Entries
<1>a. WebRtc => ~Cut
  BY SMTT(30), <1>0 DEF EndMarker, MayEnd, StopAsked, Cut
<1>q. WebRtc => \A j \in Streams : Joined(j)
  BY <1>a DEF EndMarker, MayEnd, IInv, SenderSound, Joined
<1>1. /\ marker' = [marker EXCEPT ![i] = "buffer"]
      /\ marker[i] = "none" /\ (WebRtc => \A j \in Streams : Joined(j))
      /\ UNCHANGED <<stage, put, sent, loop, late, buf, wire, inq, queue, recv, task>>
  BY <1>q DEF EndMarker
<1>g. marker[i] = "none" /\ (WebRtc => \A j \in Streams : Joined(j))
  BY <1>1
<1>m1. Moved(marker, marker', i, "buffer", {"none", "buffer", "wire", "read"})
  BY ZenonT(30), <1>0, <1>1, Update DEF TypeOK
<1>t. TypeOK'
  BY ZenonT(30), <1>0, <1>1, <1>m1 DEF TypeOK, Moved
<1>o. \A j \in Streams : j # i => Same(j)
  BY ZenonT(30), <1>1, <1>m1 DEF Same, Moved
<1>v. /\ marker'[i] = "buffer"
     /\ stage'[i] = stage[i] /\ put'[i] = put[i] /\ sent'[i] = sent[i] /\ buf'[i] = buf[i] /\ wire'[i] = wire[i] /\ inq'[i] = inq[i] /\ recv'[i] = recv[i]
  BY ZenonT(30), <1>1, <1>m1 DEF Moved
<1>c. Counted(i)'
  BY ZenonT(30), <1>e, <1>1 DEF Counted, Lags, SenderSound
<1>j. \A j \in Streams : Joined(j) => Joined(j)'
  BY ZenonT(30), <1>e, <1>1, <1>v, <1>o DEF Joined, Same
<1>s. SenderSound(i)'
  BY ZenonT(30), <1>e, <1>k, <1>1, <1>v, <1>c, <1>j DEF SenderSound
<1>w. Whole(i)' = Whole(i) /\ AtMost(i)' = AtMost(i)
  BY ZenonT(30), <1>1 DEF Whole, Adds, AtMost
<1>r. ReceiverSound(i)'
  BY ZenonT(30), <1>0, <1>e, <1>k, <1>1, <1>v, <1>w DEF ReceiverSound
<1>b. Stable(i)
  BY ZenonT(30), <1>1, <1>v DEF Stable, Complete
<1> QED  BY ZenonT(30), <1>0, <1>1, <1>v, <1>t, <1>o, <1>s, <1>r, <1>b, <1>j, OneStream

\* A channel that opens carries nothing yet.
LEMMA ChannelOpensKeeps ==
  ASSUME IInv, NEW i \in Streams, ChannelOpens(i)
  PROVE  IInv'
<1>1. UNCHANGED <<cl, sv, toC, toS, link, setup, sender, transit, receiver, report>>
  BY DEF ChannelOpens
<1>2. toC' \in Seq(Messages) /\ toS' \in Seq(Messages)
  BY <1>1 DEF IInv, TypeOK
<1>3. Cut' = Cut
  BY <1>1 DEF Cut, SendingSide, Reverse, setup
<1> QED  BY <1>1, <1>2, <1>3, QuietControl

\* The marker leaves the buffer after all pieces.
LEMMA TransmitKeeps ==
  ASSUME IInv, NEW i \in Streams, Transmit(i)
  PROVE  IInv'
<1> USE DEF setup, sender, transit, receiver
<1>0. TypeOK /\ UNCHANGED <<kind, dir, cl, sv, toC, toS, link, report>>
  BY ZenonT(30) DEF Transmit, IInv
<1>k. WebRtc' = WebRtc /\ BrowserReceives' = BrowserReceives /\ Cut' = Cut
  BY ZenonT(30), <1>0 DEF WebRtc, BrowserReceives, Reverse, Cut, SendingSide
<1>e. /\ stage[i] \in Nat /\ put[i] \in Nat /\ sent[i] \in Nat /\ buf[i] \in Nat
      /\ wire[i] \in Nat /\ inq[i] \in Nat /\ recv[i] \in Nat /\ Chunk \in Nat \ {0}
      /\ SenderSound(i) /\ ReceiverSound(i)
  BY ZenonT(30), Entries
<1>1. CASE /\ buf' = [buf EXCEPT ![i] = buf[i] - 1] /\ wire' = [wire EXCEPT ![i] = wire[i] + 1]
           /\ buf[i] > 0
           /\ UNCHANGED <<stage, put, sent, loop, late, marker, inq, queue, recv, task>>
  <2>g. buf[i] > 0
    BY <1>1
  <2>n. buf[i] - 1 \in Nat /\ wire[i] + 1 \in Nat
    BY ZenonT(30), <2>g, <1>e, NatSteps
  <2>m1. Moved(buf, buf', i, buf[i] - 1, Nat)
    BY ZenonT(30), <1>0, <1>1, <2>n, Update DEF TypeOK
  <2>m2. Moved(wire, wire', i, wire[i] + 1, Nat)
    BY ZenonT(30), <1>0, <1>1, <2>n, Update DEF TypeOK
  <2>t. TypeOK'
    BY ZenonT(30), <1>0, <1>1, <2>m1, <2>m2 DEF TypeOK, Moved
  <2>o. \A j \in Streams : j # i => Same(j)
    BY ZenonT(30), <1>1, <2>m1, <2>m2 DEF Same, Moved
  <2>v. /\ buf'[i] = buf[i] - 1 /\ wire'[i] = wire[i] + 1
       /\ stage'[i] = stage[i] /\ put'[i] = put[i] /\ sent'[i] = sent[i] /\ inq'[i] = inq[i] /\ recv'[i] = recv[i]
    BY ZenonT(30), <1>1, <2>m1, <2>m2 DEF Moved
  <2>c. Counted(i)'
    BY ZenonT(30), <1>e, <1>1 DEF Counted, Lags, SenderSound
  <2>j. \A j \in Streams : Joined(j) => Joined(j)'
    BY ZenonT(30), <1>e, <1>1, <2>v, <2>o DEF Joined, Same
  <2>s. SenderSound(i)'
    BY ZenonT(30), <1>e, <1>k, <1>1, <2>v, <2>c, <2>j DEF SenderSound
  <2>w. (Whole(i) => Whole(i)') /\ (AtMost(i) => AtMost(i)')
    <3>1. Whole(i) => Adds(put[i], buf[i] - 1, wire[i] + 1, inq[i], recv[i])
      BY ZenonT(30), <1>e, SumSteps DEF Whole
    <3>2. AtMost(i) => (buf[i] - 1) + (wire[i] + 1) + inq[i] + recv[i] <= put[i]
      BY ZenonT(30), <1>e, BoundSteps DEF AtMost
    <3> QED  BY ZenonT(30), <2>v, <3>1, <3>2 DEF Whole, Adds, AtMost
  <2>z. buf[i] # 0
    BY ZenonT(30), <2>g, <1>e, NatSteps
  <2>r. ReceiverSound(i)'
    BY ZenonT(30), <1>0, <1>e, <1>k, <1>1, <2>v, <2>w, <2>z DEF ReceiverSound
  <2>b. Stable(i)
    BY ZenonT(30), <1>1, <2>v DEF Stable, Complete
  <2> QED  BY ZenonT(30), <1>0, <1>1, <2>v, <2>t, <2>o, <2>s, <2>r, <2>b, <2>j, OneStream
<1>2. CASE /\ marker' = [marker EXCEPT ![i] = "wire"]
           /\ buf[i] = 0 /\ marker[i] = "buffer"
           /\ UNCHANGED <<stage, put, sent, loop, late, buf, wire, inq, queue, recv, task>>
  <2>g. buf[i] = 0 /\ marker[i] = "buffer"
    BY <1>2
  <2>m1. Moved(marker, marker', i, "wire", {"none", "buffer", "wire", "read"})
    BY ZenonT(30), <1>0, <1>2, Update DEF TypeOK
  <2>t. TypeOK'
    BY ZenonT(30), <1>0, <1>2, <2>m1 DEF TypeOK, Moved
  <2>o. \A j \in Streams : j # i => Same(j)
    BY ZenonT(30), <1>2, <2>m1 DEF Same, Moved
  <2>v. /\ marker'[i] = "wire"
       /\ stage'[i] = stage[i] /\ put'[i] = put[i] /\ sent'[i] = sent[i] /\ buf'[i] = buf[i] /\ wire'[i] = wire[i] /\ inq'[i] = inq[i] /\ recv'[i] = recv[i]
    BY ZenonT(30), <1>2, <2>m1 DEF Moved
  <2>c. Counted(i)'
    BY ZenonT(30), <1>e, <1>2 DEF Counted, Lags, SenderSound
  <2>j. \A j \in Streams : Joined(j) => Joined(j)'
    BY ZenonT(30), <1>e, <1>2, <2>v, <2>o DEF Joined, Same
  <2>s. SenderSound(i)'
    BY ZenonT(30), <1>e, <1>k, <1>2, <2>v, <2>c, <2>j DEF SenderSound
  <2>w. Whole(i)' = Whole(i) /\ AtMost(i)' = AtMost(i)
    BY ZenonT(30), <1>2 DEF Whole, Adds, AtMost
  <2>r. ReceiverSound(i)'
    BY ZenonT(30), <1>0, <1>e, <1>k, <1>2, <2>v, <2>w DEF ReceiverSound
  <2>b. Stable(i)
    BY ZenonT(30), <1>2, <2>v DEF Stable, Complete
  <2> QED  BY ZenonT(30), <1>0, <1>2, <2>v, <2>t, <2>o, <2>s, <2>r, <2>b, <2>j, OneStream
<1> QED  BY <1>1, <1>2 DEF Transmit

\* A piece arrives, or makes a failed queue of an open one.
LEMMA DeliverKeeps ==
  ASSUME IInv, NEW i \in Streams, Deliver(i)
  PROVE  IInv'
<1> USE DEF setup, sender, transit, receiver
<1>0. TypeOK /\ UNCHANGED <<kind, dir, cl, sv, toC, toS, link, report>>
  BY ZenonT(30) DEF Deliver, IInv
<1>k. WebRtc' = WebRtc /\ BrowserReceives' = BrowserReceives /\ Cut' = Cut
  BY ZenonT(30), <1>0 DEF WebRtc, BrowserReceives, Reverse, Cut, SendingSide
<1>e. /\ stage[i] \in Nat /\ put[i] \in Nat /\ sent[i] \in Nat /\ buf[i] \in Nat
      /\ wire[i] \in Nat /\ inq[i] \in Nat /\ recv[i] \in Nat /\ Chunk \in Nat \ {0}
      /\ SenderSound(i) /\ ReceiverSound(i)
  BY ZenonT(30), Entries
<1>r. marker[i] # "read"
  <2>1. wire[i] > 0
    BY ZenonT(30) DEF Deliver
  <2>2. wire[i] # 0
    BY ZenonT(30), <1>e, <2>1, NatSteps
  <2> QED  BY ZenonT(30), <1>e, <2>2 DEF ReceiverSound
<1>1. CASE /\ wire' = [wire EXCEPT ![i] = wire[i] - 1] /\ recv' = [recv EXCEPT ![i] = recv[i] + 1]
           /\ BrowserReceives /\ wire[i] > 0
           /\ UNCHANGED <<stage, put, sent, loop, late, marker, buf, inq, queue, task>>
  <2>g. BrowserReceives /\ wire[i] > 0
    BY <1>1
  <2>n. wire[i] - 1 \in Nat /\ recv[i] + 1 \in Nat
    BY ZenonT(30), <2>g, <1>e, NatSteps
  <2>m1. Moved(wire, wire', i, wire[i] - 1, Nat)
    BY ZenonT(30), <1>0, <1>1, <2>n, Update DEF TypeOK
  <2>m2. Moved(recv, recv', i, recv[i] + 1, Nat)
    BY ZenonT(30), <1>0, <1>1, <2>n, Update DEF TypeOK
  <2>t. TypeOK'
    BY ZenonT(30), <1>0, <1>1, <2>m1, <2>m2 DEF TypeOK, Moved
  <2>o. \A j \in Streams : j # i => Same(j)
    BY ZenonT(30), <1>1, <2>m1, <2>m2 DEF Same, Moved
  <2>v. /\ wire'[i] = wire[i] - 1 /\ recv'[i] = recv[i] + 1
       /\ stage'[i] = stage[i] /\ put'[i] = put[i] /\ sent'[i] = sent[i] /\ buf'[i] = buf[i] /\ inq'[i] = inq[i]
    BY ZenonT(30), <1>1, <2>m1, <2>m2 DEF Moved
  <2>c. Counted(i)'
    BY ZenonT(30), <1>e, <1>1 DEF Counted, Lags, SenderSound
  <2>j. \A j \in Streams : Joined(j) => Joined(j)'
    BY ZenonT(30), <1>e, <1>1, <2>v, <2>o DEF Joined, Same
  <2>s. SenderSound(i)'
    BY ZenonT(30), <1>e, <1>k, <1>1, <2>v, <2>c, <2>j DEF SenderSound
  <2>w. (Whole(i) => Whole(i)') /\ (AtMost(i) => AtMost(i)')
    <3>1. Whole(i) => Adds(put[i], buf[i], wire[i] - 1, inq[i], recv[i] + 1)
      BY ZenonT(30), <1>e, SumSteps DEF Whole
    <3>2. AtMost(i) => buf[i] + (wire[i] - 1) + inq[i] + (recv[i] + 1) <= put[i]
      BY ZenonT(30), <1>e, BoundSteps DEF AtMost
    <3> QED  BY ZenonT(30), <2>v, <3>1, <3>2 DEF Whole, Adds, AtMost
  <2>r. ReceiverSound(i)'
    BY ZenonT(30), <1>0, <1>e, <1>k, <1>1, <2>v, <2>w, <1>r DEF ReceiverSound
  <2>b. Stable(i)
    BY ZenonT(30), <1>1, <2>v, <1>r DEF Stable, Complete
  <2> QED  BY ZenonT(30), <1>0, <1>1, <2>v, <2>t, <2>o, <2>s, <2>r, <2>b, <2>j, OneStream
<1>2. CASE /\ wire' = [wire EXCEPT ![i] = wire[i] - 1] /\ inq' = [inq EXCEPT ![i] = inq[i] + 1]
           /\ ~BrowserReceives /\ queue[i] = "open" /\ wire[i] > 0
           /\ UNCHANGED <<stage, put, sent, loop, late, marker, buf, queue, recv, task>>
  <2>g. ~BrowserReceives /\ queue[i] = "open" /\ wire[i] > 0
    BY <1>2
  <2>n. wire[i] - 1 \in Nat /\ inq[i] + 1 \in Nat
    BY ZenonT(30), <2>g, <1>e, NatSteps
  <2>m1. Moved(wire, wire', i, wire[i] - 1, Nat)
    BY ZenonT(30), <1>0, <1>2, <2>n, Update DEF TypeOK
  <2>m2. Moved(inq, inq', i, inq[i] + 1, Nat)
    BY ZenonT(30), <1>0, <1>2, <2>n, Update DEF TypeOK
  <2>t. TypeOK'
    BY ZenonT(30), <1>0, <1>2, <2>m1, <2>m2 DEF TypeOK, Moved
  <2>o. \A j \in Streams : j # i => Same(j)
    BY ZenonT(30), <1>2, <2>m1, <2>m2 DEF Same, Moved
  <2>v. /\ wire'[i] = wire[i] - 1 /\ inq'[i] = inq[i] + 1
       /\ stage'[i] = stage[i] /\ put'[i] = put[i] /\ sent'[i] = sent[i] /\ buf'[i] = buf[i] /\ recv'[i] = recv[i]
    BY ZenonT(30), <1>2, <2>m1, <2>m2 DEF Moved
  <2>c. Counted(i)'
    BY ZenonT(30), <1>e, <1>2 DEF Counted, Lags, SenderSound
  <2>j. \A j \in Streams : Joined(j) => Joined(j)'
    BY ZenonT(30), <1>e, <1>2, <2>v, <2>o DEF Joined, Same
  <2>s. SenderSound(i)'
    BY ZenonT(30), <1>e, <1>k, <1>2, <2>v, <2>c, <2>j DEF SenderSound
  <2>w. (Whole(i) => Whole(i)') /\ (AtMost(i) => AtMost(i)')
    <3>1. Whole(i) => Adds(put[i], buf[i], wire[i] - 1, inq[i] + 1, recv[i])
      BY ZenonT(30), <1>e, SumSteps DEF Whole
    <3>2. AtMost(i) => buf[i] + (wire[i] - 1) + (inq[i] + 1) + recv[i] <= put[i]
      BY ZenonT(30), <1>e, BoundSteps DEF AtMost
    <3> QED  BY ZenonT(30), <2>v, <3>1, <3>2 DEF Whole, Adds, AtMost
  <2>r. ReceiverSound(i)'
    BY ZenonT(30), <1>0, <1>e, <1>k, <1>2, <2>v, <2>w, <1>r DEF ReceiverSound
  <2>b. Stable(i)
    BY ZenonT(30), <1>2, <2>v DEF Stable, Complete
  <2> QED  BY ZenonT(30), <1>0, <1>2, <2>v, <2>t, <2>o, <2>s, <2>r, <2>b, <2>j, OneStream
<1>3. CASE /\ wire' = [wire EXCEPT ![i] = wire[i] - 1] /\ queue' = [queue EXCEPT ![i] = IF queue[i] = "open" THEN "error" ELSE queue[i]]
           /\ ~BrowserReceives /\ wire[i] > 0
           /\ UNCHANGED <<stage, put, sent, loop, late, marker, buf, inq, recv, task>>
  <2>g. ~BrowserReceives /\ wire[i] > 0
    BY <1>3
  <2>n. wire[i] - 1 \in Nat
    BY ZenonT(30), <2>g, <1>e, NatSteps
  <2>m1. Moved(wire, wire', i, wire[i] - 1, Nat)
    BY ZenonT(30), <1>0, <1>3, <2>n, Update DEF TypeOK
  <2>m2. Moved(queue, queue', i, IF queue[i] = "open" THEN "error" ELSE queue[i], {"open", "closed", "error"})
    BY ZenonT(30), <1>0, <1>3, <2>n, Update DEF TypeOK
  <2>t. TypeOK'
    BY ZenonT(30), <1>0, <1>3, <2>m1, <2>m2 DEF TypeOK, Moved
  <2>o. \A j \in Streams : j # i => Same(j)
    BY ZenonT(30), <1>3, <2>m1, <2>m2 DEF Same, Moved
  <2>v. /\ wire'[i] = wire[i] - 1 /\ queue'[i] = IF queue[i] = "open" THEN "error" ELSE queue[i]
       /\ stage'[i] = stage[i] /\ put'[i] = put[i] /\ sent'[i] = sent[i] /\ buf'[i] = buf[i] /\ inq'[i] = inq[i] /\ recv'[i] = recv[i]
    BY ZenonT(30), <1>3, <2>m1, <2>m2 DEF Moved
  <2>c. Counted(i)'
    BY ZenonT(30), <1>e, <1>3 DEF Counted, Lags, SenderSound
  <2>j. \A j \in Streams : Joined(j) => Joined(j)'
    BY ZenonT(30), <1>e, <1>3, <2>v, <2>o DEF Joined, Same
  <2>s. SenderSound(i)'
    BY ZenonT(30), <1>e, <1>k, <1>3, <2>v, <2>c, <2>j DEF SenderSound
  <2>q. queue'[i] # "open" /\ (queue'[i] = "closed" => queue[i] = "closed")
        /\ (queue[i] = "closed" => queue'[i] = "closed")
    BY <2>v
  <2>w. AtMost(i) => AtMost(i)'
    <3>1. AtMost(i) => buf[i] + (wire[i] - 1) + inq[i] + recv[i] <= put[i]
      BY ZenonT(30), <1>e, BoundSteps DEF AtMost
    <3> QED  BY ZenonT(30), <2>v, <3>1 DEF AtMost
  <2>r. ReceiverSound(i)'
    BY ZenonT(30), <1>0, <1>e, <1>k, <1>3, <2>v, <1>r, <2>q, <2>w DEF ReceiverSound
  <2>b. Stable(i)
    BY ZenonT(30), <1>3, <2>v DEF Stable, Complete
  <2> QED  BY ZenonT(30), <1>0, <1>3, <2>v, <2>t, <2>o, <2>s, <2>r, <2>b, <2>j, OneStream
<1> QED  BY <1>1, <1>2, <1>3 DEF Deliver

\* The marker arrives after all pieces.
LEMMA DeliverMarkerKeeps ==
  ASSUME IInv, NEW i \in Streams, DeliverMarker(i)
  PROVE  IInv'
<1> USE DEF setup, sender, transit, receiver
<1>0. TypeOK /\ UNCHANGED <<kind, dir, cl, sv, toC, toS, link, report>>
  BY ZenonT(30) DEF DeliverMarker, IInv
<1>k. WebRtc' = WebRtc /\ BrowserReceives' = BrowserReceives /\ Cut' = Cut
  BY ZenonT(30), <1>0 DEF WebRtc, BrowserReceives, Reverse, Cut, SendingSide
<1>e. /\ stage[i] \in Nat /\ put[i] \in Nat /\ sent[i] \in Nat /\ buf[i] \in Nat
      /\ wire[i] \in Nat /\ inq[i] \in Nat /\ recv[i] \in Nat /\ Chunk \in Nat \ {0}
      /\ SenderSound(i) /\ ReceiverSound(i)
  BY ZenonT(30), Entries
<1>x. BrowserReceives => task[i] # "error"
  BY ZenonT(30), <1>e DEF ReceiverSound
<1>1. CASE /\ marker' = [marker EXCEPT ![i] = "read"] /\ task' = [task EXCEPT ![i] = "eof"]
           /\ BrowserReceives /\ wire[i] = 0 /\ marker[i] = "wire" /\ link = "up"
           /\ UNCHANGED <<stage, put, sent, loop, late, buf, wire, inq, queue, recv>>
  <2>g. BrowserReceives /\ wire[i] = 0 /\ marker[i] = "wire" /\ link = "up"
    BY <1>1
  <2>m1. Moved(marker, marker', i, "read", {"none", "buffer", "wire", "read"})
    BY ZenonT(30), <1>0, <1>1, Update DEF TypeOK
  <2>m2. Moved(task, task', i, "eof", {"running", "eof", "error"})
    BY ZenonT(30), <1>0, <1>1, Update DEF TypeOK
  <2>t. TypeOK'
    BY ZenonT(30), <1>0, <1>1, <2>m1, <2>m2 DEF TypeOK, Moved
  <2>o. \A j \in Streams : j # i => Same(j)
    BY ZenonT(30), <1>1, <2>m1, <2>m2 DEF Same, Moved
  <2>v. /\ marker'[i] = "read" /\ task'[i] = "eof"
       /\ stage'[i] = stage[i] /\ put'[i] = put[i] /\ sent'[i] = sent[i] /\ buf'[i] = buf[i] /\ wire'[i] = wire[i] /\ inq'[i] = inq[i] /\ recv'[i] = recv[i]
    BY ZenonT(30), <1>1, <2>m1, <2>m2 DEF Moved
  <2>c. Counted(i)'
    BY ZenonT(30), <1>e, <1>1 DEF Counted, Lags, SenderSound
  <2>j. \A j \in Streams : Joined(j) => Joined(j)'
    BY ZenonT(30), <1>e, <1>1, <2>v, <2>o DEF Joined, Same
  <2>s. SenderSound(i)'
    BY ZenonT(30), <1>e, <1>k, <1>1, <2>v, <2>c, <2>j DEF SenderSound
  <2>w. Whole(i)' = Whole(i) /\ AtMost(i)' = AtMost(i)
    BY ZenonT(30), <1>1 DEF Whole, Adds, AtMost
  <2>r. ReceiverSound(i)'
    BY ZenonT(30), <1>0, <1>e, <1>k, <1>1, <2>v, <2>w DEF ReceiverSound
  <2>b. Stable(i)
    BY ZenonT(30), <1>1, <2>v, <1>x DEF Stable, Complete
  <2> QED  BY ZenonT(30), <1>0, <1>1, <2>v, <2>t, <2>o, <2>s, <2>r, <2>b, <2>j, OneStream
<1>2. CASE /\ marker' = [marker EXCEPT ![i] = "read"] /\ queue' = [queue EXCEPT ![i] = IF queue[i] = "open" THEN "closed" ELSE queue[i]]
           /\ ~BrowserReceives /\ wire[i] = 0 /\ marker[i] = "wire" /\ link = "up"
           /\ UNCHANGED <<stage, put, sent, loop, late, buf, wire, inq, recv, task>>
  <2>g. ~BrowserReceives /\ wire[i] = 0 /\ marker[i] = "wire" /\ link = "up"
    BY <1>2
  <2>m1. Moved(marker, marker', i, "read", {"none", "buffer", "wire", "read"})
    BY ZenonT(30), <1>0, <1>2, Update DEF TypeOK
  <2>m2. Moved(queue, queue', i, IF queue[i] = "open" THEN "closed" ELSE queue[i], {"open", "closed", "error"})
    BY ZenonT(30), <1>0, <1>2, Update DEF TypeOK
  <2>t. TypeOK'
    BY ZenonT(30), <1>0, <1>2, <2>m1, <2>m2 DEF TypeOK, Moved
  <2>o. \A j \in Streams : j # i => Same(j)
    BY ZenonT(30), <1>2, <2>m1, <2>m2 DEF Same, Moved
  <2>v. /\ marker'[i] = "read" /\ queue'[i] = IF queue[i] = "open" THEN "closed" ELSE queue[i]
       /\ stage'[i] = stage[i] /\ put'[i] = put[i] /\ sent'[i] = sent[i] /\ buf'[i] = buf[i] /\ wire'[i] = wire[i] /\ inq'[i] = inq[i] /\ recv'[i] = recv[i]
    BY ZenonT(30), <1>2, <2>m1, <2>m2 DEF Moved
  <2>c. Counted(i)'
    BY ZenonT(30), <1>e, <1>2 DEF Counted, Lags, SenderSound
  <2>j. \A j \in Streams : Joined(j) => Joined(j)'
    BY ZenonT(30), <1>e, <1>2, <2>v, <2>o DEF Joined, Same
  <2>s. SenderSound(i)'
    BY ZenonT(30), <1>e, <1>k, <1>2, <2>v, <2>c, <2>j DEF SenderSound
  <2>w. Whole(i)' = Whole(i) /\ AtMost(i)' = AtMost(i)
    BY ZenonT(30), <1>2 DEF Whole, Adds, AtMost
  <2>q. queue'[i] # "open" /\ (queue'[i] = "closed" => queue[i] \in {"open", "closed"})
        /\ (queue[i] = "closed" => queue'[i] = "closed")
    BY <2>v
  <2>r. ReceiverSound(i)'
    BY ZenonT(30), <1>0, <1>e, <1>k, <1>2, <2>v, <2>w, <2>q DEF ReceiverSound
  <2>b. Stable(i)
    BY ZenonT(30), <1>2, <2>v DEF Stable, Complete
  <2> QED  BY ZenonT(30), <1>0, <1>2, <2>v, <2>t, <2>o, <2>s, <2>r, <2>b, <2>j, OneStream
<1> QED  BY ZenonT(30), <1>1, <1>2 DEF DeliverMarker

\* The end is seen once the queue has been read.
LEMMA ReceiveKeeps ==
  ASSUME IInv, NEW i \in Streams, Receive(i)
  PROVE  IInv'
<1> USE DEF setup, sender, transit, receiver
<1>0. TypeOK /\ UNCHANGED <<kind, dir, cl, sv, toC, toS, link, report>>
  BY ZenonT(30) DEF Receive, IInv
<1>k. WebRtc' = WebRtc /\ BrowserReceives' = BrowserReceives /\ Cut' = Cut
  BY ZenonT(30), <1>0 DEF WebRtc, BrowserReceives, Reverse, Cut, SendingSide
<1>e. /\ stage[i] \in Nat /\ put[i] \in Nat /\ sent[i] \in Nat /\ buf[i] \in Nat
      /\ wire[i] \in Nat /\ inq[i] \in Nat /\ recv[i] \in Nat /\ Chunk \in Nat \ {0}
      /\ SenderSound(i) /\ ReceiverSound(i)
  BY ZenonT(30), Entries
<1>1. CASE /\ recv' = [recv EXCEPT ![i] = recv[i] + inq[i]] /\ inq' = [inq EXCEPT ![i] = 0]
           /\ ~BrowserReceives /\ task[i] = "running"
           /\ UNCHANGED <<stage, put, sent, loop, late, marker, buf, wire, queue, task>>
  <2>g. ~BrowserReceives /\ task[i] = "running"
    BY <1>1
  <2>n. recv[i] + inq[i] \in Nat
    BY ZenonT(30), <2>g, <1>e, NatSteps
  <2>m1. Moved(recv, recv', i, recv[i] + inq[i], Nat)
    BY ZenonT(30), <1>0, <1>1, <2>n, Update DEF TypeOK
  <2>m2. Moved(inq, inq', i, 0, Nat)
    BY ZenonT(30), <1>0, <1>1, <2>n, Update DEF TypeOK
  <2>t. TypeOK'
    BY ZenonT(30), <1>0, <1>1, <2>m1, <2>m2 DEF TypeOK, Moved
  <2>o. \A j \in Streams : j # i => Same(j)
    BY ZenonT(30), <1>1, <2>m1, <2>m2 DEF Same, Moved
  <2>v. /\ recv'[i] = recv[i] + inq[i] /\ inq'[i] = 0
       /\ stage'[i] = stage[i] /\ put'[i] = put[i] /\ sent'[i] = sent[i] /\ buf'[i] = buf[i] /\ wire'[i] = wire[i]
    BY ZenonT(30), <1>1, <2>m1, <2>m2 DEF Moved
  <2>c. Counted(i)'
    BY ZenonT(30), <1>e, <1>1 DEF Counted, Lags, SenderSound
  <2>j. \A j \in Streams : Joined(j) => Joined(j)'
    BY ZenonT(30), <1>e, <1>1, <2>v, <2>o DEF Joined, Same
  <2>s. SenderSound(i)'
    BY ZenonT(30), <1>e, <1>k, <1>1, <2>v, <2>c, <2>j DEF SenderSound
  <2>w. (Whole(i) => Whole(i)') /\ (AtMost(i) => AtMost(i)')
    <3>1. Whole(i) => Adds(put[i], buf[i], wire[i], 0, recv[i] + inq[i])
      BY ZenonT(30), <1>e, SumSteps DEF Whole
    <3>2. AtMost(i) => buf[i] + wire[i] + 0 + (recv[i] + inq[i]) <= put[i]
      BY ZenonT(30), <1>e, BoundSteps DEF AtMost
    <3> QED  BY ZenonT(30), <2>v, <3>1, <3>2 DEF Whole, Adds, AtMost
  <2>r. ReceiverSound(i)'
    BY ZenonT(30), <1>0, <1>e, <1>k, <1>1, <2>v, <2>w DEF ReceiverSound
  <2>b. Stable(i)
    BY ZenonT(30), <1>1, <2>v DEF Stable, Complete
  <2> QED  BY ZenonT(30), <1>0, <1>1, <2>v, <2>t, <2>o, <2>s, <2>r, <2>b, <2>j, OneStream
<1>2. CASE /\ task' = [task EXCEPT ![i] = "eof"]
           /\ ~BrowserReceives /\ task[i] = "running" /\ queue[i] = "closed" /\ inq[i] = 0
           /\ UNCHANGED <<stage, put, sent, loop, late, marker, buf, wire, inq, queue, recv>>
  <2>g. ~BrowserReceives /\ task[i] = "running" /\ queue[i] = "closed" /\ inq[i] = 0
    BY <1>2
  <2>m1. Moved(task, task', i, "eof", {"running", "eof", "error"})
    BY ZenonT(30), <1>0, <1>2, Update DEF TypeOK
  <2>t. TypeOK'
    BY ZenonT(30), <1>0, <1>2, <2>m1 DEF TypeOK, Moved
  <2>o. \A j \in Streams : j # i => Same(j)
    BY ZenonT(30), <1>2, <2>m1 DEF Same, Moved
  <2>v. /\ task'[i] = "eof"
       /\ stage'[i] = stage[i] /\ put'[i] = put[i] /\ sent'[i] = sent[i] /\ buf'[i] = buf[i] /\ wire'[i] = wire[i] /\ inq'[i] = inq[i] /\ recv'[i] = recv[i]
    BY ZenonT(30), <1>2, <2>m1 DEF Moved
  <2>c. Counted(i)'
    BY ZenonT(30), <1>e, <1>2 DEF Counted, Lags, SenderSound
  <2>j. \A j \in Streams : Joined(j) => Joined(j)'
    BY ZenonT(30), <1>e, <1>2, <2>v, <2>o DEF Joined, Same
  <2>s. SenderSound(i)'
    BY ZenonT(30), <1>e, <1>k, <1>2, <2>v, <2>c, <2>j DEF SenderSound
  <2>w. Whole(i)' = Whole(i) /\ AtMost(i)' = AtMost(i)
    BY ZenonT(30), <1>2 DEF Whole, Adds, AtMost
  <2>r. ReceiverSound(i)'
    BY ZenonT(30), <1>0, <1>e, <1>k, <1>2, <2>v, <2>w DEF ReceiverSound
  <2>b. Stable(i)
    BY ZenonT(30), <1>2, <2>v DEF Stable, Complete
  <2> QED  BY ZenonT(30), <1>0, <1>2, <2>v, <2>t, <2>o, <2>s, <2>r, <2>b, <2>j, OneStream
<1>3. CASE /\ task' = [task EXCEPT ![i] = "error"]
           /\ ~BrowserReceives /\ task[i] = "running"
           /\ UNCHANGED <<stage, put, sent, loop, late, marker, buf, wire, inq, queue, recv>>
  <2>g. ~BrowserReceives /\ task[i] = "running"
    BY <1>3
  <2>m1. Moved(task, task', i, "error", {"running", "eof", "error"})
    BY ZenonT(30), <1>0, <1>3, Update DEF TypeOK
  <2>t. TypeOK'
    BY ZenonT(30), <1>0, <1>3, <2>m1 DEF TypeOK, Moved
  <2>o. \A j \in Streams : j # i => Same(j)
    BY ZenonT(30), <1>3, <2>m1 DEF Same, Moved
  <2>v. /\ task'[i] = "error"
       /\ stage'[i] = stage[i] /\ put'[i] = put[i] /\ sent'[i] = sent[i] /\ buf'[i] = buf[i] /\ wire'[i] = wire[i] /\ inq'[i] = inq[i] /\ recv'[i] = recv[i]
    BY ZenonT(30), <1>3, <2>m1 DEF Moved
  <2>c. Counted(i)'
    BY ZenonT(30), <1>e, <1>3 DEF Counted, Lags, SenderSound
  <2>j. \A j \in Streams : Joined(j) => Joined(j)'
    BY ZenonT(30), <1>e, <1>3, <2>v, <2>o DEF Joined, Same
  <2>s. SenderSound(i)'
    BY ZenonT(30), <1>e, <1>k, <1>3, <2>v, <2>c, <2>j DEF SenderSound
  <2>w. Whole(i)' = Whole(i) /\ AtMost(i)' = AtMost(i)
    BY ZenonT(30), <1>3 DEF Whole, Adds, AtMost
  <2>r. ReceiverSound(i)'
    BY ZenonT(30), <1>0, <1>e, <1>k, <1>3, <2>v, <2>w DEF ReceiverSound
  <2>b. Stable(i)
    BY ZenonT(30), <1>3, <2>v DEF Stable, Complete
  <2> QED  BY ZenonT(30), <1>0, <1>3, <2>v, <2>t, <2>o, <2>s, <2>r, <2>b, <2>j, OneStream
<1> QED  BY <1>1, <1>2, <1>3 DEF Receive

\* A queue that ends without a marker does so because the connection is gone.
LEMMA ChannelEndsKeeps ==
  ASSUME IInv, NEW i \in Streams, ChannelEnds(i)
  PROVE  IInv'
<1> USE DEF setup, sender, transit, receiver
<1>0. TypeOK /\ UNCHANGED <<kind, dir, cl, sv, toC, toS, link, report>>
  BY ZenonT(30) DEF ChannelEnds, IInv
<1>k. WebRtc' = WebRtc /\ BrowserReceives' = BrowserReceives /\ Cut' = Cut
  BY ZenonT(30), <1>0 DEF WebRtc, BrowserReceives, Reverse, Cut, SendingSide
<1>e. /\ stage[i] \in Nat /\ put[i] \in Nat /\ sent[i] \in Nat /\ buf[i] \in Nat
      /\ wire[i] \in Nat /\ inq[i] \in Nat /\ recv[i] \in Nat /\ Chunk \in Nat \ {0}
      /\ SenderSound(i) /\ ReceiverSound(i)
  BY ZenonT(30), Entries
<1>x. ~BrowserReceives /\ queue[i] = "open" => task[i] # "eof"
  BY ZenonT(30), <1>e DEF ReceiverSound
<1>1. CASE /\ queue' = [queue EXCEPT ![i] = "closed"]
           /\ link = "down" /\ ~BrowserReceives /\ queue[i] = "open"
           /\ UNCHANGED <<stage, put, sent, loop, late, marker, buf, wire, inq, recv, task>>
  <2>g. link = "down" /\ ~BrowserReceives /\ queue[i] = "open"
    BY <1>1
  <2>m1. Moved(queue, queue', i, "closed", {"open", "closed", "error"})
    BY ZenonT(30), <1>0, <1>1, Update DEF TypeOK
  <2>t. TypeOK'
    BY ZenonT(30), <1>0, <1>1, <2>m1 DEF TypeOK, Moved
  <2>o. \A j \in Streams : j # i => Same(j)
    BY ZenonT(30), <1>1, <2>m1 DEF Same, Moved
  <2>v. /\ queue'[i] = "closed"
       /\ stage'[i] = stage[i] /\ put'[i] = put[i] /\ sent'[i] = sent[i] /\ buf'[i] = buf[i] /\ wire'[i] = wire[i] /\ inq'[i] = inq[i] /\ recv'[i] = recv[i]
    BY ZenonT(30), <1>1, <2>m1 DEF Moved
  <2>c. Counted(i)'
    BY ZenonT(30), <1>e, <1>1 DEF Counted, Lags, SenderSound
  <2>j. \A j \in Streams : Joined(j) => Joined(j)'
    BY ZenonT(30), <1>e, <1>1, <2>v, <2>o DEF Joined, Same
  <2>s. SenderSound(i)'
    BY ZenonT(30), <1>e, <1>k, <1>1, <2>v, <2>c, <2>j DEF SenderSound
  <2>w. Whole(i)' = Whole(i) /\ AtMost(i)' = AtMost(i)
    BY ZenonT(30), <1>1 DEF Whole, Adds, AtMost
  <2>r. ReceiverSound(i)'
    BY ZenonT(30), <1>0, <1>e, <1>k, <1>1, <2>v, <2>w, <1>x DEF ReceiverSound
  <2>b. Stable(i)
    BY ZenonT(30), <1>1, <2>v DEF Stable, Complete
  <2> QED  BY ZenonT(30), <1>0, <1>1, <2>v, <2>t, <2>o, <2>s, <2>r, <2>b, <2>j, OneStream
<1>2. CASE /\ queue' = [queue EXCEPT ![i] = "error"]
           /\ ~BrowserReceives /\ queue[i] = "open"
           /\ UNCHANGED <<stage, put, sent, loop, late, marker, buf, wire, inq, recv, task>>
  <2>g. ~BrowserReceives /\ queue[i] = "open"
    BY <1>2
  <2>m1. Moved(queue, queue', i, "error", {"open", "closed", "error"})
    BY ZenonT(30), <1>0, <1>2, Update DEF TypeOK
  <2>t. TypeOK'
    BY ZenonT(30), <1>0, <1>2, <2>m1 DEF TypeOK, Moved
  <2>o. \A j \in Streams : j # i => Same(j)
    BY ZenonT(30), <1>2, <2>m1 DEF Same, Moved
  <2>v. /\ queue'[i] = "error"
       /\ stage'[i] = stage[i] /\ put'[i] = put[i] /\ sent'[i] = sent[i] /\ buf'[i] = buf[i] /\ wire'[i] = wire[i] /\ inq'[i] = inq[i] /\ recv'[i] = recv[i]
    BY ZenonT(30), <1>2, <2>m1 DEF Moved
  <2>c. Counted(i)'
    BY ZenonT(30), <1>e, <1>2 DEF Counted, Lags, SenderSound
  <2>j. \A j \in Streams : Joined(j) => Joined(j)'
    BY ZenonT(30), <1>e, <1>2, <2>v, <2>o DEF Joined, Same
  <2>s. SenderSound(i)'
    BY ZenonT(30), <1>e, <1>k, <1>2, <2>v, <2>c, <2>j DEF SenderSound
  <2>w. Whole(i)' = Whole(i) /\ AtMost(i)' = AtMost(i)
    BY ZenonT(30), <1>2 DEF Whole, Adds, AtMost
  <2>r. ReceiverSound(i)'
    BY ZenonT(30), <1>0, <1>e, <1>k, <1>2, <2>v, <2>w, <1>x DEF ReceiverSound
  <2>b. Stable(i)
    BY ZenonT(30), <1>2, <2>v DEF Stable, Complete
  <2> QED  BY ZenonT(30), <1>0, <1>2, <2>v, <2>t, <2>o, <2>s, <2>r, <2>b, <2>j, OneStream
<1> QED  BY ZenonT(30), <1>1, <1>2 DEF ChannelEnds

-----------------------------------------------------------------------------
\* Init, with its functions of zeros.
LEMMA InitSound == Init => IInv
<1> SUFFICES ASSUME Init PROVE IInv
  OBVIOUS
<1>1. Zero \in [Streams -> Nat] /\ \A i \in Streams : Zero[i] = 0
  BY DEF Zero
<1>2. toC \in Seq(Messages) /\ toS \in Seq(Messages)
  BY DEF Init, Messages
<1>3. TypeOK
  BY <1>1, <1>2 DEF Init, TypeOK
<1>4. \A i \in Streams : SenderSound(i)
  BY SMTT(30), <1>1, Constants DEF Init, SenderSound, Counted, Lags, Joined
<1>5. \A i \in Streams : ReceiverSound(i)
  BY <1>1 DEF Init, ReceiverSound, Whole, Adds, AtMost
<1>6. ~In("DISPLAY_RESULTS", toC) /\ ~In("results", toS)
  BY DEF Init, In
<1>7. Accounts
  BY <1>6 DEF Init, Accounts, Past, Reporting
<1> QED  BY <1>3, <1>4, <1>5, <1>7 DEF IInv

\* Every step keeps the books.
LEMMA NextKeeps == IInv /\ [Next]_vars => IInv'
<1> SUFFICES ASSUME IInv, [Next]_vars PROVE IInv'
  OBVIOUS
<1>1. CASE ClientStep
  BY <1>1, ClientQuiet, ClientDrainedKeeps DEF ClientStep
<1>2. CASE ServerStep \/ LinkLost
  BY <1>2, ServerQuiet, ServerDrainedKeeps, ReadClientResultsKeeps DEF ServerStep
<1>3. ASSUME NEW i \in Streams, SenderStep(i) \/ NetworkStep(i) \/ Receive(i)
      PROVE  IInv'
  BY <1>3, BeginChunkKeeps, SendPieceKeeps, SendFailsKeeps, CountChunkKeeps, StopSenderKeeps, EndMarkerKeeps,
     ChannelOpensKeeps, TransmitKeeps, DeliverKeeps, DeliverMarkerKeeps, ReceiveKeeps,
     ChannelEndsKeeps DEF SenderStep, NetworkStep
<1>4. CASE UNCHANGED vars
  <2>1. TypeOK /\ report' = report /\ sv' = sv /\ cl' = cl /\ toC' = toC /\ toS' = toS
        /\ link' = link /\ UNCHANGED <<setup, sender, transit, receiver, report>>
    BY SMTT(30), <1>4 DEF vars, IInv
  <2>2. toC' \in Seq(Messages) /\ toS' \in Seq(Messages)
    BY <2>1 DEF TypeOK
  <2>3. Cut' = Cut
    BY <2>1 DEF Cut, SendingSide, Reverse, setup
  <2> QED  BY <2>1, <2>2, <2>3, QuietControl
<1> QED  BY <1>1, <1>2, <1>3, <1>4 DEF Next

\* The books are kept in every reachable state: what client and server have been told
\* about a stream (a marker sent, a receiver done) is true of it.
THEOREM BooksKept == Spec => []IInv
<1>1. Init => IInv
  BY InitSound
<1>2. IInv /\ [Next]_vars => IInv'
  BY NextKeeps
<1> QED  BY <1>1, <1>2, PTL DEF Spec

\* When a client holds both results (handle_exchange_results in client.rs, result in
\* browser-peer.js), every stream's count at the sender is what was put on it, on QUIC up
\* to one chunk less, and its count at the receiver is all that was put; a receiver of
\* the client that has failed, which nothing checks, may have counted less, never more.
THEOREM NothingMissingAlways == Spec => []NothingMissing
<1>1. IInv => NothingMissing
  <2> SUFFICES ASSUME IInv, cl \in Reporting, NEW i \in Streams
               PROVE  /\ IF WebRtc THEN Sent(i) = put[i]
                         ELSE Sent(i) <= put[i] /\ put[i] <= Sent(i) + Chunk
                      /\ Received(i) <= put[i]
                      /\ ~(Reverse /\ task[i] = "error") => Received(i) = put[i]
    BY ZenonT(30) DEF NothingMissing
  <2>0. /\ put[i] \in Nat /\ sent[i] \in Nat /\ buf[i] \in Nat /\ wire[i] \in Nat
        /\ inq[i] \in Nat /\ recv[i] \in Nat /\ report[i] \in Nat /\ stage[i] \in Nat
        /\ Chunk \in Nat
    BY Constants DEF IInv, TypeOK
  <2>1. Tallied(i) /\ SenderSound(i) /\ ReceiverSound(i)
    BY ZenonT(30) DEF IInv, Accounts
  <2>q. queue[i] \in {"open", "closed", "error"}
    BY ZenonT(30) DEF IInv, TypeOK
  <2>a. recv[i] <= put[i]
    BY ZenonT(30), <2>0, <2>1, BoundSteps DEF ReceiverSound, AtMost
  <2>2. ASSUME Complete(i)  PROVE recv[i] = put[i]
    <3>1. /\ marker[i] = "read" /\ buf[i] = 0 /\ wire[i] = 0 /\ inq[i] = 0
          /\ queue[i] \in {"open", "closed"}
      BY ZenonT(30), <2>1, <2>2, <2>q DEF Complete, ReceiverSound
    <3>2. Adds(put[i], 0, 0, 0, recv[i])
      BY ZenonT(30), <2>1, <3>1 DEF ReceiverSound, Whole
    <3> QED  BY ZenonT(30), <2>0, <3>2, AllReceived
  <2>3. CASE Reverse
    <3>1. /\ Sent(i) = report[i] /\ Received(i) = recv[i]
          /\ task[i] = "error" \/ Complete(i)
          /\ report[i] <= put[i] /\ put[i] <= report[i] + Chunk /\ (WebRtc => report[i] = put[i])
      BY ZenonT(30), <2>1, <2>3 DEF Tallied, Received, Sent
    <3> QED  BY ZenonT(30), <2>2, <2>a, <2>3, <3>1
  <2>4. CASE ~Reverse
    <3>1. marker[i] = "read" /\ recv[i] = put[i] /\ report[i] = recv[i]
      BY ZenonT(30), <2>1, <2>2, <2>4 DEF Tallied, Complete
    <3>2. sent[i] <= put[i] /\ put[i] <= sent[i] + Chunk /\ (WebRtc => sent[i] = put[i])
      BY ZenonT(30), <2>0, <2>1, <3>1, LagSteps DEF SenderSound, Counted, Joined
    <3>3. Sent(i) = sent[i] /\ Received(i) = report[i]
      BY ZenonT(30), <2>4 DEF Received, Sent
    <3> QED  BY ZenonT(30), <2>a, <2>4, <3>1, <3>2, <3>3
  <2> QED  BY ZenonT(30), <2>3, <2>4
<1> QED  BY <1>1, BooksKept, PTL

\* No sender hands anything to a channel after its end marker (finish_send in server.rs,
\* drainAndFinish in browser-peer.js).
THEOREM NothingAfterMarkerAlways == Spec => []NothingAfterMarker
<1>1. IInv => NothingAfterMarker
  BY DEF IInv, SenderSound, NothingAfterMarker
<1> QED  BY <1>1, BooksKept, PTL
=============================================================================
