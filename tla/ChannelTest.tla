---------------------------- MODULE ChannelTest ----------------------------
(***************************************************************************)
(* A whole test over a transport whose control and data travel on separate *)
(* channels that overtake each other: the netsu-rs server                  *)
(* (netsu-rs/src/server.rs) with the browser peer                          *)
(* (interop/transports/browser/browser-peer.js) or the netsu-rs client     *)
(* (netsu-rs/src/client.rs) over WebRTC, or with the netsu-rs client over  *)
(* QUIC.  Either side may be the sender.                                   *)
(*                                                                         *)
(* Data is counted in pieces: a chunk of the test (len bytes) is Chunk     *)
(* messages or packets.  Each data channel is reliable and ordered, and    *)
(* its end is a marker: an empty message on WebRTC, FIN on QUIC.  The      *)
(* channels, their buffers and ICE are external.                           *)
(***************************************************************************)
EXTENDS Naturals, Sequences, FiniteSets, Functions

CONSTANTS
    Streams,       \* the data streams of the test
    Chunk,         \* pieces in one chunk
    MaxPieces,     \* bound: pieces put on each stream
    HighWatermark, \* pieces a sender's buffer takes
    QueueLimit     \* RECEIVE_QUEUE_LIMIT, in pieces

ASSUME ChannelAssumption ==
    /\ IsFiniteSet(Streams)
    /\ Chunk \in Nat \ {0} /\ MaxPieces \in [Streams -> Nat]
    /\ HighWatermark \in Nat \ {0} /\ QueueLimit \in Nat \ {0}

VARIABLES
    kind,     \* the client: "browser" or "rust" over WebRTC, "quic"
    dir,      \* who sends: "forward" the client, "reverse" the server
    calm,     \* no timer fires, no connection is lost, receivers keep up
    cl, sv,   \* where the client and the server are
    toC, toS, \* the control channel
    link,     \* the connection: "up" or "down"
    chan,     \* the data channels: "none", "opening", "open"
    stage,    \* sender: 0 between chunks, 1 chunk written, n + 1: n pieces to go
    put,      \* pieces handed to the channel
    sent,     \* the sender's counter
    loop,     \* the sender's task: "running" or "stopped"
    marker,   \* where the end marker is: "none", "buffer", "wire", "read"
    late,     \* pieces handed over after the marker (history)
    buf,      \* pieces in the sender's buffer
    wire,     \* pieces under way
    inq,      \* pieces in the receive queue
    queue,    \* the receive queue: "open", "closed", "error"
    recv,     \* the receiver's counter
    task,     \* the receiver: "running", "eof", "error"
    report    \* the counters in the server's results

setup == <<kind, dir, calm>>
sender == <<stage, put, sent, loop, late>>
transit == <<marker, buf, wire>>
receiver == <<inq, queue, recv, task>>
vars == <<setup, cl, sv, toC, toS, link, chan, sender, transit, receiver, report>>

ClientEnded == {"finished", "failed"}
ServerEnded == {"ok", "failed"}
WebRtc == kind # "quic"
Reverse == dir = "reverse"
BrowserSends == kind = "browser" /\ ~Reverse
BrowserReceives == kind = "browser" /\ Reverse
Zero == [i \in Streams |-> 0]

Init ==
    /\ kind \in {"browser", "rust", "quic"}
    /\ dir \in {"forward", "reverse"} /\ calm \in BOOLEAN
    /\ cl = "reading" /\ sv = "cookie"
    /\ toC = <<>> /\ toS = <<"cookie">>
    /\ link = "up"
    /\ chan = [i \in Streams |-> "none"]
    /\ stage = Zero /\ put = Zero /\ sent = Zero
    /\ loop = [i \in Streams |-> "running"]
    /\ marker = [i \in Streams |-> "none"]
    /\ buf = Zero /\ wire = Zero /\ inq = Zero /\ recv = Zero /\ late = Zero
    /\ queue = [i \in Streams |-> "open"]
    /\ task = [i \in Streams |-> "running"]
    /\ report = Zero

-----------------------------------------------------------------------------
(* The control channel.  What is written once the connection is gone is lost, and what *)
(* comes to a side in its teardown is not read.                                        *)

ToClient(ms) == toC' = IF link = "up" /\ cl # "teardown" THEN toC \o ms ELSE toC
ToServer(ms) == toS' = IF link = "up" /\ sv # "teardown" THEN toS \o ms ELSE toS

\* What arrives of the messages under way when the connection ends: some prefix, and
\* all of them when whoever closes has waited for that.
Arrives(q) ==
    IF calm \/ link = "down" THEN {q} ELSE {SubSeq(q, 1, k) : k \in 0..Len(q)}

ClientEnds(verdict) ==
    cl' = verdict /\ link' = "down" /\ toC' = <<>> /\ toS' \in Arrives(toS)

\* The client gives up.  The browser closes its peer at once; the run_loop of netsu-rs
\* returns its error, and teardown() comes first.
ClientErrs ==
    IF kind = "browser" THEN ClientEnds("failed")
    ELSE cl' = "teardown" /\ toC' = <<>> /\ UNCHANGED <<toS, link>>

\* The server gives up: it writes SERVER_ERROR, but for a cookie that did not come,
\* and tears the session down.
ServerErrs ==
    /\ sv' = "teardown"
    /\ ToClient(IF sv = "cookie" THEN <<>> ELSE <<"SERVER_ERROR">>)
    /\ toS' = <<>> /\ UNCHANGED link

\* A join that times out aborts the tasks it waits for.
AbortSenders ==
    /\ loop' = [i \in Streams |-> "stopped"]
    /\ UNCHANGED <<stage, put, sent, late>>

\* close() of stream i has returned where it is sent.  It takes the lock of the channel,
\* which a WebRTC sender keeps until its chunk is written; a QUIC sender drops its write
\* on the stop signal, like every receiver its read, and close() sends FIN.
Released(i) ==
    IF WebRtc THEN loop[i] = "stopped" \/ stage[i] <= 1
    ELSE link = "down" \/ chan[i] # "open" \/ marker[i] # "none"

-----------------------------------------------------------------------------
(* The client: runProtocol in browser-peer.js, run_loop in client.rs. *)

Takes(next, ms) == cl' = next /\ toC' = Tail(toC) /\ ToServer(ms) /\ UNCHANGED link

\* One control state, read where the client waits for any of them.
ReadState ==
    /\ cl = "reading" /\ toC # <<>>
    /\ LET m == Head(toC)
       IN \/ /\ m = "PARAM_EXCHANGE"
             /\ Takes("reading", <<"params">>) /\ UNCHANGED chan
          \/ /\ m = "CREATE_STREAMS"
             /\ chan' = [i \in Streams |-> "opening"]
             /\ Takes("opening", <<>>)
          \/ /\ m = "TEST_START"
             /\ Takes("reading", <<>>) /\ UNCHANGED chan
          \/ /\ m = "TEST_RUNNING"
             /\ Takes("running", <<>>) /\ UNCHANGED chan
          \/ /\ m = "EXCHANGE_RESULTS" /\ Reverse
             /\ Takes("draining", <<>>) /\ UNCHANGED chan
          \/ /\ m = "EXCHANGE_RESULTS" /\ ~Reverse
             /\ Takes("results", <<"results">>) /\ UNCHANGED chan
          \/ /\ m = "DISPLAY_RESULTS"
             /\ Takes(IF WebRtc THEN "ack" ELSE "closing", <<"IPERF_DONE">>)
             /\ UNCHANGED chan
          \/ /\ m \in {"SERVER_ERROR", "results", "IPERF_DONE"}
             /\ ClientErrs /\ UNCHANGED chan
    /\ UNCHANGED <<setup, sv, sender, transit, receiver, report>>

\* openPayloads / open_requested_streams: every data channel is open.
PayloadsOpen ==
    /\ cl = "opening" /\ \A i \in Streams : chan[i] = "open"
    /\ cl' = "reading"
    /\ UNCHANGED <<setup, sv, toC, toS, link, chan, sender, transit, receiver, report>>

\* The time of the test is over.  A sender on WebRTC says TEST_END after its markers,
\* one on QUIC before them; a receiver says it at once.
Deadline ==
    /\ cl = "running"
    /\ cl' = IF Reverse THEN "reading" ELSE "stopping"
    /\ ToServer(IF WebRtc /\ ~Reverse THEN <<>> ELSE <<"TEST_END">>)
    /\ UNCHANGED <<setup, sv, toC, link, chan, sender, transit, receiver, report>>

MarkersSent == \A i \in Streams : marker[i] # "none"

ClientStopped ==
    /\ cl = "stopping" /\ MarkersSent
    /\ cl' = "reading"
    /\ ToServer(IF WebRtc THEN <<"TEST_END">> ELSE <<>>)
    /\ UNCHANGED <<setup, sv, toC, link, chan, sender, transit, receiver, report>>

\* Mutant: the results are sent without waiting for the end markers.
NotWaiting == TRUE

\* Every receiver has seen its end marker, or has failed.
ReceiversDone == \A i \in Streams : task[i] # "running"

\* A client that receives drains its streams before it reports what came.
ClientDrained ==
    /\ cl = "draining" /\ ReceiversDone
    /\ cl' = "results"
    /\ ToServer(<<"results">>)
    /\ UNCHANGED <<setup, sv, toC, link, chan, sender, transit, receiver, report>>

ReadResults ==
    /\ cl = "results" /\ toC # <<>>
    /\ IF Head(toC) = "results" THEN Takes("reading", <<>>) ELSE ClientErrs
    /\ UNCHANGED <<setup, sv, chan, sender, transit, receiver, report>>

Total(f) == FoldFunction(LAMBDA x, y : x + y, 0, f)

\* The two byte counts may differ by 5 % for the browser and by 2 % for netsu-rs.
Reconciled ==
    LET local == Total(IF Reverse THEN recv ELSE sent)
        remote == Total(report)
        most == IF local > remote THEN local ELSE remote
        least == IF local > remote THEN remote ELSE local
    IN 100 * (most - least) <= (IF kind = "browser" THEN 5 ELSE 2) * most

\* The acknowledgement of IPERF_DONE, then result() or the checks of run_webrtc.
ReadAck ==
    /\ cl = "ack" /\ toC # <<>>
    /\ IF Head(toC) = "IPERF_DONE"
       THEN ClientEnds(IF Reconciled THEN "finished" ELSE "failed")
       ELSE ClientErrs
    /\ UNCHANGED <<setup, sv, chan, sender, transit, receiver, report>>

\* On QUIC the client waits until IPERF_DONE has arrived, and closes.
QuicCloses ==
    /\ cl = "closing"
    /\ ClientEnds("finished")
    /\ UNCHANGED <<setup, sv, chan, sender, transit, receiver, report>>

\* A wait of the client times out, or the connection it uses is gone.
ClientFails ==
    /\ ~calm /\ cl \notin ClientEnded \cup {"teardown"}
    /\ IF cl = "stopping" /\ ~Reverse /\ kind = "rust" THEN AbortSenders ELSE UNCHANGED sender
    /\ ClientErrs
    /\ UNCHANGED <<setup, sv, chan, transit, receiver, report>>

\* teardown() has closed every stream; the connection is closed after it.
ClientTornDown ==
    /\ cl = "teardown" /\ (~Reverse => \A i \in Streams : Released(i))
    /\ IF Reverse THEN UNCHANGED sender ELSE AbortSenders
    /\ ClientEnds("failed")
    /\ UNCHANGED <<setup, sv, chan, transit, receiver, report>>

-----------------------------------------------------------------------------
(* The server: start_webrtc_server, handle_connection and ServerSession::run. *)

Answers(from, m, next, ms) ==
    /\ sv = from /\ toS # <<>> /\ Head(toS) = m
    /\ sv' = next /\ toS' = Tail(toS) /\ ToClient(ms)
    /\ UNCHANGED <<setup, cl, link, chan, sender, transit, receiver>>

ReadCookie == Answers("cookie", "cookie", "params", <<"PARAM_EXCHANGE">>) /\ UNCHANGED report
ReadParams == Answers("params", "params", "streams", <<"CREATE_STREAMS">>) /\ UNCHANGED report
ReadTestEnd == Answers("running", "TEST_END", "draining", <<>>) /\ UNCHANGED report

\* collect_streams, then the test runs.
CollectStreams ==
    /\ sv = "streams" /\ \A i \in Streams : chan[i] = "open"
    /\ sv' = "running"
    /\ ToClient(<<"TEST_START", "TEST_RUNNING">>)
    /\ UNCHANGED <<setup, cl, toS, link, chan, sender, transit, receiver, report>>

\* A server that sends goes on when its markers are out, one that receives when
\* every receiver has ended; a stream that failed fails the test.
ServerDrained ==
    /\ sv = "draining"
    /\ IF Reverse THEN MarkersSent ELSE ReceiversDone
    /\ IF ~Reverse /\ \E i \in Streams : task[i] = "error"
       THEN ServerErrs
       ELSE sv' = "results" /\ ToClient(<<"EXCHANGE_RESULTS">>) /\ UNCHANGED <<toS, link>>
    /\ UNCHANGED <<setup, cl, chan, sender, transit, receiver, report>>

ReadClientResults ==
    /\ Answers("results", "results", "done", <<"results", "DISPLAY_RESULTS">>)
    /\ report' = IF Reverse THEN sent ELSE recv

\* Mutant: WebRTC is treated like QUIC, which needs no acknowledgement.
ReadDoneSilently == Answers("done", "IPERF_DONE", "ok", <<>>) /\ UNCHANGED report

\* On WebRTC the server acknowledges, and waits for the client to close.
ReadDone ==
    /\ Answers("done", "IPERF_DONE", IF WebRtc THEN "closing" ELSE "ok",
               IF WebRtc THEN <<"IPERF_DONE">> ELSE <<>>)
    /\ UNCHANGED report

PeerClosed ==
    /\ sv = "closing" /\ link = "down" /\ toS = <<>>
    /\ sv' = "ok"
    /\ UNCHANGED <<setup, cl, toC, toS, link, chan, sender, transit, receiver, report>>

\* A wait of the server times out, close() aborts it, or its connection is gone.  The
\* join of the senders aborts them when it times out, and leaves them running when
\* close() drops it.
ServerFails ==
    /\ ~calm /\ sv \notin ServerEnded \cup {"teardown"}
    /\ UNCHANGED sender \/ (sv = "draining" /\ Reverse /\ WebRtc /\ AbortSenders)
    /\ ServerErrs
    /\ UNCHANGED <<setup, cl, chan, transit, receiver, report>>

ServerTornDown ==
    /\ sv = "teardown" /\ (Reverse => \A i \in Streams : Released(i))
    /\ sv' = "failed" /\ link' = "down" /\ toC' \in Arrives(toC) /\ UNCHANGED toS
    /\ IF Reverse THEN AbortSenders ELSE UNCHANGED sender
    /\ UNCHANGED <<setup, cl, chan, transit, receiver, report>>

-----------------------------------------------------------------------------
(* The senders: transfer() and sendBytes in browser-peer.js, run_sender in runner.rs. *)

SendingSide == IF Reverse THEN sv ELSE cl
Sending == SendingSide \in {"running", "stopping", "draining", "teardown"}
StopAsked == SendingSide \in {"stopping", "draining", "teardown"}

BeginChunk(i) ==
    /\ Sending /\ ~StopAsked /\ loop[i] = "running" /\ stage[i] = 0
    /\ put[i] + Chunk <= MaxPieces[i]
    /\ stage' = [stage EXCEPT ![i] = Chunk + 1]
    /\ UNCHANGED <<setup, cl, sv, toC, toS, link, chan, put, sent, loop, late,
                   transit, receiver, report>>

\* One message or packet.  QUIC refuses it after FIN; WebRTC does not know its marker.
SendPiece(i) ==
    /\ link = "up" /\ Sending /\ loop[i] = "running" /\ stage[i] > 1 /\ buf[i] < HighWatermark
    /\ WebRtc \/ marker[i] = "none"
    /\ stage' = [stage EXCEPT ![i] = @ - 1]
    /\ put' = [put EXCEPT ![i] = @ + 1]
    /\ IF marker[i] = "none"
       THEN buf' = [buf EXCEPT ![i] = @ + 1] /\ UNCHANGED late
       ELSE late' = [late EXCEPT ![i] = @ + 1] /\ UNCHANGED buf
    /\ UNCHANGED <<setup, cl, sv, toC, toS, link, chan, sent, loop, marker, wire,
                   receiver, report>>

\* Mutant: a send of netsu-rs has no timer either.
SendHangs(i) ==
    /\ link = "down" /\ Sending /\ loop[i] = "running" /\ stage[i] > 1
    /\ ~WebRtc \/ BrowserSends
    /\ loop' = [loop EXCEPT ![i] = "stopped"]
    /\ UNCHANGED <<setup, cl, sv, toC, toS, link, chan, stage, put, sent, late, transit,
                   receiver, report>>

\* A send on a connection that is gone fails, at the latest when its timer fires, and
\* the sender ends.  But the wait of netsu-rs for a WebRTC buffer that is full
\* (wait_for_capacity) has no timer: nothing drains that buffer any more.
SendFails(i) ==
    /\ link = "down" /\ Sending /\ loop[i] = "running" /\ stage[i] > 1
    /\ buf[i] < HighWatermark \/ ~WebRtc \/ BrowserSends
    /\ loop' = [loop EXCEPT ![i] = "stopped"]
    /\ UNCHANGED <<setup, cl, sv, toC, toS, link, chan, stage, put, sent, late, transit,
                   receiver, report>>

\* The chunk is written, and counted.
CountChunk(i) ==
    /\ stage[i] = 1
    /\ stage' = [stage EXCEPT ![i] = 0]
    /\ sent' = [sent EXCEPT ![i] = @ + Chunk]
    /\ UNCHANGED <<setup, cl, sv, toC, toS, link, chan, put, loop, late, transit,
                   receiver, report>>

\* On WebRTC a sender looks at the stop signal between chunks; on QUIC it also drops
\* the write it is in.
MayStop(i) == stage[i] = 0 \/ (~WebRtc /\ stage[i] > 1)

StopSender(i) ==
    /\ StopAsked /\ chan[i] = "open" /\ loop[i] = "running" /\ MayStop(i)
    /\ loop' = [loop EXCEPT ![i] = "stopped"]
    /\ UNCHANGED <<setup, cl, sv, toC, toS, link, chan, stage, put, sent, late, transit,
                   receiver, report>>

\* drainAndFinish, finish_send: on WebRTC all senders have been joined, and the
\* browser's buffer is empty.  teardown() sends no marker on WebRTC.
MayEnd(i) ==
    /\ SendingSide = "teardown" => ~WebRtc /\ chan[i] = "open"
    /\ WebRtc => \A j \in Streams : loop[j] = "stopped"
    /\ BrowserSends => buf[i] = 0

EndMarker(i) ==
    /\ link = "up" /\ StopAsked /\ marker[i] = "none" /\ MayEnd(i)
    /\ marker' = [marker EXCEPT ![i] = "buffer"]
    /\ UNCHANGED <<setup, cl, sv, toC, toS, link, chan, sender, buf, wire, receiver, report>>

-----------------------------------------------------------------------------
(* The data channels (external) and the receivers: InboundQueue in pipe.rs, *)
(* run_receiver in runner.rs, attachPayloadReceiver in browser-peer.js.     *)

ChannelOpens(i) ==
    /\ link = "up" /\ chan[i] = "opening"
    /\ chan' = [chan EXCEPT ![i] = "open"]
    /\ UNCHANGED <<setup, cl, sv, toC, toS, link, sender, transit, receiver, report>>

Transmit(i) ==
    /\ link = "up"
    /\ \/ /\ buf[i] > 0
          /\ buf' = [buf EXCEPT ![i] = @ - 1]
          /\ wire' = [wire EXCEPT ![i] = @ + 1]
          /\ UNCHANGED marker
       \/ /\ buf[i] = 0 /\ marker[i] = "buffer"
          /\ marker' = [marker EXCEPT ![i] = "wire"]
          /\ UNCHANGED <<buf, wire>>
    /\ UNCHANGED <<setup, cl, sv, toC, toS, link, chan, sender, receiver, report>>

\* A piece arrives.  The browser counts it at once; the queue of netsu-rs takes it, or
\* fails for good when it is full, and drops it and all others from then on; QUIC's
\* flow control keeps it back.
Deliver(i) ==
    /\ link = "up" /\ wire[i] > 0
    /\ wire' = [wire EXCEPT ![i] = @ - 1]
    /\ \/ /\ BrowserReceives
          /\ recv' = [recv EXCEPT ![i] = @ + 1]
          /\ UNCHANGED <<inq, queue>>
       \/ /\ ~BrowserReceives /\ queue[i] = "open" /\ inq[i] < QueueLimit
          /\ inq' = [inq EXCEPT ![i] = @ + 1]
          /\ UNCHANGED <<recv, queue>>
       \/ /\ ~BrowserReceives
          /\ queue[i] # "open" \/ (inq[i] >= QueueLimit /\ WebRtc /\ ~calm)
          /\ queue' = [queue EXCEPT ![i] = IF @ = "open" THEN "error" ELSE @]
          /\ UNCHANGED <<inq, recv>>
    /\ UNCHANGED <<setup, cl, sv, toC, toS, link, chan, sender, marker, buf, task, report>>

DeliverMarker(i) ==
    /\ link = "up" /\ wire[i] = 0 /\ marker[i] = "wire"
    /\ marker' = [marker EXCEPT ![i] = "read"]
    /\ IF BrowserReceives
       THEN task' = [task EXCEPT ![i] = "eof"] /\ UNCHANGED queue
       ELSE queue' = [queue EXCEPT ![i] = IF @ = "open" THEN "closed" ELSE @] /\ UNCHANGED task
    /\ UNCHANGED <<setup, cl, sv, toC, toS, link, chan, sender, buf, wire, inq, recv, report>>

\* teardown() stops the receivers, whose reads give up their locks.
Receiving ==
    IF Reverse THEN cl \notin ClientEnded \cup {"teardown"}
    ELSE sv \notin ServerEnded \cup {"teardown"}

\* read_up_to: what is queued comes first, then the failure, then the end.
Receive(i) ==
    /\ Receiving /\ ~BrowserReceives /\ task[i] = "running"
    /\ \/ /\ inq[i] > 0
          /\ recv' = [recv EXCEPT ![i] = @ + inq[i]]
          /\ inq' = [inq EXCEPT ![i] = 0]
          /\ UNCHANGED task
       \/ /\ queue[i] = "closed" /\ inq[i] = 0
          /\ task' = [task EXCEPT ![i] = "eof"]
          /\ UNCHANGED <<recv, inq>>
       \/ /\ queue[i] = "error" /\ inq[i] = 0
          /\ task' = [task EXCEPT ![i] = "error"]
          /\ UNCHANGED <<recv, inq>>
    /\ UNCHANGED <<setup, cl, sv, toC, toS, link, chan, sender, transit, queue, report>>

\* The connection is gone: on_close ends a WebRTC queue like a marker, on_error and
\* QUIC fail it; the browser's receiver just waits.
ChannelEnds(i) ==
    /\ link = "down" /\ Receiving /\ ~BrowserReceives /\ queue[i] = "open"
    /\ \E end \in IF WebRtc THEN {"closed", "error"} ELSE {"error"} :
          queue' = [queue EXCEPT ![i] = end]
    /\ UNCHANGED <<setup, cl, sv, toC, toS, link, chan, sender, transit, inq, recv, task, report>>

LinkLost ==
    /\ ~calm /\ link = "up"
    /\ link' = "down" /\ toC' \in Arrives(toC) /\ toS' \in Arrives(toS)
    /\ UNCHANGED <<setup, cl, sv, chan, sender, transit, receiver, report>>

-----------------------------------------------------------------------------
ClientStep ==
    \/ ReadState \/ PayloadsOpen \/ Deadline \/ ClientStopped \/ ClientDrained
    \/ ReadResults \/ ReadAck \/ QuicCloses \/ ClientFails \/ ClientTornDown

ServerStep ==
    \/ ReadCookie \/ ReadParams \/ CollectStreams \/ ReadTestEnd \/ ServerDrained
    \/ ReadClientResults \/ ReadDone \/ PeerClosed \/ ServerFails
    \/ ServerTornDown

SenderStep(i) ==
    \/ BeginChunk(i) \/ SendPiece(i) \/ SendFails(i) \/ CountChunk(i) \/ StopSender(i)
    \/ EndMarker(i)

NetworkStep(i) == ChannelOpens(i) \/ Transmit(i) \/ Deliver(i) \/ DeliverMarker(i) \/ ChannelEnds(i)

Next ==
    \/ ClientStep \/ ServerStep \/ LinkLost
    \/ \E i \in Streams : SenderStep(i) \/ NetworkStep(i) \/ Receive(i)

Spec == Init /\ [][Next]_vars

\* Tasks run on, timers fire, and an open connection delivers what it carries: some step
\* is taken while any but a fault is possible.  Every step moves the test on and the
\* pieces are bounded, so in the end no task is left with a step that it can take.
FairSpec ==
    /\ Spec
    /\ WF_vars(\/ ClientStep \/ ServerStep
               \/ \E i \in Streams : SenderStep(i) \/ NetworkStep(i) \/ Receive(i))

-----------------------------------------------------------------------------
Reporting == {"ack", "closing", "finished"}

Sent(i) == IF Reverse THEN report[i] ELSE sent[i]
Received(i) == IF Reverse THEN recv[i] ELSE report[i]

\* When the client holds both results, although control overtakes data, queues overflow
\* and connections break: the sender's count of every stream is what was handed to its
\* channel, on QUIC at most one chunk less, and the receiver's count is no more than
\* that, and all of it but for one case.  A receiver of the client that has failed
\* reports what it has: the client does not look at it, and only the reconciliation of
\* the totals on WebRTC is left to notice.
NothingMissing ==
    cl \in Reporting =>
        \A i \in Streams :
            /\ IF WebRtc THEN Sent(i) = put[i]
               ELSE Sent(i) <= put[i] /\ put[i] <= Sent(i) + Chunk
            /\ Received(i) <= put[i]
            /\ ~(Reverse /\ task[i] = "error") => Received(i) = put[i]

\* Nothing is handed to a channel after its end marker, where the receiver's closed
\* queue would throw it away: the senders have been joined by then.
NothingAfterMarker == \A i \in Streams : late[i] = 0

\* If nothing fails, client and server end the test well: no drain waits for a marker
\* that comes only after it.
CalmSucceeds == calm ~> cl = "finished" /\ sv = "ok"

\* teardown() waits for the lock of a WebRTC sender of netsu-rs that waits for its full
\* buffer on a connection that is gone.
Stuck(side) ==
    /\ side = "teardown" /\ WebRtc /\ link = "down"
    /\ \E i \in Streams : ~Released(i) /\ buf[i] >= HighWatermark

ClientOver == cl \in ClientEnded \/ (~Reverse /\ Stuck(cl))
ServerOver == sv \in ServerEnded \/ (Reverse /\ Stuck(sv))

\* Whatever fails, and wherever it fails, both sides come to an end: teardown gets every
\* lock, for a task gives its lock up on the stop signal, when its chunk is written or
\* when its send fails.  The one exception is Stuck, see TeardownEnds.
BothEnd == <>(ClientOver /\ ServerOver)

\* What the comments of run_client, teardown and close say: tearing a session down
\* comes to an end.
TeardownEnds ==
    /\ cl = "teardown" ~> cl \in ClientEnded
    /\ sv = "teardown" ~> sv \in ServerEnded
=============================================================================
