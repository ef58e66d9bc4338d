----------------------------- MODULE ClientTest -----------------------------
(***************************************************************************)
(* One client of packages/netsu with one TCP or WebSocket stream, from     *)
(* TEST_RUNNING to #cleanup: startSender and the write() of the two data   *)
(* channels, the error latch, the three ways in which a test ends, and the *)
(* results.  The event loop is part of it.  A loop of writes that settle at*)
(* once lets no timer and no socket event in, so these happen only while   *)
(* the sender awaits something real; and a flood of received data may      *)
(* starve the timers for good.  The buffer counts in chunks.  A failure of *)
(* the control connection is in ControlSession.                            *)
(***************************************************************************)
EXTENDS Integers

CONSTANTS
    HighWater,       \* the socket's high-water mark
    YieldInterval,   \* YIELD_INTERVAL_MS
    Deadline,        \* #deadlineMs, when the test has started at 0
    MaxClock         \* where the clock stops counting

ASSUME ClientAssumption ==
    /\ HighWater \in Nat \ {0} /\ YieldInterval \in Nat \ {0}
    /\ Deadline \in Nat \ {0} /\ MaxClock \in Nat /\ Deadline <= MaxClock

VARIABLES
    reverse,      \* params.reverse
    webSocket,    \* whether the stream is a WsDataChannel
    pc,           \* the sender: "loop", "writing", "yield" or "stopped"
    turn,         \* changes with every round of the loop, so that rounds are steps
    buffered,     \* chunks that the system has not taken yet
    sinceYield,   \* time since lastYield
    open,         \* the stream's socket is open
    closed,       \* close() of the stream was called
    latched,      \* #pendingError of the channel
    transferErr,  \* what close() kept of it
    failed,       \* the connection failed before the stream was closed
    flood,        \* the peer still sends data
    now,          \* Date.now()
    running,      \* #running
    endMs,        \* #endMs, 0 when not set
    timer,        \* #endTimer is armed
    testEnds,     \* how often TEST_END was written
    control       \* run(): "reading", "results", or "done" after #cleanup

stream == <<pc, turn, buffered, sinceYield>>
channel == <<open, closed, latched, transferErr, failed>>
test == <<running, endMs, timer, testEnds>>
vars == <<reverse, webSocket, stream, channel, flood, now, test, control>>

Init ==
    /\ reverse \in BOOLEAN /\ webSocket \in BOOLEAN
    /\ pc = IF reverse THEN "stopped" ELSE "loop"
    /\ turn = FALSE /\ buffered = 0 /\ sinceYield = 0
    /\ open = TRUE /\ closed = FALSE
    /\ latched = FALSE /\ transferErr = FALSE /\ failed = FALSE
    /\ flood = reverse
    /\ now = 1 /\ running = TRUE /\ endMs = 0 /\ timer = TRUE
    /\ testEnds = 0 /\ control = "reading"

\* The sender awaits something that is not settled: the event loop turns.
Idle == pc \in {"writing", "yield", "stopped"}

-----------------------------------------------------------------------------
(* The sender and its channel.                                             *)

\* The rest of an iteration, when write() has resolved.
AfterWrite ==
    IF sinceYield >= YieldInterval THEN pc' = "yield" /\ sinceYield' = 0
                                   ELSE pc' = "loop" /\ UNCHANGED sinceYield

\* socket.write(): the system takes the chunk at once, or it is buffered; below the mark
\* write() has resolved, else it waits for "drain".  A destroyed socket has its error
\* latched.
WriteTcp ==
    \/ /\ buffered = 0
       /\ buffered' = 0
       /\ AfterWrite
    \/ /\ buffered + 1 < HighWater
       /\ buffered' = buffered + 1
       /\ AfterWrite
    \/ /\ buffered + 1 >= HighWater
       /\ buffered' = buffered + 1
       /\ pc' = "writing" /\ UNCHANGED sinceYield

\* ws.send(): write() resolves in the callback, which comes at once when the system
\* takes the chunk.  As one chunk is sent at a time and none is as long as HIGH_WATER,
\* the loop that polls bufferedAmount is never entered.
WriteWs ==
    \/ /\ ~open
       /\ pc' = "stopped" /\ UNCHANGED <<buffered, sinceYield>>
    \/ /\ open
       /\ buffered' = buffered
       /\ AfterWrite
    \/ /\ open
       /\ buffered' = buffered + 1
       /\ pc' = "writing" /\ UNCHANGED sinceYield

\* The head of the loop: isRunning(), then write().
Iterate ==
    /\ pc = "loop"
    /\ turn' = ~turn
    /\ IF ~running \/ latched
         THEN pc' = "stopped" /\ UNCHANGED <<buffered, sinceYield>>
         ELSE IF webSocket THEN WriteWs ELSE WriteTcp
    /\ UNCHANGED <<reverse, webSocket, channel, flood, now, test, control>>

\* setImmediate: the loop goes on.
Resume ==
    /\ pc = "yield"
    /\ pc' = "loop"
    /\ UNCHANGED <<reverse, webSocket, turn, buffered, sinceYield, channel, flood, now, test, control>>

\* The system takes a chunk: the last one is followed by "drain"; a send calls back.
Flush ==
    /\ Idle /\ open /\ buffered > 0
    /\ buffered' = buffered - 1
    /\ IF pc = "writing" /\ (webSocket \/ buffered = 1) THEN AfterWrite
                                                        ELSE UNCHANGED <<pc, sinceYield>>
    /\ UNCHANGED <<reverse, webSocket, turn, channel, flood, now, test, control>>

\* Mutant: the callback latches the error and does not reject.
WriteFailsSilent ==
    /\ pc = "writing" /\ ~open /\ ~latched
    /\ latched' = TRUE
    /\ failed' = (failed \/ ~closed)
    /\ UNCHANGED <<reverse, webSocket, stream, open, closed, transferErr, flood, now, test, control>>

\* The callback of a write on a closed socket reports an error: latched, and rejected.
WriteFails ==
    /\ pc = "writing" /\ ~open
    /\ latched' = TRUE
    /\ failed' = (failed \/ ~closed)
    /\ pc' = "stopped"
    /\ UNCHANGED <<reverse, webSocket, turn, buffered, sinceYield, open, closed, transferErr,
                   flood, now, test, control>>

\* The connection fails: the error is latched and the socket destroyed.
Fail ==
    /\ Idle /\ open
    /\ open' = FALSE /\ flood' = FALSE
    /\ latched' = TRUE
    /\ failed' = TRUE
    /\ UNCHANGED <<reverse, webSocket, stream, closed, transferErr, now, test, control>>

\* The peer closes or terminates the WebSocket, which is no "error" event.
PeerCloses ==
    /\ webSocket /\ Idle /\ open
    /\ open' = FALSE /\ flood' = FALSE
    /\ UNCHANGED <<reverse, webSocket, stream, closed, latched, transferErr, failed, now, test, control>>

\* Mutant: the channel is closed before its error is read, and the callback of the write
\* that this cancels is taken for a failure.
CloseStreamFirst ==
    /\ closed' = TRUE /\ open' = FALSE
    /\ transferErr' = IF closed THEN transferErr ELSE latched \/ pc = "writing"
    /\ UNCHANGED <<latched, failed>>

\* close() of the stream: the first call keeps the latched error.
CloseStream ==
    /\ closed' = TRUE /\ open' = FALSE
    /\ transferErr' = IF closed THEN transferErr ELSE latched
    /\ UNCHANGED <<latched, failed>>

-----------------------------------------------------------------------------
(* The end of the test.                                                    *)

\* #endTest, for whichever trigger comes first.  A client that receives keeps its
\* stream open.
DoEnd ==
    /\ timer' = FALSE
    /\ IF running
         THEN /\ running' = FALSE /\ endMs' = now /\ testEnds' = testEnds + 1
              /\ IF reverse THEN UNCHANGED channel ELSE CloseStream
         ELSE UNCHANGED <<running, endMs, testEnds, channel>>

TimerFires ==
    /\ Idle /\ timer /\ now >= Deadline
    /\ DoEnd
    /\ UNCHANGED <<reverse, webSocket, stream, flood, now, control>>

\* Mutants: the receive path does not look at the clock, or not at #running.
OnReverseBytesBlind == flood /\ UNCHANGED vars
OnReverseBytesAgain ==
    /\ flood /\ now >= Deadline
    /\ timer' = FALSE /\ running' = FALSE /\ testEnds' = testEnds + 1
    /\ endMs' = IF running THEN now ELSE endMs
    /\ UNCHANGED <<reverse, webSocket, stream, channel, flood, now, control>>

\* #onReverseBytes: data arrives.
OnReverseBytes ==
    /\ flood
    /\ IF running /\ now >= Deadline THEN DoEnd ELSE UNCHANGED <<test, channel>>
    /\ UNCHANGED <<reverse, webSocket, stream, flood, now, control>>

\* #cleanup
Cleanup ==
    /\ control' = "done"
    /\ running' = FALSE /\ timer' = FALSE /\ flood' = FALSE
    /\ CloseStream

\* EXCHANGE_RESULTS is read: after TEST_END, or before it from a peer that ends the test
\* itself.  A stream that finalize() reports an error of makes run() throw.
ExchangeResults ==
    /\ Idle /\ control = "reading"
    /\ endMs' = IF endMs = 0 THEN now ELSE endMs
    /\ IF transferErr
         THEN Cleanup
         ELSE /\ control' = "results"
              /\ running' = (running /\ endMs # 0) /\ timer' = (timer /\ endMs # 0)
              /\ UNCHANGED <<flood, channel>>
    /\ UNCHANGED <<reverse, webSocket, stream, now, testEnds>>

\* DISPLAY_RESULTS is read and answered.
DisplayResults ==
    /\ Idle /\ control = "results"
    /\ Cleanup
    /\ UNCHANGED <<reverse, webSocket, stream, now, endMs, testEnds>>

\* The peer stops sending, or the network does.
FloodEnds ==
    /\ flood
    /\ flood' = FALSE
    /\ UNCHANGED <<reverse, webSocket, stream, channel, now, test, control>>

Tick ==
    /\ now' = IF now < MaxClock THEN now + 1 ELSE now
    /\ sinceYield' = IF sinceYield < YieldInterval THEN sinceYield + 1 ELSE sinceYield
    /\ UNCHANGED <<reverse, webSocket, pc, turn, buffered, channel, flood, test, control>>

Sender == Iterate \/ Resume \/ WriteFails

Next ==
    \/ Sender \/ Flush \/ Fail \/ PeerCloses
    \/ TimerFires \/ OnReverseBytes \/ ExchangeResults \/ DisplayResults
    \/ FloodEnds \/ Tick

Spec == Init /\ [][Next]_vars

\* The loop goes on, time passes, an open connection drains and sockets are served; a
\* due timer is served when the event loop turns again and again and is not flooded.
FairSpec ==
    /\ Spec
    /\ WF_vars(Sender) /\ WF_vars(Flush) /\ WF_vars(Tick) /\ WF_vars(OnReverseBytes)
    /\ SF_vars(TimerFires /\ ~flood)

-----------------------------------------------------------------------------
\* What close() keeps is a failure that happened before it, and not an error that closing
\* causes.
ErrorIsGenuine == closed => transferErr = failed

\* No TEST_END goes out once the results are being exchanged: it would be read as the
\* state byte that the server expects next.
NoStrayTestEnd == [][control # "reading" => testEnds' = testEnds]_vars

\* The test ends after its deadline, although the sender's writes all resolve at once or
\* received data never stops coming.
DeadlineKept == now >= Deadline ~> ~running

\* The sender stops when the test has ended, also one that waits for a buffer that
\* will not drain any more.
SenderStops == ~running ~> pc = "stopped"
=============================================================================
