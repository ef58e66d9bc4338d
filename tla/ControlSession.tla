--------------------------- MODULE ControlSession ---------------------------
(***************************************************************************)
(* The control protocol of packages/netsu between its clients (client.ts)  *)
(* and its one server (server.ts), over TCP or WebSocket: the accept rule, *)
(* the exchange of states, the data connections, the timers and the        *)
(* teardown.                                                               *)
(*                                                                         *)
(* A connection <<c, 0>> is client c's control connection, <<c, i>> the    *)
(* i-th data connection it opens; c also stands for c's cookie.  A step is *)
(* what runs between two awaits.  An await of a write is part of the step  *)
(* that issues it when what follows is a read of the same pipe, whose      *)
(* failure is handled alike.  Payload is left out.                         *)
(***************************************************************************)
EXTENDS Integers, Sequences, FiniteSets

CONSTANTS
    Clients,       \* runClient() calls, each with a cookie of its own
    Params,        \* client -> [parallel, reverse, ok]; ok: decodeParams and maxTestSeconds accept
    MaxParallel,   \* bound on parallel
    MaxFaults      \* bound on lost connections and vanished clients

ASSUME SessionAssumption ==
    /\ Params \in [Clients -> [parallel : 1..MaxParallel, reverse : BOOLEAN, ok : BOOLEAN]]
    /\ MaxParallel \in Nat /\ MaxFaults \in Nat

VARIABLES
    cl,        \* client -> [pc, opened, running, ended]
    cli,       \* connection -> state of the client's end
    srv,       \* connection -> state of the server's end
    up,        \* connection -> what the client wrote and the server has not read
    down,      \* connection -> what the server wrote and the client has not read
    h,         \* connection -> where its handleConnection call is
    active,    \* ServerCore.#active: the control connection of the session, or None
    awaiting,  \* #awaitingStreams of the active session
    streams,   \* control connection -> #streams of its session, in order
    cerr,      \* data connections with an error latched on the client's channel
    serr,      \* data connections with an error latched on the server's channel
    listening, \* close() has not been called
    faults     \* faults so far; a slow network is one that is there from the start

vars == <<cl, cli, srv, up, down, h, active, awaiting, streams, cerr, serr, listening, faults>>
client == <<cl, cli, cerr>>
server == <<srv, h, active, awaiting, streams, serr, listening>>

None == <<>>
Conns == Clients \X (0..MaxParallel)
Control(c) == <<c, 0>>
Data(c) == {<<c, i>> : i \in 1..MaxParallel}
Of(c) == {Control(c)} \cup Data(c)
Session == {"params", "streams", "running", "results", "done", "failing"}

\* A deadline may pass before what it waits for is there.
Late == faults > 0

Init ==
    /\ cl = [c \in Clients |-> [pc |-> "idle", opened |-> 0, running |-> FALSE, ended |-> FALSE]]
    /\ cli = [k \in Conns |-> "none"]
    /\ srv = [k \in Conns |-> "none"]
    /\ up = [k \in Conns |-> <<>>]
    /\ down = [k \in Conns |-> <<>>]
    /\ h = [k \in Conns |-> "none"]
    /\ active = None
    /\ awaiting = FALSE
    /\ streams = [k \in Conns |-> <<>>]
    /\ cerr = {}
    /\ serr = {}
    /\ listening = TRUE
    /\ faults \in 0..MaxFaults

\* close() of the ends in K: what was on its way to them is lost.
Shut(end, K) == [k \in Conns |-> IF k \in K /\ end[k] = "open" THEN "shut" ELSE end[k]]
Lost(queue, K) == [k \in Conns |-> IF k \in K THEN <<>> ELSE queue[k]]

\* A write reaches the peer unless its end is gone.
Says(k, msg) == [up EXCEPT ![k] = IF srv[k] = "open" THEN Append(@, msg) ELSE @]
Reaches(k) == cli[k] = "open" /\ cl[k[1]].pc # "crashed"
Tells(k, msgs) == [down EXCEPT ![k] = IF Reaches(k) THEN @ \o msgs ELSE @]

-----------------------------------------------------------------------------
(* The client: ClientSession.                                              *)

\* A connection is opened and the cookie is its first write.
Connect(k) ==
    /\ cli' = [cli EXCEPT ![k] = "open"]
    /\ srv' = [srv EXCEPT ![k] = "open"]
    /\ up' = [up EXCEPT ![k] = <<"cookie">>]
    /\ h' = [h EXCEPT ![k] = "cookie"]
    /\ UNCHANGED <<active, awaiting, streams, cerr, serr, listening, faults>>

\* #cleanup in the finally of run().
Cleanup(c, outcome) ==
    /\ cl' = [cl EXCEPT ![c] = [@ EXCEPT !.pc = outcome, !.running = FALSE]]
    /\ cli' = Shut(cli, Of(c))
    /\ down' = Lost(down, Of(c))
    /\ UNCHANGED cerr

\* A connect is refused, or it times out although the server listens.
ConnectRejected(c) ==
    /\ ~listening \/ Late
    /\ Cleanup(c, "failed")
    /\ UNCHANGED <<up, server, faults>>

Start(c) ==
    /\ cl[c].pc = "idle" /\ listening
    /\ cl' = [cl EXCEPT ![c].pc = "reading"]
    /\ Connect(Control(c))
    /\ UNCHANGED down

StartRejected(c) == cl[c].pc = "idle" /\ ConnectRejected(c)

\* readState returned `state`; the rest of the queue stays.
Reads(c, state) ==
    /\ cl[c].pc = "reading"
    /\ down[Control(c)] # <<>>
    /\ Head(down[Control(c)]) = state
Consumed(c) == [down EXCEPT ![Control(c)] = Tail(@)]

OnParamExchange(c) ==
    /\ Reads(c, "PARAM_EXCHANGE")
    /\ down' = Consumed(c)
    /\ up' = Says(Control(c), "params")
    /\ UNCHANGED <<client, server, faults>>

OnCreateStreams(c) ==
    /\ Reads(c, "CREATE_STREAMS")
    /\ down' = Consumed(c)
    /\ cl' = [cl EXCEPT ![c].pc = "opening"]
    /\ UNCHANGED <<cli, cerr, up, server, faults>>

\* One turn of the loop over #openStream.  The control channel is not looked at.
OpenStream(c) ==
    LET n == cl[c].opened + 1 IN
    /\ cl[c].pc = "opening" /\ listening
    /\ Connect(<<c, n>>)
    /\ cl' = [cl EXCEPT ![c] = [@ EXCEPT !.opened = n,
                                         !.pc = IF n = Params[c].parallel THEN "reading" ELSE "opening"]]
    /\ UNCHANGED down

\* One of the data connections fails: the client gives the test up, and the server,
\* which waits for the others, sees only that the control connection has ended.
StreamRejected(c) == cl[c].pc = "opening" /\ ConnectRejected(c)

OnTestStart(c) ==
    /\ Reads(c, "TEST_START")
    /\ down' = Consumed(c)
    /\ UNCHANGED <<client, up, server, faults>>

\* #startRunning: the end timer is armed while running holds.
OnTestRunning(c) ==
    /\ Reads(c, "TEST_RUNNING")
    /\ down' = Consumed(c)
    /\ cl' = [cl EXCEPT ![c].running = TRUE]
    /\ UNCHANGED <<cli, cerr, up, server, faults>>

\* Mutant: the end of the test is not idempotent.
EndTestAgain(c) ==
    /\ cl[c].pc \in {"reading", "results"}
    /\ cl[c].running \/ (cl[c].ended /\ Len(up[Control(c)]) < 2)
    /\ cl' = [cl EXCEPT ![c] = [@ EXCEPT !.running = FALSE, !.ended = TRUE]]
    /\ up' = Says(Control(c), "TEST_END")
    /\ cli' = IF Params[c].reverse THEN cli ELSE Shut(cli, Data(c))
    /\ UNCHANGED <<cerr, down, server, faults>>

\* #endTest, from the end timer or from #onReverseBytes: the first call wins.
\* Forward streams are closed, and the error they have latched is kept.
EndTest(c) ==
    /\ cl[c].running
    /\ cl' = [cl EXCEPT ![c] = [@ EXCEPT !.running = FALSE, !.ended = TRUE]]
    /\ up' = Says(Control(c), "TEST_END")
    /\ cli' = IF Params[c].reverse THEN cli ELSE Shut(cli, Data(c))
    /\ UNCHANGED <<cerr, down, server, faults>>

\* What finalize() reports: transferError is assigned by close(), which the streams
\* of a reverse test have not seen yet.
Finalized(c) == IF Params[c].reverse \/ ~cl[c].ended THEN {} ELSE cerr \cap Data(c)

OnExchangeResults(c) ==
    /\ Reads(c, "EXCHANGE_RESULTS")
    /\ \/ /\ Finalized(c) = {}
          /\ down' = Consumed(c)
          /\ up' = Says(Control(c), "results")
          /\ cl' = [cl EXCEPT ![c] = [@ EXCEPT !.pc = "results", !.running = FALSE, !.ended = TRUE]]
          /\ UNCHANGED <<cli, cerr, server, faults>>
       \/ /\ Finalized(c) # {}
          /\ Cleanup(c, "failed")
          /\ UNCHANGED <<up, server, faults>>

\* readJson of the server's results.
ReadRemote(c) ==
    /\ cl[c].pc = "results"
    /\ down[Control(c)] # <<>>
    /\ Head(down[Control(c)]) = "results"
    /\ down' = Consumed(c)
    /\ cl' = [cl EXCEPT ![c].pc = "reading"]
    /\ UNCHANGED <<cli, cerr, up, server, faults>>

OnDisplayResults(c) ==
    /\ Reads(c, "DISPLAY_RESULTS")
    /\ up' = Says(Control(c), "IPERF_DONE")
    /\ Cleanup(c, "finished")
    /\ UNCHANGED <<server, faults>>

OnRefusal(c) ==
    /\ \E state \in {"ACCESS_DENIED", "SERVER_ERROR"} : Reads(c, state)
    /\ Cleanup(c, "failed")
    /\ UNCHANGED <<up, server, faults>>

\* The bytes buffered do not complete the read: none, or a state instead of JSON.
Stuck(c) ==
    \A m \in {down[Control(c)][i] : i \in {1} \cap DOMAIN down[Control(c)]} :
        cl[c].pc = "results" /\ m # "results"

\* The control channel has ended before the read was complete, or the read has
\* timed out.
ReadRejected(c) ==
    /\ cl[c].pc \in {"reading", "results"}
    /\ Late \/ (Stuck(c) /\ "shut" \in {srv[Control(c)], cli[Control(c)]})
    /\ Cleanup(c, "failed")
    /\ UNCHANGED <<up, server, faults>>

-----------------------------------------------------------------------------
(* The server: ServerCore and ServerSession.                               *)

Members(k) == {streams[k][i] : i \in DOMAIN streams[k]}

\* Mutant: the streams of a session are not closed with it.
EndSessionKeepsStreams(k) ==
    /\ h' = [h EXCEPT ![k] = "ended"]
    /\ srv' = Shut(srv, {k})
    /\ up' = Lost(up, {k})
    /\ active' = None
    /\ awaiting' = FALSE

\* The finally of run() and of handleConnection.
EndSession(k) ==
    /\ h' = [h EXCEPT ![k] = "ended"]
    /\ srv' = Shut(srv, {k} \cup Members(k))
    /\ up' = Lost(up, {k})
    /\ active' = None
    /\ awaiting' = FALSE

\* The catch of run(): SERVER_ERROR is written; the finally runs after that write.
Fail(k) ==
    /\ h' = [h EXCEPT ![k] = "failing"]
    /\ down' = Tells(k, <<"SERVER_ERROR">>)

\* Mutant: the cookie is not compared.
WantsStreamAnyCookie(c) == active # None /\ awaiting

\* wantsStream of the active session, if there is one.
WantsStream(c) == active # None /\ awaiting /\ active[1] = c

Busy == active # None

\* Mutants: the test starts one stream too soon; the session is not told of the
\* streams that arrive.
AcceptStreamTooSoon(k) ==
    /\ WantsStream(k[1])
    /\ streams' = [streams EXCEPT ![active] = Append(@, k)]
    /\ IF h[active] = "streams" /\ Len(streams[active]) + 2 >= Params[active[1]].parallel
       THEN /\ h' = [h EXCEPT ![k] = "stream", ![active] = "running"]
            /\ awaiting' = FALSE
            /\ down' = Tells(active, <<"TEST_START", "TEST_RUNNING">>)
       ELSE /\ h' = [h EXCEPT ![k] = "stream"]
            /\ UNCHANGED <<awaiting, down>>
    /\ UNCHANGED <<srv, active>>
AcceptStreamSilently(k) ==
    /\ WantsStream(k[1])
    /\ streams' = [streams EXCEPT ![active] = Append(@, k)]
    /\ h' = [h EXCEPT ![k] = "stream"]
    /\ UNCHANGED <<srv, active, awaiting, down>>

\* handleConnection once the 37 bytes are there: a data stream,
\* a refusal, or a new session.
AcceptStream(k) ==
    /\ WantsStream(k[1])
    /\ streams' = [streams EXCEPT ![active] = Append(@, k)]
    /\ IF h[active] = "streams" /\ Len(streams[active]) + 1 >= Params[active[1]].parallel
       THEN /\ h' = [h EXCEPT ![k] = "stream", ![active] = "running"]
            /\ awaiting' = FALSE
            /\ down' = Tells(active, <<"TEST_START", "TEST_RUNNING">>)
       ELSE /\ h' = [h EXCEPT ![k] = "stream"]
            /\ UNCHANGED <<awaiting, down>>
    /\ UNCHANGED <<srv, active>>

Deny(k) ==
    /\ ~WantsStream(k[1]) /\ Busy
    /\ down' = Tells(k, <<"ACCESS_DENIED">>)
    /\ h' = [h EXCEPT ![k] = "ended"]
    /\ srv' = Shut(srv, {k})
    /\ UNCHANGED <<active, awaiting, streams>>

BeginSession(k) ==
    /\ ~WantsStream(k[1]) /\ ~Busy
    /\ active' = k
    /\ awaiting' = FALSE
    /\ h' = [h EXCEPT ![k] = "params"]
    /\ down' = Tells(k, <<"PARAM_EXCHANGE">>)
    /\ UNCHANGED <<srv, streams>>

ReadCookie(k) ==
    /\ h[k] = "cookie"
    /\ up[k] # <<>>
    /\ up' = [up EXCEPT ![k] = Tail(@)]
    /\ AcceptStream(k) \/ Deny(k) \/ BeginSession(k)
    /\ UNCHANGED <<client, serr, listening, faults>>

CookieRejected(k) ==
    /\ h[k] = "cookie"
    /\ Late \/ (up[k] = <<>> /\ (cli[k] = "shut" \/ srv[k] = "shut"))
    /\ h' = [h EXCEPT ![k] = "ended"]
    /\ srv' = Shut(srv, {k})
    /\ up' = Lost(up, {k})
    /\ UNCHANGED <<client, down, active, awaiting, streams, serr, listening, faults>>

\* The write of CREATE_STREAMS may fail if the client has gone.
ReadParams(k) ==
    /\ h[k] = "params"
    /\ up[k] # <<>>
    /\ Head(up[k]) = "params"
    /\ up' = [up EXCEPT ![k] = Tail(@)]
    /\ \/ /\ Params[k[1]].ok
          /\ h' = [h EXCEPT ![k] = "streams"]
          /\ awaiting' = TRUE
          /\ down' = Tells(k, <<"CREATE_STREAMS">>)
       \/ /\ ~Params[k[1]].ok \/ cli[k] = "shut"
          /\ Fail(k)
          /\ UNCHANGED awaiting
    /\ UNCHANGED <<client, srv, active, streams, serr, listening, faults>>

\* Mutant: the server shows its results without waiting for the client's.
ReadTestEndEager(k) ==
    /\ h[k] = "running"
    /\ up[k] # <<>>
    /\ up' = [up EXCEPT ![k] = Tail(@)]
    /\ srv' = Shut(srv, Members(k))
    /\ h' = [h EXCEPT ![k] = "results"]
    /\ down' = Tells(k, <<"EXCHANGE_RESULTS", "results", "DISPLAY_RESULTS">>)
    /\ UNCHANGED <<client, active, awaiting, streams, serr, listening, faults>>

\* The state read while running ends the test; the streams are closed, and an error
\* they have latched fails the session.
ReadTestEnd(k) ==
    LET ends == Members(k) IN
    /\ h[k] = "running"
    /\ up[k] # <<>>
    /\ up' = [up EXCEPT ![k] = Tail(@)]
    /\ \/ /\ Head(up[k]) = "TEST_END"
          /\ srv' = Shut(srv, ends)
          /\ IF ends \cap serr = {}
             THEN /\ h' = [h EXCEPT ![k] = "results"]
                  /\ down' = Tells(k, <<"EXCHANGE_RESULTS">>)
             ELSE Fail(k)
       \/ /\ Head(up[k]) # "TEST_END"
          /\ Fail(k)
          /\ UNCHANGED srv
    /\ UNCHANGED <<client, active, awaiting, streams, serr, listening, faults>>

ReadResults(k) ==
    /\ h[k] = "results"
    /\ up[k] # <<>>
    /\ Head(up[k]) = "results"
    /\ up' = [up EXCEPT ![k] = Tail(@)]
    /\ h' = [h EXCEPT ![k] = "done"]
    /\ down' = Tells(k, <<"results", "DISPLAY_RESULTS">>)
    /\ UNCHANGED <<client, srv, active, awaiting, streams, serr, listening, faults>>

\* Any state byte is taken for IPERF_DONE.
ReadDone(k) ==
    /\ h[k] = "done"
    /\ up[k] # <<>>
    /\ EndSession(k)
    /\ UNCHANGED <<client, down, streams, serr, listening, faults>>

\* Mutant: the wait for streams has no deadline.
SessionRejectedReadsOnly(k) ==
    /\ h[k] \in {"params", "running", "results", "done"}
    /\ Late \/ (up[k] = <<>> /\ (cli[k] = "shut" \/ srv[k] = "shut"))
    /\ Fail(k)
    /\ UNCHANGED <<client, srv, up, active, awaiting, streams, serr, listening, faults>>

\* A read of the session fails: the pipe has ended, or the deadline has passed.
\* #waitForStreams does not watch the pipe, and abort() clears its timer.
SessionRejected(k) ==
    /\ \/ /\ h[k] \in {"params", "running", "results", "done"}
          /\ Late \/ (up[k] = <<>> /\ (cli[k] = "shut" \/ srv[k] = "shut"))
       \/ h[k] = "streams" /\ listening /\ Late
    /\ Fail(k)
    /\ UNCHANGED <<client, srv, up, active, awaiting, streams, serr, listening, faults>>

Finish(k) ==
    /\ h[k] = "failing"
    /\ EndSession(k)
    /\ UNCHANGED <<client, down, streams, serr, listening, faults>>

\* close(): abort() of the active session, then every accepted socket is destroyed.
Close ==
    /\ listening
    /\ listening' = FALSE
    /\ srv' = Shut(srv, Conns)
    /\ up' = Lost(up, Conns)
    /\ UNCHANGED <<client, down, h, active, awaiting, streams, serr, faults>>

-----------------------------------------------------------------------------
(* What may go wrong between them.                                         *)

\* The client's host vanishes: no end of its connections is ever seen.
Crash(c) ==
    /\ faults < MaxFaults
    /\ cl[c].pc \in {"reading", "opening", "results"}
    /\ faults' = faults + 1
    /\ cl' = [cl EXCEPT ![c] = [@ EXCEPT !.pc = "crashed", !.running = FALSE]]
    /\ UNCHANGED <<cli, cerr, up, down, server>>

\* A control connection, or one whose cookie has not been read, is reset: both
\* ends see it and what was under way is lost.
Reset(k) ==
    /\ faults < MaxFaults
    /\ cli[k] = "open" /\ srv[k] = "open" /\ h[k] # "stream"
    /\ faults' = faults + 1
    /\ cli' = Shut(cli, {k})
    /\ srv' = Shut(srv, {k})
    /\ up' = Lost(up, {k})
    /\ down' = Lost(down, {k})
    /\ cerr' = IF k[2] = 0 THEN cerr ELSE cerr \cup {k}
    /\ UNCHANGED <<cl, h, active, awaiting, streams, serr, listening>>

\* A data stream breaks during the test: the error is latched at the end, or the
\* ends, that notice.
Break(k, byClient, byServer) ==
    /\ faults < MaxFaults
    /\ cli[k] = "open" /\ srv[k] = "open" /\ h[k] = "stream"
    /\ byClient \/ byServer
    /\ faults' = faults + 1
    /\ cerr' = IF byClient THEN cerr \cup {k} ELSE cerr
    /\ serr' = IF byServer THEN serr \cup {k} ELSE serr
    /\ cli' = IF byClient THEN Shut(cli, {k}) ELSE cli
    /\ srv' = IF byServer THEN Shut(srv, {k}) ELSE srv
    /\ UNCHANGED <<cl, up, down, h, active, awaiting, streams, listening>>

-----------------------------------------------------------------------------
ClientStep(c) ==
    \/ OnParamExchange(c) \/ OnCreateStreams(c) \/ OpenStream(c) \/ StreamRejected(c)
    \/ OnTestStart(c) \/ OnTestRunning(c) \/ EndTest(c) \/ OnExchangeResults(c) \/ ReadRemote(c)
    \/ OnDisplayResults(c) \/ OnRefusal(c) \/ ReadRejected(c)

ServerStep(k) ==
    \/ ReadCookie(k) \/ CookieRejected(k) \/ ReadParams(k) \/ ReadTestEnd(k)
    \/ ReadResults(k) \/ ReadDone(k) \/ SessionRejected(k) \/ Finish(k)

Fault ==
    \/ \E c \in Clients : Crash(c)
    \/ \E k \in Conns : Reset(k) \/ \E bc, bs \in BOOLEAN : Break(k, bc, bs)

Next ==
    \/ \E c \in Clients : Start(c) \/ StartRejected(c) \/ ClientStep(c)
    \/ \E k \in Conns : ServerStep(k)
    \/ Close
    \/ Fault

Spec == Init /\ [][Next]_vars

\* The event loop of each process serves every ready handler, and timers fire.
FairSpec ==
    /\ Spec
    /\ \A c \in Clients : WF_vars(ClientStep(c))
    /\ \A k \in Conns : WF_vars(ServerStep(k))

-----------------------------------------------------------------------------
UpMessages == {"cookie", "params", "TEST_END", "results", "IPERF_DONE"}
DownMessages == {"PARAM_EXCHANGE", "CREATE_STREAMS", "TEST_START", "TEST_RUNNING",
                 "EXCHANGE_RESULTS", "results", "DISPLAY_RESULTS", "ACCESS_DENIED", "SERVER_ERROR"}
ClientRecord ==
    [pc : {"idle", "reading", "opening", "results", "finished", "failed", "crashed"},
     opened : 0..MaxParallel, running : BOOLEAN, ended : BOOLEAN]

TypeOK ==
    /\ cl \in [Clients -> ClientRecord]
    /\ cli \in [Conns -> {"none", "open", "shut"}]
    /\ srv \in [Conns -> {"none", "open", "shut"}]
    /\ up \in [Conns -> Seq(UpMessages)]
    /\ down \in [Conns -> Seq(DownMessages)]
    /\ h \in [Conns -> {"none", "cookie", "stream", "ended"} \cup Session]
    /\ active \in Conns \cup {None}
    /\ awaiting \in BOOLEAN
    /\ streams \in [Conns -> Seq(Conns)]
    /\ cerr \subseteq Conns /\ serr \subseteq Conns
    /\ listening \in BOOLEAN
    /\ faults \in 0..MaxFaults

\* ServerCore runs one test at a time: a connection is being served as a session
\* exactly when it is #active, whatever fails, disconnects or arrives meanwhile.
OneTest == {k \in Conns : h[k] \in Session} = IF active = None THEN {} ELSE {active}

\* A test that has started has exactly the data connections its own client opened,
\* each once: none of another client, none twice, none missing.
StreamsExact ==
    \A k \in Conns : h[k] \in {"running", "results", "done"} =>
        /\ Len(streams[k]) = Params[k[1]].parallel
        /\ Members(k) = {<<k[1], i>> : i \in 1..Params[k[1]].parallel}

\* A data connection that arrives when its test is already gone is taken for a
\* control connection; such a session never gets as far as opening streams.
StrayGoesNowhere ==
    \A k \in Conns : k[2] # 0 => h[k] \notin Session \ {"params", "failing"}

\* Whenever a session reads, what comes next is what it expects: the end timer, the
\* receive path and EXCHANGE_RESULTS never put a second or a late TEST_END on the wire.
InStep ==
    \A k \in Conns : up[k] # <<>> =>
        /\ h[k] = "params" => Head(up[k]) = "params"
        /\ h[k] = "running" => Head(up[k]) = "TEST_END"
        /\ h[k] = "results" => Head(up[k]) = "results"
        /\ h[k] = "done" => Head(up[k]) = "IPERF_DONE"

\* A client that returns a result has run the test its server ran to the end: the
\* server has read its results, and both had all the streams of the test.
FinishedTogether ==
    \A c \in Clients : cl[c].pc = "finished" =>
        LET k == Control(c) IN
        /\ h[k] \in {"done", "failing", "ended"}
        /\ Len(streams[k]) = Params[c].parallel /\ cl[c].opened = Params[c].parallel

\* The server does not stay busy: the single-test lock is released in the end,
\* even if the client vanishes, stops reading or never opens its streams.
Freed == active # None ~> active = None \/ ~listening

\* Nothing a client leaves behind stays open at the server, the data connections
\* no session wanted included.
NoLeftovers ==
    \A c \in Clients : cl[c].pc \in {"finished", "failed", "crashed"} ~>
                           \A k \in Of(c) : srv[k] # "open"

\* Without faults a client that gets the server's attention finishes its test.
AcceptedFinish ==
    \A c \in Clients : Params[c].ok /\ active = Control(c) ~>
                           cl[c].pc = "finished" \/ ~listening \/ faults > 0

PhaseOf(pc) ==
    CASE pc \in {"params", "streams"} -> "setup"
      [] pc \in {"results", "done"}   -> "reporting"
      [] OTHER                        -> pc
Contract ==
    INSTANCE TestContract WITH
        holder <- active,
        phase <- IF active = None THEN "idle" ELSE PhaseOf(h[active]),
        members <- IF active = None THEN {} ELSE Members(active)

\* The server keeps the promise of TestContract: one holder, its own streams only,
\* set up, run and reported in that order, released with everything it had.
ImplementsContract == Contract!Spec

\* finalize() returns the error latched on a stream's channel, so a client that knows of
\* one does not go on to report its results.
BrokenIsReported ==
    [][\A c \in Clients : cl[c].pc # "results" /\ cl'[c].pc = "results" => cerr \cap Data(c) = {}]_vars
=============================================================================
