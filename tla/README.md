# A TLA+ verification of netsu

netsu measures the speed of a network path. This directory holds TLA+ models of its
protocols, the TLC configurations that check them on small instances and TLAPS
proofs of the properties that matter most. `PROJECT.json` lists the runs, the
theorems, the hazards, and for every definition the source lines it models.

    tlc -config MCSignalRoom.cfg MCSignalRoom    # one run
    tlapm SignalRoomProofs.tla                   # one proof module

## The system

| part | where | what it does |
| --- | --- | --- |
| control session, TypeScript | `packages/netsu/src/{server,client}.ts`, `protocol/` | iperf3-style test: cookie, parameters, data connections, start, end, results, done; the server runs one test at a time |
| transports and streams, TypeScript | `packages/netsu/src/transport/`, `streams/` | TCP, WebSocket and UDP data channels, the send loop, the byte counters |
| server and client, Rust | `netsu-rs/src/{server,client}.rs`, `streams/`, `protocol/` | the same protocol, on threads, over TCP, UDP, WebSocket, iroh, QUIC and WebRTC |
| transports, Rust | `netsu-rs/src/transport/` | adapters; QUIC end-of-stream barrier, WebRTC negotiation, bounded WebRTC queue |
| signaling room | `apps/rendez-key/src/signal/` | a Durable Object through which two WebRTC peers exchange an offer, an answer and candidates |
| room allocation | `apps/rendez-key/src/routes/create-signal-room.ts` | picks a free code and initialises its room |
| entry store | `apps/rendez-key/src/{routes,repositories,scheduled}` | temporary values under short codes, with a lifetime and a number of reads, in D1 |
| browser peer | `interop/transports/browser/browser-peer.js` | a client of the Rust server in a web page: joins a room, negotiates, runs a test over the data channels |
| mux lab, p2p, demo, TUI, CLI, interop | `netsu-rs/src/{mux,p2p,demo,tui}`, `interop/` | measurements of multiplexing, address exchange, sample application, presentation, harness |

A WebRTC test uses most of them: the server allocates a room and hands out its code,
both peers meet in the room, and the control session then runs over the data
channels they negotiated: `RoomAllocation`, `SignalRoom`, `Negotiation` and
`ChannelTest` follow it from one end to the other. An iroh test stores the server's
address as an entry and the client claims it.

## Modules

### SignalRoom and RoomContract

`SignalRoom` is the Durable Object of `signal/room.ts`. Its state is the single row
of the table (`row`), the storage alarm (`alarm`), the ready state and the
serialized attachment of each WebSocket (`sock`), the `bindSocket` calls that wait
for the hash of a secret (`verifying`) and, as history, what each socket was sent
(`heard`). One action per entry point: `Initialize`, `Fetch`, `WebSocketMessage`
(bind, relay, leave and every refusal), `CompleteBind` (the rest of `bindSocket`
after its await), `WebSocketClose`, `WebSocketError`, `Alarm`, and `Restart` for
hibernation, which keeps the row, the alarm and the attachments and loses the
suspended calls. Every action includes the closing, sending and re-arming of the
alarm that the handler does. Messages are their types; sizes, limits and times are
small numbers.

`RoomContract` is what a room promises: created once, closed once, one holder per
role, an offer and then an answer. `ImplementsContract` maps the row and the open
bound sockets to it.

### Entries

The routes that create and claim, `authorizeCreate`, the limits, and the scheduled
clean-up, against one D1 table. A request samples the clock once (`StartCreate`,
`StartClaim`, `Schedule`) and reaches the database later (`Insert`, `ClaimBatch`,
`RunCleanup`), when its sample may be stale. A batch is one transaction, and its
reply may be lost after it committed.

### RoomAllocation

`allocateSignalRoom`: concurrent requests, each with a secret, call `initialize()`
of the room of a random code. The call may be answered, or throw after the room
stored the row, or throw and run later, or throw and never run.

### ControlSession and TestContract

All clients and the one server of `packages/netsu` over TCP or WebSocket. A
connection `<<c, 0>>` is client c's control connection, `<<c, i>>` its i-th data
connection. For every connection there are the states of its two ends (`cli`,
`srv`), the messages under way (`up`, `down`) and the place of its server-side
handler (`h`); for the server `#active`, `#awaitingStreams`, the streams of each
session and whether it listens; for each client the place in its loop. A step is
what runs between two awaits. Client: `Start`, `OnParamExchange`, `OnCreateStreams`,
`OpenStream`, `OnTestStart`, `OnTestRunning`, `EndTest`, `OnExchangeResults`,
`ReadRemote`, `OnDisplayResults`, `OnRefusal`, `ReadRejected`, and `StartRejected` and
`StreamRejected` for a connect that is refused or, in a run with faults, fails or times
out while the server listens: the client then closes what it has opened. Server:
`ReadCookie`
(with `AcceptStream`, `Deny`, `BeginSession`), `CookieRejected`, `ReadParams`,
`ReadTestEnd`, `ReadResults`, `ReadDone`, `SessionRejected` (deadlines and closed
connections), `Finish`, `Close`. Environment: `Crash`, `Reset`, `Break`. Cookies are
the clients; the payload and the numbers in the results are left out.

`TestContract` is the promise of the test slot: one holder; connections join while
the test is set up, and only the holder's; set up, run, reported, released.
`ImplementsContract` maps `active`, its handler and its streams to it.

### ClientTest

One client with one TCP or WebSocket stream, from TEST_RUNNING to `#cleanup`, with
the clock that `ControlSession` leaves out: `startSender` (`Iterate`, `Resume`), the
two `write()` methods, the error latch and the `close()` of a stream, `#endTest`
with its end timer, the deadline check of `#onReverseBytes`, and an EXCHANGE_RESULTS
that may come before TEST_END. Direction and kind of channel are chosen at the
start. The event loop is part of the model: timers and socket events happen only
while the sender awaits something that is not settled (`Idle`), and data that floods
in may starve the timer for good. The loop that polls `bufferedAmount` is not in it:
one chunk is sent at a time and none is as long as `HIGH_WATER`.

### BytePipe

`ByteBuffer` under every control connection, with `detach()` and `close()` of the
pipes that own one. Bytes are numbered, so that losing, doubling and reordering
show. Each read has a number and its timer carries it.

### UdpStreams

`UdpStreams` is the opening of UDP streams: the sessions of several clients bind
sockets on one port, accept hellos, connect, bind the next socket and reply, while
datagrams are lost, duplicated and reordered, clients vanish and the server is
closed. Datagrams do not outlive their session, and a hello that is not lost arrives
within the accept's 30 seconds. When the deadline of an accept has closed its
socket, `close()` of the server throws until the session's failure is written;
`Close` has this case (`server = "threw"`), and no run is about it.

### UdpSender, UdpProbe, Pacer, UdpTransfer

`UdpSender` is `#runUdpSender`, which client and server share, composed of three
parts. `UdpProbe` is the binary search of `probeMaxUdpSendLen`, on a host that sends
everything up to some length or on one whose sends fail at random. Two of its answers
are the request itself, untested: to a request for the bare header, and when its socket
cannot be set up (`probe = "untested"`). `Pacer` is the
rate limit of the loop that follows, in units of the time that one bit takes. It is
extended by `UdpTransfer`, whose `SendOne` is the pacer's `Send` with what a round
does next: the pool of buffers, sends that wait for the system, the network,
`JitterTracker` and the report.

### Negotiation

Two WebRTC peers and the room between them: the listener of
`transport/webrtc/peer.rs` and `signaling.rs`, and a joiner that is netsu-rs again
or the browser peer (`program`). Each peer has a WebSocket (`link`, `up`, `down`),
its place in the negotiation (`pc`), the candidates it found and sent (`ice`) and
what it knows of the other (`remote`). Actions of a peer: `CreateListener`, `Join`,
`Describe` (offer or answer), `SendLocalIce`, `Read` (every frame of the room, with
the two programs' different limits on remote candidates), `Connect`, `PathFails`,
`Timeout`. A negotiation ends in `Finish`, which leaves the room and closes the
socket whatever the outcome. The room's side is `RoomStep`, `RoomExpires` and
`SocketCloses`, and it is what the peers can tell of `SignalRoom`; `RoomAsPromised`
shows that it makes only steps of `RoomContract`, the specification that
`SignalRoom` is proved to implement. `SocketLost` is the fault. SDP, the contents of
candidates and sizes in bytes are left out; ICE and DTLS are external, and a direct
path comes up or does not.

### ChannelTest

A whole test over WebRTC or QUIC, where control and data are separate channels that
overtake each other: the session of `server.rs` with `run_loop` of `client.rs` or
with the browser peer, `run_sender` and `run_receiver` of `streams/runner.rs`, the
bounded receive queue and the watermark of `transport/webrtc/pipe.rs`. Client (`cl`)
and server (`sv`) go through the messages of the control channel (`toC`, `toS`). A
stream is followed from the chunk its sender begins (`stage`, `put`, `sent`) through
the send buffer, the network and the receive queue (`buf`, `wire`, `inq`) to the
receiver's counter (`recv`), and with it its end marker (`marker`): an empty message
on WebRTC, FIN on QUIC. Data is counted in pieces, of which a chunk has `Chunk`, so
that a sender can be stopped in the middle of one. A queue that is full fails for
good, a connection may be lost at any step, and the waits of the two sides for each
other have deadlines; `calm` excludes all three.

A side of netsu-rs that fails ends in two steps. `ClientFails` and `ServerFails` (a
deadline, an abort, a connection that is gone) lead to `teardown()`, where senders and
receivers are told to stop and `close()` takes the lock of every channel;
`ClientTornDown` and `ServerTornDown` follow when all locks were given up (`Released`).
A QUIC sender drops its write on the stop signal, a WebRTC sender keeps the lock until
its chunk is written or its send fails (`SendFails`), and the wait for its buffer has
neither a timer nor an eye on the signal. That the buffer of a connection which is gone
is never drained is an assumption about the library; the two marks of that wait, at
which it begins and ends, are one number here. The browser closes its connection at
once.

`NothingMissing` has two exceptions. On QUIC a sender is stopped in its write, and its
count is up to one chunk behind what it put. In a reverse test the netsu-rs client looks
for closed streams before its results (`handle_exchange_results`) and not for a receiver
that failed: what that one reports is not too much, and the reconciliation of the two
counts (WebRTC only), which tolerates two percent, is what is left to notice that it is
too little.

## Runs

| run | question | instance |
| --- | --- | --- |
| `room` | roles are exclusive, both peers are told when they are paired, a closed room stays shut, the row only moves on, the alarm covers expiry and bind deadlines, the room implements `RoomContract` (one offer, then one answer), every initialised room is closed in the end | 2 sockets, clock 0..2, one suspended bind per socket |
| `worker` | reads are distinct, served in time, entries are kept; a request that was given a room owns it | 2 creates, 3 claims, one code, so that the code is used again; 2 allocations, 3 room codes, 2 attempts |
| `control` | a test has its own streams, no byte is read out of turn, both ends finish the same test, the server implements `TestContract` (one test at a time), the slot is freed, nothing is left open, and without a fault an admitted client finishes | 2 clients, a forward test of 2 streams and a reverse one, at most one fault, deadlines |
| `client_test` | deadline kept whatever the peer does, `close()` keeps a latched failure and adds none of its own, no TEST_END out of turn, the sender stops | both directions and channels, mark of 3 chunks, yield after 2 ticks, deadline 3 |
| `udp_streams` | hellos are heard, streams numbered alike, the slot released; all streams open when nothing is lost or fails | 2 clients with 3 streams each |
| `transport` | the probe is exact on a steady host, but for a bare header; rate and bursts; headers, counters and buffers, losses; the bytes of a pipe are conserved, and no read is stranded or waits in vain | every request up to 12 and every limit, steady or not; 4 datagrams of one of these hosts, cap of 2, clock up to 9; 5 bytes in chunks of 0, 1 and 3, 3 reads of 1, 2 and 4 |
| `webrtc_negotiation` | leaving early takes nothing from the other peer, the room never refuses a frame and makes only steps of `RoomContract`, both peers connect if nothing breaks, peers and room come to an end in any case | both joiners, a limit of one candidate, up to two found by each peer |
| `channel_test` | the counts a client reports miss nothing but what a failed receiver of its own lost, the test succeeds if nothing fails, both sides get through their teardown but for the wait of `channel_teardown` | all three clients and both directions, two streams, one with a chunk of two pieces and one with nothing but its marker, buffers and queues of one piece |
| `control_broken`, `udp_leftover`, `udp_header`, `channel_teardown` | statements of the documentation the code does not keep | see below |

The bounds are the smallest ones in which each hazard happens: two sockets race for
a role, one of them suspended while the other binds, in time for the deadline of a
bind to pass before the room expires; that no further socket changes anything is
what the theorems about the room show; one code with two creates makes a code be
used again; two streams are needed for cookies to arrive in another order than they
were sent; with three UDP streams a socket is bound while one is accepted and one is
open; three reads let a timer outlive its read and meet the next one; the pacer's
clock is long enough for a stall above the cap and the burst after it; one candidate
more than the limit is found by either peer; a chunk of two pieces can be half sent,
and with room for one piece each of its queues can be full and overflow. One fault
at any step is enough for every path of error handling; the proofs have no bound on
faults. The clients of `control` have valid parameters, and the server refuses the
parameters of one whose connection is closed (`ReadParams`); the proofs cover
invalid ones too. Whether there are faults at all is chosen at the start (`faults`
of `ControlSession`, `reliable` of `UdpStreams`, `calm` of `Negotiation` and
`ChannelTest`), so that one run also shows what is promised without any. A deadline
of a healthy connection passes only in the runs with faults: a slow network counts
as one.

`worker` and `transport` each put two systems into one run. The two share no variable
and no step of one reads the other, so that every reachable state of either is reached
while the other is at its start: one of them moves at a time (`WorkerNext`,
`TransportNext`), which keeps the state space the sum of the two and not the product.

`transport` follows the loop of one host only, and lets the clock move only for a
sender with a rate, of which at most one datagram at a time is under way; all
mixtures of sends, callbacks, arrivals and losses are explored for a sender without
(`Bounds` of `MCTransport`). Pacing reads nothing of the pool and the network, and
they read nothing of the clock, so that each is covered by the half that explores
it.

Deadlock is checked in the runs of the room and of `client_test`, whose clocks never
stop. The other systems may stop when all requests are served.

### Fairness

`room` assumes that the clock moves and that the platform runs an alarm that is due
(weak fairness of `Tick` and `Alarm`); nothing is assumed of the peers or of
suspended binds. `control` assumes weak fairness of each client's and each server
handler's step: an event loop serves every ready callback, TCP delivers what was
written to an open connection and a deadline that is set fires. A vanished client
takes no step; faults are never forced. `udp_streams` assumes the same, and that a
datagram which is not lost is delivered. In `client_test` the loop goes on, time
passes, an open connection drains, received data is served, and a due timer runs if
again and again the event loop turns without a flood (strong fairness of
`TimerFires`, which is never enabled while the loop spins). `webrtc_negotiation` and
`channel_test` assume that each program's tasks run on, that an open connection
delivers what it carries, that a timer which is set fires (the room's alarm too) and
that ICE ends its attempt; nothing makes a connection break, a receiver fall behind
or a timer fire in a calm test. `channel_test` states this as weak fairness of all
steps together: every step moves a test on and the pieces are bounded, so that a
behaviour can only stop where no task has a step left.

### Disagreements with the documentation

* `control_broken`: `client.ts` says `finalize()` returns an error latched on a
  channel; in a reverse test it is copied by `close()`, which runs later.
* `udp_leftover`: `server.ts` says the accept socket is tracked so that `close()`
  leaves none behind; one whose bind is awaited when `close()` runs stays bound.
* `udp_header`: the comment of `probeMaxUdpSendLen` says that it returns
  UDP_SEND_UNAVAILABLE, never an untested UDP_HEADER_SIZE, when a host cannot send a
  bare header; a request for exactly that length is returned before anything is sent.
* `channel_teardown`: comments of `run_sender` and `run_client` say that a stopped
  sender does not block its caller on a socket that may never drain, and that
  everything is torn down on an error too; a WebRTC sender that waits for its full
  buffer when the connection is lost holds the lock that `teardown()` waits for, and
  the abort of its task comes after that. `BothEnd` has this one exception (`Stuck`).

Others were met while the models were written and have no run of their own:

* PROTOCOL.md says a room has at most two sockets; `fetch()` admits four, bound or
  not (`HasCapacity`).
* The worker's README says a protocol error closes the room for good; only the
  socket that erred is closed, and until its close handshake is over another joiner
  can be paired in the same room (`SendErrorAndClose`).
* `streams/runner.ts` says both sides number the streams in the same order; the
  server numbers them in the order in which cookies arrive (`AcceptStream`).
* `client.ts` says the packets reported equal received plus lost; a datagram
  delivered twice makes the sum larger (`Finalize` of `UdpTransfer`).
* `client.ts` says a failed transfer is not reported as clean; a WebSocket closed by
  its peer stops the sender and no error is latched (`WriteWs` of `ClientTest`).

## Proofs

The theorems hold for every value of the constants that satisfies the named
assumptions of the modules: the limits are natural numbers, special values are not
members of the sets they are kept out of, and each client's parameters are of their
type.

* `SignalRoomProofs`: `TypeCorrect`; `RolesExclusive`; `ClosedRoomsShut`;
  `AlarmAlwaysCovers`; `PairsAreTold`; `RowNeverRecycled`; `RoomImplementsContract`.
  The inductive invariant (`Safety`) is the first four together with
  `EmptyUntilCreated`: nothing is connected or suspended before the row is written.
  Without it `Initialize` could make a live room around sockets that its alarm does
  not cover. Each handler is put together from `CloseRoom`, `SendErrorAndClose`,
  `Attach` and `NextAlarm`, so there is a lemma for each of these and the handlers
  cite them; most of them only close sockets (`OnlyCloses`) and bind nobody
  (`BindsNobody`). The refinement also needs that an answer is never seen before an
  offer.
  The module also has `AllocatedRoomsAreOwned`, of `RoomAllocation`: the owner of a
  room never changes. (The names of that module's specification begin with `Alloc`
  so that both can be extended.)
* `EntriesProofs`: `TypeCorrect`; `ReadsAreDistinct`; `ServedWithinLifetime`;
  `CreatedStays`. The invariant relates the row of a code to the claims it has
  served: the reads they were given are above what remains, and the value is of one
  create. For the last one every read that a row has lost is that of another claim
  (`ReadsCounted`), so that a row without reads has had as many claims as it allows,
  and a clean-up works with a time that has come (`SweepPast`).
* `ControlSessionProofs`: `TypeCorrect`; `OneTestAtATime`; `StraysGoNowhere`;
  `StreamsAreExact`; `ServerImplementsContract`. The invariant `IInv` says: a
  session is the active one (`Slot`); a connection that was not opened has no
  handler and no messages (`Fresh`); CREATE_STREAMS is sent once per client, and a
  client opens streams only after it read it (`AskedOnce`); a data connection has
  sent nothing but its cookie (`Stray`); `#awaitingStreams` is set only while a
  session is setting up or failing (`Awaits`); the streams of a session are distinct
  data connections of its client, fewer than the parameters ask for until the test
  starts (`Owned`). That the streams are exactly the client's follows by counting: n
  distinct members of a set of n. The steps of the system are put into a few kinds
  (`StepKinds`: a client's own step, a lost connection, a session that begins,
  advances, is joined, is turned away, frees the slot), and the invariant and the
  contract are shown per kind.
* `ControlTalkProofs`: `SessionsInStep`; `FinishTogether`. What is under way on a
  control connection is at most one turn of the conversation, of one side only, and
  which one is given by the place of the server's handler (`Talk`); a client ends its
  test only while nothing is under way. A session that is failing may have anything
  left on the wire, and nothing is said of it. A data connection that was taken or
  turned away carries nothing more (`Silent`). DISPLAY_RESULTS is on the wire, and a
  client finished, only for a test that was complete (`Ready`).
* `UdpSenderProofs`: `ProbeIsExact`; `LengthsTestedOrWaived`; `RateIsKept`;
  `SendsAreAccounted`; `LossesAreReal`, of the composed sender: every step of it is a
  step of the probe and of the pacer, or leaves them alone (`ProbeSteps`,
  `PacerSteps`). The first is about a steady host and requests other than the bare
  header; the second says on which send a length rests on any host, and names the two
  answers that rest on none. The invariant of the search (`Bracket`): lo
  was sent, hi was refused, and on a steady host the largest sendable length is in
  lo..hi-1. The invariant of the pacer: sends are in the past (`Past`), `gate()`
  returns no earlier than the schedule less the slack (`OnSchedule`), and the
  virtual start is at most the cap and one datagram behind every send that a later
  `gate()` follows (`Backlog`); the bound on a burst is the sum of the last two.
  For the transfer: a buffer is in the pool or in one send, in one place (`Pooled`),
  and the receiver has seen no number above the highest and counts every arrival, so
  that what it takes for lost is at most what it has not seen (`ReceiverInv`).
* `NegotiationProofs`: `NeverRefuses`; `RoomKeepsPromise`. Peers, room and network
  share one state, and the queues between them have any length, so each step is
  first shown to be of one of twelve kinds (`Kinds`), by what it does to each
  peer and to the room; the invariants are shown for the kinds. `RoomInv` says for
  each peer: where it is tells what it has sent (`Order`); nothing but a bind is sent
  before both are bound (`Meet`); one description is ahead of the candidates under
  way, and those with the ones let through are within the limit (`Frames`). The limit
  of the room is kept only because a peer counts what it sends and the room what
  arrives, and a connection that breaks takes a suffix of the queue.
* `NegotiationPeerProofs`: `LeavingHarmsNobody`. While nothing has broken and the
  other peer has not failed, the frames a peer has still to read, followed by those
  the other has sent and the room has not relayed, are the rest of one fixed script
  (`Script`): bound, peer ready, a description, candidates, their end, left, closed.
  Frames are given the stage they are for and the one they lead to (`From`, `To`), and
  a queue leads from one stage to another (`Leads`), so that appending, reading and
  relaying need no induction over the queue. A room is closed only by a fault or by
  a peer that ended (`Parting`), and one that connected had sent its last candidate:
  what the other reads first is all it needs.
* `ChannelTestProofs`: `BooksKept`; `NothingMissingAlways`;
  `NothingAfterMarkerAlways`. The invariant `IInv` has two halves. Per stream, the
  books balance: the sender's counter is behind what it put by the part of the chunk
  under way (`SenderSound`), and what was put is in the buffer, on the network, in
  the queue or counted (`ReceiverSound`), unless the receiver failed. Between the
  streams and the control channel, what a place or a message tells is true
  (`Accounts`): a server past the end of the test has sent its markers or seen the
  client's, a client that sent its results has receivers that are done, and one that
  may report was given the final counts. Neither half is inductive alone: a count in
  a message stays right only because a stream whose marker was read gets nothing
  more (`Stable`). Steps of client and server leave the streams alone
  (`StreamsKept`) and most bring no news (`QuietControl`); a step of a stream has
  only its own books to keep (`OneStream`). The two exceptions of `NothingMissing` are
  those of the statement above.

`TypeOK` of `Entries`, `ControlSession` and `SignalRoom`, `OneTest`,
`StrayGoesNowhere`, `TestedOrWaived` and `NothingAfterMarker` are proved and have no
place in a run: the proofs cover every instance.

Only model-checked: all liveness (fairness is out of the prover's reach); the
properties of `ClientTest`, `BytePipe` and `UdpStreams`. What `Drop` of `BytePipe`
leaves is recursive, and out of the prover's reach. The invariants of the other two
(the numbering of streams when hellos are lost and repeated, the places of the
client's timer and its sender) have not been put into an inductive form.

## Not modelled

* The Rust server's accept rule and slot. `handle_connection` decides in one
  critical section under a mutex what `ReadCookie` of `ControlSession` decides in
  one turn of the event loop, from the same cookie and the same two conditions. It
  then converts the connection outside the lock, and a stream it has claimed and
  cannot convert is not given back: the session ends at the deadline of
  `collect_streams`, as it does in `SessionRejected` when a stream never comes. The
  TCP, WebSocket, UDP and iroh paths of the Rust programs have the shape of the
  TypeScript ones, and are not modelled again.
* Encoding and decoding of single messages (parameters, results, state bytes, UDP
  headers, signal frames), in both languages: functions of one input, without state,
  which unit tests reach. The models take a decoded message, and an undecodable one
  is one that is refused.
* Checks of SDP, of channel manifests and of candidate pairs, and all limits in
  bytes of a frame: they accept or refuse one message by its contents.
* TLS, QUIC and ICE themselves and the set-up of endpoints: libraries. What the code
  expects of them is in the models as external steps. QUIC streams are numbered in
  the order of their arrival, and `ChannelTest` names them by the stream instead.
* Jitter, interval reports, rates and their formatting: numbers that no step of the
  protocols reads.
* The mux lab: it measures latencies of real schedulers and sockets, and a model
  without real time says nothing about them.
* Address exchange (`p2p`): an HTTP client of the entry store; iroh owns the
  connection.
* The worker's routing, authorisation of room allocation and rate limiting: each
  request is decided by its headers or by a service outside the repository.
* The keyboard and mouse demo, `tui.rs`, `main.rs`, `cli.ts`, the interoperability
  harness and generated type declarations: presentation, operating-system input and
  scripts around the programs. No property of the protocols depends on their state.
