----------------------------- MODULE UdpStreams -----------------------------
(***************************************************************************)
(* How a UDP test of packages/netsu gets its streams.  The server binds a  *)
(* socket, announces CREATE_STREAMS, and for each stream waits for a hello,*)
(* connects the socket to its sender, binds the socket of the next stream  *)
(* and only then replies.  The client opens its streams one after the other*)
(* and sends each hello once.                                              *)
(*                                                                         *)
(* <<c, i>> names the i-th socket of client c and, in sock and peer, the   *)
(* i-th socket that the session of c binds.  All server sockets share one  *)
(* port.  Hellos and replies are lost, duplicated and reordered, but do not*)
(* outlive their session.  A step is what runs between two awaits; a write *)
(* to the control connection is part of the step that issues it.           *)
(***************************************************************************)
EXTENDS Integers, FiniteSets

CONSTANTS
    Clients,      \* clients, each with one test
    Parallel,     \* params.parallel
    Nobody        \* no client and no socket

Socks == Clients \X (1..Parallel)

ASSUME UdpAssumption ==
    /\ Parallel \in Nat \ {0}
    /\ Nobody \notin Clients /\ Nobody \notin Socks

VARIABLES
    active,     \* the client whose session is #active, or Nobody
    run,        \* client -> place of the session's run()
    sock,       \* server socket -> its state
    peer,       \* server socket -> the client socket it accepted, or Nobody
    pending,    \* client -> index of the socket in #pendingUdpAccept, or 0
    accepted,   \* client -> length of #streams
    pipe,       \* client -> state of the server's end of the control connection
    cl,         \* client -> [pc, opened]
    net,        \* datagrams under way
    reliable,   \* whether datagrams, clients, binds and deadlines never fail
    server      \* "listening", "closed", or "threw" when close() was rejected

vars == <<active, run, sock, peer, pending, accepted, pipe, cl, net, reliable, server>>
session == <<active, run, sock, peer, pending, accepted, pipe>>

Hello(k) == [type |-> "hello", at |-> k]
Reply(k) == [type |-> "reply", at |-> k]
Of(c) == {<<c, i>> : i \in 1..Parallel}
Streams(c) == {<<c, i>> : i \in 1..accepted[c]}
Current(c) == <<c, accepted[c] + 1>>
Gone(c) == cl[c].pc = "failed"

Init ==
    /\ active = Nobody
    /\ run = [c \in Clients |-> "none"]
    /\ sock = [k \in Socks |-> "none"]
    /\ peer = [k \in Socks |-> Nobody]
    /\ pending = [c \in Clients |-> 0]
    /\ accepted = [c \in Clients |-> 0]
    /\ pipe = [c \in Clients |-> "open"]
    /\ cl = [c \in Clients |-> [pc |-> "idle", opened |-> 0]]
    /\ net = {}
    /\ reliable \in BOOLEAN
    /\ server = "listening"

Shut(K) == [k \in Socks |-> IF k \in K THEN "closed" ELSE sock[k]]

-----------------------------------------------------------------------------
(* The server's session.                                                   *)

\* The parameters have been exchanged; run() awaits the probe of the datagram size, when
\* the server is to send, and the first udpServerBind.
Begin(c) ==
    /\ server # "closed" /\ active = Nobody /\ cl[c].pc = "idle"
    /\ active' = c
    /\ run' = [run EXCEPT ![c] = "binding"]
    /\ cl' = [cl EXCEPT ![c].pc = "waiting"]
    /\ UNCHANGED <<sock, peer, pending, accepted, pipe, net, reliable, server>>

\* The client is told CREATE_STREAMS once the first socket is bound.
Announce(c) ==
    \/ /\ pipe[c] = "open"
       /\ run' = [run EXCEPT ![c] = "accepting"]
       /\ cl' = [cl EXCEPT ![c].pc = IF @ = "waiting" THEN "told" ELSE @]
       /\ net' = net
    \/ /\ pipe[c] = "shut" \/ Gone(c)
       /\ run' = [run EXCEPT ![c] = "failing"]
       /\ UNCHANGED <<cl, net>>

\* udpServerSendReply: send() on a socket that abort() has closed throws.
SendReply(c, k, next) ==
    /\ IF sock[k] = "closed"
         THEN run' = [run EXCEPT ![c] = "failing"] /\ net' = net
         ELSE run' = [run EXCEPT ![c] = next] /\ net' = net \cup {Reply(peer[k])}
    /\ UNCHANGED cl

\* udpServerBind resolves; for the first stream run() goes on, for the others
\* #acceptUdpStreams, which now replies to the stream before.
Bound(c) ==
    /\ run[c] = "binding"
    /\ sock' = [sock EXCEPT ![Current(c)] = "bound"]
    /\ pending' = [pending EXCEPT ![c] = accepted[c] + 1]
    /\ IF accepted[c] = 0 THEN Announce(c) ELSE SendReply(c, <<c, accepted[c]>>, "accepting")
    /\ UNCHANGED <<active, peer, accepted, pipe, reliable, server>>

BindFails(c) ==
    /\ ~reliable /\ run[c] = "binding"
    /\ run' = [run EXCEPT ![c] = "failing"]
    /\ UNCHANGED <<active, sock, peer, pending, accepted, pipe, cl, net, reliable, server>>

\* Where the kernel delivers a datagram from client socket k: to the socket connected
\* to k, or else to any unconnected one on the port, leftovers included.
Receivers(k) ==
    IF \E s \in Socks : sock[s] = "connected" /\ peer[s] = k
      THEN {s \in Socks : sock[s] = "connected" /\ peer[s] = k}
      ELSE {s \in Socks : sock[s] = "bound"}

\* onMessage of udpServerAccept, when it is waiting on s; it calls connect().
OnHello(k, s) ==
    /\ Hello(k) \in net /\ s \in Receivers(k)
    /\ run[s[1]] = "accepting" /\ s = Current(s[1]) /\ sock[s] = "bound"
    /\ run' = [run EXCEPT ![s[1]] = "connecting"]
    /\ peer' = [peer EXCEPT ![s] = k]
    /\ net' \in {net \ {Hello(k)}} \cup IF reliable THEN {} ELSE {net}
    /\ UNCHANGED <<active, sock, pending, accepted, pipe, cl, reliable, server>>

\* Mutants: the accepted socket is not connected; the reply is sent before the next
\* socket is bound; the last reply is forgotten; one stream too many is awaited.
ConnectedUnpinned(c) ==
    /\ run[c] = "connecting" /\ sock[Current(c)] = "bound"
    /\ pending' = [pending EXCEPT ![c] = 0]
    /\ accepted' = [accepted EXCEPT ![c] = @ + 1]
    /\ IF accepted'[c] < Parallel
         THEN run' = [run EXCEPT ![c] = "binding"] /\ UNCHANGED <<cl, net>>
         ELSE SendReply(c, Current(c), "running")
    /\ UNCHANGED <<active, sock, peer, pipe, reliable, server>>
ConnectedRepliesFirst(c) ==
    /\ run[c] = "connecting" /\ sock[Current(c)] = "bound"
    /\ sock' = [sock EXCEPT ![Current(c)] = "connected"]
    /\ pending' = [pending EXCEPT ![c] = 0]
    /\ accepted' = [accepted EXCEPT ![c] = @ + 1]
    /\ SendReply(c, Current(c), IF accepted'[c] < Parallel THEN "binding" ELSE "running")
    /\ UNCHANGED <<active, peer, pipe, reliable, server>>
ConnectedNoLastReply(c) ==
    /\ run[c] = "connecting" /\ sock[Current(c)] = "bound"
    /\ sock' = [sock EXCEPT ![Current(c)] = "connected"]
    /\ pending' = [pending EXCEPT ![c] = 0]
    /\ accepted' = [accepted EXCEPT ![c] = @ + 1]
    /\ run' = [run EXCEPT ![c] = IF accepted'[c] < Parallel THEN "binding" ELSE "running"]
    /\ UNCHANGED <<active, peer, pipe, cl, net, reliable, server>>

\* connect() calls back, unless abort() has closed the socket: the stream is added,
\* and the next socket is bound or the last stream replied to.
Connected(c) ==
    /\ run[c] = "connecting" /\ sock[Current(c)] = "bound"
    /\ sock' = [sock EXCEPT ![Current(c)] = "connected"]
    /\ pending' = [pending EXCEPT ![c] = 0]
    /\ accepted' = [accepted EXCEPT ![c] = @ + 1]
    /\ IF accepted'[c] < Parallel
         THEN run' = [run EXCEPT ![c] = "binding"] /\ UNCHANGED <<cl, net>>
         ELSE SendReply(c, Current(c), "running")
    /\ UNCHANGED <<active, peer, pipe, reliable, server>>

\* The hello that the session waits for is on its way, or what makes the client send
\* it: this takes less than the 30 seconds of CONTROL_TIMEOUT.
Coming(c) ==
    \/ cl[c].pc = "told"
    \/ Hello(Current(c)) \in net
    \/ cl[c].pc = "connecting" /\ Reply(<<c, accepted[c]>>) \in net

\* Mutant: udpServerAccept has no deadline.
AcceptForever(c) ==
    /\ run[c] = "accepting"
    /\ sock[Current(c)] = "closed"
    /\ run' = [run EXCEPT ![c] = "failing"]
    /\ UNCHANGED <<active, sock, peer, pending, accepted, pipe, cl, net, reliable, server>>

\* udpServerAccept rejects: its socket was closed, or its deadline passes.
\* #pendingUdpAccept keeps pointing at the closed socket.
AcceptRejected(c) ==
    /\ run[c] = "accepting"
    /\ sock[Current(c)] = "closed" \/ (~reliable /\ ~Coming(c))
    /\ sock' = Shut({Current(c)})
    /\ run' = [run EXCEPT ![c] = "failing"]
    /\ UNCHANGED <<active, peer, pending, accepted, pipe, cl, net, reliable, server>>

\* readState rejects while the test runs: the connection is lost or the cap is over.
Interrupted(c) ==
    /\ run[c] = "running"
    /\ ~reliable \/ pipe[c] = "shut" \/ Gone(c)
    /\ run' = [run EXCEPT ![c] = "failing"]
    /\ UNCHANGED <<active, sock, peer, pending, accepted, pipe, cl, net, reliable, server>>

\* The finally block, after SERVER_ERROR was written, or after the test: a client that
\* has opened its streams says TEST_END and the results are exchanged.
Finish(c) ==
    /\ run[c] = "failing" \/ (run[c] = "running" /\ cl[c].pc = "open")
    /\ sock' = Shut(Streams(c))
    /\ pipe' = [pipe EXCEPT ![c] = "shut"]
    /\ run' = [run EXCEPT ![c] = "ended"]
    /\ active' = Nobody
    /\ net' = {d \in net : d.at \notin Of(c)}
    /\ UNCHANGED <<peer, pending, accepted, cl, reliable, server>>

\* close() of the server: abort() closes the pending socket, the streams and the pipe,
\* but a pending socket that is closed already makes it throw, and close() with it.
Close ==
    /\ server # "closed"
    /\ \/ /\ active = Nobody
          /\ server' = "closed"
          /\ UNCHANGED <<sock, pending, pipe>>
       \/ /\ active # Nobody /\ pending[active] # 0 /\ sock[<<active, pending[active]>>] = "closed"
          /\ server' = "threw"
          /\ UNCHANGED <<sock, pending, pipe>>
       \/ /\ active # Nobody
          /\ pending[active] # 0 => sock[<<active, pending[active]>>] # "closed"
          /\ server' = "closed"
          /\ sock' = Shut(Streams(active) \cup
                          {k \in Of(active) : k[2] = pending[active]})
          /\ pending' = [pending EXCEPT ![active] = 0]
          /\ pipe' = [pipe EXCEPT ![active] = "shut"]
    /\ UNCHANGED <<active, run, peer, accepted, cl, net, reliable>>

-----------------------------------------------------------------------------
(* The client and the network.                                             *)

\* udpClientConnect for the next stream: the hello is sent once.
OnCreateStreams(c) ==
    /\ cl[c].pc = "told"
    /\ cl' = [cl EXCEPT ![c].pc = "connecting"]
    /\ net' = net \cup {Hello(<<c, 1>>)}
    /\ UNCHANGED <<session, reliable, server>>

OnReply(c) ==
    LET k == <<c, cl[c].opened + 1>> IN
    /\ cl[c].pc = "connecting" /\ Reply(k) \in net
    /\ cl' = [cl EXCEPT ![c] = [opened |-> k[2], pc |-> IF k[2] < Parallel THEN "connecting" ELSE "open"]]
    /\ net' = (net \ {Reply(k)}) \cup IF k[2] < Parallel THEN {Hello(<<c, k[2] + 1>>)} ELSE {}
    /\ UNCHANGED <<session, reliable, server>>

\* The five seconds are over, the socket fails, or the client goes away.
ClientFails(c) ==
    /\ cl[c].pc \in {"waiting", "told", "connecting", "open"}
    /\ \/ ~reliable \/ server = "closed"
       \/ run[c] \in {"failing", "ended"} /\ cl[c].pc # "open"
    /\ cl' = [cl EXCEPT ![c].pc = "failed"]
    /\ UNCHANGED <<session, net, reliable, server>>

Lose(d) ==
    /\ ~reliable
    /\ net' = net \ {d}
    /\ UNCHANGED <<session, cl, reliable, server>>

SessionStep(c) ==
    Bound(c) \/ BindFails(c) \/ Connected(c) \/ AcceptRejected(c) \/ Interrupted(c) \/ Finish(c)
ClientStep(c) == OnCreateStreams(c) \/ OnReply(c) \/ ClientFails(c)

Next ==
    \/ \E c \in Clients : Begin(c) \/ SessionStep(c) \/ ClientStep(c)
    \/ \E k, s \in Socks : OnHello(k, s)
    \/ \E d \in net : Lose(d)
    \/ Close

Spec == Init /\ [][Next]_vars

\* Callbacks of the event loop run, deadlines pass, and a datagram that stays under
\* way is delivered.
FairSpec ==
    /\ Spec
    /\ \A c \in Clients : WF_vars(SessionStep(c)) /\ WF_vars(ClientStep(c))
    /\ \A c \in Clients : WF_vars(\E k \in Of(c), s \in Socks : OnHello(k, s))

-----------------------------------------------------------------------------
\* A hello is sent once, so it must find a socket that waits for it: while a client
\* waits for the reply to a hello, its session has accepted it or has an accept
\* pending on a bound socket, unless the session is over.
HelloHeard ==
    \A c \in Clients : cl[c].pc = "connecting" =>
        LET k == <<c, cl[c].opened + 1>> IN
        \/ run[c] \in {"failing", "ended"} \/ server = "closed"
        \/ peer[k] = k
        \/ run[c] = "accepting" /\ Current(c) = k /\ sock[k] = "bound"

\* The i-th stream of a session is the i-th one its client opened, so the ids that both
\* sides count agree, and no stream is accepted twice from a duplicated hello.
SameOrder == \A s \in Socks : peer[s] # Nobody => peer[s] = s

\* The slot is given back although hellos or replies are lost and clients vanish.
SlotFreed == \A c \in Clients : active = c ~> active # c \/ server = "closed"

\* When nothing is lost, every stream is opened and the test starts on both sides.
AllOpen ==
    \A c \in Clients : reliable /\ active = c ~>
        (run[c] = "running" /\ cl[c].pc = "open") \/ server = "closed"

\* server.ts tracks the accept socket so that abort() does not leave a live UDP socket
\* behind: none is left when the server is closed and the session has ended.
NoSocketAfterClose ==
    server = "closed" =>
        \A k \in Socks : run[k[1]] = "ended" => sock[k] \notin {"bound", "connected"}
=============================================================================
