---------------------------- MODULE Negotiation ----------------------------
(***************************************************************************)
(* Two WebRTC peers meet in a signaling room: the netsu-rs listener        *)
(* (netsu-rs/src/transport/webrtc/peer.rs, signaling.rs) and a joiner,     *)
(* which is netsu-rs again or the browser peer                             *)
(* (interop/transports/browser/browser-peer.js).                           *)
(*                                                                         *)
(* up and down are the two directions of the peers' WebSockets; down ends  *)
(* with "close" when the room has closed the socket.  The room keeps what  *)
(* the peers can tell of SignalRoom, and is shown to be a RoomContract.    *)
(* ICE and DTLS are external: a direct path comes up or does not.          *)
(***************************************************************************)
EXTENDS Naturals, Sequences

CONSTANTS
    MaxCandidates   \* MAX_SIGNAL_CANDIDATES_PER_PEER, of the peers and of the room

ASSUME CandidateAssumption == MaxCandidates \in Nat

VARIABLES
    program,   \* which program the joiner is
    calm,      \* no connection is lost, no room expires, no timer fires
    room,      \* the room: its phase, who is bound, what it has relayed
    up, down,  \* frames on their way to the room and to the peers
    link,      \* a peer's WebSocket, as the peer sees it
    pc,        \* how far a peer has got
    ice,       \* local candidates: how many there are, how many were sent
    remote,    \* what a peer knows of the other: description, candidates, end
    path,      \* the direct path is up
    cause,     \* why a peer failed
    cut        \* a WebSocket was lost or the room has expired (history)

vars == <<program, calm, room, up, down, link, pc, ice, remote, path, cause, cut>>

Peers == {"listener", "joiner"}
Other(p) == IF p = "listener" THEN "joiner" ELSE "listener"
Browser(p) == p = "joiner" /\ program = "browser"
Ended == {"connected", "failed"}
Waiting == {"binding", "ready", "describing", "exchange", "connecting"}

Init ==
    /\ program \in {"browser", "rust"}
    /\ calm \in BOOLEAN
    /\ room = [phase |-> "none", bound |-> {}, offered |-> FALSE, answered |-> FALSE,
               candidates |-> [p \in Peers |-> 0], refused |-> FALSE]
    /\ up = [p \in Peers |-> <<>>]
    /\ down = [p \in Peers |-> <<>>]
    /\ link = [p \in Peers |-> "none"]
    /\ pc = [p \in Peers |-> "idle"]
    /\ ice \in [Peers -> [total : 0..(MaxCandidates + 1), sent : {0},
                          started : {FALSE}, done : {FALSE}]]
    /\ remote = [p \in Peers |-> [described |-> FALSE, pending |-> 0,
                                  applied |-> 0, ended |-> FALSE]]
    /\ path = FALSE
    /\ cause = [p \in Peers |-> "none"]
    /\ cut = FALSE

-----------------------------------------------------------------------------
\* Mutant: a peer that fails just goes away, and its socket stays behind.
FinishQuietly(p, verdict, why) ==
    /\ pc' = [pc EXCEPT ![p] = verdict]
    /\ cause' = [cause EXCEPT ![p] = why]
    /\ down' = [down EXCEPT ![p] = <<>>]
    /\ IF verdict = "connected"
       THEN /\ up' = [up EXCEPT ![p] = @ \o <<"leave", "gone">>]
            /\ link' = [link EXCEPT ![p] = "closed"]
       ELSE UNCHANGED <<up, link>>

\* finish_signaling, and signal.close() at the end of connect() or in run()'s finally:
\* whatever the outcome, the peer says it leaves if it still can, and closes.
Finish(p, verdict, why) ==
    /\ pc' = [pc EXCEPT ![p] = verdict]
    /\ cause' = [cause EXCEPT ![p] = why]
    /\ link' = [link EXCEPT ![p] = "closed"]
    /\ down' = [down EXCEPT ![p] = <<>>]
    /\ up' = [up EXCEPT ![p] = @ \o (CASE link[p] = "none" -> <<>>
                                       [] link[p] = "open" -> <<"leave", "gone">>
                                       [] OTHER            -> <<"gone">>)]

\* send(): a closed WebSocket fails the negotiation.
Post(p, frame, next) ==
    IF link[p] = "open"
    THEN /\ up' = [up EXCEPT ![p] = Append(@, frame)]
         /\ pc' = [pc EXCEPT ![p] = next]
         /\ UNCHANGED <<link, cause, down>>
    ELSE Finish(p, "failed", "signaling")

Opened(p) ==
    /\ link' = [link EXCEPT ![p] = "open"]
    /\ up' = [up EXCEPT ![p] = <<"bind">>]
    /\ pc' = [pc EXCEPT ![p] = "binding"]

\* create_listener: the room is created, then its socket opened and bound.
CreateListener ==
    /\ pc["listener"] = "idle"
    /\ room' = [room EXCEPT !.phase = "open"]
    /\ Opened("listener")
    /\ UNCHANGED <<program, calm, down, ice, remote, path, cause, cut>>

\* join, and connect() up to the bind.  The code is known once the listener is bound.
\* A room that is gone already answers 404.
Join ==
    /\ pc["joiner"] = "idle"
    /\ pc["listener"] \notin {"idle", "binding"}
    /\ IF room.phase = "open"
       THEN Opened("joiner") /\ UNCHANGED <<cause, down>>
       ELSE Finish("joiner", "failed", "signaling")
    /\ UNCHANGED <<program, calm, room, ice, remote, path, cut>>

-----------------------------------------------------------------------------
\* Mutant: the answerer does not wait for the end of the offerer's candidates.
ExchangedEarly(p, i, r) == i.done /\ (r.ended \/ p = "listener")

\* Both halves of the exchange are over: sendLocalIce and receiveRemoteIce have returned.
Exchanged(p, i, r) == i.done /\ r.ended

NextPc(p, i, r) == IF Exchanged(p, i, r) THEN "connecting" ELSE "exchange"

\* The offer or the answer is sent, then the local candidates.
Describe(p) ==
    /\ pc[p] = "describing"
    /\ Post(p, IF p = "joiner" THEN "offer" ELSE "answer", "exchange")
    /\ ice' = [ice EXCEPT ![p].started = TRUE]
    /\ UNCHANGED <<program, calm, room, remote, path, cut>>

\* Mutant: candidates are only sent when the other side has sent all of its own.
MaySendLast(p) == pc[p] = "exchange" /\ ice[p].started /\ ~ice[p].done /\ remote[p].ended

MaySend(p) == pc[p] = "exchange" /\ ice[p].started /\ ~ice[p].done

\* Mutant: the limit on one's own candidates is off by one.
OverLimitLate(n) == n > MaxCandidates + 1

OverLimit(n) == n > MaxCandidates

\* sendLocalIce / send_local_ice: one more candidate, or the end of them.
SendLocalIce(p) ==
    /\ MaySend(p)
    /\ \/ /\ ice[p].sent < ice[p].total
          /\ OverLimit(ice[p].sent + 1)
          /\ Finish(p, "failed", "own")
          /\ UNCHANGED ice
       \/ /\ ice[p].sent < ice[p].total
          /\ ~OverLimit(ice[p].sent + 1)
          /\ Post(p, "candidate", "exchange")
          /\ ice' = [ice EXCEPT ![p].sent = @ + 1]
       \/ /\ ice[p].sent = ice[p].total
          /\ ice' = [ice EXCEPT ![p].done = TRUE]
          /\ Post(p, "end_of_candidates", NextPc(p, ice'[p], remote[p]))
    /\ UNCHANGED <<program, calm, room, remote, path, cut>>

\* netsu-rs does not read while it sends its candidates; the browser does both at once.
MayRead(p) ==
    \/ pc[p] \in {"binding", "ready"}
    \/ pc[p] = "exchange" /\ ~remote[p].ended /\ (Browser(p) \/ ~MaySend(p))

Description(p) == IF p = "joiner" THEN "answer" ELSE "offer"

Described(r) == [r EXCEPT !.described = TRUE, !.applied = @ + r.pending, !.pending = 0]

Candidate(r) == IF r.described THEN [r EXCEPT !.applied = @ + 1]
                ELSE [r EXCEPT !.pending = @ + 1]

\* add_remote_candidate counts what it gets; the browser does not.
TooMany(p) == ~Browser(p) /\ remote[p].applied + remote[p].pending >= MaxCandidates

Taken(p) == down' = [down EXCEPT ![p] = Tail(@)]

\* What a frame does to a peer that is in the exchange.
Exchange(p, m) ==
    \/ /\ m = Description(p) /\ ~remote[p].described
       /\ remote' = [remote EXCEPT ![p] = Described(@)]
       /\ pc' = [pc EXCEPT ![p] = IF p = "listener" THEN "describing" ELSE @]
       /\ Taken(p) /\ UNCHANGED <<up, link, cause>>
    \/ /\ m = "candidate" /\ ~TooMany(p)
       /\ remote' = [remote EXCEPT ![p] = Candidate(@)]
       /\ Taken(p) /\ UNCHANGED <<up, link, cause, pc>>
    \/ /\ m = "end_of_candidates" /\ remote[p].described
       /\ remote' = [remote EXCEPT ![p].ended = TRUE]
       /\ pc' = [pc EXCEPT ![p] = NextPc(p, ice[p], remote'[p])]
       /\ Taken(p) /\ UNCHANGED <<up, link, cause>>
    \/ /\ \/ m \in {"bound", "peer_ready", "peer_left", "error", "close"}
          \/ m = "candidate" /\ TooMany(p)
          \/ m = "end_of_candidates" /\ ~remote[p].described
          \/ m \in {"offer", "answer"} /\ (m # Description(p) \/ remote[p].described)
       /\ Finish(p, "failed", "signaling")
       /\ UNCHANGED remote

Read(p) ==
    /\ MayRead(p) /\ down[p] # <<>>
    /\ LET m == Head(down[p])
           expected == IF pc[p] = "binding" THEN "bound" ELSE "peer_ready"
       IN \/ /\ pc[p] \in {"binding", "ready"} /\ m = expected
             /\ pc' = [pc EXCEPT ![p] = IF @ = "binding" THEN "ready"
                                         ELSE IF p = "joiner" THEN "describing"
                                         ELSE "exchange"]
             /\ Taken(p) /\ UNCHANGED <<up, link, cause, remote>>
          \/ /\ pc[p] \in {"binding", "ready"} /\ m # expected
             /\ Finish(p, "failed", "signaling")
             /\ UNCHANGED remote
          \/ /\ pc[p] = "exchange"
             /\ Exchange(p, m)
    /\ UNCHANGED <<program, calm, room, ice, path, cut>>

\* complete_connection, and the end of connect(): the path and the control channel are up.
Connect(p) ==
    /\ pc[p] = "connecting" /\ path
    /\ Finish(p, "connected", "none")
    /\ UNCHANGED <<program, calm, room, ice, remote, path, cut>>

\* The other peer has failed and closed its end of the connection.
PathFails(p) ==
    /\ pc[p] = "connecting" /\ pc[Other(p)] = "failed"
    /\ Finish(p, "failed", "own")
    /\ UNCHANGED <<program, calm, room, ice, remote, path, cut>>

\* A deadline passes, or ICE reports that the connection has failed.
Timeout(p) ==
    /\ ~calm /\ pc[p] \in Waiting
    /\ Finish(p, "failed", "own")
    /\ UNCHANGED <<program, calm, room, ice, remote, path, cut>>

-----------------------------------------------------------------------------
\* What is sent on a socket that has ended is lost.
Tell(p, frames) == IF link[p] = "open" THEN down[p] \o frames ELSE down[p]

\* closeRoom: every socket but the source's is told, and all are closed.
CloseRoom(source, frame) ==
    /\ room' = [room EXCEPT !.phase = "closed", !.bound = {}]
    /\ down' = [p \in Peers |-> Tell(p, IF p = source THEN <<"close">> ELSE <<frame, "close">>)]

Forwardable(p, m) ==
    /\ room.bound = Peers
    /\ m = "offer" => p = "joiner" /\ ~room.offered
    /\ m = "answer" => p = "listener" /\ room.offered /\ ~room.answered
    /\ m = "candidate" => room.candidates[p] < MaxCandidates

BindAccepted(p) ==
    LET both == room.bound \cup {p} = Peers
    IN /\ room' = [room EXCEPT !.bound = @ \cup {p}]
       /\ down' = [q \in Peers |-> Tell(q, (IF q = p THEN <<"bound">> ELSE <<>>)
                                            \o (IF both THEN <<"peer_ready">> ELSE <<>>))]

Forward(p, m) ==
    IF Forwardable(p, m)
    THEN /\ room' = [room EXCEPT !.offered = @ \/ m = "offer", !.answered = @ \/ m = "answer",
                                 !.candidates[p] = IF m = "candidate" THEN @ + 1 ELSE @]
         /\ down' = [down EXCEPT ![Other(p)] = Tell(Other(p), <<m>>)]
    ELSE /\ room' = [room EXCEPT !.refused = TRUE]
         /\ down' = [down EXCEPT ![p] = Tell(p, <<"error", "close">>)]

\* Mutant: a bind is served although the room has been closed.
RoomOpenForAnyBind(m) == room.phase = "open" \/ m = "bind"

RoomOpenFor(m) == room.phase = "open"

\* The room takes the next frame, or the end, of a peer's socket.
RoomStep(p) ==
    /\ up[p] # <<>>
    /\ LET m == Head(up[p])
       IN \/ /\ RoomOpenFor(m)
             /\ up' = [up EXCEPT ![p] = Tail(@)]
             /\ CASE m = "bind"              -> BindAccepted(p)
                  [] m \in {"leave", "gone"} -> IF p \in room.bound
                                                THEN CloseRoom(p, "peer_left")
                                                ELSE UNCHANGED <<room, down>>
                  [] OTHER                   -> Forward(p, m)
          \/ /\ ~RoomOpenFor(m)
             /\ up' = [up EXCEPT ![p] = <<>>]
             /\ UNCHANGED <<room, down>>
    /\ UNCHANGED <<program, calm, link, pc, ice, remote, path, cause, cut>>

RoomExpires ==
    /\ ~calm /\ room.phase = "open"
    /\ CloseRoom("nobody", "error")
    /\ cut' = TRUE
    /\ UNCHANGED <<program, calm, up, link, pc, ice, remote, path, cause>>

\* A peer learns that the room has closed its socket, maybe before it has read
\* everything that came before.
SocketCloses(p) ==
    /\ link[p] = "open"
    /\ \E i \in DOMAIN down[p] : down[p][i] = "close"
    /\ link' = [link EXCEPT ![p] = "closed"]
    /\ UNCHANGED <<program, calm, room, up, down, pc, ice, remote, path, cause, cut>>

\* The connection between a peer and the room breaks, and with it what was under way.
SocketLost(p) ==
    /\ ~calm /\ ~cut /\ link[p] = "open"
    /\ link' = [link EXCEPT ![p] = "closed"]
    /\ \E i \in 0..Len(up[p]), j \in 0..Len(down[p]) :
          /\ up' = [up EXCEPT ![p] = Append(SubSeq(@, 1, i), "gone")]
          /\ down' = [down EXCEPT ![p] = Append(SubSeq(@, 1, j), "close")]
    /\ cut' = TRUE
    /\ UNCHANGED <<program, calm, room, pc, ice, remote, path, cause>>

\* External: ICE finds a direct path once both descriptions are known; a peer for which
\* it does not fails as by a timeout.
PathUp ==
    /\ ~path /\ \A p \in Peers : remote[p].described
    /\ path' = TRUE
    /\ UNCHANGED <<program, calm, room, up, down, link, pc, ice, remote, cause, cut>>

PeerStep(p) ==
    Describe(p) \/ SendLocalIce(p) \/ Read(p) \/ Connect(p) \/ PathFails(p) \/ Timeout(p)

Next ==
    \/ CreateListener \/ Join \/ RoomExpires \/ PathUp
    \/ \E p \in Peers : PeerStep(p) \/ RoomStep(p) \/ SocketCloses(p) \/ SocketLost(p)

Spec == Init /\ [][Next]_vars

\* Programs run on, frames arrive, timers fire (the room's alarm too), and ICE ends
\* its attempt; nothing makes a connection break.
FairSpec ==
    /\ Spec /\ WF_vars(CreateListener) /\ WF_vars(Join) /\ WF_vars(PathUp) /\ WF_vars(RoomExpires)
    /\ \A p \in Peers : WF_vars(PeerStep(p)) /\ WF_vars(RoomStep(p))

-----------------------------------------------------------------------------
\* The first peer to connect leaves, and the room it closes takes nothing from the
\* other: a peer whose signaling fails has a peer that failed, or lost a connection.
LeavingIsHarmless ==
    \A p \in Peers : cause[p] = "signaling" => cut \/ pc[Other(p)] = "failed"

\* The peers keep to the rules of the room: it never turns one of their frames down.
NeverRefused == ~room.refused

\* If nothing breaks and there are not too many candidates, both peers connect:
\* neither waits for something the other sends only later.
BothConnect ==
    calm /\ (\A p \in Peers : ice[p].total <= MaxCandidates)
        ~> \A p \in Peers : pc[p] = "connected"

\* Whatever happens, both peers come to an end and no room is left behind.
AllOver == <>[](room.phase = "closed" /\ \A p \in Peers : pc[p] \in Ended)

Contract ==
    INSTANCE RoomContract WITH
        Sockets <- Peers, NoSocket <- "nobody", phase <- room.phase,
        holder <- [r \in Peers |-> IF r \in room.bound THEN r ELSE "nobody"],
        negotiation <- IF room.answered THEN "answered"
                       ELSE IF room.offered THEN "offered" ELSE "idle"

\* The room the peers talk to makes only the steps that SignalRoom's contract allows.
RoomAsPromised == Contract!Spec
=============================================================================
