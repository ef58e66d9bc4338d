----------------------------- MODULE SignalRoom -----------------------------
(***************************************************************************)
(* The SignalRoom Durable Object of apps/rendez-key (src/signal/room.ts):  *)
(* one persisted row, one alarm, and the hibernatable WebSockets of one    *)
(* signaling room.                                                         *)
(*                                                                         *)
(* A handler runs without interleaving except across the await on          *)
(* crypto.subtle.digest in verifyListenerSecret, where other events of the *)
(* object may be delivered; awaits on storage close the input gate and are *)
(* part of the step.  A socket is "open" until the object closes it, then  *)
(* "closing" (still listed by getWebSockets, frames of the client may still*)
(* arrive), and "gone" once the connection has ended.                      *)
(***************************************************************************)
EXTENDS Integers, FiniteSets, FiniteSetsExt

CONSTANTS
    Sockets,            \* identities of the WebSockets a room may ever accept
    Secrets,            \* listener secrets (a secret stands for its hash, too)
    MaxSockets,         \* the 4 of room.ts:194
    BindDeadline,       \* SIGNAL_BIND_DEADLINE_MS
    MaxCandidates,      \* MAX_SIGNAL_CANDIDATES_PER_PEER
    MaxForwardedBytes,  \* MAX_SIGNAL_FORWARDED_BYTES
    FrameSizes,         \* encoded sizes of the frames clients send
    MaxTime,            \* bound on the clock
    MaxPendingBinds     \* bound on the suspended bindSocket calls of one socket

ASSUME RoomAssumption ==
    /\ "no socket" \notin Sockets
    /\ MaxSockets \in Nat /\ BindDeadline \in Nat /\ MaxCandidates \in Nat
    /\ MaxForwardedBytes \in Nat /\ MaxTime \in Nat /\ MaxPendingBinds \in Nat
    /\ FrameSizes \subseteq Nat

VARIABLES
    row,        \* the single row of table signal_room
    now,        \* Date.now()
    alarm,      \* the object's storage alarm
    sock,       \* WebSocket ready state and serialized attachment
    verifying,  \* bindSocket calls suspended in verifyListenerSecret
    heard       \* the frames each socket was sent, of the kinds in Frames (history)

vars == <<row, now, alarm, sock, verifying, heard>>

Roles == {"listener", "joiner"}
Other(role) == IF role = "listener" THEN "joiner" ELSE "listener"
Times == 0..MaxTime
NoAlarm == -1
NoRole == "none"
NoSecret == "no secret"
NoSocket == "no socket"

Lifecycles == {"none", "listener-created", "listener-bound", "paired", "closed"}
Payloads == {"offer", "answer", "candidate", "end_of_candidates"}
Frames == {"offer", "answer", "peer_ready", "peer_left", "error"}

Bind(role, secret) == [type |-> "bind", role |-> role, secret |-> secret]
Plain(type) == [type |-> type, role |-> NoRole, secret |-> NoSecret]

\* A frame parseSignalFrame rejects is "invalid": it only matters that it throws.
ClientMessages ==
    {Bind("joiner", NoSecret)} \cup {Bind("listener", c) : c \in Secrets}
        \cup {Plain(t) : t \in Payloads \cup {"leave", "invalid"}}

NoRow ==
    [lifecycle |-> "none", expires_at |-> 0, secret |-> NoSecret,
     candidates |-> [r \in Roles |-> 0], forwarded_bytes |-> 0,
     offer_seen |-> FALSE, answer_seen |-> FALSE, terminal_reason |-> "none"]

Fresh == [state |-> "unused", connectedAt |-> 0, bound |-> FALSE, role |-> NoRole]

Init ==
    /\ row = NoRow
    /\ now = 0
    /\ alarm = NoAlarm
    /\ sock = [s \in Sockets |-> Fresh]
    /\ verifying = {}
    /\ heard = [s \in Sockets |-> {}]

-----------------------------------------------------------------------------
Available == row.lifecycle \notin {"none", "closed"}
Expired == row.expires_at <= now

\* ctx.getWebSockets()
Listed(sk) == {s \in Sockets : sk[s].state \in {"open", "closing"}}

OpenBound(sk, role) ==
    {s \in Sockets : sk[s].state = "open" /\ sk[s].bound /\ sk[s].role = role}

BoundSocket(role, excluding) == OpenBound(sock, role) \ excluding

\* Mutant: bind deadlines forgotten.
NextAlarmExpiryOnly(r, sk) ==
    IF r.lifecycle \in {"none", "closed"} THEN NoAlarm ELSE r.expires_at
\* Mutant: the early return for a closed room is dropped.
NextAlarmAlways(r, sk) ==
    Min({r.expires_at} \cup {sk[s].connectedAt + BindDeadline :
                                  s \in {t \in Listed(sk) : ~sk[t].bound}})

\* The alarm scheduleNextAlarm leaves behind, given the row and the sockets.
NextAlarm(r, sk) ==
    IF r.lifecycle \in {"none", "closed"} THEN NoAlarm
    ELSE Min({r.expires_at} \cup {sk[s].connectedAt + BindDeadline :
                                      s \in {t \in Listed(sk) : ~sk[t].bound}})

\* safeClose on every socket of a set: only OPEN sockets are affected.
SafeClose(sk, S) ==
    [s \in Sockets |-> IF s \in S /\ sk[s].state = "open"
                       THEN [sk[s] EXCEPT !.state = "closing"] ELSE sk[s]]

\* safeSend of one frame to every socket of a set: only OPEN sockets get it.
SafeSend(h, S, frame) ==
    [s \in Sockets |-> IF s \in S /\ sock[s].state = "open"
                       THEN h[s] \cup ({frame} \cap Frames) ELSE h[s]]

SendErrorAndClose(ws) ==
    /\ heard' = SafeSend(heard, {ws}, "error")
    /\ sock' = SafeClose(sock, {ws})
    /\ UNCHANGED <<row, now, alarm>>

\* closeRoom, except for the sockets: the handlers that follow it with a
\* safeClose of a dead socket say what becomes of that one.
CloseRoom(reason, source, frame) ==
    IF Available
    THEN /\ row' = [row EXCEPT !.lifecycle = "closed", !.terminal_reason = reason]
         /\ alarm' = NoAlarm
         /\ heard' = SafeSend(heard, Listed(sock) \ source, frame)
    ELSE UNCHANGED <<row, alarm, heard>>

ClosedSockets == IF Available THEN SafeClose(sock, Listed(sock)) ELSE sock

ExpireRoom ==
    /\ CloseRoom("expired", {}, "error")
    /\ sock' = ClosedSockets
    /\ UNCHANGED now

-----------------------------------------------------------------------------
\* initialize(): the RPC may be a delayed or repeated one, so the expiry the
\* Worker computed earlier need not lie in the future.  An existing row wins.
Initialize(secret, expiresAt) ==
    /\ IF row.lifecycle = "none"
       THEN /\ row' = [NoRow EXCEPT !.lifecycle = "listener-created",
                                    !.expires_at = expiresAt, !.secret = secret]
            /\ alarm' = expiresAt
       ELSE UNCHANGED <<row, alarm>>
    /\ UNCHANGED <<now, sock, verifying, heard>>

HasCapacity == Cardinality(Listed(sock)) < MaxSockets

\* fetch(): the upgrade of a new socket.  A 404, 426 or 429 changes nothing.
Fetch(ws) ==
    /\ Available
    /\ sock[ws].state = "unused"
    /\ UNCHANGED <<now, verifying>>
    /\ \/ /\ Expired
          /\ ExpireRoom
       \/ /\ ~Expired
          /\ HasCapacity
          /\ sock' = [sock EXCEPT ![ws] = [Fresh EXCEPT !.state = "open",
                                                        !.connectedAt = now]]
          /\ alarm' = NextAlarm(row, sock')
          /\ UNCHANGED <<row, heard>>

\* Mutant: the guard on the lifecycle is missing.
RecordedAlways(lifecycle) == [row EXCEPT !.lifecycle = lifecycle]

\* UPDATE signal_room SET lifecycle = ? WHERE id = 1 AND lifecycle != 'closed'
Recorded(lifecycle) ==
    IF row.lifecycle = "closed" THEN row ELSE [row EXCEPT !.lifecycle = lifecycle]

\* Mutant: only the socket that completes the pair is told.
AttachTellOne(ws, role) ==
    LET sk == [sock EXCEPT ![ws].bound = TRUE, ![ws].role = role]
        paired == OpenBound(sk, Other(role)) # {}
    IN /\ sock' = sk
       /\ row' = Recorded(IF paired THEN "paired" ELSE "listener-bound")
       /\ heard' = IF paired THEN SafeSend(heard, {ws}, "peer_ready") ELSE heard
       /\ alarm' = NextAlarm(row', sk)
       /\ UNCHANGED now

\* The attachment is written and both parties are told, if there are two.  The
\* socket being bound counts as a party even if it is no longer OPEN.
Attach(ws, role) ==
    LET sk == [sock EXCEPT ![ws].bound = TRUE, ![ws].role = role]
        Party(r) == IF r = role THEN {ws} ELSE OpenBound(sk, r)
        listener == Party("listener")
        joiner == Party("joiner")
        paired == listener # {} /\ joiner # {}
        lifecycle == IF paired THEN "paired"
                     ELSE IF listener # {} THEN "listener-bound" ELSE "listener-created"
        acked == SafeSend(heard, {ws}, "bound")
    IN /\ sock' = sk
       /\ row' = Recorded(lifecycle)
       /\ heard' = IF paired THEN SafeSend(acked, listener \cup joiner, "peer_ready")
                   ELSE acked
       /\ alarm' = NextAlarm(row', sk)
       /\ UNCHANGED now

\* Mutant: the role's occupancy is not checked after the await.
CompleteBindUnchecked(ws, role) == Attach(ws, role)

\* The rest of bindSocket once the role is authenticated.  Of the row read before
\* the await it uses constants only, and it does not look at the lifecycle.
CompleteBind(ws, role) ==
    IF BoundSocket(role, {ws}) # {} THEN SendErrorAndClose(ws) ELSE Attach(ws, role)

\* Slots for one more suspended call of the socket.
FreeCalls(ws) == 1..MaxPendingBinds \ {v.call : v \in {u \in verifying : u.ws = ws}}

\* bindSocket up to the await; a joiner needs no verification.
BindSocket(ws, m) ==
    \/ /\ now > sock[ws].connectedAt + BindDeadline \/ m.type # "bind"
       /\ SendErrorAndClose(ws)
       /\ UNCHANGED verifying
    \/ /\ now <= sock[ws].connectedAt + BindDeadline
       /\ m.type = "bind"
       /\ \/ /\ m.role = "listener"
             /\ FreeCalls(ws) # {}
             /\ verifying' = verifying \cup
                   {[ws |-> ws, ok |-> m.secret = row.secret, call |-> Min(FreeCalls(ws))]}
             /\ UNCHANGED <<row, now, alarm, sock, heard>>
          \/ /\ m.role = "joiner"
             /\ CompleteBind(ws, "joiner")
             /\ UNCHANGED verifying

\* The digest is ready: bindSocket resumes, whatever happened in between.
VerifyListenerSecret(v) ==
    /\ v \in verifying
    /\ verifying' = verifying \ {v}
    /\ IF v.ok THEN CompleteBind(v.ws, "listener") ELSE SendErrorAndClose(v.ws)

\* Mutant: the answer may precede the offer.
LegalAnyAnswer(role, type) ==
    CASE type = "offer"  -> role = "joiner" /\ ~row.offer_seen
      [] type = "answer" -> role = "listener" /\ ~row.answer_seen
      [] OTHER           -> TRUE

Legal(role, type) ==
    CASE type = "offer"  -> role = "joiner" /\ ~row.offer_seen
      [] type = "answer" -> role = "listener" /\ row.offer_seen /\ ~row.answer_seen
      [] OTHER           -> TRUE

WithinLimits(role, type, bytes) ==
    /\ row.forwarded_bytes + bytes <= MaxForwardedBytes
    /\ type = "candidate" => row.candidates[role] < MaxCandidates

Forward(ws, type, bytes) ==
    LET role == sock[ws].role
        peers == BoundSocket(Other(role), {})
    IN IF peers # {} /\ Legal(role, type) /\ WithinLimits(role, type, bytes)
       THEN /\ row' = [row EXCEPT
                          !.forwarded_bytes = @ + bytes,
                          !.candidates[role] = IF type = "candidate" THEN @ + 1 ELSE @,
                          !.offer_seen = @ \/ type = "offer",
                          !.answer_seen = @ \/ type = "answer"]
            /\ \E peer \in peers : heard' = SafeSend(heard, {peer}, type)
            /\ UNCHANGED <<now, alarm, sock>>
       ELSE SendErrorAndClose(ws)

WebSocketMessage(ws, m, bytes) ==
    /\ ws \in Listed(sock)
    /\ \/ /\ ~Available
          /\ SendErrorAndClose(ws)
          /\ UNCHANGED verifying
       \/ /\ Available /\ Expired
          /\ ExpireRoom
          /\ UNCHANGED verifying
       \/ /\ Available /\ ~Expired
          /\ \/ /\ m.type = "invalid" \/ (sock[ws].bound /\ m.type = "bind")
                /\ SendErrorAndClose(ws)
                /\ UNCHANGED verifying
             \/ /\ m.type # "invalid" /\ ~sock[ws].bound
                /\ BindSocket(ws, m)
             \/ /\ m.type = "leave" /\ sock[ws].bound
                /\ CloseRoom("peer_left", {ws}, "peer_left")
                /\ sock' = ClosedSockets
                /\ UNCHANGED <<now, verifying>>
             \/ /\ m.type \in Payloads /\ sock[ws].bound
                /\ Forward(ws, m.type, bytes)
                /\ UNCHANGED verifying

\* webSocketClose: the connection has ended.  Whether getWebSockets still lists
\* the socket while its own close handler runs is up to the runtime.
WebSocketClose(ws, stillListed) ==
    /\ ws \in Listed(sock)
    /\ UNCHANGED <<now, verifying>>
    /\ IF sock[ws].bound
       THEN /\ CloseRoom("peer_left", {ws}, "peer_left")
            /\ sock' = [ClosedSockets EXCEPT ![ws].state = "gone"]
       ELSE /\ sock' = [sock EXCEPT ![ws].state = "gone"]
            /\ alarm' = NextAlarm(row, IF stillListed THEN sock ELSE sock')
            /\ UNCHANGED <<row, heard>>

WebSocketError(ws) ==
    /\ ws \in Listed(sock)
    /\ UNCHANGED <<now, verifying>>
    /\ IF sock[ws].bound
       THEN /\ CloseRoom("socket_error", {ws}, "peer_left")
            /\ sock' = [ClosedSockets EXCEPT ![ws].state = "gone"]
       ELSE /\ sock' = [sock EXCEPT ![ws].state = "gone"]
            /\ UNCHANGED <<row, alarm, heard>>

\* Mutant: the expiry is left to the next event that meets it.
AlarmNeverExpires ==
    /\ alarm # NoAlarm /\ alarm <= now
    /\ UNCHANGED verifying
    /\ LET late == {s \in Listed(sock) : /\ ~sock[s].bound
                                         /\ sock[s].connectedAt + BindDeadline <= now}
       IN /\ heard' = SafeSend(heard, late, "error")
          /\ sock' = SafeClose(sock, late)
    /\ alarm' = NextAlarm(row, sock')
    /\ UNCHANGED <<row, now>>

\* alarm(): the runtime clears the alarm when it delivers it.
Alarm ==
    /\ alarm # NoAlarm /\ alarm <= now
    /\ UNCHANGED verifying
    /\ \/ /\ ~Available
          /\ alarm' = NoAlarm
          /\ UNCHANGED <<row, now, sock, heard>>
       \/ /\ Available /\ Expired
          /\ ExpireRoom
       \/ /\ Available /\ ~Expired
          /\ LET late == {s \in Listed(sock) : /\ ~sock[s].bound
                                               /\ sock[s].connectedAt + BindDeadline <= now}
             IN /\ heard' = SafeSend(heard, late, "error")
                /\ sock' = SafeClose(sock, late)
          /\ alarm' = NextAlarm(row, sock')
          /\ UNCHANGED <<row, now>>

\* The platform drops the object's memory and its connections (a deployment, a
\* crash); the row and the alarm are persisted, suspended handlers are not.
Restart ==
    /\ sock' = [s \in Sockets |-> IF s \in Listed(sock)
                                  THEN [sock[s] EXCEPT !.state = "gone"] ELSE sock[s]]
    /\ verifying' = {}
    /\ UNCHANGED <<row, now, alarm, heard>>

Tick ==
    /\ now < MaxTime
    /\ now' = now + 1
    /\ UNCHANGED <<row, alarm, sock, verifying, heard>>

Next ==
    \/ \E c \in Secrets, t \in Times \ {0} : Initialize(c, t)
    \/ \E ws \in Sockets :
          \/ Fetch(ws)
          \/ \E m \in ClientMessages, b \in FrameSizes : WebSocketMessage(ws, m, b)
          \/ \E listed \in BOOLEAN : WebSocketClose(ws, listed)
          \/ WebSocketError(ws)
    \/ \E v \in verifying : VerifyListenerSecret(v)
    \/ Alarm
    \/ Restart
    \/ Tick

Spec == Init /\ [][Next]_vars

\* Time passes and the platform delivers a due alarm; nothing is asked of clients.
FairSpec == Spec /\ WF_vars(Tick) /\ WF_vars(Alarm)

-----------------------------------------------------------------------------
RowRecord ==
    [lifecycle : Lifecycles, expires_at : Times, secret : Secrets \cup {NoSecret},
     candidates : [Roles -> 0..MaxCandidates], forwarded_bytes : 0..MaxForwardedBytes,
     offer_seen : BOOLEAN, answer_seen : BOOLEAN,
     terminal_reason : {"none", "expired", "peer_left", "socket_error"}]

SocketRecord ==
    [state : {"unused", "open", "closing", "gone"}, connectedAt : Times,
     bound : BOOLEAN, role : Roles \cup {NoRole}]

\* The budgets of the row stay within MAX_SIGNAL_CANDIDATES_PER_PEER and
\* MAX_SIGNAL_FORWARDED_BYTES, and a suspended call belongs to a known socket.
TypeOK ==
    /\ row \in RowRecord
    /\ now \in Times
    /\ alarm \in Nat \cup {NoAlarm}
    /\ sock \in [Sockets -> SocketRecord]
    /\ verifying \subseteq [ws : Sockets, ok : BOOLEAN, call : 1..MaxPendingBinds]
    /\ heard \in [Sockets -> SUBSET Frames]

\* At no moment do two OPEN sockets hold the same role, although the occupancy
\* check of bindSocket comes after an await that lets other binds through.
OneOpenPerRole == \A r \in Roles : \A s, t \in OpenBound(sock, r) : s = t

\* A closed room keeps no OPEN socket and no alarm, even when a suspended
\* bindSocket resumes and reschedules after closeRoom has run.
ClosedShut ==
    row.lifecycle = "closed" => /\ alarm = NoAlarm
                                /\ \A s \in Sockets : sock[s].state # "open"

\* A live room always has an alarm set, no later than its expiry and than the
\* bind deadline of every OPEN socket that has not bound: no event sequence, and
\* no restart, leaves a room or an idle socket that nothing will ever close.
AlarmCovers ==
    Available =>
        /\ alarm # NoAlarm
        /\ alarm <= row.expires_at
        /\ \A s \in Sockets : sock[s].state = "open" /\ ~sock[s].bound =>
                                 alarm <= sock[s].connectedAt + BindDeadline

\* Two OPEN bound peers know of each other and the row says so.
PairedTold ==
    \A l \in OpenBound(sock, "listener"), j \in OpenBound(sock, "joiner") :
        /\ row.lifecycle = "paired"
        /\ "peer_ready" \in heard[l] \cap heard[j]

\* The row's secret and expiry are written once, its budgets are only consumed,
\* and a closed row never changes again: a repeated initialize, a resumed bind
\* or a frame of a closing socket cannot reopen or recycle a room.
RowHistory ==
    [][row.lifecycle # "none" =>
         /\ row'.secret = row.secret /\ row'.expires_at = row.expires_at
         /\ \A r \in Roles : row'.candidates[r] >= row.candidates[r]
         /\ row'.forwarded_bytes >= row.forwarded_bytes
         /\ row.offer_seen => row'.offer_seen
         /\ row.answer_seen => row'.answer_seen
         /\ row.lifecycle = "closed" => row' = row]_vars

\* Every room that was created is closed in the end, by its clients or by its
\* expiry alarm, if clocks advance and due alarms are delivered.
RoomEnds == Available ~> row.lifecycle = "closed"

\* The room as its users see it: who holds a role is its OPEN bound socket, and
\* the negotiation is what offer_seen and answer_seen record.
Phase(r) == IF r.lifecycle \in {"none", "closed"} THEN r.lifecycle ELSE "open"
TheOne(S) == IF S = {} THEN NoSocket ELSE CHOOSE s \in S : TRUE
Holder(sk) == [r \in Roles |-> TheOne(OpenBound(sk, r))]
Negotiation(r) ==
    IF r.answer_seen THEN "answered" ELSE IF r.offer_seen THEN "offered" ELSE "idle"

Contract ==
    INSTANCE RoomContract WITH
        phase <- Phase(row), holder <- Holder(sock), negotiation <- Negotiation(row)

\* The Durable Object implements the contract: every handler, whatever suspended
\* calls and closing sockets it meets, is a step the contract allows.
ImplementsContract == Contract!Spec
=============================================================================
