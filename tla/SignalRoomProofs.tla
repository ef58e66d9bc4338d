-------------------------- MODULE SignalRoomProofs --------------------------
(***************************************************************************)
(* Proofs about SignalRoom, for every number of sockets, every limit and   *)
(* every bound on the clock, and about RoomAllocation, for any number of   *)
(* requests, codes and attempts.                                           *)
(***************************************************************************)
EXTENDS SignalRoom, RoomAllocation, TLAPS, WellFoundedInduction

\* The limits are natural numbers.
LEMMA Limits ==
    /\ BindDeadline \in Nat /\ MaxTime \in Nat
    /\ MaxCandidates \in Nat /\ MaxForwardedBytes \in Nat /\ MaxPendingBinds \in Nat
  BY RoomAssumption

\* FiniteSetsExt!Min on sets of natural numbers, as scheduleNextAlarm uses it.
LEMMA MinOfNaturals ==
    ASSUME NEW S, S \subseteq Nat, S # {}
    PROVE  Min(S) \in S /\ \A y \in S : Min(S) <= y
<1> DEFINE R == OpToRel(<, Nat)
<1>1. \A a, b \in Nat : a < b => <<a, b>> \in R
  BY DEF OpToRel
<1>2. IsWellFoundedOn(R, Nat)
  BY NatLessThanWellFounded
<1> HIDE DEF R
<1>3. PICK x \in S : \A y \in S : ~(<<y, x>> \in R)
  <2>1. \E x \in S : \A y \in S : ~(<<y, x>> \in R)
    BY <1>2, WFMin, Zenon
  <2>2. QED
    BY <2>1
<1>4. \A y \in S : x <= y
  <2>1. \A y \in S : ~(y < x)
    BY <1>1, <1>3, Zenon
  <2>2. QED
    BY <2>1
<1>5. QED
  BY <1>4 DEF Min

\* What scheduleNextAlarm computes: no alarm for a room that is absent or
\* closed, else one no later than the expiry and every pending bind deadline.
LEMMA NextAlarmFacts ==
    ASSUME NEW r \in RowRecord, NEW sk \in [Sockets -> SocketRecord]
    PROVE  /\ r.lifecycle \in {"none", "closed"} => NextAlarm(r, sk) = NoAlarm
           /\ r.lifecycle \notin {"none", "closed"} =>
                /\ NextAlarm(r, sk) \in Nat
                /\ NextAlarm(r, sk) <= r.expires_at
                /\ \A s \in Listed(sk) : ~sk[s].bound =>
                      NextAlarm(r, sk) <= sk[s].connectedAt + BindDeadline
           /\ NextAlarm(r, sk) \in Nat \cup {NoAlarm}
<1> DEFINE D == {r.expires_at} \cup {sk[s].connectedAt + BindDeadline :
                                        s \in {t \in Listed(sk) : ~sk[t].bound}}
<1>1. D \subseteq Nat /\ D # {}
  <2>1. BindDeadline \in Nat /\ r.expires_at \in Nat
    BY Limits DEF RowRecord, Times
  <2>2. \A s \in Sockets : sk[s].connectedAt \in Nat
    BY Limits DEF SocketRecord, Times
  <2>3. QED
    BY <2>1, <2>2 DEF Listed
<1>2. Min(D) \in D /\ \A y \in D : Min(D) <= y
  BY <1>1, MinOfNaturals
<1>3. \A s \in Listed(sk) : ~sk[s].bound => sk[s].connectedAt + BindDeadline \in D
  OBVIOUS
<1>4. r.expires_at \in D
  OBVIOUS
<1>5. NextAlarm(r, sk) = IF r.lifecycle \in {"none", "closed"} THEN NoAlarm ELSE Min(D)
  BY DEF NextAlarm
<1> HIDE DEF D
<1>6. Min(D) \in Nat
  BY <1>1, <1>2
<1>7. QED
  BY <1>2, <1>3, <1>4, <1>5, <1>6

\* safeClose moves OPEN sockets of the set to closing and touches nothing else.
LEMMA SafeCloseFacts ==
    ASSUME NEW sk \in [Sockets -> SocketRecord], NEW S
    PROVE  /\ SafeClose(sk, S) \in [Sockets -> SocketRecord]
           /\ \A s \in Sockets :
                /\ SafeClose(sk, S)[s].state = IF s \in S /\ sk[s].state = "open"
                                               THEN "closing" ELSE sk[s].state
                /\ SafeClose(sk, S)[s].bound = sk[s].bound
                /\ SafeClose(sk, S)[s].role = sk[s].role
                /\ SafeClose(sk, S)[s].connectedAt = sk[s].connectedAt
  BY DEF SafeClose, SocketRecord

\* safeSend only ever adds frames of the recorded kinds.
LEMMA SafeSendType ==
    ASSUME NEW h \in [Sockets -> SUBSET Frames], NEW S, NEW frame
    PROVE  SafeSend(h, S, frame) \in [Sockets -> SUBSET Frames]
  BY DEF SafeSend

-----------------------------------------------------------------------------
LEMMA InitType == Init => TypeOK
  BY Limits DEF Init, TypeOK, NoRow, RowRecord, Fresh, SocketRecord, Times, NoAlarm,
     Lifecycles, Roles, NoRole, Frames

LEMMA SendErrorAndCloseType ==
    ASSUME TypeOK, NEW ws \in Sockets, SendErrorAndClose(ws)
    PROVE  /\ row' \in RowRecord /\ now' \in Times /\ alarm' \in Nat \cup {NoAlarm}
           /\ sock' \in [Sockets -> SocketRecord] /\ heard' \in [Sockets -> SUBSET Frames]
  BY SafeCloseFacts, SafeSendType DEF SendErrorAndClose, TypeOK

LEMMA ClosingType ==
    ASSUME TypeOK, NEW reason \in {"expired", "peer_left", "socket_error"}, NEW source,
           NEW frame, CloseRoom(reason, source, frame)
    PROVE  /\ row' \in RowRecord /\ alarm' \in Nat \cup {NoAlarm}
           /\ heard' \in [Sockets -> SUBSET Frames]
           /\ ClosedSockets \in [Sockets -> SocketRecord]
<1>1. row' \in RowRecord
  BY DEF CloseRoom, TypeOK, RowRecord, Lifecycles
<1>2. QED
  BY <1>1, SafeCloseFacts, SafeSendType DEF CloseRoom, ClosedSockets, TypeOK

LEMMA CompleteBindType ==
    ASSUME TypeOK, NEW ws \in Sockets, NEW role \in Roles, CompleteBind(ws, role)
    PROVE  /\ row' \in RowRecord /\ now' \in Times /\ alarm' \in Nat \cup {NoAlarm}
           /\ sock' \in [Sockets -> SocketRecord] /\ heard' \in [Sockets -> SUBSET Frames]
<1>1. CASE SendErrorAndClose(ws)
  BY <1>1, SendErrorAndCloseType
<1>2. CASE Attach(ws, role)
  <2>1. sock' \in [Sockets -> SocketRecord]
    BY <1>2 DEF Attach, TypeOK, SocketRecord
  <2>2. row' \in RowRecord
    BY <1>2 DEF Attach, Recorded, TypeOK, RowRecord, Lifecycles
  <2>3. alarm' = NextAlarm(row', sock')
    BY <1>2 DEF Attach
  <2>4. heard' \in [Sockets -> SUBSET Frames]
    BY <1>2, SafeSendType DEF Attach, TypeOK
  <2>5. QED
    BY <1>2, <2>1, <2>2, <2>3, <2>4, NextAlarmFacts DEF Attach, TypeOK
<1>3. QED
  BY <1>1, <1>2 DEF CompleteBind

LEMMA BindSocketType ==
    ASSUME TypeOK, NEW ws \in Sockets, NEW m \in ClientMessages, BindSocket(ws, m)
    PROVE  TypeOK'
<1>1. CASE SendErrorAndClose(ws) /\ UNCHANGED verifying
  BY <1>1, SendErrorAndCloseType DEF TypeOK
<1>2. CASE /\ FreeCalls(ws) # {}
           /\ verifying' = verifying \cup
                 {[ws |-> ws, ok |-> m.secret = row.secret, call |-> Min(FreeCalls(ws))]}
           /\ UNCHANGED <<row, now, alarm, sock, heard>>
  <2>1. FreeCalls(ws) \subseteq 1..MaxPendingBinds /\ FreeCalls(ws) \subseteq Nat
    BY Limits DEF FreeCalls
  <2>2. Min(FreeCalls(ws)) \in 1..MaxPendingBinds
    BY <1>2, <2>1, MinOfNaturals
  <2>3. verifying' \subseteq [ws : Sockets, ok : BOOLEAN, call : 1..MaxPendingBinds]
    <3> DEFINE ok == m.secret = row.secret
    <3>1. ok \in BOOLEAN
      OBVIOUS
    <3>2. verifying' = verifying \cup {[ws |-> ws, ok |-> ok, call |-> Min(FreeCalls(ws))]}
      BY <1>2
    <3> HIDE DEF ok
    <3>3. QED
      BY <2>2, <3>1, <3>2 DEF TypeOK
  <2>4. QED
    BY <1>2, <2>3 DEF TypeOK
<1>3. CASE CompleteBind(ws, "joiner") /\ UNCHANGED verifying
  <2>1. "joiner" \in Roles
    BY DEF Roles
  <2>2. QED
    BY <1>3, <2>1, CompleteBindType DEF TypeOK
<1>4. QED
  BY <1>1, <1>2, <1>3 DEF BindSocket

LEMMA ForwardType ==
    ASSUME TypeOK, NEW ws \in Sockets, NEW type, NEW bytes \in FrameSizes,
           sock[ws].bound, Forward(ws, type, bytes), UNCHANGED verifying
    PROVE  TypeOK'
<1> DEFINE role == sock[ws].role
<1>1. CASE SendErrorAndClose(ws)
  BY <1>1, SendErrorAndCloseType DEF TypeOK
<1>2. CASE /\ WithinLimits(role, type, bytes)
           /\ row' = [row EXCEPT
                         !.forwarded_bytes = @ + bytes,
                         !.candidates[role] = IF type = "candidate" THEN @ + 1 ELSE @,
                         !.offer_seen = @ \/ type = "offer",
                         !.answer_seen = @ \/ type = "answer"]
           /\ \E peer \in BoundSocket(Other(role), {}) : heard' = SafeSend(heard, {peer}, type)
           /\ UNCHANGED <<now, alarm, sock>>
  <2>1. bytes \in Nat
    BY RoomAssumption
  <2>2. row'.forwarded_bytes \in 0..MaxForwardedBytes
    BY <1>2, <2>1, Limits DEF WithinLimits, TypeOK, RowRecord
  <2>3. row'.candidates \in [Roles -> 0..MaxCandidates]
    <3>1. row.candidates \in [Roles -> 0..MaxCandidates]
      BY DEF TypeOK, RowRecord
    <3>2. row'.candidates = [row.candidates EXCEPT
                               ![role] = IF type = "candidate" THEN @ + 1 ELSE @]
      BY <1>2 DEF TypeOK, RowRecord
    <3>3. type = "candidate" => row.candidates[role] < MaxCandidates
      BY <1>2 DEF WithinLimits
    <3> HIDE DEF role
    <3>4. CASE type = "candidate" /\ role \in Roles
      <4>1. row.candidates[role] + 1 \in 0..MaxCandidates
        BY <3>1, <3>3, <3>4, Limits
      <4>2. QED
        BY <3>1, <3>2, <3>4, <4>1
    <3>5. CASE type # "candidate" \/ role \notin Roles
      BY <3>1, <3>2, <3>5
    <3>6. QED
      BY <3>4, <3>5
  <2>4. row' \in RowRecord
    BY <1>2, <2>2, <2>3 DEF TypeOK, RowRecord
  <2>5. heard' \in [Sockets -> SUBSET Frames]
    BY <1>2, SafeSendType DEF TypeOK
  <2>6. QED
    BY <1>2, <2>4, <2>5 DEF TypeOK
<1>3. QED
  BY <1>1, <1>2 DEF Forward

LEMMA MessageType ==
    ASSUME TypeOK, NEW ws \in Sockets, NEW m \in ClientMessages, NEW bytes \in FrameSizes,
           WebSocketMessage(ws, m, bytes)
    PROVE  TypeOK'
<1>1. CASE SendErrorAndClose(ws) /\ UNCHANGED verifying
  BY <1>1, SendErrorAndCloseType DEF TypeOK
<1>2. CASE ExpireRoom /\ UNCHANGED verifying
  BY <1>2, ClosingType DEF ExpireRoom, TypeOK
<1>3. CASE BindSocket(ws, m)
  BY <1>3, BindSocketType
<1>4. CASE /\ CloseRoom("peer_left", {ws}, "peer_left")
           /\ sock' = ClosedSockets
           /\ UNCHANGED <<now, verifying>>
  BY <1>4, ClosingType DEF TypeOK
<1>5. CASE sock[ws].bound /\ Forward(ws, m.type, bytes) /\ UNCHANGED verifying
  BY <1>5, ForwardType
<1>6. QED
  BY <1>1, <1>2, <1>3, <1>4, <1>5 DEF WebSocketMessage

LEMMA CloseType ==
    ASSUME TypeOK, NEW ws \in Sockets,
           WebSocketError(ws) \/ \E listed \in BOOLEAN : WebSocketClose(ws, listed)
    PROVE  TypeOK'
<1> DEFINE Gone == [sock EXCEPT ![ws].state = "gone"]
<1>1. /\ Gone \in [Sockets -> SocketRecord]
      /\ ClosedSockets \in [Sockets -> SocketRecord] =>
            [ClosedSockets EXCEPT ![ws].state = "gone"] \in [Sockets -> SocketRecord]
  BY DEF TypeOK, SocketRecord
<1>2. CASE /\ \E reason \in {"peer_left", "socket_error"} : CloseRoom(reason, {ws}, "peer_left")
           /\ sock' = [ClosedSockets EXCEPT ![ws].state = "gone"]
           /\ UNCHANGED <<now, verifying>>
  BY <1>1, <1>2, ClosingType DEF TypeOK
<1>3. CASE /\ sock' = Gone
           /\ alarm' \in {alarm, NextAlarm(row, sock), NextAlarm(row, sock')}
           /\ UNCHANGED <<row, now, verifying, heard>>
  <2>1. alarm' \in Nat \cup {NoAlarm}
    BY <1>1, <1>3, NextAlarmFacts DEF TypeOK
  <2>2. QED
    BY <1>1, <1>3, <2>1 DEF TypeOK
<1>4. QED
  BY <1>2, <1>3 DEF WebSocketClose, WebSocketError

LEMMA StepType == TypeOK /\ [Next]_vars => TypeOK'
<1> SUFFICES ASSUME TypeOK, [Next]_vars PROVE TypeOK'
  OBVIOUS
<1>1. ASSUME NEW c \in Secrets, NEW t \in Times \ {0}, Initialize(c, t) PROVE TypeOK'
  <2>1. row' \in RowRecord
    <3>1. NoRow \in RowRecord
      BY Limits DEF NoRow, RowRecord, Lifecycles, Times
    <3>2. [NoRow EXCEPT !.lifecycle = "listener-created", !.expires_at = t, !.secret = c]
            \in RowRecord
      BY <3>1 DEF RowRecord, Lifecycles
    <3>3. QED
      BY <1>1, <3>2 DEF Initialize, TypeOK
  <2>2. t \in Nat
    BY Limits DEF Times
  <2>3. QED
    BY <1>1, <2>1, <2>2 DEF Initialize, TypeOK
<1>2. ASSUME NEW ws \in Sockets, Fetch(ws) PROVE TypeOK'
  <2>1. CASE ExpireRoom
    BY <1>2, <2>1, ClosingType DEF Fetch, ExpireRoom, TypeOK
  <2>2. CASE /\ sock' = [sock EXCEPT ![ws] = [Fresh EXCEPT !.state = "open", !.connectedAt = now]]
             /\ alarm' = NextAlarm(row, sock')
             /\ UNCHANGED <<row, heard>>
    <3>1. sock' \in [Sockets -> SocketRecord]
      BY <2>2 DEF TypeOK, Fresh, SocketRecord
    <3>2. QED
      BY <1>2, <2>2, <3>1, NextAlarmFacts DEF Fetch, TypeOK
  <2>3. QED
    BY <1>2, <2>1, <2>2 DEF Fetch
<1>3. ASSUME NEW ws \in Sockets, NEW m \in ClientMessages, NEW b \in FrameSizes,
             WebSocketMessage(ws, m, b)
      PROVE TypeOK'
  BY <1>3, MessageType
<1>4. ASSUME NEW ws \in Sockets,
             WebSocketError(ws) \/ \E listed \in BOOLEAN : WebSocketClose(ws, listed)
      PROVE TypeOK'
  BY <1>4, CloseType
<1>5. ASSUME NEW v \in verifying, VerifyListenerSecret(v) PROVE TypeOK'
  <2>1. v.ws \in Sockets /\ "listener" \in Roles
    BY DEF TypeOK, Roles
  <2>2. QED
    BY <1>5, <2>1, CompleteBindType, SendErrorAndCloseType DEF VerifyListenerSecret, TypeOK
<1>6. CASE Alarm
  <2>1. CASE ExpireRoom
    BY <1>6, <2>1, ClosingType DEF Alarm, ExpireRoom, TypeOK
  <2>2. CASE alarm' = NoAlarm /\ UNCHANGED <<row, now, sock, heard>>
    BY <1>6, <2>2 DEF Alarm, TypeOK
  <2>3. CASE /\ \E late : heard' = SafeSend(heard, late, "error") /\ sock' = SafeClose(sock, late)
             /\ alarm' = NextAlarm(row, sock')
             /\ UNCHANGED <<row, now>>
    <3>1. sock' \in [Sockets -> SocketRecord] /\ heard' \in [Sockets -> SUBSET Frames]
      BY <2>3, SafeCloseFacts, SafeSendType DEF TypeOK
    <3>2. QED
      BY <1>6, <2>3, <3>1, NextAlarmFacts DEF Alarm, TypeOK
  <2>4. QED
    BY <1>6, <2>1, <2>2, <2>3 DEF Alarm
<1>7. CASE Restart
  BY <1>7 DEF Restart, TypeOK, SocketRecord
<1>8. CASE Tick
  BY <1>8, Limits DEF Tick, TypeOK, Times
<1>9. CASE UNCHANGED vars
  BY <1>9 DEF vars, TypeOK
<1>10. QED
  BY <1>1, <1>2, <1>3, <1>4, <1>5, <1>6, <1>7, <1>8, <1>9 DEF Next

\* Every reachable state of a room is well formed: in particular the candidate
\* and byte budgets of forward() are never exceeded, whatever the limits are.
THEOREM TypeCorrect == Spec => []TypeOK
<1>1. QED
  BY InitType, StepType, PTL DEF Spec

-----------------------------------------------------------------------------
\* Nothing is connected or suspended before initialize() has written the row.
EmptyUntilCreated ==
    row.lifecycle = "none" => /\ verifying = {}
                              /\ \A s \in Sockets : sock[s].state = "unused"

\* The inductive invariant of the room's safety argument.
Safety == /\ TypeOK /\ EmptyUntilCreated
          /\ OneOpenPerRole /\ ClosedShut /\ AlarmCovers

\* A step that opens and binds no socket.
OnlyCloses ==
    \A s \in Sockets : /\ sock'[s].state = "open" => sock[s].state = "open"
                       /\ sock[s].state = "unused" => sock'[s].state = "unused"
                       /\ sock'[s].bound = sock[s].bound
                       /\ sock'[s].role = sock[s].role
                       /\ sock'[s].connectedAt = sock[s].connectedAt

\* A step that only closes sockets and keeps the lifecycle and the expiry
\* preserves the invariant, if it keeps the alarm or reschedules it.
LEMMA OnlyClosesKeeps ==
    ASSUME Safety, TypeOK', OnlyCloses,
           row'.lifecycle = row.lifecycle, row'.expires_at = row.expires_at,
           alarm' \in {alarm, NextAlarm(row, sock), NextAlarm(row, sock')},
           verifying' \subseteq verifying \/ row.lifecycle # "none"
    PROVE  Safety'
<1>1. EmptyUntilCreated'
  BY DEF Safety, EmptyUntilCreated, OnlyCloses
<1>2. OneOpenPerRole'
  BY DEF Safety, OneOpenPerRole, OpenBound, OnlyCloses
<1>3. ClosedShut'
  <2>1. row.lifecycle = "closed" => alarm' = NoAlarm
    BY NextAlarmFacts DEF Safety, ClosedShut, TypeOK
  <2>2. QED
    BY <2>1 DEF Safety, ClosedShut, OnlyCloses
<1>4. AlarmCovers'
  <2> SUFFICES ASSUME Available'
               PROVE  /\ alarm' \in Nat
                      /\ alarm' <= row'.expires_at
                      /\ \A s \in Sockets : sock'[s].state = "open" /\ ~sock'[s].bound =>
                             alarm' <= sock'[s].connectedAt + BindDeadline
    BY DEF AlarmCovers, NoAlarm
  <2>1. Available
    BY DEF Available
  <2>2. CASE alarm' = alarm
    BY <2>1, <2>2 DEF Safety, AlarmCovers, OnlyCloses, TypeOK
  <2>3. CASE alarm' = NextAlarm(row, sock)
    BY <2>1, <2>3, NextAlarmFacts DEF Safety, Available, OnlyCloses, TypeOK, Listed
  <2>4. CASE alarm' = NextAlarm(row, sock')
    BY <2>1, <2>4, NextAlarmFacts DEF Safety, Available, OnlyCloses, TypeOK, Listed
  <2>5. QED
    BY <2>2, <2>3, <2>4
<1>5. QED
  BY <1>1, <1>2, <1>3, <1>4 DEF Safety

\* closeRoom establishes what the invariant asks of a closed room.
LEMMA ClosedKeeps ==
    ASSUME TypeOK', row'.lifecycle = "closed", alarm' = NoAlarm,
           \A s \in Sockets : sock'[s].state # "open"
    PROVE  Safety'
  BY DEF Safety, EmptyUntilCreated, OneOpenPerRole, OpenBound, ClosedShut, AlarmCovers, Available

LEMMA ClosingKeeps ==
    ASSUME Safety, TypeOK', Available,
           NEW reason, NEW source, NEW frame, CloseRoom(reason, source, frame),
           \/ sock' = ClosedSockets
           \/ \E ws \in Sockets : sock' = [ClosedSockets EXCEPT ![ws].state = "gone"]
    PROVE  Safety'
<1>1. row'.lifecycle = "closed" /\ alarm' = NoAlarm
  BY DEF CloseRoom, Safety, TypeOK, RowRecord
<1>2. /\ ClosedSockets \in [Sockets -> SocketRecord]
      /\ \A s \in Sockets : ClosedSockets[s].state # "open"
  BY SafeCloseFacts DEF ClosedSockets, Listed, Safety, TypeOK
<1>3. \A s \in Sockets : sock'[s].state # "open"
  BY <1>2 DEF SocketRecord
<1>4. QED
  BY <1>1, <1>3, ClosedKeeps

LEMMA ErrorKeeps ==
    ASSUME Safety, TypeOK', NEW ws \in Sockets, SendErrorAndClose(ws),
           verifying' \subseteq verifying
    PROVE  Safety'
<1>1. OnlyCloses
  BY SafeCloseFacts DEF SendErrorAndClose, OnlyCloses, Safety, TypeOK
<1>2. QED
  BY <1>1, OnlyClosesKeeps DEF SendErrorAndClose

\* Binding is safe although the room may have closed, and the socket may have
\* died, while bindSocket was suspended.
LEMMA AttachKeeps ==
    ASSUME Safety, TypeOK', NEW ws \in Sockets, NEW role \in Roles,
           row.lifecycle # "none", BoundSocket(role, {ws}) = {}, Attach(ws, role)
    PROVE  Safety'
<1>1. /\ sock' = [sock EXCEPT ![ws].bound = TRUE, ![ws].role = role]
      /\ alarm' = NextAlarm(row', sock')
  BY DEF Attach
<1>2. /\ row.lifecycle = "closed" <=> row'.lifecycle = "closed"
      /\ row'.lifecycle # "none"
  BY DEF Attach, Recorded, Safety, TypeOK, RowRecord
<1>3. \A s \in Sockets : /\ sock'[s].state = sock[s].state
                         /\ s # ws => sock'[s] = sock[s]
  BY <1>1 DEF Safety, TypeOK, SocketRecord
<1>4. sock'[ws].role = role
  BY <1>1 DEF Safety, TypeOK, SocketRecord
<1>5. OneOpenPerRole'
  <2> SUFFICES ASSUME NEW r \in Roles, NEW s \in OpenBound(sock', r), NEW t \in OpenBound(sock', r)
               PROVE  s = t
    BY DEF OneOpenPerRole
  <2>1. CASE r = role
    <3>1. \A u \in OpenBound(sock', r) : u = ws
      BY <1>3, <2>1 DEF OpenBound, BoundSocket
    <3>2. QED
      BY <3>1
  <2>2. CASE r # role
    <3>1. \A u \in OpenBound(sock', r) : u \in OpenBound(sock, r)
      BY <1>3, <1>4, <2>2 DEF OpenBound
    <3>2. QED
      BY <3>1 DEF Safety, OneOpenPerRole
  <2>3. QED
    BY <2>1, <2>2
<1>6. EmptyUntilCreated' /\ ClosedShut'
  BY <1>1, <1>2, <1>3, NextAlarmFacts DEF EmptyUntilCreated, ClosedShut, Safety, TypeOK
<1>7. AlarmCovers'
  <2> SUFFICES ASSUME Available' PROVE AlarmCovers'
    BY DEF AlarmCovers
  <2>1. /\ alarm' \in Nat
        /\ alarm' <= row'.expires_at
        /\ \A s \in Listed(sock') : ~sock'[s].bound =>
                                  alarm' <= sock'[s].connectedAt + BindDeadline
    BY <1>1, NextAlarmFacts DEF Available, TypeOK
  <2>2. QED
    BY <2>1 DEF AlarmCovers, Listed, NoAlarm
<1>8. QED
  BY <1>5, <1>6, <1>7 DEF Safety

LEMMA CompleteBindKeeps ==
    ASSUME Safety, TypeOK', NEW ws \in Sockets, NEW role \in Roles,
           row.lifecycle # "none", CompleteBind(ws, role), verifying' \subseteq verifying
    PROVE  Safety'
  BY AttachKeeps, ErrorKeeps DEF CompleteBind

LEMMA MessageKeeps ==
    ASSUME Safety, TypeOK', NEW ws \in Sockets, NEW m \in ClientMessages,
           NEW bytes \in FrameSizes, WebSocketMessage(ws, m, bytes)
    PROVE  Safety'
<1>0. row.lifecycle # "none"
  BY DEF WebSocketMessage, Safety, EmptyUntilCreated, Listed
<1>1. CASE SendErrorAndClose(ws) /\ UNCHANGED verifying
  BY <1>1, ErrorKeeps
<1>2. CASE Available /\ ExpireRoom
  BY <1>2, ClosingKeeps DEF ExpireRoom
<1>3. CASE BindSocket(ws, m)
  <2>1. CASE CompleteBind(ws, "joiner") /\ UNCHANGED verifying
    BY <1>0, <2>1, CompleteBindKeeps DEF Roles
  <2>2. CASE UNCHANGED <<row, now, alarm, sock, heard>>
    <3>1. OnlyCloses
      BY <2>2 DEF OnlyCloses
    <3>2. QED
      BY <1>0, <2>2, <3>1, OnlyClosesKeeps
  <2>3. QED
    BY <1>3, <2>1, <2>2, ErrorKeeps DEF BindSocket
<1>4. CASE /\ Available
           /\ CloseRoom("peer_left", {ws}, "peer_left")
           /\ sock' = ClosedSockets
  BY <1>4, ClosingKeeps
<1>5. CASE Forward(ws, m.type, bytes) /\ UNCHANGED verifying
  <2>1. CASE SendErrorAndClose(ws)
    BY <1>5, <2>1, ErrorKeeps
  <2>2. CASE ~SendErrorAndClose(ws)
    <3>1. /\ row'.lifecycle = row.lifecycle /\ row'.expires_at = row.expires_at
          /\ UNCHANGED <<alarm, sock>>
      BY <1>5, <2>2 DEF Forward, Safety, TypeOK, RowRecord
    <3>2. OnlyCloses
      BY <3>1 DEF OnlyCloses
    <3>3. QED
      BY <1>0, <3>1, <3>2, OnlyClosesKeeps
  <2>3. QED
    BY <2>1, <2>2
<1>6. QED
  BY <1>1, <1>2, <1>3, <1>4, <1>5 DEF WebSocketMessage

LEMMA DisconnectKeeps ==
    ASSUME Safety, TypeOK', NEW ws \in Sockets,
           WebSocketError(ws) \/ \E listed \in BOOLEAN : WebSocketClose(ws, listed)
    PROVE  Safety'
<1>1. CASE sock[ws].bound /\ Available
  BY <1>1, ClosingKeeps DEF WebSocketError, WebSocketClose
<1>2. CASE /\ ~(sock[ws].bound /\ Available)
           /\ sock' = [sock EXCEPT ![ws].state = "gone"] /\ UNCHANGED row
  <2>1. OnlyCloses
    BY <1>2 DEF OnlyCloses, Safety, TypeOK, SocketRecord, WebSocketError, WebSocketClose, Listed
  <2>2. alarm' \in {alarm, NextAlarm(row, sock), NextAlarm(row, sock')}
    BY <1>2 DEF WebSocketError, WebSocketClose, CloseRoom
  <2>3. QED
    BY <1>2, <2>1, <2>2, OnlyClosesKeeps DEF WebSocketError, WebSocketClose
<1>3. CASE sock[ws].bound /\ ~Available
  BY <1>2, <1>3 DEF WebSocketError, WebSocketClose, CloseRoom, ClosedSockets
<1>4. CASE ~sock[ws].bound
  BY <1>2, <1>4 DEF WebSocketError, WebSocketClose
<1>5. QED
  BY <1>1, <1>3, <1>4 DEF Safety, TypeOK, SocketRecord

LEMMA StepSafety == Safety /\ [Next]_vars => Safety'
<1> SUFFICES ASSUME Safety, [Next]_vars PROVE Safety'
  OBVIOUS
<1>0. TypeOK'
  BY StepType DEF Safety
<1>1. ASSUME NEW c \in Secrets, NEW t \in Times \ {0}, Initialize(c, t) PROVE Safety'
  <2>1. CASE row.lifecycle = "none"
    <3>1. row'.lifecycle = "listener-created" /\ row'.expires_at = t /\ alarm' = t
      BY <1>1, <2>1 DEF Initialize, NoRow
    <3>2. t \in Nat
      BY Limits DEF Times
    <3>3. \A s \in Sockets : sock'[s].state = "unused"
      BY <1>1, <2>1 DEF Initialize, Safety, EmptyUntilCreated
    <3>4. QED
      BY <1>0, <3>1, <3>2, <3>3 DEF Safety, EmptyUntilCreated, OneOpenPerRole, OpenBound,
         ClosedShut, AlarmCovers, Available, NoAlarm
  <2>2. CASE row.lifecycle # "none"
    <3>1. OnlyCloses /\ UNCHANGED <<row, alarm, verifying>>
      BY <1>1, <2>2 DEF Initialize, OnlyCloses
    <3>2. QED
      BY <1>0, <3>1, OnlyClosesKeeps
  <2>3. QED
    BY <2>1, <2>2
<1>2. ASSUME NEW ws \in Sockets, Fetch(ws) PROVE Safety'
  <2>1. CASE ExpireRoom
    BY <1>0, <1>2, <2>1, ClosingKeeps DEF Fetch, ExpireRoom
  <2>2. CASE /\ sock' = [sock EXCEPT ![ws] = [Fresh EXCEPT !.state = "open", !.connectedAt = now]]
             /\ alarm' = NextAlarm(row, sock')
             /\ UNCHANGED <<row, heard>>
    <3>1. ~sock'[ws].bound /\ \A s \in Sockets : s # ws => sock'[s] = sock[s]
      BY <2>2 DEF Safety, TypeOK, Fresh
    <3>2. OneOpenPerRole'
      BY <3>1 DEF Safety, OneOpenPerRole, OpenBound
    <3>3. Available /\ Available'
      BY <1>2, <2>2 DEF Fetch, Available
    <3>4. /\ alarm' \in Nat
          /\ alarm' <= row'.expires_at
          /\ \A s \in Listed(sock') : ~sock'[s].bound =>
                                    alarm' <= sock'[s].connectedAt + BindDeadline
      BY <1>0, <2>2, <3>3, NextAlarmFacts DEF Available, TypeOK
    <3>5. AlarmCovers'
      BY <3>4 DEF AlarmCovers, Listed, NoAlarm
    <3>6. QED
      BY <1>0, <3>2, <3>3, <3>5 DEF Safety, EmptyUntilCreated, ClosedShut, Available
  <2>3. QED
    BY <1>2, <2>1, <2>2 DEF Fetch
<1>3. ASSUME NEW ws \in Sockets, NEW m \in ClientMessages, NEW b \in FrameSizes,
             WebSocketMessage(ws, m, b)
      PROVE Safety'
  BY <1>0, <1>3, MessageKeeps
<1>4. ASSUME NEW ws \in Sockets,
             WebSocketError(ws) \/ \E listed \in BOOLEAN : WebSocketClose(ws, listed)
      PROVE Safety'
  BY <1>0, <1>4, DisconnectKeeps
<1>5. ASSUME NEW v \in verifying, VerifyListenerSecret(v) PROVE Safety'
  <2>1. v.ws \in Sockets /\ "listener" \in Roles /\ row.lifecycle # "none"
    BY DEF Safety, EmptyUntilCreated, TypeOK, Roles
  <2>2. verifying' \subseteq verifying
    BY <1>5 DEF VerifyListenerSecret
  <2>3. QED
    BY <1>0, <1>5, <2>1, <2>2, CompleteBindKeeps, ErrorKeeps DEF VerifyListenerSecret
<1>6. CASE Alarm
  <2>1. CASE Available /\ ExpireRoom
    BY <1>0, <2>1, ClosingKeeps DEF ExpireRoom
  <2>2. CASE ~Available
    <3>1. alarm = NoAlarm \/ row.lifecycle = "none"
      BY <2>2 DEF Safety, ClosedShut, Available
    <3>2. OnlyCloses
      BY <1>6, <2>2 DEF Alarm, OnlyCloses
    <3>3. alarm' = NextAlarm(row, sock) /\ UNCHANGED <<row, verifying>>
      BY <1>6, <2>2, NextAlarmFacts DEF Alarm, Safety, TypeOK, Available
    <3>4. QED
      BY <1>0, <3>2, <3>3, OnlyClosesKeeps
  <2>3. CASE Available /\ ~Expired
    <3>1. OnlyCloses
      BY <1>6, <2>3, SafeCloseFacts DEF Alarm, OnlyCloses, Safety, TypeOK
    <3>2. QED
      BY <1>0, <1>6, <2>3, <3>1, OnlyClosesKeeps DEF Alarm
  <2>4. QED
    BY <1>6, <2>1, <2>2, <2>3 DEF Alarm
<1>7. CASE Restart
  <2>1. OnlyCloses
    BY <1>7 DEF Restart, OnlyCloses, Listed, Safety, TypeOK, SocketRecord
  <2>2. QED
    BY <1>0, <1>7, <2>1, OnlyClosesKeeps DEF Restart
<1>8. CASE Tick \/ UNCHANGED vars
  <2>1. OnlyCloses /\ UNCHANGED <<row, alarm, verifying>>
    BY <1>8 DEF Tick, vars, OnlyCloses
  <2>2. QED
    BY <1>0, <2>1, OnlyClosesKeeps
<1>9. QED
  BY <1>1, <1>2, <1>3, <1>4, <1>5, <1>6, <1>7, <1>8 DEF Next

LEMMA InitSafety == Init => Safety
  BY InitType DEF Init, Safety, EmptyUntilCreated, OneOpenPerRole, OpenBound, ClosedShut,
     AlarmCovers, Available, NoRow, Fresh

LEMMA Invariant == Spec => []Safety
<1>1. QED
  BY InitSafety, StepSafety, PTL DEF Spec

\* No interleaving of binds lets two OPEN sockets hold one role.
THEOREM RolesExclusive == Spec => []OneOpenPerRole
<1>1. Safety => OneOpenPerRole
  BY DEF Safety
<1>2. QED
  BY <1>1, Invariant, PTL

\* A closed room stays shut: no OPEN socket and no alarm survive closeRoom.
THEOREM ClosedRoomsShut == Spec => []ClosedShut
<1>1. Safety => ClosedShut
  BY DEF Safety
<1>2. QED
  BY <1>1, Invariant, PTL

\* Every live room and every idle socket is covered by the pending alarm.
THEOREM AlarmAlwaysCovers == Spec => []AlarmCovers
<1>1. Safety => AlarmCovers
  BY DEF Safety
<1>2. QED
  BY <1>1, Invariant, PTL

-----------------------------------------------------------------------------
\* A step that binds no socket and takes no frame back.
HeardGrows == \A s \in Sockets : heard[s] \subseteq heard'[s]
BindsNobody == \A r \in Roles : OpenBound(sock', r) \subseteq OpenBound(sock, r)

\* safeSend takes no frame back.
LEMMA SafeSendGrows ==
    ASSUME NEW h \in [Sockets -> SUBSET Frames], NEW S, NEW frame, NEW s \in Sockets
    PROVE  h[s] \subseteq SafeSend(h, S, frame)[s]
  BY DEF SafeSend

\* Such a step keeps what a pair was told, if it keeps the lifecycle or leaves no
\* socket OPEN.
LEMMA PairKept ==
    ASSUME PairedTold, HeardGrows, BindsNobody,
           row'.lifecycle = row.lifecycle \/ \A s \in Sockets : sock'[s].state # "open"
    PROVE  PairedTold'
<1>1. "listener" \in Roles /\ "joiner" \in Roles
  BY DEF Roles
<1>2. CASE row'.lifecycle = row.lifecycle
  <2> SUFFICES ASSUME NEW l \in OpenBound(sock', "listener"), NEW j \in OpenBound(sock', "joiner")
               PROVE  row'.lifecycle = "paired" /\ "peer_ready" \in heard'[l] \cap heard'[j]
    BY DEF PairedTold
  <2>1. l \in OpenBound(sock, "listener") /\ j \in OpenBound(sock, "joiner")
    BY <1>1 DEF BindsNobody
  <2>2. l \in Sockets /\ j \in Sockets
    BY <2>1 DEF OpenBound
  <2>3. QED
    BY <1>2, <2>1, <2>2 DEF PairedTold, HeardGrows
<1>3. CASE \A s \in Sockets : sock'[s].state # "open"
  BY <1>3 DEF PairedTold, OpenBound
<1>4. QED
  BY <1>2, <1>3

\* A step that only closes sockets binds nobody.
LEMMA OnlyClosesBindsNobody ==
    ASSUME OnlyCloses PROVE BindsNobody
  BY DEF OnlyCloses, BindsNobody, OpenBound

LEMMA ErrorPaired ==
    ASSUME Safety, PairedTold, NEW ws \in Sockets, SendErrorAndClose(ws)
    PROVE  PairedTold'
<1>1. OnlyCloses
  BY SafeCloseFacts DEF SendErrorAndClose, OnlyCloses, Safety, TypeOK
<1>2. HeardGrows
  BY SafeSendGrows DEF SendErrorAndClose, HeardGrows, Safety, TypeOK
<1>3. QED
  BY <1>1, <1>2, OnlyClosesBindsNobody, PairKept DEF SendErrorAndClose

\* bindSocket tells both parties in the step that completes the pair, whoever
\* of them was suspended and whatever role the socket held before.
LEMMA AttachPaired ==
    ASSUME Safety, PairedTold, NEW ws \in Sockets, NEW role \in Roles,
           BoundSocket(role, {ws}) = {}, Attach(ws, role)
    PROVE  PairedTold'
<1> DEFINE Party(r) == IF r = role THEN {ws} ELSE OpenBound(sock', r)
           both == Party("listener") \cup Party("joiner")
           paired == Party("listener") # {} /\ Party("joiner") # {}
           acked == SafeSend(heard, {ws}, "bound")
<1>1. sock' = [sock EXCEPT ![ws].bound = TRUE, ![ws].role = role]
  BY DEF Attach
<1>2. \A s \in Sockets : /\ sock'[s].state = sock[s].state
                         /\ s # ws => sock'[s] = sock[s]
  BY <1>1 DEF Safety, TypeOK, SocketRecord
<1>3. paired => /\ row' = Recorded("paired")
                /\ heard' = SafeSend(acked, both, "peer_ready")
  BY DEF Attach
<1>4. \A s \in OpenBound(sock', role) : s = ws
  BY <1>2 DEF OpenBound, BoundSocket
<1>5. SUFFICES ASSUME NEW l \in OpenBound(sock', "listener"), NEW j \in OpenBound(sock', "joiner")
               PROVE  row'.lifecycle = "paired" /\ "peer_ready" \in heard'[l] \cap heard'[j]
  BY DEF PairedTold
<1>6. l \in Party("listener") /\ j \in Party("joiner")
  BY <1>4
<1>7. /\ l \in Sockets /\ sock[l].state = "open"
      /\ j \in Sockets /\ sock[j].state = "open"
  BY <1>2 DEF OpenBound
<1>8. row.lifecycle # "closed"
  BY <1>7 DEF Safety, ClosedShut
<1>9. row'.lifecycle = "paired"
  BY <1>3, <1>6, <1>8 DEF Recorded, Safety, TypeOK, RowRecord
<1>10. l \in both /\ j \in both
  BY <1>6
<1>11. heard' = SafeSend(acked, both, "peer_ready")
  BY <1>3, <1>6
<1> HIDE DEF both, acked
<1>12. "peer_ready" \in heard'[l] /\ "peer_ready" \in heard'[j]
  BY <1>7, <1>10, <1>11 DEF SafeSend, Frames
<1>13. QED
  BY <1>9, <1>12

LEMMA CompleteBindPaired ==
    ASSUME Safety, PairedTold, NEW ws \in Sockets, NEW role \in Roles, CompleteBind(ws, role)
    PROVE  PairedTold'
  BY AttachPaired, ErrorPaired DEF CompleteBind

\* closeRoom leaves nobody OPEN to be told anything.
LEMMA ClosingPaired ==
    ASSUME Safety, PairedTold, Available,
           \/ sock' = ClosedSockets
           \/ \E ws \in Sockets : sock' = [ClosedSockets EXCEPT ![ws].state = "gone"]
    PROVE  PairedTold'
<1>1. /\ ClosedSockets \in [Sockets -> SocketRecord]
      /\ \A s \in Sockets : ClosedSockets[s].state # "open"
  BY SafeCloseFacts DEF ClosedSockets, Listed, Safety, TypeOK
<1>2. \A s \in Sockets : sock'[s].state # "open"
  BY <1>1 DEF SocketRecord
<1>3. QED
  BY <1>2 DEF PairedTold, OpenBound

LEMMA MessagePaired ==
    ASSUME Safety, PairedTold, NEW ws \in Sockets, NEW m \in ClientMessages,
           NEW bytes \in FrameSizes, WebSocketMessage(ws, m, bytes)
    PROVE  PairedTold'
<1>1. CASE SendErrorAndClose(ws)
  BY <1>1, ErrorPaired
<1>2. CASE Available /\ (ExpireRoom \/ sock' = ClosedSockets)
  BY <1>2, ClosingPaired DEF ExpireRoom
<1>3. CASE BindSocket(ws, m)
  <2>1. CASE CompleteBind(ws, "joiner")
    BY <2>1, CompleteBindPaired DEF Roles
  <2>2. CASE UNCHANGED <<row, now, alarm, sock, heard>>
    BY <2>2 DEF PairedTold
  <2>3. QED
    BY <1>3, <2>1, <2>2, ErrorPaired DEF BindSocket
<1>4. CASE Forward(ws, m.type, bytes) /\ ~SendErrorAndClose(ws)
  <2> DEFINE role == sock[ws].role
             type == m.type
             next == [row EXCEPT
                         !.forwarded_bytes = @ + bytes,
                         !.candidates[role] = IF type = "candidate" THEN @ + 1 ELSE @,
                         !.offer_seen = @ \/ type = "offer",
                         !.answer_seen = @ \/ type = "answer"]
  <2>0. next.lifecycle = row.lifecycle
    BY DEF Safety, TypeOK, RowRecord
  <2>1. /\ row'.lifecycle = row.lifecycle
        /\ UNCHANGED sock
        /\ \E peer : heard' = SafeSend(heard, {peer}, type)
    <3>1. row' = next /\ UNCHANGED sock /\ \E peer : heard' = SafeSend(heard, {peer}, type)
      BY <1>4, Zenon DEF Forward
    <3> HIDE DEF next
    <3>2. QED
      BY <2>0, <3>1, Zenon
  <2>2. HeardGrows
    BY <2>1, SafeSendGrows DEF HeardGrows, Safety, TypeOK
  <2>3. QED
    BY <2>1, <2>2, PairKept DEF BindsNobody
<1>5. QED
  BY <1>1, <1>2, <1>3, <1>4 DEF WebSocketMessage

LEMMA DisconnectPaired ==
    ASSUME Safety, PairedTold, NEW ws \in Sockets,
           WebSocketError(ws) \/ \E listed \in BOOLEAN : WebSocketClose(ws, listed)
    PROVE  PairedTold'
<1>1. CASE sock[ws].bound /\ Available
  BY <1>1, ClosingPaired DEF WebSocketError, WebSocketClose
<1>2. CASE ~(sock[ws].bound /\ Available)
  <2>1. sock' = [sock EXCEPT ![ws].state = "gone"] /\ UNCHANGED <<row, heard>>
    BY <1>2 DEF WebSocketError, WebSocketClose, CloseRoom, ClosedSockets
  <2>2. BindsNobody /\ HeardGrows
    BY <2>1 DEF BindsNobody, HeardGrows, OpenBound, Safety, TypeOK, SocketRecord
  <2>3. QED
    BY <2>1, <2>2, PairKept
<1>3. QED
  BY <1>1, <1>2

LEMMA StepPaired == Safety /\ PairedTold /\ [Next]_vars => PairedTold'
<1> SUFFICES ASSUME Safety, PairedTold, [Next]_vars PROVE PairedTold'
  OBVIOUS
<1>1. ASSUME NEW c \in Secrets, NEW t \in Times \ {0}, Initialize(c, t) PROVE PairedTold'
  <2>1. UNCHANGED sock /\ HeardGrows
    BY <1>1 DEF Initialize, HeardGrows
  <2>2. CASE row.lifecycle = "none"
    BY <2>1, <2>2, PairKept DEF BindsNobody, Safety, EmptyUntilCreated
  <2>3. CASE row.lifecycle # "none"
    BY <1>1, <2>1, <2>3, PairKept DEF BindsNobody, Initialize
  <2>4. QED
    BY <2>2, <2>3
<1>2. ASSUME NEW ws \in Sockets, Fetch(ws) PROVE PairedTold'
  <2>1. CASE ExpireRoom
    BY <1>2, <2>1, ClosingPaired DEF Fetch, ExpireRoom
  <2>2. CASE /\ sock' = [sock EXCEPT ![ws] = [Fresh EXCEPT !.state = "open", !.connectedAt = now]]
             /\ UNCHANGED <<row, heard>>
    <3>1. ~sock'[ws].bound /\ \A s \in Sockets : s # ws => sock'[s] = sock[s]
      BY <2>2 DEF Safety, TypeOK, Fresh
    <3>2. BindsNobody /\ HeardGrows
      BY <2>2, <3>1 DEF BindsNobody, HeardGrows, OpenBound
    <3>3. QED
      BY <2>2, <3>2, PairKept
  <2>3. QED
    BY <1>2, <2>1, <2>2 DEF Fetch
<1>3. ASSUME NEW ws \in Sockets, NEW m \in ClientMessages, NEW b \in FrameSizes,
             WebSocketMessage(ws, m, b)
      PROVE PairedTold'
  BY <1>3, MessagePaired
<1>4. ASSUME NEW ws \in Sockets,
             WebSocketError(ws) \/ \E listed \in BOOLEAN : WebSocketClose(ws, listed)
      PROVE PairedTold'
  BY <1>4, DisconnectPaired
<1>5. ASSUME NEW v \in verifying, VerifyListenerSecret(v) PROVE PairedTold'
  <2>1. v.ws \in Sockets /\ "listener" \in Roles
    BY DEF Safety, TypeOK, Roles
  <2>2. QED
    BY <1>5, <2>1, CompleteBindPaired, ErrorPaired DEF VerifyListenerSecret
<1>6. CASE Alarm
  <2>1. CASE Available /\ Expired
    BY <1>6, <2>1, ClosingPaired DEF Alarm, ExpireRoom
  <2>2. CASE ~(Available /\ Expired)
    <3>1. OnlyCloses
      BY <1>6, <2>2, SafeCloseFacts DEF Alarm, OnlyCloses, Safety, TypeOK
    <3>2. HeardGrows
      BY <1>6, <2>2, SafeSendGrows DEF Alarm, HeardGrows, Safety, TypeOK
    <3>3. UNCHANGED row
      BY <1>6, <2>2 DEF Alarm
    <3>4. QED
      BY <3>1, <3>2, <3>3, OnlyClosesBindsNobody, PairKept
  <2>3. QED
    BY <2>1, <2>2
<1>7. CASE Restart
  <2>1. OnlyCloses
    BY <1>7 DEF Restart, OnlyCloses, Listed, Safety, TypeOK, SocketRecord
  <2>2. QED
    BY <1>7, <2>1, OnlyClosesBindsNobody, PairKept DEF Restart, HeardGrows
<1>8. CASE Tick \/ UNCHANGED vars
  BY <1>8 DEF Tick, vars, PairedTold
<1>9. QED
  BY <1>1, <1>2, <1>3, <1>4, <1>5, <1>6, <1>7, <1>8 DEF Next

\* Two OPEN peers that hold the two roles have both been told of each other and
\* the row says they are paired, for every number of sockets and of suspended
\* bindSocket calls.
THEOREM PairsAreTold == Spec => []PairedTold
<1>1. Init => PairedTold
  BY DEF Init, PairedTold, OpenBound, Fresh
<1>2. QED
  BY <1>1, Invariant, StepPaired, PTL DEF Spec

-----------------------------------------------------------------------------
\* What a step may do to the row of a room that exists.
RowStep ==
    \/ UNCHANGED row
    \/ /\ Available
       /\ \E reason : row' = [row EXCEPT !.lifecycle = "closed", !.terminal_reason = reason]
    \/ /\ Available
       /\ \E l \in {"listener-created", "listener-bound", "paired"} :
             row' = [row EXCEPT !.lifecycle = l]
    \/ /\ Available
       /\ UNCHANGED <<row.lifecycle, row.secret, row.expires_at, row.terminal_reason>>
       /\ \A r \in Roles : row'.candidates[r] >= row.candidates[r]
       /\ row'.forwarded_bytes >= row.forwarded_bytes
       /\ row.offer_seen => row'.offer_seen
       /\ row.answer_seen => row'.answer_seen
       /\ row'.answer_seen => row'.offer_seen \/ row.answer_seen

LEMMA CompleteBindRow ==
    ASSUME Safety, row.lifecycle # "none", NEW ws \in Sockets, NEW role, CompleteBind(ws, role)
    PROVE  RowStep
<1>1. CASE SendErrorAndClose(ws)
  BY <1>1 DEF SendErrorAndClose, RowStep
<1>2. CASE Attach(ws, role)
  <2>1. \E l \in {"listener-created", "listener-bound", "paired"} : row' = Recorded(l)
    BY <1>2 DEF Attach
  <2>2. QED
    BY <2>1 DEF Recorded, RowStep, Available
<1>3. QED
  BY <1>1, <1>2 DEF CompleteBind

LEMMA ForwardRow ==
    ASSUME Safety, Available, NEW ws \in Sockets, NEW type, NEW bytes \in FrameSizes,
           Forward(ws, type, bytes)
    PROVE  RowStep
<1>1. CASE SendErrorAndClose(ws)
  BY <1>1 DEF SendErrorAndClose, RowStep
<1>2. CASE ~SendErrorAndClose(ws)
  <2> DEFINE role == sock[ws].role
  <2>0. bytes \in Nat /\ row \in RowRecord
    BY RoomAssumption DEF Safety, TypeOK
  <2>1. row' = [row EXCEPT
                  !.forwarded_bytes = @ + bytes,
                  !.candidates[role] = IF type = "candidate" THEN @ + 1 ELSE @,
                  !.offer_seen = @ \/ type = "offer",
                  !.answer_seen = @ \/ type = "answer"]
    BY <1>2 DEF Forward
  <2>2. Legal(role, type)
    BY <1>2 DEF Forward
  <2>3. UNCHANGED <<row.lifecycle, row.secret, row.expires_at, row.terminal_reason>>
    BY <2>0, <2>1 DEF RowRecord
  <2>4. row'.forwarded_bytes = row.forwarded_bytes + bytes
    BY <2>0, <2>1 DEF RowRecord
  <2>5. row'.candidates = [row.candidates EXCEPT ![role] = IF type = "candidate" THEN @ + 1 ELSE @]
    BY <2>0, <2>1 DEF RowRecord
  <2>6. /\ row'.offer_seen = (row.offer_seen \/ type = "offer")
        /\ row'.answer_seen = (row.answer_seen \/ type = "answer")
    BY <2>0, <2>1 DEF RowRecord
  <2>7. row'.answer_seen => row'.offer_seen \/ row.answer_seen
    BY <2>2, <2>6 DEF Legal
  <2>8. \A r \in Roles : row'.candidates[r] >= row.candidates[r]
    <3>1. row.candidates \in [Roles -> Nat]
      BY <2>0, Limits DEF RowRecord
    <3> HIDE DEF role
    <3>2. QED
      BY <2>5, <3>1
  <2>9. row'.forwarded_bytes >= row.forwarded_bytes
    <3>1. row.forwarded_bytes \in Nat
      BY <2>0, Limits DEF RowRecord
    <3>2. QED
      BY <2>0, <2>4, <3>1
  <2>10. QED
    BY <2>3, <2>6, <2>7, <2>8, <2>9 DEF RowStep
<1>3. QED
  BY <1>1, <1>2

LEMMA StepRow ==
    ASSUME Safety, Next, row.lifecycle # "none"
    PROVE  RowStep
<1>1. ASSUME NEW reason, NEW source, NEW frame, CloseRoom(reason, source, frame)
      PROVE  RowStep
  BY <1>1 DEF CloseRoom, RowStep
<1>2. ASSUME NEW ws \in Sockets, NEW m \in ClientMessages, NEW b \in FrameSizes,
             WebSocketMessage(ws, m, b)
      PROVE  RowStep
  <2>1. CASE SendErrorAndClose(ws)
    BY <2>1 DEF SendErrorAndClose, RowStep
  <2>2. CASE BindSocket(ws, m)
    BY <2>1, <2>2, CompleteBindRow DEF BindSocket, RowStep
  <2>3. CASE Available /\ Forward(ws, m.type, b)
    BY <2>3, ForwardRow
  <2>4. QED
    BY <1>1, <1>2, <2>1, <2>2, <2>3 DEF WebSocketMessage, ExpireRoom
<1>3. ASSUME NEW v \in verifying, VerifyListenerSecret(v) PROVE RowStep
  <2>1. v.ws \in Sockets
    BY DEF Safety, TypeOK
  <2>2. QED
    BY <1>3, <2>1, CompleteBindRow DEF VerifyListenerSecret, SendErrorAndClose, RowStep
<1>4. ASSUME NEW ws \in Sockets, NEW listed \in BOOLEAN,
             Fetch(ws) \/ WebSocketClose(ws, listed) \/ WebSocketError(ws)
      PROVE  RowStep
  BY <1>1, <1>4 DEF Fetch, WebSocketClose, WebSocketError, ExpireRoom, RowStep
<1>5. ASSUME Alarm \/ Restart \/ Tick \/ \E c \in Secrets, t \in Times \ {0} : Initialize(c, t)
      PROVE  RowStep
  BY <1>1, <1>5 DEF Alarm, Restart, Tick, Initialize, ExpireRoom, RowStep
<1>6. QED
  BY <1>2, <1>3, <1>4, <1>5 DEF Next

\* The row of a room is never recycled: its secret and expiry are final, its
\* budgets only shrink, and once closed it does not change at all.
THEOREM RowNeverRecycled == Spec => RowHistory
<1> DEFINE Kept ==
      row.lifecycle # "none" =>
         /\ row'.secret = row.secret /\ row'.expires_at = row.expires_at
         /\ \A r \in Roles : row'.candidates[r] >= row.candidates[r]
         /\ row'.forwarded_bytes >= row.forwarded_bytes
         /\ row.offer_seen => row'.offer_seen
         /\ row.answer_seen => row'.answer_seen
         /\ row.lifecycle = "closed" => row' = row
<1>1. Safety /\ [Next]_vars => [Kept]_vars
  <2> SUFFICES ASSUME Safety, Next, row.lifecycle # "none"
               PROVE  Kept
    OBVIOUS
  <2>1. RowStep
    BY StepRow
  <2>2. row \in RowRecord
    BY DEF Safety, TypeOK
  <2>3. row.forwarded_bytes \in Nat /\ row.candidates \in [Roles -> Nat]
    BY <2>2, Limits DEF RowRecord
  <2>4. CASE UNCHANGED row
    BY <2>3, <2>4
  <2>5. ASSUME NEW reason,
               row' = [row EXCEPT !.lifecycle = "closed", !.terminal_reason = reason], Available
        PROVE  Kept
    BY <2>2, <2>3, <2>5 DEF RowRecord, Available
  <2>6. ASSUME NEW l, row' = [row EXCEPT !.lifecycle = l], Available
        PROVE  Kept
    BY <2>2, <2>3, <2>6 DEF RowRecord, Available
  <2>7. QED
    BY <2>1, <2>4, <2>5, <2>6 DEF RowStep, Available
<1>2. QED
  BY <1>1, Invariant, PTL DEF Spec, RowHistory

-----------------------------------------------------------------------------
\* forward() records an answer only after an offer, and nothing before initialize().
AnswerAfterOffer ==
    /\ row.answer_seen => row.offer_seen
    /\ row.lifecycle = "none" => ~row.offer_seen

LEMMA AnswerInvariant == Spec => []AnswerAfterOffer
<1>1. Init => AnswerAfterOffer
  BY DEF Init, NoRow, AnswerAfterOffer
<1>2. Safety /\ AnswerAfterOffer /\ [Next]_vars => AnswerAfterOffer'
  <2> SUFFICES ASSUME Safety, AnswerAfterOffer, Next PROVE AnswerAfterOffer'
    BY DEF vars, AnswerAfterOffer
  <2>1. CASE row.lifecycle # "none"
    <3>1. RowStep
      BY <2>1, StepRow
    <3>2. row'.lifecycle # "none"
      BY <2>1, <3>1 DEF RowStep, Safety, TypeOK, RowRecord
    <3>3. row'.answer_seen => row'.offer_seen
      BY <3>1 DEF RowStep, AnswerAfterOffer, Safety, TypeOK, RowRecord
    <3>4. QED
      BY <3>2, <3>3 DEF AnswerAfterOffer
  <2>2. CASE row.lifecycle = "none"
    <3>1. row' = row \/ (row'.answer_seen = FALSE /\ row'.lifecycle # "none")
      <4>1. \A ws \in Sockets : ws \notin Listed(sock)
        BY <2>2 DEF Safety, EmptyUntilCreated, Listed
      <4>2. ASSUME NEW c \in Secrets, NEW t \in Times \ {0}, Initialize(c, t)
            PROVE  row'.answer_seen = FALSE /\ row'.lifecycle # "none"
        BY <2>2, <4>2 DEF Initialize, NoRow
      <4>3. QED
        BY <2>2, <4>1, <4>2 DEF Next, Safety, EmptyUntilCreated, Fetch, WebSocketMessage,
           WebSocketClose, WebSocketError, Available, Alarm, Restart, Tick
    <3>2. QED
      BY <3>1 DEF AnswerAfterOffer
  <2>3. QED
    BY <2>1, <2>2
<1>3. QED
  BY <1>1, <1>2, Invariant, PTL DEF Spec

-----------------------------------------------------------------------------
\* The holder of a role is the only OPEN socket bound to it, or nobody.
LEMMA HolderFacts ==
    ASSUME NEW sk, NEW r \in Roles
    PROVE  /\ OpenBound(sk, r) = {} => Holder(sk)[r] = NoSocket
           /\ \A s : OpenBound(sk, r) = {s} => Holder(sk)[r] = s
           /\ OpenBound(sk, r) # {} => Holder(sk)[r] \in Sockets /\ Holder(sk)[r] # NoSocket
<1>1. Holder(sk)[r] = IF OpenBound(sk, r) = {} THEN NoSocket
                      ELSE CHOOSE s \in OpenBound(sk, r) : TRUE
  BY DEF Holder, TheOne
<1>2. OpenBound(sk, r) \subseteq Sockets
  BY DEF OpenBound
<1>3. "no socket" \notin Sockets
  BY RoomAssumption
<1>4. QED
  BY <1>1, <1>2, <1>3 DEF NoSocket

LEMMA HolderIsFunction ==
    ASSUME NEW sk PROVE Holder(sk) = [r \in Roles |-> Holder(sk)[r]]
  BY DEF Holder

\* Steps that only close sockets are releases of roles, or not observable.
LEMMA ClosesRefine ==
    ASSUME Safety, OnlyCloses,
           Phase(row') = Phase(row), Negotiation(row') = Negotiation(row)
    PROVE  [Contract!Next]_(Contract!vars)
<1>1. \A r \in Roles : OpenBound(sock', r) = {} \/ OpenBound(sock', r) = OpenBound(sock, r)
  BY DEF OnlyCloses, OpenBound, Safety, OneOpenPerRole
<1> DEFINE R == {r \in Roles : OpenBound(sock', r) = {}}
<1>2. Holder(sock') = [r \in Roles |-> IF r \in R THEN NoSocket ELSE Holder(sock)[r]]
  <2>1. \A r \in Roles : Holder(sock')[r] = IF r \in R THEN NoSocket ELSE Holder(sock)[r]
    <3> TAKE r \in Roles
    <3>1. CASE OpenBound(sock', r) = {}
      BY <3>1, HolderFacts
    <3>2. CASE OpenBound(sock', r) # {}
      BY <1>1, <3>2 DEF Holder
    <3>3. QED
      BY <3>1, <3>2
  <2>2. Holder(sock') = [r \in Roles |-> Holder(sock')[r]]
    BY HolderIsFunction
  <2>3. QED
    BY <2>1, <2>2, Zenon
<1>3. CASE Phase(row) = "open"
  <2>1. Contract!Release(R)
    BY <1>2, <1>3 DEF Contract!Release, Contract!Roles, Roles
  <2>2. R \in SUBSET Contract!Roles
    BY DEF Contract!Roles, Roles
  <2>3. QED
    BY <2>1, <2>2 DEF Contract!Next
<1>4. CASE Phase(row) # "open"
  <2>1. \A r \in Roles : OpenBound(sock, r) = {} /\ OpenBound(sock', r) = {}
    BY <1>1, <1>4 DEF Phase, Safety, EmptyUntilCreated, ClosedShut, OpenBound
  <2>2. Holder(sock') = Holder(sock)
    BY <2>1 DEF Holder
  <2>3. QED
    BY <2>2 DEF Contract!vars
<1>5. QED
  BY <1>3, <1>4

LEMMA ClosingRefines ==
    ASSUME Safety, TypeOK', Available,
           NEW reason, NEW source, NEW frame, CloseRoom(reason, source, frame), Safety'
    PROVE  [Contract!Next]_(Contract!vars)
<1>1. Phase(row) = "open" /\ Phase(row') = "closed" /\ Negotiation(row') = Negotiation(row)
  BY DEF Available, Phase, CloseRoom, Negotiation, Safety, TypeOK, RowRecord
<1>2. \A r \in Roles : OpenBound(sock', r) = {}
  BY DEF CloseRoom, Safety, TypeOK, RowRecord, ClosedShut, OpenBound
<1>3. Holder(sock') = [r \in Roles |-> NoSocket]
  BY <1>2 DEF Holder, TheOne
<1>4. Contract!Close
  BY <1>1, <1>3 DEF Contract!Close, Contract!Nobody, Contract!Roles, Roles
<1>5. QED
  BY <1>4 DEF Contract!Next

LEMMA ErrorRefines ==
    ASSUME Safety, NEW ws \in Sockets, SendErrorAndClose(ws)
    PROVE  [Contract!Next]_(Contract!vars)
<1>1. OnlyCloses
  BY SafeCloseFacts DEF SendErrorAndClose, OnlyCloses, Safety, TypeOK
<1>2. QED
  BY <1>1, ClosesRefine DEF SendErrorAndClose

LEMMA AttachRefines ==
    ASSUME Safety, Safety', NEW ws \in Sockets, NEW role \in Roles, row.lifecycle # "none",
           BoundSocket(role, {ws}) = {}, Attach(ws, role)
    PROVE  [Contract!Next]_(Contract!vars)
<1>1. sock' = [sock EXCEPT ![ws].bound = TRUE, ![ws].role = role]
  BY DEF Attach
<1>2. Phase(row') = Phase(row) /\ Negotiation(row') = Negotiation(row)
  BY DEF Attach, Recorded, Phase, Negotiation, Safety, TypeOK, RowRecord
<1>3. /\ \A s \in Sockets : s # ws => sock'[s] = sock[s]
      /\ sock'[ws].state = sock[ws].state
      /\ sock'[ws].bound /\ sock'[ws].role = role
  BY <1>1 DEF Safety, TypeOK, SocketRecord
<1>4. \A r \in Roles \ {role} : OpenBound(sock', r) = OpenBound(sock, r) \ {ws}
  BY <1>3 DEF OpenBound
<1>5. CASE sock[ws].state # "open"
  <2>1. \A r \in Roles : OpenBound(sock', r) = OpenBound(sock, r)
    BY <1>3, <1>5 DEF OpenBound
  <2>2. Holder(sock') = Holder(sock)
    BY <2>1 DEF Holder
  <2>3. QED
    BY <1>2, <2>2 DEF Contract!vars
<1>6. CASE sock[ws].state = "open"
  <2>1. OpenBound(sock', role) = {ws}
    BY <1>3, <1>6 DEF OpenBound, BoundSocket
  <2>2. Phase(row) = "open"
    BY <1>6 DEF Phase, Safety, ClosedShut
  <2>3. CASE ws \in OpenBound(sock, role)
    <3>1. OpenBound(sock, role) = {ws}
      BY <2>3 DEF Safety, OneOpenPerRole
    <3>2. \A r \in Roles : OpenBound(sock', r) = OpenBound(sock, r)
      BY <1>4, <2>1, <2>3, <3>1 DEF OpenBound
    <3>3. Holder(sock') = Holder(sock)
      BY <3>2 DEF Holder
    <3>4. QED
      BY <1>2, <3>3 DEF Contract!vars
  <2>4. CASE ws \notin OpenBound(sock, role)
    <3>1. OpenBound(sock, role) = {}
      BY <2>4 DEF BoundSocket
    <3>2. Holder(sock)[role] = NoSocket /\ Holder(sock')[role] = ws
      BY <2>1, <3>1, HolderFacts
    <3>3. ASSUME NEW r \in Roles \ {role}
          PROVE  Holder(sock')[r] = IF Holder(sock)[r] = ws THEN NoSocket ELSE Holder(sock)[r]
      <4>1. CASE ws \in OpenBound(sock, r)
        <5>1. OpenBound(sock, r) = {ws} /\ OpenBound(sock', r) = {}
          BY <1>4, <4>1 DEF Safety, OneOpenPerRole
        <5>2. QED
          BY <5>1, HolderFacts
      <4>2. CASE ws \notin OpenBound(sock, r)
        <5>1. OpenBound(sock', r) = OpenBound(sock, r)
          BY <1>4, <4>2
        <5>2. Holder(sock')[r] = Holder(sock)[r]
          BY <5>1 DEF Holder
        <5>3. Holder(sock)[r] # ws
          BY <4>2, RoomAssumption DEF Holder, TheOne, NoSocket
        <5>4. QED
          BY <5>2, <5>3
      <4>3. QED
        BY <4>1, <4>2
    <3>4. Holder(sock') = [r \in Roles |-> IF r = role THEN ws
                             ELSE IF Holder(sock)[r] = ws THEN NoSocket ELSE Holder(sock)[r]]
      <4>1. \A r \in Roles : Holder(sock')[r] = IF r = role THEN ws
                             ELSE IF Holder(sock)[r] = ws THEN NoSocket ELSE Holder(sock)[r]
        BY <3>2, <3>3
      <4>2. Holder(sock') = [r \in Roles |-> Holder(sock')[r]]
        BY HolderIsFunction
      <4>3. QED
        BY <4>1, <4>2, Zenon
    <3>5. Contract!Hold(role, ws)
      BY <1>2, <2>2, <3>2, <3>4 DEF Contract!Hold, Contract!Roles, Roles
    <3>6. QED
      BY <3>5 DEF Contract!Next, Contract!Roles, Roles
  <2>5. QED
    BY <2>3, <2>4
<1>7. QED
  BY <1>5, <1>6

LEMMA CompleteBindRefines ==
    ASSUME Safety, Safety', NEW ws \in Sockets, NEW role \in Roles, row.lifecycle # "none",
           CompleteBind(ws, role)
    PROVE  [Contract!Next]_(Contract!vars)
  BY AttachRefines, ErrorRefines DEF CompleteBind

\* Relaying an offer or an answer is the contract's step of that name; the
\* receiver is the holder of the other role.
LEMMA ForwardRefines ==
    ASSUME Safety, AnswerAfterOffer, Available, NEW ws \in Sockets, NEW type, NEW bytes,
           Forward(ws, type, bytes)
    PROVE  [Contract!Next]_(Contract!vars)
<1> DEFINE role == sock[ws].role
<1>1. CASE SendErrorAndClose(ws)
  BY <1>1, ErrorRefines
<1>2. CASE ~SendErrorAndClose(ws)
  <2>1. /\ row.lifecycle = row'.lifecycle /\ sock' = sock
        /\ row'.offer_seen = (row.offer_seen \/ type = "offer")
        /\ row'.answer_seen = (row.answer_seen \/ type = "answer")
    BY <1>2 DEF Forward, Safety, TypeOK, RowRecord
  <2>2. Legal(role, type) /\ OpenBound(sock, Other(role)) # {}
    BY <1>2 DEF Forward, BoundSocket
  <2>3. Phase(row) = "open" /\ Phase(row') = "open" /\ Holder(sock') = Holder(sock)
    BY <2>1 DEF Available, Phase
  <2>4. row.offer_seen \in BOOLEAN /\ row.answer_seen \in BOOLEAN
    BY DEF Safety, TypeOK, RowRecord
  <2>5. CASE type = "offer"
    <3>1. Holder(sock)["listener"] # NoSocket
      BY <2>2, <2>5, HolderFacts DEF Legal, Other, Roles
    <3>2. Negotiation(row) = "idle" /\ Negotiation(row') = "offered"
      BY <2>1, <2>2, <2>4, <2>5 DEF Legal, Negotiation, AnswerAfterOffer
    <3>3. Contract!Offer
      BY <2>3, <3>1, <3>2 DEF Contract!Offer
    <3>4. QED
      BY <3>3 DEF Contract!Next
  <2>6. CASE type = "answer"
    <3>1. Holder(sock)["joiner"] # NoSocket
      BY <2>2, <2>6, HolderFacts DEF Legal, Other, Roles
    <3>2. Negotiation(row) = "offered" /\ Negotiation(row') = "answered"
      BY <2>1, <2>2, <2>4, <2>6 DEF Legal, Negotiation
    <3>3. Contract!Answer
      BY <2>3, <3>1, <3>2 DEF Contract!Answer
    <3>4. QED
      BY <3>3 DEF Contract!Next
  <2>7. CASE type \notin {"offer", "answer"}
    <3>1. Negotiation(row') = Negotiation(row)
      BY <2>1, <2>4, <2>7 DEF Negotiation
    <3>2. QED
      BY <2>3, <3>1 DEF Contract!vars
  <2>8. QED
    BY <2>5, <2>6, <2>7
<1>3. QED
  BY <1>1, <1>2

\* Every step of the room is a step of the contract or leaves it unchanged.
LEMMA StepRefines ==
    ASSUME Safety, Safety', AnswerAfterOffer, [Next]_vars
    PROVE  [Contract!Next]_(Contract!vars)
<1>1. ASSUME NEW c \in Secrets, NEW t \in Times \ {0}, Initialize(c, t)
      PROVE  [Contract!Next]_(Contract!vars)
  <2>1. CASE row.lifecycle = "none"
    <3>1. /\ row'.lifecycle = "listener-created"
          /\ row'.offer_seen = FALSE /\ row'.answer_seen = FALSE /\ sock' = sock
      BY <1>1, <2>1 DEF Initialize, NoRow
    <3>2. Phase(row) = "none" /\ Phase(row') = "open" /\ Negotiation(row') = "idle"
      BY <2>1, <3>1 DEF Phase, Negotiation
    <3>3. Negotiation(row) = "idle"
      BY <2>1 DEF Negotiation, AnswerAfterOffer
    <3>4. Contract!Create
      BY <3>1, <3>2, <3>3 DEF Contract!Create
    <3>5. QED
      BY <3>4 DEF Contract!Next
  <2>2. CASE row.lifecycle # "none"
    BY <1>1, <2>2 DEF Initialize, Contract!vars
  <2>3. QED
    BY <2>1, <2>2
<1>2. ASSUME NEW ws \in Sockets, Fetch(ws) PROVE [Contract!Next]_(Contract!vars)
  <2>1. CASE ExpireRoom
    BY <1>2, <2>1, ClosingRefines DEF Fetch, ExpireRoom, Safety
  <2>2. CASE /\ sock' = [sock EXCEPT ![ws] = [Fresh EXCEPT !.state = "open", !.connectedAt = now]]
             /\ UNCHANGED row
    <3>1. ~sock'[ws].bound /\ \A s \in Sockets : s # ws => sock'[s] = sock[s]
      BY <2>2 DEF Safety, TypeOK, Fresh
    <3>2. \A r \in Roles : OpenBound(sock', r) = OpenBound(sock, r)
      BY <1>2, <3>1 DEF OpenBound, Fetch
    <3>3. Holder(sock') = Holder(sock)
      BY <3>2 DEF Holder
    <3>4. QED
      BY <2>2, <3>3 DEF Contract!vars
  <2>3. QED
    BY <1>2, <2>1, <2>2 DEF Fetch
<1>3. ASSUME NEW ws \in Sockets, NEW m \in ClientMessages, NEW b \in FrameSizes,
             WebSocketMessage(ws, m, b)
      PROVE  [Contract!Next]_(Contract!vars)
  <2>1. row.lifecycle # "none" /\ "joiner" \in Roles
    BY <1>3 DEF WebSocketMessage, Safety, EmptyUntilCreated, Listed, Roles
  <2>2. CASE SendErrorAndClose(ws)
    BY <2>2, ErrorRefines
  <2>3. CASE Available /\ \E reason, source, frame : CloseRoom(reason, source, frame)
    BY <2>3, ClosingRefines DEF Safety
  <2>4. CASE BindSocket(ws, m)
    BY <2>1, <2>2, <2>4, CompleteBindRefines DEF BindSocket, Contract!vars
  <2>5. CASE Available /\ Forward(ws, m.type, b)
    BY <2>5, ForwardRefines
  <2>6. QED
    BY <1>3, <2>2, <2>3, <2>4, <2>5 DEF WebSocketMessage, ExpireRoom
<1>4. ASSUME NEW ws \in Sockets,
             WebSocketError(ws) \/ \E listed \in BOOLEAN : WebSocketClose(ws, listed)
      PROVE  [Contract!Next]_(Contract!vars)
  <2>1. CASE Available /\ \E reason, source, frame : CloseRoom(reason, source, frame)
    BY <2>1, ClosingRefines DEF Safety
  <2>2. CASE sock' = [sock EXCEPT ![ws].state = "gone"] /\ UNCHANGED row
    <3>1. OnlyCloses
      BY <1>4, <2>2 DEF OnlyCloses, Safety, TypeOK, SocketRecord, WebSocketError,
         WebSocketClose, Listed
    <3>2. QED
      BY <2>2, <3>1, ClosesRefine
  <2>3. QED
    BY <1>4, <2>1, <2>2 DEF WebSocketError, WebSocketClose, CloseRoom, ClosedSockets
<1>5. ASSUME NEW v \in verifying, VerifyListenerSecret(v)
      PROVE  [Contract!Next]_(Contract!vars)
  <2>1. v.ws \in Sockets /\ "listener" \in Roles /\ row.lifecycle # "none"
    BY DEF Safety, EmptyUntilCreated, TypeOK, Roles
  <2>2. QED
    BY <1>5, <2>1, CompleteBindRefines, ErrorRefines DEF VerifyListenerSecret
<1>6. CASE Alarm
  <2>1. CASE Available /\ ExpireRoom
    BY <2>1, ClosingRefines DEF ExpireRoom, Safety
  <2>2. CASE ~Available
    BY <1>6, <2>2 DEF Alarm, Contract!vars
  <2>3. CASE Available /\ ~Expired
    <3>1. OnlyCloses /\ UNCHANGED row
      BY <1>6, <2>3, SafeCloseFacts DEF Alarm, OnlyCloses, Safety, TypeOK
    <3>2. QED
      BY <3>1, ClosesRefine
  <2>4. QED
    BY <1>6, <2>1, <2>2, <2>3 DEF Alarm
<1>7. CASE Restart
  <2>1. OnlyCloses /\ UNCHANGED row
    BY <1>7 DEF Restart, OnlyCloses, Listed, Safety, TypeOK, SocketRecord
  <2>2. QED
    BY <2>1, ClosesRefine
<1>8. CASE Tick \/ UNCHANGED vars
  BY <1>8 DEF Tick, vars, Contract!vars
<1>9. QED
  BY <1>1, <1>2, <1>3, <1>4, <1>5, <1>6, <1>7, <1>8 DEF Next

\* The Durable Object implements the room contract: created once, closed once,
\* one holder per role, one offer and then one answer.
THEOREM RoomImplementsContract == Spec => ImplementsContract
<1>1. Init => Contract!Init
  <2> SUFFICES ASSUME Init PROVE Contract!Init
    OBVIOUS
  <2>1. \A r \in Roles : OpenBound(sock, r) = {}
    BY DEF Init, Fresh, OpenBound
  <2>2. Holder(sock) = [r \in Roles |-> NoSocket]
    BY <2>1 DEF Holder, TheOne
  <2>3. Phase(row) = "none" /\ Negotiation(row) = "idle"
    BY DEF Init, NoRow, Phase, Negotiation
  <2>4. QED
    BY <2>2, <2>3 DEF Contract!Init, Contract!Nobody, Contract!Roles, Roles
<1>2. QED
  BY <1>1, StepRefines, Invariant, AnswerInvariant, PTL DEF Spec, ImplementsContract, Contract!Spec

-----------------------------------------------------------------------------
(* The allocation of rooms.                                                *)

\* A row that exists stays, and the caller whose input is accepted is its owner.
LEMMA StoredFacts ==
    ASSUME AllocTypeOK, NEW c \in RoomCodes, NEW a \in Requests
    PROVE  /\ Stored(c, a) \in [RoomCodes -> Requests \cup {"nobody"}]
           /\ \A d \in RoomCodes : owner[d] # "nobody" => Stored(c, a)[d] = owner[d]
           /\ Accepted(c, a) => Stored(c, a)[c] = a
  BY DEF AllocTypeOK, Stored, Accepted

\* The next attempt is the caller's alone, and there is one only below the limit.
LEMMA NextAttemptFacts ==
    ASSUME AllocTypeOK, NEW a \in Requests, req[a].attempt < MaxCodeAttempts
    PROVE  /\ NextAttempt(a) \in [Requests -> Request]
           /\ \A b \in Requests \ {a} : NextAttempt(a)[b] = req[b]
           /\ NextAttempt(a)[a].pc \in {"pick", "null"}
           /\ NextAttempt(a)[a].pc = "pick" => NextAttempt(a)[a].attempt < MaxCodeAttempts
  <1> DEFINE new == [pc |-> IF req[a].attempt + 1 < MaxCodeAttempts THEN "pick" ELSE "null",
                     code |-> req[a].code, attempt |-> req[a].attempt + 1]
  <1>1. MaxCodeAttempts \in Nat /\ req[a] \in Request /\ req \in [Requests -> Request]
    BY AllocationAssumption DEF AllocTypeOK
  <1>2. /\ new \in Request
        /\ new.pc \in {"pick", "null"}
        /\ new.pc = "pick" => new.attempt < MaxCodeAttempts
    <2>1. req[a].attempt + 1 \in 0..MaxCodeAttempts
      BY <1>1 DEF Request
    <2> QED  BY <1>1, <2>1 DEF Request
  <1>3. NextAttempt(a) = [req EXCEPT ![a] = new]
    BY DEF NextAttempt
  <1> HIDE DEF new
  <1> QED  BY <1>1, <1>2, <1>3

\* Types and ownership together are inductive: a row is never replaced, so a
\* room that was accepted stays with the request that accepted it.
LEMMA AllocationInductive ==
    ASSUME AllocTypeOK, OwnsRoom, [AllocNext]_allocVars
    PROVE  AllocTypeOK' /\ OwnsRoom'
  <1> USE AllocationAssumption
  <1>1. ASSUME NEW a \in Requests, NEW c \in RoomCodes, Pick(a, c)
        PROVE  AllocTypeOK' /\ OwnsRoom'
    BY <1>1 DEF AllocTypeOK, OwnsRoom, Pick, Request
  <1>2. ASSUME NEW a \in Requests, Answered(a)
        PROVE  AllocTypeOK' /\ OwnsRoom'
    <2> DEFINE c == req[a].code
    <2>1. c \in RoomCodes /\ owner' = Stored(c, a) /\ delayed' = delayed /\ req[a] \in Request
      BY <1>2 DEF AllocTypeOK, Answered
    <2>2. /\ owner' \in [RoomCodes -> Requests \cup {"nobody"}]
          /\ \A d \in RoomCodes : owner[d] # "nobody" => owner'[d] = owner[d]
          /\ Accepted(c, a) => owner'[c] = a
      BY <2>1, StoredFacts
    <2>3. CASE Accepted(c, a)
      <3>1. req' = [req EXCEPT ![a] = [@ EXCEPT !.pc = "allocated"]]
        BY <1>2, <2>3 DEF Answered
      <3>2. AllocTypeOK'
        BY <3>1, <2>1, <2>2 DEF AllocTypeOK, Request
      <3>3. OwnsRoom'
        BY <3>1, <2>1, <2>2, <2>3 DEF AllocTypeOK, OwnsRoom, Request
      <3> QED  BY <3>2, <3>3
    <2>4. CASE ~Accepted(c, a)
      <3>1. req' = NextAttempt(a) /\ req[a].attempt < MaxCodeAttempts
        BY <1>2, <2>4 DEF Answered, AllocTypeOK
      <3>2. AllocTypeOK'
        BY <3>1, <2>1, <2>2, NextAttemptFacts DEF AllocTypeOK
      <3>3. OwnsRoom'
        BY <3>1, <2>1, <2>2, NextAttemptFacts DEF AllocTypeOK, OwnsRoom
      <3> QED  BY <3>2, <3>3
    <2> QED  BY <2>3, <2>4
  <1>3. ASSUME NEW a \in Requests, NEW fate \in {"committed", "late", "never"}, Thrown(a, fate)
        PROVE  AllocTypeOK' /\ OwnsRoom'
    <2> DEFINE c == req[a].code
    <2>1. /\ c \in RoomCodes /\ req[a] \in Request /\ req[a].attempt < MaxCodeAttempts
          /\ delayed' \subseteq Requests \X RoomCodes
      BY <1>3 DEF AllocTypeOK, Thrown
    <2>2. /\ owner' \in [RoomCodes -> Requests \cup {"nobody"}]
          /\ \A d \in RoomCodes : owner[d] # "nobody" => owner'[d] = owner[d]
      BY <1>3, <2>1, StoredFacts DEF Thrown, AllocTypeOK
    <2>3. CASE req[a].pc = "call"
      <3>1. req' = [req EXCEPT ![a] = [@ EXCEPT !.pc = "retry"]]
        BY <1>3, <2>3 DEF Thrown
      <3> QED  BY <3>1, <2>1, <2>2 DEF AllocTypeOK, OwnsRoom, Request
    <2>4. CASE req[a].pc # "call"
      <3>1. req' = NextAttempt(a)
        BY <1>3, <2>4 DEF Thrown
      <3>2. AllocTypeOK'
        BY <3>1, <2>1, <2>2, NextAttemptFacts DEF AllocTypeOK
      <3>3. OwnsRoom'
        BY <3>1, <2>1, <2>2, NextAttemptFacts DEF AllocTypeOK, OwnsRoom
      <3> QED  BY <3>2, <3>3
    <2> QED  BY <2>3, <2>4
  <1>4. ASSUME NEW call \in delayed, LateCall(call)
        PROVE  AllocTypeOK' /\ OwnsRoom'
    <2>1. call[1] \in Requests /\ call[2] \in RoomCodes
      BY DEF AllocTypeOK
    <2>2. /\ owner' \in [RoomCodes -> Requests \cup {"nobody"}]
          /\ \A d \in RoomCodes : owner[d] # "nobody" => owner'[d] = owner[d]
      BY <1>4, <2>1, StoredFacts DEF LateCall
    <2> QED  BY <1>4, <2>1, <2>2 DEF AllocTypeOK, OwnsRoom, LateCall, Request
  <1>5. CASE UNCHANGED allocVars
    BY <1>5 DEF AllocTypeOK, OwnsRoom, allocVars
  <1> QED  BY <1>1, <1>2, <1>3, <1>4, <1>5 DEF AllocNext

\* allocateSignalRoom never answers with a code whose room holds another secret,
\* for any number of requests, codes and attempts.
THEOREM AllocatedRoomsAreOwned == AllocSpec => []OwnsRoom
  <1>1. AllocInit => AllocTypeOK /\ OwnsRoom
    BY AllocationAssumption DEF AllocInit, AllocTypeOK, OwnsRoom, Request
  <1>2. AllocTypeOK /\ OwnsRoom /\ [AllocNext]_allocVars => AllocTypeOK' /\ OwnsRoom'
    BY AllocationInductive
  <1> QED  BY <1>1, <1>2, PTL DEF AllocSpec
=============================================================================
