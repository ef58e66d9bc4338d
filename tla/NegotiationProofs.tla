------------------------- MODULE NegotiationProofs -------------------------
(***************************************************************************)
(* Proofs about Negotiation, for any limit on candidates: the room never   *)
(* refuses a frame of the peers, and it keeps the promise of RoomContract. *)
(* Every step is first shown to be of one of a dozen kinds, by what it     *)
(* does to each peer and to the room (Kinds); the invariants are then      *)
(* shown for the kinds.                                                    *)
(***************************************************************************)
EXTENDS Negotiation, TLAPS

Own(p) == IF p = "joiner" THEN "offer" ELSE "answer"
UpFrames(p) == {"bind", Own(p), "candidate", "end_of_candidates", "leave", "gone"}
DownFrames(p) == {"bound", "peer_ready", Description(p), "candidate", "end_of_candidates",
                  "peer_left", "error", "close"}

RoomType == [phase : {"none", "open", "closed"}, bound : SUBSET Peers, offered : BOOLEAN,
             answered : BOOLEAN, candidates : [Peers -> Nat], refused : BOOLEAN]
IceType == [total : Nat, sent : Nat, started : BOOLEAN, done : BOOLEAN]
RemoteType == [described : BOOLEAN, pending : Nat, applied : Nat, ended : BOOLEAN]
Places == {"idle"} \cup Waiting \cup Ended

\* The states of the two peers and the room, the frames of each queue included.
TypeOK ==
    /\ program \in {"browser", "rust"} /\ calm \in BOOLEAN /\ path \in BOOLEAN /\ cut \in BOOLEAN
    /\ room \in RoomType
    /\ up = [p \in Peers |-> up[p]] /\ down = [p \in Peers |-> down[p]]
    /\ \A p \in Peers : up[p] \in Seq(UpFrames(p)) /\ down[p] \in Seq(DownFrames(p))
    /\ link \in [Peers -> {"none", "open", "closed"}]
    /\ pc \in [Peers -> Places]
    /\ ice \in [Peers -> IceType]
    /\ remote \in [Peers -> RemoteType]
    /\ cause \in [Peers -> {"none", "own", "signaling"}]

In(m, q) == \E i \in 1..Len(q) : q[i] = m

-----------------------------------------------------------------------------
(* What a peer may have on its way to a room that is open.                 *)

\* The room has forwarded p's description.
Forwarded(p) == IF p = "joiner" THEN room.offered ELSE room.answered

\* 1 if the description own is still ahead of the candidates in q.
Ahead(own, q) == IF q # <<>> /\ q[1] = own THEN 1 ELSE 0

\* One description comes first, and with the n candidates that have been let through
\* those in q are no more than s.
Orderly(own, q, n, s) ==
    /\ \A i \in 1..Len(q) : q[i] = own => i = 1
    /\ \A i \in 1..Len(q) : q[i] = "candidate" => n + i <= s + Ahead(own, q)
Short(own, q, n, s) == n + Len(q) <= s + Ahead(own, q)

\* Where a peer is says what it has done.
Order(p) ==
    /\ pc[p] = "idle" => link[p] = "none" /\ up[p] = <<>> /\ down[p] = <<>> /\ p \notin room.bound
    /\ link[p] = "open" => pc[p] \in Waiting
    /\ pc[p] \in {"idle", "binding", "ready", "describing"} => ~ice[p].started
    /\ pc[p] = "connecting" => ice[p].done
    /\ ice[p].done => ice[p].started
    /\ pc[p] \in {"connecting", "connected"} => remote[p].ended
    /\ room.candidates[p] <= ice[p].sent /\ ice[p].sent <= MaxCandidates
    /\ p = "listener" /\ (ice[p].started \/ pc[p] = "describing") => remote[p].described
    /\ p = "listener" /\ (remote[p].described \/ In("offer", down[p])) => room.offered

\* Both are bound before anything but a bind is sent.
Meet(p) ==
    room.phase = "open" =>
        /\ In("peer_ready", down[p]) => room.bound = Peers
        /\ pc[p] \in {"describing", "exchange", "connecting", "connected"} => room.bound = Peers
        /\ \A m \in {Own(p), "candidate", "end_of_candidates"} : In(m, up[p]) => room.bound = Peers
        /\ pc[p] = "ready" \/ In("bound", down[p]) => p \in room.bound

\* A peer sends one description, then no more candidates than the room takes.
Frames(p) ==
    room.phase = "open" =>
        /\ Orderly(Own(p), up[p], room.candidates[p], ice[p].sent)
        /\ In(Own(p), up[p]) => ~Forwarded(p)
        /\ ~ice[p].started => ~Forwarded(p) /\ ~In(Own(p), up[p])
        /\ link[p] = "open" /\ ~ice[p].started => up[p] = IF p \in room.bound THEN <<>> ELSE <<"bind">>
        /\ link[p] = "open" /\ ice[p].started /\ ~ice[p].done =>
               Short(Own(p), up[p], room.candidates[p], ice[p].sent)
        /\ p = "listener" /\ In("answer", up[p]) => room.offered

\* The listener makes the room, and an answer follows an offer.
Born ==
    /\ pc["listener"] = "idle" <=> room.phase = "none"
    /\ room.phase = "none" => pc["joiner"] = "idle" /\ room.bound = {} /\ ~room.offered
    /\ room.answered => room.offered

Upright(p) == Order(p) /\ Meet(p) /\ Frames(p)

RoomInv == TypeOK /\ ~room.refused /\ Born /\ \A p \in Peers : Upright(p)

-----------------------------------------------------------------------------
(* Facts about queues.                                                     *)

\* Which frames are in a queue that is read, or written to.
LEMMA InQueue ==
    ASSUME NEW S, NEW q \in Seq(S)
    PROVE  /\ \A m : ~In(m, <<>>)
           /\ q # <<>> => In(Head(q), q) /\ \A m : In(m, Tail(q)) => In(m, q)
           /\ \A x \in S : \A m : In(m, Append(q, x)) <=> In(m, q) \/ m = x
<1>1. \A m : ~In(m, <<>>)
  BY DEF In
<1>2. ASSUME q # <<>> PROVE In(Head(q), q) /\ \A m : In(m, Tail(q)) => In(m, q)
  <2>1. Len(q) \in Nat /\ Len(q) > 0 /\ Len(Tail(q)) = Len(q) - 1
        /\ \A i \in 1..Len(Tail(q)) : Tail(q)[i] = q[i + 1] /\ i + 1 \in 1..Len(q)
    BY <1>2
  <2>2. Head(q) = q[1] /\ 1 \in 1..Len(q)
    BY <1>2
  <2> QED BY <2>1, <2>2 DEF In
<1>3. ASSUME NEW x \in S, NEW m PROVE In(m, Append(q, x)) <=> In(m, q) \/ m = x
  <2> DEFINE r == Append(q, x)
             n == Len(q)
  <2>1. n \in Nat /\ Len(r) = n + 1 /\ r[n + 1] = x /\ \A i \in 1..n : r[i] = q[i]
    OBVIOUS
  <2>2. In(m, q) <=> \E i \in 1..n : q[i] = m
    BY DEF In
  <2>3. In(m, r) <=> \E i \in 1..Len(r) : r[i] = m
    BY DEF In
  <2> HIDE DEF r, n
  <2>4. In(m, r) <=> In(m, q) \/ m = x
    BY <2>1, <2>2, <2>3
  <2> QED BY <2>4 DEF r
<1> QED BY <1>1, <1>2, <1>3

\* What a broken connection leaves of a queue.
LEMMA CutQueue ==
    ASSUME NEW S, NEW q \in Seq(S), NEW i \in 0..Len(q)
    PROVE  /\ SubSeq(q, 1, i) \in Seq(S) /\ Len(SubSeq(q, 1, i)) = i
           /\ \A j \in 1..i : SubSeq(q, 1, i)[j] = q[j]
           /\ \A m : In(m, SubSeq(q, 1, i)) => In(m, q)
<1>1. SubSeq(q, 1, i) \in Seq(S) /\ Len(SubSeq(q, 1, i)) = i
      /\ \A j \in 1..i : SubSeq(q, 1, i)[j] = q[j] /\ j \in 1..Len(q)
  OBVIOUS
<1> QED BY <1>1 DEF In

\* Two frames are written one after the other.
LEMMA TwoFrames ==
    ASSUME NEW S, NEW q \in Seq(S), NEW x \in S, NEW y \in S
    PROVE  /\ q \o <<x>> = Append(q, x) /\ q \o <<>> = q
           /\ q \o <<x, y>> = Append(Append(q, x), y)
           /\ Append(q, x) \in Seq(S) /\ Append(Append(q, x), y) \in Seq(S)
  OBVIOUS

\* A candidate at the head is one that the room takes.
LEMMA OrderlyHead ==
    ASSUME NEW own, own # "candidate", NEW S, NEW q \in Seq(S), q # <<>>,
           NEW n \in Nat, NEW s \in Nat, Orderly(own, q, n, s), Head(q) = "candidate"
    PROVE  n < s
<1>1. 1 \in 1..Len(q) /\ q[1] = "candidate"
  OBVIOUS
<1>2. Ahead(own, q) = 0
  BY <1>1 DEF Ahead
<1>3. n + 1 <= s + Ahead(own, q)
  BY <1>1 DEF Orderly
<1> QED BY <1>2, <1>3

\* The room takes the frame at the head.
LEMMA OrderlyTail ==
    ASSUME NEW own, own # "candidate", NEW S, NEW q \in Seq(S), q # <<>>,
           NEW n \in Nat, NEW s \in Nat, Orderly(own, q, n, s), NEW t, t = Tail(q)
    PROVE  /\ Head(q) = own => /\ ~In(own, t) /\ Orderly(own, t, n, s)
                               /\ Short(own, q, n, s) => Short(own, t, n, s)
           /\ Head(q) = "candidate" => /\ Orderly(own, t, n + 1, s)
                                       /\ Short(own, q, n, s) => Short(own, t, n + 1, s)
           /\ Head(q) \notin {own, "candidate"} => /\ Orderly(own, t, n, s)
                                                   /\ Short(own, q, n, s) => Short(own, t, n, s)
<1> DEFINE k == Len(q)
<1>1. k \in Nat /\ k > 0 /\ Len(t) = k - 1 /\ Head(q) = q[1]
      /\ \A i \in 1..Len(t) : t[i] = q[i + 1]
  OBVIOUS
<1>2. /\ \A i \in 1..k : q[i] = own => i = 1
      /\ \A i \in 1..k : q[i] = "candidate" => n + i <= s + Ahead(own, q)
  BY DEF Orderly
<1>3. Ahead(own, q) = IF q[1] = own THEN 1 ELSE 0
  BY DEF Ahead
<1>t. t = <<>> \/ Len(t) > 0
  OBVIOUS
<1> HIDE DEF k
<1>4. Ahead(own, t) = 0
  <2>1. t # <<>> => t[1] # own
    BY <1>1, <1>2, <1>t
  <2> QED BY <2>1 DEF Ahead
<1>5. \A i \in 1..Len(t) : t[i] # own
  BY <1>1, <1>2
<1> DEFINE a == Ahead(own, q)
<1>a. a \in {0, 1} /\ (q[1] = own => a = 1) /\ (q[1] # own => a = 0)
  BY <1>3
<1>b. \A i \in 1..k : q[i] = "candidate" => n + i <= s + a
  BY <1>2
<1>8. Short(own, q, n, s) <=> n + k <= s + a
  BY DEF Short, k
<1> HIDE DEF a
<1>6. ASSUME NEW i \in 1..Len(t), t[i] = "candidate" PROVE n + (i + 1) <= s + a
  <2>1. i + 1 \in 1..k /\ q[i + 1] = "candidate"
    BY <1>1, <1>6
  <2> QED BY <1>b, <2>1
<1>7. q[1] = "candidate" => n + 1 <= s
  BY <1>1, <1>a, <1>b
<1>9. \A b \in Nat : Short(own, t, b, s) <=> b + Len(t) <= s
  BY <1>4, <1>1 DEF Short
<1>10. \A b : Orderly(own, t, b, s) <=> \A i \in 1..Len(t) : t[i] = "candidate" => b + i <= s
  <2>1. s + 0 = s
    OBVIOUS
  <2> QED BY <1>4, <1>5, <2>1, Zenon DEF Orderly
<1>11. Head(q) = own => /\ ~In(own, t) /\ Orderly(own, t, n, s)
                        /\ Short(own, q, n, s) => Short(own, t, n, s)
  <2> SUFFICES ASSUME Head(q) = own
               PROVE  /\ ~In(own, t) /\ Orderly(own, t, n, s)
                      /\ Short(own, q, n, s) => Short(own, t, n, s)
    OBVIOUS
  <2>1. ~In(own, t) /\ a = 1
    BY <1>1, <1>5, <1>a DEF In
  <2>2. \A i \in 1..Len(t) : t[i] = "candidate" => n + i <= s
    BY <1>1, <1>6, <2>1
  <2>3. Short(own, q, n, s) => Short(own, t, n, s)
    BY <1>1, <1>8, <1>9, <2>1
  <2> QED BY <1>10, <2>1, <2>2, <2>3
<1>12. Head(q) = "candidate" => /\ Orderly(own, t, n + 1, s)
                                /\ Short(own, q, n, s) => Short(own, t, n + 1, s)
  <2> SUFFICES ASSUME Head(q) = "candidate"
               PROVE  /\ Orderly(own, t, n + 1, s)
                      /\ Short(own, q, n, s) => Short(own, t, n + 1, s)
    OBVIOUS
  <2>1. n + 1 <= s /\ a = 0
    BY <1>1, <1>7, <1>a
  <2>2. \A i \in 1..Len(t) : t[i] = "candidate" => (n + 1) + i <= s
    BY <1>1, <1>6, <2>1
  <2>3. Short(own, q, n, s) => Short(own, t, n + 1, s)
    BY <1>1, <1>8, <1>9, <2>1
  <2> QED BY <1>10, <2>1, <2>2, <2>3
<1>13. Head(q) \notin {own, "candidate"} => /\ Orderly(own, t, n, s)
                                            /\ Short(own, q, n, s) => Short(own, t, n, s)
  <2> SUFFICES ASSUME Head(q) \notin {own, "candidate"}
               PROVE  /\ Orderly(own, t, n, s)
                      /\ Short(own, q, n, s) => Short(own, t, n, s)
    OBVIOUS
  <2>1. a = 0
    BY <1>1, <1>a
  <2>2. \A i \in 1..Len(t) : t[i] = "candidate" => n + i <= s
    BY <1>1, <1>6, <2>1
  <2>3. Short(own, q, n, s) => Short(own, t, n, s)
    BY <1>1, <1>8, <1>9, <2>1
  <2> QED BY <1>10, <2>2, <2>3
<1> QED BY <1>11, <1>12, <1>13

\* A peer writes its description, a candidate or something else.
LEMMA OrderlyAppend ==
    ASSUME NEW own, own # "candidate", NEW S, NEW q \in Seq(S),
           NEW n \in Nat, NEW s \in Nat, own \in S, "candidate" \in S
    PROVE  /\ Orderly(own, q, n, s) =>
                  \A x \in S \ {own, "candidate"} : Orderly(own, Append(q, x), n, s)
           /\ Orderly(own, q, n, s) /\ Short(own, q, n, s) =>
                  /\ Orderly(own, Append(q, "candidate"), n, s + 1)
                  /\ Short(own, Append(q, "candidate"), n, s + 1)
           /\ q = <<>> /\ n <= s =>
                  Orderly(own, Append(q, own), n, s) /\ Short(own, Append(q, own), n, s)
<1> DEFINE k == Len(q)
<1>0. k \in Nat
  OBVIOUS
<1>1. ASSUME NEW x \in S, x # own
      PROVE  /\ Len(Append(q, x)) = k + 1 /\ Append(q, x)[k + 1] = x
             /\ \A i \in 1..k : Append(q, x)[i] = q[i]
             /\ Ahead(own, Append(q, x)) = Ahead(own, q)
  <2> DEFINE r == Append(q, x)
  <2>1. Len(r) = k + 1 /\ r[k + 1] = x /\ (\A i \in 1..k : r[i] = q[i])
    OBVIOUS
  <2>0. r # <<>>
    OBVIOUS
  <2>2. q = <<>> <=> k = 0
    OBVIOUS
  <2> HIDE DEF r, k
  <2>3. Ahead(own, r) = Ahead(own, q)
    BY <1>0, <1>1, <2>0, <2>1, <2>2 DEF Ahead
  <2> QED BY <2>1, <2>3, Zenon DEF r
<1>2. ASSUME NEW x \in S, x \notin {own, "candidate"}, Orderly(own, q, n, s)
      PROVE  Orderly(own, Append(q, x), n, s)
  <2> DEFINE r == Append(q, x)
  <2>1. /\ Len(r) = k + 1 /\ r[k + 1] = x /\ (\A i \in 1..k : r[i] = q[i])
        /\ Ahead(own, r) = Ahead(own, q)
    BY <1>1, <1>2
  <2>2. /\ \A i \in 1..k : q[i] = own => i = 1
        /\ \A i \in 1..k : q[i] = "candidate" => n + i <= s + Ahead(own, q)
    BY <1>2 DEF Orderly
  <2> HIDE DEF r, k
  <2>3. Orderly(own, r, n, s)
    BY <1>0, <1>2, <2>1, <2>2 DEF Orderly
  <2> QED BY <2>3 DEF r
<1>3. ASSUME Orderly(own, q, n, s), Short(own, q, n, s)
      PROVE  /\ Orderly(own, Append(q, "candidate"), n, s + 1)
             /\ Short(own, Append(q, "candidate"), n, s + 1)
  <2> DEFINE r == Append(q, "candidate")
  <2>1. /\ Len(r) = k + 1 /\ r[k + 1] = "candidate" /\ (\A i \in 1..k : r[i] = q[i])
        /\ Ahead(own, r) = Ahead(own, q)
    BY <1>1
  <2>2. /\ \A i \in 1..k : q[i] = own => i = 1
        /\ \A i \in 1..k : q[i] = "candidate" => n + i <= s + Ahead(own, q)
    BY <1>3 DEF Orderly
  <2>3. n + k <= s + Ahead(own, q) /\ Ahead(own, q) \in Nat
    BY <1>3 DEF Short, Ahead
  <2> HIDE DEF r, k
  <2>4. Orderly(own, r, n, s + 1) /\ Short(own, r, n, s + 1)
    BY <1>0, <2>1, <2>2, <2>3 DEF Orderly, Short
  <2> QED BY <2>4 DEF r
<1>4. ASSUME q = <<>>, n <= s
      PROVE  Orderly(own, Append(q, own), n, s) /\ Short(own, Append(q, own), n, s)
  <2> DEFINE r == Append(q, own)
  <2>1. Len(r) = 1 /\ r[1] = own /\ r # <<>>
    BY <1>4
  <2> HIDE DEF r
  <2>2. Ahead(own, r) = 1
    BY <2>1 DEF Ahead
  <2>3. Orderly(own, r, n, s) /\ Short(own, r, n, s)
    BY <1>4, <2>1, <2>2 DEF Orderly, Short
  <2> QED BY <2>3 DEF r
<1> QED BY <1>2, <1>3, <1>4

\* What a broken connection leaves is in order.
LEMMA OrderlyCut ==
    ASSUME NEW own, NEW S, NEW q \in Seq(S),  NEW i \in 0..Len(q),
           NEW n \in Nat, NEW s \in Nat, Orderly(own, q, n, s)
    PROVE  Orderly(own, SubSeq(q, 1, i), n, s)
<1> DEFINE r == SubSeq(q, 1, i)
           k == Len(q)
<1>1. k \in Nat /\ Len(r) = i /\ i \in 0..k /\ \A j \in 1..i : r[j] = q[j]
  BY CutQueue
<1>2. (r = <<>> <=> i = 0) /\ (q = <<>> <=> k = 0)
  OBVIOUS
<1>3. /\ \A j \in 1..k : q[j] = own => j = 1
      /\ \A j \in 1..k : q[j] = "candidate" => n + j <= s + Ahead(own, q)
  BY DEF Orderly
<1> HIDE DEF r, k
<1>4. i > 0 => Ahead(own, r) = Ahead(own, q)
  BY <1>1, <1>2 DEF Ahead
<1>5. Orderly(own, r, n, s)
  BY <1>1, <1>3, <1>4 DEF Orderly
<1> QED BY <1>5 DEF r

-----------------------------------------------------------------------------
(* The kinds of steps, by what they do to each peer.                       *)

\* There are two peers.
LEMMA Pair ==
    \A p \in Peers : /\ Other(p) \in Peers /\ Other(p) # p /\ Other(Other(p)) = p
                     /\ \A q \in Peers : q = p \/ q = Other(p)
                     /\ p = "listener" \/ p = "joiner"
  BY DEF Peers, Other

\* Nothing of peer q changes.
Still(q) ==
    /\ pc'[q] = pc[q] /\ link'[q] = link[q] /\ up'[q] = up[q] /\ down'[q] = down[q]
    /\ ice'[q] = ice[q] /\ remote'[q] = remote[q] /\ cause'[q] = cause[q]

\* p sends its description, a candidate or the end of them.
Posts(p, m) ==
    /\ UNCHANGED <<room, cut>> /\ Still(Other(p))
    /\ link[p] = "open" /\ link'[p] = "open" /\ down'[p] = down[p]
    /\ remote'[p] = remote[p] /\ cause'[p] = cause[p]
    /\ up'[p] = Append(up[p], m)
    /\ \/ /\ m = Own(p) /\ pc[p] = "describing" /\ pc'[p] = "exchange"
          /\ ice'[p].started /\ ice'[p].sent = ice[p].sent /\ ice'[p].done = ice[p].done
       \/ /\ m = "candidate" /\ pc[p] = "exchange" /\ pc'[p] = "exchange"
          /\ ice[p].started /\ ice'[p].started /\ ~ice[p].done /\ ~ice'[p].done
          /\ ice'[p].sent = ice[p].sent + 1 /\ ice'[p].sent <= MaxCandidates
       \/ /\ m = "end_of_candidates" /\ pc[p] = "exchange"
          /\ ice[p].started /\ ice'[p].started /\ ~ice[p].done /\ ice'[p].done
          /\ ice'[p].sent = ice[p].sent
          /\ pc'[p] = IF remote[p].ended THEN "connecting" ELSE "exchange"

\* A frame that p does not expect where it is.
Unexpected(p, m) ==
    \/ pc[p] = "binding" /\ m # "bound"
    \/ pc[p] = "ready" /\ m # "peer_ready"
    \/ /\ pc[p] = "exchange" /\ ~remote[p].ended
       /\ \/ m \in {"bound", "peer_ready", "peer_left", "error", "close"}
          \/ m = "candidate" /\ TooMany(p)
          \/ m = "end_of_candidates" /\ ~remote[p].described
          \/ m \in {"offer", "answer"} /\ (m # Description(p) \/ remote[p].described)

\* Why the signaling of p fails: its socket is closed while it has something to send, the
\* room is gone before it has joined, or it reads what it does not expect.
Blames(p) ==
    \/ link[p] # "open" /\ pc[p] \in {"describing", "exchange"} /\ ~ice[p].done
    \/ p = "joiner" /\ pc[p] = "idle" /\ room.phase # "open" /\ pc["listener"] # "idle"
    \/ down[p] # <<>> /\ Unexpected(p, Head(down[p]))

\* p is through, well or not.
Ends(p) ==
    /\ UNCHANGED <<room, cut>> /\ Still(Other(p))
    /\ pc[p] \in Waiting \/ (p = "joiner" /\ pc[p] = "idle" /\ pc["listener"] # "idle")
    /\ pc'[p] \in Ended
    /\ pc'[p] = "connected" => pc[p] = "connecting" /\ cause'[p] = "none"
    /\ cause'[p] = "signaling" => Blames(p)
    /\ link'[p] = "closed" /\ down'[p] = <<>> /\ remote'[p] = remote[p]
    /\ up'[p] = up[p] \o (CASE link[p] = "none" -> <<>>
                            [] link[p] = "open" -> <<"leave", "gone">>
                            [] OTHER            -> <<"gone">>)
    /\ ice[p].started => ice'[p].started
    /\ ice[p].done => ice'[p].done
    /\ ice'[p].done => ice'[p].started
    /\ ice[p].sent <= ice'[p].sent /\ ice'[p].sent <= MaxCandidates
    /\ ice'[p].started => ice[p].started \/ pc[p] = "describing"

\* p reads what it expects.
Hears(p, m) ==
    /\ UNCHANGED <<room, cut>> /\ Still(Other(p))
    /\ down[p] # <<>> /\ Head(down[p]) = m /\ down'[p] = Tail(down[p])
    /\ up'[p] = up[p] /\ link'[p] = link[p] /\ ice'[p] = ice[p] /\ cause'[p] = cause[p]
    /\ \/ /\ m = "bound" /\ pc[p] = "binding" /\ pc'[p] = "ready" /\ remote'[p] = remote[p]
       \/ /\ m = "peer_ready" /\ pc[p] = "ready" /\ remote'[p] = remote[p]
          /\ pc'[p] = IF p = "joiner" THEN "describing" ELSE "exchange"
       \/ /\ m = Description(p) /\ pc[p] = "exchange" /\ ~remote[p].described /\ ~remote[p].ended
          /\ remote'[p].described /\ ~remote'[p].ended
          /\ remote'[p].applied + remote'[p].pending = remote[p].applied + remote[p].pending
          /\ pc'[p] = IF p = "listener" THEN "describing" ELSE "exchange"
       \/ /\ m = "candidate" /\ pc[p] = "exchange" /\ pc'[p] = "exchange" /\ ~remote[p].ended
          /\ remote'[p].described = remote[p].described /\ ~remote'[p].ended
          /\ remote'[p].applied + remote'[p].pending = remote[p].applied + remote[p].pending + 1
       \/ /\ m = "end_of_candidates" /\ pc[p] = "exchange" /\ ~remote[p].ended
          /\ remote[p].described /\ remote'[p].described /\ remote'[p].ended
          /\ remote'[p].applied + remote'[p].pending = remote[p].applied + remote[p].pending
          /\ pc'[p] = IF ice[p].done THEN "connecting" ELSE "exchange"

\* The room takes a frame of p; everything else of the peers but down stays.
Takes(p) ==
    /\ UNCHANGED <<link, pc, ice, remote, cause, cut>>
    /\ up[p] # <<>> /\ up'[p] = Tail(up[p]) /\ up'[Other(p)] = up[Other(p)]

\* The room binds p.
Binds(p) ==
    LET both == room.bound \cup {p} = Peers
        o == Other(p)
    IN /\ Takes(p) /\ room.phase = "open" /\ Head(up[p]) = "bind"
       /\ room' = [room EXCEPT !.bound = @ \cup {p}]
       /\ down'[p] = Tell(p, IF both THEN <<"bound", "peer_ready">> ELSE <<"bound">>)
       /\ down'[o] = Tell(o, IF both THEN <<"peer_ready">> ELSE <<>>)

\* The room forwards m of p.
Forwards(p, m) ==
    /\ Takes(p) /\ room.phase = "open" /\ room.bound = Peers
    /\ Head(up[p]) = m /\ m \in {Own(p), "candidate", "end_of_candidates"}
    /\ m = Own(p) => ~Forwarded(p)
    /\ room'.phase = room.phase /\ room'.bound = room.bound /\ ~room'.refused
    /\ room'.offered = (room.offered \/ m = "offer")
    /\ room'.answered = (room.answered \/ m = "answer")
    /\ room'.candidates[p] = IF m = "candidate" THEN room.candidates[p] + 1 ELSE room.candidates[p]
    /\ room'.candidates[Other(p)] = room.candidates[Other(p)]
    /\ down'[p] = down[p] /\ down'[Other(p)] = Tell(Other(p), <<m>>)

\* The room is closed, since p leaves or has gone.
Closes(p) ==
    /\ Takes(p) /\ room.phase = "open" /\ Head(up[p]) \in {"leave", "gone"}
    /\ room' = [room EXCEPT !.phase = "closed", !.bound = {}]
    /\ down'[p] = Tell(p, <<"close">>) /\ down'[Other(p)] = Tell(Other(p), <<"peer_left", "close">>)

\* The room takes no notice of what p has sent.
Ignores(p) ==
    /\ UNCHANGED <<room, down, link, pc, ice, remote, cause, cut>>
    /\ up'[Other(p)] = up[Other(p)] /\ up[p] # <<>>
    /\ \/ room.phase # "open" /\ up'[p] = <<>>
       \/ Head(up[p]) \in {"leave", "gone"} /\ p \notin room.bound /\ up'[p] = Tail(up[p])

\* p opens its socket and asks to be bound; the listener has made the room.
Opens(p) ==
    /\ pc[p] = "idle" /\ pc'[p] = "binding" /\ link'[p] = "open" /\ up'[p] = <<"bind">>
    /\ down'[p] = down[p] /\ ice'[p] = ice[p] /\ remote'[p] = remote[p] /\ cause'[p] = cause[p]
    /\ Still(Other(p)) /\ cut' = cut
    /\ \/ p = "joiner" /\ room' = room /\ room.phase = "open"
       \/ p = "listener" /\ room' = [room EXCEPT !.phase = "open"]

\* The room expires.
Expires ==
    /\ UNCHANGED <<up, link, pc, ice, remote, cause>> /\ cut' /\ room.phase = "open"
    /\ room' = [room EXCEPT !.phase = "closed", !.bound = {}]
    /\ \A p \in Peers : down'[p] = Tell(p, <<"error", "close">>)

\* p sees that its socket is closed.
Shuts(p) ==
    /\ UNCHANGED <<room, up, down, pc, ice, remote, cause, cut>>
    /\ link[p] = "open" /\ In("close", down[p])
    /\ link'[p] = "closed" /\ link'[Other(p)] = link[Other(p)]

\* The connection of p is lost.
Loses(p) ==
    /\ UNCHANGED <<room, pc, ice, remote, cause>> /\ cut' /\ Still(Other(p))
    /\ link[p] = "open" /\ link'[p] = "closed"
    /\ \E i \in 0..Len(up[p]), j \in 0..Len(down[p]) :
          /\ up'[p] = Append(SubSeq(up[p], 1, i), "gone")
          /\ down'[p] = Append(SubSeq(down[p], 1, j), "close")

Rests == UNCHANGED <<room, up, down, link, pc, ice, remote, cause, cut>>

Kinds ==
    \/ Expires \/ Rests
    \/ \E p \in Peers :
          \/ Ends(p) \/ Binds(p) \/ Closes(p) \/ Ignores(p) \/ Opens(p) \/ Shuts(p) \/ Loses(p)
          \/ \E m : Posts(p, m) \/ Hears(p, m) \/ Forwards(p, m)

-----------------------------------------------------------------------------
(* Each kind of step keeps what the room relies on.                        *)

\* What TypeOK says of one peer.
LEMMA Types ==
    ASSUME TypeOK, NEW p \in Peers
    PROVE  /\ up[p] \in Seq(UpFrames(p)) /\ down[p] \in Seq(DownFrames(p))
           /\ pc[p] \in Places /\ link[p] \in {"none", "open", "closed"}
           /\ ice[p].sent \in Nat /\ ice[p].total \in Nat /\ ice[p].started \in BOOLEAN /\ ice[p].done \in BOOLEAN
           /\ remote[p].described \in BOOLEAN /\ remote[p].ended \in BOOLEAN
           /\ remote[p].pending \in Nat /\ remote[p].applied \in Nat
           /\ room.phase \in {"none", "open", "closed"} /\ room.bound \subseteq Peers
           /\ room.offered \in BOOLEAN /\ room.answered \in BOOLEAN /\ room.refused \in BOOLEAN
           /\ room.candidates \in [Peers -> Nat] /\ room.candidates[p] \in Nat /\ Forwarded(p) \in BOOLEAN
           /\ Own(p) \in {"offer", "answer"} /\ MaxCandidates \in Nat
<1>1. /\ up[p] \in Seq(UpFrames(p)) /\ down[p] \in Seq(DownFrames(p))
      /\ pc[p] \in Places /\ link[p] \in {"none", "open", "closed"}
  BY DEF TypeOK
<1>2. ice[p].sent \in Nat /\ ice[p].total \in Nat /\ ice[p].started \in BOOLEAN /\ ice[p].done \in BOOLEAN
  BY DEF TypeOK, IceType
<1>3. /\ remote[p].described \in BOOLEAN /\ remote[p].ended \in BOOLEAN
      /\ remote[p].pending \in Nat /\ remote[p].applied \in Nat
  BY DEF TypeOK, RemoteType
<1>4. /\ room.phase \in {"none", "open", "closed"} /\ room.bound \subseteq Peers
      /\ room.offered \in BOOLEAN /\ room.answered \in BOOLEAN /\ room.refused \in BOOLEAN
      /\ room.candidates \in [Peers -> Nat]
  BY DEF TypeOK, RoomType
<1>5. Forwarded(p) \in BOOLEAN /\ Own(p) \in {"offer", "answer"} /\ MaxCandidates \in Nat
  BY <1>4, CandidateAssumption DEF Forwarded, Own
<1> QED BY <1>1, <1>2, <1>3, <1>4, <1>5

\* A peer that a step leaves alone, in a room that it leaves alone.
LEMMA StillUpright ==
    ASSUME NEW q \in Peers, Upright(q), Still(q), room' = room
    PROVE  Upright(q)'
<1> USE DEF Still
<1>1. Order(q)' BY DEF Upright, Order
<1>2. Meet(q)' BY DEF Upright, Meet
<1>3. Frames(q)' BY DEF Upright, Frames, Forwarded
<1> QED BY <1>1, <1>2, <1>3 DEF Upright

\* The peers' frames.
LEMMA FrameFacts ==
    ASSUME NEW p \in Peers
    PROVE  /\ Own(p) \in UpFrames(p) /\ "candidate" \in UpFrames(p) /\ "end_of_candidates" \in UpFrames(p)
           /\ "leave" \in UpFrames(p) /\ "gone" \in UpFrames(p) /\ "bind" \in UpFrames(p)
           /\ Own(p) \in {"offer", "answer"} /\ (p = "listener" => Own(p) = "answer") /\ (p = "joiner" => Own(p) = "offer")
           /\ Description(p) = Own(Other(p))
           /\ "bound" \in DownFrames(p) /\ "peer_ready" \in DownFrames(p) /\ Description(p) \in DownFrames(p)
           /\ "candidate" \in DownFrames(p) /\ "end_of_candidates" \in DownFrames(p)
           /\ "peer_left" \in DownFrames(p) /\ "error" \in DownFrames(p) /\ "close" \in DownFrames(p)
  BY DEF Own, UpFrames, DownFrames, Description, Other, Peers

\* Posting keeps the order.
LEMMA PostsUpright ==
    ASSUME TypeOK, NEW p \in Peers, NEW m, Posts(p, m), Upright(p)
    PROVE  Upright(p)'
<1>0. /\ room' = room /\ link[p] = "open" /\ link'[p] = "open" /\ down'[p] = down[p]
      /\ remote'[p] = remote[p] /\ up'[p] = Append(up[p], m)
  BY DEF Posts
<1>a. Forwarded(p)' = Forwarded(p)
  BY <1>0 DEF Forwarded
<1>t. /\ up[p] \in Seq(UpFrames(p)) /\ Own(p) \in UpFrames(p) /\ "candidate" \in UpFrames(p)
      /\ "end_of_candidates" \in UpFrames(p) /\ Own(p) \in {"offer", "answer"}
      /\ ice[p].sent \in Nat /\ room.candidates[p] \in Nat /\ Forwarded(p) \in BOOLEAN
      /\ Own(p) # "candidate" /\ Own(p) # "end_of_candidates"
      /\ (p = "listener" => Own(p) = "answer") /\ (p = "joiner" => Own(p) = "offer")
  BY Types, FrameFacts
<1>b. /\ m \in UpFrames(p)
      /\ \A x : In(x, up'[p]) <=> In(x, up[p]) \/ x = m
  BY <1>0, <1>t, InQueue DEF Posts
<1>1. Order(p)'
  BY <1>0, <1>t DEF Upright, Order, Posts, Waiting
<1>2. Meet(p)'
  BY <1>0, <1>b DEF Upright, Meet, Posts
<1>3. Frames(p)'
  <2> SUFFICES ASSUME room.phase = "open" PROVE Frames(p)'
    BY <1>0 DEF Frames
  <2> DEFINE own == Own(p)
             q == up[p]
             n == room.candidates[p]
             s == ice[p].sent
  <2>0. /\ Orderly(own, q, n, s)
        /\ ~ice[p].started => ~Forwarded(p) /\ ~In(own, q) /\ q = IF p \in room.bound THEN <<>> ELSE <<"bind">>
        /\ In(own, q) => ~Forwarded(p)
        /\ ice[p].started /\ ~ice[p].done => Short(own, q, n, s)
        /\ p = "listener" /\ In("answer", q) => room.offered
        /\ n <= s
    BY <1>0 DEF Upright, Frames, Order
  <2>1. CASE /\ m = own /\ pc[p] = "describing"
             /\ ice'[p].started /\ ice'[p].sent = ice[p].sent /\ ice'[p].done = ice[p].done
    <3>1. ~ice[p].started /\ room.bound = Peers /\ p \in room.bound /\ q = <<>> /\ ~Forwarded(p)
      BY <2>0, <2>1 DEF Upright, Order, Meet
    <3>2. p = "listener" => room.offered
      BY <2>1 DEF Upright, Order
    <3>3. Orderly(own, Append(q, own), n, s) /\ Short(own, Append(q, own), n, s)
      <4> HIDE DEF own, q, n, s
      <4>1. own # "candidate" /\ own \in UpFrames(p) /\ "candidate" \in UpFrames(p) /\ q \in Seq(UpFrames(p))
            /\ n \in Nat /\ s \in Nat
        BY <1>t DEF own, q, n, s
      <4> QED BY <2>0, <3>1, <4>1, OrderlyAppend, Zenon
    <3> QED BY <1>0, <1>a, <2>1, <3>1, <3>2, <3>3 DEF Frames
  <2>2. CASE /\ m = "candidate" /\ ice[p].started /\ ice'[p].started /\ ~ice[p].done /\ ~ice'[p].done
             /\ ice'[p].sent = ice[p].sent + 1
    <3>1. Orderly(own, Append(q, m), n, s + 1) /\ Short(own, Append(q, m), n, s + 1)
      <4> HIDE DEF own, q, n, s
      <4>1. own # "candidate" /\ own \in UpFrames(p) /\ "candidate" \in UpFrames(p) /\ q \in Seq(UpFrames(p))
            /\ n \in Nat /\ s \in Nat
        BY <1>t DEF own, q, n, s
      <4> QED BY <2>0, <2>2, <4>1, OrderlyAppend, Zenon
    <3>2. (p = "listener" /\ In("answer", up'[p]) => room.offered) /\ (In(own, up'[p]) => ~Forwarded(p))
      BY <1>b, <1>t, <2>0, <2>2
    <3> QED BY <1>0, <1>a, <2>2, <3>1, <3>2 DEF Frames
  <2>3. CASE /\ m = "end_of_candidates" /\ ice[p].started /\ ice'[p].started /\ ice'[p].done
             /\ ice'[p].sent = ice[p].sent
    <3>1. Orderly(own, Append(q, m), n, s)
      <4> HIDE DEF own, q, n, s
      <4>1. own # "candidate" /\ own \in UpFrames(p) /\ "candidate" \in UpFrames(p) /\ q \in Seq(UpFrames(p))
            /\ n \in Nat /\ s \in Nat /\ m \in UpFrames(p) \ {own, "candidate"}
        BY <1>t, <2>3 DEF own, q, n, s
      <4> QED BY <2>0, <4>1, OrderlyAppend
    <3>2. (p = "listener" /\ In("answer", up'[p]) => room.offered) /\ (In(own, up'[p]) => ~Forwarded(p))
      BY <1>b, <1>t, <2>0, <2>3
    <3> QED BY <1>0, <1>a, <2>3, <3>1, <3>2 DEF Frames
  <2> QED BY <2>1, <2>2, <2>3 DEF Posts
<1> QED BY <1>1, <1>2, <1>3 DEF Upright

\* A closing peer adds nothing but that it closes.
LEMMA Closing ==
    ASSUME NEW p \in Peers, NEW q \in Seq(UpFrames(p)),
           NEW r, r \in {q, Append(q, "gone"), Append(Append(q, "leave"), "gone")}
    PROVE  /\ r \in Seq(UpFrames(p)) /\ \A x : In(x, r) => In(x, q) \/ x \in {"leave", "gone"}
           /\ \A n, s \in Nat :
                 Orderly(Own(p), q, n, s) => Orderly(Own(p), r, n, s)
<1>0. /\ "leave" \in UpFrames(p) /\ "gone" \in UpFrames(p) /\ Own(p) \in UpFrames(p) /\ "candidate" \in UpFrames(p)
      /\ Own(p) \notin {"leave", "gone", "candidate"}
  BY FrameFacts
<1>1. r = q \/ r = Append(q, "gone") \/ r = Append(Append(q, "leave"), "gone")
  OBVIOUS
<1>2. Append(q, "gone") \in Seq(UpFrames(p)) /\ Append(q, "leave") \in Seq(UpFrames(p))
      /\ Append(Append(q, "leave"), "gone") \in Seq(UpFrames(p))
  BY <1>0, TwoFrames
<1>3. \A x : In(x, r) => In(x, q) \/ x \in {"leave", "gone"}
  <2>1. \A x : In(x, Append(q, "gone")) => In(x, q) \/ x = "gone"
    BY <1>0, InQueue
  <2>2. \A x : In(x, Append(q, "leave")) => In(x, q) \/ x = "leave"
    BY <1>0, InQueue
  <2> DEFINE t == Append(q, "leave")
  <2>3. \A x : In(x, Append(t, "gone")) => In(x, t) \/ x = "gone"
    <3> HIDE DEF t
    <3>1. t \in Seq(UpFrames(p))
      BY <1>2 DEF t
    <3> QED BY <1>0, <3>1, InQueue
  <2> QED BY <1>1, <2>1, <2>2, <2>3, Zenon
<1>4. ASSUME NEW n \in Nat, NEW s \in Nat, Orderly(Own(p), q, n, s)
      PROVE  Orderly(Own(p), r, n, s)
  <2> DEFINE t == Append(q, "leave")
  <2>1. Orderly(Own(p), Append(q, "gone"), n, s) /\ Orderly(Own(p), t, n, s)
    BY <1>0, <1>4, OrderlyAppend
  <2>2. Orderly(Own(p), Append(t, "gone"), n, s)
    <3>1. t \in Seq(UpFrames(p))
      BY <1>2
    <3> HIDE DEF t
    <3> QED BY <1>0, <2>1, <3>1, OrderlyAppend
  <2> QED BY <1>1, <1>4, <2>1, <2>2, Zenon
<1>5. r \in Seq(UpFrames(p))
  BY <1>1, <1>2
<1> QED BY <1>3, <1>4, <1>5

\* More candidates of one's own leave a queue in order.
LEMMA OrderlyMore ==
    ASSUME NEW own, NEW S, NEW q \in Seq(S), NEW n \in Nat, NEW s \in Nat, NEW s2 \in Nat, s <= s2,
           Orderly(own, q, n, s)
    PROVE  Orderly(own, q, n, s2)
<1>1. Ahead(own, q) \in Nat /\ Len(q) \in Nat
  BY DEF Ahead
<1> QED BY <1>1 DEF Orderly

\* Ending keeps the order.
LEMMA EndsUpright ==
    ASSUME TypeOK, TypeOK', NEW p \in Peers, Ends(p), Upright(p)
    PROVE  Upright(p)'
<1>0. /\ room' = room /\ link'[p] = "closed" /\ down'[p] = <<>> /\ remote'[p] = remote[p]
      /\ pc'[p] \in {"connected", "failed"}
      /\ up'[p] = up[p] \o (CASE link[p] = "none" -> <<>>
                              [] link[p] = "open" -> <<"leave", "gone">>
                              [] OTHER            -> <<"gone">>)
  BY DEF Ends, Ended
<1>a. Forwarded(p)' = Forwarded(p)
  BY <1>0 DEF Forwarded
<1>t. /\ up[p] \in Seq(UpFrames(p)) /\ Own(p) \in {"offer", "answer"}
      /\ ice[p].sent \in Nat /\ ice'[p].sent \in Nat /\ room.candidates[p] \in Nat /\ Forwarded(p) \in BOOLEAN
      /\ MaxCandidates \in Nat
      /\ (p = "listener" => Own(p) = "answer")
  <2>1. ice'[p].sent \in Nat
    BY DEF TypeOK, IceType
  <2> QED BY <2>1, Types, FrameFacts
<1>b. /\ up'[p] \in Seq(UpFrames(p)) /\ \A x : In(x, up'[p]) => In(x, up[p]) \/ x \in {"leave", "gone"}
      /\ \A n, s \in Nat :
            Orderly(Own(p), up[p], n, s) => Orderly(Own(p), up'[p], n, s)
  <2> DEFINE q == up[p]
             l == link[p]
             r == up'[p]
  <2>0. q \in Seq(UpFrames(p))
        /\ r = q \o (CASE l = "none" -> <<>> [] l = "open" -> <<"leave", "gone">> [] OTHER -> <<"gone">>)
    BY <1>0, <1>t
  <2> HIDE DEF q, l, r
  <2>1. r \in {q, Append(q, "gone"), Append(Append(q, "leave"), "gone")}
    <3>1. "leave" \in UpFrames(p) /\ "gone" \in UpFrames(p)
      BY FrameFacts
    <3>2. q \o <<"leave", "gone">> = Append(Append(q, "leave"), "gone") /\ q \o <<>> = q
          /\ q \o <<"gone">> = Append(q, "gone")
      BY <2>0, <3>1, TwoFrames
    <3>3. r \in {q \o <<>>, q \o <<"gone">>, q \o <<"leave", "gone">>}
      BY <2>0
    <3> QED BY <3>2, <3>3
  <2>2. /\ r \in Seq(UpFrames(p)) /\ \A x : In(x, r) => In(x, q) \/ x \in {"leave", "gone"}
        /\ \A n, s \in Nat :
              Orderly(Own(p), q, n, s) => Orderly(Own(p), r, n, s)
    <3>1. q \in Seq(UpFrames(p))
      BY <2>0
    <3> QED BY <2>1, <3>1, Closing
  <2> QED BY <2>2 DEF q, r
<1>c. ~In("offer", <<>>) /\ ~In("peer_ready", <<>>) /\ ~In("bound", <<>>)
  BY DEF In
<1>1. Order(p)'
  BY <1>0, <1>c, <1>t DEF Upright, Order, Ends, Waiting
<1>2. Meet(p)'
  <2>1. \A m \in {Own(p), "candidate", "end_of_candidates"} : In(m, up'[p]) => In(m, up[p])
    BY <1>b, <1>t
  <2> QED BY <1>0, <1>c, <2>1 DEF Upright, Meet, Ends
<1>3. Frames(p)'
  <2> SUFFICES ASSUME room.phase = "open" PROVE Frames(p)'
    BY <1>0 DEF Frames
  <2>1. Orderly(Own(p), up[p], room.candidates[p], ice'[p].sent)
    <3>1. ice[p].sent <= ice'[p].sent /\ Orderly(Own(p), up[p], room.candidates[p], ice[p].sent)
      BY DEF Ends, Upright, Frames
    <3> QED BY <1>t, <3>1, OrderlyMore
  <2>2. Orderly(Own(p), up'[p], room.candidates[p], ice'[p].sent)
    BY <1>b, <1>t, <2>1
  <2>3. /\ ~ice'[p].started => ~Forwarded(p) /\ ~In(Own(p), up'[p])
        /\ In(Own(p), up'[p]) => ~Forwarded(p)
    BY <1>b, <1>t, Zenon DEF Ends, Upright, Frames
  <2>4. p = "listener" /\ In("answer", up'[p]) => room.offered
    BY <1>b, <1>t DEF Upright, Frames
  <2> QED BY <1>0, <1>a, <2>2, <2>3, <2>4 DEF Frames
<1> QED BY <1>1, <1>2, <1>3 DEF Upright

\* Reading keeps the order.
LEMMA HearsUpright ==
    ASSUME TypeOK, NEW p \in Peers, NEW m, Hears(p, m), Upright(p)
    PROVE  Upright(p)'
<1>0. /\ room' = room /\ down[p] # <<>> /\ Head(down[p]) = m /\ down'[p] = Tail(down[p])
      /\ up'[p] = up[p] /\ link'[p] = link[p] /\ ice'[p] = ice[p]
  BY DEF Hears
<1>t. down[p] \in Seq(DownFrames(p)) /\ (p = "listener" => Description(p) = "offer") /\ (p = "listener" \/ p = "joiner")
      /\ Description(p) \in {"offer", "answer"}
  BY Types, Pair, Zenon DEF Description
<1>b. In(m, down[p]) /\ \A x : In(x, down'[p]) => In(x, down[p])
  BY <1>0, <1>t, InQueue
<1>1. Order(p)'
  BY <1>0, <1>b, <1>t DEF Upright, Order, Hears, Waiting
<1>2. Meet(p)'
  BY <1>0, <1>b, <1>t DEF Upright, Meet, Hears
<1>3. Frames(p)'
  BY <1>0 DEF Upright, Frames, Forwarded
<1> QED BY <1>1, <1>2, <1>3 DEF Upright

\* What the room tells a peer comes after what it has told it.
LEMMA Told ==
    ASSUME TypeOK, NEW p \in Peers, NEW x \in DownFrames(p), NEW y \in DownFrames(p)
    PROVE  /\ Tell(p, <<>>) = down[p]
           /\ \A f : link[p] # "open" => Tell(p, f) = down[p]
           /\ link[p] = "open" => /\ Tell(p, <<x>>) = Append(down[p], x)
                                  /\ Tell(p, <<x, y>>) = Append(Append(down[p], x), y)
           /\ Tell(p, <<x>>) \in Seq(DownFrames(p)) /\ Tell(p, <<x, y>>) \in Seq(DownFrames(p))
           /\ \A m : In(m, Tell(p, <<x>>)) => In(m, down[p]) \/ m = x
           /\ \A m : In(m, Tell(p, <<x, y>>)) => In(m, down[p]) \/ m \in {x, y}
<1> DEFINE q == down[p]
<1>1. q \in Seq(DownFrames(p))
  BY Types
<1>2. /\ Tell(p, <<>>) = IF link[p] = "open" THEN q \o <<>> ELSE q
      /\ Tell(p, <<x>>) = IF link[p] = "open" THEN q \o <<x>> ELSE q
      /\ Tell(p, <<x, y>>) = IF link[p] = "open" THEN q \o <<x, y>> ELSE q
      /\ \A f : link[p] # "open" => Tell(p, f) = q
  BY DEF Tell
<1> HIDE DEF q
<1>3. /\ q \o <<x>> = Append(q, x) /\ q \o <<>> = q /\ q \o <<x, y>> = Append(Append(q, x), y)
      /\ Append(q, x) \in Seq(DownFrames(p)) /\ Append(Append(q, x), y) \in Seq(DownFrames(p))
  BY <1>1, TwoFrames
<1>4. \A m : In(m, Append(q, x)) => In(m, q) \/ m = x
  BY <1>1, InQueue
<1>5. \A m : In(m, Append(Append(q, x), y)) => In(m, q) \/ m \in {x, y}
  <2> DEFINE r == Append(q, x)
  <2>1. r \in Seq(DownFrames(p)) /\ \A m : In(m, r) => In(m, q) \/ m = x
    BY <1>3, <1>4
  <2> HIDE DEF r
  <2>2. \A m : In(m, Append(r, y)) => In(m, r) \/ m = y
    BY <2>1, InQueue
  <2>3. \A m : In(m, Append(r, y)) => In(m, q) \/ m \in {x, y}
    BY <2>1, <2>2
  <2> QED BY <2>3 DEF r
<1>6. /\ Tell(p, <<>>) = q /\ (\A f : link[p] # "open" => Tell(p, f) = q)
      /\ link[p] = "open" => Tell(p, <<x>>) = Append(q, x) /\ Tell(p, <<x, y>>) = Append(Append(q, x), y)
  BY <1>2, <1>3, Zenon
<1>7. Tell(p, <<x>>) \in {q, Append(q, x)} /\ Tell(p, <<x, y>>) \in {q, Append(Append(q, x), y)}
  BY <1>6, Zenon
<1>8. Tell(p, <<x>>) \in Seq(DownFrames(p)) /\ Tell(p, <<x, y>>) \in Seq(DownFrames(p))
  BY <1>1, <1>3, <1>7, Zenon
<1>9. /\ \A m : In(m, Tell(p, <<x>>)) => In(m, q) \/ m = x
      /\ \A m : In(m, Tell(p, <<x, y>>)) => In(m, q) \/ m \in {x, y}
  BY <1>4, <1>5, <1>7, Zenon
<1> QED BY <1>6, <1>8, <1>9, Zenon DEF q

\* down'[q] holds what it held, and frames of X if q can still be told anything.
Learns(q, X) ==
    /\ \A m : In(m, down'[q]) => In(m, down[q]) \/ m \in X
    /\ link[q] # "open" => down'[q] = down[q]

\* What is told is learnt.
LEMMA ToldLearns ==
    ASSUME TypeOK, NEW p \in Peers, NEW x \in DownFrames(p), NEW y \in DownFrames(p)
    PROVE  /\ down'[p] = Tell(p, <<>>) => Learns(p, {})
           /\ down'[p] = Tell(p, <<x>>) => Learns(p, {x})
           /\ down'[p] = Tell(p, <<x, y>>) => Learns(p, {x, y})
<1>1. /\ Tell(p, <<>>) = down[p]
      /\ \A f : link[p] # "open" => Tell(p, f) = down[p]
      /\ \A m : In(m, Tell(p, <<x>>)) => In(m, down[p]) \/ m = x
      /\ \A m : In(m, Tell(p, <<x, y>>)) => In(m, down[p]) \/ m \in {x, y}
  BY Told
<1>2. down'[p] = Tell(p, <<>>) => Learns(p, {})
  BY <1>1 DEF Learns
<1>3. down'[p] = Tell(p, <<x>>) => Learns(p, {x})
  BY <1>1, Zenon DEF Learns
<1>4. down'[p] = Tell(p, <<x, y>>) => Learns(p, {x, y})
  BY <1>1, Zenon DEF Learns
<1> QED BY <1>2, <1>3, <1>4

\* What is told when a peer is bound, and when a room is closed.
LEMMA BindsTell ==
    ASSUME TypeOK, NEW p \in Peers, Binds(p)
    PROVE  /\ Learns(p, {"bound", "peer_ready"}) /\ Learns(Other(p), {"peer_ready"})
           /\ room'.bound # Peers => Learns(p, {"bound"}) /\ Learns(Other(p), {})
           /\ room'.bound = room.bound \cup {p}
<1> DEFINE o == Other(p)
           both == room.bound \cup {p} = Peers
<1>0. o \in Peers /\ "bound" \in DownFrames(p) /\ "peer_ready" \in DownFrames(p) /\ "peer_ready" \in DownFrames(o)
  BY Pair, FrameFacts
<1>1. /\ room' = [room EXCEPT !.bound = @ \cup {p}]
      /\ down'[p] = Tell(p, IF both THEN <<"bound", "peer_ready">> ELSE <<"bound">>)
      /\ down'[o] = Tell(o, IF both THEN <<"peer_ready">> ELSE <<>>)
  BY DEF Binds
<1>2. room'.bound = room.bound \cup {p}
  BY <1>1 DEF TypeOK, RoomType
<1> HIDE DEF o
<1>3. CASE both
  <2>1. down'[p] = Tell(p, <<"bound", "peer_ready">>) /\ down'[o] = Tell(o, <<"peer_ready">>)
    BY <1>1, <1>3
  <2>2. Learns(p, {"bound", "peer_ready"})
    BY <1>0, <2>1, ToldLearns, Zenon
  <2>3. Learns(o, {"peer_ready"})
    BY <1>0, <2>1, ToldLearns, Zenon
  <2> QED BY <1>2, <1>3, <2>2, <2>3 DEF o
<1>4. CASE ~both
  <2>1. down'[p] = Tell(p, <<"bound">>) /\ down'[o] = Tell(o, <<>>)
    BY <1>1, <1>4
  <2>2. Learns(p, {"bound"})
    BY <1>0, <2>1, ToldLearns, Zenon
  <2>3. Learns(o, {})
    BY <1>0, <2>1, ToldLearns, Zenon
  <2> QED BY <1>2, <2>2, <2>3 DEF o, Learns
<1> QED BY <1>3, <1>4 DEF o

\* What is told when a room is closed.
LEMMA ClosesTell ==
    ASSUME TypeOK, NEW p \in Peers
    PROVE  /\ Closes(p) => Learns(p, {"close"}) /\ Learns(Other(p), {"peer_left", "close"})
           /\ Expires => Learns(p, {"error", "close"})
<1>0. Other(p) \in Peers /\ "close" \in DownFrames(p) /\ "error" \in DownFrames(p)
      /\ "peer_left" \in DownFrames(Other(p)) /\ "close" \in DownFrames(Other(p))
  BY Pair, FrameFacts
<1>1. ASSUME Closes(p) PROVE Learns(p, {"close"}) /\ Learns(Other(p), {"peer_left", "close"})
  <2>1. down'[p] = Tell(p, <<"close">>) /\ down'[Other(p)] = Tell(Other(p), <<"peer_left", "close">>)
    BY <1>1 DEF Closes
  <2>2. Learns(p, {"close"})
    BY <1>0, <2>1, ToldLearns, Zenon
  <2>3. Learns(Other(p), {"peer_left", "close"})
    <3> DEFINE o == Other(p)
    <3>1. o \in Peers /\ "peer_left" \in DownFrames(o) /\ "close" \in DownFrames(o)
          /\ down'[o] = Tell(o, <<"peer_left", "close">>)
      BY <1>0, <2>1
    <3> HIDE DEF o
    <3>2. Learns(o, {"peer_left", "close"})
      BY <3>1, ToldLearns, Zenon
    <3> QED BY <3>2 DEF o
  <2> QED BY <2>2, <2>3
<1>2. ASSUME Expires PROVE Learns(p, {"error", "close"})
  <2>1. down'[p] = Tell(p, <<"error", "close">>)
    BY <1>2 DEF Expires
  <2> QED BY <1>0, <2>1, ToldLearns, Zenon
<1> QED BY <1>1, <1>2

\* What p's queue holds when the room has taken its head.
LEMMA Taking ==
    ASSUME TypeOK, NEW p \in Peers, up[p] # <<>>, up'[p] = Tail(up[p])
    PROVE  In(Head(up[p]), up[p]) /\ \A m : In(m, up'[p]) => In(m, up[p])
<1>1. up[p] \in Seq(UpFrames(p))
  BY Types
<1> QED BY <1>1, InQueue

\* What is left of an orderly queue when the room has taken its head.
LEMMA TakingOrder ==
    ASSUME TypeOK, NEW p \in Peers, up[p] # <<>>, up'[p] = Tail(up[p]), NEW own, own = Own(p),
           NEW n, n = room.candidates[p], NEW s, s = ice[p].sent, Orderly(own, up[p], n, s)
    PROVE  /\ Head(up[p]) = own => /\ ~In(own, up'[p]) /\ Orderly(own, up'[p], n, s)
                                   /\ Short(own, up[p], n, s) => Short(own, up'[p], n, s)
           /\ Head(up[p]) = "candidate" => /\ n < s /\ Orderly(own, up'[p], n + 1, s)
                                           /\ Short(own, up[p], n, s) => Short(own, up'[p], n + 1, s)
           /\ Head(up[p]) \notin {own, "candidate"} => /\ Orderly(own, up'[p], n, s)
                                                       /\ Short(own, up[p], n, s) => Short(own, up'[p], n, s)
<1> DEFINE q == up[p]
           t == up'[p]
<1>1. q \in Seq(UpFrames(p)) /\ q # <<>> /\ n \in Nat /\ s \in Nat /\ own # "candidate"
      /\ t = Tail(q) /\ Orderly(own, q, n, s)
  BY Types, Zenon
<1> HIDE DEF q, t
<1>2. /\ Head(q) = own => /\ ~In(own, t) /\ Orderly(own, t, n, s)
                          /\ Short(own, q, n, s) => Short(own, t, n, s)
      /\ Head(q) = "candidate" => /\ Orderly(own, t, n + 1, s)
                                  /\ Short(own, q, n, s) => Short(own, t, n + 1, s)
      /\ Head(q) \notin {own, "candidate"} => /\ Orderly(own, t, n, s)
                                              /\ Short(own, q, n, s) => Short(own, t, n, s)
  BY <1>1, OrderlyTail, Zenon
<1>3. Head(q) = "candidate" => n < s
  BY <1>1, OrderlyHead
<1> QED BY <1>2, <1>3, Zenon DEF q, t

\* Binding keeps the order.
LEMMA BindsUpright ==
    ASSUME TypeOK, NEW p \in Peers, Binds(p), \A q \in Peers : Upright(q)
    PROVE  \A q \in Peers : Upright(q)'
<1> DEFINE o == Other(p)
<1>0. /\ o \in Peers /\ o # p /\ \A q \in Peers : q = p \/ q = o
      /\ Own(p) \in {"offer", "answer"} /\ up[p] \in Seq(UpFrames(p))
      /\ ice[p].sent \in Nat /\ room.candidates[p] \in Nat /\ Forwarded(p) \in BOOLEAN
  BY Pair, Types
<1>1. /\ room.phase = "open" /\ room'.bound = room.bound \cup {p} /\ room'.phase = room.phase
      /\ room'.offered = room.offered /\ room'.answered = room.answered /\ room'.candidates = room.candidates
  BY DEF Binds, TypeOK, RoomType
<1>2. /\ link' = link /\ pc' = pc /\ ice' = ice /\ remote' = remote
      /\ up[p] # <<>> /\ up'[p] = Tail(up[p]) /\ up'[o] = up[o] /\ Head(up[p]) = "bind"
  BY DEF Binds, Takes
<1>3. /\ Learns(p, {"bound", "peer_ready"}) /\ Learns(o, {"peer_ready"})
      /\ room'.bound # Peers => Learns(p, {"bound"}) /\ Learns(o, {})
  BY BindsTell
<1>4. \A m : In(m, up'[p]) => In(m, up[p])
  BY <1>2, Taking
<1>5. Forwarded(p)' = Forwarded(p) /\ Forwarded(o)' = Forwarded(o)
  BY <1>1 DEF Forwarded
<1>6. room.bound = Peers => room'.bound = Peers
  BY <1>1
<1>7. p \in room'.bound /\ (o \in room'.bound <=> o \in room.bound)
  BY <1>0, <1>1
<1>u. Upright(p) /\ Upright(o)
  BY <1>0
<1> HIDE DEF o
<1>8. Order(p)'
  BY <1>1, <1>2, <1>3, <1>u DEF Upright, Order, Learns, Waiting
<1>9. Order(o)'
  BY <1>1, <1>2, <1>3, <1>u DEF Upright, Order, Learns
<1>10. Meet(p)'
  BY <1>1, <1>2, <1>3, <1>4, <1>6, <1>7, <1>u, ZenonT(30) DEF Upright, Meet, Learns
<1>11. Meet(o)'
  BY <1>1, <1>2, <1>3, <1>6, <1>7, <1>u DEF Upright, Meet, Learns
<1>12. Frames(p)'
  <2>1. /\ Orderly(Own(p), up'[p], room.candidates[p], ice[p].sent)
        /\ Short(Own(p), up[p], room.candidates[p], ice[p].sent) =>
              Short(Own(p), up'[p], room.candidates[p], ice[p].sent)
    <3>1. Orderly(Own(p), up[p], room.candidates[p], ice[p].sent) /\ Own(p) # "candidate"
          /\ Head(up[p]) \notin {Own(p), "candidate"}
      BY <1>0, <1>1, <1>2, <1>u, Zenon DEF Upright, Frames
    <3> QED BY <1>2, <3>1, TakingOrder, ZenonT(30)
  <2>2. link[p] = "open" /\ ~ice[p].started => up'[p] = <<>>
    <3>1. link[p] = "open" /\ ~ice[p].started => up[p] = <<"bind">>
      BY <1>1, <1>2, <1>u, Zenon DEF Upright, Frames
    <3>2. Tail(<<"bind">>) = <<>>
      OBVIOUS
    <3> QED BY <1>2, <3>1, <3>2, Zenon
  <2> QED BY <1>1, <1>2, <1>4, <1>5, <1>7, <1>u, <2>1, <2>2, ZenonT(30) DEF Upright, Frames
<1>13. Frames(o)'
  BY <1>1, <1>2, <1>5, <1>7, <1>u, Zenon DEF Upright, Frames
<1> QED BY <1>0, <1>8, <1>9, <1>10, <1>11, <1>12, <1>13 DEF Upright

\* Forwarding keeps the order.
LEMMA ForwardsUpright ==
    ASSUME TypeOK, NEW p \in Peers, NEW m, Forwards(p, m), \A q \in Peers : Upright(q)
    PROVE  \A q \in Peers : Upright(q)'
<1> DEFINE o == Other(p)
           own == Own(p)
           n == room.candidates[p]
           s == ice[p].sent
<1>0. /\ o \in Peers /\ o # p /\ \A q \in Peers : q = p \/ q = o
      /\ own \in {"offer", "answer"} /\ up[p] \in Seq(UpFrames(p))
      /\ s \in Nat /\ n \in Nat /\ Forwarded(p) \in BOOLEAN
      /\ (p = "joiner" => own = "offer" /\ o = "listener") /\ (p = "listener" => own = "answer" /\ o = "joiner")
      /\ (p = "joiner" \/ p = "listener")
  BY Pair, Types, FrameFacts DEF Other
<1>1. /\ room.phase = "open" /\ room'.bound = room.bound /\ room'.phase = room.phase /\ room.bound = Peers
      /\ room'.offered = (room.offered \/ m = "offer") /\ room'.answered = (room.answered \/ m = "answer")
      /\ room'.candidates[p] = IF m = "candidate" THEN n + 1 ELSE n
      /\ room'.candidates[o] = room.candidates[o]
      /\ m \in {own, "candidate", "end_of_candidates"}
  BY DEF Forwards
<1>2. /\ link' = link /\ pc' = pc /\ ice' = ice /\ remote' = remote
      /\ up[p] # <<>> /\ up'[p] = Tail(up[p]) /\ up'[o] = up[o] /\ Head(up[p]) = m
      /\ down'[p] = down[p]
  BY DEF Forwards, Takes
<1>3. Learns(o, {m})
  <2>1. down'[o] = Tell(o, <<m>>) /\ m \in DownFrames(o)
    <3>1. Description(o) = own /\ Description(o) \in DownFrames(o) /\ "candidate" \in DownFrames(o)
          /\ "end_of_candidates" \in DownFrames(o)
      BY Pair, FrameFacts
    <3> QED BY <1>1, <3>1 DEF Forwards
  <2> HIDE DEF o
  <2> QED BY <1>0, <2>1, ToldLearns, Zenon
<1>4. (\A x : In(x, up'[p]) => In(x, up[p])) /\ In(m, up[p])
  BY <1>2, Taking
<1>5. Forwarded(o)' = Forwarded(o) /\ (m = own => Forwarded(p)') /\ (m # own => Forwarded(p)' = Forwarded(p))
  <2>1. CASE p = "joiner"
    BY <1>0, <1>1, <2>1, Types, ZenonT(30) DEF Forwarded
  <2>2. CASE p = "listener"
    BY <1>0, <1>1, <2>2, Types, ZenonT(30) DEF Forwarded
  <2> QED BY <1>0, <2>1, <2>2
<1>u. Upright(p) /\ Upright(o)
  BY <1>0
<1>f. /\ Orderly(own, up[p], n, s)
      /\ link[p] = "open" /\ ice[p].started /\ ~ice[p].done => Short(own, up[p], n, s)
      /\ ice[p].started \/ (~Forwarded(p) /\ ~In(own, up[p]))
      /\ link[p] = "open" => ice[p].started
  <2>1. link[p] = "open" /\ ~ice[p].started => up[p] = <<"bind">>
    BY <1>1, <1>2, <1>u, ZenonT(30) DEF Upright, Frames
  <2>2. link[p] = "open" => ice[p].started
    BY <1>0, <1>1, <1>2, <2>1
  <2> QED BY <1>1, <1>u, <2>2, ZenonT(30) DEF Upright, Frames
<1>g. /\ own # "candidate"
      /\ m = own => ~In(own, up'[p]) /\ Orderly(own, up'[p], n, s)
                    /\ (Short(own, up[p], n, s) => Short(own, up'[p], n, s))
      /\ m = "candidate" => n < s /\ Orderly(own, up'[p], n + 1, s)
                    /\ (Short(own, up[p], n, s) => Short(own, up'[p], n + 1, s))
      /\ m \notin {own, "candidate"} => Orderly(own, up'[p], n, s)
                    /\ (Short(own, up[p], n, s) => Short(own, up'[p], n, s))
  <2>1. own # "candidate"
    BY <1>0, ZenonT(30)
  <2> QED BY <1>2, <1>f, <2>1, TakingOrder, ZenonT(30)
<1> HIDE DEF o
<1>8. Order(p)'
  <2>1. room'.candidates[p] <= ice[p].sent
    <3>1. n <= s
      BY <1>u, Zenon DEF Upright, Order
    <3> QED BY ONLY <1>0, <1>1, <1>g, <3>1
  <2> QED BY <1>1, <1>2, <1>u, <2>1, ZenonT(30) DEF Upright, Order, Waiting
<1>9. Order(o)'
  BY <1>0, <1>1, <1>2, <1>3, <1>u, Zenon DEF Upright, Order, Learns
<1>10. Meet(p)'
  BY <1>1 DEF Meet
<1>11. Meet(o)'
  BY <1>0, <1>1, <1>2, <1>3, <1>u DEF Upright, Meet, Learns
<1>12. Frames(p)'
  <2>1. ~ice[p].started => ~Forwarded(p)' /\ ~In(own, up'[p])
    BY <1>4, <1>5, <1>f
  <2>2. p = "listener" /\ In("answer", up'[p]) => room'.offered
    BY <1>1, <1>4, <1>u, ZenonT(30) DEF Upright, Frames
  <2>4. In(own, up'[p]) => ~Forwarded(p)'
    BY <1>1, <1>4, <1>5, <1>g, <1>u, ZenonT(30) DEF Upright, Frames
  <2>3. Orderly(own, up'[p], room'.candidates[p], s)
        /\ (Short(own, up[p], n, s) => Short(own, up'[p], room'.candidates[p], s))
    <3>1. CASE m = own
      <4>1. room'.candidates[p] = n
        BY <1>1, <1>g, <3>1
      <4> QED BY <1>g, <3>1, <4>1, ZenonT(30)
    <3>2. CASE m = "candidate"
      <4>1. room'.candidates[p] = n + 1 /\ Forwarded(p)' = Forwarded(p)
        BY <1>1, <1>5, <1>g, <3>2, ZenonT(30)
      <4> QED BY <1>g, <3>2, <4>1, ZenonT(30)
    <3>3. CASE m \notin {own, "candidate"}
      <4>1. room'.candidates[p] = n /\ Forwarded(p)' = Forwarded(p)
        BY <1>1, <1>5, <1>g, <3>3, ZenonT(30)
      <4> QED BY <1>g, <3>3, <4>1, ZenonT(30)
    <3> QED BY <3>1, <3>2, <3>3
  <2> QED BY <1>1, <1>2, <1>f, <2>1, <2>2, <2>3, <2>4 DEF Frames
<1>13. Frames(o)'
  BY <1>0, <1>1, <1>2, <1>5, <1>u, ZenonT(30) DEF Upright, Frames
<1> QED BY <1>0, <1>8, <1>9, <1>10, <1>11, <1>12, <1>13 DEF Upright

\* A room that is closed, by a peer or by its alarm, keeps the order.
LEMMA ClosingUpright ==
    ASSUME TypeOK, Expires \/ (\E p \in Peers : Closes(p)), \A q \in Peers : Upright(q)
    PROVE  \A q \in Peers : Upright(q)'
<1> SUFFICES ASSUME NEW q \in Peers PROVE Upright(q)'
  OBVIOUS
<1>0. /\ room'.phase = "closed" /\ room'.offered = room.offered /\ room'.candidates = room.candidates
      /\ link' = link /\ pc' = pc /\ ice' = ice /\ remote' = remote /\ room'.bound = {}
  BY Zenon DEF Expires, Closes, Takes, TypeOK, RoomType
<1>1. Learns(q, {"peer_left", "error", "close"})
  <2>1. CASE Expires
    BY <2>1, ClosesTell DEF Learns
  <2>2. ASSUME NEW p \in Peers, Closes(p) PROVE Learns(q, {"peer_left", "error", "close"})
    <3>1. Learns(p, {"close"}) /\ Learns(Other(p), {"peer_left", "close"}) /\ (q = p \/ q = Other(p))
      BY <2>2, ClosesTell, Pair
    <3> QED BY <3>1 DEF Learns
  <2> QED BY <2>1, <2>2
<1>2. up[q] = <<>> => up'[q] = <<>>
  <2>1. CASE Expires
    BY <2>1 DEF Expires
  <2>2. ASSUME NEW p \in Peers, Closes(p) PROVE up[q] = <<>> => up'[q] = <<>>
    BY <2>2, Pair DEF Closes, Takes
  <2> QED BY <2>1, <2>2
<1>3. Order(q)'
  BY <1>0, <1>1, <1>2 DEF Upright, Order, Learns
<1> QED BY <1>0, <1>3, Zenon DEF Upright, Meet, Frames

\* What the room does not heed keeps the order.
LEMMA IgnoresUpright ==
    ASSUME TypeOK, NEW p \in Peers, Ignores(p), \A q \in Peers : Upright(q)
    PROVE  \A q \in Peers : Upright(q)'
<1> DEFINE o == Other(p)
<1>0. /\ o \in Peers /\ \A q \in Peers : q = p \/ q = o
      /\ Own(p) \in {"offer", "answer"} /\ up[p] \in Seq(UpFrames(p)) /\ Upright(p)
  BY Pair, Types
<1>1. /\ room' = room /\ down' = down /\ link' = link /\ pc' = pc /\ ice' = ice /\ remote' = remote
      /\ cause' = cause /\ up'[o] = up[o] /\ up[p] # <<>>
  BY DEF Ignores
<1>2. Upright(o)'
  BY <1>0, <1>1, StillUpright DEF Still
<1>a. Forwarded(p)' = Forwarded(p)
  BY <1>1 DEF Forwarded
<1>3. Order(p)'
  BY <1>0, <1>1 DEF Upright, Order
<1>4. CASE room.phase # "open"
  <2>1. Meet(p)' /\ Frames(p)'
    BY <1>1, <1>4 DEF Meet, Frames
  <2> QED BY <1>0, <1>2, <1>3, <2>1 DEF Upright
<1>5. CASE room.phase = "open" /\ Head(up[p]) \in {"leave", "gone"} /\ up'[p] = Tail(up[p])
  <2>1. \A m : In(m, up'[p]) => In(m, up[p])
    BY <1>1, <1>5, Taking
  <2>2. Meet(p)'
    BY <1>0, <1>1, <2>1 DEF Upright, Meet
  <2>3. Frames(p)'
    <3>1. /\ Orderly(Own(p), up'[p], room.candidates[p], ice[p].sent)
          /\ Short(Own(p), up[p], room.candidates[p], ice[p].sent) =>
                Short(Own(p), up'[p], room.candidates[p], ice[p].sent)
      <4>1. Orderly(Own(p), up[p], room.candidates[p], ice[p].sent)
            /\ Head(up[p]) \notin {Own(p), "candidate"}
        BY <1>0, <1>5 DEF Upright, Frames
      <4> QED BY <1>1, <1>5, <4>1, TakingOrder, ZenonT(30)
    <3>2. link[p] = "open" => ice[p].started
      <4>1. link[p] = "open" /\ ~ice[p].started => up[p] = <<"bind">>
        BY <1>0, <1>1, <1>5, Zenon DEF Upright, Frames
      <4> QED BY <1>5, <4>1
    <3> QED BY <1>0, <1>1, <1>a, <1>5, <2>1, <3>1, <3>2, ZenonT(30) DEF Upright, Frames
  <2> QED BY <1>0, <1>2, <1>3, <2>2, <2>3 DEF Upright
<1> QED BY <1>4, <1>5 DEF Ignores

\* A new room, or a peer that joins it, keeps the order.
LEMMA OpensUpright ==
    ASSUME TypeOK, Born, NEW p \in Peers, Opens(p), \A q \in Peers : Upright(q)
    PROVE  \A q \in Peers : Upright(q)'
<1> DEFINE o == Other(p)
<1>0. /\ o \in Peers /\ (\A q \in Peers : q = p \/ q = o) /\ Upright(p) /\ Upright(o)
      /\ Own(p) \in {"offer", "answer"}  /\ (p = "listener" => o = "joiner") /\ (p = "listener" \/ p = "joiner")
  BY Pair, Types DEF Other
<1>1. /\ pc[p] = "idle" /\ pc'[p] = "binding" /\ link'[p] = "open" /\ up'[p] = <<"bind">>
      /\ down'[p] = down[p] /\ ice'[p] = ice[p] /\ remote'[p] = remote[p] /\ Still(o)
  BY DEF Opens
<1>2. /\ room'.phase = "open" /\ room'.bound = room.bound /\ room'.offered = room.offered
      /\ room'.answered = room.answered /\ room'.candidates = room.candidates
  BY DEF Opens, TypeOK, RoomType
<1>3. down[p] = <<>> /\ up[p] = <<>> /\ ~ice[p].started
  BY <1>0, <1>1, Zenon DEF Upright, Order
<1>4. (\A m : ~In(m, <<>>)) /\ (\A m : In(m, <<"bind">>) => m = "bind")
  BY DEF In
<1>5. Order(p)'
  BY <1>0, <1>1, <1>2, <1>3, <1>4, ZenonT(30) DEF Upright, Order, Waiting
<1>6. Meet(p)'
  BY <1>0, <1>1, <1>2, <1>3, <1>4 DEF Meet
<1>7. Frames(p)'
  <2>1. p \notin room.bound /\ ~Forwarded(p)'
    <3>1. CASE p = "listener"
      BY <1>1, <1>2, <3>1 DEF Born, Forwarded
    <3>2. CASE p = "joiner"
      <4>1. room.phase = "open" /\ p \notin room.bound
        BY <1>0, <1>1, <3>2 DEF Opens, Upright, Order
      <4> QED BY <1>0, <1>1, <1>2, <1>3, <3>2, <4>1, ZenonT(30) DEF Upright, Frames, Forwarded
    <3> QED BY <1>0, <3>1, <3>2
  <2>2. Orderly(Own(p), <<"bind">>, room.candidates[p], ice[p].sent)
    BY <1>0 DEF Orderly
  <2> QED BY <1>0, <1>1, <1>2, <1>3, <1>4, <2>1, <2>2, Zenon DEF Frames
<1>8. Upright(o)'
  <2>1. CASE p = "joiner"
    BY <1>0, <1>1, <2>1, StillUpright DEF Opens
  <2>2. CASE p = "listener"
    <3>1. o = "joiner" /\ pc[o] = "idle" /\ room.bound = {} /\ ~room.offered /\ ~room.answered
      BY <1>0, <1>1, <2>2 DEF Born
    <3>2. /\ up'[o] = <<>> /\ down'[o] = <<>> /\ link'[o] = "none" /\ pc'[o] = "idle"
          /\ ice'[o] = ice[o] /\ remote'[o] = remote[o] /\ ~ice[o].started
      BY <1>0, <1>1, <3>1, ZenonT(30) DEF Upright, Order, Still
    <3>3. Order(o)'
      BY <1>0, <1>2, <1>4, <3>1, <3>2, ZenonT(30) DEF Upright, Order
    <3>4. Meet(o)'
      BY <1>4, <3>2 DEF Meet
    <3>5. Frames(o)'
      <4>1. ~Forwarded(o)'
        BY <1>2, <3>1 DEF Forwarded
      <4>2. Orderly(Own(o), <<>>, room.candidates[o], ice[o].sent)
        BY DEF Orderly
      <4> QED BY <1>2, <1>4, <3>1, <3>2, <4>1, <4>2, Zenon DEF Frames
    <3> QED BY <3>3, <3>4, <3>5 DEF Upright
  <2> QED BY <1>0, <2>1, <2>2
<1> QED BY <1>0, <1>5, <1>6, <1>7, <1>8 DEF Upright

\* A peer that sees its socket closed, or loses it, keeps the order.
LEMMA LosesUpright ==
    ASSUME TypeOK, NEW p \in Peers, Shuts(p) \/ Loses(p), \A q \in Peers : Upright(q)
    PROVE  \A q \in Peers : Upright(q)'
<1> DEFINE o == Other(p)
<1>0. /\ o \in Peers /\ (\A q \in Peers : q = p \/ q = o) /\ Upright(p) /\ Upright(o)
      /\ Own(p) \in {"offer", "answer"} /\ up[p] \in Seq(UpFrames(p)) /\ down[p] \in Seq(DownFrames(p))
      /\ room.candidates[p] \in Nat /\ ice[p].sent \in Nat
  BY Pair, Types
<1>1. /\ room' = room /\ pc' = pc /\ ice' = ice /\ remote' = remote /\ cause' = cause
      /\ link[p] = "open" /\ link'[p] = "closed" /\ Still(o)
  BY DEF Shuts, Loses, Still
<1>2. Upright(o)'
  BY <1>0, <1>1, StillUpright, ZenonT(30)
<1>3. /\ \A m : In(m, up'[p]) => In(m, up[p]) \/ m = "gone"
      /\ \A m : In(m, down'[p]) => In(m, down[p]) \/ m = "close"
      /\ Orderly(Own(p), up[p], room.candidates[p], ice[p].sent) =>
             Orderly(Own(p), up'[p], room.candidates[p], ice[p].sent)
  <2>1. CASE Shuts(p)
    BY <2>1 DEF Shuts
  <2>2. CASE Loses(p)
    <3>1. PICK i \in 0..Len(up[p]), j \in 0..Len(down[p]) :
             /\ up'[p] = Append(SubSeq(up[p], 1, i), "gone")
             /\ down'[p] = Append(SubSeq(down[p], 1, j), "close")
      BY <2>2 DEF Loses
    <3>2. "gone" \in UpFrames(p) /\ "close" \in DownFrames(p) /\ Own(p) \in UpFrames(p) /\ "candidate" \in UpFrames(p)
      BY FrameFacts
    <3> DEFINE u == SubSeq(up[p], 1, i)
               d == SubSeq(down[p], 1, j)
    <3>3. /\ u \in Seq(UpFrames(p)) /\ d \in Seq(DownFrames(p))
          /\ \A m : In(m, u) => In(m, up[p])
          /\ \A m : In(m, d) => In(m, down[p])
      <4> HIDE DEF u, d
      <4> QED BY <1>0, CutQueue DEF u, d
    <3>4. Orderly(Own(p), up[p], room.candidates[p], ice[p].sent) =>
             Orderly(Own(p), u, room.candidates[p], ice[p].sent)
      BY <1>0, OrderlyCut
    <3>5. up'[p] = Append(u, "gone") /\ down'[p] = Append(d, "close")
      BY <3>1
    <3> HIDE DEF u, d
    <3>6. \A m : In(m, Append(u, "gone")) => In(m, u) \/ m = "gone"
      BY <3>2, <3>3, InQueue
    <3>7. \A m : In(m, Append(d, "close")) => In(m, d) \/ m = "close"
      BY <3>2, <3>3, InQueue
    <3>8. Orderly(Own(p), u, room.candidates[p], ice[p].sent) =>
             Orderly(Own(p), Append(u, "gone"), room.candidates[p], ice[p].sent)
      BY <1>0, <3>2, <3>3, OrderlyAppend, ZenonT(30)
    <3> QED BY <3>3, <3>4, <3>5, <3>6, <3>7, <3>8, Zenon
  <2> QED BY <2>1, <2>2, ZenonT(30)
<1>4. Order(p)'
  BY <1>0, <1>1, <1>3, Zenon DEF Upright, Order, Waiting
<1>5. Meet(p)'
  BY <1>0, <1>1, <1>3, ZenonT(30) DEF Upright, Meet
<1>6. Frames(p)'
  <2>1. Forwarded(p)' = Forwarded(p)
    BY <1>1 DEF Forwarded
  <2> QED BY <1>0, <1>1, <1>3, <2>1, Zenon DEF Upright, Frames
<1> QED BY <1>0, <1>2, <1>4, <1>5, <1>6 DEF Upright

\* Every kind of step keeps the order.
LEMMA KindsUpright ==
    ASSUME TypeOK, TypeOK', Born, Kinds, \A q \in Peers : Upright(q)
    PROVE  \A q \in Peers : Upright(q)'
<1>1. CASE Rests
  BY <1>1, StillUpright DEF Rests, Still
<1>2. CASE Expires
  BY <1>2, ClosingUpright
<1>3. ASSUME NEW p \in Peers, Binds(p) \/ Closes(p) \/ Ignores(p) \/ Opens(p) \/ Shuts(p) \/ Loses(p)
      PROVE  \A q \in Peers : Upright(q)'
  BY <1>3, BindsUpright, ClosingUpright, IgnoresUpright, OpensUpright, LosesUpright
<1>4. ASSUME NEW p \in Peers, NEW m, Forwards(p, m)
      PROVE  \A q \in Peers : Upright(q)'
  BY <1>4, ForwardsUpright
<1>5. ASSUME NEW p \in Peers, NEW m, Posts(p, m) \/ Hears(p, m) \/ Ends(p)
      PROVE  \A q \in Peers : Upright(q)'
  <2>1. room' = room /\ Still(Other(p)) /\ Other(p) \in Peers /\ \A q \in Peers : q = p \/ q = Other(p)
    BY <1>5, Pair, Zenon DEF Posts, Hears, Ends
  <2>2. Upright(Other(p))'
    BY <2>1, StillUpright
  <2>3. Upright(p)'
    BY <1>5, PostsUpright, HearsUpright, EndsUpright
  <2> QED BY <2>1, <2>2, <2>3
<1> QED BY <1>1, <1>2, <1>3, <1>4, <1>5 DEF Kinds

\* Every kind of step keeps what is known of the room as such.
LEMMA KindsBorn ==
    ASSUME TypeOK, ~room.refused, Born, Kinds, \A q \in Peers : Upright(q)
    PROVE  Born' /\ ~room'.refused
<1>0. "listener" \in Peers /\ "joiner" \in Peers /\ Other("listener") = "joiner" /\ Other("joiner") = "listener"
      /\ \A p \in Peers : p = "listener" \/ p = "joiner"
  BY DEF Peers, Other
<1>1. CASE Rests
  BY <1>1 DEF Rests, Born
<1>2. CASE Expires
  BY <1>2 DEF Expires, Born, TypeOK, RoomType
<1>3. ASSUME NEW p \in Peers, Binds(p) \/ Closes(p) \/ Ignores(p) \/ Shuts(p) \/ Loses(p)
      PROVE  Born' /\ ~room'.refused
  BY <1>3, ZenonT(30) DEF Binds, Closes, Takes, Ignores, Shuts, Loses, Born, TypeOK, RoomType
<1>4. ASSUME NEW p \in Peers, NEW m, Forwards(p, m)
      PROVE  Born' /\ ~room'.refused
  <2>1. In(Head(up[p]), up[p])
    BY <1>4, Types, InQueue, ZenonT(30) DEF Forwards, Takes
  <2>2. m = "answer" => room.offered
    <3>1. m = "answer" => p = "listener"
      BY <1>0, <1>4, FrameFacts DEF Forwards
    <3> QED BY <1>4, <2>1, <3>1, ZenonT(30) DEF Forwards, Upright, Frames
  <2> QED BY <1>4, <2>2, ZenonT(30) DEF Forwards, Takes, Born
<1>5. ASSUME NEW p \in Peers, NEW m, Posts(p, m) \/ Hears(p, m) \/ Ends(p) \/ Opens(p)
      PROVE  Born' /\ ~room'.refused
  <2>1. room'.phase \in {room.phase, "open"} /\ room'.bound = room.bound /\ room'.offered = room.offered
        /\ room'.answered = room.answered /\ room'.refused = room.refused
        /\ (~Opens(p) => room' = room)
    BY <1>5 DEF Posts, Hears, Ends, Opens, TypeOK, RoomType
  <2>2. CASE p = "listener"
    <3>1. /\ pc'["joiner"] = pc["joiner"] /\ pc'["listener"] # "idle"
          /\ Opens(p) => room'.phase = "open"
          /\ ~Opens(p) => pc["listener"] # "idle"
      <4>1. CASE Opens(p)
        BY <1>0, <2>2, <4>1 DEF Opens, Still, TypeOK, RoomType
      <4>2. CASE Ends(p)
        BY <1>0, <2>2, <4>2 DEF Ends, Opens, Still, Waiting, Ended
      <4>3. CASE Posts(p, m) \/ Hears(p, m)
        BY <1>0, <2>2, <4>3 DEF Posts, Hears, Opens, Still
      <4> QED BY <1>5, <4>1, <4>2, <4>3
    <3> QED BY <2>1, <3>1 DEF Born
  <2>3. CASE p = "joiner"
    <3>1. pc'["listener"] = pc["listener"]
      BY <1>0, <1>5, <2>3, Zenon DEF Posts, Hears, Ends, Opens, Still
    <3>2. room'.phase = room.phase
      BY <1>5, <2>3 DEF Posts, Hears, Ends, Opens
    <3>3. room.phase # "none"
      <4>1. CASE Opens(p)
        BY <2>3, <4>1 DEF Opens
      <4>2. CASE Ends(p)
        BY <2>3, <4>2 DEF Ends, Born, Waiting
      <4>3. CASE Posts(p, m) \/ Hears(p, m)
        BY <2>3, <4>3 DEF Posts, Hears, Born
      <4> QED BY <1>5, <4>1, <4>2, <4>3
    <3> QED BY <2>1, <3>1, <3>2, <3>3 DEF Born
  <2> QED BY <1>0, <2>2, <2>3
<1> QED BY <1>1, <1>2, <1>3, <1>4, <1>5 DEF Kinds

-----------------------------------------------------------------------------
(* Every action is a step of one of these kinds, and keeps the types.      *)

\* The types of what a peer writes to.
PeerTypes ==
    /\ pc \in [Peers -> Places] /\ cause \in [Peers -> {"none", "own", "signaling"}]
    /\ link \in [Peers -> {"none", "open", "closed"}]
    /\ up = [p \in Peers |-> up[p]] /\ down = [p \in Peers |-> down[p]]
    /\ \A p \in Peers : up[p] \in Seq(UpFrames(p)) /\ down[p] \in Seq(DownFrames(p))

\* What Finish does to the two peers.
LEMMA FinishFacts ==
    ASSUME TypeOK, NEW p \in Peers, NEW v \in Ended, NEW w \in {"none", "own", "signaling"}, Finish(p, v, w)
    PROVE  /\ PeerTypes'
           /\ pc'[p] = v /\ cause'[p] = w /\ link'[p] = "closed" /\ down'[p] = <<>>
           /\ up'[p] = up[p] \o (CASE link[p] = "none" -> <<>>
                                   [] link[p] = "open" -> <<"leave", "gone">>
                                   [] OTHER            -> <<"gone">>)
           /\ LET o == Other(p)
              IN pc'[o] = pc[o] /\ cause'[o] = cause[o] /\ link'[o] = link[o] /\ up'[o] = up[o] /\ down'[o] = down[o]
<1> DEFINE o == Other(p)
           tail == CASE link[p] = "none" -> <<>>
                     [] link[p] = "open" -> <<"leave", "gone">>
                     [] OTHER            -> <<"gone">>
<1>0. o \in Peers /\ o # p /\ \A q \in Peers : q = p \/ q = o
  BY Pair
<1>1. PeerTypes /\ v \in Places
  BY DEF TypeOK, PeerTypes, Places
<1>2. tail \in Seq(UpFrames(p))
  <2>1. "leave" \in UpFrames(p) /\ "gone" \in UpFrames(p)
    BY FrameFacts
  <2> QED BY <2>1
<1>3. /\ pc' = [pc EXCEPT ![p] = v] /\ cause' = [cause EXCEPT ![p] = w] /\ link' = [link EXCEPT ![p] = "closed"]
      /\ down' = [down EXCEPT ![p] = <<>>] /\ up' = [up EXCEPT ![p] = @ \o tail]
  BY DEF Finish
<1> HIDE DEF o, tail
<1>4. /\ pc'[p] = v /\ cause'[p] = w /\ link'[p] = "closed" /\ pc'[o] = pc[o] /\ cause'[o] = cause[o] /\ link'[o] = link[o]
      /\ pc' \in [Peers -> Places] /\ cause' \in [Peers -> {"none", "own", "signaling"}]
      /\ link' \in [Peers -> {"none", "open", "closed"}]
  BY <1>0, <1>1, <1>3 DEF PeerTypes
<1>5. /\ down'[p] = <<>> /\ down'[o] = down[o] /\ up'[p] = up[p] \o tail /\ up'[o] = up[o]
      /\ up' = [q \in Peers |-> up'[q]] /\ down' = [q \in Peers |-> down'[q]]
  BY <1>0, <1>1, <1>3, Zenon DEF PeerTypes
<1>6. up'[p] \in Seq(UpFrames(p)) /\ down'[p] \in Seq(DownFrames(p))
  <2>1. up[p] \in Seq(UpFrames(p))
    BY <1>1 DEF PeerTypes
  <2> QED BY <1>2, <1>5, <2>1
<1>7. \A q \in Peers : up'[q] \in Seq(UpFrames(q)) /\ down'[q] \in Seq(DownFrames(q))
  BY <1>0, <1>1, <1>5, <1>6, Zenon DEF PeerTypes
<1>8. PeerTypes'
  BY <1>4, <1>5, <1>7 DEF PeerTypes
<1> QED BY <1>4, <1>5, <1>8 DEF o, tail

\* What Post does to the two peers while the socket of p is open.
LEMMA PostFacts ==
    ASSUME TypeOK, NEW p \in Peers, NEW m \in UpFrames(p), NEW n \in Places, link[p] = "open", Post(p, m, n)
    PROVE  /\ PeerTypes'
           /\ pc'[p] = n /\ cause'[p] = cause[p] /\ link'[p] = link[p] /\ down'[p] = down[p]
           /\ up'[p] = Append(up[p], m)
           /\ LET o == Other(p)
              IN pc'[o] = pc[o] /\ cause'[o] = cause[o] /\ link'[o] = link[o] /\ up'[o] = up[o] /\ down'[o] = down[o]
<1> DEFINE o == Other(p)
<1>0. o \in Peers /\ o # p /\ \A q \in Peers : q = p \/ q = o
  BY Pair
<1>1. PeerTypes
  BY DEF TypeOK, PeerTypes
<1>3. /\ pc' = [pc EXCEPT ![p] = n] /\ cause' = cause /\ link' = link /\ down' = down
      /\ up' = [up EXCEPT ![p] = Append(@, m)]
  BY DEF Post
<1> HIDE DEF o
<1>4. pc'[p] = n /\ pc'[o] = pc[o] /\ pc' \in [Peers -> Places]
  BY <1>0, <1>1, <1>3 DEF PeerTypes
<1>5. up'[p] = Append(up[p], m) /\ up'[o] = up[o] /\ up' = [q \in Peers |-> up'[q]]
  BY <1>0, <1>1, <1>3, Zenon DEF PeerTypes
<1>6. up'[p] \in Seq(UpFrames(p))
  <2>1. up[p] \in Seq(UpFrames(p))
    BY <1>1 DEF PeerTypes
  <2> QED BY <1>5, <2>1
<1>7. \A q \in Peers : up'[q] \in Seq(UpFrames(q))
  BY <1>0, <1>1, <1>5, <1>6, ZenonT(30) DEF PeerTypes
<1>8. PeerTypes'
  BY <1>1, <1>3, <1>4, <1>5, <1>7 DEF PeerTypes
<1> QED BY <1>3, <1>4, <1>5, <1>8 DEF o

\* Ending as Finish does.
LEMMA FinishEnds ==
    ASSUME TypeOK, NEW p \in Peers, Upright(p), NEW v \in Ended, NEW w \in {"none", "own", "signaling"}, Finish(p, v, w),
           UNCHANGED <<room, cut, remote>>, ice'[Other(p)] = ice[Other(p)],
           pc[p] \in Waiting \/ (p = "joiner" /\ pc[p] = "idle" /\ pc["listener"] # "idle"),
           v = "connected" => pc[p] = "connecting" /\ w = "none", w = "signaling" => Blames(p),
           ice[p].started => ice'[p].started, ice[p].done => ice'[p].done, ice'[p].done => ice'[p].started,
           ice[p].sent <= ice'[p].sent /\ ice'[p].sent <= MaxCandidates,
           ice'[p].started => ice[p].started \/ pc[p] = "describing"
    PROVE  Ends(p) /\ PeerTypes'
<1>1. /\ PeerTypes'
      /\ pc'[p] = v /\ cause'[p] = w /\ link'[p] = "closed" /\ down'[p] = <<>>
      /\ up'[p] = up[p] \o (CASE link[p] = "none" -> <<>>
                              [] link[p] = "open" -> <<"leave", "gone">>
                              [] OTHER            -> <<"gone">>)
      /\ LET o == Other(p)
         IN pc'[o] = pc[o] /\ cause'[o] = cause[o] /\ link'[o] = link[o] /\ up'[o] = up[o] /\ down'[o] = down[o]
  BY FinishFacts, ZenonT(30)
<1>2. Still(Other(p))
  BY <1>1 DEF Still
<1> QED BY <1>1, <1>2, ZenonT(30) DEF Ends

\* The types, put together.
LEMMA TypesAgain ==
    ASSUME TypeOK, PeerTypes', room' \in RoomType, ice' \in [Peers -> IceType], remote' \in [Peers -> RemoteType],
           program' = program, calm' = calm, path' \in BOOLEAN, cut' \in BOOLEAN
    PROVE  TypeOK'
  BY DEF TypeOK, PeerTypes

\* The listener makes the room, and the joiner joins it or finds it gone.
LEMMA OpenKinds ==
    ASSUME RoomInv, CreateListener \/ Join
    PROVE  Kinds /\ TypeOK'
<1>0. /\ TypeOK /\ Born /\ "listener" \in Peers /\ "joiner" \in Peers
      /\ Other("listener") = "joiner" /\ Other("joiner") = "listener" /\ \A q \in Peers : Upright(q)
  BY DEF RoomInv, Peers, Other
<1>t. room \in RoomType /\ ice \in [Peers -> IceType] /\ remote \in [Peers -> RemoteType]
      /\ path \in BOOLEAN /\ cut \in BOOLEAN /\ PeerTypes
  BY <1>0 DEF TypeOK, PeerTypes
<1>1. ASSUME NEW p \in Peers, Opened(p), UNCHANGED <<program, calm, down, ice, remote, path, cause, cut>>, pc[p] = "idle",
             room' \in RoomType,
             \/ p = "joiner" /\ room' = room /\ room.phase = "open"
             \/ p = "listener" /\ room' = [room EXCEPT !.phase = "open"]
      PROVE  Kinds /\ TypeOK'
  <2> DEFINE o == Other(p)
  <2>0. o \in Peers /\ o # p /\ \A q \in Peers : q = p \/ q = o
    BY Pair
  <2>1. /\ link' = [link EXCEPT ![p] = "open"] /\ up' = [up EXCEPT ![p] = <<"bind">>] /\ pc' = [pc EXCEPT ![p] = "binding"]
    BY <1>1 DEF Opened
  <2>b. "bind" \in UpFrames(p) /\ <<"bind">> \in Seq(UpFrames(p)) /\ "binding" \in Places
    BY FrameFacts DEF Places, Waiting
  <2> HIDE DEF o
  <2>2. /\ link'[p] = "open" /\ up'[p] = <<"bind">> /\ pc'[p] = "binding"
        /\ link'[o] = link[o] /\ up'[o] = up[o] /\ pc'[o] = pc[o]
        /\ up' = [q \in Peers |-> up'[q]] /\ link' \in [Peers -> {"none", "open", "closed"}] /\ pc' \in [Peers -> Places]
    <3>1. link'[p] = "open" /\ link'[o] = link[o] /\ link' \in [Peers -> {"none", "open", "closed"}]
      BY <1>t, <2>0, <2>1 DEF PeerTypes
    <3>2. pc'[p] = "binding" /\ pc'[o] = pc[o] /\ pc' \in [Peers -> Places]
      BY <1>t, <2>0, <2>1, <2>b DEF PeerTypes
    <3>3. up'[p] = <<"bind">> /\ up'[o] = up[o] /\ up' = [q \in Peers |-> up'[q]]
      BY <1>t, <2>0, <2>1, Zenon DEF PeerTypes
    <3> QED BY <3>1, <3>2, <3>3
  <2>3. PeerTypes'
    <3>1. down' = down /\ cause' = cause
      BY <1>1
    <3>2. \A q \in Peers : up'[q] \in Seq(UpFrames(q))
      BY <1>t, <2>0, <2>2, <2>b, Zenon DEF PeerTypes
    <3> QED BY <1>t, <2>2, <3>1, <3>2 DEF PeerTypes
  <2>4. TypeOK'
    BY <1>0, <1>1, <1>t, <2>3, TypesAgain
  <2>5. Still(o)
    BY <1>1, <2>2 DEF Still
  <2>6. Opens(p)
    BY <1>1, <2>2, <2>5 DEF Opens, o
  <2> QED BY <2>4, <2>6 DEF Kinds
<1>2. CASE CreateListener
  <2>1. room' \in RoomType
    BY <1>2, <1>t DEF CreateListener, RoomType
  <2> QED BY <1>0, <1>1, <1>2, <2>1 DEF CreateListener
<1>3. CASE Join /\ room.phase = "open"
  BY <1>0, <1>1, <1>3, <1>t DEF Join
<1>4. CASE Join /\ room.phase # "open"
  <2>1. /\ Finish("joiner", "failed", "signaling") /\ UNCHANGED <<program, calm, room, ice, remote, path, cut>>
        /\ pc["joiner"] = "idle" /\ pc["listener"] # "idle"
    BY <1>4 DEF Join
  <2>2. Blames("joiner")
    BY <1>4, <2>1 DEF Blames
  <2>3. Upright("joiner") /\ ice["joiner"].sent \in Nat /\ "failed" \in Ended
    BY <1>0, Types DEF Ended
  <2>4. /\ ice["joiner"].done => ice["joiner"].started
        /\ ice["joiner"].sent <= ice["joiner"].sent /\ ice["joiner"].sent <= MaxCandidates
    BY <2>3 DEF Upright, Order
  <2>5. Ends("joiner") /\ PeerTypes'
    BY <1>0, <2>1, <2>2, <2>3, <2>4, FinishEnds, ZenonT(30)
  <2>6. TypeOK'
    BY <1>0, <1>t, <2>1, <2>5, TypesAgain
  <2> QED BY <1>0, <2>5, <2>6 DEF Kinds
<1> QED BY <1>2, <1>3, <1>4

\* A peer comes to its end.
LEMMA EndKinds ==
    ASSUME RoomInv, NEW p \in Peers, Connect(p) \/ PathFails(p) \/ Timeout(p)
    PROVE  Kinds /\ TypeOK'
<1>0. TypeOK /\ Upright(p) /\ ice[p].sent \in Nat
  BY Types DEF RoomInv
<1>t. room \in RoomType /\ ice \in [Peers -> IceType] /\ remote \in [Peers -> RemoteType]
      /\ path \in BOOLEAN /\ cut \in BOOLEAN
  BY <1>0 DEF TypeOK
<1>1. PICK v \in Ended, w \in {"none", "own"} :
         /\ Finish(p, v, w) /\ UNCHANGED <<program, calm, room, ice, remote, path, cut>> /\ pc[p] \in Waiting
         /\ v = "connected" => pc[p] = "connecting" /\ w = "none"
  BY Zenon DEF Connect, PathFails, Timeout, Ended, Waiting
<1>2. (ice[p].done => ice[p].started) /\ ice[p].sent <= MaxCandidates
  BY <1>0, Zenon DEF Upright, Order
<1>3. ice[p].sent <= ice[p].sent
  BY <1>0
<1>4. Ends(p) /\ PeerTypes'
  BY <1>0, <1>1, <1>2, <1>3, FinishEnds, ZenonT(30)
<1>5. TypeOK'
  BY <1>0, <1>1, <1>4, <1>t, TypesAgain
<1> QED BY <1>4, <1>5 DEF Kinds

\* What the peers' sockets do.
LEMMA SocketKinds ==
    ASSUME RoomInv, NEW p \in Peers, SocketCloses(p) \/ SocketLost(p)
    PROVE  Kinds /\ TypeOK'
<1> DEFINE o == Other(p)
<1>0. /\ TypeOK /\ Upright(p) /\ o \in Peers /\ o # p /\ (\A q \in Peers : q = p \/ q = o)
      /\ up[p] \in Seq(UpFrames(p)) /\ down[p] \in Seq(DownFrames(p))
  BY Types, Pair, ZenonT(30) DEF RoomInv
<1>t. room \in RoomType /\ ice \in [Peers -> IceType] /\ remote \in [Peers -> RemoteType]
      /\ path \in BOOLEAN /\ cut \in BOOLEAN /\ PeerTypes
  BY <1>0 DEF TypeOK, PeerTypes
<1>l. link[p] = "open" /\ link' = [link EXCEPT ![p] = "closed"]
  BY DEF SocketCloses, SocketLost
<1> HIDE DEF o
<1>m. link'[p] = "closed" /\ link'[o] = link[o] /\ link' \in [Peers -> {"none", "open", "closed"}]
  BY <1>0, <1>t, <1>l DEF PeerTypes
<1>1. CASE SocketCloses(p)
  <2>1. UNCHANGED <<program, calm, room, up, down, pc, ice, remote, path, cause, cut>>
    BY <1>1 DEF SocketCloses
  <2>2. In("close", down[p])
    BY <1>0, <1>1 DEF SocketCloses, In
  <2>3. Shuts(p)
    BY <1>l, <1>m, <2>1, <2>2 DEF Shuts, o
  <2>4. PeerTypes'
    BY <1>t, <1>m, <2>1 DEF PeerTypes
  <2>5. TypeOK'
    BY <1>0, <1>t, <2>1, <2>4, TypesAgain, ZenonT(30)
  <2> QED BY <2>3, <2>5 DEF Kinds
<1>2. CASE SocketLost(p)
  <2>1. UNCHANGED <<program, calm, room, pc, ice, remote, path, cause>> /\ cut' = TRUE
    BY <1>2 DEF SocketLost
  <2>2. PICK i \in 0..Len(up[p]), j \in 0..Len(down[p]) :
           /\ up' = [up EXCEPT ![p] = Append(SubSeq(@, 1, i), "gone")]
           /\ down' = [down EXCEPT ![p] = Append(SubSeq(@, 1, j), "close")]
    BY <1>2, Zenon DEF SocketLost
  <2> DEFINE u == Append(SubSeq(up[p], 1, i), "gone")
             d == Append(SubSeq(down[p], 1, j), "close")
  <2>3. u \in Seq(UpFrames(p)) /\ d \in Seq(DownFrames(p))
    <3>1. "gone" \in UpFrames(p) /\ "close" \in DownFrames(p)
      BY FrameFacts
    <3>2. SubSeq(up[p], 1, i) \in Seq(UpFrames(p)) /\ SubSeq(down[p], 1, j) \in Seq(DownFrames(p))
      BY <1>0, CutQueue
    <3> QED BY <3>1, <3>2
  <2>4. up' = [up EXCEPT ![p] = u] /\ down' = [down EXCEPT ![p] = d]
    BY <2>2
  <2>5. u = Append(SubSeq(up[p], 1, i), "gone") /\ d = Append(SubSeq(down[p], 1, j), "close")
    OBVIOUS
  <2> HIDE DEF u, d
  <2>6. /\ up'[p] = u /\ down'[p] = d /\ up'[o] = up[o] /\ down'[o] = down[o]
        /\ up' = [q \in Peers |-> up'[q]] /\ down' = [q \in Peers |-> down'[q]]
    BY <1>0, <1>t, <2>4, Zenon DEF PeerTypes
  <2>7. PeerTypes'
    BY <1>0, <1>t, <1>m, <2>1, <2>3, <2>6, ZenonT(30) DEF PeerTypes
  <2>8. TypeOK'
    BY <1>0, <1>t, <2>1, <2>7, TypesAgain, Zenon
  <2>9. Still(o)
    BY <1>m, <2>1, <2>6 DEF Still
  <2>10. Loses(p)
    BY <1>l, <1>m, <2>1, <2>5, <2>6, <2>9, ZenonT(30) DEF Loses, o
  <2> QED BY <2>8, <2>10 DEF Kinds
<1> QED BY <1>1, <1>2

\* A peer sends its description.
LEMMA DescribeKinds ==
    ASSUME RoomInv, NEW p \in Peers, Describe(p)
    PROVE  Kinds /\ TypeOK'
<1> DEFINE o == Other(p)
<1>0. /\ TypeOK /\ Upright(p) /\ o \in Peers /\ o # p
      /\ ice[p].sent \in Nat /\ Own(p) \in UpFrames(p)
  BY Types, Pair, FrameFacts DEF RoomInv
<1>t. room \in RoomType /\ ice \in [Peers -> IceType] /\ remote \in [Peers -> RemoteType]
      /\ path \in BOOLEAN /\ cut \in BOOLEAN
  BY <1>0 DEF TypeOK
<1>1. /\ pc[p] = "describing" /\ Post(p, Own(p), "exchange") /\ ice' = [ice EXCEPT ![p].started = TRUE]
      /\ UNCHANGED <<program, calm, room, remote, path, cut>>
  BY DEF Describe, Own
<1>2. /\ ice' \in [Peers -> IceType] /\ ice'[o] = ice[o] /\ ice'[p].started = TRUE
      /\ ice'[p].sent = ice[p].sent /\ ice'[p].done = ice[p].done
  BY <1>0, <1>1, <1>t, Zenon DEF IceType
<1>3. ~ice[p].started /\ ~ice[p].done /\ ice[p].sent <= MaxCandidates
  BY <1>0, <1>1 DEF Upright, Order
<1>4. CASE link[p] = "open"
  <2>0. "exchange" \in Places
    BY DEF Places, Waiting
  <2>1. /\ PeerTypes'
        /\ pc'[p] = "exchange" /\ cause'[p] = cause[p] /\ link'[p] = link[p] /\ down'[p] = down[p]
        /\ up'[p] = Append(up[p], Own(p))
        /\ pc'[o] = pc[o] /\ cause'[o] = cause[o] /\ link'[o] = link[o] /\ up'[o] = up[o] /\ down'[o] = down[o]
    BY <1>0, <1>1, <1>4, <2>0, PostFacts
  <2>2. Still(o)
    BY <1>1, <1>2, <2>1 DEF Still
  <2>3. Posts(p, Own(p))
    BY <1>1, <1>2, <1>4, <2>1, <2>2 DEF Posts
  <2>4. TypeOK'
    BY <1>0, <1>1, <1>2, <1>t, <2>1, TypesAgain
  <2> QED BY <2>3, <2>4 DEF Kinds
<1>5. CASE link[p] # "open"
  <2>1. Finish(p, "failed", "signaling")
    BY <1>1, <1>5 DEF Post
  <2>2. Blames(p)
    BY <1>1, <1>3, <1>5 DEF Blames
  <2>3. pc[p] \in Waiting /\ "failed" \in Ended /\ ice[p].sent <= ice[p].sent
    BY <1>0, <1>1 DEF Waiting, Ended
  <2>4. Ends(p) /\ PeerTypes'
    BY <1>0, <1>1, <1>2, <1>3, <2>1, <2>2, <2>3, FinishEnds
  <2>5. TypeOK'
    BY <1>0, <1>1, <1>2, <1>t, <2>4, TypesAgain
  <2> QED BY <2>4, <2>5 DEF Kinds
<1> QED BY <1>4, <1>5

\* A peer sends a candidate, or the end of them.
LEMMA IceKinds ==
    ASSUME RoomInv, NEW p \in Peers, SendLocalIce(p)
    PROVE  Kinds /\ TypeOK'
<1> DEFINE o == Other(p)
<1>0. /\ TypeOK /\ Upright(p) /\ o \in Peers /\ o # p /\ MaxCandidates \in Nat
      /\ ice[p].sent \in Nat /\ "candidate" \in UpFrames(p) /\ "end_of_candidates" \in UpFrames(p)
      /\ ice[p].sent <= MaxCandidates
  BY Types, Pair, FrameFacts, Zenon DEF RoomInv, Upright, Order
<1>t. room \in RoomType /\ ice \in [Peers -> IceType] /\ remote \in [Peers -> RemoteType]
      /\ path \in BOOLEAN /\ cut \in BOOLEAN
  BY <1>0 DEF TypeOK
<1>1. /\ pc[p] = "exchange" /\ ice[p].started /\ ~ice[p].done
      /\ UNCHANGED <<program, calm, room, remote, path, cut>>
  BY DEF SendLocalIce, MaySend
<1>e. pc[p] \in Waiting /\ "failed" \in Ended /\ ice[p].sent <= ice[p].sent /\ ice[p].sent <= ice[p].sent + 1
      /\ "exchange" \in Places /\ "connecting" \in Places
  BY <1>0, <1>1, SMTT(30) DEF Waiting, Ended, Places
<1>2. CASE Finish(p, "failed", "own") /\ ice' = ice
  <2>4. Ends(p) /\ PeerTypes'
    BY <1>0, <1>1, <1>2, <1>e, FinishEnds
  <2>5. TypeOK'
    BY <1>0, <1>1, <1>2, <1>t, <2>4, TypesAgain
  <2> QED BY <2>4, <2>5 DEF Kinds
<1>3. ASSUME NEW m, NEW n \in Places, Post(p, m, n), ice' \in [Peers -> IceType], ice'[o] = ice[o],
             ice'[p].started,
             \/ /\ m = "candidate" /\ n = "exchange"
                /\ ~ice'[p].done /\ ice'[p].sent = ice[p].sent + 1 /\ ice'[p].sent <= MaxCandidates
             \/ /\ m = "end_of_candidates"
                /\ ice'[p].done /\ ice'[p].sent = ice[p].sent
                /\ n = IF remote[p].ended THEN "connecting" ELSE "exchange"
      PROVE  Kinds /\ TypeOK'
  <2>m. m \in UpFrames(p)
    BY <1>0, <1>3
  <2>1. CASE link[p] = "open"
    <3>1. /\ PeerTypes'
          /\ pc'[p] = n /\ cause'[p] = cause[p] /\ link'[p] = link[p] /\ down'[p] = down[p]
          /\ up'[p] = Append(up[p], m)
          /\ pc'[o] = pc[o] /\ cause'[o] = cause[o] /\ link'[o] = link[o] /\ up'[o] = up[o] /\ down'[o] = down[o]
      BY <1>0, <1>3, <2>1, <2>m, PostFacts, ZenonT(30)
    <3>2. Still(o)
      BY <1>1, <1>3, <3>1 DEF Still
    <3>3. Posts(p, m)
      BY <1>1, <1>3, <2>1, <3>1, <3>2, ZenonT(30) DEF Posts
    <3>4. TypeOK'
      BY <1>0, <1>1, <1>3, <1>t, <3>1, TypesAgain, Zenon
    <3> QED BY <3>3, <3>4 DEF Kinds
  <2>2. CASE link[p] # "open"
    <3>1. Finish(p, "failed", "signaling")
      BY <1>3, <2>2, Zenon DEF Post
    <3>2. Blames(p)
      BY <1>1, <2>2 DEF Blames
    <3>3. ice[p].sent <= ice'[p].sent /\ ice'[p].sent <= MaxCandidates
      BY <1>0, <1>3, <1>e
    <3>4. Ends(p) /\ PeerTypes'
      BY <1>0, <1>1, <1>3, <1>e, <3>1, <3>2, <3>3, FinishEnds, ZenonT(30)
    <3>5. TypeOK'
      BY <1>0, <1>1, <1>3, <1>t, <3>4, TypesAgain
    <3> QED BY <3>4, <3>5 DEF Kinds
  <2> QED BY <2>1, <2>2
<1>4. CASE /\ ~OverLimit(ice[p].sent + 1) /\ Post(p, "candidate", "exchange")
           /\ ice' = [ice EXCEPT ![p].sent = @ + 1]
  <2>1. /\ ice' \in [Peers -> IceType] /\ ice'[o] = ice[o] /\ ice'[p].started = ice[p].started
        /\ ice'[p].sent = ice[p].sent + 1 /\ ice'[p].done = ice[p].done
    BY <1>0, <1>4, <1>t DEF IceType
  <2>2. ice'[p].sent <= MaxCandidates
    BY <1>0, <1>4, <2>1 DEF OverLimit
  <2> QED BY <1>1, <1>3, <1>4, <1>e, <2>1, <2>2
<1>5. CASE /\ ice' = [ice EXCEPT ![p].done = TRUE]
           /\ Post(p, "end_of_candidates", NextPc(p, ice'[p], remote[p]))
  <2>1. /\ ice' \in [Peers -> IceType] /\ ice'[o] = ice[o] /\ ice'[p].started = ice[p].started
        /\ ice'[p].sent = ice[p].sent /\ ice'[p].done = TRUE
    BY <1>0, <1>5, <1>t, Zenon DEF IceType
  <2> DEFINE n == NextPc(p, ice'[p], remote[p])
  <2>2. n = IF remote[p].ended THEN "connecting" ELSE "exchange"
    BY <2>1 DEF NextPc, Exchanged
  <2>3. n \in Places
    BY <1>e, <2>2
  <2>4. Post(p, "end_of_candidates", n)
    BY <1>5
  <2> HIDE DEF n
  <2> QED BY <1>1, <1>3, <2>1, <2>2, <2>3, <2>4
<1> QED BY <1>2, <1>4, <1>5 DEF SendLocalIce

\* The description of the other keeps the type of what is known of it.
LEMMA DescribedType ==
    ASSUME NEW b \in RemoteType
    PROVE  Described(b) \in RemoteType
<1> DEFINE a == b.applied + b.pending
           c == [b EXCEPT !.described = TRUE]
           d == [c EXCEPT !.applied = a]
           e == [d EXCEPT !.pending = 0]
<1>1. a \in Nat
  BY DEF RemoteType
<1>2. Described(b) = e
  BY DEF Described
<1>3. c \in RemoteType
  BY ZenonT(30) DEF RemoteType
<1> HIDE DEF a, c
<1>4. d \in RemoteType
  BY <1>1, <1>3 DEF RemoteType
<1> HIDE DEF d
<1>5. e \in RemoteType
  BY <1>4 DEF RemoteType
<1> HIDE DEF e
<1> QED BY <1>2, <1>5

\* A peer reads a frame.
LEMMA ReadKinds ==
    ASSUME RoomInv, NEW p \in Peers, Read(p)
    PROVE  Kinds /\ TypeOK'
<1> DEFINE o == Other(p)
           m == Head(down[p])
<1>0. /\ TypeOK /\ Upright(p) /\ o \in Peers /\ o # p /\ (\A q \in Peers : q = p \/ q = o)
      /\ ice[p].sent \in Nat /\ ice[p].sent <= MaxCandidates /\ ice[p].sent <= ice[p].sent
      /\ down[p] \in Seq(DownFrames(p)) /\ (ice[p].done => ice[p].started)
      /\ remote[p].applied \in Nat /\ remote[p].pending \in Nat
  <2>1. TypeOK /\ Upright(p) /\ o \in Peers /\ o # p /\ (\A q \in Peers : q = p \/ q = o)
    BY Pair DEF RoomInv
  <2>2. /\ down[p] \in Seq(DownFrames(p)) /\ ice[p].sent \in Nat
        /\ remote[p].applied \in Nat /\ remote[p].pending \in Nat
    BY <2>1, Types
  <2>3. ice[p].sent <= MaxCandidates /\ (ice[p].done => ice[p].started)
    BY <2>1, Zenon DEF Upright, Order
  <2>4. ice[p].sent <= ice[p].sent
    BY <2>2
  <2> QED BY <2>1, <2>2, <2>3, <2>4
<1>t. room \in RoomType /\ ice \in [Peers -> IceType] /\ remote \in [Peers -> RemoteType]
      /\ path \in BOOLEAN /\ cut \in BOOLEAN /\ PeerTypes
  BY <1>0 DEF TypeOK, PeerTypes
<1>1. down[p] # <<>> /\ UNCHANGED <<program, calm, room, ice, path, cut>>
  BY Zenon DEF Read
<1>m. pc[p] = "exchange" => ~remote[p].ended
  BY ZenonT(30) DEF Read, MayRead
<1>2. ASSUME Finish(p, "failed", "signaling"), remote' = remote, Unexpected(p, m), pc[p] \in {"binding", "ready", "exchange"}
      PROVE  Kinds /\ TypeOK'
  <2>1. Blames(p)
    BY <1>1, <1>2, Zenon DEF Blames
  <2>2. pc[p] \in Waiting /\ "failed" \in Ended
    BY <1>2 DEF Waiting, Ended
  <2>3. Ends(p) /\ PeerTypes'
    BY <1>0, <1>1, <1>2, <2>1, <2>2, FinishEnds, ZenonT(30)
  <2>4. TypeOK'
    BY <1>0, <1>1, <1>2, <1>t, <2>3, TypesAgain, ZenonT(30)
  <2> QED BY <2>3, <2>4 DEF Kinds
<1>3. ASSUME NEW n \in Places, pc' = [pc EXCEPT ![p] = n], Taken(p), UNCHANGED <<up, link, cause>>,
             NEW r \in RemoteType, remote' = [remote EXCEPT ![p] = r],
             \/ m = "bound" /\ pc[p] = "binding" /\ n = "ready" /\ r = remote[p]
             \/ /\ m = "peer_ready" /\ pc[p] = "ready" /\ r = remote[p]
                /\ n = IF p = "joiner" THEN "describing" ELSE "exchange"
             \/ /\ m = Description(p) /\ pc[p] = "exchange" /\ ~remote[p].described
                /\ r = Described(remote[p])
                /\ n = IF p = "listener" THEN "describing" ELSE "exchange"
             \/ /\ m = "candidate" /\ pc[p] = "exchange" /\ n = "exchange"
                /\ r = Candidate(remote[p])
             \/ /\ m = "end_of_candidates" /\ pc[p] = "exchange" /\ remote[p].described
                /\ r = [remote[p] EXCEPT !.ended = TRUE]
                /\ n = IF ice[p].done THEN "connecting" ELSE "exchange"
      PROVE  Kinds /\ TypeOK'
  <2>1. down' = [down EXCEPT ![p] = Tail(@)]
    BY <1>3 DEF Taken
  <2>2. Tail(down[p]) \in Seq(DownFrames(p))
    BY <1>0, <1>1, SMTT(30)
  <2>3. pc'[p] = n /\ pc'[o] = pc[o] /\ pc' \in [Peers -> Places]
    BY <1>0, <1>3, <1>t DEF PeerTypes
  <2>4. down'[p] = Tail(down[p]) /\ down'[o] = down[o] /\ down' = [q \in Peers |-> down'[q]]
    <3> HIDE DEF o
    <3> QED BY <1>0, <1>t, <2>1, Zenon DEF PeerTypes
  <2>5. remote'[p] = r /\ remote'[o] = remote[o] /\ remote' \in [Peers -> RemoteType]
    BY <1>0, <1>3, <1>t
  <2>6. PeerTypes'
    <3>1. \A q \in Peers : down'[q] \in Seq(DownFrames(q))
      BY <1>0, <1>t, <2>2, <2>4, Zenon DEF PeerTypes
    <3> QED BY <1>3, <1>t, <2>3, <2>4, <3>1 DEF PeerTypes
  <2>7. TypeOK'
    BY <1>0, <1>1, <1>t, <2>5, <2>6, TypesAgain, Zenon
  <2>8. Still(o)
    BY <1>1, <1>3, <2>3, <2>4, <2>5 DEF Still
  <2>9. /\ r = Described(remote[p]) => /\ r.described /\ r.ended = remote[p].ended
                                       /\ r.applied + r.pending = remote[p].applied + remote[p].pending
        /\ r = Candidate(remote[p]) => /\ r.described = remote[p].described /\ r.ended = remote[p].ended
                                       /\ r.applied + r.pending = remote[p].applied + remote[p].pending + 1
        /\ r = [remote[p] EXCEPT !.ended = TRUE] =>
              /\ r.described = remote[p].described /\ r.ended
              /\ r.applied + r.pending = remote[p].applied + remote[p].pending
    <3> DEFINE b == remote[p]
    <3>1. b \in RemoteType
      BY <1>t
    <3> HIDE DEF b
    <3>2. r = Described(b) => r.described /\ r.ended = b.ended /\ r.applied + r.pending = b.applied + b.pending
      BY <3>1 DEF RemoteType, Described
    <3>3. r = Candidate(b) => r.described = b.described /\ r.ended = b.ended
                              /\ r.applied + r.pending = b.applied + b.pending + 1
      <4>1. CASE b.described
        <5>1. r = Candidate(b) => r = [b EXCEPT !.applied = @ + 1]
          BY <4>1 DEF Candidate
        <5> QED BY <3>1, <5>1 DEF RemoteType
      <4>2. CASE ~b.described
        <5>1. r = Candidate(b) => r = [b EXCEPT !.pending = @ + 1]
          BY <4>2 DEF Candidate
        <5> QED BY <3>1, <5>1 DEF RemoteType
      <4> QED BY <4>1, <4>2
    <3>4. r = [b EXCEPT !.ended = TRUE] => r.described = b.described /\ r.ended
                              /\ r.applied + r.pending = b.applied + b.pending
      BY <3>1 DEF RemoteType
    <3> QED BY <3>2, <3>3, <3>4 DEF b
  <2>10. Hears(p, m)
    BY <1>1, <1>3, <1>m, <2>3, <2>4, <2>5, <2>8, <2>9 DEF Hears
  <2> QED BY <2>7, <2>10 DEF Kinds
<1>b. remote[p] \in RemoteType /\ remote = [remote EXCEPT ![p] = remote[p]] /\ pc = [pc EXCEPT ![p] = pc[p]]
  BY <1>0, <1>t DEF PeerTypes
<1>n. "ready" \in Places /\ "describing" \in Places /\ "exchange" \in Places /\ "connecting" \in Places
  BY DEF Places, Waiting
<1>4. CASE pc[p] \in {"binding", "ready"}
  <2> DEFINE expected == IF pc[p] = "binding" THEN "bound" ELSE "peer_ready"
             n == IF pc[p] = "binding" THEN "ready" ELSE IF p = "joiner" THEN "describing" ELSE "exchange"
  <2>1. CASE m = expected /\ pc' = [pc EXCEPT ![p] = n] /\ Taken(p) /\ UNCHANGED <<up, link, cause, remote>>
    <3>0. n \in Places
      BY <1>n
    <3>1. n \in Places /\ remote' = [remote EXCEPT ![p] = remote[p]]
      BY <1>b, <2>1, <3>0, Zenon
    <3>2. \/ m = "bound" /\ pc[p] = "binding" /\ n = "ready"
          \/ m = "peer_ready" /\ pc[p] = "ready" /\ n = IF p = "joiner" THEN "describing" ELSE "exchange"
      <4>1. m = expected
        BY <2>1
      <4> HIDE DEF m
      <4>2. CASE pc[p] = "binding"
        BY <4>1, <4>2
      <4>3. CASE pc[p] = "ready"
        BY <4>1, <4>3, Pair
      <4> QED BY <1>4, <4>2, <4>3
    <3> HIDE DEF n, m
    <3> QED BY <1>3, <1>b, <2>1, <3>1, <3>2, Zenon
  <2>2. CASE m # expected /\ Finish(p, "failed", "signaling") /\ remote' = remote
    <3>1. Unexpected(p, m)
      BY <1>4, <2>2 DEF Unexpected
    <3> QED BY <1>2, <1>4, <2>2, <3>1
  <2> QED BY <1>4, <2>1, <2>2 DEF Read
<1>5. CASE pc[p] = "exchange"
  <2>0. Exchange(p, m)
    BY <1>5 DEF Read
  <2>a. Description(p) = (IF p = "joiner" THEN "answer" ELSE "offer")
    BY DEF Description
  <2> HIDE DEF m
  <2>1. CASE /\ m = Description(p) /\ ~remote[p].described
             /\ remote' = [remote EXCEPT ![p] = Described(@)]
             /\ pc' = [pc EXCEPT ![p] = IF p = "listener" THEN "describing" ELSE @]
             /\ Taken(p) /\ UNCHANGED <<up, link, cause>>
    <3> DEFINE n == IF p = "listener" THEN "describing" ELSE "exchange"
               r == Described(remote[p])
    <3>1. r \in RemoteType
      BY <1>b, DescribedType
    <3>2. pc' = [pc EXCEPT ![p] = n] /\ n \in Places /\ remote' = [remote EXCEPT ![p] = r]
      <4>1. pc' = [pc EXCEPT ![p] = n]
        <5>1. CASE p = "listener"
          BY <2>1, <5>1
        <5>2. CASE p # "listener"
          BY <1>5, <2>1, <5>2
        <5> QED BY <5>1, <5>2
      <4>2. n \in Places
        BY <1>n
      <4> QED BY <2>1, <4>1, <4>2, Zenon
    <3>3. r = Described(remote[p]) /\ n = IF p = "listener" THEN "describing" ELSE "exchange"
      OBVIOUS
    <3> HIDE DEF n, r
    <3> QED BY <1>3, <1>5, <2>1, <3>1, <3>2, <3>3, Zenon
  <2>2. CASE /\ m = "candidate"
             /\ remote' = [remote EXCEPT ![p] = Candidate(@)]
             /\ Taken(p) /\ UNCHANGED <<up, link, cause, pc>>
    <3> DEFINE r == Candidate(remote[p])
    <3>1. r \in RemoteType
      BY <1>b DEF RemoteType, Candidate
    <3>2. pc' = [pc EXCEPT ![p] = "exchange"] /\ remote' = [remote EXCEPT ![p] = r]
      BY <1>5, <1>b, <2>2
    <3>3. r = Candidate(remote[p])
      OBVIOUS
    <3> HIDE DEF r
    <3> QED BY <1>3, <1>5, <1>n, <2>2, <3>1, <3>2, <3>3, ZenonT(30)
  <2>3. CASE /\ m = "end_of_candidates" /\ remote[p].described
             /\ remote' = [remote EXCEPT ![p].ended = TRUE]
             /\ pc' = [pc EXCEPT ![p] = NextPc(p, ice[p], remote'[p])]
             /\ Taken(p) /\ UNCHANGED <<up, link, cause>>
    <3> DEFINE r == [remote[p] EXCEPT !.ended = TRUE]
               n == NextPc(p, ice[p], remote'[p])
    <3>1. r \in RemoteType /\ remote' = [remote EXCEPT ![p] = r] /\ r.ended = TRUE
      BY <1>b, <2>3, Zenon DEF RemoteType
    <3>2. remote'[p] = r
      BY <1>t, <3>1
    <3>3. n = IF ice[p].done THEN "connecting" ELSE "exchange"
      BY <3>1, <3>2, ZenonT(30) DEF NextPc, Exchanged
    <3>4. r = [remote[p] EXCEPT !.ended = TRUE] /\ pc' = [pc EXCEPT ![p] = n] /\ n \in Places
      BY <1>n, <2>3, <3>3
    <3> HIDE DEF r, n
    <3> QED BY <1>3, <1>5, <2>3, <3>1, <3>3, <3>4, Zenon
  <2>4. CASE /\ \/ m \in {"bound", "peer_ready", "peer_left", "error", "close"}
                \/ m = "candidate" /\ TooMany(p)
                \/ m = "end_of_candidates" /\ ~remote[p].described
                \/ m \in {"offer", "answer"} /\ (m # Description(p) \/ remote[p].described)
             /\ Finish(p, "failed", "signaling") /\ UNCHANGED remote
    <3>1. Unexpected(p, m)
      BY <1>5, <1>m, <2>4 DEF Unexpected
    <3> QED BY <1>2, <1>5, <2>4, <3>1 DEF m
  <2> QED BY <2>0, <2>1, <2>2, <2>3, <2>4 DEF Exchange
<1> QED BY <1>4, <1>5 DEF Read

\* The room lets through all the frames that the peers send.
LEMMA Forwarding ==
    ASSUME RoomInv, NEW p \in Peers, room.phase = "open", up[p] # <<>>,
           NEW m \in {Own(p), "candidate", "end_of_candidates"}, m = Head(up[p])
    PROVE  Forwardable(p, m) /\ (m = Own(p) => ~Forwarded(p))
<1>0. /\ TypeOK /\ Upright(p) /\ up[p] \in Seq(UpFrames(p)) /\ room.candidates[p] \in Nat
      /\ ice[p].sent \in Nat /\ MaxCandidates \in Nat /\ ice[p].sent <= MaxCandidates
      /\ Own(p) \in {"offer", "answer"} /\ (p = "listener" => Own(p) = "answer") /\ (p = "joiner" => Own(p) = "offer")
      /\ (p = "listener" \/ p = "joiner")
  BY Types, Pair, FrameFacts, ZenonT(30) DEF RoomInv, Upright, Order
<1>1. In(m, up[p])
  BY <1>0, InQueue, ZenonT(30)
<1>2. room.bound = Peers
  BY <1>0, <1>1 DEF Upright, Meet
<1>3. m = Own(p) => ~Forwarded(p)
  BY <1>0, <1>1, ZenonT(30) DEF Upright, Frames
<1>4. m = "answer" => p = "listener" /\ room.offered /\ ~room.answered
  BY <1>0, <1>1, <1>3, ZenonT(30) DEF Upright, Frames, Forwarded
<1>5. m = "offer" => p = "joiner" /\ ~room.offered
  BY <1>0, <1>3 DEF Forwarded
<1>6. m = "candidate" => room.candidates[p] < MaxCandidates
  <2> SUFFICES ASSUME m = "candidate" PROVE room.candidates[p] < MaxCandidates
    OBVIOUS
  <2>1. Orderly(Own(p), up[p], room.candidates[p], ice[p].sent) /\ Own(p) # "candidate"
    BY <1>0, Zenon DEF Upright, Frames
  <2>2. room.candidates[p] < ice[p].sent
    <3> DEFINE q == up[p]
               n == room.candidates[p]
               s == ice[p].sent
    <3>1. q \in Seq(UpFrames(p)) /\ q # <<>> /\ n \in Nat /\ s \in Nat /\ Orderly(Own(p), q, n, s) /\ Head(q) = "candidate"
      BY <1>0, <2>1
    <3> HIDE DEF q, n, s
    <3>2. n < s
      BY <2>1, <3>1, OrderlyHead
    <3> QED BY <3>2 DEF n, s
  <2> QED BY <1>0, <2>2
<1> QED BY <1>2, <1>3, <1>4, <1>5, <1>6 DEF Forwardable

\* What a bind is answered with.
LEMMA Joined ==
    /\ \A a, b : <<a>> \o <<b>> = <<a, b>>
    /\ \A a : <<a>> \o <<>> = <<a>> /\ <<>> \o <<a>> = <<a>>
    /\ <<>> \o <<>> = <<>>
<1>1. ASSUME NEW a, NEW b PROVE <<a>> \o <<b>> = <<a, b>>
  <2> DEFINE r == <<a>> \o <<b>>
  <2>1. r \in Seq({a, b})
    OBVIOUS
  <2>2. Len(r) = 2
    OBVIOUS
  <2>3. r[1] = a /\ r[2] = b
    OBVIOUS
  <2> HIDE DEF r
  <2>4. r = <<a, b>>
    BY <2>1, <2>2, <2>3
  <2> QED BY <2>4 DEF r
<1>2. \A a : <<a>> \o <<>> = <<a>>
  OBVIOUS
<1>3. \A a : <<>> \o <<a>> = <<a>>
  OBVIOUS
<1>4. <<>> \o <<>> = <<>>
  OBVIOUS
<1> QED BY <1>1, <1>2, <1>3, <1>4

\* The types of the queues that a room reads from and writes to.
LEMMA RoomTypes ==
    ASSUME TypeOK, UNCHANGED <<link, pc, cause>>, up' = [q \in Peers |-> up'[q]], down' = [q \in Peers |-> down'[q]],
           \A q \in Peers : up'[q] \in Seq(UpFrames(q)) /\ down'[q] \in Seq(DownFrames(q))
    PROVE  PeerTypes'
  BY DEF TypeOK, PeerTypes

\* The room takes a frame of a peer.
LEMMA RoomKinds ==
    ASSUME RoomInv, NEW p \in Peers, RoomStep(p)
    PROVE  Kinds /\ TypeOK'
<1> DEFINE o == Other(p)
           m == Head(up[p])
<1>0. /\ TypeOK /\ Upright(p) /\ ~room.refused /\ o \in Peers /\ o # p /\ (\A q \in Peers : q = p \/ q = o) /\ Other(o) = p
      /\ up[p] \in Seq(UpFrames(p)) /\ down[p] \in Seq(DownFrames(p)) /\ down[o] \in Seq(DownFrames(o))
      /\ "bound" \in DownFrames(p) /\ "peer_ready" \in DownFrames(p) /\ "peer_ready" \in DownFrames(o)
      /\ "close" \in DownFrames(p) /\ "close" \in DownFrames(o) /\ "peer_left" \in DownFrames(o)
  BY Types, Pair, FrameFacts, ZenonT(30) DEF RoomInv
<1>t. room \in RoomType /\ ice \in [Peers -> IceType] /\ remote \in [Peers -> RemoteType]
      /\ path \in BOOLEAN /\ cut \in BOOLEAN /\ PeerTypes
  BY <1>0 DEF TypeOK, PeerTypes
<1>1. up[p] # <<>> /\ UNCHANGED <<program, calm, link, pc, ice, remote, path, cause, cut>>
  BY DEF RoomStep
<1>2. m \in UpFrames(p) /\ Tail(up[p]) \in Seq(UpFrames(p)) /\ <<>> \in Seq(UpFrames(p))
  BY <1>0, <1>1, SMTT(30)
<1>3. ASSUME NEW t \in Seq(UpFrames(p)), up' = [up EXCEPT ![p] = t]
      PROVE  /\ up'[p] = t /\ up'[o] = up[o] /\ up' = [q \in Peers |-> up'[q]]
             /\ \A q \in Peers : up'[q] \in Seq(UpFrames(q))
  <2> HIDE DEF o
  <2>1. up'[p] = t /\ up'[o] = up[o] /\ up' = [q \in Peers |-> up'[q]]
    BY <1>0, <1>3, <1>t, ZenonT(30) DEF PeerTypes
  <2> QED BY <1>0, <1>t, <2>1, Zenon DEF PeerTypes
<1>f. ASSUME room' \in RoomType, up' = [q \in Peers |-> up'[q]], down' = [q \in Peers |-> down'[q]],
             \A q \in Peers : up'[q] \in Seq(UpFrames(q)),
             down'[p] \in Seq(DownFrames(p)), down'[o] \in Seq(DownFrames(o))
      PROVE  TypeOK'
  <2>1. \A q \in Peers : down'[q] \in Seq(DownFrames(q))
    BY <1>0, <1>f, Zenon
  <2>2. PeerTypes'
    BY <1>0, <1>1, <1>f, <2>1, RoomTypes
  <2> QED BY <1>0, <1>1, <1>f, <1>t, <2>2, TypesAgain
<1>u. down' = down => down' = [q \in Peers |-> down'[q]]
  BY <1>t DEF PeerTypes
<1>4. CASE room.phase # "open"
  <2>1. up' = [up EXCEPT ![p] = <<>>] /\ UNCHANGED <<room, down>>
    BY <1>4 DEF RoomStep, RoomOpenFor
  <2>2. /\ up'[p] = <<>> /\ up'[o] = up[o] /\ up' = [q \in Peers |-> up'[q]]
        /\ \A q \in Peers : up'[q] \in Seq(UpFrames(q))
    BY <1>2, <1>3, <2>1, ZenonT(30)
  <2>3. Ignores(p)
    BY <1>1, <1>4, <2>1, <2>2 DEF Ignores
  <2>4. TypeOK'
    BY <1>0, <1>f, <1>t, <1>u, <2>1, <2>2
  <2> QED BY <2>3, <2>4 DEF Kinds
<1>5. CASE room.phase = "open"
  <2>1. up' = [up EXCEPT ![p] = Tail(@)]
        /\ CASE m = "bind"              -> BindAccepted(p)
             [] m \in {"leave", "gone"} -> IF p \in room.bound
                                           THEN CloseRoom(p, "peer_left")
                                           ELSE UNCHANGED <<room, down>>
             [] OTHER                   -> Forward(p, m)
    BY <1>5 DEF RoomStep, RoomOpenFor
  <2>2. /\ up'[p] = Tail(up[p]) /\ up'[o] = up[o] /\ up' = [q \in Peers |-> up'[q]]
        /\ \A q \in Peers : up'[q] \in Seq(UpFrames(q))
    <3>1. up' = [up EXCEPT ![p] = Tail(up[p])]
      BY <2>1
    <3> QED BY <1>2, <1>3, <3>1, Zenon
  <2>3. Takes(p)
    BY <1>1, <2>2 DEF Takes
  <2>4. CASE m = "bind"
    <3>1. BindAccepted(p)
      BY <2>1, <2>4
    <3> DEFINE both == room.bound \cup {p} = Peers
               F(q) == (IF q = p THEN <<"bound">> ELSE <<>>) \o (IF both THEN <<"peer_ready">> ELSE <<>>)
    <3>2. room' = [room EXCEPT !.bound = @ \cup {p}] /\ down' = [q \in Peers |-> Tell(q, F(q))]
      BY <3>1 DEF BindAccepted
    <3>3. /\ F(p) = IF both THEN <<"bound", "peer_ready">> ELSE <<"bound">>
          /\ F(o) = IF both THEN <<"peer_ready">> ELSE <<>>
      <4> HIDE DEF o, both
      <4> QED BY <1>0, Joined, Zenon
    <3>4. /\ down'[p] = Tell(p, F(p)) /\ down'[o] = Tell(o, F(o)) /\ down' = [q \in Peers |-> down'[q]]
      <4> HIDE DEF F, o
      <4> QED BY <1>0, <3>2
    <3>5. /\ down'[p] = Tell(p, IF both THEN <<"bound", "peer_ready">> ELSE <<"bound">>)
          /\ down'[o] = Tell(o, IF both THEN <<"peer_ready">> ELSE <<>>)
      BY <3>3, <3>4, Zenon
    <3>6. Binds(p)
      BY <1>5, <2>3, <2>4, <3>2, <3>5 DEF Binds
    <3>7. room' \in RoomType
      BY <1>t, <3>2, ZenonT(30) DEF RoomType
    <3>8. down'[p] \in Seq(DownFrames(p)) /\ down'[o] \in Seq(DownFrames(o))
      <4> HIDE DEF o, both
      <4>1. Tell(p, <<"bound">>) \in Seq(DownFrames(p)) /\ Tell(p, <<"bound", "peer_ready">>) \in Seq(DownFrames(p))
        BY <1>0, Told, Zenon
      <4>2. Tell(o, <<"peer_ready">>) \in Seq(DownFrames(o)) /\ Tell(o, <<>>) \in Seq(DownFrames(o))
        BY <1>0, Told, Zenon
      <4> QED BY <3>5, <4>1, <4>2
    <3>9. TypeOK'
      BY <1>f, <2>2, <3>4, <3>7, <3>8
    <3> QED BY <3>6, <3>9 DEF Kinds
  <2>5. CASE m \in {"leave", "gone"} /\ p \in room.bound
    <3>1. CloseRoom(p, "peer_left")
      BY <2>1, <2>5
    <3>2. /\ room' = [room EXCEPT !.phase = "closed", !.bound = {}]
          /\ down' = [q \in Peers |-> Tell(q, IF q = p THEN <<"close">> ELSE <<"peer_left", "close">>)]
      BY <3>1 DEF CloseRoom
    <3>3. /\ down'[p] = Tell(p, <<"close">>) /\ down'[o] = Tell(o, <<"peer_left", "close">>)
          /\ down' = [q \in Peers |-> down'[q]]
      <4> HIDE DEF o
      <4> QED BY <1>0, <3>2
    <3>4. Closes(p)
      BY <1>5, <2>3, <2>5, <3>2, <3>3 DEF Closes
    <3>5. room' \in RoomType
      BY <1>t, <3>2, ZenonT(30) DEF RoomType
    <3>6. down'[p] \in Seq(DownFrames(p)) /\ down'[o] \in Seq(DownFrames(o))
      <4> HIDE DEF o
      <4>1. Tell(p, <<"close">>) \in Seq(DownFrames(p))
        BY <1>0, Told, Zenon
      <4>2. Tell(o, <<"peer_left", "close">>) \in Seq(DownFrames(o))
        BY <1>0, Told, Zenon
      <4> QED BY <3>3, <4>1, <4>2
    <3>7. TypeOK'
      BY <1>f, <2>2, <3>3, <3>5, <3>6
    <3> QED BY <3>4, <3>7 DEF Kinds
  <2>6. CASE m \in {"leave", "gone"} /\ p \notin room.bound
    <3>1. UNCHANGED <<room, down>>
      BY <2>1, <2>6
    <3>2. Ignores(p)
      BY <1>1, <2>2, <2>6, <3>1 DEF Ignores
    <3>3. TypeOK'
      BY <1>0, <1>f, <1>t, <1>u, <2>2, <3>1
    <3> QED BY <3>2, <3>3 DEF Kinds
  <2>7. CASE m \notin {"bind", "leave", "gone"}
    <3>0. m \in {Own(p), "candidate", "end_of_candidates"}
      BY <1>2, <2>7 DEF UpFrames
    <3>1. Forward(p, m)
      BY <2>1, <2>7
    <3>2. Forwardable(p, m) /\ (m = Own(p) => ~Forwarded(p))
      BY <1>1, <1>5, <3>0, Forwarding
    <3>m. m \in DownFrames(o)
      BY <3>0, Pair, FrameFacts
    <3> HIDE DEF m
    <3>3. /\ room' = [room EXCEPT !.offered = @ \/ m = "offer", !.answered = @ \/ m = "answer",
                                  !.candidates[p] = IF m = "candidate" THEN @ + 1 ELSE @]
          /\ down' = [down EXCEPT ![o] = Tell(o, <<m>>)]
      BY <3>1, <3>2 DEF Forward
    <3>4. down'[p] = down[p] /\ down'[o] = Tell(o, <<m>>) /\ down' = [q \in Peers |-> down'[q]]
      <4> HIDE DEF o
      <4> QED BY <1>0, <1>t, <3>3, Zenon DEF PeerTypes
    <3>5. room.bound = Peers
      BY <3>2 DEF Forwardable
    <3>6. /\ room' \in RoomType /\ room'.phase = room.phase /\ room'.bound = room.bound /\ ~room'.refused
          /\ room'.offered = (room.offered \/ m = "offer")
          /\ room'.answered = (room.answered \/ m = "answer")
          /\ room'.candidates[p] = IF m = "candidate" THEN room.candidates[p] + 1 ELSE room.candidates[p]
          /\ room'.candidates[o] = room.candidates[o]
      <4> HIDE DEF o
      <4> DEFINE a == room.offered \/ m = "offer"
                 b == room.answered \/ m = "answer"
                 n == IF m = "candidate" THEN room.candidates[p] + 1 ELSE room.candidates[p]
                 c == [room.candidates EXCEPT ![p] = n]
      <4>1. a \in BOOLEAN /\ b \in BOOLEAN /\ n \in Nat
        BY <1>t DEF RoomType
      <4>2. room' = [room EXCEPT !.offered = a, !.answered = b, !.candidates = c]
        BY <3>3
      <4> HIDE DEF a, b, n
      <4>3. c \in [Peers -> Nat] /\ c[p] = n /\ c[o] = room.candidates[o]
        BY <1>0, <1>t, <4>1 DEF RoomType
      <4> HIDE DEF c
      <4> DEFINE r == [room EXCEPT !.offered = a]
                 s == [r EXCEPT !.answered = b]
                 t == [s EXCEPT !.candidates = c]
      <4>4. room' = t
        BY <4>2
      <4>5. r \in RoomType /\ r.phase = room.phase /\ r.bound = room.bound /\ r.refused = room.refused /\ r.offered = a
        BY <1>t, <4>1 DEF RoomType
      <4> HIDE DEF r
      <4>6. s \in RoomType /\ s.phase = r.phase /\ s.bound = r.bound /\ s.refused = r.refused /\ s.offered = r.offered
            /\ s.answered = b
        BY <4>1, <4>5 DEF RoomType
      <4> HIDE DEF s
      <4>7. t \in RoomType /\ t.phase = s.phase /\ t.bound = s.bound /\ t.refused = s.refused /\ t.offered = s.offered
            /\ t.answered = s.answered /\ t.candidates = c
        BY <4>3, <4>6 DEF RoomType
      <4> HIDE DEF t
      <4> QED BY <1>0, <4>3, <4>4, <4>5, <4>6, <4>7, ZenonT(30) DEF a, b, n
    <3>7. Forwards(p, m)
      BY <1>5, <2>3, <3>0, <3>2, <3>4, <3>5, <3>6 DEF Forwards, m
    <3>8. down'[o] \in Seq(DownFrames(o)) /\ down'[p] \in Seq(DownFrames(p))
      <4> HIDE DEF o
      <4>1. Tell(o, <<m>>) \in Seq(DownFrames(o))
        BY <1>0, <3>m, Told, ZenonT(30)
      <4> QED BY <1>0, <3>4, <4>1
    <3>9. TypeOK'
      BY <1>f, <2>2, <3>4, <3>6, <3>8
    <3> QED BY <3>7, <3>9 DEF Kinds
  <2> QED BY <2>4, <2>5, <2>6, <2>7
<1> QED BY <1>4, <1>5

\* The room's alarm, and the direct path.
LEMMA OtherKinds ==
    ASSUME RoomInv, RoomExpires \/ PathUp \/ UNCHANGED vars
    PROVE  Kinds /\ TypeOK'
<1>0. TypeOK
  BY DEF RoomInv
<1>t. room \in RoomType /\ ice \in [Peers -> IceType] /\ remote \in [Peers -> RemoteType]
      /\ path \in BOOLEAN /\ cut \in BOOLEAN /\ PeerTypes
  BY <1>0 DEF TypeOK, PeerTypes
<1>1. CASE RoomExpires
  <2>1. /\ room.phase = "open" /\ cut' = TRUE
        /\ UNCHANGED <<program, calm, up, link, pc, ice, remote, path, cause>>
        /\ room' = [room EXCEPT !.phase = "closed", !.bound = {}]
        /\ down' = [q \in Peers |-> Tell(q, IF q = "nobody" THEN <<"close">> ELSE <<"error", "close">>)]
    BY <1>1 DEF RoomExpires, CloseRoom
  <2>2. \A q \in Peers : q # "nobody"
    BY DEF Peers
  <2>3. (\A q \in Peers : down'[q] = Tell(q, <<"error", "close">>)) /\ down' = [q \in Peers |-> down'[q]]
    BY <2>1, <2>2
  <2>4. Expires
    BY <2>1, <2>3 DEF Expires
  <2>5. \A q \in Peers : down'[q] \in Seq(DownFrames(q))
    <3> SUFFICES ASSUME NEW q \in Peers PROVE down'[q] \in Seq(DownFrames(q))
      OBVIOUS
    <3>1. "error" \in DownFrames(q) /\ "close" \in DownFrames(q)
      BY FrameFacts
    <3>2. Tell(q, <<"error", "close">>) \in Seq(DownFrames(q))
      BY <1>0, <3>1, Told, Zenon
    <3> QED BY <2>3, <3>2
  <2>6. room' \in RoomType
    BY <1>t, <2>1, Zenon DEF RoomType
  <2>7. up' = [q \in Peers |-> up'[q]] /\ \A q \in Peers : up'[q] \in Seq(UpFrames(q))
    BY <1>t, <2>1 DEF PeerTypes
  <2>8. PeerTypes'
    BY <1>0, <2>1, <2>3, <2>5, <2>7, RoomTypes
  <2>9. TypeOK'
    BY <1>0, <1>t, <2>1, <2>6, <2>8, TypesAgain
  <2> QED BY <2>4, <2>9 DEF Kinds
<1>2. CASE PathUp \/ UNCHANGED vars
  <2>1. UNCHANGED <<program, calm, room, up, down, link, pc, ice, remote, cause, cut>> /\ path' \in BOOLEAN
    BY <1>2, <1>t, ZenonT(30) DEF PathUp, vars
  <2>2. TypeOK'
    BY <1>0, <2>1 DEF TypeOK
  <2> QED BY <2>1, <2>2 DEF Kinds, Rests
<1> QED BY <1>1, <1>2

\* Every step is of one of the kinds.
LEMMA NextKinds ==
    ASSUME RoomInv, [Next]_vars
    PROVE  Kinds /\ TypeOK'
<1>1. CASE CreateListener \/ Join
  BY <1>1, OpenKinds
<1>2. CASE RoomExpires \/ PathUp \/ UNCHANGED vars
  BY <1>2, OtherKinds
<1>3. ASSUME NEW p \in Peers, PeerStep(p) PROVE Kinds /\ TypeOK'
  BY <1>3, DescribeKinds, IceKinds, ReadKinds, EndKinds DEF PeerStep
<1>4. ASSUME NEW p \in Peers, RoomStep(p) PROVE Kinds /\ TypeOK'
  BY <1>4, RoomKinds
<1>5. ASSUME NEW p \in Peers, SocketCloses(p) \/ SocketLost(p) PROVE Kinds /\ TypeOK'
  BY <1>5, SocketKinds
<1> QED BY <1>1, <1>2, <1>3, <1>4, <1>5 DEF Next

-----------------------------------------------------------------------------
(* The room never refuses a frame, and keeps the promise of RoomContract.  *)

\* Nobody has done anything yet.
LEMMA InitRoom == Init => RoomInv
<1> SUFFICES ASSUME Init PROVE RoomInv
  OBVIOUS
<1>0. "listener" \in Peers /\ "joiner" \in Peers
  BY DEF Peers
<1>1. /\ room = [phase |-> "none", bound |-> {}, offered |-> FALSE, answered |-> FALSE,
                 candidates |-> [p \in Peers |-> 0], refused |-> FALSE]
      /\ \A p \in Peers : /\ up[p] = <<>> /\ down[p] = <<>> /\ link[p] = "none" /\ pc[p] = "idle"
                          /\ ~ice[p].started /\ ~ice[p].done /\ ice[p].sent = 0 /\ ~remote[p].described
      /\ MaxCandidates \in Nat
  BY CandidateAssumption, ZenonT(30) DEF Init
<1>2. TypeOK
  <2>1. room \in RoomType
    BY <1>1, Zenon DEF RoomType
  <2>2. ice \in [Peers -> IceType]
    <3> DEFINE T == 0..(MaxCandidates + 1)
               B == [total : T, sent : {0}, started : {FALSE}, done : {FALSE}]
    <3>1. T \subseteq Nat
      BY CandidateAssumption
    <3>2. ice \in [Peers -> B]
      BY Zenon DEF Init
    <3> HIDE DEF T
    <3>3. ASSUME NEW b \in B PROVE b \in IceType
      <4>1. b = [total |-> b.total, sent |-> b.sent, started |-> b.started, done |-> b.done]
            /\ b.total \in T /\ b.sent = 0 /\ b.started = FALSE /\ b.done = FALSE
        BY ZenonT(30)
      <4>a. b.total \in T /\ b.sent = 0
        OBVIOUS
      <4>2. b.total \in Nat /\ b.sent \in Nat
        <5>1. b.total \in Nat
          BY <3>1, <4>a, Zenon
        <5>2. 0 \in Nat
          OBVIOUS
        <5> QED BY <4>a, <5>1, <5>2, Zenon
      <4>3. b.started \in BOOLEAN /\ b.done \in BOOLEAN
        BY <4>1, Zenon
      <4> QED BY <4>1, <4>2, <4>3 DEF IceType
    <3> HIDE DEF B
    <3> QED BY <3>2, <3>3
  <2>3. remote \in [Peers -> RemoteType]
    BY DEF Init, RemoteType
  <2>4. pc \in [Peers -> Places] /\ link \in [Peers -> {"none", "open", "closed"}]
        /\ cause \in [Peers -> {"none", "own", "signaling"}]
    <3>1. pc = [p \in Peers |-> "idle"] /\ "idle" \in Places
      BY DEF Init, Places
    <3> QED BY <3>1 DEF Init
  <2>5. up = [p \in Peers |-> up[p]] /\ down = [p \in Peers |-> down[p]]
    BY DEF Init
  <2>6. \A p \in Peers : up[p] \in Seq(UpFrames(p)) /\ down[p] \in Seq(DownFrames(p))
    <3>1. \A S : <<>> \in Seq(S)
      OBVIOUS
    <3> QED BY <1>1, <3>1, Zenon
  <2>7. program \in {"browser", "rust"} /\ calm \in BOOLEAN /\ path \in BOOLEAN /\ cut \in BOOLEAN
    BY Zenon DEF Init
  <2> QED BY <2>1, <2>2, <2>3, <2>4, <2>5, <2>6, <2>7 DEF TypeOK
<1>3. Born /\ ~room.refused
  BY <1>0, <1>1 DEF Born
<1>4. ASSUME NEW p \in Peers PROVE Upright(p)
  <2>1. \A m : ~In(m, <<>>)
    BY DEF In
  <2>2. room.candidates[p] = 0
    BY <1>1, ZenonT(30)
  <2>3. Order(p)
    BY <1>1, <2>1, <2>2 DEF Order
  <2> QED BY <1>1, <2>3, Zenon DEF Upright, Meet, Frames
<1> QED BY <1>2, <1>3, <1>4 DEF RoomInv

\* RoomInv is inductive.
LEMMA RoomInvariance == Spec => []RoomInv
<1>1. RoomInv /\ [Next]_vars => RoomInv'
  <2> SUFFICES ASSUME RoomInv, [Next]_vars PROVE RoomInv'
    OBVIOUS
  <2>1. Kinds /\ TypeOK'
    BY NextKinds
  <2>2. TypeOK /\ Born /\ ~room.refused /\ \A q \in Peers : Upright(q)
    BY DEF RoomInv
  <2>3. \A q \in Peers : Upright(q)'
    BY <2>1, <2>2, KindsUpright
  <2>4. Born' /\ ~room'.refused
    BY <2>1, <2>2, KindsBorn
  <2> QED BY <2>1, <2>3, <2>4 DEF RoomInv
<1> QED BY <1>1, InitRoom, PTL DEF Spec

\* The peers keep to the rules of the room, so it never refuses a frame of theirs: both are
\* bound before a description is sent, one offer comes before one answer, and no more
\* candidates arrive than MAX_SIGNAL_CANDIDATES_PER_PEER.
THEOREM NeverRefuses == Spec => []NeverRefused
<1>1. RoomInv => NeverRefused
  BY DEF RoomInv, NeverRefused
<1> QED BY <1>1, RoomInvariance, PTL

Holder == [r \in Peers |-> IF r \in room.bound THEN r ELSE "nobody"]

\* Every step is a step of the contract, or none.
LEMMA ContractStep ==
    ASSUME RoomInv, RoomInv', Kinds
    PROVE  Contract!Next \/ UNCHANGED Contract!vars
<1>0. /\ room.phase \in {"none", "open", "closed"} /\ room.bound \subseteq Peers
      /\ room.offered \in BOOLEAN /\ room.answered \in BOOLEAN
      /\ "listener" \in Peers /\ "joiner" \in Peers /\ "nobody" \notin Peers
      /\ room'.offered \in BOOLEAN /\ room'.answered \in BOOLEAN /\ TypeOK
      /\ Contract!Roles = Peers /\ (room.answered => room.offered)
  BY Types, ZenonT(30) DEF RoomInv, TypeOK, RoomType, Peers, Contract!Roles, Born
<1>1. ASSUME room'.phase = room.phase, room'.bound = room.bound, room'.offered = room.offered, room'.answered = room.answered
      PROVE  UNCHANGED Contract!vars
  BY <1>1 DEF Contract!vars
<1>2. CASE Rests
  BY <1>1, <1>2 DEF Rests
<1>3. ASSUME NEW p \in Peers, NEW m, Posts(p, m) \/ Hears(p, m) \/ Ends(p) \/ Ignores(p) \/ Shuts(p) \/ Loses(p)
      PROVE  UNCHANGED Contract!vars
  BY <1>1, <1>3, Zenon DEF Posts, Hears, Ends, Ignores, Shuts, Loses
<1>4. ASSUME NEW p \in Peers, Opens(p)
      PROVE  Contract!Next \/ UNCHANGED Contract!vars
  <2>1. CASE room' = room
    BY <1>1, <2>1
  <2>2. CASE room' # room
    <3>1. room.phase = "none" /\ room' = [room EXCEPT !.phase = "open"]
      BY <1>4, <2>2 DEF Opens, RoomInv, Born
    <3>2. room'.phase = "open" /\ room'.bound = room.bound /\ room'.offered = room.offered /\ room'.answered = room.answered
      BY <1>0, <3>1 DEF TypeOK, RoomType
    <3>3. Contract!Create
      BY <3>1, <3>2 DEF Contract!Create
    <3> QED BY <3>3 DEF Contract!Next
  <2> QED BY <2>1, <2>2
<1>5. ASSUME room.phase = "open", room' = [room EXCEPT !.phase = "closed", !.bound = {}]
      PROVE  Contract!Next
  <2>1. room'.phase = "closed" /\ room'.bound = {} /\ room'.offered = room.offered /\ room'.answered = room.answered
    BY <1>0, <1>5 DEF TypeOK, RoomType
  <2>2. Holder' = [r \in Peers |-> "nobody"]
    BY <2>1 DEF Holder
  <2>3. Contract!Close
    BY <1>0, <1>5, <2>1, <2>2 DEF Contract!Close, Contract!Nobody, Holder
  <2> QED BY <2>3 DEF Contract!Next
<1>6. ASSUME NEW p \in Peers, Binds(p)
      PROVE  Contract!Next \/ UNCHANGED Contract!vars
  <2>1. /\ room.phase = "open" /\ room'.bound = room.bound \cup {p} /\ room'.phase = room.phase
        /\ room'.offered = room.offered /\ room'.answered = room.answered
    BY <1>0, <1>6 DEF Binds, TypeOK, RoomType
  <2>2. CASE p \in room.bound
    <3>1. room'.bound = room.bound
      BY <2>1, <2>2
    <3> QED BY <1>1, <2>1, <3>1
  <2>3. CASE p \notin room.bound
    <3>1. Holder[p] = "nobody"
      BY <2>3 DEF Holder
    <3>2. Holder' = [r \in Peers |-> IF r = p THEN p ELSE IF Holder[r] = p THEN "nobody" ELSE Holder[r]]
      <4>1. \A r \in Peers : Holder'[r] = IF r = p THEN p ELSE IF Holder[r] = p THEN "nobody" ELSE Holder[r]
        BY <1>0, <2>1, <2>3 DEF Holder
      <4>2. Holder' = [r \in Peers |-> Holder'[r]]
        BY DEF Holder
      <4> QED BY <4>1, <4>2
    <3>3. Contract!Hold(p, p)
      BY <1>0, <2>1, <3>1, <3>2 DEF Contract!Hold, Holder
    <3> QED BY <1>0, <3>3 DEF Contract!Next
  <2> QED BY <2>2, <2>3
<1>7. ASSUME NEW p \in Peers, NEW m, Forwards(p, m)
      PROVE  Contract!Next \/ UNCHANGED Contract!vars
  <2>1. /\ room.phase = "open" /\ room.bound = Peers /\ room'.phase = room.phase /\ room'.bound = room.bound
        /\ room'.offered = (room.offered \/ m = "offer")
        /\ room'.answered = (room.answered \/ m = "answer")
        /\ m = Own(p) => ~Forwarded(p)
        /\ m \in {Own(p), "candidate", "end_of_candidates"}
    BY <1>7 DEF Forwards
  <2>2. \A r \in Peers : Holder[r] # "nobody"
    BY <1>0, <2>1 DEF Holder
  <2>3. m = "offer" => ~room.offered
    BY <2>1 DEF Own, Forwarded
  <2>4. m = "answer" => room.offered /\ ~room.answered
    <3>1. m = "answer" => p = "listener" /\ m = Own(p)
      BY <2>1, Pair DEF Own
    <3>2. In(m, up[p])
      BY <1>0, <1>7, Types, InQueue, ZenonT(30) DEF Forwards, Takes
    <3> QED BY <2>1, <3>1, <3>2, ZenonT(30) DEF RoomInv, Upright, Frames, Forwarded
  <2>5. CASE m = "offer"
    <3>1. Contract!Offer
      BY <1>0, <2>1, <2>2, <2>3, <2>5, ZenonT(30) DEF Contract!Offer, Holder
    <3> QED BY <3>1 DEF Contract!Next
  <2>6. CASE m = "answer"
    <3>1. Contract!Answer
      BY <1>0, <2>1, <2>2, <2>4, <2>6 DEF Contract!Answer, Holder
    <3> QED BY <3>1 DEF Contract!Next
  <2>7. CASE m \notin {"offer", "answer"}
    BY <1>0, <1>1, <2>1, <2>7
  <2> QED BY <2>5, <2>6, <2>7
<1>8. CASE Expires
  BY <1>5, <1>8 DEF Expires
<1>9. ASSUME NEW p \in Peers, Closes(p) PROVE Contract!Next
  BY <1>5, <1>9 DEF Closes
<1> QED BY <1>2, <1>3, <1>4, <1>6, <1>7, <1>8, <1>9 DEF Kinds

\* The room that the two peers meet in keeps the promise of RoomContract, which SignalRoom
\* is proved to implement: it is made once and closed once, each role is held by its peer,
\* and one offer and then one answer are relayed.
THEOREM RoomKeepsPromise == Spec => RoomAsPromised
<1>1. Init => Contract!Init
  BY DEF Init, Contract!Init, Contract!Nobody, Contract!Roles, Peers
<1>2. RoomInv /\ RoomInv' /\ [Next]_vars => [Contract!Next]_(Contract!vars)
  BY NextKinds, ContractStep
<1> QED BY <1>1, <1>2, RoomInvariance, PTL DEF Spec, RoomAsPromised, Contract!Spec
=============================================================================
