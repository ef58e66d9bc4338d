----------------------- MODULE NegotiationPeerProofs -----------------------
(***************************************************************************)
(* What a peer of Negotiation has still to read, for any limit on          *)
(* candidates: a peer that is connected and leaves does not make the       *)
(* signaling of the other fail.                                            *)
(***************************************************************************)
EXTENDS NegotiationProofs

-----------------------------------------------------------------------------
(* What a peer reads while nothing has broken and the other has not failed.*)

\* How far the frames read take a peer, and those sent its peer: 0 alone, 1 bound,
\* 2 both bound, 3 described, 4 candidates over, 5 left.
Stage(p) ==
    CASE pc[p] \in {"idle", "binding"} -> 0
      [] pc[p] = "ready"               -> 1
      [] OTHER -> IF remote[p].ended THEN 4 ELSE IF remote[p].described THEN 3 ELSE 2
Level(p) ==
    IF pc[p] = "connected" THEN 5 ELSE IF ice[p].done THEN 4 ELSE IF ice[p].started THEN 3 ELSE 2

\* The stage a frame is for, and the one it leads to.
From(m) ==
    CASE m = "bound" -> 0
      [] m = "peer_ready" -> 1
      [] m \in {"offer", "answer"} -> 2
      [] m \in {"candidate", "end_of_candidates"} -> 3
      [] m \in {"leave", "peer_left"} -> 4
      [] m \in {"gone", "close"} -> 5
      [] OTHER -> 6
To(m) ==
    CASE m = "bound" -> 1
      [] m = "peer_ready" -> 2
      [] m \in {"offer", "answer", "candidate"} -> 3
      [] m = "end_of_candidates" -> 4
      [] OTHER -> 5

\* The frames of q lead from stage a to stage b.
Leads(a, q, b) ==
    /\ q = <<>> => a = b
    /\ q # <<>> => From(q[1]) = a /\ To(q[Len(q)]) = b
    /\ \A i \in 1..(Len(q) - 1) : From(q[i + 1]) = To(q[i])

Fine(p) == ~cut /\ pc[Other(p)] # "failed" /\ pc[p] \notin Ended
Got(p) == remote[p].applied + remote[p].pending
Left(s) == IF s < 3 THEN 3 - s ELSE 0

\* Alone, a peer reads that it is bound, once the room has bound it.
Waits(a, d, g, n) == Leads(a, d, n) /\ Len(d) = n - a /\ g = 0

\* Of two that are bound, one at stage a with d to read has got g candidates of the c that
\* the room has let through; with u, which is still to be relayed, that takes it to l.
Meeting(a, d, g, u, l, c) ==
    \E mid \in 2..4 :
        /\ Leads(a, d, mid) /\ Leads(mid, u, l)
        /\ mid = 2 => Len(d) = 2 - a /\ g = 0
        /\ mid = 3 => g + Len(d) <= c + 3 - a

\* No more candidates are read than the room has let through.
Counted(a, d, g, c) ==
    \A i \in 1..Len(d) : d[i] = "candidate" => g + i <= c + Left(a)

\* The frames p has still to read, with those the other has sent, are the rest of the
\* script.
Script(p) ==
    LET o == Other(p)
    IN /\ room.phase # "closed" /\ room.bound # Peers =>
              Waits(Stage(p), down[p], Got(p), IF p \in room.bound THEN 1 ELSE 0)
       /\ room.phase = "open" /\ room.bound = Peers =>
              Meeting(Stage(p), down[p], Got(p), up[o], Level(o), room.candidates[o])
       /\ room.phase = "closed" => Leads(Stage(p), down[p], 5)
       /\ Counted(Stage(p), down[p], Got(p), room.candidates[o])

BindFirst(q) == \A i \in 1..Len(q) : q[i] = "bind" => i = 1

\* Why a room is closed, and what a peer that is through has of the other.
Parting(p) ==
    /\ remote[p].ended \/ In("end_of_candidates", down[p]) => ice[Other(p)].done
    /\ In("end_of_candidates", up[p]) => ice[p].done
    /\ In("leave", up[p]) \/ In("gone", up[p]) => pc[p] \in Ended \/ cut
    /\ room.phase = "closed" => cut \/ \E q \in Peers : pc[q] \in Ended
    /\ In("close", down[p]) \/ link[p] = "closed" => cut \/ room.phase = "closed" \/ pc[p] \in Ended
    /\ pc[p] \in Waiting => link[p] # "none"
    /\ pc[p] \in {"idle", "binding", "ready"} => ~remote[p].described /\ ~remote[p].ended
    /\ BindFirst(up[p])
    /\ In("bind", up[p]) => p \notin room.bound

PeerInv == \A p \in Peers : Parting(p) /\ (Fine(p) => Script(p))

-----------------------------------------------------------------------------
(* Each kind of step keeps what a peer has to read.                        *)

\* A frame that is for the stage that a queue leads to comes next.
LEMMA LeadsAppend ==
    ASSUME NEW S, NEW q \in Seq(S), NEW x \in S, NEW a, NEW b, Leads(a, q, b), From(x) = b
    PROVE  Leads(a, Append(q, x), To(x))
<1> DEFINE r == Append(q, x)
           n == Len(q)
<1>1. /\ n \in Nat /\ Len(r) = n + 1 /\ r[n + 1] = x /\ (\A i \in 1..n : r[i] = q[i]) /\ r # <<>>
      /\ q = <<>> <=> n = 0
  OBVIOUS
<1>2. /\ n = 0 => a = b
      /\ n # 0 => From(q[1]) = a /\ To(q[n]) = b
      /\ \A i \in 1..(n - 1) : From(q[i + 1]) = To(q[i])
  BY <1>1 DEF Leads
<1> HIDE DEF r, n
<1>3. From(r[1]) = a /\ To(r[Len(r)]) = To(x)
  BY <1>1, <1>2
<1>4. ASSUME NEW i \in 1..(Len(r) - 1) PROVE From(r[i + 1]) = To(r[i])
  <2>1. CASE i = n
    BY <1>1, <1>2, <2>1
  <2>2. CASE i # n
    <3>1. i \in 1..(n - 1) /\ i + 1 \in 1..n /\ i \in 1..n
      BY <1>1, <2>2
    <3> QED BY <1>1, <1>2, <3>1
  <2> QED BY <2>1, <2>2
<1>5. Leads(a, r, To(x))
  BY <1>1, <1>3, <1>4 DEF Leads
<1> QED BY <1>5 DEF r

\* What is read is for the stage that a queue leads from.
LEMMA LeadsTail ==
    ASSUME NEW S, NEW q \in Seq(S), q # <<>>, NEW a, NEW b, Leads(a, q, b), NEW t, t = Tail(q)
    PROVE  From(Head(q)) = a /\ Leads(To(Head(q)), t, b)
<1> DEFINE n == Len(q)
<1>a. n \in Nat /\ n > 0 /\ Len(t) = n - 1 /\ Head(q) = q[1] /\ t \in Seq(S)
  OBVIOUS
<1>b. \A i \in 1..(n - 1) : t[i] = q[i + 1]
  OBVIOUS
<1>c. t = <<>> <=> Len(t) = 0
  <2>1. t \in Seq(S)
    BY <1>a
  <2> QED BY ONLY <2>1
<1>1. /\ n \in Nat /\ n > 0 /\ Len(t) = n - 1 /\ (\A i \in 1..(n - 1) : t[i] = q[i + 1]) /\ Head(q) = q[1]
      /\ t = <<>> <=> n = 1
  BY <1>a, <1>b, <1>c
<1>2. /\ From(q[1]) = a /\ To(q[n]) = b
      /\ \A i \in 1..(n - 1) : From(q[i + 1]) = To(q[i])
  BY DEF Leads
<1> HIDE DEF n
<1>3. t # <<>> => From(t[1]) = To(q[1]) /\ To(t[Len(t)]) = b
  BY <1>1, <1>2
<1>4. t = <<>> => To(q[1]) = b
  BY <1>1, <1>2
<1>5. \A i \in 1..(Len(t) - 1) : From(t[i + 1]) = To(t[i])
  BY <1>1, <1>2
<1>6. Leads(To(q[1]), t, b)
  BY <1>3, <1>4, <1>5 DEF Leads
<1> QED BY <1>1, <1>2, <1>6

\* No frames lead nowhere.
LEMMA LeadsNowhere ==
    ASSUME NEW a PROVE Leads(a, <<>>, a) /\ \A b : Leads(a, <<>>, b) => a = b
  BY DEF Leads

\* The stages of each frame.
LEMMA Stages ==
    /\ From("bound") = 0 /\ To("bound") = 1 /\ From("peer_ready") = 1 /\ To("peer_ready") = 2
    /\ From("offer") = 2 /\ To("offer") = 3 /\ From("answer") = 2 /\ To("answer") = 3
    /\ From("candidate") = 3 /\ To("candidate") = 3
    /\ From("end_of_candidates") = 3 /\ To("end_of_candidates") = 4
    /\ From("leave") = 4 /\ To("leave") = 5 /\ From("peer_left") = 4 /\ To("peer_left") = 5
    /\ From("gone") = 5 /\ To("gone") = 5 /\ From("close") = 5 /\ To("close") = 5
    /\ From("error") = 6 /\ From("bind") = 6
  BY DEF From, To

\* Where a peer can be, and how far it can have got.
LEMMA StageType ==
    ASSUME NEW p
    PROVE  Stage(p) \in 0..4 /\ Level(p) \in 2..5
  BY DEF Stage, Level

\* What has ended stays so.
Onward ==
    /\ cut => cut'
    /\ room.phase = "closed" => room'.phase = "closed"
    /\ \A q \in Peers : /\ pc[q] \in Ended => pc'[q] \in Ended
                        /\ pc[q] = "failed" => pc'[q] = "failed"
                        /\ ice[q].done => ice'[q].done

\* No step undoes an end.
LEMMA KindsOnward ==
    ASSUME RoomInv, Kinds
    PROVE  Onward
<1>0. TypeOK /\ Born /\ "listener" \in Peers /\ Ended \cap Waiting = {} /\ "idle" \notin Ended /\ "exchange" \notin Ended
      /\ "failed" \in Ended /\ "binding" \notin Ended /\ "ready" \notin Ended /\ "describing" \notin Ended
  BY DEF RoomInv, Peers, Ended, Waiting
<1>1. ASSUME NEW p \in Peers, NEW m, Posts(p, m) \/ Hears(p, m) \/ Ends(p)
      PROVE  Onward
  <2>1. room' = room /\ cut' = cut /\ Still(Other(p))
    BY <1>1, Zenon DEF Posts, Hears, Ends
  <2>2. (pc[p] \in Ended => pc'[p] \in Ended) /\ (pc[p] = "failed" => pc'[p] = "failed")
    BY <1>0, <1>1, Zenon DEF Posts, Hears, Ends
  <2>3. ice[p].done => ice'[p].done
    BY <1>1, Zenon DEF Posts, Hears, Ends
  <2>4. pc'[Other(p)] = pc[Other(p)] /\ ice'[Other(p)] = ice[Other(p)]
    BY <2>1 DEF Still
  <2> QED BY <2>1, <2>2, <2>3, <2>4, Pair DEF Onward
<1>2. ASSUME NEW p \in Peers, Opens(p)
      PROVE  Onward
  <2>1. cut' = cut /\ Still(Other(p)) /\ pc[p] = "idle" /\ ice'[p] = ice[p]
    BY <1>2 DEF Opens
  <2>2. room.phase = "closed" => room'.phase = "closed"
    BY <1>0, <1>2, <2>1 DEF Opens, Born
  <2>4. pc'[Other(p)] = pc[Other(p)] /\ ice'[Other(p)] = ice[Other(p)]
    BY <2>1 DEF Still
  <2> QED BY <1>0, <2>1, <2>2, <2>4, Pair DEF Onward
<1>3. ASSUME NEW p \in Peers, NEW m, Binds(p) \/ Forwards(p, m) \/ Closes(p) \/ Ignores(p) \/ Shuts(p)
      PROVE  Onward
  <2>1. cut' = cut /\ pc' = pc /\ ice' = ice
    BY <1>3 DEF Binds, Forwards, Closes, Ignores, Shuts, Takes
  <2>2. room.phase = "closed" => room'.phase = "closed"
    BY <1>3 DEF Binds, Forwards, Closes, Ignores, Shuts
  <2> QED BY <2>1, <2>2 DEF Onward
<1>4. ASSUME NEW p \in Peers, Loses(p) PROVE Onward
  BY <1>4 DEF Loses, Onward
<1>5. CASE Expires
  BY <1>5 DEF Expires, Onward
<1>6. CASE Rests
  BY <1>6 DEF Rests, Onward
<1> QED BY <1>1, <1>2, <1>3, <1>4, <1>5, <1>6 DEF Kinds

\* A peer that a step leaves alone.
LEMMA StillParting ==
    ASSUME NEW q \in Peers, Parting(q), Still(q), Onward,
           room'.bound = room.bound, room'.phase = "closed" => room.phase = "closed"
    PROVE  Parting(q)'
<1>0. Other(q) \in Peers
  BY Pair
<1>1. /\ pc'[q] = pc[q] /\ link'[q] = link[q] /\ up'[q] = up[q] /\ down'[q] = down[q]
      /\ remote'[q] = remote[q] /\ ice'[q] = ice[q]
  BY DEF Still
<1>2. ice[Other(q)].done => ice'[Other(q)].done
  BY <1>0 DEF Onward
<1>3. (\E r \in Peers : pc[r] \in Ended) => \E r \in Peers : pc'[r] \in Ended
  BY DEF Onward
<1>4. cut => cut'
  BY DEF Onward
<1>5. remote'[q].ended \/ In("end_of_candidates", down'[q]) => ice'[Other(q)].done
  BY <1>1, <1>2 DEF Parting
<1>6. room'.phase = "closed" => cut' \/ \E r \in Peers : pc'[r] \in Ended
  BY <1>3, <1>4 DEF Parting
<1>7. In("close", down'[q]) \/ link'[q] = "closed" => cut' \/ room'.phase = "closed" \/ pc'[q] \in Ended
  BY <1>1, <1>4 DEF Parting, Onward
<1>8. In("leave", up'[q]) \/ In("gone", up'[q]) => pc'[q] \in Ended \/ cut'
  BY <1>1, <1>4 DEF Parting
<1>9. /\ In("end_of_candidates", up'[q]) => ice'[q].done
      /\ pc'[q] \in Waiting => link'[q] # "none"
      /\ pc'[q] \in {"idle", "binding", "ready"} => ~remote'[q].described /\ ~remote'[q].ended
      /\ BindFirst(up'[q]) /\ (In("bind", up'[q]) => q \notin room'.bound)
  BY <1>1 DEF Parting
<1> QED BY <1>5, <1>6, <1>7, <1>8, <1>9 DEF Parting

\* A bind stays at the head of a queue.
LEMMA BindStays ==
    ASSUME NEW S, NEW q \in Seq(S), BindFirst(q)
    PROVE  /\ \A x \in S : x # "bind" => BindFirst(Append(q, x))
           /\ \A i \in 0..Len(q) : BindFirst(SubSeq(q, 1, i))
           /\ BindFirst(<<>>) /\ BindFirst(<<"bind">>)
<1>1. ASSUME NEW x \in S, x # "bind" PROVE BindFirst(Append(q, x))
  <2> DEFINE r == Append(q, x)
             n == Len(q)
  <2>1. n \in Nat /\ Len(r) = n + 1 /\ r[n + 1] = x /\ \A i \in 1..n : r[i] = q[i]
    OBVIOUS
  <2>2. \A i \in 1..n : q[i] = "bind" => i = 1
    BY DEF BindFirst
  <2> HIDE DEF r, n
  <2>3. BindFirst(r)
    BY <1>1, <2>1, <2>2 DEF BindFirst
  <2> QED BY <2>3 DEF r
<1>2. ASSUME NEW i \in 0..Len(q) PROVE BindFirst(SubSeq(q, 1, i))
  BY CutQueue DEF BindFirst
<1> QED BY <1>1, <1>2 DEF BindFirst

\* There is no bind behind the head.
LEMMA BindTail ==
    ASSUME NEW S, NEW q \in Seq(S), BindFirst(q), q # <<>>, NEW t, t = Tail(q)
    PROVE  BindFirst(t) /\ ~In("bind", t)
<1>1. Len(q) \in Nat /\ Len(t) = Len(q) - 1
  OBVIOUS
<1>2. \A i \in 1..Len(t) : t[i] = q[i + 1] /\ i + 1 \in 1..Len(q) /\ i + 1 # 1
  BY <1>1
<1>3. \A i \in 1..Len(t) : t[i] # "bind"
  BY <1>2 DEF BindFirst
<1> QED BY <1>3 DEF BindFirst, In

\* p posts a frame, which is no bind and no leave.
LEMMA PostsParting ==
    ASSUME TypeOK, NEW p \in Peers, NEW m, Posts(p, m), Parting(p), Onward
    PROVE  Parting(p)'
<1>t. up[p] \in Seq(UpFrames(p)) /\ Other(p) \in Peers /\ Own(p) \in UpFrames(p) /\ "candidate" \in UpFrames(p)
      /\ "end_of_candidates" \in UpFrames(p) /\ Own(p) \in {"offer", "answer"}
  BY Types, FrameFacts, Pair
<1>0. /\ room' = room /\ link'[p] = "open" /\ down'[p] = down[p] /\ link[p] = "open" /\ cut' = cut
      /\ remote'[p] = remote[p] /\ up'[p] = Append(up[p], m) /\ ice'[Other(p)] = ice[Other(p)]
      /\ pc[p] \in {"describing", "exchange"} /\ pc'[p] \in {"exchange", "connecting"}
      /\ m \in {Own(p), "candidate", "end_of_candidates"} /\ (m = "end_of_candidates" => ice'[p].done)
      /\ m \in UpFrames(p) /\ m \notin {"bind", "leave", "gone"}
  BY <1>t DEF Posts, Still
<1>1. /\ \A x : In(x, up'[p]) => In(x, up[p]) \/ x = m
      /\ BindFirst(up'[p])
  BY <1>0, <1>t, InQueue, BindStays DEF Parting
<1>2. In("end_of_candidates", up'[p]) => ice'[p].done
  BY <1>0, <1>1 DEF Parting, Onward
<1>3. In("leave", up'[p]) \/ In("gone", up'[p]) => pc'[p] \in Ended \/ cut'
  BY <1>0, <1>1 DEF Parting, Ended
<1>4. room'.phase = "closed" => cut' \/ \E r \in Peers : pc'[r] \in Ended
  BY <1>0 DEF Parting, Onward
<1>5. In("close", down'[p]) \/ link'[p] = "closed" => cut' \/ room'.phase = "closed" \/ pc'[p] \in Ended
  BY <1>0 DEF Parting, Ended
<1>6. pc'[p] \in Waiting => link'[p] # "none"
  BY <1>0
<1>7. remote'[p].ended \/ In("end_of_candidates", down'[p]) => ice'[Other(p)].done
  BY <1>0 DEF Parting
<1>8. In("bind", up'[p]) => p \notin room'.bound
  BY <1>0, <1>1 DEF Parting
<1> QED BY <1>0, <1>1, <1>2, <1>3, <1>4, <1>5, <1>6, <1>7, <1>8 DEF Parting

\* p reads what the room has let through.
LEMMA HearsParting ==
    ASSUME TypeOK, NEW p \in Peers, NEW m, Hears(p, m), Parting(p), Onward
    PROVE  Parting(p)'
<1>t. down[p] \in Seq(DownFrames(p)) /\ Other(p) \in Peers
  BY Types, Pair
<1>0. /\ room' = room /\ link'[p] = link[p] /\ down[p] # <<>> /\ Head(down[p]) = m /\ down'[p] = Tail(down[p]) /\ cut' = cut
      /\ up'[p] = up[p] /\ ice'[Other(p)] = ice[Other(p)] /\ ice'[p] = ice[p]
      /\ pc[p] \in {"binding", "ready", "exchange"} /\ pc'[p] \in Waiting
      /\ pc'[p] \in {"idle", "binding", "ready"} => pc[p] = "binding" /\ remote'[p] = remote[p]
      /\ remote'[p].ended => remote[p].ended \/ m = "end_of_candidates"
  BY DEF Hears, Still, Waiting
<1>1. In(m, down[p]) /\ \A x : In(x, down'[p]) => In(x, down[p])
  BY <1>0, <1>t, InQueue
<1>2. remote'[p].ended \/ In("end_of_candidates", down'[p]) => ice'[Other(p)].done
  BY <1>0, <1>1, ZenonT(30) DEF Parting
<1>3. In("leave", up'[p]) \/ In("gone", up'[p]) => pc'[p] \in Ended \/ cut'
  BY <1>0 DEF Parting, Ended
<1>4. room'.phase = "closed" => cut' \/ \E r \in Peers : pc'[r] \in Ended
  BY <1>0 DEF Parting, Onward
<1>5. In("close", down'[p]) \/ link'[p] = "closed" => cut' \/ room'.phase = "closed" \/ pc'[p] \in Ended
  BY <1>0, <1>1 DEF Parting, Ended
<1>6. pc'[p] \in Waiting => link'[p] # "none"
  BY <1>0 DEF Parting, Waiting
<1>7. pc'[p] \in {"idle", "binding", "ready"} => ~remote'[p].described /\ ~remote'[p].ended
  BY <1>0 DEF Parting
<1> QED BY <1>0, <1>2, <1>3, <1>4, <1>5, <1>6, <1>7 DEF Parting

\* p is through.
LEMMA EndsParting ==
    ASSUME TypeOK, NEW p \in Peers, Ends(p), Parting(p), Onward
    PROVE  Parting(p)'
<1>t. up[p] \in Seq(UpFrames(p)) /\ Other(p) \in Peers /\ "leave" \in UpFrames(p) /\ "gone" \in UpFrames(p)
  BY Types, FrameFacts, Pair
<1>0. /\ room' = room /\ link'[p] = "closed" /\ down'[p] = <<>> /\ remote'[p] = remote[p] /\ cut' = cut
      /\ pc'[p] \in Ended /\ ice'[Other(p)] = ice[Other(p)] /\ (ice[p].done => ice'[p].done)
      /\ up'[p] = up[p] \o (CASE link[p] = "none" -> <<>>
                              [] link[p] = "open" -> <<"leave", "gone">>
                              [] OTHER            -> <<"gone">>)
  BY DEF Ends, Still
<1>a. up'[p] \in {up[p], Append(up[p], "gone"), Append(Append(up[p], "leave"), "gone")}
  <2>1. /\ up[p] \o <<>> = up[p] /\ up[p] \o <<"gone">> = Append(up[p], "gone")
        /\ up[p] \o <<"leave", "gone">> = Append(Append(up[p], "leave"), "gone")
    BY <1>t, TwoFrames
  <2> QED BY <1>0, <2>1, Zenon
<1>1. \A x : In(x, up'[p]) => In(x, up[p]) \/ x \in {"leave", "gone"}
  BY <1>a, <1>t, Closing, Zenon
<1>2. BindFirst(up'[p])
  <2>1. BindFirst(Append(up[p], "gone")) /\ BindFirst(Append(up[p], "leave")) /\ BindFirst(up[p])
    BY <1>t, BindStays DEF Parting
  <2> DEFINE r == Append(up[p], "leave")
  <2>2. r \in Seq(UpFrames(p)) /\ BindFirst(r)
    BY <1>t, <2>1
  <2> HIDE DEF r
  <2>3. BindFirst(Append(r, "gone"))
    BY <1>t, <2>2, BindStays
  <2> QED BY <1>a, <2>1, <2>3, Zenon DEF r
<1>3. ~In("close", <<>>) /\ ~In("end_of_candidates", <<>>)
  BY DEF In
<1>4. pc'[p] \notin Waiting /\ pc'[p] \notin {"idle", "binding", "ready"}
  BY <1>0 DEF Waiting, Ended
<1>5. /\ remote'[p].ended \/ In("end_of_candidates", down'[p]) => ice'[Other(p)].done
      /\ In("end_of_candidates", up'[p]) => ice'[p].done
      /\ In("bind", up'[p]) => p \notin room'.bound
  BY <1>0, <1>1, <1>3 DEF Parting
<1> QED BY <1>0, <1>2, <1>4, <1>5 DEF Parting

\* A peer of which only the queues change.
LEMMA QueueParting ==
    ASSUME NEW q \in Peers, NEW X, Parting(q), Onward,
           pc' = pc, ice' = ice, remote'[q] = remote[q],
           link'[q] = link[q] \/ (link'[q] = "closed" /\ In("close", down[q])),
           \A m : In(m, up'[q]) => In(m, up[q]),
           BindFirst(up'[q]), In("bind", up'[q]) => q \notin room'.bound,
           \A m : In(m, down'[q]) => In(m, down[q]) \/ m \in X,
           "end_of_candidates" \in X => ice[Other(q)].done,
           "close" \in X => cut' \/ room'.phase = "closed",
           room'.phase = "closed" => room.phase = "closed" \/ cut' \/ \E r \in Peers : pc[r] \in Ended
    PROVE  Parting(q)'
<1>1. remote'[q].ended \/ In("end_of_candidates", down'[q]) => ice'[Other(q)].done
  BY DEF Parting
<1>2. /\ In("end_of_candidates", up'[q]) => ice'[q].done
      /\ pc'[q] \in Waiting => link'[q] # "none"
      /\ pc'[q] \in {"idle", "binding", "ready"} => ~remote'[q].described /\ ~remote'[q].ended
  BY DEF Parting
<1>3. In("leave", up'[q]) \/ In("gone", up'[q]) => pc'[q] \in Ended \/ cut'
  BY DEF Parting, Onward
<1>4. room'.phase = "closed" => cut' \/ \E r \in Peers : pc'[r] \in Ended
  BY DEF Parting, Onward
<1>5. In("close", down'[q]) \/ link'[q] = "closed" => cut' \/ room'.phase = "closed" \/ pc'[q] \in Ended
  <2>1. In("close", down'[q]) \/ link'[q] = "closed" => In("close", down[q]) \/ link[q] = "closed" \/ cut' \/ room'.phase = "closed"
    OBVIOUS
  <2>2. In("close", down[q]) \/ link[q] = "closed" => cut \/ room.phase = "closed" \/ pc[q] \in Ended
    BY DEF Parting
  <2> QED BY <2>1, <2>2 DEF Onward
<1> QED BY <1>1, <1>2, <1>3, <1>4, <1>5 DEF Parting

\* What is left of p's queue when the room has taken its head.
LEMMA TakenParting ==
    ASSUME TypeOK, NEW p \in Peers, Parting(p), up[p] # <<>>, up'[p] = Tail(up[p])
    PROVE  /\ \A m : In(m, up'[p]) => In(m, up[p])
           /\ BindFirst(up'[p]) /\ ~In("bind", up'[p]) /\ In(Head(up[p]), up[p])
<1>1. up[p] \in Seq(UpFrames(p))
  BY Types
<1>2. BindFirst(up[p])
  BY DEF Parting
<1>3. BindFirst(up'[p]) /\ ~In("bind", up'[p])
  BY <1>1, <1>2, BindTail, Zenon
<1> QED BY <1>3, Taking

\* The room binds p, and the bind is gone from its queue.
LEMMA BindsParting ==
    ASSUME TypeOK, NEW p \in Peers, Binds(p), \A q \in Peers : Parting(q), Onward
    PROVE  \A q \in Peers : Parting(q)'
<1> DEFINE o == Other(p)
<1>0. o \in Peers /\ o # p /\ \A q \in Peers : q = p \/ q = o
  BY Pair
<1>1. /\ UNCHANGED <<link, pc, ice, remote, cut>> /\ up[p] # <<>> /\ up'[p] = Tail(up[p]) /\ up'[o] = up[o]
      /\ room'.phase = room.phase /\ room'.bound = room.bound \cup {p}
  BY BindsTell DEF Binds, Takes
<1>2. /\ \A m : In(m, down'[p]) => In(m, down[p]) \/ m \in {"bound", "peer_ready"}
      /\ \A m : In(m, down'[o]) => In(m, down[o]) \/ m \in {"peer_ready"}
  BY BindsTell DEF Learns
<1>3. (\A m : In(m, up'[p]) => In(m, up[p])) /\ BindFirst(up'[p]) /\ ~In("bind", up'[p])
  BY <1>1, TakenParting
<1>4. BindFirst(up'[o]) /\ (In("bind", up'[o]) => o \notin room'.bound)
  BY <1>0, <1>1 DEF Parting
<1> DEFINE X == {"bound", "peer_ready"}
<1>x. /\ \A m : In(m, down'[p]) => In(m, down[p]) \/ m \in X
      /\ \A m : In(m, down'[o]) => In(m, down[o]) \/ m \in X
      /\ "end_of_candidates" \notin X /\ "close" \notin X
  BY <1>2
<1>y. /\ pc' = pc /\ ice' = ice /\ remote'[p] = remote[p] /\ remote'[o] = remote[o]
      /\ link'[p] = link[p] /\ link'[o] = link[o]
      /\ \A m : In(m, up'[o]) => In(m, up[o])
  BY <1>1
<1> HIDE DEF o, X
<1>5. Parting(p)'
  BY <1>0, <1>1, <1>3, <1>x, <1>y, QueueParting
<1>6. Parting(o)'
  BY <1>0, <1>1, <1>4, <1>x, <1>y, QueueParting
<1> QED BY <1>0, <1>5, <1>6

\* An end of candidates that is forwarded was sent by a peer that is done.
LEMMA ForwardsParting ==
    ASSUME TypeOK, NEW p \in Peers, NEW m, Forwards(p, m), \A q \in Peers : Parting(q), Onward
    PROVE  \A q \in Peers : Parting(q)'
<1> DEFINE o == Other(p)
<1>0. o \in Peers /\ o # p /\ (\A q \in Peers : q = p \/ q = o) /\ Other(o) = p
      /\ Own(p) \in DownFrames(o) /\ "candidate" \in DownFrames(o) /\ "end_of_candidates" \in DownFrames(o)
      /\ Own(p) \in {"offer", "answer"}
  BY Pair, FrameFacts
<1>1. /\ UNCHANGED <<link, pc, ice, remote, cut>> /\ up[p] # <<>> /\ up'[p] = Tail(up[p]) /\ up'[o] = up[o]
      /\ room'.phase = room.phase /\ room'.bound = room.bound /\ Head(up[p]) = m
      /\ m \in DownFrames(o) /\ m # "close" /\ down'[p] = down[p] /\ down'[o] = Tell(o, <<m>>)
  BY <1>0 DEF Forwards, Takes
<1>3. (\A x : In(x, up'[p]) => In(x, up[p])) /\ BindFirst(up'[p]) /\ ~In("bind", up'[p]) /\ In(m, up[p])
  BY <1>1, TakenParting
<1>4. BindFirst(up'[o]) /\ (In("bind", up'[o]) => o \notin room'.bound)
  BY <1>0, <1>1 DEF Parting
<1>5. m = "end_of_candidates" => ice[p].done
  BY <1>3 DEF Parting
<1> HIDE DEF o
<1>2. \A x : In(x, down'[o]) => In(x, down[o]) \/ x \in {m}
  BY <1>0, <1>1, ToldLearns, Zenon DEF Learns
<1>6. Parting(p)'
  <2> DEFINE X == {}
  <2>1. (\A x : In(x, down'[p]) => In(x, down[p]) \/ x \in X) /\ "end_of_candidates" \notin X /\ "close" \notin X
    BY <1>1
  <2>2. pc' = pc /\ ice' = ice /\ remote'[p] = remote[p] /\ link'[p] = link[p]
    BY <1>1
  <2> HIDE DEF X
  <2> QED BY <1>0, <1>1, <1>3, <2>1, <2>2, QueueParting
<1>7. Parting(o)'
  BY <1>0, <1>1, <1>2, <1>4, <1>5, QueueParting, ZenonT(30)
<1> QED BY <1>0, <1>6, <1>7

\* A room that is closed has been left, or has expired.
LEMMA ClosingParting ==
    ASSUME TypeOK, NEW p \in Peers, Closes(p) \/ Expires, \A q \in Peers : Parting(q), Onward
    PROVE  \A q \in Peers : Parting(q)'
<1> DEFINE o == Other(p)
<1>0. o \in Peers /\ o # p /\ (\A q \in Peers : q = p \/ q = o)
  BY Pair
<1>1. UNCHANGED <<link, pc, ice, remote>> /\ room'.phase = "closed" /\ room'.bound = {}
  BY Zenon DEF Closes, Expires, Takes, TypeOK, RoomType
<1>2. cut' \/ \E r \in Peers : pc[r] \in Ended
  <2>1. CASE Closes(p)
    <3>1. up[p] # <<>> /\ up'[p] = Tail(up[p]) /\ Head(up[p]) \in {"leave", "gone"} /\ cut' = cut
      BY <2>1 DEF Closes, Takes
    <3>2. In(Head(up[p]), up[p])
      BY <3>1, TakenParting
    <3> QED BY <3>1, <3>2 DEF Parting
  <2>2. CASE Expires
    BY <2>2 DEF Expires
  <2> QED BY <2>1, <2>2
<1>3. ASSUME NEW q \in Peers
      PROVE  (\A m : In(m, up'[q]) => In(m, up[q])) /\ BindFirst(up'[q])
  <2>1. CASE Closes(p) /\ q = p
    BY <2>1, TakenParting DEF Closes, Takes
  <2>2. CASE ~(Closes(p) /\ q = p)
    BY <1>0, <2>2 DEF Closes, Expires, Takes, Parting
  <2> QED BY <2>1, <2>2
<1>4. ASSUME NEW q \in Peers
      PROVE  \A m : In(m, down'[q]) => In(m, down[q]) \/ m \in {"peer_left", "error", "close"}
  <2>1. Closes(p) => Learns(p, {"close"}) /\ Learns(o, {"peer_left", "close"})
    BY ClosesTell
  <2>2. Expires => Learns(q, {"error", "close"})
    BY ClosesTell
  <2> HIDE DEF o
  <2> QED BY <1>0, <2>1, <2>2 DEF Learns
<1> SUFFICES ASSUME NEW q \in Peers PROVE Parting(q)'
  OBVIOUS
<1> DEFINE X == {"peer_left", "error", "close"}
<1>5. (\A m : In(m, down'[q]) => In(m, down[q]) \/ m \in X) /\ "end_of_candidates" \notin X
  BY <1>4
<1>6. pc' = pc /\ ice' = ice /\ remote'[q] = remote[q] /\ link'[q] = link[q] /\ q \notin room'.bound
  BY <1>1
<1> HIDE DEF X
<1> QED BY <1>1, <1>2, <1>3, <1>5, <1>6, QueueParting

\* The room takes no notice, or a peer sees that its socket is closed.
LEMMA IdleParting ==
    ASSUME TypeOK, NEW p \in Peers, Ignores(p) \/ Shuts(p) \/ Rests, \A q \in Peers : Parting(q), Onward
    PROVE  \A q \in Peers : Parting(q)'
<1>0. Other(p) \in Peers /\ \A q \in Peers : q = p \/ q = Other(p)
  BY Pair
<1>1. UNCHANGED <<room, down, pc, ice, remote, cut>>
  BY DEF Ignores, Shuts, Rests
<1>2. ASSUME NEW q \in Peers
      PROVE  (\A m : In(m, up'[q]) => In(m, up[q])) /\ BindFirst(up'[q])
  <2>0. BindFirst(up[q]) /\ BindFirst(<<>>) /\ \A m : ~In(m, <<>>)
    BY DEF Parting, BindFirst, In
  <2>1. CASE up'[q] = up[q] \/ up'[q] = <<>>
    BY <2>0, <2>1
  <2>2. CASE up[q] # <<>> /\ up'[q] = Tail(up[q])
    BY <2>2, TakenParting
  <2> QED BY <1>0, <2>1, <2>2 DEF Ignores, Shuts, Rests
<1>3. ASSUME NEW q \in Peers
      PROVE  link'[q] = link[q] \/ (link'[q] = "closed" /\ In("close", down[q]))
  BY <1>0 DEF Ignores, Shuts, Rests
<1> SUFFICES ASSUME NEW q \in Peers PROVE Parting(q)'
  OBVIOUS
<1> DEFINE X == {}
<1>4. (\A m : In(m, down'[q]) => In(m, down[q]) \/ m \in X) /\ "end_of_candidates" \notin X /\ "close" \notin X
  BY <1>1
<1>5. pc' = pc /\ ice' = ice /\ remote'[q] = remote[q] /\ (In("bind", up'[q]) => q \notin room'.bound)
  BY <1>1, <1>2 DEF Parting
<1>6. room'.phase = room.phase
  BY <1>1
<1> HIDE DEF X
<1> QED BY <1>2, <1>3, <1>4, <1>5, <1>6, QueueParting

\* p has sent nothing but its bind.
LEMMA OpensParting ==
    ASSUME RoomInv, NEW p \in Peers, Opens(p), \A q \in Peers : Parting(q), Onward
    PROVE  \A q \in Peers : Parting(q)'
<1> DEFINE o == Other(p)
<1>0. o \in Peers /\ (\A q \in Peers : q = p \/ q = o) /\ TypeOK /\ Order(p)
  BY Pair DEF RoomInv, Upright
<1>1. /\ pc[p] = "idle" /\ pc'[p] = "binding" /\ link'[p] = "open" /\ up'[p] = <<"bind">> /\ cut' = cut
      /\ down'[p] = down[p] /\ ice'[p] = ice[p] /\ remote'[p] = remote[p] /\ Still(o)
  BY DEF Opens
<1>2. room'.bound = room.bound /\ room'.phase = "open"
  BY <1>0 DEF Opens, TypeOK, RoomType
<1>3. Parting(o)'
  BY <1>0, <1>1, <1>2, StillParting
<1>4. down[p] = <<>> /\ p \notin room.bound
  BY <1>0, <1>1 DEF Order
<1>5. BindFirst(up'[p]) /\ \A m : In(m, up'[p]) => m = "bind"
  BY <1>1 DEF BindFirst, In
<1>6. \A m : ~In(m, down'[p])
  BY <1>1, <1>4 DEF In
<1>7. ~remote'[p].ended /\ ~remote'[p].described
  BY <1>1 DEF Parting
<1>8. Parting(p)'
  BY <1>1, <1>2, <1>4, <1>5, <1>6, <1>7, ZenonT(30) DEF Parting
<1> QED BY <1>0, <1>3, <1>8

\* A connection that is lost is what cut records.
LEMMA LosesParting ==
    ASSUME TypeOK, NEW p \in Peers, Loses(p), \A q \in Peers : Parting(q), Onward
    PROVE  \A q \in Peers : Parting(q)'
<1> DEFINE o == Other(p)
<1>0. o \in Peers /\ (\A q \in Peers : q = p \/ q = o) /\ up[p] \in Seq(UpFrames(p)) /\ down[p] \in Seq(DownFrames(p))
      /\ "gone" \in UpFrames(p) /\ "close" \in DownFrames(p)
  BY Pair, Types, FrameFacts
<1>1. UNCHANGED <<room, pc, ice, remote>> /\ cut' /\ Still(o) /\ link'[p] = "closed"
  BY DEF Loses
<1>3. Parting(o)'
  BY <1>0, <1>1, StillParting
<1>4. PICK i \in 0..Len(up[p]), j \in 0..Len(down[p]) :
          /\ up'[p] = Append(SubSeq(up[p], 1, i), "gone")
          /\ down'[p] = Append(SubSeq(down[p], 1, j), "close")
  BY ZenonT(30) DEF Loses
<1> DEFINE u == SubSeq(up[p], 1, i)
           d == SubSeq(down[p], 1, j)
<1>5. u \in Seq(UpFrames(p)) /\ BindFirst(u) /\ \A m : In(m, u) => In(m, up[p])
  BY <1>0, CutQueue, BindStays DEF Parting
<1>6. d \in Seq(DownFrames(p)) /\ \A m : In(m, d) => In(m, down[p])
  BY <1>0, CutQueue
<1>7. up'[p] = Append(u, "gone") /\ down'[p] = Append(d, "close")
  BY <1>4
<1> HIDE DEF u, d
<1>8. BindFirst(up'[p]) /\ \A m : In(m, up'[p]) => In(m, up[p]) \/ m = "gone"
  BY <1>0, <1>5, <1>7, InQueue, BindStays
<1>9. \A m : In(m, down'[p]) => In(m, down[p]) \/ m = "close"
  BY <1>0, <1>6, <1>7, InQueue
<1>10. Parting(p)'
  BY <1>1, <1>8, <1>9 DEF Parting
<1> QED BY <1>0, <1>3, <1>10

\* Every step keeps Parting.
LEMMA KindsParting ==
    ASSUME RoomInv, Kinds, \A q \in Peers : Parting(q)
    PROVE  \A q \in Peers : Parting(q)'
<1>0. TypeOK /\ Onward /\ "listener" \in Peers
  BY KindsOnward DEF RoomInv, Peers
<1>1. ASSUME NEW p \in Peers, NEW m, Posts(p, m) \/ Hears(p, m) \/ Ends(p)
      PROVE  \A q \in Peers : Parting(q)'
  <2>1. Parting(p)'
    BY <1>0, <1>1, PostsParting, HearsParting, EndsParting
  <2>2. room' = room /\ Still(Other(p))
    BY <1>1, Zenon DEF Posts, Hears, Ends
  <2>3. Parting(Other(p))'
    <3> DEFINE o == Other(p)
    <3>1. o \in Peers /\ Still(o) /\ Parting(o)
      BY <2>2, Pair
    <3> HIDE DEF o
    <3>2. Parting(o)'
      BY <1>0, <2>2, <3>1, StillParting
    <3> QED BY <3>2 DEF o
  <2> QED BY <2>1, <2>3, Pair
<1>2. ASSUME NEW p \in Peers, Binds(p) \/ Closes(p) \/ Ignores(p) \/ Opens(p) \/ Shuts(p) \/ Loses(p)
      PROVE  \A q \in Peers : Parting(q)'
  BY <1>0, <1>2, BindsParting, ClosingParting, IdleParting, OpensParting, LosesParting
<1>3. ASSUME NEW p \in Peers, NEW m, Forwards(p, m)
      PROVE  \A q \in Peers : Parting(q)'
  BY <1>0, <1>3, ForwardsParting
<1>4. CASE Expires \/ Rests
  BY <1>0, <1>4, ClosingParting, IdleParting
<1> QED BY <1>1, <1>2, <1>3, <1>4 DEF Kinds

\* p reads the frame at the head.
LEMMA ReadScript ==
    ASSUME NEW S, NEW d \in Seq(S), d # <<>>, NEW t, t = Tail(d),
           NEW a \in 0..4, NEW a2 \in 0..4, NEW g \in Nat, NEW g2 \in Nat, NEW c \in Nat, NEW u, NEW l,
           To(Head(d)) = a2,
           \/ Head(d) = "candidate" /\ a = 3 /\ a2 = 3 /\ g2 = g + 1
           \/ Head(d) # "candidate" /\ a2 = a + 1 /\ g2 = g
    PROVE  /\ \A n \in 0..1 : Waits(a, d, g, n) => Waits(a2, t, g2, n)
           /\ Meeting(a, d, g, u, l, c) => Meeting(a2, t, g2, u, l, c)
           /\ Leads(a, d, 5) => Leads(a2, t, 5)
           /\ Counted(a, d, g, c) => Counted(a2, t, g2, c)
<1>1. Len(d) \in Nat /\ Len(d) > 0 /\ Len(t) = Len(d) - 1 /\ Head(d) = d[1]
  OBVIOUS
<1>2. \A i \in 1..Len(t) : t[i] = d[i + 1] /\ i + 1 \in 1..Len(d)
  BY <1>1
<1>3. \A b : Leads(a, d, b) => Leads(a2, t, b)
  BY LeadsTail, Zenon
<1>4. ASSUME NEW n \in 0..1, Waits(a, d, g, n) PROVE Waits(a2, t, g2, n)
  <2>1. Leads(a2, t, n) /\ Len(d) = n - a /\ g = 0
    BY <1>3, <1>4 DEF Waits
  <2> QED BY <1>1, <2>1 DEF Waits
<1>5. ASSUME Meeting(a, d, g, u, l, c) PROVE Meeting(a2, t, g2, u, l, c)
  <2>1. PICK mid \in 2..4 : /\ Leads(a, d, mid) /\ Leads(mid, u, l)
                            /\ mid = 2 => Len(d) = 2 - a /\ g = 0
                            /\ mid = 3 => g + Len(d) <= c + 3 - a
    BY <1>5 DEF Meeting
  <2>2. Leads(a2, t, mid) /\ Leads(mid, u, l)
    BY <1>3, <2>1
  <2>3. mid = 2 => Len(t) = 2 - a2 /\ g2 = 0
    BY <1>1, <2>1
  <2>4. mid = 3 => g2 + Len(t) <= c + 3 - a2
    BY <1>1, <2>1
  <2> QED BY <2>2, <2>3, <2>4 DEF Meeting
<1>6. ASSUME Counted(a, d, g, c) PROVE Counted(a2, t, g2, c)
  <2> SUFFICES ASSUME NEW i \in 1..Len(t), t[i] = "candidate" PROVE g2 + i <= c + Left(a2)
    BY DEF Counted
  <2>1. g + (i + 1) <= c + Left(a)
    BY <1>2, <1>6 DEF Counted
  <2> QED BY <1>1, <2>1 DEF Left
<1> QED BY <1>3, <1>4, <1>5, <1>6

\* The other has sent one more frame.
LEMMA PostScript ==
    ASSUME NEW S, NEW u \in Seq(S), NEW x \in S, NEW a, NEW d, NEW g, NEW c, NEW l, NEW l2,
           From(x) = l, To(x) = l2, Meeting(a, d, g, u, l, c)
    PROVE  Meeting(a, d, g, Append(u, x), l2, c)
<1>1. PICK mid \in 2..4 : /\ Leads(a, d, mid) /\ Leads(mid, u, l)
                          /\ mid = 2 => Len(d) = 2 - a /\ g = 0
                          /\ mid = 3 => g + Len(d) <= c + 3 - a
  BY DEF Meeting
<1>2. Leads(mid, Append(u, x), l2)
  BY <1>1, LeadsAppend
<1> QED BY <1>1, <1>2 DEF Meeting

\* What is told that is no candidate is not counted.
LEMMA CountedAppend ==
    ASSUME NEW S, NEW d \in Seq(S), NEW m \in S, NEW a \in 0..4, NEW g \in Nat, NEW c \in Nat, NEW c2 \in Nat, c <= c2,
           m = "candidate" => g + Len(d) + 1 <= c2 + Left(a), Counted(a, d, g, c)
    PROVE  Counted(a, Append(d, m), g, c2)
<1> DEFINE r == Append(d, m)
           n == Len(d)
<1>1. n \in Nat /\ Len(r) = n + 1 /\ r[n + 1] = m /\ (\A i \in 1..n : r[i] = d[i]) /\ Left(a) \in Nat
  BY DEF Left
<1>2. /\ \A i \in 1..n : d[i] = "candidate" => g + i <= c + Left(a)
      /\ m = "candidate" => g + n + 1 <= c2 + Left(a)
  BY DEF Counted
<1> HIDE DEF r, n
<1>3. \A i \in 1..(n + 1) : r[i] = "candidate" => g + i <= c2 + Left(a)
  <2> SUFFICES ASSUME NEW i \in 1..(n + 1), r[i] = "candidate" PROVE g + i <= c2 + Left(a)
    OBVIOUS
  <2>1. CASE i = n + 1
    BY <1>1, <1>2, <2>1
  <2>2. CASE i # n + 1
    BY <1>1, <1>2, <2>2
  <2> QED BY <2>1, <2>2
<1>4. Counted(a, r, g, c2)
  BY <1>1, <1>3 DEF Counted
<1> QED BY <1>4 DEF r

\* The room forwards the frame at the head.
LEMMA ForwardScript ==
    ASSUME NEW S, NEW u \in Seq(S), u # <<>>, NEW t, t = Tail(u), NEW D, NEW d \in Seq(D), NEW m \in D, Head(u) = m,
           m \in {"offer", "answer", "candidate", "end_of_candidates"},
           NEW a \in 0..4, NEW g \in Nat, NEW c \in Nat, NEW c2 \in Nat, NEW l,
           c2 = IF m = "candidate" THEN c + 1 ELSE c,
           Meeting(a, d, g, u, l, c), Counted(a, d, g, c)
    PROVE  Meeting(a, Append(d, m), g, t, l, c2) /\ Counted(a, Append(d, m), g, c2)
<1>1. PICK mid \in 2..4 : /\ Leads(a, d, mid) /\ Leads(mid, u, l)
                          /\ mid = 2 => Len(d) = 2 - a /\ g = 0
                          /\ mid = 3 => g + Len(d) <= c + 3 - a
  BY DEF Meeting
<1>2. From(m) = mid /\ Leads(To(m), t, l)
  BY <1>1, LeadsTail, Zenon
<1>3. Leads(a, Append(d, m), To(m))
  BY <1>1, <1>2, LeadsAppend
<1>4. Len(d) \in Nat /\ Len(Append(d, m)) = Len(d) + 1 /\ Left(a) \in Nat /\ 3 - a <= Left(a)
  BY DEF Left
<1>5. /\ m \in {"offer", "answer"} => mid = 2 /\ To(m) = 3
      /\ m = "candidate" => mid = 3 /\ To(m) = 3
      /\ m = "end_of_candidates" => To(m) = 4
  BY <1>2, Stages
<1>6. To(m) \in 2..4 /\ To(m) # 2 /\ (To(m) = 3 => g + Len(Append(d, m)) <= c2 + 3 - a)
  BY <1>1, <1>4, <1>5, SMTT(30)
<1>7. Meeting(a, Append(d, m), g, t, l, c2)
  BY <1>2, <1>3, <1>6 DEF Meeting
<1>8. m = "candidate" => g + Len(d) + 1 <= c2 + Left(a)
  BY <1>1, <1>4, <1>5
<1>9. c <= c2
  OBVIOUS
<1>10. Counted(a, Append(d, m), g, c2)
  BY <1>8, <1>9, CountedAppend
<1> QED BY <1>7, <1>10

\* The room is closed, since the other leaves.
LEMMA CloseScript ==
    ASSUME NEW S, NEW u \in Seq(S), u # <<>>, Head(u) \in {"leave", "gone"}, NEW D, NEW d \in Seq(D), "peer_left" \in D, "close" \in D,
           NEW a \in 0..4, NEW g \in Nat, NEW c \in Nat, NEW l,
           Meeting(a, d, g, u, l, c), Counted(a, d, g, c)
    PROVE  /\ Leads(a, Append(Append(d, "peer_left"), "close"), 5)
           /\ Counted(a, Append(Append(d, "peer_left"), "close"), g, c)
<1>1. PICK mid \in 2..4 : Leads(a, d, mid) /\ Leads(mid, u, l)
  BY DEF Meeting
<1>2. From(Head(u)) = mid
  BY <1>1, LeadsTail, Zenon
<1>3. mid = 4
  BY <1>2, Stages
<1> DEFINE r == Append(d, "peer_left")
<1>4. r \in Seq(D)
  OBVIOUS
<1>5. Leads(a, r, 5)
  BY <1>1, <1>3, Stages, LeadsAppend
<1>6. Counted(a, r, g, c)
  BY CountedAppend
<1> HIDE DEF r
<1>7. Leads(a, Append(r, "close"), 5)
  BY <1>4, <1>5, Stages, LeadsAppend
<1>8. Counted(a, Append(r, "close"), g, c)
  BY <1>4, <1>6, CountedAppend
<1> QED BY <1>7, <1>8 DEF r

\* The room tells a peer that it is bound, or that the other is there.
LEMMA BindScript ==
    ASSUME NEW D, NEW d \in Seq(D), NEW x \in D, x # "candidate", NEW n \in 0..1, From(x) = n, To(x) = n + 1,
           NEW a \in 0..4, NEW g \in Nat, NEW c \in Nat, Waits(a, d, g, n), Counted(a, d, g, c)
    PROVE  Waits(a, Append(d, x), g, n + 1) /\ Counted(a, Append(d, x), g, c)
<1>1. Leads(a, d, n) /\ Len(d) = n - a /\ g = 0
  BY DEF Waits
<1>2. Leads(a, Append(d, x), n + 1)
  BY <1>1, LeadsAppend
<1>3. Len(Append(d, x)) = (n + 1) - a
  BY <1>1
<1>4. Counted(a, Append(d, x), g, c)
  BY CountedAppend
<1> QED BY <1>1, <1>2, <1>3, <1>4 DEF Waits

\* Two that have just met have nothing on its way to the room.
LEMMA WaitsMeeting ==
    ASSUME NEW d, NEW a, NEW g, NEW c, Waits(a, d, g, 2)
    PROVE  Meeting(a, d, g, <<>>, 2, c)
<1>1. Leads(2, <<>>, 2)
  BY LeadsNowhere
<1> QED BY <1>1 DEF Meeting, Waits

\* A peer for which all is well has its socket, and one that it has not met has sent nothing
\* but a bind.
LEMMA FineFacts ==
    ASSUME RoomInv, NEW p \in Peers, NEW o \in Peers, o = Other(p), Parting(p), Parting(o), Fine(p)
    PROVE  /\ ~cut /\ pc[o] # "failed" /\ pc[p] \notin Ended
           /\ room.phase = "open" /\ pc[p] # "idle" => link[p] = "open"
           /\ p \in room.bound => pc[p] # "idle"
           /\ room.phase = "open" /\ pc[o] \notin {"idle", "connected"} => link[o] = "open"
           /\ room.phase = "open" /\ room.bound # Peers /\ pc[o] # "idle" =>
                  Level(o) = 2 /\ up[o] = IF o \in room.bound THEN <<>> ELSE <<"bind">>
           /\ o \in room.bound => pc[o] # "idle"
           /\ room.phase = "closed" => pc[o] = "connected"
           /\ pc[o] = "connected" => ice[p].done /\ room.phase # "none"
                                     /\ (room.phase = "open" => room.bound = Peers)
<1>0. /\ ~cut /\ pc[o] # "failed" /\ pc[p] \notin Ended /\ Other(o) = p
      /\ pc[p] \in Places /\ pc[o] \in Places
      /\ link[p] \in {"none", "open", "closed"} /\ link[o] \in {"none", "open", "closed"}
      /\ Order(p) /\ Order(o) /\ Meet(o) /\ Frames(o) /\ Born /\ o \in {"listener", "joiner"}
  BY Types, Pair DEF Fine, RoomInv, Upright
<1>1. room.phase = "open" /\ pc[p] # "idle" => link[p] = "open"
  BY <1>0, ZenonT(30) DEF Parting, Places
<1>2. room.phase = "open" /\ pc[o] \notin {"idle", "connected"} => link[o] = "open"
  BY <1>0 DEF Parting, Places, Ended
<1>3. (p \in room.bound => pc[p] # "idle") /\ (o \in room.bound => pc[o] # "idle")
  BY <1>0 DEF Order
<1>4. ASSUME room.phase = "open", room.bound # Peers, pc[o] # "idle"
      PROVE  Level(o) = 2 /\ up[o] = IF o \in room.bound THEN <<>> ELSE <<"bind">>
  <2>1. pc[o] \in {"binding", "ready"}
    BY <1>0, <1>4 DEF Meet, Places, Waiting, Ended
  <2>2. ~ice[o].started /\ ~ice[o].done
    BY <1>0, <2>1 DEF Order
  <2>3. link[o] = "open"
    BY <1>2, <1>4, <2>1
  <2> QED BY <1>0, <1>4, <2>1, <2>2, <2>3 DEF Frames, Level
<1>5. room.phase = "closed" => pc[o] = "connected"
  <2>1. room.phase = "closed" => pc[o] \in Ended
    BY <1>0, Pair DEF Parting
  <2> QED BY <1>0, <2>1 DEF Ended
<1>6. ASSUME pc[o] = "connected"
      PROVE  ice[p].done /\ room.phase # "none" /\ (room.phase = "open" => room.bound = Peers)
  <2>1. remote[o].ended
    BY <1>0, <1>6 DEF Order
  <2>2. ice[p].done
    BY <1>0, <2>1 DEF Parting
  <2> QED BY <1>0, <1>6, <2>2 DEF Meet, Born
<1> QED BY <1>0, <1>1, <1>2, <1>3, <1>4, <1>5, <1>6

\* Nothing changes for p.
LEMMA SameScript ==
    ASSUME NEW p \in Peers, NEW o, o = Other(p), Script(p),
           Stage(p)' = Stage(p), down'[p] = down[p], Got(p)' = Got(p),
           room'.bound = room.bound, room'.candidates[o] = room.candidates[o],
           room'.phase = "closed" => room.phase = "closed",
           room.phase = "closed" => room'.phase = "closed",
           room.bound = Peers /\ room'.phase = "open" =>
               room.phase = "open" /\ Level(o)' = Level(o) /\ up'[o] = up[o]
    PROVE  Script(p)'
  BY ZenonT(30) DEF Script

\* A post of p itself.
LEMMA PostsOwn ==
    ASSUME NEW p \in Peers, NEW o, o = Other(p), NEW m, Posts(p, m), Script(p)
    PROVE  Script(p)'
<1>1. /\ room' = room /\ down'[p] = down[p] /\ remote'[p] = remote[p] /\ Still(o)
      /\ pc[p] \in {"describing", "exchange"} /\ pc'[p] \in {"exchange", "connecting"}
  BY DEF Posts
<1>2. Stage(p)' = Stage(p) /\ Got(p)' = Got(p)
  BY <1>1 DEF Stage, Got
<1>3. Level(o)' = Level(o) /\ up'[o] = up[o]
  BY <1>1 DEF Level, Still
<1> QED BY <1>1, <1>2, <1>3, SameScript

\* A peer of which nothing changes is where it was.
LEMMA StillThere ==
    ASSUME NEW p, Still(p)
    PROVE  Stage(p)' = Stage(p) /\ Got(p)' = Got(p) /\ Level(p)' = Level(p) /\ down'[p] = down[p] /\ up'[p] = up[p]
  BY DEF Still, Stage, Got, Level

\* A post of the other.
LEMMA PostsOther ==
    ASSUME RoomInv, NEW p \in Peers, NEW o \in Peers, o = Other(p), NEW m, Posts(o, m), Script(p)
    PROVE  Script(p)'
<1>0. /\ up[o] \in Seq(UpFrames(o)) /\ Own(o) \in UpFrames(o) /\ "candidate" \in UpFrames(o)
      /\ "end_of_candidates" \in UpFrames(o) /\ Own(o) \in {"offer", "answer"} /\ Order(o) /\ Other(o) = p
  BY Types, FrameFacts, Pair, ZenonT(30) DEF RoomInv, Upright
<1>1. /\ room' = room /\ Still(p) /\ up'[o] = Append(up[o], m) /\ m \in UpFrames(o)
      /\ pc[o] \in {"describing", "exchange"} /\ pc'[o] \in {"exchange", "connecting"}
  BY <1>0, ZenonT(30) DEF Posts
<1>2. Stage(p)' = Stage(p) /\ Got(p)' = Got(p) /\ down'[p] = down[p]
  BY <1>1, StillThere
<1>3. From(m) = Level(o) /\ To(m) = Level(o)'
  <2>1. CASE m = Own(o)
    <3>1. ~ice[o].started /\ ~ice[o].done /\ ice'[o].started /\ ~ice'[o].done
      BY <1>0, <2>1, ZenonT(30) DEF Posts, Order
    <3>2. Level(o) = 2 /\ Level(o)' = 3
      BY <1>1, <3>1 DEF Level
    <3> QED BY <1>0, <2>1, <3>2, Stages
  <2>2. CASE m = "candidate"
    <3>1. ice[o].started /\ ~ice[o].done /\ ice'[o].started /\ ~ice'[o].done
      BY <1>0, <2>2, ZenonT(30) DEF Posts
    <3>2. Level(o) = 3 /\ Level(o)' = 3
      BY <1>1, <3>1, ZenonT(30) DEF Level
    <3> QED BY <2>2, <3>2, Stages
  <2>3. CASE m = "end_of_candidates"
    <3>1. ice[o].started /\ ~ice[o].done /\ ice'[o].done
      BY <1>0, <2>3 DEF Posts
    <3>2. Level(o) = 3 /\ Level(o)' = 4
      BY <1>1, <3>1 DEF Level
    <3> QED BY <2>3, <3>2, Stages
  <2> QED BY <2>1, <2>2, <2>3 DEF Posts
<1>4. ASSUME NEW a, NEW d, NEW g, NEW c, Meeting(a, d, g, up[o], Level(o), c)
      PROVE  Meeting(a, d, g, up'[o], Level(o)', c)
  <2> DEFINE u == up[o]
             l == Level(o)
             l2 == Level(o)'
  <2>1. u \in Seq(UpFrames(o)) /\ m \in UpFrames(o) /\ From(m) = l /\ To(m) = l2 /\ Meeting(a, d, g, u, l, c)
    BY <1>0, <1>1, <1>3, <1>4, ZenonT(30)
  <2> HIDE DEF u, l, l2
  <2>2. Meeting(a, d, g, Append(u, m), l2, c)
    BY <2>1, PostScript
  <2> QED BY <1>1, <2>2 DEF u, l2
<1> QED BY <1>1, <1>2, <1>4, ZenonT(30) DEF Script

\* The other connects, and leaves.
LEMMA EndsOther ==
    ASSUME RoomInv, NEW p \in Peers, NEW o \in Peers, o = Other(p), Parting(p), Parting(o), Fine(p), Fine(p)',
           Ends(o), Script(p)
    PROVE  Script(p)'
<1>0. /\ up[o] \in Seq(UpFrames(o)) /\ "leave" \in UpFrames(o) /\ "gone" \in UpFrames(o) /\ Order(o) /\ Other(o) = p
  BY Types, FrameFacts, Pair, ZenonT(30) DEF RoomInv, Upright
<1>1. /\ room' = room /\ Still(p) /\ pc'[o] = "connected" /\ pc[o] = "connecting"
      /\ up'[o] = up[o] \o (CASE link[o] = "none" -> <<>>
                              [] link[o] = "open" -> <<"leave", "gone">>
                              [] OTHER            -> <<"gone">>)
  BY <1>0, ZenonT(30) DEF Ends, Fine, Ended
<1>2. Stage(p)' = Stage(p) /\ Got(p)' = Got(p) /\ down'[p] = down[p]
  BY <1>1, StillThere, ZenonT(30)
<1>3. Level(o) = 4 /\ Level(o)' = 5
  BY <1>0, <1>1, ZenonT(30) DEF Level, Order
<1>4. ASSUME room.phase = "open" PROVE up'[o] = Append(Append(up[o], "leave"), "gone")
  <2>1. link[o] = "open"
    BY <1>1, <1>4, FineFacts
  <2>2. up'[o] = up[o] \o <<"leave", "gone">>
    BY <1>1, <2>1
  <2> QED BY <1>0, <2>2, TwoFrames
<1>5. ASSUME NEW a, NEW d, NEW g, NEW c, Meeting(a, d, g, up[o], Level(o), c), room.phase = "open"
      PROVE  Meeting(a, d, g, up'[o], Level(o)', c)
  <2> DEFINE u == up[o]
             r == Append(u, "leave")
  <2>1. u \in Seq(UpFrames(o)) /\ r \in Seq(UpFrames(o)) /\ Meeting(a, d, g, u, 4, c)
    BY <1>0, <1>3, <1>5
  <2> HIDE DEF u
  <2>2. Meeting(a, d, g, r, 5, c)
    BY <1>0, <2>1, Stages, PostScript
  <2> HIDE DEF r
  <2>3. Meeting(a, d, g, Append(r, "gone"), 5, c)
    BY <1>0, <2>1, <2>2, Stages, PostScript
  <2> QED BY <1>3, <1>4, <1>5, <2>3, ZenonT(30) DEF u, r
<1> QED BY <1>1, <1>2, <1>5, ZenonT(30) DEF Script

\* In each state of the room, the head is for the stage p is at.
LEMMA ScriptHead ==
    ASSUME RoomInv, NEW p \in Peers, Script(p), down[p] # <<>>
    PROVE  From(Head(down[p])) = Stage(p)
<1>1. down[p] \in Seq(DownFrames(p)) /\ room.phase \in {"none", "open", "closed"} /\ (room.phase = "none" => room.bound # Peers)
  BY Types, ZenonT(30) DEF RoomInv, Born, Peers
<1>2. \E b : Leads(Stage(p), down[p], b)
  BY <1>1 DEF Script, Waits, Meeting
<1> DEFINE d == down[p]
           a == Stage(p)
<1>3. PICK b : Leads(a, d, b)
  BY <1>2
<1>4. d \in Seq(DownFrames(p)) /\ d # <<>>
  BY <1>1
<1> HIDE DEF d, a
<1>5. From(Head(d)) = a
  BY <1>3, <1>4, LeadsTail, Zenon
<1> QED BY <1>5 DEF d, a

\* p reads what it expects.
LEMMA HearsOwn ==
    ASSUME RoomInv, NEW p \in Peers, NEW o \in Peers, o = Other(p), NEW m, Hears(p, m), Script(p), Parting(p)
    PROVE  Script(p)'
<1>0. /\ down[p] \in Seq(DownFrames(p)) /\ remote[p].applied \in Nat /\ remote[p].pending \in Nat
      /\ room.candidates[o] \in Nat /\ Stage(p) \in 0..4 /\ Stage(p)' \in 0..4 /\ Description(p) \in {"offer", "answer"}
      /\ From(m) = Stage(p)
  <2>1. Stage(p)' \in 0..4
    BY DEF Stage
  <2>2. down[p] # <<>> /\ Head(down[p]) = m
    BY DEF Hears
  <2> QED BY <2>1, <2>2, Types, StageType, ScriptHead, ZenonT(30) DEF RoomInv, Description
<1>1. /\ room' = room /\ down[p] # <<>> /\ Head(down[p]) = m /\ down'[p] = Tail(down[p]) /\ Still(o)
  BY ZenonT(30) DEF Hears
<1>2. /\ To(m) = Stage(p)'
      /\ \/ m = "candidate" /\ Stage(p) = 3 /\ Stage(p)' = 3 /\ Got(p)' = Got(p) + 1
         \/ m # "candidate" /\ Stage(p)' = Stage(p) + 1 /\ Got(p)' = Got(p)
  <2>1. CASE m = "bound" /\ pc[p] = "binding" /\ pc'[p] = "ready" /\ remote'[p] = remote[p]
    BY <2>1, Stages DEF Stage, Got
  <2>2. CASE m = "peer_ready" /\ pc[p] = "ready" /\ remote'[p] = remote[p] /\ pc'[p] \in {"describing", "exchange"}
    <3>1. ~remote[p].described /\ ~remote[p].ended
      BY <2>2, Zenon DEF Parting
    <3> QED BY <2>2, <3>1, Stages DEF Stage, Got
  <2>3. CASE /\ m = Description(p) /\ pc[p] = "exchange" /\ ~remote[p].described /\ ~remote[p].ended
             /\ remote'[p].described /\ ~remote'[p].ended /\ pc'[p] \in {"describing", "exchange"}
             /\ remote'[p].applied + remote'[p].pending = remote[p].applied + remote[p].pending
    BY <1>0, <2>3, Stages DEF Stage, Got
  <2>4. CASE /\ m = "candidate" /\ pc[p] = "exchange" /\ pc'[p] = "exchange" /\ ~remote[p].ended
             /\ remote'[p].described = remote[p].described /\ ~remote'[p].ended
             /\ remote'[p].applied + remote'[p].pending = remote[p].applied + remote[p].pending + 1
    <3>1. Stage(p) = 3 /\ Stage(p)' = Stage(p)
      BY <1>0, <2>4, Stages DEF Stage
    <3> QED BY <1>0, <2>4, <3>1, Stages, ZenonT(30) DEF Got
  <2>5. CASE /\ m = "end_of_candidates" /\ pc[p] = "exchange" /\ pc'[p] \in {"connecting", "exchange"}
             /\ ~remote[p].ended /\ remote[p].described /\ remote'[p].described /\ remote'[p].ended
             /\ remote'[p].applied + remote'[p].pending = remote[p].applied + remote[p].pending
    BY <1>0, <2>5, Stages DEF Stage, Got
  <2> QED BY <2>1, <2>2, <2>3, <2>4, <2>5, ZenonT(30) DEF Hears
<1>3. Level(o)' = Level(o) /\ up'[o] = up[o]
  BY <1>1, StillThere
<1> DEFINE d == down[p]
           t == down'[p]
           a == Stage(p)
           b == Stage(p)'
           g == Got(p)
           h == Got(p)'
           c == room.candidates[o]
<1>4. /\ d \in Seq(DownFrames(p)) /\ d # <<>> /\ t = Tail(d) /\ a \in 0..4 /\ b \in 0..4 /\ g \in Nat /\ c \in Nat
      /\ To(Head(d)) = b
      /\ \/ Head(d) = "candidate" /\ a = 3 /\ b = 3 /\ h = g + 1
         \/ Head(d) # "candidate" /\ b = a + 1 /\ h = g
  BY <1>0, <1>1, <1>2 DEF Got
<1> HIDE DEF d, t, a, b, g, h, c
<1>5. h \in Nat
  BY <1>4
<1>6. /\ \A n \in 0..1 : Waits(a, d, g, n) => Waits(b, t, h, n)
      /\ \A u, l : Meeting(a, d, g, u, l, c) => Meeting(b, t, h, u, l, c)
      /\ Leads(a, d, 5) => Leads(b, t, 5)
      /\ Counted(a, d, g, c) => Counted(b, t, h, c)
  BY <1>4, <1>5, ReadScript, ZenonT(30)
<1>7. (IF p \in room.bound THEN 1 ELSE 0) \in 0..1
  OBVIOUS
<1> QED BY <1>1, <1>3, <1>6, <1>7, ZenonT(30) DEF Script, d, t, a, b, g, h, c

\* The other reads.
LEMMA HearsOther ==
    ASSUME NEW p \in Peers, NEW o \in Peers, o = Other(p), NEW m, Hears(o, m), Script(p)
    PROVE  Script(p)'
<1>0. Other(o) = p
  BY Pair
<1>1. room' = room /\ Still(p) /\ up'[o] = up[o] /\ ice'[o] = ice[o] /\ pc[o] # "connected" /\ pc'[o] # "connected"
  BY <1>0 DEF Hears
<1>2. Level(o)' = Level(o)
  BY <1>1 DEF Level
<1> QED BY <1>1, <1>2, StillThere, SameScript, Zenon

\* One of the peers opens its socket.
LEMMA OpensScript ==
    ASSUME RoomInv, NEW p \in Peers, NEW o \in Peers, o = Other(p), Opens(p) \/ Opens(o), Script(p)
    PROVE  Script(p)'
<1>0. Other(o) = p /\ "listener" \in Peers /\ (room.phase = "none" => room.bound # Peers)
      /\ (pc["listener"] = "idle" => room.phase = "none")
  BY Pair DEF RoomInv, Born, Peers
<1>1. /\ room'.bound = room.bound /\ room'.phase = "open" /\ room'.candidates = room.candidates /\ room.phase # "closed"
  BY <1>0 DEF Opens, RoomInv, TypeOK, RoomType
<1>2. /\ Stage(p)' = Stage(p) /\ Got(p)' = Got(p) /\ down'[p] = down[p]
  <2>1. CASE Opens(p)
    BY <2>1 DEF Opens, Stage, Got
  <2>2. CASE Opens(o)
    BY <1>0, <2>2, StillThere DEF Opens
  <2> QED BY <2>1, <2>2, Zenon
<1>3. room.bound # Peers
  <2>1. Order(p) /\ Order(o)
    BY DEF RoomInv, Upright
  <2> QED BY <2>1 DEF Opens, Order
<1> QED BY <1>1, <1>2, <1>3, SameScript, ZenonT(30)

\* The types of what Script speaks of.
LEMMA ScriptTypes ==
    ASSUME TypeOK, NEW p \in Peers, NEW o \in Peers, o = Other(p)
    PROVE  /\ down[p] \in Seq(DownFrames(p)) /\ up[o] \in Seq(UpFrames(o)) /\ Stage(p) \in 0..4
           /\ Got(p) \in Nat /\ room.candidates[o] \in Nat
  BY Types, StageType DEF Got

\* The room takes a frame of p, or none.
LEMMA QuietScript ==
    ASSUME NEW p \in Peers, NEW o \in Peers, o = Other(p), NEW m, Script(p),
           Ignores(p) \/ Ignores(o) \/ Shuts(p) \/ Shuts(o) \/ Rests \/ Forwards(p, m)
    PROVE  Script(p)'
<1>0. Other(o) = p /\ p # o
  BY Pair
<1>1. UNCHANGED <<pc, ice, remote>> /\ down'[p] = down[p]
  BY ZenonT(30) DEF Ignores, Shuts, Rests, Forwards, Takes
<1>2. /\ room'.bound = room.bound /\ room'.phase = room.phase /\ room'.candidates[o] = room.candidates[o]
  BY Zenon DEF Ignores, Shuts, Rests, Forwards
<1>3. Stage(p)' = Stage(p) /\ Got(p)' = Got(p) /\ Level(o)' = Level(o)
  BY <1>1 DEF Stage, Got, Level
<1>4. room.bound = Peers /\ room'.phase = "open" => up'[o] = up[o]
  BY <1>0, <1>2, Zenon DEF Ignores, Shuts, Rests, Forwards, Takes
<1> QED BY <1>1, <1>2, <1>3, <1>4, SameScript, ZenonT(30)

\* What the room's steps leave of the peers.
LEMMA TakesScript ==
    ASSUME NEW p \in Peers, NEW o \in Peers, o = Other(p), Takes(p) \/ Takes(o)
    PROVE  Stage(p)' = Stage(p) /\ Got(p)' = Got(p) /\ Level(o)' = Level(o)
<1>1. UNCHANGED <<pc, ice, remote>>
  BY DEF Takes
<1> QED BY <1>1 DEF Stage, Got, Level

\* p is bound.
LEMMA BindsOwn ==
    ASSUME RoomInv, NEW p \in Peers, NEW o \in Peers, o = Other(p), Parting(p), Parting(o), Fine(p), Binds(p), Script(p)
    PROVE  Script(p)'
<1> DEFINE both == room.bound \cup {p} = Peers
<1>0. /\ up[p] # <<>> /\ room.phase = "open" /\ Head(up[p]) = "bind" /\ up'[o] = up[o] /\ TypeOK
      /\ down'[p] = Tell(p, IF both THEN <<"bound", "peer_ready">> ELSE <<"bound">>)
      /\ room'.bound = room.bound \cup {p} /\ room'.phase = "open" /\ room'.candidates = room.candidates
      /\ "bound" \in DownFrames(p) /\ "peer_ready" \in DownFrames(p) /\ Order(p)
  BY FrameFacts, ZenonT(30) DEF Binds, Takes, RoomInv, TypeOK, RoomType, Upright
<1>1. p \notin room.bound /\ room.bound # Peers
  <2>1. In("bind", up[p])
    BY <1>0, Types, InQueue, ZenonT(30)
  <2> QED BY <2>1, Zenon DEF Parting
<1>2. link[p] = "open"
  BY <1>0, FineFacts, Zenon DEF Order
<1>3. Stage(p)' = Stage(p) /\ Got(p)' = Got(p) /\ Level(o)' = Level(o)
  BY TakesScript DEF Binds
<1> DEFINE d == down[p]
           a == Stage(p)
           g == Got(p)
           c == room.candidates[o]
           r == Append(d, "bound")
<1>4. /\ d \in Seq(DownFrames(p)) /\ a \in 0..4 /\ g \in Nat /\ c \in Nat
      /\ Waits(a, d, g, 0) /\ Counted(a, d, g, c)
  BY <1>0, <1>1, ScriptTypes, ZenonT(30) DEF Script
<1>5. both => down'[p] = Append(Append(d, "bound"), "peer_ready")
  BY <1>0, <1>2, Told, ZenonT(30)
<1>6. ~both => down'[p] = Append(d, "bound")
  BY <1>0, <1>2, Told, ZenonT(30)
<1> HIDE DEF d, a, g, c
<1>7. r \in Seq(DownFrames(p)) /\ Waits(a, r, g, 1) /\ Counted(a, r, g, c)
  BY <1>0, <1>4, Stages, BindScript
<1>8. CASE ~both
  BY <1>0, <1>3, <1>6, <1>7, <1>8, ZenonT(30) DEF Script, d, a, g, c
<1>9. CASE both
  <2> HIDE DEF r
  <2>1. Waits(a, Append(r, "peer_ready"), g, 2) /\ Counted(a, Append(r, "peer_ready"), g, c)
    BY <1>0, <1>4, <1>7, Stages, BindScript, SMTT(30)
  <2>2. down'[p] = Append(r, "peer_ready")
    BY <1>5, <1>9 DEF r
  <2>3. o \in room.bound
    BY <1>1, <1>9, Pair
  <2>4. Level(o) = 2 /\ up[o] = <<>>
    BY <1>0, <1>1, <2>3, FineFacts, ZenonT(30)
  <2>5. Meeting(a, down'[p], g, <<>>, 2, c)
    BY <2>1, <2>2, WaitsMeeting
  <2>6. Meeting(Stage(p)', down'[p], Got(p)', up'[o], Level(o)', room'.candidates[o])
    BY <1>0, <1>3, <2>4, <2>5, ZenonT(30) DEF a, g, c
  <2>7. Counted(Stage(p)', down'[p], Got(p)', room'.candidates[o])
    BY <1>0, <1>3, <2>1, <2>2, ZenonT(30) DEF a, g, c
  <2> QED BY <1>0, <1>9, <2>6, <2>7, ZenonT(30) DEF Script
<1> QED BY <1>8, <1>9

\* The other is bound.
LEMMA BindsOther ==
    ASSUME RoomInv, NEW p \in Peers, NEW o \in Peers, o = Other(p), Parting(p), Parting(o), Fine(p), Binds(o), Script(p)
    PROVE  Script(p)'
<1> DEFINE both == room.bound \cup {o} = Peers
<1>0. /\ up[o] # <<>> /\ room.phase = "open" /\ Head(up[o]) = "bind" /\ up'[o] = Tail(up[o]) /\ TypeOK /\ Other(o) = p
      /\ down'[p] = Tell(p, IF both THEN <<"peer_ready">> ELSE <<>>) /\ p # o
      /\ room'.bound = room.bound \cup {o} /\ room'.phase = "open" /\ room'.candidates = room.candidates
      /\ "peer_ready" \in DownFrames(p) /\ Order(o)
  BY FrameFacts, Pair DEF Binds, Takes, RoomInv, TypeOK, RoomType, Upright
<1>1. o \notin room.bound /\ room.bound # Peers /\ pc[o] # "idle"
  <2>1. In("bind", up[o])
    BY <1>0, Types, InQueue, ZenonT(30)
  <2> QED BY <1>0, <2>1, ZenonT(30) DEF Parting, Order
<1>2. Level(o) = 2 /\ up[o] = <<"bind">>
  BY <1>0, <1>1, FineFacts, ZenonT(30)
<1>3. Stage(p)' = Stage(p) /\ Got(p)' = Got(p) /\ Level(o)' = Level(o)
  BY TakesScript DEF Binds
<1>4. CASE ~both
  <2>1. down'[p] = down[p]
    BY <1>0, <1>4, Told, ZenonT(30)
  <2>2. room'.bound # Peers /\ (p \in room'.bound <=> p \in room.bound)
    BY <1>0, <1>4, ZenonT(30)
  <2> QED BY <1>0, <1>1, <1>3, <2>1, <2>2, ZenonT(30) DEF Script
<1>5. CASE both
  <2> DEFINE d == down[p]
             a == Stage(p)
             g == Got(p)
             c == room.candidates[o]
  <2>1. p \in room.bound
    BY <1>0, <1>5
  <2>2. link[p] = "open"
    BY <1>0, <2>1, FineFacts, ZenonT(30)
  <2>3. down'[p] = Append(d, "peer_ready")
    BY <1>0, <1>5, <2>2, Told, ZenonT(30)
  <2>4. /\ d \in Seq(DownFrames(p)) /\ a \in 0..4 /\ g \in Nat /\ c \in Nat
        /\ Waits(a, d, g, 1) /\ Counted(a, d, g, c)
    BY <1>0, <1>1, <2>1, ScriptTypes, ZenonT(30) DEF Script
  <2> HIDE DEF d, a, g, c
  <2>5. Waits(a, Append(d, "peer_ready"), g, 2) /\ Counted(a, Append(d, "peer_ready"), g, c)
    BY <1>0, <2>4, Stages, BindScript
  <2>6. Meeting(a, down'[p], g, <<>>, 2, c)
    BY <2>3, <2>5, WaitsMeeting
  <2>7. up'[o] = <<>>
    <3>1. Tail(<<"bind">>) = <<>>
      OBVIOUS
    <3> QED BY <1>0, <1>2, <3>1, Zenon
  <2>8. Meeting(Stage(p)', down'[p], Got(p)', up'[o], Level(o)', room'.candidates[o])
    BY <1>0, <1>2, <1>3, <2>6, <2>7, Zenon DEF a, g, c
  <2>9. Counted(Stage(p)', down'[p], Got(p)', room'.candidates[o])
    BY <1>0, <1>3, <2>3, <2>5, ZenonT(30) DEF a, g, c
  <2> QED BY <1>0, <1>5, <2>8, <2>9, ZenonT(30) DEF Script
<1> QED BY <1>4, <1>5

\* The room forwards a frame of the other.
LEMMA ForwardsOther ==
    ASSUME RoomInv, NEW p \in Peers, NEW o \in Peers, o = Other(p), Parting(p), Parting(o), Fine(p),
           NEW m, Forwards(o, m), Script(p)
    PROVE  Script(p)'
<1>0. /\ up[o] # <<>> /\ room.phase = "open" /\ room.bound = Peers /\ Head(up[o]) = m /\ up'[o] = Tail(up[o]) /\ TypeOK /\ Other(o) = p
      /\ down'[p] = Tell(p, <<m>>) /\ m \in DownFrames(p) /\ m \in {"offer", "answer", "candidate", "end_of_candidates"}
      /\ room'.bound = room.bound /\ room'.phase = "open"
      /\ room'.candidates[o] = IF m = "candidate" THEN room.candidates[o] + 1 ELSE room.candidates[o]
  <2>1. Description(p) = Own(o) /\ Description(p) \in DownFrames(p) /\ "candidate" \in DownFrames(p)
        /\ "end_of_candidates" \in DownFrames(p) /\ Own(o) \in {"offer", "answer"} /\ Other(o) = p
    BY FrameFacts, Pair
  <2> QED BY <2>1, ZenonT(30) DEF Forwards, Takes, RoomInv
<1>1. link[p] = "open"
  BY <1>0, FineFacts, ZenonT(30)
<1>2. down'[p] = Append(down[p], m)
  BY <1>0, <1>1, Told, ZenonT(30)
<1>3. Stage(p)' = Stage(p) /\ Got(p)' = Got(p) /\ Level(o)' = Level(o)
  BY TakesScript, ZenonT(30) DEF Forwards
<1> DEFINE d == down[p]
           a == Stage(p)
           g == Got(p)
           c == room.candidates[o]
           c2 == room'.candidates[o]
           u == up[o]
           t == up'[o]
           l == Level(o)
<1>4. /\ d \in Seq(DownFrames(p)) /\ a \in 0..4 /\ g \in Nat /\ c \in Nat /\ u \in Seq(UpFrames(o)) /\ u # <<>>
      /\ t = Tail(u) /\ Head(u) = m /\ c2 = (IF m = "candidate" THEN c + 1 ELSE c)
      /\ Meeting(a, d, g, u, l, c) /\ Counted(a, d, g, c)
  BY <1>0, ScriptTypes, Zenon DEF Script
<1> HIDE DEF d, a, g, c, c2, u, t, l
<1>5. c2 \in Nat
  BY <1>4
<1>6. Meeting(a, Append(d, m), g, t, l, c2) /\ Counted(a, Append(d, m), g, c2)
  BY <1>0, <1>4, <1>5, ForwardScript, ZenonT(30)
<1>7. /\ Meeting(Stage(p)', down'[p], Got(p)', up'[o], Level(o)', room'.candidates[o])
      /\ Counted(Stage(p)', down'[p], Got(p)', room'.candidates[o])
  BY <1>2, <1>3, <1>6, ZenonT(30) DEF a, g, c2, d, t, l
<1> QED BY <1>0, <1>7, ZenonT(30) DEF Script

\* The room is closed: the other leaves.
LEMMA ClosesScript ==
    ASSUME RoomInv, NEW p \in Peers, NEW o \in Peers, o = Other(p), Parting(p), Parting(o), Fine(p),
           NEW q \in Peers, Closes(q), Script(p)
    PROVE  Script(p)'
<1>0. /\ up[q] # <<>> /\ room.phase = "open" /\ Head(up[q]) \in {"leave", "gone"} /\ TypeOK /\ Other(o) = p
      /\ up'[q] = Tail(up[q]) /\ room'.phase = "closed" /\ room'.candidates = room.candidates
      /\ "peer_left" \in DownFrames(p) /\ "close" \in DownFrames(p)
  BY FrameFacts, Pair, ZenonT(30) DEF Closes, Takes, RoomInv, TypeOK, RoomType
<1>1. In(Head(up[q]), up[q])
  BY <1>0, Taking
<1>2. ~cut /\ pc[o] # "failed" /\ pc[p] \notin Ended
  BY FineFacts
<1>3. q = o /\ pc[o] = "connected"
  <2>1. q # p
    BY <1>0, <1>1, <1>2, ZenonT(30) DEF Parting
  <2>2. q = o
    BY <2>1, Pair
  <2> QED BY <1>0, <1>1, <1>2, <2>2, ZenonT(30) DEF Parting, Ended
<1>4. room.bound = Peers /\ link[p] = "open"
  BY <1>0, <1>3, FineFacts, ZenonT(30)
<1>5. down'[p] = Append(Append(down[p], "peer_left"), "close")
  <2>1. down'[p] = Tell(p, <<"peer_left", "close">>)
    BY <1>0, <1>3 DEF Closes
  <2> QED BY <1>0, <1>4, <2>1, Told, ZenonT(30)
<1>6. Stage(p)' = Stage(p) /\ Got(p)' = Got(p)
  BY <1>3, TakesScript DEF Closes
<1> DEFINE d == down[p]
           a == Stage(p)
           g == Got(p)
           c == room.candidates[o]
           u == up[o]
           l == Level(o)
<1>7. /\ d \in Seq(DownFrames(p)) /\ a \in 0..4 /\ g \in Nat /\ c \in Nat /\ u \in Seq(UpFrames(o)) /\ u # <<>>
      /\ Head(u) \in {"leave", "gone"} /\ Meeting(a, d, g, u, l, c) /\ Counted(a, d, g, c)
  BY <1>0, <1>3, <1>4, ScriptTypes, ZenonT(30) DEF Script
<1> HIDE DEF d, a, g, c, u, l
<1>8. /\ Leads(a, Append(Append(d, "peer_left"), "close"), 5)
      /\ Counted(a, Append(Append(d, "peer_left"), "close"), g, c)
  BY <1>0, <1>7, CloseScript
<1>9. Leads(Stage(p)', down'[p], 5) /\ Counted(Stage(p)', down'[p], Got(p)', room'.candidates[o])
  BY <1>0, <1>5, <1>6, <1>8, ZenonT(30) DEF a, g, c, d
<1> QED BY <1>0, <1>9, Zenon DEF Script

\* All steps keep the script of a peer that is fine.
LEMMA KindsScript ==
    ASSUME RoomInv, Kinds, PeerInv, NEW p \in Peers, Fine(p)'
    PROVE  Script(p)'
<1> DEFINE o == Other(p)
<1>0. o \in Peers /\ (\A q \in Peers : q = p \/ q = o) /\ o = Other(p)
  BY Pair
<1>1. Onward
  BY KindsOnward
<1>2. Fine(p) /\ ~cut' /\ pc'[p] \notin Ended
  BY <1>0, <1>1 DEF Fine, Onward
<1>3. Script(p) /\ Parting(p) /\ Parting(o)
  BY <1>0, <1>2 DEF PeerInv
<1> HIDE DEF o
<1>4. ASSUME NEW q \in Peers, NEW m, Posts(q, m) PROVE Script(p)'
  BY <1>0, <1>3, <1>4, PostsOwn, PostsOther
<1>5. ASSUME NEW q \in Peers, NEW m, Hears(q, m) PROVE Script(p)'
  BY <1>0, <1>3, <1>5, HearsOwn, HearsOther
<1>6. ASSUME NEW q \in Peers, NEW m, Forwards(q, m) PROVE Script(p)'
  BY <1>0, <1>2, <1>3, <1>6, QuietScript, ForwardsOther
<1>7. ASSUME NEW q \in Peers, Ends(q) PROVE Script(p)'
  <2>1. q = o
    BY <1>0, <1>2, <1>7 DEF Ends
  <2> QED BY <1>0, <1>2, <1>3, <1>7, <2>1, EndsOther
<1>8. ASSUME NEW q \in Peers, Binds(q) PROVE Script(p)'
  BY <1>0, <1>2, <1>3, <1>8, BindsOwn, BindsOther
<1>9. ASSUME NEW q \in Peers, Closes(q) PROVE Script(p)'
  BY <1>0, <1>2, <1>3, <1>9, ClosesScript
<1>10. ASSUME NEW q \in Peers, Ignores(q) \/ Shuts(q) PROVE Script(p)'
  BY <1>0, <1>3, <1>10, QuietScript
<1>11. ASSUME NEW q \in Peers, Opens(q) PROVE Script(p)'
  BY <1>0, <1>3, <1>11, OpensScript
<1>12. ASSUME NEW q \in Peers, Loses(q) PROVE Script(p)'
  BY <1>2, <1>12 DEF Loses
<1>13. CASE Expires
  BY <1>2, <1>13 DEF Expires
<1>14. CASE Rests
  BY <1>0, <1>3, <1>14, QuietScript
<1> QED BY <1>4, <1>5, <1>6, <1>7, <1>8, <1>9, <1>10, <1>11, <1>12, <1>13, <1>14 DEF Kinds

\* A peer that blames its signaling has lost a connection, or its peer has failed.
LEMMA BlamesRightly ==
    ASSUME RoomInv, PeerInv, NEW p \in Peers, NEW o \in Peers, o = Other(p), pc[p] \notin Ended, Blames(p),
           ~cut, pc[o] # "failed"
    PROVE  FALSE
<1>0. /\ Fine(p) /\ Parting(p) /\ Parting(o) /\ Script(p) /\ Order(p) /\ Order(o) /\ TypeOK /\ Born
      /\ link[p] \in {"none", "open", "closed"} /\ room.phase \in {"none", "open", "closed"}
      /\ (p = "joiner" => o = "listener") /\ down[p] \in Seq(DownFrames(p))
  BY Types, Pair DEF Fine, PeerInv, RoomInv, Upright, Other
<1>1. pc[o] = "connected" => ice[p].done
  BY <1>0, FineFacts, ZenonT(30)
<1>2. CASE link[p] # "open" /\ pc[p] \in {"describing", "exchange"} /\ ~ice[p].done
  <2>1. link[p] = "closed"
    BY <1>0, <1>2, ZenonT(30) DEF Parting, Waiting
  <2>2. room.phase = "closed"
    BY <1>0, <2>1, ZenonT(30) DEF Parting
  <2> QED BY <1>0, <1>1, <1>2, <2>2, FineFacts, ZenonT(30)
<1>3. CASE p = "joiner" /\ pc[p] = "idle" /\ room.phase # "open" /\ pc["listener"] # "idle"
  <2>1. room.phase = "closed"
    BY <1>0, <1>3 DEF Born
  <2>2. ice[p].done
    BY <1>0, <1>1, <2>1, FineFacts, ZenonT(30)
  <2> QED BY <1>0, <1>3, <2>2, ZenonT(30) DEF Order
<1>4. CASE down[p] # <<>> /\ Unexpected(p, Head(down[p]))
  <2> DEFINE m == Head(down[p])
  <2>1. From(m) = Stage(p)
    BY <1>0, <1>4, ScriptHead, ZenonT(30)
  <2>2. m \in DownFrames(p) /\ m = down[p][1] /\ 1 \in 1..Len(down[p])
    BY <1>0, <1>4
  <2>3. Unexpected(p, m)
    BY <1>4
  <2> HIDE DEF m
  <2>4. CASE pc[p] = "binding" /\ m # "bound"
    <3>1. From(m) = 0
      BY <2>1, <2>4 DEF Stage
    <3> QED BY <2>4, <3>1 DEF From
  <2>5. CASE pc[p] = "ready" /\ m # "peer_ready"
    <3>1. From(m) = 1
      BY <2>1, <2>5 DEF Stage
    <3> QED BY <2>5, <3>1 DEF From
  <2>6. CASE pc[p] = "exchange" /\ ~remote[p].ended
    <3>1. Stage(p) = IF remote[p].described THEN 3 ELSE 2
      BY <2>6 DEF Stage
    <3>2. m \notin {"bound", "peer_ready", "peer_left", "error", "close"}
      BY <2>1, <3>1, Stages
    <3>3. m = "end_of_candidates" => remote[p].described
      BY <2>1, <3>1, Stages
    <3>4. m \in {"offer", "answer"} => m = Description(p) /\ ~remote[p].described
      BY <2>1, <2>2, <3>1, Stages DEF DownFrames
    <3>5. m = "candidate" => ~TooMany(p)
      <4> SUFFICES ASSUME m = "candidate" PROVE ~TooMany(p)
        OBVIOUS
      <4>1. Stage(p) = 3
        BY <2>1, <3>1, Stages
      <4>2. Counted(Stage(p), down[p], Got(p), room.candidates[o])
        BY <1>0, ZenonT(30) DEF Script
      <4>3. Got(p) + 1 <= room.candidates[o] + Left(3)
        BY <2>2, <4>1, <4>2 DEF Counted
      <4>4. Got(p) \in Nat /\ room.candidates[o] \in Nat /\ ice[o].sent \in Nat /\ MaxCandidates \in Nat
        BY <1>0, Types, ScriptTypes, ZenonT(30)
      <4>5. room.candidates[o] <= ice[o].sent /\ ice[o].sent <= MaxCandidates
        BY <1>0, ZenonT(30) DEF Order
      <4> QED BY <4>3, <4>4, <4>5 DEF TooMany, Got, Left
    <3> QED BY <2>3, <2>6, <3>2, <3>3, <3>4, <3>5 DEF Unexpected
  <2> QED BY <2>3, <2>4, <2>5, <2>6, ZenonT(30) DEF Unexpected
<1> QED BY <1>2, <1>3, <1>4 DEF Blames

\* Every step keeps what the peers rely on, and that leaving is harmless.
LEMMA KindsPeer ==
    ASSUME RoomInv, Kinds, PeerInv
    PROVE  PeerInv' /\ (LeavingIsHarmless => LeavingIsHarmless')
<1>1. \A q \in Peers : Parting(q)'
  BY KindsParting DEF PeerInv
<1>2. \A q \in Peers : Fine(q)' => Script(q)'
  BY KindsScript
<1>3. PeerInv'
  BY <1>1, <1>2 DEF PeerInv
<1>4. ASSUME LeavingIsHarmless, NEW p \in Peers, cause'[p] = "signaling"
      PROVE  cut' \/ pc'[Other(p)] = "failed"
  <2> DEFINE o == Other(p)
  <2>0. o \in Peers /\ (\A q \in Peers : q = p \/ q = o) /\ o = Other(p) /\ Other(o) = p /\ Onward
    BY Pair, KindsOnward
  <2>1. CASE cause[p] = "signaling"
    BY <1>4, <2>0, <2>1 DEF LeavingIsHarmless, Onward
  <2>2. CASE cause[p] # "signaling"
    <3>1. Ends(p)
      <4>1. ASSUME NEW q \in Peers, NEW m, Posts(q, m) \/ Hears(q, m) \/ Forwards(q, m) PROVE cause'[p] = cause[p]
        BY <2>0, <4>1, ZenonT(30) DEF Posts, Hears, Forwards, Takes, Still
      <4>2. ASSUME NEW q \in Peers, Binds(q) \/ Closes(q) \/ Ignores(q) \/ Opens(q) \/ Shuts(q) \/ Loses(q) PROVE cause'[p] = cause[p]
        BY <2>0, <4>2 DEF Binds, Closes, Takes, Ignores, Opens, Shuts, Loses, Still
      <4>3. ASSUME Expires \/ Rests PROVE cause'[p] = cause[p]
        BY <4>3 DEF Expires, Rests
      <4>4. ASSUME Ends(o) PROVE cause'[p] = cause[p]
        BY <2>0, <4>4, ZenonT(30) DEF Ends, Still
      <4> QED BY <1>4, <2>0, <2>2, <4>1, <4>2, <4>3, <4>4, ZenonT(30) DEF Kinds
    <3>2. Blames(p) /\ pc[p] \notin Ended /\ cut' = cut /\ pc'[o] = pc[o]
      BY <1>4, <3>1, ZenonT(30) DEF Ends, Still, Waiting, Ended
    <3> HIDE DEF o
    <3>3. cut \/ pc[o] = "failed"
      BY <2>0, <3>2, BlamesRightly
    <3> QED BY <3>2, <3>3 DEF o
  <2> QED BY <2>1, <2>2
<1> QED BY <1>3, <1>4 DEF LeavingIsHarmless

\* Nobody has anything to read yet.
LEMMA InitPeer == Init => PeerInv /\ LeavingIsHarmless
<1> SUFFICES ASSUME Init PROVE PeerInv /\ LeavingIsHarmless
  OBVIOUS
<1>1. /\ room.phase = "none" /\ room.bound = {} /\ room.bound # Peers /\ room.candidates = [p \in Peers |-> 0]
  BY DEF Init, Peers
<1>2. ASSUME NEW p \in Peers
      PROVE  /\ up[p] = <<>> /\ down[p] = <<>> /\ link[p] = "none" /\ pc[p] = "idle"
             /\ ~remote[p].described /\ ~remote[p].ended /\ remote[p].applied = 0 /\ remote[p].pending = 0
             /\ cause[p] = "none"
  BY DEF Init
<1>3. ASSUME NEW p \in Peers PROVE Parting(p)
  BY <1>1, <1>2 DEF Parting, In, BindFirst, Waiting
<1>4. ASSUME NEW p \in Peers PROVE Script(p)
  <2>1. Stage(p) = 0 /\ Got(p) = 0
    BY <1>2 DEF Stage, Got
  <2>2. Waits(0, <<>>, 0, 0) /\ Counted(0, <<>>, 0, room.candidates[Other(p)])
    BY LeadsNowhere DEF Waits, Counted
  <2> QED BY <1>1, <1>2, <2>1, <2>2, Zenon DEF Script
<1> QED BY <1>2, <1>3, <1>4 DEF PeerInv, LeavingIsHarmless

\* The first peer to connect leaves, and takes nothing from the other: a peer fails because
\* of its signaling only if a connection was lost, the room has expired or the other has failed.
THEOREM LeavingHarmsNobody == Spec => []LeavingIsHarmless
<1>1. RoomInv /\ PeerInv /\ LeavingIsHarmless /\ [Next]_vars => (PeerInv /\ LeavingIsHarmless)'
  BY NextKinds, KindsPeer
<1> QED BY <1>1, InitPeer, RoomInvariance, PTL DEF Spec
=============================================================================
