------------------------ MODULE ControlSessionProofs ------------------------
(***************************************************************************)
(* Proofs about ControlSession, for any number of clients, streams and     *)
(* faults: types, the single-test slot, stray connections, the streams of  *)
(* a test, and that the server implements TestContract.                    *)
(***************************************************************************)
EXTENDS ControlSession, FiniteSetTheorems, TLAPS

\* The slot is held by the connection that is being served as a session.
Slot == \A k \in Conns : h[k] \in Session <=> active = k

\* Connections are opened once, data connections in order and no more than asked for.
Fresh ==
    \A c \in Clients :
        /\ cl[c].pc = "idle" => h[Control(c)] = "none"
        /\ cl[c].opened <= Params[c].parallel
        /\ cl[c].pc = "opening" => cl[c].opened < Params[c].parallel
        /\ \A i \in 1..MaxParallel : cl[c].opened < i => h[<<c, i>>] = "none"

Once(q) == \A i, j \in 1..Len(q) : q[i] = "CREATE_STREAMS" /\ q[j] = "CREATE_STREAMS" => i = j
Has(q) == \E i \in 1..Len(q) : q[i] = "CREATE_STREAMS"

\* A client is told once to open its streams.
AskedOnce ==
    \A c \in Clients :
        /\ h[Control(c)] \in {"none", "cookie", "params"} =>
               ~Has(down[Control(c)]) /\ cl[c].opened = 0 /\ cl[c].pc # "opening"
        /\ Has(down[Control(c)]) => cl[c].opened = 0 /\ cl[c].pc # "opening"
        /\ Once(down[Control(c)])

\* Nothing but the cookie is ever written before a data connection is accepted.
Stray ==
    \A k \in Conns : k[2] # 0 =>
        /\ h[k] \notin Session \ {"params", "failing"}
        /\ up[k] = <<>> \/ up[k] = <<"cookie">>

\* Streams are wanted while they are being waited for, and while that is given up.
Awaits ==
    /\ awaiting => active # None /\ h[active] \in {"streams", "failing"} /\ active[2] = 0
    /\ \A k \in Conns : h[k] = "streams" => awaiting

\* The streams of a session are accepted data connections of its client, each once.
Owned ==
    \A k \in Conns :
        /\ \A i \in 1..Len(streams[k]) :
               /\ streams[k][i] \in Conns /\ streams[k][i][1] = k[1] /\ streams[k][i][2] # 0
               /\ h[streams[k][i]] = "stream"
        /\ \A i, j \in 1..Len(streams[k]) : streams[k][i] = streams[k][j] => i = j
        /\ h[k] \in {"none", "cookie", "params"} => streams[k] = <<>>
        /\ h[k] = "streams" => Len(streams[k]) < Params[k[1]].parallel
        /\ h[k] \in {"running", "results", "done"} => Len(streams[k]) = Params[k[1]].parallel

Rest == Slot /\ Fresh /\ AskedOnce /\ Stray /\ Awaits /\ Owned
IInv == TypeOK /\ Rest

-----------------------------------------------------------------------------
(* Facts about the operators of the model.                                 *)

\* Connections are pairs: none of them is None.
LEMMA ConnFacts ==
    /\ \A k \in Conns : k # None /\ k = <<k[1], k[2]>> /\ k[1] \in Clients /\ k[2] \in 0..MaxParallel
    /\ \A c \in Clients : Control(c) \in Conns /\ Control(c)[1] = c /\ Control(c)[2] = 0
    /\ \A c \in Clients : \A i \in 1..MaxParallel : <<c, i>> \in Conns
    /\ None \notin Conns
<1>1. MaxParallel \in Nat
  BY SessionAssumption
<1>2. \A k \in Conns : k = <<k[1], k[2]>> /\ k[1] \in Clients /\ k[2] \in 0..MaxParallel
  BY DEF Conns
<1>3. \A k \in Conns : k # None
  BY <1>2 DEF None
<1>4. \A c \in Clients : Control(c) \in Conns /\ Control(c)[1] = c /\ Control(c)[2] = 0
  BY <1>1 DEF Conns, Control
<1>5. \A c \in Clients : \A i \in 1..MaxParallel : <<c, i>> \in Conns
  BY <1>1 DEF Conns
<1> QED BY <1>2, <1>3, <1>4, <1>5

\* What the constants are.
LEMMA ConstantFacts ==
    /\ MaxParallel \in Nat /\ MaxFaults \in Nat
    /\ \A c \in Clients : /\ Params[c].parallel \in 1..MaxParallel
                          /\ Params[c].reverse \in BOOLEAN
                          /\ Params[c].ok \in BOOLEAN
  BY SessionAssumption

Ends == {"none", "open", "shut"}

\* close() of some ends leaves a state for every end.
LEMMA ShutType ==
    ASSUME NEW end \in [Conns -> Ends], NEW K
    PROVE  Shut(end, K) \in [Conns -> Ends]
  BY DEF Shut, Ends

\* What is lost leaves queues.
LEMMA LostType ==
    ASSUME TypeOK, NEW K
    PROVE  /\ Lost(up, K) \in [Conns -> Seq(UpMessages)]
           /\ \A k \in Conns : Lost(up, K)[k] = <<>> \/ Lost(up, K)[k] = up[k]
           /\ Lost(down, K) \in [Conns -> Seq(DownMessages)]
           /\ \A k \in Conns : Lost(down, K)[k] = <<>> \/ Lost(down, K)[k] = down[k]
<1>1. up \in [Conns -> Seq(UpMessages)] /\ down \in [Conns -> Seq(DownMessages)]
  BY DEF TypeOK
<1>2. <<>> \in Seq(UpMessages) /\ <<>> \in Seq(DownMessages)
  OBVIOUS
<1> QED BY <1>1, <1>2 DEF Lost

\* A client's write appends to its own queue or is dropped.
LEMMA SaysType ==
    ASSUME up \in [Conns -> Seq(UpMessages)], NEW k \in Conns, NEW msg \in UpMessages
    PROVE  /\ Says(k, msg) \in [Conns -> Seq(UpMessages)]
           /\ \A j \in Conns : j # k => Says(k, msg)[j] = up[j]
  BY DEF Says

\* A server's write appends to one queue or is dropped.
LEMMA TellsType ==
    ASSUME down \in [Conns -> Seq(DownMessages)], NEW k \in Conns, NEW msgs \in Seq(DownMessages)
    PROVE  /\ Tells(k, msgs) \in [Conns -> Seq(DownMessages)]
           /\ \A j \in Conns : j # k => Tells(k, msgs)[j] = down[j]
           /\ Tells(k, msgs)[k] = down[k] \/ Tells(k, msgs)[k] = down[k] \o msgs
  BY DEF Tells

\* Reading a queue asks for streams no more often than before.
LEMMA TailOnce ==
    ASSUME NEW q \in Seq(DownMessages), q # <<>>
    PROVE  /\ Once(q) => Once(Tail(q))
           /\ Has(Tail(q)) => Has(q)
           /\ Once(q) /\ Head(q) = "CREATE_STREAMS" => ~Has(Tail(q))
           /\ Head(q) = "CREATE_STREAMS" => Has(q)
<1>1. Len(q) \in Nat /\ Len(q) > 0 /\ Len(Tail(q)) = Len(q) - 1
      /\ \A i \in 1..Len(Tail(q)) : Tail(q)[i] = q[i + 1] /\ i + 1 \in 1..Len(q)
  OBVIOUS
<1>2. Head(q) = q[1] /\ 1 \in 1..Len(q)
  OBVIOUS
<1> QED BY <1>1, <1>2 DEF Once, Has

\* Messages other than CREATE_STREAMS change nothing about it.
LEMMA CatOnce ==
    ASSUME NEW q \in Seq(DownMessages), NEW m \in Seq(DownMessages)
    PROVE  /\ ~Has(m) => (Once(q) => Once(q \o m)) /\ (Has(q \o m) => Has(q))
           /\ ~Has(q) => Once(q \o <<"CREATE_STREAMS">>)
<1>1. Len(q) \in Nat /\ Len(m) \in Nat /\ Len(q \o m) = Len(q) + Len(m)
  OBVIOUS
<1>2. \A i \in 1..Len(q \o m) : /\ i <= Len(q) => (q \o m)[i] = q[i]
                               /\ i > Len(q) => (q \o m)[i] = m[i - Len(q)] /\ i - Len(q) \in 1..Len(m)
  BY <1>1
<1>3. Len(q \o <<"CREATE_STREAMS">>) = Len(q) + 1
      /\ \A i \in 1..Len(q) : (q \o <<"CREATE_STREAMS">>)[i] = q[i]
  OBVIOUS
<1>4. ~Has(m) => (Once(q) => Once(q \o m)) /\ (Has(q \o m) => Has(q))
  BY <1>1, <1>2 DEF Once, Has
<1>5. ~Has(q) => Once(q \o <<"CREATE_STREAMS">>)
  BY <1>1, <1>3 DEF Once, Has
<1> QED BY <1>4, <1>5

-----------------------------------------------------------------------------
(* The kinds of steps, by what they do to the server's books.              *)

\* A client step that opens no connection.
QuietClient(c) ==
    /\ UNCHANGED <<h, active, awaiting, streams>>
    /\ \A k \in Conns : k[2] # 0 => up'[k] = up[k]
    /\ \A d \in Clients : d # c => cl'[d] = cl[d] /\ down'[Control(d)] = down[Control(d)]
    /\ cl'[c].opened = cl[c].opened
    /\ cl'[c].pc = "idle" => cl[c].pc = "idle"
    /\ \/ (cl'[c].pc = "opening" => cl[c].pc = "opening") /\ down'[Control(c)] = down[Control(c)]
       \/ cl'[c].pc # "opening" /\ down'[Control(c)] = <<>>
       \/ /\ down[Control(c)] # <<>> /\ down'[Control(c)] = Tail(down[Control(c)])
          /\ cl'[c].pc = "opening" => Head(down[Control(c)]) = "CREATE_STREAMS"

\* A client step that opens no connection keeps the invariant.
LEMMA QuietClientStep ==
    ASSUME IInv, NEW c \in Clients, QuietClient(c)
    PROVE  Rest'
<1> USE DEF QuietClient
<1>1. Slot' BY DEF IInv, Rest, Slot
<1>2. Fresh' /\ AskedOnce'
  <2> SUFFICES ASSUME NEW d \in Clients
               PROVE  /\ cl'[d].pc = "idle" => h'[Control(d)] = "none"
                      /\ cl'[d].opened <= Params[d].parallel
                      /\ cl'[d].pc = "opening" => cl'[d].opened < Params[d].parallel
                      /\ \A i \in 1..MaxParallel : cl'[d].opened < i => h'[<<d, i>>] = "none"
                      /\ h'[Control(d)] \in {"none", "cookie", "params"} =>
                             ~Has(down'[Control(d)]) /\ cl'[d].opened = 0 /\ cl'[d].pc # "opening"
                      /\ Has(down'[Control(d)]) => cl'[d].opened = 0 /\ cl'[d].pc # "opening"
                      /\ Once(down'[Control(d)])
    BY DEF Fresh, AskedOnce
  <2>1. /\ cl[d].pc = "idle" => h[Control(d)] = "none"
        /\ cl[d].opened <= Params[d].parallel
        /\ cl[d].pc = "opening" => cl[d].opened < Params[d].parallel
        /\ \A i \in 1..MaxParallel : cl[d].opened < i => h[<<d, i>>] = "none"
        /\ h[Control(d)] \in {"none", "cookie", "params"} =>
               ~Has(down[Control(d)]) /\ cl[d].opened = 0 /\ cl[d].pc # "opening"
        /\ Has(down[Control(d)]) => cl[d].opened = 0 /\ cl[d].pc # "opening"
        /\ Once(down[Control(d)])
    BY DEF IInv, Rest, Fresh, AskedOnce
  <2>2. Has(<<>>) = FALSE /\ Once(<<>>)
    BY DEF Has, Once
  <2>3. down[Control(d)] \in Seq(DownMessages) /\ Params[d].parallel \in Nat /\ 1 <= Params[d].parallel
    <3>1. down \in [Conns -> Seq(DownMessages)]
      BY DEF IInv, TypeOK
    <3>2. Control(d) \in Conns /\ Params[d].parallel \in 1..MaxParallel /\ MaxParallel \in Nat
      BY ConnFacts, ConstantFacts
    <3> QED BY <3>1, <3>2
  <2>4. CASE d # c
    BY <2>1, <2>4, SMTT(30)
  <2>5. CASE d = c
    <3> DEFINE q == down[Control(d)]
    <3>1. CASE (cl'[c].pc = "opening" => cl[c].pc = "opening") /\ down'[Control(c)] = q
      BY <2>1, <2>5, <3>1
    <3>2. CASE cl'[c].pc # "opening" /\ down'[Control(c)] = <<>>
      BY <2>1, <2>2, <2>5, <3>2
    <3>3. CASE /\ q # <<>> /\ down'[Control(c)] = Tail(q)
               /\ cl'[c].pc = "opening" => Head(q) = "CREATE_STREAMS"
      <4>1. /\ Once(q) => Once(Tail(q))
            /\ Has(Tail(q)) => Has(q)
            /\ Once(q) /\ Head(q) = "CREATE_STREAMS" => ~Has(Tail(q))
            /\ Head(q) = "CREATE_STREAMS" => Has(q)
        BY <2>3, <3>3, TailOnce
      <4>2. cl'[d].pc = "opening" => cl[d].opened = 0 /\ ~Has(Tail(q)) /\ Has(q)
        BY <2>1, <2>5, <3>3, <4>1
      <4>3. h'[Control(d)] = h[Control(d)] /\ down'[Control(d)] = Tail(q) /\ cl'[d].opened = cl[d].opened
        BY <2>5, <3>3
      <4> QED BY <2>1, <2>3, <2>5, <4>1, <4>2, <4>3
    <3> QED BY <2>5, <3>1, <3>2, <3>3
  <2> QED BY <2>4, <2>5
<1>3. Stray' BY DEF IInv, Rest, Stray
<1>4. Awaits' /\ Owned' BY DEF IInv, Rest, Awaits, Owned
<1> QED BY <1>1, <1>2, <1>3, <1>4 DEF Rest

\* A step that only loses what was under way.
Loses ==
    /\ UNCHANGED <<cl, h, active, awaiting, streams>>
    /\ \A k \in Conns : up'[k] = up[k] \/ up'[k] = <<>>
    /\ \A k \in Conns : down'[k] = down[k] \/ down'[k] = <<>>

\* Losing messages keeps the invariant.
LEMMA LosesStep ==
    ASSUME IInv, Loses
    PROVE  Rest'
<1> USE DEF Loses
<1>1. Slot' /\ Fresh' BY DEF IInv, Rest, Slot, Fresh
<1>2. Has(<<>>) = FALSE /\ Once(<<>>)
  BY DEF Has, Once
<1>3. AskedOnce'
  BY <1>2, ConnFacts DEF IInv, Rest, AskedOnce
<1>4. Stray' BY DEF IInv, Rest, Stray
<1>5. Awaits' /\ Owned' BY DEF IInv, Rest, Awaits, Owned
<1> QED BY <1>1, <1>3, <1>4, <1>5 DEF Rest

\* What a step of the server does to the queues: it takes a message or loses them,
\* and tells nobody to open streams.
TakesAndTells ==
    /\ \A k \in Conns : up'[k] = up[k] \/ up'[k] = <<>> \/ (up[k] # <<>> /\ up'[k] = Tail(up[k]))
    /\ \A k \in Conns : (Has(down'[k]) => Has(down[k])) /\ (Once(down[k]) => Once(down'[k]))

\* A stray connection's queue stays what it may be.
LEMMA StrayQueue ==
    ASSUME TakesAndTells, Stray
    PROVE  \A k \in Conns : k[2] # 0 => up'[k] = <<>> \/ up'[k] = <<"cookie">>
<1>1. Tail(<<"cookie">>) = <<>>
  OBVIOUS
<1> QED BY <1>1, ZenonT(30) DEF TakesAndTells, Stray

\* A step that tells nobody to open streams, and brings no handler back to its start,
\* asks no client twice.
LEMMA StillAskedOnce ==
    ASSUME AskedOnce, TakesAndTells, cl' = cl,
           \A c \in Clients : h'[Control(c)] \in {"none", "cookie", "params"} =>
                                 h[Control(c)] \in {"none", "cookie", "params"}
    PROVE  AskedOnce'
<1> SUFFICES ASSUME NEW c \in Clients
             PROVE  /\ h'[Control(c)] \in {"none", "cookie", "params"} =>
                           ~Has(down'[Control(c)]) /\ cl'[c].opened = 0 /\ cl'[c].pc # "opening"
                    /\ Has(down'[Control(c)]) => cl'[c].opened = 0 /\ cl'[c].pc # "opening"
                    /\ Once(down'[Control(c)])
  BY DEF AskedOnce
<1>1. Control(c) \in Conns
  BY ConnFacts
<1>2. /\ Has(down'[Control(c)]) => Has(down[Control(c)])
      /\ Once(down[Control(c)]) => Once(down'[Control(c)])
  BY <1>1 DEF TakesAndTells
<1> QED BY <1>2 DEF AskedOnce

\* A session goes on, or fails, and keeps the slot.
Advances(k, y) ==
    /\ UNCHANGED <<cl, active, awaiting, streams>>
    /\ h[k] \in Session /\ h' = [h EXCEPT ![k] = y]
    /\ \/ y = "failing"
       \/ h[k] = "running" /\ y = "results"
       \/ h[k] = "results" /\ y = "done"
    /\ TakesAndTells

\* A session that goes on or fails keeps the invariant.
LEMMA AdvancesStep ==
    ASSUME IInv, NEW k \in Conns, NEW y, Advances(k, y)
    PROVE  Rest'
<1> USE DEF Advances
<1>0. h \in [Conns -> {"none", "cookie", "stream", "ended"} \cup Session]
  BY DEF IInv, TypeOK
<1>a. \A j \in Conns : h'[j] = IF j = k THEN y ELSE h[j]
  BY <1>0
<1>1. Slot' BY <1>a DEF IInv, Rest, Slot, Session
<1>2. \A c \in Clients : \A i \in 1..MaxParallel : <<c, i>> \in Conns /\ Control(c) \in Conns
  BY ConnFacts, ZenonT(30)
<1>3. Fresh' BY <1>a, <1>2 DEF IInv, Rest, Fresh, Session
<1>4. AskedOnce' BY <1>a, ConnFacts DEF IInv, Rest, AskedOnce, Session, TakesAndTells
<1>5. Stray' BY <1>a, StrayQueue DEF IInv, Rest, Stray, Session
<1>6. Awaits' BY <1>a, <1>0, ConnFacts DEF IInv, Rest, Awaits, Slot, Session, TypeOK
<1>7. Owned' BY <1>a DEF IInv, Rest, Owned, Session
<1> QED BY <1>1, <1>3, <1>4, <1>5, <1>6, <1>7 DEF Rest

\* The session asks for streams.
Asks(k) ==
    /\ UNCHANGED <<cl, active, streams>>
    /\ h[k] = "params" /\ k[2] = 0
    /\ h' = [h EXCEPT ![k] = "streams"]
    /\ awaiting' = TRUE
    /\ \A j \in Conns : up'[j] = up[j] \/ (up[j] # <<>> /\ up'[j] = Tail(up[j]))
    /\ \A j \in Conns : j # k => down'[j] = down[j]
    /\ down'[k] = down[k] \/ down'[k] = down[k] \o <<"CREATE_STREAMS">>

\* Asking for streams keeps the invariant.
LEMMA AsksStep ==
    ASSUME IInv, NEW k \in Conns, Asks(k)
    PROVE  Rest'
<1> USE DEF Asks
<1>0. h \in [Conns -> {"none", "cookie", "stream", "ended"} \cup Session]
  BY DEF IInv, TypeOK
<1>a. \A j \in Conns : h'[j] = IF j = k THEN "streams" ELSE h[j]
  BY <1>0
<1>b. k = Control(k[1]) /\ k[1] \in Clients /\ active = k
  BY ConnFacts DEF IInv, Rest, Slot, Session, Control
<1>1. Slot' BY <1>a DEF IInv, Rest, Slot, Session
<1>3. Fresh' BY <1>a, ConnFacts DEF IInv, Rest, Fresh
<1>4. AskedOnce'
  <2>1. down[k] \in Seq(DownMessages) /\ ~Has(down[k]) /\ Once(down[k])
    BY <1>b DEF IInv, Rest, AskedOnce, TypeOK
  <2>2. Once(down'[k])
    BY <2>1, CatOnce, ZenonT(30)
  <2>3. cl[k[1]].opened = 0 /\ cl[k[1]].pc # "opening"
    BY <1>b DEF IInv, Rest, AskedOnce
  <2>4. SUFFICES ASSUME NEW c \in Clients
                 PROVE  /\ h'[Control(c)] \in {"none", "cookie", "params"} =>
                               ~Has(down'[Control(c)]) /\ cl'[c].opened = 0 /\ cl'[c].pc # "opening"
                        /\ Has(down'[Control(c)]) => cl'[c].opened = 0 /\ cl'[c].pc # "opening"
                        /\ Once(down'[Control(c)])
    BY DEF AskedOnce
  <2>5. CASE Control(c) = k
    BY <1>a, <2>2, <2>3, <2>5, ConnFacts
  <2>6. CASE Control(c) # k
    BY <1>a, <2>6, ConnFacts DEF IInv, Rest, AskedOnce
  <2> QED BY <2>5, <2>6
<1>5. Stray'
  <2>1. Tail(<<"cookie">>) = <<>>
    OBVIOUS
  <2>2. SUFFICES ASSUME NEW j \in Conns, j[2] # 0
                 PROVE  /\ h'[j] \notin Session \ {"params", "failing"}
                        /\ up'[j] = <<>> \/ up'[j] = <<"cookie">>
    BY DEF Stray
  <2>3. /\ h[j] \notin Session \ {"params", "failing"}
        /\ up[j] = <<>> \/ up[j] = <<"cookie">>
    BY <2>2 DEF IInv, Rest, Stray
  <2>4. h'[j] = h[j]
    BY <1>a, <2>2
  <2>5. up'[j] = up[j] \/ (up[j] # <<>> /\ up'[j] = Tail(up[j]))
    OBVIOUS
  <2> HIDE DEF Asks
  <2> QED BY <2>1, <2>3, <2>4, <2>5, ZenonT(30)
<1>6. Awaits' BY <1>a, <1>b, ConnFacts, SMTT(30) DEF IInv, Rest, Awaits
<1>7. Owned'
  <2>1. streams[k] = <<>> /\ Params[k[1]].parallel \in 1..MaxParallel
    BY <1>b, ConstantFacts DEF IInv, Rest, Owned
  <2>2. Len(streams[k]) < Params[k[1]].parallel
    BY <2>1
  <2> QED BY <1>a, <2>2 DEF IInv, Rest, Owned
<1> QED BY <1>1, <1>3, <1>4, <1>5, <1>6, <1>7 DEF Rest

\* A session ends and frees the slot.
Frees(k) ==
    /\ UNCHANGED <<cl, streams, down>>
    /\ h[k] \in Session /\ h[k] \in {"done", "failing"} /\ h' = [h EXCEPT ![k] = "ended"]
    /\ active' = None /\ awaiting' = FALSE
    /\ \A j \in Conns : up'[j] = up[j] \/ up'[j] = <<>>

\* Freeing the slot keeps the invariant.
LEMMA FreesStep ==
    ASSUME IInv, NEW k \in Conns, Frees(k)
    PROVE  Rest'
<1> USE DEF Frees
<1>0. h \in [Conns -> {"none", "cookie", "stream", "ended"} \cup Session]
  BY DEF IInv, TypeOK
<1>a. \A j \in Conns : h'[j] = IF j = k THEN "ended" ELSE h[j]
  BY <1>0
<1>b. active = k
  BY DEF IInv, Rest, Slot
<1>1. Slot' BY <1>a, <1>b, ConnFacts DEF IInv, Rest, Slot, Session
<1>3. Fresh' BY <1>a, ConnFacts DEF IInv, Rest, Fresh, Session
<1>4. AskedOnce' BY <1>a, ConnFacts DEF IInv, Rest, AskedOnce, Session
<1>5. Stray' BY <1>a DEF IInv, Rest, Stray, Session
<1>6. Awaits' BY <1>a, <1>b, ConnFacts DEF IInv, Rest, Awaits, Slot, Session
<1>7. Owned' BY <1>a DEF IInv, Rest, Owned, Session
<1> QED BY <1>1, <1>3, <1>4, <1>5, <1>6, <1>7 DEF Rest

\* A connection is turned away before it is anything.
TurnsAway(k) ==
    /\ UNCHANGED <<cl, active, awaiting, streams>>
    /\ h[k] = "cookie" /\ h' = [h EXCEPT ![k] = "ended"]
    /\ TakesAndTells

\* Turning a connection away keeps the invariant.
LEMMA TurnsAwayStep ==
    ASSUME IInv, NEW k \in Conns, TurnsAway(k)
    PROVE  Rest'
<1> USE DEF TurnsAway
<1>0. h \in [Conns -> {"none", "cookie", "stream", "ended"} \cup Session]
  BY DEF IInv, TypeOK
<1>a. \A j \in Conns : h'[j] = IF j = k THEN "ended" ELSE h[j]
  BY <1>0
<1>b. active # k
  BY DEF IInv, Rest, Slot, Session
<1>1. Slot' BY <1>a, <1>b DEF IInv, Rest, Slot, Session
<1>3. Fresh' BY <1>a, ConnFacts DEF IInv, Rest, Fresh
<1>4. AskedOnce' BY <1>a, ConnFacts DEF IInv, Rest, AskedOnce, TakesAndTells
<1>5. Stray' BY <1>a, StrayQueue DEF IInv, Rest, Stray, Session
<1>6. Awaits' BY <1>a, <1>b, ConnFacts DEF IInv, Rest, Awaits, TypeOK
<1>7. Owned' BY <1>a DEF IInv, Rest, Owned
<1> QED BY <1>1, <1>3, <1>4, <1>5, <1>6, <1>7 DEF Rest

\* A connection becomes the session.
Begins(k) ==
    /\ UNCHANGED <<cl, streams>>
    /\ active = None /\ active' = k /\ awaiting' = FALSE
    /\ h[k] = "cookie" /\ h' = [h EXCEPT ![k] = "params"]
    /\ TakesAndTells

\* Beginning a session keeps the invariant.
LEMMA BeginsStep ==
    ASSUME IInv, NEW k \in Conns, Begins(k)
    PROVE  Rest'
<1> USE DEF Begins
<1>0. h \in [Conns -> {"none", "cookie", "stream", "ended"} \cup Session]
  BY DEF IInv, TypeOK
<1>a. \A j \in Conns : h'[j] = IF j = k THEN "params" ELSE h[j]
  BY <1>0
<1>1. Slot' BY <1>a, ConnFacts DEF IInv, Rest, Slot, Session
<1>3. Fresh' BY <1>a, ConnFacts DEF IInv, Rest, Fresh
<1>4. AskedOnce' BY <1>a, ConnFacts DEF IInv, Rest, AskedOnce, TakesAndTells
<1>5. Stray' BY <1>a, StrayQueue DEF IInv, Rest, Stray, Session
<1>6. Awaits' BY <1>a, ConnFacts DEF IInv, Rest, Awaits, Slot, Session
<1>7. Owned' BY <1>a DEF IInv, Rest, Owned
<1> QED BY <1>1, <1>3, <1>4, <1>5, <1>6, <1>7 DEF Rest

\* A data connection joins the session that waits for it; the last one starts the test.
Joins(k) ==
    /\ UNCHANGED <<cl, active>>
    /\ active \in Conns /\ awaiting /\ active[1] = k[1] /\ h[k] = "cookie"
    /\ streams' = [streams EXCEPT ![active] = Append(@, k)]
    /\ \/ /\ h[active] = "streams" => ~(Len(streams[active]) + 1 >= Params[active[1]].parallel)
          /\ h' = [h EXCEPT ![k] = "stream"]
          /\ awaiting' = awaiting
       \/ /\ h[active] = "streams" /\ Len(streams[active]) + 1 >= Params[active[1]].parallel
          /\ h' = [h EXCEPT ![k] = "stream", ![active] = "running"]
          /\ awaiting' = FALSE
    /\ TakesAndTells

\* Joining keeps the invariant.
LEMMA JoinsStep ==
    ASSUME IInv, NEW k \in Conns, Joins(k)
    PROVE  Rest'
<1> USE DEF Joins
<1>0. /\ h \in [Conns -> {"none", "cookie", "stream", "ended"} \cup Session]
      /\ streams \in [Conns -> Seq(Conns)]
  BY DEF IInv, TypeOK
<1>b. h[active] \in Session /\ active # k /\ active[2] = 0 /\ h[active] \in {"streams", "failing"}
  BY DEF IInv, Rest, Slot, Session, Awaits
<1>c. k[2] # 0
  BY <1>b, ConnFacts
<1>a. \/ h'[active] = h[active] /\ awaiting'
         /\ (h[active] = "streams" => ~(Len(streams[active]) + 1 >= Params[active[1]].parallel))
      \/ /\ h'[active] = "running" /\ h[active] = "streams" /\ awaiting' = FALSE
         /\ Len(streams[active]) + 1 >= Params[active[1]].parallel
  BY <1>0, <1>b, ZenonT(30)
<1>d. h'[k] = "stream" /\ \A j \in Conns : j # k /\ j # active => h'[j] = h[j]
  BY <1>0, <1>b, ZenonT(30)
<1> DEFINE s == streams[active]
<1>e. /\ s \in Seq(Conns) /\ Len(s) \in Nat
      /\ Len(streams'[active]) = Len(s) + 1 /\ streams'[active][Len(s) + 1] = k
      /\ \A i \in 1..Len(s) : streams'[active][i] = s[i]
      /\ \A j \in Conns : j # active => streams'[j] = streams[j]
  BY <1>0
<1>1. Slot' BY <1>a, <1>b, <1>d DEF IInv, Rest, Slot, Session
<1>3. Fresh'
  <2>1. \A j \in Conns : h[j] = "none" => h'[j] = "none"
    BY <1>b, <1>d
  <2>2. \A c \in Clients : Control(c) \in Conns /\ \A i \in 1..MaxParallel : <<c, i>> \in Conns
    BY ConnFacts
  <2> QED BY <2>1, <2>2 DEF IInv, Rest, Fresh
<1>4. AskedOnce'
  <2>1. \A c \in Clients : h'[Control(c)] \in {"none", "cookie", "params"} =>
                                h[Control(c)] \in {"none", "cookie", "params"}
    BY <1>a, <1>b, <1>d, ConnFacts
  <2> QED BY <2>1, StillAskedOnce DEF IInv, Rest
<1>5. Stray'
  <2>1. \A j \in Conns : j[2] # 0 => h'[j] \notin Session \ {"params", "failing"}
    BY <1>b, <1>d DEF IInv, Rest, Stray, Session
  <2> QED BY <2>1, StrayQueue DEF IInv, Rest, Stray
<1>6. Awaits'
  <2>1. \A j \in Conns : h[j] = "streams" => j = active
    BY DEF IInv, Rest, Slot, Session
  <2>2. \A j \in Conns : h'[j] = "streams" => j = active /\ h[j] = "streams"
    BY <1>a, <1>d, <2>1
  <2>3. active # None
    BY ConnFacts, SMTT(30)
  <2> QED BY <1>a, <1>b, <2>2, <2>3 DEF Awaits
<1>7. Owned'
  <2> SUFFICES ASSUME NEW j \in Conns
               PROVE  /\ \A i \in 1..Len(streams'[j]) :
                             /\ streams'[j][i] \in Conns /\ streams'[j][i][1] = j[1]
                             /\ streams'[j][i][2] # 0 /\ h'[streams'[j][i]] = "stream"
                      /\ \A i, l \in 1..Len(streams'[j]) : streams'[j][i] = streams'[j][l] => i = l
                      /\ h'[j] \in {"none", "cookie", "params"} => streams'[j] = <<>>
                      /\ h'[j] = "streams" => Len(streams'[j]) < Params[j[1]].parallel
                      /\ h'[j] \in {"running", "results", "done"} =>
                             Len(streams'[j]) = Params[j[1]].parallel
    BY SMTT(30) DEF Owned
  <2>1. /\ \A i \in 1..Len(streams[j]) :
               /\ streams[j][i] \in Conns /\ streams[j][i][1] = j[1] /\ streams[j][i][2] # 0
               /\ h[streams[j][i]] = "stream"
        /\ \A i, l \in 1..Len(streams[j]) : streams[j][i] = streams[j][l] => i = l
        /\ h[j] \in {"none", "cookie", "params"} => streams[j] = <<>>
        /\ h[j] = "streams" => Len(streams[j]) < Params[j[1]].parallel
        /\ h[j] \in {"running", "results", "done"} => Len(streams[j]) = Params[j[1]].parallel
    BY DEF IInv, Rest, Owned
  <2>2. \A x \in Conns : h[x] = "stream" => h'[x] = "stream" /\ x # k
    BY <1>b, <1>d, SMTT(30) DEF Session
  <2>3. CASE j # active
    BY <1>d, <1>e, <2>1, <2>2, <2>3, SMTT(30)
  <2>4. CASE j = active
    <3>1. \A i \in 1..Len(s) : s[i] \in Conns /\ s[i] # k /\ s[i][1] = j[1] /\ s[i][2] # 0 /\ h'[s[i]] = "stream"
      BY <2>1, <2>2, <2>4
    <3>2. \A i \in 1..Len(s) + 1 : i \in 1..Len(s) \/ i = Len(s) + 1
      BY <1>e
    <3>3. \A i \in 1..Len(streams'[j]) :
              /\ streams'[j][i] \in Conns /\ streams'[j][i][1] = j[1]
              /\ streams'[j][i][2] # 0 /\ h'[streams'[j][i]] = "stream"
      BY <1>c, <1>d, <1>e, <2>4, <3>1, <3>2, SMTT(30)
    <3>4. \A i, l \in 1..Len(streams'[j]) : streams'[j][i] = streams'[j][l] => i = l
      BY <1>e, <2>1, <2>4, <3>1, <3>2
    <3>5. Params[j[1]].parallel \in Nat
      BY ConnFacts, ConstantFacts, SMTT(30)
    <3>6. /\ h'[j] \notin {"none", "cookie", "params"}
          /\ h'[j] = "streams" => Len(streams'[j]) < Params[j[1]].parallel
          /\ h'[j] \in {"running", "results", "done"} => Len(streams'[j]) = Params[j[1]].parallel
      BY <1>a, <1>b, <1>e, <2>1, <2>4, <3>5, SMTT(30)
    <3> QED BY <3>3, <3>4, <3>6, Zenon
  <2> QED BY <2>3, <2>4, SMTT(30)
<1> QED BY <1>1, <1>3, <1>4, <1>5, <1>6, <1>7 DEF Rest

\* A client opens a connection it has not used before.
Opens(k) ==
    /\ UNCHANGED <<active, awaiting, streams, down>>
    /\ h[k] = "none" /\ h' = [h EXCEPT ![k] = "cookie"]
    /\ up' = [up EXCEPT ![k] = <<"cookie">>]

\* Opening a connection keeps what the invariant says of the server.
LEMMA OpensStep ==
    ASSUME IInv, NEW k \in Conns, Opens(k)
    PROVE  Slot' /\ Stray' /\ Awaits' /\ Owned'
<1> USE DEF Opens
<1>0. /\ h \in [Conns -> {"none", "cookie", "stream", "ended"} \cup Session]
      /\ up \in [Conns -> Seq(UpMessages)]
  BY DEF IInv, TypeOK
<1>a. \A j \in Conns : h'[j] = IF j = k THEN "cookie" ELSE h[j]
  BY <1>0
<1>b. \A j \in Conns : up'[j] = IF j = k THEN <<"cookie">> ELSE up[j]
  BY <1>0
<1>1. Slot' BY <1>a DEF IInv, Rest, Slot, Session
<1>5. Stray' BY <1>a, <1>b DEF IInv, Rest, Stray, Session
<1>6. Awaits' BY <1>a, ConnFacts DEF IInv, Rest, Awaits, TypeOK
<1>7. Owned' BY <1>a DEF IInv, Rest, Owned
<1> QED BY <1>1, <1>5, <1>6, <1>7

\* run() opens the control connection.
LEMMA StartStep ==
    ASSUME IInv, NEW c \in Clients, Start(c), listening
    PROVE  Rest'
<1>0. /\ h \in [Conns -> {"none", "cookie", "stream", "ended"} \cup Session]
      /\ cl \in [Clients -> ClientRecord] /\ Control(c) \in Conns
  BY ConnFacts DEF IInv, TypeOK
<1>1. cl[c].pc = "idle" /\ h[Control(c)] = "none"
  BY DEF Start, IInv, Rest, Fresh
<1>2. Opens(Control(c))
  BY <1>1 DEF Start, Connect, Opens
<1>3. Slot' /\ Stray' /\ Awaits' /\ Owned'
  BY <1>0, <1>2, OpensStep
<1>4. /\ cl'[c].pc = "reading" /\ cl'[c].opened = cl[c].opened
      /\ \A d \in Clients : d # c => cl'[d] = cl[d]
  BY <1>0 DEF Start, ClientRecord
<1>5. \A j \in Conns : h'[j] = IF j = Control(c) THEN "cookie" ELSE h[j]
  BY <1>0, <1>2 DEF Opens
<1>6. Fresh'
  BY <1>1, <1>4, <1>5, ConnFacts DEF IInv, Rest, Fresh
<1>7. AskedOnce'
  BY <1>1, <1>2, <1>4, <1>5, ConnFacts DEF IInv, Rest, AskedOnce, Opens
<1> QED BY <1>3, <1>6, <1>7 DEF Rest

\* A turn of the loop opens the next data connection.
LEMMA OpenStreamStep ==
    ASSUME IInv, NEW c \in Clients, OpenStream(c), listening
    PROVE  Rest'
<1> DEFINE n == cl[c].opened + 1
           k == <<c, n>>
<1>0. /\ h \in [Conns -> {"none", "cookie", "stream", "ended"} \cup Session]
      /\ cl \in [Clients -> ClientRecord]
  BY DEF IInv, TypeOK
<1>1. /\ cl[c].pc = "opening" /\ cl[c].opened < Params[c].parallel
      /\ \A i \in 1..MaxParallel : cl[c].opened < i => h[<<c, i>>] = "none"
  BY DEF OpenStream, IInv, Rest, Fresh
<1>a. /\ cl[c].opened \in 0..MaxParallel /\ Params[c].parallel \in 1..MaxParallel
      /\ MaxParallel \in Nat
  BY <1>0, ConstantFacts DEF ClientRecord
<1>b. n \in 1..Params[c].parallel /\ n \in 1..MaxParallel /\ k \in Conns /\ h[k] = "none" /\ n \in Nat
  BY <1>1, <1>a, ConnFacts
<1>2. Opens(k)
  BY <1>b DEF OpenStream, Connect, Opens
<1>3. Slot' /\ Stray' /\ Awaits' /\ Owned'
  BY <1>b, <1>2, OpensStep
<1>4. /\ cl'[c].opened = n /\ cl'[c].pc = IF n = Params[c].parallel THEN "reading" ELSE "opening"
      /\ \A d \in Clients : d # c => cl'[d] = cl[d]
  BY <1>0, ZenonT(30) DEF OpenStream, ClientRecord
<1>5. \A j \in Conns : h'[j] = IF j = k THEN "cookie" ELSE h[j]
  BY <1>0, <1>2 DEF Opens
<1>6. Fresh'
  <2> SUFFICES ASSUME NEW d \in Clients
               PROVE  /\ cl'[d].pc = "idle" => h'[Control(d)] = "none"
                      /\ cl'[d].opened <= Params[d].parallel
                      /\ cl'[d].pc = "opening" => cl'[d].opened < Params[d].parallel
                      /\ \A i \in 1..MaxParallel : cl'[d].opened < i => h'[<<d, i>>] = "none"
    BY DEF Fresh
  <2>1. CASE d = c
    BY <1>1, <1>a, <1>b, <1>4, <1>5, <2>1, ConnFacts
  <2>2. CASE d # c
    <3>1. Control(d) # k /\ \A i \in 1..MaxParallel : <<d, i>> # k
      BY <2>2 DEF Control
    <3> QED BY <1>4, <1>5, <2>2, <3>1, ConnFacts DEF IInv, Rest, Fresh
  <2> QED BY <2>1, <2>2
<1>7. AskedOnce'
  <2>1. \A d \in Clients : Control(d) # k /\ h'[Control(d)] = h[Control(d)] /\ down'[Control(d)] = down[Control(d)]
    BY <1>2, <1>5, <1>b, ConnFacts DEF Opens
  <2> QED BY <1>1, <1>4, <2>1 DEF IInv, Rest, AskedOnce
<1> QED BY <1>3, <1>6, <1>7 DEF Rest

-----------------------------------------------------------------------------
(* Every action is a step of one of these kinds, and keeps the types.      *)

\* #cleanup and the loss of a client are quiet.
LEMMA CleanupIsQuiet ==
    ASSUME TypeOK, NEW c \in Clients, NEW o \in {"failed", "finished"}, Cleanup(c, o),
           UNCHANGED <<h, active, awaiting, streams>>,
           \A k \in Conns : k[2] # 0 => up'[k] = up[k]
    PROVE  /\ QuietClient(c)
           /\ cl' \in [Clients -> ClientRecord] /\ cli' \in [Conns -> Ends]
           /\ down' \in [Conns -> Seq(DownMessages)] /\ cerr' = cerr
<1> USE DEF Cleanup
<1>1. cl' \in [Clients -> ClientRecord] /\ cl'[c].opened = cl[c].opened /\ cl'[c].pc = o
      /\ \A d \in Clients : d # c => cl'[d] = cl[d]
  <2> DEFINE r == [cl[c] EXCEPT !.pc = o, !.running = FALSE]
  <2>1. cl \in [Clients -> ClientRecord] /\ cl[c] \in ClientRecord
    BY DEF TypeOK
  <2>2. r \in ClientRecord /\ r.opened = cl[c].opened /\ r.pc = o
    BY <2>1, ZenonT(30) DEF ClientRecord
  <2>3. cl' = [cl EXCEPT ![c] = r]
    OBVIOUS
  <2> HIDE DEF r, Cleanup
  <2> QED BY <2>1, <2>2, <2>3
<1>2. cli' \in [Conns -> Ends]
  BY ShutType, ZenonT(30) DEF TypeOK, Ends
<1>3. down' \in [Conns -> Seq(DownMessages)]
  BY LostType
<1>4. Control(c) \in Of(c) /\ \A d \in Clients : d # c => Control(d) \notin Of(c)
  BY DEF Of, Control, Data
<1>5. down'[Control(c)] = <<>> /\ \A d \in Clients : d # c => down'[Control(d)] = down[Control(d)]
  BY <1>4, ConnFacts DEF Lost
<1> QED BY <1>1, <1>2, <1>3, <1>5, SMTT(30) DEF QuietClient

\* The client's queue after a read.
LEMMA ConsumedFacts ==
    ASSUME TypeOK, NEW c \in Clients, down[Control(c)] # <<>>, down' = Consumed(c)
    PROVE  /\ down' \in [Conns -> Seq(DownMessages)]
           /\ down'[Control(c)] = Tail(down[Control(c)])
           /\ \A d \in Clients : d # c => down'[Control(d)] = down[Control(d)]
  BY ConnFacts DEF TypeOK, Consumed

\* Writing on a control connection does not touch the data connections.
LEMMA SaysOnControl ==
    ASSUME TypeOK, NEW c \in Clients, NEW msg \in UpMessages, up' = Says(Control(c), msg)
    PROVE  /\ up' \in [Conns -> Seq(UpMessages)]
           /\ \A k \in Conns : k[2] # 0 => up'[k] = up[k]
<1>0. up \in [Conns -> Seq(UpMessages)] /\ Control(c) \in Conns
  BY ConnFacts DEF TypeOK
<1>1. /\ Says(Control(c), msg) \in [Conns -> Seq(UpMessages)]
      /\ \A k \in Conns : k # Control(c) => Says(Control(c), msg)[k] = up[k]
  BY <1>0, SaysType
<1> QED BY <1>1, ConnFacts

\* Every step of a client other than opening a connection is quiet.
LEMMA ClientStepIsQuiet ==
    ASSUME TypeOK, NEW c \in Clients,
           \/ OnParamExchange(c) \/ OnCreateStreams(c) \/ OnTestStart(c) \/ OnTestRunning(c)
           \/ EndTest(c) \/ OnExchangeResults(c) \/ ReadRemote(c) \/ OnDisplayResults(c)
           \/ OnRefusal(c) \/ ReadRejected(c) \/ Crash(c)
           \/ StartRejected(c) \/ StreamRejected(c)
    PROVE  QuietClient(c) /\ TypeOK'
<1> USE DEF Reads
<1>0. cl \in [Clients -> ClientRecord] /\ cl[c] \in ClientRecord
  BY SMTT(30) DEF TypeOK
<1>1. CASE OnParamExchange(c)
  <2>1. cl' = cl /\ cl[c].pc = "reading" /\ UNCHANGED <<client, server, faults>>
    BY <1>1, ZenonT(30) DEF OnParamExchange, client
  <2>2. "params" \in UpMessages
    BY DEF UpMessages
  <2>3. QuietClient(c)
    BY <1>1, <2>1, <2>2, ConsumedFacts, SaysOnControl, ZenonT(30) DEF OnParamExchange, QuietClient, server
  <2> QED BY <1>1, <2>1, <2>2, <2>3, ConsumedFacts, SaysOnControl DEF OnParamExchange, TypeOK, client, server
<1>2. CASE OnCreateStreams(c)
  <2>1. cl' \in [Clients -> ClientRecord] /\ cl'[c].opened = cl[c].opened /\ cl'[c].pc = "opening"
        /\ \A d \in Clients : d # c => cl'[d] = cl[d]
    BY <1>0, <1>2 DEF OnCreateStreams, ClientRecord
  <2>2. QuietClient(c)
    BY <1>2, <2>1, ConsumedFacts, SMTT(30) DEF OnCreateStreams, QuietClient, server
  <2> QED BY <1>2, <2>1, <2>2, ConsumedFacts DEF OnCreateStreams, TypeOK, server
<1>3. CASE OnTestStart(c)
  <2>1. QuietClient(c)
    BY <1>3, ConsumedFacts, Zenon DEF OnTestStart, QuietClient, client, server
  <2> QED BY <1>3, <2>1, ConsumedFacts, SMTT(30) DEF OnTestStart, TypeOK, client, server
<1>4. CASE OnTestRunning(c)
  <2>1. cl' \in [Clients -> ClientRecord] /\ cl'[c].opened = cl[c].opened /\ cl'[c].pc = cl[c].pc
        /\ \A d \in Clients : d # c => cl'[d] = cl[d]
    BY <1>0, <1>4, ZenonT(30) DEF OnTestRunning, ClientRecord
  <2>2. QuietClient(c)
    BY <1>4, <2>1, ConsumedFacts DEF OnTestRunning, QuietClient, server
  <2> QED BY <1>4, <2>1, <2>2, ConsumedFacts DEF OnTestRunning, TypeOK, server
<1>5. CASE EndTest(c)
  <2>1. cl' \in [Clients -> ClientRecord] /\ cl'[c].opened = cl[c].opened /\ cl'[c].pc = cl[c].pc
        /\ \A d \in Clients : d # c => cl'[d] = cl[d]
    BY <1>0, <1>5, ZenonT(30) DEF EndTest, ClientRecord
  <2>2. "TEST_END" \in UpMessages
    BY DEF UpMessages
  <2>3. cli' \in [Conns -> Ends]
    BY <1>5, ShutType, ZenonT(30) DEF EndTest, TypeOK, Ends
  <2>4. up' \in [Conns -> Seq(UpMessages)] /\ \A k \in Conns : k[2] # 0 => up'[k] = up[k]
    BY <1>5, <2>2, SaysOnControl DEF EndTest
  <2>5. QuietClient(c)
    BY <1>5, <2>1, <2>2, <2>4 DEF EndTest, QuietClient, server
  <2> QED BY <1>5, <2>1, <2>3, <2>4, <2>5 DEF EndTest, TypeOK, Ends, server
<1>6. CASE OnExchangeResults(c)
  <2>1. CASE Finalized(c) = {}
    <3>0. cl' = [cl EXCEPT ![c] = [@ EXCEPT !.pc = "results", !.running = FALSE, !.ended = TRUE]]
      BY <1>6, <2>1 DEF OnExchangeResults
    <3>1. cl' \in [Clients -> ClientRecord] /\ cl'[c].opened = cl[c].opened /\ cl'[c].pc = "results"
          /\ \A d \in Clients : d # c => cl'[d] = cl[d]
      BY <1>0, <3>0, ZenonT(30) DEF ClientRecord
    <3>2. up' \in [Conns -> Seq(UpMessages)] /\ \A k \in Conns : k[2] # 0 => up'[k] = up[k]
      BY <1>6, <2>1, SaysOnControl DEF OnExchangeResults, UpMessages
    <3>3. QuietClient(c)
      BY <1>6, <2>1, <3>1, <3>2, ConsumedFacts DEF OnExchangeResults, QuietClient, server
    <3> QED BY <1>6, <2>1, <3>1, <3>2, <3>3, ConsumedFacts DEF OnExchangeResults, TypeOK, server
  <2>2. CASE Finalized(c) # {}
    <3>1. Cleanup(c, "failed") /\ UNCHANGED <<up, h, active, awaiting, streams, srv, serr, listening, faults>>
      BY <1>6, <2>2 DEF OnExchangeResults, server
    <3> QED BY <3>1, CleanupIsQuiet DEF TypeOK, Ends
  <2> QED BY <2>1, <2>2
<1>7. CASE ReadRemote(c)
  <2>1. cl' \in [Clients -> ClientRecord] /\ cl'[c].opened = cl[c].opened /\ cl'[c].pc = "reading"
        /\ \A d \in Clients : d # c => cl'[d] = cl[d]
    BY <1>0, <1>7 DEF ReadRemote, ClientRecord
  <2>2. QuietClient(c)
    BY <1>7, <2>1, ConsumedFacts, SMTT(30) DEF ReadRemote, QuietClient, server
  <2> QED BY <1>7, <2>1, <2>2, ConsumedFacts DEF ReadRemote, TypeOK, server
<1>8. CASE OnDisplayResults(c)
  <2>1. up' \in [Conns -> Seq(UpMessages)] /\ \A k \in Conns : k[2] # 0 => up'[k] = up[k]
    BY <1>8, SaysOnControl, ZenonT(30) DEF OnDisplayResults, UpMessages
  <2>2. Cleanup(c, "finished") /\ UNCHANGED <<h, active, awaiting, streams, srv, serr, listening, faults>>
    BY <1>8, Zenon DEF OnDisplayResults, server
  <2> QED BY <2>1, <2>2, CleanupIsQuiet DEF TypeOK, Ends
<1>9. CASE OnRefusal(c) \/ ReadRejected(c) \/ StartRejected(c) \/ StreamRejected(c)
  <2>1. Cleanup(c, "failed") /\ UNCHANGED <<up, h, active, awaiting, streams, srv, serr, listening, faults>>
    BY <1>9 DEF OnRefusal, ReadRejected, StartRejected, StreamRejected, ConnectRejected, server
  <2> QED BY <2>1, CleanupIsQuiet DEF TypeOK, Ends
<1>10. CASE Crash(c)
  <2>1. cl' \in [Clients -> ClientRecord] /\ cl'[c].opened = cl[c].opened /\ cl'[c].pc = "crashed"
        /\ \A d \in Clients : d # c => cl'[d] = cl[d]
    BY <1>0, <1>10, ZenonT(30) DEF Crash, ClientRecord
  <2>2. QuietClient(c)
    BY <1>10, <2>1 DEF Crash, QuietClient, server
  <2>3. faults' \in 0..MaxFaults
    BY <1>10, ConstantFacts DEF Crash, TypeOK
  <2> QED BY <1>10, <2>1, <2>2, <2>3 DEF Crash, TypeOK, server
<1> QED BY <1>1, <1>2, <1>3, <1>4, <1>5, <1>6, <1>7, <1>8, <1>9, <1>10

\* None of the server's other messages asks for streams.
LEMMA OtherMessages ==
    \A m \in {<<"PARAM_EXCHANGE">>, <<"TEST_START", "TEST_RUNNING">>, <<"EXCHANGE_RESULTS">>,
              <<"results", "DISPLAY_RESULTS">>, <<"ACCESS_DENIED">>, <<"SERVER_ERROR">>} :
        m \in Seq(DownMessages) /\ ~Has(m)
<1>1. /\ <<"PARAM_EXCHANGE">> \in Seq(DownMessages) /\ <<"EXCHANGE_RESULTS">> \in Seq(DownMessages)
      /\ <<"ACCESS_DENIED">> \in Seq(DownMessages) /\ <<"SERVER_ERROR">> \in Seq(DownMessages)
      /\ <<"TEST_START", "TEST_RUNNING">> \in Seq(DownMessages)
      /\ <<"results", "DISPLAY_RESULTS">> \in Seq(DownMessages)
  BY DEF DownMessages
<1>2. ~Has(<<"PARAM_EXCHANGE">>) /\ ~Has(<<"EXCHANGE_RESULTS">>)
  BY DEF Has
<1>3. ~Has(<<"ACCESS_DENIED">>) /\ ~Has(<<"SERVER_ERROR">>)
  BY DEF Has
<1>4. ~Has(<<"TEST_START", "TEST_RUNNING">>)
  BY DEF Has
<1>5. ~Has(<<"results", "DISPLAY_RESULTS">>)
  BY DEF Has
<1> QED BY <1>1, <1>2, <1>3, <1>4, <1>5, ZenonT(30)

\* Telling a client something else.
LEMMA TellsOther ==
    ASSUME TypeOK, NEW k \in Conns, NEW m \in Seq(DownMessages), ~Has(m), down' = Tells(k, m)
    PROVE  /\ down' \in [Conns -> Seq(DownMessages)]
           /\ \A j \in Conns : (Has(down'[j]) => Has(down[j])) /\ (Once(down[j]) => Once(down'[j]))
<1>1. down \in [Conns -> Seq(DownMessages)]
  BY DEF TypeOK
<1>2. /\ Tells(k, m) \in [Conns -> Seq(DownMessages)]
      /\ \A j \in Conns : j # k => Tells(k, m)[j] = down[j]
      /\ Tells(k, m)[k] = down[k] \/ Tells(k, m)[k] = down[k] \o m
  BY <1>1, TellsType, SMTT(30)
<1>3. (Once(down[k]) => Once(down[k] \o m)) /\ (Has(down[k] \o m) => Has(down[k]))
  BY <1>1, CatOnce
<1> QED BY <1>2, <1>3, ZenonT(30)

\* Taking a message from a client.
LEMMA TakeUp ==
    ASSUME TypeOK, NEW k \in Conns, up[k] # <<>>, up' = [up EXCEPT ![k] = Tail(@)]
    PROVE  /\ up' \in [Conns -> Seq(UpMessages)]
           /\ \A j \in Conns : up'[j] = up[j] \/ (up[j] # <<>> /\ up'[j] = Tail(up[j]))
  BY SMTT(30) DEF TypeOK

\* handleConnection with a complete cookie joins, turns away or begins.
LEMMA ReadCookieKind ==
    ASSUME IInv, NEW k \in Conns, ReadCookie(k)
    PROVE  (Joins(k) \/ TurnsAway(k) \/ Begins(k)) /\ TypeOK'
<1>0. TypeOK /\ h[k] = "cookie" /\ up[k] # <<>> /\ up' = [up EXCEPT ![k] = Tail(@)]
      /\ UNCHANGED <<cl, cli, cerr, serr, listening, faults>>
  BY DEF ReadCookie, IInv, client
<1>1. /\ up' \in [Conns -> Seq(UpMessages)]
      /\ \A j \in Conns : up'[j] = up[j] \/ (up[j] # <<>> /\ up'[j] = Tail(up[j]))
  BY <1>0, TakeUp, ZenonT(30)
<1>2. CASE AcceptStream(k)
  <2>1. active \in Conns /\ awaiting /\ active[1] = k[1] /\ streams' = [streams EXCEPT ![active] = Append(@, k)]
    BY <1>0, <1>2, SMTT(30) DEF AcceptStream, WantsStream, TypeOK
  <2>2. down' \in [Conns -> Seq(DownMessages)] /\ TakesAndTells
    <3>1. CASE down' = down
      BY <1>0, <1>1, <3>1, SMTT(30) DEF TakesAndTells, TypeOK
    <3>2. CASE down' = Tells(active, <<"TEST_START", "TEST_RUNNING">>)
      BY <1>0, <1>1, <2>1, <3>2, OtherMessages, TellsOther, ZenonT(30) DEF TakesAndTells
    <3> QED BY <1>2, <3>1, <3>2 DEF AcceptStream
  <2>3. Joins(k)
    BY <1>0, <1>2, <2>1, <2>2, ZenonT(30) DEF AcceptStream, Joins
  <2>4. h' \in [Conns -> {"none", "cookie", "stream", "ended"} \cup Session] /\ awaiting' \in BOOLEAN
    BY <1>0, <1>2, <2>1, ZenonT(30) DEF AcceptStream, TypeOK, Session
  <2>5. streams' \in [Conns -> Seq(Conns)]
    BY <1>0, <2>1 DEF TypeOK
  <2> QED BY <1>0, <1>1, <1>2, <2>2, <2>3, <2>4, <2>5, SMTT(30) DEF AcceptStream, TypeOK
<1>3. CASE Deny(k)
  <2>1. down' \in [Conns -> Seq(DownMessages)] /\ TakesAndTells
    BY <1>0, <1>1, <1>3, OtherMessages, TellsOther, ZenonT(30) DEF Deny, TakesAndTells
  <2>2. TurnsAway(k)
    BY <1>0, <1>3, <2>1 DEF Deny, TurnsAway
  <2>3. srv' \in [Conns -> Ends]
    BY <1>0, <1>3, ShutType, ZenonT(30) DEF Deny, TypeOK, Ends
  <2> QED BY <1>0, <1>1, <1>3, <2>1, <2>2, <2>3, ZenonT(30) DEF Deny, TypeOK, Ends
<1>4. CASE BeginSession(k)
  <2>1. down' \in [Conns -> Seq(DownMessages)] /\ TakesAndTells
    BY <1>0, <1>1, <1>4, OtherMessages, TellsOther, ZenonT(30) DEF BeginSession, TakesAndTells
  <2>2. Begins(k)
    BY <1>0, <1>4, <2>1 DEF BeginSession, Begins, Busy
  <2> QED BY <1>0, <1>1, <1>4, <2>1, <2>2, ZenonT(30) DEF BeginSession, TypeOK, Session
<1> QED BY <1>2, <1>3, <1>4 DEF ReadCookie

\* A rejected cookie turns the connection away.
LEMMA CookieRejectedKind ==
    ASSUME IInv, NEW k \in Conns, CookieRejected(k)
    PROVE  TurnsAway(k) /\ TypeOK'
<1>1. /\ up' \in [Conns -> Seq(UpMessages)]
      /\ \A j \in Conns : up'[j] = <<>> \/ up'[j] = up[j]
  BY LostType, SMTT(30) DEF CookieRejected, IInv
<1>2. TurnsAway(k)
  BY <1>1, ZenonT(30) DEF CookieRejected, TurnsAway, TakesAndTells, client
<1>3. srv' \in [Conns -> Ends]
  BY ShutType, ZenonT(30) DEF CookieRejected, IInv, TypeOK, Ends
<1> QED BY <1>1, <1>2, <1>3, ZenonT(30) DEF CookieRejected, IInv, TypeOK, Ends, client

\* The catch of run() advances the session to its failure.
LEMMA FailKind ==
    ASSUME IInv, NEW k \in Conns, h[k] \in Session, Fail(k), UNCHANGED <<cl, active, awaiting, streams>>,
           \A j \in Conns : up'[j] = up[j] \/ (up[j] # <<>> /\ up'[j] = Tail(up[j]))
    PROVE  /\ Advances(k, "failing")
           /\ h' \in [Conns -> {"none", "cookie", "stream", "ended"} \cup Session]
           /\ down' \in [Conns -> Seq(DownMessages)]
<1>1. down' \in [Conns -> Seq(DownMessages)]
      /\ \A j \in Conns : (Has(down'[j]) => Has(down[j])) /\ (Once(down[j]) => Once(down'[j]))
  BY OtherMessages, TellsOther, SMTT(30) DEF Fail, IInv
<1>2. Advances(k, "failing")
  BY <1>1, SMTT(30) DEF Fail, Advances, TakesAndTells
<1>3. h' \in [Conns -> {"none", "cookie", "stream", "ended"} \cup Session]
  BY SMTT(30) DEF Fail, IInv, TypeOK, Session
<1> QED BY <1>1, <1>2, <1>3

\* The parameters are followed by the request for streams, or by the failure; a stray
\* connection has no parameters to send.
LEMMA ReadParamsKind ==
    ASSUME IInv, NEW k \in Conns, ReadParams(k)
    PROVE  (Asks(k) \/ Advances(k, "failing")) /\ TypeOK'
<1>0. TypeOK /\ h[k] = "params" /\ up[k] # <<>> /\ up' = [up EXCEPT ![k] = Tail(@)]
      /\ UNCHANGED <<cl, cli, cerr, srv, active, streams, serr, listening, faults>>
  BY SMTT(30) DEF ReadParams, IInv, client
<1>1. /\ up' \in [Conns -> Seq(UpMessages)]
      /\ \A j \in Conns : up'[j] = up[j] \/ (up[j] # <<>> /\ up'[j] = Tail(up[j]))
  BY <1>0, TakeUp, ZenonT(30)
<1>2. k[2] = 0
  <2>1. Head(<<"cookie">>) = "cookie"
    OBVIOUS
  <2> QED BY <2>1 DEF ReadParams, IInv, Rest, Stray
<1>3. CASE Fail(k) /\ UNCHANGED awaiting
  <2>1. h[k] \in Session
    BY <1>0, SMTT(30) DEF Session
  <2> QED BY <1>0, <1>1, <1>3, <2>1, FailKind DEF TypeOK
<1>4. CASE /\ h' = [h EXCEPT ![k] = "streams"] /\ awaiting' = TRUE
           /\ down' = Tells(k, <<"CREATE_STREAMS">>)
  <2>1. <<"CREATE_STREAMS">> \in Seq(DownMessages) /\ down \in [Conns -> Seq(DownMessages)]
    BY <1>0 DEF DownMessages, TypeOK
  <2> DEFINE m == <<"CREATE_STREAMS">>
  <2>2. /\ down' \in [Conns -> Seq(DownMessages)]
        /\ \A j \in Conns : j # k => down'[j] = down[j]
        /\ down'[k] = down[k] \/ down'[k] = down[k] \o <<"CREATE_STREAMS">>
    <3> HIDE DEF m
    <3>1. /\ Tells(k, m) \in [Conns -> Seq(DownMessages)]
          /\ \A j \in Conns : j # k => Tells(k, m)[j] = down[j]
          /\ Tells(k, m)[k] = down[k] \/ Tells(k, m)[k] = down[k] \o m
      BY <2>1, TellsType, ZenonT(30) DEF m
    <3> QED BY <1>4, <3>1 DEF m
  <2>3. Asks(k)
    BY <1>0, <1>1, <1>2, <1>4, <2>2 DEF Asks
  <2> QED BY <1>0, <1>1, <1>4, <2>2, <2>3 DEF TypeOK, Session
<1> QED BY <1>3, <1>4, ZenonT(30) DEF ReadParams

\* TEST_END advances the session to the exchange of results or to its failure.
LEMMA ReadTestEndKind ==
    ASSUME IInv, NEW k \in Conns, ReadTestEnd(k)
    PROVE  (Advances(k, "results") \/ Advances(k, "failing")) /\ TypeOK'
<1>0. TypeOK /\ h[k] = "running" /\ h[k] \in Session /\ up[k] # <<>> /\ up' = [up EXCEPT ![k] = Tail(@)]
      /\ UNCHANGED <<cl, cli, cerr, active, awaiting, streams, serr, listening, faults>>
  BY DEF ReadTestEnd, IInv, client, Session
<1>1. /\ up' \in [Conns -> Seq(UpMessages)]
      /\ \A j \in Conns : up'[j] = up[j] \/ (up[j] # <<>> /\ up'[j] = Tail(up[j]))
  BY <1>0, TakeUp, ZenonT(30)
<1>2. srv' \in [Conns -> Ends]
  <2>1. srv \in [Conns -> Ends]
    BY <1>0 DEF TypeOK, Ends
  <2>2. srv' = srv \/ srv' = Shut(srv, Members(k))
    BY DEF ReadTestEnd
  <2> QED BY <2>1, <2>2, ShutType
<1>3. CASE Fail(k)
  BY <1>0, <1>1, <1>2, <1>3, FailKind, SMTT(30) DEF TypeOK, Ends
<1>4. CASE h' = [h EXCEPT ![k] = "results"] /\ down' = Tells(k, <<"EXCHANGE_RESULTS">>)
  <2>1. down' \in [Conns -> Seq(DownMessages)] /\ TakesAndTells
    BY <1>0, <1>1, <1>4, OtherMessages, TellsOther, ZenonT(30) DEF TakesAndTells
  <2>2. Advances(k, "results")
    BY <1>0, <1>4, <2>1 DEF Advances
  <2> QED BY <1>0, <1>1, <1>2, <1>4, <2>1, <2>2, ZenonT(30) DEF TypeOK, Ends, Session
<1> QED BY <1>3, <1>4, SMTT(30) DEF ReadTestEnd

\* The client's results advance the session to its last read.
LEMMA ReadResultsKind ==
    ASSUME IInv, NEW k \in Conns, ReadResults(k)
    PROVE  Advances(k, "done") /\ TypeOK'
<1>0. TypeOK /\ h[k] = "results" /\ h[k] \in Session /\ up[k] # <<>> /\ up' = [up EXCEPT ![k] = Tail(@)]
      /\ UNCHANGED <<cl, cli, cerr, srv, active, awaiting, streams, serr, listening, faults>>
  BY DEF ReadResults, IInv, client, Session
<1>1. /\ up' \in [Conns -> Seq(UpMessages)]
      /\ \A j \in Conns : up'[j] = up[j] \/ (up[j] # <<>> /\ up'[j] = Tail(up[j]))
  BY <1>0, TakeUp, ZenonT(30)
<1>2. down' \in [Conns -> Seq(DownMessages)] /\ TakesAndTells
  BY <1>0, <1>1, OtherMessages, TellsOther, ZenonT(30) DEF ReadResults, TakesAndTells
<1>3. Advances(k, "done")
  BY <1>0, <1>2 DEF ReadResults, Advances
<1> QED BY <1>0, <1>1, <1>2, <1>3 DEF ReadResults, TypeOK, Session

\* A failed read advances the session to its failure.
LEMMA SessionRejectedKind ==
    ASSUME IInv, NEW k \in Conns, SessionRejected(k)
    PROVE  Advances(k, "failing") /\ TypeOK'
<1>1. TypeOK /\ h[k] \in Session /\ Fail(k)
      /\ UNCHANGED <<cl, cli, cerr, srv, up, active, awaiting, streams, serr, listening, faults>>
  BY Zenon DEF SessionRejected, IInv, client, Session
<1> QED BY <1>1, FailKind, SMTT(30) DEF TypeOK

\* The finally of run() frees the slot.
LEMMA EndSessionKind ==
    ASSUME IInv, NEW k \in Conns, ReadDone(k) \/ Finish(k)
    PROVE  Frees(k) /\ TypeOK'
<1>1. TypeOK /\ h[k] \in Session /\ h[k] \in {"done", "failing"} /\ EndSession(k)
      /\ UNCHANGED <<cl, cli, cerr, down, streams, serr, listening, faults>>
  BY ZenonT(30) DEF ReadDone, Finish, IInv, client, Session
<1>2. /\ up' \in [Conns -> Seq(UpMessages)]
      /\ \A j \in Conns : up'[j] = <<>> \/ up'[j] = up[j]
  BY <1>1, LostType DEF EndSession
<1>3. srv' \in [Conns -> Ends]
  BY <1>1, ShutType, ZenonT(30) DEF EndSession, TypeOK, Ends
<1>4. Frees(k)
  BY <1>1, <1>2, ZenonT(30) DEF EndSession, Frees
<1> QED BY <1>1, <1>2, <1>3, <1>4, ZenonT(30) DEF EndSession, TypeOK, Ends

\* close() and the failures of connections lose messages.
LEMMA LosesKind ==
    ASSUME IInv,
           \/ Close
           \/ \E k \in Conns : Reset(k)
           \/ \E k \in Conns : \E bc, bs \in BOOLEAN : Break(k, bc, bs)
    PROVE  Loses /\ TypeOK'
<1>0. TypeOK
  BY DEF IInv
<1>1. CASE Close
  <2>1. /\ up' \in [Conns -> Seq(UpMessages)]
        /\ \A j \in Conns : up'[j] = <<>> \/ up'[j] = up[j]
    BY <1>0, <1>1, LostType, ZenonT(30) DEF Close
  <2>2. srv' \in [Conns -> Ends]
    BY <1>0, <1>1, ShutType, ZenonT(30) DEF Close, TypeOK, Ends
  <2> QED BY <1>0, <1>1, <2>1, <2>2, ZenonT(30) DEF Close, Loses, TypeOK, Ends, client
<1>2. CASE \E k \in Conns : Reset(k)
  <2> PICK k \in Conns : Reset(k)
    BY <1>2
  <2>1. /\ up' \in [Conns -> Seq(UpMessages)]
        /\ \A j \in Conns : up'[j] = <<>> \/ up'[j] = up[j]
    BY <1>0, LostType, ZenonT(30) DEF Reset
  <2>2. /\ down' \in [Conns -> Seq(DownMessages)]
        /\ \A j \in Conns : down'[j] = <<>> \/ down'[j] = down[j]
    BY <1>0, LostType, SMTT(30) DEF Reset
  <2>3. srv' \in [Conns -> Ends] /\ cli' \in [Conns -> Ends]
    BY <1>0, ShutType, ZenonT(30) DEF Reset, TypeOK, Ends
  <2>4. faults' \in 0..MaxFaults /\ cerr' \subseteq Conns
    <3>1. faults \in 0..MaxFaults /\ cerr \subseteq Conns
      BY <1>0 DEF TypeOK
    <3>2. cerr' = cerr \/ cerr' = cerr \cup {k}
      BY ZenonT(30) DEF Reset
    <3>3. faults < MaxFaults /\ faults' = faults + 1
      BY SMTT(30) DEF Reset
    <3> QED BY <3>1, <3>2, <3>3, ConstantFacts
  <2>5. Loses
    BY <2>1, <2>2, ZenonT(30) DEF Reset, Loses
  <2> QED BY <1>0, <2>1, <2>2, <2>3, <2>4, <2>5, ZenonT(30) DEF Reset, TypeOK, Ends
<1>3. CASE \E k \in Conns : \E bc, bs \in BOOLEAN : Break(k, bc, bs)
  <2> PICK k \in Conns, bc \in BOOLEAN, bs \in BOOLEAN : Break(k, bc, bs)
    BY <1>3
  <2>1. srv' \in [Conns -> Ends] /\ cli' \in [Conns -> Ends]
    BY <1>0, ShutType, ZenonT(30) DEF Break, TypeOK, Ends
  <2>2. faults' \in 0..MaxFaults /\ cerr' \subseteq Conns /\ serr' \subseteq Conns
    <3>1. faults \in 0..MaxFaults /\ cerr \subseteq Conns /\ serr \subseteq Conns
      BY <1>0 DEF TypeOK
    <3>2. /\ cerr' = cerr \/ cerr' = cerr \cup {k}
          /\ serr' = serr \/ serr' = serr \cup {k}
      BY SMTT(30) DEF Break
    <3>3. faults < MaxFaults /\ faults' = faults + 1
      BY SMTT(30) DEF Break
    <3>4. faults' \in 0..MaxFaults
      BY <3>1, <3>3, ConstantFacts, SMTT(30)
    <3> QED BY <3>1, <3>2, <3>4
  <2>3. Loses
    BY SMTT(30) DEF Break, Loses
  <2> QED BY <1>0, <2>1, <2>2, <2>3, ZenonT(30) DEF Break, TypeOK, Ends
<1> QED BY <1>1, <1>2, <1>3

\* A client that has not opened all its streams has a number left for the next.
LEMMA NextStream ==
    ASSUME NEW m \in Nat, NEW p \in 1..m, NEW n \in 0..m, n < p
    PROVE  n + 1 \in 1..m /\ n + 1 \in 0..m
  OBVIOUS

\* A connection that is opened has its types.
LEMMA ConnectKind ==
    ASSUME IInv, NEW c \in Clients, listening, Start(c) \/ OpenStream(c)
    PROVE  TypeOK'
<1>0. TypeOK /\ cl \in [Clients -> ClientRecord] /\ cl[c] \in ClientRecord
  BY DEF IInv, TypeOK
<1>a. cl[c].opened \in 0..MaxParallel
  BY <1>0 DEF ClientRecord
<1>1. \E k \in Conns : Connect(k) /\ down' = down
  <2>1. CASE Start(c)
    BY <2>1, ConnFacts DEF Start
  <2>2. CASE OpenStream(c)
    <3>1. cl[c].opened < Params[c].parallel /\ Params[c].parallel \in 1..MaxParallel /\ MaxParallel \in Nat
      BY <2>2, ConstantFacts, SMTT(30) DEF OpenStream, IInv, Rest, Fresh
    <3>2. cl[c].opened + 1 \in 1..MaxParallel
      BY <1>a, <3>1, NextStream
    <3> QED BY <2>2, <3>2, ConnFacts DEF OpenStream
  <2> QED BY <2>1, <2>2
<1>2. cl' \in [Clients -> ClientRecord]
  <2>1. CASE Start(c)
    BY <1>0, <2>1 DEF Start, ClientRecord
  <2>2. CASE OpenStream(c)
    <3>1. cl[c].opened < Params[c].parallel /\ Params[c].parallel \in 1..MaxParallel /\ MaxParallel \in Nat
      BY <2>2, ConstantFacts, SMTT(30) DEF OpenStream, IInv, Rest, Fresh
    <3>2. cl[c].opened + 1 \in 0..MaxParallel
      BY <1>a, <3>1, NextStream
    <3> DEFINE pc == IF cl[c].opened + 1 = Params[c].parallel THEN "reading" ELSE "opening"
               n == cl[c].opened + 1
    <3>3. cl' = [cl EXCEPT ![c] = [@ EXCEPT !.opened = n, !.pc = pc]]
      BY <2>2, SMTT(30) DEF OpenStream
    <3>4. pc \in {"reading", "opening"} /\ n \in 0..MaxParallel
      BY <3>2
    <3> HIDE DEF pc, n
    <3> QED BY <1>0, <3>3, <3>4, ZenonT(30) DEF ClientRecord
  <2> QED BY <2>1, <2>2
<1>3. PICK k \in Conns : Connect(k) /\ down' = down
  BY <1>1
<1>4. up' \in [Conns -> Seq(UpMessages)]
  <2>1. <<"cookie">> \in Seq(UpMessages) /\ up \in [Conns -> Seq(UpMessages)]
    BY <1>0 DEF TypeOK, UpMessages
  <2> QED BY <1>3, <2>1 DEF Connect
<1>5. cli' \in [Conns -> Ends] /\ srv' \in [Conns -> Ends]
      /\ h' \in [Conns -> {"none", "cookie", "stream", "ended"} \cup Session]
  BY <1>0, <1>3 DEF Connect, TypeOK, Ends
<1> QED BY <1>0, <1>2, <1>3, <1>4, <1>5 DEF Connect, TypeOK, Ends

-----------------------------------------------------------------------------
\* The invariant holds before anything has happened.
LEMMA Initial == Init => IInv
<1> SUFFICES ASSUME Init PROVE IInv
  OBVIOUS
<1>1. TypeOK
  <2>1. [pc |-> "idle", opened |-> 0, running |-> FALSE, ended |-> FALSE] \in ClientRecord
    BY ConstantFacts DEF ClientRecord
  <2>2. <<>> \in Seq(UpMessages) /\ <<>> \in Seq(DownMessages) /\ <<>> \in Seq(Conns)
    OBVIOUS
  <2>3. cl \in [Clients -> ClientRecord]
    BY <2>1 DEF Init
  <2>4. /\ up \in [Conns -> Seq(UpMessages)] /\ down \in [Conns -> Seq(DownMessages)]
        /\ streams \in [Conns -> Seq(Conns)]
    BY <2>2 DEF Init
  <2>5. /\ cli \in [Conns -> {"none", "open", "shut"}] /\ srv \in [Conns -> {"none", "open", "shut"}]
        /\ h \in [Conns -> {"none", "cookie", "stream", "ended"} \cup Session]
    BY DEF Init
  <2>6. /\ active \in Conns \cup {None} /\ cerr \subseteq Conns /\ serr \subseteq Conns
        /\ awaiting \in BOOLEAN /\ listening \in BOOLEAN
    BY ZenonT(30) DEF Init
  <2>7. faults \in 0..MaxFaults
    BY ConstantFacts, SMTT(30) DEF Init
  <2> QED BY <2>3, <2>4, <2>5, <2>6, <2>7 DEF TypeOK
<1>2. \A k \in Conns : h[k] = "none" /\ up[k] = <<>> /\ down[k] = <<>> /\ streams[k] = <<>>
  BY DEF Init
<1>3. ~Has(<<>>) /\ Once(<<>>)
  BY DEF Has, Once
<1>4. Slot /\ Stray /\ Awaits
  BY <1>2, ConnFacts DEF Init, Slot, Stray, Awaits, Session
<1>5. Fresh
  BY <1>2, ConnFacts, ConstantFacts, SMTT(30) DEF Init, Fresh
<1>6. AskedOnce
  BY <1>2, <1>3, ConnFacts, SMTT(30) DEF Init, AskedOnce
<1>7. Owned
  BY <1>2, SMTT(30) DEF Owned
<1> QED BY <1>1, <1>4, <1>5, <1>6, <1>7 DEF IInv, Rest

\* The kinds of steps cover Next.
LEMMA StepKinds ==
    ASSUME IInv, Next
    PROVE  /\ TypeOK'
           /\ \/ \E c \in Clients : QuietClient(c)
              \/ Loses
              \/ \E c \in Clients : listening /\ (Start(c) \/ OpenStream(c))
              \/ \E k \in Conns :
                    \/ Joins(k) \/ TurnsAway(k) \/ Begins(k) \/ Asks(k) \/ Frees(k)
                    \/ Advances(k, "results") \/ Advances(k, "done") \/ Advances(k, "failing")
<1>0. TypeOK
  BY SMTT(30) DEF IInv
<1>1. CASE \E c \in Clients : Start(c) \/ StartRejected(c) \/ ClientStep(c) \/ Crash(c)
  <2> PICK c \in Clients : Start(c) \/ StartRejected(c) \/ ClientStep(c) \/ Crash(c)
    BY <1>1
  <2>1. CASE listening /\ (Start(c) \/ OpenStream(c))
    BY <2>1, ConnectKind
  <2>2. CASE ~(listening /\ (Start(c) \/ OpenStream(c)))
    <3>0. Start(c) \/ OpenStream(c) => listening
      BY DEF Start, OpenStream
    <3>1. \/ OnParamExchange(c) \/ OnCreateStreams(c) \/ OnTestStart(c) \/ OnTestRunning(c)
          \/ EndTest(c) \/ OnExchangeResults(c) \/ ReadRemote(c) \/ OnDisplayResults(c)
          \/ OnRefusal(c) \/ ReadRejected(c) \/ Crash(c)
          \/ StartRejected(c) \/ StreamRejected(c)
      BY <2>2, <3>0, SMTT(30) DEF ClientStep
    <3> QED BY <1>0, <3>1, ClientStepIsQuiet
  <2> QED BY <2>1, <2>2
<1>2. CASE \E k \in Conns : ServerStep(k)
  <2> PICK k \in Conns : ServerStep(k)
    BY <1>2
  <2>1. CASE ReadCookie(k)      BY <2>1, ReadCookieKind
  <2>2. CASE CookieRejected(k)  BY <2>2, CookieRejectedKind
  <2>3. CASE ReadParams(k)      BY <2>3, ReadParamsKind
  <2>4. CASE ReadTestEnd(k)     BY <2>4, ReadTestEndKind
  <2>5. CASE ReadResults(k)     BY <2>5, ReadResultsKind
  <2>6. CASE SessionRejected(k) BY <2>6, SessionRejectedKind
  <2>7. CASE ReadDone(k) \/ Finish(k) BY <2>7, EndSessionKind
  <2> QED BY <2>1, <2>2, <2>3, <2>4, <2>5, <2>6, <2>7, ZenonT(30) DEF ServerStep
<1>3. CASE \/ Close
           \/ \E k \in Conns : Reset(k)
           \/ \E k \in Conns : \E bc, bs \in BOOLEAN : Break(k, bc, bs)
  BY <1>3, LosesKind
<1> QED BY <1>1, <1>2, <1>3 DEF Next, Fault

\* The invariant is inductive.
LEMMA Inductive == IInv /\ [Next]_vars => IInv'
<1>1. ASSUME IInv, Next PROVE IInv'
  <2>1. CASE \E c \in Clients : QuietClient(c)
    BY <1>1, <2>1, StepKinds, QuietClientStep DEF IInv
  <2>2. CASE Loses
    BY <1>1, <2>2, StepKinds, LosesStep DEF IInv
  <2>3. CASE \E c \in Clients : listening /\ (Start(c) \/ OpenStream(c))
    BY <1>1, <2>3, StepKinds, StartStep, OpenStreamStep DEF IInv
  <2>4. CASE \E k \in Conns :
                \/ Joins(k) \/ TurnsAway(k) \/ Begins(k) \/ Asks(k) \/ Frees(k)
                \/ Advances(k, "results") \/ Advances(k, "done") \/ Advances(k, "failing")
    BY <1>1, <2>4, StepKinds, JoinsStep, TurnsAwayStep, BeginsStep, AsksStep, FreesStep, AdvancesStep DEF IInv
  <2> QED BY <1>1, <2>1, <2>2, <2>3, <2>4, StepKinds
<1>2. ASSUME IInv, UNCHANGED vars PROVE IInv'
  <2>1. TypeOK'
    BY <1>2, SMTT(30) DEF vars, IInv, TypeOK
  <2>2. Slot' /\ Fresh' /\ Awaits'
    BY <1>2, SMTT(30) DEF vars, IInv, Rest, Slot, Fresh, Awaits
  <2>3. AskedOnce' /\ Stray'
    BY <1>2, SMTT(30) DEF vars, IInv, Rest, AskedOnce, Stray
  <2>4. Owned'
    BY <1>2, SMTT(30) DEF vars, IInv, Rest, Owned
  <2> QED BY <2>1, <2>2, <2>3, <2>4, SMTT(30) DEF IInv, Rest
<1> QED BY <1>1, <1>2

\* The invariant always holds.
LEMMA Invariance == Spec => []IInv
  BY Initial, Inductive, PTL DEF Spec

-----------------------------------------------------------------------------
\* Every variable keeps its type: no client opens more connections than it may.
THEOREM TypeCorrect == Spec => []TypeOK
<1>1. IInv => TypeOK
  BY DEF IInv
<1> QED BY <1>1, Invariance, PTL

\* ServerCore runs one test at a time, whatever fails, disconnects or arrives.
THEOREM OneTestAtATime == Spec => []OneTest
<1>1. IInv => OneTest
  BY ConnFacts DEF IInv, Rest, Slot, OneTest, TypeOK
<1> QED BY <1>1, Invariance, PTL

\* A data connection that is taken for a control connection gets nowhere.
THEOREM StraysGoNowhere == Spec => []StrayGoesNowhere
<1>1. IInv => StrayGoesNowhere
  BY DEF IInv, Rest, Stray, StrayGoesNowhere
<1> QED BY <1>1, Invariance, PTL

\* n distinct members of a set of n elements are all of them.
LEMMA AllOfThem ==
    ASSUME NEW n \in Nat, NEW f, NEW S, IsFiniteSet(S), Cardinality(S) = n,
           \A i \in 1..n : f[i] \in S,
           \A i, j \in 1..n : f[i] = f[j] => i = j
    PROVE  {f[i] : i \in 1..n} = S
<1> DEFINE g == [i \in 1..n |-> f[i]]
           R == {f[i] : i \in 1..n}
<1>1. IsFiniteSet(1..n) /\ Cardinality(1..n) = n
  BY FS_Interval, SMTT(30)
<1>2. g \in Bijection(1..n, R)
  <2>1. g \in [1..n -> R]
    OBVIOUS
  <2>2. \A a, b \in 1..n : g[a] = g[b] => a = b
    OBVIOUS
  <2>3. \A t \in R : \E i \in 1..n : g[i] = t
    OBVIOUS
  <2> QED BY <2>1, <2>2, <2>3 DEF Bijection, Injection, Surjection, IsInjective
<1>3. IsFiniteSet(R) /\ Cardinality(R) = n
  <2>1. ExistsBijection(1..n, R)
    BY <1>2 DEF ExistsBijection
  <2> HIDE DEF R
  <2> QED BY <1>1, <2>1, FS_Bijection
<1>4. R \subseteq S
  OBVIOUS
<1>5. R = S
  <2> HIDE DEF R
  <2>1. R \in SUBSET S
    BY <1>4
  <2> QED BY <1>3, <2>1, FS_Subset
<1> QED BY <1>5

\* Distinct data connections of the client, as many as it opens, are all it opens.
LEMMA ExactStreams == IInv => StreamsExact
<1>1. ASSUME IInv PROVE StreamsExact
  <2> SUFFICES ASSUME NEW k \in Conns, h[k] \in {"running", "results", "done"}
               PROVE  /\ Len(streams[k]) = Params[k[1]].parallel
                      /\ Members(k) = {<<k[1], i>> : i \in 1..Params[k[1]].parallel}
    BY DEF StreamsExact
  <2> DEFINE c == k[1]
             n == Params[c].parallel
             s == streams[k]
             S == {<<c, i>> : i \in 1..n}
  <2>1. c \in Clients /\ n \in 1..MaxParallel /\ n \in Nat /\ MaxParallel \in Nat
    <3>1. c \in Clients
      BY ConnFacts, Zenon
    <3>2. n \in 1..MaxParallel /\ MaxParallel \in Nat
      BY <3>1, ConstantFacts, Zenon
    <3> HIDE DEF n
    <3> QED BY <3>1, <3>2
  <2>2. s \in Seq(Conns) /\ Len(s) = n /\ DOMAIN s = 1..n
    BY <1>1, <2>1, SMTT(30) DEF IInv, TypeOK, Rest, Owned
  <2>3. \A i \in 1..n : s[i] \in S
    <3> TAKE i \in 1..n
    <3>1. s[i] \in Conns /\ s[i][1] = c /\ s[i][2] # 0 /\ h[s[i]] = "stream"
      BY <1>1, <2>2, SMTT(30) DEF IInv, Rest, Owned
    <3>2. s[i] = <<c, s[i][2]>> /\ s[i][2] \in 1..MaxParallel
      BY <2>1, <3>1, ConnFacts, SMTT(30)
    <3>3. cl[c].opened <= n /\ cl[c].opened \in Nat
      BY <1>1, <2>1, SMTT(30) DEF IInv, Rest, Fresh, TypeOK, ClientRecord
    <3> DEFINE x == s[i][2]
    <3>a. ~(cl[c].opened < x)
      <4>1. h[<<c, x>>] = "stream" /\ x \in 1..MaxParallel
        BY <3>1, <3>2, SMTT(30)
      <4> HIDE DEF x, c
      <4>2. \A j \in 1..MaxParallel : cl[c].opened < j => h[<<c, j>>] = "none"
        BY <1>1, <2>1, SMTT(30) DEF IInv, Rest, Fresh
      <4> QED BY <4>1, <4>2, SMTT(30)
    <3>4. s[i][2] \in 1..n
      BY <2>1, <3>2, <3>3, <3>a, SMTT(30)
    <3> QED BY <3>2, <3>4, SMTT(30)
  <2>4. \A i, j \in 1..n : s[i] = s[j] => i = j
    BY <1>1, <2>2, SMTT(30) DEF IInv, Rest, Owned
  <2>5. IsFiniteSet(S) /\ Cardinality(S) = n
    <3> DEFINE g == [i \in 1..n |-> <<c, i>>]
    <3>1. g \in Bijection(1..n, S)
      <4>1. g \in [1..n -> S]
        BY SMTT(30)
      <4>2. \A a, b \in 1..n : g[a] = g[b] => a = b
        OBVIOUS
      <4>3. \A t \in S : \E i \in 1..n : g[i] = t
        OBVIOUS
      <4> HIDE DEF S
      <4> QED BY <4>1, <4>2, <4>3, SMTT(30) DEF Bijection, Injection, Surjection, IsInjective
    <3>2. IsFiniteSet(1..n) /\ Cardinality(1..n) = n
      <4>1. n \in Nat
        BY <2>1, SMTT(30)
      <4> HIDE DEF n
      <4> QED BY <4>1, FS_Interval
    <3>3. ExistsBijection(1..n, S)
      BY <3>1, SMTT(30) DEF ExistsBijection
    <3> HIDE DEF S
    <3> QED BY <3>2, <3>3, FS_Bijection, SMTT(30)
  <2>6. {s[i] : i \in 1..n} = S
    <3> HIDE DEF S, s, n
    <3> QED BY <2>1, <2>3, <2>4, <2>5, AllOfThem
  <2> QED BY <2>2, <2>6 DEF Members
<1> QED BY <1>1

\* A test that runs has exactly the data connections of its client: each one of them
\* that the client was asked for, once.
THEOREM StreamsAreExact == Spec => []StreamsExact
  BY ExactStreams, Invariance, PTL

-----------------------------------------------------------------------------
(* The server implements TestContract.                                     *)

\* The phase of a session, for every place its handler may be at.
LEMMA Phases ==
    /\ PhaseOf("params") = "setup" /\ PhaseOf("streams") = "setup"
    /\ PhaseOf("running") = "running" /\ PhaseOf("failing") = "failing"
    /\ PhaseOf("results") = "reporting" /\ PhaseOf("done") = "reporting"
  BY SMTT(30) DEF PhaseOf

\* The set of members grows with the sequence of streams.
LEMMA MembersAppend ==
    ASSUME NEW s \in Seq(Conns), NEW k
    PROVE  {Append(s, k)[i] : i \in DOMAIN Append(s, k)} = {s[i] : i \in DOMAIN s} \cup {k}
<1>1. DOMAIN s = 1..Len(s) /\ Len(s) \in Nat /\ DOMAIN Append(s, k) = 1..(Len(s) + 1)
      /\ Append(s, k)[Len(s) + 1] = k
      /\ \A i \in 1..Len(s) : Append(s, k)[i] = s[i]
  BY SMTT(30)
<1> QED BY <1>1, SMTT(30)

\* Every step is a step of the contract, or none.
LEMMA ContractStep ==
    ASSUME IInv, IInv', Next
    PROVE  [Contract!Next]_(Contract!vars)
<1> DEFINE Same == /\ active' = active
                   /\ active # None => h'[active] = h[active] /\ streams'[active] = streams[active]
<1>s. ASSUME Same PROVE UNCHANGED Contract!vars
  BY <1>s, SMTT(30) DEF Contract!vars, Members
<1>0. active \in Conns \cup {None} /\ streams \in [Conns -> Seq(Conns)]
      /\ h \in [Conns -> {"none", "cookie", "stream", "ended"} \cup Session]
  BY SMTT(30) DEF IInv, TypeOK
<1>1. CASE \E c \in Clients : QuietClient(c)
  BY <1>1, <1>s DEF QuietClient
<1>2. CASE Loses
  BY <1>2, <1>s DEF Loses
<1>3. CASE \E c \in Clients : listening /\ (Start(c) \/ OpenStream(c))
  <2>1. PICK k \in Conns : h[k] = "none" /\ h' = [h EXCEPT ![k] = "cookie"] /\ UNCHANGED <<active, streams>>
    <3> PICK c \in Clients : listening /\ (Start(c) \/ OpenStream(c))
      BY <1>3
    <3>1. CASE Start(c)
      <4>1. h[Control(c)] = "none" /\ Control(c) \in Conns
        BY <3>1, ConnFacts DEF Start, IInv, Rest, Fresh
      <4> QED BY <3>1, <4>1 DEF Start, Connect
    <3>2. CASE OpenStream(c)
      <4>1. /\ cl[c].opened < Params[c].parallel /\ Params[c].parallel \in 1..MaxParallel
            /\ MaxParallel \in Nat /\ cl[c].opened \in 0..MaxParallel
        BY <3>2, ConstantFacts, SMTT(30) DEF OpenStream, IInv, Rest, Fresh, TypeOK, ClientRecord
      <4>2. cl[c].opened + 1 \in 1..MaxParallel /\ cl[c].opened < cl[c].opened + 1
        BY <4>1, SMTT(30)
      <4>3. <<c, cl[c].opened + 1>> \in Conns /\ h[<<c, cl[c].opened + 1>>] = "none"
        BY <4>2, ConnFacts DEF IInv, Rest, Fresh
      <4>4. h' = [h EXCEPT ![<<c, cl[c].opened + 1>>] = "cookie"] /\ UNCHANGED <<active, streams>>
        BY <3>2, Zenon DEF OpenStream, Connect
      <4> QED BY <4>3, <4>4, Zenon
    <3> QED BY <3>1, <3>2
  <2>2. active # k
    BY <2>1 DEF IInv, Rest, Slot, Session
  <2> QED BY <1>0, <1>s, <2>1, <2>2
<1>4. ASSUME NEW k \in Conns, TurnsAway(k) PROVE UNCHANGED Contract!vars
  <2>1. active # k
    BY <1>4 DEF TurnsAway, IInv, Rest, Slot, Session
  <2> QED BY <1>0, <1>4, <1>s, <2>1 DEF TurnsAway
<1>5. ASSUME NEW k \in Conns, Begins(k) PROVE Contract!Next
  <2>1. active = None /\ active' = k /\ h'[k] = "params" /\ streams'[k] = <<>> /\ k # None
    BY <1>0, <1>5, ConnFacts, SMTT(30) DEF Begins, IInv, Rest, Owned
  <2>2. Contract!Begin(k)
    BY <2>1, Phases, SMTT(30) DEF Contract!Begin, Members
  <2> QED BY <2>2, SMTT(30) DEF Contract!Next
<1>6. ASSUME NEW k \in Conns, Asks(k) PROVE UNCHANGED Contract!vars
  <2>1. active = k /\ active' = k /\ h[k] = "params" /\ h'[k] = "streams" /\ streams' = streams /\ k # None
    BY <1>0, <1>6, ConnFacts DEF Asks, IInv, Rest, Slot, Session
  <2> QED BY <2>1, Phases, SMTT(30) DEF Contract!vars, Members
<1>7. ASSUME NEW k \in Conns, Frees(k) PROVE Contract!Next
  <2>0. active = k /\ active' = None /\ h[k] \in {"done", "failing"} /\ k # None
    BY <1>7, ConnFacts, SMTT(30) DEF Frees, IInv, Rest, Slot
  <2>1. Contract!Release
    BY <2>0, Phases, SMTT(30) DEF Contract!Release
  <2> QED BY <2>1, SMTT(30) DEF Contract!Next
<1>8. ASSUME NEW k \in Conns, NEW y \in {"results", "done", "failing"}, Advances(k, y)
      PROVE  [Contract!Next]_(Contract!vars)
  <2>1. active = k /\ active' = k /\ h'[k] = y /\ streams' = streams /\ k # None /\ h[k] \in Session
    BY <1>0, <1>8, ConnFacts DEF Advances, IInv, Rest, Slot
  <2>2. CASE y = "results" /\ h[k] = "running"
    <3>1. Contract!Report
      BY <2>1, <2>2, Phases, SMTT(30) DEF Contract!Report, Members
    <3> QED BY <3>1, SMTT(30) DEF Contract!Next
  <2>3. CASE y = "done" /\ h[k] = "results"
    BY <2>1, <2>3, Phases, SMTT(30) DEF Contract!vars, Members
  <2>4. CASE y = "failing" /\ h[k] = "failing"
    BY <2>1, <2>4 DEF Contract!vars, Members
  <2>5. CASE y = "failing" /\ h[k] # "failing"
    <3>1. Contract!GiveUp
      BY <2>1, <2>5, Phases DEF Contract!GiveUp, Members, Session
    <3> QED BY <3>1, SMTT(30) DEF Contract!Next
  <2> QED BY <1>8, <2>2, <2>3, <2>4, <2>5, SMTT(30) DEF Advances
<1>9. ASSUME NEW k \in Conns, Joins(k) PROVE Contract!Next
  <2>1. active \in Conns /\ active' = active /\ active # None /\ active[1] = k[1] /\ awaiting
    BY <1>9, ConnFacts, SMTT(30) DEF Joins
  <2>2. h[active] \in {"streams", "failing"} /\ h[k] = "cookie" /\ active # k
    BY <1>9, <2>1, SMTT(30) DEF Joins, IInv, Rest, Awaits
  <2>3. h'[active] = h[active] \/ (h[active] = "streams" /\ h'[active] = "running")
    BY <1>0, <1>9, <2>1, <2>2, ZenonT(30) DEF Joins
  <2>4. streams'[active] = Append(streams[active], k)
    BY <1>0, <1>9, <2>1 DEF Joins
  <2>5. Members(active)' = Members(active) \cup {k}
    <3> DEFINE s == streams[active]
    <3>1. s \in Seq(Conns)
      BY <1>0, <2>1
    <3>2. {Append(s, k)[i] : i \in DOMAIN Append(s, k)} = {s[i] : i \in DOMAIN s} \cup {k}
      BY <3>1, MembersAppend, ZenonT(30)
    <3>3. Members(active) = {s[i] : i \in DOMAIN s}
      BY DEF Members
    <3>4. Members(active)' = {Append(s, k)[i] : i \in DOMAIN Append(s, k)}
      BY <2>1, <2>4 DEF Members
    <3> QED BY <3>2, <3>3, <3>4
  <2>6. k \notin Members(active)
    <3>1. \A i \in DOMAIN streams[active] : h[streams[active][i]] = "stream"
      <4>1. DOMAIN streams[active] = 1..Len(streams[active])
        BY <1>0, <2>1, SMTT(30)
      <4>2. \A i \in 1..Len(streams[active]) : h[streams[active][i]] = "stream"
        BY <2>1, SMTT(30) DEF IInv, Rest, Owned
      <4> QED BY <4>1, <4>2
    <3> QED BY <2>2, <3>1 DEF Members
  <2>7. Contract!Join(k)
    BY <2>1, <2>2, <2>3, <2>5, <2>6, Phases DEF Contract!Join
  <2> QED BY <2>7, SMTT(30) DEF Contract!Next
<1> QED BY StepKinds, <1>1, <1>2, <1>3, <1>4, <1>5, <1>6, <1>7, <1>8, <1>9

\* The server keeps the promise of TestContract: one holder at a time, joined by its
\* own data connections while it is being set up, run, reported and released in order.
THEOREM ServerImplementsContract == Spec => ImplementsContract
<1>1. Init => Contract!Init
  BY DEF Init, Contract!Init
<1>2. IInv /\ IInv' /\ [Next]_vars => [Contract!Next]_(Contract!vars)
  <2>1. ASSUME UNCHANGED vars PROVE UNCHANGED Contract!vars
    BY <2>1 DEF vars, Contract!vars, Members
  <2> QED BY <2>1, ContractStep, SMTT(30)
<1> QED BY <1>1, <1>2, Invariance, PTL DEF Spec, ImplementsContract, Contract!Spec
=============================================================================
