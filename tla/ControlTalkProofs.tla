------------------------- MODULE ControlTalkProofs -------------------------
(***************************************************************************)
(* The conversation on a control connection of ControlSession, for any     *)
(* number of clients, streams and faults: both sides stay in step, and a   *)
(* client that finishes has run the whole test.                            *)
(***************************************************************************)
EXTENDS ControlSessionProofs

\* One side has the word: what is on the wire is one turn of the client or of the server.
Turn(u, d, ups, downs) ==
    /\ u = <<>> \/ u \in ups
    /\ d = <<>> \/ d \in downs
    /\ u = <<>> \/ d = <<>>

\* What may be on the wire, and whether the client may end the test, at each stage s of a
\* session that has not failed.
Talks(s, u, d, r) ==
    /\ s = "none" => Turn(u, d, {}, {})
    /\ s = "cookie" => Turn(u, d, {<<"cookie">>}, {})
    /\ s = "params" => Turn(u, d, {<<"params">>}, {<<"PARAM_EXCHANGE">>})
    /\ s = "streams" => Turn(u, d, {}, {<<"CREATE_STREAMS">>})
    /\ s = "running" => Turn(u, d, {<<"TEST_END">>},
                             {<<"TEST_START", "TEST_RUNNING">>, <<"TEST_RUNNING">>})
    /\ s = "results" => Turn(u, d, {<<"results">>}, {<<"EXCHANGE_RESULTS">>})
    /\ s = "done" => Turn(u, d, {<<"IPERF_DONE">>},
                          {<<"results", "DISPLAY_RESULTS">>, <<"DISPLAY_RESULTS">>})
    /\ r => /\ s \notin {"none", "cookie", "params", "streams", "results", "done"}
            /\ s = "running" => u = <<>> /\ d = <<>>

Talk(c) == Talks(h[Control(c)], up[Control(c)], down[Control(c)], cl[c].running)

\* The first message of a turn, and what is left of the turn after it.
LEMMA Words ==
    /\ \A a : Head(<<a>>) = a /\ Tail(<<a>>) = <<>> /\ <<a>> # <<>>
    /\ \A a, b : Head(<<a, b>>) = a /\ Tail(<<a, b>>) = <<b>> /\ <<a, b>> # <<>>
    /\ \A a : Append(<<>>, a) = <<a>> /\ <<>> \o <<a>> = <<a>>
    /\ \A a, b : <<>> \o <<a, b>> = <<a, b>>
  OBVIOUS

\* Losing what is under way, or the client, keeps the conversation.
LEMMA TalkLost ==
    ASSUME NEW s, NEW u, NEW d, NEW r \in BOOLEAN, Talks(s, u, d, r),
           NEW u2 \in {u, <<>>}, NEW d2 \in {d, <<>>}, NEW r2 \in BOOLEAN, r2 => r
    PROVE  Talks(s, u2, d2, r2)
  BY Zenon DEF Talks, Turn

\* A client that has something to read has the word, and the message tells the stage.
LEMMA ClientsTurn ==
    ASSUME NEW s, NEW u, NEW d, NEW r \in BOOLEAN, Talks(s, u, d, r), d # <<>>
    PROVE  /\ s \notin {"none", "cookie"}
           /\ s \in {"params", "streams", "running", "results", "done"} => u = <<>> /\ ~r
           /\ s = "params" => Head(d) = "PARAM_EXCHANGE" /\ Tail(d) = <<>>
           /\ s = "streams" => Head(d) = "CREATE_STREAMS" /\ Tail(d) = <<>>
           /\ s = "running" => \/ Head(d) = "TEST_START" /\ Tail(d) = <<"TEST_RUNNING">>
                               \/ Head(d) = "TEST_RUNNING" /\ Tail(d) = <<>>
           /\ s = "results" => Head(d) = "EXCHANGE_RESULTS" /\ Tail(d) = <<>>
           /\ s = "done" => \/ Head(d) = "results" /\ Tail(d) = <<"DISPLAY_RESULTS">>
                            \/ Head(d) = "DISPLAY_RESULTS" /\ Tail(d) = <<>>
<1>1. s \notin {"none", "cookie"}
  BY Zenon DEF Talks, Turn
<1>2. s \in {"params", "streams", "running", "results", "done"} => u = <<>> /\ ~r
  BY Zenon DEF Talks, Turn
<1>3. s = "params" => d = <<"PARAM_EXCHANGE">>
  BY Zenon DEF Talks, Turn
<1>4. s = "streams" => d = <<"CREATE_STREAMS">>
  BY Zenon DEF Talks, Turn
<1>5. s = "running" => d = <<"TEST_START", "TEST_RUNNING">> \/ d = <<"TEST_RUNNING">>
  BY Zenon DEF Talks, Turn
<1>6. s = "results" => d = <<"EXCHANGE_RESULTS">>
  BY Zenon DEF Talks, Turn
<1>7. s = "done" => d = <<"results", "DISPLAY_RESULTS">> \/ d = <<"DISPLAY_RESULTS">>
  BY Zenon DEF Talks, Turn
<1>8. /\ s = "params" => Head(d) = "PARAM_EXCHANGE" /\ Tail(d) = <<>>
      /\ s = "streams" => Head(d) = "CREATE_STREAMS" /\ Tail(d) = <<>>
      /\ s = "results" => Head(d) = "EXCHANGE_RESULTS" /\ Tail(d) = <<>>
  BY <1>3, <1>4, <1>6, Words, Zenon
<1>9. s = "running" => \/ Head(d) = "TEST_START" /\ Tail(d) = <<"TEST_RUNNING">>
                       \/ Head(d) = "TEST_RUNNING" /\ Tail(d) = <<>>
  <2>1. /\ Head(<<"TEST_START", "TEST_RUNNING">>) = "TEST_START"
        /\ Tail(<<"TEST_START", "TEST_RUNNING">>) = <<"TEST_RUNNING">>
        /\ Head(<<"TEST_RUNNING">>) = "TEST_RUNNING" /\ Tail(<<"TEST_RUNNING">>) = <<>>
    BY Words, Zenon
  <2> QED BY <1>5, <2>1, Zenon
<1>10. s = "done" => \/ Head(d) = "results" /\ Tail(d) = <<"DISPLAY_RESULTS">>
                     \/ Head(d) = "DISPLAY_RESULTS" /\ Tail(d) = <<>>
  <2>1. /\ Head(<<"results", "DISPLAY_RESULTS">>) = "results"
        /\ Tail(<<"results", "DISPLAY_RESULTS">>) = <<"DISPLAY_RESULTS">>
        /\ Head(<<"DISPLAY_RESULTS">>) = "DISPLAY_RESULTS" /\ Tail(<<"DISPLAY_RESULTS">>) = <<>>
    BY Words, Zenon
  <2> QED BY <1>7, <2>1, Zenon
<1> QED BY <1>1, <1>2, <1>8, <1>9, <1>10, Zenon

\* What a client does with each message hands the word back, or keeps it.
LEMMA ClientHears ==
    ASSUME NEW s, NEW u, NEW d, NEW r \in BOOLEAN, Talks(s, u, d, r), d # <<>>
    PROVE  /\ Head(d) = "PARAM_EXCHANGE" =>
                 Talks(s, u, Tail(d), r) /\ Talks(s, Append(u, "params"), Tail(d), r)
           /\ Head(d) \in {"CREATE_STREAMS", "TEST_START", "results"} => Talks(s, u, Tail(d), r)
           /\ Head(d) = "TEST_RUNNING" => Talks(s, u, Tail(d), TRUE)
           /\ Head(d) = "EXCHANGE_RESULTS" =>
                 Talks(s, u, Tail(d), FALSE) /\ Talks(s, Append(u, "results"), Tail(d), FALSE)
           /\ Head(d) = "DISPLAY_RESULTS" =>
                 Talks(s, u, <<>>, FALSE) /\ Talks(s, Append(u, "IPERF_DONE"), <<>>, FALSE)
<1>1. /\ s \notin {"none", "cookie"}
      /\ s \in {"params", "streams", "running", "results", "done"} => u = <<>> /\ ~r
      /\ s = "params" => Head(d) = "PARAM_EXCHANGE" /\ Tail(d) = <<>>
      /\ s = "streams" => Head(d) = "CREATE_STREAMS" /\ Tail(d) = <<>>
      /\ s = "running" => \/ Head(d) = "TEST_START" /\ Tail(d) = <<"TEST_RUNNING">>
                          \/ Head(d) = "TEST_RUNNING" /\ Tail(d) = <<>>
      /\ s = "results" => Head(d) = "EXCHANGE_RESULTS" /\ Tail(d) = <<>>
      /\ s = "done" => \/ Head(d) = "results" /\ Tail(d) = <<"DISPLAY_RESULTS">>
                       \/ Head(d) = "DISPLAY_RESULTS" /\ Tail(d) = <<>>
  BY ClientsTurn
<1> DEFINE first == Head(d)
           rest == Tail(d)
           say(m) == Append(u, m)
<1>2. u = <<>> => \A m : say(m) = <<m>>
  BY Words, Zenon
<1> HIDE DEF first, rest, say
<1>3. /\ s \notin {"none", "cookie"}
      /\ s \in {"params", "streams", "running", "results", "done"} => u = <<>> /\ ~r
      /\ s = "params" => first = "PARAM_EXCHANGE" /\ rest = <<>>
      /\ s = "streams" => first = "CREATE_STREAMS" /\ rest = <<>>
      /\ s = "running" => \/ first = "TEST_START" /\ rest = <<"TEST_RUNNING">>
                          \/ first = "TEST_RUNNING" /\ rest = <<>>
      /\ s = "results" => first = "EXCHANGE_RESULTS" /\ rest = <<>>
      /\ s = "done" => \/ first = "results" /\ rest = <<"DISPLAY_RESULTS">>
                       \/ first = "DISPLAY_RESULTS" /\ rest = <<>>
  BY <1>1, Zenon DEF first, rest
<1>a. first = "PARAM_EXCHANGE" => Talks(s, u, rest, r) /\ Talks(s, say("params"), rest, r)
  BY <1>2, <1>3 DEF Talks, Turn
<1>b. first \in {"CREATE_STREAMS", "TEST_START", "results"} => Talks(s, u, rest, r)
  BY <1>2, <1>3 DEF Talks, Turn
<1>c. first = "TEST_RUNNING" => Talks(s, u, rest, TRUE)
  BY <1>2, <1>3 DEF Talks, Turn
<1>d. first = "EXCHANGE_RESULTS" => Talks(s, u, rest, FALSE) /\ Talks(s, say("results"), rest, FALSE)
  BY <1>2, <1>3 DEF Talks, Turn
<1>e. first = "DISPLAY_RESULTS" => Talks(s, u, <<>>, FALSE) /\ Talks(s, say("IPERF_DONE"), <<>>, FALSE)
  BY <1>2, <1>3 DEF Talks, Turn
<1> QED BY <1>a, <1>b, <1>c, <1>d, <1>e, Zenon DEF first, rest, say

\* A client ends the test only when nothing else is under way.
LEMMA ClientEnds ==
    ASSUME NEW s, NEW u, NEW d, Talks(s, u, d, TRUE)
    PROVE  Talks(s, u, d, FALSE) /\ Talks(s, Append(u, "TEST_END"), d, FALSE)
<1>1. /\ s \notin {"none", "cookie", "params", "streams", "results", "done"}
      /\ s = "running" => u = <<>> /\ d = <<>>
  BY Zenon DEF Talks
<1> DEFINE said == Append(u, "TEST_END")
<1>2. s = "running" => said = <<"TEST_END">>
  BY <1>1, Words, Zenon
<1> HIDE DEF said
<1>3. Talks(s, u, d, FALSE) /\ Talks(s, said, d, FALSE)
  BY <1>1, <1>2, Zenon DEF Talks, Turn
<1> QED BY <1>3, Zenon DEF said

\* A server that has something to read has the word, and the client waits for its answer.
LEMMA ServersTurn ==
    ASSUME NEW s \in {"cookie", "params", "streams", "running", "results", "done"},
           NEW u, NEW d, NEW r \in BOOLEAN, Talks(s, u, d, r), u # <<>>
    PROVE  /\ d = <<>> /\ ~r /\ Tail(u) = <<>>
           /\ s = "cookie" => Head(u) = "cookie"
           /\ s = "params" => Head(u) = "params"
           /\ s = "running" => Head(u) = "TEST_END"
           /\ s = "results" => Head(u) = "results"
           /\ s = "done" => Head(u) = "IPERF_DONE"
<1>1. d = <<>> /\ ~r
  BY Zenon DEF Talks, Turn
<1>2. /\ s # "streams"
      /\ s = "cookie" => u = <<"cookie">>
      /\ s = "params" => u = <<"params">>
      /\ s = "running" => u = <<"TEST_END">>
      /\ s = "results" => u = <<"results">>
      /\ s = "done" => u = <<"IPERF_DONE">>
  BY Zenon DEF Talks, Turn
<1> QED BY <1>1, <1>2, Words, Zenon

\* The server's answers hand the word to the client, whether they arrive or not.
LEMMA ServerAnswers ==
    ASSUME NEW d, d = <<>>
    PROVE  /\ \A m \in {d, d \o <<"PARAM_EXCHANGE">>} : Talks("params", <<>>, m, FALSE)
           /\ \A m \in {d, d \o <<"CREATE_STREAMS">>} : Talks("streams", <<>>, m, FALSE)
           /\ \A m \in {d, d \o <<"TEST_START", "TEST_RUNNING">>} : Talks("running", <<>>, m, FALSE)
           /\ \A m \in {d, d \o <<"EXCHANGE_RESULTS">>} : Talks("results", <<>>, m, FALSE)
           /\ \A m \in {d, d \o <<"results", "DISPLAY_RESULTS">>} : Talks("done", <<>>, m, FALSE)
  BY Words, Zenon DEF Talks, Turn

\* Once a session has failed or ended nothing is said of its connection.
LEMMA TalkOver ==
    ASSUME NEW s \in {"failing", "ended", "stream"}, NEW u, NEW d, NEW r \in BOOLEAN
    PROVE  Talks(s, u, d, r)
  BY Zenon DEF Talks

\* How one side's step shows on a control connection.
Wrote(k, m) == up'[k] = up[k] \/ up'[k] = Append(up[k], m)
Heard(k, m) == down[k] # <<>> /\ Head(down[k]) = m /\ down'[k] = Tail(down[k])
Took(k) == up[k] # <<>> /\ up'[k] = Tail(up[k])
Answered(k, msgs) == down'[k] = down[k] \/ down'[k] = down[k] \o msgs

\* The client reads and answers, ends the test, or goes; or something is lost.
ClientMoves(c) ==
    LET k == Control(c)
        was == cl[c].running
        is == cl'[c].running
    IN /\ h'[k] = h[k]
       /\ \/ up'[k] \in {up[k], <<>>} /\ down'[k] \in {down[k], <<>>} /\ (is => was)
          \/ Heard(k, "PARAM_EXCHANGE") /\ Wrote(k, "params") /\ is = was
          \/ (\E m \in {"CREATE_STREAMS", "TEST_START", "results"} : Heard(k, m)) /\ up'[k] = up[k] /\ is = was
          \/ Heard(k, "TEST_RUNNING") /\ up'[k] = up[k] /\ is = TRUE
          \/ Heard(k, "EXCHANGE_RESULTS") /\ Wrote(k, "results") /\ is = FALSE
          \/ /\ down[k] # <<>> /\ Head(down[k]) = "DISPLAY_RESULTS" /\ down'[k] = <<>>
             /\ Wrote(k, "IPERF_DONE") /\ is = FALSE
          \/ was = TRUE /\ Wrote(k, "TEST_END") /\ down'[k] = down[k] /\ is = FALSE

\* The connection is made, the server reads and answers, starts the test, or gives up.
ServerMoves(c) ==
    LET k == Control(c) IN
    /\ cl'[c].running = cl[c].running
    /\ \/ h[k] = "none" /\ h'[k] = "cookie" /\ up'[k] = <<"cookie">> /\ down'[k] = down[k]
       \/ h[k] = "cookie" /\ h'[k] = "params" /\ Took(k) /\ Answered(k, <<"PARAM_EXCHANGE">>)
       \/ h[k] = "params" /\ h'[k] = "streams" /\ Took(k) /\ Answered(k, <<"CREATE_STREAMS">>)
       \/ /\ h[k] = "streams" /\ h'[k] = "running" /\ up'[k] = up[k] /\ ~Has(down[k])
          /\ Answered(k, <<"TEST_START", "TEST_RUNNING">>)
       \/ h[k] = "running" /\ h'[k] = "results" /\ Took(k) /\ Answered(k, <<"EXCHANGE_RESULTS">>)
       \/ h[k] = "results" /\ h'[k] = "done" /\ Took(k) /\ Answered(k, <<"results", "DISPLAY_RESULTS">>)
       \/ /\ h'[k] \in {"failing", "ended"}
          /\ Answered(k, <<"SERVER_ERROR">>) \/ Answered(k, <<"ACCESS_DENIED">>)

\* A client finishes by reading DISPLAY_RESULTS.
Finishes(c) ==
    cl'[c].pc = "finished" =>
        \/ cl[c].pc = "finished"
        \/ down[Control(c)] # <<>> /\ Head(down[Control(c)]) = "DISPLAY_RESULTS"

Moves(c) == (ClientMoves(c) \/ ServerMoves(c)) /\ Finishes(c)

\* Every such move keeps the conversation in turn.
LEMMA MovesTalk ==
    ASSUME NEW c \in Clients, Talk(c), Moves(c), cl[c].running \in BOOLEAN, cl'[c].running \in BOOLEAN
    PROVE  Talk(c)'
<1> DEFINE k == Control(c)
           s == h[k]
           u == up[k]
           d == down[k]
           r == cl[c].running
           s2 == h'[k]
           u2 == up'[k]
           d2 == down'[k]
           r2 == cl'[c].running
<1>0. Talks(s, u, d, r) /\ r \in BOOLEAN /\ r2 \in BOOLEAN
  BY DEF Talk
<1>1. SUFFICES Talks(s2, u2, d2, r2)
  BY DEF Talk
<1>2. CASE ClientMoves(c)
  <2>1. s2 = s
    BY <1>2 DEF ClientMoves
  <2>2. CASE u2 \in {u, <<>>} /\ d2 \in {d, <<>>} /\ (r2 => r)
    <3> HIDE DEF k, s, u, d, r, s2, u2, d2, r2
    <3> QED BY <1>0, <2>1, <2>2, TalkLost
  <2>3. CASE Heard(k, "PARAM_EXCHANGE") /\ Wrote(k, "params") /\ r2 = r
    <3>1. d # <<>> /\ Head(d) = "PARAM_EXCHANGE" /\ d2 = Tail(d) /\ u2 \in {u, Append(u, "params")}
      BY <2>3 DEF Heard, Wrote
    <3> HIDE DEF k, s, u, d, r, s2, u2, d2, r2
    <3>2. Talks(s, u, Tail(d), r) /\ Talks(s, Append(u, "params"), Tail(d), r)
      BY <1>0, <3>1, ClientHears, Zenon
    <3> QED BY <2>1, <2>3, <3>1, <3>2, Zenon
  <2>4. CASE (\E m \in {"CREATE_STREAMS", "TEST_START", "results"} : Heard(k, m)) /\ u2 = u /\ r2 = r
    <3>1. d # <<>> /\ Head(d) \in {"CREATE_STREAMS", "TEST_START", "results"} /\ d2 = Tail(d)
      BY <2>4 DEF Heard
    <3> HIDE DEF k, s, u, d, r, s2, u2, d2, r2
    <3>2. Talks(s, u, Tail(d), r)
      BY <1>0, <3>1, ClientHears, Zenon
    <3> QED BY <2>1, <2>4, <3>1, <3>2
  <2>5. CASE Heard(k, "TEST_RUNNING") /\ u2 = u /\ r2 = TRUE
    <3>1. d # <<>> /\ Head(d) = "TEST_RUNNING" /\ d2 = Tail(d)
      BY <2>5 DEF Heard
    <3> HIDE DEF k, s, u, d, r, s2, u2, d2, r2
    <3>2. Talks(s, u, Tail(d), TRUE)
      BY <1>0, <3>1, ClientHears, Zenon
    <3> QED BY <2>1, <2>5, <3>1, <3>2, Zenon
  <2>6. CASE Heard(k, "EXCHANGE_RESULTS") /\ Wrote(k, "results") /\ r2 = FALSE
    <3>1. d # <<>> /\ Head(d) = "EXCHANGE_RESULTS" /\ d2 = Tail(d) /\ u2 \in {u, Append(u, "results")}
      BY <2>6 DEF Heard, Wrote
    <3> HIDE DEF k, s, u, d, r, s2, u2, d2, r2
    <3>2. Talks(s, u, Tail(d), FALSE) /\ Talks(s, Append(u, "results"), Tail(d), FALSE)
      BY <1>0, <3>1, ClientHears, Zenon
    <3> QED BY <2>1, <2>6, <3>1, <3>2, Zenon
  <2>7. CASE /\ d # <<>> /\ Head(d) = "DISPLAY_RESULTS" /\ d2 = <<>>
             /\ Wrote(k, "IPERF_DONE") /\ r2 = FALSE
    <3>1. u2 \in {u, Append(u, "IPERF_DONE")}
      BY <2>7 DEF Wrote
    <3> HIDE DEF k, s, u, d, r, s2, u2, d2, r2
    <3>2. Talks(s, u, <<>>, FALSE) /\ Talks(s, Append(u, "IPERF_DONE"), <<>>, FALSE)
      BY <1>0, <2>7, ClientHears, Zenon
    <3> QED BY <2>1, <2>7, <3>1, <3>2, Zenon
  <2>8. CASE r = TRUE /\ Wrote(k, "TEST_END") /\ d2 = d /\ r2 = FALSE
    <3>1. u2 \in {u, Append(u, "TEST_END")}
      BY <2>8 DEF Wrote
    <3> HIDE DEF k, s, u, d, r, s2, u2, d2, r2
    <3>2. Talks(s, u, d, FALSE) /\ Talks(s, Append(u, "TEST_END"), d, FALSE)
      BY <1>0, <2>8, ClientEnds, Zenon
    <3> QED BY <2>1, <2>8, <3>1, <3>2, Zenon
  <2> QED BY <1>2, <2>2, <2>3, <2>4, <2>5, <2>6, <2>7, <2>8, Zenon DEF ClientMoves
<1>3. CASE ServerMoves(c)
  <2>0. r2 = r
    BY <1>3 DEF ServerMoves
  <2>1. CASE s = "none" /\ s2 = "cookie" /\ u2 = <<"cookie">> /\ d2 = d
    <3> HIDE DEF k, s, u, d, r, s2, u2, d2, r2
    <3> QED BY <1>0, <2>0, <2>1, Zenon DEF Talks, Turn
  <2>2. ASSUME s \in {"cookie", "params", "running", "results"}, Took(k)
        PROVE  u2 = <<>> /\ d = <<>> /\ r2 = FALSE
    <3>1. u # <<>> /\ u2 = Tail(u)
      BY <2>2 DEF Took
    <3> HIDE DEF k, s, u, d, r, s2, u2, d2, r2
    <3>2. s \in {"cookie", "params", "streams", "running", "results", "done"}
      BY <2>2
    <3>3. d = <<>> /\ ~r /\ Tail(u) = <<>>
      BY <1>0, <3>1, <3>2, ServersTurn
    <3> QED BY <1>0, <2>0, <3>1, <3>3
  <2>3. CASE s = "cookie" /\ s2 = "params" /\ Took(k) /\ Answered(k, <<"PARAM_EXCHANGE">>)
    <3>1. d2 \in {d, d \o <<"PARAM_EXCHANGE">>}
      BY <2>3 DEF Answered
    <3> HIDE DEF k, s, u, d, r, s2, u2, d2, r2
    <3> QED BY <2>2, <2>3, <3>1, ServerAnswers, Zenon
  <2>4. CASE s = "params" /\ s2 = "streams" /\ Took(k) /\ Answered(k, <<"CREATE_STREAMS">>)
    <3>1. d2 \in {d, d \o <<"CREATE_STREAMS">>}
      BY <2>4 DEF Answered
    <3> HIDE DEF k, s, u, d, r, s2, u2, d2, r2
    <3> QED BY <2>2, <2>4, <3>1, ServerAnswers, Zenon
  <2>5. CASE /\ s = "streams" /\ s2 = "running" /\ u2 = u /\ ~Has(d)
             /\ Answered(k, <<"TEST_START", "TEST_RUNNING">>)
    <3>1. d2 \in {d, d \o <<"TEST_START", "TEST_RUNNING">>}
      BY <2>5 DEF Answered
    <3> HIDE DEF k, s, u, d, r, s2, u2, d2, r2
    <3>2. Has(<<"CREATE_STREAMS">>)
      BY DEF Has
    <3>3. u = <<>> /\ d = <<>> /\ ~r
      BY <1>0, <2>5, <3>2, Zenon DEF Talks, Turn
    <3>4. u2 = <<>> /\ r2 = FALSE
      BY <1>0, <2>0, <2>5, <3>3
    <3> QED BY <2>5, <3>1, <3>3, <3>4, ServerAnswers, Zenon
  <2>6. CASE s = "running" /\ s2 = "results" /\ Took(k) /\ Answered(k, <<"EXCHANGE_RESULTS">>)
    <3>1. d2 \in {d, d \o <<"EXCHANGE_RESULTS">>}
      BY <2>6 DEF Answered
    <3> HIDE DEF k, s, u, d, r, s2, u2, d2, r2
    <3> QED BY <2>2, <2>6, <3>1, ServerAnswers, Zenon
  <2>7. CASE s = "results" /\ s2 = "done" /\ Took(k) /\ Answered(k, <<"results", "DISPLAY_RESULTS">>)
    <3>1. d2 \in {d, d \o <<"results", "DISPLAY_RESULTS">>}
      BY <2>7 DEF Answered
    <3> HIDE DEF k, s, u, d, r, s2, u2, d2, r2
    <3> QED BY <2>2, <2>7, <3>1, ServerAnswers, Zenon
  <2>8. CASE s2 \in {"failing", "ended"}
    <3> HIDE DEF k, s, u, d, r, s2, u2, d2, r2
    <3> QED BY <1>0, <2>8, TalkOver
  <2> QED BY <1>3, <2>1, <2>3, <2>4, <2>5, <2>6, <2>7, <2>8 DEF ServerMoves
<1> QED BY <1>2, <1>3 DEF Moves

\* A client that a step leaves alone.
LEMMA LeftAlone ==
    ASSUME NEW d \in Clients, cl'[d] = cl[d], h'[Control(d)] = h[Control(d)],
           up'[Control(d)] \in {up[Control(d)], <<>>}, down'[Control(d)] \in {down[Control(d)], <<>>}
    PROVE  Moves(d)
  BY Zenon DEF Moves, ClientMoves, Finishes

\* A client's write shows on its own control connection only.
LEMMA Writes ==
    ASSUME TypeOK, NEW c \in Clients, NEW msg \in UpMessages, up' = Says(Control(c), msg)
    PROVE  /\ Wrote(Control(c), msg)
           /\ \A d \in Clients : d # c => up'[Control(d)] = up[Control(d)]
<1>1. up \in [Conns -> Seq(UpMessages)] /\ Control(c) \in Conns
  BY ConnFacts DEF TypeOK
<1>2. \A d \in Clients : d # c => Control(d) \in Conns /\ Control(d) # Control(c)
  BY ConnFacts DEF Control
<1>3. \A d \in Clients : d # c => up'[Control(d)] = up[Control(d)]
  BY <1>1, <1>2, SaysType
<1>4. Wrote(Control(c), msg)
  BY <1>1 DEF Says, Wrote
<1> QED BY <1>3, <1>4

\* #cleanup loses what the client has not read.
LEMMA CleanupMoves ==
    ASSUME TypeOK, NEW c \in Clients, NEW o \in {"failed", "finished"}, Cleanup(c, o)
    PROVE  /\ down'[Control(c)] = <<>> /\ cl'[c].running = FALSE /\ cl'[c].pc = o
           /\ \A d \in Clients : d # c => cl'[d] = cl[d] /\ down'[Control(d)] = down[Control(d)]
<1>1. cl'[c].running = FALSE /\ cl'[c].pc = o /\ \A d \in Clients : d # c => cl'[d] = cl[d]
  <2> DEFINE r == [cl[c] EXCEPT !.pc = o, !.running = FALSE]
  <2>1. cl \in [Clients -> ClientRecord] /\ cl[c] \in ClientRecord
    BY DEF TypeOK
  <2>2. r.running = FALSE /\ r.pc = o
    BY <2>1, ZenonT(30) DEF ClientRecord
  <2>3. cl' = [cl EXCEPT ![c] = r]
    BY DEF Cleanup
  <2> HIDE DEF r
  <2> QED BY <2>1, <2>2, <2>3
<1>2. Control(c) \in Of(c) /\ \A d \in Clients : d # c => Control(d) \notin Of(c)
  BY DEF Of, Control, Data
<1>3. down'[Control(c)] = <<>> /\ \A d \in Clients : d # c => down'[Control(d)] = down[Control(d)]
  BY <1>2, ConnFacts DEF Cleanup, Lost
<1> QED BY <1>1, <1>3

\* Every step of a client other than opening a connection is a move of its own.
LEMMA ClientStepMoves ==
    ASSUME TypeOK, NEW c \in Clients,
           \/ OnParamExchange(c) \/ OnCreateStreams(c) \/ OnTestStart(c) \/ OnTestRunning(c)
           \/ EndTest(c) \/ OnExchangeResults(c) \/ ReadRemote(c) \/ OnDisplayResults(c)
           \/ OnRefusal(c) \/ ReadRejected(c) \/ Crash(c)
           \/ StartRejected(c) \/ StreamRejected(c)
    PROVE  \A d \in Clients : Moves(d)
<1> USE DEF Reads
<1>0. cl \in [Clients -> ClientRecord] /\ cl[c] \in ClientRecord
  BY SMTT(30) DEF TypeOK
<1>a. /\ h' = h
      /\ \A d \in Clients : d # c => cl'[d] = cl[d] /\ down'[Control(d)] = down[Control(d)]
  BY ClientStepIsQuiet DEF QuietClient
<1>b. SUFFICES Moves(c) /\ \A d \in Clients : d # c => up'[Control(d)] = up[Control(d)]
  BY <1>a, LeftAlone
<1>1. CASE OnParamExchange(c)
  <2>1. cl' = cl /\ up' = Says(Control(c), "params") /\ down' = Consumed(c)
        /\ down[Control(c)] # <<>> /\ Head(down[Control(c)]) = "PARAM_EXCHANGE"
    BY <1>1, Zenon DEF OnParamExchange, client
  <2>2. "params" \in UpMessages
    BY DEF UpMessages
  <2>3. Heard(Control(c), "PARAM_EXCHANGE")
    BY <2>1, ConsumedFacts DEF Heard
  <2> QED BY <1>a, <2>1, <2>2, <2>3, Writes, Zenon DEF Moves, ClientMoves, Finishes
<1>2. CASE OnCreateStreams(c)
  <2>1. up' = up /\ down' = Consumed(c) /\ cl' = [cl EXCEPT ![c].pc = "opening"]
        /\ down[Control(c)] # <<>> /\ Head(down[Control(c)]) = "CREATE_STREAMS"
    BY <1>2, Zenon DEF OnCreateStreams
  <2>2. cl'[c].running = cl[c].running /\ cl'[c].pc = "opening"
    BY <1>0, <2>1 DEF ClientRecord
  <2>3. Heard(Control(c), "CREATE_STREAMS")
    BY <2>1, ConsumedFacts DEF Heard
  <2> QED BY <1>a, <2>1, <2>2, <2>3, Zenon DEF Moves, ClientMoves, Finishes
<1>3. CASE OnTestStart(c)
  <2>1. cl' = cl /\ up' = up /\ down' = Consumed(c)
        /\ down[Control(c)] # <<>> /\ Head(down[Control(c)]) = "TEST_START"
    BY <1>3, Zenon DEF OnTestStart, client
  <2>3. Heard(Control(c), "TEST_START")
    BY <2>1, ConsumedFacts DEF Heard
  <2> QED BY <1>a, <2>1, <2>3, Zenon DEF Moves, ClientMoves, Finishes
<1>4. CASE OnTestRunning(c)
  <2>1. up' = up /\ down' = Consumed(c) /\ cl' = [cl EXCEPT ![c].running = TRUE]
        /\ down[Control(c)] # <<>> /\ Head(down[Control(c)]) = "TEST_RUNNING"
    BY <1>4, Zenon DEF OnTestRunning
  <2>2. cl'[c].running = TRUE /\ cl'[c].pc = cl[c].pc
    BY <1>0, <2>1, ZenonT(30) DEF ClientRecord
  <2>3. Heard(Control(c), "TEST_RUNNING")
    BY <2>1, ConsumedFacts DEF Heard
  <2> QED BY <1>a, <2>1, <2>2, <2>3, Zenon DEF Moves, ClientMoves, Finishes
<1>5. CASE EndTest(c)
  <2>1. cl[c].running /\ up' = Says(Control(c), "TEST_END") /\ down' = down
        /\ cl' = [cl EXCEPT ![c] = [@ EXCEPT !.running = FALSE, !.ended = TRUE]]
    BY <1>5, Zenon DEF EndTest
  <2>2. cl'[c].running = FALSE /\ cl'[c].pc = cl[c].pc /\ cl[c].running \in BOOLEAN
    BY <1>0, <2>1, ZenonT(30) DEF ClientRecord
  <2>3. "TEST_END" \in UpMessages
    BY DEF UpMessages
  <2> QED BY <1>a, <2>1, <2>2, <2>3, Writes, Zenon DEF Moves, ClientMoves, Finishes
<1>6. CASE OnExchangeResults(c)
  <2>0. down[Control(c)] # <<>> /\ Head(down[Control(c)]) = "EXCHANGE_RESULTS"
    BY <1>6, Zenon DEF OnExchangeResults
  <2>1. CASE Finalized(c) = {}
    <3>1. down' = Consumed(c) /\ up' = Says(Control(c), "results")
          /\ cl' = [cl EXCEPT ![c] = [@ EXCEPT !.pc = "results", !.running = FALSE, !.ended = TRUE]]
      BY <1>6, <2>1, Zenon DEF OnExchangeResults
    <3>2. cl'[c].running = FALSE /\ cl'[c].pc = "results"
      BY <1>0, <3>1, ZenonT(30) DEF ClientRecord
    <3>3. "results" \in UpMessages
      BY DEF UpMessages
    <3>4. Heard(Control(c), "EXCHANGE_RESULTS")
      BY <2>0, <3>1, ConsumedFacts DEF Heard
    <3> QED BY <1>a, <3>1, <3>2, <3>3, <3>4, Writes, Zenon DEF Moves, ClientMoves, Finishes
  <2>2. CASE Finalized(c) # {}
    <3>1. Cleanup(c, "failed") /\ up' = up
      BY <1>6, <2>2, Zenon DEF OnExchangeResults
    <3>2. down'[Control(c)] = <<>> /\ cl'[c].running = FALSE /\ cl'[c].pc = "failed"
      BY <3>1, CleanupMoves, Zenon
    <3> QED BY <1>a, <3>1, <3>2, Zenon DEF Moves, ClientMoves, Finishes
  <2> QED BY <2>1, <2>2
<1>7. CASE ReadRemote(c)
  <2>1. up' = up /\ down' = Consumed(c) /\ cl' = [cl EXCEPT ![c].pc = "reading"]
        /\ down[Control(c)] # <<>> /\ Head(down[Control(c)]) = "results"
    BY <1>7, Zenon DEF ReadRemote
  <2>2. cl'[c].running = cl[c].running /\ cl'[c].pc = "reading"
    BY <1>0, <2>1 DEF ClientRecord
  <2>3. Heard(Control(c), "results")
    BY <2>1, ConsumedFacts DEF Heard
  <2> QED BY <1>a, <2>1, <2>2, <2>3, Zenon DEF Moves, ClientMoves, Finishes
<1>8. CASE OnDisplayResults(c)
  <2>1. up' = Says(Control(c), "IPERF_DONE") /\ Cleanup(c, "finished")
        /\ down[Control(c)] # <<>> /\ Head(down[Control(c)]) = "DISPLAY_RESULTS"
    BY <1>8, Zenon DEF OnDisplayResults
  <2>2. down'[Control(c)] = <<>> /\ cl'[c].running = FALSE
    BY <2>1, CleanupMoves, ZenonT(30)
  <2>3. "IPERF_DONE" \in UpMessages
    BY DEF UpMessages
  <2> QED BY <1>a, <2>1, <2>2, <2>3, Writes, Zenon DEF Moves, ClientMoves, Finishes
<1>9. CASE OnRefusal(c) \/ ReadRejected(c) \/ StartRejected(c) \/ StreamRejected(c)
  <2>1. Cleanup(c, "failed") /\ up' = up
    BY <1>9 DEF OnRefusal, ReadRejected, StartRejected, StreamRejected, ConnectRejected, server
  <2>2. down'[Control(c)] = <<>> /\ cl'[c].running = FALSE /\ cl'[c].pc = "failed"
    BY <2>1, CleanupMoves, Zenon
  <2> QED BY <1>a, <2>1, <2>2, Zenon DEF Moves, ClientMoves, Finishes
<1>10. CASE Crash(c)
  <2>1. up' = up /\ down' = down
        /\ cl' = [cl EXCEPT ![c] = [@ EXCEPT !.pc = "crashed", !.running = FALSE]]
    BY <1>10, Zenon DEF Crash
  <2>2. cl'[c].running = FALSE /\ cl'[c].pc = "crashed"
    BY <1>0, <2>1, ZenonT(30) DEF ClientRecord
  <2> QED BY <1>a, <2>1, <2>2, Zenon DEF Moves, ClientMoves, Finishes
<1> QED BY <1>1, <1>2, <1>3, <1>4, <1>5, <1>6, <1>7, <1>8, <1>9, <1>10

\* The server's write shows on one connection only.
LEMMA Answers ==
    ASSUME TypeOK, NEW k \in Conns, NEW m \in Seq(DownMessages), down' = Tells(k, m)
    PROVE  Answered(k, m) /\ \A j \in Conns : j # k => down'[j] = down[j]
  BY TellsType, Zenon DEF TypeOK, Answered

\* The server's read shows on one connection only.
LEMMA Takes ==
    ASSUME TypeOK, NEW k \in Conns, up[k] # <<>>, up' = [up EXCEPT ![k] = Tail(@)]
    PROVE  Took(k) /\ \A j \in Conns : j # k => up'[j] = up[j]
  BY SMTT(30) DEF TypeOK, Took

\* The server's messages.
LEMMA ServerSays ==
    /\ <<"PARAM_EXCHANGE">> \in Seq(DownMessages) /\ <<"CREATE_STREAMS">> \in Seq(DownMessages)
    /\ <<"TEST_START", "TEST_RUNNING">> \in Seq(DownMessages) /\ <<"EXCHANGE_RESULTS">> \in Seq(DownMessages)
    /\ <<"results", "DISPLAY_RESULTS">> \in Seq(DownMessages)
    /\ <<"ACCESS_DENIED">> \in Seq(DownMessages) /\ <<"SERVER_ERROR">> \in Seq(DownMessages)
  BY DEF DownMessages

\* A step on a connection that is not a client's control connection leaves the client alone.
LEMMA NotHis ==
    ASSUME NEW k \in Conns, NEW d \in Clients, Control(d) # k, UNCHANGED cl,
           \A j \in Conns : j # k => /\ h'[j] = h[j] /\ up'[j] \in {up[j], <<>>}
                                     /\ down'[j] \in {down[j], <<>>}
    PROVE  Moves(d)
<1>1. Control(d) \in Conns
  BY ConnFacts
<1> QED BY <1>1, LeftAlone

\* A failure of the session shows as one.
LEMMA FailMoves ==
    ASSUME TypeOK, NEW k \in Conns, NEW d \in Clients, Fail(k), UNCHANGED cl,
           \A j \in Conns : j # k => up'[j] = up[j]
    PROVE  Moves(d)
<1>1. Answered(k, <<"SERVER_ERROR">>) /\ \A j \in Conns : j # k => down'[j] = down[j]
  BY ServerSays, Answers, ZenonT(30) DEF Fail
<1>2. h'[k] = "failing" /\ \A j \in Conns : j # k => h'[j] = h[j]
  BY DEF Fail, TypeOK
<1>3. CASE Control(d) = k
  BY <1>1, <1>2, <1>3, Zenon DEF Moves, ServerMoves, Finishes
<1>4. CASE Control(d) # k
  BY <1>1, <1>2, <1>4, NotHis
<1> QED BY <1>3, <1>4

\* A control connection does not join a test, and the test its client's data connections
\* join has been asked for.
LEMMA JoinsOwn ==
    ASSUME IInv, NEW k \in Conns, h[k] = "cookie", WantsStream(k[1])
    PROVE  /\ active = Control(k[1]) /\ k # active /\ k[1] \in Clients
           /\ ~Has(down[active])
<1>1. active \in Conns /\ active[1] = k[1] /\ active[2] = 0 /\ h[active] \in {"streams", "failing"}
  BY DEF WantsStream, IInv, TypeOK, Rest, Awaits
<1>2. k[1] \in Clients /\ k[2] \in 0..MaxParallel /\ k = <<k[1], k[2]>> /\ active = <<active[1], active[2]>>
  BY <1>1, ConnFacts
<1>3. active = Control(k[1]) /\ k # active
  BY <1>1, <1>2 DEF Control
<1>4. k[2] \in 1..MaxParallel /\ MaxParallel \in Nat
  <2>1. k[2] # 0
    BY <1>2, <1>3 DEF Control
  <2> QED BY <1>2, <2>1, ConstantFacts
<1>5. ~(cl[k[1]].opened < k[2])
  <2>1. h[<<k[1], k[2]>>] # "none"
    BY <1>2
  <2> QED BY <1>2, <1>4, <2>1 DEF IInv, Rest, Fresh
<1>6. cl[k[1]].opened # 0
  BY <1>4, <1>5
<1>7. ~Has(down[Control(k[1])])
  BY <1>2, <1>6 DEF IInv, Rest, AskedOnce
<1> QED BY <1>2, <1>3, <1>7

\* What a complete cookie leads to shows as a move on the connection, or on the control
\* connection of the test it joins.
LEMMA ReadCookieMoves ==
    ASSUME IInv, NEW k \in Conns, NEW d \in Clients, ReadCookie(k)
    PROVE  Moves(d)
<1>0. TypeOK /\ h[k] = "cookie" /\ up[k] # <<>> /\ up' = [up EXCEPT ![k] = Tail(@)] /\ cl' = cl
  BY DEF ReadCookie, IInv, client
<1>1. Took(k) /\ \A j \in Conns : j # k => up'[j] = up[j]
  BY <1>0, Takes, ZenonT(30)
<1>2. CASE AcceptStream(k)
  <2>0. /\ active = Control(k[1]) /\ k # active /\ k[1] \in Clients
        /\ ~Has(down[active]) /\ active \in Conns
    BY <1>0, <1>2, JoinsOwn, ConnFacts DEF AcceptStream
  <2>1. CASE /\ h[active] = "streams"
             /\ h' = [h EXCEPT ![k] = "stream", ![active] = "running"]
             /\ down' = Tells(active, <<"TEST_START", "TEST_RUNNING">>)
    <3>1. /\ Answered(active, <<"TEST_START", "TEST_RUNNING">>)
          /\ \A j \in Conns : j # active => down'[j] = down[j]
      BY <1>0, <2>0, <2>1, ServerSays, Answers, Zenon
    <3>2. h'[active] = "running" /\ \A j \in Conns : j # k /\ j # active => h'[j] = h[j]
      BY <1>0, <2>0, <2>1 DEF TypeOK
    <3>3. CASE d = k[1]
      BY <1>0, <1>1, <2>0, <2>1, <3>1, <3>2, <3>3, Zenon DEF Moves, ServerMoves, Finishes
    <3>4. CASE d # k[1]
      <4>1. Control(d) # active /\ Control(d) # k /\ Control(d) \in Conns
        BY <2>0, <3>4, ConnFacts
      <4> QED BY <1>0, <1>1, <3>1, <3>2, <4>1, LeftAlone
    <3> QED BY <3>3, <3>4
  <2>2. CASE h' = [h EXCEPT ![k] = "stream"] /\ down' = down
    <3>1. \A j \in Conns : j # k => h'[j] = h[j]
      BY <1>0, <2>2 DEF TypeOK
    <3>2. Control(d) # k
      BY <2>0, ConnFacts
    <3> QED BY <1>0, <1>1, <2>2, <3>1, <3>2, NotHis
  <2> QED BY <1>2, <2>1, <2>2 DEF AcceptStream
<1>3. CASE Deny(k)
  <2>1. Answered(k, <<"ACCESS_DENIED">>) /\ \A j \in Conns : j # k => down'[j] = down[j]
    BY <1>0, <1>3, ServerSays, Answers, ZenonT(30) DEF Deny
  <2>2. h'[k] = "ended" /\ \A j \in Conns : j # k => h'[j] = h[j]
    BY <1>0, <1>3 DEF Deny, TypeOK
  <2>3. CASE Control(d) = k
    BY <1>0, <2>1, <2>2, <2>3, Zenon DEF Moves, ServerMoves, Finishes
  <2>4. CASE Control(d) # k
    BY <1>0, <1>1, <2>1, <2>2, <2>4, NotHis
  <2> QED BY <2>3, <2>4
<1>4. CASE BeginSession(k)
  <2>1. Answered(k, <<"PARAM_EXCHANGE">>) /\ \A j \in Conns : j # k => down'[j] = down[j]
    BY <1>0, <1>4, ServerSays, Answers, ZenonT(30) DEF BeginSession
  <2>2. h'[k] = "params" /\ \A j \in Conns : j # k => h'[j] = h[j]
    BY <1>0, <1>4 DEF BeginSession, TypeOK
  <2>3. CASE Control(d) = k
    BY <1>0, <1>1, <2>1, <2>2, <2>3, Zenon DEF Moves, ServerMoves, Finishes
  <2>4. CASE Control(d) # k
    BY <1>0, <1>1, <2>1, <2>2, <2>4, NotHis
  <2> QED BY <2>3, <2>4
<1> QED BY <1>2, <1>3, <1>4 DEF ReadCookie

\* Every other step of the server is a move on its connection.
LEMMA SessionMoves ==
    ASSUME IInv, NEW k \in Conns, NEW d \in Clients,
           \/ CookieRejected(k) \/ ReadParams(k) \/ ReadTestEnd(k)
           \/ ReadResults(k) \/ ReadDone(k) \/ SessionRejected(k) \/ Finish(k)
    PROVE  Moves(d)
<1>0. TypeOK /\ cl' = cl
  BY DEF IInv, CookieRejected, ReadParams, ReadTestEnd, ReadResults, ReadDone, SessionRejected, Finish, client
<1>1. CASE CookieRejected(k) \/ ReadDone(k) \/ Finish(k)
  <2>1. h' = [h EXCEPT ![k] = "ended"] /\ down' = down /\ up' = Lost(up, {k})
    BY <1>1, Zenon DEF CookieRejected, ReadDone, Finish, EndSession
  <2>2. h'[k] = "ended" /\ \A j \in Conns : j # k => h'[j] = h[j]
    BY <1>0, <2>1 DEF TypeOK
  <2>3. \A j \in Conns : up'[j] \in {up[j], <<>>}
    BY <1>0, <2>1, LostType, Zenon
  <2>4. CASE Control(d) = k
    BY <1>0, <2>1, <2>2, <2>4, Zenon DEF Moves, ServerMoves, Finishes, Answered
  <2>5. CASE Control(d) # k
    BY <1>0, <2>1, <2>2, <2>3, <2>5, NotHis, ZenonT(30)
  <2> QED BY <2>4, <2>5
<1>2. CASE SessionRejected(k)
  BY <1>0, <1>2, FailMoves DEF SessionRejected
<1>3. CASE ReadParams(k) \/ ReadTestEnd(k) \/ ReadResults(k)
  <2>1. up[k] # <<>> /\ up' = [up EXCEPT ![k] = Tail(@)]
    BY <1>3, Zenon DEF ReadParams, ReadTestEnd, ReadResults
  <2>2. Took(k) /\ \A j \in Conns : j # k => up'[j] = up[j]
    BY <1>0, <2>1, Takes, ZenonT(30)
  <2>3. CASE Fail(k)
    BY <1>0, <2>2, <2>3, FailMoves
  <2>4. ASSUME NEW y, NEW m \in Seq(DownMessages), h' = [h EXCEPT ![k] = y], down' = Tells(k, m)
        PROVE  /\ Answered(k, m) /\ h'[k] = y
               /\ Control(d) # k => Moves(d)
    <3>1. Answered(k, m) /\ \A j \in Conns : j # k => down'[j] = down[j]
      BY <1>0, <2>4, Answers
    <3>2. h'[k] = y /\ \A j \in Conns : j # k => h'[j] = h[j]
      BY <1>0, <2>4 DEF TypeOK
    <3> QED BY <1>0, <2>2, <3>1, <3>2, NotHis
  <2>5. CASE h[k] = "params" /\ h' = [h EXCEPT ![k] = "streams"] /\ down' = Tells(k, <<"CREATE_STREAMS">>)
    <3>1. Answered(k, <<"CREATE_STREAMS">>) /\ h'[k] = "streams" /\ (Control(d) # k => Moves(d))
      BY <2>4, <2>5, ServerSays, ZenonT(30)
    <3> QED BY <1>0, <2>2, <2>5, <3>1, Zenon DEF Moves, ServerMoves, Finishes
  <2>6. CASE h[k] = "running" /\ h' = [h EXCEPT ![k] = "results"] /\ down' = Tells(k, <<"EXCHANGE_RESULTS">>)
    <3>1. Answered(k, <<"EXCHANGE_RESULTS">>) /\ h'[k] = "results" /\ (Control(d) # k => Moves(d))
      BY <2>4, <2>6, ServerSays, ZenonT(30)
    <3> QED BY <1>0, <2>2, <2>6, <3>1, Zenon DEF Moves, ServerMoves, Finishes
  <2>7. CASE h[k] = "results" /\ h' = [h EXCEPT ![k] = "done"] /\ down' = Tells(k, <<"results", "DISPLAY_RESULTS">>)
    <3>1. Answered(k, <<"results", "DISPLAY_RESULTS">>) /\ h'[k] = "done" /\ (Control(d) # k => Moves(d))
      BY <2>4, <2>7, ServerSays, Zenon
    <3> QED BY <1>0, <2>2, <2>7, <3>1, Zenon DEF Moves, ServerMoves, Finishes
  <2> QED BY <1>3, <2>3, <2>5, <2>6, <2>7 DEF ReadParams, ReadTestEnd, ReadResults
<1> QED BY <1>1, <1>2, <1>3

\* Opening a connection is a move on it; a data connection is nobody's control connection.
LEMMA ConnectMoves ==
    ASSUME IInv, NEW c \in Clients, listening, Start(c) \/ OpenStream(c), NEW d \in Clients
    PROVE  Moves(d)
<1>0. /\ TypeOK /\ cl \in [Clients -> ClientRecord] /\ cl[c] \in ClientRecord
      /\ cl[c].opened \in 0..MaxParallel
  BY DEF IInv, TypeOK, ClientRecord
<1>1. CASE Start(c)
  <2>1. /\ h[Control(c)] = "none" /\ Control(c) \in Conns
        /\ h' = [h EXCEPT ![Control(c)] = "cookie"] /\ up' = [up EXCEPT ![Control(c)] = <<"cookie">>]
        /\ down' = down /\ cl' = [cl EXCEPT ![c].pc = "reading"]
    BY <1>1, ConnFacts DEF Start, Connect, IInv, Rest, Fresh
  <2>2. cl'[c].running = cl[c].running /\ cl'[c].pc = "reading" /\ \A e \in Clients : e # c => cl'[e] = cl[e]
    BY <1>0, <2>1 DEF ClientRecord
  <2>3. /\ h'[Control(c)] = "cookie" /\ up'[Control(c)] = <<"cookie">>
        /\ \A j \in Conns : j # Control(c) => h'[j] = h[j] /\ up'[j] = up[j]
    BY <1>0, <2>1 DEF TypeOK
  <2>4. CASE d = c
    BY <2>1, <2>2, <2>3, <2>4, Zenon DEF Moves, ServerMoves, Finishes
  <2>5. CASE d # c
    <3>1. Control(d) \in Conns /\ Control(d) # Control(c)
      BY <2>5, ConnFacts
    <3> QED BY <2>1, <2>2, <2>3, <2>5, <3>1, LeftAlone
  <2> QED BY <2>4, <2>5
<1>2. CASE OpenStream(c)
  <2> DEFINE n == cl[c].opened + 1
             pc == IF n = Params[c].parallel THEN "reading" ELSE "opening"
  <2>1. /\ Connect(<<c, n>>) /\ down' = down
        /\ cl' = [cl EXCEPT ![c] = [@ EXCEPT !.opened = n, !.pc = pc]]
    BY <1>2 DEF OpenStream
  <2>2. n # 0 /\ pc # "finished"
    BY <1>0, ConstantFacts
  <2>3. /\ cl'[c].running = cl[c].running /\ cl'[c].pc # "finished"
        /\ \A e \in Clients : e # c => cl'[e] = cl[e]
    <3> HIDE DEF n, pc
    <3> QED BY <1>0, <2>1, <2>2 DEF ClientRecord
  <2>4. Control(d) \in Conns /\ Control(d) # <<c, n>>
    <3> HIDE DEF n
    <3> QED BY <2>2, ConnFacts DEF Control
  <2>5. h'[Control(d)] = h[Control(d)] /\ up'[Control(d)] = up[Control(d)]
    <3> HIDE DEF n
    <3> QED BY <1>0, <2>1, <2>4 DEF Connect, TypeOK
  <2>6. CASE d = c
    BY <2>1, <2>3, <2>5, <2>6, Zenon DEF Moves, ClientMoves, Finishes
  <2>7. CASE d # c
    BY <2>1, <2>3, <2>5, <2>7, LeftAlone
  <2> QED BY <2>6, <2>7
<1> QED BY <1>1, <1>2

\* Every step is a move on every control connection.
LEMMA EveryStepMoves ==
    ASSUME IInv, Next
    PROVE  \A d \in Clients : Moves(d)
<1>0. TypeOK
  BY SMTT(30) DEF IInv
<1>1. CASE \E c \in Clients : Start(c) \/ StartRejected(c) \/ ClientStep(c) \/ Crash(c)
  <2> PICK c \in Clients : Start(c) \/ StartRejected(c) \/ ClientStep(c) \/ Crash(c)
    BY <1>1
  <2>1. CASE listening /\ (Start(c) \/ OpenStream(c))
    BY <2>1, ConnectMoves
  <2>2. CASE ~(listening /\ (Start(c) \/ OpenStream(c)))
    <3>0. Start(c) \/ OpenStream(c) => listening
      BY DEF Start, OpenStream
    <3>1. \/ OnParamExchange(c) \/ OnCreateStreams(c) \/ OnTestStart(c) \/ OnTestRunning(c)
          \/ EndTest(c) \/ OnExchangeResults(c) \/ ReadRemote(c) \/ OnDisplayResults(c)
          \/ OnRefusal(c) \/ ReadRejected(c) \/ Crash(c)
          \/ StartRejected(c) \/ StreamRejected(c)
      BY <2>2, <3>0, SMTT(30) DEF ClientStep
    <3> QED BY <1>0, <3>1, ClientStepMoves
  <2> QED BY <2>1, <2>2
<1>2. CASE \E k \in Conns : ServerStep(k)
  BY <1>2, ReadCookieMoves, SessionMoves DEF ServerStep
<1>3. CASE \/ Close
           \/ \E k \in Conns : Reset(k)
           \/ \E k \in Conns : \E bc, bs \in BOOLEAN : Break(k, bc, bs)
  <2>1. Loses
    BY <1>3, LosesKind
  <2>2. \A d \in Clients : Control(d) \in Conns
    BY ConnFacts
  <2> QED BY <2>1, <2>2, LeftAlone DEF Loses
<1> QED BY <1>1, <1>2, <1>3 DEF Next, Fault

\* Nothing follows the cookie on a data connection.
Silent == \A k \in Conns : k[2] # 0 /\ h[k] # "cookie" => up[k] = <<>>

\* The server has read the client's results, and no stream can join any more.
Complete(c) ==
    /\ h[Control(c)] \in {"done", "failing", "ended"}
    /\ Len(streams[Control(c)]) = Params[c].parallel
    /\ cl[c].opened = Params[c].parallel
    /\ ~(awaiting /\ active = Control(c))

\* DISPLAY_RESULTS is on its way in q.
Shown(q) == \E i \in 1..Len(q) : q[i] = "DISPLAY_RESULTS"

\* A client that is shown the results, or has seen them, has a complete test.
Ready(c) == Shown(down[Control(c)]) \/ cl[c].pc = "finished" => Complete(c)

TalkInv == Silent /\ \A c \in Clients : Talk(c) /\ Ready(c)

\* Only the server's last messages show the results.
LEMMA ShownBy ==
    ASSUME NEW q \in Seq(DownMessages)
    PROVE  /\ ~Shown(<<>>)
           /\ q # <<>> => (Shown(Tail(q)) => Shown(q)) /\ (Head(q) = "DISPLAY_RESULTS" => Shown(q))
           /\ \A m \in {"PARAM_EXCHANGE", "CREATE_STREAMS", "EXCHANGE_RESULTS", "SERVER_ERROR", "ACCESS_DENIED"} :
                  Shown(q \o <<m>>) => Shown(q)
           /\ Shown(q \o <<"TEST_START", "TEST_RUNNING">>) => Shown(q)
<1>1. ~Shown(<<>>)
  BY DEF Shown
<1>2. ASSUME q # <<>>
      PROVE  (Shown(Tail(q)) => Shown(q)) /\ (Head(q) = "DISPLAY_RESULTS" => Shown(q))
  <2>1. Len(q) \in Nat /\ Len(q) > 0 /\ Len(Tail(q)) = Len(q) - 1
        /\ \A i \in 1..Len(Tail(q)) : Tail(q)[i] = q[i + 1] /\ i + 1 \in 1..Len(q)
    BY <1>2
  <2>2. Head(q) = q[1] /\ 1 \in 1..Len(q)
    BY <1>2
  <2> QED BY <2>1, <2>2 DEF Shown
<1>3. ASSUME NEW m \in {"PARAM_EXCHANGE", "CREATE_STREAMS", "EXCHANGE_RESULTS", "SERVER_ERROR", "ACCESS_DENIED"},
             Shown(q \o <<m>>)
      PROVE  Shown(q)
  <2>1. /\ Len(q \o <<m>>) = Len(q) + 1 /\ Len(q) \in Nat /\ (q \o <<m>>)[Len(q) + 1] = m
        /\ \A i \in 1..Len(q) : (q \o <<m>>)[i] = q[i]
    OBVIOUS
  <2>2. m # "DISPLAY_RESULTS"
    OBVIOUS
  <2> DEFINE qm == q \o <<m>>
             n == Len(q)
  <2>3. PICK i \in 1..Len(qm) : qm[i] = "DISPLAY_RESULTS"
    BY <1>3 DEF Shown
  <2>4. Len(qm) = n + 1 /\ n \in Nat /\ qm[n + 1] = m /\ \A j \in 1..n : qm[j] = q[j]
    BY <2>1
  <2> HIDE DEF qm, n
  <2>5. i \in 1..n
    BY <2>2, <2>3, <2>4
  <2> QED BY <2>3, <2>4, <2>5 DEF n, Shown
<1>4. ASSUME Shown(q \o <<"TEST_START", "TEST_RUNNING">>)
      PROVE  Shown(q)
  <2> DEFINE qm == q \o <<"TEST_START", "TEST_RUNNING">>
             n == Len(q)
  <2>1. /\ Len(qm) = n + 2 /\ n \in Nat
        /\ qm[n + 1] = "TEST_START" /\ qm[n + 2] = "TEST_RUNNING"
        /\ \A j \in 1..n : qm[j] = q[j]
    OBVIOUS
  <2>3. PICK i \in 1..Len(qm) : qm[i] = "DISPLAY_RESULTS"
    BY <1>4 DEF Shown
  <2> HIDE DEF qm, n
  <2>5. i \in 1..n
    BY <2>1, <2>3
  <2> QED BY <2>1, <2>3, <2>5 DEF n, Shown
<1> QED BY <1>1, <1>2, <1>3, <1>4

\* The results are shown when the server has read the client's, and not before.
LEMMA ShownWhen ==
    ASSUME TypeOK, NEW c \in Clients, Moves(c), ~Shown(down[Control(c)]), Shown(down'[Control(c)])
    PROVE  h[Control(c)] = "results" /\ h'[Control(c)] = "done"
<1> DEFINE k == Control(c)
           q == down[k]
           q2 == down'[k]
<1>0. q \in Seq(DownMessages)
  BY ConnFacts DEF TypeOK
<1>1. /\ q2 # q /\ q2 # <<>> /\ ~(q # <<>> /\ q2 = Tail(q))
      /\ \A m \in {"PARAM_EXCHANGE", "CREATE_STREAMS", "EXCHANGE_RESULTS", "SERVER_ERROR", "ACCESS_DENIED"} :
            q2 # q \o <<m>>
      /\ q2 # q \o <<"TEST_START", "TEST_RUNNING">>
  <2>1. Shown(q2) /\ ~Shown(q)
    OBVIOUS
  <2> HIDE DEF q, q2
  <2> QED BY <1>0, <2>1, ShownBy, ZenonT(30)
<1>2. ~ClientMoves(c)
  <2>1. \A m : ~Heard(k, m)
    BY <1>1, Zenon DEF Heard
  <2> QED BY <1>1, <2>1, Zenon DEF ClientMoves
<1>3. ServerMoves(c)
  BY <1>2, Zenon DEF Moves
<1>4. /\ ~Answered(k, <<"PARAM_EXCHANGE">>) /\ ~Answered(k, <<"CREATE_STREAMS">>)
      /\ ~Answered(k, <<"EXCHANGE_RESULTS">>) /\ ~Answered(k, <<"SERVER_ERROR">>)
      /\ ~Answered(k, <<"ACCESS_DENIED">>) /\ ~Answered(k, <<"TEST_START", "TEST_RUNNING">>)
  BY <1>1, Zenon DEF Answered
<1> QED BY <1>1, <1>3, <1>4, Zenon DEF ServerMoves

\* A session whose results are read has all its streams, and its client has opened them.
LEMMA CompleteWhen ==
    ASSUME IInv, Next, NEW c \in Clients, h[Control(c)] = "results", h'[Control(c)] = "done"
    PROVE  Complete(c)'
<1> DEFINE k == Control(c)
           n == Params[c].parallel
<1>0. /\ k \in Conns /\ k[1] = c /\ h \in [Conns -> {"none", "cookie", "stream", "ended"} \cup Session]
      /\ n \in 1..MaxParallel /\ MaxParallel \in Nat /\ n \in 1..n
      /\ cl[c].opened \in Nat /\ cl[c].opened <= n
  <2>1. k \in Conns /\ k[1] = c
    BY ConnFacts, Zenon
  <2>2. n \in 1..MaxParallel /\ MaxParallel \in Nat
    BY ConstantFacts, Zenon
  <2>3. h \in [Conns -> {"none", "cookie", "stream", "ended"} \cup Session] /\ cl[c] \in ClientRecord
    BY DEF IInv, TypeOK
  <2>4. cl[c].opened <= n
    BY Zenon DEF IInv, Rest, Fresh
  <2> HIDE DEF k, n
  <2>5. n \in 1..n
    BY <2>2
  <2>6. cl[c].opened \in Nat
    BY <2>2, <2>3 DEF ClientRecord
  <2> QED BY <2>1, <2>2, <2>3, <2>4, <2>5, <2>6
<1>1. UNCHANGED <<cl, active, awaiting, streams>>
  <2>1. CASE \E d \in Clients : QuietClient(d)
    BY <2>1 DEF QuietClient
  <2>2. CASE Loses
    BY <2>2 DEF Loses
  <2>3. ASSUME NEW d \in Clients, listening, Start(d) \/ OpenStream(d) PROVE FALSE
    <3>1. \E j : h' = [h EXCEPT ![j] = "cookie"]
      BY <2>3, Zenon DEF Start, OpenStream, Connect
    <3> QED BY <1>0, <3>1
  <2>4. ASSUME NEW j \in Conns, Joins(j) PROVE FALSE
    <3>1. \/ h' = [h EXCEPT ![j] = "stream"]
          \/ h' = [h EXCEPT ![j] = "stream", ![active] = "running"]
      BY <2>4, Zenon DEF Joins
    <3> QED BY <1>0, <3>1
  <2>5. ASSUME NEW j \in Conns, TurnsAway(j) \/ Begins(j) \/ Asks(j) \/ Frees(j)
        PROVE  FALSE
    <3>1. \E y \in {"ended", "params", "streams"} : h' = [h EXCEPT ![j] = y]
      BY <2>5 DEF TurnsAway, Begins, Asks, Frees
    <3> QED BY <1>0, <3>1
  <2>6. ASSUME NEW j \in Conns, Advances(j, "results") \/ Advances(j, "done") \/ Advances(j, "failing")
        PROVE  UNCHANGED <<cl, active, awaiting, streams>>
    BY <2>6 DEF Advances
  <2> QED BY <2>1, <2>2, <2>3, <2>4, <2>5, <2>6, StepKinds
<1>2. Len(streams[k]) = n /\ Members(k) = {<<c, i>> : i \in 1..n}
  BY <1>0, ExactStreams DEF StreamsExact
<1>3. cl[c].opened = n
  <2>1. <<c, n>> \in Members(k)
    BY <1>0, <1>2
  <2>2. h[<<c, n>>] = "stream"
    <3>1. streams[k] \in Seq(Conns) /\ DOMAIN streams[k] = 1..Len(streams[k])
      BY <1>0 DEF IInv, TypeOK
    <3>2. PICK i \in 1..Len(streams[k]) : streams[k][i] = <<c, n>>
      BY <2>1, <3>1 DEF Members
    <3>3. h[streams[k][i]] = "stream"
      BY <1>0 DEF IInv, Rest, Owned
    <3> QED BY <3>2, <3>3
  <2>3. ~(cl[c].opened < n)
    BY <1>0, <2>2 DEF IInv, Rest, Fresh
  <2> HIDE DEF n
  <2> QED BY <1>0, <2>3
<1>4. ~(awaiting /\ active = k)
  BY DEF IInv, Rest, Awaits
<1> QED BY <1>1, <1>2, <1>3, <1>4 DEF Complete

\* A complete test stays complete.
LEMMA CompleteStays ==
    ASSUME IInv, Next, NEW c \in Clients, Complete(c)
    PROVE  Complete(c)'
<1> DEFINE k == Control(c)
<1>0. /\ k \in Conns /\ k[1] = c /\ h \in [Conns -> {"none", "cookie", "stream", "ended"} \cup Session]
      /\ streams \in [Conns -> Seq(Conns)] /\ cl \in [Clients -> ClientRecord]
  BY ConnFacts DEF IInv, TypeOK
<1>1. h[k] \in {"done", "failing", "ended"} /\ ~(awaiting /\ active = k)
  BY DEF Complete
<1>2. SUFFICES /\ h'[k] \in {"done", "failing", "ended"} /\ streams'[k] = streams[k]
               /\ cl'[c].opened = cl[c].opened /\ ~(awaiting' /\ active' = k)
  BY DEF Complete
<1>3. CASE \E d \in Clients : QuietClient(d)
  <2> PICK d \in Clients : QuietClient(d)
    BY <1>3
  <2>1. cl'[c].opened = cl[c].opened
    BY DEF QuietClient
  <2> QED BY <1>1, <2>1, ZenonT(30) DEF QuietClient
<1>4. CASE Loses
  BY <1>1, <1>4 DEF Loses
<1>5. ASSUME NEW d \in Clients, listening, Start(d) \/ OpenStream(d)
      PROVE  /\ h'[k] \in {"done", "failing", "ended"} /\ streams'[k] = streams[k]
             /\ cl'[c].opened = cl[c].opened /\ ~(awaiting' /\ active' = k)
  <2>1. d # c
    <3>1. ~Start(c)
      BY <1>1 DEF Start, IInv, Rest, Fresh
    <3>2. ~OpenStream(c)
      <4>1. cl[c].opened = Params[c].parallel /\ Params[c].parallel \in Nat
        BY ConstantFacts DEF Complete
      <4>2. cl[c].pc # "opening"
        BY <4>1 DEF IInv, Rest, Fresh
      <4> QED BY <4>2 DEF OpenStream
    <3> QED BY <1>5, <3>1, <3>2
  <2>2. \E i : Connect(<<d, i>>)
    BY <1>5, Zenon DEF Start, OpenStream, Control
  <2>3. PICK i : Connect(<<d, i>>)
    BY <2>2, ZenonT(30)
  <2>4. k # <<d, i>>
    BY <2>1 DEF Control
  <2>5. h'[k] = h[k] /\ UNCHANGED <<active, awaiting, streams>>
    BY <1>0, <2>3, <2>4 DEF Connect
  <2>6. cl'[c] = cl[c]
    BY <1>0, <1>5, <2>1 DEF Start, OpenStream
  <2> QED BY <1>1, <2>5, <2>6
<1>6. ASSUME NEW j \in Conns, Joins(j)
      PROVE  /\ h'[k] \in {"done", "failing", "ended"} /\ streams'[k] = streams[k]
             /\ cl'[c].opened = cl[c].opened /\ ~(awaiting' /\ active' = k)
  <2>1. active # k /\ j # k /\ UNCHANGED <<cl, active>>
    BY <1>1, <1>6 DEF Joins
  <2>2. streams'[k] = streams[k]
    BY <1>0, <1>6, <2>1 DEF Joins
  <2>3. h'[k] = h[k]
    BY <1>0, <1>6, <2>1, ZenonT(30) DEF Joins
  <2> QED BY <1>1, <2>1, <2>2, <2>3
<1>7. ASSUME NEW j \in Conns, TurnsAway(j) \/ Begins(j) \/ Asks(j)
      PROVE  /\ h'[k] \in {"done", "failing", "ended"} /\ streams'[k] = streams[k]
             /\ cl'[c].opened = cl[c].opened /\ ~(awaiting' /\ active' = k)
  <2>1. j # k /\ UNCHANGED <<cl, streams>> /\ \E y : h' = [h EXCEPT ![j] = y]
    BY <1>1, <1>7 DEF TurnsAway, Begins, Asks
  <2>2. h'[k] = h[k]
    BY <1>0, <2>1
  <2>3. ~(awaiting' /\ active' = k)
    <3>1. CASE TurnsAway(j)
      BY <1>1, <3>1 DEF TurnsAway
    <3>2. CASE Begins(j)
      BY <3>2 DEF Begins
    <3>3. CASE Asks(j)
      <4>1. active = j /\ active' = active
        BY <3>3 DEF Asks, IInv, Rest, Slot, Session
      <4> QED BY <2>1, <4>1
    <3> QED BY <1>7, <3>1, <3>2, <3>3
  <2> QED BY <1>1, <2>1, <2>2, <2>3
<1>8. ASSUME NEW j \in Conns, Frees(j)
      PROVE  /\ h'[k] \in {"done", "failing", "ended"} /\ streams'[k] = streams[k]
             /\ cl'[c].opened = cl[c].opened /\ ~(awaiting' /\ active' = k)
  BY <1>0, <1>1, <1>8 DEF Frees
<1>9. ASSUME NEW j \in Conns, Advances(j, "results") \/ Advances(j, "done") \/ Advances(j, "failing")
      PROVE  /\ h'[k] \in {"done", "failing", "ended"} /\ streams'[k] = streams[k]
             /\ cl'[c].opened = cl[c].opened /\ ~(awaiting' /\ active' = k)
  <2>1. UNCHANGED <<cl, active, awaiting, streams>>
    BY <1>9 DEF Advances
  <2>2. h'[k] \in {"done", "failing", "ended"}
    BY <1>0, <1>1, <1>9 DEF Advances
  <2> QED BY <1>1, <2>1, <2>2
<1> QED BY <1>3, <1>4, <1>5, <1>6, <1>7, <1>8, <1>9, StepKinds, ZenonT(30)

\* A data connection has nothing left to say once its cookie is read.
LEMMA SilentStep ==
    ASSUME IInv, Silent, Next
    PROVE  Silent'
<1> SUFFICES ASSUME NEW k \in Conns, k[2] # 0, h'[k] # "cookie"
             PROVE  up'[k] = <<>>
  BY DEF Silent
<1>0. TypeOK /\ h \in [Conns -> {"none", "cookie", "stream", "ended"} \cup Session]
      /\ up \in [Conns -> Seq(UpMessages)]
  BY DEF IInv, TypeOK
<1>a. h[k] # "cookie" => up[k] = <<>>
  BY DEF Silent
<1>b. Tail(<<"cookie">>) = <<>>
  OBVIOUS
<1>1. CASE \E c \in Clients : QuietClient(c)
  BY <1>1, <1>a DEF QuietClient
<1>2. CASE Loses
  BY <1>2, <1>a DEF Loses
<1>3. ASSUME NEW c \in Clients, listening, Start(c) \/ OpenStream(c)
      PROVE  up'[k] = <<>>
  <2>1. PICK j : Connect(j)
    BY <1>3 DEF Start, OpenStream
  <2>2. j # k
    BY <1>0, <2>1 DEF Connect
  <2>3. h'[k] = h[k] /\ up'[k] = up[k]
    BY <1>0, <2>1, <2>2 DEF Connect
  <2> QED BY <1>a, <2>3
<1>4. ASSUME NEW j \in Conns, ServerStep(j)
      PROVE  up'[k] = <<>>
  <2>1. \/ up' = [up EXCEPT ![j] = Tail(@)] /\ up[j] # <<>>
        \/ up' = Lost(up, {j})
        \/ up' = up /\ h[j] # "cookie" /\ \E y : h' = [h EXCEPT ![j] = y]
    BY <1>4, Zenon DEF ServerStep, ReadCookie, CookieRejected, ReadParams, ReadTestEnd, ReadResults, ReadDone,
                EndSession, SessionRejected, Fail, Finish
  <2>2. up[k] = <<>> \/ up[k] = <<"cookie">>
    BY DEF IInv, Rest, Stray
  <2>3. CASE j = k
    <3>1. CASE up' = [up EXCEPT ![j] = Tail(@)] /\ up[j] # <<>>
      BY <1>0, <1>b, <2>2, <2>3, <3>1
    <3>2. CASE up' = Lost(up, {j})
      BY <2>3, <3>2 DEF Lost
    <3>3. CASE up' = up /\ h[j] # "cookie"
      BY <1>a, <2>3, <3>3
    <3> QED BY <2>1, <3>1, <3>2, <3>3
  <2>4. CASE j # k
    <3>1. up'[k] = up[k]
      BY <1>0, <2>1, <2>4 DEF Lost
    <3>2. h[k] # "cookie"
      <4>1. CASE ReadCookie(j)
        <5>1. CASE AcceptStream(j)
          <6>1. active \in Conns /\ h[active] \in Session
            BY <5>1 DEF AcceptStream, WantsStream, IInv, TypeOK, Rest, Slot
          <6>2. \/ h' = [h EXCEPT ![j] = "stream"]
                \/ h' = [h EXCEPT ![j] = "stream", ![active] = "running"]
            BY <5>1 DEF AcceptStream
          <6> QED BY <1>0, <2>4, <6>1, <6>2 DEF Session
        <5>2. CASE Deny(j) \/ BeginSession(j)
          BY <1>0, <2>4, <5>2 DEF Deny, BeginSession
        <5> QED BY <4>1, <5>1, <5>2 DEF ReadCookie
      <4>2. CASE ~ReadCookie(j)
        <5>1. \E y : h' = [h EXCEPT ![j] = y]
          BY <1>4, <4>2, ZenonT(30) DEF ServerStep, CookieRejected, ReadParams, ReadTestEnd, ReadResults, ReadDone,
                            EndSession, SessionRejected, Fail, Finish
        <5> QED BY <1>0, <2>4, <5>1
      <4> QED BY <4>1, <4>2
    <3> QED BY <1>a, <3>1, <3>2
  <2> QED BY <2>3, <2>4
<1>5. CASE \E c \in Clients : Start(c) \/ StartRejected(c) \/ ClientStep(c) \/ Crash(c)
  <2> PICK c \in Clients : Start(c) \/ StartRejected(c) \/ ClientStep(c) \/ Crash(c)
    BY <1>5
  <2>1. CASE ~(listening /\ (Start(c) \/ OpenStream(c)))
    <3>0. Start(c) \/ OpenStream(c) => listening
      BY DEF Start, OpenStream
    <3>1. \/ OnParamExchange(c) \/ OnCreateStreams(c) \/ OnTestStart(c) \/ OnTestRunning(c)
          \/ EndTest(c) \/ OnExchangeResults(c) \/ ReadRemote(c) \/ OnDisplayResults(c)
          \/ OnRefusal(c) \/ ReadRejected(c) \/ Crash(c)
          \/ StartRejected(c) \/ StreamRejected(c)
      BY <2>1, <3>0, Zenon DEF ClientStep
    <3> QED BY <1>0, <1>1, <3>1, ClientStepIsQuiet, ZenonT(30)
  <2> QED BY <1>3, <2>1
<1>6. CASE \/ Close
           \/ \E j \in Conns : Reset(j)
           \/ \E j \in Conns : \E bc, bs \in BOOLEAN : Break(j, bc, bs)
  BY <1>2, <1>6, LosesKind
<1> QED BY <1>4, <1>5, <1>6 DEF Next, Fault

\* The conversations, and what finishing means, are kept by every step.
LEMMA TalkStep ==
    ASSUME IInv, TalkInv, Next
    PROVE  TalkInv'
<1>0. TypeOK /\ TypeOK'
  BY StepKinds DEF IInv
<1>1. Silent'
  BY SilentStep DEF TalkInv
<1> SUFFICES ASSUME NEW c \in Clients PROVE Talk(c)' /\ Ready(c)'
  BY <1>1 DEF TalkInv
<1>2. Moves(c)
  BY EveryStepMoves
<1>3. cl[c].running \in BOOLEAN /\ cl'[c].running \in BOOLEAN
  BY <1>0 DEF TypeOK, ClientRecord
<1>4. Talk(c)'
  BY <1>2, <1>3, MovesTalk DEF TalkInv
<1>5. Ready(c)'
  <2>1. SUFFICES ASSUME Shown(down'[Control(c)]) \/ cl'[c].pc = "finished"
                 PROVE  Complete(c)'
    BY DEF Ready
  <2>2. CASE Shown(down[Control(c)]) \/ cl[c].pc = "finished"
    BY <2>2, CompleteStays DEF TalkInv, Ready
  <2>3. CASE ~Shown(down[Control(c)]) /\ cl[c].pc # "finished"
    <3>1. down[Control(c)] \in Seq(DownMessages)
      BY <1>0, ConnFacts DEF TypeOK
    <3>2. ~(down[Control(c)] # <<>> /\ Head(down[Control(c)]) = "DISPLAY_RESULTS")
      BY <2>3, <3>1, ShownBy
    <3>3. cl'[c].pc # "finished"
      BY <1>2, <2>3, <3>2 DEF Moves, Finishes
    <3>4. h[Control(c)] = "results" /\ h'[Control(c)] = "done"
      BY <1>0, <1>2, <2>1, <2>3, <3>3, ShownWhen
    <3> QED BY <3>4, CompleteWhen
  <2> QED BY <2>2, <2>3
<1> QED BY <1>4, <1>5

\* Together with the books of the server the conversations are an invariant.
LEMMA TalkInvariance == Spec => []TalkInv
<1>1. Init => TalkInv
  <2> SUFFICES ASSUME Init PROVE TalkInv
    OBVIOUS
  <2>1. /\ \A k \in Conns : h[k] = "none" /\ up[k] = <<>> /\ down[k] = <<>>
        /\ \A c \in Clients : cl[c].running = FALSE /\ cl[c].pc = "idle"
    BY DEF Init
  <2>2. Silent
    BY <2>1 DEF Silent
  <2>3. \A c \in Clients : Talk(c)
    BY <2>1, ConnFacts, Zenon DEF Talk, Talks, Turn
  <2>4. ~Shown(<<>>)
    BY DEF Shown
  <2>5. \A c \in Clients : Ready(c)
    BY <2>1, <2>4, ConnFacts DEF Ready
  <2> QED BY <2>2, <2>3, <2>5 DEF TalkInv
<1>2. IInv /\ TalkInv /\ [Next]_vars => TalkInv'
  <2>1. ASSUME TalkInv, UNCHANGED vars PROVE TalkInv'
    <3>1. Silent'
      BY <2>1 DEF TalkInv, Silent, vars
    <3>2. ASSUME NEW c \in Clients PROVE Talk(c)' /\ Ready(c)'
      BY <2>1 DEF TalkInv, Talk, Ready, Complete, vars
    <3> QED BY <3>1, <3>2 DEF TalkInv
  <2> QED BY <2>1, TalkStep
<1> QED BY <1>1, <1>2, Invariance, PTL DEF Spec

\* Whenever a session reads, what it finds first is what it expects: at every stage either
\* the client or the server has the word, and a client ends its test at most once.
THEOREM SessionsInStep == Spec => []InStep
<1>1. ASSUME IInv, TalkInv PROVE InStep
  <2> SUFFICES ASSUME NEW k \in Conns, up[k] # <<>>
               PROVE  /\ h[k] = "params" => Head(up[k]) = "params"
                      /\ h[k] = "running" => Head(up[k]) = "TEST_END"
                      /\ h[k] = "results" => Head(up[k]) = "results"
                      /\ h[k] = "done" => Head(up[k]) = "IPERF_DONE"
    BY DEF InStep
  <2>1. CASE k[2] # 0
    BY <1>1, <2>1 DEF TalkInv, Silent
  <2>2. CASE k[2] = 0
    <3>1. k[1] \in Clients /\ k = Control(k[1])
      BY <2>2, ConnFacts DEF Control
    <3>2. Talks(h[k], up[k], down[k], cl[k[1]].running) /\ cl[k[1]].running \in BOOLEAN
      BY <1>1, <3>1 DEF TalkInv, Talk, IInv, TypeOK, ClientRecord
    <3>3. ASSUME h[k] \in {"cookie", "params", "streams", "running", "results", "done"}
          PROVE  /\ h[k] = "params" => Head(up[k]) = "params"
                 /\ h[k] = "running" => Head(up[k]) = "TEST_END"
                 /\ h[k] = "results" => Head(up[k]) = "results"
                 /\ h[k] = "done" => Head(up[k]) = "IPERF_DONE"
      BY <3>2, <3>3, ServersTurn
    <3> QED BY <3>3
  <2> QED BY <2>1, <2>2
<1> QED BY <1>1, Invariance, TalkInvariance, PTL

\* A client that returns a result has run its test to the end: the server has read the
\* client's results, and both had all the streams of the test.
THEOREM FinishTogether == Spec => []FinishedTogether
<1>1. TalkInv => FinishedTogether
  BY DEF TalkInv, Ready, Complete, FinishedTogether
<1> QED BY <1>1, TalkInvariance, PTL
=============================================================================
