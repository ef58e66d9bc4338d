------------------------------ MODULE BytePipe ------------------------------
(***************************************************************************)
(* The byte pipe under every control connection of packages/netsu: the     *)
(* ByteBuffer that a transport feeds and readExact() empties, and the pipe *)
(* that is detached when its connection turns out to carry a stream.  The  *)
(* k-th byte of the connection is the number k.  Reads are numbered; the   *)
(* timer of a read carries its number.                                     *)
(***************************************************************************)
EXTENDS Integers, SequencesExt

CONSTANTS
    MaxBytes,     \* bound on the bytes that arrive
    ChunkSizes,   \* sizes of the chunks they arrive in
    ReadSizes,    \* arguments of readExact
    MaxReads,     \* bound on the calls of readExact
    MaxChunks     \* bound on the chunks in the buffer, empty ones included

VARIABLES
    arrived,    \* how many bytes have arrived
    chunks,     \* ByteBuffer.chunks
    length,     \* ByteBuffer.length
    waiter,     \* ByteBuffer.waiter: a set of at most one [id, n]
    closed,     \* ByteBuffer.closed
    timers,     \* reads whose timer is armed
    reads,      \* read -> "waiting", or how it was settled
    taken,      \* the bytes that reads were resolved with
    detached,   \* TcpPipe.#detached
    channel     \* the bytes that arrived at the channel after detach()

pipeVars == <<arrived, chunks, length, waiter, closed, timers, reads, taken, detached, channel>>

PipeInit ==
    /\ arrived = 0
    /\ chunks = <<>> /\ length = 0
    /\ waiter = {} /\ timers = {} /\ reads = <<>>
    /\ closed = FALSE /\ detached = FALSE
    /\ taken = <<>> /\ channel = <<>>

RECURSIVE Drop(_, _)

\* Mutant: a chunk that is read in part is dropped as a whole.
DropWhole(cs, n) == IF n = 0 THEN cs ELSE Tail(cs)

\* The chunks that are left when n bytes are taken from the front.
Drop(cs, n) ==
    IF n = 0 THEN cs
    ELSE IF Len(Head(cs)) <= n THEN Drop(Tail(cs), n - Len(Head(cs)))
    ELSE <<SubSeq(Head(cs), n + 1, Len(Head(cs)))>> \o Tail(cs)

\* Mutant: a read that is settled leaves its timer armed.
ClearTimeoutNever(ts, id) == ts

ClearTimeout(ts, id) == ts \ {id}

\* pump(), on what its caller leaves of the chunks, length, waiter, timers and reads.
Pump(cs, len, ws, ts, rs) ==
    IF \E w \in ws : len >= w.n
      THEN LET w == CHOOSE w \in ws : TRUE IN
           /\ waiter' = {}
           /\ timers' = ClearTimeout(ts, w.id)
           /\ chunks' = Drop(cs, w.n)
           /\ length' = len - w.n
           /\ taken' = taken \o SubSeq(FlattenSeq(cs), 1, w.n)
           /\ reads' = [rs EXCEPT ![w.id] = "resolved"]
      ELSE waiter' = ws /\ chunks' = cs /\ length' = len /\ timers' = ts /\ reads' = rs /\ taken' = taken

\* end(): whoever waits is rejected.
Ended(ws, ts, rs) ==
    /\ closed' = TRUE
    /\ waiter' = {}
    /\ timers' = {t \in ts : \A w \in ws : t \in ClearTimeout(ts, w.id)}
    /\ reads' = [r \in DOMAIN rs |-> IF \E w \in ws : w.id = r THEN "rejected" ELSE rs[r]]
    /\ UNCHANGED <<chunks, length, taken>>

-----------------------------------------------------------------------------
\* A chunk arrives: at the buffer, or at the channel once the pipe is detached.
Data(k) ==
    LET bytes == [i \in 1..k |-> arrived + i] IN
    /\ ~closed /\ arrived + k <= MaxBytes /\ Len(chunks) < MaxChunks
    /\ arrived' = arrived + k
    /\ IF detached
         THEN channel' = channel \o bytes /\ UNCHANGED <<chunks, length, waiter, timers, reads, taken>>
         ELSE Pump(Append(chunks, bytes), length + k, waiter, timers, reads) /\ channel' = channel
    /\ UNCHANGED <<closed, detached>>

\* readExact(n), with or without a deadline.
ReadExact(n, timed) ==
    LET id == Len(reads) + 1 IN
    /\ Len(reads) < MaxReads
    /\ \/ /\ waiter # {}
          /\ reads' = Append(reads, "rejected")
          /\ UNCHANGED <<chunks, length, waiter, closed, timers, taken>>
       \/ /\ waiter = {} /\ closed /\ length < n
          /\ Ended({[id |-> id, n |-> n]}, timers, Append(reads, "waiting"))
       \/ /\ waiter = {} /\ ~(closed /\ length < n)
          /\ Pump(chunks, length, {[id |-> id, n |-> n]},
                  timers \cup (IF timed THEN {id} ELSE {}), Append(reads, "waiting"))
          /\ closed' = closed
    /\ UNCHANGED <<arrived, detached, channel>>

\* The timer of a read fires: whatever waits now is forgotten.
TimerFires(id) ==
    /\ timers' = timers \ {id}
    /\ waiter' = {}
    /\ reads' = [reads EXCEPT ![id] = IF @ = "waiting" THEN "rejected" ELSE @]
    /\ UNCHANGED <<arrived, chunks, length, closed, taken, detached, channel>>

\* The connection closes or fails, or close() is called; a detached pipe hears nothing
\* of it and close() leaves its connection alone.
Close ==
    /\ ~closed /\ ~detached
    /\ Ended(waiter, timers, reads)
    /\ UNCHANGED <<arrived, detached, channel>>

\* detach() succeeds; it throws when bytes are buffered or a read is pending.
Detach ==
    /\ ~detached /\ length = 0 /\ waiter = {}
    /\ detached' = TRUE
    /\ UNCHANGED <<arrived, chunks, length, waiter, closed, timers, reads, taken, channel>>

PipeNext ==
    \/ \E k \in ChunkSizes : Data(k)
    \/ \E n \in ReadSizes, timed \in BOOLEAN : ~detached /\ ReadExact(n, timed)
    \/ \E id \in timers : TimerFires(id)
    \/ Close \/ Detach

PipeSpec == PipeInit /\ [][PipeNext]_pipeVars

-----------------------------------------------------------------------------
\* Reads and the channel get every byte once and in order: what was read, what is
\* buffered and what the channel got are all that arrived, and nothing is left in the
\* buffer of a detached pipe.  A read that times out takes nothing.
Conserved ==
    /\ taken \o FlattenSeq(chunks) \o channel = [i \in 1..arrived |-> i]
    /\ length = Len(FlattenSeq(chunks))
    /\ detached => length = 0

\* A read that is not settled is the waiter, at an open pipe and for bytes that are not
\* there yet, so something will settle it: a timer that outlives its read would take the
\* next one's waiter away.
NeverStranded ==
    \A r \in 1..Len(reads) : reads[r] = "waiting" =>
        ~closed /\ \E w \in waiter : w.id = r /\ length < w.n

=============================================================================
