--------------------------- MODULE RoomAllocation ---------------------------
(***************************************************************************)
(* allocateSignalRoom of apps/rendez-key (routes/create-signal-room.ts):   *)
(* concurrent requests pick codes and call initialize() on the room of the *)
(* code.  The remote call may be answered, or throw although the room has  *)
(* stored the row, or throw and run late, or throw and never run.  A       *)
(* request is identified with the secret it generated.                     *)
(***************************************************************************)
EXTENDS Integers

CONSTANTS
    Requests,         \* allocation requests
    RoomCodes,        \* what generateCode() may return
    MaxCodeAttempts   \* MAX_CODE_ATTEMPTS

ASSUME AllocationAssumption ==
    "nobody" \notin Requests /\ "none" \notin RoomCodes /\ MaxCodeAttempts \in Nat \ {0}

VARIABLES
    owner,   \* code -> the request whose secret hash the room's row holds
    req,     \* state of each request
    delayed     \* calls that have thrown and may still run

allocVars == <<owner, req, delayed>>

AllocInit ==
    /\ owner = [c \in RoomCodes |-> "nobody"]
    /\ req = [a \in Requests |-> [pc |-> "pick", code |-> "none", attempt |-> 0]]
    /\ delayed = {}

\* Mutant: a room that exists is taken for granted.
AcceptedAlways(c, a) == TRUE

\* initialize(): the first caller's row stays; created || matchesInput.
Stored(c, a) == IF owner[c] = "nobody" THEN [owner EXCEPT ![c] = a] ELSE owner
Accepted(c, a) == owner[c] \in {"nobody", a}

Pick(a, c) ==
    /\ req[a].pc = "pick"
    /\ req' = [req EXCEPT ![a] = [@ EXCEPT !.pc = "call", !.code = c]]
    /\ UNCHANGED <<owner, delayed>>

\* The loop goes on with another code, or gives up (null).
NextAttempt(a) ==
    [req EXCEPT ![a] = [pc |-> IF req[a].attempt + 1 < MaxCodeAttempts THEN "pick" ELSE "null",
                        code |-> req[a].code, attempt |-> req[a].attempt + 1]]

\* The call is answered.
Answered(a) ==
    LET c == req[a].code IN
    /\ req[a].pc \in {"call", "retry"}
    /\ owner' = Stored(c, a)
    /\ req' = IF Accepted(c, a) THEN [req EXCEPT ![a] = [@ EXCEPT !.pc = "allocated"]]
              ELSE NextAttempt(a)
    /\ UNCHANGED delayed

\* The call throws: the first time it is retried with the same input, the second
\* time the code is abandoned.  What the room did or will do is unknown.
Thrown(a, fate) ==
    LET c == req[a].code IN
    /\ req[a].pc \in {"call", "retry"}
    /\ req' = IF req[a].pc = "call" THEN [req EXCEPT ![a] = [@ EXCEPT !.pc = "retry"]]
              ELSE NextAttempt(a)
    /\ owner' = IF fate = "committed" THEN Stored(c, a) ELSE owner
    /\ delayed' = IF fate = "late" THEN delayed \cup {<<a, c>>} ELSE delayed

LateCall(call) ==
    /\ call \in delayed
    /\ owner' = Stored(call[2], call[1])
    /\ delayed' = delayed \ {call}
    /\ UNCHANGED req

AllocNext ==
    \/ \E a \in Requests :
         \/ \E c \in RoomCodes : Pick(a, c)
         \/ Answered(a)
         \/ \E fate \in {"committed", "late", "never"} : Thrown(a, fate)
    \/ \E call \in delayed : LateCall(call)

AllocSpec == AllocInit /\ [][AllocNext]_allocVars

-----------------------------------------------------------------------------
Request == [pc : {"pick", "call", "retry", "allocated", "null"}, code : RoomCodes \cup {"none"},
            attempt : 0..MaxCodeAttempts]

AllocTypeOK ==
    /\ owner \in [RoomCodes -> Requests \cup {"nobody"}]
    /\ req \in [Requests -> Request]
    /\ delayed \subseteq Requests \X RoomCodes
    /\ \A a \in Requests : /\ req[a].pc = "pick" => req[a].attempt < MaxCodeAttempts
                           /\ req[a].pc \in {"call", "retry"} =>
                                 req[a].attempt < MaxCodeAttempts /\ req[a].code \in RoomCodes
                           /\ req[a].pc = "allocated" => req[a].code \in RoomCodes

\* The code and secret a request answers with belong together: the room stores
\* that secret, so its listener can bind, and no two requests share a room,
\* whatever calls were lost, repeated or delayed.
OwnsRoom == \A a \in Requests : req[a].pc = "allocated" => owner[req[a].code] = a
=============================================================================
