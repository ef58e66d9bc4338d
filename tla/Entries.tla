------------------------------- MODULE Entries -------------------------------
(***************************************************************************)
(* The entry service of apps/rendez-key: create and claim requests and the *)
(* scheduled cleanup, each an independent Worker invocation, against one   *)
(* D1 table.  A request samples Date.now() once and reaches the database   *)
(* later, so its idea of the time may be stale; a statement (or a batch) is*)
(* one transaction, and its reply may be lost after it committed.  The     *)
(* value of an entry is identified with the request that created it.       *)
(***************************************************************************)
EXTENDS Integers, FiniteSets, FiniteSetsExt

CONSTANTS
    Creates,       \* create requests
    Claims,        \* claim requests; also their crypto.randomUUID() claim ids
    Codes,         \* what generateCode() may return
    Ttls,          \* requested ttl values
    Reads,         \* requested numbers of reads
    Limits,        \* tier -> [minTtl, maxTtl, minReads, maxReads]
    OpenMode,      \* PUBLIC_CREATE
    MaxAttempts,   \* MAX_CODE_INSERT_ATTEMPTS
    MaxTime        \* bound on the clock

Tiers == {"privileged", "anonymous"}

ASSUME EntriesAssumption ==
    /\ "none" \notin Creates \cup Claims \cup Codes
    /\ Ttls \subseteq Nat /\ Reads \subseteq Nat
    /\ MaxAttempts \in Nat \ {0} /\ MaxTime \in Nat /\ OpenMode \in BOOLEAN

VARIABLES
    now,       \* Date.now() in seconds
    entries,   \* the table: code -> row, or NoRow
    create,    \* state of each create request
    claim,     \* state of each claim request
    sweep      \* the scheduledTime of a pending runCleanup, or NoSweep

vars == <<now, entries, create, claim, sweep>>

Times == 0..MaxTime
NoSweep == -1
NoRow == [value |-> "none", expiresAt |-> 0, maxReads |-> 0, remainingReads |-> 0,
          lastClaimId |-> "none"]
Present(code) == entries[code].value # "none"

IdleCreate == [pc |-> "idle", expiresAt |-> 0, maxReads |-> 0, attempt |-> 0, code |-> "none"]
IdleClaim == [pc |-> "idle", nowSeconds |-> 0, code |-> "none", value |-> "none",
              remainingReads |-> 0]

Init ==
    /\ now = 0
    /\ entries = [k \in Codes |-> NoRow]
    /\ create = [r \in Creates |-> IdleCreate]
    /\ claim = [r \in Claims |-> IdleClaim]
    /\ sweep = NoSweep

-----------------------------------------------------------------------------
\* authorizeCreate: the tier a request runs under, or "none" for 401.  The rate
\* limiter may turn an anonymous request away (429).
TierOf(auth) ==
    CASE auth = "valid"               -> "privileged"
      [] auth = "absent" /\ OpenMode  -> "anonymous"
      [] OTHER                        -> "none"

\* parseTtl and parseMaxReads accept the request.
WithinLimits(tier, ttl, reads) ==
    /\ ttl \in Limits[tier].minTtl .. Limits[tier].maxTtl
    /\ reads \in Limits[tier].minReads .. Limits[tier].maxReads

\* createEntryRoute up to the first INSERT.
StartCreate(r, auth, limited, ttl, reads) ==
    LET tier == TierOf(auth) IN
    /\ create[r].pc = "idle"
    /\ create' = [create EXCEPT ![r] =
         IF tier = "none" \/ (tier = "anonymous" /\ limited)
         THEN [IdleCreate EXCEPT !.pc = "rejected"]
         ELSE IF ~WithinLimits(tier, ttl, reads)
         THEN [IdleCreate EXCEPT !.pc = "rejected"]
         ELSE [IdleCreate EXCEPT !.pc = "insert", !.expiresAt = now + ttl, !.maxReads = reads]]
    /\ UNCHANGED <<now, entries, claim, sweep>>

\* The primary key: INSERT succeeds on a free code only.
CodeFree(code) == ~Present(code)

\* One turn of the insert loop.  A "unique" failure tries another code until the
\* attempts are used up; success answers 201; any other failure, which may come
\* after the statement committed, is rethrown (500).
Insert(r, code, outcome) ==
    LET req == create[r]
        row == [value |-> r, expiresAt |-> req.expiresAt, maxReads |-> req.maxReads,
                remainingReads |-> req.maxReads, lastClaimId |-> "none"]
    IN /\ req.pc = "insert"
       /\ UNCHANGED <<now, claim, sweep>>
       /\ \/ /\ outcome = "commit" /\ CodeFree(code)
             /\ entries' = [entries EXCEPT ![code] = row]
             /\ create' = [create EXCEPT ![r].pc = "created", ![r].code = code]
          \/ /\ outcome = "unique" /\ ~CodeFree(code)
             /\ create' = [create EXCEPT ![r].attempt = @ + 1,
                                         ![r].pc = IF req.attempt + 1 < MaxAttempts
                                                   THEN "insert" ELSE "exhausted"]
             /\ UNCHANGED entries
          \/ /\ outcome = "lost reply" /\ CodeFree(code)
             /\ entries' = [entries EXCEPT ![code] = row]
             /\ create' = [create EXCEPT ![r].pc = "failed"]
          \/ /\ outcome = "not run"
             /\ create' = [create EXCEPT ![r].pc = "failed"]
             /\ UNCHANGED entries

\* claimEntryRoute samples the clock and picks its claim id.
StartClaim(r, code) ==
    /\ claim[r].pc = "idle"
    /\ claim' = [claim EXCEPT ![r] = [@ EXCEPT !.pc = "batch", !.nowSeconds = now, !.code = code]]
    /\ UNCHANGED <<now, entries, create, sweep>>

\* Mutant: expired entries are not filtered out.
ClaimableUnspent(row, at) == row.value # "none" /\ row.remainingReads > 0

\* The WHERE clause of the UPDATE.
Claimable(row, at) == row.value # "none" /\ row.expiresAt > at /\ row.remainingReads > 0

\* Mutant: the SELECT does not ask for the claim id.
SelectsByCode(row, id) == row.value # "none"

\* The WHERE clause of the SELECT that follows in the batch.
Selects(row, id) == row.value # "none" /\ row.lastClaimId = id

\* claimEntry: the batch is one transaction.  A lost reply still counts a read.
ClaimBatch(r, delivered) ==
    LET req == claim[r]
        old == entries[req.code]
        row == IF Claimable(old, req.nowSeconds)
               THEN [old EXCEPT !.remainingReads = @ - 1, !.lastClaimId = r] ELSE old
    IN /\ req.pc = "batch"
       /\ entries' = [entries EXCEPT ![req.code] = row]
       /\ claim' = [claim EXCEPT ![r] =
            IF ~delivered THEN [req EXCEPT !.pc = "failed"]
            ELSE IF Selects(row, r)
            THEN [req EXCEPT !.pc = "claimed", !.value = row.value,
                             !.remainingReads = row.remainingReads]
            ELSE [req EXCEPT !.pc = "unavailable"]]
       /\ UNCHANGED <<now, create, sweep>>

\* The cron trigger fixes scheduledTime; the cleanup may run later, or never.
Schedule ==
    /\ sweep = NoSweep
    /\ sweep' = now
    /\ UNCHANGED <<now, entries, create, claim>>

\* Mutant: rows that are not yet stale are deleted.
StaleEarly(row, at) == row.expiresAt <= at + 1 \/ row.remainingReads <= 0

Stale(row, at) == row.expiresAt <= at \/ row.remainingReads <= 0

RunCleanup ==
    /\ sweep # NoSweep
    /\ entries' = [k \in Codes |-> IF Stale(entries[k], sweep) THEN NoRow ELSE entries[k]]
    /\ sweep' = NoSweep
    /\ UNCHANGED <<now, create, claim>>

Tick ==
    /\ now < MaxTime
    /\ now' = now + 1
    /\ UNCHANGED <<entries, create, claim, sweep>>

Next ==
    \/ \E r \in Creates :
         \/ \E auth \in {"valid", "invalid", "absent"}, limited \in BOOLEAN,
               ttl \in Ttls, reads \in Reads : StartCreate(r, auth, limited, ttl, reads)
         \/ \E code \in Codes, outcome \in {"commit", "unique", "lost reply", "not run"} :
               Insert(r, code, outcome)
    \/ \E r \in Claims :
         \/ \E code \in Codes : StartClaim(r, code)
         \/ \E delivered \in BOOLEAN : ClaimBatch(r, delivered)
    \/ Schedule
    \/ RunCleanup
    \/ Tick

Spec == Init /\ [][Next]_vars

-----------------------------------------------------------------------------
EntryRow ==
    [value : Creates \cup {"none"}, expiresAt : Nat, maxReads : Nat, remainingReads : Nat,
     lastClaimId : Claims \cup {"none"}]
CreateRequest ==
    [pc : {"idle", "rejected", "insert", "created", "exhausted", "failed"}, expiresAt : Nat,
     maxReads : Nat, attempt : 0..MaxAttempts, code : Codes \cup {"none"}]
ClaimRequest ==
    [pc : {"idle", "batch", "claimed", "unavailable", "failed"}, nowSeconds : Times,
     code : Codes \cup {"none"}, value : Creates \cup {"none"}, remainingReads : Nat]

\* Among the types: remainingReads never becomes negative, as the table's CHECK
\* constraint demands.
TypeOK ==
    /\ now \in Times
    /\ entries \in [Codes -> EntryRow]
    /\ create \in [Creates -> CreateRequest]
    /\ claim \in [Claims -> ClaimRequest]
    /\ sweep \in Times \cup {NoSweep}
    /\ \A r \in Claims : claim[r].pc # "idle" => claim[r].code \in Codes
    /\ \A r \in Creates : create[r].pc = "insert" => create[r].attempt < MaxAttempts

Served == {r \in Claims : claim[r].pc = "claimed"}

\* No two claims are served the same read of an entry: concurrent claims of one
\* value get different remaining counts, all below the entry's max_reads, so a
\* value is read at most max_reads times, even if its code is reused later.
DistinctReads ==
    \A r \in Served :
        /\ claim[r].remainingReads < create[claim[r].value].maxReads
        /\ \A q \in Served : claim[q].value = claim[r].value /\ q # r =>
                                claim[q].remainingReads # claim[r].remainingReads

\* A claim is served only the value stored under its code, before the expiry it
\* was created with as far as the claim's own clock reading can tell.
ServedInTime ==
    \A r \in Served : /\ claim[r].nowSeconds < create[claim[r].value].expiresAt
                      /\ create[claim[r].value].pc \in {"created", "failed"}
                      /\ create[claim[r].value].pc = "created" =>
                            create[claim[r].value].code = claim[r].code

\* A create that answered 201 owns its code while the entry has reads left and
\* has not expired: no other request, and no late or early cleanup, displaces it.
CreatedIsKept ==
    \A r \in Creates : create[r].pc = "created" =>
        \/ create[r].expiresAt <= now
        \/ entries[create[r].code].value = r
        \/ \E S \in SUBSET Claims : /\ Cardinality(S) = create[r].maxReads
                                    /\ \A q \in S : /\ claim[q].code = create[r].code
                                                    /\ claim[q].pc \in {"claimed", "failed"}

=============================================================================
