---------------------------- MODULE EntriesProofs ----------------------------
(***************************************************************************)
(* Proofs about Entries, for any number of requests, codes and reads.      *)
(***************************************************************************)
EXTENDS Entries, FiniteSetTheorems, TLAPS

\* A row belongs to one create request that is past its insert, records what the
\* request asked for, and names as last claim one that has run its batch.
RowsOwned ==
    \A k \in Codes : Present(k) =>
        LET row == entries[k]
            req == create[row.value]
        IN /\ req.pc \in {"created", "failed"}
           /\ req.pc = "created" => req.code = k
           /\ row.expiresAt = req.expiresAt
           /\ row.maxReads = req.maxReads
           /\ row.remainingReads <= req.maxReads
           /\ \A r \in Claims : row.lastClaimId = r => claim[r].pc \in {"claimed", "failed"}
           /\ \A l \in Codes : entries[l].value = row.value => l = k

\* A served claim got a read the row no longer has.
ReadsSpent ==
    \A r \in Served :
        /\ claim[r].value \in Creates
        /\ create[claim[r].value].pc \in {"created", "failed"}
        /\ \A k \in Codes : entries[k].value = claim[r].value =>
                               entries[k].remainingReads <= claim[r].remainingReads

Inv == TypeOK /\ RowsOwned /\ ReadsSpent /\ DistinctReads /\ ServedInTime

LEMMA Numbers ==
    MaxAttempts \in Nat \ {0} /\ MaxTime \in Nat /\ \A t \in Ttls : t \in Nat
  BY EntriesAssumption

LEMMA Tags == "none" \notin Creates /\ "none" \notin Claims /\ "none" \notin Codes
  BY EntriesAssumption

LEMMA ReadsAreNumbers == \A n \in Reads : n \in Nat
  BY EntriesAssumption

LEMMA InitInv == Init => Inv
  BY Numbers, Tags DEF Init, Inv, TypeOK, RowsOwned, ReadsSpent, DistinctReads, ServedInTime,
     Served, Present, NoRow, IdleCreate, IdleClaim, Times, NoSweep, EntryRow, CreateRequest, ClaimRequest

LEMMA StartCreateInv ==
    ASSUME Inv, NEW r \in Creates, NEW auth, NEW limited, NEW ttl \in Ttls, NEW reads \in Reads,
           StartCreate(r, auth, limited, ttl, reads)
    PROVE  Inv'
<1>1. PICK new : /\ create' = [create EXCEPT ![r] = new]
                 /\ new = [IdleCreate EXCEPT !.pc = "rejected"]
                    \/ new = [IdleCreate EXCEPT !.pc = "insert", !.expiresAt = now + ttl,
                                                !.maxReads = reads]
  BY DEF StartCreate
<1>2. UNCHANGED <<now, entries, claim, sweep>> /\ create[r].pc = "idle"
  BY DEF StartCreate
<1>3. now + ttl \in Nat /\ reads \in Nat
  BY Numbers, ReadsAreNumbers DEF Inv, TypeOK, Times
<1>4. TypeOK'
  <2>1. new \in CreateRequest /\ new.attempt < MaxAttempts
    <3>1. IdleCreate \in CreateRequest /\ IdleCreate.attempt = 0
      BY Numbers DEF IdleCreate, CreateRequest
    <3>2. new \in CreateRequest /\ new.attempt = 0
      BY <1>1, <1>3, <3>1 DEF CreateRequest
    <3>3. QED
      BY <3>2, Numbers
  <2>2. QED
    BY <1>1, <1>2, <2>1 DEF Inv, TypeOK
<1>5. \A q \in Creates : q # r => create'[q] = create[q]
  BY <1>1 DEF Inv, TypeOK
<1>6. /\ \A k \in Codes : Present(k) => entries[k].value \in Creates /\ entries[k].value # r
      /\ \A q \in Served : claim[q].value # r
  BY <1>2 DEF Inv, TypeOK, EntryRow, RowsOwned, ReadsSpent, Present
<1>7. RowsOwned'
  BY <1>2, <1>5, <1>6 DEF Inv, RowsOwned, Present
<1>8. ReadsSpent' /\ DistinctReads' /\ ServedInTime'
  BY <1>2, <1>5, <1>6 DEF Inv, ReadsSpent, DistinctReads, ServedInTime, Served
<1>9. QED
  BY <1>4, <1>7, <1>8 DEF Inv

LEMMA InsertInv ==
    ASSUME Inv, NEW r \in Creates, NEW code \in Codes, NEW outcome, Insert(r, code, outcome)
    PROVE  Inv'
<1> DEFINE req == create[r]
           row == [value |-> r, expiresAt |-> req.expiresAt, maxReads |-> req.maxReads,
                   remainingReads |-> req.maxReads, lastClaimId |-> "none"]
<1>1. UNCHANGED <<now, claim, sweep>> /\ req.pc = "insert" /\ req \in CreateRequest
  BY DEF Insert, Inv, TypeOK
<1>2. /\ \A k \in Codes : Present(k) => entries[k].value \in Creates /\ entries[k].value # r
      /\ \A q \in Served : claim[q].value # r
  BY <1>1 DEF Inv, TypeOK, EntryRow, RowsOwned, ReadsSpent, Present
<1>3. ASSUME CodeFree(code), entries' = [entries EXCEPT ![code] = row],
             \/ create' = [create EXCEPT ![r].pc = "created", ![r].code = code]
             \/ create' = [create EXCEPT ![r].pc = "failed"]
      PROVE  Inv'
  <2>1. \A q \in Creates : q # r => create'[q] = create[q]
    BY <1>3 DEF Inv, TypeOK
  <2>2. /\ create'[r] \in CreateRequest
        /\ create'[r].pc \in {"created", "failed"}
        /\ create'[r].pc = "created" => create'[r].code = code
        /\ create'[r].expiresAt = req.expiresAt /\ create'[r].maxReads = req.maxReads
    BY <1>1, <1>3 DEF Inv, TypeOK, CreateRequest
  <2>3. row \in EntryRow /\ row.value = r
    BY <1>1 DEF EntryRow, CreateRequest
  <2>4. entries'[code] = row /\ \A k \in Codes : k # code => entries'[k] = entries[k]
    BY <1>3 DEF Inv, TypeOK
  <2>5. TypeOK'
    BY <1>1, <1>3, <2>1, <2>2, <2>3 DEF Inv, TypeOK
  <2>6. row.remainingReads <= create'[r].maxReads
    BY <1>1, <2>2 DEF CreateRequest
  <2> HIDE DEF row, req
  <2>7. RowsOwned'
    <3> SUFFICES ASSUME NEW k \in Codes, Present(k)'
                 PROVE  LET rw == entries'[k]
                            rq == create'[rw.value]
                        IN /\ rq.pc \in {"created", "failed"}
                           /\ rq.pc = "created" => rq.code = k
                           /\ rw.expiresAt = rq.expiresAt
                           /\ rw.maxReads = rq.maxReads
                           /\ rw.remainingReads <= rq.maxReads
                           /\ \A q \in Claims : rw.lastClaimId = q =>
                                                  claim'[q].pc \in {"claimed", "failed"}
                           /\ \A l \in Codes : entries'[l].value = rw.value => l = k
      BY DEF RowsOwned
    <3>1. CASE k = code
      <4>1. \A l \in Codes : l # code => entries[l].value # r
        BY <1>2, Tags DEF Present
      <4>2. \A q \in Claims : row.lastClaimId # q
        BY Tags DEF row
      <4>3. row.expiresAt = req.expiresAt /\ row.maxReads = req.maxReads
        BY DEF row
      <4>4. QED
        BY <2>2, <2>3, <2>4, <2>6, <3>1, <4>1, <4>2, <4>3
    <3>2. CASE k # code
      <4>1. Present(k) /\ entries'[k] = entries[k] /\ create'[entries[k].value] = create[entries[k].value]
        BY <1>2, <2>1, <2>4, <3>2 DEF Present
      <4>2. entries[k].value # r
        BY <1>2, <4>1
      <4>3. QED
        BY <1>1, <2>3, <2>4, <4>1, <4>2 DEF Inv, RowsOwned
    <3>3. QED
      BY <3>1, <3>2
  <2>8. ReadsSpent' /\ DistinctReads' /\ ServedInTime'
    BY <1>1, <1>2, <2>1, <2>3, <2>4 DEF Inv, ReadsSpent, DistinctReads, ServedInTime, Served
  <2>9. QED
    BY <2>5, <2>7, <2>8 DEF Inv
<1>4. ASSUME UNCHANGED entries,
             \/ create' = [create EXCEPT ![r].attempt = @ + 1,
                              ![r].pc = IF req.attempt + 1 < MaxAttempts
                                        THEN "insert" ELSE "exhausted"]
             \/ create' = [create EXCEPT ![r].pc = "failed"]
      PROVE  Inv'
  <2>1. \A q \in Creates : q # r => create'[q] = create[q]
    BY <1>4 DEF Inv, TypeOK
  <2>2. create' \in [Creates -> CreateRequest]
    BY <1>1, <1>4, Numbers DEF Inv, TypeOK, CreateRequest
  <2>3. create'[r].pc = "insert" => create'[r].attempt < MaxAttempts
    BY <1>1, <1>4, Numbers DEF Inv, TypeOK, CreateRequest
  <2>4. TypeOK'
    BY <1>1, <1>4, <2>1, <2>2, <2>3 DEF Inv, TypeOK
  <2>5. RowsOwned'
    BY <1>1, <1>2, <1>4, <2>1 DEF Inv, RowsOwned, Present
  <2>6. ReadsSpent' /\ DistinctReads' /\ ServedInTime'
    BY <1>1, <1>2, <1>4, <2>1 DEF Inv, ReadsSpent, DistinctReads, ServedInTime, Served
  <2>7. QED
    BY <2>4, <2>5, <2>6 DEF Inv
<1>5. QED
  BY <1>3, <1>4 DEF Insert

LEMMA StartClaimInv ==
    ASSUME Inv, NEW r \in Claims, NEW code \in Codes, StartClaim(r, code)
    PROVE  Inv'
<1>1. UNCHANGED <<now, entries, create, sweep>> /\ claim[r].pc = "idle"
  BY DEF StartClaim
<1>2. /\ \A q \in Claims : q # r => claim'[q] = claim[q]
      /\ claim'[r].pc = "batch" /\ claim'[r].code = code
      /\ claim' \in [Claims -> ClaimRequest]
  <2>1. claim[r] \in ClaimRequest /\ now \in Times
    BY DEF Inv, TypeOK
  <2>2. [claim[r] EXCEPT !.pc = "batch", !.nowSeconds = now, !.code = code] \in ClaimRequest
    BY <2>1 DEF ClaimRequest
  <2>3. QED
    BY <2>1, <2>2 DEF StartClaim, Inv, TypeOK, ClaimRequest
<1>3. TypeOK'
  BY <1>1, <1>2 DEF Inv, TypeOK
<1>4. Served' = Served /\ \A q \in Served : claim'[q] = claim[q]
  BY <1>1, <1>2 DEF Served
<1>5. RowsOwned'
  BY <1>1, <1>2 DEF Inv, RowsOwned, Present
<1>6. ReadsSpent' /\ DistinctReads' /\ ServedInTime'
  BY <1>1, <1>4 DEF Inv, ReadsSpent, DistinctReads, ServedInTime
<1>7. QED
  BY <1>3, <1>5, <1>6 DEF Inv

\* The batch: if the UPDATE matches, the claim takes the lowest read so far; if
\* not, the SELECT finds nothing, because no earlier batch used this claim id.
LEMMA ClaimBatchInv ==
    ASSUME Inv, NEW r \in Claims, NEW delivered \in BOOLEAN, ClaimBatch(r, delivered)
    PROVE  Inv'
<1> DEFINE req == claim[r]
           code == req.code
           old == entries[code]
           row == IF Claimable(old, req.nowSeconds)
                  THEN [old EXCEPT !.remainingReads = @ - 1, !.lastClaimId = r] ELSE old
<1>1. /\ req.pc = "batch" /\ req \in ClaimRequest /\ code \in Codes /\ old \in EntryRow
      /\ UNCHANGED <<now, create, sweep>>
  BY DEF ClaimBatch, Inv, TypeOK
<1>2. entries' = [entries EXCEPT ![code] = row]
  BY DEF ClaimBatch
<1>3. claim' = [claim EXCEPT ![r] =
            IF ~delivered THEN [req EXCEPT !.pc = "failed"]
            ELSE IF Selects(row, r)
            THEN [req EXCEPT !.pc = "claimed", !.value = row.value,
                             !.remainingReads = row.remainingReads]
            ELSE [req EXCEPT !.pc = "unavailable"]]
  BY DEF ClaimBatch
<1>4. old.value # "none" => old.lastClaimId # r
  BY <1>1 DEF Inv, RowsOwned, Present
<1>5. CASE ~Claimable(old, req.nowSeconds)
  <2>1. row = old
    BY <1>5
  <2>2. UNCHANGED entries
    BY <1>1, <1>2, <2>1 DEF Inv, TypeOK
  <2>3. ~Selects(row, r)
    BY <1>4, <2>1 DEF Selects
  <2>4. \/ claim' = [claim EXCEPT ![r] = [req EXCEPT !.pc = "failed"]]
        \/ claim' = [claim EXCEPT ![r] = [req EXCEPT !.pc = "unavailable"]]
    BY <1>3, <2>3
  <2>5. /\ claim' \in [Claims -> ClaimRequest]
        /\ claim'[r].pc \in {"failed", "unavailable"} /\ claim'[r].code \in Codes
        /\ \A q \in Claims : q # r => claim'[q] = claim[q]
    BY <1>1, <2>4 DEF Inv, TypeOK, ClaimRequest
  <2>6. TypeOK'
    BY <1>1, <2>2, <2>5 DEF Inv, TypeOK
  <2>7. Served' = Served /\ \A q \in Served : claim'[q] = claim[q]
    BY <1>1, <2>5 DEF Served
  <2>8. RowsOwned'
    BY <1>1, <1>4, <2>2, <2>5 DEF Inv, RowsOwned, Present
  <2>9. ReadsSpent' /\ DistinctReads' /\ ServedInTime'
    BY <1>1, <2>2, <2>7 DEF Inv, ReadsSpent, DistinctReads, ServedInTime
  <2>10. QED
    BY <2>6, <2>8, <2>9 DEF Inv
<1>6. CASE Claimable(old, req.nowSeconds)
  <2>1. /\ old.value # "none" /\ old.value \in Creates
        /\ old.expiresAt > req.nowSeconds
        /\ old.remainingReads \in Nat /\ old.remainingReads > 0
    BY <1>1, <1>6 DEF Claimable, EntryRow
  <2>2. row = [old EXCEPT !.remainingReads = @ - 1, !.lastClaimId = r]
    BY <1>6
  <2>3. /\ row \in EntryRow /\ row.value = old.value /\ row.expiresAt = old.expiresAt
        /\ row.maxReads = old.maxReads /\ row.remainingReads = old.remainingReads - 1
        /\ row.lastClaimId = r
    <3>1. old.remainingReads - 1 \in Nat
      BY <2>1
    <3>2. QED
      BY <1>1, <2>2, <3>1 DEF EntryRow
  <2>4. entries'[code] = row /\ \A k \in Codes : k # code => entries'[k] = entries[k]
    BY <1>1, <1>2 DEF Inv, TypeOK
  <2>5. Selects(row, r)
    BY <2>1, <2>3 DEF Selects
  <2> HIDE DEF row
  <2>6. \/ claim' = [claim EXCEPT ![r] = [req EXCEPT !.pc = "failed"]]
        \/ claim' = [claim EXCEPT ![r] =
                        [req EXCEPT !.pc = "claimed", !.value = row.value,
                                    !.remainingReads = row.remainingReads]]
    BY <1>3, <2>5
  <2>7. /\ claim' \in [Claims -> ClaimRequest]
        /\ claim'[r].pc \in {"failed", "claimed"}
        /\ claim'[r].code = code /\ claim'[r].nowSeconds = req.nowSeconds
        /\ claim'[r].pc = "claimed" => /\ claim'[r].value = old.value
                                       /\ claim'[r].remainingReads = old.remainingReads - 1
        /\ \A q \in Claims : q # r => claim'[q] = claim[q]
    <3>1. row.value \in Creates /\ row.remainingReads \in Nat
      BY <2>1, <2>3
    <3>2. CASE claim' = [claim EXCEPT ![r] = [req EXCEPT !.pc = "failed"]]
      BY <1>1, <3>2 DEF Inv, TypeOK, ClaimRequest
    <3>3. CASE claim' = [claim EXCEPT ![r] =
                           [req EXCEPT !.pc = "claimed", !.value = row.value,
                                       !.remainingReads = row.remainingReads]]
      BY <1>1, <2>3, <3>1, <3>3 DEF Inv, TypeOK, ClaimRequest
    <3>4. QED
      BY <2>6, <3>2, <3>3
  <2>8. TypeOK'
    BY <1>1, <1>2, <2>3, <2>7 DEF Inv, TypeOK
  <2>9. /\ create[old.value].pc \in {"created", "failed"}
        /\ create[old.value].pc = "created" => create[old.value].code = code
        /\ old.expiresAt = create[old.value].expiresAt
        /\ old.maxReads = create[old.value].maxReads
        /\ old.remainingReads <= create[old.value].maxReads
        /\ \A l \in Codes : entries[l].value = old.value => l = code
        /\ create[old.value].maxReads \in Nat
    BY <1>1, <2>1 DEF Inv, TypeOK, CreateRequest, RowsOwned, Present
  <2>10. \A k \in Codes : entries'[k].value = entries[k].value
    BY <2>3, <2>4
  <2> HIDE DEF req, code, old
  <2>11. RowsOwned'
    <3> SUFFICES ASSUME NEW k \in Codes, Present(k)'
                 PROVE  LET rw == entries'[k]
                            rq == create'[rw.value]
                        IN /\ rq.pc \in {"created", "failed"}
                           /\ rq.pc = "created" => rq.code = k
                           /\ rw.expiresAt = rq.expiresAt
                           /\ rw.maxReads = rq.maxReads
                           /\ rw.remainingReads <= rq.maxReads
                           /\ \A q \in Claims : rw.lastClaimId = q =>
                                                  claim'[q].pc \in {"claimed", "failed"}
                           /\ \A l \in Codes : entries'[l].value = rw.value => l = k
      BY DEF RowsOwned
    <3>1. CASE k = code
      <4>1. row.remainingReads <= create[old.value].maxReads
        BY <2>1, <2>3, <2>9
      <4>2. \A l \in Codes : entries'[l].value = old.value => l = code
        BY <2>9, <2>10
      <4>3. QED
        BY <1>1, <2>3, <2>4, <2>7, <2>9, <3>1, <4>1, <4>2
    <3>2. CASE k # code
      <4>1. Present(k) /\ entries'[k] = entries[k]
        BY <2>4, <3>2 DEF Present
      <4>2. \A q \in Claims : entries[k].lastClaimId = q => claim'[q].pc \in {"claimed", "failed"}
        BY <2>7, <4>1 DEF Inv, RowsOwned
      <4>3. QED
        BY <1>1, <2>10, <4>1, <4>2 DEF Inv, RowsOwned
    <3>3. QED
      BY <3>1, <3>2
  <2>12. \A q \in Served : claim[q].value = old.value => old.remainingReads <= claim[q].remainingReads
    BY <1>1 DEF Inv, ReadsSpent, old
  <2>13. \A q \in Served : /\ q # r /\ claim'[q] = claim[q] /\ q \in Served'
                           /\ claim[q].remainingReads \in Nat
    BY <1>1, <2>7 DEF Served, Inv, TypeOK, ClaimRequest, req
  <2>14. \A q \in Served' : q # r => q \in Served
    BY <2>7 DEF Served
  <2>15. ReadsSpent'
    <3> SUFFICES ASSUME NEW q \in Served'
                 PROVE  /\ claim'[q].value \in Creates
                        /\ create'[claim'[q].value].pc \in {"created", "failed"}
                        /\ \A k \in Codes : entries'[k].value = claim'[q].value =>
                               entries'[k].remainingReads <= claim'[q].remainingReads
      BY DEF ReadsSpent
    <3>1. CASE q = r
      <4>1. claim'[r].value = old.value /\ claim'[r].remainingReads = old.remainingReads - 1
        BY <2>7, <3>1 DEF Served
      <4>2. \A k \in Codes : entries'[k].value = old.value => k = code
        BY <2>9, <2>10
      <4>3. QED
        BY <1>1, <2>1, <2>3, <2>4, <2>9, <3>1, <4>1, <4>2
    <3>2. CASE q # r
      <4>1. q \in Served /\ claim'[q] = claim[q] /\ claim[q].remainingReads \in Nat
        BY <2>13, <2>14, <3>2
      <4>2. \A k \in Codes : entries'[k].value = claim[q].value =>
                             entries'[k].remainingReads <= claim[q].remainingReads
        <5> TAKE k \in Codes
        <5>1. CASE k = code
          BY <2>1, <2>3, <2>4, <2>12, <4>1, <5>1
        <5>2. CASE k # code
          BY <2>4, <4>1, <5>2 DEF Inv, ReadsSpent
        <5>3. QED
          BY <5>1, <5>2
      <4>3. QED
        BY <1>1, <4>1, <4>2 DEF Inv, ReadsSpent
    <3>3. QED
      BY <3>1, <3>2
  <2>16. DistinctReads'
    <3>1. ASSUME NEW q \in Served' PROVE claim'[q].remainingReads < create'[claim'[q].value].maxReads
      <4>1. CASE q = r
        BY <1>1, <2>1, <2>7, <2>9, <4>1 DEF Served
      <4>2. CASE q # r
        BY <1>1, <2>13, <2>14, <4>2 DEF Inv, DistinctReads
      <4>3. QED
        BY <4>1, <4>2
    <3>2. ASSUME NEW q \in Served', r \in Served', q # r, claim'[q].value = claim'[r].value
          PROVE  claim'[q].remainingReads # claim'[r].remainingReads
      <4>1. q \in Served /\ claim'[q] = claim[q] /\ claim[q].remainingReads \in Nat
        BY <2>13, <2>14, <3>2
      <4>2. claim'[r].value = old.value /\ claim'[r].remainingReads = old.remainingReads - 1
        BY <2>7, <3>2 DEF Served
      <4>3. QED
        BY <2>1, <2>12, <3>2, <4>1, <4>2
    <3>3. ASSUME NEW q \in Served', NEW p \in Served', q # r, p # r, q # p,
                 claim'[q].value = claim'[p].value
          PROVE  claim'[q].remainingReads # claim'[p].remainingReads
      BY <2>13, <2>14, <3>3 DEF Inv, DistinctReads
    <3>4. QED
      BY <3>1, <3>2, <3>3 DEF DistinctReads
  <2>17. ServedInTime'
    <3> SUFFICES ASSUME NEW q \in Served'
                 PROVE  /\ claim'[q].nowSeconds < create'[claim'[q].value].expiresAt
                        /\ create'[claim'[q].value].pc \in {"created", "failed"}
                        /\ create'[claim'[q].value].pc = "created" =>
                              create'[claim'[q].value].code = claim'[q].code
      BY DEF ServedInTime
    <3>1. CASE q = r
      <4>1. claim'[r].value = old.value
        BY <2>7, <3>1 DEF Served
      <4>2. req.nowSeconds \in Int /\ old.expiresAt \in Int
        BY <1>1, Numbers DEF req, old, ClaimRequest, EntryRow, Times
      <4>3. QED
        BY <1>1, <2>1, <2>7, <2>9, <3>1, <4>1, <4>2
    <3>2. CASE q # r
      BY <1>1, <2>13, <2>14, <3>2 DEF Inv, ServedInTime
    <3>3. QED
      BY <3>1, <3>2
  <2>18. QED
    BY <2>8, <2>11, <2>15, <2>16, <2>17 DEF Inv
<1>7. QED
  BY <1>5, <1>6

LEMMA CleanupInv == Inv /\ RunCleanup => Inv'
<1> SUFFICES ASSUME Inv, RunCleanup PROVE Inv'
  OBVIOUS
<1>1. UNCHANGED <<now, create, claim>> /\ sweep' = NoSweep
  BY DEF RunCleanup
<1>2. \A k \in Codes : entries'[k] = entries[k] \/ entries'[k] = NoRow
  BY DEF RunCleanup
<1>3. NoRow \in EntryRow /\ NoRow.value = "none"
  BY DEF NoRow, EntryRow
<1>4. TypeOK'
  BY <1>1, <1>3 DEF RunCleanup, Inv, TypeOK
<1>5. \A k \in Codes : entries'[k].value # "none" => entries'[k] = entries[k]
  BY <1>2, <1>3
<1>6. RowsOwned'
  BY <1>1, <1>5 DEF Inv, RowsOwned, Present
<1>7. ReadsSpent'
  BY <1>1, <1>5, Tags DEF Inv, ReadsSpent, Served
<1>8. DistinctReads' /\ ServedInTime'
  BY <1>1 DEF Inv, DistinctReads, ServedInTime, Served
<1>9. QED
  BY <1>4, <1>6, <1>7, <1>8 DEF Inv

LEMMA StepInv == Inv /\ [Next]_vars => Inv'
<1> SUFFICES ASSUME Inv, [Next]_vars PROVE Inv'
  OBVIOUS
<1>1. CASE Schedule \/ Tick \/ UNCHANGED vars
  <2>1. UNCHANGED <<entries, create, claim>>
    BY <1>1 DEF Schedule, Tick, vars
  <2>2. TypeOK'
    BY <1>1, Numbers DEF Schedule, Tick, vars, Inv, TypeOK, Times
  <2>3. RowsOwned' /\ ReadsSpent'
    BY <2>1 DEF Inv, RowsOwned, Present, ReadsSpent, Served
  <2>4. DistinctReads' /\ ServedInTime'
    BY <2>1 DEF Inv, DistinctReads, ServedInTime, Served
  <2>5. QED
    BY <2>2, <2>3, <2>4 DEF Inv
<1>2. QED
  BY <1>1, StartCreateInv, InsertInv, StartClaimInv, ClaimBatchInv, CleanupInv DEF Next

LEMMA Invariant == Spec => []Inv
<1>1. QED
  BY InitInv, StepInv, PTL DEF Spec

\* However many requests race, and although codes are reused after cleanup, two
\* served claims of one entry got different reads, all below its max_reads.
THEOREM ReadsAreDistinct == Spec => []DistinctReads
<1>1. Inv => DistinctReads
  BY DEF Inv
<1>2. QED
  BY <1>1, Invariant, PTL

\* A served claim got the value its code stood for, within its lifetime.
THEOREM ServedWithinLifetime == Spec => []ServedInTime
<1>1. Inv => ServedInTime
  BY DEF Inv
<1>2. QED
  BY <1>1, Invariant, PTL

\* The table and the requests are well formed; reads never go negative.
THEOREM TypeCorrect == Spec => []TypeOK
<1>1. Inv => TypeOK
  BY DEF Inv
<1>2. QED
  BY <1>1, Invariant, PTL

-----------------------------------------------------------------------------
(* What a client that was answered 201 can rely on.                         *)

\* Claims that have run their batch for a code.
Ran(S, code) == \A q \in S : claim[q].code = code /\ claim[q].pc \in {"claimed", "failed"}

\* Every read that a row has lost was taken by a claim of its own.
ReadsCounted ==
    \A k \in Codes : Present(k) =>
        \E S \in SUBSET Claims :
            /\ IsFiniteSet(S) /\ Ran(S, k)
            /\ Cardinality(S) + entries[k].remainingReads = entries[k].maxReads

\* A cleanup works with a time that has come.
SweepPast == sweep <= now

\* A create is answered with a code.
CodeNamed == \A r \in Creates : create[r].pc = "created" => create[r].code \in Codes

KeptInv == Inv /\ ReadsCounted /\ SweepPast /\ CodeNamed /\ CreatedIsKept

\* Nothing is created, counted or swept at first.
LEMMA InitKept == Init => KeptInv
<1> SUFFICES ASSUME Init PROVE KeptInv
  OBVIOUS
<1>1. Inv
  BY InitInv
<1>2. ReadsCounted /\ SweepPast
  BY DEF Init, ReadsCounted, SweepPast, Present, NoRow, NoSweep
<1>3. CreatedIsKept /\ CodeNamed
  BY DEF Init, CreatedIsKept, CodeNamed, IdleCreate
<1> QED BY <1>1, <1>2, <1>3 DEF KeptInv

\* A claim that has run its batch, and a create that was answered, never change again.
LEMMA AnswersStand ==
    ASSUME Inv, [Next]_vars
    PROVE  /\ \A q \in Claims : claim[q].pc \in {"claimed", "failed"} => claim'[q] = claim[q]
           /\ \A r \in Creates : create[r].pc = "created" => create'[r] = create[r]
<1> USE DEF Inv, TypeOK
<1>1. CASE \E r \in Creates : \E auth \in {"valid", "invalid", "absent"}, limited \in BOOLEAN,
               ttl \in Ttls, reads \in Reads : StartCreate(r, auth, limited, ttl, reads)
  BY <1>1 DEF StartCreate
<1>2. CASE \E r \in Creates :
               \E code \in Codes, outcome \in {"commit", "unique", "lost reply", "not run"} :
                  Insert(r, code, outcome)
  BY <1>2 DEF Insert
<1>3. CASE \E r \in Claims : \E code \in Codes : StartClaim(r, code)
  BY <1>3 DEF StartClaim
<1>4. CASE \E r \in Claims : \E delivered \in BOOLEAN : ClaimBatch(r, delivered)
  BY <1>4 DEF ClaimBatch
<1>5. CASE Schedule \/ RunCleanup \/ Tick \/ UNCHANGED vars
  BY <1>5 DEF Schedule, RunCleanup, Tick, vars
<1> QED BY <1>1, <1>2, <1>3, <1>4, <1>5 DEF Next

\* So the claims that have run for a code stay claims that have run for it.
LEMMA RanStands ==
    ASSUME Inv, [Next]_vars, NEW S \in SUBSET Claims, NEW code, Ran(S, code)
    PROVE  Ran(S, code)'
  BY AnswersStand DEF Ran

\* What one step does to a row: nothing, a fresh insert, one read for one claim that now
\* has run, or the removal of a stale row.
LEMMA RowSteps ==
    ASSUME Inv, [Next]_vars, NEW k \in Codes
    PROVE  \/ entries'[k] = entries[k]
           \/ /\ ~Present(k) /\ entries'[k].remainingReads = entries'[k].maxReads
              /\ entries'[k].maxReads \in Nat
           \/ /\ Present(k) /\ entries'[k].value = entries[k].value
              /\ entries'[k].maxReads = entries[k].maxReads
              /\ entries'[k].remainingReads = entries[k].remainingReads - 1
              /\ \E r \in Claims : /\ claim[r].pc = "batch" /\ claim'[r].code = k
                                   /\ claim'[r].pc \in {"claimed", "failed"}
           \/ entries'[k] = NoRow /\ Stale(entries[k], sweep) /\ sweep # NoSweep /\ now' = now
<1>1. CASE \E r \in Creates : \E auth \in {"valid", "invalid", "absent"}, limited \in BOOLEAN,
               ttl \in Ttls, reads \in Reads : StartCreate(r, auth, limited, ttl, reads)
  BY <1>1 DEF StartCreate
<1>2. CASE \E r \in Creates :
               \E code \in Codes, outcome \in {"commit", "unique", "lost reply", "not run"} :
                  Insert(r, code, outcome)
  <2>1. PICK r \in Creates, code \in Codes, outcome \in {"commit", "unique", "lost reply", "not run"} :
           Insert(r, code, outcome)
    BY <1>2
  <2>2. create[r].maxReads \in Nat /\ entries \in [Codes -> EntryRow]
    BY DEF Inv, TypeOK, CreateRequest
  <2> DEFINE row == [value |-> r, expiresAt |-> create[r].expiresAt,
                     maxReads |-> create[r].maxReads,
                     remainingReads |-> create[r].maxReads, lastClaimId |-> "none"]
  <2>3. row.remainingReads = row.maxReads /\ row.maxReads \in Nat
    BY <2>2
  <2>4. UNCHANGED entries \/ (~Present(code) /\ entries' = [entries EXCEPT ![code] = row])
    BY <2>1 DEF Insert, CodeFree
  <2> HIDE DEF row
  <2> QED BY <2>2, <2>3, <2>4
<1>3. CASE \E r \in Claims : \E code \in Codes : StartClaim(r, code)
  BY <1>3 DEF StartClaim
<1>4. CASE \E r \in Claims : \E delivered \in BOOLEAN : ClaimBatch(r, delivered)
  <2>1. PICK r \in Claims, delivered \in BOOLEAN : ClaimBatch(r, delivered)
    BY <1>4
  <2> DEFINE old == entries[claim[r].code]
             row == IF Claimable(old, claim[r].nowSeconds)
                    THEN [old EXCEPT !.remainingReads = @ - 1, !.lastClaimId = r] ELSE old
  <2>2. claim[r].pc = "batch" /\ entries' = [entries EXCEPT ![claim[r].code] = row]
    BY <2>1 DEF ClaimBatch
  <2>3. claim[r].code \in Codes /\ old \in EntryRow /\ entries \in [Codes -> EntryRow]
    BY <2>2 DEF Inv, TypeOK
  <2>4. CASE k # claim[r].code \/ ~Claimable(old, claim[r].nowSeconds)
    BY <2>2, <2>3, <2>4
  <2>5. CASE k = claim[r].code /\ Claimable(old, claim[r].nowSeconds)
    <3>1. row = [old EXCEPT !.remainingReads = @ - 1, !.lastClaimId = r]
      BY <2>5
    <3>2. /\ row.value = old.value /\ row.maxReads = old.maxReads
          /\ row.remainingReads = old.remainingReads - 1 /\ row.lastClaimId = r
      BY <2>3, <3>1 DEF EntryRow
    <3>3. Present(k) /\ Selects(row, r)
      BY <2>5, <3>2 DEF Present, Claimable, Selects
    <3> HIDE DEF row
    <3>4. entries'[k] = row
      BY <2>2, <2>3, <2>5
    <3>5. claim'[r].code = k /\ claim'[r].pc \in {"claimed", "failed"}
      <4>1. \/ claim' = [claim EXCEPT ![r] = [claim[r] EXCEPT !.pc = "failed"]]
            \/ claim' = [claim EXCEPT ![r] =
                           [claim[r] EXCEPT !.pc = "claimed", !.value = row.value,
                                            !.remainingReads = row.remainingReads]]
        BY <2>1, <3>3 DEF ClaimBatch, row
      <4> QED BY <4>1, <2>5 DEF Inv, TypeOK, ClaimRequest
    <3> QED BY <2>2, <2>5, <3>2, <3>3, <3>4, <3>5
  <2> QED BY <2>4, <2>5
<1>5. CASE Schedule \/ Tick \/ UNCHANGED vars
  BY <1>5 DEF Schedule, Tick, vars
<1>6. CASE RunCleanup
  BY <1>6 DEF RunCleanup
<1> QED BY <1>1, <1>2, <1>3, <1>4, <1>5, <1>6 DEF Next

\* Every step keeps the count: a claim that takes a read was not among those that had run.
LEMMA StepCounted == Inv /\ ReadsCounted /\ [Next]_vars => ReadsCounted'
<1> SUFFICES ASSUME Inv, ReadsCounted, [Next]_vars, NEW k \in Codes, Present(k)'
             PROVE  \E S \in SUBSET Claims :
                       /\ IsFiniteSet(S) /\ Ran(S, k)'
                       /\ Cardinality(S) + entries'[k].remainingReads = entries'[k].maxReads
  BY DEF ReadsCounted
<1>0. entries[k].remainingReads \in Nat /\ entries[k].maxReads \in Nat
  BY DEF Inv, TypeOK, EntryRow
<1>1. CASE entries'[k] = entries[k]
  <2>1. Present(k)
    BY <1>1 DEF Present
  <2>2. PICK S \in SUBSET Claims :
           /\ IsFiniteSet(S) /\ Ran(S, k)
           /\ Cardinality(S) + entries[k].remainingReads = entries[k].maxReads
    BY <2>1 DEF ReadsCounted
  <2> QED BY <1>1, <2>2, RanStands
<1>2. CASE /\ ~Present(k) /\ entries'[k].remainingReads = entries'[k].maxReads
           /\ entries'[k].maxReads \in Nat
  <2>1. IsFiniteSet({}) /\ Cardinality({}) = 0 /\ Ran({}, k)'
    BY FS_EmptySet DEF Ran
  <2>2. 0 + entries'[k].remainingReads = entries'[k].maxReads
    BY <1>2
  <2> WITNESS {} \in SUBSET Claims
  <2> QED BY <2>1, <2>2
<1>3. CASE /\ Present(k) /\ entries'[k].value = entries[k].value
           /\ entries'[k].maxReads = entries[k].maxReads
           /\ entries'[k].remainingReads = entries[k].remainingReads - 1
           /\ \E r \in Claims : /\ claim[r].pc = "batch" /\ claim'[r].code = k
                                /\ claim'[r].pc \in {"claimed", "failed"}
  <2>1. PICK S \in SUBSET Claims :
           /\ IsFiniteSet(S) /\ Ran(S, k)
           /\ Cardinality(S) + entries[k].remainingReads = entries[k].maxReads
    BY <1>3 DEF ReadsCounted
  <2>2. PICK r \in Claims : /\ claim[r].pc = "batch" /\ claim'[r].code = k
                            /\ claim'[r].pc \in {"claimed", "failed"}
    BY <1>3
  <2>3. r \notin S
    BY <2>1, <2>2 DEF Ran
  <2>4. IsFiniteSet(S \cup {r}) /\ Cardinality(S \cup {r}) = Cardinality(S) + 1
    BY <2>1, <2>3, FS_AddElement
  <2>5. Ran(S, k)'
    BY <2>1, RanStands
  <2>6. Ran(S \cup {r}, k)'
    BY <2>2, <2>5 DEF Ran
  <2>7. Cardinality(S) \in Nat
    BY <2>1, FS_CardinalityType
  <2>8. Cardinality(S \cup {r}) + entries'[k].remainingReads = entries'[k].maxReads
    BY <1>0, <1>3, <2>1, <2>4, <2>7
  <2> WITNESS S \cup {r} \in SUBSET Claims
  <2> QED BY <2>4, <2>6, <2>8
<1>4. CASE entries'[k] = NoRow
  BY <1>4 DEF Present, NoRow
<1> QED BY <1>1, <1>2, <1>3, <1>4, RowSteps

\* A create is answered by a step that puts its row in place.
LEMMA CreatedHere ==
    ASSUME Inv, [Next]_vars, NEW r \in Creates, create[r].pc # "created", create'[r].pc = "created"
    PROVE  create'[r].code \in Codes /\ entries'[create'[r].code].value = r
<1> USE DEF Inv, TypeOK
<1>1. CASE \E q \in Creates : \E auth \in {"valid", "invalid", "absent"}, limited \in BOOLEAN,
               ttl \in Ttls, reads \in Reads : StartCreate(q, auth, limited, ttl, reads)
  BY <1>1 DEF StartCreate, IdleCreate
<1>2. CASE \E q \in Creates :
               \E code \in Codes, outcome \in {"commit", "unique", "lost reply", "not run"} :
                  Insert(q, code, outcome)
  <2>1. PICK q \in Creates, code \in Codes, outcome \in {"commit", "unique", "lost reply", "not run"} :
           Insert(q, code, outcome)
    BY <1>2
  <2> DEFINE row == [value |-> q, expiresAt |-> create[q].expiresAt,
                     maxReads |-> create[q].maxReads,
                     remainingReads |-> create[q].maxReads, lastClaimId |-> "none"]
  <2>2. row.value = q
    OBVIOUS
  <2>3. \/ /\ entries' = [entries EXCEPT ![code] = row]
           /\ create' = [create EXCEPT ![q].pc = "created", ![q].code = code]
        \/ create' = [create EXCEPT ![q].attempt = @ + 1,
                                     ![q].pc = IF create[q].attempt + 1 < MaxAttempts
                                               THEN "insert" ELSE "exhausted"]
        \/ create' = [create EXCEPT ![q].pc = "failed"]
    BY <2>1 DEF Insert
  <2> HIDE DEF row
  <2>4. CASE create' = [create EXCEPT ![q].attempt = @ + 1,
                                     ![q].pc = IF create[q].attempt + 1 < MaxAttempts
                                               THEN "insert" ELSE "exhausted"]
    BY <2>4 DEF CreateRequest
  <2>5. CASE create' = [create EXCEPT ![q].pc = "failed"]
    BY <2>5 DEF CreateRequest
  <2>6. CASE /\ entries' = [entries EXCEPT ![code] = row]
             /\ create' = [create EXCEPT ![q].pc = "created", ![q].code = code]
    <3>1. q = r
      BY <2>6
    <3>2. create'[r].code = code
      BY <2>6, <3>1 DEF CreateRequest
    <3>3. entries'[code] = row
      BY <2>6
    <3> QED BY <2>2, <3>1, <3>2, <3>3
  <2> QED BY <2>3, <2>4, <2>5, <2>6
<1>3. CASE UNCHANGED create
  BY <1>3
<1> QED
  BY <1>1, <1>2, <1>3 DEF Next, StartClaim, ClaimBatch, Schedule, RunCleanup, Tick, vars

\* The clock does not go back, and a cleanup is scheduled for a time that has come.
LEMMA StepSwept == Inv /\ SweepPast /\ [Next]_vars => SweepPast' /\ now' >= now
<1> SUFFICES ASSUME Inv, SweepPast, [Next]_vars PROVE SweepPast' /\ now' >= now
  OBVIOUS
<1>1. now \in Nat /\ sweep \in Int
  BY Numbers DEF Inv, TypeOK, Times, NoSweep
<1>2. \/ now' = now /\ sweep' \in {now, sweep, NoSweep}
      \/ now' = now + 1 /\ sweep' = sweep
  BY DEF Next, StartCreate, Insert, StartClaim, ClaimBatch, Schedule, RunCleanup, Tick, vars
<1> QED BY <1>1, <1>2 DEF SweepPast, NoSweep

\* Every step keeps the invariant: a row that is swept away has expired, or its reads
\* are all accounted for by claims.
LEMMA StepKept == KeptInv /\ [Next]_vars => KeptInv'
<1> SUFFICES ASSUME KeptInv, [Next]_vars PROVE KeptInv'
  OBVIOUS
<1>0. Inv /\ ReadsCounted /\ SweepPast /\ CodeNamed /\ CreatedIsKept
  BY DEF KeptInv
<1>1. Inv' /\ ReadsCounted' /\ SweepPast' /\ now' >= now
  BY <1>0, StepInv, StepCounted, StepSwept
<1>2. ASSUME NEW r \in Creates, create'[r].pc = "created", NEW k, k = create'[r].code
      PROVE  \/ create'[r].expiresAt <= now'
             \/ entries'[k].value = r
             \/ \E S \in SUBSET Claims : Cardinality(S) = create'[r].maxReads /\ Ran(S, k)'
  <2>1. CASE create[r].pc # "created"
    BY <1>0, <1>2, <2>1, CreatedHere
  <2>2. CASE create[r].pc = "created"
    <3>1. create'[r] = create[r] /\ k = create[r].code /\ k \in Codes
      BY <1>0, <1>2, <2>2, AnswersStand DEF CodeNamed
    <3>2. now \in Int /\ now' \in Int /\ create[r].expiresAt \in Int
      BY <1>0, <1>1, Numbers DEF Inv, TypeOK, Times, CreateRequest
    <3>3. CASE create[r].expiresAt <= now
      BY <3>1, <3>2, <3>3, <1>1
    <3>4. CASE \E S \in SUBSET Claims : Cardinality(S) = create[r].maxReads /\ Ran(S, k)
      BY <1>0, <3>1, <3>4, RanStands
    <3>5. CASE entries[k].value = r
      <4>1. Present(k)
        BY <3>5, Tags DEF Present
      <4>2. CASE entries'[k].value = r
        BY <4>2
      <4>3. CASE Stale(entries[k], sweep) /\ sweep # NoSweep
        <5>1. /\ entries[k].expiresAt = create[r].expiresAt
              /\ entries[k].maxReads = create[r].maxReads
              /\ entries[k].remainingReads \in Nat /\ entries[k].maxReads \in Nat
          BY <1>0, <3>1, <3>5, <4>1 DEF Inv, RowsOwned, TypeOK, EntryRow
        <5>2. CASE entries[k].expiresAt <= sweep
          <6>1. sweep \in Int /\ sweep <= now
            BY <1>0, <4>3, Numbers DEF Inv, TypeOK, Times, SweepPast
          <6>2. create[r].expiresAt <= now
            BY <3>2, <5>1, <5>2, <6>1
          <6> QED BY <6>2, <3>3
        <5>3. CASE entries[k].remainingReads <= 0
          <6>1. PICK S \in SUBSET Claims :
                   /\ IsFiniteSet(S) /\ Ran(S, k)
                   /\ Cardinality(S) + entries[k].remainingReads = entries[k].maxReads
            BY <1>0, <3>1, <4>1 DEF ReadsCounted
          <6>2. Cardinality(S) \in Nat
            BY <6>1, FS_CardinalityType
          <6>3. Cardinality(S) = create[r].maxReads
            BY <5>1, <5>3, <6>1, <6>2
          <6> QED BY <6>1, <6>3, <3>4
        <5> QED BY <5>2, <5>3, <4>3 DEF Stale
      <4>4. entries'[k].value = entries[k].value \/ (Stale(entries[k], sweep) /\ sweep # NoSweep)
        BY <1>0, <3>1, <4>1, RowSteps
      <4> QED BY <4>2, <4>3, <4>4, <3>5
    <3> QED BY <1>0, <2>2, <3>1, <3>3, <3>4, <3>5 DEF CreatedIsKept, Ran
  <2> QED BY <2>1, <2>2
<1>3. CreatedIsKept'
  <2> SUFFICES ASSUME NEW r \in Creates, create'[r].pc = "created"
               PROVE  \/ create'[r].expiresAt <= now'
                      \/ entries'[create'[r].code].value = r
                      \/ \E S \in SUBSET Claims :
                            /\ Cardinality(S) = create'[r].maxReads
                            /\ \A q \in S : /\ claim'[q].code = create'[r].code
                                            /\ claim'[q].pc \in {"claimed", "failed"}
    BY DEF CreatedIsKept
  <2>1. PICK k : k = create'[r].code
    OBVIOUS
  <2> QED BY <1>2, <2>1 DEF Ran
<1>4. CodeNamed'
  BY <1>0, AnswersStand, CreatedHere DEF CodeNamed
<1> QED BY <1>1, <1>3, <1>4 DEF KeptInv

\* A create that was answered 201 keeps its code until the entry expires or as many claims
\* as it allows have run, whatever inserts, claims, lost replies and late cleanups do.
THEOREM CreatedStays == Spec => []CreatedIsKept
<1>1. KeptInv => CreatedIsKept
  BY DEF KeptInv
<1> QED BY <1>1, InitKept, StepKept, PTL DEF Spec
=============================================================================
