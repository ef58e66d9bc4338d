------------------------------ MODULE MCWorker ------------------------------
(* The rendez-key Worker on a small instance: its entry service and its      *)
(* allocation of signal rooms, which run side by side and share no state.    *)
EXTENDS Entries, RoomAllocation, TLC

WorkerInit == Init /\ AllocInit

\* Neither reads or writes what the other does, so each is explored while the other rests.
WorkerNext ==
    \/ AllocInit /\ Next /\ UNCHANGED allocVars
    \/ Init /\ AllocNext /\ UNCHANGED vars

WorkerSpec == WorkerInit /\ [][WorkerNext]_<<vars, allocVars>>

Symmetric == Permutations(Creates) \cup Permutations(Claims)

\* Ceilings of the two tiers; the anonymous one is tighter.
SmallLimits ==
    [t \in Tiers |-> IF t = "anonymous"
                     THEN [minTtl |-> 1, maxTtl |-> 1, minReads |-> 1, maxReads |-> 1]
                     ELSE [minTtl |-> 1, maxTtl |-> 2, minReads |-> 1, maxReads |-> 2]]
=============================================================================
