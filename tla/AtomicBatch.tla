------------------------------ MODULE AtomicBatch ------------------------------
(***************************************************************************)
(* What applyCanonicalBatch promises to the lease callbacks of a           *)
(* repository: a batch changes all of its paths in one step or none of     *)
(* them; until the call returns the step may still be taken back, once it  *)
(* has returned it may not.                                                *)
(***************************************************************************)
CONSTANTS
    Paths,
    Values,     \* the revisions a path may have, absence included
    Starts,     \* the canonical states a repository may start from
    Batches     \* the batches: partial functions from Paths to Values

VARIABLES
    store,      \* what a callback that ran now would see
    before,     \* the store when the current batch began
    target,     \* the store that batch asks for
    status      \* of that batch: "open", "committed" or "returned"

batchVars == <<store, before, target, status>>

Init ==
    /\ store \in Starts
    /\ before = store /\ target = store
    /\ status = "open"

Begin(b) ==
    /\ before' = store
    /\ target' = [p \in Paths |-> IF p \in DOMAIN b THEN b[p] ELSE store[p]]
    /\ status' = "open"
    /\ UNCHANGED store

Commit ==
    /\ status = "open"
    /\ status' = "committed" /\ store' = target
    /\ UNCHANGED <<before, target>>

\* A commit whose call did not return may be lost with the power.
Revoke ==
    /\ status = "committed"
    /\ status' = "open" /\ store' = before
    /\ UNCHANGED <<before, target>>

Return ==
    /\ status = "committed"
    /\ status' = "returned"
    /\ UNCHANGED <<store, before, target>>

Next == (\E b \in Batches : Begin(b)) \/ Commit \/ Revoke \/ Return

Spec == Init /\ [][Next]_batchVars
===============================================================================
