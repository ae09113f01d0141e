------------------------------ MODULE AuthorityQueue ------------------------------
(***************************************************************************)
(* The calls of withRepositoryLease (lease.ts) that one process makes for  *)
(* one authority: the FIFO of promises that lets one call at a time        *)
(* compete for the lease, the calls that are aborted or time out in it,    *)
(* the reentrancy check, and the tracked operations that the end of a      *)
(* lease waits for.  RepositoryLease models the competition itself; here   *)
(* it is the step from "acquire" to "inside", which may fail.              *)
(***************************************************************************)
EXTENDS Naturals

CONSTANTS
    Calls,      \* calls of withRepositoryLease
    NoCall,
    MayLose,    \* another process may take the lease of a running callback
    MaxOps      \* model bound: tracked operations a callback may start

ASSUME NoCallAssumption == NoCall \notin Calls
ASSUME MayLoseAssumption == MayLose \in BOOLEAN
ASSUME MaxOpsAssumption == MaxOps \in Nat

VARIABLES
    place,      \* place[c]: where call c stands
    parent,     \* parent[c]: the call in whose callback c was made
    awaited,    \* calls that their parent's callback awaits
    (* the queue: call c has a slot once it is enqueued *)
    tail,       \* the entry of authorityQueueTails
    pred,       \* pred[c]: the slot c waits for; NoCall is a resolved promise
    gates,      \* slots that were released
    settled,    \* slots whose promise (predecessor, then gate) has resolved
    (* the leases *)
    active,     \* calls whose LeaseState is active
    started,    \* started[c]: tracked operations c's callback has started
    pending,    \* pending[c]: those that have not settled
    (* history, for the properties *)
    arrival,    \* arrival[c]: how many calls had been enqueued with c
    arrived     \* calls enqueued so far

slotVars == <<tail, pred, gates, settled>>
leaseVars == <<active, started, pending>>
callVars == <<parent, awaited>>
historyVars == <<arrival, arrived>>
queueVars == <<place, slotVars, leaseVars, callVars, historyVars>>

Places == {"idle", "waiting", "cancelled", "acquire", "inside", "drain", "release",
        "refused", "done"}

QueueTypeOK ==
    /\ place \in [Calls -> Places]
    /\ parent \in [Calls -> Calls \cup {NoCall}] /\ awaited \subseteq Calls
    /\ tail \in Calls \cup {NoCall} /\ pred \in [Calls -> Calls \cup {NoCall}]
    /\ gates \subseteq Calls /\ settled \subseteq Calls
    /\ active \subseteq Calls
    /\ started \in [Calls -> 0 .. MaxOps] /\ pending \in [Calls -> 0 .. MaxOps]
    /\ arrival \in [Calls -> Nat] /\ arrived \in Nat

QueueInit ==
    /\ place = [c \in Calls |-> "idle"]
    /\ parent = [c \in Calls |-> NoCall] /\ awaited = {}
    /\ tail = NoCall /\ pred = [c \in Calls |-> NoCall] /\ gates = {} /\ settled = {}
    /\ active = {}
    /\ started = [c \in Calls |-> 0] /\ pending = [c \in Calls |-> 0]
    /\ arrival = [c \in Calls |-> 0] /\ arrived = 0

-------------------------------------------------------------------------------

Stands(c, l) == place[c] = l
MovesTo(c, l) == place' = [place EXCEPT ![c] = l]

\* A call is over for whoever awaits it.
Over(c) == place[c] \in {"cancelled", "refused", "done"}

\* Where a call may come from: outside every lease, or code of a callback that
\* runs or has run.
MayCall(q) == q # NoCall => place[q] \in {"inside", "drain", "release", "done"}

Enqueue(c) ==
    /\ pred' = [pred EXCEPT ![c] = tail] /\ tail' = c
    /\ arrived' = arrived + 1 /\ arrival' = [arrival EXCEPT ![c] = arrived + 1]
    /\ UNCHANGED <<gates, settled>>

\* Mutant: no reentrancy check.
CallUnchecked(c, q, awaits) ==
    /\ Stands(c, "idle") /\ q # c /\ MayCall(q)
    /\ awaits => q # NoCall /\ Stands(q, "inside")
    /\ parent' = [parent EXCEPT ![c] = q]
    /\ awaited' = IF awaits THEN awaited \cup {c} ELSE awaited
    /\ MovesTo(c, "waiting") /\ Enqueue(c)
    /\ UNCHANGED leaseVars

\* withRepositoryLease up to its first await: a call made in the chain of an
\* active lease is refused, any other one takes a slot.
Call(c, q, awaits) ==
    /\ Stands(c, "idle") /\ q # c /\ MayCall(q)
    /\ awaits => q # NoCall /\ Stands(q, "inside")
    /\ parent' = [parent EXCEPT ![c] = q]
    /\ awaited' = IF awaits THEN awaited \cup {c} ELSE awaited
    /\ IF q \in active
       THEN MovesTo(c, "refused") /\ UNCHANGED <<slotVars, historyVars>>
       ELSE MovesTo(c, "waiting") /\ Enqueue(c)
    /\ UNCHANGED leaseVars

\* Mutant: a call that gave up is not waited for.
PredecessorGone(c) == pred[c] \in settled \cup {d \in Calls : Stands(d, "cancelled")} \cup {NoCall}

\* The promise of the slot before c's has resolved.
PredecessorSettled(c) == pred[c] \in settled \cup {NoCall}

Turn(c) ==
    /\ Stands(c, "waiting") /\ PredecessorSettled(c)
    /\ MovesTo(c, "acquire")
    /\ UNCHANGED <<slotVars, leaseVars, callVars, historyVars>>

\* release of an AuthorityTurn: the gate opens, and the last slot goes.
OpensGate(c) ==
    /\ gates' = gates \cup {c}
    /\ tail' = IF tail = c THEN NoCall ELSE tail
    /\ UNCHANGED <<pred, settled>>

\* Mutant: a cancelled call gives its slot back at once.
CancelReleases(c) ==
    /\ Stands(c, "waiting")
    /\ MovesTo(c, "cancelled") /\ OpensGate(c)
    /\ UNCHANGED <<leaseVars, callVars, historyVars>>

\* Aborted or past its deadline; the slot stays where it is.
Cancel(c) ==
    /\ Stands(c, "waiting")
    /\ MovesTo(c, "cancelled")
    /\ UNCHANGED <<slotVars, leaseVars, callVars, historyVars>>

\* turn.predecessor.finally(turn.release)
ReleaseCancelled(c) ==
    /\ Stands(c, "cancelled") /\ PredecessorSettled(c)
    /\ MovesTo(c, "done") /\ OpensGate(c)
    /\ UNCHANGED <<leaseVars, callVars, historyVars>>

\* predecessor.then(() => gate)
Settle(c) ==
    /\ c \in gates \ settled /\ PredecessorSettled(c)
    /\ settled' = settled \cup {c}
    /\ UNCHANGED <<place, tail, pred, gates, leaseVars, callVars, historyVars>>

-------------------------------------------------------------------------------
(* The lease, once it is the call's turn. *)

Acquired(c) ==
    /\ Stands(c, "acquire")
    /\ MovesTo(c, "inside") /\ active' = active \cup {c}
    /\ UNCHANGED <<slotVars, started, pending, callVars, historyVars>>

AcquisitionFails(c) ==
    /\ Stands(c, "acquire")
    /\ MovesTo(c, "done") /\ OpensGate(c)
    /\ UNCHANGED <<leaseVars, callVars, historyVars>>

\* assertLiveLease finds that the lease is not the call's own any more.
LeaseLost(c) ==
    /\ MayLose /\ c \in active /\ place[c] \in {"inside", "drain"}
    /\ active' = active \ {c}
    /\ UNCHANGED <<place, slotVars, started, pending, callVars, historyVars>>

\* trackLeaseOperation; code of the callback may still run when it has returned.
StartOperation(c) ==
    /\ c \in active /\ started[c] < MaxOps
    /\ started' = [started EXCEPT ![c] = @ + 1]
    /\ pending' = [pending EXCEPT ![c] = @ + 1]
    /\ UNCHANGED <<place, slotVars, active, callVars, historyVars>>

OperationSettles(c) ==
    /\ pending[c] > 0
    /\ pending' = [pending EXCEPT ![c] = @ - 1]
    /\ UNCHANGED <<place, slotVars, active, started, callVars, historyVars>>

\* The callback returns or throws, once the calls it awaits are over.
CallbackEnds(c) ==
    /\ Stands(c, "inside")
    /\ \A d \in awaited : parent[d] = c => Over(d)
    /\ MovesTo(c, "drain")
    /\ UNCHANGED <<slotVars, leaseVars, callVars, historyVars>>

\* Mutant: the lease ends without waiting for its operations.
DrainNothing(c) ==
    /\ Stands(c, "drain")
    /\ MovesTo(c, "release") /\ active' = active \ {c}
    /\ UNCHANGED <<slotVars, started, pending, callVars, historyVars>>

\* No operation is pending: the lease is inactive from now on.
Drain(c) ==
    /\ Stands(c, "drain") /\ pending[c] = 0
    /\ MovesTo(c, "release") /\ active' = active \ {c}
    /\ UNCHANGED <<slotVars, started, pending, callVars, historyVars>>

\* releaseOwnedLease has returned, which it does whatever it met.
ReleaseTurn(c) ==
    /\ Stands(c, "release")
    /\ MovesTo(c, "done") /\ OpensGate(c)
    /\ UNCHANGED <<leaseVars, callVars, historyVars>>

\* What the runtime and the callbacks do without anybody giving up.
Progress(c) ==
    \/ Turn(c) \/ ReleaseCancelled(c) \/ Settle(c) \/ Acquired(c)
    \/ OperationSettles(c) \/ CallbackEnds(c) \/ Drain(c) \/ ReleaseTurn(c)

QueueNext ==
    \E c \in Calls :
        \/ \E q \in Calls \cup {NoCall}, awaits \in BOOLEAN : Call(c, q, awaits)
        \/ Progress(c) \/ Cancel(c) \/ AcquisitionFails(c)
        \/ LeaseLost(c) \/ StartOperation(c)

QueueSpec == QueueInit /\ [][QueueNext]_queueVars

\* Promises resolve, callbacks and operations end, and an acquisition that goes
\* on for ever fails at its deadline.
Fairness == \A c \in Calls : WF_queueVars(Progress(c))
FairQueueSpec == QueueSpec /\ Fairness

-------------------------------------------------------------------------------
(* Properties. *)

\* From its turn to its release a call is alone.
InTurn(c) == place[c] \in {"acquire", "inside", "drain", "release"}
OneInTurn == \A c, d \in Calls : InTurn(c) /\ InTurn(d) => c = d

\* Calls get their turn in the order they came in: whoever came earlier has had
\* its turn, or gave up.
EarlierFirst ==
    \A c, d \in Calls :
        InTurn(c) /\ arrival[d] > 0 /\ arrival[d] < arrival[c] => place[d] \in {"cancelled", "done"}

\* The operations that a callback started without awaiting them belong to its
\* lease: none of them is pending when another callback runs.
OperationsInLease ==
    \A c, d \in Calls : pending[c] > 0 /\ Stands(d, "inside") => c = d

\* Nothing of one call overlaps what another does in its lease.
TurnsInv == OneInTurn /\ OperationsInLease

\* Unless a lease is lost, nobody waits, directly or behind others, for the end of
\* the callback that awaits it: every call that does not give up has its turn.
LeaseIsLost == \E c \in Calls : place[c] \in {"inside", "drain"} /\ c \notin active
EveryCallServed ==
    <>LeaseIsLost \/ \A c \in Calls : Stands(c, "waiting") ~> Stands(c, "inside") \/ Over(c)

\* When the timers of waiting calls fire, every call ends, even one that stands in
\* the queue behind the callback that awaits it, which the reentrancy check does
\* not see once that callback's lease is lost.
Deadlines == \A c \in Calls : WF_queueVars(Cancel(c))
EveryCallEnds == Deadlines => \A c \in Calls : Stands(c, "waiting") ~> Over(c)

NobodyWaitsForever == EveryCallServed /\ EveryCallEnds
===============================================================================
