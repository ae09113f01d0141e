------------------------------ MODULE MemoryLedger ------------------------------
(***************************************************************************)
(* What the memory store promises, whichever backend keeps it: memories    *)
(* are only ever added, a batch at a time, and a memory is retired at most *)
(* once, by a later memory that supersedes it or by a tombstone.  After    *)
(* somebody edited the canonical documents by hand, nothing is promised.   *)
(***************************************************************************)
EXTENDS Naturals

CONSTANTS Ids

VARIABLES docs, edited

Document == [kind : {"record", "tombstone"}, id : Ids, refs : SUBSET Ids]

Records(s) == {x \in s : x.kind = "record"}
RecordIds(s) == {x.id : x \in Records(s)}

\* What an id is superseded by, or the id it is the tombstone of.
Retirements(s, id) == {x \in s : id \in x.refs}

\* A set of records each of which supersedes another one of the set goes round.
Rounds(s) ==
    {S \in SUBSET RecordIds(s) :
        S # {} /\ \A i \in S : \E x \in Records(s) : x.id = i /\ x.refs \cap S # {}}

Consistent(s) ==
    /\ \A x, y \in s : x.id = y.id => x = y
    /\ \A x \in s : x.refs \subseteq RecordIds(s)
    /\ \A x, y \in s : x # y => x.refs \cap y.refs = {}
    /\ Rounds(s) = {}

Init == Consistent(docs) /\ edited = FALSE

Append(batch) ==
    /\ ~edited /\ batch \cap docs = {}
    /\ docs' = docs \cup batch /\ Consistent(docs')
    /\ UNCHANGED edited

ByHand == edited' = TRUE /\ docs' \in SUBSET Document

Next == (\E batch \in SUBSET (docs' \ docs) : Append(batch)) \/ ByHand

Spec == Init /\ [][Next]_<<docs, edited>>
===============================================================================
