------------------------------ MODULE MCMemoryStore ------------------------------
(* Small instances of MemoryStore: a memory that several calls want to retire. *)
EXTENDS MemoryStore, TLC

CONSTANTS p, q
MCSymmetry == Permutations({p, q})

R(id, refs) == [kind |-> "record", id |-> id, refs |-> refs]
T(id, target) == [kind |-> "tombstone", id |-> id, refs |-> {target}]

\* One memory that is indexed; and two that are superseded before one that is
\* active, in tables that are migrated or not.
Row == {R(1, {}), R(2, {1}), R(3, {2})}
MCStarts ==
    {[docs |-> {R(1, {})}, index |-> {R(1, {})}, migrated |-> TRUE],
     [docs |-> Row, index |-> Row, migrated |-> TRUE], [docs |-> Row, index |-> {}, migrated |-> FALSE]}

\* One import brings a memory that supersedes the first and one that supersedes
\* that one, the other two that supersede each other.
MCChanges ==
    {[op |-> "store"], [op |-> "supersede", target |-> 1], [op |-> "delete", target |-> 1],
     [op |-> "import", documents |-> {R(3, {1}), R(4, {3})}],
     [op |-> "import", documents |-> {R(3, {4}), R(4, {3})}],
     [op |-> "import", documents |-> {T(4, 1)}]}

Asks(op, limit, budget, all) ==
    [op |-> op, words |-> 1 .. 3, wanted |-> Ids, limit |-> limit, budget |-> budget, all |-> all]
MCReads ==
    {Asks("search", 1, 9, FALSE), Asks("search", 4, 3, TRUE), Asks("list", 2, 0, TRUE),
     [op |-> "get", id |-> 2], [op |-> "validate"], [op |-> "export"],
     [op |-> "preview", documents |-> {T(4, 1)}]}
MCCommands == MCChanges \cup MCReads

MCSize == [i \in Ids |-> IF i = 2 THEN 3 ELSE 1]
MCEdits == {<<{}, {T(2, 1)}>>, <<{R(1, {})}, {}>>}
==================================================================================
