--------------------------- MODULE CacheVerification ---------------------------
(***************************************************************************)
(* How each domain compares the rows of an SQLite cache with the           *)
(* projection of the canonical files: Issues in pages by key, Design Docs  *)
(* row by row over a join, Memory one lookup per record.  No query may     *)
(* return more than a page or a number of bytes, so none sees a table as a *)
(* whole; the properties at the end say that together they see it all.     *)
(*                                                                         *)
(* A table is the sequence of its rows in the order in which its query     *)
(* reads them.  A row is its key, its other columns (`value`) and its size *)
(* in bytes; the JSON and the driver's measure of a row are taken as one.  *)
(* The budget over all tables is left out: a projection above it is never  *)
(* built, so that only a row too many can exceed it.                       *)
(***************************************************************************)
EXTENDS Integers, SequencesExt

CONSTANTS
    Keys,       \* model bound: ids and row keys are 1..Keys
    Limits      \* [rows, bytes]: what one query may return

ASSUME KeysAssumption == Keys \in Nat \ {0}
ASSUME LimitsAssumption == Limits \subseteq [rows : Nat \ {0}, bytes : Nat \ {0}]

-------------------------------------------------------------------------------
(* Issues: a table per kind of data, each read in pages by key. *)

\* The order of keys: by their columns, from the left.
Before(key, other) == \E i \in DOMAIN key : key[i] < other[i] /\ \A j \in 1..(i - 1) : key[j] = other[j]

BytesOf(rows) ==
    LET sum[n \in 0..Len(rows)] == IF n = 0 THEN 0 ELSE sum[n - 1] + rows[n].size
    IN sum[Len(rows)]

\* SELECT ... WHERE key > previous ORDER BY key LIMIT count.
After(previous, row) == previous = <<>> \/ Before(previous, row.key)
Following(table, previous) ==
    LET upTo[n \in 0..Len(table)] ==
          IF n = 0 THEN <<>>
          ELSE IF After(previous, table[n]) THEN Append(upTo[n - 1], table[n]) ELSE upTo[n - 1]
    IN upTo[Len(table)]
Select(table, previous, count) ==
    LET rest == Following(table, previous)
    IN SubSeq(rest, 1, IF count < Len(rest) THEN count ELSE Len(rest))

\* A page has one row at least, and as many as fit half of the byte limit.
VerificationPageEnd(rows, start, limit) ==
    LET target == IF limit.bytes < 2 THEN 1 ELSE limit.bytes \div 2
        last == IF start + limit.rows < Len(rows) THEN start + limit.rows ELSE Len(rows)
    IN CHOOSE end \in (start + 1)..last :
         /\ end = start + 1 \/ BytesOf(SubSeq(rows, start + 1, end)) <= target
         /\ end < last => BytesOf(SubSeq(rows, start + 1, end + 1)) > target

\* Where the pages end: a page is read after the last row of the one before.
PageEnds(expected, limit) ==
    LET end[n \in 0..Len(expected)] ==
          IF n = 0 THEN 0
          ELSE IF end[n - 1] = Len(expected) THEN end[n - 1]
          ELSE VerificationPageEnd(expected, end[n - 1], limit)
    IN end
Previous(expected, start) == IF start = 0 THEN <<>> ELSE expected[start].key

\* Page after page is what the projection has there, and no row follows.
VerifyRows(table, expected, limit) ==
    LET end == PageEnds(expected, limit)
        Page(n) == Select(table, Previous(expected, end[n - 1]), end[n] - end[n - 1])
    IN /\ \A n \in 1..Len(expected) :
            BytesOf(Page(n)) <= limit.bytes /\ Page(n) = SubSeq(expected, end[n - 1] + 1, end[n])
       /\ Select(table, Previous(expected, Len(expected)), 1) = <<>>

\* Mutant: the pages are believed to reach every row.
PagesAreEnough(table, recorded, expected) == TRUE

\* The number of rows, and the number that the rebuild recorded.
CountsAgree(table, recorded, expected) == recorded = Len(expected) /\ Len(table) = Len(expected)

IssuesAccept(table, recorded, expected, limit) ==
    CountsAgree(table, recorded, expected) /\ VerifyRows(table, expected, limit)

\* The relationships of an issue in the order in which the projection visits
\* them; their numbers are the order of their names (depends_on, duplicates,
\* relates_to, supersedes).
Relationships == <<1, 3, 2, 4>>

\* The rows in the order of their keys: row n has n - 1 before it.
Sorted(rows) ==
    LET Earlier(i) == {j \in DOMAIN rows : \/ Before(rows[j].key, rows[i].key)
                                           \/ rows[j].key = rows[i].key /\ j < i}
    IN [n \in DOMAIN rows |-> rows[CHOOSE i \in DOMAIN rows : Cardinality(Earlier(i)) = n - 1]]

\* Every relationship of every issue, by source, relationship and ordinal;
\* `catalog` says how many targets each has.
RelationshipRows(catalog) ==
    LET targets(id, kind) == [n \in 1..catalog[id][kind] |->
                                [key |-> <<id, kind, n - 1>>, value |-> 1, size |-> 1]]
        pushed(id) == FlattenSeq([k \in 1..4 |-> targets(id, Relationships[k])])
    IN Sorted(FlattenSeq([id \in 1..Len(catalog) |-> pushed(id)]))

-------------------------------------------------------------------------------
(* Design Docs: `records` and `documents_fts` are tables by row number, read *)
(* through their join, a row at a time.                                      *)

Joined(records, texts) ==
    [n \in 1..Cardinality(DOMAIN records \cap DOMAIN texts) |->
        LET key == SetToSortSeq(DOMAIN records \cap DOMAIN texts, <)[n]
        IN [key |-> key, record |-> records[key], text |-> texts[key]]]

DocumentsAccept(records, texts, expected) ==
    LET rows == Joined(records, texts)
    IN /\ \A n \in 1..Len(expected) :
            n \in DOMAIN rows /\ rows[n] = [key |-> n] @@ expected[n]
       /\ Len(expected) + 1 \notin DOMAIN rows

-------------------------------------------------------------------------------
(* Memory: `memory_records` by id, and `memory_search`, which may hold an id *)
(* twice; a lookup returns any row of the join.                              *)

MemoryAccepts(records, texts, expected) ==
    /\ Cardinality(DOMAIN records) = Cardinality(DOMAIN expected)
    /\ Len(texts) = Cardinality(DOMAIN expected)
    /\ \A id \in DOMAIN expected :
         /\ id \in DOMAIN records /\ records[id] = expected[id].record
         /\ \E n \in DOMAIN texts : texts[n] = [id |-> id, text |-> expected[id].text]

-------------------------------------------------------------------------------
(* The question, over every small table. *)

Partial(S) == UNION {[D -> S] : D \in SUBSET (1..Keys)}
Sizes == 1..2
Ids == {<<id>> : id \in 1..Keys}
Row(key, size) == [key |-> key, value |-> size, size |-> size]
InOrder(table) == \A i, j \in DOMAIN table : i < j => ~Before(table[j].key, table[i].key)

\* Projections have every id once; tables may have an id twice.
Rows == {Row(key, size) : key \in Ids, size \in Sizes}
Tables == {t \in BoundedSeq(Rows, Keys + 1) : InOrder(t)}
Projections == {t \in Tables : \A i, j \in DOMAIN t : t[i].key = t[j].key => i = j}
Catalogued == [1..2 -> [1..4 -> 0..2]]

\* Whatever rows a table has, missing, surplus, doubled or changed, Issues
\* accepts it just when it is the projection, provided that every row may be
\* read at all; and the projection is in the order in which the pages read it.
IssuesAcceptOnlyTheProjection ==
    /\ \A expected \in Projections, table \in Tables, limit \in Limits :
         \A recorded \in {Len(expected), Len(table)} :
           (\A n \in DOMAIN expected : expected[n].size <= limit.bytes) =>
             (IssuesAccept(table, recorded, expected, limit) <=>
                table = expected /\ recorded = Len(expected))
    /\ \A catalog \in Catalogued : InOrder(RelationshipRows(catalog))

\* For Design Docs it is the join that counts, the one that its searches use.
DocumentsAcceptOnlyTheProjection ==
    \A records \in Partial(Sizes), texts \in Partial(Sizes) :
      \A expected \in BoundedSeq([record : Sizes, text : Sizes], Keys) :
        DocumentsAccept(records, texts, expected) <=>
          Joined(records, texts) = [n \in DOMAIN expected |-> [key |-> n] @@ expected[n]]

MemoryAcceptsOnlyTheProjection ==
    \A expected \in Partial([record : Sizes, text : Sizes]), records \in Partial(Sizes) :
      \A texts \in BoundedSeq([id : 1..Keys, text : Sizes], Keys) :
        MemoryAccepts(records, texts, expected) <=>
          /\ records = [id \in DOMAIN expected |-> expected[id].record]
          /\ ToSet(texts) = {[id |-> id, text |-> expected[id].text] : id \in DOMAIN expected}
          /\ Len(texts) = Cardinality(DOMAIN expected)
===============================================================================
