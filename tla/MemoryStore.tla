------------------------------- MODULE MemoryStore -------------------------------
(***************************************************************************)
(* The memory store of @neottia/memory-core over its two backends.  On the *)
(* file system a call runs under the repository lease and its batch is     *)
(* committed where it is published; in PostgreSQL it runs in a transaction *)
(* that holds the advisory lock of the shard, and is committed at the end. *)
(* Both run the same code between: load and validate every document,       *)
(* compute the new ones, publish, load again, synchronize the search index.*)
(*                                                                         *)
(* A record or tombstone is a document; refs are the records it retires.   *)
(* The search index is a disposable file, or a column of the rows.         *)
(***************************************************************************)
EXTENDS Integers, FiniteSets, SequencesExt

CONSTANTS
    Ids,            \* ULIDs of records and tombstones, the later the greater
    Agents,         \* callers of the tools
    Backends,       \* "filesystem", "postgres"
    Starts,         \* [docs, index, migrated]: what a shard may start with
    Commands,       \* the calls the agents make
    Edits,          \* <<R, S>>: somebody replaces documents R by S
    Size,           \* Size[i]: characters of record i in an answer
    MaxFiles,       \* security.limits.max_files
    PageSize,       \* rows of a page of a PostgreSQL search (50)
    None,           \* no call, no outcome
    MaxEdits,       \* model bound
    MaxFaults       \* model bound: failing queries and lost connections

ASSUME NothingAssumption == None \notin Agents /\ None \notin Commands
ASSUME IdsAssumption == Ids \subseteq Nat /\ IsFiniteSet(Ids) /\ Size \in [Ids -> Nat \ {0}]
ASSUME LimitsAssumption == MaxFiles \in Nat /\ PageSize \in Nat \ {0}
ASSUME BoundsAssumption == MaxEdits \in Nat /\ MaxFaults \in Nat

VARIABLES
    backend,        \* the backend of this shard
    stored,         \* the documents that are committed
    index,          \* the documents the search index was built from; in
                    \* PostgreSQL the records whose search_text is theirs
    migrated,       \* the tables are of the current schema
    ready,          \* agents whose store has ensured the schema
    pending,        \* what the open transaction wrote
    repaired,       \* the open transaction brought every search_text up to date
    broken,         \* the open transaction failed: COMMIT will roll it back
    attempt,        \* withLock: which of its two attempts runs
    holder,         \* the agent whose call holds the lease or the shard lock
    command,        \* its call
    phase,          \* where it is
    batch,          \* the documents it publishes
    answer,         \* what it read
    cancelled,      \* its signal is aborted, or its deadline has passed
    outcome,        \* what the last call to end told its caller
    faults, edits

schema == <<migrated, ready>>
transaction == <<pending, repaired, broken, attempt>>
call == <<holder, command, phase, batch, answer, cancelled>>
vars == <<backend, stored, index, schema, transaction, call, outcome, faults, edits>>

Document == [kind : {"record", "tombstone"}, id : Ids, refs : SUBSET Ids]
Phases == {"idle", "begin", "operate", "apply", "reload", "synchronize", "read", "return"}
Claims == {"stored", "read", "committed", "failed", "lost"}

Changes == {"store", "supersede", "delete", "import"}
Reads == {"get", "list", "search", "preview", "validate", "export"}

\* What the schemas of the tools admit; what the files and the rows can hold.
ASSUME CommandsAssumption ==
    \A m \in Commands :
        /\ m.op \in Changes \cup Reads
        /\ m.op \in {"supersede", "delete"} => m.target \in Ids
        /\ m.op \in {"import", "preview"} => m.documents \subseteq Document
        /\ m.op \in {"search", "list"} => m.limit \in Nat
        /\ m.op = "search" => m.budget \in Nat /\ m.words \subseteq Ids
ASSUME EditsAssumption == \A e \in Edits : e[2] \subseteq Document

TypeOK ==
    /\ backend \in Backends
    /\ stored \subseteq Document /\ pending \subseteq batch /\ batch \subseteq Document
    /\ index \subseteq Document /\ migrated \in BOOLEAN /\ ready \subseteq Agents
    /\ repaired \in BOOLEAN /\ broken \in BOOLEAN /\ attempt \in {0, 1}
    /\ holder \in Agents \cup {None} /\ command \in Commands \cup {None}
    /\ phase \in Phases /\ cancelled \in BOOLEAN
    /\ holder = None <=> phase = "idle"
    /\ outcome # None => outcome.claim \in Claims /\ outcome.docs \subseteq Document /\ outcome.late \in BOOLEAN
    /\ faults \in 0 .. MaxFaults /\ edits \in 0 .. MaxEdits

Init ==
    /\ backend \in Backends
    /\ \E s \in Starts : stored = s.docs /\ index = s.index /\ migrated = s.migrated
    /\ ready = {}
    /\ holder = None /\ command = None /\ phase = "idle" /\ batch = {} /\ answer = <<>> /\ cancelled = FALSE
    /\ pending = {} /\ repaired = FALSE /\ broken = FALSE /\ attempt = 0
    /\ outcome = None /\ faults = 0 /\ edits = 0

Postgres == backend = "postgres"

\* A transaction reads what is committed, and its own writes.
Visible == stored \cup pending

-------------------------------------------------------------------------------
(* Documents. *)

Records(s) == {x \in s : x.kind = "record"}
RecordIds(s) == {x.id : x \in Records(s)}
UsedIds(s) == {x.id : x \in s}
Retired(s) == UNION {x.refs : x \in s}
Active(s) == RecordIds(s) \ Retired(s)

\* assertAcyclic: records that all supersede one another go round.
Rounds(s) ==
    {S \in SUBSET RecordIds(s) :
        S # {} /\ \A i \in S : \E x \in Records(s) : x.id = i /\ x.refs \cap S # {}}

\* loadState with validateAndClassifySnapshot.  Only the file system counts the
\* files and finds one id on a record and on a tombstone; that a record is
\* retired twice, neither.
Loads(s) ==
    /\ Retired(s) \subseteq RecordIds(s)
    /\ Rounds(s) = {}
    /\ ~Postgres => /\ Cardinality(s) <= MaxFiles
                    /\ \A x, y \in s : x.id = y.id => x = y

New(kind, id, refs) == [kind |-> kind, id |-> id, refs |-> refs]

\* makeRecord and makeTombstone with a fresh ULID, or the documents of an import
Documents(m, id) ==
    CASE m.op = "store"     -> {New("record", id, {})}
      [] m.op = "supersede" -> {New("record", id, {m.target})}
      [] m.op = "delete"    -> {New("tombstone", id, {m.target})}
      [] m.op = "import"    -> m.documents

\* validateImportBatch, assertImportRelationships and assertSingleRetirement: the
\* last one looks at all retirements, so a shard that already has a record
\* retired twice imports nothing.
ImportIsValid(m, s) ==
    LET all == s \cup m.documents
    IN  /\ \A x \in m.documents : x.id \notin UsedIds(s)
        /\ \A x, y \in m.documents : x.id = y.id => x = y
        /\ Retired(m.documents) \subseteq RecordIds(all)
        /\ \A x, y \in all : x # y => x.refs \cap y.refs = {}
        /\ Rounds(all) = {}

\* Mutant: the target only has to exist.
TargetExists(m, s) == m.target \in RecordIds(s)
TargetIsActive(m, s) == m.target \in Active(s)

Accepts(m, s, id) ==
    /\ m.op \in {"supersede", "delete"} => TargetIsActive(m, s)
    /\ m.op # "import" => id \notin UsedIds(s)
    /\ m.op = "import" => ImportIsValid(m, s)

-------------------------------------------------------------------------------
(* Reading.  The rank of a record in a search is its id; words are the records *)
(* whose text matches, wanted those of the topic and the memory type.          *)

Ascending(S) ==
    CHOOSE q \in [1 .. Cardinality(S) -> S] : \A i, j \in DOMAIN q : i < j => q[i] < q[j]
First(n, seq) == SubSeq(seq, 1, IF Len(seq) < n THEN Len(seq) ELSE n)

Shown(m, s, i) == i \in m.wanted /\ (m.all \/ i \in Active(s))

\* What the call may show of the ranked records, in their order.
Kept(m, s, ranked) ==
    LET upTo[n \in 0 .. Len(ranked)] ==
          IF n = 0 THEN <<>>
          ELSE IF Shown(m, s, ranked[n]) THEN Append(upTo[n - 1], ranked[n]) ELSE upTo[n - 1]
    IN  upTo[Len(ranked)]

\* collectSearchResults
Nothing == [found |-> <<>>, used |-> 0, full |-> FALSE]
Take(m, s, acc, i, limit, budget) ==
    IF acc.full \/ Len(acc.found) >= limit \/ ~Shown(m, s, i) THEN acc
    ELSE IF acc.used + Size[i] > budget THEN [found |-> acc.found, used |-> acc.used, full |-> TRUE]
    ELSE [found |-> Append(acc.found, i), used |-> acc.used + Size[i], full |-> FALSE]
Collect(m, s, ranked, limit, budget) ==
    LET upTo[n \in 0 .. Len(ranked)] ==
          IF n = 0 THEN Nothing ELSE Take(m, s, upTo[n - 1], ranked[n], limit, budget)
    IN  upTo[Len(ranked)]

\* The query of the file-system cache filters and limits before it ranks.
CacheSearch(m, s, ranked) ==
    Collect(m, s, First(m.limit, Kept(m, s, ranked)), m.limit, m.budget).found

\* PostgreSQL ranks a page at a time and filters it afterwards.
RowsOfPage(m) == IF m.limit > PageSize THEN m.limit ELSE PageSize
Page(m, ranked, n) ==
    LET rest == SubSeq(ranked, (n - 1) * RowsOfPage(m) + 1, Len(ranked)) IN First(RowsOfPage(m), rest)
AddPage(m, s, acc, page) ==
    LET more == Collect(m, s, page, m.limit - Len(acc.found), m.budget - acc.used)
        used == acc.used + more.used
    IN  IF acc.full \/ Len(acc.found) >= m.limit THEN acc
        ELSE [found |-> acc.found \o more.found, used |-> used,
              full |-> used >= m.budget \/ Len(page) < RowsOfPage(m)]
PagedSearch(m, s, ranked) ==
    LET pages[n \in 0 .. Len(ranked)] ==
          IF n = 0 THEN Nothing ELSE AddPage(m, s, pages[n - 1], Page(m, ranked, n))
    IN  pages[Len(ranked)].found

\* Mutant: search does not bring the texts up to date first.
TextsAsTheyAre(s) == Records(s) \cap (index \cup pending)
Texts(s) == Records(s)

Answer(m, s) ==
    CASE m.op = "get"     -> <<m.id>>
      [] m.op = "list"    -> First(m.limit, Reverse(Ascending({i \in RecordIds(s) : Shown(m, s, i)})))
      [] m.op = "preview" -> Ascending(UsedIds(m.documents))
      [] m.op \in {"validate", "export"} -> Ascending(UsedIds(s))
      [] m.op = "search"  ->
            LET ranked == Ascending({x.id : x \in Texts(s)} \cap m.words)
            IN  IF Postgres THEN PagedSearch(m, s, ranked) ELSE CacheSearch(m, s, ranked)

CanAnswer(m, s) ==
    /\ m.op = "get" => m.id \in UsedIds(s)
    /\ m.op = "preview" => ImportIsValid(m, s)

UsesIndex(m) == m.op \in {"search", "validate"}

-------------------------------------------------------------------------------
(* One call. *)

\* ensureSchema: the tables are migrated in a transaction of its own, and the
\* texts of legacy rows are empty after it.  A failure is tried again by the
\* next call.
EnsureSchema(a) ==
    /\ Postgres /\ a \notin ready
    /\ ready' = ready \cup {a} /\ migrated' = TRUE
    /\ index' = IF migrated THEN index ELSE {}
    /\ UNCHANGED <<backend, stored, transaction, call, outcome, faults, edits>>

\* import has no load of its own before it validates; the others have.
FirstPhase(m) ==
    IF m.op = "import" THEN "operate" ELSE IF m.op \in Changes THEN "begin" ELSE "read"

Call(a, m) ==
    /\ phase = "idle"
    /\ Postgres => a \in ready
    /\ holder' = a /\ command' = m /\ phase' = FirstPhase(m)
    /\ batch' = {} /\ answer' = <<>> /\ cancelled' = FALSE
    /\ pending' = {} /\ repaired' = FALSE /\ broken' = FALSE /\ attempt' = 0 /\ outcome' = None
    /\ UNCHANGED <<backend, stored, index, schema, faults, edits>>

\* The call is over, and its transaction.
Over ==
    /\ holder' = None /\ command' = None /\ phase' = "idle" /\ batch' = {} /\ answer' = <<>> /\ cancelled' = FALSE
    /\ pending' = {} /\ repaired' = FALSE /\ broken' = FALSE /\ attempt' = 0

\* What the caller is told; late: history, a call of the system failed behind the
\* commit point of the file system.
Tell(claim, late) ==
    outcome' = [command |-> command, docs |-> batch, claim |-> claim, answer |-> answer, late |-> late]

\* The call ends; its transaction is committed or rolled back.
End(claim) == Tell(claim, FALSE) /\ Over

Fail == End("failed") /\ UNCHANGED <<backend, stored, index, schema, edits>>

\* The call goes on to phase p.
GoOn(p) == phase' = p /\ UNCHANGED <<stored, index, transaction, holder, command, batch, answer, cancelled, outcome>>

\* assertMemoryControl and loadState before anything is published
Begin ==
    /\ phase = "begin"
    /\ IF ~cancelled /\ Loads(Visible) THEN GoOn("operate") ELSE Fail
    /\ UNCHANGED <<backend, schema, faults, edits>>

\* store, supersede, delete, import: the documents to publish
Operate ==
    /\ phase = "operate"
    /\ \E id \in Ids :
          IF ~cancelled /\ Loads(Visible) /\ Accepts(command, Visible, id)
          THEN /\ batch' = Documents(command, id) /\ phase' = "apply"
               /\ UNCHANGED <<stored, index, transaction, holder, command, answer, cancelled, outcome>>
          ELSE Fail
    /\ UNCHANGED <<backend, schema, faults, edits>>

\* The path of a document is its kind (and type) and its id; it must be free.
PathsAreFree == \A x \in batch, y \in Visible : ~(x.kind = y.kind /\ x.id = y.id)

\* Mutant: the limit looks at the batch alone.
BatchFits == Cardinality(batch) <= MaxFiles
WithinLimits == Cardinality(Visible \cup batch) <= MaxFiles

CanPublish == ~cancelled /\ WithinLimits /\ PathsAreFree

\* applyBatch, not to be interrupted: on the file system the commit point
Apply ==
    /\ phase = "apply"
    /\ IF CanPublish
       THEN /\ IF Postgres THEN pending' = batch /\ UNCHANGED stored
                           ELSE stored' = stored \cup batch /\ UNCHANGED pending
            /\ phase' = "reload"
            /\ UNCHANGED <<index, repaired, broken, attempt, holder, command, batch, answer, cancelled, outcome>>
       ELSE Fail
    /\ UNCHANGED <<backend, schema, faults, edits>>

\* Mutant: the load after the publication can be cancelled too.
ReloadWhenNotCancelled == ~cancelled /\ Loads(Visible)
Reloads == Loads(Visible)

\* executeMutation fails when the documents no longer load; import only warns.
Reload ==
    /\ phase = "reload"
    /\ IF Reloads THEN GoOn("synchronize") ELSE IF command.op = "import" THEN GoOn("return") ELSE Fail
    /\ UNCHANGED <<backend, schema, faults, edits>>

\* checkOrRebuildCache
UpToDate ==
    IF Postgres THEN repaired' = TRUE /\ UNCHANGED index ELSE index' = Visible /\ UNCHANGED repaired

Synchronize ==
    /\ phase = "synchronize" /\ phase' = "return"
    /\ UpToDate
    /\ UNCHANGED <<backend, stored, schema, pending, broken, attempt,
                   holder, command, batch, answer, cancelled, outcome, faults, edits>>

\* get, list, search, validate, export and the preview of an import.  A stale
\* file-system cache is rebuilt, or by its policy the search is refused.
Read ==
    /\ phase = "read"
    /\ \/ /\ ~cancelled /\ Loads(Visible) /\ CanAnswer(command, Visible)
          /\ answer' = Answer(command, Visible) /\ phase' = "return"
          /\ IF UsesIndex(command) THEN UpToDate ELSE UNCHANGED <<index, repaired>>
          /\ UNCHANGED <<stored, pending, broken, attempt, holder, command, batch, cancelled, outcome>>
       \/ /\ \/ cancelled
             \/ ~Loads(Visible)
             \/ ~CanAnswer(command, Visible)
             \/ ~Postgres /\ command.op = "search"
          /\ Fail
    /\ UNCHANGED <<backend, schema, faults, edits>>

\* COMMIT, which rolls a failed transaction back without an error
Commits ==
    /\ stored' = Visible
    /\ index' = IF ~Postgres THEN index ELSE IF repaired THEN Records(Visible) ELSE index \cup Records(pending)

Return ==
    /\ phase = "return"
    /\ IF broken THEN UNCHANGED <<stored, index>> ELSE Commits
    /\ End(IF command.op \in Changes THEN "stored" ELSE "read")
    /\ UNCHANGED <<backend, schema, faults, edits>>

-------------------------------------------------------------------------------
(* What may go wrong. *)

Fault == faults < MaxFaults /\ faults' = faults + 1

\* The index cannot be synchronized, or, in an import, the documents not be loaded
\* for it: the mutation throws, saying that it is committed; the import returns
\* with a warning.
IndexFails ==
    IF command.op = "import"
    THEN /\ phase' = "return" /\ broken' = Postgres
         /\ UNCHANGED <<pending, repaired, attempt, holder, command, batch, answer, cancelled, outcome>>
    ELSE End("committed")

SynchronizeFails ==
    /\ phase = "synchronize" \/ (phase = "reload" /\ command.op = "import")
    /\ Fault
    /\ IndexFails
    /\ UNCHANGED <<backend, stored, index, schema, edits>>

\* A call of the system or a query, of the load behind the publication too, fails
\* and the batch is rolled back.
QueryFails ==
    /\ \/ phase \in {"begin", "operate", "apply", "read"}
       \/ Postgres /\ phase = "reload" /\ command.op # "import"
    /\ Fault
    /\ Fail

\* The file system fails behind the commit point: the sync that follows the
\* committed mark, or the load of executeMutation, which is no part of its try.
\* The call fails like any other, with its documents committed.
FailsLate ==
    /\ ~Postgres
    /\ \/ phase = "apply" /\ CanPublish /\ stored' = stored \cup batch
       \/ phase = "reload" /\ command.op # "import" /\ UNCHANGED stored
    /\ Fault
    /\ Tell("failed", TRUE) /\ Over
    /\ UNCHANGED <<backend, index, schema, edits>>

RolledBack == {}

\* A serialization failure or a deadlock: rolled back and tried once more.
Retry ==
    /\ Postgres /\ attempt = 0 /\ Fault
    /\ \/ phase \in {"begin", "operate", "apply", "read"}
       \/ phase = "reload" /\ command.op # "import"
    /\ pending' = RolledBack /\ attempt' = 1 /\ phase' = FirstPhase(command) /\ batch' = {}
    /\ UNCHANGED <<backend, stored, index, schema, repaired, broken,
                   holder, command, answer, cancelled, outcome, edits>>

\* The connection is lost during COMMIT, which the server ran or not.
CommitIsLost ==
    /\ Postgres /\ phase = "return" /\ ~broken /\ Fault
    /\ Commits \/ UNCHANGED <<stored, index>>
    /\ End("lost")
    /\ UNCHANGED <<backend, schema, edits>>

\* The schema cannot be ensured: the call fails before it begins.
SchemaFails(a) ==
    /\ Postgres /\ a \notin ready /\ phase = "idle" /\ Fault
    /\ outcome' = None
    /\ UNCHANGED <<backend, stored, index, schema, transaction, call, edits>>

\* The signal of the call is aborted, or its deadline passes.
Cancel ==
    /\ phase # "idle" /\ ~cancelled /\ cancelled' = TRUE
    /\ UNCHANGED <<backend, stored, index, schema, transaction,
                   holder, command, phase, batch, answer, outcome, faults, edits>>

\* The process dies; a transaction is rolled back, a lease is taken over.
Kill ==
    /\ phase # "idle" /\ Fault
    /\ ready' = ready \ {holder}
    /\ outcome' = None /\ Over
    /\ UNCHANGED <<backend, stored, index, migrated, edits>>

\* Somebody edits the files, merges a branch, or changes rows by SQL.
ByHand(e) ==
    /\ edits < MaxEdits /\ edits' = edits + 1
    /\ e[1] \subseteq stored
    /\ stored' = (stored \ e[1]) \cup e[2]
    /\ index' = IF Postgres THEN index \ e[1] ELSE index
    /\ UNCHANGED <<backend, schema, transaction, call, outcome, faults>>

Next ==
    \/ \E a \in Agents : EnsureSchema(a) \/ SchemaFails(a)
    \/ \E a \in Agents, m \in Commands : Call(a, m)
    \/ Begin \/ Operate \/ Apply \/ Reload \/ Synchronize \/ Read \/ Return
    \/ SynchronizeFails \/ QueryFails \/ FailsLate \/ Retry \/ CommitIsLost \/ Cancel \/ Kill
    \/ \E e \in Edits : ByHand(e)

Spec == Init /\ [][Next]_vars

-------------------------------------------------------------------------------
(* Properties. *)

\* Whatever the agents store, supersede, delete and import, on either backend,
\* and whatever fails on the way: every batch is published whole, no memory is
\* retired twice, superseded in a circle, or retired by what is not there.
Ledger == INSTANCE MemoryLedger WITH docs <- stored, edited <- (edits > 0)
ImplementsLedger == Ledger!Spec

ASSUME StartsAssumption ==
    \A s \in Starts :
        /\ s.docs \subseteq Document /\ Ledger!Consistent(s.docs) /\ Cardinality(s.docs) <= MaxFiles
        /\ s.index \subseteq Document /\ s.migrated \in BOOLEAN

Told(claims) == outcome # None /\ outcome.claim \in claims /\ edits = 0

\* A call that fails has stored nothing, so it may be repeated, but where the file
\* system fails behind the commit point: then all of it is stored, and the caller
\* is not told.  A cancellation, a limit or a conflict never hides a publication,
\* and PostgreSQL hides one only when the connection is lost during COMMIT.
FailureIsAbsentOrLate ==
    Told({"failed"}) =>
        IF outcome.late THEN ~Postgres /\ outcome.docs \subseteq stored ELSE outcome.docs \cap stored = {}

\* What store, supersede and delete return is committed.
ReturnedIsStored == Told({"stored"}) /\ outcome.command.op # "import" => outcome.docs \subseteq stored

\* What the code says of a call whose index failed: the canonical documents are
\* committed, and callers must not retry as though they were absent.  This is
\* false of the code with the PostgreSQL backend.
CommittedIsStored == Told({"stored", "committed"}) => outcome.docs \subseteq stored

\* The characters of the first n records of seq.
Chars(seq) ==
    LET upTo[n \in 0 .. Len(seq)] == IF n = 0 THEN 0 ELSE upTo[n - 1] + Size[seq[n]] IN upTo

\* The best answer of m: what it may show in the order of rank, cut where the
\* limit or the budget is reached.
Best(m, s) ==
    LET shown == Kept(m, s, Ascending(RecordIds(s) \cap m.words))
        Fit == {n \in 0 .. Len(shown) : n <= m.limit /\ Chars(shown)[n] <= m.budget}
    IN  First(Max(Fit), shown)

\* However the index was left by a migration, a failure or a kill, and however
\* many rows are filtered out of a page, a search answers with the best records.
\* PostgreSQL may add later ones that still fit when a greater one did not.
SearchesAreExact ==
    /\ answer \in Seq(Ids)
    /\ Told({"read"}) /\ outcome.command.op = "search" =>
        LET best == Best(outcome.command, stored)
            sizes == {Size[i] : i \in outcome.command.words}
        IN  /\ IsPrefix(best, outcome.answer)
            /\ ~Postgres \/ Cardinality(sizes) = 1 => outcome.answer = best

\* No call makes the shard unreadable, or greater than its limit.
StaysReadable == edits = 0 => Loads(stored) /\ Cardinality(stored) <= MaxFiles

\* What a call tells its caller about its documents is true, but for a failure of
\* the file system behind the commit point, and the shard stays one that every
\* later call can load.
OutcomesInv ==
    /\ TypeOK /\ FailureIsAbsentOrLate /\ ReturnedIsStored /\ StaysReadable
    /\ backend = "filesystem" => CommittedIsStored
===============================================================================
