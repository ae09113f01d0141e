---------------------------- MODULE MemoryStoreProofs ----------------------------
(* Proofs about MemoryStore on both backends, for every set of identifiers,    *)
(* agents, calls and hand edits, every limit and any number of faults: the     *)
(* store implements MemoryLedger, what a call tells its caller about its       *)
(* documents is true, and a search finds the best records.                     *)
EXTENDS MemoryStore, FiniteSetTheorems, SequenceTheorems, WellFoundedInduction, TLAPS

Published == {"reload", "synchronize", "return"}

Typed ==
    /\ stored \subseteq Document /\ batch \subseteq Document /\ edits \in Nat
    /\ phase # "idle" => command \in Commands
    /\ phase \in {"begin", "operate"} => command.op \in Changes
    /\ Postgres \in BOOLEAN

(* The open transaction holds nothing before the batch is applied, and the    *)
(* whole batch after it; on the file system it never holds anything.          *)
TransactionInv ==
    /\ phase \in {"idle", "begin", "operate", "read"} => batch = {} /\ pending = {}
    /\ phase = "apply" => pending = {}
    /\ phase \in Published => pending = IF Postgres THEN batch ELSE {}
    /\ ~Postgres => ~broken
    /\ broken => phase # "idle" /\ command.op = "import"

(* Unless somebody edited the documents by hand: what is committed is a       *)
(* ledger, and so it is with a batch that is about to be published.           *)
Fits(s) == Ledger!Consistent(s) /\ Cardinality(s) <= MaxFiles
LedgerInv ==
    edits = 0 =>
        /\ Fits(stored)
        /\ phase = "apply" => batch \cap stored = {} /\ Ledger!Consistent(stored \cup batch)
        /\ phase \in Published =>
              IF Postgres THEN batch \cap stored = {} /\ Fits(stored \cup batch) ELSE batch \subseteq stored

OutcomeInv ==
    /\ phase # "idle" => outcome = None
    /\ FailureIsAbsentOrLate /\ ReturnedIsStored
    /\ ~Postgres => CommittedIsStored

Inv == Typed /\ TransactionInv /\ LedgerInv /\ OutcomeInv

-------------------------------------------------------------------------------
(* Documents. *)

\* What a ledger is, in the operators of the store.
LEMMA ConsistentMeans ==
    ASSUME NEW s
    PROVE  Ledger!Consistent(s) <=>
             /\ \A x, y \in s : x.id = y.id => x = y
             /\ \A x \in s : x.refs \subseteq RecordIds(s)
             /\ \A x, y \in s : x # y => x.refs \cap y.refs = {}
             /\ Rounds(s) = {}
BY DEF Ledger!Consistent, Ledger!RecordIds, Ledger!Records, Ledger!Rounds, RecordIds, Records,
      Rounds

\* loadState accepts a ledger within the limit (validateAndClassifySnapshot).
LEMMA LedgerLoads ==
    ASSUME NEW s, Fits(s)
    PROVE  Loads(s)
BY ConsistentMeans DEF Fits, Loads, Retired

\* One new record or tombstone with a fresh identifier, that retires nothing or
\* one active record, keeps a ledger (makeRecord, makeTombstone).
LEMMA OneIsAdded ==
    ASSUME NEW s \in SUBSET Document, Ledger!Consistent(s),
           NEW kind \in {"record", "tombstone"}, NEW id \in Ids, id \notin UsedIds(s),
           NEW refs \in SUBSET Active(s), \A i, j \in refs : i = j
    PROVE  /\ New(kind, id, refs) \in Document /\ New(kind, id, refs) \notin s
           /\ Ledger!Consistent(s \cup {New(kind, id, refs)})
<1> DEFINE n == New(kind, id, refs)
           t == s \cup {n}
<1>1. n.kind = kind /\ n.id = id /\ n.refs = refs
  BY DEF New
<1>2. /\ \A x, y \in s : x.id = y.id => x = y
      /\ \A x \in s : x.refs \subseteq RecordIds(s)
      /\ \A x, y \in s : x # y => x.refs \cap y.refs = {}
      /\ Rounds(s) = {}
  BY ConsistentMeans
<1>3. Active(s) \subseteq RecordIds(s) /\ \A x \in s : x.refs \cap refs = {}
  BY DEF Active, Retired
<1>4. RecordIds(s) \subseteq Ids /\ id \notin RecordIds(s) /\ \A x \in s : x.id # id
  BY DEF RecordIds, Records, UsedIds, Document
<1>5. n \in Document
  BY <1>3, <1>4 DEF New, Document
<1>6. n \notin s
  BY <1>1, <1>4
<1> HIDE DEF n
<1>7. \A x, y \in t : x.id = y.id => x = y
  BY <1>1, <1>2, <1>4
<1>8. RecordIds(s) \subseteq RecordIds(t)
  BY DEF RecordIds, Records
<1>9. \A x \in t : x.refs \subseteq RecordIds(t) /\ x.refs \subseteq RecordIds(s)
  BY <1>1, <1>2, <1>3, <1>8
<1>10. \A x, y \in t : x # y => x.refs \cap y.refs = {}
  BY <1>1, <1>2, <1>3
<1>11. ASSUME NEW S \in Rounds(t) PROVE FALSE
  <2> DEFINE R == S \ {id}
  <2>1. S \subseteq RecordIds(t) /\ S # {} /\ \A i \in S : \E x \in Records(t) : x.id = i /\ x.refs \cap S # {}
    BY <1>11 DEF Rounds
  <2>2. \A x \in t : x.refs \cap S \subseteq R
    BY <1>4, <1>9
  <2>3. R # {}
    BY <2>1, <2>2 DEF Records
  <2>4. \A i \in R : \E x \in Records(s) : x.id = i /\ x.refs \cap R # {}
    BY <1>1, <2>1, <2>2 DEF Records
  <2>5. R \subseteq RecordIds(s)
    BY <2>4 DEF RecordIds
  <2>6. R \in Rounds(s)
    BY <2>3, <2>4, <2>5 DEF Rounds
  <2> QED BY <1>2, <2>6
<1>12. Ledger!Consistent(t)
  BY <1>7, <1>9, <1>10, <1>11, ConsistentMeans
<1> QED BY <1>5, <1>6, <1>12 DEF n

\* What a call publishes keeps a ledger, and none of it is there (validateImportBatch,
\* assertImportRelationships, assertSingleRetirement).
LEMMA AcceptedIsAppended ==
    ASSUME NEW s \in SUBSET Document, Ledger!Consistent(s), NEW m \in Commands, m.op \in Changes,
           NEW id \in Ids, Accepts(m, s, id)
    PROVE  /\ Documents(m, id) \subseteq Document /\ Documents(m, id) \cap s = {}
           /\ Ledger!Consistent(s \cup Documents(m, id))
<1>1. CASE m.op = "store"
  <2>1. Documents(m, id) = {New("record", id, {})} /\ id \notin UsedIds(s)
    BY <1>1 DEF Documents, Accepts
  <2> QED BY <2>1, OneIsAdded
<1>2. CASE m.op = "supersede"
  <2>1. Documents(m, id) = {New("record", id, {m.target})} /\ id \notin UsedIds(s) /\ m.target \in Active(s)
    BY <1>2 DEF Documents, Accepts, TargetIsActive
  <2>2. {m.target} \in SUBSET Active(s) /\ \A i, j \in {m.target} : i = j
    BY <2>1
  <2>3. LET n == New("record", id, {m.target}) IN n \in Document /\ n \notin s /\ Ledger!Consistent(s \cup {n})
    BY <2>1, <2>2, OneIsAdded
  <2> QED BY <2>1, <2>3
<1>3. CASE m.op = "delete"
  <2>1. Documents(m, id) = {New("tombstone", id, {m.target})} /\ id \notin UsedIds(s) /\ m.target \in Active(s)
    BY <1>3 DEF Documents, Accepts, TargetIsActive
  <2>2. {m.target} \in SUBSET Active(s) /\ \A i, j \in {m.target} : i = j
    BY <2>1
  <2>3. LET n == New("tombstone", id, {m.target}) IN n \in Document /\ n \notin s /\ Ledger!Consistent(s \cup {n})
    BY <2>1, <2>2, OneIsAdded
  <2> QED BY <2>1, <2>3
<1>4. CASE m.op = "import"
  <2> DEFINE d == m.documents
             all == s \cup d
  <2>1. Documents(m, id) = d /\ ImportIsValid(m, s)
    BY <1>4 DEF Documents, Accepts
  <2>2. d \subseteq Document
    BY <1>4, CommandsAssumption
  <2>3. /\ \A x \in d : x.id \notin UsedIds(s)
        /\ \A x, y \in d : x.id = y.id => x = y
        /\ Retired(d) \subseteq RecordIds(all)
        /\ \A x, y \in all : x # y => x.refs \cap y.refs = {}
        /\ Rounds(all) = {}
    BY <2>1 DEF ImportIsValid
  <2>4. /\ \A x, y \in s : x.id = y.id => x = y
        /\ \A x \in s : x.refs \subseteq RecordIds(s)
    BY ConsistentMeans
  <2>5. \A x, y \in all : x.id = y.id => x = y
    BY <2>3, <2>4 DEF UsedIds
  <2>6. RecordIds(s) \subseteq RecordIds(all)
    BY DEF RecordIds, Records
  <2>7. \A x \in all : x.refs \subseteq RecordIds(all)
    <3>1. \A x \in d : x.refs \subseteq Retired(d)
      BY DEF Retired
    <3> HIDE DEF d
    <3> QED BY <2>3, <2>4, <2>6, <3>1
  <2>8. Ledger!Consistent(all)
    BY <2>3, <2>5, <2>7, ConsistentMeans
  <2>9. d \cap s = {}
    BY <2>3 DEF UsedIds
  <2> QED BY <2>1, <2>2, <2>8, <2>9
<1> QED BY <1>1, <1>2, <1>3, <1>4 DEF Changes

-------------------------------------------------------------------------------
(* The invariant. *)

LEMMA InitInv == Init => Inv
<1> SUFFICES ASSUME Init PROVE Inv
  OBVIOUS
<1>1. stored \subseteq Document /\ Fits(stored)
  BY StartsAssumption DEF Init, Fits
<1>2. Typed /\ TransactionInv /\ LedgerInv
  BY <1>1 DEF Init, Typed, TransactionInv, LedgerInv, Postgres, Published
<1>3. OutcomeInv
  BY DEF Init, OutcomeInv, FailureIsAbsentOrLate, ReturnedIsStored, CommittedIsStored, Told
<1> QED BY <1>2, <1>3 DEF Inv

\* Two ways a call ends.  It may have committed, or not; and what it tells is true.
LEMMA TellKeeps ==
    ASSUME Inv, phase # "idle", backend' = backend, edits' = edits,
           stored' \subseteq Document, edits = 0 => Fits(stored'),
           NEW claim, NEW late \in BOOLEAN, Tell(claim, late), Over,
           edits = 0 /\ claim = "failed" /\ late => ~Postgres /\ batch \subseteq stored',
           edits = 0 /\ claim = "failed" /\ ~late => batch \cap stored' = {},
           edits = 0 /\ claim = "stored" /\ command.op # "import" => batch \subseteq stored',
           edits = 0 /\ ~Postgres /\ claim \in {"stored", "committed"} => batch \subseteq stored'
    PROVE  Inv'
<1>1. /\ phase' = "idle" /\ batch' = {} /\ pending' = {} /\ broken' = FALSE
      /\ outcome' = [command |-> command, docs |-> batch, claim |-> claim, answer |-> answer, late |-> late]
  BY DEF Tell, Over
<1>2. outcome'.command = command /\ outcome'.docs = batch /\ outcome'.claim = claim /\ outcome'.late = late
  BY <1>1
<1>3. Typed'
  BY <1>1 DEF Inv, Typed, Postgres
<1>4. TransactionInv'
  BY <1>1 DEF TransactionInv, Published
<1>5. LedgerInv'
  BY <1>1 DEF LedgerInv, Published
<1>6. FailureIsAbsentOrLate'
  BY <1>1, <1>2 DEF FailureIsAbsentOrLate, Told, Postgres
<1>7. OutcomeInv'
  BY <1>1, <1>2, <1>6 DEF OutcomeInv, ReturnedIsStored, CommittedIsStored, Told, Postgres
<1> QED BY <1>3, <1>4, <1>5, <1>7 DEF Inv

LEMMA EndKeeps ==
    ASSUME Inv, phase # "idle", backend' = backend, edits' = edits,
           stored' \subseteq Document, edits = 0 => Fits(stored'),
           NEW claim, End(claim),
           edits = 0 /\ claim = "failed" => batch \cap stored' = {},
           edits = 0 /\ claim = "stored" /\ command.op # "import" => batch \subseteq stored',
           edits = 0 /\ ~Postgres /\ claim \in {"stored", "committed"} => batch \subseteq stored'
    PROVE  Inv'
<1>1. Tell(claim, FALSE) /\ Over
  BY DEF End
<1> QED BY <1>1, TellKeeps

\* A call that fails before it published, or whose transaction is rolled back.
LEMMA FailKeeps ==
    ASSUME Inv, phase # "idle", Fail, edits = 0 => batch \cap stored = {}
    PROVE  Inv'
<1>1. End("failed") /\ UNCHANGED <<backend, stored, edits>>
  BY DEF Fail
<1>2. stored \subseteq Document /\ (edits = 0 => Fits(stored))
  BY DEF Inv, Typed, LedgerInv
<1> QED BY <1>1, <1>2, EndKeeps

\* Before a batch is applied, none of it is there.
LEMMA BeforeItIsApplied ==
    ASSUME Inv, \/ phase \in {"begin", "operate", "apply", "read"}
                \/ Postgres /\ phase \in Published
    PROVE  edits = 0 => batch \cap stored = {}
BY DEF Inv, TransactionInv, LedgerInv

\* A step of a call that publishes nothing and ends nothing.
LEMMA PhaseKeeps ==
    ASSUME Inv, phase # "idle", phase' # "idle",
           UNCHANGED <<backend, stored, pending, command, batch, outcome, edits>>,
           \/ phase = "begin" /\ phase' = "operate"
           \/ phase \in Published /\ phase' \in Published
           \/ phase' = phase
           \/ phase = "read" /\ phase' = "return",
           broken' => broken \/ (Postgres /\ command.op = "import")
    PROVE  Inv'
<1>1. Typed'
  BY DEF Inv, Typed, Postgres, Published
<1>2. TransactionInv'
  BY DEF Inv, TransactionInv, Published, Postgres
<1>3. LedgerInv'
  <2>1. phase \in {"begin", "operate", "read"} => batch = {}
    BY DEF Inv, TransactionInv
  <2> QED BY <2>1 DEF Inv, LedgerInv, Published, Postgres
<1>4. OutcomeInv'
  BY DEF Inv, OutcomeInv, FailureIsAbsentOrLate, ReturnedIsStored, CommittedIsStored, Told
<1> QED BY <1>1, <1>2, <1>3, <1>4 DEF Inv

\* A step beside the calls.
LEMMA UntouchedKeeps ==
    ASSUME Inv, UNCHANGED <<backend, stored, pending, broken, phase, command, batch, edits>>,
           outcome' = outcome \/ outcome' = None
    PROVE  Inv'
<1>1. Typed' /\ TransactionInv' /\ LedgerInv'
  BY DEF Inv, Typed, TransactionInv, LedgerInv, Published, Postgres
<1>2. OutcomeInv'
  BY DEF Inv, OutcomeInv, FailureIsAbsentOrLate, ReturnedIsStored, CommittedIsStored, Told, Postgres
<1> QED BY <1>1, <1>2 DEF Inv

\* A call begins, or begins again, with nothing.
LEMMA FreshKeeps ==
    ASSUME Inv, UNCHANGED <<backend, stored, edits>>, phase' \in {"begin", "operate", "read", "idle"},
           phase' # "idle" => command' \in Commands,
           phase' \in {"begin", "operate"} => command'.op \in Changes,
           batch' = {}, pending' = {}, broken' => phase' # "idle" /\ Postgres /\ command'.op = "import",
           outcome' = None
    PROVE  Inv'
<1>1. Typed'
  BY DEF Inv, Typed, Postgres
<1>2. TransactionInv'
  BY DEF Inv, TransactionInv, Published, Postgres
<1>3. LedgerInv'
  BY DEF Inv, LedgerInv, Published
<1>4. OutcomeInv'
  BY DEF OutcomeInv, FailureIsAbsentOrLate, ReturnedIsStored, CommittedIsStored, Told
<1> QED BY <1>1, <1>2, <1>3, <1>4 DEF Inv

LEMMA CallKeeps ==
    ASSUME Inv, NEW a \in Agents, NEW m \in Commands, Call(a, m)
    PROVE  Inv'
<1>1. /\ UNCHANGED <<backend, stored, edits>> /\ phase' = FirstPhase(m) /\ command' = m
      /\ batch' = {} /\ pending' = {} /\ broken' = FALSE /\ outcome' = None
  BY DEF Call
<1>2. /\ FirstPhase(m) \in {"begin", "operate", "read"}
      /\ FirstPhase(m) \in {"begin", "operate"} => m.op \in Changes
  BY DEF FirstPhase, Changes
<1> QED BY <1>1, <1>2, FreshKeeps

LEMMA BeginKeeps == ASSUME Inv, Begin PROVE Inv'
<1>1. CASE GoOn("operate")
  <2>1. /\ phase = "begin" /\ phase' = "operate"
        /\ UNCHANGED <<backend, stored, pending, command, batch, outcome, edits>>
        /\ broken' = broken
    BY <1>1 DEF Begin, GoOn, transaction
  <2> QED BY <2>1, PhaseKeeps
<1>2. CASE Fail
  BY <1>2, FailKeeps, BeforeItIsApplied DEF Begin
<1> QED BY <1>1, <1>2 DEF Begin

\* The documents to publish, against what the call sees.
LEMMA OperateKeeps == ASSUME Inv, Operate PROVE Inv'
<1>1. phase = "operate" /\ UNCHANGED <<backend, edits>>
  BY DEF Operate
<1>2. batch = {} /\ pending = {} /\ Visible = stored /\ stored \subseteq Document /\ command \in Commands
  BY <1>1 DEF Inv, TransactionInv, Typed, Visible
<1>3. CASE Fail
  BY <1>1, <1>3, FailKeeps, BeforeItIsApplied
<1>4. ASSUME NEW id \in Ids, Accepts(command, stored, id), command.op \in Changes,
             batch' = Documents(command, id), phase' = "apply",
             UNCHANGED <<stored, pending, broken, command, outcome>>
      PROVE  Inv'
  <2>1. batch' \subseteq Document
    <3>1. command.op \in {"store", "supersede", "delete"} => \A kind \in {"record", "tombstone"}, r \in SUBSET Ids : New(kind, id, r) \in Document
      BY DEF New, Document
    <3>2. command.op \in {"supersede", "delete"} => {command.target} \in SUBSET Ids
      BY <1>2, CommandsAssumption
    <3>3. command.op = "import" => command.documents \subseteq Document
      BY <1>2, CommandsAssumption
    <3> QED BY <1>4, <3>1, <3>2, <3>3 DEF Documents, Changes
  <2>2. Typed'
    BY <1>1, <1>4, <2>1 DEF Inv, Typed, Postgres
  <2>3. TransactionInv'
    BY <1>1, <1>2, <1>4 DEF Inv, TransactionInv, Postgres, Published
  <2>4. edits = 0 => Fits(stored) /\ batch' \cap stored = {} /\ Ledger!Consistent(stored \cup batch')
    <3> SUFFICES ASSUME edits = 0 PROVE Fits(stored) /\ batch' \cap stored = {} /\ Ledger!Consistent(stored \cup batch')
      OBVIOUS
    <3>1. Fits(stored)
      BY DEF Inv, LedgerInv
    <3> QED BY <1>2, <1>4, <3>1, AcceptedIsAppended DEF Fits
  <2>5. LedgerInv'
    BY <1>1, <1>4, <2>4 DEF LedgerInv, Published
  <2>6. OutcomeInv'
    BY <1>1, <1>4 DEF Inv, OutcomeInv, FailureIsAbsentOrLate, ReturnedIsStored, CommittedIsStored, Told
  <2> QED BY <2>2, <2>3, <2>5, <2>6 DEF Inv
<1>5. command.op \in Changes
  BY <1>1 DEF Inv, Typed
<1> QED BY <1>1, <1>2, <1>3, <1>4, <1>5 DEF Operate, transaction

\* The commit point on the file system; in PostgreSQL the rows are written.
LEMMA ApplyKeeps == ASSUME Inv, Apply PROVE Inv'
<1>1. phase = "apply" /\ UNCHANGED <<backend, edits>>
  BY DEF Apply
<1>2. pending = {} /\ Visible = stored /\ command \in Commands /\ stored \subseteq Document /\ batch \subseteq Document
  BY <1>1 DEF Inv, TransactionInv, Typed, Visible
<1>3. CASE Fail
  BY <1>1, <1>3, FailKeeps, BeforeItIsApplied
<1>4. ASSUME Cardinality(stored \cup batch) <= MaxFiles, phase' = "reload",
             IF Postgres THEN pending' = batch /\ UNCHANGED stored
                         ELSE stored' = stored \cup batch /\ UNCHANGED pending,
             UNCHANGED <<broken, command, batch, outcome>>
      PROVE  Inv'
  <2>1. Typed'
    BY <1>1, <1>2, <1>4 DEF Inv, Typed, Postgres
  <2>2. TransactionInv'
    BY <1>1, <1>2, <1>4 DEF Inv, TransactionInv, Postgres, Published
  <2>3. edits = 0 => Fits(stored) /\ batch \cap stored = {} /\ Fits(stored \cup batch)
    BY <1>1, <1>4 DEF Inv, LedgerInv, Fits
  <2>4. LedgerInv'
    BY <1>1, <1>4, <2>3 DEF LedgerInv, Published, Postgres
  <2>5. OutcomeInv'
    BY <1>1, <1>4 DEF Inv, OutcomeInv, FailureIsAbsentOrLate, ReturnedIsStored, CommittedIsStored, Told
  <2> QED BY <2>1, <2>2, <2>4, <2>5 DEF Inv
<1> QED BY <1>1, <1>2, <1>3, <1>4 DEF Apply, CanPublish, WithinLimits

\* The load after the publication never fails without a hand edit, and where it
\* fails in PostgreSQL nothing is committed.
LEMMA ReloadKeeps == ASSUME Inv, Reload PROVE Inv'
<1>1. phase = "reload" /\ UNCHANGED <<backend, edits>>
  BY DEF Reload
<1>2. ASSUME NEW p \in {"synchronize", "return"}, GoOn(p) PROVE Inv'
  <2>1. /\ phase' = p
        /\ UNCHANGED <<backend, stored, pending, command, batch, outcome, edits>>
        /\ broken' = broken
    BY <1>1, <1>2 DEF GoOn, transaction
  <2>2. phase \in Published /\ phase' \in Published
    BY <1>1, <2>1 DEF Published
  <2> QED BY <1>1, <1>2, <2>1, <2>2, PhaseKeeps
<1>3. ASSUME ~Loads(Visible), Fail PROVE Inv'
  <2>1. Visible = IF Postgres THEN stored \cup batch ELSE stored
    BY <1>1 DEF Inv, TransactionInv, Published, Visible
  <2>2. edits = 0 => Fits(Visible)
    BY <1>1, <2>1 DEF Inv, LedgerInv, Published
  <2>3. edits # 0
    BY <1>3, <2>2, LedgerLoads
  <2> QED BY <1>1, <1>3, <2>3, FailKeeps
<1> QED BY <1>2, <1>3 DEF Reload, Reloads

LEMMA SynchronizeKeeps == ASSUME Inv, Synchronize PROVE Inv'
<1>1. phase = "synchronize" /\ phase' = "return" /\ broken' = broken
  BY DEF Synchronize
<1>2. UNCHANGED <<backend, stored, pending, command, batch, outcome, edits>>
  BY DEF Synchronize
<1>3. phase \in Published /\ phase' \in Published
  BY <1>1 DEF Published
<1> QED BY <1>1, <1>2, <1>3, PhaseKeeps

LEMMA ReadKeeps == ASSUME Inv, Read PROVE Inv'
<1>1. phase = "read" /\ UNCHANGED <<backend, edits>>
  BY DEF Read
<1>2. CASE Fail
  BY <1>1, <1>2, FailKeeps, BeforeItIsApplied
<1>3. CASE phase' = "return" /\ UNCHANGED <<stored, pending, broken, command, batch, outcome>>
  <2>1. UNCHANGED <<backend, stored, pending, command, batch, outcome, edits>>
    BY <1>1, <1>3
  <2> QED BY <1>1, <1>3, <2>1, PhaseKeeps
<1> QED BY <1>2, <1>3 DEF Read

\* What a commit makes of the documents, and that it fits.
LEMMA CommitsFit ==
    ASSUME Inv, phase \in Published, Commits
    PROVE  /\ stored' \subseteq Document /\ stored' = stored \cup pending
           /\ edits = 0 => Fits(stored') /\ batch \subseteq stored'
<1>1. stored' = stored \cup pending /\ pending = IF Postgres THEN batch ELSE {}
  BY DEF Inv, TransactionInv, Commits, Visible
<1> QED BY <1>1 DEF Inv, Typed, LedgerInv

LEMMA ReturnKeeps == ASSUME Inv, Return PROVE Inv'
<1> DEFINE claim == IF command.op \in Changes THEN "stored" ELSE "read"
<1>1. phase = "return" /\ phase \in Published /\ UNCHANGED <<backend, edits>> /\ End(claim)
  BY DEF Return, Published
<1>2. claim # "failed" /\ claim # "committed"
  OBVIOUS
<1> HIDE DEF claim
<1>3. CASE broken
  <2>1. stored' = stored /\ command.op = "import" /\ Postgres
    BY <1>3 DEF Return, Inv, TransactionInv
  <2>2. stored' \subseteq Document /\ (edits = 0 => Fits(stored'))
    BY <2>1 DEF Inv, Typed, LedgerInv
  <2> QED BY <1>1, <1>2, <2>1, <2>2, EndKeeps
<1>4. CASE ~broken
  <2>1. Commits
    BY <1>4 DEF Return
  <2> QED BY <1>1, <1>2, <2>1, CommitsFit, EndKeeps
<1> QED BY <1>3, <1>4

LEMMA CommitIsLostKeeps == ASSUME Inv, CommitIsLost PROVE Inv'
<1>1. phase = "return" /\ phase \in Published /\ UNCHANGED <<backend, edits>> /\ End("lost")
  BY DEF CommitIsLost, Published
<1>2. CASE Commits
  BY <1>1, <1>2, CommitsFit, EndKeeps
<1>3. CASE stored' = stored
  <2>1. stored' \subseteq Document /\ (edits = 0 => Fits(stored'))
    BY <1>3 DEF Inv, Typed, LedgerInv
  <2> QED BY <1>1, <2>1, EndKeeps
<1> QED BY <1>2, <1>3 DEF CommitIsLost

\* On the file system a mutation whose index fails is committed, as it says.
LEMMA SynchronizeFailsKeeps == ASSUME Inv, SynchronizeFails PROVE Inv'
<1>1. phase \in Published /\ phase # "idle" /\ UNCHANGED <<backend, stored, edits>>
  BY DEF SynchronizeFails, Published
<1>2. CASE End("committed")
  <2>1. stored' \subseteq Document /\ (edits = 0 => Fits(stored'))
    BY <1>1 DEF Inv, Typed, LedgerInv
  <2>2. edits = 0 /\ ~Postgres => batch \subseteq stored'
    BY <1>1 DEF Inv, LedgerInv
  <2> QED BY <1>1, <1>2, <2>1, <2>2, EndKeeps
<1>3. CASE /\ command.op = "import" /\ phase' = "return" /\ broken' = Postgres
           /\ UNCHANGED <<pending, command, batch, outcome>>
  <2>1. UNCHANGED <<backend, stored, pending, command, batch, outcome, edits>>
        /\ phase' \in Published /\ phase' # "idle"
    BY <1>1, <1>3 DEF Published
  <2>2. broken' => Postgres
    BY <1>3
  <2> QED BY <1>1, <1>3, <2>1, <2>2, PhaseKeeps
<1> QED BY <1>1, <1>2, <1>3 DEF SynchronizeFails, IndexFails

\* Behind the commit point of the file system all of the batch is stored.
LEMMA FailsLateKeeps == ASSUME Inv, FailsLate PROVE Inv'
<1>1. phase # "idle" /\ ~Postgres /\ UNCHANGED <<backend, edits>> /\ Tell("failed", TRUE) /\ Over
  BY DEF FailsLate
<1>2. CASE phase = "apply" /\ CanPublish /\ stored' = stored \cup batch
  <2>1. pending = {} /\ Visible = stored /\ stored \subseteq Document /\ batch \subseteq Document
    BY <1>2 DEF Inv, TransactionInv, Typed, Visible
  <2>2. stored' \subseteq Document /\ batch \subseteq stored'
    BY <1>2, <2>1
  <2>3. edits = 0 => Fits(stored')
    BY <1>2, <2>1 DEF Inv, LedgerInv, Fits, CanPublish, WithinLimits
  <2> QED BY <1>1, <2>2, <2>3, TellKeeps
<1>3. CASE phase = "reload" /\ stored' = stored
  <2>1. stored' \subseteq Document /\ (edits = 0 => Fits(stored'))
    BY <1>3 DEF Inv, Typed, LedgerInv
  <2>2. edits = 0 => batch \subseteq stored'
    BY <1>1, <1>3 DEF Inv, LedgerInv, Published
  <2> QED BY <1>1, <2>1, <2>2, TellKeeps
<1> QED BY <1>2, <1>3 DEF FailsLate

LEMMA RetryKeeps == ASSUME Inv, Retry PROVE Inv'
<1>1. /\ UNCHANGED <<backend, stored, edits>> /\ phase' = FirstPhase(command) /\ command' = command
      /\ batch' = {} /\ pending' = {} /\ broken' = broken /\ outcome' = outcome
      /\ phase # "idle"
  BY DEF Retry, RolledBack
<1>2. command \in Commands /\ outcome = None /\ (broken => Postgres /\ command.op = "import")
  BY <1>1 DEF Inv, Typed, OutcomeInv, TransactionInv
<1>3. /\ FirstPhase(command) \in {"begin", "operate", "read"}
      /\ FirstPhase(command) \in {"begin", "operate"} => command.op \in Changes
  BY DEF FirstPhase, Changes
<1>4. Postgres' = Postgres
  BY <1>1 DEF Postgres
<1> QED BY <1>1, <1>2, <1>3, FreshKeeps

LEMMA KillKeeps == ASSUME Inv, Kill PROVE Inv'
<1>1. /\ UNCHANGED <<backend, stored, edits>> /\ phase' = "idle" /\ batch' = {} /\ pending' = {}
      /\ broken' = FALSE /\ outcome' = None
  BY DEF Kill, Over
<1> QED BY <1>1, FreshKeeps

\* After a hand edit nothing is promised but the types.
LEMMA ByHandKeeps == ASSUME Inv, NEW e \in Edits, ByHand(e) PROVE Inv'
<1>1. edits \in Nat /\ edits' = edits + 1 /\ stored' = (stored \ e[1]) \cup e[2]
  BY DEF ByHand, Inv, Typed
<1>2. edits' # 0 /\ edits' \in Nat
  BY <1>1
<1>3. UNCHANGED <<backend, phase, command, pending, broken, batch, outcome>>
  BY DEF ByHand, transaction, call
<1>4. stored' \subseteq Document
  BY <1>1, EditsAssumption DEF Inv, Typed
<1>5. Typed' /\ TransactionInv'
  BY <1>2, <1>3, <1>4 DEF Inv, Typed, TransactionInv, Published, Postgres
<1>6. LedgerInv' /\ OutcomeInv'
  BY <1>2, <1>3 DEF Inv, LedgerInv, OutcomeInv, FailureIsAbsentOrLate, ReturnedIsStored,
        CommittedIsStored, Told
<1> QED BY <1>5, <1>6 DEF Inv

LEMMA StepInv == Inv /\ [Next]_vars => Inv'
<1> SUFFICES ASSUME Inv, [Next]_vars PROVE Inv'
  OBVIOUS
<1>1. CASE UNCHANGED vars
  BY <1>1, UntouchedKeeps DEF vars, transaction, call
<1>2. ASSUME NEW a \in Agents, EnsureSchema(a) \/ SchemaFails(a) PROVE Inv'
  BY <1>2, UntouchedKeeps DEF EnsureSchema, SchemaFails, transaction, call
<1>3. CASE Cancel
  BY <1>3, UntouchedKeeps DEF Cancel, transaction
<1>4. CASE QueryFails
  BY <1>4, FailKeeps, BeforeItIsApplied DEF QueryFails, Published
<1> QED BY <1>1, <1>2, <1>3, <1>4, CallKeeps, BeginKeeps, OperateKeeps, ApplyKeeps, ReloadKeeps,
      SynchronizeKeeps,
           ReadKeeps, ReturnKeeps, SynchronizeFailsKeeps, FailsLateKeeps, RetryKeeps, CommitIsLostKeeps, KillKeeps,
           ByHandKeeps DEF Next

LEMMA Invariance == Spec => []Inv
BY InitInv, StepInv, PTL DEF Spec

-------------------------------------------------------------------------------
(* The properties. *)

\* But for a hand edit, no step takes a document away, and only one counts as an edit.
LEMMA OnlyAdded ==
    ASSUME [Next]_vars
    PROVE  (edits' = edits /\ stored \subseteq stored') \/ \E e \in Edits : ByHand(e)
<1>1. CASE UNCHANGED vars
  BY <1>1 DEF vars
<1>2. ASSUME NEW a \in Agents, EnsureSchema(a) \/ SchemaFails(a) PROVE edits' = edits /\ stored' = stored
  BY <1>2 DEF EnsureSchema, SchemaFails
<1>3. ASSUME NEW a \in Agents, NEW m \in Commands, Call(a, m) PROVE edits' = edits /\ stored' = stored
  BY <1>3 DEF Call
<1>4. Fail => edits' = edits /\ stored' = stored
  BY DEF Fail
<1>5. CASE Begin \/ Operate \/ Reload \/ Synchronize \/ Read \/ SynchronizeFails \/ QueryFails \/ Retry \/ Cancel \/ Kill
  BY <1>4, <1>5 DEF Begin, Operate, Reload, Synchronize, Read, SynchronizeFails, QueryFails, Retry,
        Cancel, Kill, GoOn
<1>6. CASE Apply \/ Return \/ CommitIsLost \/ FailsLate
  BY <1>4, <1>6 DEF Apply, Return, CommitIsLost, FailsLate, Commits, Visible
<1> QED BY <1>1, <1>2, <1>3, <1>5, <1>6 DEF Next

\* Every step is a step of the ledger or changes nothing of it.
LEMMA StepIsLedgerStep ==
    ASSUME Inv, Inv', [Next]_vars
    PROVE  [Ledger!Next]_<<stored, edits > 0>>
<1>1. edits \in Nat /\ edits' \in Nat /\ stored' \in SUBSET Document /\ stored' \in SUBSET Ledger!Document
  BY DEF Inv, Typed, Document, Ledger!Document
<1>2. CASE edits' > 0
  BY <1>1, <1>2 DEF Ledger!Next, Ledger!ByHand
<1>3. CASE edits' = 0
  <2> DEFINE new == stored' \ stored
  <2>1. \A e \in Edits : ~ByHand(e)
    BY <1>1, <1>3 DEF ByHand, Inv, Typed
  <2>2. edits = 0 /\ stored \subseteq stored'
    BY <1>3, <2>1, OnlyAdded
  <2>3. ~(edits > 0) /\ (edits' > 0) = (edits > 0)
    BY <1>3, <2>2
  <2>4. new \cap stored = {} /\ stored' = stored \cup new /\ new \in SUBSET (stored' \ stored)
    BY <2>2
  <2>5. Ledger!Consistent(stored')
    BY <1>3 DEF Inv, LedgerInv, Fits
  <2>6. Ledger!Append(new)
    BY <2>3, <2>4, <2>5 DEF Ledger!Append
  <2> QED BY <2>4, <2>6 DEF Ledger!Next
<1> QED BY <1>1, <1>2, <1>3

\* The store implements the ledger: every batch is published whole, by the rename
\* of the file system or the COMMIT of PostgreSQL, and no memory is retired twice,
\* in a circle, or by what is not there (executeMutation, import, withLock).
THEOREM StoreImplementsLedger == Spec => ImplementsLedger
<1>1. Init => Ledger!Init
  BY InitInv, StartsAssumption DEF Init, Ledger!Init
<1>2. Inv /\ Inv' /\ [Next]_vars => [Ledger!Next]_<<stored, edits > 0>>
  BY StepIsLedgerStep
<1> QED BY <1>1, <1>2, Invariance, PTL DEF Spec, ImplementsLedger, Ledger!Spec

\* A call that fails has stored nothing, but where the file system fails behind
\* the commit point; then it has stored all (executeMutation, withLock).
THEOREM FailedIsAbsentOrLate == Spec => []FailureIsAbsentOrLate
<1>1. Inv => FailureIsAbsentOrLate
  BY DEF Inv, OutcomeInv
<1> QED BY <1>1, Invariance, PTL

\* What store, supersede and delete return is committed.
THEOREM ReturnedIsCommitted == Spec => []ReturnedIsStored
<1>1. Inv => ReturnedIsStored
  BY DEF Inv, OutcomeInv
<1> QED BY <1>1, Invariance, PTL

\* On the file system, a call whose index fails tells the truth: its documents
\* are committed (executeMutation).
THEOREM FilesAreCommitted == Spec => [](~Postgres => CommittedIsStored)
<1>1. Inv => (~Postgres => CommittedIsStored)
  BY DEF Inv, OutcomeInv
<1> QED BY <1>1, Invariance, PTL

\* No call makes the shard unreadable or greater than its limit.
THEOREM ShardStaysReadable == Spec => []StaysReadable
<1>1. Inv => StaysReadable
  BY LedgerLoads DEF Inv, LedgerInv, Fits, StaysReadable
<1> QED BY <1>1, Invariance, PTL

-------------------------------------------------------------------------------
(* Induction over numbers, without an operator for what is proved of them: a   *)
(* set of numbers that is not empty has a least one.                           *)

Earlier == {p \in Nat \X Nat : p[1] < p[2]}

LEMMA LeastNumber ==
    ASSUME NEW T, T \subseteq Nat, T # {}
    PROVE  \E n \in T : \A k \in T : n <= k
<1>1. IsWellFoundedOn(Earlier, Nat)
  BY NatLessThanWellFounded DEF OpToRel, Earlier
<1>2. \E n \in T : \A k \in T : ~ (<<k, n>> \in Earlier)
  BY <1>1, WFMin
<1>3. \A n, k \in T : ~(<<k, n>> \in Earlier) => n <= k
  BY DEF Earlier
<1> QED BY <1>2, <1>3

LEMMA Through ==
    ASSUME NEW N \in Nat, NEW S \in SUBSET (0 .. N), 0 \in S, \A n \in 1 .. N : n - 1 \in S => n \in S
    PROVE  \A n \in 0 .. N : n \in S
<1> DEFINE T == (0 .. N) \ S
<1>1. SUFFICES ASSUME T # {} PROVE FALSE
  OBVIOUS
<1>2. T \subseteq Nat
  OBVIOUS
<1>3. PICK n \in T : \A k \in T : n <= k
  <2> HIDE DEF T
  <2> QED BY <1>1, <1>2, LeastNumber
<1>4. n \in 1 .. N /\ n - 1 \in 0 .. N /\ ~(n <= n - 1)
  BY <1>3
<1> QED BY <1>3, <1>4

\* Each of f's values is computed from the one before it; and there is such an f.
Recurs(f, N, X, base, step) ==
    f \in [0 .. N -> X] /\ f[0] = base /\ \A n \in 1 .. N : f[n] = step[<<n, f[n - 1]>>]

LEMMA Recursion ==
    ASSUME NEW N, NEW X, NEW base, NEW step, N \in Nat, base \in X, step \in [(1 .. N) \X X -> X]
    PROVE  \E f : Recurs(f, N, X, base, step)
<1> DEFINE S == {k \in 0 .. N : \E f : Recurs(f, k, X, base, step)}
<1>1. 0 \in S
  <2>1. Recurs([n \in 0 .. 0 |-> base], 0, X, base, step)
    BY DEF Recurs
  <2> QED BY <2>1
<1>2. ASSUME NEW k \in 1 .. N, k - 1 \in S PROVE k \in S
  <2>1. PICK f : Recurs(f, k - 1, X, base, step)
    BY <1>2
  <2> DEFINE g == [n \in 0 .. k |-> IF n = k THEN step[<<k, f[k - 1]>>] ELSE f[n]]
  <2>2. f \in [0 .. k - 1 -> X] /\ f[0] = base /\ \A n \in 1 .. k - 1 : f[n] = step[<<n, f[n - 1]>>]
    BY <2>1 DEF Recurs
  <2>3. k - 1 \in 0 .. k - 1 /\ <<k, f[k - 1]>> \in (1 .. N) \X X
    BY <2>2
  <2>4. step[<<k, f[k - 1]>>] \in X
    BY <2>3
  <2>5. g \in [0 .. k -> X]
    BY <2>2, <2>4
  <2>6. g[0] = base
    BY <2>2
  <2>7. ASSUME NEW n \in 1 .. k PROVE g[n] = step[<<n, g[n - 1]>>]
    <3>1. g[n - 1] = f[n - 1]
      OBVIOUS
    <3>2. CASE n = k
      <4>1. g[n] = step[<<k, f[k - 1]>>]
        BY <3>2
      <4> HIDE DEF g
      <4> QED BY <3>1, <3>2, <4>1
    <3>3. CASE n # k
      <4>1. n \in 1 .. k - 1 /\ g[n] = f[n]
        BY <3>3
      <4> QED BY <2>2, <3>1, <4>1
    <3> QED BY <3>2, <3>3
  <2> HIDE DEF g
  <2>8. Recurs(g, k, X, base, step)
    BY <2>5, <2>6, <2>7 DEF Recurs
  <2> QED BY <2>8
<1> HIDE DEF S
<1>3. S \in SUBSET (0 .. N)
  BY DEF S
<1>4. N \in S
  BY <1>1, <1>2, <1>3, Through
<1> QED BY <1>4 DEF S

-------------------------------------------------------------------------------
(* Records in an order, shown and counted. *)

LEMMA AscendingIs ==
    ASSUME NEW S \in SUBSET Ids
    PROVE  Ascending(S) \in Seq(S)
<1> DEFINE Sorted(q) == \A i, j \in DOMAIN q : i < j => q[i] < q[j]
           N == Cardinality(S)
           T == {k \in 0 .. N : \A R \in SUBSET S : Cardinality(R) = k => \E q \in [1 .. k -> R] : Sorted(q)}
<1>1. IsFiniteSet(S) /\ N \in Nat /\ S \subseteq Nat /\ \A R \in SUBSET S : IsFiniteSet(R)
  BY IdsAssumption, FS_Subset, FS_CardinalityType
<1>2. 0 \in T
  <2>1. ASSUME NEW R \in SUBSET S, Cardinality(R) = 0 PROVE \E q \in [1 .. 0 -> R] : Sorted(q)
    <3>1. [i \in 1 .. 0 |-> 0] \in [1 .. 0 -> R] /\ Sorted([i \in 1 .. 0 |-> 0])
      OBVIOUS
    <3> QED BY <3>1
  <2> HIDE DEF Sorted
  <2> QED BY <1>1, <2>1
<1>3. ASSUME NEW k \in 1 .. N, k - 1 \in T PROVE k \in T
  <2>1. ASSUME NEW R \in SUBSET S, Cardinality(R) = k PROVE \E q \in [1 .. k -> R] : Sorted(q)
    <3>1. IsFiniteSet(R) /\ R # {} /\ R \subseteq Nat
      BY <1>1, <2>1, FS_EmptySet
    <3>2. PICK a \in R : \A b \in R : a <= b
      BY <3>1, LeastNumber
    <3>3. Cardinality(R \ {a}) = k - 1 /\ R \ {a} \in SUBSET S
      BY <2>1, <3>1, <3>2, FS_RemoveElement
    <3>4. PICK q \in [1 .. k - 1 -> R \ {a}] : Sorted(q)
      BY <1>3, <3>3
    <3> DEFINE p == [i \in 1 .. k |-> IF i = 1 THEN a ELSE q[i - 1]]
    <3>5. ASSUME NEW i \in 1 .. k, i # 1 PROVE i - 1 \in 1 .. k - 1 /\ q[i - 1] \in R /\ a < q[i - 1]
      <4>1. i - 1 \in 1 .. k - 1
        BY <3>5
      <4>2. q[i - 1] \in R \ {a}
        BY <3>4, <4>1
      <4>3. \A b \in R \ {a} : b \in R /\ a < b
        BY <3>1, <3>2
      <4> QED BY <4>1, <4>2, <4>3
    <3>6. p \in [1 .. k -> R]
      BY <3>2, <3>5
    <3>7. ASSUME NEW i \in 1 .. k, NEW j \in 1 .. k, i < j PROVE p[i] < p[j]
      <4>1. CASE i = 1
        BY <3>5, <3>7, <4>1
      <4>2. CASE i # 1
        <5>1. i - 1 \in 1 .. k - 1 /\ j - 1 \in 1 .. k - 1 /\ i - 1 < j - 1 /\ DOMAIN q = 1 .. k - 1
          BY <3>4, <3>7, <4>2
        <5>2. q[i - 1] < q[j - 1]
          BY <3>4, <5>1
        <5> QED BY <3>7, <4>2, <5>2
      <4> QED BY <4>1, <4>2
    <3> HIDE DEF p
    <3>8. Sorted(p)
      BY <3>6, <3>7
    <3> HIDE DEF Sorted
    <3> QED BY <3>6, <3>8
  <2> HIDE DEF Sorted
  <2> QED BY <2>1
<1> HIDE DEF T
<1>4. T \in SUBSET (0 .. N)
  BY DEF T
<1>5. N \in T
  <2>1. N \in 0 .. N
    BY <1>1
  <2> HIDE DEF N
  <2> QED BY <1>1, <1>2, <1>3, <1>4, <2>1, Through
<1>6. \E q \in [1 .. Cardinality(S) -> S] : \A i, j \in DOMAIN q : i < j => q[i] < q[j]
  BY <1>5 DEF T
<1>7. Ascending(S) \in [1 .. N -> S]
  BY <1>6, Zenon DEF Ascending
<1> QED BY <1>1, <1>7

\* f[n] is what is shown of the first n records.
Keeps(f, m, s, W, ranked) ==
    /\ f \in [0 .. Len(ranked) -> Seq(W)] /\ f[0] = <<>>
    /\ \A n \in 1 .. Len(ranked) :
          f[n] = IF Shown(m, s, ranked[n]) THEN Append(f[n - 1], ranked[n]) ELSE f[n - 1]
    /\ Kept(m, s, ranked) = f[Len(ranked)]

LEMMA KeptIs ==
    ASSUME NEW m, NEW s, NEW W, NEW ranked \in Seq(W)
    PROVE  \E f : Keeps(f, m, s, W, ranked)
<1> DEFINE N == Len(ranked)
           step == [p \in (1 .. N) \X Seq(W) |-> IF Shown(m, s, ranked[p[1]]) THEN Append(p[2], ranked[p[1]]) ELSE p[2]]
           f == CHOOSE g : g = [n \in 0 .. N |->
                  IF n = 0 THEN <<>> ELSE IF Shown(m, s, ranked[n]) THEN Append(g[n - 1], ranked[n]) ELSE g[n - 1]]
<1>1. N \in Nat /\ <<>> \in Seq(W) /\ \A n \in 1 .. N : ranked[n] \in W
  OBVIOUS
<1>2. step \in [(1 .. N) \X Seq(W) -> Seq(W)]
  BY <1>1
<1> HIDE DEF step, N
<1>3. PICK h : Recurs(h, N, Seq(W), <<>>, step)
  BY <1>1, <1>2, Recursion, Zenon
<1>h. h \in [0 .. N -> Seq(W)] /\ h[0] = <<>> /\ \A n \in 1 .. N : h[n] = step[<<n, h[n - 1]>>]
  BY <1>3 DEF Recurs
<1>4. ASSUME NEW n \in 1 .. N
      PROVE  h[n] = IF Shown(m, s, ranked[n]) THEN Append(h[n - 1], ranked[n]) ELSE h[n - 1]
  <2>1. n - 1 \in 0 .. N
    BY <1>1
  <2>2. h[n - 1] \in Seq(W) /\ h[n] = step[<<n, h[n - 1]>>]
    BY <1>h, <2>1
  <2>3. \A q \in Seq(W) : step[<<n, q>>] = IF Shown(m, s, ranked[n]) THEN Append(q, ranked[n]) ELSE q
    BY DEF step
  <2> QED BY <2>2, <2>3
<1>5. h = [n \in 0 .. N |->
            IF n = 0 THEN <<>> ELSE IF Shown(m, s, ranked[n]) THEN Append(h[n - 1], ranked[n]) ELSE h[n - 1]]
  <2> DEFINE e(n) == IF Shown(m, s, ranked[n]) THEN Append(h[n - 1], ranked[n]) ELSE h[n - 1]
  <2>1. \A n \in 0 .. N : h[n] = IF n = 0 THEN <<>> ELSE e(n)
    <3>1. \A n \in 1 .. N : h[n] = e(n)
      BY <1>4
    <3>2. \A n \in 0 .. N : n = 0 \/ n \in 1 .. N
      BY <1>1
    <3> HIDE DEF e
    <3> QED BY <1>h, <3>1, <3>2
  <2> HIDE DEF e
  <2>2. h = [n \in 0 .. N |-> IF n = 0 THEN <<>> ELSE e(n)]
    BY <1>h, <2>1
  <2> QED BY <2>2, Zenon DEF e
<1>6. f = [n \in 0 .. N |->
            IF n = 0 THEN <<>> ELSE IF Shown(m, s, ranked[n]) THEN Append(f[n - 1], ranked[n]) ELSE f[n - 1]]
  BY <1>5, Zenon
<1>7. Kept(m, s, ranked) = f[N]
  BY Zenon DEF Kept, N
<1> HIDE DEF f
<1> DEFINE S == {n \in 0 .. N : f[n] = h[n]}
<1>8. 0 \in S
  BY <1>1, <1>h, <1>6
<1>9. ASSUME NEW n \in 1 .. N, n - 1 \in S PROVE n \in S
  <2>1. n \in 0 .. N /\ n # 0 /\ f[n - 1] = h[n - 1]
    BY <1>1, <1>9
  <2>2. f[n] = IF Shown(m, s, ranked[n]) THEN Append(f[n - 1], ranked[n]) ELSE f[n - 1]
    BY <1>6, <2>1
  <2> QED BY <1>4, <2>1, <2>2
<1>10. \A n \in 0 .. N : n \in S
  <2> HIDE DEF S
  <2>1. S \in SUBSET (0 .. N)
    BY DEF S
  <2> QED BY <1>1, <1>8, <1>9, <2>1, Through
<1>11. Kept(m, s, ranked) = h[N]
  BY <1>1, <1>7, <1>10
<1>12. Keeps(h, m, s, W, ranked)
  BY <1>h, <1>4, <1>11 DEF N, Keeps
<1> QED BY <1>12

\* The characters of the first records of seq, with their equations.
LEMMA CharsAre ==
    ASSUME NEW seq \in Seq(Ids)
    PROVE  /\ Chars(seq) \in [0 .. Len(seq) -> Nat] /\ Chars(seq)[0] = 0
           /\ \A n \in 1 .. Len(seq) : Chars(seq)[n] = Chars(seq)[n - 1] + Size[seq[n]]
           /\ \A n \in 1 .. Len(seq) : seq[n] \in Ids /\ Size[seq[n]] \in Nat \ {0}
<1> DEFINE N == Len(seq)
           step == [p \in (1 .. N) \X Nat |-> p[2] + Size[seq[p[1]]]]
           f == CHOOSE g : g = [n \in 0 .. N |-> IF n = 0 THEN 0 ELSE g[n - 1] + Size[seq[n]]]
<1>1. N \in Nat /\ \A n \in 1 .. N : seq[n] \in Ids /\ Size[seq[n]] \in Nat \ {0}
  <2>1. \A i \in Ids : Size[i] \in Nat \ {0}
    BY IdsAssumption
  <2> QED BY <2>1
<1>2. step \in [(1 .. N) \X Nat -> Nat] /\ 0 \in Nat
  BY <1>1
<1> HIDE DEF step, N
<1>3. PICK h : Recurs(h, N, Nat, 0, step)
  BY <1>1, <1>2, Recursion, Zenon
<1>h. h \in [0 .. N -> Nat] /\ h[0] = 0 /\ \A n \in 1 .. N : h[n] = step[<<n, h[n - 1]>>]
  BY <1>3 DEF Recurs
<1>4. ASSUME NEW n \in 1 .. N
      PROVE  h[n] = h[n - 1] + Size[seq[n]]
  <2>1. n - 1 \in 0 .. N
    BY <1>1
  <2>2. h[n - 1] \in Nat /\ h[n] = step[<<n, h[n - 1]>>]
    BY <1>h, <2>1
  <2>3. \A q \in Nat : step[<<n, q>>] = q + Size[seq[n]]
    BY DEF step
  <2> QED BY <2>2, <2>3
<1>5. h = [n \in 0 .. N |-> IF n = 0 THEN 0 ELSE h[n - 1] + Size[seq[n]]]
  <2> DEFINE e(n) == h[n - 1] + Size[seq[n]]
  <2>1. \A n \in 0 .. N : h[n] = IF n = 0 THEN 0 ELSE e(n)
    <3>1. \A n \in 1 .. N : h[n] = e(n)
      BY <1>4
    <3>2. \A n \in 0 .. N : n = 0 \/ n \in 1 .. N
      BY <1>1
    <3> HIDE DEF e
    <3> QED BY <1>h, <3>1, <3>2
  <2> HIDE DEF e
  <2>2. h = [n \in 0 .. N |-> IF n = 0 THEN 0 ELSE e(n)]
    BY <1>h, <2>1
  <2> QED BY <2>2, Zenon DEF e
<1>6. f = [n \in 0 .. N |-> IF n = 0 THEN 0 ELSE f[n - 1] + Size[seq[n]]]
  BY <1>5, Zenon
<1>7. Chars(seq) = f
  BY Zenon DEF Chars, N
<1> HIDE DEF f
<1> DEFINE S == {n \in 0 .. N : f[n] = h[n]}
<1>8. 0 \in S
  BY <1>1, <1>h, <1>6
<1>9. ASSUME NEW n \in 1 .. N, n - 1 \in S PROVE n \in S
  <2>1. n \in 0 .. N /\ n # 0 /\ f[n - 1] = h[n - 1]
    BY <1>1, <1>9
  <2>2. f[n] = f[n - 1] + Size[seq[n]]
    BY <1>6, <2>1
  <2> QED BY <1>4, <2>1, <2>2
<1>10. \A n \in 0 .. N : n \in S
  <2> HIDE DEF S
  <2>1. S \in SUBSET (0 .. N)
    BY DEF S
  <2> QED BY <1>1, <1>8, <1>9, <2>1, Through
<1>11. f = h
  <2>1. \A n \in 0 .. N : f[n] = h[n]
    BY <1>10
  <2>2. f = [n \in 0 .. N |-> f[n]] /\ h = [n \in 0 .. N |-> h[n]]
    BY <1>h, <1>6
  <2> QED BY <2>1, <2>2
<1> QED BY <1>1, <1>h, <1>4, <1>7, <1>11 DEF N

\* The more records, the more characters.
LEMMA CharsGrow ==
    ASSUME NEW seq \in Seq(Ids), NEW j \in 0 .. Len(seq), NEW k \in 0 .. Len(seq), j < k
    PROVE  Chars(seq)[j] < Chars(seq)[k]
<1> DEFINE N == Len(seq)
           S == {n \in 0 .. N : \A i \in 0 .. N : i < n => Chars(seq)[i] < Chars(seq)[n]}
<1>1. N \in Nat /\ j \in 0 .. N /\ k \in 0 .. N
  OBVIOUS
<1>2. /\ \A n \in 0 .. N : Chars(seq)[n] \in Nat
      /\ \A n \in 1 .. N : Chars(seq)[n - 1] < Chars(seq)[n]
  <2>1. /\ Chars(seq) \in [0 .. N -> Nat]
        /\ \A n \in 1 .. N : Chars(seq)[n] = Chars(seq)[n - 1] + Size[seq[n]] /\ Size[seq[n]] \in Nat \ {0}
    BY CharsAre
  <2> HIDE DEF N
  <2>2. \A n \in 0 .. N : Chars(seq)[n] \in Nat
    BY <2>1
  <2>3. ASSUME NEW n \in 1 .. N PROVE Chars(seq)[n - 1] < Chars(seq)[n]
    <3>1. n - 1 \in 0 .. N
      BY <1>1
    <3>2. Chars(seq)[n - 1] \in Nat
      BY <2>2, <3>1
    <3>3. \A x, y, z : x \in Nat /\ z \in Nat \ {0} /\ y = x + z => x < y
      OBVIOUS
    <3> QED BY <2>1, <3>2, <3>3
  <2> QED BY <2>2, <2>3
<1> HIDE DEF N
<1>3. 0 \in S
  BY <1>1
<1>4. ASSUME NEW n \in 1 .. N, n - 1 \in S PROVE n \in S
  <2>1. n - 1 \in 0 .. N /\ n \in 0 .. N /\ Chars(seq)[n - 1] < Chars(seq)[n]
    BY <1>1, <1>2
  <2>2. ASSUME NEW i \in 0 .. N, i < n PROVE Chars(seq)[i] < Chars(seq)[n]
    <3>1. i = n - 1 \/ i < n - 1
      BY <1>1, <2>2
    <3>2. i < n - 1 => Chars(seq)[i] < Chars(seq)[n - 1]
      BY <1>4
    <3>3. Chars(seq)[i] \in Nat /\ Chars(seq)[n - 1] \in Nat /\ Chars(seq)[n] \in Nat
      BY <1>2, <2>1
    <3>4. i = n - 1 => Chars(seq)[i] < Chars(seq)[n]
      BY <2>1
    <3> QED BY <2>1, <3>1, <3>2, <3>3, <3>4
  <2> QED BY <2>1, <2>2
<1>5. k \in S
  <2> HIDE DEF S
  <2>1. S \in SUBSET (0 .. N)
    BY DEF S
  <2> QED BY <1>1, <1>3, <1>4, <2>1, Through
<1> QED BY <1>1, <1>5

-------------------------------------------------------------------------------
(* collectSearchResults.                                                       *)

Found == [found : Seq(Ids), used : Nat, full : BOOLEAN]

LEMMA TakeFinds ==
    ASSUME NEW m, NEW s, NEW acc \in Found, NEW i \in Ids, NEW limit \in Int, NEW budget \in Int
    PROVE  Take(m, s, acc, i, limit, budget) \in Found
<1>1. acc.found \in Seq(Ids) /\ acc.used \in Nat /\ acc.full \in BOOLEAN
  BY DEF Found
<1>2. Size[i] \in Nat
  BY IdsAssumption
<1>3. [found |-> acc.found, used |-> acc.used, full |-> TRUE] \in Found
  BY <1>1 DEF Found
<1>4. [found |-> Append(acc.found, i), used |-> acc.used + Size[i], full |-> FALSE] \in Found
  BY <1>1, <1>2 DEF Found
<1> QED BY <1>3, <1>4 DEF Take

\* f[n] is what is collected from the first n records.
Collects(f, m, s, ranked, limit, budget) ==
    /\ f \in [0 .. Len(ranked) -> Found] /\ f[0] = Nothing
    /\ \A n \in 1 .. Len(ranked) : f[n] = Take(m, s, f[n - 1], ranked[n], limit, budget)
    /\ Collect(m, s, ranked, limit, budget) = f[Len(ranked)]

LEMMA CollectIs ==
    ASSUME NEW m, NEW s, NEW ranked \in Seq(Ids), NEW limit \in Int, NEW budget \in Int
    PROVE  \E f : Collects(f, m, s, ranked, limit, budget)
<1> DEFINE N == Len(ranked)
           step == [p \in (1 .. N) \X Found |-> Take(m, s, p[2], ranked[p[1]], limit, budget)]
           f == CHOOSE g : g = [n \in 0 .. N |->
                  IF n = 0 THEN Nothing ELSE Take(m, s, g[n - 1], ranked[n], limit, budget)]
<1>1. N \in Nat /\ Nothing \in Found /\ \A n \in 1 .. N : ranked[n] \in Ids
  BY DEF Nothing, Found
<1>2. step \in [(1 .. N) \X Found -> Found]
  <2>1. \A n \in 1 .. N : \A a \in Found : Take(m, s, a, ranked[n], limit, budget) \in Found
    BY <1>1, TakeFinds
  <2> QED BY <2>1
<1> HIDE DEF step, N
<1>3. PICK h : Recurs(h, N, Found, Nothing, step)
  BY <1>1, <1>2, Recursion, Zenon
<1>h. h \in [0 .. N -> Found] /\ h[0] = Nothing /\ \A n \in 1 .. N : h[n] = step[<<n, h[n - 1]>>]
  BY <1>3 DEF Recurs
<1>4. ASSUME NEW n \in 1 .. N
      PROVE  h[n] = Take(m, s, h[n - 1], ranked[n], limit, budget)
  <2>1. n - 1 \in 0 .. N
    BY <1>1
  <2>2. h[n - 1] \in Found /\ h[n] = step[<<n, h[n - 1]>>]
    BY <1>h, <2>1
  <2>3. \A q \in Found : step[<<n, q>>] = Take(m, s, q, ranked[n], limit, budget)
    BY DEF step
  <2> QED BY <2>2, <2>3
<1>5. h = [n \in 0 .. N |->
            IF n = 0 THEN Nothing ELSE Take(m, s, h[n - 1], ranked[n], limit, budget)]
  <2> DEFINE e(n) == Take(m, s, h[n - 1], ranked[n], limit, budget)
  <2>1. \A n \in 0 .. N : h[n] = IF n = 0 THEN Nothing ELSE e(n)
    <3>1. \A n \in 1 .. N : h[n] = e(n)
      BY <1>4
    <3>2. \A n \in 0 .. N : n = 0 \/ n \in 1 .. N
      BY <1>1
    <3> HIDE DEF e
    <3> QED BY <1>h, <3>1, <3>2
  <2> HIDE DEF e
  <2>2. h = [n \in 0 .. N |-> IF n = 0 THEN Nothing ELSE e(n)]
    BY <1>h, <2>1
  <2> QED BY <2>2, Zenon DEF e
<1>6. f = [n \in 0 .. N |->
            IF n = 0 THEN Nothing ELSE Take(m, s, f[n - 1], ranked[n], limit, budget)]
  BY <1>5, Zenon
<1>7. Collect(m, s, ranked, limit, budget) = f[N]
  BY Zenon DEF Collect, N
<1> HIDE DEF f
<1> DEFINE S == {n \in 0 .. N : f[n] = h[n]}
<1>8. 0 \in S
  BY <1>1, <1>h, <1>6
<1>9. ASSUME NEW n \in 1 .. N, n - 1 \in S PROVE n \in S
  <2>1. n \in 0 .. N /\ n # 0 /\ f[n - 1] = h[n - 1]
    BY <1>1, <1>9
  <2>2. f[n] = Take(m, s, f[n - 1], ranked[n], limit, budget)
    BY <1>6, <2>1
  <2> QED BY <1>4, <2>1, <2>2
<1>10. \A n \in 0 .. N : n \in S
  <2> HIDE DEF S
  <2>1. S \in SUBSET (0 .. N)
    BY DEF S
  <2> QED BY <1>1, <1>8, <1>9, <2>1, Through
<1>11. Collect(m, s, ranked, limit, budget) = h[N]
  BY <1>1, <1>7, <1>10
<1>12. Collects(h, m, s, ranked, limit, budget)
  BY <1>h, <1>4, <1>11 DEF N, Collects
<1> QED BY <1>12

LEMMA PageIs ==
    ASSUME NEW m, m.limit \in Nat, NEW W, NEW ranked \in Seq(W), NEW n \in Nat \ {0}
    PROVE  LET p == (n - 1) * RowsOfPage(m)
               first == IF p < Len(ranked) THEN p ELSE Len(ranked)
           IN  /\ Page(m, ranked, n) \in Seq(W) /\ RowsOfPage(m) \in Nat \ {0} /\ p \in Nat
               /\ Len(Page(m, ranked, n)) = IF Len(ranked) - first < RowsOfPage(m) THEN Len(ranked) - first ELSE RowsOfPage(m)
               /\ \A i \in 1 .. Len(Page(m, ranked, n)) : Page(m, ranked, n)[i] = ranked[first + i]
<1> DEFINE rows == RowsOfPage(m)
           p == (n - 1) * rows
           rest == SubSeq(ranked, p + 1, Len(ranked))
           first == IF p < Len(ranked) THEN p ELSE Len(ranked)
           page == First(rows, rest)
<1>1. rows \in Nat \ {0}
  BY LimitsAssumption DEF RowsOfPage
<1>2. p \in Nat
  <2>1. n - 1 \in Nat
    OBVIOUS
  <2>2. \A a, b \in Nat : a * b \in Nat
    OBVIOUS
  <2> QED BY <1>1, <2>1, <2>2
<1> HIDE DEF p, rows
<1>3. /\ rest \in Seq(W) /\ first \in Nat /\ Len(rest) = Len(ranked) - first
      /\ \A i \in 1 .. Len(rest) : rest[i] = ranked[first + i]
  <2>1. CASE p < Len(ranked)
    BY <1>2, <2>1
  <2>2. CASE ~(p < Len(ranked))
    BY <1>2, <2>2
  <2> QED BY <2>1, <2>2
<1> HIDE DEF rest, first
<1>4. /\ page \in Seq(W) /\ Len(page) = IF Len(rest) < rows THEN Len(rest) ELSE rows
      /\ \A i \in 1 .. Len(page) : page[i] = rest[i]
  BY <1>1, <1>3 DEF First
<1>5. Page(m, ranked, n) = page
  BY DEF Page, rest, p, rows
<1> HIDE DEF page
<1>6. \A i \in 1 .. Len(page) : page[i] = ranked[first + i]
  BY <1>1, <1>3, <1>4
<1> QED BY <1>1, <1>2, <1>3, <1>4, <1>5, <1>6 DEF p, rows, first

LEMMA CollectFinds ==
    ASSUME NEW m, NEW s, NEW ranked \in Seq(Ids), NEW limit \in Int, NEW budget \in Int
    PROVE  Collect(m, s, ranked, limit, budget) \in Found
<1>1. PICK f : Collects(f, m, s, ranked, limit, budget)
  BY CollectIs
<1>2. Len(ranked) \in 0 .. Len(ranked)
  OBVIOUS
<1> QED BY <1>1, <1>2 DEF Collects

LEMMA AddPageFinds ==
    ASSUME NEW m, m.limit \in Nat, m.budget \in Nat, NEW s, NEW acc \in Found, NEW page \in Seq(Ids)
    PROVE  AddPage(m, s, acc, page) \in Found
<1> DEFINE more == Collect(m, s, page, m.limit - Len(acc.found), m.budget - acc.used)
<1>1. acc.found \in Seq(Ids) /\ acc.used \in Nat
  BY DEF Found
<1>2. m.limit - Len(acc.found) \in Int /\ m.budget - acc.used \in Int
  BY <1>1
<1>3. more \in Found
  BY <1>2, CollectFinds
<1>4. more.found \in Seq(Ids) /\ more.used \in Nat
  BY <1>3 DEF Found
<1> HIDE DEF more
<1>5. [found |-> acc.found \o more.found, used |-> acc.used + more.used,
       full |-> acc.used + more.used >= m.budget \/ Len(page) < RowsOfPage(m)] \in Found
  BY <1>1, <1>4 DEF Found
<1> QED BY <1>5 DEF AddPage, more

\* f[n] is what the first n pages find.
Pages(f, m, s, ranked) ==
    /\ f \in [0 .. Len(ranked) -> Found] /\ f[0] = Nothing
    /\ \A n \in 1 .. Len(ranked) : f[n] = AddPage(m, s, f[n - 1], Page(m, ranked, n))
    /\ PagedSearch(m, s, ranked) = f[Len(ranked)].found

LEMMA PagesAre ==
    ASSUME NEW m, m.limit \in Nat, m.budget \in Nat, NEW s, NEW ranked \in Seq(Ids)
    PROVE  \E f : Pages(f, m, s, ranked)
<1> DEFINE N == Len(ranked)
           step == [p \in (1 .. N) \X Found |-> AddPage(m, s, p[2], Page(m, ranked, p[1]))]
           f == CHOOSE g : g = [n \in 0 .. N |->
                  IF n = 0 THEN Nothing ELSE AddPage(m, s, g[n - 1], Page(m, ranked, n))]
<1>1. N \in Nat /\ Nothing \in Found /\ \A n \in 1 .. N : n \in Nat \ {0}
  BY DEF Nothing, Found
<1>2. step \in [(1 .. N) \X Found -> Found]
  <2>1. \A n \in 1 .. N : Page(m, ranked, n) \in Seq(Ids)
    BY <1>1, PageIs
  <2>2. \A n \in 1 .. N : \A a \in Found : AddPage(m, s, a, Page(m, ranked, n)) \in Found
    BY <2>1, AddPageFinds
  <2> QED BY <2>2
<1> HIDE DEF step, N
<1>3. PICK h : Recurs(h, N, Found, Nothing, step)
  BY <1>1, <1>2, Recursion, Zenon
<1>h. h \in [0 .. N -> Found] /\ h[0] = Nothing /\ \A n \in 1 .. N : h[n] = step[<<n, h[n - 1]>>]
  BY <1>3 DEF Recurs
<1>4. ASSUME NEW n \in 1 .. N
      PROVE  h[n] = AddPage(m, s, h[n - 1], Page(m, ranked, n))
  <2>1. n - 1 \in 0 .. N
    BY <1>1
  <2>2. h[n - 1] \in Found /\ h[n] = step[<<n, h[n - 1]>>]
    BY <1>h, <2>1
  <2>3. \A q \in Found : step[<<n, q>>] = AddPage(m, s, q, Page(m, ranked, n))
    BY DEF step
  <2> QED BY <2>2, <2>3
<1>5. h = [n \in 0 .. N |->
            IF n = 0 THEN Nothing ELSE AddPage(m, s, h[n - 1], Page(m, ranked, n))]
  <2> DEFINE e(n) == AddPage(m, s, h[n - 1], Page(m, ranked, n))
  <2>1. \A n \in 0 .. N : h[n] = IF n = 0 THEN Nothing ELSE e(n)
    <3>1. \A n \in 1 .. N : h[n] = e(n)
      BY <1>4
    <3>2. \A n \in 0 .. N : n = 0 \/ n \in 1 .. N
      BY <1>1
    <3> HIDE DEF e
    <3> QED BY <1>h, <3>1, <3>2
  <2> HIDE DEF e
  <2>2. h = [n \in 0 .. N |-> IF n = 0 THEN Nothing ELSE e(n)]
    BY <1>h, <2>1
  <2> QED BY <2>2, Zenon DEF e
<1>6. f = [n \in 0 .. N |->
            IF n = 0 THEN Nothing ELSE AddPage(m, s, f[n - 1], Page(m, ranked, n))]
  BY <1>5, Zenon
<1>7. PagedSearch(m, s, ranked) = f[N].found
  BY Zenon DEF PagedSearch, N
<1> HIDE DEF f
<1> DEFINE S == {n \in 0 .. N : f[n] = h[n]}
<1>8. 0 \in S
  BY <1>1, <1>h, <1>6
<1>9. ASSUME NEW n \in 1 .. N, n - 1 \in S PROVE n \in S
  <2>1. n \in 0 .. N /\ n # 0 /\ f[n - 1] = h[n - 1]
    BY <1>1, <1>9
  <2>2. f[n] = AddPage(m, s, f[n - 1], Page(m, ranked, n))
    BY <1>6, <2>1
  <2> QED BY <1>4, <2>1, <2>2
<1>10. \A n \in 0 .. N : n \in S
  <2> HIDE DEF S
  <2>1. S \in SUBSET (0 .. N)
    BY DEF S
  <2> QED BY <1>1, <1>8, <1>9, <2>1, Through
<1>11. PagedSearch(m, s, ranked) = h[N].found
  BY <1>1, <1>7, <1>10
<1>12. Pages(h, m, s, ranked)
  BY <1>h, <1>4, <1>11 DEF N, Pages
<1> QED BY <1>12

-------------------------------------------------------------------------------
(* Where a search stands: of the shown records, seq, it has been past the      *)
(* first n.                                                                    *)

\* After j of the ranked records, place[j] of seq are past.
Follows(place, m, s, ranked, seq) ==
    /\ place \in [0 .. Len(ranked) -> 0 .. Len(seq)] /\ place[0] = 0
    /\ \A j \in 1 .. Len(ranked) :
          IF Shown(m, s, ranked[j])
          THEN place[j] = place[j - 1] + 1 /\ seq[place[j]] = ranked[j]
          ELSE place[j] = place[j - 1]

LEMMA KeptFollows ==
    ASSUME NEW m, NEW s, NEW W, NEW ranked \in Seq(W)
    PROVE  /\ Kept(m, s, ranked) \in Seq(W)
           /\ \A i \in 1 .. Len(Kept(m, s, ranked)) : Shown(m, s, Kept(m, s, ranked)[i])
           /\ \E place : Follows(place, m, s, ranked, Kept(m, s, ranked)) /\ place[Len(ranked)] = Len(Kept(m, s, ranked))
<1>1. PICK f : Keeps(f, m, s, W, ranked)
  BY KeptIs
<1> DEFINE N == Len(ranked)
           seq == Kept(m, s, ranked)
           place == [j \in 0 .. N |-> Len(f[j])]
           S == {n \in 0 .. N : \A i \in 1 .. Len(f[n]) : Shown(m, s, f[n][i])}
           P == {n \in 0 .. N : \A j \in 0 .. n :
                   Len(f[j]) <= Len(f[n]) /\ \A i \in 1 .. Len(f[j]) : f[n][i] = f[j][i]}
<1>2. N \in Nat /\ N \in 0 .. N /\ (\A n \in 1 .. N : n \in 0 .. N /\ n - 1 \in 0 .. N)
  OBVIOUS
<1> HIDE DEF N
<1>3. /\ \A n \in 0 .. N : f[n] \in Seq(W) /\ Len(f[n]) \in Nat
      /\ f[0] = <<>> /\ seq = f[N]
      /\ \A n \in 1 .. N : ranked[n] \in W
      /\ \A n \in 1 .. N : f[n] = IF Shown(m, s, ranked[n]) THEN Append(f[n - 1], ranked[n]) ELSE f[n - 1]
  BY <1>1 DEF Keeps, N
<1>4. ASSUME NEW n \in 1 .. N
      PROVE  /\ Shown(m, s, ranked[n]) => /\ Len(f[n]) = Len(f[n - 1]) + 1 /\ f[n][Len(f[n])] = ranked[n]
                                          /\ \A i \in 1 .. Len(f[n - 1]) : f[n][i] = f[n - 1][i]
             /\ ~Shown(m, s, ranked[n]) => f[n] = f[n - 1]
  <2>1. f[n - 1] \in Seq(W) /\ ranked[n] \in W
    BY <1>2, <1>3
  <2>2. f[n] = IF Shown(m, s, ranked[n]) THEN Append(f[n - 1], ranked[n]) ELSE f[n - 1]
    BY <1>3
  <2> QED BY <2>1, <2>2
<1>5. 0 \in S /\ 0 \in P
  BY <1>2, <1>3
<1>6. ASSUME NEW n \in 1 .. N, n - 1 \in S PROVE n \in S
  <2>1. ASSUME NEW i \in 1 .. Len(f[n]) PROVE Shown(m, s, f[n][i])
    <3>1. CASE Shown(m, s, ranked[n])
      <4>1. i = Len(f[n]) \/ i \in 1 .. Len(f[n - 1])
        BY <1>2, <1>3, <1>4, <3>1
      <4> QED BY <1>4, <1>6, <3>1, <4>1
    <3>2. CASE ~Shown(m, s, ranked[n])
      BY <1>4, <1>6, <3>2
    <3> QED BY <3>1, <3>2
  <2> QED BY <1>2, <2>1
<1>7. ASSUME NEW n \in 1 .. N, n - 1 \in P PROVE n \in P
  <2>1. ASSUME NEW j \in 0 .. n
        PROVE  Len(f[j]) <= Len(f[n]) /\ \A i \in 1 .. Len(f[j]) : f[n][i] = f[j][i]
    <3>1. j = n \/ j \in 0 .. n - 1
      BY <1>2
    <3>2. CASE j = n
      BY <1>2, <1>3, <3>2
    <3>3. CASE j \in 0 .. n - 1
      <4>1. /\ Len(f[j]) <= Len(f[n - 1]) /\ Len(f[j]) \in Nat /\ Len(f[n - 1]) \in Nat
            /\ \A i \in 1 .. Len(f[j]) : f[n - 1][i] = f[j][i]
        BY <1>2, <1>3, <1>7, <3>3
      <4>2. CASE Shown(m, s, ranked[n])
        <5>1. \A i \in 1 .. Len(f[j]) : i \in 1 .. Len(f[n - 1])
          BY <4>1
        <5>2. /\ Len(f[n]) = Len(f[n - 1]) + 1
              /\ \A i \in 1 .. Len(f[n - 1]) : f[n][i] = f[n - 1][i]
          BY <1>4, <4>2
        <5> QED BY <4>1, <5>1, <5>2
      <4>3. CASE ~Shown(m, s, ranked[n])
        BY <1>4, <4>1, <4>3
      <4> QED BY <4>2, <4>3
    <3> QED BY <3>1, <3>2, <3>3
  <2> QED BY <1>2, <2>1
<1>8. N \in S /\ N \in P
  <2> HIDE DEF S, P
  <2>1. S \in SUBSET (0 .. N) /\ P \in SUBSET (0 .. N)
    BY DEF S, P
  <2> QED BY <1>2, <1>5, <1>6, <1>7, <2>1, Through
<1>9. seq \in Seq(W) /\ \A i \in 1 .. Len(seq) : Shown(m, s, seq[i])
  BY <1>2, <1>3, <1>8
<1>10. \A j \in 0 .. N : Len(f[j]) \in 0 .. Len(seq) /\ \A i \in 1 .. Len(f[j]) : seq[i] = f[j][i]
  BY <1>2, <1>3, <1>8
<1> HIDE DEF seq
<1>11. place \in [0 .. N -> 0 .. Len(seq)] /\ place[0] = 0 /\ place[N] = Len(seq)
  BY <1>2, <1>3, <1>10
<1>12. ASSUME NEW j \in 1 .. N
       PROVE  IF Shown(m, s, ranked[j])
              THEN place[j] = place[j - 1] + 1 /\ seq[place[j]] = ranked[j]
              ELSE place[j] = place[j - 1]
  <2>1. place[j] = Len(f[j]) /\ place[j - 1] = Len(f[j - 1])
    BY <1>2
  <2>2. Shown(m, s, ranked[j]) => Len(f[j]) \in 1 .. Len(f[j])
    <3>1. Len(f[j - 1]) \in Nat
      BY <1>2, <1>3
    <3> HIDE DEF place
    <3> QED BY <1>4, <3>1
  <2>3. Shown(m, s, ranked[j]) => seq[Len(f[j])] = f[j][Len(f[j])]
    <3>1. j \in 0 .. N
      BY <1>2
    <3>2. \A i \in 1 .. Len(f[j]) : seq[i] = f[j][i]
      BY <1>10, <3>1
    <3> HIDE DEF place
    <3> QED BY <2>2, <3>2
  <2> QED BY <1>4, <2>1, <2>3
<1> HIDE DEF place
<1>13. Follows(place, m, s, ranked, seq)
  BY <1>11, <1>12 DEF Follows, N
<1> QED BY <1>9, <1>11, <1>13 DEF seq, N

\* The records that are shown, cut at a limit, are all shown.
LEMMA CutFollows ==
    ASSUME NEW m, NEW s, NEW W, NEW seq \in Seq(W), \A i \in 1 .. Len(seq) : Shown(m, s, seq[i]), NEW n \in Nat
    PROVE  /\ First(n, seq) \in Seq(W) /\ Len(First(n, seq)) = IF Len(seq) < n THEN Len(seq) ELSE n
           /\ \A i \in 1 .. Len(First(n, seq)) : First(n, seq)[i] = seq[i]
           /\ Follows([j \in 0 .. Len(First(n, seq)) |-> j], m, s, First(n, seq), seq)
<1> DEFINE q == First(n, seq)
           place == [j \in 0 .. Len(q) |-> j]
<1>1. /\ q \in Seq(W) /\ Len(q) = IF Len(seq) < n THEN Len(seq) ELSE n
      /\ \A i \in 1 .. Len(q) : q[i] = seq[i]
  BY DEF First
<1>2. Len(seq) \in Nat /\ Len(q) \in Nat /\ Len(q) <= Len(seq)
  BY <1>1
<1> HIDE DEF q
<1>3. place \in [0 .. Len(q) -> 0 .. Len(seq)] /\ place[0] = 0
  BY <1>2
<1>4. \A j \in 1 .. Len(q) : Shown(m, s, q[j]) /\ place[j] = place[j - 1] + 1 /\ seq[place[j]] = q[j]
  BY <1>1, <1>2
<1>5. Follows(place, m, s, q, seq)
  BY <1>3, <1>4 DEF Follows
<1> QED BY <1>1, <1>5 DEF q

\* One limit and one budget for the whole search.  Either the first records of
\* seq are found, as many as are past or as the limit is;
Whole(A, n, seq, limit, budget) ==
    /\ A.full = FALSE /\ Len(A.found) <= n /\ Len(A.found) <= limit
    /\ Len(A.found) = n \/ Len(A.found) = limit
    /\ \A i \in 1 .. Len(A.found) : A.found[i] = seq[i]
    /\ A.used = Chars(seq)[Len(A.found)] /\ A.used <= budget

\* or the first k, where the budget does not hold one more, and, where there is
\* more than one page, perhaps later ones that are smaller.
CutAt(k, A, n, seq, limit, budget, W, once) ==
    /\ k \in 0 .. n - 1 /\ k < limit /\ k <= Len(A.found) /\ Len(A.found) <= limit
    /\ \A i \in 1 .. k : A.found[i] = seq[i]
    /\ Chars(seq)[k] <= A.used /\ A.used <= budget /\ budget < Chars(seq)[k + 1]
    /\ once \/ (\A i, j \in W : Size[i] = Size[j]) => Len(A.found) = k
    /\ once => A.full

Stands(A, n, seq, limit, budget, W, once) ==
    Whole(A, n, seq, limit, budget) \/ \E k : CutAt(k, A, n, seq, limit, budget, W, once)

\* collectSearchResults goes on by one record.
LEMMA TakeGoesOn ==
    ASSUME NEW m, NEW s, NEW W \in SUBSET Ids, NEW ranked \in Seq(W), NEW seq \in Seq(W),
           NEW place, Follows(place, m, s, ranked, seq), NEW j \in 1 .. Len(ranked),
           NEW limit \in Nat, NEW budget \in Nat, NEW once \in BOOLEAN, NEW A \in Found,
           Stands(A, place[j - 1], seq, limit, budget, W, once)
    PROVE  Stands(Take(m, s, A, ranked[j], limit, budget), place[j], seq, limit, budget, W, once)
<1> DEFINE n == place[j - 1]
           r == ranked[j]
           c == Chars(seq)
<1>1. /\ A.found \in Seq(Ids) /\ A.used \in Nat /\ A.full \in BOOLEAN /\ Len(A.found) \in Nat
      /\ A = [found |-> A.found, used |-> A.used, full |-> A.full]
  BY DEF Found
<1>2. /\ n \in 0 .. Len(seq) /\ place[j] \in 0 .. Len(seq) /\ Len(seq) \in Nat
      /\ IF Shown(m, s, r) THEN place[j] = n + 1 /\ seq[place[j]] = r ELSE place[j] = n
  <2>1. j - 1 \in 0 .. Len(ranked) /\ j \in 0 .. Len(ranked) /\ Len(seq) \in Nat
    OBVIOUS
  <2> QED BY <2>1 DEF Follows
<1>3. r \in W /\ r \in Ids /\ Size[r] \in Nat \ {0} /\ seq \in Seq(Ids) /\ \A i \in 1 .. Len(seq) : seq[i] \in W
  <2>1. r \in W /\ \A i \in 1 .. Len(seq) : seq[i] \in W
    OBVIOUS
  <2>2. \A i \in Ids : Size[i] \in Nat \ {0}
    BY IdsAssumption
  <2>3. seq \in Seq(Ids)
    OBVIOUS
  <2> QED BY <2>1, <2>2, <2>3
<1>4. /\ \A i \in 0 .. Len(seq) : c[i] \in Nat
      /\ c[0] = 0 /\ \A i \in 1 .. Len(seq) : c[i] = c[i - 1] + Size[seq[i]]
  BY <1>3, CharsAre
<1> HIDE DEF c, n, r
<1> DEFINE longer == [found |-> Append(A.found, r), used |-> A.used + Size[r], full |-> FALSE]
           stop == [found |-> A.found, used |-> A.used, full |-> TRUE]
<1>5. stop.found = A.found /\ stop.used = A.used /\ stop.full = TRUE
  BY <1>1
<1>6. longer.found = Append(A.found, r) /\ longer.used = A.used + Size[r] /\ longer.full = FALSE
  BY <1>1
<1>7. /\ Len(longer.found) = Len(A.found) + 1 /\ longer.found[Len(A.found) + 1] = r
      /\ \A i \in 1 .. Len(A.found) : longer.found[i] = A.found[i]
  BY <1>1, <1>3, <1>6
<1> HIDE DEF longer, stop
<1>8. CASE A.full \/ Len(A.found) >= limit \/ ~Shown(m, s, r)
  <2>1. Take(m, s, A, r, limit, budget) = A
    BY <1>8 DEF Take
  <2>2. CASE Whole(A, n, seq, limit, budget)
    <3>1. Whole(A, place[j], seq, limit, budget)
      BY <1>1, <1>2, <1>8, <2>2 DEF Whole
    <3> QED BY <2>1, <3>1 DEF Stands, r
  <2>3. ASSUME NEW k, CutAt(k, A, n, seq, limit, budget, W, once)
        PROVE  Stands(A, place[j], seq, limit, budget, W, once)
    <3>1. k \in 0 .. place[j] - 1
      BY <1>2, <2>3 DEF CutAt
    <3>2. CutAt(k, A, place[j], seq, limit, budget, W, once)
      BY <2>3, <3>1 DEF CutAt
    <3> QED BY <3>2 DEF Stands
  <2> QED BY <2>1, <2>2, <2>3 DEF Stands, n, r
<1>9. CASE ~A.full /\ Len(A.found) < limit /\ Shown(m, s, r) /\ A.used + Size[r] > budget
  <2>1. Take(m, s, A, r, limit, budget) = stop
    BY <1>1, <1>9 DEF Take, stop
  <2>2. CASE Whole(A, n, seq, limit, budget)
    <3>1. Len(A.found) = n /\ place[j] = n + 1 /\ seq[n + 1] = r /\ n + 1 \in 1 .. Len(seq) /\ (n + 1) - 1 = n
      BY <1>1, <1>2, <1>9, <2>2 DEF Whole
    <3>2. c[n + 1] = A.used + Size[r] /\ c[n] = A.used
      BY <1>4, <2>2, <3>1 DEF Whole, c
    <3>3. CutAt(n, stop, place[j], seq, limit, budget, W, once)
      <4>1. n \in 0 .. place[j] - 1 /\ n < limit /\ n <= Len(stop.found) /\ Len(stop.found) <= limit /\ Len(stop.found) = n
        BY <1>1, <1>2, <1>5, <1>9, <3>1
      <4>2. \A i \in 1 .. n : stop.found[i] = seq[i]
        BY <1>5, <2>2, <3>1 DEF Whole
      <4>3. Chars(seq)[n] <= stop.used /\ stop.used <= budget /\ budget < Chars(seq)[n + 1]
        BY <1>1, <1>3, <1>5, <1>9, <2>2, <3>2 DEF Whole, c
      <4> QED BY <1>5, <4>1, <4>2, <4>3 DEF CutAt
    <3> QED BY <2>1, <3>3 DEF Stands, r
  <2>3. ASSUME NEW k, CutAt(k, A, n, seq, limit, budget, W, once)
        PROVE  Stands(stop, place[j], seq, limit, budget, W, once)
    <3>1. k \in 0 .. place[j] - 1
      BY <1>2, <2>3 DEF CutAt
    <3>2. CutAt(k, stop, place[j], seq, limit, budget, W, once)
      BY <1>5, <2>3, <3>1 DEF CutAt
    <3> QED BY <3>2 DEF Stands
  <2> QED BY <2>1, <2>2, <2>3 DEF Stands, n, r
<1>10. CASE ~A.full /\ Len(A.found) < limit /\ Shown(m, s, r) /\ ~(A.used + Size[r] > budget)
  <2>1. Take(m, s, A, r, limit, budget) = longer
    BY <1>1, <1>10 DEF Take, longer
  <2>2. CASE Whole(A, n, seq, limit, budget)
    <3>1. Len(A.found) = n /\ place[j] = n + 1 /\ seq[n + 1] = r /\ n + 1 \in 1 .. Len(seq) /\ (n + 1) - 1 = n
      BY <1>1, <1>2, <1>10, <2>2 DEF Whole
    <3>2. c[n + 1] = A.used + Size[r]
      BY <1>4, <2>2, <3>1 DEF Whole, c
    <3>3. Whole(longer, place[j], seq, limit, budget)
      <4>1. Len(longer.found) = n + 1 /\ n + 1 <= limit /\ longer.full = FALSE
        BY <1>1, <1>2, <1>6, <1>7, <1>10, <3>1
      <4>2. \A i \in 1 .. n + 1 : longer.found[i] = seq[i]
        <5>1. \A i \in 1 .. n + 1 : i = n + 1 \/ i \in 1 .. n
          BY <1>2
        <5> QED BY <1>7, <2>2, <3>1, <5>1 DEF Whole
      <4>3. longer.used = Chars(seq)[n + 1] /\ longer.used <= budget
        BY <1>1, <1>3, <1>6, <1>10, <3>2 DEF c
      <4> QED BY <1>2, <3>1, <4>1, <4>2, <4>3 DEF Whole
    <3> QED BY <2>1, <3>3 DEF Stands, r
  <2>3. ASSUME NEW k, CutAt(k, A, n, seq, limit, budget, W, once)
        PROVE  Stands(longer, place[j], seq, limit, budget, W, once)
    <3>1. k \in 0 .. place[j] - 1 /\ k + 1 \in 1 .. Len(seq) /\ k \in 0 .. Len(seq) /\ (k + 1) - 1 = k
      <4>1. k \in 0 .. n - 1
        BY <2>3 DEF CutAt
      <4> QED BY <1>2, <4>1
    <3>2. c[k + 1] = c[k] + Size[seq[k + 1]] /\ seq[k + 1] \in W /\ c[k] \in Nat /\ c[k] <= A.used /\ budget < c[k + 1]
      <4>1. c[k] <= A.used /\ budget < c[k + 1]
        BY <2>3 DEF CutAt, c
      <4>2. c[k + 1] = c[(k + 1) - 1] + Size[seq[k + 1]] /\ c[k] \in Nat
        BY <1>4, <3>1
      <4> QED BY <1>3, <3>1, <4>1, <4>2
    <3>3. ~ \A x, y \in W : Size[x] = Size[y]
      <4>1. ASSUME \A x, y \in W : Size[x] = Size[y] PROVE FALSE
        <5>1. Size[seq[k + 1]] = Size[r]
          BY <1>3, <3>2, <4>1
        <5> QED BY <1>1, <1>3, <1>10, <3>2, <5>1
      <4> QED BY <4>1
    <3>4. k <= Len(longer.found) /\ Len(longer.found) <= limit /\ \A i \in 1 .. k : longer.found[i] = seq[i]
      BY <1>1, <1>7, <1>10, <2>3 DEF CutAt
    <3>5. Chars(seq)[k] <= longer.used /\ longer.used <= budget
      <4>1. longer.used = A.used + Size[r] /\ ~(A.used + Size[r] > budget)
        BY <1>6, <1>10
      <4>2. A.used \in Nat /\ Size[r] \in Nat /\ c[k] \in Nat /\ c[k] <= A.used
        BY <1>1, <1>3, <3>2
      <4>3. \A x, y, z \in Nat : z <= x => z <= x + y /\ (~(x + y > budget) => x + y <= budget)
        OBVIOUS
      <4> QED BY <4>1, <4>2, <4>3 DEF c
    <3>6. CutAt(k, longer, place[j], seq, limit, budget, W, once)
      BY <1>10, <2>3, <3>1, <3>3, <3>4, <3>5 DEF CutAt
    <3> QED BY <3>6 DEF Stands
  <2> QED BY <2>1, <2>2, <2>3 DEF Stands, n, r
<1> QED BY <1>1, <1>8, <1>9, <1>10

\* What was found before, and what is found on this page.
Added(a, x) == [found |-> a.found \o x.found, used |-> a.used + x.used, full |-> x.full]

LEMMA AppendAfter ==
    ASSUME NEW S, NEW p \in Seq(S), NEW q \in Seq(S), NEW i \in S
    PROVE  p \o Append(q, i) = Append(p \o q, i)
<1>1. <<i>> \in Seq(S) /\ p \o q \in Seq(S)
  OBVIOUS
<1>2. Append(q, i) = q \o <<i>> /\ Append(p \o q, i) = (p \o q) \o <<i>>
  BY <1>1, AppendIsConcat
<1>3. (p \o q) \o <<i>> = p \o (q \o <<i>>)
  BY <1>1, ConcatAssociative
<1> QED BY <1>2, <1>3, Zenon

LEMMA AddedTakes ==
    ASSUME NEW m, NEW s, NEW a \in Found, NEW x \in Found, NEW i \in Ids, NEW limit \in Nat, NEW budget \in Nat
    PROVE  Added(a, Take(m, s, x, i, limit - Len(a.found), budget - a.used)) = Take(m, s, Added(a, x), i, limit, budget)
<1> DEFINE longer == [found |-> Append(x.found, i), used |-> x.used + Size[i], full |-> FALSE]
           stop == [found |-> x.found, used |-> x.used, full |-> TRUE]
           t == a.found \o x.found
           A == Added(a, x)
<1>1. /\ a.found \in Seq(Ids) /\ a.used \in Nat /\ Len(a.found) \in Nat
      /\ x.found \in Seq(Ids) /\ x.used \in Nat /\ Len(x.found) \in Nat /\ x.full \in BOOLEAN
  BY DEF Found
<1>2. Size[i] \in Nat
  BY IdsAssumption
<1>4. t \in Seq(Ids) /\ Len(t) = Len(a.found) + Len(x.found)
  BY <1>1
<1>5. a.found \o Append(x.found, i) = Append(t, i)
  <2>1. ASSUME NEW p \in Seq(Ids), NEW q \in Seq(Ids) PROVE p \o Append(q, i) = Append(p \o q, i)
    BY AppendAfter
  <2>2. a.found \o Append(x.found, i) = Append(a.found \o x.found, i)
    BY <1>1, <2>1, Zenon
  <2> QED BY <2>2 DEF t
<1>6. a.used + (x.used + Size[i]) = (a.used + x.used) + Size[i]
  BY <1>1, <1>2
<1>7. A = [found |-> t, used |-> a.used + x.used, full |-> x.full]
  BY DEF Added
<1> HIDE DEF t, A
<1>8. A.found = t /\ A.used = a.used + x.used /\ A.full = x.full
  BY <1>7
<1>9. /\ longer.found = Append(x.found, i) /\ longer.used = x.used + Size[i] /\ longer.full = FALSE
      /\ stop.found = x.found /\ stop.used = x.used /\ stop.full = TRUE
  OBVIOUS
<1> HIDE DEF longer, stop
<1>10. Added(a, longer) = [found |-> Append(A.found, i), used |-> A.used + Size[i], full |-> FALSE]
  BY <1>5, <1>6, <1>8, <1>9 DEF Added
<1>11. Added(a, stop) = [found |-> A.found, used |-> A.used, full |-> TRUE]
  BY <1>8, <1>9 DEF Added, t
<1>12. Len(x.found) >= limit - Len(a.found) <=> Len(A.found) >= limit
  <2>1. Len(A.found) = Len(a.found) + Len(x.found)
    BY <1>4, <1>8
  <2>2. \A p, q \in Nat : q >= limit - p <=> p + q >= limit
    OBVIOUS
  <2> QED BY <1>1, <2>1, <2>2
<1>16. x.used + Size[i] > budget - a.used <=> A.used + Size[i] > budget
  BY <1>1, <1>2, <1>8
<1>13. Take(m, s, x, i, limit - Len(a.found), budget - a.used) =
         IF x.full \/ Len(x.found) >= limit - Len(a.found) \/ ~Shown(m, s, i) THEN x
         ELSE IF x.used + Size[i] > budget - a.used THEN stop ELSE longer
  BY DEF Take, stop, longer
<1>14. Take(m, s, A, i, limit, budget) =
         IF A.full \/ Len(A.found) >= limit \/ ~Shown(m, s, i) THEN A
         ELSE IF A.used + Size[i] > budget THEN Added(a, stop) ELSE Added(a, longer)
  BY <1>10, <1>11 DEF Take
<1>15. A = Added(a, x)
  BY DEF A
<1> QED BY <1>8, <1>12, <1>16, <1>13, <1>14, <1>15

\* collectSearchResults over records from first on, after a was found before them.
LEMMA CollectGoesOn ==
    ASSUME NEW m, NEW s, NEW W \in SUBSET Ids, NEW ranked \in Seq(W), NEW seq \in Seq(W),
           NEW place, Follows(place, m, s, ranked, seq),
           NEW limit \in Nat, NEW budget \in Nat, NEW once \in BOOLEAN, NEW a \in Found, a.full = FALSE,
           NEW first \in 0 .. Len(ranked), Stands(a, place[first], seq, limit, budget, W, once),
           NEW page \in Seq(W), first + Len(page) <= Len(ranked),
           \A i \in 1 .. Len(page) : page[i] = ranked[first + i]
    PROVE  LET x == Collect(m, s, page, limit - Len(a.found), budget - a.used)
           IN  x \in Found /\ Stands(Added(a, x), place[first + Len(page)], seq, limit, budget, W, once)
<1> DEFINE N == Len(page)
           l == limit - Len(a.found)
           b == budget - a.used
<1>1. /\ N \in Nat /\ Len(ranked) \in Nat /\ first \in Nat /\ page \in Seq(Ids)
      /\ a.found \in Seq(Ids) /\ a.used \in Nat /\ l \in Int /\ b \in Int
      /\ \A i \in 1 .. N : page[i] \in Ids
  BY DEF Found
<1>2. PICK f : Collects(f, m, s, page, l, b)
  BY <1>1, CollectIs
<1>3. /\ \A n \in 0 .. N : f[n] \in Found
      /\ f[0] = Nothing /\ Collect(m, s, page, l, b) = f[N]
      /\ \A n \in 1 .. N : f[n] = Take(m, s, f[n - 1], page[n], l, b)
  BY <1>2 DEF Collects
<1> DEFINE S == {n \in 0 .. N : Stands(Added(a, f[n]), place[first + n], seq, limit, budget, W, once)}
<1>4. 0 \in S
  <2>1. Added(a, Nothing) = a
    <3>1. a = [found |-> a.found, used |-> a.used, full |-> a.full]
      BY DEF Found
    <3>2. a.found \o <<>> = a.found /\ a.used + 0 = a.used
      BY <1>1
    <3> QED BY <3>1, <3>2 DEF Added, Nothing
  <2>2. first + 0 = first /\ 0 \in 0 .. N
    BY <1>1
  <2> QED BY <1>3, <2>1, <2>2
<1> HIDE DEF l, b, N
<1>5. ASSUME NEW n \in 1 .. N, n - 1 \in S PROVE n \in S
  <2>1. /\ first + n \in 1 .. Len(ranked) /\ page[n] = ranked[first + n] /\ (first + n) - 1 = first + (n - 1)
        /\ n - 1 \in 0 .. N /\ n \in 0 .. N
    <3>1. page[n] = ranked[first + n] /\ first + N <= Len(ranked)
      BY DEF N
    <3>2. first + n \in 1 .. Len(ranked) /\ (first + n) - 1 = first + (n - 1)
      BY <1>1, <3>1
    <3>3. n - 1 \in 0 .. N /\ n \in 0 .. N
      BY <1>1
    <3> QED BY <3>1, <3>2, <3>3
  <2>2. Added(a, f[n - 1]) \in Found
    <3>1. f[n - 1] \in Found
      BY <1>3, <2>1
    <3>2. \A x \in Found : a.found \o x.found \in Seq(Ids) /\ a.used + x.used \in Nat /\ x.full \in BOOLEAN
      BY <1>1 DEF Found
    <3>3. \A x \in Found : Added(a, x) \in Found
      BY <3>2 DEF Found, Added
    <3> QED BY <3>1, <3>3
  <2>3. Stands(Added(a, f[n - 1]), place[(first + n) - 1], seq, limit, budget, W, once)
    BY <1>5, <2>1
  <2>4. Stands(Take(m, s, Added(a, f[n - 1]), ranked[first + n], limit, budget), place[first + n], seq, limit, budget, W, once)
    BY <2>1, <2>2, <2>3, TakeGoesOn
  <2>5. Added(a, f[n]) = Take(m, s, Added(a, f[n - 1]), ranked[first + n], limit, budget)
    <3>1. f[n - 1] \in Found /\ page[n] \in Ids
      BY <1>1, <1>3, <2>1
    <3>2. \A x \in Found, i \in Ids : Added(a, Take(m, s, x, i, l, b)) = Take(m, s, Added(a, x), i, limit, budget)
      BY AddedTakes DEF l, b
    <3>3. Added(a, Take(m, s, f[n - 1], page[n], l, b)) = Take(m, s, Added(a, f[n - 1]), page[n], limit, budget)
      BY <3>1, <3>2
    <3> QED BY <1>3, <2>1, <3>3
  <2> QED BY <2>1, <2>4, <2>5
<1>6. N \in S
  <2> HIDE DEF S
  <2>1. S \in SUBSET (0 .. N) /\ N \in 0 .. N
    BY <1>1 DEF S
  <2> QED BY <1>1, <1>4, <1>5, <2>1, Through
<1>7. f[N] \in Found /\ Stands(Added(a, f[N]), place[first + N], seq, limit, budget, W, once)
  BY <1>1, <1>3, <1>6
<1> QED BY <1>3, <1>7 DEF l, b, N

\* What is found when the search ends: of the shown records the first that fit.
Fitting(seq, limit, budget) == {n \in 0 .. Len(seq) : n <= limit /\ Chars(seq)[n] <= budget}
BestOf(seq, limit, budget) == First(Max(Fitting(seq, limit, budget)), seq)

LEMMA BestIs ==
    ASSUME NEW seq \in Seq(Ids), NEW limit \in Nat, NEW budget \in Nat, NEW k \in 0 .. Len(seq),
           k <= limit, Chars(seq)[k] <= budget,
           k = Len(seq) \/ k = limit \/ budget < Chars(seq)[k + 1]
    PROVE  BestOf(seq, limit, budget) = SubSeq(seq, 1, k)
<1> DEFINE S == Fitting(seq, limit, budget)
<1>1. k \in S
  BY DEF Fitting
<1>2. ASSUME NEW n \in S PROVE n <= k
  <2>1. n \in 0 .. Len(seq) /\ n <= limit /\ Chars(seq)[n] <= budget
    BY DEF Fitting
  <2>2. ASSUME k < n PROVE FALSE
    <3>1. k + 1 \in 0 .. Len(seq) /\ k + 1 <= n /\ k # Len(seq) /\ k # limit
      BY <2>1, <2>2
    <3>2. Chars(seq)[k + 1] <= Chars(seq)[n] /\ Chars(seq)[k + 1] \in Nat /\ Chars(seq)[n] \in Nat
      <4>1. Chars(seq) \in [0 .. Len(seq) -> Nat]
        BY CharsAre
      <4>2. Chars(seq)[k + 1] \in Nat /\ Chars(seq)[n] \in Nat
        BY <2>1, <3>1, <4>1
      <4>3. k + 1 = n \/ k + 1 < n
        BY <2>1, <3>1
      <4>4. k + 1 < n => Chars(seq)[k + 1] < Chars(seq)[n]
        BY <2>1, <3>1, CharsGrow
      <4> QED BY <4>2, <4>3, <4>4
    <3> QED BY <2>1, <3>1, <3>2
  <2> QED BY <2>1, <2>2
<1>3. S \subseteq Nat
  BY DEF Fitting
<1> HIDE DEF S
<1>4. Max(S) = k
  <2>1. \E x \in S : \A y \in S : x >= y
    BY <1>1, <1>2, <1>3
  <2>2. Max(S) \in S /\ \A y \in S : Max(S) >= y
    BY <2>1 DEF Max
  <2> DEFINE x == Max(S)
  <2>3. x \in S /\ x >= k
    BY <1>1, <2>2
  <2> HIDE DEF x
  <2>4. x \in Nat /\ k \in Nat /\ x <= k
    BY <1>1, <1>2, <1>3, <2>3
  <2>5. x = k
    BY <2>3, <2>4
  <2> QED BY <2>5 DEF x
<1> QED BY <1>4 DEF BestOf, First, S

LEMMA SearchEnds ==
    ASSUME NEW W \in SUBSET Ids, NEW seq \in Seq(W), NEW limit \in Nat, NEW budget \in Nat, NEW once \in BOOLEAN,
           NEW A \in Found, NEW n \in 0 .. Len(seq), Stands(A, n, seq, limit, budget, W, once),
           n = Len(seq) \/ n >= limit \/ A.used >= budget \/ Len(A.found) >= limit
    PROVE  /\ IsPrefix(BestOf(seq, limit, budget), A.found)
           /\ once \/ (\A i, j \in W : Size[i] = Size[j]) => A.found = BestOf(seq, limit, budget)
<1> DEFINE c == Chars(seq)
<1>1. /\ A.found \in Seq(Ids) /\ A.used \in Nat /\ Len(A.found) \in Nat /\ seq \in Seq(Ids) /\ Len(seq) \in Nat
  BY DEF Found
<1>2. /\ \A i \in 0 .. Len(seq) : c[i] \in Nat
      /\ \A i \in 1 .. Len(seq) : c[i] = c[i - 1] + Size[seq[i]] /\ Size[seq[i]] \in Nat \ {0}
  BY <1>1, CharsAre
<1> HIDE DEF c
<1>3. CASE Whole(A, n, seq, limit, budget)
  <2> DEFINE k == Len(A.found)
  <2>1. /\ k \in 0 .. Len(seq) /\ k <= limit /\ (k = n \/ k = limit)
        /\ c[k] = A.used /\ A.used <= budget /\ \A i \in 1 .. k : A.found[i] = seq[i]
    BY <1>1, <1>3 DEF Whole, c
  <2>6. k = Len(A.found)
    OBVIOUS
  <2> HIDE DEF k
  <2>2. k = Len(seq) \/ k = limit \/ budget < c[k + 1]
    <3>1. CASE A.used >= budget /\ k # Len(seq)
      <4>1. k + 1 \in 1 .. Len(seq) /\ (k + 1) - 1 = k
        BY <1>1, <2>1, <3>1
      <4>2. c[k + 1] = c[(k + 1) - 1] + Size[seq[k + 1]] /\ Size[seq[k + 1]] \in Nat \ {0}
        BY <1>2, <4>1
      <4> QED BY <1>1, <2>1, <3>1, <4>1, <4>2
    <3>2. CASE ~(A.used >= budget)
      BY <1>1, <2>1, <2>6, <3>2
    <3> QED BY <3>1, <3>2
  <2>3. BestOf(seq, limit, budget) = SubSeq(seq, 1, k)
    <3>1. c[k] <= budget
      BY <2>1
    <3> QED BY <1>1, <2>1, <2>2, <3>1, BestIs DEF c
  <2>4. SubSeq(seq, 1, k) = A.found
    BY <1>1, <2>1, <2>6
  <2>5. SubSeq(A.found, 1, Len(A.found)) = A.found
    BY <1>1
  <2>7. BestOf(seq, limit, budget) = A.found
    BY <2>3, <2>4
  <2>8. IsPrefix(A.found, A.found)
    BY <1>1, <2>5 DEF IsPrefix
  <2> QED BY <2>7, <2>8
<1>4. ASSUME NEW k, CutAt(k, A, n, seq, limit, budget, W, once)
      PROVE  /\ IsPrefix(BestOf(seq, limit, budget), A.found)
             /\ once \/ (\A i, j \in W : Size[i] = Size[j]) => A.found = BestOf(seq, limit, budget)
  <2>1. k \in 0 .. n - 1
    BY <1>4 DEF CutAt
  <2>2. /\ k \in 0 .. Len(seq) /\ k <= limit /\ k <= Len(A.found)
        /\ c[k] <= A.used /\ A.used <= budget /\ budget < c[k + 1]
        /\ \A i \in 1 .. k : A.found[i] = seq[i]
    BY <1>1, <1>4, <2>1 DEF CutAt, c
  <2>3. BestOf(seq, limit, budget) = SubSeq(seq, 1, k)
    <3>1. c[k] <= budget
      BY <1>1, <1>2, <2>2
    <3> QED BY <1>1, <2>2, <3>1, BestIs DEF c
  <2> DEFINE best == SubSeq(seq, 1, k)
  <2>4. /\ best \in Seq(Ids) /\ Len(best) = k /\ \A i \in 1 .. k : best[i] = A.found[i]
        /\ SubSeq(A.found, 1, k) = best /\ SubSeq(best, 1, k) = best
    <3>1. best \in Seq(Ids) /\ Len(best) = k /\ \A i \in 1 .. k : best[i] = seq[i]
      BY <1>1, <2>2
    <3>2. SubSeq(A.found, 1, k) = best
      BY <1>1, <2>2
    <3> HIDE DEF best
    <3>3. SubSeq(best, 1, k) = best
      BY <3>1
    <3> QED BY <2>2, <3>1, <3>2, <3>3
  <2> HIDE DEF best
  <2>5. IsPrefix(best, A.found)
    BY <2>2, <2>4 DEF IsPrefix
  <2>6. ASSUME once \/ (\A i, j \in W : Size[i] = Size[j]) PROVE A.found = best
    <3>1. Len(A.found) = k
      BY <1>4, <2>6 DEF CutAt
    <3> QED BY <1>1, <2>4, <3>1
  <2> QED BY <2>3, <2>5, <2>6 DEF best
<1> QED BY <1>3, <1>4 DEF Stands

\* Nothing is found yet.
LEMMA NothingStands ==
    ASSUME NEW W \in SUBSET Ids, NEW seq \in Seq(W), NEW limit \in Nat, NEW budget \in Nat, NEW once \in BOOLEAN
    PROVE  Nothing \in Found /\ Nothing.full = FALSE /\ Stands(Nothing, 0, seq, limit, budget, W, once)
<1>1. Nothing.found = <<>> /\ Nothing.used = 0 /\ Nothing.full = FALSE /\ Nothing \in Found /\ Len(<<>>) = 0
  BY DEF Nothing, Found
<1>2. seq \in Seq(Ids)
  OBVIOUS
<1>3. Chars(seq)[0] = 0
  BY <1>2, CharsAre
<1>4. Whole(Nothing, 0, seq, limit, budget)
  BY <1>1, <1>3 DEF Whole
<1> QED BY <1>1, <1>4 DEF Stands

\* The search of the file-system cache finds the best records.
LEMMA CacheSearchIsExact ==
    ASSUME NEW m, NEW s, NEW W \in SUBSET Ids, NEW ranked \in Seq(W), m.limit \in Nat, m.budget \in Nat
    PROVE  /\ CacheSearch(m, s, ranked) \in Seq(Ids)
           /\ CacheSearch(m, s, ranked) = BestOf(Kept(m, s, ranked), m.limit, m.budget)
<1> DEFINE seq == Kept(m, s, ranked)
           q == First(m.limit, seq)
           place == [j \in 0 .. Len(q) |-> j]
           x == Collect(m, s, q, m.limit, m.budget)
<1>1. seq \in Seq(W) /\ \A i \in 1 .. Len(seq) : Shown(m, s, seq[i])
  BY KeptFollows
<1> HIDE DEF seq
<1>2. q \in Seq(W) /\ Len(q) = IF Len(seq) < m.limit THEN Len(seq) ELSE m.limit
  BY <1>1 DEF First
<1>3. Follows(place, m, s, q, seq)
  BY <1>1, CutFollows
<1> HIDE DEF q
<1>4. Len(q) \in Nat /\ Len(seq) \in Nat /\ place[0] = 0 /\ place[0 + Len(q)] = Len(q) /\ 0 \in 0 .. Len(q)
      /\ Len(q) \in 0 .. Len(seq)
  BY <1>1, <1>2
<1> HIDE DEF place
<1>5. Nothing \in Found /\ Nothing.full = FALSE /\ Stands(Nothing, place[0], seq, m.limit, m.budget, W, TRUE)
  BY <1>1, <1>4, NothingStands
<1>6. m.limit - Len(Nothing.found) = m.limit /\ m.budget - Nothing.used = m.budget
  BY DEF Nothing
<1>7. \A i \in 1 .. Len(q) : q[i] = q[0 + i]
  OBVIOUS
<1>8. x \in Found /\ Stands(Added(Nothing, x), place[0 + Len(q)], seq, m.limit, m.budget, W, TRUE)
  <2> DEFINE y == Collect(m, s, q, m.limit - Len(Nothing.found), m.budget - Nothing.used)
  <2>1. 0 + Len(q) <= Len(q)
    BY <1>4
  <2>2. y \in Found /\ Stands(Added(Nothing, y), place[0 + Len(q)], seq, m.limit, m.budget, W, TRUE)
    BY <1>1, <1>2, <1>3, <1>4, <1>5, <1>7, <2>1, CollectGoesOn
  <2> QED BY <1>6, <2>2
<1> HIDE DEF x
<1>9. Added(Nothing, x) = x
  <2>1. x.found \in Seq(Ids) /\ x.used \in Nat /\ x = [found |-> x.found, used |-> x.used, full |-> x.full]
    BY <1>8 DEF Found
  <2>2. <<>> \o x.found = x.found /\ 0 + x.used = x.used
    BY <2>1
  <2> QED BY <2>1, <2>2 DEF Added, Nothing
<1>10. Stands(x, Len(q), seq, m.limit, m.budget, W, TRUE)
  BY <1>4, <1>8, <1>9
<1>11. Len(q) = Len(seq) \/ Len(q) >= m.limit
  BY <1>2, <1>4
<1>12. x.found = BestOf(seq, m.limit, m.budget)
  <2> DEFINE once == TRUE
             n == Len(q)
  <2>1. /\ once \in BOOLEAN /\ n \in 0 .. Len(seq) /\ Stands(x, n, seq, m.limit, m.budget, W, once)
        /\ n = Len(seq) \/ n >= m.limit \/ x.used >= m.budget \/ Len(x.found) >= m.limit
    BY <1>4, <1>10, <1>11
  <2>2. once
    OBVIOUS
  <2> HIDE DEF once, n
  <2>3. x \in Found /\ seq \in Seq(W)
    BY <1>1, <1>8
  <2>4. once \/ (\A i, j \in W : Size[i] = Size[j]) => x.found = BestOf(seq, m.limit, m.budget)
    BY <2>1, <2>3, SearchEnds
  <2> QED BY <2>2, <2>4
<1> QED BY <1>8, <1>12 DEF CacheSearch, Found, x, q, seq

\* After n pages: every record of theirs is past, or the search is at its end.
Afresh(A) == [found |-> A.found, used |-> A.used, full |-> FALSE]
PagesStand(A, n, m, ranked, seq, place, W) ==
    \E j \in 0 .. Len(ranked) :
        /\ Stands(Afresh(A), place[j], seq, m.limit, m.budget, W, FALSE)
        /\ A.full => A.used >= m.budget \/ j = Len(ranked)
        /\ \/ A.full
           \/ Len(A.found) >= m.limit
           \/ j = IF n * RowsOfPage(m) < Len(ranked) THEN n * RowsOfPage(m) ELSE Len(ranked)

LEMMA StandsAfresh ==
    ASSUME NEW A, NEW n, NEW seq, NEW limit, NEW budget, NEW W, Stands(A, n, seq, limit, budget, W, FALSE)
    PROVE  Stands(Afresh(A), n, seq, limit, budget, W, FALSE)
<1>1. Afresh(A).found = A.found /\ Afresh(A).used = A.used /\ Afresh(A).full = FALSE
  BY DEF Afresh
<1>2. CASE Whole(A, n, seq, limit, budget)
  <2>1. Whole(Afresh(A), n, seq, limit, budget)
    BY <1>1, <1>2 DEF Whole
  <2> QED BY <2>1 DEF Stands
<1>3. ASSUME NEW k, CutAt(k, A, n, seq, limit, budget, W, FALSE)
      PROVE  Stands(Afresh(A), n, seq, limit, budget, W, FALSE)
  <2>1. CutAt(k, Afresh(A), n, seq, limit, budget, W, FALSE)
    BY <1>1, <1>3 DEF CutAt
  <2> QED BY <2>1 DEF Stands
<1> QED BY <1>2, <1>3 DEF Stands

\* One page more.
LEMMA PageGoesOn ==
    ASSUME NEW m, m.limit \in Nat, m.budget \in Nat, NEW s, NEW W \in SUBSET Ids, NEW ranked \in Seq(W), NEW seq \in Seq(W),
           NEW place, Follows(place, m, s, ranked, seq), NEW n \in Nat \ {0}, NEW A \in Found,
           PagesStand(A, n - 1, m, ranked, seq, place, W)
    PROVE  PagesStand(AddPage(m, s, A, Page(m, ranked, n)), n, m, ranked, seq, place, W)
<1> DEFINE B == AddPage(m, s, A, Page(m, ranked, n))
<1>1. PICK j \in 0 .. Len(ranked) :
        /\ Stands(Afresh(A), place[j], seq, m.limit, m.budget, W, FALSE)
        /\ A.full => A.used >= m.budget \/ j = Len(ranked)
        /\ \/ A.full
           \/ Len(A.found) >= m.limit
           \/ j = IF (n - 1) * RowsOfPage(m) < Len(ranked) THEN (n - 1) * RowsOfPage(m) ELSE Len(ranked)
  BY DEF PagesStand
<1>2. CASE A.full \/ Len(A.found) >= m.limit
  <2>1. B = A
    BY <1>2 DEF AddPage
  <2>2. /\ Stands(Afresh(A), place[j], seq, m.limit, m.budget, W, FALSE)
        /\ A.full => A.used >= m.budget \/ j = Len(ranked)
        /\ A.full \/ Len(A.found) >= m.limit
    BY <1>1, <1>2
  <2>3. PagesStand(A, n, m, ranked, seq, place, W)
    BY <2>2 DEF PagesStand
  <2> QED BY <2>1, <2>3
<1>3. CASE ~(A.full \/ Len(A.found) >= m.limit)
  <2> DEFINE rows == RowsOfPage(m)
             p == (n - 1) * rows
             page == Page(m, ranked, n)
             x == Collect(m, s, page, m.limit - Len(A.found), m.budget - A.used)
             i == j + Len(page)
  <2>1. A = Afresh(A) /\ A.full = FALSE
    BY <1>3 DEF Found, Afresh
  <2>2. j = IF p < Len(ranked) THEN p ELSE Len(ranked)
    BY <1>1, <1>3
  <2>3. /\ page \in Seq(W) /\ rows \in Nat \ {0} /\ p \in Nat
        /\ Len(page) = IF Len(ranked) - j < rows THEN Len(ranked) - j ELSE rows
        /\ \A k \in 1 .. Len(page) : page[k] = ranked[j + k]
    BY <2>2, PageIs
  <2>4. n * rows = p + rows
    <3>1. \A a \in Nat : n * a = (n - 1) * a + a
      OBVIOUS
    <3>2. rows \in Nat
      BY <2>3
    <3> HIDE DEF rows
    <3> QED BY <3>1, <3>2 DEF p
  <2> HIDE DEF page, rows, p
  <2>5. /\ i \in 0 .. Len(ranked) /\ j + Len(page) <= Len(ranked) /\ Len(page) \in Nat
        /\ Len(page) < rows => i = Len(ranked)
        /\ i = IF n * rows < Len(ranked) THEN n * rows ELSE Len(ranked)
    <3> DEFINE l == Len(page)
               r == Len(ranked)
               e == n * rows
    <3>1. /\ r \in Nat /\ p \in Nat /\ rows \in Nat \ {0} /\ e = p + rows
          /\ j = IF p < r THEN p ELSE r
          /\ l = IF r - j < rows THEN r - j ELSE rows
      BY <2>2, <2>3, <2>4
    <3> HIDE DEF l, r, e
    <3>2. /\ j + l \in 0 .. r /\ j + l <= r /\ l \in Nat
          /\ l < rows => j + l = r
          /\ j + l = IF e < r THEN e ELSE r
      BY <3>1
    <3> QED BY <3>2 DEF l, r, e
  <2>6. x \in Found /\ Stands(Added(A, x), place[i], seq, m.limit, m.budget, W, FALSE)
    <3>1. Stands(A, place[j], seq, m.limit, m.budget, W, FALSE)
      BY <1>1, <2>1
    <3>2. FALSE \in BOOLEAN
      OBVIOUS
    <3> QED BY <2>1, <2>3, <2>5, <3>1, <3>2, CollectGoesOn
  <2> HIDE DEF x, i
  <2>7. B = [found |-> A.found \o x.found, used |-> A.used + x.used,
             full |-> A.used + x.used >= m.budget \/ Len(page) < rows]
    BY <1>3 DEF AddPage, x, page, rows
  <2> HIDE DEF B
  <2>8. /\ B.found = A.found \o x.found /\ B.used = A.used + x.used
        /\ B.full = (B.used >= m.budget \/ Len(page) < rows)
    BY <2>7
  <2>9. Afresh(B) = Afresh(Added(A, x))
    BY <2>8 DEF Afresh, Added
  <2>10. Stands(Afresh(B), place[i], seq, m.limit, m.budget, W, FALSE)
    BY <2>6, <2>9, StandsAfresh
  <2>11. B.full => B.used >= m.budget \/ i = Len(ranked)
    BY <2>5, <2>8
  <2>12. PagesStand(B, n, m, ranked, seq, place, W)
    BY <2>5, <2>10, <2>11 DEF PagesStand, rows
  <2> QED BY <2>12 DEF B
<1> QED BY <1>2, <1>3

\* The search of PostgreSQL finds the best records first, and nothing else where
\* the records are of one size.
LEMMA PagedSearchIsClose ==
    ASSUME NEW m, m.limit \in Nat, m.budget \in Nat, NEW s, NEW W \in SUBSET Ids, NEW ranked \in Seq(W)
    PROVE  /\ PagedSearch(m, s, ranked) \in Seq(Ids)
           /\ IsPrefix(BestOf(Kept(m, s, ranked), m.limit, m.budget), PagedSearch(m, s, ranked))
           /\ (\A i, j \in W : Size[i] = Size[j]) =>
                 PagedSearch(m, s, ranked) = BestOf(Kept(m, s, ranked), m.limit, m.budget)
<1> DEFINE seq == Kept(m, s, ranked)
           N == Len(ranked)
<1>1. PICK place : Follows(place, m, s, ranked, seq) /\ place[N] = Len(seq)
  BY KeptFollows
<1>2. seq \in Seq(W)
  BY KeptFollows
<1> HIDE DEF seq
<1>3. ranked \in Seq(Ids) /\ N \in Nat /\ N \in 0 .. N /\ 0 \in 0 .. N /\ Len(seq) \in Nat
  BY <1>2
<1>4. PICK f : Pages(f, m, s, ranked)
  BY <1>3, PagesAre
<1>5. /\ \A n \in 0 .. N : f[n] \in Found
      /\ f[0] = Nothing /\ PagedSearch(m, s, ranked) = f[N].found
      /\ \A n \in 1 .. N : f[n] = AddPage(m, s, f[n - 1], Page(m, ranked, n))
  BY <1>4 DEF Pages
<1> DEFINE S == {n \in 0 .. N : PagesStand(f[n], n, m, ranked, seq, place, W)}
<1>6. 0 \in S
  <2>1. Stands(Nothing, 0, seq, m.limit, m.budget, W, FALSE)
    BY <1>2, NothingStands
  <2>2. Afresh(Nothing) = Nothing /\ Nothing.full = FALSE /\ place[0] = 0
    BY <1>1 DEF Afresh, Nothing, Follows
  <2>3. 0 = IF 0 * RowsOfPage(m) < Len(ranked) THEN 0 * RowsOfPage(m) ELSE Len(ranked)
    <3>1. RowsOfPage(m) \in Nat
      BY LimitsAssumption DEF RowsOfPage
    <3>2. 0 * RowsOfPage(m) = 0
      BY <3>1
    <3> QED BY <1>3, <3>2
  <2>4. PagesStand(Nothing, 0, m, ranked, seq, place, W)
    BY <1>3, <2>1, <2>2, <2>3 DEF PagesStand
  <2> QED BY <1>3, <1>5, <2>4
<1> HIDE DEF N
<1>7. ASSUME NEW n \in 1 .. N, n - 1 \in S PROVE n \in S
  <2>1. n \in Nat \ {0} /\ n \in 0 .. N /\ n - 1 \in 0 .. N
    BY <1>3
  <2>2. f[n - 1] \in Found /\ PagesStand(f[n - 1], n - 1, m, ranked, seq, place, W)
    BY <1>5, <1>7, <2>1
  <2>3. PagesStand(AddPage(m, s, f[n - 1], Page(m, ranked, n)), n, m, ranked, seq, place, W)
    BY <1>1, <1>2, <2>1, <2>2, PageGoesOn
  <2> QED BY <1>5, <2>1, <2>3
<1>8. N \in S
  <2> HIDE DEF S
  <2>1. S \in SUBSET (0 .. N)
    BY DEF S
  <2> QED BY <1>3, <1>6, <1>7, <2>1, Through
<1> DEFINE A == f[N]
<1>9. A \in Found /\ PagesStand(A, N, m, ranked, seq, place, W)
  BY <1>3, <1>5, <1>8
<1> HIDE DEF A, S
<1>10. PICK j \in 0 .. N :
         /\ Stands(Afresh(A), place[j], seq, m.limit, m.budget, W, FALSE)
         /\ A.full => A.used >= m.budget \/ j = N
         /\ \/ A.full
            \/ Len(A.found) >= m.limit
            \/ j = IF N * RowsOfPage(m) < N THEN N * RowsOfPage(m) ELSE N
  BY <1>9 DEF PagesStand, N
<1>11. ~(N * RowsOfPage(m) < N)
  <2>1. RowsOfPage(m) \in Nat \ {0}
    BY LimitsAssumption DEF RowsOfPage
  <2>2. \A a \in Nat, b \in Nat \ {0} : ~(a * b < a)
    OBVIOUS
  <2> QED BY <1>3, <2>1, <2>2
<1>12. Len(A.found) >= m.limit \/ A.used >= m.budget \/ place[j] = Len(seq)
  BY <1>1, <1>10, <1>11
<1> DEFINE G == Afresh(A)
           n == place[j]
<1>13. G \in Found /\ G.found = A.found /\ G.used = A.used
  BY <1>9 DEF Found, Afresh
<1>14. n \in 0 .. Len(seq)
  BY <1>1, <1>10 DEF Follows, N
<1>15. n = Len(seq) \/ n >= m.limit \/ G.used >= m.budget \/ Len(G.found) >= m.limit
  BY <1>12, <1>13
<1>16. Stands(G, n, seq, m.limit, m.budget, W, FALSE) /\ FALSE \in BOOLEAN
  BY <1>10
<1> HIDE DEF G, n
<1>17. /\ IsPrefix(BestOf(seq, m.limit, m.budget), G.found)
       /\ (\A a, b \in W : Size[a] = Size[b]) => G.found = BestOf(seq, m.limit, m.budget)
  <2>1. seq \in Seq(W) /\ n \in 0 .. Len(seq) /\ G \in Found /\ m.limit \in Nat /\ m.budget \in Nat
    BY <1>2, <1>13, <1>14
  <2> HIDE DEF seq
  <2> DEFINE once == FALSE
  <2>2. once \in BOOLEAN /\ Stands(G, n, seq, m.limit, m.budget, W, once)
    BY <1>16
  <2> HIDE DEF once
  <2>3. /\ IsPrefix(BestOf(seq, m.limit, m.budget), G.found)
        /\ once \/ (\A x, y \in W : Size[x] = Size[y]) => G.found = BestOf(seq, m.limit, m.budget)
    BY <1>15, <2>1, <2>2, SearchEnds
  <2> QED BY <2>3
<1>18. PagedSearch(m, s, ranked) = A.found /\ A.found \in Seq(Ids)
  BY <1>5, <1>9 DEF A, Found
<1> QED BY <1>13, <1>17, <1>18 DEF seq

LEMMA SizesAreEven ==
    ASSUME NEW W \in SUBSET Ids, Cardinality({Size[i] : i \in W}) = 1
    PROVE  \A i, j \in W : Size[i] = Size[j]
<1> DEFINE S == {Size[i] : i \in W}
<1>1. IsFiniteSet(W)
  BY IdsAssumption, FS_Subset
<1>2. IsFiniteSet(S)
  <2> DEFINE f == [i \in W |-> Size[i]]
  <2>1. f \in Surjection(W, S)
    BY DEF Surjection
  <2> HIDE DEF f, S
  <2> QED BY <1>1, <2>1, FS_Surjection
<1>3. Cardinality(S) = 1
  OBVIOUS
<1> HIDE DEF S
<1>4. PICK x : S = {x}
  BY <1>2, <1>3, FS_Singleton
<1> QED BY <1>4 DEF S

\* What a search promises of its answer a in a shard with the documents s.
Exact(a, m, s, inPostgres) ==
    /\ IsPrefix(Best(m, s), a)
    /\ ~inPostgres \/ Cardinality({Size[i] : i \in m.words}) = 1 => a = Best(m, s)

\* What the agents are told is records, and what a search finds is exact.
LEMMA AnswerIs ==
    ASSUME NEW m \in Commands, m.op \in Reads, NEW s \in SUBSET Document, CanAnswer(m, s)
    PROVE  /\ Answer(m, s) \in Seq(Ids)
           /\ m.op = "search" => Exact(Answer(m, s), m, s, Postgres)
<1>1. UsedIds(s) \subseteq Ids /\ RecordIds(s) \subseteq Ids
  BY DEF UsedIds, RecordIds, Records, Document
<1>2. ASSUME NEW S \in SUBSET Ids PROVE Ascending(S) \in Seq(S) /\ Ascending(S) \in Seq(Ids)
  <2>1. Ascending(S) \in Seq(S)
    BY AscendingIs
  <2> QED BY <2>1
<1>3. CASE m.op = "get"
  <2>1. m.id \in Ids
    BY <1>1, <1>3 DEF CanAnswer
  <2> QED BY <1>3, <2>1 DEF Answer
<1>4. CASE m.op = "list"
  <2> DEFINE S == {i \in RecordIds(s) : Shown(m, s, i)}
             q == Reverse(Ascending(S))
  <2>1. Ascending(S) \in Seq(Ids)
    BY <1>1, <1>2
  <2>2. q \in Seq(Ids)
    <3> HIDE DEF S
    <3> QED BY <2>1 DEF Reverse
  <2>3. m.limit \in Nat
    BY <1>4, CommandsAssumption
  <2>4. Answer(m, s) = First(m.limit, q)
    BY <1>4 DEF Answer
  <2> HIDE DEF q
  <2>5. First(m.limit, q) \in Seq(Ids)
    BY <2>2, <2>3 DEF First
  <2> QED BY <1>4, <2>4, <2>5
<1>5. CASE m.op = "preview"
  <2>1. m.documents \subseteq Document
    BY <1>5, CommandsAssumption
  <2>2. UsedIds(m.documents) \subseteq Ids
    BY <2>1 DEF UsedIds, Document
  <2>3. Ascending(UsedIds(m.documents)) \in Seq(Ids)
    BY <1>2, <2>2
  <2> QED BY <1>5, <2>3 DEF Answer
<1>6. CASE m.op \in {"validate", "export"}
  <2>1. Ascending(UsedIds(s)) \in Seq(Ids)
    BY <1>1, <1>2
  <2>2. Answer(m, s) = Ascending(UsedIds(s))
    BY <1>6 DEF Answer
  <2> QED BY <1>6, <2>1, <2>2
<1>7. CASE m.op = "search"
  <2> DEFINE W == RecordIds(s) \cap m.words
             ranked == Ascending(W)
             best == BestOf(Kept(m, s, ranked), m.limit, m.budget)
  <2>1. m.limit \in Nat /\ m.budget \in Nat /\ m.words \in SUBSET Ids
    BY <1>7, CommandsAssumption
  <2>2. W \in SUBSET Ids /\ W \subseteq m.words
    BY <2>1
  <2>3. ranked \in Seq(W)
    BY <1>2, <2>2
  <2>4. Best(m, s) = best
    BY DEF Best, BestOf, Fitting
  <2>5. {x.id : x \in Texts(s)} \cap m.words = W
    BY DEF Texts, RecordIds
  <2>6. Answer(m, s) = IF Postgres THEN PagedSearch(m, s, ranked) ELSE CacheSearch(m, s, ranked)
    BY <1>7, <2>5 DEF Answer
  <2> HIDE DEF ranked, W, best
  <2>7. CASE ~Postgres
    <3>1. Answer(m, s) \in Seq(Ids) /\ Answer(m, s) = best
      BY <2>1, <2>2, <2>3, <2>6, <2>7, CacheSearchIsExact DEF best
    <3>2. IsPrefix(best, best)
      <4>1. SubSeq(best, 1, Len(best)) = SubSeq(best, 1, Len(best)) /\ Len(best) <= Len(best)
        BY <3>1
      <4> QED BY <4>1 DEF IsPrefix
    <3> QED BY <2>4, <3>1, <3>2 DEF Exact
  <2>8. CASE Postgres
    <3>1. /\ Answer(m, s) \in Seq(Ids) /\ IsPrefix(best, Answer(m, s))
          /\ (\A i, j \in W : Size[i] = Size[j]) => Answer(m, s) = best
      BY <2>1, <2>2, <2>3, <2>6, <2>8, PagedSearchIsClose DEF best
    <3>2. Cardinality({Size[i] : i \in m.words}) = 1 => \A i, j \in W : Size[i] = Size[j]
      <4>1. Cardinality({Size[i] : i \in m.words}) = 1 => \A i, j \in m.words : Size[i] = Size[j]
        BY <2>1, SizesAreEven
      <4> QED BY <2>2, <4>1
    <3> QED BY <2>4, <2>8, <3>1, <3>2 DEF Exact
  <2> QED BY <2>7, <2>8
<1> QED BY <1>3, <1>4, <1>5, <1>6, <1>7 DEF Reads

-------------------------------------------------------------------------------
(* A search finds the best.                                                   *)

(* What a call that reads is about to return, and what it returned, is what   *)
(* the documents of the shard say: nothing is committed between the two.      *)
AnswerInv ==
    /\ answer \in Seq(Ids)
    /\ phase \in {"apply", "reload", "synchronize"} => command.op \in Changes
    /\ phase = "read" => command.op \notin Changes
    /\ phase = "return" /\ command.op \notin Changes => batch = {}
    /\ phase = "return" /\ command.op = "search" /\ edits = 0 => Exact(answer, command, stored, Postgres)
    /\ Told({"read"}) /\ outcome.command.op = "search" =>
          Exact(outcome.answer, outcome.command, stored, Postgres)

LEMMA InitAnswers == Init => AnswerInv
BY DEF Init, AnswerInv, Told

\* A step that answers nothing and leaves the documents, or a call over, as they were.
LEMMA AnswerKeeps ==
    ASSUME AnswerInv, Inv, UNCHANGED <<backend, edits, answer, command, batch, outcome>>,
           outcome = None \/ stored' = stored,
           \/ phase' = phase /\ (phase = "return" => stored' = stored)
           \/ phase' \in {"operate", "apply", "reload", "synchronize", "return"} /\ command.op \in Changes
    PROVE  AnswerInv'
<1>1. Postgres' = Postgres
  BY DEF Postgres
<1>2. command.op \in Changes => command.op # "search"
  BY DEF Changes
<1>3. /\ answer' \in Seq(Ids)
      /\ phase' \in {"apply", "reload", "synchronize"} => command'.op \in Changes
      /\ phase' = "read" => command'.op \notin Changes
      /\ phase' = "return" /\ command'.op \notin Changes => batch' = {}
  BY DEF AnswerInv
<1>4. phase' = "return" /\ command'.op = "search" /\ edits' = 0 => Exact(answer', command', stored', Postgres')
  BY <1>1, <1>2 DEF AnswerInv
<1>5. (Told({"read"}))' /\ outcome'.command.op = "search" => Exact(outcome'.answer, outcome'.command, stored', Postgres')
  BY <1>1 DEF AnswerInv, Told
<1> QED BY <1>3, <1>4, <1>5 DEF AnswerInv

\* A call begins, or begins again, or is gone: it has answered nothing.
LEMMA AnswerBegins ==
    ASSUME AnswerInv, phase' \in {"idle", "begin", "operate", "read"},
           phase' = "read" => command'.op \notin Changes,
           answer' \in Seq(Ids), outcome' = None
    PROVE  AnswerInv'
BY DEF AnswerInv, Told

\* A call ends; what it read is what it tells.
LEMMA AnswerTold ==
    ASSUME AnswerInv, NEW claim, NEW late, Tell(claim, late), Over, backend' = backend, edits' = edits,
           claim = "read" => phase = "return" /\ stored' = stored
    PROVE  AnswerInv'
<1>1. /\ phase' = "idle" /\ answer' = <<>>
      /\ outcome' = [command |-> command, docs |-> batch, claim |-> claim, answer |-> answer, late |-> late]
  BY DEF Tell, Over
<1>2. outcome'.command = command /\ outcome'.claim = claim /\ outcome'.answer = answer
  BY <1>1
<1>3. Postgres' = Postgres
  BY DEF Postgres
<1>4. (Told({"read"}))' /\ outcome'.command.op = "search" => Exact(outcome'.answer, outcome'.command, stored', Postgres')
  <2> SUFFICES ASSUME (Told({"read"}))', command.op = "search" PROVE Exact(answer, command, stored, Postgres)
    BY <1>2, <1>3 DEF Told
  <2> QED BY <1>2 DEF Told, AnswerInv
<1>5. answer' \in Seq(Ids)
  BY <1>1
<1> QED BY <1>1, <1>4, <1>5 DEF AnswerInv

LEMMA AnswerEnds ==
    ASSUME AnswerInv, NEW claim, End(claim), backend' = backend, edits' = edits,
           claim = "read" => phase = "return" /\ stored' = stored
    PROVE  AnswerInv'
BY AnswerTold DEF End

LEMMA AnswerPreserved == ASSUME AnswerInv, Inv, [Next]_vars PROVE AnswerInv'
<1> USE DEF schema, transaction, call
<1>0. Fail => AnswerInv'
  BY AnswerEnds DEF Fail
<1>o. phase # "idle" => outcome = None /\ command \in Commands
  BY DEF Inv, OutcomeInv, Typed
<1>a. answer \in Seq(Ids)
  BY DEF AnswerInv
<1>1. ASSUME NEW a \in Agents, EnsureSchema(a) PROVE AnswerInv'
  BY <1>1, AnswerKeeps DEF EnsureSchema
<1>2. ASSUME NEW a \in Agents, SchemaFails(a) PROVE AnswerInv'
  <2>1. phase' = "idle" /\ outcome' = None /\ answer' = answer
    BY <1>2 DEF SchemaFails
  <2> QED BY <1>a, <2>1, AnswerBegins
<1>3. ASSUME NEW a \in Agents, NEW m \in Commands, Call(a, m) PROVE AnswerInv'
  <2>1. phase' = FirstPhase(m) /\ command' = m /\ answer' = <<>> /\ outcome' = None
    BY <1>3 DEF Call
  <2>2. FirstPhase(m) \in {"begin", "operate", "read"} /\ (FirstPhase(m) = "read" => m.op \notin Changes)
    BY DEF FirstPhase
  <2> QED BY <2>1, <2>2, AnswerBegins
<1>4. CASE Begin
  <2>1. phase = "begin" /\ command.op \in Changes
    BY <1>4 DEF Begin, Inv, Typed
  <2>2. CASE GoOn("operate")
    <3>1. phase' = "operate" /\ UNCHANGED <<backend, edits, answer, command, batch, outcome, stored>>
      BY <1>4, <2>2 DEF Begin, GoOn
    <3> QED BY <2>1, <3>1, AnswerKeeps
  <2> QED BY <1>0, <1>4, <2>2 DEF Begin
<1>5. CASE Operate
  <2>1. phase = "operate" /\ command.op \in Changes /\ outcome = None
    BY <1>5, <1>o DEF Operate, Inv, Typed
  <2>2. CASE phase' = "apply" /\ UNCHANGED <<answer, command, outcome>>
    <3>1. command.op # "search"
      BY <2>1 DEF Changes
    <3> QED BY <1>a, <2>1, <2>2, <3>1 DEF AnswerInv, Told
  <2> QED BY <1>0, <1>5, <2>2 DEF Operate
<1>6. CASE Apply
  <2>1. phase = "apply" /\ command.op \in Changes /\ outcome = None
    BY <1>6, <1>o DEF Apply, AnswerInv
  <2>2. CASE phase' = "reload" /\ UNCHANGED <<command, batch, answer, outcome>>
    <3>1. UNCHANGED <<backend, edits, answer, command, batch, outcome>>
      BY <1>6, <2>2 DEF Apply
    <3> QED BY <2>1, <2>2, <3>1, AnswerKeeps
  <2> QED BY <1>0, <1>6, <2>2 DEF Apply
<1>7. CASE Reload
  <2>1. phase = "reload" /\ command.op \in Changes
    BY <1>7 DEF Reload, AnswerInv
  <2>2. ASSUME NEW p \in {"synchronize", "return"}, GoOn(p) PROVE AnswerInv'
    <3>1. phase' = p /\ UNCHANGED <<backend, edits, answer, command, batch, outcome, stored>>
      BY <1>7, <2>2 DEF Reload, GoOn
    <3> QED BY <2>1, <3>1, AnswerKeeps
  <2> QED BY <1>0, <1>7, <2>2 DEF Reload
<1>8. CASE Synchronize
  <2>1. phase = "synchronize" /\ command.op \in Changes
    BY <1>8 DEF Synchronize, AnswerInv
  <2>2. phase' = "return" /\ UNCHANGED <<backend, edits, answer, command, batch, outcome, stored>>
    BY <1>8 DEF Synchronize
  <2> QED BY <2>1, <2>2, AnswerKeeps
<1>9. CASE Read
  <2>1. /\ phase = "read" /\ command.op \notin Changes /\ outcome = None /\ command \in Commands
        /\ batch = {} /\ Visible = stored /\ stored \in SUBSET Document
    BY <1>9, <1>o DEF Read, AnswerInv, Inv, TransactionInv, Typed, Visible
  <2>2. command.op \in Reads
    BY <2>1, CommandsAssumption
  <2>3. ASSUME CanAnswer(command, stored), answer' = Answer(command, stored), phase' = "return",
               UNCHANGED <<backend, edits, stored, command, batch, outcome>>
        PROVE  AnswerInv'
    <3>1. Postgres' = Postgres
      BY <2>3 DEF Postgres
    <3>2. answer' \in Seq(Ids) /\ (command.op = "search" => Exact(answer', command', stored', Postgres'))
      BY <2>1, <2>2, <2>3, <3>1, AnswerIs
    <3> QED BY <2>1, <2>3, <3>2 DEF AnswerInv, Told
  <2> QED BY <1>0, <1>9, <2>1, <2>3 DEF Read
<1>10. CASE Return
  <2> DEFINE claim == IF command.op \in Changes THEN "stored" ELSE "read"
  <2>1. phase = "return" /\ End(claim) /\ backend' = backend /\ edits' = edits
    BY <1>10 DEF Return
  <2>2. ASSUME command.op \notin Changes PROVE stored' = stored
    <3>1. batch = {} /\ pending = {}
      BY <2>1, <2>2 DEF AnswerInv, Inv, TransactionInv, Published
    <3> QED BY <1>10, <3>1 DEF Return, Commits, Visible
  <2>3. claim = "read" => command.op \notin Changes
    OBVIOUS
  <2> HIDE DEF claim
  <2> QED BY <2>1, <2>2, <2>3, AnswerEnds
<1>11. CASE SynchronizeFails
  <2>1. phase \in {"reload", "synchronize"} /\ command.op \in Changes /\ UNCHANGED <<backend, edits, stored>>
    BY <1>11 DEF SynchronizeFails, AnswerInv
  <2>2. CASE End("committed")
    BY <2>1, <2>2, AnswerEnds
  <2>3. CASE phase' = "return" /\ UNCHANGED <<command, batch, answer, outcome>>
    BY <2>1, <2>3, AnswerKeeps
  <2> QED BY <1>11, <2>2, <2>3 DEF SynchronizeFails, IndexFails
<1>12. CASE QueryFails
  BY <1>0, <1>12 DEF QueryFails
<1>19. CASE FailsLate
  <2>1. Tell("failed", TRUE) /\ Over /\ UNCHANGED <<backend, edits>>
    BY <1>19 DEF FailsLate
  <2> QED BY <2>1, AnswerTold
<1>13. CASE Retry
  <2>1. phase # "idle" /\ phase' = FirstPhase(command) /\ UNCHANGED <<command, answer, outcome>>
    BY <1>13 DEF Retry
  <2>2. FirstPhase(command) \in {"begin", "operate", "read"} /\ (FirstPhase(command) = "read" => command.op \notin Changes)
    BY DEF FirstPhase
  <2> QED BY <1>a, <1>o, <2>1, <2>2, AnswerBegins
<1>14. CASE CommitIsLost
  <2>1. End("lost") /\ UNCHANGED <<backend, edits>>
    BY <1>14 DEF CommitIsLost
  <2> QED BY <2>1, AnswerEnds
<1>15. CASE Cancel
  <2>1. UNCHANGED <<backend, edits, answer, command, batch, outcome, stored, phase>>
    BY <1>15 DEF Cancel
  <2> QED BY <2>1, AnswerKeeps
<1>16. CASE Kill
  <2>1. phase' = "idle" /\ outcome' = None /\ answer' = <<>>
    BY <1>16 DEF Kill, Over
  <2> QED BY <2>1, AnswerBegins
<1>17. ASSUME NEW e \in Edits, ByHand(e) PROVE AnswerInv'
  <2>1. edits' # 0
    BY <1>17 DEF ByHand, Inv, Typed
  <2>2. UNCHANGED <<answer, phase, command, batch>>
    BY <1>17 DEF ByHand
  <2> QED BY <2>1, <2>2 DEF AnswerInv, Told
<1>18. CASE UNCHANGED vars
  <2>1. UNCHANGED <<backend, edits, answer, command, batch, outcome, stored, phase>>
    BY <1>18 DEF vars
  <2> QED BY <2>1, AnswerKeeps
<1> QED BY <1>1, <1>2, <1>3, <1>4, <1>5, <1>6, <1>7, <1>8, <1>9, <1>10, <1>11, <1>12, <1>13, <1>14,
      <1>15,
           <1>16, <1>17, <1>18, <1>19 DEF Next

\* A search answers with the best records, however the index was left by a
\* migration, a failure or a kill, and however many rows of a page are filtered
\* out (collectSearchResults, searchShard); and every answer names records.
THEOREM SearchesFindTheBest == Spec => []SearchesAreExact
<1>1. Init => AnswerInv
  BY InitAnswers
<1>2. AnswerInv /\ Inv /\ [Next]_vars => AnswerInv'
  BY AnswerPreserved
<1>3. AnswerInv => SearchesAreExact
  BY DEF AnswerInv, SearchesAreExact, Exact
<1> QED BY <1>1, <1>2, <1>3, Invariance, PTL DEF Spec

-------------------------------------------------------------------------------
(* Types, and all that the run checks of the outcomes. *)

LEMMA InitTypes == Init => TypeOK
<1> SUFFICES ASSUME Init PROVE TypeOK
  OBVIOUS
<1>1. PICK s \in Starts : stored = s.docs /\ index = s.index /\ migrated = s.migrated
  BY DEF Init
<1>2. stored \subseteq Document /\ index \subseteq Document /\ migrated \in BOOLEAN
  BY <1>1, StartsAssumption
<1>3. /\ backend \in Backends /\ ready = {} /\ holder = None /\ command = None /\ phase = "idle" /\ batch = {}
      /\ cancelled = FALSE /\ pending = {} /\ repaired = FALSE /\ broken = FALSE /\ attempt = 0
      /\ outcome = None /\ faults = 0 /\ edits = 0
  BY DEF Init
<1>4. faults \in 0 .. MaxFaults /\ edits \in 0 .. MaxEdits
  BY <1>3, BoundsAssumption
<1> QED BY <1>2, <1>3, <1>4 DEF TypeOK, Phases

\* What the steps leave as it was for the types of documents: see Typed and
\* TransactionInv.  The others, and that a call under way has a holder.
Booked ==
    /\ backend \in Backends
    /\ index \subseteq Document /\ migrated \in BOOLEAN /\ ready \subseteq Agents
    /\ repaired \in BOOLEAN /\ broken \in BOOLEAN /\ attempt \in {0, 1}
    /\ holder \in Agents \cup {None} /\ command \in Commands \cup {None}
    /\ phase \in Phases /\ cancelled \in BOOLEAN
    /\ holder = None <=> phase = "idle"
    /\ outcome # None => outcome.claim \in Claims /\ outcome.docs \subseteq Document /\ outcome.late \in BOOLEAN
    /\ faults \in 0 .. MaxFaults /\ edits \in 0 .. MaxEdits

LEMMA TypesAre == TypeOK /\ Inv <=> Booked /\ Inv
BY DEF TypeOK, Booked, Inv, Typed, TransactionInv, Published, Phases

LEMMA TellBooked ==
    ASSUME Booked, Inv, NEW claim \in Claims, NEW late \in BOOLEAN, Tell(claim, late), Over,
           UNCHANGED <<backend, migrated, edits>>, ready' \subseteq ready,
           index' \subseteq Document, faults' \in 0 .. MaxFaults
    PROVE  Booked'
<1>1. outcome' = [command |-> command, docs |-> batch, claim |-> claim, answer |-> answer, late |-> late]
  BY DEF Tell
<1>2. outcome'.claim \in Claims /\ outcome'.docs \subseteq Document /\ outcome'.late \in BOOLEAN
  BY <1>1 DEF Inv, Typed
<1> QED BY <1>2 DEF Booked, Over, Phases

LEMMA EndBooked ==
    ASSUME Booked, Inv, NEW claim \in Claims, End(claim),
           UNCHANGED <<backend, migrated, edits>>, ready' \subseteq ready,
           index' \subseteq Document, faults' \in 0 .. MaxFaults
    PROVE  Booked'
BY TellBooked DEF End

LEMMA FaultBound == ASSUME Booked, Fault PROVE faults' \in 0 .. MaxFaults
BY BoundsAssumption DEF Booked, Fault

LEMMA BookedPreserved == ASSUME Booked, Inv, Inv', [Next]_vars PROVE Booked'
<1> USE DEF schema, transaction, call
<1>d. stored \subseteq Document /\ batch \subseteq Document /\ pending \subseteq Document
      /\ stored' \subseteq Document /\ Postgres \in BOOLEAN
  BY DEF Inv, Typed, TransactionInv, Published, Booked, Phases
<1>0. ASSUME Fail, UNCHANGED faults \/ Fault PROVE Booked'
  BY <1>0, EndBooked, FaultBound DEF Fail, Claims, Booked
<1>1. ASSUME NEW a \in Agents, EnsureSchema(a) \/ SchemaFails(a) PROVE Booked'
  BY <1>1, FaultBound DEF EnsureSchema, SchemaFails, Booked
<1>2. ASSUME NEW a \in Agents, NEW m \in Commands, Call(a, m) PROVE Booked'
  BY <1>2, NothingAssumption DEF Call, FirstPhase, Booked, Phases
<1>3. CASE Begin
  BY <1>0, <1>3 DEF Begin, GoOn, Booked, Phases
<1>4. CASE Operate
  BY <1>0, <1>4 DEF Operate, Booked, Phases
<1>5. CASE Apply
  BY <1>0, <1>5 DEF Apply, Booked, Phases
<1>6. CASE Reload
  BY <1>0, <1>6 DEF Reload, GoOn, Booked, Phases
<1>7. CASE Synchronize
  BY <1>d, <1>7 DEF Synchronize, UpToDate, Booked, Phases, Visible
<1>8. CASE Read
  BY <1>d, <1>0, <1>8 DEF Read, UpToDate, Booked, Phases, Visible
<1>9. Commits => index' \subseteq Document
  BY <1>d DEF Commits, Records, Visible, Booked
<1>10. CASE Return
  BY <1>9, <1>10, EndBooked DEF Return, Claims, Booked
<1>11. CASE SynchronizeFails
  <2>1. CASE command.op = "import"
    BY <1>11, <2>1, <1>d, FaultBound DEF SynchronizeFails, IndexFails, Booked, Phases
  <2>2. CASE End("committed")
    BY <1>11, <2>2, EndBooked, FaultBound DEF SynchronizeFails, Booked, Claims
  <2> QED BY <1>11, <2>1, <2>2 DEF SynchronizeFails, IndexFails
<1>12. CASE QueryFails
  BY <1>0, <1>12 DEF QueryFails
<1>19. CASE FailsLate
  BY <1>19, TellBooked, FaultBound DEF FailsLate, Booked, Claims
<1>13. CASE Retry
  BY <1>13, FaultBound DEF Retry, FirstPhase, Booked, Phases
<1>14. CASE CommitIsLost
  BY <1>9, <1>14, EndBooked, FaultBound DEF CommitIsLost, Booked, Claims
<1>15. CASE Cancel
  BY <1>15 DEF Cancel, Booked
<1>16. CASE Kill
  BY <1>16, FaultBound DEF Kill, Over, Booked, Phases
<1>17. ASSUME NEW e \in Edits, ByHand(e) PROVE Booked'
  BY <1>17, BoundsAssumption DEF ByHand, Booked
<1>18. CASE UNCHANGED vars
  BY <1>18 DEF vars, Booked
<1> QED BY <1>1, <1>2, <1>3, <1>4, <1>5, <1>6, <1>7, <1>8, <1>10, <1>11, <1>12, <1>13, <1>14, <1>15,
           <1>16, <1>17, <1>18, <1>19 DEF Next

\* Every variable but the answer keeps its type; that one's is in SearchesAreExact.
THEOREM MemoryTypes == Spec => []TypeOK
<1>1. Init => Booked
  BY InitTypes, InitInv, TypesAre
<1>2. Booked /\ Inv /\ Inv' /\ [Next]_vars => Booked'
  BY BookedPreserved
<1>3. Booked /\ Inv => TypeOK
  BY TypesAre
<1> QED BY <1>1, <1>2, <1>3, Invariance, PTL DEF Spec

\* What every call tells its caller about its documents is true, on both backends
\* and whatever fails, except what PostgreSQL says of an index that failed and
\* a failure of the file system behind the commit point, which hides the batch.
THEOREM OutcomesAreTrue == Spec => []OutcomesInv
<1>1. TypeOK /\ FailureIsAbsentOrLate /\ ReturnedIsStored /\ StaysReadable /\ (~Postgres => CommittedIsStored)
      => OutcomesInv
  BY DEF OutcomesInv, Postgres
<1> QED BY <1>1, MemoryTypes, FailedIsAbsentOrLate, ReturnedIsCommitted, ShardStaysReadable,
      FilesAreCommitted, PTL
===============================================================================
