# Verification of Neottia's repository stores

Neottia keeps issues, design documents, agent memory, fetched pages and its own
installation as plain files in a repository, and lets several agents, several
processes and any number of crashes loose on them. This directory holds TLA+
models of the parts that decide whether those files survive and whether what is
answered and installed is what was asked for, the TLC configurations that check
them on small instances, and proofs for TLAPS of what matters most.

Contents: 1 the system; 2 the plan; 3 the modules and the code they model;
4 the runs, their bounds, what they show; 5 fairness; 6 proofs; 7 where code
and text disagree; 8 what the models leave out; 9 how to run it.

## 1. The system

Paths are relative to `packages/` of the repository. A *root* is a managed
directory; an *authority* is what a lease is taken for.

| component | state it keeps | operations | hard behaviour | correct when |
|---|---|---|---|---|
| **repository-store: transactions** `repository-store/src/transaction/*`, `internal/publication.ts`, `files.ts` | canonical files; private temporaries and evacuations beside them; one journal directory per batch, `.prepare` → `.active` → `.committed` → `.cleanup` | `applyCanonicalBatch`, `recoverCanonicalTransactions`, `publishExactRegularFile` | kill or power loss between any two system calls, failing calls, operator edits at any time, recovery of an interrupted recovery | a batch happens entirely or not at all; an acknowledged one stays; bytes of an operator are never dropped; a journal does not stay for ever |
| **repository-store: authority lease** `repository-store/src/lease.ts` | `authority.lease` (a directory with `owner.json`, or on FreeBSD a file), `authority.claim`, names put aside as `.release-<token>`, `host-id` | `withRepositoryLease`: acquire, take over, release, clean up an interrupted acquisition | names that change between inspection and rename; processes that die half way; stale times | one callback at a time; a live lease is not deleted; whoever waits is served |
| **repository-store: authority queue** `lease.ts` (`enqueueAuthority`, `waitForAuthorityTurn`, `track`, …) | a tail promise per authority, gates, `LeaseState`, tracked operations | the same call, inside one process | calls that give up in the queue, the tail being removed, nested calls, operations nobody awaits | first come first served, one at a time, no operation outlives its lease, no call waits for itself |
| **repository-store: SQLite cache** `repository-store/src/sqlite/*` | a database file with sidecars, a candidate, a publication manifest | open, verify, rebuild, publish, recover, remove | crash during publication, substituted files, sidecars of another database | an old or a new whole cache, never a mixture |
| **issues** `issues/src/*` | one YAML file per issue, active or archived; a search cache | create, import, update, comment, relate, unrelate, link, unlink, archive, restore, get, list, search, export | stale evidence, edits between read and batch, calls cut short, dangling links | the graph stays legal; nothing unseen is replaced; comments only grow |
| **design-docs** `design-docs/src/*` | a Markdown file per version, lineages active or archived; a search cache | create, update, transition, version, archive, restore, import, search | as issues, and a life cycle over several files | the catalog stays readable; an approved version is final |
| **issues-design-docs** | none | resolves links under the caller's lease | two stores under one lease | links name documents that exist |
| **memory-core** `memory-core/src/*` | records, tombstones; a file-system or a PostgreSQL backend; a search index | store, supersede, delete, import, preview, get, list, search, validate, export | a commit whose outcome is unknown, two agents retiring one record | what failed is absent, what was returned is stored, a record is retired once, both backends agree |
| **searchable-core: stash, migration** `searchable-core/src/stash.ts`, `migration.ts` | canonical pages by normalized URL, a cache over them | stash, importPages, grep, context, validate, legacy import | edits by hand between two calls, a database its server still writes | answers are of the pages; an import is of one whole snapshot |
| **searchable-core: runtime** `runtime.ts`, `providers.ts`, `fetcher.ts`, `http.ts` | calls in flight | search, fetch, ask, stash calls, close | close, abort and deadline race answers that come late | no call starts or writes after close; every call ends |
| **distribution: installation transactions** `distribution/src/transaction.ts` | planned files, one journal with before-images, a PID lock | `applyInstallationPlan`, `recoverInstallation` | kill between two mutations, a call that fails after its effect, two runs, operator edits | the files are all as planned or all as found; what was reported installed stays |
| **distribution: planner** `planner.ts`, `inspection.ts`, `manifest.ts`, `host-config.ts` | the receipt of what is installed | inspect, plan, approve, uninstall | plans applied late or twice, files edited meanwhile | the user's content is not overwritten unasked; the receipt tells the truth |
| **config** `config/src/*` | files of two layers | resolve, derive | precedence, secrets, a file edited between two reads | the value is the highest layer's, its provenance names that layer |
| **sdlc, harness-adapter, extensions** `sdlc/src/compiler.ts`, `harness-adapter/src/*`, `extensions/*` | none | compile templates for a host, map requests | three template tiers read file by file, three hosts that can do different things | what is compiled is complete and of one reading; what a host cannot do is said |
| **cli** `cli/src/index.ts` | none | init, plan, apply, uninstall, doctor | composes config, sdlc and the planner | — |
| **core, MCP servers, testkit, release scripts, diagnostics** | none | register tools, parse arguments, report | — | — |

How they meet: a tool call of an agent (through an MCP server or an extension)
reaches a store; the store calls `withRepositoryLease`; the call stands in the
authority queue of its process, then competes with other processes for the
lease; its holder first recovers what a dead predecessor left, then runs the
callback, which reads the canonical files, decides, and hands one batch to
`applyCanonicalBatch`; searches go through a cache that is verified against the
canonical files or rebuilt from them. Operators, editors and git change the same
files without asking anyone. The CLI resolves the configuration, compiles the
templates, plans what to install and applies the plan with a transaction of its own.

`PROJECT.json` lists these components with their status, and the hazards of the
code at their lines with the properties that watch them.

## 2. Plan

The order is by what the rest stands on: the batch, the lease, the queue, then
the stores that use them, then what is compiled and installed.

| step | modules | abstract specification | proved | left |
|---|---|---|---|---|
| 1 | DurableFiles, RepositoryTransaction | AtomicBatch | everything but liveness | — |
| 2 | RepositoryLease, FileLease, AuthorityLease | exclusion and survival as invariants | both platforms, every invariant | — |
| 3 | AuthorityQueue | FIFO as invariants | order, exclusion, operations | — |
| 4 | InstallationTransaction | AtomicBatch, again | one run at a time, all or nothing, the refinement | — |
| 5 | IssueStore | — | the graph is legal; what is replaced was seen | — |
| 6 | DesignDocumentStore | — | readable catalog, links, life cycle, evidence | — |
| 7 | MemoryStore, two backends | MemoryLedger | the refinement; outcomes are true; searches find the best | — |
| 8 | SearchCache, CacheVerification | reference definitions | exact answers, survival, clean-up; verification accepts exactly the projection | — |
| 9 | SearchableStash, SearchableRuntime | — | close, greps, imports and stashes | — |
| 10 | ConfigResolver, SdlcCompiler, HarnessAdapters, InstallationPlanner, NeottiaApply | reference definitions | the planner: what installing leaves, approvals; snapshots are whole; a lifecycle is complete, usable and in place; the adapters' contract | — |

## 3. Modules and the code they model

`PROJECT.json` maps every definition that models code to its lines.

### DurableFiles (`internal/publication.ts`, as the file system serves it)

The directory of one canonical path: four slots (`dest`, `tmp`, `evac` and the
private names of a nested publication), each holding a revision and an inode.
`cur` is what processes see, `dur` the set of states the disk may have after a
power loss: every change adds the states it allows, `SyncDirectory` leaves the
current one. Directories lose independently; a file's bytes are durable once
`WriteAndSyncFile` was called. The revision `Torn` is a write that was cut short.

### RepositoryTransaction (`apply.ts`, `recovery.ts`, `journal.ts`, `publication.ts`)

One action per file-system call that changes something; adjacent reads go with
the step they guard. `pc` names the call about to be made, `mode` whether it is
`applyCanonicalBatch` (apply), the rollback in its catch block (inline) or
`recoverCanonicalTransactions` (recover), `k` the path of the batch, `src` and
`exp` the source of the publication and the file it must meet.

* The journal is one directory with a suffix (`phase`), its artifacts (`full`)
  and what is durable of both. `residue` is the journal of an earlier committed
  batch whose cleanup was swallowed, beside which a new batch may begin.
* `Begin` is `applyCanonicalBatch` up to the journal: its guard is the preflight
  (every path still has the revision the caller expects, is linked once, …);
  a batch that preflight refuses changes nothing and is not a step.
* Every call may fail (`CallFails`) before or after its effect, and then takes
  the catch blocks the code has; `verdict` is the innermost reason for giving up.
* `Kill` is SIGKILL between two steps, `PowerLoss` loses a choice of what was
  not synchronized, `OperatorEdit` replaces a canonical file.
* `AtomicMove = FALSE` makes `renameNoReplace` the `link` and `unlink` of
  `native/freebsd_backend.cc`.
* The caller treats a batch that failed as the end of its callback.
* `committed`, `touched`, `foreign` are history.

### AtomicBatch

What both transaction engines promise: a `store` of values; a batch takes it to
its target in one step or leaves it; once the caller was told that the batch is
in, only another batch changes it. RepositoryTransaction and
InstallationTransaction both implement it under a refinement mapping at the end
of their modules.

### RepositoryLease, FileLease, AuthorityLease (`lease.ts`)

Several processes, each making one attempt, so that a process is its token. A
step is one system call that changes the control directory together with the
reads that it trusts; reads that a *later* call trusts are steps of their own
(`InspectClaim`, `InspectEmpty`, `InspectLock`), which is where the interesting
races are. `seen[p]` is the expectation such a read left behind. A dead owner
is seen dead at once, by the `host-id` that its process left.

* `RepositoryLease` is the directory protocol of Linux, macOS and Windows.
  Objects are named by their creator: the claim at `authority.claim`, the
  directory at `authority.lease`, what was put aside under `.release-<token>`,
  the `owner.json` in each directory, empty or complete. `moved` marks
  directories renamed since their holder captured their identity: their change
  time differs, and release compares it. An empty directory may or may not be
  older than `stale_ms`; with `Prompt` no live process is so slow that its own
  objects become stale. Putting a restoration under a private name and back is
  one step.
* `FileLease` is the protocol of FreeBSD: the lease is a file published as a hard
  link, a rename is a link and an unlink, so a file may have two names at any
  moment. The regime of a history says whether at most one process at a time
  removes a dead owner's lease (`lone`) and whether nobody comes between the two
  calls of a rename (`prompt`). The lstat and the link of a rename are one step, and
  so are a restoration's move and its put-back; the staging write of an attempt
  that then fails is omitted.
* `AuthorityLease` puts the two side by side: one specification, one set of
  promises, whatever the platform.

### AuthorityQueue (`lease.ts`, inside one process)

The calls for one authority: `pred`, `gates` and `settled` are the promise chain,
`tail` the entry of `authorityQueueTails` that the last slot removes. Calls nest
(`parent`, `awaited`), are cancelled by abort or deadline, start tracked
operations, lose their lease, drain and release. Winning the lease is one step
that may fail: AuthorityLease is that step.

### InstallationTransaction (`distribution/src/transaction.ts`)

Runs of the installer with the PID lock (`CreateLock` … `Unlock`), the journal
(`active`, `committed`), checks, writes and verifications per file, the inline
rollback and recovery. A file is its content: `writeAtomic` and `removeFile` are
one step, with a failure before or after their effect. `RemoveLock` takes, as the
code does, whatever lock is there under the name: `reclaims`, a history variable,
counts for each dead run how often a lock was removed in its name.

### IssueStore (`issues/src/store.ts`, `graph.ts`, `catalog.ts`, `codec.ts`)

`Call` takes the lease and reads the catalog, `Finish` proposes, validates and
publishes, `Abort` cuts the call short with the batch applied or not and the
caller not told. Between them operators may edit files and documents may go.
`Applies` and `Proposed` are the operations, `EvidenceHolds` the revision
checks, `Valid` the graph, the limits and the links, `Succeeds` the byte
revisions of the batch. The revision of a file covers the record and whether its
bytes are in canonical layout.

The lease and the batch are one step each, which is what AuthorityLease,
AuthorityQueue and RepositoryTransaction are about. A caller with several
revisions in its hands is several agents; one agent suffices for stale evidence
because `Abort` and `OperatorEdit` leave it behind.

### DesignDocumentStore (`design-docs/src/store.ts`, `catalog.ts`, `issues-design-docs`)

A document is a lineage of files, one per version, all active or all archived. The
shape of a call is that of IssueStore: `Call` reads, `Finish` publishes, `Abort` cuts
short. A file is readable or not and a text ends in blanks or not, which is what
encoding refuses. The issue links are state of the same module: an issue change asks
the resolver about the catalog read under the shared lease.

### MemoryLedger and MemoryStore (`memory-core/src/store.ts`, `backend/*`)

`MemoryLedger` is the promise: memories are only added, a batch at a time, each
retired at most once and by a later one. `MemoryStore` runs the same calls over the
file system (committed where the batch is published) and over PostgreSQL
(committed at the end of the transaction): load and validate, compute, publish,
load again, synchronize the search index, with cancellations, failing queries, the
retry of a transaction, a COMMIT whose answer is lost, kills and edits by hand.
`outcome` is what the caller was told; its field `late` records that the file system failed
behind the commit point (`FailsLate`): the sync that follows the committed mark, or
`loadState` of `store.ts:328`, which is outside the `try` that follows it.

### SearchCache and CacheVerification (`repository-store/src/sqlite/*`, the three domains' caches)

`SearchCache` is the file: opening and verifying, rebuilding in a candidate,
publication with a manifest, removal, with a kill at every program counter and an
edit of the cache path by hand. A file has an identity; one sidecar stands for
`-wal` and `-shm`. `CacheVerification` is how each domain compares the rows with the
canonical projection through queries that may return only a page or a number of
bytes; it holds operators only.

### SearchableStash and SearchableRuntime (`searchable-core/src/*`)

`SearchableStash` has the library calls one step of the lease at a time, and the legacy
database with its server: main file, WAL, inode, and a clock whose ticks are the
granularity of modification times. A search has two predicates, as in the code: `Indexed`,
what the full-text expression matches and the `LIMIT` counts, and `Literal`, what the
filter on the page read again keeps. `SearchableRuntime` extends it with admission and
`close()`, the strategies, redirects and streams of online calls, and interruption: a
deadline, the caller's signal and close's signal are one "may stop at any time" action.

### ConfigResolver, SdlcCompiler, HarnessAdapters, InstallationPlanner, NeottiaApply

One step of `NeottiaApply` is a step of one of three phases over variables of their own.
`ConfigResolver` reads the two files one at a time and merges layers of trees, written
as functions from the paths of leaves. `SdlcCompiler` reads template directories file
by file, forms the context, resolves, checks and renders templates, and projects
assets through `HarnessAdapters`, the guard and the three adapters as pure operators,
to which `AskAdapters` also puts questions the compiler never asks.
`InstallationPlanner` inspects one container at a time, plans, asks for approvals and
applies, over a history of installs, updates and uninstalls; applying is one step,
which is what InstallationTransaction is about.

### MC modules and proofs

`MCRepositoryTransaction`, `MCRepositoryLease`, `MCInstallation`, `MCIssueStore`,
`MCDesignDocumentStore`, `MCMemoryStore`, `MCSearchCache`, `MCSearchableRuntime` and
`MCNeottiaApply` give the constants their values. The modules named `…Proofs` hold the
theorems; AuthorityProofs is about the queue in a process and the lease between processes.

## 4. Runs

Times are those of two workers on a small machine.

| run | instance and bounds | checks | shows |
|---|---|---|---|
| `txn_crash` | 2 paths, 1 batch, 2 kills, 1 failing call, 1 edit; rename is one step | ForeignBytesSurvive, AtomicWithoutPowerLoss, ImplementsAtomicBatch, JournalIsSettled | every callback sees whole batches, foreign bytes are moved and never dropped, the store implements AtomicBatch, and every journal is settled or recovery says why not (35 s) |
| `txn_power` | FreeBSD rename, 2 batches, 2 power losses, 1 edit, no kills or failing calls | BatchIsAtomic, AckedBatchIsCommitted, JournalInv | the order of the syncs is right: canonical names change only under a durable journal, and a power loss leaves one that can be read |
| `lease` | 3 processes, 2 kills; both platforms; regimes as below | AuthorityInv, AuthorityExclusion, AuthoritySurvives, EveryAttemptServed | takeover from the dead is exclusive, a live lease is not deleted, nobody starves (80 s) |
| `queue` | 3 calls, nesting, 1 operation each, lost leases | TurnsInv, EarlierFirst, NobodyWaitsForever | FIFO and exclusion under aborts, and no lasting self-wait |
| `install` | 3 runs, 2 files, 1 failing call; in sequence with 2 kills, or together with 1 kill or 1 edit | InstallInv, AllOrNothing, ImplementsAtomicBatch | until the lock of one dead run is reclaimed twice: one run at a time, all files or none after recovery; unknown content stops a rollback (60 s) |
| `issues` | epic, story, task, bug; 12 calls; 1 edit; 1 comment per issue | IssuesInv, WhatIsReplacedWasSeen, DanglingLinksGo | the graph stays legal under any sequence of calls; nothing unseen is replaced and comments only grow; a dangling link can be removed (60 s) |
| `documents` | 2 agents, 2 documents, 2 versions, 1 edit | CatalogStaysReadable, LinksNeverDangle, ApprovedStays, ChangesWereSeen | the calls leave a catalog that loads, links resolve, approved text is final (60 s) |
| `memory` | 2 agents, 4 ids, both backends, 2 faults, 1 edit | OutcomesInv, SearchesAreExact, ImplementsLedger | the caller is told the truth, but for a file system that fails behind its commit point (section 7, item 8); searches are of what is stored, both backends implement one ledger |
| `memory_false_commit` | the same instance | CommittedIsStored, **violated** | finding 1 of section 7 |
| `cache` | 2 calls, 3 domains, 3 policies, 2 kills at any step, 1 edit; all tables of 3 keys | CacheInv, AnswersAreExact, AcceptsOnlyTheProjection, OnlyCapturedFilesGo | an old or a new whole cache; answers are those of the canonical files |
| `searchable` | 2 calls in 9 pairings, 3 URLs, room for 2 pages, texts that match by the index only, by their letters only and by both, 1 edit, close at any time | RuntimeInv, GrepIsExact, SnapshotIsWhole, PublishedIsPlanned, CallsEnd | a search shows what matches but for what the limit costs; nothing runs after close; imports are whole; every call ends (90 s) |
| `installer` | 2 invocations, 1 file and 2 candidates of a host file, 3 plans, 1 edit; ~2,800 requests to each of 3 adapters | InstallationInv, CompilerInv, SnapshotInv, OverwriteNeedsApproval | the configuration is the highest layer's, what is compiled is complete, what the user wrote is kept (140 s) |

Why these bounds are enough:

* *Transactions.* Two paths are the least with a half-published batch and with a
  rollback that has something before and after it; the requests are an update
  with a create, a move (remove and create), and a rewrite of the same bytes,
  which are the three shapes the code treats differently. Two batches let the
  second meet the residue of the first; two kills interrupt a recovery. Eight
  inodes are more than the files a behaviour creates.
* *Lease.* Three processes are the dead one, the one that takes over and the one
  that is too late. `Regimes` pair what a history may hold: with kills only where
  `orderly` allows (checking or removing a claim, holding, releasing) and no attempt that gives up, exclusion
  is claimed; with a kill at any call and attempts that give up, everything but
  exclusion. On FreeBSD any call may be the last one, and a history is `lone` or
  `prompt`. What happens outside these regimes is in section 7. The invariants of
  FileLease were also checked with four processes in all eight regimes.
* *Queue.* Three calls give a predecessor, a call that gives up in the middle and
  a successor, and a nested call between two others.
* *Installer's transaction.* Two files and two kills, as above, the second in a recovery,
  for runs in sequence; at once, one that dies and two that contend for its lock, which is the
  least for a double reclaim: the instance reaches two runs at work after it. `FaultAt`
  excludes `commit` and `dropJournal` because of section 7.
* *Issues, documents.* Three levels of hierarchy and an issue that is made or imported under
  the lowest; one comment reaches the limit; a successor version reaches the limit of
  versions; one edit is a record in another layout, an unreadable file, or a document that is gone.
* *Memory.* Four ids, the later the greater, of which a file limit of three refuses one;
  pages of two rows; two faults, so that a retry fails again.
* *Cache.* Two calls, because a call meets what one killed call left. The tables cover
  pages of one and two rows and a row that only just fits the byte limit.
* *Searchable.* Two URLs that are normalized to one; a page too many; two ticks, so that
  a write shares a tick with an identification or follows it; each pairing has the
  two calls that can disturb each other.
* *Installer.* Two invocations are enough for a plan that is applied late; three plans
  are install, update, uninstall; with two edits and two plans it was checked by hand
  (327,000 states), three plans and two edits up to depth 17. The phases have
  disjoint variables, so `BetweenInvocations` loses no behaviour. Of seven commands
  three are compiled and of the roles four; all differ only in data.

Symmetry is used for processes, runs and agents, and only where no liveness is
checked. Deadlock checking is off where calls are finite and may all have ended; an
unreadable catalog refuses every call until an operator repairs it.

Every property has, in `PROJECT.json`, a mutated definition of the code (a dropped
sync, a skipped check, stale evidence accepted, a swapped order) that violates it
under its run. The mutants stand in the modules beside what they mutate and are
used by nothing else; a few more are kept there that were tried by hand, such as
`CheckLockTrusts` (RepositoryLease), `KeepsSidecars` (SearchCache),
`PreviousIsCurrent` (InstallationPlanner) and `DrainNothing` (AuthorityQueue).

What some properties say, more exactly:

* `BatchIsAtomic` is stated where it is observable, in a callback, which runs only
  after recovery succeeded. Paths that an operator edited during the batch are
  exempt. `JournalIsSettled` closes the way out: recovery may refuse for ever only
  for an operator edit, a torn temporary, or what an interrupted recovery left.
* `JournalInv` is JournalPrecedesPublication and JournalIsWellFormed, the second of
  which holds only while nobody is killed.
* `AllOrNothing` includes that ambiguity keeps the journal.
* The refinements of AtomicBatch speak of histories in which nobody edits by hand and
  (RepositoryTransaction) the power stays on.
* `HierarchyHolds`, in IssuesInv, is stated for catalogs no operator edited: the batch compares
  the files it writes and no others, so an edit of another file while a call runs
  can make an illegal pair of legal files. It is written with
  reachability, not with the cycle search of `graph.ts`.
* `DanglingLinksGo` is a recovery property: one link to a document that is gone
  refuses every other change of every issue.
* `AuthorityInv`, `AuthorityExclusion` and `AuthoritySurvives` are, per platform, the
  invariant, the exclusion and the survival of a live lease of the two modules.
* `CommittedIsStored` is part of OutcomesInv for the file system only.
* `AcceptsOnlyTheProjection` says for each domain that its verification accepts a
  table exactly when it is the projection; a row larger than the byte limit can never
  be verified and is excluded by its premise.
* `PublishedIsPlanned` has one part for imports and one for a stash; `SnapshotIsWhole`
  excepts writes in the tick in which the database was identified.
* `InstallationInv` includes that installing twice changes nothing the second time. It
  exempts, as `unguarded`, histories where something changed that an applied plan was
  made from and does not write: `applyInstallationPlan` compares only what it writes.
  `OverwriteNeedsApproval` includes that what the plan does not name is untouched.

## 5. Fairness

* RepositoryTransaction: `WF(Step)`. A holder that is not killed goes on, and later
  leases are asked for: recovery runs only when somebody takes the lease. Used by
  JournalIsSettled; kills and losses are bounded.
* AuthorityLease: weak fairness of each process's step, no fairness between
  competing names: each process polls (`waitForLeasePoll`). Attempts are finitely
  many, so no stronger fairness is needed.
* AuthorityQueue: `WF(Progress(c))`: promises resolve, callbacks and operations
  end. Every waiting call has a timer, explicit or default, but the specification
  does not assume that it fires: EveryCallServed shows that the FIFO does without,
  and EveryCallEnds has the timers as its premise.
* IssueStore: weak fairness of the end of a call, and strong fairness of an agent that keeps looking at
  the issue, keeps calling unlink, and is not cut short every time. Without any
  one of them there is a behaviour in which the link stays, and the code
  promises nothing else.
* SearchableRuntime: weak fairness, per call, of its local steps, of trying the next
  strategy, and of being interrupted or stopped: an online call has a deadline whose
  timer fires. Nothing is assumed about servers or about the user of a prompt.
* Nothing is assumed about operators, kills, failures and losses.

## 6. Proofs

Every theorem is for every value of the constants: any number of paths, processes,
calls, documents and agents, and all bounds. The assumptions are the named `ASSUME`s of
the modules; they type the constants, and say of the given catalogs and edits that
they are made of files, that requests are well-formed and that a start is legal. The parsers
return trees and the environment holds text (`TreesAssumption`), a binding is a path with
names of variables (`BindingsAssumption`), a record is not empty (`IdsAssumption`).
A template directory holds what the template parser makes of files (`DirectoriesAssumption`), the
packaged templates are templates of commands and a layout (`PublishedAssumption`), and the names of
packaged assets are safe in paths (`IdsOfFilesAssumption`).

The library's induction theorems take an operator as a parameter, which no installed prover
can instantiate. Where data needs an induction the proofs take the least counterexample of
a set of numbers instead (`WFMin` over `NatLessThanWellFounded`), which has no such parameter:
`LeastNumber`, `Through`, and `Recursion`, which says that a recursive function on 0 .. N has a solution.

### RepositoryTransactionProofs

* `TypeCorrect`, `AcknowledgedIsDurable` (AckedBatchIsCommitted, power losses
  included), `Atomicity` (AtomicWithoutPowerLoss), `Invariance`.
* `ImplementsBatches`: every step maps to a step of AtomicBatch or a stutter while nobody
  edits by hand and the power stays on.
* `ForeignBytesStay`: where rename is one step, what an operator wrote is never dropped.
* `AtomicAcrossPowerLoss` (BatchIsAtomic) and `JournalGoesAhead` (JournalInv), as long as
  no process is killed and no call fails. With kills or failing calls and
  a power loss besides, atomicity is false: section 7, item 3.

None of these properties is inductive. `Inv` is the conjunction of `TypeOK`,
`PathInv` (the holder works on a path of its batch), `PhaseInv` (its place in the
code tells the suffix of the journal) and `CommitInv` (what the commit mark, the
acknowledgement and the durable suffixes may say of each other: once
acknowledged, `active` is not among them). `AtomicInv` adds what the files hold:
outside an active journal they hold what was decided; a path outside the batch is
untouched; at the commit every path is new; when a rollback is about to drop its
journal every path is original. That last clause is what makes a kill harmless.

`ForeignInv` says that a private name holds only bytes the journal knows, that only a
temporary may be torn, and that what a publication takes away is such a revision.
`PowerInv` is `SettledInv` ∧ `DurableInv` ∧ `SyncedInv` ∧ `UndisturbedInv`: outside the
window in which a publication has not synchronized, a directory has one state on the
disk; each program point knows which suffixes of the journal may be on the disk; an
active or committed journal is whole; the publication of an unedited path finds
what it left. The lemmas go by part and by action: `StepDirs` and `StepEffects` say what
any step does to a directory, and each part has its own.

### AuthorityProofs

`AuthorityStaysSafe`, `LeaseRecords` (AuthorityInv), `OneHolder` (AuthorityExclusion),
`LiveLeaseStays` (AuthoritySurvives). For the directory lease `Inv` holds in every
history, and `OrderlyInv` adds, for orderly ones, who may still hold an expectation of
which name (`JobInv`, `ClaimInv`, `LockInv`): that a live lease was there when it was
inspected is what exclusion rests on. For the file lease `Sound` (types, what a process
aims at, that a token is new, `host-id`) holds always; `Undisturbed` adds where the
names of a live lease can be while nobody comes between the two calls of a rename, and
`Alone` that a lone reclaimer's file is the one it verified; `FileSafe` is their union.

For the queue, whatever number of calls nest, give up or fail:
`QueueTypes`, `OneCallInTurn`, `FirstComeFirstServed` (EarlierFirst), `OperationsStayInLease`,
`NothingOverlaps` (TurnsInv). The invariant is about gates: whoever is in its turn, or
was, came after calls whose gates are all open (`GateInv`). A call that gave up opens its
gate only after its predecessor's; `ChainInv` carries the fact from slot to slot and
`TailInv` over the removal of the tail, where a later call starts a new chain with a
resolved promise. `OperationsInv` says that only a lease that was not drained has operations.

### InstallationProofs

The transaction, for any number of runs, plans and files:

* `RunsInTurn` (InstallInv), for any mix of deaths and contention: two runs at once only
  after the lock of one dead run was reclaimed twice (`reclaims[v] > 1`), which takes a death
  and contention; until then what was acknowledged stays. The lock is removed by its name, so
  the second of two runs that read the pid of one dead run removes a living run's lock:
  section 7, item 9. Why nothing else breaks the exclusion is in `WorkInv`: who is about to
  remove a lock finds that of the dead run it read about, or that one was reclaimed before.
* `InstalledEntirely` (AllOrNothing), and `InstallsInOneStep` (ImplementsAtomicBatch, without
  hand edits), hold up to the same event; they assume `FailsBeforeCommit`, without which they
  are false: section 7, item 4.

`WorkInv` says who works under the lock, `PlaceInv` where a run is in its plan, `FilesInv`
what the files hold by the state of the journal, and `CallInv` what the run at work knows
of them: files below `k` are written, files above are as they were found. `AckInv` keeps
what was reported as installed. For the refinement `BatchInv` says that until the journal is written no file differs from
what the plan was made from; `Progress` shows each step to write a journal, to commit, or to
leave unchanged what a reader who recovers first would see.

The planner, for any units, hosts, invocations, manifests and number of hand edits:

* `InstallerKeeps` (InstallationInv): what the user wrote is kept or can be given back, the
  receipt is true, and installing again is an empty plan.
* `InstallerAsks` (OverwriteNeedsApproval): a unit the user modified changes only when approved.

Both are of NeottiaApply, so with the configuration and the compiler running before them
(`ApplyPlans`), and have the premise `BytesAreValues`: the bytes of an asset are
contents of the model. It is a premise and not an ASSUME because it
quantifies over every configuration; the instance of the run satisfies it. Hosts are finitely many.
Each plan is `Sound`: it writes units it intends, each approved or as the receipt has it, and
leaves a true receipt. `PlanIsSound` shows it where the plan is made, from what was inspected;
`PlannerInv` keeps it, as a saved plan may be applied long after. `ReceiptInv` is the induction over
the history: an owned unit holds what its receipt says unless the user wrote since, and
the receipt's `previous` is what the user had. `KeptSettles` derives the empty plan from it.

The commands before it, for any documents, directories, settings and requests:

* `SnapshotsAreWhole` (SnapshotInv), on `WhatIsReadIsChecked` (NothingWrongIsHidden and OneReading).
  `ReadInv`: what was parsed was accepted unless the resolution failed; `LoadedInv`: what was loaded
  of a file is what was parsed of it, and a parsed file is not read again. `ScalarsOfMerge` and
  `SourcesOfMerge` say which leaves one layer takes, leaves and uncovers, and `OneLayerMore` that
  this is precedence by rank; `MergedResolves` carries it over any number of layers. The layers
  are sound and in the order of their ranks (`AllLayered`), because the global file is loaded first
  (`InOrderLoaded`) and flattening keeps the order (`FlattenProperties`). `WholeInv` states
  the snapshot in terms of its layers: `DerivedIsWhole` extends it by a derivation.
* `CompiledIsUsable` and `AssetsArePlaced` (PacksAreUsable, RoutesAreProvided, AgentsArePresent,
  AssetsAreInPlace, of CompilerInv), from the names of forges and roles (`ForgesAssumption`,
  `RolesAssumption`). `CompiledInv` ties the output to the settings that were accepted with it, whatever
  was edited meanwhile; the rest is about these: the pack of a slot is the selected
  provider's (`PackIsSelected`), its routes are prerequisites (`RoutesAreRequired`), every
  request was answered with a file at its path (`AllAnswered`).
* `AdaptersKeepTheirContract` (AdaptersKeepTheContract, of CompilerInv) for any well-formed requests
  (`AsksAssumption`). `AskedInv` says that an answer is the guard's to such a request, or to the
  configuration of a package some adapter declared; there is one lemma for every
  kind of request, and `PathsDiffer` holds the paths apart by folder and depth.
* `LifecyclesAreComplete` (CompilerInv) adds to these three what is compiled, BodiesAreWhole and
  PackagedTemplatesCompile. `TemplatesInv`: whatever was read is made of templates, whoever edits
  them, so the text of a command is a sequence of fragments (`RenderedIsText`). The compiler only
  counts how often a fragment occurs and how often it occurs unchanged; that both are equal makes
  every fragment a whole one (`TrackedIsWhole`). Without overrides, `LoadInv` says that the layers
  are the packaged ones, whose templates are accepted (`PackagedAreAccepted`); every request of the
  compiler is then answered, with files and entries apart (`SettingsProject`: the path of
  an asset tells its feature and its id, `PathTells`), for all settings that the schemas let
  through (`IsSettings`, which CompileHarness requires).

### IssueStoreProofs, DesignDocumentStoreProofs

`HierarchyIsLegal` (IssuesInv) and `ReplacedWasSeen` (WhatIsReplacedWasSeen) for issues;
`DocumentTypes`, `CatalogLoads`, `LinksResolve`, `ApprovedVersionsStay`, `ChangesAreSeen`
for documents. In both, `CallInv` says what the holder of the lease knows: the catalog it
read was legal, and is still the catalog unless somebody edited it. The rest is that
each proposed batch is sound (for documents `BatchIsSound`, per call). That a changed parent or relation makes no
cycle (`GraphInv`) is shown by least closed sets, not by induction on paths.

### MemoryStoreProofs

`StoreImplementsLedger`: both backends implement MemoryLedger until somebody edits by
hand. `OutcomesAreTrue` (OutcomesInv), with its parts `FailedIsAbsentOrLate`,
`ReturnedIsCommitted`, `FilesAreCommitted`, `ShardStaysReadable`, and `MemoryTypes`.
`TransactionInv` says what of a batch is pending at each phase, `LedgerInv` that what is
committed is a ledger, also with a batch about to be published, `OutcomeInv` what the
caller was told of it; `Booked` are the types of the rest.

`SearchesFindTheBest` (SearchesAreExact), for any page size, limit, budget and ranking. Of the
records a search may show, in their order (`KeptIs`), `Follows` says how many a place in the
ranking is past and `Stands` that what was found is a prefix of them within limit and budget;
taking a row (`TakeGoesOn`), a page (`CollectGoesOn`) and the pages one after another (`PageGoesOn`)
keep that, so that the end is `BestOf` all that fit. `AnswerInv` takes it to the call's end: nothing
is committed between the search and the return.

### SearchCacheProofs

`CacheIsSound` (CacheInv), `SearchesAnswerExactly` (AnswersAreExact),
`OnlyCapturedFilesAreRemoved` (OnlyCapturedFilesGo), and for the parts of CacheInv
`CacheTypes`, `SidecarsBelong`, `CallsLeaveNothing`, `PublishedCacheSurvives`. `Inv` has one part per kind of fact: what is
at the cache path, in the evacuation and in the candidate (`FilesInv`), when a sidecar may
exist (`SideInv`), that a published cache is at its path or evacuated under an active
manifest (`SurvivesInv`), that identities are not used twice (`IdsInv`), what a call has
loaded and answers (`AnswerInv`), and which private files a program point may leave (`TidyInv`).
Every part was checked with TLC before it was proved.

`VerificationIsExact` (AcceptsOnlyTheProjection) is for tables of any length, any sizes of rows
and any limits. For Issues: every page has a row, stays within the limits, and the pages end at the last
row (`PagesReachAll`), so an accepted table holds every expected row, and the expected rows' places
in it grow; with equal counts such a map of places is the identity (`GrowingIsEvery`), so the table is
the projection (`AcceptedIsTheSame`). Conversely the pages of the projection are its
own rows (`ItselfIsAccepted`). The relationships stand in the order of their keys because the
rank of a row, by which they are sorted, grows with its key (`SortedIsInOrder`). Design Docs
and Memory follow by counting.

### SearchableProofs

`RuntimeIsSafe` (RuntimeInv), `GrepsAreExact` (GrepIsExact), `SnapshotsAreWhole`
(SnapshotIsWhole), `PublishesWhatItPlanned` (PublishedIsPlanned), for any number of calls,
URLs, rows, strategies and edits, and any sets `Indexed` and `Literal`. None is inductive: `CatalogInv` says that the catalog a call
loaded is what the stash holds while it has the lease (`LeaseInv`), but for what an operator
touched. On it rest `BatchInv` (what an import is about to publish covers the
rows of its copy), and `GrepInv` (of the rows found, those read again are hits or fail the
filter, and a query finds every row the index matches or as many as its limit). `CopyInv` is about the copy under way: if the identity of the database is still
the one it opened and older than the tick it opened in, nothing was written since, so what it
copied is the file, and no checkpoint had begun. `CloseInv` says that what
runs after close() began is what close() saw running. `CallsApart`, `Writers` and `Entered`
say once which action touches which call, variable and place.

### Only model-checked

Liveness, which is out of the proof system's reach: JournalIsSettled, EveryAttemptServed,
NobodyWaitsForever, DanglingLinksGo, CallsEnd.

## 7. Where code and text disagree

1. `memory_false_commit`: *told committed, rolled back.* `executeMutation` and `import`
   treat a failing cache check as happening after the commit (`memory-core/src/store.ts:334`),
   but with PostgreSQL both run inside the open transaction: the error of a mutation
   rolls it back, and after the warning of an import COMMIT ends a transaction that a
   failed query aborted. The documents are not stored.

The following were found with runs that are not part of the project any more; each
names the instance that shows it again.

2. *A late contender takes a fresh directory lease for a leftover.*
   `cleanupInterruptedInitialization` (`lease.ts:618`) renames by path what it
   inspected by path; a lease that replaced it meanwhile is put aside and kept there
   (line 621), so the path is free while its callback runs, and a second callback
   starts. The displaced holder notices at its next `assertLiveLease`. Nothing of
   it is deleted: that is LiveLeaseSurvives. (`lease.cfg` with `Regimes <- UnwrittenOwner`,
   `MaxKills = 1`, directory platform only, INVARIANT MutualExclusion.)
3. *An interrupted rollback is completed without a sync.* `recoverActiveDirectory`
   (`transaction/recovery.ts:92`) skips a path that already holds its original
   revision and never synchronizes its directory; if an earlier rollback was killed
   between its link and its sync, the journal is discarded while the restored name is
   not durable. (`txn_power.cfg` with 1 batch, 1 kill, 1 loss, 1 failing call, BatchIsAtomic.)
4. *A rollback after the commit mark.* The inner catch of `applyInstallationPlan`
   (`distribution/src/transaction.ts:45`) also covers the write of the committed
   journal and its removal. A failure there, after its effect, rolls files back under
   a journal that says committed; if the rollback is cut short, recovery calls
   half-restored files done. (`install.cfg` with 2 runs, 1 kill, `FaultAt = {"commit"}`.)
5. *FreeBSD: two reclaimers of a dead owner* (`lease.cfg` with `FileRegimes <- DeadOwner`).
   A reclaimer killed or slow between the link and the unlink of its rename leaves a second name;
   another normalizes it, reclaims and acquires, and the first one's unlink deletes
   the live lease's name. With undisturbed renames and four processes a reclaimer can
   still move by path a live lease that replaced the dead one it verified. Both
   contradict `lease.ts:88`, and are why exclusion is claimed per regime.
6. *`neottia apply` that skips units drops their receipt entries*, and with them the
   user's content displaced earlier (`installer.cfg` with `Inputs <- MCInstallInputs` and
   INVARIANT DisplacedIsRetained).
7. *A rebuild of a cache killed while it writes a temporary* makes the next publication
   report `RECOVERY_AMBIGUOUS` (`publication.ts:227`), where the comment of
   `cache-publication.ts:124` promises recovery.
8. *A store that succeeded and failed.* On the file system the documents are published when
   `loadState` of `memory-core/src/store.ts:328` runs, and so they are when the sync behind the
   committed mark fails. An I/O, limit or lease error there reaches the caller as a plain failure,
   and not as the "committed" of line 334, though the comment of line 330 wants callers not
   to retry "as though the mutation were absent". (`memory.cfg` with
   `outcome.docs \cap stored = {}` for every failed call.)
9. *The installer's lock is reclaimed twice.* Two runs read the pid of one dead owner; the
   first removes the lock, takes it and works; the second removes the first one's lock by name
   (`transaction.ts:237`), and two runs work on one receipt, though the comment of line 221 says
   "reclaims only conclusively dead local owners". (`install.cfg` with
   `Cardinality({p \in Runs : Working(p)}) <= 1`.)
10. *A search loses results to its limit.* `stash.ts:245` cuts the rows that the full-text
   expression matches at `input.limit`, and `matches` (line 250) drops from these what does
   not hold the terms as they are written: for "foo-bar", whose tokens are those of "foo bar",
   better ranked pages with "foo bar" use the limit up and no page with "foo-bar" is shown.
   (`searchable.cfg` with `DOMAIN hits[c] = Matching(c)` whenever Matching(c) is within the limit.)

Smaller facts met on the way and modelled as they are:

* Transactions, lease: a temporary torn by a kill makes recovery ambiguous; a second kill
  inside a recovery leaves a private evacuation nobody collects; an `owner.json` torn by a
  kill locks an authority until an operator acts (by design, `lease.ts:567`). A doc
  calls the result of `computeByteRevision` `v1:<sha256>`, the code returns `sha256:<hex>`.
* Installer: an empty PID lock is never replaced; an edit between the check and the
  rename is overwritten; conflict ids bind the unit, not its content or reason; a
  moved host file with approved conflicts leaves `{}` at the old candidate, after which two
  candidates exist and every inspection is refused; removing absent units creates or leaves `{}`.
* Issues: no-op writes repair a noncanonical layout; relate checks the revision of
  the source, unrelate that of the issue that stores the relation.
* Documents: `version` does not compare the predecessor's bytes in its batch and copies metadata
  with `_neottia_transition`; a body whose last line ends in blanks is refused; a tool result
  above `max_result_bytes` (`tools.ts:100`) throws after publication.
* Memory: a PostgreSQL search goes on past a record over the size budget on a later page,
  the file system stops (`record-helpers.ts:262` says identical); PostgreSQL does not
  notice a record and a tombstone of one id; a valid preview may fail to import,
  because it checks no limits; a record that appears between snapshot and batch is not compared
  (`filesystem.ts:202`).
* Cache: a crash leaves an orphan `.evacuated` file, candidates of killed rebuilds are never
  deleted; memory treats a future `rebuilt_at` as fresh, the others bound it to five minutes;
  a rebuild is not a tracked operation though `lease.ts:223` says so.
* Searchable: an attempt's own deadline ends the whole sequence of strategies
  (`fetcher.ts:42`), where `docs/searchable/fetching.md:9` limits each attempt; an attempt
  can take two or three times `timeout_ms`; ask with a full prompt sends no page; stale
  by age with policy `fail` returns STASH_CACHE_STALE where the docs say
  STASH_CACHE_REBUILD_REQUIRED; the legacy import is neither refused nor awaited by close;
  snapshot identity relies on the granularity of mtime.
* Configuration, compiler, adapters: derived snapshots keep the provenance of a replaced
  subtree, which the resolver clears; `{modules:{}}` is accepted by one and not by the other; a secret's
  fallback is applied over file values; `apply` passes only the project root, though
  `docs/sdlc/customization.md:46` lists global overrides; a Claude Code prompt with an agent
  and `subtask: false` loses the field without a diagnostic (`docs/harnesses/adapters.md:119`
  speaks of failure), the one exemption of NothingIsDropped; only the memory and searchable
  fragments must be rendered by an override; doctor's advice to rerun apply does not repair a drifted file.

## 8. What the models leave out

* Transactions: limits per file and per batch, the inventory a caller proposes, the
  bounded readers of `files.ts`, directory synchronization on Windows (a no-op in the
  code), and an operator on FreeBSD during `link`/`unlink` together with kills (the
  unlink may then remove an operator's file: the hazard at `native/freebsd_backend.cc:44`).
* Lease: owners on other hosts, retries of sharing violations on Windows.
* Queue: nothing that changes its state; identities of authorities are one value.
* Installer's transaction: path safety, decoding of plan and journal, temporary files, power loss.
* Issues, documents: collisions of identifiers, file names, byte limits, YAML and Markdown,
  `updated_at`; for issues `duplicates` and `supersedes` are in the model and not in the instance.
* Memory: the secret scanner and schemas, ranking (an order of the ids), several
  namespaces of one database; a search's pages are one step; any stale policy may be in force.
* Cache: drivers and busy databases; the removal of a private file is one step; JSON size
  and the driver's measure of a row are one; the budget over all tables.
* Searchable: encoding, redaction, ranking, snippets, which addresses are allowed; the legacy
  server acts only while an import reads a live database.
* Planner and compiler: paths, digests and JSON edits, wording, checksums; well-typedness of a
  request is one bit; host selection is one step; a container is read once; user edits start after
  the first plan; of the CLI, init, doctor and recover, and several harnesses in one apply.
* The components marked not modelled in `PROJECT.json`: read-only, generated, or
  wiring without state.

## 9. Running it

    tlc -workers 2 -config txn_crash.cfg MCRepositoryTransaction.tla
    tlapm RepositoryTransactionProofs.tla

The module of every run is in `PROJECT.json`. Each run ends within three minutes on
two cores, each proof module within fifteen.
