---------------------------- MODULE SearchableStash ----------------------------
(***************************************************************************)
(* The stash of @neottia/searchable-core (stash.ts) and the import of a    *)
(* legacy database (migration.ts): canonical pages, one per normalized     *)
(* URL, and the disposable index over them, used by calls that take the    *)
(* authority lease one after the other, while an operator edits pages and  *)
(* the legacy server may still write its database.                         *)
(*                                                                         *)
(* A page is its title and content; the legacy database holds one row per  *)
(* URL as it was typed.  A batch is one step (RepositoryTransaction), and  *)
(* so is opening or rebuilding the index (SearchCache).                    *)
(***************************************************************************)
EXTENDS Naturals, FiniteSets

CONSTANTS
    Calls,      \* calls of the library, each made at most once
    Plans,      \* what the calls may be: functions from Calls to requests
    None, Unreadable,
    Raws,       \* URLs as they are typed
    Normal,     \* Normal[r]: the URL that r is normalized to
    Texts,      \* contents of a page
    Indexed,    \* those that the full-text expression of the query matches
    Literal,    \* those that hold every term of the query as it is written
    Capacity,   \* pages that max_storage_bytes allows
    Limit,      \* results that a grep returns at most
    Databases,  \* what the legacy server may have stored
    Starts,     \* what the stash may hold at first
    Edits,      \* pages an operator writes or removes: [url, from, to]
    MaxEdits, MaxServes, MaxTicks   \* model bounds

\* Neither need be part of the other: the tokens of "foo-bar" are those of
\* "foo bar", and "foo" is in "food".
ASSUME MatchingAssumption == Indexed \subseteq Texts /\ Literal \subseteq Texts
ASSUME LimitsAssumption == Capacity \in Nat /\ Limit \in Nat \ {0}
ASSUME BoundsAssumption == MaxEdits \in Nat /\ MaxServes \in Nat /\ MaxTicks \in Nat
ASSUME NoneAssumption == None \notin Calls \cup Texts /\ Unreadable \notin Texts \cup {None}

Urls == {Normal[r] : r \in Raws}

\* A call stashes a text under a URL; a row, a page and an edit are of such.
ASSUME RawsAssumption == IsFiniteSet(Raws)
ASSUME PlansAssumption ==
    \A p \in Plans, c \in Calls : p[c].op = "stash" => p[c].raw \in Raws /\ p[c].text \in Texts
ASSUME DatabasesAssumption == Databases # {} /\ Databases \subseteq [Raws -> Texts \cup {None}]
ASSUME StartsAssumption == Starts \subseteq [Urls -> Texts \cup {None, Unreadable}]
ASSUME EditsAssumption == \A e \in Edits : e.url \in Urls /\ e.to \in Texts \cup {None, Unreadable}

VARIABLES
    pages,      \* the canonical file of every URL
    index,      \* the pages the index was built from
    holder,     \* whose lease it is
    (* the legacy database *)
    main,       \* the rows in its main file
    wal,        \* the rows that its -wal holds as well, when it is there
    inode, mtime,
    clock,      \* of the file system, in its own granularity
    wholes,     \* history: what main held when no checkpoint was under way
    (* the calls *)
    pc, req,
    cat,        \* cat[c]: the catalog it loaded
    batch,      \* batch[c]: what it is about to publish
    left,       \* left[c]: what it has not read yet
    hits,       \* hits[c]: the pages it found, as it re-read them
    copy,       \* copy[c]: rows of its snapshot
    ident,      \* ident[c]: the identity of the database it opened
    touched,    \* history: what the operator touched since c loaded its catalog
    edits, serves

legacyVars == <<main, wal, inode, mtime, clock, wholes, serves>>
workVars == <<batch, left, hits, copy, ident>>
stashVars == <<pages, index, holder, legacyVars, pc, req, cat, workVars, touched, edits>>

NoPage == [u \in {} |-> None]
Existing(catalog) == {u \in Urls : catalog[u] # None}

\* loadCatalog: one page that cannot be read, or too many pages, and nothing loads.
Loads(catalog) == (\A u \in Urls : catalog[u] # Unreadable) /\ Cardinality(Existing(catalog)) <= Capacity

StashInit ==
    /\ pages \in Starts
    /\ index = None /\ holder = None
    /\ pc = [c \in Calls |-> "idle"] /\ req \in Plans
    /\ main \in IF \E c \in Calls : req[c].op = "import" THEN Databases ELSE {CHOOSE d \in Databases : TRUE}
    /\ wal = None /\ inode = 0 /\ mtime = 1 /\ clock = 1
    /\ wholes = {main} /\ serves = 0
    /\ cat = [c \in Calls |-> None] /\ batch = [c \in Calls |-> NoPage]
    /\ left = [c \in Calls |-> {}] /\ hits = [c \in Calls |-> NoPage]
    /\ copy = [c \in Calls |-> NoPage] /\ ident = [c \in Calls |-> None]
    /\ touched = [c \in Calls |-> {}] /\ edits = 0

-------------------------------------------------------------------------------
(* Control of one call. *)

At(c, l) == pc[c] = l
Goto(c, l) == pc' = [pc EXCEPT ![c] = l]
Over == {"done", "failed", "refused"}

\* Leaving withRepositoryLease, however the callback ended.
Leave(c, l) == Goto(c, l) /\ holder' = IF holder = c THEN None ELSE holder

World == UNCHANGED <<legacyVars, req, edits, touched>>
Stay == UNCHANGED <<pages, index, holder>>

\* withCatalog: the lease, then every page.
Acquire(c) ==
    /\ pc[c] \in {"lease", "lease again"} /\ holder = None
    /\ IF Loads(pages)
       THEN /\ holder' = c /\ cat' = [cat EXCEPT ![c] = pages]
            /\ Goto(c, IF At(c, "lease again") THEN "context"
                       ELSE IF req[c].op \in {"stash", "import"} THEN "plan" ELSE "index")
       ELSE Goto(c, "failed") /\ UNCHANGED <<holder, cat>>
    /\ touched' = [touched EXCEPT ![c] = {}]
    /\ UNCHANGED <<pages, index, legacyVars, req, edits, workVars>>

-------------------------------------------------------------------------------
(* stash and importPages. *)

Fits(catalog, b) == Loads([u \in Urls |-> IF u \in DOMAIN b THEN b[u] ELSE catalog[u]])

\* A page that is there already is not written again.
PlanStash(c) ==
    LET u == Normal[req[c].raw] IN
    /\ At(c, "plan") /\ req[c].op = "stash"
    /\ batch' = [batch EXCEPT ![c] = [v \in {u} |-> req[c].text]]
    /\ \/ cat[c][u] = req[c].text /\ Leave(c, "done")
       \/ cat[c][u] # req[c].text /\ ~Fits(cat[c], batch'[c]) /\ Leave(c, "failed")
       \/ cat[c][u] # req[c].text /\ Fits(cat[c], batch'[c]) /\ Goto(c, "publish") /\ UNCHANGED holder
    /\ UNCHANGED <<pages, index, cat, left, hits, copy, ident>> /\ World

\* Rows of URLs that have no page yet; a row that differs from its page is a
\* conflict.
Planned(c) == {r \in DOMAIN copy[c] : copy[c][r] # None /\ cat[c][Normal[r]] = None}
Conflicts(c) == {r \in DOMAIN copy[c] : copy[c][r] # None /\ cat[c][Normal[r]] \notin {None, copy[c][r]}}

NothingToImport(c) == Conflicts(c) # {} \/ req[c].preview \/ Planned(c) = {}

PlanImport(c) ==
    LET new == [u \in {Normal[r] : r \in Planned(c)} |-> copy[c][CHOOSE r \in Planned(c) : Normal[r] = u]] IN
    /\ At(c, "plan") /\ req[c].op = "import"
    /\ batch' = [batch EXCEPT ![c] = new]
    /\ \/ ~Fits(cat[c], new) /\ Leave(c, "failed")
       \/ Fits(cat[c], new) /\ NothingToImport(c) /\ Leave(c, "done")
       \/ Fits(cat[c], new) /\ ~NothingToImport(c) /\ Goto(c, "publish") /\ UNCHANGED holder
    /\ UNCHANGED <<pages, index, cat, left, hits, copy, ident>> /\ World

\* Mutant: the expected revisions are not compared.
Overwrites(c) == TRUE

\* applyCanonicalBatch compares the revision of every path, or its absence.
AsExpected(c) == \A u \in DOMAIN batch[c] : pages[u] = cat[c][u]

\* The batch is published as a whole or not at all; a signal, a deadline or the
\* disk may stop it before.
Publish(c) ==
    /\ At(c, "publish")
    /\ \/ /\ AsExpected(c)
          /\ pages' = [u \in Urls |-> IF u \in DOMAIN batch[c] THEN batch[c][u] ELSE pages[u]]
          /\ IF req[c].op = "import" THEN Goto(c, "rebuild") /\ UNCHANGED holder ELSE Leave(c, "done")
       \/ Leave(c, "failed") /\ UNCHANGED pages
    /\ UNCHANGED <<index, cat, workVars>> /\ World

\* After an import the index is rebuilt from what was planned; a failure is a
\* warning.
RebuildAfterImport(c) ==
    /\ At(c, "rebuild")
    /\ index' \in {index, [u \in Urls |-> IF u \in DOMAIN batch[c] THEN batch[c][u] ELSE cat[c][u]]}
    /\ Leave(c, "done")
    /\ UNCHANGED <<pages, cat, workVars>> /\ World

-------------------------------------------------------------------------------
(* grep and context. *)

\* openDisposableSqliteCache: only an index of the loaded catalog is ready.
IsReady(c) == index = cat[c]

\* The rows that the expression matches, the best of them when they are more than
\* the limit; any may be the best.
Query(c) ==
    LET found == {u \in Urls : index'[u] \in Indexed} IN
    \E rows \in SUBSET found :
        /\ Cardinality(rows) <= Limit /\ (Cardinality(rows) < Limit => rows = found)
        /\ left' = [left EXCEPT ![c] = IF req[c].op = "validate" THEN {} ELSE rows]

\* ensureCache, then the query.  An index that is not ready, or too old by the
\* clock, is rebuilt; stale_policy may forbid it or ask the user first.
UseIndex(c) ==
    /\ At(c, "index")
    /\ \/ Leave(c, "failed") /\ UNCHANGED <<index, left>>
       \/ Goto(c, "prompt") /\ UNCHANGED <<index, left, holder>>
       \/ /\ (IsReady(c) /\ index' = index) \/ index' = cat[c]
          /\ Goto(c, "reload") /\ UNCHANGED holder
          /\ Query(c)
    /\ UNCHANGED <<pages, cat, batch, hits, copy, ident>> /\ World

\* The call awaits onStaleCache under the lease.
UserAnswers(c) ==
    /\ At(c, "prompt")
    /\ \/ Leave(c, "failed") /\ UNCHANGED <<index, left>>
       \/ index' = cat[c] /\ Goto(c, "reload") /\ UNCHANGED holder /\ Query(c)
    /\ UNCHANGED <<pages, cat, batch, hits, copy, ident>> /\ World

\* Mutant: a page that changed since it was indexed is shown.
ShowsChanged(c, u) == pages[u] \in Literal

\* The revision is that of the row, and the page holds the terms: a row that does
\* not is dropped, although it counted towards the limit.
IsHit(c, u) == pages[u] = index[u] /\ pages[u] \in Literal

\* reloadCandidatePages reads one candidate after the other.
Reload(c) ==
    /\ At(c, "reload")
    /\ \E u \in left[c] :
         \/ /\ cat[c][u] # None /\ pages[u] = Unreadable
            /\ Leave(c, "failed") /\ UNCHANGED <<left, hits>>
         \/ /\ cat[c][u] = None \/ pages[u] # Unreadable
            /\ left' = [left EXCEPT ![c] = @ \ {u}]
            /\ hits' = [hits EXCEPT ![c] =
                  IF cat[c][u] # None /\ IsHit(c, u)
                  THEN [v \in DOMAIN @ \cup {u} |-> IF v = u THEN pages[u] ELSE @[v]] ELSE @]
            /\ UNCHANGED <<pc, holder>>
    /\ UNCHANGED <<pages, index, cat, batch, copy, ident>> /\ World

\* web_ask goes on with the pages of a catalog that it loads again.
Answer(c) ==
    /\ At(c, "reload") /\ left[c] = {}
    /\ Leave(c, IF req[c].op = "ask" THEN "lease again" ELSE "done")
    /\ UNCHANGED <<pages, index, cat, workVars>> /\ World

\* context, then buildPromptContext: pages of the hits that are still there, in
\* rank order until the prompt is full.  Without a page Ollama is not asked; a
\* prompt too small for the first one is sent without any.
Context(c) ==
    LET there == {u \in DOMAIN hits[c] : cat[c][u] # None} IN
    /\ At(c, "context")
    /\ \/ there = {} /\ Leave(c, "failed") /\ UNCHANGED hits
       \/ /\ there # {} /\ Leave(c, "connect")
          /\ \E sent \in SUBSET there : hits' = [hits EXCEPT ![c] = [u \in sent |-> cat[c][u]]]
    /\ UNCHANGED <<pages, index, cat, batch, left, copy, ident>> /\ World

-------------------------------------------------------------------------------
(* importLegacySearchableDatabase, before importPages. *)

Identity == [inode |-> inode, mtime |-> mtime]

\* openLegacySource, safeLegacyIdentity, rejectSidecars.  The descriptor goes on
\* reading a file that another one replaced; what it reads is then refused, so
\* the rows copied below are those of the file under the path.
OpenLegacy(c) ==
    /\ At(c, "open")
    /\ ident' = [ident EXCEPT ![c] = [file |-> Identity, at |-> clock]]
    /\ left' = [left EXCEPT ![c] = Raws] /\ copy' = [copy EXCEPT ![c] = NoPage]
    /\ Goto(c, IF wal = None THEN "copy" ELSE "failed")
    /\ UNCHANGED <<cat, batch, hits>> /\ Stay /\ World

\* From the first byte to the last.
CopyLegacy(c) ==
    /\ At(c, "copy")
    /\ left[c] # {}
    /\ LET r == CHOOSE r \in left[c] : TRUE IN
         /\ left' = [left EXCEPT ![c] = @ \ {r}]
         /\ copy' = [copy EXCEPT ![c] = [q \in DOMAIN @ \cup {r} |-> IF q = r THEN main[r] ELSE @[q]]]
    /\ UNCHANGED <<pc, cat, batch, hits, ident>> /\ Stay /\ World

\* Mutant: the database may have changed while it was copied.
AnyIdentity(c) == TRUE

SameSource(c) == ident[c].file = Identity

\* assertSourceIdentity, the worker's checks of the snapshot, duplicateUrls, and
\* the source once more.
Duplicates(c) ==
    \E r, s \in DOMAIN copy[c] : r # s /\ Normal[r] = Normal[s] /\ None \notin {copy[c][r], copy[c][s]}
ReadSnapshot(c) ==
    /\ At(c, "copy") /\ left[c] = {}
    /\ \/ ~Duplicates(c) /\ SameSource(c) /\ Goto(c, "snapshot")
       \/ Goto(c, "failed")
    /\ UNCHANGED <<cat, workVars>> /\ Stay /\ World
AssertSource(c) ==
    /\ At(c, "snapshot")
    /\ Goto(c, IF SameSource(c) THEN "lease" ELSE "failed")
    /\ UNCHANGED <<cat, workVars>> /\ Stay /\ World

-------------------------------------------------------------------------------
(* The environment. *)

OperatorEdit ==
    \E e \in Edits :
        /\ edits < MaxEdits /\ edits' = edits + 1
        /\ pages[e.url] \in e.from /\ pages' = [pages EXCEPT ![e.url] = e.to]
        /\ touched' = [c \in Calls |-> touched[c] \cup {e.url}]
        /\ UNCHANGED <<index, holder, legacyVars, pc, req, cat, workVars>>

\* The legacy server, live while an import reads its files: its -wal appears, transactions go there, a checkpoint
\* copies them to the main file, and the -wal goes when it stops.
ServerOpens ==
    /\ wal = None /\ serves < MaxServes /\ serves' = serves + 1 /\ wal' = main
    /\ UNCHANGED <<main, inode, mtime, clock, wholes>>
ServerCommits(d) ==
    /\ wal = main /\ d # main /\ serves < MaxServes /\ serves' = serves + 1 /\ wal' = d
    /\ UNCHANGED <<main, inode, mtime, clock, wholes>>
Checkpoint(r) ==
    /\ wal # None /\ main[r] # wal[r]
    /\ main' = [main EXCEPT ![r] = wal[r]] /\ mtime' = clock
    /\ wholes' = IF main' = wal THEN wholes \cup {wal} ELSE wholes
    /\ UNCHANGED <<wal, inode, clock, serves>>
ServerCloses ==
    /\ wal = main /\ wal' = None
    /\ UNCHANGED <<main, inode, mtime, clock, wholes, serves>>
\* Another file is renamed over it.
Replace(d) ==
    /\ wal = None /\ serves < MaxServes /\ serves' = serves + 1
    /\ main' = d /\ inode' = inode + 1 /\ wholes' = wholes \cup {d}
    /\ UNCHANGED <<wal, mtime, clock>>
Tick == clock < MaxTicks /\ clock' = clock + 1 /\ UNCHANGED <<main, wal, inode, mtime, wholes, serves>>
Legacy ==
    /\ \E c \in Calls : req[c].op = "import" /\ req[c].live /\ pc[c] \in {"open", "copy", "snapshot"}
    /\ \/ ServerOpens \/ ServerCloses \/ Tick
       \/ \E d \in Databases : ServerCommits(d) \/ Replace(d)
       \/ \E r \in Raws : Checkpoint(r)
    /\ UNCHANGED <<pages, index, holder, pc, req, cat, workVars, touched, edits>>

StashStep(c) ==
    \/ Acquire(c) \/ PlanStash(c) \/ PlanImport(c) \/ Publish(c) \/ RebuildAfterImport(c)
    \/ UseIndex(c) \/ Reload(c) \/ Answer(c) \/ Context(c)
    \/ OpenLegacy(c) \/ CopyLegacy(c) \/ ReadSnapshot(c) \/ AssertSource(c)

-------------------------------------------------------------------------------
(* Properties *)

Ranked(c) == {u \in Urls : cat[c][u] \in Indexed}
Matching(c) == {u \in Ranked(c) : cat[c][u] \in Literal}

\* What a search shows when it ends is canonical: at most the limit of pages, as
\* they were in one catalog, that matched by the index and by their terms.  Unless
\* somebody edited files by hand meanwhile it shows all that match so, or its
\* limit was used up, by these and by pages that only the index matches: each of
\* those may cost a result.
GrepIsExact ==
    \A c \in Calls :
        At(c, "done") /\ req[c].op = "grep" =>
            LET shown == DOMAIN hits[c] IN
            /\ shown \subseteq Matching(c) /\ Cardinality(shown) <= Limit
            /\ \A u \in shown : hits[c][u] = cat[c][u]
            /\ touched[c] = {} =>
                  \/ shown = Matching(c)
                  \/ Cardinality(shown) + Cardinality(Ranked(c) \ Matching(c)) >= Limit

\* An import never replaces a page and, once it takes effect, every row of its
\* snapshot has a page with that content, but for pages edited by hand since it
\* loaded the catalog; a preview changes nothing.
ImportIsWhole(c) ==
    /\ ~req[c].preview
    /\ \A u \in Urls : pages[u] # None => pages'[u] = pages[u]
    /\ \A r \in DOMAIN copy[c] : copy[c][r] # None /\ Normal[r] \notin touched[c] => pages'[Normal[r]] = copy[c][r]

\* A stash changes its own page only, and never one whose bytes it did not read.
StashIsOfWhatItRead(c) ==
    \A u \in Urls : pages'[u] # pages[u] => u = Normal[req[c].raw] /\ pages[u] = cat[c][u]

PublishedIsPlanned ==
    [][\A c \in Calls :
          holder = c /\ pages' # pages /\ edits' = edits =>
              /\ req[c].op = "import" => ImportIsWhole(c)
              /\ req[c].op = "stash" => StashIsOfWhatItRead(c)]_stashVars

\* The rows an import goes on with were in the database together at one time,
\* unless the database was last written in the tick of the clock in which it
\* was identified: its times do not tell a later write in that tick.
SnapshotIsWhole ==
    \A c \in Calls :
        pc[c] \in {"lease", "plan", "publish"} /\ req[c].op = "import" /\ ident[c].at > ident[c].file.mtime =>
            copy[c] \in wholes
===============================================================================
