------------------------------ MODULE SearchCache ------------------------------
(***************************************************************************)
(* The disposable SQLite cache of one domain (sqlite/cache.ts) and its     *)
(* crash-recoverable publication (sqlite/cache-publication.ts over         *)
(* internal/publication.ts), used by calls that hold the authority lease   *)
(* one after the other: each call loads the canonical catalog, opens and   *)
(* verifies the cache, rebuilds it when it must, and searches.             *)
(*                                                                         *)
(* One sidecar stands for -wal and -shm.  A file at the cache path has an  *)
(* identity of its own: the call that published it, or the edit by hand    *)
(* that put it there (0 is the file the history starts with).  The removal *)
(* of a private file is one step.                                          *)
(***************************************************************************)
EXTENDS CacheVerification, FiniteSets

CONSTANTS
    Procs,      \* calls, each in a lease of its own
    None, Torn,
    Items,      \* what a catalog indexes
    Texts,      \* the contents an item can have
    Matching,   \* the contents that the query matches
    Domains,    \* whose cache it is: "issues", "documents" or "memory"
    Policies,   \* stale_policy: "rebuild", "prompt" or "fail"
    KillAt,     \* the program counters at which a call may be killed
    MaxKills,   \* model bound
    MaxEdits    \* model bound

ASSUME MatchingAssumption == Matching \subseteq Texts
ASSUME ChoicesAssumption ==
    Domains \subseteq {"issues", "documents", "memory"} /\ Policies \subseteq {"rebuild", "prompt", "fail"}
ASSUME BoundsAssumption == MaxKills \in Nat /\ MaxEdits \in Nat
ASSUME NoneAssumption == None \notin Procs \cup Nat /\ Procs \cap Nat = {}

VARIABLES
    domain, policy,
    canon,      \* the canonical files
    old,        \* files whose rebuilt_at is past max_age_ms
    db, side,   \* the file at the cache path; whose sidecar is next to it
    tmp, evac,  \* the private names of a publication: ".tmp", ".evacuated"
    pub,        \* the state directory of a publication
    manifest,   \* the two revisions in it
    cand,       \* calls whose candidate database is there
    holder,
    pc, op,
    loaded,     \* the catalog a call read when it got the lease
    snap,       \* the identities a call captured at the cache path
    rebuilt,    \* the call has activated a cache of its own
    answer,     \* what a call returned
    kills, edits, resets, ids

publication == <<tmp, evac, pub, manifest>>
vars == <<domain, policy, canon, old, db, side, publication, cand, holder, pc, op,
          loaded, snap, rebuilt, answer, kills, edits, resets, ids>>

Catalogs == [Items -> Texts]
FileIds == Procs \cup 0..MaxEdits
Contents == [ours : BOOLEAN, digest : Catalogs, rows : Catalogs, by : FileIds]
Files == [id : FileIds, data : Contents]
ASSUME NoneIsNoFile == None \notin Contents \cup Files

PCs == {"start", "recover", "open", "verify", "stale", "broken", "populate", "activate",
        "prepare", "manifest", "create", "write", "evacuate", "check", "link", "unlink", "drop",
        "settle", "undo", "query", "reread", "match", "close",
        "reset", "move", "remove", "done", "failed", "ambiguous", "dead"}
Over == {"done", "failed", "ambiguous", "dead"}

TypeOK ==
    /\ domain \in Domains /\ policy \in Policies
    /\ canon \in Catalogs /\ old \subseteq FileIds
    /\ db \in Files \cup {None} /\ side \in FileIds \cup {None}
    /\ tmp \in [Procs -> Contents \cup {None, Torn}] /\ evac \in [Procs -> Files \cup {None}]
    /\ pub \in [Procs -> {"none", "prepare", "active", "cleanup"}]
    /\ manifest \in [Procs -> SUBSET (Contents \cup {None})]
    /\ cand \subseteq Procs /\ holder \in Procs \cup {None}
    /\ pc \in [Procs -> PCs] /\ op \in [Procs -> {"search", "check", "reset"}]
    /\ loaded \in [Procs -> Catalogs \cup {None}]
    /\ snap \in [Procs -> [db : FileIds \cup {None}, side : FileIds \cup {None}]]
    /\ rebuilt \subseteq Procs /\ answer \in [Procs -> (SUBSET (Items \X Texts)) \cup {None}]
    /\ \A p \in Procs : pc[p] \notin Over \cup {"start"} <=> holder = p
    /\ kills \in 0..MaxKills /\ edits \in 0..MaxEdits /\ resets \in Nat
    /\ ids \subseteq FileIds

Projection(catalog, by) == [ours |-> TRUE, digest |-> catalog, rows |-> catalog, by |-> by]
IdOf(file) == IF file = None THEN None ELSE file.id

Init ==
    /\ domain \in Domains /\ policy \in Policies
    /\ canon \in Catalogs /\ old \in {{}, {0}}
    /\ db \in {None} \cup {[id |-> 0, data |-> Projection(c, 0)] : c \in Catalogs}
    /\ side = None
    /\ tmp = [t \in Procs |-> None] /\ evac = [t \in Procs |-> None]
    /\ pub = [t \in Procs |-> "none"] /\ manifest = [t \in Procs |-> {}]
    /\ cand = {} /\ holder = None
    /\ pc = [p \in Procs |-> "start"]
    /\ op \in [Procs -> IF domain = "memory" THEN {"search", "check", "reset"} ELSE {"search", "check"}]
    /\ loaded = [p \in Procs |-> None]
    /\ snap = [p \in Procs |-> [db |-> None, side |-> None]]
    /\ rebuilt = {} /\ answer = [p \in Procs |-> None]
    /\ kills = 0 /\ edits = 0 /\ resets = 0 /\ ids = IF db = None THEN {} ELSE {0}

-------------------------------------------------------------------------------
(* Control of one call. *)

Goto(p, l) == pc' = [pc EXCEPT ![p] = l]
History == UNCHANGED <<domain, policy, old, op, kills, edits>>
Rest == UNCHANGED <<domain, policy, old, op, kills, edits, canon, loaded, holder, ids, resets>>
NoFiles == UNCHANGED <<db, side, publication, cand>>

\* The call is over; its lease is released.  A rebuild that fails removes its
\* candidate first (the catch block).
End(p, l) == Goto(p, l) /\ holder' = None

\* withCatalog, locked, withRepositoryAccess: the lease, then the catalog.
Acquire(p) ==
    /\ pc[p] = "start" /\ holder = None
    /\ holder' = p /\ Goto(p, "recover")
    /\ loaded' = [loaded EXCEPT ![p] = canon]
    /\ UNCHANGED <<canon, snap, rebuilt, answer, ids, resets>> /\ NoFiles /\ History

-------------------------------------------------------------------------------
(* Recovery of one publication, and its end: every state directory that is  *)
(* found is settled before the cache is touched; a publication that fails   *)
(* settles its own in the same way.                                         *)

Recovering(p, t) == pc[p] = "recover" \/ (pc[p] = "undo" /\ t = p)
Settling(p, t) == Recovering(p, t) \/ (pc[p] = "settle" /\ t = p)

\* The evacuated file and the one at the path are the old and the new cache.
Authenticated(t) == {evac[t].data, db.data} \subseteq manifest[t]

RecoverTemporary(p, t) ==
    /\ Recovering(p, t) /\ pub[t] = "active" /\ tmp[t] # None
    /\ \/ /\ tmp[t] \in manifest[t]
          /\ tmp' = [tmp EXCEPT ![t] = None]
          /\ UNCHANGED <<db, side, evac, pub, manifest, cand, pc, holder>>
       \/ /\ tmp[t] \notin manifest[t]
          /\ End(p, "ambiguous") /\ cand' = cand \ {p}
          /\ UNCHANGED <<db, side, publication>>
    /\ UNCHANGED <<canon, loaded, snap, rebuilt, answer, ids, resets>> /\ History

\* Mutant: the evacuated file is removed, whatever is at the path.
DropsEvacuated(p, t) == db' = db /\ evac' = [evac EXCEPT ![t] = None]

RestoreEvacuated(p, t) == db' = evac[t] /\ evac' = [evac EXCEPT ![t] = None]

RecoverEvacuated(p, t) ==
    /\ Recovering(p, t) /\ pub[t] = "active" /\ tmp[t] = None /\ evac[t] # None
    /\ \/ /\ db = None /\ RestoreEvacuated(p, t)
          /\ UNCHANGED <<pc, holder, cand>>
       \/ /\ db # None /\ Authenticated(t)
          /\ evac' = [evac EXCEPT ![t] = None] /\ UNCHANGED <<db, pc, holder, cand>>
       \/ /\ db # None /\ ~Authenticated(t)
          /\ End(p, "ambiguous") /\ cand' = cand \ {p} /\ UNCHANGED <<db, evac>>
    /\ UNCHANGED <<canon, loaded, side, tmp, pub, manifest, snap, rebuilt, answer, ids, resets>> /\ History

\* The rename to ".cleanup" is the end of a publication.
Settle(p, t) ==
    /\ Settling(p, t) /\ pub[t] = "active" /\ tmp[t] = None /\ evac[t] = None
    /\ pub' = [pub EXCEPT ![t] = "cleanup"]
    /\ UNCHANGED <<db, side, tmp, evac, manifest, cand, pc, snap, rebuilt, answer>> /\ Rest

Cleanup(p, t) ==
    /\ Settling(p, t) /\ pub[t] \in {"prepare", "cleanup"}
    /\ pub' = [pub EXCEPT ![t] = "none"] /\ manifest' = [manifest EXCEPT ![t] = {}]
    /\ UNCHANGED <<db, side, tmp, evac, cand, pc, snap, rebuilt, answer>> /\ Rest

\* All publications are settled; or the call's own is, and the candidate goes:
\* a successful rebuild opens what it activated, a failed one throws.
Recovered(p) ==
    /\ \/ /\ pc[p] = "recover" /\ \A t \in Procs : pub[t] = "none"
          /\ Goto(p, IF op[p] = "reset" THEN "reset" ELSE "open") /\ UNCHANGED <<rebuilt, cand, holder>>
       \/ /\ pc[p] = "settle" /\ pub[p] = "none"
          /\ Goto(p, "open") /\ rebuilt' = rebuilt \cup {p} /\ cand' = cand \ {p} /\ UNCHANGED holder
       \/ /\ pc[p] = "undo" /\ pub[p] = "none"
          /\ End(p, "failed") /\ cand' = cand \ {p} /\ UNCHANGED rebuilt
    /\ UNCHANGED <<canon, loaded, db, side, publication, snap, answer, ids, resets>> /\ History

-------------------------------------------------------------------------------
(* Opening, verifying, and what the domain does with a cache it cannot use.  *)

\* The identities at the path are those that were captured (a file that was
\* not there may have appeared).
Continuous(p) == snap[p].db = IdOf(db)

\* SQLite creates the sidecars of a database when it reads it.
Open(p) ==
    /\ pc[p] = "open"
    /\ \/ db = None /\ Goto(p, "broken") /\ UNCHANGED <<side, snap>>
       \/ /\ db # None /\ Goto(p, "verify")
          /\ side' = IF db.data.ours THEN db.id ELSE side
          /\ snap' = [snap EXCEPT ![p] = [db |-> db.id, side |-> side']]
    /\ UNCHANGED <<db, publication, cand, rebuilt, answer>> /\ Rest

\* Mutant: the digest is believed, the rows are not compared.
DigestIsEnough(p) == db.data.digest = loaded[p]

\* healthCheck: every row of the projection, and no other (CacheVerification).
RowsMatch(p) == db.data.rows = loaded[p]

\* verifyDatabase: application, schema, integrity, the digest, then the rows.
Verified(p) == db.data.ours /\ db.data.digest = loaded[p] /\ RowsMatch(p)

\* rebuilt_at is within max_age_ms; a cache the call itself rebuilt is used.
Fresh(p) == p \in rebuilt \/ db.data.by \notin old

Closes == side' = None

\* A sound cache of another catalog ("stale-digest"), or one that is too old.
OnlyStale(p) == db.data.ours /\ (db.data.digest = loaded[p] => RowsMatch(p))

Verify(p) ==
    /\ pc[p] = "verify"
    /\ \/ ~Continuous(p) /\ End(p, "failed") /\ UNCHANGED side
       \/ /\ Continuous(p) /\ Verified(p) /\ Fresh(p)
          /\ Goto(p, IF op[p] = "search" THEN "query" ELSE "close") /\ UNCHANGED <<side, holder>>
       \/ /\ Continuous(p) /\ ~(Verified(p) /\ Fresh(p))
          /\ Closes /\ UNCHANGED holder
          /\ Goto(p, IF OnlyStale(p) THEN "stale" ELSE "broken")
    /\ UNCHANGED <<canon, loaded, db, publication, cand, snap, rebuilt, answer, ids, resets>> /\ History

\* The domains ask differently: Issues always, Design Docs when the digest or
\* the age is wrong, Memory when it searches and never when it validates.
Asks(p) ==
    \/ domain = "issues"
    \/ domain = "documents" /\ pc[p] = "stale"
    \/ domain = "memory" /\ op[p] = "search"
Refuses(p, consent) ==
    \/ policy = "fail" /\ ~(domain = "memory" /\ op[p] = "check")
    \/ policy = "prompt" /\ Asks(p) /\ ~consent

Decide(p) ==
    /\ pc[p] \in {"stale", "broken"}
    /\ \E consent \in BOOLEAN :
         \/ (p \in rebuilt \/ Refuses(p, consent)) /\ End(p, "failed") /\ UNCHANGED <<snap, cand>>
         \/ /\ p \notin rebuilt /\ ~Refuses(p, consent)
            /\ Goto(p, "populate") /\ UNCHANGED holder
            /\ snap' = [snap EXCEPT ![p] = [db |-> IdOf(db), side |-> side]]
            /\ cand' = cand \cup {p}
    /\ UNCHANGED <<canon, loaded, db, side, publication, rebuilt, answer, ids, resets>> /\ History

-------------------------------------------------------------------------------
(* Rebuilding: the candidate is populated from the loaded catalog in many   *)
(* awaited statements, then published.                                      *)

\* A deadline, an abort or a domain callback that fails: the candidate goes.
Populate(p) ==
    /\ pc[p] = "populate"
    /\ \/ Goto(p, "activate") /\ UNCHANGED <<cand, holder>>
       \/ End(p, "failed") /\ cand' = cand \ {p}
    /\ UNCHANGED <<canon, loaded, db, side, publication, snap, rebuilt, answer, ids, resets>> /\ History

\* revalidateExactCacheState: the same file, the same sidecars.
Exact(p) == snap[p] = [db |-> IdOf(db), side |-> side]

\* Mutant: the sidecars stay.
KeepsSidecars == side' = side

RemovesSidecars == side' = None

Activate(p) ==
    /\ pc[p] = "activate"
    /\ \/ /\ Exact(p) /\ RemovesSidecars /\ Goto(p, "prepare") /\ UNCHANGED <<cand, holder>>
       \/ ~Exact(p) /\ End(p, "failed") /\ cand' = cand \ {p} /\ UNCHANGED side
    /\ UNCHANGED <<canon, loaded, db, publication, snap, rebuilt, answer, ids, resets>> /\ History

\* The file at the path is read for the manifest: the intended revision next
\* to the one that is replaced.
Prepare(p) ==
    /\ pc[p] = "prepare"
    /\ \/ /\ snap[p].db = IdOf(db) /\ Goto(p, "manifest") /\ UNCHANGED <<cand, holder>>
          /\ pub' = [pub EXCEPT ![p] = "prepare"]
          /\ manifest' = [manifest EXCEPT ![p] =
                {Projection(loaded[p], p), IF db = None THEN None ELSE db.data}]
       \/ /\ snap[p].db # IdOf(db) /\ End(p, "failed") /\ cand' = cand \ {p} /\ UNCHANGED <<pub, manifest>>
    /\ UNCHANGED <<canon, loaded, db, side, tmp, evac, snap, rebuilt, answer, ids, resets>> /\ History

ManifestIsActive(p) ==
    /\ pc[p] = "manifest"
    /\ pub' = [pub EXCEPT ![p] = "active"] /\ Goto(p, "create")
    /\ UNCHANGED <<db, side, tmp, evac, manifest, cand, snap, rebuilt, answer>> /\ Rest

CreateTemporary(p) ==
    /\ pc[p] = "create"
    /\ tmp' = [tmp EXCEPT ![p] = Torn] /\ Goto(p, "write")
    /\ UNCHANGED <<db, side, evac, pub, manifest, cand, snap, rebuilt, answer>> /\ Rest

WriteTemporary(p) ==
    /\ pc[p] = "write"
    /\ tmp' = [tmp EXCEPT ![p] = Projection(loaded[p], p)]
    /\ Goto(p, IF snap[p].db = None THEN "link" ELSE "evacuate")
    /\ UNCHANGED <<db, side, evac, pub, manifest, cand, snap, rebuilt, answer>> /\ Rest

\* The finally block removes the temporary, then the publication is undone.
Undo(p) == Goto(p, "undo") /\ tmp' = [tmp EXCEPT ![p] = None]

Evacuate(p) ==
    /\ pc[p] = "evacuate"
    /\ \/ db = None /\ Undo(p) /\ UNCHANGED <<db, evac>>
       \/ /\ db # None /\ Goto(p, "check") /\ UNCHANGED tmp
          /\ evac' = [evac EXCEPT ![p] = db] /\ db' = None
    /\ UNCHANGED <<side, pub, manifest, cand, snap, rebuilt, answer>> /\ Rest

\* Mutant: what was evacuated is not looked at.
TakesAnyFile(p) == TRUE

EvacuatedIsExpected(p) == evac[p].id = snap[p].db

\* restoreEvacuated: back to the path, unless another file is there.
Restores(p) ==
    IF db = None THEN db' = evac[p] /\ evac' = [evac EXCEPT ![p] = None] ELSE UNCHANGED <<db, evac>>

CheckEvacuated(p) ==
    /\ pc[p] = "check"
    /\ \/ EvacuatedIsExpected(p) /\ Goto(p, "link") /\ UNCHANGED <<tmp, db, evac>>
       \/ ~EvacuatedIsExpected(p) /\ Restores(p) /\ Undo(p)
    /\ UNCHANGED <<side, pub, manifest, cand, snap, rebuilt, answer>> /\ Rest

PathIsFree == db = None

Link(p) ==
    /\ pc[p] = "link"
    /\ \/ /\ PathIsFree /\ Goto(p, "unlink")
          /\ db' = [id |-> p, data |-> Projection(loaded[p], p)] /\ ids' = ids \cup {p}
          /\ UNCHANGED <<tmp, evac>>
       \/ ~PathIsFree /\ Undo(p) /\ UNCHANGED <<db, evac, ids>>
    /\ UNCHANGED <<side, pub, manifest, cand, snap, rebuilt, answer, domain, policy, old, op,
                   kills, edits, canon, loaded, holder, resets>>

\* The published name is still that file; the temporary name goes.
Unlink(p) ==
    /\ pc[p] = "unlink"
    /\ \/ IdOf(db) = p /\ Goto(p, "drop") /\ tmp' = [tmp EXCEPT ![p] = None]
       \/ IdOf(db) # p /\ Undo(p)
    /\ UNCHANGED <<db, side, evac, pub, manifest, cand, snap, rebuilt, answer>> /\ Rest

DropEvacuated(p) ==
    /\ pc[p] = "drop"
    /\ evac' = [evac EXCEPT ![p] = None] /\ Goto(p, "settle")
    /\ UNCHANGED <<db, side, tmp, pub, manifest, cand, snap, rebuilt, answer>> /\ Rest

-------------------------------------------------------------------------------
(* Searching.  Each statement of the handle checks the identity of the file. *)

Hits(catalog) == {i \in Items : catalog[i] \in Matching}
Exactly(catalog) == {<<i, catalog[i]>> : i \in Hits(catalog)}
Candidates(p) ==
    {<<i, IF domain = "issues" THEN db.data.rows[i] ELSE loaded[p][i]>> : i \in Hits(db.data.rows)}

\* Design Docs and Memory answer from the catalog they loaded; Issues reads the
\* canonical files once more and keeps a candidate whose revision is unchanged.
Query(p) ==
    /\ pc[p] = "query"
    /\ \/ ~Continuous(p) /\ End(p, "failed") /\ UNCHANGED answer
       \/ /\ Continuous(p) /\ UNCHANGED holder
          /\ Goto(p, IF domain = "issues" THEN "reread" ELSE "close")
          /\ answer' = [answer EXCEPT ![p] = Candidates(p)]
    /\ NoFiles /\ UNCHANGED <<canon, loaded, snap, rebuilt, ids, resets>> /\ History

StillCanonical(p, catalog) == {h \in answer[p] : catalog[h[1]] = h[2]}

Reread(p) ==
    /\ pc[p] = "reread"
    /\ \/ ~Continuous(p) /\ End(p, "failed") /\ UNCHANGED <<answer, loaded>>
       \/ /\ Continuous(p) /\ UNCHANGED holder /\ Goto(p, "close")
          /\ answer' = [answer EXCEPT ![p] = StillCanonical(p, canon)]
          /\ loaded' = [loaded EXCEPT ![p] = canon]
    /\ NoFiles /\ UNCHANGED <<canon, snap, rebuilt, ids, resets>> /\ History

Close(p) ==
    /\ pc[p] = "close"
    /\ \/ Continuous(p) /\ Closes /\ End(p, "done")
       \/ ~Continuous(p) /\ End(p, "failed") /\ UNCHANGED side
    /\ UNCHANGED <<canon, loaded, db, publication, cand, snap, rebuilt, answer, ids, resets>> /\ History

-------------------------------------------------------------------------------
(* removeDisposableSqliteCache: the exact files that are there, by the same  *)
(* evacuation, under a token that no manifest names.                         *)

Reset(p) ==
    /\ pc[p] = "reset"
    /\ snap' = [snap EXCEPT ![p] = [db |-> IdOf(db), side |-> None]]
    /\ side' = None
    /\ IF db = None THEN End(p, "done") ELSE Goto(p, "move") /\ UNCHANGED holder
    /\ UNCHANGED <<canon, loaded, db, publication, cand, rebuilt, answer, ids, resets>> /\ History

MoveAway(p) ==
    /\ pc[p] = "move"
    /\ \/ db = None /\ End(p, "failed") /\ UNCHANGED <<db, evac, resets>>
       \/ /\ db # None /\ evac' = [evac EXCEPT ![p] = db] /\ db' = None /\ resets' = resets + 1
          /\ Goto(p, "remove") /\ UNCHANGED holder
    /\ UNCHANGED <<canon, loaded, side, tmp, pub, manifest, cand, snap, rebuilt, answer, ids>> /\ History

RemoveMoved(p) ==
    /\ pc[p] = "remove"
    /\ \/ EvacuatedIsExpected(p) /\ evac' = [evac EXCEPT ![p] = None] /\ End(p, "done") /\ UNCHANGED db
       \/ ~EvacuatedIsExpected(p) /\ Restores(p) /\ End(p, "failed")
    /\ UNCHANGED <<canon, loaded, side, tmp, pub, manifest, cand, snap, rebuilt, answer, ids, resets>> /\ History

-------------------------------------------------------------------------------
(* The environment. *)

\* The process dies; the next lease is taken over (RepositoryLease).
Kill(p) ==
    /\ holder = p /\ pc[p] \in KillAt /\ kills < MaxKills
    /\ Goto(p, "dead") /\ holder' = None /\ kills' = kills + 1
    /\ NoFiles
    /\ UNCHANGED <<domain, policy, old, op, edits, canon, loaded, snap, rebuilt, answer, ids, resets>>

\* An editor or git changes the canonical files, or someone deletes the cache
\* or puts another file in its place.
EditCanon ==
    /\ edits < MaxEdits /\ edits' = edits + 1
    /\ canon' \in Catalogs \ {canon} /\ NoFiles
    /\ UNCHANGED <<domain, policy, old, op, kills, loaded, snap, rebuilt, answer, ids, resets, pc, holder>>

Foreign(catalog) ==
    {[ours |-> FALSE, digest |-> catalog, rows |-> catalog, by |-> edits + 1]}
    \cup {[ours |-> TRUE, digest |-> catalog, rows |-> c, by |-> edits + 1] : c \in Catalogs}

EditCache ==
    /\ edits < MaxEdits /\ edits' = edits + 1
    /\ db' \in {None} \cup {[id |-> edits + 1, data |-> d] : d \in Foreign(canon)}
    /\ UNCHANGED <<domain, policy, old, op, kills, canon, loaded, snap, rebuilt, answer, ids, resets,
                   pc, holder, side, publication, cand>>

Step(p) ==
    \/ Acquire(p) \/ Recovered(p) \/ Open(p) \/ Verify(p) \/ Decide(p)
    \/ Populate(p) \/ Activate(p) \/ Prepare(p) \/ ManifestIsActive(p)
    \/ CreateTemporary(p) \/ WriteTemporary(p) \/ Evacuate(p) \/ CheckEvacuated(p)
    \/ Link(p) \/ Unlink(p) \/ DropEvacuated(p)
    \/ Query(p) \/ Reread(p) \/ Close(p)
    \/ Reset(p) \/ MoveAway(p) \/ RemoveMoved(p)
    \/ \E t \in Procs :
         RecoverTemporary(p, t) \/ RecoverEvacuated(p, t) \/ Settle(p, t) \/ Cleanup(p, t)

Next == (\E p \in Procs : Step(p) \/ Kill(p)) \/ EditCanon \/ EditCache
Spec == Init /\ [][Next]_vars

-------------------------------------------------------------------------------
(* Properties. *)

\* A search answers with exactly the items of the canonical catalog that match
\* the query (for Issues: the catalog it read last, without those that changed
\* while it searched), whatever file someone has put at the cache path.
AnswersAreExact ==
    \A p \in Procs : pc[p] = "done" /\ op[p] = "search" =>
        /\ answer[p] \subseteq Exactly(loaded[p])
        /\ domain # "issues" \/ edits = 0 => answer[p] = Exactly(loaded[p])

\* A cache that was activated is never lost to a crash: unless someone deletes
\* or resets it, it or its successor is at its path or recoverable, and it is
\* at its path whenever a call opens it.
CacheSurvives ==
    (edits = 0 /\ resets = 0 /\ ids # {}) =>
        /\ db # None \/ \E t \in Procs : pub[t] = "active" /\ evac[t] # None
        /\ (\E p \in Procs : pc[p] = "open") => db # None

\* A cache that a call published never has the sidecar of another database next
\* to it: whatever a crash or an edit left there, SQLite does not replay the
\* log of one cache into another.
SidecarBelongs == side # None /\ IdOf(db) \in Procs => side = IdOf(db)

\* Without crashes and edits, a call that ends leaves neither private files,
\* nor state directories, nor a candidate, nor sidecars.
NothingIsLeftBehind ==
    (kills = 0 /\ edits = 0 /\ holder = None) =>
        /\ side = None /\ cand = {}
        /\ \A t \in Procs : tmp[t] = None /\ evac[t] = None /\ pub[t] = "none"

\* The types, what may lie next to a cache and what is left behind, and that a
\* published cache survives.
CacheInv == TypeOK /\ SidecarBelongs /\ NothingIsLeftBehind /\ CacheSurvives

\* What RowsMatch stands for: the way in which this domain compares the rows of
\* its cache, page by page, accepts a table just when it is the projection.
AcceptsOnlyTheProjection ==
    /\ domain = "issues" => IssuesAcceptOnlyTheProjection
    /\ domain = "documents" => DocumentsAcceptOnlyTheProjection
    /\ domain = "memory" => MemoryAcceptsOnlyTheProjection

\* A file at the cache path goes for good only by the call that captured it: a
\* file that appears or is substituted while a cache is rebuilt, in a crash
\* or before recovery, is neither replaced nor deleted.
Present == ({IdOf(db)} \cup {IdOf(evac[t]) : t \in Procs}) \ {None}
OnlyCapturedFilesGo ==
    [][edits' = edits => \A id \in Present \ Present' : \E t \in Procs : snap[t].db = id]_vars
===============================================================================
