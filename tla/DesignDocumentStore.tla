--------------------------- MODULE DesignDocumentStore ---------------------------
(***************************************************************************)
(* The design-document store of @neottia/design-docs and the issue links   *)
(* that @neottia/issues-design-docs checks against it.  A document is a    *)
(* lineage of Markdown files, one per version, all active or all archived. *)
(* A call holds the authority lease, reads the whole catalog, compares the *)
(* caller's revision with that of the latest version, validates the        *)
(* catalog it proposes, and hands one canonical batch to the repository    *)
(* store with the byte revisions it read.  Issues live under the same      *)
(* authority: one lease serves both.                                       *)
(*                                                                         *)
(* A canonical batch is one step (RepositoryTransaction implements it) and *)
(* so is the grant of the lease (RepositoryLease, AuthorityQueue).         *)
(***************************************************************************)
EXTENDS Naturals, FiniteSets

CONSTANTS
    Ids,            \* document identifiers
    Titles, Slug,   \* Slug[t]: what a file name keeps of title t
    Texts,          \* values of kind, body and metadata
    Ragged,         \* texts that end in blanks, which encodeDocument keeps
    Births,         \* values of created_at
    Agents,         \* callers of the tools
    None,           \* no call, nothing seen, no version in a link
    Unreadable,     \* a file that discoverCatalog rejects by itself
    Starts,         \* catalogs a repository may start from
    Commands,       \* the calls the agents make
    Edits,          \* <<R, S>>: an operator may replace files R by files S
    MaxVersions,    \* limits.max_versions
    MaxEdits        \* model bound

ASSUME NothingAssumption == None \notin Ids \cup Agents \cup {Unreadable}
ASSUME BoundsAssumption == MaxVersions \in Nat /\ MaxEdits \in Nat

VARIABLES
    files,          \* the files of the document folder
    links,          \* addresses that issues link to
    seen,           \* seen[a]: the version of a document a was told of last
    holder,         \* the agent whose call runs under the lease
    command,        \* its call
    base,           \* the files it read
    edits

callVars == <<holder, command, base>>
vars == <<files, links, seen, callVars, edits>>

Statuses == {"draft", "review", "approved"}
Locations == {"active", "archive"}
Versions == 1 .. MaxVersions

\* A version is its bytes; its revision is a digest of them.  updated_at is
\* left out: two writes of one version within a millisecond have one revision.
Version == [id : Ids, version : Versions, title : Titles, status : Statuses,
            text : Texts, born : Births]
File == [doc : Version, loc : Locations]

Filename(doc) == <<doc.id, doc.version, Slug[doc.title]>>
Path(f) == <<f.loc, Filename(f.doc)>>

\* What a folder can hold: finitely many files, one under each path.
IsFolder(c) ==
    /\ c \subseteq File \cup {Unreadable} /\ IsFiniteSet(c)
    /\ \A f, g \in c \ {Unreadable} : Path(f) = Path(g) => f = g

\* What the schemas of the tools admit, and the link commands of the issue tools.
LinkCommands == {"link", "unlink"}
Calls ==
    [op : {"create"}, id : Ids, title : Titles, text : Texts, born : Births]
    \cup [op : {"update", "version"}, id : Ids, title : Titles, text : Texts]
    \cup [op : {"transition"}, id : Ids, to : Statuses]
    \cup [op : {"archive", "restore"}, id : Ids]
    \cup [op : {"import"}, preview : BOOLEAN, documents : SUBSET File]
    \cup [op : LinkCommands, address : Ids \X (Versions \cup {None})]

ASSUME UnreadableAssumption == Unreadable \notin File
ASSUME CommandsAssumption ==
    /\ Commands \subseteq Calls
    /\ \A m \in Commands : m.op = "import" => IsFolder(m.documents)
ASSUME EditsAssumption == \A e \in Edits : IsFolder(e[2])

TypeOK ==
    /\ IsFolder(files)
    /\ links \subseteq Ids \X (Versions \cup {None})
    /\ seen \in [Agents -> Version \cup {None}]
    /\ holder \in Agents \cup {None} /\ command \in Commands \cup {None}
    /\ IsFolder(base)
    /\ edits \in 0 .. MaxEdits

Init ==
    /\ files \in Starts /\ links = {}
    /\ seen = [a \in Agents |-> None]
    /\ holder = None /\ command = None /\ base = {}
    /\ edits = 0

-------------------------------------------------------------------------------
(* What a catalog must be. *)

Lineage(c, id) == {f \in c : f.doc.id = id}
Latest(c, id) ==
    CHOOSE f \in Lineage(c, id) : \A g \in Lineage(c, id) : g.doc.version <= f.doc.version

\* validateLineage
LineageIsValid(c, id) ==
    LET lineage == Lineage(c, id)
        versions == {f.doc.version : f \in lineage}
    IN  /\ Cardinality(lineage) <= MaxVersions
        /\ Cardinality({f.loc : f \in lineage}) <= 1
        /\ versions = 1 .. Cardinality(lineage)
        /\ Cardinality({f.doc.born : f \in lineage}) <= 1
        /\ \A f \in lineage : f.doc.version < Cardinality(lineage) => f.doc.status = "approved"

\* catalogFromEntities
CatalogIsValid(c) == \A id \in Ids : LineageIsValid(c, id)

ProposalIsValid(c) == CatalogIsValid(c)

\* discoverCatalog: decodeDocument encodes what it read again and compares, so a
\* text that ends in blanks, which it trims, is not in canonical form.
Decodes(doc) == doc.text \notin Ragged
Loads(c) ==
    /\ Unreadable \notin c
    /\ \A f \in c : Decodes(f.doc)
    /\ CatalogIsValid(c)

ASSUME StartsAssumption == \A c \in Starts : IsFolder(c) /\ Loads(c)

\* resolveCatalogAddresses
Resolves(c, address) ==
    \E f \in c : f.doc.id = address[1] /\ address[2] \in {None, f.doc.version}

-------------------------------------------------------------------------------
(* The batch of a call: the files it removes and those it writes. *)

Batch == [removes : SUBSET File, writes : SUBSET File]
Nothing == [removes |-> {}, writes |-> {}]

\* Mutant: the caller's revision is not compared.
IsThere(m, loc) ==
    LET lineage == Lineage(base, m.id) IN lineage # {} /\ \A f \in lineage : f.loc = loc

\* requireCurrent: the whole lineage is where the call looks for it, and its
\* latest version is exactly what the caller was told.
IsCurrent(m, loc) ==
    LET lineage == Lineage(base, m.id)
    IN  /\ lineage # {} /\ \A f \in lineage : f.loc = loc
        /\ Latest(base, m.id).doc = seen[holder]

Patched(doc, m) == [doc EXCEPT !.title = m.title, !.text = m.text]

\* replaceEntity: one file, under another name when the title's slug changes
Replace(f, doc) == [removes |-> {f}, writes |-> {[f EXCEPT !.doc = doc]}]

\* create: a draft, under an identifier no document of the catalog has
CreateBatch(m) ==
    IF Lineage(base, m.id) = {}
    THEN {[removes |-> {}, writes |-> {[loc |-> "active",
              doc |-> [id |-> m.id, version |-> 1, title |-> m.title, status |-> "draft",
                       text |-> m.text, born |-> m.born]]}]}
    ELSE {}

\* Mutant: approved versions may be updated.
UpdateAny(m) ==
    IF IsCurrent(m, "active") THEN {Replace(Latest(base, m.id), Patched(Latest(base, m.id).doc, m))}
    ELSE {}

\* replaceCurrent
UpdateBatch(m) ==
    LET f == Latest(base, m.id)
    IN  IF IsCurrent(m, "active") /\ f.doc.status # "approved"
        THEN {Replace(f, Patched(f.doc, m))} ELSE {}

AllowedTransitions == {<<"draft", "review">>, <<"review", "draft">>, <<"review", "approved">>}

TransitionBatch(m) ==
    LET f == Latest(base, m.id)
    IN  IF IsCurrent(m, "active") /\ <<f.doc.status, m.to>> \in AllowedTransitions
        THEN {Replace(f, [f.doc EXCEPT !.status = m.to])} ELSE {}

VersionBatch(m) ==
    LET f == Latest(base, m.id)
    IN  IF IsCurrent(m, "active") /\ f.doc.status = "approved"
        THEN {[removes |-> {}, writes |-> {[loc |-> "active",
                  doc |-> [Patched(f.doc, m) EXCEPT !.status = "draft", !.version = @ + 1]]}]}
        ELSE {}

\* Mutant: the archive keeps the latest version only.
MoveLatest(m, from, to) ==
    IF IsCurrent(m, from)
    THEN {[removes |-> Lineage(base, m.id),
           writes |-> {[Latest(base, m.id) EXCEPT !.loc = to, !.doc.version = 1]}]}
    ELSE {}

\* moveLineage
MoveBatch(m, from, to) ==
    IF IsCurrent(m, from)
    THEN {[removes |-> Lineage(base, m.id),
           writes |-> {[f EXCEPT !.loc = to] : f \in Lineage(base, m.id)}]}
    ELSE {}

\* import: what was exported elsewhere, or a harnessctl bundle put in canonical
\* form; nothing is imported when one of its documents is unsupported, or one of
\* its versions is there already.
ImportBatch(m) ==
    LET present == {<<f.doc.id, f.doc.version>> : f \in base}
        conflicts == {f \in m.documents : <<f.doc.id, f.doc.version>> \in present}
    IN  IF ~m.preview /\ conflicts = {} THEN {[removes |-> {}, writes |-> m.documents]} ELSE {}

Proposed(m) ==
    CASE m.op = "create"     -> CreateBatch(m)
      [] m.op = "update"     -> UpdateBatch(m)
      [] m.op = "transition" -> TransitionBatch(m)
      [] m.op = "version"    -> VersionBatch(m)
      [] m.op = "archive"    -> MoveBatch(m, "active", "archive")
      [] m.op = "restore"    -> MoveBatch(m, "archive", "active")
      [] m.op = "import"     -> ImportBatch(m)
      [] OTHER               -> {}

After(c, b) == (c \ b.removes) \cup b.writes

\* Mutant: what is written is not decoded first.
AnyEntity(f) == TRUE

\* newEntity: what is written has been decoded
NewEntity(f) == Decodes(f.doc)

Accepted ==
    {b \in Proposed(command) :
        (\A f \in b.writes : NewEntity(f)) /\ ProposalIsValid(After(base, b))}

\* applyCanonicalBatch: what it removes or replaces is what was read, and what
\* it adds is not there yet.
Expected(b) ==
    /\ b.removes \subseteq files
    /\ \A f \in b.writes : \A g \in files \ (b.removes \cup {Unreadable}) : Path(g) # Path(f)

-------------------------------------------------------------------------------
(* The calls. *)

\* locked: under the lease, a catalog that loads; an issue call reads the
\* catalog of the issues, and its resolver that of the documents.
Call(a, m) ==
    /\ holder = None
    /\ m.op \in LinkCommands \/ Loads(files)
    /\ holder' = a /\ command' = m /\ base' = files
    /\ UNCHANGED <<files, links, seen, edits>>

Return == holder' = None /\ command' = None /\ base' = {}

\* entityRecord, entitySummary: the version the answer shows
Told(b) ==
    CASE command.op = "import" -> seen[holder]
      [] command.op \in {"archive", "restore"} -> Latest(b.writes, command.id).doc
      [] OTHER -> (CHOOSE f \in b.writes : TRUE).doc

\* The call publishes and answers, or throws and changes nothing.
Finish ==
    /\ holder # None /\ command.op \notin LinkCommands
    /\ \/ \E b \in Accepted :
              /\ Expected(b)
              /\ files' = After(files, b)
              /\ seen' = [seen EXCEPT ![holder] = Told(b)]
       \/ /\ \A b \in Accepted : ~Expected(b)
          /\ UNCHANGED <<files, seen>>
    /\ Return /\ UNCHANGED <<links, edits>>

\* An abort, a deadline or the death of the process: the batch was applied or
\* not, and the caller is not told.
Abort ==
    /\ holder # None
    /\ files' \in {files} \cup {After(files, b) : b \in {x \in Accepted : Expected(x)}}
    /\ Return /\ UNCHANGED <<links, seen, edits>>

\* resolveAddressesUnderLease: nothing resolves in a catalog that does not load.
ResolvesAll(c, addresses) == Loads(c) /\ \A l \in addresses : Resolves(c, l)

\* linkDocument of the issue store through resolveMany: every link of every issue
\* must resolve.
FinishLink ==
    /\ holder # None /\ command.op = "link"
    /\ LET proposed == links \cup {command.address}
       IN  links' = IF ResolvesAll(base, proposed) THEN proposed ELSE links
    /\ Return /\ UNCHANGED <<files, seen, edits>>

\* unlinkDocument skips the references.
FinishUnlink ==
    /\ holder # None /\ command.op = "unlink"
    /\ links' = links \ {command.address}
    /\ Return /\ UNCHANGED <<files, seen, edits>>

\* get, list, search
Get(a, f) ==
    /\ holder = None /\ Loads(files) /\ f \in files
    /\ seen' = [seen EXCEPT ![a] = f.doc]
    /\ UNCHANGED <<files, links, callVars, edits>>

\* An operator, an editor or git replaces files of the folder.
OperatorEdit(e) ==
    /\ edits < MaxEdits /\ edits' = edits + 1
    /\ e[1] \subseteq files
    /\ \A f \in e[2] \ {Unreadable} : \A g \in files \ (e[1] \cup {Unreadable}) : Path(f) # Path(g)
    /\ files' = (files \ e[1]) \cup e[2]
    /\ UNCHANGED <<links, seen, callVars>>

Next ==
    \/ \E a \in Agents, m \in Commands : Call(a, m)
    \/ Finish \/ Abort \/ FinishLink \/ FinishUnlink
    \/ \E a \in Agents, f \in files : Get(a, f)
    \/ \E e \in Edits : OperatorEdit(e)

Spec == Init /\ [][Next]_vars

-------------------------------------------------------------------------------
(* Properties. *)

CallEnds == holder # None /\ holder' = None

\* An approved version is immutable: whatever calls end, in whatever order, cut
\* short or racing with an operator, its bytes stay in the folder or its archive.
ApprovedStays ==
    [][CallEnds =>
        \A f \in files \ {Unreadable} : f.doc.status = "approved" =>
            \E g \in files' \ {Unreadable} : g.doc = f.doc]_vars

\* What the calls of the store leave behind it can read again, even when a call
\* is cut short: no lineage with a gap or a fork, split between the two
\* locations, over the limit, or not in canonical form.  One such file would
\* refuse every later call.
CatalogStaysReadable == edits = 0 => Loads(files)

\* A version that a call replaced or approved, or that it read and made a
\* successor of, is exactly the one its caller had been told of; what becomes
\* approved was in review with the same title and text.  A caller that repeats a call whose
\* answer it missed therefore neither approves what it did not see nor makes a
\* second successor.
ChangesWereSeen ==
    [][CallEnds /\ command.op # "import" =>
        LET docs == {f.doc : f \in files \ {Unreadable}}
            after == {f.doc : f \in files' \ {Unreadable}}
        IN  /\ docs \ after \subseteq {seen[holder]}
            /\ \A new \in after \ docs : new.version > 1 =>
                  \E f \in base : f.doc = seen[holder] /\ f.doc.id = new.id
            /\ \A new \in after \ docs :
                  new.status = "approved" => seen[holder] = [new EXCEPT !.status = "review"]]_vars

\* No call of the document store takes away what an issue links to: an
\* address that resolved keeps resolving through revisions, archives, restores
\* and imports, with a version and without.
LinksNeverDangle == edits = 0 => \A l \in links : Resolves(files, l)
===============================================================================
