------------------------------- MODULE IssueStore -------------------------------
(***************************************************************************)
(* The issue store of @neottia/issues: one YAML file per issue, changed by *)
(* tool calls of several agents.  A call holds the authority lease, reads  *)
(* the whole catalog, checks the caller's revision evidence, proposes a    *)
(* catalog, validates its graph and its design-document links, and hands   *)
(* the changed files to one canonical batch with the byte revisions it     *)
(* read.  Operators edit the files at any time, leases or not.             *)
(*                                                                         *)
(* A canonical batch is one step here; RepositoryTransaction implements    *)
(* it.  So is the lease: RepositoryLease and AuthorityQueue grant it.      *)
(***************************************************************************)
EXTENDS Naturals, Sequences

CONSTANTS
    Ids,            \* issue identifiers, in lexical order
    Agents,         \* callers of the tools
    Texts,          \* values of title, status, body, assignee and metadata
    Docs,           \* design documents a link may name
    None,           \* no file, no parent, no revision
    Unreadable,     \* a file that inspectIssueCatalog rejects
    Starts,         \* catalogs a repository may start from
    Commands,       \* the calls the agents make
    Edits,          \* <<i, f>>: an operator may make f the file of issue i
    MaxComments,    \* issueRecordSchema: comments of one issue
    MaxEdits        \* model bound

ASSUME IdsAssumption == Ids \subseteq Nat /\ None \notin Ids \cup Agents
ASSUME NoCallAssumption == None \notin Commands
ASSUME LimitsAssumption == MaxComments \in Nat /\ MaxEdits \in Nat

VARIABLES
    files,          \* files[i]: the file of issue i
    docs,           \* documents the resolver finds
    seen,           \* seen[a]: an issue a was told of, and its revision then
    holder,         \* the agent whose call runs under the lease
    command,        \* its call
    base,           \* the catalog it read
    edits

callVars == <<holder, command, base>>
vars == <<files, docs, seen, callVars, edits>>

Types == {"initiative", "epic", "story", "task", "bug"}
Relationships == {"depends_on", "relates_to", "duplicates", "supersedes"}
Locations == {"active", "archive"}

Record == [type : Types, text : Texts, parent : Ids \cup {None},
           depends_on : SUBSET Ids, relates_to : SUBSET Ids,
           duplicates : SUBSET Ids, supersedes : SUBSET Ids,
           comments : Seq(Texts), links : SUBSET Docs]
File == [record : Record, location : Locations, canonical : BOOLEAN]

\* The revision is a digest of the bytes: the record and how it is formatted,
\* wherever the file is.  updated_at is left out: the same record published
\* twice has one revision, as it has within a millisecond.
Revision(f) == <<f.record, f.canonical>>

\* What a caller was told of issue i.  A caller that keeps the revisions of
\* several issues is several agents here.
Evidence(c, i) == <<i, Revision(c[i])>>

Catalog == [Ids -> File \cup {None, Unreadable}]
Present(c) == {i \in Ids : c[i] # None}
NoFiles == [i \in Ids |-> None]

\* What a file on disk can be: one that decodes, no file, or one that does not.
IsFile(f) == f \in File => Len(f.record.comments) <= MaxComments
Catalogs == {c \in Catalog : \A i \in Ids : IsFile(c[i])}

RecordCommands == {"update", "comment", "relate", "unrelate", "link", "unlink"}
MoveCommands == {"archive", "restore"}

\* What the schemas of the tools admit.
IsCall(m) ==
    /\ m.op \in RecordCommands \cup MoveCommands \cup {"create", "import"}
    /\ m.op \notin {"create", "import"} => m.id \in Ids
    /\ m.op = "update" =>
          /\ DOMAIN m.patch \subseteq {"text", "parent"}
          /\ "text" \in DOMAIN m.patch => m.patch["text"] \in Texts
          /\ "parent" \in DOMAIN m.patch => m.patch["parent"] \in Ids \cup {None}
    /\ m.op = "comment" => m.body \in Texts
    /\ m.op \in {"relate", "unrelate"} => m.target \in Ids /\ m.kind \in Relationships
    /\ m.op \in {"link", "unlink"} => m.doc \in Docs
    /\ m.op \in {"create", "import"} =>
          DOMAIN m.issues \subseteq Ids /\ \A i \in DOMAIN m.issues : m.issues[i] \in File

ASSUME NoFileAssumption == None # Unreadable /\ {None, Unreadable} \cap File = {}
ASSUME CommandsAssumption == \A m \in Commands : IsCall(m)
ASSUME EditsAssumption ==
    \A e \in Edits : e[1] \in Ids /\ e[2] \in File \cup {None, Unreadable} /\ IsFile(e[2])

TypeOK ==
    /\ files \in Catalogs
    /\ docs \subseteq Docs
    /\ seen \in [Agents -> (Ids \X (Record \X BOOLEAN)) \cup {None}]
    /\ holder \in Agents \cup {None}
    /\ command \in Commands \cup {None}
    /\ base \in Catalogs
    /\ edits \in Nat

Init ==
    /\ files \in Starts /\ docs = Docs
    /\ seen = [a \in Agents |-> None]
    /\ holder = None /\ command = None /\ base = NoFiles
    /\ edits = 0

-------------------------------------------------------------------------------
(* What a catalog must be: inspectIssueCatalog, inspectIssueGraph and         *)
(* validateReferences.                                                        *)

AllowedParents ==
    [initiative |-> {}, epic |-> {"initiative"}, story |-> {"epic", "initiative"},
     task |-> {"story", "epic"}, bug |-> {"story", "task", "epic"}]

\* assertAcyclic: in a set of issues that all have an edge into the set, the
\* edges go round.
Cycles(ids, edges) ==
    {S \in SUBSET {i \in ids : edges[i] \cap ids # {}} :
        S # {} /\ \A i \in S : edges[i] \cap S # {}}

ParentIsLegal(c, i) ==
    LET p == c[i].record.parent
    IN  p # None =>
            /\ p \in Present(c)
            /\ c[p].record.type \in AllowedParents[c[i].record.type]
            /\ c[i].location = "active" => c[p].location = "active"

RelationsAreLegal(c, i) ==
    \A k \in Relationships : \A j \in c[i].record[k] :
        /\ j # i /\ j \in Present(c)
        /\ k = "relates_to" => i < j

Readable(c) == Unreadable \notin {c[i] : i \in Ids}

GraphIsValid(c) ==
    LET parent == [i \in Present(c) |-> {c[i].record.parent}]
        depends_on == [i \in Present(c) |-> c[i].record.depends_on]
        findings == {i \in Present(c) : ~(ParentIsLegal(c, i) /\ RelationsAreLegal(c, i))}
    IN  findings = {} /\ Cycles(Present(c), parent) = {} /\ Cycles(Present(c), depends_on) = {}

ASSUME StartsAssumption == \A c \in Starts : c \in Catalogs /\ Readable(c) /\ GraphIsValid(c)

LinksResolve(c) == \A i \in Present(c) : c[i].record.links \subseteq docs

\* issueRecordSchema, when the record is encoded.
WithinLimits(c) == \A i \in Present(c) : Len(c[i].record.comments) <= MaxComments

-------------------------------------------------------------------------------
(* What a call proposes. *)

\* relates_to is stored by the lexically smaller issue.
Swapped(m) ==
    m.op \in {"relate", "unrelate"} /\ m.kind = "relates_to" /\ m.target < m.id
Owner(m) == IF Swapped(m) THEN m.target ELSE m.id
Other(m) == IF Swapped(m) THEN m.id ELSE m.target

Patched(r, patch) ==
    [x \in DOMAIN r |-> IF x \in DOMAIN patch THEN patch[x] ELSE r[x]]

Changed(m, r) ==
    CASE m.op = "update"   -> Patched(r, m.patch)
      [] m.op = "comment"  -> [r EXCEPT !.comments = Append(@, m.body)]
      [] m.op = "relate"   -> [r EXCEPT ![m.kind] = @ \cup {Other(m)}]
      [] m.op = "unrelate" -> [r EXCEPT ![m.kind] = @ \ {Other(m)}]
      [] m.op = "link"     -> [r EXCEPT !.links = @ \cup {m.doc}]
      [] m.op = "unlink"   -> [r EXCEPT !.links = @ \ {m.doc}]

Children(c, i, loc) ==
    {j \in Present(c) : c[j].location = loc /\ c[j].record.parent = i}

\* issueSubtree: the issue and what hangs below it at the same location.
Subtree(c, i, loc) ==
    LET closed == {S \in SUBSET Ids :
                      i \in S /\ \A j \in S : Children(c, j, loc) \subseteq S}
    IN  {j \in Ids : \A S \in closed : j \in S}

From(m) == IF m.op = "archive" THEN "active" ELSE "archive"
To(m) == IF m.op = "archive" THEN "archive" ELSE "active"

\* The issues a call needs to be there, or not to be there.
Applies(m, c) ==
    \/ m.op \in RecordCommands \ {"relate"} /\ c[Owner(m)] # None
    \/ m.op = "relate" /\ {m.id, m.target} \subseteq Present(c)
    \/ m.op \in MoveCommands /\ m.id \in Present(c) /\ c[m.id].location = From(m)
    \/ m.op \in {"create", "import"} /\ DOMAIN m.issues \cap Present(c) = {}

\* A record that does not change is still written in canonical form (finishNoOp).
Republished(m, f) == [f EXCEPT !.record = Changed(m, f.record), !.canonical = TRUE]

\* The whole catalog after the call.
Proposed(m, c) ==
    CASE m.op \in RecordCommands ->
            [c EXCEPT ![Owner(m)] = Republished(m, @)]
      [] m.op \in MoveCommands ->
            [i \in Ids |-> IF i \in Subtree(c, m.id, From(m))
                           THEN [c[i] EXCEPT !.location = To(m)] ELSE c[i]]
      [] OTHER ->
            [i \in Ids |-> IF i \in DOMAIN m.issues THEN m.issues[i] ELSE c[i]]

\* expected_revision: required for what replaces or removes, optional
\* ("checked") for what adds.  relate compares the source even when the target
\* owns the relation.
NeedsEvidence(m) ==
    \/ m.op \in {"update", "unrelate", "unlink", "archive", "restore"}
    \/ m.op \in {"comment", "relate", "link"} /\ m.checked
EvidenceOf(m) == IF m.op = "unrelate" THEN Owner(m) ELSE m.id

\* Mutant: only the calls that move files compare revisions.
EvidenceForMovesOnly(a, m, c) ==
    m.op \in MoveCommands => seen[a] = Evidence(c, m.id)

EvidenceHolds(a, m, c) ==
    NeedsEvidence(m) => seen[a] = Evidence(c, EvidenceOf(m))

\* Mutant: every call needs the links of the catalog it read to resolve.
ValidatesEveryLink(m, c) == WithinLimits(c) /\ GraphIsValid(c) /\ LinksResolve(base)

\* Mutant: the catalog that was read is validated, not the one proposed.
ValidatesOldGraph(m, c) == WithinLimits(c) /\ (m.op # "unlink" => LinksResolve(c))

\* validateProposed and publishRecord: unlink skips the references.
Valid(m, c) ==
    /\ WithinLimits(c) /\ GraphIsValid(c)
    /\ m.op # "unlink" => LinksResolve(c)

-------------------------------------------------------------------------------
(* The calls. *)

\* withCatalog: under the lease, a catalog that is read and found valid.
Call(a, m) ==
    /\ holder = None
    /\ Readable(files) /\ GraphIsValid(files)
    /\ holder' = a /\ command' = m /\ base' = files
    /\ UNCHANGED <<files, docs, seen, edits>>

Accepted ==
    /\ Applies(command, base) /\ EvidenceHolds(holder, command, base)
    /\ Valid(command, Proposed(command, base))

Touched ==
    LET proposed == Proposed(command, base) IN {i \in Ids : proposed[i] # base[i]}
Written ==
    LET proposed == Proposed(command, base)
    IN  [i \in Ids |-> IF proposed[i] # base[i] THEN proposed[i] ELSE files[i]]

\* applyCanonicalBatch: every file of the batch still is what was read.
Succeeds == Accepted /\ \A i \in Touched : files[i] = base[i]

\* The issues the answer shows.
Answer ==
    CASE command.op \in RecordCommands -> {Owner(command)}
      [] command.op \in MoveCommands   -> Subtree(base, command.id, From(command))
      [] command.op = "create"         -> DOMAIN command.issues
      [] OTHER                         -> {}
Told == IF Answer = {} THEN {seen[holder]}
        ELSE {Evidence(Proposed(command, base), i) : i \in Answer}

Return == holder' = None /\ command' = None /\ base' = NoFiles

\* The call publishes and answers, or throws and changes nothing.
Finish ==
    /\ holder # None
    /\ IF Succeeds
       THEN /\ files' = Written
            /\ \E e \in Told : seen' = [seen EXCEPT ![holder] = e]
       ELSE UNCHANGED <<files, seen>>
    /\ Return /\ UNCHANGED <<docs, edits>>

\* An abort, a deadline or the death of the process: the batch was applied or
\* not, and the caller is not told.
Abort ==
    /\ holder # None
    /\ files' \in {files} \cup (IF Succeeds THEN {Written} ELSE {})
    /\ Return /\ UNCHANGED <<docs, seen, edits>>

\* get, list, search, export
Get(a, i) ==
    /\ holder = None
    /\ Readable(files) /\ GraphIsValid(files) /\ files[i] # None
    /\ seen' = [seen EXCEPT ![a] = Evidence(files, i)]
    /\ UNCHANGED <<files, docs, callVars, edits>>

\* An operator, an editor or git replaces or removes an issue file.
OperatorEdit(e) ==
    /\ edits < MaxEdits /\ edits' = edits + 1
    /\ files' = [files EXCEPT ![e[1]] = e[2]]
    /\ UNCHANGED <<docs, seen, callVars>>

\* A design document is gone, or its store is disabled or invalid.
DropDoc(d) ==
    /\ edits < MaxEdits /\ edits' = edits + 1
    /\ docs' = docs \ {d}
    /\ UNCHANGED <<files, seen, callVars>>

Next ==
    \/ \E a \in Agents, m \in Commands : Call(a, m)
    \/ Finish \/ Abort
    \/ \E a \in Agents, i \in Ids : Get(a, i)
    \/ \E e \in Edits : OperatorEdit(e)
    \/ \E d \in Docs : DropDoc(d)

Spec == Init /\ [][Next]_vars

-------------------------------------------------------------------------------
(* Fairness: a call ends; an agent that wants to remove a dangling link looks *)
(* and tries again and again (a waiting call gets the lease: RepositoryLease,  *)
(* AuthorityQueue), and its calls are not cut short every time.                *)

Dangling(i) == files[i] \notin {None, Unreadable} /\ ~(files[i].record.links \subseteq docs)

Unlinks(a, m) ==
    /\ m.op = "unlink" /\ Dangling(m.id) /\ m.doc \in files[m.id].record.links \ docs
    /\ seen[a] = Evidence(files, m.id)
    /\ Call(a, m)

CallEnds == holder # None /\ holder' = None

FinishUnlink == holder # None /\ command.op = "unlink" /\ Succeeds /\ Finish

Looks(a, i) == Dangling(i) /\ seen[a] # Evidence(files, i) /\ Get(a, i)

Fairness ==
    /\ WF_holder(CallEnds) /\ SF_vars(FinishUnlink)
    /\ SF_vars(\E a \in Agents, i \in Ids : Looks(a, i))
    /\ SF_vars(\E a \in Agents, m \in Commands : Unlinks(a, m))
FairSpec == Spec /\ Fairness

-------------------------------------------------------------------------------
(* Properties. *)

\* What can be reached from i over the edges, i only by a cycle.
Reachable(edges, i) ==
    LET closed == {S \in SUBSET Ids :
                      edges[i] \subseteq S /\ \A j \in S : edges[j] \subseteq S}
    IN  {j \in Ids : \A S \in closed : j \in S}

Parents == [i \in Ids |-> IF files[i] = None THEN {} ELSE {files[i].record.parent} \ {None}]
Needs == [i \in Ids |-> IF files[i] = None THEN {} ELSE files[i].record.depends_on]

\* Whatever sequence of calls the agents make, and whichever of them is cut
\* short, no issue is its own ancestor or its own prerequisite, every ancestor
\* exists, and nothing is active below an archived ancestor.
HierarchyHolds ==
    edits = 0 =>
        \A i \in Present(files) :
            /\ i \notin Reachable(Parents, i) /\ i \notin Reachable(Needs, i)
            /\ \A j \in Reachable(Parents, i) :
                  /\ files[j] # None
                  /\ files[i].location = "active" => files[j].location = "active"

\* The types and the hierarchy, as one invariant.
IssuesInv == TypeOK /\ HierarchyHolds

\* What a call replaces or removes in an issue, its caller had seen: text,
\* parent, a relation or a link goes only from the exact revision the caller
\* was last told, even if an operator edits the file while the call runs.
\* Comments are append-only, whatever the caller had seen.
Loses(r, s) ==
    \/ s.text # r.text \/ s.parent # r.parent
    \/ ~(r.links \subseteq s.links)
    \/ \E k \in Relationships : ~(r[k] \subseteq s[k])
OnlyGrows(before, after) == Len(before) <= Len(after) /\ SubSeq(after, 1, Len(before)) = before
WhatIsReplacedWasSeen ==
    [][\A i \in Ids : CallEnds /\ files[i] # None /\ files'[i] # files[i] =>
          /\ files[i] # Unreadable /\ files'[i] # None
          /\ Loses(files[i].record, files'[i].record) =>
                seen[holder] = Evidence(files, i)
          /\ OnlyGrows(files[i].record.comments, files'[i].record.comments)]_vars

\* A link whose document is gone blocks every other change of every issue, and
\* yet it can be removed: by looking at the issue and unlinking the document.
DanglingLinksGo ==
    (\E i \in Ids : Dangling(i))
        ~> \/ \A i \in Ids : ~Dangling(i)
           \/ ~(Readable(files) /\ GraphIsValid(files))
===============================================================================
