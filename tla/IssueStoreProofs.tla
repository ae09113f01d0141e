---------------------------- MODULE IssueStoreProofs ----------------------------
(* Proofs about IssueStore for every set of issues, agents, texts, documents,  *)
(* calls and hand edits: the hierarchy and the dependencies stay legal, and    *)
(* what a call replaces was seen by its caller.                                *)
EXTENDS IssueStore, SequenceTheorems, TLAPS

(* What a call knows while it holds the lease. *)
CallInv ==
    /\ holder = None <=> command = None
    /\ holder # None =>
         /\ command \in Commands
         /\ Readable(base) /\ GraphIsValid(base)
         /\ edits = 0 => base = files

(* Without hand edits every catalog on disk is one that a call accepts. *)
GraphInv == edits = 0 => Readable(files) /\ GraphIsValid(files)

Inv == TypeOK /\ CallInv /\ GraphInv

-------------------------------------------------------------------------------
(* What can be reached in a graph. *)

IsClosed(edges, S) == \A j \in S : edges[j] \subseteq S

\* What is reached is closed, and is the least such set.
LEMMA ReachedIsClosed ==
    ASSUME NEW edges \in [Ids -> SUBSET Ids], NEW i \in Ids
    PROVE  /\ Reachable(edges, i) \subseteq Ids /\ edges[i] \subseteq Reachable(edges, i)
           /\ IsClosed(edges, Reachable(edges, i))
BY DEF Reachable, IsClosed

LEMMA ReachedIsLeast ==
    ASSUME NEW edges \in [Ids -> SUBSET Ids], NEW i \in Ids,
           NEW S \in SUBSET Ids, edges[i] \subseteq S, IsClosed(edges, S)
    PROVE  Reachable(edges, i) \subseteq S
BY DEF Reachable, IsClosed

\* What is reached is reached through a first edge.
LEMMA FirstEdge ==
    ASSUME NEW edges \in [Ids -> SUBSET Ids], NEW i \in Ids, NEW j \in Reachable(edges, i)
    PROVE  \E k \in edges[i] : j = k \/ j \in Reachable(edges, k)
<1> DEFINE U == {x \in Ids : \E k \in edges[i] : x = k \/ x \in Reachable(edges, k)}
<1>1. edges[i] \subseteq U
  OBVIOUS
<1>2. ASSUME NEW x \in U PROVE edges[x] \subseteq U
  <2>1. PICK k \in edges[i] : x = k \/ x \in Reachable(edges, k)
    BY <1>2
  <2>2. k \in Ids /\ edges[x] \subseteq Reachable(edges, k) /\ Reachable(edges, k) \subseteq Ids
    BY <2>1, ReachedIsClosed DEF IsClosed
  <2> QED BY <2>1, <2>2
<1>3. Reachable(edges, i) \subseteq U
  BY <1>1, <1>2, ReachedIsLeast DEF IsClosed
<1> QED BY <1>3

\* An issue that reaches itself is on a cycle: every issue that lies between it
\* and itself has an edge to another one of them.
LEMMA NoCycle ==
    ASSUME NEW edges \in [Ids -> SUBSET Ids], NEW ids \in SUBSET Ids,
           \A j \in Ids : edges[j] # {} => j \in ids,
           NEW some, \A j \in ids : edges[j] \subseteq some[j],
           Cycles(ids, some) = {}, NEW i \in Ids
    PROVE  i \notin Reachable(edges, i)
<1> SUFFICES ASSUME i \in Reachable(edges, i) PROVE FALSE
  OBVIOUS
<1> DEFINE S == {j \in Reachable(edges, i) : i \in Reachable(edges, j)}
<1>1. i \in S
  OBVIOUS
<1>2. ASSUME NEW j \in S PROVE j \in ids /\ edges[j] \cap S # {}
  <2>1. j \in Ids /\ i \in Reachable(edges, j) /\ edges[j] \subseteq Reachable(edges, i)
    BY ReachedIsClosed DEF IsClosed
  <2>2. PICK k \in edges[j] : i = k \/ i \in Reachable(edges, k)
    BY <2>1, FirstEdge
  <2>3. k \in S
    BY <2>1, <2>2, <1>1
  <2> QED BY <2>1, <2>2, <2>3
<1>3. \A j \in S : j \in ids /\ some[j] \cap S # {}
  BY <1>2
<1>4. S \in Cycles(ids, some)
  BY <1>1, <1>3 DEF Cycles
<1> QED BY <1>4

\* A valid graph: no issue is its own ancestor or prerequisite, every ancestor
\* exists, and nothing is active below an archived one (inspectIssueGraph).
LEMMA ValidGraphs ==
    ASSUME TypeOK, Readable(files), GraphIsValid(files), NEW i \in Present(files)
    PROVE  /\ i \notin Reachable(Parents, i) /\ i \notin Reachable(Needs, i)
           /\ \A j \in Reachable(Parents, i) :
                 /\ files[j] # None
                 /\ files[i].location = "active" => files[j].location = "active"
<1> DEFINE P == Present(files)
<1>1. \A j \in P : j \in Ids /\ files[j] \in File /\ files[j].record \in Record
  BY DEF TypeOK, Catalogs, Catalog, Readable, Present, File
<1>2. \A j \in P : /\ files[j].record.parent \in Ids \cup {None}
                   /\ files[j].record.depends_on \subseteq Ids
                   /\ ParentIsLegal(files, j) /\ RelationsAreLegal(files, j)
  BY <1>1 DEF Record, GraphIsValid
<1>3. Parents \in [Ids -> SUBSET Ids] /\ Needs \in [Ids -> SUBSET Ids]
  BY <1>2 DEF Parents, Needs, Present
<1>4. P \in SUBSET Ids /\ i \in Ids
  BY DEF Present
<1>5. \A j \in Ids : Parents[j] # {} \/ Needs[j] # {} => j \in P
  BY DEF Parents, Needs, Present
<1>6. i \notin Reachable(Parents, i)
  <2> DEFINE some == [j \in P |-> {files[j].record.parent}]
  <2>1. Cycles(P, some) = {}
    BY DEF GraphIsValid
  <2>2. \A j \in P : Parents[j] \subseteq some[j]
    BY <1>4 DEF Parents
  <2> HIDE DEF some, P
  <2> QED BY <1>3, <1>4, <1>5, <2>1, <2>2, NoCycle
<1>7. i \notin Reachable(Needs, i)
  <2> DEFINE some == [j \in P |-> files[j].record.depends_on]
  <2>1. Cycles(P, some) = {}
    BY DEF GraphIsValid
  <2>2. \A j \in P : Needs[j] \subseteq some[j]
    BY <1>4 DEF Needs, Present
  <2> HIDE DEF some, P
  <2> QED BY <1>3, <1>4, <1>5, <2>1, <2>2, NoCycle
<1>8. ASSUME NEW j \in Reachable(Parents, i)
      PROVE  files[j] # None /\ (files[i].location = "active" => files[j].location = "active")
  <2> DEFINE S == {k \in P : files[i].location = "active" => files[k].location = "active"}
  <2>1. ASSUME NEW k \in S PROVE Parents[k] \subseteq S
    <3>1. k \in P /\ k \in Ids /\ ParentIsLegal(files, k)
      BY <1>2, <1>4
    <3> QED BY <3>1 DEF ParentIsLegal, Parents, Present
  <2>2. i \in S /\ S \in SUBSET Ids
    BY <1>4
  <2>3. Parents[i] \subseteq S /\ IsClosed(Parents, S)
    BY <2>1, <2>2 DEF IsClosed
  <2>4. j \in S
    BY <1>3, <1>4, <2>2, <2>3, ReachedIsLeast
  <2> QED BY <2>4 DEF Present
<1> QED BY <1>6, <1>7, <1>8

-------------------------------------------------------------------------------
(* What a call makes of a record and of a catalog. *)

\* A record command keeps the type of the record it changes.
LEMMA ChangedIsRecord ==
    ASSUME NEW m \in Commands, m.op \in RecordCommands, NEW r \in Record
    PROVE  Changed(m, r) \in Record
<1>1. IsCall(m)
  BY CommandsAssumption
<1>2. CASE m.op = "update"
  <2>1. Changed(m, r) = Patched(r, m.patch)
    BY <1>2 DEF Changed
  <2>2. /\ DOMAIN m.patch \subseteq {"text", "parent"}
        /\ "text" \in DOMAIN m.patch => m.patch["text"] \in Texts
        /\ "parent" \in DOMAIN m.patch => m.patch["parent"] \in Ids \cup {None}
    BY <1>1, <1>2 DEF IsCall
  <2> QED BY <2>1, <2>2 DEF Patched, Record
<1>3. CASE m.op = "comment"
  <2>1. Changed(m, r) = [r EXCEPT !.comments = Append(r.comments, m.body)] /\ m.body \in Texts
    BY <1>1, <1>3 DEF Changed, IsCall
  <2>2. Append(r.comments, m.body) \in Seq(Texts)
    BY <2>1 DEF Record
  <2> QED BY <2>1, <2>2 DEF Record
<1>4. CASE m.op \in {"relate", "unrelate"}
  <2>1. m.target \in Ids /\ m.kind \in Relationships /\ m.id \in Ids
    BY <1>1, <1>4 DEF IsCall
  <2>2. Other(m) \in Ids
    BY <2>1 DEF Other
  <2>3. PICK related : Changed(m, r) = [r EXCEPT ![m.kind] = related] /\ related \in {r[m.kind] \cup {Other(m)}, r[m.kind] \ {Other(m)}}
    BY <1>4 DEF Changed
  <2>4. r[m.kind] \subseteq Ids
    BY <2>1 DEF Record, Relationships
  <2>5. related \subseteq Ids
    BY <2>2, <2>3, <2>4
  <2> QED BY <2>1, <2>3, <2>5 DEF Record, Relationships
<1>5. CASE m.op \in {"link", "unlink"}
  <2>1. m.doc \in Docs
    BY <1>1, <1>5 DEF IsCall
  <2>2. PICK l : Changed(m, r) = [r EXCEPT !.links = l] /\ l \in {r.links \cup {m.doc}, r.links \ {m.doc}}
    BY <1>5 DEF Changed
  <2> QED BY <2>1, <2>2 DEF Record
<1> QED BY <1>2, <1>3, <1>4, <1>5 DEF RecordCommands

\* What a record command without evidence may do to a record: it loses nothing,
\* and no command touches the comments that are there.
LEMMA ChangedKeepsComments ==
    ASSUME NEW m \in Commands, m.op \in RecordCommands, NEW r \in Record
    PROVE  OnlyGrows(r.comments, Changed(m, r).comments)
<1>1. IsCall(m)
  BY CommandsAssumption
<1>2. r.comments \in Seq(Texts)
  BY DEF Record
<1>3. \A c \in Seq(Texts) : OnlyGrows(c, c)
  BY DEF OnlyGrows
<1>4. CASE m.op = "comment"
  <2>1. Changed(m, r).comments = Append(r.comments, m.body) /\ m.body \in Texts
    BY <1>1, <1>4 DEF Changed, IsCall, Record
  <2> QED BY <1>2, <2>1, AppendProperties DEF OnlyGrows
<1>5. CASE m.op = "update"
  <2>1. Changed(m, r).comments = r.comments
    BY <1>1, <1>5 DEF Changed, IsCall, Patched, Record
  <2> QED BY <1>2, <1>3, <2>1
<1>6. CASE m.op \in {"relate", "unrelate"}
  <2>1. m.kind \in Relationships
    BY <1>1, <1>6 DEF IsCall
  <2>2. Changed(m, r).comments = r.comments
    BY <1>6, <2>1 DEF Changed, Record, Relationships
  <2> QED BY <1>2, <1>3, <2>2
<1>7. CASE m.op \in {"link", "unlink"}
  <2>1. Changed(m, r).comments = r.comments
    BY <1>7 DEF Changed, Record
  <2> QED BY <1>2, <1>3, <2>1
<1> QED BY <1>4, <1>5, <1>6, <1>7 DEF RecordCommands

LEMMA AddingLosesNothing ==
    ASSUME NEW m \in Commands, m.op \in {"comment", "relate", "link"}, NEW r \in Record
    PROVE  ~Loses(r, Changed(m, r))
<1>1. IsCall(m)
  BY CommandsAssumption
<1>2. CASE m.op = "comment"
  BY <1>2 DEF Changed, Record, Loses, Relationships
<1>3. CASE m.op = "relate"
  <2>1. m.kind \in Relationships
    BY <1>1, <1>3 DEF IsCall
  <2> QED BY <1>3, <2>1 DEF Changed, Record, Loses, Relationships
<1>4. CASE m.op = "link"
  BY <1>4 DEF Changed, Record, Loses, Relationships
<1> QED BY <1>2, <1>3, <1>4

\* A subtree consists of issues that are there (issueSubtree).
LEMMA SubtreeIsThere ==
    ASSUME NEW c, NEW i \in Present(c), NEW loc
    PROVE  Subtree(c, i, loc) \subseteq Present(c) /\ i \in Subtree(c, i, loc)
<1>1. Present(c) \in SUBSET Ids /\ \A j \in Present(c) : Children(c, j, loc) \subseteq Present(c)
  BY DEF Present, Children
<1> QED BY <1>1 DEF Subtree

\* The catalog a call proposes.
LEMMA ProposedIsCatalog ==
    ASSUME TypeOK, CallInv, holder # None, Applies(command, base)
    PROVE  /\ Proposed(command, base) \in Catalog /\ Readable(Proposed(command, base))
           /\ Present(base) \subseteq Present(Proposed(command, base))
<1> DEFINE c == Proposed(command, base)
<1>1. command \in Commands /\ IsCall(command)
  BY CommandsAssumption DEF CallInv
<1>2. base \in Catalog /\ Readable(base)
  BY DEF CallInv, TypeOK, Catalogs
<1>3. \A i \in Present(base) : i \in Ids /\ base[i] \in File /\ base[i].record \in Record
  BY <1>2 DEF Present, Catalog, Readable, File
<1>4. \A i \in Ids : base[i] \in File \cup {None}
  BY <1>2 DEF Catalog, Readable
<1>5. CASE command.op \in RecordCommands
  <2> DEFINE o == Owner(command)
  <2>1. o \in Present(base)
    <3>1. CASE command.op = "relate"
      BY <3>1 DEF Applies, Owner, MoveCommands
    <3>2. CASE command.op # "relate"
      BY <1>1, <1>5, <3>2 DEF Applies, Present, MoveCommands, RecordCommands, Owner, Swapped, IsCall
    <3> QED BY <3>1, <3>2
  <2>2. base[o] \in File /\ Changed(command, base[o].record) \in Record
    BY <1>1, <1>3, <1>5, <2>1, ChangedIsRecord
  <2> HIDE DEF o
  <2>3. c = [base EXCEPT ![o] = Republished(command, base[o])]
    BY <1>5 DEF Proposed, o, RecordCommands, MoveCommands
  <2>4. Republished(command, base[o]) \in File
    BY <2>2 DEF File, Republished
  <2> QED BY <1>2, <1>4, <2>1, <2>3, <2>4, NoFileAssumption DEF Catalog, Readable, Present
<1>6. CASE command.op \in MoveCommands
  <2> DEFINE T == Subtree(base, command.id, From(command))
  <2>1. c = [i \in Ids |-> IF i \in T THEN [base[i] EXCEPT !.location = To(command)] ELSE base[i]]
    BY <1>6 DEF Proposed, MoveCommands, RecordCommands
  <2>2. command.id \in Present(base)
    BY <1>6 DEF Applies, MoveCommands, RecordCommands
  <2>3. T \subseteq Present(base)
    BY <2>2, SubtreeIsThere
  <2>4. To(command) \in Locations
    BY DEF To, Locations
  <2> HIDE DEF T
  <2>5. \A i \in T : [base[i] EXCEPT !.location = To(command)] \in File
    BY <1>3, <2>3, <2>4 DEF File
  <2> QED BY <1>2, <1>4, <2>1, <2>5, NoFileAssumption DEF Catalog, Readable, Present
<1>7. CASE command.op \in {"create", "import"}
  <2>1. c = [i \in Ids |-> IF i \in DOMAIN command.issues THEN command.issues[i] ELSE base[i]]
    BY <1>7 DEF Proposed, MoveCommands, RecordCommands
  <2>2. \A i \in DOMAIN command.issues : command.issues[i] \in File
    BY <1>1, <1>7 DEF IsCall
  <2> QED BY <1>2, <1>4, <2>1, <2>2, NoFileAssumption DEF Catalog, Readable, Present
<1> QED BY <1>1, <1>5, <1>6, <1>7 DEF IsCall

\* What a successful call writes: its proposal where it changed something, on
\* top of a folder that holds what it read there.
LEMMA WrittenIsTyped ==
    ASSUME TypeOK, CallInv, holder # None, Succeeds
    PROVE  /\ Written \in Catalogs
           /\ \A i \in Ids : Written[i] # files[i] =>
                 /\ files[i] = base[i] /\ Written[i] = Proposed(command, base)[i]
<1> DEFINE c == Proposed(command, base)
<1>1. c \in Catalog /\ Readable(c)
  BY ProposedIsCatalog DEF Succeeds, Accepted
<1>2. \A i \in Ids : IsFile(c[i])
  <2>1. WithinLimits(c)
    BY DEF Succeeds, Accepted, Valid
  <2> QED BY <2>1, NoFileAssumption DEF WithinLimits, IsFile, Present
<1>3. files \in Catalog /\ \A i \in Ids : IsFile(files[i])
  BY DEF TypeOK, Catalogs
<1>4. Written = [i \in Ids |-> IF c[i] # base[i] THEN c[i] ELSE files[i]]
  BY DEF Written
<1>5. \A i \in Ids : c[i] # base[i] => files[i] = base[i]
  BY DEF Succeeds, Touched
<1> HIDE DEF c
<1>6. Written \in Catalogs
  BY <1>1, <1>2, <1>3, <1>4 DEF Catalogs, Catalog
<1>7. ASSUME NEW i \in Ids, Written[i] # files[i]
      PROVE  files[i] = base[i] /\ Written[i] = c[i]
  BY <1>4, <1>5, <1>7
<1> QED BY <1>6, <1>7 DEF c

\* Without a hand edit a successful call writes the catalog it validated.
LEMMA WrittenIsProposed ==
    ASSUME TypeOK, CallInv, holder # None, Succeeds, edits = 0
    PROVE  Readable(Written) /\ GraphIsValid(Written)
<1> DEFINE c == Proposed(command, base)
<1>1. c \in Catalog /\ Readable(c) /\ GraphIsValid(c)
  BY ProposedIsCatalog DEF Succeeds, Accepted, Valid
<1>2. base = files
  BY DEF CallInv
<1>3. Written = [i \in Ids |-> c[i]]
  BY <1>2 DEF Written
<1>4. [i \in Ids |-> c[i]] = c
  BY <1>1 DEF Catalog
<1> QED BY <1>1, <1>3, <1>4

\* The evidence an answer shows.
LEMMA ToldIsEvidence ==
    ASSUME TypeOK, CallInv, holder # None, Succeeds, NEW e \in Told
    PROVE  e \in (Ids \X (Record \X BOOLEAN)) \cup {None}
<1> DEFINE c == Proposed(command, base)
<1>1. c \in Catalog /\ Readable(c) /\ Present(base) \subseteq Present(c) /\ Applies(command, base)
  BY ProposedIsCatalog DEF Succeeds, Accepted
<1>2. command \in Commands /\ IsCall(command) /\ holder \in Agents
  BY CommandsAssumption DEF CallInv, TypeOK
<1>3. ASSUME NEW i \in Answer PROVE i \in Present(c)
  <2>1. CASE command.op \in RecordCommands
    <3>1. i = Owner(command)
      BY <2>1 DEF Answer, RecordCommands, MoveCommands
    <3>2. Owner(command) \in Present(base)
      <4>1. CASE command.op = "relate"
        BY <1>1, <4>1 DEF Applies, Owner, MoveCommands
      <4>2. CASE command.op # "relate"
        BY <1>1, <1>2, <2>1, <4>2 DEF Applies, Present, MoveCommands, RecordCommands, Owner, Swapped, IsCall
      <4> QED BY <4>1, <4>2
    <3> QED BY <1>1, <3>1, <3>2
  <2>2. CASE command.op \in MoveCommands
    <3>1. i \in Subtree(base, command.id, From(command))
      BY <2>2 DEF Answer, RecordCommands, MoveCommands
    <3>2. command.id \in Present(base)
      BY <1>1, <2>2 DEF Applies, MoveCommands, RecordCommands
    <3> QED BY <1>1, <3>1, <3>2, SubtreeIsThere
  <2>3. CASE command.op = "create"
    <3>1. i \in DOMAIN command.issues /\ i \in Ids /\ command.issues[i] \in File
      BY <1>2, <2>3 DEF Answer, RecordCommands, MoveCommands, IsCall
    <3>2. c[i] = command.issues[i]
      BY <2>3, <3>1 DEF Proposed, RecordCommands, MoveCommands
    <3> QED BY <3>1, <3>2, NoFileAssumption DEF Present
  <2>4. CASE command.op = "import"
    BY <2>4 DEF Answer, RecordCommands, MoveCommands
  <2> QED BY <1>2, <2>1, <2>2, <2>3, <2>4 DEF IsCall
<1>4. \A i \in Present(c) : i \in Ids /\ c[i] \in File
  BY <1>1 DEF Present, Catalog, Readable
<1>5. \A i \in Present(c) : Evidence(c, i) \in Ids \X (Record \X BOOLEAN)
  BY <1>4 DEF Evidence, Revision, File
<1> QED BY <1>2, <1>3, <1>5 DEF Told, TypeOK

-------------------------------------------------------------------------------
(* The invariant. *)

LEMMA NoFilesIsCatalog == NoFiles \in Catalogs
BY NoFileAssumption DEF NoFiles, Catalogs, Catalog, IsFile

LEMMA InitInv == Init => Inv
BY StartsAssumption, NoFilesIsCatalog DEF Init, Inv, TypeOK, CallInv, GraphInv

\* A call that ends.
LEMMA ReturnKeeps ==
    ASSUME Inv, Return, UNCHANGED <<docs, edits>>, files' \in Catalogs,
           seen' \in [Agents -> (Ids \X (Record \X BOOLEAN)) \cup {None}],
           edits = 0 => Readable(files') /\ GraphIsValid(files')
    PROVE  Inv'
<1>1. TypeOK'
  BY NoFilesIsCatalog DEF Inv, TypeOK, Return
<1>2. CallInv' /\ GraphInv'
  BY DEF Return, CallInv, GraphInv
<1> QED BY <1>1, <1>2 DEF Inv

LEMMA CallKeeps ==
    ASSUME Inv, NEW a \in Agents, NEW m \in Commands, Call(a, m)
    PROVE  Inv'
<1>1. TypeOK'
  BY DEF Inv, TypeOK, Call
<1>2. CallInv'
  BY IdsAssumption, NoCallAssumption DEF Call, CallInv
<1>3. GraphInv'
  BY DEF Inv, GraphInv, Call
<1> QED BY <1>1, <1>2, <1>3 DEF Inv

LEMMA FinishKeeps == ASSUME Inv, Finish PROVE Inv'
<1>1. holder # None /\ holder \in Agents /\ Return /\ UNCHANGED <<docs, edits>>
  BY DEF Finish, Inv, TypeOK
<1>2. CASE Succeeds
  <2>1. PICK e \in Told : files' = Written /\ seen' = [seen EXCEPT ![holder] = e]
    BY <1>2 DEF Finish
  <2>2. Written \in Catalogs /\ (edits = 0 => Readable(Written) /\ GraphIsValid(Written))
    BY <1>1, <1>2, WrittenIsTyped, WrittenIsProposed DEF Inv
  <2>3. e \in (Ids \X (Record \X BOOLEAN)) \cup {None}
    BY <1>1, <1>2, ToldIsEvidence DEF Inv
  <2>4. seen' \in [Agents -> (Ids \X (Record \X BOOLEAN)) \cup {None}]
    BY <2>1, <2>3 DEF Inv, TypeOK
  <2> QED BY <1>1, <2>1, <2>2, <2>4, ReturnKeeps
<1>3. CASE ~Succeeds
  <2>1. UNCHANGED <<files, seen>>
    BY <1>3 DEF Finish
  <2> QED BY <1>1, <2>1, ReturnKeeps DEF Inv, TypeOK, GraphInv
<1> QED BY <1>2, <1>3

LEMMA AbortKeeps == ASSUME Inv, Abort PROVE Inv'
<1>1. holder # None /\ Return /\ UNCHANGED <<docs, seen, edits>>
  BY DEF Abort
<1>2. files' = files \/ (Succeeds /\ files' = Written)
  BY DEF Abort
<1>3. files' \in Catalogs /\ (edits = 0 => Readable(files') /\ GraphIsValid(files'))
  BY <1>1, <1>2, WrittenIsTyped, WrittenIsProposed DEF Inv, TypeOK, GraphInv
<1> QED BY <1>1, <1>3, ReturnKeeps DEF Inv, TypeOK

LEMMA GetKeeps ==
    ASSUME Inv, NEW a \in Agents, NEW i \in Ids, Get(a, i)
    PROVE  Inv'
<1>1. files[i] \in File
  BY DEF Get, Readable, Inv, TypeOK, Catalogs, Catalog
<1>2. Evidence(files, i) \in Ids \X (Record \X BOOLEAN)
  BY <1>1 DEF Evidence, Revision, File
<1>3. TypeOK'
  BY <1>2 DEF Inv, TypeOK, Get, callVars
<1> QED BY <1>3 DEF Inv, Get, callVars, CallInv, GraphInv

\* An operator's file, or a document that is gone, counts as an edit.
LEMMA EditKeeps ==
    ASSUME Inv, edits' = edits + 1, UNCHANGED <<seen, callVars>>, files' \in Catalogs, docs' \subseteq docs
    PROVE  Inv'
<1>1. edits' # 0 /\ edits' \in Nat
  BY DEF Inv, TypeOK
<1> QED BY <1>1 DEF Inv, TypeOK, callVars, CallInv, GraphInv

LEMMA StepInv == Inv /\ [Next]_vars => Inv'
<1> SUFFICES ASSUME Inv, [Next]_vars PROVE Inv'
  OBVIOUS
<1>1. CASE UNCHANGED vars
  BY <1>1 DEF vars, callVars, Inv, TypeOK, CallInv, GraphInv
<1>2. ASSUME NEW e \in Edits, OperatorEdit(e) PROVE Inv'
  <2>1. files' \in Catalogs
    BY <1>2, EditsAssumption DEF OperatorEdit, Inv, TypeOK, Catalogs, Catalog
  <2> QED BY <1>2, <2>1, EditKeeps DEF OperatorEdit
<1>3. ASSUME NEW d \in Docs, DropDoc(d) PROVE Inv'
  <2>1. files' \in Catalogs
    BY <1>3 DEF DropDoc, Inv, TypeOK
  <2> QED BY <1>3, <2>1, EditKeeps DEF DropDoc
<1> QED BY <1>1, <1>2, <1>3, CallKeeps, FinishKeeps, AbortKeeps, GetKeeps DEF Next

LEMMA Invariance == Spec => []Inv
BY InitInv, StepInv, PTL DEF Spec

-------------------------------------------------------------------------------
(* The properties. *)

\* The types hold, and no sequence of calls, cut short or not, closes a cycle or
\* leaves an issue without an ancestor or active below an archived one
\* (validateProposed, publishRecord, inspectIssueGraph).
THEOREM HierarchyIsLegal == Spec => []IssuesInv
<1>1. Inv => IssuesInv
  BY ValidGraphs DEF Inv, GraphInv, IssuesInv, HierarchyHolds
<1> QED BY <1>1, Invariance, PTL

\* What a call that ends did to an issue that is there.
LEMMA EndsByProposal ==
    ASSUME Inv, Next, CallEnds, NEW i \in Ids, files'[i] # files[i]
    PROVE  /\ Succeeds /\ files[i] = base[i] /\ files'[i] = Proposed(command, base)[i]
<1>1. holder # None
  BY DEF CallEnds
<1>2. (Succeeds /\ files' = Written) \/ files' = files
  <2>1. CASE Finish
    BY <2>1 DEF Finish
  <2>2. CASE Abort
    BY <2>2 DEF Abort
  <2>3. ASSUME NEW a \in Agents, NEW m \in Commands, Call(a, m) PROVE FALSE
    BY <1>1, <2>3 DEF Call
  <2>4. ASSUME NEW a \in Agents, NEW j \in Ids, Get(a, j) PROVE FALSE
    BY <2>4 DEF Get, callVars, CallEnds
  <2>5. ASSUME NEW e \in Edits, OperatorEdit(e) PROVE FALSE
    BY <2>5 DEF OperatorEdit, callVars, CallEnds
  <2>6. ASSUME NEW d \in Docs, DropDoc(d) PROVE FALSE
    BY <2>6 DEF DropDoc, callVars, CallEnds
  <2> QED BY <2>1, <2>2, <2>3, <2>4, <2>5, <2>6 DEF Next
<1> QED BY <1>1, <1>2, WrittenIsTyped DEF Inv

\* Nothing goes from an issue but from the very revision its caller was told
\* (assertRevision), and comments only grow.
LEMMA ProposalWasSeen ==
    ASSUME Inv, holder # None, Accepted, NEW i \in Ids, base[i] # None,
           NEW f, f = Proposed(command, base)[i], f # base[i]
    PROVE  /\ base[i] # Unreadable /\ f # None
           /\ Loses(base[i].record, f.record) => seen[holder] = Evidence(base, i)
           /\ OnlyGrows(base[i].record.comments, f.record.comments)
<1>1. command \in Commands /\ IsCall(command) /\ Applies(command, base) /\ EvidenceHolds(holder, command, base)
  BY CommandsAssumption DEF Inv, CallInv, Accepted
<1>2. base \in Catalog /\ base[i] \in File /\ i \in Present(base) /\ base[i].record \in Record /\ base[i] # Unreadable
  BY NoFileAssumption DEF Inv, CallInv, TypeOK, Catalogs, Catalog, Readable, Present, File
<1>3. f # None
  BY <1>2, ProposedIsCatalog DEF Inv, Accepted, Present
<1>4. ASSUME f.record = base[i].record PROVE ~Loses(base[i].record, f.record) /\ OnlyGrows(base[i].record.comments, f.record.comments)
  <2>1. base[i].record.comments \in Seq(Texts)
    BY <1>2 DEF Record
  <2> QED BY <1>4, <2>1 DEF Loses, OnlyGrows
<1>5. CASE command.op \in RecordCommands
  <2> DEFINE r == base[i].record
  <2>1. Proposed(command, base) = [base EXCEPT ![Owner(command)] = Republished(command, base[Owner(command)])]
    BY <1>5 DEF Proposed, RecordCommands, MoveCommands
  <2>2. i = Owner(command) /\ f = Republished(command, base[i])
    BY <1>2, <2>1 DEF Catalog
  <2>3. f.record = Changed(command, r)
    BY <1>2, <2>2 DEF Republished, File
  <2>4. OnlyGrows(r.comments, f.record.comments)
    BY <1>1, <1>2, <1>5, <2>3, ChangedKeepsComments
  <2>5. CASE command.op \in {"comment", "relate", "link"}
    BY <1>1, <1>2, <1>3, <2>3, <2>4, <2>5, AddingLosesNothing
  <2>6. CASE command.op \in {"update", "unrelate", "unlink"}
    <3>1. NeedsEvidence(command) /\ EvidenceOf(command) = i
      BY <2>2, <2>6 DEF NeedsEvidence, EvidenceOf, Owner, Swapped
    <3>2. seen[holder] = Evidence(base, i)
      BY <1>1, <3>1 DEF EvidenceHolds
    <3> QED BY <1>2, <1>3, <2>4, <3>2
  <2> QED BY <1>5, <2>5, <2>6 DEF RecordCommands
<1>6. CASE command.op \in MoveCommands
  <2>1. f = IF i \in Subtree(base, command.id, From(command)) THEN [base[i] EXCEPT !.location = To(command)] ELSE base[i]
    BY <1>6 DEF Proposed, RecordCommands, MoveCommands
  <2>2. f.record = base[i].record
    BY <1>2, <2>1 DEF File
  <2> QED BY <1>2, <1>3, <1>4, <2>2
<1>7. CASE command.op \in {"create", "import"}
  <2>1. i \notin DOMAIN command.issues
    BY <1>2, <1>7, <1>1 DEF Applies, RecordCommands, MoveCommands
  <2>2. f = base[i]
    BY <1>7, <2>1 DEF Proposed, RecordCommands, MoveCommands
  <2> QED BY <2>2
<1> QED BY <1>1, <1>5, <1>6, <1>7 DEF IsCall

\* What a call replaces or removes in an issue, its caller had seen.
THEOREM ReplacedWasSeen == Spec => WhatIsReplacedWasSeen
<1>1. ASSUME Inv, [Next]_vars, NEW i \in Ids, CallEnds, files[i] # None, files'[i] # files[i]
      PROVE  /\ files[i] # Unreadable /\ files'[i] # None
             /\ Loses(files[i].record, files'[i].record) => seen[holder] = Evidence(files, i)
             /\ OnlyGrows(files[i].record.comments, files'[i].record.comments)
  <2>1. Next
    BY <1>1 DEF vars, callVars, CallEnds
  <2>2. Succeeds /\ files[i] = base[i] /\ files'[i] = Proposed(command, base)[i]
    BY <1>1, <2>1, EndsByProposal
  <2>3. Accepted /\ holder # None
    BY <1>1, <2>2 DEF Succeeds, CallEnds
  <2>4. Evidence(files, i) = Evidence(base, i)
    BY <2>2 DEF Evidence
  <2> QED BY <1>1, <2>2, <2>3, <2>4, ProposalWasSeen
<1>2. Inv /\ [Next]_vars =>
        [\A i \in Ids : CallEnds /\ files[i] # None /\ files'[i] # files[i] =>
              /\ files[i] # Unreadable /\ files'[i] # None
              /\ Loses(files[i].record, files'[i].record) => seen[holder] = Evidence(files, i)
              /\ OnlyGrows(files[i].record.comments, files'[i].record.comments)]_vars
  BY <1>1
<1> QED BY <1>2, Invariance, PTL DEF Spec, WhatIsReplacedWasSeen
===============================================================================
