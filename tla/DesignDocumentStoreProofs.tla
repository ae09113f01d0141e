------------------------ MODULE DesignDocumentStoreProofs ------------------------
(* Proofs about DesignDocumentStore for every set of identifiers, titles,      *)
(* texts, agents, calls and hand edits and every limit of versions: approved   *)
(* versions stay, the catalog stays readable, links keep resolving, and what   *)
(* is changed was seen by its caller.                                          *)
EXTENDS DesignDocumentStore, FiniteSetTheorems, TLAPS

(* What a call knows while it holds the lease. *)
CallInv ==
    /\ holder = None => command = None
    /\ holder # None =>
         /\ holder \in Agents /\ command \in Commands
         /\ command.op \notin LinkCommands => Loads(base)
         /\ edits = 0 => base = files

Inv == TypeOK /\ CallInv /\ CatalogStaysReadable /\ LinksNeverDangle

-------------------------------------------------------------------------------
(* Lineages of a catalog that loads. *)

\* A lineage that is valid has a latest version (validateLineage: its versions
\* are consecutive from 1, and none is missing).
LEMMA LatestIsThere ==
    ASSUME NEW c, IsFiniteSet(c), NEW id, LineageIsValid(c, id), Lineage(c, id) # {}
    PROVE  /\ Latest(c, id) \in Lineage(c, id)
           /\ Latest(c, id) \in c /\ Latest(c, id).doc.id = id
<1> DEFINE L == Lineage(c, id)
           n == Cardinality(L)
<1>1. IsFiniteSet(L)
  BY FS_Subset DEF Lineage
<1>2. n \in Nat /\ n # 0
  BY <1>1, FS_CardinalityType, FS_EmptySet
<1>3. {f.doc.version : f \in L} = 1 .. n
  BY DEF LineageIsValid
<1> HIDE DEF L, n
<1>4. n \in 1 .. n
  BY <1>2
<1>5. PICK f \in L : f.doc.version = n
  BY <1>3, <1>4
<1>6. \A g \in L : g.doc.version <= f.doc.version
  <2> TAKE g \in L
  <2>1. g.doc.version \in 1 .. n
    BY <1>3
  <2> QED BY <2>1, <1>2, <1>5
<1>7. Latest(c, id) \in L
  BY <1>6 DEF Latest, L
<1> QED BY <1>7 DEF L, Lineage

\* The versions of a valid lineage are within the limit.
LEMMA VersionsAreBounded ==
    ASSUME NEW c, IsFiniteSet(c), NEW f \in c, LineageIsValid(c, f.doc.id)
    PROVE  f.doc.version \in Versions
<1> DEFINE L == Lineage(c, f.doc.id)
<1>1. IsFiniteSet(L)
  BY FS_Subset DEF Lineage
<1>2. Cardinality(L) \in Nat /\ Cardinality(L) <= MaxVersions
  BY <1>1, FS_CardinalityType DEF LineageIsValid
<1>3. f.doc.version \in 1 .. Cardinality(L)
  BY DEF LineageIsValid, Lineage
<1> QED BY <1>2, <1>3, BoundsAssumption DEF Versions

-------------------------------------------------------------------------------
(* The batch of a call. *)

\* What the fields of a call are.
LEMMA CallFields ==
    ASSUME NEW m \in Commands
    PROVE  /\ m.op = "create" => m.id \in Ids /\ m.title \in Titles /\ m.text \in Texts /\ m.born \in Births
           /\ m.op \in {"update", "version"} => m.id \in Ids /\ m.title \in Titles /\ m.text \in Texts
           /\ m.op = "transition" => m.id \in Ids /\ m.to \in Statuses
           /\ m.op \in {"archive", "restore"} => m.id \in Ids
           /\ m.op = "import" => m.documents \subseteq File /\ IsFolder(m.documents)
           /\ m.op \in LinkCommands => m.address \in Ids \X (Versions \cup {None})
BY CommandsAssumption DEF Calls, LinkCommands

\* A call on one document: it is there, and what its batch is built from.
LEMMA CurrentIsThere ==
    ASSUME IsFolder(base), Loads(base), NEW m, m.id \in Ids, NEW loc, IsCurrent(m, loc)
    PROVE  /\ Latest(base, m.id) \in base /\ Latest(base, m.id) \in File
           /\ Latest(base, m.id) \in Lineage(base, m.id)
           /\ Latest(base, m.id).doc.id = m.id /\ Latest(base, m.id).loc = loc
           /\ Latest(base, m.id).doc = seen[holder]
<1>1. LineageIsValid(base, m.id) /\ IsFiniteSet(base) /\ Lineage(base, m.id) # {}
  BY DEF Loads, CatalogIsValid, IsFolder, IsCurrent
<1>2. Latest(base, m.id) \in base /\ Latest(base, m.id).doc.id = m.id /\ Latest(base, m.id) \in Lineage(base, m.id)
  BY <1>1, LatestIsThere
<1>3. Latest(base, m.id) \in File
  BY <1>2 DEF Loads, IsFolder
<1> QED BY <1>2, <1>3 DEF IsCurrent

(* What every batch of a call is like, before it is accepted: the first part   *)
(* is what the folder needs of it, the others what the properties need.        *)
BatchIsTyped(b) ==
    /\ b.removes \subseteq base
    /\ IsFiniteSet(b.writes)
    /\ \A f \in b.writes : f.doc.id \in Ids /\ (f.doc.version \in Versions => f \in File)
    /\ \A f, g \in b.writes : Path(f) = Path(g) => f = g

\* A version that goes comes back, with the same bytes when it is approved.
BatchKeeps(b) ==
    \A f \in b.removes : \E g \in b.writes :
        /\ g.doc.id = f.doc.id /\ g.doc.version = f.doc.version
        /\ f.doc.status = "approved" => g.doc = f.doc

\* What goes for good was seen; what is new was made from what was seen.
BatchWasSeen(b) ==
    /\ \A f \in b.removes : f.doc = seen[holder] \/ \E g \in b.writes : g.doc = f.doc
    /\ \A g \in b.writes :
          \/ \E f \in b.removes : g.doc = f.doc
          \/ /\ \/ g.doc.version = 1
                \/ \E f \in base : f.doc = seen[holder] /\ f.doc.id = g.doc.id
             /\ g.doc.status = "approved" => seen[holder] = [g.doc EXCEPT !.status = "review"]

BatchIsSound(b) ==
    /\ BatchIsTyped(b) /\ BatchKeeps(b)
    /\ command.op # "import" => BatchWasSeen(b) /\ b.writes # {}

\* create
LEMMA CreateIsSound ==
    ASSUME command \in Commands, command.op = "create", NEW b \in CreateBatch(command)
    PROVE  BatchIsSound(b)
<1> DEFINE d == [id |-> command.id, version |-> 1, title |-> command.title, status |-> "draft",
                 text |-> command.text, born |-> command.born]
           f == [loc |-> "active", doc |-> d]
<1>1. b = [removes |-> {}, writes |-> {f}]
  BY DEF CreateBatch
<1>2. b.removes = {} /\ b.writes = {f}
  BY <1>1
<1>3. d.id \in Ids /\ (d.version \in Versions => d \in Version)
  BY CallFields DEF Version, Statuses
<1>4. f.doc = d /\ f.loc = "active"
  OBVIOUS
<1>5. f.doc.version \in Versions => f \in File
  BY <1>3, <1>4 DEF File, Locations
<1>6. BatchIsTyped(b)
  BY <1>2, <1>3, <1>4, <1>5, FS_Singleton DEF BatchIsTyped
<1>7. BatchKeeps(b)
  BY <1>2 DEF BatchKeeps
<1>8. BatchWasSeen(b)
  BY <1>2, <1>4 DEF BatchWasSeen
<1> QED BY <1>2, <1>6, <1>7, <1>8 DEF BatchIsSound

\* What replaces one version by another of the same identifier.
LEMMA ReplaceIsSound ==
    ASSUME NEW f \in base, f \in File, f.doc = seen[holder], f.doc.status # "approved",
           NEW d \in Version, d.id = f.doc.id, d.version = f.doc.version,
           d.status = "approved" => f.doc = [d EXCEPT !.status = "review"],
           NEW b, b = Replace(f, d)
    PROVE  BatchIsSound(b)
<1> DEFINE g == [f EXCEPT !.doc = d]
<1>1. b.removes = {f} /\ b.writes = {g}
  BY DEF Replace
<1>2. g \in File /\ g.doc = d
  BY DEF File
<1>3. d.id \in Ids
  BY DEF Version
<1> HIDE DEF g
<1>4. BatchIsTyped(b)
  BY <1>1, <1>2, <1>3, FS_Singleton DEF BatchIsTyped
<1>5. BatchKeeps(b)
  BY <1>1, <1>2 DEF BatchKeeps
<1>6. BatchWasSeen(b)
  BY <1>1, <1>2 DEF BatchWasSeen
<1> QED BY <1>1, <1>4, <1>5, <1>6 DEF BatchIsSound

\* update
LEMMA UpdateIsSound ==
    ASSUME IsFolder(base), Loads(base), command \in Commands, command.op = "update",
           NEW b \in UpdateBatch(command)
    PROVE  BatchIsSound(b)
<1> DEFINE f == Latest(base, command.id)
           d == Patched(f.doc, command)
<1>1. IsCurrent(command, "active") /\ f.doc.status # "approved" /\ b = Replace(f, d)
  BY DEF UpdateBatch
<1>2. command.id \in Ids /\ command.title \in Titles /\ command.text \in Texts
  BY CallFields
<1>3. f \in base /\ f \in File /\ f.doc = seen[holder]
  BY <1>1, <1>2, CurrentIsThere
<1> HIDE DEF f
<1>4. f.doc \in Version
  BY <1>3 DEF File
<1>5. d \in Version /\ d.id = f.doc.id /\ d.version = f.doc.version /\ d.status = f.doc.status
  BY <1>2, <1>4 DEF Version, Patched
<1> HIDE DEF d
<1> QED BY <1>1, <1>3, <1>5, ReplaceIsSound

\* transition
LEMMA TransitionIsSound ==
    ASSUME IsFolder(base), Loads(base), command \in Commands, command.op = "transition",
           NEW b \in TransitionBatch(command)
    PROVE  BatchIsSound(b)
<1> DEFINE f == Latest(base, command.id)
           d == [f.doc EXCEPT !.status = command.to]
<1>1. IsCurrent(command, "active") /\ <<f.doc.status, command.to>> \in AllowedTransitions /\ b = Replace(f, d)
  BY DEF TransitionBatch
<1>2. command.id \in Ids /\ command.to \in Statuses
  BY CallFields
<1>3. f \in base /\ f \in File /\ f.doc = seen[holder]
  BY <1>1, <1>2, CurrentIsThere
<1> HIDE DEF f
<1>4. f.doc \in Version
  BY <1>3 DEF File
<1>5. d \in Version /\ d.id = f.doc.id /\ d.version = f.doc.version /\ d.status = command.to
  BY <1>2, <1>4 DEF Version
<1>6. f.doc.status # "approved" /\ (command.to = "approved" => f.doc.status = "review")
  BY <1>1 DEF AllowedTransitions
<1>7. [d EXCEPT !.status = "review"] = [f.doc EXCEPT !.status = "review"]
  BY <1>4 DEF Version
<1>8. f.doc.status = "review" => f.doc = [f.doc EXCEPT !.status = "review"]
  BY <1>4 DEF Version
<1> HIDE DEF d
<1> QED BY <1>1, <1>3, <1>5, <1>6, <1>7, <1>8, ReplaceIsSound

\* version
LEMMA VersionIsSound ==
    ASSUME IsFolder(base), Loads(base), command \in Commands, command.op = "version",
           NEW b \in VersionBatch(command)
    PROVE  BatchIsSound(b)
<1> DEFINE f == Latest(base, command.id)
           d == [Patched(f.doc, command) EXCEPT !.status = "draft", !.version = @ + 1]
           g == [loc |-> "active", doc |-> d]
<1>1. IsCurrent(command, "active") /\ b = [removes |-> {}, writes |-> {g}]
  BY DEF VersionBatch
<1>2. command.id \in Ids /\ command.title \in Titles /\ command.text \in Texts
  BY CallFields
<1>3. f \in base /\ f \in File /\ f.doc = seen[holder]
  BY <1>1, <1>2, CurrentIsThere
<1> HIDE DEF f
<1>4. f.doc \in Version
  BY <1>3 DEF File
<1>5. d.id \in Ids /\ d.id = f.doc.id /\ d.status = "draft" /\ (d.version \in Versions => d \in Version)
  BY <1>2, <1>4 DEF Version, Patched, Statuses
<1>6. b.removes = {} /\ b.writes = {g} /\ g.doc = d /\ g.loc = "active"
  BY <1>1
<1> HIDE DEF d
<1>7. g.doc.version \in Versions => g \in File
  BY <1>5, <1>6 DEF File, Locations
<1> HIDE DEF g
<1>8. BatchIsTyped(b)
  BY <1>5, <1>6, <1>7, FS_Singleton DEF BatchIsTyped
<1>9. BatchKeeps(b)
  BY <1>6 DEF BatchKeeps
<1>10. BatchWasSeen(b)
  BY <1>3, <1>5, <1>6 DEF BatchWasSeen
<1> QED BY <1>6, <1>8, <1>9, <1>10 DEF BatchIsSound

\* archive, restore
LEMMA MoveIsSound ==
    ASSUME IsFolder(base), Loads(base), command \in Commands, command.op \in {"archive", "restore"},
           NEW from, NEW to \in Locations, NEW b \in MoveBatch(command, from, to)
    PROVE  /\ BatchIsSound(b)
           /\ \A f \in b.writes : f.doc.id = command.id
           /\ b.removes = Lineage(base, command.id)
<1> DEFINE L == Lineage(base, command.id)
           moved == [f \in L |-> [f EXCEPT !.loc = to]]
<1>1. IsCurrent(command, from) /\ b = [removes |-> L, writes |-> {[f EXCEPT !.loc = to] : f \in L}]
  BY DEF MoveBatch
<1>2. L # {} /\ \A f \in L : f.loc = from
  BY <1>1 DEF IsCurrent
<1>3. L \subseteq base /\ IsFiniteSet(L) /\ L \subseteq File /\ \A f \in L : f.doc.id = command.id
  BY FS_Subset DEF Lineage, IsFolder, Loads
<1>4. b.removes = L /\ b.writes = {moved[f] : f \in L}
  BY <1>1
<1>5. \A f \in L : moved[f] \in File /\ moved[f].doc = f.doc /\ moved[f].loc = to
  BY <1>3 DEF File
<1>6. moved \in Surjection(L, b.writes)
  BY <1>4 DEF Surjection
<1>7. IsFiniteSet(b.writes)
  BY <1>3, <1>6, FS_Surjection
<1> HIDE DEF moved
<1>8. \A f, g \in L : Path(moved[f]) = Path(moved[g]) => f = g
  <2> SUFFICES ASSUME NEW f \in L, NEW g \in L, Path(moved[f]) = Path(moved[g]) PROVE f = g
    OBVIOUS
  <2>1. Path(f) = Path(g)
    BY <1>2, <1>5 DEF Path
  <2>2. f \in base \ {Unreadable} /\ g \in base \ {Unreadable}
    BY <1>3 DEF Loads
  <2> QED BY <2>1, <2>2 DEF IsFolder
<1> HIDE DEF L
<1>9. \A f \in L : f.doc.id \in Ids
  BY <1>3 DEF File, Version
<1>10. BatchIsTyped(b)
  BY <1>3, <1>4, <1>5, <1>7, <1>8, <1>9 DEF BatchIsTyped
<1>11. BatchKeeps(b)
  BY <1>4, <1>5 DEF BatchKeeps
<1>12. BatchWasSeen(b)
  BY <1>4, <1>5 DEF BatchWasSeen
<1>13. b.writes # {}
  BY <1>2, <1>4
<1>14. BatchIsSound(b)
  BY <1>10, <1>11, <1>12, <1>13 DEF BatchIsSound
<1> QED BY <1>3, <1>4, <1>5, <1>14 DEF L

\* import
LEMMA ImportIsSound ==
    ASSUME command \in Commands, command.op = "import", NEW b \in ImportBatch(command)
    PROVE  BatchIsSound(b)
<1>1. b.removes = {} /\ b.writes = command.documents
  BY DEF ImportBatch
<1>2. command.documents \subseteq File /\ IsFolder(command.documents)
  BY CallFields
<1>3. \A f \in command.documents : f \in File /\ f.doc.id \in Ids /\ f # Unreadable
  BY <1>2, UnreadableAssumption DEF File, Version
<1>4. BatchIsTyped(b)
  BY <1>1, <1>2, <1>3 DEF BatchIsTyped, IsFolder
<1> QED BY <1>1, <1>4 DEF BatchIsSound, BatchKeeps

\* Every batch that a call proposes is sound; link calls propose none.
LEMMA ProposedIsSound ==
    ASSUME IsFolder(base), Loads(base), command \in Commands, NEW b \in Proposed(command)
    PROVE  /\ BatchIsSound(b)
           /\ command.op \in {"archive", "restore"} =>
                /\ b.removes = Lineage(base, command.id)
                /\ \A f \in b.writes : f.doc.id = command.id
<1>1. CASE command.op = "create"
  BY <1>1, CreateIsSound DEF Proposed
<1>2. CASE command.op = "update"
  BY <1>2, UpdateIsSound DEF Proposed
<1>3. CASE command.op = "transition"
  BY <1>3, TransitionIsSound DEF Proposed
<1>4. CASE command.op = "version"
  BY <1>4, VersionIsSound DEF Proposed
<1>5. CASE command.op = "archive"
  BY <1>5, MoveIsSound DEF Proposed, Locations
<1>6. CASE command.op = "restore"
  BY <1>6, MoveIsSound DEF Proposed, Locations
<1>7. CASE command.op = "import"
  BY <1>7, ImportIsSound DEF Proposed
<1>8. CASE command.op \notin {"create", "update", "transition", "version", "archive", "restore", "import"}
  BY <1>8 DEF Proposed
<1> QED BY <1>1, <1>2, <1>3, <1>4, <1>5, <1>6, <1>7, <1>8

-------------------------------------------------------------------------------
(* What a batch that is accepted and applied makes of the folder. *)

LEMMA AcceptedIsSound ==
    ASSUME TypeOK, CallInv, holder # None, NEW b \in Accepted
    PROVE  /\ IsFolder(base) /\ Loads(base) /\ command \in Commands /\ b \in Proposed(command)
           /\ BatchIsSound(b) /\ b.writes \subseteq File
           /\ CatalogIsValid(After(base, b)) /\ IsFiniteSet(After(base, b))
           /\ \A f \in b.writes : Decodes(f.doc)
<1>1. command \in Commands /\ IsFolder(base) /\ b \in Proposed(command)
  BY DEF CallInv, TypeOK, Accepted
<1>2. command.op \notin LinkCommands
  BY <1>1 DEF Proposed, LinkCommands
<1>3. Loads(base)
  BY <1>2 DEF CallInv
<1>4. BatchIsSound(b)
  BY <1>1, <1>3, ProposedIsSound
<1>5. CatalogIsValid(After(base, b)) /\ \A f \in b.writes : Decodes(f.doc)
  BY DEF Accepted, ProposalIsValid, NewEntity
<1>6. IsFiniteSet(base \ b.removes) /\ IsFiniteSet(b.writes)
  BY <1>1, <1>4, FS_Subset DEF IsFolder, BatchIsSound, BatchIsTyped
<1>7. IsFiniteSet(After(base, b))
  BY <1>6, FS_Union DEF After
<1>8. ASSUME NEW f \in b.writes PROVE f \in File
  <2>1. f \in After(base, b)
    BY DEF After
  <2>2. f.doc.id \in Ids /\ (f.doc.version \in Versions => f \in File)
    BY <1>4 DEF BatchIsSound, BatchIsTyped
  <2>3. f.doc.version \in Versions
    BY <1>5, <1>7, <2>1, <2>2, VersionsAreBounded DEF CatalogIsValid
  <2> QED BY <2>2, <2>3
<1> QED BY <1>1, <1>3, <1>4, <1>5, <1>7, <1>8

LEMMA AppliedIsFolder ==
    ASSUME TypeOK, CallInv, holder # None, NEW b \in Accepted, Expected(b)
    PROVE  IsFolder(After(files, b))
<1> DEFINE c == After(files, b)
<1>1. b.writes \subseteq File /\ IsFiniteSet(b.writes) /\ \A f, g \in b.writes : Path(f) = Path(g) => f = g
  BY AcceptedIsSound DEF BatchIsSound, BatchIsTyped
<1>2. IsFolder(files)
  BY DEF TypeOK
<1>3. c \subseteq File \cup {Unreadable}
  BY <1>1, <1>2 DEF IsFolder, After
<1>4. IsFiniteSet(c)
  <2>1. IsFiniteSet(files \ b.removes)
    BY <1>2, FS_Subset DEF IsFolder
  <2> QED BY <1>1, <2>1, FS_Union DEF After
<1>5. \A f, g \in c \ {Unreadable} : Path(f) = Path(g) => f = g
  BY <1>1, <1>2 DEF Expected, After, IsFolder
<1> QED BY <1>3, <1>4, <1>5 DEF IsFolder

\* Without a hand edit, the batch makes the folder what the call validated.
LEMMA AppliedLoads ==
    ASSUME TypeOK, CallInv, holder # None, edits = 0, NEW b \in Accepted, Expected(b)
    PROVE  Loads(After(files, b))
<1>1. base = files
  BY DEF CallInv
<1>2. Loads(base) /\ b.writes \subseteq File /\ CatalogIsValid(After(base, b)) /\ \A f \in b.writes : Decodes(f.doc)
  BY AcceptedIsSound
<1> QED BY <1>1, <1>2, UnreadableAssumption DEF Loads, After

\* What an address resolved to stays under its identifier and version.
LEMMA AppliedResolves ==
    ASSUME TypeOK, CallInv, holder # None, NEW b \in Accepted, Expected(b),
           NEW l, Resolves(files, l)
    PROVE  Resolves(After(files, b), l)
<1>1. BatchKeeps(b)
  BY AcceptedIsSound DEF BatchIsSound
<1>2. PICK f \in files : f.doc.id = l[1] /\ l[2] \in {None, f.doc.version}
  BY DEF Resolves
<1>3. CASE f \in b.removes
  <2>1. PICK g \in b.writes : g.doc.id = f.doc.id /\ g.doc.version = f.doc.version
    BY <1>1, <1>3 DEF BatchKeeps
  <2> QED BY <1>2, <2>1 DEF Resolves, After
<1>4. CASE f \notin b.removes
  BY <1>2, <1>4 DEF Resolves, After
<1> QED BY <1>3, <1>4

\* The answer of a call shows a version.
LEMMA ToldIsVersion ==
    ASSUME TypeOK, CallInv, holder # None, NEW b \in Accepted
    PROVE  Told(b) \in Version \cup {None}
<1>1. /\ IsFolder(base) /\ Loads(base) /\ command \in Commands /\ b \in Proposed(command)
      /\ BatchIsSound(b) /\ b.writes \subseteq File
      /\ CatalogIsValid(After(base, b)) /\ IsFiniteSet(After(base, b))
  BY AcceptedIsSound
<1>2. CASE command.op = "import"
  BY <1>2 DEF Told, TypeOK, CallInv
<1>3. CASE command.op \in {"archive", "restore"}
  <2>1. b.removes = Lineage(base, command.id) /\ \A f \in b.writes : f.doc.id = command.id
    BY <1>1, <1>3, ProposedIsSound
  <2>2. Lineage(After(base, b), command.id) = b.writes /\ Lineage(b.writes, command.id) = b.writes
    BY <2>1 DEF Lineage, After
  <2>3. b.writes # {} /\ command.id \in Ids
    BY <1>1, <1>3, CallFields DEF BatchIsSound
  <2>4. Latest(After(base, b), command.id) \in b.writes
    BY <1>1, <2>2, <2>3, LatestIsThere DEF CatalogIsValid
  <2>5. Latest(b.writes, command.id) = Latest(After(base, b), command.id)
    BY <2>2 DEF Latest
  <2>6. Told(b) = Latest(b.writes, command.id).doc
    BY <1>3 DEF Told
  <2> QED BY <1>1, <2>4, <2>5, <2>6 DEF File
<1>4. CASE command.op \notin {"import", "archive", "restore"}
  <2>1. b.writes # {} /\ Told(b) = (CHOOSE f \in b.writes : TRUE).doc
    BY <1>1, <1>4 DEF BatchIsSound, Told
  <2>2. (CHOOSE f \in b.writes : TRUE) \in b.writes
    BY <2>1
  <2> QED BY <1>1, <2>1, <2>2 DEF File
<1> QED BY <1>2, <1>3, <1>4

-------------------------------------------------------------------------------
(* The invariant. *)

LEMMA InitInv == Init => Inv
<1> SUFFICES ASSUME Init PROVE Inv
  OBVIOUS
<1>1. IsFolder(files) /\ Loads(files)
  BY StartsAssumption DEF Init
<1>2. IsFolder({})
  BY FS_EmptySet DEF IsFolder
<1>3. TypeOK
  BY <1>1, <1>2, BoundsAssumption DEF Init, TypeOK
<1> QED BY <1>1, <1>3 DEF Inv, Init, CallInv, CatalogStaysReadable, LinksNeverDangle

\* What a call leaves when it ends.
LEMMA ReturnedIsTyped ==
    ASSUME Inv, Return, IsFolder(files'), links' \subseteq Ids \X (Versions \cup {None}),
           seen' \in [Agents -> Version \cup {None}], edits' = edits,
           edits = 0 => Loads(files'),
           edits = 0 => \A l \in links' : Resolves(files', l)
    PROVE  Inv'
<1>1. IsFolder({})
  BY FS_EmptySet DEF IsFolder
<1>2. TypeOK'
  BY <1>1 DEF Inv, TypeOK, Return
<1> QED BY <1>2 DEF Inv, Return, CallInv, CatalogStaysReadable, LinksNeverDangle

LEMMA CallKeeps ==
    ASSUME Inv, NEW a \in Agents, NEW m \in Commands, Call(a, m)
    PROVE  Inv'
<1>1. TypeOK'
  BY DEF Inv, TypeOK, Call
<1>2. CallInv'
  BY NothingAssumption DEF Call, CallInv
<1> QED BY <1>1, <1>2 DEF Inv, Call, CatalogStaysReadable, LinksNeverDangle

LEMMA FinishKeeps ==
    ASSUME Inv, Finish
    PROVE  Inv'
<1>1. Return /\ holder # None /\ UNCHANGED <<links, edits>>
  BY DEF Finish
<1>2. links \subseteq Ids \X (Versions \cup {None}) /\ seen \in [Agents -> Version \cup {None}] /\ holder \in Agents
  BY <1>1 DEF Inv, TypeOK, CallInv
<1>3. ASSUME NEW b \in Accepted, Expected(b), files' = After(files, b),
             seen' = [seen EXCEPT ![holder] = Told(b)]
      PROVE  Inv'
  <2>1. IsFolder(files') /\ (edits = 0 => Loads(files'))
    BY <1>1, <1>3, AppliedIsFolder, AppliedLoads DEF Inv
  <2>2. seen' \in [Agents -> Version \cup {None}]
    BY <1>1, <1>2, <1>3, ToldIsVersion DEF Inv
  <2>3. edits = 0 => \A l \in links' : Resolves(files', l)
    BY <1>1, <1>3, AppliedResolves DEF Inv, LinksNeverDangle
  <2> QED BY <1>1, <1>2, <2>1, <2>2, <2>3, ReturnedIsTyped
<1>4. ASSUME UNCHANGED <<files, seen>> PROVE Inv'
  <2>1. /\ IsFolder(files') /\ (edits = 0 => Loads(files'))
        /\ seen' \in [Agents -> Version \cup {None}]
        /\ edits = 0 => \A l \in links' : Resolves(files', l)
    BY <1>1, <1>2, <1>4 DEF Inv, TypeOK, CatalogStaysReadable, LinksNeverDangle
  <2> QED BY <1>1, <1>2, <2>1, ReturnedIsTyped
<1> QED BY <1>3, <1>4 DEF Finish

LEMMA AbortKeeps ==
    ASSUME Inv, Abort
    PROVE  Inv'
<1>1. Return /\ holder # None /\ UNCHANGED <<links, seen, edits>>
  BY DEF Abort
<1>2. links' \subseteq Ids \X (Versions \cup {None}) /\ seen' \in [Agents -> Version \cup {None}]
  BY <1>1 DEF Inv, TypeOK
<1>3. CASE files' = files
  <2>1. /\ IsFolder(files') /\ (edits = 0 => Loads(files'))
        /\ edits = 0 => \A l \in links' : Resolves(files', l)
    BY <1>1, <1>3 DEF Inv, TypeOK, CatalogStaysReadable, LinksNeverDangle
  <2> QED BY <1>1, <1>2, <2>1, ReturnedIsTyped
<1>4. ASSUME NEW b \in Accepted, Expected(b), files' = After(files, b)
      PROVE  Inv'
  <2>1. IsFolder(files') /\ (edits = 0 => Loads(files'))
    BY <1>1, <1>4, AppliedIsFolder, AppliedLoads DEF Inv
  <2>2. edits = 0 => \A l \in links' : Resolves(files', l)
    BY <1>1, <1>4, AppliedResolves DEF Inv, LinksNeverDangle
  <2> QED BY <1>1, <1>2, <2>1, <2>2, ReturnedIsTyped
<1> QED BY <1>3, <1>4 DEF Abort

LEMMA FinishLinkKeeps ==
    ASSUME Inv, FinishLink
    PROVE  Inv'
<1> DEFINE proposed == links \cup {command.address}
<1>1. Return /\ holder # None /\ command.op = "link" /\ UNCHANGED <<files, seen, edits>>
  BY DEF FinishLink
<1>2. links' = IF ResolvesAll(base, proposed) THEN proposed ELSE links
  BY DEF FinishLink
<1>3. command.address \in Ids \X (Versions \cup {None})
  BY <1>1, CallFields DEF Inv, CallInv, LinkCommands
<1>4. links' \subseteq Ids \X (Versions \cup {None})
  BY <1>2, <1>3 DEF Inv, TypeOK
<1>5. edits = 0 => \A l \in links' : Resolves(files', l)
  BY <1>1, <1>2 DEF Inv, CallInv, ResolvesAll, LinksNeverDangle
<1>6. IsFolder(files') /\ (edits = 0 => Loads(files')) /\ seen' \in [Agents -> Version \cup {None}]
  BY <1>1 DEF Inv, TypeOK, CatalogStaysReadable
<1> QED BY <1>1, <1>4, <1>5, <1>6, ReturnedIsTyped

LEMMA FinishUnlinkKeeps ==
    ASSUME Inv, FinishUnlink
    PROVE  Inv'
<1>1. Return /\ UNCHANGED <<files, seen, edits>> /\ links' \subseteq links
  BY DEF FinishUnlink
<1>2. /\ IsFolder(files') /\ (edits = 0 => Loads(files')) /\ seen' \in [Agents -> Version \cup {None}]
      /\ links' \subseteq Ids \X (Versions \cup {None})
      /\ edits = 0 => \A l \in links' : Resolves(files', l)
  BY <1>1 DEF Inv, TypeOK, CatalogStaysReadable, LinksNeverDangle
<1> QED BY <1>1, <1>2, ReturnedIsTyped

LEMMA GetKeeps ==
    ASSUME Inv, NEW a \in Agents, NEW f \in files, Get(a, f)
    PROVE  Inv'
<1>1. f \in File
  BY DEF Inv, TypeOK, IsFolder, Get, Loads
<1>2. seen' \in [Agents -> Version \cup {None}]
  BY <1>1 DEF Get, Inv, TypeOK, File
<1>3. TypeOK'
  BY <1>2 DEF Inv, TypeOK, Get, callVars
<1> QED BY <1>3 DEF Inv, Get, callVars, CallInv, CatalogStaysReadable, LinksNeverDangle

\* An operator puts files where none are, and counts as an edit.
LEMMA OperatorKeeps ==
    ASSUME Inv, NEW e \in Edits, OperatorEdit(e)
    PROVE  Inv'
<1>1. IsFolder(files) /\ IsFolder(e[2]) /\ edits \in Nat /\ edits' = edits + 1 /\ edits' \in 0 .. MaxEdits
  BY EditsAssumption, BoundsAssumption DEF Inv, TypeOK, OperatorEdit
<1>2. files' = (files \ e[1]) \cup e[2]
  BY DEF OperatorEdit
<1>3. IsFolder(files')
  <2>1. IsFiniteSet(files')
    BY <1>1, <1>2, FS_Subset, FS_Union DEF IsFolder
  <2>2. files' \subseteq File \cup {Unreadable}
    BY <1>1, <1>2 DEF IsFolder
  <2>3. \A f, g \in files' \ {Unreadable} : Path(f) = Path(g) => f = g
    BY <1>1, <1>2 DEF IsFolder, OperatorEdit
  <2> QED BY <2>1, <2>2, <2>3 DEF IsFolder
<1>4. TypeOK'
  BY <1>1, <1>3 DEF Inv, TypeOK, OperatorEdit, callVars
<1>5. edits' # 0
  BY <1>1
<1> QED BY <1>4, <1>5 DEF Inv, OperatorEdit, callVars, CallInv, CatalogStaysReadable, LinksNeverDangle

LEMMA StepInv == Inv /\ [Next]_vars => Inv'
<1> SUFFICES ASSUME Inv, [Next]_vars PROVE Inv'
  OBVIOUS
<1>1. CASE UNCHANGED vars
  BY <1>1 DEF vars, callVars, Inv, TypeOK, CallInv, CatalogStaysReadable, LinksNeverDangle
<1> QED BY <1>1, CallKeeps, FinishKeeps, AbortKeeps, FinishLinkKeeps, FinishUnlinkKeeps, GetKeeps,
           OperatorKeeps DEF Next

LEMMA Invariance == Spec => []Inv
BY InitInv, StepInv, PTL DEF Spec

-------------------------------------------------------------------------------
(* The properties. *)

\* Every variable keeps its type: the folder holds finitely many files under
\* distinct paths, whatever the calls publish (replaceEntity, moveLineage, import).
THEOREM DocumentTypes == Spec => []TypeOK
<1>1. Inv => TypeOK
  BY DEF Inv
<1> QED BY <1>1, Invariance, PTL

\* What the calls of the store leave behind it can read again (publishNewEntity,
\* replaceEntity, moveLineage and import validate what they propose).
THEOREM CatalogLoads == Spec => []CatalogStaysReadable
<1>1. Inv => CatalogStaysReadable
  BY DEF Inv
<1> QED BY <1>1, Invariance, PTL

\* What an issue links to keeps resolving (resolveAddressesUnderLease).
THEOREM LinksResolve == Spec => []LinksNeverDangle
<1>1. Inv => LinksNeverDangle
  BY DEF Inv
<1> QED BY <1>1, Invariance, PTL

\* A call that ends leaves the folder alone, or applies one accepted batch to
\* it under the evidence of its caller.
LEMMA EndsByBatch ==
    ASSUME Inv, Next, CallEnds
    PROVE  files' = files \/ \E b \in Accepted : Expected(b) /\ files' = After(files, b)
<1>1. CASE Finish
  BY <1>1 DEF Finish
<1>2. CASE Abort
  BY <1>2 DEF Abort
<1>3. CASE FinishLink \/ FinishUnlink
  BY <1>3 DEF FinishLink, FinishUnlink
<1>4. ASSUME NEW a \in Agents, NEW m \in Commands, Call(a, m) PROVE FALSE
  BY <1>4 DEF Call, CallEnds
<1>5. ASSUME NEW a \in Agents, NEW f \in files, Get(a, f) PROVE FALSE
  BY <1>5 DEF Get, callVars, CallEnds
<1>6. ASSUME NEW e \in Edits, OperatorEdit(e) PROVE FALSE
  BY <1>6 DEF OperatorEdit, callVars, CallEnds
<1> QED BY <1>1, <1>2, <1>3, <1>4, <1>5, <1>6 DEF Next

\* An approved version is immutable (replaceCurrent, transition, moveLineage).
THEOREM ApprovedVersionsStay == Spec => ApprovedStays
<1>1. ASSUME Inv, [Next]_vars, CallEnds, NEW f \in files \ {Unreadable}, f.doc.status = "approved"
      PROVE  \E g \in files' \ {Unreadable} : g.doc = f.doc
  <2>1. Next
    BY <1>1 DEF vars, callVars, CallEnds
  <2>2. CASE files' = files
    BY <2>2
  <2>3. ASSUME NEW b \in Accepted, files' = After(files, b) PROVE \E g \in files' \ {Unreadable} : g.doc = f.doc
    <3>1. BatchKeeps(b) /\ b.writes \subseteq File
      BY <1>1, AcceptedIsSound DEF Inv, CallEnds, BatchIsSound
    <3>2. CASE f \in b.removes
      <4>1. PICK g \in b.writes : g.doc = f.doc
        BY <1>1, <3>1, <3>2 DEF BatchKeeps
      <4>2. g # Unreadable
        BY <3>1, UnreadableAssumption
      <4> QED BY <2>3, <4>1, <4>2 DEF After
    <3>3. CASE f \notin b.removes
      BY <2>3, <3>3 DEF After
    <3> QED BY <3>2, <3>3
  <2> QED BY <1>1, <2>1, <2>2, <2>3, EndsByBatch
<1>2. Inv /\ [Next]_vars =>
        [CallEnds => \A f \in files \ {Unreadable} : f.doc.status = "approved" =>
                        \E g \in files' \ {Unreadable} : g.doc = f.doc]_vars
  BY <1>1
<1> QED BY <1>2, Invariance, PTL DEF Spec, ApprovedStays

\* What changes was seen by its caller, and what is approved was reviewed
\* (requireCurrent, AllowedTransitions).
THEOREM ChangesAreSeen == Spec => ChangesWereSeen
<1> DEFINE docs == {f.doc : f \in files \ {Unreadable}}
           after == {f.doc : f \in files' \ {Unreadable}}
           Seen ==
             /\ docs \ after \subseteq {seen[holder]}
             /\ \A new \in after \ docs : new.version > 1 =>
                   \E f \in base : f.doc = seen[holder] /\ f.doc.id = new.id
             /\ \A new \in after \ docs :
                   new.status = "approved" => seen[holder] = [new EXCEPT !.status = "review"]
<1>1. ASSUME Inv, [Next]_vars, CallEnds, command.op # "import"
      PROVE  Seen
  <2>1. Next
    BY <1>1 DEF vars, callVars, CallEnds
  <2>2. CASE files' = files
    BY <2>2
  <2>3. ASSUME NEW b \in Accepted, Expected(b), files' = After(files, b) PROVE Seen
    <3>1. BatchWasSeen(b) /\ b.writes \subseteq File /\ b.removes \subseteq base /\ Loads(base)
      BY <1>1, AcceptedIsSound DEF Inv, CallEnds, BatchIsSound, BatchIsTyped
    <3>2. b.removes \subseteq files \ {Unreadable} /\ Unreadable \notin b.writes
      BY <2>3, <3>1, UnreadableAssumption DEF Expected, Loads
    <3>3. ASSUME NEW d \in docs \ after PROVE d = seen[holder]
      <4>1. PICK f \in files \ {Unreadable} : f.doc = d
        OBVIOUS
      <4>2. f \in b.removes
        BY <2>3, <3>3, <4>1 DEF After
      <4>3. \A g \in b.writes : g.doc # d
        BY <2>3, <3>2, <3>3 DEF After
      <4> QED BY <3>1, <4>1, <4>2, <4>3 DEF BatchWasSeen
    <3>4. ASSUME NEW new \in after \ docs
          PROVE  /\ new.version > 1 => \E f \in base : f.doc = seen[holder] /\ f.doc.id = new.id
                 /\ new.status = "approved" => seen[holder] = [new EXCEPT !.status = "review"]
      <4>1. PICK g \in files' \ {Unreadable} : g.doc = new
        OBVIOUS
      <4>2. g \in b.writes
        BY <2>3, <3>4, <4>1 DEF After
      <4>3. \A f \in b.removes : f.doc # new
        BY <3>2, <3>4
      <4>4. /\ new.version = 1 \/ \E f \in base : f.doc = seen[holder] /\ f.doc.id = new.id
            /\ new.status = "approved" => seen[holder] = [new EXCEPT !.status = "review"]
        BY <3>1, <4>1, <4>2, <4>3 DEF BatchWasSeen
      <4> QED BY <4>4
    <3> QED BY <3>3, <3>4
  <2> QED BY <1>1, <2>1, <2>2, <2>3, EndsByBatch
<1> HIDE DEF Seen
<1>2. Inv /\ [Next]_vars => [CallEnds /\ command.op # "import" => Seen]_vars
  BY <1>1
<1>3. Inv /\ [Next]_vars =>
        [CallEnds /\ command.op # "import" =>
          LET ds == {f.doc : f \in files \ {Unreadable}}
              as == {f.doc : f \in files' \ {Unreadable}}
          IN  /\ ds \ as \subseteq {seen[holder]}
              /\ \A new \in as \ ds : new.version > 1 =>
                    \E f \in base : f.doc = seen[holder] /\ f.doc.id = new.id
              /\ \A new \in as \ ds :
                    new.status = "approved" => seen[holder] = [new EXCEPT !.status = "review"]]_vars
  BY <1>2 DEF Seen
<1> QED BY <1>3, Invariance, PTL DEF Spec, ChangesWereSeen
===============================================================================
