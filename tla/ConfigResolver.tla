----------------------------- MODULE ConfigResolver -----------------------------
(***************************************************************************)
(* resolveConfig and derive of @neottia/config (resolver.ts, snapshot.ts)  *)
(* for one registered contribution: defaults, the global and the project   *)
(* file, the selected profile of each, environment bindings, secret        *)
(* fallbacks and explicit overrides are merged in this order.  A process   *)
(* may edit a file between the two reads.  A shard is a tree, written as a *)
(* function from the paths of its leaves; a mapping without keys is the    *)
(* leaf Empty.  A list is one leaf.                                        *)
(***************************************************************************)
EXTENDS Naturals, FiniteSets, Sequences, SequencesExt

CONSTANTS
    Empty,
    Names,          \* the keys of mappings; a path is a sequence of keys
    Refs,           \* the values that are exact references, ${VAR}
    VarOf,          \* VarOf[r]: the variable that r names
    Vars, Unset,    \* environment variables; Unset when missing or empty
    Rejected,       \* values that no schema accepts
    Required,       \* leaves that the resolved schema asks for
    Secrets,        \* paths of secrets
    Bindings,       \* sequence of [path, names], names by preference
    Fallbacks,      \* sequence of [path, names] for the secrets
    Defaults,
    NoTree, NoProfile, Missing, NoSnapshot,
    Inputs          \* the files, selections, environments and overrides to try

ASSUME RefsAssumption == VarOf \in [Refs -> Vars] /\ Empty \notin Refs
ASSUME BindingsAssumption ==
    {Bindings, Fallbacks} \subseteq Seq([path : Seq(Names), names : Seq(Vars)])

VARIABLES
    docs,       \* docs[f]: Missing, or the document of file f
    input,      \* selection of files, profile, environment, overrides: never changes
    step,       \* "global", "project", "resolve", "done"
    parsed,     \* files read so far
    loaded,     \* the documents in order, each with the kind it was selected as
    failed,     \* a diagnostic was collected
    snapshot,   \* NoSnapshot, or the value and the provenance of its leaves
    layers,     \* history: the layers of the snapshot
    changes     \* edits and derivations

configVars == <<docs, input, step, parsed, loaded, failed, snapshot, layers, changes>>

-------------------------------------------------------------------------------
(* Trees: mergeValues, recordLeafProvenance and clearProvenance. *)

Within(p, q) == IsPrefix(p, q)
Below(p, q) == IsStrictPrefix(p, q)

\* No leaf is below another one.
IsTree(t) == \A p \in DOMAIN t : p \in Seq(Names) /\ \A q \in DOMAIN t : ~Below(p, q)

Nodes(t) == UNION {{SubSeq(q, 1, n) : n \in 0 .. Len(q)} : q \in DOMAIN t}
IsMapping(t, p) == p \in Nodes(t) /\ (p \in DOMAIN t => t[p] = Empty)
Scalars(t) == {p \in DOMAIN t : t[p] # Empty}

\* Where the recursion of mergeValues ends: it descends while both are mappings.
Replaced(lower, higher) ==
    LET shared(p) == IsMapping(lower, p) /\ IsMapping(higher, p)
    IN  {p \in Nodes(higher) : ~shared(p) /\ \A q \in Nodes(higher) : Below(q, p) => shared(q)}

\* Mutant: a mapping is merged into, a scalar above it is left standing.
MergeUnder(lower, higher) ==
    LET mine == {p \in DOMAIN higher : \A q \in DOMAIN lower : ~Below(q, p)}
        theirs == {q \in DOMAIN lower : \A p \in mine : ~Within(p, q)}
    IN  [p \in mine \cup theirs |-> IF p \in mine THEN higher[p] ELSE lower[p]]

Merge(lower, higher) ==
    LET points == Replaced(lower, higher)
        mine == {p \in DOMAIN higher : \E r \in points : Within(r, p)}
        gains(q) == \E r \in points : Below(q, r)
        theirs == {q \in DOMAIN lower : (\A r \in points : ~Within(r, q)) /\ ~gains(q)}
    IN  [p \in mine \cup theirs |-> IF p \in mine THEN higher[p] ELSE lower[p]]

MergeSources(sources, lower, higher, source) ==
    LET points == Replaced(lower, higher)
        mine == {p \in Scalars(higher) : \E r \in points : Within(r, p)}
        theirs == {q \in DOMAIN sources : \A r \in points : ~Within(r, q)}
    IN  [p \in mine \cup theirs |-> IF p \in mine THEN source ELSE sources[p]]

ApplyLayer(resolution, layer) ==
    [value |-> Merge(resolution.value, layer.patch),
     sources |-> MergeSources(resolution.sources, resolution.value, layer.patch, layer.source)]

-------------------------------------------------------------------------------
(* Fragments of a document: validateFragment, validateProfiles. *)

Patches(fragment) == {fragment.canonical, fragment.legacy} \ {NoTree}

\* The parsers return trees, the environment holds text, and a file can be missing.
OfTrees(document) ==
    /\ \A t \in Patches(document.base) : IsTree(t)
    /\ document.profile # NoProfile => \A t \in Patches(document.profile) : IsTree(t)
ASSUME TreesAssumption ==
    /\ IsTree(Defaults)
    /\ \A i \in Inputs :
        /\ \A document \in ({i.docs[f] : f \in DOMAIN i.docs} \cup i.documents) \ {Missing} : OfTrees(document)
        /\ \A t \in ({i.overrides} \ {NoTree}) \cup i.patches : IsTree(t)
        /\ \A v \in Vars : i.env[v] # Empty
        /\ {i.file.global, i.file.project} \subseteq DOMAIN i.docs \cup {Missing}

\* The patch schema, and validateSecretReferences: a secret is a reference.
PatchAccepted(t) ==
    /\ \A p \in DOMAIN t : t[p] \notin Rejected
    /\ \A s \in Secrets \cap Nodes(t) : s \in DOMAIN t /\ t[s] \in Refs

\* Nothing unowned, and one of the owned paths at most.
FragmentAccepted(fragment) ==
    /\ ~fragment.stray
    /\ fragment.canonical = NoTree \/ fragment.legacy = NoTree
    /\ \A t \in Patches(fragment) : PatchAccepted(t)

\* Every profile is validated, selected or not.
DocumentAccepted(document) ==
    /\ document.version /\ FragmentAccepted(document.base)
    /\ document.profile # NoProfile => FragmentAccepted(document.profile)

-------------------------------------------------------------------------------
(* The layers of a resolution, lowest first. *)

Layer(source, t) == [source |-> source, patch |-> t]
OfFragment(source, fragment) ==
    IF Patches(fragment) = {} THEN <<>> ELSE <<Layer(source, CHOOSE t \in Patches(fragment) : TRUE)>>

BaseLayers == FlattenSeq([i \in DOMAIN loaded |-> OfFragment(loaded[i].kind, loaded[i].document.base)])
ProfileOf == [global |-> "globalProfile", project |-> "projectProfile"]
ProfileLayers ==
    FlattenSeq([i \in DOMAIN loaded |->
        IF input.profile = "dev" /\ loaded[i].document.profile # NoProfile
        THEN OfFragment(ProfileOf[loaded[i].kind], loaded[i].document.profile) ELSE <<>>])

\* firstPopulated: the first of the names that has a value.
Populated(names) == SelectSeq(names, LAMBDA n : input.env[n] # Unset)
EnvironmentValue(b) == input.env[Populated(b.names)[1]]
EnvironmentLayer(b) ==
    IF Populated(b.names) = <<>> THEN <<>>
    ELSE <<Layer("environment", [p \in {b.path} |-> EnvironmentValue(b)])>>
EnvironmentLayers(bindings) == FlattenSeq([i \in DOMAIN bindings |-> EnvironmentLayer(bindings[i])])

OverrideLayers == IF input.overrides = NoTree THEN <<>> ELSE <<Layer("override", input.overrides)>>

AllLayers ==
    FlattenSeq(<<<<Layer("defaults", Defaults)>>, BaseLayers, ProfileLayers,
                 EnvironmentLayers(Bindings), EnvironmentLayers(Fallbacks), OverrideLayers>>)

OnlyLayer(layer) == [value |-> layer.patch, sources |-> [p \in Scalars(layer.patch) |-> layer.source]]
Merged(ls) ==
    LET upTo[n \in 1 .. Len(ls)] == IF n = 1 THEN OnlyLayer(ls[1]) ELSE ApplyLayer(upTo[n - 1], ls[n])
    IN  upTo[Len(ls)]

-------------------------------------------------------------------------------
(* resolveSecrets *)

FileSources == {"global", "project", "globalProfile", "projectProfile"}

\* Only a winning reference out of a file stands for its variable.
IsReference(resolution, s) ==
    /\ s \in DOMAIN resolution.value /\ resolution.value[s] \in Refs
    /\ resolution.sources[s] \in FileSources

VariableOf(resolution, s) == input.env[VarOf[resolution.value[s]]]
SecretsResolved(resolution) ==
    [resolution EXCEPT !.value = [p \in DOMAIN @ |->
        IF p \in Secrets /\ IsReference(resolution, p) THEN VariableOf(resolution, p) ELSE @[p]]]

\* A diagnostic of any layer, an unset variable of a winning reference or the
\* resolved schema end the resolution without a snapshot.
EnvironmentAccepted ==
    \A i \in DOMAIN Bindings : Populated(Bindings[i].names) # <<>> => EnvironmentValue(Bindings[i]) \notin Rejected
OverridesAccepted == input.overrides # NoTree => \A p \in DOMAIN input.overrides : input.overrides[p] \notin Rejected
ProfileDeclared ==
    input.profile = "dev" => \E i \in DOMAIN loaded : loaded[i].document.profile # NoProfile
SecretsPopulated(resolution) ==
    \A s \in Secrets : IsReference(resolution, s) => VariableOf(resolution, s) # Unset
SchemaAccepts(value) == Required \subseteq Scalars(value) /\ \A p \in DOMAIN value : value[p] \notin Rejected

-------------------------------------------------------------------------------
(* resolveConfig: the global file, the project file, then the merge. *)

ConfigInit ==
    /\ input \in Inputs /\ docs = input.docs
    /\ step = "global" /\ parsed = <<>> /\ loaded = <<>> /\ failed = FALSE
    /\ snapshot = NoSnapshot /\ layers = <<>> /\ changes = 0

NextStep == IF step = "global" THEN "project" ELSE "resolve"

\* The document of a file that was read before is not read again.
DocumentOf(f) == IF f \in DOMAIN parsed THEN parsed[f] ELSE docs[f]

Load(f) ==
    LET document == DocumentOf(f)
    IN  /\ parsed' = [g \in DOMAIN parsed \cup {f} |-> DocumentOf(g)]
        /\ loaded' = Append(loaded, [kind |-> step, document |-> document])
        /\ failed' = (failed \/ ~DocumentAccepted(document))

\* loadDocument: a default file may be missing, a file asked for may not.
LoadDocument ==
    /\ step \in {"global", "project"}
    /\ \/ input.file[step] = Missing /\ UNCHANGED <<parsed, loaded, failed>>
       \/ /\ input.file[step] # Missing /\ docs[input.file[step]] = Missing
          /\ failed' = (failed \/ input.explicit) /\ UNCHANGED <<parsed, loaded>>
       \/ /\ input.file[step] # Missing /\ docs[input.file[step]] # Missing
          /\ Load(input.file[step])
    /\ step' = NextStep
    /\ UNCHANGED <<docs, input, snapshot, layers, changes>>

Resolve ==
    LET merged == Merged(AllLayers)
        resolved == SecretsResolved(merged)
        accepted == /\ ~failed /\ ProfileDeclared /\ EnvironmentAccepted /\ OverridesAccepted
                    /\ SecretsPopulated(merged) /\ SchemaAccepts(resolved.value)
    IN  /\ step = "resolve" /\ step' = "done"
        /\ failed' = ~accepted
        /\ snapshot' = IF accepted THEN resolved ELSE NoSnapshot
        /\ layers' = IF accepted THEN AllLayers ELSE <<>>
        /\ UNCHANGED <<docs, input, parsed, loaded, changes>>

-------------------------------------------------------------------------------
(* derive, and a process that edits a file. *)

DerivedValue(patch) == Merge(snapshot.value, patch)

\* deriveSnapshot sets the source of each leaf of the patch, a mapping without
\* keys included, and clears none.
Derive(patch) ==
    /\ step = "done" /\ ~failed /\ changes < input.changes /\ changes' = changes + 1
    /\ \A p \in DOMAIN patch : patch[p] \notin Rejected
    /\ IF SchemaAccepts(DerivedValue(patch))
       THEN /\ snapshot' = [value |-> DerivedValue(patch),
                            sources |-> [p \in DOMAIN patch \cup DOMAIN snapshot.sources |->
                                IF p \in DOMAIN patch THEN "derived" ELSE snapshot.sources[p]]]
            /\ layers' = Append(layers, Layer("derived", patch))
       ELSE UNCHANGED <<snapshot, layers>>
    /\ UNCHANGED <<docs, input, step, parsed, loaded, failed>>

EditFile(f, document) ==
    /\ step \in {"global", "project", "resolve"} /\ changes < input.changes /\ changes' = changes + 1
    /\ docs' = [docs EXCEPT ![f] = document] /\ docs' # docs
    /\ UNCHANGED <<input, step, parsed, loaded, failed, snapshot, layers>>

ConfigNext ==
    \/ LoadDocument \/ Resolve
    \/ \E patch \in input.patches : Derive(patch)
    \/ \E f \in DOMAIN docs, document \in input.documents : EditFile(f, document)

-------------------------------------------------------------------------------
(* Properties. *)

\* A higher layer hides the scalar at p: it has a scalar at p or above it, or a
\* mapping where the scalar is.
Covers(t, p) == \E q \in DOMAIN t : (Within(q, p) /\ t[q] # Empty) \/ Within(p, q)
Supplies(i, p) ==
    /\ p \in Scalars(layers[i].patch)
    /\ \A j \in i + 1 .. Len(layers) : ~Covers(layers[j].patch, p)

\* What the code computes by folding mergeValues is what the documents say of
\* precedence: a leaf comes from the highest layer that has it unless a higher
\* one replaced it, its source says which layer that is, and nothing else is in
\* the snapshot.  A derived snapshot keeps this for every layer below it.
Rank == [defaults |-> 0, global |-> 1, project |-> 2, globalProfile |-> 3, projectProfile |-> 4,
         environment |-> 5, override |-> 6, derived |-> 7]
Supplied == UNION {{p \in Scalars(layers[i].patch) : Supplies(i, p)} : i \in DOMAIN layers}
HighestLayerWins ==
    snapshot # NoSnapshot =>
        /\ \A i, j \in DOMAIN layers : i < j => Rank[layers[i].source] <= Rank[layers[j].source]
        /\ Scalars(snapshot.value) = Supplied
        /\ \A i \in DOMAIN layers : \A p \in Scalars(layers[i].patch) : Supplies(i, p) =>
            /\ p \in Secrets \/ snapshot.value[p] = layers[i].patch[p]
            /\ snapshot.sources[p] = layers[i].source

\* Every recorded source belongs to a leaf of the resolved snapshot (derive
\* leaves the sources of replaced leaves behind).
SourcesAreOfLeaves ==
    snapshot # NoSnapshot /\ ~(\E i \in DOMAIN layers : layers[i].source = "derived") =>
        DOMAIN snapshot.sources = Scalars(snapshot.value)

\* A reference out of a file stands for its variable, once; text from the
\* environment or from overrides is never expanded.
SecretsAreResolvedOnce ==
    snapshot # NoSnapshot =>
        \A i \in DOMAIN layers : \A s \in Secrets \cap Scalars(layers[i].patch) : Supplies(i, s) =>
            snapshot.value[s] = IF layers[i].source \in FileSources
                                THEN input.env[VarOf[layers[i].patch[s]]] ELSE layers[i].patch[s]

\* No layer hides another one that is wrong: with a snapshot, every document
\* that was read satisfies its schemas, in its unselected profile too.
NothingWrongIsHidden ==
    snapshot # NoSnapshot =>
        \A f \in DOMAIN parsed :
            \A fragment \in {parsed[f].base, parsed[f].profile} \ {NoProfile} : FragmentAccepted(fragment)

\* The two fragments of a file come from one reading of it, however often it is
\* selected and edited meanwhile.
OneReading ==
    \A i, j \in DOMAIN loaded :
        input.file[loaded[i].kind] = input.file[loaded[j].kind] => loaded[i].document = loaded[j].document

\* What resolveConfig and derive promise of a snapshot.
SnapshotInv ==
    /\ HighestLayerWins /\ SourcesAreOfLeaves
    /\ SecretsAreResolvedOnce /\ NothingWrongIsHidden /\ OneReading
===============================================================================
