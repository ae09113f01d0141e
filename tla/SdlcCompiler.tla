------------------------------ MODULE SdlcCompiler ------------------------------
(***************************************************************************)
(* The prompt compiler of @neottia/sdlc for one harness: the template      *)
(* layers are read file by file while somebody may edit them, the resolved *)
(* configuration becomes a context of providers, connections and roles,    *)
(* the templates are resolved, checked and rendered, and every command,    *)
(* role agent and runtime package is projected as an asset.                *)
(*                                                                         *)
(* A template is the sequence of what it writes: a text of its own is left *)
(* out, an output names a fragment, a loop runs over the roles of the      *)
(* command, a block may be replaced by a template that extends the layout. *)
(***************************************************************************)
EXTENDS Naturals, FiniteSets, Sequences, SequencesExt, HarnessAdapters

CONSTANTS
    Commands, RoleSlots,        \* RoleSlots[c]: the roles that command c invokes, in order
    Roles, RequiredRoles,
    Forges, Support,            \* Support[g]: capabilities, those that need MCP, a client or not
    Published,                  \* the packaged templates
    NoRole, NoConnection, NoService, NoDirectory, NoSettings, NoOutput

\* The names of the providers that are part of Neottia.
Providers == {"filesystem", "postgres", "web", "git", "none"}
ASSUME ForgesAssumption == Forges \cap Providers = {}
ASSUME RolesAssumption == RequiredRoles \subseteq Roles /\ \A c \in Commands : RoleSlots[c] \in Seq(Roles)

VARIABLES
    settings,   \* what the compiler takes from the resolved configuration
    templates,  \* templates[t]: the directory of tier t, or NoDirectory
    phase,      \* "idle", "package", "global", "project", "compile", "compiled", "refused"
    unread,     \* names of the directory that are still to be read
    found,      \* the files of the directory that were read
    tiers,      \* tiers[t]: the layers that were read
    output,     \* what was compiled
    templateEdits

compilerVars == <<settings, templates, phase, unread, found, tiers, output, templateEdits>>

Capabilities == {"issues", "documents", "remote"}
InstructionSlots == {"issues", "documents", "memory", "searchable", "local", "remote"}
Boundary == {"memory", "searchable"}
CommandId(c) == <<"command", c>>
AppendId(c) == <<"append", c>>
AgentId(agent) == <<"agent", agent>>
Layout == <<"layout", "">>
Protocol == <<"protocol", "">>
ASSUME IdsOfFilesAssumption ==
    \A id \in {CommandId(c) : c \in Commands} \cup {Protocol} : id \notin UnsafeIds \cup LongIds \cup {NoId}

\* What the parser makes of a template.
OutputPart ==
    [kind : {"out"}, path : InstructionSlots \cup {"role"}, direct : BOOLEAN, shown : {"always", "first", "never"}]
LoopPart == [kind : {"loop"}, body : Seq(OutputPart)]
BlockPart == [kind : {"block"}, name : STRING, body : Seq(OutputPart \cup LoopPart)]
AreTemplates(files) ==
    \A id \in DOMAIN files : id[1] # "append" => files[id].parts \in Seq(OutputPart \cup LoopPart \cup BlockPart)

\* What the schemas of the configuration let through.
IsSettings(s) ==
    /\ s.harness \in Harnesses /\ s.scope \in Scopes /\ s.enabled \subseteq LogicalIds
    /\ \A r \in Roles : AgentId(s.roles[r]) \notin UnsafeIds \cup {NoId}

-------------------------------------------------------------------------------
(* compiler-context.ts: providers and forge connections. *)

Selected(s) == [cap \in Capabilities |-> s[cap]]
ForgesOf(s) == {g \in Forges : \E cap \in Capabilities : Selected(s)[cap] = g}
CapabilitiesOf(s, g) == {cap \in Capabilities : Selected(s)[cap] = g}

\* The services that enter the context: those of selected capabilities.
ServicesOf(s) ==
    {use \in Forges \X Capabilities :
        /\ use[2] \in CapabilitiesOf(s, use[1]) /\ s.connections[use[1]] # NoConnection
        /\ s.connections[use[1]].mcp[use[2]] # NoService}
Service(s, use) == s.connections[use[1]].mcp[use[2]]

ModuleProblems(s) ==
    {m \in {"issues", "documents"} : s[m] = "filesystem" /\ m \notin s.enabled}
    \cup {m \in {"memory", "searchable"} : s[m] # "none" /\ m \notin s.enabled}
    \cup (IF s.memory # "none" /\ "memory" \in s.enabled /\ s.memory # s.backend THEN {"backend"} ELSE {})
    \cup (IF s.workspaces /\ s.local # "git" THEN {"workspaces"} ELSE {})

ForgeProblems(s, g) ==
    LET connection == s.connections[g] IN
    IF connection = NoConnection THEN {<<g, "connection">>}
    ELSE (IF connection.http /\ ~connection.optIn THEN {<<g, "http">>} ELSE {})
         \cup {<<g, cap>> : cap \in {k \in CapabilitiesOf(s, g) :
                    \/ k \notin Support[g].capabilities
                    \/ k \in Support[g].mcpRequired /\ connection.mcp[k] = NoService}}

\* createSdlcRoleCompilerContext: named agents need a host, and one role each.
Named(s) == {r \in Roles : s.roles[r] \notin {NoRole, "current"}}
NamesAgents(s) == s.scope \in ScopesOf(s.harness, "asset.agent") \cap ScopesOf(s.harness, "agent.subagent")
RoleProblems(s) ==
    {<<r, "required">> : r \in {q \in RequiredRoles : s.roles[q] = NoRole}}
    \cup {<<r, "unsupported">> : r \in {q \in Named(s) : ~NamesAgents(s)}}
    \cup {<<r, "duplicated">> : r \in {q \in Named(s) : \E p \in Named(s) \ {q} : s.roles[p] = s.roles[q]}}

\* validateSdlcCompilerContext: a server stands for one command.
McpConflict(s) ==
    \E use, other \in ServicesOf(s) :
        Service(s, use).server = Service(s, other).server /\ Service(s, use).command # Service(s, other).command

Problems(s) == ModuleProblems(s) \cup RoleProblems(s) \cup UNION {ForgeProblems(s, g) : g \in ForgesOf(s)}

-------------------------------------------------------------------------------
(* instructions.ts, forge-instructions.ts: one pack for every slot. *)

Pack(slot, provider) == [slot |-> slot, provider |-> provider]
Builtin ==
    {Pack("issues", "filesystem"), Pack("documents", "filesystem"), Pack("local", "git"), Pack("remote", "none")}
    \cup {Pack("memory", p) : p \in {"none", "filesystem", "postgres"}} \cup {Pack("searchable", p) : p \in {"none", "web"}}
ForgePacks(s) == UNION {{Pack(cap, g) : cap \in CapabilitiesOf(s, g)} : g \in ForgesOf(s)}
Packs(s) == {p \in Builtin \cup ForgePacks(s) : s[p.slot] = p.provider}
PackOf(s, slot) == CHOOSE p \in Packs(s) : p.slot = slot

\* What a pack tells the agent to use, and what the manifest asks to be there;
\* the name of a forge stands for the variable with its credential.
Routes(s, g, cap) ==
    LET service == s.connections[g].mcp[cap] IN
    {g} \cup (IF cap = "remote" \/ (service = NoService /\ cap = "documents") THEN {"git"} ELSE {})
    \cup (IF service # NoService THEN {service.server} ELSE IF cap # "documents" THEN {Support[g].client} ELSE {})

NeedsGit(s, g) ==
    LET caps == CapabilitiesOf(s, g) IN
    "remote" \in caps \/ ("documents" \in caps /\ s.connections[g].mcp["documents"] = NoService)
NeedsClient(s, g) ==
    \E cap \in CapabilitiesOf(s, g) \ {"documents"} : s.connections[g].mcp[cap] = NoService
Prerequisites(s) ==
    {s.local} \cup ForgesOf(s) \cup (IF \E g \in ForgesOf(s) : NeedsGit(s, g) THEN {"git"} ELSE {})
    \cup {Support[g].client : g \in {x \in ForgesOf(s) : NeedsClient(s, x)}}
    \cup {Service(s, use).server : use \in ServicesOf(s)}

-------------------------------------------------------------------------------
(* template-loader.ts, templates.ts: directories, layers and precedence. *)

Tiers == <<"packaged", "package", "global", "project">>
Allowed(tier) ==
    {CommandId(c) : c \in Commands} \cup {Protocol}
    \cup (IF tier = "project" THEN {AppendId(c) : c \in Commands} ELSE {})

Holding(id) == {n \in DOMAIN Tiers : id \in DOMAIN tiers[Tiers[n]]}
Resolvable(id) == Holding(id) # {}
Winner(id) == Tiers[CHOOSE n \in Holding(id) : \A k \in Holding(id) : k <= n]
Resolved(id) == tiers[Winner(id)][id]
Appended(c) == AppendId(c) \in DOMAIN tiers["project"]

-------------------------------------------------------------------------------
(* compiler.ts: what a template refers to, and what it writes. *)

Flat(parts, Inner(_)) == FlattenSeq([n \in DOMAIN parts |-> Inner(parts[n])])

\* Every output in the text, in a block that is replaced as well.
InLoop(p) == IF p.kind = "loop" THEN p.body ELSE <<p>>
InBlock(p) == IF p.kind = "block" THEN Flat(p.body, InLoop) ELSE InLoop(p)
Outputs(parts) == Flat(parts, InBlock)
TextOf(template, layout) ==
    Outputs(template.parts) \o (IF template.parent = "layout" THEN Outputs(layout.parts) ELSE <<>>)

\* validateTemplateFragmentReferences; memory and searchable are not looked for.
DirectlyOnce(text, path) ==
    LET refers(p) == p.path = path
        outputs == SelectSeq(text, refers)
    IN  Len(outputs) = 1 /\ outputs[1].direct
References(text) == \A path \in (InstructionSlots \ Boundary) \cup {"role"} : DirectlyOnce(text, path)

\* A block of the layout is written as the template that extends it has it,
\* which has it once.
Opened(p, template) ==
    LET own == {n \in DOMAIN template.parts : template.parts[n].kind = "block" /\ template.parts[n].name = p.name}
    IN  IF p.kind # "block" THEN <<p>> ELSE IF own = {} THEN p.body ELSE template.parts[CHOOSE n \in own : TRUE].body
Written(template, layout) ==
    LET open(p) == Opened(p, template)
    IN  Flat(IF template.parent = "layout" THEN layout.parts ELSE template.parts, open)

RoleOutsideLoop(parts) ==
    \E n \in DOMAIN parts : parts[n].kind = "out" /\ parts[n].path = "role" /\ parts[n].shown # "never"

\* Twig renders with strict variables; a filter changes the text it gets.
FragmentText(p, roles, i) == [of |-> IF p.path = "role" THEN roles[i] ELSE p.path, whole |-> p.direct]
Emits(p, roles, i) ==
    IF p.shown = "never" \/ (p.shown = "first" /\ i > 1) THEN <<>> ELSE <<FragmentText(p, roles, i)>>
Rendered(parts, roles) ==
    LET part(p) ==
            IF p.kind = "loop"
            THEN FlattenSeq([i \in DOMAIN roles |-> FlattenSeq([n \in DOMAIN p.body |-> Emits(p.body[n], roles, i)])])
            ELSE Emits(p, roles, 0)
    IN  Flat(parts, part)

Rendering(body, f) == Cardinality({n \in DOMAIN body : body[n].of = f})
Occurring(body, f) == Cardinality({n \in DOMAIN body : body[n].of = f /\ body[n].whole})

\* validateTrackedFragments and requireCapabilityFragment.
Tracked(body, roles) ==
    /\ \A f \in InstructionSlots \cup ToSet(roles) : Occurring(body, f) = Rendering(body, f)
    /\ \A f \in InstructionSlots : Rendering(body, f) <= 1
    /\ \A r \in ToSet(roles) : Rendering(body, r) = 1
StatesBoundary(body) == \A f \in Boundary : Rendering(body, f) > 0

\* Mutant: an override may drop a boundary, as it may drop another slot.
CheckedWithoutBoundary(body, roles) == Tracked(body, roles)

CheckedCommand(body, roles) == Tracked(body, roles) /\ StatesBoundary(body)

IsCommand(template, layout, roles) ==
    /\ template.plain /\ template.parent \in {"none", "layout"} /\ References(TextOf(template, layout))
    /\ ~RoleOutsideLoop(Written(template, layout)) /\ CheckedCommand(Rendered(Written(template, layout), roles), roles)
IsLayout(template) == template.plain /\ template.parent = "none"

\* The templates of the package are templates of commands and a layout.
ASSUME PublishedAssumption ==
    /\ {CommandId(c) : c \in Commands} \cup {Layout, Protocol} \subseteq DOMAIN Published /\ AreTemplates(Published)
    /\ IsLayout(Published[Layout])
    /\ \A c \in Commands : IsCommand(Published[CommandId(c)], Published[Layout], RoleSlots[c])

BodyOf(c) == Rendered(Written(Resolved(CommandId(c)), Resolved(Layout)), RoleSlots[c])
AcceptedTemplate(c) == IsCommand(Resolved(CommandId(c)), Resolved(Layout), RoleSlots[c])
AcceptedAddition(c) == Appended(c) => tiers["project"][AppendId(c)].parts # <<>>

TemplatesAreAccepted ==
    /\ \A id \in {CommandId(c) : c \in Commands} \cup {Layout, Protocol} : Resolvable(id)
    /\ IsLayout(Resolved(Layout)) /\ \A c \in Commands : AcceptedTemplate(c) /\ AcceptedAddition(c)

-------------------------------------------------------------------------------
(* Loading the layers, createSdlcCompilerInput and compileSdlc. *)

NoFiles == [id \in {} |-> id]
NoTiers == [t \in ToSet(Tiers) |-> NoFiles]

CompilerInit ==
    /\ phase = "idle" /\ settings = NoSettings /\ output = NoOutput /\ tiers = NoTiers
    /\ unread = NoDirectory /\ found = NoFiles /\ templateEdits = 0 /\ AdapterInit

\* Nothing is kept from one invocation to the next.
ForgetCompiler ==
    /\ phase' = "idle" /\ settings' = NoSettings /\ output' = NoOutput /\ tiers' = NoTiers
    /\ UNCHANGED <<templates, unread, found, templateEdits>>

\* loadOverrideLayer: a directory that does not exist is no layer.
NextDirectory(done) ==
    IF done = "package" /\ templates.global # NoDirectory THEN "global"
    ELSE IF done # "project" /\ templates.project # NoDirectory THEN "project"
    ELSE "compile"
OpenNext(done) ==
    /\ phase' = NextDirectory(done) /\ found' = NoFiles
    /\ unread' = IF phase' = "compile" THEN NoDirectory ELSE DOMAIN templates[phase']

\* loadSdlcTemplateLayers: the packaged files and explicit layers come first.
StartCompiler(s) ==
    /\ phase = "idle" /\ settings' = s
    /\ tiers' = [NoTiers EXCEPT !["packaged"] = Published,
                                !["package"] = IF templates.package = NoDirectory THEN NoFiles ELSE templates.package]
    /\ OpenNext("package")
    /\ UNCHANGED <<templates, output, templateEdits>>

\* An unknown name, or a file that went away, ends the load.
ReadTemplate ==
    /\ phase \in {"global", "project"} /\ unread # {}
    /\ LET id == CHOOSE i \in unread : TRUE IN
       IF id \in Allowed(phase) /\ templates[phase] # NoDirectory /\ id \in DOMAIN templates[phase]
       THEN /\ found' = [i \in DOMAIN found \cup {id} |-> IF i = id THEN templates[phase][id] ELSE found[i]]
            /\ unread' = unread \ {id} /\ UNCHANGED phase
       ELSE phase' = "refused" /\ unread' = NoDirectory /\ found' = NoFiles
    /\ UNCHANGED <<settings, templates, tiers, output, templateEdits>>

CloseDirectory ==
    /\ phase \in {"global", "project"} /\ unread = {}
    /\ tiers' = [tiers EXCEPT ![phase] = found] /\ OpenNext(phase)
    /\ UNCHANGED <<settings, templates, output, templateEdits>>

\* What is asked of the adapter: a prompt for every command, an agent for every
\* named role, a declaration for every enabled module, and the protocol skill.
Hint(s, r, f) == IF s.hinted /\ s.scope \in ScopesOf(s.harness, f) THEN "text" ELSE "unset"
PromptFor(s, c) ==
    [kind |-> "prompt", typed |-> TRUE, scope |-> s.scope, id |-> CommandId(c), body |-> "lf", description |-> "text",
     argumentHint |-> "unset", agent |-> "unset", model |-> "unset", subtask |-> "unset"]
AgentFor(s, r) ==
    [kind |-> "agent", typed |-> TRUE, scope |-> s.scope, id |-> AgentId(s.roles[r]), body |-> "lf", description |-> "text",
     mode |-> "subagent", modelHint |-> Hint(s, r, "agent.model"), thinkingHint |-> Hint(s, r, "agent.thinking"),
     steps |-> IF s.scope \in ScopesOf(s.harness, "agent.steps") THEN "text" ELSE "unset", permissions |-> "unset"]
PackageFor(s, m) == [kind |-> "package", typed |-> TRUE, scope |-> s.scope, logicalId |-> m, version |-> "exact"]
ProtocolFor(s) ==
    [kind |-> "skill", typed |-> TRUE, scope |-> s.scope, id |-> Protocol, body |-> "lf", description |-> "text",
     license |-> "text", compatibility |-> "unset", metadata |-> "unset"]

FileAnswers(s) ==
    {Guarded(s.harness, q) :
        q \in {PromptFor(s, c) : c \in Commands} \cup {AgentFor(s, r) : r \in Named(s)} \cup {ProtocolFor(s)}}
PackageAnswer(s, m) ==
    LET declared == Guarded(s.harness, PackageFor(s, m)) IN
    IF declared.ok THEN Guarded(s.harness, Configure(declared.value)) ELSE declared
PackageAnswers(s) == {PackageAnswer(s, m) : m \in s.enabled}
Changed(s) ==
    {"asset.prompt", "asset.skill"} \cup (IF Named(s) = {} THEN {} ELSE {"asset.agent"})
    \cup (IF s.enabled = {} THEN {} ELSE {"config.package"})

\* validateManifest: no two files in one place, no two entries under one name.
Unit(plan) == <<plan.target[1], plan.operation.pointer, plan.operation.unit>>
DistinctTargets(files, plans) ==
    /\ \A x, y \in files : x.target = y.target => x = y
    /\ \A x, y \in plans : Unit(x) = Unit(y) => x = y

Projectable(s) ==
    /\ s.enabled \subseteq LogicalIds
    /\ \A answer \in FileAnswers(s) \cup PackageAnswers(s) : answer.ok
    /\ Guarded(s.harness, [kind |-> "reload", typed |-> TRUE, changed |-> Changed(s)]).ok
    /\ DistinctTargets({x.value : x \in FileAnswers(s)}, {x.value : x \in PackageAnswers(s)})

Selectable(s) == \A slot \in InstructionSlots : Cardinality({p \in Packs(s) : p.slot = slot}) = 1

\* How a command is told to have a role performed.
Route(s, r) == IF s.roles[r] \in {NoRole, "current"} THEN "current" ELSE s.roles[r]

\* hintLines: what the fragment of a role says of its model and thinking hints.
Advice(s, r) ==
    [f \in {"agent.model", "agent.thinking"} |->
        s.roles[r] # "current" /\ s.scope \in ScopesOf(s.harness, f)]

CompiledCommand(s, c) ==
    LET body == BodyOf(c)
        slots == {f \in InstructionSlots : Rendering(body, f) = 1}
    IN  [body |-> body, packs |-> {PackOf(s, slot) : slot \in slots},
         routes |-> [r \in ToSet(RoleSlots[c]) |-> Route(s, r)], added |-> Appended(c)]

Compiled(s) ==
    [commands |-> [c \in Commands |-> CompiledCommand(s, c)],
     agents |-> {[role |-> r, agent |-> s.roles[r]] : r \in Named(s)},
     hints |-> [r \in {q \in Roles : s.hinted /\ s.roles[q] # NoRole} |-> Advice(s, r)],
     files |-> {x.value : x \in FileAnswers(s)}, plans |-> {x.value : x \in PackageAnswers(s)},
     packages |-> s.enabled, prerequisites |-> Prerequisites(s)]

AcceptedInput(s) ==
    /\ Problems(s) = {} /\ ~McpConflict(s) /\ Selectable(s) /\ Projectable(s)
    /\ TemplatesAreAccepted

CompileSdlc ==
    /\ phase = "compile"
    /\ IF AcceptedInput(settings) THEN phase' = "compiled" /\ output' = Compiled(settings)
       ELSE phase' = "refused" /\ UNCHANGED output
    /\ UNCHANGED <<settings, templates, unread, found, tiers, templateEdits>>

\* The assets of the manifest.
AssetIds(o) ==
    {CommandId(c) : c \in DOMAIN o.commands} \cup {AgentId(a.agent) : a \in o.agents}
    \cup {<<"package", m>> : m \in o.packages} \cup {Protocol}

\* Somebody saves, adds or removes a file of a directory.
EditTemplate(t, directory) ==
    /\ phase \in {"global", "project", "compile"} /\ templates[t] # directory
    /\ templates' = [templates EXCEPT ![t] = directory] /\ templateEdits' = templateEdits + 1
    /\ UNCHANGED <<settings, phase, unread, found, tiers, output>>

CompilerNext == ReadTemplate \/ CloseDirectory \/ CompileSdlc

-------------------------------------------------------------------------------
(* What a compiled lifecycle promises. *)

Bodies == {output.commands[c].body : c \in Commands}

\* Whatever overrides, every command has the contract of each of its roles once
\* and unchanged, states both optional capabilities, and no other slot twice.
BodiesAreWhole ==
    \A c \in Commands : LET body == output.commands[c].body IN
        /\ \A n \in DOMAIN body : body[n].whole
        /\ \A r \in ToSet(RoleSlots[c]) : Rendering(body, r) = 1
        /\ \A f \in InstructionSlots : Rendering(body, f) = Cardinality({p \in output.commands[c].packs : p.slot = f})
        /\ \A f \in Boundary : Rendering(body, f) = 1

\* A fragment never tells of a provider that is off, that is not the backend in
\* use, that has no connection, or that the forge does not support.
PacksAreUsable ==
    \A c \in Commands : \A p \in output.commands[c].packs :
        /\ (p.provider = "filesystem" \/ (p.slot \in Boundary /\ p.provider # "none")) => p.slot \in settings.enabled
        /\ p.slot = "memory" => p.provider \in {"none", settings.backend}
        /\ p.provider \in Forges =>
                LET connection == settings.connections[p.provider] IN
                /\ connection # NoConnection /\ (connection.http => connection.optIn)
                /\ p.slot \in Support[p.provider].capabilities

\* What a fragment tells the agent to use is a prerequisite of the manifest.
RoutesAreProvided ==
    \A c \in Commands : \A p \in output.commands[c].packs :
        p.provider \in Forges => Routes(settings, p.provider, p.slot) \subseteq output.prerequisites

\* A role that is handed to a named agent has its own agent among the assets;
\* every agent that is installed plays one role, and no required role is open.
AgentsArePresent ==
    /\ \A c \in Commands : \A r \in DOMAIN output.commands[c].routes :
            LET to == output.commands[c].routes[r] IN
            to # "current" => [role |-> r, agent |-> to] \in output.agents
    /\ \A a, b \in output.agents : a.agent = b.agent => a = b
    /\ \A r \in RequiredRoles : settings.roles[r] # NoRole

\* The files of a manifest are where their scope allows, each apart from the
\* others and from the host's configuration, there is one entry for every module,
\* and a fragment calls a hint a request only if the agent's file makes it.
AssetsAreInPlace ==
    LET hinting(r, k) ==
            \E x \in output.files : x.feature = "asset.agent" /\ x.assetId = AgentId(settings.roles[r]) /\ k \in DOMAIN x.entries
    IN  /\ \A x \in output.files : MatchesScope(x.target, settings.scope)
        /\ \A x, y \in output.files : x.target = y.target => x = y
        /\ \A x \in output.files, p \in output.plans : x.target \notin {p.target[n] : n \in DOMAIN p.target}
        /\ Cardinality({Unit(p) : p \in output.plans}) = Cardinality(settings.enabled)
        /\ \A r \in DOMAIN output.hints :
              /\ output.hints[r]["agent.model"] <=> hinting(r, "modelHint")
              /\ output.hints[r]["agent.thinking"] <=> hinting(r, "thinkingHint")

\* Without overrides only the configuration is a reason to refuse: the packaged
\* templates are accepted for whatever it selects.
PackagedTemplatesCompile ==
    LET plain == /\ templateEdits = 0 /\ templates.package = NoDirectory /\ templates.global = NoDirectory
                 /\ templates.project # NoDirectory =>
                        /\ DOMAIN templates.project \subseteq {AppendId(c) : c \in Commands}
                        /\ \A id \in DOMAIN templates.project : templates.project[id].parts # <<>>
    IN  phase = "refused" /\ plain =>
            Problems(settings) # {} \/ McpConflict(settings) \/ ~Selectable(settings)
            \/ (settings.enabled # {} /\ settings.scope \notin ScopesOf(settings.harness, "config.package"))

\* The compiled lifecycle is complete, usable and true to what it records.
CompilerInv ==
    /\ phase = "compiled" => BodiesAreWhole /\ PacksAreUsable /\ RoutesAreProvided /\ AgentsArePresent /\ AssetsAreInPlace
    /\ PackagedTemplatesCompile
    /\ AdaptersKeepTheContract
===============================================================================
