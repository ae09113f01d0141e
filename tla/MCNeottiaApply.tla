---- MODULE MCNeottiaApply ----
(* Small instances of NeottiaApply: documents over a scalar or a mapping at a, *)
(* a secret at s and the harness targets at t; three commands of the published *)
(* lifecycle; one installed file, and two candidates for the host's file.      *)
EXTENDS NeottiaApply

CONSTANTS f, A, B, k, g, m1, m2, x, X, Y, E, F, RX, RY, bad, lit, one, two

RX_Y == RX :> X @@ RY :> Y
PA == <<"a">>
PB == <<"a", "b">>
PC == <<"a", "c">>
PS == <<"s">>
PT == <<"t">>

MCRequired == {PT}
MCSecrets == {PS}
MCDefaults == PB :> one @@ PC :> one @@ PT :> one
MCBindings == <<[path |-> PB, names |-> <<E, Y>>]>>
MCFallbacks == <<[path |-> PS, names |-> <<F>>]>>

MCTrees == {PB :> two, PA :> two, PA :> Empty, PS :> RX, PS :> RY @@ PC :> two, PS :> lit, PC :> bad}
Fragment(t) == [canonical |-> t, legacy |-> NoTree, stray |-> FALSE]
Old(t) == [canonical |-> NoTree, legacy |-> t, stray |-> FALSE]
Document(base, profile) == [version |-> TRUE, base |-> base, profile |-> profile]
Bare(t) == Document(Fragment(t), NoProfile)
Broken ==
    {[Bare(PB :> two) EXCEPT !.version = FALSE], Document([Fragment(PB :> two) EXCEPT !.stray = TRUE], NoProfile),
     Document([Fragment(PB :> two) EXCEPT !.legacy = PA :> two], NoProfile),
     Document(Fragment(NoTree), Fragment(PS :> lit)), Bare(PS \o <<"u">> :> two)}
Whole == {Bare(t) : t \in MCTrees} \cup {Document(Old(PS :> RX), Fragment(PA :> Empty)),
          Document(Fragment(PA :> two), Fragment(PB :> two)), Document(Fragment(PB :> one), Fragment(PA :> two @@ PS :> RY))}
Environments ==
    {X :> Unset @@ Y :> Unset @@ E :> Unset @@ F :> Unset, X :> RY @@ Y :> lit @@ E :> Unset @@ F :> Unset,
     X :> lit @@ Y :> Unset @@ E :> two @@ F :> RX, X :> one @@ Y :> bad @@ E :> Unset @@ F :> Unset}

Selections == {[global |-> 1, project |-> 2], [global |-> 1, project |-> 1], [global |-> Missing, project |-> 2]}
NoOverrides == [package |-> NoDirectory, global |-> NoDirectory, project |-> NoDirectory]
NoInput == [initials |-> {f :> Absent @@ A :> Absent @@ B :> Absent}, overrides |-> NoTree, changes |-> 1,
            explicit |-> TRUE, profile |-> "dev", documents |-> {Bare(PB :> two), Missing},
            patches |-> {PA :> two, PB :> two, PA :> Empty}, templates |-> NoOverrides, directories |-> {},
            plans |-> 0, asks |-> FALSE]
With(input1, files, selection, environment) ==
    [key \in DOMAIN input1 \cup {"docs", "file", "env"} |->
        CASE key = "docs" -> files [] key = "file" -> selection [] key = "env" -> environment [] OTHER -> input1[key]]

-------------------------------------------------------------------------------
(* The published lifecycle and its configurations. *)

MCCommands == {"plan", "release", "continue"}
MCRoleSlots == "plan" :> <<"planner", "researcher">> @@ "continue" :> <<"planner">>
               @@ "release" :> <<"release-coordinator", "documentation-writer">>
MCRoles == {"planner", "researcher", "release-coordinator", "documentation-writer"}
MCRequiredRoles == {"planner", "release-coordinator"}
MCSupport ==
    "github" :> [capabilities |-> Capabilities, mcpRequired |-> {}, client |-> "gh"]
    @@ "gitea" :> [capabilities |-> {"issues", "remote"}, mcpRequired |-> {"issues", "remote"}, client |-> "none"]
    @@ "confluence" :> [capabilities |-> {"documents"}, mcpRequired |-> {"documents"}, client |-> "none"]
Modules == {"issues", "documents", "memory", "searchable"}

Out(path) == [kind |-> "out", path |-> path, direct |-> TRUE, shown |-> "always"]
Loop(part) == [kind |-> "loop", body |-> <<part>>]
Block(name, body) == [kind |-> "block", name |-> name, body |-> body]
Template(parent, parts) == [parent |-> parent, plain |-> TRUE, parts |-> parts]
Extending(parts) == Template("layout", parts)
SlotOrder == <<"issues", "documents", "memory", "searchable", "local", "remote">>
LayoutParts == [n \in 1..6 |-> Block(SlotOrder[n], <<Out(SlotOrder[n])>>)] \o <<Loop(Out("role"))>>
MCPublished ==
    Layout :> Template("none", LayoutParts) @@ Protocol :> Template("none", <<>>)
    @@ CommandId("plan") :> Extending(<<Block("remote", <<>>)>>)
    @@ CommandId("release") :> Extending(<<Block("documents", <<>>)>>) @@ CommandId("continue") :> Extending(<<>>)

\* A template of its own, with the outputs of some slots replaced.
OutsBut(paths) == [n \in 1..6 |-> Out(SlotOrder[n])] \o <<Loop(Out("role"))>> \o paths
Hidden(path) == [Out(path) EXCEPT !.shown = "never"]
Shortened(path) == [Out(path) EXCEPT !.direct = FALSE]
Replacing(part) == [n \in 1..7 |-> IF n <= 6 /\ SlotOrder[n] = part.path THEN part
                                   ELSE IF n <= 6 THEN Out(SlotOrder[n])
                                   ELSE Loop(IF part.path = "role" THEN part ELSE Out("role"))]
CommandTemplates ==
    {Template("none", OutsBut(<<>>)), Template("other", OutsBut(<<>>)), [Extending(<<>>) EXCEPT !.plain = FALSE],
     Template("none", OutsBut(<<Out("role")>>)), Template("none", OutsBut(<<Out("memory")>>)),
     Template("none", OutsBut(<<Out("issues")>>)), Template("none", SubSeq(OutsBut(<<>>), 1, 6)),
     Template("none", Replacing([Out("role") EXCEPT !.shown = "first"]))}
    \cup {Template("none", Replacing(Hidden(path))) : path \in {"issues", "memory", "role"}}
    \cup {Template("none", Replacing(Shortened(path))) : path \in {"issues", "searchable", "role"}}
    \cup {Extending(<<Block(path, <<>>)>>) : path \in {"issues", "memory"}}
    \cup {Extending(<<Block("issues", <<Out("issues")>>)>>)}
Directories ==
    {CommandId(c) :> t : c \in {"plan", "continue"}, t \in CommandTemplates}
    \cup {AppendId("plan") :> Template("none", parts) : parts \in {<<>>, <<Out("added")>>}}
    \cup {Layout :> Template("none", SubSeq(LayoutParts, 1, 6) \o <<Loop(Hidden("role"))>>)}
Extended == CommandId("plan") :> Extending(<<Block("issues", <<>>)>>)
Whole2 == CommandId("plan") :> Template("none", OutsBut(<<>>))
Unmemorable == CommandId("plan") :> Extending(<<Block("memory", <<>>)>>)

Connection(http, optIn, mcp) == [http |-> http, optIn |-> optIn, mcp |-> mcp @@ [cap \in Capabilities |-> NoService]]
Server(name, command) == [server |-> name, command |-> command]
NoMcp == Connection(FALSE, FALSE, <<>>)
Connections(github, gitea, confluence) == "github" :> github @@ "gitea" :> gitea @@ "confluence" :> confluence
GithubConnections ==
    {NoConnection, NoMcp, Connection(TRUE, FALSE, <<>>), Connection(TRUE, TRUE, "documents" :> Server("srv", "run"))}
GiteaConnections ==
    {NoConnection, Connection(FALSE, FALSE, "issues" :> Server("srv", "other")),
     Connection(FALSE, FALSE, [cap \in {"issues", "remote"} |-> Server("srv", "run")])}
ConfluenceConnections == {NoConnection, Connection(FALSE, FALSE, "documents" :> Server("wiki", "run"))}

Plain ==
    [issues |-> "filesystem", documents |-> "filesystem", memory |-> "none", searchable |-> "none", local |-> "git",
     remote |-> "none", workspaces |-> FALSE, enabled |-> {"issues", "documents"}, backend |-> "filesystem",
     connections |-> [forge \in DOMAIN MCSupport |-> NoConnection], harness |-> "opencode", scope |-> "project", hinted |-> FALSE,
     roles |-> [r \in MCRoles |-> IF r \in MCRequiredRoles THEN "current" ELSE NoRole]]
Forged ==
    {[Plain EXCEPT !.issues = i, !.documents = d, !.remote = r, !.connections = Connections(c1, c2, c3)] :
        i \in {"filesystem", "github", "gitea"}, d \in {"filesystem", "github", "gitea", "confluence"},
        r \in {"none", "github", "gitea"}, c1 \in GithubConnections, c2 \in GiteaConnections, c3 \in ConfluenceConnections}
Moduled ==
    {[Plain EXCEPT !.memory = memory, !.searchable = search, !.enabled = on, !.backend = b] :
        memory \in {"none", "filesystem", "postgres"}, search \in {"none", "web"}, on \in SUBSET Modules, b \in {"filesystem", "postgres"}}
    \cup {[Plain EXCEPT !.local = l, !.workspaces = w] : l \in {"git", "jj"}, w \in BOOLEAN}
Roled ==
    {[Plain EXCEPT !.roles["planner"] = r1, !.roles["researcher"] = r2, !.roles["documentation-writer"] = r3,
                   !.harness = h, !.scope = s, !.hinted = hint] :
        r1 \in {NoRole, "current", "ann"}, r2 \in {NoRole, "ann", "bob"}, r3 \in {NoRole, "current", "bob"},
        h \in Harnesses, s \in Scopes, hint \in BOOLEAN}

NoEnvironment == X :> Unset @@ Y :> Unset @@ E :> Unset @@ F :> Unset
Compiling(s, overrides, directories) ==
    With([NoInput EXCEPT !.profile = NoProfile, !.documents = {}, !.patches = {}, !.templates = overrides,
                         !.directories = directories],
         1 :> Bare(PT :> s), [global |-> Missing, project |-> 1], NoEnvironment)
MCCompilerInputs ==
    {Compiling(s, NoOverrides, {}) : s \in Forged \cup Moduled \cup Roled}
    \cup {Compiling(Plain, [NoOverrides EXCEPT ![t] = d], {}) : t \in {"package", "global", "project"}, d \in Directories}
    \cup {Compiling(Plain, [package |-> d1, global |-> d2, project |-> d3], {}) :
            d1 \in {Unmemorable, Extended}, d2 \in {Whole2, NoDirectory}, d3 \in {Extended, Unmemorable, NoDirectory}}
    \cup {Compiling(Plain, [NoOverrides EXCEPT !.global = d1, !.project = d2], {Unmemorable, Whole2 @@ Extended, NoDirectory}) :
            d1 \in {Extended, NoDirectory}, d2 \in {Whole2 @@ CommandId("continue") :> Extending(<<>>), NoDirectory}}

-------------------------------------------------------------------------------
\* The precedence of every pair of documents; overrides and edits on fewer.
MCConfigInputs ==
    {With([NoInput EXCEPT !.profile = p], 1 :> d1 @@ 2 :> d2, [global |-> 1, project |-> 2], e) :
        p \in {"dev", NoProfile}, d1 \in Whole, d2 \in Whole \cup Broken, e \in Environments}
    \cup {With([NoInput EXCEPT !.overrides = t, !.explicit = explicit], 1 :> d @@ 2 :> Missing, s, e) :
        t \in MCTrees \cup {PA :> lit}, explicit \in BOOLEAN, d \in Whole, s \in Selections, e \in Environments}

\* Histories of the installation under a configuration that changes once.
Remembering == [Plain EXCEPT !.memory = "filesystem", !.enabled = {"issues", "documents", "memory"},
                             !.roles["planner"] = "ann"]
MCUnitOf == <<"agent", "ann">> :> f @@ <<"package", "memory">> :> k
MCBytes(asset, s) == IF s.roles["planner"] = "ann" THEN m1 ELSE m2
OnDisk(file, host) == f :> file @@ A :> host @@ B :> Absent
MCInstallInputs ==
    {With([NoInput EXCEPT !.profile = NoProfile, !.patches = {}, !.plans = MaxPlans,
           !.documents = {Bare(PT :> [Remembering EXCEPT !.roles["planner"] = "current"])},
           !.initials = {OnDisk(f :> x, Absent), OnDisk(f :> m1, k :> NoUnit @@ g :> x)}],
          1 :> Bare(PT :> Remembering), [global |-> Missing, project |-> 1], NoEnvironment)}

\* Every kind of request, with every value that a check tells apart.
MCNoId == <<"none", "">>
MCUnsafe == {<<"asset", "a/b">>}
MCLong == {<<"asset", "long">>}
Ids == {<<"asset", "plan">>, MCNoId} \cup MCUnsafe \cup MCLong
Texts == {"unset", "text", "blank"}
PromptRequests ==
    [kind : {"prompt"}, typed : {TRUE}, scope : Scopes, id : {<<"asset", "plan">>}, body : {"lf"}, description : Texts,
     argumentHint : Texts, agent : Texts, model : Texts, subtask : {"unset", "true", "false"}]
AgentRequests ==
    [kind : {"agent"}, typed : {TRUE}, scope : Scopes, id : {<<"asset", "plan">>}, body : {"lf"}, description : {"text", "blank"},
     mode : {"primary", "subagent"}, modelHint : Texts, thinkingHint : {"unset", "text", "other"},
     steps : {"unset", "text", "zero"}, permissions : Texts]
OtherRequests ==
    [kind : {"target"}, typed : BOOLEAN, feature : AssetFeatures \cup ConfigFeatures, scope : Scopes, id : Ids]
    \cup [kind : {"skill"}, typed : {TRUE}, scope : Scopes, id : Ids \ {MCNoId}, body : {"lf", "crlf"}, description : {"text", "long"},
          license : Texts, compatibility : {"unset", "text", "long"}, metadata : Texts]
    \cup [kind : {"extension"}, typed : {TRUE}, scope : Scopes, id : Ids \ {MCNoId}, body : {"lf", "crlf"}]
    \cup [kind : {"package"}, typed : BOOLEAN, scope : Scopes, logicalId : LogicalIds, version : {"exact", "range"}]
    \cup [kind : {"mcp.local"}, typed : {TRUE}, scope : Scopes,
          server : [name : {<<"asset", "srv">>} \cup MCUnsafe, command : {"text", "blank"}, environment : Texts, cwd : Texts,
                    enabled : {"unset", "true"}, timeout : {"unset", "zero", "short", "text"}]]
    \cup [kind : {"mcp.remote"}, typed : {TRUE}, scope : Scopes,
          server : [name : {<<"asset", "srv">>}, url : {"http", "https", "file"}, headers : Texts, oauth : {"unset", "false"},
                    enabled : {"unset", "true"}, timeout : {"unset", "zero", "short", "text"}]]
    \cup [kind : {"reload"}, typed : {TRUE},
          changed : SUBSET {"asset.prompt", "asset.agent", "config.package", "agent.thinking"}]
MCRequests == PromptRequests \cup AgentRequests \cup OtherRequests
MCAdapterInputs ==
    {With([NoInput EXCEPT !.profile = NoProfile, !.documents = {}, !.patches = {}, !.asks = TRUE],
          1 :> Missing, [global |-> Missing, project |-> Missing], NoEnvironment)}

MCInputs == MCAdapterInputs \cup MCConfigInputs \cup MCCompilerInputs \cup MCInstallInputs

MCInitialDisks == UNION {i.initials : i \in MCInputs}
SessionSymmetry == Permutations(Sessions)
====
