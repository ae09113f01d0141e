----------------------------- MODULE HarnessAdapters -----------------------------
(***************************************************************************)
(* The three adapters of Neottia (opencode, claude-code, pi) behind the    *)
(* guard of @neottia/harness-adapter: what each host is declared to have,  *)
(* where its assets go, which metadata it can write, and what the guard    *)
(* accepts as a request and as an answer.                                  *)
(*                                                                         *)
(* An optional field of a request is "unset", a suitable value, or one of  *)
(* the values that its check tells apart ("blank", "other", "zero", ...).  *)
(* `typed' is FALSE for a request with an unknown field or a wrong type.   *)
(***************************************************************************)
EXTENDS FiniteSets, Sequences, TLC

CONSTANTS
    NoId,           \* a target may be asked for without an id
    UnsafeIds,      \* ids that no path may hold
    LongIds,        \* safe ids of more than 64 characters
    NoExchange

VARIABLE exchange   \* the last request, the host that was asked and its answer

Harnesses == {"opencode", "claude-code", "pi"}
Scopes == {"project", "global"}
AssetFeatures == {"asset.prompt", "asset.skill", "asset.extension", "asset.agent"}
ConfigFeatures == {"config.package", "config.mcp.local", "config.mcp.remote"}
PromptFeature ==
    [description |-> "prompt.description", argumentHint |-> "prompt.argument-hint", agent |-> "prompt.agent",
     model |-> "prompt.model", subtask |-> "prompt.subtask"]
AgentFeature ==
    [modelHint |-> "agent.model", thinkingHint |-> "agent.thinking", steps |-> "agent.steps",
     permissions |-> "agent.permissions"]
FeaturesOf(table) == {table[k] : k \in DOMAIN table}
HostFeatures ==
    AssetFeatures \cup ConfigFeatures \cup FeaturesOf(PromptFeature) \cup FeaturesOf(AgentFeature)
    \cup {"agent.primary", "agent.subagent"}

-------------------------------------------------------------------------------
(* The declarations. *)

Lacks == [h \in Harnesses |->
    CASE h = "opencode" -> {"prompt.argument-hint", "agent.thinking"}
      [] h = "claude-code" -> {"asset.extension", "agent.permissions"}
      [] OTHER -> {"asset.agent", "config.mcp.local", "config.mcp.remote", "prompt.agent", "prompt.model",
                   "prompt.subtask", "agent.primary", "agent.subagent"} \cup FeaturesOf(AgentFeature)]
Projection(f) ==
    IF f \in AssetFeatures THEN "file" ELSE IF f \in ConfigFeatures THEN "host-config" ELSE "metadata"
Supported(h, f) ==
    IF f \in Lacks[h] THEN [status |-> "unsupported", scopes |-> {}, projection |-> "none"]
    ELSE [status |-> "supported", projection |-> Projection(f),
          scopes |-> IF h = "claude-code" /\ f \in ConfigFeatures THEN {"project"} ELSE Scopes]
ScopesOf(h, f) == Supported(h, f).scopes

-------------------------------------------------------------------------------
(* Symbolic paths. *)

\* Mutant: agents are written beside the commands.
OneFolder(h, f) == IF f \in {"asset.prompt", "asset.agent"} THEN "commands" ELSE "skills"

Anchor(h, scope) == IF scope = "project" THEN "project" ELSE IF h = "opencode" THEN "xdg-config" ELSE "home"
Root(h, scope) ==
    CASE h = "opencode" -> IF scope = "project" THEN <<".opencode">> ELSE <<"opencode">>
      [] h = "claude-code" -> <<".claude">>
      [] OTHER -> IF scope = "project" THEN <<".pi">> ELSE <<".pi", "agent">>
Folder(h, f) ==
    CASE f = "asset.prompt" -> IF h = "pi" THEN "prompts" ELSE "commands"
      [] f = "asset.skill" -> "skills"
      [] f = "asset.extension" -> IF h = "pi" THEN "extensions" ELSE "plugins"
      [] OTHER -> "agents"

Leaf(f, id) ==
    CASE f = "asset.skill" -> <<id, "SKILL.md">> [] f = "asset.extension" -> <<<<id, "ts">>>> [] OTHER -> <<<<id, "md">>>>
AssetPath(h, f, scope, id) ==
    [anchor |-> Anchor(h, scope), segments |-> Root(h, scope) \o <<Folder(h, f)>> \o Leaf(f, id)]

\* The candidates for the host's configuration; the first is where one is created.
Locator(h, scope) ==
    LET at(segments) == [anchor |-> Anchor(h, scope), segments |-> segments]
        base == IF scope = "project" THEN <<>> ELSE <<"opencode">>
    IN  CASE h = "opencode" -> <<at(base \o <<"opencode.json">>), at(base \o <<"opencode.jsonc">>)>>
          [] h = "claude-code" -> <<[anchor |-> "project", segments |-> <<".mcp.json">>]>>
          [] OTHER -> <<at(Root(h, scope) \o <<"settings.json">>)>>

-------------------------------------------------------------------------------
(* Projections. *)

Value(v) == [ok |-> TRUE, value |-> v]
Diagnosed(problems) == [ok |-> FALSE, problems |-> problems]
Problem(code, f) == {[code |-> code, feature |-> f]}
Check(condition, code, f) == IF condition THEN {} ELSE Problem(code, f)
Unsupported(f) == Diagnosed(Problem("UNSUPPORTED_HOST_FEATURE", f))
Given(r, fields) == {k \in fields : r[k] # "unset"}

Target(h, f, scope, id) ==
    IF f \in Lacks[h] THEN Unsupported(f)
    ELSE IF scope \notin ScopesOf(h, f) THEN Diagnosed(Problem("UNSUPPORTED_SCOPE", f))
    ELSE IF f \in ConfigFeatures THEN Value(Locator(h, scope))
    ELSE IF id \in UnsafeIds \cup {NoId} THEN Diagnosed(Problem("INVALID_ASSET_ID", f))
    ELSE Value(AssetPath(h, f, scope, id))

ContentProblems(f, r) ==
    Check(r.id \notin UnsafeIds, "INVALID_ASSET_ID", f) \cup Check(r.body # "crlf", "INVALID_CONTENT", f)

\* requireProjectedPath throws when there is no path, and the guard answers that.
File(h, f, r, entries) ==
    LET target == Target(h, f, r.scope, r.id) IN
    IF target.ok
    THEN Value([assetId |-> r.id, feature |-> f, target |-> target.value, entries |-> entries, body |-> r.body])
    ELSE Diagnosed(Problem("INVALID_ADAPTER_RESULT", f))

\* The metadata each host has a place for in the file.
PromptKeys(h) ==
    CASE h = "opencode" -> {"description", "agent", "model", "subtask"}
      [] h = "claude-code" -> {"description", "argumentHint", "agent", "model", "subtask"}
      [] OTHER -> {"description", "argumentHint"}
PromptEntries(h, r) ==
    LET given == Given(r, PromptKeys(h)) IN
    IF h # "claude-code" THEN [k \in given |-> r[k]]
    ELSE [k \in (given \ {"subtask"}) \cup (IF r.agent # "unset" \/ r.subtask = "true" THEN {"context"} ELSE {}) |->
            IF k = "context" THEN "fork" ELSE r[k]]
ProjectPrompt(h, r) ==
    LET given == Given(r, DOMAIN PromptFeature)
        problems ==
            ContentProblems("asset.prompt", r)
            \cup UNION {IF k \notin PromptKeys(h) THEN Problem("UNREPRESENTABLE_METADATA", PromptFeature[k])
                        ELSE Check(r[k] # "blank", "INVALID_CONTENT", PromptFeature[k]) : k \in given}
    IN  IF problems # {} THEN Diagnosed(problems) ELSE File(h, "asset.prompt", r, PromptEntries(h, r))

SkillKeys == {"description", "license", "compatibility", "metadata"}
ProjectSkill(h, r) ==
    LET target == Target(h, "asset.skill", r.scope, r.id)
        problems ==
            ContentProblems("asset.skill", r) \cup Check(r.id \notin LongIds, "INVALID_ASSET_ID", "asset.skill")
            \cup Check(\A k \in SkillKeys : r[k] \notin {"blank", "long"}, "INVALID_CONTENT", "asset.skill")
    IN  IF ~target.ok THEN target
        ELSE IF problems # {} THEN Diagnosed(problems)
        ELSE File(h, "asset.skill", r, [k \in Given(r, SkillKeys) |-> r[k]])

ProjectExtension(h, r) ==
    LET problems == ContentProblems("asset.extension", r) IN
    IF h = "claude-code" THEN Unsupported("asset.extension")
    ELSE IF problems # {} THEN Diagnosed(problems) ELSE File(h, "asset.extension", r, <<>>)

AgentKeys(h) ==
    IF h = "opencode" THEN {"description", "mode", "modelHint", "steps", "permissions"}
    ELSE {"description", "modelHint", "thinkingHint", "steps"}
ProjectAgent(h, r) ==
    LET given == Given(r, {"description"} \cup DOMAIN AgentFeature)
        sound == /\ r.description # "blank" /\ r.modelHint # "blank" /\ r.steps # "zero"
                 /\ "permissions" \in AgentKeys(h) => r.permissions # "blank"
        problems ==
            ContentProblems("asset.agent", r) \cup Check(sound, "INVALID_CONTENT", "asset.agent")
            \cup UNION {Problem("UNREPRESENTABLE_METADATA", AgentFeature[k]) :
                            k \in {j \in given : j \notin AgentKeys(h) \/ r[j] = "other"}}
    IN  IF h = "pi" THEN Unsupported("asset.agent")
        ELSE IF problems # {} THEN Diagnosed(problems)
        ELSE File(h, "asset.agent", r, [k \in Given(r, AgentKeys(h)) |-> r[k]])

-------------------------------------------------------------------------------
(* Packages and the host's configuration. *)

LogicalIds == {"memory", "issues", "documents", "searchable"}
Activation(h) == CASE h = "opencode" -> "opencode-plugin" [] h = "claude-code" -> "mcp-stdio" [] OTHER -> "pi-package"
PackageName(h, id) == <<Activation(h), id>>
ServerName(id) == <<"neottia", id>>

DeclarePackage(h, r) ==
    IF h = "claude-code" /\ r.scope # "project" THEN Diagnosed(Problem("UNSUPPORTED_SCOPE", "config.package"))
    ELSE IF r.version # "exact" THEN Diagnosed(Problem("INVALID_PACKAGE_DECLARATION", "config.package"))
    ELSE Value([logicalId |-> r.logicalId, scope |-> r.scope, name |-> PackageName(h, r.logicalId),
                version |-> r.version, activation |-> Activation(h)])

HostPlan(h, scope, pointer, unit, entries) ==
    Value([hostId |-> h, scope |-> scope, target |-> Locator(h, scope),
           operation |-> [pointer |-> pointer, unit |-> unit, entries |-> entries]])

PlanPackage(h, p) ==
    LET verified == /\ p.activation = Activation(h) /\ p.name = PackageName(h, p.logicalId) /\ p.version = "exact"
                    /\ h = "claude-code" => p.scope = "project"
        what == [name |-> p.name, version |-> p.version]
    IN  IF ~verified THEN Diagnosed(Problem("INVALID_PACKAGE_DECLARATION", "config.package"))
        ELSE CASE h = "opencode" -> HostPlan(h, p.scope, "/plugin", p.name, what)
               [] h = "claude-code" -> HostPlan(h, "project", "/mcpServers", ServerName(p.logicalId), what)
               [] OTHER -> HostPlan(h, p.scope, "/packages", p.name, what)

\* A field that the host has no entry for is refused with the declaration.
McpKeys(h, kind) ==
    (IF kind = "mcp.local" THEN {"command", "environment", "timeout"} ELSE {"url", "headers", "timeout"})
    \cup (IF h = "claude-code" THEN {} ELSE {"enabled"} \cup IF kind = "mcp.local" THEN {"cwd"} ELSE {"oauth"})
ValidMcp(h, kind, server) ==
    LET given == Given(server, DOMAIN server \ {"name"}) IN
    /\ server.name \notin UnsafeIds /\ given \subseteq McpKeys(h, kind)
    /\ \A k \in given : server[k] # "blank"
    /\ server.timeout \notin (IF h = "claude-code" THEN {"zero", "short"} ELSE {"zero"})
    /\ kind = "mcp.remote" => server.url \in {"http", "https"} /\ ("headers" \in given => server.url = "https")

PlanMcp(h, kind, r) ==
    LET feature == IF kind = "mcp.local" THEN "config.mcp.local" ELSE "config.mcp.remote"
        server == r.server
    IN  IF h = "pi" THEN Unsupported(feature)
        ELSE IF h = "claude-code" /\ r.scope # "project" THEN Diagnosed(Problem("UNSUPPORTED_SCOPE", feature))
        ELSE IF ~ValidMcp(h, kind, server) THEN Diagnosed(Problem("INVALID_MCP_DECLARATION", feature))
        ELSE HostPlan(h, r.scope, IF h = "opencode" THEN "/mcp" ELSE "/mcpServers", server.name,
                  [k \in Given(server, McpKeys(h, kind)) |-> server[k]])

ReloadNotice(h, changed) ==
    LET lacking == changed \cap Lacks[h]
        notice(action) == Value([hostId |-> h, action |-> action, affected |-> changed])
    IN  IF lacking # {} THEN Diagnosed(UNION {Problem("UNSUPPORTED_HOST_FEATURE", f) : f \in lacking})
        ELSE IF changed = {} THEN notice("none")
        ELSE IF h = "pi" /\ "config.package" \notin changed THEN notice("command")
        ELSE notice("restart")

-------------------------------------------------------------------------------
(* The guard around every adapter. *)

Answer(h, r) ==
    CASE r.kind = "target" -> Target(h, r.feature, r.scope, r.id)
      [] r.kind = "prompt" -> ProjectPrompt(h, r)
      [] r.kind = "skill" -> ProjectSkill(h, r)
      [] r.kind = "extension" -> ProjectExtension(h, r)
      [] r.kind = "agent" -> ProjectAgent(h, r)
      [] r.kind = "package" -> DeclarePackage(h, r)
      [] r.kind = "configure" -> PlanPackage(h, r.package)
      [] r.kind = "reload" -> ReloadNotice(h, r.changed)
      [] OTHER -> PlanMcp(h, r.kind, r)

FeatureOfKind(kind) ==
    CASE kind = "mcp.local" -> "config.mcp.local"
      [] kind = "mcp.remote" -> "config.mcp.remote"
      [] kind = "prompt" -> "asset.prompt" [] kind = "skill" -> "asset.skill"
      [] kind = "extension" -> "asset.extension" [] OTHER -> "asset.agent"
Feature(r) ==
    CASE r.kind = "target" -> r.feature
      [] r.kind \in {"package", "configure"} -> "config.package"
      [] r.kind = "reload" -> "none"
      [] OTHER -> FeatureOfKind(r.kind)
ScopeOf(r) == IF r.kind = "configure" THEN r.package.scope ELSE r.scope

MatchesScope(path, scope) == IF scope = "project" THEN path.anchor = "project" ELSE path.anchor \in {"home", "xdg-config"}
ValidLocator(candidates, scope) == \A n \in DOMAIN candidates : MatchesScope(candidates[n], scope)
ValidFile(r, file) ==
    /\ file.assetId = r.id /\ r.id \notin UnsafeIds /\ file.feature = Feature(r)
    /\ MatchesScope(file.target, r.scope) /\ file.body # "crlf" /\ (r.kind = "skill" => r.id \notin LongIds)
ValidPlan(h, r, plan) == plan.hostId = h /\ plan.scope = ScopeOf(r) /\ ValidLocator(plan.target, ScopeOf(r))
ValidNotice(h, r, notice) ==
    notice.hostId = h /\ notice.affected = r.changed /\ (notice.action = "none" <=> notice.affected = {})
ValidValue(h, r, v) ==
    CASE r.kind = "target" -> IF r.feature \in ConfigFeatures THEN ValidLocator(v, r.scope) ELSE MatchesScope(v, r.scope)
      [] r.kind \in {"prompt", "skill", "extension", "agent"} -> ValidFile(r, v)
      [] r.kind = "package" -> v.logicalId = r.logicalId /\ v.scope = r.scope /\ v.version = r.version
      [] r.kind = "reload" -> ValidNotice(h, r, v)
      [] OTHER -> ValidPlan(h, r, v)

Guarded(h, r) ==
    IF ~r.typed THEN Diagnosed(Problem("INVALID_REQUEST", Feature(r)))
    ELSE LET answer == Answer(h, r) IN
         IF answer.ok /\ ~ValidValue(h, r, answer.value)
         THEN Diagnosed(Problem("INVALID_ADAPTER_RESULT", Feature(r))) ELSE answer

-------------------------------------------------------------------------------
(* Questions, and the plan for a package that an adapter has declared. *)

AdapterInit == exchange = NoExchange
Ask(h, r) ==
    exchange = NoExchange /\ exchange' = [host |-> h, request |-> r, answer |-> Guarded(h, r)]
Configure(declared) == [kind |-> "configure", typed |-> TRUE, package |-> declared]
PlanDeclared(h) ==
    /\ exchange # NoExchange /\ exchange.request.kind = "package" /\ exchange.answer.ok
    /\ exchange' = [host |-> h, request |-> Configure(exchange.answer.value),
                    answer |-> Guarded(h, Configure(exchange.answer.value))]

\* The types of the requests of a consumer; "other" stands for a thinking hint
\* that a host has no word for.
IsRequest(r) ==
    /\ r.kind \in {"target", "prompt", "skill", "extension", "agent", "package", "reload", "mcp.local", "mcp.remote"}
    /\ r.typed \in BOOLEAN
    /\ r.kind = "target" => r.feature \in AssetFeatures \cup ConfigFeatures
    /\ r.kind # "reload" => r.scope \in Scopes
    /\ r.kind \in {"prompt", "skill", "extension", "agent"} => r.id # NoId
    /\ r.kind = "agent" => /\ r.mode \in {"primary", "subagent"}
                           /\ \A k \in {"description", "modelHint", "steps", "permissions"} : r[k] # "other"

-------------------------------------------------------------------------------
(* What an exchange promises, whatever is asked. *)

Uses(r) ==
    {Feature(r)} \cup IF r.kind = "prompt" THEN {PromptFeature[k] : k \in Given(r, DOMAIN PromptFeature)}
                      ELSE IF r.kind = "agent"
                      THEN {AgentFeature[k] : k \in Given(r, DOMAIN AgentFeature)}
                           \cup {IF r.mode = "primary" THEN "agent.primary" ELSE "agent.subagent"}
                      ELSE {}
Declares(h, r) == \A f \in Uses(r) : ScopeOf(r) \in ScopesOf(h, f)

\* An answer has what the declaration says the host has in that scope; a refusal
\* for want of support names a feature that is used and, unless the value is one
\* the host has no word for, not declared; and the guard never has to step in.
DeclarationIsTrue(h, r, answer) ==
    /\ answer.ok => Declares(h, r)
    /\ ~answer.ok /\ r.typed => \A p \in answer.problems :
          /\ p.code # "INVALID_ADAPTER_RESULT" /\ p.feature \in Uses(r)
          /\ p.code \in {"UNSUPPORTED_HOST_FEATURE", "UNSUPPORTED_SCOPE", "UNREPRESENTABLE_METADATA"} =>
                ScopeOf(r) \notin ScopesOf(h, p.feature) \/ (r.kind = "agent" /\ r.thinkingHint = "other")

\* Every field of an accepted request is in what is written.  Claude Code forks
\* for an agent whatever the request says of a subtask.
NothingIsDropped(r, v) ==
    CASE r.kind = "prompt" ->
            \A k \in Given(r, DOMAIN PromptFeature) :
                \/ k \in DOMAIN v.entries /\ v.entries[k] = r[k]
                \/ k = "subtask" /\ (r.agent # "unset" \/ ("context" \in DOMAIN v.entries <=> r.subtask = "true"))
      [] r.kind = "agent" -> \A k \in Given(r, {"description"} \cup DOMAIN AgentFeature) : v.entries[k] = r[k]
      [] r.kind = "skill" -> \A k \in Given(r, SkillKeys) : v.entries[k] = r[k]
      [] r.kind \in {"mcp.local", "mcp.remote"} ->
            \A k \in Given(r.server, DOMAIN r.server \ {"name"}) : v.operation.entries[k] = r.server[k]
      [] OTHER -> TRUE

\* Two assets of one id never share a file, and no asset is the host's configuration.
TargetsAreApart(h, r, v) ==
    r.kind \in {"prompt", "skill", "extension", "agent"} =>
        /\ \A f \in AssetFeatures \ {v.feature} : Target(h, f, r.scope, r.id) # Value(v.target)
        /\ \A n \in DOMAIN Locator(h, r.scope) : Locator(h, r.scope)[n] # v.target

\* A package is configured by the host that declared it, in its scope, and by no other.
PackagesAreTheHosts(h, r, answer) ==
    r.kind = "configure" => (answer.ok <=> r.package.activation = Activation(h))

AdaptersKeepTheContract ==
    exchange # NoExchange =>
        LET h == exchange.host
            r == exchange.request
            answer == exchange.answer
        IN  /\ r.kind \notin {"configure", "reload"} => DeclarationIsTrue(h, r, answer)
            /\ answer.ok => NothingIsDropped(r, answer.value) /\ TargetsAreApart(h, r, answer.value)
            /\ PackagesAreTheHosts(h, r, answer)
===============================================================================
