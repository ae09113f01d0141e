------------------------------ MODULE NeottiaApply ------------------------------
(***************************************************************************)
(* The commands of the Neottia CLI (cli/src/index.ts) over a project: each *)
(* invocation resolves the configuration, loads the templates and compiles *)
(* them to a manifest of assets, and inspects, plans and applies the       *)
(* installation, while the user edits the configuration, the templates and *)
(* the installed files.  ConfigResolver, SdlcCompiler and                  *)
(* InstallationPlanner hold the steps of the three phases.                 *)
(***************************************************************************)
EXTENDS ConfigResolver, SdlcCompiler, InstallationPlanner

CONSTANTS
    TargetsPath,    \* the leaf of the configuration that names the harness targets
    NoHarness,      \* its default: no target
    AdapterRequests,       \* what the adapters are asked
    UnitOf,         \* UnitOf[a]: the file or the key of the asset a; other assets are left out
    Bytes(_, _)     \* what an asset holds, compiled from a configuration

ASSUME AsksAssumption == \A r \in AdapterRequests : IsRequest(r)
ASSUME DirectoriesAssumption ==
    \A i \in Inputs : LET directories == {i.templates[t] : t \in DOMAIN i.templates} \cup i.directories IN
        /\ DOMAIN i.templates = {"package", "global", "project"}
        /\ \A directory \in directories \ {NoDirectory} : AreTemplates(directory)
ASSUME UnitAssumption == \A a \in DOMAIN UnitOf : UnitOf[a] \in WholeFiles \cup Keys

allVars == <<configVars, compilerVars, plannerVars, exchange>>

ApplyInit ==
    /\ ConfigInit /\ PlannerInit /\ disk \in input.initials
    /\ CompilerInit /\ templates = input.templates

\* selectHarnesses: a target that no adapter is for is refused.
Configured ==
    step = "done" /\ ~failed /\ snapshot.value[TargetsPath] # NoHarness /\ IsSettings(snapshot.value[TargetsPath])

\* compileHarnessLifecycle: the snapshot of this invocation is compiled.
CompileHarness ==
    /\ \/ Configured /\ plans < MaxPlans /\ StartCompiler(snapshot.value[TargetsPath])
       \/ CompilerNext
       \/ \E t \in {"global", "project"}, directory \in input.directories :
              templateEdits < MaxEdits /\ EditTemplate(t, directory)
    /\ UNCHANGED <<configVars, plannerVars>>

Installed == AssetIds(output) \cap DOMAIN UnitOf
Manifest ==
    [u \in {UnitOf[a] : a \in Installed} |-> Bytes(CHOOSE a \in Installed : UnitOf[a] = u, settings)]

\* sdlc plan saves a plan, apply goes on with it at once.
Compile(p, command) ==
    /\ phase = "compiled" /\ plans < input.plans /\ StartInspection(p, command, Manifest)
    /\ ForgetCompiler /\ UNCHANGED configVars

\* The next invocation reads the configuration and the templates again.
Invoke ==
    /\ step = "done" /\ plans > 0 /\ plans < MaxPlans /\ \A p \in Sessions : stage[p] \in {"idle", "saved"}
    /\ step' = "global" /\ parsed' = <<>> /\ loaded' = <<>> /\ failed' = FALSE
    /\ snapshot' = NoSnapshot /\ layers' = <<>>
    /\ phase \in {"idle", "refused"} /\ ForgetCompiler
    /\ UNCHANGED <<docs, input, changes, plannerVars>>

\* The steps of the configuration and of the compiler share no variable with
\* those of the installer, so the latter need not be tried between the former.
BetweenInvocations == step = "done" /\ phase \in {"idle", "refused"}

\* A consumer of the adapters asks them on its own.
AskAdapters ==
    /\ input.asks /\ step = "done" /\ \E h \in Harnesses : (\E r \in AdapterRequests : Ask(h, r)) \/ PlanDeclared(h)
    /\ UNCHANGED <<configVars, compilerVars, plannerVars>>

Invocations ==
    \/ ConfigNext /\ UNCHANGED <<compilerVars, plannerVars>>
    \/ CompileHarness
    \/ Invoke
    \/ \E p \in Sessions, command \in {"plan", "apply"} : Compile(p, command)
    \/ BetweenInvocations /\ (UserEdits \/ \E p \in Sessions : PlannerStep(p)) /\ UNCHANGED <<configVars, compilerVars>>

ApplyNext == (Invocations /\ UNCHANGED exchange) \/ AskAdapters

ApplySpec == ApplyInit /\ [][ApplyNext]_allVars
===============================================================================
