-------------------------- MODULE InstallationPlanner --------------------------
(***************************************************************************)
(* Planning, approving and applying an installation: inspection.ts,        *)
(* planner.ts, manifest.ts and host-config.ts of @neottia/distribution,    *)
(* as the plan, uninstall and apply commands of the CLI drive them.        *)
(* Several commands are under way at once, the user edits the files        *)
(* between any two steps, and a saved plan may be applied late or twice.   *)
(* Applying is one step here: InstallationTransaction shows that the steps *)
(* it takes implement AtomicBatch.                                         *)
(***************************************************************************)
EXTENDS Naturals, FiniteSets, TLC

CONSTANTS
    Sessions,       \* invocations of the CLI, one plan file each
    WholeFiles,     \* targets that are owned as whole files
    Hosts,          \* candidates for the host's configuration file
    CreateAt,       \* the candidate created when there is none
    Keys,           \* entries of a host configuration, owned one by one
    UnitValues, NoUnit, \* what a unit may hold; NoUnit when it does not exist
    Absent,         \* content of a container that does not exist
    NoReceipt,
    InitialDisks,   \* what the containers hold at first
    UserValues,     \* what the user writes
    MaxPlans, MaxEdits  \* model bounds

Containers == WholeFiles \cup Hosts
Slots(c) == IF c \in WholeFiles THEN {c} ELSE Keys
Units == {<<f, f>> : f \in WholeFiles} \cup (Hosts \X Keys)
States == UnitValues \cup {NoUnit}

PartialOn(S, T) == UNION {[D -> T] : D \in SUBSET S}
IsContent(c, x) == x = Absent \/ x \in [Slots(c) -> States]
IsDisk(d) ==
    /\ DOMAIN d = Containers /\ \A c \in Containers : IsContent(c, d[c])
    /\ \A f \in WholeFiles : d[f] # Absent => d[f][f] # NoUnit

Manifests == PartialOn(WholeFiles \cup Keys, UnitValues)     \* what may be desired
Receipts ==
    [manifest : Manifests, entries : PartialOn(Units, [sum : UnitValues, previous : States])]

ASSUME HostAssumption ==
    CreateAt \in Hosts /\ IsFiniteSet(Hosts) /\ WholeFiles \cap (Hosts \cup Keys) = {}
ASSUME NilAssumption == NoUnit \notin UnitValues /\ NoReceipt \notin Receipts
ASSUME AbsentAssumption == \A c \in Containers : Absent \notin [Slots(c) -> States]
ASSUME DiskAssumption == UserValues \subseteq UnitValues /\ \A d \in InitialDisks : IsDisk(d)

VARIABLES
    disk,       \* disk[c]: Absent, or what the slots of c hold
    receipt,    \* NoReceipt, or the manifest and the owned units
    stage,      \* per run: idle, select, read, saved
    cmd,        \* plan, apply or uninstall
    manifest,   \* the compiled assets
    known,      \* the receipt as inspected
    target,     \* the host configuration selected
    seen,       \* the containers read so far
    authorized, \* the authorized plan
    (* history, for the properties *)
    user,       \* what the user last left in a unit of their own
    dirty,      \* units the user edited since a plan wrote them
    skipped,    \* conflicted units an apply left out of the receipt
    unguarded,  \* a plan was applied after something it was made from and
                \* does not write had changed
    plans, userEdits

planVars == <<stage, cmd, manifest, known, target, seen, authorized>>
userVars == <<user, dirty, skipped, unguarded>>
plannerVars == <<disk, receipt, planVars, userVars, plans, userEdits>>

Held(contents, u) == IF contents[u[1]] = Absent THEN NoUnit ELSE contents[u[1]][u[2]]
ReceiptEntries(r) == IF r = NoReceipt THEN <<>> ELSE r.entries
Owned == DOMAIN ReceiptEntries(receipt)

NoManifest == <<>>
Unplanned == [intends |-> <<>>, before |-> <<>>, after |-> <<>>, approved |-> {}, dropped |-> {},
           madeFrom |-> NoReceipt, leaves |-> NoReceipt]

PlannerInit ==
    /\ disk \in InitialDisks /\ receipt = NoReceipt
    /\ stage = [p \in Sessions |-> "idle"] /\ cmd = [p \in Sessions |-> "plan"]
    /\ manifest = [p \in Sessions |-> NoManifest] /\ known = [p \in Sessions |-> NoReceipt]
    /\ target = [p \in Sessions |-> CreateAt] /\ seen = [p \in Sessions |-> <<>>]
    /\ authorized = [p \in Sessions |-> Unplanned]
    /\ user = [u \in Units |-> Held(disk, u)]
    /\ dirty = {} /\ skipped = {} /\ unguarded = FALSE
    /\ plans = 0 /\ userEdits = 0

-------------------------------------------------------------------------------
(* The pure planner: createInstallationPlan over what an inspection read. *)

Desired(m, host) ==
    {<<f, f>> : f \in DOMAIN m \cap WholeFiles} \cup {<<host, key>> : key \in DOMAIN m \cap Keys}
Inspected(m, host, known_) == Desired(m, host) \cup DOMAIN ReceiptEntries(known_)

\* stateMatchesReceipt: an owned unit holds what the receipt says.
AsReceipted(u, owned, contents) == Held(contents, u) # NoUnit /\ Held(contents, u) = owned[u].sum

\* Mutant: only unowned files need an approval.
UnownedConflicts(units, owned, contents) == {u \in units \ DOMAIN owned : Held(contents, u) # NoUnit}

\* classifyConflict: unowned-existing, or modified-owned.
Conflicts(units, owned, contents) ==
    {u \in units : IF u \in DOMAIN owned THEN ~AsReceipted(u, owned, contents)
                   ELSE Held(contents, u) # NoUnit}

\* Mutant: what the unit holds now is taken for the displaced state.
PreviousIsCurrent(u, owned, contents) == Held(contents, u)

\* nextReceiptEntry and displacedState: the original displaced state stays.
Previous(u, owned, contents) == IF u \in DOMAIN owned THEN owned[u].previous ELSE Held(contents, u)

\* Mutant: a unit that is no longer desired is removed, not restored.
NextRemoves(u, m, host, owned) == IF u \in Desired(m, host) THEN m[u[2]] ELSE NoUnit

\* A unit that is no longer desired returns to its displaced state.
NextState(u, m, host, owned) == IF u \in Desired(m, host) THEN m[u[2]] ELSE owned[u].previous

\* buildContentMutations: a file is written or removed whole; in a host
\* configuration only the named entries change, and the file comes to exist.
Content(c, units, state, old) ==
    IF c \in WholeFiles
    THEN IF state[<<c, c>>] = NoUnit THEN Absent ELSE [s \in {c} |-> state[<<c, c>>]]
    ELSE [s \in Keys |-> IF <<c, s>> \in units THEN state[<<c, s>>]
                         ELSE IF old = Absent THEN NoUnit ELSE old[s]]

\* The receipt an install or an update leaves; an uninstall leaves none.
NextReceipt(command, m, units, host, owned, contents) ==
    IF command = "uninstall" THEN NoReceipt
    ELSE [manifest |-> m,
          entries |-> [u \in units \cap Desired(m, host) |->
              [sum |-> m[u[2]], previous |-> Previous(u, owned, contents)]]]

\* A plan names the containers that change, with the content each had.
PlanFor(command, m, host, known_, contents, units, approved) ==
    LET owned == ReceiptEntries(known_)
        state == [u \in units |-> NextState(u, m, host, owned)]
        next == [c \in {u[1] : u \in units} |-> Content(c, units, state, contents[c])]
        changed == {c \in DOMAIN next : next[c] # contents[c]}
    IN  [intends |-> state,
         before |-> [c \in changed |-> contents[c]], after |-> [c \in changed |-> next[c]],
         approved |-> approved,
         dropped |-> Inspected(m, host, known_) \ units,
         madeFrom |-> known_, leaves |-> NextReceipt(command, m, units, host, owned, contents)]

-------------------------------------------------------------------------------
(* inspectInstallation and inspectUninstall: one read at a time. *)

\* The receipt is read first; an uninstall without one is refused.
StartInspection(p, command, m) ==
    /\ stage[p] \in {"idle", "saved"} /\ plans < MaxPlans /\ plans' = plans + 1
    /\ command = "uninstall" => receipt # NoReceipt /\ m = NoManifest
    /\ stage' = [stage EXCEPT ![p] = IF DOMAIN m \cap Keys = {} THEN "read" ELSE "select"]
    /\ cmd' = [cmd EXCEPT ![p] = command] /\ manifest' = [manifest EXCEPT ![p] = m]
    /\ known' = [known EXCEPT ![p] = receipt] /\ target' = [target EXCEPT ![p] = CreateAt]
    /\ seen' = [seen EXCEPT ![p] = <<>>] /\ authorized' = [authorized EXCEPT ![p] = Unplanned]
    /\ UNCHANGED <<disk, receipt, userVars, userEdits>>

Present == {h \in Hosts : disk[h] # Absent}

\* selectHostConfigTarget: the only candidate that exists, or the one to create.
SelectHost(p) ==
    /\ stage[p] = "select"
    /\ IF Cardinality(Present) > 1
       THEN stage' = [stage EXCEPT ![p] = "idle"] /\ UNCHANGED target
       ELSE /\ stage' = [stage EXCEPT ![p] = "read"]
            /\ target' = [target EXCEPT ![p] = IF Present = {} THEN CreateAt ELSE CHOOSE h \in Present : TRUE]
    /\ UNCHANGED <<disk, receipt, cmd, manifest, known, seen, authorized, userVars, plans, userEdits>>

Needed(p) == {u[1] : u \in Inspected(manifest[p], target[p], known[p])}
ReadContainer(p, c) ==
    /\ stage[p] = "read" /\ c \in Needed(p) \ DOMAIN seen[p]
    /\ seen' = [seen EXCEPT ![p] = [d \in DOMAIN seen[p] \cup {c} |-> IF d = c THEN disk[c] ELSE seen[p][d]]]
    /\ UNCHANGED <<disk, receipt, stage, cmd, manifest, known, target, authorized, userVars, plans, userEdits>>

\* apply leaves out every asset with a conflict; the other commands keep them.
PlannedUnits(p, all, conflicts) ==
    IF cmd[p] = "apply" THEN {u \in all : u[2] \notin {v[2] : v \in conflicts}} ELSE all

\* authorizePlan: the user approves every conflict, or the plan is of no use.
MakePlan(p, approves) ==
    LET all == Inspected(manifest[p], target[p], known[p])
        conflicts == Conflicts(all, ReceiptEntries(known[p]), seen[p])
        units == PlannedUnits(p, all, conflicts)
    IN  /\ stage[p] = "read" /\ Needed(p) = DOMAIN seen[p]
        /\ IF approves \/ cmd[p] = "apply" \/ conflicts = {}
           THEN /\ stage' = [stage EXCEPT ![p] = "saved"]
                /\ authorized' = [authorized EXCEPT ![p] =
                     PlanFor(cmd[p], manifest[p], target[p], known[p], seen[p], units,
                          IF cmd[p] = "apply" THEN {} ELSE conflicts)]
           ELSE stage' = [stage EXCEPT ![p] = "idle"] /\ UNCHANGED authorized
        /\ seen' = [seen EXCEPT ![p] = <<>>]
        /\ UNCHANGED <<disk, receipt, cmd, manifest, known, target, userVars, plans, userEdits>>

-------------------------------------------------------------------------------
(* applyInstallationPlan *)

WritesReceipt(pl) == pl.madeFrom # pl.leaves

\* assertExpected: every file of the plan, the receipt if it is one, is as it was.
StillAsPlanned(pl) ==
    /\ \A c \in DOMAIN pl.before : disk[c] = pl.before[c]
    /\ WritesReceipt(pl) => receipt = pl.madeFrom

\* What the user agreed to lose of a modified unit: what it holds now.
Consents(pl, u) ==
    /\ u \in pl.approved /\ u \in DOMAIN ReceiptEntries(pl.madeFrom)
    /\ Held(disk, u) = user[u]

\* The receipt, or a unit that already was as intended, changed unnoticed.
Unguarded(pl) ==
    \/ receipt # pl.madeFrom
    \/ \E u \in DOMAIN pl.intends : u[1] \notin DOMAIN pl.before /\ Held(disk, u) # pl.intends[u]

Apply(p) ==
    LET pl == authorized[p]
    IN  /\ stage[p] = "saved" /\ StillAsPlanned(pl)
        /\ disk' = [c \in Containers |-> IF c \in DOMAIN pl.after THEN pl.after[c] ELSE disk[c]]
        /\ receipt' = IF WritesReceipt(pl) THEN pl.leaves ELSE receipt
        /\ stage' = [stage EXCEPT ![p] = IF cmd[p] = "apply" THEN "idle" ELSE "saved"]
        /\ user' = [u \in Units |->
             IF Consents(pl, u) THEN ReceiptEntries(pl.madeFrom)[u].previous ELSE user[u]]
        /\ dirty' = {u \in dirty : u[1] \notin DOMAIN pl.after}
        /\ skipped' = skipped \cup pl.dropped
        /\ unguarded' = (unguarded \/ Unguarded(pl))
        /\ UNCHANGED <<cmd, manifest, known, target, seen, authorized, plans, userEdits>>

\* A plan whose files changed is refused; apply then ends, a saved plan stays.
Refuse(p) ==
    /\ stage[p] = "saved" /\ cmd[p] = "apply" /\ ~StillAsPlanned(authorized[p])
    /\ stage' = [stage EXCEPT ![p] = "idle"]
    /\ UNCHANGED <<disk, receipt, cmd, manifest, known, target, seen, authorized, userVars, plans, userEdits>>

PlannerStep(p) ==
    \/ StartInspection(p, "uninstall", NoManifest)
    \/ SelectHost(p) \/ \E c \in Containers : ReadContainer(p, c)
    \/ \E approves \in BOOLEAN : MakePlan(p, approves)
    \/ Apply(p) \/ Refuse(p)

-------------------------------------------------------------------------------
(* The user. *)

\* A unit the user writes is theirs, unless they put back what Neottia wrote.
\* An edit before the first plan is another initial state.
Edited(new) ==
    /\ plans > 0 /\ userEdits < MaxEdits /\ userEdits' = userEdits + 1
    /\ disk' = new /\ new # disk
    /\ LET changed == {u \in Units : Held(new, u) # Held(disk, u)}
       IN  /\ dirty' = dirty \cup changed
           /\ user' = [u \in Units |->
                IF u \notin changed \/ (u \in Owned /\ Held(disk, u) # user[u]) THEN user[u]
                ELSE IF u \in Owned /\ Held(new, u) = ReceiptEntries(receipt)[u].sum
                THEN ReceiptEntries(receipt)[u].previous
                ELSE Held(new, u)]
    /\ UNCHANGED <<receipt, planVars, skipped, unguarded, plans>>

WriteUnit(u, v) ==
    Edited([disk EXCEPT ![u[1]] =
        IF u[1] \in WholeFiles THEN IF v = NoUnit THEN Absent ELSE [s \in {u[1]} |-> v]
        ELSE [s \in Keys |-> IF s = u[2] THEN v ELSE Held(disk, <<u[1], s>>)]])

MoveHost(from, to) ==
    disk[from] # Absent /\ disk[to] = Absent /\ Edited([disk EXCEPT ![from] = Absent, ![to] = disk[from]])

UserEdits ==
    \/ \E u \in Units, v \in UserValues \cup {NoUnit} : WriteUnit(u, v)
    \/ \E from, to \in Hosts : MoveHost(from, to)

-------------------------------------------------------------------------------
(* Properties. *)

IsReceipt(r) == r \in Receipts \cup {NoReceipt}

PlannerTypeOK ==
    /\ IsDisk(disk)
    /\ IsReceipt(receipt)
    /\ stage \in [Sessions -> {"idle", "select", "read", "saved"}]
    /\ cmd \in [Sessions -> {"plan", "apply", "uninstall"}]
    /\ manifest \in [Sessions -> Manifests \cup {NoManifest}]
    /\ target \in [Sessions -> Hosts]
    /\ \A p \in Sessions :
        /\ IsReceipt(known[p]) /\ IsReceipt(authorized[p].madeFrom) /\ IsReceipt(authorized[p].leaves)
        /\ DOMAIN seen[p] \subseteq Containers
        /\ \A c \in DOMAIN seen[p] : IsContent(c, seen[p][c])
        /\ \A c \in DOMAIN authorized[p].after : IsContent(c, authorized[p].after[c])
    /\ user \in [Units -> States] /\ dirty \subseteq Units /\ skipped \subseteq Units

\* What the user had where Neottia writes is still there, or the receipt holds
\* it for the uninstall; so is all of it once nothing is owned.  Left out are
\* the units an apply skipped (see DisplacedIsRetained) and histories where
\* something changed that an applied plan was made from and does not write:
\* applyInstallationPlan compares the files of its mutations only.
InPlaceOrInReceipt(u) ==
    \/ Held(disk, u) = user[u]
    \/ u \in Owned /\ ReceiptEntries(receipt)[u].previous = user[u]
UsersContentIsKept == ~unguarded => \A u \in Units \ skipped : InPlaceOrInReceipt(u)

\* nextReceiptEntry: "retaining the original displaced state".  The plan that
\* apply makes without its conflicted units drops their entries instead.
DisplacedIsRetained == ~unguarded => \A u \in Units : InPlaceOrInReceipt(u)

\* An owned unit holds what the receipt says unless the user changed it.
ReceiptIsTrue ==
    ~unguarded => \A u \in Owned \ dirty : Held(disk, u) = ReceiptEntries(receipt)[u].sum

\* The planner settles: planning the installed manifest again finds no conflict
\* and nothing to change, unless the user did something or a unit was skipped.
Settled ==
    LET m == receipt.manifest
        host == IF Present = {} THEN CreateAt ELSE CHOOSE h \in Present : TRUE
        units == Inspected(m, host, receipt)
        again == PlanFor("plan", m, host, receipt, disk, units, {})
    IN  Conflicts(units, ReceiptEntries(receipt), disk) = {} /\ again.after = <<>> /\ ~WritesReceipt(again)
InstallingAgainIsEmpty ==
    receipt # NoReceipt /\ dirty = {} /\ skipped = {} /\ ~unguarded /\ Cardinality(Present) <= 1 => Settled

\* What the receipt and the user's content say of each other, as one invariant.
InstallationInv == PlannerTypeOK /\ UsersContentIsKept /\ ReceiptIsTrue /\ InstallingAgainIsEmpty

\* Applying a plan, however late, changes only units that it names (the user's
\* other entries in a shared configuration file are as they were), and of those
\* nothing but what the receipt vouches for without an approval.
OverwriteNeedsApproval ==
    [][\A p \in Sessions, u \in Units : Apply(p) /\ Held(disk', u) # Held(disk, u) =>
        /\ u \in DOMAIN authorized[p].intends
        /\ \/ Held(disk, u) = NoUnit
           \/ u \in authorized[p].approved
           \/ u \in Owned /\ Held(disk, u) = ReceiptEntries(receipt)[u].sum]_plannerVars
===============================================================================
