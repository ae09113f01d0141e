------------------------- MODULE RepositoryTransaction -------------------------
(***************************************************************************)
(* applyCanonicalBatch, recoverCanonicalTransactions and                   *)
(* publishExactRegularFile of @neottia/repository-store, one step per      *)
(* file-system call that changes something, run by the holder of the       *)
(* authority lease.  The holder may be killed and the power may fail       *)
(* between any two steps, any call may fail, and an operator may edit the  *)
(* canonical files at any time.                                            *)
(***************************************************************************)
EXTENDS DurableFiles

CONSTANTS
    Initials,       \* canonical states a repository may start from
    Requests,       \* batches callers ask for: partial functions from Paths
    AtomicMove,     \* native rename-noreplace is one step (not FreeBSD)
    MaxBatches, MaxKills, MaxLosses, MaxEdits, MaxFaults   \* model bounds

ASSUME InitialsAssumption == Initials \subseteq [Paths -> Revs \cup {Nil}]
ASSUME RequestsAssumption ==
    \A b \in Requests : /\ DOMAIN b \subseteq Paths
                        /\ \A p \in DOMAIN b : b[p] \in Revs \cup {Nil}
ASSUME MoveAssumption == AtomicMove \in BOOLEAN
ASSUME BoundsAssumption ==
    /\ MaxBatches \in Nat /\ MaxKills \in Nat /\ MaxLosses \in Nat
    /\ MaxEdits \in Nat /\ MaxFaults \in Nat

VARIABLES
    (* the journal directory of the batch, under transactions/<root id> *)
    phase, durPhase,    \* its suffix, and the suffixes it may have durably
    full, durFull,      \* does it hold every artifact and the manifest?
    residue,            \* an earlier, committed batch left its journal behind
    (* the manifest's entries: written once, in the journal *)
    batch,              \* the paths of the batch
    old, new,           \* original and intended revision of every path
    (* the lease holder *)
    pc, mode, k, src, exp,
    (* what the caller of the store is told *)
    verdict,            \* why the last recovery or rollback gave up
    acked,              \* applyCanonicalBatch returned for this batch
    (* history, for the properties *)
    committed,          \* the journal of the batch was renamed to .committed
    touched,            \* paths an operator edited since the batch began
    foreign,            \* foreign[p]: revision an operator last put at p
    (* model bounds *)
    batches, kills, losses, edits, faults

journalVars == <<phase, durPhase, full, durFull, residue>>
manifestVars == <<batch, old, new>>
holderVars == <<pc, mode, k, src, exp>>
callerVars == <<verdict, acked>>
historyVars == <<committed, touched, foreign>>
boundVars == <<batches, kills, losses, edits, faults>>
vars == <<dirVars, journalVars, manifestVars, holderVars, callerVars,
          historyVars, boundVars>>

Phases == {"none", "prepare", "active", "committed", "cleanup"}

\* Publication steps: inside publishExactRegularFile or recoverExactPublication.
PublishPCs == {"publish", "open", "write", "evacuate", "evacuateUnlink", "check",
               "checkSync", "link", "unlinkTmp", "pubSync", "unlinkEvac",
               "evacSync", "restore", "restoreUnlink", "restoreSync", "raise"}
RollbackPCs == {"rbStart", "rbTmp", "rbTmpSync", "rbEvac", "rbEvacSync", "rbRead", "rbVerify"}
CleanupPCs == {"toCleanup", "toCleanupSync", "rmArtifacts", "rmdir", "rmdirSync"}
ApplyPCs == {"mkdirSync", "artifacts", "prepSync", "activate", "activateSync",
             "verify", "confirm", "commit", "commitSync", "abandon"}
PCs == {"idle", "scan", "callback"} \cup ApplyPCs \cup PublishPCs
          \cup RollbackPCs \cup CleanupPCs

TypeOK ==
    /\ DirTypeOK
    /\ phase \in Phases /\ durPhase \subseteq Phases
    /\ full \in BOOLEAN /\ durFull \subseteq BOOLEAN /\ residue \in BOOLEAN
    /\ batch \subseteq Paths
    /\ old \in [Paths -> Content] /\ new \in [Paths -> Content]
    /\ pc \in PCs
    /\ mode \in {"none", "apply", "inline", "recover"}
    /\ k \in 0 .. NumPaths + 1
    /\ src \in {"none", "dest", "tmp", "evac"}
    /\ exp \in File
    /\ verdict \in {"none", "ambiguous", "malformed", "error"}
    /\ acked \in BOOLEAN
    /\ committed \in BOOLEAN
    /\ touched \subseteq Paths
    /\ foreign \in [Paths -> Content]
    /\ batches \in Nat /\ kills \in Nat /\ losses \in Nat
    /\ edits \in Nat /\ faults \in Nat

Visible(p) == cur[p]["dest"].rev

Init ==
    /\ \E canonical \in Initials :
          /\ DirInit(canonical)
          /\ old = canonical /\ new = canonical
    /\ phase = "none" /\ durPhase = {"none"}
    /\ full = FALSE /\ durFull = {FALSE} /\ residue = FALSE
    /\ batch = {}
    /\ pc = "idle" /\ mode = "none" /\ k = 0 /\ src = "none" /\ exp = NoFile
    /\ verdict = "none" /\ acked = FALSE
    /\ committed = FALSE /\ touched = {} /\ foreign = [p \in Paths |-> Nil]
    /\ batches = 0 /\ kills = 0 /\ losses = 0 /\ edits = 0 /\ faults = 0

-------------------------------------------------------------------------------
(* Control of the lease holder. *)

At(l) == pc = l
Goto(l) == pc' = l /\ UNCHANGED <<mode, k, src, exp>>
GotoPath(l, j) == pc' = l /\ k' = j /\ UNCHANGED <<mode, src, exp>>

Quiet == UNCHANGED callerVars

\* The lease callback, or the recovery in front of it, ends: the lease is
\* released and the process is out.
Leave(v) ==
    /\ pc' = "idle" /\ mode' = "none" /\ k' = 0 /\ src' = "none" /\ exp' = NoFile
    /\ verdict' = v
    /\ UNCHANGED acked

\* The catch block of applyCanonicalBatch, by the state of the journal; a
\* rollback that fails has no further handler.
Throw(v) ==
    \/ /\ mode = "apply" /\ phase = "active"
       /\ pc' = "rbStart" /\ mode' = "inline" /\ src' = "none" /\ exp' = NoFile
       /\ UNCHANGED k /\ Quiet
    \/ /\ mode = "apply" /\ phase = "prepare"
       /\ Goto("abandon") /\ Quiet
    \/ /\ mode = "apply" /\ phase \notin {"prepare", "active"}
       /\ Leave("error")
    \/ mode # "apply" /\ Leave(v)

\* The finally block of publishExactRegularFile: a complete temporary goes.
DropTemporary(p) ==
    IF src = "dest" /\ Exists(cur[p]["tmp"]) /\ cur[p]["tmp"].rev # Torn
    THEN Unlink(p, "tmp") ELSE UNCHANGED dirVars

ThrowFromPublish(v) == DropTemporary(k) /\ Throw(v)

SetPhase(x) == phase' = x /\ durPhase' = durPhase \cup {x}
SetFull(b) == full' = b /\ durFull' = durFull \cup {b}
SyncTransactions == durPhase' = {phase} /\ UNCHANGED <<phase, full, durFull, residue>>

StepFrame == UNCHANGED <<manifestVars, historyVars, boundVars>>

-------------------------------------------------------------------------------
(* The lease callback and the journal before publication: applyCanonicalBatch *)
(* up to the durable .active state.                                           *)

\* withRepositoryLease: the lease is granted and recovery runs before anything.
Acquire ==
    /\ At("idle")
    /\ pc' = "scan" /\ mode' = "recover" /\ verdict' = "none"
    /\ UNCHANGED <<dirVars, journalVars, k, src, exp, acked>>
    /\ StepFrame

Release ==
    /\ At("callback")
    /\ Leave("none")
    /\ UNCHANGED <<dirVars, journalVars>> /\ StepFrame

\* normalizeOperations reads every path of the batch, which must have one name;
\* a batch with another expected revision is refused before anything changes.
Acceptable(b) == \A p \in DOMAIN b : SinglyLinked(cur[p], "dest")

\* An accepted batch is given a new token, so none of its private names exists,
\* and its .prepare directory.
Begin(b) ==
    LET own(d) == [s \in Slots |-> IF s = "dest" THEN d[s] ELSE NoFile]
    IN  /\ At("callback") /\ batches < MaxBatches
        /\ Acceptable(b)
        /\ cur' = [p \in Paths |-> own(cur[p])]
        /\ dur' = [p \in Paths |-> {own(d) : d \in dur[p]}]
        /\ batch' = DOMAIN b
        /\ old' = [p \in Paths |-> Visible(p)]
        /\ new' = [p \in Paths |-> IF p \in DOMAIN b THEN b[p] ELSE Visible(p)]
        /\ residue' = (residue \/ phase # "none")
        /\ phase' = "prepare" /\ durPhase' = {"none", "prepare"}
        /\ full' = FALSE /\ durFull' = {FALSE}
        /\ pc' = "mkdirSync" /\ mode' = "apply" /\ UNCHANGED <<k, src, exp>>
        /\ acked' = FALSE /\ verdict' = "none" /\ committed' = FALSE
        /\ touched' = {p \in Paths : dur[p] # {cur[p]}}
        /\ foreign' = [p \in Paths |-> Nil]
        /\ batches' = batches + 1
        /\ UNCHANGED <<kills, losses, edits, faults>>

MkdirSync ==
    /\ At("mkdirSync") /\ SyncTransactions /\ Goto("artifacts")
    /\ UNCHANGED dirVars /\ Quiet /\ StepFrame

\* Before-images, staged bytes and the manifest, each synchronized.
WriteArtifacts ==
    /\ At("artifacts") /\ SetFull(TRUE) /\ Goto("prepSync")
    /\ UNCHANGED <<dirVars, phase, durPhase, residue>> /\ Quiet /\ StepFrame

PrepareSync ==
    /\ At("prepSync") /\ durFull' = {full} /\ Goto("activate")
    /\ UNCHANGED <<dirVars, phase, durPhase, full, residue>> /\ Quiet /\ StepFrame

Activate ==
    /\ At("activate") /\ SetPhase("active") /\ Goto("activateSync")
    /\ UNCHANGED <<dirVars, full, durFull, residue>> /\ Quiet /\ StepFrame

ActivateSync ==
    /\ At("activateSync") /\ SyncTransactions /\ GotoPath("verify", 1)
    /\ UNCHANGED dirVars /\ Quiet /\ StepFrame

\* removePreparationArtifacts, then the error reaches the caller.
Abandon ==
    /\ At("abandon")
    /\ SetPhase("none") /\ SetFull(FALSE)
    /\ pc' = "idle" /\ mode' = "none" /\ k' = 0 /\ src' = "none" /\ exp' = NoFile
    /\ verdict' = "error"
    /\ UNCHANGED <<dirVars, residue, acked>> /\ StepFrame
-------------------------------------------------------------------------------
(* publishExactRegularFile: the name "src" of path k, expected to be the file *)
(* "exp", is removed or replaced by Bytes.                                    *)

Bytes == IF src # "dest" THEN Nil ELSE IF mode = "apply" THEN new[k] ELSE old[k]
Source == IF src = "none" THEN "dest" ELSE src
Evacuated == EvacuatedName(Source)

PublishFrame == UNCHANGED journalVars /\ StepFrame

CallPublish(s) ==
    /\ pc' = "publish" /\ src' = s /\ exp' = cur[k][s]
    /\ UNCHANGED <<mode, k>>

\* Return from the publication to the loop that called it.
PublishReturns ==
    /\ src' = "none" /\ exp' = NoFile /\ UNCHANGED mode
    /\ \/ src = "tmp" /\ pc' = "rbEvac" /\ UNCHANGED k
       \/ src = "evac" /\ pc' = "rbRead" /\ UNCHANGED k
       \/ src = "dest" /\ mode = "apply" /\ pc' = "verify" /\ k' = k + 1
       \/ src = "dest" /\ mode # "apply" /\ pc' = "rbTmp" /\ k' = k - 1

\* verifyCurrent of a path the batch is about to change or has changed.
IsCurrent(p, r) == Visible(p) = r /\ SinglyLinked(cur[p], "dest")

\* The next transition of the batch: verifyCurrent, then publishTransition.
VerifyCurrent ==
    /\ At("verify")
    /\ \/ k > NumPaths /\ Goto("confirm") /\ Quiet
       \/ k \in Paths \ batch /\ GotoPath("verify", k + 1) /\ Quiet
       \/ k \in batch /\ IsCurrent(k, old[k]) /\ CallPublish("dest") /\ Quiet
       \/ k \in batch /\ ~IsCurrent(k, old[k]) /\ Throw("error")
    /\ UNCHANGED dirVars /\ PublishFrame

\* The evacuation name must be free; then the temporary is opened exclusively.
PublishStart ==
    /\ At("publish")
    /\ IF Exists(cur[k][Evacuated])
       THEN Throw("ambiguous") /\ UNCHANGED dirVars
       ELSE Goto("open") /\ UNCHANGED dirVars /\ Quiet
    /\ PublishFrame

OpenTemporary ==
    /\ At("open")
    /\ \/ /\ Bytes # Nil /\ ~Exists(cur[k]["tmp"])
          /\ \E i \in Inodes :
                /\ IsFreshInode(k, i)
                /\ SetEntry(k, "tmp", [rev |-> Torn, ino |-> i])
          /\ Goto("write")
       \/ /\ Bytes = Nil /\ Exists(exp)
          /\ Goto("evacuate") /\ UNCHANGED dirVars
       \/ /\ Bytes = Nil /\ ~Exists(exp)
          /\ PublishReturns /\ UNCHANGED dirVars
    /\ Quiet /\ PublishFrame

WriteTemporary ==
    /\ At("write")
    /\ WriteAndSyncFile(k, "tmp", Bytes)
    /\ Goto(IF Exists(exp) THEN "evacuate" ELSE "link")
    /\ Quiet /\ PublishFrame

\* moveNoReplace(path, evacuated); on FreeBSD a link and then an unlink.
Evacuate ==
    /\ At("evacuate")
    /\ \/ ~Exists(cur[k][Source]) /\ ThrowFromPublish("error")
       \/ /\ Exists(cur[k][Source]) /\ AtomicMove
          /\ Rename(k, Source, Evacuated) /\ Goto("check") /\ Quiet
       \/ /\ Exists(cur[k][Source]) /\ ~AtomicMove
          /\ Link(k, Source, Evacuated) /\ Goto("evacuateUnlink") /\ Quiet
    /\ PublishFrame

EvacuateUnlink ==
    /\ At("evacuateUnlink")
    /\ Unlink(k, Source) /\ Goto("check") /\ Quiet /\ PublishFrame

\* Mutant: whatever was evacuated is taken for the expected file.
EvacuatedIsTrusted ==
    /\ At("check") /\ Goto("checkSync")
    /\ UNCHANGED dirVars /\ Quiet /\ PublishFrame

\* The evacuated file must be the one the caller expects, or it goes back.
CheckEvacuated ==
    /\ At("check")
    /\ Goto(IF /\ SameIdentity(exp, cur[k][Evacuated])
               /\ cur[k][Evacuated].rev = exp.rev
            THEN "checkSync" ELSE "restore")
    /\ UNCHANGED dirVars /\ Quiet /\ PublishFrame

CheckSync ==
    /\ At("checkSync")
    /\ SyncDirectory(k) /\ Goto(IF Bytes # Nil THEN "link" ELSE "unlinkEvac")
    /\ Quiet /\ PublishFrame

\* linkSync fails with EEXIST when the name appeared meanwhile.
LinkTemporary ==
    /\ At("link")
    /\ \/ ~Exists(cur[k]["dest"]) /\ Link(k, "tmp", "dest") /\ Goto("unlinkTmp") /\ Quiet
       \/ /\ Exists(cur[k]["dest"]) /\ Exists(exp)
          /\ Goto("restore") /\ UNCHANGED dirVars /\ Quiet
       \/ Exists(cur[k]["dest"]) /\ ~Exists(exp) /\ ThrowFromPublish("error")
    /\ PublishFrame

UnlinkTemporary ==
    /\ At("unlinkTmp")
    /\ IF SameIdentity(cur[k]["tmp"], cur[k]["dest"])
       THEN Unlink(k, "tmp") /\ Goto("pubSync") /\ Quiet
       ELSE ThrowFromPublish("error")
    /\ PublishFrame

\* Mutant: the directory is not synchronized after the new name is in place.
PublishWithoutSync ==
    /\ At("pubSync")
    /\ IF Exists(exp) THEN Goto("unlinkEvac") ELSE PublishReturns
    /\ UNCHANGED dirVars /\ Quiet /\ PublishFrame

PublishSync ==
    /\ At("pubSync")
    /\ SyncDirectory(k)
    /\ IF Exists(exp) THEN Goto("unlinkEvac") ELSE PublishReturns
    /\ Quiet /\ PublishFrame

UnlinkEvacuated ==
    /\ At("unlinkEvac")
    /\ Unlink(k, Evacuated) /\ Goto("evacSync") /\ Quiet /\ PublishFrame

EvacuatedSync ==
    /\ At("evacSync")
    /\ SyncDirectory(k) /\ PublishReturns /\ Quiet /\ PublishFrame

\* restoreEvacuated: never over a file that appeared meanwhile.
Restore ==
    /\ At("restore")
    /\ \/ Exists(cur[k][Source]) /\ ThrowFromPublish("ambiguous")
       \/ /\ ~Exists(cur[k][Source]) /\ AtomicMove
          /\ Rename(k, Evacuated, Source) /\ Goto("restoreSync") /\ Quiet
       \/ /\ ~Exists(cur[k][Source]) /\ ~AtomicMove
          /\ Link(k, Evacuated, Source) /\ Goto("restoreUnlink") /\ Quiet
    /\ PublishFrame

RestoreUnlink ==
    /\ At("restoreUnlink")
    /\ Unlink(k, Evacuated) /\ Goto("restoreSync") /\ Quiet /\ PublishFrame

RestoreSync ==
    /\ At("restoreSync")
    /\ SyncDirectory(k) /\ Goto(IF src = "none" THEN "rbRead" ELSE "raise")
    /\ Quiet /\ PublishFrame

\* IDENTITY_CHANGED, after the destination was restored.
Raise ==
    /\ At("raise")
    /\ ThrowFromPublish("error") /\ PublishFrame

Publication ==
    \/ PublishStart \/ OpenTemporary \/ WriteTemporary \/ Evacuate \/ EvacuateUnlink
    \/ CheckEvacuated \/ CheckSync
    \/ LinkTemporary \/ UnlinkTemporary
    \/ PublishSync \/ UnlinkEvacuated \/ EvacuatedSync
    \/ Restore \/ RestoreUnlink \/ RestoreSync \/ Raise
-------------------------------------------------------------------------------
(* The commit point, and the removal of the journal.                          *)

ConfirmPublished ==
    /\ At("confirm")
    /\ IF \A p \in batch : IsCurrent(p, new[p])
       THEN Goto("commit") /\ Quiet ELSE Throw("ambiguous")
    /\ UNCHANGED dirVars /\ PublishFrame

Commit ==
    /\ At("commit") /\ SetPhase("committed") /\ Goto("commitSync")
    /\ committed' = TRUE
    /\ UNCHANGED <<dirVars, full, durFull, residue, manifestVars, touched,
                   foreign, boundVars>> /\ Quiet

\* Mutant: the artifacts of a committed journal go before it is renamed.
CommitSkipsCleanupRename ==
    /\ At("commitSync") /\ SyncTransactions /\ Goto("rmArtifacts")
    /\ UNCHANGED dirVars /\ Quiet /\ StepFrame

CommitSync ==
    /\ At("commitSync") /\ SyncTransactions /\ Goto("toCleanup")
    /\ UNCHANGED dirVars /\ Quiet /\ StepFrame

ToCleanup ==
    /\ At("toCleanup") /\ SetPhase("cleanup") /\ Goto("toCleanupSync")
    /\ UNCHANGED <<dirVars, full, durFull, residue>> /\ Quiet /\ StepFrame

ToCleanupSync ==
    /\ At("toCleanupSync") /\ SyncTransactions /\ Goto("rmArtifacts")
    /\ UNCHANGED dirVars /\ Quiet /\ StepFrame

RemoveArtifacts ==
    /\ At("rmArtifacts") /\ SetFull(FALSE) /\ Goto("rmdir")
    /\ UNCHANGED <<dirVars, phase, durPhase, residue>> /\ Quiet /\ StepFrame

RemoveDirectory ==
    /\ At("rmdir") /\ SetPhase("none") /\ Goto("rmdirSync")
    /\ UNCHANGED <<dirVars, full, durFull, residue>> /\ Quiet /\ StepFrame

\* applyCanonicalBatch returns to its caller.
Acknowledge ==
    /\ pc' = "callback" /\ acked' = TRUE /\ k' = 0
    /\ UNCHANGED <<mode, src, exp, verdict>>

\* Mutant: a batch that was rolled back is reported as applied.
RollbackIsAcknowledged ==
    /\ At("rmdirSync") /\ SyncTransactions
    /\ \/ mode \in {"apply", "inline"} /\ Acknowledge
       \/ mode = "recover" /\ GotoPath("callback", 0) /\ Quiet
    /\ UNCHANGED dirVars /\ StepFrame

RemoveDirectorySync ==
    /\ At("rmdirSync") /\ SyncTransactions
    /\ \/ mode = "apply" /\ Acknowledge
       \/ mode = "inline" /\ Leave("none")
       \/ mode = "recover" /\ GotoPath("callback", 0) /\ Quiet
    /\ UNCHANGED dirVars /\ StepFrame

-------------------------------------------------------------------------------
(* recoverCanonicalTransactions and recoverActiveDirectory.                   *)

\* Mutant: an active journal is discarded like a preparation.
ScanDiscardsActive ==
    /\ At("scan")
    /\ residue' = FALSE
    /\ \/ phase = "none" /\ Goto("callback") /\ Quiet
       \/ phase \in {"prepare", "active", "cleanup"} /\ Goto("rmArtifacts") /\ Quiet
       \/ phase = "committed" /\ full /\ Goto("toCleanup") /\ Quiet
       \/ phase = "committed" /\ ~full /\ Leave("malformed")
    /\ UNCHANGED <<dirVars, phase, durPhase, full, durFull>> /\ StepFrame

\* Mutant: recovery does not look for directories under cleanup.
ScanSkipsCleanup ==
    /\ At("scan")
    /\ residue' = FALSE
    /\ \/ phase \in {"none", "cleanup"} /\ Goto("callback") /\ Quiet
       \/ phase = "prepare" /\ Goto("rmArtifacts") /\ Quiet
       \/ phase = "active" /\ Goto("rbStart") /\ Quiet
       \/ phase = "committed" /\ full /\ Goto("toCleanup") /\ Quiet
       \/ phase = "committed" /\ ~full /\ Leave("malformed")
    /\ UNCHANGED <<dirVars, phase, durPhase, full, durFull>> /\ StepFrame

Scan ==
    /\ At("scan")
    /\ residue' = FALSE
    /\ \/ phase = "none" /\ Goto("callback") /\ Quiet
       \/ phase \in {"prepare", "cleanup"} /\ Goto("rmArtifacts") /\ Quiet
       \/ phase = "active" /\ Goto("rbStart") /\ Quiet
       \/ phase = "committed" /\ full /\ Goto("toCleanup") /\ Quiet
       \/ phase = "committed" /\ ~full /\ Leave("malformed")
    /\ UNCHANGED <<dirVars, phase, durPhase, full, durFull>> /\ StepFrame

\* readAndValidateManifest needs the manifest and every artifact.
RollbackStart ==
    /\ At("rbStart")
    /\ IF full THEN GotoPath("rbTmp", NumPaths) /\ Quiet ELSE Leave("malformed")
    /\ UNCHANGED dirVars /\ PublishFrame

Allowed(p, f) == f.rev \in {old[p], new[p]}

NextRollback ==
    /\ At("rbTmp")
    /\ \/ k = 0 /\ Goto("rbVerify")
       \/ k \in Paths \ batch /\ GotoPath("rbTmp", k - 1)
    /\ UNCHANGED dirVars /\ Quiet /\ PublishFrame

\* recoverTemporaryPublication
RecoverTemporary ==
    LET tmp == cur[k]["tmp"]
        linked == SameIdentity(tmp, cur[k]["dest"])
        single == SinglyLinked(cur[k], "tmp")
    IN  /\ At("rbTmp") /\ k \in batch
        /\ \/ ~Exists(tmp) /\ Goto("rbEvac") /\ UNCHANGED dirVars /\ Quiet
           \/ linked /\ Unlink(k, "tmp") /\ Goto("rbTmpSync") /\ Quiet
           \/ /\ Exists(tmp) /\ ~linked /\ UNCHANGED dirVars
              /\ \/ ~single /\ Leave("error")
                 \/ single /\ ~Allowed(k, tmp) /\ Leave("ambiguous")
                 \/ single /\ Allowed(k, tmp) /\ CallPublish("tmp") /\ Quiet
        /\ PublishFrame

RecoverTemporarySync ==
    /\ At("rbTmpSync") /\ SyncDirectory(k) /\ Goto("rbEvac")
    /\ Quiet /\ PublishFrame

\* recoverExactPublication, once the temporary is settled
RecoverEvacuated ==
    LET evac == cur[k]["evac"]
        dest == cur[k]["dest"]
        linked == SameIdentity(evac, dest)
        single == SinglyLinked(cur[k], "evac") /\ SinglyLinked(cur[k], "dest")
        allowed == Allowed(k, evac) /\ Allowed(k, dest)
    IN  /\ At("rbEvac")
        /\ \/ ~Exists(evac) /\ Goto("rbRead") /\ UNCHANGED dirVars /\ Quiet
           \/ /\ Exists(evac) /\ ~Exists(dest)
              /\ Goto("restore") /\ UNCHANGED dirVars /\ Quiet
           \/ linked /\ Unlink(k, "evac") /\ Goto("rbEvacSync") /\ Quiet
           \/ /\ Exists(evac) /\ Exists(dest) /\ ~linked /\ UNCHANGED dirVars
              /\ \/ ~single /\ Leave("error")
                 \/ single /\ ~allowed /\ Leave("ambiguous")
                 \/ single /\ allowed /\ CallPublish("evac") /\ Quiet
        /\ PublishFrame

RecoverEvacuatedSync ==
    /\ At("rbEvacSync") /\ SyncDirectory(k) /\ Goto("rbRead")
    /\ Quiet /\ PublishFrame

\* The path is settled: keep the original, put it back over the intended
\* revision, and touch nothing else.
RollbackPath ==
    /\ At("rbRead")
    /\ \/ ~SinglyLinked(cur[k], "dest") /\ Leave("error")
       \/ IsCurrent(k, old[k]) /\ GotoPath("rbTmp", k - 1) /\ Quiet
       \/ /\ IsCurrent(k, new[k]) /\ new[k] # old[k]
          /\ CallPublish("dest") /\ Quiet
       \/ /\ SinglyLinked(cur[k], "dest") /\ ~Allowed(k, cur[k]["dest"])
          /\ Leave("ambiguous")
    /\ UNCHANGED dirVars /\ PublishFrame

RollbackVerify ==
    /\ At("rbVerify")
    /\ IF \A p \in batch : IsCurrent(p, old[p])
       THEN Goto("toCleanup") /\ Quiet
       ELSE Leave("ambiguous")
    /\ UNCHANGED dirVars /\ PublishFrame

Recovery ==
    \/ Scan \/ RollbackStart \/ NextRollback
    \/ RecoverTemporary \/ RecoverTemporarySync
    \/ RecoverEvacuated \/ RecoverEvacuatedSync \/ RollbackPath \/ RollbackVerify

Apply ==
    \/ \E b \in Requests : Begin(b)
    \/ MkdirSync \/ WriteArtifacts \/ PrepareSync \/ Activate \/ ActivateSync
    \/ VerifyCurrent \/ ConfirmPublished \/ Commit \/ CommitSync \/ Abandon

Cleanup ==
    ToCleanup \/ ToCleanupSync \/ RemoveArtifacts \/ RemoveDirectory
       \/ RemoveDirectorySync

Step == Acquire \/ Release \/ Apply \/ Publication \/ Cleanup \/ Recovery

-------------------------------------------------------------------------------
(* What the environment does. *)

\* A file-system call fails, or checkControl sees an abort or a deadline.  The
\* first barrier is outside the try block; the cleanup of a committed batch
\* swallows the error; a failed write may leave any prefix of its bytes.
CallFails ==
    /\ faults < MaxFaults /\ faults' = faults + 1
    /\ \/ /\ pc \in {"mkdirSync", "abandon"}
          /\ Leave("error") /\ UNCHANGED dirVars
       \/ /\ pc \in CleanupPCs /\ mode = "apply"
          /\ Acknowledge /\ UNCHANGED dirVars
       \/ /\ pc = "write" /\ Throw("error")
          /\ UNCHANGED dirVars \/ WriteAndSyncFile(k, "tmp", Bytes)
       \/ /\ pc \in PublishPCs \ {"write"} /\ Throw("error")
          /\ UNCHANGED dirVars \/ DropTemporary(k)
       \/ /\ pc \in PCs \ (PublishPCs \cup {"idle", "callback", "mkdirSync", "abandon"})
          /\ ~(pc \in CleanupPCs /\ mode = "apply")
          /\ Throw("error") /\ UNCHANGED dirVars
    /\ UNCHANGED <<journalVars, manifestVars, historyVars,
                   batches, kills, losses, edits>>

\* The holder is killed; a later holder reclaims its lease.
Kill ==
    /\ pc # "idle" /\ kills < MaxKills /\ kills' = kills + 1
    /\ Leave("none")
    /\ UNCHANGED <<dirVars, journalVars, manifestVars, historyVars,
                   batches, losses, edits, faults>>

PowerLoss ==
    /\ losses < MaxLosses /\ losses' = losses + 1
    /\ LoseUnsynced
    /\ phase' \in durPhase /\ durPhase' = {phase'}
    /\ full' \in (IF phase' = "none" THEN {FALSE} ELSE durFull) /\ durFull' = {full'}
    /\ Leave("none")
    /\ committed' = (committed /\ phase' # "active")
    /\ foreign' = [p \in Paths |-> Nil]
    /\ UNCHANGED <<residue, manifestVars, touched, batches, kills, edits, faults>>

\* An operator, an editor or git replaces or removes a canonical file.
OperatorEdit(p, r) ==
    /\ edits < MaxEdits /\ edits' = edits + 1
    /\ r # Visible(p)
    /\ IF r = Nil THEN Unlink(p, "dest")
       ELSE \E i \in Inodes : /\ IsFreshInode(p, i)
                              /\ SetEntry(p, "dest", [rev |-> r, ino |-> i])
    /\ touched' = touched \cup {p}
    /\ foreign' = [foreign EXCEPT ![p] =
                     IF r \in {old[p], new[p]} THEN Nil ELSE r]
    /\ UNCHANGED <<journalVars, manifestVars, holderVars, callerVars, committed,
                   batches, kills, losses, faults>>

Environment ==
    \/ CallFails \/ Kill \/ PowerLoss
    \/ \E p \in Paths, r \in Revs \cup {Nil} : OperatorEdit(p, r)

Next == Step \/ Environment

Spec == Init /\ [][Next]_vars
-------------------------------------------------------------------------------
(* Properties. *)

\* Whenever a lease callback runs, each path no operator edited holds the
\* revision the last batch decided for it: the intended one everywhere when the
\* batch is committed, the original one everywhere when it is not.
Decided(p) == IF committed THEN new[p] ELSE old[p]
BatchIsAtomic ==
    pc = "callback" => \A p \in Paths \ touched : Visible(p) = Decided(p)

\* The same as long as the power stays on, whatever else fails or is killed.
AtomicWithoutPowerLoss == losses = 0 => BatchIsAtomic

\* applyCanonicalBatch returns only for a batch that is committed, and nothing
\* that happens later (kill, power loss, recovery) takes that back.
AckedBatchIsCommitted == acked => committed

\* The write-ahead rule: from the first canonical name of the batch that may
\* differ from its original, now or after a power loss, until the commit rename,
\* a power loss leaves the active journal with every before-image in it.
Disturbed(p) == \E d \in dur[p] \cup {cur[p]} : d["dest"].rev # old[p]
JournalPrecedesPublication ==
    /\ phase \in {"prepare", "active"}
    /\ \E p \in batch \ touched : Disturbed(p)
    => durPhase = {"active"} /\ durFull = {TRUE}

\* Bytes an operator put at a canonical name while a batch was under way are
\* still at one of its names: publication and recovery move them, never drop
\* them.
ForeignBytesSurvive ==
    \A p \in Paths : foreign[p] # Nil =>
        \E s \in Slots : cur[p][s].rev = foreign[p]

\* Recovery declares a journal ambiguous for three reasons only: an operator
\* edit, a temporary whose write was cut short, or the evacuation that an
\* interrupted recovery left behind.
PrivateLeftover(p) ==
    \/ cur[p]["tmp"].rev = Torn
    \/ Exists(cur[p]["tmpEvac"]) \/ Exists(cur[p]["evacEvac"])
HasCause == touched # {} \/ \E p \in batch : PrivateLeftover(p)

\* The manifest and the artifacts of an active or committed journal are there.
JournalIsWellFormed == verdict # "malformed"

\* What the journal on the disk promises to recovery.
JournalInv == JournalPrecedesPublication /\ JournalIsWellFormed

\* A journal found on the disk is eventually gone, unless recovery says why not:
\* with the later leases that the store's users keep asking for, every
\* interrupted batch is rolled back or cleaned up.
Fairness == WF_vars(Step)
FairSpec == Spec /\ Fairness
JournalIsSettled == phase # "none" ~> phase = "none" \/ (verdict = "ambiguous" /\ HasCause)

\* As long as nobody edits a file by hand and the power stays on,
\* RepositoryTransaction implements AtomicBatch: a callback sees the files
\* themselves, everyone else what the next callback will see.
Abstract == INSTANCE AtomicBatch WITH
    Values <- Revs \cup {Nil},
    Starts <- Initials,
    Batches <- Requests,
    store <- [p \in Paths |-> IF pc = "callback" THEN Visible(p) ELSE Decided(p)],
    before <- old,
    target <- new,
    status <- IF acked THEN "returned" ELSE IF committed THEN "committed" ELSE "open"
ImplementsAtomicBatch ==
    /\ Abstract!Init
    /\ [][edits' = 0 /\ losses' = 0 => [Abstract!Next]_(Abstract!batchVars)]_vars

===============================================================================
