------------------------ MODULE InstallationTransaction ------------------------
(***************************************************************************)
(* applyInstallationPlan and recoverInstallation of @neottia/distribution  *)
(* (transaction.ts): several runs of the installer over one receipt, each  *)
(* in a process of its own, with the PID lock, the journal of before-      *)
(* images and the planned files.  A run may be killed between two steps,   *)
(* any call may fail before or after its effect, and an operator may edit  *)
(* the planned files.  A file is its content; writeAtomic and removeFile   *)
(* change it in one step.                                                  *)
(***************************************************************************)
EXTENDS Naturals, FiniteSets

CONSTANTS
    Runs,           \* runs of the installer, each in a process of its own
    None,
    NumFiles,       \* planned files 1..NumFiles, in the order of the plan
    Values,         \* contents
    Nil,            \* the content of a file that does not exist
    Initials,       \* what the files may hold at first
    Requests,       \* what a plan may ask for: partial functions on the files
    FaultAt,        \* where a call may fail
    Regimes,        \* what else a history may hold: whether a run may start while
                    \* another one is under way, how many runs are killed and
                    \* how many files an operator edits
    MaxFaults       \* model bound

ASSUME NoneAssumption == None \notin Runs
ASSUME FilesAssumption == NumFiles \in Nat \ {0}
ASSUME InitialsAssumption == Initials \subseteq [1 .. NumFiles -> Values \cup {Nil}]
ASSUME RequestsAssumption ==
    \A r \in Requests : /\ DOMAIN r \subseteq 1 .. NumFiles
                        /\ \A f \in DOMAIN r : r[f] \in Values \cup {Nil}
ASSUME RegimesAssumption == Regimes \subseteq [together : BOOLEAN, kills : Nat, edits : Nat]
ASSUME BoundsAssumption == MaxFaults \in Nat

VARIABLES
    (* the disk *)
    file,       \* content of every planned file
    journal,    \* state of the journal file: none, active or committed
    before, after,  \* its entries, and the files outside them as they were
    lock,       \* whose lock file it is
    pidWritten, \* the lock file holds its owner's pid
    (* the runs *)
    pc,
    mode,       \* apply, inline (the rollback of a failed apply) or recover
    plan,       \* plan[p]: before-states and after-states of p's plan
    k,          \* position in the plan
    attempt,    \* attempts to create the lock file
    victim,     \* victim[p]: the pid read from the lock file
    result,     \* what the caller of a run was told
    dead,       \* the process is gone
    regime,     \* never changes
    (* history, for the properties *)
    installed,  \* the last plan with a journal also committed it, and no
                \* rollback of a failed apply took that back
    acked,      \* and its apply returned
    touched,    \* files an operator edited since that plan saw them
    reclaims,   \* how often the name of a dead run's lock was removed from a lock
    killed, faults, edits

Files == 1 .. NumFiles
Contents == Values \cup {Nil}
Plan == [old : [Files -> Contents], new : [Files -> Contents], files : SUBSET Files]
NoPlan == [old |-> [f \in Files |-> Nil], new |-> [f \in Files |-> Nil], files |-> {}]

diskVars == <<file, journal, before, after>>
lockVars == <<lock, pidWritten, reclaims>>
runVars == <<pc, mode, plan, k, attempt, victim, result>>
historyVars == <<installed, acked, touched>>
boundVars == <<dead, regime, killed, faults, edits>>
vars == <<diskVars, lockVars, runVars, historyVars, boundVars>>

PCs == {"idle", "lock", "writePid", "readPid", "removeLock", "begin", "journal",
        "check", "write", "verify", "commit", "dropJournal", "rollback", "restore",
        "unlock", "done", "dead"}

TypeOK ==
    /\ file \in [Files -> Contents]
    /\ journal \in {"none", "active", "committed"}
    /\ before \in [Files -> Contents] /\ after \in [Files -> Contents]
    /\ lock \in Runs \cup {None} /\ pidWritten \in BOOLEAN
    /\ reclaims \in [Runs -> Nat]
    /\ pc \in [Runs -> PCs] /\ mode \in [Runs -> {"apply", "inline", "recover"}]
    /\ plan \in [Runs -> Plan]
    /\ k \in [Runs -> 0 .. NumFiles + 1]
    /\ attempt \in [Runs -> 0 .. 2] /\ victim \in [Runs -> Runs \cup {None}]
    /\ result \in [Runs -> {"none", "installed", "failed", "ambiguous",
                             "rolledBack", "cleanedUp"}]
    /\ dead \subseteq Runs /\ killed \subseteq dead
    /\ installed \in BOOLEAN /\ acked \in BOOLEAN
    /\ touched \subseteq Files
    /\ faults \in Nat /\ edits \in Nat

Init ==
    /\ file \in Initials /\ journal = "none" /\ before = file /\ after = file
    /\ lock = None /\ pidWritten = FALSE /\ reclaims = [p \in Runs |-> 0]
    /\ pc = [p \in Runs |-> "idle"] /\ mode = [p \in Runs |-> "apply"]
    /\ plan = [p \in Runs |-> NoPlan]
    /\ k = [p \in Runs |-> 0] /\ attempt = [p \in Runs |-> 0]
    /\ victim = [p \in Runs |-> None] /\ result = [p \in Runs |-> "none"]
    /\ installed = FALSE /\ acked = FALSE
    /\ touched = {}
    /\ dead = {} /\ killed = {} /\ faults = 0 /\ edits = 0 /\ regime \in Regimes

-------------------------------------------------------------------------------
(* Control of one run. *)

At(p, l) == pc[p] = l
Goto(p, l) == pc' = [pc EXCEPT ![p] = l] /\ UNCHANGED <<mode, plan, k, attempt, victim, result>>
GotoFile(p, l, j) ==
    /\ pc' = [pc EXCEPT ![p] = l] /\ k' = [k EXCEPT ![p] = j]
    /\ UNCHANGED <<mode, plan, attempt, victim, result>>

\* The run is over but for the lock it holds.
Finish(p, r) ==
    /\ pc' = [pc EXCEPT ![p] = "unlock"] /\ result' = [result EXCEPT ![p] = r]
    /\ UNCHANGED <<mode, plan, k, attempt, victim>>

\* The lock could not be taken.
Refused(p) ==
    /\ pc' = [pc EXCEPT ![p] = "done"] /\ result' = [result EXCEPT ![p] = "failed"]
    /\ UNCHANGED <<mode, plan, k, attempt, victim>>

\* The inner catch of applyInstallationPlan rolls back with the journal in
\* memory; a rollback that fails keeps the journal on the disk.
Throw(p) ==
    \/ /\ mode[p] = "apply"
       /\ pc' = [pc EXCEPT ![p] = "rollback"] /\ mode' = [mode EXCEPT ![p] = "inline"]
       /\ k' = [k EXCEPT ![p] = NumFiles]
       /\ UNCHANGED <<plan, attempt, victim, result>>
    \/ mode[p] # "apply" /\ Finish(p, "ambiguous")

DiskFrame == UNCHANGED diskVars
LockFrame == UNCHANGED lockVars
JournalFrame == UNCHANGED <<journal, before, after>>
Quiet == UNCHANGED <<historyVars, boundVars>>

-------------------------------------------------------------------------------
(* acquireLock, and the release it returns. *)

MayStart(p) ==
    /\ At(p, "idle")
    /\ ~regime.together => \A q \in Runs \ {p} : pc[q] \in {"idle", "done", "dead"}

\* A plan states what its files hold when it is made.
StartApply(p, r) ==
    /\ MayStart(p)
    /\ plan' = [plan EXCEPT ![p] =
         [old |-> [f \in Files |-> IF f \in DOMAIN r THEN file[f] ELSE Nil],
          new |-> [f \in Files |-> IF f \in DOMAIN r THEN r[f] ELSE Nil],
          files |-> DOMAIN r]]
    /\ pc' = [pc EXCEPT ![p] = "lock"] /\ mode' = [mode EXCEPT ![p] = "apply"]
    /\ UNCHANGED <<k, attempt, victim, result>>
    /\ DiskFrame /\ LockFrame /\ Quiet

StartRecover(p) ==
    /\ MayStart(p)
    /\ pc' = [pc EXCEPT ![p] = "lock"] /\ mode' = [mode EXCEPT ![p] = "recover"]
    /\ UNCHANGED <<plan, k, attempt, victim, result>>
    /\ DiskFrame /\ LockFrame /\ Quiet

CreateLock(p) ==
    /\ At(p, "lock")
    /\ \/ attempt[p] = 2 /\ Refused(p) /\ LockFrame
       \/ /\ attempt[p] < 2 /\ lock = None
          /\ lock' = p /\ pidWritten' = FALSE /\ UNCHANGED reclaims /\ Goto(p, "writePid")
       \/ /\ attempt[p] < 2 /\ lock # None
          /\ Goto(p, "readPid") /\ LockFrame
    /\ DiskFrame /\ Quiet

\* The descriptor is p's own; the name may be someone else's by now.
WritePid(p) ==
    /\ At(p, "writePid")
    /\ pidWritten' = (pidWritten \/ lock = p) /\ Goto(p, "begin")
    /\ UNCHANGED <<lock, reclaims>> /\ DiskFrame /\ Quiet

\* Mutant: a lock whose owner lives is replaced as well.
ReadPidTrustsNobody(p) ==
    /\ At(p, "readPid")
    /\ IF lock # None /\ pidWritten
       THEN /\ pc' = [pc EXCEPT ![p] = "removeLock"]
            /\ victim' = [victim EXCEPT ![p] = lock]
            /\ UNCHANGED <<mode, plan, k, attempt, result>>
       ELSE Refused(p)
    /\ DiskFrame /\ LockFrame /\ Quiet

\* No lock file any more, no pid in it, or a live owner: all end the run.
ReadPid(p) ==
    /\ At(p, "readPid")
    /\ IF lock \in dead /\ pidWritten
       THEN /\ pc' = [pc EXCEPT ![p] = "removeLock"]
            /\ victim' = [victim EXCEPT ![p] = lock]
            /\ UNCHANGED <<mode, plan, k, attempt, result>>
       ELSE Refused(p)
    /\ DiskFrame /\ LockFrame /\ Quiet

\* removeFile takes whatever lock file is there, the victim's or, when another
\* run has removed that one, the lock of whoever came next.
RemoveLock(p) ==
    /\ At(p, "removeLock")
    /\ lock' = None /\ pidWritten' = FALSE
    /\ reclaims' = [reclaims EXCEPT ![victim[p]] = IF lock = None THEN @ ELSE @ + 1]
    /\ pc' = [pc EXCEPT ![p] = "lock"] /\ attempt' = [attempt EXCEPT ![p] = @ + 1]
    /\ UNCHANGED <<mode, plan, k, victim, result>>
    /\ DiskFrame /\ Quiet

Unlock(p) ==
    /\ At(p, "unlock")
    /\ lock' = None /\ pidWritten' = FALSE /\ UNCHANGED reclaims /\ Goto(p, "done")
    /\ DiskFrame /\ Quiet

-------------------------------------------------------------------------------
(* applyInstallationPlan *)

\* A pending journal, or a planned file that changed, refuses the plan.
BeginApply(p) ==
    /\ At(p, "begin") /\ mode[p] = "apply"
    /\ IF journal = "none" /\ \A f \in plan[p].files : file[f] = plan[p].old[f]
       THEN Goto(p, "journal") ELSE Finish(p, "failed")
    /\ DiskFrame /\ LockFrame /\ Quiet

\* The entries of p's journal; files outside the plan count as they are.
Entries(p, values, others) ==
    [f \in Files |-> IF f \in plan[p].files THEN values[f] ELSE others[f]]

WritesJournal(p) ==
    /\ journal' = "active"
    /\ before' = Entries(p, plan[p].old, file) /\ after' = Entries(p, plan[p].new, file)
    /\ installed' = FALSE /\ acked' = FALSE
    /\ touched' = {f \in plan[p].files : file[f] # plan[p].old[f]}
    /\ UNCHANGED file

WriteJournal(p) ==
    /\ At(p, "journal")
    /\ WritesJournal(p) /\ GotoFile(p, "check", 1)
    /\ LockFrame /\ UNCHANGED boundVars

\* assertExpected, just before each mutation.
CheckFile(p) ==
    /\ At(p, "check")
    /\ \/ k[p] > NumFiles /\ Goto(p, "commit")
       \/ k[p] \in Files \ plan[p].files /\ GotoFile(p, "check", k[p] + 1)
       \/ k[p] \in plan[p].files /\ file[k[p]] = plan[p].old[k[p]] /\ Goto(p, "write")
       \/ k[p] \in plan[p].files /\ file[k[p]] # plan[p].old[k[p]] /\ Throw(p)
    /\ DiskFrame /\ LockFrame /\ Quiet

WriteFile(p) ==
    /\ At(p, "write")
    /\ file' = [file EXCEPT ![k[p]] = plan[p].new[k[p]]] /\ Goto(p, "verify")
    /\ JournalFrame /\ LockFrame /\ Quiet

\* A written file is read again; a removed one is not.
VerifyFile(p) ==
    /\ At(p, "verify")
    /\ IF plan[p].new[k[p]] \in {Nil, file[k[p]]}
       THEN GotoFile(p, "check", k[p] + 1) ELSE Throw(p)
    /\ DiskFrame /\ LockFrame /\ Quiet

WritesCommitted(p) ==
    /\ journal' = "committed"
    /\ before' = Entries(p, plan[p].old, before) /\ after' = Entries(p, plan[p].new, after)
    /\ installed' = TRUE
    /\ UNCHANGED <<file, acked, touched>>

WriteCommitted(p) ==
    /\ At(p, "commit")
    /\ WritesCommitted(p) /\ Goto(p, "dropJournal")
    /\ LockFrame /\ UNCHANGED boundVars

\* removeFile(transactionPath), and what the caller is told.
DropJournal(p) ==
    /\ At(p, "dropJournal")
    /\ journal' = "none" /\ UNCHANGED <<file, before, after>>
    /\ installed' = (installed /\ mode[p] # "inline")
    /\ \/ mode[p] = "apply" /\ Finish(p, "installed") /\ acked' = TRUE
       \/ mode[p] = "inline" /\ Finish(p, "failed") /\ UNCHANGED acked
       \/ /\ mode[p] = "recover" /\ UNCHANGED acked
          /\ Finish(p, IF journal = "committed" THEN "cleanedUp" ELSE "rolledBack")
    /\ UNCHANGED <<touched, boundVars>> /\ LockFrame

-------------------------------------------------------------------------------
(* recoverInstallation and rollbackJournal *)

\* Mutant: an active journal is taken for the leftover of a finished run.
BeginRecoverCleansUp(p) ==
    /\ At(p, "begin") /\ mode[p] = "recover"
    /\ IF journal = "none" THEN Finish(p, "none") ELSE Goto(p, "dropJournal")
    /\ DiskFrame /\ LockFrame /\ Quiet

BeginRecover(p) ==
    /\ At(p, "begin") /\ mode[p] = "recover"
    /\ \/ journal = "none" /\ Finish(p, "none")
       \/ journal = "committed" /\ Goto(p, "dropJournal")
       \/ /\ journal = "active"
          /\ plan' = [plan EXCEPT ![p] = [old |-> before, new |-> after,
                        files |-> {f \in Files : before[f] # after[f]}]]
          /\ pc' = [pc EXCEPT ![p] = "rollback"] /\ k' = [k EXCEPT ![p] = NumFiles]
          /\ UNCHANGED <<mode, attempt, victim, result>>
    /\ DiskFrame /\ LockFrame /\ Quiet

\* In reverse order: keep what is as before, put back what is as intended, and
\* stop at anything else.
Rollback(p) ==
    LET f == k[p]
        isOld == file[f] = plan[p].old[f]
        isNew == file[f] = plan[p].new[f]
    IN  /\ At(p, "rollback")
        /\ \/ f = 0 /\ Goto(p, "dropJournal")
           \/ f \in Files \ plan[p].files /\ GotoFile(p, "rollback", f - 1)
           \/ f \in plan[p].files /\ isOld /\ GotoFile(p, "rollback", f - 1)
           \/ f \in plan[p].files /\ ~isOld /\ isNew /\ Goto(p, "restore")
           \/ f \in plan[p].files /\ ~isOld /\ ~isNew /\ Finish(p, "ambiguous")
        /\ DiskFrame /\ LockFrame /\ Quiet

\* Mutant: the file is skipped after it was found changed.
RestoreSkips(p) ==
    /\ At(p, "restore")
    /\ GotoFile(p, "rollback", k[p] - 1)
    /\ DiskFrame /\ LockFrame /\ Quiet

Restore(p) ==
    /\ At(p, "restore")
    /\ file' = [file EXCEPT ![k[p]] = plan[p].old[k[p]]]
    /\ GotoFile(p, "rollback", k[p] - 1)
    /\ JournalFrame /\ LockFrame /\ Quiet

Locking(p) == CreateLock(p) \/ WritePid(p) \/ ReadPid(p) \/ RemoveLock(p) \/ Unlock(p)
Applying(p) ==
    \/ BeginApply(p) \/ WriteJournal(p) \/ CheckFile(p) \/ WriteFile(p) \/ VerifyFile(p)
    \/ WriteCommitted(p) \/ DropJournal(p)
Recovering(p) == BeginRecover(p) \/ Rollback(p) \/ Restore(p)
Step(p) == Locking(p) \/ Applying(p) \/ Recovering(p)
Start(p) == StartRecover(p) \/ \E r \in Requests : StartApply(p, r)

-------------------------------------------------------------------------------
(* The environment. *)

Kill(p) ==
    /\ pc[p] \notin {"idle", "done", "dead"} /\ Cardinality(killed) < regime.kills
    /\ killed' = killed \cup {p} /\ dead' = dead \cup {p} /\ Goto(p, "dead")
    /\ DiskFrame /\ LockFrame /\ UNCHANGED <<historyVars, regime, faults, edits>>

\* The first journal write is outside the inner try block; a rename or an
\* unlink may have happened when the synchronization after it fails.
CallFails(p) ==
    /\ faults < MaxFaults /\ pc[p] \in FaultAt
    /\ faults' = faults + 1
    /\ \/ /\ At(p, "journal") /\ Finish(p, "failed")
          /\ WritesJournal(p) \/ UNCHANGED <<diskVars, historyVars>>
       \/ /\ At(p, "write") /\ Throw(p) /\ JournalFrame /\ UNCHANGED historyVars
          /\ file' \in {file, [file EXCEPT ![k[p]] = plan[p].new[k[p]]]}
       \/ /\ At(p, "commit") /\ Throw(p)
          /\ WritesCommitted(p) \/ UNCHANGED <<diskVars, historyVars>>
       \/ /\ At(p, "dropJournal") /\ Throw(p) /\ UNCHANGED <<file, before, after, historyVars>>
          /\ journal' \in {journal, "none"}
       \/ /\ At(p, "restore") /\ Throw(p) /\ JournalFrame /\ UNCHANGED historyVars
          /\ file' \in {file, [file EXCEPT ![k[p]] = plan[p].old[k[p]]]}
    /\ LockFrame /\ UNCHANGED <<dead, regime, killed, edits>>

OperatorEdit(f, c) ==
    /\ edits < regime.edits /\ edits' = edits + 1
    /\ c # file[f]
    /\ file' = [file EXCEPT ![f] = c]
    /\ touched' = touched \cup {f}
    /\ JournalFrame /\ LockFrame
    /\ UNCHANGED <<runVars, installed, acked, dead, regime, killed, faults>>

Next ==
    \/ \E p \in Runs : Start(p) \/ Step(p) \/ Kill(p) \/ CallFails(p)
    \/ \E f \in Files, c \in Contents : OperatorEdit(f, c)

Spec == Init /\ [][Next]_vars
-------------------------------------------------------------------------------
(* Properties. *)

\* Every lock that was taken from a dead run was taken from it once.
ReclaimedOnce == \A v \in Runs : reclaims[v] <= 1

\* One run at a time works on the files and the journal of a receipt, until the
\* lock of one dead run is reclaimed twice, by two runs that both read its pid
\* (acquireLock).  No history without a death or without contention gets there.
Working(p) == pc[p] \notin {"idle", "lock", "readPid", "removeLock", "done", "dead"}
MutualExclusion ==
    Cardinality({p \in Runs : Working(p)}) > 1 =>
        regime.together /\ \E v \in dead : reclaims[v] > 1

\* What apply reported as installed stays installed, whatever runs or dies later.
AckedIsInstalled == acked /\ ReclaimedOnce => installed

\* One run works at a time, and what apply reported stays installed, but for the
\* lock that is reclaimed twice.
InstallInv == TypeOK /\ MutualExclusion /\ AckedIsInstalled

\* When no run works and no journal is left, the files no operator edited are
\* all as the last plan intends them, or all as it found them.  A rollback that
\* finds a file it does not know stops and keeps the journal for the operator.
\* All of it as long as no lock was reclaimed twice.
Decided(f) == IF installed THEN after[f] ELSE before[f]
AllOrNothing ==
    ReclaimedOnce =>
        /\ journal = "none" /\ (\A p \in Runs : ~Working(p)) =>
               \A f \in Files \ touched : file[f] = Decided(f)
        /\ \A p \in Runs : At(p, "unlock") /\ result[p] = "ambiguous" => journal = "active"

\* As long as no operator edits a planned file and no lock is reclaimed twice,
\* the installer implements AtomicBatch for whoever reads the files when no
\* journal is left, and recovers first when one is.
Abstract == INSTANCE AtomicBatch WITH
    Paths <- Files,
    Values <- Contents,
    Starts <- Initials,
    Batches <- Requests,
    store <- [f \in Files |-> IF journal = "none" THEN file[f] ELSE Decided(f)],
    before <- before,
    target <- after,
    status <- IF acked THEN "returned" ELSE IF installed THEN "committed" ELSE "open"
ImplementsAtomicBatch ==
    Abstract!Init /\ [][edits' = 0 /\ ReclaimedOnce' => [Abstract!Next]_(Abstract!batchVars)]_vars
===============================================================================
