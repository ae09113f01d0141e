------------------------- MODULE InstallationProofs -------------------------
(***************************************************************************)
(* The safety of the installer and of the commands before it.              *)
(* Its transactions, for every number of runs, of planned files and of     *)
(* failing calls.  Until the lock of one dead run is reclaimed twice, one  *)
(* run works at a time (WorkInv), so that the journal on the disk is the   *)
(* plan of the run that works; each of its program counters tells how far  *)
(* the files have come (CallInv), and whatever a kill leaves behind is a   *)
(* journal from which every file can be decided (FilesInv).                *)
(* Its planner, for every set of files, hosts and entries and every number *)
(* of plans and edits.  Every plan is sound (Sound): it says what it       *)
(* writes, what was there, and what the receipt it leaves will vouch for.  *)
(* So the receipt and the user's content keep accounting for each other    *)
(* (ReceiptInv), whichever plans are applied and however late.             *)
(* The configuration it is planned from (ReadInv, LoadedInv), the manifest *)
(* that is compiled from one (CompiledInv, which says of every input what  *)
(* was accepted with it), the text of its commands, for all the overrides  *)
(* (BodiesInv) and without them (LoadInv), and the answers of the adapters *)
(* to every request (AskedInv).                                            *)
(***************************************************************************)
EXTENDS InstallationTransaction, NeottiaApply, FiniteSetTheorems, FunctionTheorems, SequenceTheorems,
        WellFoundedInduction, TLAPS

\* No call fails after the journal was marked committed: such a failure rolls
\* back under a journal that says otherwise.
FailsBeforeCommit == FaultAt \cap {"commit", "dropJournal"} = {}

Act(p) == Start(p) \/ Step(p) \/ Kill(p) \/ CallFails(p)

Over == {"idle", "done", "dead"}

\* Who holds the lock, and when it may be taken away.  Whoever is about to remove
\* the lock of a dead run finds that very lock, or somebody has removed it before.
WorkInv ==
    /\ regime \in Regimes
    /\ ~regime.together => \A p, q \in Runs : p # q => pc[p] \in Over \/ pc[q] \in Over
    /\ \A p \in dead : pc[p] = "dead"
    /\ \A v \in Runs : reclaims[v] > 0 => v \in dead /\ lock # v
    /\ \A p \in Runs : pc[p] = "removeLock" => victim[p] \in dead
    /\ ~regime.together =>
          ReclaimedOnce /\ \A p \in Runs : pc[p] = "removeLock" => lock = victim[p]
    /\ ReclaimedOnce =>
          /\ \A p \in Runs : Working(p) => lock = p
          /\ \A p \in Runs : pc[p] = "removeLock" => lock = victim[p] \/ reclaims[victim[p]] > 0

\* Where a run is in its plan.
PlaceInv ==
    \A p \in Runs :
        /\ pc[p] \in {"readPid", "removeLock"} => attempt[p] < 2
        /\ pc[p] \in {"journal", "check", "write", "verify", "commit"} => mode[p] = "apply"
        /\ pc[p] \in {"rollback", "restore"} => mode[p] # "apply" /\ k[p] <= NumFiles
        /\ pc[p] = "check" => k[p] >= 1
        /\ pc[p] \in {"write", "verify", "restore"} => k[p] \in plan[p].files

-------------------------------------------------------------------------------
(* Types.                                                                     *)

LEMMA OthersStay ==
    ASSUME TypeOK, NEW p \in Runs, Act(p), NEW q \in Runs \ {p}
    PROVE  /\ pc'[q] = pc[q] /\ mode'[q] = mode[q] /\ plan'[q] = plan[q] /\ k'[q] = k[q]
           /\ attempt'[q] = attempt[q] /\ victim'[q] = victim[q] /\ result'[q] = result[q]
<1> USE DEF TypeOK, Goto, GotoFile, Finish, Refused, Throw
<1>1. CASE Start(p)
      BY <1>1 DEF Start, StartApply, StartRecover
<1>2. CASE Locking(p)
      BY <1>2 DEF Locking, CreateLock, WritePid, ReadPid, RemoveLock, Unlock
<1>3. CASE Applying(p)
      BY <1>3 DEF Applying, BeginApply, WriteJournal, CheckFile, WriteFile, VerifyFile,
                  WriteCommitted, DropJournal
<1>4. CASE Recovering(p)
      BY <1>4 DEF Recovering, BeginRecover, Rollback, Restore
<1>5. CASE Kill(p)
      BY <1>5 DEF Kill
<1>6. CASE CallFails(p)
      BY <1>6 DEF CallFails
<1>7. QED  BY <1>1, <1>2, <1>3, <1>4, <1>5, <1>6 DEF Act, Step

LEMMA InitTypes ==
    ASSUME Init
    PROVE  TypeOK
<1>1. file \in [Files -> Contents]  BY InitialsAssumption DEF Init, Files, Contents
<1>2. NoPlan \in Plan  BY DEF NoPlan, Plan, Contents
<1>3. 0 \in 0 .. NumFiles + 1 /\ 0 \in 0 .. 2  BY FilesAssumption
<1>4. /\ pc \in [Runs -> PCs] /\ mode \in [Runs -> {"apply", "inline", "recover"}]
      /\ plan \in [Runs -> Plan] /\ k \in [Runs -> 0 .. NumFiles + 1] /\ reclaims \in [Runs -> Nat]
      /\ attempt \in [Runs -> 0 .. 2] /\ victim \in [Runs -> Runs \cup {None}]
      /\ result \in [Runs -> {"none", "installed", "failed", "ambiguous", "rolledBack", "cleanedUp"}]
      BY <1>2, <1>3 DEF Init, PCs
<1>5. QED  BY <1>1, <1>4 DEF Init, TypeOK

\* The plan of a request, and the plan that recovery reads from the journal.
LEMMA PlansAreTyped ==
    ASSUME TypeOK
    PROVE  /\ \A r \in Requests :
                [old |-> [f \in Files |-> IF f \in DOMAIN r THEN file[f] ELSE Nil],
                 new |-> [f \in Files |-> IF f \in DOMAIN r THEN r[f] ELSE Nil],
                 files |-> DOMAIN r] \in Plan
           /\ [old |-> before, new |-> after, files |-> {f \in Files : before[f] # after[f]}] \in Plan
<1> USE DEF Plan, Contents, TypeOK
<1>1. ASSUME NEW r \in Requests
      PROVE  /\ DOMAIN r \subseteq Files
             /\ \A f \in DOMAIN r : r[f] \in Contents
      BY RequestsAssumption DEF Files
<1>2. ASSUME NEW r \in Requests
      PROVE  /\ [f \in Files |-> IF f \in DOMAIN r THEN file[f] ELSE Nil] \in [Files -> Contents]
             /\ [f \in Files |-> IF f \in DOMAIN r THEN r[f] ELSE Nil] \in [Files -> Contents]
      BY <1>1
<1>3. QED  BY <1>1, <1>2

LEMMA RunsAreTyped ==
    ASSUME TypeOK, PlaceInv, NEW p \in Runs, Act(p)
    PROVE  /\ pc' \in [Runs -> PCs] /\ mode' \in [Runs -> {"apply", "inline", "recover"}]
           /\ plan' \in [Runs -> Plan]
           /\ k' \in [Runs -> 0 .. NumFiles + 1]
           /\ attempt' \in [Runs -> 0 .. 2] /\ victim' \in [Runs -> Runs \cup {None}]
           /\ result' \in [Runs -> {"none", "installed", "failed", "ambiguous",
                                    "rolledBack", "cleanedUp"}]
<1>1. /\ pc \in [Runs -> PCs] /\ mode \in [Runs -> {"apply", "inline", "recover"}]
      /\ plan \in [Runs -> Plan]
      /\ k \in [Runs -> 0 .. NumFiles + 1]
      /\ attempt \in [Runs -> 0 .. 2] /\ victim \in [Runs -> Runs \cup {None}]
      /\ result \in [Runs -> {"none", "installed", "failed", "ambiguous",
                              "rolledBack", "cleanedUp"}]
      /\ lock \in Runs \cup {None}
      BY DEF TypeOK
<1>2. NumFiles \in 0 .. NumFiles + 1  BY FilesAssumption
<1> USE DEF Goto, GotoFile, Finish, Refused, Throw, PCs
<1>3. CASE StartRecover(p)
      BY <1>1, <1>3 DEF StartRecover
<1>4. ASSUME NEW r \in Requests, StartApply(p, r)
      PROVE  plan' \in [Runs -> Plan] /\ pc' \in [Runs -> PCs]
             /\ mode' \in [Runs -> {"apply", "inline", "recover"}]
             /\ UNCHANGED <<k, attempt, victim, result>>
      BY <1>1, <1>4, PlansAreTyped DEF StartApply
<1>5. CASE RemoveLock(p)
  <2>1. attempt[p] \in 0 .. 1  BY <1>1, <1>5 DEF RemoveLock, PlaceInv, At
  <2>2. attempt[p] + 1 \in 0 .. 2  BY <2>1
  <2>3. QED  BY <1>1, <1>5, <2>2 DEF RemoveLock
<1>6. CASE CreateLock(p) \/ WritePid(p) \/ ReadPid(p) \/ Unlock(p)
      BY <1>1, <1>6 DEF CreateLock, WritePid, ReadPid, Unlock
<1>7. CASE CheckFile(p)
  <2>1. k[p] \in Files => k[p] + 1 \in 0 .. NumFiles + 1  BY FilesAssumption DEF Files
  <2>2. QED  BY <1>1, <1>2, <1>7, <2>1 DEF CheckFile, TypeOK
<1>8. CASE VerifyFile(p)
  <2>1. k[p] \in plan[p].files  BY <1>8 DEF VerifyFile, PlaceInv, At
  <2>2. plan[p].files \subseteq Files  BY <1>1 DEF Plan
  <2>3. k[p] + 1 \in 0 .. NumFiles + 1  BY <2>1, <2>2, FilesAssumption DEF Files
  <2>4. QED  BY <1>1, <1>2, <1>8, <2>3 DEF VerifyFile
<1>9. CASE WriteJournal(p)
  <2>1. 1 \in 0 .. NumFiles + 1  BY FilesAssumption
  <2>2. QED  BY <1>1, <1>9, <2>1 DEF WriteJournal
<1>10. CASE BeginApply(p) \/ WriteFile(p) \/ WriteCommitted(p) \/ DropJournal(p)
      BY <1>1, <1>10 DEF BeginApply, WriteFile, WriteCommitted, DropJournal
<1>11. CASE BeginRecover(p)
  <2>1. plan' \in [Runs -> Plan]
    <3>1. CASE plan' = plan  BY <1>1, <3>1
    <3>2. CASE plan' = [plan EXCEPT ![p] = [old |-> before, new |-> after,
                          files |-> {f \in Files : before[f] # after[f]}]]
      <4> DEFINE recovered == [old |-> before, new |-> after,
                               files |-> {f \in Files : before[f] # after[f]}]
      <4>1. recovered \in Plan /\ plan' = [plan EXCEPT ![p] = recovered]  BY <3>2, PlansAreTyped
      <4> HIDE DEF recovered
      <4>2. QED  BY <1>1, <4>1
    <3>3. QED  BY <1>11, <3>1, <3>2 DEF BeginRecover
  <2>2. QED  BY <1>1, <1>2, <1>11, <2>1 DEF BeginRecover
<1>12. CASE Rollback(p)
  <2>1. k[p] \in Files => k[p] - 1 \in 0 .. NumFiles + 1  BY FilesAssumption DEF Files
  <2>2. plan[p].files \subseteq Files  BY <1>1 DEF Plan
  <2>3. QED  BY <1>1, <1>12, <2>1, <2>2 DEF Rollback
<1>13. CASE Restore(p)
  <2>1. k[p] \in plan[p].files  BY <1>13 DEF Restore, PlaceInv, At
  <2>2. plan[p].files \subseteq Files  BY <1>1 DEF Plan
  <2>3. k[p] - 1 \in 0 .. NumFiles + 1  BY <2>1, <2>2, FilesAssumption DEF Files
  <2>4. QED  BY <1>1, <1>13, <2>3 DEF Restore
<1>14. CASE Kill(p)
      BY <1>1, <1>14 DEF Kill
<1>15. CASE CallFails(p)
      BY <1>1, <1>2, <1>15 DEF CallFails
<1>16. QED
      BY <1>1, <1>3, <1>4, <1>5, <1>6, <1>7, <1>8, <1>9, <1>10, <1>11, <1>12, <1>13, <1>14, <1>15
      DEF Act, Start, Step, Locking, Applying, Recovering

LEMMA DiskIsTyped ==
    ASSUME TypeOK, PlaceInv, NEW p \in Runs, Act(p)
    PROVE  /\ file' \in [Files -> Contents]
           /\ journal' \in {"none", "active", "committed"}
           /\ before' \in [Files -> Contents] /\ after' \in [Files -> Contents]
           /\ installed' \in BOOLEAN /\ acked' \in BOOLEAN
           /\ touched' \subseteq Files
<1>1. /\ file \in [Files -> Contents] /\ journal \in {"none", "active", "committed"}
      /\ before \in [Files -> Contents] /\ after \in [Files -> Contents]
      /\ installed \in BOOLEAN /\ acked \in BOOLEAN /\ touched \subseteq Files
      /\ plan[p].old \in [Files -> Contents] /\ plan[p].new \in [Files -> Contents]
      /\ plan[p].files \subseteq Files
      BY DEF TypeOK, Plan
<1>2. CASE UNCHANGED <<diskVars, historyVars>>
      BY <1>1, <1>2 DEF diskVars, historyVars
<1>3. ASSUME NEW values \in [Files -> Contents], NEW others \in [Files -> Contents]
      PROVE  Entries(p, values, others) \in [Files -> Contents]
      BY <1>3 DEF Entries
<1>4. CASE WritesJournal(p)
      BY <1>1, <1>3, <1>4 DEF WritesJournal
<1>5. CASE WritesCommitted(p)
      BY <1>1, <1>3, <1>5 DEF WritesCommitted
<1>6. CASE /\ \/ file' = file
              \/ file' = [file EXCEPT ![k[p]] = plan[p].old[k[p]]] /\ k[p] \in plan[p].files
              \/ file' = [file EXCEPT ![k[p]] = plan[p].new[k[p]]] /\ k[p] \in plan[p].files
           /\ UNCHANGED <<journal, before, after, historyVars>>
      BY <1>1, <1>6 DEF historyVars
<1>7. CASE /\ UNCHANGED <<file, before, after, touched>> /\ journal' \in {journal, "none"}
           /\ installed' \in BOOLEAN /\ acked' \in {acked, TRUE}
      BY <1>1, <1>7
<1>8. CASE Locking(p) \/ Start(p) \/ Kill(p)
      BY <1>2, <1>8 DEF Locking, CreateLock, WritePid, ReadPid, RemoveLock, Unlock, Start,
            StartApply,
                        StartRecover, Kill, DiskFrame, Quiet
<1>9. CASE BeginApply(p) \/ CheckFile(p) \/ VerifyFile(p) \/ BeginRecover(p) \/ Rollback(p)
      BY <1>2, <1>9 DEF BeginApply, CheckFile, VerifyFile, BeginRecover, Rollback, DiskFrame, Quiet
<1>10. CASE WriteFile(p) \/ Restore(p)
      BY <1>6, <1>10 DEF WriteFile, Restore, PlaceInv, At, JournalFrame, Quiet
<1>11. CASE WriteJournal(p)  BY <1>4, <1>11 DEF WriteJournal
<1>12. CASE WriteCommitted(p)  BY <1>5, <1>12 DEF WriteCommitted
<1>13. CASE DropJournal(p)
  <2>1. acked' \in {acked, TRUE} /\ installed' \in BOOLEAN  BY <1>13 DEF DropJournal
  <2>2. QED  BY <1>7, <1>13, <2>1 DEF DropJournal
<1>14. CASE CallFails(p)
  <2>1. CASE At(p, "write") \/ At(p, "restore")
        BY <1>6, <1>14, <2>1 DEF CallFails, PlaceInv, At, JournalFrame
  <2>2. CASE At(p, "dropJournal")
        BY <1>1, <1>7, <1>14, <2>2 DEF CallFails, At, historyVars
  <2>3. CASE At(p, "journal") \/ At(p, "commit")
        BY <1>2, <1>4, <1>5, <1>14, <2>3 DEF CallFails, At
  <2>4. QED  BY <1>14, <2>1, <2>2, <2>3 DEF CallFails
<1>15. QED
      BY <1>8, <1>9, <1>10, <1>11, <1>12, <1>13, <1>14 DEF Act, Step, Applying, Recovering

LEMMA NextTypes ==
    ASSUME TypeOK, PlaceInv, [Next]_vars
    PROVE  TypeOK'
<1>1. CASE UNCHANGED vars
      BY <1>1 DEF TypeOK, vars, diskVars, lockVars, runVars, historyVars, boundVars
<1>2. ASSUME NEW f \in Files, NEW c \in Contents, OperatorEdit(f, c) PROVE TypeOK'
      BY <1>2 DEF OperatorEdit, TypeOK, JournalFrame, LockFrame, lockVars, runVars
<1>3. ASSUME NEW p \in Runs, Act(p) PROVE TypeOK'
  <2>1. /\ lock' \in Runs \cup {None} /\ pidWritten' \in BOOLEAN /\ reclaims' \in [Runs -> Nat]
        /\ dead' \subseteq Runs /\ killed' \subseteq dead' /\ faults' \in Nat /\ edits' \in Nat
    <3>1. /\ lock \in Runs \cup {None} /\ pidWritten \in BOOLEAN /\ reclaims \in [Runs -> Nat]
          /\ dead \subseteq Runs /\ killed \subseteq dead /\ faults \in Nat /\ edits \in Nat
          BY DEF TypeOK
    <3>2. CASE Locking(p)
      <4>1. CASE RemoveLock(p)
        <5>1. \A v \in Runs : reclaims[v] \in Nat /\ reclaims[v] + 1 \in Nat  BY <3>1
        <5>2. reclaims' = [reclaims EXCEPT ![victim[p]] = IF lock = None THEN @ ELSE @ + 1]
              BY <4>1 DEF RemoveLock
        <5>3. reclaims' \in [Runs -> Nat]  BY <3>1, <5>1, <5>2
        <5>4. QED  BY <3>1, <4>1, <5>3 DEF RemoveLock, Quiet, boundVars
      <4>2. CASE CreateLock(p) \/ WritePid(p) \/ ReadPid(p) \/ Unlock(p)
            BY <3>1, <4>2 DEF CreateLock, WritePid, ReadPid, Unlock, LockFrame, lockVars, Quiet, boundVars
      <4>3. QED  BY <3>2, <4>1, <4>2 DEF Locking
    <3>3. CASE Start(p)
          BY <3>1, <3>3 DEF Start, StartApply, StartRecover, LockFrame, lockVars, Quiet, boundVars
    <3>4. CASE Applying(p)
          BY <3>1, <3>4 DEF Applying, BeginApply, WriteJournal, CheckFile, WriteFile, VerifyFile,
                            WriteCommitted, DropJournal, LockFrame, lockVars, Quiet, boundVars
    <3>5. CASE Recovering(p)
          BY <3>1, <3>5 DEF Recovering, BeginRecover, Rollback, Restore, LockFrame, lockVars, Quiet,
                            boundVars
    <3>6. CASE Kill(p)  BY <3>1, <3>6 DEF Kill, LockFrame, lockVars
    <3>7. CASE CallFails(p)  BY <3>1, <3>7 DEF CallFails, LockFrame, lockVars
    <3>8. QED  BY <1>3, <3>2, <3>3, <3>4, <3>5, <3>6, <3>7 DEF Act, Step
  <2>2. QED  BY <1>3, <2>1, RunsAreTyped, DiskIsTyped DEF TypeOK
<1>4. QED  BY <1>1, <1>2, <1>3 DEF Next, Act

-------------------------------------------------------------------------------
(* Places, and who works.                                                     *)

\* What holds without any run doing something holds.
LEMMA EditsAndStutters ==
    ASSUME [Next]_vars, \A p \in Runs : ~Act(p)
    PROVE  UNCHANGED <<runVars, lockVars, journal, before, after, installed, acked, dead, regime, killed>>
BY DEF Next, Act, OperatorEdit, JournalFrame, LockFrame, vars, diskVars, historyVars, boundVars

LEMMA PlacesKeep ==
    ASSUME TypeOK, PlaceInv, [Next]_vars
    PROVE  PlaceInv'
<1> DEFINE Place(p) ==
        /\ pc[p] \in {"readPid", "removeLock"} => attempt[p] < 2
        /\ pc[p] \in {"journal", "check", "write", "verify", "commit"} => mode[p] = "apply"
        /\ pc[p] \in {"rollback", "restore"} => mode[p] # "apply" /\ k[p] <= NumFiles
        /\ pc[p] = "check" => k[p] >= 1
        /\ pc[p] \in {"write", "verify", "restore"} => k[p] \in plan[p].files
<1>1. CASE \A p \in Runs : ~Act(p)
      BY <1>1, EditsAndStutters DEF PlaceInv, runVars
<1>2. ASSUME NEW p \in Runs, Act(p) PROVE PlaceInv'
  <2>1. ASSUME NEW q \in Runs \ {p} PROVE Place(q)'
        BY <1>2, <2>1, OthersStay DEF PlaceInv
  <2>2. Place(p)'
    <3>1. /\ pc \in [Runs -> PCs] /\ mode \in [Runs -> {"apply", "inline", "recover"}]
          /\ plan \in [Runs -> Plan] /\ k \in [Runs -> 0 .. NumFiles + 1] /\ attempt \in [Runs -> 0 .. 2]
          /\ k[p] \in Nat /\ NumFiles \in Nat /\ plan[p].files \subseteq Files
          BY FilesAssumption DEF TypeOK, Plan
    <3>2. Place(p)  BY DEF PlaceInv
    <3> USE DEF Goto, GotoFile, Finish, Refused, Throw, At
    <3>3. CASE Start(p)
          BY <3>1, <3>3 DEF Start, StartApply, StartRecover
    <3>4. CASE Locking(p)
          BY <3>1, <3>2, <3>4 DEF Locking, CreateLock, WritePid, ReadPid, RemoveLock, Unlock
    <3>5. CASE CheckFile(p)
          BY <3>1, <3>2, <3>5 DEF CheckFile, Files
    <3>6. CASE VerifyFile(p)
          BY <3>1, <3>2, <3>6 DEF VerifyFile, Files
    <3>7. CASE BeginApply(p) \/ WriteJournal(p) \/ WriteFile(p) \/ WriteCommitted(p) \/ DropJournal(p)
          BY <3>1, <3>2, <3>7 DEF BeginApply, WriteJournal, WriteFile, WriteCommitted, DropJournal
    <3>8. CASE BeginRecover(p)
          BY <3>1, <3>2, <3>8 DEF BeginRecover
    <3>9. CASE Rollback(p)
          BY <3>1, <3>2, <3>9 DEF Rollback, Files
    <3>10. CASE Restore(p)
          BY <3>1, <3>2, <3>10 DEF Restore, Files
    <3>11. CASE Kill(p)
          BY <3>1, <3>11 DEF Kill
    <3>12. CASE CallFails(p)
          BY <3>1, <3>2, <3>12 DEF CallFails
    <3>13. QED
          BY <1>2, <3>3, <3>4, <3>5, <3>6, <3>7, <3>8, <3>9, <3>10, <3>11, <3>12
          DEF Act, Step, Applying, Recovering
  <2>3. QED  BY <2>1, <2>2 DEF PlaceInv
<1>3. QED  BY <1>1, <1>2

\* A run that is over can only start.
LEMMA OverStarts ==
    ASSUME NEW p \in Runs, Act(p), pc[p] \in Over
    PROVE  Start(p) /\ pc[p] = "idle"
<1> USE DEF At, Over
<1>1. ~Locking(p)
      BY DEF Locking, CreateLock, WritePid, ReadPid, RemoveLock, Unlock
<1>2. ~Applying(p)
      BY DEF Applying, BeginApply, WriteJournal, CheckFile, WriteFile, VerifyFile,
             WriteCommitted, DropJournal
<1>3. ~Recovering(p)
      BY DEF Recovering, BeginRecover, Rollback, Restore
<1>4. ~Kill(p) /\ ~CallFails(p)
      BY DEF Kill, CallFails
<1>5. Start(p)  BY <1>1, <1>2, <1>3, <1>4 DEF Act, Step
<1>6. QED  BY <1>5 DEF Start, StartApply, StartRecover, MayStart

\* Three actions change the lock; of the others one decides to remove it.
LEMMA LockStays ==
    ASSUME TypeOK, NEW p \in Runs, Act(p), ~CreateLock(p), ~RemoveLock(p), ~Unlock(p)
    PROVE  /\ UNCHANGED <<lock, reclaims>> /\ (Working(p)' => Working(p))
           /\ pc'[p] = "removeLock" => lock \in dead /\ victim'[p] = lock
<1>1. pc \in [Runs -> PCs] /\ victim \in [Runs -> Runs \cup {None}]  BY DEF TypeOK
<1> USE DEF LockFrame, lockVars, Working, At
<1>2. CASE ReadPid(p)
      BY <1>1, <1>2 DEF ReadPid, Refused
<1>3. CASE Start(p) \/ WritePid(p) \/ Kill(p)
      BY <1>1, <1>3 DEF Start, StartApply, StartRecover, WritePid, Kill, Goto
<1>4. CASE Applying(p)
      BY <1>1, <1>4 DEF Applying, BeginApply, WriteJournal, CheckFile, WriteFile, VerifyFile,
                        WriteCommitted, DropJournal, Goto, GotoFile, Finish, Throw
<1>5. CASE Recovering(p)
      BY <1>1, <1>5 DEF Recovering, BeginRecover, Rollback, Restore, Goto, GotoFile, Finish
<1>6. CASE CallFails(p)
      BY <1>1, <1>6 DEF CallFails, Finish, Throw
<1>7. QED  BY <1>2, <1>3, <1>4, <1>5, <1>6 DEF Act, Step, Locking

\* What was reclaimed stays reclaimed.
LEMMA ReclaimsGrow ==
    ASSUME TypeOK, [Next]_vars
    PROVE  \A v \in Runs : reclaims[v] <= reclaims'[v]
<1>1. reclaims \in [Runs -> Nat]  BY DEF TypeOK
<1>2. ASSUME NEW p \in Runs, Act(p) PROVE \A v \in Runs : reclaims[v] <= reclaims'[v]
  <2>1. CASE RemoveLock(p)
        BY <1>1, <2>1 DEF RemoveLock
  <2>2. CASE CreateLock(p) \/ Unlock(p)
        BY <1>1, <2>2 DEF CreateLock, Unlock, LockFrame, lockVars
  <2>3. CASE reclaims' = reclaims
        BY <1>1, <2>3
  <2>4. QED  BY <1>2, <2>1, <2>2, <2>3, LockStays
<1>3. CASE \A p \in Runs : ~Act(p)
      BY <1>1, <1>3, EditsAndStutters DEF lockVars
<1>4. QED  BY <1>2, <1>3

LEMMA OnceBefore ==
    ASSUME TypeOK, TypeOK', [Next]_vars, ReclaimedOnce'
    PROVE  ReclaimedOnce
<1>1. ASSUME NEW v \in Runs PROVE reclaims[v] <= 1
  <2>1. reclaims[v] \in Nat /\ reclaims'[v] \in Nat  BY DEF TypeOK
  <2>2. reclaims[v] <= reclaims'[v] /\ reclaims'[v] <= 1  BY ReclaimsGrow DEF ReclaimedOnce
  <2>3. QED  BY <2>1, <2>2
<1>2. QED  BY <1>1 DEF ReclaimedOnce

\* A run that holds the lock keeps it until it is over, or until somebody takes
\* it for the lock of a dead run that was reclaimed already.
LEMMA WorkKeeps ==
    ASSUME TypeOK, TypeOK', WorkInv, [Next]_vars
    PROVE  WorkInv'
<1>1. CASE \A p \in Runs : ~Act(p)
      BY <1>1, EditsAndStutters DEF WorkInv, Working, ReclaimedOnce, runVars, lockVars
<1>2. ASSUME NEW p \in Runs, Act(p) PROVE WorkInv'
  <2>1. regime' = regime
        BY <1>2 DEF Act, Start, StartApply, StartRecover, Step, Locking, CreateLock, WritePid,
              ReadPid,
              RemoveLock, Unlock, Applying, BeginApply, WriteJournal, CheckFile, WriteFile, VerifyFile,
              WriteCommitted, DropJournal, Recovering, BeginRecover, Rollback, Restore, Kill, CallFails,
              Quiet, boundVars
  <2>2. dead' = dead \/ Kill(p)
        BY <1>2 DEF Act, Start, StartApply, StartRecover, Step, Locking, CreateLock, WritePid,
              ReadPid,
              RemoveLock, Unlock, Applying, BeginApply, WriteJournal, CheckFile, WriteFile, VerifyFile,
              WriteCommitted, DropJournal, Recovering, BeginRecover, Rollback, Restore, CallFails,
              Quiet, boundVars
  <2>3. \A q \in Runs \ {p} : pc'[q] = pc[q] /\ victim'[q] = victim[q]  BY <1>2, OthersStay
  <2>4. /\ pc \in [Runs -> PCs] /\ lock \in Runs \cup {None} /\ None \notin Runs /\ dead \subseteq Runs
        /\ reclaims \in [Runs -> Nat] /\ victim \in [Runs -> Runs \cup {None}]
        /\ reclaims' \in [Runs -> Nat]
        BY NoneAssumption DEF TypeOK
  <2>5. /\ \A q \in dead : pc[q] = "dead"
        /\ \A v \in Runs : reclaims[v] > 0 => v \in dead /\ lock # v
        /\ \A q \in Runs : pc[q] = "removeLock" => victim[q] \in dead
        BY DEF WorkInv
  <2>6. pc[p] # "dead" /\ p \notin dead
        BY <1>2, <2>5, OverStarts DEF Over
  <2>7. dead \subseteq dead' /\ \A q \in dead' : pc'[q] = "dead"
    <3>1. CASE Kill(p)
          BY <2>3, <2>4, <2>5, <3>1 DEF Kill, Goto
    <3>2. CASE dead' = dead
          BY <2>3, <2>4, <2>5, <2>6, <3>2
    <3>3. QED  BY <2>2, <3>1, <3>2
  <2>8. ~regime.together => \A q, r \in Runs : q # r => pc'[q] \in Over \/ pc'[r] \in Over
    <3>1. ~regime.together => \A q, r \in Runs : q # r => pc[q] \in Over \/ pc[r] \in Over
          BY DEF WorkInv
    <3>2. ASSUME ~regime.together, NEW q \in Runs \ {p} PROVE pc[q] \in Over
      <4>1. CASE pc[p] \in Over
            BY <1>2, <3>2, <4>1, OverStarts DEF Start, StartApply, StartRecover, MayStart, Over
      <4>2. QED  BY <3>1, <3>2, <4>1
    <3>3. QED  BY <2>3, <3>2
  <2>9. \A v \in Runs : reclaims'[v] > 0 => v \in dead' /\ lock' # v
    <3>1. CASE CreateLock(p)
          BY <2>4, <2>5, <2>6, <2>7, <3>1 DEF CreateLock, LockFrame, lockVars
    <3>2. CASE RemoveLock(p)
          BY <2>4, <2>5, <2>7, <3>2 DEF RemoveLock, At
    <3>3. CASE Unlock(p)
          BY <2>4, <2>5, <2>7, <3>3 DEF Unlock
    <3>4. CASE UNCHANGED <<lock, reclaims>>
          BY <2>5, <2>7, <3>4
    <3>5. QED  BY <1>2, <3>1, <3>2, <3>3, <3>4, LockStays
  <2>10. pc'[p] = "removeLock" => UNCHANGED <<lock, reclaims>> /\ lock \in dead /\ victim'[p] = lock
    <3>1. ~(CreateLock(p) /\ pc'[p] = "removeLock")
          BY <2>4 DEF CreateLock, Goto, Refused
    <3>2. ~(RemoveLock(p) /\ pc'[p] = "removeLock") /\ ~(Unlock(p) /\ pc'[p] = "removeLock")
          BY <2>4 DEF RemoveLock, Unlock, Goto
    <3>3. QED  BY <1>2, <3>1, <3>2, LockStays
  <2>11. \A q \in Runs : pc'[q] = "removeLock" => victim'[q] \in dead'
         BY <2>3, <2>5, <2>7, <2>10
  <2>12. ~regime.together =>
            ReclaimedOnce' /\ \A q \in Runs : pc'[q] = "removeLock" => lock' = victim'[q]
    <3>1. SUFFICES ASSUME ~regime.together
                   PROVE  /\ ReclaimedOnce'
                          /\ \A q \in Runs : pc'[q] = "removeLock" => lock' = victim'[q]
          OBVIOUS
    <3>2. ReclaimedOnce /\ \A q \in Runs : pc[q] = "removeLock" => lock = victim[q]
          BY <3>1 DEF WorkInv
    <3>3. ReclaimedOnce'
      <4>1. CASE RemoveLock(p)
        <5>1. lock = victim[p] /\ victim[p] \in dead  BY <2>5, <3>2, <4>1 DEF RemoveLock, At
        <5>2. reclaims[victim[p]] = 0  BY <2>4, <2>5, <5>1
        <5>3. reclaims' = [reclaims EXCEPT ![victim[p]] = IF lock = None THEN @ ELSE @ + 1]
              BY <4>1 DEF RemoveLock
        <5>4. QED  BY <2>4, <3>2, <5>1, <5>2, <5>3 DEF ReclaimedOnce
      <4>2. CASE reclaims' = reclaims
            BY <3>2, <4>2 DEF ReclaimedOnce
      <4>3. CASE CreateLock(p) \/ Unlock(p)
            BY <4>2, <4>3 DEF CreateLock, Unlock, LockFrame, lockVars
      <4>4. QED  BY <1>2, <4>1, <4>2, <4>3, LockStays
    <3>4. ASSUME NEW q \in Runs \ {p}, pc'[q] = "removeLock" PROVE FALSE
      <4>1. pc[q] = "removeLock"  BY <2>3, <3>4
      <4>2. pc[p] \in Over  BY <3>1, <4>1 DEF WorkInv, Over
      <4>3. Start(p)  BY <1>2, <4>2, OverStarts
      <4>4. QED
            BY <3>1, <4>1, <4>3 DEF Start, StartApply, StartRecover, MayStart
    <3>5. QED  BY <2>10, <3>3, <3>4
  <2>13. ReclaimedOnce' =>
            /\ \A q \in Runs : Working(q)' => lock' = q
            /\ \A q \in Runs : pc'[q] = "removeLock" => lock' = victim'[q] \/ reclaims'[victim'[q]] > 0
    <3>1. SUFFICES ASSUME ReclaimedOnce'
                   PROVE  /\ \A q \in Runs : Working(q)' => lock' = q
                          /\ \A q \in Runs : pc'[q] = "removeLock" =>
                                lock' = victim'[q] \/ reclaims'[victim'[q]] > 0
          OBVIOUS
    <3>2. ReclaimedOnce  BY <3>1, OnceBefore
    <3>3. /\ \A q \in Runs : Working(q) => lock = q
          /\ \A q \in Runs : pc[q] = "removeLock" => lock = victim[q] \/ reclaims[victim[q]] > 0
          BY <3>2 DEF WorkInv
    <3>4. CASE UNCHANGED <<lock, reclaims>> /\ (Working(p)' => Working(p))
      <4>1. \A q \in Runs : Working(q)' => lock' = q
            BY <2>3, <3>3, <3>4 DEF Working
      <4>2. QED  BY <2>3, <2>10, <3>3, <3>4, <4>1
    <3>5. CASE CreateLock(p)
      <4>1. CASE lock = None /\ lock' = p /\ reclaims' = reclaims /\ pc'[p] # "removeLock"
        <5>1. \A q \in Runs : ~Working(q)  BY <2>4, <3>3, <4>1
        <5>2. \A q \in Runs \ {p} : ~Working(q)'  BY <2>3, <5>1 DEF Working
        <5>3. \A q \in Runs : pc[q] = "removeLock" => reclaims[victim[q]] > 0
              BY <2>4, <2>5, <3>3, <4>1
        <5>4. QED  BY <2>3, <4>1, <5>2, <5>3
      <4>2. CASE UNCHANGED <<lock, reclaims>> /\ ~Working(p)' /\ pc'[p] # "removeLock"
            BY <3>4, <4>2
      <4>3. QED
            BY <2>4, <3>5, <4>1, <4>2 DEF CreateLock, Goto, Refused, LockFrame, lockVars, Working
    <3>6. CASE RemoveLock(p)
      <4>1. /\ pc[p] = "removeLock" /\ lock' = None /\ pc'[p] = "lock" /\ victim[p] \in dead
            /\ reclaims' = [reclaims EXCEPT ![victim[p]] = IF lock = None THEN @ ELSE @ + 1]
            BY <2>4, <2>5, <3>6 DEF RemoveLock, At
      <4>2. lock # None => lock = victim[p] /\ reclaims'[victim[p]] > 0
        <5>1. SUFFICES ASSUME lock # None PROVE lock = victim[p] /\ reclaims'[victim[p]] > 0
              OBVIOUS
        <5>2. reclaims'[victim[p]] = reclaims[victim[p]] + 1  BY <2>4, <4>1, <5>1
        <5>3. reclaims'[victim[p]] <= 1 /\ reclaims[victim[p]] \in Nat
              BY <2>4, <3>1, <4>1 DEF ReclaimedOnce
        <5>4. QED  BY <3>3, <4>1, <5>2, <5>3
      <4>3. \A q \in Runs : ~Working(q)
        <5>1. ASSUME NEW q \in Runs, Working(q) PROVE FALSE
          <6>1. lock = q /\ lock # None  BY <2>4, <3>3, <5>1
          <6>2. pc[q] = "dead"  BY <2>5, <4>1, <4>2, <6>1
          <6>3. QED  BY <5>1, <6>2 DEF Working
        <5>2. QED  BY <5>1
      <4>4. \A q \in Runs : ~Working(q)'  BY <2>3, <4>1, <4>3 DEF Working
      <4>5. ASSUME NEW q \in Runs \ {p}, pc'[q] = "removeLock"
            PROVE  reclaims'[victim'[q]] > 0
        <5>1. pc[q] = "removeLock" /\ victim'[q] = victim[q] /\ victim[q] \in dead
              BY <2>3, <2>5, <4>5
        <5>2. CASE lock = victim[q]
              BY <2>4, <4>2, <5>1, <5>2
        <5>3. CASE reclaims[victim[q]] > 0
          <6>1. reclaims[victim[q]] <= reclaims'[victim[q]]  BY <2>4, <5>1, ReclaimsGrow
          <6>2. QED  BY <2>4, <5>1, <5>3, <6>1
        <5>4. QED  BY <3>3, <5>1, <5>2, <5>3
      <4>6. QED  BY <4>1, <4>4, <4>5
    <3>7. CASE Unlock(p)
      <4>1. pc[p] = "unlock" /\ pc'[p] = "done" /\ reclaims' = reclaims /\ lock' = None
            BY <2>4, <3>7 DEF Unlock, At, Goto
      <4>2. lock = p  BY <3>3, <4>1 DEF Working
      <4>3. \A q \in Runs \ {p} : ~Working(q)  BY <3>3, <4>2
      <4>4. \A q \in Runs : ~Working(q)'  BY <2>3, <4>1, <4>3 DEF Working
      <4>5. \A q \in Runs : pc[q] = "removeLock" => reclaims[victim[q]] > 0
            BY <2>5, <2>6, <3>3, <4>2
      <4>6. QED  BY <2>3, <4>1, <4>4, <4>5
    <3>8. QED  BY <1>2, <3>4, <3>5, <3>6, <3>7, LockStays
  <2>14. regime' \in Regimes  BY <2>1 DEF WorkInv
  <2>15. QED
        BY <2>1, <2>7, <2>8, <2>9, <2>11, <2>12, <2>13, <2>14 DEF WorkInv
<1>3. QED  BY <1>1, <1>2

\* Whoever works, works alone.
LEMMA WorksAlone ==
    ASSUME WorkInv, ReclaimedOnce, NEW p \in Runs, NEW q \in Runs, Working(p), Working(q)
    PROVE  p = q
BY DEF WorkInv

-------------------------------------------------------------------------------
(* The files, and how far a run has come with them.                           *)

Journaling == {"check", "write", "verify", "commit", "rollback", "restore"}

\* The entries of the journal are p's plan.
Matches(p) ==
    \A f \in Files :
        IF f \in plan[p].files THEN before[f] = plan[p].old[f] /\ after[f] = plan[p].new[f]
                               ELSE before[f] = after[f]

\* What is on the disk, whoever has been killed.
FilesInv ==
    /\ journal = "committed" => installed
    /\ journal = "active" => ~installed
    /\ acked => installed
    /\ \A f \in Files \ touched : file[f] \in {before[f], after[f]}
    /\ journal # "active" => \A f \in Files \ touched : file[f] = Decided(f)

\* What the run that works knows of it.
Call(p) ==
    /\ pc[p] \in Journaling => journal = "active" /\ Matches(p)
    /\ pc[p] \in {"check", "write"} =>
          \A f \in Files \ touched : file[f] = IF f < k[p] THEN after[f] ELSE before[f]
    /\ pc[p] = "verify" =>
          \A f \in Files \ touched : file[f] = IF f <= k[p] THEN after[f] ELSE before[f]
    /\ pc[p] = "commit" => \A f \in Files \ touched : file[f] = after[f]
    /\ pc[p] \in {"rollback", "restore"} => \A f \in Files \ touched : f > k[p] => file[f] = before[f]
    /\ pc[p] = "dropJournal" =>
          \/ journal = "committed" /\ mode[p] # "inline"
          \/ journal = "active" /\ mode[p] # "apply" /\ \A f \in Files \ touched : file[f] = before[f]
    /\ pc[p] \in Journaling \cup {"dropJournal"} /\ mode[p] # "recover" => ~acked
    /\ pc[p] = "unlock" /\ result[p] = "ambiguous" => journal = "active"

CallInv == \A p \in Runs : Call(p)

\* A run that does not hold the lock touches nothing.
LEMMA IdlersLeaveTheDisk ==
    ASSUME NEW p \in Runs, Act(p), ~Working(p)
    PROVE  UNCHANGED <<diskVars, historyVars>>
<1>1. ~Applying(p) /\ ~Recovering(p) /\ ~CallFails(p)
      BY DEF Applying, BeginApply, WriteJournal, CheckFile, WriteFile, VerifyFile, WriteCommitted,
             DropJournal, Recovering, BeginRecover, Rollback, Restore, CallFails, At, Working
<1>2. QED
      BY <1>1 DEF Act, Step, Start, StartApply, StartRecover, Locking, CreateLock, WritePid,
            ReadPid,
                  RemoveLock, Unlock, Kill, DiskFrame, Quiet

\* What the other runs know stays true.
LEMMA OthersKnow ==
    ASSUME TypeOK, WorkInv, ReclaimedOnce, CallInv, NEW p \in Runs, Act(p), NEW q \in Runs \ {p}
    PROVE  Call(q)'
<1>1. /\ pc'[q] = pc[q] /\ mode'[q] = mode[q] /\ plan'[q] = plan[q] /\ k'[q] = k[q]
      /\ result'[q] = result[q]
      BY OthersStay
<1>2. CASE Working(q)
  <2>1. UNCHANGED <<file, journal, before, after, touched, acked>>
        BY <1>2, WorksAlone, IdlersLeaveTheDisk DEF diskVars, historyVars
  <2>2. QED  BY <1>1, <2>1 DEF CallInv, Call, Matches
<1>3. CASE ~Working(q)
      BY <1>1, <1>3 DEF Call, Working, Journaling
<1>4. QED  BY <1>2, <1>3

\* Steps that leave the disk alone.
LEMMA FilesStay ==
    ASSUME FilesInv, UNCHANGED <<diskVars, historyVars>>
    PROVE  FilesInv'
BY DEF FilesInv, Decided, diskVars, historyVars

LEMMA LockingIsQuiet ==
    ASSUME TypeOK, NEW p \in Runs, Start(p) \/ Locking(p) \/ Kill(p)
    PROVE  /\ UNCHANGED <<diskVars, historyVars>>
           /\ pc'[p] \notin Journaling \cup {"dropJournal", "unlock"}
<1>1. UNCHANGED <<diskVars, historyVars>>
      BY DEF Start, StartApply, StartRecover, Locking, CreateLock, WritePid, ReadPid, RemoveLock,
            Unlock,
             Kill, DiskFrame, Quiet
<1>2. pc'[p] \notin Journaling \cup {"dropJournal", "unlock"}
      BY DEF Start, StartApply, StartRecover, Locking, CreateLock, WritePid, ReadPid, RemoveLock,
            Unlock,
             Kill, Goto, Refused, Journaling, TypeOK
<1>3. QED  BY <1>1, <1>2

LEMMA LockingKnows ==
    ASSUME TypeOK, NEW p \in Runs, Call(p), Start(p) \/ Locking(p) \/ Kill(p)
    PROVE  Call(p)' /\ UNCHANGED <<diskVars, historyVars>>
BY LockingIsQuiet DEF Call, Journaling

\* What p's actions start from.
LEMMA Facts ==
    ASSUME TypeOK, PlaceInv, NEW p \in Runs
    PROVE  /\ pc \in [Runs -> PCs] /\ mode \in [Runs -> {"apply", "inline", "recover"}]
           /\ plan \in [Runs -> Plan] /\ k \in [Runs -> 0 .. NumFiles + 1] /\ k[p] \in Nat
           /\ result \in [Runs -> {"none", "installed", "failed", "ambiguous", "rolledBack", "cleanedUp"}]
           /\ NumFiles \in Nat /\ Files \subseteq Nat /\ \A f \in Files : f >= 1 /\ f <= NumFiles
           /\ plan[p].files \subseteq Files
           /\ file \in [Files -> Contents] /\ touched \subseteq Files
           /\ journal \in {"none", "active", "committed"}
BY FilesAssumption DEF TypeOK, Plan, Files

LEMMA JournalKnows ==
    ASSUME TypeOK, PlaceInv, FilesInv, NEW p \in Runs, Call(p), pc[p] = "journal",
           WritesJournal(p), pc'[p] \in {"check", "unlock"},
           pc'[p] = "check" => k'[p] = 1, UNCHANGED <<plan, mode>>
    PROVE  FilesInv' /\ Call(p)'
<1>1. /\ \A f \in Files : before'[f] = IF f \in plan[p].files THEN plan[p].old[f] ELSE file[f]
      /\ \A f \in Files : after'[f] = IF f \in plan[p].files THEN plan[p].new[f] ELSE file[f]
      /\ touched' = {f \in plan[p].files : file[f] # plan[p].old[f]}
      /\ journal' = "active" /\ ~installed' /\ ~acked' /\ file' = file
      BY DEF WritesJournal, Entries
<1>2. plan[p].files \subseteq Files /\ Files \subseteq Nat /\ \A f \in Files : ~(f < 1)
      BY Facts
<1>3. \A f \in Files \ touched' : file'[f] = before'[f]  BY <1>1
<1>4. FilesInv'  BY <1>1, <1>3 DEF FilesInv
<1>5. Matches(p)'  BY <1>1 DEF Matches
<1>6. Call(p)'  BY <1>1, <1>2, <1>3, <1>5 DEF Call, Journaling
<1>7. QED  BY <1>4, <1>6

LEMMA ApplyingKnows ==
    ASSUME TypeOK, PlaceInv, FilesInv, NEW p \in Runs, Call(p), Applying(p)
    PROVE  FilesInv' /\ Call(p)'
<1> USE DEF Goto, GotoFile, Finish, Throw, At
<1>1. CASE BeginApply(p)
  <2>1. UNCHANGED <<diskVars, historyVars>>  BY <1>1 DEF BeginApply, DiskFrame, Quiet
  <2>2. Call(p)'  BY <1>1, <2>1, Facts DEF BeginApply, Call, Journaling
  <2>3. QED  BY <2>1, <2>2, FilesStay
<1>2. CASE WriteJournal(p)
  <2>1. /\ pc[p] = "journal" /\ WritesJournal(p) /\ pc'[p] = "check" /\ k'[p] = 1
        /\ UNCHANGED <<plan, mode>>
        BY <1>2, Facts DEF WriteJournal
  <2>2. QED  BY <2>1, JournalKnows
<1>3. CASE CheckFile(p)
  <2>1. UNCHANGED <<diskVars, historyVars>>  BY <1>3 DEF CheckFile, DiskFrame, Quiet
  <2>2. /\ journal = "active" /\ Matches(p) /\ ~acked /\ mode[p] = "apply" /\ k[p] >= 1
        /\ \A f \in Files \ touched : file[f] = IF f < k[p] THEN after[f] ELSE before[f]
        BY <1>3 DEF CheckFile, Call, Journaling, PlaceInv
  <2>3. /\ journal' = "active" /\ ~acked' /\ plan' = plan
        /\ UNCHANGED <<file, journal, before, after, touched>>
        BY <1>3, <2>1, <2>2 DEF CheckFile, diskVars, historyVars
  <2>4. Matches(p)'  BY <2>2, <2>3 DEF Matches
  <2>5. CASE k[p] > NumFiles /\ Goto(p, "commit")
    <3>1. pc'[p] = "commit"  BY <2>5, Facts
    <3>2. \A f \in Files \ touched : file[f] = after[f]  BY <2>2, <2>5, Facts
    <3>3. QED  BY <2>1, <2>3, <2>4, <3>1, <3>2, FilesStay DEF Call
  <2>6. CASE k[p] \in Files \ plan[p].files /\ GotoFile(p, "check", k[p] + 1)
    <3>1. pc'[p] = "check" /\ k'[p] = k[p] + 1  BY <2>6, Facts
    <3>2. \A f \in Files \ touched : file[f] = IF f < k[p] + 1 THEN after[f] ELSE before[f]
      <4>1. \A f \in Files : f < k[p] + 1 <=> f < k[p] \/ f = k[p]  BY Facts
      <4>2. before[k[p]] = after[k[p]]  BY <2>2, <2>6 DEF Matches
      <4>3. QED  BY <2>2, <4>1, <4>2
    <3>3. QED  BY <2>1, <2>3, <2>4, <3>1, <3>2, FilesStay DEF Call
  <2>7. CASE Goto(p, "write")
    <3>1. pc'[p] = "write" /\ k'[p] = k[p]  BY <2>7, Facts
    <3>2. QED  BY <2>1, <2>2, <2>3, <2>4, <3>1, FilesStay DEF Call
  <2>8. CASE Throw(p)
    <3>1. pc'[p] = "rollback" /\ k'[p] = NumFiles  BY <2>2, <2>8, Facts
    <3>2. \A f \in Files : ~(f > NumFiles)  BY Facts
    <3>3. QED  BY <2>1, <2>3, <2>4, <3>1, <3>2, FilesStay DEF Call
  <2>9. QED  BY <1>3, <2>5, <2>6, <2>7, <2>8 DEF CheckFile
<1>4. CASE WriteFile(p)
  <2>1. /\ journal = "active" /\ Matches(p) /\ ~acked /\ k[p] \in plan[p].files
        /\ \A f \in Files \ touched : file[f] = IF f < k[p] THEN after[f] ELSE before[f]
        BY <1>4 DEF WriteFile, Call, Journaling, PlaceInv
  <2>2. /\ UNCHANGED <<journal, before, after, installed, acked, touched, plan, k>>
        /\ pc'[p] = "verify" /\ file' = [file EXCEPT ![k[p]] = plan[p].new[k[p]]]
        BY <1>4, Facts DEF WriteFile, JournalFrame, Quiet, historyVars
  <2>3. Matches(p)' /\ plan[p].new[k[p]] = after[k[p]]  BY <2>1, <2>2, Facts DEF Matches
  <2>4. \A f \in Files : /\ f < k[p] => f # k[p] /\ f <= k[p]
                         /\ f <= k[p] /\ f # k[p] => f < k[p]
        BY Facts
  <2>5. \A f \in Files \ touched : file'[f] = IF f <= k[p] THEN after[f] ELSE before[f]
        BY <2>1, <2>2, <2>3, <2>4, Facts
  <2>6. FilesInv'  BY <2>1, <2>2, <2>5 DEF FilesInv
  <2>7. QED  BY <2>1, <2>2, <2>3, <2>5, <2>6 DEF Call
<1>5. CASE VerifyFile(p)
  <2>1. UNCHANGED <<diskVars, historyVars>>  BY <1>5 DEF VerifyFile, DiskFrame, Quiet
  <2>2. /\ journal = "active" /\ Matches(p) /\ ~acked /\ mode[p] = "apply"
        /\ \A f \in Files \ touched : file[f] = IF f <= k[p] THEN after[f] ELSE before[f]
        BY <1>5 DEF VerifyFile, Call, Journaling, PlaceInv
  <2>3. /\ journal' = "active" /\ ~acked' /\ plan' = plan
        /\ UNCHANGED <<file, journal, before, after, touched>>
        BY <1>5, <2>1, <2>2 DEF VerifyFile, diskVars, historyVars
  <2>4. Matches(p)'  BY <2>2, <2>3 DEF Matches
  <2>5. CASE GotoFile(p, "check", k[p] + 1)
    <3>1. pc'[p] = "check" /\ k'[p] = k[p] + 1  BY <2>5, Facts
    <3>2. \A f \in Files : f < k[p] + 1 <=> f <= k[p]  BY Facts
    <3>3. QED  BY <2>1, <2>2, <2>3, <2>4, <3>1, <3>2, FilesStay DEF Call
  <2>6. CASE Throw(p)
    <3>1. pc'[p] = "rollback" /\ k'[p] = NumFiles  BY <2>2, <2>6, Facts
    <3>2. \A f \in Files : ~(f > NumFiles)  BY Facts
    <3>3. QED  BY <2>1, <2>3, <2>4, <3>1, <3>2, FilesStay DEF Call
  <2>7. QED  BY <1>5, <2>5, <2>6 DEF VerifyFile
<1>6. CASE WriteCommitted(p)
  <2>1. /\ Matches(p) /\ ~acked /\ mode[p] = "apply"
        /\ \A f \in Files \ touched : file[f] = after[f]
        BY <1>6 DEF WriteCommitted, Call, Journaling, PlaceInv
  <2>2. /\ UNCHANGED <<file, acked, touched, mode>> /\ journal' = "committed" /\ installed' = TRUE
        /\ pc'[p] = "dropJournal"
        BY <1>6, Facts DEF WriteCommitted, WritesCommitted
  <2>3. \A f \in Files : after'[f] = after[f] /\ before'[f] = before[f]
        BY <1>6, <2>1 DEF WriteCommitted, WritesCommitted, Entries, Matches
  <2>4. FilesInv'  BY <2>1, <2>2, <2>3, Facts DEF FilesInv, Decided
  <2>5. Call(p)'  BY <2>1, <2>2 DEF Call, Journaling
  <2>6. QED  BY <2>4, <2>5
<1>7. CASE DropJournal(p)
  <2>1. /\ UNCHANGED <<file, before, after, touched>> /\ journal' = "none"
        /\ installed' = (installed /\ mode[p] # "inline") /\ pc'[p] = "unlock"
        /\ mode[p] = "apply" \/ acked' = acked
        BY <1>7, Facts DEF DropJournal
  <2>2. result'[p] # "ambiguous"  BY <1>7, Facts DEF DropJournal
  <2>3. Call(p)'  BY <2>1, <2>2 DEF Call, Journaling
  <2>4. pc[p] = "dropJournal"  BY <1>7 DEF DropJournal
  <2>5. CASE journal = "committed" /\ mode[p] # "inline"
    <3>1. installed /\ installed' /\ \A f \in Files \ touched : file[f] = after[f]
          BY <2>1, <2>5 DEF FilesInv, Decided
    <3>2. FilesInv'  BY <2>1, <3>1 DEF FilesInv, Decided
    <3>3. QED  BY <2>3, <3>2
  <2>6. CASE journal = "active" /\ mode[p] # "apply" /\ \A f \in Files \ touched : file[f] = before[f]
    <3>1. ~installed /\ ~installed' /\ ~acked /\ mode[p] # "apply"  BY <2>1, <2>6 DEF FilesInv
    <3>2. FilesInv'  BY <2>1, <2>6, <3>1 DEF FilesInv, Decided
    <3>3. QED  BY <2>3, <3>2
  <2>7. QED  BY <2>3, <2>4, <2>5, <2>6 DEF Call
<1>8. QED  BY <1>1, <1>2, <1>3, <1>4, <1>5, <1>6, <1>7 DEF Applying

LEMMA RecoveringKnows ==
    ASSUME TypeOK, PlaceInv, FilesInv, NEW p \in Runs, Call(p), Recovering(p)
    PROVE  FilesInv' /\ Call(p)'
<1> USE DEF Goto, GotoFile, Finish, At
<1>1. CASE BeginRecover(p)
  <2>1. UNCHANGED <<diskVars, historyVars>>  BY <1>1 DEF BeginRecover, DiskFrame, Quiet
  <2>2. UNCHANGED <<file, journal, before, after, touched>> /\ mode[p] = "recover" /\ mode' = mode
        BY <1>1, <2>1 DEF BeginRecover, diskVars, historyVars
  <2>3. CASE journal = "none" /\ Finish(p, "none")
    <3>1. pc'[p] = "unlock" /\ result'[p] = "none"  BY <2>3, Facts
    <3>2. QED  BY <2>1, <2>2, <3>1, FilesStay DEF Call, Journaling
  <2>4. CASE journal = "committed" /\ Goto(p, "dropJournal")
    <3>1. pc'[p] = "dropJournal"  BY <2>4, Facts
    <3>2. QED  BY <2>1, <2>2, <2>4, <3>1, FilesStay DEF Call, Journaling
  <2>5. CASE journal = "active" /\ pc' = [pc EXCEPT ![p] = "rollback"] /\ k' = [k EXCEPT ![p] = NumFiles]
    <3>1. /\ plan'[p].old = before /\ plan'[p].new = after
          /\ plan'[p].files = {f \in Files : before[f] # after[f]}
          BY <1>1, <2>5, Facts DEF BeginRecover
    <3>2. Matches(p)'  BY <2>2, <3>1 DEF Matches
    <3>3. pc'[p] = "rollback" /\ k'[p] = NumFiles  BY <2>5, Facts
    <3>4. \A f \in Files : ~(f > NumFiles)  BY Facts
    <3>5. QED  BY <2>1, <2>2, <2>5, <3>2, <3>3, <3>4, FilesStay DEF Call, Journaling
  <2>6. QED  BY <1>1, <2>3, <2>4, <2>5 DEF BeginRecover
<1>2. CASE Rollback(p)
  <2>1. UNCHANGED <<diskVars, historyVars>>  BY <1>2 DEF Rollback, DiskFrame, Quiet
  <2>2. /\ journal = "active" /\ Matches(p) /\ mode[p] # "apply" /\ (mode[p] # "recover" => ~acked)
        /\ \A f \in Files \ touched : f > k[p] => file[f] = before[f]
        BY <1>2 DEF Rollback, Call, Journaling, PlaceInv
  <2>3. UNCHANGED <<file, journal, before, after, touched, acked, plan, mode>>
        BY <1>2, <2>1 DEF Rollback, diskVars, historyVars
  <2>4. Matches(p)'  BY <2>2, <2>3 DEF Matches
  <2>5. CASE k[p] = 0 /\ Goto(p, "dropJournal")
    <3>1. pc'[p] = "dropJournal"  BY <2>5, Facts
    <3>2. \A f \in Files \ touched : file[f] = before[f]
      <4>1. \A f \in Files : f > 0  BY Facts
      <4>2. QED  BY <2>2, <2>5, <4>1
    <3>3. QED  BY <2>1, <2>2, <2>3, <3>1, <3>2, FilesStay DEF Call, Journaling
  <2>6. CASE GotoFile(p, "rollback", k[p] - 1) /\ k[p] \in Files
             /\ (k[p] \notin plan[p].files \/ file[k[p]] = plan[p].old[k[p]])
    <3>1. pc'[p] = "rollback" /\ k'[p] = k[p] - 1  BY <2>6, Facts
    <3>2. \A f \in Files : f > k[p] - 1 => f > k[p] \/ f = k[p]  BY Facts
    <3>3. k[p] \notin touched => file[k[p]] = before[k[p]]
          BY <2>2, <2>6 DEF Matches, FilesInv
    <3>4. \A f \in Files \ touched : f > k[p] - 1 => file[f] = before[f]  BY <2>2, <3>2, <3>3
    <3>5. QED  BY <2>1, <2>2, <2>3, <2>4, <3>1, <3>4, FilesStay DEF Call
  <2>7. CASE Goto(p, "restore")
    <3>1. pc'[p] = "restore" /\ k'[p] = k[p]  BY <2>7, Facts
    <3>2. QED  BY <2>1, <2>2, <2>3, <2>4, <3>1, FilesStay DEF Call
  <2>8. CASE Finish(p, "ambiguous")
    <3>1. pc'[p] = "unlock"  BY <2>8, Facts
    <3>2. QED  BY <2>1, <2>2, <2>3, <3>1, FilesStay DEF Call, Journaling
  <2>9. QED
        BY <1>2, <2>5, <2>6, <2>7, <2>8, Facts DEF Rollback
<1>3. CASE Restore(p)
  <2>1. /\ journal = "active" /\ Matches(p) /\ mode[p] # "apply" /\ (mode[p] # "recover" => ~acked)
        /\ \A f \in Files \ touched : f > k[p] => file[f] = before[f]
        /\ k[p] \in plan[p].files
        BY <1>3 DEF Restore, Call, Journaling, PlaceInv
  <2>2. /\ UNCHANGED <<journal, before, after, installed, acked, touched, plan, mode>>
        /\ file' = [file EXCEPT ![k[p]] = plan[p].old[k[p]]]
        /\ pc'[p] = "rollback" /\ k'[p] = k[p] - 1
        BY <1>3, Facts DEF Restore, JournalFrame, Quiet, historyVars
  <2>3. Matches(p)' /\ plan[p].old[k[p]] = before[k[p]]  BY <2>1, <2>2, Facts DEF Matches
  <2>4. \A f \in Files : f > k[p] - 1 => f > k[p] \/ f = k[p]  BY Facts
  <2>5. file'[k[p]] = before[k[p]] /\ \A f \in Files : f # k[p] => file'[f] = file[f]
        BY <2>1, <2>2, <2>3, Facts
  <2>6. \A f \in Files \ touched : f > k[p] - 1 => file'[f] = before[f]  BY <2>1, <2>4, <2>5
  <2>7. FilesInv'  BY <2>1, <2>2, <2>5 DEF FilesInv
  <2>8. QED  BY <2>1, <2>2, <2>3, <2>6, <2>7 DEF Call
<1>4. QED  BY <1>1, <1>2, <1>3 DEF Recovering

LEMMA FailingKnows ==
    ASSUME FailsBeforeCommit, TypeOK, PlaceInv, FilesInv, NEW p \in Runs, Call(p), CallFails(p)
    PROVE  FilesInv' /\ Call(p)'
<1> USE DEF Finish, Throw, At
<1>1. CASE pc[p] = "journal"
  <2>1. pc'[p] = "unlock" /\ result'[p] = "failed" /\ UNCHANGED <<plan, mode>>
        BY <1>1, Facts DEF CallFails
  <2>2. CASE WritesJournal(p)  BY <1>1, <2>1, <2>2, JournalKnows
  <2>3. CASE UNCHANGED <<diskVars, historyVars>>
        BY <2>1, <2>3, FilesStay DEF Call, Journaling
  <2>4. QED  BY <1>1, <2>2, <2>3 DEF CallFails
<1>2. CASE pc[p] = "write"
  <2>1. /\ journal = "active" /\ Matches(p) /\ ~acked /\ k[p] \in plan[p].files /\ mode[p] = "apply"
        BY <1>2 DEF Call, Journaling, PlaceInv
  <2>2. /\ UNCHANGED <<journal, before, after, installed, acked, touched, plan>>
        /\ pc'[p] = "rollback" /\ k'[p] = NumFiles
        /\ file' \in {file, [file EXCEPT ![k[p]] = plan[p].new[k[p]]]}
        BY <1>2, <2>1, Facts DEF CallFails, JournalFrame, historyVars
  <2>3. Matches(p)' /\ plan[p].new[k[p]] = after[k[p]]  BY <2>1, <2>2, Facts DEF Matches
  <2>4. \A f \in Files : file'[f] \in {file[f], after[f]}  BY <2>1, <2>2, <2>3, Facts
  <2>5. FilesInv'  BY <2>1, <2>2, <2>4 DEF FilesInv
  <2>6. \A f \in Files : ~(f > NumFiles)  BY Facts
  <2>7. QED  BY <2>1, <2>2, <2>3, <2>5, <2>6 DEF Call
<1>3. CASE pc[p] = "restore"
  <2>1. /\ journal = "active" /\ Matches(p) /\ k[p] \in plan[p].files /\ mode[p] # "apply"
        BY <1>3 DEF Call, Journaling, PlaceInv
  <2>2. /\ UNCHANGED <<journal, before, after, installed, acked, touched>>
        /\ pc'[p] = "unlock"
        /\ file' \in {file, [file EXCEPT ![k[p]] = plan[p].old[k[p]]]}
        BY <1>3, <2>1, Facts DEF CallFails, JournalFrame, historyVars
  <2>3. plan[p].old[k[p]] = before[k[p]]  BY <2>1, Facts DEF Matches
  <2>4. \A f \in Files : file'[f] \in {file[f], before[f]}  BY <2>1, <2>2, <2>3, Facts
  <2>5. FilesInv'  BY <2>1, <2>2, <2>4 DEF FilesInv
  <2>6. QED  BY <2>1, <2>2, <2>5 DEF Call, Journaling
<1>4. QED  BY <1>1, <1>2, <1>3 DEF CallFails, FailsBeforeCommit

-------------------------------------------------------------------------------
(* The invariant.                                                             *)

Inv == TypeOK /\ PlaceInv /\ WorkInv /\ (ReclaimedOnce => FilesInv /\ CallInv)

LEMMA InitKeeps ==
    ASSUME Init
    PROVE  Inv
<1>1. TypeOK  BY InitTypes
<1>2. \A p \in Runs : pc[p] = "idle"  BY DEF Init
<1>3. PlaceInv  BY <1>2 DEF PlaceInv
<1>4. WorkInv  BY <1>2 DEF Init, WorkInv, Working, ReclaimedOnce, Over
<1>5. FilesInv  BY DEF Init, FilesInv, Decided
<1>6. CallInv  BY <1>2 DEF CallInv, Call, Journaling
<1>7. QED  BY <1>1, <1>3, <1>4, <1>5, <1>6 DEF Inv

LEMMA NextKeeps ==
    ASSUME FailsBeforeCommit, Inv, [Next]_vars
    PROVE  Inv'
<1>1. TypeOK /\ PlaceInv /\ WorkInv  BY DEF Inv
<1>2. TypeOK' /\ PlaceInv' /\ WorkInv'  BY <1>1, NextTypes, PlacesKeep, WorkKeeps
<1>3. SUFFICES ASSUME ReclaimedOnce' PROVE FilesInv' /\ CallInv'
      BY <1>2 DEF Inv
<1>4. ReclaimedOnce /\ FilesInv /\ CallInv  BY <1>1, <1>2, <1>3, OnceBefore DEF Inv
<1>5. ASSUME NEW p \in Runs, Act(p) PROVE FilesInv' /\ CallInv'
  <2>1. Call(p)  BY <1>1, <1>4 DEF CallInv
  <2>2. FilesInv' /\ Call(p)'
        BY <1>1, <1>4, <1>5, <2>1, LockingKnows, ApplyingKnows, RecoveringKnows, FailingKnows, FilesStay
        DEF Act, Step
  <2>3. \A q \in Runs \ {p} : Call(q)'  BY <1>1, <1>4, <1>5, OthersKnow
  <2>4. QED  BY <2>2, <2>3 DEF CallInv
<1>6. ASSUME NEW f \in Files, NEW c \in Contents, OperatorEdit(f, c) PROVE FilesInv' /\ CallInv'
  <2>1. /\ \A g \in Files \ touched' : g \in Files \ touched /\ file'[g] = file[g]
        /\ UNCHANGED <<journal, before, after, installed, acked, runVars>>
        BY <1>1, <1>4, <1>6 DEF OperatorEdit, JournalFrame, TypeOK
  <2>2. FilesInv'  BY <1>1, <1>4, <2>1 DEF FilesInv, Decided
  <2>3. ASSUME NEW p \in Runs PROVE Call(p)'
    <3>1. Call(p)  BY <1>1, <1>4 DEF CallInv
    <3>2. Matches(p) => Matches(p)'  BY <2>1 DEF Matches, runVars
    <3>3. QED  BY <2>1, <3>1, <3>2 DEF Call, runVars
  <2>4. QED  BY <2>2, <2>3 DEF CallInv
<1>7. ASSUME UNCHANGED vars PROVE FilesInv' /\ CallInv'
  <2>1. UNCHANGED <<diskVars, historyVars, runVars>>  BY <1>7 DEF vars
  <2>2. FilesInv'  BY <1>1, <1>4, <2>1, FilesStay
  <2>3. CallInv'
        BY <1>1, <1>4, <2>1 DEF CallInv, Call, Matches, diskVars, historyVars, runVars
  <2>4. QED  BY <2>2, <2>3
<1>8. QED  BY <1>5, <1>6, <1>7 DEF Next, Act

-------------------------------------------------------------------------------
(* What apply returned stays, whatever fails.                                 *)

AckInv ==
    /\ acked => installed
    /\ \A p \in Runs :
          /\ pc[p] \in Journaling \cup {"dropJournal"} /\ mode[p] # "recover" => ~acked
          /\ pc[p] = "dropJournal" /\ mode[p] = "apply" => installed

LEMMA AcksKeep ==
    ASSUME TypeOK, PlaceInv, WorkInv, ReclaimedOnce, AckInv, [Next]_vars
    PROVE  AckInv'
<1> DEFINE Ack(p) ==
        /\ pc[p] \in Journaling \cup {"dropJournal"} /\ mode[p] # "recover" => ~acked
        /\ pc[p] = "dropJournal" /\ mode[p] = "apply" => installed
<1>1. CASE \A p \in Runs : ~Act(p)
      BY <1>1, EditsAndStutters DEF AckInv, runVars
<1>2. ASSUME NEW p \in Runs, Act(p) PROVE AckInv'
  <2>1. Ack(p) /\ (acked => installed)  BY DEF AckInv
  <2>2. (acked' => installed') /\ Ack(p)'
    <3> USE DEF Goto, GotoFile, Finish, Throw, At, Journaling
    <3>1. CASE UNCHANGED historyVars /\ pc'[p] \notin Journaling \cup {"dropJournal"}
          BY <2>1, <3>1 DEF historyVars
    <3>2. CASE Start(p) \/ Locking(p) \/ Kill(p)
      <4>1. UNCHANGED historyVars /\ pc'[p] \notin Journaling \cup {"dropJournal"}
            BY <3>2, LockingIsQuiet
      <4>2. QED  BY <2>1, <4>1 DEF historyVars
    <3>3. CASE BeginApply(p)
          BY <3>1, <3>3, Facts DEF BeginApply, Quiet
    <3>4. CASE WriteJournal(p)
          BY <3>4, Facts DEF WriteJournal, WritesJournal
    <3>5. CASE CheckFile(p) \/ WriteFile(p) \/ VerifyFile(p) \/ Rollback(p) \/ Restore(p)
          BY <2>1, <3>5, Facts
          DEF CheckFile, WriteFile, VerifyFile, Rollback, Restore, Quiet, historyVars, PlaceInv
    <3>6. CASE WriteCommitted(p)
          BY <2>1, <3>6, Facts DEF WriteCommitted, WritesCommitted
    <3>7. CASE DropJournal(p)
      <4>1. pc[p] = "dropJournal" /\ pc'[p] = "unlock"  BY <3>7, Facts DEF DropJournal
      <4>2. installed' = (installed /\ mode[p] # "inline")  BY <3>7 DEF DropJournal
      <4>3. CASE mode[p] = "apply"
            BY <2>1, <4>1, <4>2, <4>3
      <4>4. CASE mode[p] # "apply"
        <5>1. acked' = acked  BY <3>7, <4>4 DEF DropJournal
        <5>2. QED  BY <2>1, <4>1, <4>2, <5>1
      <4>5. QED  BY <4>3, <4>4
    <3>8. CASE BeginRecover(p)
          BY <2>1, <3>8, Facts DEF BeginRecover, Quiet, historyVars
    <3>9. CASE CallFails(p)
      <4>1. CASE At(p, "journal")
            BY <2>1, <3>9, <4>1, Facts DEF CallFails, WritesJournal, historyVars
      <4>2. CASE At(p, "commit")
            BY <2>1, <3>9, <4>2, Facts DEF CallFails, WritesCommitted, historyVars, PlaceInv
      <4>3. CASE At(p, "write") \/ At(p, "dropJournal") \/ At(p, "restore")
            BY <2>1, <3>9, <4>3, Facts DEF CallFails, historyVars, PlaceInv
      <4>4. QED  BY <3>9, <4>1, <4>2, <4>3 DEF CallFails
    <3>10. QED
          BY <1>2, <3>2, <3>3, <3>4, <3>5, <3>6, <3>7, <3>8, <3>9 DEF Act, Step, Applying,
                Recovering
  <2>3. ASSUME NEW q \in Runs \ {p} PROVE Ack(q)'
    <3>1. pc'[q] = pc[q] /\ mode'[q] = mode[q]  BY <1>2, OthersStay
    <3>2. CASE Working(q)
      <4>1. UNCHANGED <<installed, acked>>
            BY <1>2, <3>2, WorksAlone, IdlersLeaveTheDisk DEF historyVars
      <4>2. QED  BY <3>1, <4>1 DEF AckInv
    <3>3. CASE ~Working(q)
          BY <3>1, <3>3 DEF Working, Journaling
    <3>4. QED  BY <3>2, <3>3
  <2>4. QED  BY <2>2, <2>3 DEF AckInv
<1>3. QED  BY <1>1, <1>2

-------------------------------------------------------------------------------
(* Theorems.                                                                  *)

ExclusionInv == TypeOK /\ PlaceInv /\ WorkInv /\ (ReclaimedOnce => AckInv)

LEMMA OneAtMost ==
    ASSUME TypeOK, WorkInv
    PROVE  MutualExclusion
<1>1. CASE ReclaimedOnce
  <2>1. \A p \in {q \in Runs : Working(q)} : p = lock  BY <1>1 DEF WorkInv
  <2>2. {q \in Runs : Working(q)} = {} \/ {q \in Runs : Working(q)} = {lock}  BY <2>1
  <2>3. Cardinality({}) = 0 /\ Cardinality({lock}) = 1  BY FS_EmptySet, FS_Singleton
  <2>4. QED  BY <2>2, <2>3 DEF MutualExclusion
<1>2. CASE ~ReclaimedOnce
  <2>1. regime.together  BY <1>2 DEF WorkInv
  <2>2. PICK v \in Runs : ~(reclaims[v] <= 1)  BY <1>2 DEF ReclaimedOnce
  <2>3. reclaims[v] > 1 /\ reclaims[v] > 0  BY <2>2 DEF TypeOK
  <2>4. v \in dead  BY <2>3 DEF WorkInv
  <2>5. QED  BY <2>1, <2>3, <2>4 DEF MutualExclusion
<1>3. QED  BY <1>1, <1>2

\* With any contention, deaths and failing calls, one run at a time works on the
\* files of a receipt and what an apply has reported as installed stays so, up to
\* the moment the lock of one dead run is reclaimed twice; that takes a death and
\* two runs at once, so that it never comes where one of the two is missing
\* (acquireLock, applyInstallationPlan).
THEOREM RunsInTurn == Spec => []InstallInv
<1>1. Init => ExclusionInv
      BY InitKeeps DEF Inv, ExclusionInv, AckInv, Init, Journaling
<1>2. ExclusionInv /\ [Next]_vars => ExclusionInv'
      BY NextTypes, PlacesKeep, WorkKeeps, AcksKeep, OnceBefore DEF ExclusionInv
<1>3. ExclusionInv => InstallInv
      BY OneAtMost DEF ExclusionInv, InstallInv, AckedIsInstalled, AckInv
<1>4. QED  BY <1>1, <1>2, <1>3, PTL DEF Spec

\* The invariant of histories whose calls fail before the commit mark only.
THEOREM FilesAreDecided ==
    ASSUME FailsBeforeCommit
    PROVE  Spec => []Inv
<1>1. Init => Inv  BY InitKeeps
<1>2. Inv /\ [Next]_vars => Inv'  BY NextKeeps
<1>3. QED  BY <1>1, <1>2, PTL DEF Spec

\* Once no journal is left, the files that no operator edited are all as the
\* last plan wants them or all as it found them, though runs die between any two
\* steps and recoveries with them; and a rollback that met a file it does not
\* know has left the journal (rollbackJournal, recoverInstallation).
THEOREM InstalledEntirely ==
    ASSUME FailsBeforeCommit
    PROVE  Spec => []AllOrNothing
<1>1. Inv => AllOrNothing
  <2>1. ASSUME Inv PROVE AllOrNothing
    <3>1. ReclaimedOnce => FilesInv /\ \A p \in Runs : Call(p)  BY <2>1 DEF Inv, CallInv
    <3>2. QED  BY <3>1 DEF AllOrNothing, FilesInv, Call, At
  <2>2. QED  BY <2>1
<1>2. QED  BY <1>1, FilesAreDecided, PTL

-------------------------------------------------------------------------------
(* The refinement of AtomicBatch, as long as no operator edits a file.        *)

Planning == {"lock", "writePid", "readPid", "removeLock", "begin", "journal"}

\* The request p was started with.
Asks(p, r) == DOMAIN r = plan[p].files /\ \A f \in plan[p].files : plan[p].new[f] = r[f]

\* No file changes under a run that is about to write its journal.
BatchInv ==
    edits = 0 /\ ReclaimedOnce =>
        /\ touched = {}
        /\ \A p \in Runs : pc[p] = "journal" =>
              journal = "none" /\ \A f \in plan[p].files : file[f] = plan[p].old[f]
        /\ \A p \in Runs : pc[p] \in Planning /\ mode[p] = "apply" => \E r \in Requests : Asks(p, r)

\* What a step does to the batch that the disk shows.
Progress(p) ==
    \/ UNCHANGED <<before, after, installed, acked, touched>>
    \/ pc[p] = "journal" /\ WritesJournal(p)
    \/ pc[p] = "commit" /\ WritesCommitted(p)
    \/ DropJournal(p)

LEMMA ActsProgress ==
    ASSUME NEW p \in Runs, Act(p)
    PROVE  Progress(p) /\ edits' = edits
<1> USE DEF Progress, diskVars, historyVars, boundVars, DiskFrame, JournalFrame, Quiet
<1>1. CASE Start(p) \/ Locking(p) \/ Kill(p)
      BY <1>1 DEF Start, StartApply, StartRecover, Locking, CreateLock, WritePid, ReadPid,
            RemoveLock,
                  Unlock, Kill
<1>2. CASE Applying(p)
      BY <1>2 DEF Applying, BeginApply, WriteJournal, CheckFile, WriteFile, VerifyFile,
                  WriteCommitted, DropJournal, At
<1>3. CASE Recovering(p)
      BY <1>3 DEF Recovering, BeginRecover, Rollback, Restore
<1>4. CASE CallFails(p)
      BY <1>4 DEF CallFails, At
<1>5. QED  BY <1>1, <1>2, <1>3, <1>4 DEF Act, Step

LEMMA PlanningKeeps ==
    ASSUME TypeOK, NEW p \in Runs, Act(p), pc'[p] \in Planning, mode'[p] = "apply",
           pc[p] \in Planning /\ mode[p] = "apply" => \E r \in Requests : Asks(p, r)
    PROVE  \E r \in Requests : Asks(p, r)'
<1> USE DEF Goto, GotoFile, Finish, Refused, Throw, At, Planning, TypeOK
<1>1. CASE \E r \in Requests : StartApply(p, r)
  <2>1. PICK r \in Requests : StartApply(p, r)  BY <1>1
  <2>2. DOMAIN r \subseteq Files  BY RequestsAssumption DEF Files
  <2>3. plan'[p].files = DOMAIN r /\ \A f \in DOMAIN r : plan'[p].new[f] = r[f]
        BY <2>1, <2>2 DEF StartApply
  <2>4. QED  BY <2>3 DEF Asks
<1>2. CASE pc[p] \in Planning /\ mode[p] = "apply" /\ plan' = plan
  <2>1. PICK r \in Requests : Asks(p, r)  BY <1>2
  <2>2. QED  BY <1>2, <2>1 DEF Asks
<1>3. CASE StartRecover(p)
      BY <1>3 DEF StartRecover
<1>4. CASE Locking(p)
      BY <1>2, <1>4 DEF Locking, CreateLock, WritePid, ReadPid, RemoveLock, Unlock
<1>5. CASE Applying(p)
      BY <1>2, <1>5 DEF Applying, BeginApply, WriteJournal, CheckFile, WriteFile, VerifyFile,
                  WriteCommitted, DropJournal
<1>6. CASE Recovering(p)
      BY <1>6 DEF Recovering, BeginRecover, Rollback, Restore
<1>7. CASE Kill(p)  BY <1>7 DEF Kill
<1>8. CASE CallFails(p)  BY <1>8 DEF CallFails
<1>9. QED  BY <1>1, <1>3, <1>4, <1>5, <1>6, <1>7, <1>8 DEF Act, Step, Start

\* Only applyInstallationPlan comes to write a journal, after it compared the files.
LEMMA OnlyBeginApplyWrites ==
    ASSUME TypeOK, NEW p \in Runs, Act(p), pc'[p] = "journal"
    PROVE  BeginApply(p) /\ journal = "none" /\ \A f \in plan[p].files : file[f] = plan[p].old[f]
<1> USE DEF Goto, GotoFile, Finish, Refused, Throw, At, TypeOK
<1>1. ~Locking(p)
      BY DEF Locking, CreateLock, WritePid, ReadPid, RemoveLock, Unlock
<1>2. ~Start(p) /\ ~Kill(p) /\ ~CallFails(p)
      BY DEF Start, StartApply, StartRecover, Kill, CallFails
<1>3. ~Recovering(p)
      BY DEF Recovering, BeginRecover, Rollback, Restore
<1>4. BeginApply(p)
      BY <1>1, <1>2, <1>3 DEF Act, Step, Applying, WriteJournal, CheckFile, WriteFile, VerifyFile,
                              WriteCommitted, DropJournal
<1>5. QED  BY <1>4 DEF BeginApply

LEMMA BatchKeeps ==
    ASSUME Inv, BatchInv, [Next]_vars
    PROVE  BatchInv'
<1>1. TypeOK /\ TypeOK' /\ WorkInv  BY NextTypes DEF Inv
<1>2. SUFFICES ASSUME edits' = 0, ReclaimedOnce' PROVE BatchInv'
      BY DEF BatchInv
<1>3. ReclaimedOnce  BY <1>1, <1>2, OnceBefore
<1>4. ASSUME NEW p \in Runs, Act(p) PROVE BatchInv'
  <2>1. Progress(p) /\ edits = 0  BY <1>2, <1>4, ActsProgress
  <2>2. /\ touched = {}
        /\ \A q \in Runs : pc[q] = "journal" =>
              journal = "none" /\ \A f \in plan[q].files : file[f] = plan[q].old[f]
        /\ \A q \in Runs : pc[q] \in Planning /\ mode[q] = "apply" => \E r \in Requests : Asks(q, r)
        BY <1>3, <2>1 DEF BatchInv
  <2>3. touched' = {}
        BY <2>1, <2>2 DEF Progress, WritesJournal, WritesCommitted, DropJournal
  <2>4. ASSUME NEW q \in Runs, pc'[q] = "journal"
        PROVE  journal' = "none" /\ \A f \in plan'[q].files : file'[f] = plan'[q].old[f]
    <3>1. CASE q = p
      <4>1. BeginApply(p) /\ journal = "none" /\ \A f \in plan[p].files : file[f] = plan[p].old[f]
            BY <1>1, <1>4, <2>4, <3>1, OnlyBeginApplyWrites
      <4>2. UNCHANGED <<file, journal, plan>>
            BY <4>1 DEF BeginApply, Goto, Finish, DiskFrame, diskVars
      <4>3. QED  BY <3>1, <4>1, <4>2
    <3>2. CASE q # p
      <4>1. pc[q] = "journal" /\ plan'[q] = plan[q]  BY <1>1, <1>4, <2>4, <3>2, OthersStay
      <4>2. ~Working(p)  BY <1>1, <1>3, <3>2, <4>1, WorksAlone DEF Working
      <4>3. UNCHANGED <<file, journal>>  BY <1>4, <4>2, IdlersLeaveTheDisk DEF diskVars
      <4>4. QED  BY <2>2, <4>1, <4>3
    <3>3. QED  BY <3>1, <3>2
  <2>5. ASSUME NEW q \in Runs, pc'[q] \in Planning, mode'[q] = "apply"
        PROVE  \E r \in Requests : Asks(q, r)'
    <3>1. CASE q = p  BY <1>1, <1>4, <2>2, <2>5, <3>1, PlanningKeeps
    <3>2. CASE q # p
      <4>1. pc'[q] = pc[q] /\ mode'[q] = mode[q] /\ plan'[q] = plan[q]
            BY <1>1, <1>4, <3>2, OthersStay
      <4>2. PICK r \in Requests : Asks(q, r)  BY <2>2, <2>5, <4>1
      <4>3. Asks(q, r)'  BY <4>1, <4>2 DEF Asks
      <4>4. QED  BY <4>3
    <3>3. QED  BY <3>1, <3>2
  <2>6. QED  BY <2>3, <2>4, <2>5 DEF BatchInv
<1>5. ASSUME NEW f \in Files, NEW c \in Contents, OperatorEdit(f, c) PROVE BatchInv'
  <2>1. edits \in Nat /\ edits' = edits + 1  BY <1>1, <1>5 DEF OperatorEdit, TypeOK
  <2>2. QED  BY <1>2, <2>1
<1>6. ASSUME UNCHANGED vars PROVE BatchInv'
      BY <1>6 DEF BatchInv, Asks, ReclaimedOnce, vars, diskVars, lockVars, historyVars, runVars, boundVars
<1>7. QED  BY <1>4, <1>5, <1>6 DEF Next, Act

\* What a reader sees is what the journal and its mark decide.
LEMMA StoreIsDecided ==
    ASSUME FilesInv, touched = {}
    PROVE  \A f \in Files : (IF journal = "none" THEN file[f] ELSE Decided(f)) = Decided(f)
BY DEF FilesInv

LEMMA ProgressRefines ==
    ASSUME Inv, Inv', BatchInv, ReclaimedOnce, ReclaimedOnce', edits = 0, touched' = {},
           NEW p \in Runs, Progress(p)
    PROVE  [Abstract!Next]_(Abstract!batchVars)
<1> DEFINE store == [f \in Files |-> IF journal = "none" THEN file[f] ELSE Decided(f)]
           status == IF acked THEN "returned" ELSE IF installed THEN "committed" ELSE "open"
<1>1. /\ TypeOK /\ TypeOK' /\ PlaceInv /\ FilesInv /\ FilesInv' /\ Call(p) /\ touched = {}
      /\ pc[p] = "journal" =>
            journal = "none" /\ \A f \in plan[p].files : file[f] = plan[p].old[f]
      /\ pc[p] \in Planning /\ mode[p] = "apply" => \E r \in Requests : Asks(p, r)
      BY DEF Inv, CallInv, BatchInv
<1>2. /\ before \in [Files -> Contents] /\ after \in [Files -> Contents]
      /\ before' \in [Files -> Contents] /\ after' \in [Files -> Contents]
      BY <1>1 DEF TypeOK
<1>3. store = [f \in Files |-> Decided(f)]  BY <1>1, StoreIsDecided
<1>4. store' = [f \in Files |-> Decided(f)']
  <2>1. \A f \in Files : (IF journal' = "none" THEN file'[f] ELSE Decided(f)') = Decided(f)'
        BY <1>1 DEF FilesInv
  <2>2. QED  BY <2>1
<1> HIDE DEF store
<1>5. CASE UNCHANGED <<before, after, installed, acked>>
  <2>1. store' = store  BY <1>3, <1>4, <1>5 DEF Decided
  <2>2. QED  BY <1>5, <2>1 DEF Abstract!batchVars, store
<1>6. CASE pc[p] = "journal" /\ WritesJournal(p)
  <2>1. mode[p] = "apply"  BY <1>1, <1>6 DEF PlaceInv
  <2>2. PICK r \in Requests : Asks(p, r)  BY <1>1, <1>6, <2>1 DEF Planning
  <2>3. \A f \in Files : store[f] = file[f]  BY <1>1, <1>6 DEF store
  <2>4. before' = store
    <3>1. \A f \in Files : before'[f] = store[f]  BY <1>1, <1>6, <2>3 DEF WritesJournal, Entries
    <3>2. QED  BY <1>2, <1>3, <3>1
  <2>5. after' = [f \in Files |-> IF f \in DOMAIN r THEN r[f] ELSE store[f]]
    <3>1. \A f \in Files : after'[f] = IF f \in DOMAIN r THEN r[f] ELSE store[f]
          BY <1>6, <2>2, <2>3 DEF WritesJournal, Entries, Asks
    <3>2. QED  BY <1>2, <3>1
  <2>6. ~installed' /\ ~acked'  BY <1>6 DEF WritesJournal
  <2>7. store' = store  BY <1>2, <1>4, <2>4, <2>6 DEF Decided
  <2>8. Abstract!Begin(r)  BY <2>4, <2>5, <2>6, <2>7 DEF Abstract!Begin, store
  <2>9. QED  BY <2>8 DEF Abstract!Next
<1>7. CASE pc[p] = "commit" /\ WritesCommitted(p)
  <2>1. mode[p] = "apply" /\ journal = "active" /\ Matches(p) /\ ~installed /\ ~acked
        BY <1>1, <1>7 DEF PlaceInv, Call, Journaling, FilesInv
  <2>2. installed' /\ ~acked'  BY <1>7, <2>1 DEF WritesCommitted
  <2>3. before' = before /\ after' = after
    <3>1. \A f \in Files : before'[f] = before[f] /\ after'[f] = after[f]
          BY <1>7, <2>1 DEF WritesCommitted, Entries, Matches
    <3>2. QED  BY <1>2, <3>1
  <2>4. store' = after  BY <1>2, <1>4, <2>2, <2>3 DEF Decided
  <2>5. Abstract!Commit  BY <2>1, <2>2, <2>3, <2>4 DEF Abstract!Commit, store
  <2>6. QED  BY <2>5 DEF Abstract!Next
<1>8. CASE DropJournal(p)
  <2>1. /\ pc[p] = "dropJournal" /\ UNCHANGED <<before, after>>
        /\ installed' = (installed /\ mode[p] # "inline")
        BY <1>8 DEF DropJournal, At
  <2>2. CASE mode[p] = "apply"
    <3>1. installed /\ ~acked  BY <1>1, <2>1, <2>2 DEF Call, FilesInv
    <3>2. acked' /\ installed'  BY <1>8, <2>1, <2>2, <3>1 DEF DropJournal
    <3>3. store' = store  BY <1>3, <1>4, <2>1, <3>1, <3>2 DEF Decided
    <3>4. Abstract!Return  BY <2>1, <3>1, <3>2, <3>3 DEF Abstract!Return, store
    <3>5. QED  BY <3>4 DEF Abstract!Next
  <2>3. CASE mode[p] # "apply"
    <3>1. acked' = acked  BY <1>8, <2>3 DEF DropJournal
    <3>2. mode[p] = "inline" => ~installed
          BY <1>1, <2>1 DEF Call, FilesInv
    <3>3. installed \in BOOLEAN /\ installed' \in BOOLEAN  BY <1>1 DEF TypeOK
    <3>4. installed' = installed  BY <2>1, <3>2, <3>3
    <3>5. QED  BY <1>5, <2>1, <3>1, <3>4
  <2>4. QED  BY <2>2, <2>3
<1>9. QED  BY <1>5, <1>6, <1>7, <1>8 DEF Progress

\* As long as no operator edits a planned file, an installation is one step from
\* the files it found to the files it wants: readers who recover first when a
\* journal is left see AtomicBatch (applyInstallationPlan, recoverInstallation).
THEOREM InstallsInOneStep ==
    ASSUME FailsBeforeCommit
    PROVE  Spec => ImplementsAtomicBatch
<1>1. Init => Abstract!Init
  <2>1. SUFFICES ASSUME Init PROVE Abstract!Init  OBVIOUS
  <2>2. file \in Initials /\ journal = "none" /\ before = file /\ after = file /\ ~installed /\ ~acked
        BY <2>1 DEF Init
  <2>3. file = [f \in Files |-> file[f]]  BY <2>2, InitialsAssumption DEF Files
  <2>4. [f \in Files |-> IF journal = "none" THEN file[f] ELSE Decided(f)] = file  BY <2>2, <2>3
  <2>5. QED  BY <2>2, <2>4 DEF Abstract!Init
<1>2. Init => BatchInv
      BY DEF Init, BatchInv, Planning
<1>3. Inv /\ BatchInv /\ [Next]_vars => BatchInv'  BY BatchKeeps
<1>4. (Inv /\ BatchInv) /\ (Inv /\ BatchInv)' /\ [Next]_vars
         => (edits' = 0 /\ ReclaimedOnce' => [Abstract!Next]_(Abstract!batchVars))
  <2>1. SUFFICES ASSUME Inv, BatchInv, Inv', BatchInv', [Next]_vars, edits' = 0, ReclaimedOnce'
                 PROVE  [Abstract!Next]_(Abstract!batchVars)
        OBVIOUS
  <2>2. touched' = {} /\ ReclaimedOnce  BY <2>1, OnceBefore DEF Inv, BatchInv
  <2>3. ASSUME NEW p \in Runs, Act(p) PROVE [Abstract!Next]_(Abstract!batchVars)
    <3>1. Progress(p) /\ edits = 0  BY <2>1, <2>3, ActsProgress
    <3>2. QED  BY <2>1, <2>2, <3>1, ProgressRefines
  <2>4. ASSUME NEW f \in Files, NEW c \in Contents, OperatorEdit(f, c) PROVE FALSE
    <3>1. edits \in Nat /\ edits' = edits + 1  BY <2>1, <2>4 DEF OperatorEdit, Inv, TypeOK
    <3>2. QED  BY <2>1, <3>1
  <2>5. CASE UNCHANGED vars
        BY <2>5 DEF Abstract!batchVars, Decided, vars, diskVars, historyVars
  <2>6. QED  BY <2>1, <2>3, <2>4, <2>5 DEF Next, Act
<1>5. QED  BY <1>1, <1>2, <1>3, <1>4, FilesAreDecided, PTL DEF Spec, ImplementsAtomicBatch

-------------------------------------------------------------------------------
(* The planner.                                                               *)

\* What a compiled asset holds is a content of the model.
BytesAreValues == \A a, s : Bytes(a, s) \in UnitValues

\* A receipt that names exactly what its manifest wants on one of the hosts.
IsOfManifest(r) ==
    \E h \in Hosts : /\ DOMAIN r.entries = Desired(r.manifest, h)
                     /\ \A u \in DOMAIN r.entries : r.entries[u].sum = r.manifest[u[2]]

\* What the unit u held when the plan was made.
Was(pl, u) == IF u[1] \in DOMAIN pl.before THEN Held(pl.before, u) ELSE pl.intends[u]

PlanIsTyped(pl) ==
    /\ IsReceipt(pl.madeFrom) /\ IsReceipt(pl.leaves)
    /\ DOMAIN pl.before = DOMAIN pl.after /\ DOMAIN pl.after \subseteq Containers
    /\ \A c \in DOMAIN pl.after : IsContent(c, pl.after[c])
    /\ \A f \in WholeFiles \cap DOMAIN pl.after : pl.after[f] # Absent => pl.after[f][f] # NoUnit
    /\ DOMAIN pl.intends \subseteq Units /\ pl.approved \subseteq DOMAIN pl.intends /\ pl.dropped \subseteq Units

\* Of the containers that a plan writes, it changes the units that it names.
WritesItsUnits(pl) ==
    \A u \in Units : u[1] \in DOMAIN pl.after =>
        Held(pl.after, u) = IF u \in DOMAIN pl.intends THEN pl.intends[u] ELSE Held(pl.before, u)

\* A unit that no approval covers held what the receipt says, or nothing.
ApprovedOrKnown(pl) ==
    LET from == ReceiptEntries(pl.madeFrom)
    IN  \A u \in DOMAIN pl.intends \ pl.approved : Was(pl, u) = IF u \in DOMAIN from THEN from[u].sum ELSE NoUnit

\* The receipt that a plan leaves says what the plan writes and what it displaces.
LeavesTruth(pl) ==
    LET from == ReceiptEntries(pl.madeFrom)
        to == ReceiptEntries(pl.leaves)
    IN  /\ DOMAIN to \subseteq DOMAIN pl.intends
        /\ DOMAIN from \subseteq DOMAIN pl.intends \cup pl.dropped
        /\ \A u \in DOMAIN to :
              /\ to[u].sum = pl.intends[u]
              /\ to[u].previous = IF u \in DOMAIN from THEN from[u].previous ELSE Was(pl, u)
        /\ \A u \in DOMAIN pl.intends \ DOMAIN to : u \in DOMAIN from /\ pl.intends[u] = from[u].previous

LeavesManifest(pl) == pl.leaves # NoReceipt /\ pl.dropped = {} => IsOfManifest(pl.leaves)

Sound(pl) == PlanIsTyped(pl) /\ WritesItsUnits(pl) /\ ApprovedOrKnown(pl) /\ LeavesTruth(pl) /\ LeavesManifest(pl)

-------------------------------------------------------------------------------
\* Units, what they hold, and receipts.

LEMMA UnitFacts ==
    ASSUME NEW u \in Units
    PROVE  /\ u[1] \in Containers /\ u[2] \in Slots(u[1]) /\ u = <<u[1], u[2]>>
           /\ u[1] \in WholeFiles => u[2] = u[1]
           /\ u[1] \notin WholeFiles => u[1] \in Hosts /\ u[2] \in Keys
BY HostAssumption DEF Units, Containers, Slots

LEMMA EmptyIsPartial == ASSUME NEW S, NEW T PROVE <<>> \in PartialOn(S, T)
<1>1. <<>> \in [{} -> T]
      OBVIOUS
<1>. QED
     BY <1>1 DEF PartialOn

LEMMA PartialFacts ==
    ASSUME NEW S, NEW T, NEW f \in PartialOn(S, T)
    PROVE  DOMAIN f \subseteq S /\ f \in [DOMAIN f -> T]
BY DEF PartialOn

LEMMA ReceiptFacts ==
    ASSUME NEW r, IsReceipt(r)
    PROVE  /\ DOMAIN ReceiptEntries(r) \subseteq Units
           /\ \A u \in DOMAIN ReceiptEntries(r) :
                 ReceiptEntries(r)[u].sum \in UnitValues /\ ReceiptEntries(r)[u].previous \in States
           /\ r # NoReceipt => /\ r = [manifest |-> r.manifest, entries |-> r.entries]
                               /\ r.manifest \in Manifests /\ ReceiptEntries(r) = r.entries
                               /\ r.entries \in PartialOn(Units, [sum : UnitValues, previous : States])
<1>1. CASE r = NoReceipt
      BY <1>1 DEF ReceiptEntries
<1>2. CASE r # NoReceipt
  <2>1. r.entries \in PartialOn(Units, [sum : UnitValues, previous : States])
        BY <1>2 DEF IsReceipt, Receipts
  <2> DEFINE Entry == [sum : UnitValues, previous : States]
  <2>a. DOMAIN r.entries \subseteq Units /\ r.entries \in [DOMAIN r.entries -> Entry]
        <3> HIDE DEF Entry
        <3>. QED
             BY <2>1, PartialFacts DEF Entry
  <2>2. DOMAIN r.entries \subseteq Units /\ \A u \in DOMAIN r.entries : r.entries[u] \in Entry
        <3> HIDE DEF Entry
        <3>. QED
             BY <2>a
  <2>. QED
       BY <1>2, <2>1, <2>2 DEF IsReceipt, Receipts, ReceiptEntries
<1>. QED
     BY <1>1, <1>2

LEMMA HeldIsState ==
    ASSUME NEW contents, NEW u \in Units, IsContent(u[1], contents[u[1]])
    PROVE  Held(contents, u) \in States
BY UnitFacts DEF IsContent, Held, States

\* Held, of one container.
HeldIn(x, s) == IF x = Absent THEN NoUnit ELSE x[s]

\* buildContentMutations changes the units it is asked to, and no other.
LEMMA ContentHolds ==
    ASSUME NEW units \in SUBSET Units, NEW state, \A u \in units : state[u] \in States,
           NEW c, \E v \in units : v[1] = c, NEW old, IsContent(c, old)
    PROVE  /\ IsContent(c, Content(c, units, state, old))
           /\ c \in WholeFiles /\ Content(c, units, state, old) # Absent => Content(c, units, state, old)[c] # NoUnit
           /\ \A u \in Units : u[1] = c =>
                 HeldIn(Content(c, units, state, old), u[2])
                     = IF u \in units THEN state[u] ELSE HeldIn(old, u[2])
<1> DEFINE new == Content(c, units, state, old)
<1>1. PICK v \in units : v[1] = c
      OBVIOUS
<1>2. c \in Containers
      BY <1>1, UnitFacts
<1>3. Absent \notin [Slots(c) -> States]
      BY <1>2, AbsentAssumption
<1>4. CASE c \in WholeFiles
  <2>1. v = <<c, c>> /\ \A u \in Units : u[1] = c => u = <<c, c>> /\ u[2] = c
        BY <1>1, <1>4, UnitFacts
  <2>2. Slots(c) = {c}
        BY <1>4 DEF Slots
  <2>3. CASE state[<<c, c>>] = NoUnit
        BY <1>4, <2>1, <2>3 DEF Content, IsContent, HeldIn
  <2>4. CASE state[<<c, c>>] # NoUnit
    <3>1. new = [s \in {c} |-> state[<<c, c>>]]
          BY <1>4, <2>4 DEF Content
    <3>2. new \in [Slots(c) -> States]
          BY <2>1, <2>2, <3>1
    <3>. QED
         BY <1>3, <2>1, <2>4, <3>1, <3>2 DEF IsContent, HeldIn
  <2>. QED
       BY <2>3, <2>4
<1>5. CASE c \notin WholeFiles
  <2>1. Slots(c) = Keys /\ c \in Hosts
        BY <1>2, <1>5 DEF Slots, Containers
  <2>2. new = [s \in Keys |-> IF <<c, s>> \in units THEN state[<<c, s>>] ELSE IF old = Absent THEN NoUnit ELSE old[s]]
        BY <1>5 DEF Content
  <2>3. \A s \in Keys : new[s] \in States
        BY <2>1, <2>2 DEF IsContent, States
  <2>4. new \in [Slots(c) -> States]
        BY <2>1, <2>2, <2>3
  <2>5. \A u \in Units : u[1] = c => u = <<c, u[2]>> /\ u[2] \in Keys
        BY <1>5, UnitFacts
  <2>. QED
       BY <1>3, <1>5, <2>2, <2>4, <2>5 DEF IsContent, HeldIn
<1>. QED
     BY <1>4, <1>5

-------------------------------------------------------------------------------
\* createInstallationPlan makes sound plans.

LEMMA InspectedFacts ==
    ASSUME NEW m \in Manifests, NEW host \in Hosts, NEW from, IsReceipt(from)
    PROVE  /\ Inspected(m, host, from) \subseteq Units
           /\ \A u \in Desired(m, host) : u[2] \in DOMAIN m /\ m[u[2]] \in UnitValues /\ m[u[2]] # NoUnit
<1>1. DOMAIN m \subseteq WholeFiles \cup Keys /\ \A s \in DOMAIN m : m[s] \in UnitValues
      BY PartialFacts DEF Manifests
<1>2. \A u \in Desired(m, host) : u \in Units /\ u[2] \in DOMAIN m
      BY <1>1 DEF Desired, Units
<1>. QED
     BY <1>1, <1>2, ReceiptFacts, NilAssumption DEF Inspected

\* Whatever was read, and whichever units were kept and approved.
LEMMA PlanIsSound ==
    ASSUME NEW command, NEW m \in Manifests, NEW host \in Hosts, NEW from, IsReceipt(from), NEW contents,
           \A c \in {u[1] : u \in Inspected(m, host, from)} : IsContent(c, contents[c]),
           command = "uninstall" => m = NoManifest,
           NEW units \in SUBSET Inspected(m, host, from), NEW approved \in SUBSET units,
           units \cap Conflicts(Inspected(m, host, from), ReceiptEntries(from), contents) \subseteq approved
    PROVE  Sound(PlanFor(command, m, host, from, contents, units, approved))
<1> DEFINE own == ReceiptEntries(from)
           all == Inspected(m, host, from)
           state == [u \in units |-> NextState(u, m, host, own)]
           next == [c \in {u[1] : u \in units} |-> Content(c, units, state, contents[c])]
           changed == {c \in DOMAIN next : next[c] # contents[c]}
           pl == PlanFor(command, m, host, from, contents, units, approved)
           leaves == NextReceipt(command, m, units, host, own, contents)
<1>1. /\ pl.intends = state /\ pl.approved = approved /\ pl.dropped = all \ units
      /\ pl.before = [c \in changed |-> contents[c]] /\ pl.after = [c \in changed |-> next[c]]
      /\ pl.madeFrom = from /\ pl.leaves = leaves
      BY DEF PlanFor
<1>2. all \subseteq Units /\ units \subseteq Units /\ all = Desired(m, host) \cup DOMAIN own
      BY InspectedFacts DEF Inspected
<1>3. \A u \in DOMAIN own : u \in Units /\ own[u].sum \in UnitValues /\ own[u].previous \in States
      BY ReceiptFacts
<1>4. \A u \in Desired(m, host) : m[u[2]] \in UnitValues /\ m[u[2]] # NoUnit
      BY InspectedFacts
<1>5. /\ DOMAIN state = units
      /\ \A u \in units : /\ u \in Desired(m, host) => state[u] = m[u[2]]
                          /\ u \notin Desired(m, host) => u \in DOMAIN own /\ state[u] = own[u].previous
                          /\ state[u] \in States
      BY <1>2, <1>3, <1>4 DEF NextState, States
<1>6. DOMAIN next = {u[1] : u \in units} /\ DOMAIN next \subseteq Containers
      BY <1>2, UnitFacts
<1>7. \A u \in units : u[1] \in DOMAIN next
      BY <1>6
<1>8. \A c \in DOMAIN next : IsContent(c, contents[c]) /\ next[c] = Content(c, units, state, contents[c])
      BY <1>2, <1>6
<1> HIDE DEF state, next
<1>9. ASSUME NEW c \in DOMAIN next
      PROVE  /\ IsContent(c, next[c])
             /\ c \in WholeFiles /\ next[c] # Absent => next[c][c] # NoUnit
             /\ \A u \in Units : u[1] = c =>
                   Held(next, u) = IF u \in units THEN state[u] ELSE Held(contents, u)
  <2> DEFINE new == next[c]
             old == contents[c]
  <2>1. /\ units \in SUBSET Units /\ \A u \in units : state[u] \in States
        /\ \E v \in units : v[1] = c
        /\ IsContent(c, old)
        BY <1>2, <1>5, <1>6, <1>8
  <2>3. new = Content(c, units, state, old)
        BY <1>8
  <2>2. /\ IsContent(c, new)
        /\ c \in WholeFiles /\ new # Absent => new[c] # NoUnit
        /\ \A u \in Units : u[1] = c =>
              HeldIn(new, u[2]) = IF u \in units THEN state[u] ELSE HeldIn(old, u[2])
        <3> HIDE DEF new, old
        <3>. QED
             BY <2>1, <2>3, ContentHolds
  <2>. QED
       BY <2>2 DEF Held, HeldIn
<1>10. \A u \in Units : u[1] \in changed =>
          /\ Held(pl.after, u) = Held(next, u) /\ Held(pl.before, u) = Held(contents, u)
       BY <1>1 DEF Held
<1>11. \A u \in units : Was(pl, u) = Held(contents, u)
  <2> TAKE u \in units
  <2>1. CASE u[1] \in changed
        BY <1>1, <1>2, <1>10, <2>1 DEF Was
  <2>2. CASE u[1] \notin changed
    <3>1. next[u[1]] = contents[u[1]]
          BY <1>7, <2>2
    <3>2. Held(next, u) = Held(contents, u) /\ Held(next, u) = state[u]
          BY <1>2, <1>7, <1>9, <3>1 DEF Held
    <3>. QED
         BY <1>1, <2>2, <3>2 DEF Was
  <2>. QED
       BY <2>1, <2>2
<1>12. \A u \in units : Held(contents, u) \in States
       BY <1>2, <1>7, <1>8, HeldIsState
<1> DEFINE D == units \cap Desired(m, host)
           to == [u \in D |-> [sum |-> m[u[2]], previous |-> Previous(u, own, contents)]]
<1>13. IsReceipt(leaves) /\ (command # "uninstall" => leaves # NoReceipt /\ leaves = [manifest |-> m, entries |-> to])
  <2>1. CASE command = "uninstall"
        BY <2>1 DEF NextReceipt, IsReceipt
  <2>2. CASE command # "uninstall"
    <3> DEFINE Entry == [sum : UnitValues, previous : States]
    <3>1. \A u \in D : m[u[2]] \in UnitValues /\ Previous(u, own, contents) \in States
          BY <1>3, <1>4, <1>12 DEF Previous
    <3>2. to \in [D -> Entry]
          BY <3>1
    <3>3. to \in PartialOn(Units, Entry)
          <4> HIDE DEF to, Entry
          <4>. QED
               BY <1>2, <3>2 DEF PartialOn
    <3>4. leaves = [manifest |-> m, entries |-> to]
          BY <2>2 DEF NextReceipt
    <3>. QED
         <4> HIDE DEF to
         <4>. QED
              BY <2>2, <3>3, <3>4, NilAssumption DEF IsReceipt, Receipts
  <2>. QED
       BY <2>1, <2>2
<1>14. PlanIsTyped(pl)
       BY <1>1, <1>2, <1>5, <1>6, <1>9, <1>13 DEF PlanIsTyped
<1>15. WritesItsUnits(pl)
       BY <1>1, <1>5, <1>9, <1>10 DEF WritesItsUnits
<1>16. ApprovedOrKnown(pl)
  <2>1. \A u \in units \ approved : u \notin Conflicts(all, own, contents)
        OBVIOUS
  <2>2. \A u \in units \ approved : Held(contents, u) = IF u \in DOMAIN own THEN own[u].sum ELSE NoUnit
        BY <2>1 DEF Conflicts, AsReceipted
  <2>. QED
       BY <1>1, <1>5, <1>11, <2>2 DEF ApprovedOrKnown
<1>17. command # "uninstall" => ReceiptEntries(leaves) = to /\ leaves.entries = to /\ leaves.manifest = m
       BY <1>13 DEF ReceiptEntries
<1>18. command = "uninstall" => leaves = NoReceipt /\ ReceiptEntries(leaves) = <<>>
       BY DEF NextReceipt, ReceiptEntries
<1>19. command = "uninstall" => Desired(m, host) = {}
       BY DEF Desired, NoManifest
<1>20. LeavesTruth(pl)
  <2>1. CASE command = "uninstall"
        BY <1>1, <1>2, <1>5, <1>18, <1>19, <2>1 DEF LeavesTruth
  <2>2. CASE command # "uninstall"
    <3>1. /\ DOMAIN ReceiptEntries(leaves) = units \cap Desired(m, host)
          /\ \A u \in D : /\ ReceiptEntries(leaves)[u].sum = m[u[2]]
                          /\ ReceiptEntries(leaves)[u].previous = IF u \in DOMAIN own THEN own[u].previous ELSE Was(pl, u)
          BY <1>11, <1>17, <2>2 DEF Previous
    <3>. QED
         BY <1>1, <1>2, <1>5, <3>1 DEF LeavesTruth
  <2>. QED
       BY <2>1, <2>2
<1>21. LeavesManifest(pl)
  <2>1. SUFFICES ASSUME leaves # NoReceipt, all \ units = {}
                 PROVE  IsOfManifest(leaves)
        BY <1>1 DEF LeavesManifest
  <2>2. DOMAIN leaves.entries = Desired(leaves.manifest, host)
        BY <1>2, <1>17, <1>18, <2>1
  <2>3. \A u \in DOMAIN leaves.entries : leaves.entries[u].sum = leaves.manifest[u[2]]
        BY <1>17, <1>18, <2>1
  <2>. QED
       BY <2>2, <2>3 DEF IsOfManifest
<1>. QED
     BY <1>14, <1>15, <1>16, <1>20, <1>21 DEF Sound

-------------------------------------------------------------------------------
\* The steps of the installer, whatever the configuration compiles to.
PlannerNext ==
    \/ \E p \in Sessions, command \in {"plan", "apply"}, m \in Manifests : StartInspection(p, command, m)
    \/ \E p \in Sessions : PlannerStep(p)
    \/ UserEdits

PlansInv ==
    /\ DOMAIN known = Sessions /\ DOMAIN seen = Sessions /\ DOMAIN authorized = Sessions
    /\ \A p \in Sessions : cmd[p] = "uninstall" => manifest[p] = NoManifest
    /\ \A p \in Sessions : Sound(authorized[p])
PlannerInv == PlannerTypeOK /\ PlansInv

LEMMA NothingOwned == ReceiptEntries(NoReceipt) = <<>> /\ DOMAIN ReceiptEntries(NoReceipt) = {}
BY DEF ReceiptEntries

LEMMA UnplannedIsSound == Sound(Unplanned)
BY NothingOwned DEF Sound, Unplanned, PlanIsTyped, WritesItsUnits, ApprovedOrKnown, LeavesTruth,
      LeavesManifest, IsReceipt

LEMMA PlannerInitTypes == PlannerInit => PlannerInv
<1> SUFFICES ASSUME PlannerInit PROVE PlannerInv
    OBVIOUS
<1>1. IsDisk(disk) /\ receipt = NoReceipt
      BY DiskAssumption DEF PlannerInit
<1>2. user \in [Units -> States]
      BY <1>1, HeldIsState, UnitFacts DEF PlannerInit, IsDisk
<1>3. /\ DOMAIN Unplanned.after = {} /\ Unplanned.madeFrom = NoReceipt /\ Unplanned.leaves = NoReceipt
      BY DEF Unplanned
<1>4. PlannerTypeOK
      BY <1>1, <1>2, <1>3, HostAssumption DEF PlannerInit, PlannerTypeOK, IsReceipt
<1>5. PlansInv
      BY UnplannedIsSound DEF PlannerInit, PlansInv
<1>. QED
     BY <1>4, <1>5 DEF PlannerInv

\* An edit leaves a disk the program could find.
LEMMA WriteIsDisk ==
    ASSUME PlannerTypeOK, UserEdits
    PROVE  IsDisk(disk')
<1>1. IsDisk(disk)
      BY DEF PlannerTypeOK
<1>2. ASSUME NEW u \in Units, NEW v \in UserValues \cup {NoUnit}, WriteUnit(u, v)
      PROVE  IsDisk(disk')
  <2>1. v \in States /\ (v # NoUnit => v \in UnitValues)
        BY DiskAssumption DEF States
  <2>2. CASE u[1] \in WholeFiles
    <3>1. disk' = [disk EXCEPT ![u[1]] = IF v = NoUnit THEN Absent ELSE [s \in {u[1]} |-> v]]
          BY <1>2, <2>2 DEF WriteUnit, Edited
    <3>2. Slots(u[1]) = {u[1]}
          BY <2>2 DEF Slots
    <3>. QED
         BY <1>1, <2>1, <2>2, <3>1, <3>2, UnitFacts DEF IsDisk, IsContent
  <2>3. CASE u[1] \notin WholeFiles
    <3> DEFINE new == [s \in Keys |-> IF s = u[2] THEN v ELSE Held(disk, <<u[1], s>>)]
    <3>1. disk' = [disk EXCEPT ![u[1]] = new]
          BY <1>2, <2>3 DEF WriteUnit, Edited
    <3>2. u[1] \in Hosts /\ Slots(u[1]) = Keys
          BY <2>3, UnitFacts DEF Slots
    <3>3. \A s \in Keys : Held(disk, <<u[1], s>>) \in States
      <4> TAKE s \in Keys
      <4>1. <<u[1], s>> \in Units /\ <<u[1], s>>[1] = u[1]
            BY <3>2 DEF Units
      <4>. QED
           BY <1>1, <4>1, UnitFacts, HeldIsState DEF IsDisk
    <3>4. new \in [Slots(u[1]) -> States]
          BY <2>1, <3>2, <3>3
    <3> HIDE DEF new
    <3>. QED
         BY <1>1, <2>3, <3>1, <3>4, UnitFacts DEF IsDisk, IsContent
  <2>. QED
       BY <2>2, <2>3
<1>3. ASSUME NEW from \in Hosts, NEW to \in Hosts, MoveHost(from, to)
      PROVE  IsDisk(disk')
  <2>1. disk' = [disk EXCEPT ![from] = Absent, ![to] = disk[from]] /\ from # to
        BY <1>3 DEF MoveHost, Edited
  <2>2. from \notin WholeFiles /\ to \notin WholeFiles /\ Slots(from) = Slots(to) /\ from \in Containers /\ to \in Containers
        BY HostAssumption DEF Slots, Containers
  <2>3. /\ DOMAIN disk' = Containers /\ disk'[from] = Absent /\ disk'[to] = disk[from]
        /\ \A c \in Containers \ {from, to} : disk'[c] = disk[c]
        BY <1>1, <2>1, <2>2 DEF IsDisk
  <2>4. \A c \in Containers : IsContent(c, disk'[c])
        BY <1>1, <2>2, <2>3 DEF IsDisk, IsContent
  <2>. QED
       BY <1>1, <2>2, <2>3, <2>4 DEF IsDisk, Containers
<1>. QED
     BY <1>2, <1>3 DEF UserEdits

\* The user's content after an edit, unit by unit.
EditedUser(u) ==
    user'[u] = IF Held(disk', u) = Held(disk, u) \/ (u \in Owned /\ Held(disk, u) # user[u]) THEN user[u]
               ELSE IF u \in Owned /\ Held(disk', u) = ReceiptEntries(receipt)[u].sum
                    THEN ReceiptEntries(receipt)[u].previous
               ELSE Held(disk', u)

LEMMA EditFacts ==
    ASSUME UserEdits
    PROVE  /\ DOMAIN user' = Units /\ user' = [u \in Units |-> user'[u]]
           /\ \A u \in Units : EditedUser(u)
           /\ dirty' = dirty \cup {u \in Units : Held(disk', u) # Held(disk, u)}
           /\ UNCHANGED <<receipt, planVars, skipped, unguarded, plans>>
<1>1. ASSUME NEW new, Edited(new)
      PROVE  /\ DOMAIN user' = Units /\ user' = [u \in Units |-> user'[u]]
             /\ \A u \in Units : EditedUser(u)
             /\ dirty' = dirty \cup {u \in Units : Held(disk', u) # Held(disk, u)}
             /\ UNCHANGED <<receipt, planVars, skipped, unguarded, plans>>
  <2>1. disk' = new /\ UNCHANGED <<receipt, planVars, skipped, unguarded, plans>>
        BY <1>1 DEF Edited
  <2>2. dirty' = dirty \cup {u \in Units : Held(disk', u) # Held(disk, u)}
        BY <1>1, <2>1 DEF Edited
  <2>3. user' = [u \in Units |->
                   IF u \notin {w \in Units : Held(new, w) # Held(disk, w)} \/ (u \in Owned /\ Held(disk, u) # user[u])
                   THEN user[u]
                   ELSE IF u \in Owned /\ Held(new, u) = ReceiptEntries(receipt)[u].sum
                   THEN ReceiptEntries(receipt)[u].previous
                   ELSE Held(new, u)]
        BY <1>1 DEF Edited
  <2>4. DOMAIN user' = Units /\ user' = [u \in Units |-> user'[u]]
        BY <2>3
  <2>5. \A u \in Units : EditedUser(u)
        BY <2>1, <2>3 DEF EditedUser
  <2>. QED
       BY <2>1, <2>2, <2>4, <2>5
<1>. QED
     BY <1>1 DEF UserEdits, WriteUnit, MoveHost

-------------------------------------------------------------------------------
\* Types, and plans that are sound, in every state.

LEMMA EditTypes == PlannerInv /\ UserEdits => PlannerInv'
<1> SUFFICES ASSUME PlannerInv, UserEdits PROVE PlannerInv'
    OBVIOUS
<1>1. IsDisk(disk) /\ IsDisk(disk')
      BY WriteIsDisk DEF PlannerInv, PlannerTypeOK
<1>2. \A u \in Units : user'[u] \in States
  <2> TAKE u \in Units
  <2>1. EditedUser(u) /\ Held(disk', u) \in States /\ user[u] \in States
        BY <1>1, EditFacts, HeldIsState, UnitFacts DEF IsDisk, PlannerInv, PlannerTypeOK
  <2>2. u \in Owned => ReceiptEntries(receipt)[u].previous \in States
        BY ReceiptFacts DEF PlannerInv, PlannerTypeOK, Owned
  <2>. QED
       BY <2>1, <2>2 DEF EditedUser
<1>3. user' \in [Units -> States] /\ dirty' \subseteq Units
      BY <1>2, EditFacts DEF PlannerInv, PlannerTypeOK
<1>4. UNCHANGED <<receipt, planVars, skipped, unguarded, plans>>
      BY EditFacts
<1>5. PlannerTypeOK'
      BY <1>1, <1>3, <1>4 DEF PlannerInv, PlannerTypeOK, planVars
<1>6. PlansInv'
      BY <1>4 DEF PlannerInv, PlansInv, planVars
<1>. QED
     BY <1>5, <1>6 DEF PlannerInv

LEMMA StartTypes ==
    ASSUME PlannerInv, NEW p \in Sessions, NEW command \in {"plan", "apply", "uninstall"}, NEW m \in Manifests,
           StartInspection(p, command, m)
    PROVE  PlannerInv'
<1>1. /\ UNCHANGED <<disk, receipt, userVars>>
      /\ authorized' = [authorized EXCEPT ![p] = Unplanned] /\ seen' = [seen EXCEPT ![p] = <<>>]
      /\ known' = [known EXCEPT ![p] = receipt] /\ manifest' = [manifest EXCEPT ![p] = m]
      /\ cmd' = [cmd EXCEPT ![p] = command] /\ (command = "uninstall" => m = NoManifest)
      /\ target' = [target EXCEPT ![p] = CreateAt]
      /\ stage' \in [Sessions -> {"idle", "select", "read", "saved"}]
      BY DEF StartInspection, PlannerInv, PlannerTypeOK
<1>2. /\ DOMAIN Unplanned.after = {} /\ Unplanned.madeFrom = NoReceipt /\ Unplanned.leaves = NoReceipt
      BY DEF Unplanned
<1>3. \A q \in Sessions : /\ IsReceipt(known'[q]) /\ IsReceipt(authorized'[q].madeFrom) /\ IsReceipt(authorized'[q].leaves)
                          /\ DOMAIN seen'[q] \subseteq Containers
                          /\ \A c \in DOMAIN seen'[q] : IsContent(c, seen'[q][c])
                          /\ \A c \in DOMAIN authorized'[q].after : IsContent(c, authorized'[q].after[c])
      BY <1>1, <1>2 DEF PlannerInv, PlannerTypeOK, PlansInv, IsReceipt
<1>4. PlannerTypeOK'
      BY <1>1, <1>3, HostAssumption DEF PlannerInv, PlannerTypeOK, userVars
<1>5. PlansInv'
      BY <1>1, UnplannedIsSound DEF PlannerInv, PlannerTypeOK, PlansInv
<1>. QED
     BY <1>4, <1>5 DEF PlannerInv

LEMMA SelectTypes ==
    ASSUME PlannerInv, NEW p \in Sessions, SelectHost(p)
    PROVE  PlannerInv'
<1>1. /\ UNCHANGED <<disk, receipt, cmd, manifest, known, seen, authorized, userVars>>
      /\ stage' \in [Sessions -> {"idle", "select", "read", "saved"}]
      BY DEF SelectHost, PlannerInv, PlannerTypeOK
<1>2. (IF Present = {} THEN CreateAt ELSE CHOOSE h \in Present : TRUE) \in Hosts
      BY HostAssumption DEF Present
<1>3. target' \in [Sessions -> Hosts]
      BY <1>2 DEF SelectHost, PlannerInv, PlannerTypeOK
<1>. QED
     BY <1>1, <1>3 DEF PlannerInv, PlannerTypeOK, PlansInv, userVars

LEMMA ReadTypes ==
    ASSUME PlannerInv, NEW p \in Sessions, NEW c \in Containers, ReadContainer(p, c)
    PROVE  PlannerInv'
<1>1. /\ UNCHANGED <<disk, receipt, stage, cmd, manifest, known, target, authorized, userVars>>
      /\ seen' = [seen EXCEPT ![p] = [d \in DOMAIN seen[p] \cup {c} |-> IF d = c THEN disk[c] ELSE seen[p][d]]]
      BY DEF ReadContainer
<1>2. IsContent(c, disk[c])
      BY DEF PlannerInv, PlannerTypeOK, IsDisk
<1>3. \A q \in Sessions : /\ DOMAIN seen'[q] \subseteq Containers
                          /\ \A x \in DOMAIN seen'[q] : IsContent(x, seen'[q][x])
  <2> TAKE q \in Sessions
  <2>1. CASE q # p
        BY <1>1, <2>1 DEF PlannerInv, PlannerTypeOK, PlansInv
  <2>2. CASE q = p
    <3>1. seen'[p] = [d \in DOMAIN seen[p] \cup {c} |-> IF d = c THEN disk[c] ELSE seen[p][d]]
          BY <1>1 DEF PlannerInv, PlansInv
    <3>. QED
         BY <1>2, <2>2, <3>1 DEF PlannerInv, PlannerTypeOK
  <2>. QED
       BY <2>1, <2>2
<1>4. DOMAIN seen' = Sessions
      BY <1>1 DEF PlannerInv, PlansInv
<1>. QED
     BY <1>1, <1>3, <1>4 DEF PlannerInv, PlannerTypeOK, PlansInv, userVars

LEMMA MakeTypes ==
    ASSUME PlannerInv, NEW p \in Sessions, NEW approves \in BOOLEAN, MakePlan(p, approves)
    PROVE  PlannerInv'
<1> DEFINE from == known[p]
           all == Inspected(manifest[p], target[p], from)
           conflicts == Conflicts(all, ReceiptEntries(from), seen[p])
           units == PlannedUnits(p, all, conflicts)
           approved == IF cmd[p] = "apply" THEN {} ELSE conflicts
           made == PlanFor(cmd[p], manifest[p], target[p], from, seen[p], units, approved)
<1>1. /\ UNCHANGED <<disk, receipt, cmd, manifest, known, target, userVars>>
      /\ Needed(p) = DOMAIN seen[p]
      /\ stage' \in [Sessions -> {"idle", "select", "read", "saved"}]
      /\ seen' = [seen EXCEPT ![p] = <<>>]
      /\ authorized' = authorized \/ authorized' = [authorized EXCEPT ![p] = made]
      BY DEF MakePlan, PlannerInv, PlannerTypeOK
<1>2. manifest[p] \in Manifests /\ target[p] \in Hosts /\ IsReceipt(from)
  <2>1. manifest[p] \in Manifests \cup {NoManifest} /\ target[p] \in Hosts /\ IsReceipt(from)
        BY DEF PlannerInv, PlannerTypeOK
  <2>2. NoManifest \in Manifests
        BY EmptyIsPartial DEF NoManifest, Manifests
  <2>. QED
       BY <2>1, <2>2
<1>3. \A c \in {u[1] : u \in all} : IsContent(c, seen[p][c])
      BY <1>1 DEF Needed, PlannerInv, PlannerTypeOK
<1>4. conflicts \subseteq all
      BY DEF Conflicts
<1>5. units \subseteq all /\ approved \subseteq units /\ units \cap conflicts \subseteq approved
      BY <1>4 DEF PlannedUnits
<1>6. cmd[p] = "uninstall" => manifest[p] = NoManifest
      BY DEF PlannerInv, PlansInv
<1>7. Sound(made)
  <2> HIDE DEF units, approved
  <2>. QED
       BY <1>2, <1>3, <1>5, <1>6, PlanIsSound
<1>8. IsReceipt(made.madeFrom) /\ IsReceipt(made.leaves) /\ \A c \in DOMAIN made.after : IsContent(c, made.after[c])
      BY <1>7 DEF Sound, PlanIsTyped
<1> HIDE DEF made
<1>9. \A q \in Sessions : /\ Sound(authorized'[q])
                          /\ IsReceipt(authorized'[q].madeFrom) /\ IsReceipt(authorized'[q].leaves)
                          /\ \A c \in DOMAIN authorized'[q].after : IsContent(c, authorized'[q].after[c])
      BY <1>1, <1>7, <1>8 DEF PlannerInv, PlannerTypeOK, PlansInv
<1>10. \A q \in Sessions : /\ DOMAIN seen'[q] \subseteq Containers
                           /\ \A x \in DOMAIN seen'[q] : IsContent(x, seen'[q][x])
       BY <1>1 DEF PlannerInv, PlannerTypeOK, PlansInv
<1>11. PlannerTypeOK'
       BY <1>1, <1>9, <1>10 DEF PlannerInv, PlannerTypeOK, userVars
<1>12. PlansInv'
       BY <1>1, <1>9 DEF PlannerInv, PlansInv
<1>. QED
     BY <1>11, <1>12 DEF PlannerInv

LEMMA ApplyTypes ==
    ASSUME PlannerInv, NEW p \in Sessions, Apply(p)
    PROVE  PlannerInv'
<1> DEFINE pl == authorized[p]
<1>1. /\ disk' = [c \in Containers |-> IF c \in DOMAIN pl.after THEN pl.after[c] ELSE disk[c]]
      /\ receipt' = IF WritesReceipt(pl) THEN pl.leaves ELSE receipt
      /\ user' = [u \in Units |-> IF Consents(pl, u) THEN ReceiptEntries(pl.madeFrom)[u].previous ELSE user[u]]
      /\ dirty' = {u \in dirty : u[1] \notin DOMAIN pl.after} /\ skipped' = skipped \cup pl.dropped
      /\ stage' \in [Sessions -> {"idle", "select", "read", "saved"}]
      /\ UNCHANGED <<cmd, manifest, known, target, seen, authorized>>
      BY DEF Apply, PlannerInv, PlannerTypeOK
<1>2. PlanIsTyped(pl)
      BY DEF PlannerInv, PlansInv, Sound
<1>3. IsDisk(disk')
      BY <1>1, <1>2 DEF PlanIsTyped, IsDisk, Containers, PlannerInv, PlannerTypeOK
<1>4. IsReceipt(receipt')
      BY <1>1, <1>2 DEF PlanIsTyped, PlannerInv, PlannerTypeOK
<1>5. \A u \in Units : Consents(pl, u) => ReceiptEntries(pl.madeFrom)[u].previous \in States
      BY <1>2, ReceiptFacts DEF PlanIsTyped, Consents
<1>6. user' \in [Units -> States]
      BY <1>1, <1>5 DEF PlannerInv, PlannerTypeOK
<1>7. PlannerTypeOK'
      BY <1>1, <1>2, <1>3, <1>4, <1>6 DEF PlanIsTyped, PlannerInv, PlannerTypeOK
<1>8. PlansInv'
      BY <1>1 DEF PlannerInv, PlansInv
<1>. QED
     BY <1>7, <1>8 DEF PlannerInv

LEMMA PlannerNextTypes == PlannerInv /\ [PlannerNext]_plannerVars => PlannerInv'
<1> SUFFICES ASSUME PlannerInv, [PlannerNext]_plannerVars PROVE PlannerInv'
    OBVIOUS
<1>1. ASSUME NEW p \in Sessions, PlannerStep(p)
      PROVE  PlannerInv'
  <2>1. NoManifest \in Manifests
        BY EmptyIsPartial DEF NoManifest, Manifests
  <2>2. CASE StartInspection(p, "uninstall", NoManifest)
        BY <2>1, <2>2, StartTypes
  <2>3. CASE SelectHost(p)
        BY <2>3, SelectTypes
  <2>4. CASE \E c \in Containers : ReadContainer(p, c)
        BY <2>4, ReadTypes
  <2>5. CASE \E approves \in BOOLEAN : MakePlan(p, approves)
        BY <2>5, MakeTypes
  <2>6. CASE Apply(p)
        BY <2>6, ApplyTypes
  <2>7. CASE Refuse(p)
        BY <2>7 DEF Refuse, PlannerInv, PlannerTypeOK, PlansInv, userVars
  <2>. QED
       BY <1>1, <2>2, <2>3, <2>4, <2>5, <2>6, <2>7 DEF PlannerStep
<1>2. CASE UserEdits
      BY <1>2, EditTypes
<1>3. CASE \E p \in Sessions, command \in {"plan", "apply"}, m \in Manifests : StartInspection(p, command, m)
      BY <1>3, StartTypes
<1>4. CASE UNCHANGED plannerVars
      BY <1>4 DEF plannerVars, planVars, userVars, PlannerInv, PlannerTypeOK, PlansInv
<1>. QED
     BY <1>1, <1>2, <1>3, <1>4 DEF PlannerNext

-------------------------------------------------------------------------------
\* What the receipt and the user's content say of each other.

\* A unit that is not owned holds what the user left there.  For an owned one
\* the receipt has that, unless the user has written something else since.
Kept(u) ==
    IF u \in Owned
    THEN \/ ReceiptEntries(receipt)[u].previous = user[u]
         \/ (Held(disk, u) = user[u] /\ Held(disk, u) # ReceiptEntries(receipt)[u].sum)
    ELSE Held(disk, u) = user[u]
KeptInv == ~unguarded => \A u \in Units \ skipped : Kept(u)

ManifestInv == receipt # NoReceipt /\ skipped = {} => IsOfManifest(receipt)

ReceiptInv == KeptInv /\ ReceiptIsTrue /\ ManifestInv

\* The steps that neither write a file nor change the user's content.
LEMMA OthersKeep ==
    ASSUME [PlannerNext]_plannerVars, ~UserEdits, \A p \in Sessions : ~Apply(p)
    PROVE  UNCHANGED <<disk, receipt, user, dirty, skipped, unguarded>>
<1>1. ASSUME NEW p \in Sessions, PlannerStep(p)
      PROVE  UNCHANGED <<disk, receipt, user, dirty, skipped, unguarded>>
      BY <1>1 DEF PlannerStep, StartInspection, SelectHost, ReadContainer, MakePlan, Refuse,
            userVars
<1>2. CASE \E p \in Sessions, command \in {"plan", "apply"}, m \in Manifests : StartInspection(p, command, m)
      BY <1>2 DEF StartInspection, userVars
<1>. QED
     BY <1>1, <1>2 DEF PlannerNext, plannerVars, userVars

LEMMA EditKeeps == PlannerInv /\ ReceiptInv /\ UserEdits => ReceiptInv'
<1> SUFFICES ASSUME PlannerInv, ReceiptInv, UserEdits PROVE ReceiptInv'
    OBVIOUS
<1>1. UNCHANGED <<receipt, skipped, unguarded>> /\ Owned' = Owned
      BY EditFacts DEF Owned
<1>2. ASSUME NEW u \in Units, Kept(u) PROVE Kept(u)'
      BY <1>1, <1>2, EditFacts DEF EditedUser, Kept
<1>3. KeptInv'
      BY <1>1, <1>2 DEF ReceiptInv, KeptInv
<1>4. \A u \in Owned \ dirty' : u \notin dirty /\ Held(disk', u) = Held(disk, u)
  <2>1. Owned \subseteq Units
        BY ReceiptFacts DEF PlannerInv, PlannerTypeOK, Owned
  <2>. QED
       BY <2>1, EditFacts
<1>5. ReceiptIsTrue'
      BY <1>1, <1>4 DEF ReceiptInv, ReceiptIsTrue
<1>6. ManifestInv'
      BY <1>1 DEF ReceiptInv, ManifestInv, IsOfManifest
<1>. QED
     BY <1>3, <1>5, <1>6 DEF ReceiptInv

\* What an applied plan does to the disk.
LEMMA AppliedDisk ==
    ASSUME PlannerInv, NEW p \in Sessions, Apply(p), NEW pl, pl = authorized[p]
    PROVE  /\ \A u \in Units : u[1] \in DOMAIN pl.before => Held(pl.before, u) = Held(disk, u)
           /\ \A u \in Units : u[1] \notin DOMAIN pl.after => Held(disk', u) = Held(disk, u)
           /\ \A u \in Units \ DOMAIN pl.intends : Held(disk', u) = Held(disk, u)
           /\ \A u \in DOMAIN pl.intends : u[1] \in DOMAIN pl.after => Held(disk', u) = pl.intends[u]
<1>1. Sound(pl)
      BY DEF PlannerInv, PlansInv
<1>2. /\ disk' = [c \in Containers |-> IF c \in DOMAIN pl.after THEN pl.after[c] ELSE disk[c]]
      /\ \A c \in DOMAIN pl.before : disk[c] = pl.before[c]
      BY DEF Apply, StillAsPlanned
<1>3. \A u \in Units : u[1] \in Containers
      BY UnitFacts
<1>4. \A u \in Units : u[1] \in DOMAIN pl.before => Held(pl.before, u) = Held(disk, u)
      BY <1>2 DEF Held
<1>5. \A u \in Units : Held(disk', u) = IF u[1] \in DOMAIN pl.after THEN Held(pl.after, u) ELSE Held(disk, u)
      BY <1>2, <1>3 DEF Held
<1>6. \A u \in Units : u[1] \in DOMAIN pl.after =>
         Held(pl.after, u) = IF u \in DOMAIN pl.intends THEN pl.intends[u] ELSE Held(pl.before, u)
      BY <1>1 DEF Sound, WritesItsUnits
<1>7. DOMAIN pl.before = DOMAIN pl.after /\ DOMAIN pl.intends \subseteq Units
      BY <1>1 DEF Sound, PlanIsTyped
<1>. QED
     BY <1>4, <1>5, <1>6, <1>7

\* A plan applied while nothing it was made from has changed.
LEMMA GuardedApply ==
    ASSUME PlannerInv, NEW p \in Sessions, Apply(p), ~unguarded', NEW pl, pl = authorized[p]
    PROVE  /\ ~unguarded /\ receipt = pl.madeFrom /\ receipt' = pl.leaves
           /\ \A u \in DOMAIN pl.intends : Held(disk, u) = Was(pl, u) /\ Held(disk', u) = pl.intends[u]
<1>1. unguarded' = (unguarded \/ Unguarded(pl))
      BY DEF Apply
<1>2. ~unguarded /\ ~Unguarded(pl)
      BY <1>1, Zenon
<1>3. receipt = pl.madeFrom /\ receipt' = pl.leaves
      BY <1>2 DEF Apply, Unguarded, WritesReceipt
<1>4. PlanIsTyped(pl)
      BY DEF PlannerInv, PlansInv, Sound
<1>5. \A u \in DOMAIN pl.intends : u[1] \notin DOMAIN pl.before => Held(disk, u) = pl.intends[u]
      BY <1>2 DEF Unguarded
<1>. QED
     BY <1>2, <1>3, <1>4, <1>5, AppliedDisk DEF PlanIsTyped, Was

LEMMA ApplyKeeps ==
    ASSUME PlannerInv, ReceiptInv, NEW p \in Sessions, Apply(p)
    PROVE  ReceiptInv'
<1> DEFINE pl == authorized[p]
           from == ReceiptEntries(pl.madeFrom)
           to == ReceiptEntries(pl.leaves)
<1>1. /\ PlanIsTyped(pl) /\ ApprovedOrKnown(pl) /\ LeavesTruth(pl) /\ LeavesManifest(pl)
      BY DEF PlannerInv, PlansInv, Sound
<1>2. /\ user' = [u \in Units |-> IF Consents(pl, u) THEN from[u].previous ELSE user[u]]
      /\ dirty' = {u \in dirty : u[1] \notin DOMAIN pl.after} /\ skipped' = skipped \cup pl.dropped
      BY DEF Apply
<1>3. DOMAIN pl.intends \subseteq Units
      BY <1>1 DEF PlanIsTyped
<1>4. ASSUME ~unguarded' PROVE \A u \in Units \ skipped' : Kept(u)'
  <2>1. /\ receipt = pl.madeFrom /\ receipt' = pl.leaves
        /\ \A u \in DOMAIN pl.intends : Held(disk, u) = Was(pl, u) /\ Held(disk', u) = pl.intends[u]
        BY <1>4, GuardedApply
  <2>2. ~unguarded
        BY <1>4, GuardedApply
  <2>3. DOMAIN from = Owned /\ DOMAIN to = Owned' /\ from = ReceiptEntries(receipt) /\ to = ReceiptEntries(receipt')
        BY <2>1 DEF Owned
  <2>4. SUFFICES ASSUME NEW u \in Units, u \notin skipped' PROVE Kept(u)'
        OBVIOUS
  <2>5. Kept(u) /\ u \notin pl.dropped
        BY <1>2, <2>2, <2>4 DEF ReceiptInv, KeptInv
  <2>6. user'[u] = IF Consents(pl, u) THEN from[u].previous ELSE user[u]
        BY <1>2
  <2>7. CASE u \notin DOMAIN pl.intends
    <3>1. u \notin DOMAIN from /\ u \notin DOMAIN to
          BY <1>1, <2>5, <2>7 DEF LeavesTruth
    <3>2. Held(disk', u) = Held(disk, u)
          BY <2>7, AppliedDisk
    <3>3. user'[u] = user[u]
          BY <2>6, <3>1 DEF Consents
    <3>. QED
         BY <2>3, <2>5, <3>1, <3>2, <3>3 DEF Kept
  <2>8. CASE u \in DOMAIN pl.intends /\ u \in DOMAIN from
    <3>1. Consents(pl, u) \/ from[u].previous = user[u]
      <4>1. CASE u \in pl.approved
            BY <2>3, <2>5, <2>8, <4>1 DEF Kept, Consents
      <4>2. CASE u \notin pl.approved
        <5>1. Held(disk, u) = from[u].sum
              BY <1>1, <2>1, <2>8, <4>2 DEF ApprovedOrKnown
        <5>. QED
             BY <2>3, <2>5, <2>8, <5>1 DEF Kept
      <4>. QED
           BY <4>1, <4>2
    <3>2. user'[u] = from[u].previous
          BY <2>6, <3>1
    <3>3. CASE u \in DOMAIN to
      <4>1. to[u].previous = from[u].previous
            BY <1>1, <2>8, <3>3 DEF LeavesTruth
      <4>. QED
           BY <2>3, <3>2, <3>3, <4>1 DEF Kept
    <3>4. CASE u \notin DOMAIN to
      <4>1. pl.intends[u] = from[u].previous
            BY <1>1, <2>8, <3>4 DEF LeavesTruth
      <4>. QED
           BY <2>1, <2>3, <2>8, <3>2, <3>4, <4>1 DEF Kept
    <3>. QED
         BY <3>3, <3>4
  <2>9. CASE u \in DOMAIN pl.intends /\ u \notin DOMAIN from
    <3>1. u \in DOMAIN to /\ to[u].previous = Was(pl, u)
          BY <1>1, <2>9 DEF LeavesTruth
    <3>2. Held(disk, u) = user[u] /\ user'[u] = user[u]
          BY <2>3, <2>5, <2>6, <2>9 DEF Kept, Consents
    <3>. QED
         BY <2>1, <2>3, <2>9, <3>1, <3>2 DEF Kept
  <2>. QED
       BY <2>7, <2>8, <2>9
<1>5. ASSUME ~unguarded', NEW u \in Owned' PROVE Held(disk', u) = ReceiptEntries(receipt')[u].sum
  <2>1. receipt' = pl.leaves /\ u \in DOMAIN to
        BY <1>5, GuardedApply DEF Owned
  <2>2. u \in DOMAIN pl.intends /\ to[u].sum = pl.intends[u]
        BY <1>1, <2>1 DEF LeavesTruth
  <2>. QED
       BY <1>5, <2>1, <2>2, GuardedApply
<1>6. ManifestInv'
  <2>1. CASE WritesReceipt(pl)
        BY <1>1, <1>2, <2>1 DEF Apply, ManifestInv, LeavesManifest, IsOfManifest
  <2>2. CASE ~WritesReceipt(pl)
        BY <1>2, <2>2 DEF Apply, ReceiptInv, ManifestInv, IsOfManifest
  <2>. QED
       BY <2>1, <2>2
<1>. QED
     BY <1>4, <1>5, <1>6 DEF ReceiptInv, KeptInv, ReceiptIsTrue

LEMMA InitKept == PlannerInit => ReceiptInv
BY NothingOwned DEF PlannerInit, ReceiptInv, KeptInv, Kept, ReceiptIsTrue, ManifestInv, Owned

LEMMA NextKept == PlannerInv /\ ReceiptInv /\ [PlannerNext]_plannerVars => ReceiptInv'
<1> SUFFICES ASSUME PlannerInv, ReceiptInv, [PlannerNext]_plannerVars PROVE ReceiptInv'
    OBVIOUS
<1>1. CASE UserEdits
      BY <1>1, EditKeeps
<1>2. CASE \E p \in Sessions : Apply(p)
      BY <1>2, ApplyKeeps
<1>3. CASE ~UserEdits /\ \A p \in Sessions : ~Apply(p)
  <2>1. UNCHANGED <<disk, receipt, user, dirty, skipped, unguarded>>
        BY <1>3, OthersKeep
  <2>. QED
       BY <2>1 DEF ReceiptInv, KeptInv, Kept, ReceiptIsTrue, ManifestInv, IsOfManifest, Owned
<1>. QED
     BY <1>1, <1>2, <1>3

-------------------------------------------------------------------------------
\* The planner settles.

LEMMA OnePresent ==
    ASSUME NEW h \in Present, Cardinality(Present) <= 1
    PROVE  Present = {h}
<1>1. IsFiniteSet(Present)
      BY HostAssumption, FS_Subset DEF Present
<1>2. Cardinality(Present) \in Nat /\ IsFiniteSet(Present \ {h}) /\ Cardinality(Present \ {h}) = Cardinality(Present) - 1
      BY <1>1, FS_CardinalityType, FS_RemoveElement
<1>3. Cardinality(Present \ {h}) = 0
      BY <1>2, FS_CardinalityType
<1>4. Present \ {h} = {}
      BY <1>2, <1>3, FS_EmptySet
<1>. QED
     BY <1>4

\* What is owned is what the manifest wants on the one host there is, and holds it.
LEMMA KeptSettles == PlannerInv /\ ReceiptInv => InstallingAgainIsEmpty
<1> SUFFICES ASSUME PlannerInv, ReceiptInv, receipt # NoReceipt, dirty = {}, skipped = {}, ~unguarded,
                    Cardinality(Present) <= 1
             PROVE  Settled
    BY DEF InstallingAgainIsEmpty
<1> DEFINE m == receipt.manifest
           host == IF Present = {} THEN CreateAt ELSE CHOOSE h \in Present : TRUE
           own == ReceiptEntries(receipt)
           units == Inspected(m, host, receipt)
           state == [u \in units |-> NextState(u, m, host, own)]
           next == [c \in {u[1] : u \in units} |-> Content(c, units, state, disk[c])]
           changed == {c \in DOMAIN next : next[c] # disk[c]}
           again == PlanFor("plan", m, host, receipt, disk, units, {})
<1>1. IsDisk(disk) /\ IsReceipt(receipt)
      BY DEF PlannerInv, PlannerTypeOK
<1>2. /\ receipt = [manifest |-> m, entries |-> own] /\ m \in Manifests
      /\ own \in PartialOn(Units, [sum : UnitValues, previous : States])
      BY <1>1, ReceiptFacts
<1>3. \A u \in Owned : /\ u \in Units /\ Held(disk, u) = own[u].sum /\ own[u].sum # NoUnit
                       /\ own[u].sum \in UnitValues
  <2>1. \A u \in Owned : u \in Units /\ own[u].sum \in UnitValues
        BY <1>1, ReceiptFacts DEF Owned
  <2>. QED
       BY <2>1, NilAssumption DEF ReceiptInv, ReceiptIsTrue
<1>4. PICK h \in Hosts : Owned = Desired(m, h) /\ \A u \in Owned : own[u].sum = m[u[2]]
  <2>1. PICK h \in Hosts : /\ DOMAIN receipt.entries = Desired(m, h)
                           /\ \A u \in DOMAIN receipt.entries : receipt.entries[u].sum = m[u[2]]
        BY DEF ReceiptInv, ManifestInv, IsOfManifest
  <2>. QED
       BY <1>1, <2>1, ReceiptFacts DEF Owned
<1>5. Desired(m, host) = Owned
  <2>1. CASE DOMAIN m \cap Keys = {}
        BY <1>4, <2>1 DEF Desired
  <2>2. CASE DOMAIN m \cap Keys # {}
    <3>1. PICK key \in DOMAIN m \cap Keys : TRUE
          BY <2>2
    <3>2. <<h, key>> \in Owned
          BY <1>4, <3>1 DEF Desired
    <3>3. disk[h] # Absent
          BY <1>3, <3>2 DEF Held
    <3>4. Present = {h}
          BY <3>3, OnePresent DEF Present
    <3>5. host = h
          BY <3>4
    <3>. QED
         BY <1>4, <3>5
  <2>. QED
       BY <2>1, <2>2
<1>6. units = Owned /\ DOMAIN own = Owned
      BY <1>5 DEF Inspected, Owned
<1> HIDE DEF host
<1>7. Conflicts(units, own, disk) = {}
      BY <1>3, <1>6 DEF Conflicts, AsReceipted
<1>8. DOMAIN state = Owned /\ \A u \in Owned : state[u] = Held(disk, u)
      BY <1>3, <1>4, <1>5, <1>6 DEF NextState
<1> HIDE DEF state
<1>9. ASSUME NEW c \in DOMAIN next PROVE next[c] = disk[c]
  <2>1. PICK v \in Owned : v[1] = c
        BY <1>6, <1>9
  <2>2. v \in Units /\ Held(disk, v) # NoUnit
        BY <1>3, <2>1
  <2>3. c \in Containers /\ disk[c] # Absent
        BY <2>1, <2>2, UnitFacts DEF Held
  <2>4. disk[c] \in [Slots(c) -> States]
        BY <1>1, <2>3 DEF IsDisk, IsContent
  <2>5. next[c] = Content(c, Owned, state, disk[c])
        BY <1>6
  <2>6. \A s : <<c, s>> \in Owned => state[<<c, s>>] = disk[c][s]
        BY <1>8, <2>3 DEF Held
  <2>7. CASE c \in WholeFiles
    <3>1. v = <<c, c>> /\ Slots(c) = {c} /\ state[<<c, c>>] = disk[c][c] /\ state[<<c, c>>] # NoUnit
          BY ZenonT(30), <1>8, <2>1, <2>2, <2>6, <2>7, UnitFacts DEF Slots
    <3>2. next[c] = [s \in {c} |-> disk[c][c]]
          BY <2>5, <2>7, <3>1 DEF Content
    <3>. QED
         BY <2>4, <3>1, <3>2
  <2>8. CASE c \notin WholeFiles
    <3>1. next[c] = [s \in Keys |-> IF <<c, s>> \in Owned THEN state[<<c, s>>] ELSE disk[c][s]]
          BY <2>3, <2>5, <2>8 DEF Content
    <3>2. next[c] = [s \in Keys |-> disk[c][s]]
          BY <2>6, <3>1
    <3>. QED
         BY <2>4, <2>8, <3>2 DEF Slots
  <2>. QED
       BY <2>7, <2>8
<1>10. changed = {}
       BY <1>9
<1>11. again.after = [c \in changed |-> next[c]] /\ again.madeFrom = receipt
       BY DEF PlanFor, state
<1> HIDE DEF next, changed
<1>12. again.after = <<>>
       BY <1>10, <1>11
<1>13. again.leaves = receipt
  <2> DEFINE to == [u \in units \cap Desired(m, host) |-> [sum |-> m[u[2]], previous |-> Previous(u, own, disk)]]
  <2>1. again.leaves = [manifest |-> m, entries |-> to]
        BY DEF PlanFor, NextReceipt
  <2>2. DOMAIN to = Owned /\ \A u \in Owned : to[u] = [sum |-> own[u].sum, previous |-> own[u].previous]
        BY <1>4, <1>5, <1>6 DEF Previous
  <2>3. \A u \in Owned : own[u] = [sum |-> own[u].sum, previous |-> own[u].previous]
    <3> DEFINE Entry == [sum : UnitValues, previous : States]
    <3>1. own \in [DOMAIN own -> Entry]
      <4> HIDE DEF Entry, own
      <4>. QED
           BY <1>2, PartialFacts DEF Entry
    <3>2. \A u \in Owned : own[u] \in Entry
      <4> HIDE DEF Entry, own
      <4>. QED
           BY <1>6, <3>1
    <3>. QED
         BY <3>2
  <2>4. own \in [DOMAIN own -> [sum : UnitValues, previous : States]]
        BY <1>2, PartialFacts
  <2>5. to = own
    <3> HIDE DEF own
    <3>1. to = [u \in Owned |-> to[u]]
          BY <2>2
    <3>2. own = [u \in Owned |-> own[u]]
          BY <1>6, <2>4
    <3> HIDE DEF to
    <3>. QED
         BY <2>2, <2>3, <3>1, <3>2
  <2>. QED
       BY <1>2, <2>1, <2>5
<1>. QED
     BY <1>7, <1>11, <1>12, <1>13 DEF Settled, WritesReceipt, host

LEMMA InvImplies == PlannerInv /\ ReceiptInv => InstallationInv
<1> SUFFICES ASSUME PlannerInv, ReceiptInv PROVE InstallationInv
    OBVIOUS
<1>1. \A u \in Units : Kept(u) => InPlaceOrInReceipt(u)
      BY DEF Kept, InPlaceOrInReceipt
<1>. QED
     BY <1>1, KeptSettles DEF PlannerInv, ReceiptInv, KeptInv, UsersContentIsKept, InstallationInv

-------------------------------------------------------------------------------
\* Nothing is overwritten unasked: a plan that leaves the receipt alone does not
\* change the units that its receipt vouches for, so a newer one does no harm.
LEMMA ApplyAsksFirst ==
    ASSUME PlannerInv, NEW p \in Sessions, NEW u \in Units, Apply(p), Held(disk', u) # Held(disk, u)
    PROVE  /\ u \in DOMAIN authorized[p].intends
           /\ \/ Held(disk, u) = NoUnit
              \/ u \in authorized[p].approved
              \/ u \in Owned /\ Held(disk, u) = ReceiptEntries(receipt)[u].sum
<1> DEFINE pl == authorized[p]
           from == ReceiptEntries(pl.madeFrom)
           to == ReceiptEntries(pl.leaves)
<1>1. PlanIsTyped(pl) /\ ApprovedOrKnown(pl) /\ LeavesTruth(pl)
      BY DEF PlannerInv, PlansInv, Sound
<1>2. u \in DOMAIN pl.intends /\ u[1] \in DOMAIN pl.after /\ Held(disk', u) = pl.intends[u]
      BY AppliedDisk
<1>3. Was(pl, u) = Held(disk, u)
      BY <1>1, <1>2, AppliedDisk DEF PlanIsTyped, Was
<1>4. SUFFICES ASSUME u \notin pl.approved, Held(disk, u) # NoUnit
               PROVE  u \in Owned /\ Held(disk, u) = ReceiptEntries(receipt)[u].sum
      BY <1>2
<1>5. u \in DOMAIN from /\ Held(disk, u) = from[u].sum
      BY <1>1, <1>2, <1>3, <1>4 DEF ApprovedOrKnown
<1>6. CASE WritesReceipt(pl)
  <2>1. receipt = pl.madeFrom
        BY <1>6 DEF Apply, StillAsPlanned
  <2>. QED
       BY <1>5, <2>1 DEF Owned
<1>7. CASE ~WritesReceipt(pl)
  <2>1. u \in DOMAIN to /\ to[u].sum = from[u].sum
        BY <1>5, <1>7 DEF WritesReceipt
  <2>2. pl.intends[u] = Held(disk, u)
        BY <1>1, <1>5, <2>1 DEF LeavesTruth
  <2>. QED
       BY <1>2, <2>2
<1>. QED
     BY <1>6, <1>7

-------------------------------------------------------------------------------
\* The CLI takes no step of the installer but those of the planner.

LEMMA ManifestIsTyped == BytesAreValues => Manifest \in Manifests
<1> SUFFICES ASSUME BytesAreValues PROVE Manifest \in Manifests
    OBVIOUS
<1> DEFINE D == {UnitOf[a] : a \in Installed}
<1>1. D \subseteq WholeFiles \cup Keys
      BY UnitAssumption DEF Installed
<1>2. Manifest \in [D -> UnitValues]
      BY DEF Manifest, BytesAreValues
<1>. QED
     BY <1>1, <1>2 DEF Manifests, PartialOn

LEMMA ApplyPlans ==
    ASSUME BytesAreValues, [ApplyNext]_allVars
    PROVE  [PlannerNext]_plannerVars
<1>1. CASE UNCHANGED allVars
      BY <1>1 DEF allVars
<1>2. CASE AskAdapters
      BY <1>2 DEF AskAdapters
<1>3. CASE ConfigNext /\ UNCHANGED <<compilerVars, plannerVars>>
      BY <1>3
<1>4. CASE CompileHarness
      BY <1>4 DEF CompileHarness
<1>5. CASE Invoke
      BY <1>5 DEF Invoke
<1>6. ASSUME NEW p \in Sessions, NEW command \in {"plan", "apply"}, Compile(p, command)
      PROVE  PlannerNext
      BY <1>6, ManifestIsTyped DEF Compile, PlannerNext
<1>7. CASE UserEdits \/ \E p \in Sessions : PlannerStep(p)
      BY <1>7 DEF PlannerNext
<1>. QED
     BY <1>1, <1>2, <1>3, <1>4, <1>5, <1>6, <1>7 DEF ApplyNext, Invocations

\* What the user had where Neottia writes is in place or in the receipt, an owned
\* unit holds what the receipt says, and installing again changes nothing, in
\* every history of inspections, approvals, late or repeated applies and edits
\* (inspection.ts, planner.ts and transaction.ts as the CLI drives them).
THEOREM InstallerKeeps == BytesAreValues => (ApplySpec => []InstallationInv)
<1> SUFFICES ASSUME BytesAreValues PROVE ApplySpec => []InstallationInv
    OBVIOUS
<1>1. ApplyInit => PlannerInv /\ ReceiptInv
      BY PlannerInitTypes, InitKept DEF ApplyInit
<1>2. PlannerInv /\ ReceiptInv /\ [ApplyNext]_allVars => (PlannerInv /\ ReceiptInv)'
      BY PlannerNextTypes, NextKept, ApplyPlans
<1>3. PlannerInv /\ ReceiptInv => InstallationInv
      BY InvImplies
<1>. QED
     BY <1>1, <1>2, <1>3, PTL DEF ApplySpec

\* A plan, however old, changes only units that it names, and of what those hold
\* nothing but what the receipt vouches for or an approval gave up.
THEOREM InstallerAsks == BytesAreValues => (ApplySpec => OverwriteNeedsApproval)
<1> SUFFICES ASSUME BytesAreValues PROVE ApplySpec => OverwriteNeedsApproval
    OBVIOUS
<1>1. ApplyInit => PlannerInv
      BY PlannerInitTypes DEF ApplyInit
<1>2. PlannerInv /\ [ApplyNext]_allVars => PlannerInv'
      BY PlannerNextTypes, ApplyPlans
<1> DEFINE AsksFirst ==
      \A p \in Sessions, u \in Units : Apply(p) /\ Held(disk', u) # Held(disk, u) =>
          /\ u \in DOMAIN authorized[p].intends
          /\ \/ Held(disk, u) = NoUnit
             \/ u \in authorized[p].approved
             \/ u \in Owned /\ Held(disk, u) = ReceiptEntries(receipt)[u].sum
<1>3. PlannerInv => AsksFirst
      BY ApplyAsksFirst
<1>4. PlannerInv => [AsksFirst]_plannerVars
      BY <1>3
<1> HIDE DEF AsksFirst
<1>5. ApplySpec => [][AsksFirst]_plannerVars
      BY <1>1, <1>2, <1>4, PTL DEF ApplySpec
<1>. QED
     BY <1>5 DEF OverwriteNeedsApproval, AsksFirst

-------------------------------------------------------------------------------
\* What was read of the configuration.

ReadInv ==
    /\ failed \/ \A f \in DOMAIN parsed : DocumentAccepted(parsed[f])
    /\ snapshot # NoSnapshot => step = "done" /\ ~failed

LoadedInv ==
    /\ \E S : loaded \in Seq(S)
    /\ \A i \in DOMAIN loaded :
          LET name == input.file[loaded[i].kind]
          IN  name \in DOMAIN parsed /\ loaded[i].document = parsed[name]

LEMMA EmptyDomain == DOMAIN <<>> = {}
OBVIOUS

LEMMA OneMore ==
    ASSUME NEW s, NEW S, s \in Seq(S), NEW x
    PROVE  /\ Append(s, x) \in Seq(S \cup {x}) /\ DOMAIN Append(s, x) = DOMAIN s \cup {Len(s) + 1}
           /\ \A i \in DOMAIN s : Append(s, x)[i] = s[i]
           /\ Append(s, x)[Len(s) + 1] = x
<1>1. s \in [1..Len(s) -> S] /\ Len(s) \in Nat
      BY LenProperties
<1>2. s \in Seq(S \cup {x})
      BY <1>1, SeqDef
<1>. QED
     BY <1>2, AppendProperties

LEMMA LoadKeeps ==
    ASSUME ReadInv, LoadedInv, LoadDocument
    PROVE  (ReadInv /\ LoadedInv)'
<1>1. CASE UNCHANGED <<parsed, loaded>> /\ (failed => failed')
      BY <1>1 DEF LoadDocument, ReadInv, LoadedInv, NextStep
<1>2. CASE Load(input.file[step])
  <2> DEFINE f == input.file[step]
             new == [kind |-> step, document |-> DocumentOf(f)]
  <2>1. UNCHANGED <<input, snapshot>> /\ loaded' = Append(loaded, new)
        BY <1>2 DEF LoadDocument, Load
  <2>2. /\ DOMAIN parsed' = DOMAIN parsed \cup {f}
        /\ \A g \in DOMAIN parsed : parsed'[g] = parsed[g]
        /\ parsed'[f] = DocumentOf(f)
        BY <1>2 DEF Load, DocumentOf
  <2>3. ReadInv'
    <3>1. snapshot' = NoSnapshot
          BY <2>1 DEF LoadDocument, ReadInv
    <3>2. failed' \/ (~failed /\ DocumentAccepted(DocumentOf(f)))
          BY <1>2 DEF Load
    <3>3. ASSUME NEW g \in DOMAIN parsed', ~failed' PROVE DocumentAccepted(parsed'[g])
          BY <2>2, <3>2, <3>3 DEF ReadInv
    <3>. QED
         BY <3>1, <3>3 DEF ReadInv
  <2>4. PICK S : loaded \in Seq(S)
        BY DEF LoadedInv
  <2>5. /\ loaded' \in Seq(S \cup {new}) /\ DOMAIN loaded' = DOMAIN loaded \cup {Len(loaded) + 1}
        /\ \A i \in DOMAIN loaded : loaded'[i] = loaded[i]
        /\ loaded'[Len(loaded) + 1] = new
        BY <2>1, <2>4, OneMore
  <2>6. LoadedInv'
        BY <2>1, <2>2, <2>5 DEF LoadedInv
  <2>. QED
       BY <2>3, <2>6
<1>3. CASE /\ input.file[step] # Missing /\ docs[input.file[step]] = Missing
           /\ failed' = (failed \/ input.explicit) /\ UNCHANGED <<parsed, loaded>>
  <2>1. failed => failed'
        BY <1>3
  <2>. QED
       BY <1>1, <1>3, <2>1
<1>. QED
     BY <1>1, <1>2, <1>3 DEF LoadDocument

LEMMA ConfigKeeps ==
    ASSUME ReadInv, LoadedInv, [ApplyNext]_allVars
    PROVE  (ReadInv /\ LoadedInv)'
<1>1. CASE UNCHANGED configVars
      BY <1>1 DEF configVars, ReadInv, LoadedInv
<1>2. CASE LoadDocument
      BY <1>2, LoadKeeps
<1>3. CASE Resolve
  <2> DEFINE merged == Merged(AllLayers)
             accepted == /\ ~failed /\ ProfileDeclared /\ EnvironmentAccepted /\ OverridesAccepted
                         /\ SecretsPopulated(merged) /\ SchemaAccepts(SecretsResolved(merged).value)
  <2>1. /\ failed' = ~accepted /\ snapshot' = IF accepted THEN SecretsResolved(merged) ELSE NoSnapshot
        /\ step' = "done" /\ UNCHANGED <<input, parsed, loaded>>
        BY <1>3 DEF Resolve
  <2>2. accepted => ~failed
        OBVIOUS
  <2> HIDE DEF accepted, merged
  <2>. QED
       BY <2>1, <2>2 DEF ReadInv, LoadedInv
<1>4. CASE \E patch \in input.patches : Derive(patch)
      BY <1>4 DEF Derive, ReadInv, LoadedInv
<1>5. CASE \E f \in DOMAIN docs, document \in input.documents : EditFile(f, document)
      BY <1>5 DEF EditFile, ReadInv, LoadedInv
<1>6. CASE Invoke
  <2>1. /\ DOMAIN parsed' = {} /\ DOMAIN loaded' = {} /\ loaded' \in Seq({})
        /\ snapshot' = NoSnapshot
        BY <1>6, EmptyDomain, EmptySeq DEF Invoke
  <2>. QED
       BY <2>1 DEF ReadInv, LoadedInv
<1>. QED
     BY <1>1, <1>2, <1>3, <1>4, <1>5, <1>6
     DEF ApplyNext, Invocations, allVars, ConfigNext, CompileHarness, Compile, AskAdapters

\* With a snapshot, every document that was read satisfies its schemas, in its
\* unselected profile too, and the two fragments of a file come from one reading
\* of it, whatever is edited between the reads (resolver.ts).
THEOREM WhatIsReadIsChecked == ApplySpec => [](NothingWrongIsHidden /\ OneReading)
<1>1. ApplyInit => ReadInv /\ LoadedInv
  <2>1. <<>> \in Seq({})
        BY EmptySeq
  <2>. QED
       BY <2>1, EmptyDomain DEF ApplyInit, ConfigInit, ReadInv, LoadedInv
<1>2. ReadInv /\ LoadedInv /\ [ApplyNext]_allVars => (ReadInv /\ LoadedInv)'
      BY ConfigKeeps
<1>3. ReadInv /\ LoadedInv => NothingWrongIsHidden /\ OneReading
  <2>1. ReadInv => NothingWrongIsHidden
        BY DEF ReadInv, NothingWrongIsHidden, DocumentAccepted
  <2>2. LoadedInv => OneReading
        BY DEF LoadedInv, OneReading
  <2>. QED
       BY <2>1, <2>2
<1>. QED
     BY <1>1, <1>2, <1>3, PTL DEF ApplySpec

-------------------------------------------------------------------------------
\* Induction over data, by the least counterexample.


Earlier == {s \in Nat \X Nat : s[1] < s[2]}

LEMMA EarlierIsWellFounded == IsWellFoundedOn(Earlier, Nat)
BY NatLessThanWellFounded DEF OpToRel, Earlier

LEMMA LeastNumber ==
    ASSUME NEW T, T \subseteq Nat, T # {}
    PROVE  \E n \in T : \A m \in T : n <= m
<1>1. \E n \in T : \A m \in T : ~ (<<m, n>> \in Earlier)
      BY EarlierIsWellFounded, WFMin
<1>2. \A n, m \in T : ~(<<m, n>> \in Earlier) => n <= m
      BY DEF Earlier
<1>. QED
     BY <1>1, <1>2

LEMMA PathOrder ==
    /\ \A p \in Seq(Names) : Within(p, p)
    /\ \A p, q \in Seq(Names) : Within(p, q) /\ Within(q, p) => p = q
    /\ \A p, q, r \in Seq(Names) : Within(p, q) /\ Within(q, r) => Within(p, r)
    /\ \A p, q, r \in Seq(Names) : Within(p, r) /\ Within(q, r) => Within(p, q) \/ Within(q, p)
    /\ \A p, q \in Seq(Names) : Below(p, q) <=> Within(p, q) /\ p # q
<1>1. \A p, q \in Seq(Names) :
         Within(p, q) <=> Len(p) <= Len(q) /\ \A i \in 1 .. Len(p) : p[i] = q[i]
  <2>1. SUFFICES ASSUME NEW p \in Seq(Names), NEW q \in Seq(Names)
                 PROVE  Within(p, q) <=> Len(p) <= Len(q) /\ \A i \in 1 .. Len(p) : p[i] = q[i]
        OBVIOUS
  <2>2. SubSeq(p, 1, Len(p)) = p
        BY SubSeqFull
  <2>3. CASE Len(p) <= Len(q)
    <3>1. /\ SubSeq(q, 1, Len(p)) \in Seq(Names) /\ Len(SubSeq(q, 1, Len(p))) = Len(p)
          /\ \A i \in 1 .. Len(p) : SubSeq(q, 1, Len(p))[i] = q[i]
          BY <2>3, LenProperties
    <3>2. p = SubSeq(q, 1, Len(p)) <=> \A i \in 1 .. Len(p) : p[i] = q[i]
          BY <3>1, SeqEqual, LenProperties
    <3>. QED
         BY <2>2, <2>3, <3>2 DEF Within, IsPrefix
  <2>. QED
       BY <2>3 DEF Within, IsPrefix
<1>2. \A p, q \in Seq(Names) : Within(p, q) /\ Within(q, p) => p = q
  <2>. TAKE p, q \in Seq(Names)
  <2>. HAVE Within(p, q) /\ Within(q, p)
  <2>1. Len(p) = Len(q) /\ \A i \in 1 .. Len(p) : p[i] = q[i]
        BY <1>1, LenProperties
  <2>. QED
       BY <2>1, SeqEqual, LenProperties
<1>3. \A p, q, r \in Seq(Names) : Within(p, q) /\ Within(q, r) => Within(p, r)
      BY <1>1, LenProperties
<1>4. \A p, q, r \in Seq(Names) : Within(p, r) /\ Within(q, r) => Within(p, q) \/ Within(q, p)
      BY <1>1, LenProperties
<1>. QED
     BY <1>1, <1>2, <1>3, <1>4 DEF Within, Below, IsPrefix, IsStrictPrefix

LEMMA HighestPath ==
    ASSUME NEW T, T \subseteq Seq(Names), T # {}
    PROVE  \E p \in T : \A q \in T : ~Below(q, p)
<1>1. PICK p \in T : \A q \in T : Len(p) <= Len(q)
  <2>1. {Len(p) : p \in T} \subseteq Nat /\ {Len(p) : p \in T} # {}
        BY LenProperties
  <2>2. PICK n \in {Len(p) : p \in T} : \A m \in {Len(p) : p \in T} : n <= m
        BY <2>1, LeastNumber
  <2>. QED
       BY <2>2
<1>2. ASSUME NEW q \in T, Below(q, p) PROVE FALSE
  <2>1. Len(q) = Len(p)
        BY <1>1, <1>2, LenProperties DEF Below, IsStrictPrefix, IsPrefix
  <2>2. SubSeq(q, 1, Len(q)) = q /\ SubSeq(p, 1, Len(p)) = p
        BY SubSeqFull
  <2>. QED
       BY <1>2, <2>1, <2>2 DEF Below, IsStrictPrefix, IsPrefix
<1>. QED
     BY <1>2

LEMMA NodesOfTree ==
    ASSUME NEW t, IsTree(t)
    PROVE  /\ Nodes(t) \subseteq Seq(Names)
           /\ \A p \in Seq(Names) : p \in Nodes(t) <=> \E q \in DOMAIN t : Within(p, q)
<1>1. ASSUME NEW q \in DOMAIN t, NEW n \in 0 .. Len(q)
      PROVE  SubSeq(q, 1, n) \in Seq(Names) /\ Within(SubSeq(q, 1, n), q)
  <2>1. q \in Seq(Names)
        BY DEF IsTree
  <2> DEFINE p == SubSeq(q, 1, n)
  <2>2. p \in Seq(Names) /\ Len(p) = n /\ n <= Len(q)
        BY <2>1, LenProperties
  <2>3. p = SubSeq(q, 1, Len(p))
        BY <2>2
  <2>. HIDE DEF p
  <2>4. SubSeq(p, 1, Len(p)) = p
        BY <2>2, SubSeqFull
  <2>5. Within(p, q)
        BY <2>2, <2>3, <2>4 DEF Within, IsPrefix
  <2>. QED
       BY <2>2, <2>5 DEF p
<1>2. Nodes(t) \subseteq Seq(Names)
      BY <1>1 DEF Nodes
<1>3. ASSUME NEW p \in Nodes(t) PROVE \E q \in DOMAIN t : Within(p, q)
      BY <1>1 DEF Nodes
<1>4. ASSUME NEW p \in Seq(Names), NEW q \in DOMAIN t, Within(p, q) PROVE p \in Nodes(t)
  <2>1. q \in Seq(Names)
        BY DEF IsTree
  <2>2. p = SubSeq(q, 1, Len(p)) /\ Len(p) \in 0 .. Len(q)
        BY <1>4, <2>1, SubSeqFull, LenProperties DEF Within, IsPrefix
  <2>3. p \in {SubSeq(q, 1, n) : n \in 0 .. Len(q)}
        BY <2>2
  <2>. QED
       BY <2>3, Zenon DEF Nodes
<1>. QED
     BY <1>2, <1>3, <1>4

\* Where the recursion of mergeValues goes on.
Shared(lower, higher, p) == IsMapping(lower, p) /\ IsMapping(higher, p)

LEMMA ReplacedAbove ==
    ASSUME NEW lower, NEW higher, IsTree(lower), IsTree(higher),
           NEW p \in Nodes(higher), ~Shared(lower, higher, p)
    PROVE  \E r \in Replaced(lower, higher) : Within(r, p)
<1> DEFINE T == {q \in Nodes(higher) : Within(q, p) /\ ~Shared(lower, higher, q)}
<1>1. Nodes(higher) \subseteq Seq(Names)
      BY NodesOfTree
<1>2. p \in T
      BY <1>1, PathOrder
<1>3. PICK r \in T : \A q \in T : ~Below(q, r)
      BY <1>1, <1>2, HighestPath
<1>4. ASSUME NEW q \in Nodes(higher), Below(q, r) PROVE Shared(lower, higher, q)
      BY <1>1, <1>3, <1>4, PathOrder
<1>5. r \in Replaced(lower, higher)
      BY <1>3, <1>4 DEF Replaced, Shared
<1>. QED
     BY <1>3, <1>5

\* What is above a shared node is shared, so that nothing above it is replaced.
LEMMA SharedAbove ==
    ASSUME NEW lower, NEW higher, IsTree(lower), IsTree(higher),
           NEW p \in Seq(Names), Shared(lower, higher, p), NEW r \in Seq(Names), Within(r, p)
    PROVE  Shared(lower, higher, r)
<1>1. ASSUME NEW t, IsTree(t), IsMapping(t, p) PROVE IsMapping(t, r)
  <2>1. PICK q \in DOMAIN t : Within(p, q)
        BY <1>1, NodesOfTree DEF IsMapping
  <2>2. q \in Seq(Names) /\ Within(r, q)
        BY <1>1, <2>1, PathOrder DEF IsTree
  <2>3. r \in Nodes(t)
        BY <1>1, <2>2, NodesOfTree
  <2>4. ASSUME r \in DOMAIN t PROVE r = p
    <3>1. ~Below(r, q)
          BY <1>1, <2>1, <2>4 DEF IsTree
    <3>2. r = q
          BY <2>2, <3>1, PathOrder
    <3>. QED
         BY <2>1, <3>2, PathOrder
  <2>. QED
       BY <1>1, <2>3, <2>4 DEF IsMapping
<1>. QED
     BY <1>1 DEF Shared

\* The leaves of a merge: those of the higher tree that it does not share, and
\* those of the lower one that are neither replaced nor become a mapping.
LEMMA LeavesOfMerge ==
    ASSUME NEW lower, NEW higher, IsTree(lower), IsTree(higher)
    PROVE  LET merge == Merge(lower, higher)
               points == Replaced(lower, higher)
           IN  /\ DOMAIN merge =
                     {p \in DOMAIN higher : ~Shared(lower, higher, p)}
                     \cup {q \in DOMAIN lower : \A r \in points : ~Within(r, q) /\ ~Below(q, r)}
               /\ \A p \in DOMAIN merge :
                     merge[p] = IF p \in DOMAIN higher /\ ~Shared(lower, higher, p) THEN higher[p] ELSE lower[p]
<1> DEFINE points == Replaced(lower, higher)
           mine == {p \in DOMAIN higher : \E r \in points : Within(r, p)}
<1>1. mine = {p \in DOMAIN higher : ~Shared(lower, higher, p)}
  <2>1. ASSUME NEW p \in DOMAIN higher, ~Shared(lower, higher, p) PROVE p \in mine
    <3>1. p \in Nodes(higher)
          BY NodesOfTree, PathOrder DEF IsTree
    <3>. QED
         BY <2>1, <3>1, ReplacedAbove
  <2>2. ASSUME NEW p \in DOMAIN higher, Shared(lower, higher, p), NEW r \in points, Within(r, p) PROVE FALSE
    <3>1. r \in Seq(Names) /\ ~Shared(lower, higher, r)
          BY NodesOfTree DEF Replaced, Shared
    <3>2. p \in Seq(Names)
          BY DEF IsTree
    <3>. QED
         BY <2>2, <3>1, <3>2, SharedAbove
  <2>. QED
       BY <2>1, <2>2
<1>. HIDE DEF points
<1>2. Merge(lower, higher) =
         [p \in mine \cup {q \in DOMAIN lower : (\A r \in points : ~Within(r, q)) /\ ~(\E r \in points : Below(q, r))}
          |-> IF p \in mine THEN higher[p] ELSE lower[p]]
      BY DEF Merge, points
<1>. QED
     BY <1>1, <1>2 DEF points

LEMMA MergeIsTree ==
    ASSUME NEW lower, NEW higher, IsTree(lower), IsTree(higher)
    PROVE  IsTree(Merge(lower, higher))
<1> DEFINE merge == Merge(lower, higher)
           points == Replaced(lower, higher)
           mine == {p \in DOMAIN higher : ~Shared(lower, higher, p)}
           theirs == {q \in DOMAIN lower : \A r \in points : ~Within(r, q) /\ ~Below(q, r)}
<1>1. DOMAIN merge = mine \cup theirs
      BY LeavesOfMerge
<1>. HIDE DEF merge
<1>2. points \subseteq Seq(Names)
      BY NodesOfTree DEF Replaced
<1>3. \A p \in mine : \E r \in points : Within(r, p)
  <2>. TAKE p \in mine
  <2>1. p \in Nodes(higher)
        BY NodesOfTree, PathOrder DEF IsTree
  <2>. QED
       BY <2>1, ReplacedAbove
<1>. HIDE DEF points
<1>4. ASSUME NEW p \in mine, NEW q \in theirs PROVE ~Below(p, q) /\ ~Below(q, p)
  <2>1. PICK r \in points : Within(r, p)
        BY <1>3
  <2>2. {p, q, r} \subseteq Seq(Names)
        BY <1>2 DEF IsTree
  <2>3. ~Within(r, q) /\ ~Below(q, r)
        BY <1>4
  <2>. QED
       BY <2>1, <2>2, <2>3, PathOrder
<1>5. mine \subseteq DOMAIN higher /\ theirs \subseteq DOMAIN lower
      OBVIOUS
<1>. HIDE DEF mine, theirs
<1>. QED
     BY <1>1, <1>4, <1>5 DEF IsTree, merge

\* A scalar of the lower tree stays unless the higher one covers it.
LEMMA StayingScalars ==
    ASSUME NEW lower, NEW higher, IsTree(lower), IsTree(higher), NEW q \in Scalars(lower)
    PROVE  (\A r \in Replaced(lower, higher) : ~Within(r, q) /\ ~Below(q, r)) <=> ~Covers(higher, q)
<1> DEFINE points == Replaced(lower, higher)
<1>1. q \in Seq(Names) /\ q \in DOMAIN lower /\ ~IsMapping(lower, q)
      BY DEF IsTree, Scalars, IsMapping
<1>2. ASSUME NEW r \in points, Below(q, r) \/ Within(r, q) PROVE Covers(higher, q)
  <2>1. r \in Seq(Names) /\ r \in Nodes(higher) /\ ~Shared(lower, higher, r)
        BY NodesOfTree DEF Replaced, Shared
  <2>2. PICK h \in DOMAIN higher : Within(r, h)
        BY <2>1, NodesOfTree
  <2>3. h \in Seq(Names)
        BY DEF IsTree
  <2>4. CASE Below(q, r) \/ r = q
        BY <1>1, <2>1, <2>2, <2>3, <2>4, PathOrder DEF Covers
  <2>5. CASE Within(r, q) /\ r # q
    <3>1. r \notin DOMAIN lower
          BY <1>1, <2>1, <2>5, PathOrder DEF IsTree
    <3>2. IsMapping(lower, r)
          BY <1>1, <2>1, <2>5, <3>1, NodesOfTree DEF IsMapping
    <3>3. r \in DOMAIN higher /\ higher[r] # Empty
          BY <2>1, <3>2 DEF Shared, IsMapping
    <3>. QED
         BY <2>5, <3>3 DEF Covers
  <2>. QED
       BY <1>2, <2>4, <2>5
<1>3. ASSUME NEW h \in DOMAIN higher, (Within(h, q) /\ higher[h] # Empty) \/ Within(q, h)
      PROVE  \E r \in points : Within(r, q) \/ Below(q, r)
  <2>1. h \in Seq(Names) /\ h \in Nodes(higher)
        BY NodesOfTree, PathOrder DEF IsTree
  <2>2. CASE Within(h, q) /\ higher[h] # Empty
    <3>1. ~Shared(lower, higher, h)
          BY <2>2 DEF Shared, IsMapping
    <3>2. PICK r \in points : Within(r, h)
          BY <2>1, <3>1, ReplacedAbove
    <3>3. r \in Seq(Names)
          BY NodesOfTree DEF Replaced
    <3>. QED
         BY <1>1, <2>1, <2>2, <3>2, <3>3, PathOrder
  <2>3. CASE Within(q, h)
    <3>1. q \in Nodes(higher) /\ ~Shared(lower, higher, q)
          BY <1>1, <2>3, NodesOfTree DEF Shared
    <3>. QED
         BY <3>1, ReplacedAbove
  <2>. QED
       BY <1>3, <2>2, <2>3
<1>. QED
     BY <1>2, <1>3 DEF Covers

\* The precedence of one layer over what is below it: its scalars win, and of
\* the scalars below those stay that it does not cover.
LEMMA ScalarsOfMerge ==
    ASSUME NEW lower, NEW higher, IsTree(lower), IsTree(higher)
    PROVE  LET merge == Merge(lower, higher)
           IN  /\ Scalars(merge) = Scalars(higher) \cup {p \in Scalars(lower) : ~Covers(higher, p)}
               /\ \A p \in Scalars(merge) : merge[p] = IF p \in Scalars(higher) THEN higher[p] ELSE lower[p]
<1> DEFINE merge == Merge(lower, higher)
           points == Replaced(lower, higher)
           mine == {p \in DOMAIN higher : ~Shared(lower, higher, p)}
           theirs == {q \in DOMAIN lower : \A r \in points : ~Within(r, q) /\ ~Below(q, r)}
<1>1. /\ DOMAIN merge = mine \cup theirs
      /\ \A p \in DOMAIN merge : merge[p] = IF p \in mine THEN higher[p] ELSE lower[p]
      BY LeavesOfMerge
<1>. HIDE DEF merge
<1>2. Scalars(higher) \subseteq mine
      BY DEF Scalars, Shared, IsMapping
<1>3. ASSUME NEW q \in Scalars(lower) PROVE q \in theirs <=> ~Covers(higher, q)
      BY <1>3, StayingScalars DEF Scalars
<1>4. ASSUME NEW p \in DOMAIN higher PROVE Covers(higher, p)
      BY PathOrder DEF Covers, IsTree
<1>. HIDE DEF theirs
<1>5. theirs \subseteq DOMAIN lower
      BY DEF theirs
<1>. HIDE DEF mine
<1>6. ASSUME NEW p \in Scalars(merge)
      PROVE  /\ p \in Scalars(higher) \/ (p \in Scalars(lower) /\ ~Covers(higher, p))
             /\ merge[p] = IF p \in Scalars(higher) THEN higher[p] ELSE lower[p]
  <2>1. CASE p \in mine
        BY <1>1, <2>1 DEF Scalars, mine
  <2>2. CASE p \notin mine
    <3>1. p \in theirs /\ p \in Scalars(lower) /\ merge[p] = lower[p]
          BY <1>1, <1>5, <2>2 DEF Scalars
    <3>. QED
         BY <1>2, <1>3, <2>2, <3>1
  <2>. QED
       BY <2>1, <2>2
<1>7. ASSUME NEW p, p \in Scalars(higher) \/ (p \in Scalars(lower) /\ ~Covers(higher, p))
      PROVE  p \in Scalars(merge)
  <2>1. CASE p \in Scalars(higher)
        BY <1>1, <1>2, <2>1 DEF Scalars
  <2>2. CASE p \notin Scalars(higher) /\ p \in Scalars(lower) /\ ~Covers(higher, p)
    <3>1. p \in theirs /\ p \notin mine
          BY <1>3, <1>4, <2>2 DEF mine
    <3>. QED
         BY <1>1, <2>2, <3>1 DEF Scalars
  <2>. QED
       BY <1>7, <2>1, <2>2
<1>. QED
     BY <1>6, <1>7 DEF merge

LEMMA SourcesOfMerge ==
    ASSUME NEW lower, NEW higher, IsTree(lower), IsTree(higher),
           NEW sources, DOMAIN sources = Scalars(lower), NEW source
    PROVE  LET new == MergeSources(sources, lower, higher, source)
           IN  /\ DOMAIN new = Scalars(Merge(lower, higher))
               /\ \A p \in DOMAIN new : new[p] = IF p \in Scalars(higher) THEN source ELSE sources[p]
<1> DEFINE new == MergeSources(sources, lower, higher, source)
           points == Replaced(lower, higher)
           mine == {p \in Scalars(higher) : \E r \in points : Within(r, p)}
           theirs == {q \in DOMAIN sources : \A r \in points : ~Within(r, q)}
<1>1. new = [p \in mine \cup theirs |-> IF p \in mine THEN source ELSE sources[p]]
      BY DEF MergeSources
<1>2. mine = Scalars(higher)
  <2>1. ASSUME NEW p \in Scalars(higher) PROVE \E r \in points : Within(r, p)
    <3>1. p \in Nodes(higher) /\ ~Shared(lower, higher, p)
          BY NodesOfTree, PathOrder DEF IsTree, Scalars, Shared, IsMapping
    <3>. QED
         BY <3>1, ReplacedAbove
  <2>. QED
       BY <2>1
<1>3. ASSUME NEW q \in Scalars(lower), NEW r \in points PROVE ~Below(q, r)
  <2>1. SUFFICES ASSUME Below(q, r) PROVE FALSE
        OBVIOUS
  <2>2. r \in Seq(Names) /\ q \in Seq(Names) /\ r \in Nodes(higher)
        BY NodesOfTree DEF Replaced, IsTree, Scalars
  <2>3. q \in Nodes(higher)
        BY <2>1, <2>2, NodesOfTree, PathOrder DEF IsTree
  <2>. QED
       BY <2>1, <2>3 DEF Replaced, IsMapping, Scalars
<1>4. ASSUME NEW q \in Scalars(lower) PROVE q \in theirs <=> ~Covers(higher, q)
      BY <1>3, <1>4, StayingScalars
<1>5. theirs = {q \in Scalars(lower) : ~Covers(higher, q)}
      BY <1>4
<1>. HIDE DEF mine, theirs, points
<1>. QED
     BY <1>1, <1>2, <1>5, ScalarsOfMerge


SuppliesUpTo(ls, n, i, p) ==
    p \in Scalars(ls[i].patch) /\ \A j \in i + 1 .. n : ~Covers(ls[j].patch, p)

\* What mergeLayers owes after the first n layers.
Resolves(res, ls, n) ==
    /\ res = [value |-> res.value, sources |-> res.sources]
    /\ IsTree(res.value) /\ DOMAIN res.sources = Scalars(res.value)
    /\ \A p \in Scalars(res.value) : \E i \in 1 .. n : SuppliesUpTo(ls, n, i, p)
    /\ \A i \in 1 .. n : \A p \in Scalars(ls[i].patch) : SuppliesUpTo(ls, n, i, p) =>
          /\ p \in Scalars(res.value) /\ res.value[p] = ls[i].patch[p]
          /\ res.sources[p] = ls[i].source

LEMMA TopSupplies ==
    ASSUME NEW ls, NEW n \in Nat, NEW p
    PROVE  /\ SuppliesUpTo(ls, n + 1, n + 1, p) <=> p \in Scalars(ls[n + 1].patch)
           /\ \A i \in 1 .. n : SuppliesUpTo(ls, n + 1, i, p)
                                  <=> SuppliesUpTo(ls, n, i, p) /\ ~Covers(ls[n + 1].patch, p)
<1>1. n + 1 + 1 .. n + 1 = {}
      OBVIOUS
<1>2. \A i \in 1 .. n : i + 1 .. n + 1 = (i + 1 .. n) \cup {n + 1}
      OBVIOUS
<1>. QED
     BY <1>1, <1>2 DEF SuppliesUpTo

LEMMA ScalarsAreCovered ==
    ASSUME NEW t, IsTree(t), NEW p \in Scalars(t)
    PROVE  Covers(t, p)
BY PathOrder DEF Covers, IsTree, Scalars

LEMMA OneLayerMore ==
    ASSUME NEW ls, NEW n \in Nat, NEW res, Resolves(res, ls, n), IsTree(ls[n + 1].patch)
    PROVE  Resolves(ApplyLayer(res, ls[n + 1]), ls, n + 1)
<1> DEFINE higher == ls[n + 1].patch
           new == ApplyLayer(res, ls[n + 1])
<1>1. /\ new.value = Merge(res.value, higher)
      /\ new.sources = MergeSources(res.sources, res.value, higher, ls[n + 1].source)
      /\ new = [value |-> new.value, sources |-> new.sources]
      BY DEF ApplyLayer
<1>2. IsTree(res.value) /\ DOMAIN res.sources = Scalars(res.value)
      BY DEF Resolves
<1>. HIDE DEF new
<1>3. IsTree(new.value)
      BY <1>1, <1>2, MergeIsTree
<1>4. /\ Scalars(new.value) = Scalars(higher) \cup {p \in Scalars(res.value) : ~Covers(higher, p)}
      /\ \A p \in Scalars(new.value) :
            new.value[p] = IF p \in Scalars(higher) THEN higher[p] ELSE res.value[p]
      BY <1>1, <1>2, ScalarsOfMerge
<1>5. /\ DOMAIN new.sources = Scalars(new.value)
      /\ \A p \in Scalars(new.value) :
            new.sources[p] = IF p \in Scalars(higher) THEN ls[n + 1].source ELSE res.sources[p]
      BY <1>1, <1>2, SourcesOfMerge
<1>6. \A p \in Scalars(higher) : Covers(higher, p)
      BY ScalarsAreCovered
<1>7. ASSUME NEW p \in Scalars(new.value) PROVE \E i \in 1 .. n + 1 : SuppliesUpTo(ls, n + 1, i, p)
  <2>1. CASE p \in Scalars(higher)
    <3>1. SuppliesUpTo(ls, n + 1, n + 1, p) /\ n + 1 \in 1 .. n + 1
          BY <2>1, TopSupplies
    <3>. QED
         BY <3>1
  <2>2. CASE p \in Scalars(res.value) /\ ~Covers(higher, p)
    <3>1. PICK i \in 1 .. n : SuppliesUpTo(ls, n, i, p)
          BY <2>2 DEF Resolves
    <3>2. SuppliesUpTo(ls, n + 1, i, p) /\ i \in 1 .. n + 1
          BY <2>2, <3>1, TopSupplies
    <3>. QED
         BY <3>2
  <2>. QED
       BY <1>4, <1>7, <2>1, <2>2
<1>8. ASSUME NEW i \in 1 .. n + 1, NEW p \in Scalars(ls[i].patch), SuppliesUpTo(ls, n + 1, i, p)
      PROVE  /\ p \in Scalars(new.value) /\ new.value[p] = ls[i].patch[p]
             /\ new.sources[p] = ls[i].source
  <2>1. CASE i = n + 1
        BY <1>4, <1>5, <2>1
  <2>2. CASE i \in 1 .. n
    <3>1. SuppliesUpTo(ls, n, i, p) /\ ~Covers(higher, p)
          BY <1>8, <2>2, TopSupplies
    <3>2. p \in Scalars(res.value) /\ res.value[p] = ls[i].patch[p] /\ res.sources[p] = ls[i].source
          BY <2>2, <3>1 DEF Resolves
    <3>. QED
         BY <1>4, <1>5, <1>6, <3>1, <3>2
  <2>. QED
       BY <2>1, <2>2
<1>. QED
     BY <1>1, <1>3, <1>5, <1>7, <1>8 DEF Resolves, new

LEMMA FirstLayer ==
    ASSUME NEW ls, IsTree(ls[1].patch)
    PROVE  Resolves(OnlyLayer(ls[1]), ls, 1)
<1>1. /\ OnlyLayer(ls[1]).value = ls[1].patch
      /\ OnlyLayer(ls[1]).sources = [p \in Scalars(ls[1].patch) |-> ls[1].source]
      /\ OnlyLayer(ls[1]) = [value |-> OnlyLayer(ls[1]).value, sources |-> OnlyLayer(ls[1]).sources]
      BY DEF OnlyLayer
<1>2. \A i \in 1 .. 1 : i = 1
      OBVIOUS
<1>3. 1 + 1 .. 1 = {} /\ 1 \in 1 .. 1
      OBVIOUS
<1>4. \A p \in Scalars(ls[1].patch) : SuppliesUpTo(ls, 1, 1, p)
      BY <1>3 DEF SuppliesUpTo
<1>. QED
     BY <1>1, <1>2, <1>3, <1>4 DEF Resolves

\* The recursion of Merged is one that a function solves.
UpTo(ls, n, f) ==
    f = [i \in 1 .. n |-> IF i = 1 THEN OnlyLayer(ls[1]) ELSE ApplyLayer(f[i - 1], ls[i])]

LEMMA MergedUnfolds ==
    ASSUME NEW ls, NEW size \in Nat
    PROVE  \E f : UpTo(ls, size, f)
<1> DEFINE T == {n \in Nat : ~ \E f : UpTo(ls, n, f)}
<1>1. SUFFICES ASSUME T # {} PROVE FALSE
      OBVIOUS
<1>2. PICK n \in T : \A m \in T : n <= m
      BY <1>1, LeastNumber
<1>3. n # 0
  <2>1. UpTo(ls, 0, [i \in {} |-> 0])
        BY DEF UpTo
  <2>. QED
       BY <1>2, <2>1
<1>4. n - 1 \in Nat /\ n - 1 \notin T
      BY <1>2, <1>3
<1>5. PICK f : UpTo(ls, n - 1, f)
      BY <1>4
<1> DEFINE e(g, i) == IF i = 1 THEN OnlyLayer(ls[1]) ELSE ApplyLayer(g[i - 1], ls[i])
           h == [i \in 1 .. n |-> IF i < n THEN f[i] ELSE e(f, n)]
<1>6. ASSUME NEW i \in 1 .. n PROVE h[i] = e(h, i)
  <2>1. CASE i < n
    <3>1. i \in 1 .. n - 1
          BY <1>4, <2>1
    <3>2. h[i] = f[i] /\ f[i] = e(f, i)
          BY <1>5, <2>1, <3>1 DEF UpTo
    <3>3. i # 1 => h[i - 1] = f[i - 1]
          BY <2>1
    <3>. QED
         BY <3>2, <3>3
  <2>2. CASE i = n
    <3>1. i # 1 => h[i - 1] = f[i - 1]
          BY <2>2
    <3>. QED
         BY <2>2, <3>1
  <2>. QED
       BY <1>2, <2>1, <2>2
<1>7. h = [i \in 1 .. n |-> e(h, i)]
      BY <1>6
<1>. HIDE DEF h
<1>8. UpTo(ls, n, h)
      BY <1>7 DEF UpTo
<1>. QED
     BY <1>2, <1>8

LEMMA MergedResolves ==
    ASSUME NEW ls, Len(ls) \in Nat \ {0}, \A n \in 1 .. Len(ls) : IsTree(ls[n].patch)
    PROVE  Resolves(Merged(ls), ls, Len(ls))
<1> DEFINE size == Len(ls)
           f == CHOOSE g : g = [n \in 1 .. size |-> IF n = 1 THEN OnlyLayer(ls[1]) ELSE ApplyLayer(g[n - 1], ls[n])]
<1>1. UpTo(ls, size, f)
  <2>1. \E g : g = [n \in 1 .. size |-> IF n = 1 THEN OnlyLayer(ls[1]) ELSE ApplyLayer(g[n - 1], ls[n])]
        BY MergedUnfolds DEF UpTo
  <2>2. f = [n \in 1 .. size |-> IF n = 1 THEN OnlyLayer(ls[1]) ELSE ApplyLayer(f[n - 1], ls[n])]
        BY <2>1, Zenon
  <2>. QED
       BY <2>2, Zenon DEF UpTo
<1>2. Merged(ls) = f[size]
      BY Zenon DEF Merged
<1>. HIDE DEF f
<1>3. \A n \in 1 .. size : f[n] = IF n = 1 THEN OnlyLayer(ls[1]) ELSE ApplyLayer(f[n - 1], ls[n])
      BY <1>1 DEF UpTo
<1> DEFINE T == {n \in 1 .. size : ~Resolves(f[n], ls, n)}
<1>4. SUFFICES ASSUME T # {} PROVE FALSE
      BY <1>2
<1>5. PICK n \in T : \A m \in T : n <= m
  <2>1. T \subseteq Nat
        OBVIOUS
  <2>. HIDE DEF T
  <2>. QED
       BY <1>4, <2>1, LeastNumber
<1>6. n # 1
  <2>1. Resolves(OnlyLayer(ls[1]), ls, 1)
        BY FirstLayer
  <2>. QED
       BY <1>3, <1>5, <2>1
<1>7. n - 1 \in Nat /\ n - 1 \in 1 .. size /\ (n - 1) + 1 = n
      BY <1>5, <1>6
<1>8. Resolves(f[n - 1], ls, n - 1)
      BY <1>5, <1>7
<1>9. Resolves(ApplyLayer(f[n - 1], ls[n]), ls, n)
      BY <1>5, <1>7, <1>8, OneLayerMore
<1>. QED
     BY <1>3, <1>5, <1>6, <1>9


\* FlattenSeq: its recursion has a solution.
FlatUpTo(seqs, n, f) == f = [i \in 1 .. n |-> IF i = 1 THEN seqs[i] ELSE f[i - 1] \o seqs[i]]

LEMMA FlattenUnfolds ==
    ASSUME NEW seqs, NEW size \in Nat
    PROVE  \E f : FlatUpTo(seqs, size, f)
<1> DEFINE T == {n \in Nat : ~ \E f : FlatUpTo(seqs, n, f)}
<1>1. SUFFICES ASSUME T # {} PROVE FALSE
      OBVIOUS
<1>2. PICK n \in T : \A m \in T : n <= m
      BY <1>1, LeastNumber
<1>3. n # 0
  <2>1. FlatUpTo(seqs, 0, [i \in {} |-> 0])
        BY DEF FlatUpTo
  <2>. QED
       BY <1>2, <2>1
<1>4. n - 1 \in Nat /\ n - 1 \notin T
      BY <1>2, <1>3
<1>5. PICK f : FlatUpTo(seqs, n - 1, f)
      BY <1>4
<1> DEFINE e(g, i) == IF i = 1 THEN seqs[i] ELSE g[i - 1] \o seqs[i]
           h == [i \in 1 .. n |-> IF i < n THEN f[i] ELSE e(f, n)]
<1>6. ASSUME NEW i \in 1 .. n PROVE h[i] = e(h, i)
  <2>1. CASE i < n
    <3>1. i \in 1 .. n - 1
          BY <1>4, <2>1
    <3>2. h[i] = f[i] /\ f[i] = e(f, i)
          BY <1>5, <2>1, <3>1 DEF FlatUpTo
    <3>3. i # 1 => h[i - 1] = f[i - 1]
          BY <2>1
    <3>. QED
         BY <3>2, <3>3
  <2>2. CASE i = n
    <3>1. i # 1 => h[i - 1] = f[i - 1]
          BY <2>2
    <3>. QED
         BY <2>2, <3>1
  <2>. QED
       BY <1>2, <2>1, <2>2
<1>7. h = [i \in 1 .. n |-> e(h, i)]
      BY <1>6
<1>. HIDE DEF h
<1>8. FlatUpTo(seqs, n, h)
      BY <1>7 DEF FlatUpTo
<1>. QED
     BY <1>2, <1>8

LEMMA FlattenSteps ==
    ASSUME NEW seqs, Len(seqs) \in Nat \ {0}
    PROVE  \E f : FlatUpTo(seqs, Len(seqs), f) /\ FlattenSeq(seqs) = f[Len(seqs)]
<1> DEFINE f == CHOOSE g : g = [i \in 1 .. Len(seqs) |-> IF i = 1 THEN seqs[i] ELSE g[i - 1] \o seqs[i]]
<1>1. \E g : g = [i \in 1 .. Len(seqs) |-> IF i = 1 THEN seqs[i] ELSE g[i - 1] \o seqs[i]]
      BY FlattenUnfolds DEF FlatUpTo
<1>2. f = [i \in 1 .. Len(seqs) |-> IF i = 1 THEN seqs[i] ELSE f[i - 1] \o seqs[i]]
      BY <1>1, Zenon
<1>3. FlattenSeq(seqs) = f[Len(seqs)]
      BY Zenon DEF FlattenSeq
<1>. HIDE DEF f
<1>. QED
     BY <1>2, <1>3, Zenon DEF FlatUpTo

\* R relates every two elements of s in their order.
OrderedBy(R, s) == \A i, j \in DOMAIN s : i < j => <<s[i], s[j]>> \in R

LEMMA ConcatOrdered ==
    ASSUME NEW S, NEW R, NEW s \in Seq(S), NEW t \in Seq(S), OrderedBy(R, s), OrderedBy(R, t),
           \A i \in DOMAIN s : \A j \in DOMAIN t : <<s[i], t[j]>> \in R
    PROVE  OrderedBy(R, s \o t)
<1> DEFINE u == s \o t
<1>1. /\ u \in Seq(S) /\ Len(u) = Len(s) + Len(t)
      /\ \A i \in 1 .. Len(u) : u[i] = IF i <= Len(s) THEN s[i] ELSE t[i - Len(s)]
      BY ConcatProperties
<1>2. DOMAIN s = 1 .. Len(s) /\ DOMAIN t = 1 .. Len(t) /\ DOMAIN u = 1 .. Len(u)
      BY <1>1, LenProperties
<1>3. Len(s) \in Nat /\ Len(t) \in Nat
      BY LenProperties
<1>. HIDE DEF u
<1>4. ASSUME NEW i \in 1 .. Len(u), NEW j \in 1 .. Len(u), i < j PROVE <<u[i], u[j]>> \in R
  <2>1. CASE j <= Len(s)
    <3>1. i \in DOMAIN s /\ j \in DOMAIN s /\ u[i] = s[i] /\ u[j] = s[j]
          BY <1>1, <1>2, <1>3, <1>4, <2>1
    <3>. QED
         BY <1>4, <3>1 DEF OrderedBy
  <2>2. CASE i <= Len(s) /\ ~(j <= Len(s))
    <3>1. i \in DOMAIN s /\ j - Len(s) \in DOMAIN t /\ u[i] = s[i] /\ u[j] = t[j - Len(s)]
          BY <1>1, <1>2, <1>3, <1>4, <2>2
    <3>. QED
         BY <3>1
  <2>3. CASE ~(i <= Len(s)) /\ ~(j <= Len(s))
    <3>1. /\ i - Len(s) \in DOMAIN t /\ j - Len(s) \in DOMAIN t /\ i - Len(s) < j - Len(s)
          /\ u[i] = t[i - Len(s)] /\ u[j] = t[j - Len(s)]
          BY <1>1, <1>2, <1>3, <1>4, <2>3
    <3>. QED
         BY <3>1 DEF OrderedBy
  <2>. QED
       BY <1>3, <1>4, <2>1, <2>2, <2>3
<1>. QED
     BY <1>2, <1>4 DEF OrderedBy, u

\* What a flattened sequence of sequences holds, and in which order.
LEMMA FlattenProperties ==
    ASSUME NEW S, NEW seqs \in Seq(Seq(S))
    PROVE  /\ FlattenSeq(seqs) \in Seq(S)
           /\ \A i \in DOMAIN FlattenSeq(seqs) :
                 \E n \in DOMAIN seqs : \E m \in DOMAIN seqs[n] : FlattenSeq(seqs)[i] = seqs[n][m]
           /\ \A n \in DOMAIN seqs : \A m \in DOMAIN seqs[n] :
                 \E i \in DOMAIN FlattenSeq(seqs) : FlattenSeq(seqs)[i] = seqs[n][m]
           /\ \A R : /\ \A n \in DOMAIN seqs : OrderedBy(R, seqs[n])
                     /\ \A n1, n2 \in DOMAIN seqs : n1 < n2 =>
                           \A i \in DOMAIN seqs[n1] : \A j \in DOMAIN seqs[n2] : <<seqs[n1][i], seqs[n2][j]>> \in R
                     => OrderedBy(R, FlattenSeq(seqs))
<1> DEFINE size == Len(seqs)
<1>1. size \in Nat /\ DOMAIN seqs = 1 .. size /\ \A n \in 1 .. size : seqs[n] \in Seq(S)
      BY LenProperties, ElementOfSeq
<1>2. CASE size = 0
  <2>1. seqs = <<>>
        BY <1>2, EmptySeq
  <2>2. FlattenSeq(seqs) = <<>>
        BY <1>2, <2>1 DEF FlattenSeq
  <2>3. DOMAIN <<>> = {} /\ <<>> \in Seq(S)
        OBVIOUS
  <2>. QED
       BY <2>1, <2>2, <2>3 DEF OrderedBy
<1>3. CASE size # 0
  <2>1. PICK f : FlatUpTo(seqs, size, f) /\ FlattenSeq(seqs) = f[size]
        BY <1>1, <1>3, FlattenSteps
  <2>2. \A n \in 1 .. size : f[n] = IF n = 1 THEN seqs[n] ELSE f[n - 1] \o seqs[n]
        BY <2>1 DEF FlatUpTo
  <2> DEFINE Good(n) ==
                /\ f[n] \in Seq(S)
                /\ \A i \in DOMAIN f[n] : \E a \in 1 .. n : \E m \in DOMAIN seqs[a] : f[n][i] = seqs[a][m]
                /\ \A a \in 1 .. n : \A m \in DOMAIN seqs[a] : \E i \in DOMAIN f[n] : f[n][i] = seqs[a][m]
             Sorted(R, n) == OrderedBy(R, f[n])
             Apart(R) == /\ \A n \in 1 .. size : OrderedBy(R, seqs[n])
                         /\ \A n1, n2 \in 1 .. size : n1 < n2 =>
                               \A i \in DOMAIN seqs[n1] : \A j \in DOMAIN seqs[n2] : <<seqs[n1][i], seqs[n2][j]>> \in R
  <2>. HIDE DEF Good, Sorted, Apart
  <2>3. \A n \in 1 .. size : Good(n)
    <3> DEFINE T == {n \in 1 .. size : ~Good(n)}
    <3>1. SUFFICES ASSUME T # {} PROVE FALSE
          OBVIOUS
    <3>2. PICK n \in T : \A m \in T : n <= m
      <4>1. T \subseteq Nat
            OBVIOUS
      <4>. HIDE DEF T
      <4>. QED
           BY <3>1, <4>1, LeastNumber
    <3>3. n \in 1 .. size /\ ~Good(n)
          BY <3>2
    <3>4. CASE n = 1
      <4>1. f[1] = seqs[1] /\ seqs[1] \in Seq(S) /\ \A a \in 1 .. 1 : a = 1
            BY <1>1, <2>2, <3>3, <3>4
      <4>2. 1 \in 1 .. 1
            OBVIOUS
      <4>3. Good(1)
            BY <4>1, <4>2 DEF Good
      <4>. QED
           BY <3>3, <3>4, <4>3
    <3>5. CASE n # 1
      <4>1. n - 1 \in 1 .. size /\ n - 1 < n /\ 1 .. n = 1 .. n - 1 \cup {n} /\ n \in 1 .. n
            BY <3>3, <3>5
      <4>2. Good(n - 1)
            BY <3>2, <4>1
      <4> DEFINE s == f[n - 1]
                 t == seqs[n]
                 u == s \o t
      <4>3. f[n] = u
            BY <2>2, <3>3, <3>5
      <4>4. s \in Seq(S) /\ t \in Seq(S)
            BY <1>1, <3>3, <4>2 DEF Good
      <4>. HIDE DEF s, t
      <4>5. /\ u \in Seq(S) /\ Len(u) = Len(s) + Len(t)
            /\ \A i \in 1 .. Len(u) : u[i] = IF i <= Len(s) THEN s[i] ELSE t[i - Len(s)]
            /\ Len(s) \in Nat /\ Len(t) \in Nat /\ DOMAIN u = 1 .. Len(u) /\ DOMAIN s = 1 .. Len(s) /\ DOMAIN t = 1 .. Len(t)
            BY <4>4, ConcatProperties, LenProperties
      <4>. HIDE DEF u
      <4>6. ASSUME NEW i \in DOMAIN u PROVE (\E j \in DOMAIN s : u[i] = s[j]) \/ (\E j \in DOMAIN t : u[i] = t[j])
        <5>1. CASE i <= Len(s)
              BY <4>5, <5>1
        <5>2. CASE ~(i <= Len(s))
          <6>1. i - Len(s) \in DOMAIN t /\ u[i] = t[i - Len(s)]
                BY <4>5, <5>2
          <6>. QED
               BY <6>1
        <5>. QED
             BY <5>1, <5>2
      <4>7. ASSUME NEW j \in DOMAIN s PROVE j \in DOMAIN u /\ u[j] = s[j]
            BY <4>5
      <4>8. ASSUME NEW j \in DOMAIN t PROVE \E i \in DOMAIN u : u[i] = t[j]
        <5> DEFINE i == j + Len(s)
        <5>1. i \in DOMAIN u /\ ~(i <= Len(s)) /\ i - Len(s) = j
              BY <4>5
        <5>. HIDE DEF i
        <5>2. u[i] = t[i - Len(s)]
              BY <4>5, <5>1
        <5>. QED
             BY <5>1, <5>2
      <4>9. \A i \in DOMAIN u : \E a \in 1 .. n : \E m \in DOMAIN seqs[a] : u[i] = seqs[a][m]
        <5>. TAKE i \in DOMAIN u
        <5>1. CASE \E j \in DOMAIN t : u[i] = t[j]
              BY <4>1, <5>1 DEF t
        <5>2. CASE \E j \in DOMAIN s : u[i] = s[j]
          <6>1. PICK j \in DOMAIN s : u[i] = s[j]
                BY <5>2
          <6>2. PICK a \in 1 .. n - 1 : \E m \in DOMAIN seqs[a] : s[j] = seqs[a][m]
                BY <4>2, <6>1 DEF s, Good
          <6>3. a \in 1 .. n
                BY <4>1
          <6>. QED
               BY <6>1, <6>2, <6>3
        <5>. QED
             BY <4>6, <5>1, <5>2
      <4>10. \A a \in 1 .. n : \A m \in DOMAIN seqs[a] : \E i \in DOMAIN u : u[i] = seqs[a][m]
        <5>. TAKE a \in 1 .. n
        <5>. TAKE m \in DOMAIN seqs[a]
        <5>1. CASE a = n
              BY <4>8, <5>1 DEF t
        <5>2. CASE a \in 1 .. n - 1
          <6>1. PICK j \in DOMAIN s : s[j] = seqs[a][m]
                BY <4>2, <5>2 DEF s, Good
          <6>. QED
               BY <4>7, <6>1
        <5>. QED
             BY <4>1, <5>1, <5>2
      <4>11. Good(n)
             BY <4>3, <4>5, <4>9, <4>10 DEF Good
      <4>. QED
           BY <3>3, <4>11
    <3>. QED
         BY <3>4, <3>5
  <2>4. ASSUME NEW R, Apart(R) PROVE \A n \in 1 .. size : Sorted(R, n)
    <3> DEFINE T == {n \in 1 .. size : ~Sorted(R, n)}
    <3>1. SUFFICES ASSUME T # {} PROVE FALSE
          OBVIOUS
    <3>2. PICK n \in T : \A m \in T : n <= m
      <4>1. T \subseteq Nat
            OBVIOUS
      <4>. HIDE DEF T
      <4>. QED
           BY <3>1, <4>1, LeastNumber
    <3>3. n \in 1 .. size /\ ~Sorted(R, n)
          BY <3>2
    <3>4. n # 1
      <4>1. OrderedBy(R, seqs[n])
            BY <2>4, <3>3 DEF Apart
      <4>. QED
           BY <2>2, <3>3, <4>1 DEF Sorted
    <3>5. n - 1 \in 1 .. size /\ n - 1 < n
          BY <3>3, <3>4
    <3>6. Sorted(R, n - 1) /\ Good(n - 1)
          BY <2>3, <3>2, <3>5
    <3>7. f[n] = f[n - 1] \o seqs[n] /\ seqs[n] \in Seq(S) /\ f[n - 1] \in Seq(S)
          BY <1>1, <2>2, <3>3, <3>4, <3>6 DEF Good
    <3>8. ASSUME NEW i \in DOMAIN f[n - 1], NEW j \in DOMAIN seqs[n] PROVE <<f[n - 1][i], seqs[n][j]>> \in R
      <4>1. PICK a \in 1 .. n - 1 : \E m \in DOMAIN seqs[a] : f[n - 1][i] = seqs[a][m]
            BY <3>6 DEF Good
      <4>2. a \in 1 .. size /\ a < n
            BY <3>3
      <4>. QED
           BY <2>4, <3>3, <4>1, <4>2 DEF Apart
    <3>9. OrderedBy(R, f[n - 1]) /\ OrderedBy(R, seqs[n])
          BY <2>4, <3>3, <3>6 DEF Apart, Sorted
    <3>10. Sorted(R, n)
           BY <3>7, <3>8, <3>9, ConcatOrdered DEF Sorted
    <3>. QED
         BY <3>3, <3>10
  <2>5. size \in 1 .. size
        BY <1>1, <1>3
  <2>6. Good(size) /\ \A R : Apart(R) => Sorted(R, size)
        BY <2>3, <2>4, <2>5
  <2>7. f[size] = FlattenSeq(seqs) /\ DOMAIN seqs = 1 .. size
        BY <1>1, <2>1
  <2>. HIDE DEF size
  <2>8. /\ f[size] \in Seq(S)
        /\ \A i \in DOMAIN f[size] :
              \E n \in DOMAIN seqs : \E m \in DOMAIN seqs[n] : f[size][i] = seqs[n][m]
        /\ \A n \in DOMAIN seqs : \A m \in DOMAIN seqs[n] :
              \E i \in DOMAIN f[size] : f[size][i] = seqs[n][m]
        BY <2>6, <2>7, Zenon DEF Good
  <2>9. \A R : Apart(R) => OrderedBy(R, FlattenSeq(seqs))
        BY <2>6, <2>7 DEF Sorted
  <2>. HIDE DEF Apart
  <2>10. FlattenSeq(seqs) \in Seq(S)
         BY <2>7, <2>8
  <2>11. ASSUME NEW i \in DOMAIN FlattenSeq(seqs)
         PROVE  \E n \in DOMAIN seqs : \E m \in DOMAIN seqs[n] : FlattenSeq(seqs)[i] = seqs[n][m]
         BY <2>7, <2>8, <2>11
  <2>12. ASSUME NEW n \in DOMAIN seqs, NEW m \in DOMAIN seqs[n]
         PROVE  \E i \in DOMAIN FlattenSeq(seqs) : FlattenSeq(seqs)[i] = seqs[n][m]
         BY <2>7, <2>8, <2>12
  <2>13. ASSUME NEW R, \A n \in DOMAIN seqs : OrderedBy(R, seqs[n]),
                \A n1, n2 \in DOMAIN seqs : n1 < n2 =>
                   \A i \in DOMAIN seqs[n1] : \A j \in DOMAIN seqs[n2] : <<seqs[n1][i], seqs[n2][j]>> \in R
         PROVE  OrderedBy(R, FlattenSeq(seqs))
    <3>1. Apart(R)
          BY <2>7, <2>13 DEF Apart
    <3>. QED
         BY <2>9, <3>1
  <2>. QED
       BY <2>10, <2>11, <2>12, <2>13
<1>. QED
     BY <1>2, <1>3

LEMMA FlattenHolds ==
    ASSUME NEW S, NEW seqs \in Seq(Seq(S))
    PROVE  /\ FlattenSeq(seqs) \in Seq(S)
           /\ \A i \in DOMAIN FlattenSeq(seqs) :
                 \E n \in DOMAIN seqs : \E m \in DOMAIN seqs[n] : FlattenSeq(seqs)[i] = seqs[n][m]
           /\ \A n \in DOMAIN seqs : \A m \in DOMAIN seqs[n] :
                 \E i \in DOMAIN FlattenSeq(seqs) : FlattenSeq(seqs)[i] = seqs[n][m]
BY FlattenProperties

LEMMA FlattenIsOrdered ==
    ASSUME NEW S, NEW seqs \in Seq(Seq(S)), NEW R,
           \A n \in DOMAIN seqs : OrderedBy(R, seqs[n]),
           \A n1, n2 \in DOMAIN seqs : n1 < n2 =>
              \A i \in DOMAIN seqs[n1] : \A j \in DOMAIN seqs[n2] : <<seqs[n1][i], seqs[n2][j]>> \in R
    PROVE  OrderedBy(R, FlattenSeq(seqs))
BY FlattenProperties


LEMMA RankOf ==
    /\ Rank["defaults"] = 0 /\ Rank["global"] = 1 /\ Rank["project"] = 2 /\ Rank["globalProfile"] = 3
    /\ Rank["projectProfile"] = 4 /\ Rank["environment"] = 5 /\ Rank["override"] = 6 /\ Rank["derived"] = 7
BY DEF Rank

\* A layer of a tree, in which a file holds references for secrets.
SoundLayer(l) ==
    /\ IsTree(l.patch) /\ Rank[l.source] \in Nat /\ l.source # "derived"
    /\ l.source \in FileSources => \A s \in Secrets \cap Scalars(l.patch) : l.patch[s] \in Refs

\* Sound layers in order, with ranks from lo to hi.
Layered(s, lo, hi) ==
    /\ \E S : s \in Seq(S)
    /\ \A i \in DOMAIN s : SoundLayer(s[i]) /\ lo <= Rank[s[i].source] /\ Rank[s[i].source] <= hi
    /\ \A i, j \in DOMAIN s : i < j => Rank[s[i].source] <= Rank[s[j].source]

LEMMA LayeredAreSequences ==
    ASSUME NEW size \in Nat, NEW seqs, \E E : seqs \in [1 .. size -> E],
           \A n \in 1 .. size : \E lo, hi : Layered(seqs[n], lo, hi)
    PROVE  \E S : seqs \in Seq(Seq(S))
<1> DEFINE S == UNION {{seqs[n][m] : m \in DOMAIN seqs[n]} : n \in 1 .. size}
<1>1. ASSUME NEW n \in 1 .. size PROVE seqs[n] \in Seq(S)
  <2>1. PICK E : seqs[n] \in Seq(E)
        BY DEF Layered
  <2>2. /\ seqs[n] = [m \in 1 .. Len(seqs[n]) |-> seqs[n][m]] /\ Len(seqs[n]) \in Nat
        /\ DOMAIN seqs[n] = 1 .. Len(seqs[n])
        BY <2>1, LenProperties
  <2>3. \A m \in DOMAIN seqs[n] : seqs[n][m] \in S
        OBVIOUS
  <2>. HIDE DEF S
  <2>4. seqs[n] \in [1 .. Len(seqs[n]) -> S]
        BY <2>2, <2>3
  <2>. QED
       BY <2>2, <2>4, SeqDef
<1>. HIDE DEF S
<1>2. seqs \in [1 .. size -> Seq(S)]
      BY <1>1
<1>3. seqs \in Seq(Seq(S))
      BY <1>2, SeqDef
<1>. QED
     BY <1>3

LEMMA LayeredIsFlat ==
    ASSUME NEW size \in Nat, NEW seqs, \E E : seqs \in [1 .. size -> E],
           NEW lo \in [1 .. size -> Nat], NEW hi \in [1 .. size -> Nat], NEW a \in Nat, NEW b \in Nat,
           \A n \in 1 .. size : Layered(seqs[n], lo[n], hi[n]) /\ a <= lo[n] /\ hi[n] <= b,
           \A n, m \in 1 .. size : n < m => hi[n] <= lo[m]
    PROVE  Layered(FlattenSeq(seqs), a, b)
<1>1. PICK S : seqs \in Seq(Seq(S))
  <2>1. \A n \in 1 .. size : \E x, y : Layered(seqs[n], x, y)
        OBVIOUS
  <2>. QED
       BY <2>1, LayeredAreSequences
<1> DEFINE R == {w \in S \X S : Rank[w[1].source] <= Rank[w[2].source]}
           flat == FlattenSeq(seqs)
<1>2. DOMAIN seqs = 1 .. size
      OBVIOUS
<1> HIDE DEF R, flat
<1>3. \A n \in 1 .. size : OrderedBy(R, seqs[n])
  <2>. TAKE n \in 1 .. size
  <2>1. \A i, j \in DOMAIN seqs[n] : i < j => Rank[seqs[n][i].source] <= Rank[seqs[n][j].source]
        BY DEF Layered
  <2>2. seqs[n] \in Seq(S)
        BY <1>1, <1>2, ElementOfSeq, LenProperties
  <2>3. \A i \in DOMAIN seqs[n] : seqs[n][i] \in S
        BY <2>2, ElementOfSeq, LenProperties
  <2>. QED
       BY <2>1, <2>3 DEF OrderedBy, R
<1>4. ASSUME NEW n \in 1 .. size, NEW m \in 1 .. size, n < m, NEW i \in DOMAIN seqs[n], NEW j \in DOMAIN seqs[m]
      PROVE  <<seqs[n][i], seqs[m][j]>> \in R
  <2>1. /\ Rank[seqs[n][i].source] \in Nat /\ Rank[seqs[n][i].source] <= hi[n]
        /\ Rank[seqs[m][j].source] \in Nat /\ lo[m] <= Rank[seqs[m][j].source]
        BY DEF Layered, SoundLayer
  <2>2. hi[n] <= lo[m] /\ hi[n] \in Nat /\ lo[m] \in Nat
        BY <1>4
  <2>3. seqs[n][i] \in S /\ seqs[m][j] \in S
    <3>1. seqs[n] \in Seq(S) /\ seqs[m] \in Seq(S)
          BY <1>1, <1>2, ElementOfSeq, LenProperties
    <3>. QED
         BY <3>1, ElementOfSeq, LenProperties
  <2>. QED
       BY SMTT(30), <2>1, <2>2, <2>3 DEF R
<1>5. /\ flat \in Seq(S) /\ OrderedBy(R, flat)
      /\ \A i \in DOMAIN flat : \E n \in DOMAIN seqs : \E m \in DOMAIN seqs[n] : flat[i] = seqs[n][m]
  <2>1. /\ flat \in Seq(S)
        /\ \A i \in DOMAIN flat : \E n \in DOMAIN seqs : \E m \in DOMAIN seqs[n] : flat[i] = seqs[n][m]
        BY <1>1, <1>2, FlattenHolds DEF flat
  <2>2. OrderedBy(R, flat)
        BY <1>1, <1>2, <1>3, <1>4, FlattenIsOrdered DEF flat
  <2>. QED
       BY <2>1, <2>2
<1>6. ASSUME NEW i \in DOMAIN flat
      PROVE  SoundLayer(flat[i]) /\ a <= Rank[flat[i].source] /\ Rank[flat[i].source] <= b
  <2>1. PICK n \in 1 .. size : \E m \in DOMAIN seqs[n] : flat[i] = seqs[n][m]
        BY <1>2, <1>5
  <2>2. /\ SoundLayer(flat[i]) /\ lo[n] <= Rank[flat[i].source] /\ Rank[flat[i].source] <= hi[n]
        /\ Rank[flat[i].source] \in Nat
        BY <2>1 DEF Layered, SoundLayer
  <2>3. a <= lo[n] /\ hi[n] <= b /\ lo[n] \in Nat /\ hi[n] \in Nat
        OBVIOUS
  <2>. QED
       BY <2>2, <2>3
<1>7. \A i, j \in DOMAIN flat : i < j => Rank[flat[i].source] <= Rank[flat[j].source]
      BY <1>5 DEF OrderedBy, R
<1>. QED
     BY <1>5, <1>6, <1>7 DEF Layered, flat

LEMMA NoLayer ==
    ASSUME NEW lo, NEW hi
    PROVE  Layered(<<>>, lo, hi)
<1>1. <<>> \in Seq({}) /\ DOMAIN <<>> = {}
      OBVIOUS
<1>. QED
     BY <1>1 DEF Layered

LEMMA OneLayer ==
    ASSUME NEW l, SoundLayer(l)
    PROVE  Layered(<<l>>, Rank[l.source], Rank[l.source])
<1> DEFINE s == <<l>>
<1>1. s \in Seq({l}) /\ DOMAIN s = {1} /\ s[1] = l
      OBVIOUS
<1>2. Rank[l.source] \in Nat
      BY DEF SoundLayer
<1>. HIDE DEF s
<1>3. \A i \in DOMAIN s : i = 1 /\ s[i] = l
      BY <1>1
<1>4. \E S : s \in Seq(S)
      BY <1>1
<1>5. Layered(s, Rank[l.source], Rank[l.source])
      BY <1>2, <1>3, <1>4 DEF Layered
<1>. QED
     BY <1>5 DEF s

\* What has been loaded, when no diagnostic was collected.
Kinds == {"global", "project"}
LoadedSoundly ==
    /\ Len(loaded) \in Nat /\ DOMAIN loaded = 1 .. Len(loaded)
    /\ \A i \in DOMAIN loaded :
          /\ loaded[i].kind \in Kinds
          /\ OfTrees(loaded[i].document) /\ DocumentAccepted(loaded[i].document)
    /\ \A i, j \in DOMAIN loaded : i < j => Rank[loaded[i].kind] <= Rank[loaded[j].kind]
    /\ input.overrides # NoTree => IsTree(input.overrides)

LEMMA FragmentLayers ==
    ASSUME NEW source \in FileSources, NEW fragment, FragmentAccepted(fragment),
           \A t \in Patches(fragment) : IsTree(t)
    PROVE  Layered(OfFragment(source, fragment), Rank[source], Rank[source])
<1>1. CASE Patches(fragment) = {}
      BY <1>1, NoLayer DEF OfFragment
<1>2. CASE Patches(fragment) # {}
  <2> DEFINE t == CHOOSE u \in Patches(fragment) : TRUE
             l == Layer(source, t)
  <2>1. t \in Patches(fragment)
        BY <1>2
  <2>2. OfFragment(source, fragment) = <<l>>
        BY <1>2, Zenon DEF OfFragment
  <2>. HIDE DEF t
  <2>3. IsTree(t) /\ PatchAccepted(t)
        BY <2>1 DEF FragmentAccepted
  <2>4. \A s \in Secrets \cap Scalars(t) : t[s] \in Refs
    <3>. TAKE s \in Secrets \cap Scalars(t)
    <3>1. s \in Nodes(t)
          BY <2>3, NodesOfTree, PathOrder DEF Scalars, IsTree
    <3>. QED
         BY <2>3, <3>1 DEF PatchAccepted
  <2>5. Rank[source] \in Nat /\ source # "derived"
        BY RankOf DEF FileSources
  <2>6. l.source = source /\ l.patch = t
        BY DEF Layer
  <2>. HIDE DEF l
  <2>7. SoundLayer(l)
        BY <2>3, <2>4, <2>5, <2>6 DEF SoundLayer
  <2>. QED
       BY <2>2, <2>6, <2>7, OneLayer
<1>. QED
     BY <1>1, <1>2

LEMMA BaseLayered ==
    ASSUME LoadedSoundly
    PROVE  Layered(BaseLayers, 1, 2) /\ Layered(ProfileLayers, 3, 4)
<1> DEFINE size == Len(loaded)
<1>1. size \in Nat /\ DOMAIN loaded = 1 .. size
      BY DEF LoadedSoundly
<1>2. ASSUME NEW i \in 1 .. size
      PROVE  /\ loaded[i].kind \in Kinds
             /\ Rank[loaded[i].kind] \in 1 .. 2 /\ Rank[ProfileOf[loaded[i].kind]] = Rank[loaded[i].kind] + 2
             /\ loaded[i].kind \in FileSources /\ ProfileOf[loaded[i].kind] \in FileSources
             /\ FragmentAccepted(loaded[i].document.base) /\ \A t \in Patches(loaded[i].document.base) : IsTree(t)
             /\ loaded[i].document.profile # NoProfile =>
                   /\ FragmentAccepted(loaded[i].document.profile)
                   /\ \A t \in Patches(loaded[i].document.profile) : IsTree(t)
  <2>1. loaded[i].kind \in Kinds /\ OfTrees(loaded[i].document) /\ DocumentAccepted(loaded[i].document)
        BY <1>1 DEF LoadedSoundly
  <2>2. loaded[i].document.base # NoProfile => \A t \in Patches(loaded[i].document.base) : IsTree(t)
        BY <2>1 DEF OfTrees
  <2>. QED
       BY <2>1, <2>2, RankOf DEF Kinds, ProfileOf, FileSources, OfTrees, DocumentAccepted
<1> DEFINE base == [i \in 1 .. size |-> OfFragment(loaded[i].kind, loaded[i].document.base)]
           profile == [i \in 1 .. size |->
               IF input.profile = "dev" /\ loaded[i].document.profile # NoProfile
               THEN OfFragment(ProfileOf[loaded[i].kind], loaded[i].document.profile) ELSE <<>>]
           lo == [i \in 1 .. size |-> Rank[loaded[i].kind]]
           hi == [i \in 1 .. size |-> Rank[loaded[i].kind] + 2]
<1>3. /\ lo \in [1 .. size -> Nat] /\ hi \in [1 .. size -> Nat]
      /\ \A i \in 1 .. size : lo[i] = Rank[loaded[i].kind] /\ hi[i] = Rank[loaded[i].kind] + 2
      BY <1>2
<1>4. \A i, j \in 1 .. size : i < j => Rank[loaded[i].kind] <= Rank[loaded[j].kind]
      BY <1>1 DEF LoadedSoundly
<1>5. /\ \E E : base \in [1 .. size -> E]
      /\ \A i \in 1 .. size : base[i] = OfFragment(loaded[i].kind, loaded[i].document.base)
  <2>1. base \in [1 .. size -> {base[i] : i \in 1 .. size}]
        OBVIOUS
  <2>. QED
       BY <2>1
<1>6. /\ \E E : profile \in [1 .. size -> E]
      /\ \A i \in 1 .. size : profile[i] =
            IF input.profile = "dev" /\ loaded[i].document.profile # NoProfile
            THEN OfFragment(ProfileOf[loaded[i].kind], loaded[i].document.profile) ELSE <<>>
  <2>1. profile \in [1 .. size -> {profile[i] : i \in 1 .. size}]
        OBVIOUS
  <2>. QED
       BY <2>1
<1>7. BaseLayers = FlattenSeq(base) /\ ProfileLayers = FlattenSeq(profile)
      BY <1>1, Zenon DEF BaseLayers, ProfileLayers
<1>. HIDE DEF base, profile, lo, hi, size
<1>8. \A i \in 1 .. size : Layered(base[i], lo[i], lo[i])
      BY <1>2, <1>3, <1>5, FragmentLayers
<1>9. \A i \in 1 .. size : Layered(profile[i], hi[i], hi[i])
      BY <1>2, <1>3, <1>6, FragmentLayers, NoLayer
<1>10. Layered(FlattenSeq(base), 1, 2)
  <2>1. \A i \in 1 .. size : 1 <= lo[i] /\ lo[i] <= 2
        BY <1>2, <1>3
  <2>2. \A i, j \in 1 .. size : i < j => lo[i] <= lo[j]
        BY <1>3, <1>4
  <2>. QED
       BY <1>1, <1>3, <1>5, <1>8, <2>1, <2>2, LayeredIsFlat
<1>11. Layered(FlattenSeq(profile), 3, 4)
  <2>1. \A i \in 1 .. size : 3 <= hi[i] /\ hi[i] <= 4
        BY <1>2, <1>3
  <2>2. \A i, j \in 1 .. size : i < j => hi[i] <= hi[j]
        BY SMTT(30), <1>2, <1>3, <1>4
  <2>. QED
       BY <1>1, <1>3, <1>6, <1>9, <2>1, <2>2, LayeredIsFlat
<1>. QED
     BY <1>7, <1>10, <1>11

LEMMA EnvironmentLayered ==
    ASSUME NEW bindings \in {Bindings, Fallbacks}
    PROVE  Layered(EnvironmentLayers(bindings), 5, 5)
<1> DEFINE size == Len(bindings)
           seqs == [i \in 1 .. size |-> EnvironmentLayer(bindings[i])]
           five == [i \in 1 .. size |-> 5]
<1>1. bindings \in Seq([path : Seq(Names), names : Seq(Vars)])
      BY BindingsAssumption
<1>2. /\ size \in Nat /\ DOMAIN bindings = 1 .. size
      /\ \A i \in 1 .. size : bindings[i].path \in Seq(Names)
  <2>1. \A i \in 1 .. size : bindings[i] \in [path : Seq(Names), names : Seq(Vars)]
        BY <1>1, ElementOfSeq, LenProperties
  <2>. QED
       BY <1>1, <2>1, LenProperties
<1>3. EnvironmentLayers(bindings) = FlattenSeq(seqs)
      BY <1>2, Zenon DEF EnvironmentLayers
<1>4. (\E E : seqs \in [1 .. size -> E]) /\ \A i \in 1 .. size : seqs[i] = EnvironmentLayer(bindings[i])
  <2>1. seqs \in [1 .. size -> {seqs[i] : i \in 1 .. size}]
        OBVIOUS
  <2>. QED
       BY <2>1
<1>5. five \in [1 .. size -> Nat] /\ \A i \in 1 .. size : five[i] = 5
      OBVIOUS
<1>. HIDE DEF seqs, five
<1>6. ASSUME NEW i \in 1 .. size PROVE Layered(seqs[i], 5, 5)
  <2> DEFINE b == bindings[i]
             l == Layer("environment", [p \in {b.path} |-> EnvironmentValue(b)])
  <2>1. l.source = "environment" /\ DOMAIN l.patch = {b.path}
        BY DEF Layer
  <2>2. b.path \in Seq(Names)
        BY <1>2
  <2>3. seqs[i] = <<>> \/ seqs[i] = <<l>>
        BY <1>4, Zenon DEF EnvironmentLayer
  <2>. HIDE DEF l, b
  <2>4. IsTree(l.patch)
        BY <2>1, <2>2, PathOrder DEF IsTree
  <2>5. SoundLayer(l)
        BY <2>1, <2>4, RankOf DEF SoundLayer, FileSources
  <2>. QED
       BY <2>1, <2>3, <2>5, RankOf, NoLayer, OneLayer
<1>7. Layered(FlattenSeq(seqs), 5, 5)
  <2>1. \A n \in 1 .. size : Layered(seqs[n], five[n], five[n]) /\ 5 <= five[n] /\ five[n] <= 5
        BY <1>5, <1>6
  <2>2. \A n, m \in 1 .. size : n < m => five[n] <= five[m]
        BY <1>5
  <2>. HIDE DEF size
  <2>. QED
       BY <1>2, <1>4, <1>5, <2>1, <2>2, LayeredIsFlat
<1>. QED
     BY <1>3, <1>7

LEMMA AllLayered ==
    ASSUME LoadedSoundly
    PROVE  Layered(AllLayers, 0, 6) /\ Len(AllLayers) # 0
<1> DEFINE groups == <<<<Layer("defaults", Defaults)>>, BaseLayers, ProfileLayers,
                       EnvironmentLayers(Bindings), EnvironmentLayers(Fallbacks), OverrideLayers>>
           lo == <<0, 1, 3, 5, 5, 6>>
           hi == <<0, 2, 4, 5, 5, 6>>
<1>1. Layered(<<Layer("defaults", Defaults)>>, 0, 0)
  <2> DEFINE l == Layer("defaults", Defaults)
  <2>1. l.source = "defaults" /\ l.patch = Defaults
        BY DEF Layer
  <2>. HIDE DEF l
  <2>2. SoundLayer(l)
        BY <2>1, TreesAssumption, RankOf DEF SoundLayer, FileSources
  <2>3. Layered(<<l>>, Rank["defaults"], Rank["defaults"])
        BY <2>1, <2>2, OneLayer
  <2>. QED
       BY <2>3, RankOf DEF l
<1>2. Layered(OverrideLayers, 6, 6)
  <2>1. CASE input.overrides = NoTree
        BY <2>1, NoLayer DEF OverrideLayers
  <2>2. CASE input.overrides # NoTree
    <3> DEFINE l == Layer("override", input.overrides)
    <3>1. l.source = "override" /\ l.patch = input.overrides
          BY DEF Layer
    <3>2. OverrideLayers = <<l>>
          BY <2>2 DEF OverrideLayers
    <3>. HIDE DEF l
    <3>3. SoundLayer(l)
          BY <2>2, <3>1, RankOf DEF SoundLayer, FileSources, LoadedSoundly
    <3>. QED
         BY <3>1, <3>2, <3>3, OneLayer, RankOf
  <2>. QED
       BY <2>1, <2>2
<1>3. AllLayers = FlattenSeq(groups)
      BY DEF AllLayers
<1>4. /\ DOMAIN groups = 1 .. 6 /\ (\E E : groups \in [1 .. 6 -> E])
      /\ groups[1] = <<Layer("defaults", Defaults)>> /\ groups[2] = BaseLayers /\ groups[3] = ProfileLayers
      /\ groups[4] = EnvironmentLayers(Bindings) /\ groups[5] = EnvironmentLayers(Fallbacks)
      /\ groups[6] = OverrideLayers
  <2>1. groups \in Seq({groups[i] : i \in 1 .. 6}) /\ Len(groups) = 6
        OBVIOUS
  <2>2. groups \in [1 .. 6 -> {groups[i] : i \in 1 .. 6}]
        BY <2>1, LenProperties
  <2>. QED
       BY <2>2
<1>5. lo \in [1 .. 6 -> Nat] /\ hi \in [1 .. 6 -> Nat]
      OBVIOUS
<1>6. /\ lo[1] = 0 /\ lo[2] = 1 /\ lo[3] = 3 /\ lo[4] = 5 /\ lo[5] = 5 /\ lo[6] = 6
      /\ hi[1] = 0 /\ hi[2] = 2 /\ hi[3] = 4 /\ hi[4] = 5 /\ hi[5] = 5 /\ hi[6] = 6
      OBVIOUS
<1>. HIDE DEF groups, lo, hi
<1>7. \A n \in 1 .. 6 : n = 1 \/ n = 2 \/ n = 3 \/ n = 4 \/ n = 5 \/ n = 6
      OBVIOUS
<1>8. \A n \in 1 .. 6 : Layered(groups[n], lo[n], hi[n])
      BY <1>1, <1>2, <1>4, <1>6, <1>7, BaseLayered, EnvironmentLayered
<1>9. \A n \in 1 .. 6 : 0 <= lo[n] /\ hi[n] <= 6
      BY <1>6, <1>7
<1>10. \A n, m \in 1 .. 6 : n < m => hi[n] <= lo[m]
       BY <1>6, <1>7
<1>11. Layered(FlattenSeq(groups), 0, 6)
       BY <1>4, <1>5, <1>8, <1>9, <1>10, LayeredIsFlat
<1>12. Len(AllLayers) # 0
  <2>1. PICK S : groups \in Seq(Seq(S))
    <3>1. \A n \in 1 .. 6 : \E x, y : Layered(groups[n], x, y)
          BY <1>8
    <3>. QED
         BY <1>4, <3>1, LayeredAreSequences
  <2>2. 1 \in DOMAIN groups /\ 1 \in DOMAIN groups[1]
        BY <1>4
  <2>3. AllLayers \in Seq(S) /\ DOMAIN AllLayers # {}
        BY <1>3, <2>1, <2>2, FlattenHolds
  <2>. QED
       BY <2>3, LenProperties
<1>. QED
     BY <1>3, <1>11, <1>12


\* What a snapshot is to the layers it was resolved and derived from.
Whole(value, sources, ls) ==
    /\ IsTree(value) /\ Scalars(value) \subseteq DOMAIN sources
    /\ \E S : ls \in Seq(S)
    /\ \A i \in DOMAIN ls : Rank[ls[i].source] \in 0 .. 7
    /\ \A i, j \in DOMAIN ls : i < j => Rank[ls[i].source] <= Rank[ls[j].source]
    /\ \A p \in Scalars(value) : \E i \in DOMAIN ls : SuppliesUpTo(ls, Len(ls), i, p)
    /\ \A i \in DOMAIN ls : \A p \in Scalars(ls[i].patch) : SuppliesUpTo(ls, Len(ls), i, p) =>
          /\ p \in Scalars(value) /\ sources[p] = ls[i].source
          /\ value[p] = IF p \in Secrets /\ ls[i].source \in FileSources
                        THEN input.env[VarOf[ls[i].patch[p]]] ELSE ls[i].patch[p]
    /\ (\A i \in DOMAIN ls : ls[i].source # "derived") => DOMAIN sources = Scalars(value)

LEMMA ResolvedIsWhole ==
    ASSUME LoadedSoundly, \A v \in Vars : input.env[v] # Empty
    PROVE  LET resolved == SecretsResolved(Merged(AllLayers))
           IN  Whole(resolved.value, resolved.sources, AllLayers)
<1> DEFINE ls == AllLayers
           merged == Merged(ls)
           resolved == SecretsResolved(merged)
           value == resolved.value
<1>1. Layered(ls, 0, 6) /\ Len(ls) # 0
      BY AllLayered
<1>2. PICK S : ls \in Seq(S)
      BY <1>1 DEF Layered
<1>3. Len(ls) \in Nat \ {0} /\ DOMAIN ls = 1 .. Len(ls)
      BY <1>1, <1>2, LenProperties
<1>. HIDE DEF ls
<1>4. \A n \in DOMAIN ls : SoundLayer(ls[n]) /\ Rank[ls[n].source] \in 0 .. 7
  <2>. TAKE n \in DOMAIN ls
  <2>1. SoundLayer(ls[n]) /\ 0 <= Rank[ls[n].source] /\ Rank[ls[n].source] <= 6
        BY <1>1 DEF Layered
  <2>. QED
       BY <2>1 DEF SoundLayer
<1>5. Resolves(merged, ls, Len(ls))
      BY <1>3, <1>4, MergedResolves DEF SoundLayer
<1>. HIDE DEF merged
<1>6. /\ resolved.sources = merged.sources
      /\ value = [p \in DOMAIN merged.value |->
            IF p \in Secrets /\ IsReference(merged, p) THEN VariableOf(merged, p) ELSE merged.value[p]]
      BY <1>5 DEF Resolves, SecretsResolved
<1>. HIDE DEF resolved
<1>7. ASSUME NEW p \in DOMAIN merged.value
      PROVE  /\ p \in DOMAIN value
             /\ value[p] = IF p \in Secrets /\ merged.value[p] \in Refs /\ merged.sources[p] \in FileSources
                           THEN input.env[VarOf[merged.value[p]]] ELSE merged.value[p]
             /\ value[p] = Empty <=> merged.value[p] = Empty
  <2>1. /\ p \in DOMAIN value
        /\ value[p] = IF p \in Secrets /\ merged.value[p] \in Refs /\ merged.sources[p] \in FileSources
                           THEN input.env[VarOf[merged.value[p]]] ELSE merged.value[p]
        BY <1>6, <1>7 DEF IsReference, VariableOf
  <2>. QED
       BY <2>1, RefsAssumption
<1>8. DOMAIN value = DOMAIN merged.value /\ Scalars(value) = Scalars(merged.value)
      BY <1>6, <1>7 DEF Scalars
<1>9. IsTree(value)
      BY <1>5, <1>8 DEF Resolves, IsTree
<1>10. \A i, j \in DOMAIN ls : i < j => Rank[ls[i].source] <= Rank[ls[j].source]
       BY <1>1 DEF Layered
<1>11. \A p \in Scalars(value) : \E i \in DOMAIN ls : SuppliesUpTo(ls, Len(ls), i, p)
       BY <1>3, <1>5, <1>8 DEF Resolves
<1>12. ASSUME NEW i \in DOMAIN ls, NEW p \in Scalars(ls[i].patch), SuppliesUpTo(ls, Len(ls), i, p)
       PROVE  /\ p \in Scalars(value) /\ resolved.sources[p] = ls[i].source
              /\ value[p] = IF p \in Secrets /\ ls[i].source \in FileSources
                            THEN input.env[VarOf[ls[i].patch[p]]] ELSE ls[i].patch[p]
  <2>1. p \in Scalars(merged.value) /\ merged.value[p] = ls[i].patch[p] /\ merged.sources[p] = ls[i].source
        BY <1>3, <1>5, <1>12 DEF Resolves
  <2>2. p \in Secrets /\ ls[i].source \in FileSources => ls[i].patch[p] \in Refs
        BY <1>4 DEF SoundLayer
  <2>3. p \in DOMAIN merged.value
        BY <2>1 DEF Scalars
  <2>. QED
       BY <1>6, <1>7, <1>8, <2>1, <2>2, <2>3
<1>13. DOMAIN resolved.sources = Scalars(value)
       BY <1>5, <1>6, <1>8 DEF Resolves
<1>14. Whole(value, resolved.sources, ls)
       BY <1>2, <1>4, <1>9, <1>10, <1>11, <1>12, <1>13 DEF Whole
<1>. QED
     BY <1>14 DEF ls, merged, resolved

LEMMA DerivedIsWhole ==
    ASSUME NEW value, NEW sources, NEW ls, Whole(value, sources, ls), NEW patch, IsTree(patch)
    PROVE  Whole(Merge(value, patch),
                 [p \in DOMAIN patch \cup DOMAIN sources |-> IF p \in DOMAIN patch THEN "derived" ELSE sources[p]],
                 Append(ls, Layer("derived", patch)))
<1> DEFINE new == Merge(value, patch)
           from == [p \in DOMAIN patch \cup DOMAIN sources |-> IF p \in DOMAIN patch THEN "derived" ELSE sources[p]]
           l == Layer("derived", patch)
           more == Append(ls, l)
           n == Len(ls)
<1>1. PICK S : ls \in Seq(S)
      BY DEF Whole
<1>2. /\ more \in Seq(S \cup {l}) /\ DOMAIN more = DOMAIN ls \cup {n + 1}
      /\ \A i \in DOMAIN ls : more[i] = ls[i]
      /\ more[n + 1] = l
      BY <1>1, OneMore
<1>3. n \in Nat /\ DOMAIN ls = 1 .. n /\ Len(more) = n + 1
      BY <1>1, <1>2, LenProperties
<1>4. l.source = "derived" /\ l.patch = patch
      BY DEF Layer
<1>5. IsTree(value)
      BY DEF Whole
<1>6. /\ Scalars(new) = Scalars(patch) \cup {p \in Scalars(value) : ~Covers(patch, p)}
      /\ \A p \in Scalars(new) : new[p] = IF p \in Scalars(patch) THEN patch[p] ELSE value[p]
      BY <1>5, ScalarsOfMerge
<1>7. IsTree(new)
      BY <1>5, MergeIsTree
<1>8. \A p \in DOMAIN patch : Covers(patch, p)
      BY PathOrder DEF Covers, IsTree
<1>. HIDE DEF new, l, more, n
<1>9. \A p : /\ SuppliesUpTo(more, n + 1, n + 1, p) <=> p \in Scalars(patch)
             /\ \A i \in DOMAIN ls : SuppliesUpTo(more, n + 1, i, p) <=> SuppliesUpTo(ls, n, i, p) /\ ~Covers(patch, p)
  <2>. TAKE p
  <2>1. \A i \in 1 .. n : SuppliesUpTo(more, n, i, p) <=> SuppliesUpTo(ls, n, i, p)
    <3>1. \A i \in 1 .. n : \A j \in i + 1 .. n : j \in 1 .. n
          BY <1>3
    <3>. QED
         BY <1>2, <1>3, <3>1 DEF SuppliesUpTo
  <2>. QED
       BY <1>2, <1>3, <1>4, <2>1, TopSupplies
<1>10. \A i \in DOMAIN more : Rank[more[i].source] \in 0 .. 7
       BY <1>2, <1>4, RankOf DEF Whole
<1>11. \A i, j \in DOMAIN more : i < j => Rank[more[i].source] <= Rank[more[j].source]
  <2>. TAKE i, j \in DOMAIN more
  <2>. HAVE i < j
  <2>1. i \in DOMAIN ls
        BY <1>2, <1>3
  <2>2. CASE j \in DOMAIN ls
        BY <1>2, <2>1, <2>2 DEF Whole
  <2>3. CASE j = n + 1
        BY SMTT(30), <1>2, <1>4, <1>10, <2>3, RankOf
  <2>. QED
       BY <1>2, <2>2, <2>3
<1>12. ASSUME NEW p \in Scalars(new) PROVE \E i \in DOMAIN more : SuppliesUpTo(more, n + 1, i, p)
  <2>1. CASE p \in Scalars(patch)
    <3>1. SuppliesUpTo(more, n + 1, n + 1, p) /\ n + 1 \in DOMAIN more
          BY <1>2, <1>9, <2>1
    <3>. QED
         BY <3>1
  <2>2. CASE p \in Scalars(value) /\ ~Covers(patch, p)
    <3>1. PICK i \in DOMAIN ls : SuppliesUpTo(ls, n, i, p)
          BY <2>2 DEF Whole, n
    <3>. QED
         BY <1>2, <1>9, <2>2, <3>1
  <2>. QED
       BY <1>6, <2>1, <2>2
<1>13. ASSUME NEW i \in DOMAIN more, NEW p \in Scalars(more[i].patch), SuppliesUpTo(more, n + 1, i, p)
       PROVE  /\ p \in Scalars(new) /\ from[p] = more[i].source
              /\ new[p] = IF p \in Secrets /\ more[i].source \in FileSources
                          THEN input.env[VarOf[more[i].patch[p]]] ELSE more[i].patch[p]
  <2>1. CASE i = n + 1
    <3>1. p \in Scalars(patch) /\ p \in DOMAIN patch
          BY <1>2, <1>4, <2>1 DEF Scalars
    <3>. QED
         BY <1>2, <1>4, <1>6, <2>1, <3>1 DEF FileSources
  <2>2. CASE i \in DOMAIN ls
    <3>1. SuppliesUpTo(ls, n, i, p) /\ ~Covers(patch, p)
          BY <1>9, <1>13, <2>2
    <3>2. p \notin DOMAIN patch /\ p \notin Scalars(patch)
          BY <1>8, <3>1 DEF Scalars
    <3>3. /\ p \in Scalars(value) /\ sources[p] = ls[i].source
          /\ value[p] = IF p \in Secrets /\ ls[i].source \in FileSources
                        THEN input.env[VarOf[ls[i].patch[p]]] ELSE ls[i].patch[p]
          BY <1>2, <1>13, <2>2, <3>1 DEF Whole, n
    <3>4. from[p] = sources[p]
          BY <3>2, <3>3 DEF Whole
    <3>5. p \in Scalars(new) /\ new[p] = value[p]
          BY <1>6, <3>1, <3>2, <3>3
    <3>. QED
         BY <1>2, <2>2, <3>3, <3>4, <3>5
  <2>. QED
       BY <1>2, <2>1, <2>2
<1>. HIDE DEF from
<1>14. ~(\A i \in DOMAIN more : more[i].source # "derived")
       BY <1>2, <1>4
<1>15. Scalars(new) \subseteq DOMAIN from
       BY <1>6 DEF Whole, Scalars, from
<1>16. Whole(new, from, more)
       BY <1>2, <1>3, <1>7, <1>10, <1>11, <1>12, <1>13, <1>14, <1>15 DEF Whole
<1>. QED
     BY <1>16 DEF new, from, more, l

-------------------------------------------------------------------------------
\* Every snapshot is whole.

FilesAreTrees ==
    /\ \A g \in DOMAIN docs : docs[g] # Missing => OfTrees(docs[g])
    /\ \A g \in DOMAIN parsed : OfTrees(parsed[g])
    /\ \A document \in input.documents : document # Missing => OfTrees(document)
    /\ \A t \in input.patches : IsTree(t)
    /\ input.overrides # NoTree => IsTree(input.overrides)
    /\ \A v \in Vars : input.env[v] # Empty
    /\ input.file["global"] \in DOMAIN docs \cup {Missing} /\ input.file["project"] \in DOMAIN docs \cup {Missing}

\* The global file is selected first.
InOrderLoaded ==
    /\ \A i \in DOMAIN loaded : loaded[i].kind \in Kinds
    /\ \A i, j \in DOMAIN loaded : i < j => Rank[loaded[i].kind] <= Rank[loaded[j].kind]
    /\ step = "global" => loaded = <<>>
    /\ step = "project" => \A i \in DOMAIN loaded : loaded[i].kind = "global"

WholeInv == step = "done" /\ ~failed => Whole(snapshot.value, snapshot.sources, layers)

ConfigInv == ReadInv /\ LoadedInv /\ FilesAreTrees /\ InOrderLoaded /\ WholeInv

LEMMA FilesStayTrees ==
    ASSUME FilesAreTrees, ConfigNext
    PROVE  FilesAreTrees'
<1>1. CASE LoadDocument
  <2>1. CASE UNCHANGED parsed
        BY <1>1, <2>1 DEF LoadDocument, FilesAreTrees
  <2>2. CASE input.file[step] # Missing /\ docs[input.file[step]] # Missing /\ Load(input.file[step])
    <3>1. /\ DOMAIN parsed' = DOMAIN parsed \cup {input.file[step]}
          /\ \A g \in DOMAIN parsed' : parsed'[g] = DocumentOf(g)
          BY <2>2 DEF Load
    <3>2. UNCHANGED <<docs, input>> /\ step \in {"global", "project"}
          BY <1>1 DEF LoadDocument
    <3>3. input.file[step] \in DOMAIN docs
          BY <2>2, <3>2 DEF FilesAreTrees
    <3>4. \A g \in DOMAIN parsed' : OfTrees(parsed'[g])
          BY <2>2, <3>1, <3>3 DEF FilesAreTrees, DocumentOf
    <3>. QED
         BY <3>2, <3>4 DEF FilesAreTrees
  <2>. QED
       BY <1>1, <2>1, <2>2 DEF LoadDocument
<1>2. CASE Resolve \/ \E patch \in input.patches : Derive(patch)
      BY <1>2 DEF Resolve, Derive, FilesAreTrees
<1>3. CASE \E g \in DOMAIN docs, document \in input.documents : EditFile(g, document)
      BY <1>3 DEF EditFile, FilesAreTrees
<1>. QED
     BY <1>1, <1>2, <1>3 DEF ConfigNext

LEMMA LoadedInOrder ==
    ASSUME LoadedInv, InOrderLoaded, LoadDocument
    PROVE  InOrderLoaded'
<1>1. step \in Kinds /\ step' = NextStep /\ (step = "global" => step' = "project") /\ (step = "project" => step' = "resolve")
      BY DEF LoadDocument, NextStep, Kinds
<1>2. CASE UNCHANGED loaded
  <2>1. step = "global" => DOMAIN loaded = {}
        BY EmptyDomain DEF InOrderLoaded
  <2>. QED
       BY <1>1, <1>2, <2>1 DEF InOrderLoaded, Kinds
<1>3. CASE Load(input.file[step])
  <2> DEFINE doc == [kind |-> step, document |-> DocumentOf(input.file[step])]
  <2>1. PICK S : loaded \in Seq(S)
        BY DEF LoadedInv
  <2>2. loaded' = Append(loaded, doc) /\ doc.kind = step
        BY <1>3 DEF Load
  <2>. HIDE DEF doc
  <2>3. /\ DOMAIN loaded' = DOMAIN loaded \cup {Len(loaded) + 1}
        /\ \A i \in DOMAIN loaded : loaded'[i] = loaded[i]
        /\ loaded'[Len(loaded) + 1] = doc
        BY <2>1, <2>2, OneMore
  <2>4. DOMAIN loaded = 1 .. Len(loaded) /\ Len(loaded) \in Nat
        BY <2>1, LenProperties
  <2>5. step = "global" => DOMAIN loaded = {}
        BY EmptyDomain DEF InOrderLoaded
  <2>6. \A i \in DOMAIN loaded' : loaded'[i].kind \in Kinds
        BY <1>1, <2>2, <2>3 DEF InOrderLoaded
  <2>7. ASSUME NEW i \in DOMAIN loaded', NEW j \in DOMAIN loaded', i < j
        PROVE  Rank[loaded'[i].kind] <= Rank[loaded'[j].kind]
    <3>1. CASE j \in DOMAIN loaded
      <4>1. i \in DOMAIN loaded
            BY <2>3, <2>4, <2>7, <3>1
      <4>. QED
           BY <2>3, <2>7, <3>1, <4>1 DEF InOrderLoaded
    <3>2. CASE j = Len(loaded) + 1
      <4>1. i \in DOMAIN loaded /\ step = "project"
            BY <1>1, <2>3, <2>4, <2>5, <2>7, <3>2 DEF Kinds
      <4>. QED
           BY <2>2, <2>3, <3>2, <4>1, RankOf DEF InOrderLoaded
    <3>. QED
         BY <2>3, <3>1, <3>2
  <2>8. step' = "project" => \A i \in DOMAIN loaded' : loaded'[i].kind = "global"
        BY <1>1, <2>2, <2>3, <2>5 DEF Kinds
  <2>. QED
       BY <1>1, <2>6, <2>7, <2>8 DEF InOrderLoaded, Kinds
<1>. QED
     BY <1>2, <1>3 DEF LoadDocument

LEMMA ResolveIsWhole ==
    ASSUME ConfigInv, Resolve
    PROVE  WholeInv'
<1> DEFINE merged == Merged(AllLayers)
           resolved == SecretsResolved(merged)
           accepted == /\ ~failed /\ ProfileDeclared /\ EnvironmentAccepted /\ OverridesAccepted
                       /\ SecretsPopulated(merged) /\ SchemaAccepts(resolved.value)
<1>1. /\ failed' = ~accepted /\ snapshot' = (IF accepted THEN resolved ELSE NoSnapshot)
      /\ layers' = (IF accepted THEN AllLayers ELSE <<>>) /\ UNCHANGED input
      BY DEF Resolve
<1>2. accepted => ~failed
      OBVIOUS
<1>. HIDE DEF accepted
<1>3. SUFFICES ASSUME accepted PROVE Whole(resolved.value, resolved.sources, AllLayers)
  <2>. HIDE DEF resolved
  <2>1. CASE ~accepted
        BY <1>1, <2>1 DEF WholeInv
  <2>2. CASE accepted
    <3>1. Whole(resolved.value, resolved.sources, AllLayers)
          BY <1>3, <2>2
    <3>2. Whole(snapshot.value, snapshot.sources, layers)'
          BY <1>1, <2>2, <3>1 DEF Whole
    <3>. QED
         BY <3>2 DEF WholeInv
  <2>. QED
       BY <2>1, <2>2
<1>4. LoadedSoundly
  <2>1. \A g \in DOMAIN parsed : DocumentAccepted(parsed[g]) /\ OfTrees(parsed[g])
        BY <1>2, <1>3 DEF ConfigInv, ReadInv, FilesAreTrees
  <2>2. PICK S : loaded \in Seq(S)
        BY DEF ConfigInv, LoadedInv
  <2>3. Len(loaded) \in Nat /\ DOMAIN loaded = 1 .. Len(loaded)
        BY <2>2, LenProperties
  <2>4. \A i \in DOMAIN loaded : DocumentAccepted(loaded[i].document) /\ OfTrees(loaded[i].document)
        BY <2>1 DEF ConfigInv, LoadedInv
  <2>. QED
       BY <2>3, <2>4 DEF LoadedSoundly, ConfigInv, InOrderLoaded, FilesAreTrees
<1>5. \A v \in Vars : input.env[v] # Empty
      BY DEF ConfigInv, FilesAreTrees
<1>. QED
     BY <1>4, <1>5, ResolvedIsWhole

LEMMA DeriveIsWhole ==
    ASSUME ConfigInv, NEW patch \in input.patches, Derive(patch)
    PROVE  WholeInv'
<1>1. /\ step = "done" /\ ~failed /\ UNCHANGED <<step, failed, input>>
      BY DEF Derive
<1>2. Whole(snapshot.value, snapshot.sources, layers) /\ IsTree(patch)
      BY <1>1 DEF ConfigInv, WholeInv, FilesAreTrees
<1>3. CASE UNCHANGED <<snapshot, layers>>
      BY <1>1, <1>2, <1>3 DEF WholeInv, Whole
<1>4. CASE /\ snapshot' = [value |-> DerivedValue(patch),
                           sources |-> [p \in DOMAIN patch \cup DOMAIN snapshot.sources |->
                               IF p \in DOMAIN patch THEN "derived" ELSE snapshot.sources[p]]]
           /\ layers' = Append(layers, Layer("derived", patch))
  <2>1. Whole(snapshot'.value, snapshot'.sources, layers')
        BY <1>2, <1>4, DerivedIsWhole DEF DerivedValue
  <2>2. Whole(snapshot.value, snapshot.sources, layers)'
        BY <1>1, <2>1 DEF Whole
  <2>. QED
       BY <2>2 DEF WholeInv
<1>. QED
     BY <1>3, <1>4 DEF Derive

LEMMA ConfigStaysWhole ==
    ASSUME ConfigInv, [ApplyNext]_allVars
    PROVE  ConfigInv'
<1>1. (ReadInv /\ LoadedInv)'
      BY ConfigKeeps DEF ConfigInv
<1>2. CASE UNCHANGED configVars
      BY <1>1, <1>2 DEF configVars, ConfigInv, FilesAreTrees, InOrderLoaded, WholeInv, Whole
<1>3. CASE Invoke
  <2>1. /\ DOMAIN parsed' = {} /\ loaded' = <<>> /\ DOMAIN loaded' = {} /\ step' = "global"
        /\ UNCHANGED <<docs, input>>
        BY <1>3, EmptyDomain DEF Invoke
  <2>. QED
       BY <1>1, <2>1 DEF ConfigInv, FilesAreTrees, InOrderLoaded, WholeInv
<1>4. CASE ConfigNext
  <2>1. FilesAreTrees'
        BY <1>4, FilesStayTrees DEF ConfigInv
  <2>2. CASE LoadDocument
    <3>1. step' # "done"
          BY <2>2 DEF LoadDocument, NextStep
    <3>. QED
         BY <1>1, <2>1, <2>2, <3>1, LoadedInOrder DEF ConfigInv, WholeInv
  <2>3. CASE Resolve
    <3>1. InOrderLoaded'
          BY <2>3 DEF Resolve, ConfigInv, InOrderLoaded
    <3>. QED
         BY <1>1, <2>1, <2>3, <3>1, ResolveIsWhole DEF ConfigInv
  <2>4. CASE \E patch \in input.patches : Derive(patch)
    <3>1. PICK patch \in input.patches : Derive(patch)
          BY <2>4
    <3>2. InOrderLoaded'
          BY <3>1 DEF Derive, ConfigInv, InOrderLoaded
    <3>. QED
         BY <1>1, <2>1, <3>1, <3>2, DeriveIsWhole DEF ConfigInv
  <2>5. CASE \E g \in DOMAIN docs, document \in input.documents : EditFile(g, document)
    <3>1. UNCHANGED <<loaded, step>> /\ step # "done"
          BY <2>5 DEF EditFile
    <3>. QED
         BY <1>1, <2>1, <3>1 DEF ConfigInv, InOrderLoaded, WholeInv
  <2>. QED
       BY <1>4, <2>2, <2>3, <2>4, <2>5 DEF ConfigNext
<1>. QED
     BY <1>2, <1>3, <1>4 DEF ApplyNext, Invocations, allVars, CompileHarness, Compile, AskAdapters

LEMMA WholeIsPromised ==
    ASSUME ConfigInv
    PROVE  HighestLayerWins /\ SourcesAreOfLeaves /\ SecretsAreResolvedOnce
<1>1. SUFFICES ASSUME snapshot # NoSnapshot PROVE HighestLayerWins /\ SourcesAreOfLeaves /\ SecretsAreResolvedOnce
      BY DEF HighestLayerWins, SourcesAreOfLeaves, SecretsAreResolvedOnce
<1>2. Whole(snapshot.value, snapshot.sources, layers)
      BY <1>1 DEF ConfigInv, ReadInv, WholeInv
<1>3. \A i, p : Supplies(i, p) <=> SuppliesUpTo(layers, Len(layers), i, p)
      BY DEF Supplies, SuppliesUpTo
<1>4. \A i \in DOMAIN layers : \A p \in Scalars(layers[i].patch) : Supplies(i, p) =>
         /\ p \in Scalars(snapshot.value) /\ snapshot.sources[p] = layers[i].source
         /\ snapshot.value[p] = IF p \in Secrets /\ layers[i].source \in FileSources
                                THEN input.env[VarOf[layers[i].patch[p]]] ELSE layers[i].patch[p]
      BY <1>2, <1>3 DEF Whole
<1>5. Scalars(snapshot.value) = Supplied
  <2>1. \A p \in Scalars(snapshot.value) : \E i \in DOMAIN layers : Supplies(i, p)
        BY <1>2, <1>3 DEF Whole
  <2>2. \A i, p : Supplies(i, p) => p \in Scalars(layers[i].patch)
        BY DEF Supplies
  <2>3. \A p : p \in Supplied <=> \E i \in DOMAIN layers : p \in Scalars(layers[i].patch) /\ Supplies(i, p)
        BY DEF Supplied
  <2>. QED
       BY <1>4, <2>1, <2>2, <2>3
<1>6. \A i, j \in DOMAIN layers : i < j => Rank[layers[i].source] <= Rank[layers[j].source]
      BY <1>2 DEF Whole
<1>7. HighestLayerWins
      BY <1>4, <1>5, <1>6 DEF HighestLayerWins
<1>8. SourcesAreOfLeaves
      BY <1>2 DEF Whole, SourcesAreOfLeaves
<1>9. SecretsAreResolvedOnce
      BY <1>4 DEF SecretsAreResolvedOnce
<1>. QED
     BY <1>7, <1>8, <1>9

\* What resolveConfig and derive promise of every snapshot (resolver.ts,
\* snapshot.ts): the merge computes the documented precedence and records where
\* each leaf comes from, a secret is resolved once and only out of a file, and
\* no wrong document or second reading is behind it.
THEOREM SnapshotsAreWhole == ApplySpec => []SnapshotInv
<1>1. ApplyInit => ConfigInv
  <2>1. SUFFICES ASSUME ApplyInit PROVE ConfigInv
        OBVIOUS
  <2>2. <<>> \in Seq({}) /\ DOMAIN <<>> = {}
        BY EmptySeq
  <2>3. /\ input \in Inputs /\ docs = input.docs /\ step = "global" /\ parsed = <<>> /\ loaded = <<>>
        /\ snapshot = NoSnapshot
        BY <2>1 DEF ApplyInit, ConfigInit
  <2>4. ReadInv /\ LoadedInv
        BY <2>2, <2>3 DEF ReadInv, LoadedInv
  <2>5. /\ \A document \in ({docs[g] : g \in DOMAIN docs} \cup input.documents) \ {Missing} : OfTrees(document)
        /\ \A t \in ({input.overrides} \ {NoTree}) \cup input.patches : IsTree(t)
        /\ \A v \in Vars : input.env[v] # Empty
        /\ {input.file.global, input.file.project} \subseteq DOMAIN docs \cup {Missing}
        BY <2>3, TreesAssumption
  <2>6. FilesAreTrees
        BY <2>2, <2>3, <2>5 DEF FilesAreTrees
  <2>. QED
       BY <2>2, <2>3, <2>4, <2>6 DEF ConfigInv, InOrderLoaded, WholeInv
<1>2. ConfigInv /\ [ApplyNext]_allVars => ConfigInv'
      BY ConfigStaysWhole
<1>3. ConfigInv => HighestLayerWins /\ SourcesAreOfLeaves /\ SecretsAreResolvedOnce
      BY WholeIsPromised
<1>4. ApplySpec => [](HighestLayerWins /\ SourcesAreOfLeaves /\ SecretsAreResolvedOnce)
      BY <1>1, <1>2, <1>3, PTL DEF ApplySpec
<1>. QED
     BY <1>4, WhatIsReadIsChecked, PTL DEF SnapshotInv

-------------------------------------------------------------------------------
\* What was compiled from the settings.

IsCompiled(o, s) ==
    /\ s.harness \in Harnesses /\ Problems(s) = {} /\ Selectable(s) /\ Projectable(s)
    /\ \A c \in Commands : /\ o.commands[c].packs \subseteq {PackOf(s, slot) : slot \in InstructionSlots}
                           /\ o.commands[c].routes = [r \in ToSet(RoleSlots[c]) |-> Route(s, r)]
    /\ o.agents = {[role |-> r, agent |-> s.roles[r]] : r \in Named(s)}
    /\ o.hints = [r \in {q \in Roles : s.hinted /\ s.roles[q] # NoRole} |-> Advice(s, r)]
    /\ o.files = {x.value : x \in FileAnswers(s)} /\ o.plans = {x.value : x \in PackageAnswers(s)}
    /\ o.prerequisites = Prerequisites(s)

CompiledInv ==
    /\ phase # "idle" => settings.harness \in Harnesses
    /\ phase = "compiled" => IsCompiled(output, settings)

LEMMA CompilingKeeps ==
    ASSUME CompiledInv, [ApplyNext]_allVars
    PROVE  CompiledInv'
<1>1. CASE UNCHANGED compilerVars
      BY <1>1 DEF compilerVars, CompiledInv
<1>2. CASE phase' # "compiled" /\ settings' = settings /\ phase # "idle"
      BY <1>2 DEF CompiledInv
<1>3. CASE phase' = "idle"
      BY <1>3 DEF CompiledInv
<1>4. CASE CompileSdlc /\ phase' = "compiled"
  <2>1. AcceptedInput(settings) /\ output' = Compiled(settings) /\ settings' = settings /\ settings.harness \in Harnesses
        BY <1>4 DEF CompileSdlc, CompiledInv
  <2>2. Problems(settings) = {} /\ Selectable(settings) /\ Projectable(settings)
        BY <2>1 DEF AcceptedInput
  <2> DEFINE o == Compiled(settings)
  <2>3. ASSUME NEW c \in Commands
        PROVE  /\ o.commands[c].packs \subseteq {PackOf(settings, slot) : slot \in InstructionSlots}
               /\ o.commands[c].routes = [r \in ToSet(RoleSlots[c]) |-> Route(settings, r)]
    <3>1. o.commands[c] = CompiledCommand(settings, c)
          BY DEF Compiled
    <3>. QED
         BY <3>1 DEF CompiledCommand
  <2>4. /\ o.agents = {[role |-> r, agent |-> settings.roles[r]] : r \in Named(settings)}
        /\ o.hints = [r \in {q \in Roles : settings.hinted /\ settings.roles[q] # NoRole} |-> Advice(settings, r)]
        /\ o.files = {x.value : x \in FileAnswers(settings)}
        /\ o.plans = {x.value : x \in PackageAnswers(settings)}
        /\ o.prerequisites = Prerequisites(settings)
        BY DEF Compiled
  <2>5. IsCompiled(o, settings)
        BY <2>1, <2>2, <2>3, <2>4 DEF IsCompiled
  <2>. QED
       BY <2>1, <2>5 DEF CompiledInv
<1>5. ASSUME OpenNext("package") \/ OpenNext(phase) PROVE phase' # "compiled"
      BY <1>5 DEF OpenNext, NextDirectory
<1>6. CASE Configured /\ StartCompiler(snapshot.value[TargetsPath])
  <2>1. settings'.harness \in Harnesses
        BY <1>6 DEF Configured, IsSettings, StartCompiler
  <2>. QED
       BY <1>5, <1>6, <2>1 DEF StartCompiler, CompiledInv
<1>7. CASE CompilerNext
      BY <1>2, <1>4, <1>5, <1>7 DEF CompilerNext, ReadTemplate, CloseDirectory, CompileSdlc
<1>8. CASE \E t \in {"global", "project"}, directory \in input.directories : EditTemplate(t, directory)
      BY <1>2, <1>8 DEF EditTemplate
<1>9. CASE CompileHarness
      BY <1>6, <1>7, <1>8, <1>9 DEF CompileHarness
<1>10. CASE ForgetCompiler
      BY <1>3, <1>10 DEF ForgetCompiler
<1>. QED
     BY <1>1, <1>9, <1>10 DEF ApplyNext, Invocations, Invoke, Compile, AskAdapters, allVars,
           compilerVars

\* The pack of a slot is that of the provider selected for it.
LEMMA PackIsSelected ==
    ASSUME NEW s, Selectable(s), NEW slot \in InstructionSlots
    PROVE  PackOf(s, slot) = Pack(slot, s[slot]) /\ PackOf(s, slot) \in Packs(s)
<1> DEFINE S == {p \in Packs(s) : p.slot = slot}
<1>1. Cardinality(S) = 1
      BY DEF Selectable
<1>2. \A p \in Packs(s) : p = Pack(p.slot, p.provider) /\ s[p.slot] = p.provider
      BY DEF Packs, Builtin, ForgePacks, Pack
<1>3. S # {}
      BY <1>1, FS_EmptySet
<1>. QED
     BY <1>2, <1>3 DEF PackOf

LEMMA PacksKnown ==
    ASSUME NEW s, Selectable(s), NEW slot \in InstructionSlots
    PROVE  LET p == PackOf(s, slot)
           IN  /\ p.slot = slot /\ p.provider = s[slot]
               /\ p.provider \in Forges => p.slot \in CapabilitiesOf(s, p.provider)
               /\ p.provider \notin Forges => p \in Builtin
<1>1. PackOf(s, slot) = Pack(slot, s[slot]) /\ PackOf(s, slot) \in Packs(s)
      BY PackIsSelected
<1>2. \A p \in Builtin : p.provider \in Providers
      BY DEF Builtin, Pack, Providers
<1>3. \A p \in ForgePacks(s) : p.provider \in Forges /\ p.slot \in CapabilitiesOf(s, p.provider)
      BY DEF ForgePacks, Pack, ForgesOf
<1>. QED
     BY <1>1, <1>2, <1>3, ForgesAssumption DEF Packs, Pack

LEMMA ModulesAreEnabled ==
    ASSUME NEW s, Problems(s) = {}
    PROVE  /\ \A m \in {"issues", "documents"} : s[m] = "filesystem" => m \in s.enabled
           /\ \A m \in Boundary : s[m] # "none" => m \in s.enabled
           /\ s.memory \in {"none", s.backend}
<1>1. ModuleProblems(s) = {}
      BY DEF Problems
<1>2. \A m \in {"issues", "documents"} : s[m] = "filesystem" => m \in s.enabled
      BY <1>1 DEF ModuleProblems
<1>3. \A m \in Boundary : s[m] # "none" => m \in s.enabled
      BY <1>1 DEF ModuleProblems, Boundary
<1>4. s.memory # "none" /\ "memory" \in s.enabled => s.memory = s.backend
      BY <1>1 DEF ModuleProblems
<1>. QED
     BY <1>2, <1>3, <1>4 DEF Boundary

LEMMA ForgesAreConnected ==
    ASSUME NEW s, Problems(s) = {}, NEW g \in Forges, NEW cap \in CapabilitiesOf(s, g)
    PROVE  LET connection == s.connections[g]
           IN  /\ g \in ForgesOf(s) /\ cap \in Capabilities
               /\ connection # NoConnection /\ (connection.http => connection.optIn)
               /\ cap \in Support[g].capabilities
<1>1. g \in ForgesOf(s) /\ cap \in Capabilities
      BY DEF ForgesOf, CapabilitiesOf, Selected
<1>2. ForgeProblems(s, g) = {}
      BY <1>1 DEF Problems
<1>. QED
     BY <1>1, <1>2 DEF ForgeProblems

LEMMA PacksAreUsed ==
    ASSUME CompiledInv, phase = "compiled", NEW c \in Commands, NEW p \in output.commands[c].packs
    PROVE  /\ (p.provider = "filesystem" \/ (p.slot \in Boundary /\ p.provider # "none")) => p.slot \in settings.enabled
           /\ p.slot = "memory" => p.provider \in {"none", settings.backend}
           /\ p.provider \in Forges =>
                 LET connection == settings.connections[p.provider]
                 IN  /\ connection # NoConnection /\ (connection.http => connection.optIn)
                     /\ p.slot \in Support[p.provider].capabilities
                     /\ p.slot \in CapabilitiesOf(settings, p.provider)
<1> DEFINE s == settings
<1>1. Problems(s) = {} /\ Selectable(s)
      BY DEF CompiledInv, IsCompiled
<1>2. PICK slot \in InstructionSlots : p = PackOf(s, slot)
      BY DEF CompiledInv, IsCompiled
<1>3. /\ p.slot = slot /\ p.provider = s[slot]
      /\ p.provider \in Forges => p.slot \in CapabilitiesOf(s, p.provider)
      /\ p.provider \notin Forges => p \in Builtin
      BY <1>1, <1>2, PacksKnown
<1>4. /\ \A m \in {"issues", "documents"} : s[m] = "filesystem" => m \in s.enabled
      /\ \A m \in Boundary : s[m] # "none" => m \in s.enabled
      /\ s.memory \in {"none", s.backend}
      BY <1>1, ModulesAreEnabled
<1>5. p.provider \in Forges =>
          LET connection == s.connections[p.provider]
          IN  /\ connection # NoConnection /\ (connection.http => connection.optIn)
              /\ p.slot \in Support[p.provider].capabilities
      BY <1>1, <1>3, ForgesAreConnected
<1>6. ASSUME p.provider = "filesystem" PROVE p.slot \in s.enabled
  <2>1. p \in Builtin
        BY <1>3, <1>6, ForgesAssumption DEF Providers
  <2>2. p.slot \in {"issues", "documents", "memory"}
        BY <1>6, <2>1 DEF Builtin, Pack
  <2>. QED
       BY <1>3, <1>4, <1>6, <2>2 DEF Boundary
<1>. QED
     BY <1>3, <1>4, <1>5, <1>6

LEMMA RoutesAreRequired ==
    ASSUME NEW s, NEW g \in Forges, NEW cap \in CapabilitiesOf(s, g), s.connections[g] # NoConnection
    PROVE  Routes(s, g, cap) \subseteq Prerequisites(s)
<1> DEFINE service == s.connections[g].mcp[cap]
<1>1. g \in ForgesOf(s) /\ cap \in Capabilities
      BY DEF ForgesOf, CapabilitiesOf, Selected
<1>2. ASSUME cap = "remote" \/ (service = NoService /\ cap = "documents") PROVE "git" \in Prerequisites(s)
  <2>1. NeedsGit(s, g)
        BY <1>2 DEF NeedsGit
  <2>. QED
       BY <1>1, <2>1 DEF Prerequisites
<1>3. ASSUME service # NoService PROVE service.server \in Prerequisites(s)
  <2>1. <<g, cap>> \in ServicesOf(s) /\ Service(s, <<g, cap>>) = service
        BY <1>1, <1>3 DEF ServicesOf, Service
  <2>. QED
       BY <2>1 DEF Prerequisites
<1>4. ASSUME service = NoService, cap # "documents" PROVE Support[g].client \in Prerequisites(s)
  <2>1. NeedsClient(s, g)
        BY <1>4 DEF NeedsClient
  <2>. QED
       BY <1>1, <2>1 DEF Prerequisites
<1>5. g \in Prerequisites(s)
      BY <1>1 DEF Prerequisites
<1>. QED
     BY <1>2, <1>3, <1>4, <1>5 DEF Routes

LEMMA RolesAreOpen ==
    ASSUME NEW s, Problems(s) = {}
    PROVE  /\ \A r \in RequiredRoles : s.roles[r] # NoRole
           /\ \A r, q \in Named(s) : s.roles[r] = s.roles[q] => r = q
<1>1. RoleProblems(s) = {}
      BY DEF Problems
<1>2. {r \in RequiredRoles : s.roles[r] = NoRole} = {}
      BY <1>1 DEF RoleProblems
<1>3. ASSUME NEW q \in Named(s), NEW r \in Named(s), s.roles[r] = s.roles[q] PROVE r = q
  <2> DEFINE D == {x \in Named(s) : \E p \in Named(s) \ {x} : s.roles[p] = s.roles[x]}
  <2>1. {<<x, "duplicated">> : x \in D} \subseteq RoleProblems(s)
        BY DEF RoleProblems
  <2>. QED
       BY <1>1, <1>3, <2>1
<1>. QED
     BY <1>2, <1>3

LEMMA AgentsAreThere ==
    ASSUME CompiledInv, phase = "compiled"
    PROVE  AgentsArePresent
<1> DEFINE s == settings
<1>1. Problems(s) = {} /\ output.agents = {[role |-> r, agent |-> s.roles[r]] : r \in Named(s)}
      BY DEF CompiledInv, IsCompiled
<1>2. ASSUME NEW c \in Commands, NEW r \in DOMAIN output.commands[c].routes, output.commands[c].routes[r] # "current"
      PROVE  [role |-> r, agent |-> output.commands[c].routes[r]] \in output.agents
  <2>1. output.commands[c].routes = [q \in ToSet(RoleSlots[c]) |-> Route(s, q)]
        BY DEF CompiledInv, IsCompiled
  <2>2. r \in ToSet(RoleSlots[c]) /\ output.commands[c].routes[r] = Route(s, r)
        BY <1>2, <2>1
  <2>3. r \in Roles
        BY <2>2, RolesAssumption DEF ToSet
  <2>4. Route(s, r) = s.roles[r] /\ r \in Named(s)
        BY <1>2, <2>2, <2>3 DEF Route, Named
  <2>. QED
       BY <1>1, <2>2, <2>4
<1>3. ASSUME NEW a \in output.agents, NEW b \in output.agents, a.agent = b.agent PROVE a = b
  <2>1. PICK r \in Named(s) : a = [role |-> r, agent |-> s.roles[r]]
        BY <1>1
  <2>2. PICK q \in Named(s) : b = [role |-> q, agent |-> s.roles[q]]
        BY <1>1
  <2>. QED
       BY <1>1, <1>3, <2>1, <2>2, RolesAreOpen
<1>4. \A r \in RequiredRoles : s.roles[r] # NoRole
      BY <1>1, RolesAreOpen
<1>. QED
     BY <1>2, <1>3, <1>4 DEF AgentsArePresent

\* Whatever the configuration and the overrides, no command tells of a provider
\* that is off, unconnected or unsupported, what it tells the agent to use is a
\* prerequisite, and a role is handed to an agent that is installed for it alone
\* (compiler-context.ts, instructions.ts, forge-instructions.ts, compiler.ts).
THEOREM CompiledIsUsable ==
    ApplySpec => [](phase = "compiled" => PacksAreUsable /\ RoutesAreProvided /\ AgentsArePresent)
<1>1. ApplyInit => CompiledInv
      BY DEF ApplyInit, CompilerInit, CompiledInv
<1>2. CompiledInv /\ [ApplyNext]_allVars => CompiledInv'
      BY CompilingKeeps
<1>3. CompiledInv /\ phase = "compiled" => PacksAreUsable /\ RoutesAreProvided /\ AgentsArePresent
  <2> SUFFICES ASSUME CompiledInv, phase = "compiled"
               PROVE  PacksAreUsable /\ RoutesAreProvided /\ AgentsArePresent
      OBVIOUS
  <2>1. PacksAreUsable
        BY PacksAreUsed DEF PacksAreUsable
  <2>2. ASSUME NEW c \in Commands, NEW p \in output.commands[c].packs, p.provider \in Forges
        PROVE  Routes(settings, p.provider, p.slot) \subseteq output.prerequisites
    <3>1. p.slot \in CapabilitiesOf(settings, p.provider) /\ settings.connections[p.provider] # NoConnection
          BY <2>2, PacksAreUsed
    <3>2. output.prerequisites = Prerequisites(settings)
          BY DEF CompiledInv, IsCompiled
    <3>. QED
         BY <2>2, <3>1, <3>2, RoutesAreRequired
  <2>3. RoutesAreProvided
        BY <2>2 DEF RoutesAreProvided
  <2>. QED
       BY <2>1, <2>3, AgentsAreThere
<1>. QED
     BY <1>1, <1>2, <1>3, PTL DEF ApplySpec

-------------------------------------------------------------------------------
\* The adapters: what their tables say.

LEMMA Tables ==
    /\ DOMAIN PromptFeature = {"description", "argumentHint", "agent", "model", "subtask"}
    /\ DOMAIN AgentFeature = {"modelHint", "thinkingHint", "steps", "permissions"}
    /\ Lacks["opencode"] = {"prompt.argument-hint", "agent.thinking"}
    /\ Lacks["claude-code"] = {"asset.extension", "agent.permissions"}
    /\ Lacks["pi"] =
          {"asset.agent", "config.mcp.local", "config.mcp.remote", "prompt.agent", "prompt.model", "prompt.subtask",
           "agent.primary", "agent.subagent", "agent.model", "agent.thinking", "agent.steps", "agent.permissions"}
<1>1. DOMAIN AgentFeature = {"modelHint", "thinkingHint", "steps", "permissions"}
      BY DEF AgentFeature
<1>2. FeaturesOf(AgentFeature) = {"agent.model", "agent.thinking", "agent.steps", "agent.permissions"}
      BY <1>1 DEF FeaturesOf, AgentFeature
<1>3. DOMAIN PromptFeature = {"description", "argumentHint", "agent", "model", "subtask"}
      BY DEF PromptFeature
<1>4. Lacks["opencode"] = {"prompt.argument-hint", "agent.thinking"}
      BY DEF Lacks, Harnesses
<1>5. Lacks["claude-code"] = {"asset.extension", "agent.permissions"}
      BY DEF Lacks, Harnesses
<1>6. Lacks["pi"] =
          {"asset.agent", "config.mcp.local", "config.mcp.remote", "prompt.agent", "prompt.model", "prompt.subtask",
           "agent.primary", "agent.subagent", "agent.model", "agent.thinking", "agent.steps", "agent.permissions"}
      BY <1>2 DEF Lacks, Harnesses
<1>. QED
     BY <1>1, <1>3, <1>4, <1>5, <1>6

LEMMA Answers ==
    /\ \A v : Value(v).ok /\ Value(v).value = v
    /\ \A p : ~Diagnosed(p).ok /\ Diagnosed(p).problems = p
BY DEF Value, Diagnosed

LEMMA DeclaredScopes ==
    ASSUME NEW h \in Harnesses, NEW f
    PROVE  /\ f \in Lacks[h] => ScopesOf(h, f) = {}
           /\ f \notin Lacks[h] =>
                  ScopesOf(h, f) = IF h = "claude-code" /\ f \in ConfigFeatures THEN {"project"} ELSE Scopes
BY DEF ScopesOf, Supported

LEMMA ScopesMatch ==
    ASSUME NEW h \in Harnesses, NEW scope \in Scopes
    PROVE  /\ \A f, id : MatchesScope(AssetPath(h, f, scope, id), scope)
           /\ h = "claude-code" /\ scope = "project" => ValidLocator(Locator(h, scope), scope)
           /\ h # "claude-code" => ValidLocator(Locator(h, scope), scope)
<1>1. Anchor(h, scope) = "project" <=> scope = "project"
      BY DEF Anchor, Scopes
<1>2. Anchor(h, scope) \in {"project", "xdg-config", "home"}
      BY DEF Anchor
<1>3. \A f, id : MatchesScope(AssetPath(h, f, scope, id), scope)
      BY <1>1, <1>2 DEF MatchesScope, AssetPath
<1>4. CASE h = "opencode"
      BY <1>1, <1>2, <1>3, <1>4 DEF ValidLocator, Locator, MatchesScope
<1>5. CASE h = "claude-code"
      BY <1>3, <1>5 DEF ValidLocator, Locator, MatchesScope
<1>6. CASE h = "pi"
      BY <1>1, <1>2, <1>3, <1>6 DEF ValidLocator, Locator, MatchesScope
<1>. QED
     BY <1>4, <1>5, <1>6 DEF Harnesses

\* The folder is the segment after the root, and a file is right below it.
LEMMA FolderInPath ==
    ASSUME NEW h \in Harnesses, NEW f \in AssetFeatures, NEW scope \in Scopes, NEW id
    PROVE  LET segments == AssetPath(h, f, scope, id).segments
               n == Len(Root(h, scope)) + 1
           IN  /\ n \in Nat /\ segments[n] = Folder(h, f) /\ n \in DOMAIN segments
               /\ Len(segments) \in Nat /\ Len(segments) > n /\ segments[n + 1] = Leaf(f, id)[1]
<1> DEFINE root == Root(h, scope)
           leaf == Leaf(f, id)
           S == {".opencode", "opencode", ".claude", ".pi", "agent", Folder(h, f), id,
                 "SKILL.md", <<id, "ts">>, <<id, "md">>}
           segments == AssetPath(h, f, scope, id).segments
<1>1. root \in Seq(S) /\ Len(root) \in Nat
  <2>1. /\ <<".opencode">> \in Seq(S) /\ <<"opencode">> \in Seq(S) /\ <<".claude">> \in Seq(S)
        /\ <<".pi">> \in Seq(S) /\ <<".pi", "agent">> \in Seq(S)
        OBVIOUS
  <2> HIDE DEF S
  <2>2. root \in {<<".opencode">>, <<"opencode">>, <<".claude">>, <<".pi">>, <<".pi", "agent">>}
        BY DEF Root
  <2>. QED
       BY <2>1, <2>2, LenProperties
<1>2. leaf \in Seq(S) /\ Len(leaf) \in Nat /\ Len(leaf) > 0
  <2> DEFINE P(x) == x \in Seq(S) /\ Len(x) \in Nat /\ Len(x) > 0
  <2>1. P(<<id, "SKILL.md">>) /\ P(<<<<id, "ts">>>>) /\ P(<<<<id, "md">>>>)
        OBVIOUS
  <2> HIDE DEF P
  <2>2. P(leaf)
        BY <2>1 DEF Leaf
  <2>. QED
       BY <2>2 DEF P
<1>3. <<Folder(h, f)>> \in Seq(S) /\ Len(<<Folder(h, f)>>) = 1 /\ <<Folder(h, f)>>[1] = Folder(h, f)
      OBVIOUS
<1>4. segments = (root \o <<Folder(h, f)>>) \o leaf
      BY DEF AssetPath
<1> HIDE DEF root, leaf, S, segments
<1> DEFINE both == root \o <<Folder(h, f)>>
<1>5. both \in Seq(S) /\ Len(both) = Len(root) + 1 /\ both[Len(root) + 1] = Folder(h, f)
      BY <1>1, <1>3, ConcatProperties
<1> HIDE DEF both
<1>6. /\ Len(both \o leaf) = Len(both) + Len(leaf) /\ (both \o leaf)[Len(both)] = both[Len(both)]
      /\ (both \o leaf)[Len(both) + 1] = leaf[1] /\ both \o leaf \in Seq(S)
  <2>1. Len(both) \in 1 .. Len(both) + Len(leaf) /\ Len(both) + 1 \in 1 .. Len(both) + Len(leaf)
        BY <1>1, <1>2, <1>5
  <2>2. /\ both \o leaf \in Seq(S) /\ Len(both \o leaf) = Len(both) + Len(leaf)
        /\ \A i \in 1 .. Len(both) + Len(leaf) :
              (both \o leaf)[i] = IF i <= Len(both) THEN both[i] ELSE leaf[i - Len(both)]
        BY <1>2, <1>5, ConcatProperties
  <2>. QED
       BY <1>1, <1>2, <1>5, <2>1, <2>2
<1>7. segments = both \o leaf
      BY <1>4 DEF both
<1>8. DOMAIN segments = 1 .. Len(segments)
      BY <1>6, <1>7, LenProperties
<1>. QED
     BY <1>1, <1>2, <1>5, <1>6, <1>7, <1>8 DEF root, leaf, segments

LEMMA LocatorsAreShort ==
    ASSUME NEW h \in Harnesses, NEW scope \in Scopes, NEW n \in DOMAIN Locator(h, scope)
    PROVE  LET segments == Locator(h, scope)[n].segments
           IN  Len(segments) \in Nat /\ Len(segments) <= Len(Root(h, scope)) + 1
<1> DEFINE There(segments) == [anchor |-> Anchor(h, scope), segments |-> segments]
           Words == {"opencode", "opencode.json", "opencode.jsonc", ".pi", "agent", "settings.json"}
<1>0. \A s \in Seq(Words), x \in Words : Len(s \o <<x>>) = Len(s) + 1
      BY ConcatProperties
<1>1. CASE h = "opencode"
  <2> DEFINE base == IF scope = "project" THEN <<>> ELSE <<"opencode">>
  <2>1. Locator(h, scope) = <<There(base \o <<"opencode.json">>), There(base \o <<"opencode.jsonc">>)>>
        BY <1>1 DEF Locator
  <2>2. base \in Seq(Words) /\ Len(base) \in {0, 1}
    <3>1. <<>> \in Seq(Words) /\ Len(<<>>) = 0 /\ <<"opencode">> \in Seq(Words) /\ Len(<<"opencode">>) = 1
          BY EmptySeq
    <3>. QED
         BY <3>1
  <2>3. Len(base \o <<"opencode.json">>) = Len(base) + 1 /\ Len(base \o <<"opencode.jsonc">>) = Len(base) + 1
        BY <1>0, <2>2
  <2>4. Len(Root(h, scope)) = 1
        BY <1>1 DEF Root
  <2> HIDE DEF base
  <2>. QED
       BY SMTT(30), <2>1, <2>2, <2>3, <2>4
<1>2. CASE h = "claude-code"
  <2>1. Locator(h, scope) = <<[anchor |-> "project", segments |-> <<".mcp.json">>]>>
        BY <1>2 DEF Locator
  <2>2. Len(Root(h, scope)) = 1
        BY <1>2 DEF Root
  <2>3. Locator(h, scope)[n].segments = <<".mcp.json">> /\ Len(<<".mcp.json">>) = 1
        BY <2>1
  <2>. QED
       BY <2>2, <2>3
<1>3. CASE h = "pi"
  <2>1. Locator(h, scope) = <<There(Root(h, scope) \o <<"settings.json">>)>>
        BY <1>3 DEF Locator
  <2>2. Root(h, scope) \in Seq(Words) /\ Len(Root(h, scope)) \in {1, 2}
    <3>1. <<".pi">> \in Seq(Words) /\ Len(<<".pi">>) = 1 /\ <<".pi", "agent">> \in Seq(Words) /\ Len(<<".pi", "agent">>) = 2
          OBVIOUS
    <3>2. Root(h, scope) = <<".pi">> \/ Root(h, scope) = <<".pi", "agent">>
          BY <1>3 DEF Root
    <3>. QED
         BY <3>1, <3>2
  <2>3. Len(Root(h, scope) \o <<"settings.json">>) = Len(Root(h, scope)) + 1
        BY <1>0, <2>2
  <2>. QED
       BY <2>1, <2>2, <2>3
<1>. QED
     BY <1>1, <1>2, <1>3 DEF Harnesses

LEMMA FoldersDiffer ==
    ASSUME NEW h \in Harnesses, NEW f \in AssetFeatures, NEW g \in AssetFeatures, f # g, Folder(h, f) = Folder(h, g)
    PROVE  FALSE
BY DEF Folder, AssetFeatures, Harnesses

\* Two assets of one id never share a file, and no asset is the host's configuration.
LEMMA PathsDiffer ==
    ASSUME NEW h \in Harnesses, NEW f \in AssetFeatures, NEW scope \in Scopes, NEW id
    PROVE  /\ \A g \in AssetFeatures \ {f} : AssetPath(h, g, scope, id) # AssetPath(h, f, scope, id)
           /\ \A n \in DOMAIN Locator(h, scope) : Locator(h, scope)[n] # AssetPath(h, f, scope, id)
<1>1. ASSUME NEW g \in AssetFeatures, AssetPath(h, g, scope, id) = AssetPath(h, f, scope, id) PROVE g = f
      BY <1>1, FolderInPath, FoldersDiffer
<1>2. ASSUME NEW n \in DOMAIN Locator(h, scope), Locator(h, scope)[n] = AssetPath(h, f, scope, id) PROVE FALSE
      BY <1>2, FolderInPath, LocatorsAreShort
<1>. QED
     BY <1>1, <1>2

-------------------------------------------------------------------------------
\* Every kind of request is answered as the declaration says.

FileKinds == {"prompt", "skill", "extension", "agent"}
Support3 == {"UNSUPPORTED_HOST_FEATURE", "UNSUPPORTED_SCOPE", "UNREPRESENTABLE_METADATA"}

Keeps(h, r, answer) ==
    /\ r.kind # "reload" => DeclarationIsTrue(h, r, answer)
    /\ answer.ok => NothingIsDropped(r, answer.value) /\ TargetsAreApart(h, r, answer.value)

IsRight(h, r) ==
    /\ Answer(h, r).ok => ValidValue(h, r, Answer(h, r).value)
    /\ Keeps(h, r, Answer(h, r))

LEMMA Checks ==
    ASSUME NEW condition, NEW code, NEW f, NEW p \in Check(condition, code, f)
    PROVE  p.code = code /\ p.feature = f
BY DEF Check, Problem

LEMMA ContentChecks ==
    ASSUME NEW f, NEW r
    PROVE  /\ ContentProblems(f, r) = {} => r.id \notin UnsafeIds /\ r.body # "crlf"
           /\ \A p \in ContentProblems(f, r) : p.code \in {"INVALID_ASSET_ID", "INVALID_CONTENT"} /\ p.feature = f
<1>1. ContentProblems(f, r) = {} => r.id \notin UnsafeIds /\ r.body # "crlf"
      BY DEF ContentProblems, Check, Problem
<1>2. ASSUME NEW p \in ContentProblems(f, r) PROVE p.code \in {"INVALID_ASSET_ID", "INVALID_CONTENT"} /\ p.feature = f
      BY Checks DEF ContentProblems
<1>. QED
     BY <1>1, <1>2

\* requireProjectedPath finds a path.
LEMMA FileIsValue ==
    ASSUME NEW h \in Harnesses, NEW f \in AssetFeatures, f \notin Lacks[h], NEW r, r.scope \in Scopes,
           r.id \notin UnsafeIds, r.id # NoId, NEW entries
    PROVE  File(h, f, r, entries)
               = Value([assetId |-> r.id, feature |-> f, target |-> AssetPath(h, f, r.scope, r.id),
                        entries |-> entries, body |-> r.body])
<1>1. f \notin ConfigFeatures
      BY DEF AssetFeatures, ConfigFeatures
<1>2. r.scope \in ScopesOf(h, f)
      BY <1>1, DeclaredScopes
<1>3. Target(h, f, r.scope, r.id) = Value(AssetPath(h, f, r.scope, r.id))
      BY <1>1, <1>2 DEF Target
<1>. QED
     BY <1>3, Answers DEF File

LEMMA FileIsRight ==
    ASSUME NEW h \in Harnesses, NEW f \in AssetFeatures, NEW r, r.kind \in FileKinds, Feature(r) = f, r.scope \in Scopes,
           r.id \notin UnsafeIds, r.body # "crlf", r.kind = "skill" => r.id \notin LongIds,
           NEW v, v.assetId = r.id, v.feature = f, v.target = AssetPath(h, f, r.scope, r.id), v.body = r.body
    PROVE  ValidValue(h, r, v) /\ TargetsAreApart(h, r, v)
<1>1. ValidFile(r, v)
      BY ScopesMatch DEF ValidFile
<1>2. ValidValue(h, r, v)
      BY <1>1 DEF ValidValue, FileKinds
<1>3. ASSUME NEW g \in AssetFeatures \ {v.feature}, Target(h, g, r.scope, r.id) = Value(v.target) PROVE FALSE
  <2>1. g \notin ConfigFeatures
        BY DEF AssetFeatures, ConfigFeatures
  <2>2. Target(h, g, r.scope, r.id) = Value(AssetPath(h, g, r.scope, r.id))
    <3>1. Target(h, g, r.scope, r.id).ok
          BY <1>3, Answers
    <3>. QED
         BY <2>1, <3>1, Answers DEF Target, Unsupported
  <2>3. AssetPath(h, g, r.scope, r.id) = AssetPath(h, f, r.scope, r.id)
    <3>1. Value(AssetPath(h, g, r.scope, r.id)) = Value(v.target)
          BY <1>3, <2>2
    <3>2. AssetPath(h, g, r.scope, r.id) = v.target
          BY <3>1 DEF Value
    <3>. QED
         BY <3>2
  <2>. QED
       BY <2>3, PathsDiffer
<1>4. TargetsAreApart(h, r, v)
      BY <1>3, PathsDiffer DEF TargetsAreApart
<1>. QED
     BY <1>2, <1>4

LEMMA PromptIsRight ==
    ASSUME NEW h \in Harnesses, NEW r, IsRequest(r), r.kind = "prompt"
    PROVE  IsRight(h, r)
<1> DEFINE given == Given(r, DOMAIN PromptFeature)
           Wrong(key) == IF key \notin PromptKeys(h) THEN Problem("UNREPRESENTABLE_METADATA", PromptFeature[key])
                       ELSE Check(r[key] # "blank", "INVALID_CONTENT", PromptFeature[key])
           problems == ContentProblems("asset.prompt", r) \cup UNION {Wrong(key) : key \in given}
           answer == Answer(h, r)
<1>1. answer = IF problems # {} THEN Diagnosed(problems) ELSE File(h, "asset.prompt", r, PromptEntries(h, r))
      BY DEF Answer, ProjectPrompt
<1>2. /\ Feature(r) = "asset.prompt" /\ ScopeOf(r) = r.scope /\ r.scope \in Scopes /\ r.id # NoId
      /\ Uses(r) = {"asset.prompt"} \cup {PromptFeature[key] : key \in given}
      BY DEF Feature, FeatureOfKind, ScopeOf, Uses, IsRequest
<1>3. given \subseteq {"description", "argumentHint", "agent", "model", "subtask"}
      BY Tables DEF Given
<1>4. /\ "asset.prompt" \in AssetFeatures \ ConfigFeatures /\ "asset.prompt" \notin Lacks[h]
      /\ \A key \in given : PromptFeature[key] \notin ConfigFeatures
      /\ \A key \in given : PromptFeature[key] \in Lacks[h] <=> key \notin PromptKeys(h)
  <2>1. "asset.prompt" \in AssetFeatures \ ConfigFeatures /\ "asset.prompt" \notin Lacks[h]
        BY Tables DEF AssetFeatures, ConfigFeatures, Harnesses
  <2>2. ASSUME NEW key \in given PROVE PromptFeature[key] \notin ConfigFeatures
        BY <1>3 DEF PromptFeature, ConfigFeatures
  <2>3. ASSUME NEW key \in given PROVE PromptFeature[key] \in Lacks[h] <=> key \notin PromptKeys(h)
    <3>1. CASE h = "opencode"
          BY <1>3, <3>1, Tables DEF PromptFeature, PromptKeys
    <3>2. CASE h = "claude-code"
          BY <1>3, <3>2, Tables DEF PromptFeature, PromptKeys
    <3>3. CASE h = "pi"
          BY <1>3, <3>3, Tables DEF PromptFeature, PromptKeys
    <3>. QED
         BY <3>1, <3>2, <3>3 DEF Harnesses
  <2>. QED
       BY <2>1, <2>2, <2>3
<1>5. CASE problems = {}
  <2>1. ContentProblems("asset.prompt", r) = {} /\ \A key \in given : Wrong(key) = {}
        BY <1>5
  <2>2. \A key \in given : key \in PromptKeys(h)
        BY <2>1 DEF Problem
  <2>3. r.id \notin UnsafeIds /\ r.body # "crlf"
        BY <2>1, ContentChecks
  <2> DEFINE v == [assetId |-> r.id, feature |-> "asset.prompt", target |-> AssetPath(h, "asset.prompt", r.scope, r.id),
                   entries |-> PromptEntries(h, r), body |-> r.body]
  <2>4. answer = Value(v)
        BY <1>1, <1>2, <1>4, <1>5, <2>3, FileIsValue
  <2>5. ValidValue(h, r, v) /\ TargetsAreApart(h, r, v)
        BY <1>2, <1>4, <2>3, FileIsRight DEF FileKinds
  <2>6. NothingIsDropped(r, v)
    <3> DEFINE mine == Given(r, PromptKeys(h))
    <3>1. \A key \in given : key \in mine
          BY <2>2 DEF Given
    <3>2. CASE h # "claude-code"
          BY <3>1, <3>2 DEF NothingIsDropped, PromptEntries
    <3>3. CASE h = "claude-code"
      <4>1. /\ DOMAIN v.entries = (mine \ {"subtask"}) \cup
                   (IF r.agent # "unset" \/ r.subtask = "true" THEN {"context"} ELSE {})
            /\ \A key \in mine \ {"subtask"} : key # "context" => v.entries[key] = r[key]
            BY <3>3 DEF PromptEntries
      <4>2. "context" \notin mine
            BY <3>3 DEF Given, PromptKeys
      <4>. QED
           BY <3>1, <4>1, <4>2 DEF NothingIsDropped
    <3>. QED
         BY <3>2, <3>3
  <2>7. Declares(h, r)
        BY <1>2, <1>4, <2>2, DeclaredScopes DEF Declares
  <2>. QED
       BY <2>4, <2>5, <2>6, <2>7, Answers DEF IsRight, Keeps, DeclarationIsTrue
<1>6. CASE problems # {}
  <2>1. answer = Diagnosed(problems)
        BY <1>1, <1>6
  <2>2. ASSUME NEW p \in problems
        PROVE  /\ p.code # "INVALID_ADAPTER_RESULT" /\ p.feature \in Uses(r)
               /\ p.code \in Support3 => r.scope \notin ScopesOf(h, p.feature)
    <3>1. CASE p \in ContentProblems("asset.prompt", r)
          BY <1>2, <3>1, ContentChecks DEF Support3
    <3>2. CASE \E key \in given : p \in Wrong(key)
      <4>1. PICK key \in given : p \in Wrong(key)
            BY <3>2
      <4>2. CASE key \notin PromptKeys(h)
        <5>1. p.code = "UNREPRESENTABLE_METADATA" /\ p.feature = PromptFeature[key]
              BY <4>1, <4>2 DEF Problem
        <5>. QED
             BY <1>2, <1>4, <4>2, <5>1, DeclaredScopes
      <4>3. CASE key \in PromptKeys(h)
        <5>1. p.code = "INVALID_CONTENT" /\ p.feature = PromptFeature[key]
              BY <4>1, <4>3, Checks
        <5>. QED
             BY <1>2, <5>1 DEF Support3
      <4>. QED
           BY <4>2, <4>3
    <3>. QED
         BY <3>1, <3>2
  <2>. QED
       BY <1>2, <2>1, <2>2, Answers DEF IsRight, Keeps, DeclarationIsTrue, Support3
<1>. QED
     BY <1>5, <1>6

LEMMA SkillIsRight ==
    ASSUME NEW h \in Harnesses, NEW r, IsRequest(r), r.kind = "skill"
    PROVE  IsRight(h, r)
<1> DEFINE f == "asset.skill"
           place == Target(h, f, r.scope, r.id)
           problems ==
               ContentProblems(f, r) \cup Check(r.id \notin LongIds, "INVALID_ASSET_ID", f)
               \cup Check(\A key \in SkillKeys : r[key] \notin {"blank", "long"}, "INVALID_CONTENT", f)
           entries == [key \in Given(r, SkillKeys) |-> r[key]]
           answer == Answer(h, r)
<1>1. answer = IF ~place.ok THEN place ELSE IF problems # {} THEN Diagnosed(problems) ELSE File(h, f, r, entries)
      BY DEF Answer, ProjectSkill
<1>2. Feature(r) = f /\ ScopeOf(r) = r.scope /\ r.scope \in Scopes /\ r.id # NoId /\ Uses(r) = {f}
      BY DEF Feature, FeatureOfKind, ScopeOf, Uses, IsRequest
<1>3. f \in AssetFeatures \ ConfigFeatures /\ f \notin Lacks[h] /\ r.scope \in ScopesOf(h, f)
  <2>1. f \in AssetFeatures \ ConfigFeatures /\ f \notin Lacks[h]
        BY Tables DEF AssetFeatures, ConfigFeatures, Harnesses
  <2>. QED
       BY <1>2, <2>1, DeclaredScopes
<1>4. Declares(h, r)
      BY <1>2, <1>3 DEF Declares
<1>5. CASE ~place.ok
  <2>1. place = Diagnosed(Problem("INVALID_ASSET_ID", f))
        BY <1>3, <1>5, Answers DEF Target
  <2>2. \A p \in Problem("INVALID_ASSET_ID", f) : p.code = "INVALID_ASSET_ID" /\ p.feature = f
        BY DEF Problem
  <2>. QED
       BY <1>1, <1>2, <1>5, <2>1, <2>2, Answers DEF IsRight, Keeps, DeclarationIsTrue
<1>6. CASE place.ok /\ problems = {}
  <2>1. ContentProblems(f, r) = {} /\ Check(r.id \notin LongIds, "INVALID_ASSET_ID", f) = {}
        BY <1>6
  <2>2. r.id \notin UnsafeIds /\ r.body # "crlf" /\ r.id \notin LongIds
        BY <2>1, ContentChecks DEF Check, Problem
  <2> DEFINE v == [assetId |-> r.id, feature |-> f, target |-> AssetPath(h, f, r.scope, r.id),
                   entries |-> entries, body |-> r.body]
  <2>3. answer = Value(v)
    <3>1. answer = File(h, f, r, entries)
          BY <1>1, <1>6
    <3>2. \A e : File(h, f, r, e) = Value([assetId |-> r.id, feature |-> f, target |-> AssetPath(h, f, r.scope, r.id),
                                           entries |-> e, body |-> r.body])
          BY <1>2, <1>3, <1>6, <2>2, FileIsValue
    <3>. QED
         BY <3>1, <3>2
  <2>4. ValidValue(h, r, v) /\ TargetsAreApart(h, r, v)
        BY <1>2, <1>3, <2>2, FileIsRight DEF FileKinds
  <2>5. NothingIsDropped(r, v)
        BY DEF NothingIsDropped
  <2>. QED
       BY <1>4, <2>3, <2>4, <2>5, Answers DEF IsRight, Keeps, DeclarationIsTrue
<1>7. CASE place.ok /\ problems # {}
  <2>1. answer = Diagnosed(problems)
        BY <1>1, <1>7
  <2>2. ASSUME NEW p \in problems
        PROVE  p.code \in {"INVALID_ASSET_ID", "INVALID_CONTENT"} /\ p.feature = f
    <3>1. CASE p \in ContentProblems(f, r)
          BY <3>1, ContentChecks
    <3>2. CASE p \notin ContentProblems(f, r)
          BY <3>2 DEF Check, Problem
    <3>. QED
         BY <3>1, <3>2
  <2> HIDE DEF problems
  <2>. QED
       BY <1>2, <2>1, <2>2, Answers DEF IsRight, Keeps, DeclarationIsTrue
<1>. QED
     BY <1>5, <1>6, <1>7

LEMMA ExtensionIsRight ==
    ASSUME NEW h \in Harnesses, NEW r, IsRequest(r), r.kind = "extension"
    PROVE  IsRight(h, r)
<1> DEFINE f == "asset.extension"
           problems == ContentProblems(f, r)
           answer == Answer(h, r)
<1>1. answer = IF h = "claude-code" THEN Unsupported(f)
               ELSE IF problems # {} THEN Diagnosed(problems) ELSE File(h, f, r, <<>>)
      BY DEF Answer, ProjectExtension
<1>2. Feature(r) = f /\ ScopeOf(r) = r.scope /\ r.scope \in Scopes /\ r.id # NoId /\ Uses(r) = {f}
      BY DEF Feature, FeatureOfKind, ScopeOf, Uses, IsRequest
<1>3. f \in AssetFeatures \ ConfigFeatures /\ (f \in Lacks[h] <=> h = "claude-code")
      BY Tables DEF AssetFeatures, ConfigFeatures, Harnesses
<1>4. CASE h = "claude-code"
  <2>1. answer = Diagnosed(Problem("UNSUPPORTED_HOST_FEATURE", f)) /\ ScopesOf(h, f) = {}
        BY <1>1, <1>3, <1>4, DeclaredScopes DEF Unsupported
  <2>2. \A p \in Problem("UNSUPPORTED_HOST_FEATURE", f) : p.code = "UNSUPPORTED_HOST_FEATURE" /\ p.feature = f
        BY DEF Problem
  <2>. QED
       BY <1>2, <2>1, <2>2, Answers DEF IsRight, Keeps, DeclarationIsTrue
<1>5. CASE h # "claude-code" /\ problems = {}
  <2>1. r.id \notin UnsafeIds /\ r.body # "crlf"
        BY <1>5, ContentChecks
  <2> DEFINE v == [assetId |-> r.id, feature |-> f, target |-> AssetPath(h, f, r.scope, r.id),
                   entries |-> <<>>, body |-> r.body]
  <2>2. answer = Value(v)
        BY <1>1, <1>2, <1>3, <1>5, <2>1, FileIsValue
  <2>3. ValidValue(h, r, v) /\ TargetsAreApart(h, r, v)
        BY <1>2, <1>3, <2>1, FileIsRight DEF FileKinds
  <2>4. NothingIsDropped(r, v)
        BY DEF NothingIsDropped
  <2>5. Declares(h, r)
        BY <1>2, <1>3, <1>5, DeclaredScopes DEF Declares
  <2>. QED
       BY <2>2, <2>3, <2>4, <2>5, Answers DEF IsRight, Keeps, DeclarationIsTrue
<1>6. CASE h # "claude-code" /\ problems # {}
  <2>1. answer = Diagnosed(problems)
        BY <1>1, <1>6
  <2>. QED
       BY <1>2, <2>1, ContentChecks, Answers DEF IsRight, Keeps, DeclarationIsTrue
<1>. QED
     BY <1>4, <1>5, <1>6

LEMMA AgentIsRight ==
    ASSUME NEW h \in Harnesses, NEW r, IsRequest(r), r.kind = "agent"
    PROVE  IsRight(h, r)
<1> DEFINE f == "asset.agent"
           given == Given(r, {"description"} \cup DOMAIN AgentFeature)
           used == Given(r, DOMAIN AgentFeature)
           sound == /\ r.description # "blank" /\ r.modelHint # "blank" /\ r.steps # "zero"
                    /\ "permissions" \in AgentKeys(h) => r.permissions # "blank"
           wrong == {key \in given : key \notin AgentKeys(h) \/ r[key] = "other"}
           problems ==
               ContentProblems(f, r) \cup Check(sound, "INVALID_CONTENT", f)
               \cup UNION {Problem("UNREPRESENTABLE_METADATA", AgentFeature[key]) : key \in wrong}
           entries == [key \in Given(r, AgentKeys(h)) |-> r[key]]
           plays == IF r.mode = "primary" THEN "agent.primary" ELSE "agent.subagent"
           answer == Answer(h, r)
<1>1. answer = IF h = "pi" THEN Unsupported(f)
               ELSE IF problems # {} THEN Diagnosed(problems) ELSE File(h, f, r, entries)
      BY DEF Answer, ProjectAgent
<1>2. /\ Feature(r) = f /\ ScopeOf(r) = r.scope /\ r.scope \in Scopes /\ r.id # NoId
      /\ Uses(r) = {f} \cup {AgentFeature[key] : key \in used} \cup {plays}
  <2>1. Feature(r) = f /\ ScopeOf(r) = r.scope /\ r.scope \in Scopes /\ r.id # NoId
        BY DEF Feature, FeatureOfKind, ScopeOf, IsRequest
  <2>. QED
       BY <2>1 DEF Uses
<1>3. f \in AssetFeatures \ ConfigFeatures /\ (f \in Lacks[h] <=> h = "pi")
      BY Tables DEF AssetFeatures, ConfigFeatures, Harnesses
<1>4. /\ given = used \cup Given(r, {"description"}) /\ used \subseteq {"modelHint", "thinkingHint", "steps", "permissions"}
      /\ "description" \in AgentKeys(h)
      BY Tables DEF Given, AgentKeys
<1>5. ASSUME h # "pi"
      PROVE  \A key \in used : /\ AgentFeature[key] \notin ConfigFeatures
                               /\ AgentFeature[key] \in Lacks[h] <=> key \notin AgentKeys(h)
  <2>1. \A key \in used : AgentFeature[key] \notin ConfigFeatures
        BY <1>4 DEF AgentFeature, ConfigFeatures
  <2>2. CASE h = "opencode"
        BY <1>4, <2>1, <2>2, Tables DEF AgentFeature, AgentKeys
  <2>3. CASE h = "claude-code"
        BY <1>4, <2>1, <2>3, Tables DEF AgentFeature, AgentKeys
  <2>. QED
       BY <1>5, <2>2, <2>3 DEF Harnesses
<1>6. \A key \in wrong : key \in used /\ (r[key] = "other" => r.thinkingHint = "other")
      BY <1>4 DEF IsRequest, Given
<1>7. CASE h = "pi"
  <2>1. answer = Diagnosed(Problem("UNSUPPORTED_HOST_FEATURE", f)) /\ ScopesOf(h, f) = {}
        BY <1>1, <1>3, <1>7, DeclaredScopes DEF Unsupported
  <2>2. \A p \in Problem("UNSUPPORTED_HOST_FEATURE", f) : p.code = "UNSUPPORTED_HOST_FEATURE" /\ p.feature = f
        BY DEF Problem
  <2>. QED
       BY <1>2, <2>1, <2>2, Answers DEF IsRight, Keeps, DeclarationIsTrue
<1>8. CASE h # "pi" /\ problems = {}
  <2>1. ContentProblems(f, r) = {} /\ \A key \in wrong : Problem("UNREPRESENTABLE_METADATA", AgentFeature[key]) = {}
        BY <1>8
  <2>2. \A key \in given : key \in AgentKeys(h)
        BY <2>1 DEF Problem
  <2>3. r.id \notin UnsafeIds /\ r.body # "crlf"
        BY <2>1, ContentChecks
  <2> DEFINE v == [assetId |-> r.id, feature |-> f, target |-> AssetPath(h, f, r.scope, r.id),
                   entries |-> entries, body |-> r.body]
  <2>4. answer = Value(v)
    <3>1. answer = File(h, f, r, entries)
          BY <1>1, <1>8
    <3>2. \A e : File(h, f, r, e) = Value([assetId |-> r.id, feature |-> f, target |-> AssetPath(h, f, r.scope, r.id),
                                           entries |-> e, body |-> r.body])
          BY <1>2, <1>3, <1>8, <2>3, FileIsValue
    <3>. QED
         BY <3>1, <3>2
  <2>5. ValidValue(h, r, v) /\ TargetsAreApart(h, r, v)
        BY <1>2, <1>3, <2>3, FileIsRight DEF FileKinds
  <2>6. NothingIsDropped(r, v)
    <3>1. \A key \in given : key \in Given(r, AgentKeys(h))
          BY <2>2 DEF Given
    <3>. QED
         BY <3>1 DEF NothingIsDropped
  <2>7. Declares(h, r)
    <3>1. \A key \in used : r.scope \in ScopesOf(h, AgentFeature[key])
          BY <1>2, <1>4, <1>5, <1>8, <2>2, DeclaredScopes
    <3>2. plays \notin Lacks[h] /\ plays \notin ConfigFeatures
          BY <1>8, Tables DEF Harnesses, ConfigFeatures
    <3>. QED
         BY <1>2, <1>3, <1>8, <3>1, <3>2, DeclaredScopes DEF Declares
  <2>. QED
       BY <2>4, <2>5, <2>6, <2>7, Answers DEF IsRight, Keeps, DeclarationIsTrue
<1>9. CASE h # "pi" /\ problems # {}
  <2>1. answer = Diagnosed(problems)
        BY <1>1, <1>9
  <2>2. ASSUME NEW p \in problems
        PROVE  /\ p.code # "INVALID_ADAPTER_RESULT" /\ p.feature \in Uses(r)
               /\ p.code \in Support3 => r.scope \notin ScopesOf(h, p.feature) \/ r.thinkingHint = "other"
    <3>1. CASE p \in ContentProblems(f, r)
          BY <1>2, <3>1, ContentChecks DEF Support3
    <3>2. CASE p \in Check(sound, "INVALID_CONTENT", f)
      <4> HIDE DEF sound
      <4>1. p.code = "INVALID_CONTENT" /\ p.feature = f
            BY <3>2 DEF Check, Problem
      <4>. QED
           BY <1>2, <4>1 DEF Support3
    <3>3. CASE \E key \in wrong : p \in Problem("UNREPRESENTABLE_METADATA", AgentFeature[key])
      <4>1. PICK key \in wrong : p \in Problem("UNREPRESENTABLE_METADATA", AgentFeature[key])
            BY <3>3
      <4>2. p.code = "UNREPRESENTABLE_METADATA" /\ p.feature = AgentFeature[key]
            BY <4>1 DEF Problem
      <4>. QED
           BY <1>2, <1>5, <1>6, <1>9, <4>2, DeclaredScopes
    <3>. QED
         BY <3>1, <3>2, <3>3
  <2> HIDE DEF problems
  <2>. QED
       BY <1>2, <2>1, <2>2, Answers DEF IsRight, Keeps, DeclarationIsTrue, Support3
<1>. QED
     BY <1>7, <1>8, <1>9

LEMMA TargetIsRight ==
    ASSUME NEW h \in Harnesses, NEW r, IsRequest(r), r.kind = "target"
    PROVE  IsRight(h, r)
<1> DEFINE f == r.feature
           answer == Answer(h, r)
<1>1. answer = Target(h, f, r.scope, r.id)
      BY DEF Answer
<1>2. /\ Feature(r) = f /\ ScopeOf(r) = r.scope /\ r.scope \in Scopes /\ Uses(r) = {f}
      /\ f \in AssetFeatures \cup ConfigFeatures
      BY DEF Feature, ScopeOf, Uses, IsRequest
<1>3. \A code, p : p \in Problem(code, f) => p.code = code /\ p.feature = f
      BY DEF Problem
<1>4. CASE f \in Lacks[h] \/ r.scope \notin ScopesOf(h, f)
  <2>1. r.scope \notin ScopesOf(h, f)
        BY <1>4, DeclaredScopes
  <2>2. \E code \in {"UNSUPPORTED_HOST_FEATURE", "UNSUPPORTED_SCOPE"} : answer = Diagnosed(Problem(code, f))
        BY <1>1, <1>4 DEF Target, Unsupported
  <2>. QED
       BY <1>2, <1>3, <2>1, <2>2, Answers DEF IsRight, Keeps, DeclarationIsTrue
<1>5. CASE f \notin Lacks[h] /\ r.scope \in ScopesOf(h, f)
  <2>1. Declares(h, r)
        BY <1>2, <1>5 DEF Declares
  <2>2. CASE f \in ConfigFeatures
    <3>1. answer = Value(Locator(h, r.scope))
          BY <1>1, <1>5, <2>2 DEF Target
    <3>2. h = "claude-code" => r.scope = "project"
          BY <1>5, <2>2, DeclaredScopes
    <3>3. ValidValue(h, r, Locator(h, r.scope))
          BY <1>2, <2>2, <3>2, ScopesMatch DEF ValidValue
    <3>. QED
         BY <2>1, <3>1, <3>3, Answers DEF IsRight, Keeps, DeclarationIsTrue, NothingIsDropped,
               TargetsAreApart
  <2>3. CASE f \notin ConfigFeatures /\ r.id \in UnsafeIds \cup {NoId}
    <3>1. answer = Diagnosed(Problem("INVALID_ASSET_ID", f))
          BY <1>1, <1>5, <2>3 DEF Target
    <3>. QED
         BY <1>2, <1>3, <3>1, Answers DEF IsRight, Keeps, DeclarationIsTrue
  <2>4. CASE f \notin ConfigFeatures /\ r.id \notin UnsafeIds \cup {NoId}
    <3>1. answer = Value(AssetPath(h, f, r.scope, r.id))
          BY <1>1, <1>5, <2>4 DEF Target
    <3>2. ValidValue(h, r, AssetPath(h, f, r.scope, r.id))
          BY <1>2, <2>4, ScopesMatch DEF ValidValue
    <3>. QED
         BY <2>1, <3>1, <3>2, Answers DEF IsRight, Keeps, DeclarationIsTrue, NothingIsDropped,
               TargetsAreApart
  <2>. QED
       BY <2>2, <2>3, <2>4
<1>. QED
     BY <1>4, <1>5

LEMMA PackagesAreDeclared ==
    ASSUME NEW h \in Harnesses
    PROVE  "config.package" \in ConfigFeatures /\ "config.package" \notin Lacks[h]
BY Tables DEF ConfigFeatures, Harnesses

LEMMA PackageIsRight ==
    ASSUME NEW h \in Harnesses, NEW r, IsRequest(r), r.kind = "package"
    PROVE  IsRight(h, r)
<1> DEFINE f == "config.package"
           v == [logicalId |-> r.logicalId, scope |-> r.scope, name |-> PackageName(h, r.logicalId),
                 version |-> r.version, activation |-> Activation(h)]
           answer == Answer(h, r)
<1>1. answer = IF h = "claude-code" /\ r.scope # "project" THEN Diagnosed(Problem("UNSUPPORTED_SCOPE", f))
               ELSE IF r.version # "exact" THEN Diagnosed(Problem("INVALID_PACKAGE_DECLARATION", f)) ELSE Value(v)
      BY DEF Answer, DeclarePackage
<1>2. ScopeOf(r) = r.scope /\ r.scope \in Scopes /\ Uses(r) = {f}
      BY DEF Feature, ScopeOf, Uses, IsRequest
<1>3. \A code, p : p \in Problem(code, f) => p.code = code /\ p.feature = f
      BY DEF Problem
<1>4. r.scope \in ScopesOf(h, f) <=> ~(h = "claude-code" /\ r.scope # "project")
      BY <1>2, PackagesAreDeclared, DeclaredScopes
<1>5. CASE h = "claude-code" /\ r.scope # "project"
  <2>1. answer = Diagnosed(Problem("UNSUPPORTED_SCOPE", f))
        BY <1>1, <1>5
  <2>. QED
       BY <1>2, <1>3, <1>4, <1>5, <2>1, Answers DEF IsRight, Keeps, DeclarationIsTrue
<1>6. CASE ~(h = "claude-code" /\ r.scope # "project") /\ r.version # "exact"
  <2>1. answer = Diagnosed(Problem("INVALID_PACKAGE_DECLARATION", f))
        BY <1>1, <1>6
  <2>. QED
       BY <1>2, <1>3, <2>1, Answers DEF IsRight, Keeps, DeclarationIsTrue
<1>7. CASE ~(h = "claude-code" /\ r.scope # "project") /\ r.version = "exact"
  <2>1. answer = Value(v)
        BY <1>1, <1>7
  <2>2. ValidValue(h, r, v)
        BY DEF ValidValue
  <2>3. Declares(h, r)
        BY <1>2, <1>4, <1>7 DEF Declares
  <2>. QED
       BY <2>1, <2>2, <2>3, Answers DEF IsRight, Keeps, DeclarationIsTrue, NothingIsDropped,
             TargetsAreApart
<1>. QED
     BY <1>5, <1>6, <1>7

LEMMA McpIsRight ==
    ASSUME NEW h \in Harnesses, NEW r, IsRequest(r), r.kind \in {"mcp.local", "mcp.remote"}
    PROVE  IsRight(h, r)
<1> DEFINE f == IF r.kind = "mcp.local" THEN "config.mcp.local" ELSE "config.mcp.remote"
           server == r.server
           entries == [key \in Given(server, McpKeys(h, r.kind)) |-> server[key]]
           pointer == IF h = "opencode" THEN "/mcp" ELSE "/mcpServers"
           v == [hostId |-> h, scope |-> r.scope, target |-> Locator(h, r.scope),
                 operation |-> [pointer |-> pointer, unit |-> server.name, entries |-> entries]]
           answer == Answer(h, r)
<1>1. answer = IF h = "pi" THEN Unsupported(f)
               ELSE IF h = "claude-code" /\ r.scope # "project" THEN Diagnosed(Problem("UNSUPPORTED_SCOPE", f))
               ELSE IF ~ValidMcp(h, r.kind, server) THEN Diagnosed(Problem("INVALID_MCP_DECLARATION", f))
               ELSE Value(v)
      BY DEF Answer, PlanMcp, HostPlan
<1>2. ScopeOf(r) = r.scope /\ r.scope \in Scopes /\ Uses(r) = {f}
      BY DEF Feature, FeatureOfKind, ScopeOf, Uses, IsRequest
<1>3. \A code, p : p \in Problem(code, f) => p.code = code /\ p.feature = f
      BY DEF Problem
<1>4. f \in ConfigFeatures /\ (f \in Lacks[h] <=> h = "pi")
      BY Tables DEF ConfigFeatures, Harnesses
<1>5. r.scope \in ScopesOf(h, f) <=> h # "pi" /\ ~(h = "claude-code" /\ r.scope # "project")
      BY <1>2, <1>4, DeclaredScopes
<1> HIDE DEF f, v
<1>6. CASE r.scope \notin ScopesOf(h, f)
  <2>1. \E code \in {"UNSUPPORTED_HOST_FEATURE", "UNSUPPORTED_SCOPE"} : answer = Diagnosed(Problem(code, f))
        BY <1>1, <1>5, <1>6 DEF Unsupported
  <2>. QED
       BY <1>2, <1>3, <1>6, <2>1, Answers DEF IsRight, Keeps, DeclarationIsTrue
<1>7. CASE r.scope \in ScopesOf(h, f) /\ ~ValidMcp(h, r.kind, server)
  <2>1. answer = Diagnosed(Problem("INVALID_MCP_DECLARATION", f))
        BY <1>1, <1>5, <1>7
  <2>. QED
       BY <1>2, <1>3, <2>1, Answers DEF IsRight, Keeps, DeclarationIsTrue
<1>8. CASE r.scope \in ScopesOf(h, f) /\ ValidMcp(h, r.kind, server)
  <2>1. answer = Value(v)
        BY <1>1, <1>5, <1>8
  <2>2. ValidLocator(Locator(h, r.scope), r.scope)
        BY <1>2, <1>5, <1>8, ScopesMatch
  <2>3. ValidValue(h, r, v)
        BY <1>2, <2>2 DEF ValidValue, ValidPlan, v
  <2>4. Declares(h, r)
        BY <1>2, <1>8 DEF Declares
  <2>5. NothingIsDropped(r, v)
    <3>1. \A key \in Given(server, DOMAIN server \ {"name"}) : key \in Given(server, McpKeys(h, r.kind))
          BY <1>8 DEF ValidMcp, Given
    <3>2. v.operation.entries = entries
          BY DEF v
    <3>. QED
         BY <3>1, <3>2 DEF NothingIsDropped
  <2>. QED
       BY <2>1, <2>3, <2>4, <2>5, Answers DEF IsRight, Keeps, DeclarationIsTrue, TargetsAreApart
<1>. QED
     BY <1>6, <1>7, <1>8

LEMMA ReloadIsRight ==
    ASSUME NEW h \in Harnesses, NEW r, r.kind = "reload"
    PROVE  IsRight(h, r)
<1> DEFINE notice(action) == [hostId |-> h, action |-> action, affected |-> r.changed]
<1>1. Answer(h, r).ok => \E action \in {"none", "command", "restart"} :
          Answer(h, r).value = notice(action) /\ (action = "none" <=> r.changed = {})
      BY Answers DEF Answer, ReloadNotice
<1>2. \A action \in {"none", "command", "restart"} :
          (action = "none" <=> r.changed = {}) => ValidValue(h, r, notice(action))
      BY DEF ValidValue, ValidNotice
<1>. QED
     BY <1>1, <1>2 DEF IsRight, Keeps, NothingIsDropped, TargetsAreApart

\* A package is configured by the host that declared it, and by no other.
LEMMA ConfigureIsRight ==
    ASSUME NEW h \in Harnesses, NEW host \in Harnesses, NEW declared, NEW id,
           declared.logicalId = id, declared.name = PackageName(host, id), declared.activation = Activation(host),
           declared.version = "exact", host = "claude-code" => declared.scope = "project", declared.scope \in Scopes
    PROVE  LET r == Configure(declared)
               answer == Guarded(h, r)
           IN  answer = PlanPackage(h, declared) /\ (answer.ok <=> h = host)
<1> DEFINE r == Configure(declared)
           answer == PlanPackage(h, declared)
<1>1. r.kind = "configure" /\ r.typed /\ r.package = declared /\ ScopeOf(r) = declared.scope
      BY DEF Configure, ScopeOf
<1>2. Activation(h) = Activation(host) <=> h = host
      BY DEF Activation, Harnesses
<1>3. CASE h # host
  <2>1. answer = Diagnosed(Problem("INVALID_PACKAGE_DECLARATION", "config.package"))
        BY <1>2, <1>3 DEF PlanPackage
  <2>. QED
       BY <1>1, <1>3, <2>1, Answers DEF Guarded, Answer
<1>4. CASE h = host
  <2>1. \E pointer, unit, entries : answer = HostPlan(h, declared.scope, pointer, unit, entries)
        BY <1>2, <1>4 DEF PlanPackage, Harnesses
  <2>2. ValidLocator(Locator(h, declared.scope), declared.scope)
        BY <1>4, ScopesMatch
  <2>3. answer.ok /\ ValidPlan(h, r, answer.value)
        BY <1>1, <2>1, <2>2, Answers DEF HostPlan, ValidPlan
  <2>. QED
       BY <1>1, <1>4, <2>3 DEF Guarded, Answer, ValidValue
<1>. QED
     BY <1>3, <1>4

LEMMA GuardIsQuiet ==
    ASSUME NEW h \in Harnesses, NEW r, IsRequest(r)
    PROVE  Keeps(h, r, Guarded(h, r)) /\ (r.typed => Guarded(h, r) = Answer(h, r) /\ IsRight(h, r))
<1>1. IsRight(h, r)
      BY PromptIsRight, SkillIsRight, ExtensionIsRight, AgentIsRight, TargetIsRight,
            PackageIsRight, McpIsRight,
         ReloadIsRight DEF IsRequest
<1>2. CASE r.typed
  <2>1. Guarded(h, r) = Answer(h, r)
        BY <1>1, <1>2 DEF Guarded, IsRight
  <2>. QED
       BY <1>1, <2>1 DEF IsRight
<1>3. CASE ~r.typed
  <2>1. ~Guarded(h, r).ok
        BY <1>3, Answers DEF Guarded
  <2>. QED
       BY <1>3, <2>1 DEF Keeps, DeclarationIsTrue
<1>. QED
     BY <1>2, <1>3

LEMMA DeclaredFacts ==
    ASSUME NEW h \in Harnesses, NEW r, IsRequest(r), r.kind = "package", Guarded(h, r).ok
    PROVE  LET declared == Guarded(h, r).value
           IN  /\ declared.logicalId = r.logicalId /\ declared.name = PackageName(h, r.logicalId)
               /\ declared.activation = Activation(h) /\ declared.version = "exact"
               /\ declared.scope = r.scope /\ declared.scope \in Scopes
               /\ h = "claude-code" => declared.scope = "project"
<1>1. r.typed
      BY Answers DEF Guarded
<1>2. Guarded(h, r) = DeclarePackage(h, r)
      BY <1>1, GuardIsQuiet DEF Answer
<1>3. /\ ~(h = "claude-code" /\ r.scope # "project") /\ r.version = "exact"
      /\ DeclarePackage(h, r)
             = Value([logicalId |-> r.logicalId, scope |-> r.scope, name |-> PackageName(h, r.logicalId),
                      version |-> r.version, activation |-> Activation(h)])
      BY <1>2, Answers DEF DeclarePackage
<1>4. r.scope \in Scopes
      BY DEF IsRequest
<1>. QED
     BY <1>2, <1>3, <1>4, Answers

IsDeclared(host, r) == IsRequest(r) /\ r.kind = "package" /\ Guarded(host, r).ok

AskedInv ==
    exchange # NoExchange =>
        /\ exchange.host \in Harnesses /\ exchange.answer = Guarded(exchange.host, exchange.request)
        /\ \/ IsRequest(exchange.request)
           \/ \E host \in Harnesses : \E r : IsDeclared(host, r) /\ exchange.request = Configure(Guarded(host, r).value)

LEMMA AskingKeeps ==
    ASSUME AskedInv, [ApplyNext]_allVars
    PROVE  AskedInv'
<1>1. CASE UNCHANGED exchange
      BY <1>1 DEF AskedInv
<1>2. ASSUME NEW h \in Harnesses, NEW r \in AdapterRequests, Ask(h, r) PROVE AskedInv'
  <2>1. exchange' = [host |-> h, request |-> r, answer |-> Guarded(h, r)] /\ IsRequest(r)
        BY <1>2, AsksAssumption DEF Ask
  <2>. QED
       BY <2>1 DEF AskedInv
<1>3. ASSUME NEW h \in Harnesses, PlanDeclared(h) PROVE AskedInv'
  <2> DEFINE r == exchange.request
             host == exchange.host
             asked == Configure(Guarded(host, r).value)
  <2>1. /\ exchange # NoExchange /\ r.kind = "package" /\ exchange.answer.ok
        /\ exchange' = [host |-> h, request |-> Configure(exchange.answer.value),
                        answer |-> Guarded(h, Configure(exchange.answer.value))]
        BY <1>3 DEF PlanDeclared
  <2>2. \A d : Configure(d).kind = "configure"
        BY DEF Configure
  <2>3. host \in Harnesses /\ exchange.answer = Guarded(host, r) /\ IsDeclared(host, r)
        BY <2>1, <2>2 DEF AskedInv, IsDeclared
  <2>4. exchange' = [host |-> h, request |-> asked, answer |-> Guarded(h, asked)]
        BY <2>1, <2>3
  <2> HIDE DEF r, host
  <2>5. exchange'.host = h /\ exchange'.request = asked /\ exchange'.answer = Guarded(h, asked)
        BY <2>4
  <2>. QED
       BY <2>3, <2>5 DEF AskedInv
<1>. QED
     BY <1>1, <1>2, <1>3 DEF ApplyNext, AskAdapters, allVars

LEMMA AskedIsKept == AskedInv => AdaptersKeepTheContract
<1> SUFFICES ASSUME AskedInv, exchange # NoExchange
             PROVE  LET h == exchange.host
                        r == exchange.request
                        answer == exchange.answer
                    IN  /\ r.kind \notin {"configure", "reload"} => DeclarationIsTrue(h, r, answer)
                        /\ answer.ok => NothingIsDropped(r, answer.value) /\ TargetsAreApart(h, r, answer.value)
                        /\ PackagesAreTheHosts(h, r, answer)
    BY DEF AdaptersKeepTheContract
<1> DEFINE h == exchange.host
           r == exchange.request
           answer == exchange.answer
<1>1. h \in Harnesses /\ answer = Guarded(h, r)
      BY DEF AskedInv
<1>2. CASE IsRequest(r)
      BY <1>1, <1>2, GuardIsQuiet DEF Keeps, PackagesAreTheHosts, IsRequest
<1>3. CASE \E host \in Harnesses : \E q : IsDeclared(host, q) /\ r = Configure(Guarded(host, q).value)
  <2>0. PICK host \in Harnesses : \E q : IsDeclared(host, q) /\ r = Configure(Guarded(host, q).value)
        BY <1>3
  <2>1. PICK q : IsDeclared(host, q) /\ r = Configure(Guarded(host, q).value)
        BY <2>0
  <2> DEFINE declared == Guarded(host, q).value
  <2>2. answer.ok <=> h = host
        BY <1>1, <2>1, DeclaredFacts, ConfigureIsRight DEF IsDeclared
  <2>3. r.kind = "configure" /\ r.package.activation = Activation(host)
        BY <2>1, DeclaredFacts DEF Configure, IsDeclared
  <2>4. Activation(h) = Activation(host) <=> h = host
        BY <1>1 DEF Activation, Harnesses
  <2>. QED
       BY <2>2, <2>3, <2>4 DEF PackagesAreTheHosts, NothingIsDropped, TargetsAreApart
<1>. QED
     BY <1>2, <1>3 DEF AskedInv

\* Whatever a consumer asks of whichever adapter: the answer is one that the
\* declaration of the host allows, a refusal names what is not declared, no field
\* is dropped, no two assets of an id share a file, and only the host that
\* declared a package configures it (adapter.ts and the guard around it).
THEOREM AdaptersKeepTheirContract == ApplySpec => []AdaptersKeepTheContract
<1>1. ApplyInit => AskedInv
      BY DEF ApplyInit, CompilerInit, AdapterInit, AskedInv
<1>2. AskedInv /\ [ApplyNext]_allVars => AskedInv'
      BY AskingKeeps
<1>. QED
     BY <1>1, <1>2, AskedIsKept, PTL DEF ApplySpec

-------------------------------------------------------------------------------
\* The assets of a compiled lifecycle.

LEMMA OkIsAnswer ==
    ASSUME NEW h, NEW r, Guarded(h, r).ok
    PROVE  Guarded(h, r) = Answer(h, r) /\ Answer(h, r).ok
BY Answers DEF Guarded

LEMMA FileOfAnswer ==
    ASSUME NEW h \in Harnesses, NEW f \in AssetFeatures, NEW r, NEW entries, File(h, f, r, entries).ok
    PROVE  /\ f \notin Lacks[h] /\ r.scope \in Scopes
           /\ File(h, f, r, entries).value
                  = [assetId |-> r.id, feature |-> f, target |-> AssetPath(h, f, r.scope, r.id),
                     entries |-> entries, body |-> r.body]
<1> DEFINE place == Target(h, f, r.scope, r.id)
<1>1. place.ok
      BY Answers DEF File
<1>2. f \notin ConfigFeatures
      BY DEF AssetFeatures, ConfigFeatures
<1>3. f \notin Lacks[h] /\ r.scope \in ScopesOf(h, f) /\ place = Value(AssetPath(h, f, r.scope, r.id))
      BY <1>1, <1>2, Answers DEF Target, Unsupported
<1>4. r.scope \in Scopes
      BY <1>2, <1>3, DeclaredScopes
<1>. QED
     BY <1>1, <1>3, <1>4, Answers DEF File

IsAsset(v, h, f, r) ==
    /\ f \in AssetFeatures /\ f \notin Lacks[h] /\ r.scope \in Scopes
    /\ v.feature = f /\ v.assetId = r.id /\ v.target = AssetPath(h, f, r.scope, r.id)

LEMMA FileIsAsset ==
    ASSUME NEW h \in Harnesses, NEW f \in AssetFeatures, NEW r, NEW entries, NEW answer,
           answer = File(h, f, r, entries), answer.ok
    PROVE  IsAsset(answer.value, h, f, r) /\ answer.value.entries = entries
<1>1. /\ f \notin Lacks[h] /\ r.scope \in Scopes
      /\ answer.value = [assetId |-> r.id, feature |-> f, target |-> AssetPath(h, f, r.scope, r.id),
                         entries |-> entries, body |-> r.body]
      BY FileOfAnswer
<1>. QED
     BY <1>1 DEF IsAsset

LEMMA AssetOfRequest ==
    ASSUME NEW h \in Harnesses, NEW r, Guarded(h, r).ok
    PROVE  /\ r.kind = "prompt" => IsAsset(Guarded(h, r).value, h, "asset.prompt", r)
           /\ r.kind = "skill" => IsAsset(Guarded(h, r).value, h, "asset.skill", r)
           /\ r.kind = "agent" => /\ IsAsset(Guarded(h, r).value, h, "asset.agent", r)
                                  /\ Guarded(h, r).value.entries = [key \in Given(r, AgentKeys(h)) |-> r[key]]
<1> DEFINE answer == Guarded(h, r)
<1>1. answer = Answer(h, r) /\ Answer(h, r).ok
      BY OkIsAnswer
<1>2. {"asset.prompt", "asset.skill", "asset.agent"} \subseteq AssetFeatures
      BY DEF AssetFeatures
<1>3. ASSUME r.kind = "prompt" PROVE IsAsset(answer.value, h, "asset.prompt", r)
  <2>1. answer = ProjectPrompt(h, r)
        BY <1>1, <1>3 DEF Answer
  <2>2. answer = File(h, "asset.prompt", r, PromptEntries(h, r))
        BY <1>1, <2>1, Answers DEF ProjectPrompt
  <2>. QED
       BY <1>1, <1>2, <2>2, FileIsAsset
<1>4. ASSUME r.kind = "skill" PROVE IsAsset(answer.value, h, "asset.skill", r)
  <2>1. answer = ProjectSkill(h, r)
        BY <1>1, <1>4 DEF Answer
  <2>2. \E e : answer = File(h, "asset.skill", r, e)
        BY <1>1, <2>1, Answers DEF ProjectSkill
  <2>. QED
       BY <1>1, <1>2, <2>2, FileIsAsset
<1>5. ASSUME r.kind = "agent"
      PROVE  /\ IsAsset(answer.value, h, "asset.agent", r)
             /\ answer.value.entries = [key \in Given(r, AgentKeys(h)) |-> r[key]]
  <2> DEFINE entries == [key \in Given(r, AgentKeys(h)) |-> r[key]]
  <2>1. answer = ProjectAgent(h, r)
        BY <1>1, <1>5 DEF Answer
  <2>2. answer = File(h, "asset.agent", r, entries)
        BY <1>1, <2>1, Answers DEF ProjectAgent, Unsupported
  <2> HIDE DEF entries
  <2>3. IsAsset(answer.value, h, "asset.agent", r) /\ answer.value.entries = entries
        BY <1>1, <1>2, <2>2, FileIsAsset
  <2>. QED
       BY <2>3 DEF entries
<1>. QED
     BY <1>3, <1>4, <1>5

\* The requests that the compiler made were all answered.
LEMMA AllAnswered ==
    ASSUME CompiledInv, phase = "compiled"
    PROVE  LET s == settings
           IN  /\ s.harness \in Harnesses /\ s.enabled \subseteq LogicalIds /\ s.scope \in Scopes
               /\ \A x \in output.files :
                     \/ \E c \in Commands : IsAsset(x, s.harness, "asset.prompt", PromptFor(s, c))
                     \/ IsAsset(x, s.harness, "asset.skill", ProtocolFor(s))
                     \/ \E r \in Named(s) :
                           /\ x = Guarded(s.harness, AgentFor(s, r)).value /\ Guarded(s.harness, AgentFor(s, r)).ok
                           /\ IsAsset(x, s.harness, "asset.agent", AgentFor(s, r))
               /\ \A r \in Named(s) : /\ Guarded(s.harness, AgentFor(s, r)).ok
                                      /\ Guarded(s.harness, AgentFor(s, r)).value \in output.files
               /\ \A m \in s.enabled : PackageAnswer(s, m).ok
               /\ output.plans = {PackageAnswer(s, m).value : m \in s.enabled}
               /\ \A x, y \in output.files : x.target = y.target => x = y
<1> DEFINE s == settings
           h == s.harness
<1>1. h \in Harnesses /\ Projectable(s) /\ output.files = {x.value : x \in FileAnswers(s)}
      /\ output.plans = {x.value : x \in PackageAnswers(s)}
      BY DEF CompiledInv, IsCompiled
<1>2. /\ s.enabled \subseteq LogicalIds
      /\ \A answer \in FileAnswers(s) : answer.ok
      /\ \A m \in s.enabled : PackageAnswer(s, m).ok
      /\ \A x, y \in {z.value : z \in FileAnswers(s)} : x.target = y.target => x = y
      BY <1>1 DEF Projectable, PackageAnswers, DistinctTargets
<1>3. output.plans = {PackageAnswer(s, m).value : m \in s.enabled}
      BY <1>1 DEF PackageAnswers
<1>4. /\ \A c \in Commands : Guarded(h, PromptFor(s, c)) \in FileAnswers(s)
      /\ \A r \in Named(s) : Guarded(h, AgentFor(s, r)) \in FileAnswers(s)
      /\ Guarded(h, ProtocolFor(s)) \in FileAnswers(s)
      BY DEF FileAnswers
<1>5. /\ \A c : PromptFor(s, c).kind = "prompt"
      /\ \A r : AgentFor(s, r).kind = "agent"
      /\ ProtocolFor(s).kind = "skill" /\ ProtocolFor(s).scope = s.scope
      BY DEF PromptFor, AgentFor, ProtocolFor
<1>6. s.scope \in Scopes
  <2>1. IsAsset(Guarded(h, ProtocolFor(s)).value, h, "asset.skill", ProtocolFor(s))
        BY <1>1, <1>2, <1>4, <1>5, AssetOfRequest
  <2>. QED
       BY <1>5, <2>1 DEF IsAsset
<1>7. ASSUME NEW x \in output.files
      PROVE  \/ \E c \in Commands : IsAsset(x, h, "asset.prompt", PromptFor(s, c))
             \/ IsAsset(x, h, "asset.skill", ProtocolFor(s))
             \/ \E r \in Named(s) :
                   /\ x = Guarded(h, AgentFor(s, r)).value /\ Guarded(h, AgentFor(s, r)).ok
                   /\ IsAsset(x, h, "asset.agent", AgentFor(s, r))
  <2>1. PICK answer \in FileAnswers(s) : x = answer.value /\ answer.ok
        BY <1>1, <1>2
  <2>2. PICK q \in {PromptFor(s, c) : c \in Commands} \cup {AgentFor(s, r) : r \in Named(s)} \cup {ProtocolFor(s)} :
               answer = Guarded(h, q)
        BY <2>1 DEF FileAnswers
  <2>3. CASE \E c \in Commands : q = PromptFor(s, c)
        BY <1>1, <1>5, <2>1, <2>2, <2>3, AssetOfRequest
  <2>4. CASE \E r \in Named(s) : q = AgentFor(s, r)
        BY <1>1, <1>5, <2>1, <2>2, <2>4, AssetOfRequest
  <2>5. CASE q = ProtocolFor(s)
        BY <1>1, <1>5, <2>1, <2>2, <2>5, AssetOfRequest
  <2>. QED
       BY <2>2, <2>3, <2>4, <2>5
<1>8. \A r \in Named(s) : Guarded(h, AgentFor(s, r)).ok /\ Guarded(h, AgentFor(s, r)).value \in output.files
      BY <1>1, <1>2, <1>4
<1>9. \A x, y \in output.files : x.target = y.target => x = y
      BY <1>1, <1>2
<1>. QED
     BY <1>1, <1>2, <1>3, <1>6, <1>7, <1>8, <1>9

\* The entry of a module is in the host's configuration, under a name of its own.
UnitName(h, m) == IF h = "claude-code" THEN ServerName(m) ELSE PackageName(h, m)

LEMMA PlanOfModule ==
    ASSUME NEW s, s.harness \in Harnesses, s.scope \in Scopes, NEW m, PackageAnswer(s, m).ok
    PROVE  LET made == PackageAnswer(s, m).value
           IN  made.target = Locator(s.harness, s.scope) /\ made.operation.unit = UnitName(s.harness, m)
<1> DEFINE h == s.harness
           r == PackageFor(s, m)
           p == Guarded(h, r).value
           what == [name |-> p.name, version |-> p.version]
<1>1. r.kind = "package" /\ r.typed = TRUE /\ r.scope = s.scope /\ r.logicalId = m
      BY DEF PackageFor
<1>2. IsRequest(r)
      BY <1>1 DEF IsRequest
<1>3. Guarded(h, r).ok /\ PackageAnswer(s, m) = Guarded(h, Configure(p))
      BY DEF PackageAnswer
<1>4. /\ p.logicalId = m /\ p.name = PackageName(h, m) /\ p.activation = Activation(h) /\ p.version = "exact"
      /\ p.scope = s.scope /\ p.scope \in Scopes /\ (h = "claude-code" => p.scope = "project")
      BY <1>1, <1>2, <1>3, DeclaredFacts
<1>5. PackageAnswer(s, m) = PlanPackage(h, p)
  <2>1. \A declared :
           /\ declared.logicalId = m /\ declared.name = PackageName(h, m) /\ declared.activation = Activation(h)
           /\ declared.version = "exact" /\ declared.scope \in Scopes /\ (h = "claude-code" => declared.scope = "project")
           => Guarded(h, Configure(declared)) = PlanPackage(h, declared)
        BY ConfigureIsRight
  <2>. QED
       BY <1>3, <1>4, <2>1
<1> HIDE DEF p
<1>6. \E pointer : PlanPackage(h, p) = HostPlan(h, s.scope, pointer, UnitName(h, m), what)
  <2>1. CASE h = "opencode"
        BY <1>4, <2>1 DEF PlanPackage, UnitName
  <2>2. CASE h = "claude-code"
        BY <1>4, <2>2 DEF PlanPackage, UnitName
  <2>3. CASE h = "pi"
        BY <1>4, <2>3 DEF PlanPackage, UnitName
  <2>. QED
       BY <2>1, <2>2, <2>3 DEF Harnesses
<1>7. \A pointer : LET v == HostPlan(h, s.scope, pointer, UnitName(h, m), what).value
                   IN  v.target = Locator(h, s.scope) /\ v.operation.unit = UnitName(h, m)
      BY Answers DEF HostPlan
<1>. QED
     BY <1>5, <1>6, <1>7

LEMMA FourAreFinite ==
    ASSUME NEW a, NEW b, NEW c, NEW d
    PROVE  IsFiniteSet({a, b, c, d})
<1>1. IsFiniteSet({a}) /\ IsFiniteSet({a} \cup {b}) /\ IsFiniteSet(({a} \cup {b}) \cup {c})
      BY FS_Singleton, FS_AddElement
<1>2. IsFiniteSet((({a} \cup {b}) \cup {c}) \cup {d})
      BY <1>1, FS_AddElement
<1>3. {a, b, c, d} = (({a} \cup {b}) \cup {c}) \cup {d}
      OBVIOUS
<1>. QED
     BY <1>2, <1>3

LEMMA UnitsAreCounted ==
    ASSUME CompiledInv, phase = "compiled"
    PROVE  Cardinality({Unit(p) : p \in output.plans}) = Cardinality(settings.enabled)
<1> DEFINE s == settings
           h == s.harness
           U == [m \in s.enabled |-> Unit(PackageAnswer(s, m).value)]
           T == {Unit(p) : p \in output.plans}
<1>1. /\ h \in Harnesses /\ s.scope \in Scopes /\ s.enabled \subseteq LogicalIds
      /\ \A m \in s.enabled : PackageAnswer(s, m).ok
      /\ output.plans = {PackageAnswer(s, m).value : m \in s.enabled}
      BY AllAnswered
<1>2. \A m \in s.enabled : U[m][3] = UnitName(h, m)
  <2>1. \A m \in s.enabled : PackageAnswer(s, m).value.operation.unit = UnitName(h, m)
        BY <1>1, PlanOfModule
  <2>2. \A made : Unit(made)[3] = made.operation.unit
        BY DEF Unit
  <2>. QED
       BY <2>1, <2>2
<1>3. \A m, n \in s.enabled : U[m] = U[n] => m = n
  <2>1. \A m, n : UnitName(h, m) = UnitName(h, n) => m = n
        BY DEF UnitName, ServerName, PackageName
  <2>. QED
       BY <1>2, <2>1
<1>4. U \in [s.enabled -> T] /\ \A t \in T : \E m \in s.enabled : U[m] = t
      BY <1>1
<1>5. IsFiniteSet(s.enabled)
  <2>1. IsFiniteSet(LogicalIds)
        BY FourAreFinite DEF LogicalIds
  <2>. QED
       BY <1>1, <2>1, FS_Subset
<1> HIDE DEF U, T
<1>6. U \in Bijection(s.enabled, T)
      BY <1>3, <1>4, Fun_IsBij
<1>7. Cardinality(T) = Cardinality(s.enabled)
      BY <1>5, <1>6, FS_Bijection DEF ExistsBijection
<1>. QED
     BY <1>7 DEF T

\* An agent's file makes the hint that its fragment calls a request.
LEMMA HintsAreMade ==
    ASSUME CompiledInv, phase = "compiled", NEW r \in DOMAIN output.hints,
           NEW f, NEW key, <<f, key>> \in {<<"agent.model", "modelHint">>, <<"agent.thinking", "thinkingHint">>}
    PROVE  output.hints[r][f]
               <=> \E x \in output.files : x.feature = "asset.agent" /\ x.assetId = AgentId(settings.roles[r])
                                           /\ key \in DOMAIN x.entries
<1> DEFINE s == settings
           h == s.harness
           Made(x) == x.feature = "asset.agent" /\ x.assetId = AgentId(s.roles[r]) /\ key \in DOMAIN x.entries
<1>1. /\ h \in Harnesses
      /\ \A x \in output.files :
            \/ \E c \in Commands : IsAsset(x, h, "asset.prompt", PromptFor(s, c))
            \/ IsAsset(x, h, "asset.skill", ProtocolFor(s))
            \/ \E q \in Named(s) :
                  /\ x = Guarded(h, AgentFor(s, q)).value /\ Guarded(h, AgentFor(s, q)).ok
                  /\ IsAsset(x, h, "asset.agent", AgentFor(s, q))
      /\ \A q \in Named(s) : /\ Guarded(h, AgentFor(s, q)).ok
                             /\ Guarded(h, AgentFor(s, q)).value \in output.files
      BY AllAnswered
<1>2. r \in Roles /\ s.hinted /\ s.roles[r] # NoRole /\ output.hints[r] = Advice(s, r)
      BY DEF CompiledInv, IsCompiled
<1>3. output.hints[r][f] <=> s.roles[r] # "current" /\ s.scope \in ScopesOf(h, f)
      BY <1>2 DEF Advice
<1>4. \A q : AgentFor(s, q).kind = "agent" /\ AgentFor(s, q).id = AgentId(s.roles[q]) /\ AgentFor(s, q)[key] = Hint(s, q, f)
      BY DEF AgentFor
<1>5. \A q \in Named(s) : LET x == Guarded(h, AgentFor(s, q)).value
                          IN  /\ IsAsset(x, h, "asset.agent", AgentFor(s, q))
                              /\ key \in DOMAIN x.entries
                                     <=> key \in AgentKeys(h) /\ s.scope \in ScopesOf(h, f)
  <2>1. SUFFICES ASSUME NEW q \in Named(s)
                 PROVE  LET x == Guarded(h, AgentFor(s, q)).value
                        IN  /\ IsAsset(x, h, "asset.agent", AgentFor(s, q))
                            /\ key \in DOMAIN x.entries <=> key \in AgentKeys(h) /\ s.scope \in ScopesOf(h, f)
        OBVIOUS
  <2> DEFINE a == AgentFor(s, q)
             x == Guarded(h, a).value
  <2>2. IsAsset(x, h, "asset.agent", a) /\ x.entries = [j \in Given(a, AgentKeys(h)) |-> a[j]]
        BY <1>1, <1>4, AssetOfRequest
  <2>3. key \in Given(a, AgentKeys(h)) <=> key \in AgentKeys(h) /\ s.scope \in ScopesOf(h, f)
        BY <1>2, <1>4 DEF Given, Hint
  <2>. QED
       BY <2>2, <2>3
<1>6. s.scope \in ScopesOf(h, f) /\ Named(s) # {} => key \in AgentKeys(h)
  <2>1. ASSUME NEW q \in Named(s) PROVE h # "pi"
    <3>1. "asset.agent" \notin Lacks[h]
          BY <1>5, <2>1 DEF IsAsset
    <3>. QED
         BY <3>1, Tables
  <2>2. h = "opencode" /\ f = "agent.thinking" => ScopesOf(h, f) = {}
        BY <1>1, DeclaredScopes, Tables
  <2>. QED
       BY <1>1, <2>1, <2>2 DEF AgentKeys, Harnesses
<1>7. ASSUME s.roles[r] # "current", s.scope \in ScopesOf(h, f) PROVE \E x \in output.files : Made(x)
  <2>1. r \in Named(s)
        BY <1>2, <1>7 DEF Named
  <2> DEFINE x == Guarded(h, AgentFor(s, r)).value
  <2>2. x \in output.files /\ IsAsset(x, h, "asset.agent", AgentFor(s, r)) /\ key \in DOMAIN x.entries
        BY <1>1, <1>5, <1>6, <1>7, <2>1
  <2>3. Made(x)
        BY <1>4, <2>2 DEF IsAsset
  <2> HIDE DEF x
  <2>. QED
       BY <2>2, <2>3
<1>8. ASSUME NEW x \in output.files, Made(x) PROVE s.roles[r] # "current" /\ s.scope \in ScopesOf(h, f)
  <2>1. PICK q \in Named(s) : x = Guarded(h, AgentFor(s, q)).value /\ IsAsset(x, h, "asset.agent", AgentFor(s, q))
        BY <1>1, <1>8 DEF IsAsset
  <2>2. s.roles[q] = s.roles[r]
        BY <1>4, <1>8, <2>1 DEF IsAsset, AgentId
  <2>. QED
       BY <1>5, <1>8, <2>1, <2>2 DEF Named
<1>. QED
     BY <1>3, <1>7, <1>8

LEMMA CompiledIsPlaced ==
    ASSUME CompiledInv, phase = "compiled"
    PROVE  AssetsAreInPlace
<1> DEFINE s == settings
           h == s.harness
<1>1. /\ h \in Harnesses /\ s.scope \in Scopes
      /\ \A m \in s.enabled : PackageAnswer(s, m).ok
      /\ output.plans = {PackageAnswer(s, m).value : m \in s.enabled}
      /\ \A x, y \in output.files : x.target = y.target => x = y
      BY AllAnswered
<1>2. \A x \in output.files : \E f \in AssetFeatures : \E id : x.target = AssetPath(h, f, s.scope, id)
  <2>1. /\ \A c : PromptFor(s, c).scope = s.scope
        /\ \A r : AgentFor(s, r).scope = s.scope
        /\ ProtocolFor(s).scope = s.scope
        BY DEF PromptFor, AgentFor, ProtocolFor
  <2>2. ASSUME NEW x \in output.files
        PROVE  \E f \in AssetFeatures : \E q : q.scope = s.scope /\ IsAsset(x, h, f, q)
    <3>1. \/ \E c \in Commands : IsAsset(x, h, "asset.prompt", PromptFor(s, c))
          \/ IsAsset(x, h, "asset.skill", ProtocolFor(s))
          \/ \E r \in Named(s) : IsAsset(x, h, "asset.agent", AgentFor(s, r))
          BY AllAnswered
    <3>. QED
         BY <2>1, <3>1 DEF AssetFeatures
  <2>. QED
       BY <2>2 DEF IsAsset
<1>3. \A x \in output.files : MatchesScope(x.target, s.scope)
      BY <1>1, <1>2, ScopesMatch
<1>4. \A x \in output.files, p \in output.plans : x.target \notin {p.target[n] : n \in DOMAIN p.target}
  <2>1. \A p \in output.plans : p.target = Locator(h, s.scope)
        BY <1>1, PlanOfModule
  <2>2. ASSUME NEW x \in output.files, NEW n \in DOMAIN Locator(h, s.scope)
        PROVE  Locator(h, s.scope)[n] # x.target
        BY <1>1, <1>2, PathsDiffer
  <2>. QED
       BY <2>1, <2>2
<1>5. Cardinality({Unit(p) : p \in output.plans}) = Cardinality(s.enabled)
      BY UnitsAreCounted
<1>6. ASSUME NEW r \in DOMAIN output.hints,
             NEW f, NEW key, <<f, key>> \in {<<"agent.model", "modelHint">>, <<"agent.thinking", "thinkingHint">>}
      PROVE  output.hints[r][f]
                 <=> \E x \in output.files : x.feature = "asset.agent" /\ x.assetId = AgentId(s.roles[r])
                                             /\ key \in DOMAIN x.entries
      BY <1>6, HintsAreMade
<1>. QED
     BY <1>1, <1>3, <1>4, <1>5, <1>6 DEF AssetsAreInPlace

\* The files of a compiled manifest are where its scope allows, each in a place
\* of its own and none in the host's configuration; that has one entry for each
\* enabled module; and a fragment calls a hint a request only if the agent's file
\* makes it (validateManifest, hintLines and the projections of the adapters).
THEOREM AssetsArePlaced == ApplySpec => [](phase = "compiled" => AssetsAreInPlace)
<1>1. CompiledInv => (phase = "compiled" => AssetsAreInPlace)
      BY CompiledIsPlaced
<1>2. ApplyInit => CompiledInv
      BY DEF ApplyInit, CompilerInit, CompiledInv
<1>3. CompiledInv /\ [ApplyNext]_allVars => CompiledInv'
      BY CompilingKeeps
<1>. QED
     BY <1>1, <1>2, <1>3, PTL DEF ApplySpec

-------------------------------------------------------------------------------
\* What the templates write, and what every accepted text has.

Parts == OutputPart \cup LoopPart
Texts(roles) == [of : InstructionSlots \cup ToSet(roles), whole : BOOLEAN]

LEMMA FlattenIsSequence ==
    ASSUME NEW S, NEW N \in Nat, NEW seqs \in [1 .. N -> Seq(S)]
    PROVE  FlattenSeq(seqs) \in Seq(S)
<1>1. seqs \in Seq(Seq(S))
      OBVIOUS
<1>. QED
     BY <1>1, FlattenHolds

LEMMA OpenedIsText ==
    ASSUME NEW template, template.parts \in Seq(Parts \cup BlockPart), NEW p \in Parts \cup BlockPart
    PROVE  Opened(p, template) \in Seq(Parts)
<1> DEFINE own == {n \in DOMAIN template.parts : template.parts[n].kind = "block" /\ template.parts[n].name = p.name}
           n == CHOOSE m \in own : TRUE
<1>1. \A q \in Parts \cup BlockPart : q.kind = "block" => q.body \in Seq(Parts)
      BY DEF Parts, OutputPart, LoopPart, BlockPart
<1>2. \A q \in Parts \cup BlockPart : q.kind # "block" => q \in Parts
      BY DEF BlockPart
<1>3. ASSUME own # {} PROVE template.parts[n].body \in Seq(Parts)
  <2>1. n \in own
        BY <1>3
  <2> HIDE DEF n
  <2>2. n \in DOMAIN template.parts /\ template.parts[n].kind = "block"
        BY <2>1
  <2>3. template.parts[n] \in Parts \cup BlockPart
        BY <2>2
  <2>. QED
       BY <1>1, <2>2, <2>3
<1>4. p \in Parts => <<p>> \in Seq(Parts)
      OBVIOUS
<1> HIDE DEF n
<1>. QED
     BY <1>1, <1>2, <1>3, <1>4 DEF Opened, n

LEMMA WrittenIsText ==
    ASSUME NEW template, NEW layout, template.parts \in Seq(Parts \cup BlockPart), layout.parts \in Seq(Parts \cup BlockPart)
    PROVE  Written(template, layout) \in Seq(Parts)
<1> DEFINE frame == IF template.parent = "layout" THEN layout.parts ELSE template.parts
           opened == [n \in DOMAIN frame |-> Opened(frame[n], template)]
<1>1. frame \in Seq(Parts \cup BlockPart)
      OBVIOUS
<1>2. Written(template, layout) = FlattenSeq(opened)
      BY DEF Written, Flat
<1> HIDE DEF frame
<1>3. Len(frame) \in Nat /\ DOMAIN frame = 1 .. Len(frame) /\ \A n \in 1 .. Len(frame) : frame[n] \in Parts \cup BlockPart
      BY <1>1
<1>4. opened \in [1 .. Len(frame) -> Seq(Parts)]
      BY <1>3, OpenedIsText
<1> HIDE DEF opened
<1>. QED
     BY <1>2, <1>3, <1>4, FlattenIsSequence

LEMMA EmittedIsText ==
    ASSUME NEW N \in Nat, NEW R, NEW roles \in [1 .. N -> R], NEW p \in OutputPart, NEW i,
           p.path = "role" /\ p.shown # "never" => i \in 1 .. N
    PROVE  Emits(p, roles, i) \in Seq(Texts(roles))
<1>1. \A j \in 1 .. N : roles[j] \in ToSet(roles)
      BY DEF ToSet
<1>2. p.path # "role" => p.path \in InstructionSlots
      BY DEF OutputPart
<1>3. p.direct \in BOOLEAN
      BY DEF OutputPart
<1>4. ASSUME p.shown # "never" PROVE FragmentText(p, roles, i) \in Texts(roles)
      BY <1>1, <1>2, <1>3, <1>4 DEF FragmentText, Texts
<1>5. \A x \in Texts(roles) : <<x>> \in Seq(Texts(roles))
      OBVIOUS
<1>6. <<>> \in Seq(Texts(roles))
      OBVIOUS
<1>. QED
     BY <1>4, <1>5, <1>6 DEF Emits

LEMMA RenderedIsText ==
    ASSUME NEW roles \in Seq(Roles), NEW parts \in Seq(Parts), ~RoleOutsideLoop(parts)
    PROVE  Rendered(parts, roles) \in Seq(Texts(roles))
<1> DEFINE looped(p, i) == FlattenSeq([n \in DOMAIN p.body |-> Emits(p.body[n], roles, i)])
           part(p) == IF p.kind = "loop" THEN FlattenSeq([i \in DOMAIN roles |-> looped(p, i)]) ELSE Emits(p, roles, 0)
           all == [n \in DOMAIN parts |-> part(parts[n])]
           T == Seq(Texts(roles))
           N == Len(roles)
<1>1. N \in Nat /\ DOMAIN roles = 1 .. N /\ roles \in [1 .. N -> Roles]
      OBVIOUS
<1>2. Rendered(parts, roles) = FlattenSeq(all)
      BY DEF Rendered, Flat
<1>3. ASSUME NEW p \in LoopPart PROVE FlattenSeq([i \in DOMAIN roles |-> looped(p, i)]) \in T
  <2>1. p.body \in Seq(OutputPart)
        BY DEF LoopPart
  <2>2. Len(p.body) \in Nat /\ DOMAIN p.body = 1 .. Len(p.body) /\ \A n \in 1 .. Len(p.body) : p.body[n] \in OutputPart
        BY <2>1
  <2>3. ASSUME NEW i \in 1 .. N PROVE looped(p, i) \in T
    <3> DEFINE emitted == [n \in DOMAIN p.body |-> Emits(p.body[n], roles, i)]
    <3>1. emitted \in [1 .. Len(p.body) -> T]
          BY <1>1, <2>2, EmittedIsText
    <3> HIDE DEF emitted
    <3>2. FlattenSeq(emitted) \in T
          BY <2>2, <3>1, FlattenIsSequence
    <3>. QED
         BY <3>2 DEF emitted
  <2> DEFINE rows == [i \in DOMAIN roles |-> looped(p, i)]
  <2> HIDE DEF looped
  <2>4. rows \in [1 .. N -> T]
        BY <1>1, <2>3
  <2> HIDE DEF rows, N
  <2>5. FlattenSeq(rows) \in T
        BY <1>1, <2>4, FlattenIsSequence
  <2>. QED
       BY <2>5 DEF rows
<1> HIDE DEF looped
<1>4. ASSUME NEW n \in DOMAIN parts PROVE part(parts[n]) \in T
  <2>1. parts[n] \in Parts
        OBVIOUS
  <2>2. CASE parts[n].kind = "loop"
    <3>1. parts[n] \in LoopPart
          BY <2>1, <2>2 DEF Parts, OutputPart
    <3>. QED
         BY <1>3, <2>2, <3>1
  <2>3. CASE parts[n].kind # "loop"
    <3>1. parts[n] \in OutputPart
          BY <2>1, <2>3 DEF Parts, LoopPart
    <3>2. ~(parts[n].path = "role" /\ parts[n].shown # "never")
          BY <3>1 DEF RoleOutsideLoop, OutputPart
    <3>3. Emits(parts[n], roles, 0) \in T
          BY <1>1, <3>1, <3>2, EmittedIsText
    <3>. QED
         BY <2>3, <3>3
  <2>. QED
       BY <2>2, <2>3
<1> HIDE DEF part
<1>5. Len(parts) \in Nat /\ DOMAIN parts = 1 .. Len(parts)
      OBVIOUS
<1>6. all \in [1 .. Len(parts) -> T]
      BY <1>4, <1>5
<1> HIDE DEF all
<1>7. FlattenSeq(all) \in T
      BY <1>5, <1>6, FlattenIsSequence
<1>. QED
     BY <1>2, <1>7

\* What is counted as often unchanged as at all is nowhere changed.
LEMMA TrackedIsWhole ==
    ASSUME NEW roles, NEW body \in Seq(Texts(roles)), Tracked(body, roles)
    PROVE  /\ \A n \in DOMAIN body : body[n].whole
           /\ \A r \in ToSet(roles) : Rendering(body, r) = 1
           /\ \A f \in InstructionSlots : Rendering(body, f) \in {0, 1}
<1> DEFINE of(f) == {n \in DOMAIN body : body[n].of = f}
           kept(f) == {n \in DOMAIN body : body[n].of = f /\ body[n].whole}
<1>1. \A f : IsFiniteSet(of(f)) /\ kept(f) \in SUBSET of(f)
  <2>1. IsFiniteSet(DOMAIN body)
    <3>1. DOMAIN body = 1 .. Len(body) /\ Len(body) \in Nat
          OBVIOUS
    <3>. QED
         BY <3>1, FS_Interval
  <2>. QED
       BY <2>1, FS_Subset
<1>2. \A f : Rendering(body, f) = Cardinality(of(f)) /\ Occurring(body, f) = Cardinality(kept(f))
      BY DEF Rendering, Occurring
<1>3. ASSUME NEW n \in DOMAIN body PROVE body[n].whole
  <2> DEFINE f == body[n].of
  <2>0. body[n] \in Texts(roles)
        OBVIOUS
  <2>1. f \in InstructionSlots \cup ToSet(roles)
        BY <2>0 DEF Texts
  <2>2. Cardinality(of(f)) = Cardinality(kept(f))
        BY <1>2, <2>1 DEF Tracked
  <2>3. kept(f) = of(f)
        BY <1>1, <2>2, FS_Subset
  <2>. QED
       BY <2>3
<1>4. ASSUME NEW f PROVE Rendering(body, f) \in Nat
  <2>1. IsFiniteSet(of(f)) /\ Rendering(body, f) = Cardinality(of(f))
        BY <1>1, <1>2
  <2> HIDE DEF of
  <2>. QED
       BY <2>1, FS_CardinalityType
<1>5. \A f \in InstructionSlots : Rendering(body, f) \in {0, 1}
      BY <1>4 DEF Tracked
<1>. QED
     BY <1>3, <1>5 DEF Tracked

\* The body of one command that was accepted, and the packs listed with it.
IsWhole(body, packs, roles) ==
    /\ \A n \in DOMAIN body : body[n].whole
    /\ \A r \in ToSet(roles) : Rendering(body, r) = 1
    /\ \A f \in InstructionSlots : Rendering(body, f) = Cardinality({p \in packs : p.slot = f})
    /\ \A f \in Boundary : Rendering(body, f) = 1

LEMMA CheckedIsWhole ==
    ASSUME NEW s, Selectable(s), NEW roles, NEW body \in Seq(Texts(roles)), CheckedCommand(body, roles)
    PROVE  IsWhole(body, {PackOf(s, slot) : slot \in {f \in InstructionSlots : Rendering(body, f) = 1}}, roles)
<1> DEFINE slots == {f \in InstructionSlots : Rendering(body, f) = 1}
           packs == {PackOf(s, slot) : slot \in slots}
<1>1. /\ \A n \in DOMAIN body : body[n].whole
      /\ \A r \in ToSet(roles) : Rendering(body, r) = 1
      /\ \A f \in InstructionSlots : Rendering(body, f) \in {0, 1}
      BY TrackedIsWhole DEF CheckedCommand
<1>2. Boundary \subseteq InstructionSlots /\ \A f \in Boundary : Rendering(body, f) > 0
      BY DEF CheckedCommand, StatesBoundary, Boundary, InstructionSlots
<1>3. \A f \in Boundary : Rendering(body, f) = 1
      BY <1>1, <1>2
<1>4. \A slot \in InstructionSlots : PackOf(s, slot).slot = slot
      BY PacksKnown
<1>5. ASSUME NEW f \in InstructionSlots
      PROVE  Rendering(body, f) = Cardinality({p \in packs : p.slot = f})
  <2>1. CASE Rendering(body, f) = 1
    <3>1. {p \in packs : p.slot = f} = {PackOf(s, f)}
          BY <1>4, <2>1
    <3>. QED
         BY <2>1, <3>1, FS_Singleton
  <2>2. CASE Rendering(body, f) = 0
    <3>1. {p \in packs : p.slot = f} = {}
          BY <1>4, <2>2
    <3>. QED
         BY <2>2, <3>1, FS_EmptySet
  <2>. QED
       BY <1>1, <2>1, <2>2
<1>. QED
     BY <1>1, <1>3, <1>5 DEF IsWhole

LEMMA FourTiers ==
    /\ DOMAIN Tiers = 1 .. 4 /\ Tiers[1] = "packaged" /\ Tiers[2] = "package" /\ Tiers[3] = "global" /\ Tiers[4] = "project"
    /\ ToSet(Tiers) = {"packaged", "package", "global", "project"}
<1>1. DOMAIN Tiers = 1 .. 4 /\ Tiers[1] = "packaged" /\ Tiers[2] = "package" /\ Tiers[3] = "global" /\ Tiers[4] = "project"
      BY DEF Tiers
<1>2. ToSet(Tiers) = {Tiers[n] : n \in 1 .. 4}
      BY <1>1 DEF ToSet
<1>3. {Tiers[n] : n \in 1 .. 4} = {Tiers[1], Tiers[2], Tiers[3], Tiers[4]}
      OBVIOUS
<1>. QED
     BY <1>1, <1>2, <1>3

\* Whatever is in a template directory, and was read from one, is made of templates.
TemplatesInv ==
    /\ DOMAIN templates = {"package", "global", "project"} /\ input \in Inputs
    /\ \A t \in DOMAIN templates : templates[t] # NoDirectory => AreTemplates(templates[t])
    /\ DOMAIN tiers = ToSet(Tiers) /\ \A t \in ToSet(Tiers) : AreTemplates(tiers[t])
    /\ AreTemplates(found)

LEMMA NothingIsTemplates == AreTemplates(NoFiles) /\ DOMAIN NoFiles = {} /\ \A t \in ToSet(Tiers) : NoTiers[t] = NoFiles
BY DEF AreTemplates, NoFiles, NoTiers

LEMMA TemplatesAtStart ==
    ASSUME ApplyInit
    PROVE  TemplatesInv
<1>1. input \in Inputs /\ templates = input.templates /\ tiers = NoTiers /\ found = NoFiles
      BY DEF ApplyInit, ConfigInit, CompilerInit
<1>2. /\ DOMAIN templates = {"package", "global", "project"}
      /\ \A t \in DOMAIN templates : templates[t] # NoDirectory => AreTemplates(templates[t])
      BY <1>1, DirectoriesAssumption
<1>3. DOMAIN tiers = ToSet(Tiers)
      BY <1>1 DEF NoTiers
<1>. QED
     BY <1>1, <1>2, <1>3, NothingIsTemplates DEF TemplatesInv

LEMMA TemplatesStay ==
    ASSUME TemplatesInv, [ApplyNext]_allVars
    PROVE  TemplatesInv'
<1>1. /\ DOMAIN templates = {"package", "global", "project"} /\ input \in Inputs
      /\ \A t \in DOMAIN templates : templates[t] # NoDirectory => AreTemplates(templates[t])
      /\ DOMAIN tiers = ToSet(Tiers) /\ \A t \in ToSet(Tiers) : AreTemplates(tiers[t])
      /\ AreTemplates(found)
      BY DEF TemplatesInv
<1>2. input' = input
      BY DEF ApplyNext, Invocations, ConfigNext, LoadDocument, Resolve, Derive, EditFile, CompileHarness, Invoke, Compile,
             AskAdapters, allVars, configVars
<1>3. CASE UNCHANGED compilerVars
      BY <1>1, <1>2, <1>3 DEF compilerVars, TemplatesInv
<1>4. CASE ForgetCompiler
  <2>1. tiers' = NoTiers /\ templates' = templates /\ found' = found /\ DOMAIN NoTiers = ToSet(Tiers)
        BY <1>4 DEF ForgetCompiler, NoTiers
  <2>. QED
       BY <1>1, <1>2, <2>1, NothingIsTemplates DEF TemplatesInv
<1>5. CASE \E s : StartCompiler(s)
  <2>1. /\ tiers' = [NoTiers EXCEPT !["packaged"] = Published,
                                    !["package"] = IF templates.package = NoDirectory THEN NoFiles ELSE templates.package]
        /\ found' = NoFiles /\ templates' = templates
        BY <1>5 DEF StartCompiler, OpenNext
  <2>2. DOMAIN tiers' = ToSet(Tiers)
        BY <2>1 DEF NoTiers
  <2>3. AreTemplates(Published)
        BY PublishedAssumption
  <2>4. templates["package"] # NoDirectory => AreTemplates(templates["package"])
        BY <1>1
  <2>5. \A t \in ToSet(Tiers) : AreTemplates(tiers'[t])
    <3>1. SUFFICES ASSUME NEW t \in ToSet(Tiers) PROVE AreTemplates(tiers'[t])
          OBVIOUS
    <3>2. tiers'[t] \in {Published, NoFiles} \/ (tiers'[t] = templates["package"] /\ templates["package"] # NoDirectory)
          BY <2>1, FourTiers, NothingIsTemplates DEF NoTiers
    <3>. QED
         BY <2>3, <2>4, <3>2, NothingIsTemplates
  <2>. QED
       BY <1>1, <1>2, <2>1, <2>2, <2>5, NothingIsTemplates DEF TemplatesInv
<1>6. CASE ReadTemplate
  <2>1. tiers' = tiers /\ templates' = templates /\ phase \in {"global", "project"}
        BY <1>6 DEF ReadTemplate
  <2>2. \/ found' = NoFiles
        \/ \E id : /\ templates[phase] # NoDirectory /\ id \in DOMAIN templates[phase]
                   /\ found' = [i \in DOMAIN found \cup {id} |-> IF i = id THEN templates[phase][id] ELSE found[i]]
        BY <1>6 DEF ReadTemplate
  <2>3. ASSUME NEW id, templates[phase] # NoDirectory, id \in DOMAIN templates[phase],
               found' = [i \in DOMAIN found \cup {id} |-> IF i = id THEN templates[phase][id] ELSE found[i]]
        PROVE  AreTemplates(found')
    <3>1. AreTemplates(templates[phase])
          BY <1>1, <2>1, <2>3
    <3>. QED
         BY <1>1, <2>3, <3>1 DEF AreTemplates
  <2>4. AreTemplates(found')
        BY <2>2, <2>3, NothingIsTemplates
  <2>. QED
       BY <1>1, <1>2, <2>1, <2>4 DEF TemplatesInv
<1>7. CASE CloseDirectory
  <2>1. tiers' = [tiers EXCEPT ![phase] = found] /\ templates' = templates /\ found' = NoFiles
        BY <1>7 DEF CloseDirectory, OpenNext
  <2>2. \A t \in ToSet(Tiers) : tiers'[t] \in {tiers[t], found}
        BY <1>1, <2>1
  <2>3. DOMAIN tiers' = ToSet(Tiers)
        BY <1>1, <2>1
  <2>. QED
       BY <1>1, <1>2, <2>1, <2>2, <2>3, NothingIsTemplates DEF TemplatesInv
<1>8. CASE CompileSdlc
      BY <1>1, <1>2, <1>8 DEF CompileSdlc, TemplatesInv
<1>9. CASE \E t \in {"global", "project"}, directory \in input.directories : EditTemplate(t, directory)
  <2>1. PICK t \in {"global", "project"}, directory \in input.directories : EditTemplate(t, directory)
        BY <1>9
  <2>2. templates' = [templates EXCEPT ![t] = directory] /\ tiers' = tiers /\ found' = found
        BY <2>1 DEF EditTemplate
  <2>3. directory # NoDirectory => AreTemplates(directory)
        BY <1>1, DirectoriesAssumption
  <2>4. DOMAIN templates' = DOMAIN templates /\ \A u \in DOMAIN templates : templates'[u] = IF u = t THEN directory ELSE templates[u]
        BY <2>2
  <2>. QED
       BY <1>1, <1>2, <2>2, <2>3, <2>4 DEF TemplatesInv
<1>. QED
     BY <1>3, <1>4, <1>5, <1>6, <1>7, <1>8, <1>9 DEF ApplyNext, Invocations, CompileHarness, CompilerNext, Invoke, Compile,
        AskAdapters, allVars, compilerVars

\* The template that is resolved for an id is one of those that were read.
LEMMA ResolvedIsRead ==
    ASSUME TemplatesInv, NEW id, Resolvable(id)
    PROVE  \E t \in ToSet(Tiers) : id \in DOMAIN tiers[t] /\ Resolved(id) = tiers[t][id]
<1> DEFINE n == CHOOSE m \in Holding(id) : \A j \in Holding(id) : j <= m
<1>1. Holding(id) # {} /\ Holding(id) \subseteq 1 .. 4
      BY FourTiers DEF Resolvable, Holding
<1>2. \E m \in Holding(id) : \A j \in Holding(id) : j <= m
  <2>1. 4 \in Holding(id) \/ (4 \notin Holding(id) /\ 3 \in Holding(id)) \/ (Holding(id) \subseteq {1, 2})
        BY <1>1
  <2>. QED
       BY <1>1, <2>1
<1>3. n \in Holding(id)
      BY <1>2
<1>4. Resolved(id) = tiers[Tiers[n]][id]
      BY DEF Resolved, Winner
<1> HIDE DEF n
<1>5. n \in DOMAIN Tiers /\ id \in DOMAIN tiers[Tiers[n]]
      BY <1>3 DEF Holding
<1>6. Tiers[n] \in ToSet(Tiers)
      BY <1>5 DEF ToSet
<1>. QED
     BY <1>4, <1>5, <1>6

LEMMA AcceptedBodies ==
    ASSUME TemplatesInv, AcceptedInput(settings)
    PROVE  \A c \in Commands : LET o == CompiledCommand(settings, c) IN IsWhole(o.body, o.packs, RoleSlots[c])
<1>1. SUFFICES ASSUME NEW c \in Commands
               PROVE  LET o == CompiledCommand(settings, c) IN IsWhole(o.body, o.packs, RoleSlots[c])
      OBVIOUS
<1> DEFINE template == Resolved(CommandId(c))
           layout == Resolved(Layout)
           body == BodyOf(c)
           roles == RoleSlots[c]
           o == CompiledCommand(settings, c)
<1>2. Selectable(settings) /\ TemplatesAreAccepted
      BY DEF AcceptedInput
<1>3. AcceptedTemplate(c) /\ Resolvable(CommandId(c)) /\ Resolvable(Layout)
      BY <1>2 DEF TemplatesAreAccepted
<1>4. /\ ~RoleOutsideLoop(Written(template, layout))
      /\ CheckedCommand(body, roles) /\ body = Rendered(Written(template, layout), roles)
      BY <1>3 DEF AcceptedTemplate, IsCommand, BodyOf
<1>5. CommandId(c)[1] # "append" /\ Layout[1] # "append"
      BY DEF CommandId, Layout
<1>6. \A id : Resolvable(id) /\ id[1] # "append" => Resolved(id).parts \in Seq(Parts \cup BlockPart)
      BY ResolvedIsRead DEF TemplatesInv, AreTemplates, Parts
<1>7. template.parts \in Seq(Parts \cup BlockPart) /\ layout.parts \in Seq(Parts \cup BlockPart)
      BY <1>3, <1>5, <1>6
<1> HIDE DEF template, layout
<1>8. Written(template, layout) \in Seq(Parts)
      BY <1>7, WrittenIsText
<1>9. roles \in Seq(Roles)
      BY RolesAssumption
<1>10. body \in Seq(Texts(roles))
      BY <1>4, <1>8, <1>9, RenderedIsText
<1>11. /\ o.body = body
       /\ o.packs = {PackOf(settings, slot) : slot \in {f \in InstructionSlots : Rendering(body, f) = 1}}
      BY DEF CompiledCommand
<1> HIDE DEF body, o, roles
<1>12. IsWhole(body, {PackOf(settings, slot) : slot \in {f \in InstructionSlots : Rendering(body, f) = 1}}, roles)
      BY <1>2, <1>4, <1>10, CheckedIsWhole
<1>13. IsWhole(o.body, o.packs, roles)
      BY <1>11, <1>12
<1>. QED
     BY <1>13 DEF o, roles

BodiesInv == TemplatesInv /\ (phase = "compiled" => BodiesAreWhole)

LEMMA BodiesStay ==
    ASSUME BodiesInv, [ApplyNext]_allVars
    PROVE  BodiesInv'
<1>1. TemplatesInv'
      BY TemplatesStay DEF BodiesInv
<1>2. CASE UNCHANGED <<phase, output>>
      BY <1>1, <1>2 DEF BodiesInv, BodiesAreWhole
<1>3. CASE phase' # "compiled"
      BY <1>1, <1>3 DEF BodiesInv
<1>4. CASE CompileSdlc /\ phase' = "compiled"
  <2>1. AcceptedInput(settings) /\ output' = Compiled(settings)
        BY <1>4 DEF CompileSdlc
  <2>2. \A c \in Commands : output'.commands[c] = CompiledCommand(settings, c)
        BY <2>1 DEF Compiled
  <2>3. \A c \in Commands : IsWhole(output'.commands[c].body, output'.commands[c].packs, RoleSlots[c])
        BY <2>1, <2>2, AcceptedBodies DEF BodiesInv
  <2>4. BodiesAreWhole'
        BY <2>3 DEF BodiesAreWhole, IsWhole
  <2>. QED
       BY <1>1, <2>4 DEF BodiesInv
<1>5. ASSUME OpenNext("package") \/ OpenNext(phase) PROVE phase' # "compiled"
      BY <1>5 DEF OpenNext, NextDirectory
<1>6. CASE CompilerNext
      BY <1>2, <1>3, <1>4, <1>5, <1>6 DEF CompilerNext, ReadTemplate, CloseDirectory, CompileSdlc
<1>7. CASE CompileHarness
      BY <1>2, <1>3, <1>5, <1>6, <1>7 DEF CompileHarness, StartCompiler, EditTemplate
<1>. QED
     BY <1>2, <1>3, <1>7 DEF ApplyNext, Invocations, Invoke, Compile, ForgetCompiler, AskAdapters, allVars, compilerVars

-------------------------------------------------------------------------------
\* Without overrides: every request that the compiler makes is answered, and
\* what is read is the package.

LEMMA FilesAreAnswered ==
    ASSUME NEW h \in Harnesses, NEW f \in AssetFeatures, f \notin Lacks[h], NEW r, r.scope \in Scopes,
           r.id \notin UnsafeIds, r.id # NoId
    PROVE  \A entries : File(h, f, r, entries).ok
<1>1. SUFFICES ASSUME NEW entries PROVE File(h, f, r, entries).ok
      OBVIOUS
<1> DEFINE v == [assetId |-> r.id, feature |-> f, target |-> AssetPath(h, f, r.scope, r.id),
                 entries |-> entries, body |-> r.body]
<1>2. File(h, f, r, entries) = Value(v)
      BY FileIsValue
<1> HIDE DEF v
<1>. QED
     BY <1>2, Answers

LEMMA PromptsAreAnswered ==
    ASSUME NEW s, IsSettings(s), NEW c \in Commands
    PROVE  Guarded(s.harness, PromptFor(s, c)).ok
<1> DEFINE h == s.harness
           r == PromptFor(s, c)
           Wrong(key) == IF key \notin PromptKeys(h) THEN Problem("UNREPRESENTABLE_METADATA", PromptFeature[key])
                         ELSE Check(r[key] # "blank", "INVALID_CONTENT", PromptFeature[key])
           given == Given(r, DOMAIN PromptFeature)
           problems == ContentProblems("asset.prompt", r) \cup UNION {Wrong(key) : key \in given}
<1>1. h \in Harnesses /\ s.scope \in Scopes
      BY DEF IsSettings
<1>2. /\ r.kind = "prompt" /\ r.typed = TRUE /\ r.scope = s.scope /\ r.id = CommandId(c) /\ r.body = "lf"
      /\ r.description = "text" /\ \A key \in {"argumentHint", "agent", "model", "subtask"} : r[key] = "unset"
      BY DEF PromptFor
<1>3. r.id \notin UnsafeIds /\ r.id # NoId
      BY <1>2, IdsOfFilesAssumption
<1> HIDE DEF r
<1>4. given = {"description"}
      BY <1>2, Tables DEF Given
<1>5. Wrong("description") = {}
      BY <1>2 DEF PromptKeys, Check
<1>6. ContentProblems("asset.prompt", r) = {}
      BY <1>2, <1>3 DEF ContentProblems, Check
<1> HIDE DEF Wrong, given
<1>7. problems = {}
      BY <1>4, <1>5, <1>6
<1>8. Answer(h, r) = IF problems # {} THEN Diagnosed(problems) ELSE File(h, "asset.prompt", r, PromptEntries(h, r))
      BY <1>2 DEF Answer, ProjectPrompt, Wrong, given
<1>9. "asset.prompt" \in AssetFeatures /\ "asset.prompt" \notin Lacks[h]
      BY <1>1, Tables DEF AssetFeatures, Harnesses
<1> HIDE DEF problems
<1>10. Answer(h, r).ok
  <2>1. Answer(h, r) = File(h, "asset.prompt", r, PromptEntries(h, r))
        BY <1>7, <1>8
  <2>2. \A entries : File(h, "asset.prompt", r, entries).ok
        BY <1>1, <1>2, <1>3, <1>9, FilesAreAnswered
  <2>. QED
       BY <2>1, <2>2
<1>11. IsRequest(r)
       BY <1>1, <1>2, <1>3 DEF IsRequest
<1>12. Guarded(h, r) = Answer(h, r)
       BY <1>1, <1>2, <1>11, GuardIsQuiet
<1>. QED
     BY <1>10, <1>12 DEF r

LEMMA ProtocolIsAnswered ==
    ASSUME NEW s, IsSettings(s)
    PROVE  Guarded(s.harness, ProtocolFor(s)).ok
<1> DEFINE h == s.harness
           r == ProtocolFor(s)
           f == "asset.skill"
           problems ==
               ContentProblems(f, r) \cup Check(r.id \notin LongIds, "INVALID_ASSET_ID", f)
               \cup Check(\A key \in SkillKeys : r[key] \notin {"blank", "long"}, "INVALID_CONTENT", f)
<1>1. h \in Harnesses /\ s.scope \in Scopes
      BY DEF IsSettings
<1>2. /\ r.kind = "skill" /\ r.typed = TRUE /\ r.scope = s.scope /\ r.id = Protocol /\ r.body = "lf"
      /\ \A key \in SkillKeys : r[key] \in {"text", "unset"}
      BY DEF ProtocolFor, SkillKeys
<1>3. r.id \notin UnsafeIds /\ r.id \notin LongIds /\ r.id # NoId
      BY <1>2, IdsOfFilesAssumption
<1> HIDE DEF r
<1>4. problems = {}
      BY <1>2, <1>3 DEF ContentProblems, Check
<1>5. f \in AssetFeatures /\ f \notin ConfigFeatures /\ f \notin Lacks[h]
      BY <1>1, Tables DEF AssetFeatures, ConfigFeatures, Harnesses
<1>6. Target(h, f, r.scope, r.id).ok
  <2>1. r.scope \in ScopesOf(h, f)
        BY <1>1, <1>2, <1>5, DeclaredScopes
  <2>. QED
       BY <1>3, <1>5, <2>1, Answers DEF Target
<1>7. Answer(h, r) = File(h, f, r, [key \in Given(r, SkillKeys) |-> r[key]])
      BY <1>2, <1>4, <1>6 DEF Answer, ProjectSkill
<1>8. Answer(h, r).ok
  <2>1. \A entries : File(h, f, r, entries).ok
        BY <1>1, <1>2, <1>3, <1>5, FilesAreAnswered
  <2>. QED
       BY <1>7, <2>1
<1>9. IsRequest(r)
      BY <1>1, <1>2, <1>3 DEF IsRequest
<1>10. Guarded(h, r) = Answer(h, r)
       BY <1>1, <1>2, <1>9, GuardIsQuiet
<1>. QED
     BY <1>8, <1>10 DEF r

LEMMA AgentsAreAnswered ==
    ASSUME NEW s, IsSettings(s), Problems(s) = {}, NEW role \in Named(s)
    PROVE  Guarded(s.harness, AgentFor(s, role)).ok /\ "asset.agent" \notin Lacks[s.harness]
<1> DEFINE h == s.harness
           r == AgentFor(s, role)
           f == "asset.agent"
           given == Given(r, {"description"} \cup DOMAIN AgentFeature)
           sound == /\ r.description # "blank" /\ r.modelHint # "blank" /\ r.steps # "zero"
                    /\ "permissions" \in AgentKeys(h) => r.permissions # "blank"
           wrong == {key \in given : key \notin AgentKeys(h) \/ r[key] = "other"}
           problems ==
               ContentProblems(f, r) \cup Check(sound, "INVALID_CONTENT", f)
               \cup UNION {Problem("UNREPRESENTABLE_METADATA", AgentFeature[key]) : key \in wrong}
<1>1. h \in Harnesses /\ s.scope \in Scopes /\ role \in Roles
      BY DEF IsSettings, Named
<1>2. NamesAgents(s)
  <2>1. RoleProblems(s) = {}
        BY DEF Problems
  <2>2. ~NamesAgents(s) => <<role, "unsupported">> \in RoleProblems(s)
        BY DEF RoleProblems
  <2>. QED
       BY <2>1, <2>2
<1>3. f \notin Lacks[h] /\ f \in AssetFeatures /\ h # "pi"
  <2>1. ScopesOf(h, f) # {}
        BY <1>2 DEF NamesAgents
  <2>2. f \notin Lacks[h]
        BY <1>1, <2>1, DeclaredScopes
  <2>. QED
       BY <2>2, Tables DEF AssetFeatures
<1>4. /\ r.kind = "agent" /\ r.typed = TRUE /\ r.scope = s.scope /\ r.id = AgentId(s.roles[role]) /\ r.body = "lf"
      /\ r.description = "text" /\ r.mode = "subagent" /\ r.permissions = "unset"
      /\ r.modelHint = Hint(s, role, "agent.model") /\ r.thinkingHint = Hint(s, role, "agent.thinking")
      /\ r.steps = IF s.scope \in ScopesOf(h, "agent.steps") THEN "text" ELSE "unset"
      BY DEF AgentFor
<1>5. r.id \notin UnsafeIds /\ r.id # NoId
      BY <1>1, <1>4 DEF IsSettings
<1> HIDE DEF r
<1>6. r.modelHint \in {"text", "unset"} /\ r.thinkingHint \in {"text", "unset"} /\ r.steps \in {"text", "unset"}
      BY <1>4 DEF Hint
<1>7. h = "opencode" => r.thinkingHint = "unset"
      BY <1>1, <1>4, DeclaredScopes, Tables DEF Hint
<1>8. wrong = {}
  <2>1. \A key \in given : key \in {"description", "modelHint", "thinkingHint", "steps", "permissions"} /\ r[key] # "unset"
        BY Tables DEF Given
  <2>2. \A key \in given : key \in AgentKeys(h)
        BY <1>1, <1>3, <1>4, <1>7, <2>1 DEF AgentKeys, Harnesses
  <2>3. \A key \in given : r[key] # "other"
        BY <1>4, <1>6, <2>1
  <2>. QED
       BY <2>2, <2>3
<1>9. sound /\ ContentProblems(f, r) = {}
      BY <1>4, <1>5, <1>6 DEF ContentProblems, Check
<1> HIDE DEF sound, wrong
<1>10. problems = {}
       BY <1>8, <1>9 DEF Check
<1>11. Answer(h, r) = IF h = "pi" THEN Unsupported(f)
                      ELSE IF problems # {} THEN Diagnosed(problems)
                      ELSE File(h, f, r, [key \in Given(r, AgentKeys(h)) |-> r[key]])
       BY <1>4 DEF Answer, ProjectAgent, sound, wrong
<1> HIDE DEF problems
<1>12. Answer(h, r).ok
  <2>1. \A entries : File(h, f, r, entries).ok
        BY <1>1, <1>3, <1>4, <1>5, FilesAreAnswered
  <2>2. Answer(h, r) = File(h, f, r, [key \in Given(r, AgentKeys(h)) |-> r[key]])
        BY <1>3, <1>10, <1>11
  <2>. QED
       BY <2>1, <2>2
<1>13. IsRequest(r)
       BY <1>1, <1>4, <1>5, <1>6 DEF IsRequest
<1>14. Guarded(h, r) = Answer(h, r)
       BY <1>1, <1>4, <1>13, GuardIsQuiet
<1>. QED
     BY <1>3, <1>12, <1>14 DEF r

LEMMA ModulesAreAnswered ==
    ASSUME NEW s, IsSettings(s), s.scope \in ScopesOf(s.harness, "config.package"), NEW m
    PROVE  PackageAnswer(s, m).ok
<1> DEFINE h == s.harness
           r == PackageFor(s, m)
           declared == Guarded(h, r).value
<1>1. h \in Harnesses /\ s.scope \in Scopes
      BY DEF IsSettings
<1>2. h = "claude-code" => s.scope = "project"
      BY <1>1, PackagesAreDeclared, DeclaredScopes
<1>3. r.kind = "package" /\ r.typed = TRUE /\ r.scope = s.scope /\ r.logicalId = m /\ r.version = "exact"
      BY DEF PackageFor
<1> HIDE DEF r
<1>4. IsRequest(r)
      BY <1>1, <1>3 DEF IsRequest
<1>5. Guarded(h, r) = DeclarePackage(h, r)
      BY <1>1, <1>3, <1>4, GuardIsQuiet DEF Answer
<1>6. Guarded(h, r).ok
      BY <1>2, <1>3, <1>5, Answers DEF DeclarePackage
<1>7. /\ declared.logicalId = m /\ declared.name = PackageName(h, m) /\ declared.activation = Activation(h)
      /\ declared.version = "exact" /\ declared.scope \in Scopes /\ (h = "claude-code" => declared.scope = "project")
      BY <1>1, <1>3, <1>4, <1>6, DeclaredFacts
<1> HIDE DEF declared
<1>8. Guarded(h, Configure(declared)).ok
  <2>1. \A d :
           /\ d.logicalId = m /\ d.name = PackageName(h, m) /\ d.activation = Activation(h)
           /\ d.version = "exact" /\ d.scope \in Scopes /\ (h = "claude-code" => d.scope = "project")
           => Guarded(h, Configure(d)).ok
        BY <1>1, ConfigureIsRight
  <2>. QED
       BY <1>7, <2>1
<1>. QED
     BY <1>6, <1>8 DEF PackageAnswer, r, declared

LEMMA ReloadIsAnswered ==
    ASSUME NEW s, IsSettings(s), Problems(s) = {}
    PROVE  Guarded(s.harness, [kind |-> "reload", typed |-> TRUE, changed |-> Changed(s)]).ok
<1> DEFINE h == s.harness
           r == [kind |-> "reload", typed |-> TRUE, changed |-> Changed(s)]
<1>1. h \in Harnesses
      BY DEF IsSettings
<1>2. Named(s) # {} => "asset.agent" \notin Lacks[h]
      BY AgentsAreAnswered
<1>3. {"asset.prompt", "asset.skill", "config.package"} \cap Lacks[h] = {}
      BY <1>1, Tables DEF Harnesses
<1>4. Changed(s) \cap Lacks[h] = {}
      BY <1>2, <1>3 DEF Changed
<1>5. r.kind = "reload" /\ r.typed = TRUE /\ r.changed = Changed(s)
      OBVIOUS
<1> HIDE DEF r
<1>6. Answer(h, r).ok
      BY <1>4, <1>5, Answers DEF Answer, ReloadNotice
<1>7. IsRequest(r)
      BY <1>5 DEF IsRequest
<1>8. Guarded(h, r) = Answer(h, r)
      BY <1>1, <1>5, <1>7, GuardIsQuiet
<1>. QED
     BY <1>6, <1>8 DEF r

LEMMA LeavesDiffer ==
    ASSUME NEW f \in {"asset.prompt", "asset.agent"}, NEW i, NEW j, Leaf(f, i)[1] = Leaf(f, j)[1]
    PROVE  i = j
<1>1. \A id : Leaf(f, id)[1] = <<id, "md">>
      BY DEF Leaf
<1>2. <<i, "md">> = <<j, "md">>
      BY <1>1
<1>3. <<i, "md">>[1] = i /\ <<j, "md">>[1] = j
      OBVIOUS
<1> DEFINE a == <<i, "md">>
           b == <<j, "md">>
<1>4. a = b /\ a[1] = i /\ b[1] = j
      BY <1>2, <1>3
<1> HIDE DEF a, b
<1>. QED
     BY <1>4

\* The path of an asset tells what it is.
LEMMA PathTells ==
    ASSUME NEW h \in Harnesses, NEW scope \in Scopes, NEW f \in AssetFeatures, NEW g \in AssetFeatures, NEW i, NEW j,
           AssetPath(h, f, scope, i) = AssetPath(h, g, scope, j)
    PROVE  f = g /\ (f \in {"asset.prompt", "asset.agent"} => i = j)
<1> DEFINE n == Len(Root(h, scope)) + 1
           s == AssetPath(h, f, scope, i).segments
           t == AssetPath(h, g, scope, j).segments
<1>1. s[n] = Folder(h, f) /\ s[n + 1] = Leaf(f, i)[1]
      BY FolderInPath
<1>2. t[n] = Folder(h, g) /\ t[n + 1] = Leaf(g, j)[1]
      BY FolderInPath
<1>3. s = t
      OBVIOUS
<1> HIDE DEF s, t, n
<1>4. f = g
      BY <1>1, <1>2, <1>3, FoldersDiffer
<1>5. Leaf(f, i)[1] = Leaf(f, j)[1]
      BY <1>1, <1>2, <1>3, <1>4
<1>. QED
     BY <1>4, <1>5, LeavesDiffer

LEMMA FilesAreApart ==
    ASSUME NEW s, IsSettings(s), \A answer \in FileAnswers(s) : answer.ok
    PROVE  \A x, y \in {z.value : z \in FileAnswers(s)} : x.target = y.target => x = y
<1> DEFINE h == s.harness
           Req == {PromptFor(s, c) : c \in Commands} \cup {AgentFor(s, r) : r \in Named(s)} \cup {ProtocolFor(s)}
           FeatureFor(q) == IF q.kind = "prompt" THEN "asset.prompt" ELSE IF q.kind = "skill" THEN "asset.skill" ELSE "asset.agent"
<1>1. h \in Harnesses /\ s.scope \in Scopes
      BY DEF IsSettings
<1>2. /\ \A c : PromptFor(s, c).kind = "prompt" /\ PromptFor(s, c).scope = s.scope /\ PromptFor(s, c).id = CommandId(c)
      /\ \A r : AgentFor(s, r).kind = "agent" /\ AgentFor(s, r).scope = s.scope /\ AgentFor(s, r).id = AgentId(s.roles[r])
      /\ ProtocolFor(s).kind = "skill" /\ ProtocolFor(s).scope = s.scope
      BY DEF PromptFor, AgentFor, ProtocolFor
<1>3. \A c, d : CommandId(c) = CommandId(d) => c = d
      BY DEF CommandId
<1>4. \A r, q : AgentId(s.roles[r]) = AgentId(s.roles[q]) => AgentFor(s, r) = AgentFor(s, q)
  <2>1. \A r, q : AgentId(s.roles[r]) = AgentId(s.roles[q]) => s.roles[r] = s.roles[q]
        BY DEF AgentId
  <2>. QED
       BY <2>1 DEF AgentFor, Hint
<1>5. ASSUME NEW p \in Req, NEW q \in Req, FeatureFor(p) = FeatureFor(q), FeatureFor(p) = "asset.skill" \/ p.id = q.id
      PROVE  p = q
  <2>1. CASE p.kind = "prompt"
    <3>1. \A x \in Req : x.kind = "prompt" => \E c \in Commands : x = PromptFor(s, c)
          BY <1>2
    <3>2. q.kind = "prompt" /\ p.id = q.id
          BY <1>2, <1>5, <2>1
    <3>. QED
         BY <1>2, <1>3, <2>1, <3>1, <3>2
  <2>2. CASE p.kind = "agent"
    <3>1. \A x \in Req : x.kind = "agent" => \E r \in Named(s) : x = AgentFor(s, r)
          BY <1>2
    <3>2. q.kind = "agent" /\ p.id = q.id
          BY <1>2, <1>5, <2>2
    <3>. QED
         BY <1>2, <1>4, <2>2, <3>1, <3>2
  <2>3. CASE p.kind = "skill"
    <3>1. q.kind = "skill"
          BY <1>2, <1>5, <2>3
    <3>. QED
         BY <1>2, <2>3, <3>1
  <2>4. p.kind \in {"prompt", "agent", "skill"}
        BY <1>2
  <2>. QED
       BY <2>1, <2>2, <2>3, <2>4
<1>6. \A q \in Req : q.kind \in {"prompt", "agent", "skill"} /\ q.scope = s.scope /\ Guarded(h, q).ok
  <2>1. \A q \in Req : Guarded(h, q) \in FileAnswers(s)
        BY DEF FileAnswers
  <2>. QED
       BY <1>2, <2>1
<1>7. ASSUME NEW x \in {z.value : z \in FileAnswers(s)}
      PROVE  \E q \in Req : x = Guarded(h, q).value
      BY DEF FileAnswers
<1> HIDE DEF Req
<1>8. ASSUME NEW q \in Req
      PROVE  FeatureFor(q) \in AssetFeatures /\ Guarded(h, q).value.target = AssetPath(h, FeatureFor(q), s.scope, q.id)
  <2>1. IsAsset(Guarded(h, q).value, h, FeatureFor(q), q)
        BY <1>1, <1>6, AssetOfRequest
  <2>. QED
       BY <1>6, <2>1 DEF IsAsset
<1>9. ASSUME NEW p \in Req, NEW q \in Req, Guarded(h, p).value.target = Guarded(h, q).value.target
      PROVE  p = q
  <2>1. AssetPath(h, FeatureFor(p), s.scope, p.id) = AssetPath(h, FeatureFor(q), s.scope, q.id)
        BY <1>8, <1>9
  <2>2. FeatureFor(p) \in AssetFeatures /\ FeatureFor(q) \in AssetFeatures
        BY <1>8
  <2>3. FeatureFor(p) \in {"asset.prompt", "asset.skill", "asset.agent"}
        OBVIOUS
  <2> DEFINE f == FeatureFor(p)
             g == FeatureFor(q)
  <2>4. f \in AssetFeatures /\ g \in AssetFeatures /\ AssetPath(h, f, s.scope, p.id) = AssetPath(h, g, s.scope, q.id)
        BY <2>1, <2>2
  <2> HIDE DEF f, g
  <2>5. f = g /\ (f \in {"asset.prompt", "asset.agent"} => p.id = q.id)
        BY <1>1, <2>4, PathTells
  <2>6. FeatureFor(p) = FeatureFor(q) /\ (FeatureFor(p) = "asset.skill" \/ p.id = q.id)
        BY <2>3, <2>5 DEF f, g
  <2>. QED
       BY <1>5, <2>6
<1>. QED
     BY <1>7, <1>9

LEMMA UnitsAreApart ==
    ASSUME NEW s, IsSettings(s), \A m \in s.enabled : PackageAnswer(s, m).ok
    PROVE  \A x, y \in {z.value : z \in PackageAnswers(s)} : Unit(x) = Unit(y) => x = y
<1> DEFINE h == s.harness
<1>1. h \in Harnesses /\ s.scope \in Scopes
      BY DEF IsSettings
<1>2. \A m \in s.enabled : PackageAnswer(s, m).value.operation.unit = UnitName(h, m)
      BY <1>1, PlanOfModule
<1>3. \A made : Unit(made)[3] = made.operation.unit
      BY DEF Unit
<1>4. \A m, n : UnitName(h, m) = UnitName(h, n) => m = n
      BY DEF UnitName, ServerName, PackageName
<1>5. \A x \in {z.value : z \in PackageAnswers(s)} : \E m \in s.enabled : x = PackageAnswer(s, m).value
      BY DEF PackageAnswers
<1>6. ASSUME NEW m \in s.enabled, NEW n \in s.enabled, Unit(PackageAnswer(s, m).value) = Unit(PackageAnswer(s, n).value)
      PROVE  m = n
      BY <1>2, <1>3, <1>4, <1>6
<1>. QED
     BY <1>5, <1>6

\* Whatever the configuration selects, its assets and packages can be projected.
LEMMA SettingsProject ==
    ASSUME NEW s, IsSettings(s), Problems(s) = {}, s.enabled = {} \/ s.scope \in ScopesOf(s.harness, "config.package")
    PROVE  Projectable(s)
<1>1. /\ \A c \in Commands : Guarded(s.harness, PromptFor(s, c)).ok
      /\ \A r \in Named(s) : Guarded(s.harness, AgentFor(s, r)).ok
      /\ Guarded(s.harness, ProtocolFor(s)).ok
      BY PromptsAreAnswered, AgentsAreAnswered, ProtocolIsAnswered
<1>2. \A answer \in FileAnswers(s) : answer.ok
      BY <1>1 DEF FileAnswers
<1>3. \A m \in s.enabled : PackageAnswer(s, m).ok
      BY ModulesAreAnswered
<1>4. \A answer \in PackageAnswers(s) : answer.ok
      BY <1>3 DEF PackageAnswers
<1>5. DistinctTargets({x.value : x \in FileAnswers(s)}, {x.value : x \in PackageAnswers(s)})
  <2>1. \A x, y \in {z.value : z \in FileAnswers(s)} : x.target = y.target => x = y
        BY <1>2, FilesAreApart
  <2>2. \A x, y \in {z.value : z \in PackageAnswers(s)} : Unit(x) = Unit(y) => x = y
        BY <1>3, UnitsAreApart
  <2>. QED
       BY <2>1, <2>2 DEF DistinctTargets
<1>6. Guarded(s.harness, [kind |-> "reload", typed |-> TRUE, changed |-> Changed(s)]).ok
      BY ReloadIsAnswered
<1>7. s.enabled \subseteq LogicalIds
      BY DEF IsSettings
<1>. QED
     BY <1>2, <1>4, <1>5, <1>6, <1>7 DEF Projectable

-------------------------------------------------------------------------------
\* Without overrides: the packaged templates are read, and are accepted.

Additions(files) ==
    /\ DOMAIN files \subseteq {AppendId(c) : c \in Commands}
    /\ \A id \in DOMAIN files : files[id].parts # <<>>
PlainLayers ==
    /\ tiers["packaged"] = Published /\ tiers["package"] = NoFiles /\ tiers["global"] = NoFiles
    /\ Additions(tiers["project"])

LEMMA NothingIsAdded == Additions(NoFiles)
BY NothingIsTemplates DEF Additions

LEMMA PackagedAreAccepted ==
    ASSUME PlainLayers
    PROVE  TemplatesAreAccepted
<1> DEFINE Own == {CommandId(c) : c \in Commands} \cup {Layout, Protocol}
<1>1. \A id \in Own : id \in DOMAIN Published /\ id \notin DOMAIN tiers["project"]
  <2>1. \A id \in Own : id[1] # "append"
    <3>1. \A c : CommandId(c)[1] = "command"
          BY DEF CommandId
    <3>2. Layout[1] = "layout" /\ Protocol[1] = "protocol"
          BY DEF Layout, Protocol
    <3>. QED
         BY <3>1, <3>2
  <2>2. \A id \in DOMAIN tiers["project"] : id[1] = "append"
        BY DEF PlainLayers, Additions, AppendId
  <2>. QED
       BY <2>1, <2>2, PublishedAssumption
<1>2. ASSUME NEW id \in Own PROVE Resolvable(id) /\ Resolved(id) = Published[id]
  <2>1. Holding(id) = {n \in 1 .. 4 : id \in DOMAIN tiers[Tiers[n]]}
        BY FourTiers DEF Holding
  <2>2. /\ id \in DOMAIN tiers[Tiers[1]] /\ id \notin DOMAIN tiers[Tiers[2]]
        /\ id \notin DOMAIN tiers[Tiers[3]] /\ id \notin DOMAIN tiers[Tiers[4]]
        BY <1>1, FourTiers, NothingIsTemplates DEF PlainLayers
  <2>3. Holding(id) = {1}
    <3>1. \A n \in 1 .. 4 : n = 1 \/ n = 2 \/ n = 3 \/ n = 4
          OBVIOUS
    <3>2. 1 \in 1 .. 4
          OBVIOUS
    <3>3. \A n \in Holding(id) : n = 1
          BY <2>1, <2>2, <3>1
    <3>. QED
         BY <2>1, <2>2, <3>2, <3>3
  <2>4. Winner(id) = "packaged"
    <3> DEFINE top == CHOOSE n \in Holding(id) : \A j \in Holding(id) : j <= n
    <3>1. \E n \in Holding(id) : \A j \in Holding(id) : j <= n
          BY <2>3
    <3>2. top \in Holding(id)
          BY <3>1
    <3>3. Winner(id) = Tiers[top]
          BY DEF Winner
    <3> HIDE DEF top
    <3>. QED
         BY <2>3, <3>2, <3>3, FourTiers
  <2>. QED
       BY <2>3, <2>4 DEF Resolvable, Resolved, PlainLayers
<1>3. Resolved(Layout) = Published[Layout] /\ IsLayout(Resolved(Layout))
      BY <1>2, PublishedAssumption
<1>4. ASSUME NEW c \in Commands PROVE AcceptedTemplate(c)
  <2>1. Resolved(CommandId(c)) = Published[CommandId(c)]
        BY <1>2
  <2>. QED
       BY <1>3, <2>1, PublishedAssumption DEF AcceptedTemplate
<1>5. \A c \in Commands : AcceptedAddition(c)
      BY DEF AcceptedAddition, Appended, PlainLayers, Additions
<1>. QED
     BY <1>2, <1>3, <1>4, <1>5 DEF TemplatesAreAccepted

\* What is wrong with a configuration.
Faulty(s) ==
    Problems(s) # {} \/ McpConflict(s) \/ ~Selectable(s)
    \/ (s.enabled # {} /\ s.scope \notin ScopesOf(s.harness, "config.package"))

LEMMA OnlyFaultyIsRefused ==
    ASSUME NEW s, IsSettings(s), PlainLayers, ~Faulty(s)
    PROVE  AcceptedInput(s)
<1>1. Projectable(s)
      BY SettingsProject DEF Faulty
<1>. QED
     BY <1>1, PackagedAreAccepted DEF AcceptedInput, Faulty

Unedited ==
    /\ templateEdits = 0 /\ templates.package = NoDirectory /\ templates.global = NoDirectory
    /\ templates.project # NoDirectory => Additions(templates.project)

LoadInv ==
    /\ TemplatesInv /\ templateEdits \in Nat
    /\ phase # "idle" => IsSettings(settings)
    /\ Unedited =>
          /\ phase \in {"idle", "project", "compile", "compiled", "refused"}
          /\ phase \in {"project", "compile"} => PlainLayers
          /\ phase = "project" => /\ templates.project # NoDirectory /\ unread \subseteq DOMAIN templates.project
                                  /\ Additions(found)
          /\ phase = "refused" => Faulty(settings)

LEMMA LoadAtStart ==
    ASSUME ApplyInit
    PROVE  LoadInv
<1>1. phase = "idle" /\ templateEdits = 0
      BY DEF ApplyInit, CompilerInit
<1>. QED
     BY <1>1, TemplatesAtStart DEF LoadInv

LEMMA LoadStays ==
    ASSUME LoadInv, [ApplyNext]_allVars
    PROVE  LoadInv'
<1>1. TemplatesInv'
      BY TemplatesStay DEF LoadInv
<1>2. CASE UNCHANGED compilerVars
      BY <1>1, <1>2 DEF LoadInv, compilerVars, Unedited, PlainLayers
<1>3. CASE ForgetCompiler
      BY <1>1, <1>3 DEF LoadInv, ForgetCompiler
<1>4. CASE Configured /\ StartCompiler(snapshot.value[TargetsPath])
  <2> DEFINE s == snapshot.value[TargetsPath]
  <2>1. IsSettings(s) /\ settings' = s /\ templates' = templates /\ templateEdits' = templateEdits
        BY <1>4 DEF Configured, StartCompiler
  <2>2. /\ tiers' = [NoTiers EXCEPT !["packaged"] = Published,
                                    !["package"] = IF templates.package = NoDirectory THEN NoFiles ELSE templates.package]
        /\ phase' = NextDirectory("package") /\ found' = NoFiles
        /\ unread' = IF phase' = "compile" THEN NoDirectory ELSE DOMAIN templates[phase']
        BY <1>4 DEF StartCompiler, OpenNext
  <2> HIDE DEF s
  <2>3. ASSUME Unedited
        PROVE  /\ phase' \in {"project", "compile"} /\ PlainLayers'
               /\ phase' = "project" => /\ templates.project # NoDirectory /\ unread' \subseteq DOMAIN templates.project
                                        /\ Additions(found')
    <3>1. phase' = IF templates.project # NoDirectory THEN "project" ELSE "compile"
          BY <2>2, <2>3 DEF NextDirectory, Unedited
    <3>2. DOMAIN NoTiers = {"packaged", "package", "global", "project"}
          BY FourTiers DEF NoTiers
    <3>3. /\ tiers'["packaged"] = Published /\ tiers'["package"] = NoFiles
          /\ tiers'["global"] = NoFiles /\ tiers'["project"] = NoFiles
          BY <2>2, <2>3, <3>2, FourTiers, NothingIsTemplates DEF Unedited
    <3>4. PlainLayers'
          BY <3>3, NothingIsAdded DEF PlainLayers
    <3>. QED
         BY <2>2, <3>1, <3>4, NothingIsAdded
  <2>4. Unedited' => Unedited
        BY <2>1 DEF Unedited
  <2>. QED
       BY <1>1, <2>1, <2>3, <2>4 DEF LoadInv
<1>5. CASE ReadTemplate
  <2>1. /\ phase \in {"global", "project"} /\ unread # {} /\ UNCHANGED <<settings, templates, tiers, output, templateEdits>>
        BY <1>5 DEF ReadTemplate
  <2>2. ASSUME Unedited
        PROVE  phase' = "project" /\ phase = "project" /\ unread' \subseteq DOMAIN templates.project /\ Additions(found')
    <3> DEFINE id == CHOOSE i \in unread : TRUE
    <3>1. /\ phase = "project" /\ PlainLayers /\ templates.project # NoDirectory
          /\ unread \subseteq DOMAIN templates.project /\ Additions(found) /\ Additions(templates.project)
          BY <2>1, <2>2 DEF LoadInv, Unedited
    <3>2. id \in unread
          BY <2>1
    <3>3. IF id \in Allowed(phase) /\ templates[phase] # NoDirectory /\ id \in DOMAIN templates[phase]
          THEN /\ found' = [i \in DOMAIN found \cup {id} |-> IF i = id THEN templates[phase][id] ELSE found[i]]
               /\ unread' = unread \ {id} /\ UNCHANGED phase
          ELSE phase' = "refused" /\ unread' = NoDirectory /\ found' = NoFiles
          BY <1>5 DEF ReadTemplate
    <3> HIDE DEF id
    <3>4. id \in DOMAIN templates.project /\ id \in Allowed("project")
          BY <3>1, <3>2 DEF Additions, Allowed
    <3>5. /\ found' = [i \in DOMAIN found \cup {id} |-> IF i = id THEN templates.project[id] ELSE found[i]]
          /\ unread' = unread \ {id} /\ phase' = phase
          BY <3>1, <3>3, <3>4
    <3>6. Additions(found')
          BY <3>1, <3>4, <3>5 DEF Additions
    <3>. QED
         BY <3>1, <3>5, <3>6
  <2>3. (Unedited' => Unedited) /\ (PlainLayers => PlainLayers')
        BY <2>1 DEF Unedited, PlainLayers
  <2>. QED
       BY <1>1, <2>1, <2>2, <2>3 DEF LoadInv
<1>6. CASE CloseDirectory
  <2>1. /\ phase \in {"global", "project"} /\ tiers' = [tiers EXCEPT ![phase] = found]
        /\ phase' = NextDirectory(phase) /\ UNCHANGED <<settings, templates, output, templateEdits>>
        BY <1>6 DEF CloseDirectory, OpenNext
  <2>2. ASSUME Unedited PROVE phase' = "compile" /\ PlainLayers'
    <3>1. phase = "project" /\ PlainLayers /\ Additions(found)
          BY <2>1, <2>2 DEF LoadInv
    <3>2. phase' = "compile"
          BY <2>1, <3>1 DEF NextDirectory
    <3>3. DOMAIN tiers = {"packaged", "package", "global", "project"}
          BY FourTiers DEF LoadInv, TemplatesInv
    <3>4. tiers'["project"] = found /\ \A t \in {"packaged", "package", "global"} : tiers'[t] = tiers[t]
          BY <2>1, <3>1, <3>3
    <3>5. PlainLayers'
          BY <3>1, <3>4 DEF PlainLayers
    <3>. QED
         BY <3>2, <3>5
  <2>3. Unedited' => Unedited
        BY <2>1 DEF Unedited
  <2>. QED
       BY <1>1, <2>1, <2>2, <2>3 DEF LoadInv
<1>7. CASE CompileSdlc
  <2>1. /\ phase = "compile" /\ UNCHANGED <<settings, templates, unread, found, tiers, templateEdits>>
        /\ phase' = IF AcceptedInput(settings) THEN "compiled" ELSE "refused"
        BY <1>7 DEF CompileSdlc
  <2>2. IsSettings(settings)
        BY <2>1 DEF LoadInv
  <2>3. ASSUME Unedited, phase' = "refused" PROVE Faulty(settings)
        BY <2>1, <2>2, <2>3, OnlyFaultyIsRefused DEF LoadInv
  <2>4. (Unedited' => Unedited) /\ (Faulty(settings) => Faulty(settings)')
        BY <2>1 DEF Unedited
  <2>. QED
       BY <1>1, <2>1, <2>2, <2>3, <2>4 DEF LoadInv
<1>8. CASE \E t \in {"global", "project"}, directory \in input.directories : EditTemplate(t, directory)
  <2>1. /\ templateEdits' = templateEdits + 1 /\ phase' = phase /\ settings' = settings
        BY <1>8 DEF EditTemplate
  <2>2. templateEdits' \in Nat /\ templateEdits' # 0
        BY <2>1 DEF LoadInv
  <2>3. ~Unedited'
        BY <2>2 DEF Unedited
  <2>. QED
       BY <1>1, <2>1, <2>2, <2>3 DEF LoadInv
<1>. QED
     BY <1>2, <1>3, <1>4, <1>5, <1>6, <1>7, <1>8 DEF ApplyNext, Invocations, CompileHarness, CompilerNext, Invoke,
        Compile, AskAdapters, allVars, compilerVars

LEMMA LoadIsPlain == LoadInv => PackagedTemplatesCompile
<1>1. SUFFICES ASSUME LoadInv, phase = "refused", Unedited PROVE Faulty(settings)
      BY DEF PackagedTemplatesCompile, Unedited, Additions, Faulty
<1>. QED
     BY <1>1 DEF LoadInv

\* Every lifecycle that is compiled has the contract of each role of a command
\* once and unchanged in its text, both optional capabilities and no slot twice,
\* beside what the theorems above say of its packs, routes, agents and files; and
\* without overrides nothing but the configuration is a reason to refuse one
\* (validateSdlcCompilerContext, validateTrackedFragments and
\* requireCapabilityFragment over what the renderer writes).
THEOREM LifecyclesAreComplete == ApplySpec => []CompilerInv
<1>1. ApplyInit => BodiesInv
  <2>1. ApplyInit => phase # "compiled"
        BY DEF ApplyInit, CompilerInit
  <2>. QED
       BY <2>1, TemplatesAtStart DEF BodiesInv
<1>2. BodiesInv /\ [ApplyNext]_allVars => BodiesInv'
      BY BodiesStay
<1>3. BodiesInv => (phase = "compiled" => BodiesAreWhole)
      BY DEF BodiesInv
<1>4. ApplySpec => [](phase = "compiled" => BodiesAreWhole)
      BY <1>1, <1>2, <1>3, PTL DEF ApplySpec
<1>5. ApplyInit => LoadInv
      BY LoadAtStart
<1>6. LoadInv /\ [ApplyNext]_allVars => LoadInv'
      BY LoadStays
<1>7. ApplySpec => []PackagedTemplatesCompile
      BY <1>5, <1>6, LoadIsPlain, PTL DEF ApplySpec
<1>8. (/\ phase = "compiled" => BodiesAreWhole
       /\ phase = "compiled" => PacksAreUsable /\ RoutesAreProvided /\ AgentsArePresent
       /\ phase = "compiled" => AssetsAreInPlace
       /\ PackagedTemplatesCompile /\ AdaptersKeepTheContract) => CompilerInv
      BY DEF CompilerInv
<1>. QED
     BY <1>4, <1>7, <1>8, CompiledIsUsable, AssetsArePlaced, AdaptersKeepTheirContract, PTL
===============================================================================
