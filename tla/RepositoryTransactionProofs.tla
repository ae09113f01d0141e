---------------------- MODULE RepositoryTransactionProofs ----------------------
(***************************************************************************)
(* Proofs about RepositoryTransaction, for every number of paths, every    *)
(* set of revisions and batches and all bounds: type correctness, that an  *)
(* acknowledged batch stays committed across kills and power losses, that  *)
(* batches are atomic as long as the power stays on, that what an operator *)
(* writes meanwhile is never dropped, and, as long as nothing is killed    *)
(* and nothing fails, that batches stay atomic when the power does fail.   *)
(***************************************************************************)
EXTENDS RepositoryTransaction, TLAPS

(* The inductive invariant, in parts.                                         *)

\* Which path the holder is working on.
OnPath == PublishPCs \cup {"rbTmpSync", "rbEvac", "rbEvacSync", "rbRead"}
PathInv ==
    /\ pc \in OnPath => k \in batch
    /\ pc = "verify" => k \in 1 .. NumPaths + 1
    /\ pc = "rbTmp" => k \in 0 .. NumPaths

\* The holder's place in the code tells the state of the journal directory.
PreparePCs == {"mkdirSync", "artifacts", "prepSync", "activate", "abandon"}
ActivePCs == {"activateSync", "verify", "confirm", "commit"}
                \cup PublishPCs \cup RollbackPCs
PhaseInv ==
    /\ pc \in PreparePCs => phase = "prepare"
    /\ pc \in ActivePCs => phase = "active"
    /\ pc = "commitSync" => phase = "committed"
    /\ pc = "toCleanup" => phase \in {"active", "committed"}
    /\ pc = "toCleanupSync" => phase = "cleanup"
    /\ pc \in {"rmArtifacts", "rmdir"} => phase \in {"prepare", "cleanup"}
    /\ pc = "rmdirSync" => phase = "none"
    /\ pc = "callback" => phase \in {"none", "committed", "cleanup"}
    /\ mode = "apply" /\ pc = "toCleanup" => phase = "committed"
    /\ pc \in ApplyPCs => mode = "apply"
    /\ pc = "scan" => mode = "recover"
    /\ pc \in RollbackPCs => mode # "apply"
    /\ pc \in PublishPCs /\ src # "dest" => mode # "apply"

\* The commit mark, and what the disk may say of it.
CommitInv ==
    /\ phase \in {"prepare", "active"} => ~committed
    /\ phase = "committed" => committed
    /\ mode = "apply" /\ pc \in CleanupPCs => committed /\ "active" \notin durPhase
    /\ pc \in ApplyPCs => ~acked
    /\ acked => committed /\ "active" \notin durPhase
    /\ "prepare" \in durPhase => ~committed
    /\ "committed" \in durPhase => committed
    /\ mode = "apply" /\ pc \in PublishPCs \cup {"verify", "confirm", "commit"} =>
          "prepare" \notin durPhase

Inv == TypeOK /\ PathInv /\ PhaseInv /\ CommitInv

\* The files that may hold what no journal says: those an operator edited.
Exempt == IF edits = 0 THEN {} ELSE touched

\* As long as the power stays on, the other files hold what the journal says.
AtomicInv ==
    /\ \A p \in Paths \ batch : old[p] = new[p]
    /\ losses = 0 =>
        /\ phase # "active" => \A p \in Paths \ Exempt : Visible(p) = Decided(p)
        /\ \A p \in Paths \ (batch \cup Exempt) : Visible(p) = old[p]
        /\ pc = "commit" => \A p \in Paths \ Exempt : Visible(p) = new[p]
        /\ pc = "toCleanup" /\ phase = "active" =>
              \A p \in Paths \ Exempt : Visible(p) = old[p]
-------------------------------------------------------------------------------
(* Directory operations: they keep the types and touch the one path only.     *)

LocalChange(p) == DirTypeOK' /\ \A q \in Paths \ {p} : cur'[q] = cur[q]

\* Setting the directory of a path changes nothing of another path.
LEMMA SetDirLocal ==
    ASSUME DirTypeOK, NEW p \in Paths, NEW d \in Dir, SetDir(p, d)
    PROVE  LocalChange(p)
<1>1. cur' \in [Paths -> Dir]  BY DEF DirTypeOK, SetDir
<1>2. dur' \in [Paths -> SUBSET Dir]  BY DEF DirTypeOK, SetDir
<1>3. \A q \in Paths \ {p} : cur'[q] = cur[q]  BY DEF DirTypeOK, SetDir
<1>4. QED  BY <1>1, <1>2, <1>3 DEF LocalChange, DirTypeOK

\* A name that does not exist is a value of the file type.
LEMMA NoFileType == NoFile \in File
BY DEF NoFile, File, Content

\* Creating, replacing or dropping one entry is such a change.
LEMMA SetEntryLocal ==
    ASSUME DirTypeOK, NEW p \in Paths, NEW s \in Slots, NEW f \in File,
           SetEntry(p, s, f)
    PROVE  LocalChange(p)
<1>1. [cur[p] EXCEPT ![s] = f] \in Dir  BY DEF DirTypeOK, Dir
<1>2. QED  BY <1>1, SetDirLocal DEF SetEntry

\* unlink
LEMMA UnlinkLocal ==
    ASSUME DirTypeOK, NEW p \in Paths, NEW s \in Slots, Unlink(p, s)
    PROVE  LocalChange(p)
BY SetEntryLocal, NoFileType DEF Unlink

\* link
LEMMA LinkLocal ==
    ASSUME DirTypeOK, NEW p \in Paths, NEW s \in Slots, NEW t \in Slots, Link(p, s, t)
    PROVE  LocalChange(p)
<1>1. cur[p][s] \in File  BY DEF DirTypeOK, Dir
<1>2. QED  BY <1>1, SetEntryLocal DEF Link

\* rename
LEMMA RenameLocal ==
    ASSUME DirTypeOK, NEW p \in Paths, NEW s \in Slots, NEW t \in Slots, Rename(p, s, t)
    PROVE  LocalChange(p)
<1>1. cur[p][s] \in File  BY DEF DirTypeOK, Dir
<1>2. [cur[p] EXCEPT ![s] = NoFile, ![t] = cur[p][s]] \in Dir
      BY <1>1, NoFileType DEF DirTypeOK, Dir
<1>3. QED  BY <1>2, SetDirLocal DEF Rename

\* fsync of a directory
LEMMA SyncDirectoryLocal ==
    ASSUME DirTypeOK, NEW p \in Paths, SyncDirectory(p)
    PROVE  LocalChange(p)
BY DEF DirTypeOK, SyncDirectory, LocalChange

\* A write and fsync of a temporary.
LEMMA WriteAndSyncFileLocal ==
    ASSUME DirTypeOK, NEW p \in Paths, NEW s \in Slots, NEW r \in Content,
           WriteAndSyncFile(p, s, r)
    PROVE  LocalChange(p)
<1> DEFINE filled(d) == IF d[s].rev = Torn THEN [d EXCEPT ![s] = [rev |-> r, ino |-> @.ino]] ELSE d
<1>1. ASSUME NEW d \in Dir PROVE filled(d) \in Dir
      BY <1>1 DEF Dir, File
<1>2. cur' = [cur EXCEPT ![p] = filled(@)]  BY DEF WriteAndSyncFile
<1>3. dur' = [dur EXCEPT ![p] = {filled(d) : d \in @}]  BY DEF WriteAndSyncFile
<1>4. cur[p] \in Dir /\ dur[p] \in SUBSET Dir  BY DEF DirTypeOK
<1>5. filled(cur[p]) \in Dir  BY <1>1, <1>4
<1>6. {filled(d) : d \in dur[p]} \in SUBSET Dir  BY <1>1, <1>4
<1> HIDE DEF filled
<1>7. QED  BY <1>2, <1>3, <1>5, <1>6 DEF DirTypeOK, LocalChange

\* The directories that come back after a power loss.
LEMMA LoseUnsyncedType ==
    ASSUME DirTypeOK, LoseUnsynced
    PROVE  DirTypeOK'
<1>1. \A p \in Paths : cur'[p] \in dur[p]  BY DEF LoseUnsynced
<1>2. cur' \in [Paths -> Dir]
  <2>1. PICK c \in [Paths -> UNION {dur[p] : p \in Paths}] : cur' = c
        BY DEF LoseUnsynced
  <2>2. \A p \in Paths : cur'[p] \in Dir  BY <1>1 DEF DirTypeOK
  <2>3. QED  BY <2>1, <2>2
<1>3. dur' = [p \in Paths |-> {cur'[p]}]  BY DEF LoseUnsynced
<1>4. QED  BY <1>2, <1>3 DEF DirTypeOK

-------------------------------------------------------------------------------
(* The control of the holder. *)

\* The type invariant without the directories.
ControlTypeOK ==
    /\ phase \in Phases /\ durPhase \subseteq Phases
    /\ batch \subseteq Paths
    /\ old \in [Paths -> Content] /\ new \in [Paths -> Content]
    /\ pc \in PCs
    /\ mode \in {"none", "apply", "inline", "recover"}
    /\ k \in 0 .. NumPaths + 1
    /\ src \in {"none", "dest", "tmp", "evac"}
    /\ exp \in File
    /\ verdict \in {"none", "ambiguous", "malformed", "error"}
    /\ touched \subseteq Paths
    /\ foreign \in [Paths -> Content]
    /\ batches \in Nat /\ kills \in Nat /\ losses \in Nat
    /\ edits \in Nat /\ faults \in Nat

\* The flags apart: Zenon reasons about them, SMT about the rest.
FlagTypeOK ==
    /\ full \in BOOLEAN /\ durFull \subseteq BOOLEAN /\ residue \in BOOLEAN
    /\ acked \in BOOLEAN /\ committed \in BOOLEAN

\* A step of the holder keeps the types of the control state.
LEMMA StepTypes ==
    ASSUME Inv, Step, \A b \in Requests : ~Begin(b)
    PROVE  ControlTypeOK'
<1> USE PathsAssumption, NoFileType
    DEF ControlTypeOK, Phases, PCs, PublishPCs, RollbackPCs, CleanupPCs, ApplyPCs, Paths,
        journalVars, manifestVars, holderVars, callerVars, historyVars, boundVars,
        At, Goto, GotoPath, Leave, Throw, Quiet, StepFrame, PublishFrame,
        SetPhase, SetFull, SyncTransactions, Acknowledge, PublishReturns,
        ThrowFromPublish, CallPublish
<1>a. ControlTypeOK  BY DEF Inv, TypeOK
<1>b. /\ pc \in OnPath => k \in batch
      /\ pc = "verify" => k \in 1 .. NumPaths + 1
      /\ pc = "rbTmp" => k \in 0 .. NumPaths
      BY DEF Inv, PathInv
<1>c. \A s \in Slots : k \in batch => cur[k][s] \in File
      BY DEF Inv, TypeOK, DirTypeOK, Dir
<1> USE <1>a, <1>b DEF OnPath
<1>1. CASE Acquire  BY <1>1 DEF Acquire
<1>2. CASE Release  BY <1>2 DEF Release
<1>3. CASE MkdirSync  BY <1>3 DEF MkdirSync
<1>4. CASE WriteArtifacts  BY <1>4 DEF WriteArtifacts
<1>5. CASE PrepareSync  BY <1>5 DEF PrepareSync
<1>6. CASE Activate  BY <1>6 DEF Activate
<1>7. CASE ActivateSync  BY <1>7 DEF ActivateSync
<1>8. CASE Abandon  BY <1>8 DEF Abandon
<1>9. CASE Commit  BY <1>9 DEF Commit
<1>10. CASE CommitSync  BY <1>10 DEF CommitSync
<1>11. CASE ToCleanup  BY <1>11 DEF ToCleanup
<1>12. CASE ToCleanupSync  BY <1>12 DEF ToCleanupSync
<1>13. CASE RemoveArtifacts  BY <1>13 DEF RemoveArtifacts
<1>14. CASE RemoveDirectory  BY <1>14 DEF RemoveDirectory
<1>15. CASE RemoveDirectorySync  BY <1>15 DEF RemoveDirectorySync
<1>16. CASE Scan  BY <1>16 DEF Scan
<1>17. CASE RollbackStart  BY <1>17 DEF RollbackStart
<1>18. CASE NextRollback  BY <1>18 DEF NextRollback
<1>19. CASE VerifyCurrent  BY <1>c, <1>19 DEF VerifyCurrent, Slots
<1>20. CASE ConfirmPublished  BY <1>20 DEF ConfirmPublished
<1>21. CASE RollbackPath  BY <1>c, <1>21 DEF RollbackPath, Slots
<1>22. CASE RollbackVerify  BY <1>22 DEF RollbackVerify
<1>23. CASE PublishStart  BY <1>23 DEF PublishStart
<1>24. CASE OpenTemporary  BY <1>24 DEF OpenTemporary
<1>25. CASE WriteTemporary  BY <1>25 DEF WriteTemporary
<1>26. CASE Evacuate  BY <1>26 DEF Evacuate
<1>27. CASE EvacuateUnlink  BY <1>27 DEF EvacuateUnlink
<1>28. CASE CheckEvacuated  BY <1>28 DEF CheckEvacuated
<1>29. CASE CheckSync  BY <1>29 DEF CheckSync
<1>30. CASE LinkTemporary  BY <1>30 DEF LinkTemporary
<1>31. CASE UnlinkTemporary  BY <1>31 DEF UnlinkTemporary
<1>32. CASE PublishSync  BY <1>32 DEF PublishSync
<1>33. CASE UnlinkEvacuated  BY <1>33 DEF UnlinkEvacuated
<1>34. CASE EvacuatedSync  BY <1>34 DEF EvacuatedSync
<1>35. CASE Restore  BY <1>35 DEF Restore
<1>36. CASE RestoreUnlink  BY <1>36 DEF RestoreUnlink
<1>37. CASE RestoreSync  BY <1>37 DEF RestoreSync
<1>38. CASE Raise  BY <1>38 DEF Raise
<1>39. CASE RecoverTemporary  BY <1>c, <1>39 DEF RecoverTemporary, Slots
<1>40. CASE RecoverTemporarySync  BY <1>40 DEF RecoverTemporarySync
<1>41. CASE RecoverEvacuated  BY <1>c, <1>41 DEF RecoverEvacuated, Slots
<1>42. CASE RecoverEvacuatedSync  BY <1>42 DEF RecoverEvacuatedSync
<1>43. QED
  BY <1>1, <1>2, <1>3, <1>4, <1>5, <1>6, <1>7, <1>8, <1>9, <1>10, <1>11, <1>12, <1>13, <1>14,
     <1>15, <1>16, <1>17, <1>18, <1>19, <1>20, <1>21, <1>22, <1>23, <1>24, <1>25, <1>26, <1>27, <1>28,
     <1>29, <1>30, <1>31, <1>32, <1>33, <1>34, <1>35, <1>36, <1>37, <1>38, <1>39, <1>40, <1>41, <1>42
  DEF Step, Apply, Publication, Cleanup, Recovery

\* A step of the holder keeps the types of the flags.
LEMMA StepFlags ==
    ASSUME Inv, Step, \A b \in Requests : ~Begin(b)
    PROVE  FlagTypeOK'
<1> USE DEF FlagTypeOK,
        journalVars, manifestVars, holderVars, callerVars, historyVars, boundVars,
        At, Goto, GotoPath, Leave, Throw, Quiet, StepFrame, PublishFrame,
        SetPhase, SetFull, SyncTransactions, Acknowledge, PublishReturns,
        ThrowFromPublish, CallPublish
<1>a. FlagTypeOK  BY DEF Inv, TypeOK
<1> USE <1>a
<1>1. CASE Acquire  BY <1>1 DEF Acquire
<1>2. CASE Release  BY <1>2 DEF Release
<1>3. CASE MkdirSync  BY <1>3 DEF MkdirSync
<1>4. CASE WriteArtifacts  BY Zenon, <1>4 DEF WriteArtifacts
<1>5. CASE PrepareSync  BY Zenon, <1>5 DEF PrepareSync
<1>6. CASE Activate  BY <1>6 DEF Activate
<1>7. CASE ActivateSync  BY <1>7 DEF ActivateSync
<1>8. CASE Abandon  BY Zenon, <1>8 DEF Abandon
<1>9. CASE Commit  BY Zenon, <1>9 DEF Commit
<1>10. CASE CommitSync  BY <1>10 DEF CommitSync
<1>11. CASE ToCleanup  BY <1>11 DEF ToCleanup
<1>12. CASE ToCleanupSync  BY <1>12 DEF ToCleanupSync
<1>13. CASE RemoveArtifacts  BY Zenon, <1>13 DEF RemoveArtifacts
<1>14. CASE RemoveDirectory  BY <1>14 DEF RemoveDirectory
<1>15. CASE RemoveDirectorySync  BY Zenon, <1>15 DEF RemoveDirectorySync
<1>16. CASE Scan  BY Zenon, <1>16 DEF Scan
<1>17. CASE RollbackStart  BY <1>17 DEF RollbackStart
<1>18. CASE NextRollback  BY <1>18 DEF NextRollback
<1>19. CASE VerifyCurrent  BY <1>19 DEF VerifyCurrent
<1>20. CASE ConfirmPublished  BY <1>20 DEF ConfirmPublished
<1>21. CASE RollbackPath  BY <1>21 DEF RollbackPath
<1>22. CASE RollbackVerify  BY <1>22 DEF RollbackVerify
<1>23. CASE PublishStart  BY <1>23 DEF PublishStart
<1>24. CASE OpenTemporary  BY <1>24 DEF OpenTemporary
<1>25. CASE WriteTemporary  BY <1>25 DEF WriteTemporary
<1>26. CASE Evacuate  BY <1>26 DEF Evacuate
<1>27. CASE EvacuateUnlink  BY <1>27 DEF EvacuateUnlink
<1>28. CASE CheckEvacuated  BY <1>28 DEF CheckEvacuated
<1>29. CASE CheckSync  BY <1>29 DEF CheckSync
<1>30. CASE LinkTemporary  BY <1>30 DEF LinkTemporary
<1>31. CASE UnlinkTemporary  BY <1>31 DEF UnlinkTemporary
<1>32. CASE PublishSync  BY <1>32 DEF PublishSync
<1>33. CASE UnlinkEvacuated  BY <1>33 DEF UnlinkEvacuated
<1>34. CASE EvacuatedSync  BY <1>34 DEF EvacuatedSync
<1>35. CASE Restore  BY <1>35 DEF Restore
<1>36. CASE RestoreUnlink  BY <1>36 DEF RestoreUnlink
<1>37. CASE RestoreSync  BY <1>37 DEF RestoreSync
<1>38. CASE Raise  BY <1>38 DEF Raise
<1>39. CASE RecoverTemporary  BY <1>39 DEF RecoverTemporary
<1>40. CASE RecoverTemporarySync  BY <1>40 DEF RecoverTemporarySync
<1>41. CASE RecoverEvacuated  BY <1>41 DEF RecoverEvacuated
<1>42. CASE RecoverEvacuatedSync  BY <1>42 DEF RecoverEvacuatedSync
<1>43. QED
  BY <1>1, <1>2, <1>3, <1>4, <1>5, <1>6, <1>7, <1>8, <1>9, <1>10, <1>11, <1>12, <1>13, <1>14,
     <1>15, <1>16, <1>17, <1>18, <1>19, <1>20, <1>21, <1>22, <1>23, <1>24, <1>25, <1>26, <1>27, <1>28,
     <1>29, <1>30, <1>31, <1>32, <1>33, <1>34, <1>35, <1>36, <1>37, <1>38, <1>39, <1>40, <1>41, <1>42
  DEF Step, Apply, Publication, Cleanup, Recovery

\* A step of the holder works on a path of the batch.
LEMMA StepPath ==
    ASSUME Inv, Step, \A b \in Requests : ~Begin(b)
    PROVE  PathInv'
<1> USE PathsAssumption DEF PathInv, OnPath, PublishPCs, Paths,
        journalVars, manifestVars, holderVars, callerVars, historyVars, boundVars,
        At, Goto, GotoPath, Leave, Throw, Quiet, StepFrame, PublishFrame,
        SetPhase, SetFull, SyncTransactions, Acknowledge, PublishReturns,
        ThrowFromPublish, CallPublish
<1>a. PathInv /\ k \in 0 .. NumPaths + 1 /\ batch \subseteq Paths  BY DEF Inv, TypeOK
<1> USE <1>a
<1>1. CASE Acquire  BY <1>1 DEF Acquire
<1>2. CASE Release  BY <1>2 DEF Release
<1>3. CASE MkdirSync  BY <1>3 DEF MkdirSync
<1>4. CASE WriteArtifacts  BY <1>4 DEF WriteArtifacts
<1>5. CASE PrepareSync  BY <1>5 DEF PrepareSync
<1>6. CASE Activate  BY <1>6 DEF Activate
<1>7. CASE ActivateSync  BY <1>7 DEF ActivateSync
<1>8. CASE Abandon  BY <1>8 DEF Abandon
<1>9. CASE Commit  BY <1>9 DEF Commit
<1>10. CASE CommitSync  BY <1>10 DEF CommitSync
<1>11. CASE ToCleanup  BY <1>11 DEF ToCleanup
<1>12. CASE ToCleanupSync  BY <1>12 DEF ToCleanupSync
<1>13. CASE RemoveArtifacts  BY <1>13 DEF RemoveArtifacts
<1>14. CASE RemoveDirectory  BY <1>14 DEF RemoveDirectory
<1>15. CASE RemoveDirectorySync  BY <1>15 DEF RemoveDirectorySync
<1>16. CASE Scan  BY <1>16 DEF Scan
<1>17. CASE RollbackStart  BY <1>17 DEF RollbackStart
<1>18. CASE NextRollback  BY <1>18 DEF NextRollback
<1>19. CASE VerifyCurrent  BY <1>19 DEF VerifyCurrent
<1>20. CASE ConfirmPublished  BY <1>20 DEF ConfirmPublished
<1>21. CASE RollbackPath  BY <1>21 DEF RollbackPath
<1>22. CASE RollbackVerify  BY <1>22 DEF RollbackVerify
<1>23. CASE PublishStart  BY <1>23 DEF PublishStart
<1>24. CASE OpenTemporary  BY <1>24 DEF OpenTemporary
<1>25. CASE WriteTemporary  BY <1>25 DEF WriteTemporary
<1>26. CASE Evacuate  BY <1>26 DEF Evacuate
<1>27. CASE EvacuateUnlink  BY <1>27 DEF EvacuateUnlink
<1>28. CASE CheckEvacuated  BY <1>28 DEF CheckEvacuated
<1>29. CASE CheckSync  BY <1>29 DEF CheckSync
<1>30. CASE LinkTemporary  BY <1>30 DEF LinkTemporary
<1>31. CASE UnlinkTemporary  BY <1>31 DEF UnlinkTemporary
<1>32. CASE PublishSync  BY <1>32 DEF PublishSync
<1>33. CASE UnlinkEvacuated  BY <1>33 DEF UnlinkEvacuated
<1>34. CASE EvacuatedSync  BY <1>34 DEF EvacuatedSync
<1>35. CASE Restore  BY <1>35 DEF Restore
<1>36. CASE RestoreUnlink  BY <1>36 DEF RestoreUnlink
<1>37. CASE RestoreSync  BY <1>37 DEF RestoreSync
<1>38. CASE Raise  BY <1>38 DEF Raise
<1>39. CASE RecoverTemporary  BY <1>39 DEF RecoverTemporary
<1>40. CASE RecoverTemporarySync  BY <1>40 DEF RecoverTemporarySync
<1>41. CASE RecoverEvacuated  BY <1>41 DEF RecoverEvacuated
<1>42. CASE RecoverEvacuatedSync  BY <1>42 DEF RecoverEvacuatedSync
<1>43. QED
  BY <1>1, <1>2, <1>3, <1>4, <1>5, <1>6, <1>7, <1>8, <1>9, <1>10, <1>11, <1>12, <1>13, <1>14,
     <1>15, <1>16, <1>17, <1>18, <1>19, <1>20, <1>21, <1>22, <1>23, <1>24, <1>25, <1>26, <1>27, <1>28,
     <1>29, <1>30, <1>31, <1>32, <1>33, <1>34, <1>35, <1>36, <1>37, <1>38, <1>39, <1>40, <1>41, <1>42
  DEF Step, Apply, Publication, Cleanup, Recovery

\* A step of the holder keeps its place and the journal in step.
LEMMA StepPhase ==
    ASSUME Inv, Step, \A b \in Requests : ~Begin(b)
    PROVE  PhaseInv'
<1> USE DEF PhaseInv, PublishPCs, RollbackPCs, CleanupPCs, ApplyPCs, PreparePCs, ActivePCs,
        journalVars, manifestVars, holderVars, callerVars, historyVars, boundVars,
        At, Goto, GotoPath, Leave, Throw, Quiet, StepFrame, PublishFrame,
        SetPhase, SetFull, SyncTransactions, Acknowledge, PublishReturns,
        ThrowFromPublish, CallPublish
<1>a. PhaseInv /\ phase \in Phases /\ mode \in {"none", "apply", "inline", "recover"}
      BY DEF Inv, TypeOK
<1> USE <1>a DEF Phases
<1>1. CASE Acquire  BY <1>1 DEF Acquire
<1>2. CASE Release  BY <1>2 DEF Release
<1>3. CASE MkdirSync  BY <1>3 DEF MkdirSync
<1>4. CASE WriteArtifacts  BY <1>4 DEF WriteArtifacts
<1>5. CASE PrepareSync  BY <1>5 DEF PrepareSync
<1>6. CASE Activate  BY <1>6 DEF Activate
<1>7. CASE ActivateSync  BY <1>7 DEF ActivateSync
<1>8. CASE Abandon  BY <1>8 DEF Abandon
<1>9. CASE Commit  BY <1>9 DEF Commit
<1>10. CASE CommitSync  BY <1>10 DEF CommitSync
<1>11. CASE ToCleanup  BY <1>11 DEF ToCleanup
<1>12. CASE ToCleanupSync  BY <1>12 DEF ToCleanupSync
<1>13. CASE RemoveArtifacts  BY <1>13 DEF RemoveArtifacts
<1>14. CASE RemoveDirectory  BY <1>14 DEF RemoveDirectory
<1>15. CASE RemoveDirectorySync  BY <1>15 DEF RemoveDirectorySync
<1>16. CASE Scan  BY <1>16 DEF Scan
<1>17. CASE RollbackStart  BY <1>17 DEF RollbackStart
<1>18. CASE NextRollback  BY <1>18 DEF NextRollback
<1>19. CASE VerifyCurrent  BY <1>19 DEF VerifyCurrent
<1>20. CASE ConfirmPublished  BY <1>20 DEF ConfirmPublished
<1>21. CASE RollbackPath  BY <1>21 DEF RollbackPath
<1>22. CASE RollbackVerify  BY <1>22 DEF RollbackVerify
<1>23. CASE PublishStart  BY <1>23 DEF PublishStart
<1>24. CASE OpenTemporary  BY <1>24 DEF OpenTemporary
<1>25. CASE WriteTemporary  BY <1>25 DEF WriteTemporary
<1>26. CASE Evacuate  BY <1>26 DEF Evacuate
<1>27. CASE EvacuateUnlink  BY <1>27 DEF EvacuateUnlink
<1>28. CASE CheckEvacuated  BY <1>28 DEF CheckEvacuated
<1>29. CASE CheckSync  BY <1>29 DEF CheckSync
<1>30. CASE LinkTemporary  BY <1>30 DEF LinkTemporary
<1>31. CASE UnlinkTemporary  BY <1>31 DEF UnlinkTemporary
<1>32. CASE PublishSync  BY <1>32 DEF PublishSync
<1>33. CASE UnlinkEvacuated  BY <1>33 DEF UnlinkEvacuated
<1>34. CASE EvacuatedSync  BY <1>34 DEF EvacuatedSync
<1>35. CASE Restore  BY <1>35 DEF Restore
<1>36. CASE RestoreUnlink  BY <1>36 DEF RestoreUnlink
<1>37. CASE RestoreSync  BY <1>37 DEF RestoreSync
<1>38. CASE Raise  BY <1>38 DEF Raise
<1>39. CASE RecoverTemporary  BY <1>39 DEF RecoverTemporary
<1>40. CASE RecoverTemporarySync  BY <1>40 DEF RecoverTemporarySync
<1>41. CASE RecoverEvacuated  BY <1>41 DEF RecoverEvacuated
<1>42. CASE RecoverEvacuatedSync  BY <1>42 DEF RecoverEvacuatedSync
<1>43. QED
  BY <1>1, <1>2, <1>3, <1>4, <1>5, <1>6, <1>7, <1>8, <1>9, <1>10, <1>11, <1>12, <1>13, <1>14,
     <1>15, <1>16, <1>17, <1>18, <1>19, <1>20, <1>21, <1>22, <1>23, <1>24, <1>25, <1>26, <1>27, <1>28,
     <1>29, <1>30, <1>31, <1>32, <1>33, <1>34, <1>35, <1>36, <1>37, <1>38, <1>39, <1>40, <1>41, <1>42
  DEF Step, Apply, Publication, Cleanup, Recovery

\* A step of the holder never unmarks a commit that a caller knows of.
LEMMA StepCommit ==
    ASSUME Inv, Step, \A b \in Requests : ~Begin(b)
    PROVE  CommitInv'
<1> USE DEF CommitInv, PublishPCs, RollbackPCs, CleanupPCs, ApplyPCs, PreparePCs, ActivePCs,
        journalVars, manifestVars, holderVars, callerVars, historyVars, boundVars,
        At, Goto, GotoPath, Leave, Throw, Quiet, StepFrame, PublishFrame,
        SetPhase, SetFull, SyncTransactions, Acknowledge, PublishReturns,
        ThrowFromPublish, CallPublish
<1>a. CommitInv /\ PhaseInv /\ phase \in Phases /\ committed \in BOOLEAN
      /\ acked \in BOOLEAN /\ mode \in {"none", "apply", "inline", "recover"}
      BY DEF Inv, TypeOK
<1> USE <1>a DEF Phases, PhaseInv
<1>1. CASE Acquire  BY <1>1 DEF Acquire
<1>2. CASE Release  BY <1>2 DEF Release
<1>3. CASE MkdirSync  BY <1>3 DEF MkdirSync
<1>4. CASE WriteArtifacts  BY <1>4 DEF WriteArtifacts
<1>5. CASE PrepareSync  BY <1>5 DEF PrepareSync
<1>6. CASE Activate  BY <1>6 DEF Activate
<1>7. CASE ActivateSync  BY <1>7 DEF ActivateSync
<1>8. CASE Abandon  BY <1>8 DEF Abandon
<1>9. CASE Commit  BY <1>9 DEF Commit
<1>10. CASE CommitSync  BY <1>10 DEF CommitSync
<1>11. CASE ToCleanup  BY <1>11 DEF ToCleanup
<1>12. CASE ToCleanupSync  BY <1>12 DEF ToCleanupSync
<1>13. CASE RemoveArtifacts  BY <1>13 DEF RemoveArtifacts
<1>14. CASE RemoveDirectory  BY <1>14 DEF RemoveDirectory
<1>15. CASE RemoveDirectorySync  BY <1>15 DEF RemoveDirectorySync
<1>16. CASE Scan  BY <1>16 DEF Scan
<1>17. CASE RollbackStart  BY <1>17 DEF RollbackStart
<1>18. CASE NextRollback  BY <1>18 DEF NextRollback
<1>19. CASE VerifyCurrent  BY <1>19 DEF VerifyCurrent
<1>20. CASE ConfirmPublished  BY <1>20 DEF ConfirmPublished
<1>21. CASE RollbackPath  BY <1>21 DEF RollbackPath
<1>22. CASE RollbackVerify  BY <1>22 DEF RollbackVerify
<1>23. CASE PublishStart  BY <1>23 DEF PublishStart
<1>24. CASE OpenTemporary  BY <1>24 DEF OpenTemporary
<1>25. CASE WriteTemporary  BY <1>25 DEF WriteTemporary
<1>26. CASE Evacuate  BY <1>26 DEF Evacuate
<1>27. CASE EvacuateUnlink  BY <1>27 DEF EvacuateUnlink
<1>28. CASE CheckEvacuated  BY <1>28 DEF CheckEvacuated
<1>29. CASE CheckSync  BY <1>29 DEF CheckSync
<1>30. CASE LinkTemporary  BY <1>30 DEF LinkTemporary
<1>31. CASE UnlinkTemporary  BY <1>31 DEF UnlinkTemporary
<1>32. CASE PublishSync  BY <1>32 DEF PublishSync
<1>33. CASE UnlinkEvacuated  BY <1>33 DEF UnlinkEvacuated
<1>34. CASE EvacuatedSync  BY <1>34 DEF EvacuatedSync
<1>35. CASE Restore  BY <1>35 DEF Restore
<1>36. CASE RestoreUnlink  BY <1>36 DEF RestoreUnlink
<1>37. CASE RestoreSync  BY <1>37 DEF RestoreSync
<1>38. CASE Raise  BY <1>38 DEF Raise
<1>39. CASE RecoverTemporary  BY <1>39 DEF RecoverTemporary
<1>40. CASE RecoverTemporarySync  BY <1>40 DEF RecoverTemporarySync
<1>41. CASE RecoverEvacuated  BY <1>41 DEF RecoverEvacuated
<1>42. CASE RecoverEvacuatedSync  BY <1>42 DEF RecoverEvacuatedSync
<1>43. QED
  BY <1>1, <1>2, <1>3, <1>4, <1>5, <1>6, <1>7, <1>8, <1>9, <1>10, <1>11, <1>12, <1>13, <1>14,
     <1>15, <1>16, <1>17, <1>18, <1>19, <1>20, <1>21, <1>22, <1>23, <1>24, <1>25, <1>26, <1>27, <1>28,
     <1>29, <1>30, <1>31, <1>32, <1>33, <1>34, <1>35, <1>36, <1>37, <1>38, <1>39, <1>40, <1>41, <1>42
  DEF Step, Apply, Publication, Cleanup, Recovery

\* The slots of a publication, the bytes it writes and a torn file are well typed.
LEMMA SlotTypes ==
    ASSUME TypeOK
    PROVE  Source \in Slots /\ Evacuated \in Slots
BY DEF TypeOK, Slots, Source, Evacuated, EvacuatedName

\* What publishExactRegularFile writes is a revision.
LEMMA BytesType ==
    ASSUME TypeOK, k \in Paths
    PROVE  Bytes \in Content
BY DEF TypeOK, Bytes, Content

\* A file whose write has not finished is a file.
LEMMA TornType == \A i \in Inodes : [rev |-> Torn, ino |-> i] \in File
BY InodesAssumption DEF File, Content

\* Leaving the directories alone is a change of no path.
LEMMA SameDirsLocal ==
    ASSUME DirTypeOK, UNCHANGED dirVars, NEW p \in Paths
    PROVE  LocalChange(p)
BY DEF dirVars, DirTypeOK, LocalChange

\* The finally block of a publication touches the path it works on.
LEMMA DropLocal ==
    ASSUME DirTypeOK, NEW p \in Paths, DropTemporary(p)
    PROVE  LocalChange(p)
BY UnlinkLocal, SameDirsLocal DEF DropTemporary, Slots

\* The directories change at most at the path k, and only while its journal is
\* active.
DirStep ==
    \/ UNCHANGED dirVars
    \/ k \in batch /\ phase = "active" /\ LocalChange(k)

\* A step of the holder changes the directory of its own path, under its journal.
LEMMA StepDirs ==
    ASSUME Inv, Step, \A b \in Requests : ~Begin(b)
    PROVE  DirStep
<1> USE DEF DirStep, OnPath, PublishPCs, RollbackPCs, ActivePCs, At, ThrowFromPublish
<1>a. DirTypeOK /\ (pc \in OnPath => k \in batch) /\ (pc \in ActivePCs => phase = "active")
      /\ (k \in batch => k \in Paths) /\ TypeOK
      /\ {"tmp", "dest", "evac"} \subseteq Slots
      BY DEF Inv, TypeOK, PathInv, PhaseInv, Slots
<1> USE <1>a
<1>1. CASE Acquire  BY <1>1 DEF Acquire
<1>2. CASE Release  BY <1>2 DEF Release
<1>3. CASE MkdirSync  BY <1>3 DEF MkdirSync
<1>4. CASE WriteArtifacts  BY <1>4 DEF WriteArtifacts
<1>5. CASE PrepareSync  BY <1>5 DEF PrepareSync
<1>6. CASE Activate  BY <1>6 DEF Activate
<1>7. CASE ActivateSync  BY <1>7 DEF ActivateSync
<1>8. CASE Abandon  BY <1>8 DEF Abandon
<1>9. CASE Commit  BY <1>9 DEF Commit
<1>10. CASE CommitSync  BY <1>10 DEF CommitSync
<1>11. CASE ToCleanup  BY <1>11 DEF ToCleanup
<1>12. CASE ToCleanupSync  BY <1>12 DEF ToCleanupSync
<1>13. CASE RemoveArtifacts  BY <1>13 DEF RemoveArtifacts
<1>14. CASE RemoveDirectory  BY <1>14 DEF RemoveDirectory
<1>15. CASE RemoveDirectorySync  BY <1>15 DEF RemoveDirectorySync
<1>16. CASE Scan  BY <1>16 DEF Scan
<1>17. CASE RollbackStart  BY <1>17 DEF RollbackStart
<1>18. CASE NextRollback  BY <1>18 DEF NextRollback
<1>19. CASE VerifyCurrent  BY <1>19 DEF VerifyCurrent
<1>20. CASE ConfirmPublished  BY <1>20 DEF ConfirmPublished
<1>21. CASE RollbackPath  BY <1>21 DEF RollbackPath
<1>22. CASE RollbackVerify  BY <1>22 DEF RollbackVerify
<1>23. CASE PublishStart  BY <1>23 DEF PublishStart
<1>24. CASE OpenTemporary  BY SetEntryLocal, TornType, <1>24 DEF OpenTemporary, IsFreshInode
<1>25. CASE WriteTemporary  BY WriteAndSyncFileLocal, BytesType, <1>25 DEF WriteTemporary
<1>26. CASE Evacuate  BY RenameLocal, LinkLocal, DropLocal, SlotTypes, <1>26 DEF Evacuate
<1>27. CASE EvacuateUnlink  BY UnlinkLocal, SlotTypes, <1>27 DEF EvacuateUnlink
<1>28. CASE CheckEvacuated  BY <1>28 DEF CheckEvacuated
<1>29. CASE CheckSync  BY SyncDirectoryLocal, <1>29 DEF CheckSync
<1>30. CASE LinkTemporary  BY LinkLocal, DropLocal, SlotTypes, <1>30 DEF LinkTemporary
<1>31. CASE UnlinkTemporary  BY UnlinkLocal, DropLocal, SlotTypes, <1>31 DEF UnlinkTemporary
<1>32. CASE PublishSync  BY SyncDirectoryLocal, <1>32 DEF PublishSync
<1>33. CASE UnlinkEvacuated  BY UnlinkLocal, SlotTypes, <1>33 DEF UnlinkEvacuated
<1>34. CASE EvacuatedSync  BY SyncDirectoryLocal, <1>34 DEF EvacuatedSync
<1>35. CASE Restore  BY RenameLocal, LinkLocal, DropLocal, SlotTypes, <1>35 DEF Restore
<1>36. CASE RestoreUnlink  BY UnlinkLocal, SlotTypes, <1>36 DEF RestoreUnlink
<1>37. CASE RestoreSync  BY SyncDirectoryLocal, <1>37 DEF RestoreSync
<1>38. CASE Raise  BY DropLocal, <1>38 DEF Raise
<1>39. CASE RecoverTemporary  BY UnlinkLocal, SlotTypes, <1>39 DEF RecoverTemporary
<1>40. CASE RecoverTemporarySync  BY SyncDirectoryLocal, <1>40 DEF RecoverTemporarySync
<1>41. CASE RecoverEvacuated  BY UnlinkLocal, SlotTypes, <1>41 DEF RecoverEvacuated
<1>42. CASE RecoverEvacuatedSync  BY SyncDirectoryLocal, <1>42 DEF RecoverEvacuatedSync
<1>43. QED
  BY <1>1, <1>2, <1>3, <1>4, <1>5, <1>6, <1>7, <1>8, <1>9, <1>10, <1>11, <1>12, <1>13, <1>14,
     <1>15, <1>16, <1>17, <1>18, <1>19, <1>20, <1>21, <1>22, <1>23, <1>24, <1>25, <1>26, <1>27, <1>28,
     <1>29, <1>30, <1>31, <1>32, <1>33, <1>34, <1>35, <1>36, <1>37, <1>38, <1>39, <1>40, <1>41, <1>42
  DEF Step, Apply, Publication, Cleanup, Recovery

\* What a step of the holder may do to the journal and the commit mark, and which
\* steps reach the commit rename and the end of a rollback.
StepEffect ==
    /\ UNCHANGED <<batch, old, new, touched, losses, edits>>
    /\ pc = "commit" => Commit
    /\ pc = "toCleanup" => ToCleanup
    /\ pc # "commit" => UNCHANGED committed
    /\ acked' # acked => acked' = TRUE /\ pc \in CleanupPCs /\ mode = "apply"
    /\ pc' = "commit" => ConfirmPublished
    /\ pc' = "toCleanup" /\ phase' = "active" => RollbackVerify
    /\ \/ UNCHANGED <<phase, committed>>
       \/ pc = "commit" /\ committed' = TRUE
       \/ pc = "toCleanup"
       \/ phase' = "active"
       \/ phase # "active"

\* Every step of the holder has one of these effects.
LEMMA StepEffects ==
    ASSUME Inv, Step, \A b \in Requests : ~Begin(b)
    PROVE  StepEffect
<1> USE DEF StepEffect, PublishPCs, RollbackPCs, CleanupPCs, ApplyPCs, PreparePCs, ActivePCs,
        journalVars, manifestVars, holderVars, callerVars, historyVars, boundVars,
        At, Goto, GotoPath, Leave, Throw, Quiet, StepFrame, PublishFrame,
        SetPhase, SetFull, SyncTransactions, Acknowledge, PublishReturns,
        ThrowFromPublish, CallPublish
<1>a. PhaseInv /\ phase \in Phases  BY DEF Inv, TypeOK
<1> USE <1>a DEF Phases, PhaseInv
<1>1. CASE Acquire  BY <1>1 DEF Acquire
<1>2. CASE Release  BY <1>2 DEF Release
<1>3. CASE MkdirSync  BY <1>3 DEF MkdirSync
<1>4. CASE WriteArtifacts  BY <1>4 DEF WriteArtifacts
<1>5. CASE PrepareSync  BY <1>5 DEF PrepareSync
<1>6. CASE Activate  BY <1>6 DEF Activate
<1>7. CASE ActivateSync  BY <1>7 DEF ActivateSync
<1>8. CASE Abandon  BY <1>8 DEF Abandon
<1>9. CASE Commit  BY <1>9 DEF Commit
<1>10. CASE CommitSync  BY <1>10 DEF CommitSync
<1>11. CASE ToCleanup  BY <1>11 DEF ToCleanup
<1>12. CASE ToCleanupSync  BY <1>12 DEF ToCleanupSync
<1>13. CASE RemoveArtifacts  BY <1>13 DEF RemoveArtifacts
<1>14. CASE RemoveDirectory  BY <1>14 DEF RemoveDirectory
<1>15. CASE RemoveDirectorySync  BY <1>15 DEF RemoveDirectorySync
<1>16. CASE Scan  BY <1>16 DEF Scan
<1>17. CASE RollbackStart  BY <1>17 DEF RollbackStart
<1>18. CASE NextRollback  BY <1>18 DEF NextRollback
<1>19. CASE VerifyCurrent  BY <1>19 DEF VerifyCurrent
<1>20. CASE ConfirmPublished  BY <1>20 DEF ConfirmPublished
<1>21. CASE RollbackPath  BY <1>21 DEF RollbackPath
<1>22. CASE RollbackVerify  BY <1>22 DEF RollbackVerify
<1>23. CASE PublishStart  BY <1>23 DEF PublishStart
<1>24. CASE OpenTemporary  BY <1>24 DEF OpenTemporary
<1>25. CASE WriteTemporary  BY <1>25 DEF WriteTemporary
<1>26. CASE Evacuate  BY <1>26 DEF Evacuate
<1>27. CASE EvacuateUnlink  BY <1>27 DEF EvacuateUnlink
<1>28. CASE CheckEvacuated  BY <1>28 DEF CheckEvacuated
<1>29. CASE CheckSync  BY <1>29 DEF CheckSync
<1>30. CASE LinkTemporary  BY <1>30 DEF LinkTemporary
<1>31. CASE UnlinkTemporary  BY <1>31 DEF UnlinkTemporary
<1>32. CASE PublishSync  BY <1>32 DEF PublishSync
<1>33. CASE UnlinkEvacuated  BY <1>33 DEF UnlinkEvacuated
<1>34. CASE EvacuatedSync  BY <1>34 DEF EvacuatedSync
<1>35. CASE Restore  BY <1>35 DEF Restore
<1>36. CASE RestoreUnlink  BY <1>36 DEF RestoreUnlink
<1>37. CASE RestoreSync  BY <1>37 DEF RestoreSync
<1>38. CASE Raise  BY <1>38 DEF Raise
<1>39. CASE RecoverTemporary  BY <1>39 DEF RecoverTemporary
<1>40. CASE RecoverTemporarySync  BY <1>40 DEF RecoverTemporarySync
<1>41. CASE RecoverEvacuated  BY <1>41 DEF RecoverEvacuated
<1>42. CASE RecoverEvacuatedSync  BY <1>42 DEF RecoverEvacuatedSync
<1>43. QED
  BY <1>1, <1>2, <1>3, <1>4, <1>5, <1>6, <1>7, <1>8, <1>9, <1>10, <1>11, <1>12, <1>13, <1>14,
     <1>15, <1>16, <1>17, <1>18, <1>19, <1>20, <1>21, <1>22, <1>23, <1>24, <1>25, <1>26, <1>27, <1>28,
     <1>29, <1>30, <1>31, <1>32, <1>33, <1>34, <1>35, <1>36, <1>37, <1>38, <1>39, <1>40, <1>41, <1>42
  DEF Step, Apply, Publication, Cleanup, Recovery

-------------------------------------------------------------------------------
(* The other steps: a new batch, and the environment.                         *)

\* A new batch starts from the canonical files as they are: every part of the
\* invariant holds of it.
LEMMA BeginInv ==
    ASSUME Inv, NEW b \in Requests, Begin(b)
    PROVE  Inv' /\ AtomicInv'
<1> DEFINE own(d) == [s \in Slots |-> IF s = "dest" THEN d[s] ELSE NoFile]
<1>1. \A p \in Paths : cur[p] \in Dir /\ dur[p] \subseteq Dir
      BY DEF Inv, TypeOK, DirTypeOK
<1>2. \A d \in Dir : own(d) \in Dir  BY NoFileType DEF Dir
<1>3. /\ cur' = [p \in Paths |-> own(cur[p])]
      /\ dur' = [p \in Paths |-> {own(d) : d \in dur[p]}]
      BY DEF Begin
<1>4. \A p \in Paths : Visible(p)' = Visible(p)
      BY <1>1, <1>3 DEF Visible, Slots
<1>5. \A p \in Paths : Visible(p) \in Content
      BY <1>1 DEF Visible, Dir, File, Slots
<1> HIDE DEF own
<1>6. DirTypeOK'
  <2>1. cur' \in [Paths -> Dir]  BY <1>1, <1>2, <1>3
  <2>2. \A p \in Paths : {own(d) : d \in dur[p]} \in SUBSET Dir  BY <1>1, <1>2
  <2>3. dur' \in [Paths -> SUBSET Dir]  BY <1>3, <2>2
  <2>4. QED  BY <2>1, <2>3 DEF DirTypeOK
<1>7. ControlTypeOK'
  <2>1. /\ batch' \subseteq Paths
        /\ old' \in [Paths -> Content]
        /\ \A p \in DOMAIN b : b[p] \in Content
        BY <1>5, RequestsAssumption DEF Begin, Content
  <2>2. new' \in [Paths -> Content]  BY <1>5, <2>1 DEF Begin
  <2>3. QED
        BY <2>1, <2>2 DEF Begin, Inv, TypeOK, ControlTypeOK, Phases, PCs, ApplyPCs, Content
<1>8. FlagTypeOK'  BY Zenon DEF Begin, Inv, TypeOK, FlagTypeOK
<1>9. TypeOK'  BY <1>6, <1>7, <1>8 DEF TypeOK, ControlTypeOK, FlagTypeOK
<1>10. PathInv'  BY DEF Begin, PathInv, OnPath, PublishPCs
<1>11. PhaseInv'
       BY DEF Begin, PhaseInv, PublishPCs, RollbackPCs, ApplyPCs, PreparePCs, ActivePCs
<1>12. CommitInv'  BY DEF Begin, CommitInv, PublishPCs, CleanupPCs
<1>13. AtomicInv'
       BY <1>4 DEF Begin, AtomicInv, Decided, Exempt
<1>14. QED  BY <1>9, <1>10, <1>11, <1>12, <1>13 DEF Inv

\* Leaving the lease, alone, keeps every part about the holder.
LEMMA LeaveInv ==
    ASSUME Inv, NEW v \in {"none", "ambiguous", "malformed", "error"}, Leave(v),
           DirTypeOK', UNCHANGED <<journalVars, manifestVars, historyVars>>,
           batches' \in Nat, kills' \in Nat, losses' \in Nat,
           edits' \in Nat, faults' \in Nat
    PROVE  Inv'
<1>1. ControlTypeOK'
      BY PathsAssumption, NoFileType
      DEF Leave, Inv, TypeOK, ControlTypeOK, PCs, Phases,
          journalVars, manifestVars, historyVars
<1>2. FlagTypeOK'
      BY Zenon DEF Leave, Inv, TypeOK, FlagTypeOK, journalVars, historyVars
<1>3. TypeOK'  BY <1>1, <1>2 DEF TypeOK, ControlTypeOK, FlagTypeOK
<1>4. PathInv'  BY DEF Leave, PathInv, OnPath, PublishPCs
<1>5. PhaseInv'
      BY DEF Leave, PhaseInv, PublishPCs, RollbackPCs, ApplyPCs, PreparePCs, ActivePCs
<1>6. CommitInv'
      BY DEF Inv, Leave, CommitInv, PublishPCs, CleanupPCs, ApplyPCs, journalVars, historyVars
<1>7. QED  BY <1>3, <1>4, <1>5, <1>6 DEF Inv

\* A kill keeps the files and the journal; only the holder is gone.
LEMMA KillInv ==
    ASSUME Inv, AtomicInv, Kill
    PROVE  Inv' /\ AtomicInv'
<1>1. Inv'
  <2>1. DirTypeOK'  BY DEF Inv, TypeOK, DirTypeOK, Kill, dirVars
  <2>2. /\ Leave("none") /\ UNCHANGED <<journalVars, manifestVars, historyVars>>
        /\ batches' \in Nat /\ kills' \in Nat /\ losses' \in Nat
        /\ edits' \in Nat /\ faults' \in Nat
        BY DEF Inv, TypeOK, Kill
  <2>3. QED  BY <2>1, <2>2, LeaveInv
<1>2. AtomicInv'
      BY DEF Kill, Leave, AtomicInv, Exempt, Visible, Decided, dirVars, journalVars,
             manifestVars, historyVars
<1>3. QED  BY <1>1, <1>2

\* A power loss brings back an older journal and older directories.
LEMMA PowerLossInv ==
    ASSUME Inv, AtomicInv, PowerLoss
    PROVE  Inv' /\ AtomicInv'
<1>1. DirTypeOK'  BY LoseUnsyncedType DEF Inv, TypeOK, PowerLoss
<1>2. ControlTypeOK'
      BY PathsAssumption, NoFileType
      DEF PowerLoss, Leave, Inv, TypeOK, ControlTypeOK, PCs, Phases, manifestVars, Content
<1>3. FlagTypeOK'
  <2>1. full' \in BOOLEAN  BY Zenon DEF PowerLoss, Inv, TypeOK
  <2>2. durFull' \subseteq BOOLEAN  BY <2>1, Zenon DEF PowerLoss
  <2>3. residue' \in BOOLEAN /\ acked' \in BOOLEAN
        BY Zenon DEF PowerLoss, Leave, Inv, TypeOK
  <2>4. committed' \in BOOLEAN  BY Zenon DEF PowerLoss
  <2>5. QED  BY <2>1, <2>2, <2>3, <2>4 DEF FlagTypeOK
<1>4. TypeOK'  BY <1>1, <1>2, <1>3 DEF TypeOK, ControlTypeOK, FlagTypeOK
<1>5. PathInv'  BY DEF PowerLoss, Leave, PathInv, OnPath, PublishPCs
<1>6. PhaseInv'
      BY DEF PowerLoss, Leave, PhaseInv, PublishPCs, RollbackPCs, ApplyPCs,
             PreparePCs, ActivePCs
<1>7. CommitInv'
      BY DEF Inv, PowerLoss, Leave, CommitInv, PublishPCs, CleanupPCs, ApplyPCs
<1>8. AtomicInv'
  <2>1. losses' # 0  BY DEF PowerLoss, Inv, TypeOK
  <2>2. QED  BY <2>1 DEF PowerLoss, manifestVars, AtomicInv
<1>9. QED  BY <1>4, <1>5, <1>6, <1>7, <1>8 DEF Inv

\* An operator edit changes one canonical file, and its path is touched.
LEMMA OperatorEditInv ==
    ASSUME Inv, AtomicInv, NEW p \in Paths, NEW r \in Revs \cup {Nil}, OperatorEdit(p, r)
    PROVE  Inv' /\ AtomicInv'
<1>1. LocalChange(p)
  <2>1. DirTypeOK /\ "dest" \in Slots  BY DEF Inv, TypeOK, Slots
  <2>2. CASE Unlink(p, "dest")  BY <2>1, <2>2, UnlinkLocal
  <2>3. CASE \E i \in Inodes : SetEntry(p, "dest", [rev |-> r, ino |-> i])
    <3>1. PICK i \in Inodes : SetEntry(p, "dest", [rev |-> r, ino |-> i])  BY <2>3
    <3>2. [rev |-> r, ino |-> i] \in File  BY InodesAssumption DEF File, Content
    <3>3. QED  BY <2>1, <3>1, <3>2, SetEntryLocal
  <2>4. QED  BY <2>2, <2>3 DEF OperatorEdit
<1>2. TypeOK'
  <2>1. foreign' \in [Paths -> Content]
        BY DEF OperatorEdit, Inv, TypeOK, Content
  <2>2. ControlTypeOK'
        BY <2>1 DEF OperatorEdit, Inv, TypeOK, ControlTypeOK, journalVars, manifestVars,
                    holderVars, callerVars
  <2>3. FlagTypeOK'
        BY Zenon DEF OperatorEdit, Inv, TypeOK, FlagTypeOK, journalVars, callerVars
  <2>4. QED  BY <1>1, <2>2, <2>3 DEF LocalChange, TypeOK, ControlTypeOK, FlagTypeOK
<1>3. PathInv' /\ PhaseInv' /\ CommitInv'
      BY DEF Inv, OperatorEdit, PathInv, PhaseInv, CommitInv, journalVars, manifestVars,
             holderVars, callerVars
<1>4. Exempt \cup {p} \subseteq Exempt'
      BY DEF OperatorEdit, Exempt, Inv, TypeOK
<1>5. AtomicInv'
      BY <1>1, <1>4 DEF OperatorEdit, AtomicInv, LocalChange, Visible, Decided, Inv, TypeOK,
                  journalVars, manifestVars, holderVars
<1>6. QED  BY <1>2, <1>3, <1>5 DEF Inv

\* Throwing, alone, keeps every part about the holder.
LEMMA ThrowInv ==
    ASSUME Inv, Throw("error"), pc \notin {"idle", "callback", "abandon", "mkdirSync"},
           DirTypeOK', UNCHANGED <<journalVars, manifestVars, historyVars>>,
           batches' \in Nat, kills' \in Nat, losses' \in Nat,
           edits' \in Nat, faults' \in Nat
    PROVE  Inv'
<1>1. CASE Leave("error")  BY <1>1, LeaveInv
<1>2. CASE /\ mode = "apply" /\ phase = "active"
           /\ pc' = "rbStart" /\ mode' = "inline" /\ src' = "none" /\ exp' = NoFile
           /\ UNCHANGED k /\ Quiet
  <2>1. ControlTypeOK'
        BY <1>2, PathsAssumption, NoFileType
        DEF Inv, TypeOK, ControlTypeOK, PCs, Phases, RollbackPCs, Quiet, callerVars,
            journalVars, manifestVars, historyVars
  <2>2. FlagTypeOK'
        BY <1>2, Zenon DEF Inv, TypeOK, FlagTypeOK, Quiet, callerVars, journalVars, historyVars
  <2>3. TypeOK'  BY <2>1, <2>2 DEF TypeOK, ControlTypeOK, FlagTypeOK
  <2>4. PathInv'  BY <1>2 DEF PathInv, OnPath, PublishPCs
  <2>5. PhaseInv'
        BY <1>2 DEF PhaseInv, PublishPCs, RollbackPCs, ApplyPCs, PreparePCs, ActivePCs,
                    journalVars
  <2>6. CommitInv'
        BY <1>2 DEF Inv, CommitInv, PublishPCs, CleanupPCs, ApplyPCs, Quiet, callerVars,
                    journalVars, historyVars
  <2>7. QED  BY <2>3, <2>4, <2>5, <2>6 DEF Inv
<1>3. CASE mode = "apply" /\ phase = "prepare" /\ Goto("abandon") /\ Quiet
  <2>1. ControlTypeOK'
        BY <1>3 DEF Inv, TypeOK, ControlTypeOK, PCs, Phases, ApplyPCs, Goto, Quiet, callerVars,
            journalVars, manifestVars, historyVars
  <2>2. FlagTypeOK'
        BY <1>3, Zenon DEF Inv, TypeOK, FlagTypeOK, Quiet, callerVars, journalVars, historyVars
  <2>3. TypeOK'  BY <2>1, <2>2 DEF TypeOK, ControlTypeOK, FlagTypeOK
  <2>4. PathInv'  BY <1>3 DEF PathInv, OnPath, PublishPCs, Goto
  <2>5. PhaseInv'
        BY <1>3 DEF PhaseInv, PublishPCs, RollbackPCs, ApplyPCs, PreparePCs, ActivePCs,
                    Goto, journalVars
  <2>6. CommitInv'
        BY <1>3 DEF Inv, CommitInv, PublishPCs, CleanupPCs, ApplyPCs, Goto, Quiet, callerVars,
                    journalVars, historyVars
  <2>7. QED  BY <2>3, <2>4, <2>5, <2>6 DEF Inv
<1>4. QED  BY <1>1, <1>2, <1>3 DEF Throw

\* A failed call of a publication leaves the directories as they are or drops or
\* completes the temporary of its own path; any other leaves them alone.
LEMMA CallFailsDirs ==
    ASSUME Inv, CallFails
    PROVE  DirStep
<1>1. /\ DirTypeOK /\ TypeOK /\ "tmp" \in Slots
      /\ pc \in PublishPCs => k \in batch /\ k \in Paths /\ phase = "active"
      BY DEF Inv, TypeOK, PathInv, PhaseInv, OnPath, ActivePCs, Slots
<1>2. CASE UNCHANGED dirVars  BY <1>2 DEF DirStep
<1>3. CASE pc = "write" /\ WriteAndSyncFile(k, "tmp", Bytes)
      BY <1>1, <1>3, WriteAndSyncFileLocal, BytesType DEF DirStep, PublishPCs
<1>4. CASE pc \in PublishPCs /\ DropTemporary(k)
      BY <1>1, <1>4, DropLocal DEF DirStep
<1>5. QED  BY <1>2, <1>3, <1>4 DEF CallFails

\* A failed call leaves the journal and the commit mark alone and never reaches
\* the commit rename.
LEMMA CallFailsInv ==
    ASSUME Inv, AtomicInv, CallFails
    PROVE  Inv' /\ AtomicInv'
<1>1. DirStep  BY CallFailsDirs
<1>2. DirTypeOK'  BY <1>1 DEF DirStep, LocalChange, Inv, TypeOK, DirTypeOK, dirVars
<1>3. /\ UNCHANGED <<journalVars, manifestVars, historyVars>>
      /\ batches' \in Nat /\ kills' \in Nat /\ losses' \in Nat
      /\ edits' \in Nat /\ faults' \in Nat
      BY DEF CallFails, Inv, TypeOK
<1>4. Inv'
  <2>1. CASE Leave("error")  BY <1>2, <1>3, <2>1, LeaveInv
  <2>2. CASE Throw("error") /\ pc \notin {"idle", "callback", "abandon", "mkdirSync"}
        BY <1>2, <1>3, <2>2, ThrowInv
  <2>3. CASE Acknowledge /\ pc \in CleanupPCs /\ mode = "apply"
    <3>1. ControlTypeOK'
          BY <1>3, <2>3, PathsAssumption
          DEF Inv, TypeOK, ControlTypeOK, PCs, Phases, Acknowledge,
              journalVars, manifestVars, historyVars
    <3>2. FlagTypeOK'
          BY <1>3, <2>3, Zenon
          DEF Inv, TypeOK, FlagTypeOK, Acknowledge, journalVars, historyVars
    <3>3. TypeOK'  BY <1>2, <3>1, <3>2 DEF TypeOK, ControlTypeOK, FlagTypeOK
    <3>4. PathInv'  BY <2>3 DEF PathInv, OnPath, PublishPCs, Acknowledge
    <3>5. PhaseInv'
          BY <1>3, <2>3
          DEF Inv, PhaseInv, CommitInv, PublishPCs, RollbackPCs, ApplyPCs, CleanupPCs,
              PreparePCs, ActivePCs, Acknowledge, journalVars
    <3>6. CommitInv'
          BY <1>3, <2>3
          DEF Inv, CommitInv, PublishPCs, CleanupPCs, ApplyPCs, Acknowledge,
              journalVars, historyVars
    <3>7. QED  BY <3>3, <3>4, <3>5, <3>6 DEF Inv
  <2>4. QED  BY <2>1, <2>2, <2>3 DEF CallFails, PublishPCs
<1>5. pc' \notin {"commit", "toCleanup"}
      BY DEF CallFails, Throw, Leave, Goto, Acknowledge
<1>6. QED
      BY <1>1, <1>3, <1>4, <1>5
      DEF AtomicInv, Exempt, DirStep, LocalChange, Visible, Decided, CallFails, dirVars,
          journalVars, manifestVars, historyVars, Inv, TypeOK

-------------------------------------------------------------------------------
(* The invariant, and the theorems.                                           *)

\* A step of the holder other than Begin keeps the invariant.
LEMMA StepInv ==
    ASSUME Inv, Step, \A b \in Requests : ~Begin(b)
    PROVE  Inv'
<1>1. DirTypeOK'
      BY StepDirs DEF DirStep, LocalChange, Inv, TypeOK, DirTypeOK, dirVars
<1>2. TypeOK'  BY <1>1, StepTypes, StepFlags DEF TypeOK, ControlTypeOK, FlagTypeOK
<1>3. QED  BY <1>2, StepPath, StepPhase, StepCommit DEF Inv

\* A step of the holder other than Begin keeps the files and the journal in step:
\* publication is confirmed before the commit rename, the rollback before the
\* journal goes.
LEMMA StepAtomic ==
    ASSUME Inv, AtomicInv, Step, \A b \in Requests : ~Begin(b)
    PROVE  AtomicInv'
<1>1. StepEffect  BY StepEffects
<1>2. DirStep  BY StepDirs
<1>3. \A p \in Paths : p # k \/ phase # "active" \/ k \notin batch =>
                         Visible(p)' = Visible(p)
      BY <1>2 DEF DirStep, LocalChange, Visible, dirVars
<1>4. /\ UNCHANGED <<batch, old, new, losses>> /\ Exempt' = Exempt
      /\ \A p \in Paths \ batch : old[p] = new[p]
      BY <1>1 DEF StepEffect, AtomicInv, Exempt
<1>5. SUFFICES ASSUME losses = 0
      PROVE /\ phase' # "active" => \A p \in Paths \ Exempt : Visible(p)' = Decided(p)'
            /\ \A p \in Paths \ (batch \cup Exempt) : Visible(p)' = old[p]
            /\ pc' = "commit" => \A p \in Paths \ Exempt : Visible(p)' = new[p]
            /\ pc' = "toCleanup" /\ phase' = "active" =>
                  \A p \in Paths \ Exempt : Visible(p)' = old[p]
      BY <1>4 DEF AtomicInv
<1>6. \A p \in Paths \ (batch \cup Exempt) : Visible(p)' = old[p]
      BY <1>3, <1>5 DEF AtomicInv
<1>7. ASSUME pc' = "commit" PROVE \A p \in Paths \ Exempt : Visible(p)' = new[p]
  <2>1. ConfirmPublished  BY <1>1, <1>7 DEF StepEffect
  <2>2. /\ \A p \in batch : Visible(p) = new[p]
        /\ \A p \in Paths : Visible(p)' = Visible(p)
        BY <1>7, <2>1 DEF ConfirmPublished, IsCurrent, Visible, dirVars, Throw, Goto, Leave
  <2>3. QED  BY <1>4, <1>6, <2>2
<1>8. ASSUME pc' = "toCleanup", phase' = "active"
      PROVE  \A p \in Paths \ Exempt : Visible(p)' = old[p]
  <2>1. RollbackVerify  BY <1>1, <1>8 DEF StepEffect
  <2>2. /\ \A p \in batch : Visible(p) = old[p]
        /\ \A p \in Paths : Visible(p)' = Visible(p)
        BY <1>8, <2>1 DEF RollbackVerify, IsCurrent, Visible, dirVars, Leave
  <2>3. QED  BY <1>6, <2>2
<1>9. ASSUME phase' # "active"
      PROVE  \A p \in Paths \ Exempt : Visible(p)' = Decided(p)'
  <2>1. CASE phase # "active"
    <3>1. committed' = committed
          BY <1>1, <1>9, <2>1 DEF StepEffect, Inv, PhaseInv, ActivePCs
    <3>2. QED  BY <1>3, <1>4, <1>5, <2>1, <3>1 DEF AtomicInv, Decided
  <2>2. CASE phase = "active" /\ pc = "commit"
    <3>1. Commit  BY <1>1, <2>2 DEF StepEffect
    <3>2. \A p \in Paths : Visible(p)' = Visible(p)  BY <3>1 DEF Commit, Visible, dirVars
    <3>3. QED  BY <1>4, <1>5, <2>2, <3>1, <3>2 DEF Commit, AtomicInv, Decided
  <2>3. CASE phase = "active" /\ pc = "toCleanup"
    <3>1. committed' = committed /\ ~committed
          BY <1>1, <1>9, <2>3 DEF StepEffect, Inv, CommitInv
    <3>2. \A p \in Paths \ Exempt : Visible(p) = old[p]
          BY <1>5, <2>3 DEF AtomicInv
    <3>3. UNCHANGED dirVars  BY <1>1, <2>3 DEF StepEffect, ToCleanup
    <3>4. QED  BY <1>4, <3>1, <3>2, <3>3 DEF Visible, Decided, dirVars
  <2>4. CASE phase = "active" /\ pc \notin {"commit", "toCleanup"}
        BY <1>1, <1>9, <2>4 DEF StepEffect
  <2>5. QED  BY <2>1, <2>2, <2>3, <2>4
<1>10. QED  BY <1>6, <1>7, <1>8, <1>9

\* The initial states satisfy the invariant.
LEMMA InitInv ==
    ASSUME Init
    PROVE  Inv /\ AtomicInv
<1>1. PICK canonical \in Initials :
        DirInit(canonical) /\ old = canonical /\ new = canonical
      BY DEF Init
<1>2. canonical \in [Paths -> Content] /\ \A p \in Paths : canonical[p] \in Revs \cup {Nil}
      BY InitialsAssumption DEF Content
<1>3. \A p \in Paths : cur[p]["dest"].rev = canonical[p]
      BY <1>1, <1>2 DEF DirInit, Slots, NoFile
<1>4. DirTypeOK
  <2>1. \A p \in Paths : [rev |-> canonical[p], ino |-> 1] \in File
        BY <1>2 DEF File
  <2>2. cur \in [Paths -> Dir]  BY <1>1, <2>1, NoFileType DEF DirInit, Dir
  <2>3. dur \in [Paths -> SUBSET Dir]  BY <1>1, <2>2 DEF DirInit
  <2>4. QED  BY <2>2, <2>3 DEF DirTypeOK
<1>5. ControlTypeOK
      BY <1>1, <1>2, PathsAssumption, NoFileType
      DEF Init, ControlTypeOK, Phases, PCs, Content
<1>6. FlagTypeOK  BY Zenon DEF Init, FlagTypeOK
<1>7. TypeOK  BY <1>4, <1>5, <1>6 DEF TypeOK, ControlTypeOK, FlagTypeOK
<1>8. PathInv  BY DEF Init, PathInv, OnPath, PublishPCs
<1>9. PhaseInv
      BY DEF Init, PhaseInv, PublishPCs, RollbackPCs, ApplyPCs, PreparePCs, ActivePCs
<1>10. CommitInv  BY DEF Init, CommitInv, PublishPCs, CleanupPCs, ApplyPCs
<1>11. AtomicInv  BY <1>1, <1>3 DEF Init, AtomicInv, Visible, Decided
<1>12. QED  BY <1>7, <1>8, <1>9, <1>10, <1>11 DEF Inv

(* The refinement of AtomicBatch.                                             *)

\* While nobody edits a file and the power stays on, what a callback sees is what
\* the journal decided.
LEMMA StoreIsDecided ==
    ASSUME Inv, AtomicInv, edits = 0, losses = 0
    PROVE  [p \in Paths |-> IF pc = "callback" THEN Visible(p) ELSE Decided(p)]
               = [p \in Paths |-> Decided(p)]
BY DEF Inv, PhaseInv, AtomicInv, Exempt

\* A step that does not begin a batch leaves what it asks for alone and changes at
\* most one of the commit mark and the acknowledgement, the mark first.
Progress ==
    /\ UNCHANGED <<old, new>>
    /\ \/ UNCHANGED <<committed, acked>>
       \/ ~committed /\ committed' = TRUE /\ acked = FALSE /\ acked' = FALSE
       \/ committed /\ UNCHANGED committed /\ acked' = TRUE

\* Every step of the holder but Begin, and every failing call and kill, is one.
LEMMA StepsProgress ==
    ASSUME Inv, \/ Step /\ \A b \in Requests : ~Begin(b)
                \/ CallFails \/ Kill
    PROVE  Progress
<1>1. CASE Step /\ \A b \in Requests : ~Begin(b)
  <2>1. StepEffect  BY <1>1, StepEffects
  <2>2. CASE pc = "commit"
    <3>1. Commit  BY <2>1, <2>2 DEF StepEffect
    <3>2. acked = FALSE /\ ~committed
          BY <2>2 DEF Inv, TypeOK, CommitInv, PhaseInv, ApplyPCs, ActivePCs
    <3>3. QED  BY <2>1, <3>1, <3>2 DEF Commit, StepEffect, Progress, Quiet, callerVars
  <2>3. CASE pc # "commit"
        BY <2>1, <2>3 DEF StepEffect, Progress, Inv, CommitInv
  <2>4. QED  BY <2>2, <2>3
<1>2. CASE CallFails
      BY <1>2 DEF CallFails, Progress, Throw, Leave, Goto, Quiet, Acknowledge, Inv, CommitInv,
             manifestVars, historyVars, callerVars
<1>3. CASE Kill  BY <1>3 DEF Kill, Leave, Progress, manifestVars, historyVars
<1>4. QED  BY <1>1, <1>2, <1>3

\* A new batch is a Begin of AtomicBatch.
LEMMA BeginRefines ==
    ASSUME Inv, AtomicInv, edits = 0, losses = 0, NEW b \in Requests, Begin(b)
    PROVE  Abstract!Begin(b)
<1> DEFINE seen == [p \in Paths |-> IF pc = "callback" THEN Visible(p) ELSE Decided(p)]
<1>1. pc = "callback" /\ pc' = "mkdirSync"  BY DEF Begin, At
<1>2. seen = [p \in Paths |-> Visible(p)]  BY <1>1
<1>3. /\ old' = [p \in Paths |-> Visible(p)] /\ committed' = FALSE /\ acked' = FALSE
      /\ new' = [p \in Paths |-> IF p \in DOMAIN b THEN b[p] ELSE Visible(p)]
      BY DEF Begin
<1>4. seen' = seen  BY <1>1, <1>2, <1>3 DEF Decided
<1>5. new' = [p \in Paths |-> IF p \in DOMAIN b THEN b[p] ELSE seen[p]]  BY <1>2, <1>3
<1>6. QED  BY <1>2, <1>3, <1>4, <1>5 DEF Abstract!Begin

\* Any other step is a Commit or a Return of AtomicBatch, or changes nothing of it.
LEMMA ProgressRefines ==
    ASSUME Inv, AtomicInv, Inv', AtomicInv', edits = 0, losses = 0, edits' = 0, losses' = 0,
           Progress
    PROVE  [Abstract!Next]_(Abstract!batchVars)
<1> DEFINE seen == [p \in Paths |-> IF pc = "callback" THEN Visible(p) ELSE Decided(p)]
<1>1. seen = [p \in Paths |-> Decided(p)]  BY StoreIsDecided
<1>2. seen' = [p \in Paths |-> Decided(p)']  BY DEF Inv, PhaseInv, AtomicInv, Exempt
<1>3. CASE UNCHANGED <<committed, acked>>
      BY <1>1, <1>2, <1>3 DEF Progress, Decided, Abstract!batchVars
<1>4. CASE ~committed /\ committed' = TRUE /\ acked = FALSE /\ acked' = FALSE
  <2>1. new = [p \in Paths |-> new[p]]  BY DEF Inv, TypeOK
  <2>2. seen' = new  BY <1>2, <1>4, <2>1 DEF Progress, Decided
  <2>3. QED  BY <1>4, <2>2 DEF Progress, Abstract!Commit, Abstract!Next
<1>5. CASE committed /\ UNCHANGED committed /\ ~acked /\ acked' = TRUE
      BY <1>1, <1>2, <1>5 DEF Progress, Decided, Abstract!Return, Abstract!Next
<1>6. QED  BY <1>3, <1>4, <1>5 DEF Progress, Inv, TypeOK

\* Every step, the environment's included, keeps the invariant.
LEMMA NextInv ==
    ASSUME Inv, AtomicInv, [Next]_vars
    PROVE  Inv' /\ AtomicInv'
<1>1. CASE UNCHANGED vars
      BY <1>1 DEF vars, dirVars, journalVars, manifestVars, holderVars, callerVars,
         historyVars, boundVars, Inv, AtomicInv, TypeOK, DirTypeOK, PathInv, PhaseInv,
         CommitInv, Visible, Decided, Exempt
<1>2. CASE \E b \in Requests : Begin(b)  BY <1>2, BeginInv
<1>3. CASE Step /\ \A b \in Requests : ~Begin(b)  BY <1>3, StepInv, StepAtomic
<1>4. CASE CallFails  BY <1>4, CallFailsInv
<1>5. CASE Kill  BY <1>5, KillInv
<1>6. CASE PowerLoss  BY <1>6, PowerLossInv
<1>7. CASE \E p \in Paths, r \in Revs \cup {Nil} : OperatorEdit(p, r)
      BY <1>7, OperatorEditInv
<1>8. QED  BY <1>1, <1>2, <1>3, <1>4, <1>5, <1>6, <1>7 DEF Next, Environment

\* The strengthened invariant holds in every reachable state.
THEOREM Invariance == Spec => [](Inv /\ AtomicInv)
<1>1. Init => Inv /\ AtomicInv  BY InitInv
<1>2. Inv /\ AtomicInv /\ [Next]_vars => (Inv /\ AtomicInv)'  BY NextInv
<1>3. QED  BY <1>1, <1>2, PTL DEF Spec

\* Every variable keeps its type, for every number of paths and all bounds.
THEOREM TypeCorrect == Spec => []TypeOK
<1>1. Inv => TypeOK  BY DEF Inv
<1>2. QED  BY <1>1, Invariance, PTL

\* A batch that applyCanonicalBatch acknowledged is committed and stays so,
\* whatever is killed, fails or loses power afterwards.
THEOREM AcknowledgedIsDurable == Spec => []AckedBatchIsCommitted
<1>1. Inv => AckedBatchIsCommitted  BY DEF Inv, CommitInv, AckedBatchIsCommitted
<1>2. QED  BY <1>1, Invariance, PTL

\* Whenever a lease callback runs and the power was never lost, each path no
\* operator edited holds what the last batch decided, the intended revisions or
\* the original ones, whatever calls failed and whoever was killed when.
THEOREM Atomicity == Spec => []AtomicWithoutPowerLoss
<1>1. Inv /\ AtomicInv => AtomicWithoutPowerLoss
      BY DEF Inv, PhaseInv, AtomicInv, Exempt, AtomicWithoutPowerLoss, BatchIsAtomic
<1>2. QED  BY <1>1, Invariance, PTL

\* The store implements AtomicBatch as long as nobody edits a canonical file by
\* hand and the power stays on: every step begins a batch, changes all of its
\* paths, returns, or changes nothing that callers can see.
THEOREM ImplementsBatches == Spec => ImplementsAtomicBatch
<1>1. Init => Abstract!Init
  <2>1. SUFFICES ASSUME Init PROVE Abstract!Init  OBVIOUS
  <2>2. PICK canonical \in Initials :
          DirInit(canonical) /\ old = canonical /\ new = canonical
        BY <2>1 DEF Init
  <2>3. pc = "idle" /\ ~committed /\ ~acked  BY <2>1 DEF Init
  <2>4. canonical = [p \in Paths |-> canonical[p]]  BY InitialsAssumption
  <2>5. [p \in Paths |-> IF pc = "callback" THEN Visible(p) ELSE Decided(p)] = canonical
        BY <2>2, <2>3, <2>4 DEF Decided
  <2>6. QED  BY <2>2, <2>3, <2>5 DEF Abstract!Init
<1>2. (Inv /\ AtomicInv) /\ (Inv /\ AtomicInv)' /\ [Next]_vars
         => (edits' = 0 /\ losses' = 0 => [Abstract!Next]_(Abstract!batchVars))
  <2>1. SUFFICES ASSUME Inv, AtomicInv, Inv', AtomicInv', Next, edits' = 0, losses' = 0
                 PROVE  [Abstract!Next]_(Abstract!batchVars)
        BY DEF vars, Abstract!batchVars, dirVars, manifestVars, holderVars, callerVars,
               historyVars, Visible, Decided
  <2>2. edits \in Nat /\ losses \in Nat  BY <2>1 DEF Inv, TypeOK
  <2>3. CASE \E b \in Requests : Begin(b)
    <3>1. PICK b \in Requests : Begin(b)  BY <2>3
    <3>2. edits = 0 /\ losses = 0  BY <2>1, <3>1 DEF Begin
    <3>3. Abstract!Begin(b)  BY <2>1, <3>1, <3>2, BeginRefines
    <3>4. QED  BY <3>3 DEF Abstract!Next
  <2>4. CASE Step /\ \A b \in Requests : ~Begin(b)
    <3>1. edits = 0 /\ losses = 0  BY <2>1, <2>4, StepEffects DEF StepEffect
    <3>2. Progress  BY <2>1, <2>4, StepsProgress
    <3>3. QED  BY <2>1, <3>1, <3>2, ProgressRefines
  <2>5. CASE CallFails \/ Kill
    <3>1. edits = 0 /\ losses = 0
          BY <2>1, <2>5 DEF CallFails, Kill
    <3>2. Progress  BY <2>1, <2>5, StepsProgress
    <3>3. QED  BY <2>1, <3>1, <3>2, ProgressRefines
  <2>6. CASE PowerLoss  BY <2>1, <2>2, <2>6 DEF PowerLoss
  <2>7. CASE \E p \in Paths, r \in Revs \cup {Nil} : OperatorEdit(p, r)
        BY <2>1, <2>2, <2>7 DEF OperatorEdit
  <2>8. QED  BY <2>1, <2>3, <2>4, <2>5, <2>6, <2>7 DEF Next, Environment
<1>3. QED  BY <1>1, <1>2, Invariance, PTL DEF Spec, ImplementsAtomicBatch

-------------------------------------------------------------------------------
(* What an operator writes while a batch is under way is never dropped.       *)

\* The revisions a journal knows of a path.
Known(p) == {old[p], new[p]}

\* A directory of a path, now or after a power loss: the private names of a
\* publication hold bytes of the journal, only a temporary may be torn, and the
\* names of one file agree on its bytes.
GoodDir(p, d) ==
    /\ d["tmp"].rev \in {Nil, Torn} \cup Known(p)
    /\ d["tmpEvac"].rev \in {Nil} \cup Known(p)
    /\ \A s \in Slots \ {"tmp"} : d[s].rev # Torn
    /\ \A s, t \in Slots : SameIdentity(d[s], d[t]) => d[s].rev = d[t].rev
FilesInv ==
    \A p \in Paths : cur[p] \in dur[p] /\ \A d \in dur[p] : GoodDir(p, d)

\* The journal never names torn bytes, and foreign bytes are none of its own.
RevsInv ==
    \A p \in Paths : /\ Torn \notin Known(p)
                     /\ foreign[p] # Nil => foreign[p] \notin Known(p) \cup {Torn}

\* Inside a publication: what it takes away is a revision the journal knows.
WorkPCs == {"publish", "open", "write", "evacuate", "check", "checkSync", "link",
            "unlinkTmp", "pubSync", "unlinkEvac"}
WorkInv ==
    /\ pc \notin {"evacuateUnlink", "restoreUnlink"}
    /\ pc \in WorkPCs => src \in {"dest", "tmp", "evac"} /\ exp.rev \in Known(k)
    /\ pc \in {"write", "link"} => Bytes # Nil
    /\ pc \in {"open", "write", "evacuate"} => ~Exists(cur[k][Evacuated])
    /\ pc \in {"publish", "open", "evacuate"} /\ src = "tmp" => cur[k]["tmp"].rev \in Known(k)
    /\ pc \in {"evacuate", "check", "checkSync", "link"} /\ Bytes # Nil =>
          cur[k]["tmp"].rev # Torn
    /\ \/ pc \in {"checkSync", "unlinkEvac"}
       \/ pc \in {"link", "unlinkTmp", "pubSync"} /\ Exists(exp)
       => cur[k][Evacuated].rev \in Known(k)

ForeignInv == FilesInv /\ RevsInv /\ WorkInv /\ ForeignBytesSurvive

\* Every revision the journal does not know that is somewhere in c is in d.
Carries(p, c, d) ==
    \A r \in Content \ ({Nil, Torn} \cup Known(p)) :
        (\E s \in Slots : c[s].rev = r) => \E s \in Slots : d[s].rev = r

\* A directory operation that changes the path p only and drops nothing foreign.
KeepsForeign(p) ==
    /\ \A q \in Paths \ {p} : cur'[q] = cur[q] /\ dur'[q] = dur[q]
    /\ cur'[p] \in dur'[p] /\ \A d \in dur'[p] : GoodDir(p, d)
    /\ Carries(p, cur[p], cur'[p])

\* Setting a directory, if the new one is good and carries what the old one has.
LEMMA SetDirKeeps ==
    ASSUME DirTypeOK, FilesInv, NEW p \in Paths, NEW d \in Dir, SetDir(p, d),
           GoodDir(p, d), Carries(p, cur[p], d)
    PROVE  KeepsForeign(p)
<1>1. /\ cur'[p] = d /\ dur'[p] = dur[p] \cup {d}
      /\ \A q \in Paths \ {p} : cur'[q] = cur[q] /\ dur'[q] = dur[q]
      BY DEF DirTypeOK, SetDir
<1>2. \A c \in dur[p] : GoodDir(p, c)  BY DEF FilesInv
<1>3. QED  BY <1>1, <1>2 DEF KeepsForeign

\* Unlinking a name whose bytes the journal knows, or that another name has.
LEMMA UnlinkKeeps ==
    ASSUME DirTypeOK, FilesInv, NEW p \in Paths, NEW s \in Slots, Unlink(p, s),
           \/ cur[p][s].rev \in {Nil, Torn} \cup Known(p)
           \/ \E t \in Slots \ {s} : cur[p][t].rev = cur[p][s].rev
    PROVE  KeepsForeign(p)
<1> DEFINE d == [cur[p] EXCEPT ![s] = NoFile]
<1>1. cur[p] \in Dir /\ GoodDir(p, cur[p])  BY DEF DirTypeOK, FilesInv
<1>2. d \in Dir /\ d[s] = NoFile /\ \A t \in Slots \ {s} : d[t] = cur[p][t]
      BY <1>1, NoFileType DEF Dir
<1>3. SetDir(p, d)  BY DEF Unlink, SetEntry
<1> HIDE DEF d
<1>4. NoFile.rev = Nil /\ ~Exists(NoFile) /\ Nil # Torn  BY RevsAssumption DEF NoFile, Exists
<1>5. GoodDir(p, d)
  <2>1. \A t, u \in Slots : SameIdentity(d[t], d[u]) => d[t].rev = d[u].rev
        BY <1>1, <1>2, <1>4 DEF GoodDir, SameIdentity
  <2>2. QED  BY <1>1, <1>2, <1>4, <2>1 DEF GoodDir, Slots
<1>6. Carries(p, cur[p], d)  BY <1>1, <1>2 DEF Carries
<1>7. QED  BY <1>2, <1>3, <1>5, <1>6, SetDirKeeps

\* Renaming to a name that holds nothing foreign.
LEMMA RenameKeeps ==
    ASSUME DirTypeOK, FilesInv, NEW p \in Paths, NEW s \in Slots, NEW t \in Slots \ {s},
           Rename(p, s, t),
           ~Exists(cur[p][t]), cur[p][s].rev # Torn,
           t \in {"tmp", "tmpEvac"} => cur[p][s].rev \in {Nil} \cup Known(p)
    PROVE  KeepsForeign(p)
<1> DEFINE d == [cur[p] EXCEPT ![s] = NoFile, ![t] = cur[p][s]]
<1>1. cur[p] \in Dir /\ GoodDir(p, cur[p])  BY DEF DirTypeOK, FilesInv
<1>2. /\ d \in Dir /\ d[s] = NoFile /\ d[t] = cur[p][s]
      /\ \A u \in Slots \ {s, t} : d[u] = cur[p][u]
      BY <1>1, NoFileType DEF Dir
<1>3. SetDir(p, d)  BY DEF Rename
<1> HIDE DEF d
<1>4. NoFile.rev = Nil /\ ~Exists(NoFile) /\ Nil # Torn  BY RevsAssumption DEF NoFile, Exists
<1>5. GoodDir(p, d)
  <2>1. \A u, v \in Slots : SameIdentity(d[u], d[v]) => d[u].rev = d[v].rev
        BY <1>1, <1>2, <1>4 DEF GoodDir, SameIdentity
  <2>2. \A u \in Slots \ {"tmp"} : d[u].rev # Torn
        BY <1>1, <1>2, <1>4 DEF GoodDir
  <2>3. d["tmp"].rev \in {Nil, Torn} \cup Known(p)
        BY <1>1, <1>2, <1>4 DEF GoodDir, Slots
  <2>4. d["tmpEvac"].rev \in {Nil} \cup Known(p)
        BY <1>1, <1>2, <1>4 DEF GoodDir, Slots
  <2>5. QED  BY <2>1, <2>2, <2>3, <2>4 DEF GoodDir
<1>6. Carries(p, cur[p], d)
  <2>1. cur[p][t].rev = Nil  BY DEF Exists
  <2>2. QED  BY <1>1, <1>2, <2>1 DEF Carries
<1>7. QED  BY <1>2, <1>3, <1>5, <1>6, SetDirKeeps

\* Opening a new, torn temporary.
LEMMA OpenKeeps ==
    ASSUME DirTypeOK, FilesInv, NEW p \in Paths, NEW i \in Inodes, IsFreshInode(p, i),
           ~Exists(cur[p]["tmp"]), SetEntry(p, "tmp", [rev |-> Torn, ino |-> i])
    PROVE  KeepsForeign(p)
<1> DEFINE f == [rev |-> Torn, ino |-> i]
           d == [cur[p] EXCEPT !["tmp"] = f]
<1>1. cur[p] \in Dir /\ cur[p] \in dur[p] /\ GoodDir(p, cur[p]) /\ "tmp" \in Slots
      BY DEF DirTypeOK, FilesInv, Slots
<1>2. f \in File /\ f.rev = Torn /\ f.ino = i  BY TornType
<1> HIDE DEF f
<1>3. d \in Dir /\ d["tmp"] = f /\ \A s \in Slots \ {"tmp"} : d[s] = cur[p][s]
      BY <1>1, <1>2 DEF Dir
<1>4. SetDir(p, d)  BY DEF SetEntry, f
<1> HIDE DEF d
<1>5. \A s \in Slots : cur[p][s].ino # i
      BY <1>1 DEF IsFreshInode, UsedInodes
<1>6. GoodDir(p, d)
  <2>1. \A s, t \in Slots : SameIdentity(d[s], d[t]) => d[s].rev = d[t].rev
        BY <1>1, <1>2, <1>3, <1>5 DEF GoodDir, SameIdentity
  <2>2. QED  BY <1>1, <1>2, <1>3, <2>1 DEF GoodDir, Slots
<1>7. Carries(p, cur[p], d)  BY <1>1, <1>3 DEF Carries, Exists
<1>8. QED  BY <1>3, <1>4, <1>6, <1>7, SetDirKeeps

\* Linking a complete temporary to the canonical name that is free.
LEMMA LinkKeeps ==
    ASSUME DirTypeOK, FilesInv, NEW p \in Paths, Link(p, "tmp", "dest"),
           ~Exists(cur[p]["dest"]), cur[p]["tmp"].rev # Torn
    PROVE  KeepsForeign(p)
<1> DEFINE d == [cur[p] EXCEPT !["dest"] = cur[p]["tmp"]]
<1>1. cur[p] \in Dir /\ GoodDir(p, cur[p]) /\ {"tmp", "dest"} \subseteq Slots
      BY DEF DirTypeOK, FilesInv, Slots
<1>2. d \in Dir /\ d["dest"] = cur[p]["tmp"] /\ \A s \in Slots \ {"dest"} : d[s] = cur[p][s]
      BY <1>1 DEF Dir
<1>3. SetDir(p, d)  BY DEF Link, SetEntry
<1> HIDE DEF d
<1>4. GoodDir(p, d)
  <2>1. \A s, t \in Slots : SameIdentity(d[s], d[t]) => d[s].rev = d[t].rev
        BY <1>1, <1>2 DEF GoodDir, SameIdentity
  <2>2. QED  BY <1>1, <1>2, <2>1 DEF GoodDir, Slots
<1>5. Carries(p, cur[p], d)  BY <1>1, <1>2 DEF Carries, Exists
<1>6. QED  BY <1>2, <1>3, <1>4, <1>5, SetDirKeeps

\* Completing the temporary with bytes of the journal.
LEMMA WriteKeeps ==
    ASSUME DirTypeOK, FilesInv, NEW p \in Paths, Torn \notin Known(p),
           NEW r \in Known(p), r \in Content, WriteAndSyncFile(p, "tmp", r)
    PROVE  KeepsForeign(p)
<1> DEFINE filled(d) == IF d["tmp"].rev = Torn
                        THEN [d EXCEPT !["tmp"] = [rev |-> r, ino |-> @.ino]] ELSE d
<1>1. /\ cur[p] \in Dir /\ cur[p] \in dur[p] /\ dur[p] \subseteq Dir /\ "tmp" \in Slots
      /\ \A d \in dur[p] : GoodDir(p, d)
      BY DEF DirTypeOK, FilesInv, Slots
<1>2. ASSUME NEW d \in Dir, GoodDir(p, d)
      PROVE  GoodDir(p, filled(d)) /\ Carries(p, d, filled(d))
  <2>1. CASE d["tmp"].rev # Torn  BY <1>2, <2>1 DEF Carries
  <2>2. CASE d["tmp"].rev = Torn
    <3> DEFINE e == filled(d)
    <3>1. e["tmp"].rev = r /\ e["tmp"].ino = d["tmp"].ino /\ \A s \in Slots \ {"tmp"} : e[s] = d[s]
          BY <1>1, <2>2 DEF Dir, File
    <3> HIDE DEF e
    <3>2. \A s \in Slots \ {"tmp"} : ~SameIdentity(d["tmp"], d[s]) /\ ~SameIdentity(d[s], d["tmp"])
          BY <1>1, <1>2, <2>2 DEF GoodDir, SameIdentity
    <3>3. Exists(d["tmp"])  BY <2>2, RevsAssumption DEF Exists
    <3>4. \A s, t \in Slots : SameIdentity(e[s], e[t]) => e[s].rev = e[t].rev
      <4>1. SUFFICES ASSUME NEW s \in Slots, NEW t \in Slots, SameIdentity(e[s], e[t])
                     PROVE  e[s].rev = e[t].rev
            OBVIOUS
      <4>2. CASE s = "tmp" /\ t # "tmp"
            BY <3>1, <3>2, <3>3, <4>1, <4>2 DEF SameIdentity
      <4>3. CASE s # "tmp" /\ t = "tmp"
            BY <3>1, <3>2, <3>3, <4>1, <4>3 DEF SameIdentity
      <4>4. CASE s # "tmp" /\ t # "tmp"  BY <1>2, <3>1, <4>1, <4>4 DEF GoodDir
      <4>5. QED  BY <4>2, <4>3, <4>4
    <3>5. GoodDir(p, e)  BY <1>2, <3>1, <3>4 DEF GoodDir, Slots
    <3>6. Carries(p, d, e)  BY <2>2, <3>1 DEF Carries
    <3>7. QED  BY <3>5, <3>6 DEF e
  <2>3. QED  BY <2>1, <2>2
<1>3. /\ cur' = [cur EXCEPT ![p] = filled(cur[p])]
      /\ dur' = [dur EXCEPT ![p] = {filled(d) : d \in dur[p]}]
      BY DEF WriteAndSyncFile
<1> HIDE DEF filled
<1>4. /\ cur'[p] = filled(cur[p]) /\ dur'[p] = {filled(d) : d \in dur[p]}
      /\ \A q \in Paths \ {p} : cur'[q] = cur[q] /\ dur'[q] = dur[q]
      BY <1>3 DEF DirTypeOK
<1>5. QED  BY <1>1, <1>2, <1>4 DEF KeepsForeign

\* fsync of the directory
LEMMA SyncKeeps ==
    ASSUME DirTypeOK, FilesInv, NEW p \in Paths, SyncDirectory(p)
    PROVE  KeepsForeign(p)
<1>1. /\ dur'[p] = {cur[p]} /\ cur' = cur
      /\ \A q \in Paths \ {p} : dur'[q] = dur[q]
      BY DEF DirTypeOK, SyncDirectory
<1>2. QED  BY <1>1 DEF FilesInv, KeepsForeign, Carries

\* The finally block of a publication.
LEMMA DropKeeps ==
    ASSUME DirTypeOK, FilesInv, NEW p \in Paths, DropTemporary(p)
    PROVE  UNCHANGED dirVars \/ KeepsForeign(p)
<1>1. cur[p]["tmp"].rev \in {Nil, Torn} \cup Known(p) /\ "tmp" \in Slots
      BY DEF FilesInv, GoodDir, Slots
<1>2. QED  BY <1>1, UnlinkKeeps DEF DropTemporary

\* The name a publication evacuates from, and the one it evacuates to.
LEMMA EvacuationNames ==
    ASSUME TypeOK
    PROVE  /\ Source \in Slots /\ Evacuated \in Slots /\ Evacuated # Source
           /\ Evacuated \notin {"tmp", "dest"}
           /\ Evacuated = "tmpEvac" => src = "tmp" /\ Source = "tmp"
           /\ Source = "tmp" => src = "tmp" /\ Evacuated = "tmpEvac"
           /\ Source # "tmpEvac"
           /\ src \in {"none", "dest"} => Source = "dest" /\ Evacuated = "evac"
BY DEF TypeOK, Slots, Source, Evacuated, EvacuatedName

\* What a publication writes is a revision the journal knows.
LEMMA BytesAreKnown ==
    ASSUME TypeOK, k \in Paths
    PROVE  Bytes \in {Nil} \cup Known(k)
BY DEF TypeOK, Bytes, Known

\* A step of the holder drops nothing that an operator wrote.
LEMMA StepKeepsForeign ==
    ASSUME AtomicMove, Inv, FilesInv, RevsInv, WorkInv, Step, \A b \in Requests : ~Begin(b)
    PROVE  UNCHANGED dirVars \/ (k \in Paths /\ KeepsForeign(k))
<1> USE DEF OnPath, PublishPCs, At, ThrowFromPublish
<1>a. /\ DirTypeOK /\ TypeOK /\ (pc \in OnPath => k \in Paths)
      /\ {"tmp", "dest", "evac", "tmpEvac", "evacEvac"} \subseteq Slots
      BY DEF Inv, TypeOK, PathInv, Slots
<1>b. k \in Paths => /\ Torn \notin Known(k) /\ GoodDir(k, cur[k])
                     /\ Bytes \in {Nil} \cup Known(k) /\ Bytes \in Content
      BY <1>a, BytesAreKnown, BytesType DEF RevsInv, FilesInv
<1> USE <1>a, <1>b
<1>1. CASE Acquire  BY <1>1 DEF Acquire
<1>2. CASE Release  BY <1>2 DEF Release
<1>3. CASE MkdirSync  BY <1>3 DEF MkdirSync
<1>4. CASE WriteArtifacts  BY <1>4 DEF WriteArtifacts
<1>5. CASE PrepareSync  BY <1>5 DEF PrepareSync
<1>6. CASE Activate  BY <1>6 DEF Activate
<1>7. CASE ActivateSync  BY <1>7 DEF ActivateSync
<1>8. CASE Abandon  BY <1>8 DEF Abandon
<1>9. CASE Commit  BY <1>9 DEF Commit
<1>10. CASE CommitSync  BY <1>10 DEF CommitSync
<1>11. CASE ToCleanup  BY <1>11 DEF ToCleanup
<1>12. CASE ToCleanupSync  BY <1>12 DEF ToCleanupSync
<1>13. CASE RemoveArtifacts  BY <1>13 DEF RemoveArtifacts
<1>14. CASE RemoveDirectory  BY <1>14 DEF RemoveDirectory
<1>15. CASE RemoveDirectorySync  BY <1>15 DEF RemoveDirectorySync
<1>16. CASE Scan  BY <1>16 DEF Scan
<1>17. CASE RollbackStart  BY <1>17 DEF RollbackStart
<1>18. CASE NextRollback  BY <1>18 DEF NextRollback
<1>19. CASE VerifyCurrent  BY <1>19 DEF VerifyCurrent
<1>20. CASE ConfirmPublished  BY <1>20 DEF ConfirmPublished
<1>21. CASE RollbackPath  BY <1>21 DEF RollbackPath
<1>22. CASE RollbackVerify  BY <1>22 DEF RollbackVerify
<1>23. CASE PublishStart  BY <1>23 DEF PublishStart
<1>24. CASE OpenTemporary  BY OpenKeeps, <1>24 DEF OpenTemporary
<1>25. CASE WriteTemporary
  <2>1. Bytes # Nil /\ k \in Paths  BY <1>25 DEF WriteTemporary, WorkInv
  <2>2. Bytes \in Known(k)  BY <2>1, BytesAreKnown
  <2>3. QED  BY <2>1, <2>2, WriteKeeps, <1>25 DEF WriteTemporary
<1>26. CASE Evacuate
  <2>1. k \in Paths /\ pc = "evacuate"  BY <1>26 DEF Evacuate
  <2>2. CASE DropTemporary(k)  BY <2>1, <2>2, DropKeeps DEF FilesInv
  <2>3. CASE Rename(k, Source, Evacuated)
    <3>1. ~Exists(cur[k][Evacuated])  BY <2>1 DEF WorkInv
    <3>2. cur[k][Source].rev # Torn
      <4>1. CASE Source = "tmp"  BY <2>1, <4>1, EvacuationNames DEF WorkInv
      <4>2. CASE Source # "tmp"  BY <2>1, <4>2, EvacuationNames DEF GoodDir
      <4>3. QED  BY <4>1, <4>2
    <3>3. Evacuated \in {"tmp", "tmpEvac"} => cur[k][Source].rev \in Known(k)
          BY <2>1, EvacuationNames DEF WorkInv
    <3>4. QED  BY <2>1, <2>3, <3>1, <3>2, <3>3, EvacuationNames, RenameKeeps
  <2>4. QED  BY <1>26, <2>2, <2>3 DEF Evacuate
<1>27. CASE EvacuateUnlink  BY <1>27 DEF EvacuateUnlink, WorkInv
<1>28. CASE CheckEvacuated  BY <1>28 DEF CheckEvacuated
<1>29. CASE CheckSync  BY SyncKeeps, <1>29 DEF CheckSync
<1>30. CASE LinkTemporary
  <2>1. k \in Paths /\ pc = "link"  BY <1>30 DEF LinkTemporary
  <2>2. CASE DropTemporary(k)  BY <2>1, <2>2, DropKeeps
  <2>3. CASE ~Exists(cur[k]["dest"]) /\ Link(k, "tmp", "dest")
    <3>1. cur[k]["tmp"].rev # Torn  BY <2>1 DEF WorkInv
    <3>2. QED  BY <2>1, <2>3, <3>1, LinkKeeps
  <2>4. QED  BY <1>30, <2>2, <2>3 DEF LinkTemporary
<1>31. CASE UnlinkTemporary
       BY UnlinkKeeps, DropKeeps, <1>31 DEF UnlinkTemporary, GoodDir
<1>32. CASE PublishSync  BY SyncKeeps, <1>32 DEF PublishSync
<1>33. CASE UnlinkEvacuated
       BY UnlinkKeeps, EvacuationNames, <1>33 DEF UnlinkEvacuated, WorkInv
<1>34. CASE EvacuatedSync  BY SyncKeeps, <1>34 DEF EvacuatedSync
<1>35. CASE Restore
  <2>1. k \in Paths /\ pc = "restore"  BY <1>35 DEF Restore
  <2>2. CASE DropTemporary(k)  BY <2>1, <2>2, DropKeeps
  <2>3. CASE ~Exists(cur[k][Source]) /\ Rename(k, Evacuated, Source)
    <3>1. cur[k][Evacuated].rev # Torn  BY <2>1, EvacuationNames DEF GoodDir
    <3>2. Source \in {"tmp", "tmpEvac"} => cur[k][Evacuated].rev \in {Nil} \cup Known(k)
          BY <2>1, EvacuationNames DEF GoodDir
    <3>3. QED  BY <2>1, <2>3, <3>1, <3>2, EvacuationNames, RenameKeeps
  <2>4. QED  BY <1>35, <2>2, <2>3 DEF Restore
<1>36. CASE RestoreUnlink  BY <1>36 DEF RestoreUnlink, WorkInv
<1>37. CASE RestoreSync  BY SyncKeeps, <1>37 DEF RestoreSync
<1>38. CASE Raise  BY DropKeeps, <1>38 DEF Raise
<1>39. CASE RecoverTemporary
  <2>1. cur[k]["tmp"].rev \in {Nil, Torn} \cup Known(k) \/ k \notin Paths  BY DEF GoodDir
  <2>2. QED  BY UnlinkKeeps, <2>1, <1>39 DEF RecoverTemporary, Inv, TypeOK
<1>40. CASE RecoverTemporarySync  BY SyncKeeps, <1>40 DEF RecoverTemporarySync
<1>41. CASE RecoverEvacuated
  <2>1. k \in Paths  BY <1>41 DEF RecoverEvacuated
  <2>2. SameIdentity(cur[k]["evac"], cur[k]["dest"]) => cur[k]["evac"].rev = cur[k]["dest"].rev
        BY <2>1 DEF GoodDir
  <2>3. QED  BY UnlinkKeeps, <2>1, <2>2, <1>41 DEF RecoverEvacuated
<1>42. CASE RecoverEvacuatedSync  BY SyncKeeps, <1>42 DEF RecoverEvacuatedSync
<1>43. QED
  BY <1>1, <1>2, <1>3, <1>4, <1>5, <1>6, <1>7, <1>8, <1>9, <1>10, <1>11, <1>12, <1>13, <1>14,
     <1>15, <1>16, <1>17, <1>18, <1>19, <1>20, <1>21, <1>22, <1>23, <1>24, <1>25, <1>26, <1>27, <1>28,
     <1>29, <1>30, <1>31, <1>32, <1>33, <1>34, <1>35, <1>36, <1>37, <1>38, <1>39, <1>40, <1>41, <1>42
  DEF Step, Apply, Publication, Cleanup, Recovery

\* Outside of a publication there is nothing to keep.
LEMMA OutsideWork ==
    ASSUME pc' \notin WorkPCs \cup {"evacuateUnlink", "restoreUnlink"}
    PROVE  WorkInv'
BY DEF WorkInv, WorkPCs

\* An exception and the return of a publication lead outside.
LEMMA ThrowWork ==
    ASSUME NEW v, Throw(v) \/ Leave(v)
    PROVE  WorkInv'
BY OutsideWork DEF Throw, Leave, Goto, WorkPCs

\* publishExactRegularFile returns.
LEMMA ReturnWork ==
    ASSUME PublishReturns
    PROVE  WorkInv'
BY OutsideWork DEF PublishReturns, WorkPCs

\* A publication begins with a file whose bytes the journal knows.
LEMMA CallWork ==
    ASSUME NEW s \in {"dest", "tmp", "evac"}, CallPublish(s), UNCHANGED dirVars,
           UNCHANGED manifestVars, cur[k][s].rev \in Known(k)
    PROVE  WorkInv'
BY DEF CallPublish, WorkInv, WorkPCs, dirVars, manifestVars, Known

\* Inside a publication its names, its bytes and its revisions stay.
LEMMA SamePublication ==
    ASSUME src' = src, k' = k, mode' = mode, UNCHANGED manifestVars
    PROVE  Evacuated' = Evacuated /\ Source' = Source /\ Bytes' = Bytes /\ Known(k)' = Known(k)
BY DEF Evacuated, Source, Bytes, Known, manifestVars

\* A step of the holder keeps its place in a publication and the names in step.
LEMMA StepWork ==
    ASSUME AtomicMove, Inv, FilesInv, RevsInv, WorkInv, Step, \A b \in Requests : ~Begin(b)
    PROVE  WorkInv'
<1> USE OutsideWork, ThrowWork
    DEF OnPath, PublishPCs, WorkPCs, At, ThrowFromPublish, Goto, GotoPath, Leave,
        Acknowledge, PublishFrame, StepFrame
<1>a. /\ DirTypeOK /\ TypeOK /\ (pc \in OnPath => k \in Paths)
      /\ {"tmp", "dest", "evac", "tmpEvac", "evacEvac"} \subseteq Slots
      BY DEF Inv, TypeOK, PathInv, Slots
<1>b. k \in Paths => /\ Torn \notin Known(k) /\ GoodDir(k, cur[k])
                     /\ Bytes \in {Nil} \cup Known(k) /\ Bytes \in Content
                     /\ cur[k] \in Dir
      BY <1>a, BytesAreKnown, BytesType DEF RevsInv, FilesInv, DirTypeOK
<1> USE <1>a, <1>b
<1>1. CASE Acquire  BY <1>1 DEF Acquire
<1>2. CASE Release  BY <1>2 DEF Release
<1>3. CASE MkdirSync  BY <1>3 DEF MkdirSync
<1>4. CASE WriteArtifacts  BY <1>4 DEF WriteArtifacts
<1>5. CASE PrepareSync  BY <1>5 DEF PrepareSync
<1>6. CASE Activate  BY <1>6 DEF Activate
<1>7. CASE ActivateSync  BY <1>7 DEF ActivateSync
<1>8. CASE Abandon  BY <1>8 DEF Abandon
<1>9. CASE Commit  BY <1>9 DEF Commit
<1>10. CASE CommitSync  BY <1>10 DEF CommitSync
<1>11. CASE ToCleanup  BY <1>11 DEF ToCleanup
<1>12. CASE ToCleanupSync  BY <1>12 DEF ToCleanupSync
<1>13. CASE RemoveArtifacts  BY <1>13 DEF RemoveArtifacts
<1>14. CASE RemoveDirectory  BY <1>14 DEF RemoveDirectory
<1>15. CASE RemoveDirectorySync  BY <1>15 DEF RemoveDirectorySync
<1>16. CASE Scan  BY <1>16 DEF Scan
<1>17. CASE RollbackStart  BY <1>17 DEF RollbackStart
<1>18. CASE NextRollback  BY <1>18 DEF NextRollback
<1>19. CASE VerifyCurrent
  <2>1. CASE k \in batch /\ IsCurrent(k, old[k]) /\ CallPublish("dest")
    <3>1. cur[k]["dest"].rev \in Known(k)  BY <2>1 DEF IsCurrent, Visible, Known
    <3>2. QED  BY <2>1, <3>1, CallWork, <1>19 DEF VerifyCurrent
  <2>2. QED  BY <2>1, <1>19 DEF VerifyCurrent
<1>20. CASE ConfirmPublished  BY <1>20 DEF ConfirmPublished
<1>21. CASE RollbackPath
  <2>1. CASE IsCurrent(k, new[k]) /\ CallPublish("dest")
    <3>1. cur[k]["dest"].rev \in Known(k)  BY <2>1 DEF IsCurrent, Visible, Known
    <3>2. QED  BY <2>1, <3>1, CallWork, <1>21 DEF RollbackPath
  <2>2. QED  BY <2>1, <1>21 DEF RollbackPath
<1>22. CASE RollbackVerify  BY <1>22 DEF RollbackVerify
<1>23. CASE PublishStart
  <2>1. CASE Throw("ambiguous")  BY <2>1
  <2>2. CASE ~Exists(cur[k][Evacuated]) /\ Goto("open") /\ UNCHANGED dirVars
    <3>1. pc = "publish" /\ UNCHANGED manifestVars  BY <1>23 DEF PublishStart
    <3>2. QED  BY <2>2, <3>1, SamePublication DEF WorkInv, dirVars
  <2>3. QED  BY <2>1, <2>2, <1>23 DEF PublishStart
<1>24. CASE OpenTemporary
  <2>1. pc = "open" /\ k \in Paths /\ UNCHANGED manifestVars  BY <1>24 DEF OpenTemporary
  <2>2. CASE PublishReturns  BY <2>2, ReturnWork
  <2>3. CASE Goto("evacuate") /\ UNCHANGED dirVars /\ Bytes = Nil
        BY <2>1, <2>3, SamePublication DEF WorkInv, dirVars
  <2>4. CASE /\ Goto("write") /\ Bytes # Nil
             /\ \E i \in Inodes : SetEntry(k, "tmp", [rev |-> Torn, ino |-> i])
    <3>1. \A s \in Slots \ {"tmp"} : cur'[k][s] = cur[k][s]
          BY <2>1, <2>4 DEF SetEntry, SetDir, DirTypeOK, Dir
    <3>2. cur'[k][Evacuated] = cur[k][Evacuated]  BY <3>1, EvacuationNames
    <3>3. QED  BY <2>1, <2>4, <3>2, SamePublication DEF WorkInv
  <2>5. QED  BY <2>2, <2>3, <2>4, <1>24 DEF OpenTemporary
<1>25. CASE WriteTemporary
  <2>1. pc = "write" /\ k \in Paths /\ Bytes \in Known(k) /\ Bytes # Nil /\ UNCHANGED manifestVars
        BY <1>25 DEF WriteTemporary, WorkInv
  <2>2. /\ cur'[k]["tmp"].rev # Torn
        /\ \A s \in Slots \ {"tmp"} : cur'[k][s] = cur[k][s]
        BY <2>1, <1>25 DEF WriteTemporary, WriteAndSyncFile, DirTypeOK, Dir, File
  <2>3. cur'[k][Evacuated] = cur[k][Evacuated]  BY <2>2, EvacuationNames
  <2>4. src = "dest"  BY <2>1 DEF Bytes
  <2>5. QED
    <3>1. CASE Goto("evacuate")
          BY <2>1, <2>2, <2>3, <2>4, <3>1, SamePublication DEF WorkInv
    <3>2. CASE Goto("link") /\ ~Exists(exp)
          BY <2>1, <2>2, <2>3, <2>4, <3>2, SamePublication DEF WorkInv
    <3>3. QED  BY <3>1, <3>2, <1>25 DEF WriteTemporary
<1>26. CASE Evacuate
  <2>1. pc = "evacuate" /\ k \in Paths /\ UNCHANGED manifestVars  BY <1>26 DEF Evacuate
  <2>2. CASE Throw("error")  BY <2>2
  <2>3. CASE Rename(k, Source, Evacuated) /\ Goto("check")
    <3>1. \A s \in Slots \ {Source, Evacuated} : cur'[k][s] = cur[k][s]
          BY <2>1, <2>3 DEF Rename, SetDir, DirTypeOK, Dir
    <3>2. Bytes # Nil => cur'[k]["tmp"] = cur[k]["tmp"]
          BY <3>1, EvacuationNames DEF Bytes
    <3>3. QED  BY <2>1, <2>3, <3>2, SamePublication DEF WorkInv
  <2>4. QED  BY <2>2, <2>3, <1>26 DEF Evacuate
<1>27. CASE EvacuateUnlink  BY <1>27 DEF EvacuateUnlink, WorkInv
<1>28. CASE CheckEvacuated
  <2>1. /\ pc = "check" /\ k \in Paths /\ UNCHANGED <<manifestVars, dirVars>>
        /\ exp.rev \in Known(k)
        BY <1>28 DEF CheckEvacuated, WorkInv
  <2>2. CASE Goto("checkSync") /\ cur[k][Evacuated].rev = exp.rev
        BY <2>1, <2>2, SamePublication DEF WorkInv, dirVars
  <2>3. QED  BY <2>2, <1>28 DEF CheckEvacuated
<1>29. CASE CheckSync
  <2>1. /\ pc = "checkSync" /\ UNCHANGED manifestVars /\ cur' = cur
        BY <1>29 DEF CheckSync, SyncDirectory
  <2>2. CASE Goto("link") /\ Bytes # Nil
        BY <2>1, <2>2, SamePublication DEF WorkInv
  <2>3. CASE Goto("unlinkEvac")
        BY <2>1, <2>3, SamePublication DEF WorkInv
  <2>4. QED  BY <2>2, <2>3, <1>29 DEF CheckSync
<1>30. CASE LinkTemporary
  <2>1. pc = "link" /\ k \in Paths /\ UNCHANGED manifestVars  BY <1>30 DEF LinkTemporary
  <2>2. CASE Link(k, "tmp", "dest") /\ Goto("unlinkTmp")
    <3>1. \A s \in Slots \ {"dest"} : cur'[k][s] = cur[k][s]
          BY <2>1, <2>2 DEF Link, SetEntry, SetDir, DirTypeOK, Dir
    <3>2. cur'[k][Evacuated] = cur[k][Evacuated]  BY <3>1, EvacuationNames
    <3>3. QED  BY <2>1, <2>2, <3>2, SamePublication DEF WorkInv
  <2>3. QED  BY <2>2, <1>30 DEF LinkTemporary
<1>31. CASE UnlinkTemporary
  <2>1. pc = "unlinkTmp" /\ k \in Paths /\ UNCHANGED manifestVars  BY <1>31 DEF UnlinkTemporary
  <2>2. CASE Unlink(k, "tmp") /\ Goto("pubSync")
    <3>1. \A s \in Slots \ {"tmp"} : cur'[k][s] = cur[k][s]
          BY <2>1, <2>2 DEF Unlink, SetEntry, SetDir, DirTypeOK, Dir
    <3>2. cur'[k][Evacuated] = cur[k][Evacuated]  BY <3>1, EvacuationNames
    <3>3. QED  BY <2>1, <2>2, <3>2, SamePublication DEF WorkInv
  <2>3. QED  BY <2>2, <1>31 DEF UnlinkTemporary
<1>32. CASE PublishSync
  <2>1. /\ pc = "pubSync" /\ UNCHANGED manifestVars /\ cur' = cur
        BY <1>32 DEF PublishSync, SyncDirectory
  <2>2. CASE Goto("unlinkEvac") /\ Exists(exp)
        BY <2>1, <2>2, SamePublication DEF WorkInv
  <2>3. QED  BY <2>2, ReturnWork, <1>32 DEF PublishSync
<1>33. CASE UnlinkEvacuated  BY <1>33 DEF UnlinkEvacuated
<1>34. CASE EvacuatedSync  BY ReturnWork, <1>34 DEF EvacuatedSync
<1>35. CASE Restore  BY <1>35 DEF Restore
<1>36. CASE RestoreUnlink  BY <1>36 DEF RestoreUnlink
<1>37. CASE RestoreSync  BY <1>37 DEF RestoreSync
<1>38. CASE Raise  BY <1>38 DEF Raise
<1>39. CASE RecoverTemporary
  <2>1. CASE CallPublish("tmp") /\ Allowed(k, cur[k]["tmp"]) /\ UNCHANGED dirVars
    <3>1. cur[k]["tmp"].rev \in Known(k)  BY <2>1 DEF Allowed, Known
    <3>2. QED  BY <2>1, <3>1, CallWork, <1>39 DEF RecoverTemporary
  <2>2. QED  BY <2>1, <1>39 DEF RecoverTemporary
<1>40. CASE RecoverTemporarySync  BY <1>40 DEF RecoverTemporarySync
<1>41. CASE RecoverEvacuated
  <2>1. CASE CallPublish("evac") /\ Allowed(k, cur[k]["evac"]) /\ UNCHANGED dirVars
    <3>1. cur[k]["evac"].rev \in Known(k)  BY <2>1 DEF Allowed, Known
    <3>2. QED  BY <2>1, <3>1, CallWork, <1>41 DEF RecoverEvacuated
  <2>2. QED  BY <2>1, <1>41 DEF RecoverEvacuated
<1>42. CASE RecoverEvacuatedSync  BY <1>42 DEF RecoverEvacuatedSync
<1>43. QED
  BY <1>1, <1>2, <1>3, <1>4, <1>5, <1>6, <1>7, <1>8, <1>9, <1>10, <1>11, <1>12, <1>13, <1>14,
     <1>15, <1>16, <1>17, <1>18, <1>19, <1>20, <1>21, <1>22, <1>23, <1>24, <1>25, <1>26, <1>27, <1>28,
     <1>29, <1>30, <1>31, <1>32, <1>33, <1>34, <1>35, <1>36, <1>37, <1>38, <1>39, <1>40, <1>41, <1>42
  DEF Step, Apply, Publication, Cleanup, Recovery

\* A step that drops nothing foreign keeps the files and the revisions in order.
LEMMA FilesKeep ==
    ASSUME TypeOK, ForeignInv, UNCHANGED <<manifestVars, foreign>>, NEW p \in Paths,
           UNCHANGED dirVars \/ KeepsForeign(p)
    PROVE  FilesInv' /\ RevsInv' /\ ForeignBytesSurvive'
<1>1. /\ \A q \in Paths : Known(q)' = Known(q)
      /\ UNCHANGED <<old, new, foreign>>
      BY DEF Known, manifestVars
<1>2. RevsInv'  BY <1>1 DEF ForeignInv, RevsInv
<1>3. FilesInv'
  <2>1. CASE UNCHANGED dirVars
        BY <1>1, <2>1 DEF ForeignInv, FilesInv, GoodDir, dirVars
  <2>2. CASE KeepsForeign(p)
    <3>1. SUFFICES ASSUME NEW q \in Paths
                   PROVE  cur'[q] \in dur'[q] /\ \A d \in dur'[q] : GoodDir(q, d)
          BY <1>1 DEF FilesInv, GoodDir
    <3>2. CASE q = p  BY <2>2, <3>2 DEF KeepsForeign
    <3>3. CASE q # p  BY <2>2, <3>3 DEF KeepsForeign, ForeignInv, FilesInv
    <3>4. QED  BY <3>2, <3>3
  <2>3. QED  BY <2>1, <2>2
<1>4. ForeignBytesSurvive'
  <2>1. SUFFICES ASSUME NEW q \in Paths, foreign[q] # Nil
                 PROVE  \E s \in Slots : cur'[q][s].rev = foreign[q]
        BY <1>1 DEF ForeignBytesSurvive
  <2>2. \E s \in Slots : cur[q][s].rev = foreign[q]
        BY <2>1 DEF ForeignInv, ForeignBytesSurvive
  <2>3. foreign[q] \in Content \ ({Nil, Torn} \cup Known(q))
        BY <2>1 DEF TypeOK, ForeignInv, RevsInv
  <2>4. CASE UNCHANGED dirVars \/ q # p
        BY <2>2, <2>4 DEF KeepsForeign, dirVars
  <2>5. CASE KeepsForeign(p) /\ q = p
        BY <2>2, <2>3, <2>5 DEF KeepsForeign, Carries
  <2>6. QED  BY <2>4, <2>5
<1>5. QED  BY <1>2, <1>3, <1>4

\* A new batch: its private names are free and nothing is foreign to it yet.
LEMMA BeginForeign ==
    ASSUME Inv, ForeignInv, NEW b \in Requests, Begin(b)
    PROVE  ForeignInv'
<1> DEFINE own(d) == [s \in Slots |-> IF s = "dest" THEN d[s] ELSE NoFile]
<1>1. /\ cur' = [p \in Paths |-> own(cur[p])]
      /\ dur' = [p \in Paths |-> {own(d) : d \in dur[p]}]
      /\ old' = [p \in Paths |-> Visible(p)]
      /\ new' = [p \in Paths |-> IF p \in DOMAIN b THEN b[p] ELSE Visible(p)]
      /\ foreign' = [p \in Paths |-> Nil] /\ pc' = "mkdirSync"
      BY DEF Begin
<1>2. NoFile.rev = Nil /\ ~Exists(NoFile) /\ Nil # Torn /\ Torn \notin Revs
      BY RevsAssumption DEF NoFile, Exists
<1>3. ASSUME NEW p \in Paths, NEW d \in dur[p]
      PROVE  GoodDir(p, own(d))'
  <2>1. d["dest"].rev # Torn  BY <1>3 DEF ForeignInv, FilesInv, GoodDir, Slots
  <2> DEFINE e == own(d)
  <2>2. e["dest"] = d["dest"] /\ \A s \in Slots \ {"dest"} : e[s] = NoFile  BY DEF Slots
  <2>3. own(d)' = own(d)
        BY DEF Slots
  <2> HIDE DEF own, e
  <2>4. \A s, t \in Slots : SameIdentity(e[s], e[t]) => s = "dest" /\ t = "dest"
        BY <1>2, <2>2 DEF SameIdentity
  <2>5. e["tmp"].rev = Nil /\ e["tmpEvac"].rev = Nil  BY <1>2, <2>2 DEF Slots
  <2>6. \A s \in Slots \ {"tmp"} : e[s].rev # Torn  BY <1>2, <2>1, <2>2
  <2>7. GoodDir(p, e)'
        BY <2>4, <2>5, <2>6 DEF GoodDir, e
  <2>8. QED  BY <2>3, <2>7 DEF e
<1>4. FilesInv'
  <2>1. \A p \in Paths : cur[p] \in dur[p]  BY DEF ForeignInv, FilesInv
  <2>2. \A p \in Paths : cur'[p] = own(cur[p]) /\ dur'[p] = {own(d) : d \in dur[p]}  BY <1>1
  <2> HIDE DEF own
  <2>3. QED  BY <1>3, <2>1, <2>2 DEF FilesInv
<1>5. RevsInv'
  <2>1. \A p \in Paths : Visible(p) # Torn
        BY DEF ForeignInv, FilesInv, GoodDir, Slots, Visible
  <2>2. \A p \in DOMAIN b : b[p] # Torn  BY <1>2, RequestsAssumption
  <2>3. QED  BY <1>1, <2>1, <2>2 DEF RevsInv, Known
<1>6. WorkInv'  BY <1>1, OutsideWork DEF WorkPCs
<1>7. QED  BY <1>1, <1>4, <1>5, <1>6 DEF ForeignInv, ForeignBytesSurvive

\* A failed call, at most, drops or completes the temporary of its own path.
LEMMA CallFailsForeign ==
    ASSUME Inv, ForeignInv, CallFails
    PROVE  ForeignInv'
<1>1. UNCHANGED <<manifestVars, foreign>>  BY DEF CallFails, historyVars
<1>2. WorkInv'
  <2>1. CASE Acknowledge  BY <2>1, OutsideWork DEF Acknowledge, WorkPCs
  <2>2. QED  BY <2>1, ThrowWork DEF CallFails
<1>3. PICK p \in Paths : UNCHANGED dirVars \/ KeepsForeign(p)
  <2>1. /\ DirTypeOK /\ TypeOK /\ FilesInv /\ 1 \in Paths
        /\ pc \in PublishPCs => k \in Paths
        BY PathsAssumption DEF Inv, TypeOK, PathInv, OnPath, ForeignInv, Paths
  <2>2. CASE UNCHANGED dirVars  BY <2>1, <2>2
  <2>3. CASE pc = "write" /\ WriteAndSyncFile(k, "tmp", Bytes)
    <3>1. k \in Paths /\ Bytes # Nil
          BY <2>1, <2>3 DEF PublishPCs, ForeignInv, WorkInv
    <3>2. Bytes \in Known(k) /\ Bytes \in Content /\ Torn \notin Known(k)
          BY <2>1, <3>1, BytesAreKnown, BytesType DEF ForeignInv, RevsInv
    <3>3. QED  BY <2>1, <2>3, <3>1, <3>2, WriteKeeps
  <2>4. CASE pc \in PublishPCs /\ DropTemporary(k)  BY <2>1, <2>4, DropKeeps
  <2>5. QED  BY <2>2, <2>3, <2>4 DEF CallFails
<1>4. QED  BY <1>1, <1>2, <1>3, FilesKeep DEF ForeignInv, Inv

\* A power loss brings back directories that are good, and nothing the operator
\* wrote is counted on any more.
LEMMA PowerLossForeign ==
    ASSUME Inv, ForeignInv, PowerLoss
    PROVE  ForeignInv'
<1>1. /\ UNCHANGED <<old, new>> /\ foreign' = [p \in Paths |-> Nil] /\ pc' = "idle"
      /\ \A p \in Paths : cur'[p] \in dur[p] /\ dur'[p] = {cur'[p]}
      BY DEF PowerLoss, LoseUnsynced, Leave, manifestVars
<1>2. FilesInv'  BY <1>1 DEF ForeignInv, FilesInv, GoodDir, Known
<1>3. RevsInv'  BY <1>1 DEF ForeignInv, RevsInv, Known
<1>4. WorkInv'  BY <1>1, OutsideWork DEF WorkPCs
<1>5. QED  BY <1>1, <1>2, <1>3, <1>4 DEF ForeignInv, ForeignBytesSurvive

\* An operator replaces the canonical name only: what they wrote is there.
LEMMA OperatorEditForeign ==
    ASSUME Inv, ForeignInv, NEW p \in Paths, NEW r \in Revs \cup {Nil}, OperatorEdit(p, r)
    PROVE  ForeignInv'
<1>1. /\ UNCHANGED <<manifestVars, holderVars, old, new, pc, src, exp, k, mode>>
      /\ foreign' = [foreign EXCEPT ![p] = IF r \in Known(p) THEN Nil ELSE r]
      BY DEF OperatorEdit, Known, manifestVars, holderVars
<1>2. PICK f \in File : /\ f.rev = r /\ SetEntry(p, "dest", f)
                       /\ \A s \in Slots : Exists(f) => cur[p][s].ino # f.ino
  <2>1. CASE r = Nil /\ Unlink(p, "dest")
        BY <2>1, NoFileType DEF Unlink, NoFile, Exists
  <2>2. CASE r # Nil
    <3>1. PICK i \in Inodes : /\ IsFreshInode(p, i)
                              /\ SetEntry(p, "dest", [rev |-> r, ino |-> i])
          BY <2>2 DEF OperatorEdit
    <3>2. [rev |-> r, ino |-> i] \in File  BY InodesAssumption DEF File, Content
    <3>3. \A s \in Slots : cur[p][s].ino # i  BY <3>1 DEF IsFreshInode, UsedInodes
    <3>4. QED  BY <3>1, <3>2, <3>3
  <2>3. QED  BY <2>1, <2>2 DEF OperatorEdit
<1> DEFINE d == [cur[p] EXCEPT !["dest"] = f]
<1>3. /\ cur[p] \in Dir /\ cur[p] \in dur[p] /\ GoodDir(p, cur[p]) /\ "dest" \in Slots
      /\ DirTypeOK /\ TypeOK
      BY DEF Inv, TypeOK, DirTypeOK, ForeignInv, FilesInv, Slots
<1>4. d["dest"] = f /\ \A s \in Slots \ {"dest"} : d[s] = cur[p][s]
      BY <1>3 DEF Dir
<1>5. /\ cur'[p] = d /\ dur'[p] = dur[p] \cup {d}
      /\ \A q \in Paths \ {p} : cur'[q] = cur[q] /\ dur'[q] = dur[q]
      BY <1>2, <1>3 DEF SetEntry, SetDir, DirTypeOK
<1> HIDE DEF d
<1>6. r # Torn  BY RevsAssumption
<1>7. GoodDir(p, d)
  <2>1. \A s, t \in Slots : SameIdentity(d[s], d[t]) => d[s].rev = d[t].rev
        BY <1>2, <1>3, <1>4 DEF GoodDir, SameIdentity
  <2>2. QED  BY <1>2, <1>3, <1>4, <1>6, <2>1 DEF GoodDir, Slots
<1>8. FilesInv'
  <2>1. \A q \in Paths : cur'[q] \in dur'[q] /\ \A e \in dur'[q] : GoodDir(q, e)
        BY <1>5, <1>7 DEF ForeignInv, FilesInv
  <2>2. QED  BY <1>1, <2>1 DEF FilesInv, GoodDir, Known
<1>9. RevsInv'  BY <1>1, <1>6 DEF ForeignInv, RevsInv, Known, TypeOK
<1>10. WorkInv'
  <2>1. /\ Evacuated' = Evacuated /\ Bytes' = Bytes /\ Known(k)' = Known(k)
        BY <1>1, SamePublication
  <2>2. \A s \in Slots \ {"dest"} : cur'[k][s] = cur[k][s] \/ k \notin Paths
        BY <1>4, <1>5
  <2>3. Evacuated \in Slots \ {"dest"} /\ "tmp" \in Slots \ {"dest"}
        BY <1>3, EvacuationNames DEF Slots
  <2>4. pc \in WorkPCs => k \in Paths
        BY <1>3 DEF Inv, PathInv, OnPath, PublishPCs, WorkPCs, TypeOK
  <2>5. QED  BY <1>1, <2>1, <2>2, <2>3, <2>4 DEF ForeignInv, WorkInv, WorkPCs
<1>11. ForeignBytesSurvive'
  <2>1. SUFFICES ASSUME NEW q \in Paths, foreign'[q] # Nil
                 PROVE  \E s \in Slots : cur'[q][s].rev = foreign'[q]
        BY DEF ForeignBytesSurvive
  <2>2. CASE q = p  BY <1>1, <1>2, <1>3, <1>4, <1>5, <2>1, <2>2 DEF TypeOK
  <2>3. CASE q # p
        BY <1>1, <1>3, <1>5, <2>1, <2>3 DEF ForeignInv, ForeignBytesSurvive, TypeOK
  <2>4. QED  BY <2>2, <2>3
<1>12. QED  BY <1>8, <1>9, <1>10, <1>11 DEF ForeignInv

\* The canonical files a repository starts from.
LEMMA InitForeign ==
    ASSUME Init
    PROVE  ForeignInv
<1>1. PICK canonical \in Initials :
        DirInit(canonical) /\ old = canonical /\ new = canonical
      BY DEF Init
<1>2. \A p \in Paths : canonical[p] # Torn
      BY InitialsAssumption, RevsAssumption
<1>3. NoFile.rev = Nil /\ ~Exists(NoFile) /\ Nil # Torn  BY RevsAssumption DEF NoFile, Exists
<1>4. ASSUME NEW p \in Paths
      PROVE  /\ cur[p]["dest"].rev = canonical[p]
             /\ \A s \in Slots \ {"dest"} : cur[p][s] = NoFile
             /\ dur[p] = {cur[p]}
      BY <1>1, <1>3 DEF DirInit, Slots
<1>5. ASSUME NEW p \in Paths PROVE GoodDir(p, cur[p])
  <2>1. \A s, t \in Slots : SameIdentity(cur[p][s], cur[p][t]) => s = "dest" /\ t = "dest"
        BY <1>3, <1>4 DEF SameIdentity
  <2>2. QED  BY <1>2, <1>3, <1>4, <2>1 DEF GoodDir, Slots
<1>6. FilesInv  BY <1>4, <1>5 DEF FilesInv
<1>7. RevsInv  BY <1>1, <1>2 DEF RevsInv, Known, Init
<1>8. WorkInv /\ ForeignBytesSurvive  BY DEF Init, WorkInv, WorkPCs, ForeignBytesSurvive
<1>9. QED  BY <1>6, <1>7, <1>8 DEF ForeignInv

\* Every step keeps what an operator wrote.
LEMMA NextForeign ==
    ASSUME AtomicMove, Inv, ForeignInv, [Next]_vars
    PROVE  ForeignInv'
<1>1. CASE \E b \in Requests : Begin(b)  BY <1>1, BeginForeign
<1>2. CASE Step /\ \A b \in Requests : ~Begin(b)
  <2>1. UNCHANGED <<manifestVars, foreign>>
        BY <1>2 DEF Step, Apply, Publication, Cleanup, Recovery, StepFrame, PublishFrame, historyVars,
           Acquire, Release, MkdirSync, WriteArtifacts, PrepareSync, Activate, ActivateSync,
           Abandon, Commit, CommitSync, ToCleanup, ToCleanupSync, RemoveArtifacts,
           RemoveDirectory, RemoveDirectorySync, Scan, RollbackStart, NextRollback,
           VerifyCurrent, ConfirmPublished, RollbackPath, RollbackVerify, PublishStart,
           OpenTemporary, WriteTemporary, Evacuate, EvacuateUnlink, CheckEvacuated,
           CheckSync, LinkTemporary, UnlinkTemporary, PublishSync, UnlinkEvacuated,
           EvacuatedSync, Restore, RestoreUnlink, RestoreSync, Raise, RecoverTemporary,
           RecoverTemporarySync, RecoverEvacuated, RecoverEvacuatedSync
  <2>2. WorkInv'  BY <1>2, StepWork DEF ForeignInv
  <2>3. \E p \in Paths : UNCHANGED dirVars \/ KeepsForeign(p)
    <3>1. 1 \in Paths  BY PathsAssumption DEF Paths
    <3>2. QED  BY <1>2, <3>1, StepKeepsForeign DEF ForeignInv
  <2>4. QED  BY <2>1, <2>2, <2>3, FilesKeep DEF ForeignInv, Inv
<1>3. CASE CallFails  BY <1>3, CallFailsForeign
<1>4. CASE Kill \/ UNCHANGED vars
  <2>1. UNCHANGED <<manifestVars, foreign, dirVars>>
        BY <1>4 DEF Kill, historyVars, vars
  <2>2. 1 \in Paths  BY PathsAssumption DEF Paths
  <2>3. WorkInv'
    <3>1. CASE Kill  BY <3>1, ThrowWork DEF Kill
    <3>2. CASE UNCHANGED vars
      <4>1. UNCHANGED <<cur, pc, mode, k, src, exp, old, new>>
            BY <3>2 DEF vars, dirVars, holderVars, manifestVars
      <4>2. QED  BY <2>1, <4>1, SamePublication DEF ForeignInv, WorkInv
    <3>3. QED  BY <1>4, <3>1, <3>2
  <2>4. QED  BY <2>1, <2>2, <2>3, FilesKeep DEF ForeignInv, Inv
<1>5. CASE PowerLoss  BY <1>5, PowerLossForeign
<1>6. CASE \E p \in Paths, r \in Revs \cup {Nil} : OperatorEdit(p, r)
      BY <1>6, OperatorEditForeign
<1>7. QED  BY <1>1, <1>2, <1>3, <1>4, <1>5, <1>6 DEF Next, Environment

\* Where a rename is one step, bytes that an operator put at a canonical name
\* while a batch was under way stay at one of its names, whatever is killed, fails
\* or is recovered (publishExactRegularFile, recoverExactPublication).
THEOREM ForeignBytesStay ==
    ASSUME AtomicMove
    PROVE  Spec => []ForeignBytesSurvive
<1>1. Init => ForeignInv  BY InitForeign
<1>2. Inv /\ ForeignInv /\ [Next]_vars => ForeignInv'  BY NextForeign
<1>3. ForeignInv => ForeignBytesSurvive  BY DEF ForeignInv
<1>4. QED  BY <1>1, <1>2, <1>3, Invariance, PTL DEF Spec

-------------------------------------------------------------------------------
(* The power may fail at any time, as long as no process is killed and no call *)
(* fails: what is on the disk.                                                *)

\* Where the holder has changed the directory of its path and not yet
\* synchronized it.
UnsyncedPCs == {"write", "evacuate", "evacuateUnlink", "check", "checkSync", "link", "unlinkTmp",
                "pubSync", "evacSync", "restoreUnlink", "restoreSync", "rbTmpSync", "rbEvacSync"}

\* Elsewhere the disk has what the running system sees, unless somebody edited.
SettledInv ==
    \A p \in Paths \ touched : dur[p] = {cur[p]} \/ (pc \in UnsyncedPCs /\ p = k)

\* Files that nobody edited hold what the journal says, as in AtomicInv.
DurableInv ==
    /\ \A p \in Paths \ batch : old[p] = new[p]
    /\ phase # "active" => \A p \in Paths \ touched : Visible(p) = Decided(p)
    /\ \A p \in Paths \ (batch \cup touched) : Visible(p) = old[p]
    /\ pc = "activateSync" => \A p \in Paths \ touched : Visible(p) = old[p]
    /\ pc = "commit" => \A p \in Paths \ touched : Visible(p) = new[p]
    /\ pc = "toCleanup" /\ phase = "active" => \A p \in Paths \ touched : Visible(p) = old[p]

\* Between a rename of the journal and its fsync either name may be on the disk,
\* elsewhere only the one that is seen; an active or a committed journal is whole.
BetweenPCs == {"mkdirSync", "activateSync", "commitSync", "toCleanupSync", "rmdirSync"}
SyncedInv ==
    /\ pc \notin BetweenPCs => durPhase = {phase}
    /\ pc = "mkdirSync" => durPhase = {"none", "prepare"}
    /\ pc = "activateSync" => durPhase = {"prepare", "active"}
    /\ pc = "commitSync" => durPhase = {"active", "committed"}
    /\ pc = "toCleanupSync" => durPhase \in {{"active", "cleanup"}, {"committed", "cleanup"}}
    /\ pc = "rmdirSync" => durPhase \in {{"prepare", "none"}, {"cleanup", "none"}}
    /\ durPhase \cap {"active", "committed"} # {} => full /\ durFull = {TRUE}
    /\ pc \in {"prepSync", "activate"} => full
    /\ pc = "activate" => durFull = {TRUE}
    /\ pc \notin PublishPCs => src = "none"
    /\ pc # "abandon" /\ verdict # "malformed"

\* What a publication finds on its way as long as nobody edits its path.
OwnPCs == {"publish", "open", "write", "evacuate", "evacuateUnlink", "check", "checkSync", "link",
           "unlinkTmp", "restore", "restoreUnlink", "restoreSync", "raise"}
UndisturbedInv ==
    k \notin touched =>
        /\ pc \in {"publish", "open", "write", "evacuate"} => cur[k][Source] = exp
        /\ pc \in {"evacuate", "evacuateUnlink", "check", "checkSync"} => Exists(exp)
        /\ pc = "write" => cur[k]["tmp"].rev = Torn
        /\ pc \in {"evacuate", "evacuateUnlink", "check", "checkSync", "link"} /\ Bytes # Nil =>
              Exists(cur[k]["tmp"])
        /\ pc \in {"write", "link"} => Bytes # Nil
        /\ pc \in {"evacuateUnlink", "check"} => cur[k][Evacuated] = exp
        /\ pc \in {"check", "checkSync"} => ~Exists(cur[k][Source])
        /\ pc = "link" => ~Exists(cur[k]["dest"])
        /\ pc = "unlinkTmp" => SameIdentity(cur[k]["tmp"], cur[k]["dest"])
        /\ pc = "restore" => src = "none" /\ ~Exists(cur[k]["dest"])
        /\ pc \in {"restoreUnlink", "restoreSync"} => src = "none"
        /\ pc # "raise"

PowerInv == SettledInv /\ DurableInv /\ SyncedInv /\ UndisturbedInv
CalmInv == kills = 0 /\ faults = 0 => PowerInv

\* The names and files of other paths are left alone.
OnlyPath(p) == \A q \in Paths \ {p} : cur'[q] = cur[q] /\ dur'[q] = dur[q]

\* Every directory operation is on one path.
LEMMA OperationsOnPath ==
    ASSUME DirTypeOK, NEW p
    PROVE  /\ \A d : SetDir(p, d) => OnlyPath(p)
           /\ \A s, f : SetEntry(p, s, f) => OnlyPath(p)
           /\ \A s : Unlink(p, s) => OnlyPath(p)
           /\ \A s, t : Rename(p, s, t) => OnlyPath(p)
           /\ \A s, t : Link(p, s, t) => OnlyPath(p)
           /\ \A s, r : WriteAndSyncFile(p, s, r) => OnlyPath(p)
           /\ SyncDirectory(p) => OnlyPath(p) /\ (p \in Paths => dur'[p] = {cur'[p]})
           /\ DropTemporary(p) => OnlyPath(p)
           /\ UNCHANGED dirVars => OnlyPath(p)
<1>1. \A d : SetDir(p, d) => OnlyPath(p)  BY DEF DirTypeOK, SetDir, OnlyPath
<1>2. \A s, f : SetEntry(p, s, f) => OnlyPath(p)  BY <1>1 DEF SetEntry
<1>3. \A s : Unlink(p, s) => OnlyPath(p)  BY <1>2 DEF Unlink
<1>4. \A s, t : Rename(p, s, t) => OnlyPath(p)  BY <1>1 DEF Rename
<1>5. \A s, t : Link(p, s, t) => OnlyPath(p)  BY <1>2 DEF Link
<1>6. \A s, r : WriteAndSyncFile(p, s, r) => OnlyPath(p)
      BY DEF DirTypeOK, WriteAndSyncFile, OnlyPath
<1>7. SyncDirectory(p) => OnlyPath(p) /\ (p \in Paths => dur'[p] = {cur'[p]})
      BY DEF DirTypeOK, SyncDirectory, OnlyPath
<1>8. UNCHANGED dirVars => OnlyPath(p)  BY DEF dirVars, OnlyPath
<1>9. DropTemporary(p) => OnlyPath(p)  BY <1>3, <1>8 DEF DropTemporary
<1>10. QED  BY <1>1, <1>2, <1>3, <1>4, <1>5, <1>6, <1>7, <1>8, <1>9

\* A step of the holder keeps the journal on the disk in step with its place.
LEMMA StepSynced ==
    ASSUME Inv, SyncedInv, Step, \A b \in Requests : ~Begin(b)
    PROVE  SyncedInv'
<1> USE DEF SyncedInv, BetweenPCs, PublishPCs,
        journalVars, manifestVars, holderVars, callerVars, historyVars, boundVars,
        At, Goto, GotoPath, Leave, Throw, Quiet, StepFrame, PublishFrame,
        SetPhase, SetFull, SyncTransactions, Acknowledge, PublishReturns,
        ThrowFromPublish, CallPublish
<1>a. /\ pc \in RollbackPCs \cup PublishPCs \cup {"verify", "confirm", "commit", "activateSync"} =>
            phase = "active"
      /\ pc \in {"mkdirSync", "artifacts", "prepSync", "activate"} => phase = "prepare"
      /\ pc = "commitSync" => phase = "committed"
      /\ pc = "toCleanup" => phase \in {"active", "committed"}
      /\ pc = "toCleanupSync" => phase = "cleanup"
      /\ pc \in {"rmArtifacts", "rmdir"} => phase \in {"prepare", "cleanup"}
      /\ pc = "rmdirSync" => phase = "none"
      /\ pc = "callback" => phase \in {"none", "committed", "cleanup"}
      /\ phase \in Phases
      /\ pc \in RollbackPCs => pc \notin PublishPCs
      BY DEF Inv, TypeOK, PhaseInv, ActivePCs, PreparePCs, RollbackPCs
<1> USE <1>a DEF RollbackPCs, Phases
<1>1. CASE Acquire  BY <1>1 DEF Acquire
<1>2. CASE Release  BY <1>2 DEF Release
<1>3. CASE MkdirSync  BY <1>3 DEF MkdirSync
<1>4. CASE WriteArtifacts  BY <1>4 DEF WriteArtifacts
<1>5. CASE PrepareSync  BY <1>5 DEF PrepareSync
<1>6. CASE Activate  BY <1>6 DEF Activate
<1>7. CASE ActivateSync  BY <1>7 DEF ActivateSync
<1>8. CASE Abandon  BY <1>8 DEF Abandon
<1>9. CASE Commit  BY <1>9 DEF Commit
<1>10. CASE CommitSync  BY <1>10 DEF CommitSync
<1>11. CASE ToCleanup  BY <1>11 DEF ToCleanup
<1>12. CASE ToCleanupSync  BY <1>12 DEF ToCleanupSync
<1>13. CASE RemoveArtifacts  BY <1>13 DEF RemoveArtifacts
<1>14. CASE RemoveDirectory  BY <1>14 DEF RemoveDirectory
<1>15. CASE RemoveDirectorySync  BY <1>15 DEF RemoveDirectorySync
<1>16. CASE Scan  BY <1>16 DEF Scan
<1>17. CASE RollbackStart  BY <1>17 DEF RollbackStart
<1>18. CASE NextRollback  BY <1>18 DEF NextRollback
<1>19. CASE VerifyCurrent  BY <1>19 DEF VerifyCurrent
<1>20. CASE ConfirmPublished  BY <1>20 DEF ConfirmPublished
<1>21. CASE RollbackPath  BY <1>21 DEF RollbackPath
<1>22. CASE RollbackVerify  BY <1>22 DEF RollbackVerify
<1>23. CASE PublishStart  BY <1>23 DEF PublishStart
<1>24. CASE OpenTemporary  BY <1>24 DEF OpenTemporary
<1>25. CASE WriteTemporary  BY <1>25 DEF WriteTemporary
<1>26. CASE Evacuate  BY <1>26 DEF Evacuate
<1>27. CASE EvacuateUnlink  BY <1>27 DEF EvacuateUnlink
<1>28. CASE CheckEvacuated  BY <1>28 DEF CheckEvacuated
<1>29. CASE CheckSync  BY <1>29 DEF CheckSync
<1>30. CASE LinkTemporary  BY <1>30 DEF LinkTemporary
<1>31. CASE UnlinkTemporary  BY <1>31 DEF UnlinkTemporary
<1>32. CASE PublishSync  BY <1>32 DEF PublishSync
<1>33. CASE UnlinkEvacuated  BY <1>33 DEF UnlinkEvacuated
<1>34. CASE EvacuatedSync  BY <1>34 DEF EvacuatedSync
<1>35. CASE Restore  BY <1>35 DEF Restore
<1>36. CASE RestoreUnlink  BY <1>36 DEF RestoreUnlink
<1>37. CASE RestoreSync  BY <1>37 DEF RestoreSync
<1>38. CASE Raise  BY <1>38 DEF Raise
<1>39. CASE RecoverTemporary  BY <1>39 DEF RecoverTemporary
<1>40. CASE RecoverTemporarySync  BY <1>40 DEF RecoverTemporarySync
<1>41. CASE RecoverEvacuated  BY <1>41 DEF RecoverEvacuated
<1>42. CASE RecoverEvacuatedSync  BY <1>42 DEF RecoverEvacuatedSync
<1>43. QED
  BY <1>1, <1>2, <1>3, <1>4, <1>5, <1>6, <1>7, <1>8, <1>9, <1>10, <1>11, <1>12, <1>13, <1>14,
     <1>15, <1>16, <1>17, <1>18, <1>19, <1>20, <1>21, <1>22, <1>23, <1>24, <1>25, <1>26, <1>27, <1>28,
     <1>29, <1>30, <1>31, <1>32, <1>33, <1>34, <1>35, <1>36, <1>37, <1>38, <1>39, <1>40, <1>41, <1>42
  DEF Step, Apply, Publication, Cleanup, Recovery

\* A step of the holder changes the directory of its own path only.
LEMMA StepOnPath ==
    ASSUME DirTypeOK, Step, \A b \in Requests : ~Begin(b)
    PROVE  OnlyPath(k)
<1> USE OperationsOnPath DEF ThrowFromPublish
<1>1. CASE Acquire  BY <1>1 DEF Acquire
<1>2. CASE Release  BY <1>2 DEF Release
<1>3. CASE MkdirSync  BY <1>3 DEF MkdirSync
<1>4. CASE WriteArtifacts  BY <1>4 DEF WriteArtifacts
<1>5. CASE PrepareSync  BY <1>5 DEF PrepareSync
<1>6. CASE Activate  BY <1>6 DEF Activate
<1>7. CASE ActivateSync  BY <1>7 DEF ActivateSync
<1>8. CASE Abandon  BY <1>8 DEF Abandon
<1>9. CASE Commit  BY <1>9 DEF Commit
<1>10. CASE CommitSync  BY <1>10 DEF CommitSync
<1>11. CASE ToCleanup  BY <1>11 DEF ToCleanup
<1>12. CASE ToCleanupSync  BY <1>12 DEF ToCleanupSync
<1>13. CASE RemoveArtifacts  BY <1>13 DEF RemoveArtifacts
<1>14. CASE RemoveDirectory  BY <1>14 DEF RemoveDirectory
<1>15. CASE RemoveDirectorySync  BY <1>15 DEF RemoveDirectorySync
<1>16. CASE Scan  BY <1>16 DEF Scan
<1>17. CASE RollbackStart  BY <1>17 DEF RollbackStart
<1>18. CASE NextRollback  BY <1>18 DEF NextRollback
<1>19. CASE VerifyCurrent  BY <1>19 DEF VerifyCurrent
<1>20. CASE ConfirmPublished  BY <1>20 DEF ConfirmPublished
<1>21. CASE RollbackPath  BY <1>21 DEF RollbackPath
<1>22. CASE RollbackVerify  BY <1>22 DEF RollbackVerify
<1>23. CASE PublishStart  BY <1>23 DEF PublishStart
<1>24. CASE OpenTemporary  BY <1>24 DEF OpenTemporary
<1>25. CASE WriteTemporary  BY <1>25 DEF WriteTemporary
<1>26. CASE Evacuate  BY <1>26 DEF Evacuate
<1>27. CASE EvacuateUnlink  BY <1>27 DEF EvacuateUnlink
<1>28. CASE CheckEvacuated  BY <1>28 DEF CheckEvacuated
<1>29. CASE CheckSync  BY <1>29 DEF CheckSync
<1>30. CASE LinkTemporary  BY <1>30 DEF LinkTemporary
<1>31. CASE UnlinkTemporary  BY <1>31 DEF UnlinkTemporary
<1>32. CASE PublishSync  BY <1>32 DEF PublishSync
<1>33. CASE UnlinkEvacuated  BY <1>33 DEF UnlinkEvacuated
<1>34. CASE EvacuatedSync  BY <1>34 DEF EvacuatedSync
<1>35. CASE Restore  BY <1>35 DEF Restore
<1>36. CASE RestoreUnlink  BY <1>36 DEF RestoreUnlink
<1>37. CASE RestoreSync  BY <1>37 DEF RestoreSync
<1>38. CASE Raise  BY <1>38 DEF Raise
<1>39. CASE RecoverTemporary  BY <1>39 DEF RecoverTemporary
<1>40. CASE RecoverTemporarySync  BY <1>40 DEF RecoverTemporarySync
<1>41. CASE RecoverEvacuated  BY <1>41 DEF RecoverEvacuated
<1>42. CASE RecoverEvacuatedSync  BY <1>42 DEF RecoverEvacuatedSync
<1>43. QED
  BY <1>1, <1>2, <1>3, <1>4, <1>5, <1>6, <1>7, <1>8, <1>9, <1>10, <1>11, <1>12, <1>13, <1>14,
     <1>15, <1>16, <1>17, <1>18, <1>19, <1>20, <1>21, <1>22, <1>23, <1>24, <1>25, <1>26, <1>27, <1>28,
     <1>29, <1>30, <1>31, <1>32, <1>33, <1>34, <1>35, <1>36, <1>37, <1>38, <1>39, <1>40, <1>41, <1>42
  DEF Step, Apply, Publication, Cleanup, Recovery

\* Outside of a publication there is nothing it could find.
LEMMA OutsideUndisturbed ==
    ASSUME pc' \notin OwnPCs
    PROVE  UndisturbedInv'
BY DEF UndisturbedInv, OwnPCs

\* An exception and the return of a publication lead outside.
LEMMA ThrowUndisturbed ==
    ASSUME NEW v, Throw(v) \/ Leave(v) \/ PublishReturns
    PROVE  UndisturbedInv'
BY OutsideUndisturbed DEF Throw, Leave, Goto, PublishReturns, OwnPCs

\* A publication begins with the file that is there.
LEMMA CallUndisturbed ==
    ASSUME NEW s \in {"dest", "tmp", "evac"}, CallPublish(s), UNCHANGED dirVars
    PROVE  UndisturbedInv'
BY DEF CallPublish, UndisturbedInv, OwnPCs, dirVars, Source

\* A step of the holder: what a publication finds.
LEMMA StepUndisturbed ==
    ASSUME Inv, SyncedInv, UndisturbedInv, Step, \A b \in Requests : ~Begin(b)
    PROVE  UndisturbedInv'
<1> USE OutsideUndisturbed, ThrowUndisturbed
    DEF OnPath, PublishPCs, OwnPCs, At, ThrowFromPublish, Goto, GotoPath, Acknowledge,
        PublishFrame, StepFrame
<1>a. /\ DirTypeOK /\ TypeOK /\ (pc \in OnPath => k \in Paths)
      /\ {"tmp", "dest", "evac", "tmpEvac", "evacEvac"} \subseteq Slots
      /\ Torn # Nil
      BY RevsAssumption DEF Inv, TypeOK, PathInv, Slots
<1>b. k \in Paths => cur[k] \in Dir  BY <1>a DEF DirTypeOK
<1>c. UNCHANGED touched  BY StepEffects DEF StepEffect
<1>d. pc \notin PublishPCs => src = "none"  BY DEF SyncedInv
<1> USE <1>a, <1>b, <1>c, <1>d
<1>1. CASE Acquire  BY <1>1 DEF Acquire
<1>2. CASE Release  BY <1>2 DEF Release
<1>3. CASE MkdirSync  BY <1>3 DEF MkdirSync
<1>4. CASE WriteArtifacts  BY <1>4 DEF WriteArtifacts
<1>5. CASE PrepareSync  BY <1>5 DEF PrepareSync
<1>6. CASE Activate  BY <1>6 DEF Activate
<1>7. CASE ActivateSync  BY <1>7 DEF ActivateSync
<1>8. CASE Abandon  BY <1>8 DEF Abandon
<1>9. CASE Commit  BY <1>9 DEF Commit
<1>10. CASE CommitSync  BY <1>10 DEF CommitSync
<1>11. CASE ToCleanup  BY <1>11 DEF ToCleanup
<1>12. CASE ToCleanupSync  BY <1>12 DEF ToCleanupSync
<1>13. CASE RemoveArtifacts  BY <1>13 DEF RemoveArtifacts
<1>14. CASE RemoveDirectory  BY <1>14 DEF RemoveDirectory
<1>15. CASE RemoveDirectorySync  BY <1>15 DEF RemoveDirectorySync
<1>16. CASE Scan  BY <1>16 DEF Scan
<1>17. CASE RollbackStart  BY <1>17 DEF RollbackStart
<1>18. CASE NextRollback  BY <1>18 DEF NextRollback
<1>19. CASE VerifyCurrent  BY CallUndisturbed, <1>19 DEF VerifyCurrent
<1>20. CASE ConfirmPublished  BY <1>20 DEF ConfirmPublished
<1>21. CASE RollbackPath  BY CallUndisturbed, <1>21 DEF RollbackPath
<1>22. CASE RollbackVerify  BY <1>22 DEF RollbackVerify
<1>23. CASE PublishStart
  <2>1. CASE Goto("open") /\ UNCHANGED dirVars
    <3>1. pc = "publish" /\ UNCHANGED manifestVars  BY <1>23 DEF PublishStart
    <3>2. QED  BY <2>1, <3>1, SamePublication DEF UndisturbedInv, dirVars
  <2>2. QED  BY <2>1, <1>23 DEF PublishStart
<1>24. CASE OpenTemporary
  <2>1. pc = "open" /\ k \in Paths /\ UNCHANGED manifestVars  BY <1>24 DEF OpenTemporary
  <2>2. CASE Goto("evacuate") /\ UNCHANGED dirVars /\ Bytes = Nil /\ Exists(exp)
        BY <2>1, <2>2, SamePublication DEF UndisturbedInv, dirVars
  <2>3. CASE /\ Goto("write") /\ Bytes # Nil
             /\ \E i \in Inodes : SetEntry(k, "tmp", [rev |-> Torn, ino |-> i])
    <3>1. /\ \A s \in Slots \ {"tmp"} : cur'[k][s] = cur[k][s]
          /\ cur'[k]["tmp"].rev = Torn
          BY <2>1, <2>3 DEF SetEntry, SetDir, DirTypeOK, Dir
    <3>2. Source = "dest"  BY <2>3 DEF Bytes, Source
    <3>3. QED  BY <2>1, <2>3, <3>1, <3>2, SamePublication DEF UndisturbedInv
  <2>4. QED  BY <2>2, <2>3, <1>24 DEF OpenTemporary
<1>25. CASE WriteTemporary
  <2>1. pc = "write" /\ k \in Paths /\ UNCHANGED manifestVars  BY <1>25 DEF WriteTemporary
  <2>2. SUFFICES ASSUME k \notin touched PROVE UndisturbedInv'
        BY <2>1, <1>25 DEF WriteTemporary, UndisturbedInv
  <2>3. Bytes # Nil /\ cur[k]["tmp"].rev = Torn /\ cur[k][Source] = exp
        BY <2>1, <2>2 DEF UndisturbedInv
  <2>4. Source = "dest"  BY <2>3 DEF Bytes, Source
  <2>5. /\ \A s \in Slots \ {"tmp"} : cur'[k][s] = cur[k][s]
        /\ cur'[k]["tmp"].rev = Bytes
        BY <2>1, <2>3, <1>25 DEF WriteTemporary, WriteAndSyncFile, DirTypeOK, Dir, File
  <2>6. Exists(cur'[k]["tmp"])  BY <2>3, <2>5 DEF Exists
  <2>7. CASE Goto("evacuate") /\ Exists(exp)
        BY <2>1, <2>3, <2>4, <2>5, <2>6, <2>7, SamePublication DEF UndisturbedInv
  <2>8. CASE Goto("link") /\ ~Exists(exp)
        BY <2>1, <2>3, <2>4, <2>5, <2>6, <2>8, SamePublication DEF UndisturbedInv
  <2>9. QED  BY <2>7, <2>8, <1>25 DEF WriteTemporary
<1>26. CASE Evacuate
  <2>1. pc = "evacuate" /\ k \in Paths /\ UNCHANGED manifestVars  BY <1>26 DEF Evacuate
  <2>2. CASE Rename(k, Source, Evacuated) /\ Goto("check")
    <3>1. /\ \A s \in Slots \ {Source, Evacuated} : cur'[k][s] = cur[k][s]
          /\ cur'[k][Evacuated] = cur[k][Source] /\ cur'[k][Source] = NoFile
          BY <2>1, <2>2, EvacuationNames DEF Rename, SetDir, DirTypeOK, Dir
    <3>2. Bytes # Nil => cur'[k]["tmp"] = cur[k]["tmp"]
          BY <3>1, EvacuationNames DEF Bytes
    <3>3. ~Exists(cur'[k][Source])  BY <3>1 DEF NoFile, Exists
    <3>4. QED  BY <2>1, <2>2, <3>1, <3>2, <3>3, SamePublication DEF UndisturbedInv
  <2>3. CASE Link(k, Source, Evacuated) /\ Goto("evacuateUnlink")
    <3>1. /\ \A s \in Slots \ {Evacuated} : cur'[k][s] = cur[k][s]
          /\ cur'[k][Evacuated] = cur[k][Source]
          BY <2>1, <2>3, EvacuationNames DEF Link, SetEntry, SetDir, DirTypeOK, Dir
    <3>2. cur'[k]["tmp"] = cur[k]["tmp"]  BY <3>1, EvacuationNames
    <3>3. QED  BY <2>1, <2>3, <3>1, <3>2, SamePublication DEF UndisturbedInv
  <2>4. QED  BY <2>2, <2>3, <1>26 DEF Evacuate
<1>27. CASE EvacuateUnlink
  <2>1. pc = "evacuateUnlink" /\ k \in Paths /\ UNCHANGED manifestVars  BY <1>27 DEF EvacuateUnlink
  <2>2. /\ \A s \in Slots \ {Source} : cur'[k][s] = cur[k][s]
        /\ cur'[k][Source] = NoFile
        BY <2>1, <1>27, EvacuationNames DEF EvacuateUnlink, Unlink, SetEntry, SetDir, DirTypeOK, Dir
  <2>3. ~Exists(cur'[k][Source])  BY <2>2 DEF NoFile, Exists
  <2>4. Bytes # Nil => cur'[k]["tmp"] = cur[k]["tmp"]  BY <2>2, EvacuationNames DEF Bytes
  <2>5. cur'[k][Evacuated] = cur[k][Evacuated]  BY <2>2, EvacuationNames
  <2>6. Goto("check")  BY <1>27 DEF EvacuateUnlink
  <2>7. QED  BY <2>1, <2>3, <2>4, <2>5, <2>6, SamePublication DEF UndisturbedInv
<1>28. CASE CheckEvacuated
  <2>1. pc = "check" /\ k \in Paths /\ UNCHANGED <<manifestVars, dirVars>>
        BY <1>28 DEF CheckEvacuated
  <2>2. SUFFICES ASSUME k \notin touched PROVE UndisturbedInv'
        BY <2>1, <1>28 DEF CheckEvacuated, UndisturbedInv
  <2>3. cur[k][Evacuated] = exp /\ Exists(exp)  BY <2>1, <2>2 DEF UndisturbedInv
  <2>4. Goto("checkSync")  BY <2>3, <1>28 DEF CheckEvacuated, SameIdentity
  <2>5. QED  BY <2>1, <2>2, <2>4, SamePublication DEF UndisturbedInv, dirVars
<1>29. CASE CheckSync
  <2>1. pc = "checkSync" /\ k \in Paths /\ UNCHANGED manifestVars /\ cur' = cur
        BY <1>29 DEF CheckSync, SyncDirectory
  <2>2. CASE Goto("link") /\ Bytes # Nil
    <3>1. Source = "dest"  BY <2>2 DEF Bytes, Source
    <3>2. QED  BY <2>1, <2>2, <3>1, SamePublication DEF UndisturbedInv
  <2>3. QED  BY <2>2, <1>29 DEF CheckSync
<1>30. CASE LinkTemporary
  <2>1. pc = "link" /\ k \in Paths /\ UNCHANGED manifestVars  BY <1>30 DEF LinkTemporary
  <2>2. SUFFICES ASSUME k \notin touched PROVE UndisturbedInv'
        BY <2>1, <1>30 DEF LinkTemporary, UndisturbedInv, Throw, Leave, DropTemporary
  <2>3. ~Exists(cur[k]["dest"]) /\ Exists(cur[k]["tmp"])  BY <2>1, <2>2 DEF UndisturbedInv
  <2>4. Link(k, "tmp", "dest") /\ Goto("unlinkTmp")  BY <2>3, <1>30 DEF LinkTemporary
  <2>5. cur'[k]["dest"] = cur[k]["tmp"] /\ cur'[k]["tmp"] = cur[k]["tmp"]
        BY <2>1, <2>4 DEF Link, SetEntry, SetDir, DirTypeOK, Dir
  <2>6. SameIdentity(cur'[k]["tmp"], cur'[k]["dest"])  BY <2>3, <2>5 DEF SameIdentity
  <2>7. QED  BY <2>4, <2>6 DEF UndisturbedInv
<1>31. CASE UnlinkTemporary  BY <1>31 DEF UnlinkTemporary
<1>32. CASE PublishSync  BY <1>32 DEF PublishSync
<1>33. CASE UnlinkEvacuated  BY <1>33 DEF UnlinkEvacuated
<1>34. CASE EvacuatedSync  BY <1>34 DEF EvacuatedSync
<1>35. CASE Restore
  <2>1. pc = "restore" /\ k \in Paths  BY <1>35 DEF Restore
  <2>2. CASE Goto("restoreSync") \/ Goto("restoreUnlink")
        BY <2>1, <2>2 DEF UndisturbedInv
  <2>3. QED  BY <2>2, <1>35 DEF Restore
<1>36. CASE RestoreUnlink  BY <1>36 DEF RestoreUnlink, UndisturbedInv
<1>37. CASE RestoreSync  BY <1>37 DEF RestoreSync, UndisturbedInv
<1>38. CASE Raise  BY <1>38 DEF Raise
<1>39. CASE RecoverTemporary  BY CallUndisturbed, <1>39 DEF RecoverTemporary
<1>40. CASE RecoverTemporarySync  BY <1>40 DEF RecoverTemporarySync
<1>41. CASE RecoverEvacuated
  <2>1. CASE Goto("restore") /\ ~Exists(cur[k]["dest"]) /\ UNCHANGED dirVars
    <3>1. src = "none"  BY <1>41 DEF RecoverEvacuated
    <3>2. QED  BY <2>1, <3>1 DEF UndisturbedInv, dirVars
  <2>2. QED  BY <2>1, CallUndisturbed, <1>41 DEF RecoverEvacuated
<1>42. CASE RecoverEvacuatedSync  BY <1>42 DEF RecoverEvacuatedSync
<1>43. QED
  BY <1>1, <1>2, <1>3, <1>4, <1>5, <1>6, <1>7, <1>8, <1>9, <1>10, <1>11, <1>12, <1>13, <1>14,
     <1>15, <1>16, <1>17, <1>18, <1>19, <1>20, <1>21, <1>22, <1>23, <1>24, <1>25, <1>26, <1>27, <1>28,
     <1>29, <1>30, <1>31, <1>32, <1>33, <1>34, <1>35, <1>36, <1>37, <1>38, <1>39, <1>40, <1>41, <1>42
  DEF Step, Apply, Publication, Cleanup, Recovery

\* A step leaves the directories alone, leaves its path for the fsync to come, or
\* is that fsync.
SyncEffect ==
    \/ UNCHANGED dirVars /\ pc \notin UnsyncedPCs
    \/ UNCHANGED k /\ pc' \in UnsyncedPCs
    \/ k \in Paths /\ SyncDirectory(k)

\* So does every step of the holder, unless its path was edited.
LEMMA StepSyncs ==
    ASSUME Inv, UndisturbedInv, Step, \A b \in Requests : ~Begin(b), k \notin touched
    PROVE  SyncEffect
<1> USE DEF SyncEffect, OnPath, PublishPCs, UnsyncedPCs, At, Goto, PublishFrame, StepFrame,
            DropTemporary
<1>a. pc \in OnPath => k \in Paths  BY DEF Inv, TypeOK, PathInv
<1> USE <1>a
<1>1. CASE Acquire  BY <1>1 DEF Acquire
<1>2. CASE Release  BY <1>2 DEF Release
<1>3. CASE MkdirSync  BY <1>3 DEF MkdirSync
<1>4. CASE WriteArtifacts  BY <1>4 DEF WriteArtifacts
<1>5. CASE PrepareSync  BY <1>5 DEF PrepareSync
<1>6. CASE Activate  BY <1>6 DEF Activate
<1>7. CASE ActivateSync  BY <1>7 DEF ActivateSync
<1>8. CASE Abandon  BY <1>8 DEF Abandon
<1>9. CASE Commit  BY <1>9 DEF Commit
<1>10. CASE CommitSync  BY <1>10 DEF CommitSync
<1>11. CASE ToCleanup  BY <1>11 DEF ToCleanup
<1>12. CASE ToCleanupSync  BY <1>12 DEF ToCleanupSync
<1>13. CASE RemoveArtifacts  BY <1>13 DEF RemoveArtifacts
<1>14. CASE RemoveDirectory  BY <1>14 DEF RemoveDirectory
<1>15. CASE RemoveDirectorySync  BY <1>15 DEF RemoveDirectorySync
<1>16. CASE Scan  BY <1>16 DEF Scan
<1>17. CASE RollbackStart  BY <1>17 DEF RollbackStart
<1>18. CASE NextRollback  BY <1>18 DEF NextRollback
<1>19. CASE VerifyCurrent  BY <1>19 DEF VerifyCurrent
<1>20. CASE ConfirmPublished  BY <1>20 DEF ConfirmPublished
<1>21. CASE RollbackPath  BY <1>21 DEF RollbackPath
<1>22. CASE RollbackVerify  BY <1>22 DEF RollbackVerify
<1>23. CASE PublishStart  BY <1>23 DEF PublishStart
<1>24. CASE OpenTemporary  BY <1>24 DEF OpenTemporary
<1>25. CASE WriteTemporary  BY <1>25 DEF WriteTemporary
<1>26. CASE Evacuate  BY <1>26 DEF Evacuate, UndisturbedInv, SameIdentity, Source
<1>27. CASE EvacuateUnlink  BY <1>27 DEF EvacuateUnlink
<1>28. CASE CheckEvacuated  BY <1>28 DEF CheckEvacuated, UndisturbedInv, SameIdentity, Source
<1>29. CASE CheckSync  BY <1>29 DEF CheckSync
<1>30. CASE LinkTemporary  BY <1>30 DEF LinkTemporary, UndisturbedInv, SameIdentity, Source
<1>31. CASE UnlinkTemporary  BY <1>31 DEF UnlinkTemporary, UndisturbedInv, SameIdentity, Source
<1>32. CASE PublishSync  BY <1>32 DEF PublishSync
<1>33. CASE UnlinkEvacuated  BY <1>33 DEF UnlinkEvacuated
<1>34. CASE EvacuatedSync  BY <1>34 DEF EvacuatedSync
<1>35. CASE Restore  BY <1>35 DEF Restore, UndisturbedInv, SameIdentity, Source
<1>36. CASE RestoreUnlink  BY <1>36 DEF RestoreUnlink
<1>37. CASE RestoreSync  BY <1>37 DEF RestoreSync
<1>38. CASE Raise  BY <1>38 DEF Raise, UndisturbedInv, SameIdentity, Source
<1>39. CASE RecoverTemporary  BY <1>39 DEF RecoverTemporary
<1>40. CASE RecoverTemporarySync  BY <1>40 DEF RecoverTemporarySync
<1>41. CASE RecoverEvacuated  BY <1>41 DEF RecoverEvacuated
<1>42. CASE RecoverEvacuatedSync  BY <1>42 DEF RecoverEvacuatedSync
<1>43. QED
  BY <1>1, <1>2, <1>3, <1>4, <1>5, <1>6, <1>7, <1>8, <1>9, <1>10, <1>11, <1>12, <1>13, <1>14,
     <1>15, <1>16, <1>17, <1>18, <1>19, <1>20, <1>21, <1>22, <1>23, <1>24, <1>25, <1>26, <1>27, <1>28,
     <1>29, <1>30, <1>31, <1>32, <1>33, <1>34, <1>35, <1>36, <1>37, <1>38, <1>39, <1>40, <1>41, <1>42
  DEF Step, Apply, Publication, Cleanup, Recovery

\* A step of the holder keeps the disk in step with what the system sees.
LEMMA StepSettled ==
    ASSUME Inv, SettledInv, UndisturbedInv, Step, \A b \in Requests : ~Begin(b)
    PROVE  SettledInv'
<1>1. UNCHANGED touched  BY StepEffects DEF StepEffect
<1>2. OnlyPath(k)  BY StepOnPath DEF Inv, TypeOK
<1>3. SUFFICES ASSUME NEW p \in Paths \ touched
               PROVE  dur'[p] = {cur'[p]} \/ (pc' \in UnsyncedPCs /\ p = k')
      BY <1>1 DEF SettledInv
<1>4. dur[p] = {cur[p]} \/ (pc \in UnsyncedPCs /\ p = k)  BY DEF SettledInv
<1>5. CASE p # k  BY <1>2, <1>4, <1>5 DEF OnlyPath
<1>6. CASE p = k
  <2>1. SyncEffect  BY <1>3, <1>6, StepSyncs
  <2>2. CASE UNCHANGED dirVars /\ pc \notin UnsyncedPCs  BY <1>4, <2>2 DEF dirVars
  <2>3. CASE UNCHANGED k /\ pc' \in UnsyncedPCs  BY <1>6, <2>3
  <2>4. CASE k \in Paths /\ SyncDirectory(k)
        BY <1>6, <2>4, OperationsOnPath DEF Inv, TypeOK
  <2>5. QED  BY <2>1, <2>2, <2>3, <2>4 DEF SyncEffect
<1>7. QED  BY <1>5, <1>6

\* Only one step leads to the fsync that activates a journal.
LEMMA StepActivates ==
    ASSUME Step, \A b \in Requests : ~Begin(b), pc' = "activateSync"
    PROVE  Activate
<1> USE DEF Goto, GotoPath, Leave, Throw, Acknowledge, PublishReturns, ThrowFromPublish, CallPublish
<1>1. CASE Acquire  BY <1>1 DEF Acquire
<1>2. CASE Release  BY <1>2 DEF Release
<1>3. CASE MkdirSync  BY <1>3 DEF MkdirSync
<1>4. CASE WriteArtifacts  BY <1>4 DEF WriteArtifacts
<1>5. CASE PrepareSync  BY <1>5 DEF PrepareSync
<1>6. CASE Activate  BY <1>6
<1>7. CASE ActivateSync  BY <1>7 DEF ActivateSync
<1>8. CASE Abandon  BY <1>8 DEF Abandon
<1>9. CASE Commit  BY <1>9 DEF Commit
<1>10. CASE CommitSync  BY <1>10 DEF CommitSync
<1>11. CASE ToCleanup  BY <1>11 DEF ToCleanup
<1>12. CASE ToCleanupSync  BY <1>12 DEF ToCleanupSync
<1>13. CASE RemoveArtifacts  BY <1>13 DEF RemoveArtifacts
<1>14. CASE RemoveDirectory  BY <1>14 DEF RemoveDirectory
<1>15. CASE RemoveDirectorySync  BY <1>15 DEF RemoveDirectorySync
<1>16. CASE Scan  BY <1>16 DEF Scan
<1>17. CASE RollbackStart  BY <1>17 DEF RollbackStart
<1>18. CASE NextRollback  BY <1>18 DEF NextRollback
<1>19. CASE VerifyCurrent  BY <1>19 DEF VerifyCurrent
<1>20. CASE ConfirmPublished  BY <1>20 DEF ConfirmPublished
<1>21. CASE RollbackPath  BY <1>21 DEF RollbackPath
<1>22. CASE RollbackVerify  BY <1>22 DEF RollbackVerify
<1>23. CASE PublishStart  BY <1>23 DEF PublishStart
<1>24. CASE OpenTemporary  BY <1>24 DEF OpenTemporary
<1>25. CASE WriteTemporary  BY <1>25 DEF WriteTemporary
<1>26. CASE Evacuate  BY <1>26 DEF Evacuate
<1>27. CASE EvacuateUnlink  BY <1>27 DEF EvacuateUnlink
<1>28. CASE CheckEvacuated  BY <1>28 DEF CheckEvacuated
<1>29. CASE CheckSync  BY <1>29 DEF CheckSync
<1>30. CASE LinkTemporary  BY <1>30 DEF LinkTemporary
<1>31. CASE UnlinkTemporary  BY <1>31 DEF UnlinkTemporary
<1>32. CASE PublishSync  BY <1>32 DEF PublishSync
<1>33. CASE UnlinkEvacuated  BY <1>33 DEF UnlinkEvacuated
<1>34. CASE EvacuatedSync  BY <1>34 DEF EvacuatedSync
<1>35. CASE Restore  BY <1>35 DEF Restore
<1>36. CASE RestoreUnlink  BY <1>36 DEF RestoreUnlink
<1>37. CASE RestoreSync  BY <1>37 DEF RestoreSync
<1>38. CASE Raise  BY <1>38 DEF Raise
<1>39. CASE RecoverTemporary  BY <1>39 DEF RecoverTemporary
<1>40. CASE RecoverTemporarySync  BY <1>40 DEF RecoverTemporarySync
<1>41. CASE RecoverEvacuated  BY <1>41 DEF RecoverEvacuated
<1>42. CASE RecoverEvacuatedSync  BY <1>42 DEF RecoverEvacuatedSync
<1>43. QED
  BY <1>1, <1>2, <1>3, <1>4, <1>5, <1>6, <1>7, <1>8, <1>9, <1>10, <1>11, <1>12, <1>13, <1>14,
     <1>15, <1>16, <1>17, <1>18, <1>19, <1>20, <1>21, <1>22, <1>23, <1>24, <1>25, <1>26, <1>27, <1>28,
     <1>29, <1>30, <1>31, <1>32, <1>33, <1>34, <1>35, <1>36, <1>37, <1>38, <1>39, <1>40, <1>41, <1>42
  DEF Step, Apply, Publication, Cleanup, Recovery

\* A step of the holder keeps the files and the journal in step, as StepAtomic.
LEMMA StepDurable ==
    ASSUME Inv, DurableInv, Step, \A b \in Requests : ~Begin(b)
    PROVE  DurableInv'
<1>1. StepEffect  BY StepEffects
<1>2. DirStep  BY StepDirs
<1>3. \A p \in Paths : p # k \/ phase # "active" \/ k \notin batch =>
                         Visible(p)' = Visible(p)
      BY <1>2 DEF DirStep, LocalChange, Visible, dirVars
<1>4. /\ UNCHANGED <<batch, old, new, touched>>
      /\ \A p \in Paths \ batch : old[p] = new[p]
      BY <1>1 DEF StepEffect, DurableInv
<1>5. \A p \in Paths \ (batch \cup touched) : Visible(p)' = old[p]
      BY <1>3 DEF DurableInv
<1>6. ASSUME pc' = "commit" PROVE \A p \in Paths \ touched : Visible(p)' = new[p]
  <2>1. ConfirmPublished  BY <1>1, <1>6 DEF StepEffect
  <2>2. /\ \A p \in batch : Visible(p) = new[p]
        /\ \A p \in Paths : Visible(p)' = Visible(p)
        BY <1>6, <2>1 DEF ConfirmPublished, IsCurrent, Visible, dirVars, Throw, Goto, Leave
  <2>3. QED  BY <1>4, <1>5, <2>2
<1>7. ASSUME pc' = "toCleanup", phase' = "active"
      PROVE  \A p \in Paths \ touched : Visible(p)' = old[p]
  <2>1. RollbackVerify  BY <1>1, <1>7 DEF StepEffect
  <2>2. /\ \A p \in batch : Visible(p) = old[p]
        /\ \A p \in Paths : Visible(p)' = Visible(p)
        BY <1>7, <2>1 DEF RollbackVerify, IsCurrent, Visible, dirVars, Leave
  <2>3. QED  BY <1>5, <2>2
<1>8. ASSUME phase' # "active"
      PROVE  \A p \in Paths \ touched : Visible(p)' = Decided(p)'
  <2>1. CASE phase # "active"
    <3>1. committed' = committed
          BY <1>1, <1>8, <2>1 DEF StepEffect, Inv, PhaseInv, ActivePCs
    <3>2. QED  BY <1>3, <1>4, <2>1, <3>1 DEF DurableInv, Decided
  <2>2. CASE phase = "active" /\ pc = "commit"
    <3>1. Commit  BY <1>1, <2>2 DEF StepEffect
    <3>2. \A p \in Paths : Visible(p)' = Visible(p)  BY <3>1 DEF Commit, Visible, dirVars
    <3>3. QED  BY <1>4, <2>2, <3>1, <3>2 DEF Commit, DurableInv, Decided
  <2>3. CASE phase = "active" /\ pc = "toCleanup"
    <3>1. committed' = committed /\ ~committed
          BY <1>1, <1>8, <2>3 DEF StepEffect, Inv, CommitInv
    <3>2. \A p \in Paths \ touched : Visible(p) = old[p]
          BY <2>3 DEF DurableInv
    <3>3. UNCHANGED dirVars  BY <1>1, <2>3 DEF StepEffect, ToCleanup
    <3>4. QED  BY <1>4, <3>1, <3>2, <3>3 DEF Visible, Decided, dirVars
  <2>4. CASE phase = "active" /\ pc \notin {"commit", "toCleanup"}
        BY <1>1, <1>8, <2>4 DEF StepEffect
  <2>5. QED  BY <2>1, <2>2, <2>3, <2>4
<1>9. ASSUME pc' = "activateSync" PROVE \A p \in Paths \ touched : Visible(p)' = old[p]
  <2>1. Activate  BY <1>9, StepActivates
  <2>2. /\ UNCHANGED dirVars /\ phase = "prepare" /\ ~committed
        BY <2>1 DEF Activate, At, Inv, PhaseInv, PreparePCs, CommitInv
  <2>3. QED  BY <2>2 DEF DurableInv, Decided, Visible, dirVars
<1>10. QED  BY <1>4, <1>5, <1>6, <1>7, <1>8, <1>9 DEF DurableInv

\* Where a directory waits for its fsync, the journal of its path is active.
LEMMA UnsyncedIsActive ==
    ASSUME Inv, pc \in UnsyncedPCs
    PROVE  phase = "active" /\ k \in batch
BY DEF Inv, PathInv, PhaseInv, UnsyncedPCs, OnPath, ActivePCs, PublishPCs, RollbackPCs

\* A new batch counts what is not yet on the disk as edited.
LEMMA BeginPower ==
    ASSUME Inv, SyncedInv, NEW b \in Requests, Begin(b)
    PROVE  PowerInv'
<1> DEFINE own(d) == [s \in Slots |-> IF s = "dest" THEN d[s] ELSE NoFile]
<1>1. /\ cur' = [p \in Paths |-> own(cur[p])]
      /\ dur' = [p \in Paths |-> {own(d) : d \in dur[p]}]
      BY DEF Begin
<1>2. \A p \in Paths : Visible(p)' = Visible(p)
      BY <1>1 DEF Visible, Slots
<1> HIDE DEF own
<1>3. SettledInv'
  <2>1. SUFFICES ASSUME NEW p \in Paths, dur[p] = {cur[p]} PROVE dur'[p] = {cur'[p]}
        BY DEF SettledInv, Begin
  <2>2. {own(d) : d \in dur[p]} = {own(cur[p])}  BY <2>1
  <2>3. QED  BY <1>1, <2>2
<1>4. DurableInv'  BY <1>2 DEF DurableInv, Decided, Begin
<1>5. SyncedInv'  BY DEF SyncedInv, BetweenPCs, PublishPCs, Begin, At
<1>6. UndisturbedInv'  BY OutsideUndisturbed DEF Begin, OwnPCs
<1>7. QED  BY <1>3, <1>4, <1>5, <1>6 DEF PowerInv

\* After a power loss an active or a committed journal is whole and says what the
\* files hold.
LEMMA PowerLossPower ==
    ASSUME Inv, PowerInv, PowerLoss
    PROVE  PowerInv'
<1>1. /\ pc' = "idle" /\ src' = "none" /\ verdict' = "none"
      /\ phase' \in durPhase /\ durPhase' = {phase'}
      /\ UNCHANGED <<batch, old, new, touched>>
      /\ committed' = (committed /\ phase' # "active")
      BY DEF PowerLoss, Leave, manifestVars
<1>2. \A p \in Paths : cur'[p] \in dur[p] /\ dur'[p] = {cur'[p]}
      BY DEF PowerLoss, LoseUnsynced
<1>3. SettledInv'  BY <1>2 DEF SettledInv
<1>4. UndisturbedInv'  BY <1>1, OutsideUndisturbed DEF OwnPCs
<1>5. SyncedInv'
  <2>1. ASSUME phase' \in {"active", "committed"} PROVE full' /\ durFull' = {TRUE}
    <3>1. durFull = {TRUE}  BY <1>1, <2>1 DEF PowerInv, SyncedInv
    <3>2. full' = TRUE /\ durFull' = {full'}  BY <2>1, <3>1 DEF PowerLoss
    <3>3. QED  BY <3>2
  <2>2. QED  BY <1>1, <2>1 DEF SyncedInv, BetweenPCs, PublishPCs
<1>6. ASSUME NEW p \in Paths \ touched, dur[p] = {cur[p]}
      PROVE  Visible(p)' = Visible(p)
      BY <1>2, <1>6 DEF Visible
<1>7. \A p \in Paths \ (batch \cup touched) : Visible(p)' = old[p]
  <2>1. SUFFICES ASSUME NEW p \in Paths \ (batch \cup touched) PROVE Visible(p)' = old[p]
        OBVIOUS
  <2>2. dur[p] = {cur[p]}  BY UnsyncedIsActive DEF PowerInv, SettledInv
  <2>3. QED  BY <1>6, <2>2 DEF PowerInv, DurableInv
<1>8. ASSUME phase' # "active"
      PROVE  \A p \in Paths \ touched : Visible(p)' = Decided(p)'
  <2>1. pc \notin UnsyncedPCs /\ (phase = "active" => pc = "activateSync" /\ ~committed)
    <3>1. \/ pc = "activateSync"
          \/ phase # "active" /\ pc \notin ActivePCs
      <4>1. CASE phase = "active"
            BY <1>1, <1>8, <4>1 DEF PowerInv, SyncedInv, BetweenPCs, Inv, PhaseInv, PreparePCs
      <4>2. CASE phase # "active"  BY <4>2 DEF Inv, PhaseInv
      <4>3. QED  BY <4>1, <4>2
    <3>2. QED
          BY <3>1, UnsyncedIsActive DEF UnsyncedPCs, Inv, CommitInv
  <2>2. \A p \in Paths \ touched : Visible(p)' = Visible(p)
        BY <1>6, <2>1 DEF PowerInv, SettledInv
  <2>3. \A p \in Paths \ touched : Visible(p) = Decided(p)
        BY <2>1 DEF PowerInv, DurableInv, Decided
  <2>4. \A p \in Paths : Decided(p)' = Decided(p)
        BY <1>1, <1>8 DEF Decided
  <2>5. QED  BY <1>1, <2>2, <2>3, <2>4
<1>9. DurableInv'  BY <1>1, <1>7, <1>8 DEF PowerInv, DurableInv
<1>10. QED  BY <1>3, <1>4, <1>5, <1>9 DEF PowerInv

\* An operator edit changes the path it touches.
LEMMA OperatorEditPower ==
    ASSUME Inv, PowerInv, NEW p \in Paths, NEW r \in Revs \cup {Nil}, OperatorEdit(p, r)
    PROVE  PowerInv'
<1>1. /\ OnlyPath(p) /\ touched' = touched \cup {p}
      /\ UNCHANGED <<journalVars, manifestVars, holderVars, callerVars, committed>>
      BY OperationsOnPath DEF OperatorEdit, Inv, TypeOK
<1>2. /\ UNCHANGED <<phase, durPhase, full, durFull, batch, old, new>>
      /\ UNCHANGED <<pc, mode, k, src, exp, verdict>>
      BY <1>1 DEF journalVars, manifestVars, holderVars, callerVars
<1>3. \A q \in Paths \ touched' : cur'[q] = cur[q] /\ dur'[q] = dur[q] /\ q \notin touched
      BY <1>1 DEF OnlyPath
<1>4. SettledInv'  BY <1>2, <1>3 DEF PowerInv, SettledInv
<1>5. DurableInv'  BY <1>1, <1>2, <1>3 DEF PowerInv, DurableInv, Visible, Decided
<1>6. SyncedInv'  BY <1>2 DEF PowerInv, SyncedInv
<1>7. UndisturbedInv'
  <2>1. SUFFICES ASSUME k \notin touched' PROVE UndisturbedInv'
        BY <1>2 DEF UndisturbedInv
  <2>2. k \notin touched  BY <1>1, <2>1
  <2>3. CASE pc \notin OwnPCs  BY <1>2, <2>3, OutsideUndisturbed
  <2>4. CASE pc \in OwnPCs
    <3>1. k \in Paths
          BY <2>4 DEF OwnPCs, Inv, TypeOK, PathInv, OnPath, PublishPCs
    <3>2. cur'[k] = cur[k]  BY <1>3, <2>1, <3>1
    <3>3. /\ Evacuated' = Evacuated /\ Source' = Source /\ Bytes' = Bytes
          BY <1>1, <1>2, SamePublication
    <3>4. QED  BY <1>2, <2>2, <3>2, <3>3 DEF PowerInv, UndisturbedInv
  <2>5. QED  BY <2>3, <2>4
<1>8. QED  BY <1>4, <1>5, <1>6, <1>7 DEF PowerInv

\* Every step keeps the invariant as long as nothing is killed and nothing fails.
LEMMA NextPower ==
    ASSUME Inv, CalmInv, [Next]_vars
    PROVE  CalmInv'
<1> USE DEF CalmInv
<1>1. CASE UNCHANGED vars
      BY <1>1 DEF vars, dirVars, journalVars, manifestVars, holderVars, callerVars,
         historyVars, boundVars, PowerInv, SettledInv, DurableInv, SyncedInv,
         UndisturbedInv, Visible, Decided, Source, Evacuated, Bytes
<1>2. CASE \E b \in Requests : Begin(b)  BY <1>2, BeginPower DEF Begin, PowerInv
<1>3. CASE Step /\ \A b \in Requests : ~Begin(b)
  <2>1. UNCHANGED <<kills, faults>>
        BY <1>3 DEF Step, Apply, Publication, Cleanup, Recovery, StepFrame, PublishFrame, boundVars,
           Acquire, Release, MkdirSync, WriteArtifacts, PrepareSync, Activate, ActivateSync,
           Abandon, Commit, CommitSync, ToCleanup, ToCleanupSync, RemoveArtifacts,
           RemoveDirectory, RemoveDirectorySync, Scan, RollbackStart, NextRollback,
           VerifyCurrent, ConfirmPublished, RollbackPath, RollbackVerify, PublishStart,
           OpenTemporary, WriteTemporary, Evacuate, EvacuateUnlink, CheckEvacuated,
           CheckSync, LinkTemporary, UnlinkTemporary, PublishSync, UnlinkEvacuated,
           EvacuatedSync, Restore, RestoreUnlink, RestoreSync, Raise, RecoverTemporary,
           RecoverTemporarySync, RecoverEvacuated, RecoverEvacuatedSync
  <2>2. QED
        BY <1>3, <2>1, StepSettled, StepDurable, StepSynced, StepUndisturbed DEF PowerInv
<1>4. CASE CallFails \/ Kill
      BY <1>4 DEF CallFails, Kill, Inv, TypeOK
<1>5. CASE PowerLoss  BY <1>5, PowerLossPower DEF PowerLoss
<1>6. CASE \E p \in Paths, r \in Revs \cup {Nil} : OperatorEdit(p, r)
      BY <1>6, OperatorEditPower DEF OperatorEdit
<1>7. QED  BY <1>1, <1>2, <1>3, <1>4, <1>5, <1>6 DEF Next, Environment

\* The initial states.
LEMMA InitPower ==
    ASSUME Init
    PROVE  PowerInv
<1>1. PICK canonical \in Initials :
        DirInit(canonical) /\ old = canonical /\ new = canonical
      BY DEF Init
<1>2. canonical \in [Paths -> Content]  BY InitialsAssumption DEF Content
<1>3. \A p \in Paths : Visible(p) = canonical[p] /\ dur[p] = {cur[p]}
      BY <1>1, <1>2 DEF DirInit, Slots, NoFile, Visible
<1>4. SettledInv  BY <1>3 DEF SettledInv
<1>5. DurableInv  BY <1>1, <1>3 DEF Init, DurableInv, Decided
<1>6. SyncedInv  BY DEF Init, SyncedInv, BetweenPCs, PublishPCs
<1>7. UndisturbedInv  BY DEF Init, UndisturbedInv
<1>8. QED  BY <1>4, <1>5, <1>6, <1>7 DEF PowerInv

\* Before the first canonical name changes, the active journal is on the disk.
LEMMA JournalIsAhead ==
    ASSUME Inv, PowerInv
    PROVE  JournalInv
<1>1. JournalIsWellFormed  BY DEF PowerInv, SyncedInv, JournalIsWellFormed
<1>2. JournalPrecedesPublication
  <2>1. SUFFICES ASSUME phase \in {"prepare", "active"}, NEW p \in batch \ touched, Disturbed(p)
                 PROVE  durPhase = {"active"} /\ durFull = {TRUE}
        BY DEF JournalPrecedesPublication
  <2>2. p \in Paths \ touched  BY DEF Inv, TypeOK
  <2>3. phase = "active" /\ pc # "activateSync"
    <3>1. SUFFICES ASSUME phase = "prepare" \/ pc = "activateSync" PROVE FALSE
          BY <2>1
    <3>2. pc \notin UnsyncedPCs  BY <3>1, UnsyncedIsActive DEF UnsyncedPCs
    <3>3. dur[p] = {cur[p]}  BY <2>2, <3>2 DEF PowerInv, SettledInv
    <3>4. Visible(p) = old[p]
          BY <2>2, <3>1 DEF PowerInv, DurableInv, Decided, Inv, CommitInv
    <3>5. QED  BY <2>1, <3>3, <3>4 DEF Disturbed, Visible
  <2>4. pc \notin BetweenPCs
        BY <2>3 DEF BetweenPCs, Inv, PhaseInv, PreparePCs
  <2>5. durPhase = {"active"}  BY <2>3, <2>4 DEF PowerInv, SyncedInv
  <2>6. QED  BY <2>5 DEF PowerInv, SyncedInv
<1>3. QED  BY <1>1, <1>2 DEF JournalInv

\* As long as no process is killed and no call fails, the invariant holds through
\* every power loss.
LEMMA PowerInvariance == Spec => [](Inv /\ CalmInv)
<1>1. Init => CalmInv  BY InitPower DEF CalmInv
<1>2. Inv /\ CalmInv /\ [Next]_vars => CalmInv'  BY NextPower
<1>3. QED  BY <1>1, <1>2, Invariance, PTL DEF Spec

\* A callback finds every file that nobody edited as the last batch decided it,
\* whenever the power failed before (applyCanonicalBatch's order of renames and
\* fsyncs, and recovery's).
THEOREM AtomicAcrossPowerLoss == Spec => [](kills = 0 /\ faults = 0 => BatchIsAtomic)
<1>1. Inv /\ CalmInv => (kills = 0 /\ faults = 0 => BatchIsAtomic)
      BY DEF CalmInv, PowerInv, DurableInv, Inv, PhaseInv, BatchIsAtomic
<1>2. QED  BY <1>1, PowerInvariance, PTL

\* The write-ahead rule: while a canonical name may differ from its original on
\* the disk, the active journal with every before-image is there too, and no
\* journal is found malformed.
THEOREM JournalGoesAhead == Spec => [](kills = 0 /\ faults = 0 => JournalInv)
<1>1. Inv /\ CalmInv => (kills = 0 /\ faults = 0 => JournalInv)  BY JournalIsAhead DEF CalmInv
<1>2. QED  BY <1>1, PowerInvariance, PTL
===============================================================================
