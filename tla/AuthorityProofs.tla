-------------------------- MODULE AuthorityProofs ---------------------------
(***************************************************************************)
(* The safety of withRepositoryLease: of the lease that processes compete  *)
(* for, shown for every number of attempts and of processes that die, and  *)
(* of the queue that the calls of one process stand in.                    *)
(* For the lease that is a directory, Inv holds of every history: who has  *)
(* a private name has it alone, and what is removed there is what was      *)
(* verified, so that nobody's held directory is ever deleted.              *)
(* OrderlyInv adds, for histories whose processes die only where what they *)
(* leave can be told from a live owner's, that the claim is held by one    *)
(* process at a time and the lease path by a live owner or a dead one's    *)
(* leftover, hence one callback at a time.                                 *)
(* For the lease that is a file, Sound holds of every history; Undisturbed *)
(* of one whose renames are not disturbed, where no file loses its last    *)
(* name but by its owner or a dead owner's reclaimer; Alone of one whose   *)
(* reclaimers keep apart.                                                  *)
(***************************************************************************)
EXTENDS AuthorityLease, AuthorityQueue, FiniteSetTheorems, TLAPS

ClaimPCs == {"dropClaim", "moveClaim", "checkClaim", "restoreClaim", "rmClaim"}
SlotPCs == {"checkLock", "restoreLock", "rmOwner", "rmdirLock"}
EarlyPCs ==
    {"start", "unstage", "inspectClaim", "normalize", "inspectEmpty", "mkdir", "inspectLock"}
RemovalPCs == {"normalize", "inspectEmpty", "moveLock"} \cup SlotPCs \cup ClaimPCs

\* The control of every process.
ControlInv ==
    \A p \in Procs :
        /\ p \in dead <=> pc[p] = "dead"
        /\ pc[p] \in RemovalPCs \ {"dropClaim"} => seen[p].token \in Procs
        /\ pc[p] \in {"normalize", "inspectEmpty", "moveLock"} \cup SlotPCs =>
              seen[p].owner \in {None, p} \cup dead
        /\ job[p] = "enter" => pc[p] \in ClaimPCs
        /\ job[p] \in {"reclaim", "interrupted"} => pc[p] \in RemovalPCs
        /\ pc[p] = "capture" => p \in written

\* A process that has not created its directory yet.
Before(p) == pc[p] \in EarlyPCs \/ job[p] \in {"reclaim", "interrupted"}
InSlot(p) == pc[p] \in SlotPCs
Slot(p) == seen[p].token

\* A directory has one name, and a process that created none has none.
NamesInv ==
    /\ \A t \in Procs : lock # None => lockAside[t] # lock
    /\ \A t, u \in Procs : t # u /\ lockAside[t] # None => lockAside[t] # lockAside[u]
    /\ \A p \in Procs : Before(p) => lock # p /\ \A t \in Procs : lockAside[t] # p

\* A private name that holds a directory belongs to one process at a time.
SlotsInv ==
    /\ \A p \in Procs : InSlot(p) => lockAside[Slot(p)] # None
    /\ \A p, q \in Procs : InSlot(p) /\ InSlot(q) /\ p # q => Slot(p) # Slot(q)

\* An owner.json is removed as the one that was read, a directory when it is empty.
OwnersInv ==
    \A p \in Procs :
        /\ pc[p] = "rmOwner" => owner[lockAside[Slot(p)]] = seen[p].owner
        /\ pc[p] = "rmdirLock" => owner[lockAside[Slot(p)]] = None

DirectoryInv == NamesInv /\ SlotsInv /\ OwnersInv

\* From the capture of its lease to the end of its callback, a process has it.
Having(p) == pc[p] = "hold" \/ job[p] = "enter"
Located(d) == lock = d \/ \E t \in Procs : lockAside[t] = d
HeldInv ==
    \A p \in Procs : Having(p) =>
        /\ held[p] \in Procs /\ owner[held[p]] = p /\ p \in written
        /\ Located(held[p])

Inv == TypeOK /\ ControlInv /\ DirectoryInv /\ HeldInv
-------------------------------------------------------------------------------
(* Types.                                                                     *)

TokenInv(p) == pc[p] \in RemovalPCs \ {"dropClaim"} => seen[p].token \in Procs

Expectation == [token : Tokens, dir : Tokens, owner : Tokens]

\* TypeOK in three parts.
FileTypeOK ==
    /\ claim \in Tokens /\ lock \in Tokens
    /\ staged \subseteq Procs
    /\ claimAside \in [Procs -> Tokens] /\ lockAside \in [Procs -> Tokens]
    /\ owner \in [Procs -> Tokens]
    /\ written \subseteq Procs /\ moved \subseteq Procs
ProcTypeOK ==
    /\ pc \in [Procs -> PCs] /\ job \in [Procs -> Jobs]
    /\ held \in [Procs -> Tokens]
    /\ dead \subseteq Procs /\ served \subseteq Procs
    /\ killed \subseteq dead
SeenTypeOK == seen \in [Procs -> Expectation]

\* What a process compares with is made of tokens.
LEMMA ExpectationTypes ==
    /\ None \in Tokens /\ Procs \subseteq Tokens /\ Nothing \in Expectation
    /\ \A t, d, o \in Tokens : [token |-> t, dir |-> d, owner |-> o] \in Expectation
    /\ \A e \in Expectation : e.token \in Tokens /\ e.dir \in Tokens /\ e.owner \in Tokens
    /\ \A e \in Expectation, d \in Tokens :
          [e EXCEPT !.dir = d] \in Expectation /\ [e EXCEPT !.token = d] \in Expectation
BY DEF Tokens, Nothing, Expectation

\* Every step of a process keeps the types, one part at a time.
LEMMA FileTypes ==
    ASSUME TypeOK, NEW p \in Procs, TokenInv(p), Step(p)
    PROVE  FileTypeOK'
<1>a. FileTypeOK /\ (lock # None => lock \in Procs) BY DEF TypeOK, FileTypeOK, Tokens
<1> USE <1>a, ExpectationTypes DEF FileTypeOK, At,
        Quiet, ClaimFrame, LockFrame, fileVars, RemovalPCs, SlotPCs, ClaimPCs, TokenInv
<1>1. CASE LinkClaim(p)  BY <1>1 DEF LinkClaim
<1>2. CASE Unstage(p)  BY <1>2 DEF Unstage
<1>3. CASE GiveUp(p)  BY <1>3 DEF GiveUp
<1>4. CASE Mkdir(p)  BY <1>4 DEF Mkdir
<1>5. CASE OpenOwner(p)  BY <1>5 DEF OpenOwner
<1>6. CASE FillOwner(p)  BY <1>6 DEF FillOwner
<1>7. CASE Capture(p)  BY <1>7 DEF Capture
<1>8. CASE InitCleanup(p)  BY <1>8 DEF InitCleanup
<1>9. CASE InspectClaim(p)  BY <1>9 DEF InspectClaim
<1>10. CASE Normalize(p)  BY <1>10 DEF Normalize
<1>11. CASE InspectEmpty(p)  BY <1>11 DEF InspectEmpty
<1>12. CASE DropClaim(p)  BY <1>12 DEF DropClaim
<1>13. CASE MoveClaim(p)  BY <1>13 DEF MoveClaim
<1>14. CASE CheckClaim(p)  BY <1>14 DEF CheckClaim
<1>15. CASE RestoreClaim(p)  BY <1>15 DEF RestoreClaim
<1>16. CASE RemoveClaim(p)  BY <1>16 DEF RemoveClaim
<1>17. CASE InspectLock(p)  BY <1>17 DEF InspectLock
<1>18. CASE Release(p)  BY <1>18 DEF Release
<1>19. CASE MoveLock(p)  BY <1>19 DEF MoveLock
<1>20. CASE CheckLock(p)  BY <1>20 DEF CheckLock
<1>21. CASE RestoreLock(p)  BY <1>21 DEF RestoreLock
<1>22. CASE RemoveOwner(p)  BY <1>22 DEF RemoveOwner
<1>23. CASE RemoveLock(p)  BY <1>23 DEF RemoveLock
<1>24. CASE Run(p)  BY <1>24 DEF Run
<1>25. QED
     BY <1>1, <1>2, <1>3, <1>4, <1>5, <1>6, <1>7, <1>8, <1>9, <1>10,
        <1>11, <1>12, <1>13, <1>14, <1>15, <1>16, <1>17, <1>18, <1>19,
        <1>20, <1>21, <1>22, <1>23, <1>24
     DEF Step, Acquisition, ClaimRemoval, LockRemoval

\* The program counters and jobs that the steps set.
LEMMA Labels ==
    /\ "start" \in PCs /\ "unstage" \in PCs /\ "inspectClaim" \in PCs
    /\ "normalize" \in PCs /\ "inspectEmpty" \in PCs /\ "mkdir" \in PCs
    /\ "inspectLock" \in PCs /\ "openOwner" \in PCs /\ "fillOwner" \in PCs
    /\ "capture" \in PCs /\ "initCleanup" \in PCs /\ "dropClaim" \in PCs
    /\ "moveClaim" \in PCs /\ "checkClaim" \in PCs /\ "restoreClaim" \in PCs
    /\ "rmClaim" \in PCs /\ "release" \in PCs /\ "moveLock" \in PCs
    /\ "checkLock" \in PCs /\ "restoreLock" \in PCs /\ "rmOwner" \in PCs
    /\ "rmdirLock" \in PCs /\ "hold" \in PCs /\ "done" \in PCs
    /\ "dead" \in PCs
    /\ "none" \in Jobs /\ "enter" \in Jobs /\ "reclaim" \in Jobs
    /\ "interrupted" \in Jobs /\ "init" \in Jobs /\ "release" \in Jobs
    /\ "abandon" \in Jobs /\ "lost" \in Jobs
BY DEF PCs, Jobs

LEMMA ProcTypes ==
    ASSUME TypeOK, NEW p \in Procs, Step(p)
    PROVE  ProcTypeOK'
<1>a. /\ pc \in [Procs -> PCs] /\ job \in [Procs -> Jobs] /\ held \in [Procs -> Tokens]
      /\ dead \subseteq Procs /\ served \subseteq Procs /\ killed \subseteq dead
      /\ lock \in Tokens /\ None \in Tokens
      BY DEF TypeOK, Tokens
<1> USE <1>a, Labels DEF ProcTypeOK, At, Goto, GotoJob, Again, Ended, AfterClaim,
        AfterLock, Quiet
<1>1. CASE LinkClaim(p)  BY <1>1 DEF LinkClaim
<1>2. CASE Unstage(p)  BY <1>2 DEF Unstage
<1>3. CASE GiveUp(p)  BY <1>3 DEF GiveUp
<1>4. CASE Mkdir(p)  BY <1>4 DEF Mkdir
<1>5. CASE OpenOwner(p)  BY <1>5 DEF OpenOwner
<1>6. CASE FillOwner(p)  BY <1>6 DEF FillOwner
<1>7. CASE Capture(p)  BY <1>7 DEF Capture
<1>8. CASE InitCleanup(p)  BY <1>8 DEF InitCleanup
<1>9. CASE InspectClaim(p)  BY <1>9 DEF InspectClaim
<1>10. CASE Normalize(p)  BY <1>10 DEF Normalize
<1>11. CASE InspectEmpty(p)  BY <1>11 DEF InspectEmpty
<1>12. CASE DropClaim(p)  BY <1>12 DEF DropClaim
<1>13. CASE MoveClaim(p)  BY <1>13 DEF MoveClaim
<1>14. CASE CheckClaim(p)  BY <1>14 DEF CheckClaim
<1>15. CASE RestoreClaim(p)  BY <1>15 DEF RestoreClaim
<1>16. CASE RemoveClaim(p)  BY <1>16 DEF RemoveClaim
<1>17. CASE InspectLock(p)  BY <1>17 DEF InspectLock
<1>18. CASE Release(p)  BY <1>18 DEF Release
<1>19. CASE MoveLock(p)  BY <1>19 DEF MoveLock
<1>20. CASE CheckLock(p)  BY <1>20 DEF CheckLock
<1>21. CASE RestoreLock(p)  BY <1>21 DEF RestoreLock
<1>22. CASE RemoveOwner(p)  BY <1>22 DEF RemoveOwner
<1>23. CASE RemoveLock(p)  BY <1>23 DEF RemoveLock
<1>24. CASE Run(p)  BY <1>24 DEF Run
<1>25. QED
     BY <1>1, <1>2, <1>3, <1>4, <1>5, <1>6, <1>7, <1>8, <1>9, <1>10,
        <1>11, <1>12, <1>13, <1>14, <1>15, <1>16, <1>17, <1>18, <1>19,
        <1>20, <1>21, <1>22, <1>23, <1>24
     DEF Step, Acquisition, ClaimRemoval, LockRemoval

LEMMA SeenTypes ==
    ASSUME TypeOK, NEW p \in Procs, Step(p)
    PROVE  SeenTypeOK'
<1>a. seen \in [Procs -> Expectation] /\ lock \in Tokens /\ claim \in Tokens /\ held \in [Procs -> Tokens]
      /\ owner \in [Procs -> Tokens]
     BY DEF TypeOK, Expectation
<1>b. lock # None => owner[lock] \in Tokens  BY <1>a DEF Tokens
<1>c. /\ [Nothing EXCEPT !.token = claim] \in Expectation
      /\ [Nothing EXCEPT !.token = p] \in Expectation
      /\ [seen[p] EXCEPT !.dir = lock] \in Expectation
      /\ [token |-> p, dir |-> p, owner |-> owner[p]] \in Expectation
      /\ [token |-> p, dir |-> held[p], owner |-> p] \in Expectation
      /\ lock # None => [token |-> owner[lock], dir |-> lock, owner |-> owner[lock]] \in Expectation
      BY <1>a, <1>b, ExpectationTypes
<1> USE <1>a, <1>b, <1>c, ExpectationTypes DEF SeenTypeOK, At, Goto, GotoJob, Again, Ended,
      AfterClaim,
        AfterLock, Quiet
<1>1. CASE LinkClaim(p)  BY <1>1 DEF LinkClaim
<1>2. CASE Unstage(p)  BY <1>2 DEF Unstage
<1>3. CASE GiveUp(p)  BY <1>3 DEF GiveUp
<1>4. CASE Mkdir(p)  BY <1>4 DEF Mkdir
<1>5. CASE OpenOwner(p)  BY <1>5 DEF OpenOwner
<1>6. CASE FillOwner(p)  BY <1>6 DEF FillOwner
<1>7. CASE Capture(p)  BY <1>7 DEF Capture
<1>8. CASE InitCleanup(p)  BY <1>8 DEF InitCleanup
<1>9. CASE InspectClaim(p)  BY <1>9 DEF InspectClaim
<1>10. CASE Normalize(p)  BY <1>10 DEF Normalize
<1>11. CASE InspectEmpty(p)  BY <1>11 DEF InspectEmpty
<1>12. CASE DropClaim(p)  BY <1>12 DEF DropClaim
<1>13. CASE MoveClaim(p)  BY <1>13 DEF MoveClaim
<1>14. CASE CheckClaim(p)  BY <1>14 DEF CheckClaim
<1>15. CASE RestoreClaim(p)  BY <1>15 DEF RestoreClaim
<1>16. CASE RemoveClaim(p)  BY <1>16 DEF RemoveClaim
<1>17. CASE InspectLock(p)  BY <1>17 DEF InspectLock
<1>18. CASE Release(p)  BY <1>18 DEF Release
<1>19. CASE MoveLock(p)  BY <1>19 DEF MoveLock
<1>20. CASE CheckLock(p)  BY <1>20 DEF CheckLock
<1>21. CASE RestoreLock(p)  BY <1>21 DEF RestoreLock
<1>22. CASE RemoveOwner(p)  BY <1>22 DEF RemoveOwner
<1>23. CASE RemoveLock(p)  BY <1>23 DEF RemoveLock
<1>24. CASE Run(p)  BY <1>24 DEF Run
<1>25. QED
     BY <1>1, <1>2, <1>3, <1>4, <1>5, <1>6, <1>7, <1>8, <1>9, <1>10,
        <1>11, <1>12, <1>13, <1>14, <1>15, <1>16, <1>17, <1>18, <1>19,
        <1>20, <1>21, <1>22, <1>23, <1>24
     DEF Step, Acquisition, ClaimRemoval, LockRemoval

\* Every step keeps the control of the processes.
LEMMA StepControl ==
    ASSUME Inv, NEW p \in Procs, Step(p)
    PROVE  ControlInv'
<1>a. /\ pc \in [Procs -> PCs] /\ job \in [Procs -> Jobs] /\ seen \in [Procs -> Expectation]
      /\ dead \subseteq Procs /\ None \notin Procs /\ claim \in Procs \cup {None}
      BY NoneAssumption DEF Inv, TypeOK, Expectation, Tokens
<1>b. ControlInv  BY DEF Inv
<1>c. /\ \A t \in Tokens : /\ [Nothing EXCEPT !.token = t].token = t
                           /\ [Nothing EXCEPT !.token = t].owner = None
      /\ [seen[p] EXCEPT !.dir = lock].token = seen[p].token
      /\ [seen[p] EXCEPT !.dir = lock].owner = seen[p].owner
      BY <1>a DEF Nothing, Expectation
<1>d. /\ [Nothing EXCEPT !.token = claim].token = claim
      /\ [Nothing EXCEPT !.token = claim].owner = None
      /\ [Nothing EXCEPT !.token = p].token = p /\ [Nothing EXCEPT !.token = p].owner = None
      BY <1>a, <1>c DEF Tokens
<1> USE <1>a, <1>b, <1>c, <1>d DEF At, Goto, GotoJob, Again, Ended, AfterClaim,
        AfterLock, Quiet, ClaimFrame, LockFrame, fileVars, ControlInv, RemovalPCs, SlotPCs,
        ClaimPCs,
        ConclusivelyDead, OwnerReads
<1>1. CASE LinkClaim(p)  BY <1>1 DEF LinkClaim
<1>2. CASE Unstage(p)  BY <1>2 DEF Unstage
<1>3. CASE GiveUp(p)  BY <1>3 DEF GiveUp
<1>4. CASE Mkdir(p)  BY <1>4 DEF Mkdir
<1>5. CASE OpenOwner(p)  BY <1>5 DEF OpenOwner
<1>6. CASE FillOwner(p)  BY <1>6 DEF FillOwner
<1>7. CASE Capture(p)  BY <1>7 DEF Capture
<1>8. CASE InitCleanup(p)  BY <1>8 DEF InitCleanup
<1>9. CASE InspectClaim(p)
  <2> DEFINE e == [Nothing EXCEPT !.token = claim]
  <2>1. /\ pc[p] = "inspectClaim"
        /\ \/ /\ GotoJob(p, "normalize", "interrupted", e)
              /\ e.token \in Procs /\ e.owner \in {None, p} \cup dead
           \/ Again(p)
        BY <1>9 DEF InspectClaim
  <2>2. UNCHANGED <<dead, written>>  BY <1>9 DEF InspectClaim
  <2> HIDE DEF e
  <2>3. QED  BY <1>9, <2>1, <2>2
<1>10. CASE Normalize(p)  BY <1>10 DEF Normalize
<1>11. CASE InspectEmpty(p)
  <2> DEFINE e == [seen[p] EXCEPT !.dir = lock]
  <2>1. \/ /\ pc[p] = "inspectEmpty" /\ GotoJob(p, "moveLock", "interrupted", e) /\ e.token \in Procs
           /\ e.owner \in {None, p} \cup dead
        \/ pc[p] = "inspectEmpty" /\ Goto(p, "moveClaim")
        BY <1>11 DEF InspectEmpty
  <2>2. UNCHANGED <<dead, written>>  BY <1>11 DEF InspectEmpty
  <2> HIDE DEF e
  <2>3. QED  BY <1>11, <2>1, <2>2
<1>12. CASE DropClaim(p)
  <2> DEFINE e == [Nothing EXCEPT !.token = p]
  <2>1. \/ /\ pc[p] = "dropClaim" /\ GotoJob(p, "moveClaim", job[p], e) /\ e.token \in Procs
           /\ e.owner \in {None, p} \cup dead
        \/ pc[p] = "dropClaim" /\ AfterClaim(p, FALSE)
        BY <1>12 DEF DropClaim
  <2>2. UNCHANGED <<dead, written>>  BY <1>12 DEF DropClaim
  <2> HIDE DEF e
  <2>3. QED  BY <1>12, <2>1, <2>2
<1>13. CASE MoveClaim(p)  BY <1>13 DEF MoveClaim
<1>14. CASE CheckClaim(p)  BY <1>14 DEF CheckClaim
<1>15. CASE RestoreClaim(p)  BY <1>15 DEF RestoreClaim
<1>16. CASE RemoveClaim(p)  BY <1>16 DEF RemoveClaim
<1>17. CASE InspectLock(p)  BY <1>17 DEF InspectLock
<1>18. CASE Release(p)  BY <1>18 DEF Release
<1>19. CASE MoveLock(p)  BY <1>19 DEF MoveLock
<1>20. CASE CheckLock(p)  BY <1>20 DEF CheckLock
<1>21. CASE RestoreLock(p)  BY <1>21 DEF RestoreLock
<1>22. CASE RemoveOwner(p)  BY <1>22 DEF RemoveOwner
<1>23. CASE RemoveLock(p)  BY <1>23 DEF RemoveLock
<1>24. CASE Run(p)  BY <1>24 DEF Run
<1>25. QED
     BY <1>1, <1>2, <1>3, <1>4, <1>5, <1>6, <1>7, <1>8, <1>9, <1>10,
        <1>11, <1>12, <1>13, <1>14, <1>15, <1>16, <1>17, <1>18, <1>19,
        <1>20, <1>21, <1>22, <1>23, <1>24
     DEF Step, Acquisition, ClaimRemoval, LockRemoval

\* The steps that change a directory, its name or its owner.
Changing(p) ==
    \/ Mkdir(p) \/ OpenOwner(p) \/ MoveLock(p) \/ CheckLock(p) \/ RestoreLock(p)
    \/ RemoveOwner(p) \/ RemoveLock(p)

OnlyMoves(p) ==
    \A q \in Procs \ {p} :
        pc'[q] = pc[q] /\ job'[q] = job[q] /\ seen'[q] = seen[q] /\ held'[q] = held[q]

PrivateStep(p) ==
    /\ UNCHANGED <<lock, lockAside, owner>> /\ OnlyMoves(p)
    /\ Before(p)' => Before(p)
    /\ ~InSlot(p)'

\* Every step that changes no directory is private.
LEMMA PrivateSteps ==
    ASSUME Inv, NEW p \in Procs, Step(p), ~Changing(p)
    PROVE  PrivateStep(p)
<1>a. /\ pc \in [Procs -> PCs] /\ job \in [Procs -> Jobs] /\ seen \in [Procs -> Expectation]
      /\ held \in [Procs -> Tokens]
      BY DEF Inv, TypeOK, Expectation
<1> USE <1>a DEF At, Goto, GotoJob, Again, Ended, AfterClaim,
        AfterLock, Quiet, ClaimFrame, LockFrame, fileVars, PrivateStep,
        OnlyMoves, Before, InSlot, EarlyPCs, SlotPCs
<1>1. CASE LinkClaim(p)  BY <1>1 DEF LinkClaim
<1>2. CASE Unstage(p)  BY <1>2 DEF Unstage
<1>3. CASE GiveUp(p)  BY <1>3 DEF GiveUp
<1>4. CASE FillOwner(p)  BY <1>4 DEF FillOwner
<1>5. CASE Capture(p)  BY <1>5 DEF Capture
<1>6. CASE InitCleanup(p)  BY <1>6 DEF InitCleanup
<1>7. CASE InspectClaim(p)  BY <1>7 DEF InspectClaim
<1>8. CASE Normalize(p)  BY <1>8 DEF Normalize
<1>9. CASE InspectEmpty(p)  BY <1>9 DEF InspectEmpty
<1>10. CASE DropClaim(p)  BY <1>10 DEF DropClaim
<1>11. CASE MoveClaim(p)  BY <1>11 DEF MoveClaim
<1>12. CASE CheckClaim(p)  BY <1>12 DEF CheckClaim
<1>13. CASE RestoreClaim(p)  BY <1>13 DEF RestoreClaim
<1>14. CASE RemoveClaim(p)  BY <1>14 DEF RemoveClaim
<1>15. CASE InspectLock(p)  BY <1>15 DEF InspectLock
<1>16. CASE Release(p)  BY <1>16 DEF Release
<1>17. CASE Run(p)  BY <1>17 DEF Run
<1>18. QED
     BY <1>1, <1>2, <1>3, <1>4, <1>5, <1>6, <1>7, <1>8, <1>9, <1>10,
        <1>11, <1>12, <1>13, <1>14, <1>15, <1>16, <1>17
     DEF Step, Acquisition, ClaimRemoval, LockRemoval, Changing

\* What a private step does to a held lease.
HeldStep(p) ==
    /\ written \subseteq written'
    /\ Having(p)' =>
          \/ Having(p) /\ held'[p] = held[p]
          \/ held'[p] = lock /\ lock \in Procs /\ owner[lock] = p /\ p \in written

\* A process has a lease only by capturing it.
LEMMA HeldSteps ==
    ASSUME Inv, NEW p \in Procs, Step(p)
    PROVE  HeldStep(p)
<1>a. /\ pc \in [Procs -> PCs] /\ job \in [Procs -> Jobs] /\ lock \in Procs \cup {None}
      /\ held \in [Procs -> Tokens] /\ (pc[p] = "capture" => p \in written)
      /\ job[p] = "enter" => pc[p] \in ClaimPCs
      BY DEF Inv, TypeOK, Tokens, ControlInv
<1> USE <1>a DEF At, Goto, GotoJob, Again, Ended, AfterClaim,
        AfterLock, Quiet, ClaimFrame, LockFrame, fileVars, HeldStep, Having, ClaimPCs
<1>1. CASE LinkClaim(p)  BY <1>1 DEF LinkClaim
<1>2. CASE Unstage(p)  BY <1>2 DEF Unstage
<1>3. CASE GiveUp(p)  BY <1>3 DEF GiveUp
<1>4. CASE Mkdir(p)  BY <1>4 DEF Mkdir
<1>5. CASE OpenOwner(p)  BY <1>5 DEF OpenOwner
<1>6. CASE FillOwner(p)  BY <1>6 DEF FillOwner
<1>7. CASE Capture(p)  BY <1>7 DEF Capture
<1>8. CASE InitCleanup(p)  BY <1>8 DEF InitCleanup
<1>9. CASE InspectClaim(p)  BY <1>9 DEF InspectClaim
<1>10. CASE Normalize(p)  BY <1>10 DEF Normalize
<1>11. CASE InspectEmpty(p)  BY <1>11 DEF InspectEmpty
<1>12. CASE DropClaim(p)  BY <1>12 DEF DropClaim
<1>13. CASE MoveClaim(p)  BY <1>13 DEF MoveClaim
<1>14. CASE CheckClaim(p)  BY <1>14 DEF CheckClaim
<1>15. CASE RestoreClaim(p)  BY <1>15 DEF RestoreClaim
<1>16. CASE RemoveClaim(p)  BY <1>16 DEF RemoveClaim
<1>17. CASE InspectLock(p)  BY <1>17 DEF InspectLock
<1>18. CASE Release(p)  BY <1>18 DEF Release
<1>19. CASE MoveLock(p)  BY <1>19 DEF MoveLock
<1>20. CASE CheckLock(p)  BY <1>20 DEF CheckLock
<1>21. CASE RestoreLock(p)  BY <1>21 DEF RestoreLock
<1>22. CASE RemoveOwner(p)  BY <1>22 DEF RemoveOwner
<1>23. CASE RemoveLock(p)  BY <1>23 DEF RemoveLock
<1>24. CASE Run(p)  BY <1>24 DEF Run
<1>25. QED
     BY <1>1, <1>2, <1>3, <1>4, <1>5, <1>6, <1>7, <1>8, <1>9, <1>10,
        <1>11, <1>12, <1>13, <1>14, <1>15, <1>16, <1>17, <1>18, <1>19,
        <1>20, <1>21, <1>22, <1>23, <1>24
     DEF Step, Acquisition, ClaimRemoval, LockRemoval

\* A private step leaves the directories and the held leases as they are.
LEMMA PrivateDirectories ==
    ASSUME Inv, NEW p \in Procs, PrivateStep(p)
    PROVE  DirectoryInv'
BY DEF Inv, DirectoryInv, NamesInv, SlotsInv, OwnersInv, PrivateStep, OnlyMoves, Before, InSlot,
      Slot, SlotPCs

LEMMA PrivateHeld ==
    ASSUME Inv, NEW p \in Procs, PrivateStep(p), HeldStep(p)
    PROVE  HeldInv'
BY DEF Inv, HeldInv, PrivateStep, OnlyMoves, HeldStep, Having, Located

\* The steps that change a directory, one at a time: a new one is nobody else's,
LEMMA MkdirDirectory ==
    ASSUME Inv, NEW p \in Procs, Mkdir(p)
    PROVE  DirectoryInv'
<1>1. /\ pc \in [Procs -> PCs] /\ job \in [Procs -> Jobs] /\ lock \in Procs \cup {None}
      /\ seen \in [Procs -> Expectation] /\ held \in [Procs -> Tokens]
      /\ owner \in [Procs -> Tokens]
      /\ lockAside \in [Procs -> Tokens] /\ None \notin Procs
      BY NoneAssumption DEF Inv, TypeOK, Tokens, Expectation
<1>2. ControlInv /\ DirectoryInv   BY HeldSteps DEF Inv, Step, Acquisition, LockRemoval
<1>3. QED
      BY <1>1, <1>2
      DEF Mkdir, At, Goto, GotoJob, Again, Ended, AfterLock, ControlInv, DirectoryInv, NamesInv,
            SlotsInv, OwnersInv, Before, InSlot,
          Slot, SlotPCs, ClaimPCs, RemovalPCs, EarlyPCs

LEMMA MkdirHeld ==
    ASSUME Inv, NEW p \in Procs, Mkdir(p)
    PROVE  HeldInv'
<1>1. /\ pc \in [Procs -> PCs] /\ job \in [Procs -> Jobs] /\ lock \in Procs \cup {None}
      /\ seen \in [Procs -> Expectation] /\ held \in [Procs -> Tokens]
      /\ owner \in [Procs -> Tokens]
      /\ lockAside \in [Procs -> Tokens] /\ None \notin Procs
      BY NoneAssumption DEF Inv, TypeOK, Tokens, Expectation
<1>2. ControlInv /\ DirectoryInv /\ HeldInv /\ HeldStep(p)  BY HeldSteps DEF Inv, Step,
      Acquisition, LockRemoval
<1>3. QED
      BY <1>1, <1>2
      DEF Mkdir, At, Goto, GotoJob, Again, Ended, AfterLock, HeldInv, HeldStep, Having, Located,
            ControlInv, DirectoryInv, NamesInv, SlotsInv, OwnersInv, Before, InSlot,
          Slot, SlotPCs, ClaimPCs, RemovalPCs, EarlyPCs

\* its owner.json is written where there was none,
LEMMA OpenOwnerDirectory ==
    ASSUME Inv, NEW p \in Procs, OpenOwner(p)
    PROVE  DirectoryInv'
<1>1. /\ pc \in [Procs -> PCs] /\ job \in [Procs -> Jobs] /\ lock \in Procs \cup {None}
      /\ seen \in [Procs -> Expectation] /\ held \in [Procs -> Tokens]
      /\ owner \in [Procs -> Tokens]
      /\ lockAside \in [Procs -> Tokens] /\ None \notin Procs
      BY NoneAssumption DEF Inv, TypeOK, Tokens, Expectation
<1>2. ControlInv /\ DirectoryInv /\ HeldInv  BY DEF Inv
<1>3. /\ UNCHANGED <<lock, lockAside>> /\ OnlyMoves(p)
      /\ ~InSlot(p)' /\ ~Before(p)'
      /\ owner' = owner \/ (lock \in Procs /\ owner' = [owner EXCEPT ![lock] = p])
      BY <1>1, <1>2 DEF OpenOwner, At, Goto, GotoJob, OnlyMoves, InSlot, Before, SlotPCs, EarlyPCs,
                        ControlInv, RemovalPCs, ClaimPCs
<1>4. \A q \in Procs : InSlot(q) => owner'[lockAside[Slot(q)]] = owner[lockAside[Slot(q)]]
  <2>1. SUFFICES ASSUME NEW q \in Procs, InSlot(q)
                 PROVE  owner'[lockAside[Slot(q)]] = owner[lockAside[Slot(q)]]
        OBVIOUS
  <2>2. Slot(q) \in Procs  BY <1>2, <2>1 DEF ControlInv, RemovalPCs, InSlot, Slot, SlotPCs
  <2>3. lockAside[Slot(q)] # None /\ lockAside[Slot(q)] \in Procs
        BY <1>1, <1>2, <2>1, <2>2 DEF DirectoryInv, SlotsInv, Tokens
  <2>4. lockAside[Slot(q)] # lock  BY <1>2, <2>2, <2>3 DEF DirectoryInv, NamesInv
  <2>5. QED  BY <1>1, <1>3, <2>3, <2>4
<1>5. NamesInv' /\ SlotsInv'
      BY <1>2, <1>3 DEF DirectoryInv, NamesInv, SlotsInv, OnlyMoves, InSlot, Slot, Before
<1>6. OwnersInv'
      BY <1>2, <1>3, <1>4 DEF DirectoryInv, OwnersInv, OnlyMoves, InSlot, Slot, SlotPCs
<1>7. QED  BY <1>5, <1>6 DEF DirectoryInv

LEMMA OpenOwnerHeld ==
    ASSUME Inv, NEW p \in Procs, OpenOwner(p)
    PROVE  HeldInv'
<1>1. /\ pc \in [Procs -> PCs] /\ job \in [Procs -> Jobs] /\ lock \in Procs \cup {None}
      /\ seen \in [Procs -> Expectation] /\ held \in [Procs -> Tokens]
      /\ owner \in [Procs -> Tokens]
      /\ lockAside \in [Procs -> Tokens] /\ None \notin Procs
      BY NoneAssumption DEF Inv, TypeOK, Tokens, Expectation
<1>2. ControlInv /\ DirectoryInv /\ HeldInv /\ HeldStep(p)  BY HeldSteps DEF Inv, Step,
      Acquisition, LockRemoval
<1>3. QED
      BY <1>1, <1>2
      DEF OpenOwner, At, Goto, GotoJob, Again, Ended, AfterLock, HeldInv, HeldStep, Having,
            Located, ControlInv, DirectoryInv, NamesInv, SlotsInv, OwnersInv, Before, InSlot,
          Slot, SlotPCs, ClaimPCs, RemovalPCs, EarlyPCs

\* a private name is taken when it is free,
LEMMA MoveLockDirectory ==
    ASSUME Inv, NEW p \in Procs, MoveLock(p)
    PROVE  DirectoryInv'
<1>1. /\ pc \in [Procs -> PCs] /\ job \in [Procs -> Jobs] /\ lock \in Procs \cup {None}
      /\ seen \in [Procs -> Expectation] /\ held \in [Procs -> Tokens]
      /\ owner \in [Procs -> Tokens]
      /\ lockAside \in [Procs -> Tokens] /\ None \notin Procs
      BY NoneAssumption DEF Inv, TypeOK, Tokens, Expectation
<1>2. ControlInv /\ DirectoryInv   BY HeldSteps DEF Inv, Step, Acquisition, LockRemoval
<1>3. QED
      BY <1>1, <1>2
      DEF MoveLock, At, Goto, GotoJob, Again, Ended, AfterLock, ControlInv, DirectoryInv, NamesInv,
            SlotsInv, OwnersInv, Before, InSlot,
          Slot, SlotPCs, ClaimPCs, RemovalPCs, EarlyPCs

LEMMA MoveLockHeld ==
    ASSUME Inv, NEW p \in Procs, MoveLock(p)
    PROVE  HeldInv'
<1>1. /\ pc \in [Procs -> PCs] /\ job \in [Procs -> Jobs] /\ lock \in Procs \cup {None}
      /\ seen \in [Procs -> Expectation] /\ held \in [Procs -> Tokens]
      /\ owner \in [Procs -> Tokens]
      /\ lockAside \in [Procs -> Tokens] /\ None \notin Procs
      BY NoneAssumption DEF Inv, TypeOK, Tokens, Expectation
<1>2. ControlInv /\ DirectoryInv /\ HeldInv /\ HeldStep(p)  BY HeldSteps DEF Inv, Step,
      Acquisition, LockRemoval
<1>3. QED
      BY <1>1, <1>2
      DEF MoveLock, At, Goto, GotoJob, Again, Ended, AfterLock, HeldInv, HeldStep, Having, Located,
            ControlInv, DirectoryInv, NamesInv, SlotsInv, OwnersInv, Before, InSlot,
          Slot, SlotPCs, ClaimPCs, RemovalPCs, EarlyPCs

\* what goes on is what was expected,
LEMMA CheckLockKeeps ==
    ASSUME Inv, NEW p \in Procs, CheckLock(p)
    PROVE  DirectoryInv' /\ HeldInv'
<1>1. /\ pc \in [Procs -> PCs] /\ job \in [Procs -> Jobs] /\ lock \in Procs \cup {None}
      /\ seen \in [Procs -> Expectation] /\ held \in [Procs -> Tokens]
      /\ owner \in [Procs -> Tokens]
      /\ lockAside \in [Procs -> Tokens] /\ None \notin Procs
      BY NoneAssumption DEF Inv, TypeOK, Tokens, Expectation
<1>2. ControlInv /\ DirectoryInv /\ HeldInv  BY DEF Inv
<1>3. /\ UNCHANGED <<lock, lockAside, owner, written>> /\ OnlyMoves(p) /\ pc[p] = "checkLock"
      /\ Before(p)' => Before(p)
      /\ job'[p] # "enter" /\ pc'[p] # "hold"
      /\ \/ /\ UNCHANGED seen
            /\ \/ pc'[p] = "rmOwner" /\ owner[lockAside[Slot(p)]] = seen[p].owner
               \/ pc'[p] = "rmdirLock" /\ owner[lockAside[Slot(p)]] = None
               \/ pc'[p] = "restoreLock"
         \/ ~InSlot(p)'
      BY <1>1, <1>2 DEF CheckLock, At, Goto, GotoJob, Again, Ended, AfterLock, OnlyMoves, InSlot,
            Before,
                        SlotPCs, EarlyPCs, Slot, ControlInv, ClaimPCs, fileVars
<1>4. NamesInv' /\ SlotsInv'
      BY <1>2, <1>3 DEF DirectoryInv, NamesInv, SlotsInv, OnlyMoves, InSlot, Slot, SlotPCs, Before
<1>5. OwnersInv'
      BY <1>2, <1>3 DEF DirectoryInv, OwnersInv, OnlyMoves, InSlot, Slot, SlotPCs
<1>6. HeldInv'  BY <1>2, <1>3 DEF HeldInv, Having, Located, OnlyMoves
<1>7. QED  BY <1>4, <1>5, <1>6 DEF DirectoryInv

\* what goes back was put aside by the same process,
LEMMA RestoreLockDirectory ==
    ASSUME Inv, NEW p \in Procs, RestoreLock(p)
    PROVE  DirectoryInv'
<1>1. /\ pc \in [Procs -> PCs] /\ job \in [Procs -> Jobs] /\ lock \in Procs \cup {None}
      /\ seen \in [Procs -> Expectation] /\ held \in [Procs -> Tokens]
      /\ owner \in [Procs -> Tokens]
      /\ lockAside \in [Procs -> Tokens] /\ None \notin Procs
      BY NoneAssumption DEF Inv, TypeOK, Tokens, Expectation
<1>2. ControlInv /\ DirectoryInv   BY HeldSteps DEF Inv, Step, Acquisition, LockRemoval
<1>3. QED
      BY <1>1, <1>2
      DEF RestoreLock, At, Goto, GotoJob, Again, Ended, AfterLock, ControlInv, DirectoryInv,
            NamesInv, SlotsInv, OwnersInv, Before, InSlot,
          Slot, SlotPCs, ClaimPCs, RemovalPCs, EarlyPCs

LEMMA RestoreLockHeld ==
    ASSUME Inv, NEW p \in Procs, RestoreLock(p)
    PROVE  HeldInv'
<1>1. /\ pc \in [Procs -> PCs] /\ job \in [Procs -> Jobs] /\ lock \in Procs \cup {None}
      /\ seen \in [Procs -> Expectation] /\ held \in [Procs -> Tokens]
      /\ owner \in [Procs -> Tokens]
      /\ lockAside \in [Procs -> Tokens] /\ None \notin Procs
      BY NoneAssumption DEF Inv, TypeOK, Tokens, Expectation
<1>2. ControlInv /\ DirectoryInv /\ HeldInv /\ HeldStep(p)  BY HeldSteps DEF Inv, Step,
      Acquisition, LockRemoval
<1>3. QED
      BY <1>1, <1>2
      DEF RestoreLock, At, Goto, GotoJob, Again, Ended, AfterLock, HeldInv, HeldStep, Having,
            Located, ControlInv, DirectoryInv, NamesInv, SlotsInv, OwnersInv, Before, InSlot,
          Slot, SlotPCs, ClaimPCs, RemovalPCs, EarlyPCs

\* an owner.json goes that is not a live holder's,
LEMMA RemoveOwnerDirectory ==
    ASSUME Inv, NEW p \in Procs, RemoveOwner(p)
    PROVE  DirectoryInv'
<1>1. /\ pc \in [Procs -> PCs] /\ job \in [Procs -> Jobs] /\ lock \in Procs \cup {None}
      /\ seen \in [Procs -> Expectation] /\ held \in [Procs -> Tokens]
      /\ owner \in [Procs -> Tokens]
      /\ lockAside \in [Procs -> Tokens] /\ None \notin Procs
      BY NoneAssumption DEF Inv, TypeOK, Tokens, Expectation
<1>2. ControlInv /\ DirectoryInv /\ HeldInv  BY DEF Inv
<1>3. /\ UNCHANGED <<lock, lockAside, seen, job>> /\ OnlyMoves(p)
      /\ pc[p] = "rmOwner" /\ pc'[p] = "rmdirLock"
      /\ Slot(p) \in Procs /\ lockAside[Slot(p)] \in Procs
      /\ owner' = [owner EXCEPT ![lockAside[Slot(p)]] = None]
      BY <1>1, <1>2 DEF RemoveOwner, At, Goto, OnlyMoves, InSlot, Slot, SlotPCs, DirectoryInv,
            SlotsInv,
                        ControlInv, RemovalPCs, Tokens
<1>4. \A q \in Procs \ {p} : InSlot(q) => owner'[lockAside[Slot(q)]] = owner[lockAside[Slot(q)]]
  <2>1. SUFFICES ASSUME NEW q \in Procs \ {p}, InSlot(q)
                 PROVE  owner'[lockAside[Slot(q)]] = owner[lockAside[Slot(q)]]
        OBVIOUS
  <2>2. Slot(q) \in Procs  BY <1>2, <2>1 DEF ControlInv, RemovalPCs, InSlot, Slot, SlotPCs
  <2>3. lockAside[Slot(q)] # None /\ lockAside[Slot(q)] \in Procs
        BY <1>1, <1>2, <2>1, <2>2 DEF DirectoryInv, SlotsInv, Tokens
  <2>4. Slot(q) # Slot(p)
        BY <1>2, <1>3, <2>1 DEF DirectoryInv, SlotsInv, InSlot, SlotPCs
  <2>5. lockAside[Slot(q)] # lockAside[Slot(p)]
        BY <1>2, <1>3, <2>2, <2>3, <2>4 DEF DirectoryInv, NamesInv
  <2>6. QED  BY <1>1, <1>3, <2>3, <2>5
<1>5. NamesInv' /\ SlotsInv'
      BY <1>2, <1>3 DEF DirectoryInv, NamesInv, SlotsInv, OnlyMoves, InSlot, Slot, SlotPCs, Before,
            EarlyPCs
<1>6. OwnersInv'
      BY <1>1, <1>2, <1>3, <1>4 DEF DirectoryInv, OwnersInv, OnlyMoves, InSlot, Slot, SlotPCs
<1>7. QED  BY <1>5, <1>6 DEF DirectoryInv

LEMMA RemoveOwnerHeld ==
    ASSUME Inv, NEW p \in Procs, RemoveOwner(p)
    PROVE  HeldInv'
<1>1. /\ pc \in [Procs -> PCs] /\ job \in [Procs -> Jobs] /\ lock \in Procs \cup {None}
      /\ seen \in [Procs -> Expectation] /\ held \in [Procs -> Tokens]
      /\ owner \in [Procs -> Tokens]
      /\ lockAside \in [Procs -> Tokens] /\ None \notin Procs
      BY NoneAssumption DEF Inv, TypeOK, Tokens, Expectation
<1>2. ControlInv /\ DirectoryInv /\ HeldInv /\ HeldStep(p)  BY HeldSteps DEF Inv, Step,
      Acquisition, LockRemoval
<1>3. QED
      BY <1>1, <1>2
      DEF RemoveOwner, At, Goto, GotoJob, Again, Ended, AfterLock, HeldInv, HeldStep, Having,
            Located, ControlInv, DirectoryInv, NamesInv, SlotsInv, OwnersInv, Before, InSlot,
          Slot, SlotPCs, ClaimPCs, RemovalPCs, EarlyPCs

\* and a directory goes that has none.
LEMMA RemoveLockDirectory ==
    ASSUME Inv, NEW p \in Procs, RemoveLock(p)
    PROVE  DirectoryInv'
<1>1. /\ pc \in [Procs -> PCs] /\ job \in [Procs -> Jobs] /\ lock \in Procs \cup {None}
      /\ seen \in [Procs -> Expectation] /\ held \in [Procs -> Tokens]
      /\ owner \in [Procs -> Tokens]
      /\ lockAside \in [Procs -> Tokens] /\ None \notin Procs
      BY NoneAssumption DEF Inv, TypeOK, Tokens, Expectation
<1>2. ControlInv /\ DirectoryInv   BY HeldSteps DEF Inv, Step, Acquisition, LockRemoval
<1>3. QED
      BY <1>1, <1>2
      DEF RemoveLock, At, Goto, GotoJob, Again, Ended, AfterLock, ControlInv, DirectoryInv,
            NamesInv, SlotsInv, OwnersInv, Before, InSlot,
          Slot, SlotPCs, ClaimPCs, RemovalPCs, EarlyPCs

LEMMA RemoveLockHeld ==
    ASSUME Inv, NEW p \in Procs, RemoveLock(p)
    PROVE  HeldInv'
<1>1. /\ pc \in [Procs -> PCs] /\ job \in [Procs -> Jobs] /\ lock \in Procs \cup {None}
      /\ seen \in [Procs -> Expectation] /\ held \in [Procs -> Tokens]
      /\ owner \in [Procs -> Tokens]
      /\ lockAside \in [Procs -> Tokens] /\ None \notin Procs
      BY NoneAssumption DEF Inv, TypeOK, Tokens, Expectation
<1>2. ControlInv /\ DirectoryInv /\ HeldInv /\ HeldStep(p)  BY HeldSteps DEF Inv, Step,
      Acquisition, LockRemoval
<1>3. QED
      BY <1>1, <1>2
      DEF RemoveLock, At, Goto, GotoJob, Again, Ended, AfterLock, HeldInv, HeldStep, Having,
            Located, ControlInv, DirectoryInv, NamesInv, SlotsInv, OwnersInv, Before, InSlot,
          Slot, SlotPCs, ClaimPCs, RemovalPCs, EarlyPCs

-------------------------------------------------------------------------------

\* A step that changes a directory keeps its names, its owners and held leases.
LEMMA ChangingKeeps ==
    ASSUME Inv, NEW p \in Procs, Changing(p)
    PROVE  DirectoryInv' /\ HeldInv'
BY MkdirDirectory, MkdirHeld, OpenOwnerDirectory, OpenOwnerHeld, MoveLockDirectory, MoveLockHeld,
   CheckLockKeeps, RestoreLockDirectory, RestoreLockHeld, RemoveOwnerDirectory, RemoveOwnerHeld,
   RemoveLockDirectory, RemoveLockHeld
DEF Changing

\* Every step of a process keeps the invariant.
LEMMA StepKeeps ==
    ASSUME Inv, NEW p \in Procs, Step(p)
    PROVE  Inv'
<1>1. TokenInv(p) /\ TypeOK  BY DEF Inv, ControlInv, TokenInv
<1>2. TypeOK'
      BY <1>1, FileTypes, ProcTypes, SeenTypes
      DEF TypeOK, FileTypeOK, ProcTypeOK, SeenTypeOK, Expectation
<1>3. DirectoryInv' /\ HeldInv'
      BY PrivateSteps, HeldSteps, PrivateDirectories, PrivateHeld, ChangingKeeps
<1>4. QED  BY <1>2, <1>3, StepControl DEF Inv

\* A process that is killed or exits keeps what the others rely on.
LEMMA DeathKeeps ==
    ASSUME Inv, NEW p \in Procs, Kill(p) \/ Exit(p)
    PROVE  Inv'
<1>1. /\ pc' = [pc EXCEPT ![p] = "dead"] /\ dead' = dead \cup {p}
      /\ UNCHANGED <<fileVars, served>>
      /\ \/ UNCHANGED <<job, seen, held, killed>> /\ pc[p] = "done"
         \/ /\ killed' = killed \cup {p} /\ job' = [job EXCEPT ![p] = "none"]
            /\ seen' = [seen EXCEPT ![p] = Nothing] /\ held' = [held EXCEPT ![p] = None]
      BY DEF Kill, Exit, At, Goto
<1>2. TypeOK
      BY DEF Inv
<1>3. /\ pc \in [Procs -> PCs] /\ job \in [Procs -> Jobs]
      /\ seen \in [Procs -> Expectation] /\ held \in [Procs -> Tokens]
      /\ dead \subseteq Procs /\ killed \subseteq dead /\ served \subseteq Procs
      BY <1>2 DEF TypeOK, Expectation
<1>4. FileTypeOK'  BY <1>1, <1>2 DEF TypeOK, FileTypeOK, fileVars
<1>5. ProcTypeOK'  BY <1>1, <1>3, Labels, ExpectationTypes DEF ProcTypeOK
<1>6. SeenTypeOK'  BY <1>1, <1>3, ExpectationTypes DEF SeenTypeOK
<1>7. TypeOK'  BY <1>4, <1>5, <1>6 DEF TypeOK, FileTypeOK, ProcTypeOK, SeenTypeOK, Expectation
<1>8. ControlInv'
      BY <1>1, <1>3 DEF Inv, ControlInv, RemovalPCs, SlotPCs, ClaimPCs, fileVars
<1>9. DirectoryInv'
      BY <1>1, <1>3 DEF Inv, DirectoryInv, NamesInv, SlotsInv, OwnersInv, Before, InSlot, Slot,
                        SlotPCs, EarlyPCs, fileVars
<1>10. HeldInv'
      BY <1>1, <1>3 DEF Inv, ControlInv, HeldInv, Having, Located, ClaimPCs, fileVars
<1>11. QED  BY <1>7, <1>8, <1>9, <1>10 DEF Inv

\* The invariant holds at first.
LEMMA InitKeeps ==
    ASSUME NoDirectories, pc = [p \in Procs |-> "start"], dead = {}, served = {}, killed = {}
    PROVE  Inv
<1>1. FileTypeOK  BY ExpectationTypes DEF NoDirectories, FileTypeOK
<1>2. ProcTypeOK  BY ExpectationTypes, Labels DEF NoDirectories, ProcTypeOK
<1>3. SeenTypeOK  BY ExpectationTypes DEF NoDirectories, SeenTypeOK
<1>4. TypeOK  BY <1>1, <1>2, <1>3 DEF TypeOK, FileTypeOK, ProcTypeOK, SeenTypeOK, Expectation
<1>5. ControlInv
      BY DEF NoDirectories, ControlInv, RemovalPCs, SlotPCs, ClaimPCs
<1>6. DirectoryInv
      BY NoneAssumption
      DEF NoDirectories, DirectoryInv, NamesInv, SlotsInv, OwnersInv, InSlot, SlotPCs
<1>7. HeldInv  BY DEF NoDirectories, HeldInv, Having
<1>8. QED  BY <1>4, <1>5, <1>6, <1>7 DEF Inv

\* So does every step of the system.
LEMMA NextKeeps ==
    ASSUME Inv, [Next]_vars
    PROVE  Inv'
<1>1. CASE UNCHANGED vars
      BY <1>1 DEF vars, fileVars, procVars, Inv, TypeOK, ControlInv, DirectoryInv, NamesInv,
            SlotsInv,
             OwnersInv, HeldInv, Before, InSlot, Slot, Having, Located
<1>2. CASE \E p \in Procs : Step(p)  BY <1>2, StepKeeps
<1>3. CASE \E p \in Procs : Kill(p) \/ Exit(p)  BY <1>3, DeathKeeps
<1>4. QED  BY <1>1, <1>2, <1>3 DEF Next

(* Orderly histories.                                                         *)

\* Who holds the claim in an orderly history.
InClaim(p) ==
    \/ pc[p] \in {"unstage", "mkdir", "inspectLock", "openOwner", "fillOwner", "capture",
                  "dropClaim", "moveClaim"}
    \/ job[p] = "reclaim" /\ pc[p] \in {"moveLock"} \cup SlotPCs

JobInv ==
    \A p \in Procs :
        /\ pc[p] \notin {"normalize", "inspectEmpty", "initCleanup", "restoreClaim", "restoreLock"}
        /\ job[p] = "none" \/ job[p] = "enter" \/ job[p] = "reclaim" \/ job[p] = "release"
        /\ pc[p] \in {"start", "unstage", "inspectClaim", "mkdir", "inspectLock", "openOwner",
                     "fillOwner", "capture", "hold", "done", "dead"} => job[p] = "none"
        /\ pc[p] \in {"moveLock"} \cup SlotPCs => job[p] = "reclaim" \/ job[p] = "release"
        /\ pc[p] \in ClaimPCs => job[p] = "enter" \/ job[p] = "reclaim"
        /\ pc[p] = "release" => job[p] = "release"

\* The claim is held by one process at a time and taken off by nobody else.
ClaimInv ==
    \A p \in Procs :
        /\ InClaim(p) <=> claim = p
        /\ pc[p] = "unstage" => p \in staged
        /\ pc[p] \in {"moveClaim", "checkClaim", "rmClaim"} => seen[p].token = p
        /\ pc[p] \in {"checkClaim", "rmClaim"} => claimAside[p] = p
        /\ claimAside[p] # None => pc[p] \in {"checkClaim", "rmClaim", "dead"}

\* Whose directory is at the lease path.
Owns(p) ==
    \/ pc[p] \in {"openOwner", "fillOwner", "capture", "hold", "release"}
    \/ job[p] = "enter"
    \/ pc[p] = "moveLock" /\ job[p] = "release"

LockInv ==
    /\ lock # None => lock \in dead \/ Owns(lock)
    /\ \A p \in Procs :
        /\ lockAside[p] \in {None, p} /\ owner[p] \in {None, p}
        /\ Before(p) => owner[p] = None
        /\ Owns(p) => lock = p
        /\ Owns(p) => owner[p] = IF pc[p] = "openOwner" THEN None ELSE p
        /\ job[p] = "enter" \/ pc[p] \in {"hold", "release"} =>
              held[p] = p /\ p \in written /\ p \notin moved
        /\ pc[p] = "moveLock" /\ job[p] = "release" =>
              seen[p] = [token |-> p, dir |-> p, owner |-> p]
        /\ pc[p] = "moveLock" /\ job[p] = "reclaim" =>
              /\ lock \in dead /\ owner[lock] = lock
              /\ seen[p] = [token |-> lock, dir |-> lock, owner |-> lock]
        /\ pc[p] \in {"checkLock", "rmOwner"} =>
              /\ seen[p].dir = Slot(p) /\ seen[p].owner = Slot(p)
              /\ owner[Slot(p)] = Slot(p)

OrderlyInv == Orderly => JobInv /\ ClaimInv /\ LockInv

\* What every check of an orderly process finds.
Expected(p) ==
    /\ pc[p] = "inspectClaim" => claim = None \/ claim \notin dead
    /\ pc[p] = "openOwner" => lock = p /\ owner[p] = None
    /\ pc[p] = "capture" => lock = p /\ owner[p] = p
    /\ pc[p] = "dropClaim" => claim = p
    /\ pc[p] = "moveClaim" => claim = p /\ seen[p].token = p /\ claimAside[p] = None
    /\ pc[p] = "checkClaim" => seen[p].token = p /\ claimAside[p] = p
    /\ pc[p] = "release" => held[p] = p /\ lock = p /\ lock \notin moved /\ OwnerReads(p, p)
    /\ pc[p] = "moveLock" =>
          /\ lock # None /\ lockAside[Slot(p)] = None /\ Slot(p) = lock
          /\ seen[p].dir = lock /\ seen[p].owner = lock /\ owner[lock] = lock
    /\ pc[p] = "checkLock" =>
          /\ lockAside[Slot(p)] = Slot(p) /\ seen[p].dir = Slot(p)
          /\ owner[Slot(p)] = Slot(p) /\ seen[p].owner = Slot(p)

\* In an orderly history every check finds what the process put there.
LEMMA ChecksSucceed ==
    ASSUME Inv, OrderlyInv, Orderly, NEW p \in Procs
    PROVE  Expected(p)
<1>1. /\ claim \in Procs \cup {None} /\ lock \in Procs \cup {None} /\ None \notin Procs
      /\ seen \in [Procs -> Expectation]
      BY NoneAssumption DEF Inv, TypeOK, Expectation, Tokens
<1>2. JobInv /\ ClaimInv /\ LockInv  BY DEF OrderlyInv
<1>3. ControlInv /\ NamesInv /\ SlotsInv  BY DEF Inv, DirectoryInv
<1>4. pc[p] = "inspectClaim" => claim = None \/ claim \notin dead
      BY <1>1, <1>2, <1>3 DEF ControlInv, ClaimInv, InClaim, SlotPCs, JobInv
<1>5. /\ pc[p] = "openOwner" => lock = p /\ owner[p] = None
      /\ pc[p] = "capture" => lock = p /\ owner[p] = p
      /\ pc[p] = "release" => held[p] = p /\ lock = p /\ lock \notin moved /\ OwnerReads(p, p)
      BY <1>2 DEF LockInv, Owns, OwnerReads
<1>6. /\ pc[p] = "dropClaim" => claim = p
      /\ pc[p] = "moveClaim" => claim = p /\ seen[p].token = p /\ claimAside[p] = None
      /\ pc[p] = "checkClaim" => seen[p].token = p /\ claimAside[p] = p
      BY <1>2 DEF ClaimInv, InClaim
<1>7. ASSUME pc[p] = "moveLock"
      PROVE  /\ lock # None /\ lockAside[Slot(p)] = None /\ Slot(p) = lock
             /\ seen[p].dir = lock /\ seen[p].owner = lock /\ owner[lock] = lock
  <2>1. job[p] = "reclaim" \/ job[p] = "release"  BY <1>2, <1>7 DEF JobInv
  <2>2. /\ lock # None /\ owner[lock] = lock
        /\ seen[p] = [token |-> lock, dir |-> lock, owner |-> lock]
        BY <1>1, <1>2, <1>3, <1>7, <2>1 DEF LockInv, Owns, ControlInv
  <2>3. lockAside[lock] = None  BY <1>1, <1>2, <1>3, <2>2 DEF NamesInv, LockInv
  <2>4. QED  BY <2>2, <2>3 DEF Slot
<1>8. ASSUME pc[p] = "checkLock"
      PROVE  /\ lockAside[Slot(p)] = Slot(p) /\ seen[p].dir = Slot(p)
             /\ owner[Slot(p)] = Slot(p) /\ seen[p].owner = Slot(p)
  <2>1. Slot(p) \in Procs /\ InSlot(p)
        BY <1>3, <1>8 DEF ControlInv, RemovalPCs, SlotPCs, Slot, InSlot
  <2>2. QED  BY <1>2, <1>3, <1>8, <2>1 DEF LockInv, SlotsInv
<1>9. QED  BY <1>4, <1>5, <1>6, <1>7, <1>8 DEF Expected

\* What the steps that choose a removal do in an orderly history.
LEMMA ReleaseMoves ==
    ASSUME Inv, OrderlyInv, Orderly, NEW p \in Procs, Release(p)
    PROVE  /\ pc[p] = "release" /\ job[p] = "release"
           /\ pc' = [pc EXCEPT ![p] = "moveLock"] /\ job' = job
           /\ seen' = [seen EXCEPT ![p] = [token |-> p, dir |-> p, owner |-> p]]
           /\ UNCHANGED <<held, fileVars, dead>>
<1>1. /\ pc[p] = "release" /\ job[p] = "release" /\ job \in [Procs -> Jobs]
      /\ held[p] = p /\ held[p] # None /\ StillOwned(p)
      BY ChecksSucceed, NoneAssumption
      DEF Release, At, OrderlyInv, JobInv, Expected, StillOwned, Inv, TypeOK
<1>2. /\ GotoJob(p, "moveLock", job[p], [token |-> p, dir |-> p, owner |-> p])
      /\ UNCHANGED fileVars /\ Quiet
      BY <1>1 DEF Release
<1>3. QED  BY <1>1, <1>2 DEF GotoJob, Quiet

LEMMA DropMoves ==
    ASSUME Inv, OrderlyInv, Orderly, NEW p \in Procs, DropClaim(p)
    PROVE  /\ pc[p] = "dropClaim" /\ claim = p
           /\ pc' = [pc EXCEPT ![p] = "moveClaim"] /\ job' = job
           /\ seen' = [seen EXCEPT ![p] = [token |-> p, dir |-> None, owner |-> None]]
           /\ UNCHANGED <<held, fileVars, dead>>
<1>1. pc[p] = "dropClaim" /\ claim = p /\ job \in [Procs -> Jobs]
      BY ChecksSucceed DEF DropClaim, At, Expected, Inv, TypeOK
<1>2. /\ GotoJob(p, "moveClaim", job[p], [token |-> p, dir |-> None, owner |-> None])
      /\ UNCHANGED fileVars /\ Quiet
      BY <1>1 DEF DropClaim, Nothing
<1>3. QED  BY <1>1, <1>2 DEF GotoJob, Quiet

LEMMA InspectReclaims ==
    ASSUME Inv, OrderlyInv, Orderly, NEW p \in Procs, InspectLock(p)
    PROVE  /\ pc[p] = "inspectLock" /\ job' = [job EXCEPT ![p] = "reclaim"]
           /\ UNCHANGED <<held, fileVars, dead>>
           /\ \/ /\ lock \in dead /\ owner[lock] = lock
                 /\ pc' = [pc EXCEPT ![p] = "moveLock"]
                 /\ seen' = [seen EXCEPT ![p] = [token |-> lock, dir |-> lock, owner |-> lock]]
              \/ /\ pc' = [pc EXCEPT ![p] = "dropClaim"]
                 /\ seen' = [seen EXCEPT ![p] = Nothing]
<1>1. /\ lock \in Procs \cup {None} /\ dead \subseteq Procs /\ None \notin Procs
      /\ LockInv
      BY NoneAssumption DEF Inv, TypeOK, Tokens, OrderlyInv
<1>2. lock # None /\ owner[lock] \in dead => owner[lock] = lock
      BY <1>1 DEF LockInv
<1>3. CASE lock # None /\ ConclusivelyDead(owner[lock]) /\ OwnerReads(lock, owner[lock])
  <2>1. owner[lock] = lock /\ lock \in dead  BY <1>2, <1>3 DEF ConclusivelyDead
  <2>2. GotoJob(p, "moveLock", "reclaim", [token |-> lock, dir |-> lock, owner |-> lock])
        BY <1>3, <2>1 DEF InspectLock
  <2>3. QED  BY <2>1, <2>2 DEF InspectLock, GotoJob, Quiet, At
<1>4. CASE ~(lock # None /\ ConclusivelyDead(owner[lock]) /\ OwnerReads(lock, owner[lock]))
      BY <1>4 DEF InspectLock, GotoJob, Quiet, At
<1>5. QED  BY <1>3, <1>4

\* Every step keeps an orderly history orderly: what processes are doing,
LEMMA StepJobs ==
    ASSUME Inv, OrderlyInv, Orderly, NEW p \in Procs, Step(p)
    PROVE  JobInv'
<1>a. /\ pc \in [Procs -> PCs] /\ job \in [Procs -> Jobs] /\ seen \in [Procs -> Expectation]
      /\ held \in [Procs -> Tokens]
      /\ owner \in [Procs -> Tokens]
      /\ claim \in Procs \cup {None} /\ lock \in Procs \cup {None} /\ None \notin Procs
      BY NoneAssumption DEF Inv, TypeOK, Expectation, Tokens
<1>b. JobInv /\ Expected(p) /\ ~regime.giveUp  BY ChecksSucceed DEF OrderlyInv, Orderly
<1> USE <1>a, <1>b DEF Expected, OwnerReads, StillOwned, Slot, At, Goto, GotoJob, Again, Ended,
      AfterClaim, AfterLock, ConclusivelyDead, JobInv, SlotPCs, ClaimPCs
<1>1. CASE LinkClaim(p)  BY <1>1 DEF LinkClaim
<1>2. CASE Unstage(p)  BY <1>2 DEF Unstage
<1>3. CASE GiveUp(p)  BY <1>3 DEF GiveUp
<1>4. CASE Mkdir(p)  BY <1>4 DEF Mkdir
<1>5. CASE OpenOwner(p)  BY <1>5 DEF OpenOwner
<1>6. CASE FillOwner(p)  BY <1>6 DEF FillOwner
<1>7. CASE Capture(p)  BY <1>7 DEF Capture
<1>8. CASE InitCleanup(p)  BY <1>8 DEF InitCleanup
<1>9. CASE InspectClaim(p)  BY <1>9 DEF InspectClaim
<1>10. CASE Normalize(p)  BY <1>10 DEF Normalize
<1>11. CASE InspectEmpty(p)  BY <1>11 DEF InspectEmpty
<1>12. CASE DropClaim(p)  BY <1>12, DropMoves
<1>13. CASE MoveClaim(p)  BY <1>13 DEF MoveClaim
<1>14. CASE CheckClaim(p)  BY <1>14 DEF CheckClaim
<1>15. CASE RestoreClaim(p)  BY <1>15 DEF RestoreClaim
<1>16. CASE RemoveClaim(p)  BY <1>16 DEF RemoveClaim
<1>17. CASE InspectLock(p)  BY <1>17, InspectReclaims
<1>18. CASE Release(p)  BY <1>18, ReleaseMoves
<1>19. CASE MoveLock(p)  BY <1>19 DEF MoveLock
<1>20. CASE CheckLock(p)  BY <1>20 DEF CheckLock
<1>21. CASE RestoreLock(p)  BY <1>21 DEF RestoreLock
<1>22. CASE RemoveOwner(p)  BY <1>22 DEF RemoveOwner
<1>23. CASE RemoveLock(p)  BY <1>23 DEF RemoveLock
<1>24. CASE Run(p)  BY <1>24 DEF Run
<1>25. QED
     BY <1>1, <1>2, <1>3, <1>4, <1>5, <1>6, <1>7, <1>8, <1>9, <1>10,
        <1>11, <1>12, <1>13, <1>14, <1>15, <1>16, <1>17, <1>18, <1>19,
        <1>20, <1>21, <1>22, <1>23, <1>24
     DEF Step, Acquisition, ClaimRemoval, LockRemoval

\* who holds the claim,
LEMMA StepClaim ==
    ASSUME Inv, OrderlyInv, Orderly, NEW p \in Procs, Step(p)
    PROVE  ClaimInv'
<1>a. /\ pc \in [Procs -> PCs] /\ job \in [Procs -> Jobs] /\ seen \in [Procs -> Expectation]
      /\ claimAside \in [Procs -> Tokens]
      /\ claim \in Procs \cup {None} /\ None \notin Procs
      BY NoneAssumption DEF Inv, TypeOK, Expectation, Tokens
<1>b. JobInv /\ ClaimInv /\ Expected(p) /\ ~regime.giveUp  BY ChecksSucceed DEF OrderlyInv, Orderly
<1> USE <1>a, <1>b DEF Expected, OwnerReads, StillOwned, Slot, At, Goto, GotoJob, Again, Ended,
      AfterClaim, AfterLock, ConclusivelyDead, JobInv, ClaimInv, InClaim, SlotPCs, ClaimPCs,
   ClaimFrame, LockFrame, fileVars
<1>1. CASE LinkClaim(p)  BY <1>1 DEF LinkClaim
<1>2. CASE Unstage(p)  BY <1>2 DEF Unstage
<1>3. CASE GiveUp(p)  BY <1>3 DEF GiveUp
<1>4. CASE Mkdir(p)  BY <1>4 DEF Mkdir
<1>5. CASE OpenOwner(p)  BY <1>5 DEF OpenOwner
<1>6. CASE FillOwner(p)  BY <1>6 DEF FillOwner
<1>7. CASE Capture(p)  BY <1>7 DEF Capture
<1>8. CASE InitCleanup(p)  BY <1>8 DEF InitCleanup
<1>9. CASE InspectClaim(p)  BY <1>9 DEF InspectClaim
<1>10. CASE Normalize(p)  BY <1>10 DEF Normalize
<1>11. CASE InspectEmpty(p)  BY <1>11 DEF InspectEmpty
<1>12. CASE DropClaim(p)  BY <1>12, DropMoves
<1>13. CASE MoveClaim(p)  BY <1>13 DEF MoveClaim
<1>14. CASE CheckClaim(p)  BY <1>14 DEF CheckClaim
<1>15. CASE RestoreClaim(p)  BY <1>15 DEF RestoreClaim
<1>16. CASE RemoveClaim(p)  BY <1>16 DEF RemoveClaim
<1>17. CASE InspectLock(p)  BY <1>17, InspectReclaims
<1>18. CASE Release(p)  BY <1>18, ReleaseMoves
<1>19. CASE MoveLock(p)  BY <1>19 DEF MoveLock
<1>20. CASE CheckLock(p)  BY <1>20 DEF CheckLock
<1>21. CASE RestoreLock(p)  BY <1>21 DEF RestoreLock
<1>22. CASE RemoveOwner(p)  BY <1>22 DEF RemoveOwner
<1>23. CASE RemoveLock(p)  BY <1>23 DEF RemoveLock
<1>24. CASE Run(p)  BY <1>24 DEF Run
<1>25. QED
     BY <1>1, <1>2, <1>3, <1>4, <1>5, <1>6, <1>7, <1>8, <1>9, <1>10,
        <1>11, <1>12, <1>13, <1>14, <1>15, <1>16, <1>17, <1>18, <1>19,
        <1>20, <1>21, <1>22, <1>23, <1>24
     DEF Step, Acquisition, ClaimRemoval, LockRemoval

\* and whose directory is at the lease path.
LEMMA StepLock ==
    ASSUME Inv, OrderlyInv, Orderly, NEW p \in Procs, Step(p)
    PROVE  LockInv'
<1>a. /\ pc \in [Procs -> PCs] /\ job \in [Procs -> Jobs] /\ seen \in [Procs -> Expectation]
      /\ held \in [Procs -> Tokens] /\ owner \in [Procs -> Tokens] /\ lockAside \in [Procs -> Tokens]
      /\ lock \in Procs \cup {None} /\ None \notin Procs /\ dead \subseteq Procs
      BY NoneAssumption DEF Inv, TypeOK, Expectation, Tokens
<1>b. JobInv /\ ClaimInv /\ LockInv /\ ControlInv /\ DirectoryInv /\ Expected(p) /\ ~regime.giveUp
      BY ChecksSucceed DEF OrderlyInv, Orderly, Inv
<1>c. \A q \in Procs : pc[q] \in {"checkLock", "rmOwner", "moveLock"} => seen[q].token \in Procs
      BY DEF Inv, ControlInv, RemovalPCs, SlotPCs
<1> USE <1>a, <1>b, <1>c DEF Expected, At, Goto, GotoJob, Again, Ended, AfterClaim, AfterLock,
      ConclusivelyDead, OwnerReads, StillOwned, JobInv, LockInv, Owns, Before, EarlyPCs,
   InClaim, SlotPCs, ClaimPCs, Slot, ClaimFrame, LockFrame, fileVars, Quiet
<1>1. CASE LinkClaim(p)  BY <1>1 DEF LinkClaim
<1>2. CASE Unstage(p)  BY <1>2 DEF Unstage
<1>3. CASE GiveUp(p)  BY <1>3 DEF GiveUp
<1>4. CASE Mkdir(p)  BY <1>4 DEF Mkdir
<1>5. CASE OpenOwner(p)  BY <1>5 DEF OpenOwner
<1>6. CASE FillOwner(p)  BY <1>6 DEF FillOwner
<1>7. CASE Capture(p)
  <2>1. p \in written  BY <1>7 DEF Capture, ControlInv
  <2>2. /\ pc[p] = "capture" /\ lock = p /\ owner[p] = p
        /\ pc' = [pc EXCEPT ![p] = "dropClaim"] /\ job' = [job EXCEPT ![p] = "enter"]
        /\ held' = [held EXCEPT ![p] = p] /\ moved' = moved \ {p}
        /\ UNCHANGED <<seen, lock, lockAside, owner, written, dead>>
        BY <1>7 DEF Capture
  <2>3. QED  BY <2>1, <2>2
<1>8. CASE InitCleanup(p)  BY <1>8 DEF InitCleanup
<1>9. CASE InspectClaim(p)  BY <1>9 DEF InspectClaim
<1>10. CASE Normalize(p)  BY <1>10 DEF Normalize
<1>11. CASE InspectEmpty(p)  BY <1>11 DEF InspectEmpty
<1>12. CASE DropClaim(p)  BY <1>12, DropMoves
<1>13. CASE MoveClaim(p)  BY <1>13 DEF MoveClaim
<1>14. CASE CheckClaim(p)  BY <1>14 DEF CheckClaim
<1>15. CASE RestoreClaim(p)  BY <1>15 DEF RestoreClaim
<1>16. CASE RemoveClaim(p)  BY <1>16 DEF RemoveClaim
<1>17. CASE InspectLock(p)  BY <1>17, InspectReclaims
<1>18. CASE Release(p)  BY <1>18, ReleaseMoves
<1>19. CASE MoveLock(p)
  <2>1. /\ pc[p] = "moveLock" /\ lock \in Procs /\ lockAside[lock] = None /\ seen[p].token = lock
        /\ seen[p].dir = lock /\ seen[p].owner = lock /\ owner[lock] = lock
        /\ job[p] = "reclaim" \/ job[p] = "release"
        BY <1>19 DEF MoveLock
  <2>2. /\ lockAside' = [lockAside EXCEPT ![lock] = lock] /\ lock' = None
        /\ moved' = moved \cup {lock} /\ pc' = [pc EXCEPT ![p] = "checkLock"]
        /\ UNCHANGED <<job, seen, held, owner, written, dead>>
        BY <1>19, <2>1 DEF MoveLock
  <2>a. job[p] = "reclaim" => lock \in dead  BY <2>1
  <2>b. job[p] = "release" => lock = p  BY <2>1
  <2>c. \A q \in dead : q \in Procs /\ pc[q] = "dead" /\ job[q] # "enter"  BY DEF ControlInv
  <2>d. \A q \in dead : ~Owns(q)  BY <2>c
  <2>3. \A q \in Procs : q # p => ~Owns(q)
    <3> HIDE DEF Owns
    <3>1. \A q \in Procs : Owns(q) => lock = q  BY DEF LockInv
    <3>2. QED  BY <2>1, <2>a, <2>b, <2>d, <3>1
  <2>e. \A q \in Procs : pc[q] = "moveLock" => job[q] = "reclaim" \/ job[q] = "release"  OBVIOUS
  <2>f. \A q \in Procs : pc[q] = "moveLock" /\ job[q] = "reclaim" => claim = q /\ lock \in dead
        BY DEF ClaimInv
  <2>g. \A q \in Procs : pc[q] = "moveLock" /\ job[q] = "release" => lock = q
        OBVIOUS
  <2>4. \A q \in Procs : q # p => pc[q] # "moveLock"
    <3> HIDE <1>a, <1>b, <1>c DEF LockInv, Owns
    <3>1. QED  BY <2>1, <2>a, <2>b, <2>c, <2>e, <2>f, <2>g
  <2>5. QED  BY <2>1, <2>2, <2>3, <2>4
<1>20. CASE CheckLock(p)  BY <1>20 DEF CheckLock
<1>21. CASE RestoreLock(p)  BY <1>21 DEF RestoreLock
<1>22. CASE RemoveOwner(p)
  <2> DEFINE d == seen[p].token
  <2>1. /\ pc[p] = "rmOwner" /\ d \in Procs /\ lockAside[d] = d /\ lock # d
        BY <1>22 DEF RemoveOwner, DirectoryInv, SlotsInv, InSlot, NamesInv
  <2>2. /\ owner' = [owner EXCEPT ![d] = None] /\ pc' = [pc EXCEPT ![p] = "rmdirLock"]
        /\ UNCHANGED <<job, seen, held, lock, lockAside, written, moved, dead>>
        BY <1>22, <2>1 DEF RemoveOwner
  <2>3. \A q \in Procs : Owns(q) => q # d  BY <2>1
  <2>4. \A q \in Procs : q # p /\ pc[q] \in {"checkLock", "rmOwner"} => seen[q].token # d
        BY <2>1 DEF DirectoryInv, SlotsInv, InSlot
  <2> HIDE DEF d
  <2>5. QED  BY <2>1, <2>2, <2>3, <2>4
<1>23. CASE RemoveLock(p)  BY <1>23 DEF RemoveLock
<1>24. CASE Run(p)  BY <1>24 DEF Run
<1> HIDE <1>a, <1>b, <1>c DEF LockInv, Owns
<1>25. QED
     BY <1>1, <1>2, <1>3, <1>4, <1>5, <1>6, <1>7, <1>8, <1>9, <1>10,
        <1>11, <1>12, <1>13, <1>14, <1>15, <1>16, <1>17, <1>18, <1>19,
        <1>20, <1>21, <1>22, <1>23, <1>24
     DEF Step, Acquisition, ClaimRemoval, LockRemoval

\* A process is killed only with the lease, on the way out, or with a claim put aside.
LEMMA DeathIsOrderly ==
    ASSUME Inv, OrderlyInv, Orderly, NEW p \in Procs, Kill(p) \/ Exit(p)
    PROVE  OrderlyInv'
<1>a. /\ pc \in [Procs -> PCs] /\ job \in [Procs -> Jobs] /\ seen \in [Procs -> Expectation]
      /\ held \in [Procs -> Tokens]
      /\ lock \in Procs \cup {None} /\ None \notin Procs /\ dead \subseteq Procs
      BY NoneAssumption DEF Inv, TypeOK, Expectation, Tokens
<1>b. JobInv /\ ClaimInv /\ LockInv /\ ControlInv  BY DEF OrderlyInv, Inv
<1>1. /\ pc' = [pc EXCEPT ![p] = "dead"] /\ dead' = dead \cup {p} /\ UNCHANGED fileVars
      /\ pc[p] \in {"checkClaim", "rmClaim", "hold", "release", "done"}
      /\ \/ UNCHANGED <<job, seen, held>> /\ pc[p] = "done"
         \/ /\ job' = [job EXCEPT ![p] = "none"]
            /\ seen' = [seen EXCEPT ![p] = Nothing] /\ held' = [held EXCEPT ![p] = None]
      BY DEF Kill, Exit, At, Goto, Orderly
<1>2. JobInv'  BY <1>a, <1>b, <1>1 DEF JobInv, SlotPCs, ClaimPCs
<1>3. ClaimInv'  BY <1>a, <1>b, <1>1 DEF ClaimInv, JobInv, InClaim, SlotPCs, ClaimPCs, fileVars
<1>4. LockInv'
      BY <1>a, <1>b, <1>1
      DEF LockInv, JobInv, ControlInv, Owns, Before, EarlyPCs, Slot, SlotPCs, ClaimPCs, fileVars
<1>5. QED  BY <1>2, <1>3, <1>4 DEF OrderlyInv

\* What kind of history it is never changes.
LEMMA RegimeStays ==
    ASSUME [Next]_vars
    PROVE  regime' = regime
<1>1. CASE UNCHANGED vars  BY <1>1 DEF vars
<1>2. ASSUME NEW p \in Procs, Kill(p) \/ Exit(p) PROVE regime' = regime
      BY <1>2 DEF Kill, Exit
<1>3. ASSUME NEW p \in Procs, Step(p) PROVE regime' = regime
      BY <1>3 DEF Step, Acquisition, ClaimRemoval, LockRemoval, Quiet, Run,
            LinkClaim, Unstage, GiveUp, Mkdir, OpenOwner, FillOwner, Capture, InitCleanup,
            InspectClaim, Normalize, InspectEmpty, DropClaim, MoveClaim, CheckClaim,
            RestoreClaim, RemoveClaim, InspectLock, Release, MoveLock, CheckLock, RestoreLock,
            RemoveOwner, RemoveLock
<1>4. QED  BY <1>1, <1>2, <1>3 DEF Next

\* So does every step of the system, and the initial state is orderly.
LEMMA NextIsOrderly ==
    ASSUME Inv, OrderlyInv, [Next]_vars
    PROVE  OrderlyInv'
<1>1. Orderly' <=> Orderly  BY RegimeStays DEF Orderly
<1>2. CASE ~Orderly  BY <1>1, <1>2 DEF OrderlyInv
<1>3. CASE Orderly /\ UNCHANGED vars
      BY <1>3 DEF vars, fileVars, procVars, OrderlyInv, JobInv, ClaimInv, LockInv, InClaim, Owns,
             Before, Slot, Orderly
<1>4. CASE Orderly /\ \E p \in Procs : Step(p)
      BY <1>4, StepJobs, StepClaim, StepLock DEF OrderlyInv
<1>5. CASE Orderly /\ \E p \in Procs : Kill(p) \/ Exit(p)  BY <1>5, DeathIsOrderly
<1>6. QED  BY <1>2, <1>3, <1>4, <1>5 DEF Next

LEMMA InitIsOrderly ==
    ASSUME NoDirectories, pc = [p \in Procs |-> "start"]
    PROVE  OrderlyInv
BY NoneAssumption
DEF NoDirectories, OrderlyInv, JobInv, ClaimInv, LockInv, InClaim, Owns, Before, EarlyPCs,
    SlotPCs, ClaimPCs, Slot

\* Orderly histories have one holder, and ended attempts leave nothing.
LEMMA OrderlyMeans ==
    ASSUME Inv, OrderlyInv
    PROVE  OrderlyExclusion /\ EndedLeavesNothing
<1>1. SUFFICES ASSUME Orderly
               PROVE  /\ Cardinality(Holders) <= 1
                      /\ \A p \in Procs : pc[p] = "done" =>
                            /\ claim # p
                            /\ lock # None => lock # p /\ owner[lock] # p
      BY DEF OrderlyExclusion, MutualExclusion, EndedLeavesNothing
<1>2. ControlInv /\ ClaimInv /\ LockInv /\ JobInv /\ lock \in Procs \cup {None} /\ None \notin Procs
      BY <1>1, NoneAssumption DEF OrderlyInv, Inv, TypeOK, Tokens
<1>3. Cardinality(Holders) <= 1
  <2>1. \A p \in Holders : p = lock  BY <1>2 DEF Holders, LockInv, Owns
  <2>2. Holders = {} \/ Holders = {lock}  BY <2>1
  <2>3. Cardinality({}) = 0 /\ Cardinality({lock}) = 1  BY FS_EmptySet, FS_Singleton
  <2>4. QED  BY <2>2, <2>3
<1>4. ASSUME NEW p \in Procs, pc[p] = "done"
      PROVE  claim # p /\ (lock # None => lock # p /\ owner[lock] # p)
  <2>1. claim # p  BY <1>2, <1>4 DEF ClaimInv, InClaim, SlotPCs
  <2>2. lock # p  BY <1>2, <1>4 DEF LockInv, Owns, ControlInv, ClaimPCs
  <2>3. QED  BY <1>2, <2>1, <2>2 DEF LockInv
<1>5. QED  BY <1>3, <1>4

\* What is held is there.
LEMMA HeldMeans ==
    ASSUME Inv
    PROVE  LiveLeaseSurvives
BY DEF Inv, HeldInv, Having, Located, LiveLeaseSurvives, Holders, OwnerReads

-------------------------------------------------------------------------------
(* A lease that is a regular file. *)

\* The assumptions on the constants, as the lemmas on file leases cite them.
Attempts == IsFiniteSet(Procs) /\ None \notin Procs

HostPCs == {"host", "hostPeer", "hostLink", "hostUnlink"}
FileRemovalPCs == {"normalize", "move", "unlink", "check", "remove", "stash", "restore", "unstash"}
FileSlotPCs == {"unlink", "check", "remove", "stash"}

\* A process that has not linked its lease yet.
FileBefore(p) ==
    \/ pc[p] \in HostPCs \cup {"start", "inspect"}
    \/ pc[p] \in FileRemovalPCs /\ aim[p] # p

\* Whoever removes a lease removes its own or a dead owner's.
AimInv ==
    \A p \in Procs :
        /\ p \in dead <=> pc[p] = "dead"
        /\ pc[p] \in FileRemovalPCs => aim[p] \in dead \cup {p}
        /\ pc[p] = "normalize" => aim[p] # p
        /\ pc[p] \notin FileRemovalPCs => aim[p] = None
        /\ pc[p] = "restore" => kept[p] # None

\* A file has no name before its owner links it.
FreshInv ==
    \A p \in Procs : FileBefore(p) =>
        /\ lease # p /\ p \notin prepared \cup stray
        /\ \A q \in Procs : aside[q] # p /\ kept[q] # p

HostInv == File!HostIsOne /\ \A p \in Procs : pc[p] = "hostUnlink" => host = p

Sound == File!TypeOK /\ AimInv /\ FreshInv /\ HostInv

-------------------------------------------------------------------------------
(* Where renames are not disturbed.                                           *)

\* Of two names of a file one is the lease.
FileNamesInv ==
    /\ \A i \in prepared : lease = i
    /\ \A t, u \in Procs : t # u /\ aside[t] # None => aside[t] # aside[u]
    /\ \A p, q \in Procs : p # q /\ kept[p] # None => kept[p] # kept[q]
    /\ \A t, p \in Procs : aside[t] # None => aside[t] # kept[p]
    /\ \A p \in Procs : aside[p] \notin stray /\ kept[p] \notin stray

\* What a process finds at the names it works with.
SlotInv ==
    \A p \in Procs :
        /\ pc[p] \in FileSlotPCs => aside[aim[p]] # None
        /\ pc[p] = "unlink" => aside[aim[p]] = lease /\ prepared = {}
        /\ pc[p] \in {"check", "remove", "stash"} => aside[aim[p]] # lease
        /\ pc[p] = "remove" => aside[aim[p]] = aim[p]
        /\ pc[p] = "restore" => kept[p] # lease
        /\ pc[p] = "unstash" => kept[p] = lease
        /\ pc[p] \notin {"restore", "unstash", "dead"} => kept[p] = None

\* Nobody shares a private name, and one rename at a time is under way.
ApartInv ==
    \A p, q \in Procs : p # q =>
        /\ pc[p] \in FileSlotPCs /\ pc[q] \in FileSlotPCs => aim[p] # aim[q]
        /\ ~(File!Between(p) /\ File!Between(q))

Named(i) ==
    \/ lease = i
    \/ \E t \in Procs : aside[t] = i
    \/ \E p \in Procs : kept[p] = i
    \/ i \in stray

LocatedInv == \A p \in Procs : pc[p] \in {"unstage", "confirm", "hold"} => Named(p)

Undisturbed == regime.prompt => FileNamesInv /\ SlotInv /\ ApartInv /\ LocatedInv

-------------------------------------------------------------------------------
(* Where reclaimers keep apart.                                               *)

\* Whose file the lease must be.
Owning(p) ==
    \/ pc[p] \in {"unstage", "confirm", "hold", "release"}
    \/ pc[p] \in {"move", "unlink"} /\ aim[p] = p

OwnNamesInv ==
    /\ stray = {} /\ \A i \in prepared : lease = i
    /\ \A p \in Procs : kept[p] = None /\ aside[p] \in {None, p}

OwnerInv ==
    \A p \in Procs :
        /\ Owning(p) => lease = p
        /\ Owning(p) /\ pc[p] # "unlink" => aside[p] = None
        /\ pc[p] = "unstage" => p \in prepared
        /\ Owning(p) /\ pc[p] # "unstage" => p \notin prepared
        /\ pc[p] = "done" => lease # p

ReclaimInv ==
    \A p \in Procs :
        /\ pc[p] \notin {"stash", "restore", "unstash"}
        /\ pc[p] \in {"normalize", "move", "unlink"} => lease = aim[p]
        /\ pc[p] \in {"unlink", "check", "remove"} => aside[aim[p]] = aim[p]
        /\ pc[p] = "unlink" => prepared = {}
        /\ pc[p] \in {"check", "remove"} => lease # aim[p]
        /\ \A q \in Procs : File!Reclaiming(p) /\ File!Reclaiming(q) => p = q

Alone == regime.lone => OwnNamesInv /\ OwnerInv /\ ReclaimInv
-------------------------------------------------------------------------------
(* Counting names.                                                            *)

LEMMA FileAttempts == Attempts
BY ProcsAssumption, NoneAssumption DEF Attempts

\* The cardinality of FileLease is that of this module.
LEMMA SameCardinality == \A S : File!Cardinality(S) = Cardinality(S)
BY DEF File!Cardinality, Cardinality

\* The names of one kind that a file has are finitely many.
LEMMA FiniteParts ==
    ASSUME Attempts, NEW f \in [Procs -> File!Tokens], NEW i
    PROVE  /\ Cardinality({p \in Procs : f[p] = i}) \in Nat
           /\ Cardinality({p \in Procs : f[p] = i}) = 0 <=> \A p \in Procs : f[p] # i
<1> DEFINE S == {p \in Procs : f[p] = i}
<1>1. IsFiniteSet(S)  BY FS_Subset DEF Attempts
<1>2. Cardinality(S) \in Nat /\ (Cardinality(S) = 0 <=> S = {})
      BY <1>1, FS_CardinalityType, FS_EmptySet
<1>3. QED  BY <1>2

\* The number of its names tells whether a file has another one than the lease.
LEMMA LinksCount ==
    ASSUME Attempts, File!TypeOK, NEW i \in Procs
    PROVE  /\ File!Links(i) \in Nat
           /\ File!Links(i) = 1 /\ lease = i =>
                /\ i \notin prepared \cup stray
                /\ \A p \in Procs : aside[p] # i /\ kept[p] # i
           /\ lease = i /\ i \notin prepared \cup stray
              /\ (\A p \in Procs : aside[p] # i /\ kept[p] # i) => File!Links(i) = 1
           /\ Named(i) => File!Links(i) > 0
<1> DEFINE A == Cardinality({t \in Procs : aside[t] = i})
           K == Cardinality({p \in Procs : kept[p] = i})
<1>1. aside \in [Procs -> File!Tokens] /\ kept \in [Procs -> File!Tokens]  BY DEF File!TypeOK
<1>2. /\ A \in Nat /\ (A = 0 <=> \A t \in Procs : aside[t] # i)
      /\ K \in Nat /\ (K = 0 <=> \A p \in Procs : kept[p] # i)
      BY <1>1, FiniteParts
<1>3. File!Links(i) = A + K + (IF i \in prepared THEN 1 ELSE 0) + (IF i \in stray THEN 1 ELSE 0)
                 + (IF lease = i THEN 1 ELSE 0)
      BY SameCardinality DEF File!Links
<1> HIDE DEF A, K
<1>4. QED  BY <1>2, <1>3 DEF Named

-------------------------------------------------------------------------------
(* Every history.                                                             *)

\* Every step of a process keeps the types.
LEMMA TypesKeep ==
    ASSUME File!TypeOK, AimInv, NEW p \in Procs, File!HostStep(p) \/ File!LeaseStep(p) \/ File!RemovalStep(p)
    PROVE  File!TypeOK'
<1>1. /\ lease \in File!Tokens /\ host \in File!Tokens /\ candidate \in File!Tokens
      /\ prepared \subseteq Procs /\ stray \subseteq Procs
      /\ aside \in [Procs -> File!Tokens] /\ kept \in [Procs -> File!Tokens] /\ known \in [Procs -> File!Tokens]
      /\ aim \in [Procs -> File!Tokens] /\ pc \in [Procs -> File!Steps]
      /\ killed \subseteq dead /\ dead \subseteq Procs /\ served \subseteq Procs
      BY DEF File!TypeOK
<1>2. p \in File!Tokens /\ None \in File!Tokens  BY DEF File!Tokens
<1>3. File!Steps = {"host", "hostPeer", "hostLink", "hostUnlink", "start", "unstage", "confirm", "inspect",
               "normalize", "move", "unlink", "check", "remove", "stash", "restore", "unstash", "hold",
               "release", "done", "dead"}
      BY DEF File!Steps
<1>l. \A l \in File!Steps : [pc EXCEPT ![p] = l] \in [Procs -> File!Steps]  BY <1>1
<1>4. (dead \cup served)' \subseteq Procs /\ (killed \subseteq dead)'
      BY <1>1 DEF File!HostStep, File!LeaseStep, File!RemovalStep, File!ReadHost, File!UnlinkPeer,
            File!LinkHost, File!UnlinkCandidate,
             File!Link, File!Unstage, File!Confirm, File!GiveUp, File!Run, File!Release,
             File!Inspect, File!Normalize, File!Move, File!Unlink, File!Check,
             File!Remove, File!Stash, File!Restore, File!Unstash, File!Quiet
<1>5. host' \in File!Tokens /\ candidate' \in File!Tokens
      BY <1>1, <1>2 DEF File!HostStep, File!LeaseStep, File!RemovalStep, File!ReadHost,
            File!UnlinkPeer, File!LinkHost,
            File!UnlinkCandidate,
             File!Link, File!Unstage, File!Confirm, File!GiveUp, File!Run, File!Release,
             File!Inspect, File!Normalize, File!Move, File!Unlink, File!Check,
             File!Remove, File!Stash, File!Restore, File!Unstash, File!nameVars, File!HostFrame,
             File!LeaseFrame
<1>b. lease' \in File!Tokens
  <2>1. kept[p] \in File!Tokens  BY <1>1
  <2>2. QED
        BY <1>1, <1>2, <2>1 DEF File!HostStep, File!LeaseStep, File!RemovalStep, File!ReadHost,
              File!UnlinkPeer, File!LinkHost,
              File!UnlinkCandidate,
             File!Link, File!Unstage, File!Confirm, File!GiveUp, File!Run, File!Release,
             File!Inspect, File!Normalize, File!Move, File!Unlink, File!Check,
             File!Remove, File!Stash, File!Restore, File!Unstash, File!nameVars, File!HostFrame,
             File!LeaseFrame
<1>c. prepared' \subseteq Procs
      BY <1>1, <1>2 DEF File!HostStep, File!LeaseStep, File!RemovalStep, File!ReadHost,
            File!UnlinkPeer, File!LinkHost,
            File!UnlinkCandidate,
             File!Link, File!Unstage, File!Confirm, File!GiveUp, File!Run, File!Release,
             File!Inspect, File!Normalize, File!Move, File!Unlink, File!Check,
             File!Remove, File!Stash, File!Restore, File!Unstash, File!nameVars, File!HostFrame,
             File!LeaseFrame
<1>6. aside' \in [Procs -> File!Tokens]
  <2>1. \A t \in File!Tokens : [aside EXCEPT ![aim[p]] = t] \in [Procs -> File!Tokens]  BY <1>1
  <2>2. lease \in File!Tokens /\ kept[p] \in File!Tokens  BY <1>1
  <2>3. aside' = aside \/ \E t \in File!Tokens : aside' = [aside EXCEPT ![aim[p]] = t]
        BY <1>2, <2>2
        DEF File!HostStep, File!LeaseStep, File!RemovalStep, File!ReadHost, File!UnlinkPeer,
              File!LinkHost, File!UnlinkCandidate,
             File!Link, File!Unstage, File!Confirm, File!GiveUp, File!Run, File!Release,
             File!Inspect, File!Normalize, File!Move, File!Unlink, File!Check,
             File!Remove, File!Stash, File!Restore, File!Unstash, File!nameVars, File!LeaseFrame
  <2>4. QED  BY <1>1, <2>1, <2>3
<1>d. kept' \in [Procs -> File!Tokens]
  <2>1. \A t \in File!Tokens : [kept EXCEPT ![p] = t] \in [Procs -> File!Tokens]  BY <1>1
  <2>2. pc[p] = "stash" => aside[aim[p]] \in File!Tokens
        BY <1>1 DEF AimInv, FileRemovalPCs
  <2>3. kept' = kept \/ \E t \in File!Tokens : kept' = [kept EXCEPT ![p] = t]
        BY <1>2, <2>2
        DEF File!HostStep, File!LeaseStep, File!RemovalStep, File!ReadHost, File!UnlinkPeer,
              File!LinkHost, File!UnlinkCandidate,
             File!Link, File!Unstage, File!Confirm, File!GiveUp, File!Run, File!Release,
             File!Inspect, File!Normalize, File!Move, File!Unlink, File!Check,
             File!Remove, File!Stash, File!Restore, File!Unstash, File!nameVars, File!LeaseFrame,
             File!At
  <2>4. QED  BY <1>1, <2>1, <2>3
<1>a. known' \in [Procs -> File!Tokens]
  <2>1. \A t \in File!Tokens : [known EXCEPT ![p] = t] \in [Procs -> File!Tokens]  BY <1>1
  <2>2. known' = known \/ \E t \in File!Tokens : known' = [known EXCEPT ![p] = t]
        BY <1>1, <1>2
        DEF File!HostStep, File!LeaseStep, File!RemovalStep, File!ReadHost, File!UnlinkPeer,
              File!LinkHost, File!UnlinkCandidate,
             File!Link, File!Unstage, File!Confirm, File!GiveUp, File!Run, File!Release,
             File!Inspect, File!Normalize, File!Move, File!Unlink, File!Check,
             File!Remove, File!Stash, File!Restore, File!Unstash, File!HostFrame
  <2>3. QED  BY <1>1, <2>1, <2>2
<1>7. aim' \in [Procs -> File!Tokens]
  <2>1. \A t \in File!Tokens : [aim EXCEPT ![p] = t] \in [Procs -> File!Tokens]  BY <1>1
  <2>2. aim' = aim \/ \E t \in File!Tokens : aim' = [aim EXCEPT ![p] = t]
        BY <1>1, <1>2
        DEF File!HostStep, File!LeaseStep, File!RemovalStep, File!ReadHost, File!UnlinkPeer,
              File!LinkHost, File!UnlinkCandidate,
             File!Link, File!Unstage, File!Confirm, File!GiveUp, File!Run, File!Release,
             File!Inspect, File!Normalize, File!Move, File!Unlink, File!Check,
             File!Remove, File!Stash, File!Restore, File!Unstash, File!LeaseFrame, File!Over,
             File!Ended, File!Again
  <2>3. QED  BY <1>1, <2>1, <2>2
<1>8. pc' \in [Procs -> File!Steps]
  <2>1. \E l \in File!Steps : pc' = [pc EXCEPT ![p] = l]
        BY <1>3 DEF File!HostStep, File!LeaseStep, File!RemovalStep, File!ReadHost,
              File!UnlinkPeer, File!LinkHost,
              File!UnlinkCandidate,
             File!Link, File!Unstage, File!Confirm, File!GiveUp, File!Run, File!Release,
             File!Inspect, File!Normalize, File!Move, File!Unlink, File!Check,
             File!Remove, File!Stash, File!Restore, File!Unstash, File!Over, File!Ended,
             File!Again, File!Goto
  <2>2. QED  BY <1>l, <2>1
<1>9. stray' \subseteq Procs
      BY <1>1 DEF File!HostStep, File!LeaseStep, File!RemovalStep, File!ReadHost, File!UnlinkPeer,
            File!LinkHost, File!UnlinkCandidate,
             File!Link, File!Unstage, File!Confirm, File!GiveUp, File!Run, File!Release,
             File!Inspect, File!Normalize, File!Move, File!Unlink, File!Check,
             File!Remove, File!Stash, File!Restore, File!Unstash, File!nameVars, File!HostFrame,
             File!LeaseFrame, AimInv, File!At, File!Tokens
<1>10. QED  BY <1>4, <1>5, <1>6, <1>7, <1>8, <1>9, <1>a, <1>d, <1>b, <1>c DEF File!TypeOK

\* What a process does leaves the control of the others alone.
LEMMA AimsKeep ==
    ASSUME Attempts, Sound, NEW p \in Procs, File!HostStep(p) \/ File!LeaseStep(p) \/ File!RemovalStep(p)
    PROVE  AimInv'
<1>t. /\ lease \in File!Tokens /\ prepared \subseteq Procs /\ stray \subseteq Procs
      /\ aside \in [Procs -> File!Tokens] /\ kept \in [Procs -> File!Tokens] /\ known \in [Procs -> File!Tokens]
      /\ aim \in [Procs -> File!Tokens] /\ pc \in [Procs -> File!Steps] /\ dead \subseteq Procs
      BY DEF Sound, File!TypeOK
<1>i. AimInv /\ None \notin Procs  BY DEF Sound, Attempts
<1> USE <1>t, <1>i DEF AimInv, FileRemovalPCs, File!At, File!Goto, File!Over, File!Ended,
      File!Again, File!Quiet, File!HostFrame,
      File!LeaseFrame,
      File!nameVars, File!Tokens, File!ConclusivelyDead, File!ReadsAlone
<1>1. CASE File!ReadHost(p)  BY <1>1 DEF File!ReadHost
<1>2. CASE File!UnlinkPeer(p)  BY <1>2 DEF File!UnlinkPeer
<1>3. CASE File!LinkHost(p)  BY <1>3 DEF File!LinkHost
<1>4. CASE File!UnlinkCandidate(p)  BY <1>4 DEF File!UnlinkCandidate
<1>5. CASE File!Link(p)  BY <1>5 DEF File!Link
<1>6. CASE File!Unstage(p)  BY <1>6 DEF File!Unstage
<1>7. CASE File!Confirm(p)  BY <1>7 DEF File!Confirm
<1>8. CASE File!GiveUp(p)  BY <1>8 DEF File!GiveUp
<1>9. CASE File!Run(p)  BY <1>9 DEF File!Run
<1>10. CASE File!Release(p)  BY <1>10 DEF File!Release
<1>11. CASE File!Inspect(p)  BY <1>11 DEF File!Inspect
<1>12. CASE File!Normalize(p)  BY <1>12 DEF File!Normalize
<1>13. CASE File!Move(p)  BY <1>13 DEF File!Move
<1>14. CASE File!Unlink(p)  BY <1>14 DEF File!Unlink
<1>15. CASE File!Check(p)  BY <1>15 DEF File!Check
<1>16. CASE File!Remove(p)  BY <1>16 DEF File!Remove
<1>17. CASE File!Stash(p)  BY <1>17 DEF File!Stash
<1>18. CASE File!Restore(p)  BY <1>18 DEF File!Restore
<1>19. CASE File!Unstash(p)  BY <1>19 DEF File!Unstash
<1>20. QED
     BY <1>1, <1>2, <1>3, <1>4, <1>5, <1>6, <1>7, <1>8, <1>9, <1>10, <1>11, <1>12, 
        <1>13, <1>14, <1>15, <1>16, <1>17, <1>18, <1>19
     DEF File!HostStep, File!LeaseStep, File!RemovalStep

\* Only the owner of a file makes its first name.
LEMMA FreshKeeps ==
    ASSUME Attempts, Sound, NEW p \in Procs, File!HostStep(p) \/ File!LeaseStep(p) \/ File!RemovalStep(p)
    PROVE  FreshInv'
<1>t. /\ lease \in File!Tokens /\ prepared \subseteq Procs /\ stray \subseteq Procs
      /\ aside \in [Procs -> File!Tokens] /\ kept \in [Procs -> File!Tokens] /\ known \in [Procs -> File!Tokens]
      /\ aim \in [Procs -> File!Tokens] /\ pc \in [Procs -> File!Steps] /\ dead \subseteq Procs
      BY DEF Sound, File!TypeOK
<1>i. FreshInv /\ AimInv /\ None \notin Procs  BY DEF Sound, Attempts
<1> USE <1>t, <1>i DEF FreshInv, AimInv, FileBefore, HostPCs, FileRemovalPCs, File!At, File!Goto,
      File!Over, File!Ended, File!Again,
      File!Quiet,
      File!HostFrame, File!LeaseFrame, File!nameVars, File!Tokens
<1>1. CASE File!ReadHost(p)  BY <1>1 DEF File!ReadHost
<1>2. CASE File!UnlinkPeer(p)  BY <1>2 DEF File!UnlinkPeer
<1>3. CASE File!LinkHost(p)  BY <1>3 DEF File!LinkHost
<1>4. CASE File!UnlinkCandidate(p)  BY <1>4 DEF File!UnlinkCandidate
<1>5. CASE File!Link(p)  BY <1>5 DEF File!Link
<1>6. CASE File!Unstage(p)  BY <1>6 DEF File!Unstage
<1>7. CASE File!Confirm(p)  BY <1>7 DEF File!Confirm
<1>8. CASE File!GiveUp(p)  BY <1>8 DEF File!GiveUp
<1>9. CASE File!Run(p)  BY <1>9 DEF File!Run
<1>10. CASE File!Release(p)  BY <1>10 DEF File!Release
<1>11. CASE File!Inspect(p)  BY <1>11 DEF File!Inspect
<1>12. CASE File!Normalize(p)  BY <1>12 DEF File!Normalize
<1>13. CASE File!Move(p)  BY <1>13 DEF File!Move
<1>14. CASE File!Unlink(p)  BY <1>14 DEF File!Unlink
<1>15. CASE File!Check(p)  BY <1>15 DEF File!Check
<1>16. CASE File!Remove(p)  BY <1>16 DEF File!Remove
<1>17. CASE File!Stash(p)  BY <1>17 DEF File!Stash
<1>18. CASE File!Restore(p)  BY <1>18 DEF File!Restore
<1>19. CASE File!Unstash(p)  BY <1>19 DEF File!Unstash
<1>20. QED
     BY <1>1, <1>2, <1>3, <1>4, <1>5, <1>6, <1>7, <1>8, <1>9, <1>10, <1>11, <1>12, 
        <1>13, <1>14, <1>15, <1>16, <1>17, <1>18, <1>19
     DEF File!HostStep, File!LeaseStep, File!RemovalStep

\* host-id is published once.
LEMMA HostKeeps ==
    ASSUME Attempts, Sound, NEW p \in Procs, File!HostStep(p) \/ File!LeaseStep(p) \/ File!RemovalStep(p)
    PROVE  HostInv'
<1>t. /\ lease \in File!Tokens /\ prepared \subseteq Procs /\ stray \subseteq Procs
      /\ aside \in [Procs -> File!Tokens] /\ kept \in [Procs -> File!Tokens] /\ known \in [Procs -> File!Tokens]
      /\ aim \in [Procs -> File!Tokens] /\ pc \in [Procs -> File!Steps] /\ dead \subseteq Procs
      BY DEF Sound, File!TypeOK
<1>i. HostInv /\ host \in File!Tokens /\ None \notin Procs  BY DEF Sound, File!TypeOK, Attempts
<1> USE <1>t, <1>i DEF HostInv, File!HostIsOne, File!At, File!Goto, File!Over, File!Ended,
      File!Again, File!Quiet, File!HostFrame,
      File!LeaseFrame, File!nameVars
<1>1. CASE File!ReadHost(p)  BY <1>1 DEF File!ReadHost
<1>2. CASE File!UnlinkPeer(p)  BY <1>2 DEF File!UnlinkPeer
<1>3. CASE File!LinkHost(p)  BY <1>3 DEF File!LinkHost
<1>4. CASE File!UnlinkCandidate(p)  BY <1>4 DEF File!UnlinkCandidate
<1>5. CASE File!Link(p)  BY <1>5 DEF File!Link
<1>6. CASE File!Unstage(p)  BY <1>6 DEF File!Unstage
<1>7. CASE File!Confirm(p)  BY <1>7 DEF File!Confirm
<1>8. CASE File!GiveUp(p)  BY <1>8 DEF File!GiveUp
<1>9. CASE File!Run(p)  BY <1>9 DEF File!Run
<1>10. CASE File!Release(p)  BY <1>10 DEF File!Release
<1>11. CASE File!Inspect(p)  BY <1>11 DEF File!Inspect
<1>12. CASE File!Normalize(p)  BY <1>12 DEF File!Normalize
<1>13. CASE File!Move(p)  BY <1>13 DEF File!Move
<1>14. CASE File!Unlink(p)  BY <1>14 DEF File!Unlink
<1>15. CASE File!Check(p)  BY <1>15 DEF File!Check
<1>16. CASE File!Remove(p)  BY <1>16 DEF File!Remove
<1>17. CASE File!Stash(p)  BY <1>17 DEF File!Stash
<1>18. CASE File!Restore(p)  BY <1>18 DEF File!Restore
<1>19. CASE File!Unstash(p)  BY <1>19 DEF File!Unstash
<1>20. QED
     BY <1>1, <1>2, <1>3, <1>4, <1>5, <1>6, <1>7, <1>8, <1>9, <1>10, <1>11, <1>12, 
        <1>13, <1>14, <1>15, <1>16, <1>17, <1>18, <1>19
     DEF File!HostStep, File!LeaseStep, File!RemovalStep

\* A rename under way finds its names undisturbed.
LEMMA NamesKeep ==
    ASSUME Attempts, Sound, FileNamesInv, SlotInv, ApartInv, LocatedInv,
           NEW p \in Procs, \A q \in Procs \ {p} : ~File!Between(q),
           File!HostStep(p) \/ File!LeaseStep(p) \/ File!RemovalStep(p)
    PROVE  FileNamesInv'
<1>t. /\ lease \in File!Tokens /\ prepared \subseteq Procs /\ stray \subseteq Procs
      /\ aside \in [Procs -> File!Tokens] /\ kept \in [Procs -> File!Tokens] /\ known \in [Procs -> File!Tokens]
      /\ aim \in [Procs -> File!Tokens] /\ pc \in [Procs -> File!Steps] /\ dead \subseteq Procs
      BY DEF Sound, File!TypeOK
<1>i. AimInv /\ FreshInv /\ None \notin Procs  BY DEF Sound, Attempts
<1>l. lease \in Procs /\ File!Links(lease) = 1 =>
        /\ lease \notin prepared \cup stray
        /\ \A q \in Procs : aside[q] # lease /\ kept[q] # lease
      BY LinksCount DEF Sound
<1> USE <1>t, <1>i, <1>l DEF FileNamesInv, SlotInv, AimInv, FreshInv, FileBefore, HostPCs,
      FileRemovalPCs,
      FileSlotPCs, File!At, File!Goto, File!Over, File!Ended, File!Again, File!Quiet,
      File!HostFrame, File!LeaseFrame, File!nameVars, File!Tokens,
      File!ReadsAlone
<1>1. CASE File!ReadHost(p)  BY <1>1 DEF File!ReadHost
<1>2. CASE File!UnlinkPeer(p)  BY <1>2 DEF File!UnlinkPeer
<1>3. CASE File!LinkHost(p)  BY <1>3 DEF File!LinkHost
<1>4. CASE File!UnlinkCandidate(p)  BY <1>4 DEF File!UnlinkCandidate
<1>5. CASE File!Link(p)  BY <1>5 DEF File!Link
<1>6. CASE File!Unstage(p)  BY <1>6 DEF File!Unstage
<1>7. CASE File!Confirm(p)  BY <1>7 DEF File!Confirm
<1>8. CASE File!GiveUp(p)  BY <1>8 DEF File!GiveUp
<1>9. CASE File!Run(p)  BY <1>9 DEF File!Run
<1>10. CASE File!Release(p)  BY <1>10 DEF File!Release
<1>11. CASE File!Inspect(p)  BY <1>11 DEF File!Inspect
<1>12. CASE File!Normalize(p)  BY <1>12 DEF File!Normalize
<1>13. CASE File!Move(p)  BY <1>13 DEF File!Move
<1>14. CASE File!Unlink(p)  BY <1>14 DEF File!Unlink
<1>15. CASE File!Check(p)  BY <1>15 DEF File!Check
<1>16. CASE File!Remove(p)  BY <1>16 DEF File!Remove
<1>17. CASE File!Stash(p)
  <2>1. pc[p] = "stash" /\ aim[p] \in Procs /\ kept[p] = None  BY <1>17 DEF File!Stash
  <2>2. CASE ~File!ReadsAlone(aside[aim[p]])  BY <1>17, <2>2 DEF File!Stash
  <2>3. CASE File!ReadsAlone(aside[aim[p]])
    <3>1. /\ kept' = [kept EXCEPT ![p] = aside[aim[p]]] /\ aside' = [aside EXCEPT ![aim[p]] = None]
          /\ UNCHANGED <<lease, prepared, stray>> /\ aside[aim[p]] # None
          BY <1>17, <2>3 DEF File!Stash
    <3>2. QED  BY <2>1, <3>1
  <2>4. QED  BY <2>2, <2>3
<1>18. CASE File!Restore(p)
  <2>1. /\ pc[p] = "restore" /\ aim[p] \in Procs /\ kept[p] # None /\ kept[p] \in Procs
        BY <1>18 DEF File!Restore
  <2>2. CASE lease = None
    <3>1. /\ lease' = kept[p] /\ prepared = {} /\ UNCHANGED <<prepared, aside, kept, stray>>
          BY <1>18, <2>2 DEF File!Restore
    <3>2. QED  BY <2>1, <3>1
  <2>3. CASE lease # None /\ aside[aim[p]] = None
    <3>1. /\ aside' = [aside EXCEPT ![aim[p]] = kept[p]] /\ kept' = [kept EXCEPT ![p] = None]
          /\ UNCHANGED <<lease, prepared, stray>>
          BY <1>18, <2>3 DEF File!Restore
    <3>2. QED  BY <2>1, <3>1
  <2>4. CASE lease # None /\ aside[aim[p]] # None
    <3>1. /\ stray' = stray \cup {kept[p]} /\ kept' = [kept EXCEPT ![p] = None]
          /\ UNCHANGED <<lease, prepared, aside>>
          BY <1>18, <2>4 DEF File!Restore
    <3>2. QED  BY <2>1, <3>1
  <2>5. QED  BY <2>2, <2>3, <2>4
<1>19. CASE File!Unstash(p)  BY <1>19 DEF File!Unstash
<1>20. QED
     BY <1>1, <1>2, <1>3, <1>4, <1>5, <1>6, <1>7, <1>8, <1>9, <1>10, <1>11, <1>12, 
        <1>13, <1>14, <1>15, <1>16, <1>17, <1>18, <1>19
     DEF File!HostStep, File!LeaseStep, File!RemovalStep

\* A process finds what it put at the names it works with,
LEMMA SlotsKeep ==
    ASSUME Attempts, Sound, FileNamesInv, SlotInv, ApartInv, LocatedInv,
           NEW p \in Procs, \A q \in Procs \ {p} : ~File!Between(q),
           File!HostStep(p) \/ File!LeaseStep(p) \/ File!RemovalStep(p)
    PROVE  SlotInv'
<1>t. /\ lease \in File!Tokens /\ prepared \subseteq Procs /\ stray \subseteq Procs
      /\ aside \in [Procs -> File!Tokens] /\ kept \in [Procs -> File!Tokens] /\ known \in [Procs -> File!Tokens]
      /\ aim \in [Procs -> File!Tokens] /\ pc \in [Procs -> File!Steps] /\ dead \subseteq Procs
      BY DEF Sound, File!TypeOK
<1>i. AimInv /\ FreshInv /\ None \notin Procs  BY DEF Sound, Attempts
<1>l. lease \in Procs /\ File!Links(lease) = 1 =>
        /\ lease \notin prepared \cup stray
        /\ \A q \in Procs : aside[q] # lease /\ kept[q] # lease
      BY LinksCount DEF Sound
<1> USE <1>t, <1>i, <1>l DEF FileNamesInv, SlotInv, ApartInv, File!Between, AimInv, FreshInv,
      FileBefore,
      HostPCs, FileRemovalPCs, FileSlotPCs, File!At, File!Goto, File!Over, File!Ended,
      File!Again, File!Quiet, File!HostFrame, File!LeaseFrame,
      File!nameVars, File!Tokens, File!ReadsAlone
<1>1. CASE File!ReadHost(p)  BY <1>1 DEF File!ReadHost
<1>2. CASE File!UnlinkPeer(p)  BY <1>2 DEF File!UnlinkPeer
<1>3. CASE File!LinkHost(p)  BY <1>3 DEF File!LinkHost
<1>4. CASE File!UnlinkCandidate(p)  BY <1>4 DEF File!UnlinkCandidate
<1>5. CASE File!Link(p)  BY <1>5 DEF File!Link
<1>6. CASE File!Unstage(p)  BY <1>6 DEF File!Unstage
<1>7. CASE File!Confirm(p)  BY <1>7 DEF File!Confirm
<1>8. CASE File!GiveUp(p)  BY <1>8 DEF File!GiveUp
<1>9. CASE File!Run(p)  BY <1>9 DEF File!Run
<1>10. CASE File!Release(p)  BY <1>10 DEF File!Release
<1>11. CASE File!Inspect(p)  BY <1>11 DEF File!Inspect
<1>12. CASE File!Normalize(p)  BY <1>12 DEF File!Normalize
<1>13. CASE File!Move(p)  BY <1>13 DEF File!Move
<1>14. CASE File!Unlink(p)  BY <1>14 DEF File!Unlink
<1>15. CASE File!Check(p)  BY <1>15 DEF File!Check
<1>16. CASE File!Remove(p)  BY <1>16 DEF File!Remove
<1>17. CASE File!Stash(p)  BY <1>17 DEF File!Stash
<1>18. CASE File!Restore(p)  BY <1>18 DEF File!Restore
<1>19. CASE File!Unstash(p)  BY <1>19 DEF File!Unstash
<1>20. QED
     BY <1>1, <1>2, <1>3, <1>4, <1>5, <1>6, <1>7, <1>8, <1>9, <1>10, <1>11, <1>12, 
        <1>13, <1>14, <1>15, <1>16, <1>17, <1>18, <1>19
     DEF File!HostStep, File!LeaseStep, File!RemovalStep

\* alone,
LEMMA ApartKeeps ==
    ASSUME Attempts, Sound, FileNamesInv, SlotInv, ApartInv, LocatedInv,
           NEW p \in Procs, \A q \in Procs \ {p} : ~File!Between(q),
           File!HostStep(p) \/ File!LeaseStep(p) \/ File!RemovalStep(p)
    PROVE  ApartInv'
<1>t. /\ lease \in File!Tokens /\ prepared \subseteq Procs /\ stray \subseteq Procs
      /\ aside \in [Procs -> File!Tokens] /\ kept \in [Procs -> File!Tokens] /\ known \in [Procs -> File!Tokens]
      /\ aim \in [Procs -> File!Tokens] /\ pc \in [Procs -> File!Steps] /\ dead \subseteq Procs
      BY DEF Sound, File!TypeOK
<1>i. AimInv /\ FreshInv /\ None \notin Procs  BY DEF Sound, Attempts
<1>l. lease \in Procs /\ File!Links(lease) = 1 =>
        /\ lease \notin prepared \cup stray
        /\ \A q \in Procs : aside[q] # lease /\ kept[q] # lease
      BY LinksCount DEF Sound
<1> USE <1>t, <1>i, <1>l DEF SlotInv, ApartInv, File!Between, AimInv, FreshInv, FileBefore, HostPCs,
      FileRemovalPCs, FileSlotPCs, File!At, File!Goto, File!Over, File!Ended, File!Again,
      File!Quiet, File!HostFrame, File!LeaseFrame, File!nameVars,
      File!Tokens, File!ReadsAlone
<1>1. CASE File!ReadHost(p)  BY <1>1 DEF File!ReadHost
<1>2. CASE File!UnlinkPeer(p)  BY <1>2 DEF File!UnlinkPeer
<1>3. CASE File!LinkHost(p)  BY <1>3 DEF File!LinkHost
<1>4. CASE File!UnlinkCandidate(p)  BY <1>4 DEF File!UnlinkCandidate
<1>5. CASE File!Link(p)  BY <1>5 DEF File!Link
<1>6. CASE File!Unstage(p)  BY <1>6 DEF File!Unstage
<1>7. CASE File!Confirm(p)  BY <1>7 DEF File!Confirm
<1>8. CASE File!GiveUp(p)  BY <1>8 DEF File!GiveUp
<1>9. CASE File!Run(p)  BY <1>9 DEF File!Run
<1>10. CASE File!Release(p)  BY <1>10 DEF File!Release
<1>11. CASE File!Inspect(p)  BY <1>11 DEF File!Inspect
<1>12. CASE File!Normalize(p)  BY <1>12 DEF File!Normalize
<1>13. CASE File!Move(p)  BY <1>13 DEF File!Move
<1>14. CASE File!Unlink(p)  BY <1>14 DEF File!Unlink
<1>15. CASE File!Check(p)  BY <1>15 DEF File!Check
<1>16. CASE File!Remove(p)  BY <1>16 DEF File!Remove
<1>17. CASE File!Stash(p)  BY <1>17 DEF File!Stash
<1>18. CASE File!Restore(p)  BY <1>18 DEF File!Restore
<1>19. CASE File!Unstash(p)  BY <1>19 DEF File!Unstash
<1>20. QED
     BY <1>1, <1>2, <1>3, <1>4, <1>5, <1>6, <1>7, <1>8, <1>9, <1>10, <1>11, <1>12, 
        <1>13, <1>14, <1>15, <1>16, <1>17, <1>18, <1>19
     DEF File!HostStep, File!LeaseStep, File!RemovalStep

\* and takes no file its last name but its owner's or a dead owner's.
LEMMA LocatedKeeps ==
    ASSUME Attempts, Sound, FileNamesInv, SlotInv, ApartInv, LocatedInv,
           NEW p \in Procs, \A q \in Procs \ {p} : ~File!Between(q),
           File!HostStep(p) \/ File!LeaseStep(p) \/ File!RemovalStep(p)
    PROVE  LocatedInv'
<1>t. /\ lease \in File!Tokens /\ prepared \subseteq Procs /\ stray \subseteq Procs
      /\ aside \in [Procs -> File!Tokens] /\ kept \in [Procs -> File!Tokens] /\ known \in [Procs -> File!Tokens]
      /\ aim \in [Procs -> File!Tokens] /\ pc \in [Procs -> File!Steps] /\ dead \subseteq Procs
      BY DEF Sound, File!TypeOK
<1>i. AimInv /\ FreshInv /\ None \notin Procs  BY DEF Sound, Attempts
<1>l. lease \in Procs /\ File!Links(lease) = 1 =>
        /\ lease \notin prepared \cup stray
        /\ \A q \in Procs : aside[q] # lease /\ kept[q] # lease
      BY LinksCount DEF Sound
<1> USE <1>t, <1>i, <1>l DEF SlotInv, LocatedInv, Named, AimInv, FreshInv, FileBefore, HostPCs,
      FileRemovalPCs, FileSlotPCs, File!At, File!Goto, File!Over, File!Ended, File!Again,
      File!Quiet, File!HostFrame, File!LeaseFrame, File!nameVars,
      File!Tokens, File!ReadsAlone
<1>1. CASE File!ReadHost(p)  BY <1>1 DEF File!ReadHost
<1>2. CASE File!UnlinkPeer(p)  BY <1>2 DEF File!UnlinkPeer
<1>3. CASE File!LinkHost(p)  BY <1>3 DEF File!LinkHost
<1>4. CASE File!UnlinkCandidate(p)  BY <1>4 DEF File!UnlinkCandidate
<1>5. CASE File!Link(p)  BY <1>5 DEF File!Link
<1>6. CASE File!Unstage(p)  BY <1>6 DEF File!Unstage
<1>7. CASE File!Confirm(p)  BY <1>7 DEF File!Confirm
<1>8. CASE File!GiveUp(p)  BY <1>8 DEF File!GiveUp
<1>9. CASE File!Run(p)  BY <1>9 DEF File!Run
<1>10. CASE File!Release(p)  BY <1>10 DEF File!Release
<1>11. CASE File!Inspect(p)  BY <1>11 DEF File!Inspect
<1>12. CASE File!Normalize(p)  BY <1>12 DEF File!Normalize
<1>13. CASE File!Move(p)  BY <1>13 DEF File!Move
<1>14. CASE File!Unlink(p)  BY <1>14 DEF File!Unlink
<1>15. CASE File!Check(p)  BY <1>15 DEF File!Check
<1>16. CASE File!Remove(p)  BY <1>16 DEF File!Remove
<1>17. CASE File!Stash(p)
  <2>1. /\ pc[p] = "stash" /\ aim[p] \in Procs /\ kept[p] = None
        BY <1>17 DEF File!Stash
  <2>2. CASE ~File!ReadsAlone(aside[aim[p]])  BY <1>17, <2>2 DEF File!Stash
  <2>3. CASE File!ReadsAlone(aside[aim[p]])
    <3>1. /\ kept' = [kept EXCEPT ![p] = aside[aim[p]]] /\ aside' = [aside EXCEPT ![aim[p]] = None]
          /\ pc' = [pc EXCEPT ![p] = "restore"] /\ UNCHANGED <<lease, stray>>
          BY <1>17, <2>3 DEF File!Stash
    <3>2. ASSUME NEW i \in Procs, Named(i) PROVE Named(i)'
      <4>1. CASE lease = i \/ i \in stray  BY <3>1, <4>1
      <4>2. CASE \E t \in Procs : aside[t] = i
        <5>1. PICK t \in Procs : aside[t] = i  BY <4>2
        <5>2. aside'[t] = i \/ kept'[p] = i  BY <2>1, <3>1, <5>1
        <5>3. QED  BY <5>2
      <4>3. CASE \E q \in Procs : kept[q] = i
        <5>1. PICK q \in Procs : kept[q] = i  BY <4>3
        <5>2. kept'[q] = i  BY <2>1, <3>1, <5>1
        <5>3. QED  BY <5>2
      <4>4. QED  BY <3>2, <4>1, <4>2, <4>3
    <3>3. QED  BY <2>1, <3>1, <3>2
  <2>4. QED  BY <2>2, <2>3
<1>18. CASE File!Restore(p)
  <2>1. /\ pc[p] = "restore" /\ aim[p] \in Procs /\ kept[p] # None
        BY <1>18 DEF File!Restore
  <2>2. /\ pc'[p] \notin {"unstage", "confirm", "hold"}
        /\ \A q \in Procs : q # p => pc'[q] = pc[q]
        BY <1>18 DEF File!Restore
  <2>3. ASSUME NEW i \in Procs, Named(i) PROVE Named(i)'
    <3>1. CASE lease = i \/ i \in stray  BY <1>18, <3>1 DEF File!Restore
    <3>2. CASE \E t \in Procs : aside[t] = i
      <4>1. PICK t \in Procs : aside[t] = i  BY <3>2
      <4>2. aside'[t] = i  BY <1>18, <2>1, <4>1 DEF File!Restore
      <4>3. QED  BY <4>2
    <3>3. CASE \E q \in Procs : kept[q] = i
      <4>1. PICK q \in Procs : kept[q] = i  BY <3>3
      <4>2. CASE q # p
        <5>1. kept'[q] = i  BY <1>18, <4>1, <4>2 DEF File!Restore
        <5>2. QED  BY <5>1
      <4>3. CASE q = p
        <5>1. lease' = i \/ aside'[aim[p]] = i \/ i \in stray'
              BY <1>18, <2>1, <4>1, <4>3 DEF File!Restore
        <5>2. QED  BY <2>1, <5>1
      <4>4. QED  BY <4>2, <4>3
    <3>4. QED  BY <2>3, <3>1, <3>2, <3>3
  <2>4. QED  BY <2>2, <2>3
<1>19. CASE File!Unstash(p)  BY <1>19 DEF File!Unstash
<1>20. QED
     BY <1>1, <1>2, <1>3, <1>4, <1>5, <1>6, <1>7, <1>8, <1>9, <1>10, <1>11, <1>12, 
        <1>13, <1>14, <1>15, <1>16, <1>17, <1>18, <1>19
     DEF File!HostStep, File!LeaseStep, File!RemovalStep

\* Where reclaimers keep apart, what is removed is what was seen to be dead.
LEMMA OwnNamesKeep ==
    ASSUME Attempts, Sound, OwnNamesInv, OwnerInv, ReclaimInv, regime.lone,
           NEW p \in Procs, File!HostStep(p) \/ File!LeaseStep(p) \/ File!RemovalStep(p)
    PROVE  OwnNamesInv'
<1>t. /\ lease \in File!Tokens /\ prepared \subseteq Procs /\ stray \subseteq Procs
      /\ aside \in [Procs -> File!Tokens] /\ kept \in [Procs -> File!Tokens] /\ known \in [Procs -> File!Tokens]
      /\ aim \in [Procs -> File!Tokens] /\ pc \in [Procs -> File!Steps] /\ dead \subseteq Procs
      BY DEF Sound, File!TypeOK
<1>i. AimInv /\ FreshInv /\ None \notin Procs  BY DEF Sound, Attempts
<1>l. lease = p => IF p \in prepared \/ aside[p] = p THEN TRUE ELSE File!Links(p) = 1
      BY LinksCount DEF Sound, OwnNamesInv, Attempts
<1> USE <1>t, <1>i, <1>l DEF OwnNamesInv, OwnerInv, ReclaimInv, Owning, AimInv, FreshInv,
      FileBefore,
      HostPCs, FileRemovalPCs, File!At, File!Goto, File!Over, File!Ended, File!Again, File!Quiet,
      File!HostFrame, File!LeaseFrame, File!nameVars,
      File!Tokens, File!ReadsAlone
<1>1. CASE File!ReadHost(p)  BY <1>1 DEF File!ReadHost
<1>2. CASE File!UnlinkPeer(p)  BY <1>2 DEF File!UnlinkPeer
<1>3. CASE File!LinkHost(p)  BY <1>3 DEF File!LinkHost
<1>4. CASE File!UnlinkCandidate(p)  BY <1>4 DEF File!UnlinkCandidate
<1>5. CASE File!Link(p)  BY <1>5 DEF File!Link
<1>6. CASE File!Unstage(p)  BY <1>6 DEF File!Unstage
<1>7. CASE File!Confirm(p)  BY <1>7 DEF File!Confirm
<1>8. CASE File!GiveUp(p)  BY <1>8 DEF File!GiveUp
<1>9. CASE File!Run(p)  BY <1>9 DEF File!Run
<1>10. CASE File!Release(p)  BY <1>10 DEF File!Release
<1>11. CASE File!Inspect(p)  BY <1>11 DEF File!Inspect
<1>12. CASE File!Normalize(p)  BY <1>12 DEF File!Normalize
<1>13. CASE File!Move(p)  BY <1>13 DEF File!Move
<1>14. CASE File!Unlink(p)  BY <1>14 DEF File!Unlink
<1>15. CASE File!Check(p)  BY <1>15 DEF File!Check
<1>16. CASE File!Remove(p)  BY <1>16 DEF File!Remove
<1>17. CASE File!Stash(p)  BY <1>17 DEF File!Stash
<1>18. CASE File!Restore(p)  BY <1>18 DEF File!Restore
<1>19. CASE File!Unstash(p)  BY <1>19 DEF File!Unstash
<1>20. QED
     BY <1>1, <1>2, <1>3, <1>4, <1>5, <1>6, <1>7, <1>8, <1>9, <1>10, <1>11, <1>12, 
        <1>13, <1>14, <1>15, <1>16, <1>17, <1>18, <1>19
     DEF File!HostStep, File!LeaseStep, File!RemovalStep

\* The lease is its live owner's from the link to the release,
LEMMA OwnersKeep ==
    ASSUME Attempts, Sound, OwnNamesInv, OwnerInv, ReclaimInv, regime.lone,
           NEW p \in Procs, File!HostStep(p) \/ File!LeaseStep(p) \/ File!RemovalStep(p)
    PROVE  OwnerInv'
<1>t. /\ lease \in File!Tokens /\ prepared \subseteq Procs /\ stray \subseteq Procs
      /\ aside \in [Procs -> File!Tokens] /\ kept \in [Procs -> File!Tokens] /\ known \in [Procs -> File!Tokens]
      /\ aim \in [Procs -> File!Tokens] /\ pc \in [Procs -> File!Steps] /\ dead \subseteq Procs
      BY DEF Sound, File!TypeOK
<1>i. AimInv /\ FreshInv /\ None \notin Procs  BY DEF Sound, Attempts
<1>l. lease = p => IF p \in prepared \/ aside[p] = p THEN TRUE ELSE File!Links(p) = 1
      BY LinksCount DEF Sound, OwnNamesInv, Attempts
<1> USE <1>t, <1>i, <1>l DEF OwnNamesInv, OwnerInv, ReclaimInv, Owning, AimInv, FreshInv,
      FileBefore,
      HostPCs, FileRemovalPCs, File!At, File!Goto, File!Over, File!Ended, File!Again, File!Quiet,
      File!HostFrame, File!LeaseFrame, File!nameVars,
      File!Tokens, File!ReadsAlone
<1>1. CASE File!ReadHost(p)  BY <1>1 DEF File!ReadHost
<1>2. CASE File!UnlinkPeer(p)  BY <1>2 DEF File!UnlinkPeer
<1>3. CASE File!LinkHost(p)  BY <1>3 DEF File!LinkHost
<1>4. CASE File!UnlinkCandidate(p)  BY <1>4 DEF File!UnlinkCandidate
<1>5. CASE File!Link(p)  BY <1>5 DEF File!Link
<1>6. CASE File!Unstage(p)  BY <1>6 DEF File!Unstage
<1>7. CASE File!Confirm(p)  BY <1>7 DEF File!Confirm
<1>8. CASE File!GiveUp(p)  BY <1>8 DEF File!GiveUp
<1>9. CASE File!Run(p)  BY <1>9 DEF File!Run
<1>10. CASE File!Release(p)  BY <1>10 DEF File!Release
<1>11. CASE File!Inspect(p)  BY <1>11 DEF File!Inspect
<1>12. CASE File!Normalize(p)  BY <1>12 DEF File!Normalize
<1>13. CASE File!Move(p)  BY <1>13 DEF File!Move
<1>14. CASE File!Unlink(p)  BY <1>14 DEF File!Unlink
<1>15. CASE File!Check(p)  BY <1>15 DEF File!Check
<1>16. CASE File!Remove(p)  BY <1>16 DEF File!Remove
<1>17. CASE File!Stash(p)  BY <1>17 DEF File!Stash
<1>18. CASE File!Restore(p)  BY <1>18 DEF File!Restore
<1>19. CASE File!Unstash(p)  BY <1>19 DEF File!Unstash
<1>20. QED
     BY <1>1, <1>2, <1>3, <1>4, <1>5, <1>6, <1>7, <1>8, <1>9, <1>10, <1>11, <1>12, 
        <1>13, <1>14, <1>15, <1>16, <1>17, <1>18, <1>19
     DEF File!HostStep, File!LeaseStep, File!RemovalStep

\* or what the one reclaimer found dead.
LEMMA ReclaimKeeps ==
    ASSUME Attempts, Sound, OwnNamesInv, OwnerInv, ReclaimInv, regime.lone,
           NEW p \in Procs, File!HostStep(p) \/ File!LeaseStep(p) \/ File!RemovalStep(p)
    PROVE  ReclaimInv'
<1>t. /\ lease \in File!Tokens /\ prepared \subseteq Procs /\ stray \subseteq Procs
      /\ aside \in [Procs -> File!Tokens] /\ kept \in [Procs -> File!Tokens] /\ known \in [Procs -> File!Tokens]
      /\ aim \in [Procs -> File!Tokens] /\ pc \in [Procs -> File!Steps] /\ dead \subseteq Procs
      BY DEF Sound, File!TypeOK
<1>i. AimInv /\ FreshInv /\ None \notin Procs  BY DEF Sound, Attempts
<1>l. lease = p => IF p \in prepared \/ aside[p] = p THEN TRUE ELSE File!Links(p) = 1
      BY LinksCount DEF Sound, OwnNamesInv, Attempts
<1> USE <1>t, <1>i, <1>l DEF OwnNamesInv, OwnerInv, ReclaimInv, Owning, AimInv, FreshInv,
      FileBefore,
      HostPCs, FileRemovalPCs, File!Reclaiming, File!At, File!Goto, File!Over, File!Ended,
      File!Again, File!Quiet, File!HostFrame, File!LeaseFrame,
      File!nameVars, File!Tokens, File!ReadsAlone
<1>1. CASE File!ReadHost(p)  BY <1>1 DEF File!ReadHost
<1>2. CASE File!UnlinkPeer(p)  BY <1>2 DEF File!UnlinkPeer
<1>3. CASE File!LinkHost(p)  BY <1>3 DEF File!LinkHost
<1>4. CASE File!UnlinkCandidate(p)  BY <1>4 DEF File!UnlinkCandidate
<1>5. CASE File!Link(p)  BY <1>5 DEF File!Link
<1>6. CASE File!Unstage(p)  BY <1>6 DEF File!Unstage
<1>7. CASE File!Confirm(p)  BY <1>7 DEF File!Confirm
<1>8. CASE File!GiveUp(p)  BY <1>8 DEF File!GiveUp
<1>9. CASE File!Run(p)  BY <1>9 DEF File!Run
<1>10. CASE File!Release(p)  BY <1>10 DEF File!Release
<1>11. CASE File!Inspect(p)  BY <1>11 DEF File!Inspect
<1>12. CASE File!Normalize(p)  BY <1>12 DEF File!Normalize
<1>13. CASE File!Move(p)
  <2>1. /\ pc[p] = "move" /\ aim[p] \in Procs /\ lease = aim[p] /\ lease \in Procs
        BY <1>13 DEF File!Move
  <2>2. CASE File!ReadsAlone(lease) /\ aside[aim[p]] = None
    <3>1. /\ aside' = [aside EXCEPT ![aim[p]] = aim[p]] /\ pc' = [pc EXCEPT ![p] = "unlink"]
          /\ UNCHANGED <<aim, lease, prepared, dead>>
          BY <1>13, <2>1, <2>2 DEF File!Move
    <3>2. File!Links(lease) = 1  BY <2>2
    <3>3. lease \notin prepared  BY <2>1, <3>2, LinksCount DEF Sound
    <3>4. prepared' = {}  BY <3>1, <3>3
    <3>5. QED  BY <2>1, <3>1, <3>4
  <2>3. CASE ~(File!ReadsAlone(lease) /\ aside[aim[p]] = None)
    <3>1. UNCHANGED <<aside, lease, prepared, dead>> /\ File!Over(p)  BY <1>13, <2>3 DEF File!Move
    <3>2. QED  BY <2>1, <3>1
  <2>4. QED  BY <2>2, <2>3
<1>14. CASE File!Unlink(p)  BY <1>14 DEF File!Unlink
<1>15. CASE File!Check(p)  BY <1>15 DEF File!Check
<1>16. CASE File!Remove(p)  BY <1>16 DEF File!Remove
<1>17. CASE File!Stash(p)  BY <1>17 DEF File!Stash
<1>18. CASE File!Restore(p)  BY <1>18 DEF File!Restore
<1>19. CASE File!Unstash(p)  BY <1>19 DEF File!Unstash
<1>20. QED
     BY <1>1, <1>2, <1>3, <1>4, <1>5, <1>6, <1>7, <1>8, <1>9, <1>10, <1>11, <1>12, 
        <1>13, <1>14, <1>15, <1>16, <1>17, <1>18, <1>19
     DEF File!HostStep, File!LeaseStep, File!RemovalStep

-------------------------------------------------------------------------------
(* All together.                                                              *)

FileSafe == Sound /\ Undisturbed /\ Alone

\* Every step keeps the invariant, deaths do, and it holds at first.
LEMMA FileStepKeeps ==
    ASSUME Attempts, FileSafe, NEW p \in Procs, File!Step(p)
    PROVE  FileSafe'
<1>1. File!HostStep(p) \/ File!LeaseStep(p) \/ File!RemovalStep(p)  BY DEF File!Step
<1>2. Sound'
      BY <1>1, TypesKeep, AimsKeep, FreshKeeps, HostKeeps DEF FileSafe, Sound
<1>3. regime' = regime
      BY <1>1
      DEF File!HostStep, File!LeaseStep, File!RemovalStep, File!ReadHost, File!UnlinkPeer,
            File!LinkHost, File!UnlinkCandidate,
          File!Link, File!Unstage, File!Confirm, File!GiveUp, File!Run, File!Release,
          File!Inspect, File!Normalize, File!Move, File!Unlink, File!Check,
          File!Remove, File!Stash, File!Restore, File!Unstash, File!Quiet
<1>4. Undisturbed'
  <2>1. SUFFICES ASSUME regime.prompt
                 PROVE  FileNamesInv' /\ SlotInv' /\ ApartInv' /\ LocatedInv'
        BY <1>3 DEF Undisturbed
  <2>2. FileNamesInv /\ SlotInv /\ ApartInv /\ LocatedInv /\ \A q \in Procs \ {p} : ~File!Between(q)
        BY <2>1 DEF FileSafe, Undisturbed, File!Step
  <2>3. QED  BY <1>1, <2>2, NamesKeep, SlotsKeep, ApartKeeps, LocatedKeeps DEF FileSafe
<1>5. Alone'
  <2>1. SUFFICES ASSUME regime.lone
                 PROVE  OwnNamesInv' /\ OwnerInv' /\ ReclaimInv'
        BY <1>3 DEF Alone
  <2>2. OwnNamesInv /\ OwnerInv /\ ReclaimInv  BY <2>1 DEF FileSafe, Alone
  <2>3. QED  BY <1>1, <2>1, <2>2, OwnNamesKeep, OwnersKeep, ReclaimKeeps DEF FileSafe
<1>6. QED  BY <1>2, <1>4, <1>5 DEF FileSafe

LEMMA FileDeathKeeps ==
    ASSUME Attempts, FileSafe, NEW p \in Procs, File!Kill(p) \/ File!Exit(p)
    PROVE  FileSafe'
<1>t. /\ aim \in [Procs -> File!Tokens] /\ pc \in [Procs -> File!Steps] /\ dead \subseteq Procs
      /\ File!TypeOK /\ AimInv /\ FreshInv /\ HostInv /\ None \notin Procs
      BY DEF FileSafe, Sound, File!TypeOK, Attempts
<1>1. /\ pc' = [pc EXCEPT ![p] = "dead"] /\ dead' = dead \cup {p}
      /\ aim' = [aim EXCEPT ![p] = None] \/ (aim' = aim /\ pc[p] = "done")
      /\ killed' \subseteq killed \cup {p}
      /\ UNCHANGED <<lease, prepared, aside, kept, stray, host, candidate, known, regime, served>>
      BY DEF File!Kill, File!Exit, File!At, File!Goto, File!nameVars
<1>2. File!TypeOK'
  <2>1. None \in File!Tokens /\ "dead" \in File!Steps  BY DEF File!Tokens, File!Steps
  <2>2. aim' \in [Procs -> File!Tokens] /\ pc' \in [Procs -> File!Steps]  BY <1>t, <1>1, <2>1
  <2>3. killed' \subseteq dead' /\ (dead \cup served)' \subseteq Procs  BY <1>t,
        <1>1 DEF File!TypeOK
  <2>4. QED  BY <1>t, <1>1, <2>2, <2>3 DEF File!TypeOK
<1>3. AimInv'  BY <1>t, <1>1 DEF AimInv, FileRemovalPCs, File!Tokens
<1>4. FreshInv'  BY <1>t, <1>1 DEF FreshInv, FileBefore, HostPCs, FileRemovalPCs
<1>5. HostInv'  BY <1>t, <1>1 DEF HostInv, File!HostIsOne
<1>6. Undisturbed'
      BY <1>t, <1>1
      DEF FileSafe, Undisturbed, FileNamesInv, SlotInv, ApartInv, LocatedInv, Named, FileSlotPCs,
            File!Between
<1>7. Alone'
      BY <1>t, <1>1
      DEF FileSafe, Alone, OwnNamesInv, OwnerInv, ReclaimInv, Owning, File!Reclaiming
<1>8. QED  BY <1>2, <1>3, <1>4, <1>5, <1>6, <1>7 DEF FileSafe, Sound

LEMMA FileInitKeeps ==
    ASSUME Attempts, File!NoFiles, pc = [p \in Procs |-> "host"], dead = {}, served = {}, killed = {}
    PROVE  FileSafe
<1>1. File!TypeOK  BY DEF File!NoFiles, File!TypeOK, File!Tokens, File!Steps
<1>2. AimInv /\ FreshInv /\ HostInv
      BY DEF Attempts, File!NoFiles, AimInv, FreshInv, HostInv, File!HostIsOne, FileBefore,
            HostPCs, FileRemovalPCs
<1>3. FileNamesInv /\ SlotInv /\ ApartInv /\ LocatedInv
      BY DEF Attempts, File!NoFiles, FileNamesInv, SlotInv, ApartInv, LocatedInv, FileSlotPCs,
            File!Between
<1>4. OwnNamesInv /\ OwnerInv /\ ReclaimInv
      BY DEF Attempts, File!NoFiles, OwnNamesInv, OwnerInv, ReclaimInv, Owning, File!Reclaiming
<1>5. QED  BY <1>1, <1>2, <1>3, <1>4 DEF FileSafe, Sound, Undisturbed, Alone

LEMMA FileNextKeeps ==
    ASSUME Attempts, FileSafe, [File!Next]_(File!fileLeaseVars)
    PROVE  FileSafe'
<1>1. CASE UNCHANGED File!fileLeaseVars
  <2>1. UNCHANGED <<lease, prepared, aside, kept, stray, host, candidate, known, pc, aim, dead,
                    regime, served, killed>>
        BY <1>1 DEF File!fileLeaseVars, File!nameVars
  <2>2. Sound'
        BY <2>1 DEF FileSafe, Sound, File!TypeOK, AimInv, FreshInv, FileBefore, HostInv,
              File!HostIsOne
  <2>3. Undisturbed'
        BY <2>1 DEF FileSafe, Undisturbed, FileNamesInv, SlotInv, ApartInv, LocatedInv, Named,
              File!Between
  <2>4. Alone'
        BY <2>1 DEF FileSafe, Alone, OwnNamesInv, OwnerInv, ReclaimInv, Owning, File!Reclaiming
  <2>5. QED  BY <2>2, <2>3, <2>4 DEF FileSafe
<1>2. ASSUME NEW p \in Procs, File!Step(p) \/ File!Kill(p) \/ File!Exit(p) PROVE FileSafe'
      BY <1>2, FileStepKeeps, FileDeathKeeps
<1>3. QED  BY <1>1, <1>2 DEF File!Next

\* What the invariant says of the callbacks and of ended attempts.
LEMMA FileSafeMeans ==
    ASSUME Attempts, FileSafe
    PROVE  File!FileLeaseInv /\ File!LoneExclusion /\ File!LiveFileSurvives
<1>1. File!TypeOK /\ File!HostIsOne  BY DEF FileSafe, Sound, HostInv
<1>2. File!EndedLeavesNoFile  BY DEF FileSafe, Alone, OwnerInv, File!EndedLeavesNoFile
<1>3. File!LoneExclusion
  <2>1. SUFFICES ASSUME regime.lone PROVE Cardinality(File!Holders) <= 1
        BY SameCardinality DEF File!LoneExclusion
  <2>2. \A p \in File!Holders : p = lease  BY <2>1 DEF FileSafe, Alone, OwnerInv, Owning,
        File!Holders
  <2>3. File!Holders = {} \/ File!Holders = {lease}  BY <2>2
  <2>4. Cardinality({}) = 0 /\ Cardinality({lease}) = 1  BY FS_EmptySet, FS_Singleton
  <2>5. QED  BY <2>3, <2>4
<1>4. File!LiveFileSurvives
  <2>1. SUFFICES ASSUME regime.prompt \/ regime.lone, NEW p \in Procs, pc[p] = "hold"
                 PROVE  File!Links(p) > 0
        BY DEF File!LiveFileSurvives, File!Holders
  <2>2. Named(p)
        BY <2>1 DEF FileSafe, Undisturbed, LocatedInv, Alone, OwnerInv, Owning, Named
  <2>3. QED  BY <1>1, <2>2, LinksCount
<1>5. QED  BY <1>1, <1>2, <1>3, <1>4 DEF File!FileLeaseInv

-------------------------------------------------------------------------------
(* Both kinds of lease.                                                       *)

AuthoritySafe ==
    \/ platform = "directory" /\ Inv /\ OrderlyInv
    \/ platform = "file" /\ FileSafe

\* The assumptions on the constants are what the lemmas on files assume.
\* The invariant holds at first, every step keeps it, and it means the properties.
LEMMA SafeAtFirst ==
    ASSUME AuthorityInit
    PROVE  AuthoritySafe
<1>1. CASE platform = "directory" /\ Init
      BY <1>1, InitKeeps, InitIsOrderly DEF Init, AuthoritySafe
<1>2. CASE platform = "file" /\ File!Init
      BY <1>2, FileAttempts, FileInitKeeps
      DEF File!Init, File!NoFiles, AuthoritySafe
<1>3. QED  BY <1>1, <1>2 DEF AuthorityInit

LEMMA SafeNext ==
    ASSUME AuthoritySafe, [AuthorityNext]_authorityVars
    PROVE  AuthoritySafe'
<1>1. CASE OnDirectory(Next)
      BY <1>1, NextKeeps, NextIsOrderly DEF OnDirectory, AuthoritySafe
<1>2. CASE OnFile(File!Next)
      BY <1>2, FileAttempts, FileNextKeeps DEF OnFile, AuthoritySafe
<1>3. CASE UNCHANGED authorityVars
  <2>1. UNCHANGED vars /\ UNCHANGED platform /\ UNCHANGED File!fileLeaseVars
        BY <1>3
        DEF authorityVars, vars, procVars, fileOnlyVars, File!fileLeaseVars,
              File!nameVars
  <2>2. QED
        BY <2>1, FileAttempts, NextKeeps, NextIsOrderly, FileNextKeeps DEF AuthoritySafe
<1>4. QED  BY <1>1, <1>2, <1>3 DEF AuthorityNext

LEMMA SafeMeans ==
    ASSUME AuthoritySafe
    PROVE  AuthorityInv /\ AuthorityExclusion /\ AuthoritySurvives
<1>1. CASE platform = "directory" /\ Inv /\ OrderlyInv
      BY <1>1, OrderlyMeans, HeldMeans
      DEF Inv, AuthorityInv, AuthorityExclusion, AuthoritySurvives, LeaseInv
<1>2. CASE platform = "file" /\ FileSafe
  <2>1. File!FileLeaseInv /\ File!LoneExclusion /\ File!LiveFileSurvives
        BY <1>2, FileAttempts, FileSafeMeans
  <2>2. QED  BY <1>2, <2>1 DEF AuthorityInv, AuthorityExclusion, AuthoritySurvives
<1>3. QED  BY <1>1, <1>2 DEF AuthoritySafe

THEOREM AuthorityStaysSafe == AuthoritySpec => []AuthoritySafe
<1>1. AuthorityInit => AuthoritySafe  BY SafeAtFirst
<1>2. AuthoritySafe /\ [AuthorityNext]_authorityVars => AuthoritySafe'  BY SafeNext
<1>3. QED  BY <1>1, <1>2, PTL DEF AuthoritySpec

\* The records of a lease are well formed, the processes of a file lease go by
\* one host-id, and an attempt that ended in an orderly history leaves nothing
\* that would stop the next one (withRepositoryLease).
THEOREM LeaseRecords == AuthoritySpec => []AuthorityInv
<1>1. AuthoritySafe => AuthorityInv  BY SafeMeans
<1>2. QED  BY <1>1, AuthorityStaysSafe, PTL

\* One callback at a time runs: with any number of attempts and of processes
\* that die with the lease, on the way out or with a claim put aside; and for a
\* file lease whose reclaimers keep apart, of processes that die anywhere.
THEOREM OneHolder == AuthoritySpec => []AuthorityExclusion
<1>1. AuthoritySafe => AuthorityExclusion  BY SafeMeans
<1>2. QED  BY <1>1, AuthorityStaysSafe, PTL

\* Whatever dies wherever and is mistaken for a leftover, nobody deletes the
\* lease of a callback that runs (releaseOwnedLease, tryReclaimLockedLease,
\* tryReclaimFileLease and the restorations they fall back on).
THEOREM LiveLeaseStays == AuthoritySpec => []AuthoritySurvives
<1>1. AuthoritySafe => AuthoritySurvives  BY SafeMeans
<1>2. QED  BY <1>1, AuthorityStaysSafe, PTL

-------------------------------------------------------------------------------
(* The queue of one process.  Its invariant is about the gates: whoever is in *)
(* its turn, or was, came after calls whose gates are all open.  The chain of *)
(* predecessors and the tail carry that from one call to the next.            *)

Enqueued(c) == arrival[c] > 0

\* Every call before c, if c has a slot, has been released.
AllBeforeReleased(c) == \A d \in Calls : Enqueued(d) /\ arrival[d] < arrival[c] => d \in gates

\* Calls are numbered in the order of their slots.
ArrivalInv ==
    /\ \A c \in Calls : arrival[c] <= arrived
    /\ \A c \in Calls : Enqueued(c) <=> place[c] \notin {"idle", "refused"}
    /\ \A c, d \in Calls : Enqueued(c) /\ arrival[c] = arrival[d] => c = d

GateInv ==
    /\ \A c \in Calls : c \in gates <=> place[c] = "done"
    /\ settled \subseteq gates
    /\ \A c \in Calls : InTurn(c) \/ c \in gates => AllBeforeReleased(c)

\* A slot waits for the one just before it, unless all before it are released.
ChainInv ==
    \A c \in Calls : Enqueued(c) =>
        /\ pred[c] = NoCall => AllBeforeReleased(c)
        /\ pred[c] # NoCall => /\ Enqueued(pred[c])
                             /\ \A d \in Calls : arrival[d] < arrival[c] => arrival[d] <= arrival[pred[c]]

TailInv ==
    /\ tail = NoCall => \A d \in Calls : Enqueued(d) => d \in gates
    /\ tail # NoCall => Enqueued(tail) /\ arrival[tail] = arrived

\* Only a lease that has not been drained has operations.
OperationsInv ==
    /\ \A c \in active : place[c] \in {"inside", "drain"}
    /\ \A c \in Calls : pending[c] > 0 => place[c] \in {"inside", "drain"}
    /\ \A c \in Calls : pending[c] <= started[c]

QueueInv == QueueTypeOK /\ ArrivalInv /\ GateInv /\ ChainInv /\ TailInv /\ OperationsInv

-------------------------------------------------------------------------------

LEMMA InitInv == QueueInit => QueueInv
BY NoCallAssumption, MaxOpsAssumption
   DEF QueueInit, QueueInv, QueueTypeOK, Places, ArrivalInv, GateInv, ChainInv, TailInv,
         OperationsInv, Enqueued,
       AllBeforeReleased, InTurn

\* When its predecessor has settled, every call before c has been released.
LEMMA SettledChain ==
    ASSUME QueueInv, NEW c \in Calls, Enqueued(c), PredecessorSettled(c)
    PROVE  AllBeforeReleased(c)
<1>1. CASE pred[c] = NoCall
  BY <1>1 DEF QueueInv, ChainInv
<1>2. CASE pred[c] # NoCall
  <2>1. pred[c] \in Calls /\ pred[c] \in gates
    BY <1>2 DEF PredecessorSettled, QueueInv, QueueTypeOK, GateInv
  <2>2. AllBeforeReleased(pred[c])
    BY <2>1 DEF QueueInv, GateInv
  <2>3. SUFFICES ASSUME NEW d \in Calls, Enqueued(d), arrival[d] < arrival[c]
                 PROVE  d \in gates
    BY DEF AllBeforeReleased
  <2>4. arrival[d] <= arrival[pred[c]]
    BY <1>2, <2>3 DEF QueueInv, ChainInv
  <2>5. CASE arrival[d] = arrival[pred[c]]
    BY <2>1, <2>3, <2>5 DEF QueueInv, ArrivalInv
  <2>6. CASE arrival[d] < arrival[pred[c]]
    BY <2>2, <2>3, <2>6 DEF AllBeforeReleased
  <2> QED BY <2>1, <2>4, <2>5, <2>6 DEF QueueInv, QueueTypeOK
<1> QED BY <1>1, <1>2

\* Types survive every step.
LEMMA TypePreserved == ASSUME QueueInv, [QueueNext]_queueVars PROVE QueueTypeOK'
<1> USE DEF QueueInv, QueueTypeOK
<1>1. CASE UNCHANGED queueVars
  BY <1>1 DEF queueVars, slotVars, leaseVars, callVars, historyVars
<1>2. ASSUME NEW c \in Calls, NEW q \in Calls \cup {NoCall}, NEW awaits \in BOOLEAN, Call(c, q, awaits)
      PROVE  QueueTypeOK'
  BY <1>2 DEF Call, MovesTo, Enqueue, Places, slotVars, leaseVars, historyVars
<1>3. ASSUME NEW c \in Calls, Turn(c) \/ Cancel(c) \/ CallbackEnds(c) PROVE QueueTypeOK'
  BY <1>3 DEF Turn, Cancel, CallbackEnds, MovesTo, Places, slotVars, leaseVars, callVars,
        historyVars
<1>4. ASSUME NEW c \in Calls, ReleaseCancelled(c) \/ AcquisitionFails(c) \/ ReleaseTurn(c) PROVE QueueTypeOK'
  BY <1>4 DEF ReleaseCancelled, AcquisitionFails, ReleaseTurn, OpensGate, MovesTo, Places,
        leaseVars, callVars,
              historyVars
<1>5. ASSUME NEW c \in Calls, Settle(c) PROVE QueueTypeOK'
  BY <1>5 DEF Settle, leaseVars, callVars, historyVars
<1>6. ASSUME NEW c \in Calls, Acquired(c) \/ Drain(c) \/ LeaseLost(c) PROVE QueueTypeOK'
  BY <1>6 DEF Acquired, Drain, LeaseLost, MovesTo, Places, slotVars, callVars, historyVars
<1>7. ASSUME NEW c \in Calls, StartOperation(c) PROVE QueueTypeOK'
  BY <1>7, MaxOpsAssumption DEF StartOperation, OperationsInv, slotVars, callVars, historyVars
<1>8. ASSUME NEW c \in Calls, OperationSettles(c) PROVE QueueTypeOK'
  BY <1>8, MaxOpsAssumption DEF OperationSettles, slotVars, callVars, historyVars
<1> QED BY <1>1, <1>2, <1>3, <1>4, <1>5, <1>6, <1>7, <1>8 DEF QueueNext, Progress

\* Steps of the lease change nobody's place in the queue.
LEMMA LeaseStepsPreserve ==
    ASSUME QueueInv, QueueTypeOK', NEW c \in Calls,
           \/ Acquired(c) \/ Drain(c) \/ LeaseLost(c) \/ CallbackEnds(c)
           \/ StartOperation(c) \/ OperationSettles(c)
    PROVE  QueueInv'
<1>1. UNCHANGED <<slotVars, historyVars>>
  BY DEF Acquired, Drain, LeaseLost, CallbackEnds, StartOperation, OperationSettles
<1>2. /\ \A d \in Calls \ {c} : place'[d] = place[d]
      /\ \/ place'[c] = place[c]
         \/ {place[c], place'[c]} \subseteq {"acquire", "inside", "drain", "release"}
  BY DEF QueueInv, QueueTypeOK, Acquired, Drain, LeaseLost, CallbackEnds, StartOperation,
        OperationSettles, Stands, MovesTo
<1>3. \A d \in Calls : InTurn(d)' <=> InTurn(d)
  BY <1>2 DEF InTurn
<1>4. ArrivalInv'
  BY <1>1, <1>2 DEF QueueInv, ArrivalInv, Enqueued, historyVars
<1>5. GateInv'
  BY <1>1, <1>2, <1>3 DEF QueueInv, GateInv, AllBeforeReleased, Enqueued, slotVars, historyVars
<1>6. ChainInv' /\ TailInv'
  BY <1>1 DEF QueueInv, ChainInv, TailInv, AllBeforeReleased, Enqueued, slotVars, historyVars
<1>7. OperationsInv'
  <2>1. CASE Acquired(c)
    BY <2>1 DEF QueueInv, QueueTypeOK, OperationsInv, Acquired, Stands, MovesTo
  <2>2. CASE Drain(c)
    BY <2>2 DEF QueueInv, QueueTypeOK, OperationsInv, Drain, Stands, MovesTo
  <2>3. CASE LeaseLost(c)
    BY <2>3 DEF QueueInv, QueueTypeOK, OperationsInv, LeaseLost
  <2>4. CASE CallbackEnds(c)
    BY <2>4 DEF QueueInv, QueueTypeOK, OperationsInv, CallbackEnds, Stands, MovesTo, leaseVars
  <2>5. CASE StartOperation(c)
    BY <2>5, MaxOpsAssumption DEF QueueInv, QueueTypeOK, OperationsInv, StartOperation
  <2>6. CASE OperationSettles(c)
    BY <2>6, MaxOpsAssumption DEF QueueInv, QueueTypeOK, OperationsInv, OperationSettles
  <2> QED BY <2>1, <2>2, <2>3, <2>4, <2>5, <2>6
<1> QED BY <1>4, <1>5, <1>6, <1>7 DEF QueueInv

\* Opening the gate of c, when all before it are open and c is not waiting.
LEMMA GatePreserves ==
    ASSUME QueueInv, QueueTypeOK', NEW c \in Calls, Enqueued(c), AllBeforeReleased(c),
           MovesTo(c, "done"), OpensGate(c), UNCHANGED <<leaseVars, historyVars>>,
           c \notin active, pending[c] = 0
    PROVE  QueueInv'
<1>1. gates' = gates \cup {c} /\ UNCHANGED <<pred, settled, arrival, arrived>>
  BY DEF OpensGate, historyVars
<1>2. place' = [place EXCEPT ![c] = "done"]
  BY DEF MovesTo
<1>3. ArrivalInv'
  BY <1>1, <1>2 DEF QueueInv, QueueTypeOK, ArrivalInv, Enqueued
<1>4. GateInv'
  BY <1>1, <1>2 DEF QueueInv, QueueTypeOK, GateInv, AllBeforeReleased, Enqueued, InTurn
<1>5. ChainInv'
  BY <1>1 DEF QueueInv, ChainInv, AllBeforeReleased, Enqueued
<1>6. TailInv'
  <2>1. CASE tail = c
    <3>1. ASSUME NEW d \in Calls, Enqueued(d) PROVE d \in gates'
      BY <1>1, <2>1, <3>1 DEF QueueInv, QueueTypeOK, ArrivalInv, TailInv, AllBeforeReleased,
            Enqueued
    <3> QED BY <1>1, <2>1, <3>1, NoCallAssumption DEF OpensGate, TailInv, Enqueued
  <2>2. CASE tail # c
    BY <1>1, <2>2 DEF QueueInv, OpensGate, TailInv, Enqueued
  <2> QED BY <2>1, <2>2
<1>7. OperationsInv'
  BY <1>2 DEF QueueInv, QueueTypeOK, OperationsInv, leaseVars
<1> QED BY <1>3, <1>4, <1>5, <1>6, <1>7 DEF QueueInv

\* A new slot goes behind all others.
LEMMA CallPreserves ==
    ASSUME QueueInv, QueueTypeOK', NEW c \in Calls, NEW q \in Calls \cup {NoCall}, NEW awaits \in BOOLEAN,
           Call(c, q, awaits)
    PROVE  QueueInv'
<1>1. arrival[c] = 0 /\ place[c] = "idle" /\ UNCHANGED leaseVars
  BY DEF Call, Stands, QueueInv, QueueTypeOK, ArrivalInv, Enqueued
<1>2. OperationsInv'
  BY <1>1 DEF Call, MovesTo, QueueInv, QueueTypeOK, OperationsInv, leaseVars
<1>3. CASE MovesTo(c, "refused") /\ UNCHANGED <<slotVars, historyVars>>
  <2>1. ArrivalInv'
    BY <1>1, <1>3 DEF QueueInv, QueueTypeOK, ArrivalInv, Enqueued, MovesTo, historyVars
  <2>2. GateInv'
    BY <1>1, <1>3 DEF QueueInv, QueueTypeOK, GateInv, AllBeforeReleased, Enqueued, InTurn, MovesTo,
          slotVars, historyVars
  <2>3. ChainInv' /\ TailInv'
    BY <1>3 DEF QueueInv, ChainInv, TailInv, AllBeforeReleased, Enqueued, slotVars, historyVars
  <2> QED BY <1>2, <2>1, <2>2, <2>3 DEF QueueInv
<1>4. CASE MovesTo(c, "waiting") /\ Enqueue(c)
  <2>1. /\ pred' = [pred EXCEPT ![c] = tail] /\ tail' = c /\ UNCHANGED <<gates, settled>>
        /\ arrived' = arrived + 1 /\ arrival' = [arrival EXCEPT ![c] = arrived + 1]
        /\ place' = [place EXCEPT ![c] = "waiting"]
    BY <1>4 DEF MovesTo, Enqueue
  <2>2. /\ arrival'[c] = arrived + 1 /\ arrived + 1 > 0
        /\ \A d \in Calls \ {c} : arrival'[d] = arrival[d] /\ arrival'[d] < arrival'[c]
    BY <2>1 DEF QueueInv, QueueTypeOK, ArrivalInv
  <2>3. ArrivalInv'
    BY <1>1, <2>1, <2>2 DEF QueueInv, QueueTypeOK, ArrivalInv, Enqueued
  <2>4. GateInv'
    <3>1. \A d \in Calls : d \in gates' <=> place'[d] = "done"
      BY <1>1, <2>1 DEF QueueInv, QueueTypeOK, GateInv
    <3>2. ASSUME NEW d \in Calls, InTurn(d)' \/ d \in gates', NEW e \in Calls, Enqueued(e)',
                 arrival'[e] < arrival'[d]
          PROVE  e \in gates'
      <4>1. d # c
        BY <1>1, <2>1, <3>1, <3>2 DEF QueueInv, QueueTypeOK, InTurn
      <4>2. e # c
        BY <2>2, <3>2, <4>1 DEF QueueInv, QueueTypeOK
      <4>3. InTurn(d) \/ d \in gates
        BY <2>1, <3>2, <4>1 DEF QueueInv, QueueTypeOK, InTurn
      <4> QED BY <2>1, <2>2, <3>2, <4>1, <4>2, <4>3 DEF QueueInv, GateInv, AllBeforeReleased,
            Enqueued
    <3> QED BY <2>1, <3>1, <3>2 DEF QueueInv, GateInv, AllBeforeReleased
  <2>5. ChainInv'
    <3>1. ASSUME NEW d \in Calls, Enqueued(d)', d # c
          PROVE  /\ pred'[d] = NoCall => AllBeforeReleased(d)'
                 /\ pred'[d] # NoCall =>
                      /\ Enqueued(pred[d])'
                      /\ \A e \in Calls : arrival'[e] < arrival'[d] => arrival'[e] <= arrival'[pred'[d]]
      <4>1. Enqueued(d) /\ pred'[d] = pred[d]
        BY <2>1, <2>2, <3>1 DEF QueueInv, QueueTypeOK, Enqueued
      <4>2. pred[d] # NoCall => pred[d] \in Calls \ {c}
        BY <1>1, <3>1, <4>1 DEF QueueInv, QueueTypeOK, ChainInv, Enqueued
      <4> QED BY <2>1, <2>2, <3>1, <4>1, <4>2 DEF QueueInv, QueueTypeOK, ChainInv,
            AllBeforeReleased, Enqueued
    <3>2. pred'[c] = tail
      BY <2>1 DEF QueueInv, QueueTypeOK
    <3>3. CASE tail = NoCall
      BY <1>1, <2>1, <2>2, <3>1, <3>2, <3>3 DEF QueueInv, QueueTypeOK, ChainInv, TailInv,
            AllBeforeReleased, Enqueued
    <3>4. CASE tail # NoCall
      <4>1. tail \in Calls \ {c} /\ arrival'[tail] = arrived /\ Enqueued(tail)
        BY <1>1, <2>2, <3>4 DEF QueueInv, QueueTypeOK, TailInv, Enqueued
      <4>2. \A d \in Calls \ {c} : arrival'[d] <= arrived
        BY <2>2 DEF QueueInv, QueueTypeOK, ArrivalInv
      <4>3. \A e \in Calls : arrival'[e] < arrival'[c] => arrival'[e] <= arrival'[tail]
        BY <2>2, <4>1, <4>2 DEF QueueInv, QueueTypeOK
      <4> QED BY <2>1, <2>2, <3>1, <3>2, <3>4, <4>1, <4>3 DEF ChainInv, Enqueued
    <3> QED BY <3>3, <3>4
  <2>6. TailInv'
    BY <2>1, <2>2, NoCallAssumption DEF TailInv, Enqueued
  <2> QED BY <1>2, <2>3, <2>4, <2>5, <2>6 DEF QueueInv
<1> QED BY <1>3, <1>4 DEF Call

\* QueueInv is inductive.
LEMMA StepInv == QueueInv /\ [QueueNext]_queueVars => QueueInv'
<1> SUFFICES ASSUME QueueInv, [QueueNext]_queueVars PROVE QueueInv'
  OBVIOUS
<1>0. QueueTypeOK'
  BY TypePreserved
<1>1. CASE UNCHANGED queueVars
  BY <1>1 DEF QueueInv, QueueTypeOK, ArrivalInv, GateInv, ChainInv, TailInv, OperationsInv,
        AllBeforeReleased, Enqueued,
              InTurn, queueVars, slotVars, leaseVars, callVars, historyVars
<1>2. ASSUME NEW c \in Calls, NEW q \in Calls \cup {NoCall}, NEW awaits \in BOOLEAN, Call(c, q, awaits)
      PROVE  QueueInv'
  BY <1>0, <1>2, CallPreserves
<1>3. ASSUME NEW c \in Calls, Turn(c) PROVE QueueInv'
  <2>1. place[c] = "waiting" /\ place' = [place EXCEPT ![c] = "acquire"]
        /\ UNCHANGED <<slotVars, leaseVars, historyVars>>
    BY <1>3 DEF Turn, Stands, MovesTo
  <2>2. AllBeforeReleased(c)
    BY <1>3, <2>1, SettledChain DEF Turn, QueueInv, ArrivalInv
  <2>3. ArrivalInv'
    BY <2>1 DEF QueueInv, QueueTypeOK, ArrivalInv, Enqueued, historyVars
  <2>4. GateInv'
    BY <2>1, <2>2 DEF QueueInv, QueueTypeOK, GateInv, AllBeforeReleased, Enqueued, InTurn,
          slotVars, historyVars
  <2>5. ChainInv' /\ TailInv'
    BY <2>1 DEF QueueInv, ChainInv, TailInv, AllBeforeReleased, Enqueued, slotVars, historyVars
  <2>6. OperationsInv'
    BY <2>1 DEF QueueInv, QueueTypeOK, OperationsInv, leaseVars
  <2> QED BY <1>0, <2>3, <2>4, <2>5, <2>6 DEF QueueInv
<1>4. ASSUME NEW c \in Calls, Cancel(c) PROVE QueueInv'
  <2>1. place[c] = "waiting" /\ place' = [place EXCEPT ![c] = "cancelled"]
        /\ UNCHANGED <<slotVars, leaseVars, historyVars>>
    BY <1>4 DEF Cancel, Stands, MovesTo
  <2>2. ArrivalInv' /\ GateInv' /\ OperationsInv'
    BY <2>1 DEF QueueInv, QueueTypeOK, ArrivalInv, GateInv, OperationsInv, AllBeforeReleased,
          Enqueued, InTurn,
                slotVars, leaseVars, historyVars
  <2>3. ChainInv' /\ TailInv'
    BY <2>1 DEF QueueInv, ChainInv, TailInv, AllBeforeReleased, Enqueued, slotVars, historyVars
  <2> QED BY <1>0, <2>2, <2>3 DEF QueueInv
<1>5. ASSUME NEW c \in Calls, ReleaseCancelled(c) \/ AcquisitionFails(c) \/ ReleaseTurn(c) PROVE QueueInv'
  <2>1. place[c] \in {"cancelled", "acquire", "release"} /\ MovesTo(c, "done") /\ OpensGate(c)
        /\ UNCHANGED <<leaseVars, historyVars>>
    BY <1>5 DEF ReleaseCancelled, AcquisitionFails, ReleaseTurn, Stands
  <2>2. Enqueued(c) /\ c \notin active /\ pending[c] = 0
    BY <2>1 DEF QueueInv, QueueTypeOK, ArrivalInv, OperationsInv
  <2>3. AllBeforeReleased(c)
    BY <1>5, <2>1, <2>2, SettledChain
       DEF QueueInv, GateInv, InTurn, ReleaseCancelled, AcquisitionFails, ReleaseTurn, Stands
  <2> QED BY <1>0, <2>1, <2>2, <2>3, GatePreserves
<1>6. ASSUME NEW c \in Calls, Settle(c) PROVE QueueInv'
  BY <1>0, <1>6 DEF Settle, QueueInv, ArrivalInv, GateInv, ChainInv, TailInv, OperationsInv,
        AllBeforeReleased,
                    Enqueued, InTurn, leaseVars, callVars, historyVars
<1>7. ASSUME NEW c \in Calls,
             \/ Acquired(c) \/ Drain(c) \/ LeaseLost(c) \/ CallbackEnds(c)
             \/ StartOperation(c) \/ OperationSettles(c)
      PROVE  QueueInv'
  BY <1>0, <1>7, LeaseStepsPreserve
<1> QED BY <1>1, <1>2, <1>3, <1>4, <1>5, <1>6, <1>7 DEF QueueNext, Progress

\* The invariant holds in every reachable state.
THEOREM QueueInvariance == QueueSpec => []QueueInv
BY InitInv, StepInv, PTL DEF QueueSpec

\* Every variable keeps its type, whatever calls, aborts and lost leases there are.
THEOREM QueueTypes == QueueSpec => []QueueTypeOK
<1>1. QueueInv => QueueTypeOK
  BY DEF QueueInv
<1> QED BY <1>1, QueueInvariance, PTL

\* However many calls there are and whoever of them gives up, at most one call is
\* between its turn and its release.
THEOREM OneCallInTurn == QueueSpec => []OneInTurn
<1>1. QueueInv => OneInTurn
  BY DEF QueueInv, QueueTypeOK, ArrivalInv, GateInv, AllBeforeReleased, Enqueued, InTurn, OneInTurn
<1> QED BY <1>1, QueueInvariance, PTL

\* Nobody is served while a call that came earlier, and did not give up, waits.
THEOREM FirstComeFirstServed == QueueSpec => []EarlierFirst
<1>1. QueueInv => EarlierFirst
  BY DEF QueueInv, GateInv, AllBeforeReleased, Enqueued, EarlierFirst
<1> QED BY <1>1, QueueInvariance, PTL

\* No operation of an ended callback is pending when another callback runs.
THEOREM OperationsStayInLease == QueueSpec => []OperationsInLease
<1>1. QueueInv => OneInTurn
  BY DEF QueueInv, QueueTypeOK, ArrivalInv, GateInv, AllBeforeReleased, Enqueued, InTurn, OneInTurn
<1>2. QueueInv => OperationsInLease
  BY <1>1 DEF QueueInv, OperationsInv, OneInTurn, InTurn, OperationsInLease, Stands
<1> QED BY <1>2, QueueInvariance, PTL

\* Neither a call nor what its callback left running overlaps the lease of another
\* call of the process (enqueueAuthority, trackLeaseOperation, withRepositoryLease).
THEOREM NothingOverlaps == QueueSpec => []TurnsInv
BY OneCallInTurn, OperationsStayInLease, PTL DEF TurnsInv
===============================================================================
