---------------------------- MODULE RepositoryLease ----------------------------
(***************************************************************************)
(* The authority lease of @neottia/repository-store (lease.ts) as several  *)
(* processes contend for it: a lock directory with an owner.json, a claim  *)
(* file that serializes whoever creates or replaces the directory, and the *)
(* private ".release-<token>" names through which both are removed.        *)
(*                                                                         *)
(* A process makes one acquisition attempt, so that it stands for its own  *)
(* token, and the lock directory, the owner.json and the claim it creates  *)
(* are named by their creator.  Each step is one system call that changes  *)
(* the control directory, or the reads that the next such call trusts.     *)
(***************************************************************************)
EXTENDS Naturals, FiniteSets

CONSTANTS
    Procs,      \* acquisition attempts, each in a process of its own
    None,
    Prompt,     \* no live process is delayed for stale_ms between two steps
    Regimes,    \* what else a history may hold: whether deadlines and abort
                \* signals end attempts, and the program counters at which a
                \* process may be killed
    MaxKills    \* model bound

ASSUME NoneAssumption == None \notin Procs
ASSUME ProcsAssumption == IsFiniteSet(Procs)
ASSUME SwitchAssumption == Prompt \in BOOLEAN
ASSUME RegimesAssumption == \A r \in Regimes : r.giveUp \in BOOLEAN
ASSUME KillsAssumption == MaxKills \in Nat

VARIABLES
    (* the control directory *)
    claim,      \* whose authority.claim is published
    staged,     \* claims whose ".prepare-<token>" link is still there
    claimAside, \* claimAside[t]: the claim at authority.claim.release-<t>
    lock,       \* who created the directory at authority.lease
    lockAside,  \* lockAside[t]: the directory at authority.lease.release-<t>
    owner,      \* owner[d]: whose owner.json is in directory d
    written,    \* the owner.json files whose bytes are complete
    moved,      \* directories renamed since their holder captured them: ctime
    (* the processes *)
    pc, job,    \* job[p]: what the quarantine steps of p are for
    seen,       \* seen[p]: the ReleaseExpectation they compare with
    held,       \* held[p]: the lock directory p captured as its own
    dead,       \* the process is gone: its pid no longer exists
    regime,     \* never changes
    (* history, for the properties *)
    served,     \* attempts whose callback ran
    killed      \* processes that were killed

fileVars == <<claim, staged, claimAside, lock, lockAside, owner, written, moved>>
procVars == <<pc, job, seen, held>>
vars == <<fileVars, procVars, dead, regime, served, killed>>

Tokens == Procs \cup {None}
Nothing == [token |-> None, dir |-> None, owner |-> None]

PCs == {"start", "unstage", "inspectClaim", "normalize", "inspectEmpty",
        "mkdir", "inspectLock", "openOwner", "fillOwner", "capture", "initCleanup",
        "dropClaim", "moveClaim", "checkClaim", "restoreClaim", "rmClaim",
        "release", "moveLock", "checkLock", "restoreLock", "rmOwner", "rmdirLock",
        "hold", "done", "dead"}
Jobs == {"none", "enter", "reclaim", "interrupted", "init", "release", "abandon", "lost"}

TypeOK ==
    /\ claim \in Tokens /\ lock \in Tokens
    /\ staged \subseteq Procs
    /\ claimAside \in [Procs -> Tokens] /\ lockAside \in [Procs -> Tokens]
    /\ owner \in [Procs -> Tokens]
    /\ written \subseteq Procs /\ moved \subseteq Procs
    /\ pc \in [Procs -> PCs] /\ job \in [Procs -> Jobs]
    /\ seen \in [Procs -> [token : Tokens, dir : Tokens, owner : Tokens]]
    /\ held \in [Procs -> Tokens]
    /\ dead \subseteq Procs /\ served \subseteq Procs
    /\ killed \subseteq dead

NoDirectories ==
    /\ claim = None /\ lock = None /\ staged = {}
    /\ claimAside = [t \in Procs |-> None] /\ lockAside = [t \in Procs |-> None]
    /\ owner = [d \in Procs |-> None] /\ written = {} /\ moved = {}
    /\ job = [p \in Procs |-> "none"]
    /\ seen = [p \in Procs |-> Nothing] /\ held = [p \in Procs |-> None]

Init ==
    /\ NoDirectories /\ pc = [p \in Procs |-> "start"]
    /\ dead = {} /\ served = {} /\ killed = {} /\ regime \in Regimes

-------------------------------------------------------------------------------
(* Control of one process. *)

At(p, l) == pc[p] = l
Goto(p, l) == pc' = [pc EXCEPT ![p] = l] /\ UNCHANGED <<job, seen, held>>
GotoJob(p, l, j, expectation) ==
    /\ pc' = [pc EXCEPT ![p] = l] /\ job' = [job EXCEPT ![p] = j]
    /\ seen' = [seen EXCEPT ![p] = expectation]
    /\ UNCHANGED held

\* waitForLeasePoll and "continue": back to the top of the loop.
Again(p) == GotoJob(p, "start", "none", Nothing)

\* The attempt ended: its promise is settled.
Ended(p) ==
    /\ pc' = [pc EXCEPT ![p] = "done"] /\ job' = [job EXCEPT ![p] = "none"]
    /\ seen' = [seen EXCEPT ![p] = Nothing]
    /\ held' = [held EXCEPT ![p] = None]

\* removeOwnedClaim or the claim half of tryReclaimClaim returned.
AfterClaim(p, removed) ==
    \/ /\ job[p] = "enter" /\ removed
       /\ GotoJob(p, "hold", "none", Nothing)
    \/ job[p] = "enter" /\ ~removed /\ GotoJob(p, "release", "abandon", Nothing)
    \/ job[p] \in {"reclaim", "interrupted"} /\ Again(p)
    \/ job[p] = "init" /\ Ended(p)

\* The removal of a lock directory ended, whatever it achieved; only a changed
\* directory of an interrupted initialization also ends the reclaim (throw).
AfterLock(p, mismatch) ==
    \/ job[p] = "interrupted" /\ ~mismatch /\ Goto(p, "moveClaim")
    \/ job[p] = "interrupted" /\ mismatch /\ Again(p)
    \/ job[p] \in {"reclaim", "init"} /\ GotoJob(p, "dropClaim", job[p], Nothing)
    \/ job[p] \in {"release", "lost"} /\ Ended(p)
    \/ job[p] = "abandon" /\ GotoJob(p, "initCleanup", "lost", Nothing)

Quiet == UNCHANGED <<dead, served, killed, regime>>
ClaimFrame == UNCHANGED <<lock, lockAside, owner, written, moved>>
LockFrame == UNCHANGED <<claim, staged, claimAside>>

\* Mutant: an old lease is a dead one.
AgeMeansDead(o) == o # None

\* Mutant: the probe of the owner's process always answers.
ProbeAlwaysAnswers(o) == FALSE

\* Its process is gone, on this host; a probe that is not conclusive is a no.
ConclusivelyDead(o) == o \in dead

\* readOwner of the owner.json in d returns the owner, and does not throw.
OwnerReads(d, o) == owner[d] = o /\ o \in written

-------------------------------------------------------------------------------
(* The acquisition loop of withRepositoryLease. *)

\* acquireClaim: the claim is a hard link, complete when it appears.
LinkClaim(p) ==
    /\ At(p, "start")
    /\ IF claim = None
       THEN /\ claim' = p /\ staged' = staged \cup {p}
            /\ Goto(p, "unstage")
       ELSE Goto(p, "inspectClaim") /\ UNCHANGED <<claim, staged>>
    /\ UNCHANGED claimAside /\ ClaimFrame /\ Quiet

\* The staging link goes; ENOENT, if someone else took it, ends the attempt
\* outside every handler that would remove the claim.
Unstage(p) ==
    /\ At(p, "unstage")
    /\ IF p \in staged THEN Goto(p, "mkdir") ELSE Ended(p)
    /\ staged' = staged \ {p}
    /\ UNCHANGED <<claim, claimAside>> /\ ClaimFrame /\ Quiet

\* checkAcquisitionControl, at the top of the loop and around each poll.
GiveUp(p) ==
    /\ regime.giveUp /\ At(p, "start")
    /\ Ended(p)
    /\ UNCHANGED fileVars /\ Quiet

Mkdir(p) ==
    /\ At(p, "mkdir")
    /\ IF lock = None
       THEN lock' = p /\ Goto(p, "openOwner")
       ELSE Goto(p, "inspectLock") /\ UNCHANGED lock
    /\ UNCHANGED <<lockAside, owner, written, moved>> /\ LockFrame /\ Quiet

\* writeOwner creates owner.json by its path, in whatever directory is there.
OpenOwner(p) ==
    /\ At(p, "openOwner")
    /\ IF lock # None /\ owner[lock] = None
       THEN owner' = [owner EXCEPT ![lock] = p] /\ Goto(p, "fillOwner")
       ELSE GotoJob(p, "initCleanup", "init", Nothing) /\ UNCHANGED owner
    /\ UNCHANGED <<lock, lockAside, written, moved>> /\ LockFrame /\ Quiet

FillOwner(p) ==
    /\ At(p, "fillOwner")
    /\ written' = written \cup {p} /\ Goto(p, "capture")
    /\ UNCHANGED <<lock, lockAside, owner, moved>> /\ LockFrame /\ Quiet

\* The holder's own view of its lease: lockIdentity and ownerIdentity.
Capture(p) ==
    /\ At(p, "capture")
    /\ IF lock # None /\ owner[lock] = p
       THEN /\ pc' = [pc EXCEPT ![p] = "dropClaim"] /\ job' = [job EXCEPT ![p] = "enter"]
            /\ held' = [held EXCEPT ![p] = lock] /\ moved' = moved \ {lock}
            /\ UNCHANGED seen
       ELSE GotoJob(p, "initCleanup", "init", Nothing) /\ UNCHANGED moved
    /\ UNCHANGED <<lock, lockAside, owner, written>> /\ LockFrame /\ Quiet

\* cleanupOwnedInitialization, up to its quarantine.
InitCleanup(p) ==
    /\ At(p, "initCleanup")
    /\ IF lock = p /\ (owner[p] = None \/ OwnerReads(p, p))
       THEN GotoJob(p, "moveLock", job[p], [token |-> p, dir |-> p, owner |-> owner[p]])
       ELSE AfterLock(p, FALSE)
    /\ UNCHANGED fileVars /\ Quiet

-------------------------------------------------------------------------------
(* Removing a claim: removeOwnedClaim, and tryReclaimClaim for a dead owner.  *)

\* Only a conclusively dead owner of the claim is replaced.
InspectClaim(p) ==
    /\ At(p, "inspectClaim")
    /\ IF claim # None /\ ConclusivelyDead(claim)
       THEN GotoJob(p, "normalize", "interrupted", [Nothing EXCEPT !.token = claim])
       ELSE Again(p)
    /\ UNCHANGED fileVars /\ Quiet

\* normalizeInterruptedClaimLink works on whatever claim is there now; then the
\* owner is read again.
Normalize(p) ==
    /\ At(p, "normalize")
    /\ staged' = staged \ {claim}
    /\ IF claim = seen[p].token THEN Goto(p, "inspectEmpty") ELSE Again(p)
    /\ UNCHANGED <<claim, claimAside>> /\ ClaimFrame /\ Quiet

\* Aged past stale_ms: time passes for the leftovers of the dead, and for a
\* process that is delayed.
Aged(d) == ~Prompt \/ d \in dead

\* cleanupInterruptedInitialization: an empty lock directory goes with the
\* claim; one with an owner.json stays, and so does one whose own age, which is
\* a little less than the claim's, is not yet stale_ms.
InspectEmpty(p) ==
    /\ At(p, "inspectEmpty")
    /\ \/ Goto(p, "moveClaim")
       \/ /\ lock # None /\ Aged(lock) /\ owner[lock] = None
          /\ GotoJob(p, "moveLock", "interrupted", [seen[p] EXCEPT !.dir = lock])
    /\ UNCHANGED fileVars /\ Quiet

\* removeOwnedClaim: is it still ours?
DropClaim(p) ==
    /\ At(p, "dropClaim")
    /\ IF claim = p
       THEN GotoJob(p, "moveClaim", job[p], [Nothing EXCEPT !.token = p])
       ELSE AfterClaim(p, FALSE)
    /\ UNCHANGED fileVars /\ Quiet

\* quarantineNoReplace
MoveClaim(p) ==
    LET t == seen[p].token
    IN  /\ At(p, "moveClaim")
        /\ IF claim # None /\ claimAside[t] = None
           THEN /\ claimAside' = [claimAside EXCEPT ![t] = claim] /\ claim' = None
                /\ Goto(p, "checkClaim")
           ELSE AfterClaim(p, FALSE) /\ UNCHANGED <<claim, claimAside>>
        /\ UNCHANGED staged /\ ClaimFrame /\ Quiet

\* Another claim than the one read goes back.  While its staging link exists
\* readOwner refuses it: an error of the reclaimer, a lost claim for the owner.
CheckClaim(p) ==
    LET t == seen[p].token
        c == claimAside[t]
    IN  /\ At(p, "checkClaim")
        /\ \/ c = t /\ Goto(p, "rmClaim")
           \/ c # t /\ c \notin staged /\ Goto(p, "restoreClaim")
           \/ c # t /\ c \in staged /\ job[p] = "interrupted" /\ Ended(p)
           \/ c # t /\ c \in staged /\ job[p] # "interrupted" /\ AfterClaim(p, FALSE)
        /\ UNCHANGED fileVars /\ Quiet

\* restoreQuarantinedLease: never over a newer claim.
RestoreClaim(p) ==
    LET t == seen[p].token
    IN  /\ At(p, "restoreClaim")
        /\ IF claim = None
           THEN claim' = claimAside[t] /\ claimAside' = [claimAside EXCEPT ![t] = None]
           ELSE UNCHANGED <<claim, claimAside>>
        /\ AfterClaim(p, FALSE)
        /\ UNCHANGED staged /\ ClaimFrame /\ Quiet

RemoveClaim(p) ==
    /\ At(p, "rmClaim")
    /\ claimAside' = [claimAside EXCEPT ![seen[p].token] = None]
    /\ AfterClaim(p, TRUE)
    /\ UNCHANGED <<claim, staged>> /\ ClaimFrame /\ Quiet

-------------------------------------------------------------------------------
(* Removing a lock directory: tryReclaimLockedLease, releaseOwnedLease,       *)
(* cleanupOwnedInitialization and cleanupInterruptedInitialization.           *)

\* tryReclaimLockedLease: a complete owner that is conclusively dead.
InspectLock(p) ==
    /\ At(p, "inspectLock")
    /\ IF lock # None /\ ConclusivelyDead(owner[lock]) /\ OwnerReads(lock, owner[lock])
       THEN GotoJob(p, "moveLock", "reclaim",
                    [token |-> owner[lock], dir |-> lock, owner |-> owner[lock]])
       ELSE GotoJob(p, "dropClaim", "reclaim", Nothing)
    /\ UNCHANGED fileVars /\ Quiet

\* ownedLeaseIdentityMatches, change times included.
StillOwned(p) == lock = held[p] /\ lock \notin moved /\ OwnerReads(lock, p)

\* Mutant: an ended callback does not remove its lease.
ReleaseNothing(p) ==
    /\ At(p, "release")
    /\ AfterLock(p, FALSE)
    /\ UNCHANGED fileVars /\ Quiet

\* releaseOwnedLease, up to its quarantine.
Release(p) ==
    /\ At(p, "release")
    /\ IF held[p] # None /\ StillOwned(p)
       THEN GotoJob(p, "moveLock", job[p], [token |-> p, dir |-> held[p], owner |-> p])
       ELSE AfterLock(p, FALSE)
    /\ UNCHANGED fileVars /\ Quiet

\* quarantineNoReplace
MoveLock(p) ==
    LET t == seen[p].token
    IN  /\ At(p, "moveLock")
        /\ IF lock # None /\ lockAside[t] = None
           THEN /\ lockAside' = [lockAside EXCEPT ![t] = lock] /\ lock' = None
                /\ moved' = moved \cup {lock}
                /\ Goto(p, "checkLock")
           ELSE AfterLock(p, FALSE) /\ UNCHANGED <<lock, lockAside, moved>>
        /\ UNCHANGED <<owner, written>> /\ LockFrame /\ Quiet

\* Mutant: the directory that was moved aside is removed unseen.
CheckLockTrusts(p) ==
    /\ At(p, "checkLock")
    /\ Goto(p, "rmOwner")
    /\ UNCHANGED fileVars /\ Quiet

\* A directory that is not the expected one goes back only if a complete owner
\* identifies it, and only where the caller passes that owner on.
CheckLock(p) ==
    LET d == lockAside[seen[p].token]
        expected == d = seen[p].dir /\ owner[d] = seen[p].owner
        identified == /\ job[p] \in {"reclaim", "release", "abandon"}
                      /\ owner[d] \in written
    IN  /\ At(p, "checkLock")
        /\ \/ expected /\ Goto(p, IF owner[d] = None THEN "rmdirLock" ELSE "rmOwner")
           \/ ~expected /\ identified /\ Goto(p, "restoreLock")
           \/ ~expected /\ ~identified /\ AfterLock(p, TRUE)
        /\ UNCHANGED fileVars /\ Quiet

\* restoreQuarantinedLease: never over a newer lease.
RestoreLock(p) ==
    LET t == seen[p].token
    IN  /\ At(p, "restoreLock")
        /\ IF lock = None
           THEN lock' = lockAside[t] /\ lockAside' = [lockAside EXCEPT ![t] = None]
           ELSE UNCHANGED <<lock, lockAside>>
        /\ AfterLock(p, TRUE)
        /\ UNCHANGED <<owner, written, moved>> /\ LockFrame /\ Quiet

\* removeVerifiedOwnerFile, inside the quarantine.
RemoveOwner(p) ==
    /\ At(p, "rmOwner")
    /\ owner' = [owner EXCEPT ![lockAside[seen[p].token]] = None]
    /\ Goto(p, "rmdirLock")
    /\ UNCHANGED <<lock, lockAside, written, moved>> /\ LockFrame /\ Quiet

RemoveLock(p) ==
    /\ At(p, "rmdirLock")
    /\ lockAside' = [lockAside EXCEPT ![seen[p].token] = None]
    /\ AfterLock(p, FALSE)
    /\ UNCHANGED <<lock, owner, written, moved>> /\ LockFrame /\ Quiet

-------------------------------------------------------------------------------
\* The callback runs, and ends after its tracked operations settled.
Run(p) ==
    /\ At(p, "hold")
    /\ served' = served \cup {p}
    /\ GotoJob(p, "release", "release", Nothing)
    /\ UNCHANGED <<fileVars, dead, killed, regime>>

Acquisition(p) ==
    \/ LinkClaim(p) \/ Unstage(p) \/ GiveUp(p)
    \/ Mkdir(p) \/ OpenOwner(p) \/ FillOwner(p) \/ Capture(p) \/ InitCleanup(p)
ClaimRemoval(p) ==
    \/ InspectClaim(p) \/ Normalize(p) \/ InspectEmpty(p) \/ DropClaim(p)
    \/ MoveClaim(p) \/ CheckClaim(p) \/ RestoreClaim(p) \/ RemoveClaim(p)
LockRemoval(p) ==
    \/ InspectLock(p) \/ Release(p) \/ MoveLock(p) \/ CheckLock(p)
    \/ RestoreLock(p) \/ RemoveOwner(p) \/ RemoveLock(p)

Step(p) == Acquisition(p) \/ ClaimRemoval(p) \/ LockRemoval(p) \/ Run(p)

\* SIGKILL between two system calls.
Kill(p) ==
    /\ Cardinality(killed) < MaxKills /\ pc[p] \in regime.killAt
    /\ killed' = killed \cup {p} /\ dead' = dead \cup {p}
    /\ pc' = [pc EXCEPT ![p] = "dead"] /\ job' = [job EXCEPT ![p] = "none"]
    /\ seen' = [seen EXCEPT ![p] = Nothing] /\ held' = [held EXCEPT ![p] = None]
    /\ UNCHANGED <<fileVars, served, regime>>

\* The process of an ended attempt may live on, or exit.
Exit(p) ==
    /\ At(p, "done")
    /\ dead' = dead \cup {p} /\ Goto(p, "dead")
    /\ UNCHANGED <<fileVars, served, killed, regime>>

Next == \E p \in Procs : Step(p) \/ Kill(p) \/ Exit(p)

Spec == Init /\ [][Next]_vars

-------------------------------------------------------------------------------
(* Properties. *)

Holders == {p \in Procs : pc[p] = "hold"}

\* One callback at a time runs under an authority, in all processes.  This is
\* what lease.ts:88 says, and false of the code: see the README.
MutualExclusion == Cardinality(Holders) <= 1

\* Nobody gives up, and processes are killed only where what they leave can be
\* told from a live owner's at once: with the lease or on the way out, or with
\* somebody else's claim put aside.
Orderly == ~regime.giveUp /\ regime.killAt \subseteq {"checkClaim", "rmClaim", "hold", "release"}

\* In an orderly history one callback at a time runs, whoever takes over whose
\* claim or lease.
OrderlyExclusion == Orderly => MutualExclusion

\* Whatever is mistaken for a leftover, nobody deletes the lease of a callback
\* that runs: its directory and its owner.json are there, at the lease path or
\* put aside.
LiveLeaseSurvives ==
    \A p \in Holders :
        /\ OwnerReads(held[p], p)
        /\ held[p] \in {lock} \cup {lockAside[t] : t \in Procs}

\* In an orderly history, an attempt that ended, served or not, leaves nothing
\* of its own behind that would stop the next one.
EndedLeavesNothing ==
    Orderly => \A p \in Procs : pc[p] = "done" =>
        /\ claim # p
        /\ lock # None => lock # p /\ owner[lock] # p

\* The types and what ended attempts leave, as one invariant.
LeaseInv == TypeOK /\ EndedLeavesNothing

\* What every attempt that is not killed comes to in an orderly history.
Served(p) == Orderly => p \in served \cup killed
===============================================================================
