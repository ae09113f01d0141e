-------------------------------- MODULE FileLease --------------------------------
(***************************************************************************)
(* The authority lease of @neottia/repository-store where a directory      *)
(* cannot be renamed without replacing (FreeBSD): the lease is one regular *)
(* file, published as a hard link, and a rename is a link and an unlink,   *)
(* so that a file may have two names at any moment.                        *)
(*                                                                         *)
(* Every attempt has a process and a token of its own, and the file that   *)
(* holds its ownership is named by it.  A file has a name for each place   *)
(* that holds it: the lease, the staging link of its owner, the names      *)
(* ".release-<token>", and the private names of a restoration.             *)
(***************************************************************************)
EXTENDS Naturals, FiniteSets

CONSTANTS
    Procs,      \* acquisition attempts, each in a process of its own
    None,
    FileRegimes,    \* what else a history may hold: whether attempts give up, whether
                    \* reclaimers keep apart (lone) and renames are undisturbed (prompt),
                    \* and the program counters at which a process may be killed
    MaxKills    \* model bound

VARIABLES
    lease,      \* the file at authority.lease
    prepared,   \* files that still have their link authority.lease.prepare-<token>
    aside,      \* aside[t]: the file at authority.lease.release-<t>
    kept,       \* kept[p]: the file that p put under a name of its own to restore it
    stray,      \* files that stayed under such a name
    host,       \* who wrote host-id
    candidate,  \* the candidate that host-id is still linked with
    known,      \* known[p]: the host-id that p goes by
    pc,
    aim,        \* aim[p]: the token whose lease p removes
    dead, regime, served, killed

nameVars == <<lease, prepared, aside, kept, stray, host, candidate>>
fileLeaseVars == <<nameVars, known, pc, aim, dead, regime, served, killed>>

Steps == {"host", "hostPeer", "hostLink", "hostUnlink", "start", "unstage", "confirm", "inspect", "normalize",
          "move", "unlink", "check", "remove", "stash", "restore", "unstash", "hold", "release", "done", "dead"}
Tokens == Procs \cup {None}

TypeOK ==
    /\ {lease, host, candidate} \subseteq Tokens /\ prepared \cup stray \subseteq Procs
    /\ {aside, kept, known, aim} \subseteq [Procs -> Tokens]
    /\ pc \in [Procs -> Steps] /\ killed \subseteq dead /\ dead \cup served \subseteq Procs

NoFiles ==
    /\ lease = None /\ host = None /\ candidate = None
    /\ prepared = {} /\ stray = {}
    /\ aside = [t \in Procs |-> None] /\ kept = [p \in Procs |-> None]
    /\ known = [p \in Procs |-> None] /\ aim = [p \in Procs |-> None]
Init ==
    /\ NoFiles /\ pc = [p \in Procs |-> "host"]
    /\ dead = {} /\ served = {} /\ killed = {} /\ regime \in FileRegimes

At(p, l) == pc[p] = l
Goto(p, l) == pc' = [pc EXCEPT ![p] = l]
Quiet == UNCHANGED <<dead, regime, served, killed>>
HostFrame == UNCHANGED <<host, candidate, known>>
LeaseFrame == UNCHANGED <<lease, prepared, aside, kept, stray, aim>>

\* The attempt ended, with whatever it left behind; or it starts another round.
Ended(p) == Goto(p, "done") /\ aim' = [aim EXCEPT ![p] = None]
Again(p) == Goto(p, "start") /\ aim' = [aim EXCEPT ![p] = None]
Over(p) == IF aim[p] = p THEN Ended(p) ELSE Again(p)

-------------------------------------------------------------------------------
(* host-id, which every process takes from one file. *)

ReadHost(p) ==
    /\ At(p, "host")
    /\ IF host = None THEN Goto(p, "hostLink") /\ UNCHANGED known
       ELSE IF candidate # None THEN Goto(p, "hostPeer") /\ UNCHANGED known
       ELSE Goto(p, "start") /\ known' = [known EXCEPT ![p] = host]
    /\ UNCHANGED <<host, candidate>> /\ LeaseFrame /\ Quiet

\* The link of an interrupted publication is taken away by whoever reads.
UnlinkPeer(p) ==
    /\ At(p, "hostPeer") /\ candidate' = None
    /\ IF candidate # None THEN Goto(p, "start") /\ known' = [known EXCEPT ![p] = host]
       ELSE Goto(p, "hostLink") /\ UNCHANGED known
    /\ UNCHANGED host /\ LeaseFrame /\ Quiet

LinkHost(p) ==
    /\ At(p, "hostLink")
    /\ IF host = None THEN host' = p /\ candidate' = p /\ Goto(p, "hostUnlink")
       ELSE Goto(p, "host") /\ UNCHANGED <<host, candidate>>
    /\ UNCHANGED known /\ LeaseFrame /\ Quiet

UnlinkCandidate(p) ==
    /\ At(p, "hostUnlink") /\ candidate' = None
    /\ known' = [known EXCEPT ![p] = p] /\ Goto(p, "start")
    /\ UNCHANGED host /\ LeaseFrame /\ Quiet

-------------------------------------------------------------------------------
(* The names of a file. *)

Peers(i) == {t \in Procs : aside[t] = i} \cup (prepared \cap {i})
Links(i) ==
    Cardinality({t \in Procs : aside[t] = i}) + Cardinality({p \in Procs : kept[p] = i})
    + (IF i \in prepared THEN 1 ELSE 0) + (IF i \in stray THEN 1 ELSE 0) + (IF lease = i THEN 1 ELSE 0)

\* readOwner: one name, or two of which the other carries the owner's token.
ReadsAlone(i) == i # None /\ Links(i) = 1
ReadsLinked(i) ==
    /\ i # None
    /\ Links(i) = 1 \/ (Links(i) = 2 /\ Peers(i) = {i})

ConclusivelyDead(p, o) == o \in dead /\ known[p] = known[o]

-------------------------------------------------------------------------------
(* withRepositoryLease, for a lease that is a file. *)

Link(p) ==
    /\ At(p, "start") /\ prepared' = prepared \cup (IF lease = None THEN {p} ELSE {})
    /\ IF lease = None THEN lease' = p /\ Goto(p, "unstage")
       ELSE Goto(p, "inspect") /\ UNCHANGED lease
    /\ UNCHANGED <<aside, kept, aim, stray>> /\ HostFrame /\ Quiet

\* Without the staging link the call fails and leaves the lease.
Unstage(p) ==
    /\ At(p, "unstage") /\ prepared' = prepared \ {p}
    /\ IF p \in prepared THEN Goto(p, "confirm") /\ UNCHANGED aim ELSE Ended(p)
    /\ UNCHANGED <<lease, aside, kept, stray>> /\ HostFrame /\ Quiet

Confirm(p) ==
    /\ At(p, "confirm")
    /\ IF lease = p /\ ReadsAlone(p) THEN Goto(p, "hold") /\ UNCHANGED aim ELSE Ended(p)
    /\ UNCHANGED nameVars /\ UNCHANGED known /\ Quiet

GiveUp(p) ==
    /\ regime.giveUp /\ At(p, "start") /\ Ended(p)
    /\ UNCHANGED nameVars /\ UNCHANGED known /\ Quiet

\* The callback runs, and ends after its tracked operations settled.
Run(p) ==
    /\ At(p, "hold") /\ served' = served \cup {p} /\ Goto(p, "release")
    /\ UNCHANGED <<nameVars, known, aim, dead, regime, killed>>

\* releaseOwnedFileLease, up to its rename.
Release(p) ==
    /\ At(p, "release")
    /\ IF lease = p /\ ReadsAlone(p) THEN Goto(p, "move") /\ aim' = [aim EXCEPT ![p] = p] ELSE Ended(p)
    /\ UNCHANGED nameVars /\ UNCHANGED known /\ Quiet

-------------------------------------------------------------------------------
(* tryReclaimFileLease; a removal has no lock of its own. *)

Reclaiming(p) == pc[p] \in {"normalize", "move", "unlink", "check", "remove", "stash", "restore", "unstash"} /\ aim[p] # p

\* A name that is neither a staging link nor a release ends the attempt.
Inspect(p) ==
    /\ At(p, "inspect")
    /\ IF lease = None THEN Again(p)
       ELSE IF ~ReadsLinked(lease) THEN Ended(p)
       ELSE IF ConclusivelyDead(p, lease) /\ (regime.lone => \A q \in Procs \ {p} : ~Reclaiming(q))
       THEN Goto(p, "normalize") /\ aim' = [aim EXCEPT ![p] = lease]
       ELSE Again(p)
    /\ UNCHANGED nameVars /\ UNCHANGED known /\ Quiet

\* normalizeInterruptedClaimLink: of two names only the one with the token of
\* the dead owner goes; then the owner is read again.
Normalize(p) ==
    LET t == aim[p]
        own == Links(lease) = 2 /\ lease = t /\ ((t \in prepared) # (aside[t] = t))
    IN  /\ At(p, "normalize")
        /\ prepared' = IF own THEN prepared \ {t} ELSE prepared
        /\ aside' = IF own /\ aside[t] = t THEN [aside EXCEPT ![t] = None] ELSE aside
        /\ IF lease = None THEN Again(p)
           ELSE IF ~own /\ Links(lease) # 1 THEN Ended(p)
           ELSE IF lease = t THEN Goto(p, "move") /\ UNCHANGED aim
           ELSE Again(p)
        /\ UNCHANGED <<lease, kept, stray>> /\ HostFrame /\ Quiet

-------------------------------------------------------------------------------
(* A rename to ".release-<token>", by its two system calls, and what follows. *)

\* lstat and link: a file with two names is not moved.
Move(p) ==
    LET free == aside[aim[p]] = None
    IN  /\ At(p, "move")
        /\ IF ReadsAlone(lease) /\ free
           THEN aside' = [aside EXCEPT ![aim[p]] = lease] /\ Goto(p, "unlink") /\ UNCHANGED aim
           ELSE Over(p) /\ UNCHANGED aside
        /\ UNCHANGED <<lease, prepared, kept, stray>> /\ HostFrame /\ Quiet

\* unlink takes whatever has the name by now.
Unlink(p) ==
    /\ At(p, "unlink") /\ lease' = None /\ Goto(p, "check")
    /\ UNCHANGED <<prepared, aside, kept, aim, stray>> /\ HostFrame /\ Quiet

\* Mutant: what was moved is removed unseen.
CheckTrusts(p) ==
    At(p, "check") /\ Goto(p, "remove") /\ UNCHANGED <<nameVars, known, aim>> /\ Quiet

Check(p) ==
    LET moved == aside[aim[p]]
    IN  /\ At(p, "check")
        /\ IF moved = None THEN Over(p)
           ELSE IF ~ReadsAlone(moved) THEN Ended(p)
           ELSE Goto(p, IF moved = aim[p] THEN "remove" ELSE "stash") /\ UNCHANGED aim
        /\ UNCHANGED nameVars /\ UNCHANGED known /\ Quiet

Remove(p) ==
    /\ At(p, "remove") /\ aside' = [aside EXCEPT ![aim[p]] = None] /\ Over(p)
    /\ UNCHANGED <<lease, prepared, kept, stray>> /\ HostFrame /\ Quiet

\* restoreQuarantinedLease: to a name of its own, and back to the lease unless
\* there is another by now, which is never replaced; nor is what took its former name.
Stash(p) ==
    /\ At(p, "stash")
    /\ IF ReadsAlone(aside[aim[p]])
       THEN /\ kept' = [kept EXCEPT ![p] = aside[aim[p]]] /\ aside' = [aside EXCEPT ![aim[p]] = None]
            /\ Goto(p, "restore") /\ UNCHANGED aim
       ELSE Over(p) /\ UNCHANGED <<aside, kept>>
    /\ UNCHANGED <<lease, prepared, stray>> /\ HostFrame /\ Quiet

Restore(p) ==
    LET free == aside[aim[p]] = None
    IN  /\ At(p, "restore")
        /\ IF lease = None
           THEN lease' = kept[p] /\ Goto(p, "unstash") /\ UNCHANGED <<aside, kept, stray, aim>>
           ELSE /\ aside' = IF free THEN [aside EXCEPT ![aim[p]] = kept[p]] ELSE aside
                /\ stray' = IF free THEN stray ELSE stray \cup {kept[p]}
                /\ kept' = [kept EXCEPT ![p] = None]
                /\ Over(p) /\ UNCHANGED lease
        /\ UNCHANGED prepared /\ HostFrame /\ Quiet

Unstash(p) ==
    /\ At(p, "unstash") /\ kept' = [kept EXCEPT ![p] = None] /\ Over(p)
    /\ UNCHANGED <<lease, prepared, aside, stray>> /\ HostFrame /\ Quiet

-------------------------------------------------------------------------------

HostStep(p) == ReadHost(p) \/ UnlinkPeer(p) \/ LinkHost(p) \/ UnlinkCandidate(p)
LeaseStep(p) == Link(p) \/ Unstage(p) \/ Confirm(p) \/ GiveUp(p) \/ Run(p) \/ Release(p)
RemovalStep(p) ==
    \/ Inspect(p) \/ Normalize(p) \/ Move(p) \/ Unlink(p) \/ Check(p) \/ Remove(p)
    \/ Stash(p) \/ Restore(p) \/ Unstash(p)

\* Where renames are prompt, no process comes between the two calls of another.
Between(p) == pc[p] \in {"unlink", "unstash"}
Step(p) ==
    /\ regime.prompt => \A q \in Procs \ {p} : ~Between(q)
    /\ HostStep(p) \/ LeaseStep(p) \/ RemovalStep(p)

\* SIGKILL between two system calls.
Kill(p) ==
    /\ Cardinality(killed) < MaxKills /\ pc[p] \in regime.killAt
    /\ killed' = killed \cup {p} /\ dead' = dead \cup {p}
    /\ Goto(p, "dead") /\ aim' = [aim EXCEPT ![p] = None]
    /\ UNCHANGED <<nameVars, known, regime, served>>

Exit(p) ==
    /\ At(p, "done") /\ dead' = dead \cup {p} /\ Goto(p, "dead")
    /\ UNCHANGED <<nameVars, known, aim, regime, served, killed>>

Next == \E p \in Procs : Step(p) \/ Kill(p) \/ Exit(p)

Spec == Init /\ [][Next]_fileLeaseVars

-------------------------------------------------------------------------------
(* Properties. *)

Holders == {p \in Procs : pc[p] = "hold"}

\* If no two processes remove a dead owner's lease at the same time, one
\* callback at a time runs, whatever system call is the last of a process.
LoneExclusion == regime.lone => Cardinality(Holders) <= 1

\* The lease of a running callback keeps a name if nobody comes between the two
\* calls of a rename.
LiveFileSurvives == regime.prompt \/ regime.lone => \A p \in Holders : Links(p) > 0

\* All processes go by one host-id, which proves the death of an owner.
HostIsOne == \A p \in Procs : known[p] \in {None, host}

\* An attempt that ended leaves no lease behind.
EndedLeavesNoFile == regime.lone => \A p \in Procs : pc[p] = "done" => lease # p

FileLeaseInv == TypeOK /\ HostIsOne /\ EndedLeavesNoFile

\* What every attempt that is not killed comes to where reclaimers keep apart.
Served(p) == regime.lone /\ ~regime.giveUp => p \in served \cup killed
===============================================================================
