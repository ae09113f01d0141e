------------------------------ MODULE AuthorityLease ------------------------------
(***************************************************************************)
(* withRepositoryLease on either kind of platform: the lease is a          *)
(* directory where one can be renamed without replacing (Linux, macOS,     *)
(* Windows), and a regular file where only files can (FreeBSD).  What it   *)
(* promises is the same.                                                   *)
(***************************************************************************)
EXTENDS RepositoryLease

CONSTANT FileRegimes

ASSUME FileRegimesAssumption == \A r \in FileRegimes : {r.giveUp, r.lone, r.prompt} \subseteq BOOLEAN

VARIABLES platform, lease, prepared, aside, kept, stray, host, candidate, known, aim

File == INSTANCE FileLease

fileOnlyVars == <<lease, prepared, aside, kept, stray, host, candidate, known, aim>>
directoryOnlyVars == <<fileVars, job, seen, held>>
authorityVars == <<vars, platform, fileOnlyVars>>

\* The backend of the platform says which kind it is (leaseArtifact).
AuthorityInit ==
    \/ platform = "directory" /\ Init /\ File!NoFiles
    \/ platform = "file" /\ File!Init /\ NoDirectories

OnDirectory(A) == platform = "directory" /\ A /\ UNCHANGED <<platform, fileOnlyVars>>
OnFile(A) == platform = "file" /\ A /\ UNCHANGED <<platform, directoryOnlyVars>>

AuthorityNext == OnDirectory(Next) \/ OnFile(File!Next)

\* Every process that is not killed keeps running.
AuthoritySpec ==
    /\ AuthorityInit /\ [][AuthorityNext]_authorityVars
    /\ \A p \in Procs : WF_authorityVars(OnDirectory(Step(p)) \/ OnFile(File!Step(p)))

-------------------------------------------------------------------------------
(* Properties. *)

\* On either platform the records are well formed, all processes of a file
\* lease go by one host-id, and an attempt that ended leaves nothing that would
\* stop the next one (where it is orderly, or reclaimers keep apart).
AuthorityInv == IF platform = "directory" THEN LeaseInv ELSE File!FileLeaseInv

\* One callback at a time runs: in an orderly history of a directory lease, and
\* in a history of a file lease whose reclaimers keep apart, wherever processes die.
AuthorityExclusion == IF platform = "directory" THEN OrderlyExclusion ELSE File!LoneExclusion

\* Whatever is mistaken for a leftover, the lease of a callback that runs is not
\* deleted, as long as nobody comes between the two calls of a file rename.
AuthoritySurvives == IF platform = "directory" THEN LiveLeaseSurvives ELSE File!LiveFileSurvives

\* Every attempt that neither gives up nor is killed runs its callback.
EveryAttemptServed == \A p \in Procs : <>(IF platform = "directory" THEN Served(p) ELSE File!Served(p))
===============================================================================
