---- MODULE MCRepositoryLease ----
(* Small instances of AuthorityLease: three contending processes. *)
EXTENDS AuthorityLease, TLC

\* Orderly histories, and those where attempts may give up and every system
\* call may be the last.
MCRegimes ==
    {[giveUp |-> FALSE, killAt |-> {"checkClaim", "rmClaim", "hold", "release"}],
     [giveUp |-> TRUE, killAt |-> PCs \ {"start", "inspectClaim", "done", "dead"}]}

\* Any system call may be the last; reclaimers of a file lease keep apart, or
\* only renames are undisturbed.
SystemCalls == {"host", "hostPeer", "hostLink", "hostUnlink", "start", "unstage", "confirm", "inspect", "normalize",
                "move", "unlink", "check", "remove", "stash", "restore", "unstash", "hold", "release"}
MCFileRegimes ==
    {[giveUp |-> lone = FALSE, lone |-> lone, prompt |-> ~lone, killAt |-> SystemCalls] : lone \in BOOLEAN}

\* The owner of a lock directory dies before it wrote owner.json.
UnwrittenOwner == {[giveUp |-> FALSE, killAt |-> {"openOwner"}]}

\* The owner of a file lease dies, and nothing keeps its reclaimers apart.
DeadOwner == {[giveUp |-> FALSE, lone |-> FALSE, prompt |-> FALSE, killAt |-> {"hold"}]}
Contenders == Permutations(Procs)
====
