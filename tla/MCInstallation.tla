---- MODULE MCInstallation ----
(* Small instances of InstallationTransaction: two files, three contents. *)
EXTENDS InstallationTransaction, TLC

CONSTANTS a, b, c

MCInitials == {1 :> a @@ 2 :> Nil}

\* An update with a create, a removal with a create, and one file alone.
MCRequests == {1 :> b @@ 2 :> a, 1 :> Nil @@ 2 :> a, 2 :> b}

\* One run after another, two of them killed; runs at the same time and an
\* operator; runs at the same time, one of them killed.
MCRegimes ==
    {[together |-> FALSE, kills |-> 2, edits |-> 0],
     [together |-> TRUE, kills |-> 0, edits |-> 1],
     [together |-> TRUE, kills |-> 1, edits |-> 0]}
RunSymmetry == Permutations(Runs)
====
