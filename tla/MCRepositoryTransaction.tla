---- MODULE MCRepositoryTransaction ----
(* Small instances of RepositoryTransaction: two paths, three revisions. *)
EXTENDS RepositoryTransaction, TLC

CONSTANTS a, b, c

MCInodes == 1 .. 8
MCInitials == {1 :> a @@ 2 :> Nil}

\* An update with a create, a move, and a rewrite of the same bytes.
MCRequests == {1 :> b @@ 2 :> a, 1 :> Nil @@ 2 :> a, 1 :> a}
====
