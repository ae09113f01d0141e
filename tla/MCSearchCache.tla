---------------------------- MODULE MCSearchCache ----------------------------
(* Small instances of SearchCache: calls on a catalog of one item. *)
EXTENDS SearchCache, TLC

CONSTANTS p, q

\* Pages of one and two rows, and rows that do and do not fit half a page.
MCLimits == [rows : 1..2, bytes : 2..4]

MCSymmetry == Permutations({p, q})
==============================================================================
