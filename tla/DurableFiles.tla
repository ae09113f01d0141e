----------------------------- MODULE DurableFiles -----------------------------
(***************************************************************************)
(* The file-system ground that @neottia/repository-store stands on: for    *)
(* every canonical path, the directory entries that publication.ts gives   *)
(* it, as the running system sees them and as a power loss could leave     *)
(* them.                                                                   *)
(*                                                                         *)
(* Each path has its own directory state: the canonical name and the four  *)
(* private names publication.ts derives from it.  A directory operation    *)
(* takes effect at once in "cur" and becomes one more state that may be on *)
(* the disk ("dur"); syncDirectory leaves exactly the current one.  A      *)
(* process death keeps "cur"; a power loss replaces it by a member of      *)
(* "dur".                                                                  *)
(***************************************************************************)
EXTENDS Integers, FiniteSets

CONSTANTS
    NumPaths,   \* canonical paths 1..NumPaths, in canonical sort order
    Revs,       \* byte revisions (sha-256 of the content)
    Nil,        \* the revision of a path that does not exist
    Torn,       \* the revision of a file whose write did not finish
    Inodes      \* inode numbers, positive

ASSUME PathsAssumption == NumPaths \in Nat \ {0}
ASSUME RevsAssumption == Nil \notin Revs /\ Torn \notin Revs /\ Nil # Torn
ASSUME InodesAssumption == Inodes \subseteq Nat \ {0}

VARIABLES
    cur,        \* cur[p]: the directory entries of path p now
    dur         \* dur[p]: the states those entries may have after a power loss

dirVars == <<cur, dur>>

Paths == 1 .. NumPaths

Content == Revs \cup {Nil, Torn}

\* A file is its content and its inode; NoFile is a name that does not exist.
File == [rev : Content, ino : Nat]
NoFile == [rev |-> Nil, ino |-> 0]
Exists(f) == f.rev # Nil

\* The canonical name; the temporary and evacuation names of a publication of
\* it; the evacuation names of the removals that recovery makes of those two.
Slots == {"dest", "tmp", "evac", "tmpEvac", "evacEvac"}
Dir == [Slots -> File]

EvacuatedName(s) ==
    CASE s = "dest" -> "evac"
      [] s = "tmp"  -> "tmpEvac"
      [] OTHER      -> "evacEvac"

\* sameIdentity: device and inode.
SameIdentity(f, g) == Exists(f) /\ Exists(g) /\ f.ino = g.ino

\* assertSafeRegular: a regular file with one name.
SinglyLinked(d, s) == \A t \in Slots : SameIdentity(d[s], d[t]) => t = s

UsedInodes(p) == {d[s].ino : d \in dur[p] \cup {cur[p]}, s \in Slots}
IsFreshInode(p, i) ==
    /\ i \in Inodes \ UsedInodes(p)
    /\ \A j \in Inodes \ UsedInodes(p) : i <= j

DirTypeOK ==
    /\ cur \in [Paths -> Dir]
    /\ dur \in [Paths -> SUBSET Dir]

DirInit(canonical) ==
    /\ cur = [p \in Paths |->
                [s \in Slots |->
                    IF s = "dest" /\ canonical[p] # Nil
                    THEN [rev |-> canonical[p], ino |-> 1]
                    ELSE NoFile]]
    /\ dur = [p \in Paths |-> {cur[p]}]

-------------------------------------------------------------------------------
(* Operations on the directory of one path. *)

SetDir(p, d) ==
    /\ cur' = [cur EXCEPT ![p] = d]
    /\ dur' = [dur EXCEPT ![p] = @ \cup {d}]

SetEntry(p, s, f) == SetDir(p, [cur[p] EXCEPT ![s] = f])
Unlink(p, s) == SetEntry(p, s, NoFile)
Rename(p, s, t) == SetDir(p, [cur[p] EXCEPT ![s] = NoFile, ![t] = cur[p][s]])
Link(p, s, t) == SetEntry(p, t, cur[p][s])

\* writeFileSync and syncFileDescriptor on an open temporary: the bytes are on
\* the disk wherever the directory entry is.
WriteAndSyncFile(p, s, r) ==
    LET filled(d) == IF d[s].rev = Torn THEN [d EXCEPT ![s] = [rev |-> r, ino |-> @.ino]] ELSE d
    IN  /\ cur' = [cur EXCEPT ![p] = filled(@)]
        /\ dur' = [dur EXCEPT ![p] = {filled(d) : d \in @}]

SyncDirectory(p) ==
    /\ dur' = [dur EXCEPT ![p] = {cur[p]}]
    /\ UNCHANGED cur

\* A power loss: each directory comes back in one of its possible states.
LoseUnsynced ==
    /\ cur' \in {c \in [Paths -> UNION {dur[p] : p \in Paths}] :
                    \A p \in Paths : c[p] \in dur[p]}
    /\ dur' = [p \in Paths |-> {cur'[p]}]
===============================================================================
