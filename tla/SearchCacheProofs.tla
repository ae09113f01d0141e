--------------------------- MODULE SearchCacheProofs ---------------------------
(***************************************************************************)
(* Safety of the disposable cache, for any number of calls, any catalog,   *)
(* any crashes and any edits; and that what verifies its rows, page by     *)
(* page, row by row or id by id, accepts the projection and nothing else,  *)
(* for any number of rows and any limits.                                  *)
(***************************************************************************)
EXTENDS SearchCache, FiniteSetTheorems, FunctionTheorems, SequenceTheorems, WellFoundedInduction, TLAPS

-------------------------------------------------------------------------------
(* Types. *)

LEMMA InitTypeOK == Init => TypeOK
<1> SUFFICES ASSUME Init PROVE TypeOK
  OBVIOUS
<1> USE DEF Init, TypeOK
<1>1. db \in Files \cup {None} /\ IdOf(db) \in {0, None}
  <2>1. 0 \in FileIds
    BY BoundsAssumption DEF FileIds
  <2>2. ASSUME NEW c \in Catalogs PROVE [id |-> 0, data |-> Projection(c, 0)] \in Files
    BY <2>1 DEF Files, Contents, Projection
  <2> QED BY <2>2 DEF IdOf
<1>2. /\ pc \in [Procs -> PCs]
      /\ \A p \in Procs : pc[p] \notin Over \cup {"start"} <=> holder = p
  BY NoneAssumption DEF PCs, Over
<1>3. snap \in [Procs -> [db : FileIds \cup {None}, side : FileIds \cup {None}]]
  OBVIOUS
<1>4. old \subseteq FileIds /\ ids \subseteq FileIds /\ kills \in 0..MaxKills /\ edits \in 0..MaxEdits
  BY <1>1, BoundsAssumption DEF FileIds
<1>5. op \in [Procs -> {"search", "check", "reset"}]
  OBVIOUS
<1>6. /\ tmp \in [Procs -> Contents \cup {None, Torn}] /\ evac \in [Procs -> Files \cup {None}]
      /\ pub \in [Procs -> {"none", "prepare", "active", "cleanup"}]
      /\ manifest \in [Procs -> SUBSET (Contents \cup {None})]
      /\ loaded \in [Procs -> Catalogs \cup {None}]
      /\ answer \in [Procs -> (SUBSET (Items \X Texts)) \cup {None}]
  OBVIOUS
<1> QED BY <1>1, <1>2, <1>3, <1>4, <1>5, <1>6

\* Only the call that holds the lease is under way; a step of it moves its own
\* program counter, and keeps or leaves the lease with it.
Control ==
    /\ pc \in [Procs -> PCs] /\ holder \in Procs \cup {None}
    /\ \A p \in Procs : pc[p] \notin Over \cup {"start"} <=> holder = p

Controlled(p) == Control' /\ \A q \in Procs \ {p} : pc'[q] = pc[q]

\* What Goto and End do to the control of a call that is under way.
LEMMA GotoControlled ==
    ASSUME Control, NEW p \in Procs, holder = p, NEW l \in PCs \ {"start"}, Goto(p, l),
           holder' = IF l \in Over THEN None ELSE holder
    PROVE  Controlled(p)
BY NoneAssumption DEF Control, Controlled, Goto

LEMMA StepControlled == ASSUME Control, NEW p \in Procs, Step(p) \/ Kill(p) PROVE Controlled(p)
<1> USE GotoControlled DEF Control, PCs, Over, End, Rest, History
<1>1. CASE Acquire(p) BY <1>1, NoneAssumption DEF Acquire, Controlled, Goto
<1>2. CASE Recovered(p) BY <1>2 DEF Recovered
<1>3. CASE Open(p) BY <1>3 DEF Open
<1>4. CASE Verify(p) BY <1>4 DEF Verify
<1>5. CASE Decide(p) BY <1>5 DEF Decide
<1>6. CASE Populate(p) BY <1>6 DEF Populate
<1>7. CASE Activate(p) BY <1>7 DEF Activate
<1>8. CASE Prepare(p) BY <1>8 DEF Prepare
<1>9. CASE ManifestIsActive(p) BY <1>9 DEF ManifestIsActive
<1>10. CASE CreateTemporary(p) \/ WriteTemporary(p) BY <1>10 DEF CreateTemporary, WriteTemporary
<1>11. CASE Evacuate(p) BY <1>11 DEF Evacuate, Undo
<1>12. CASE CheckEvacuated(p) BY <1>12 DEF CheckEvacuated, Undo
<1>13. CASE Link(p) BY <1>13 DEF Link, Undo
<1>14. CASE Unlink(p) BY <1>14 DEF Unlink, Undo
<1>15. CASE DropEvacuated(p) BY <1>15 DEF DropEvacuated
<1>16. CASE Query(p) BY <1>16 DEF Query
<1>17. CASE Reread(p) BY <1>17 DEF Reread
<1>18. CASE Close(p) BY <1>18 DEF Close
<1>19. CASE Reset(p) BY <1>19 DEF Reset
<1>20. CASE MoveAway(p) BY <1>20 DEF MoveAway
<1>21. CASE RemoveMoved(p) BY <1>21 DEF RemoveMoved
<1>22. ASSUME NEW t \in Procs, RecoverTemporary(p, t) PROVE Controlled(p)
  BY <1>22 DEF RecoverTemporary, Recovering, Controlled
<1>23. ASSUME NEW t \in Procs, RecoverEvacuated(p, t) PROVE Controlled(p)
  BY <1>23 DEF RecoverEvacuated, Recovering, Controlled
<1>24. ASSUME NEW t \in Procs, Settle(p, t) \/ Cleanup(p, t) PROVE Controlled(p)
  BY <1>24 DEF Settle, Cleanup, Controlled
<1>25. CASE Kill(p) BY <1>25 DEF Kill
<1> QED BY <1>1, <1>2, <1>3, <1>4, <1>5, <1>6, <1>7, <1>8, <1>9, <1>10, <1>11, <1>12, <1>13, <1>14,
           <1>15, <1>16, <1>17, <1>18, <1>19, <1>20, <1>21, <1>22, <1>23, <1>24, <1>25 DEF Step
\* The other types.
Data ==
    /\ domain \in Domains /\ policy \in Policies
    /\ canon \in Catalogs /\ old \subseteq FileIds
    /\ db \in Files \cup {None} /\ side \in FileIds \cup {None}
    /\ tmp \in [Procs -> Contents \cup {None, Torn}] /\ evac \in [Procs -> Files \cup {None}]
    /\ pub \in [Procs -> {"none", "prepare", "active", "cleanup"}]
    /\ manifest \in [Procs -> SUBSET (Contents \cup {None})]
    /\ cand \subseteq Procs /\ op \in [Procs -> {"search", "check", "reset"}]
    /\ loaded \in [Procs -> Catalogs \cup {None}]
    /\ snap \in [Procs -> [db : FileIds \cup {None}, side : FileIds \cup {None}]]
    /\ rebuilt \subseteq Procs /\ answer \in [Procs -> (SUBSET (Items \X Texts)) \cup {None}]
    /\ kills \in 0..MaxKills /\ edits \in 0..MaxEdits /\ resets \in Nat
    /\ ids \subseteq FileIds

LEMMA TypeParts == TypeOK <=> Data /\ Control
BY DEF TypeOK, Data, Control

\* What a call has got: a catalog with its lease, the file it opened, an answer.
Begun ==
    \A p \in Procs :
        /\ pc[p] # "start" => loaded[p] \in Catalogs
        /\ pc[p] \in {"verify", "query", "reread"} => snap[p].db \in FileIds
        /\ pc[p] = "reread" => answer[p] \in SUBSET (Items \X Texts)

\* The candidates of a search, as long as the file it opened is there.
LEMMA CandidatesType ==
    ASSUME Data, Begun, NEW p \in Procs, pc[p] = "query", Continuous(p)
    PROVE  Candidates(p) \in SUBSET (Items \X Texts)
<1>1. loaded[p] \in [Items -> Texts]
  BY DEF Begun, Catalogs
<1>2. db # None
  BY NoneAssumption DEF Begun, Continuous, IdOf, FileIds
<1>3. db.data.rows \in [Items -> Texts]
  BY <1>2 DEF Data, Files, Contents, Catalogs
<1> QED BY <1>1, <1>3 DEF Candidates, Hits

LEMMA BegunPreserved == ASSUME Data, Control, Begun, [Next]_vars PROVE Begun'
<1> USE DEF Begun, Rest, History
<1>1. ASSUME NEW p \in Procs, Step(p) \/ Kill(p) PROVE Begun'
  <2>1. \A q \in Procs \ {p} : pc'[q] = pc[q]
    BY <1>1, StepControlled DEF Controlled
  <2>2. /\ \/ loaded' = loaded
           \/ loaded' = [loaded EXCEPT ![p] = canon]
        /\ pc[p] = "start" => loaded' = [loaded EXCEPT ![p] = canon]
    BY <1>1 DEF Step, Acquire, Recovered, Open, Verify, Decide, Populate, Activate, Prepare,
          ManifestIsActive,
                CreateTemporary, WriteTemporary, Evacuate, CheckEvacuated, Link, Unlink, DropEvacuated,
                Query, Reread, Close, Reset, MoveAway, RemoveMoved, RecoverTemporary, RecoverEvacuated,
                Settle, Cleanup, Kill, Recovering, Settling, Control, Over
  <2>3. \/ snap' = snap /\ (pc'[p] \in {"verify", "query", "reread"} => pc[p] \in {"verify", "query", "reread"})
        \/ /\ \A q \in Procs \ {p} : snap'[q] = snap[q]
           /\ pc'[p] \in {"verify", "query", "reread"} => snap'[p].db \in FileIds
    <3>1. CASE Open(p)
      BY <3>1 DEF Open, Data, Goto, Files, Control
    <3>2. CASE Decide(p) \/ Reset(p)
      BY <3>2 DEF Decide, Reset, Data, Goto, End, Control
    <3>3. CASE ~(Open(p) \/ Decide(p) \/ Reset(p))
      BY <1>1, <3>3 DEF Step, Acquire, Recovered, Verify, Populate, Activate, Prepare,
            ManifestIsActive,
                CreateTemporary, WriteTemporary, Evacuate, CheckEvacuated, Link, Unlink, DropEvacuated,
                Query, Reread, Close, MoveAway, RemoveMoved, RecoverTemporary, RecoverEvacuated,
                Settle, Cleanup, Kill, Goto, End, Undo, Control
    <3> QED BY <3>1, <3>2, <3>3
  <2>4. \/ answer' = answer /\ (pc'[p] = "reread" => pc[p] = "reread")
        \/ /\ \A q \in Procs \ {p} : answer'[q] = answer[q]
           /\ pc'[p] = "reread" => answer'[p] \in SUBSET (Items \X Texts)
    <3>1. CASE Query(p)
      BY <3>1, CandidatesType DEF Query, Data, Goto, End, Control
    <3>2. CASE Reread(p)
      BY <3>2 DEF Reread, Data, Goto, End, Control
    <3>3. CASE ~(Query(p) \/ Reread(p))
      BY <1>1, <3>3 DEF Step, Acquire, Recovered, Open, Verify, Decide, Populate, Activate,
            Prepare, ManifestIsActive,
                CreateTemporary, WriteTemporary, Evacuate, CheckEvacuated, Link, Unlink, DropEvacuated,
                Close, Reset, MoveAway, RemoveMoved, RecoverTemporary, RecoverEvacuated,
                Settle, Cleanup, Kill, Goto, End, Undo, Control
    <3> QED BY <3>1, <3>2, <3>3
  <2>5. \A q \in Procs : pc'[q] # "start" => loaded'[q] \in Catalogs
    BY <2>1, <2>2 DEF Data
  <2>6. \A q \in Procs : pc'[q] \in {"verify", "query", "reread"} => snap'[q].db \in FileIds
    BY <2>1, <2>3
  <2>7. \A q \in Procs : pc'[q] = "reread" => answer'[q] \in SUBSET (Items \X Texts)
    BY <2>1, <2>4
  <2> QED BY <2>5, <2>6, <2>7
<1>2. CASE EditCanon \/ EditCache \/ UNCHANGED vars
  BY <1>2 DEF EditCanon, EditCache, vars
<1> QED BY <1>1, <1>2 DEF Next

LEMMA ProjectionType ==
    ASSUME Begun, NEW p \in Procs, pc[p] # "start" PROVE Projection(loaded[p], p) \in Contents
BY DEF Begun, Projection, Contents, FileIds

LEMMA DataPreserved == ASSUME Data, Control, Begun, [Next]_vars PROVE Data'
<1> USE DEF Data, History, Rest, NoFiles, publication
<1>1. ASSUME NEW p \in Procs, Acquire(p) PROVE Data'
  BY <1>1 DEF Acquire
<1>2. ASSUME NEW p \in Procs, Recovered(p) PROVE Data'
  BY <1>2 DEF Recovered
<1>3. ASSUME NEW p \in Procs, Open(p) PROVE Data'
  <2>1. /\ side' \in FileIds \cup {None}
        /\ snap' \in [Procs -> [db : FileIds \cup {None}, side : FileIds \cup {None}]]
    BY <1>3 DEF Open, Files
  <2> QED BY <1>3, <2>1 DEF Open
<1>4. ASSUME NEW p \in Procs, Verify(p) PROVE Data'
  BY <1>4 DEF Verify, Closes
<1>5. ASSUME NEW p \in Procs, Decide(p) PROVE Data'
  <2>1. snap' \in [Procs -> [db : FileIds \cup {None}, side : FileIds \cup {None}]]
    BY <1>5 DEF Decide, IdOf, Files
  <2> QED BY <1>5, <2>1 DEF Decide
<1>6. ASSUME NEW p \in Procs, Populate(p) \/ Activate(p) \/ ManifestIsActive(p) PROVE Data'
  BY <1>6 DEF Populate, Activate, ManifestIsActive, RemovesSidecars
<1>7. ASSUME NEW p \in Procs, Prepare(p) PROVE Data'
  <2>1. manifest' \in [Procs -> SUBSET (Contents \cup {None})]
    BY <1>7, ProjectionType DEF Prepare, Files
  <2> QED BY <1>7, <2>1 DEF Prepare
<1>8. ASSUME NEW p \in Procs, CreateTemporary(p) \/ WriteTemporary(p) PROVE Data'
  BY <1>8, ProjectionType DEF CreateTemporary, WriteTemporary
<1>9. ASSUME NEW p \in Procs, Evacuate(p) \/ CheckEvacuated(p) PROVE Data'
  BY <1>9 DEF Evacuate, CheckEvacuated, Restores, Undo
<1>10. ASSUME NEW p \in Procs, Link(p) PROVE Data'
  <2>1. db' \in Files \cup {None} /\ ids' \subseteq FileIds
    BY <1>10, ProjectionType DEF Link, Files, FileIds
  <2> QED BY <1>10, <2>1 DEF Link, Undo
<1>11. ASSUME NEW p \in Procs, Unlink(p) \/ DropEvacuated(p) PROVE Data'
  BY <1>11 DEF Unlink, DropEvacuated, Undo
<1>12. ASSUME NEW p \in Procs, Query(p) \/ Reread(p) PROVE Data'
  <2>1. answer' \in [Procs -> (SUBSET (Items \X Texts)) \cup {None}]
    BY <1>12, CandidatesType DEF Query, Reread, StillCanonical, Begun
  <2>2. loaded' \in [Procs -> Catalogs \cup {None}]
    BY <1>12 DEF Query, Reread
  <2> QED BY <1>12, <2>1, <2>2 DEF Query, Reread
<1>13. ASSUME NEW p \in Procs, Close(p) \/ Reset(p) PROVE Data'
  <2>1. /\ side' \in FileIds \cup {None}
        /\ snap' \in [Procs -> [db : FileIds \cup {None}, side : FileIds \cup {None}]]
    BY <1>13 DEF Close, Reset, Closes, IdOf, Files
  <2> QED BY <1>13, <2>1 DEF Close, Reset
<1>14. ASSUME NEW p \in Procs, MoveAway(p) \/ RemoveMoved(p) PROVE Data'
  BY <1>14 DEF MoveAway, RemoveMoved, Restores
<1>15. ASSUME NEW p \in Procs, NEW t \in Procs,
              RecoverTemporary(p, t) \/ RecoverEvacuated(p, t) \/ Settle(p, t) \/ Cleanup(p, t)
       PROVE  Data'
  <2>1. CASE RecoverTemporary(p, t)
    BY <2>1 DEF RecoverTemporary
  <2>2. CASE RecoverEvacuated(p, t)
    BY <2>2 DEF RecoverEvacuated, RestoreEvacuated
  <2>3. CASE Settle(p, t) \/ Cleanup(p, t)
    BY <2>3 DEF Settle, Cleanup
  <2> QED BY <1>15, <2>1, <2>2, <2>3
<1>16. ASSUME NEW p \in Procs, Kill(p) PROVE Data'
  BY <1>16, BoundsAssumption DEF Kill
<1>17. CASE EditCanon
  BY <1>17, BoundsAssumption DEF EditCanon
<1>18. CASE EditCache
  <2>1. edits + 1 \in FileIds /\ edits' \in 0..MaxEdits
    BY <1>18, BoundsAssumption DEF EditCache, FileIds
  <2>2. Foreign(canon) \subseteq Contents
    <3>1. ASSUME NEW b \in BOOLEAN, NEW c \in Catalogs
          PROVE  [ours |-> b, digest |-> canon, rows |-> c, by |-> edits + 1] \in Contents
      BY <2>1 DEF Contents
    <3>2. canon \in Catalogs
      OBVIOUS
    <3>3. SUFFICES ASSUME NEW d \in Foreign(canon) PROVE d \in Contents
      OBVIOUS
    <3>4. PICK b \in BOOLEAN, c \in Catalogs : d = [ours |-> b, digest |-> canon, rows |-> c, by |-> edits + 1]
      BY <3>2, Zenon DEF Foreign
    <3> QED BY <3>1, <3>4, Zenon
  <2>3. ASSUME NEW d \in Foreign(canon) PROVE [id |-> edits + 1, data |-> d] \in Files
    BY <2>1, <2>2 DEF Files
  <2>4. db' \in Files \cup {None}
    BY <1>18, <2>3 DEF EditCache
  <2> QED BY <1>18, <2>1, <2>4 DEF EditCache
<1>19. CASE UNCHANGED vars
  BY <1>19 DEF vars
<1> QED BY <1>1, <1>2, <1>3, <1>4, <1>5, <1>6, <1>7, <1>8, <1>9, <1>10, <1>11, <1>12, <1>13, <1>14,
           <1>15, <1>16, <1>17, <1>18, <1>19 DEF Next, Step
-------------------------------------------------------------------------------
(* Answers. *)

\* A file that someone puts at the path has an identity of its own.
Older(id) == id \in Nat => id <= edits
IdsInv ==
    /\ Older(IdOf(db))
    /\ \A t \in Procs : Older(IdOf(evac[t])) /\ Older(snap[t].db)

IsAnswer(p) ==
    /\ answer[p] \subseteq Exactly(loaded[p])
    /\ domain # "issues" \/ edits = 0 => answer[p] = Exactly(loaded[p])

\* While the file that was verified is at the path, its rows are those of the
\* catalog; only a search answers.
AnswerInv ==
    \A p \in Procs :
        /\ pc[p] = "query" /\ Continuous(p) => db.data.rows = loaded[p]
        /\ pc[p] \notin Over \cup {"start"} /\ edits = 0 => loaded[p] = canon
        /\ pc[p] = "reread" => domain = "issues" /\ answer[p] = Exactly(loaded[p])
        /\ pc[p] \in {"reset", "move", "remove"} => op[p] = "reset"
        /\ pc[p] \in {"close", "done"} /\ op[p] = "search" => IsAnswer(p)

LEMMA IdsPreserved == ASSUME Data, Control, IdsInv, [Next]_vars PROVE IdsInv'
<1> USE DEF Data, History, Rest, NoFiles, publication, IdsInv
<1>1. ASSUME NEW p \in Procs, Open(p) \/ Decide(p) \/ Reset(p) PROVE IdsInv'
  <2>1. edits' = edits /\ IdOf(db') = IdOf(db) /\ evac' = evac
    BY <1>1 DEF Open, Decide, Reset, IdOf
  <2>2. \A q \in Procs : snap'[q].db \in {snap[q].db, IdOf(db)}
    BY <1>1 DEF Open, Decide, Reset, IdOf
  <2> QED BY <2>1, <2>2 DEF Older
<1>2. ASSUME NEW p \in Procs, Evacuate(p) \/ MoveAway(p) PROVE IdsInv'
  <2>1. /\ edits' = edits /\ snap' = snap /\ IdOf(db') \in {IdOf(db), None}
        /\ \A q \in Procs : IdOf(evac'[q]) \in {IdOf(evac[q]), IdOf(db)}
    BY <1>2 DEF Evacuate, MoveAway, IdOf
  <2> QED BY <2>1, NoneAssumption DEF Older
<1>3. ASSUME NEW p \in Procs, NEW t \in Procs, RecoverEvacuated(p, t) PROVE IdsInv'
  <2>1. /\ edits' = edits /\ snap' = snap /\ IdOf(db') \in {IdOf(db), IdOf(evac[t])}
        /\ \A q \in Procs : IdOf(evac'[q]) \in {IdOf(evac[q]), None}
    BY <1>3 DEF RecoverEvacuated, RestoreEvacuated, IdOf
  <2> QED BY <2>1, NoneAssumption DEF Older
<1>4. ASSUME NEW p \in Procs, CheckEvacuated(p) \/ RemoveMoved(p) \/ DropEvacuated(p) PROVE IdsInv'
  <2>1. /\ edits' = edits /\ snap' = snap /\ IdOf(db') \in {IdOf(db), IdOf(evac[p])}
        /\ \A q \in Procs : IdOf(evac'[q]) \in {IdOf(evac[q]), None}
    BY <1>4 DEF CheckEvacuated, RemoveMoved, DropEvacuated, Restores, IdOf
  <2> QED BY <2>1, NoneAssumption DEF Older
<1>5. ASSUME NEW p \in Procs, Link(p) PROVE IdsInv'
  <2>1. /\ edits' = edits /\ snap' = snap /\ evac' = evac /\ IdOf(db') \in {IdOf(db), p, None}
    BY <1>5 DEF Link, IdOf
  <2> QED BY <2>1, NoneAssumption DEF Older
<1>6. CASE EditCache \/ EditCanon
  <2>1. edits' = edits + 1 /\ snap' = snap /\ evac' = evac /\ IdOf(db') \in {IdOf(db), edits + 1, None}
    BY <1>6 DEF EditCache, EditCanon, IdOf
  <2> QED BY <2>1, NoneAssumption DEF Older
<1>7. ASSUME UNCHANGED <<db, evac, snap, edits>> PROVE IdsInv'
  BY <1>7 DEF Older
<1>8. ASSUME NEW p \in Procs, NEW t \in Procs,
             \/ Acquire(p) \/ Recovered(p) \/ Verify(p) \/ Populate(p) \/ Activate(p) \/ Prepare(p)
             \/ ManifestIsActive(p) \/ CreateTemporary(p) \/ WriteTemporary(p) \/ Unlink(p)
             \/ Query(p) \/ Reread(p) \/ Close(p) \/ Kill(p)
             \/ RecoverTemporary(p, t) \/ Settle(p, t) \/ Cleanup(p, t)
      PROVE  UNCHANGED <<db, evac, snap, edits>>
  BY <1>8 DEF Acquire, Recovered, Verify, Populate, Activate, Prepare, ManifestIsActive,
        CreateTemporary,
              WriteTemporary, Unlink, Query, Reread, Close, Kill, RecoverTemporary, Settle, Cleanup
<1>9. CASE UNCHANGED vars
  BY <1>7, <1>9 DEF vars
<1> QED BY <1>1, <1>2, <1>3, <1>4, <1>5, <1>6, <1>7, <1>8, <1>9 DEF Next, Step

LEMMA AnswerPreserved ==
    ASSUME Data, Control, Begun, IdsInv, AnswerInv, [Next]_vars PROVE AnswerInv'
<1>1. ASSUME NEW p \in Procs, Step(p) \/ Kill(p) PROVE AnswerInv'
  <2> USE DEF Rest, History
  <2>1. \A q \in Procs \ {p} : pc'[q] = pc[q] /\ (pc[q] \in Over \cup {"start"})
    <3>1. \A q \in Procs \ {p} : pc'[q] = pc[q]
      BY <1>1, StepControlled DEF Controlled
    <3>2. holder \in {p, None}
      BY <1>1 DEF Step, Acquire, Recovered, Open, Verify, Decide, Populate, Activate, Prepare,
            ManifestIsActive,
                CreateTemporary, WriteTemporary, Evacuate, CheckEvacuated, Link, Unlink, DropEvacuated,
                Query, Reread, Close, Reset, MoveAway, RemoveMoved, RecoverTemporary, RecoverEvacuated,
                Settle, Cleanup, Kill, Recovering, Settling, Control, Over
    <3> QED BY <3>1, <3>2, NoneAssumption DEF Control
  <2>2. /\ \A q \in Procs \ {p} : answer'[q] = answer[q] /\ loaded'[q] = loaded[q]
        /\ UNCHANGED <<domain, op, edits, canon>>
    BY <1>1 DEF Step, Acquire, Recovered, Open, Verify, Decide, Populate, Activate, Prepare,
          ManifestIsActive,
                CreateTemporary, WriteTemporary, Evacuate, CheckEvacuated, Link, Unlink, DropEvacuated,
                Query, Reread, Close, Reset, MoveAway, RemoveMoved, RecoverTemporary, RecoverEvacuated,
                Settle, Cleanup, Kill, Data
  <2> DEFINE Part(q) ==
        /\ pc[q] = "query" /\ Continuous(q) => db.data.rows = loaded[q]
        /\ pc[q] \notin Over \cup {"start"} /\ edits = 0 => loaded[q] = canon
        /\ pc[q] = "reread" => domain = "issues" /\ answer[q] = Exactly(loaded[q])
        /\ pc[q] \in {"reset", "move", "remove"} => op[q] = "reset"
        /\ pc[q] \in {"close", "done"} /\ op[q] = "search" => IsAnswer(q)
  <2>3. ASSUME NEW q \in Procs \ {p} PROVE Part(q)'
    BY <2>1, <2>2, <2>3 DEF AnswerInv, IsAnswer, Over, Exactly, Hits
  <2>4. Part(p)'
    <3>1. CASE Acquire(p)
      BY <3>1 DEF Acquire, Data, Control, Goto
    <3>2. CASE Verify(p)
      <4>1. CASE ~Continuous(p)
        BY <3>2, <4>1 DEF Verify, Data, Control, Goto, End, Over
      <4>2. CASE Continuous(p)
        <5>1. /\ pc'[p] \in {"query", "close", "stale", "broken"}
              /\ pc'[p] = "query" => db.data.rows = loaded[p]
              /\ pc'[p] = "close" => op[p] # "search"
              /\ UNCHANGED <<db, loaded, answer>>
          BY <3>2, <4>2 DEF Verify, Verified, RowsMatch, Control, Data, Goto
        <5>2. edits = 0 => loaded[p] = canon
          BY <3>2 DEF Verify, AnswerInv, Over
        <5> QED BY <5>1, <5>2, <2>2 DEF Over
      <4> QED BY <4>1, <4>2
    <3>3. CASE Query(p)
      <4>1. CASE ~Continuous(p)
        BY <3>3, <4>1 DEF Query, Data, Control, Goto, End, Over
      <4>2. CASE Continuous(p)
        <5>1. Candidates(p) = Exactly(loaded[p])
          BY <3>3, <4>2 DEF Query, AnswerInv, Candidates, Exactly, Hits
        <5> QED BY <3>3, <4>2, <5>1, <2>2 DEF Query, Data, Control, Goto, AnswerInv, Over,
              IsAnswer, Exactly, Hits
      <4> QED BY <4>1, <4>2
    <3>4. CASE Reread(p)
      <4>1. CASE ~Continuous(p)
        BY <3>4, <4>1 DEF Reread, Data, Control, Goto, End, Over
      <4>2. CASE Continuous(p)
        <5>1. answer[p] = Exactly(loaded[p]) /\ domain = "issues"
          BY <3>4 DEF Reread, AnswerInv
        <5>2. StillCanonical(p, canon) \subseteq Exactly(canon)
          BY <5>1 DEF StillCanonical, Exactly, Hits
        <5>3. edits = 0 => StillCanonical(p, canon) = Exactly(canon)
          BY <3>4, <5>1 DEF Reread, AnswerInv, StillCanonical, Exactly, Hits, Over
        <5> QED BY <3>4, <4>2, <5>1, <5>2, <5>3, <2>2 DEF Reread, Data, Control, Goto, Over,
              IsAnswer, Exactly, Hits
      <4> QED BY <4>1, <4>2
    <3>5. CASE Close(p)
      BY <3>5 DEF Close, Data, Control, Goto, End, Over, AnswerInv, IsAnswer, Exactly, Hits
    <3>6. CASE Recovered(p) \/ Reset(p) \/ MoveAway(p) \/ RemoveMoved(p)
      BY <3>6 DEF Recovered, Reset, MoveAway, RemoveMoved, Data, Control, Goto, End, Over, AnswerInv
    <3>7. CASE ~(Acquire(p) \/ Verify(p) \/ Query(p) \/ Reread(p) \/ Close(p) \/ Recovered(p) \/ Reset(p)
                  \/ MoveAway(p) \/ RemoveMoved(p))
      <4>1. /\ pc'[p] \notin {"query", "reread", "reset", "move", "remove", "close", "done"}
            /\ loaded' = loaded
            /\ pc'[p] \notin Over => pc[p] \notin Over \cup {"start"}
        BY <1>1, <3>7 DEF Step, Open, Decide, Populate, Activate, Prepare, ManifestIsActive,
                CreateTemporary, WriteTemporary, Evacuate, CheckEvacuated, Link, Unlink, DropEvacuated,
                RecoverTemporary, RecoverEvacuated, Recovering, Settling,
                Settle, Cleanup, Kill, Goto, End, Undo, Control, Over
      <4> QED BY <4>1, <2>2 DEF AnswerInv, Over
    <3> QED BY <3>1, <3>2, <3>3, <3>4, <3>5, <3>6, <3>7
  <2> QED BY <2>3, <2>4 DEF AnswerInv
<1>2. CASE EditCanon
  BY <1>2 DEF EditCanon, NoFiles, publication, AnswerInv, IsAnswer, Exactly, Hits, Continuous,
        IdOf, Data, Over
<1>3. CASE EditCache
  <2>1. \A q \in Procs : pc[q] = "query" => ~Continuous(q)'
    BY <1>3, NoneAssumption DEF EditCache, Begun, Continuous, IdOf, IdsInv, Older, Data, FileIds
  <2> QED BY <1>3, <2>1 DEF EditCache, AnswerInv, IsAnswer, Exactly, Hits, Data, Over
<1>4. CASE UNCHANGED vars
  BY <1>4 DEF vars, publication, AnswerInv, IsAnswer, Exactly, Hits, Continuous, IdOf, Over
<1> QED BY <1>1, <1>2, <1>3, <1>4 DEF Next

-------------------------------------------------------------------------------
(* Publications. *)

Quiet == {"start", "recover", "open", "verify", "stale", "broken", "populate", "activate", "prepare",
          "query", "reread", "close", "reset", "move", "remove"}
Publishing == {"create", "write", "evacuate", "check", "link", "unlink", "drop"}
AfterLink == {"unlink", "drop", "settle", "undo"} \cup Over

\* A file says who made it, and what a call made is a cache.
Marked(file) ==
    file # None =>
        /\ file.data.by = file.id
        /\ file.id \in Procs => file.id \in ids /\ file.data.ours

\* How far a call is and what its private names hold.  What it evacuated is the
\* file that it captured, or it has not been compared with it yet; the manifest
\* names that file and the one of the call itself, which is never evacuated by
\* the call.
PublicationInv(t) ==
    /\ pc[t] \in Quiet => pub[t] = "none"
    /\ pc[t] \in Publishing => pub[t] = "active"
    /\ pc[t] = "manifest" => pub[t] = "prepare"
    /\ pc[t] \in (Quiet \ {"remove"}) \cup {"manifest", "create", "write", "evacuate", "settle"} => evac[t] = None
    /\ pc[t] \in {"link", "unlink", "drop"} /\ evac[t] # None => evac[t].id = snap[t].db
    /\ pub[t] \in {"prepare", "cleanup"} => evac[t] = None
    /\ evac[t] # None => evac[t].id # t
    /\ pub[t] # "none" => \A revision \in manifest[t] : revision = None \/ revision.by \in {t, snap[t].db}
    /\ t \in ids => \/ pc[t] \in AfterLink
                    \/ t \in rebuilt /\ pc[t] \in {"open", "verify", "stale", "broken", "query", "reread", "close"}
    /\ pc[t] = "remove" \/ (pub[t] = "none" /\ evac[t] # None) => resets > 0

\* A call settles all other publications before it opens or replaces the cache.
AloneInv ==
    \A p \in Procs : pc[p] \notin {"start", "recover"} \cup Over => \A t \in Procs \ {p} : pub[t] = "none"

FilesInv ==
    /\ Marked(db) /\ \A t \in Procs : Marked(evac[t])
    /\ \A t \in Procs : PublicationInv(t)
    /\ AloneInv

\* What a call does not touch keeps its part of the invariant.
Untouched(q) ==
    /\ pc'[q] = pc[q] /\ evac'[q] = evac[q] /\ pub'[q] = pub[q] /\ manifest'[q] = manifest[q]
    /\ snap'[q] = snap[q] /\ (q \in ids' <=> q \in ids) /\ (q \in rebuilt => q \in rebuilt')
    /\ resets' >= resets

LEMMA UntouchedKeeps ==
    ASSUME Data, Data', NEW q \in Procs, PublicationInv(q), Untouched(q) PROVE PublicationInv(q)'
BY DEF Data, PublicationInv, Untouched

LEMMA MarkedStays ==
    ASSUME NEW file, Marked(file), ids \subseteq ids' PROVE file # None =>
        /\ file.data.by = file.id
        /\ file.id \in Procs => file.id \in ids' /\ file.data.ours
BY DEF Marked

LEMMA FilesPreserved ==
    ASSUME Data, Data', Control, Control', Begun, FilesInv, [Next]_vars PROVE FilesInv'
<1>1. ASSUME NEW p \in Procs, NEW t \in Procs,
             \/ Acquire(p) \/ Recovered(p) \/ Verify(p) \/ Populate(p) \/ Activate(p) 
             \/ Query(p) \/ Reread(p) \/ Close(p) \/ Kill(p)
             \/ Open(p) \/ Decide(p) \/ Reset(p)
      PROVE  FilesInv'
  <2> USE DEF Rest, History, NoFiles, publication
  <2>1. UNCHANGED <<evac, pub, manifest, ids, resets, db>> /\ rebuilt \subseteq rebuilt'
    BY <1>1 DEF Acquire, Recovered, Verify, Populate, Activate, Query, Reread, Close, Kill, Open,
          Decide, Reset
  <2>2. \A q \in Procs \ {p} : pc'[q] = pc[q] /\ snap'[q] = snap[q]
    BY <1>1 DEF Acquire, Recovered, Verify, Populate, Activate, Query, Reread, Close, Kill, Open,
          Decide, Reset,
                Goto, End, Data, Control
  <2>3. ASSUME NEW q \in Procs \ {p} PROVE PublicationInv(q)'
    BY <2>1, <2>2, UntouchedKeeps DEF Untouched, FilesInv, Data
  <2>4. PublicationInv(p)'
    <3>1. CASE Acquire(p) \/ Recovered(p)
      BY <3>1, <2>1 DEF Acquire, Recovered, PublicationInv, FilesInv, Quiet, Publishing, AfterLink,
            Over, Goto, End, Data, Control
    <3>2. CASE Verify(p) \/ Populate(p) \/ Activate(p)
      BY <3>2, <2>1 DEF Verify, Populate, Activate, PublicationInv, FilesInv, Quiet, Publishing,
            AfterLink, Over, Goto, End, Data, Control
    <3>3. CASE Query(p) \/ Reread(p) \/ Close(p) \/ Kill(p)
      BY <3>3, <2>1 DEF Query, Reread, Close, Kill, PublicationInv, FilesInv, Quiet, Publishing,
            AfterLink, Over, Goto, End, Data, Control
    <3>4. CASE Open(p)
      BY <3>4, <2>1 DEF Open, Publishing, Goto, Data, Control, Quiet, FilesInv, PublicationInv,
            AfterLink, Over
    <3>5. CASE Decide(p)
      <4>1. p \in ids => p \in rebuilt
        BY <3>5 DEF Decide, FilesInv, PublicationInv, AfterLink, Over
      <4>2. pc'[p] \in {"failed", "populate"} /\ (p \in ids => pc'[p] = "failed")
        BY <3>5, <4>1 DEF Decide, Goto, End, Control
      <4>3. UNCHANGED <<pub, evac, ids, resets, manifest>> /\ pc[p] \in {"stale", "broken"}
        BY <3>5 DEF Decide
      <4> QED BY <4>2, <4>3 DEF PublicationInv, FilesInv, Quiet, Publishing, AfterLink, Over
    <3>6. CASE Reset(p)
      <4>1. pc'[p] \in {"done", "move"} /\ pc[p] = "reset"
        BY <3>6 DEF Reset, Goto, End, Control
      <4>2. p \notin ids /\ evac[p] = None /\ pub[p] = "none"
        BY <4>1 DEF FilesInv, PublicationInv, Quiet, AfterLink, Over
      <4> QED BY <4>1, <4>2, <2>1 DEF PublicationInv, Quiet, Publishing, AfterLink, Over
    <3> QED BY <1>1, <3>1, <3>2, <3>3, <3>4, <3>5, <3>6
  <2>5. AloneInv'
    <3>1. \/ pc'[p] \in {"start", "recover"} \cup Over
          \/ \A q \in Procs \ {p} : pub[q] = "none"
      BY <1>1 DEF Acquire, Recovered, Verify, Populate, Activate, Query, Reread, Close, Kill, Open,
            Decide, Reset,
                Goto, End, Data, Control, FilesInv, AloneInv, PublicationInv, Over
    <3> QED BY <2>1, <2>2, <3>1 DEF FilesInv, AloneInv
  <2> QED BY <2>1, <2>3, <2>4, <2>5 DEF FilesInv, Marked
<1>2. ASSUME NEW p \in Procs,
             \/ Prepare(p) \/ ManifestIsActive(p) \/ CreateTemporary(p) \/ WriteTemporary(p) \/ Unlink(p)
             \/ Evacuate(p) \/ CheckEvacuated(p) \/ Link(p) \/ DropEvacuated(p) \/ MoveAway(p) \/ RemoveMoved(p)
      PROVE  FilesInv'
  <2> USE DEF Rest, History, NoFiles, publication
  <2>1. /\ snap' = snap /\ rebuilt' = rebuilt /\ ids \subseteq ids' /\ ids' \subseteq ids \cup {p}
        /\ resets' \in {resets, resets + 1}
        /\ \A q \in Procs \ {p} : pc'[q] = pc[q] /\ evac'[q] = evac[q] /\ pub'[q] = pub[q] /\ manifest'[q] = manifest[q]
    BY <1>2 DEF Prepare, ManifestIsActive, CreateTemporary, WriteTemporary, Unlink, Evacuate,
          CheckEvacuated, Link,
                DropEvacuated, MoveAway, RemoveMoved, Restores, Undo, Goto, End, Data, Control
  <2>2. ASSUME NEW q \in Procs \ {p} PROVE PublicationInv(q)'
    BY <2>1, UntouchedKeeps DEF Untouched, FilesInv, Data
  <2>3. Marked(db)' /\ \A q \in Procs : Marked(evac[q])'
    <3>1. CASE db' \in {db, evac[p], None} /\ \A q \in Procs : evac'[q] \in {evac[q], db, None}
      BY <2>1, <3>1 DEF FilesInv, Marked
    <3>2. CASE Link(p)
      BY <3>2, <2>1 DEF Link, FilesInv, Marked, Projection, Undo
    <3>3. CASE ~Link(p)
      BY <1>2, <3>1, <3>3 DEF Prepare, ManifestIsActive, CreateTemporary, WriteTemporary, Unlink,
            Evacuate, CheckEvacuated,
                DropEvacuated, MoveAway, RemoveMoved, Restores, Undo, Data
    <3> QED BY <3>2, <3>3
  <2>4. PublicationInv(p)'
    <3> USE DEF FilesInv, PublicationInv, Quiet, Publishing, AfterLink, Over, Goto, End, Data,
          Control
    <3>1. CASE Prepare(p)
      <4>1. CASE snap[p].db # IdOf(db)
        BY <3>1, <4>1 DEF Prepare
      <4>2. CASE snap[p].db = IdOf(db)
        <5>1. db # None => db.data.by = snap[p].db
          BY <4>2 DEF IdOf, Marked
        <5>2. manifest'[p] = {Projection(loaded[p], p), IF db = None THEN None ELSE db.data}
          BY <3>1, <4>2 DEF Prepare
        <5>3. \A revision \in manifest'[p] : revision = None \/ revision.by \in {p, snap[p].db}
          BY <5>1, <5>2 DEF Projection
        <5>4. pc'[p] = "manifest" /\ pub'[p] = "prepare" /\ evac'[p] = None /\ p \notin ids'
          BY <3>1, <4>2 DEF Prepare
        <5> HIDE DEF FilesInv, Quiet, Publishing, AfterLink, Over, Goto, End, Data, Control
        <5> QED BY <2>1, <5>3, <5>4 DEF Quiet, Publishing, AfterLink, Over
      <4> QED BY <4>1, <4>2
    <3>2. CASE ManifestIsActive(p) \/ CreateTemporary(p) \/ WriteTemporary(p)
      BY <3>2 DEF ManifestIsActive, CreateTemporary, WriteTemporary
    <3>3. CASE Unlink(p) \/ DropEvacuated(p)
      BY <3>3 DEF Unlink, DropEvacuated, Undo
    <3>4. CASE Evacuate(p)
      <4>1. p \notin ids
        BY <3>4 DEF Evacuate
      <4>2. db # None => db.id # p
        BY <4>1 DEF Marked
      <4> QED BY <3>4, <4>2 DEF Evacuate, Undo
    <3>5. CASE CheckEvacuated(p)
      BY <3>5 DEF CheckEvacuated, Undo, Restores, EvacuatedIsExpected
    <3>6. CASE Link(p)
      BY <3>6 DEF Link, Undo
    <3>7. CASE MoveAway(p)
      <4>1. p \notin ids
        BY <3>7 DEF MoveAway
      <4>2. db # None => db.id # p
        BY <4>1 DEF Marked
      <4>3. UNCHANGED <<pub, manifest, ids>> /\ pub[p] = "none" /\ resets' \in Nat
        BY <3>7 DEF MoveAway
      <4>4. \/ pc'[p] = "failed" /\ evac'[p] = None
            \/ pc'[p] = "remove" /\ resets' > 0 /\ (evac'[p] # None => evac'[p].id # p)
        BY <3>7, <4>2 DEF MoveAway
      <4> HIDE DEF FilesInv, Goto, End, Data, Control
      <4> QED BY <2>1, <4>1, <4>3, <4>4
    <3>8. CASE RemoveMoved(p)
      BY <3>8 DEF RemoveMoved, Restores
    <3> QED BY <1>2, <3>1, <3>2, <3>3, <3>4, <3>5, <3>6, <3>7, <3>8
  <2>5. AloneInv'
    <3>1. pc[p] \notin {"start", "recover"} \cup Over
      BY <1>2 DEF Prepare, ManifestIsActive, CreateTemporary, WriteTemporary, Unlink, Evacuate,
            CheckEvacuated, Link,
                DropEvacuated, MoveAway, RemoveMoved, Over
    <3>2. \A q \in Procs \ {p} : pc[q] \in {"start"} \cup Over
      BY <3>1 DEF Control
    <3> QED BY <2>1, <3>1, <3>2 DEF FilesInv, AloneInv
  <2> QED BY <2>2, <2>3, <2>4, <2>5 DEF FilesInv
<1>3. ASSUME NEW p \in Procs, NEW t \in Procs,
             RecoverTemporary(p, t) \/ RecoverEvacuated(p, t) \/ Settle(p, t) \/ Cleanup(p, t)
      PROVE  FilesInv'
  <2> USE DEF Rest, History, NoFiles, publication
  <2>1. /\ UNCHANGED <<snap, rebuilt, ids, resets>>
        /\ \A q \in Procs \ {p} : pc'[q] = pc[q]
        /\ \A q \in Procs \ {t} : evac'[q] = evac[q] /\ pub'[q] = pub[q] /\ manifest'[q] = manifest[q]
    BY <1>3 DEF RecoverTemporary, RecoverEvacuated, RestoreEvacuated, Settle, Cleanup, Goto, End,
          Data, Control
  <2>2. holder = p /\ pc[p] \in {"recover", "undo", "settle"} /\ pc'[p] \in {pc[p], "ambiguous"}
    BY <1>3 DEF RecoverTemporary, RecoverEvacuated, RestoreEvacuated, Settle, Cleanup, Settling,
          Recovering,
                Goto, End, Data, Control, Over
  <2>3. t # p => pc[t] \in {"start"} \cup Over
    BY <2>2 DEF Control
  <2>4. Marked(db)' /\ \A q \in Procs : Marked(evac[q])'
    <3>1. db' \in {db, evac[t]} /\ \A q \in Procs : evac'[q] \in {evac[q], None}
      BY <1>3 DEF RecoverTemporary, RecoverEvacuated, RestoreEvacuated, Settle, Cleanup, Data
    <3> QED BY <2>1, <3>1 DEF FilesInv, Marked
  <2>5. /\ evac'[t] \in {evac[t], None}
        /\ pub'[t] = pub[t] \/ (pub[t] = "active" /\ pub'[t] = "cleanup" /\ evac[t] = None)
             \/ (pub[t] \in {"prepare", "cleanup"} /\ pub'[t] = "none")
        /\ manifest'[t] = manifest[t] \/ pub'[t] = "none"
        /\ pub[t] # "none"
        /\ t = p => pc[p] \in {"undo", "settle"} \/ pub[t] = "none"
    BY <1>3 DEF RecoverTemporary, RecoverEvacuated, RestoreEvacuated, Settle, Cleanup, Settling,
          Recovering, Data,
                FilesInv, PublicationInv, Quiet
  <2>6. ASSUME NEW q \in Procs PROVE PublicationInv(q)'
    <3>1. CASE q # p /\ q # t
      BY <2>1, <3>1, UntouchedKeeps DEF Untouched, FilesInv, Data
    <3>2. CASE q = p /\ q # t
      BY <2>1, <2>2, <3>2 DEF FilesInv, PublicationInv, Quiet, Publishing, AfterLink, Over
    <3>3. CASE q = t
      BY <2>1, <2>2, <2>3, <2>5, <3>3 DEF FilesInv, PublicationInv, Quiet, Publishing, AfterLink,
            Over
    <3> QED BY <3>1, <3>2, <3>3
  <2>7. AloneInv'
    BY <2>1, <2>2, <2>3, <2>5 DEF FilesInv, AloneInv, Control, Over
  <2> QED BY <2>4, <2>6, <2>7 DEF FilesInv
<1>4. CASE EditCanon \/ UNCHANGED vars
  BY <1>4 DEF EditCanon, vars, NoFiles, publication, FilesInv, Marked, PublicationInv, AloneInv,
        Over
<1>5. CASE EditCache
  <2>1. Marked(db)'
    BY <1>5, NoneAssumption DEF EditCache, Marked, Foreign, Data
  <2>2. UNCHANGED <<evac, pub, manifest, snap, pc, ids, rebuilt, resets>>
    BY <1>5 DEF EditCache, publication
  <2> QED BY <2>1, <2>2 DEF FilesInv, Marked, PublicationInv, AloneInv, Over
<1> QED BY <1>1, <1>2, <1>3, <1>4, <1>5 DEF Next, Step
-------------------------------------------------------------------------------
(* What is lost, and what lies next to a cache. *)

\* The steps that move or remove a cache file.
Moves(p) ==
    \/ Evacuate(p) \/ CheckEvacuated(p) \/ Link(p) \/ DropEvacuated(p) \/ MoveAway(p) \/ RemoveMoved(p)
    \/ \E t \in Procs : RecoverEvacuated(p, t)

LEMMA OthersMoveNothing ==
    ASSUME NEW p \in Procs, Step(p) \/ Kill(p), ~Moves(p)
    PROVE  UNCHANGED <<db, evac, ids>>
BY DEF Moves, Step, Acquire, Recovered, Open, Verify, Decide, Populate, Activate, Prepare,
      ManifestIsActive,
       CreateTemporary, WriteTemporary, Unlink, Query, Reread, Close, Reset, Kill,
       RecoverTemporary, Settle, Cleanup, Rest, History, NoFiles, publication

LEMMA OnlyCapturedGoes ==
    ASSUME Data, Data', FilesInv, [Next]_vars, edits' = edits, NEW id \in Present \ Present'
    PROVE  \E t \in Procs : snap[t].db = id
<1> SUFFICES ASSUME \A t \in Procs : snap[t].db # id PROVE FALSE
  OBVIOUS
<1>1. id # None /\ (id = IdOf(db) \/ \E t \in Procs : id = IdOf(evac[t]))
  BY DEF Present
<1>2. id # IdOf(db') /\ \A t \in Procs : id # IdOf(evac'[t])
  BY <1>1 DEF Present
<1>3. ASSUME NEW p \in Procs, Step(p) \/ Kill(p) PROVE FALSE
  <2>1. Moves(p)
    BY <1>1, <1>2, <1>3, OthersMoveNothing
  <2>2. CASE Evacuate(p) \/ MoveAway(p)
    <3>1. evac[p] = None
      BY <2>2 DEF Evacuate, MoveAway, FilesInv, PublicationInv, Quiet
    <3>2. /\ IdOf(evac'[p]) = IdOf(db) \/ (db' = db /\ evac' = evac)
          /\ \A q \in Procs \ {p} : evac'[q] = evac[q]
      BY <2>2 DEF Evacuate, MoveAway, Data
    <3> QED BY <1>1, <1>2, <3>1, <3>2 DEF IdOf
  <2>3. CASE CheckEvacuated(p) \/ RemoveMoved(p)
    BY <1>1, <1>2, <2>3 DEF CheckEvacuated, RemoveMoved, Restores, EvacuatedIsExpected, IdOf, Data
  <2>4. CASE Link(p)
    BY <1>1, <1>2, <2>4 DEF Link, PathIsFree, IdOf
  <2>5. CASE DropEvacuated(p)
    <3>1. evac[p] # None => evac[p].id = snap[p].db
      BY <2>5 DEF DropEvacuated, FilesInv, PublicationInv
    <3> QED BY <1>1, <1>2, <2>5, <3>1 DEF DropEvacuated, IdOf, Data
  <2>6. ASSUME NEW t \in Procs, RecoverEvacuated(p, t) PROVE FALSE
    <3>1. CASE db = None /\ RestoreEvacuated(p, t)
      BY <1>1, <1>2, <2>6, <3>1 DEF RestoreEvacuated, IdOf, Data
    <3>2. CASE db # None /\ Authenticated(t) /\ evac' = [evac EXCEPT ![t] = None] /\ db' = db
      <4>1. evac[t] # None /\ pub[t] = "active"
        BY <2>6 DEF RecoverEvacuated
      <4>2. evac[t].data \in Contents
        BY <4>1 DEF Data, Files
      <4>3. evac[t].data.by \in {t, snap[t].db}
        BY <3>2, <4>1, <4>2, NoneIsNoFile DEF Authenticated, FilesInv, PublicationInv
      <4>4. evac[t].id = snap[t].db
        BY <4>1, <4>3 DEF FilesInv, PublicationInv, Marked
      <4> QED BY <1>1, <1>2, <3>2, <4>4 DEF IdOf, Data
    <3>3. CASE UNCHANGED <<db, evac>>
      BY <1>1, <1>2, <3>3
    <3> QED BY <2>6, <3>1, <3>2, <3>3 DEF RecoverEvacuated
  <2> QED BY <2>1, <2>2, <2>3, <2>4, <2>5, <2>6 DEF Moves
<1>4. CASE EditCanon \/ EditCache
  BY <1>4 DEF EditCanon, EditCache, Data
<1>5. CASE UNCHANGED vars
  BY <1>1, <1>2, <1>5 DEF vars, publication
<1> QED BY <1>3, <1>4, <1>5 DEF Next

\* A published cache is at its path or can be put back; it is at its path when
\* the call that replaced it drops the one before.
SurvivesInv ==
    /\ edits = 0 /\ resets = 0 /\ ids # {} => db # None \/ \E t \in Procs : pub[t] = "active" /\ evac[t] # None
    /\ edits = 0 => \A p \in Procs : pc[p] = "drop" => db # None

LEMMA SurvivesPreserved ==
    ASSUME Data, Control, Begun, FilesInv, SurvivesInv, [Next]_vars PROVE SurvivesInv'
<1>1. ASSUME NEW p \in Procs, Step(p) \/ Kill(p), edits' = 0 PROVE SurvivesInv'
  <2> USE DEF Rest, History, NoFiles, publication
  <2>1. edits = 0 /\ \A q \in Procs \ {p} : pc'[q] = pc[q] /\ pc[q] \in {"start"} \cup Over
    <3>1. edits' = edits
      BY <1>1 DEF Step, Acquire, Recovered, Open, Verify, Decide, Populate, Activate, Prepare,
            ManifestIsActive,
                CreateTemporary, WriteTemporary, Evacuate, CheckEvacuated, Link, Unlink, DropEvacuated,
                Query, Reread, Close, Reset, MoveAway, RemoveMoved, RecoverTemporary, RecoverEvacuated,
                Settle, Cleanup, Kill
    <3>2. holder \in {p, None}
      BY <1>1 DEF Step, Acquire, Recovered, Open, Verify, Decide, Populate, Activate, Prepare,
            ManifestIsActive,
                CreateTemporary, WriteTemporary, Evacuate, CheckEvacuated, Link, Unlink, DropEvacuated,
                Query, Reread, Close, Reset, MoveAway, RemoveMoved, RecoverTemporary, RecoverEvacuated,
                Settle, Cleanup, Kill, Recovering, Settling, Control, Over
    <3>3. \A q \in Procs \ {p} : pc'[q] = pc[q]
      BY <1>1, StepControlled DEF Controlled
    <3> QED BY <1>1, <3>1, <3>2, <3>3, NoneAssumption DEF Control
  <2>2. CASE ~Moves(p)
    <3>1. UNCHANGED <<db, evac, ids, resets>>
      BY <1>1, <2>2 DEF Moves, Step, Acquire, Recovered, Open, Verify, Decide, Populate, Activate,
            Prepare,
                ManifestIsActive, CreateTemporary, WriteTemporary, Unlink, Query, Reread, Close, Reset, Kill,
                RecoverTemporary, Settle, Cleanup
    <3>2. \A t \in Procs : pub[t] = "active" /\ evac[t] # None => pub'[t] = "active"
      <4>1. CASE Prepare(p) \/ ManifestIsActive(p)
        BY <4>1 DEF Prepare, ManifestIsActive, Data, FilesInv, PublicationInv, Quiet
      <4>2. ASSUME NEW t \in Procs, Settle(p, t) \/ Cleanup(p, t)
            PROVE  \A q \in Procs : pub[q] = "active" /\ evac[q] # None => pub'[q] = "active"
        BY <4>2 DEF Settle, Cleanup, Data
      <4>3. CASE /\ ~(Prepare(p) \/ ManifestIsActive(p))
                 /\ \A t \in Procs : ~(Settle(p, t) \/ Cleanup(p, t))
        BY <1>1, <2>2, <4>3 DEF Moves, Step, Acquire, Recovered, Open, Verify, Decide, Populate,
              Activate,
                CreateTemporary, WriteTemporary, Unlink, Query, Reread, Close, Reset, Kill, RecoverTemporary
      <4> QED BY <4>1, <4>2, <4>3
    <3>3. pc'[p] = "drop" => db # None
      <4>1. CASE Unlink(p)
        BY <4>1, NoneAssumption DEF Unlink, Goto, Undo, Control, IdOf
      <4>2. CASE ~Unlink(p)
        <5>1. pc'[p] # "drop"
          BY <1>1, <2>2, <4>2 DEF Moves, Step, Acquire, Recovered, Open, Verify, Decide, Populate,
                Activate, Prepare,
                ManifestIsActive, CreateTemporary, WriteTemporary, Query, Reread, Close, Reset, Kill,
                RecoverTemporary, Settle, Cleanup, Recovering, Settling, Goto, End, Control, Over
        <5> QED BY <5>1
      <4> QED BY <4>1, <4>2
    <3> QED BY <2>1, <3>1, <3>2, <3>3 DEF SurvivesInv, Over
  <2>3. CASE Evacuate(p)
    <3>1. pub'[p] = "active" /\ pc'[p] # "drop"
      BY <2>3 DEF Evacuate, FilesInv, PublicationInv, Publishing, Goto, Undo, Control
    <3>2. \/ UNCHANGED <<db, evac, pub, ids, resets>>
          \/ evac'[p] # None
      BY <2>3 DEF Evacuate, Data
    <3> QED BY <2>1, <3>1, <3>2 DEF SurvivesInv, Over
  <2>4. CASE CheckEvacuated(p)
    <3>1. pc'[p] # "drop" /\ UNCHANGED <<pub, ids, resets>>
      BY <2>4 DEF CheckEvacuated, Goto, Undo, Control
    <3>2. UNCHANGED <<db, evac>> \/ (db' # None)
      BY <2>4 DEF CheckEvacuated, Restores, Data
    <3> QED BY <2>1, <3>1, <3>2 DEF SurvivesInv, Over
  <2>5. CASE Link(p)
    <3>1. pc'[p] # "drop" /\ UNCHANGED <<pub, evac, resets>>
      BY <2>5 DEF Link, Goto, Undo, Control
    <3>2. [id |-> p, data |-> Projection(loaded[p], p)] \in Files
      BY <2>5, ProjectionType DEF Link, Files, FileIds
    <3>3. db' # None \/ UNCHANGED <<db, ids>>
      BY <2>5, <3>2, NoneIsNoFile DEF Link
    <3> QED BY <2>1, <3>1, <3>2, <3>3 DEF SurvivesInv, Over
  <2>6. CASE DropEvacuated(p)
    <3>1. db' = db /\ db # None /\ pc'[p] = "settle"
      BY <2>1, <2>6 DEF DropEvacuated, SurvivesInv, Goto, Control
    <3> QED BY <2>1, <3>1 DEF SurvivesInv, Over
  <2>7. CASE MoveAway(p) \/ RemoveMoved(p)
    <3>1. resets' > 0 \/ UNCHANGED <<db, evac, pub, ids, resets>>
      BY <2>7 DEF MoveAway, RemoveMoved, FilesInv, PublicationInv, Data
    <3>2. pc'[p] # "drop"
      BY <2>7 DEF MoveAway, RemoveMoved, Goto, End, Control
    <3> QED BY <2>1, <3>1, <3>2 DEF SurvivesInv, Over
  <2>8. ASSUME NEW t \in Procs, RecoverEvacuated(p, t) PROVE SurvivesInv'
    <3>1. db' # None \/ UNCHANGED <<db, evac>>
      BY <2>8 DEF RecoverEvacuated, RestoreEvacuated
    <3>2. UNCHANGED <<pub, ids, resets>> /\ pc'[p] # "drop"
      BY <2>8 DEF RecoverEvacuated, Recovering, Goto, End, Control
    <3> QED BY <2>1, <3>1, <3>2 DEF SurvivesInv, Over
  <2> QED BY <2>2, <2>3, <2>4, <2>5, <2>6, <2>7, <2>8 DEF Moves
<1>2. CASE edits' # 0
  BY <1>2 DEF SurvivesInv
<1>3. CASE (EditCanon \/ EditCache) /\ edits' = 0
  BY <1>3 DEF EditCanon, EditCache, Data
<1>4. CASE UNCHANGED vars
  BY <1>4 DEF vars, publication, SurvivesInv
<1> QED BY <1>1, <1>2, <1>3, <1>4 DEF Next

\* Where a sidecar can be while caches are moved.
SideInv ==
    /\ SidecarBelongs
    /\ \A p \in Procs : pc[p] \in Publishing \cup {"prepare", "manifest", "settle", "undo", "move", "remove"} => side = None
    /\ \A t \in Procs : pub[t] # "none" => side = None

LEMMA SidePreserved ==
    ASSUME Data, Data', Control, Control', FilesInv, SideInv, [Next]_vars PROVE SideInv'
<1>1. ASSUME NEW p \in Procs, Step(p) \/ Kill(p) PROVE SideInv'
  <2> USE DEF Rest, History, NoFiles, publication
  <2>1. \A q \in Procs \ {p} : pc'[q] = pc[q] /\ pc'[q] \in {"start"} \cup Over
    <3>1. holder' \in {p, None}
      BY <1>1 DEF Step, Acquire, Recovered, Open, Verify, Decide, Populate, Activate, Prepare,
            ManifestIsActive,
                CreateTemporary, WriteTemporary, Evacuate, CheckEvacuated, Link, Unlink, DropEvacuated,
                Query, Reread, Close, Reset, MoveAway, RemoveMoved, RecoverTemporary, RecoverEvacuated,
                Settle, Cleanup, Kill, Recovering, Settling, Control, Over, Goto, End
    <3> QED BY <1>1, <3>1, StepControlled, NoneAssumption DEF Controlled, Control
  <2>2. CASE Open(p)
    <3>1. \A t \in Procs : pub'[t] = "none"
      BY <2>2 DEF Open, FilesInv, AloneInv, PublicationInv, Quiet, Over
    <3>2. SidecarBelongs'
      BY <2>2 DEF Open, SideInv, SidecarBelongs, FilesInv, Marked, IdOf
    <3>3. pc'[p] \in {"broken", "verify"}
      BY <2>2 DEF Open, Goto, Control
    <3> QED BY <2>1, <3>1, <3>2, <3>3 DEF SideInv, Publishing, Over
  <2>3. CASE side' = None
    BY <2>3 DEF SideInv, SidecarBelongs
  <2>4. CASE side' = side /\ side # None /\ ~Open(p)
    <3>1. /\ \A t \in Procs : pub[t] = "none"
          /\ pc[p] \notin Publishing \cup {"prepare", "manifest", "settle", "undo", "move", "remove"}
      BY <2>4 DEF SideInv
    <3>2. UNCHANGED <<db, pub>> /\ pc'[p] \notin Publishing \cup {"prepare", "manifest", "settle", "undo", "move", "remove"}
      BY <1>1, <2>4, <3>1 DEF Step, Acquire, Recovered, Verify, Decide, Populate, Activate,
            Prepare, ManifestIsActive,
                CreateTemporary, WriteTemporary, Evacuate, CheckEvacuated, Link, Unlink, DropEvacuated,
                Query, Reread, Close, Reset, MoveAway, RemoveMoved, RecoverTemporary, RecoverEvacuated,
                Settle, Cleanup, Kill, Recovering, Settling, Closes, RemovesSidecars, Control, Over, Goto, End, Publishing
    <3> QED BY <2>1, <2>4, <3>1, <3>2 DEF SideInv, SidecarBelongs, Publishing, Over
  <2>5. ~Open(p) => side' \in {side, None}
    BY <1>1 DEF Step, Acquire, Recovered, Verify, Decide, Populate, Activate, Prepare,
          ManifestIsActive,
                CreateTemporary, WriteTemporary, Evacuate, CheckEvacuated, Link, Unlink, DropEvacuated,
                Query, Reread, Close, Reset, MoveAway, RemoveMoved, RecoverTemporary, RecoverEvacuated,
                Settle, Cleanup, Kill, Closes, RemovesSidecars
  <2> QED BY <2>2, <2>3, <2>4, <2>5
<1>2. CASE EditCanon \/ UNCHANGED vars
  BY <1>2 DEF EditCanon, NoFiles, vars, publication, SideInv, SidecarBelongs, IdOf
<1>3. CASE EditCache
  <2>1. IdOf(db') \notin Procs
    BY <1>3, NoneAssumption DEF EditCache, IdOf, Data
  <2> QED BY <1>3, <2>1 DEF EditCache, publication, SideInv, SidecarBelongs
<1> QED BY <1>1, <1>2, <1>3 DEF Next

\* While nobody was killed and nothing was edited, a call finds what it left:
\* its private files, its state directory and its candidate are there only
\* while it works on them, a sidecar only while it reads, and the file that it
\* captured is the one at the path until it takes it away itself.
Reading == {"verify", "query", "reread", "close"}
TidyCall(t) ==
    /\ pub[t] # "none" => pc[t] \in Publishing \cup {"manifest", "settle"}
    /\ tmp[t] # None => pc[t] \in {"write", "evacuate", "check", "link", "unlink"}
    /\ evac[t] # None => pc[t] \in {"check", "link", "unlink", "drop", "remove"}
    /\ t \in cand => pc[t] \in Publishing \cup {"populate", "activate", "prepare", "manifest", "settle"}
    /\ pc[t] \in Reading \cup {"populate", "activate", "prepare", "manifest", "create", "write", "evacuate"} =>
          snap[t].db = IdOf(db)
    /\ pc[t] = "evacuate" => db # None
    /\ pc[t] \in {"check", "remove"} => evac[t] # None /\ evac[t].id = snap[t].db
    /\ pc[t] \in {"check", "link"} => db = None
    /\ pc[t] = "move" => snap[t].db = IdOf(db)
    /\ pc[t] = "unlink" => IdOf(db) = t
    /\ pc[t] # "undo"
TidyInv ==
    kills = 0 /\ edits = 0 =>
        /\ \A t \in Procs : TidyCall(t)
        /\ side # None => \E t \in Procs : pc[t] \in Reading

LEMMA InitTidy == Init => TidyInv
BY DEF Init, TidyInv, TidyCall, Publishing, Reading

LEMMA TidyPreserved ==
    ASSUME Data, Control, Control', Begun, TidyInv, [Next]_vars PROVE TidyInv'
<1>1. ASSUME NEW p \in Procs, Step(p), kills' = 0, edits' = 0 PROVE TidyInv'
  <2> USE DEF Rest, History, NoFiles, publication
  <2>1. kills = 0 /\ edits = 0
    BY <1>1 DEF Step, Acquire, Recovered, Open, Verify, Decide, Populate, Activate, Prepare,
          ManifestIsActive,
                CreateTemporary, WriteTemporary, Evacuate, CheckEvacuated, Link, Unlink, DropEvacuated,
                Query, Reread, Close, Reset, MoveAway, RemoveMoved, RecoverTemporary, RecoverEvacuated,
                Settle, Cleanup
  <2>2. \A q \in Procs \ {p} : pc'[q] = pc[q] /\ pc[q] \in {"start"} \cup Over
    <3>1. holder \in {p, None}
      BY <1>1 DEF Step, Acquire, Recovered, Open, Verify, Decide, Populate, Activate, Prepare,
            ManifestIsActive,
                CreateTemporary, WriteTemporary, Evacuate, CheckEvacuated, Link, Unlink, DropEvacuated,
                Query, Reread, Close, Reset, MoveAway, RemoveMoved, RecoverTemporary, RecoverEvacuated,
                Settle, Cleanup, Recovering, Settling, Control, Over
    <3> QED BY <1>1, <3>1, StepControlled, NoneAssumption DEF Controlled, Control
  <2>3. \A q \in Procs \ {p} : pub[q] = "none" /\ tmp[q] = None /\ evac[q] = None /\ q \notin cand
    BY <2>1, <2>2 DEF TidyInv, TidyCall, Publishing, Over
  <2>4. side # None => pc[p] \in Reading
    BY <2>1, <2>2 DEF TidyInv, Reading, Over
  <2>5. TidyCall(p)
    BY <2>1 DEF TidyInv
  <2>6. \A q \in Procs \ {p} : pub'[q] = "none" /\ tmp'[q] = None /\ evac'[q] = None /\ q \notin cand'
    <3>1. ASSUME NEW t \in Procs, RecoverTemporary(p, t) \/ RecoverEvacuated(p, t) \/ Settle(p, t) \/ Cleanup(p, t)
          PROVE  t = p /\ pc[p] \notin {"recover", "undo"}
      BY <2>3, <2>5, <3>1 DEF RecoverTemporary, RecoverEvacuated, Settle, Cleanup, Recovering,
            Settling, TidyCall,
                              Publishing
    <3>2. CASE RecoverTemporary(p, p) \/ RecoverEvacuated(p, p) \/ Settle(p, p) \/ Cleanup(p, p)
      BY <2>3, <3>1, <3>2 DEF RecoverTemporary, RecoverEvacuated, RestoreEvacuated, Settle,
            Cleanup, Data
    <3>3. CASE ~\E t \in Procs : RecoverTemporary(p, t) \/ RecoverEvacuated(p, t) \/ Settle(p, t) \/ Cleanup(p, t)
      BY <1>1, <2>3, <3>3 DEF Step, Acquire, Recovered, Open, Verify, Decide, Populate, Activate,
            Prepare,
                ManifestIsActive, CreateTemporary, WriteTemporary, Evacuate, CheckEvacuated, Link, Unlink,
                DropEvacuated, Query, Reread, Close, Reset, MoveAway, RemoveMoved, Restores, Undo, Data
    <3> QED BY <3>1, <3>2, <3>3
  <2>7. SUFFICES TidyCall(p)' /\ (side' # None => pc'[p] \in Reading)
    <3>1. ASSUME NEW q \in Procs \ {p} PROVE TidyCall(q)'
      BY <2>2, <2>6 DEF TidyCall, Publishing, Reading, Over
    <3> QED BY <3>1 DEF TidyInv
  <2>a. IdOf(db) = None => db = None
    BY NoneAssumption DEF IdOf, Data, Files, FileIds
  <2>b. pc[p] # "start" => [id |-> p, data |-> Projection(loaded[p], p)] # None
    BY ProjectionType, NoneIsNoFile DEF Files, FileIds
  <2> USE <2>4, <2>5 DEF TidyCall, Publishing, Reading, Goto, End, Data, Control
  <2>8. CASE Acquire(p)
    BY <2>8, NoneAssumption DEF Acquire
  <2>9. CASE Recovered(p)
    BY <2>9, NoneAssumption DEF Recovered
  <2>10. CASE Open(p)
    BY <2>10, NoneAssumption DEF Open, IdOf
  <2>11. CASE Verify(p)
    BY <2>11, NoneAssumption DEF Verify, Closes, Continuous
  <2>12. CASE Decide(p)
    BY <2>12, NoneAssumption DEF Decide, IdOf
  <2>13. CASE Populate(p)
    BY <2>13, NoneAssumption DEF Populate
  <2>14. CASE Activate(p)
    BY <2>14, NoneAssumption DEF Activate, RemovesSidecars
  <2>15. CASE Prepare(p)
    BY <2>15, NoneAssumption DEF Prepare
  <2>16. CASE ManifestIsActive(p)
    BY <2>16, NoneAssumption DEF ManifestIsActive
  <2>17. CASE CreateTemporary(p)
    BY <2>17, NoneAssumption DEF CreateTemporary
  <2>18. CASE WriteTemporary(p)
    BY <2>18, <2>a DEF WriteTemporary, IdOf
  <2>19. CASE Evacuate(p)
    BY <2>19, NoneAssumption DEF Evacuate, Undo, IdOf
  <2>20. CASE CheckEvacuated(p)
    BY <2>20, NoneAssumption DEF CheckEvacuated, EvacuatedIsExpected
  <2>21. CASE Link(p)
    BY <2>21, <2>b DEF Link, PathIsFree, IdOf
  <2>22. CASE Unlink(p)
    BY <2>22, NoneAssumption DEF Unlink
  <2>23. CASE DropEvacuated(p)
    BY <2>23, NoneAssumption DEF DropEvacuated
  <2>24. CASE Query(p)
    BY <2>24, NoneAssumption DEF Query, Continuous
  <2>25. CASE Reread(p)
    BY <2>25, NoneAssumption DEF Reread, Continuous
  <2>26. CASE Close(p)
    BY <2>26, NoneAssumption DEF Close, Closes, Continuous
  <2>27. CASE Reset(p)
    BY <2>27, NoneAssumption DEF Reset, IdOf
  <2>28. CASE MoveAway(p)
    BY <2>28, NoneAssumption DEF MoveAway, IdOf
  <2>29. CASE RemoveMoved(p)
    BY <2>29, NoneAssumption DEF RemoveMoved, EvacuatedIsExpected
  <2>30. ASSUME NEW t \in Procs, RecoverTemporary(p, t) \/ RecoverEvacuated(p, t) \/ Settle(p, t) \/ Cleanup(p, t)
        PROVE  TidyCall(p)' /\ (side' # None => pc'[p] \in Reading)
    <3>1. t = p /\ pc[p] = "settle"
      BY <2>3, <2>30 DEF RecoverTemporary, RecoverEvacuated, Settle, Cleanup, Recovering, Settling
    <3> QED BY <2>30, <3>1 DEF RecoverTemporary, RecoverEvacuated, Settle, Cleanup, Recovering
  <2> QED BY <1>1, <2>8, <2>9, <2>10, <2>11, <2>12, <2>13, <2>14, <2>15, <2>16, <2>17, <2>18,
        <2>19, <2>20, <2>21, <2>22, <2>23, <2>24, <2>25, <2>26, <2>27, <2>28, <2>29, <2>30 DEF Step
<1>2. CASE kills' # 0 \/ edits' # 0
  BY <1>2 DEF TidyInv
<1>3. CASE UNCHANGED vars
  BY <1>3 DEF vars, publication, TidyInv, TidyCall, Reading, Publishing, IdOf
<1>4. ASSUME NEW p \in Procs, Kill(p) PROVE kills' # 0
  BY <1>4, BoundsAssumption DEF Kill, Data
<1>5. CASE EditCanon \/ EditCache
  BY <1>2, <1>5, BoundsAssumption DEF EditCanon, EditCache, Data
<1> QED BY <1>1, <1>2, <1>3, <1>4, <1>5 DEF Next

LEMMA TidyLeavesNothing == Data /\ Control /\ TidyInv => NothingIsLeftBehind
<1> SUFFICES ASSUME Data, Control, TidyInv, kills = 0, edits = 0, holder = None
             PROVE  /\ side = None /\ cand = {}
                    /\ \A t \in Procs : tmp[t] = None /\ evac[t] = None /\ pub[t] = "none"
  BY DEF NothingIsLeftBehind
<1>1. \A t \in Procs : pc[t] \in {"start"} \cup Over
  BY NoneAssumption DEF Control
<1> QED BY <1>1 DEF TidyInv, TidyCall, Reading, Publishing, Over, Data

-------------------------------------------------------------------------------
(* The inductive invariant, and what follows from it. *)

Inv == Data /\ Control /\ Begun /\ IdsInv /\ AnswerInv /\ FilesInv /\ SurvivesInv /\ SideInv /\ TidyInv

LEMMA InitInv == Init => Inv
<1> SUFFICES ASSUME Init PROVE Inv
  OBVIOUS
<1>1. Data /\ Control
  BY InitTypeOK, TypeParts
<1>2. db = None \/ (db.id = 0 /\ db.data.by = 0)
  BY DEF Init, Projection
<1>3. 0 \notin Procs /\ None \notin Procs /\ None \notin Nat
  BY NoneAssumption
<1>4. Begun /\ IdsInv /\ AnswerInv
  BY <1>2, <1>3 DEF Init, Begun, IdsInv, Older, IdOf, AnswerInv, Over
<1>5. Marked(db) /\ \A t \in Procs : Marked(evac[t])
  BY <1>2, <1>3 DEF Init, Marked
<1>6. \A t \in Procs : PublicationInv(t)
  BY <1>3 DEF Init, PublicationInv, Quiet, Publishing, AfterLink, Over
<1>7. AloneInv /\ SurvivesInv
  BY DEF Init, AloneInv, SurvivesInv
<1>8. SideInv
  BY DEF Init, SideInv, SidecarBelongs
<1> QED BY <1>1, <1>4, <1>5, <1>6, <1>7, <1>8, InitTidy DEF Inv, FilesInv

LEMMA InvPreserved == Inv /\ [Next]_vars => Inv'
<1> SUFFICES ASSUME Inv, [Next]_vars PROVE Inv'
  OBVIOUS
<1>1. Control'
  <2>1. ASSUME NEW p \in Procs, Step(p) \/ Kill(p) PROVE Control'
    BY <2>1, StepControlled DEF Inv, Controlled
  <2>2. CASE EditCanon \/ EditCache \/ UNCHANGED vars
    BY <2>2 DEF EditCanon, EditCache, vars, Control, Inv
  <2> QED BY <2>1, <2>2 DEF Next
<1>2. Data' /\ Begun' /\ IdsInv'
  BY DataPreserved, BegunPreserved, IdsPreserved DEF Inv
<1>3. AnswerInv' /\ SurvivesInv'
  BY AnswerPreserved, SurvivesPreserved DEF Inv
<1>4. FilesInv' /\ SideInv'
  BY <1>1, <1>2, FilesPreserved, SidePreserved DEF Inv
<1>5. TidyInv'
  BY <1>1, TidyPreserved DEF Inv
<1> QED BY <1>1, <1>2, <1>3, <1>4, <1>5 DEF Inv

LEMMA AlwaysInv == Spec => []Inv
BY InitInv, InvPreserved, PTL DEF Spec

\* The variables of the cache keep their types.
THEOREM CacheTypes == Spec => []TypeOK
<1>1. Inv => TypeOK
  BY TypeParts DEF Inv
<1> QED BY <1>1, AlwaysInv, PTL

\* A search answers exactly, whatever is at the cache path (openDisposable-
\* SqliteCache, the domains' searches).
THEOREM SearchesAnswerExactly == Spec => []AnswersAreExact
<1>1. Inv => AnswersAreExact
  BY DEF Inv, AnswerInv, AnswersAreExact, IsAnswer
<1> QED BY <1>1, AlwaysInv, PTL

\* No crash loses a cache that was published (publishCacheDatabase,
\* recoverCachePublications).
THEOREM PublishedCacheSurvives == Spec => []CacheSurvives
<1>1. Inv => CacheSurvives
  <2> SUFFICES ASSUME Inv, edits = 0, resets = 0, ids # {}
               PROVE  /\ db # None \/ \E t \in Procs : pub[t] = "active" /\ evac[t] # None
                      /\ (\E p \in Procs : pc[p] = "open") => db # None
    BY DEF CacheSurvives
  <2>1. db # None \/ \E t \in Procs : pub[t] = "active" /\ evac[t] # None
    BY DEF Inv, SurvivesInv
  <2>2. ASSUME NEW p \in Procs, pc[p] = "open" PROVE \A t \in Procs : pub[t] = "none"
    BY <2>2 DEF Inv, FilesInv, PublicationInv, AloneInv, Quiet, Over
  <2> QED BY <2>1, <2>2
<1> QED BY <1>1, AlwaysInv, PTL

\* A file goes for good only by the call that captured it (removeExactArtifacts,
\* publishExactRegularFile).
THEOREM OnlyCapturedFilesAreRemoved == Spec => OnlyCapturedFilesGo
<1>1. Inv /\ Inv' /\ [Next]_vars => [edits' = edits => \A id \in Present \ Present' : \E t \in Procs : snap[t].db = id]_vars
  BY OnlyCapturedGoes DEF Inv
<1> QED BY <1>1, AlwaysInv, PTL DEF Spec, OnlyCapturedFilesGo

\* The log of one cache never lies next to another (activateCandidate).
THEOREM SidecarsBelong == Spec => []SidecarBelongs
<1>1. Inv => SidecarBelongs
  BY DEF Inv, SideInv
<1> QED BY <1>1, AlwaysInv, PTL

\* Calls that nobody kills or disturbs clean up behind them (rebuildDisposable-
\* SqliteCache, closeDatabaseIfSafe, cleanupStateDirectory).
THEOREM CallsLeaveNothing == Spec => []NothingIsLeftBehind
<1>1. Inv => NothingIsLeftBehind
  BY TidyLeavesNothing DEF Inv
<1> QED BY <1>1, AlwaysInv, PTL

\* All that the run checks of the cache, a sidecar and what is left behind, for
\* any number of calls, kills and edits.
THEOREM CacheIsSound == Spec => []CacheInv
BY CacheTypes, SidecarsBelong, CallsLeaveNothing, PublishedCacheSurvives, PTL DEF CacheInv

-------------------------------------------------------------------------------
(* Induction over numbers, without an operator for what is proved of them: a   *)
(* set of numbers that is not empty has a least one.                           *)

Earlier == {p \in Nat \X Nat : p[1] < p[2]}

LEMMA LeastNumber ==
    ASSUME NEW T, T \subseteq Nat, T # {}
    PROVE  \E n \in T : \A k \in T : n <= k
<1>1. IsWellFoundedOn(Earlier, Nat)
  BY NatLessThanWellFounded DEF OpToRel, Earlier
<1>2. \E n \in T : \A k \in T : ~ (<<k, n>> \in Earlier)
  BY <1>1, WFMin
<1>3. \A n, k \in T : ~(<<k, n>> \in Earlier) => n <= k
  BY DEF Earlier
<1> QED BY <1>2, <1>3

LEMMA Through ==
    ASSUME NEW N \in Nat, NEW S \in SUBSET (0 .. N), 0 \in S, \A n \in 1 .. N : n - 1 \in S => n \in S
    PROVE  \A n \in 0 .. N : n \in S
<1> DEFINE T == (0 .. N) \ S
<1>1. SUFFICES ASSUME T # {} PROVE FALSE
  OBVIOUS
<1>2. T \subseteq Nat
  OBVIOUS
<1>3. PICK n \in T : \A k \in T : n <= k
  <2> HIDE DEF T
  <2> QED BY <1>1, <1>2, LeastNumber
<1>4. n \in 1 .. N /\ n - 1 \in 0 .. N /\ ~(n <= n - 1)
  BY <1>3
<1> QED BY <1>3, <1>4

\* Each of f's values is computed from the one before it; and there is such an f.
Recurs(f, N, X, base, step) ==
    f \in [0 .. N -> X] /\ f[0] = base /\ \A n \in 1 .. N : f[n] = step[<<n, f[n - 1]>>]

LEMMA Recursion ==
    ASSUME NEW N, NEW X, NEW base, NEW step, N \in Nat, base \in X, step \in [(1 .. N) \X X -> X]
    PROVE  \E f : Recurs(f, N, X, base, step)
<1> DEFINE S == {k \in 0 .. N : \E f : Recurs(f, k, X, base, step)}
<1>1. 0 \in S
  <2>1. Recurs([n \in 0 .. 0 |-> base], 0, X, base, step)
    BY DEF Recurs
  <2> QED BY <2>1
<1>2. ASSUME NEW k \in 1 .. N, k - 1 \in S PROVE k \in S
  <2>1. PICK f : Recurs(f, k - 1, X, base, step)
    BY <1>2
  <2> DEFINE g == [n \in 0 .. k |-> IF n = k THEN step[<<k, f[k - 1]>>] ELSE f[n]]
  <2>2. f \in [0 .. k - 1 -> X] /\ f[0] = base /\ \A n \in 1 .. k - 1 : f[n] = step[<<n, f[n - 1]>>]
    BY <2>1 DEF Recurs
  <2>3. k - 1 \in 0 .. k - 1 /\ <<k, f[k - 1]>> \in (1 .. N) \X X
    BY <2>2
  <2>4. step[<<k, f[k - 1]>>] \in X
    BY <2>3
  <2>5. g \in [0 .. k -> X]
    BY <2>2, <2>4
  <2>6. g[0] = base
    BY <2>2
  <2>7. ASSUME NEW n \in 1 .. k PROVE g[n] = step[<<n, g[n - 1]>>]
    <3>1. g[n - 1] = f[n - 1]
      OBVIOUS
    <3>2. CASE n = k
      <4>1. g[n] = step[<<k, f[k - 1]>>]
        BY <3>2
      <4> HIDE DEF g
      <4> QED BY <3>1, <3>2, <4>1
    <3>3. CASE n # k
      <4>1. n \in 1 .. k - 1 /\ g[n] = f[n]
        BY <3>3
      <4> QED BY <2>2, <3>1, <4>1
    <3> QED BY <3>2, <3>3
  <2> HIDE DEF g
  <2>8. Recurs(g, k, X, base, step)
    BY <2>5, <2>6, <2>7 DEF Recurs
  <2> QED BY <2>8
<1> HIDE DEF S
<1>3. S \in SUBSET (0 .. N)
  BY DEF S
<1>4. N \in S
  BY <1>1, <1>2, <1>3, Through
<1> QED BY <1>4 DEF S

-------------------------------------------------------------------------------
(* How a table is read: the bytes of rows, the rows after a key, the pages. *)

\* The bytes of rows: none of none, and of one row its own.
LEMMA BytesAre ==
    ASSUME NEW R, \A r \in R : r.size \in Nat, NEW rows \in Seq(R)
    PROVE  /\ BytesOf(rows) \in Nat
           /\ Len(rows) = 0 => BytesOf(rows) = 0
           /\ Len(rows) = 1 => BytesOf(rows) = rows[1].size
<1> DEFINE N == Len(rows)
           step == [p \in (1 .. N) \X Nat |-> p[2] + rows[p[1]].size]
           f == CHOOSE g : g = [n \in 0 .. N |-> IF n = 0 THEN 0 ELSE g[n - 1] + rows[n].size]
<1>1. N \in Nat /\ \A n \in 1 .. N : rows[n].size \in Nat
  <2>1. \A n \in 1 .. N : rows[n] \in R
    OBVIOUS
  <2> QED BY <2>1
<1>2. step \in [(1 .. N) \X Nat -> Nat] /\ 0 \in Nat
  BY <1>1
<1> HIDE DEF step, N
<1>3. PICK h : Recurs(h, N, Nat, 0, step)
  BY <1>1, <1>2, Recursion, Zenon
<1>4. h \in [0 .. N -> Nat] /\ h[0] = 0 /\ \A n \in 1 .. N : h[n] = step[<<n, h[n - 1]>>]
  BY <1>3 DEF Recurs
<1>5. \A n \in 0 .. N : h[n] = IF n = 0 THEN 0 ELSE h[n - 1] + rows[n].size
  <2>1. SUFFICES ASSUME NEW n \in 0 .. N, n # 0 PROVE h[n] = h[n - 1] + rows[n].size
    BY <1>4
  <2>2. n \in 1 .. N /\ n - 1 \in 0 .. N
    BY <1>1, <2>1
  <2>3. h[n - 1] \in Nat /\ h[n] = step[<<n, h[n - 1]>>]
    BY <1>4, <2>2
  <2> QED BY <2>2, <2>3 DEF step
<1>6. h = [n \in 0 .. N |-> IF n = 0 THEN 0 ELSE h[n - 1] + rows[n].size]
  <2> DEFINE e(n) == IF n = 0 THEN 0 ELSE h[n - 1] + rows[n].size
  <2>1. \A n \in 0 .. N : h[n] = e(n)
    BY <1>5
  <2> HIDE DEF e
  <2>2. h = [n \in 0 .. N |-> e(n)]
    BY <1>4, <2>1
  <2> QED BY <2>2, Zenon DEF e
<1>7. f = [n \in 0 .. N |-> IF n = 0 THEN 0 ELSE f[n - 1] + rows[n].size]
  BY <1>6, Zenon
<1>8. BytesOf(rows) = f[N]
  BY Zenon DEF BytesOf, N
<1> HIDE DEF f
<1> DEFINE S == {n \in 0 .. N : f[n] \in Nat}
<1>9. 0 \in S
  BY <1>1, <1>7
<1>10. ASSUME NEW n \in 1 .. N, n - 1 \in S PROVE n \in S
  <2>1. f[n - 1] \in Nat /\ n \in 0 .. N /\ n # 0
    BY <1>1, <1>10
  <2>2. f[n] = f[n - 1] + rows[n].size
    BY <1>7, <2>1
  <2> QED BY <1>1, <2>1, <2>2
<1>11. N \in S
  <2> HIDE DEF S
  <2>1. S \in SUBSET (0 .. N) /\ N \in 0 .. N
    BY <1>1 DEF S
  <2> QED BY <1>1, <1>9, <1>10, <2>1, Through
<1>12. N = 0 => f[N] = 0
  BY <1>1, <1>7
<1>13. N = 1 => f[N] = rows[1].size
  <2> SUFFICES ASSUME N = 1 PROVE f[1] = rows[1].size
    OBVIOUS
  <2>1. f[1] = f[0] + rows[1].size /\ f[0] = 0 /\ rows[1].size \in Nat
    BY <1>1, <1>7
  <2> QED BY <2>1
<1> QED BY <1>8, <1>11, <1>12, <1>13 DEF N

\* Following(table, previous) goes through the table, row after row.
Follow(f, table, previous) ==
    /\ f[0] = <<>>
    /\ \A n \in 1 .. Len(table) : f[n] = IF After(previous, table[n]) THEN Append(f[n - 1], table[n]) ELSE f[n - 1]
    /\ Following(table, previous) = f[Len(table)]

LEMMA FollowingIs ==
    ASSUME NEW R, NEW table \in Seq(R), NEW previous
    PROVE  \E f : Follow(f, table, previous)
<1> DEFINE N == Len(table)
           step == [p \in (1 .. N) \X Seq(R) |->
                      IF After(previous, table[p[1]]) THEN Append(p[2], table[p[1]]) ELSE p[2]]
           f == CHOOSE g : g = [n \in 0 .. N |->
                  IF n = 0 THEN <<>>
                  ELSE IF After(previous, table[n]) THEN Append(g[n - 1], table[n]) ELSE g[n - 1]]
<1>1. N \in Nat /\ <<>> \in Seq(R) /\ \A n \in 1 .. N : table[n] \in R
  OBVIOUS
<1>2. step \in [(1 .. N) \X Seq(R) -> Seq(R)]
  BY <1>1
<1> HIDE DEF step, N
<1>3. PICK h : Recurs(h, N, Seq(R), <<>>, step)
  BY <1>1, <1>2, Recursion, Zenon
<1>4. h \in [0 .. N -> Seq(R)] /\ h[0] = <<>> /\ \A n \in 1 .. N : h[n] = step[<<n, h[n - 1]>>]
  BY <1>3 DEF Recurs
<1> DEFINE e(g, n) == IF After(previous, table[n]) THEN Append(g[n - 1], table[n]) ELSE g[n - 1]
<1>5. \A n \in 0 .. N : h[n] = IF n = 0 THEN <<>> ELSE e(h, n)
  <2>1. SUFFICES ASSUME NEW n \in 0 .. N, n # 0 PROVE h[n] = e(h, n)
    BY <1>4
  <2>2. n \in 1 .. N /\ n - 1 \in 0 .. N
    BY <1>1, <2>1
  <2>3. h[n - 1] \in Seq(R) /\ h[n] = step[<<n, h[n - 1]>>]
    BY <1>4, <2>2
  <2> QED BY <2>2, <2>3 DEF step
<1>6. h = [n \in 0 .. N |-> IF n = 0 THEN <<>> ELSE e(h, n)]
  <2> DEFINE d(n) == IF n = 0 THEN <<>> ELSE e(h, n)
  <2>1. \A n \in 0 .. N : h[n] = d(n)
    BY <1>5
  <2> HIDE DEF d
  <2>2. h = [n \in 0 .. N |-> d(n)]
    BY <1>4, <2>1
  <2> QED BY <2>2, Zenon DEF d
<1>7. f = [n \in 0 .. N |-> IF n = 0 THEN <<>> ELSE e(f, n)]
  BY <1>6, Zenon
<1>8. Following(table, previous) = f[N]
  BY Zenon DEF Following, N
<1> HIDE DEF f
<1>9. f[0] = <<>> /\ \A n \in 1 .. N : f[n] = e(f, n)
  <2>1. 0 \in 0 .. N /\ \A n \in 1 .. N : n \in 0 .. N /\ n # 0
    BY <1>1
  <2> HIDE DEF e
  <2> QED BY <1>7, <2>1
<1> QED BY <1>8, <1>9, Zenon DEF Follow, N

\* The n rows after the first s.
LEMMA RowsAfter ==
    ASSUME NEW R, NEW rows \in Seq(R), NEW s \in Nat, NEW n \in Nat, s + n <= Len(rows)
    PROVE  /\ SubSeq(rows, s + 1, s + n) \in Seq(R) /\ Len(SubSeq(rows, s + 1, s + n)) = n
           /\ \A i \in 1 .. n : SubSeq(rows, s + 1, s + n)[i] = rows[s + i]
<1> DEFINE part == SubSeq(rows, s + 1, s + n)
<1>1. \A i \in s + 1 .. s + n : rows[i] \in R
  OBVIOUS
<1>2. s + 1 \in Int /\ s + n \in Int
  OBVIOUS
<1>3. /\ part \in Seq(R)
      /\ Len(part) = IF s + 1 <= s + n THEN (s + n) - (s + 1) + 1 ELSE 0
      /\ \A i \in 1 .. (s + n) - (s + 1) + 1 : part[i] = rows[(s + 1) + i - 1]
  BY <1>1, <1>2, SubSeqProperties
<1> HIDE DEF part
<1>4. Len(part) = n
  BY <1>3
<1>5. ASSUME NEW i \in 1 .. n PROVE part[i] = rows[s + i]
  <2>1. i \in 1 .. (s + n) - (s + 1) + 1 /\ (s + 1) + i - 1 = s + i
    OBVIOUS
  <2> QED BY <1>3, <2>1
<1> QED BY <1>3, <1>4, <1>5 DEF part

\* Whatever the previous key, only rows of the table are found, ...
LEMMA FollowingOfTable ==
    ASSUME NEW R, NEW table \in Seq(R), NEW previous
    PROVE  Following(table, previous) \in Seq(ToSet(table))
<1> DEFINE N == Len(table)
           W == ToSet(table)
<1>1. N \in Nat /\ <<>> \in Seq(W) /\ \A n \in 1 .. N : table[n] \in W
  <2>1. DOMAIN table = 1 .. N
    OBVIOUS
  <2> QED BY <2>1 DEF ToSet
<1>2. PICK f : Follow(f, table, previous)
  BY FollowingIs
<1> DEFINE S == {n \in 0 .. N : f[n] \in Seq(W)}
<1>3. 0 \in S
  <2>1. f[0] = <<>>
    BY <1>2 DEF Follow
  <2>2. 0 \in 0 .. N
    BY <1>1
  <2> HIDE DEF W, N
  <2> QED BY <1>1, <2>1, <2>2
<1>4. ASSUME NEW n \in 1 .. N, n - 1 \in S PROVE n \in S
  <2>1. f[n - 1] \in Seq(W) /\ table[n] \in W
    BY <1>1, <1>4
  <2>2. f[n] = IF After(previous, table[n]) THEN Append(f[n - 1], table[n]) ELSE f[n - 1]
    BY <1>2 DEF Follow
  <2> HIDE DEF W
  <2>3. f[n] \in Seq(W)
    BY <2>1, <2>2
  <2> QED BY <2>3
<1>5. N \in S
  <2> HIDE DEF S
  <2>1. S \in SUBSET (0 .. N) /\ N \in 0 .. N
    BY <1>1 DEF S
  <2> QED BY <1>1, <1>3, <1>4, <2>1, Through
<1> QED BY <1>2, <1>5 DEF Follow

\* ... and of rows in order all that are after the s-th.
LEMMA FollowingFrom ==
    ASSUME NEW R, NEW rows \in Seq(R), NEW s \in 0 .. Len(rows), NEW previous,
           \A n \in 1 .. Len(rows) : After(previous, rows[n]) <=> s < n
    PROVE  Following(rows, previous) = SubSeq(rows, s + 1, Len(rows))
<1> DEFINE N == Len(rows)
<1>1. N \in Nat /\ s \in 0 .. N /\ \A n \in 1 .. N : rows[n] \in R
  OBVIOUS
<1>2. PICK f : Follow(f, rows, previous)
  BY FollowingIs
<1> DEFINE S == {n \in 0 .. N : f[n] = SubSeq(rows, s + 1, n)}
<1>3. 0 \in S
  <2>1. SubSeq(rows, s + 1, 0) = <<>>
    BY <1>1, SubSeqEmpty
  <2>2. f[0] = <<>>
    BY <1>2 DEF Follow
  <2>3. 0 \in 0 .. N
    BY <1>1
  <2> HIDE DEF N
  <2> QED BY <2>1, <2>2, <2>3
<1>4. ASSUME NEW n \in 1 .. N, n - 1 \in S PROVE n \in S
  <2>1. f[n - 1] = SubSeq(rows, s + 1, n - 1) /\ n \in 0 .. N
    BY <1>1, <1>4
  <2>2. f[n] = IF s < n THEN Append(f[n - 1], rows[n]) ELSE f[n - 1]
    BY <1>2 DEF Follow
  <2>3. CASE s < n
    <3>1. SubSeq(rows, s + 1, n) = SubSeq(rows, s + 1, n - 1) \o <<rows[n]>>
      <4>1. s + 1 \in 1 .. N /\ n \in s + 1 .. N
        BY <1>1, <2>3
      <4> QED BY <4>1, SubSeqRecursiveSecond
    <3>2. SubSeq(rows, s + 1, n - 1) \in Seq(R)
      <4>1. \A i \in s + 1 .. n - 1 : rows[i] \in R
        BY <1>1
      <4> QED BY <1>1, <4>1, SubSeqProperties
    <3>3. Append(SubSeq(rows, s + 1, n - 1), rows[n]) = SubSeq(rows, s + 1, n - 1) \o <<rows[n]>>
      BY <1>1, <3>2, AppendIsConcat
    <3> QED BY <2>1, <2>2, <2>3, <3>1, <3>3
  <2>4. CASE ~(s < n)
    <3>1. SubSeq(rows, s + 1, n - 1) = <<>> /\ SubSeq(rows, s + 1, n) = <<>>
      BY <1>1, <2>4, SubSeqEmpty
    <3> QED BY <2>1, <2>2, <2>4, <3>1
  <2> QED BY <2>3, <2>4
<1>5. N \in S
  <2> HIDE DEF S
  <2>1. S \in SUBSET (0 .. N) /\ N \in 0 .. N
    BY <1>1 DEF S
  <2> QED BY <1>1, <1>3, <1>4, <2>1, Through
<1> QED BY <1>2, <1>5 DEF Follow

\* A page is made of rows of the table.
LEMMA SelectOfTable ==
    ASSUME NEW R, NEW table \in Seq(R), NEW previous, NEW count \in Nat,
           NEW i \in DOMAIN Select(table, previous, count)
    PROVE  \E j \in DOMAIN table : Select(table, previous, count)[i] = table[j]
<1> DEFINE rest == Following(table, previous)
           n == IF count < Len(rest) THEN count ELSE Len(rest)
           W == ToSet(table)
<1>1. rest \in Seq(W)
  BY FollowingOfTable
<1>2. Select(table, previous, count) = SubSeq(rest, 1, n)
  BY DEF Select
<1> HIDE DEF rest, W
<1>3. n \in Nat /\ n <= Len(rest)
  BY <1>1
<1>4. \A k \in 1 .. n : rest[k] \in W
  BY <1>1, <1>3
<1> HIDE DEF n
<1>5. SubSeq(rest, 1, n) \in Seq(W)
  BY <1>3, <1>4, SubSeqProperties
<1>6. Select(table, previous, count)[i] \in W
  BY <1>2, <1>5
<1> QED BY <1>6 DEF W, ToSet

\* Of rows in order a page is what is asked for, as far as there are rows.
LEMMA SelectFrom ==
    ASSUME NEW R, NEW rows \in Seq(R), NEW s \in 0 .. Len(rows), NEW previous,
           \A n \in 1 .. Len(rows) : After(previous, rows[n]) <=> s < n,
           NEW count \in Nat
    PROVE  Select(rows, previous, count) = SubSeq(rows, s + 1, IF s + count < Len(rows) THEN s + count ELSE Len(rows))
<1> DEFINE N == Len(rows)
           rest == SubSeq(rows, s + 1, N)
           n == IF count < Len(rest) THEN count ELSE Len(rest)
           last == IF s + count < N THEN s + count ELSE N
<1>1. N \in Nat /\ s \in 0 .. N /\ \A i \in 1 .. N : rows[i] \in R
  OBVIOUS
<1>2. Following(rows, previous) = rest
  BY FollowingFrom
<1>3. Select(rows, previous, count) = SubSeq(rest, 1, n)
  BY <1>2 DEF Select
<1>4. rest \in Seq(R) /\ Len(rest) = N - s /\ \A i \in 1 .. N - s : rest[i] = rows[s + i]
  <2>1. \A m \in Nat : s + m <= Len(rows) =>
          /\ SubSeq(rows, s + 1, s + m) \in Seq(R) /\ Len(SubSeq(rows, s + 1, s + m)) = m
          /\ \A i \in 1 .. m : SubSeq(rows, s + 1, s + m)[i] = rows[s + i]
    BY <1>1, RowsAfter
  <2>2. N - s \in Nat /\ s + (N - s) = N
    BY <1>1
  <2> HIDE DEF N
  <2>3. SubSeq(rows, s + 1, s + (N - s)) = rest
    BY <2>2
  <2>4. s + (N - s) <= Len(rows)
    BY <2>2, <1>1 DEF N
  <2> HIDE DEF rest
  <2> QED BY <2>1, <2>2, <2>3, <2>4
<1> HIDE DEF rest
<1>5. n \in Nat /\ n <= N - s /\ last = s + n
  BY <1>1, <1>4
<1> HIDE DEF n, last
<1>6. SubSeq(rest, 1, n) \in Seq(R) /\ Len(SubSeq(rest, 1, n)) = n /\ \A i \in 1 .. n : SubSeq(rest, 1, n)[i] = rows[s + i]
  <2>1. 0 + n <= Len(rest) /\ 0 + 1 = 1 /\ 0 + n = n /\ \A i \in 1 .. n : 0 + i = i
    BY <1>1, <1>4, <1>5
  <2>2. SubSeq(rest, 1, n) \in Seq(R) /\ Len(SubSeq(rest, 1, n)) = n /\ \A i \in 1 .. n : SubSeq(rest, 1, n)[i] = rest[i]
    <3>1. /\ SubSeq(rest, 0 + 1, 0 + n) \in Seq(R) /\ Len(SubSeq(rest, 0 + 1, 0 + n)) = n
          /\ \A i \in 1 .. n : SubSeq(rest, 0 + 1, 0 + n)[i] = rest[0 + i]
      BY <1>4, <1>5, <2>1, RowsAfter
    <3> QED BY <2>1, <3>1
  <2>3. \A i \in 1 .. n : i \in 1 .. N - s
    BY <1>1, <1>5
  <2> QED BY <1>4, <2>2, <2>3
<1>7. SubSeq(rows, s + 1, last) \in Seq(R) /\ Len(SubSeq(rows, s + 1, last)) = n
      /\ \A i \in 1 .. n : SubSeq(rows, s + 1, last)[i] = rows[s + i]
  <2>1. s \in Nat /\ s + n <= N
    BY <1>1, <1>5
  <2> QED BY <1>5, <2>1, RowsAfter
<1>8. SubSeq(rest, 1, n) = SubSeq(rows, s + 1, last)
  BY <1>6, <1>7, SeqEqual
<1> QED BY <1>3, <1>8 DEF last

\* A page ends after its first row, within the rows, and within the bytes.
LEMMA PageEndIs ==
    ASSUME NEW R, \A r \in R : r.size \in Nat, NEW rows \in Seq(R), NEW start \in Nat, start < Len(rows), NEW limit \in Limits
    PROVE  LET end == VerificationPageEnd(rows, start, limit) IN
           /\ end \in start + 1 .. Len(rows)
           /\ end = start + 1 \/ BytesOf(SubSeq(rows, start + 1, end)) <= limit.bytes
<1> DEFINE N == Len(rows)
           target == IF limit.bytes < 2 THEN 1 ELSE limit.bytes \div 2
           last == IF start + limit.rows < N THEN start + limit.rows ELSE N
           Fits(e) == e = start + 1 \/ BytesOf(SubSeq(rows, start + 1, e)) <= target
           Ends(e) == Fits(e) /\ (e < last => BytesOf(SubSeq(rows, start + 1, e + 1)) > target)
           T == {d \in Nat : d <= last - (start + 1) /\ Fits(last - d)}
<1>1. N \in Nat /\ limit.rows \in Nat \ {0} /\ limit.bytes \in Nat \ {0}
  BY LimitsAssumption
<1>2. last \in Nat /\ start + 1 <= last /\ last <= N
  BY <1>1
<1>3. target \in Nat /\ target <= limit.bytes
  BY <1>1
<1>4. ASSUME NEW e \in start + 1 .. last PROVE BytesOf(SubSeq(rows, start + 1, e)) \in Nat
  <2>1. \A i \in start + 1 .. e : rows[i] \in R
    BY <1>1, <1>2
  <2>2. start + 1 \in Int /\ e \in Int
    BY <1>2
  <2>3. SubSeq(rows, start + 1, e) \in Seq(R)
    BY <2>1, <2>2, SubSeqProperties
  <2> QED BY <2>3, BytesAre
<1>5. VerificationPageEnd(rows, start, limit) = CHOOSE e \in start + 1 .. last : Ends(e)
  BY Zenon DEF VerificationPageEnd
<1> HIDE DEF last, target
<1>6. last - (start + 1) \in T
  <2>1. last - (last - (start + 1)) = start + 1 /\ last - (start + 1) \in Nat
    BY <1>2
  <2>2. Fits(last - (last - (start + 1)))
    BY <2>1
  <2> HIDE DEF Fits
  <2> QED BY <1>2, <2>1, <2>2
<1>7. PICK d \in T : \A k \in T : d <= k
  <2>1. T \subseteq Nat /\ T # {}
    BY <1>6
  <2> HIDE DEF T
  <2> QED BY <2>1, LeastNumber
<1> DEFINE e == last - d
<1>8. d \in Nat /\ e \in start + 1 .. last /\ Fits(e)
  <2> HIDE DEF Fits
  <2> QED BY <1>2, <1>7
<1>9. ASSUME e < last PROVE BytesOf(SubSeq(rows, start + 1, e + 1)) > target
  <2>1. d - 1 \in Nat /\ last - (d - 1) = e + 1 /\ d - 1 <= last - (start + 1) /\ ~(d <= d - 1) /\ e + 1 \in start + 1 .. last
    BY <1>2, <1>8, <1>9
  <2>2. ~Fits(e + 1)
    <3> HIDE DEF Fits, e
    <3> QED BY <1>7, <2>1
  <2> QED BY <1>3, <1>4, <2>1, <2>2
<1>10. Ends(e)
  BY <1>8, <1>9
<1> HIDE DEF e
<1>11. \E x \in start + 1 .. last : Ends(x)
  BY <1>8, <1>10, Zenon
<1> DEFINE end == VerificationPageEnd(rows, start, limit)
<1>12. end \in start + 1 .. last /\ Ends(end)
  <2> HIDE DEF Ends
  <2> QED BY <1>5, <1>11, Zenon
<1>13. end \in start + 1 .. N
  BY <1>1, <1>2, <1>12
<1>14. end = start + 1 \/ BytesOf(SubSeq(rows, start + 1, end)) <= limit.bytes
  BY <1>1, <1>3, <1>4, <1>12
<1> QED BY <1>13, <1>14

\* The pages go on until the last row.
PagesGoOn(end, rows, limit) ==
    LET N == Len(rows) IN
    /\ end \in [0 .. N -> 0 .. N] /\ end[0] = 0 /\ end[N] = N
    /\ \A n \in 1 .. N :
          IF end[n - 1] = N THEN end[n] = N
          ELSE /\ end[n - 1] < end[n]
               /\ end[n] = end[n - 1] + 1 \/ BytesOf(SubSeq(rows, end[n - 1] + 1, end[n])) <= limit.bytes

LEMMA PagesEnd ==
    ASSUME NEW R, \A r \in R : r.size \in Nat, NEW rows \in Seq(R), NEW limit \in Limits
    PROVE  PagesGoOn(PageEnds(rows, limit), rows, limit)
<1> DEFINE N == Len(rows)
           Next1(s) == IF s = N THEN s ELSE VerificationPageEnd(rows, s, limit)
           step == [p \in (1 .. N) \X (0 .. N) |-> Next1(p[2])]
           f == CHOOSE g : g = [n \in 0 .. N |->
                  IF n = 0 THEN 0 ELSE IF g[n - 1] = N THEN g[n - 1] ELSE VerificationPageEnd(rows, g[n - 1], limit)]
<1>1. N \in Nat
  OBVIOUS
<1>2. ASSUME NEW s \in 0 .. N, s # N
      PROVE  /\ VerificationPageEnd(rows, s, limit) \in s + 1 .. N
             /\ \/ VerificationPageEnd(rows, s, limit) = s + 1
                \/ BytesOf(SubSeq(rows, s + 1, VerificationPageEnd(rows, s, limit))) <= limit.bytes
  <2>1. s \in Nat /\ s < Len(rows)
    BY <1>1, <1>2
  <2> QED BY <2>1, PageEndIs
<1>3. step \in [(1 .. N) \X (0 .. N) -> 0 .. N]
  <2>1. \A s \in 0 .. N : Next1(s) \in 0 .. N
    BY <1>1, <1>2
  <2> HIDE DEF Next1
  <2> QED BY <2>1
<1> HIDE DEF step, N
<1>4. PICK h : Recurs(h, N, 0 .. N, 0, step)
  <2>1. 0 \in 0 .. N
    BY <1>1
  <2> QED BY <1>1, <1>3, <2>1, Recursion, Zenon
<1>5. h \in [0 .. N -> 0 .. N] /\ h[0] = 0 /\ \A n \in 1 .. N : h[n] = step[<<n, h[n - 1]>>]
  BY <1>4 DEF Recurs
<1> DEFINE e(g, n) == IF g[n - 1] = N THEN g[n - 1] ELSE VerificationPageEnd(rows, g[n - 1], limit)
<1>6. \A n \in 0 .. N : h[n] = IF n = 0 THEN 0 ELSE e(h, n)
  <2>1. SUFFICES ASSUME NEW n \in 0 .. N, n # 0 PROVE h[n] = e(h, n)
    BY <1>5
  <2>2. n \in 1 .. N /\ n - 1 \in 0 .. N
    BY <1>1, <2>1
  <2>3. h[n - 1] \in 0 .. N /\ h[n] = step[<<n, h[n - 1]>>]
    BY <1>5, <2>2
  <2> QED BY <2>2, <2>3 DEF step
<1>7. h = [n \in 0 .. N |-> IF n = 0 THEN 0 ELSE e(h, n)]
  <2> DEFINE d(n) == IF n = 0 THEN 0 ELSE e(h, n)
  <2>1. \A n \in 0 .. N : h[n] = d(n)
    BY <1>6
  <2> HIDE DEF d
  <2>2. h = [n \in 0 .. N |-> d(n)]
    BY <1>5, <2>1
  <2> QED BY <2>2, Zenon DEF d
<1>8. f = [n \in 0 .. N |-> IF n = 0 THEN 0 ELSE e(f, n)]
  BY <1>7, Zenon
<1>9. PageEnds(rows, limit) = f
  BY Zenon DEF PageEnds, N
<1> HIDE DEF f
<1>10. DOMAIN f = 0 .. N /\ f[0] = 0 /\ \A n \in 1 .. N : f[n] = e(f, n)
  <2>1. 0 \in 0 .. N /\ \A n \in 1 .. N : n \in 0 .. N /\ n # 0
    BY <1>1
  <2> HIDE DEF e
  <2>2. DOMAIN f = 0 .. N
    BY <1>8
  <2> QED BY <1>8, <2>1, <2>2
<1> DEFINE S == {n \in 0 .. N : f[n] \in 0 .. N /\ n <= f[n]}
<1>11. 0 \in S
  BY <1>1, <1>10
<1>12. ASSUME NEW n \in 1 .. N, n - 1 \in S PROVE n \in S
  <2>1. f[n - 1] \in 0 .. N /\ n - 1 <= f[n - 1]
    BY <1>12
  <2>2. CASE f[n - 1] = N
    <3>1. f[n] = N
      BY <1>10, <2>2
    <3> QED BY <1>1, <3>1
  <2>3. CASE f[n - 1] # N
    <3>1. f[n] = VerificationPageEnd(rows, f[n - 1], limit)
      BY <1>10, <2>3
    <3>2. f[n] \in f[n - 1] + 1 .. N
      BY <1>2, <2>1, <2>3, <3>1
    <3> QED BY <1>1, <2>1, <3>2
  <2> QED BY <2>2, <2>3
<1>13. \A n \in 0 .. N : n \in S
  <2> HIDE DEF S
  <2>1. S \in SUBSET (0 .. N)
    BY DEF S
  <2> QED BY <1>1, <1>11, <1>12, <2>1, Through
<1>14. f \in [0 .. N -> 0 .. N] /\ f[N] = N
  <2>1. N \in 0 .. N
    BY <1>1
  <2>2. f = [n \in 0 .. N |-> f[n]]
    BY <1>8, <1>10
  <2>3. \A n \in 0 .. N : f[n] \in 0 .. N
    BY <1>13
  <2>4. f \in [0 .. N -> 0 .. N]
    BY <2>2, <2>3
  <2>5. N <= f[N] /\ f[N] <= N /\ f[N] \in Nat
    BY <1>1, <1>13, <2>1
  <2> QED BY <1>1, <2>4, <2>5
<1>15. ASSUME NEW n \in 1 .. N
       PROVE  IF f[n - 1] = N THEN f[n] = N
              ELSE f[n - 1] < f[n] /\ (f[n] = f[n - 1] + 1 \/ BytesOf(SubSeq(rows, f[n - 1] + 1, f[n])) <= limit.bytes)
  <2>1. CASE f[n - 1] = N
    BY <1>10, <2>1
  <2>2. CASE f[n - 1] # N
    <3>1. f[n - 1] \in 0 .. N
      BY <1>1, <1>13
    <3>2. f[n] = VerificationPageEnd(rows, f[n - 1], limit)
      BY <1>10, <2>2
    <3> QED BY <1>1, <1>2, <2>2, <3>1, <3>2
  <2> QED BY <2>1, <2>2
<1> QED BY <1>9, <1>10, <1>14, <1>15 DEF PagesGoOn, N

-------------------------------------------------------------------------------
(* Issues: a table is accepted when it is the projection, and only then. *)

\* Rows by their numbers.
Numbered(rows) == rows \in Seq(Rows) /\ \A i, j \in DOMAIN rows : i < j => rows[i].key[1] < rows[j].key[1]

LEMMA KeysAreNumbers ==
    ASSUME NEW r \in Rows
    PROVE  r.key = <<r.key[1]>> /\ r.key[1] \in 1 .. Keys /\ r.size \in Nat
<1>1. PICK id \in 1 .. Keys, size \in Sizes : r = Row(<<id>>, size)
  BY DEF Rows, Ids
<1>2. r.key = <<id>> /\ r.size = size
  BY <1>1 DEF Row
<1> QED BY <1>2 DEF Sizes

LEMMA BeforeIsLess ==
    ASSUME NEW a, NEW b
    PROVE  Before(<<a>>, <<b>>) <=> a < b
<1>1. DOMAIN <<a>> = {1} /\ <<a>>[1] = a /\ <<b>>[1] = b /\ 1 .. (1 - 1) = {}
  OBVIOUS
<1> QED BY <1>1 DEF Before

LEMMA BoundedIsSequence ==
    ASSUME NEW S, NEW n, NEW s \in BoundedSeq(S, n)
    PROVE  s \in Seq(S) /\ Len(s) \in Nat /\ DOMAIN s = 1 .. Len(s)
<1>1. PICK m \in 0 .. n : s \in [1 .. m -> S]
  BY DEF BoundedSeq, SeqOf
<1>2. m \in Nat
  OBVIOUS
<1>3. s \in Seq(S)
  BY <1>1, <1>2
<1> QED BY <1>3, LenProperties

LEMMA TableInOrder ==
    ASSUME NEW table \in Tables
    PROVE  table \in Seq(Rows) /\ \A i, j \in DOMAIN table : i < j => table[i].key[1] <= table[j].key[1]
<1>1. InOrder(table) /\ table \in Seq(Rows)
  BY BoundedIsSequence DEF Tables
<1>2. ASSUME NEW i \in DOMAIN table, NEW j \in DOMAIN table, i < j PROVE table[i].key[1] <= table[j].key[1]
  <2>1. table[i] \in Rows /\ table[j] \in Rows
    BY <1>1
  <2>2. table[i].key = <<table[i].key[1]>> /\ table[j].key = <<table[j].key[1]>>
    BY <2>1, KeysAreNumbers
  <2>3. table[i].key[1] \in 1 .. Keys /\ table[j].key[1] \in 1 .. Keys
    BY <2>1, KeysAreNumbers
  <2>4. ~Before(table[j].key, table[i].key)
    BY <1>1, <1>2 DEF InOrder
  <2>5. ~(table[j].key[1] < table[i].key[1])
    BY <2>2, <2>4, BeforeIsLess
  <2> QED BY <2>3, <2>5, KeysAssumption
<1> QED BY <1>1, <1>2

LEMMA ProjectionIsNumbered ==
    ASSUME NEW expected \in Projections
    PROVE  Numbered(expected)
<1>1. expected \in Tables /\ \A i, j \in DOMAIN expected : expected[i].key = expected[j].key => i = j
  BY DEF Projections
<1>2. expected \in Seq(Rows) /\ \A i, j \in DOMAIN expected : i < j => expected[i].key[1] <= expected[j].key[1]
  BY <1>1, TableInOrder
<1>3. ASSUME NEW i \in DOMAIN expected, NEW j \in DOMAIN expected, i < j
      PROVE  expected[i].key[1] < expected[j].key[1]
  <2>1. expected[i] \in Rows /\ expected[j] \in Rows /\ i \in Nat /\ j \in Nat
    BY <1>2
  <2>2. /\ expected[i].key = <<expected[i].key[1]>> /\ expected[j].key = <<expected[j].key[1]>>
        /\ expected[i].key[1] \in 1 .. Keys /\ expected[j].key[1] \in 1 .. Keys
    BY <2>1, KeysAreNumbers
  <2>3. expected[i].key # expected[j].key
    BY <1>1, <1>3, <2>1
  <2>4. expected[i].key[1] # expected[j].key[1]
    BY <2>2, <2>3
  <2> QED BY <1>2, <1>3, <2>2, <2>4, KeysAssumption
<1> QED BY <1>2, <1>3 DEF Numbered

LEMMA AfterItself ==
    ASSUME NEW rows, Numbered(rows), NEW s \in 0 .. Len(rows), NEW n \in 1 .. Len(rows)
    PROVE  After(Previous(rows, s), rows[n]) <=> s < n
<1>1. rows \in Seq(Rows) /\ Len(rows) \in Nat /\ DOMAIN rows = 1 .. Len(rows)
  BY DEF Numbered
<1>2. CASE s = 0
  <2>1. Previous(rows, s) = <<>> /\ s < n
    BY <1>2 DEF Previous
  <2> QED BY <2>1 DEF After
<1>3. CASE s # 0
  <2>1. s \in DOMAIN rows /\ n \in DOMAIN rows /\ rows[s] \in Rows /\ rows[n] \in Rows
    BY <1>1, <1>3
  <2>2. /\ rows[s].key = <<rows[s].key[1]>> /\ rows[n].key = <<rows[n].key[1]>>
        /\ rows[s].key[1] \in 1 .. Keys /\ rows[n].key[1] \in 1 .. Keys
    BY <2>1, KeysAreNumbers
  <2>3. Previous(rows, s) = rows[s].key /\ Previous(rows, s) # <<>>
    <3>1. Previous(rows, s) = rows[s].key
      BY <1>3 DEF Previous
    <3>2. \A x : <<x>> # <<>>
      OBVIOUS
    <3> QED BY <2>2, <3>1, <3>2
  <2>4. After(Previous(rows, s), rows[n]) <=> rows[s].key[1] < rows[n].key[1]
    BY <2>2, <2>3, BeforeIsLess DEF After
  <2>5. s < n => rows[s].key[1] < rows[n].key[1]
    BY <2>1 DEF Numbered
  <2>6. n < s => rows[n].key[1] < rows[s].key[1]
    BY <2>1 DEF Numbered
  <2>7. s = n \/ s < n \/ n < s
    BY <1>1
  <2> QED BY <1>1, <2>2, <2>4, <2>5, <2>6, <2>7, KeysAssumption
<1> QED BY <1>2, <1>3

\* The projection is accepted: no page of it exceeds the bytes, if no row does.
LEMMA ItselfIsAccepted ==
    ASSUME NEW rows, Numbered(rows), NEW limit \in Limits, \A n \in DOMAIN rows : rows[n].size <= limit.bytes
    PROVE  VerifyRows(rows, rows, limit)
<1> DEFINE N == Len(rows)
           end == PageEnds(rows, limit)
           Page(n) == Select(rows, Previous(rows, end[n - 1]), end[n] - end[n - 1])
           Part(n) == SubSeq(rows, end[n - 1] + 1, end[n])
<1>1. rows \in Seq(Rows) /\ N \in Nat /\ DOMAIN rows = 1 .. N /\ \A r \in Rows : r.size \in Nat
  BY KeysAreNumbers DEF Numbered
<1>2. PagesGoOn(end, rows, limit)
  BY <1>1, PagesEnd
<1>3. limit.bytes \in Nat
  BY LimitsAssumption
<1> HIDE DEF end
<1>4. ASSUME NEW n \in 1 .. N PROVE BytesOf(Page(n)) <= limit.bytes /\ Page(n) = Part(n)
  <2>1. end[n - 1] \in 0 .. N /\ end[n] \in 0 .. N /\ end[n - 1] <= end[n]
    <3>1. n - 1 \in 0 .. N /\ n \in 0 .. N
      BY <1>1
    <3>2. end \in [0 .. N -> 0 .. N]
      BY <1>2 DEF PagesGoOn
    <3>3. IF end[n - 1] = N THEN end[n] = N ELSE end[n - 1] < end[n]
      BY <1>2 DEF PagesGoOn
    <3>4. end[n - 1] \in 0 .. N /\ end[n] \in 0 .. N
      BY <3>1, <3>2
    <3> QED BY <1>1, <3>3, <3>4
  <2> DEFINE s == end[n - 1]
             count == end[n] - end[n - 1]
  <2>2. s \in 0 .. N /\ count \in Nat /\ s + count = end[n] /\ s + count <= N
    BY <1>1, <2>1
  <2>3. Page(n) = Part(n)
    <3>1. \A m \in 1 .. Len(rows) : After(Previous(rows, s), rows[m]) <=> s < m
      BY <2>2, AfterItself
    <3> HIDE DEF s, count
    <3>2. Select(rows, Previous(rows, s), count) = SubSeq(rows, s + 1, IF s + count < N THEN s + count ELSE N)
      BY <1>1, <2>2, <3>1, SelectFrom
    <3>3. (IF s + count < N THEN s + count ELSE N) = end[n]
      <4>1. end[n] < N \/ end[n] = N
        BY <1>1, <2>1
      <4>2. s + count = end[n]
        BY <2>2
      <4> HIDE DEF N
      <4> QED BY <4>1, <4>2
    <3> QED BY <3>2, <3>3 DEF s, count
  <2>4. BytesOf(Part(n)) <= limit.bytes
    <3>1. Part(n) \in Seq(Rows) /\ Len(Part(n)) = count /\ \A i \in 1 .. count : Part(n)[i] = rows[s + i]
      <4>1. s \in Nat /\ s + count <= Len(rows)
        BY <1>1, <2>2
      <4> HIDE DEF s, count
      <4>2. /\ SubSeq(rows, s + 1, s + count) \in Seq(Rows) /\ Len(SubSeq(rows, s + 1, s + count)) = count
            /\ \A i \in 1 .. count : SubSeq(rows, s + 1, s + count)[i] = rows[s + i]
        BY <1>1, <2>2, <4>1, RowsAfter
      <4>3. SubSeq(rows, s + 1, s + count) = Part(n)
        BY <2>2 DEF s
      <4> QED BY <4>2, <4>3
    <3>2. CASE end[n - 1] = N
      <4>1. count = 0
        <5>1. end[n] = N
          BY <1>2, <3>2 DEF PagesGoOn
        <5> QED BY <1>1, <3>2, <5>1
      <4>2. BytesOf(Part(n)) = 0
        BY <1>1, <3>1, <4>1, BytesAre
      <4> QED BY <1>3, <4>2
    <3>3. CASE end[n - 1] # N
      <4>1. end[n] = end[n - 1] + 1 \/ BytesOf(Part(n)) <= limit.bytes
        BY <1>2, <3>3 DEF PagesGoOn
      <4>2. CASE end[n] = end[n - 1] + 1
        <5>1. count = 1 /\ s + 1 \in 1 .. N
          BY <1>1, <2>1, <2>2, <4>2
        <5>2. BytesOf(Part(n)) = Part(n)[1].size /\ Part(n)[1] = rows[s + 1]
          <6>1. 1 \in 1 .. count
            BY <5>1
          <6> HIDE DEF Part, s, count
          <6> QED BY <1>1, <3>1, <5>1, <6>1, BytesAre
        <5>3. rows[s + 1].size <= limit.bytes
          BY <1>1, <5>1
        <5> QED BY <5>2, <5>3
      <4> QED BY <4>1, <4>2
    <3> QED BY <3>2, <3>3
  <2> QED BY <2>3, <2>4
<1>5. Select(rows, Previous(rows, N), 1) = <<>>
  <2>1. N \in 0 .. N
    BY <1>1
  <2>2. \A m \in 1 .. Len(rows) : After(Previous(rows, N), rows[m]) <=> N < m
    BY <2>1, AfterItself
  <2>3. Select(rows, Previous(rows, N), 1) = SubSeq(rows, N + 1, IF N + 1 < N THEN N + 1 ELSE N)
    BY <1>1, <2>1, <2>2, SelectFrom
  <2>4. (IF N + 1 < N THEN N + 1 ELSE N) = N /\ SubSeq(rows, N + 1, N) = <<>>
    <3>1. ~(N + 1 < N) /\ N < N + 1 /\ N + 1 \in Int /\ N \in Int
      BY <1>1
    <3> HIDE DEF N
    <3> QED BY <3>1, SubSeqEmpty
  <2> QED BY <2>3, <2>4
<1> QED BY <1>4, <1>5 DEF VerifyRows, end

\* Numbers that only grow, from 1 .. N to 1 .. N, are all of them.
LEMMA GrowingIsEvery ==
    ASSUME NEW N \in Nat, NEW g \in [1 .. N -> 1 .. N], \A i, j \in 1 .. N : i < j => g[i] < g[j]
    PROVE  \A i \in 1 .. N : g[i] = i
<1> DEFINE S == {n \in 0 .. N : n \in 1 .. N => n <= g[n]}
           T == {n \in 0 .. N : n < N => g[N - n] <= N - n}
<1>1. \A n \in 0 .. N : n \in S
  <2>1. 0 \in S
    OBVIOUS
  <2>2. ASSUME NEW n \in 1 .. N, n - 1 \in S PROVE n \in S
    <3>1. CASE n = 1
      <4>1. 1 <= g[n]
        OBVIOUS
      <4> QED BY <3>1, <4>1
    <3>2. CASE n # 1
      <4>1. n - 1 \in 1 .. N /\ n - 1 < n
        BY <3>2
      <4>2. n - 1 <= g[n - 1] /\ g[n - 1] < g[n] /\ g[n - 1] \in 1 .. N /\ g[n] \in 1 .. N
        BY <2>2, <4>1
      <4> QED BY <4>2
    <3> QED BY <3>1, <3>2
  <2> HIDE DEF S
  <2>3. S \in SUBSET (0 .. N)
    BY DEF S
  <2> QED BY <2>1, <2>2, <2>3, Through
<1>2. \A n \in 0 .. N : n \in T
  <2>1. 0 \in T
    <3>1. 0 < N => N - 0 = N /\ N \in 1 .. N /\ g[N] <= N
      OBVIOUS
    <3> QED BY <3>1
  <2>2. ASSUME NEW n \in 1 .. N, n - 1 \in T PROVE n \in T
    <3>1. SUFFICES ASSUME n < N PROVE g[N - n] <= N - n
      OBVIOUS
    <3>2. N - n \in 1 .. N /\ N - (n - 1) \in 1 .. N /\ N - n < N - (n - 1) /\ n - 1 < N
      BY <3>1
    <3>3. g[N - (n - 1)] <= N - (n - 1)
      BY <2>2, <3>2
    <3>4. g[N - n] < g[N - (n - 1)] /\ g[N - n] \in 1 .. N /\ g[N - (n - 1)] \in 1 .. N
      BY <3>2
    <3> QED BY <3>3, <3>4
  <2> HIDE DEF T
  <2>3. T \in SUBSET (0 .. N)
    BY DEF T
  <2> QED BY <2>1, <2>2, <2>3, Through
<1>3. ASSUME NEW i \in 1 .. N PROVE g[i] = i
  <2>1. i \in 0 .. N /\ N - i \in 0 .. N /\ N - i < N /\ N - (N - i) = i /\ g[i] \in 1 .. N
    OBVIOUS
  <2>2. i <= g[i]
    BY <1>1, <2>1
  <2>3. g[N - (N - i)] <= N - (N - i)
    BY <1>2, <2>1
  <2> QED BY <2>1, <2>2, <2>3
<1> QED BY <1>3

\* Every row of what is expected is on some page.
LEMMA PagesReachAll ==
    ASSUME NEW rows, NEW limit, NEW end, Len(rows) \in Nat, PagesGoOn(end, rows, limit), NEW i \in 1 .. Len(rows)
    PROVE  \E n \in 1 .. Len(rows) : end[n - 1] \in 0 .. Len(rows) /\ end[n] \in 0 .. Len(rows) /\ end[n - 1] < i /\ i <= end[n]
<1> DEFINE N == Len(rows)
           T == {n \in 0 .. N : i <= end[n]}
<1>1. N \in Nat /\ end \in [0 .. N -> 0 .. N] /\ end[0] = 0 /\ end[N] = N
  BY DEF PagesGoOn
<1>2. N \in T
  BY <1>1
<1>3. PICK n \in T : \A k \in T : n <= k
  <2>1. T \subseteq Nat /\ T # {}
    BY <1>1, <1>2
  <2> HIDE DEF T
  <2> QED BY <2>1, LeastNumber
<1>4. n # 0
  BY <1>1, <1>3
<1>5. n \in 1 .. N /\ n - 1 \in 0 .. N /\ ~(n <= n - 1)
  BY <1>1, <1>3, <1>4
<1>6. n - 1 \notin T
  <2> HIDE DEF T
  <2> QED BY <1>3, <1>5
<1>7. end[n - 1] \in 0 .. N /\ end[n] \in 0 .. N
  BY <1>1, <1>5
<1>8. end[n - 1] < i /\ i <= end[n]
  BY <1>1, <1>3, <1>5, <1>6, <1>7
<1> QED BY <1>5, <1>7, <1>8

\* What is accepted has every row of the projection, and no other.
LEMMA AcceptedIsTheSame ==
    ASSUME NEW expected, Numbered(expected), NEW table \in Tables, NEW limit \in Limits,
           VerifyRows(table, expected, limit), Len(table) = Len(expected)
    PROVE  table = expected
<1> DEFINE N == Len(expected)
           end == PageEnds(expected, limit)
           Page(n) == Select(table, Previous(expected, end[n - 1]), end[n] - end[n - 1])
<1>1. expected \in Seq(Rows) /\ N \in Nat /\ DOMAIN expected = 1 .. N /\ \A r \in Rows : r.size \in Nat
  BY KeysAreNumbers DEF Numbered
<1>2. table \in Seq(Rows) /\ DOMAIN table = 1 .. N /\ \A i, j \in 1 .. N : i < j => table[i].key[1] <= table[j].key[1]
  BY TableInOrder
<1>3. PagesGoOn(end, expected, limit)
  BY <1>1, PagesEnd
<1>4. \A n \in 1 .. N : Page(n) = SubSeq(expected, end[n - 1] + 1, end[n])
  BY DEF VerifyRows
<1>5. ASSUME NEW i \in 1 .. N PROVE \E j \in 1 .. N : table[j] = expected[i]
  <2>1. PICK n \in 1 .. N : end[n - 1] \in 0 .. N /\ end[n] \in 0 .. N /\ end[n - 1] < i /\ i <= end[n]
    BY <1>1, <1>3, PagesReachAll
  <2> DEFINE s == end[n - 1]
             count == end[n] - end[n - 1]
             k == i - s
  <2>2. s \in Nat /\ count \in Nat /\ s + count = end[n] /\ s + count <= N /\ k \in 1 .. count /\ s + k = i
    BY <1>1, <2>1
  <2>3. Page(n) = SubSeq(expected, s + 1, s + count)
    BY <1>4, <2>2
  <2>4. Page(n) = Select(table, Previous(expected, s), count)
    OBVIOUS
  <2> HIDE DEF s, count, k, Page
  <2>5. /\ Page(n) \in Seq(Rows) /\ Len(Page(n)) = count
        /\ \A m \in 1 .. count : Page(n)[m] = expected[s + m]
    <3>1. s + count <= Len(expected)
      BY <2>2
    <3>2. /\ SubSeq(expected, s + 1, s + count) \in Seq(Rows) /\ Len(SubSeq(expected, s + 1, s + count)) = count
          /\ \A m \in 1 .. count : SubSeq(expected, s + 1, s + count)[m] = expected[s + m]
      BY <1>1, <2>2, <3>1, RowsAfter
    <3> QED BY <2>3, <3>2
  <2>6. k \in DOMAIN Page(n) /\ Page(n)[k] = expected[i]
    <3>1. DOMAIN Page(n) = 1 .. count
      BY <2>5, LenProperties
    <3> QED BY <2>2, <2>5, <3>1
  <2>7. \E j \in DOMAIN table : Page(n)[k] = table[j]
    BY <1>2, <2>2, <2>4, <2>6, SelectOfTable
  <2> QED BY <1>2, <2>6, <2>7
<1> DEFINE g == [i \in 1 .. N |-> CHOOSE j \in 1 .. N : table[j] = expected[i]]
<1>6. \A i \in 1 .. N : g[i] \in 1 .. N /\ table[g[i]] = expected[i]
  BY <1>5
<1>7. g \in [1 .. N -> 1 .. N]
  BY <1>6
<1> HIDE DEF g
<1>8. ASSUME NEW i \in 1 .. N, NEW j \in 1 .. N, i < j PROVE g[i] < g[j]
  <2>1. expected[i].key[1] < expected[j].key[1]
    BY <1>1, <1>8 DEF Numbered
  <2>2. expected[i].key[1] \in 1 .. Keys /\ expected[j].key[1] \in 1 .. Keys
    BY <1>1, KeysAreNumbers
  <2>3. CASE g[j] < g[i]
    <3>1. g[i] \in 1 .. N /\ g[j] \in 1 .. N /\ table[g[i]] = expected[i] /\ table[g[j]] = expected[j]
      BY <1>6
    <3>2. table[g[j]].key[1] <= table[g[i]].key[1]
      BY <1>2, <2>3, <3>1
    <3> QED BY <2>1, <2>2, <3>1, <3>2, KeysAssumption
  <2>4. CASE g[j] = g[i]
    BY <1>6, <2>1, <2>2, <2>4, KeysAssumption
  <2> QED BY <1>1, <1>7, <2>3, <2>4
<1>9. \A i \in 1 .. N : g[i] = i
  BY <1>1, <1>7, <1>8, GrowingIsEvery
<1>10. \A i \in 1 .. N : table[i] = expected[i]
  BY <1>6, <1>9
<1> QED BY <1>1, <1>2, <1>10, SeqEqual

-------------------------------------------------------------------------------
(* Relationships: sorted rows are in the order in which the pages read them. *)

Triples == Nat \X Nat \X Nat

LEMMA BeforeOfTriples ==
    ASSUME NEW a \in Triples, NEW b \in Triples
    PROVE  Before(a, b) <=> \/ a[1] < b[1]
                            \/ a[1] = b[1] /\ a[2] < b[2]
                            \/ a[1] = b[1] /\ a[2] = b[2] /\ a[3] < b[3]
<1>1. DOMAIN a = 1 .. 3
  BY DEF Triples
<1>2. Before(a, b) <=> \E i \in 1 .. 3 : a[i] < b[i] /\ \A j \in 1 .. (i - 1) : a[j] = b[j]
  BY <1>1 DEF Before
<1>3. 1 .. 3 = {1, 2, 3} /\ 1 .. (1 - 1) = {} /\ 1 .. (2 - 1) = {1} /\ 1 .. (3 - 1) = {1, 2}
  OBVIOUS
<1> QED BY <1>2, <1>3

LEMMA TriplesAreOrdered ==
    ASSUME NEW a \in Triples, NEW b \in Triples, NEW c \in Triples
    PROVE  /\ ~Before(a, a)
           /\ Before(a, b) => ~Before(b, a)
           /\ Before(a, b) /\ Before(b, c) => Before(a, c)
           /\ Before(a, b) \/ Before(b, a) \/ a = b
<1>1. /\ a[1] \in Nat /\ a[2] \in Nat /\ a[3] \in Nat
      /\ b[1] \in Nat /\ b[2] \in Nat /\ b[3] \in Nat
      /\ c[1] \in Nat /\ c[2] \in Nat /\ c[3] \in Nat
  BY DEF Triples
<1>2. (a[1] = b[1] /\ a[2] = b[2] /\ a[3] = b[3]) => a = b
  BY DEF Triples
<1> QED BY <1>1, <1>2, BeforeOfTriples

\* Row i comes before row j.
Precedes(rows, i, j) == Before(rows[i].key, rows[j].key) \/ (rows[i].key = rows[j].key /\ i < j)
RankIn(rows, i) == {j \in DOMAIN rows : Precedes(rows, j, i)}

LEMMA SortedIsInOrder ==
    ASSUME NEW rows, NEW N \in Nat, DOMAIN rows = 1 .. N, \A i \in 1 .. N : rows[i].key \in Triples
    PROVE  /\ DOMAIN Sorted(rows) = 1 .. N
           /\ \A n \in 1 .. N : \E i \in 1 .. N : Sorted(rows)[n] = rows[i]
           /\ InOrder(Sorted(rows))
<1> DEFINE rank(i) == Cardinality(RankIn(rows, i))
           at(n) == CHOOSE i \in 1 .. N : rank(i) = n - 1
<1>1. Sorted(rows) = [n \in 1 .. N |-> rows[at(n)]]
  BY DEF Sorted, RankIn, Precedes
<1>2. ASSUME NEW i \in 1 .. N
      PROVE  IsFiniteSet(RankIn(rows, i)) /\ rank(i) \in 0 .. N - 1 /\ i \notin RankIn(rows, i)
  <2>1. i \notin RankIn(rows, i)
    BY TriplesAreOrdered DEF RankIn, Precedes
  <2>2. IsFiniteSet(1 .. N) /\ Cardinality(1 .. N) = N
    BY FS_Interval
  <2>3. IsFiniteSet((1 .. N) \ {i}) /\ Cardinality((1 .. N) \ {i}) = N - 1
    BY <2>2, FS_RemoveElement
  <2>4. RankIn(rows, i) \in SUBSET ((1 .. N) \ {i})
    BY <2>1 DEF RankIn
  <2>5. IsFiniteSet(RankIn(rows, i)) /\ rank(i) <= N - 1
    BY <2>3, <2>4, FS_Subset
  <2>6. rank(i) \in Nat
    BY <2>5, FS_CardinalityType
  <2> QED BY <2>1, <2>5, <2>6
<1>3. ASSUME NEW i \in 1 .. N, NEW j \in 1 .. N, Precedes(rows, i, j) PROVE rank(i) < rank(j)
  <2>1. RankIn(rows, i) \cup {i} \in SUBSET RankIn(rows, j)
    <3>1. ASSUME NEW k \in RankIn(rows, i) PROVE k \in RankIn(rows, j)
      <4>1. k \in 1 .. N /\ Precedes(rows, k, i)
        BY DEF RankIn
      <4>2. rows[i].key \in Triples /\ rows[j].key \in Triples /\ rows[k].key \in Triples
        BY <4>1
      <4>3. Precedes(rows, k, j)
        BY <1>3, <4>1, <4>2, TriplesAreOrdered DEF Precedes
      <4> QED BY <4>1, <4>3 DEF RankIn
    <3>2. i \in RankIn(rows, j)
      BY <1>3 DEF RankIn
    <3> QED BY <3>1, <3>2
  <2>2. IsFiniteSet(RankIn(rows, i)) /\ i \notin RankIn(rows, i) /\ IsFiniteSet(RankIn(rows, j)) /\ rank(i) \in Nat /\ rank(j) \in Nat
    BY <1>2
  <2>3. Cardinality(RankIn(rows, i) \cup {i}) = rank(i) + 1
    BY <2>2, FS_AddElement
  <2>4. Cardinality(RankIn(rows, i) \cup {i}) <= rank(j)
    BY <2>1, <2>2, FS_Subset
  <2> QED BY <2>2, <2>3, <2>4
<1>4. \A i, j \in 1 .. N : i # j => Precedes(rows, i, j) \/ Precedes(rows, j, i)
  <2>1. ASSUME NEW i \in 1 .. N, NEW j \in 1 .. N, i # j PROVE Precedes(rows, i, j) \/ Precedes(rows, j, i)
    <3>1. rows[i].key \in Triples /\ rows[j].key \in Triples
      OBVIOUS
    <3>2. Before(rows[i].key, rows[j].key) \/ Before(rows[j].key, rows[i].key) \/ rows[i].key = rows[j].key
      BY <3>1, TriplesAreOrdered
    <3> QED BY <2>1, <3>2 DEF Precedes
  <2> QED BY <2>1
<1> HIDE DEF rank
<1>5. ASSUME NEW n \in 1 .. N PROVE \E i \in 1 .. N : rank(i) = n - 1
  <2> DEFINE f == [i \in 1 .. N |-> rank(i)]
  <2>1. f \in [1 .. N -> 0 .. N - 1]
    BY <1>2
  <2>2. \A i, j \in 1 .. N : f[i] = f[j] => i = j
    <3>1. ASSUME NEW i \in 1 .. N, NEW j \in 1 .. N, i # j PROVE rank(i) # rank(j)
      <4>1. rank(i) < rank(j) \/ rank(j) < rank(i)
        BY <1>3, <1>4, <3>1
      <4>2. rank(i) \in 0 .. N - 1 /\ rank(j) \in 0 .. N - 1
        BY <1>2
      <4> QED BY <4>1, <4>2
    <3> QED BY <3>1
  <2> HIDE DEF f
  <2>3. f \in Injection(1 .. N, 0 .. N - 1)
    BY <2>1, <2>2 DEF Injection, IsInjective
  <2>4. IsFiniteSet(1 .. N) /\ Cardinality(1 .. N) = N /\ IsFiniteSet(0 .. N - 1) /\ Cardinality(0 .. N - 1) = N
    <3>1. 0 \in Int /\ N - 1 \in Int /\ 1 \in Int /\ N \in Int /\ (IF 0 > N - 1 THEN 0 ELSE N - 1 - 0 + 1) = N /\ (IF 1 > N THEN 0 ELSE N - 1 + 1) = N
      OBVIOUS
    <3> QED BY <3>1, FS_Interval
  <2>5. f \in Surjection(1 .. N, 0 .. N - 1)
    BY <2>3, <2>4, FS_Injection
  <2>6. n - 1 \in 0 .. N - 1
    OBVIOUS
  <2>7. \E i \in 1 .. N : f[i] = n - 1
    BY <2>5, <2>6 DEF Surjection
  <2> QED BY <2>7 DEF f
<1>6. \A n \in 1 .. N : at(n) \in 1 .. N /\ rank(at(n)) = n - 1
  BY <1>5
<1> HIDE DEF at
<1>7. DOMAIN Sorted(rows) = 1 .. N /\ \A n \in 1 .. N : Sorted(rows)[n] = rows[at(n)]
  BY <1>1
<1>8. ASSUME NEW i \in 1 .. N, NEW j \in 1 .. N, i < j PROVE ~Before(rows[at(j)].key, rows[at(i)].key)
  <2>1. SUFFICES ASSUME Before(rows[at(j)].key, rows[at(i)].key) PROVE FALSE
    OBVIOUS
  <2>2. Precedes(rows, at(j), at(i))
    BY <2>1 DEF Precedes
  <2>3. rank(at(j)) < rank(at(i))
    BY <1>3, <1>6, <2>2
  <2>4. j - 1 < i - 1
    BY <1>6, <2>3
  <2> QED BY <1>8, <2>4
<1>9. InOrder(Sorted(rows))
  BY <1>7, <1>8 DEF InOrder
<1> QED BY <1>6, <1>7, <1>9

\* Flattened sequences hold what the sequences hold.
LEMMA FlattenOf ==
    ASSUME NEW R, NEW seqs \in Seq(Seq(R))
    PROVE  FlattenSeq(seqs) \in Seq(R)
<1> DEFINE N == Len(seqs)
           step == [p \in (1 .. N) \X Seq(R) |-> IF p[1] = 1 THEN seqs[1] ELSE p[2] \o seqs[p[1]]]
           f == CHOOSE g : g = [i \in 1 .. N |-> IF i = 1 THEN seqs[i] ELSE g[i - 1] \o seqs[i]]
<1>1. N \in Nat /\ <<>> \in Seq(R) /\ \A n \in 1 .. N : seqs[n] \in Seq(R)
  OBVIOUS
<1>2. CASE N = 0
  <2>1. seqs = <<>>
    BY <1>2, EmptySeq
  <2>2. FlattenSeq(seqs) = <<>>
    BY <1>2, <2>1 DEF FlattenSeq
  <2> QED BY <1>1, <2>2
<1>3. CASE N # 0
  <2>1. step \in [(1 .. N) \X Seq(R) -> Seq(R)]
    <3>1. \A p \in (1 .. N) \X Seq(R) : (IF p[1] = 1 THEN seqs[1] ELSE p[2] \o seqs[p[1]]) \in Seq(R)
      BY <1>1
    <3> QED BY <3>1
  <2>2. FlattenSeq(seqs) = f[N]
    BY <1>3, Zenon DEF FlattenSeq, N
  <2> HIDE DEF step, N
  <2>3. PICK h : Recurs(h, N, Seq(R), <<>>, step)
    BY <1>1, <2>1, Recursion, Zenon
  <2>4. h \in [0 .. N -> Seq(R)] /\ \A n \in 1 .. N : h[n] = step[<<n, h[n - 1]>>]
    BY <2>3 DEF Recurs
  <2> DEFINE e(g, i) == IF i = 1 THEN seqs[i] ELSE g[i - 1] \o seqs[i]
             k == [i \in 1 .. N |-> h[i]]
  <2>5. \A i \in 1 .. N : h[i] = e(h, i)
    <3> SUFFICES ASSUME NEW i \in 1 .. N PROVE h[i] = e(h, i)
      OBVIOUS
    <3>1. i - 1 \in 0 .. N
      BY <1>1
    <3>2. h[i - 1] \in Seq(R) /\ h[i] = step[<<i, h[i - 1]>>]
      BY <2>4, <3>1
    <3> QED BY <3>2 DEF step
  <2>6. k = [i \in 1 .. N |-> e(k, i)]
    <3>1. ASSUME NEW i \in 1 .. N PROVE h[i] = e(k, i)
      <4>1. CASE i = 1
        BY <2>5, <4>1
      <4>2. CASE i # 1
        <5>1. i - 1 \in 1 .. N
          BY <1>1, <4>2
        <5>2. k[i - 1] = h[i - 1]
          BY <5>1
        <5> QED BY <2>5, <4>2, <5>2
      <4> QED BY <4>1, <4>2
    <3> DEFINE d(i) == e(k, i)
    <3>2. \A i \in 1 .. N : h[i] = d(i)
      BY <3>1
    <3> HIDE DEF d
    <3>3. [i \in 1 .. N |-> h[i]] = [i \in 1 .. N |-> d(i)]
      BY <3>2
    <3> QED BY <3>3, Zenon DEF d
  <2> HIDE DEF k
  <2>7. f = [i \in 1 .. N |-> e(f, i)]
    BY <2>6, Zenon
  <2> HIDE DEF f
  <2> DEFINE S == {n \in 0 .. N : n # 0 => f[n] \in Seq(R)}
  <2>8. 0 \in S
    BY <1>1
  <2>9. ASSUME NEW n \in 1 .. N, n - 1 \in S PROVE n \in S
    <3>0. n \in 0 .. N /\ seqs[n] \in Seq(R)
      BY <1>1
    <3>1. f[n] = e(f, n)
      <4> HIDE DEF e
      <4> QED BY <2>7
    <3>2. CASE n = 1
      BY <3>0, <3>1, <3>2
    <3>3. CASE n # 1
      <4>1. n - 1 # 0 /\ f[n - 1] \in Seq(R)
        BY <2>9, <3>3
      <4>2. f[n] = f[n - 1] \o seqs[n]
        BY <3>1, <3>3
      <4>3. f[n] \in Seq(R)
        BY <3>0, <4>1, <4>2
      <4> QED BY <3>0, <4>3
    <3> QED BY <3>2, <3>3
  <2>10. N \in S
    <3> HIDE DEF S
    <3>1. S \in SUBSET (0 .. N) /\ N \in 0 .. N
      BY <1>1 DEF S
    <3> QED BY <1>1, <2>8, <2>9, <3>1, Through
  <2> QED BY <1>3, <2>2, <2>10
<1> QED BY <1>2, <1>3

LEMMA RelationshipsAreInOrder ==
    ASSUME NEW catalog \in Catalogued
    PROVE  InOrder(RelationshipRows(catalog))
<1> DEFINE Related == {[key |-> k, value |-> 1, size |-> 1] : k \in Triples}
           targets(id, kind) == [n \in 1 .. catalog[id][kind] |-> [key |-> <<id, kind, n - 1>>, value |-> 1, size |-> 1]]
           each(id) == [k \in 1 .. 4 |-> targets(id, Relationships[k])]
           pushed(id) == FlattenSeq(each(id))
           all == [id \in 1 .. Len(catalog) |-> pushed(id)]
           rows == FlattenSeq(all)
<1>1. RelationshipRows(catalog) = Sorted(rows)
  BY DEF RelationshipRows
<1>2. Len(catalog) = 2 /\ DOMAIN catalog = 1 .. 2 /\ \A id \in 1 .. 2 : catalog[id] \in [1 .. 4 -> 0 .. 2]
  BY DEF Catalogued
<1>3. ASSUME NEW id \in 1 .. 2, NEW kind \in 1 .. 4 PROVE targets(id, kind) \in Seq(Related)
  <2>1. catalog[id][kind] \in Nat
    BY <1>2
  <2>2. ASSUME NEW n \in 1 .. catalog[id][kind] PROVE [key |-> <<id, kind, n - 1>>, value |-> 1, size |-> 1] \in Related
    <3>1. <<id, kind, n - 1>> \in Triples
      BY <2>1 DEF Triples
    <3> QED BY <3>1
  <2> HIDE DEF Related
  <2> QED BY <2>1, <2>2
<1>4. \A k \in 1 .. 4 : Relationships[k] \in 1 .. 4
  BY DEF Relationships
<1>5. ASSUME NEW id \in 1 .. 2 PROVE pushed(id) \in Seq(Related)
  <2>1. \A k \in 1 .. 4 : targets(id, Relationships[k]) \in Seq(Related)
    BY <1>3, <1>4
  <2> HIDE DEF targets, Related
  <2>2. each(id) \in Seq(Seq(Related))
    BY <2>1
  <2> HIDE DEF each
  <2> QED BY <2>2, FlattenOf
<1> HIDE DEF pushed, Related
<1>6. all \in Seq(Seq(Related))
  BY <1>2, <1>5
<1> HIDE DEF all
<1>7. rows \in Seq(Related)
  BY <1>6, FlattenOf
<1> HIDE DEF rows
<1>8. Len(rows) \in Nat /\ DOMAIN rows = 1 .. Len(rows) /\ \A i \in 1 .. Len(rows) : rows[i] \in Related
  BY <1>7
<1>9. \A i \in 1 .. Len(rows) : rows[i].key \in Triples
  BY <1>8 DEF Related
<1> QED BY <1>1, <1>8, <1>9, SortedIsInOrder

LEMMA IssuesAreExact == IssuesAcceptOnlyTheProjection
<1>1. ASSUME NEW expected \in Projections, NEW table \in Tables, NEW limit \in Limits,
             NEW recorded \in {Len(expected), Len(table)},
             \A n \in DOMAIN expected : expected[n].size <= limit.bytes
      PROVE  IssuesAccept(table, recorded, expected, limit) <=> table = expected /\ recorded = Len(expected)
  <2>1. Numbered(expected)
    BY ProjectionIsNumbered
  <2>2. ASSUME IssuesAccept(table, recorded, expected, limit) PROVE table = expected /\ recorded = Len(expected)
    BY <2>1, <2>2, AcceptedIsTheSame DEF IssuesAccept, CountsAgree
  <2>3. ASSUME table = expected, recorded = Len(expected) PROVE IssuesAccept(table, recorded, expected, limit)
    BY <1>1, <2>1, <2>3, ItselfIsAccepted DEF IssuesAccept, CountsAgree
  <2> QED BY <2>2, <2>3
<1> QED BY <1>1, RelationshipsAreInOrder DEF IssuesAcceptOnlyTheProjection

-------------------------------------------------------------------------------
(* Design Docs and Memory. *)

LEMMA DocumentsAreExact == DocumentsAcceptOnlyTheProjection
<1>1. ASSUME NEW records \in Partial(Sizes), NEW texts \in Partial(Sizes),
             NEW expected \in BoundedSeq([record : Sizes, text : Sizes], Keys)
      PROVE  DocumentsAccept(records, texts, expected) <=>
               Joined(records, texts) = [n \in DOMAIN expected |-> [key |-> n] @@ expected[n]]
  <2> DEFINE N == Len(expected)
             rows == Joined(records, texts)
             M == Cardinality(DOMAIN records \cap DOMAIN texts)
             row(n) == [key |-> n] @@ expected[n]
  <2>1. N \in Nat /\ DOMAIN expected = 1 .. N
    BY BoundedIsSequence
  <2>2. M \in Nat
    <3>1. DOMAIN records \in SUBSET (1 .. Keys)
      BY DEF Partial
    <3>2. IsFiniteSet(1 .. Keys)
      BY KeysAssumption, FS_Interval
    <3>3. DOMAIN records \cap DOMAIN texts \in SUBSET (1 .. Keys)
      BY <3>1
    <3>4. IsFiniteSet(DOMAIN records \cap DOMAIN texts)
      BY <3>2, <3>3, FS_Subset
    <3> QED BY <3>4, FS_CardinalityType
  <2>3. DOMAIN rows = 1 .. M /\ rows = [n \in 1 .. M |-> rows[n]]
    BY DEF Joined
  <2>4. DocumentsAccept(records, texts, expected) <=>
          (\A n \in 1 .. N : n \in DOMAIN rows /\ rows[n] = row(n)) /\ N + 1 \notin DOMAIN rows
    BY Zenon DEF DocumentsAccept
  <2> HIDE DEF N, rows, M, row
  <2>5. rows = [n \in 1 .. N |-> row(n)] <=>
          (\A n \in 1 .. N : n \in DOMAIN rows /\ rows[n] = row(n)) /\ N + 1 \notin DOMAIN rows
    <3>1. ASSUME rows = [n \in 1 .. N |-> row(n)]
          PROVE  (\A n \in 1 .. N : n \in DOMAIN rows /\ rows[n] = row(n)) /\ N + 1 \notin DOMAIN rows
      <4>1. N + 1 \notin 1 .. N
        BY <2>1
      <4> QED BY <3>1, <4>1
    <3>2. ASSUME \A n \in 1 .. N : n \in DOMAIN rows /\ rows[n] = row(n), N + 1 \notin DOMAIN rows
          PROVE  rows = [n \in 1 .. N |-> row(n)]
      <4>1. M = N
        <5>1. N <= M
          <6>1. CASE N = 0
            BY <2>2, <6>1
          <6>2. CASE N # 0
            <7>1. N \in 1 .. N
              BY <2>1, <6>2
            <7> QED BY <2>1, <2>2, <2>3, <3>2, <7>1
          <6> QED BY <6>1, <6>2
        <5>2. N + 1 \notin 1 .. M
          BY <2>3, <3>2
        <5> QED BY <2>1, <2>2, <5>1, <5>2
      <4> QED BY <2>3, <3>2, <4>1
    <3> QED BY <3>1, <3>2
  <2> QED BY <2>1, <2>4, <2>5 DEF rows, row
<1> QED BY <1>1 DEF DocumentsAcceptOnlyTheProjection

LEMMA MemoriesAreExact == MemoryAcceptsOnlyTheProjection
<1>1. ASSUME NEW expected \in Partial([record : Sizes, text : Sizes]), NEW records \in Partial(Sizes),
             NEW texts \in BoundedSeq([id : 1 .. Keys, text : Sizes], Keys)
      PROVE  MemoryAccepts(records, texts, expected) <=>
               /\ records = [id \in DOMAIN expected |-> expected[id].record]
               /\ ToSet(texts) = {[id |-> id, text |-> expected[id].text] : id \in DOMAIN expected}
               /\ Len(texts) = Cardinality(DOMAIN expected)
  <2> DEFINE D == DOMAIN expected
             text(id) == [id |-> id, text |-> expected[id].text]
             T == {text(id) : id \in D}
  <2>1. IsFiniteSet(D) /\ IsFiniteSet(DOMAIN records) /\ records = [id \in DOMAIN records |-> records[id]]
    <3>1. D \in SUBSET (1 .. Keys) /\ DOMAIN records \in SUBSET (1 .. Keys)
      BY DEF Partial
    <3>2. IsFiniteSet(1 .. Keys)
      BY KeysAssumption, FS_Interval
    <3>3. records = [id \in DOMAIN records |-> records[id]]
      BY DEF Partial
    <3> QED BY <3>1, <3>2, <3>3, FS_Subset
  <2>2. texts \in Seq([id : 1 .. Keys, text : Sizes]) /\ Len(texts) \in Nat /\ DOMAIN texts = 1 .. Len(texts)
    BY BoundedIsSequence
  <2>3. IsFiniteSet(T) /\ Cardinality(T) = Cardinality(D)
    <3> DEFINE b == [id \in D |-> text(id)]
    <3>1. b \in [D -> T]
      OBVIOUS
    <3>2. \A i, j \in D : b[i] = b[j] => i = j
      OBVIOUS
    <3>3. \A t \in T : \E i \in D : b[i] = t
      OBVIOUS
    <3> HIDE DEF b, T, D
    <3>4. b \in Bijection(D, T)
      BY <3>1, <3>2, <3>3 DEF Bijection, Injection, Surjection, IsInjective
    <3>5. ExistsBijection(D, T)
      BY <3>4 DEF ExistsBijection
    <3> QED BY <2>1, <3>5, FS_Bijection
  <2>4. IsFiniteSet(ToSet(texts)) /\ Cardinality(ToSet(texts)) <= Len(texts)
    <3> DEFINE f == [i \in 1 .. Len(texts) |-> texts[i]]
               W == ToSet(texts)
    <3>1. W = {texts[i] : i \in 1 .. Len(texts)}
      BY <2>2 DEF ToSet
    <3>2. f \in [1 .. Len(texts) -> W] /\ \A t \in W : \E i \in 1 .. Len(texts) : f[i] = t
      BY <3>1
    <3> HIDE DEF f, W
    <3>3. f \in Surjection(1 .. Len(texts), W)
      BY <3>2 DEF Surjection
    <3>4. ExistsSurjection(1 .. Len(texts), W)
      BY <3>3 DEF ExistsSurjection
    <3>5. IsFiniteSet(W) /\ Cardinality(W) <= Len(texts)
      BY <2>2, <3>4, FS_NatSurjection, FS_SurjCardinalityBound
    <3> QED BY <3>5 DEF W
  <2>5. ASSUME MemoryAccepts(records, texts, expected)
        PROVE  records = [id \in D |-> expected[id].record] /\ ToSet(texts) = T /\ Len(texts) = Cardinality(D)
    <3>1. /\ Cardinality(DOMAIN records) = Cardinality(D) /\ Len(texts) = Cardinality(D)
          /\ \A id \in D : id \in DOMAIN records /\ records[id] = expected[id].record
          /\ \A id \in D : \E n \in DOMAIN texts : texts[n] = text(id)
      BY <2>5 DEF MemoryAccepts
    <3>2. D \in SUBSET DOMAIN records
      BY <3>1
    <3>3. D = DOMAIN records
      BY <2>1, <3>1, <3>2, FS_Subset
    <3>4. T \in SUBSET ToSet(texts)
      BY <3>1 DEF ToSet
    <3>5. Cardinality(T) <= Cardinality(ToSet(texts)) /\ (Cardinality(ToSet(texts)) = Cardinality(T) => ToSet(texts) = T)
      BY <2>4, <3>4, FS_Subset
    <3>6. Cardinality(ToSet(texts)) \in Nat /\ Cardinality(T) \in Nat
      BY <2>3, <2>4, FS_CardinalityType
    <3>7. ToSet(texts) = T
      <4> HIDE DEF T, D
      <4> QED BY <2>2, <2>3, <2>4, <3>1, <3>5, <3>6
    <3>8. records = [id \in D |-> expected[id].record]
      BY <2>1, <3>1, <3>3
    <3> QED BY <3>1, <3>7, <3>8
  <2>6. ASSUME records = [id \in D |-> expected[id].record], ToSet(texts) = T, Len(texts) = Cardinality(D)
        PROVE  MemoryAccepts(records, texts, expected)
    <3>1. DOMAIN records = D /\ \A id \in D : records[id] = expected[id].record
      BY <2>6
    <3>2. ASSUME NEW id \in D PROVE \E n \in DOMAIN texts : texts[n] = text(id)
      <4>1. text(id) \in ToSet(texts)
        BY <2>6
      <4> QED BY <4>1 DEF ToSet
    <3> QED BY <2>6, <3>1, <3>2 DEF MemoryAccepts
  <2> QED BY <2>5, <2>6
<1> QED BY <1>1 DEF MemoryAcceptsOnlyTheProjection

-------------------------------------------------------------------------------
\* Whatever rows a cache holds, missing, surplus, doubled or changed, and
\* however they fall on the pages, each domain accepts them just when they are
\* the projection (verifyRows, verifyCache, matchesRecords).
THEOREM VerificationIsExact == Spec => []AcceptsOnlyTheProjection
<1>1. AcceptsOnlyTheProjection
  BY IssuesAreExact, DocumentsAreExact, MemoriesAreExact DEF AcceptsOnlyTheProjection
<1> QED BY <1>1, PTL
===============================================================================


