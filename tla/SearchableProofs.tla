---------------------------- MODULE SearchableProofs ----------------------------
(***************************************************************************)
(* The safety of the stash, of the legacy import and of close(), shown for *)
(* any number of calls, pages and rows.  Every call knows that the catalog *)
(* it loaded is what the stash holds as long as it has the lease, but for  *)
(* what an operator touches (CatalogInv); what it publishes, finds and     *)
(* imports is of that catalog (BatchInv, GrepInv, CopyInv).                *)
(***************************************************************************)
EXTENDS SearchableRuntime, FiniteSetTheorems, TLAPS

Catalogs == [Urls -> Texts \cup {None}]
Rows == [Raws -> Texts \cup {None}]
InLease == {"plan", "publish", "rebuild", "index", "prompt", "reload", "context"}

\* What a call does, and what goes on around the calls.
Remote(c) == NextStrategy(c) \/ Network(c) \/ Extract(c) \/ Interrupted(c)
Act(c) == Call(c) \/ StashCall(c) \/ Asked(c) \/ Remote(c) \/ Stopped(c)

TypeInv ==
    /\ pages \in [Urls -> Texts \cup {None, Unreadable}]
    /\ index # None => index \in Catalogs
    /\ holder \in Calls \cup {None}
    /\ pc \in [Calls -> Steps] /\ req \in Plans
    /\ touched \in [Calls -> SUBSET Urls]
    /\ DOMAIN cat = Calls /\ DOMAIN batch = Calls /\ DOMAIN left = Calls
    /\ DOMAIN hits = Calls /\ DOMAIN copy = Calls /\ DOMAIN ident = Calls
    /\ edits \in Nat

NetInv ==
    /\ net \in [Calls -> Nets]
    /\ \A c \in Calls :
          pc[c] \in {"resolve", "respond", "extract"} /\ req[c].op # "search" => net[c].todo # <<>>

LegacyInv ==
    /\ main \in Rows /\ (wal # None => wal \in Rows)
    /\ inode \in Nat /\ mtime \in Nat /\ clock \in Nat /\ mtime <= clock
    /\ wal \in {None, main} => main \in wholes

\* What close() saw running is all that may still run.
CloseInv ==
    /\ closer \in {"open", "settling", "closed", "failed"} /\ awaited \subseteq Calls
    /\ \A c \in awaited : Tracked(c)
    /\ closer # "open" => \A c \in Calls : Tracked(c) /\ Running(c) => c \in awaited
    /\ closer = "closed" => \A c \in awaited : ~Running(c)

\* Who has the lease, and for what.
LeaseInv == \A c \in Calls : holder = c <=> pc[c] \in InLease
Placed(c) ==
    /\ pc[c] \in {"plan", "publish"} => req[c].op \in {"stash", "import"}
    /\ pc[c] \in {"open", "copy", "snapshot", "rebuild"} => req[c].op = "import"
    /\ pc[c] \in {"index", "prompt", "reload"} => req[c].op \notin {"stash", "import"}
    /\ pc[c] \in {"lease again", "context", "connect", "stream"} => req[c].op = "ask"
    /\ pc[c] \in {"strategy", "resolve", "respond", "extract"} => req[c].op \in {"search", "fetch"}
PlaceInv == \A c \in Calls : Placed(c)

\* The catalog of a call in its lease is the stash, until it has published.
CatalogInv ==
    \A c \in Calls :
        /\ pc[c] \in InLease => cat[c] \in Catalogs
        /\ pc[c] \in InLease \ {"rebuild"} => \A u \in Urls \ touched[c] : pages[u] = cat[c][u]

\* What an import publishes: the rows of its copy that have no page, and the
\* others are pages already.
Covers(c) ==
    /\ ~req[c].preview
    /\ \A u \in DOMAIN batch[c] : u \in Urls /\ cat[c][u] = None
    /\ \A r \in Raws : copy[c][r] # None =>
          \/ Normal[r] \in DOMAIN batch[c] /\ batch[c][Normal[r]] = copy[c][r]
          \/ Normal[r] \notin DOMAIN batch[c] /\ cat[c][Normal[r]] = copy[c][r]
BatchInv ==
    \A c \in Calls :
        /\ pc[c] \in {"publish", "rebuild"} => \A u \in DOMAIN batch[c] : batch[c][u] \in Texts
        /\ pc[c] = "publish" /\ req[c].op = "stash" => DOMAIN batch[c] = {Normal[req[c].raw]}
        /\ pc[c] = "publish" /\ req[c].op = "import" => Covers(c)

\* What a grep still has to read, and what it found: pages of its catalog that are
\* among the rows of its query and hold the terms, all such when none was edited.
IsRows(c, rows) ==
    /\ rows \subseteq Ranked(c) /\ Cardinality(rows) <= Limit
    /\ Cardinality(rows) < Limit => rows = Ranked(c)
Of(c, rows) ==
    /\ IsRows(c, rows) /\ left[c] \subseteq rows
    /\ DOMAIN hits[c] \subseteq rows \cap Matching(c)
    /\ touched[c] = {} => DOMAIN hits[c] = (rows \ left[c]) \cap Matching(c)
Found(c) ==
    /\ \A u \in DOMAIN hits[c] : hits[c][u] = cat[c][u]
    /\ \E rows : Of(c, rows)
GrepInv ==
    \A c \in Calls :
        /\ pc[c] \in {"idle", "lease", "index", "prompt"} /\ req[c].op = "grep" => DOMAIN hits[c] = {}
        /\ pc[c] = "reload" => index = cat[c]
        /\ pc[c] = "reload" /\ req[c].op = "grep" => Found(c)
        /\ pc[c] = "done" /\ req[c].op = "grep" => Found(c) /\ left[c] = {}

\* What an import copied so far, and from which file.
Settles(c) == ident[c].at > ident[c].file.mtime
Copies(c) ==
    /\ left[c] \subseteq Raws /\ copy[c] \in [Raws \ left[c] -> Texts \cup {None}]
    /\ ident[c] = [file |-> [inode |-> ident[c].file.inode, mtime |-> ident[c].file.mtime], at |-> ident[c].at]
    /\ ident[c].file.inode \in Nat /\ ident[c].file.mtime \in Nat /\ ident[c].at \in Nat
    /\ ident[c].file.inode <= inode /\ ident[c].file.mtime <= mtime /\ ident[c].at <= clock
    /\ SameSource(c) /\ Settles(c) => main \in wholes /\ \A r \in DOMAIN copy[c] : copy[c][r] = main[r]
CopyInv ==
    \A c \in Calls :
        /\ pc[c] = "copy" => Copies(c)
        /\ pc[c] \in {"snapshot", "lease", "plan", "publish"} /\ req[c].op = "import" =>
              /\ copy[c] \in Rows /\ ~Duplicates(c)
              /\ Settles(c) => copy[c] \in wholes

-------------------------------------------------------------------------------
(* A step of one call leaves the others where they are. *)

Alone(c) ==
    /\ req' = req /\ edits' = edits
    /\ legacyVars' = legacyVars
    /\ \A d \in Calls \ {c} :
          /\ pc'[d] = pc[d] /\ cat'[d] = cat[d] /\ batch'[d] = batch[d] /\ left'[d] = left[d]
          /\ hits'[d] = hits[d] /\ copy'[d] = copy[d] /\ ident'[d] = ident[d]
          /\ touched'[d] = touched[d]

\* Goto and Leave move one call.
LEMMA GotoMoves ==
    ASSUME NEW c \in Calls, NEW l, TypeInv, Goto(c, l)
    PROVE  pc'[c] = l /\ (\A d \in Calls \ {c} : pc'[d] = pc[d]) /\ DOMAIN pc' = Calls
BY DEF Goto, TypeInv

\* A step of c moves c to a place of the program and none of the others.
LEMMA CallsApart ==
    ASSUME NEW c \in Calls, TypeInv, Act(c)
    PROVE  /\ Alone(c) /\ pc' \in [Calls -> Steps] /\ touched' \in [Calls -> SUBSET Urls]
           /\ DOMAIN cat' = Calls /\ DOMAIN batch' = Calls /\ DOMAIN left' = Calls
           /\ DOMAIN hits' = Calls /\ DOMAIN copy' = Calls /\ DOMAIN ident' = Calls
<1> USE DEF TypeInv, Alone
<1>1. CASE Call(c)
  BY <1>1 DEF Call, Goto, Calm, FirstStep, Steps, Over, Online, Stoppable, legacyVars, workVars
<1>2. CASE Acquire(c)
  BY <1>2 DEF Acquire, Goto, Steps, Over, Online, Stoppable, legacyVars, workVars
<1>3. CASE PlanStash(c)
  BY <1>3 DEF PlanStash, Leave, Goto, World, Steps, Over, Online, Stoppable, legacyVars, workVars
<1>4. CASE PlanImport(c)
  BY <1>4 DEF PlanImport, Leave, Goto, World, Steps, Over, Online, Stoppable, legacyVars, workVars
<1>5. CASE Publish(c)
  BY <1>5 DEF Publish, Leave, Goto, World, Steps, Over, Online, Stoppable, legacyVars, workVars
<1>6. CASE RebuildAfterImport(c)
  BY <1>6 DEF RebuildAfterImport, Leave, Goto, World, Steps, Over, Online, Stoppable, legacyVars,
        workVars
<1>7. CASE UseIndex(c)
  BY <1>7 DEF UseIndex, Query, Leave, Goto, World, Steps, Over, Online, Stoppable, legacyVars,
        workVars
<1>8. CASE UserAnswers(c)
  BY <1>8 DEF UserAnswers, Query, Leave, Goto, World, Steps, Over, Online, Stoppable, legacyVars,
        workVars
<1>9. CASE Reload(c)
  BY <1>9 DEF Reload, Leave, Goto, World, Steps, Over, Online, Stoppable, legacyVars, workVars
<1>10. CASE Answer(c)
  BY <1>10 DEF Answer, Leave, Goto, World, Steps, Over, Online, Stoppable, legacyVars, workVars
<1>11. CASE Context(c)
  BY <1>11 DEF Context, Leave, Goto, World, Steps, Over, Online, Stoppable, legacyVars, workVars
<1>12. CASE OpenLegacy(c)
  BY <1>12 DEF OpenLegacy, Goto, Stay, World, Steps, Over, Online, Stoppable, legacyVars, workVars
<1>13. CASE CopyLegacy(c)
  BY <1>13 DEF CopyLegacy, Stay, World, Steps, Over, Online, Stoppable, legacyVars, workVars
<1>14. CASE ReadSnapshot(c)
  BY <1>14 DEF ReadSnapshot, Goto, Stay, World, Steps, Over, Online, Stoppable, legacyVars, workVars
<1>15. CASE AssertSource(c)
  BY <1>15 DEF AssertSource, Goto, Stay, World, Steps, Over, Online, Stoppable, legacyVars, workVars
<1>16. CASE NextStrategy(c)
  BY <1>16 DEF NextStrategy, Goto, Calm, Steps, Over, Online, Stoppable, legacyVars, workVars
<1>17. CASE Network(c)
  BY <1>17 DEF Network, Resolve, Redirect, Respond, AttemptFails, Connect, Frame, EndOfStream,
        Goto, Calm, Steps, Over,
    Online, Stoppable, legacyVars, workVars
<1>18. CASE Extract(c)
  BY <1>18 DEF Extract, Goto, Calm, Steps, Over, Online, Stoppable, legacyVars, workVars
<1>19. CASE Interrupted(c)
  BY <1>19 DEF Interrupted, Goto, Calm, Steps, Over, Online, Stoppable, legacyVars, workVars
<1>20. CASE Stopped(c)
  BY <1>20 DEF Stopped, Leave, Goto, Steps, Over, Online, Stoppable, legacyVars, workVars
<1> HIDE DEF TypeInv, Alone
<1> QED
  BY <1>1, <1>2, <1>3, <1>4, <1>5, <1>6, <1>7, <1>8, <1>9, <1>10, <1>11, <1>12, <1>13, <1>14,
        <1>15, <1>16, <1>17, <1>18,
    <1>19, <1>20 DEF Act, StashCall, StashStep, Asked, Remote

\* The lease passes to c, stays or is given up by c, and only who has it changes
\* pages or the index.
LEMMA LeasePasses ==
    ASSUME NEW c \in Calls, TypeInv, LeaseInv, PlaceInv, Act(c)
    PROVE  /\ holder' = c <=> pc'[c] \in InLease
           /\ \A d \in Calls \ {c} : holder' = d <=> holder = d
           /\ holder' \in Calls \cup {None}
           /\ holder # c => pages' = pages /\ index' = index
           /\ pc'[c] \in InLease => Acquire(c) \/ pc[c] \in InLease \ {"rebuild"}
<1>a. /\ holder = c <=> pc[c] \in InLease
      /\ None \notin Calls /\ holder \in Calls \cup {None} /\ DOMAIN pc = Calls
  BY NoneAssumption DEF LeaseInv, TypeInv
<1> USE DEF InLease
<1>1. CASE Call(c)
  BY <1>1, <1>a DEF Call, At, Goto, Calm, FirstStep
<1>2. CASE Acquire(c)
  BY <1>2, <1>a DEF Acquire, At, Goto, PlaceInv
<1>3. CASE PlanStash(c) \/ PlanImport(c)
  BY <1>3, <1>a DEF PlanStash, PlanImport, At, Leave, Goto
<1>4. CASE Publish(c) \/ RebuildAfterImport(c)
  BY <1>4, <1>a DEF Publish, RebuildAfterImport, At, Leave, Goto
<1>5. CASE UseIndex(c) \/ UserAnswers(c)
  BY <1>5, <1>a DEF UseIndex, UserAnswers, At, Leave, Goto
<1>6. CASE Reload(c) \/ Answer(c) \/ Context(c)
  BY <1>6, <1>a DEF Reload, Answer, Context, At, Leave, Goto
<1>7. CASE OpenLegacy(c) \/ CopyLegacy(c) \/ ReadSnapshot(c) \/ AssertSource(c)
  BY <1>7, <1>a DEF OpenLegacy, CopyLegacy, ReadSnapshot, AssertSource, At, Goto, Stay
<1>8. CASE Remote(c)
  BY <1>8, <1>a DEF Remote, NextStrategy, Network, Resolve, Redirect, Respond, AttemptFails,
        Connect, Frame, EndOfStream,
    Extract, Interrupted, HasTimer, Online, At, Goto, Calm
<1>9. CASE Stopped(c)
  BY <1>9, <1>a DEF Stopped, At, Leave, Goto
<1> HIDE DEF InLease
<1> QED
  BY <1>1, <1>2, <1>3, <1>4, <1>5, <1>6, <1>7, <1>8, <1>9 DEF Act, StashCall, StashStep, Asked

\* The lease is always that of the call inside it.
LEMMA LeaseStep ==
    ASSUME NEW c \in Calls, TypeInv, LeaseInv, PlaceInv, Act(c)
    PROVE  LeaseInv'
<1>1. \A d \in Calls \ {c} : pc'[d] = pc[d]
  BY CallsApart DEF Alone
<1> QED
  BY <1>1, LeasePasses DEF LeaseInv

\* A call stays on the way of its operation.
LEMMA PlaceStep ==
    ASSUME NEW c \in Calls, TypeInv, PlaceInv, Act(c)
    PROVE  PlaceInv'
<1>0. req' = req /\ \A d \in Calls \ {c} : pc'[d] = pc[d]
  BY CallsApart DEF Alone
<1> SUFFICES Placed(c)'
  BY <1>0 DEF PlaceInv, Placed
<1> USE DEF Placed
<1>a. Placed(c) /\ DOMAIN pc = Calls /\ req' = req
  BY CallsApart DEF PlaceInv, TypeInv, Alone
<1>1. CASE Call(c)
  BY <1>1, <1>a DEF Call, At, Goto, FirstStep
<1>2. CASE Acquire(c)
  BY <1>2, <1>a DEF Acquire, At, Goto
<1>3. CASE PlanStash(c) \/ PlanImport(c)
  BY <1>3, <1>a DEF PlanStash, PlanImport, At, Leave, Goto
<1>4. CASE Publish(c) \/ RebuildAfterImport(c)
  BY <1>4, <1>a DEF Publish, RebuildAfterImport, At, Leave, Goto
<1>5. CASE UseIndex(c) \/ UserAnswers(c)
  BY <1>5, <1>a DEF UseIndex, UserAnswers, At, Leave, Goto
<1>6. CASE Reload(c) \/ Answer(c) \/ Context(c)
  BY <1>6, <1>a DEF Reload, Answer, Context, At, Leave, Goto
<1>7. CASE OpenLegacy(c) \/ CopyLegacy(c) \/ ReadSnapshot(c) \/ AssertSource(c)
  BY <1>7, <1>a DEF OpenLegacy, CopyLegacy, ReadSnapshot, AssertSource, At, Goto
<1>8. CASE Remote(c)
  BY <1>8, <1>a DEF Remote, NextStrategy, Network, Resolve, Redirect, Respond, AttemptFails,
        Connect, Frame, EndOfStream,
    Extract, Interrupted, HasTimer, Online, At, Goto
<1>9. CASE Stopped(c)
  BY <1>9, <1>a DEF Stopped, At, Leave, Goto
<1> HIDE DEF Placed
<1> QED
  BY <1>1, <1>2, <1>3, <1>4, <1>5, <1>6, <1>7, <1>8, <1>9 DEF Act, StashCall, StashStep, Asked

-------------------------------------------------------------------------------
(* The network, and close(). *)

\* Only a running call makes a step, but for its call, and the stash never goes
\* on to the network of a fetch.
LEMMA StepsRun ==
    ASSUME NEW c \in Calls, TypeInv, Act(c), ~Call(c)
    PROVE  /\ Running(c)
           /\ StashCall(c) \/ Asked(c) \/ Stopped(c) => pc'[c] \notin {"resolve", "respond", "extract"}
<1>a. DOMAIN pc = Calls
  BY DEF TypeInv
<1> USE DEF Running, Over
<1>1. CASE Acquire(c) /\ StashCall(c)
  BY <1>1, <1>a DEF Acquire, At, Goto
<1>2. CASE (PlanStash(c) \/ PlanImport(c)) /\ StashCall(c)
  BY <1>2, <1>a DEF PlanStash, PlanImport, At, Leave, Goto
<1>3. CASE (Publish(c) \/ RebuildAfterImport(c)) /\ StashCall(c)
  BY <1>3, <1>a DEF Publish, RebuildAfterImport, At, Leave, Goto
<1>4. CASE UseIndex(c) \/ UserAnswers(c)
  BY <1>4, <1>a DEF UseIndex, UserAnswers, At, Leave, Goto
<1>5. CASE Reload(c) \/ Answer(c) \/ Context(c)
  BY <1>5, <1>a DEF Reload, Answer, Context, At, Leave, Goto
<1>6. CASE OpenLegacy(c) \/ CopyLegacy(c) \/ ReadSnapshot(c) \/ AssertSource(c)
  BY <1>6, <1>a DEF OpenLegacy, CopyLegacy, ReadSnapshot, AssertSource, At, Goto
<1>7. CASE Stopped(c)
  BY <1>7, <1>a DEF Stopped, Stoppable, Leave, Goto
<1>8. CASE Remote(c)
  <2>1. Running(c)
    BY <1>8, <1>a DEF Remote, NextStrategy, Network, Resolve, Redirect, Respond, AttemptFails,
          Connect, Frame, EndOfStream,
      Extract, Interrupted, HasTimer, Online, At
  <2> QED
    BY <2>1, <1>1, <1>2, <1>3, <1>4, <1>5, <1>6, <1>7 DEF StashCall, StashStep, Asked
<1> HIDE DEF Running, Over
<1> QED
  BY <1>1, <1>2, <1>3, <1>4, <1>5, <1>6, <1>7, <1>8 DEF Act, StashCall, StashStep, Asked

\* What is left of the strategies after the first one.
LEMMA TailOfStrategies ==
    ASSUME NEW n \in Nets, n.todo # <<>>
    PROVE  [n EXCEPT !.todo = Tail(@)] \in Nets
<1>1. n.todo \in Seq({"direct", "jina", "wayback"})
  BY DEF Nets
<1>2. Tail(n.todo) \in Seq({"direct", "jina", "wayback"})
  BY <1>1
<1> QED
  BY <1>2 DEF Nets

\* An attempt is that of a strategy which is left.
LEMMA NetStep ==
    ASSUME NEW c \in Calls, TypeInv, PlaceInv, NetInv, Act(c)
    PROVE  NetInv'
<1>a. /\ net \in [Calls -> Nets] /\ DOMAIN pc = Calls /\ Placed(c)
      /\ pc[c] \in {"resolve", "respond", "extract"} /\ req[c].op # "search" => net[c].todo # <<>>
  BY DEF NetInv, TypeInv, PlaceInv
<1>b. req' = req /\ \A d \in Calls \ {c} : pc'[d] = pc[d]
  BY CallsApart DEF Alone
<1> DEFINE Ready(d) == pc[d] \in {"resolve", "respond", "extract"} /\ req[d].op # "search" => net[d].todo # <<>>
<1>c. ASSUME net' = net, Ready(c)'
      PROVE  NetInv'
  BY <1>a, <1>b, <1>c DEF NetInv
<1>d. ASSUME NEW n \in Nets, net' = [net EXCEPT ![c] = n],
             pc'[c] \in {"resolve", "respond", "extract"} /\ req[c].op # "search" => n.todo # <<>>
      PROVE  NetInv'
  BY <1>a, <1>b, <1>d DEF NetInv
<1>e. /\ net[c] \in Nets
      /\ net[c] = [todo |-> net[c].todo, hops |-> net[c].hops, leg |-> net[c].leg, final |-> net[c].final]
  BY <1>a DEF Nets
<1>1. CASE Call(c)
  BY <1>1, <1>a, <1>b, <1>c DEF Call, At, Goto, FirstStep
<1>2. CASE ~Call(c) /\ (StashCall(c) \/ Asked(c) \/ Stopped(c))
  <2>1. pc'[c] \notin {"resolve", "respond", "extract"}
    BY <1>2, StepsRun
  <2>2. net' = net
    BY <1>2 DEF StashCall, Asked, Stopped, runtimeVars
  <2> QED
    BY <2>1, <2>2, <1>c
<1>3. CASE NextStrategy(c)
  <2>1. CASE net' = net /\ pc'[c] = "failed"
    BY <2>1, <1>c
  <2>2. CASE net[c].todo # <<>> /\ net' = [net EXCEPT ![c].hops = 0, ![c].leg = 1]
    <3> DEFINE n == [todo |-> net[c].todo, hops |-> 0, leg |-> 1, final |-> net[c].final]
    <3>1. n \in Nets /\ n.todo # <<>>
      BY <1>e, <2>2, RedirectsAssumption DEF Nets
    <3>2. net' = [net EXCEPT ![c] = n]
      <4> DEFINE m == [net[c] EXCEPT !.hops = 0]
      <4>1. net' = [d \in Calls |-> IF d = c THEN [m EXCEPT !.leg = 1] ELSE net[d]]
        BY <2>2, <1>a
      <4>2. m = [todo |-> net[c].todo, hops |-> 0, leg |-> net[c].leg, final |-> net[c].final]
        BY <1>e
      <4> HIDE DEF m
      <4>3. [m EXCEPT !.leg = 1] = n
        BY <4>2
      <4> QED
        BY <4>1, <4>3, <1>a
    <3> HIDE DEF n
    <3> QED
      BY <3>1, <3>2, <1>d
  <2>3. CASE net[c].todo # <<>> /\ net' = [net EXCEPT ![c].todo = Tail(@)] /\ pc'[c] = "strategy"
    BY <2>3, <1>a, <1>d, TailOfStrategies
  <2> QED
    BY <1>3, <2>1, <2>2, <2>3, <1>a DEF NextStrategy, At, Goto
<1>4. CASE AttemptFails(c)
  <2>1. CASE req[c].op = "search"
    BY <1>4, <2>1, <1>a, <1>c DEF AttemptFails, Goto
  <2>2. CASE req[c].op # "search"
    BY <1>4, <2>2, <1>a, <1>d, TailOfStrategies DEF AttemptFails, Goto
  <2> QED
    BY <2>1, <2>2
<1>5. CASE Resolve(c) \/ Connect(c) \/ EndOfStream(c) \/ Extract(c) \/ Interrupted(c)
  BY <1>5, <1>a, <1>b, <1>c DEF Resolve, Connect, EndOfStream, Extract, Interrupted, At, Goto
<1>6. CASE Redirect(c)
  <2>1. [net[c] EXCEPT !.hops = @ + 1] \in Nets
    BY <1>6, <1>e, RedirectsAssumption DEF Redirect, Nets
  <2>2. net' = [net EXCEPT ![c] = [net[c] EXCEPT !.hops = @ + 1]]
    BY <1>6, <1>a DEF Redirect
  <2> QED
    BY <1>6, <2>1, <2>2, <1>a, <1>d, <1>e DEF Redirect, At, Goto
<1>7. CASE Respond(c)
  <2>1. [net[c] EXCEPT !.leg = 2] \in Nets
    BY <1>e DEF Nets
  <2>2. CASE net' = [net EXCEPT ![c].leg = 2] /\ pc'[c] = "resolve" /\ At(c, "respond")
    BY <2>2, <2>1, <1>a, <1>d, <1>e DEF At
  <2>3. CASE net' = net /\ pc'[c] \in {"done", "extract"} /\ At(c, "respond")
    BY <2>3, <1>a, <1>b, <1>c DEF At
  <2> QED
    BY <1>7, <2>2, <2>3, <1>a DEF Respond, Goto
<1>8. CASE Frame(c)
  <2>1. CASE net' = net
    BY <1>8, <2>1, <1>a, <1>b, <1>c DEF Frame, At, Goto
  <2>2. ASSUME NEW final \in BOOLEAN, net' = [net EXCEPT ![c].final = final], pc' = pc
        PROVE  NetInv'
    <3>1. [net[c] EXCEPT !.final = final] \in Nets
      BY <1>e DEF Nets
    <3> QED
      BY <2>2, <3>1, <1>8, <1>a, <1>d DEF Frame, At
  <2> QED
    BY <1>8, <2>1, <2>2 DEF Frame
<1> QED
  BY <1>1, <1>2, <1>3, <1>4, <1>5, <1>6, <1>7, <1>8 DEF Act, Remote, Network

\* A call that close() did not wait for is refused.
LEMMA CloseStep ==
    ASSUME NEW c \in Calls, TypeInv, CloseInv, Act(c)
    PROVE  CloseInv'
<1>a. req' = req /\ DOMAIN pc = Calls /\ \A d \in Calls \ {c} : pc'[d] = pc[d]
  BY CallsApart DEF Alone, TypeInv
<1>b. closer' = closer /\ awaited' = awaited
  BY DEF Act, StashCall, Asked, Remote, Call, Stopped, NextStrategy, Network, Resolve, Redirect,
        Respond, AttemptFails, Connect,
    Frame, EndOfStream, Extract, Interrupted, Quiet, runtimeVars
<1>1. closer # "open" /\ Tracked(c)' /\ Running(c)' => Tracked(c) /\ Running(c)
  <2>1. CASE Call(c)
    BY <2>1, <1>a DEF Call, Admits, Shutdown, Tracked, Running, Goto, Over
  <2>2. CASE ~Call(c)
    BY <2>2, <1>a, StepsRun DEF Tracked
  <2> QED
    BY <2>1, <2>2
<1>2. closer # "open" => \A d \in Calls : Tracked(d)' /\ Running(d)' => Tracked(d) /\ Running(d)
  BY <1>1, <1>a DEF Tracked, Running
<1>3. closer # "open" => \A d \in Calls : Tracked(d)' /\ Running(d)' => d \in awaited
  BY <1>2 DEF CloseInv
<1>4. \A d \in awaited : Tracked(d)'
  BY <1>a DEF CloseInv, Tracked
<1>5. closer = "closed" => \A d \in awaited : ~Running(d)'
  BY <1>2, <1>4 DEF CloseInv
<1> QED
  BY <1>b, <1>3, <1>4, <1>5 DEF CloseInv

-------------------------------------------------------------------------------
(* The stash. *)

\* Which actions write the pages, the index and what a call works on.
LEMMA Writers ==
    ASSUME NEW c \in Calls, Act(c)
    PROVE  /\ pages' = pages \/ Publish(c)
           /\ index' = index \/ UseIndex(c) \/ UserAnswers(c) \/ RebuildAfterImport(c)
           /\ (cat' = cat /\ touched' = touched) \/ Acquire(c)
           /\ batch' = batch \/ PlanStash(c) \/ PlanImport(c)
           /\ hits' = hits \/ Reload(c) \/ Context(c)
           /\ left' = left \/ UseIndex(c) \/ UserAnswers(c) \/ Reload(c) \/ OpenLegacy(c) \/ CopyLegacy(c)
           /\ (copy' = copy /\ ident' = ident) \/ OpenLegacy(c) \/ CopyLegacy(c)
<1>1. CASE Call(c) \/ Remote(c)
  BY <1>1 DEF Call, Remote, NextStrategy, Network, Resolve, Redirect, Respond, AttemptFails,
        Connect, Frame, EndOfStream,
    Extract, Interrupted, Calm, workVars
<1>2. CASE Stopped(c)
  BY <1>2 DEF Stopped, workVars
<1>3. CASE Acquire(c)
  BY <1>3 DEF Acquire, workVars
<1>4. CASE PlanStash(c) \/ PlanImport(c)
  BY <1>4 DEF PlanStash, PlanImport, World, workVars
<1>5. CASE Publish(c) \/ RebuildAfterImport(c) \/ UseIndex(c) \/ UserAnswers(c)
  BY <1>5 DEF Publish, RebuildAfterImport, UseIndex, UserAnswers, World, workVars
<1>6. CASE Reload(c) \/ Answer(c) \/ Context(c)
  BY <1>6 DEF Reload, Answer, Context, World, workVars
<1>7. CASE OpenLegacy(c) \/ CopyLegacy(c) \/ ReadSnapshot(c) \/ AssertSource(c)
  BY <1>7 DEF OpenLegacy, CopyLegacy, ReadSnapshot, AssertSource, Stay, World, workVars
<1> QED
  BY <1>1, <1>2, <1>3, <1>4, <1>5, <1>6, <1>7 DEF Act, StashCall, StashStep, Asked

\* Which actions lead to a place.
Enters(c, l) == pc'[c] = l /\ pc[c] # l
LEMMA Entered ==
    ASSUME NEW c \in Calls, TypeInv, PlaceInv, Act(c)
    PROVE  /\ pc'[c] # "idle"
           /\ Enters(c, "lease") => Call(c) \/ AssertSource(c)
           /\ Enters(c, "plan") \/ Enters(c, "index") => Acquire(c)
           /\ Enters(c, "publish") => PlanStash(c) \/ PlanImport(c)
           /\ Enters(c, "rebuild") => Publish(c)
           /\ Enters(c, "prompt") => UseIndex(c)
           /\ Enters(c, "reload") => UseIndex(c) \/ UserAnswers(c)
           /\ Enters(c, "done") /\ req[c].op = "grep" => Answer(c)
           /\ Enters(c, "copy") => OpenLegacy(c)
           /\ Enters(c, "snapshot") => ReadSnapshot(c)
<1>a. DOMAIN pc = Calls /\ Placed(c)
  BY DEF TypeInv, PlaceInv
<1> USE DEF Enters
<1>1. CASE Call(c)
  BY <1>1, <1>a DEF Call, At, Goto, FirstStep
<1>2. CASE Acquire(c)
  BY <1>2, <1>a DEF Acquire, At, Goto
<1>3. CASE PlanStash(c) \/ PlanImport(c)
  BY <1>3, <1>a DEF PlanStash, PlanImport, At, Leave, Goto
<1>4. CASE Publish(c) \/ RebuildAfterImport(c)
  BY <1>4, <1>a DEF Publish, RebuildAfterImport, At, Leave, Goto, Placed
<1>5. CASE UseIndex(c) \/ UserAnswers(c)
  BY <1>5, <1>a DEF UseIndex, UserAnswers, At, Leave, Goto
<1>6. CASE Reload(c) \/ Answer(c) \/ Context(c)
  BY <1>6, <1>a DEF Reload, Answer, Context, At, Leave, Goto
<1>7. CASE OpenLegacy(c) \/ CopyLegacy(c) \/ ReadSnapshot(c) \/ AssertSource(c)
  BY <1>7, <1>a DEF OpenLegacy, CopyLegacy, ReadSnapshot, AssertSource, At, Goto
<1>8. CASE Remote(c)
  BY <1>8, <1>a DEF Remote, NextStrategy, Network, Resolve, Redirect, Respond, AttemptFails,
        Connect, Frame, EndOfStream,
    Extract, Interrupted, HasTimer, Online, At, Goto, Placed
<1>9. CASE Stopped(c)
  BY <1>9, <1>a DEF Stopped, Stoppable, Leave, Goto
<1> HIDE DEF Enters
<1> QED
  BY <1>1, <1>2, <1>3, <1>4, <1>5, <1>6, <1>7, <1>8, <1>9 DEF Act, StashCall, StashStep, Asked

\* Pages and index are always pages and an index.
LEMMA TypeStep ==
    ASSUME NEW c \in Calls, TypeInv, LeaseInv, PlaceInv, CatalogInv, BatchInv, Act(c)
    PROVE  TypeInv'
<1>1. pages' \in [Urls -> Texts \cup {None, Unreadable}]
  <2>1. CASE Publish(c) /\ pages' # pages
    <3>1. \A u \in DOMAIN batch[c] : batch[c][u] \in Texts
      BY <2>1 DEF BatchInv, Publish, At
    <3>2. pages' = [u \in Urls |-> IF u \in DOMAIN batch[c] THEN batch[c][u] ELSE pages[u]]
      BY <2>1 DEF Publish
    <3> QED
      BY <3>1, <3>2 DEF TypeInv
  <2> QED
    BY <2>1, Writers DEF TypeInv
<1>2. index' # None => index' \in Catalogs
  <2>1. CASE RebuildAfterImport(c)
    <3>1. cat[c] \in Catalogs /\ \A u \in DOMAIN batch[c] : batch[c][u] \in Texts
      BY <2>1 DEF BatchInv, CatalogInv, RebuildAfterImport, At, InLease
    <3>2. index' \in {index, [u \in Urls |-> IF u \in DOMAIN batch[c] THEN batch[c][u] ELSE cat[c][u]]}
      BY <2>1 DEF RebuildAfterImport
    <3> QED
      BY <3>1, <3>2 DEF TypeInv, Catalogs
  <2>2. CASE UseIndex(c) \/ UserAnswers(c)
    <3>1. cat[c] \in Catalogs
      BY <2>2 DEF CatalogInv, UseIndex, UserAnswers, At, InLease
    <3>2. index' = index \/ index' = cat[c]
      BY <2>2 DEF UseIndex, UserAnswers
    <3> QED
      BY <3>1, <3>2 DEF TypeInv
  <2> QED
    BY <2>1, <2>2, Writers DEF TypeInv
<1> QED
  BY <1>1, <1>2, CallsApart, LeasePasses DEF TypeInv, Alone

\* What c has loaded stays what the stash holds: only c may publish.
LEMMA CatalogStep ==
    ASSUME NEW c \in Calls, TypeInv, LeaseInv, PlaceInv, CatalogInv, Act(c)
    PROVE  CatalogInv'
<1> DEFINE Kept(d) ==
       /\ pc[d] \in InLease => cat[d] \in Catalogs
       /\ pc[d] \in InLease \ {"rebuild"} => \A u \in Urls \ touched[d] : pages[u] = cat[d][u]
<1>1. ASSUME NEW d \in Calls \ {c}
      PROVE  Kept(d)'
  <2>1. pc'[d] = pc[d] /\ cat'[d] = cat[d] /\ touched'[d] = touched[d]
    BY CallsApart DEF Alone
  <2>2. pc[d] \in InLease => holder # c
    BY NoneAssumption DEF LeaseInv
  <2> QED
    BY <2>1, <2>2, LeasePasses DEF CatalogInv
<1>2. Kept(c)'
  <2>1. CASE Acquire(c)
    <3>1. CASE Loads(pages)
      <4>1. pages \in Catalogs
        BY <3>1 DEF Loads, TypeInv, Catalogs
      <4>2. cat'[c] = pages /\ pages' = pages
        BY <2>1, <3>1 DEF Acquire, TypeInv
      <4> QED
        BY <4>1, <4>2
    <3>2. CASE ~Loads(pages)
      BY <2>1, <3>2 DEF Acquire, Goto, TypeInv, InLease
    <3> QED
      BY <3>1, <3>2
  <2>2. CASE Publish(c)
    <3>1. cat[c] \in Catalogs /\ cat' = cat
      BY <2>2 DEF Publish, CatalogInv, At, InLease
    <3>2. pc'[c] \in {"rebuild", "done", "failed"}
      BY <2>2 DEF Publish, Leave, Goto, TypeInv
    <3> QED
      BY <3>1, <3>2 DEF InLease
  <2>3. CASE ~Acquire(c) /\ ~Publish(c)
    <3>1. cat' = cat /\ touched' = touched /\ pages' = pages
      BY <2>3, Writers
    <3>2. pc'[c] \in InLease => pc[c] \in InLease \ {"rebuild"}
      BY <2>3, LeasePasses
    <3> QED
      BY <3>1, <3>2 DEF CatalogInv
  <2> QED
    BY <2>1, <2>2, <2>3
<1> QED
  BY <1>1, <1>2 DEF CatalogInv

\* What is about to be published.
LEMMA PlannedStash ==
    ASSUME NEW c \in Calls, TypeInv, PlanStash(c)
    PROVE  DOMAIN batch'[c] = {Normal[req[c].raw]} /\ \A u \in DOMAIN batch'[c] : batch'[c][u] \in Texts
<1>1. req[c].text \in Texts
  BY PlansAssumption DEF PlanStash, TypeInv
<1>2. batch'[c] = [v \in {Normal[req[c].raw]} |-> req[c].text]
  BY DEF PlanStash, TypeInv
<1> QED
  BY <1>1, <1>2

\* Each row that is new gets its page, and no two of them the same.
LEMMA PlannedImport ==
    ASSUME NEW c \in Calls, TypeInv, PlanImport(c), copy[c] \in Rows, ~Duplicates(c), pc'[c] = "publish"
    PROVE  Covers(c)' /\ \A u \in DOMAIN batch'[c] : batch'[c][u] \in Texts
<1> DEFINE new == [u \in {Normal[r] : r \in Planned(c)} |-> copy[c][CHOOSE r \in Planned(c) : Normal[r] = u]]
<1>1. ~req[c].preview /\ Conflicts(c) = {}
  BY DEF PlanImport, NothingToImport, Leave, Goto, At, TypeInv
<1>2. batch'[c] = new
  BY DEF PlanImport, TypeInv
<1>3. copy' = copy /\ cat' = cat /\ req' = req
  BY DEF PlanImport, World
<1>4. \A r \in Planned(c) : r \in Raws /\ copy[c][r] \in Texts /\ cat[c][Normal[r]] = None
  BY DEF Planned, Rows
<1>5. \A r \in Raws : copy[c][r] # None /\ r \notin Planned(c) => cat[c][Normal[r]] = copy[c][r]
  BY <1>1 DEF Conflicts, Planned, Rows
<1>6. ASSUME NEW r \in Planned(c)
      PROVE  Normal[r] \in DOMAIN new /\ new[Normal[r]] = copy[c][r]
  <2> DEFINE q == CHOOSE q \in Planned(c) : Normal[q] = Normal[r]
  <2>1. q \in Planned(c) /\ Normal[q] = Normal[r]
    OBVIOUS
  <2> HIDE DEF q
  <2>2. q = r
    BY <2>1, <1>4, NoneAssumption DEF Duplicates, Rows
  <2>3. new[Normal[r]] = copy[c][q]
    BY DEF q
  <2> QED
    BY <2>2, <2>3
<1>7. \A u \in DOMAIN new : \E r \in Planned(c) : u = Normal[r]
  OBVIOUS
<1> HIDE DEF new
<1>8. \A u \in DOMAIN new : u \in Urls /\ cat[c][u] = None /\ new[u] \in Texts
  BY <1>4, <1>6, <1>7 DEF Urls
<1>9. \A r \in Raws : copy[c][r] # None =>
          \/ Normal[r] \in DOMAIN new /\ new[Normal[r]] = copy[c][r]
          \/ Normal[r] \notin DOMAIN new /\ cat[c][Normal[r]] = copy[c][r]
  BY <1>5, <1>6, <1>8
<1> QED
  BY <1>1, <1>2, <1>3, <1>8, <1>9 DEF Covers

\* What is planned stays planned until it is published.
LEMMA BatchStep ==
    ASSUME NEW c \in Calls, TypeInv, PlaceInv, BatchInv, CopyInv, Act(c)
    PROVE  BatchInv'
<1> DEFINE Planning(d) ==
       /\ pc[d] \in {"publish", "rebuild"} => \A u \in DOMAIN batch[d] : batch[d][u] \in Texts
       /\ pc[d] = "publish" /\ req[d].op = "stash" => DOMAIN batch[d] = {Normal[req[d].raw]}
       /\ pc[d] = "publish" /\ req[d].op = "import" => Covers(d)
<1>1. ASSUME NEW d \in Calls \ {c}
      PROVE  Planning(d)'
  <2>1. pc'[d] = pc[d] /\ cat'[d] = cat[d] /\ batch'[d] = batch[d] /\ copy'[d] = copy[d] /\ req' = req
    BY CallsApart DEF Alone
  <2>2. Covers(d)' <=> Covers(d)
    BY <2>1 DEF Covers
  <2> QED
    BY <2>1, <2>2 DEF BatchInv
<1>2. Planning(c)'
  <2>a. req' = req /\ Placed(c)
    BY CallsApart DEF PlaceInv, Alone
  <2>1. CASE PlanStash(c)
    BY <2>1, <2>a, PlannedStash DEF PlanStash
  <2>2. CASE PlanImport(c) /\ pc'[c] = "publish"
    <3>1. req[c].op = "import" /\ pc[c] = "plan"
      BY <2>2 DEF PlanImport, At
    <3>2. copy[c] \in Rows /\ ~Duplicates(c)
      BY <3>1 DEF CopyInv
    <3> QED
      BY <2>2, <2>a, <3>1, <3>2, PlannedImport
  <2>3. CASE PlanImport(c) /\ pc'[c] # "publish"
    BY <2>3 DEF PlanImport, Leave, Goto, At, TypeInv
  <2>4. CASE ~PlanStash(c) /\ ~PlanImport(c) /\ pc'[c] \in {"publish", "rebuild"}
    <3>1. pc[c] = pc'[c] \/ (pc[c] = "publish" /\ pc'[c] = "rebuild")
      BY <2>4, Entered DEF Enters, Publish, At
    <3>2. batch' = batch /\ cat' = cat /\ copy' = copy
      BY <2>4, <3>1, Writers DEF Acquire, OpenLegacy, CopyLegacy, At
    <3>3. Covers(c)' <=> Covers(c)
      BY <3>2, <2>a DEF Covers
    <3> QED
      BY <3>1, <3>2, <3>3, <2>a DEF BatchInv
  <2>5. CASE pc'[c] \notin {"publish", "rebuild"}
    BY <2>5
  <2> QED
    BY <2>1, <2>2, <2>3, <2>4, <2>5
<1> QED
  BY <1>1, <1>2 DEF BatchInv

-------------------------------------------------------------------------------
(* What a grep finds. *)

\* Of the rows of a query those that hold the terms are all there are, or the
\* others and they use up the limit.
LEMMA RowsCount ==
    ASSUME NEW S, IsFiniteSet(S), NEW M \in SUBSET S, NEW rows \in SUBSET S,
           Cardinality(rows) <= Limit, Cardinality(rows) < Limit => rows = S
    PROVE  /\ Cardinality(rows \cap M) <= Limit
           /\ rows \cap M = M \/ Cardinality(rows \cap M) + Cardinality(S \ M) >= Limit
<1>1. IsFiniteSet(rows) /\ IsFiniteSet(rows \cap M) /\ IsFiniteSet(rows \ M) /\ IsFiniteSet(S \ M)
  BY FS_Subset
<1>2. /\ Cardinality(rows) \in Nat /\ Cardinality(rows \cap M) \in Nat /\ Cardinality(rows \ M) \in Nat
      /\ Cardinality(S \ M) \in Nat
  BY <1>1, FS_CardinalityType
<1>3. Cardinality(rows \cap M) <= Cardinality(rows)
  BY <1>1, FS_Subset
<1>4. Cardinality(rows \ M) <= Cardinality(S \ M)
  <2>1. rows \ M \subseteq S \ M
    OBVIOUS
  <2> QED
    BY <1>1, <2>1, FS_Subset
<1>5. Cardinality(rows \ M) = Cardinality(rows) - Cardinality(rows \cap M)
  BY <1>1, FS_Difference
<1>6. CASE Cardinality(rows) < Limit
  BY <1>2, <1>3, <1>6, LimitsAssumption
<1>7. CASE Cardinality(rows) = Limit
  BY <1>2, <1>3, <1>4, <1>5, <1>7, LimitsAssumption
<1> QED
  BY <1>2, <1>6, <1>7, LimitsAssumption

\* As many URLs at most as there are ways to type them.
LEMMA FiniteUrls == IsFiniteSet(Urls)
<1> DEFINE f == [r \in Raws |-> Normal[r]]
<1>1. f \in Surjection(Raws, Urls)
  BY DEF Surjection, Urls
<1> QED
  BY <1>1, RawsAssumption, FS_Surjection

\* A query over the index of the catalog, before any page is read again.
LEMMA QueryFinds ==
    ASSUME NEW c \in Calls, TypeInv, index' = cat[c], Query(c), DOMAIN hits[c] = {}, hits' = hits, cat' = cat,
           touched' = touched, req[c].op # "validate"
    PROVE  Found(c)'
<1> DEFINE found == {u \in Urls : index'[u] \in Indexed}
<1>1. PICK rows \in SUBSET found :
         /\ Cardinality(rows) <= Limit /\ (Cardinality(rows) < Limit => rows = found)
         /\ left' = [left EXCEPT ![c] = rows]
  BY DEF Query
<1>2. found = Ranked(c) /\ Ranked(c)' = Ranked(c) /\ Matching(c)' = Matching(c)
  BY DEF Ranked, Matching
<1>3. left'[c] = rows
  BY <1>1 DEF TypeInv
<1> HIDE DEF found
<1>4. Of(c, rows)'
  BY <1>1, <1>2, <1>3 DEF Of, IsRows
<1> QED
  BY <1>4 DEF Found

\* One page of the rows is read again.
LEMMA ReloadFinds ==
    ASSUME NEW c \in Calls, TypeInv, CatalogInv, Found(c), Reload(c), index = cat[c], pc'[c] = "reload"
    PROVE  Found(c)'
<1>1. PICK u \in left[c] :
         /\ left' = [left EXCEPT ![c] = @ \ {u}]
         /\ hits' = [hits EXCEPT ![c] =
               IF cat[c][u] # None /\ IsHit(c, u)
               THEN [v \in DOMAIN @ \cup {u} |-> IF v = u THEN pages[u] ELSE @[v]] ELSE @]
  BY DEF Reload, Leave, Goto, TypeInv, At
<1>2. cat' = cat /\ touched' = touched /\ Ranked(c)' = Ranked(c) /\ Matching(c)' = Matching(c)
  BY DEF Reload, World, Ranked, Matching
<1>3. PICK rows : Of(c, rows)
  BY DEF Found
<1>4. u \in rows /\ u \in Ranked(c) /\ u \in Urls /\ cat[c][u] \in Indexed /\ cat[c][u] # None
  BY <1>3, NoneAssumption, MatchingAssumption DEF Of, IsRows, Ranked
<1>5. left'[c] = left[c] \ {u}
  BY <1>1 DEF TypeInv
<1>6. IsRows(c, rows)'
  BY <1>2, <1>3 DEF Of, IsRows
<1>7. CASE IsHit(c, u)
  <2>1. hits'[c] = [v \in DOMAIN hits[c] \cup {u} |-> IF v = u THEN pages[u] ELSE hits[c][v]]
    BY <1>1, <1>4, <1>7 DEF TypeInv
  <2>2. pages[u] = cat[c][u] /\ u \in Matching(c)
    BY <1>4, <1>7 DEF IsHit, Matching
  <2>3. DOMAIN hits'[c] = DOMAIN hits[c] \cup {u}
    BY <2>1
  <2>4. Of(c, rows)'
    BY <1>2, <1>3, <1>4, <1>5, <1>6, <2>2, <2>3 DEF Of
  <2>5. \A v \in DOMAIN hits'[c] : hits'[c][v] = cat'[c][v]
    BY <1>2, <2>1, <2>2 DEF Found
  <2> QED
    BY <2>4, <2>5 DEF Found
<1>8. CASE ~IsHit(c, u)
  <2>1. hits'[c] = hits[c]
    BY <1>1, <1>8 DEF TypeInv
  <2>2. pc[c] = "reload"
    BY DEF Reload, At
  <2>3. u \in touched[c] \/ u \notin Matching(c)
    BY <1>4, <1>8, <2>2 DEF IsHit, CatalogInv, InLease, Matching
  <2>4. Of(c, rows)'
    BY <1>2, <1>3, <1>5, <1>6, <2>1, <2>3 DEF Of
  <2> QED
    BY <1>2, <2>1, <2>4 DEF Found
<1> QED
  BY <1>7, <1>8

\* Found speaks of what a call has, and nothing else.
LEMMA FoundStays ==
    ASSUME NEW c \in Calls, cat'[c] = cat[c], hits'[c] = hits[c], left'[c] = left[c], Found(c),
           touched'[c] = touched[c] \/ touched'[c] # {}
    PROVE  Found(c)'
<1>1. PICK rows : Of(c, rows)
  BY DEF Found
<1>2. Ranked(c)' = Ranked(c) /\ Matching(c)' = Matching(c)
  BY DEF Ranked, Matching
<1>3. Of(c, rows)'
  BY <1>1, <1>2 DEF Of, IsRows
<1> QED
  BY <1>3 DEF Found

\* A grep goes from the query over the pages it reads again to its answer.
LEMMA GrepStep ==
    ASSUME NEW c \in Calls, TypeInv, LeaseInv, PlaceInv, CatalogInv, GrepInv, Act(c)
    PROVE  GrepInv'
<1> DEFINE Searched(d) ==
       /\ pc[d] \in {"idle", "lease", "index", "prompt"} /\ req[d].op = "grep" => DOMAIN hits[d] = {}
       /\ pc[d] = "reload" => index = cat[d]
       /\ pc[d] = "reload" /\ req[d].op = "grep" => Found(d)
       /\ pc[d] = "done" /\ req[d].op = "grep" => Found(d) /\ left[d] = {}
<1>1. ASSUME NEW d \in Calls \ {c}
      PROVE  Searched(d)'
  <2>1. /\ pc'[d] = pc[d] /\ cat'[d] = cat[d] /\ hits'[d] = hits[d] /\ left'[d] = left[d]
        /\ touched'[d] = touched[d] /\ req' = req
    BY CallsApart DEF Alone
  <2>2. Found(d) => Found(d)'
    BY <2>1, FoundStays
  <2>3. pc[d] = "reload" => index' = index
    BY LeasePasses, NoneAssumption DEF LeaseInv, InLease
  <2> QED
    BY <2>1, <2>2, <2>3 DEF GrepInv
<1> SUFFICES Searched(c)'
  BY <1>1 DEF GrepInv
<1>a. req' = req /\ Searched(c) /\ Placed(c)
  BY CallsApart DEF PlaceInv, Alone, GrepInv
<1>2. pc'[c] \in {"idle", "lease", "index", "prompt"} /\ req[c].op = "grep" => DOMAIN hits'[c] = {}
  <2>1. ASSUME pc'[c] \in {"idle", "lease", "index", "prompt"}, req[c].op = "grep"
        PROVE  pc[c] \in {"idle", "lease", "index", "prompt"} /\ hits' = hits
    <3>1. pc[c] # "snapshot" /\ pc[c] # "context"
      BY <2>1, <1>a DEF Placed
    <3>2. hits' = hits
      BY <2>1, <3>1, Writers DEF Reload, Context, Leave, Goto, At, TypeInv
    <3>3. pc[c] \in {"idle", "lease", "index", "prompt"}
      BY <2>1, <3>1, <1>a, Entered DEF Enters, Call, AssertSource, Acquire, UseIndex, At, Placed
    <3> QED
      BY <3>2, <3>3
  <2> QED
    BY <2>1, <1>a
<1>3. CASE pc'[c] = "reload"
  <2>1. CASE pc[c] = "reload"
    <3>1. /\ ~UseIndex(c) /\ ~UserAnswers(c) /\ ~RebuildAfterImport(c) /\ ~Acquire(c)
          /\ ~OpenLegacy(c) /\ ~CopyLegacy(c) /\ ~Context(c)
      BY <2>1 DEF UseIndex, UserAnswers, RebuildAfterImport, Acquire, OpenLegacy, CopyLegacy,
            Context, At
    <3>2. index' = index /\ cat' = cat /\ touched' = touched
      BY <3>1, Writers
    <3>3. CASE Reload(c)
      BY <1>3, <2>1, <3>2, <3>3, <1>a, ReloadFinds
    <3>4. CASE ~Reload(c)
      <4>1. hits' = hits /\ left' = left
        BY <3>1, <3>4, Writers
      <4>2. Found(c) => Found(c)'
        BY <3>2, <4>1, FoundStays
      <4> QED
        BY <1>3, <2>1, <3>2, <4>1, <4>2, <1>a
    <3> QED
      BY <3>3, <3>4
  <2>2. CASE pc[c] # "reload"
    <3>1. UseIndex(c) \/ UserAnswers(c)
      BY <1>3, <2>2, Entered DEF Enters
    <3>2. /\ pc[c] \in {"index", "prompt"} /\ index' = cat[c] /\ Query(c)
          /\ hits' = hits /\ cat' = cat /\ touched' = touched
      BY <3>1, <1>3 DEF UseIndex, UserAnswers, IsReady, Leave, Goto, At, World, TypeInv
    <3> QED
      BY <1>3, <3>2, <1>a, QueryFinds
  <2> QED
    BY <2>1, <2>2
<1>4. CASE pc'[c] = "done" /\ req[c].op = "grep"
  <2>1. CASE pc[c] = "done"
    <3>1. FALSE
      BY <2>1, StepsRun DEF Running, Over, Call, At
    <3> QED
      BY <3>1
  <2>2. CASE pc[c] # "done"
    <3>1. Answer(c)
      BY <1>4, <2>2, Entered DEF Enters
    <3>2. pc[c] = "reload" /\ left[c] = {} /\ left' = left /\ hits' = hits /\ cat' = cat /\ touched' = touched
      BY <3>1 DEF Answer, At, World, workVars
    <3>3. Found(c) => Found(c)'
      BY <3>2, FoundStays
    <3> QED
      BY <1>4, <3>2, <3>3, <1>a
  <2> QED
    BY <2>1, <2>2
<1> QED
  BY <1>2, <1>3, <1>4, <1>a

-------------------------------------------------------------------------------
(* What an import copies. *)

\* An import goes from the copy over the checks of its source to its plan.
LEMMA CopyStep ==
    ASSUME NEW c \in Calls, TypeInv, PlaceInv, LegacyInv, CopyInv, Act(c)
    PROVE  CopyInv'
<1> DEFINE Imports(d) ==
       /\ pc[d] = "copy" => Copies(d)
       /\ pc[d] \in {"snapshot", "lease", "plan", "publish"} /\ req[d].op = "import" =>
             copy[d] \in Rows /\ ~Duplicates(d) /\ (Settles(d) => copy[d] \in wholes)
<1>0. req' = req /\ main' = main /\ inode' = inode /\ mtime' = mtime /\ clock' = clock /\ wholes' = wholes
  BY CallsApart DEF Alone, legacyVars
<1>1. ASSUME NEW d \in Calls, copy'[d] = copy[d], ident'[d] = ident[d], left'[d] = left[d]
      PROVE  (Copies(d)' <=> Copies(d)) /\ (Duplicates(d)' <=> Duplicates(d)) /\ (Settles(d)' <=> Settles(d))
  BY <1>0, <1>1 DEF Copies, Duplicates, Settles, SameSource, Identity
<1>2. ASSUME NEW d \in Calls \ {c}
      PROVE  Imports(d)'
  <2>1. pc'[d] = pc[d] /\ copy'[d] = copy[d] /\ ident'[d] = ident[d] /\ left'[d] = left[d]
    BY CallsApart DEF Alone
  <2> QED
    BY <1>0, <1>1, <2>1 DEF CopyInv
<1> SUFFICES Imports(c)'
  BY <1>2 DEF CopyInv
<1>a. Imports(c) /\ Placed(c)
  BY DEF CopyInv, PlaceInv
<1>3. CASE OpenLegacy(c)
  <2>1. /\ ident'[c] = [file |-> [inode |-> inode, mtime |-> mtime], at |-> clock]
        /\ left'[c] = Raws /\ copy'[c] = NoPage /\ pc'[c] \in {"copy", "failed"}
        /\ pc'[c] = "copy" => wal = None
    BY <1>3 DEF OpenLegacy, Identity, Goto, TypeInv
  <2>2. pc'[c] = "copy" => Copies(c)'
    <3>1. NoPage \in [Raws \ Raws -> Texts \cup {None}] /\ DOMAIN NoPage = {}
      BY DEF NoPage
    <3> QED
      BY <1>0, <2>1, <3>1 DEF Copies, LegacyInv, SameSource
  <2> QED
    BY <2>1, <2>2
<1>4. CASE CopyLegacy(c)
  <2>1. PICK r \in left[c] :
           /\ left' = [left EXCEPT ![c] = @ \ {r}]
           /\ copy' = [copy EXCEPT ![c] = [q \in DOMAIN @ \cup {r} |-> IF q = r THEN main[r] ELSE @[q]]]
    BY <1>4 DEF CopyLegacy
  <2>2. /\ left'[c] = left[c] \ {r}
        /\ copy'[c] = [q \in DOMAIN copy[c] \cup {r} |-> IF q = r THEN main[r] ELSE copy[c][q]]
        /\ ident'[c] = ident[c] /\ pc' = pc /\ pc[c] = "copy"
    BY <1>4, <2>1 DEF CopyLegacy, At, TypeInv
  <2>3. Copies(c)
    BY <2>2, <1>a
  <2>4. SameSource(c)' <=> SameSource(c)
    BY <1>0, <2>2 DEF SameSource, Identity
  <2>5. copy'[c] \in [Raws \ left'[c] -> Texts \cup {None}]
    <3>1. r \in Raws /\ main[r] \in Texts \cup {None}
      BY <2>3 DEF Copies, LegacyInv, Rows
    <3>2. DOMAIN copy[c] \cup {r} = Raws \ left'[c]
      BY <2>2, <2>3, <3>1 DEF Copies
    <3> QED
      BY <2>2, <2>3, <3>1, <3>2 DEF Copies
  <2>6. Copies(c)'
    BY <1>0, <2>2, <2>3, <2>4, <2>5 DEF Copies, Settles
  <2> QED
    BY <2>2, <2>6
<1>5. CASE ~OpenLegacy(c) /\ ~CopyLegacy(c) /\ pc'[c] = "copy"
  <2>1. pc[c] = "copy"
    BY <1>5, Entered DEF Enters
  <2>2. copy' = copy /\ ident' = ident /\ left' = left
    BY <1>5, <2>1, Writers DEF UseIndex, UserAnswers, Reload, At
  <2> QED
    BY <1>5, <2>1, <2>2, <1>1, <1>a
<1>6. CASE ReadSnapshot(c) /\ pc'[c] = "snapshot"
  <2>1. /\ ~Duplicates(c) /\ SameSource(c) /\ left[c] = {} /\ pc[c] = "copy"
        /\ copy' = copy /\ ident' = ident /\ left' = left
    BY <1>6 DEF ReadSnapshot, Goto, At, workVars, TypeInv
  <2>2. Copies(c)
    BY <2>1, <1>a
  <2>3. copy[c] \in Rows
    BY <2>1, <2>2 DEF Copies, Rows
  <2>4. Settles(c) => copy[c] = main /\ main \in wholes
    BY <2>1, <2>2, <2>3 DEF Copies, Rows, LegacyInv
  <2> QED
    BY <1>0, <1>1, <1>6, <2>1, <2>3, <2>4
<1>7. CASE ~OpenLegacy(c) /\ ~CopyLegacy(c) /\ ~ReadSnapshot(c) /\ pc'[c] \in {"snapshot", "lease", "plan", "publish"}
            /\ req[c].op = "import"
  <2>1. pc[c] \in {"snapshot", "lease", "plan", "publish"}
    BY <1>7, <1>a, Entered DEF Enters, Call, FirstStep, AssertSource, Acquire, PlanStash,
          PlanImport, At, Placed, Goto, TypeInv
  <2>2. copy' = copy /\ ident' = ident
    BY <1>7, Writers
  <2>3. (Duplicates(c)' <=> Duplicates(c)) /\ (Settles(c)' <=> Settles(c))
    BY <2>2 DEF Duplicates, Settles
  <2> QED
    BY <1>0, <1>7, <2>1, <2>2, <2>3, <1>a
<1>8. CASE pc'[c] \notin {"copy", "snapshot", "lease", "plan", "publish"} \/ (pc'[c] # "copy" /\ req[c].op # "import")
  BY <1>0, <1>8
<1>9. CASE ReadSnapshot(c) /\ pc'[c] # "snapshot"
  BY <1>9 DEF ReadSnapshot, Goto, At, TypeInv
<1> QED
  BY <1>3, <1>4, <1>5, <1>6, <1>7, <1>8, <1>9

-------------------------------------------------------------------------------
(* What goes on around the calls. *)

\* The operator touches a page of everybody's catalog.
LEMMA EditStep ==
    ASSUME TypeInv, CatalogInv, GrepInv, OperatorEdit
    PROVE  TypeInv' /\ CatalogInv' /\ GrepInv'
<1>1. PICK e \in Edits :
         /\ edits' = edits + 1 /\ pages' = [pages EXCEPT ![e.url] = e.to]
         /\ touched' = [c \in Calls |-> touched[c] \cup {e.url}]
  BY DEF OperatorEdit
<1>2. UNCHANGED <<index, holder, legacyVars, pc, req, cat, workVars>>
  BY DEF OperatorEdit
<1>3. e.url \in Urls /\ e.to \in Texts \cup {None, Unreadable}
  BY EditsAssumption
<1>4. TypeInv'
  BY <1>1, <1>2, <1>3 DEF TypeInv, workVars
<1>5. CatalogInv'
  BY <1>1, <1>2, <1>3 DEF TypeInv, CatalogInv
<1>6. ASSUME NEW c \in Calls, Found(c) PROVE Found(c)'
  <2>1. cat'[c] = cat[c] /\ hits'[c] = hits[c] /\ left'[c] = left[c] /\ touched'[c] # {}
    BY <1>1, <1>2 DEF workVars
  <2> QED
    BY <1>6, <2>1, FoundStays
<1>7. GrepInv'
  BY <1>2, <1>6 DEF GrepInv, workVars
<1> QED
  BY <1>4, <1>5, <1>7

\* A checkpoint changes the time of the file, or what is already past the time at
\* which the import identified it; another file has another inode.
LEMMA LegacyStep ==
    ASSUME TypeInv, LegacyInv, CopyInv, Legacy
    PROVE  LegacyInv' /\ CopyInv'
<1>1. UNCHANGED <<pages, index, holder, pc, req, cat, workVars, touched, edits>>
  BY DEF Legacy
<1> DEFINE Later ==
       /\ wholes \subseteq wholes' /\ inode' \in Nat /\ mtime' \in Nat /\ clock' \in Nat
       /\ inode' >= inode /\ mtime' >= mtime /\ clock' >= clock
       /\ inode' > inode \/ (main' = main /\ mtime' = mtime) \/ (mtime' = clock /\ mtime' >= mtime)
<1>2. LegacyInv' /\ Later
  <2>1. CASE ServerOpens \/ ServerCloses
    BY <2>1 DEF ServerOpens, ServerCloses, LegacyInv
  <2>2. CASE Tick
    BY <2>2 DEF Tick, LegacyInv
  <2>3. ASSUME NEW d \in Databases, ServerCommits(d)
        PROVE  LegacyInv' /\ Later
    BY <2>3, DatabasesAssumption DEF ServerCommits, LegacyInv, Rows
  <2>4. ASSUME NEW d \in Databases, Replace(d)
        PROVE  LegacyInv' /\ Later
    BY <2>4, DatabasesAssumption DEF Replace, LegacyInv, Rows
  <2>5. ASSUME NEW r \in Raws, Checkpoint(r)
        PROVE  LegacyInv' /\ Later
    <3>1. main' \in Rows /\ wal \in Rows /\ wal # None
      BY <2>5 DEF Checkpoint, LegacyInv, Rows
    <3>2. wholes \subseteq wholes' /\ (main' = wal => main' \in wholes') /\ wal' = wal
      BY <2>5 DEF Checkpoint
    <3>3. mtime' = clock /\ clock' = clock /\ inode' = inode
      BY <2>5 DEF Checkpoint
    <3> QED
      BY <3>1, <3>2, <3>3 DEF LegacyInv
  <2> QED
    BY <2>1, <2>2, <2>3, <2>4, <2>5 DEF Legacy
<1>3. ASSUME NEW c \in Calls, pc[c] = "copy"
      PROVE  Copies(c)'
  <2>1. Copies(c)
    BY <1>3 DEF CopyInv
  <2>2. copy'[c] = copy[c] /\ ident'[c] = ident[c] /\ left'[c] = left[c]
    BY <1>1 DEF workVars
  <2>3. SameSource(c) <=> ident[c].file.inode = inode /\ ident[c].file.mtime = mtime
    BY <2>1 DEF SameSource, Identity, Copies
  <2>4. SameSource(c)' <=> ident[c].file.inode = inode' /\ ident[c].file.mtime = mtime'
    BY <2>1, <2>2 DEF SameSource, Identity, Copies
  <2>5. SameSource(c)' /\ Settles(c) => SameSource(c) /\ main' = main
    BY <1>2, <2>1, <2>3, <2>4 DEF Copies, Settles, LegacyInv
  <2> QED
    BY <1>2, <2>1, <2>2, <2>5 DEF Copies, Settles, LegacyInv
<1>4. \A c \in Calls : (Duplicates(c)' <=> Duplicates(c)) /\ (Settles(c)' <=> Settles(c))
  BY <1>1 DEF Duplicates, Settles, workVars
<1> QED
  BY <1>1, <1>2, <1>3, <1>4 DEF CopyInv, workVars

\* close() takes note of the calls that run, and ends when they have.
LEMMA ClosingStep ==
    ASSUME CloseInv, Close \/ Settled
    PROVE  CloseInv'
<1>1. pc' = pc /\ req' = req
  BY DEF Close, Settled, Calm
<1>2. \A c : (Tracked(c)' <=> Tracked(c)) /\ (Running(c)' <=> Running(c))
  BY <1>1 DEF Tracked, Running
<1>3. CASE Close
  BY <1>2, <1>3 DEF Close, CloseInv, InFlight
<1>4. CASE Settled
  BY <1>2, <1>4 DEF Settled, CloseInv
<1> QED
  BY <1>3, <1>4

-------------------------------------------------------------------------------
(* The invariant. *)

StashInv == TypeInv /\ LeaseInv /\ PlaceInv /\ CatalogInv /\ BatchInv /\ GrepInv
AroundInv == NetInv /\ LegacyInv /\ CloseInv /\ CopyInv
SearchableInv == StashInv /\ AroundInv

\* A step of a call keeps it.
LEMMA ActKeeps ==
    ASSUME NEW c \in Calls, SearchableInv, Act(c)
    PROVE  SearchableInv'
<1>1. StashInv'
  BY TypeStep, LeaseStep, PlaceStep, CatalogStep, BatchStep, GrepStep DEF SearchableInv, StashInv,
        AroundInv
<1>2. LegacyInv'
  BY CallsApart DEF SearchableInv, StashInv, AroundInv, Alone, legacyVars, LegacyInv
<1>3. AroundInv'
  BY <1>2, NetStep, CloseStep, CopyStep DEF SearchableInv, StashInv, AroundInv
<1> QED
  BY <1>1, <1>3 DEF SearchableInv

\* An invariant says nothing of what did not change.
LEMMA StashUnmoved ==
    ASSUME StashInv, UNCHANGED <<pages, index, holder, pc, req, cat, workVars, touched, edits>>
    PROVE  StashInv'
<1> USE DEF workVars
<1>1. TypeInv' /\ LeaseInv' /\ CatalogInv'
  BY DEF StashInv, TypeInv, LeaseInv, CatalogInv
<1>2. PlaceInv'
  BY DEF StashInv, PlaceInv, Placed
<1>3. BatchInv'
  BY DEF StashInv, BatchInv, Covers
<1>4. GrepInv'
  <2>1. ASSUME NEW c \in Calls, Found(c) PROVE Found(c)'
    BY <2>1, FoundStays DEF workVars
  <2> QED
    BY <2>1 DEF StashInv, GrepInv
<1> QED
  BY <1>1, <1>2, <1>3, <1>4 DEF StashInv

LEMMA NetUnmoved ==
    ASSUME NetInv, UNCHANGED <<pc, req, net>>
    PROVE  NetInv'
BY DEF NetInv

LEMMA CloseUnmoved ==
    ASSUME CloseInv, UNCHANGED <<pc, req, closer, awaited>>
    PROVE  CloseInv'
BY DEF CloseInv, Tracked, Running

LEMMA CopyUnmoved ==
    ASSUME CopyInv, UNCHANGED <<pc, req, legacyVars, workVars>>
    PROVE  CopyInv'
BY DEF CopyInv, Copies, Duplicates, Settles, SameSource, Identity, legacyVars, workVars

LEMMA LegacyUnmoved ==
    ASSUME LegacyInv, UNCHANGED legacyVars
    PROVE  LegacyInv'
BY DEF LegacyInv, legacyVars

\* So does every step of the system.
LEMMA InvStep ==
    ASSUME SearchableInv, [Next]_vars
    PROVE  SearchableInv'
<1> USE DEF SearchableInv, AroundInv
<1>1. ASSUME NEW c \in Calls, Act(c)
      PROVE  SearchableInv'
  BY <1>1, ActKeeps
<1>2. CASE OperatorEdit /\ UNCHANGED runtimeVars
  <2>1. UNCHANGED <<index, holder, legacyVars, pc, req, cat, workVars, closer, awaited, net>>
    BY <1>2 DEF OperatorEdit, runtimeVars
  <2>2. TypeInv' /\ CatalogInv' /\ GrepInv'
    BY <1>2, EditStep DEF StashInv
  <2>3. LeaseInv' /\ PlaceInv' /\ BatchInv'
    BY <2>1 DEF StashInv, LeaseInv, PlaceInv, Placed, BatchInv, Covers, workVars
  <2> QED
    BY <2>1, <2>2, <2>3, NetUnmoved, CloseUnmoved, CopyUnmoved, LegacyUnmoved DEF StashInv
<1>3. CASE Legacy /\ UNCHANGED runtimeVars
  <2>1. UNCHANGED <<pages, index, holder, pc, req, cat, workVars, touched, edits, closer, awaited, net>>
    BY <1>3 DEF Legacy, runtimeVars
  <2>2. LegacyInv' /\ CopyInv'
    BY <1>3, LegacyStep DEF StashInv
  <2> QED
    BY <2>1, <2>2, StashUnmoved, NetUnmoved, CloseUnmoved
<1>4. CASE Close \/ Settled
  <2>1. UNCHANGED <<pages, index, holder, legacyVars, pc, req, cat, workVars, touched, edits, net>>
    BY <1>4 DEF Close, Settled, Calm
  <2> QED
    BY <1>4, <2>1, ClosingStep, StashUnmoved, NetUnmoved, CopyUnmoved, LegacyUnmoved
<1>5. CASE UNCHANGED vars
  <2>1. UNCHANGED <<pages, index, holder, legacyVars, pc, req, cat, workVars, touched, edits, closer, awaited, net>>
    BY <1>5 DEF vars, stashVars, runtimeVars
  <2> QED
    BY <2>1, StashUnmoved, NetUnmoved, CloseUnmoved, CopyUnmoved, LegacyUnmoved
<1> QED
  BY <1>1, <1>2, <1>3, <1>4, <1>5 DEF Next, Outside, Act, Remote

\* And it holds at first.
LEMMA InvInit ==
    ASSUME Init
    PROVE  SearchableInv
<1> USE DEF Init, StashInit
<1>1. TypeInv
  BY StartsAssumption DEF TypeInv, Steps
<1>2. LeaseInv /\ PlaceInv /\ CatalogInv /\ BatchInv
  BY NoneAssumption DEF LeaseInv, PlaceInv, Placed, CatalogInv, BatchInv, InLease
<1>3. GrepInv
  BY DEF GrepInv, NoPage
<1>4. NetInv
  BY StrategiesAssumption, RedirectsAssumption DEF NetInv, Nets, NewNet
<1>5. LegacyInv
  <2>1. main \in Databases
    BY DatabasesAssumption
  <2>2. main \in Rows
    BY <2>1, DatabasesAssumption DEF Rows
  <2> QED
    BY <2>2 DEF LegacyInv
<1>6. CloseInv /\ CopyInv
  BY DEF CloseInv, CopyInv
<1> QED
  BY <1>1, <1>2, <1>3, <1>4, <1>5, <1>6 DEF SearchableInv, StashInv, AroundInv

\* The inductive invariant holds throughout, whatever calls, edits and writes of
\* the legacy server come in between.
THEOREM SearchableInvariant == Spec => []SearchableInv
<1>1. Init => SearchableInv
  BY InvInit
<1>2. SearchableInv /\ [Next]_vars => SearchableInv'
  BY InvStep
<1> QED
  BY <1>1, <1>2, PTL DEF Spec

-------------------------------------------------------------------------------
(* What it gives. *)

\* The types, the lease, and what close() promises: once it has succeeded, none of
\* the calls the runtime admitted runs any more (runtime.ts close).
THEOREM RuntimeIsSafe == Spec => []RuntimeInv
<1>1. SearchableInv => RuntimeInv
  <2> SUFFICES ASSUME SearchableInv PROVE RuntimeInv
    OBVIOUS
  <2>1. TypeInv /\ LeaseInv /\ NetInv /\ CloseInv
    BY DEF SearchableInv, StashInv, AroundInv
  <2>2. TypeOK
    <3>1. pages \in [Urls -> Texts \cup {None, Unreadable}] /\ (index # None => index \in [Urls -> Texts \cup {None}])
      BY <2>1 DEF TypeInv, Catalogs
    <3>2. closer \in {"open", "settling", "closed", "failed"} /\ awaited \subseteq Calls /\ net \in [Calls -> Nets]
      BY <2>1 DEF CloseInv, NetInv
    <3>3. \A c \in Calls : pc[c] \in Steps /\ (holder = c <=> pc[c] \in InLease)
      BY <2>1 DEF TypeInv, LeaseInv
    <3> QED
      BY <3>1, <3>2, <3>3 DEF TypeOK, InLease
  <2>3. QuietAfterClose
    BY <2>1 DEF QuietAfterClose, CloseInv
  <2> QED
    BY <2>2, <2>3 DEF RuntimeInv
<1> QED
  BY <1>1, SearchableInvariant, PTL

\* What a grep shows when it ends: pages of one catalog that matched by the index
\* and by their terms; unless files were edited by hand meanwhile all such pages,
\* but for one of them at most for each that only the index matches, or for the
\* limit (stash.ts grep).
THEOREM GrepsAreExact == Spec => []GrepIsExact
<1>1. SearchableInv => GrepIsExact
  <2> SUFFICES ASSUME SearchableInv, NEW c \in Calls, pc[c] = "done", req[c].op = "grep"
               PROVE  LET shown == DOMAIN hits[c] IN
                      /\ shown \subseteq Matching(c) /\ Cardinality(shown) <= Limit
                      /\ \A u \in shown : hits[c][u] = cat[c][u]
                      /\ touched[c] = {} =>
                            \/ shown = Matching(c)
                            \/ Cardinality(shown) + Cardinality(Ranked(c) \ Matching(c)) >= Limit
    BY DEF GrepIsExact, At
  <2> DEFINE shown == DOMAIN hits[c]
             S == Ranked(c)
             M == Matching(c)
  <2>1. Found(c) /\ left[c] = {}
    BY DEF SearchableInv, StashInv, GrepInv
  <2>2. PICK rows : Of(c, rows)
    BY <2>1 DEF Found
  <2>3. IsFiniteSet(S) /\ M \in SUBSET S
    BY FiniteUrls, FS_Subset DEF Ranked, Matching
  <2>4. rows \in SUBSET S /\ Cardinality(rows) <= Limit /\ (Cardinality(rows) < Limit => rows = S)
    BY <2>2 DEF Of, IsRows
  <2>5. shown \subseteq rows \cap M /\ (touched[c] = {} => shown = rows \cap M)
    BY <2>1, <2>2 DEF Of
  <2>6. /\ Cardinality(rows \cap M) <= Limit
        /\ rows \cap M = M \/ Cardinality(rows \cap M) + Cardinality(S \ M) >= Limit
    BY <2>3, <2>4, RowsCount
  <2>7. Cardinality(shown) <= Limit
    <3>1. IsFiniteSet(rows \cap M) /\ IsFiniteSet(shown)
      BY <2>3, <2>4, <2>5, FS_Subset
    <3>2. Cardinality(shown) <= Cardinality(rows \cap M) /\ Cardinality(shown) \in Nat
          /\ Cardinality(rows \cap M) \in Nat
      BY <2>5, <3>1, FS_Subset, FS_CardinalityType
    <3> QED
      BY <2>6, <3>2, LimitsAssumption
  <2>8. \A u \in shown : hits[c][u] = cat[c][u]
    BY <2>1 DEF Found
  <2> QED
    BY <2>5, <2>6, <2>7, <2>8
<1> QED
  BY <1>1, SearchableInvariant, PTL

\* The rows an import goes on with were in the database together at one time,
\* unless it was last written in the tick of the clock in which it was identified
\* (migration.ts assertSourceIdentity).
THEOREM SnapshotsAreWhole == Spec => []SnapshotIsWhole
<1>1. SearchableInv => SnapshotIsWhole
  BY DEF SearchableInv, AroundInv, CopyInv, Settles, SnapshotIsWhole
<1> QED
  BY <1>1, SearchableInvariant, PTL

\* Only the call that publishes changes pages, and the operator.
LEMMA OnlyPublished ==
    ASSUME NEW c \in Calls, SearchableInv, [Next]_vars, holder = c, pages' # pages, edits' = edits
    PROVE  Publish(c) /\ AsExpected(c)
<1> USE DEF SearchableInv, StashInv
<1>1. PICK d \in Calls : Act(d)
  BY DEF Next, Outside, Act, Remote, OperatorEdit, Legacy, Close, Settled, Calm, vars, stashVars,
        TypeInv
<1>2. Publish(d) /\ AsExpected(d)
  BY <1>1, Writers DEF Publish
<1>3. holder = d
  BY <1>1, LeasePasses
<1> QED
  BY <1>2, <1>3

\* What takes effect is what was planned: an import replaces no page and leaves
\* every row of its snapshot with a page, a stash changes its own page, and only
\* one whose bytes it has read (stash.ts importPages and stash).
THEOREM PublishesWhatItPlanned == Spec => PublishedIsPlanned
<1> DEFINE Planning ==
       \A c \in Calls :
          holder = c /\ pages' # pages /\ edits' = edits =>
              /\ req[c].op = "import" => ImportIsWhole(c)
              /\ req[c].op = "stash" => StashIsOfWhatItRead(c)
<1>1. ASSUME SearchableInv, [Next]_vars
      PROVE  Planning
  <2> SUFFICES ASSUME NEW c \in Calls, holder = c, pages' # pages, edits' = edits
               PROVE  /\ req[c].op = "import" => ImportIsWhole(c)
                      /\ req[c].op = "stash" => StashIsOfWhatItRead(c)
    OBVIOUS
  <2>1. Publish(c) /\ AsExpected(c)
    BY <1>1, OnlyPublished
  <2>2. /\ pc[c] = "publish"
        /\ pages' = [u \in Urls |-> IF u \in DOMAIN batch[c] THEN batch[c][u] ELSE pages[u]]
        /\ \A u \in DOMAIN batch[c] : pages[u] = cat[c][u]
    BY <2>1 DEF Publish, At, AsExpected
  <2>3. \A u \in Urls \ touched[c] : pages[u] = cat[c][u]
    BY <1>1, <2>2 DEF SearchableInv, StashInv, CatalogInv, InLease
  <2>4. ASSUME req[c].op = "import"
        PROVE  ImportIsWhole(c)
    <3>1. Covers(c)
      BY <1>1, <2>2, <2>4 DEF SearchableInv, StashInv, BatchInv
    <3>2. copy[c] \in Rows
      BY <1>1, <2>2, <2>4 DEF SearchableInv, AroundInv, CopyInv
    <3>3. \A u \in Urls : pages[u] # None => pages'[u] = pages[u]
      BY <2>2, <3>1 DEF Covers
    <3>4. ASSUME NEW r \in DOMAIN copy[c], copy[c][r] # None, Normal[r] \notin touched[c]
          PROVE  pages'[Normal[r]] = copy[c][r]
      <4>1. r \in Raws /\ Normal[r] \in Urls
        BY <3>2 DEF Rows, Urls
      <4> QED
        BY <2>2, <2>3, <3>1, <3>4, <4>1 DEF Covers
    <3> QED
      BY <3>1, <3>3, <3>4 DEF ImportIsWhole, Covers
  <2>5. ASSUME req[c].op = "stash"
        PROVE  StashIsOfWhatItRead(c)
    <3>1. DOMAIN batch[c] = {Normal[req[c].raw]}
      BY <1>1, <2>2, <2>5 DEF SearchableInv, StashInv, BatchInv
    <3> QED
      BY <2>2, <3>1 DEF StashIsOfWhatItRead
  <2> QED
    BY <2>4, <2>5
<1>2. SearchableInv /\ [Next]_vars => [Planning]_stashVars
  BY <1>1
<1> HIDE DEF Planning
<1>3. Spec => [][Planning]_stashVars
  BY <1>2, SearchableInvariant, PTL DEF Spec
<1> QED
  BY <1>3 DEF PublishedIsPlanned, Planning
===============================================================================
