--------------------------- MODULE SearchableRuntime ---------------------------
(***************************************************************************)
(* The runtime of @neottia/searchable-core (runtime.ts): which calls it    *)
(* admits, how search, fetch and ask use the network (providers.ts,        *)
(* fetcher.ts, http.ts), how a caller's signal, a deadline and close()     *)
(* end a call, over the stash and the legacy import of SearchableStash.    *)
(*                                                                         *)
(* An address, a body and a frame are what the code goes on to do with     *)
(* them: usable, a redirect, or an error.                                  *)
(***************************************************************************)
EXTENDS SearchableStash, Sequences

CONSTANTS
    Strategies,     \* config.fetch.strategies
    MaxRedirects,   \* 5 in http.ts
    MayClose        \* whether the host closes the runtime

ASSUME StrategiesAssumption == Strategies \in Seq({"direct", "jina", "wayback"})
ASSUME RedirectsAssumption == MaxRedirects \in Nat /\ MayClose \in BOOLEAN

VARIABLES
    closer,     \* close(): "open", then "settling", then "closed" or "failed"
    awaited,    \* the calls that close() waits for
    net         \* net[c]: progress of c's requests

runtimeVars == <<closer, awaited, net>>
vars == <<stashVars, runtimeVars>>

\* todo: strategies left; hops: redirects followed; leg: 2 once Wayback named a
\* snapshot; final: the last frame of the stream came.
NewNet == [todo |-> Strategies, hops |-> 0, leg |-> 1, final |-> FALSE]

Init ==
    /\ StashInit
    /\ closer = "open" /\ awaited = {}
    /\ net = [c \in Calls |-> NewNet]

\* The store is public: these calls do not go through the runtime.
Direct == {"import", "validate"}
Tracked(c) == req[c].op \notin Direct
Running(c) == pc[c] \notin Over \cup {"idle"}

Shutdown == closer # "open"

Calm == UNCHANGED <<pages, index, holder, legacyVars, req, cat, workVars, touched, edits>>
Quiet == UNCHANGED <<closer, awaited>>

\* Mutant: calls are admitted while the runtime closes.
AdmitsAll(c) == TRUE

Admits(c) == Tracked(c) => ~Shutdown

FirstStep(c) ==
    CASE req[c].op = "search" -> "resolve"
      [] req[c].op = "fetch" -> "strategy"
      [] req[c].op = "import" -> "open"
      [] OTHER -> "lease"

\* execute: refused once shutdown is aborted, else in flight until it settles.
Call(c) ==
    /\ At(c, "idle") /\ req[c].op # "none"
    /\ Goto(c, IF Admits(c) THEN FirstStep(c) ELSE "refused")
    /\ UNCHANGED net /\ Quiet /\ Calm

-------------------------------------------------------------------------------
(* fetchPage and searchProvider. *)

Strategy(c) == Head(net[c].todo)
Source(c) == IF req[c].op = "search" THEN "search" ELSE Strategy(c)

\* A strategy is tried, or skipped when the URL holds more than a path; after the
\* last one the call fails.
NextStrategy(c) ==
    /\ At(c, "strategy")
    /\ \/ net[c].todo = <<>> /\ Goto(c, "failed") /\ UNCHANGED net
       \/ /\ net[c].todo # <<>> /\ (Strategy(c) = "direct" \/ req[c].plain)
          /\ Goto(c, "resolve") /\ net' = [net EXCEPT ![c].hops = 0, ![c].leg = 1]
       \/ /\ net[c].todo # <<>> /\ Strategy(c) # "direct" /\ ~req[c].plain
          /\ net' = [net EXCEPT ![c].todo = Tail(@)] /\ UNCHANGED pc
    /\ Quiet /\ Calm

\* An error ends a search; a fetch goes on with the next strategy.
AttemptFails(c) ==
    /\ pc[c] \in {"resolve", "respond", "extract"}
    /\ IF req[c].op = "search" THEN Goto(c, "failed") /\ UNCHANGED net
       ELSE Goto(c, "strategy") /\ net' = [net EXCEPT ![c].todo = Tail(@)]
    /\ Quiet /\ Calm

\* resolvePublic answers with public addresses; the first one is contacted.
Resolve(c) ==
    /\ At(c, "resolve") /\ Goto(c, "respond")
    /\ UNCHANGED net /\ Quiet /\ Calm

Follows(c) == Source(c) = "direct" \/ (Source(c) = "wayback" /\ net[c].leg = 2)
Redirect(c) ==
    /\ At(c, "respond") /\ Follows(c) /\ net[c].hops < MaxRedirects
    /\ Goto(c, "resolve") /\ net' = [net EXCEPT ![c].hops = @ + 1]
    /\ Quiet /\ Calm

\* A body that decodes within its bounds.
Respond(c) ==
    /\ At(c, "respond")
    /\ \/ Source(c) \in {"search", "jina"} /\ Goto(c, "done") /\ UNCHANGED net
       \/ Source(c) = "wayback" /\ net[c].leg = 1 /\ Goto(c, "resolve") /\ net' = [net EXCEPT ![c].leg = 2]
       \/ Follows(c) /\ Goto(c, "extract") /\ UNCHANGED net
    /\ Quiet /\ Calm

\* The worker that runs Readability has ended when its result is taken.
Extract(c) ==
    /\ At(c, "extract") /\ Goto(c, "done")
    /\ UNCHANGED net /\ Quiet /\ Calm

-------------------------------------------------------------------------------
(* askOllama, after context. *)

\* transport.stream resolves at the headers.
Connect(c) ==
    /\ At(c, "connect")
    /\ Goto(c, "stream") \/ Goto(c, "failed")
    /\ UNCHANGED net /\ Quiet /\ Calm

\* parseOllamaStream: frames, the last of which says so, and then the end.
Frame(c) ==
    /\ At(c, "stream")
    /\ \/ ~net[c].final /\ (\E final \in BOOLEAN : net' = [net EXCEPT ![c].final = final]) /\ UNCHANGED pc
       \/ Goto(c, "failed") /\ UNCHANGED net
    /\ Quiet /\ Calm
EndOfStream(c) ==
    /\ At(c, "stream") /\ Goto(c, IF net[c].final THEN "done" ELSE "failed")
    /\ UNCHANGED net /\ Quiet /\ Calm

-------------------------------------------------------------------------------
(* How a call is ended: by its deadline, by its caller's signal, or by that of
close(), each of which may come at any time. *)

Online == {"strategy", "resolve", "respond", "extract", "connect", "stream"}
Stoppable == {"lease", "lease again", "plan", "publish", "index", "reload", "context", "open", "copy", "snapshot"}

\* Mutant: an attempt has no timer.
NoTimer(c) == FALSE

HasTimer(c) == pc[c] \in Online

\* The timer of a request, of a worker or of a stream, or an aborted request: the
\* call ends, whatever strategies are left.
Interrupted(c) ==
    /\ HasTimer(c) /\ Goto(c, "failed")
    /\ UNCHANGED net /\ Quiet /\ Calm

\* Stash and import check both between their steps, and the lease ends with them.
Stopped(c) ==
    /\ pc[c] \in Stoppable /\ Leave(c, "failed")
    /\ UNCHANGED <<pages, index, legacyVars, req, cat, workVars, touched, edits, net>> /\ Quiet

-------------------------------------------------------------------------------
(* close(). *)

InFlight == {c \in Calls : Tracked(c) /\ Running(c)}

Close ==
    /\ MayClose /\ closer = "open"
    /\ closer' = "settling" /\ awaited' = InFlight
    /\ UNCHANGED <<pc, net>> /\ Calm

\* settleBefore, then transport.close: every call settled, or five seconds passed.
Settled ==
    /\ closer = "settling"
    /\ \/ closer' = "closed" /\ \A c \in awaited : ~Running(c)
       \/ closer' = "failed" /\ \E c \in awaited : Running(c)
    /\ UNCHANGED <<pc, awaited, net>> /\ Calm

-------------------------------------------------------------------------------
Network(c) == Resolve(c) \/ Redirect(c) \/ Respond(c) \/ AttemptFails(c) \/ Connect(c) \/ Frame(c) \/ EndOfStream(c)
StashCall(c) == StashStep(c) /\ UNCHANGED runtimeVars
Asked(c) == UserAnswers(c) /\ UNCHANGED runtimeVars
Outside == (OperatorEdit \/ Legacy) /\ UNCHANGED runtimeVars

Next ==
    \/ \E c \in Calls :
          \/ Call(c) \/ StashCall(c) \/ Asked(c)
          \/ NextStrategy(c) \/ Network(c) \/ Extract(c)
          \/ Interrupted(c) \/ Stopped(c)
    \/ Close \/ Settled \/ Outside

\* What runs in the process goes on and deadlines pass; the network, the user,
\* the callers and the host need not do anything.
Fairness ==
    /\ WF_vars(Settled)
    /\ \A c \in Calls : WF_vars(StashCall(c)) /\ WF_vars(NextStrategy(c)) /\ WF_vars(Interrupted(c)) /\ WF_vars(Stopped(c))

Spec == Init /\ [][Next]_vars
FairSpec == Spec /\ Fairness

-------------------------------------------------------------------------------
(* Properties *)

Steps == {"idle", "rebuild", "prompt"} \cup Over \cup Online \cup Stoppable
Nets == [todo : Seq({"direct", "jina", "wayback"}), hops : 0 .. MaxRedirects, leg : 1 .. 2,
         final : BOOLEAN]

\* Types, and the lease is held exactly by a call that is inside it.
TypeOK ==
    /\ pages \in [Urls -> Texts \cup {None, Unreadable}]
    /\ index # None => index \in [Urls -> Texts \cup {None}]
    /\ closer \in {"open", "settling", "closed", "failed"}
    /\ awaited \subseteq Calls
    /\ net \in [Calls -> Nets]
    /\ \A c \in Calls :
          /\ pc[c] \in Steps
          /\ holder = c <=> pc[c] \in {"plan", "publish", "rebuild", "index", "prompt", "reload", "context"}

\* When close() has succeeded nothing that the runtime admitted runs any more, so
\* the host may take the configuration and the network away (runtime.ts close).
QuietAfterClose == closer = "closed" => \A c \in Calls : Tracked(c) => ~Running(c)

\* The types and what close() promises, as one invariant.
RuntimeInv == TypeOK /\ QuietAfterClose

\* Every call ends, whatever the network, its caller and close() do, unless it
\* waits for a user who does not answer.
CallsEnd == \A c \in Calls : Running(c) ~> (~Running(c) \/ At(c, "prompt"))
================================================================================
