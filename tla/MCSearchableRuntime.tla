------------------------- MODULE MCSearchableRuntime -------------------------
(* Small instances of SearchableRuntime: two URLs, one of which is typed in two *)
(* ways, and calls that meet in the stash, at the import, or at close().        *)
EXTENDS SearchableRuntime, TLC

CONSTANTS c1, c2, x, y, z

MCNormal == ("A" :> "a") @@ ("a" :> "a") @@ ("b" :> "b")

Rows(A, a, b) == ("A" :> A) @@ ("a" :> a) @@ ("b" :> b)
Page(a, b) == ("a" :> a) @@ ("b" :> b)
\* x matches, y only by the index, z only by the letters.
MCStarts == {Page(None, None), Page(x, y), Page(None, x), Page(z, x)}

MCDatabases == {Rows(None, x, y), Rows(None, y, x), Rows(x, x, None)}

Stash(raw, text) == [op |-> "stash", raw |-> raw, text |-> text]
Import(preview, live) == [op |-> "import", preview |-> preview, live |-> live]
Fetch(plain) == [op |-> "fetch", plain |-> plain]
Just(op) == [op |-> op]

MCStrategies == <<"direct", "jina", "wayback">>

Pair(p, q) == (c1 :> p) @@ (c2 :> q)
MCPlans == {Pair(Stash("A", x), Just("grep")), Pair(Stash("a", y), Stash("b", x)),
            Pair(Just("ask"), Stash("A", y)), Pair(Just("ask"), Just("validate")),
            Pair(Import(FALSE, FALSE), Stash("a", x)), Pair(Import(TRUE, FALSE), Just("grep")),
            Pair(Import(FALSE, TRUE), Just("none")),
            Pair(Fetch(TRUE), Just("search")), Pair(Fetch(FALSE), Just("grep"))}

\* A page edited by hand to one that does not match, one written or made to
\* match, one broken.
MCEdits == {[url |-> "a", from |-> {x}, to |-> y], [url |-> "b", from |-> {None, y}, to |-> x],
            [url |-> "b", from |-> {x, y, None}, to |-> Unreadable]}
==============================================================================
