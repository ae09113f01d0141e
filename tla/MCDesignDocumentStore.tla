-------------------------- MODULE MCDesignDocumentStore --------------------------
(* Small instances of DesignDocumentStore: a document with a lineage of its    *)
(* own and one that may be created or imported.                               *)
EXTENDS DesignDocumentStore, TLC

CONSTANTS x, ragged, p, q

MCSymmetry == Permutations({p, q})

Doc(id, version, title, status) ==
    [id |-> id, version |-> version, title |-> title, status |-> status, text |-> x, born |-> 0]
Active(doc) == [doc |-> doc, loc |-> "active"]
Archived(doc) == [doc |-> doc, loc |-> "archive"]

\* "Plan" and "plan!" share a slug
MCTitles == {"Plan", "plan!", "Other"}
MCSlug == ("Plan" :> "plan") @@ ("plan!" :> "plan") @@ ("Other" :> "other")

First == Doc(1, 1, "Plan", "approved")
MCStarts == {{Active(Doc(1, 1, "Plan", "review"))}, {Active(First), Active(Doc(1, 2, "Other", "draft"))}}

MCCommands ==
    {[op |-> "create", id |-> 2, title |-> "Plan", text |-> t, born |-> 0] : t \in {x, ragged}}
    \cup {[op |-> "update", id |-> 1, title |-> t, text |-> x] : t \in {"plan!", "Other"}}
    \cup {[op |-> "transition", id |-> 1, to |-> s] : s \in {"draft", "review", "approved"}}
    \cup {[op |-> "version", id |-> 1, title |-> "Other", text |-> x],
          [op |-> "archive", id |-> 1], [op |-> "restore", id |-> 1],
          [op |-> "import", preview |-> FALSE, documents |-> {Archived(Doc(2, 1, "Plan", "approved"))}],
          [op |-> "import", preview |-> FALSE, documents |-> {Active(Doc(1, 2, "Other", "approved"))}],
          [op |-> "import", preview |-> TRUE, documents |-> {Active(Doc(2, 1, "Other", "draft"))}],
          [op |-> "link", address |-> <<1, 2>>], [op |-> "unlink", address |-> <<1, 2>>]}

\* An approved version rewritten by hand, a draft taken away, a file that cannot
\* be read.
MCEdits == {<<{Active(First)}, {Active([First EXCEPT !.title = "plan!"])}>>,
            <<{Active(Doc(1, 2, "Other", "draft"))}, {}>>,
            <<{}, {Unreadable}>>}
==================================================================================
