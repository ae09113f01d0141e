------------------------------ MODULE MCIssueStore ------------------------------
(* Small instances of IssueStore: an epic, its story, the story's task, and a *)
(* bug that may be created or imported.                                       *)
EXTENDS IssueStore, TLC

CONSTANTS x, y, d

Plain(type, parent) ==
    [type |-> type, text |-> x, parent |-> parent, depends_on |-> {}, relates_to |-> {},
     duplicates |-> {}, supersedes |-> {}, comments |-> <<>>, links |-> {}]
Active(r) == [record |-> r, location |-> "active", canonical |-> TRUE]

Epic == Active(Plain("epic", None))
Story == Active(Plain("story", 1))
Task == Active([Plain("task", 2) EXCEPT !.links = {d}])
Bug == Active(Plain("bug", 3))
Archived(f) == [f EXCEPT !.location = "archive"]

MCStarts == {1 :> Epic @@ 2 :> Story @@ 3 :> Task @@ 4 :> None}

MCCommands ==
    {[op |-> "archive", id |-> 3], [op |-> "restore", id |-> 3],
     [op |-> "update", id |-> 2, patch |-> [text |-> y]],
     [op |-> "comment", id |-> 2, body |-> x, checked |-> FALSE],
     [op |-> "link", id |-> 3, doc |-> d, checked |-> TRUE],
     [op |-> "unlink", id |-> 3, doc |-> d],
     [op |-> "unrelate", id |-> 3, target |-> 2, kind |-> "relates_to"],
     [op |-> "relate", id |-> 3, target |-> 2, kind |-> "relates_to", checked |-> TRUE],
     [op |-> "relate", id |-> 2, target |-> 3, kind |-> "depends_on", checked |-> FALSE],
     [op |-> "relate", id |-> 3, target |-> 2, kind |-> "depends_on", checked |-> FALSE],
     [op |-> "create", issues |-> 4 :> Bug],
     [op |-> "import", issues |-> 4 :> Archived(Bug)]}

\* A story edited and commented by hand, in a layout of its own, and an epic that
\* cannot be read.
MCEdits == {<<2, [Story EXCEPT !.record.text = y, !.record.comments = <<y>>, !.canonical = FALSE]>>,
            <<1, Unreadable>>}
================================================================================
