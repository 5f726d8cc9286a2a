--------------------------- MODULE MCTaskExecution ---------------------------
(* A small instance of TaskBundle and TaskExecution for TLC.               *)
EXTENDS TaskExecution

MCNames == {"manifest.json", "Manifest.json", "AGENT_HANDOFF.md", "changes.patch",
            "notes.md"}
MCRequired == {"manifest.json", "AGENT_HANDOFF.md"}
MCFolded == [n \in MCNames |-> IF n = "Manifest.json" THEN "manifest.json" ELSE n]

File(name, size) == [name |-> name, size |-> size, plain |-> TRUE]
Bundle(digest, document, entries, count, size) ==
    [digest |-> digest, document |-> document, wellFormed |-> TRUE,
     entries |-> entries, count |-> count, size |-> size]

Small == <<File("manifest.json", 1), File("AGENT_HANDOFF.md", 1)>>
Large == Append(Small, File("changes.patch", 2))

\* Archives that are refused at their first entry, at a later one, or at their end.
Refused == {
    Bundle("edit", "miscounted", Large, 2, 4),
    Bundle("large", "first", Append(Large, File("Manifest.json", 1)), 4, 5),
    Bundle("folds", "first", Append(Small, File("Manifest.json", 1)), 3, 3),
    Bundle("deep", "first", <<[File("changes.patch", 1) EXCEPT !.plain = FALSE]>>, 1, 1),
    Bundle("lacking", "first", <<File("changes.patch", 2), File("manifest.json", 1)>>, 2, 3),
    Bundle("understated", "first", Append(Large, File("notes.md", 1)), 4, 4)}

\* What the others say.  The repository has the files a and t; i and t are ignored.
Says(created, modified, deleted, patch, overlay, deletePaths) ==
    [wellFormed |-> TRUE, gates |-> <<"build", "test">>,
     handoff |-> [headings |-> TRUE, resolved |-> TRUE, identifies |-> TRUE],
     created |-> created, modified |-> modified, deleted |-> deleted,
     patch |-> patch, overlay |-> overlay, deletePaths |-> deletePaths]

edit == [a |-> "payload", b |-> "payload", t |-> "none"]
move == [a |-> "none", b |-> "payload"]
none == <<>>

MCPackOf == [d \in Digests |->
    CASE d = "edit"     -> Says(<<"b">>, <<"a">>, <<"t">>, edit, {"b", "t"}, {})
      [] d = "move"     -> Says(<<"b">>, <<>>, <<"a">>, move, {}, {})
      [] d = "strays"   -> Says(<<"b">>, <<>>, <<>>, move, {}, {})
      [] d = "overlay"  -> Says(<<"b">>, <<>>, <<"a">>, none, {"b", "i"}, {"a"})
      [] d = "unlisted" -> Says(<<>>, <<>>, <<>>, none, {}, {"a"})
      [] d = "redo"     -> Says(<<>>, <<"a">>, <<>>, [a |-> "none"], {"a"}, {})
      [] d = "twice"    -> Says(<<"b">>, <<"b">>, <<>>, edit, {}, {})
      [] OTHER          -> [Says(<<"b">>, <<"a">>, <<>>, edit, {}, {})
                              EXCEPT !.handoff.resolved = FALSE]]

\* The others are unpacked; one id may come with another document.
MCBundles == Refused
    \cup {Bundle(d, "first", Small, 2, 2) :
            d \in {"move", "strays", "overlay", "unlisted", "redo", "twice", "todo"}}
    \cup {Bundle("edit", doc, Large, 3, 4) : doc \in {"first", "second"}}

Claim(outcome, reports, commitsExist) ==
    [status |-> outcome, gates |-> reports, commitsExist |-> commitsExist, wellFormed |-> TRUE]
Report(gate, pass) == [id |-> gate, pass |-> pass]

MCClaims == {
    Claim("succeeded", <<Report("test", TRUE), Report("build", TRUE)>>, TRUE),
    Claim("succeeded", <<Report("test", TRUE), Report("build", TRUE)>>, FALSE),
    Claim("succeeded", <<Report("test", TRUE), Report("build", FALSE)>>, TRUE),
    Claim("succeeded", <<Report("build", TRUE), Report("test", TRUE), Report("test", TRUE)>>, TRUE),
    Claim("failed", <<>>, FALSE),
    [Claim("succeeded", <<>>, FALSE) EXCEPT !.wellFormed = FALSE]}
=============================================================================
