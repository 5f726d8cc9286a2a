------------------------------ MODULE TaskBundle ------------------------------
(***************************************************************************)
(* How a submitted bundle becomes a local task directory                   *)
(* (internal/taskbundle): Load checks the document, Materialize unpacks    *)
(* its archive entry by entry into a temporary directory, adds the task's  *)
(* documents and the content marker, and renames it into place.  The       *)
(* daemon may be killed between any two of these, GPT may replace the      *)
(* bundle, and the owner may approve the task before its directory exists, *)
(* which creates one.                                                      *)
(*                                                                         *)
(* An archive is the sequence of its entries; the checks that concern one  *)
(* entry alone (path, type, owner and time) are `plain`.                   *)
(***************************************************************************)
EXTENDS Naturals, Sequences, FiniteSets

CONSTANTS
    Bundles,     \* the bundles that GPT may submit under this task id
    Names,       \* names of archive entries
    Folded,      \* [Names -> a name]: the name in lower case
    Required,    \* AGENT_HANDOFF.md and manifest.json
    MaxFileBytes, MaxAggregateBytes, MaxEntries,
    MaxEvents,   \* bound: submissions, kills, failed writes, early approvals
    None,        \* no bundle, no directory
    Bare         \* a task directory without a marker

\* `document` is all that does not come from the archive: the envelope and the
\* structured task.  The digest, the marker of the directory, is the archive's.
ASSUME BundleAssumption ==
    /\ \A b \in Bundles :
        /\ DOMAIN b = {"digest", "document", "wellFormed", "entries", "count", "size"}
        /\ b.wellFormed \in BOOLEAN /\ b.count \in Nat /\ b.size \in Nat
        /\ b.entries \in Seq([name : Names, size : Nat, plain : BOOLEAN])
    /\ \A b, c \in Bundles : b.digest = c.digest => b.entries = c.entries
    /\ None \notin Bundles /\ Bare # None
ASSUME NameAssumption == DOMAIN Folded = Names /\ Required \subseteq Names
ASSUME LimitAssumption ==
    {MaxFileBytes, MaxAggregateBytes, MaxEntries, MaxEvents} \subseteq Nat

VARIABLES
    inbox,  \* the bundle on the project branch, or None
    awaited, \* history: that bundle, if it was loaded before there was a directory
    hand,   \* the bundle that the worker has loaded, or None
    root,   \* the task directory, or Bare, or None
    temp,   \* root.tmp: its files with the digest they come from, or None
    pc,     \* the worker in Materialize
    at,     \* entries read so far
    total,  \* their size
    events

work == <<hand, pc, at, total>>
branch == <<inbox, awaited>>
vars == <<branch, work, root, temp, events>>

Digests == {b.digest : b \in Bundles}
Steps == {"idle", "stat", "clear", "extract", "documents", "marker", "rename", "done"}
Directory(files, document, digest) ==
    [files |-> files, document |-> document, digest |-> digest]
EmptyDirectory == Directory([n \in {} |-> None], None, None)

\* The document and the marker are there once they have been written.
Directories ==
    [files : UNION {[S -> Digests] : S \in SUBSET Names},
     document : {b.document : b \in Bundles} \cup {None}, digest : Digests \cup {None}]
ASSUME DirectoryAssumption == {None, Bare} \cap Directories = {}

TypeOK ==
    /\ inbox \in Bundles \cup {None} /\ awaited \in Bundles \cup {None}
    /\ hand \in Bundles \cup {None} /\ (hand = None <=> pc = "idle")
    /\ root \in Directories \cup {None, Bare} /\ temp \in Directories \cup {None}
    /\ pc \in Steps /\ at \in Nat /\ total \in Nat
    /\ events \in 0..MaxEvents

Init ==
    /\ inbox = None /\ awaited = None /\ hand = None /\ root = None /\ temp = None
    /\ pc = "idle" /\ at = 0 /\ total = 0 /\ events = 0

Event == events < MaxEvents /\ events' = events + 1

-----------------------------------------------------------------------------
(* Load.                                                                   *)

Loads(b) == /\ b.wellFormed
            /\ b.size \in 1..MaxAggregateBytes /\ b.count \in 1..MaxEntries

\* No bundle, or one that does not load: the worker sleeps and tries again.
Sleep ==
    /\ pc = "idle" /\ (inbox # None => ~Loads(inbox))
    /\ UNCHANGED vars

Load ==
    /\ pc = "idle" /\ inbox # None /\ Loads(inbox)
    /\ hand' = inbox /\ pc' = "stat"
    /\ awaited' = IF root = None THEN inbox ELSE awaited
    /\ UNCHANGED <<inbox, at, total, root, temp, events>>

-----------------------------------------------------------------------------
(* Materialize.                                                            *)

Goes(step) == pc' = step /\ UNCHANGED <<hand, at, total>>
\* Mutant: the bundle is kept.
RefuseHolding == pc' = "idle" /\ UNCHANGED <<hand, at, total>>
Refuse == pc' = "idle" /\ hand' = None /\ UNCHANGED <<at, total>>

\* A directory is this bundle's if its marker is.
Present ==
    /\ pc = "stat" /\ root # None /\ root # Bare /\ root.digest = hand.digest
    /\ Goes("done")
    /\ UNCHANGED <<branch, root, temp, events>>

OtherContent ==
    /\ pc = "stat" /\ root # None /\ ~(root # Bare /\ root.digest = hand.digest)
    /\ Refuse
    /\ UNCHANGED <<branch, root, temp, events>>

\* Mutant: a temporary directory is taken for work in progress.
AbsentUnlessTemp ==
    /\ pc = "stat" /\ root = None /\ temp = None /\ Goes("clear")
    /\ UNCHANGED <<branch, root, temp, events>>
Absent ==
    /\ pc = "stat" /\ root = None /\ Goes("clear")
    /\ UNCHANGED <<branch, root, temp, events>>

\* Mutant: what is left of an earlier attempt stays.
KeepTemp ==
    /\ pc = "clear" /\ pc' = "extract" /\ at' = 0 /\ total' = 0
    /\ temp' = IF temp = None THEN EmptyDirectory ELSE temp
    /\ UNCHANGED <<branch, hand, root, events>>
Clear ==
    /\ pc = "clear" /\ pc' = "extract" /\ at' = 0 /\ total' = 0
    /\ temp' = EmptyDirectory
    /\ UNCHANGED <<branch, hand, root, events>>

Entry == hand.entries[at + 1]

\* Mutant: the total is left to the declared size.
AcceptsAnyTotal(e) ==
    /\ e.plain /\ e.size <= MaxFileBytes
    /\ \A i \in 1..at : Folded[hand.entries[i].name] # Folded[e.name]
\* seen and caseFolded hold the names of the entries before.
Accepts(e) ==
    /\ e.plain /\ e.size <= MaxFileBytes /\ total + e.size <= MaxAggregateBytes
    /\ \A i \in 1..at : Folded[hand.entries[i].name] # Folded[e.name]

\* The file is created with O_EXCL.
Extract ==
    /\ pc = "extract" /\ at < Len(hand.entries) /\ Accepts(Entry)
    /\ Entry.name \notin DOMAIN temp.files
    /\ temp' = [temp EXCEPT !.files =
           [n \in DOMAIN @ \cup {Entry.name} |->
               IF n = Entry.name THEN hand.digest ELSE @[n]]]
    /\ at' = at + 1 /\ total' = total + Entry.size
    /\ UNCHANGED <<branch, hand, root, pc, events>>

Complete ==
    /\ at = hand.count /\ total = hand.size
    /\ \A n \in Required : \E i \in 1..at : hand.entries[i].name = n

ArchiveEnds ==
    /\ pc = "extract" /\ at = Len(hand.entries) /\ Complete
    /\ Goes("documents")
    /\ UNCHANGED <<branch, root, temp, events>>

ArchiveRefused ==
    /\ pc = "extract"
    /\ IF at = Len(hand.entries) THEN ~Complete
       ELSE ~Accepts(Entry) \/ Entry.name \in DOMAIN temp.files
    /\ Refuse /\ temp' = None
    /\ UNCHANGED <<branch, root, events>>

\* task.json and TASK_REQUEST.json
WriteDocuments ==
    /\ pc = "documents" /\ Goes("marker")
    /\ temp' = [temp EXCEPT !.document = hand.document]
    /\ UNCHANGED <<branch, root, events>>

WriteMarker ==
    /\ pc = "marker" /\ Goes("rename")
    /\ temp' = [temp EXCEPT !.digest = hand.digest]
    /\ UNCHANGED <<branch, root, events>>

WriteFails ==
    /\ pc \in {"extract", "documents", "marker"} /\ Event
    /\ Refuse /\ temp' = None
    /\ UNCHANGED <<branch, root>>

Rename ==
    /\ pc = "rename" /\ root = None /\ Goes("done")
    /\ root' = temp /\ temp' = None
    /\ UNCHANGED <<branch, events>>

\* A directory with an approval in it is in the way; the temporary one stays.
RenameFails ==
    /\ pc = "rename" /\ root # None /\ Refuse
    /\ UNCHANGED <<branch, root, temp, events>>

Return ==
    /\ pc = "done" /\ Refuse
    /\ UNCHANGED <<branch, root, temp, events>>

-----------------------------------------------------------------------------
(* The others.                                                             *)

\* GPT submits a bundle, or another one in its place.
Submit ==
    /\ Event /\ inbox' \in Bundles \ {inbox} /\ awaited' = None
    /\ UNCHANGED <<work, root, temp>>

\* WriteApproval makes the directories that its file needs.
ApproveEarly ==
    /\ root = None /\ Event /\ root' = Bare
    /\ UNCHANGED <<branch, work, temp>>

Kill ==
    /\ Event /\ pc' = "idle" /\ hand' = None
    /\ UNCHANGED <<branch, at, total, root, temp>>

Materialize ==
    \/ Sleep \/ Load \/ Present \/ OtherContent \/ Absent \/ Clear \/ Extract
    \/ ArchiveEnds \/ ArchiveRefused \/ WriteDocuments \/ WriteMarker
    \/ Rename \/ RenameFails

Next == Materialize \/ Return \/ WriteFails \/ Submit \/ ApproveEarly \/ Kill

Spec == Init /\ [][Next]_vars
FairSpec == Spec /\ WF_vars(Materialize \/ Return)

-----------------------------------------------------------------------------
(* Properties.                                                             *)

EntryNames(b) == {b.entries[i].name : i \in 1..Len(b.entries)}
SizeOf(entries) ==
    LET sum[i \in 0..Len(entries)] == IF i = 0 THEN 0 ELSE sum[i - 1] + entries[i].size
    IN sum[Len(entries)]

Materialized == root \notin {None, Bare}

\* The archive holds what an archive must, each file once (extract).
WellPacked(b) ==
    /\ Len(b.entries) = b.count /\ Required \subseteq EntryNames(b)
    /\ \A i, j \in 1..Len(b.entries) :
        Folded[b.entries[i].name] = Folded[b.entries[j].name] => i = j
    /\ \A i \in 1..Len(b.entries) : b.entries[i].plain /\ b.entries[i].size <= MaxFileBytes

\* A task directory is the work of one bundle: all of its archive, nothing of
\* another's, its documents and its marker, however often unpacking was cut off
\* (Materialize: RemoveAll before, rename at the end).
PackIsWhole ==
    Materialized => \E b \in Bundles :
        /\ b.digest = root.digest /\ Loads(b) /\ WellPacked(b)
        /\ root = Directory([n \in EntryNames(b) |-> b.digest], b.document, b.digest)

\* Unpacking never writes more than the gateway's limit, whatever the document
\* declares, and what is kept has the size declared (extract: total).
PackIsBounded ==
    /\ total <= MaxAggregateBytes
    /\ Materialized => \E b \in Bundles :
        b.digest = root.digest /\ SizeOf(b.entries) = b.size /\ b.size <= MaxAggregateBytes

\* A sound bundle that stays in the inbox gets its directory, after any number of
\* kills and failed writes, unless an approval comes first.  If it has not been
\* loaded before there was a directory, that may be the directory of the bundle
\* that it replaces, and it is refused for ever (task_id_content_changed).
Sound(b) == Loads(b) /\ WellPacked(b) /\ SizeOf(b.entries) = b.size
Unpacked(b) == Materialized /\ root.digest = b.digest /\ root.document = b.document
SoundBundleUnpacked ==
    []<>(\/ inbox = None \/ ~Sound(inbox) \/ root = Bare
         \/ IF awaited = inbox THEN Unpacked(inbox) ELSE Materialized)
=============================================================================
