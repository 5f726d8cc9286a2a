-------------------------- MODULE TaskBundleProofs --------------------------
(***************************************************************************)
(* Proofs about TaskBundle, for any bundles, limits and number of events.  *)
(* PackIsWhole needs to know what the temporary directory holds at each    *)
(* step of an attempt: exactly the entries read so far.  Nothing is known  *)
(* of what an attempt that was cut off has left; Clear removes it.         *)
(***************************************************************************)
EXTENDS TaskBundle, TLAPS

USE DEF branch

Unpacking == {"extract", "documents", "marker", "rename"}

\* The files of the entries read so far.
NamesRead == {hand.entries[i].name : i \in 1..at}
FilesRead == [n \in NamesRead |-> hand.digest]

\* Every entry read so far was acceptable beside those before it.
ReadWell ==
    /\ at <= Len(hand.entries)
    /\ \A i, j \in 1..at :
        Folded[hand.entries[i].name] = Folded[hand.entries[j].name] => i = j
    /\ \A i \in 1..at : hand.entries[i].plain /\ hand.entries[i].size <= MaxFileBytes

\* All have been read, and they are what the document says.
ReadAll == at = Len(hand.entries) /\ at = hand.count /\ Required \subseteq NamesRead

AttemptInv ==
    /\ pc # "idle" => hand \in Bundles /\ Loads(hand)
    /\ pc \in Unpacking => ReadWell
    /\ pc \in Unpacking \ {"extract"} => ReadAll
    /\ pc = "done" => Materialized
    /\ pc \in {"extract", "documents"} => temp = Directory(FilesRead, None, None)
    /\ pc = "marker" => temp = Directory(FilesRead, hand.document, None)
    /\ pc = "rename" => temp = Directory(FilesRead, hand.document, hand.digest)

PackInv == TypeOK /\ AttemptInv /\ PackIsWhole
-----------------------------------------------------------------------------
(* Directories.                                                            *)

LEMMA DirectoryFields ==
    ASSUME NEW f, NEW d, NEW g
    PROVE  /\ Directory(f, d, g).files = f
           /\ Directory(f, d, g).document = d
           /\ Directory(f, d, g).digest = g
  BY DEF Directory

\* A bundle's document and digest, too, are those of a directory.
LEMMA DirectoryType ==
    ASSUME NEW S \in SUBSET Names, NEW f \in [S -> Digests],
           NEW d \in {b.document : b \in Bundles} \cup {None}, NEW g \in Digests \cup {None}
    PROVE  Directory(f, d, g) \in Directories
  <1>1. f \in UNION {[R -> Digests] : R \in SUBSET Names}
    OBVIOUS
  <1> QED
    BY <1>1 DEF Directory, Directories

LEMMA ElementType ==
    ASSUME NEW S, NEW s \in Seq(S), NEW i \in 1..Len(s)
    PROVE  s[i] \in S
  OBVIOUS

\* The entries of a bundle have names, sizes and a verdict.
LEMMA EntryType ==
    ASSUME NEW b \in Bundles, NEW i \in 1..Len(b.entries)
    PROVE  b.entries[i] \in [name : Names, size : Nat, plain : BOOLEAN]
  <1> DEFINE R == [name : Names, size : Nat, plain : BOOLEAN]
  <1>1. b.entries \in Seq(R)
    BY BundleAssumption
  <1> HIDE DEF R
  <1>2. b.entries[i] \in R
    BY <1>1, ElementType
  <1> QED
    BY <1>2 DEF R

\* What has been read is a part of the archive.
LEMMA ReadFiles ==
    ASSUME hand \in Bundles, at \in Nat, at <= Len(hand.entries)
    PROVE  /\ NamesRead \in SUBSET Names
           /\ FilesRead \in [NamesRead -> Digests]
  <1>1. Len(hand.entries) \in Nat
    BY BundleAssumption
  <1>2. \A i \in 1..at : i \in 1..Len(hand.entries)
    BY <1>1
  <1>3. \A i \in 1..at : hand.entries[i].name \in Names
    BY <1>2, EntryType
  <1>4. hand.digest \in Digests
    BY DEF Digests
  <1> QED
    BY <1>3, <1>4 DEF NamesRead, FilesRead
-----------------------------------------------------------------------------
(* Every step keeps the invariant.                                         *)

LEMMA EventCounts ==
    ASSUME events \in 0..MaxEvents, Event
    PROVE  events' \in 0..MaxEvents
  <1>1. MaxEvents \in Nat
    BY LimitAssumption
  <1> QED
    BY <1>1 DEF Event

LEMMA PackInit == Init => PackInv
  <1> SUFFICES ASSUME Init PROVE PackInv
    OBVIOUS
  <1>1. events \in 0..MaxEvents
    <2>1. MaxEvents \in Nat
      BY LimitAssumption
    <2> QED
      BY <2>1 DEF Init
  <1>2. TypeOK
    BY <1>1 DEF Init, TypeOK, Steps
  <1>3. AttemptInv
    BY DEF Init, AttemptInv, Unpacking
  <1>4. PackIsWhole
    BY DEF Init, PackIsWhole, Materialized
  <1> QED
    BY <1>2, <1>3, <1>4 DEF PackInv

\* The worker goes back to waiting: the attempt is over.
LEMMA PackGivesUp ==
    ASSUME PackInv, pc' = "idle", hand' = None, UNCHANGED <<at, total, root>>,
           inbox' \in Bundles \cup {None}, awaited' \in Bundles \cup {None},
           events' \in 0..MaxEvents,
           temp' \in {temp, None}
    PROVE  PackInv'
  <1>1. TypeOK'
    BY DEF PackInv, TypeOK, Steps
  <1>2. AttemptInv'
    BY DEF AttemptInv, Unpacking
  <1>3. PackIsWhole'
    BY DEF PackInv, PackIsWhole, Materialized
  <1> QED
    BY <1>1, <1>2, <1>3 DEF PackInv

\* The worker's variables stay as they are.
LEMMA PackIdles ==
    ASSUME PackInv, UNCHANGED <<work, temp>>, root' = root \/ (root = None /\ root' = Bare),
           inbox' \in Bundles \cup {None}, awaited' \in Bundles \cup {None},
           events' \in 0..MaxEvents
    PROVE  PackInv'
  <1> USE DEF work
  <1>1. TypeOK'
    BY DEF PackInv, TypeOK
  <1>2. NamesRead' = NamesRead /\ FilesRead' = FilesRead
    BY DEF NamesRead, FilesRead
  <1>3. AttemptInv'
    BY <1>2 DEF PackInv, AttemptInv, ReadWell, ReadAll, Loads, Materialized
  <1>4. PackIsWhole'
    BY DEF PackInv, PackIsWhole, Materialized
  <1> QED
    BY <1>1, <1>3, <1>4 DEF PackInv

\* Before and after unpacking.
LEMMA PackGoesOutside ==
    ASSUME PackInv, pc' \in {"stat", "clear", "done"}, hand' \in Bundles, Loads(hand'),
           pc' = "done" => Materialized,
           awaited' \in Bundles \cup {None},
           UNCHANGED <<inbox, at, total, root, temp, events>>
    PROVE  PackInv'
  <1>0. hand' # None
    BY BundleAssumption
  <1>1. TypeOK'
    BY <1>0 DEF PackInv, TypeOK, Steps
  <1>2. AttemptInv'
    BY DEF AttemptInv, Unpacking, Loads, Materialized
  <1>3. PackIsWhole'
    BY DEF PackInv, PackIsWhole, Materialized
  <1> QED
    BY <1>1, <1>2, <1>3 DEF PackInv
LEMMA PackClears == ASSUME PackInv, Clear PROVE PackInv'
  <1> USE DEF Clear
  <1>1. hand \in Bundles /\ Loads(hand)
    BY DEF PackInv, AttemptInv
  <1>2. NamesRead' = {}
    BY DEF NamesRead
  <1>3. temp' = Directory(FilesRead', None, None)
    <2>1. FilesRead' = [n \in {} |-> None]
      BY <1>2 DEF FilesRead
    <2> QED
      BY <2>1 DEF EmptyDirectory
  <1>4. temp' \in Directories
    <2>1. FilesRead' \in [{} -> Digests]
      BY <1>2 DEF FilesRead
    <2> QED
      BY <2>1, <1>3, DirectoryType
  <1>5. ReadWell'
    <2>1. Len(hand.entries) \in Nat
      BY <1>1, BundleAssumption
    <2> QED
      BY <2>1 DEF ReadWell
  <1>6. TypeOK'
    BY <1>4 DEF PackInv, TypeOK, Steps
  <1>7. AttemptInv'
    BY <1>1, <1>3, <1>5 DEF AttemptInv, Unpacking, Loads
  <1>8. PackIsWhole'
    BY DEF PackInv, PackIsWhole, Materialized
  <1> QED
    BY <1>6, <1>7, <1>8 DEF PackInv

\* Reading an entry adds its file and keeps the names apart.
LEMMA PackExtracts == ASSUME PackInv, Extract PROVE PackInv'
  <1> USE DEF Extract
  <1>1. hand \in Bundles /\ Loads(hand) /\ ReadWell /\ at \in Nat /\ total \in Nat
    BY DEF PackInv, TypeOK, AttemptInv, Unpacking
  <1>2. temp = Directory(FilesRead, None, None)
    BY DEF PackInv, AttemptInv
  <1>3. Len(hand.entries) \in Nat
    BY <1>1, BundleAssumption
  <1>4. at + 1 \in 1..Len(hand.entries)
    BY <1>1, <1>3
  <1>5. Entry \in [name : Names, size : Nat, plain : BOOLEAN]
    BY <1>1, <1>4, EntryType DEF Entry
  <1>6. NamesRead' = NamesRead \cup {Entry.name}
    BY <1>1 DEF NamesRead, Entry
  <1>7. temp' = Directory(FilesRead', None, None)
    <2> DEFINE F == [n \in NamesRead \cup {Entry.name} |->
                        IF n = Entry.name THEN hand.digest ELSE FilesRead[n]]
    <2>1. temp.files = FilesRead /\ DOMAIN FilesRead = NamesRead
      BY <1>2, DirectoryFields DEF FilesRead
    <2>2. temp' = [temp EXCEPT !.files = F]
      BY <2>1
    <2>3. F = FilesRead'
      BY <1>6 DEF FilesRead
    <2> HIDE DEF F
    <2>4. [temp EXCEPT !.files = F] = Directory(F, None, None)
      BY <1>2 DEF Directory
    <2> QED
      BY <2>2, <2>3, <2>4
  <1>8. ReadWell'
    <2>1. \A i \in 1..(at + 1) : i \in 1..at \/ i = at + 1
      BY <1>1
    <2>2. \A i \in 1..at : Folded[hand.entries[i].name] # Folded[Entry.name]
      BY DEF Accepts
    <2>3. Entry.plain /\ Entry.size <= MaxFileBytes
      BY DEF Accepts
    <2>4. \A i, j \in 1..(at + 1) :
            Folded[hand.entries[i].name] = Folded[hand.entries[j].name] => i = j
      BY <1>1, <2>1, <2>2 DEF ReadWell, Entry
    <2>5. \A i \in 1..(at + 1) : hand.entries[i].plain /\ hand.entries[i].size <= MaxFileBytes
      BY <1>1, <2>1, <2>3 DEF ReadWell, Entry
    <2> QED
      BY <1>4, <1>3, <1>1, <2>4, <2>5 DEF ReadWell
  <1>9. temp' \in Directories
    <2>1. NamesRead' \in SUBSET Names /\ FilesRead' \in [NamesRead' -> Digests]
      <3>1. NamesRead \in SUBSET Names
        BY <1>1, ReadFiles DEF ReadWell
      <3>2. hand.digest \in Digests
        BY <1>1 DEF Digests
      <3> QED
        BY <1>5, <1>6, <3>1, <3>2 DEF FilesRead
    <2> HIDE DEF Extract
    <2> QED
      BY <2>1, <1>7, DirectoryType
  <1>10. TypeOK'
    <2>1. at' \in Nat /\ total' \in Nat
      BY <1>1, <1>5
    <2> QED
      BY <1>9, <2>1 DEF PackInv, TypeOK
  <1>11. AttemptInv'
    BY <1>1, <1>7, <1>8 DEF AttemptInv, Unpacking, Loads
  <1>12. PackIsWhole'
    BY DEF PackInv, PackIsWhole, Materialized
  <1> QED
    BY <1>10, <1>11, <1>12 DEF PackInv

\* The steps behind the last entry.
LEMMA PackFinishes ==
    ASSUME PackInv, ArchiveEnds \/ WriteDocuments \/ WriteMarker
    PROVE  PackInv'
  <1> USE DEF ArchiveEnds, WriteDocuments, WriteMarker, Goes
  <1>1. hand \in Bundles /\ Loads(hand) /\ ReadWell /\ at \in Nat
    BY DEF PackInv, TypeOK, AttemptInv, Unpacking
  <1>2. UNCHANGED <<branch, hand, at, total, root, events>>
    OBVIOUS
  <1>3. NamesRead' = NamesRead /\ FilesRead' = FilesRead /\ ReadWell'
    BY <1>1, <1>2 DEF NamesRead, FilesRead, ReadWell
  <1>4. ReadAll'
    <2>1. ReadAll
      <3>1. CASE ArchiveEnds
        BY <3>1 DEF ReadAll, Complete, NamesRead
      <3> QED
        BY <3>1 DEF PackInv, AttemptInv, Unpacking
    <2> QED
      BY <1>2, <1>3, <2>1 DEF ReadAll
  <1>5. NamesRead' \in SUBSET Names /\ FilesRead' \in [NamesRead' -> Digests]
    <2>1. NamesRead \in SUBSET Names /\ FilesRead \in [NamesRead -> Digests]
      BY <1>1, ReadFiles DEF ReadWell
    <2> HIDE DEF ArchiveEnds, WriteDocuments, WriteMarker, Goes
    <2> QED
      BY <1>3, <2>1
  <1>6. /\ hand'.document \in {b.document : b \in Bundles} \cup {None}
        /\ hand'.digest \in Digests \cup {None}
    BY <1>1, <1>2 DEF Digests
  <1>7. CASE ArchiveEnds
    <2>1. temp' = Directory(FilesRead', None, None)
      BY <1>3, <1>7 DEF PackInv, AttemptInv
    <2>2. TypeOK'
      BY <1>7 DEF PackInv, TypeOK, Steps
    <2>3. AttemptInv'
      BY <1>1, <1>2, <1>3, <1>4, <1>7, <2>1 DEF AttemptInv, Unpacking, Loads
    <2> QED
      BY <1>7, <2>2, <2>3 DEF PackInv, PackIsWhole, Materialized
  <1>8. CASE WriteDocuments
    <2>1. temp' = Directory(FilesRead', hand'.document, None)
      BY <1>2, <1>3, <1>8 DEF PackInv, AttemptInv, Directory
    <2>2. temp' \in Directories
      BY <1>5, <1>6, <2>1, DirectoryType
    <2>3. TypeOK'
      BY <1>8, <2>2 DEF PackInv, TypeOK, Steps
    <2>4. AttemptInv'
      BY <1>1, <1>2, <1>3, <1>4, <1>8, <2>1 DEF AttemptInv, Unpacking, Loads
    <2> QED
      BY <1>8, <2>3, <2>4 DEF PackInv, PackIsWhole, Materialized
  <1>9. CASE WriteMarker
    <2>1. temp' = Directory(FilesRead', hand'.document, hand'.digest)
      BY <1>2, <1>3, <1>9 DEF PackInv, AttemptInv, Directory
    <2>2. temp' \in Directories
      BY <1>5, <1>6, <2>1, DirectoryType
    <2>3. TypeOK'
      BY <1>9, <2>2 DEF PackInv, TypeOK, Steps
    <2>4. AttemptInv'
      BY <1>1, <1>2, <1>3, <1>4, <1>9, <2>1 DEF AttemptInv, Unpacking, Loads
    <2> QED
      BY <1>9, <2>3, <2>4 DEF PackInv, PackIsWhole, Materialized
  <1> QED
    BY <1>7, <1>8, <1>9

\* What is renamed into place is the whole of the bundle in hand.
LEMMA PackRenames == ASSUME PackInv, Rename PROVE PackInv'
  <1> USE DEF Rename, Goes
  <1>1. hand \in Bundles /\ Loads(hand) /\ ReadWell /\ ReadAll
    BY DEF PackInv, AttemptInv, Unpacking
  <1>2. root' = Directory(FilesRead, hand.document, hand.digest)
    BY DEF PackInv, AttemptInv
  <1>3. NamesRead = EntryNames(hand)
    BY <1>1 DEF NamesRead, EntryNames, ReadAll
  <1>4. WellPacked(hand)
    BY <1>1, <1>3 DEF WellPacked, ReadWell, ReadAll
  <1>5. PackIsWhole'
    <2>1. hand.digest = root'.digest
      BY <1>2 DEF Directory
    <2> QED
      BY <1>1, <1>2, <1>3, <1>4, <2>1 DEF PackIsWhole, FilesRead
  <1>6. root' \in Directories
    <2>1. NamesRead \in SUBSET Names /\ FilesRead \in [NamesRead -> Digests]
      BY <1>1, ReadFiles DEF PackInv, TypeOK, ReadWell
    <2>2. /\ hand.document \in {b.document : b \in Bundles} \cup {None}
          /\ hand.digest \in Digests \cup {None}
      BY <1>1 DEF Digests
    <2> HIDE DEF Rename
    <2> QED
      BY <1>2, <2>1, <2>2, DirectoryType
  <1>7. TypeOK'
    BY <1>6 DEF PackInv, TypeOK, Steps
  <1>8. Materialized'
    BY <1>6, DirectoryAssumption DEF Materialized
  <1>9. AttemptInv'
    BY <1>1, <1>8 DEF AttemptInv, Unpacking, Loads
  <1> QED
    BY <1>5, <1>7, <1>9 DEF PackInv
-----------------------------------------------------------------------------
(* The theorems.                                                           *)

LEMMA PackStep == ASSUME PackInv, [Next]_vars PROVE PackInv'
  <1>0. /\ inbox \in Bundles \cup {None} /\ awaited \in Bundles \cup {None}
        /\ events \in 0..MaxEvents
    BY DEF PackInv, TypeOK
  <1>1. CASE Sleep \/ UNCHANGED vars
    BY <1>0, <1>1, PackIdles DEF Sleep, vars, work
  <1>2. CASE Load
    BY <1>2, PackGoesOutside, <1>0 DEF Load
  <1>3. CASE Present \/ Absent
    <2>1. hand \in Bundles /\ Loads(hand)
      BY <1>3 DEF PackInv, AttemptInv, Present, Absent
    <2>2. Loads(hand')
      BY <1>3, <2>1 DEF Present, Absent, Goes, Loads
    <2> QED
      BY <1>0, <1>3, <2>1, <2>2, PackGoesOutside DEF Present, Absent, Goes, Materialized
  <1>4. CASE OtherContent \/ ArchiveRefused \/ RenameFails \/ Return
    BY <1>0, <1>4, PackGivesUp DEF OtherContent, ArchiveRefused, RenameFails, Return, Refuse
  <1>5. CASE WriteFails \/ Kill
    BY <1>0, <1>5, PackGivesUp, EventCounts DEF WriteFails, Kill, Refuse
  <1>6. CASE Submit \/ ApproveEarly
    BY <1>0, <1>6, PackIdles, EventCounts DEF Submit, ApproveEarly, work
  <1>7. CASE Clear \/ Extract \/ Rename
    BY <1>7, PackClears, PackExtracts, PackRenames
  <1>8. CASE ArchiveEnds \/ WriteDocuments \/ WriteMarker
    BY <1>8, PackFinishes
  <1> QED
    BY <1>1, <1>2, <1>3, <1>4, <1>5, <1>6, <1>7, <1>8 DEF Next, Materialize

\* The temporary directory holds, at each step of an attempt, what the attempt
\* has read, whatever earlier attempts left.
THEOREM BundleInvariance == Spec => []PackInv
  <1>1. Init => PackInv
    BY PackInit
  <1>2. PackInv /\ [Next]_vars => PackInv'
    BY PackStep
  <1> QED
    BY <1>1, <1>2, PTL DEF Spec

\* Every variable keeps its type.
THEOREM BundleTypeCorrect == Spec => []TypeOK
  <1>1. PackInv => TypeOK
    BY DEF PackInv
  <1> QED
    BY <1>1, BundleInvariance, PTL

\* A task directory is the work of one bundle and all of it, for any bundles
\* and any number of kills, failed writes and replacements.
THEOREM PackTheorem == Spec => []PackIsWhole
  <1>1. PackInv => PackIsWhole
    BY DEF PackInv
  <1> QED
    BY <1>1, BundleInvariance, PTL

-----------------------------------------------------------------------------
(* The size of what is unpacked.  SizeOf is a recursive function of the    *)
(* entries; unpacking is the induction over it, an entry a step.           *)

\* g adds up the sizes of the first n entries.
Sums(g, entries, n) ==
    g = [i \in 0..n |-> IF i = 0 THEN 0 ELSE g[i - 1] + entries[i].size]

\* There are sums as far as the archive has been read, and whatever adds up the
\* whole archive agrees with total there.
CountedInv ==
    /\ \E g : Sums(g, hand.entries, at)
    /\ \A g : Sums(g, hand.entries, Len(hand.entries)) => g[at] = total

SizeInv ==
    /\ PackIsBounded
    /\ pc \in Unpacking => CountedInv
    /\ pc \in Unpacking \ {"extract"} => total = hand.size

LEMMA SizeOfSums ==
    ASSUME NEW entries, NEW f, Sums(f, entries, Len(entries))
    PROVE  \E g : Sums(g, entries, Len(entries)) /\ SizeOf(entries) = g[Len(entries)]
  <1> DEFINE n == Len(entries)
             g == CHOOSE h : h = [i \in 0..n |-> IF i = 0 THEN 0 ELSE h[i - 1] + entries[i].size]
  <1>1. g = [i \in 0..n |-> IF i = 0 THEN 0 ELSE g[i - 1] + entries[i].size]
    BY DEF Sums
  <1>2. SizeOf(entries) = g[n]
    BY DEF SizeOf
  <1> QED
    BY <1>1, <1>2 DEF Sums

\* One entry more.
LEMMA SumsExtend ==
    ASSUME NEW entries, NEW n \in Nat, NEW g, Sums(g, entries, n)
    PROVE  \E h : Sums(h, entries, n + 1)
  <1> DEFINE h == [i \in 0..(n + 1) |-> IF i = n + 1 THEN g[n] + entries[n + 1].size ELSE g[i]]
  <1>1. \A i \in 0..n : h[i] = g[i]
    OBVIOUS
  <1>2. \A i \in 0..n : g[i] = IF i = 0 THEN 0 ELSE g[i - 1] + entries[i].size
    BY DEF Sums
  <1>3. ASSUME NEW i \in 0..(n + 1)
        PROVE  h[i] = IF i = 0 THEN 0 ELSE h[i - 1] + entries[i].size
    <2>1. CASE i = n + 1
      <3>1. h[i] = g[n] + entries[i].size /\ i # 0 /\ i - 1 = n /\ n \in 0..n
        BY <2>1
      <3> QED
        BY <1>1, <3>1
    <2>2. CASE i # n + 1
      <3>1. i \in 0..n /\ (i # 0 => i - 1 \in 0..n)
        BY <2>2
      <3> QED
        BY <1>1, <1>2, <3>1
    <2> QED
      BY <2>1, <2>2
  <1>4. h = [i \in 0..(n + 1) |-> h[i]]
    OBVIOUS
  <1> HIDE DEF h
  <1>5. h = [i \in 0..(n + 1) |-> IF i = 0 THEN 0 ELSE h[i - 1] + entries[i].size]
    BY <1>3, <1>4
  <1> QED
    BY <1>5 DEF Sums

LEMMA SumsStep ==
    ASSUME NEW entries, NEW m \in Nat, NEW n \in Nat, n < m, NEW g, Sums(g, entries, m)
    PROVE  g[n + 1] = g[n] + entries[n + 1].size
  <1>1. n + 1 \in 0..m /\ n + 1 # 0 /\ (n + 1) - 1 = n
    OBVIOUS
  <1>2. \A i \in 0..m : g[i] = IF i = 0 THEN 0 ELSE g[i - 1] + entries[i].size
    BY DEF Sums
  <1> QED
    BY <1>1, <1>2

LEMMA SumsEmpty ==
    ASSUME NEW entries
    PROVE  /\ \E g : Sums(g, entries, 0)
           /\ \A m \in Nat : \A g : Sums(g, entries, m) => g[0] = 0
  <1> DEFINE z == [i \in 0..0 |-> 0]
  <1>1. z = [i \in 0..0 |-> IF i = 0 THEN 0 ELSE z[i - 1] + entries[i].size]
    OBVIOUS
  <1>2. \E g : Sums(g, entries, 0)
    BY <1>1 DEF Sums
  <1>3. ASSUME NEW m \in Nat, NEW g, Sums(g, entries, m) PROVE g[0] = 0
    <2>1. 0 \in 0..m
      OBVIOUS
    <2> QED
      BY <1>3, <2>1 DEF Sums
  <1> QED
    BY <1>2, <1>3

\* Steps outside unpacking, or beside it.
LEMMA SizeKept ==
    ASSUME SizeInv, UNCHANGED total, root' \in {root, Bare},
           pc' \notin Unpacking \/ UNCHANGED work
    PROVE  SizeInv'
  <1>1. PackIsBounded'
    BY DEF SizeInv, PackIsBounded, Materialized
  <1>2. CASE pc' \notin Unpacking
    BY <1>1, <1>2 DEF SizeInv
  <1>3. CASE UNCHANGED work
    BY <1>1, <1>3 DEF SizeInv, CountedInv, work
  <1> QED
    BY <1>2, <1>3

LEMMA SizeExtracts == ASSUME PackInv, SizeInv, Extract PROVE SizeInv'
  <1>1. /\ hand \in Bundles /\ at \in Nat /\ pc = "extract" /\ at < Len(hand.entries)
        /\ at' = at + 1 /\ total' = total + hand.entries[at + 1].size
        /\ UNCHANGED <<hand, pc, root>> /\ total' <= MaxAggregateBytes
    BY DEF PackInv, TypeOK, AttemptInv, Extract, Accepts, Entry
  <1>2. Len(hand.entries) \in Nat
    BY <1>1, BundleAssumption
  <1>3. CountedInv
    BY <1>1 DEF SizeInv, Unpacking
  <1>4. \E g : Sums(g, hand.entries, at + 1)
    BY <1>1, <1>3, SumsExtend DEF CountedInv
  <1>5. ASSUME NEW g, Sums(g, hand.entries, Len(hand.entries)) PROVE g[at + 1] = total'
    <2>1. g[at] = total
      BY <1>3, <1>5 DEF CountedInv
    <2> QED
      BY <1>1, <1>2, <1>5, <2>1, SumsStep
  <1>6. CountedInv'
    BY <1>1, <1>4, <1>5 DEF CountedInv
  <1>7. PackIsBounded'
    BY <1>1 DEF SizeInv, PackIsBounded, Materialized
  <1> QED
    BY <1>1, <1>6, <1>7 DEF SizeInv, Unpacking

\* All has been read: the total is the size of the whole archive.
LEMMA SizeRenames == ASSUME PackInv, SizeInv, Rename PROVE SizeInv'
  <1>1. /\ hand \in Bundles /\ Loads(hand) /\ at = Len(hand.entries)
        /\ CountedInv /\ total = hand.size
    BY DEF Rename, PackInv, AttemptInv, ReadAll, SizeInv, Unpacking
  <1>2. SizeOf(hand.entries) = hand.size
    BY <1>1, SizeOfSums DEF CountedInv
  <1>3. hand.size <= MaxAggregateBytes
    <2>1. hand.size \in Nat /\ MaxAggregateBytes \in Nat
      BY <1>1, BundleAssumption, LimitAssumption
    <2> QED
      BY <1>1, <2>1 DEF Loads
  <1>4. root'.digest = hand.digest
    BY DEF Rename, PackInv, AttemptInv, Directory
  <1>5. UNCHANGED total /\ pc' = "done"
    BY DEF Rename, Goes
  <1>6. PackIsBounded'
    BY <1>1, <1>2, <1>3, <1>4, <1>5 DEF SizeInv, PackIsBounded
  <1> QED
    BY <1>5, <1>6 DEF SizeInv, Unpacking

LEMMA SizeStep == ASSUME PackInv, SizeInv, [Next]_vars PROVE SizeInv'
  <1>1. CASE Sleep \/ UNCHANGED vars \/ Submit \/ ApproveEarly
    BY <1>1, SizeKept DEF Sleep, vars, work, Submit, ApproveEarly
  <1>2. CASE Load \/ Present \/ OtherContent \/ Absent \/ ArchiveRefused \/ RenameFails
             \/ Return \/ WriteFails \/ Kill
    BY <1>2, SizeKept
       DEF Load, Present, OtherContent, Absent, Goes, ArchiveRefused, RenameFails, Return,
           WriteFails, Kill, Refuse, Unpacking
  <1>3. CASE Clear
    <2>1. hand \in Bundles /\ MaxAggregateBytes \in Nat
      BY <1>3, LimitAssumption DEF Clear, PackInv, AttemptInv
    <2>2. Len(hand.entries) \in Nat
      BY <2>1, BundleAssumption
    <2>3. CountedInv'
      BY <1>3, <2>2, SumsEmpty DEF Clear, CountedInv
    <2>4. PackIsBounded'
      BY <1>3, <2>1 DEF Clear, SizeInv, PackIsBounded, Materialized
    <2> QED
      BY <1>3, <2>3, <2>4 DEF Clear, SizeInv, Unpacking
  <1>4. CASE ArchiveEnds \/ WriteDocuments \/ WriteMarker
    <2>1. /\ UNCHANGED <<hand, at, total, root>> /\ pc \in Unpacking
          /\ total = hand.size
      BY <1>4 DEF ArchiveEnds, Complete, WriteDocuments, WriteMarker, Goes, SizeInv, Unpacking
    <2>2. PackIsBounded' /\ CountedInv'
      BY <2>1 DEF SizeInv, PackIsBounded, Materialized, CountedInv
    <2> QED
      BY <2>1, <2>2 DEF SizeInv
  <1> QED
    BY <1>1, <1>2, <1>3, <1>4, SizeExtracts, SizeRenames DEF Next, Materialize

LEMMA SizeInit == Init => SizeInv
  <1>1. MaxAggregateBytes \in Nat
    BY LimitAssumption
  <1> QED
    BY <1>1 DEF Init, SizeInv, PackIsBounded, Materialized, Unpacking

\* Whatever a document declares, unpacking stops at the limit, and the directory
\* that is kept has the declared size, added up over all of its entries.
THEOREM BoundedTheorem == Spec => []PackIsBounded
  <1>1. Init => PackInv /\ SizeInv
    BY PackInit, SizeInit
  <1>2. (PackInv /\ SizeInv) /\ [Next]_vars => (PackInv /\ SizeInv)'
    BY PackStep, SizeStep
  <1>3. PackInv /\ SizeInv => PackIsBounded
    BY DEF SizeInv
  <1> QED
    BY <1>1, <1>2, <1>3, PTL DEF Spec
=============================================================================
