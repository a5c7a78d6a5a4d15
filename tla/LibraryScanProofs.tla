-------------------------- MODULE LibraryScanProofs --------------------------
(***************************************************************************)
(* What LibraryScan guarantees for every set of folders and files and any  *)
(* number of writes, scans and restarts: a record that counts as unchanged *)
(* has tags the file has had since it got its present time and size, and a *)
(* file that stays where it is never loses its record in the saved index.  *)
(***************************************************************************)
EXTENDS LibraryScan, TLAPS

Records == [mtime : Nat \ {0}, tags : Nat]

\* The file was examined before its tags were read, and both before now; of a file that is
\* gone for good nothing is asked.
Fresh(d, g, f, r) == r \in Records /\ (f \in g \/ (r.mtime <= r.tags /\ r.tags <= d[f]))

FreshTable(d, g, t) ==
  /\ DOMAIN t \subseteq Files /\ t = [f \in DOMAIN t |-> t[f]]
  /\ \A f \in DOMAIN t : Fresh(d, g, f, t[f])

IsIndex(index) == index = [roots |-> index.roots, tracks |-> index.tracks]

FreshIndex(d, g, index) ==
  index = NoIndex \/ (IsIndex(index) /\ FreshTable(d, g, index.tracks))

DiskOK ==
  /\ disk \in [Files -> Nat] /\ key \in [Files -> Nat] /\ gone \subseteq Files
  /\ \A f \in gone : disk[f] = 0
  /\ \A f \in Files : key[f] <= disk[f] /\ (disk[f] > 0 => key[f] > 0)

\* What the worker knows of the file it examines; done_ is raised when it has ended.
VisitOK ==
  /\ done => wpc = "idle"
  /\ cur \in Files /\ stat \in Nat
  /\ wpc = "tags" => stat > 0 /\ (cur \in gone \/ stat <= disk[cur])

FInv ==
  /\ DiskOK /\ VisitOK
  /\ FreshTable(disk, gone, previous) /\ FreshTable(disk, gone, found)
  /\ FreshIndex(disk, gone, file) /\ FreshIndex(disk, gone, mem)

LEMMA AnyFileType == AnyFile \in Files
BY LibraryAssumption DEF AnyFile

LEMMA NothingFresh == ASSUME NEW d, NEW g PROVE FreshTable(d, g, Nothing)
BY DEF FreshTable, Nothing

LEMMA InitFInv == Init => FInv
BY AnyFileType, NothingFresh DEF Init, FInv, DiskOK, VisitOK, FreshIndex

\* Records stay fresh when files are written and deleted.
LEMMA TableStaysFresh ==
  ASSUME NEW d \in [Files -> Nat], NEW g, NEW d2 \in [Files -> Nat], NEW g2,
         g \subseteq g2, \A f \in Files \ g2 : d[f] <= d2[f],
         NEW t, FreshTable(d, g, t)
  PROVE  FreshTable(d2, g2, t)
BY DEF FreshTable, Fresh, Records

LEMMA IndexStaysFresh ==
  ASSUME NEW d \in [Files -> Nat], NEW g, NEW d2 \in [Files -> Nat], NEW g2,
         g \subseteq g2, \A f \in Files \ g2 : d[f] <= d2[f],
         NEW index, FreshIndex(d, g, index)
  PROVE  FreshIndex(d2, g2, index)
BY TableStaysFresh DEF FreshIndex

\* What the operations on tables do to fresh ones.
LEMMA WithFresh ==
  ASSUME NEW d, NEW g, NEW t, FreshTable(d, g, t), NEW f \in Files, NEW r, Fresh(d, g, f, r)
  PROVE  FreshTable(d, g, With(t, f, r))
BY DEF FreshTable, With

LEMMA WithoutFresh ==
  ASSUME NEW d, NEW g, NEW t, FreshTable(d, g, t), NEW r
  PROVE  FreshTable(d, g, Without(t, r))
BY DEF FreshTable, Without

LEMMA CarriedFresh ==
  ASSUME FreshTable(disk, gone, previous), FreshTable(disk, gone, found), NEW r
  PROVE  FreshTable(disk, gone, Carried(r))
BY DEF FreshTable, Carried

LEMMA TracksFresh ==
  ASSUME NEW d, NEW g, NEW index, FreshIndex(d, g, index)
  PROVE  FreshTable(d, g, Tracks(index))
BY NothingFresh DEF FreshIndex, Tracks

LEMMA NewIndexFresh ==
  ASSUME NEW d, NEW g, NEW r, NEW t, FreshTable(d, g, t)
  PROVE  FreshIndex(d, g, [roots |-> r, tracks |-> t])
BY DEF FreshIndex, IsIndex

-----------------------------------------------------------------------------

\* Other programs.
LEMMA WorldFInv ==
  ASSUME FInv, Write \/ Delete
  PROVE  FInv'
<1>1. UNCHANGED <<previous, found, file, mem, cur, stat, wpc, done>>
  BY DEF Write, Delete, walk, visit, flags
<1>2. /\ DiskOK' /\ gone \subseteq gone'
      /\ \A f \in Files \ gone' : disk[f] <= disk'[f]
  <2>1. CASE Write
    BY <2>1 DEF Write, Written, FInv, DiskOK
  <2>2. CASE Delete
    BY <2>2 DEF Delete, FInv, DiskOK
  <2> QED
    BY <2>1, <2>2
<1>3. disk \in [Files -> Nat] /\ disk' \in [Files -> Nat]
  BY <1>2 DEF FInv, DiskOK
<1>4. FreshTable(disk', gone', previous) /\ FreshTable(disk', gone', found)
  BY <1>2, <1>3, TableStaysFresh DEF FInv
<1>5. FreshIndex(disk', gone', file) /\ FreshIndex(disk', gone', mem)
  BY <1>2, <1>3, IndexStaysFresh DEF FInv
<1>6. VisitOK'
  BY <1>1, <1>2, <1>3 DEF FInv, VisitOK
<1> QED
  BY <1>1, <1>2, <1>4, <1>5, <1>6 DEF FInv

\* The worker changes no file.
LEMMA ScanFInv ==
  ASSUME FInv, Worker
  PROVE  FInv'
<1>1. UNCHANGED <<disk, key, gone, mem>>
  BY DEF Worker, ScanLoad, ScanRoot, ScanCancelled, ScanEntry, ScanRootEnd, ScanStat, ScanTags,
     ScanEnds, SaveTemporary, SaveRename, Publish, Inactive, Done, Rest, world
<1> USE DEF FInv, VisitOK, visit, walk, flags
<1>2. DiskOK'
  BY <1>1 DEF DiskOK
<1>3. CASE ScanLoad
  BY <1>1, <1>2, <1>3, TracksFresh DEF ScanLoad
<1>4. CASE ScanRoot
  BY <1>1, <1>2, <1>4, CarriedFresh DEF ScanRoot
<1>5. CASE ScanCancelled \/ ScanEntry \/ ScanRootEnd \/ ScanEnds
  BY <1>1, <1>2, <1>5 DEF ScanCancelled, ScanEntry, Entries, ScanRootEnd, ScanEnds
<1>6. CASE ScanStat
  <2>1. /\ disk[cur] \in Nat /\ key[cur] \in Nat /\ key[cur] <= disk[cur] /\ (disk[cur] > 0 => key[cur] > 0)
        /\ cur \in DOMAIN previous => Fresh(disk, gone, cur, previous[cur])
    BY DEF DiskOK, FreshTable
  <2>2. FreshTable(disk, gone, found')
    BY <1>6, <2>1, WithFresh DEF ScanStat
  <2> QED
    BY <1>1, <1>2, <1>6, <2>1, <2>2 DEF ScanStat
<1>7. CASE ScanTags
  <2>1. Fresh(disk, gone, cur, Record(stat, disk[cur]))
    BY <1>7 DEF ScanTags, Fresh, Record, Records, DiskOK
  <2>2. FreshTable(disk, gone, found')
    BY <1>7, <2>1, WithFresh DEF ScanTags
  <2> QED
    BY <1>1, <1>2, <1>7, <2>2 DEF ScanTags
<1>8. CASE SaveRename
  BY <1>1, <1>2, <1>8, NewIndexFresh DEF SaveRename
<1>9. CASE Publish
  BY <1>1, <1>2, <1>9, NothingFresh, AnyFileType DEF Publish, VisitOver
<1>10. CASE SaveTemporary \/ Inactive \/ Done
  BY <1>1, <1>2, <1>10 DEF SaveTemporary, Inactive, Done
<1> QED
  BY <1>3, <1>4, <1>5, <1>6, <1>7, <1>8, <1>9, <1>10 DEF Worker


\* A scan that starts has found nothing yet.
LEMMA StartFInv ==
  ASSUME NEW given, StartScan(given), FInv
  PROVE  /\ UNCHANGED <<previous, cur, stat>> /\ wpc' \in {wpc, "load"}
         /\ found' \in {found, Nothing} /\ (done' => done /\ wpc' = wpc)
BY DEF StartScan, flags, walk, visit

\* The user interface and a restart; only the tags edited here are written to a file.
LEMMA InterfaceFInv ==
  ASSUME FInv, Interface \/ Restart
  PROVE  FInv'
<1> USE DEF FInv, VisitOK
<1>1. CASE EditTags
  <2>1. PICK f \in Files :
          /\ disk[f] > 0 /\ disk' = [disk EXCEPT ![f] = @ + 1]
          /\ key' = [key EXCEPT ![f] = disk[f] + 1] \/ key' = key
          /\ mem' = IF f \in DOMAIN Tracks(mem) THEN [mem EXCEPT !.tracks[f].tags = disk[f] + 1]
                    ELSE mem
    BY <1>1 DEF EditTags, Written
  <2>2. UNCHANGED <<gone, file, previous, found, cur, stat, wpc, done>>
    BY <1>1 DEF EditTags, walk, visit, flags
  <2>3. f \notin gone /\ DiskOK' /\ disk'[f] = disk[f] + 1
    BY <2>1, <2>2 DEF DiskOK
  <2>4. /\ disk \in [Files -> Nat] /\ disk' \in [Files -> Nat]
        /\ \A g \in Files \ gone' : disk[g] <= disk'[g]
    BY <2>1, <2>2, <2>3 DEF DiskOK
  <2>5. /\ FreshTable(disk', gone', previous) /\ FreshTable(disk', gone', found)
        /\ FreshIndex(disk', gone', file)
    BY <2>2, <2>4, TableStaysFresh, IndexStaysFresh
  <2>6. FreshIndex(disk', gone', mem')
    <3>1. CASE f \notin DOMAIN Tracks(mem)
      BY <2>1, <2>2, <2>4, <3>1, IndexStaysFresh
    <3>2. CASE f \in DOMAIN Tracks(mem)
      <4> DEFINE t == mem.tracks
                 u == [t EXCEPT ![f].tags = disk[f] + 1]
      <4>1. mem # NoIndex /\ f \in DOMAIN t /\ IsIndex(mem) /\ FreshTable(disk, gone, t)
        BY <3>2 DEF Tracks, Nothing, FreshIndex
      <4>2. mem' = [roots |-> mem.roots, tracks |-> u]
        <5>1. mem' = [mem EXCEPT !.tracks[f].tags = disk[f] + 1]
          BY <2>1, <3>2
        <5> QED
          BY <4>1, <5>1 DEF IsIndex
      <4>3. FreshTable(disk', gone', t)
        BY <2>2, <2>4, <4>1, TableStaysFresh
      <4>4. Fresh(disk', gone', f, u[f])
        <5>1. Fresh(disk, gone, f, t[f])
          BY <4>1 DEF FreshTable
        <5>2. u[f] = [t[f] EXCEPT !.tags = disk[f] + 1]
          BY <4>1
        <5> QED
          BY <2>1, <2>3, <5>1, <5>2 DEF Fresh, Records, DiskOK
      <4>5. FreshTable(disk', gone', u)
        BY <4>3, <4>4 DEF FreshTable
      <4> QED
        BY <4>2, <4>5, NewIndexFresh
    <3> QED
      BY <3>1, <3>2
  <2>7. VisitOK'
    BY <2>2, <2>4
  <2> QED
    BY <2>2, <2>3, <2>5, <2>6, <2>7
<1>2. CASE Enter \/ Rescan \/ AddRoot
  <2>1. UNCHANGED <<disk, key, gone, file>> /\ mem' \in {mem, file}
    BY <1>2 DEF Enter, Rescan, AddRoot, world
  <2>2. \/ UNCHANGED <<previous, found, cur, stat, wpc, done>>
        \/ \E given : StartScan(given)
    BY <1>2 DEF Enter, Rescan, AddRoot, NoScan, walk, visit, flags
  <2>3. /\ UNCHANGED <<previous, cur, stat>> /\ wpc' \in {wpc, "load"}
        /\ found' \in {found, Nothing} /\ (done' => done /\ wpc' = wpc)
    BY <2>2, StartFInv
  <2> QED
    BY <2>1, <2>3, NothingFresh DEF DiskOK
<1>3. CASE RemoveRoot
  <2>1. PICK r \in roots :
          mem' = RemoveFrom(mem, r) /\ file' \in {file, mem'}
    BY <1>3 DEF RemoveRoot, AfterSave
  <2>2. FreshIndex(disk, gone, mem')
    BY <2>1, TracksFresh, WithoutFresh, NewIndexFresh DEF RemoveFrom
  <2>3. UNCHANGED <<disk, key, gone, previous, found, cur, stat, wpc, done>>
    BY <1>3 DEF RemoveRoot, world, walk, visit, flags
  <2> QED
    BY <2>1, <2>2, <2>3 DEF DiskOK
<1>4. CASE PollScan
  <2>1. UNCHANGED <<disk, key, gone, file, wpc, done>> /\ VisitOver /\ found' = Nothing
    BY <1>4 DEF PollScan, world, WalkOver, flags
  <2>2. FreshIndex(disk, gone, mem')
    BY <1>4, NewIndexFresh DEF PollScan
  <2> QED
    BY <1>4, <2>1, <2>2, NothingFresh, AnyFileType DEF PollScan, VisitOver, DiskOK
<1>5. CASE Restart
  BY <1>5, NothingFresh, AnyFileType DEF Restart, WalkOver, VisitOver, world, DiskOK, FreshIndex
<1>6. CASE Leave \/ CancelScan \/ RemoveSaved
  BY <1>6 DEF Leave, CancelScan, RemoveSaved, world, walk, visit, flags, DiskOK
<1> QED
  BY <1>1, <1>2, <1>3, <1>4, <1>5, <1>6 DEF Interface, User

LEMMA FreshInvariant == Spec => []FInv
<1>1. FInv /\ [Next]_vars => FInv'
  <2>1. FInv /\ UNCHANGED vars => FInv'
    BY DEF FInv, DiskOK, VisitOK, vars, world, walk, visit, flags
  <2> QED
    BY <2>1, WorldFInv, ScanFInv, InterfaceFInv DEF Next
<1> QED
  BY <1>1, InitFInv, PTL DEF Spec

\* A record that the next scan takes over as unchanged has tags the file has had since it got
\* its present time and size, which are taken before the tags are read.
THEOREM UnchangedMeansFresh == Spec => []RecordsFresh
<1>1. FInv => RecordsFresh
  <2> SUFFICES ASSUME FInv, NEW index \in {file, mem}, NEW f \in DOMAIN Tracks(index),
                      Tracks(index)[f].mtime = key[f]
               PROVE  Tracks(index)[f].tags \in key[f] .. disk[f]
    BY DEF RecordsFresh
  <2>1. FreshTable(disk, gone, Tracks(index))
    BY TracksFresh DEF FInv
  <2>2. Fresh(disk, gone, f, Tracks(index)[f]) /\ f \in Files
    BY <2>1 DEF FreshTable
  <2> QED
    BY <2>2 DEF FInv, DiskOK, Fresh, Records
<1> QED
  BY <1>1, FreshInvariant, PTL

-----------------------------------------------------------------------------

RootsOK ==
  /\ roots \subseteq Roots /\ savedRoots \subseteq Roots /\ scanRoots \subseteq Roots
  /\ running => scanRoots = LibraryRoots
  /\ savedRoots # roots => ~running /\ roots \subseteq savedRoots

\* What is indexed is in a folder that is configured, or was when the scan began.
HomesOK ==
  /\ \A f \in DOMAIN Tracks(file) : Home[f] \in LibraryRoots /\ (savedRoots # roots => Home[f] \in roots)
  /\ \A f \in DOMAIN Tracks(mem) : Home[f] \in LibraryRoots
  /\ \A f \in DOMAIN found : Home[f] \in scanRoots

Scanning == wpc \in {"root", "walk", "stat", "tags"}

ScanOK ==
  /\ wpc # "idle" => running
  /\ completed => running /\ wpc \in {"save", "rename", "publish", "inactive", "done", "idle"}
  /\ wpc \in {"save", "rename"} => completed
  /\ todo \subseteq scanRoots
  /\ wpc = "load" => todo = scanRoots
  /\ wpc \in {"walk", "stat", "tags"} => root \in scanRoots
  /\ wpc \in {"stat", "tags"} => Home[cur] = root

\* The index the worker started from is still the saved one until it is replaced.
LoadedOK == Scanning \/ wpc \in {"save", "rename"} => previous = Tracks(file)

\* Where a file of that index stands during the walk.
ToBeMet(f) == Home[f] = root /\ wpc # "root" /\ (f \in due \ met \/ (f = cur /\ wpc # "walk"))
WalkOK == Scanning =>
  \A f \in DOMAIN previous \ gone : Home[f] \in todo \/ f \in DOMAIN found \/ ToBeMet(f)

Covers(t) == \A f \in DOMAIN Tracks(file) \ gone : f \in DOMAIN t

\* Whatever is in the saved index is also in the one that may replace it: the result of a
\* completed scan, or else the one in memory, from which a folder is removed.
CoverOK ==
  /\ completed => Covers(found)
  /\ ~completed /\ mem # NoIndex => Covers(mem.tracks)

KInv == RootsOK /\ HomesOK /\ ScanOK /\ LoadedOK /\ WalkOK /\ CoverOK

\* A table that FInv speaks of makes an index that is not NoIndex.
LEMMA IsAnIndex ==
  ASSUME NEW r, r \subseteq Roots, NEW t, FreshTable(disk, gone, t)
  PROVE  [roots |-> r, tracks |-> t] # NoIndex
<1>1. t \in [DOMAIN t -> [mtime : Nat, tags : Nat]] /\ DOMAIN t \in SUBSET Files
  BY DEF FreshTable, Fresh, Records
<1>2. t \in Tables
  BY <1>1 DEF Tables
<1> QED
  BY <1>2, LibraryAssumption DEF Indexes

LEMMA InitKInv == Init => KInv
BY LibraryAssumption DEF Init, KInv, RootsOK, HomesOK, ScanOK, Scanning, LoadedOK, WalkOK, CoverOK,
   Tracks, Nothing, LibraryRoots

\* Other programs touch nothing the player has recorded.
LEMMA WorldKInv ==
  ASSUME KInv, Write \/ Delete
  PROVE  KInv'
<1>1. /\ UNCHANGED <<config, file, mem, pane, flags, wpc, walk>> /\ gone \subseteq gone'
  BY DEF Write, Delete
<1> USE <1>1 DEF KInv, config, pane, flags, walk, visit, Tracks, LibraryRoots
<1>2. RootsOK' /\ HomesOK'
  BY DEF RootsOK, HomesOK
<1>3. ScanOK' /\ LoadedOK'
  BY DEF ScanOK, LoadedOK, Scanning
<1>4. WalkOK'
  BY DEF WalkOK, Scanning, ToBeMet
<1>5. CoverOK'
  BY DEF CoverOK, Covers
<1> QED
  BY <1>2, <1>3, <1>4, <1>5

\* The worker, one step after the other.
LEMMA ScanKInv ==
  ASSUME ~DiskErrs, FInv, KInv, Worker
  PROVE  KInv'
<1>1. UNCHANGED <<disk, gone, roots, savedRoots, mem, running>>
  BY DEF Worker, ScanLoad, ScanRoot, ScanCancelled, ScanEntry, ScanRootEnd, ScanStat, ScanTags,
     ScanEnds, SaveTemporary, SaveRename, Publish, Inactive, Done, Rest, world, config, pane
\* An indexed file that is not gone is there: it is due when its folder is entered, and met.
<1>2. \A f \in DOMAIN previous \ gone : f \in Files /\ disk[f] > 0
  BY DEF FInv, FreshTable, Fresh, Records, DiskOK
<1>3. CASE SaveRename
  <2>1. [roots |-> scanRoots, tracks |-> found] # NoIndex
    BY IsAnIndex DEF FInv, KInv, RootsOK
  <2> QED
    BY <1>1, <1>3, <2>1 DEF SaveRename, KInv, visit, walk, flags, Tracks, LibraryRoots,
       RootsOK, HomesOK, ScanOK, Scanning, LoadedOK, WalkOK, CoverOK, Covers
<1> USE <1>1 DEF KInv, visit, walk, flags, Tracks, LibraryRoots, RootsOK, HomesOK, ScanOK, Scanning,
                 LoadedOK, WalkOK, ToBeMet, CoverOK, Covers
<1>4. CASE ScanLoad
  BY <1>4 DEF ScanLoad
<1>5. CASE ScanRoot
  <2>1. PICK r \in todo :
          /\ wpc = "root" /\ todo' = todo \ {r} /\ root' = r
          /\ \/ /\ walked' = TRUE /\ wpc' = "walk" /\ found' = found
                /\ met' = {} /\ due' = {f \in Files : Home[f] = r /\ disk[f] > 0}
             \/ /\ found' = Carried(r) /\ UNCHANGED <<walked, wpc, met, due>>
          /\ UNCHANGED <<Rest, file, flags, scanRoots, cur, stat, previous, completed>>
    BY <1>5 DEF ScanRoot
  <2>2. CASE wpc' = "walk"
    BY <1>2, <2>1, <2>2
  <2>3. CASE found' = Carried(r) /\ UNCHANGED <<walked, wpc, met, due>>
    <3>1. DOMAIN found' = DOMAIN found \cup {g \in DOMAIN previous : Home[g] = r}
      BY <2>3 DEF Carried
    <3> QED
      BY <2>1, <2>3, <3>1
  <2> QED
    BY <2>1, <2>2, <2>3
<1>6. CASE ScanCancelled
  BY <1>6 DEF ScanCancelled
<1>7. CASE ScanEntry
  BY <1>7 DEF ScanEntry, Entries, InRoot
<1>8. CASE ScanRootEnd
  BY <1>2, <1>8 DEF ScanRootEnd, Entries, InRoot
<1>9. CASE ScanStat
  <2>1. Home[cur] = root /\ (disk[cur] = 0 => cur \notin DOMAIN previous \ gone)
    BY <1>2, <1>9 DEF ScanStat, FInv, DiskOK, VisitOK
  <2>2. found' = found \/ found' = With(found, cur, previous[cur])
    BY <1>9 DEF ScanStat
  <2>3. DOMAIN With(found, cur, previous[cur]) = DOMAIN found \cup {cur}
    BY DEF With
  <2>4. wpc' = "walk" => cur \in DOMAIN found' \/ cur \notin DOMAIN previous \ gone
    BY <1>9, <2>1, <2>3 DEF ScanStat
  <2>5. /\ wpc = "stat" /\ wpc' \in {"walk", "tags"}
        /\ UNCHANGED <<Rest, file, flags, scanRoots, todo, root, walked, due, met, cur, previous, completed>>
    BY <1>9 DEF ScanStat
  <2>6. WalkOK'
    BY <2>2, <2>3, <2>4, <2>5
  <2> QED
    BY <2>1, <2>2, <2>3, <2>5, <2>6
<1>10. CASE ScanTags
  <2>1. DOMAIN found' = DOMAIN found \cup {cur}
    BY <1>10 DEF ScanTags, With
  <2> QED
    BY <1>10, <2>1 DEF ScanTags
<1>11. CASE ScanEnds
  BY <1>11 DEF ScanEnds
<1>12. CASE SaveTemporary \/ Inactive \/ Done
  BY <1>12 DEF SaveTemporary, Inactive, Done
<1>13. CASE Publish
  BY <1>13 DEF Publish, VisitOver
<1> QED
  BY <1>3, <1>4, <1>5, <1>6, <1>7, <1>8, <1>9, <1>10, <1>11, <1>12, <1>13 DEF Worker

\* The user interface and a restart.  A folder is removed from the index in memory, and what
\* that leaves is saved.
LEMMA InterfaceKInv ==
  ASSUME ~RemovalUnsaved, ~RemovesUnloaded, FInv, KInv, Interface \/ Restart
  PROVE  KInv'
<1> USE DEF KInv
<1>0. ~running => wpc = "idle" /\ ~completed
  BY DEF ScanOK
<1>1. CASE savedRoots = roots /\ (Enter \/ Rescan \/ AddRoot)
  <2>1. /\ UNCHANGED <<disk, gone, file>> /\ mem' \in {mem, file}
        /\ mem' # mem => ~running
        /\ roots \subseteq roots' /\ LibraryRoots \subseteq LibraryRoots' /\ roots' \subseteq Roots
        /\ savedRoots' = roots' /\ (running => roots' = roots)
    <3>1. CASE Enter
      BY <1>1, <3>1 DEF Enter, world, config, RootsOK, LibraryRoots
    <3>2. CASE Rescan
      BY <1>1, <3>2 DEF Rescan, world, config, RootsOK, LibraryRoots
    <3>3. CASE AddRoot
      BY <1>1, <3>3, LibraryAssumption DEF AddRoot, world, RootsOK, LibraryRoots
    <3> QED
      BY <1>1, <3>1, <3>2, <3>3
  <2>2. \/ (running' <=> running) /\ UNCHANGED <<flags, wpc, walk>>
        \/ ~running /\ StartScan(LibraryRoots')
    <3>1. CASE Enter
      BY <3>1 DEF Enter, NoScan, config, LibraryRoots
    <3>2. CASE Rescan
      BY <3>2 DEF Rescan, config, LibraryRoots
    <3>3. CASE AddRoot
      BY <3>3 DEF AddRoot, LibraryRoots
    <3> QED
      BY <1>1, <3>1, <3>2, <3>3
  <2>3. /\ \A f \in DOMAIN Tracks(file') : Home[f] \in LibraryRoots'
        /\ \A f \in DOMAIN Tracks(mem') : Home[f] \in LibraryRoots'
    BY <2>1 DEF HomesOK, Tracks
  <2>4. mem' # NoIndex /\ ~completed => \A f \in DOMAIN Tracks(file') \ gone' : f \in DOMAIN mem'.tracks
    BY <2>1 DEF CoverOK, Covers, Tracks
  <2>5. CASE (running' <=> running) /\ UNCHANGED <<flags, wpc, walk>>
    <3> USE <2>1, <2>5 DEF walk, visit
    <3>1. RootsOK'
      BY DEF RootsOK, LibraryRoots
    <3>2. HomesOK'
      BY <2>3 DEF HomesOK
    <3>3. ScanOK'
      BY DEF ScanOK
    <3>4. LoadedOK' /\ WalkOK'
      BY DEF LoadedOK, WalkOK, Scanning, ToBeMet, Tracks
    <3>5. CoverOK'
      BY <1>0, <2>4 DEF CoverOK, Covers, Tracks
    <3> QED
      BY <3>1, <3>2, <3>3, <3>4, <3>5
  <2>6. CASE ~running /\ StartScan(LibraryRoots') /\ ~((running' <=> running) /\ UNCHANGED <<flags, wpc, walk>>)
    <3>1. /\ running' = TRUE /\ wpc' = "load" /\ scanRoots' = LibraryRoots' /\ todo' = LibraryRoots'
          /\ found' = Nothing /\ completed' = FALSE
      BY <2>6 DEF StartScan
    <3>2. LibraryRoots' \subseteq Roots
      BY <2>1, LibraryAssumption DEF LibraryRoots
    <3>3. RootsOK'
      BY <2>1, <3>1, <3>2 DEF RootsOK
    <3>4. HomesOK'
      BY <2>1, <2>3, <3>1 DEF HomesOK, Nothing
    <3>5. ScanOK' /\ LoadedOK' /\ WalkOK'
      BY <3>1 DEF ScanOK, LoadedOK, WalkOK, Scanning
    <3>6. CoverOK'
      BY <1>0, <2>4, <2>6, <3>1 DEF CoverOK, Covers
    <3> QED
      BY <3>3, <3>4, <3>5, <3>6
  <2> QED
    BY <2>2, <2>5, <2>6
<1>2. CASE savedRoots = roots /\ RemoveRoot
  <2>1. PICK r \in roots :
          /\ ~running /\ mem # NoIndex /\ roots' = roots \ {r} /\ mem' = RemoveFrom(mem, r) /\ file' = mem'
    BY <1>2 DEF RemoveRoot, AfterSave
  <2>2. UNCHANGED <<disk, gone, savedRoots, running, wpc, completed, found, scanRoots, todo, root, cur>>
    BY <1>2 DEF RemoveRoot, world, pane, walk, visit
  <2>3. mem'.tracks = Without(Tracks(mem), r)
    BY <2>1 DEF RemoveFrom
  <2>4. \A f \in DOMAIN Tracks(mem') : f \in DOMAIN Tracks(mem) /\ Home[f] # r
    BY <2>3 DEF Without, Nothing, Tracks
  <2>5. RootsOK'
    BY <1>2, <2>1, <2>2 DEF RootsOK
  <2>6. \A f \in DOMAIN Tracks(mem') : Home[f] \in roots'
    BY <2>1, <2>4 DEF HomesOK, LibraryRoots
  <2>7. HomesOK'
    BY <2>1, <2>2, <2>6 DEF HomesOK, LibraryRoots, Tracks
  <2>8. ScanOK' /\ LoadedOK' /\ WalkOK'
    BY <1>0, <2>1, <2>2 DEF ScanOK, LoadedOK, WalkOK, Scanning
  <2>9. CoverOK'
    BY <1>0, <2>1, <2>2 DEF CoverOK, Covers, Tracks, Nothing
  <2> QED
    BY <2>5, <2>7, <2>8, <2>9
<1>3. CASE savedRoots = roots /\ EditTags
  <2>1. UNCHANGED <<gone, config, file, running, wpc, walk>>
    BY <1>3 DEF EditTags, pane
  <2>2. mem' # NoIndex => mem # NoIndex /\ DOMAIN mem'.tracks = DOMAIN mem.tracks
    <3>1. PICK f \in Files :
            mem' = IF f \in DOMAIN Tracks(mem) THEN [mem EXCEPT !.tracks[f].tags = disk[f] + 1] ELSE mem
      BY <1>3 DEF EditTags
    <3>2. CASE f \notin DOMAIN Tracks(mem)
      BY <3>1, <3>2
    <3>3. CASE f \in DOMAIN Tracks(mem)
      <4> DEFINE u == [mem.tracks EXCEPT ![f].tags = disk[f] + 1]
      <4>1. mem # NoIndex /\ IsIndex(mem)
        BY <3>3 DEF Tracks, Nothing, FInv, FreshIndex
      <4>2. mem' = [mem EXCEPT !.tracks[f].tags = disk[f] + 1]
        BY <3>1, <3>3
      <4>3. mem' = [roots |-> mem.roots, tracks |-> u]
        BY <4>1, <4>2 DEF IsIndex
      <4> QED
        BY <4>1, <4>3
    <3> QED
      BY <3>2, <3>3
  <2>3. RootsOK' /\ ScanOK'
    BY <2>1 DEF RootsOK, ScanOK, LibraryRoots, config, walk, visit
  <2>4. LoadedOK' /\ WalkOK'
    BY <2>1 DEF LoadedOK, WalkOK, Scanning, ToBeMet, Tracks, walk, visit
  <2>5. HomesOK' /\ CoverOK'
    BY <2>1, <2>2 DEF HomesOK, CoverOK, Covers, LibraryRoots, Tracks, Nothing, config, walk
  <2> QED
    BY <2>3, <2>4, <2>5
<1>4. CASE savedRoots = roots /\ PollScan
  <2>1. /\ running' = FALSE /\ completed' = FALSE /\ wpc' = wpc /\ todo' = {} /\ scanRoots' = {} /\ found' = Nothing
        /\ mem' = IF completed THEN [roots |-> scanRoots, tracks |-> found] ELSE mem
        /\ UNCHANGED <<disk, gone, roots, savedRoots, file>>
    BY <1>4 DEF PollScan, WalkOver, world, config
  <2>2. wpc = "idle"
    BY <1>4 DEF PollScan, FInv, VisitOK
  <2>3. RootsOK' /\ ScanOK' /\ LoadedOK' /\ WalkOK'
    BY <1>4, <2>1, <2>2 DEF RootsOK, ScanOK, LoadedOK, WalkOK, Scanning
  <2>4. HomesOK'
    BY <1>4, <2>1 DEF PollScan, HomesOK, RootsOK, LibraryRoots, Tracks, Nothing
  <2>5. CoverOK'
    BY <2>1 DEF CoverOK, Covers, Tracks
  <2> QED
    BY <2>3, <2>4, <2>5
<1>5. CASE Restart
  <2>1. /\ running' = FALSE /\ completed' = FALSE /\ wpc' = "idle" /\ todo' = {} /\ scanRoots' = {} /\ found' = Nothing
        /\ mem' = NoIndex /\ roots' = savedRoots /\ UNCHANGED <<disk, gone, savedRoots, file>>
    BY <1>5 DEF Restart, WalkOver, world
  <2>2. RootsOK' /\ ScanOK' /\ LoadedOK' /\ WalkOK' /\ CoverOK'
    BY <2>1 DEF RootsOK, ScanOK, LoadedOK, WalkOK, Scanning, CoverOK
  <2>3. HomesOK'
    BY <2>1 DEF HomesOK, RootsOK, LibraryRoots, Tracks, Nothing
  <2> QED
    BY <2>2, <2>3
<1>6. CASE Leave \/ CancelScan \/ RemoveSaved
  <2>1. UNCHANGED <<gone, roots, file, mem, running, wpc, walk>> /\ savedRoots' \in {savedRoots, roots}
    BY <1>6 DEF Leave, CancelScan, RemoveSaved, world, config, pane
  <2>2. RootsOK' /\ ScanOK'
    BY <2>1 DEF RootsOK, ScanOK, LibraryRoots, walk, visit
  <2>3. LoadedOK' /\ WalkOK'
    BY <2>1 DEF LoadedOK, WalkOK, Scanning, ToBeMet, Tracks, walk, visit
  <2>4. HomesOK' /\ CoverOK'
    BY <2>1 DEF HomesOK, CoverOK, Covers, LibraryRoots, Tracks, walk
  <2> QED
    BY <2>2, <2>3, <2>4
<1> QED
  BY <1>1, <1>2, <1>3, <1>4, <1>5, <1>6 DEF Interface, User


LEMMA KeptInvariant ==
  ASSUME ~DiskErrs, ~RemovalUnsaved, ~RemovesUnloaded
  PROVE  Spec => []KInv
<1>1. FInv /\ KInv /\ [Next]_vars => KInv'
  <2>1. FInv /\ KInv /\ UNCHANGED vars => KInv'
    BY DEF KInv, RootsOK, HomesOK, ScanOK, Scanning, LoadedOK, WalkOK, ToBeMet, CoverOK, Covers, Tracks,
       LibraryRoots, vars, world, config, pane, flags, walk, visit
  <2> QED
    BY <2>1, WorldKInv, ScanKInv, InterfaceKInv DEF Next
<1> QED
  BY <1>1, InitKInv, FreshInvariant, PTL DEF Spec

\* A file that stays on its disk, in a folder that stays configured, never loses its record in
\* the saved index, whatever is cancelled, unreadable, not written or cut off by a crash: as long
\* as no folder fails while it is walked, a removal is saved, and none comes before the index.
THEOREM RecordsNeverLost ==
  ASSUME ~DiskErrs, ~RemovalUnsaved, ~RemovesUnloaded
  PROVE  Spec => RecordsKept
<1> DEFINE Step ==
      \A f \in Files :
        Saved(f) /\ disk'[f] > 0 /\ Home[f] \in (LibraryRoots \cap LibraryRoots') \ (roots \ roots')
          => Saved(f)'
<1>1. FInv /\ KInv /\ [Next]_vars => [Step]_vars
  <2> SUFFICES ASSUME FInv, KInv, Next, NEW f \in Files, Saved(f), disk'[f] > 0,
                      Home[f] \in (LibraryRoots \cap LibraryRoots') \ (roots \ roots')
               PROVE  f \in DOMAIN Tracks(file')
    BY DEF Saved
  <2>1. f \in DOMAIN Tracks(file)
    BY DEF Saved
  \* What is gone stays gone.
  <2>2. f \notin gone
    <3>1. FInv'
      BY WorldFInv, ScanFInv, InterfaceFInv DEF Next
    <3>2. gone \subseteq gone'
      BY DEF Next, Write, Delete, Worker, ScanLoad, ScanRoot, ScanCancelled, ScanEntry, ScanRootEnd,
         ScanStat, ScanTags, ScanEnds, SaveTemporary, SaveRename, Publish, Inactive, Done, Rest, world,
         Interface, User, Enter, Leave, Rescan, CancelScan, AddRoot, RemoveRoot, EditTags, PollScan,
         RemoveSaved, Restart
    <3> QED
      BY <3>1, <3>2 DEF FInv, DiskOK
  <2>3. CASE SaveRename
    <3>1. [roots |-> scanRoots, tracks |-> found] # NoIndex
      BY IsAnIndex DEF FInv, KInv, RootsOK
    <3>2. completed /\ f \in DOMAIN found
      BY <2>1, <2>2, <2>3 DEF SaveRename, KInv, ScanOK, CoverOK, Covers
    <3> QED
      BY <2>1, <2>3, <3>1, <3>2 DEF SaveRename, Tracks
  <2>4. CASE savedRoots = roots /\ RemoveRoot
    <3>1. PICK r \in roots :
            ~running /\ mem # NoIndex /\ roots' = roots \ {r} /\ mem' = RemoveFrom(mem, r) /\ file' = mem'
      BY <2>4 DEF RemoveRoot, AfterSave
    <3>2. Home[f] # r
      BY <3>1
    <3>3. f \in DOMAIN mem.tracks
      BY <2>1, <2>2, <3>1 DEF KInv, ScanOK, CoverOK, Covers
    <3>4. mem' # NoIndex
      <4>1. FreshTable(disk, gone, Without(Tracks(mem), r))
        BY TracksFresh, WithoutFresh DEF FInv
      <4>2. roots \ {r} \subseteq Roots
        BY DEF KInv, RootsOK
      <4> QED
        BY <3>1, <4>1, <4>2, IsAnIndex DEF RemoveFrom
    <3>5. f \in DOMAIN mem'.tracks
      BY <3>1, <3>2, <3>3 DEF RemoveFrom, Without, Tracks
    <3> QED
      BY <3>1, <3>4, <3>5 DEF Tracks
  <2>5. CASE file' = file
    BY <2>1, <2>5
  <2>6. file' = file \/ SaveRename \/ (savedRoots = roots /\ RemoveRoot)
    BY DEF Next, Write, Delete, Worker, ScanLoad, ScanRoot, ScanCancelled, ScanEntry, ScanRootEnd,
       ScanStat, ScanTags, ScanEnds, SaveTemporary, Publish, Inactive, Done, Interface, User, Enter,
       Leave, Rescan, CancelScan, AddRoot, EditTags, PollScan, RemoveSaved, Restart
  <2> QED
    BY <2>3, <2>4, <2>5, <2>6
<1> QED
  BY <1>1, FreshInvariant, KeptInvariant, PTL DEF Spec, RecordsKept
=============================================================================
